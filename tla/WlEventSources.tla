--------------------------- MODULE WlEventSources ---------------------------
(***************************************************************************)
(* The timers and signals of libwayland's event loop (wayland-server.c),   *)
(* which here are kqueues that the loop watches as it watches any file.    *)
(* Each timer has a kqueue of its own; all signals share one, with one     *)
(* source and a table of handlers that is never shortened.                 *)
(*                                                                         *)
(* The loop itself is libwayland's: epoll_wait() takes a batch of sources  *)
(* that are readable, which are then called one after the other, passing   *)
(* over those removed meanwhile.  in is the callback that runs: what a     *)
(* client does to its own and to other sources may come from inside it.    *)
(* A timer is also its source; its kqueue is never closed, so that it may  *)
(* expire when the timer is gone.  A dispatch whose own callback has freed *)
(* its timer may then go on with freed memory: it calls what it finds      *)
(* there, which stands for the timer's own callback, or the program ends.  *)
(***************************************************************************)
EXTENDS Integers, Sequences, FiniteSets

CONSTANTS Timers,        \* bound: the timers a client ever adds
          Signals,       \* signal numbers
          MAX_TIMERS,    \* 32 in the code
          MAX_SIGNALS    \* 8 in the code

ASSUME TableSizes == {MAX_TIMERS, MAX_SIGNALS} \subseteq Nat \ {0}

NoTimer == "no timer"
NoSignal == "no signal"
SignalSource == "signal_fd_source"

ASSUME TimersAssumption == {NoTimer, SignalSource} \cap Timers = {}

VARIABLES
  timers,            \* the table
  source,            \* per timer, its source: "new", "live" or "removed"
  wheel,             \* per timer, its kqueue: "off", "armed" or "expired"
  asked,             \* per timer, the callback the client has to expect: "no",
                     \* "later", or "due" with the delay it asked for last over
  signal_fd_source,  \* whether the loop watches signal_kq
  signal_handlers,   \* the signals of the table's entries, in order
  filters, pending,  \* signals that signal_kq watches, those that have come
  batch,             \* sources taken by epoll_wait() and not yet called
  in                 \* the callback that runs

timerVars == <<timers, source, wheel, asked>>
signalVars == <<signal_fd_source, signal_handlers, filters, pending>>
loopVars == <<batch, in>>
vars == <<timers, source, wheel, asked, signal_fd_source, signal_handlers,
                filters, pending, batch, in>>

NotIn == [timer |-> NoTimer, signal |-> NoSignal, i |-> 0]

\* The program has ended.
Crashed == [NotIn EXCEPT !.i = -1]

Init ==
  /\ timers = {}
  /\ source = [t \in Timers |-> "new"]
  /\ wheel = [t \in Timers |-> "off"]
  /\ asked = [t \in Timers |-> "no"]
  /\ signal_fd_source = FALSE
  /\ signal_handlers = << >>
  /\ filters = {} /\ pending = {}
  /\ batch = {}
  /\ in = NotIn

-----------------------------------------------------------------------------
(* What the client calls, in a callback or outside.                         *)

\* wl_event_loop_add_timer
AddTimer(t) ==
  /\ source[t] = "new" /\ Cardinality(timers) < MAX_TIMERS
  /\ source' = [source EXCEPT ![t] = "live"]
  /\ timers' = timers \cup {t}
  /\ UNCHANGED <<wheel, asked, signalVars, loopVars>>

Asks(t, arm) == asked' = [asked EXCEPT ![t] = IF arm THEN "later" ELSE "no"]

\* A slip: EV_DELETE is left out, and an event that is there stays there.
TimerUpdateAdds(t, arm) ==
  /\ source[t] = "live" /\ t \in timers
  /\ wheel' = IF arm /\ wheel[t] = "off" THEN [wheel EXCEPT ![t] = "armed"] ELSE wheel
  /\ Asks(t, arm)
  /\ UNCHANGED <<timers, source, signalVars, loopVars>>

\* wl_event_source_timer_update: the event is deleted, expired or not, and added
\* anew with its delay.  A source that is not in the table is refused.
TimerUpdate(t, arm) ==
  /\ source[t] = "live" /\ t \in timers
  /\ wheel' = [wheel EXCEPT ![t] = IF arm THEN "armed" ELSE "off"]
  /\ Asks(t, arm)
  /\ UNCHANGED <<timers, source, signalVars, loopVars>>

\* A slip: the last entry of the table is dropped and not moved into the gap.
UntrackTruncate(t) == timers \ {CHOOSE u \in timers : Cardinality(timers) = 1 \/ u # t}

\* untrack_timer
Untrack(t) == timers \ {t}

\* wl_event_source_remove of a timer's source: the timer is freed, its kqueue is
\* left as it is.
RemoveTimer(t) ==
  /\ source[t] = "live"
  /\ timers' = Untrack(t)
  /\ source' = [source EXCEPT ![t] = "removed"]
  /\ asked' = [asked EXCEPT ![t] = "no"]
  /\ UNCHANGED <<wheel, signalVars, loopVars>>

\* wl_event_loop_add_signal
AddSignal(sig) ==
  /\ Len(signal_handlers) < MAX_SIGNALS
  /\ signal_fd_source' = TRUE
  /\ filters' = filters \cup {sig}
  /\ signal_handlers' = Append(signal_handlers, sig)
  /\ UNCHANGED <<pending, timerVars, loopVars>>

\* wl_event_source_remove of the source all signals share: handlers and filters
\* stay.
RemoveSignal ==
  /\ signal_fd_source
  /\ signal_fd_source' = FALSE
  /\ UNCHANGED <<signal_handlers, filters, pending, timerVars, loopVars>>

-----------------------------------------------------------------------------
(* The kernel and the loop.                                                 *)

Expire(t) ==
  /\ wheel[t] = "armed"
  /\ wheel' = [wheel EXCEPT ![t] = "expired"]
  /\ asked' = [asked EXCEPT ![t] = IF @ = "later" THEN "due" ELSE @]
  /\ UNCHANGED <<timers, source, signalVars, loopVars>>

SignalComes(sig) ==
  /\ sig \in filters \ pending
  /\ pending' = pending \cup {sig}
  /\ UNCHANGED <<signal_fd_source, signal_handlers, filters, timerVars, loopVars>>

ReadySources ==
  {t \in Timers : source[t] = "live" /\ wheel[t] = "expired"}
    \cup (IF signal_fd_source /\ pending # {} THEN {SignalSource} ELSE {})

\* epoll_wait()
Poll ==
  /\ batch = {} /\ in = NotIn
  /\ batch' = ReadySources
  /\ batch' # {}
  /\ UNCHANGED <<timerVars, signalVars, in>>

\* timer_dispatch reads the kqueue, at first and after each callback; the event
\* is one-shot.  A timer that has been freed meanwhile is used all the same.
TimerCalls(t) ==
  IF wheel[t] = "expired"
    THEN /\ wheel' = [wheel EXCEPT ![t] = "off"]
         /\ asked' = [asked EXCEPT ![t] = "no"]
         /\ \/ in' = [NotIn EXCEPT !.timer = t]
            \/ source[t] = "removed" /\ in' = Crashed
    ELSE UNCHANGED <<wheel, asked>> /\ in' = NotIn

TimerDispatch(t) ==
  /\ t \in batch /\ in = NotIn
  /\ batch' = batch \ {t}
  /\ IF source[t] = "live" THEN TimerCalls(t) ELSE UNCHANGED <<wheel, asked, in>>
  /\ UNCHANGED <<timers, source, signalVars>>

TimerReturns(t) ==
  /\ in.timer = t
  /\ TimerCalls(t)
  /\ UNCHANGED <<timers, source, signalVars, batch>>

\* signal_dispatch takes a signal and goes through the table, which a callback
\* may lengthen; then it looks for the next signal.
Handlers(sig, from) == {i \in from .. Len(signal_handlers) : signal_handlers[i] = sig}

\* A slip: one signal is taken, and the rest of what has come is dropped.
TakesSignalOnly ==
  IF pending = {} THEN in' = NotIn /\ UNCHANGED pending
  ELSE \E sig \in pending :
         /\ pending' = {}
         /\ in' = [NotIn EXCEPT !.signal = sig]

TakesSignal ==
  IF pending = {} THEN in' = NotIn /\ UNCHANGED pending
  ELSE \E sig \in pending :
         /\ pending' = pending \ {sig}
         /\ in' = [NotIn EXCEPT !.signal = sig]

SignalDispatch ==
  /\ SignalSource \in batch /\ in = NotIn
  /\ batch' = batch \ {SignalSource}
  /\ IF signal_fd_source THEN TakesSignal ELSE UNCHANGED <<pending, in>>
  /\ UNCHANGED <<timerVars, signal_fd_source, signal_handlers, filters>>

\* The next handler of the signal is called, or there is none left.
SignalReturns ==
  /\ in.signal # NoSignal
  /\ LET more == Handlers(in.signal, in.i + 1)
     IN IF more = {} THEN TakesSignal
        ELSE /\ in' = [in EXCEPT !.i = CHOOSE i \in more : \A j \in more : i <= j]
             /\ UNCHANGED pending
  /\ UNCHANGED <<timerVars, signal_fd_source, signal_handlers, filters, batch>>

-----------------------------------------------------------------------------
ClientCall ==
  \/ \E t \in Timers : AddTimer(t) \/ RemoveTimer(t)
  \/ \E t \in Timers, arm \in BOOLEAN : TimerUpdate(t, arm)
  \/ \E sig \in Signals : AddSignal(sig)
  \/ RemoveSignal

Kernel ==
  \/ \E t \in Timers : Expire(t)
  \/ \E sig \in Signals : SignalComes(sig)

CallTimer(t) == TimerDispatch(t) \/ TimerReturns(t)
CallSignals == SignalDispatch \/ SignalReturns

Next ==
  \/ in # Crashed /\ ClientCall
  \/ Kernel
  \/ Poll
  \/ \E t \in Timers : CallTimer(t)
  \/ CallSignals

Spec == Init /\ [][Next]_vars

\* Timers expire, the loop polls in every round and calls what it took, and each
\* callback returns in the end, whatever it calls before.  Nobody has to add or
\* arm anything, and no signal has to come.
Fairness ==
  /\ \A t \in Timers : WF_vars(Expire(t))
  /\ WF_vars(Poll)
  /\ \A t \in Timers : WF_vars(CallTimer(t))
  /\ WF_vars(CallSignals)

FairSpec == Spec /\ Fairness

-----------------------------------------------------------------------------
\* The types of wayland-server.c's static state; signals come only to filters.
TypeOK ==
  /\ timers \subseteq Timers
  /\ source \in [Timers -> {"new", "live", "removed"}]
  /\ wheel \in [Timers -> {"off", "armed", "expired"}]
  /\ asked \in [Timers -> {"no", "later", "due"}]
  /\ signal_fd_source \in BOOLEAN
  /\ signal_handlers \in Seq(Signals) /\ Len(signal_handlers) <= MAX_SIGNALS
  /\ pending \subseteq filters /\ filters \subseteq Signals
  /\ batch \subseteq Timers \cup {SignalSource}
  /\ in \in [timer : Timers \cup {NoTimer}, signal : Signals \cup {NoSignal}, i : Nat \cup {-1}]

\* The table of timers holds the sources that were added and not removed, whatever
\* is removed from inside a callback: an update of a live timer finds it, and a
\* source that is gone leads nowhere.
TimersTracked == timers = {t \in Timers : source[t] = "live"}

\* An expiry reaches a callback only when the client has armed the timer and the
\* delay it gave last is over: not for an expiry that was in its kqueue, or its
\* source in the batch, before the client stopped, moved or removed it.  The one
\* exception is a timer that its own running callback has removed.
Begins(t) == in'.timer = t /\ wheel[t] = "expired" /\ wheel'[t] = "off"
RemovedItself(t) == in.timer = t /\ source[t] = "removed"
CalledAsAsked ==
  [][\A t \in Timers : Begins(t) =>
       \/ asked[t] = "due" /\ source[t] = "live"
       \/ RemovedItself(t)]_vars

\* "Intercept to clean up timer/signal state" (wayland-server.c:193): a timer that
\* has been removed is not called any more.  The exception of CalledAsAsked: the
\* kqueue is not cleaned up, and a callback that arms its timer and removes it
\* is followed by a call through the timer it freed.
RemovedIsSilent ==
  [][\A t \in Timers : Begins(t) => source[t] # "removed"]_vars

\* A timer that has expired is called, unless the client stops, moves or removes
\* it; and a signal that has come is handled, unless the source of signals is
\* removed.  (signal_dispatch and timer_dispatch read their kqueue until it is
\* empty: signals that never cease, or a timer that arms itself without a delay,
\* keep the loop in one source for ever and are excluded.)
RoundsEnd == []<>(in = NotIn)
TimerFires ==
  RoundsEnd => \A t \in Timers :
    (asked[t] = "due") ~> (in.timer = t \/ asked[t] # "due")
SignalServed ==
  RoundsEnd => \A sig \in Signals :
    (sig \in pending) ~> (sig = in.signal \/ ~signal_fd_source)

\* What wayland-server.c keeps of its sources.
SourcesInv == TypeOK /\ TimersTracked

\* The loop serves its timers and its signals.
SourcesServed == TimerFires /\ SignalServed

=============================================================================
