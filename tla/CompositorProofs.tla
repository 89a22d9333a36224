-------------------------- MODULE CompositorProofs --------------------------
(***************************************************************************)
(* The event loop a compositor runs, WlEventSources, and the input it      *)
(* watches there, LibInput.                                                *)
(*                                                                         *)
(* SourcesInv and CalledAsAsked hold for any timers and signals and any    *)
(* size of the tables.  A timer's kqueue outlives its source, so that it   *)
(* may well expire for nobody: what has to be shown is that such an expiry *)
(* is never read, except by the dispatch whose own callback has removed    *)
(* the timer.                                                              *)
(*                                                                         *)
(* NoLostWakeup holds for any keys, buttons, sizes of the pipe and of the  *)
(* queue.  It speaks of a compositor that sleeps; to be inductive it has   *)
(* to say what happens between two sleeps: a byte may be missing while the *)
(* main thread is bound to call libinput_get_event, and that is always the *)
(* last of the calls it has before it.                                     *)
(*                                                                         *)
(* InputInv, for any keys and buttons: what the client learns is a loop    *)
(* over the events under way, Learnt, of which the lemmas say what it      *)
(* makes of one event more or of the first.  An event of the tap's may be  *)
(* queued before one the pump made earlier; what makes that harmless is    *)
(* that by then the pump makes keys only (InEitherOrder).                  *)
(***************************************************************************)
EXTENDS WlEventSources, LibInput, SequenceTheorems, FiniteSetTheorems,
        WellFoundedInduction, TLAPS

TimerTypes ==
  /\ wheel \in [Timers -> {"off", "armed", "expired"}]
  /\ source \in [Timers -> {"new", "live", "removed"}]
  /\ asked \in [Timers -> {"no", "later", "due"}]
  /\ \E tm, sig, k : in = [timer |-> tm, signal |-> sig, i |-> k]

\* A live timer's kqueue has, or will have, an event only for the delay the client
\* gave last.  And a timer starts with an empty kqueue.
ExpiryInv ==
  \A t \in Timers :
    /\ wheel[t] # "off" => source[t] # "new"
    /\ wheel[t] = "armed" /\ source[t] = "live" => asked[t] = "later"
    /\ wheel[t] = "expired" /\ source[t] = "live" => asked[t] = "due"

IInv == TimersTracked /\ TimerTypes /\ ExpiryInv

LEMMA InitIInv == Init => IInv
<1> SUFFICES ASSUME Init PROVE IInv
  OBVIOUS
<1>1. TimersTracked
  BY DEF Init, TimersTracked
<1>2. TimerTypes
  BY DEF Init, TimerTypes, NotIn
<1>3. ExpiryInv
  BY DEF Init, ExpiryInv
<1> QED
  BY <1>1, <1>2, <1>3 DEF IInv

\* The client's calls; what runs stays what it is.
LEMMA ClientIInv ==
  ASSUME IInv, ClientCall
  PROVE  IInv'
<1> USE DEF loopVars, timerVars
<1>1. ASSUME NEW t \in Timers, AddTimer(t) PROVE IInv'
  BY <1>1 DEF AddTimer, IInv, TimersTracked, TimerTypes, ExpiryInv
<1>2. ASSUME NEW t \in Timers, RemoveTimer(t) PROVE IInv'
  <2>1. TimersTracked'
    BY <1>2 DEF RemoveTimer, Untrack, IInv, TimersTracked, TimerTypes
  <2>2. TimerTypes'
    BY <1>2 DEF RemoveTimer, IInv, TimerTypes
  <2>3. ExpiryInv'
    BY <1>2 DEF RemoveTimer, IInv, TimerTypes, ExpiryInv
  <2> QED
    BY <2>1, <2>2, <2>3 DEF IInv
<1>3. ASSUME NEW t \in Timers, NEW arm \in BOOLEAN, TimerUpdate(t, arm) PROVE IInv'
  <2>1. CASE arm
    <3>1. /\ wheel' = [wheel EXCEPT ![t] = "armed"]
          /\ asked' = [asked EXCEPT ![t] = "later"] /\ source[t] = "live"
          /\ UNCHANGED <<timers, source, in>>
      BY <1>3, <2>1 DEF TimerUpdate, Asks
    <3> QED
      BY <3>1 DEF IInv, TimersTracked, TimerTypes, ExpiryInv
  <2>2. CASE ~arm
    <3>1. /\ wheel' = [wheel EXCEPT ![t] = "off"]
          /\ asked' = [asked EXCEPT ![t] = "no"]
          /\ UNCHANGED <<timers, source, in>>
      BY <1>3, <2>2 DEF TimerUpdate, Asks
    <3> QED
      BY <3>1 DEF IInv, TimersTracked, TimerTypes, ExpiryInv
  <2> QED
    BY <2>1, <2>2
<1>4. CASE UNCHANGED <<timerVars, loopVars>>
  BY <1>4 DEF IInv, TimersTracked, TimerTypes, ExpiryInv
<1> QED
  BY <1>1, <1>2, <1>3, <1>4 DEF ClientCall, AddSignal, RemoveSignal

\* Reading a timer's kqueue.
LEMMA CallsIInv ==
  ASSUME IInv, NEW t \in Timers, TimerCalls(t),
         UNCHANGED <<timers, source>>
  PROVE  IInv'
<1>1. CASE wheel[t] = "expired"
  <2>1. /\ wheel' = [wheel EXCEPT ![t] = "off"]
        /\ asked' = [asked EXCEPT ![t] = "no"]
        /\ \/ in' = [timer |-> t, signal |-> NoSignal, i |-> 0]
           \/ in' = [timer |-> NoTimer, signal |-> NoSignal, i |-> -1]
    BY <1>1 DEF TimerCalls, NotIn, Crashed
  <2>2. ExpiryInv'
    BY <2>1 DEF IInv, TimerTypes, ExpiryInv
  <2> QED
    BY <2>1, <2>2 DEF IInv, TimersTracked, TimerTypes
<1>2. CASE wheel[t] # "expired"
  <2>1. UNCHANGED <<wheel, asked>> /\ in' = NotIn
    BY <1>2 DEF TimerCalls
  <2>2. in'.timer \notin Timers
    BY <2>1, TimersAssumption DEF NotIn
  <2>3. ExpiryInv'
    BY <2>1, <2>2 DEF IInv, ExpiryInv
  <2> QED
    BY <2>1, <2>3 DEF IInv, TimersTracked, TimerTypes, NotIn
<1> QED
  BY <1>1, <1>2

\* The signals' callbacks say nothing of timers.
LEMMA SignalsIInv ==
  ASSUME IInv, CallSignals
  PROVE  IInv'
<1>1. UNCHANGED timerVars
  BY DEF CallSignals, SignalDispatch, SignalReturns
<1>2. PICK tm, sig, k : in = [timer |-> tm, signal |-> sig, i |-> k]
  BY DEF IInv, TimerTypes
<1>3. \/ in' = in
      \/ in' = NotIn
      \/ \E s \in pending : in' = [timer |-> NoTimer, signal |-> s, i |-> 0]
      \/ \E j : in' = [timer |-> tm, signal |-> sig, i |-> j]
  BY <1>2 DEF CallSignals, SignalDispatch, SignalReturns, TakesSignal, NotIn
<1>4. /\ \E tm2, sig2, k2 : in' = [timer |-> tm2, signal |-> sig2, i |-> k2]
      /\ in'.timer \in Timers => in'.timer = in.timer
  BY <1>2, <1>3, TimersAssumption DEF NotIn
<1> QED
  BY <1>1, <1>4 DEF timerVars, IInv, TimersTracked, TimerTypes, ExpiryInv

\* Every step of WlEventSources keeps the invariant.
LEMMA NextIInv == IInv /\ [Next]_vars => IInv'
<1> SUFFICES ASSUME IInv, [Next]_vars PROVE IInv'
  OBVIOUS
<1>1. CASE ClientCall
  BY <1>1, ClientIInv
<1>2. ASSUME NEW t \in Timers, Expire(t) PROVE IInv'
  BY <1>2 DEF Expire, loopVars, IInv, TimersTracked, TimerTypes, ExpiryInv
<1>3. ASSUME NEW sig \in Signals, SignalComes(sig) PROVE IInv'
  BY <1>3 DEF SignalComes, timerVars, loopVars, IInv, TimersTracked, TimerTypes,
              ExpiryInv
<1>4. CASE Poll
  BY <1>4 DEF Poll, timerVars, IInv, TimersTracked, TimerTypes, ExpiryInv
<1>5. ASSUME NEW t \in Timers, TimerDispatch(t) PROVE IInv'
  <2>1. CASE source[t] = "live"
    BY <1>5, <2>1, CallsIInv DEF TimerDispatch
  <2>2. CASE source[t] # "live"
    BY <1>5, <2>2 DEF TimerDispatch, IInv, TimersTracked, TimerTypes, ExpiryInv
  <2> QED
    BY <2>1, <2>2
<1>6. ASSUME NEW t \in Timers, TimerReturns(t) PROVE IInv'
  BY <1>6, CallsIInv DEF TimerReturns
<1>7. CASE CallSignals
  BY <1>7, SignalsIInv
<1>8. CASE UNCHANGED vars
  BY <1>8 DEF vars, IInv, TimersTracked, TimerTypes, ExpiryInv
<1> QED
  BY <1>1, <1>2, <1>3, <1>4, <1>5, <1>6, <1>7, <1>8 DEF Next, Kernel, CallTimer

\* In every state of WlEventSources the invariant holds.
THEOREM Invariance == Spec => []IInv
BY InitIInv, NextIInv, PTL DEF Spec

\* The table of timers and the live sources are one.
THEOREM Tracked == Spec => []TimersTracked
<1>1. IInv => TimersTracked
  BY DEF IInv
<1> QED
  BY <1>1, Invariance, PTL

\* A set of table indices has a smallest.
LEMMA Smallest ==
  ASSUME NEW S \in SUBSET Nat, S # {}
  PROVE  \E i \in S : \A j \in S : i <= j
<1>1. IsWellFoundedOn(OpToRel(<, Nat), Nat)
  BY NatLessThanWellFounded
<1>2. PICK i \in S : \A j \in S : ~ (<<j, i>> \in OpToRel(<, Nat))
  BY <1>1, WFMin
<1>3. \A j \in S : <<j, i>> \in OpToRel(<, Nat) <=> j < i
  BY DEF OpToRel
<1>4. \A j \in S : ~ (j < i)
  BY <1>2, <1>3, Zenon
<1> QED
  BY <1>4

\* A signal that is called is one that was added, though the table is read again
\* after every callback: the types are inductive by themselves.
LEMMA SignalsTypeOK ==
  ASSUME TypeOK, TakesSignal, UNCHANGED timerVars
  PROVE  /\ pending' \subseteq pending
         /\ in' \in [timer : Timers \cup {NoTimer}, signal : Signals \cup {NoSignal},
                   i : Nat \cup {-1}]
<1>1. CASE pending = {}
  BY <1>1 DEF TypeOK, TakesSignal, NotIn
<1>2. CASE pending # {}
  BY <1>2 DEF TypeOK, TakesSignal, NotIn
<1> QED
  BY <1>1, <1>2

LEMMA CallTypeOK ==
  ASSUME TypeOK, NEW t \in Timers, TimerCalls(t)
  PROVE  /\ wheel' \in [Timers -> {"off", "armed", "expired"}]
         /\ asked' \in [Timers -> {"no", "later", "due"}]
         /\ in' \in [timer : Timers \cup {NoTimer}, signal : Signals \cup {NoSignal},
                   i : Nat \cup {-1}]
<1>1. CASE wheel[t] = "expired"
  BY <1>1 DEF TypeOK, TimerCalls, NotIn, Crashed
<1>2. CASE wheel[t] # "expired"
  BY <1>2 DEF TypeOK, TimerCalls, NotIn
<1> QED
  BY <1>1, <1>2

LEMMA NextTypeOK == TypeOK /\ [Next]_vars => TypeOK'
<1> SUFFICES ASSUME TypeOK, [Next]_vars PROVE TypeOK'
  OBVIOUS
<1> USE DEF TypeOK, timerVars, signalVars, loopVars
<1>1. ASSUME NEW t \in Timers, AddTimer(t) PROVE TypeOK'
  BY <1>1 DEF AddTimer
<1>2. ASSUME NEW t \in Timers, RemoveTimer(t) PROVE TypeOK'
  BY <1>2 DEF RemoveTimer, Untrack
<1>3. ASSUME NEW t \in Timers, NEW arm \in BOOLEAN, TimerUpdate(t, arm) PROVE TypeOK'
  BY <1>3 DEF TimerUpdate, Asks
<1>4. ASSUME NEW sig \in Signals, AddSignal(sig) PROVE TypeOK'
  <2>1. /\ signal_handlers' \in Seq(Signals)
        /\ Len(signal_handlers') = Len(signal_handlers) + 1
    BY <1>4, AppendProperties DEF AddSignal
  <2>2. Len(signal_handlers') <= MAX_SIGNALS
    BY <1>4, <2>1, TableSizes DEF AddSignal
  <2> QED
    BY <1>4, <2>1, <2>2 DEF AddSignal
<1>5. CASE RemoveSignal
  BY <1>5 DEF RemoveSignal
<1>6. ASSUME NEW t \in Timers, Expire(t) PROVE TypeOK'
  BY <1>6 DEF Expire
<1>7. ASSUME NEW sig \in Signals, SignalComes(sig) PROVE TypeOK'
  BY <1>7 DEF SignalComes
<1>8. CASE Poll
  BY <1>8 DEF Poll, ReadySources
<1>9. ASSUME NEW t \in Timers, TimerDispatch(t) PROVE TypeOK'
  <2>1. CASE source[t] = "live"
    BY <1>9, <2>1, CallTypeOK DEF TimerDispatch
  <2>2. CASE source[t] # "live"
    BY <1>9, <2>2 DEF TimerDispatch
  <2> QED
    BY <2>1, <2>2
<1>10. ASSUME NEW t \in Timers, TimerReturns(t) PROVE TypeOK'
  BY <1>10, CallTypeOK DEF TimerReturns
<1>11. CASE SignalDispatch
  <2>1. CASE signal_fd_source
    BY <1>11, <2>1, SignalsTypeOK DEF SignalDispatch
  <2>2. CASE ~signal_fd_source
    BY <1>11, <2>2 DEF SignalDispatch
  <2> QED
    BY <2>1, <2>2
<1>12. CASE SignalReturns
  <2> DEFINE more == Handlers(in.signal, in.i + 1)
  <2>1. CASE more = {}
    BY <1>12, <2>1, SignalsTypeOK DEF SignalReturns
  <2>2. CASE more # {}
    <3>1. more \in SUBSET Nat
      BY DEF Handlers
    <3>2. \E i \in more : \A j \in more : i <= j
      <4> HIDE DEF more
      <4> QED
        BY <2>2, <3>1, Smallest
    <3>3. PICK k \in more : in' = [in EXCEPT !.i = k]
      BY <1>12, <2>2, <3>2 DEF SignalReturns
    <3> QED
      BY <1>12, <2>2, <3>1, <3>3 DEF SignalReturns
  <2> QED
    BY <2>1, <2>2
<1>13. CASE UNCHANGED vars
  BY <1>13 DEF vars
<1> QED
  BY <1>1, <1>2, <1>3, <1>4, <1>5, <1>6, <1>7, <1>8, <1>9, <1>10, <1>11, <1>12,
     <1>13 DEF Next, ClientCall, Kernel, CallTimer, CallSignals

\* What wayland-server.c keeps of its sources stays of its types, the table of
\* signals within its size, and the table of timers one with the live sources.
THEOREM SourcesKept == Spec => []SourcesInv
<1>1. Init => TypeOK
  <2>1. << >> \in Seq(Signals) /\ Len(<< >>) = 0
    BY EmptySeq
  <2>2. MAX_SIGNALS \in Nat \ {0}
    BY TableSizes
  <2> SUFFICES ASSUME Init PROVE TypeOK
    OBVIOUS
  <2>3. in \in [timer : Timers \cup {NoTimer}, signal : Signals \cup {NoSignal},
               i : Nat \cup {-1}]
    BY DEF Init, NotIn
  <2>4. signal_handlers \in Seq(Signals) /\ Len(signal_handlers) <= MAX_SIGNALS
    BY <2>1, <2>2 DEF Init
  <2> QED
    BY <2>3, <2>4 DEF Init, TypeOK
<1>2. Spec => []TypeOK
  BY <1>1, NextTypeOK, PTL DEF Spec
<1>3. TypeOK /\ TimersTracked => SourcesInv
  BY DEF SourcesInv
<1> QED
  BY <1>2, <1>3, Tracked, PTL

\* An expiry the client has stopped, moved or removed reaches no callback, though
\* its event was in the kqueue or its source in the batch, unless it is the
\* timer's own callback, still running, that removed it.
THEOREM AsAsked == Spec => CalledAsAsked
<1> DEFINE Asked(t) == \/ asked[t] = "due" /\ source[t] = "live"
                       \/ RemovedItself(t)
           Called == \A t \in Timers : Begins(t) => Asked(t)
<1>1. ASSUME IInv, Next, NEW t \in Timers, Begins(t)
      PROVE  Asked(t)
  <2>1. wheel[t] = "expired" /\ wheel' # wheel /\ in'.timer = t
    BY <1>1 DEF Begins
  <2>2. source[t] \in {"live", "removed"} /\ (source[t] = "live" => asked[t] = "due")
    BY <1>1, <2>1 DEF IInv, TimerTypes, ExpiryInv
  <2>3. CASE in.timer = t
    BY <2>2, <2>3 DEF RemovedItself
  <2>4. CASE in.timer # t
    <3>1. ~ CallSignals
      BY <2>1 DEF CallSignals, SignalDispatch, SignalReturns, timerVars
    <3>2. in' # in
      BY <2>1, <2>4
    <3>3. PICK u \in Timers : CallTimer(u)
      BY <1>1, <3>1, <3>2 DEF Next, ClientCall, Kernel, AddTimer, RemoveTimer,
         TimerUpdate, AddSignal, RemoveSignal, Expire, SignalComes, Poll, loopVars
    <3>4. TimerCalls(u) /\ (source[u] = "live" \/ in.timer = u)
      BY <3>2, <3>3 DEF CallTimer, TimerDispatch, TimerReturns
    <3>5. u = t
      BY <2>1, <3>4, TimersAssumption DEF TimerCalls, NotIn, Crashed
    <3> QED
      BY <2>2, <2>4, <3>4, <3>5
  <2> QED
    BY <2>3, <2>4
<1>2. IInv /\ [Next]_vars => [Called]_vars
  BY <1>1
<1> QED
  BY <1>2, Invariance, PTL DEF Spec, CalledAsAsked

-----------------------------------------------------------------------------
(* Input.                                                                   *)

\* What the main thread may have before it: a dispatch followed by taking events,
\* first the calls that bring SDL up; or only these, when no context is made.
Plans ==
  {<< >>,
   <<"start_raw_mouse_capture">>,
   <<"libinput_get_event">>,
   <<"libinput_dispatch", "libinput_get_event">>,
   <<"start_raw_mouse_capture", "libinput_dispatch", "libinput_get_event">>,
   <<"sdl_backend_init", "libinput_dispatch", "libinput_get_event">>}

WillTake == calls \notin {<< >>, <<"start_raw_mouse_capture">>}

\* Every event in the queue is announced by a byte, a thread about to write one,
\* or a compositor that is on its way to take it.
WakeInv ==
  (pipe = "open" /\ ev # << >> /\ \A t \in Injectors : pc[t] # "write")
    => bytes > 0 \/ WillTake

WakeIInv ==
  /\ calls \in Plans
  /\ bytes \in Nat
  /\ pc \in [Injectors -> {"append", "overwrite", "write"}]
  /\ WakeInv

\* Head and tail of short sequences.
LEMMA Short1 == \A a : Head(<<a>>) = a /\ Tail(<<a>>) = << >>
OBVIOUS

LEMMA Short2 == \A a, b : Head(<<a, b>>) = a /\ Tail(<<a, b>>) = <<b>>
OBVIOUS

LEMMA Short3 == \A a, b, c : Head(<<a, b, c>>) = a /\ Tail(<<a, b, c>>) = <<b, c>>
OBVIOUS

LEMMA Prepended ==
  ASSUME NEW S, NEW a \in S, NEW b \in S, NEW c \in S
  PROVE  <<a>> \o <<b, c>> = <<a, b, c>>
<1>1. <<a>> \o <<b, c>> \in Seq(S) /\ <<a, b, c>> \in Seq(S)
  OBVIOUS
<1>2. Len(<<a>> \o <<b, c>>) = 3 /\ Len(<<a, b, c>>) = 3
  OBVIOUS
<1>3. \A i \in 1 .. 3 : (<<a>> \o <<b, c>>)[i] = <<a, b, c>>[i]
  OBVIOUS
<1> QED
  BY <1>1, <1>2, <1>3, SeqEqual

\* The call that returns next determines what is left when it has.
LEMMA NextCall ==
  ASSUME calls \in Plans, calls # << >>
  PROVE  /\ Head(calls) = "sdl_backend_init" =>
              Tail(calls) = <<"libinput_dispatch", "libinput_get_event">>
         /\ Head(calls) = "start_raw_mouse_capture" =>
              \/ calls = <<"start_raw_mouse_capture">> /\ Tail(calls) = << >>
              \/ Tail(calls) = <<"libinput_dispatch", "libinput_get_event">>
         /\ Head(calls) = "libinput_dispatch" => Tail(calls) = <<"libinput_get_event">>
         /\ Head(calls) = "libinput_get_event" =>
              calls = <<"libinput_get_event">> /\ Tail(calls) = << >>
<1>1. CASE calls = <<"start_raw_mouse_capture">>
  <2>1. /\ Head(calls) = "start_raw_mouse_capture"
        /\ Tail(calls) = << >>
    BY <1>1, Short1
  <2> QED
    BY <1>1, <2>1
<1>2. CASE calls = <<"libinput_get_event">>
  <2>1. /\ Head(calls) = "libinput_get_event"
        /\ Tail(calls) = << >>
    BY <1>2, Short1
  <2> QED
    BY <1>2, <2>1
<1>3. CASE calls = <<"libinput_dispatch", "libinput_get_event">>
  <2>1. /\ Head(calls) = "libinput_dispatch"
        /\ Tail(calls) = <<"libinput_get_event">>
    BY <1>3, Short2
  <2> QED
    BY <1>3, <2>1
<1>4. CASE calls = <<"start_raw_mouse_capture", "libinput_dispatch", "libinput_get_event">>
  <2>1. /\ Head(calls) = "start_raw_mouse_capture"
        /\ Tail(calls) = <<"libinput_dispatch", "libinput_get_event">>
    BY <1>4, Short3
  <2> QED
    BY <1>4, <2>1
<1>5. CASE calls = <<"sdl_backend_init", "libinput_dispatch", "libinput_get_event">>
  <2>1. /\ Head(calls) = "sdl_backend_init"
        /\ Tail(calls) = <<"libinput_dispatch", "libinput_get_event">>
    BY <1>5, Short3
  <2> QED
    BY <1>5, <2>1
<1> QED
  BY <1>1, <1>2, <1>3, <1>4, <1>5 DEF Plans

\* The plans that end with libinput_get_event are not among the others.
LEMMA Taking ==
  \A c \in Plans :
    c \in {<<"libinput_get_event">>, <<"libinput_dispatch", "libinput_get_event">>,
           <<"start_raw_mouse_capture", "libinput_dispatch", "libinput_get_event">>}
    => c \notin {<< >>, <<"start_raw_mouse_capture">>}
OBVIOUS

LEMMA WakeInit == InputInit => WakeIInv
BY DEF InputInit, WakeIInv, Plans, WakeInv, Injectors

\* A thread in queue_event: once the event is in, its byte is on the way.
LEMMA QueueStepWakes ==
  ASSUME WakeIInv, NEW t \in Injectors, QueueStep(t)
  PROVE  WakeIInv'
<1>1. calls' = calls
  BY DEF QueueStep, QueueEvent, QueueEventUnlocked, Overwrite,
         WriteByte
<1>2. CASE QueueEvent(t) \/ Overwrite(t)
  <2>1. pc' = [pc EXCEPT ![t] = "write"] /\ bytes' = bytes
    BY <1>2 DEF QueueEvent, Overwrite, Append1
  <2> QED
    BY <1>1, <2>1 DEF WakeIInv, WakeInv
<1>3. CASE QueueEventUnlocked(t)
  <2>1. /\ pc' = [pc EXCEPT ![t] = "overwrite"] /\ pc[t] = "append"
        /\ bytes' = bytes /\ pipe' = pipe /\ ev' = ev
    BY <1>3 DEF QueueEventUnlocked
  <2> QED
    BY <1>1, <2>1 DEF WakeIInv, WakeInv, WillTake
<1>4. CASE WriteByte(t)
  <2>1. /\ pc' = [pc EXCEPT ![t] = "append"]
        /\ bytes' = IF pipe = "open" THEN bytes + 1 ELSE bytes
        /\ pipe' = pipe
    BY <1>4 DEF WriteByte
  <2> QED
    BY <1>1, <2>1 DEF WakeIInv, WakeInv
<1> QED
  BY <1>2, <1>3, <1>4 DEF QueueStep

\* Input and the tap's start touch neither queue nor pipe.
LEMMA ElsewhereWakes ==
  ASSUME WakeIInv, calls' \in Plans, WillTake => WillTake',
         UNCHANGED <<ev, pipe, bytes, pc>>
  PROVE  WakeIInv'
BY DEF WakeIInv, WakeInv

\* The calls before the first dispatch and those that need no thread's help.
LEMMA MainWakes ==
  ASSUME WakeIInv,
         \/ HandleSdlEvent \/ RawMouseTap \/ CreateContext \/ Unref
         \/ SdlBackendInit \/ Wake \/ MainStep
  PROVE  WakeIInv'
<1> USE DEF queueVars
<1>1. CASE HandleSdlEvent \/ RawMouseTap
  BY <1>1, ElsewhereWakes DEF HandleSdlEvent, RawMouseTap, WakeIInv, WillTake
<1>2. CASE CreateContext
  <2>1. /\ calls' \in Plans /\ WillTake'
        /\ bytes' = 0 /\ pc' = pc
    BY <1>2 DEF CreateContext, Plans, WillTake
  <2> QED
    BY <2>1 DEF WakeIInv, WakeInv
<1>3. CASE Unref
  BY <1>3 DEF Unref, WakeIInv, WakeInv
<1>4. CASE SdlBackendInit
  <2>1. CASE calls = << >> /\ calls' = <<"start_raw_mouse_capture">>
    BY <1>4, <2>1, ElsewhereWakes DEF SdlBackendInit, Plans, WillTake
  <2>2. CASE /\ Return("sdl_backend_init")
             /\ calls' = <<"start_raw_mouse_capture">> \o Tail(calls)
    <3>1. Tail(calls) = <<"libinput_dispatch", "libinput_get_event">>
      BY <2>2, NextCall DEF Return, WakeIInv
    <3>2. calls' = <<"start_raw_mouse_capture", "libinput_dispatch",
                     "libinput_get_event">>
      <4>1. {"start_raw_mouse_capture", "libinput_dispatch", "libinput_get_event"}
              \subseteq Calls
        BY DEF Calls
      <4>2. <<"start_raw_mouse_capture">> \o <<"libinput_dispatch", "libinput_get_event">>
              = <<"start_raw_mouse_capture", "libinput_dispatch", "libinput_get_event">>
        BY <4>1, Prepended
      <4> QED
        BY <2>2, <3>1, <4>2
    <3>3. calls' \in Plans /\ WillTake'
      BY <3>2, Taking DEF Plans, WillTake
    <3> QED
      BY <1>4, <3>3, ElsewhereWakes DEF SdlBackendInit
  <2> QED
    BY <1>4, <2>1, <2>2 DEF SdlBackendInit, InLoop
<1>5. CASE Wake
  <2>1. calls' \in Plans /\ WillTake'
    BY <1>5, Taking DEF Wake, Plans, WillTake
  <2> QED
    BY <1>5, <2>1, ElsewhereWakes DEF Wake
<1>6. CASE SdlBackendInitNot
  <2>1. calls' = <<"libinput_dispatch", "libinput_get_event">>
    BY <1>6, NextCall DEF SdlBackendInitNot, Return, WakeIInv
  <2>2. calls' \in Plans /\ WillTake'
    BY <2>1, Taking DEF Plans, WillTake
  <2> QED
    BY <1>6, <2>2, ElsewhereWakes DEF SdlBackendInitNot
<1>7. CASE StartRawMouseCapture
  <2>1. \/ calls = <<"start_raw_mouse_capture">> /\ calls' = << >>
        \/ calls' = <<"libinput_dispatch", "libinput_get_event">>
    BY <1>7, NextCall DEF StartRawMouseCapture, Return, WakeIInv
  <2>2. calls' \in Plans /\ (WillTake => WillTake')
    BY <2>1, Taking DEF Plans, WillTake
  <2> QED
    BY <1>7, <2>2, ElsewhereWakes DEF StartRawMouseCapture
<1>8. CASE Dispatch
  <2>1. calls' = <<"libinput_get_event">>
    BY <1>8, NextCall DEF Dispatch, Return, WakeIInv
  <2>2. calls' \in Plans /\ WillTake'
    BY <2>1, Taking DEF Plans, WillTake
  <2> QED
    BY <1>8, <2>2 DEF Dispatch, WakeIInv, WakeInv
<1>9. CASE GetEvent
  <2>1. calls = <<"libinput_get_event">> /\ Tail(calls) = << >>
    BY <1>9, NextCall DEF GetEvent, Return, WakeIInv
  <2>2. CASE ev = << >>
    <3>1. calls' = << >> /\ ev' = << >>
      BY <1>9, <2>1, <2>2 DEF GetEvent
    <3> QED
      BY <1>9, <3>1 DEF GetEvent, Plans, WakeIInv, WakeInv
  <2>3. CASE ev # << >>
    <3>1. calls' = calls
      BY <1>9, <2>3 DEF GetEvent
    <3>2. calls' \in Plans /\ WillTake'
      BY <2>1, <3>1, Taking DEF Plans, WillTake
    <3> QED
      BY <1>9, <3>2 DEF GetEvent, WakeIInv, WakeInv
  <2> QED
    BY <2>2, <2>3
<1> QED
  BY <1>1, <1>2, <1>3, <1>4, <1>5, <1>6, <1>7, <1>8, <1>9 DEF MainStep

LEMMA WakeNext == WakeIInv /\ [InputNext]_inputVars => WakeIInv'
<1> SUFFICES ASSUME WakeIInv, [InputNext]_inputVars PROVE WakeIInv'
  OBVIOUS
<1>1. CASE UNCHANGED inputVars
  BY <1>1 DEF inputVars, WakeIInv, WakeInv, WillTake
<1>2. CASE InputNext
  BY <1>2, QueueStepWakes, MainWakes DEF InputNext
<1> QED
  BY <1>1, <1>2

\* In every state of LibInput an event is announced or about to be taken.
THEOREM WakeInvariance == InputSpec => []WakeIInv
BY WakeInit, WakeNext, PTL DEF InputSpec

\* No event of the input thread is left in the queue of a compositor that sleeps,
\* however its queue_event interleaves with libinput_dispatch and get_event.
THEOREM WakeUps == InputSpec => []NoLostWakeup
<1>1. WakeIInv => NoLostWakeup
  BY DEF WakeIInv, WakeInv, WillTake, NoLostWakeup
<1> QED
  BY <1>1, WakeInvariance, PTL

-----------------------------------------------------------------------------
(* What the client learns from a sequence of events.                        *)

\* A client's beliefs, and the events that are made: a key or button that is
\* pressed or released has a code.
Clients == [told : SUBSET Devices, pressed : SUBSET Codes, sane : BOOLEAN]
MadeEvents ==
  {e \in EventType : e.type \in {"PRESSED", "RELEASED"} => e.code \in Codes}

\* Induction from 0 up to n.
LEMMA Upwards ==
  ASSUME NEW n \in Nat, NEW A, 0 \in A, \A i \in 1 .. n : i - 1 \in A => i \in A
  PROVE  \A i \in 0 .. n : i \in A
<1> DEFINE bad == {i \in 0 .. n : i \notin A}
<1> SUFFICES ASSUME bad # {} PROVE FALSE
  OBVIOUS
<1>1. PICK k \in bad : \A m \in bad : k <= m
  <2>1. bad \in SUBSET Nat
    OBVIOUS
  <2> HIDE DEF bad
  <2> QED
    BY <2>1, Smallest
<1>2. k \in 1 .. n /\ k - 1 \in 0 .. n /\ k - 1 \notin bad
  BY <1>1
<1> QED
  BY <1>1, <1>2

LEMMA TakesType ==
  ASSUME NEW c \in Clients, NEW e \in MadeEvents
  PROVE  Takes(c, e) \in Clients
<1>1. Pressed(c, e) \subseteq Codes
  BY DEF Pressed, Clients, MadeEvents, EventType, Types
<1>3. MakesSense(c, e) \in BOOLEAN
  <2>1. e.type \in Types
    BY DEF MadeEvents, EventType
  <2>2. CASE e.type = "DEVICE_ADDED"
    BY <2>2 DEF MakesSense
  <2>3. CASE e.type = "MOTION"
    BY <2>3 DEF MakesSense
  <2>4. CASE e.type \in {"PRESSED", "RELEASED"}
    BY <2>4 DEF MakesSense
  <2> QED
    BY <2>1, <2>2, <2>3, <2>4 DEF Types
<1>2. c.told \cup {e.device} \subseteq Devices
  BY DEF Clients, MadeEvents, EventType
<1> QED
  BY <1>1, <1>2, <1>3 DEF Takes, Clients

\* f is what is known after each of the first k events of q.
Course(f, k, q, c) ==
  /\ f \in [0 .. k -> Clients] /\ f[0] = c
  /\ \A i \in 1 .. k : f[i] = Takes(f[i - 1], q[i])

LEMMA CourseExists ==
  ASSUME NEW q \in Seq(MadeEvents), NEW c \in Clients
  PROVE  Course(Known(q, c), Len(q), q, c)
<1> DEFINE n == Len(q)
           A == {k \in 0 .. n : \E f : Course(f, k, q, c)}
<1>0. n \in Nat
  OBVIOUS
<1>1. 0 \in A
  <2>1. Course([i \in 0 .. 0 |-> c], 0, q, c)
    BY DEF Course
  <2> QED
    BY <1>0, <2>1
<1>2. ASSUME NEW k \in 1 .. n, k - 1 \in A PROVE k \in A
  <2>1. PICK f : Course(f, k - 1, q, c)
    BY <1>2
  <2>2. q[k] \in MadeEvents
    BY <1>2
  <2> DEFINE g == [i \in 0 .. k |-> IF i = k THEN Takes(f[k - 1], q[k]) ELSE f[i]]
  <2>3. f[k - 1] \in Clients
    BY <2>1 DEF Course
  <2>4. Takes(f[k - 1], q[k]) \in Clients
    BY <2>2, <2>3, TakesType
  <2>5. g \in [0 .. k -> Clients] /\ g[0] = c
    BY <2>1, <2>4 DEF Course
  <2>6. ASSUME NEW i \in 1 .. k PROVE g[i] = Takes(g[i - 1], q[i])
    <3>1. g[i - 1] = f[i - 1]
      OBVIOUS
    <3>2. CASE i = k
      BY <3>1, <3>2
    <3>3. CASE i # k
      <4>1. i \in 1 .. k - 1 /\ g[i] = f[i]
        BY <3>3
      <4>2. f[i] = Takes(f[i - 1], q[i])
        BY <2>1, <4>1 DEF Course
      <4> QED
        BY <3>1, <4>1, <4>2
    <3> QED
      BY <3>2, <3>3
  <2> HIDE DEF g
  <2>7. Course(g, k, q, c)
    BY <2>5, <2>6 DEF Course
  <2> QED
    BY <2>7
<1>3. PICK f : Course(f, n, q, c)
  <2> HIDE DEF A
  <2>1. \A i \in 0 .. n : i \in A
    BY <1>0, <1>1, <1>2, Upwards
  <2>2. n \in A
    BY <1>0, <2>1
  <2> QED
    BY <2>2 DEF A
<1> DEFINE Is(g) == g = [i \in 0 .. n |-> IF i = 0 THEN c ELSE Takes(g[i - 1], q[i])]
<1>4. Is(f)
  BY <1>3 DEF Course
<1>5. Known(q, c) = CHOOSE g : Is(g)
  BY DEF Known
<1>6. Is(Known(q, c))
  <2> HIDE DEF Is
  <2> QED
    BY <1>4, <1>5
<1> DEFINE h == Known(q, c)
<1>7. h = [i \in 0 .. n |-> IF i = 0 THEN c ELSE Takes(h[i - 1], q[i])]
  BY <1>6
<1> HIDE DEF h
<1>8. /\ h[0] = c
      /\ \A i \in 1 .. n : h[i] = Takes(h[i - 1], q[i])
  BY <1>0, <1>7
<1>9. \A i \in 0 .. n : i \in {j \in 0 .. n : h[j] \in Clients}
  <2> DEFINE B == {j \in 0 .. n : h[j] \in Clients}
  <2>1. 0 \in B
    BY <1>0, <1>8
  <2>2. ASSUME NEW i \in 1 .. n, i - 1 \in B PROVE i \in B
    <3>1. q[i] \in MadeEvents /\ h[i - 1] \in Clients
      BY <2>2
    <3> QED
      BY <1>8, <3>1, TakesType
  <2> HIDE DEF B
  <2>3. \A i \in 0 .. n : i \in B
    BY <1>0, <2>1, <2>2, Upwards
  <2> QED
    BY <2>3 DEF B
<1>10. h \in [0 .. n -> Clients]
  BY <1>7, <1>9
<1> QED
  BY <1>8, <1>10 DEF Course, h

\* A run is the only one: it starts and goes on as it must.
LEMMA SameCourse ==
  ASSUME NEW n \in Nat, NEW f, NEW g, f[0] = g[0],
         \A i \in 1 .. n : f[i - 1] = g[i - 1] => f[i] = g[i]
  PROVE  f[n] = g[n]
<1> DEFINE A == {i \in 0 .. n : f[i] = g[i]}
<1>1. 0 \in A
  OBVIOUS
<1>2. \A i \in 1 .. n : i - 1 \in A => i \in A
  OBVIOUS
<1> HIDE DEF A
<1>3. \A i \in 0 .. n : i \in A
  BY <1>1, <1>2, Upwards
<1>4. n \in A
  BY <1>3
<1> QED
  BY <1>4 DEF A

\* What is learnt from no events, from one more, and from the first of several.
LEMMA LearntNothing ==
  ASSUME NEW c \in Clients
  PROVE  Learnt(<< >>, c) = c
<1>1. Course(Known(<< >>, c), 0, << >>, c)
  <2>1. << >> \in Seq(MadeEvents) /\ Len(<< >>) = 0
    OBVIOUS
  <2>2. Course(Known(<< >>, c), Len(<< >>), << >>, c)
    BY <2>1, CourseExists
  <2> QED
    BY <2>1, <2>2
<1> QED
  BY <1>1 DEF Course, Learnt

LEMMA LearntType ==
  ASSUME NEW q \in Seq(MadeEvents), NEW c \in Clients
  PROVE  Learnt(q, c) \in Clients
<1>1. Course(Known(q, c), Len(q), q, c) /\ Len(q) \in Nat
  BY CourseExists
<1> QED
  BY <1>1 DEF Course, Learnt

LEMMA LearntMore ==
  ASSUME NEW q \in Seq(MadeEvents), NEW e \in MadeEvents, NEW c \in Clients
  PROVE  Learnt(Append(q, e), c) = Takes(Learnt(q, c), e)
<1> DEFINE n == Len(q)
           q2 == Append(q, e)
           f == Known(q, c)
           g == Known(q2, c)
<1>1. n \in Nat /\ q2 \in Seq(MadeEvents) /\ Len(q2) = n + 1 /\ q2[n + 1] = e
  OBVIOUS
<1>2. \A i \in 1 .. n : q2[i] = q[i]
  OBVIOUS
<1>3. Course(f, n, q, c) /\ Course(g, n + 1, q2, c)
  <2> HIDE DEF n, q2
  <2>1. Course(Known(q2, c), Len(q2), q2, c)
    BY <1>1, CourseExists
  <2>2. Course(Known(q, c), Len(q), q, c)
    BY CourseExists
  <2> QED
    BY <1>1, <2>1, <2>2 DEF n
<1> HIDE DEF n, q2, f, g
<1>4. f[n] = g[n]
  <2>1. f[0] = g[0]
    BY <1>3 DEF Course
  <2>2. \A i \in 1 .. n : f[i - 1] = g[i - 1] => f[i] = g[i]
    BY <1>1, <1>2, <1>3 DEF Course
  <2> QED
    BY <1>1, <2>1, <2>2, SameCourse
<1>5. g[n + 1] = Takes(g[n], e)
  BY <1>1, <1>3 DEF Course
<1> QED
  BY <1>1, <1>4, <1>5 DEF Learnt, n, q2, f, g

LEMMA LearntFirst ==
  ASSUME NEW q \in Seq(MadeEvents), q # << >>, NEW c \in Clients
  PROVE  Learnt(q, c) = Learnt(Tail(q), Takes(c, Head(q)))
<1> DEFINE n == Len(q)
           q2 == Tail(q)
           d == Takes(c, Head(q))
           f == Known(q, c)
           g == Known(q2, d)
           h == [i \in 0 .. n - 1 |-> f[i + 1]]
<1>1. /\ n \in Nat \ {0} /\ q2 \in Seq(MadeEvents) /\ Len(q2) = n - 1
      /\ Head(q) = q[1] /\ Head(q) \in MadeEvents
  OBVIOUS
<1>2. \A i \in 1 .. n - 1 : q2[i] = q[i + 1]
  OBVIOUS
<1>3. d \in Clients
  BY <1>1, TakesType
<1>4. Course(f, n, q, c) /\ Course(g, n - 1, q2, d)
  <2> HIDE DEF n, q2, d
  <2>1. Course(Known(q2, d), Len(q2), q2, d)
    BY <1>1, <1>3, CourseExists
  <2>2. Course(Known(q, c), Len(q), q, c)
    BY CourseExists
  <2> QED
    BY <1>1, <2>1, <2>2 DEF n
<1> HIDE DEF n, q2, f, g
<1>5. h[n - 1] = g[n - 1]
  <2>1. h[0] = g[0]
    BY <1>1, <1>4 DEF Course
  <2>2. ASSUME NEW i \in 1 .. n - 1, h[i - 1] = g[i - 1] PROVE h[i] = g[i]
    <3>1. h[i] = f[i + 1] /\ h[i - 1] = f[i]
      BY <1>1, <2>2
    <3>2. f[i + 1] = Takes(f[i], q[i + 1])
      <4>1. i + 1 \in 1 .. n /\ (i + 1) - 1 = i
        BY <1>1, <2>2
      <4> QED
        BY <1>4, <4>1 DEF Course
    <3>3. g[i] = Takes(g[i - 1], q2[i])
      BY <1>4, <2>2 DEF Course
    <3> QED
      BY <1>2, <2>2, <3>1, <3>2, <3>3
  <2>3. n - 1 \in Nat
    BY <1>1
  <2> HIDE DEF h
  <2> QED
    BY <2>1, <2>2, <2>3, SameCourse
<1>6. h[n - 1] = f[n]
  BY <1>1
<1> QED
  BY <1>1, <1>5, <1>6 DEF Learnt, n, q2, f, g

\* One event.
LEMMA LearntOne ==
  ASSUME NEW e \in MadeEvents, NEW c \in Clients
  PROVE  Learnt(<<e>>, c) = Takes(c, e)
<1>1. <<e>> \in Seq(MadeEvents) /\ <<e>> # << >>
  OBVIOUS
<1>2. Head(<<e>>) = e /\ Tail(<<e>>) = << >>
  BY Short1
<1> QED
  BY <1>1, <1>2, LearntFirst, LearntNothing, TakesType

\* What a key tells and what the mouse tells are apart, so that their order does
\* not matter.
KeyEvents == {e \in MadeEvents : /\ e.type \in {"PRESSED", "RELEASED"}
                                 /\ e.device = "keyboard" /\ e.code \in Keys}
MouseEvents == {e \in MadeEvents : /\ e.type \in {"PRESSED", "RELEASED", "MOTION"}
                                   /\ e.device = "pointer"
                                   /\ e.type # "MOTION" => e.code \in Buttons}

LEMMA SameSense ==
  ASSUME NEW c \in Clients, NEW d \in Clients, NEW e \in KeyEvents \cup MouseEvents,
         c.told = d.told,
         c.pressed \cap Kind(e.device) = d.pressed \cap Kind(e.device)
  PROVE  MakesSense(c, e) = MakesSense(d, e)
<1>1. CASE e.type = "MOTION"
  BY <1>1 DEF MakesSense
<1>2. CASE e.type = "PRESSED" \/ e.type = "RELEASED"
  <2>1. e.code \in Kind(e.device)
    BY <1>2 DEF KeyEvents, MouseEvents, Kind
  <2>2. Pressed(c, e) \cap Kind(e.device) = Pressed(d, e) \cap Kind(e.device)
    BY <1>2 DEF Pressed
  <2>3. Pressed(c, e) # c.pressed <=> Pressed(d, e) # d.pressed
    BY <1>2, <2>1 DEF Pressed
  <2>4. \A x \in Clients :
          MakesSense(x, e) = (/\ e.device \in x.told
                              /\ Pressed(x, e) # x.pressed
                              /\ e.count = Cardinality(Pressed(x, e) \cap Kind(e.device)))
    BY <1>2 DEF MakesSense
  <2> QED
    BY <2>2, <2>3, <2>4
<1> QED
  BY <1>1, <1>2 DEF KeyEvents, MouseEvents

LEMMA InEitherOrder ==
  ASSUME NEW c \in Clients, NEW k \in KeyEvents, NEW m \in MouseEvents
  PROVE  Takes(Takes(c, k), m) = Takes(Takes(c, m), k)
<1>1. k \in MadeEvents /\ m \in MadeEvents
  BY DEF KeyEvents, MouseEvents
<1>2. Takes(c, k) \in Clients /\ Takes(c, m) \in Clients
  BY <1>1, TakesType
<1>3. /\ Takes(c, k).told = c.told /\ Takes(c, m).told = c.told
      /\ Takes(c, k).pressed = Pressed(c, k) /\ Takes(c, m).pressed = Pressed(c, m)
  BY DEF Takes, KeyEvents, MouseEvents
<1>4. /\ Pressed(c, k) \cap Buttons = c.pressed \cap Buttons
      /\ Pressed(c, m) \cap Keys = c.pressed \cap Keys
  BY CodesAssumption DEF Pressed, KeyEvents, MouseEvents
<1>5. Pressed(Takes(c, k), m) = Pressed(Takes(c, m), k)
  BY <1>3, CodesAssumption DEF Pressed, KeyEvents, MouseEvents
<1>6. MakesSense(Takes(c, k), m) = MakesSense(c, m)
  BY <1>2, <1>3, <1>4, SameSense DEF Kind, MouseEvents
<1>7. MakesSense(Takes(c, m), k) = MakesSense(c, k)
  BY <1>2, <1>3, <1>4, SameSense DEF Kind, KeyEvents
<1>8. /\ Takes(Takes(c, k), m).sane = (c.sane /\ MakesSense(c, k) /\ MakesSense(c, m))
      /\ Takes(Takes(c, m), k).sane = (c.sane /\ MakesSense(c, m) /\ MakesSense(c, k))
  BY <1>6, <1>7, Zenon DEF Takes
<1>9. /\ Takes(Takes(c, k), m) = [told |-> c.told,
                                   pressed |-> Pressed(Takes(c, k), m),
                                   sane |-> Takes(Takes(c, k), m).sane]
      /\ Takes(Takes(c, m), k) = [told |-> c.told,
                                   pressed |-> Pressed(Takes(c, m), k),
                                   sane |-> Takes(Takes(c, m), k).sane]
  BY <1>3 DEF Takes, KeyEvents, MouseEvents
<1>10. Takes(Takes(c, k), m).sane = Takes(Takes(c, m), k).sane
  BY <1>8
<1> QED
  BY <1>5, <1>9, <1>10

\* What the threads have on their hands can be taken in either order: nothing of
\* the tap's, or one event of the mouse against one key at most.
Few(S) == {<< >>} \cup {<<e>> : e \in S}
Apart(u, w) == w = << >> \/ (u \in Few(KeyEvents) /\ w \in Few(MouseEvents))

LEMMA Swapped ==
  ASSUME NEW u \in Seq(MadeEvents), NEW w \in Seq(MadeEvents), Apart(u, w),
         NEW c \in Clients
  PROVE  Learnt(w, Learnt(u, c)) = Learnt(u, Learnt(w, c))
<1>1. Learnt(u, c) \in Clients
  BY LearntType
<1>2. CASE w = << >>
  BY <1>1, <1>2, LearntNothing
<1>3. CASE u = << >> /\ w # << >>
  <2>1. Learnt(w, c) \in Clients
    BY LearntType
  <2> QED
    BY <1>3, <2>1, LearntNothing
<1>4. ASSUME NEW k \in KeyEvents, NEW m \in MouseEvents, u = <<k>>, w = <<m>>
      PROVE  Learnt(w, Learnt(u, c)) = Learnt(u, Learnt(w, c))
  <2>1. k \in MadeEvents /\ m \in MadeEvents
    BY DEF KeyEvents, MouseEvents
  <2>2. Takes(c, k) \in Clients /\ Takes(c, m) \in Clients
    BY <2>1, TakesType
  <2>3. Learnt(w, Learnt(u, c)) = Takes(Takes(c, k), m)
    BY <1>4, <2>1, <2>2, LearntOne
  <2>4. Learnt(u, Learnt(w, c)) = Takes(Takes(c, m), k)
    BY <1>4, <2>1, <2>2, LearntOne
  <2> QED
    BY <2>3, <2>4, InEitherOrder
<1> QED
  BY <1>2, <1>3, <1>4 DEF Apart, Few

-----------------------------------------------------------------------------
(* The client is told of every change and of nothing else.                  *)

InputTypes ==
  /\ {connected, g_inited, g_raw_mouse_active, raced} \subseteq BOOLEAN
  /\ num_devices \in {0, 2}
  /\ pipe \in {"zero", "open", "closed"}
  /\ bytes \in 0 .. PipeCapacity
  /\ key_state_map \subseteq Keys /\ IsFiniteSet(key_state_map)
  /\ pressed_keys = Cardinality(key_state_map)
  /\ button_state_mask \subseteq Buttons /\ IsFiniteSet(button_state_mask)
  /\ pressed_buttons = Cardinality(button_state_mask)
  /\ calls \in Plans
  /\ ev \in Seq(MadeEvents)
  /\ todo \in [Injectors -> Seq(MadeEvents)]
  /\ seen \in [Injectors -> Seq(MadeEvents)]
  /\ pc \in [Injectors -> {"append", "overwrite", "write"}]
  /\ client \in Clients
  /\ \A t \in Injectors : pc[t] # "append" => todo[t] # << >>

\* The tap is started once, when the devices exist; then the mouse is the tap's and
\* the keys are the pump's.
Starting == calls # << >> /\ Head(calls) = "start_raw_mouse_capture"

TapStarted ==
  /\ Starting => g_inited /\ ~g_raw_mouse_active
  /\ g_raw_mouse_active => g_inited /\ todo[Main] \in Few(KeyEvents)
  /\ g_inited => num_devices = 2
  /\ todo[Tap] # << >> => g_raw_mouse_active
  /\ todo[Tap] \in Few(MouseEvents)

\* What there is to know.
Truth == [told    |-> IF num_devices = 0 THEN {} ELSE Devices,
          pressed |-> key_state_map \cup button_state_mask,
          sane    |-> TRUE]

InputIInv == InputTypes /\ TapStarted /\ (raced \/ WillKnow = Truth)

LEMMA TruthType == InputTypes => Truth \in Clients
BY DEF InputTypes, Truth, Clients, Codes

LEMMA UnqueuedType ==
  ASSUME InputTypes, TapStarted
  PROVE  /\ \A t \in Injectors : Unqueued(t) \in Seq(MadeEvents)
         /\ Apart(Unqueued(Main), Unqueued(Tap))
         /\ todo[Tap] = << >> => Unqueued(Tap) = << >>
<1>1. \A t \in Injectors : Unqueued(t) \in Seq(MadeEvents)
  BY DEF InputTypes, Unqueued
<1>2. Main \in Injectors /\ Tap \in Injectors
  BY DEF Injectors
<1>3. todo[Tap] = << >> => Unqueued(Tap) = << >>
  BY <1>2 DEF InputTypes, Unqueued
<1>4. ASSUME NEW S, NEW t \in Injectors, todo[t] \in Few(S)
      PROVE  Unqueued(t) \in Few(S)
  <2>1. CASE pc[t] = "write"
    <3>1. PICK e \in S : todo[t] = <<e>>
      BY <1>4, <2>1 DEF Few, InputTypes
    <3>2. Tail(todo[t]) = << >>
      BY <3>1, Short1
    <3> QED
      BY <2>1, <3>2 DEF Few, Unqueued
  <2> QED
    BY <1>4, <2>1 DEF Unqueued
<1>5. Apart(Unqueued(Main), Unqueued(Tap))
  <2>1. CASE todo[Tap] = << >>
    BY <1>3, <2>1 DEF Apart
  <2>2. CASE todo[Tap] # << >>
    <3>1. todo[Main] \in Few(KeyEvents) /\ todo[Tap] \in Few(MouseEvents)
      BY <2>2 DEF TapStarted
    <3>2. Unqueued(Main) \in Few(KeyEvents)
      BY <1>2, <1>4, <3>1
    <3>3. Unqueued(Tap) \in Few(MouseEvents)
      BY <1>2, <1>4, <3>1
    <3> QED
      BY <3>2, <3>3 DEF Apart
  <2> QED
    BY <2>1, <2>2
<1> QED
  BY <1>1, <1>3, <1>5

\* An event goes from its thread to the queue.
LEMMA QueuedKnown ==
  ASSUME InputTypes, TapStarted, NEW t \in Injectors, todo[t] # << >>, pc[t] # "write",
         Append1(t, ev), todo' = todo, client' = client
  PROVE  WillKnow' = WillKnow
<1> DEFINE e == Head(todo[t])
           u == Unqueued(Main)
           w == Unqueued(Tap)
           c == Learnt(ev, client)
<1>1. /\ todo[t] \in Seq(MadeEvents) /\ e \in MadeEvents
      /\ ev \in Seq(MadeEvents) /\ client \in Clients
  BY DEF InputTypes
<1>2. /\ ev' = Append(ev, e)
      /\ pc' = [pc EXCEPT ![t] = "write"] /\ pc \in [Injectors -> {"append", "overwrite", "write"}]
  BY DEF Append1, InputTypes
<1>3. Learnt(ev, client)' = Takes(c, e) /\ c \in Clients
  BY <1>1, <1>2, LearntMore, LearntType
<1>4. /\ Unqueued(t) = todo[t] /\ Unqueued(t)' = Tail(todo[t])
      /\ \A s \in Injectors \ {t} : Unqueued(s)' = Unqueued(s)
  BY <1>2 DEF Unqueued
<1>5. /\ u \in Seq(MadeEvents) /\ w \in Seq(MadeEvents) /\ Apart(u, w)
  BY UnqueuedType DEF Injectors
<1>6. Takes(c, e) \in Clients
  BY <1>1, <1>3, TakesType
<1>7. Learnt(Tail(todo[t]), Takes(c, e)) = Learnt(todo[t], c)
  BY <1>1, <1>3, LearntFirst
<1>8. CASE t = Main
  BY <1>3, <1>4, <1>7, <1>8 DEF WillKnow, Injectors, Main, Tap
<1>9. CASE t = Tap
  <2>1. Tail(todo[t]) = << >> /\ Unqueued(Tap)' = << >>
    <3>1. PICK m \in MouseEvents : todo[Tap] = <<m>>
      BY <1>9 DEF TapStarted, Few
    <3> QED
      BY <1>4, <1>9, <3>1, Short1
  <2>2. Unqueued(Main)' = u
    BY <1>4, <1>9 DEF Injectors, Main, Tap
  <2>3. WillKnow' = Learnt(<< >>, Learnt(u, Takes(c, e)))
    BY <1>3, <2>1, <2>2 DEF WillKnow
  <2>4. Learnt(u, Takes(c, e)) \in Clients
    BY <1>5, <1>6, LearntType
  <2>5. WillKnow' = Learnt(u, Takes(c, e))
    BY <2>3, <2>4, LearntNothing
  <2>6. Learnt(w, c) = Takes(c, e)
    BY <1>4, <1>6, <1>7, <1>9, <2>1, LearntNothing
  <2>7. WillKnow = Learnt(u, Learnt(w, c))
    BY <1>3, <1>5, Swapped DEF WillKnow
  <2> QED
    BY <2>5, <2>6, <2>7
<1> QED
  BY <1>8, <1>9 DEF Injectors

LEMMA QueueStepKnown ==
  ASSUME InputIInv, NEW t \in Injectors, QueueStep(t)
  PROVE  InputIInv'
<1> USE DEF InputIInv
<1>1. UNCHANGED <<connected, num_devices, pipe, stateVars, g_inited,
                  g_raw_mouse_active, calls, client>>
  BY DEF QueueStep, QueueEvent, QueueEventUnlocked, Overwrite, WriteByte, lifeVars
<1>2. pc[t] # "append" => todo[t] # << >>
  BY DEF InputTypes
<1>3. CASE QueueEvent(t) \/ Overwrite(t)
  <2>1. /\ todo[t] # << >> /\ pc[t] # "write"
        /\ todo' = todo /\ bytes' = bytes
        /\ pc' = [pc EXCEPT ![t] = "write"]
    BY <1>2, <1>3 DEF QueueEvent, Overwrite, Append1, Idle
  <2>2. ev' \in Seq(MadeEvents) /\ seen' \in [Injectors -> Seq(MadeEvents)]
        /\ raced' \in BOOLEAN
    <3>1. Head(todo[t]) \in MadeEvents
      BY <2>1 DEF InputTypes
    <3>2. CASE QueueEvent(t)
      BY <3>1, <3>2 DEF InputTypes, QueueEvent, Append1
    <3>3. CASE Overwrite(t)
      <4>1. /\ ev' = Append(seen[t], Head(todo[t])) /\ seen[t] \in Seq(MadeEvents)
            /\ raced' = (raced \/ seen[t] # ev) /\ raced \in BOOLEAN
            /\ seen' = [seen EXCEPT ![t] = << >>] /\ << >> \in Seq(MadeEvents)
        BY <3>3 DEF InputTypes, Overwrite, Append1
      <4>2. ev' \in Seq(MadeEvents) /\ raced' \in BOOLEAN
        BY <3>1, <4>1
      <4> QED
        BY <4>1, <4>2 DEF InputTypes
    <3> QED
      BY <1>3, <3>2, <3>3
  <2>3. InputTypes'
    BY <1>1, <2>1, <2>2 DEF InputTypes, stateVars
  <2>4. TapStarted'
    BY <1>1, <2>1 DEF TapStarted, Starting
  <2>5. raced' \/ (~raced /\ Append1(t, ev))
    BY <1>3 DEF QueueEvent, Overwrite, Append1, InputTypes
  <2>6. ~raced' => WillKnow' = WillKnow
    BY <1>1, <2>1, <2>5, QueuedKnown
  <2>7. Truth' = Truth
    BY <1>1 DEF Truth, stateVars
  <2> QED
    BY <2>3, <2>4, <2>5, <2>6, <2>7
<1>4. CASE QueueEventUnlocked(t)
  <2>1. /\ ~Idle(t) /\ pc[t] = "append"
        /\ pc' = [pc EXCEPT ![t] = "overwrite"]
        /\ seen' = [seen EXCEPT ![t] = ev]
        /\ UNCHANGED <<ev, todo, bytes, raced>>
    BY <1>4 DEF QueueEventUnlocked
  <2>2. InputTypes'
    BY <1>1, <2>1 DEF InputTypes, stateVars, Idle
  <2>3. TapStarted'
    BY <1>1, <2>1 DEF TapStarted, Starting
  <2>4. \A s \in Injectors : Unqueued(s)' = Unqueued(s)
    BY <2>1 DEF Unqueued, InputTypes
  <2>5. WillKnow' = WillKnow /\ Truth' = Truth
    BY <1>1, <2>1, <2>4 DEF WillKnow, Truth, stateVars, Injectors
  <2> QED
    BY <2>1, <2>2, <2>3, <2>5
<1>5. CASE WriteByte(t)
  <2>1. /\ pc[t] = "write"
        /\ pc' = [pc EXCEPT ![t] = "append"]
        /\ todo' = [todo EXCEPT ![t] = Tail(@)]
        /\ UNCHANGED <<ev, seen, raced>>
        /\ bytes' \in 0 .. PipeCapacity
    BY <1>5, BoundsAssumption DEF WriteByte, InputTypes
  <2>2. Tail(todo[t]) \in Seq(MadeEvents)
    BY <1>2, <2>1 DEF InputTypes
  <2>3. InputTypes'
    BY <1>1, <2>1, <2>2 DEF InputTypes, stateVars
  <2>4. \A S : todo[t] \in Few(S) => Tail(todo[t]) \in Few(S)
    <3> SUFFICES ASSUME NEW S, todo[t] \in Few(S) PROVE Tail(todo[t]) \in Few(S)
      OBVIOUS
    <3>1. PICK e \in S : todo[t] = <<e>>
      BY <1>2, <2>1 DEF Few
    <3> QED
      BY <3>1, Short1 DEF Few
  <2>5. \A s \in Injectors : /\ todo'[s] = IF s = t THEN Tail(todo[t]) ELSE todo[s]
                             /\ Unqueued(s)' = Unqueued(s)
    BY <2>1 DEF InputTypes, Unqueued
  <2>6. TapStarted'
    <3>1. g_raw_mouse_active => todo'[Main] \in Few(KeyEvents)
      BY <2>4, <2>5 DEF TapStarted, Injectors
    <3>2. todo'[Tap] \in Few(MouseEvents) /\ (todo'[Tap] # << >> => g_raw_mouse_active)
      BY <1>2, <2>1, <2>4, <2>5 DEF TapStarted, Injectors
    <3> QED
      BY <1>1, <3>1, <3>2 DEF TapStarted, Starting
  <2>7. WillKnow' = WillKnow /\ Truth' = Truth
    BY <1>1, <2>1, <2>5 DEF WillKnow, Truth, stateVars, Injectors
  <2> QED
    BY <2>1, <2>3, <2>6, <2>7
<1> QED
  BY <1>3, <1>4, <1>5 DEF QueueStep

\* What a client knows that has been told of the devices.
Informed == [told |-> Devices, pressed |-> key_state_map \cup button_state_mask,
             sane |-> TRUE]

LEMMA DevicesLearnt ==
  ASSUME InputTypes, NEW then \in Few(MadeEvents)
  PROVE  /\ NewDevices \o then \in Seq(MadeEvents)
         /\ Learnt(NewDevices \o then, Truth) = Learnt(then, Informed)
<1> DEFINE a == Added("keyboard")
           b == Added("pointer")
<1>1. a \in MadeEvents /\ b \in MadeEvents
  BY DEF Added, Event, MadeEvents, EventType, Types, Devices
<1>2. Truth \in Clients /\ Informed \in Clients
  BY TruthType DEF InputTypes, Informed, Clients, Codes
<1>3. then \in Seq(MadeEvents)
  <2>1. CASE then = << >>
    BY <2>1
  <2>2. ASSUME NEW e \in MadeEvents, then = <<e>> PROVE then \in Seq(MadeEvents)
    BY <2>2
  <2> QED
    BY <2>1, <2>2 DEF Few
<1>4. CASE num_devices = 2
  <2>1. NewDevices = << >> /\ Truth = Informed
    BY <1>4 DEF NewDevices, Truth, Informed
  <2>2. NewDevices \o then = then
    BY <1>3, <2>1
  <2> QED
    BY <1>3, <2>1, <2>2
<1>5. CASE num_devices = 0
  <2>1. NewDevices = <<a, b>>
    BY <1>5 DEF NewDevices
  <2>2. Takes(Takes(Truth, a), b) = Informed
    <3>1. /\ a.type = "DEVICE_ADDED" /\ a.device = "keyboard"
          /\ b.type = "DEVICE_ADDED" /\ b.device = "pointer"
      BY DEF Added, Event
    <3> HIDE DEF a, b
    <3>2. Truth = [told |-> {}, pressed |-> key_state_map \cup button_state_mask,
                   sane |-> TRUE]
      BY <1>5 DEF Truth
    <3>3. Takes(Truth, a) = [told |-> {"keyboard"},
                             pressed |-> key_state_map \cup button_state_mask,
                             sane |-> TRUE]
      BY <3>1, <3>2 DEF Takes, Pressed, MakesSense
    <3>4. Takes(Takes(Truth, a), b)
            = [told |-> {"keyboard", "pointer"},
               pressed |-> key_state_map \cup button_state_mask, sane |-> TRUE]
      BY <3>1, <3>3 DEF Takes, Pressed, MakesSense
    <3> QED
      BY <3>4 DEF Informed, Devices
  <2>3. Takes(Truth, a) \in Clients
    BY <1>1, <1>2, TakesType
  <2> HIDE DEF a, b
  <2>4. ASSUME NEW q \in Seq(MadeEvents)
        PROVE  /\ <<a>> \o (<<b>> \o q) \in Seq(MadeEvents)
               /\ Learnt(<<a>> \o (<<b>> \o q), Truth) = Learnt(q, Informed)
    <3> DEFINE r == <<b>> \o q
               s == <<a>> \o r
    <3>1. r \in Seq(MadeEvents) /\ r # << >> /\ Head(r) = b /\ Tail(r) = q
      BY <1>1
    <3> HIDE DEF r
    <3>2. s \in Seq(MadeEvents) /\ s # << >> /\ Head(s) = a /\ Tail(s) = r
      BY <1>1, <3>1
    <3> HIDE DEF s
    <3>3. Learnt(s, Truth) = Learnt(r, Takes(Truth, a))
      BY <1>2, <3>2, LearntFirst
    <3>4. Learnt(r, Takes(Truth, a)) = Learnt(q, Informed)
      BY <2>2, <2>3, <3>1, LearntFirst
    <3> QED
      BY <3>2, <3>3, <3>4 DEF r, s
  <2>5. <<a, b>> \o then = <<a>> \o (<<b>> \o then)
    <3>2. <<a>> \in Seq(MadeEvents) /\ <<b>> \in Seq(MadeEvents)
      BY <1>1
    <3>1. <<a, b>> = <<a>> \o <<b>>
      <4>1. <<a, b>> \in Seq(MadeEvents) /\ <<a>> \o <<b>> \in Seq(MadeEvents)
        BY <1>1
      <4>2. Len(<<a, b>>) = 2 /\ Len(<<a>> \o <<b>>) = 2
        OBVIOUS
      <4>3. \A i \in 1 .. 2 : <<a, b>>[i] = (<<a>> \o <<b>>)[i]
        OBVIOUS
      <4> QED
        BY <4>1, <4>2, <4>3, SeqEqual
    <3> QED
      BY <1>3, <3>1, <3>2, ConcatAssociative
  <2> QED
    BY <1>3, <2>1, <2>4, <2>5
<1> QED
  BY <1>4, <1>5 DEF InputTypes

\* A key or button of a device changes from up to down or from down to up.
LEMMA ChangeTold ==
  ASSUME NEW device \in Devices, NEW code \in Kind(device), NEW pressed \in BOOLEAN,
         NEW A \in SUBSET Codes, (code \in A) # pressed,
         NEW B, B = IF pressed THEN A \cup {code} ELSE A \ {code},
         NEW count \in Int, count = Cardinality(B \cap Kind(device)),
         NEW e, e = Event(IF pressed THEN "PRESSED" ELSE "RELEASED", device, code, count)
  PROVE  /\ e \in MadeEvents
         /\ Takes([told |-> Devices, pressed |-> A, sane |-> TRUE], e)
              = [told |-> Devices, pressed |-> B, sane |-> TRUE]
<1> DEFINE c == [told |-> Devices, pressed |-> A, sane |-> TRUE]
<1>1. code \in Codes
  BY DEF Kind, Codes
<1>2. e.type = (IF pressed THEN "PRESSED" ELSE "RELEASED") /\ e.device = device
      /\ e.code = code /\ e.count = count
  BY DEF Event
<1>3. e \in MadeEvents
  BY <1>1 DEF Event, MadeEvents, EventType, Types
<1>4. Pressed(c, e) = B
  BY <1>2 DEF Pressed
<1>5. B # A
  OBVIOUS
<1>6. MakesSense(c, e)
  BY <1>2, <1>4, <1>5 DEF MakesSense
<1> QED
  BY <1>2, <1>3, <1>4, <1>6 DEF Takes

\* What is injected, and that it tells of what has changed.
Injected(t, then, S) ==
  /\ then \in Few(MadeEvents) /\ then \in Few(S)
  /\ EnsureDevices(t, then)
  /\ Learnt(then, Informed) = Informed'
  /\ key_state_map' \subseteq Keys /\ IsFiniteSet(key_state_map')
  /\ pressed_keys' = Cardinality(key_state_map')
  /\ button_state_mask' \subseteq Buttons /\ IsFiniteSet(button_state_mask')
  /\ pressed_buttons' = Cardinality(button_state_mask')

LEMMA KeyInjected ==
  ASSUME InputTypes, NEW t, NEW key \in Keys, NEW pressed \in BOOLEAN,
         InjectKey(t, key, pressed)
  PROVE  \E then : Injected(t, then, KeyEvents)
<1> DEFINE changed == (key \in key_state_map) # pressed
           type == IF pressed THEN "PRESSED" ELSE "RELEASED"
           A == key_state_map \cup button_state_mask
           B == key_state_map' \cup button_state_mask'
           e == Event(type, "keyboard", key, pressed_keys')
           then == IF changed THEN <<e>> ELSE << >>
<1>1. /\ key_state_map' = IF pressed THEN key_state_map \cup {key}
                                     ELSE key_state_map \ {key}
      /\ button_state_mask' = button_state_mask /\ pressed_buttons' = pressed_buttons
  BY DEF InjectKey
<1>2. /\ key_state_map' \subseteq Keys /\ IsFiniteSet(key_state_map')
      /\ pressed_keys' = Cardinality(key_state_map') /\ pressed_keys' \in Int
  <2>1. /\ IsFiniteSet(key_state_map) /\ pressed_keys = Cardinality(key_state_map)
        /\ key_state_map \subseteq Keys /\ Cardinality(key_state_map) \in Nat
    BY FS_CardinalityType DEF InputTypes
  <2>2. CASE ~changed
    <3>1. key_state_map' = key_state_map
      BY <1>1, <2>2
    <3>2. pressed_keys' = pressed_keys
      BY <2>2 DEF InjectKey
    <3> QED
      BY <2>1, <3>1, <3>2
  <2>3. CASE changed /\ pressed
    <3>1. pressed_keys' = pressed_keys + 1
      BY <2>3 DEF InjectKey
    <3>2. key_state_map' = key_state_map \cup {key} /\ key \notin key_state_map
      BY <1>1, <2>3
    <3> QED
      BY <2>1, <3>1, <3>2, FS_AddElement
  <2>4. CASE changed /\ ~pressed
    <3>1. pressed_keys' = pressed_keys - 1
      BY <2>4 DEF InjectKey
    <3>2. key_state_map' = key_state_map \ {key} /\ key \in key_state_map
      BY <1>1, <2>4
    <3> QED
      BY <2>1, <3>1, <3>2, FS_RemoveElement
  <2> QED
    BY <2>2, <2>3, <2>4
<1>3. EnsureDevices(t, then)
  BY DEF InjectKey
<1>4. A \in SUBSET Codes /\ Informed = [told |-> Devices, pressed |-> A, sane |-> TRUE]
      /\ Informed' = [told |-> Devices, pressed |-> B, sane |-> TRUE]
      /\ Informed \in Clients
  BY DEF InputTypes, Codes, Informed, Clients
<1>5. CASE ~changed
  <2>1. then = << >> /\ Informed' = Informed
    BY <1>1, <1>5 DEF Informed
  <2>2. Learnt(then, Informed) = Informed'
    BY <1>4, <2>1, LearntNothing
  <2>3. then \in Few(MadeEvents) /\ then \in Few(KeyEvents)
    BY <2>1 DEF Few
  <2> QED
    BY <1>1, <1>2, <1>3, <2>2, <2>3 DEF Injected, InputTypes
<1>6. CASE changed
  <2>1. "keyboard" \in Devices /\ key \in Kind("keyboard") /\ Kind("keyboard") = Keys
    BY DEF Devices, Kind
  <2>2. /\ (key \in A) # pressed
        /\ B = IF pressed THEN A \cup {key} ELSE A \ {key}
        /\ B \cap Keys = key_state_map'
    BY <1>1, <1>2, <1>6, CodesAssumption DEF InputTypes
  <2>3. e \in MadeEvents /\ Takes(Informed, e) = Informed'
    <3> HIDE DEF A, B, e
    <3>1. pressed_keys' = Cardinality(B \cap Kind("keyboard"))
      BY <1>2, <2>1, <2>2
    <3>2. e = Event(IF pressed THEN "PRESSED" ELSE "RELEASED", "keyboard", key, pressed_keys')
      BY DEF e
    <3> QED
      BY <1>2, <1>4, <2>1, <2>2, <3>1, <3>2, ChangeTold
  <2>4. then = <<e>>
    BY <1>6
  <2>5. Learnt(then, Informed) = Informed'
    BY <1>4, <2>3, <2>4, LearntOne
  <2>6. e \in KeyEvents
    BY <2>3 DEF KeyEvents, Event
  <2>7. then \in Few(MadeEvents) /\ then \in Few(KeyEvents)
    BY <2>3, <2>4, <2>6 DEF Few
  <2> QED
    BY <1>1, <1>2, <1>3, <2>5, <2>7 DEF Injected, InputTypes
<1> QED
  BY <1>5, <1>6

LEMMA ButtonInjected ==
  ASSUME InputTypes, NEW t, NEW button \in Buttons, NEW pressed \in BOOLEAN,
         InjectButton(t, button, pressed)
  PROVE  \E then : Injected(t, then, MouseEvents)
<1> DEFINE changed == (button \in button_state_mask) # pressed
           type == IF pressed THEN "PRESSED" ELSE "RELEASED"
           A == key_state_map \cup button_state_mask
           B == key_state_map' \cup button_state_mask'
           e == Event(type, "pointer", button, pressed_buttons')
           then == IF changed THEN <<e>> ELSE << >>
<1>1. /\ button_state_mask' = IF pressed THEN button_state_mask \cup {button}
                                         ELSE button_state_mask \ {button}
      /\ key_state_map' = key_state_map /\ pressed_keys' = pressed_keys
  BY DEF InjectButton
<1>2. /\ button_state_mask' \subseteq Buttons /\ IsFiniteSet(button_state_mask')
      /\ pressed_buttons' = Cardinality(button_state_mask') /\ pressed_buttons' \in Int
  <2>1. /\ IsFiniteSet(button_state_mask)
        /\ pressed_buttons = Cardinality(button_state_mask)
        /\ button_state_mask \subseteq Buttons /\ Cardinality(button_state_mask) \in Nat
    BY FS_CardinalityType DEF InputTypes
  <2>2. CASE ~changed
    <3>1. button_state_mask' = button_state_mask
      BY <1>1, <2>2
    <3>2. pressed_buttons' = pressed_buttons
      BY <2>2 DEF InjectButton
    <3> QED
      BY <2>1, <3>1, <3>2
  <2>3. CASE changed /\ pressed
    <3>1. pressed_buttons' = pressed_buttons + 1
      BY <2>3 DEF InjectButton
    <3>2. /\ button_state_mask' = button_state_mask \cup {button}
          /\ button \notin button_state_mask
      BY <1>1, <2>3
    <3> QED
      BY <2>1, <3>1, <3>2, FS_AddElement
  <2>4. CASE changed /\ ~pressed
    <3>1. pressed_buttons' = pressed_buttons - 1
      BY <2>4 DEF InjectButton
    <3>2. /\ button_state_mask' = button_state_mask \ {button}
          /\ button \in button_state_mask
      BY <1>1, <2>4
    <3> QED
      BY <2>1, <3>1, <3>2, FS_RemoveElement
  <2> QED
    BY <2>2, <2>3, <2>4
<1>3. EnsureDevices(t, then)
  BY DEF InjectButton
<1>4. A \in SUBSET Codes /\ Informed = [told |-> Devices, pressed |-> A, sane |-> TRUE]
      /\ Informed' = [told |-> Devices, pressed |-> B, sane |-> TRUE]
      /\ Informed \in Clients
  BY DEF InputTypes, Codes, Informed, Clients
<1>5. CASE ~changed
  <2>1. then = << >> /\ Informed' = Informed
    BY <1>1, <1>5 DEF Informed
  <2>2. Learnt(then, Informed) = Informed'
    BY <1>4, <2>1, LearntNothing
  <2>3. then \in Few(MadeEvents) /\ then \in Few(MouseEvents)
    BY <2>1 DEF Few
  <2> QED
    BY <1>1, <1>2, <1>3, <2>2, <2>3 DEF Injected, InputTypes
<1>6. CASE changed
  <2>1. /\ "pointer" \in Devices /\ button \in Kind("pointer")
        /\ Kind("pointer") = Buttons
    BY DEF Devices, Kind
  <2>2. /\ (button \in A) # pressed
        /\ B = IF pressed THEN A \cup {button} ELSE A \ {button}
        /\ B \cap Buttons = button_state_mask'
    BY <1>1, <1>2, <1>6, CodesAssumption DEF InputTypes
  <2>3. e \in MadeEvents /\ Takes(Informed, e) = Informed'
    <3> HIDE DEF A, B, e
    <3>1. pressed_buttons' = Cardinality(B \cap Kind("pointer"))
      BY <1>2, <2>1, <2>2
    <3>2. e = Event(IF pressed THEN "PRESSED" ELSE "RELEASED", "pointer", button,
                    pressed_buttons')
      BY DEF e
    <3> QED
      BY <1>2, <1>4, <2>1, <2>2, <3>1, <3>2, ChangeTold
  <2>4. then = <<e>>
    BY <1>6
  <2>5. Learnt(then, Informed) = Informed'
    BY <1>4, <2>3, <2>4, LearntOne
  <2>6. e \in MouseEvents
    BY <2>3 DEF MouseEvents, Event
  <2>7. then \in Few(MadeEvents) /\ then \in Few(MouseEvents)
    BY <2>3, <2>4, <2>6 DEF Few
  <2> QED
    BY <1>1, <1>2, <1>3, <2>5, <2>7 DEF Injected, InputTypes
<1> QED
  BY <1>5, <1>6

LEMMA MouseInjected ==
  ASSUME InputTypes, NEW t, InjectMouse(t)
  PROVE  \E then : Injected(t, then, MouseEvents)
<1>1. CASE InjectMotion(t)
  <2> DEFINE e == Event("MOTION", "pointer", None, 0)
  <2>1. /\ EnsureDevices(t, <<e>>)
        /\ UNCHANGED stateVars
    BY <1>1 DEF InjectMotion
  <2>2. e \in MadeEvents /\ e \in MouseEvents
    BY DEF Event, MouseEvents, MadeEvents, EventType, Types, Devices
  <2>3. Informed \in Clients /\ Informed' = Informed
    BY <2>1 DEF InputTypes, Codes, Informed, Clients, stateVars
  <2>4. Takes(Informed, e) = Informed
    BY DEF Takes, Pressed, MakesSense, Event, Informed, Devices
  <2>5. Learnt(<<e>>, Informed) = Informed'
    BY <2>2, <2>3, <2>4, LearntOne
  <2>6. <<e>> \in Few(MadeEvents) /\ <<e>> \in Few(MouseEvents)
    BY <2>2 DEF Few
  <2> QED
    BY <2>1, <2>5, <2>6 DEF Injected, InputTypes, stateVars
<1>2. CASE \E b \in Buttons, pressed \in BOOLEAN : InjectButton(t, b, pressed)
  BY <1>2, ButtonInjected
<1> QED
  BY <1>1, <1>2 DEF InjectMouse

\* Events are made by a thread that has none on its hands.
LEMMA InjectedKnown ==
  ASSUME InputIInv, NEW t \in Injectors, Idle(t), NEW new \in Seq(MadeEvents),
         todo' = [todo EXCEPT ![t] = new], UNCHANGED <<pc, ev, client>>,
         Learnt(new, Truth) = Truth', TapStarted'
  PROVE  raced \/ WillKnow' = Truth'
<1> DEFINE u == Unqueued(Main)
           w == Unqueued(Tap)
           c == Learnt(ev, client)
<1>1. SUFFICES ASSUME ~raced PROVE WillKnow' = Truth'
  OBVIOUS
<1>2. /\ pc[t] = "append" /\ Unqueued(t) = << >> /\ Unqueued(t)' = new
      /\ \A s \in Injectors \ {t} : Unqueued(s)' = Unqueued(s)
  BY DEF InputIInv, InputTypes, Idle, Unqueued
<1>3. c \in Clients /\ c' = c
  BY LearntType DEF InputIInv, InputTypes
<1>4. u \in Seq(MadeEvents) /\ w \in Seq(MadeEvents) /\ Apart(u, w)
  BY UnqueuedType DEF InputIInv, Injectors
<1>5. WillKnow = Truth /\ WillKnow = Learnt(w, Learnt(u, c))
  BY <1>1 DEF InputIInv, WillKnow
<1> HIDE DEF u, w, c
<1>6. CASE t = Tap
  <2>1. Learnt(u, c) = Truth
    <3>1. w = << >> /\ Learnt(u, c) \in Clients
      BY <1>2, <1>3, <1>4, <1>6, LearntType DEF w
    <3> QED
      BY <1>5, <3>1, LearntNothing
  <2>2. u' = u
    BY <1>2, <1>6 DEF u, Injectors, Main, Tap
  <2>3. WillKnow' = Learnt(new, Learnt(u, c))
    BY <1>2, <1>3, <1>6, <2>2 DEF WillKnow, u, c
  <2> QED
    BY <2>1, <2>3
<1>7. CASE t = Main
  <2>1. Learnt(w, c) = Truth
    BY <1>2, <1>3, <1>5, <1>7, LearntNothing DEF u
  <2>2. w' = w
    BY <1>2, <1>7 DEF w, Injectors, Main, Tap
  <2>3. WillKnow' = Learnt(w, Learnt(new, c))
    BY <1>2, <1>3, <1>7, <2>2 DEF WillKnow, w, c
  <2>4. Apart(new, w)
    <3>1. CASE todo[Tap] = << >>
      BY <3>1, UnqueuedType DEF InputIInv, Apart, w
    <3>2. CASE todo[Tap] # << >>
      <4>1. todo'[Tap] = todo[Tap] /\ todo'[Main] = new
        BY <1>7 DEF InputIInv, InputTypes, Injectors, Main, Tap
      <4>2. g_raw_mouse_active'
        BY <3>2, <4>1 DEF TapStarted
      <4>3. new \in Few(KeyEvents)
        BY <4>1, <4>2 DEF TapStarted
      <4>4. w = << >> \/ w \in Few(MouseEvents)
        <5>1. PICK m \in MouseEvents : todo[Tap] = <<m>>
          BY <3>2 DEF InputIInv, TapStarted, Few
        <5>2. Tail(<<m>>) = << >>
          BY Short1
        <5> QED
          BY <5>1, <5>2 DEF w, Unqueued, Few
      <4> QED
        BY <4>3, <4>4 DEF Apart
    <3> QED
      BY <3>1, <3>2
  <2>5. Learnt(w, Learnt(new, c)) = Learnt(new, Learnt(w, c))
    BY <1>3, <1>4, <2>4, Swapped
  <2> QED
    BY <2>1, <2>3, <2>5
<1> QED
  BY <1>6, <1>7 DEF Injectors

\* A thread with nothing on its hands injects.
LEMMA InputStepKnown ==
  ASSUME InputIInv, NEW t \in Injectors, Idle(t), g_inited,
         NEW S, NEW then, Injected(t, then, S),
         t = Main /\ g_raw_mouse_active => S = KeyEvents,
         t = Tap => g_raw_mouse_active /\ S = MouseEvents,
         UNCHANGED <<queueVars, lifeVars, calls, client>>
  PROVE  InputIInv'
<1>1. num_devices = 2
  BY DEF InputIInv, TapStarted
<1>2. then \in Few(MadeEvents) /\ then \in Few(S)
  BY DEF Injected
<1>3. NewDevices \o then = then /\ then \in Seq(MadeEvents)
  <2>1. NewDevices = << >>
    BY <1>1 DEF NewDevices
  <2>2. CASE then = << >>
    BY <2>1, <2>2
  <2>3. ASSUME NEW e \in MadeEvents, then = <<e>>
        PROVE  NewDevices \o then = then /\ then \in Seq(MadeEvents)
    BY <2>1, <2>3
  <2> QED
    BY <1>2, <2>2, <2>3 DEF Few
<1>4. num_devices' = 2 /\ todo' = [todo EXCEPT ![t] = then]
  BY <1>3 DEF Injected, EnsureDevices
<1>5. Truth' = Informed' /\ Truth = Informed
  BY <1>1, <1>4 DEF Truth, Informed
<1>6. UNCHANGED <<ev, pipe, bytes, pc, seen, raced, connected, g_inited,
                  g_raw_mouse_active, calls, client>>
  BY DEF queueVars, lifeVars
<1>7. InputTypes'
  <2>1. pc[t] = "append"
    BY DEF InputIInv, InputTypes, Idle
  <2>2. /\ todo' \in [Injectors -> Seq(MadeEvents)]
        /\ \A s \in Injectors : pc'[s] # "append" => todo'[s] # << >>
    BY <1>3, <1>4, <1>6, <2>1 DEF InputIInv, InputTypes
  <2> QED
    BY <1>4, <1>6, <2>2 DEF InputIInv, InputTypes, Injected
<1>8. TapStarted'
  <2>1. todo[Main] \in Few(KeyEvents) \/ ~g_raw_mouse_active
    BY DEF InputIInv, TapStarted
  <2>2. CASE t = Main
    <3>1. todo'[Main] = then /\ todo'[Tap] = todo[Tap]
      BY <1>4, <2>2 DEF InputIInv, InputTypes, Injectors, Main, Tap
    <3> QED
      BY <1>2, <1>4, <1>6, <2>2, <3>1 DEF InputIInv, TapStarted, Starting
  <2>3. CASE t = Tap
    <3>1. todo'[Tap] = then /\ todo'[Main] = todo[Main]
      BY <1>4, <2>3 DEF InputIInv, InputTypes, Injectors, Main, Tap
    <3> QED
      BY <1>2, <1>4, <1>6, <2>3, <3>1 DEF InputIInv, TapStarted, Starting
  <2> QED
    BY <2>2, <2>3 DEF Injectors
<1>9. raced \/ WillKnow' = Truth'
  <2>1. Learnt(then, Truth) = Truth'
    BY <1>5 DEF Injected
  <2> QED
    BY <1>3, <1>4, <1>6, <1>8, <2>1, InjectedKnown
<1> QED
  BY <1>6, <1>7, <1>8, <1>9 DEF InputIInv

LEMMA InputKnown ==
  ASSUME InputIInv, HandleSdlEvent \/ RawMouseTap
  PROVE  InputIInv'
<1>0. InputTypes /\ Main \in Injectors /\ Tap \in Injectors /\ Main # Tap
  BY DEF InputIInv, Injectors, Main, Tap
<1>1. CASE HandleSdlEvent
  <2>1. /\ Idle(Main) /\ g_inited
        /\ UNCHANGED <<queueVars, lifeVars, calls, client>>
    BY <1>1 DEF HandleSdlEvent, InLoop
  <2>2. CASE \E k \in Keys, pressed \in BOOLEAN : InjectKey(Main, k, pressed)
    <3>1. PICK then : Injected(Main, then, KeyEvents)
      BY <1>0, <2>2, KeyInjected
    <3> QED
      BY <1>0, <2>1, <3>1, InputStepKnown
  <2>3. CASE ~g_raw_mouse_active /\ InjectMouse(Main)
    <3>1. PICK then : Injected(Main, then, MouseEvents)
      BY <1>0, <2>3, MouseInjected
    <3> QED
      BY <1>0, <2>1, <2>3, <3>1, InputStepKnown
  <2> QED
    BY <1>1, <2>2, <2>3 DEF HandleSdlEvent
<1>2. CASE RawMouseTap
  <2>1. /\ Idle(Tap) /\ g_raw_mouse_active /\ InjectMouse(Tap)
        /\ UNCHANGED <<queueVars, lifeVars, calls, client>>
    BY <1>2 DEF RawMouseTap
  <2>2. g_inited
    BY <2>1 DEF InputIInv, TapStarted
  <2>3. PICK then : Injected(Tap, then, MouseEvents)
    BY <1>0, <2>1, MouseInjected
  <2> QED
    BY <1>0, <2>1, <2>2, <2>3, InputStepKnown
<1> QED
  BY <1>1, <1>2

\* The first context and SDL announce the devices.
LEMMA AnnouncedKnown ==
  ASSUME InputIInv, Idle(Main), EnsureDevices(Main, << >>), TapStarted',
         UNCHANGED <<stateVars, ev, pc, client, raced>>
  PROVE  /\ todo' \in [Injectors -> Seq(MadeEvents)]
         /\ \A t \in Injectors : pc'[t] # "append" => todo'[t] # << >>
         /\ raced \/ WillKnow' = Truth'
<1> DEFINE new == NewDevices \o << >>
<1>1. << >> \in Few(MadeEvents) /\ InputTypes
  BY DEF Few, InputIInv
<1>2. new \in Seq(MadeEvents) /\ Learnt(new, Truth) = Learnt(<< >>, Informed)
  BY <1>1, DevicesLearnt
<1>3. Informed \in Clients /\ Learnt(<< >>, Informed) = Informed
  <2>1. Informed \in Clients
    BY <1>1 DEF InputTypes, Codes, Informed, Clients
  <2> QED
    BY <2>1, LearntNothing
<1>4. /\ num_devices' = 2
      /\ todo' = [todo EXCEPT ![Main] = new]
  BY DEF EnsureDevices
<1>5. Truth' = Informed
  BY <1>4 DEF Truth, Informed, stateVars
<1>6. Main \in Injectors
  BY DEF Injectors
<1>7. pc[Main] = "append"
  BY <1>1, <1>6 DEF InputTypes, Idle
<1> HIDE DEF new
<1>8. raced \/ WillKnow' = Truth'
  BY <1>2, <1>3, <1>4, <1>5, <1>6, InjectedKnown
<1> QED
  BY <1>1, <1>2, <1>4, <1>6, <1>7, <1>8 DEF InputTypes

\* Nothing that tells the client anything changes.
LEMMA UntoldKnown ==
  ASSUME InputIInv, UNCHANGED <<stateVars, num_devices, ev, pc, seen, client, raced, todo>>,
         {connected', g_inited', g_raw_mouse_active'} \subseteq BOOLEAN,
         pipe' \in {"zero", "open", "closed"}, bytes' \in 0 .. PipeCapacity,
         calls' \in Plans, TapStarted'
  PROVE  InputIInv'
<1>1. \A t : Unqueued(t)' = Unqueued(t)
  BY DEF Unqueued
<1>2. WillKnow' = WillKnow /\ Truth' = Truth
  BY <1>1 DEF WillKnow, Truth, stateVars
<1> QED
  BY <1>2 DEF InputIInv, InputTypes, stateVars

\* The main thread's calls; what its plans can be is known from WakeNext.
LEMMA MainKnown ==
  ASSUME InputIInv, calls' \in Plans,
         \/ CreateContext \/ Unref \/ SdlBackendInit \/ Wake \/ SdlBackendInitNot
         \/ StartRawMouseCapture \/ Dispatch \/ GetEvent
  PROVE  InputIInv'
<1> DEFINE drain == <<"libinput_dispatch", "libinput_get_event">>
<1>0. InputTypes /\ TapStarted /\ 0 \in 0 .. PipeCapacity /\ calls \in Plans
  BY BoundsAssumption DEF InputIInv, InputTypes
<1>a. Head(drain) = "libinput_dispatch" /\ Head(<<"sdl_backend_init">> \o drain) = "sdl_backend_init"
  OBVIOUS
<1> HIDE DEF drain
<1>b. ASSUME NEW label \in Calls, Return(label), calls' = Tail(calls)
      PROVE  ~Starting'
  <2>2. Tail(calls) \in {<< >>, drain, <<"libinput_get_event">>}
    BY <1>0, <1>b, NextCall DEF Return, Calls, drain
  <2>3. Head(<<"libinput_get_event">>) = "libinput_get_event"
    OBVIOUS
  <2> QED
    BY <1>a, <1>b, <2>2, <2>3 DEF Starting
<1>1. CASE CreateContext
  <2>1. /\ Idle(Main) /\ ~Starting' /\ pipe' = "open" /\ bytes' = 0 /\ connected' = TRUE
        /\ UNCHANGED <<ev, stateVars, g_inited, g_raw_mouse_active, pc, seen, raced, client>>
    BY <1>1, <1>a DEF CreateContext, InLoop, Starting, drain
  <2>2. CASE connected
    <3>1. UNCHANGED <<num_devices, todo>>
      BY <1>1, <2>2 DEF CreateContext
    <3>2. TapStarted'
      BY <1>0, <2>1, <3>1 DEF TapStarted
    <3> QED
      BY <1>0, <2>1, <3>1, <3>2, UntoldKnown DEF InputTypes
  <2>3. CASE ~connected
    <3>1. EnsureDevices(Main, << >>)
      BY <1>1, <2>3 DEF CreateContext
    <3>2. /\ num_devices' = 2
          /\ todo' = [todo EXCEPT ![Main] = NewDevices \o << >>]
      BY <3>1 DEF EnsureDevices
    <3>3. g_raw_mouse_active => NewDevices \o << >> \in Few(KeyEvents)
      BY <1>0 DEF TapStarted, NewDevices, Few
    <3>4. TapStarted'
      BY <1>0, <2>1, <3>2, <3>3 DEF TapStarted, InputTypes, Injectors, Main, Tap
    <3>5. /\ todo' \in [Injectors -> Seq(MadeEvents)]
          /\ \A t \in Injectors : pc'[t] # "append" => todo'[t] # << >>
          /\ raced \/ WillKnow' = Truth'
      BY <2>1, <3>1, <3>4, AnnouncedKnown
    <3>6. InputTypes'
      BY <1>0, <2>1, <3>2, <3>5 DEF InputTypes, stateVars
    <3> QED
      BY <2>1, <3>4, <3>5, <3>6 DEF InputIInv
  <2> QED
    BY <2>2, <2>3
<1>2. CASE Unref
  <2>1. TapStarted'
    BY <1>0, <1>2 DEF Unref, TapStarted, Starting, lifeVars
  <2> QED
    BY <1>0, <1>2, <2>1, UntoldKnown DEF Unref, lifeVars, InputTypes
<1>3. CASE SdlBackendInit
  <2>1. /\ Idle(Main) /\ ~g_inited /\ g_inited' = TRUE
        /\ EnsureDevices(Main, << >>)
        /\ UNCHANGED <<stateVars, ev, pipe, bytes, pc, seen, raced, connected,
                       g_raw_mouse_active, client>>
    BY <1>3 DEF SdlBackendInit, InLoop, Return, queueVars
  <2>2. /\ num_devices' = 2
        /\ todo' = [todo EXCEPT ![Main] = NewDevices \o << >>]
    BY <2>1 DEF EnsureDevices
  <2>3. ~g_raw_mouse_active /\ todo'[Tap] = todo[Tap]
    BY <1>0, <2>1, <2>2 DEF TapStarted, InputTypes, Injectors, Main, Tap
  <2>4. TapStarted'
    BY <1>0, <2>1, <2>2, <2>3 DEF TapStarted
  <2>5. /\ todo' \in [Injectors -> Seq(MadeEvents)]
        /\ \A t \in Injectors : pc'[t] # "append" => todo'[t] # << >>
        /\ raced \/ WillKnow' = Truth'
    BY <2>1, <2>4, AnnouncedKnown
  <2>6. InputTypes'
    BY <1>0, <2>1, <2>2, <2>5 DEF InputTypes, stateVars
  <2> QED
    BY <2>1, <2>4, <2>5, <2>6 DEF InputIInv
<1>4. CASE Wake
  <2>1. ~Starting'
    BY <1>4, <1>a DEF Wake, Starting, drain
  <2>2. TapStarted'
    BY <1>0, <1>4, <2>1 DEF Wake, TapStarted, lifeVars
  <2> QED
    BY <1>0, <1>4, <2>2, UntoldKnown DEF Wake, queueVars, lifeVars, InputTypes
<1>5. CASE SdlBackendInitNot
  <2>1. ~Starting'
    BY <1>5, <1>b DEF SdlBackendInitNot, Calls
  <2>2. TapStarted'
    BY <1>0, <1>5, <2>1 DEF SdlBackendInitNot, TapStarted, lifeVars
  <2> QED
    BY <1>0, <1>5, <2>2, UntoldKnown DEF SdlBackendInitNot, queueVars, lifeVars, InputTypes
<1>6. CASE StartRawMouseCapture
  <2>1. ~Starting'
    BY <1>6, <1>b DEF StartRawMouseCapture, Calls
  <2>2. /\ Starting /\ Idle(Main) /\ g_raw_mouse_active' \in BOOLEAN
        /\ UNCHANGED <<queueVars, stateVars, connected, g_inited, num_devices, todo, client>>
    BY <1>6 DEF StartRawMouseCapture, Return, Starting
  <2>3. TapStarted'
    BY <1>0, <2>1, <2>2 DEF TapStarted, Idle, Few
  <2> QED
    BY <1>0, <2>2, <2>3, UntoldKnown DEF queueVars, InputTypes
<1>7. CASE Dispatch
  <2>1. ~Starting'
    BY <1>7, <1>b DEF Dispatch, Calls
  <2>2. TapStarted'
    BY <1>0, <1>7, <2>1 DEF Dispatch, TapStarted, lifeVars
  <2> QED
    BY <1>0, <1>7, <2>2, UntoldKnown DEF Dispatch, lifeVars, InputTypes
<1>8. CASE GetEvent
  <2>1. UNCHANGED <<pipe, bytes, pc, seen, raced, stateVars, lifeVars, num_devices, todo>>
    BY <1>8 DEF GetEvent
  <2>2. CASE ev = << >>
    <3>1. calls' = Tail(calls) /\ UNCHANGED <<ev, client>> /\ ~Starting'
      BY <1>8, <1>b, <2>2 DEF GetEvent, Calls
    <3>2. TapStarted'
      BY <1>0, <2>1, <3>1 DEF TapStarted, lifeVars
    <3> QED
      BY <1>0, <2>1, <3>1, <3>2, UntoldKnown DEF lifeVars, InputTypes
  <2>3. CASE ev # << >>
    <3>1. client' = Takes(client, Head(ev)) /\ ev' = Tail(ev) /\ calls' = calls
      BY <1>8, <2>3 DEF GetEvent
    <3>2. /\ ev \in Seq(MadeEvents) /\ Head(ev) \in MadeEvents /\ Tail(ev) \in Seq(MadeEvents)
          /\ client \in Clients
      BY <1>0, <2>3 DEF InputTypes
    <3>3. client' \in Clients
      BY <3>1, <3>2, TakesType
    <3>4. Learnt(ev, client)' = Learnt(ev, client)
      BY <2>3, <3>1, <3>2, LearntFirst
    <3>5. \A t : Unqueued(t)' = Unqueued(t)
      BY <2>1 DEF Unqueued
    <3>6. WillKnow' = WillKnow /\ Truth' = Truth
      BY <2>1, <3>4, <3>5 DEF WillKnow, Truth, stateVars
    <3>7. InputTypes'
      BY <1>0, <2>1, <3>1, <3>2, <3>3 DEF InputTypes, stateVars, lifeVars
    <3>8. TapStarted'
      BY <1>0, <2>1, <3>1 DEF TapStarted, Starting, lifeVars
    <3> QED
      BY <2>1, <3>6, <3>7, <3>8 DEF InputIInv
  <2> QED
    BY <2>2, <2>3
<1> QED
  BY <1>1, <1>2, <1>3, <1>4, <1>5, <1>6, <1>7, <1>8

LEMMA FirstKnown == InputInit => InputIInv
<1> SUFFICES ASSUME InputInit PROVE InputIInv
  OBVIOUS
<1>1. /\ ev = << >> /\ client = [told |-> {}, pressed |-> {}, sane |-> TRUE]
      /\ calls = << >> /\ \A t \in Injectors : todo[t] = << >> /\ pc[t] = "append"
  BY DEF InputInit
<1>2. client \in Clients /\ Truth = client
  BY <1>1 DEF InputInit, Clients, Truth
<1>3. InputTypes
  <2>1. IsFiniteSet({}) /\ Cardinality({}) = 0
    BY FS_EmptySet
  <2>2. << >> \in Plans /\ << >> \in Seq(MadeEvents)
    BY DEF Plans
  <2>3. 0 \in 0 .. PipeCapacity
    BY BoundsAssumption
  <2> QED
    BY <1>1, <1>2, <2>1, <2>2, <2>3 DEF InputInit, InputTypes
<1>4. TapStarted
  BY <1>1 DEF InputInit, TapStarted, Starting, Few, Injectors
<1>5. Unqueued(Main) = << >> /\ Unqueued(Tap) = << >>
  BY <1>1 DEF Unqueued, Injectors
<1>6. WillKnow = client
  BY <1>1, <1>2, <1>5, LearntNothing DEF WillKnow
<1> QED
  BY <1>2, <1>3, <1>4, <1>6 DEF InputIInv

LEMMA NextKnown == InputIInv /\ WakeIInv' /\ [InputNext]_inputVars => InputIInv'
<1> SUFFICES ASSUME InputIInv, WakeIInv', [InputNext]_inputVars PROVE InputIInv'
  OBVIOUS
<1>1. CASE UNCHANGED inputVars
  <2>1. TapStarted'
    BY <1>1 DEF inputVars, InputIInv, TapStarted, Starting
  <2> QED
    BY <1>1, <2>1, UntoldKnown DEF inputVars, stateVars, InputIInv, InputTypes
<1>2. CASE InputNext
  <2>1. calls' \in Plans
    BY DEF WakeIInv
  <2> QED
    BY <1>2, <2>1, QueueStepKnown, InputKnown, MainKnown DEF InputNext, MainStep
<1> QED
  BY <1>1, <1>2

\* What the client will know when it has taken what is under way is what there is
\* to know, with every event that two threads make, queue and announce in steps.
THEOREM KnownInvariance == InputSpec => []InputIInv
BY FirstKnown, NextKnown, WakeInvariance, PTL DEF InputSpec

\* The counters of pressed keys and buttons are those of their bit maps, and the
\* client is told of every change once, in an order that makes sense to it.
THEOREM ClientKept == InputSpec => []InputInv
<1>1. InputIInv => InputInv
  <2> SUFFICES ASSUME InputIInv PROVE InputInv
    OBVIOUS
  <2>1. calls \in Seq(Calls)
    <3>1. \A a, b, c \in Calls : {<< >>, <<a>>, <<a, b>>, <<a, b, c>>} \subseteq Seq(Calls)
      OBVIOUS
    <3>2. {"sdl_backend_init", "start_raw_mouse_capture", "libinput_dispatch",
           "libinput_get_event"} \subseteq Calls
      BY DEF Calls
    <3> QED
      BY <3>1, <3>2, ZenonT(30) DEF InputIInv, InputTypes, Plans
  <2>2. \A q \in Seq(MadeEvents) : q \in Seq(EventType)
    BY DEF MadeEvents
  <2>3. InputTypeOK
    BY <2>1, <2>2 DEF InputIInv, InputTypes, InputTypeOK, Clients
  <2>4. ClientInStep
    BY DEF InputIInv, ClientInStep, Truth
  <2> QED
    BY <2>3, <2>4 DEF InputInv
<1> QED
  BY <1>1, KnownInvariance, PTL

=============================================================================
