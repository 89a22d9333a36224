------------------------------ MODULE TimerFD ------------------------------
(***************************************************************************)
(* The timerfd of shims/epoll (timerfd.c, timerfd_ctx.c) on top of the     *)
(* step detector: what is armed, the kqueue timers that stand for it, the  *)
(* clocks, readers, and the threads that tell a timer the clock was set.   *)
(*                                                                         *)
(* Every call holds desc->mutex, so only the clock, the kernel's timers    *)
(* and the other descriptors move during one.  A call is split where that  *)
(* shows: at kevent(), at reading the boot time, and at reading the clock. *)
(* kevent() on the descriptor's own kqueue does not fail, times do not     *)
(* overflow and none is ten years away.                                    *)
(***************************************************************************)
EXTENDS StepDetector

CONSTANTS Readers,      \* the threads that read
          Callers,      \* the threads that make the other calls
          Values,       \* it_value as clients give it, 0 disarms
          Intervals,    \* it_interval, 0 is a one-shot timer
          MAX_TIME,     \* bounds the monotonic clock
          MAX_ARMINGS,  \* bounds the calls of timerfd_settime
          MAX_STEPS     \* bounds how often the clock is set

ASSUME ValuesAssumption ==
  Values \subseteq Nat /\ Intervals \subseteq Nat
ASSUME TimersExist == Timers # {}   \* NoCall names one
ASSUME BoundsAssumption == {MAX_TIME, MAX_ARMINGS, MAX_STEPS} \subseteq Nat

VARIABLES
  mono,    \* CLOCK_MONOTONIC; CLOCK_REALTIME is offset ahead of it
  ctx,     \* TimerFDCtx of each timer
  kq,      \* its kqueue: ident 0 (at, fired) and ident 1 (cancel)
  op,      \* the call each thread is in
  todo,    \* the timers a walk has still to tell
  hist,    \* what was armed, has been reported and was not yet cancelled
  nr       \* calls so far, for the bounds

vars == <<svars, mono, ctx, kq, op, todo, hist, nr>>

NoTimer == -1

Fresh   == [type |-> "unspecified", value |-> 0, interval |-> 0, nr |-> 0,
            cancel |-> FALSE, force |-> FALSE, off |-> 0]
FreshKq == [at |-> NoTimer, fired |-> FALSE, cancel |-> FALSE]
NoHist  == [first |-> 0, reported |-> 0, off |-> 0, stepped |-> FALSE,
            spent |-> FALSE]

NoOp(t) == [pc |-> "idle", t |-> t, block |-> FALSE, got |-> "none",
            cancelled |-> FALSE, abs |-> FALSE]

NoCall == NoOp(CHOOSE t \in Timers : TRUE)

Threads == Readers \cup Callers

Actors == Threads \cup Detectors

\* timerfd_create, for every timer.
Init ==
  /\ StepInit
  /\ mono = 0
  /\ ctx = [t \in Timers |-> Fresh]
  /\ kq = [t \in Timers |-> FreshKq]
  /\ op = [a \in Actors |-> NoCall]
  /\ todo = [d \in Detectors |-> {}]
  /\ hist = [t \in Timers |-> NoHist]
  /\ nr = [armings |-> 0, steps |-> 0]

-----------------------------------------------------------------------------
\* Operators on a timer c, its kqueue k and the clock.

Armed(c) == c.value # 0

\* timerfd_ctx_can_jump
CanJump(t, c) == t \in Realtime /\ c.type = "absolute"

\* timerfd_ctx_get_clocktime: a relative timer is not moved by setting the
\* clock, so it is kept on the monotonic one.
Clock(t, type) == mono + IF t \in Realtime /\ type = "absolute"
                         THEN offset ELSE 0

Disarm(c) == [c EXCEPT !.value = 0, !.type = "unspecified"]

\* timerfd_ctx_update_to_current_time
CatchUp(c, now) ==
  IF ~Armed(c) \/ now < c.value THEN c
  ELSE IF c.interval = 0 THEN [Disarm(c) EXCEPT !.nr = c.nr + 1]
  ELSE LET n == (now - c.value) \div c.interval + 1
       IN  [c EXCEPT !.nr = @ + n, !.value = @ + n * c.interval]

\* timerfd_ctx_register_event: EV_DELETE, then a one-shot timer that runs
\* on the monotonic clock.
Register(k, value, now) ==
  [k EXCEPT !.at = mono + (IF value > now THEN value - now ELSE 0),
            !.fired = FALSE]

\* EV_DELETE of ident 0.
Unregister(k) == [k EXCEPT !.at = NoTimer, !.fired = FALSE]

\* timerfd_ctx_rearm_kevent
Rearm(c, k, now, delete) ==
  IF Armed(c) THEN Register(k, c.value, now)
  ELSE IF delete THEN Unregister(k) ELSE k

\* timerfd_ctx_check_for_cancel: what it returns, and what it leaves of the
\* timer and (timerfd_ctx_clear_force_cancel) of the kqueue.
IsStepped(t, c) == CanJump(t, c) /\ (c.force \/ c.off # offset)

IsCancelled(t, c) == IsStepped(t, c) /\ c.cancel

Checked(t, c) ==
  IF t \notin Realtime THEN c
  ELSE [c EXCEPT !.off = IF CanJump(t, c) THEN offset ELSE @,
                 !.force = FALSE]

CheckedKq(t, c, k) ==
  IF t \in Realtime /\ c.force THEN [k EXCEPT !.cancel = FALSE] ELSE k

-----------------------------------------------------------------------------
\* desc->mutex is held from the first to the last step of a call.
Holding == {"check", "clock", "setcheck", "monitor", "rearm"}

Free(t) == \A a \in Actors : op[a].pc \in Holding => op[a].t # t

Idle(a) == op[a].pc = "idle"

Return(a) == op' = [op EXCEPT ![a] = NoCall]

Readable(t) == kq[t].fired \/ kq[t].cancel

\* timerfd_ctx_read_or_block: EAGAIN makes a blocking reader poll().
Again(a, t, block) ==
  op' = [op EXCEPT ![a] = IF block
           THEN [NoOp(t) EXCEPT !.pc = "wait", !.block = TRUE]
           ELSE NoCall]

\* timerfd_ctx_read of a timer that is not set.
ReadDisarmed(a, t, block) ==
  /\ Free(t)
  /\ ctx[t].type = "unspecified"
  /\ Again(a, t, block)
  /\ UNCHANGED <<svars, mono, ctx, kq, todo, hist, nr>>

\* ... of one that is: the events are taken out, ident 0 counts for more.
ReadTake(a, t, block) ==
  /\ Free(t)
  /\ ctx[t].type # "unspecified"
  /\ op' = [op EXCEPT ![a] =
       [NoOp(t) EXCEPT !.pc = "check", !.block = block,
                       !.got = IF kq[t].fired THEN "timer"
                               ELSE IF kq[t].cancel THEN "cancel"
                               ELSE "none"]]
  /\ kq' = [kq EXCEPT ![t] =
       [at |-> IF @.fired THEN NoTimer ELSE @.at,
        fired |-> FALSE, cancel |-> FALSE]]
  /\ UNCHANGED <<svars, mono, ctx, todo, hist, nr>>

Read(a, t, block) ==
  ReadDisarmed(a, t, block) \/ ReadTake(a, t, block)

ReadCall(a, t) == Idle(a) /\ \E block \in BOOLEAN : Read(a, t, block)

\* poll() returns and the reader tries again.
Wake(a) ==
  /\ op[a].pc = "wait"
  /\ Readable(op[a].t)
  /\ op' = [op EXCEPT ![a].pc = "again"]
  /\ UNCHANGED <<svars, mono, ctx, kq, todo, hist, nr>>

Retry(a) == op[a].pc = "again" /\ Read(a, op[a].t, TRUE)

\* The cancellation is reported at once when the timer's own event came too:
\* the event is spent, and none replaces it until the timer is set again.
ReadCheck(a) ==
  LET t == op[a].t
      c == ctx[t]
      cancelled == IsCancelled(t, c)
  IN  /\ op[a].pc = "check"
      /\ ctx' = [ctx EXCEPT ![t] = Checked(t, c)]
      /\ kq' = [kq EXCEPT ![t] = CheckedKq(t, c, kq[t])]
      /\ hist' = IF cancelled
                 THEN [hist EXCEPT ![t].off = ctx'[t].off,
                                   ![t].spent = @ \/ op[a].got = "timer"]
                 ELSE hist
      /\ IF cancelled /\ op[a].got = "timer" THEN Return(a)
         ELSE op' = [op EXCEPT ![a].pc = "clock",
                               ![a].cancelled = cancelled]
      /\ UNCHANGED <<svars, mono, todo, nr>>

\* The timer as the clock of this moment finds it.
ReadNow(a) == CatchUp(ctx[op[a].t], Clock(op[a].t, ctx[op[a].t].type))

\* The kernel's timer for c, which a read leaves behind: the event that was
\* taken out is not there to be deleted.
ReadRearms(a, c) ==
  LET t == op[a].t
  IN  kq' = [kq EXCEPT ![t] =
        Rearm(c, @, Clock(t, ctx[t].type), op[a].got # "timer")]

\* The rest of timerfd_ctx_read, with what it reports in c.nr.
Finish(a, c) ==
  /\ ctx' = [ctx EXCEPT ![op[a].t] = [c EXCEPT !.nr = 0]]
  /\ ReadRearms(a, c)
  /\ hist' = [hist EXCEPT ![op[a].t].reported = @ + c.nr]
  /\ UNCHANGED <<svars, mono, todo, nr>>

\* A slip: the read that fails drops the expirations that gettime counted.
ReadCancelledDrops(a) ==
  /\ op[a].pc = "clock" /\ op[a].cancelled
  /\ ctx' = [ctx EXCEPT ![op[a].t].nr = 0]
  /\ ReadRearms(a, ctx[op[a].t])
  /\ Return(a)
  /\ UNCHANGED <<svars, mono, todo, hist, nr>>

\* ECANCELED: expirations that timerfd_gettime has counted wait for the next
\* read.
ReadCancelled(a) ==
  /\ op[a].pc = "clock" /\ op[a].cancelled
  /\ ReadRearms(a, ctx[op[a].t])
  /\ Return(a)
  /\ UNCHANGED <<svars, mono, ctx, todo, hist, nr>>

ReadExpired(a) ==
  /\ op[a].pc = "clock" /\ ~op[a].cancelled
  /\ ReadNow(a).nr > 0
  /\ Finish(a, ReadNow(a))
  /\ Return(a)

\* Neither an event nor an expiration: EAGAIN.
ReadNothing(a) ==
  /\ op[a].pc = "clock" /\ ~op[a].cancelled
  /\ ReadNow(a).nr = 0
  /\ op[a].got = "none"
  /\ Again(a, op[a].t, op[a].block)
  /\ ctx' = [ctx EXCEPT ![op[a].t] = ReadNow(a)]
  /\ UNCHANGED <<svars, mono, kq, todo, hist, nr>>

\* A slip: an event that came too soon ends the read without a new timer.
ReadEarlyNoRearm(a) ==
  /\ op[a].pc = "clock" /\ ~op[a].cancelled
  /\ ReadNow(a).nr = 0
  /\ op[a].got # "none"
  /\ Return(a)
  /\ UNCHANGED <<svars, mono, ctx, kq, todo, hist, nr>>

\* The event came but the clock has been set back: a cancellation for a
\* TFD_TIMER_CANCEL_ON_SET timer, one expiration for a one-shot timer,
\* nothing for a periodic one.
ReadEarly(a) ==
  LET c == ReadNow(a)
  IN  /\ op[a].pc = "clock" /\ ~op[a].cancelled
      /\ c.nr = 0
      /\ op[a].got # "none"
      /\ Finish(a, IF c.cancel \/ c.interval # 0 THEN c
                   ELSE [Disarm(c) EXCEPT !.nr = 1])
      /\ Return(a)

-----------------------------------------------------------------------------
\* timerfd_gettime, and what timerfd_settime does first when it is asked for
\* the old value: the timer is brought up to the clock.
Gettime(a, t) ==
  /\ Idle(a) /\ Free(t)
  /\ ctx[t].type # "unspecified"
  /\ ctx' = [ctx EXCEPT ![t] = CatchUp(@, Clock(t, @.type))]
  /\ UNCHANGED <<svars, mono, kq, op, todo, hist, nr>>

\* timerfd_ctx_settime up to nr_expirations = 0.
Disarmed(t) ==
  /\ ctx' = [ctx EXCEPT ![t] = [Disarm(@) EXCEPT !.cancel = FALSE,
                                                 !.nr = 0]]
  /\ kq' = [kq EXCEPT ![t] = Unregister(@)]
  /\ hist' = [hist EXCEPT ![t] = [NoHist EXCEPT !.off = hist[t].off]]

ArmedAt(t, abs, cancel, value, interval) ==
  LET type == IF abs THEN "absolute" ELSE "relative"
      at   == value + IF abs THEN 0 ELSE Clock(t, type)
  IN  /\ ctx' = [ctx EXCEPT ![t] =
           [@ EXCEPT !.type = type, !.value = at, !.interval = interval,
                     !.nr = 0, !.cancel = cancel /\ abs /\ t \in Realtime]]
      /\ kq' = [kq EXCEPT ![t] = Register(@, at, Clock(t, type))]
      /\ hist' = [hist EXCEPT ![t] =
           [NoHist EXCEPT !.first = at, !.off = hist[t].off]]

Settime(a, t, abs, cancel, value, interval) ==
  /\ Idle(a) /\ Free(t)
  /\ nr.armings < MAX_ARMINGS
  /\ nr' = [nr EXCEPT !.armings = @ + 1]
  /\ IF value = 0 THEN Disarmed(t)
     ELSE ArmedAt(t, abs, cancel, value, interval)
  /\ op' = [op EXCEPT ![a] =
       [NoOp(t) EXCEPT !.pc = "setcheck", !.abs = abs /\ value # 0]]
  /\ UNCHANGED <<svars, mono, todo>>

\* The boot time the new timer starts from.  That the clock was set since
\* the old timer was armed is the caller's ECANCELED, and arms the new one
\* all the same.
SetCheck(a) ==
  LET t == op[a].t
  IN  /\ op[a].pc = "setcheck"
      /\ ctx' = [ctx EXCEPT ![t] = Checked(t, @)]
      /\ kq' = [kq EXCEPT ![t] = CheckedKq(t, ctx[t], @)]
      /\ hist' = [hist EXCEPT ![t].off = ctx'[t].off]
      /\ op' = [op EXCEPT ![a].pc = "monitor"]
      /\ UNCHANGED <<svars, mono, todo, nr>>

\* timerfd_settime_impl: the step detector is told of the difference.
SetMonitor(a) ==
  /\ op[a].pc = "monitor"
  /\ SetAbstime(op[a].t, op[a].abs)
  /\ Return(a)
  /\ UNCHANGED <<offset, mono, ctx, kq, todo, hist, nr>>

\* timerfd_close, by the last reference; the number is a new timer's next.
\* A walk keeps the table's lock for reading, which close() waits for.
Close(t) ==
  /\ ctx[t] # Fresh
  /\ \A a \in Actors : Idle(a) \/ op[a].t # t
  /\ \A d \in Detectors : todo[d] = {}
  /\ SetAbstime(t, FALSE)
  /\ ctx' = [ctx EXCEPT ![t] = Fresh]
  /\ kq' = [kq EXCEPT ![t] = FreshKq]
  /\ hist' = [hist EXCEPT ![t] = NoHist]
  /\ UNCHANGED <<offset, mono, op, todo, nr>>

-----------------------------------------------------------------------------
\* timerfd_ctx_realtime_change, by the step detector's walk or (with a poll
\* function that is asked to prepare) by ppoll().  done is what the caller
\* does after it.

\* Nothing to tell: the timer does not jump, or has seen the new boot time.
ChangeKnown(t, done) ==
  /\ ~CanJump(t, ctx[t]) \/ ctx[t].off = offset
  /\ done
  /\ UNCHANGED <<ctx, kq, op>>

\* A slip: the reader is not woken.
ChangeNoEvent(t, done) ==
  /\ CanJump(t, ctx[t]) /\ ctx[t].off # offset
  /\ ctx[t].cancel
  /\ ctx' = [ctx EXCEPT ![t].off = offset, ![t].force = TRUE]
  /\ done
  /\ UNCHANGED <<kq, op>>

\* Readers are woken to find the cancellation.
ChangeCancels(t, done) ==
  /\ CanJump(t, ctx[t]) /\ ctx[t].off # offset
  /\ ctx[t].cancel
  /\ ctx' = [ctx EXCEPT ![t].off = offset, ![t].force = TRUE]
  /\ kq' = [kq EXCEPT ![t].cancel = TRUE]
  /\ done
  /\ UNCHANGED op

\* A reader will look at the clock anyway.
ChangePending(t, done) ==
  /\ CanJump(t, ctx[t]) /\ ctx[t].off # offset
  /\ ~ctx[t].cancel /\ Readable(t)
  /\ ctx' = [ctx EXCEPT ![t].off = offset]
  /\ done
  /\ UNCHANGED <<kq, op>>

\* The kernel's timer no longer fits; it may fire before it is replaced.
ChangeMoves(a, t) ==
  /\ CanJump(t, ctx[t]) /\ ctx[t].off # offset
  /\ ~ctx[t].cancel /\ ~Readable(t)
  /\ ctx' = [ctx EXCEPT ![t].off = offset]
  /\ op' = [op EXCEPT ![a] = [NoOp(t) EXCEPT !.pc = "rearm"]]
  /\ UNCHANGED <<kq, todo>>

RealtimeChange(a, t, done) ==
  /\ Idle(a) /\ Free(t)
  /\ \/ ChangeKnown(t, done)
     \/ ChangeCancels(t, done)
     \/ ChangePending(t, done)
     \/ ChangeMoves(a, t)

ChangeRearm(a, done) ==
  /\ op[a].pc = "rearm"
  /\ kq' = [kq EXCEPT ![op[a].t] =
       Rearm(ctx[op[a].t], @, Clock(op[a].t, ctx[op[a].t].type), TRUE)]
  /\ Return(a)
  /\ done
  /\ UNCHANGED <<ctx>>

\* timerfd_poll before the poll proper.
Poll(a, t) ==
  /\ RealtimeChange(a, t, UNCHANGED todo)
  /\ UNCHANGED <<svars, mono, hist, nr>>

PollRearm(a) ==
  /\ a \in Threads
  /\ ChangeRearm(a, UNCHANGED todo)
  /\ UNCHANGED <<svars, mono, hist, nr>>

\* The walk of the step detector.
Told(d, t) == todo' = [todo EXCEPT ![d] = @ \ {t}]

WalkBegins(d) ==
  /\ DetectorChecks(d)
  /\ todo' = IF detector'[d].pc = "walk" THEN [todo EXCEPT ![d] = Timers]
             ELSE todo
  /\ UNCHANGED <<mono, ctx, kq, op, hist, nr>>

WalkTells(d) ==
  /\ detector[d].pc = "walk"
  /\ \E t \in todo[d] : RealtimeChange(d, t, Told(d, t))
  /\ UNCHANGED <<svars, mono, hist, nr>>

WalkRearms(d) ==
  /\ ChangeRearm(d, Told(d, op[d].t))
  /\ UNCHANGED <<svars, mono, hist, nr>>

WalkEnds(d) ==
  /\ todo[d] = {}
  /\ DetectorWalked(d)
  /\ UNCHANGED <<mono, ctx, kq, op, todo, hist, nr>>

WalkReads(d) ==
  /\ DetectorReads(d)
  /\ UNCHANGED <<mono, ctx, kq, op, todo, hist, nr>>

-----------------------------------------------------------------------------
\* The world: time, the kernel's timers, and clock_settime().
Tick ==
  /\ mono < MAX_TIME
  /\ mono' = mono + 1
  /\ UNCHANGED <<svars, ctx, kq, op, todo, hist, nr>>

\* EVFILT_TIMER, ident 0: no earlier than asked, possibly later.
Fire(t) ==
  /\ kq[t].at \in 0 .. mono /\ ~kq[t].fired
  /\ kq' = [kq EXCEPT ![t].fired = TRUE]
  /\ UNCHANGED <<svars, mono, ctx, op, todo, hist, nr>>

SetClock ==
  /\ nr.steps < MAX_STEPS
  /\ nr' = [nr EXCEPT !.steps = @ + 1]
  /\ ClockIsSet
  /\ hist' = [t \in Timers |-> [hist[t] EXCEPT !.stepped = TRUE]]
  /\ UNCHANGED <<mono, ctx, kq, op, todo>>

ThreadStep(a) ==
  \/ Wake(a) \/ Retry(a)
  \/ ReadCheck(a) \/ ReadCancelled(a) \/ ReadExpired(a)
  \/ ReadNothing(a) \/ ReadEarly(a)
  \/ SetCheck(a) \/ SetMonitor(a)
  \/ PollRearm(a)

DetectorStep(d) ==
  \/ WalkReads(d) \/ WalkBegins(d) \/ WalkTells(d) \/ WalkRearms(d)
  \/ WalkEnds(d)

Call(a, t) ==
  \/ Gettime(a, t) \/ Poll(a, t)
  \/ \E abs, cancel \in BOOLEAN, value \in Values, interval \in Intervals :
       Settime(a, t, abs, cancel, value, interval)

Next ==
  \/ \E a \in Threads : ThreadStep(a)
  \/ \E a \in Readers, t \in Timers : ReadCall(a, t)
  \/ \E a \in Callers, t \in Timers : Call(a, t)
  \/ \E t \in Timers : Close(t) \/ Fire(t)
  \/ \E d \in Detectors : DetectorStep(d)
  \/ Tick
  \/ SetClock

Spec == Init /\ [][Next]_vars

\* Threads go on with the calls they are in and are not starved of a mutex
\* that is free again and again; time passes and the kernel's timers fire.
FairSpec ==
  /\ Spec
  /\ WF_vars(Tick)
  /\ \A t \in Timers : WF_vars(Fire(t))
  /\ \A a \in Threads : SF_vars(ThreadStep(a))
  /\ \A d \in Detectors : SF_vars(DetectorStep(d))

-----------------------------------------------------------------------------
CtxType == [type : {"unspecified", "relative", "absolute"}, value : Nat,
            interval : Intervals \cup {0}, nr : Nat, cancel : BOOLEAN,
            force : BOOLEAN, off : Offsets \cup {0}]

TypeOK ==
  /\ StepTypeOK
  /\ mono \in 0 .. MAX_TIME
  /\ ctx \in [Timers -> CtxType]
  /\ kq \in [Timers -> [at : Nat \cup {NoTimer}, fired : BOOLEAN,
                        cancel : BOOLEAN]]
  /\ op \in [Actors -> [pc : {"idle", "wait", "again"} \cup Holding,
                        t : Timers, block : BOOLEAN,
                        got : {"none", "timer", "cancel"},
                        cancelled : BOOLEAN, abs : BOOLEAN]]
  /\ todo \in [Detectors -> SUBSET Timers]
  /\ \A a, b \in Actors :   \* the mutex
       op[a].pc \in Holding /\ op[b].pc \in Holding /\ op[a].t = op[b].t
       => a = b

\* A timer that is set has its event in the kqueue or on its way whenever
\* nobody holds the mutex, through reads, cancellations and clock changes:
\* no reader can wait for an event that will not come.  On the monotonic
\* clock it is never too soon, unless gettime has counted ahead of it.  The
\* one exception is a timer whose event was taken by a read that failed with
\* ECANCELED: nothing happens to it any more until it is set again.
ArmedIsScheduled ==
  \A t \in Timers : Free(t) /\ Armed(ctx[t]) /\ ~hist[t].spent =>
    /\ kq[t].at # NoTimer
    /\ CanJump(t, ctx[t]) \/ ctx[t].nr > 0 \/ kq[t].at >= ctx[t].value

\* The other way round: the kqueue of a timer that is not set is quiet, so
\* that poll() does not promise what read() refuses.  The one exception is
\* timerfd_gettime of a one-shot timer that has expired: it counts the
\* expiration (nr is 1) and disarms the timer, and read() refuses it.
DisarmedIsQuiet ==
  \A t \in Timers :
    Free(t) /\ ctx[t].type = "unspecified" /\ ctx[t].nr = 0
    => kq[t].at = NoTimer

\* The expirations of a periodic timer that reads have reported and those
\* that wait make up for the distance between its first time and its next,
\* whatever the clock, gettime and late or early events do in between.
ExpirationsAddUp ==
  \A t \in Timers :
    ctx[t].type # "unspecified" /\ ctx[t].interval > 0 =>
      ctx[t].value =
        hist[t].first + ctx[t].interval * (hist[t].reported + ctx[t].nr)

\* The assertions of timerfd_ctx_read (timerfd_ctx.c:688, 689): an event
\* without an expiration is the timer's own, and only of a timer that can
\* jump.
ReadAssertions ==
  \A a \in Threads :
    /\ op[a].pc = "clock" /\ ~op[a].cancelled
    /\ op[a].got # "none" /\ ReadNow(a).nr = 0
    => op[a].got = "timer" /\ CanJump(op[a].t, ReadNow(a))

\* A clock change that a TFD_TIMER_CANCEL_ON_SET timer has taken note of,
\* by whatever thread, but has not reported yet, is still to be reported.
StepNotForgotten ==
  \A t \in Timers :
    /\ ctx[t].cancel /\ CanJump(t, ctx[t])
    /\ ctx[t].off # hist[t].off
    /\ \A a \in Actors : op[a].t = t => op[a].pc # "setcheck"
    => ctx[t].force

\* read() fails with ECANCELED, or reports a one-shot timer too soon, only
\* if the clock was set since the timer was.
OnlyStepsCancel ==
  \A a \in Threads :
    LET t == op[a].t
    IN  \/ /\ op[a].pc = "check"
           /\ IsCancelled(t, ctx[t])
        \/ /\ op[a].pc = "clock" /\ ~op[a].cancelled
           /\ op[a].got # "none" /\ ReadNow(a).nr = 0
        => hist[t].stepped

\* A reader that waits for a timer whose time comes within the bounds gets
\* something, however the clock is set, unless the timer is taken from it
\* (set anew, disarmed, or spent by a cancellation).
WaitsFor(a, t) ==
  /\ op[a].pc = "wait" /\ op[a].t = t
  /\ ctx[t].value \in 1 .. MAX_TIME /\ ~hist[t].spent

BlockedReadReturns ==
  \A a \in Readers, t \in Timers : WaitsFor(a, t) ~> ~WaitsFor(a, t)

\* A reader of a TFD_TIMER_CANCEL_ON_SET timer is told that the clock was
\* set by a step detector that has not seen it, though the timer itself may
\* be years away.
WaitsCancel(a, t) ==
  /\ op[a].pc = "wait" /\ op[a].t = t
  /\ ctx[t].cancel /\ CanJump(t, ctx[t])

CancelReaches ==
  \A a \in Readers, t \in Timers :
    /\ WaitsCancel(a, t) /\ ctx[t].off # offset
    /\ \E d \in Detectors : Current(d) /\ detector[d].off # offset
    ~> ~WaitsCancel(a, t) \/ (ctx[t].off = offset /\ ~ctx[t].force)

\* What timerfd_ctx.c keeps between any two of its critical sections, and what it
\* asserts in them: the parts above, and that the count of timers that can jump
\* is right.
TimerInv ==
  /\ TypeOK
  /\ ArmedIsScheduled
  /\ DisarmedIsQuiet
  /\ ExpirationsAddUp
  /\ ReadAssertions
  /\ StepNotForgotten
  /\ OnlyStepsCancel
  /\ CountsJumpingTimers

=============================================================================
