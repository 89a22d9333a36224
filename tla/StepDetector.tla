---------------------------- MODULE StepDetector ----------------------------
(***************************************************************************)
(* The realtime step detector of shims/epoll (epoll_shim_ctx.c).  Absolute *)
(* CLOCK_REALTIME timers have to be told when the clock is set.  While     *)
(* there is such a timer one thread looks at the kernel's boot time every  *)
(* second; the last timer to go raises the generation, and a thread of an  *)
(* older generation retires when it next wakes up.                         *)
(*                                                                         *)
(* What telling a timer does is in TimerFD; here a walk over the           *)
(* descriptors is one step.                                                *)
(***************************************************************************)
EXTENDS Integers, FiniteSets

CONSTANTS Timers,     \* the timer descriptors
          Realtime,   \* those created with CLOCK_REALTIME
          Offsets,    \* boot times: what CLOCK_REALTIME is ahead
          Detectors,  \* the threads pthread_create can make
          MAX_GENERATION  \* bounds the restarts

ASSUME TimersAssumption ==
  /\ IsFiniteSet(Timers)
  /\ Realtime \subseteq Timers
  /\ Offsets \subseteq Int
  /\ MAX_GENERATION \in Nat

VARIABLES
  is_abstime,   \* of each timer, as last set
  offset,       \* the kernel's boot time
  nr_fds,       \* nr_fds_for_realtime_step_detector
  generation,   \* realtime_step_detector_generation
  detector      \* per thread: its pc, its arguments and what it has read

svars == <<is_abstime, offset, nr_fds, generation, detector>>

DetectorPc == {"none", "sleep", "check", "walk", "gone"}

NewThread == [pc |-> "none", gen |-> 0, off |-> 0, seen |-> 0]

StepInit ==
  /\ is_abstime = [t \in Timers |-> FALSE]
  /\ offset \in Offsets
  /\ nr_fds = 0
  /\ generation = 0
  /\ detector = [d \in Detectors |-> NewThread]

\* The timers that want to be told (old_can_jump, new_can_jump).
Jumps(abstime) == {t \in Realtime : abstime[t]}

\* epoll_shim_ctx_start_realtime_step_detection: the thread is given the
\* generation and the boot time of this moment.  Making it may fail, and is
\* given up silently.
Start ==
  \/ \E d \in Detectors :
       /\ d = CHOOSE e \in Detectors : detector[e].pc = "none"
       /\ detector[d].pc = "none"
       /\ detector' = [detector EXCEPT ![d] =
            [pc |-> "sleep", gen |-> generation, off |-> offset,
             seen |-> offset]]
  \/ UNCHANGED detector

\* A slip: the last timer does not raise the generation.
MonitorNoGeneration(change) ==
  /\ nr_fds' = nr_fds + change
  /\ UNCHANGED generation
  /\ IF change > 0 /\ nr_fds = 0 THEN Start ELSE UNCHANGED detector

\* epoll_shim_ctx_update_realtime_change_monitoring, under its mutex.
Monitor(change) ==
  /\ nr_fds' = nr_fds + change
  /\ generation' = IF change < 0 /\ nr_fds' = 0 THEN generation + 1
                   ELSE generation
  /\ IF change > 0 /\ nr_fds = 0 THEN Start ELSE UNCHANGED detector

\* timerfd_settime_impl and timerfd_close: a timer becomes absolute or
\* stops being it, and the count follows by the difference.
SetAbstime(t, b) ==
  LET can_jump(a) == IF t \in Realtime /\ a THEN 1 ELSE 0
  IN  /\ generation < MAX_GENERATION
      /\ is_abstime' = [is_abstime EXCEPT ![t] = b]
      /\ Monitor(can_jump(b) - can_jump(is_abstime[t]))

\* The clock is set (external: any process may call clock_settime).
ClockIsSet ==
  /\ offset' \in Offsets \ {offset}
  /\ UNCHANGED <<is_abstime, nr_fds, generation, detector>>

\* realtime_step_detection, after its sleep: the boot time is read first...
DetectorReads(d) ==
  /\ detector[d].pc = "sleep"
  /\ detector' = [detector EXCEPT ![d].pc = "check", ![d].seen = offset]
  /\ UNCHANGED <<is_abstime, offset, nr_fds, generation>>

\* ... then the generation, under the mutex; the boot times are compared
\* and a change is remembered before anybody is told.
DetectorChecks(d) ==
  LET me == detector[d]
  IN  /\ me.pc = "check"
      /\ detector' = [detector EXCEPT ![d] =
           IF me.gen # generation THEN [NewThread EXCEPT !.pc = "gone"]
           ELSE [me EXCEPT !.off = me.seen,
                           !.pc = IF me.seen # me.off THEN "walk"
                                  ELSE "sleep"]]
      /\ UNCHANGED <<is_abstime, offset, nr_fds, generation>>

\* Every descriptor has been told.
DetectorWalked(d) ==
  /\ detector[d].pc = "walk"
  /\ detector' = [detector EXCEPT ![d].pc = "sleep"]
  /\ UNCHANGED <<is_abstime, offset, nr_fds, generation>>

StepNext ==
  \/ \E t \in Timers, b \in BOOLEAN :
       SetAbstime(t, b) /\ UNCHANGED offset
  \/ ClockIsSet
  \/ \E d \in Detectors :
       DetectorReads(d) \/ DetectorChecks(d) \/ DetectorWalked(d)

StepSpec == StepInit /\ [][StepNext]_svars

-----------------------------------------------------------------------------
DetectorType == [pc : DetectorPc, gen : Nat, off : Int, seen : Int]

StepTypeOK ==
  /\ is_abstime \in [Timers -> BOOLEAN]
  /\ offset \in Offsets
  /\ nr_fds \in Nat
  /\ generation \in Nat
  /\ detector \in [Detectors -> DetectorType]

\* The count is the number of timers that want to be told, through any
\* order of arming, re-arming and closing: the subtraction of
\* epoll_shim_ctx.c:550 never goes below zero and the assertion holds.
CountsJumpingTimers == nr_fds = Cardinality(Jumps(is_abstime))

Current(d) ==
  /\ detector[d].pc \in {"sleep", "check", "walk"}
  /\ detector[d].gen = generation

\* There is never more than one thread that will go on, though threads
\* retire long after the stop that ended their generation and a restart
\* may come before; and there is none when no timer wants to be told.
OneDetector ==
  /\ \A d, e \in Detectors : Current(d) /\ Current(e) => d = e
  /\ (\E d \in Detectors : Current(d)) => nr_fds > 0
=============================================================================
