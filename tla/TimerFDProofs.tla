---------------------------- MODULE TimerFDProofs ----------------------------
(***************************************************************************)
(* Proofs about the timers of shims/epoll, for every finite set of timers, *)
(* any threads, times and boot times.                                      *)
(*                                                                         *)
(* StepDetector by itself: CountsJumpingTimers and OneDetector.            *)
(* OneDetector needs that a thread's generation is never ahead of the      *)
(* current one, so that raising the generation leaves no thread current,   *)
(* and the count, so that a thread is only started when there is none.     *)
(*                                                                         *)
(* TimerFD implements StepDetector, which gives it both, and keeps         *)
(* TimerInv.  That speaks of a timer whose mutex is free; the inductive    *)
(* invariant says what is true of a timer at every moment (TimerOK), given *)
(* whether its event has been taken out or a new setting is half made, and *)
(* what the thread that holds the mutex may rely on (HolderOK).  One lemma *)
(* (OneTimer) says that a call touches one timer only; each action then    *)
(* has to be followed for that one timer's values.                         *)
(***************************************************************************)
EXTENDS TimerFD, FiniteSetTheorems, TLAPS

-----------------------------------------------------------------------------
(* The step detector.                                                       *)

\* No thread belongs to a generation to come.
NotAhead == \A d \in Detectors : detector[d].gen <= generation

StepIInv == StepTypeOK /\ CountsJumpingTimers /\ OneDetector /\ NotAhead

LEMMA StepInitIInv == StepInit => StepIInv
<1> SUFFICES ASSUME StepInit PROVE StepIInv
  OBVIOUS
<1>1. StepTypeOK
  BY TimersAssumption
     DEF StepInit, StepTypeOK, NewThread, DetectorType, DetectorPc
<1>2. CountsJumpingTimers
  <2>1. Jumps(is_abstime) = {}
    BY TimersAssumption DEF StepInit, Jumps
  <2> QED
    BY <2>1, FS_EmptySet DEF StepInit, CountsJumpingTimers
<1>3. OneDetector /\ NotAhead
  BY DEF StepInit, OneDetector, NotAhead, Current, NewThread
<1> QED
  BY <1>1, <1>2, <1>3 DEF StepIInv

\* What one timer's change does to the set of timers to be told.
LEMMA JumpsStep ==
  ASSUME StepTypeOK, CountsJumpingTimers,
         NEW t \in Timers, NEW b \in BOOLEAN,
         is_abstime' = [is_abstime EXCEPT ![t] = b]
  PROVE  Cardinality(Jumps(is_abstime')) =
           nr_fds + ((IF t \in Realtime /\ b THEN 1 ELSE 0)
                     - (IF t \in Realtime /\ is_abstime[t] THEN 1 ELSE 0))
<1> DEFINE J == Jumps(is_abstime)
           J1 == Jumps(is_abstime')
<1>1. IsFiniteSet(J) /\ Cardinality(J) = nr_fds
  <2>1. J \subseteq Timers
    BY TimersAssumption DEF Jumps
  <2> QED
    BY <2>1, TimersAssumption, FS_Subset DEF CountsJumpingTimers
<1>2. nr_fds \in Nat
  BY DEF StepTypeOK
<1>3. CASE t \in Realtime /\ b /\ ~is_abstime[t]
  <2>1. J1 = J \cup {t} /\ t \notin J
    BY <1>3, TimersAssumption DEF Jumps, StepTypeOK
  <2>2. Cardinality(J1) = Cardinality(J) + 1
    BY <1>1, <2>1, FS_AddElement
  <2> QED
    BY <1>1, <1>2, <1>3, <2>2
<1>4. CASE t \in Realtime /\ ~b /\ is_abstime[t]
  <2>1. J1 = J \ {t} /\ t \in J
    BY <1>4, TimersAssumption DEF Jumps, StepTypeOK
  <2>2. Cardinality(J1) = Cardinality(J) - 1
    BY <1>1, <2>1, FS_RemoveElement
  <2> QED
    BY <1>1, <1>2, <1>4, <2>2
<1>5. CASE ~(t \in Realtime) \/ b = is_abstime[t]
  <2>1. J1 = J
    BY <1>5, TimersAssumption DEF Jumps, StepTypeOK
  <2> QED
    BY <1>1, <1>2, <1>5, <2>1
<1>6. is_abstime[t] \in BOOLEAN
  BY DEF StepTypeOK
<1> QED
  BY <1>3, <1>4, <1>5, <1>6

LEMMA SetAbstimeIInv ==
  ASSUME StepIInv, NEW t \in Timers, NEW b \in BOOLEAN,
         SetAbstime(t, b), UNCHANGED offset
  PROVE  StepIInv'
<1> DEFINE change == (IF t \in Realtime /\ b THEN 1 ELSE 0)
                     - (IF t \in Realtime /\ is_abstime[t] THEN 1 ELSE 0)
<1>1. is_abstime' = [is_abstime EXCEPT ![t] = b] /\ Monitor(change)
  BY DEF SetAbstime
<1>2. Cardinality(Jumps(is_abstime')) = nr_fds + change
  BY <1>1, JumpsStep DEF StepIInv
<1>3. change \in {-1, 0, 1} /\ nr_fds \in Nat /\ generation \in Nat
  BY DEF StepIInv, StepTypeOK
<1>4. nr_fds' = nr_fds + change
  BY <1>1 DEF Monitor
<1>5. nr_fds' \in Nat /\ CountsJumpingTimers'
  <2>1. IsFiniteSet(Jumps(is_abstime'))
    <3>1. Jumps(is_abstime') \subseteq Timers
      BY TimersAssumption DEF Jumps
    <3> QED
      BY <3>1, TimersAssumption, FS_Subset
  <2>2. Cardinality(Jumps(is_abstime')) \in Nat
    BY <2>1, FS_CardinalityType
  <2> QED
    BY <1>2, <1>4, <2>2 DEF CountsJumpingTimers, Jumps
<1>6. generation' \in Nat /\ generation <= generation'
  BY <1>1, <1>3 DEF Monitor
<1> DEFINE Started(d) ==
      /\ detector[d].pc = "none"
      /\ detector' = [detector EXCEPT ![d] =
           [pc |-> "sleep", gen |-> generation, off |-> offset,
            seen |-> offset]]
<1>7. CASE change > 0 /\ nr_fds = 0 /\ \E d \in Detectors : Started(d)
  <2>1. PICK d \in Detectors : Started(d)
    BY <1>7
  <2>2. generation' = generation /\ nr_fds' > 0
    BY <1>1, <1>3, <1>4, <1>7 DEF Monitor
  <2>3. \A e \in Detectors : ~Current(e)
    BY <1>7 DEF StepIInv, OneDetector
  <2>4. detector' \in [Detectors -> DetectorType]
    BY <2>1, <1>3, TimersAssumption
       DEF StepIInv, StepTypeOK, DetectorType, DetectorPc
  <2>5. StepTypeOK'
    BY <1>1, <1>5, <1>6, <2>4 DEF StepIInv, StepTypeOK
  <2>6. \A e \in Detectors : e # d => detector'[e] = detector[e]
    BY <2>1 DEF StepIInv, StepTypeOK
  <2>7. \A e \in Detectors : Current(e)' => e = d
    BY <2>2, <2>3, <2>6 DEF Current
  <2>8. NotAhead'
    BY <2>1, <2>2, <2>6, <1>3 DEF StepIInv, StepTypeOK, NotAhead
  <2> QED
    BY <2>2, <2>5, <2>7, <2>8, <1>5 DEF StepIInv, OneDetector
<1>8. CASE UNCHANGED detector
  <2>1. StepTypeOK'
    BY <1>1, <1>5, <1>6, <1>8 DEF StepIInv, StepTypeOK
  <2>2. NotAhead'
    BY <1>6, <1>3, <1>8 DEF StepIInv, StepTypeOK, NotAhead, DetectorType
  <2>3. CASE generation' = generation
    <3>1. \A e \in Detectors : Current(e)' => Current(e)
      BY <1>8, <2>3 DEF Current
    <3>2. (\E e \in Detectors : Current(e)) => nr_fds' > 0
      <4>1. ~(change < 0 /\ nr_fds' = 0)
        BY <1>1, <1>3, <2>3 DEF Monitor
      <4> QED
        BY <4>1, <1>3, <1>4, <1>5 DEF StepIInv, OneDetector
    <3> QED
      BY <3>1, <3>2, <2>1, <2>2, <1>5 DEF StepIInv, OneDetector
  <2>4. CASE generation' = generation + 1
    <3>1. \A e \in Detectors : ~Current(e)'
      BY <1>3, <1>8, <2>4
         DEF StepIInv, StepTypeOK, NotAhead, Current, DetectorType
    <3> QED
      BY <3>1, <2>1, <2>2, <1>5 DEF StepIInv, OneDetector
  <2> QED
    BY <1>1, <2>3, <2>4 DEF Monitor
<1> QED
  BY <1>1, <1>7, <1>8 DEF Monitor, Start

\* A thread's own steps: it keeps its generation, and none comes back.
LEMMA DetectorIInv ==
  ASSUME StepIInv, NEW d \in Detectors,
         DetectorReads(d) \/ DetectorChecks(d) \/ DetectorWalked(d)
  PROVE  StepIInv'
<1>1. UNCHANGED <<is_abstime, offset, nr_fds, generation>>
  BY DEF DetectorReads, DetectorChecks, DetectorWalked
<1>2. detector[d] \in DetectorType /\ offset \in Int
  BY TimersAssumption DEF StepIInv, StepTypeOK
<1>3. PICK r \in DetectorType : /\ detector' = [detector EXCEPT ![d] = r]
                                /\ \/ r.pc = "gone" /\ r.gen = 0
                                   \/ r.gen = detector[d].gen
                                /\ detector[d].pc \in {"sleep", "check", "walk"}
  <2>1. CASE DetectorReads(d)
    BY <1>2, <2>1 DEF DetectorReads, DetectorType, DetectorPc
  <2>2. CASE DetectorChecks(d)
    <3>1. CASE detector[d].gen # generation
      <4> DEFINE r == [NewThread EXCEPT !.pc = "gone"]
      <4>1. r \in DetectorType
        BY DEF NewThread, DetectorType, DetectorPc
      <4>2. /\ detector' = [detector EXCEPT ![d] = r]
            /\ r.pc = "gone" /\ r.gen = 0
            /\ detector[d].pc \in {"sleep", "check", "walk"}
        BY <2>2, <3>1 DEF DetectorChecks, NewThread
      <4> QED
        BY <4>1, <4>2
    <3>2. CASE detector[d].gen = generation
      <4> DEFINE r == [detector[d] EXCEPT
                         !.off = detector[d].seen,
                         !.pc = IF detector[d].seen # detector[d].off
                                THEN "walk" ELSE "sleep"]
      <4>1. r \in DetectorType
        BY <1>2 DEF DetectorType, DetectorPc
      <4>2. /\ detector' = [detector EXCEPT ![d] = r]
            /\ r.gen = detector[d].gen
            /\ detector[d].pc \in {"sleep", "check", "walk"}
        BY <1>2, <2>2, <3>2 DEF DetectorChecks, DetectorType
      <4> QED
        BY <4>1, <4>2
    <3> QED
      BY <3>1, <3>2
  <2>3. CASE DetectorWalked(d)
    BY <1>2, <2>3 DEF DetectorWalked, DetectorType, DetectorPc
  <2> QED
    BY <2>1, <2>2, <2>3
<1>4. \A e \in Detectors : /\ detector'[e].gen \in {0, detector[e].gen}
                           /\ Current(e)' => Current(e)
  BY <1>1, <1>3 DEF StepIInv, StepTypeOK, Current
<1>5. StepTypeOK'
  BY <1>1, <1>3 DEF StepIInv, StepTypeOK
<1> QED
  BY <1>1, <1>4, <1>5
     DEF StepIInv, StepTypeOK, OneDetector, NotAhead, CountsJumpingTimers, Jumps

LEMMA StepNextIInv == StepIInv /\ [StepNext]_svars => StepIInv'
<1> SUFFICES ASSUME StepIInv, [StepNext]_svars PROVE StepIInv'
  OBVIOUS
<1>1. ASSUME NEW t \in Timers, NEW b \in BOOLEAN,
             SetAbstime(t, b), UNCHANGED offset
      PROVE  StepIInv'
  BY <1>1, SetAbstimeIInv
<1>2. CASE ClockIsSet
  BY <1>2 DEF ClockIsSet, StepIInv, StepTypeOK, OneDetector, NotAhead, Current,
              CountsJumpingTimers, Jumps
<1>3. ASSUME NEW d \in Detectors,
             DetectorReads(d) \/ DetectorChecks(d) \/ DetectorWalked(d)
      PROVE  StepIInv'
  BY <1>3, DetectorIInv
<1>4. CASE UNCHANGED svars
  BY <1>4 DEF svars, StepIInv, StepTypeOK, OneDetector, NotAhead, Current,
              CountsJumpingTimers, Jumps
<1> QED
  BY <1>1, <1>2, <1>3, <1>4 DEF StepNext

\* The assertion of epoll_shim_ctx.c:550 for every set of timers: the count
\* is the number of absolute realtime timers.
THEOREM StepCounts == StepSpec => []CountsJumpingTimers
<1> QED
  BY StepInitIInv, StepNextIInv, PTL DEF StepSpec, StepIInv

\* At most one step detector goes on, and none without a timer to tell.
THEOREM StepOneDetector == StepSpec => []OneDetector
<1> QED
  BY StepInitIInv, StepNextIInv, PTL DEF StepSpec, StepIInv

-----------------------------------------------------------------------------
(* The inductive invariant of TimerFD.                                      *)

KqType == [at : Nat \cup {NoTimer}, fired : BOOLEAN, cancel : BOOLEAN]

OpType == [pc : {"idle", "wait", "again"} \cup Holding, t : Timers,
           block : BOOLEAN, got : {"none", "timer", "cancel"},
           cancelled : BOOLEAN, abs : BOOLEAN]

HistType == [first : Nat, reported : Nat, off : Offsets \cup {0},
             stepped : BOOLEAN, spent : BOOLEAN]

Mutex ==
  \A a, b \in Actors :
    op[a].pc \in Holding /\ op[b].pc \in Holding /\ op[a].t = op[b].t => a = b

\* The types of what TimerFD adds to StepDetector.
TimerTypes ==
  /\ mono \in 0 .. MAX_TIME
  /\ ctx \in [Timers -> CtxType]
  /\ kq \in [Timers -> KqType]
  /\ op \in [Actors -> OpType]
  /\ todo \in [Detectors -> SUBSET Timers]
  /\ hist \in [Timers -> HistType]
  /\ Mutex

\* The call o has taken the timer's own event out of the kqueue.
HasTaken(o) == o.pc \in {"check", "clock"} /\ o.got = "timer"

Taken(t)   == \E a \in Actors : op[a].t = t /\ HasTaken(op[a])
Setting(t) == \E a \in Actors : op[a].t = t /\ op[a].pc = "setcheck"

\* How far the clock of timer t is ahead of the monotonic one.
Shift(t, c) == IF CanJump(t, c) THEN offset ELSE 0

\* What an event of the kernel's at the time at says: the timer has expired, unless
\* gettime has seen that already or the clock was set meanwhile.
Timely(t, c, h, at) ==
  \/ c.nr > 0
  \/ at + Shift(t, c) >= c.value
  \/ CanJump(t, c) /\ h.stepped

\* A timer c with its kqueue k and history h at any moment, whether or not its
\* mutex is held.
TimerOK(t, c, k, h, taken, setting) ==
  /\ c.value = 0 <=> c.type = "unspecified"
  /\ c.force => t \in Realtime
  /\ k.fired => k.at \in 0 .. mono
  /\ c.type = "unspecified" /\ c.nr = 0 => k.at = NoTimer
  /\ c.value # 0 /\ ~h.spent /\ ~taken => k.at # NoTimer
  /\ c.value # 0 /\ k.at # NoTimer => Timely(t, c, h, k.at)
  /\ k.cancel => c.force
  /\ k.cancel /\ ~setting => c.type = "unspecified" \/ (CanJump(t, c) /\ c.cancel)
  /\ c.type # "unspecified" /\ c.interval > 0 =>
       c.value = h.first + c.interval * (h.reported + c.nr)
  /\ ~setting /\ c.cancel /\ CanJump(t, c) /\ c.off # h.off => c.force
  /\ ~setting /\ IsStepped(t, c) => h.stepped

\* What the call o that holds the mutex of a timer may rely on.
HolderOK(o, c, k, h) ==
  /\ o.pc \in {"check", "clock"} =>
       /\ c.type # "unspecified"
       /\ ~k.cancel
       /\ o.got = "timer" => k.at = NoTimer /\ Timely(o.t, c, h, mono)
  /\ o.pc = "check" /\ o.got = "cancel" => CanJump(o.t, c) /\ c.force /\ c.cancel
  /\ o.pc = "clock" => /\ o.got = "cancel" => o.cancelled
                       /\ o.cancelled => o.got # "timer"
  /\ o.pc = "rearm" => CanJump(o.t, c)

TimersOK ==
  \A t \in Timers : TimerOK(t, ctx[t], kq[t], hist[t], Taken(t), Setting(t))

HoldersOK ==
  \A a \in Actors : HolderOK(op[a], ctx[op[a].t], kq[op[a].t], hist[op[a].t])

TimerIInv == TimerTypes /\ TimersOK /\ HoldersOK

LEMMA NoCallType == NoCall \in OpType /\ NoCall.pc = "idle"
<1>1. (CHOOSE t \in Timers : TRUE) \in Timers
  BY TimersExist
<1> QED
  BY <1>1 DEF NoCall, NoOp, OpType

LEMMA TimerInit == Init => TimerIInv
<1> SUFFICES ASSUME Init PROVE TimerIInv
  OBVIOUS
<1>1. \A a \in Actors : op[a] = NoCall
  BY DEF Init
<1>2. TimerTypes
  <2>1. Fresh \in CtxType /\ FreshKq \in KqType /\ NoHist \in HistType
    BY DEF CtxType, KqType, HistType, Fresh, FreshKq, NoHist
  <2>2. Mutex
    BY <1>1, NoCallType DEF Mutex, Holding
  <2> QED
    BY <2>1, <2>2, NoCallType, BoundsAssumption DEF Init, TimerTypes
<1>3. TimersOK
  <2> SUFFICES ASSUME NEW t \in Timers
               PROVE  TimerOK(t, Fresh, FreshKq, NoHist, Taken(t), Setting(t))
    BY DEF TimersOK, Init
  <2> QED
    BY DEF TimerOK, Fresh, FreshKq, NoHist, NoTimer, IsStepped, CanJump
<1>4. HoldersOK
  BY <1>1, NoCallType DEF HoldersOK, HolderOK
<1> QED
  BY <1>2, <1>3, <1>4 DEF TimerIInv

-----------------------------------------------------------------------------
(* A call touches one timer.                                                *)

LEMMA Itself ==
  ASSUME NEW S, NEW T, NEW f \in [S -> T], NEW x \in S
  PROVE  f = [f EXCEPT ![x] = f[x]]
OBVIOUS

\* The thread that holds the mutex, if any, is the one that takes the step.
LEMMA OthersElsewhere ==
  ASSUME TimerTypes, NEW a \in Actors, NEW t \in Timers,
         \/ op[a].pc \in Holding /\ op[a].t = t
         \/ op[a].pc \notin Holding /\ Free(t)
  PROVE  \A b \in Actors : b # a /\ op[b].pc \in Holding => op[b].t # t
BY DEF TimerTypes, Mutex, Free

\* A step of the thread a that holds, or takes, the mutex of timer t changes the
\* timer to c, its kqueue to k, its history to h and the call to o.  If these
\* are sound so is everything.
LEMMA OneTimer ==
  ASSUME TimerIInv, NEW a \in Actors, NEW t \in Timers,
         \/ op[a].pc \in Holding /\ op[a].t = t
         \/ op[a].pc \notin Holding /\ Free(t),
         NEW c \in CtxType, NEW k \in KqType, NEW h \in HistType, NEW o \in OpType,
         o.pc \in Holding => o.t = t,
         TimerOK(t, c, k, h, HasTaken(o), o.pc = "setcheck"),
         HolderOK(o, c, k, h),
         UNCHANGED <<mono, offset>>,
         todo' \in [Detectors -> SUBSET Timers],
         ctx' = [ctx EXCEPT ![t] = c], kq' = [kq EXCEPT ![t] = k],
         hist' = [hist EXCEPT ![t] = h], op' = [op EXCEPT ![a] = o]
  PROVE  TimerIInv'
<1>1. \A b \in Actors : b # a /\ op[b].pc \in Holding => op[b].t # t
  BY OthersElsewhere DEF TimerIInv
<1>2. /\ op'[a] = o
      /\ \A b \in Actors : b # a => op'[b] = op[b]
      /\ ctx'[t] = c /\ kq'[t] = k /\ hist'[t] = h
      /\ \A u \in Timers : u # t =>
           ctx'[u] = ctx[u] /\ kq'[u] = kq[u] /\ hist'[u] = hist[u]
      /\ \A b \in Actors : op[b].t \in Timers /\ op'[b].t \in Timers
  BY DEF TimerIInv, TimerTypes, OpType
<1>3. TimerTypes'
  <2>1. Mutex'
    BY <1>1, <1>2 DEF Mutex, TimerIInv, TimerTypes
  <2> QED
    BY <2>1 DEF TimerIInv, TimerTypes
<1>4. \A b \in Actors : HasTaken(op[b]) => op[b].pc \in Holding
  BY DEF HasTaken, Holding
<1>5. HasTaken(o) \/ o.pc = "setcheck" => o.t = t
  BY DEF HasTaken, Holding
<1>6. (Taken(t)' <=> HasTaken(o)) /\ (Setting(t)' <=> o.pc = "setcheck")
  BY <1>1, <1>2, <1>4, <1>5 DEF Taken, Setting, HasTaken, Holding
<1>7. \A u \in Timers : u # t =>
        (Taken(u)' <=> Taken(u)) /\ (Setting(u)' <=> Setting(u))
  BY <1>1, <1>2, <1>4, <1>5 DEF Taken, Setting, HasTaken, Holding
<1>8. TimersOK'
  <2> SUFFICES ASSUME NEW u \in Timers
               PROVE  TimerOK(u, ctx[u], kq[u], hist[u], Taken(u), Setting(u))'
    BY DEF TimersOK
  <2>1. CASE u = t
    BY <1>2, <1>6, <2>1 DEF TimerOK, Timely, Shift, IsStepped, CanJump
  <2>2. CASE u # t
    <3>1. TimerOK(u, ctx[u], kq[u], hist[u], Taken(u), Setting(u))
      BY DEF TimerIInv, TimersOK
    <3> QED
      BY <1>2, <1>7, <2>2, <3>1 DEF TimerOK, Timely, Shift, IsStepped, CanJump
  <2> QED
    BY <2>1, <2>2
<1>9. HoldersOK'
  <2> SUFFICES ASSUME NEW b \in Actors
               PROVE  HolderOK(op[b], ctx[op[b].t], kq[op[b].t], hist[op[b].t])'
    BY DEF HoldersOK
  <2>1. CASE b = a /\ o.pc \in Holding
    BY <1>2, <2>1 DEF HolderOK, Timely, Shift, CanJump
  <2>2. CASE op'[b].pc \notin Holding
    BY <2>2 DEF HolderOK, Holding
  <2>3. CASE b # a /\ op[b].pc \in Holding
    <3>1. HolderOK(op[b], ctx[op[b].t], kq[op[b].t], hist[op[b].t])
      BY DEF TimerIInv, HoldersOK
    <3>2. op[b].t # t /\ op[b].t \in Timers
      BY <1>1, <1>2, <2>3
    <3> QED
      BY <1>2, <2>3, <3>1, <3>2 DEF HolderOK, Timely, Shift, CanJump
  <2> QED
    BY <1>2, <2>1, <2>2, <2>3
<1> QED
  BY <1>3, <1>8, <1>9 DEF TimerIInv

-----------------------------------------------------------------------------
(* What the operators do to a timer.                                        *)

\* A clock's value, and how far the clock is ahead.
LEMMA ClockShift ==
  ASSUME TimerTypes, offset \in Int, NEW t \in Timers, NEW c \in CtxType
  PROVE  /\ mono \in Nat /\ Shift(t, c) \in Int
         /\ Clock(t, c.type) \in Int
         /\ Clock(t, c.type) = mono + Shift(t, c)
BY BoundsAssumption DEF TimerTypes, Clock, Shift, CanJump

LEMMA CtxFields ==
  ASSUME NEW c \in CtxType
  PROVE  c.value \in Nat /\ c.interval \in Nat /\ c.nr \in Nat
<1>1. c.value \in Nat /\ c.nr \in Nat /\ c.interval \in Intervals \cup {0}
  BY DEF CtxType
<1>2. c.interval \in Nat
  <2>1. CASE c.interval \in Intervals
    BY <2>1, ValuesAssumption
  <2>2. CASE c.interval = 0
    BY <2>2
  <2> QED
    BY <1>1, <2>1, <2>2
<1> QED
  BY <1>1, <1>2

\* timerfd_ctx_update_to_current_time: nothing has expired; or a one-shot timer
\* has; or a periodic one has n times.
LEMMA CatchUpCases ==
  ASSUME NEW c \in CtxType, NEW now \in Int
  PROVE  \/ CatchUp(c, now) = c /\ (c.value = 0 \/ now < c.value)
         \/ /\ c.value # 0 /\ now >= c.value /\ c.interval = 0
            /\ CatchUp(c, now) = [Disarm(c) EXCEPT !.nr = c.nr + 1]
         \/ /\ c.value # 0 /\ now >= c.value /\ c.interval > 0
            /\ \E n \in Nat \ {0} :
                 CatchUp(c, now) = [c EXCEPT !.nr = c.nr + n,
                                             !.value = c.value + n * c.interval]
<1>1. c.value \in Nat /\ c.interval \in Nat /\ c.nr \in Nat
  BY CtxFields
<1>2. CASE c.value = 0 \/ now < c.value
  BY <1>1, <1>2 DEF CatchUp, Armed
<1>3. CASE c.value # 0 /\ now >= c.value /\ c.interval = 0
  BY <1>1, <1>3 DEF CatchUp, Armed
<1>4. CASE c.value # 0 /\ now >= c.value /\ c.interval > 0
  <2> DEFINE n == (now - c.value) \div c.interval + 1
  <2>1. n \in Nat \ {0}
    <3>1. now - c.value \in Nat /\ c.interval \in Nat \ {0}
      BY <1>1, <1>4
    <3>2. \A x \in Nat, y \in Nat \ {0} : x \div y \in Nat
      OBVIOUS
    <3> QED
      BY <3>1, <3>2
  <2>2. CatchUp(c, now) = [c EXCEPT !.nr = @ + n, !.value = @ + n * c.interval]
    BY <1>1, <1>4 DEF CatchUp, Armed
  <2> HIDE DEF n
  <2>3. CatchUp(c, now) = [c EXCEPT !.nr = c.nr + n,
                                    !.value = c.value + n * c.interval]
    BY <2>2
  <2> QED
    BY <1>4, <2>1, <2>3
<1>5. \/ c.value = 0 \/ now < c.value
      \/ c.value # 0 /\ now >= c.value /\ c.interval = 0
      \/ c.value # 0 /\ now >= c.value /\ c.interval > 0
  BY <1>1
<1> QED
  BY <1>2, <1>3, <1>4, <1>5

LEMMA Product ==
  \A n, i \in Nat : n * i \in Nat
OBVIOUS

LEMMA Distribute ==
  \A i, x, y \in Nat : i * (x + y) = i * x + y * i
OBVIOUS

LEMMA CatchUpType ==
  ASSUME NEW c \in CtxType, NEW now \in Int
  PROVE  CatchUp(c, now) \in CtxType
<1>1. c.value \in Nat /\ c.interval \in Nat /\ c.nr \in Nat
  BY CtxFields
<1>2. ASSUME NEW n \in Nat \ {0}
      PROVE  [c EXCEPT !.nr = c.nr + n, !.value = c.value + n * c.interval] \in CtxType
  <2>1. n * c.interval \in Nat
    BY <1>1, Product
  <2>2. c.nr + n \in Nat /\ c.value + n * c.interval \in Nat
    BY <1>1, <2>1
  <2> QED
    BY <2>2 DEF CtxType
<1>3. [Disarm(c) EXCEPT !.nr = c.nr + 1] \in CtxType
  <2>1. Disarm(c) \in CtxType
    BY DEF CtxType, Disarm
  <2>2. c.nr + 1 \in Nat
    BY <1>1
  <2> QED
    BY <2>1, <2>2 DEF CtxType
<1>4. \/ CatchUp(c, now) = c
      \/ CatchUp(c, now) = [Disarm(c) EXCEPT !.nr = c.nr + 1]
      \/ \E n \in Nat \ {0} :
           CatchUp(c, now) = [c EXCEPT !.nr = c.nr + n,
                                       !.value = c.value + n * c.interval]
  BY CatchUpCases
<1> QED
  BY <1>2, <1>3, <1>4

\* Bringing a timer up to the clock: a sound timer stays sound.
LEMMA CatchUpOK ==
  ASSUME NEW t \in Timers, NEW c \in CtxType, NEW k \in KqType, NEW h \in HistType,
         NEW taken \in BOOLEAN, NEW now \in Int, offset \in Int, mono \in Nat,
         TimerOK(t, c, k, h, taken, FALSE)
  PROVE  TimerOK(t, CatchUp(c, now), k, h, taken, FALSE)
<1>1. c.value \in Nat /\ c.interval \in Nat /\ c.nr \in Nat
  BY CtxFields
<1>2. CASE CatchUp(c, now) = c
  BY <1>2
<1>3. CASE c.value # 0 /\ CatchUp(c, now) = [Disarm(c) EXCEPT !.nr = c.nr + 1]
  <2> DEFINE d == [Disarm(c) EXCEPT !.nr = c.nr + 1]
  <2>1. /\ d.type = "unspecified" /\ d.value = 0 /\ d.nr > 0
        /\ d.force = c.force /\ d.cancel = c.cancel /\ d.off = c.off
    BY <1>1 DEF Disarm, CtxType
  <2> HIDE DEF d
  <2>2. TimerOK(t, d, k, h, taken, FALSE)
    BY <2>1 DEF TimerOK, IsStepped, CanJump
  <2> QED
    BY <1>3, <2>2 DEF d
<1>4. ASSUME NEW n \in Nat \ {0}, c.value # 0, c.interval > 0
      PROVE  TimerOK(t, [c EXCEPT !.nr = c.nr + n, !.value = c.value + n * c.interval],
                     k, h, taken, FALSE)
  <2> DEFINE d == [c EXCEPT !.nr = c.nr + n, !.value = c.value + n * c.interval]
  <2>1. /\ d.type = c.type /\ d.interval = c.interval /\ d.nr = c.nr + n
        /\ d.value = c.value + n * c.interval
        /\ d.force = c.force /\ d.cancel = c.cancel /\ d.off = c.off
    BY DEF CtxType
  <2>2. n * c.interval \in Nat
    BY <1>1, Product
  <2>3. d.value # 0 /\ d.nr > 0 /\ c.type # "unspecified"
    BY <1>1, <1>4, <2>1, <2>2 DEF TimerOK
  <2>4. d.value = h.first + d.interval * (h.reported + d.nr)
    <3>1. c.value = h.first + c.interval * (h.reported + c.nr)
      BY <1>4, <2>3 DEF TimerOK
    <3>2. h.reported \in Nat /\ h.first \in Nat
      BY DEF HistType
    <3>3. h.reported + d.nr = (h.reported + c.nr) + n
      BY <1>1, <2>1, <3>2
    <3>4. c.interval * ((h.reported + c.nr) + n)
            = c.interval * (h.reported + c.nr) + n * c.interval
      BY <1>1, <3>2, Distribute
    <3>5. c.interval * (h.reported + c.nr) \in Nat
      BY <1>1, <3>2, Product
    <3> QED
      BY <2>1, <2>2, <3>1, <3>2, <3>3, <3>4, <3>5
  <2> HIDE DEF d
  <2>5. TimerOK(t, d, k, h, taken, FALSE)
    BY <2>1, <2>3, <2>4 DEF TimerOK, Timely, IsStepped, CanJump
  <2> QED
    BY <2>5 DEF d
<1>5. \/ CatchUp(c, now) = c
      \/ c.value # 0 /\ CatchUp(c, now) = [Disarm(c) EXCEPT !.nr = c.nr + 1]
      \/ /\ c.value # 0 /\ c.interval > 0
         /\ \E n \in Nat \ {0} :
              CatchUp(c, now) = [c EXCEPT !.nr = c.nr + n,
                                          !.value = c.value + n * c.interval]
  BY CatchUpCases
<1> QED
  BY <1>2, <1>3, <1>4, <1>5

\* The kernel's timer is set so that it fires when the timer's clock shows value.
LEMMA RegisterFacts ==
  ASSUME mono \in Nat, NEW s \in Int, NEW k \in KqType, NEW value \in Nat
  PROVE  /\ Register(k, value, mono + s) \in KqType
         /\ Register(k, value, mono + s).at \in Nat
         /\ Register(k, value, mono + s).at # NoTimer
         /\ Register(k, value, mono + s).at + s >= value
         /\ ~Register(k, value, mono + s).fired
         /\ Register(k, value, mono + s).cancel = k.cancel
<1> DEFINE wait == IF value > mono + s THEN value - (mono + s) ELSE 0
           r == Register(k, value, mono + s)
<1>1. wait \in Nat /\ mono + wait \in Nat /\ mono + wait + s >= value
  OBVIOUS
<1> HIDE DEF wait
<1>2. r = [k EXCEPT !.at = mono + wait, !.fired = FALSE]
  BY DEF Register, wait
<1>3. /\ r \in KqType
      /\ r.at = mono + wait /\ ~r.fired /\ r.cancel = k.cancel
  BY <1>1, <1>2 DEF KqType
<1> HIDE DEF r
<1>4. r.at # NoTimer
  BY <1>1, <1>3 DEF NoTimer
<1> QED
  BY <1>1, <1>3, <1>4 DEF r

\* The rest of a read: the timer c is left behind, its expirations are reported
\* and the kernel's timer is set again.
LEMMA FinishOK ==
  ASSUME TimerTypes, offset \in Int, NEW t \in Timers, NEW c \in CtxType,
         NEW k \in KqType, NEW h \in HistType, NEW taken \in BOOLEAN,
         NEW now \in Int, NEW delete \in BOOLEAN,
         TimerOK(t, c, k, h, taken, FALSE),
         c.value # 0 => now = mono + Shift(t, c),
         ~k.cancel,
         delete \/ k.at = NoTimer
  PROVE  /\ TimerOK(t, [c EXCEPT !.nr = 0], Rearm(c, k, now, delete),
                    [h EXCEPT !.reported = @ + c.nr], FALSE, FALSE)
         /\ [c EXCEPT !.nr = 0] \in CtxType
         /\ Rearm(c, k, now, delete) \in KqType
         /\ [h EXCEPT !.reported = @ + c.nr] \in HistType
<1> DEFINE d == [c EXCEPT !.nr = 0]
           r == Rearm(c, k, now, delete)
           g == [h EXCEPT !.reported = @ + c.nr]
<1>0. /\ c.value \in Nat /\ c.interval \in Nat /\ c.nr \in Nat
      /\ h.reported \in Nat /\ h.first \in Nat
      /\ mono \in Nat
  BY CtxFields, BoundsAssumption DEF HistType, TimerTypes
<1>1. /\ d \in CtxType /\ d.nr = 0
      /\ d.type = c.type /\ d.value = c.value /\ d.interval = c.interval
      /\ d.force = c.force /\ d.cancel = c.cancel /\ d.off = c.off
  BY DEF CtxType
<1>2. /\ g \in HistType /\ g.reported = h.reported + c.nr
      /\ g.first = h.first /\ g.off = h.off /\ g.stepped = h.stepped
      /\ g.spent = h.spent
  BY <1>0 DEF HistType
<1>3. g.reported + d.nr = h.reported + c.nr
  BY <1>0, <1>1, <1>2
<1>4. CASE c.value # 0
  <2>1. Shift(t, c) \in Int
    BY ClockShift
  <2>2. r = Register(k, c.value, mono + Shift(t, c))
    BY <1>4 DEF Rearm, Armed
  <2>3. /\ r \in KqType /\ r.at # NoTimer /\ ~r.fired /\ ~r.cancel
        /\ r.at + Shift(t, c) >= c.value
    <3> DEFINE q == Register(k, c.value, mono + Shift(t, c))
    <3>1. /\ q \in KqType /\ q.at # NoTimer /\ ~q.fired /\ q.cancel = k.cancel
          /\ q.at + Shift(t, c) >= c.value
      BY <1>0, <2>1, RegisterFacts
    <3> HIDE DEF q
    <3> QED
      BY <2>2, <3>1 DEF q
  <2> HIDE DEF d, r, g
  <2>4. TimerOK(t, d, r, g, FALSE, FALSE)
    BY <1>1, <1>2, <1>3, <1>4, <2>3 DEF TimerOK, Timely, Shift, IsStepped, CanJump
  <2> QED
    BY <1>1, <1>2, <2>3, <2>4 DEF d, r, g
<1>5. CASE c.value = 0
  <2>1. r \in KqType /\ r.at = NoTimer /\ ~r.fired /\ ~r.cancel
    <3>1. CASE delete
      <4>1. r = [k EXCEPT !.at = NoTimer, !.fired = FALSE]
        BY <1>5, <3>1 DEF Rearm, Armed, Unregister
      <4> QED
        BY <4>1 DEF KqType
    <3>2. CASE ~delete
      <4>1. r = k /\ k.at = NoTimer
        BY <1>5, <3>2 DEF Rearm, Armed
      <4>2. ~k.fired
        BY <1>0, <4>1 DEF TimerOK, NoTimer
      <4> QED
        BY <4>1, <4>2 DEF KqType
    <3> QED
      BY <3>1, <3>2
  <2> HIDE DEF d, r, g
  <2>2. TimerOK(t, d, r, g, FALSE, FALSE)
    BY <1>1, <1>2, <1>3, <1>5, <2>1 DEF TimerOK, Timely, Shift, IsStepped, CanJump
  <2> QED
    BY <1>1, <1>2, <2>1, <2>2 DEF d, r, g
<1> QED
  BY <1>4, <1>5

-----------------------------------------------------------------------------
(* What a thread finds when it takes a mutex, and when it has it.           *)

LEMMA FreeFacts ==
  ASSUME TimerIInv, NEW t \in Timers, Free(t)
  PROVE  /\ ctx[t] \in CtxType /\ kq[t] \in KqType /\ hist[t] \in HistType
         /\ TimerOK(t, ctx[t], kq[t], hist[t], FALSE, FALSE)
<1>1. ~Taken(t) /\ ~Setting(t)
  BY DEF Free, Taken, Setting, HasTaken, Holding
<1>2. TimerOK(t, ctx[t], kq[t], hist[t], Taken(t), Setting(t))
  BY DEF TimerIInv, TimersOK
<1> QED
  BY <1>1, <1>2 DEF TimerIInv, TimerTypes, TimerOK

LEMMA HolderFacts ==
  ASSUME TimerIInv, NEW a \in Actors, op[a].pc \in Holding, NEW t, t = op[a].t
  PROVE  /\ t \in Timers /\ op[a] \in OpType
         /\ ctx[t] \in CtxType /\ kq[t] \in KqType /\ hist[t] \in HistType
         /\ HolderOK(op[a], ctx[t], kq[t], hist[t])
         /\ TimerOK(t, ctx[t], kq[t], hist[t], HasTaken(op[a]), op[a].pc = "setcheck")
<1>1. t \in Timers /\ op[a] \in OpType
  BY DEF TimerIInv, TimerTypes, OpType
<1>2. (Taken(t) <=> HasTaken(op[a])) /\ (Setting(t) <=> op[a].pc = "setcheck")
  BY DEF TimerIInv, TimerTypes, Mutex, Taken, Setting, HasTaken, Holding
<1>3. TimerOK(t, ctx[t], kq[t], hist[t], Taken(t), Setting(t))
  BY <1>1 DEF TimerIInv, TimersOK
<1>4. TimerOK(t, ctx[t], kq[t], hist[t], HasTaken(op[a]), op[a].pc = "setcheck")
  BY <1>2, <1>3 DEF TimerOK
<1> QED
  BY <1>1, <1>4 DEF TimerIInv, TimerTypes, HoldersOK

\* What is left alone.
LEMMA Unchanged ==
  ASSUME TimerTypes, NEW t \in Timers
  PROVE  /\ ctx = [ctx EXCEPT ![t] = ctx[t]]
         /\ kq = [kq EXCEPT ![t] = kq[t]]
         /\ hist = [hist EXCEPT ![t] = hist[t]]
         /\ \A a \in Actors : op = [op EXCEPT ![a] = op[a]]
BY Itself DEF TimerTypes

\* Nobody gets or gives up a mutex.
LEMMA OutsideStep ==
  ASSUME TimerIInv, NEW a \in Actors, NEW o \in OpType,
         op[a].pc \notin Holding, o.pc \notin Holding,
         op' = [op EXCEPT ![a] = o],
         UNCHANGED <<offset, mono, ctx, kq, todo, hist>>
  PROVE  TimerIInv'
<1>1. /\ op'[a] = o
      /\ \A b \in Actors : b # a => op'[b] = op[b]
      /\ op' \in [Actors -> OpType]
      /\ \A b \in Actors : op[b].t \in Timers
  BY DEF TimerIInv, TimerTypes, OpType
<1>2. TimerTypes'
  BY <1>1 DEF TimerIInv, TimerTypes, Mutex
<1>3. TimersOK'
  <2> SUFFICES ASSUME NEW t \in Timers
               PROVE  TimerOK(t, ctx[t], kq[t], hist[t], Taken(t), Setting(t))'
    BY DEF TimersOK
  <2>1. (Taken(t)' <=> Taken(t)) /\ (Setting(t)' <=> Setting(t))
    BY <1>1 DEF Taken, Setting, HasTaken, Holding
  <2>2. TimerOK(t, ctx[t], kq[t], hist[t], Taken(t), Setting(t))
    BY DEF TimerIInv, TimersOK
  <2> QED
    BY <2>1, <2>2 DEF TimerOK, Timely, Shift, IsStepped, CanJump
<1>4. HoldersOK'
  <2> SUFFICES ASSUME NEW b \in Actors
               PROVE  HolderOK(op[b], ctx[op[b].t], kq[op[b].t], hist[op[b].t])'
    BY DEF HoldersOK
  <2>1. CASE b = a
    BY <1>1, <2>1 DEF HolderOK, Holding
  <2>2. CASE b # a
    <3>1. HolderOK(op[b], ctx[op[b].t], kq[op[b].t], hist[op[b].t])
      BY DEF TimerIInv, HoldersOK
    <3> QED
      BY <1>1, <2>2, <3>1 DEF HolderOK, Timely, Shift, CanJump
  <2> QED
    BY <2>1, <2>2
<1> QED
  BY <1>2, <1>3, <1>4 DEF TimerIInv

-----------------------------------------------------------------------------
(* read().                                                                  *)

LEMMA AgainType ==
  ASSUME NEW t \in Timers, NEW block \in BOOLEAN
  PROVE  LET o == IF block THEN [NoOp(t) EXCEPT !.pc = "wait", !.block = TRUE]
                  ELSE NoCall
         IN  o \in OpType /\ o.pc \notin Holding
<1>1. /\ [NoOp(t) EXCEPT !.pc = "wait", !.block = TRUE] \in OpType
      /\ [NoOp(t) EXCEPT !.pc = "wait", !.block = TRUE].pc = "wait"
  BY DEF NoOp, OpType
<1> QED
  BY <1>1, NoCallType DEF Holding

\* poll() returns.
LEMMA WakeStep ==
  ASSUME TimerIInv, NEW a \in Actors, Wake(a)
  PROVE  TimerIInv'
<1> DEFINE o == [op[a] EXCEPT !.pc = "again"]
<1>1. op[a] \in OpType
  BY DEF TimerIInv, TimerTypes
<1>2. o \in OpType /\ o.pc = "again"
  BY <1>1 DEF OpType
<1>3. op' = [op EXCEPT ![a] = o] /\ op[a].pc = "wait"
  BY DEF Wake
<1> HIDE DEF o
<1> QED
  BY <1>2, <1>3, OutsideStep DEF Wake, svars, Holding

\* A timer that is not set is not read.
LEMMA ReadDisarmedStep ==
  ASSUME TimerIInv, NEW a \in Actors, NEW t \in Timers, NEW block \in BOOLEAN,
         op[a].pc \notin Holding, ReadDisarmed(a, t, block)
  PROVE  TimerIInv'
<1> DEFINE o == IF block THEN [NoOp(t) EXCEPT !.pc = "wait", !.block = TRUE]
                ELSE NoCall
<1>1. o \in OpType /\ o.pc \notin Holding
  BY AgainType
<1>2. op' = [op EXCEPT ![a] = o]
  BY DEF ReadDisarmed, Again
<1> HIDE DEF o
<1> QED
  BY <1>1, <1>2, OutsideStep DEF ReadDisarmed, svars

\* The events are taken out: one that came in time, and a cancellation that is one.
LEMMA ReadTakeStep ==
  ASSUME TimerIInv, offset \in Int,
         NEW a \in Actors, NEW t \in Timers, NEW block \in BOOLEAN,
         op[a].pc \notin Holding, ReadTake(a, t, block)
  PROVE  TimerIInv'
<1> DEFINE c == ctx[t]
           h == hist[t]
           q == kq[t]
           got == IF q.fired THEN "timer" ELSE IF q.cancel THEN "cancel" ELSE "none"
           o == [NoOp(t) EXCEPT !.pc = "check", !.block = block, !.got = got]
           k == [at |-> IF q.fired THEN NoTimer ELSE q.at,
                 fired |-> FALSE, cancel |-> FALSE]
<1>1. /\ c \in CtxType /\ q \in KqType /\ h \in HistType
      /\ TimerOK(t, c, q, h, FALSE, FALSE)
  BY FreeFacts DEF ReadTake
<1>2. /\ op' = [op EXCEPT ![a] = o] /\ kq' = [kq EXCEPT ![t] = k]
      /\ c.type # "unspecified"
  BY DEF ReadTake
<1>3. /\ o \in OpType /\ o.pc = "check" /\ o.got = got /\ o.t = t
      /\ ~o.cancelled
  BY DEF NoOp, OpType, Holding
<1>4. k \in KqType /\ ~k.fired /\ ~k.cancel
      /\ k.at = IF q.fired THEN NoTimer ELSE q.at
  BY <1>1 DEF KqType
<1>5. HasTaken(o) <=> q.fired
  BY <1>3 DEF HasTaken
<1>6. TimerOK(t, c, k, h, HasTaken(o), o.pc = "setcheck")
  <2> HIDE DEF c, h, q, o, k
  <2> QED
    BY <1>1, <1>2, <1>3, <1>4, <1>5 DEF TimerOK, Timely, IsStepped, CanJump
<1>7. q.fired => Timely(t, c, h, mono)
  <2> SUFFICES ASSUME q.fired PROVE Timely(t, c, h, mono)
    OBVIOUS
  <2> HIDE DEF c, h, q, o, k
  <2>1. q.at \in 0 .. mono /\ mono \in Nat /\ Shift(t, c) \in Int
    BY <1>1, ClockShift DEF TimerOK, TimerIInv
  <2>2. q.at # NoTimer
    BY <2>1 DEF NoTimer
  <2>3. Timely(t, c, h, q.at)
    BY <1>1, <1>2, <2>2 DEF TimerOK
  <2>4. c.value \in Nat
    BY <1>1, CtxFields
  <2> QED
    BY <2>1, <2>3, <2>4 DEF Timely
<1>8. q.cancel => CanJump(t, c) /\ c.force /\ c.cancel
  <2> HIDE DEF c, h, q, o, k
  <2> QED
    BY <1>1, <1>2 DEF TimerOK
<1>9. HolderOK(o, c, k, h)
  <2>1. o.got = "timer" => q.fired
    BY <1>3
  <2>2. o.got = "cancel" => q.cancel
    BY <1>3
  <2> HIDE DEF c, h, q, o, k, got
  <2> QED
    BY <1>2, <1>3, <1>4, <1>7, <1>8, <2>1, <2>2 DEF HolderOK
<1>10. ctx' = [ctx EXCEPT ![t] = c] /\ hist' = [hist EXCEPT ![t] = h]
  BY Unchanged DEF ReadTake, TimerIInv
<1>11. Free(t) /\ UNCHANGED <<mono, offset, todo>>
  BY DEF ReadTake, svars
<1>12. todo' \in [Detectors -> SUBSET Timers]
  BY <1>11 DEF TimerIInv, TimerTypes
<1> HIDE DEF c, h, q, o, k
<1> QED
  BY <1>1, <1>2, <1>3, <1>4, <1>6, <1>9, <1>10, <1>11, <1>12, OneTimer

\* timerfd_ctx_check_for_cancel notes the boot time and takes the news.
LEMMA CheckedFacts ==
  ASSUME NEW t \in Timers, NEW c \in CtxType, NEW k \in KqType, offset \in Offsets,
         c.force => t \in Realtime, k.cancel => c.force
  PROVE  /\ Checked(t, c) \in CtxType /\ CheckedKq(t, c, k) \in KqType
         /\ Checked(t, c).type = c.type /\ Checked(t, c).value = c.value
         /\ Checked(t, c).interval = c.interval /\ Checked(t, c).nr = c.nr
         /\ Checked(t, c).cancel = c.cancel /\ ~Checked(t, c).force
         /\ Checked(t, c).off = IF CanJump(t, c) THEN offset ELSE c.off
         /\ CheckedKq(t, c, k).at = k.at /\ CheckedKq(t, c, k).fired = k.fired
         /\ ~CheckedKq(t, c, k).cancel
<1>1. CASE t \notin Realtime
  BY <1>1 DEF Checked, CheckedKq, CanJump, CtxType
<1>2. CASE t \in Realtime
  <2> DEFINE x == IF CanJump(t, c) THEN offset ELSE c.off
  <2>1. x \in Offsets \cup {0}
    BY DEF CtxType
  <2>2. Checked(t, c) = [c EXCEPT !.off = x, !.force = FALSE]
    BY <1>2 DEF Checked
  <2> HIDE DEF x
  <2>3. /\ Checked(t, c) \in CtxType
        /\ Checked(t, c).type = c.type /\ Checked(t, c).value = c.value
        /\ Checked(t, c).interval = c.interval /\ Checked(t, c).nr = c.nr
        /\ Checked(t, c).cancel = c.cancel /\ ~Checked(t, c).force
        /\ Checked(t, c).off = x
    BY <2>1, <2>2 DEF CtxType
  <2>4. /\ CheckedKq(t, c, k) \in KqType
        /\ CheckedKq(t, c, k).at = k.at /\ CheckedKq(t, c, k).fired = k.fired
        /\ ~CheckedKq(t, c, k).cancel
    BY <1>2 DEF CheckedKq, KqType
  <2> QED
    BY <2>3, <2>4 DEF x
<1> QED
  BY <1>1, <1>2

\* The check of a read: what has been reported is written down, and the event of a
\* cancelled read is spent.
LEMMA ReadCheckStep ==
  ASSUME TimerIInv, offset \in Offsets, NEW a \in Actors, ReadCheck(a)
  PROVE  TimerIInv'
<1> DEFINE t == op[a].t
           c == ctx[t]
           q == kq[t]
           h == hist[t]
           cancelled == IsCancelled(t, c)
           mine == op[a].got = "timer"
           d == Checked(t, c)
           k == CheckedKq(t, c, q)
           g == IF cancelled THEN [h EXCEPT !.off = d.off, !.spent = h.spent \/ mine]
                ELSE h
           o == IF cancelled /\ mine THEN NoCall
                ELSE [op[a] EXCEPT !.pc = "clock", !.cancelled = cancelled]
<1>1. op[a].pc = "check" /\ op[a].pc \in Holding
  BY DEF ReadCheck, Holding
<1>2. /\ t \in Timers /\ op[a] \in OpType
      /\ c \in CtxType /\ q \in KqType /\ h \in HistType
      /\ HolderOK(op[a], c, q, h)
      /\ TimerOK(t, c, q, h, HasTaken(op[a]), op[a].pc = "setcheck")
  BY <1>1, HolderFacts
<1>3. /\ d \in CtxType /\ k \in KqType
      /\ d.type = c.type /\ d.value = c.value /\ d.interval = c.interval
      /\ d.nr = c.nr /\ d.cancel = c.cancel /\ ~d.force
      /\ d.off = IF CanJump(t, c) THEN offset ELSE c.off
      /\ k.at = q.at /\ k.fired = q.fired /\ ~k.cancel
  <2>1. (c.force => t \in Realtime) /\ (q.cancel => c.force)
    BY <1>2 DEF TimerOK
  <2> HIDE DEF c, q, t
  <2> QED
    BY <1>2, <2>1, CheckedFacts
<1>4. /\ ctx' = [ctx EXCEPT ![t] = d] /\ kq' = [kq EXCEPT ![t] = k]
      /\ op' = [op EXCEPT ![a] = o]
      /\ UNCHANGED <<mono, offset, todo>>
  BY DEF ReadCheck, Return, svars
<1>5. cancelled \in BOOLEAN /\ mine \in BOOLEAN
  BY DEF IsCancelled, IsStepped
<1>6. /\ g \in HistType
      /\ g.first = h.first /\ g.reported = h.reported /\ g.stepped = h.stepped
      /\ g.off = (IF cancelled THEN d.off ELSE h.off)
      /\ (g.spent <=> h.spent \/ (cancelled /\ mine))
  <2>1. d.off \in Offsets \cup {0} /\ (h.spent \/ mine) \in BOOLEAN
    BY <1>3 DEF CtxType
  <2> HIDE DEF d, mine, cancelled
  <2>2. CASE cancelled
    <3>1. g = [h EXCEPT !.off = d.off, !.spent = h.spent \/ mine]
      BY <2>2
    <3> QED
      BY <1>2, <2>1, <2>2, <3>1 DEF HistType
  <2>3. CASE ~cancelled
    BY <1>2, <2>3 DEF HistType
  <2> QED
    BY <2>2, <2>3
<1>7. hist' = [hist EXCEPT ![t] = g]
  <2>1. hist \in [Timers -> HistType]
    BY DEF TimerIInv, TimerTypes
  <2>2. ctx'[t].off = d.off
    BY <1>2, <1>4 DEF TimerIInv, TimerTypes
  <2>3. CASE cancelled
    BY <1>2, <2>1, <2>2, <2>3 DEF ReadCheck
  <2>4. CASE ~cancelled
    BY <1>2, <2>1, <2>4, Itself DEF ReadCheck
  <2> QED
    BY <2>3, <2>4
<1>8. \/ cancelled /\ mine /\ o = NoCall
      \/ /\ ~(cancelled /\ mine)
         /\ o.pc = "clock" /\ o.t = t /\ o.got = op[a].got
         /\ o.cancelled = cancelled
  BY <1>2, <1>5 DEF OpType
<1>9. o \in OpType
  <2> DEFINE r == [op[a] EXCEPT !.pc = "clock", !.cancelled = cancelled]
  <2>1. r \in OpType
    <3> HIDE DEF cancelled
    <3> QED
      BY <1>2, <1>5 DEF OpType, Holding
  <2> HIDE DEF cancelled, mine, r
  <2>2. o = NoCall \/ o = r
    BY <1>8 DEF r
  <2> QED
    BY <2>1, <2>2, NoCallType
<1>10. o.pc # "check" /\ o.pc # "setcheck" /\ o.pc # "rearm" /\ (o.pc \in Holding => o.t = t)
  BY <1>8, NoCallType DEF Holding
<1>11. HasTaken(o) <=> mine /\ ~cancelled
  BY <1>8, NoCallType DEF HasTaken
<1>12. HasTaken(op[a]) <=> mine
  BY <1>1 DEF HasTaken
<1>13. cancelled <=> CanJump(t, c) /\ c.cancel /\ (c.force \/ c.off # offset)
  BY DEF IsCancelled, IsStepped
<1>14. (CanJump(t, d) <=> CanJump(t, c)) /\ Shift(t, d) = Shift(t, c)
  BY <1>3 DEF CanJump, Shift
<1>15. TimerOK(t, d, k, g, HasTaken(o), o.pc = "setcheck")
  <2> HIDE DEF c, q, h, cancelled, mine, d, k, g, o, t
  <2> QED
    BY <1>1, <1>2, <1>3, <1>6, <1>10, <1>11, <1>12, <1>13, <1>14
    DEF TimerOK, Timely, IsStepped
<1>16. HolderOK(o, d, k, g)
  <2> HIDE DEF c, q, h, cancelled, d, k, g, o, t
  <2>1. CASE o = NoCall
    BY <2>1, NoCallType DEF HolderOK
  <2>2. CASE o # NoCall
    <3>1. op[a].got = "cancel" => cancelled
      BY <1>1, <1>2, <1>13 DEF HolderOK, t
    <3>2. op[a].got = "timer" => q.at = NoTimer /\ Timely(t, c, h, mono)
      BY <1>1, <1>2 DEF HolderOK, t
    <3>3. c.type # "unspecified"
      BY <1>1, <1>2 DEF HolderOK, t
    <3> QED
      BY <1>3, <1>6, <1>8, <1>10, <1>14, <2>2, <3>1, <3>2, <3>3 DEF HolderOK, Timely
  <2> QED
    BY <2>1, <2>2
<1>17. todo' \in [Detectors -> SUBSET Timers]
  BY <1>4 DEF TimerIInv, TimerTypes
<1>18. op[a].t = t
  OBVIOUS
<1> HIDE DEF c, q, h, cancelled, mine, d, k, g, o, t
<1> QED
  BY <1>1, <1>2, <1>3, <1>4, <1>6, <1>7, <1>9, <1>10, <1>15, <1>16, <1>17, <1>18,
     OneTimer

\* The end of a read, which leaves the timer c behind: the mutex is given up.
LEMMA FinishStep ==
  ASSUME TimerIInv, offset \in Int, NEW a \in Actors, op[a].pc = "clock",
         NEW c \in CtxType,
         TimerOK(op[a].t, c, kq[op[a].t], hist[op[a].t], HasTaken(op[a]), FALSE),
         c.value # 0 => c.type = ctx[op[a].t].type,
         Finish(a, c), Return(a)
  PROVE  TimerIInv'
<1> DEFINE t == op[a].t
           q == kq[t]
           h == hist[t]
           now == Clock(t, ctx[t].type)
           delete == op[a].got # "timer"
           d == [c EXCEPT !.nr = 0]
           k == Rearm(c, q, now, delete)
           g == [h EXCEPT !.reported = @ + c.nr]
<1>1. op[a].pc \in Holding
  BY DEF Holding
<1>2. /\ t \in Timers /\ ctx[t] \in CtxType /\ q \in KqType /\ h \in HistType
      /\ HolderOK(op[a], ctx[t], q, h)
  BY <1>1, HolderFacts
<1>3. now \in Int /\ (c.value # 0 => now = mono + Shift(t, c))
  <2>1. now \in Int /\ Clock(t, c.type) = mono + Shift(t, c)
    BY <1>2, ClockShift DEF TimerIInv
  <2> QED
    BY <2>1
<1>4. ~q.cancel /\ (delete \/ q.at = NoTimer)
  BY <1>2 DEF HolderOK
<1>5. HasTaken(op[a]) \in BOOLEAN /\ delete \in BOOLEAN
  BY DEF HasTaken
<1>6. /\ TimerOK(t, d, k, g, FALSE, FALSE)
      /\ d \in CtxType /\ k \in KqType /\ g \in HistType
  <2> HIDE DEF t, q, h, now, delete
  <2>1. TimerOK(t, c, q, h, HasTaken(op[a]), FALSE)
    BY DEF t, q, h
  <2> QED
    BY <1>2, <1>3, <1>4, <1>5, <2>1, FinishOK, ZenonT(30) DEF TimerIInv
<1>7. /\ ctx' = [ctx EXCEPT ![t] = d] /\ kq' = [kq EXCEPT ![t] = k]
      /\ hist' = [hist EXCEPT ![t] = g] /\ op' = [op EXCEPT ![a] = NoCall]
      /\ UNCHANGED <<mono, offset, todo>>
  <2>1. hist \in [Timers -> HistType]
    BY DEF TimerIInv, TimerTypes
  <2> QED
    BY <1>2, <2>1 DEF Finish, ReadRearms, Return, svars
<1>8. HolderOK(NoCall, d, k, g) /\ NoCall.pc \notin Holding /\ NoCall.pc # "setcheck"
  BY NoCallType DEF HolderOK, Holding
<1>9. todo' \in [Detectors -> SUBSET Timers]
  BY <1>7 DEF TimerIInv, TimerTypes
<1>10. TimerOK(t, d, k, g, HasTaken(NoCall), NoCall.pc = "setcheck")
  <2>1. ~HasTaken(NoCall)
    BY NoCallType DEF HasTaken
  <2> HIDE DEF t, d, k, g
  <2> QED
    BY <1>6, <1>8, <2>1 DEF TimerOK
<1>11. op[a].t = t
  OBVIOUS
<1> HIDE DEF t, q, h, now, delete, d, k, g
<1> QED
  BY <1>1, <1>2, <1>6, <1>7, <1>8, <1>9, <1>10, <1>11, NoCallType, OneTimer

\* Without an expiration the clock has left the timer as it was.
LEMMA CatchUpNothing ==
  ASSUME NEW c \in CtxType, NEW now \in Int, CatchUp(c, now).nr = 0
  PROVE  CatchUp(c, now) = c /\ c.nr = 0 /\ (c.value = 0 \/ now < c.value)
<1>1. c.value \in Nat /\ c.interval \in Nat /\ c.nr \in Nat
  BY CtxFields
<1>2. [Disarm(c) EXCEPT !.nr = c.nr + 1].nr = c.nr + 1
  BY DEF Disarm, CtxType
<1>3. \A n, v : [c EXCEPT !.nr = c.nr + n, !.value = v].nr = c.nr + n
  BY DEF CtxType
<1>4. \A n \in Nat \ {0} : c.nr + n # 0
  BY <1>1
<1>5. \/ CatchUp(c, now) = c /\ (c.value = 0 \/ now < c.value)
      \/ CatchUp(c, now) = [Disarm(c) EXCEPT !.nr = c.nr + 1]
      \/ \E n \in Nat \ {0} :
           CatchUp(c, now) = [c EXCEPT !.nr = c.nr + n,
                                       !.value = c.value + n * c.interval]
  BY CatchUpCases
<1>6. c.nr + 1 # 0
  BY <1>1
<1>7. CASE CatchUp(c, now) = c /\ (c.value = 0 \/ now < c.value)
  BY <1>7
<1>8. CASE CatchUp(c, now) = [Disarm(c) EXCEPT !.nr = c.nr + 1]
  BY <1>2, <1>6, <1>8
<1>9. CASE \E n \in Nat \ {0} :
             CatchUp(c, now) = [c EXCEPT !.nr = c.nr + n,
                                         !.value = c.value + n * c.interval]
  BY <1>3, <1>4, <1>9
<1> QED
  BY <1>5, <1>7, <1>8, <1>9

LEMMA CatchUpSet ==
  ASSUME NEW c \in CtxType, NEW now \in Int, CatchUp(c, now).value # 0
  PROVE  CatchUp(c, now).type = c.type
<1>1. [Disarm(c) EXCEPT !.nr = c.nr + 1].value = 0
  BY DEF Disarm, CtxType
<1>2. \A n, v : [c EXCEPT !.nr = n, !.value = v].type = c.type
  BY DEF CtxType
<1>3. \/ CatchUp(c, now) = c
      \/ CatchUp(c, now) = [Disarm(c) EXCEPT !.nr = c.nr + 1]
      \/ \E n \in Nat \ {0} :
           CatchUp(c, now) = [c EXCEPT !.nr = c.nr + n,
                                       !.value = c.value + n * c.interval]
  BY CatchUpCases
<1> QED
  BY <1>1, <1>2, <1>3

\* What a read finds when it looks at the clock.
LEMMA ReadNowFacts ==
  ASSUME TimerIInv, offset \in Int, NEW a \in Actors, op[a].pc = "clock",
         NEW t, t = op[a].t
  PROVE  /\ t \in Timers /\ op[a] \in OpType
         /\ ctx[t] \in CtxType /\ kq[t] \in KqType /\ hist[t] \in HistType
         /\ HolderOK(op[a], ctx[t], kq[t], hist[t])
         /\ TimerOK(t, ctx[t], kq[t], hist[t], HasTaken(op[a]), FALSE)
         /\ Clock(t, ctx[t].type) \in Int /\ mono \in Nat
         /\ Clock(t, ctx[t].type) = mono + Shift(t, ctx[t])
         /\ ReadNow(a) \in CtxType
         /\ ReadNow(a) = CatchUp(ctx[t], Clock(t, ctx[t].type))
         /\ TimerOK(t, ReadNow(a), kq[t], hist[t], HasTaken(op[a]), FALSE)
<1>1. op[a].pc \in Holding /\ op[a].pc # "setcheck"
  BY DEF Holding
<1>2. /\ t \in Timers /\ op[a] \in OpType
      /\ ctx[t] \in CtxType /\ kq[t] \in KqType /\ hist[t] \in HistType
      /\ HolderOK(op[a], ctx[t], kq[t], hist[t])
      /\ TimerOK(t, ctx[t], kq[t], hist[t], HasTaken(op[a]), op[a].pc = "setcheck")
  BY <1>1, HolderFacts
<1>3. TimerOK(t, ctx[t], kq[t], hist[t], HasTaken(op[a]), FALSE)
  BY <1>1, <1>2 DEF TimerOK
<1>4. /\ Clock(t, ctx[t].type) \in Int /\ mono \in Nat
      /\ Clock(t, ctx[t].type) = mono + Shift(t, ctx[t])
  BY <1>2, ClockShift DEF TimerIInv
<1>5. ReadNow(a) = CatchUp(ctx[t], Clock(t, ctx[t].type))
  BY DEF ReadNow
<1>6. HasTaken(op[a]) \in BOOLEAN
  BY DEF HasTaken
<1>7. TimerOK(t, CatchUp(ctx[t], Clock(t, ctx[t].type)), kq[t], hist[t],
              HasTaken(op[a]), FALSE)
  BY <1>2, <1>3, <1>4, <1>6, CatchUpOK
<1>8. CatchUp(ctx[t], Clock(t, ctx[t].type)) \in CtxType
  BY <1>2, <1>4, CatchUpType
<1>9. TimerOK(t, ReadNow(a), kq[t], hist[t], HasTaken(op[a]), FALSE)
  BY <1>5, <1>7
<1>10. ReadNow(a) \in CtxType
  BY <1>5, <1>8
<1> QED
  BY <1>2, <1>3, <1>4, <1>5, <1>9, <1>10

\* ECANCELED: the timer is as it was, with the expirations it has counted; only
\* the kernel's timer is set again.
LEMMA ReadCancelledStep ==
  ASSUME TimerIInv, offset \in Int, NEW a \in Actors, ReadCancelled(a)
  PROVE  TimerIInv'
<1> DEFINE t == op[a].t
           c == ctx[t]
           q == kq[t]
           h == hist[t]
           k == Rearm(c, q, Clock(t, c.type), op[a].got # "timer")
<1>1. op[a].pc = "clock" /\ op[a].pc \in Holding /\ op[a].t = t
  BY DEF ReadCancelled, Holding
<1>2. /\ t \in Timers /\ c \in CtxType /\ q \in KqType /\ h \in HistType
      /\ mono \in Nat /\ Clock(t, c.type) = mono + Shift(t, c)
      /\ HolderOK(op[a], c, q, h)
      /\ TimerOK(t, c, q, h, HasTaken(op[a]), FALSE)
  BY <1>1, ReadNowFacts
<1>3. ~q.cancel /\ c.type # "unspecified" /\ c.value # 0
  BY <1>1, <1>2 DEF HolderOK, TimerOK
<1>4. c.value \in Nat /\ Shift(t, c) \in Int
  <2>1. c.value \in Nat
    BY <1>2, CtxFields
  <2>2. Shift(t, c) \in Int
    BY DEF Shift
  <2> QED
    BY <2>1, <2>2
<1>5. k = Register(q, c.value, mono + Shift(t, c))
  BY <1>2, <1>3 DEF Rearm, Armed
<1>6. /\ k \in KqType /\ k.at # NoTimer /\ ~k.fired /\ ~k.cancel
      /\ k.at + Shift(t, c) >= c.value
  <2> DEFINE r == Register(q, c.value, mono + Shift(t, c))
  <2>1. /\ r \in KqType /\ r.at # NoTimer /\ ~r.fired /\ r.cancel = q.cancel
        /\ r.at + Shift(t, c) >= c.value
    BY <1>2, <1>4, RegisterFacts
  <2> HIDE DEF r, k, c, q
  <2> QED
    BY <1>3, <1>5, <2>1 DEF r
<1>7. HasTaken(NoCall) = FALSE /\ NoCall.pc \notin Holding /\ NoCall.pc # "setcheck"
  BY NoCallType DEF HasTaken, Holding
<1>8. /\ kq' = [kq EXCEPT ![t] = k] /\ op' = [op EXCEPT ![a] = NoCall]
      /\ UNCHANGED <<mono, offset, todo, ctx, hist>>
  BY DEF ReadCancelled, ReadRearms, Return, svars
<1>9. ctx' = [ctx EXCEPT ![t] = c] /\ hist' = [hist EXCEPT ![t] = h]
  BY <1>2, <1>8 DEF TimerIInv, TimerTypes
<1>10. todo' \in [Detectors -> SUBSET Timers]
  BY <1>8 DEF TimerIInv, TimerTypes
<1> HIDE DEF t, c, q, h, k
<1>11. TimerOK(t, c, k, h, FALSE, FALSE)
  BY <1>2, <1>3, <1>6 DEF TimerOK, Timely, Shift, IsStepped, CanJump
<1>12. /\ TimerOK(t, c, k, h, HasTaken(NoCall), NoCall.pc = "setcheck")
       /\ HolderOK(NoCall, c, k, h)
  BY <1>7, <1>11, NoCallType DEF TimerOK, HolderOK, Holding
<1> QED
  BY <1>1, <1>2, <1>6, <1>7, <1>8, <1>9, <1>10, <1>12, NoCallType, OneTimer

LEMMA ReadExpiredStep ==
  ASSUME TimerIInv, offset \in Int, NEW a \in Actors, ReadExpired(a)
  PROVE  TimerIInv'
<1>1. op[a].pc = "clock" /\ Finish(a, ReadNow(a)) /\ Return(a)
  BY DEF ReadExpired
<1> DEFINE t == op[a].t
<1>2. /\ ctx[t] \in CtxType /\ ReadNow(a) \in CtxType
      /\ Clock(t, ctx[t].type) \in Int
      /\ ReadNow(a) = CatchUp(ctx[t], Clock(t, ctx[t].type))
      /\ TimerOK(t, ReadNow(a), kq[t], hist[t], HasTaken(op[a]), FALSE)
  BY <1>1, ReadNowFacts
<1>3. ReadNow(a).value # 0 => ReadNow(a).type = ctx[t].type
  BY <1>2, CatchUpSet
<1> QED
  BY <1>1, <1>2, <1>3, FinishStep

\* An event that came too soon.
LEMMA ReadEarlyStep ==
  ASSUME TimerIInv, offset \in Int, NEW a \in Actors, ReadEarly(a)
  PROVE  TimerIInv'
<1> DEFINE t == op[a].t
           c == ReadNow(a)
           once == [Disarm(c) EXCEPT !.nr = 1]
           left == IF c.cancel \/ c.interval # 0 THEN c ELSE once
<1>1. op[a].pc = "clock" /\ Finish(a, left) /\ Return(a)
  BY DEF ReadEarly
<1>2. /\ ctx[t] \in CtxType /\ c \in CtxType
      /\ Clock(t, ctx[t].type) \in Int
      /\ c = CatchUp(ctx[t], Clock(t, ctx[t].type))
      /\ TimerOK(t, c, kq[t], hist[t], HasTaken(op[a]), FALSE)
  BY <1>1, ReadNowFacts
<1>3. c.value # 0 => c.type = ctx[t].type
  BY <1>2, CatchUpSet
<1>4. /\ once \in CtxType
      /\ once.type = "unspecified" /\ once.value = 0 /\ once.nr = 1
      /\ once.force = c.force /\ once.cancel = c.cancel /\ once.off = c.off
  <2> HIDE DEF c
  <2>1. Disarm(c) \in CtxType
    BY <1>2 DEF CtxType, Disarm
  <2> QED
    BY <1>2, <2>1 DEF CtxType, Disarm
<1>5. TimerOK(t, once, kq[t], hist[t], HasTaken(op[a]), FALSE)
  <2> HIDE DEF c, once, t
  <2> QED
    BY <1>2, <1>4 DEF TimerOK, IsStepped, CanJump
<1>6. left = c \/ left = once
  OBVIOUS
<1> HIDE DEF c, once, left
<1>7. left \in CtxType /\ (left.value # 0 => left.type = ctx[t].type)
  BY <1>2, <1>3, <1>4, <1>6
<1>8. TimerOK(t, left, kq[t], hist[t], HasTaken(op[a]), FALSE)
  BY <1>2, <1>5, <1>6
<1> QED
  BY <1>1, <1>7, <1>8, FinishStep

\* EAGAIN: nothing has changed.
LEMMA ReadNothingStep ==
  ASSUME TimerIInv, offset \in Int, NEW a \in Actors, ReadNothing(a)
  PROVE  TimerIInv'
<1> DEFINE t == op[a].t
           c == ctx[t]
           o == IF op[a].block THEN [NoOp(t) EXCEPT !.pc = "wait", !.block = TRUE]
                ELSE NoCall
<1>1. op[a].pc = "clock" /\ op[a].got = "none" /\ ReadNow(a).nr = 0
  BY DEF ReadNothing
<1>2. /\ t \in Timers /\ op[a] \in OpType
      /\ c \in CtxType /\ kq[t] \in KqType /\ hist[t] \in HistType
      /\ TimerOK(t, c, kq[t], hist[t], HasTaken(op[a]), FALSE)
      /\ Clock(t, c.type) \in Int
      /\ ReadNow(a) = CatchUp(c, Clock(t, c.type))
  BY <1>1, ReadNowFacts
<1>3. ReadNow(a) = c
  BY <1>1, <1>2, CatchUpNothing
<1>4. op[a].block \in BOOLEAN
  BY <1>2 DEF OpType
<1>5. o \in OpType /\ o.pc \notin Holding
  <2> HIDE DEF t
  <2> QED
    BY <1>2, <1>4, AgainType
<1>6. ~HasTaken(o) /\ ~HasTaken(op[a]) /\ o.pc # "setcheck"
  BY <1>1, <1>5 DEF HasTaken, Holding
<1>7. TimerOK(t, c, kq[t], hist[t], HasTaken(o), o.pc = "setcheck")
  <2> HIDE DEF t, c, o
  <2> QED
    BY <1>2, <1>6 DEF TimerOK
<1>8. HolderOK(o, c, kq[t], hist[t])
  BY <1>5 DEF HolderOK, Holding
<1>9. /\ ctx' = [ctx EXCEPT ![t] = c] /\ op' = [op EXCEPT ![a] = o]
      /\ kq' = [kq EXCEPT ![t] = kq[t]] /\ hist' = [hist EXCEPT ![t] = hist[t]]
      /\ UNCHANGED <<mono, offset, todo>>
  <2>1. kq = [kq EXCEPT ![t] = kq[t]] /\ hist = [hist EXCEPT ![t] = hist[t]]
    BY <1>2, Unchanged DEF TimerIInv
  <2> QED
    BY <1>3, <2>1 DEF ReadNothing, Again, svars
<1>10. todo' \in [Detectors -> SUBSET Timers]
  BY <1>9 DEF TimerIInv, TimerTypes
<1>11. op[a].pc \in Holding /\ op[a].t = t
  BY <1>1 DEF Holding
<1> HIDE DEF t, c, o
<1> QED
  BY <1>2, <1>5, <1>7, <1>8, <1>9, <1>10, <1>11, OneTimer

\* timerfd_gettime.
LEMMA GettimeStep ==
  ASSUME TimerIInv, offset \in Int, NEW a \in Actors, NEW t \in Timers, Gettime(a, t)
  PROVE  TimerIInv'
<1> DEFINE c == CatchUp(ctx[t], Clock(t, ctx[t].type))
<1>1. Free(t) /\ op[a].pc = "idle"
  BY DEF Gettime, Idle
<1>2. /\ ctx[t] \in CtxType /\ kq[t] \in KqType /\ hist[t] \in HistType
      /\ TimerOK(t, ctx[t], kq[t], hist[t], FALSE, FALSE)
  BY <1>1, FreeFacts
<1>3. Clock(t, ctx[t].type) \in Int /\ mono \in Nat
  BY <1>2, ClockShift DEF TimerIInv
<1>4. c \in CtxType /\ TimerOK(t, c, kq[t], hist[t], FALSE, FALSE)
  BY <1>2, <1>3, CatchUpType, CatchUpOK
<1>5. op[a] \in OpType /\ op[a].pc \notin Holding
  BY <1>1 DEF Holding, TimerIInv, TimerTypes
<1>6. ~HasTaken(op[a]) /\ op[a].pc # "setcheck"
  BY <1>1 DEF HasTaken
<1>7. /\ ctx' = [ctx EXCEPT ![t] = c] /\ op' = [op EXCEPT ![a] = op[a]]
      /\ kq' = [kq EXCEPT ![t] = kq[t]] /\ hist' = [hist EXCEPT ![t] = hist[t]]
      /\ UNCHANGED <<mono, offset, todo>>
  BY Unchanged DEF Gettime, svars, TimerIInv
<1> HIDE DEF c
<1>8. TimerOK(t, c, kq[t], hist[t], HasTaken(op[a]), op[a].pc = "setcheck")
  BY <1>4, <1>6 DEF TimerOK
<1>9. HolderOK(op[a], c, kq[t], hist[t])
  BY <1>1 DEF HolderOK
<1>10. todo' \in [Detectors -> SUBSET Timers]
  BY <1>7 DEF TimerIInv, TimerTypes
<1> QED
  BY <1>1, <1>2, <1>4, <1>5, <1>7, <1>8, <1>9, <1>10, OneTimer

-----------------------------------------------------------------------------
(* timerfd_settime() and close().                                           *)

LEMMA DisarmedStep ==
  ASSUME TimerIInv, NEW a \in Actors, NEW t \in Timers, Idle(a), Free(t),
         NEW o \in OpType, o.pc = "setcheck", o.t = t,
         Disarmed(t), op' = [op EXCEPT ![a] = o], UNCHANGED <<mono, offset, todo>>
  PROVE  TimerIInv'
<1> DEFINE c == [Disarm(ctx[t]) EXCEPT !.cancel = FALSE, !.nr = 0]
           k == Unregister(kq[t])
           h == [NoHist EXCEPT !.off = hist[t].off]
<1>1. /\ ctx[t] \in CtxType /\ kq[t] \in KqType /\ hist[t] \in HistType
      /\ TimerOK(t, ctx[t], kq[t], hist[t], FALSE, FALSE)
  BY FreeFacts
<1>2. /\ c \in CtxType
      /\ c.type = "unspecified" /\ c.value = 0 /\ c.nr = 0 /\ ~c.cancel
      /\ c.force = ctx[t].force
  <2>1. Disarm(ctx[t]) \in CtxType /\ Disarm(ctx[t]).force = ctx[t].force
        /\ Disarm(ctx[t]).type = "unspecified" /\ Disarm(ctx[t]).value = 0
    BY <1>1 DEF CtxType, Disarm
  <2> QED
    BY <2>1 DEF CtxType
<1>3. /\ k \in KqType /\ k.at = NoTimer /\ ~k.fired /\ k.cancel = kq[t].cancel
  BY <1>1 DEF KqType, Unregister
<1>4. h \in HistType
  BY <1>1 DEF HistType, NoHist
<1>5. /\ ctx' = [ctx EXCEPT ![t] = c] /\ kq' = [kq EXCEPT ![t] = k]
      /\ hist' = [hist EXCEPT ![t] = h]
  BY DEF Disarmed
<1> HIDE DEF c, k, h
<1>6. TimerOK(t, c, k, h, HasTaken(o), o.pc = "setcheck")
  BY <1>1, <1>2, <1>3 DEF TimerOK, IsStepped, CanJump
<1>7. HolderOK(o, c, k, h)
  BY DEF HolderOK
<1>8. todo' \in [Detectors -> SUBSET Timers] /\ op[a].pc \notin Holding
  BY DEF TimerIInv, TimerTypes, Idle, Holding
<1> QED
  BY <1>2, <1>3, <1>4, <1>5, <1>6, <1>7, <1>8, OneTimer

LEMMA ArmedStep ==
  ASSUME TimerIInv, offset \in Int, NEW a \in Actors, NEW t \in Timers,
         Idle(a), Free(t), NEW o \in OpType, o.pc = "setcheck", o.t = t,
         NEW abs \in BOOLEAN, NEW cancel \in BOOLEAN,
         NEW value \in Values, NEW interval \in Intervals, value # 0,
         ArmedAt(t, abs, cancel, value, interval),
         op' = [op EXCEPT ![a] = o], UNCHANGED <<mono, offset, todo>>
  PROVE  TimerIInv'
<1> DEFINE type == IF abs THEN "absolute" ELSE "relative"
           at == value + IF abs THEN 0 ELSE Clock(t, type)
           flag == cancel /\ abs /\ t \in Realtime
           c == [ctx[t] EXCEPT !.type = type, !.value = at, !.interval = interval,
                               !.nr = 0, !.cancel = flag]
           k == Register(kq[t], at, Clock(t, type))
           h == [NoHist EXCEPT !.first = at, !.off = hist[t].off]
<1>1. /\ ctx[t] \in CtxType /\ kq[t] \in KqType /\ hist[t] \in HistType
      /\ TimerOK(t, ctx[t], kq[t], hist[t], FALSE, FALSE)
  BY FreeFacts
<1>2. value \in Nat /\ interval \in Nat /\ mono \in Nat
  BY ValuesAssumption, BoundsAssumption DEF TimerIInv, TimerTypes
<1>3. at \in Nat /\ at # 0
  <2>1. ~abs => Clock(t, type) = mono
    BY <1>2 DEF Clock
  <2> QED
    BY <1>2, <2>1
<1>4. flag \in BOOLEAN
  OBVIOUS
<1>5. /\ type \in {"relative", "absolute"} /\ (flag => type = "absolute")
  OBVIOUS
<1>6. /\ ctx' = [ctx EXCEPT ![t] = c] /\ kq' = [kq EXCEPT ![t] = k]
      /\ hist' = [hist EXCEPT ![t] = h]
  BY DEF ArmedAt
<1> HIDE DEF type, at, flag
<1>7. /\ c \in CtxType
      /\ c.type = type /\ c.value = at /\ c.interval = interval /\ c.nr = 0
      /\ c.cancel = flag /\ c.force = ctx[t].force /\ c.off = ctx[t].off
  BY <1>1, <1>3, <1>4, <1>5 DEF CtxType
<1>8. Clock(t, type) = mono + Shift(t, c) /\ Shift(t, c) \in Int
  <2> HIDE DEF c
  <2> QED
    BY <1>7, ClockShift DEF TimerIInv
<1>9. /\ k \in KqType /\ k.at # NoTimer /\ k.at + Shift(t, c) >= at
      /\ ~k.fired /\ k.cancel = kq[t].cancel
  <2>1. k = Register(kq[t], at, mono + Shift(t, c))
    BY <1>8
  <2> HIDE DEF c, k
  <2>2. /\ Register(kq[t], at, mono + Shift(t, c)) \in KqType
        /\ Register(kq[t], at, mono + Shift(t, c)).at # NoTimer
        /\ Register(kq[t], at, mono + Shift(t, c)).at + Shift(t, c) >= at
        /\ ~Register(kq[t], at, mono + Shift(t, c)).fired
        /\ Register(kq[t], at, mono + Shift(t, c)).cancel = kq[t].cancel
    BY <1>1, <1>2, <1>3, <1>8, RegisterFacts, ZenonT(30)
  <2> QED
    BY <2>1, <2>2
<1>10. h \in HistType /\ h.first = at /\ h.reported = 0
  BY <1>1, <1>3 DEF HistType, NoHist
<1> HIDE DEF c, k, h
<1>11. c.value = h.first + c.interval * (h.reported + c.nr)
  BY <1>2, <1>3, <1>7, <1>10
<1>12. TimerOK(t, c, k, h, HasTaken(o), o.pc = "setcheck")
  <2>1. Timely(t, c, h, k.at)
    BY <1>7, <1>9 DEF Timely
  <2> QED
    BY <1>1, <1>3, <1>5, <1>7, <1>9, <1>11, <2>1 DEF TimerOK
<1>13. HolderOK(o, c, k, h)
  BY DEF HolderOK
<1>14. todo' \in [Detectors -> SUBSET Timers] /\ op[a].pc \notin Holding
  BY DEF TimerIInv, TimerTypes, Idle, Holding
<1> QED
  BY <1>6, <1>7, <1>9, <1>10, <1>12, <1>13, <1>14, OneTimer

LEMMA SettimeStep ==
  ASSUME TimerIInv, offset \in Int, NEW a \in Actors, NEW t \in Timers,
         NEW abs \in BOOLEAN, NEW cancel \in BOOLEAN,
         NEW value \in Values, NEW interval \in Intervals,
         Settime(a, t, abs, cancel, value, interval)
  PROVE  TimerIInv'
<1> DEFINE is_abs == abs /\ value # 0
           o == [NoOp(t) EXCEPT !.pc = "setcheck", !.abs = is_abs]
<1>1. is_abs \in BOOLEAN
  OBVIOUS
<1>2. /\ op' = [op EXCEPT ![a] = o]
      /\ Idle(a) /\ Free(t) /\ UNCHANGED <<mono, offset, todo>>
  BY DEF Settime, svars
<1> HIDE DEF is_abs
<1>3. o \in OpType /\ o.pc = "setcheck" /\ o.t = t
  BY <1>1 DEF NoOp, OpType, Holding
<1> HIDE DEF o
<1>4. CASE value = 0
  <2>1. Disarmed(t)
    BY <1>4 DEF Settime
  <2> QED
    BY <1>2, <1>3, <2>1, DisarmedStep
<1>5. CASE value # 0
  <2>1. ArmedAt(t, abs, cancel, value, interval)
    BY <1>5 DEF Settime
  <2> QED
    BY <1>2, <1>3, <1>5, <2>1, ArmedStep
<1> QED
  BY <1>4, <1>5

\* The boot time of the new setting; what the old one was told is forgotten.
LEMMA SetCheckStep ==
  ASSUME TimerIInv, offset \in Offsets, NEW a \in Actors, SetCheck(a)
  PROVE  TimerIInv'
<1> DEFINE t == op[a].t
           c == ctx[t]
           q == kq[t]
           d == Checked(t, c)
           k == CheckedKq(t, c, q)
           h == hist[t]
           g == [h EXCEPT !.off = d.off]
           o == [op[a] EXCEPT !.pc = "monitor"]
<1>1. op[a].pc = "setcheck" /\ op[a].pc \in Holding
  BY DEF SetCheck, Holding
<1>2. /\ t \in Timers /\ op[a] \in OpType
      /\ c \in CtxType /\ q \in KqType /\ h \in HistType
      /\ TimerOK(t, c, q, h, HasTaken(op[a]), op[a].pc = "setcheck")
  BY <1>1, HolderFacts
<1>3. /\ d \in CtxType /\ k \in KqType
      /\ d.type = c.type /\ d.value = c.value /\ d.interval = c.interval
      /\ d.nr = c.nr /\ d.cancel = c.cancel /\ ~d.force
      /\ d.off = IF CanJump(t, c) THEN offset ELSE c.off
      /\ k.at = q.at /\ k.fired = q.fired /\ ~k.cancel
  <2>1. (c.force => t \in Realtime) /\ (q.cancel => c.force)
    BY <1>2 DEF TimerOK
  <2> HIDE DEF c, q, t
  <2> QED
    BY <1>2, <2>1, CheckedFacts
<1>4. /\ ctx' = [ctx EXCEPT ![t] = d] /\ kq' = [kq EXCEPT ![t] = k]
      /\ op' = [op EXCEPT ![a] = o]
      /\ UNCHANGED <<mono, offset, todo>>
  BY DEF SetCheck, svars
<1>5. hist' = [hist EXCEPT ![t] = g]
  <2>1. ctx'[t].off = d.off
    BY <1>2, <1>4 DEF TimerIInv, TimerTypes
  <2> QED
    BY <1>2, <2>1 DEF SetCheck, TimerIInv, TimerTypes
<1>6. /\ g \in HistType
      /\ g.first = h.first /\ g.reported = h.reported /\ g.stepped = h.stepped
      /\ g.off = d.off /\ g.spent = h.spent
  <2>1. d.off \in Offsets \cup {0}
    BY <1>3 DEF CtxType
  <2> HIDE DEF d
  <2> QED
    BY <1>2, <2>1 DEF HistType
<1>7. o \in OpType /\ o.pc = "monitor" /\ o.t = t
  BY <1>2 DEF OpType, Holding
<1>8. ~HasTaken(o) /\ ~HasTaken(op[a])
  BY <1>1, <1>7 DEF HasTaken
<1>9. (CanJump(t, d) <=> CanJump(t, c)) /\ Shift(t, d) = Shift(t, c)
  BY <1>3 DEF CanJump, Shift
<1>10. op[a].t = t /\ todo' \in [Detectors -> SUBSET Timers]
  BY <1>4 DEF TimerIInv, TimerTypes
<1> HIDE DEF t, c, q, d, k, h, g, o
<1>11. TimerOK(t, d, k, g, HasTaken(o), o.pc = "setcheck")
  BY <1>2, <1>3, <1>6, <1>7, <1>8, <1>9 DEF TimerOK, Timely, IsStepped
<1>12. HolderOK(o, d, k, g)
  BY <1>7 DEF HolderOK
<1> QED
  BY <1>1, <1>2, <1>3, <1>4, <1>5, <1>6, <1>7, <1>10, <1>11, <1>12, OneTimer

\* The mutex is given up; the step detector's count is its own business.
LEMMA SetMonitorStep ==
  ASSUME TimerIInv, NEW a \in Actors, SetMonitor(a)
  PROVE  TimerIInv'
<1> DEFINE t == op[a].t
<1>1. op[a].pc = "monitor" /\ op[a].pc \in Holding
  BY DEF SetMonitor, Holding
<1>2. /\ t \in Timers
      /\ ctx[t] \in CtxType /\ kq[t] \in KqType /\ hist[t] \in HistType
      /\ TimerOK(t, ctx[t], kq[t], hist[t], HasTaken(op[a]), op[a].pc = "setcheck")
  BY <1>1, HolderFacts
<1>3. ~HasTaken(op[a]) /\ ~HasTaken(NoCall) /\ NoCall.pc # "setcheck"
  BY <1>1, NoCallType DEF HasTaken
<1>4. TimerOK(t, ctx[t], kq[t], hist[t], HasTaken(NoCall), NoCall.pc = "setcheck")
  <2> HIDE DEF t
  <2> QED
    BY <1>1, <1>2, <1>3 DEF TimerOK
<1>5. HolderOK(NoCall, ctx[t], kq[t], hist[t]) /\ NoCall.pc \notin Holding
  BY NoCallType DEF HolderOK, Holding
<1>6. /\ ctx' = [ctx EXCEPT ![t] = ctx[t]] /\ op' = [op EXCEPT ![a] = NoCall]
      /\ kq' = [kq EXCEPT ![t] = kq[t]] /\ hist' = [hist EXCEPT ![t] = hist[t]]
      /\ UNCHANGED <<mono, offset, todo>>
  BY <1>2, Unchanged DEF SetMonitor, Return, TimerIInv
<1>7. op[a].t = t /\ todo' \in [Detectors -> SUBSET Timers]
  BY <1>6 DEF TimerIInv, TimerTypes
<1> HIDE DEF t
<1> QED
  BY <1>1, <1>2, <1>4, <1>5, <1>6, <1>7, NoCallType, OneTimer

\* No call goes on; one timer changes.
LEMMA TimerAlone ==
  ASSUME TimerIInv, NEW t \in Timers,
         NEW c \in CtxType, NEW k \in KqType, NEW h \in HistType,
         TimerOK(t, c, k, h, Taken(t), Setting(t)),
         \A a \in Actors : op[a].t = t => HolderOK(op[a], c, k, h),
         UNCHANGED <<mono, offset, op, todo>>,
         ctx' = [ctx EXCEPT ![t] = c], kq' = [kq EXCEPT ![t] = k],
         hist' = [hist EXCEPT ![t] = h]
  PROVE  TimerIInv'
<1>1. /\ ctx'[t] = c /\ kq'[t] = k /\ hist'[t] = h
      /\ \A u \in Timers : u # t =>
           ctx'[u] = ctx[u] /\ kq'[u] = kq[u] /\ hist'[u] = hist[u]
      /\ \A b \in Actors : op[b].t \in Timers
  BY DEF TimerIInv, TimerTypes, OpType
<1>2. TimerTypes'
  BY DEF TimerIInv, TimerTypes, Mutex
<1>3. \A u \in Timers : (Taken(u)' <=> Taken(u)) /\ (Setting(u)' <=> Setting(u))
  BY DEF Taken, Setting
<1>4. TimersOK'
  <2> SUFFICES ASSUME NEW u \in Timers
               PROVE  TimerOK(u, ctx[u], kq[u], hist[u], Taken(u), Setting(u))'
    BY DEF TimersOK
  <2>1. CASE u = t
    BY <1>1, <1>3, <2>1 DEF TimerOK, Timely, Shift, IsStepped, CanJump
  <2>2. CASE u # t
    <3>1. TimerOK(u, ctx[u], kq[u], hist[u], Taken(u), Setting(u))
      BY DEF TimerIInv, TimersOK
    <3> QED
      BY <1>1, <1>3, <2>2, <3>1 DEF TimerOK, Timely, Shift, IsStepped, CanJump
  <2> QED
    BY <2>1, <2>2
<1>5. HoldersOK'
  <2> SUFFICES ASSUME NEW b \in Actors
               PROVE  HolderOK(op[b], ctx[op[b].t], kq[op[b].t], hist[op[b].t])'
    BY DEF HoldersOK
  <2>1. CASE op[b].t = t
    <3>1. HolderOK(op[b], c, k, h)
      BY <2>1
    <3> QED
      BY <1>1, <2>1, <3>1 DEF HolderOK, Timely, Shift, CanJump
  <2>2. CASE op[b].t # t
    <3>1. HolderOK(op[b], ctx[op[b].t], kq[op[b].t], hist[op[b].t])
      BY DEF TimerIInv, HoldersOK
    <3> QED
      BY <1>1, <2>2, <3>1 DEF HolderOK, Timely, Shift, CanJump
  <2> QED
    BY <2>1, <2>2
<1> QED
  BY <1>2, <1>4, <1>5 DEF TimerIInv

\* The last reference is gone, and nobody is in a call.
LEMMA CloseStep ==
  ASSUME TimerIInv, NEW t \in Timers, Close(t)
  PROVE  TimerIInv'
<1>1. Fresh \in CtxType /\ FreshKq \in KqType /\ NoHist \in HistType
  BY DEF CtxType, KqType, HistType, Fresh, FreshKq, NoHist
<1>2. \A a \in Actors : op[a].t = t => op[a].pc = "idle"
  BY DEF Close, Idle
<1>3. TimerOK(t, Fresh, FreshKq, NoHist, Taken(t), Setting(t))
  BY DEF TimerOK, Fresh, FreshKq, NoHist, NoTimer, IsStepped, CanJump
<1>4. \A a \in Actors : op[a].t = t => HolderOK(op[a], Fresh, FreshKq, NoHist)
  BY <1>2 DEF HolderOK
<1>5. /\ UNCHANGED <<mono, offset, op, todo>>
      /\ ctx' = [ctx EXCEPT ![t] = Fresh] /\ kq' = [kq EXCEPT ![t] = FreshKq]
      /\ hist' = [hist EXCEPT ![t] = NoHist]
  BY DEF Close
<1> QED
  BY <1>1, <1>3, <1>4, <1>5, TimerAlone

\* The kernel's timer fires, whoever holds the mutex.
LEMMA FireStep ==
  ASSUME TimerIInv, NEW t \in Timers, Fire(t)
  PROVE  TimerIInv'
<1> DEFINE q == kq[t]
           k == [q EXCEPT !.fired = TRUE]
<1>1. /\ ctx[t] \in CtxType /\ q \in KqType /\ hist[t] \in HistType
      /\ TimerOK(t, ctx[t], q, hist[t], Taken(t), Setting(t))
  BY DEF TimerIInv, TimerTypes, TimersOK
<1>2. k \in KqType /\ k.at = q.at /\ k.cancel = q.cancel
  BY <1>1 DEF KqType
<1>3. q.at \in 0 .. mono
  BY DEF Fire
<1>4. /\ UNCHANGED <<mono, offset, op, todo>>
      /\ ctx' = [ctx EXCEPT ![t] = ctx[t]] /\ kq' = [kq EXCEPT ![t] = k]
      /\ hist' = [hist EXCEPT ![t] = hist[t]]
  BY Unchanged DEF Fire, svars, TimerIInv
<1>5. \A a \in Actors : op[a].t = t => HolderOK(op[a], ctx[t], q, hist[t])
  BY DEF TimerIInv, HoldersOK
<1> HIDE DEF q, k
<1>6. TimerOK(t, ctx[t], k, hist[t], Taken(t), Setting(t))
  BY <1>1, <1>2, <1>3 DEF TimerOK
<1>7. \A a \in Actors : op[a].t = t => HolderOK(op[a], ctx[t], k, hist[t])
  BY <1>2, <1>5 DEF HolderOK
<1> QED
  BY <1>1, <1>2, <1>4, <1>6, <1>7, TimerAlone

-----------------------------------------------------------------------------
(* timerfd_ctx_realtime_change().                                           *)

\* Whatever the caller does next, a timer that is told is left sound.
LEMMA RealtimeChangeStep ==
  ASSUME TimerIInv, offset \in Offsets, NEW a \in Actors, NEW t \in Timers,
         RealtimeChange(a, t, TRUE),
         UNCHANGED <<mono, offset, hist>>,
         todo' \in [Detectors -> SUBSET Timers]
  PROVE  TimerIInv'
<1> DEFINE c == ctx[t]
           q == kq[t]
           h == hist[t]
<1>1. Idle(a) /\ Free(t) /\ op[a].pc \notin Holding
  BY DEF RealtimeChange, Idle, Holding
<1>2. /\ c \in CtxType /\ q \in KqType /\ h \in HistType
      /\ TimerOK(t, c, q, h, FALSE, FALSE)
  BY <1>1, FreeFacts
<1>3. op[a] \in OpType /\ ~HasTaken(op[a]) /\ op[a].pc # "setcheck"
  BY <1>1 DEF TimerIInv, TimerTypes, HasTaken, Idle
<1>4. \A x, y, z : HolderOK(op[a], x, y, z)
  BY <1>1 DEF HolderOK, Idle
<1>5. /\ ctx = [ctx EXCEPT ![t] = c] /\ kq = [kq EXCEPT ![t] = q]
      /\ hist' = [hist EXCEPT ![t] = h] /\ op = [op EXCEPT ![a] = op[a]]
  BY Unchanged DEF TimerIInv
<1>6. CASE ChangeKnown(t, TRUE)
  <2>1. TimerOK(t, c, q, h, HasTaken(op[a]), op[a].pc = "setcheck")
    BY <1>2, <1>3 DEF TimerOK
  <2>2. UNCHANGED <<ctx, kq, op>>
    BY <1>6 DEF ChangeKnown
  <2>3. /\ ctx' = [ctx EXCEPT ![t] = c] /\ kq' = [kq EXCEPT ![t] = q]
        /\ op' = [op EXCEPT ![a] = op[a]]
    BY <1>5, <2>2
  <2>4. HolderOK(op[a], c, q, h)
    BY <1>4
  <2> HIDE DEF c, q, h
  <2> QED
    BY <1>1, <1>2, <1>3, <1>5, <2>1, <2>3, <2>4, OneTimer
<1>7. CASE ChangeCancels(t, TRUE)
  <2> DEFINE d == [c EXCEPT !.off = offset, !.force = TRUE]
             k == [q EXCEPT !.cancel = TRUE]
  <2>1. /\ d \in CtxType /\ d.off = offset /\ d.force
        /\ d.type = c.type /\ d.value = c.value /\ d.interval = c.interval
        /\ d.nr = c.nr /\ d.cancel = c.cancel
    BY <1>2 DEF CtxType
  <2>2. k \in KqType /\ k.at = q.at /\ k.fired = q.fired
    BY <1>2 DEF KqType
  <2>3. /\ ctx' = [ctx EXCEPT ![t] = d] /\ kq' = [kq EXCEPT ![t] = k]
        /\ UNCHANGED op
        /\ CanJump(t, c) /\ c.off # offset /\ c.cancel
    BY <1>7 DEF ChangeCancels, TimerIInv, TimerTypes
  <2>4. CanJump(t, d) /\ Shift(t, d) = Shift(t, c) /\ t \in Realtime
    BY <2>1, <2>3 DEF CanJump, Shift
  <2> HIDE DEF c, q, h, d, k
  <2>5. TimerOK(t, d, k, h, HasTaken(op[a]), op[a].pc = "setcheck")
    BY <1>2, <1>3, <2>1, <2>2, <2>3, <2>4 DEF TimerOK, Timely, IsStepped
  <2>6. op' = [op EXCEPT ![a] = op[a]]
    BY <1>5, <2>3
  <2>7. HolderOK(op[a], d, k, h)
    BY <1>4
  <2> QED
    BY <1>1, <1>2, <1>3, <1>5, <2>1, <2>2, <2>3, <2>5, <2>6, <2>7, OneTimer
<1>8. ASSUME CanJump(t, c), c.off # offset, ~c.cancel,
             ctx' = [ctx EXCEPT ![t].off = offset], UNCHANGED kq,
             NEW o \in OpType, o.pc \in Holding => o.pc = "rearm" /\ o.t = t,
             op' = [op EXCEPT ![a] = o]
      PROVE  TimerIInv'
  <2> DEFINE d == [c EXCEPT !.off = offset]
  <2>1. /\ d \in CtxType /\ d.off = offset /\ d.force = c.force
        /\ d.type = c.type /\ d.value = c.value /\ d.interval = c.interval
        /\ d.nr = c.nr /\ d.cancel = c.cancel
    BY <1>2 DEF CtxType
  <2>2. ctx' = [ctx EXCEPT ![t] = d]
    BY <1>8 DEF TimerIInv, TimerTypes
  <2>3. CanJump(t, d) /\ Shift(t, d) = Shift(t, c)
    BY <1>8, <2>1 DEF CanJump, Shift
  <2>4. ~HasTaken(o) /\ o.pc # "setcheck"
    BY <1>8 DEF HasTaken, Holding
  <2> HIDE DEF d
  <2>5. HolderOK(o, d, q, h)
    BY <1>8, <2>3 DEF HolderOK, Holding
  <2>6. TimerOK(t, d, q, h, HasTaken(o), o.pc = "setcheck")
    <3> HIDE DEF c, q, h
    <3> QED
      BY <1>2, <1>8, <2>1, <2>3, <2>4 DEF TimerOK, Timely, IsStepped
  <2>7. kq' = [kq EXCEPT ![t] = q]
    BY <1>5, <1>8
  <2> HIDE DEF c, q, h
  <2> QED
    BY <1>1, <1>2, <1>5, <1>8, <2>1, <2>2, <2>5, <2>6, <2>7, OneTimer
<1>9. CASE ChangePending(t, TRUE)
  <2>1. /\ CanJump(t, c) /\ c.off # offset /\ ~c.cancel
        /\ ctx' = [ctx EXCEPT ![t].off = offset] /\ UNCHANGED <<kq, op>>
    BY <1>9 DEF ChangePending
  <2> HIDE DEF c
  <2> QED
    BY <1>1, <1>3, <1>5, <1>8, <2>1
<1>10. CASE ChangeMoves(a, t)
  <2> DEFINE o == [NoOp(t) EXCEPT !.pc = "rearm"]
  <2>1. /\ CanJump(t, c) /\ c.off # offset /\ ~c.cancel
        /\ ctx' = [ctx EXCEPT ![t].off = offset] /\ UNCHANGED kq
        /\ op' = [op EXCEPT ![a] = o]
    BY <1>10 DEF ChangeMoves
  <2>2. o \in OpType /\ o.pc = "rearm" /\ o.t = t
    BY DEF NoOp, OpType, Holding
  <2> HIDE DEF c, o
  <2> QED
    BY <1>8, <2>1, <2>2
<1> QED
  BY <1>6, <1>7, <1>9, <1>10 DEF RealtimeChange

LEMMA ChangeRearmStep ==
  ASSUME TimerIInv, offset \in Int, NEW a \in Actors, ChangeRearm(a, TRUE),
         UNCHANGED <<mono, offset, hist>>,
         todo' \in [Detectors -> SUBSET Timers]
  PROVE  TimerIInv'
<1> DEFINE t == op[a].t
           c == ctx[t]
           q == kq[t]
           h == hist[t]
           k == Rearm(c, q, Clock(t, c.type), TRUE)
<1>1. op[a].pc = "rearm" /\ op[a].pc \in Holding
  BY DEF ChangeRearm, Holding
<1>2. /\ t \in Timers /\ c \in CtxType /\ q \in KqType /\ h \in HistType
      /\ HolderOK(op[a], c, q, h)
      /\ TimerOK(t, c, q, h, HasTaken(op[a]), op[a].pc = "setcheck")
  BY <1>1, HolderFacts
<1>3. ~HasTaken(op[a]) /\ ~HasTaken(NoCall) /\ NoCall.pc # "setcheck"
  BY <1>1, NoCallType DEF HasTaken
<1>4. CanJump(t, c) /\ c.type # "unspecified"
  BY <1>1, <1>2 DEF HolderOK, CanJump
<1>5. c.value # 0
  <2> HIDE DEF c
  <2> QED
    BY <1>2, <1>4 DEF TimerOK
<1>6. /\ mono \in Nat /\ Shift(t, c) \in Int /\ c.value \in Nat
      /\ Clock(t, c.type) = mono + Shift(t, c)
  BY <1>2, ClockShift, CtxFields DEF TimerIInv
<1>7. k = Register(q, c.value, mono + Shift(t, c))
  BY <1>5, <1>6 DEF Rearm, Armed
<1>8. /\ k \in KqType /\ k.at # NoTimer /\ k.at + Shift(t, c) >= c.value
      /\ ~k.fired /\ k.cancel = q.cancel
  <2> HIDE DEF c, q, k, t
  <2>1. /\ Register(q, c.value, mono + Shift(t, c)) \in KqType
        /\ Register(q, c.value, mono + Shift(t, c)).at # NoTimer
        /\ Register(q, c.value, mono + Shift(t, c)).at + Shift(t, c) >= c.value
        /\ ~Register(q, c.value, mono + Shift(t, c)).fired
        /\ Register(q, c.value, mono + Shift(t, c)).cancel = q.cancel
    BY <1>2, <1>6, RegisterFacts
  <2> QED
    BY <1>7, <2>1
<1>9. /\ ctx' = [ctx EXCEPT ![t] = c] /\ kq' = [kq EXCEPT ![t] = k]
      /\ hist' = [hist EXCEPT ![t] = h] /\ op' = [op EXCEPT ![a] = NoCall]
  BY <1>2, Unchanged DEF ChangeRearm, Return, TimerIInv
<1>10. HolderOK(NoCall, c, k, h) /\ NoCall.pc \notin Holding
  BY NoCallType DEF HolderOK, Holding
<1>11. op[a].t = t
  OBVIOUS
<1> HIDE DEF t, c, q, h, k
<1>12. TimerOK(t, c, k, h, HasTaken(NoCall), NoCall.pc = "setcheck")
  BY <1>1, <1>2, <1>3, <1>4, <1>8 DEF TimerOK, Timely
<1> QED
  BY <1>1, <1>2, <1>8, <1>9, <1>10, <1>11, <1>12, NoCallType, OneTimer

-----------------------------------------------------------------------------
(* The world.                                                               *)

\* Time passes: what was in time stays so.
LEMMA TickStep ==
  ASSUME TimerIInv, offset \in Int, Tick
  PROVE  TimerIInv'
<1>1. /\ mono \in Nat /\ mono' = mono + 1 /\ mono' \in 0 .. MAX_TIME
      /\ UNCHANGED <<offset, ctx, kq, op, todo, hist>>
  BY BoundsAssumption DEF Tick, svars, TimerIInv, TimerTypes
<1>2. TimerTypes'
  BY <1>1 DEF TimerIInv, TimerTypes, Mutex
<1>3. TimersOK'
  <2> SUFFICES ASSUME NEW t \in Timers
               PROVE  TimerOK(t, ctx[t], kq[t], hist[t], Taken(t), Setting(t))'
    BY DEF TimersOK
  <2>1. TimerOK(t, ctx[t], kq[t], hist[t], Taken(t), Setting(t))
    BY DEF TimerIInv, TimersOK
  <2>2. (Taken(t)' <=> Taken(t)) /\ (Setting(t)' <=> Setting(t))
    BY <1>1 DEF Taken, Setting
  <2>3. kq[t].at \in 0 .. mono => kq[t].at \in 0 .. mono'
    BY <1>1
  <2> QED
    BY <1>1, <2>1, <2>2, <2>3 DEF TimerOK, Timely, Shift, IsStepped, CanJump
<1>4. HoldersOK'
  <2> SUFFICES ASSUME NEW b \in Actors
               PROVE  HolderOK(op[b], ctx[op[b].t], kq[op[b].t], hist[op[b].t])'
    BY DEF HoldersOK
  <2> DEFINE t == op[b].t
  <2>1. HolderOK(op[b], ctx[t], kq[t], hist[t])
    BY DEF TimerIInv, HoldersOK
  <2>2. t \in Timers /\ ctx[t].value \in Nat /\ Shift(t, ctx[t]) \in Int
    <3>1. t \in Timers /\ ctx[t] \in CtxType
      BY DEF TimerIInv, TimerTypes, OpType
    <3> QED
      BY <3>1, CtxFields, ClockShift DEF TimerIInv
  <2>3. Timely(t, ctx[t], hist[t], mono) => Timely(t, ctx[t], hist[t], mono')
    BY <1>1, <2>2 DEF Timely
  <2> QED
    BY <1>1, <2>1, <2>3 DEF HolderOK, Timely, Shift, CanJump
<1> QED
  BY <1>2, <1>3, <1>4 DEF TimerIInv

\* The clock is set, and every timer's history says so.
LEMMA SetClockStep ==
  ASSUME TimerIInv, SetClock
  PROVE  TimerIInv'
<1>1. UNCHANGED <<mono, ctx, kq, op, todo>>
  BY DEF SetClock
<1>2. /\ hist' \in [Timers -> HistType]
      /\ \A t \in Timers : /\ hist'[t].stepped
                           /\ hist'[t].first = hist[t].first
                           /\ hist'[t].reported = hist[t].reported
                           /\ hist'[t].off = hist[t].off
                           /\ hist'[t].spent = hist[t].spent
  BY DEF SetClock, TimerIInv, TimerTypes, HistType
<1>3. TimerTypes'
  BY <1>1, <1>2 DEF TimerIInv, TimerTypes, Mutex
<1>4. TimersOK'
  <2> SUFFICES ASSUME NEW t \in Timers
               PROVE  TimerOK(t, ctx[t], kq[t], hist[t], Taken(t), Setting(t))'
    BY DEF TimersOK
  <2>1. TimerOK(t, ctx[t], kq[t], hist[t], Taken(t), Setting(t))
    BY DEF TimerIInv, TimersOK
  <2>2. (Taken(t)' <=> Taken(t)) /\ (Setting(t)' <=> Setting(t))
    BY <1>1 DEF Taken, Setting
  <2>3. Timely(t, ctx[t], hist[t], kq[t].at) => Timely(t, ctx[t], hist[t], kq[t].at)'
    BY <1>1, <1>2 DEF Timely, Shift, CanJump
  <2> QED
    BY <1>1, <1>2, <2>1, <2>2, <2>3 DEF TimerOK, CanJump
<1>5. HoldersOK'
  <2> SUFFICES ASSUME NEW b \in Actors
               PROVE  HolderOK(op[b], ctx[op[b].t], kq[op[b].t], hist[op[b].t])'
    BY DEF HoldersOK
  <2>1. HolderOK(op[b], ctx[op[b].t], kq[op[b].t], hist[op[b].t])
    BY DEF TimerIInv, HoldersOK
  <2>2. op[b].t \in Timers
    BY DEF TimerIInv, TimerTypes, OpType
  <2>3. Timely(op[b].t, ctx[op[b].t], hist[op[b].t], mono) =>
          Timely(op[b].t, ctx[op[b].t], hist[op[b].t], mono)'
    BY <1>1, <1>2, <2>2 DEF Timely, Shift, CanJump
  <2> QED
    BY <1>1, <2>1, <2>3 DEF HolderOK, CanJump
<1> QED
  BY <1>3, <1>4, <1>5 DEF TimerIInv

\* Nothing but the step detector, its walks and the bounds.
LEMMA DetectorOnlyStep ==
  ASSUME TimerIInv, UNCHANGED <<mono, offset, ctx, kq, op, hist>>,
         todo' \in [Detectors -> SUBSET Timers]
  PROVE  TimerIInv'
<1>1. TimerTypes'
  BY DEF TimerIInv, TimerTypes, Mutex
<1>2. \A t \in Timers : (Taken(t)' <=> Taken(t)) /\ (Setting(t)' <=> Setting(t))
  BY DEF Taken, Setting
<1>3. TimersOK'
  BY <1>2 DEF TimerIInv, TimersOK, TimerOK, Timely, Shift, IsStepped, CanJump
<1>4. HoldersOK'
  BY DEF TimerIInv, HoldersOK, HolderOK, Timely, Shift, CanJump
<1> QED
  BY <1>1, <1>3, <1>4 DEF TimerIInv

-----------------------------------------------------------------------------
(* All steps.                                                               *)

LEMMA ThreadStepKeeps ==
  ASSUME TimerIInv, offset \in Offsets, NEW a \in Threads, ThreadStep(a)
  PROVE  TimerIInv'
<1>1. a \in Actors /\ offset \in Int
  BY TimersAssumption DEF Actors
<1>2. ASSUME Retry(a) PROVE TimerIInv'
  <2>1. op[a].t \in Timers /\ op[a].pc \notin Holding
    BY <1>1, <1>2 DEF Retry, TimerIInv, TimerTypes, OpType, Holding
  <2>2. ReadDisarmed(a, op[a].t, TRUE) \/ ReadTake(a, op[a].t, TRUE)
    BY <1>2 DEF Retry, Read
  <2> QED
    BY <1>1, <2>1, <2>2, ReadDisarmedStep, ReadTakeStep
<1>3. ASSUME PollRearm(a) PROVE TimerIInv'
  <2>1. /\ ChangeRearm(a, TRUE) /\ UNCHANGED <<mono, offset, hist, todo>>
    BY <1>3 DEF PollRearm, ChangeRearm, svars
  <2>2. todo' \in [Detectors -> SUBSET Timers]
    BY <2>1 DEF TimerIInv, TimerTypes
  <2> QED
    BY <1>1, <2>1, <2>2, ChangeRearmStep
<1> QED
  BY <1>1, <1>2, <1>3, WakeStep, ReadCheckStep, ReadCancelledStep, ReadExpiredStep,
     ReadNothingStep, ReadEarlyStep, SetCheckStep, SetMonitorStep DEF ThreadStep

LEMMA CallKeeps ==
  ASSUME TimerIInv, offset \in Offsets, NEW a \in Callers, NEW t \in Timers, Call(a, t)
  PROVE  TimerIInv'
<1>1. a \in Actors /\ offset \in Int
  BY TimersAssumption DEF Actors, Threads
<1>2. CASE Gettime(a, t)
  BY <1>1, <1>2, GettimeStep
<1>3. CASE Poll(a, t)
  <2>1. UNCHANGED <<mono, offset, hist, todo>>
    BY <1>3 DEF Poll, RealtimeChange, ChangeKnown, ChangeCancels, ChangePending,
      ChangeMoves, svars
  <2>2. RealtimeChange(a, t, TRUE)
    BY <1>3 DEF Poll, RealtimeChange, ChangeKnown, ChangeCancels, ChangePending
  <2>3. todo' \in [Detectors -> SUBSET Timers]
    BY <2>1 DEF TimerIInv, TimerTypes
  <2> QED
    BY <1>1, <2>1, <2>2, <2>3, RealtimeChangeStep
<1>4. ASSUME NEW abs \in BOOLEAN, NEW cancel \in BOOLEAN, NEW value \in Values,
             NEW interval \in Intervals, Settime(a, t, abs, cancel, value, interval)
      PROVE  TimerIInv'
  BY <1>1, <1>4, SettimeStep
<1> QED
  BY <1>2, <1>3, <1>4 DEF Call

LEMMA DetectorStepKeeps ==
  ASSUME TimerIInv, offset \in Offsets, NEW d \in Detectors, DetectorStep(d)
  PROVE  TimerIInv'
<1>1. d \in Actors /\ offset \in Int /\ todo \in [Detectors -> SUBSET Timers]
  BY TimersAssumption DEF Actors, TimerIInv, TimerTypes
<1>2. CASE WalkReads(d)
  <2>1. UNCHANGED <<mono, offset, ctx, kq, op, hist, todo>>
    BY <1>2 DEF WalkReads, DetectorReads
  <2> QED
    BY <1>1, <2>1, DetectorOnlyStep
<1>3. CASE WalkBegins(d)
  <2>1. UNCHANGED <<mono, offset, ctx, kq, op, hist>>
    BY <1>3 DEF WalkBegins, DetectorChecks
  <2>2. todo' = [todo EXCEPT ![d] = Timers] \/ todo' = todo
    BY <1>3 DEF WalkBegins
  <2>3. todo' \in [Detectors -> SUBSET Timers]
    BY <1>1, <2>2
  <2> QED
    BY <2>1, <2>3, DetectorOnlyStep
<1>4. CASE WalkTells(d)
  <2>1. PICK t \in todo[d] : RealtimeChange(d, t, Told(d, t))
    BY <1>4 DEF WalkTells
  <2>2. t \in Timers
    BY <1>1, <2>1
  <2>3. UNCHANGED <<mono, offset, hist>>
    BY <1>4 DEF WalkTells, svars
  <2>4. RealtimeChange(d, t, TRUE)
    BY <2>1 DEF RealtimeChange, ChangeKnown, ChangeCancels, ChangePending
  <2>5. todo' = [todo EXCEPT ![d] = @ \ {t}] \/ todo' = todo
    BY <2>1 DEF RealtimeChange, ChangeKnown, ChangeCancels, ChangePending, ChangeMoves, Told
  <2>6. todo' \in [Detectors -> SUBSET Timers]
    BY <1>1, <2>5
  <2> QED
    BY <1>1, <2>2, <2>3, <2>4, <2>6, RealtimeChangeStep
<1>5. CASE WalkRearms(d)
  <2>1. ChangeRearm(d, TRUE) /\ UNCHANGED <<mono, offset, hist>>
    BY <1>5 DEF WalkRearms, ChangeRearm, svars
  <2>2. todo' = [todo EXCEPT ![d] = @ \ {op[d].t}]
    BY <1>5 DEF WalkRearms, ChangeRearm, Told
  <2>3. todo' \in [Detectors -> SUBSET Timers]
    BY <1>1, <2>2
  <2> QED
    BY <1>1, <2>1, <2>3, ChangeRearmStep
<1>6. CASE WalkEnds(d)
  <2>1. UNCHANGED <<mono, offset, ctx, kq, op, hist, todo>>
    BY <1>6 DEF WalkEnds, DetectorWalked
  <2> QED
    BY <1>1, <2>1, DetectorOnlyStep
<1> QED
  BY <1>2, <1>3, <1>4, <1>5, <1>6 DEF DetectorStep

LEMMA TimerNext == TimerIInv /\ offset \in Offsets /\ [Next]_vars => TimerIInv'
<1> SUFFICES ASSUME TimerIInv, offset \in Offsets, [Next]_vars PROVE TimerIInv'
  OBVIOUS
<1>0. offset \in Int
  BY TimersAssumption
<1>1. ASSUME NEW a \in Threads, ThreadStep(a) PROVE TimerIInv'
  BY <1>1, ThreadStepKeeps
<1>2. ASSUME NEW a \in Readers, NEW t \in Timers, ReadCall(a, t) PROVE TimerIInv'
  <2>1. PICK block \in BOOLEAN : ReadDisarmed(a, t, block) \/ ReadTake(a, t, block)
    BY <1>2 DEF ReadCall, Read
  <2>2. a \in Actors /\ op[a].pc \notin Holding
    BY <1>2 DEF ReadCall, Idle, Actors, Threads, Holding
  <2> QED
    BY <1>0, <2>1, <2>2, ReadDisarmedStep, ReadTakeStep
<1>3. ASSUME NEW a \in Callers, NEW t \in Timers, Call(a, t) PROVE TimerIInv'
  BY <1>3, CallKeeps
<1>4. ASSUME NEW t \in Timers, Close(t) \/ Fire(t) PROVE TimerIInv'
  BY <1>4, CloseStep, FireStep
<1>5. ASSUME NEW d \in Detectors, DetectorStep(d) PROVE TimerIInv'
  BY <1>5, DetectorStepKeeps
<1>6. CASE Tick
  BY <1>0, <1>6, TickStep
<1>7. CASE SetClock
  BY <1>7, SetClockStep
<1>8. CASE UNCHANGED vars
  <2>1. UNCHANGED <<mono, offset, ctx, kq, op, hist, todo>>
    BY <1>8 DEF vars, svars
  <2>2. todo' \in [Detectors -> SUBSET Timers]
    BY <2>1 DEF TimerIInv, TimerTypes
  <2> QED
    BY <2>1, <2>2, DetectorOnlyStep
<1> QED
  BY <1>1, <1>2, <1>3, <1>4, <1>5, <1>6, <1>7, <1>8 DEF Next

-----------------------------------------------------------------------------
(* TimerFD implements StepDetector.                                         *)

\* Every step of a timer, a thread or the clock is a step of the step detector, or
\* none of its business.
LEMMA StepSimulation ==
  ASSUME TimerTypes, [Next]_vars
  PROVE  [StepNext]_svars
<1>1. ASSUME NEW a \in Threads, ThreadStep(a) PROVE [StepNext]_svars
  <2>1. CASE SetMonitor(a)
    <3>1. op[a].t \in Timers /\ op[a].abs \in BOOLEAN
      BY DEF TimerTypes, OpType, Actors
    <3> QED
      BY <2>1, <3>1 DEF SetMonitor, StepNext
  <2>2. CASE ~SetMonitor(a)
    <3>1. UNCHANGED svars
      BY <1>1, <2>2 DEF ThreadStep, Wake, Retry, Read, ReadDisarmed, ReadTake,
        ReadCheck, ReadCancelled, ReadExpired, ReadNothing, ReadEarly, Finish,
        SetCheck, PollRearm
    <3> QED
      BY <3>1
  <2> QED
    BY <2>1, <2>2
<1>2. ASSUME NEW a \in Readers, NEW t \in Timers, ReadCall(a, t)
      PROVE  [StepNext]_svars
  BY <1>2 DEF ReadCall, Read, ReadDisarmed, ReadTake
<1>3. ASSUME NEW a \in Callers, NEW t \in Timers, Call(a, t)
      PROVE  [StepNext]_svars
  BY <1>3 DEF Call, Gettime, Poll, Settime
<1>4. ASSUME NEW t \in Timers, Close(t) PROVE [StepNext]_svars
  BY <1>4 DEF Close, StepNext
<1>5. ASSUME NEW t \in Timers, Fire(t) PROVE [StepNext]_svars
  BY <1>5 DEF Fire
<1>6. ASSUME NEW d \in Detectors, DetectorStep(d) PROVE [StepNext]_svars
  BY <1>6 DEF DetectorStep, WalkReads, WalkBegins, WalkTells, WalkRearms, WalkEnds,
    StepNext
<1>7. CASE Tick
  BY <1>7 DEF Tick
<1>8. CASE SetClock
  BY <1>8 DEF SetClock, StepNext
<1>9. CASE UNCHANGED vars
  BY <1>9 DEF vars
<1> QED
  BY <1>1, <1>2, <1>3, <1>4, <1>5, <1>6, <1>7, <1>8, <1>9 DEF Next

\* The inductive invariant: the step detector's and the timers'.
THEOREM TimerInvariance == Spec => [](TimerIInv /\ StepIInv)
<1>1. Init => TimerIInv /\ StepIInv
  BY TimerInit, StepInitIInv DEF Init
<1>2. TimerIInv /\ StepIInv /\ [Next]_vars => TimerIInv' /\ StepIInv'
  <2> SUFFICES ASSUME TimerIInv, StepIInv, [Next]_vars
               PROVE  TimerIInv' /\ StepIInv'
    OBVIOUS
  <2>1. offset \in Offsets
    BY DEF StepIInv, StepTypeOK
  <2>2. [StepNext]_svars
    BY StepSimulation DEF TimerIInv
  <2> QED
    BY <2>1, <2>2, TimerNext, StepNextIInv
<1> QED
  BY <1>1, <1>2, PTL DEF Spec

\* The timers use the step detector as StepDetector says, so that what is shown
\* there holds of them.
THEOREM Refinement == Spec => StepSpec
<1>1. Init => StepInit
  BY DEF Init
<1>2. TimerIInv /\ [Next]_vars => [StepNext]_svars
  BY StepSimulation DEF TimerIInv
<1> QED
  BY <1>1, <1>2, TimerInvariance, PTL DEF Spec, StepSpec

\* However calls on timers, their closing and clock changes interleave, at most one
\* step detector goes on, and none without a timer to tell.
THEOREM OneDetectorKept == Spec => []OneDetector
<1> QED
  BY Refinement, StepOneDetector, PTL

-----------------------------------------------------------------------------
(* What the inductive invariant says while a mutex is free, or held.        *)

LEMMA TimerImplies ==
  ASSUME TimerIInv, StepIInv
  PROVE  TimerInv
<1>0. offset \in Offsets /\ offset \in Int
  BY TimersAssumption DEF StepIInv, StepTypeOK
<1>1. TypeOK
  BY DEF TypeOK, StepIInv, TimerIInv, TimerTypes, KqType, OpType, Mutex
<1>2. ArmedIsScheduled
  <2> SUFFICES ASSUME NEW t \in Timers, Free(t), Armed(ctx[t]), ~hist[t].spent
               PROVE  /\ kq[t].at # NoTimer
                      /\ CanJump(t, ctx[t]) \/ ctx[t].nr > 0
                           \/ kq[t].at >= ctx[t].value
    BY DEF ArmedIsScheduled
  <2>1. /\ TimerOK(t, ctx[t], kq[t], hist[t], FALSE, FALSE)
        /\ kq[t] \in KqType
    BY FreeFacts
  <2>2. kq[t].at # NoTimer /\ Timely(t, ctx[t], hist[t], kq[t].at)
    BY <2>1 DEF TimerOK, Armed
  <2>3. kq[t].at \in Nat
    BY <2>1, <2>2 DEF KqType
  <2> QED
    BY <2>2, <2>3 DEF Timely, Shift
<1>3. DisarmedIsQuiet
  <2> SUFFICES ASSUME NEW t \in Timers, Free(t), ctx[t].type = "unspecified",
                      ctx[t].nr = 0
               PROVE  kq[t].at = NoTimer
    BY DEF DisarmedIsQuiet
  <2>1. TimerOK(t, ctx[t], kq[t], hist[t], FALSE, FALSE)
    BY FreeFacts
  <2> QED
    BY <2>1 DEF TimerOK
<1>4. ASSUME NEW t \in Timers
      PROVE  TimerOK(t, ctx[t], kq[t], hist[t], Taken(t), Setting(t))
  BY DEF TimerIInv, TimersOK
<1>5. ExpirationsAddUp
  BY <1>4 DEF TimerOK, ExpirationsAddUp
<1>6. StepNotForgotten
  <2> SUFFICES ASSUME NEW t \in Timers, ctx[t].cancel, CanJump(t, ctx[t]),
                      ctx[t].off # hist[t].off,
                      \A a \in Actors : op[a].t = t => op[a].pc # "setcheck"
               PROVE  ctx[t].force
    BY DEF StepNotForgotten
  <2>1. ~Setting(t)
    BY DEF Setting
  <2> QED
    BY <1>4, <2>1 DEF TimerOK
<1>7. ASSUME NEW a \in Threads, op[a].pc = "clock", ~op[a].cancelled,
             op[a].got # "none", ReadNow(a).nr = 0
      PROVE  /\ op[a].got = "timer"
             /\ ReadNow(a) = ctx[op[a].t]
             /\ CanJump(op[a].t, ctx[op[a].t])
             /\ hist[op[a].t].stepped
  <2> DEFINE t == op[a].t
             c == ctx[t]
  <2>1. a \in Actors
    BY DEF Actors
  <2>2. /\ t \in Timers /\ op[a] \in OpType /\ c \in CtxType
        /\ HolderOK(op[a], c, kq[t], hist[t])
        /\ TimerOK(t, c, kq[t], hist[t], HasTaken(op[a]), FALSE)
        /\ Clock(t, c.type) \in Int /\ mono \in Nat
        /\ Clock(t, c.type) = mono + Shift(t, c)
        /\ ReadNow(a) = CatchUp(c, Clock(t, c.type))
    BY <1>0, <1>7, <2>1, ReadNowFacts
  <2>3. op[a].got = "timer"
    BY <1>7, <2>2 DEF HolderOK, OpType
  <2>4. /\ c.type # "unspecified" /\ Timely(t, c, hist[t], mono)
    BY <1>7, <2>2, <2>3 DEF HolderOK
  <2>5. c.value # 0
    <3> HIDE DEF c, t
    <3> QED
      BY <2>2, <2>4 DEF TimerOK
  <2>6. ReadNow(a) = c /\ c.nr = 0 /\ Clock(t, c.type) < c.value
    <3>1. CatchUp(c, Clock(t, c.type)).nr = 0
      BY <1>7, <2>2
    <3> HIDE DEF c, t
    <3> QED
      BY <2>2, <2>5, <3>1, CatchUpNothing
  <2>7. c.value \in Nat /\ Shift(t, c) \in Int
    BY <1>0, <2>2, CtxFields, ClockShift DEF TimerIInv
  <2>8. CanJump(t, c) /\ hist[t].stepped
    <3> HIDE DEF c, t
    <3> QED
      BY <2>2, <2>4, <2>6, <2>7 DEF Timely
  <2> QED
    BY <2>3, <2>6, <2>8
<1>8. ReadAssertions
  BY <1>7 DEF ReadAssertions
<1>9. OnlyStepsCancel
  <2>1. ASSUME NEW a \in Threads, op[a].pc = "check",
               IsCancelled(op[a].t, ctx[op[a].t])
        PROVE  hist[op[a].t].stepped
    <3>1. a \in Actors /\ op[a].pc \in Holding
      BY <2>1 DEF Actors, Holding
    <3>2. TimerOK(op[a].t, ctx[op[a].t], kq[op[a].t], hist[op[a].t],
                  HasTaken(op[a]), op[a].pc = "setcheck")
      BY <3>1, HolderFacts
    <3>3. IsStepped(op[a].t, ctx[op[a].t])
      BY <2>1 DEF IsCancelled
    <3> QED
      BY <2>1, <3>2, <3>3 DEF TimerOK
  <2> QED
    BY <1>7, <2>1 DEF OnlyStepsCancel
<1> QED
  BY <1>1, <1>2, <1>3, <1>5, <1>6, <1>8, <1>9 DEF TimerInv, StepIInv

\* timerfd_ctx.c keeps a timer and its kqueue in agreement, adds expirations up,
\* neither loses nor makes up a cancellation and never trips over its own
\* assertions: for any timers, threads, times and clock changes.
THEOREM TimerKept == Spec => []TimerInv
<1> QED
  BY TimerInvariance, TimerImplies, PTL

=============================================================================
