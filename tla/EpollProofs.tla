---------------------------- MODULE EpollProofs ----------------------------
(***************************************************************************)
(* The safety properties of EpollWait for any finite set of threads and    *)
(* any set of files.  The mutex says which thread may be where (MutexInv); *)
(* the counter counts the pollers (PollersCounted); so trigger_repoll goes *)
(* on only when nobody polls, and until then it owns the mutex: a stale    *)
(* snapshot exists only while somebody is inside trigger_repoll (FreshInv).*)
(*                                                                         *)
(* Then those of EpollFilters, for any kinds of file and any registrations *)
(* that leave EPOLLPRI alone (NoOobBack).  FInv says what each variable    *)
(* may be; WatchInv that a node has the filters it needs, and that each of *)
(* them is pending, or its event is under way, when what it hears of is so.*)
(***************************************************************************)
EXTENDS EpollWait, EpollFilters, FiniteSetTheorems, TLAPS

\* Where a thread is inside epollfd_ctx__trigger_repoll, waiting.
Repolling == {"repoll", "trigger", "drain", "asleep"}

Owning == {"nval", "kevent", "oneshot", "after"} \cup Repolling

Current == [f \in poll_fds |-> nodes[f].events]

Pollers == {t \in Threads : pc[t] \in Polling}

\* A thread is in a section of desc->mutex exactly if it owns it.
MutexInv == \A t \in Threads : pc[t] \in Owning <=> mutex = t

\* A node that trigger_repoll's caller is about to drop is off the list.
TakenOff ==
  \A t \in Threads :
    /\ pc[t] \in {"after"} \cup Repolling <=> then[t] # "none"
    /\ then[t] \notin {"none", "ctl"} => arg[t] \notin poll_fds

\* A snapshot is old only while somebody is inside trigger_repoll.
FreshInv ==
  (\A u \in Threads : pc[u] \notin Repolling) =>
    \A t \in Threads : pc[t] = "ppoll" => pfds[t] = Current

IInv ==
  /\ TypeOK
  /\ PollersCounted
  /\ MutexInv
  /\ TakenOff
  /\ FreshInv
  /\ NoDanglingEvent

\* The pollers are counted one by one: 0 means that there are none.
LEMMA PollersFinite == IsFiniteSet(Pollers)
BY FS_Subset, ThreadsAssumption DEF Pollers

LEMMA NoPollers ==
  ASSUME PollersCounted, nr_polling_threads = 0
  PROVE  Pollers = {}
BY PollersFinite, FS_EmptySet DEF PollersCounted, Pollers

\* A node that was not on the list leaves it as it is, and nobody is waited for.
LEMMA TakeOffMisses ==
  ASSUME TypeOK, NEW t \in Threads, NEW f, NEW next,
         TakeOff(t, f, next), pc'[t] # "repoll"
  PROVE  poll_fds' = poll_fds
<1>1. f \notin poll_fds
  BY DEF TypeOK, TakeOff, Goto
<1> QED
  BY <1>1 DEF TakeOff

-----------------------------------------------------------------------------
\* Every step keeps every variable of its type.
LEMMA NextType == IInv /\ [Next]_vars => TypeOK'
<1> SUFFICES ASSUME IInv, [Next]_vars PROVE TypeOK'
  OBVIOUS
<1> USE DEF IInv, TypeOK, Labels, Polling, Nodes, MutexInv, Owning, Repolling
<1>1. ASSUME NEW t \in Threads, NEW f \in Files, NEW reg \in Registrations,
             CtlRegister(t, f, reg)
      PROVE TypeOK'
  <2>1. reg \in Nodes
    BY BoundsAssumption
  <2> QED
    BY <1>1, <2>1
       DEF CtlRegister, CtlLock, Register, Goto, kernel, epollfd, kq, locals
<1>2. ASSUME NEW t \in Threads, NEW f \in Files, CtlRemove(t, f)
      PROVE TypeOK'
  BY <1>2 DEF CtlRemove, CtlLock, TakeOff, Goto, kernel, epollfd, kq, locals
<1>3. ASSUME NEW t \in Threads, CountPollers(t) PROVE TypeOK'
  BY <1>3 DEF CountPollers, Goto, kernel, epollfd, kq, locals
<1>4. ASSUME NEW t \in Threads, TriggerSelf(t) PROVE TypeOK'
  BY <1>4 DEF TriggerSelf, Goto, kernel, epollfd, kq, locals
<1>5. ASSUME NEW t \in Threads, AwaitPollers(t) PROVE TypeOK'
  BY <1>5 DEF AwaitPollers, Goto, kernel, epollfd, kq, locals
<1>6. ASSUME NEW t \in Threads, AfterCtl(t) PROVE TypeOK'
  BY <1>6 DEF AfterCtl, Unlock, Goto, Done, kernel, epollfd, kq, locals
<1>7. ASSUME NEW t \in Threads, AfterRemove(t) PROVE TypeOK'
  <2>1. arg[t] \notin poll_fds
    BY <1>7 DEF AfterRemove, TakenOff
  <2> QED
    BY <1>7, <2>1 DEF AfterRemove, Unlock, Goto, Done, DropNode, kernel, kq
<1>8. ASSUME NEW t \in Threads, AfterNval(t) PROVE TypeOK'
  <2>1. arg[t] \notin poll_fds
    BY <1>8 DEF AfterNval, TakenOff
  <2> QED
    BY <1>8, <2>1 DEF AfterNval, Goto, Done, DropNode, kernel, kq
<1>9. ASSUME NEW t \in Threads, AfterOneshot(t) PROVE TypeOK'
  BY <1>9 DEF AfterOneshot, Goto, Done, kernel, epollfd, kq, locals
<1>10. ASSUME NEW t \in Threads, RemoveInvalid(t) PROVE TypeOK'
  BY <1>10 DEF RemoveInvalid, TakeOff, Goto, kernel, epollfd, kq, locals
<1>11. ASSUME NEW t \in Threads, NEW cnt \in 1 .. MaxEvents,
              NEW batch \in SUBSET Pending, Collect(t, cnt, batch)
       PROVE  TypeOK'
  <2>1. batch \ {NoFile} \subseteq Files
    BY DEF Pending
  <2>2. todo' \in [Threads -> SUBSET Files]
    BY <1>11, <2>1 DEF Collect
  <2> QED
    BY <1>11, <2>2 DEF Collect, Nothing, Goto, kernel, epollfd, kq, locals
<1>12. ASSUME NEW t \in Threads, Disarm(t) PROVE TypeOK'
  BY <1>12, SMTT(60) DEF Disarm, Unlock, TakeOff, Goto, kernel, epollfd, kq, locals
<1>13. ASSUME NEW t \in Threads, PollNothing(t) PROVE TypeOK'
  BY <1>13 DEF PollNothing, Nothing, Goto, kernel, epollfd, kq, locals
<1>14. ASSUME NEW t \in Threads, PollSome(t) PROVE TypeOK'
  BY <1>14 DEF PollSome, Goto, kernel, epollfd, kq, locals
<1>15. ASSUME NEW t \in Threads, Block(t) PROVE TypeOK'
  BY <1>15 DEF Block, Goto, kernel, epollfd, kq, locals
<1>16. ASSUME NEW t \in Threads, PpollReturns(t) PROVE TypeOK'
  BY <1>16 DEF PpollReturns, Goto, kernel, epollfd, kq, locals
<1>17. ASSUME NEW t \in Threads, Leave(t) PROVE TypeOK'
  <2>1. nr_polling_threads' \in Nat
    <3>1. t \in Pollers
      BY <1>17 DEF Leave, Pollers
    <3>2. nr_polling_threads # 0
      BY <3>1, NoPollers
    <3> QED
      BY <1>17, <3>2 DEF Leave
  <2>2. pc' \in [Threads -> Labels]
    BY <1>17 DEF Leave
  <2> QED
    BY <1>17, <2>1, <2>2 DEF Leave, kernel, epollfd, kq
<1>18. ASSUME NEW t \in Threads, PpollEnds(t) PROVE TypeOK'
  BY <1>18 DEF PpollEnds, Goto, kernel, epollfd, kq, locals
<1>19. ASSUME NEW t \in Threads, WaitCall(t) PROVE TypeOK'
  BY <1>19 DEF WaitCall, Goto, kernel, epollfd, kq, locals
<1>20. ASSUME NEW f \in Files, CloseFile(f) PROVE TypeOK'
  BY <1>20 DEF CloseFile, kernel, epollfd, kq, locals
<1>21. ASSUME NEW f \in Files, NEW evs \in SUBSET Events, SetReady(f, evs)
      PROVE TypeOK'
  BY <1>21 DEF SetReady, kernel, epollfd, kq, locals
<1>22. CASE UNCHANGED vars
  BY <1>22 DEF vars, kernel, epollfd, kq, locals
<1> QED
  BY <1>1, <1>2, <1>3, <1>4, <1>5, <1>6, <1>7, <1>8, <1>9, <1>10, <1>11, <1>12, <1>13, <1>14, <1>15, <1>16, <1>17, <1>18, <1>19, <1>20, <1>21, <1>22
  DEF Next, Ctl, Owner, Waiter

\* Every step leaves at most one thread in a section of desc->mutex.
LEMMA NextMutex == IInv /\ [Next]_vars => MutexInv'
<1> SUFFICES ASSUME IInv, [Next]_vars PROVE MutexInv'
  OBVIOUS
<1> USE DEF IInv, TypeOK, Labels, Polling, MutexInv, Owning, Repolling
<1>0. NoThread \notin Threads
  BY ThreadsAssumption
<1>1. ASSUME NEW t \in Threads, NEW f \in Files, NEW reg \in Registrations,
             CtlRegister(t, f, reg)
      PROVE MutexInv'
  <2> SUFFICES ASSUME NEW u \in Threads
               PROVE  pc'[u] \in Owning <=> mutex' = u
    OBVIOUS
  <2>1. CASE u = t
    BY <1>0, <1>1, <2>1 DEF CtlRegister, CtlLock, Register, Goto
  <2>2. CASE u # t
    <3>1. pc'[u] = pc[u]
      BY <1>1, <2>2 DEF CtlRegister, CtlLock, Register, Goto
    <3>2. mutex # u /\ mutex' # u
      BY <1>0, <1>1, <2>2 DEF CtlRegister, CtlLock, Register, Goto
    <3> QED
      BY <3>1, <3>2
  <2> QED
    BY <2>1, <2>2
<1>2. ASSUME NEW t \in Threads, NEW f \in Files, CtlRemove(t, f)
      PROVE MutexInv'
  <2> SUFFICES ASSUME NEW u \in Threads
               PROVE  pc'[u] \in Owning <=> mutex' = u
    OBVIOUS
  <2>1. CASE u = t
    BY <1>0, <1>2, <2>1 DEF CtlRemove, CtlLock, TakeOff, Goto
  <2>2. CASE u # t
    <3>1. pc'[u] = pc[u]
      BY <1>2, <2>2 DEF CtlRemove, CtlLock, TakeOff, Goto
    <3>2. mutex # u /\ mutex' # u
      BY <1>0, <1>2, <2>2 DEF CtlRemove, CtlLock, TakeOff, Goto
    <3> QED
      BY <3>1, <3>2
  <2> QED
    BY <2>1, <2>2
<1>3. ASSUME NEW t \in Threads, CountPollers(t) PROVE MutexInv'
  BY <1>3 DEF CountPollers, Goto, kernel, epollfd, kq, locals
<1>4. ASSUME NEW t \in Threads, TriggerSelf(t) PROVE MutexInv'
  BY <1>4 DEF TriggerSelf, Goto, kernel, epollfd, kq, locals
<1>5. ASSUME NEW t \in Threads, AwaitPollers(t) PROVE MutexInv'
  BY <1>5 DEF AwaitPollers, Goto, kernel, epollfd, kq, locals
<1>6. ASSUME NEW t \in Threads, AfterCtl(t) PROVE MutexInv'
  <2> SUFFICES ASSUME NEW u \in Threads
               PROVE  pc'[u] \in Owning <=> mutex' = u
    OBVIOUS
  <2>1. CASE u = t
    BY <1>0, <1>6, <2>1 DEF AfterCtl, Unlock, Goto
  <2>2. CASE u # t
    <3>1. pc'[u] = pc[u]
      BY <1>6, <2>2 DEF AfterCtl, Unlock, Goto
    <3>2. mutex # u /\ mutex' # u
      BY <1>0, <1>6, <2>2 DEF AfterCtl, Unlock, Goto
    <3> QED
      BY <3>1, <3>2
  <2> QED
    BY <2>1, <2>2
<1>7. ASSUME NEW t \in Threads, AfterRemove(t) PROVE MutexInv'
  <2> SUFFICES ASSUME NEW u \in Threads
               PROVE  pc'[u] \in Owning <=> mutex' = u
    OBVIOUS
  <2>1. CASE u = t
    BY <1>0, <1>7, <2>1 DEF AfterRemove, Unlock, Goto
  <2>2. CASE u # t
    <3>1. pc'[u] = pc[u]
      BY <1>7, <2>2 DEF AfterRemove, Unlock, Goto
    <3>2. mutex # u /\ mutex' # u
      BY <1>0, <1>7, <2>2 DEF AfterRemove, Unlock, Goto
    <3> QED
      BY <3>1, <3>2
  <2> QED
    BY <2>1, <2>2
<1>8. ASSUME NEW t \in Threads, AfterNval(t) PROVE MutexInv'
  BY <1>8 DEF AfterNval, Goto, Done, DropNode, kernel, epollfd, kq, locals
<1>9. ASSUME NEW t \in Threads, AfterOneshot(t) PROVE MutexInv'
  BY <1>9 DEF AfterOneshot, Goto, Done, kernel, epollfd, kq, locals
<1>10. ASSUME NEW t \in Threads, RemoveInvalid(t) PROVE MutexInv'
  BY <1>10 DEF RemoveInvalid, TakeOff, Goto, kernel, epollfd, kq, locals
<1>11. ASSUME NEW t \in Threads, NEW cnt \in 1 .. MaxEvents,
              NEW batch \in SUBSET Pending, Collect(t, cnt, batch)
       PROVE  MutexInv'
  <2> SUFFICES ASSUME NEW u \in Threads
               PROVE  pc'[u] \in Owning <=> mutex' = u
    OBVIOUS
  <2>1. CASE u = t
    BY <1>0, <1>11, <2>1 DEF Collect, Nothing, Goto
  <2>2. CASE u # t
    <3>1. pc'[u] = pc[u]
      BY <1>11, <2>2 DEF Collect, Nothing, Goto
    <3>2. mutex # u /\ mutex' # u
      BY <1>0, <1>11, <2>2 DEF Collect, Nothing, Goto
    <3> QED
      BY <3>1, <3>2
  <2> QED
    BY <2>1, <2>2
<1>12. ASSUME NEW t \in Threads, Disarm(t) PROVE MutexInv'
  <2> SUFFICES ASSUME NEW u \in Threads
               PROVE  pc'[u] \in Owning <=> mutex' = u
    OBVIOUS
  <2>1. CASE u = t
    BY <1>0, <1>12, <2>1 DEF Disarm, Unlock, TakeOff, Goto
  <2>2. CASE u # t
    <3>1. pc'[u] = pc[u]
      BY <1>12, <2>2 DEF Disarm, Unlock, TakeOff, Goto
    <3>2. mutex # u /\ mutex' # u
      BY <1>0, <1>12, <2>2 DEF Disarm, Unlock, TakeOff, Goto
    <3> QED
      BY <3>1, <3>2
  <2> QED
    BY <2>1, <2>2
<1>13. ASSUME NEW t \in Threads, PollNothing(t) PROVE MutexInv'
  BY <1>13 DEF PollNothing, Nothing, Goto, kernel, epollfd, kq, locals
<1>14. ASSUME NEW t \in Threads, PollSome(t) PROVE MutexInv'
  <2> SUFFICES ASSUME NEW u \in Threads
               PROVE  pc'[u] \in Owning <=> mutex' = u
    OBVIOUS
  <2>1. CASE u = t
    BY <1>0, <1>14, <2>1 DEF PollSome, Goto
  <2>2. CASE u # t
    <3>1. pc'[u] = pc[u]
      BY <1>14, <2>2 DEF PollSome, Goto
    <3>2. mutex # u /\ mutex' # u
      BY <1>0, <1>14, <2>2 DEF PollSome, Goto
    <3> QED
      BY <3>1, <3>2
  <2> QED
    BY <2>1, <2>2
<1>15. ASSUME NEW t \in Threads, Block(t) PROVE MutexInv'
  BY <1>15 DEF Block, Goto, kernel, epollfd, kq, locals
<1>16. ASSUME NEW t \in Threads, PpollReturns(t) PROVE MutexInv'
  BY <1>16 DEF PpollReturns, Goto, kernel, epollfd, kq, locals
<1>17. ASSUME NEW t \in Threads, Leave(t) PROVE MutexInv'
  BY <1>17 DEF Leave, kernel, epollfd, kq, locals
<1>18. ASSUME NEW t \in Threads, PpollEnds(t) PROVE MutexInv'
  BY <1>18 DEF PpollEnds, Goto, kernel, epollfd, kq, locals
<1>19. ASSUME NEW t \in Threads, WaitCall(t) PROVE MutexInv'
  BY <1>19 DEF WaitCall, Goto, kernel, epollfd, kq, locals
<1>20. ASSUME NEW f \in Files, CloseFile(f) PROVE MutexInv'
  BY <1>20 DEF CloseFile, kernel, epollfd, kq, locals
<1>21. ASSUME NEW f \in Files, NEW evs \in SUBSET Events, SetReady(f, evs)
      PROVE MutexInv'
  BY <1>21 DEF SetReady, kernel, epollfd, kq, locals
<1>22. CASE UNCHANGED vars
  BY <1>22 DEF vars, kernel, epollfd, kq, locals
<1> QED
  BY <1>1, <1>2, <1>3, <1>4, <1>5, <1>6, <1>7, <1>8, <1>9, <1>10, <1>11, <1>12, <1>13, <1>14, <1>15, <1>16, <1>17, <1>18, <1>19, <1>20, <1>21, <1>22
  DEF Next, Ctl, Owner, Waiter

\* No step puts a node back on the list while its removal is under way.
LEMMA NextTakenOff == IInv /\ [Next]_vars => TakenOff'
<1> SUFFICES ASSUME IInv, [Next]_vars PROVE TakenOff'
  OBVIOUS
<1> USE DEF IInv, TypeOK, MutexInv, TakenOff, Owning, Repolling, Labels, Polling
<1>1. ASSUME NEW t \in Threads, NEW f \in Files, NEW reg \in Registrations,
             CtlRegister(t, f, reg)
      PROVE TakenOff'
  <2> SUFFICES ASSUME NEW u \in Threads
               PROVE  /\ pc'[u] \in {"after"} \cup Repolling <=> then'[u] # "none"
                      /\ then'[u] \notin {"none", "ctl"} =>
                           arg'[u] \notin poll_fds'
    OBVIOUS
  <2>1. CASE u = t
    BY <1>1, <2>1 DEF CtlRegister, Register, Goto
  <2>2. CASE u # t
    <3>1. pc[u] \notin Owning
      BY <1>1, ThreadsAssumption DEF CtlRegister, CtlLock
    <3>2. then[u] = "none"
      BY <3>1
    <3> QED
      BY <1>1, <2>2, <3>1, <3>2 DEF CtlRegister, Register, Goto
  <2> QED
    BY <2>1, <2>2
<1>2. ASSUME NEW t \in Threads, NEW f \in Files, CtlRemove(t, f)
      PROVE TakenOff'
  BY <1>2 DEF CtlRemove, CtlLock, TakeOff, Goto, kernel, epollfd, kq, locals
<1>3. ASSUME NEW t \in Threads, CountPollers(t) PROVE TakenOff'
  BY <1>3 DEF CountPollers, Goto, kernel, epollfd, kq, locals
<1>4. ASSUME NEW t \in Threads, TriggerSelf(t) PROVE TakenOff'
  BY <1>4 DEF TriggerSelf, Goto, kernel, epollfd, kq, locals
<1>5. ASSUME NEW t \in Threads, AwaitPollers(t) PROVE TakenOff'
  BY <1>5 DEF AwaitPollers, Goto, kernel, epollfd, kq, locals
<1>6. ASSUME NEW t \in Threads, AfterCtl(t) PROVE TakenOff'
  BY <1>6 DEF AfterCtl, Unlock, Goto, Done, kernel, epollfd, kq, locals
<1>7. ASSUME NEW t \in Threads, AfterRemove(t) PROVE TakenOff'
  BY <1>7 DEF AfterRemove, Unlock, Goto, Done, DropNode, kernel, epollfd, kq, locals
<1>8. ASSUME NEW t \in Threads, AfterNval(t) PROVE TakenOff'
  BY <1>8 DEF AfterNval, Goto, Done, DropNode, kernel, epollfd, kq, locals
<1>9. ASSUME NEW t \in Threads, AfterOneshot(t) PROVE TakenOff'
  BY <1>9 DEF AfterOneshot, Goto, Done, kernel, epollfd, kq, locals
<1>10. ASSUME NEW t \in Threads, RemoveInvalid(t) PROVE TakenOff'
  BY <1>10 DEF RemoveInvalid, TakeOff, Goto, kernel, epollfd, kq, locals
<1>11. ASSUME NEW t \in Threads, NEW cnt \in 1 .. MaxEvents,
              NEW batch \in SUBSET Pending, Collect(t, cnt, batch)
       PROVE  TakenOff'
  BY <1>11 DEF Collect, Nothing, Goto, kernel, epollfd, kq, locals
<1>12. ASSUME NEW t \in Threads, Disarm(t) PROVE TakenOff'
  BY <1>12 DEF Disarm, Unlock, TakeOff, Goto, kernel, epollfd, kq, locals
<1>13. ASSUME NEW t \in Threads, PollNothing(t) PROVE TakenOff'
  BY <1>13 DEF PollNothing, Nothing, Goto, kernel, epollfd, kq, locals
<1>14. ASSUME NEW t \in Threads, PollSome(t) PROVE TakenOff'
  BY <1>14 DEF PollSome, Goto, kernel, epollfd, kq, locals
<1>15. ASSUME NEW t \in Threads, Block(t) PROVE TakenOff'
  BY <1>15 DEF Block, Goto, kernel, epollfd, kq, locals
<1>16. ASSUME NEW t \in Threads, PpollReturns(t) PROVE TakenOff'
  BY <1>16 DEF PpollReturns, Goto, kernel, epollfd, kq, locals
<1>17. ASSUME NEW t \in Threads, Leave(t) PROVE TakenOff'
  BY <1>17 DEF Leave, kernel, epollfd, kq, locals
<1>18. ASSUME NEW t \in Threads, PpollEnds(t) PROVE TakenOff'
  BY <1>18 DEF PpollEnds, Goto, kernel, epollfd, kq, locals
<1>19. ASSUME NEW t \in Threads, WaitCall(t) PROVE TakenOff'
  BY <1>19 DEF WaitCall, Goto, kernel, epollfd, kq, locals
<1>20. ASSUME NEW f \in Files, CloseFile(f) PROVE TakenOff'
  BY <1>20 DEF CloseFile, kernel, epollfd, kq, locals
<1>21. ASSUME NEW f \in Files, NEW evs \in SUBSET Events, SetReady(f, evs)
      PROVE TakenOff'
  BY <1>21 DEF SetReady, kernel, epollfd, kq, locals
<1>22. CASE UNCHANGED vars
  BY <1>22 DEF vars, kernel, epollfd, kq, locals
<1> QED
  BY <1>1, <1>2, <1>3, <1>4, <1>5, <1>6, <1>7, <1>8, <1>9, <1>10, <1>11, <1>12, <1>13, <1>14, <1>15, <1>16, <1>17, <1>18, <1>19, <1>20, <1>21, <1>22
  DEF Next, Ctl, Owner, Waiter

\* Every step that frees a node takes its event out of the kqueue.
LEMMA NextDangling == IInv /\ [Next]_vars => NoDanglingEvent'
<1> SUFFICES ASSUME IInv, [Next]_vars PROVE NoDanglingEvent'
  OBVIOUS
<1> USE DEF IInv, TypeOK, NoDanglingEvent
<1>1. ASSUME NEW t \in Threads, NEW f \in Files, NEW reg \in Registrations,
             CtlRegister(t, f, reg)
      PROVE NoDanglingEvent'
  BY <1>1 DEF CtlRegister, CtlLock, Register, Goto, kernel, epollfd, kq, locals
<1>2. ASSUME NEW t \in Threads, NEW f \in Files, CtlRemove(t, f)
      PROVE NoDanglingEvent'
  BY <1>2 DEF CtlRemove, CtlLock, TakeOff, Goto, kernel, epollfd, kq, locals
<1>3. ASSUME NEW t \in Threads, CountPollers(t) PROVE NoDanglingEvent'
  BY <1>3 DEF CountPollers, Goto, kernel, epollfd, kq, locals
<1>4. ASSUME NEW t \in Threads, TriggerSelf(t) PROVE NoDanglingEvent'
  BY <1>4 DEF TriggerSelf, Goto, kernel, epollfd, kq, locals
<1>5. ASSUME NEW t \in Threads, AwaitPollers(t) PROVE NoDanglingEvent'
  BY <1>5 DEF AwaitPollers, Goto, kernel, epollfd, kq, locals
<1>6. ASSUME NEW t \in Threads, AfterCtl(t) PROVE NoDanglingEvent'
  BY <1>6 DEF AfterCtl, Unlock, Goto, Done, kernel, epollfd, kq, locals
<1>7. ASSUME NEW t \in Threads, AfterRemove(t) PROVE NoDanglingEvent'
  BY <1>7 DEF AfterRemove, Unlock, Goto, Done, DropNode, kernel, epollfd, kq, locals
<1>8. ASSUME NEW t \in Threads, AfterNval(t) PROVE NoDanglingEvent'
  BY <1>8 DEF AfterNval, Goto, Done, DropNode, kernel, epollfd, kq, locals
<1>9. ASSUME NEW t \in Threads, AfterOneshot(t) PROVE NoDanglingEvent'
  BY <1>9 DEF AfterOneshot, Goto, Done, kernel, epollfd, kq, locals
<1>10. ASSUME NEW t \in Threads, RemoveInvalid(t) PROVE NoDanglingEvent'
  BY <1>10 DEF RemoveInvalid, TakeOff, Goto, kernel, epollfd, kq, locals
<1>11. ASSUME NEW t \in Threads, NEW cnt \in 1 .. MaxEvents,
              NEW batch \in SUBSET Pending, Collect(t, cnt, batch)
       PROVE  NoDanglingEvent'
  BY <1>11 DEF Collect, Nothing, Goto, kernel, epollfd, kq, locals
<1>12. ASSUME NEW t \in Threads, Disarm(t) PROVE NoDanglingEvent'
  BY <1>12 DEF Disarm, Unlock, TakeOff, Goto, kernel, epollfd, kq, locals
<1>13. ASSUME NEW t \in Threads, PollNothing(t) PROVE NoDanglingEvent'
  BY <1>13 DEF PollNothing, Nothing, Goto, kernel, epollfd, kq, locals
<1>14. ASSUME NEW t \in Threads, PollSome(t) PROVE NoDanglingEvent'
  BY <1>14 DEF PollSome, Goto, kernel, epollfd, kq, locals
<1>15. ASSUME NEW t \in Threads, Block(t) PROVE NoDanglingEvent'
  BY <1>15 DEF Block, Goto, kernel, epollfd, kq, locals
<1>16. ASSUME NEW t \in Threads, PpollReturns(t) PROVE NoDanglingEvent'
  BY <1>16 DEF PpollReturns, Goto, kernel, epollfd, kq, locals
<1>17. ASSUME NEW t \in Threads, Leave(t) PROVE NoDanglingEvent'
  BY <1>17 DEF Leave, kernel, epollfd, kq, locals
<1>18. ASSUME NEW t \in Threads, PpollEnds(t) PROVE NoDanglingEvent'
  BY <1>18 DEF PpollEnds, Goto, kernel, epollfd, kq, locals
<1>19. ASSUME NEW t \in Threads, WaitCall(t) PROVE NoDanglingEvent'
  BY <1>19 DEF WaitCall, Goto, kernel, epollfd, kq, locals
<1>20. ASSUME NEW f \in Files, CloseFile(f) PROVE NoDanglingEvent'
  BY <1>20 DEF CloseFile, kernel, epollfd, kq, locals
<1>21. ASSUME NEW f \in Files, NEW evs \in SUBSET Events, SetReady(f, evs)
      PROVE NoDanglingEvent'
  BY <1>21 DEF SetReady, kernel, epollfd, kq, locals
<1>22. CASE UNCHANGED vars
  BY <1>22 DEF vars, kernel, epollfd, kq, locals
<1> QED
  BY <1>1, <1>2, <1>3, <1>4, <1>5, <1>6, <1>7, <1>8, <1>9, <1>10, <1>11, <1>12, <1>13, <1>14, <1>15, <1>16, <1>17, <1>18, <1>19, <1>20, <1>21, <1>22
  DEF Next, Ctl, Owner, Waiter

\* A step that changes the list goes through trigger_repoll, and leaves it
\* only after the last poller has left.
LEMMA NextFresh == IInv /\ [Next]_vars => FreshInv'
<1> SUFFICES ASSUME IInv, [Next]_vars PROVE FreshInv'
  OBVIOUS
<1> USE DEF IInv, TypeOK, MutexInv, TakenOff, FreshInv, Current, Owning, Repolling, Labels, Polling
<1>1. ASSUME NEW t \in Threads, NEW f \in Files, NEW reg \in Registrations,
             CtlRegister(t, f, reg)
      PROVE FreshInv'
  BY <1>1 DEF CtlRegister, CtlLock, Register, Goto, kernel, epollfd, kq, locals
<1>2. ASSUME NEW t \in Threads, NEW f \in Files, CtlRemove(t, f)
      PROVE FreshInv'
  <2>1. CASE f \in poll_fds
    <3>1. pc'[t] = "repoll"
      BY <1>2, <2>1 DEF CtlRemove, TakeOff, Goto
    <3> QED
      BY <3>1
  <2>2. CASE f \notin poll_fds
    <3>1. Current' = Current
      BY <1>2, <2>2 DEF CtlRemove, TakeOff
    <3>2. \A u \in Threads : pc[u] \notin Repolling
      BY <1>2, ThreadsAssumption DEF CtlRemove, CtlLock
    <3> QED
      BY <1>2, <3>1, <3>2 DEF CtlRemove, TakeOff, Goto
  <2> QED
    BY <2>1, <2>2
<1>3. ASSUME NEW t \in Threads, CountPollers(t) PROVE FreshInv'
  <2>1. CASE nr_polling_threads = 0
    <3>1. \A u \in Threads : pc[u] # "ppoll"
      BY <2>1, NoPollers DEF Pollers
    <3> QED
      BY <1>3, <3>1 DEF CountPollers, Goto
  <2>2. CASE nr_polling_threads # 0
    <3>1. pc'[t] \in Repolling
      BY <1>3, <2>2 DEF CountPollers, Goto
    <3> QED
      BY <3>1
  <2> QED
    BY <2>1, <2>2
<1>4. ASSUME NEW t \in Threads, TriggerSelf(t) PROVE FreshInv'
  BY <1>4 DEF TriggerSelf, Goto, kernel, epollfd, kq, locals
<1>5. ASSUME NEW t \in Threads, AwaitPollers(t) PROVE FreshInv'
  <2>1. CASE nr_polling_threads = 0
    <3>1. \A u \in Threads : pc[u] # "ppoll"
      BY <2>1, NoPollers DEF Pollers
    <3> QED
      BY <1>5, <3>1 DEF AwaitPollers, Goto
  <2>2. CASE nr_polling_threads # 0
    <3>1. pc'[t] \in Repolling
      BY <1>5, <2>2 DEF AwaitPollers, Goto
    <3> QED
      BY <3>1
  <2> QED
    BY <2>1, <2>2
<1>6. ASSUME NEW t \in Threads, AfterCtl(t) PROVE FreshInv'
  BY <1>6 DEF AfterCtl, Unlock, Goto, Done, kernel, epollfd, kq, locals
<1>7. ASSUME NEW t \in Threads, AfterRemove(t) PROVE FreshInv'
  BY <1>7 DEF AfterRemove, Unlock, Goto, Done, DropNode, kernel, epollfd, kq, locals
<1>8. ASSUME NEW t \in Threads, AfterNval(t) PROVE FreshInv'
  BY <1>8 DEF AfterNval, Goto, Done, DropNode, kernel, epollfd, kq, locals
<1>9. ASSUME NEW t \in Threads, AfterOneshot(t) PROVE FreshInv'
  BY <1>9 DEF AfterOneshot, Goto, Done, kernel, epollfd, kq, locals
<1>10. ASSUME NEW t \in Threads, RemoveInvalid(t) PROVE FreshInv'
  <2>1. \A u \in Threads : pc[u] \notin Repolling
    BY <1>10 DEF RemoveInvalid
  <2>2. CASE pc'[t] = "repoll"
    BY <2>2
  <2>3. CASE pc'[t] # "repoll"
    <3>1. Current' = Current
      <4>1. poll_fds' = poll_fds
        BY <1>10, <2>3, TakeOffMisses DEF RemoveInvalid
      <4>2. nodes' = nodes
        BY <1>10 DEF RemoveInvalid
      <4> QED
        BY <4>1, <4>2
    <3>2. pfds' = pfds /\ pc'[t] # "ppoll"
      BY <1>10 DEF RemoveInvalid, TakeOff, Goto
    <3>3. \A u \in Threads : u # t => pc'[u] = pc[u]
      BY <1>10 DEF RemoveInvalid, TakeOff, Goto
    <3> QED
      BY <2>1, <3>1, <3>2, <3>3
  <2> QED
    BY <2>2, <2>3
<1>11. ASSUME NEW t \in Threads, NEW cnt \in 1 .. MaxEvents,
              NEW batch \in SUBSET Pending, Collect(t, cnt, batch)
       PROVE  FreshInv'
  BY <1>11 DEF Collect, Nothing, Goto, kernel, epollfd, kq, locals
<1>12. ASSUME NEW t \in Threads, Disarm(t) PROVE FreshInv'
  <2>1. \A u \in Threads : pc[u] \notin Repolling
    BY <1>12 DEF Disarm
  <2>2. CASE pc'[t] = "repoll"
    BY <2>2
  <2>3. CASE pc'[t] # "repoll"
    <3>1. Current' = Current
      <4>1. poll_fds' = poll_fds
        BY <1>12, <2>3, TakeOffMisses DEF Disarm
      <4>2. nodes' = nodes
        BY <1>12 DEF Disarm
      <4> QED
        BY <4>1, <4>2
    <3>2. pfds' = pfds /\ pc'[t] # "ppoll"
      BY <1>12 DEF Disarm, TakeOff, Goto, Unlock
    <3>3. \A u \in Threads : u # t => pc'[u] = pc[u]
      BY <1>12 DEF Disarm, TakeOff, Goto, Unlock
    <3> QED
      BY <2>1, <3>1, <3>2, <3>3
  <2> QED
    BY <2>2, <2>3
<1>13. ASSUME NEW t \in Threads, PollNothing(t) PROVE FreshInv'
  BY <1>13 DEF PollNothing, Nothing, Goto, kernel, epollfd, kq, locals
<1>14. ASSUME NEW t \in Threads, PollSome(t) PROVE FreshInv'
  BY <1>14 DEF PollSome, Goto, kernel, epollfd, kq, locals
<1>15. ASSUME NEW t \in Threads, Block(t) PROVE FreshInv'
  BY <1>15 DEF Block, Goto, kernel, epollfd, kq, locals
<1>16. ASSUME NEW t \in Threads, PpollReturns(t) PROVE FreshInv'
  BY <1>16 DEF PpollReturns, Goto, kernel, epollfd, kq, locals
<1>17. ASSUME NEW t \in Threads, Leave(t) PROVE FreshInv'
  BY <1>17 DEF Leave, kernel, epollfd, kq, locals
<1>18. ASSUME NEW t \in Threads, PpollEnds(t) PROVE FreshInv'
  BY <1>18 DEF PpollEnds, Goto, kernel, epollfd, kq, locals
<1>19. ASSUME NEW t \in Threads, WaitCall(t) PROVE FreshInv'
  BY <1>19 DEF WaitCall, Goto, kernel, epollfd, kq, locals
<1>20. ASSUME NEW f \in Files, CloseFile(f) PROVE FreshInv'
  BY <1>20 DEF CloseFile, kernel, epollfd, kq, locals
<1>21. ASSUME NEW f \in Files, NEW evs \in SUBSET Events, SetReady(f, evs)
      PROVE FreshInv'
  BY <1>21 DEF SetReady, kernel, epollfd, kq, locals
<1>22. CASE UNCHANGED vars
  BY <1>22 DEF vars, kernel, epollfd, kq, locals
<1> QED
  BY <1>1, <1>2, <1>3, <1>4, <1>5, <1>6, <1>7, <1>8, <1>9, <1>10, <1>11, <1>12, <1>13, <1>14, <1>15, <1>16, <1>17, <1>18, <1>19, <1>20, <1>21, <1>22
  DEF Next, Ctl, Owner, Waiter

\* Every step that enters or leaves ppoll() counts, once.
LEMMA NextCounted == IInv /\ [Next]_vars => PollersCounted'
<1> SUFFICES ASSUME IInv, [Next]_vars PROVE PollersCounted'
  OBVIOUS
<1> USE DEF IInv, TypeOK
<1>0. IsFiniteSet(Pollers) /\ Pollers \subseteq Threads
  BY PollersFinite DEF Pollers
<1>1. ASSUME Pollers' = Pollers, nr_polling_threads' = nr_polling_threads
      PROVE  PollersCounted'
  BY <1>1 DEF PollersCounted, Pollers
<1>2. ASSUME NEW t \in Threads, Block(t) PROVE PollersCounted'
  <2>1. t \notin Pollers
    BY <1>2 DEF Block, Pollers, Polling
  <2>2. Pollers' = Pollers \cup {t}
    BY <1>2 DEF Block, Goto, Pollers, Polling
  <2>3. Cardinality(Pollers') = Cardinality(Pollers) + 1
    BY <1>0, <2>1, <2>2, FS_AddElement
  <2> QED
    BY <1>2, <2>3 DEF Block, PollersCounted, Pollers
<1>3. ASSUME NEW t \in Threads, Leave(t) PROVE PollersCounted'
  <2>1. t \in Pollers
    BY <1>3 DEF Leave, Pollers, Polling
  <2>2. Pollers' = Pollers \ {t}
    BY <1>3 DEF Leave, Pollers, Polling
  <2>3. Cardinality(Pollers') = Cardinality(Pollers) - 1
    BY <1>0, <2>1, <2>2, FS_RemoveElement
  <2> QED
    BY <1>3, <2>3 DEF Leave, PollersCounted, Pollers
<1>4. ASSUME NEW t \in Threads, PpollReturns(t) \/ PpollEnds(t)
      PROVE  PollersCounted'
  <2>1. Pollers' = Pollers
    BY <1>4 DEF PpollReturns, PpollEnds, Goto, Pollers, Polling
  <2> QED
    BY <1>1, <1>4, <2>1 DEF PpollReturns, PpollEnds
<1>5. ASSUME NEW t \in Threads, Ctl(t) \/ WaitCall(t) \/ Owner(t)
                                  \/ PollNothing(t) \/ PollSome(t)
      PROVE  PollersCounted'
  <2>1. pc[t] \notin Polling /\ nr_polling_threads' = nr_polling_threads
    BY <1>5 DEF Ctl, CtlRegister, CtlRemove, CtlLock, WaitCall, Owner,
                CountPollers, TriggerSelf, AwaitPollers, AfterCtl, AfterRemove,
                AfterNval, AfterOneshot, RemoveInvalid, Collect, Disarm,
                PollNothing, PollSome, Polling
  <2>2. \E l \in Labels \ Polling : Goto(t, l)
    BY <1>5 DEF Ctl, CtlRegister, CtlRemove, Register, TakeOff, WaitCall,
                Owner, CountPollers, TriggerSelf, AwaitPollers, AfterCtl,
                AfterRemove, AfterNval, AfterOneshot, RemoveInvalid, Collect,
                Disarm, PollNothing, PollSome, Nothing, Unlock, Labels, Polling
  <2>3. Pollers' = Pollers
    BY <2>1, <2>2 DEF Pollers, Goto
  <2> QED
    BY <1>1, <2>1, <2>3
<1>6. ASSUME NEW f \in Files,
             CloseFile(f) \/ \E evs \in SUBSET Events : SetReady(f, evs)
      PROVE  PollersCounted'
  BY <1>1, <1>6 DEF CloseFile, SetReady, Pollers
<1>7. CASE UNCHANGED vars
  BY <1>1, <1>7 DEF vars, Pollers
<1> QED
  BY <1>2, <1>3, <1>4, <1>5, <1>6, <1>7 DEF Next, Waiter

-----------------------------------------------------------------------------
LEMMA InitIInv == Init => IInv
<1> SUFFICES ASSUME Init PROVE IInv
  OBVIOUS
<1>1. TypeOK
  <2>1. DOMAIN nodes = {} /\ nodes \in [{} -> Nodes]
    BY DEF Init
  <2> QED
    BY <2>1 DEF Init, TypeOK, Labels
<1>2. PollersCounted
  <2>1. {t \in Threads : pc[t] \in Polling} = {}
    BY DEF Init, Polling
  <2> QED
    BY <2>1, FS_EmptySet DEF Init, PollersCounted
<1>3. MutexInv
  BY ThreadsAssumption DEF Init, MutexInv, Owning, Repolling
<1>4. TakenOff /\ FreshInv /\ NoDanglingEvent
  BY DEF Init, TakenOff, FreshInv, NoDanglingEvent, Repolling
<1> QED
  BY <1>1, <1>2, <1>3, <1>4 DEF IInv

LEMMA NextIInv == IInv /\ [Next]_vars => IInv'
BY NextType, NextCounted, NextMutex, NextTakenOff, NextFresh, NextDangling
   DEF IInv

\* The inductive invariant holds in every reachable state.
THEOREM Invariance == Spec => []IInv
BY InitIInv, NextIInv, PTL DEF Spec

\* Every variable is of its type; the list holds registered nodes only.
THEOREM TypeCorrect == Spec => []TypeOK
<1>1. IInv => TypeOK
  BY DEF IInv
<1> QED
  BY <1>1, Invariance, PTL

\* nr_polling_threads counts the threads that may be polling an old list.
THEOREM Counted == Spec => []PollersCounted
<1>1. IInv => PollersCounted
  BY DEF IInv
<1> QED
  BY <1>1, Invariance, PTL

\* No thread is ever left in ppoll() on a list that is not the current one.
THEOREM Freshness == Spec => []FreshPollers
<1>1. IInv => FreshPollers
  <2> SUFFICES ASSUME IInv, mutex = NoThread
               PROVE  \A t \in Threads : pc[t] = "ppoll" => pfds[t] = Current
    BY DEF FreshPollers, Current
  <2>1. \A u \in Threads : pc[u] \notin Repolling
    BY ThreadsAssumption DEF IInv, MutexInv, Owning
  <2> QED
    BY <2>1 DEF IInv, FreshInv
<1> QED
  BY <1>1, Invariance, PTL

\* No event in the kqueue outlives the node its udata points to.
THEOREM NoDangling == Spec => []NoDanglingEvent
<1>1. IInv => NoDanglingEvent
  BY DEF IInv
<1> QED
  BY <1>1, Invariance, PTL

-----------------------------------------------------------------------------
\* EpollFilters: the variables.
Sides == {"R", "W"}
Answers == PollBits \cup {"HUP", "ERR"}
Rw == {"read", "write"}

\* The end of the file a filter hears of, and whether the file is there.
SideOf(k) == IF k = "read" THEN "R" ELSE "W"
Ended(k) == IF k = "read" THEN file.reof ELSE file.weof

NodeRecords ==
  [registered : BOOLEAN, events : SUBSET PollBits, et : BOOLEAN, oneshot : BOOLEAN,
   armed : BOOLEAN, late : BOOLEAN, eof : SUBSET Sides, has : SUBSET Filters,
   got : SUBSET Filters, revents : SUBSET Answers]
FileRecords ==
  [in : BOOLEAN, reof : BOOLEAN, out : BOOLEAN, weof : BOOLEAN, err : BOOLEAN,
   oob : BOOLEAN]
KevRecords ==
  [filter : Filters \cup {"user"}, eof : BOOLEAN, err : BOOLEAN, data : BOOLEAN]

FilterTypes ==
  /\ type \in Types /\ file \in FileRecords /\ node \in NodeRecords
  /\ knotes \in [Filters \cup {"user"} -> States]
  /\ stage \in {"idle", "again", "feed", "complete"}
  /\ kevs \subseteq KevRecords
  /\ full \in BOOLEAN /\ completing \subseteq Filters
  /\ news \subseteq Answers /\ seen \subseteq Answers

\* What kinds of file can be.
FileInv ==
  /\ type = "other" => file.reof = file.weof
  /\ type \in {"fifo_r", "fifo_rw"} => ~file.weof
  /\ type \in {"fifo_w", "fifo_rw"} => ~file.reof
  /\ type = "fifo_w" => ~file.in
  /\ type = "fifo_r" => ~file.out
  /\ file.err => type = "socket" /\ file.reof /\ file.weof
  /\ file.oob => type = "socket"

NodeInv ==
  /\ ~node.registered => node = NoNode
  /\ ~node.armed => knotes = NoFilters /\ node.has = {} /\ stage = "idle"
  /\ type # "socket" => node.events \subseteq {"IN", "OUT"}
  /\ node.revents \subseteq node.events \cup {"HUP", "ERR"}
  /\ FiltersAsRecorded
  /\ node.armed => ("except" \in node.has <=> "PRI" \in node.events)
  /\ node.oneshot => "PRI" \notin node.events
  /\ knotes["except"] # "level"

KnownInv ==
  /\ type = "socket" => \A k \in Rw : SideOf(k) \in node.eof => Ended(k)
  /\ type # "socket" => node.eof \in {{}, Sides}
  /\ type = "other" /\ node.eof # {} => file.reof

CallInv ==
  /\ stage \in {"idle", "again"} => kevs = {} /\ node.revents = {}
  /\ stage # "complete" => completing = {}
  /\ stage = "complete" => kevs = {}
  /\ stage # "idle" => Excused(file) \subseteq seen
  /\ node.revents \subseteq seen

Dir(ev) == IF ev.filter = "read" THEN "IN" ELSE "OUT"

\* What an event of EVFILT_READ or EVFILT_WRITE says was so.
Truly(ev, said) ==
  /\ ev.err => file.err
  /\ type = "socket" => Dir(ev) \in said /\ (ev.eof => Ended(ev.filter))
  /\ type = "other" => Dir(ev) \in said /\ (ev.eof => file.reof)
  /\ Fifo => /\ ev.eof \/ ev.data
             /\ ev.data => Dir(ev) \in said
             /\ ev.eof => (IF ev.filter = "read" THEN "HUP" ELSE "ERR") \in said

EventIsTrue(ev) ==
  /\ ev.filter \in Rw => Truly(ev, seen)
  /\ ev.filter = "except" => type = "socket" /\ "except" \in node.has
  /\ ev.filter = "user" => type = "fifo_w" /\ node.has = {} /\ node.revents = {}
                             /\ kevs = {ev} /\ knotes["user"] # "fired"

KevsInv ==
  /\ \A ev \in kevs : EventIsTrue(ev)
  /\ \A ev1, ev2 \in kevs : ev1.filter = ev2.filter => ev1 = ev2

UserInv ==
  /\ knotes["user"] # "none" => type = "fifo_w"
  /\ knotes["user"] = "fired" => node.has = {}

FInv == FilterTypes /\ FileInv /\ NodeInv /\ KnownInv /\ CallInv /\ KevsInv /\ UserInv

\* What clients leave alone: EVFILT_EXCEPT is not taken out of the kqueue, so a
\* registration for EPOLLPRI is neither taken back nor for once.
NoOobBack ==
  /\ OobTaken = FALSE
  /\ \A reg \in EpollEvents : ~(reg.oneshot /\ "PRI" \in reg.events)

-----------------------------------------------------------------------------
LEMMA Kinds == Types \subseteq {"socket", "fifo_r", "fifo_w", "fifo_rw", "other"}
BY FiltersAssumption

LEMMA SocketNeeds ==
  ASSUME NEW nd \in NodeRecords
  PROVE  /\ SocketFilters(nd).read \in {"none", "level", "clear"}
         /\ SocketFilters(nd).write \in {"none", "level", "clear"}
         /\ SocketFilters(nd).read # "none" \/ SocketFilters(nd).write # "none"
BY DEF SocketFilters, Watch, If, NodeRecords, Sides

LEMMA OtherNeeds ==
  ASSUME NEW nd \in NodeRecords, type \in Types, type # "socket",
         nd.events \subseteq {"IN", "OUT"}
  PROVE  /\ OtherFilters(nd).read \in {"none", "level", "clear"}
         /\ OtherFilters(nd).write \in {"none", "level", "clear"}
         /\ OtherFilters(nd).read # "none" \/ OtherFilters(nd).write # "none"
         /\ type = "fifo_r" => OtherFilters(nd).write = "none"
         /\ type = "fifo_w" => OtherFilters(nd).read = "none"
BY Kinds DEF OtherFilters, Watch, If, NodeRecords, Sides

LEMMA Needs ==
  ASSUME NEW nd \in NodeRecords, type \in Types,
         type # "socket" => nd.events \subseteq {"IN", "OUT"}
  PROVE  /\ NeededFilters(nd) \in [Filters -> {"none", "level", "clear"}]
         /\ NeededFilters(nd)["read"] # "none" \/ NeededFilters(nd)["write"] # "none"
         /\ NeededFilters(nd)["except"] # "none" <=> "PRI" \in nd.events
         /\ nd.et => \A k \in Filters : NeededFilters(nd)[k] # "level"
         /\ type = "fifo_r" => NeededFilters(nd)["write"] = "none"
         /\ type = "fifo_w" => NeededFilters(nd)["read"] = "none"
<1>1. CASE type = "socket"
  BY <1>1, SocketNeeds DEF NeededFilters, If, Filters
<1>2. CASE type # "socket"
  BY <1>2, OtherNeeds DEF NeededFilters, If, Filters
<1> QED
  BY <1>1, <1>2

\* What register_events leaves: the filters the node needs, or EVFILT_USER.
LEMMA RegisteredDoes ==
  ASSUME FilterTypes, FileInv, NEW nd \in NodeRecords,
         type # "socket" => nd.events \subseteq {"IN", "OUT"},
         \A k \in Filters \cup {"user"} :
           OldKq(nd)[k] # "none" => k = "except" /\ "PRI" \in nd.events,
         Registered(nd)
  PROVE  /\ knotes' \in [Filters \cup {"user"} -> States] /\ node' \in NodeRecords
         /\ \A k \in Filters : knotes'[k] # "none" <=> k \in node'.has
         /\ "except" \in node'.has <=> "PRI" \in nd.events
         /\ knotes'["except"] # "level"
         /\ \A k \in Rw \cap node'.has :
              knotes'[k] = Added(k, NeededFilters(nd)[k])
         /\ knotes'["except"] = IF "PRI" \in nd.events THEN Added("except", "clear")
                                ELSE "none"
         /\ knotes'["user"] \in {"none", "fired"}
         /\ node'.registered /\ ~node'.late
         /\ node'.events = nd.events /\ node'.et = nd.et /\ node'.oneshot = nd.oneshot
         /\ node'.armed = nd.armed /\ node'.revents = nd.revents /\ node'.got = nd.got
         /\ \/ /\ node'.eof = nd.eof /\ knotes'["user"] = "none"
               /\ \A k \in Rw : k \in node'.has <=> NeededFilters(nd)[k] # "none"
            \/ /\ node'.eof = Sides /\ type = "fifo_w" /\ file.weof
               /\ node'.has = {} /\ knotes'["user"] = "fired"
<1> DEFINE nf == NeededFilters(nd)
           epipe == Fifo /\ nf["write"] # "none" /\ file.weof
           has == {k \in Filters : nf[k] # "none"} \ (IF epipe THEN {"write"} ELSE {})
<1>1. /\ nf \in [Filters -> {"none", "level", "clear"}]
      /\ nf["except"] # "none" <=> "PRI" \in nd.events
      /\ type = "fifo_w" => nf["read"] = "none"
  BY Needs DEF FilterTypes
<1>2. epipe => type = "fifo_w" /\ nf["read"] = "none" /\ file.weof /\ "PRI" \notin nd.events
  BY <1>1 DEF Fifo, FileInv
<1>3. /\ node' = [nd EXCEPT !.has = has, !.registered = TRUE, !.late = FALSE,
                            !.eof = IF epipe THEN {"R", "W"} ELSE nd.eof]
      /\ knotes' = [k \in DOMAIN knotes |->
                     IF k \in has
                     THEN Added(k, IF k = "except" THEN "clear" ELSE nf[k])
                     ELSE IF k = "user" /\ epipe /\ nf["read"] = "none"
                     THEN "fired" ELSE OldKq(nd)[k]]
  BY DEF Registered
<1>4. DOMAIN knotes = Filters \cup {"user"} /\ "user" \notin has /\ has \subseteq Filters
      /\ Filters = {"read", "write", "except"}
  BY DEF FilterTypes, Filters
<1>5. \A k, h : Added(k, h) \in {"level", "fired", "clear"} /\ (h = "clear" => Added(k, h) # "level")
  BY DEF Added
<1>6. \A k \in Rw : k \in has <=> nf[k] # "none" /\ (k = "write" => ~epipe)
  BY <1>4 DEF Rw
<1>7. "except" \in has <=> "PRI" \in nd.events
  BY <1>1, <1>4
<1> HIDE DEF nf, epipe, has
<1>8. \A k \in Filters \cup {"user"} : knotes'[k] =
        IF k \in has THEN Added(k, IF k = "except" THEN "clear" ELSE nf[k])
        ELSE IF k = "user" /\ epipe THEN "fired" ELSE "none"
  BY <1>2, <1>3, <1>4, <1>7
<1>9. knotes' \in [Filters \cup {"user"} -> States]
  <2>1. DOMAIN knotes' = Filters \cup {"user"}
    BY <1>3, <1>4
  <2>2. \A k \in Filters \cup {"user"} : knotes'[k] \in States
    BY <1>5, <1>8 DEF States
  <2> QED
    BY <1>3, <2>1, <2>2
<1>10. /\ node' \in NodeRecords /\ node'.has = has
       /\ node'.eof = (IF epipe THEN Sides ELSE nd.eof)
       /\ node'.registered /\ ~node'.late
       /\ node'.events = nd.events /\ node'.et = nd.et /\ node'.oneshot = nd.oneshot
       /\ node'.armed = nd.armed /\ node'.revents = nd.revents /\ node'.got = nd.got
  BY <1>3, <1>4 DEF NodeRecords, Sides
<1>11. /\ knotes'["except"] = (IF "PRI" \in nd.events THEN Added("except", "clear") ELSE "none")
       /\ knotes'["user"] = (IF epipe THEN "fired" ELSE "none")
       /\ \A k \in Filters : knotes'[k] # "none" <=> k \in has
       /\ \A k \in Rw \cap has : knotes'[k] = Added(k, nf[k])
  BY <1>4, <1>5, <1>7, <1>8 DEF Rw
<1>12. epipe => has = {}
  BY <1>2, <1>4, <1>6, <1>7 DEF Rw
<1> QED
  BY <1>2, <1>5, <1>6, <1>7, <1>9, <1>10, <1>11, <1>12 DEF nf

\* A node that is as it has to be, but for the filters.
NodeIsFit(nd) ==
  /\ nd \in NodeRecords /\ nd.armed
  /\ type # "socket" => nd.events \subseteq {"IN", "OUT"}
  /\ nd.revents \subseteq nd.events \cup {"HUP", "ERR"}
  /\ nd.oneshot => "PRI" \notin nd.events
  /\ type = "socket" => \A k \in Rw : SideOf(k) \in nd.eof => Ended(k)
  /\ type # "socket" => nd.eof \in {{}, Sides}
  /\ type = "other" /\ nd.eof # {} => file.reof

LEMMA RegisteredFits ==
  ASSUME FilterTypes, FileInv, NEW nd, NodeIsFit(nd), UNCHANGED <<type, file>>,
         \A k \in Filters \cup {"user"} :
           OldKq(nd)[k] # "none" => k = "except" /\ "PRI" \in nd.events,
         Registered(nd)
  PROVE  /\ node' \in NodeRecords /\ knotes' \in [Filters \cup {"user"} -> States]
         /\ NodeInv' /\ KnownInv' /\ UserInv'
         /\ node'.revents = nd.revents /\ node'.events = nd.events
<1>1. /\ knotes' \in [Filters \cup {"user"} -> States] /\ node' \in NodeRecords
      /\ \A k \in Filters : knotes'[k] # "none" <=> k \in node'.has
      /\ "except" \in node'.has <=> "PRI" \in nd.events
      /\ knotes'["except"] # "level"
      /\ knotes'["user"] \in {"none", "fired"}
      /\ node'.registered
      /\ node'.events = nd.events /\ node'.oneshot = nd.oneshot
      /\ node'.armed = nd.armed /\ node'.revents = nd.revents
      /\ \/ node'.eof = nd.eof /\ knotes'["user"] = "none"
         \/ node'.eof = Sides /\ type = "fifo_w" /\ node'.has = {}
  BY RegisteredDoes DEF NodeIsFit
<1>2. NodeInv'
  BY <1>1 DEF NodeIsFit, NodeInv, FiltersAsRecorded
<1>3. KnownInv'
  BY <1>1 DEF NodeIsFit, KnownInv, Ended
<1>4. UserInv'
  BY <1>1 DEF UserInv
<1> QED
  BY <1>1, <1>2, <1>3, <1>4

LEMMA FilterStart == FilterInit => FInv
<1> SUFFICES ASSUME FilterInit PROVE FInv
  OBVIOUS
<1> USE DEF FilterInit, NoNode, NoFilters, Quiet
<1>1. FilterTypes
  BY DEF FilterTypes, FileRecords, NodeRecords, States
<1>2. FileInv /\ KnownInv /\ KevsInv /\ UserInv
  BY DEF FileInv, KnownInv, KevsInv, UserInv, Filters
<1>3. NodeInv /\ CallInv
  BY DEF NodeInv, CallInv, FiltersAsRecorded, Filters
<1> QED
  BY <1>1, <1>2, <1>3 DEF FInv

LEMMA UpdatedIs ==
  ASSUME NEW n \in NodeRecords, NEW events \in SUBSET PollBits, NEW et \in BOOLEAN,
         NEW oneshot \in BOOLEAN, NEW reg,
         reg.events = events, reg.et = et, reg.oneshot = oneshot
  PROVE  LET nd == Updated(n, reg)
         IN  /\ nd \in NodeRecords /\ nd.armed /\ nd.revents = n.revents /\ nd.eof = n.eof
             /\ nd.registered = n.registered
             /\ nd.events \subseteq events /\ nd.oneshot = oneshot
             /\ type # "socket" => nd.events \subseteq {"IN", "OUT"}
<1> DEFINE nd == Updated(n, reg)
           e == IF type = "socket" THEN events ELSE events \ {"RDHUP", "PRI"}
<1>1. nd = [n EXCEPT !.events = e, !.et = et \/ oneshot, !.oneshot = oneshot, !.armed = TRUE]
  BY DEF Updated
<1>2. e \in SUBSET PollBits /\ e \subseteq events
      /\ (type # "socket" => e \subseteq {"IN", "OUT"})
  BY DEF PollBits
<1> HIDE DEF nd, e
<1>3. nd \in NodeRecords /\ nd.armed /\ nd.revents = n.revents /\ nd.eof = n.eof
      /\ nd.registered = n.registered /\ nd.events = e /\ nd.oneshot = oneshot
  BY <1>1, <1>2 DEF NodeRecords
<1> QED
  BY <1>2, <1>3 DEF nd

\* epoll_ctl registers a node that is fit, in a kqueue with none of its filters.
LEMMA CtlRegisters ==
  ASSUME FInv, NoOobBack, NEW reg \in EpollEvents, CtlAdd(reg) \/ CtlMod(reg)
  PROVE  /\ stage = "idle" /\ kevs = {} /\ node.revents = {}
         /\ UNCHANGED <<type, file, stage, kevs, full, completing, seen>>
         /\ news' \subseteq Ready(file)
         /\ \E nd : /\ NodeIsFit(nd) /\ nd.revents = {} /\ Registered(nd)
                    /\ \A k \in Filters \cup {"user"} : OldKq(nd)[k] = "none"
<1> DEFINE was == IF node.registered THEN node ELSE NoNode
           nd == Updated(was, reg)
<1> USE DEF FInv
<1>1. /\ stage = "idle" /\ Registered(nd) /\ was = node
      /\ news' = (IF nd.et THEN Ready(file) ELSE {})
      /\ UNCHANGED <<type, file, stage, kevs, full, completing, seen>>
      /\ node.registered => "PRI" \notin node.events
  BY DEF CtlAdd, CtlMod, CtlNode, MayTakeBack, NoOobBack, NodeInv
<1>2. /\ reg.events \subseteq PollBits /\ reg.et \in BOOLEAN /\ reg.oneshot \in BOOLEAN
      /\ ~(reg.oneshot /\ "PRI" \in reg.events)
  BY FiltersAssumption DEF NoOobBack
<1>3. /\ nd \in NodeRecords /\ nd.armed /\ nd.revents = node.revents /\ nd.eof = node.eof
      /\ nd.registered = node.registered
      /\ nd.events \subseteq reg.events /\ nd.oneshot = reg.oneshot
      /\ type # "socket" => nd.events \subseteq {"IN", "OUT"}
  BY <1>1, <1>2, UpdatedIs DEF FilterTypes
<1>4. NodeIsFit(nd)
  BY <1>1, <1>2, <1>3 DEF NodeIsFit, CallInv, KnownInv
<1>5. \A k \in Filters \cup {"user"} : OldKq(nd)[k] = "none"
  <2>1. CASE node.registered
    <3>1. OldKq(nd) = [NoFilters EXCEPT !["except"] = knotes["except"]]
      BY <1>3, <2>1 DEF OldKq, RemovedKq
    <3>2. knotes["except"] = "none"
      BY <1>1, <2>1 DEF NodeInv, FiltersAsRecorded, NoFilters, Filters
    <3> QED
      BY <3>1, <3>2 DEF NoFilters
  <2>2. CASE ~node.registered
    BY <1>3, <2>2 DEF OldKq, NodeInv, NoNode, NoFilters
  <2> QED
    BY <2>1, <2>2
<1>6. kevs = {} /\ node.revents = {}
  BY <1>1 DEF CallInv
<1> HIDE DEF nd, was
<1> QED
  BY <1>1, <1>3, <1>4, <1>5, <1>6

\* epoll_ctl adds or modifies.
LEMMA CtlKeeps ==
  ASSUME FInv, NoOobBack, NEW reg \in EpollEvents, CtlAdd(reg) \/ CtlMod(reg)
  PROVE  FInv'
<1> USE DEF FInv
<1>1. PICK nd : /\ NodeIsFit(nd) /\ nd.revents = {} /\ Registered(nd)
                /\ \A k \in Filters \cup {"user"} : OldKq(nd)[k] = "none"
  BY CtlRegisters
<1>2. /\ stage = "idle" /\ kevs = {}
      /\ UNCHANGED <<type, file, stage, kevs, full, completing, seen>>
      /\ news' \subseteq Ready(file)
  BY CtlRegisters
<1>3. /\ node' \in NodeRecords /\ knotes' \in [Filters \cup {"user"} -> States]
      /\ NodeInv' /\ KnownInv' /\ UserInv' /\ node'.revents = nd.revents
  BY <1>1, <1>2, RegisteredFits
<1>4. Ready(file) \subseteq Answers
  BY DEF Ready, Answers, PollBits
<1>5. FilterTypes' /\ FileInv'
  BY <1>2, <1>3, <1>4 DEF FilterTypes, FileInv
<1>6. CallInv' /\ KevsInv'
  BY <1>1, <1>2, <1>3 DEF CallInv, KevsInv, EventIsTrue
<1> QED
  BY <1>3, <1>5, <1>6

\* What poll() says, one answer at a time.
LEMMA ReadySays ==
  ASSUME type \in Types, NEW f
  PROVE  /\ Ready(f) \subseteq Answers /\ Excused(f) \subseteq Answers
         /\ Ready(f) \subseteq Excused(f)
         /\ "IN" \in Ready(f) <=> \/ type \in {"socket", "other"} /\ (f.in \/ f.reof)
                                  \/ type \in {"fifo_r", "fifo_rw"} /\ f.in
         /\ "OUT" \in Ready(f) <=> \/ type \in {"socket", "other"} /\ (f.out \/ f.weof)
                                   \/ Fifo /\ f.out
         /\ "RDHUP" \in Ready(f) <=> type = "socket" /\ f.reof
         /\ "HUP" \in Ready(f) <=> \/ type = "socket" /\ f.reof /\ f.weof
                                   \/ type \in {"other", "fifo_r", "fifo_rw"} /\ f.reof
         /\ "ERR" \in Ready(f) <=> \/ type = "socket" /\ f.err
                                   \/ type = "fifo_w" /\ f.weof
         /\ "PRI" \in Ready(f) <=> type = "socket" /\ f.oob
         /\ type = "fifo_w" /\ f.weof => "OUT" \in Excused(f)
<1>1. CASE type = "socket"
  BY <1>1 DEF Ready, Excused, Answers, PollBits, Fifo
<1>2. CASE type = "other"
  BY <1>2 DEF Ready, Excused, Answers, PollBits, Fifo
<1>3. CASE type = "fifo_w"
  BY <1>3 DEF Ready, Excused, Answers, PollBits, Fifo
<1>4. CASE type \in {"fifo_r", "fifo_rw"}
  BY <1>4 DEF Ready, Excused, Answers, PollBits, Fifo
<1> QED
  BY <1>1, <1>2, <1>3, <1>4, Kinds

LEMMA KeventTruly ==
  ASSUME FilterTypes, FileInv, NEW k \in Rw, On(file, k)
  PROVE  Truly(Kevent(k), Excused(file)) /\ Kevent(k) \in KevRecords
<1> DEFINE ev == Kevent(k)
<1>1. /\ file.in \in BOOLEAN /\ file.reof \in BOOLEAN /\ file.out \in BOOLEAN
      /\ file.weof \in BOOLEAN /\ file.err \in BOOLEAN
  BY DEF FilterTypes, FileRecords
<1>2. ev.eof = Ended(k) /\ ev.err = file.err /\ ev.filter = k
      /\ ev.data = (IF k = "read" THEN file.in ELSE file.out)
      /\ ev \in KevRecords
  BY <1>1 DEF Kevent, Ended, Rw, KevRecords, Filters
<1>3. Ended(k) \/ (IF k = "read" THEN file.in ELSE file.out)
  BY DEF On, Ended, Rw
<1>4. Dir(ev) = IF k = "read" THEN "IN" ELSE "OUT"
  BY <1>2 DEF Dir
<1>5. type \in Types
  BY DEF FilterTypes
<1> HIDE DEF ev
<1>6. ASSUME k = "read" PROVE Truly(ev, Excused(file))
  BY <1>2, <1>3, <1>4, <1>5, <1>6, Kinds, ReadySays DEF Ended, FileInv, Fifo, Truly
<1>7. ASSUME k = "write" PROVE Truly(ev, Excused(file))
  BY <1>2, <1>3, <1>4, <1>5, <1>7, Kinds, ReadySays DEF Ended, FileInv, Fifo, Truly
<1> QED
  BY <1>2, <1>6, <1>7 DEF Rw, ev

\* kevent() returns something.
LEMMA CollectsKeeps == FInv /\ Collects => FInv'
<1> SUFFICES ASSUME FInv, Collects PROVE FInv'
  OBVIOUS
<1> USE DEF FInv
<1>1. PICK ks \in SUBSET Active :
        /\ kevs' = {Kevent(k) : k \in ks}
        /\ full' \in BOOLEAN
        /\ knotes' = [k \in DOMAIN knotes |->
                       IF k \in ks /\ knotes[k] = "fired" THEN "clear" ELSE knotes[k]]
  <2> DEFINE choices == {Active} \cup IF Crowded THEN {{k} : k \in Active} ELSE {}
             new(ks) == [k \in DOMAIN knotes |->
                          IF k \in ks /\ knotes[k] = "fired" THEN "clear" ELSE knotes[k]]
  <2>1. \E ks \in choices :
          /\ kevs' = {Kevent(k) : k \in ks}
          /\ full' \in (IF Crowded /\ Cardinality(ks) = 1 THEN BOOLEAN ELSE {FALSE})
          /\ knotes' = new(ks)
    BY DEF Collects
  <2>2. choices \subseteq SUBSET Active
    OBVIOUS
  <2> HIDE DEF choices, new
  <2>3. \E ks \in SUBSET Active :
          kevs' = {Kevent(k) : k \in ks} /\ full' \in BOOLEAN /\ knotes' = new(ks)
    BY <2>1, <2>2
  <2> QED
    BY <2>3 DEF new
<1>2. /\ stage \in {"idle", "again"} /\ Active # {} /\ stage' = "feed"
      /\ seen' = Excused(file)
      /\ UNCHANGED <<type, file, node, completing, news>>
  BY DEF Collects
<1>3. node.armed
  BY <1>2 DEF NodeInv, NoFilters, Active
<1>4. \A k \in Filters \cup {"user"} : knotes'[k] \in States
        /\ (knotes'[k] = "none" <=> knotes[k] = "none")
        /\ (knotes'[k] = "level" => knotes[k] = "level")
        /\ (knotes'[k] = "fired" => knotes[k] = "fired")
  BY <1>1 DEF FilterTypes, States
<1>5. knotes' \in [Filters \cup {"user"} -> States]
  BY <1>1, <1>4 DEF FilterTypes
<1>6. \A ev \in kevs' : \E k \in Active : ev = Kevent(k) /\ k \in ks
  BY <1>1
<1>7. \A k \in Active : \/ k \in Filters /\ knotes[k] # "none" /\ On(file, k)
                        \/ k = "user" /\ knotes[k] = "fired"
  BY DEF Active
<1>8. FilterTypes'
  <2>1. kevs' \subseteq KevRecords
    <3>1. ASSUME NEW k \in Active PROVE Kevent(k) \in KevRecords
      <4>1. k \in Filters \cup {"user"}
        BY <1>7
      <4>2. /\ file.in \in BOOLEAN /\ file.reof \in BOOLEAN /\ file.out \in BOOLEAN
            /\ file.weof \in BOOLEAN /\ file.err \in BOOLEAN
        BY DEF FilterTypes, FileRecords
      <4> QED
        BY <4>1, <4>2 DEF Kevent, KevRecords
    <3> QED
      BY <1>6, <3>1
  <2>2. UNCHANGED node /\ seen' \subseteq Answers /\ stage' \in {"idle", "again", "feed", "complete"}
    BY <1>2, ReadySays DEF FilterTypes
  <2> QED
    BY <1>1, <1>2, <1>5, <2>1, <2>2 DEF FilterTypes
<1>9. NodeInv'
  <2>1. \A k \in Filters : k \in Filters \cup {"user"}
    OBVIOUS
  <2> QED
    BY <1>2, <1>3, <1>4, <2>1 DEF NodeInv, FiltersAsRecorded, Filters
<1>10. FileInv' /\ KnownInv' /\ CallInv'
  BY <1>2 DEF FileInv, KnownInv, CallInv, Ended, Excused, Ready
<1>11. UserInv'
  BY <1>2, <1>4 DEF UserInv
<1>12. KevsInv'
  <2>1. ASSUME NEW ev \in kevs' PROVE EventIsTrue(ev)'
    <3>1. PICK k \in Active : ev = Kevent(k) /\ k \in ks
      BY <1>6
    <3>2. ev.filter = k
      BY <3>1 DEF Kevent
    <3>3. ASSUME k = "user" PROVE type = "fifo_w" /\ node.has = {} /\ node.revents = {}
                                  /\ kevs' = {ev} /\ knotes'["user"] # "fired"
      <4>1. knotes["user"] = "fired" /\ type = "fifo_w" /\ node.has = {}
        BY <1>7, <3>3 DEF UserInv, Filters
      <4>2. Active = {"user"}
        BY <1>7, <3>3, <4>1 DEF NodeInv, FiltersAsRecorded
      <4> QED
        BY <1>1, <1>2, <3>1, <3>3, <4>1, <4>2 DEF CallInv, FilterTypes
    <3>4. ASSUME k = "except" PROVE type = "socket" /\ "except" \in node.has
      BY <1>7, <3>4 DEF On, FileInv, NodeInv, FiltersAsRecorded, Filters
    <3>5. k \in Rw => Truly(ev, Excused(file))
      BY <1>7, <3>1, KeventTruly DEF Rw
    <3> QED
      BY <1>2, <3>2, <3>3, <3>4, <3>5 DEF EventIsTrue, Truly, Rw, Fifo, Ended
  <2>2. \A e1, e2 \in kevs' : e1.filter = e2.filter => e1 = e2
    <3>1. \A k : Kevent(k).filter = k
      BY DEF Kevent
    <3> QED
      BY <1>6, <3>1
  <2> QED
    BY <2>1, <2>2 DEF KevsInv
<1> QED
  BY <1>8, <1>9, <1>10, <1>11, <1>12

\* What is learnt of the ends of file from an event is so, and so is what is said.
LEMMA Learns ==
  ASSUME FilterTypes, FileInv, KnownInv, NEW ev \in KevRecords, ev.filter \in Rw,
         NEW said, Truly(ev, said), Excused(file) \subseteq said
  PROVE  /\ NewEof(ev) \subseteq Sides
         /\ type = "socket" =>
              /\ \A k \in Rw : SideOf(k) \in NewEof(ev) => Ended(k)
              /\ NewEof(ev) = IF ev.eof THEN node.eof \cup {SideOf(ev.filter)}
                              ELSE node.eof \ {SideOf(ev.filter)}
         /\ type # "socket" => NewEof(ev) = IF ev.eof THEN Sides ELSE {}
         /\ type = "other" /\ NewEof(ev) # {} => file.reof
         /\ Revents(ev, NewEof(ev)) \subseteq said
         /\ Revents(ev, NewEof(ev)) \subseteq Answers
<1> DEFINE eof == NewEof(ev)
<1>1. node.eof \subseteq Sides /\ ev.eof \in BOOLEAN /\ type \in Types
  BY DEF FilterTypes, NodeRecords, KevRecords
<1>2. /\ type = "socket" => eof = IF ev.eof THEN node.eof \cup {SideOf(ev.filter)}
                                  ELSE node.eof \ {SideOf(ev.filter)}
      /\ type # "socket" => eof = IF ev.eof THEN Sides ELSE {}
  BY DEF NewEof, SideOf, Sides
<1>3. type = "socket" => \A k \in Rw : SideOf(k) \in eof => Ended(k)
  BY <1>2 DEF KnownInv, Truly, SideOf, Rw
<1>4. eof \subseteq Sides
  BY <1>1, <1>2 DEF SideOf, Sides
<1>5. type = "other" /\ eof # {} => file.reof
  BY <1>2 DEF Truly
<1>6. Revents(ev, eof) \subseteq Answers
  BY DEF Revents, Hups, Answers, PollBits
<1>7. Revents(ev, eof) \subseteq said
  <2> HIDE DEF eof
  <2>1. CASE type = "socket"
    <3>1. /\ "R" \in eof => file.reof
          /\ "W" \in eof => file.weof
      BY <1>3, <2>1 DEF SideOf, Ended, Rw
    <3>2. Hups(eof) \subseteq said
      BY <1>1, <2>1, <3>1, ReadySays DEF Hups
    <3>3. ev.err => "ERR" \in said
      BY <1>1, <2>1, ReadySays DEF Truly
    <3> QED
      BY <2>1, <3>2, <3>3 DEF Revents, Truly, Dir
  <2>2. CASE type = "other"
    <3>1. ~ev.err
      BY <2>2 DEF Truly, FileInv
    <3>2. file.reof => "HUP" \in said
      BY <1>1, <2>2, ReadySays
    <3> QED
      BY <1>5, <2>2, <3>1, <3>2 DEF Revents, Truly, Dir, Fifo
  <2>3. CASE Fifo
    <3>1. ~ev.err
      BY <2>3 DEF Truly, FileInv, Fifo
    <3>2. eof = {} => ~ev.eof
      BY <1>2, <2>3 DEF Fifo, Sides
    <3>3. eof # {} => ev.eof
      BY <1>2, <2>3 DEF Fifo, Sides
    <3> QED
      BY <2>3, <3>1, <3>2, <3>3 DEF Revents, Truly, Dir, Fifo
  <2> QED
    BY <1>1, <2>1, <2>2, <2>3, Kinds DEF Fifo
<1> QED
  BY <1>2, <1>3, <1>4, <1>5, <1>6, <1>7

\* The node an event leaves.
LEMMA FedIs ==
  ASSUME FilterTypes, FileInv, NodeInv, KnownInv, node.armed,
         NEW ev \in KevRecords, ev.filter \in Rw,
         NEW said, Truly(ev, said), Excused(file) \subseteq said,
         node.revents \subseteq said
  PROVE  LET nd == Fed(ev)
         IN  /\ NodeIsFit(nd) /\ nd.revents \subseteq said
             /\ nd.registered = node.registered /\ nd.events = node.events
             /\ nd.et = node.et /\ nd.oneshot = node.oneshot /\ nd.armed
             /\ nd.late = node.late /\ nd.has = node.has /\ nd.eof = NewEof(ev)
             /\ nd.revents = (node.revents \cup Revents(ev, NewEof(ev)))
                               \cap (node.events \cup {"HUP", "ERR"})
<1> DEFINE all == (node.revents \cup Revents(ev, NewEof(ev)))
                    \cap (node.events \cup {"HUP", "ERR"})
           got == IF all = {} THEN node.got ELSE node.got \cup ({ev.filter} \cap Filters)
<1>1. /\ NewEof(ev) \subseteq Sides
      /\ type = "socket" => \A k \in Rw : SideOf(k) \in NewEof(ev) => Ended(k)
      /\ type # "socket" => NewEof(ev) \in {{}, Sides}
      /\ type = "other" /\ NewEof(ev) # {} => file.reof
      /\ Revents(ev, NewEof(ev)) \subseteq said
      /\ Revents(ev, NewEof(ev)) \subseteq Answers
  BY Learns
<1>2. node \in NodeRecords
  BY DEF FilterTypes
<1>3. all \subseteq Answers /\ all \subseteq said /\ got \subseteq Filters
  BY <1>1, <1>2 DEF NodeRecords
<1>4. Fed(ev) = [node EXCEPT !.eof = NewEof(ev), !.revents = all, !.got = got]
  BY <1>2 DEF Fed, Told, NodeRecords
<1> HIDE DEF got
<1>5. DEFINE nd == Fed(ev)
<1>6. /\ nd \in NodeRecords /\ nd.revents = all
      /\ nd.registered = node.registered /\ nd.events = node.events
      /\ nd.et = node.et /\ nd.oneshot = node.oneshot /\ nd.armed
      /\ nd.late = node.late /\ nd.has = node.has /\ nd.eof = NewEof(ev)
  <2> HIDE DEF all
  <2> QED
    BY <1>1, <1>2, <1>3, <1>4 DEF NodeRecords
<1>7. NodeIsFit(nd)
  <2> HIDE DEF nd
  <2> QED
    BY <1>1, <1>6 DEF NodeIsFit, NodeInv
<1> QED
  BY <1>3, <1>6, <1>7

\* The kqueue without the filters of an armed node.
LEMMA OldIsClean ==
  ASSUME NodeInv, node.armed, NEW nd, nd.registered = node.registered,
         nd.events = node.events
  PROVE  \A k \in Filters \cup {"user"} :
           OldKq(nd)[k] # "none" => k = "except" /\ "PRI" \in nd.events
<1>1. node.registered
  BY DEF NodeInv, NoNode
<1>2. OldKq(nd) = [NoFilters EXCEPT !["except"] = knotes["except"]]
  BY <1>1 DEF OldKq, RemovedKq
<1>3. knotes["except"] # "none" => "PRI" \in node.events
  BY DEF NodeInv, FiltersAsRecorded, Filters
<1> QED
  BY <1>2, <1>3 DEF NoFilters

\* An event of EVFILT_READ or EVFILT_WRITE is fed.
LEMMA FeedEventKeeps ==
  ASSUME FInv, NEW ev \in kevs, FeedEvent(ev) PROVE FInv'
<1> DEFINE nd == Fed(ev)
<1> USE DEF FInv
<1>1. /\ stage = "feed" /\ ev.filter \in Rw /\ kevs' = kevs \ {ev} /\ Reregisters(nd)
      /\ UNCHANGED <<type, file, stage, full, completing, news, seen>>
  BY DEF FeedEvent, Rw
<1>2. ev \in KevRecords /\ node.armed /\ Truly(ev, seen) /\ Excused(file) \subseteq seen
      /\ node.revents \subseteq seen /\ node.registered
  BY <1>1 DEF FilterTypes, NodeInv, KevsInv, EventIsTrue, CallInv, NoNode
<1>3. /\ NodeIsFit(nd) /\ nd.revents \subseteq seen
      /\ nd.registered = node.registered /\ nd.events = node.events
      /\ nd.armed /\ nd.has = node.has /\ nd.oneshot = node.oneshot
  BY <1>1, <1>2, FedIs
<1> HIDE DEF nd
<1>4. /\ node' \in NodeRecords /\ knotes' \in [Filters \cup {"user"} -> States]
      /\ NodeInv' /\ KnownInv' /\ UserInv'
      /\ node'.revents = nd.revents /\ node'.events = node.events
  <2>1. CASE Registered(nd)
    BY <1>1, <1>2, <1>3, <2>1, RegisteredFits, OldIsClean
  <2>2. CASE node' = nd /\ UNCHANGED knotes
    <3>1. node' \in NodeRecords /\ knotes' \in [Filters \cup {"user"} -> States]
      BY <1>3, <2>2 DEF FilterTypes, NodeIsFit
    <3>2. NodeInv'
      BY <1>1, <1>2, <1>3, <2>2 DEF NodeInv, FiltersAsRecorded, NodeIsFit
    <3>3. KnownInv' /\ UserInv'
      BY <1>1, <1>3, <2>2 DEF KnownInv, UserInv, NodeIsFit, Ended
    <3> QED
      BY <1>3, <2>2, <3>1, <3>2, <3>3
  <2> QED
    BY <1>1, <2>1, <2>2 DEF Reregisters
<1>5. node'.armed
  BY <1>1, <1>4 DEF NodeInv
<1>6. FilterTypes' /\ FileInv'
  BY <1>1, <1>4 DEF FilterTypes, FileInv
<1>7. CallInv'
  BY <1>1, <1>3, <1>4 DEF CallInv, Excused, Ready
<1>8. KevsInv'
  <2>1. ASSUME NEW e2 \in kevs' PROVE EventIsTrue(e2)'
    <3>1. e2 \in kevs /\ e2.filter # "user"
      BY <1>1, <2>1 DEF KevsInv, EventIsTrue, Rw
    <3>2. e2.filter = "except" => "except" \in node'.has
      BY <1>2, <1>4, <1>5, <3>1 DEF KevsInv, EventIsTrue, NodeInv
    <3> QED
      BY <1>1, <3>1, <3>2 DEF KevsInv, EventIsTrue, Truly, Ended, Fifo
  <2> QED
    BY <1>1, <2>1 DEF KevsInv
<1> QED
  BY <1>4, <1>6, <1>7, <1>8

\* registered_fds_node_feed_event adds to what will be reported.
LEMMA ToldIs ==
  ASSUME NEW nd \in NodeRecords, NEW revents, revents \subseteq Answers, NEW k
  PROVE  LET told == Told(nd, revents, k)
         IN  /\ told \in NodeRecords
             /\ told.revents = (nd.revents \cup revents) \cap (nd.events \cup {"HUP", "ERR"})
             /\ told.registered = nd.registered /\ told.events = nd.events
             /\ told.et = nd.et /\ told.oneshot = nd.oneshot /\ told.armed = nd.armed
             /\ told.late = nd.late /\ told.has = nd.has /\ told.eof = nd.eof
<1> DEFINE all == (nd.revents \cup revents) \cap (nd.events \cup {"HUP", "ERR"})
           got == IF all = {} THEN nd.got ELSE nd.got \cup ({k} \cap Filters)
<1>1. all \subseteq Answers /\ got \subseteq Filters
  BY DEF NodeRecords
<1> DEFINE told == Told(nd, revents, k)
<1>2. told = [nd EXCEPT !.revents = all, !.got = got]
  BY DEF Told
<1> HIDE DEF all, got, told
<1>3. /\ told \in NodeRecords /\ told.revents = all
      /\ told.registered = nd.registered /\ told.events = nd.events
      /\ told.et = nd.et /\ told.oneshot = nd.oneshot /\ told.armed = nd.armed
      /\ told.late = nd.late /\ told.has = nd.has /\ told.eof = nd.eof
  BY <1>1, <1>2 DEF NodeRecords
<1> QED
  BY <1>3 DEF all, told

\* An event of EVFILT_EXCEPT is fed.
LEMMA FeedExceptKeeps ==
  ASSUME FInv, NEW ev \in kevs, FeedExcept(ev) PROVE FInv'
<1> USE DEF FInv
<1> DEFINE pri == IF file.oob THEN {"PRI"} ELSE {}
<1>1. /\ stage = "feed" /\ ev.filter = "except" /\ kevs' = kevs \ {ev}
      /\ node' = Told(node, pri, "except")
      /\ knotes' = (IF Reset THEN [knotes EXCEPT !["except"] = Added("except", "clear")]
                    ELSE knotes)
      /\ UNCHANGED <<type, file, stage, full, completing, news, seen>>
  BY DEF FeedExcept
<1>2. /\ type = "socket" /\ "except" \in node.has /\ node.armed
      /\ Excused(file) \subseteq seen /\ type \in Types
      /\ knotes["except"] # "none" /\ node.registered
  BY <1>1 DEF FilterTypes, KevsInv, EventIsTrue, CallInv, NodeInv, FiltersAsRecorded, Filters, NoNode
<1>3. pri \subseteq seen /\ pri \subseteq Answers
  BY <1>2, ReadySays DEF Answers, PollBits
<1> HIDE DEF pri
<1>4. /\ node' \in NodeRecords
      /\ node'.revents = (node.revents \cup pri) \cap (node.events \cup {"HUP", "ERR"})
      /\ node'.registered = node.registered /\ node'.events = node.events
      /\ node'.oneshot = node.oneshot /\ node'.armed = node.armed
      /\ node'.has = node.has /\ node'.eof = node.eof
  <2>1. node \in NodeRecords
    BY DEF FilterTypes
  <2> QED
    BY <1>1, <1>3, <2>1, ToldIs
<1>5. /\ knotes' \in [Filters \cup {"user"} -> States]
      /\ \A k \in Filters \cup {"user"} : knotes'[k] = "none" <=> knotes[k] = "none"
      /\ knotes'["except"] # "level" /\ knotes'["user"] = knotes["user"]
  BY <1>1, <1>2 DEF Added, FilterTypes, States, Filters, NodeInv
<1>6. FilterTypes' /\ FileInv'
  BY <1>1, <1>4, <1>5 DEF FilterTypes, FileInv
<1>7. NodeInv'
  BY <1>1, <1>2, <1>4, <1>5 DEF NodeInv, FiltersAsRecorded, Filters
<1>8. KnownInv' /\ UserInv'
  BY <1>1, <1>4, <1>5 DEF KnownInv, UserInv, Ended
<1>9. CallInv'
  BY <1>1, <1>3, <1>4 DEF CallInv, Excused, Ready
<1>10. KevsInv'
  <2>1. ASSUME NEW e2 \in kevs' PROVE EventIsTrue(e2)'
    <3>1. e2 \in kevs /\ e2.filter # "user"
      BY <1>1, <1>2, <2>1 DEF KevsInv, EventIsTrue
    <3> QED
      BY <1>1, <1>4, <3>1 DEF KevsInv, EventIsTrue, Truly, Ended, Fifo
  <2> QED
    BY <1>1, <2>1 DEF KevsInv
<1> QED
  BY <1>6, <1>7, <1>8, <1>9, <1>10

\* An event of EVFILT_USER is fed.
LEMMA FeedUserKeeps ==
  ASSUME FInv, NEW ev \in kevs, FeedUser(ev) PROVE FInv'
<1> USE DEF FInv
<1>1. /\ stage = "feed" /\ ev.filter = "user" /\ kevs' = kevs \ {ev}
      /\ UNCHANGED <<type, file, stage, full, completing, news, seen>>
  BY DEF FeedUser
<1>2. /\ type = "fifo_w" /\ node.has = {} /\ node.revents = {} /\ kevs' = {}
      /\ node.armed /\ Excused(file) \subseteq seen /\ type \in Types
      /\ node \in NodeRecords /\ knotes \in [Filters \cup {"user"} -> States]
  BY <1>1 DEF FilterTypes, KevsInv, EventIsTrue, CallInv, NodeInv
<1>3. KevsInv'
  BY <1>2 DEF KevsInv
<1>4. CASE file.weof
  <2>1. /\ node' = Told(node, {"ERR", "OUT"}, "user")
        /\ knotes' = [knotes EXCEPT !["user"] = IF node.et THEN @ ELSE "fired"]
    BY <1>4 DEF FeedUser
  <2>2. "ERR" \in seen /\ "OUT" \in seen /\ {"ERR", "OUT"} \subseteq Answers
    BY <1>2, <1>4, ReadySays DEF Answers, PollBits
  <2>3. /\ node' \in NodeRecords
        /\ node'.revents = (node.revents \cup {"ERR", "OUT"}) \cap (node.events \cup {"HUP", "ERR"})
        /\ node'.registered = node.registered /\ node'.events = node.events
        /\ node'.oneshot = node.oneshot /\ node'.armed = node.armed
        /\ node'.has = node.has /\ node'.eof = node.eof
    <3> DEFINE both == {"ERR", "OUT"}
    <3>1. node' = Told(node, both, "user") /\ both \subseteq Answers
      BY <2>1, <2>2
    <3> HIDE DEF both
    <3>2. /\ node' \in NodeRecords
          /\ node'.revents = (node.revents \cup both) \cap (node.events \cup {"HUP", "ERR"})
          /\ node'.registered = node.registered /\ node'.events = node.events
          /\ node'.oneshot = node.oneshot /\ node'.armed = node.armed
          /\ node'.has = node.has /\ node'.eof = node.eof
      <4>1. node \in NodeRecords
        BY <1>2
      <4> QED
        BY <3>1, <4>1, ToldIs
    <3> QED
      BY <3>2 DEF both
  <2>4. /\ knotes' \in [Filters \cup {"user"} -> States]
        /\ \A k \in Filters : knotes'[k] = knotes[k]
    BY <1>2, <2>1 DEF States, Filters
  <2>5. FilterTypes' /\ FileInv'
    BY <1>1, <2>3, <2>4 DEF FilterTypes, FileInv
  <2>6. NodeInv'
    BY <1>1, <1>2, <2>3, <2>4 DEF NodeInv, FiltersAsRecorded, NoNode, Filters
  <2>7. KnownInv' /\ UserInv'
    BY <1>1, <1>2, <2>3 DEF KnownInv, UserInv, Ended
  <2>8. CallInv'
    BY <1>1, <1>2, <2>2, <2>3 DEF CallInv, Excused, Ready
  <2> QED
    BY <1>3, <2>5, <2>6, <2>7, <2>8
<1>5. CASE ~file.weof
  <2> DEFINE how == NeededFilters(node)["write"]
             is == Added("write", how)
  <2>1. /\ node' = [node EXCEPT !.has = node.has \cup {"write"}]
        /\ knotes' = [knotes EXCEPT !["write"] = is]
    BY <1>5 DEF FeedUser
  <2>2. is \in {"level", "fired", "clear"}
    BY DEF Added
  <2> HIDE DEF is
  <2>3. /\ "PRI" \notin node.events /\ knotes["user"] # "fired"
        /\ "except" \notin node.has
    BY <1>1, <1>2 DEF NodeInv, KevsInv, EventIsTrue
  <2>4. /\ node' \in NodeRecords /\ node'.has = {"write"}
        /\ node'.registered = node.registered /\ node'.events = node.events
        /\ node'.oneshot = node.oneshot /\ node'.armed = node.armed
        /\ node'.eof = node.eof /\ node'.revents = node.revents
    BY <1>2, <2>1 DEF NodeRecords, Filters
  <2>5. /\ knotes' \in [Filters \cup {"user"} -> States] /\ knotes'["write"] # "none"
        /\ \A k \in {"read", "except", "user"} : knotes'[k] = knotes[k]
    BY <1>2, <2>1, <2>2 DEF States, Filters
  <2>6. FilterTypes' /\ FileInv'
    BY <1>1, <2>4, <2>5 DEF FilterTypes, FileInv
  <2>7. FiltersAsRecorded'
    BY <1>2, <2>4, <2>5 DEF FiltersAsRecorded, NodeInv, Filters
  <2>8. NodeInv'
    BY <1>1, <1>2, <2>3, <2>4, <2>5, <2>7 DEF NodeInv, NoNode
  <2>9. KnownInv' /\ UserInv'
    BY <1>1, <1>2, <2>3, <2>4, <2>5 DEF KnownInv, UserInv, Ended
  <2>10. CallInv'
    BY <1>1, <1>2, <2>4 DEF CallInv, Excused, Ready
  <2> QED
    BY <1>3, <2>6, <2>8, <2>9, <2>10
<1> QED
  BY <1>4, <1>5

\* What a node hears of when it is taken out of the kqueue.
LEMMA RemovedIs ==
  ASSUME NodeInv, "PRI" \notin node.events
  PROVE  RemovedKq = NoFilters
<1>1. knotes["except"] = "none"
  BY DEF NodeInv, FiltersAsRecorded, NoFilters, Filters
<1> QED
  BY <1>1 DEF RemovedKq, NoFilters

LEMMA CtlDelKeeps == FInv /\ NoOobBack /\ CtlDel => FInv'
<1> SUFFICES ASSUME FInv, NoOobBack, CtlDel PROVE FInv'
  OBVIOUS
<1> USE DEF FInv
<1>1. /\ stage = "idle" /\ node' = NoNode /\ knotes' = NoFilters /\ news' = {}
      /\ UNCHANGED <<type, file, stage, kevs, full, completing, seen>>
  BY RemovedIs DEF CtlDel, MayTakeBack, NoOobBack
<1>2. NoNode \in NodeRecords /\ NoFilters \in [Filters \cup {"user"} -> States]
  BY DEF NoNode, NodeRecords, NoFilters, States
<1>3. FilterTypes' /\ FileInv'
  BY <1>1, <1>2 DEF FilterTypes, FileInv
<1>4. NodeInv' /\ UserInv'
  BY <1>1 DEF NodeInv, UserInv, FiltersAsRecorded, NoNode, NoFilters, Filters
<1>5. KnownInv' /\ CallInv' /\ KevsInv'
  BY <1>1 DEF KnownInv, CallInv, KevsInv, NoNode
<1> QED
  BY <1>3, <1>4, <1>5

\* Steps of epoll_wait that leave the node and the kqueue alone.
LEMMA OthersKeep ==
  ASSUME FInv, CollectsNothing \/ FeedsNothing \/ Completes PROVE FInv'
<1> USE DEF FInv
<1>1. /\ UNCHANGED <<type, file, knotes, node, kevs, news>>
      /\ stage' \in {"idle", "again", "complete"} /\ full' \in BOOLEAN
      /\ completing' \subseteq Filters /\ (stage' # "complete" => completing' = {})
      /\ stage # "idle" /\ kevs = {}
      /\ stage' # "complete" => node.revents = {}
      /\ seen' = seen \/ (seen' = {} /\ stage' = "idle")
  <2>1. node.has \ node.got \subseteq Filters /\ completing \subseteq Filters /\ full \in BOOLEAN
    BY DEF FilterTypes, NodeRecords
  <2>2. CASE CollectsNothing
    BY <2>1, <2>2 DEF CollectsNothing, CallInv
  <2>3. CASE FeedsNothing
    BY <2>1, <2>3 DEF FeedsNothing, CallInv
  <2>4. CASE Completes
    BY <2>1, <2>4 DEF Completes
  <2> QED
    BY <2>2, <2>3, <2>4
<1>2. FilterTypes' /\ FileInv'
  BY <1>1 DEF FilterTypes, FileInv
<1>3. NodeInv' /\ UserInv' /\ KnownInv' /\ KevsInv'
  BY <1>1 DEF NodeInv, UserInv, FiltersAsRecorded, KnownInv, KevsInv, Ended
<1>4. CallInv'
  BY <1>1 DEF CallInv, Excused, Ready
<1> QED
  BY <1>2, <1>3, <1>4

\* Completion finds one more event.
LEMMA CompleteEventKeeps ==
  ASSUME FInv, NEW k \in Filters, CompleteEvent(k) PROVE FInv'
<1> USE DEF FInv
<1>1. /\ stage = "complete" /\ On(file, k) /\ completing' = completing \ {k}
      /\ UNCHANGED <<type, file, knotes, stage, kevs, full, news, seen>>
      /\ node.armed /\ Excused(file) \subseteq seen /\ kevs = {} /\ node.registered
      /\ node \in NodeRecords /\ type \in Types /\ node.revents \subseteq seen
  BY DEF CompleteEvent, NodeInv, CallInv, FilterTypes, NoNode
<1>2. /\ node' \in NodeRecords /\ node'.armed /\ node'.registered
      /\ node'.events = node.events /\ node'.oneshot = node.oneshot /\ node'.has = node.has
      /\ node'.revents \subseteq seen /\ node'.revents \subseteq node.events \cup {"HUP", "ERR"}
      /\ KnownInv'
  <2>1. CASE k = "except"
    <3> DEFINE pri == {"PRI"}
    <3>1. node' = Told(node, pri, "except") /\ pri \subseteq seen /\ pri \subseteq Answers
      BY <1>1, <2>1, ReadySays DEF CompleteEvent, On, FileInv, Answers, PollBits
    <3> HIDE DEF pri
    <3>2. /\ node' \in NodeRecords
          /\ node'.revents = (node.revents \cup pri) \cap (node.events \cup {"HUP", "ERR"})
          /\ node'.registered = node.registered /\ node'.events = node.events
          /\ node'.oneshot = node.oneshot /\ node'.armed = node.armed
          /\ node'.has = node.has /\ node'.eof = node.eof
      <4>1. node \in NodeRecords
        BY <1>1
      <4> QED
        BY <3>1, <4>1, ToldIs
    <3> QED
      BY <1>1, <3>1, <3>2 DEF KnownInv, Ended
  <2>2. CASE k # "except"
    <3> DEFINE nd == Fed(Kevent(k))
    <3>1. k \in Rw
      BY <2>2 DEF Rw, Filters
    <3>2. node' = [nd EXCEPT !.late = nd.late \/ Changed(nd)]
      BY <2>2 DEF CompleteEvent
    <3>3. /\ Truly(Kevent(k), seen) /\ Kevent(k) \in KevRecords /\ Kevent(k).filter = k
      BY <1>1, <3>1, KeventTruly DEF Truly, Kevent
    <3>4. /\ NodeIsFit(nd) /\ nd.revents \subseteq seen
          /\ nd.registered = node.registered /\ nd.events = node.events
          /\ nd.armed /\ nd.has = node.has /\ nd.oneshot = node.oneshot
      BY <1>1, <3>1, <3>3, FedIs
    <3> HIDE DEF nd
    <3>5. (nd.late \/ Changed(nd)) \in BOOLEAN
      BY <3>4 DEF NodeIsFit, NodeRecords, Changed
    <3>6. /\ node' \in NodeRecords /\ node'.armed = nd.armed /\ node'.registered = nd.registered
          /\ node'.events = nd.events /\ node'.oneshot = nd.oneshot /\ node'.has = nd.has
          /\ node'.revents = nd.revents /\ node'.eof = nd.eof
      BY <3>2, <3>4, <3>5 DEF NodeIsFit, NodeRecords
    <3> QED
      BY <1>1, <3>4, <3>6 DEF NodeIsFit, KnownInv, Ended
  <2> QED
    BY <2>1, <2>2
<1>3. FilterTypes' /\ FileInv'
  BY <1>1, <1>2 DEF FilterTypes, FileInv
<1>4. NodeInv' /\ UserInv'
  BY <1>1, <1>2 DEF NodeInv, UserInv, FiltersAsRecorded
<1>5. CallInv' /\ KevsInv'
  BY <1>1, <1>2 DEF CallInv, KevsInv, Excused, Ready
<1> QED
  BY <1>2, <1>3, <1>4, <1>5

\* What was found is reported.
LEMMA ReportsKeeps == FInv /\ Reports => FInv'
<1> SUFFICES ASSUME FInv, Reports PROVE FInv'
  OBVIOUS
<1> USE DEF FInv
<1>1. /\ stage = "complete" /\ stage' = "idle" /\ completing' = {} /\ seen' = {}
      /\ node' = Reported /\ news' = news \ node.revents
      /\ knotes' = (IF node.oneshot THEN RemovedKq ELSE knotes)
      /\ UNCHANGED <<type, file, kevs, full>>
      /\ node.armed /\ node.registered /\ node \in NodeRecords /\ kevs = {}
  BY DEF Reports, NodeInv, CallInv, FilterTypes, NoNode
<1>2. node.oneshot => knotes' = NoFilters
  BY <1>1, RemovedIs DEF NodeInv
<1>3. /\ node' \in NodeRecords /\ node'.armed = ~node.oneshot /\ node'.registered
      /\ node'.events = node.events /\ node'.oneshot = node.oneshot
      /\ node'.has = (IF node.oneshot THEN {} ELSE node.has)
      /\ node'.revents = {} /\ node'.eof = node.eof
  BY <1>1 DEF Reported, NodeRecords
<1>4. knotes' \in [Filters \cup {"user"} -> States]
  BY <1>1, <1>2 DEF FilterTypes, NoFilters, States
<1>5. FilterTypes' /\ FileInv'
  BY <1>1, <1>3, <1>4 DEF FilterTypes, FileInv
<1>6. NodeInv'
  <2>1. CASE node.oneshot
    BY <1>1, <1>2, <1>3, <2>1 DEF NodeInv, FiltersAsRecorded, NoFilters, Filters
  <2>2. CASE ~node.oneshot
    BY <1>1, <1>3, <2>2 DEF NodeInv, FiltersAsRecorded
  <2> QED
    BY <2>1, <2>2
<1>7. UserInv'
  BY <1>1, <1>2, <1>3 DEF UserInv, NoFilters
<1>8. KnownInv' /\ CallInv' /\ KevsInv'
  BY <1>1, <1>3 DEF KnownInv, CallInv, KevsInv, Ended
<1> QED
  BY <1>5, <1>6, <1>7, <1>8

\* What becomes of a file: a socket's or a terminal's ends are for good, an error
\* comes with them, and what is new has the filters that watch for it fire.
Turns(f, ks) ==
  /\ f \in FileRecords /\ ks \subseteq Filters
  /\ type = "other" => f.reof = f.weof
  /\ type \in {"fifo_r", "fifo_rw"} => ~f.weof
  /\ type \in {"fifo_w", "fifo_rw"} => ~f.reof
  /\ type = "fifo_w" => ~f.in
  /\ type = "fifo_r" => ~f.out
  /\ f.err => type = "socket" /\ f.reof /\ f.weof
  /\ f.oob => type = "socket"
  /\ ~Fifo => (file.reof => f.reof) /\ (file.weof => f.weof)
  /\ file.err => f.err
  /\ f.err => file.err \/ ~(file.reof /\ file.weof)
  /\ f.in => file.in \/ "read" \in ks
  /\ f.reof => file.reof \/ "read" \in ks
  /\ f.out => file.out \/ "write" \in ks
  /\ f.weof => file.weof \/ "write" \in ks
  /\ f.oob => file.oob \/ "except" \in ks

LEMMA FileTurns ==
  ASSUME FilterTypes, FileInv, File
  PROVE  \E f, ks : Turns(f, ks) /\ Becomes(f, ks)
<1> USE DEF Turns, FileRecords, FileInv, Fifo, Filters
<1>1. file \in FileRecords /\ type \in Types
  BY DEF FilterTypes
<1>2. CASE Arrives
  <2> DEFINE f == [file EXCEPT !.in = TRUE]
             ks == {"read"}
  <2>1. Becomes(f, ks)
    BY <1>2 DEF Arrives
  <2>2. Turns(f, ks)
    BY <1>1, <1>2, Kinds DEF Arrives, CanRead
  <2> HIDE DEF f, ks
  <2> QED
    BY <2>1, <2>2
<1>3. CASE Drained
  <2> DEFINE f == [file EXCEPT !.in = FALSE]
             ks == {}
  <2>1. Becomes(f, ks)
    BY <1>3 DEF Drained
  <2>2. Turns(f, ks)
    BY <1>1, <1>3, Kinds DEF Drained
  <2> HIDE DEF f, ks
  <2> QED
    BY <2>1, <2>2
<1>4. CASE Room
  <2> DEFINE f == [file EXCEPT !.out = TRUE]
             ks == {"write"}
  <2>1. Becomes(f, ks)
    BY <1>4 DEF Room
  <2>2. Turns(f, ks)
    BY <1>1, <1>4, Kinds DEF Room, CanWrite
  <2> HIDE DEF f, ks
  <2> QED
    BY <2>1, <2>2
<1>5. CASE Filled
  <2> DEFINE f == [file EXCEPT !.out = FALSE]
             ks == {}
  <2>1. Becomes(f, ks)
    BY <1>5 DEF Filled
  <2>2. Turns(f, ks)
    BY <1>1, <1>5, Kinds DEF Filled
  <2> HIDE DEF f, ks
  <2> QED
    BY <2>1, <2>2
<1>6. CASE EndsRead
  <2> DEFINE f == [file EXCEPT !.reof = TRUE]
             ks == {"read"}
  <2>1. Becomes(f, ks)
    BY <1>6 DEF EndsRead
  <2>2. Turns(f, ks)
    BY <1>1, <1>6, Kinds DEF EndsRead
  <2> HIDE DEF f, ks
  <2> QED
    BY <2>1, <2>2
<1>7. CASE EndsWrite
  <2> DEFINE f == [file EXCEPT !.weof = TRUE]
             ks == {"write"}
  <2>1. Becomes(f, ks)
    BY <1>7 DEF EndsWrite
  <2>2. Turns(f, ks)
    BY <1>1, <1>7, Kinds DEF EndsWrite
  <2> HIDE DEF f, ks
  <2> QED
    BY <2>1, <2>2
<1>8. CASE EndsBoth
  <2> DEFINE f == [file EXCEPT !.reof = TRUE, !.weof = TRUE, !.err = type = "socket"]
             ks == {"read", "write"}
  <2>1. Becomes(f, ks)
    BY <1>8 DEF EndsBoth
  <2>2. Turns(f, ks)
    BY <1>1, <1>8, Kinds DEF EndsBoth
  <2> HIDE DEF f, ks
  <2> QED
    BY <2>1, <2>2
<1>9. CASE Reopens
  <2> DEFINE f == [file EXCEPT !.reof = FALSE, !.weof = FALSE]
             ks == {}
  <2>1. Becomes(f, ks)
    BY <1>9 DEF Reopens
  <2>2. Turns(f, ks)
    BY <1>1, <1>9, Kinds DEF Reopens
  <2> HIDE DEF f, ks
  <2> QED
    BY <2>1, <2>2
<1>10. CASE Urgent
  <2> DEFINE f == [file EXCEPT !.oob = TRUE]
             ks == {"except"}
  <2>1. Becomes(f, ks)
    BY <1>10 DEF Urgent
  <2>2. Turns(f, ks)
    BY <1>1, <1>10, Kinds DEF Urgent
  <2> HIDE DEF f, ks
  <2> QED
    BY <2>1, <2>2
<1>11. CASE UrgentRead
  <2> DEFINE f == [file EXCEPT !.oob = FALSE]
             ks == {}
  <2>1. Becomes(f, ks)
    BY <1>11 DEF UrgentRead
  <2>2. Turns(f, ks)
    BY <1>1, <1>11, Kinds DEF UrgentRead
  <2> HIDE DEF f, ks
  <2> QED
    BY <2>1, <2>2
<1> QED
  BY <1>2, <1>3, <1>4, <1>5, <1>6, <1>7, <1>8, <1>9, <1>10, <1>11 DEF File

LEMMA FileKeeps ==
  ASSUME FInv, File PROVE FInv'
<1> USE DEF FInv
<1> PICK f, ks : Turns(f, ks) /\ Becomes(f, ks)
  BY FileTurns
<1>1. /\ file' = f
      /\ knotes' = [k \in DOMAIN knotes |->
                     IF k \in ks /\ knotes[k] = "clear" THEN "fired" ELSE knotes[k]]
      /\ seen' = (IF stage = "idle" THEN {} ELSE seen \cup Excused(f))
      /\ news' = (IF node.et THEN (news \cup (Ready(f) \ Ready(file))) \cap Ready(f)
                  ELSE {})
      /\ UNCHANGED <<type, node, stage, kevs, full, completing>>
      /\ type \in Types /\ f \in FileRecords /\ "user" \notin ks
      /\ type = "socket" \/ type = "other" => (file.reof => f.reof) /\ (file.weof => f.weof)
      /\ file.err => f.err
  BY DEF Becomes, FilterTypes, Turns, Fifo, Filters
<1>2. /\ knotes' \in [Filters \cup {"user"} -> States]
      /\ \A k \in Filters \cup {"user"} : knotes'[k] = "none" <=> knotes[k] = "none"
      /\ \A k \in Filters \cup {"user"} : knotes'[k] = "level" <=> knotes[k] = "level"
      /\ knotes'["user"] = knotes["user"]
  BY <1>1 DEF FilterTypes, States
<1>3. Ready(f) \subseteq Answers /\ Excused(f) \subseteq Answers
  BY <1>1, ReadySays
<1>4. FilterTypes'
  BY <1>1, <1>2, <1>3 DEF FilterTypes
<1>5. ~node.armed => knotes' = NoFilters
  BY <1>1, <1>2 DEF NodeInv, NoFilters
<1>6. NodeInv' /\ UserInv'
  BY <1>1, <1>2, <1>5 DEF NodeInv, UserInv, FiltersAsRecorded, Filters
<1>7. KnownInv'
  BY <1>1 DEF KnownInv, Ended
<1>8. CallInv'
  BY <1>1 DEF CallInv, Excused, Ready
<1>9. KevsInv'
  <2>1. ASSUME NEW ev \in kevs PROVE EventIsTrue(ev)'
    <3>1. seen \subseteq seen'
      BY <1>1, <2>1 DEF CallInv
    <3> QED
      BY <1>1, <1>2, <2>1, <3>1 DEF KevsInv, EventIsTrue, Truly, Ended, Fifo
  <2> QED
    BY <1>1, <2>1 DEF KevsInv
<1>10. FileInv'
  BY <1>1 DEF Turns, FileInv
<1> QED
  BY <1>4, <1>6, <1>7, <1>8, <1>9, <1>10

LEMMA StutterKeeps == FInv /\ UNCHANGED filterVars => FInv'
<1> SUFFICES ASSUME FInv, UNCHANGED filterVars PROVE FInv'
  OBVIOUS
<1> USE DEF FInv, filterVars
<1>1. FilterTypes' /\ FileInv'
  BY DEF FilterTypes, FileInv
<1>2. NodeInv' /\ KnownInv' /\ UserInv'
  BY DEF NodeInv, KnownInv, UserInv, FiltersAsRecorded, Ended
<1>3. CallInv' /\ KevsInv'
  BY DEF CallInv, KevsInv, EventIsTrue, Truly, Ended, Fifo, Excused, Ready
<1> QED
  BY <1>1, <1>2, <1>3

LEMMA FilterStep == FInv /\ NoOobBack /\ [FilterNext]_filterVars => FInv'
<1> SUFFICES ASSUME FInv, NoOobBack, [FilterNext]_filterVars PROVE FInv'
  OBVIOUS
<1>1. CASE \E reg \in EpollEvents : CtlAdd(reg) \/ CtlMod(reg)
  BY <1>1, CtlKeeps
<1>2. CASE CtlDel
  BY <1>2, CtlDelKeeps
<1>3. CASE Collects \/ Reports
  BY <1>3, CollectsKeeps, ReportsKeeps
<1>4. CASE CollectsNothing \/ FeedsNothing \/ Completes
  BY <1>4, OthersKeep
<1>5. CASE \E ev \in kevs : FeedEvent(ev) \/ FeedExcept(ev) \/ FeedUser(ev)
  BY <1>5, FeedEventKeeps, FeedExceptKeeps, FeedUserKeeps
<1>6. CASE \E k \in Filters : CompleteEvent(k)
  BY <1>6, CompleteEventKeeps
<1>7. CASE File
  BY <1>7, FileKeeps
<1>8. CASE UNCHANGED filterVars
  BY <1>8, StutterKeeps
<1> QED
  BY <1>1, <1>2, <1>3, <1>4, <1>5, <1>6, <1>7, <1>8 DEF FilterNext, Thread

LEMMA FInvSays == FInv => FilterInv
<1> SUFFICES ASSUME FInv PROVE FilterInv
  OBVIOUS
<1> USE DEF FInv
<1>1. FilterTypeOK
  <2>1. DOMAIN file = DOMAIN Quiet /\ \A x \in DOMAIN file : file[x] \in BOOLEAN
    BY DEF FilterTypes, FileRecords, Quiet
  <2>2. DOMAIN node = DOMAIN NoNode
    BY DEF FilterTypes, NodeRecords, NoNode
  <2> QED
    BY <2>1, <2>2 DEF FilterTypeOK, FilterTypes, NodeRecords, NodeInv, Sides
<1>2. ReportsAreTrue /\ FiltersAsRecorded
  BY DEF ReportsAreTrue, CallInv, NodeInv
<1>3. OneshotIsSilent
  BY DEF OneshotIsSilent, NodeInv, Active, NoFilters
<1>4. Assertions
  <2>1. /\ NeededFilters(node)["read"] # "none" \/ NeededFilters(node)["write"] # "none"
        /\ type = "fifo_w" => NeededFilters(node)["read"] = "none"
    BY Needs DEF FilterTypes, NodeInv
  <2> QED
    BY <2>1 DEF Assertions, KevsInv, EventIsTrue
<1> QED
  BY <1>1, <1>2, <1>3, <1>4 DEF FilterInv

\* The kqueue has the filters the has_evfilt flags record, what is reported was so
\* during the call, a one-shot node that was reported is silent, and the assertions of
\* epollfd_ctx.c hold, whatever clients register and whatever becomes of the file.
THEOREM FiltersKept == ASSUME NoOobBack PROVE FilterSpec => []FilterInv
<1>1. FInv /\ [FilterNext]_filterVars => FInv'
  BY FilterStep
<1> QED
  BY <1>1, FilterStart, FInvSays, PTL DEF FilterSpec

-----------------------------------------------------------------------------
\* Nothing is missed.  A filter that is on its way: it is pending in the kqueue,
\* or its event was returned and is not fed yet.
Coming(k) == \E ev \in kevs : ev.filter = k
Stir(k) == knotes[k] = "fired" \/ Coming(k)

BothKnown == node.eof = Sides

\* An edge-triggered file both of whose ends are known keeps the filters it has.
Loose == node.et /\ BothKnown /\ ~Fifo

Others(ev) == Rw \ {ev.filter}

\* What events tell of ends agrees with what is known, and a filter whose event is
\* stale about the end is pending again.
OfItsEnd(ev) ==
  /\ type = "fifo_r" => ev.filter # "write"
  /\ type = "fifo_w" => ev.filter # "read"
  /\ ~ev.eof /\ ev.filter \in Rw =>
       /\ type = "socket" => SideOf(ev.filter) \notin node.eof
       /\ type = "other" => node.eof = {}
       /\ Ended(ev.filter) => knotes[ev.filter] # "clear"

KevInv ==
  /\ \A ev \in kevs : OfItsEnd(ev)
  /\ type = "other" => \A ev, e2 \in kevs : ev.eof => e2.eof
  /\ type = "socket" /\ file.err =>
       \A ev \in kevs : ev.filter \in Rw /\ ev.eof /\ ~ev.err =>
         \A k \in Others(ev) :
           /\ SideOf(k) \notin node.eof
           /\ \A e2 \in kevs : e2.filter = k => ~e2.eof

\* The filters are the ones the node needs.
MatchInv ==
  /\ type = "fifo_w" =>
       /\ node.has \in {{}, {"write"}}
       /\ node.armed /\ node.has = {} => node.et \/ Stir("user")
  /\ node.armed /\ ~node.late =>
       /\ type # "fifo_w" /\ ~Loose =>
            \A k \in Rw : k \in node.has <=> NeededFilters(node)[k] # "none"
       /\ ~node.et => \A k \in Rw \cap node.has :
                        knotes[k] = "level" <=> NeededFilters(node)[k] = "level"
       /\ node.et => \A k \in Rw \cap node.has : knotes[k] # "level"

\* A filter that waits for an edge has told of the end, or will.
EdgeInv ==
  /\ \A k \in Rw : knotes[k] = "clear" /\ Ended(k) =>
       SideOf(k) \in node.eof \/ \E ev \in kevs : ev.filter = k /\ ev.eof
  /\ knotes["except"] = "clear" /\ file.oob /\ ~node.et => Coming("except")

\* What has come up and was not found yet has a filter that will tell of it.
Announced(e) ==
  /\ e = "PRI" => Stir("except")
  /\ ~Fifo =>
       /\ e = "IN" => Stir("read")
       /\ e = "OUT" => Stir("write") \/ (type = "socket" /\ BothKnown /\ Stir("read"))
       /\ e = "RDHUP" /\ "R" \in node.eof => Stir("read")
       /\ e \in {"HUP", "ERR"} /\ BothKnown => Stir("read") \/ Stir("write")
  /\ Fifo /\ node.has # {} =>
       /\ e = "IN" =>
            knotes["read"] = "fired" \/ \E ev \in kevs : ev.filter = "read" /\ ev.data
       /\ e = "OUT" =>
            knotes["write"] = "fired" \/ \E ev \in kevs : ev.filter = "write" /\ ev.data
       /\ e = "HUP" =>
            knotes["read"] = "fired" \/ \E ev \in kevs : ev.filter = "read" /\ ev.eof
       /\ e = "ERR" =>
            knotes["write"] = "fired" \/ \E ev \in kevs : ev.filter = "write" /\ ev.eof

NewsInv ==
  /\ news \subseteq Ready(file)
  /\ node.et /\ node.armed /\ ~node.late =>
       \A e \in (news \cap (node.events \cup {"HUP", "ERR"})) \ node.revents : Announced(e)

\* Filters are needed for what a node asks for, and the end that is not known.
LEMMA NeedsWhat ==
  ASSUME NEW nd \in NodeRecords, type \in Types,
         type # "socket" => nd.events \subseteq {"IN", "OUT"} /\ nd.eof \in {{}, Sides}
  PROVE  LET nf == NeededFilters(nd)
             has(k) == nf[k] # "none" /\ (~nd.et => nf[k] = "level")
         IN  /\ "IN" \in nd.events /\ type # "fifo_w" => has("read")
             /\ "OUT" \in nd.events /\ type # "fifo_r" =>
                  has("write") \/ (type = "socket" /\ nd.eof = Sides /\ has("read"))
             /\ "RDHUP" \in nd.events /\ type = "socket" =>
                  nf["read"] # "none" /\ ("R" \in nd.eof => has("read"))
             /\ nd.eof = Sides /\ type # "fifo_rw" => has("read") \/ has("write")
             /\ type = "socket" /\ nd.eof = {"R"} => nf["write"] # "none"
             /\ type = "socket" /\ nd.eof = {"W"} => nf["read"] # "none"
             /\ type = "fifo_r" => nf["read"] # "none"
             /\ type = "fifo_w" => nf["write"] # "none"
<1>1. nd.eof \in {{}, {"R"}, {"W"}, Sides} /\ nd.events \subseteq PollBits /\ nd.et \in BOOLEAN
  BY DEF NodeRecords, Sides
<1>2. \A k \in Rw : NeededFilters(nd)[k] =
        LET nf == IF type = "socket" THEN SocketFilters(nd) ELSE OtherFilters(nd)
        IN  IF nd.et /\ nf[k] # "none" THEN "clear" ELSE nf[k]
  BY DEF NeededFilters, Rw, Filters
<1>3. CASE type = "socket"
  <2> DEFINE sf == SocketFilters(nd)
  <2>1. /\ "IN" \in nd.events => sf["read"] = "level"
        /\ "OUT" \in nd.events => sf["write"] = "level" \/ (nd.eof = Sides /\ sf["read"] = "level")
        /\ "RDHUP" \in nd.events => sf["read"] # "none" /\ ("R" \in nd.eof => sf["read"] = "level")
        /\ nd.eof = Sides => sf["read"] = "level" \/ sf["write"] = "level"
        /\ nd.eof = {"R"} => sf["write"] # "none"
        /\ nd.eof = {"W"} => sf["read"] # "none"
    BY <1>1 DEF SocketFilters, Watch, If, Sides
  <2> HIDE DEF sf
  <2> QED
    BY <1>2, <1>3, <2>1 DEF Rw, sf
<1>4. CASE type # "socket"
  <2> DEFINE of == OtherFilters(nd)
  <2>1. /\ "IN" \in nd.events /\ type # "fifo_w" => of["read"] = "level"
        /\ "OUT" \in nd.events /\ type # "fifo_r" => of["write"] = "level"
        /\ nd.eof = Sides /\ type # "fifo_rw" => of["read"] = "level" \/ of["write"] = "level"
        /\ type = "fifo_r" => of["read"] # "none"
        /\ type = "fifo_w" => of["write"] # "none"
    BY <1>1, <1>4, Kinds DEF OtherFilters, Watch, If, Sides
  <2> HIDE DEF of
  <2> QED
    BY <1>2, <1>4, <2>1 DEF Rw, of
<1> QED
  BY <1>3, <1>4

LEMMA NeedsSame ==
  ASSUME NEW n1, NEW n2, n1.events = n2.events, n1.et = n2.et, n1.eof = n2.eof
  PROVE  NeededFilters(n1) = NeededFilters(n2)
<1>1. SocketFilters(n1) = SocketFilters(n2)
  BY DEF SocketFilters
<1>2. OtherFilters(n1) = OtherFilters(n2)
  BY DEF OtherFilters
<1> QED
  BY <1>1, <1>2 DEF NeededFilters

\* A FIFO without a reader refuses.
LEMMA RegisteredRefused ==
  ASSUME NEW nd \in NodeRecords, type \in Types, type = "fifo_w", file.weof,
         nd.events \subseteq {"IN", "OUT"}, Registered(nd)
  PROVE  node'.has = {}
<1>1. /\ NeededFilters(nd)["read"] = "none" /\ NeededFilters(nd)["except"] = "none"
      /\ NeededFilters(nd)["write"] # "none"
  BY Needs DEF Filters
<1>2. {k \in Filters : NeededFilters(nd)[k] # "none"} \ {"write"} = {}
  BY <1>1 DEF Filters
<1> QED
  BY <1>1, <1>2 DEF Registered, Fifo, NodeRecords

\* Filters that are registered anew fire for all that is so: nothing is missed,
\* whatever was known before.
LEMMA RegisteredWatches ==
  ASSUME FilterTypes, FileInv, NEW nd, NodeIsFit(nd), UNCHANGED <<type, file>>,
         \A k \in Filters \cup {"user"} :
           OldKq(nd)[k] # "none" => k = "except" /\ "PRI" \in nd.events,
         Registered(nd), news' \subseteq Ready(file)
  PROVE  /\ MatchInv' /\ EdgeInv' /\ NewsInv'
         /\ node'.eof = nd.eof \/ type = "fifo_w"
         /\ \A k \in Rw : Ended(k) => knotes'[k] # "clear"
<1> DEFINE nf == NeededFilters(nd)
<1>1. /\ nd \in NodeRecords /\ nd.armed
      /\ type # "socket" => nd.events \subseteq {"IN", "OUT"} /\ nd.eof \in {{}, Sides}
      /\ type = "socket" => \A k \in Rw : SideOf(k) \in nd.eof => Ended(k)
      /\ type = "other" /\ nd.eof # {} => file.reof
      /\ type \in Types
  BY DEF NodeIsFit, FilterTypes
<1>2. /\ \A k \in Filters : knotes'[k] # "none" <=> k \in node'.has
      /\ \A k \in Rw \cap node'.has : knotes'[k] = Added(k, nf[k])
      /\ knotes'["except"] = IF "PRI" \in nd.events THEN Added("except", "clear")
                             ELSE "none"
      /\ node'.events = nd.events /\ node'.et = nd.et /\ node'.armed = nd.armed
      /\ node' \in NodeRecords
      /\ \/ /\ node'.eof = nd.eof /\ knotes'["user"] = "none"
            /\ \A k \in Rw : k \in node'.has <=> nf[k] # "none"
         \/ /\ node'.eof = Sides /\ type = "fifo_w" /\ file.weof
            /\ node'.has = {} /\ knotes'["user"] = "fired"
      /\ "except" \in node'.has <=> "PRI" \in nd.events
  BY <1>1, RegisteredDoes
<1>3. /\ nf \in [Filters -> {"none", "level", "clear"}]
      /\ nd.et => \A k \in Filters : nf[k] # "level"
      /\ type = "fifo_r" => nf["write"] = "none"
      /\ type = "fifo_w" => nf["read"] = "none"
      /\ "IN" \in nd.events /\ type # "fifo_w" => nf["read"] # "none"
      /\ "OUT" \in nd.events /\ type # "fifo_r" =>
           nf["write"] # "none" \/ (type = "socket" /\ nd.eof = Sides /\ nf["read"] # "none")
      /\ "RDHUP" \in nd.events /\ type = "socket" => nf["read"] # "none"
      /\ nd.eof = Sides /\ type # "fifo_rw" => nf["read"] # "none" \/ nf["write"] # "none"
      /\ type = "fifo_r" => nf["read"] # "none"
      /\ type = "fifo_w" => nf["write"] # "none"
  BY <1>1, Needs, NeedsWhat
<1>4. \A k \in Rw \cap node'.has : nf[k] \in {"level", "clear"} /\ nf[k] # "none"
  BY <1>2, <1>3 DEF Rw, Filters
<1>5. \A k \in Rw : knotes'[k] = (IF k \notin node'.has THEN "none"
                                  ELSE IF nf[k] = "level" THEN "level"
                                  ELSE IF On(file, k) THEN "fired" ELSE "clear")
  BY <1>2, <1>4 DEF Added, Rw, Filters
<1>6. \A k \in Rw : Ended(k) => On(file, k)
  BY DEF Ended, On, Rw
<1>7. MatchInv'
  <2>1. type = "fifo_w" => /\ node'.has \in {{}, {"write"}}
                           /\ node'.has = {} => knotes'["user"] = "fired"
    <3>1. type = "fifo_w" => "except" \notin node'.has
      BY <1>1, <1>2
    <3> QED
      BY <1>2, <1>3, <3>1 DEF Rw, NodeRecords, Filters
  <2>2. node'.has # {} => NeededFilters(node') = nf
    BY <1>2, NeedsSame
  <2>3. type # "fifo_w" => NeededFilters(node') = nf
    BY <1>2, NeedsSame
  <2>4. NeededFilters(node)' = NeededFilters(node')
    BY DEF NeededFilters, SocketFilters, OtherFilters
  <2> QED
    BY <1>2, <1>3, <1>4, <1>5, <2>1, <2>2, <2>3, <2>4 DEF MatchInv, Stir, Rw, Filters
<1>8. EdgeInv'
  BY <1>2, <1>5, <1>6 DEF EdgeInv, Added, On, Ended
<1>9. NewsInv'
  <2>1. SUFFICES ASSUME nd.et, NEW e \in news' \cap (nd.events \cup {"HUP", "ERR"})
                 PROVE  Announced(e)'
    BY <1>2 DEF NewsInv, Ready
  <2>2. e \in Ready(file)
    BY <2>1
  <2>3. \A k \in Rw \cap node'.has : On(file, k) => knotes'[k] = "fired"
    BY <1>3, <1>5, <2>1 DEF Rw, Filters
  <2>4. e = "PRI" => knotes'["except"] = "fired"
    BY <1>1, <1>2, <2>1, <2>2, ReadySays DEF Added, On
  <2>5. ASSUME ~Fifo, e \in {"IN", "OUT", "RDHUP", "HUP", "ERR"} PROVE Announced(e)'
    <3>1. \A k \in Rw : k \in node'.has <=> nf[k] # "none"
      BY <1>2, <2>5 DEF Fifo
    <3>2. node'.eof = nd.eof
      BY <1>2, <2>5 DEF Fifo
    <3>3. nd.eof = Sides => file.reof /\ file.weof
      BY <1>1, <2>5, Kinds DEF FileInv, Ended, SideOf, Sides, Rw, Fifo
    <3>4. type \in {"socket", "other"}
      BY <1>1, <2>5, Kinds DEF Fifo
    <3>5. e = "IN" => knotes'["read"] = "fired"
      <4>1. e = "IN" => On(file, "read")
        BY <1>1, <2>2, <3>4, ReadySays DEF On
      <4>2. e = "IN" => nf["read"] # "none"
        BY <1>1, <1>3, <2>1, <3>4
      <4> QED
        BY <2>3, <3>1, <4>1, <4>2 DEF Rw
    <3>6. e = "OUT" => knotes'["write"] = "fired"
                       \/ (type = "socket" /\ nd.eof = Sides /\ knotes'["read"] = "fired")
      BY <1>1, <1>3, <2>1, <2>2, <2>3, <3>1, <3>3, <3>4, ReadySays DEF On, Rw
    <3>7. e = "RDHUP" => knotes'["read"] = "fired"
      <4>1. e = "RDHUP" => On(file, "read")
        BY <1>1, <2>2, <3>4, ReadySays DEF On
      <4>2. e = "RDHUP" => nf["read"] # "none"
        BY <1>1, <1>3, <2>1, <3>4
      <4> QED
        BY <2>3, <3>1, <4>1, <4>2 DEF Rw
    <3>8. nd.eof = Sides => knotes'["read"] = "fired" \/ knotes'["write"] = "fired"
      BY <1>3, <2>3, <3>1, <3>3, <3>4 DEF On, Rw
    <3> QED
      BY <2>5, <3>2, <3>5, <3>6, <3>7, <3>8 DEF Announced, Stir, BothKnown, Fifo
  <2>6. ASSUME Fifo, node'.has # {}, e \in {"IN", "OUT", "RDHUP", "HUP", "ERR"}
        PROVE  Announced(e)'
    <3>1. \A k \in Rw : k \in node'.has <=> nf[k] # "none"
      BY <1>2, <2>6
    <3>2. type = "fifo_w" => ~file.weof
      <4>1. type = "fifo_w" => nf["write"] # "none" /\ Fifo
        BY <1>3 DEF Fifo
      <4>2. type = "fifo_w" /\ file.weof => node'.has = {}
        BY <4>1, RegisteredRefused, <1>1
      <4> QED
        BY <2>6, <4>2
    <3>3. e = "IN" => knotes'["read"] = "fired"
      BY <1>1, <1>3, <2>1, <2>2, <2>3, <2>6, <3>1, ReadySays DEF On, Rw, FileInv, Fifo
    <3>4. e = "OUT" => knotes'["write"] = "fired"
      BY <1>1, <1>3, <2>1, <2>2, <2>3, <2>6, <3>1, ReadySays DEF On, Rw, FileInv, Fifo
    <3>5. e = "HUP" => knotes'["read"] = "fired"
      BY <1>1, <1>3, <2>1, <2>2, <2>3, <2>6, <3>1, ReadySays DEF On, Rw, FileInv, Fifo
    <3>6. e # "ERR"
      BY <1>1, <2>2, <2>6, <3>2, ReadySays DEF Fifo
    <3> QED
      BY <2>6, <3>3, <3>4, <3>5, <3>6 DEF Announced, Fifo
  <2>7. Fifo /\ node'.has = {} => (e = "PRI" \/ Announced(e)')
    BY DEF Announced, Fifo
  <2>8. e \in Answers
    BY <1>1, <2>2, ReadySays
  <2>9. e = "PRI" => Announced(e)'
    BY <2>4 DEF Announced, Stir
  <2> QED
    BY <2>5, <2>6, <2>7, <2>8, <2>9 DEF Answers, PollBits
<1>10. node'.eof = nd.eof \/ type = "fifo_w"
  BY <1>2
<1> QED
  BY <1>5, <1>6, <1>7, <1>8, <1>9, <1>10

\* An event is fed and the filters stay: what it told of needs none any more, and
\* for the rest nothing has changed.
LEMMA FedWatches ==
  ASSUME FInv, MatchInv, EdgeInv, NewsInv, node.armed,
         NEW ev \in KevRecords, ev.filter \in Rw, Truly(ev, seen), OfItsEnd(ev),
         Excused(file) \subseteq seen,
         type = "socket" /\ file.err /\ NewEof(ev) = Sides => ev.eof /\ ev.err,
         \A e2 \in kevs : e2 = ev \/ (e2 \in kevs' /\ e2.filter # ev.filter),
         kevs' \subseteq kevs,
         UNCHANGED <<type, file, knotes, news>>,
         node' \in NodeRecords, node'.eof = NewEof(ev), node'.has = node.has,
         node'.et = node.et, node'.events = node.events, node'.armed,
         node'.revents = Fed(ev).revents,
         ~node'.late => ~node.late /\ ~Changed(Fed(ev))
  PROVE  MatchInv' /\ EdgeInv' /\ NewsInv'
<1> DEFINE eof == NewEof(ev)
           nd == Fed(ev)
<1> USE DEF FInv
<1>1. /\ eof \subseteq Sides /\ node.eof \subseteq Sides /\ ev.eof \in BOOLEAN
      /\ type = "socket" => /\ eof = IF ev.eof THEN node.eof \cup {SideOf(ev.filter)}
                                     ELSE node.eof \ {SideOf(ev.filter)}
                            /\ \A k \in Rw : SideOf(k) \in eof => Ended(k)
      /\ type # "socket" => eof = IF ev.eof THEN Sides ELSE {}
      /\ type \in Types
  BY Learns DEF FilterTypes, NodeRecords, KevRecords
<1>2. /\ nd.events = node.events /\ nd.et = node.et /\ nd.eof = eof
      /\ nd.revents = (node.revents \cup Revents(ev, eof)) \cap (node.events \cup {"HUP", "ERR"})
  BY FedIs DEF CallInv
<1> HIDE DEF nd, eof
<1>3. ~Fifo => node.eof \subseteq eof
  BY <1>1, Kinds DEF OfItsEnd, Fifo
<1>4. \A k \in Filters \cup {"user"} : k # ev.filter => (Coming(k) => Coming(k)')
  BY DEF Coming
<1>5. EdgeInv'
  <2>1. ASSUME NEW k \in Rw, knotes[k] = "clear", Ended(k), SideOf(k) \in node.eof
        PROVE  SideOf(k) \in eof
    <3>1. CASE ~Fifo
      BY <1>3, <2>1, <3>1
    <3>2. CASE Fifo
      <4>1. k = ev.filter
        BY <2>1, <3>2 DEF OfItsEnd, Fifo, Ended, FileInv, Rw
      <4>2. ev.eof
        BY <1>1, <2>1, <4>1 DEF OfItsEnd
      <4> QED
        BY <1>1, <3>2, <4>2 DEF Fifo, SideOf, Sides
    <3> QED
      BY <3>1, <3>2
  <2>2. ASSUME NEW k \in Rw, knotes[k] = "clear", Ended(k), NEW e2 \in kevs,
               e2.filter = k, e2.eof
        PROVE  SideOf(k) \in eof \/ e2 \in kevs'
    <3>1. e2 = ev => SideOf(k) \in eof
      BY <1>1, <2>2 DEF SideOf, Sides
    <3> QED
      BY <3>1
  <2>3. \A k \in Rw : knotes[k] = "clear" /\ Ended(k) =>
          SideOf(k) \in eof \/ \E e2 \in kevs' : e2.filter = k /\ e2.eof
    BY <2>1, <2>2 DEF EdgeInv
  <2>4. knotes["except"] = "clear" /\ file.oob /\ ~node.et => Coming("except")'
    BY <1>4 DEF EdgeInv, Filters, Rw
  <2> QED
    BY <2>3, <2>4 DEF EdgeInv, Ended, eof
<1>6. MatchInv'
  <2>1. NeededFilters(node)' = NeededFilters(nd)
    <3>1. NeededFilters(node') = NeededFilters(nd)
      BY <1>2, NeedsSame DEF eof
    <3>2. NeededFilters(node)' = NeededFilters(node')
      BY DEF NeededFilters, SocketFilters, OtherFilters
    <3> QED
      BY <3>1, <3>2
  <2>2. Loose => Loose'
    BY <1>1, <1>3 DEF Loose, BothKnown, Fifo, eof
  <2>3. ~node'.late /\ ~Loose' => \A k \in Rw : NeededFilters(nd)[k] = NeededFilters(node)[k]
    BY <1>2 DEF Changed, Loose, BothKnown, Rw, Fifo, Sides, eof, nd
  <2>4. ~node.et => ~Loose'
    BY DEF Loose
  <2>5. type = "fifo_w" =>
          /\ node'.has \in {{}, {"write"}}
          /\ node'.armed /\ node'.has = {} => node'.et \/ Stir("user")'
    BY <1>4 DEF MatchInv, Stir, Rw
  <2>6. ~node'.late => ~node.late
    OBVIOUS
  <2> QED
    BY <2>1, <2>2, <2>3, <2>4, <2>5, <2>6 DEF MatchInv
<1>7. NewsInv'
  <2>1. SUFFICES ASSUME node.et, ~node.late,
                        NEW e \in (news \cap (node.events \cup {"HUP", "ERR"})) \ nd.revents
                 PROVE  Announced(e)'
    BY <1>2 DEF NewsInv, Ready, nd
  <2>2. e \in Ready(file) /\ Announced(e) /\ e \notin Revents(ev, eof)
    BY <1>2, <2>1 DEF NewsInv
  <2>3. \A k \in Filters : k # ev.filter => (Stir(k) => Stir(k)')
    BY <1>4 DEF Stir
  <2>4. e = "PRI" => Announced(e)'
    BY <2>2, <2>3 DEF Announced, Filters, Rw
  <2>5. CASE ~Fifo /\ e # "PRI"
    <3>1. type \in {"socket", "other"}
      BY <1>1, <2>5, Kinds DEF Fifo
    <3>2. /\ ev.filter = "read" => e # "IN"
          /\ ev.filter = "write" => e # "OUT"
          /\ type = "socket" /\ "R" \in eof => e \notin {"IN", "RDHUP"}
          /\ type = "socket" /\ "W" \in eof => e # "OUT"
          /\ type = "socket" /\ eof = Sides => e # "HUP"
          /\ type = "other" /\ eof # {} => e # "HUP"
          /\ ev.eof /\ ev.err => e # "ERR"
      BY <2>2, <2>5, <3>1 DEF Revents, Hups, Sides
    <3>3. e = "ERR" => eof # Sides
      BY <1>1, <2>2, <3>1, <3>2, ReadySays DEF eof
    <3>4. e \in {"HUP", "ERR"} => eof # Sides
      BY <3>1, <3>2, <3>3 DEF Sides
    <3>5. e = "RDHUP" => "R" \notin eof
      BY <1>1, <2>2, <3>1, <3>2, ReadySays
    <3>6. e = "IN" => Stir("read")'
      BY <2>2, <2>3, <2>5, <3>2 DEF Announced, Filters, Rw
    <3>7. e = "OUT" => Stir("write")'
      <4>1. e = "OUT" => ~(type = "socket" /\ BothKnown)
        BY <1>3, <2>5, <3>2 DEF BothKnown, Sides
      <4> QED
        BY <2>2, <2>3, <2>5, <3>2, <4>1 DEF Announced, Filters, Rw
    <3> QED
      BY <2>5, <3>4, <3>5, <3>6, <3>7 DEF Announced, BothKnown, Fifo, eof
  <2>6. CASE Fifo /\ e # "PRI"
    <3>1. /\ ev.filter = "read" /\ ev.data => e # "IN"
          /\ ev.filter = "write" /\ ev.data => e # "OUT"
          /\ ev.filter = "read" /\ ev.eof => e # "HUP"
          /\ ev.filter = "write" /\ ev.eof => e # "ERR"
      BY <1>1, <2>2, <2>6 DEF Revents, Fifo, Sides
    <3> QED
      BY <2>2, <2>6, <3>1 DEF Announced, Fifo
  <2> QED
    BY <2>4, <2>5, <2>6
<1> QED
  BY <1>5, <1>6, <1>7

\* What keeps events from being missed.
WatchInv == KevInv /\ MatchInv /\ EdgeInv /\ NewsInv

LEMMA WatchStart == FilterInit => WatchInv
<1> SUFFICES ASSUME FilterInit PROVE WatchInv
  OBVIOUS
<1> USE DEF FilterInit, NoNode, NoFilters
<1>1. KevInv /\ MatchInv
  BY DEF KevInv, MatchInv
<1>2. EdgeInv /\ NewsInv
  BY DEF EdgeInv, NewsInv, Rw, Filters
<1> QED
  BY <1>1, <1>2 DEF WatchInv

LEMMA CtlWatches ==
  ASSUME FInv, NoOobBack, NEW reg \in EpollEvents, CtlAdd(reg) \/ CtlMod(reg)
  PROVE  WatchInv'
<1>1. PICK nd : /\ NodeIsFit(nd) /\ Registered(nd)
                /\ \A k \in Filters \cup {"user"} : OldKq(nd)[k] = "none"
  BY CtlRegisters
<1>2. kevs' = {} /\ UNCHANGED <<type, file>> /\ news' \subseteq Ready(file)
  BY CtlRegisters
<1>3. MatchInv' /\ EdgeInv' /\ NewsInv'
  BY <1>1, <1>2, RegisteredWatches DEF FInv
<1>4. KevInv'
  BY <1>2 DEF KevInv
<1> QED
  BY <1>3, <1>4 DEF WatchInv

LEMMA CtlDelWatches == FInv /\ NoOobBack /\ CtlDel => WatchInv'
<1> SUFFICES ASSUME FInv, NoOobBack, CtlDel PROVE WatchInv'
  OBVIOUS
<1>1. /\ node' = NoNode /\ knotes' = NoFilters /\ news' = {} /\ kevs' = {}
  BY RemovedIs DEF CtlDel, MayTakeBack, NoOobBack, FInv, CallInv
<1>2. KevInv' /\ MatchInv'
  BY <1>1 DEF KevInv, MatchInv, NoNode
<1>3. EdgeInv' /\ NewsInv'
  BY <1>1 DEF EdgeInv, NewsInv, NoNode, NoFilters, Rw, Filters
<1> QED
  BY <1>2, <1>3 DEF WatchInv

\* Steps that leave the file, the kqueue and what is known of them alone.
LEMMA OthersWatch ==
  ASSUME WatchInv, UNCHANGED <<type, file, knotes, node, kevs, news>> PROVE WatchInv'
<1> USE DEF WatchInv
<1>1. NeededFilters(node)' = NeededFilters(node)
  BY DEF NeededFilters, SocketFilters, OtherFilters
<1>2. KevInv' /\ EdgeInv'
  BY DEF KevInv, OfItsEnd, Ended, EdgeInv, Coming
<1>3. MatchInv'
  BY <1>1 DEF MatchInv, Stir, Coming, Loose, BothKnown, Fifo
<1>4. \A e : Announced(e)' <=> Announced(e)
  BY DEF Announced, Stir, Coming, BothKnown, Fifo
<1>5. NewsInv'
  BY <1>4 DEF NewsInv, Ready
<1> QED
  BY <1>2, <1>3, <1>5

\* EVFILT_READ or EVFILT_WRITE was returned, and is fed.
LEMMA FeedEventWatches ==
  ASSUME FInv, WatchInv, NEW ev \in kevs, FeedEvent(ev) PROVE WatchInv'
<1> DEFINE nd == Fed(ev)
<1> USE DEF FInv, WatchInv
<1>1. /\ stage = "feed" /\ ev.filter \in Rw /\ kevs' = kevs \ {ev} /\ Reregisters(nd)
      /\ UNCHANGED <<type, file, stage, full, completing, news, seen>>
  BY DEF FeedEvent, Rw
<1>2. /\ ev \in KevRecords /\ node.armed /\ Truly(ev, seen) /\ Excused(file) \subseteq seen
      /\ node.revents \subseteq seen /\ node.registered /\ OfItsEnd(ev)
      /\ \A e2 \in kevs : e2.filter = ev.filter => e2 = ev
  BY <1>1 DEF FilterTypes, NodeInv, KevsInv, EventIsTrue, CallInv, NoNode, KevInv
<1>3. /\ NodeIsFit(nd) /\ nd.registered = node.registered /\ nd.events = node.events
      /\ nd.armed /\ nd.has = node.has /\ nd.et = node.et /\ nd.late = node.late
      /\ nd.eof = NewEof(ev)
  BY <1>1, <1>2, FedIs
<1>4. /\ type = "socket" => NewEof(ev) = IF ev.eof THEN node.eof \cup {SideOf(ev.filter)}
                                         ELSE node.eof \ {SideOf(ev.filter)}
      /\ type # "socket" => NewEof(ev) = IF ev.eof THEN Sides ELSE {}
  BY <1>1, <1>2, Learns
<1>5. type = "socket" /\ file.err /\ NewEof(ev) = Sides => ev.eof /\ ev.err
  <2> SUFFICES ASSUME type = "socket", file.err, NewEof(ev) = Sides
               PROVE  ev.eof /\ ev.err
    OBVIOUS
  <2>1. ev.eof
    BY <1>4 DEF SideOf, Sides
  <2>2. \A k \in Others(ev) : SideOf(k) # SideOf(ev.filter)
    BY <1>1 DEF Others, Rw, SideOf
  <2>3. Others(ev) # {}
    BY DEF Others, Rw
  <2>4. \A k \in Others(ev) : SideOf(k) \in node.eof
    BY <1>4, <2>1, <2>2 DEF SideOf, Sides
  <2> QED
    BY <1>1, <2>1, <2>3, <2>4 DEF KevInv
<1> HIDE DEF nd
<1>6. /\ MatchInv' /\ EdgeInv' /\ NewsInv'
      /\ node'.eof = NewEof(ev) \/ type = "fifo_w"
      /\ \A k \in Rw : Ended(k) => knotes'[k] # "clear" \/ knotes'[k] = knotes[k]
  <2>1. CASE Registered(nd)
    <3>1. \A k \in Filters \cup {"user"} :
            OldKq(nd)[k] # "none" => k = "except" /\ "PRI" \in nd.events
      BY <1>2, <1>3, OldIsClean
    <3>2. news' \subseteq Ready(file) /\ UNCHANGED <<type, file>>
      BY <1>1 DEF NewsInv
    <3> QED
      BY <1>3, <2>1, <3>1, <3>2, RegisteredWatches
  <2>2. CASE ~Changed(nd) /\ node' = nd /\ UNCHANGED knotes
    <3>1. nd \in NodeRecords
      BY <1>3 DEF NodeIsFit
    <3>2. \A e2 \in kevs : e2 = ev \/ (e2 \in kevs' /\ e2.filter # ev.filter)
      BY <1>1, <1>2
    <3> QED
      BY <1>1, <1>2, <1>3, <1>5, <2>2, <3>1, <3>2, FedWatches DEF nd
  <2> QED
    BY <1>1, <2>1, <2>2 DEF Reregisters
<1>7. \A e2 \in kevs' : e2 \in kevs /\ e2.filter # ev.filter
  BY <1>1, <1>2
<1>8. KevInv'
  <2>1. ASSUME NEW e2 \in kevs' PROVE OfItsEnd(e2)'
    <3>1. OfItsEnd(e2) /\ e2 \in kevs /\ e2.filter # ev.filter
      BY <1>7, <2>1 DEF KevInv
    <3>2. ASSUME ~e2.eof, e2.filter \in Rw, type = "socket"
          PROVE  SideOf(e2.filter) \notin node'.eof
      BY <1>1, <1>4, <1>6, <3>1, <3>2 DEF OfItsEnd, SideOf, Rw
    <3>3. ASSUME ~e2.eof, e2.filter \in Rw, type = "other"
          PROVE  node'.eof = {}
      BY <1>4, <1>6, <3>1, <3>3 DEF KevInv
    <3>4. ASSUME ~e2.eof, e2.filter \in Rw, Ended(e2.filter)
          PROVE  knotes'[e2.filter] # "clear"
      BY <1>6, <3>1, <3>4 DEF OfItsEnd
    <3>5. Ended(e2.filter)' = Ended(e2.filter)
      BY <1>1 DEF Ended
    <3> QED
      BY <1>1, <3>1, <3>2, <3>3, <3>4, <3>5 DEF OfItsEnd
  <2>2. ASSUME type = "socket", file.err, NEW e2 \in kevs', e2.filter \in Rw, e2.eof,
               ~e2.err, NEW k \in Others(e2)
        PROVE  SideOf(k) \notin node'.eof /\ \A e3 \in kevs' : e3.filter = k => ~e3.eof
    <3>1. SideOf(k) \notin node.eof /\ \A e3 \in kevs : e3.filter = k => ~e3.eof
      BY <1>7, <2>2 DEF KevInv
    <3>2. ev.filter = k
      BY <1>1, <1>7, <2>2 DEF Others, Rw
    <3> QED
      BY <1>4, <1>6, <1>7, <2>2, <3>1, <3>2
  <2> QED
    BY <1>1, <1>7, <2>1, <2>2 DEF KevInv, Others
<1> QED
  BY <1>6, <1>8

\* EVFILT_EXCEPT is fed: its filter is reset unless the client heard.
LEMMA FeedExceptWatches ==
  ASSUME FInv, WatchInv, NEW ev \in kevs, FeedExcept(ev) PROVE WatchInv'
<1> USE DEF FInv, WatchInv
<1> DEFINE pri == IF file.oob THEN {"PRI"} ELSE {}
<1>1. /\ stage = "feed" /\ ev.filter = "except" /\ kevs' = kevs \ {ev}
      /\ node' = Told(node, pri, "except")
      /\ knotes' = (IF Reset THEN [knotes EXCEPT !["except"] = Added("except", "clear")]
                    ELSE knotes)
      /\ UNCHANGED <<type, file, stage, full, completing, news, seen>>
  BY DEF FeedExcept
<1>2. /\ type = "socket" /\ node \in NodeRecords /\ type \in Types
      /\ \A e2 \in kevs : e2 \in kevs' \/ e2.filter = "except"
  BY <1>1 DEF FilterTypes, KevsInv, EventIsTrue
<1>3. pri \subseteq Answers /\ ("PRI" \in Ready(file) => "PRI" \in pri)
  BY <1>2, ReadySays DEF Answers, PollBits
<1> HIDE DEF pri
<1>4. /\ node'.revents = (node.revents \cup pri) \cap (node.events \cup {"HUP", "ERR"})
      /\ node'.events = node.events /\ node'.armed = node.armed /\ node'.late = node.late
      /\ node'.et = node.et /\ node'.has = node.has /\ node'.eof = node.eof
  BY <1>1, <1>2, <1>3, ToldIs
<1>5. /\ \A k \in Rw : knotes'[k] = knotes[k]
      /\ Reset => knotes'["except"] = IF file.oob THEN "fired" ELSE "clear"
  BY <1>1 DEF Added, On, FilterTypes, Filters, Rw
<1>6. KevInv'
  BY <1>1, <1>4, <1>5 DEF KevInv, OfItsEnd, Ended
<1>7. MatchInv'
  <2>1. NeededFilters(node') = NeededFilters(node)
    BY <1>4, NeedsSame
  <2>2. NeededFilters(node)' = NeededFilters(node')
    BY <1>1 DEF NeededFilters, SocketFilters, OtherFilters
  <2> QED
    BY <1>1, <1>2, <1>4, <1>5, <2>1, <2>2 DEF MatchInv, Loose, BothKnown, Fifo
<1>8. EdgeInv'
  BY <1>1, <1>2, <1>4, <1>5 DEF EdgeInv, Ended, Rw, Reset
<1>9. NewsInv'
  <2>1. ASSUME NEW e, Announced(e), e # "PRI" PROVE Announced(e)'
    BY <1>1, <1>2, <1>4, <1>5, <2>1 DEF Announced, Stir, Coming, Fifo, BothKnown, Rw
  <2> QED
    BY <1>1, <1>3, <1>4, <2>1 DEF NewsInv, Ready
<1> QED
  BY <1>6, <1>7, <1>8, <1>9

\* EVFILT_USER is fed: the FIFO still has no reader, or EVFILT_WRITE can be added.
LEMMA FeedUserWatches ==
  ASSUME FInv, WatchInv, NEW ev \in kevs, FeedUser(ev) PROVE WatchInv'
<1> USE DEF FInv, WatchInv
<1>1. /\ stage = "feed" /\ ev.filter = "user" /\ kevs' = kevs \ {ev}
      /\ UNCHANGED <<type, file, stage, full, completing, news, seen>>
  BY DEF FeedUser
<1>2. /\ type = "fifo_w" /\ node.has = {} /\ kevs' = {}
      /\ node.armed /\ type \in Types /\ "PRI" \notin node.events
      /\ node \in NodeRecords /\ knotes \in [Filters \cup {"user"} -> States]
      /\ node.events \subseteq {"IN", "OUT"} /\ node.eof \in {{}, Sides}
      /\ \A k \in Filters : knotes[k] = "none"
  BY <1>1 DEF FilterTypes, KevsInv, EventIsTrue, NodeInv, KnownInv, FiltersAsRecorded
<1>3. KevInv'
  BY <1>2 DEF KevInv
<1>4. news \subseteq Ready(file) /\ "PRI" \notin news
  BY <1>2, ReadySays DEF NewsInv
<1>5. Ready(file)' = Ready(file)
  BY <1>1 DEF Ready
<1>6. CASE file.weof
  <2> DEFINE both == {"ERR", "OUT"}
  <2>1. /\ node' = Told(node, both, "user") /\ both \subseteq Answers
        /\ knotes' = [knotes EXCEPT !["user"] = IF node.et THEN @ ELSE "fired"]
    BY <1>6 DEF FeedUser, Answers, PollBits
  <2> HIDE DEF both
  <2>2. /\ node'.has = {} /\ node'.et = node.et
    <3>1. node \in NodeRecords /\ node.has = {}
      BY <1>2
    <3> QED
      BY <2>1, <3>1, ToldIs
  <2>3. /\ \A k \in Filters : knotes'[k] = "none"
        /\ ~node.et => knotes'["user"] = "fired"
    BY <1>2, <2>1 DEF Filters
  <2>4. MatchInv'
    BY <1>1, <1>2, <2>2, <2>3 DEF MatchInv, Stir
  <2>5. EdgeInv'
    BY <2>3 DEF EdgeInv, Rw, Filters
  <2>6. NewsInv'
    <3>1. \A e : e # "PRI" => Announced(e)'
      BY <1>1, <1>2, <2>2 DEF Announced, Fifo
    <3> QED
      BY <1>1, <1>4, <1>5, <3>1 DEF NewsInv
  <2> QED
    BY <1>3, <2>4, <2>5, <2>6
<1>7. CASE ~file.weof
  <2> DEFINE how == NeededFilters(node)["write"]
             is == Added("write", how)
  <2>1. /\ node' = [node EXCEPT !.has = node.has \cup {"write"}]
        /\ knotes' = [knotes EXCEPT !["write"] = is]
    BY <1>7 DEF FeedUser
  <2>2. /\ how \in {"level", "clear"}
        /\ node.et => how # "level"
    <3>1. "write" \in Filters
      BY DEF Filters
    <3> QED
      BY <1>2, <3>1, Needs, NeedsWhat
  <2> HIDE DEF how
  <2>3. is = IF how = "level" THEN "level" ELSE IF file.out THEN "fired" ELSE "clear"
    BY <1>7 DEF Added, On
  <2> HIDE DEF is
  <2>4. /\ node'.has = {"write"} /\ node'.et = node.et /\ node'.events = node.events
        /\ node'.eof = node.eof /\ node'.late = node.late /\ node'.revents = node.revents
    BY <1>2, <2>1 DEF NodeRecords
  <2>5. /\ knotes'["write"] = is /\ \A k \in {"read", "except"} : knotes'[k] = "none"
    BY <1>2, <2>1 DEF Filters
  <2>6. MatchInv'
    <3>1. NeededFilters(node') = NeededFilters(node)
      BY <2>4, NeedsSame
    <3>2. NeededFilters(node)' = NeededFilters(node')
      BY <1>1 DEF NeededFilters, SocketFilters, OtherFilters
    <3> QED
      BY <1>1, <1>2, <2>2, <2>3, <2>4, <2>5, <3>1, <3>2 DEF MatchInv, Rw, how
  <2>7. EdgeInv'
    BY <1>1, <1>7, <2>5 DEF EdgeInv, Rw, Ended
  <2>8. NewsInv'
    <3>1. ASSUME NEW e \in news, node.et PROVE Announced(e)'
      <4>1. e = "OUT"
        BY <1>2, <1>4, <1>7, <3>1, ReadySays DEF Answers, PollBits
      <4>2. file.out
        BY <1>2, <1>4, <3>1, <4>1, ReadySays
      <4> QED
        BY <1>1, <1>2, <2>2, <2>3, <2>5, <3>1, <4>1, <4>2 DEF Announced, Fifo
    <3> QED
      BY <1>1, <1>4, <1>5, <2>4, <3>1 DEF NewsInv
  <2> QED
    BY <1>3, <2>6, <2>7, <2>8
<1> QED
  BY <1>6, <1>7

\* What kevent() returns agrees with what is known.
LEMMA KeventOfItsEnd ==
  ASSUME FInv, NEW k \in Filters \cup {"user"}, k \in Rw => On(file, k)
  PROVE  OfItsEnd(Kevent(k))
<1> USE DEF FInv
<1>1. Kevent(k).filter = k /\ (k \in Rw => Kevent(k).eof = Ended(k))
  <2>1. Ended(k) \in BOOLEAN
    BY DEF Ended, FilterTypes, FileRecords
  <2> QED
    BY <2>1 DEF Kevent, Ended, Rw
<1>2. type = "fifo_r" => k # "write"
  BY DEF On, FileInv, Rw
<1>3. type = "fifo_w" => k # "read"
  BY DEF On, FileInv, Rw
<1>4. k \in Rw /\ ~Ended(k) => /\ type = "socket" => SideOf(k) \notin node.eof
                               /\ type = "other" => node.eof = {}
  BY DEF KnownInv, FileInv, Ended
<1> HIDE DEF FInv
<1> QED
  BY <1>1, <1>2, <1>3, <1>4 DEF OfItsEnd

\* Completion finds one more event.
LEMMA CompleteEventWatches ==
  ASSUME FInv, WatchInv, NEW k \in Filters, CompleteEvent(k) PROVE WatchInv'
<1> USE DEF FInv, WatchInv
<1>1. /\ stage = "complete" /\ On(file, k)
      /\ UNCHANGED <<type, file, knotes, stage, kevs, full, news, seen>>
      /\ node.armed /\ Excused(file) \subseteq seen /\ kevs = {}
      /\ node \in NodeRecords /\ type \in Types /\ node.revents \subseteq seen
  BY DEF CompleteEvent, NodeInv, CallInv, FilterTypes
<1>2. KevInv'
  BY <1>1 DEF KevInv
<1>3. CASE k = "except"
  <2> DEFINE pri == {"PRI"}
  <2>1. node' = Told(node, pri, "except") /\ pri \subseteq Answers
    BY <1>3 DEF CompleteEvent, Answers, PollBits
  <2> HIDE DEF pri
  <2>2. /\ node'.revents = (node.revents \cup pri) \cap (node.events \cup {"HUP", "ERR"})
        /\ node'.events = node.events /\ node'.armed = node.armed /\ node'.late = node.late
        /\ node'.et = node.et /\ node'.has = node.has /\ node'.eof = node.eof
    <3>1. node \in NodeRecords
      BY <1>1
    <3> QED
      BY <2>1, <3>1, ToldIs
  <2>3. MatchInv'
    <3>1. NeededFilters(node') = NeededFilters(node)
      BY <2>2, NeedsSame
    <3>2. NeededFilters(node)' = NeededFilters(node')
      BY <1>1 DEF NeededFilters, SocketFilters, OtherFilters
    <3> QED
      BY <1>1, <2>2, <3>1, <3>2 DEF MatchInv, Loose, BothKnown, Fifo, Stir, Coming
  <2>4. EdgeInv'
    BY <1>1, <2>2 DEF EdgeInv, Ended, Coming
  <2>5. NewsInv'
    <3>1. ASSUME NEW e, Announced(e) PROVE Announced(e)'
      BY <1>1, <2>2, <3>1 DEF Announced, Stir, Coming, Fifo, BothKnown
    <3> QED
      BY <1>1, <2>2, <3>1 DEF NewsInv, Ready
  <2> QED
    BY <1>2, <2>3, <2>4, <2>5
<1>4. CASE k # "except"
  <2> DEFINE ev == Kevent(k)
             nd == Fed(ev)
  <2>1. k \in Rw
    BY <1>4 DEF Rw, Filters
  <2>2. node' = [nd EXCEPT !.late = nd.late \/ Changed(nd)]
    BY <1>4 DEF CompleteEvent
  <2>3. /\ Truly(ev, seen) /\ ev \in KevRecords /\ ev.filter = k /\ OfItsEnd(ev)
        /\ ev.eof = Ended(k) /\ ev.err = file.err
    <3>1. Ended(k) \in BOOLEAN
      BY DEF Ended, FilterTypes, FileRecords
    <3>2. ev.filter = k /\ ev.eof = Ended(k) /\ ev.err = file.err
      BY <2>1, <3>1 DEF Kevent, Rw, Ended
    <3>3. Truly(ev, seen) /\ ev \in KevRecords
      BY <1>1, <2>1, KeventTruly DEF Truly
    <3> QED
      BY <1>1, <3>2, <3>3, KeventOfItsEnd
  <2> HIDE DEF ev
  <2>4. /\ NodeIsFit(nd) /\ nd.events = node.events /\ nd.et = node.et /\ nd.armed
        /\ nd.has = node.has /\ nd.late = node.late /\ nd.eof = NewEof(ev)
    BY <1>1, <2>1, <2>3, FedIs
  <2> HIDE DEF nd
  <2>5. (nd.late \/ Changed(nd)) \in BOOLEAN
    BY <2>4 DEF NodeIsFit, NodeRecords, Changed
  <2>6. /\ node' \in NodeRecords /\ node'.armed /\ node'.et = nd.et
        /\ node'.events = nd.events /\ node'.has = nd.has
        /\ node'.revents = nd.revents /\ node'.eof = nd.eof
        /\ ~node'.late => ~nd.late /\ ~Changed(nd)
    BY <2>2, <2>4, <2>5 DEF NodeIsFit, NodeRecords
  <2>7. file.err => Ended(k)
    BY <2>1 DEF FileInv, Ended
  <2>8. MatchInv' /\ EdgeInv' /\ NewsInv'
    BY <1>1, <2>1, <2>3, <2>4, <2>6, <2>7, FedWatches DEF nd
  <2> QED
    BY <1>2, <2>8
<1> QED
  BY <1>3, <1>4

\* The node is reported.
LEMMA ReportsWatch == FInv /\ WatchInv /\ Reports => WatchInv'
<1> SUFFICES ASSUME FInv, WatchInv, Reports PROVE WatchInv'
  OBVIOUS
<1> USE DEF FInv, WatchInv
<1>1. /\ node' = Reported /\ news' = news \ node.revents
      /\ knotes' = (IF node.oneshot THEN RemovedKq ELSE knotes)
      /\ UNCHANGED <<type, file, kevs, full>>
      /\ node \in NodeRecords /\ kevs = {}
  BY DEF Reports, CallInv, FilterTypes
<1>2. node.oneshot => knotes' = NoFilters
  BY <1>1, RemovedIs DEF NodeInv
<1>3. /\ node'.armed = ~node.oneshot /\ node'.events = node.events
      /\ node'.has = (IF node.oneshot THEN {} ELSE node.has) /\ node'.et = node.et
      /\ node'.revents = {} /\ node'.eof = node.eof /\ node'.late = node.late
  BY <1>1 DEF Reported, NodeRecords
<1>4. KevInv'
  BY <1>1 DEF KevInv
<1>5. MatchInv'
  <2>1. NeededFilters(node') = NeededFilters(node)
    BY <1>3, NeedsSame
  <2>2. NeededFilters(node)' = NeededFilters(node')
    BY <1>1 DEF NeededFilters, SocketFilters, OtherFilters
  <2>3. CASE node.oneshot
    BY <1>3, <2>3 DEF MatchInv
  <2>4. CASE ~node.oneshot
    <3>1. node.armed
      BY DEF Reports, NodeInv
    <3> QED
      BY <1>1, <1>3, <2>1, <2>2, <2>4, <3>1 DEF MatchInv, Loose, BothKnown, Fifo, Stir, Coming
  <2> QED
    BY <2>3, <2>4
<1>6. EdgeInv'
  BY <1>1, <1>2, <1>3 DEF EdgeInv, Ended, Coming, NoFilters, Rw, Filters
<1>7. NewsInv'
  <2>1. news' \subseteq Ready(file)'
    BY <1>1 DEF NewsInv, Ready
  <2>2. CASE node.oneshot
    BY <1>3, <2>1, <2>2 DEF NewsInv
  <2>3. CASE ~node.oneshot
    <3>1. ASSUME NEW e, Announced(e) PROVE Announced(e)'
      BY <1>1, <1>3, <2>3, <3>1 DEF Announced, Stir, Coming, Fifo, BothKnown
    <3>2. node.armed
      BY DEF Reports, NodeInv
    <3> QED
      BY <1>1, <1>3, <2>1, <3>1, <3>2 DEF NewsInv
  <2> QED
    BY <2>2, <2>3
<1> QED
  BY <1>4, <1>5, <1>6, <1>7

\* kevent() returns filters that are active: those that were pending are on their way.
LEMMA CollectsWatches == FInv /\ WatchInv /\ Collects => WatchInv'
<1> SUFFICES ASSUME FInv, WatchInv, Collects PROVE WatchInv'
  OBVIOUS
<1> USE DEF FInv, WatchInv
<1>1. PICK ks \in SUBSET Active :
        /\ kevs' = {Kevent(k) : k \in ks}
        /\ knotes' = [k \in DOMAIN knotes |->
                       IF k \in ks /\ knotes[k] = "fired" THEN "clear" ELSE knotes[k]]
  <2> DEFINE choices == {Active} \cup IF Crowded THEN {{k} : k \in Active} ELSE {}
             new(ks) == [k \in DOMAIN knotes |->
                          IF k \in ks /\ knotes[k] = "fired" THEN "clear" ELSE knotes[k]]
  <2>1. \E ks \in choices :
          /\ kevs' = {Kevent(k) : k \in ks}
          /\ knotes' = new(ks)
    BY DEF Collects
  <2>2. choices \subseteq SUBSET Active
    OBVIOUS
  <2> HIDE DEF choices, new
  <2>3. \E ks \in SUBSET Active :
          kevs' = {Kevent(k) : k \in ks} /\ knotes' = new(ks)
    BY <2>1, <2>2
  <2> QED
    BY <2>3 DEF new
<1>2. /\ kevs = {} /\ type \in Types /\ UNCHANGED <<type, file, node, completing, news>>
  BY DEF Collects, CallInv, FilterTypes
<1>3. /\ \A k \in ks : k \in Filters \cup {"user"} /\ (k \in Filters => On(file, k))
      /\ "user" \in ks => type = "fifo_w"
      /\ "except" \in ks => type = "socket"
  BY DEF Active, UserInv, Filters, On, FileInv
<1>4. /\ \A k : Kevent(k).filter = k /\ Kevent(k).err = file.err
      /\ Kevent("read").eof = file.reof /\ Kevent("write").eof = file.weof
      /\ Kevent("read").data = file.in /\ Kevent("write").data = file.out
  <2>1. file.reof \in BOOLEAN /\ file.weof \in BOOLEAN
    BY DEF FilterTypes, FileRecords
  <2> QED
    BY <2>1 DEF Kevent
<1>5. /\ \A k \in ks : Kevent(k) \in kevs'
      /\ \A ev \in kevs' : ev.filter \in ks /\ ev = Kevent(ev.filter)
  BY <1>1, <1>4
<1>6. \A k \in Filters \cup {"user"} :
        /\ knotes'[k] = "level" <=> knotes[k] = "level"
        /\ knotes'[k] = "clear" => knotes[k] = "clear" \/ k \in ks
        /\ knotes[k] = "fired" => knotes'[k] = "fired" \/ k \in ks
  BY <1>1 DEF FilterTypes
<1>7. \A k \in Filters \cup {"user"} : Stir(k) => Stir(k)'
  BY <1>2, <1>4, <1>5, <1>6 DEF Stir, Coming
<1>8. KevInv'
  <2>1. ASSUME NEW ev \in kevs' PROVE OfItsEnd(ev)'
    <3>1. OfItsEnd(ev)
      BY <1>3, <1>5, KeventOfItsEnd DEF Rw, Filters
    <3>2. ev.filter \in Rw /\ ~ev.eof => ~Ended(ev.filter)
      BY <1>4, <1>5 DEF Rw, Ended
    <3> QED
      BY <1>2, <3>1, <3>2 DEF OfItsEnd, Ended
  <2>2. ASSUME type = "other", NEW ev \in kevs', NEW e2 \in kevs', ev.eof PROVE e2.eof
    <3>1. ev.filter \in Rw /\ e2.filter \in Rw
      BY <1>3, <1>5, <2>2 DEF Rw, Filters
    <3> QED
      BY <1>4, <1>5, <2>2, <3>1 DEF Rw, FileInv
  <2>3. \A ev \in kevs' : ev.err = file.err
    BY <1>4, <1>5
  <2> QED
    BY <1>2, <2>1, <2>2, <2>3 DEF KevInv
<1>9. MatchInv'
  <2>1. NeededFilters(node)' = NeededFilters(node)
    BY <1>2 DEF NeededFilters, SocketFilters, OtherFilters
  <2>2. \A k \in Rw : knotes'[k] = "level" <=> knotes[k] = "level"
    BY <1>6 DEF Rw, Filters
  <2> QED
    BY <1>2, <1>7, <2>1, <2>2 DEF MatchInv, Loose, BothKnown, Fifo
<1>10. EdgeInv'
  <2>1. ASSUME NEW k \in Rw, knotes'[k] = "clear", Ended(k), SideOf(k) \notin node.eof
        PROVE  \E ev \in kevs' : ev.filter = k /\ ev.eof
    <3>1. k \in ks
      BY <1>2, <1>6, <2>1 DEF EdgeInv, Rw, Filters
    <3>2. Kevent(k).filter = k /\ Kevent(k).eof
      BY <1>4, <2>1 DEF Rw, Ended
    <3> QED
      BY <1>5, <3>1, <3>2
  <2>2. ASSUME knotes'["except"] = "clear", file.oob, ~node.et PROVE Coming("except")'
    <3>1. "except" \in ks
      BY <1>2, <1>6, <2>2 DEF EdgeInv, Coming, Filters
    <3> QED
      BY <1>4, <1>5, <3>1 DEF Coming
  <2> QED
    BY <1>2, <2>1, <2>2 DEF EdgeInv, Ended
<1>11. NewsInv'
  <2>1. ASSUME NEW e \in Ready(file), Announced(e) PROVE Announced(e)'
    <3>1. CASE ~Fifo
      BY <1>2, <1>7, <2>1, <3>1 DEF Announced, Fifo, BothKnown, Filters
    <3>2. CASE Fifo
      <4>1. e # "PRI"
        BY <1>2, <2>1, <3>2, ReadySays DEF Fifo
      <4>2. e = "IN" => Kevent("read").data
        BY <1>2, <1>4, <2>1, <3>2, ReadySays DEF Fifo
      <4>3. e = "OUT" => Kevent("write").data
        BY <1>2, <1>4, <2>1, <3>2, ReadySays DEF Fifo
      <4>4. e = "HUP" => Kevent("read").eof
        BY <1>2, <1>4, <2>1, <3>2, ReadySays DEF Fifo
      <4>5. e = "ERR" => Kevent("write").eof
        BY <1>2, <1>4, <2>1, <3>2, ReadySays DEF Fifo
      <4>6. \A k \in Rw : knotes[k] = "fired" =>
              knotes'[k] = "fired" \/ (Kevent(k) \in kevs' /\ Kevent(k).filter = k)
        BY <1>4, <1>5, <1>6 DEF Rw, Filters
      <4> QED
        BY <1>2, <2>1, <3>2, <4>1, <4>2, <4>3, <4>4, <4>5, <4>6 DEF Announced, Fifo, Rw
    <3> QED
      BY <3>1, <3>2
  <2>2. Ready(file)' = Ready(file)
    BY <1>2 DEF Ready
  <2> QED
    BY <1>2, <2>1, <2>2 DEF NewsInv
<1> QED
  BY <1>8, <1>9, <1>10, <1>11

\* The file changes: what is new fires the filters that watch for it.
LEMMA FileWatches == FInv /\ WatchInv /\ File => WatchInv'
<1> SUFFICES ASSUME FInv, WatchInv, File PROVE WatchInv'
  OBVIOUS
<1> USE DEF FInv, WatchInv
<1> PICK f, ks : Turns(f, ks) /\ Becomes(f, ks)
  BY FileTurns
<1>1. /\ file' = f
      /\ knotes' = [k \in DOMAIN knotes |->
                     IF k \in ks /\ knotes[k] = "clear" THEN "fired" ELSE knotes[k]]
      /\ news' = (IF node.et THEN (news \cup (Ready(f) \ Ready(file))) \cap Ready(f)
                  ELSE {})
      /\ UNCHANGED <<type, node, stage, kevs, full, completing>>
      /\ type \in Types /\ node \in NodeRecords
  BY DEF Becomes, FilterTypes
<1>2. \A k \in Filters \cup {"user"} :
        /\ knotes'[k] = "level" <=> knotes[k] = "level"
        /\ knotes'[k] = "none" <=> knotes[k] = "none"
        /\ knotes'[k] = "clear" => knotes[k] = "clear" /\ k \notin ks
        /\ knotes[k] = "fired" => knotes'[k] = "fired"
  BY <1>1 DEF FilterTypes
<1>3. /\ f.reof => file.reof \/ "read" \in ks
      /\ f.weof => file.weof \/ "write" \in ks
      /\ f.oob => file.oob \/ "except" \in ks
      /\ f.in => file.in \/ "read" \in ks
      /\ f.out => file.out \/ "write" \in ks
      /\ f.err => file.err \/ ~(file.reof /\ file.weof)
  BY DEF Turns
<1>4. \A k \in Rw : knotes'[k] = "clear" /\ Ended(k)' => Ended(k)
  BY <1>1, <1>2, <1>3 DEF Ended, Rw, Filters
<1>5. \A k \in Filters \cup {"user"} : Stir(k) => Stir(k)'
  BY <1>1, <1>2 DEF Stir, Coming
<1>6. KevInv'
  <2>1. ASSUME NEW ev \in kevs PROVE OfItsEnd(ev)'
    <3>1. OfItsEnd(ev)
      BY DEF KevInv
    <3>2. ASSUME ev.filter \in Rw, ~ev.eof, Ended(ev.filter)'
          PROVE  knotes'[ev.filter] # "clear"
      BY <1>2, <1>4, <3>1, <3>2 DEF OfItsEnd, Rw, Filters
    <3> QED
      BY <1>1, <3>1, <3>2 DEF OfItsEnd
  <2>2. ASSUME type = "socket", f.err, NEW ev \in kevs, ev.filter \in Rw, ev.eof, ~ev.err,
               NEW k \in Others(ev)
        PROVE  SideOf(k) \notin node.eof /\ \A e2 \in kevs : e2.filter = k => ~e2.eof
    <3>1. CASE file.err
      BY <2>2, <3>1 DEF KevInv
    <3>2. CASE ~file.err
      <4>1. \A e2 \in kevs : e2.filter \in Rw /\ e2.eof => Ended(e2.filter)
        BY <2>2 DEF KevsInv, EventIsTrue, Truly
      <4>2. ~Ended(k) /\ k \in Rw
        BY <1>3, <2>2, <3>2, <4>1 DEF Others, Rw, Ended
      <4> QED
        BY <2>2, <4>1, <4>2 DEF KnownInv
    <3> QED
      BY <3>1, <3>2
  <2> QED
    BY <1>1, <2>1, <2>2 DEF KevInv, Others
<1>7. MatchInv'
  <2>1. NeededFilters(node)' = NeededFilters(node)
    BY <1>1 DEF NeededFilters, SocketFilters, OtherFilters
  <2>2. \A k \in Rw : knotes'[k] = "level" <=> knotes[k] = "level"
    BY <1>2 DEF Rw, Filters
  <2> QED
    BY <1>1, <1>5, <2>1, <2>2 DEF MatchInv, Loose, BothKnown, Fifo
<1>8. EdgeInv'
  <2>1. ASSUME NEW k \in Rw, knotes'[k] = "clear", Ended(k)'
        PROVE  SideOf(k) \in node.eof \/ \E ev \in kevs : ev.filter = k /\ ev.eof
    BY <1>2, <1>4, <2>1 DEF EdgeInv, Rw, Filters
  <2>2. ASSUME knotes'["except"] = "clear", f.oob, ~node.et PROVE Coming("except")
    BY <1>2, <1>3, <2>2 DEF EdgeInv, Filters
  <2> QED
    BY <1>1, <2>1, <2>2 DEF EdgeInv, Coming
<1>9. NewsInv'
  <2>1. news' \subseteq Ready(file)'
    BY <1>1 DEF Ready
  <2>2. SUFFICES ASSUME node.et, node.armed, ~node.late,
                        NEW e \in (news' \cap (node.events \cup {"HUP", "ERR"})) \ node.revents
                 PROVE  Announced(e)'
    BY <1>1, <2>1 DEF NewsInv
  <2>3. CASE e \in news
    <3>1. Announced(e)
      BY <2>2, <2>3 DEF NewsInv
    <3>2. \A k \in Rw : knotes[k] = "fired" => knotes'[k] = "fired"
      BY <1>2 DEF Rw, Filters
    <3>3. \A k \in Filters : Stir(k) => Stir(k)'
      BY <1>5
    <3> QED
      BY <1>1, <3>1, <3>2, <3>3 DEF Announced, Fifo, BothKnown, Rw, Filters
  <2>4. CASE e \notin news
    <3>1. e \in Ready(f) /\ e \notin Ready(file) /\ e \in Answers
      BY <1>1, <2>2, <2>4, ReadySays
    <3>2. \A k \in Rw \cap node.has : k \in ks => knotes'[k] = "fired"
      <4>1. \A k \in Rw \cap node.has : knotes[k] \notin {"none", "level"}
        BY <2>2 DEF MatchInv, NodeInv, FiltersAsRecorded, Rw, Filters
      <4> QED
        BY <1>1, <1>2, <4>1 DEF FilterTypes, States, Rw, Filters
    <3>3. CASE e = "PRI"
      <4>1. "except" \in ks
        BY <1>1, <1>3, <3>1, <3>3, ReadySays
      <4>2. knotes["except"] \in {"clear", "fired"}
        BY <2>2, <3>3 DEF NodeInv, FiltersAsRecorded, FilterTypes, States, Filters
      <4>3. knotes'["except"] = "fired"
        BY <1>1, <1>2, <4>1, <4>2 DEF FilterTypes, Filters
      <4> QED
        BY <3>3, <4>3 DEF Announced, Stir
    <3>4. CASE ~Fifo /\ e # "PRI"
      <4>1. type \in {"socket", "other"}
        BY <1>1, <3>4, Kinds DEF Fifo
      <4>2. ~BothKnown
        <5>1. BothKnown => file.reof /\ file.weof
          BY <4>1 DEF BothKnown, KnownInv, FileInv, SideOf, Sides, Ended, Rw
        <5> QED
          BY <1>1, <1>3, <3>1, <3>4, <4>1, <5>1, ReadySays DEF Answers, PollBits
      <4>3. /\ "IN" \in node.events => "read" \in node.has
            /\ "OUT" \in node.events => "write" \in node.has
        <5>1. \A k \in Rw : k \in node.has <=> NeededFilters(node)[k] # "none"
          BY <2>2, <4>1, <4>2 DEF MatchInv, Loose
        <5>2. type # "socket" => node.events \subseteq {"IN", "OUT"} /\ node.eof \in {{}, Sides}
          BY DEF NodeInv, KnownInv
        <5>3. /\ "IN" \in node.events => NeededFilters(node)["read"] # "none"
              /\ "OUT" \in node.events => NeededFilters(node)["write"] # "none"
          BY <1>1, <4>1, <4>2, <5>2, NeedsWhat DEF BothKnown
        <5> QED
          BY <5>1, <5>3 DEF Rw
      <4>4. e = "IN" => knotes'["read"] = "fired"
        BY <1>1, <1>3, <2>2, <3>1, <3>2, <4>1, <4>3, ReadySays DEF Rw
      <4>5. e = "OUT" => knotes'["write"] = "fired"
        BY <1>1, <1>3, <2>2, <3>1, <3>2, <4>1, <4>3, ReadySays DEF Rw
      <4>6. e = "RDHUP" => "R" \notin node.eof
        BY <1>1, <3>1, ReadySays DEF KnownInv, Rw, SideOf, Ended
      <4> QED
        BY <1>1, <3>4, <4>2, <4>4, <4>5, <4>6 DEF Announced, Fifo, BothKnown, Stir
    <3>5. CASE Fifo /\ e # "PRI"
      <4>1. SUFFICES ASSUME node.has # {} PROVE Announced(e)'
        BY <1>1, <3>5 DEF Announced, Fifo
      <4>2. type # "fifo_w" => \A k \in Rw : k \in node.has <=> NeededFilters(node)[k] # "none"
        BY <2>2, <3>5 DEF MatchInv, Loose
      <4>3. type = "fifo_w" => "write" \in node.has
        BY <4>1 DEF MatchInv
      <4>4. /\ "IN" \in node.events /\ type # "fifo_w" => NeededFilters(node)["read"] # "none"
            /\ "OUT" \in node.events /\ type # "fifo_r" =>
                 NeededFilters(node)["write"] # "none"
            /\ type = "fifo_r" => NeededFilters(node)["read"] # "none"
        <5>1. type # "socket" /\ node.events \subseteq {"IN", "OUT"} /\ node.eof \in {{}, Sides}
          BY <3>5 DEF NodeInv, KnownInv, Fifo
        <5> QED
          BY <1>1, <5>1, NeedsWhat
      <4>5. type \in {"fifo_r", "fifo_w", "fifo_rw"} /\ f.reof => type = "fifo_r"
        BY DEF Turns
      <4>6. type = "fifo_r" => ~f.out
        BY DEF Turns
      <4>7. e = "IN" => knotes'["read"] = "fired"
        BY <1>1, <1>3, <2>2, <3>1, <3>2, <3>5, <4>2, <4>4, ReadySays DEF Rw, Fifo
      <4>8. e = "OUT" => knotes'["write"] = "fired"
        BY <1>1, <1>3, <2>2, <3>1, <3>2, <3>5, <4>2, <4>3, <4>4, <4>6, ReadySays DEF Rw, Fifo
      <4>9. e = "HUP" => knotes'["read"] = "fired"
        BY <1>1, <1>3, <3>1, <3>2, <3>5, <4>2, <4>4, <4>5, ReadySays DEF Rw, Fifo
      <4>10. e = "ERR" => knotes'["write"] = "fired"
        BY <1>1, <1>3, <3>1, <3>2, <3>5, <4>3, ReadySays DEF Rw, Fifo
      <4> QED
        BY <1>1, <3>5, <4>7, <4>8, <4>9, <4>10 DEF Announced, Fifo
    <3> QED
      BY <3>3, <3>4, <3>5
  <2> QED
    BY <2>3, <2>4
<1> QED
  BY <1>6, <1>7, <1>8, <1>9

LEMMA WatchStep == FInv /\ WatchInv /\ NoOobBack /\ [FilterNext]_filterVars => WatchInv'
<1> SUFFICES ASSUME FInv, WatchInv, NoOobBack, [FilterNext]_filterVars PROVE WatchInv'
  OBVIOUS
<1>1. CASE \E reg \in EpollEvents : CtlAdd(reg) \/ CtlMod(reg)
  BY <1>1, CtlWatches
<1>2. CASE CtlDel
  BY <1>2, CtlDelWatches
<1>3. CASE Collects \/ Reports
  BY <1>3, CollectsWatches, ReportsWatch
<1>4. CASE CollectsNothing \/ FeedsNothing \/ Completes
  BY <1>4, OthersWatch DEF CollectsNothing, FeedsNothing, Completes
<1>5. CASE \E ev \in kevs : FeedEvent(ev) \/ FeedExcept(ev) \/ FeedUser(ev)
  BY <1>5, FeedEventWatches, FeedExceptWatches, FeedUserWatches
<1>6. CASE \E k \in Filters : CompleteEvent(k)
  BY <1>6, CompleteEventWatches
<1>7. CASE File
  BY <1>7, FileWatches
<1>8. CASE UNCHANGED filterVars
  BY <1>8, OthersWatch DEF filterVars
<1> QED
  BY <1>1, <1>2, <1>3, <1>4, <1>5, <1>6, <1>7, <1>8 DEF FilterNext, Thread

\* With the filters the node needs, each on its way if what it hears of is so, there
\* is an active one for all a client wants.
LEMMA WatchSays == FInv /\ WatchInv => NothingMissed
<1> SUFFICES ASSUME FInv, WatchInv, stage = "idle", node.armed, ~Unwatched, ~node.late,
                    NEW e \in Wanted
             PROVE  Active # {}
  BY DEF NothingMissed
<1> USE DEF FInv, WatchInv
<1>1. /\ kevs = {} /\ node.revents = {} /\ type \in Types /\ node \in NodeRecords
      /\ e \in Ready(file) /\ e \in node.events \cup {"HUP", "ERR"} /\ e \in Answers
      /\ node.et => e \in news
  BY ReadySays DEF Wanted, CallInv, FilterTypes, NewsInv
<1>2. /\ \A k \in Filters : On(file, k) /\ knotes[k] \in {"level", "fired"} => Active # {}
      /\ knotes["user"] = "fired" => Active # {}
  BY DEF Active
<1>3. \A k \in Rw : Ended(k) => On(file, k)
  BY DEF Ended, On, Rw
<1>4. \A k \in Rw \cap node.has : knotes[k] \in {"level", "clear", "fired"}
  BY DEF NodeInv, FiltersAsRecorded, FilterTypes, States, Rw, Filters
\* An end that is not known is watched for.
<1>5. ASSUME NEW k \in Rw \cap node.has, Ended(k), SideOf(k) \notin node.eof
      PROVE  Active # {}
  <2>1. knotes[k] # "clear"
    BY <1>1, <1>5 DEF EdgeInv
  <2> QED
    BY <1>2, <1>3, <1>4, <1>5, <2>1 DEF Rw, Filters
<1>6. \A k : Stir(k) <=> knotes[k] = "fired"
  BY <1>1 DEF Stir, Coming
<1>7. node.et => Announced(e)
  BY <1>1 DEF NewsInv
<1>8. type # "socket" => node.events \subseteq {"IN", "OUT"} /\ node.eof \in {{}, Sides}
  BY DEF NodeInv, KnownInv
<1>9. /\ "IN" \in node.events /\ type # "fifo_w" /\ ~node.et =>
           NeededFilters(node)["read"] = "level"
      /\ "OUT" \in node.events /\ type # "fifo_r" /\ ~node.et =>
           \/ NeededFilters(node)["write"] = "level"
           \/ type = "socket" /\ node.eof = Sides /\ NeededFilters(node)["read"] = "level"
      /\ "RDHUP" \in node.events /\ type = "socket" =>
           /\ NeededFilters(node)["read"] # "none"
           /\ "R" \in node.eof /\ ~node.et => NeededFilters(node)["read"] = "level"
      /\ node.eof = Sides /\ type # "fifo_rw" /\ ~node.et =>
           NeededFilters(node)["read"] = "level" \/ NeededFilters(node)["write"] = "level"
      /\ type = "socket" /\ node.eof = {"R"} => NeededFilters(node)["write"] # "none"
      /\ type = "socket" /\ node.eof = {"W"} => NeededFilters(node)["read"] # "none"
      /\ type = "fifo_r" => NeededFilters(node)["read"] # "none"
      /\ type = "fifo_w" => NeededFilters(node)["write"] # "none"
  BY <1>1, <1>8, NeedsWhat
<1>10. /\ NeededFilters(node)["read"] # "none" \/ NeededFilters(node)["write"] # "none"
       /\ type = "fifo_r" => NeededFilters(node)["write"] = "none"
       /\ type = "fifo_w" => NeededFilters(node)["read"] = "none"
  BY <1>1, <1>8, Needs
\* A level-triggered filter is active when it holds.
<1>11. ASSUME NEW k \in Rw, ~node.et, NeededFilters(node)[k] = "level", On(file, k),
              type # "fifo_w" \/ k \in node.has
       PROVE  Active # {}
  <2>1. k \in node.has
    BY <1>11 DEF MatchInv, Loose
  <2>2. knotes[k] = "level"
    BY <1>11, <2>1 DEF MatchInv
  <2> QED
    BY <1>2, <1>11, <2>2 DEF Rw, Filters
<1>12. CASE e = "PRI"
  <2>1. "except" \in node.has /\ On(file, "except") /\ file.oob
    BY <1>1, <1>12, ReadySays DEF NodeInv, On
  <2>2. knotes["except"] \in {"clear", "fired"}
    BY <2>1 DEF NodeInv, FiltersAsRecorded, FilterTypes, States, Filters
  <2>3. knotes["except"] = "fired"
    BY <1>1, <1>6, <1>7, <1>12, <2>1, <2>2 DEF EdgeInv, Announced, Coming
  <2> QED
    BY <1>2, <2>1, <2>3 DEF Filters
<1>13. CASE ~Fifo /\ e # "PRI"
  <2>1. type \in {"socket", "other"}
    BY <1>1, <1>13, Kinds DEF Fifo
  <2>2. BothKnown => file.reof /\ file.weof
    BY <2>1 DEF BothKnown, KnownInv, FileInv, SideOf, Sides, Ended, Rw
  <2>3. ~(node.et /\ BothKnown) => \A k \in Rw : k \in node.has <=> NeededFilters(node)[k] # "none"
    BY <2>1 DEF MatchInv, Loose
  <2>4. CASE e = "IN"
    <3>1. On(file, "read")
      BY <1>1, <2>1, <2>4, ReadySays DEF On
    <3>2. node.et => knotes["read"] = "fired"
      BY <1>6, <1>7, <1>13, <2>4 DEF Announced
    <3> QED
      BY <1>1, <1>2, <1>9, <1>11, <2>1, <2>4, <3>1, <3>2 DEF Rw, Filters
  <2>5. CASE e = "OUT"
    <3>1. On(file, "write")
      BY <1>1, <2>1, <2>5, ReadySays DEF On
    <3>2. BothKnown => On(file, "read")
      BY <2>2 DEF On
    <3>3. node.et => knotes["write"] = "fired" \/ (BothKnown /\ knotes["read"] = "fired")
      BY <1>6, <1>7, <1>13, <2>5 DEF Announced
    <3> QED
      BY <1>1, <1>2, <1>9, <1>11, <2>1, <2>5, <3>1, <3>2, <3>3 DEF Rw, Filters, BothKnown
  <2>6. CASE e = "RDHUP"
    <3>1. type = "socket" /\ file.reof /\ On(file, "read") /\ Ended("read")
      BY <1>1, <2>1, <2>6, ReadySays DEF On, Ended
    <3>2. CASE "R" \in node.eof
      <4>1. node.et => knotes["read"] = "fired"
        BY <1>6, <1>7, <1>13, <2>6, <3>2 DEF Announced
      <4> QED
        BY <1>1, <1>2, <1>9, <1>11, <2>6, <3>1, <3>2, <4>1 DEF Rw, Filters
    <3>3. CASE "R" \notin node.eof
      <4>1. ~BothKnown
        BY <3>3 DEF BothKnown, Sides
      <4> QED
        BY <1>1, <1>5, <1>9, <2>3, <2>6, <3>1, <3>3, <4>1 DEF Rw, SideOf
    <3> QED
      BY <3>2, <3>3
  <2>7. CASE e \in {"HUP", "ERR"}
    <3>1. file.reof /\ file.weof
      BY <1>1, <2>1, <2>7, ReadySays DEF FileInv
    <3>2. \A k \in Rw : Ended(k) /\ On(file, k)
      BY <1>3, <3>1 DEF Ended, Rw
    <3>3. CASE BothKnown
      <4>1. node.et => knotes["read"] = "fired" \/ knotes["write"] = "fired"
        BY <1>6, <1>7, <1>13, <2>7, <3>3 DEF Announced
      <4> QED
        BY <1>2, <1>9, <1>11, <2>1, <3>2, <3>3, <4>1 DEF Rw, Filters, BothKnown
    <3>4. CASE ~BothKnown
      <4>1. node.eof \in {{}, {"R"}, {"W"}}
        BY <1>1, <3>4 DEF NodeRecords, Sides, BothKnown
      <4>2. \E k \in Rw : k \in node.has /\ SideOf(k) \notin node.eof
        <5>1. CASE node.eof = {}
          BY <1>10, <2>3, <3>4, <5>1 DEF Rw
        <5>2. CASE node.eof = {"R"}
          BY <1>8, <1>9, <2>3, <3>4, <5>2 DEF Rw, SideOf, Sides
        <5>3. CASE node.eof = {"W"}
          BY <1>8, <1>9, <2>3, <3>4, <5>3 DEF Rw, SideOf, Sides
        <5> QED
          BY <4>1, <5>1, <5>2, <5>3
      <4> QED
        BY <1>5, <3>2, <4>2
    <3> QED
      BY <3>3, <3>4
  <2> QED
    BY <1>1, <1>13, <2>4, <2>5, <2>6, <2>7 DEF Answers, PollBits
<1>14. CASE Fifo /\ e # "PRI"
  <2>1. type # "fifo_w" => \A k \in Rw : k \in node.has <=> NeededFilters(node)[k] # "none"
    BY <1>14 DEF MatchInv, Loose
  <2>2. CASE node.has = {}
    <3>1. ~node.et
      BY <1>14, <2>2 DEF Unwatched
    <3>2. type = "fifo_w"
      BY <1>10, <2>1, <2>2 DEF Rw
    <3>3. knotes["user"] = "fired"
      BY <1>6, <2>2, <3>1, <3>2 DEF MatchInv
    <3> QED
      BY <1>2, <3>3
  <2>3. CASE node.has # {}
    <3>1. type = "fifo_w" => "write" \in node.has
      BY <2>3 DEF MatchInv
    <3>2. CASE e = "IN"
      <4>1. On(file, "read") /\ type # "fifo_w"
        BY <1>1, <1>14, <3>2, ReadySays DEF On, Fifo
      <4>2. node.et => knotes["read"] = "fired"
        BY <1>1, <1>7, <1>14, <2>3, <3>2 DEF Announced
      <4> QED
        BY <1>1, <1>2, <1>9, <1>11, <3>2, <4>1, <4>2 DEF Rw, Filters
    <3>3. CASE e = "OUT"
      <4>1. On(file, "write") /\ type # "fifo_r" /\ type # "socket"
        BY <1>1, <1>14, <3>3, ReadySays DEF On, Fifo, FileInv
      <4>2. node.et => knotes["write"] = "fired"
        BY <1>1, <1>7, <1>14, <2>3, <3>3 DEF Announced
      <4> QED
        BY <1>1, <1>2, <1>9, <1>11, <3>1, <3>3, <4>1, <4>2 DEF Rw, Filters
    <3>4. CASE e = "HUP"
      <4>1. type = "fifo_r" /\ On(file, "read") /\ Ended("read")
        BY <1>1, <1>14, <3>4, ReadySays DEF On, Ended, Fifo, FileInv
      <4>2. node.et => knotes["read"] = "fired"
        BY <1>1, <1>7, <1>14, <2>3, <3>4 DEF Announced
      <4>3. "read" \in node.has
        BY <1>9, <2>1, <4>1 DEF Rw
      <4>4. CASE node.eof = {}
        BY <1>5, <4>1, <4>3, <4>4 DEF Rw
      <4>5. CASE node.eof # {}
        <5>1. node.eof = Sides /\ type # "fifo_rw"
          BY <1>8, <4>1, <4>5
        <5> QED
          BY <1>2, <1>9, <1>10, <1>11, <4>1, <4>2, <5>1 DEF Rw, Filters
      <4> QED
        BY <4>4, <4>5
    <3>5. CASE e = "ERR"
      <4>1. type = "fifo_w" /\ On(file, "write") /\ Ended("write")
        BY <1>1, <1>14, <3>5, ReadySays DEF On, Ended, Fifo
      <4>2. node.et => knotes["write"] = "fired"
        BY <1>1, <1>7, <1>14, <2>3, <3>5 DEF Announced
      <4>3. CASE node.eof = {}
        BY <1>5, <3>1, <4>1, <4>3 DEF Rw
      <4>4. CASE node.eof # {}
        <5>1. node.eof = Sides /\ type # "fifo_rw"
          BY <1>8, <4>1, <4>4
        <5> QED
          BY <1>2, <1>9, <1>10, <1>11, <3>1, <4>1, <4>2, <5>1 DEF Rw, Filters
      <4> QED
        BY <4>3, <4>4
    <3>6. e # "RDHUP"
      BY <1>1, <1>14, ReadySays DEF Fifo
    <3> QED
      BY <1>1, <1>14, <3>2, <3>3, <3>4, <3>5, <3>6 DEF Answers, PollBits
  <2> QED
    BY <2>2, <2>3
<1> QED
  BY <1>12, <1>13, <1>14

\* When no call is under way and a registered file has something its client is to hear
\* of, some filter of it is active: the next epoll_wait does not block.
THEOREM NothingIsMissed == ASSUME NoOobBack PROVE FilterSpec => []NothingMissed
<1>1. FInv /\ WatchInv /\ [FilterNext]_filterVars => FInv' /\ WatchInv'
  BY FilterStep, WatchStep
<1>2. FilterInit => FInv /\ WatchInv
  BY FilterStart, WatchStart
<1>3. FInv /\ WatchInv => NothingMissed
  BY WatchSays
<1> QED
  BY <1>1, <1>2, <1>3, PTL DEF FilterSpec

=============================================================================
