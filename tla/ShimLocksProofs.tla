--------------------------- MODULE ShimLocksProofs ---------------------------
(***************************************************************************)
(* What the descriptors of shims/epoll synchronise with: RWLock, the lock  *)
(* of their table, and EventFD, the counter that threads sleep on.         *)
(*                                                                         *)
(* RWLock, for every finite set of threads smaller than MAX_READERS: the   *)
(* inductive invariant IInv, writer exclusion, and the refinement of       *)
(* AbstractRWLock.  The invariant counts threads by label, so the argument *)
(* rests on three lemmas about counting: a count is a natural number that  *)
(* is zero for an empty label (Counting), a step moves one thread from one *)
(* label to another (Steps), and four labels together hold at most all     *)
(* threads (Bounded).                                                      *)
(*                                                                         *)
(* EventFD, for every width of the counter, every set of written values    *)
(* and every number of threads: EventTypeOK and ReadableIsSignalled are    *)
(* inductive together; the refinement of AbstractEventFD then follows      *)
(* action by action, and SignalledIsReadable needs that 0 is not written.  *)
(***************************************************************************)
EXTENDS RWLock, EventFD, FiniteSetTheorems, TLAPS

\* The threads that f puts at label l, and how many they are.
Places(f, l) == {t \in Threads : f[t] = l}

N(f, l) == Cardinality(Places(f, l))

\* The number of threads at a label is a natural number, zero when there is
\* no such thread (for the counts of the readers of rwlock.c).
LEMMA Counting ==
  ASSUME NEW f, NEW l
  PROVE  /\ IsFiniteSet(Places(f, l))
         /\ N(f, l) \in Nat
         /\ N(f, l) = 0 <=> Places(f, l) = {}
  <1>1. Places(f, l) \in SUBSET Threads
    BY DEF Places
  <1>2. IsFiniteSet(Places(f, l))
    BY <1>1, ThreadsAssumption, FS_Subset
  <1> QED
    BY <1>2, FS_CardinalityType, FS_EmptySet DEF N

\* Disjoint sets of threads add up.
LEMMA DisjointUnion ==
  ASSUME NEW S, IsFiniteSet(S), NEW T, IsFiniteSet(T), S \cap T = {}
  PROVE  /\ IsFiniteSet(S \cup T)
         /\ Cardinality(S \cup T) = Cardinality(S) + Cardinality(T)
  <1>1. /\ IsFiniteSet(S \cup T)
        /\ Cardinality(S \cup T) =
             Cardinality(S) + Cardinality(T) - Cardinality(S \cap T)
    BY FS_Union
  <1>2. Cardinality(S \cap T) = 0
    BY FS_EmptySet
  <1>3. Cardinality(S) \in Nat /\ Cardinality(T) \in Nat
    BY FS_CardinalityType
  <1> QED
    BY <1>1, <1>2, <1>3

\* Threads at different labels are different threads: the readers pending at
\* rwlock.c's num_pending and the idle threads are at most all threads.
LEMMA Bounded ==
  ASSUME NEW f
  PROVE  N(f, "rd_wait") + N(f, "reading") + N(f, "dg_post") + N(f, "idle")
           <= Cardinality(Threads)
  <1> DEFINE A == Places(f, "rd_wait")
             B == Places(f, "reading")
             C == Places(f, "dg_post")
             D == Places(f, "idle")
  <1>1. /\ IsFiniteSet(A) /\ IsFiniteSet(B)
        /\ IsFiniteSet(C) /\ IsFiniteSet(D)
    BY Counting
  <1>2. /\ A \cap B = {}
        /\ (A \cup B) \cap C = {}
        /\ (A \cup B \cup C) \cap D = {}
    BY DEF Places
  <1> HIDE DEF A, B, C, D
  <1>3. /\ IsFiniteSet(A \cup B)
        /\ Cardinality(A \cup B) = Cardinality(A) + Cardinality(B)
    BY <1>1, <1>2, DisjointUnion
  <1>4. /\ IsFiniteSet(A \cup B \cup C)
        /\ Cardinality(A \cup B \cup C) = Cardinality(A \cup B) + Cardinality(C)
    BY <1>1, <1>2, <1>3, DisjointUnion
  <1>5. Cardinality(A \cup B \cup C \cup D)
          = Cardinality(A \cup B \cup C) + Cardinality(D)
    BY <1>1, <1>2, <1>4, DisjointUnion
  <1>6. A \cup B \cup C \cup D \in SUBSET Threads
    BY DEF Places, A, B, C, D
  <1>7. Cardinality(A \cup B \cup C \cup D) <= Cardinality(Threads)
    BY <1>6, ThreadsAssumption, FS_Subset
  <1> QED
    BY <1>3, <1>4, <1>5, <1>7 DEF N, A, B, C, D

-----------------------------------------------------------------------------
(***************************************************************************)
(* The inductive invariant.                                                *)
(***************************************************************************)

\* At and Count, the way RWLock states its invariant, in terms of the counting
\* lemmas: at most one thread is at a label of a write operation.
LEMMA Owners ==
  ASSUME TypeOK, MutexInv, NEW t \in Threads, t \in MutexOwners
  PROVE  /\ mutex = t
         /\ \A l \in {"wr_sub", "wr_add", "wr_wait", "writing", "wr_post",
                      "dg_post"} :
              IF l = pc[t] THEN Count(l) = 1 /\ At(l) = {t}
                           ELSE Count(l) = 0 /\ At(l) = {}
  <1>1. mutex = t /\ MutexOwners = {t}
    BY NoThreadAssumption DEF MutexInv
  <1>2. SUFFICES ASSUME NEW l \in {"wr_sub", "wr_add", "wr_wait", "writing",
                                   "wr_post", "dg_post"}
                 PROVE  IF l = pc[t] THEN Count(l) = 1 /\ At(l) = {t}
                                     ELSE Count(l) = 0 /\ At(l) = {}
    BY <1>1
  <1>3. At(l) \subseteq {t}
    BY <1>1 DEF MutexOwners, Announced, Posting, At
  <1>4. CASE l = pc[t]
    <2>1. At(l) = {t}
      BY <1>3, <1>4 DEF At
    <2> QED
      BY <1>4, <2>1, FS_Singleton DEF Count, At
  <1>5. CASE l # pc[t]
    <2>1. At(l) = {}
      BY <1>3, <1>5 DEF At
    <2> QED
      BY <1>5, <2>1, FS_EmptySet DEF Count, At
  <1> QED
    BY <1>4, <1>5

\* The invariant holds when the lock of rwlock_init is fresh.
LEMMA InitIInv == Init => IInv
  <1> SUFFICES ASSUME Init PROVE IInv
    OBVIOUS
  <1>1. \A l : l # "idle" => At(l) = {} /\ Count(l) = 0
    BY FS_EmptySet DEF Init, At, Count
  <1>2. TypeOK
    BY DEF Init, TypeOK, Labels
  <1>3. MutexOwners = {} /\ Announced = {}
    BY <1>1 DEF MutexOwners, Announced, Posting
  <1> QED
    BY <1>1, <1>2, <1>3
    DEF Init, IInv, MutexInv, PendingInv, QuietInv, CountingInv, WaitingInv,
        WritingInv, TokenInv

\* The sets and counts of the invariant of rwlock.c, as numbers: in the state
\* before a step ...
LEMMA InCounts ==
  /\ \A l : Count(l) \in Nat
  /\ \A l : At(l) = {} <=> Count(l) = 0
  /\ Announced = {} <=> /\ Count("wr_add") = 0
                        /\ Count("wr_wait") = 0
                        /\ Count("writing") = 0
  /\ Posting = {} <=> Count("wr_post") = 0 /\ Count("dg_post") = 0
  <1>1. \A l : At(l) = Places(pc, l) /\ Count(l) = N(pc, l)
    BY DEF At, Count, Places, N
  <1>2. \A l : Count(l) \in Nat /\ (At(l) = {} <=> Count(l) = 0)
    BY <1>1, Counting
  <1> QED
    BY <1>2 DEF Announced, Posting

\* ... and in the state after it.
LEMMA InCountsPrime ==
  /\ \A l : Count(l)' \in Nat
  /\ \A l : At(l)' = {} <=> Count(l)' = 0
  /\ Announced' = {} <=> /\ Count("wr_add")' = 0
                         /\ Count("wr_wait")' = 0
                         /\ Count("writing")' = 0
  /\ Posting' = {} <=> Count("wr_post")' = 0 /\ Count("dg_post")' = 0
  <1>1. \A l : At(l)' = Places(pc', l) /\ Count(l)' = N(pc', l)
    BY DEF At, Count, Places, N
  <1>2. \A l : Count(l)' \in Nat /\ (At(l)' = {} <=> Count(l)' = 0)
    BY <1>1, Counting
  <1> QED
    BY <1>2 DEF Announced, Posting

\* A step of a thread of rwlock.c takes it from one label to another and
\* leaves the counts of all other labels alone.
LEMMA Steps ==
  ASSUME TypeOK, NEW t \in Threads, NEW from, NEW to, from # to,
         Goto(t, from, to)
  PROVE  /\ Count(from) > 0
         /\ Count(from)' = Count(from) - 1
         /\ Count(to)' = Count(to) + 1
         /\ \A l : l # from /\ l # to => Count(l)' = Count(l)
  <1>1. pc \in [Threads -> Labels] /\ pc[t] = from
    BY DEF TypeOK, Goto
  <1>2. pc' = [pc EXCEPT ![t] = to]
    BY DEF Goto
  <1>3. At(to)' = At(to) \cup {t} /\ t \notin At(to)
    BY <1>1, <1>2 DEF At
  <1>4. At(from)' = At(from) \ {t} /\ t \in At(from)
    BY <1>1, <1>2 DEF At
  <1>5. \A l : l # from /\ l # to => At(l)' = At(l)
    BY <1>1, <1>2 DEF At
  <1>6. \A l : IsFiniteSet(At(l))
    BY Counting DEF At, Places
  <1>7. Count(to)' = Count(to) + 1
    BY <1>3, <1>6, FS_AddElement DEF Count
  <1>8. Count(from)' = Count(from) - 1
    BY <1>4, <1>6, FS_RemoveElement DEF Count
  <1>9. Count(from) > 0
    BY <1>4, InCounts
  <1>10. \A l : l # from /\ l # to => Count(l)' = Count(l)
    BY <1>5 DEF Count
  <1> QED
    BY <1>7, <1>8, <1>9, <1>10

\* Every step of rwlock.c keeps the variables in their types: the local r is
\* never negative, since num_pending without the writer's MAX_READERS is a
\* count of readers.
LEMMA TypeStep == IInv /\ [Next]_vars => TypeOK'
  <1> SUFFICES ASSUME IInv, [Next]_vars PROVE TypeOK'
    OBVIOUS
  <1> USE DEF TypeOK, Labels, Goto
  <1>0. TypeOK
    BY DEF IInv
  <1>1. ASSUME NEW t \in Threads,
               LockRead(t) \/ ReaderWake(t) \/ UnlockRead(t) \/ ReaderDepart(t)
                 \/ ReaderPost(t) \/ LockWrite(t) \/ WriterCount(t)
                 \/ WriterWake(t) \/ PostReader(t) \/ UnlockMutex(t)
        PROVE  TypeOK'
    BY <1>0, <1>1 DEF LockRead, ReaderWake, UnlockRead, ReaderDepart,
         ReaderPost, LockWrite, WriterCount, WriterWake, PostReader, UnlockMutex
  <1>2. ASSUME NEW t \in Threads, WriterAnnounce(t)
        PROVE  TypeOK'
    <2>1. t \in MutexOwners /\ pc[t] = "wr_sub"
      BY <1>2 DEF WriterAnnounce, MutexOwners, At
    <2>2. Announced = {}
      BY <1>0, <2>1, Owners DEF IInv, Announced
    <2>3. num_pending \in Nat
      BY <2>2, InCounts DEF IInv, PendingInv
    <2> QED
      BY <1>0, <1>2, <2>3, MaxReadersAssumption DEF WriterAnnounce
  <1>3. ASSUME NEW t \in Threads, UnlockWrite(t) \/ Downgrade(t)
        PROVE  TypeOK'
    <2>1. t \in Announced
      BY <1>3 DEF UnlockWrite, Downgrade, UnlockCommon, Announced, At
    <2>2. num_pending + MAX_READERS \in Nat
      BY <2>1, InCounts, MaxReadersAssumption DEF IInv, PendingInv
    <2> QED
      BY <1>0, <1>3, <2>2, MaxReadersAssumption
      DEF UnlockWrite, Downgrade, UnlockCommon
  <1>4. CASE UNCHANGED vars
    BY <1>0, <1>4 DEF vars
  <1> QED
    BY <1>1, <1>2, <1>3, <1>4 DEF Next, Proceed

\* The mutex of rwlock.c always belongs to the one thread that is inside a
\* write operation.
LEMMA MutexStep == IInv /\ [Next]_vars => MutexInv'
  <1> SUFFICES ASSUME IInv, [Next]_vars PROVE MutexInv'
    OBVIOUS
  <1> USE DEF MutexInv, MutexOwners, Announced, Posting, At, Goto
  <1>0. TypeOK /\ MutexInv
    BY DEF IInv
  <1>1. ASSUME NEW t \in Threads,
               LockRead(t) \/ ReaderWake(t) \/ UnlockRead(t) \/ ReaderDepart(t)
                 \/ ReaderPost(t)
        PROVE  MutexInv'
    BY <1>0, <1>1 DEF LockRead, ReaderWake, UnlockRead, ReaderDepart,
         ReaderPost, TypeOK
  <1>2. ASSUME NEW t \in Threads, LockWrite(t)
        PROVE  MutexInv'
    BY <1>0, <1>2, NoThreadAssumption DEF LockWrite, TypeOK
  <1>3. ASSUME NEW t \in Threads,
               WriterAnnounce(t) \/ WriterCount(t) \/ WriterWake(t)
                 \/ UnlockWrite(t) \/ Downgrade(t) \/ PostReader(t)
        PROVE  MutexInv'
    BY <1>0, <1>3 DEF WriterAnnounce, WriterCount, WriterWake, UnlockWrite,
         Downgrade, UnlockCommon, PostReader, TypeOK
  <1>4. ASSUME NEW t \in Threads, UnlockMutex(t)
        PROVE  MutexInv'
    BY <1>0, <1>4, NoThreadAssumption DEF UnlockMutex, TypeOK
  <1>5. CASE UNCHANGED vars
    BY <1>0, <1>5 DEF vars
  <1> QED
    BY <1>1, <1>2, <1>3, <1>4, <1>5 DEF Next, Proceed

-----------------------------------------------------------------------------
\* The parts of IInv about counts, which the steps of rwlock.c's atomic
\* counters and semaphores could disturb.
CountInv ==
  /\ PendingInv
  /\ QuietInv
  /\ CountingInv
  /\ WaitingInv
  /\ WritingInv
  /\ TokenInv

\* rwlock_lock_read keeps the counts: the sign of num_pending + 1 tells
\* whether a writer is announced, because the readers are fewer than
\* MAX_READERS.
LEMMA LockReadStep ==
  ASSUME IInv, NEW t \in Threads, LockRead(t)
  PROVE  CountInv'
  <1>0. TypeOK /\ CountInv
    BY DEF IInv, CountInv
  <1>1. CASE num_pending + 1 < 0
    <2>1. Goto(t, "idle", "rd_wait")
      BY <1>1 DEF LockRead
    <2>2. /\ Count("rd_wait")' = Count("rd_wait") + 1
          /\ \A l : l # "rd_wait" /\ l # "idle" => Count(l)' = Count(l)
      BY <1>0, <2>1, Steps
    <2>3. Announced # {}
      BY <1>0, <1>1, InCounts DEF CountInv, PendingInv
    <2>4. Announced' # {}
      BY <2>2, <2>3, InCounts, InCountsPrime
    <2>5. Leaving' = Leaving
      BY <2>2 DEF LockRead, Leaving
    <2>6. PendingInv' /\ QuietInv'
      BY <1>0, <2>2, <2>3, <2>4, InCounts, InCountsPrime, MaxReadersAssumption
      DEF LockRead, CountInv, PendingInv, QuietInv
    <2>7. CountingInv' /\ WaitingInv' /\ WritingInv'
      BY <1>0, <2>2, <2>5, InCounts, InCountsPrime
      DEF LockRead, CountInv, CountingInv, WaitingInv, WritingInv
    <2>8. TokenInv'
      BY <1>0, <2>2, InCounts DEF LockRead, TypeOK, CountInv, TokenInv
    <2> QED
      BY <2>6, <2>7, <2>8 DEF CountInv
  <1>2. CASE ~(num_pending + 1 < 0)
    <2>1. Goto(t, "idle", "reading")
      BY <1>2 DEF LockRead
    <2>2. /\ Count("reading")' = Count("reading") + 1
          /\ Count("idle") > 0
          /\ \A l : l # "reading" /\ l # "idle" => Count(l)' = Count(l)
      BY <1>0, <2>1, Steps
    <2>3. Announced = {}
      <3>1. Count("rd_wait") + Count("reading") + Count("dg_post")
              + Count("idle") <= Cardinality(Threads)
        BY Bounded DEF Count, At, N, Places
      <3>2. Cardinality(Threads) \in Nat
        BY ThreadsAssumption, FS_CardinalityType
      <3> QED
        BY <1>0, <1>2, <2>2, <3>1, <3>2, InCounts, MaxReadersAssumption
        DEF CountInv, PendingInv
    <2>4. Announced' = {} /\ (Posting' = {} <=> Posting = {})
      BY <2>2, <2>3, InCounts, InCountsPrime
    <2>5. QuietInv'
      BY <1>0, <2>2, <2>3, <2>4, InCounts, InCountsPrime
      DEF LockRead, CountInv, QuietInv
    <2>6. PendingInv'
      BY <1>0, <2>2, <2>3, <2>4, InCounts, InCountsPrime
      DEF LockRead, CountInv, PendingInv
    <2> QED
      BY <1>0, <2>2, <2>4, <2>5, <2>6, InCounts, InCountsPrime
      DEF LockRead, TypeOK, CountInv, CountingInv, WaitingInv, WritingInv,
          TokenInv
  <1> QED
    BY <1>1, <1>2

\* sem_wait(reader_wait) in rwlock_lock_read keeps the counts: the token a
\* reader takes turns it from waiting into reading.
LEMMA ReaderWakeStep ==
  ASSUME IInv, NEW t \in Threads, ReaderWake(t)
  PROVE  CountInv'
  <1>0. TypeOK /\ CountInv
    BY DEF IInv, CountInv
  <1>1. /\ Count("rd_wait")' = Count("rd_wait") - 1
        /\ Count("reading")' = Count("reading") + 1
        /\ \A l : l # "rd_wait" /\ l # "reading" => Count(l)' = Count(l)
    BY <1>0, Steps DEF ReaderWake
  <1>2. /\ Announced' = {} <=> Announced = {}
        /\ Posting' = {} <=> Posting = {}
    BY <1>1, InCounts, InCountsPrime
  <1>3. Leaving' = Leaving
    BY <1>0, <1>1, InCounts DEF ReaderWake, Leaving, TypeOK
  <1>4. PendingInv' /\ QuietInv'
    BY <1>0, <1>1, <1>2, InCounts, InCountsPrime
    DEF ReaderWake, TypeOK, CountInv, PendingInv, QuietInv
  <1>5. CountingInv' /\ WaitingInv' /\ WritingInv'
    BY <1>0, <1>1, <1>3, InCounts, InCountsPrime
    DEF ReaderWake, CountInv, CountingInv, WaitingInv, WritingInv
  <1>6. TokenInv'
    BY <1>0, <1>1, InCounts DEF ReaderWake, TypeOK, CountInv, TokenInv
  <1> QED
    BY <1>4, <1>5, <1>6 DEF CountInv

\* The decrement of num_pending in rwlock_unlock_read keeps the counts: with a
\* writer announced the reader is one of those the writer waits for.
LEMMA UnlockReadStep ==
  ASSUME IInv, NEW t \in Threads, UnlockRead(t)
  PROVE  CountInv'
  <1>0. TypeOK /\ CountInv
    BY DEF IInv, CountInv
  <1>1. CASE num_pending - 1 < 0
    <2>1. Goto(t, "reading", "rd_depart")
      BY <1>1 DEF UnlockRead
    <2>2. /\ Count("reading") > 0
          /\ Count("reading")' = Count("reading") - 1
          /\ Count("rd_depart")' = Count("rd_depart") + 1
          /\ \A l : l # "rd_depart" /\ l # "reading" => Count(l)' = Count(l)
      BY <1>0, <2>1, Steps
    <2>3. Announced # {}
      BY <1>0, <1>1, <2>2, InCounts DEF CountInv, PendingInv
    <2>4. Announced' # {}
      BY <2>2, <2>3, InCounts, InCountsPrime
    <2>5. Leaving' = Leaving
      BY <1>0, <2>2, InCounts DEF UnlockRead, Leaving, TypeOK
    <2>6. PendingInv' /\ QuietInv'
      BY <1>0, <2>2, <2>3, <2>4, InCounts, InCountsPrime, MaxReadersAssumption
      DEF UnlockRead, CountInv, PendingInv, QuietInv
    <2>7. CountingInv' /\ WaitingInv' /\ WritingInv'
      BY <1>0, <2>2, <2>5, InCounts, InCountsPrime
      DEF UnlockRead, CountInv, CountingInv, WaitingInv, WritingInv
    <2>8. TokenInv'
      BY <1>0, <2>2, InCounts DEF UnlockRead, TypeOK, CountInv, TokenInv
    <2> QED
      BY <2>6, <2>7, <2>8 DEF CountInv
  <1>2. CASE ~(num_pending - 1 < 0)
    <2>1. Goto(t, "reading", "idle")
      BY <1>2 DEF UnlockRead
    <2>2. /\ Count("reading")' = Count("reading") - 1
          /\ \A l : l # "reading" /\ l # "idle" => Count(l)' = Count(l)
      BY <1>0, <2>1, Steps
    <2>3. Announced = {}
      <3>1. Count("rd_wait") + Count("reading") + Count("dg_post")
              + Count("idle") <= Cardinality(Threads)
        BY Bounded DEF Count, At, N, Places
      <3>2. Cardinality(Threads) \in Nat
        BY ThreadsAssumption, FS_CardinalityType
      <3> QED
        BY <1>0, <1>2, <2>2, <3>1, <3>2, InCounts, MaxReadersAssumption
        DEF CountInv, PendingInv
    <2>4. Announced' = {} /\ (Posting' = {} <=> Posting = {})
      BY <2>2, <2>3, InCounts, InCountsPrime
    <2>5. QuietInv'
      BY <1>0, <2>2, <2>3, <2>4, InCounts, InCountsPrime
      DEF UnlockRead, CountInv, QuietInv
    <2>6. PendingInv'
      BY <1>0, <2>2, <2>3, <2>4, InCounts, InCountsPrime
      DEF UnlockRead, CountInv, PendingInv
    <2> QED
      BY <1>0, <2>2, <2>4, <2>5, <2>6, InCounts, InCountsPrime
      DEF UnlockRead, TypeOK, CountInv, CountingInv, WaitingInv, WritingInv,
          TokenInv
  <1> QED
    BY <1>1, <1>2

\* The decrement of readers_departing in rwlock_unlock_read keeps the counts:
\* the reader that brings it to zero, and no other, owes the writer a post.
LEMMA ReaderDepartStep ==
  ASSUME IInv, NEW t \in Threads, ReaderDepart(t)
  PROVE  CountInv'
  <1>0. TypeOK /\ MutexInv /\ CountInv
    BY DEF IInv, CountInv
  <1> DEFINE to == IF readers_departing - 1 = 0 THEN "rd_post" ELSE "idle"
  <1>1. /\ Count("rd_depart") > 0
        /\ Count("rd_depart")' = Count("rd_depart") - 1
        /\ Count("rd_post")' = IF readers_departing - 1 = 0
                                 THEN Count("rd_post") + 1
                                 ELSE Count("rd_post")
        /\ \A l : l \notin {"rd_depart", "rd_post", "idle"}
                    => Count(l)' = Count(l)
    <2>1. Goto(t, "rd_depart", to)
      BY DEF ReaderDepart
    <2>2. CASE readers_departing - 1 = 0
      BY <1>0, <2>1, <2>2, Steps
    <2>3. CASE readers_departing - 1 # 0
      BY <1>0, <2>1, <2>3, Steps
    <2> QED
      BY <2>2, <2>3
  <1>2. Announced # {}
    BY <1>0, <1>1, InCounts DEF CountInv, QuietInv
  <1>3. Announced' # {}
    BY <1>1, <1>2, InCounts, InCountsPrime
  <1>4. Leaving' = Leaving - 1 /\ Leaving \in Nat /\ Leaving > 0
    BY <1>0, <1>1, InCounts DEF ReaderDepart, Leaving, TypeOK
  <1>5. PendingInv' /\ QuietInv'
    BY <1>0, <1>1, <1>2, <1>3, InCounts, InCountsPrime
    DEF ReaderDepart, CountInv, PendingInv, QuietInv
  <1>6. CountingInv'
    BY <1>0, <1>1, <1>4, InCounts, InCountsPrime
    DEF ReaderDepart, TypeOK, CountInv, CountingInv
  <1>7. WaitingInv'
    <2> SUFFICES ASSUME At("wr_wait")' # {}
                 PROVE  /\ Leaving' = readers_departing'
                        /\ Count("rd_post")' + writer_wait'
                             = (IF readers_departing' = 0 THEN 1 ELSE 0)
      BY DEF WaitingInv
    <2>1. /\ Leaving = readers_departing
          /\ Count("rd_post") + writer_wait = 0
      BY <1>0, <1>1, <1>4, InCounts, InCountsPrime DEF CountInv, WaitingInv
    <2>2. Count("rd_post") = 0 /\ writer_wait = 0
      BY <1>0, <2>1, InCounts DEF TypeOK
    <2>3. Count("rd_post")' = IF readers_departing - 1 = 0 THEN 1 ELSE 0
      BY <1>1, <2>2
    <2>4. /\ readers_departing' = readers_departing - 1
          /\ writer_wait' = writer_wait
      BY DEF ReaderDepart
    <2> QED
      BY <1>0, <1>4, <2>1, <2>2, <2>3, <2>4 DEF TypeOK
  <1>8. WritingInv'
    BY <1>0, <1>1, <1>4, InCounts, InCountsPrime
    DEF ReaderDepart, CountInv, WritingInv
  <1>9. TokenInv'
    BY <1>0, <1>1, InCounts DEF ReaderDepart, CountInv, TokenInv
  <1> QED
    BY <1>5, <1>6, <1>7, <1>8, <1>9 DEF CountInv

\* sem_post(writer_wait) in rwlock_unlock_read keeps the counts: the post owed
\* becomes a token, while the writer still waits for it.
LEMMA ReaderPostStep ==
  ASSUME IInv, NEW t \in Threads, ReaderPost(t)
  PROVE  CountInv'
  <1>0. TypeOK /\ MutexInv /\ CountInv
    BY DEF IInv, CountInv
  <1>1. /\ Count("rd_post") > 0
        /\ Count("rd_post")' = Count("rd_post") - 1
        /\ \A l : l # "rd_post" /\ l # "idle" => Count(l)' = Count(l)
    BY <1>0, Steps DEF ReaderPost
  <1>2. /\ Announced # {}
        /\ At("wr_add") = {}
        /\ At("writing") = {}
    BY <1>0, <1>1, InCounts DEF CountInv, QuietInv, CountingInv, WritingInv
  <1>3. /\ Announced' # {}
        /\ At("wr_add")' = {}
        /\ At("writing")' = {}
    BY <1>1, <1>2, InCounts, InCountsPrime
  <1>4. Leaving' = Leaving
    BY <1>1 DEF ReaderPost, Leaving
  <1>5. PendingInv' /\ QuietInv' /\ TokenInv'
    BY <1>0, <1>1, <1>2, <1>3, InCounts, InCountsPrime
    DEF ReaderPost, CountInv, PendingInv, QuietInv, TokenInv
  <1>6. WaitingInv'
    BY <1>0, <1>1, <1>4, InCounts, InCountsPrime
    DEF ReaderPost, TypeOK, CountInv, WaitingInv
  <1> QED
    BY <1>3, <1>5, <1>6 DEF CountInv, CountingInv, WritingInv

\* Taking the mutex in rwlock_lock_write changes no count of readers.
LEMMA LockWriteStep ==
  ASSUME IInv, NEW t \in Threads, LockWrite(t)
  PROVE  CountInv'
  <1>0. TypeOK /\ CountInv
    BY DEF IInv, CountInv
  <1>1. \A l : l # "wr_sub" /\ l # "idle" => Count(l)' = Count(l)
    BY <1>0, Steps DEF LockWrite
  <1>2. /\ Announced' = {} <=> Announced = {}
        /\ Posting' = {} <=> Posting = {}
    BY <1>1, InCounts, InCountsPrime
  <1>3. Leaving' = Leaving
    BY <1>1 DEF LockWrite, Leaving
  <1>4. PendingInv' /\ QuietInv' /\ TokenInv'
    BY <1>0, <1>1, <1>2, InCounts, InCountsPrime
    DEF LockWrite, CountInv, PendingInv, QuietInv, TokenInv
  <1>5. CountingInv' /\ WaitingInv' /\ WritingInv'
    BY <1>0, <1>1, <1>3, InCounts, InCountsPrime
    DEF LockWrite, CountInv, CountingInv, WaitingInv, WritingInv
  <1> QED
    BY <1>4, <1>5 DEF CountInv

\* The subtraction of MAX_READERS in rwlock_lock_write keeps the counts: the r
\* it returns is the number of readers that have to leave, those that read
\* and those with a token for reading.
LEMMA WriterAnnounceStep ==
  ASSUME IInv, NEW t \in Threads, WriterAnnounce(t)
  PROVE  CountInv'
  <1>0. TypeOK /\ MutexInv /\ CountInv
    BY DEF IInv, CountInv
  <1>1. pc[t] = "wr_sub" /\ t \in MutexOwners
    BY DEF WriterAnnounce, Goto, MutexOwners, At
  <1>2. /\ Count("wr_add") = 0 /\ Count("wr_wait") = 0
        /\ Count("writing") = 0 /\ Count("wr_post") = 0
        /\ Count("dg_post") = 0
    BY <1>0, <1>1, Owners
  <1>3. Announced = {} /\ Posting = {}
    BY <1>2, InCounts
  <1>4. /\ num_pending = Count("rd_wait") + Count("reading")
        /\ readers_departing = 0 /\ writer_wait = 0
        /\ Count("rd_depart") = 0 /\ Count("rd_post") = 0
        /\ Count("rd_wait") = reader_wait
    BY <1>0, <1>2, <1>3, InCounts DEF TypeOK, CountInv, PendingInv, QuietInv
  <1>5. /\ num_pending' = num_pending - MAX_READERS
        /\ r' = num_pending
        /\ UNCHANGED <<readers_departing, writer_wait, reader_wait>>
    BY DEF WriterAnnounce
  <1>6. CASE num_pending = 0
    <2>1. /\ Count("writing")' = 1
          /\ \A l : l # "wr_sub" /\ l # "writing" => Count(l)' = Count(l)
      BY <1>0, <1>2, <1>6, Steps DEF WriterAnnounce
    <2>2. Announced' # {}
      BY <2>1, InCountsPrime
    <2>3. PendingInv' /\ QuietInv' /\ TokenInv'
      BY <1>2, <1>4, <1>5, <2>1, <2>2, InCounts, MaxReadersAssumption
      DEF PendingInv, QuietInv, TokenInv
    <2>4. CountingInv' /\ WaitingInv'
      BY <1>2, <2>1, InCountsPrime DEF CountingInv, WaitingInv
    <2>5. WritingInv'
      BY <1>4, <1>5, <1>6, <2>1, InCounts, InCountsPrime DEF WritingInv, Leaving
    <2> QED
      BY <2>3, <2>4, <2>5 DEF CountInv
  <1>7. CASE num_pending # 0
    <2>1. /\ Count("wr_add")' = 1
          /\ \A l : l # "wr_sub" /\ l # "wr_add" => Count(l)' = Count(l)
      BY <1>0, <1>2, <1>7, Steps DEF WriterAnnounce
    <2>2. Announced' # {}
      BY <2>1, InCountsPrime
    <2>3. PendingInv' /\ QuietInv' /\ TokenInv'
      BY <1>2, <1>4, <1>5, <2>1, <2>2, InCounts, MaxReadersAssumption
      DEF PendingInv, QuietInv, TokenInv
    <2>4. WritingInv' /\ WaitingInv'
      BY <1>2, <2>1, InCountsPrime DEF WritingInv, WaitingInv
    <2>5. CountingInv'
      BY <1>4, <1>5, <1>7, <2>1, InCounts, InCountsPrime DEF CountingInv, Leaving
    <2> QED
      BY <2>3, <2>4, <2>5 DEF CountInv
  <1> QED
    BY <1>6, <1>7

\* The addition of r in rwlock_lock_write keeps the counts: the sum is the
\* number of readers that have still to leave, and at zero none of them will
\* post.
LEMMA WriterCountStep ==
  ASSUME IInv, NEW t \in Threads, WriterCount(t)
  PROVE  CountInv'
  <1>0. TypeOK /\ MutexInv /\ CountInv
    BY DEF IInv, CountInv
  <1>1. pc[t] = "wr_add" /\ t \in MutexOwners
    BY DEF WriterCount, Goto, MutexOwners, Announced, At
  <1>2. /\ Count("wr_add") = 1 /\ Count("wr_wait") = 0
        /\ Count("writing") = 0
    BY <1>0, <1>1, Owners
  <1>3. Announced # {}
    BY <1>2, InCounts
  <1>4. /\ Leaving = r + readers_departing
        /\ Count("rd_post") = 0 /\ writer_wait = 0
    BY <1>0, <1>2, InCounts DEF CountInv, CountingInv
  <1>5. /\ readers_departing' = readers_departing + r
        /\ UNCHANGED <<num_pending, writer_wait, reader_wait>>
    BY DEF WriterCount
  <1>6. CASE readers_departing + r = 0
    <2>1. /\ Count("writing")' = 1
          /\ Count("wr_add")' = 0
          /\ \A l : l # "wr_add" /\ l # "writing" => Count(l)' = Count(l)
      BY <1>0, <1>2, <1>6, Steps DEF WriterCount
    <2>2. Announced' # {}
      BY <2>1, InCountsPrime
    <2>3. PendingInv' /\ QuietInv' /\ TokenInv'
      BY <1>0, <1>3, <1>5, <2>1, <2>2
      DEF CountInv, PendingInv, QuietInv, TokenInv
    <2>4. CountingInv' /\ WaitingInv'
      BY <1>2, <2>1, InCountsPrime DEF CountingInv, WaitingInv
    <2>5. Leaving' = Leaving
      BY <1>5, <2>1 DEF Leaving
    <2>6. WritingInv'
      BY <1>0, <1>4, <1>5, <1>6, <2>1, <2>5, InCountsPrime
      DEF WritingInv, TypeOK
    <2> QED
      BY <2>3, <2>4, <2>6 DEF CountInv
  <1>7. CASE readers_departing + r # 0
    <2>1. /\ Count("wr_wait")' = 1
          /\ Count("wr_add")' = 0
          /\ \A l : l # "wr_add" /\ l # "wr_wait" => Count(l)' = Count(l)
      BY <1>0, <1>2, <1>7, Steps DEF WriterCount
    <2>2. Announced' # {}
      BY <2>1, InCountsPrime
    <2>3. PendingInv' /\ QuietInv' /\ TokenInv'
      BY <1>0, <1>3, <1>5, <2>1, <2>2
      DEF CountInv, PendingInv, QuietInv, TokenInv
    <2>4. CountingInv' /\ WritingInv'
      BY <1>2, <2>1, InCountsPrime DEF CountingInv, WritingInv
    <2>5. Leaving' = Leaving
      BY <1>5, <2>1 DEF Leaving
    <2>6. WaitingInv'
      BY <1>0, <1>4, <1>5, <1>7, <2>1, <2>5, InCountsPrime
      DEF WaitingInv, TypeOK
    <2> QED
      BY <2>3, <2>4, <2>6 DEF CountInv
  <1> QED
    BY <1>6, <1>7

\* sem_wait(writer_wait) in rwlock_lock_write keeps the counts: the one token
\* is used up and no reader is left.
LEMMA WriterWakeStep ==
  ASSUME IInv, NEW t \in Threads, WriterWake(t)
  PROVE  CountInv'
  <1>0. TypeOK /\ MutexInv /\ CountInv
    BY DEF IInv, CountInv
  <1>1. pc[t] = "wr_wait" /\ t \in MutexOwners
    BY DEF WriterWake, Goto, MutexOwners, Announced, At
  <1>2. /\ Count("wr_wait") = 1 /\ Count("wr_add") = 0
        /\ Count("writing") = 0
    BY <1>0, <1>1, Owners
  <1>3. Announced # {}
    BY <1>2, InCounts
  <1>4. /\ writer_wait > 0
        /\ writer_wait' = writer_wait - 1
        /\ UNCHANGED <<num_pending, readers_departing, reader_wait>>
    BY DEF WriterWake
  <1>5. /\ readers_departing = 0 /\ Leaving = 0
        /\ writer_wait = 1 /\ Count("rd_post") = 0
    BY <1>0, <1>2, <1>4, InCounts DEF TypeOK, CountInv, WaitingInv
  <1>6. /\ Count("writing")' = 1
        /\ Count("wr_wait")' = 0
        /\ \A l : l # "wr_wait" /\ l # "writing" => Count(l)' = Count(l)
    BY <1>0, <1>2, Steps DEF WriterWake
  <1>7. Announced' # {}
    BY <1>6, InCountsPrime
  <1>8. PendingInv' /\ QuietInv' /\ TokenInv'
    BY <1>0, <1>3, <1>4, <1>6, <1>7
    DEF CountInv, PendingInv, QuietInv, TokenInv
  <1>9. CountingInv' /\ WaitingInv'
    BY <1>2, <1>6, InCountsPrime DEF CountingInv, WaitingInv
  <1>10. WritingInv'
    <2>1. Leaving' = Leaving
      BY <1>4, <1>6 DEF Leaving
    <2> QED
      BY <1>4, <1>5, <1>6, <2>1, InCountsPrime DEF WritingInv
  <1> QED
    BY <1>8, <1>9, <1>10 DEF CountInv

\* The addition in rwlock_unlock_common keeps the counts: what it returns,
\* less keep_reading, is the number of readers that wait, and each of them is
\* owed one post.
LEMMA UnlockCommonStep ==
  ASSUME IInv, NEW t \in Threads,
         UnlockWrite(t) \/ Downgrade(t)
  PROVE  CountInv'
  <1>0. TypeOK /\ MutexInv /\ CountInv
    BY DEF IInv, CountInv
  <1>1. pc[t] = "writing" /\ t \in MutexOwners
    BY DEF UnlockWrite, Downgrade, UnlockCommon, Goto, MutexOwners, Announced,
           At
  <1>2. /\ Count("writing") = 1 /\ Count("wr_add") = 0 /\ Count("wr_wait") = 0
        /\ Count("wr_post") = 0 /\ Count("dg_post") = 0
    BY <1>0, <1>1, Owners
  <1>3. Announced # {}
    BY <1>2, InCounts
  <1>4. /\ readers_departing = 0 /\ writer_wait = 0 /\ Count("rd_post") = 0
        /\ Leaving = 0
    BY <1>0, <1>2, InCounts DEF CountInv, WritingInv
  <1>5. /\ reader_wait = 0 /\ Count("reading") = 0 /\ Count("rd_depart") = 0
    BY <1>0, <1>4, InCounts DEF Leaving, TypeOK
  <1>6. num_pending = Count("rd_wait") - MAX_READERS
    BY <1>0, <1>2, <1>3, <1>5, InCounts, MaxReadersAssumption
    DEF CountInv, PendingInv
  <1>7. /\ r' = Count("rd_wait")
        /\ UNCHANGED <<readers_departing, writer_wait, reader_wait>>
    BY <1>6, InCounts, MaxReadersAssumption
    DEF UnlockWrite, Downgrade, UnlockCommon
  <1>8. /\ Count("writing")' = 0
        /\ \A l : l \notin {"writing", "wr_post", "dg_post"}
                    => Count(l)' = Count(l)
        /\ num_pending' = Count("rd_wait") + Count("dg_post")'
        /\ Count("wr_post")' + Count("dg_post")' = 1
    <2>1. CASE UnlockWrite(t)
      <3>1. Goto(t, "writing", "wr_post")
        BY <2>1 DEF UnlockWrite, UnlockCommon
      <3>2. /\ Count("writing")' = Count("writing") - 1
            /\ Count("wr_post")' = Count("wr_post") + 1
            /\ \A l : l # "writing" /\ l # "wr_post" => Count(l)' = Count(l)
        BY <1>0, <3>1, Steps
      <3>3. num_pending' = num_pending + MAX_READERS + 0
        BY <2>1 DEF UnlockWrite, UnlockCommon
      <3>4. Count("rd_wait") \in Nat /\ MAX_READERS \in Nat
        BY InCounts, MaxReadersAssumption
      <3>5. Count("dg_post")' = 0 /\ Count("wr_post")' = 1
        BY <1>2, <3>2
      <3>6. num_pending' = Count("rd_wait") + 0
        BY <1>6, <3>3, <3>4
      <3> QED
        BY <1>2, <3>2, <3>5, <3>6
    <2>2. CASE Downgrade(t)
      <3>1. Goto(t, "writing", "dg_post")
        BY <2>2 DEF Downgrade, UnlockCommon
      <3>2. /\ Count("writing")' = Count("writing") - 1
            /\ Count("dg_post")' = Count("dg_post") + 1
            /\ \A l : l # "writing" /\ l # "dg_post" => Count(l)' = Count(l)
        BY <1>0, <3>1, Steps
      <3>3. num_pending' = num_pending + MAX_READERS + 1
        BY <2>2 DEF Downgrade, UnlockCommon
      <3>4. Count("rd_wait") \in Nat /\ MAX_READERS \in Nat
        BY InCounts, MaxReadersAssumption
      <3>5. Count("dg_post")' = 1 /\ Count("wr_post")' = 0
        BY <1>2, <3>2
      <3>6. num_pending' = Count("rd_wait") + 1
        BY <1>6, <3>3, <3>4
      <3> QED
        BY <1>2, <3>2, <3>5, <3>6
    <2> QED
      BY <2>1, <2>2
  <1>9. Announced' = {} /\ Posting' # {}
    BY <1>2, <1>8, InCountsPrime
  <1>10. PendingInv'
    BY <1>5, <1>8, <1>9, InCounts, InCountsPrime DEF PendingInv
  <1>11. QuietInv'
    BY <1>4, <1>5, <1>7, <1>8, <1>9, InCounts, InCountsPrime DEF QuietInv
  <1>12. CountingInv' /\ WaitingInv' /\ WritingInv'
    BY <1>2, <1>8, InCountsPrime DEF CountingInv, WaitingInv, WritingInv
  <1>13. TokenInv'
    BY <1>5, <1>7, InCountsPrime DEF TokenInv
  <1> QED
    BY <1>10, <1>11, <1>12, <1>13 DEF CountInv

\* sem_post(reader_wait) in the loop of rwlock_unlock_common keeps the counts:
\* one post owed becomes one token.
LEMMA PostReaderStep ==
  ASSUME IInv, NEW t \in Threads, PostReader(t)
  PROVE  CountInv'
  <1>0. TypeOK /\ MutexInv /\ CountInv
    BY DEF IInv, CountInv
  <1>1. pc[t] \in {"wr_post", "dg_post"} /\ t \in MutexOwners
    BY DEF PostReader, MutexOwners, Posting, At
  <1>2. Count("writing") = 0 /\ Count("wr_add") = 0 /\ Count("wr_wait") = 0
    BY <1>0, <1>1, Owners
  <1>3. Announced = {} /\ Posting # {}
    BY <1>1, <1>2, InCounts DEF Posting, At
  <1>4. /\ r > 0 /\ r' = r - 1
        /\ reader_wait' = reader_wait + 1
        /\ UNCHANGED <<pc, num_pending, readers_departing, writer_wait>>
    BY DEF PostReader
  <1>5. /\ \A l : Count(l)' = Count(l) /\ At(l)' = At(l)
        /\ Announced' = {} /\ Posting' # {}
    BY <1>3, <1>4 DEF Count, At, Announced, Posting
  <1>6. PendingInv'
    BY <1>0, <1>3, <1>4, <1>5 DEF CountInv, PendingInv
  <1>7. QuietInv' /\ TokenInv'
    BY <1>0, <1>3, <1>4, <1>5, InCounts
    DEF TypeOK, CountInv, QuietInv, TokenInv
  <1>8. CountingInv' /\ WaitingInv' /\ WritingInv'
    BY <1>2, <1>5, InCounts DEF CountingInv, WaitingInv, WritingInv
  <1> QED
    BY <1>6, <1>7, <1>8 DEF CountInv

\* Releasing the mutex at the end of rwlock_unlock_common keeps the counts:
\* all posts are done, and a downgraded writer goes on as a reader.
LEMMA UnlockMutexStep ==
  ASSUME IInv, NEW t \in Threads, UnlockMutex(t)
  PROVE  CountInv'
  <1>0. TypeOK /\ MutexInv /\ CountInv
    BY DEF IInv, CountInv
  <1>1. pc[t] \in {"wr_post", "dg_post"} /\ t \in MutexOwners
    BY DEF UnlockMutex, Goto, MutexOwners, Posting, At
  <1>2. /\ Count("writing") = 0 /\ Count("wr_add") = 0 /\ Count("wr_wait") = 0
        /\ Count("wr_post") + Count("dg_post") = 1
    BY <1>0, <1>1, Owners
  <1>3. Announced = {} /\ Posting # {}
    BY <1>2, InCounts
  <1>4. /\ r = 0
        /\ UNCHANGED <<num_pending, readers_departing, writer_wait, reader_wait>>
    BY <1>0 DEF UnlockMutex, TypeOK
  <1>5. /\ Count("wr_post")' = 0
        /\ Count("dg_post")' = 0
        /\ Count("reading")' = Count("reading") + Count("dg_post")
        /\ \A l : l \notin {"wr_post", "dg_post", "idle", "reading"}
                    => Count(l)' = Count(l)
    <2>1. CASE Goto(t, "wr_post", "idle")
      BY <1>0, <1>2, <2>1, Steps, InCounts
    <2>2. CASE Goto(t, "dg_post", "reading")
      BY <1>0, <1>2, <2>2, Steps, InCounts
    <2> QED
      BY <2>1, <2>2 DEF UnlockMutex
  <1>6. Announced' = {} /\ Posting' = {}
    BY <1>2, <1>5, InCountsPrime
  <1>7. PendingInv'
    BY <1>0, <1>3, <1>4, <1>5, <1>6, InCounts DEF CountInv, PendingInv
  <1>8. QuietInv' /\ TokenInv'
    BY <1>0, <1>3, <1>4, <1>5, <1>6, InCounts, InCountsPrime
    DEF TypeOK, CountInv, QuietInv, TokenInv
  <1>9. CountingInv' /\ WaitingInv' /\ WritingInv'
    BY <1>2, <1>5, InCountsPrime DEF CountingInv, WaitingInv, WritingInv
  <1> QED
    BY <1>7, <1>8, <1>9 DEF CountInv

-----------------------------------------------------------------------------
\* IInv is an invariant of rwlock.c's lock: whatever the interleaving, the two
\* counters and the two semaphores account for every thread.
THEOREM Invariance == Spec => []IInv
  <1>1. Init => IInv
    BY InitIInv
  <1>2. IInv /\ [Next]_vars => IInv'
    <2> SUFFICES ASSUME IInv, [Next]_vars PROVE IInv'
      OBVIOUS
    <2>1. TypeOK' /\ MutexInv'
      BY TypeStep, MutexStep
    <2>2. SUFFICES CountInv'
      BY <2>1 DEF IInv, CountInv
    <2>3. ASSUME NEW t \in Threads,
                 LockRead(t) \/ LockWrite(t) \/ Proceed(t)
          PROVE  CountInv'
      BY <2>3, LockReadStep, ReaderWakeStep, UnlockReadStep, ReaderDepartStep,
         ReaderPostStep, LockWriteStep, WriterAnnounceStep, WriterCountStep,
         WriterWakeStep, UnlockCommonStep, PostReaderStep, UnlockMutexStep
      DEF Proceed
    <2>4. CASE UNCHANGED vars
      BY <2>4 DEF vars, IInv, CountInv, PendingInv, QuietInv, CountingInv,
         WaitingInv, WritingInv, TokenInv, Leaving, Count, At, Announced,
         Posting
    <2> QED
      BY <2>3, <2>4 DEF Next
  <1> QED
    BY <1>1, <1>2, PTL DEF Spec

\* The variables of rwlock.c's lock keep their types.
THEOREM TypeCorrect == Spec => []TypeOK
  <1>1. IInv => TypeOK
    BY DEF IInv
  <1> QED
    BY <1>1, Invariance, PTL

\* No wake-up of rwlock.c is lost or left over between two writers.
THEOREM Quiescence == Spec => []QuietInv
  <1>1. IInv => QuietInv
    BY DEF IInv
  <1> QED
    BY <1>1, Invariance, PTL

\* A writer is alone: the exclusion that follows from the invariant.
LEMMA IInvExclusion == IInv => WriterExclusion
  <1> SUFFICES ASSUME IInv, NEW t \in WriteHolders
               PROVE  ReadHolders = {} /\ WriteHolders = {t}
    BY DEF WriterExclusion
  <1>1. t \in Threads /\ t \in MutexOwners /\ pc[t] = "writing"
    BY DEF WriteHolders, MutexOwners, Announced, At
  <1>2. At("writing") = {t} /\ At("dg_post") = {}
    BY <1>1, Owners DEF IInv
  <1>3. Leaving = 0
    BY <1>2 DEF IInv, WritingInv
  <1>4. /\ Count("reading") \in Nat /\ Count("rd_depart") \in Nat
        /\ reader_wait \in Nat
    BY InCounts DEF IInv, TypeOK
  <1>5. Count("reading") = 0
    BY <1>3, <1>4 DEF Leaving
  <1> QED
    BY <1>2, <1>5, InCounts DEF ReadHolders, WriteHolders

\* While a thread holds rwlock.c's lock for writing nobody else holds it, for
\* any number of threads below MAX_READERS.
THEOREM Exclusion == Spec => []WriterExclusion
  BY Invariance, IInvExclusion, PTL

-----------------------------------------------------------------------------
\* A step that makes a thread a holder of rwlock.c's lock is, by exclusion in
\* the state it leads to, an acquisition the abstract lock allows; every other
\* step gives the lock back, turns a writer into a reader, or changes no holder.
LEMMA StepSimulation ==
  ASSUME IInv, IInv', [Next]_vars
  PROVE  [Abstract!Next]_(Abstract!vars)
  <1> USE DEF ReadHolders, WriteHolders, At, Goto
  <1>0. TypeOK /\ WriterExclusion /\ WriterExclusion'
    <2>1. WriterExclusion
      BY IInvExclusion
    <2>2. WriterExclusion'
      BY IInvExclusion, PTL
    <2> QED
      BY <2>1, <2>2 DEF IInv
  <1>1. ASSUME NEW t \in Threads, LockRead(t) \/ ReaderWake(t)
        PROVE  Abstract!AcquireRead(t) \/ UNCHANGED Abstract!vars
    BY <1>0, <1>1 DEF LockRead, ReaderWake, TypeOK, WriterExclusion,
         Abstract!AcquireRead, Abstract!vars
  <1>2. ASSUME NEW t \in Threads, UnlockRead(t)
        PROVE  Abstract!ReleaseRead(t)
    BY <1>0, <1>2 DEF UnlockRead, TypeOK, Abstract!ReleaseRead
  <1>3. ASSUME NEW t \in Threads,
               ReaderDepart(t) \/ ReaderPost(t) \/ LockWrite(t)
                 \/ PostReader(t) \/ UnlockMutex(t)
        PROVE  UNCHANGED Abstract!vars
    BY <1>0, <1>3 DEF ReaderDepart, ReaderPost, LockWrite, PostReader,
         UnlockMutex, TypeOK, Abstract!vars
  <1>4. ASSUME NEW t \in Threads,
               WriterAnnounce(t) \/ WriterCount(t) \/ WriterWake(t)
        PROVE  Abstract!AcquireWrite(t) \/ UNCHANGED Abstract!vars
    <2>1. CASE pc' = [pc EXCEPT ![t] = "writing"]
      <3>1. pc[t] \in {"wr_sub", "wr_add", "wr_wait"}
        BY <1>4 DEF WriterAnnounce, WriterCount, WriterWake
      <3>2. t \in WriteHolders'
        BY <1>0, <2>1 DEF TypeOK
      <3>3. ReadHolders' = {} /\ WriteHolders' = {t}
        BY <1>0, <3>2 DEF WriterExclusion
      <3>4. ReadHolders = {} /\ WriteHolders = {}
        BY <1>0, <2>1, <3>1, <3>3 DEF TypeOK
      <3> QED
        BY <3>3, <3>4 DEF Abstract!AcquireWrite
    <2>2. CASE pc' # [pc EXCEPT ![t] = "writing"]
      <3>1. /\ pc[t] \in {"wr_sub", "wr_add"}
            /\ \/ pc' = [pc EXCEPT ![t] = "wr_add"]
               \/ pc' = [pc EXCEPT ![t] = "wr_wait"]
        BY <1>4, <2>2 DEF WriterAnnounce, WriterCount, WriterWake
      <3> QED
        BY <1>0, <3>1 DEF TypeOK, Abstract!vars
    <2> QED
      BY <2>1, <2>2
  <1>5. ASSUME NEW t \in Threads, UnlockWrite(t)
        PROVE  Abstract!ReleaseWrite(t)
    BY <1>0, <1>5 DEF UnlockWrite, UnlockCommon, TypeOK, Abstract!ReleaseWrite
  <1>6. ASSUME NEW t \in Threads, Downgrade(t)
        PROVE  Abstract!Downgrade(t)
    BY <1>0, <1>6 DEF Downgrade, UnlockCommon, TypeOK, Abstract!Downgrade
  <1>7. CASE UNCHANGED vars
    BY <1>7 DEF vars, Abstract!vars
  <1> QED
    BY <1>1, <1>2, <1>3, <1>4, <1>5, <1>6, <1>7
    DEF Next, Proceed, Abstract!Next

\* rwlock.c implements the abstract reader-writer lock.
THEOREM Refinement == Spec => Refines
  <1>1. Init => Abstract!Init
    BY DEF Init, Abstract!Init, ReadHolders, WriteHolders, At
  <1>2. IInv /\ IInv' /\ [Next]_vars => [Abstract!Next]_(Abstract!vars)
    BY StepSimulation
  <1> QED
    BY <1>1, <1>2, Invariance, PTL DEF Spec, Refines, Abstract!Spec

-----------------------------------------------------------------------------
(* EventFD.                                                                 *)

EventIInv == EventTypeOK /\ ReadableIsSignalled

\* What a read leaves is a counter value below the one it found.
LEMMA LeftType ==
  ASSUME EventTypeOK, counter_ > 0
  PROVE  Left \in 0 .. UINT64_MAX - 1
BY MaxAssumption DEF EventTypeOK, Left

LEMMA EventInitIInv == EventInit => EventIInv
<1> SUFFICES ASSUME EventInit PROVE EventIInv
  OBVIOUS
<1>1. (counter_ > 0) \in BOOLEAN
  BY MaxAssumption DEF EventInit
<1>2. is_triggered_ \in BOOLEAN /\ kq \in BOOLEAN
  BY <1>1, Zenon DEF EventInit
<1>3. read_pc \in [Clients -> ReadLabels]
  BY DEF EventInit, ReadLabels
<1>4. ReadableIsSignalled
  BY DEF EventInit, ReadableIsSignalled
<1> QED
  BY <1>2, <1>3, <1>4 DEF EventInit, EventIInv, EventTypeOK

\* Every step keeps the types and the agreement of flag, kqueue and counter.
LEMMA EventNextIInv == EventIInv /\ [EventNext]_eventVars => EventIInv'
<1> SUFFICES ASSUME EventIInv, [EventNext]_eventVars PROVE EventIInv'
  OBVIOUS
<1> USE DEF EventIInv, EventTypeOK, ReadableIsSignalled
<1>1. ASSUME NEW v \in Values, Write(v) PROVE EventIInv'
  <2>1. v \in Nat /\ counter_ + v \in 0 .. UINT64_MAX - 1
    BY <1>1, MaxAssumption, ValuesAssumption DEF Write, Fits
  <2> QED
    BY <1>1, <2>1 DEF Write
<1>2. ASSUME NEW t \in Clients, ReadCall(t) PROVE EventIInv'
  BY <1>2 DEF ReadCall, ReadLabels
<1>3. ASSUME NEW t \in Clients, ReadEmpty(t) PROVE EventIInv'
  BY <1>3 DEF ReadEmpty, ReadLabels
<1>4. ASSUME NEW t \in Clients, ReadValue(t) PROVE EventIInv'
  <2>1. Left \in 0 .. UINT64_MAX - 1
    BY <1>4, LeftType DEF ReadValue
  <2>2. EventTypeOK'
    BY <1>4, <2>1 DEF ReadValue, ReadLabels
  <2>3. ReadableIsSignalled'
    <3>1. CASE Left = 0 /\ is_triggered_
      <4>1. counter_' = 0 /\ ~(counter_' > 0)
        BY <1>4, <3>1 DEF ReadValue
      <4>2. kq' = FALSE /\ is_triggered_' = FALSE
        BY <1>4, <3>1, Zenon DEF ReadValue
      <4> QED
        BY <4>1, <4>2
    <3>2. CASE ~(Left = 0 /\ is_triggered_)
      BY <1>4, <2>1, <3>2 DEF ReadValue
    <3> QED
      BY <3>1, <3>2
  <2> QED
    BY <2>2, <2>3
<1>5. ASSUME NEW t \in Clients, Wake(t) PROVE EventIInv'
  BY <1>5 DEF Wake, ReadLabels
<1>6. ASSUME NEW t \in Clients, Interrupted(t) PROVE EventIInv'
  BY <1>6 DEF Interrupted, ReadLabels
<1>7. ASSUME NEW b \in BOOLEAN, SetNonblock(b) PROVE EventIInv'
  BY <1>7 DEF SetNonblock
<1>8. CASE UNCHANGED eventVars
  BY <1>8 DEF eventVars
<1> QED
  BY <1>1, <1>2, <1>3, <1>4, <1>5, <1>6, <1>7, <1>8 DEF EventNext, Reader

LEMMA EventInductive == EventSpec => []EventIInv
BY EventInitIInv, EventNextIInv, PTL DEF EventSpec

\* The counter never leaves 0 .. UINT64_MAX - 1 and the rest has its types.
THEOREM EventTypes == EventSpec => []EventTypeOK
<1>1. EventIInv => EventTypeOK
  BY DEF EventIInv
<1> QED
  BY <1>1, EventInductive, PTL

\* The flag of kqueue_event.c says what the kqueue has, and a counter that is
\* not 0 is always signalled: no reader that polls is left asleep on it.
THEOREM Agreement == EventSpec => []ReadableIsSignalled
<1>1. EventIInv => ReadableIsSignalled
  BY DEF EventIInv
<1> QED
  BY <1>1, EventInductive, PTL

-----------------------------------------------------------------------------
LEMMA InitCounter == EventInit => Counter!Init
BY DEF EventInit, Counter!Init

\* A write and a read that takes something are the steps of the counter; all
\* the rest is invisible to it.
LEMMA NextCounter == EventIInv /\ [EventNext]_eventVars => [Counter!Next]_(Counter!vars)
<1> SUFFICES ASSUME EventIInv, [EventNext]_eventVars PROVE [Counter!Next]_(Counter!vars)
  OBVIOUS
<1>1. ASSUME NEW v \in Values, Write(v) PROVE Counter!Next
  BY <1>1 DEF Write, Fits, Counter!Next, Counter!Write
<1>2. ASSUME NEW t \in Clients, ReadValue(t) PROVE Counter!Next
  BY <1>2 DEF ReadValue, Left, Counter!Next, Counter!Read
<1>3. ASSUME NEW t \in Clients,
             ReadCall(t) \/ ReadEmpty(t) \/ Wake(t) \/ Interrupted(t)
      PROVE  UNCHANGED Counter!vars
  BY <1>3 DEF ReadCall, ReadEmpty, Wake, Interrupted, Counter!vars
<1>4. ASSUME NEW b \in BOOLEAN, SetNonblock(b) PROVE UNCHANGED Counter!vars
  BY <1>4 DEF SetNonblock, Counter!vars
<1>5. CASE UNCHANGED eventVars
  BY <1>5 DEF eventVars, Counter!vars
<1> QED
  BY <1>1, <1>2, <1>3, <1>4, <1>5 DEF EventNext, Reader

\* However threads and wake-ups interleave, the descriptor is the counter that
\* sys/eventfd.h promises.
THEOREM CounterRefinement == EventSpec => CounterSpec
BY InitCounter, NextCounter, EventInductive, PTL DEF EventSpec, CounterSpec, Counter!Spec

-----------------------------------------------------------------------------
\* A step that empties the counter is a read that clears the event.
LEMMA EmptyingStep ==
  ASSUME EventIInv, [EventNext]_eventVars, counter_ > 0, counter_' = 0
  PROVE  ~kq'
<1>1. ASSUME NEW v \in Values, Write(v) PROVE FALSE
  <2>1. v \in Nat /\ counter_ \in Nat
    BY MaxAssumption, ValuesAssumption DEF EventIInv, EventTypeOK
  <2> QED
    BY <1>1, <2>1 DEF Write
<1>2. ASSUME NEW t \in Clients, ReadValue(t) PROVE kq' = FALSE
  <2>1. Left = 0
    BY <1>2 DEF ReadValue
  <2>2. is_triggered_
    BY DEF EventIInv, ReadableIsSignalled
  <2> QED
    BY <1>2, <2>1, <2>2, Zenon DEF ReadValue
<1>3. ASSUME NEW t \in Clients,
             ReadCall(t) \/ ReadEmpty(t) \/ Wake(t) \/ Interrupted(t)
      PROVE  FALSE
  BY <1>3 DEF ReadCall, ReadEmpty, Wake, Interrupted
<1>4. ASSUME NEW b \in BOOLEAN, SetNonblock(b) PROVE FALSE
  BY <1>4 DEF SetNonblock
<1>5. CASE UNCHANGED eventVars
  BY <1>5 DEF eventVars
<1> QED
  BY <1>1, <1>2, <1>3, <1>4, <1>5 DEF EventNext, Reader

\* Whatever is written and by whom, an emptied counter is no longer readable.
THEOREM EmptiedIsClear == EventSpec => EmptyingClears
<1>1. EventIInv /\ [EventNext]_eventVars => [counter_ > 0 /\ counter_' = 0 => ~kq']_eventVars
  BY EmptyingStep
<1> QED
  BY <1>1, EventInductive, PTL DEF EventSpec, EmptyingClears

-----------------------------------------------------------------------------
LEMMA NonzeroStep ==
  ASSUME 0 \notin Values, EventIInv, SignalledIsReadable, [EventNext]_eventVars
  PROVE  SignalledIsReadable'
<1> USE DEF SignalledIsReadable
<1>1. ASSUME NEW v \in Values, Write(v) PROVE SignalledIsReadable'
  <2>1. v \in Nat /\ v # 0 /\ counter_ \in Nat
    BY MaxAssumption, ValuesAssumption DEF EventIInv, EventTypeOK
  <2> QED
    BY <1>1, <2>1 DEF Write
<1>2. ASSUME NEW t \in Clients, ReadValue(t) PROVE SignalledIsReadable'
  <2>1. Left \in 0 .. UINT64_MAX - 1
    BY <1>2, LeftType DEF EventIInv, ReadValue
  <2>2. is_triggered_
    BY <1>2 DEF EventIInv, ReadableIsSignalled, ReadValue
  <2>3. CASE Left = 0
    <3>1. kq' = FALSE
      BY <1>2, <2>2, <2>3, Zenon DEF ReadValue
    <3> QED
      BY <3>1
  <2>4. CASE Left # 0
    BY <1>2, <2>1, <2>4 DEF ReadValue
  <2> QED
    BY <2>3, <2>4
<1>3. ASSUME NEW t \in Clients,
             ReadCall(t) \/ ReadEmpty(t) \/ Wake(t) \/ Interrupted(t)
      PROVE  SignalledIsReadable'
  BY <1>3 DEF ReadCall, ReadEmpty, Wake, Interrupted
<1>4. ASSUME NEW b \in BOOLEAN, SetNonblock(b) PROVE SignalledIsReadable'
  BY <1>4 DEF SetNonblock
<1>5. CASE UNCHANGED eventVars
  BY <1>5 DEF eventVars
<1> QED
  BY <1>1, <1>2, <1>3, <1>4, <1>5 DEF EventNext, Reader

\* If no client ever writes 0, what poll calls readable can be read: the read
\* that empties the counter takes the event out of the kqueue.
THEOREM NoSpuriousReadiness ==
  ASSUME 0 \notin Values
  PROVE  EventSpec => []SignalledIsReadable
<1>1. EventInit => SignalledIsReadable
  BY DEF EventInit, SignalledIsReadable
<1>2. EventIInv /\ SignalledIsReadable /\ [EventNext]_eventVars => SignalledIsReadable'
  BY NonzeroStep
<1> QED
  BY <1>1, <1>2, EventInductive, PTL DEF EventSpec

=============================================================================
