------------------------------- MODULE RWLock -------------------------------
(***************************************************************************)
(* The reader-writer lock of shims/epoll/src/rwlock.c, which guards the    *)
(* table of file descriptions.  One step is one atomic operation on a      *)
(* shared word, one semaphore operation or one mutex operation, so every   *)
(* interleaving the C11 sequentially consistent atomics allow is here.     *)
(*                                                                         *)
(* num_pending counts the readers that hold the lock or wait for it; a     *)
(* writer announces itself by subtracting MAX_READERS, which makes the     *)
(* counter negative.  readers_departing counts the readers the announced   *)
(* writer still has to wait for.                                           *)
(***************************************************************************)
EXTENDS Integers, FiniteSets

CONSTANTS Threads,      \* the threads of the process that use the lock
          MAX_READERS,  \* 1 << 30 in the code
          NoThread      \* "nobody", the owner of a free mutex

ASSUME ThreadsAssumption    == IsFiniteSet(Threads)
ASSUME MaxReadersAssumption == /\ MAX_READERS \in Nat
                               /\ Cardinality(Threads) < MAX_READERS
ASSUME NoThreadAssumption   == NoThread \notin Threads

VARIABLES
  pc,                 \* where each thread is
  num_pending,        \* rwlock->num_pending
  readers_departing,  \* rwlock->readers_departing
  writer_wait,        \* tokens of the semaphore rwlock->writer_wait
  reader_wait,        \* tokens of the semaphore rwlock->reader_wait
  mutex,              \* the owner of rwlock->mutex
  r                   \* the mutex owner's local r: readers found by
                      \* lock_write, posts left to do in unlock_common

vars == <<pc, num_pending, readers_departing, writer_wait, reader_wait,
          mutex, r>>

(***************************************************************************)
(* The places a thread can be in.                                          *)
(***************************************************************************)
Labels == {"idle",        \* outside the lock
           "rd_wait",     \* lock_read, before sem_wait(reader_wait)
           "reading",     \* holds the lock for reading
           "rd_depart",   \* unlock_read, before readers_departing - 1
           "rd_post",     \* unlock_read, before sem_post(writer_wait)
           "wr_sub",      \* lock_write, before num_pending - MAX_READERS
           "wr_add",      \* lock_write, before readers_departing + r
           "wr_wait",     \* lock_write, before sem_wait(writer_wait)
           "writing",     \* holds the lock for writing
           "wr_post",     \* unlock_write, in the loop of sem_posts
           "dg_post"}     \* downgrade, in the same loop, already a reader

Init ==
  /\ pc = [t \in Threads |-> "idle"]
  /\ num_pending = 0
  /\ readers_departing = 0
  /\ writer_wait = 0
  /\ reader_wait = 0
  /\ mutex = NoThread
  /\ r = 0

Goto(t, from, to) ==
  /\ pc[t] = from
  /\ pc' = [pc EXCEPT ![t] = to]

(***************************************************************************)
(* rwlock_lock_read: a negative counter means a writer has announced       *)
(* itself, and the reader waits for the token that writer will post.       *)
(***************************************************************************)
LockRead(t) ==
  /\ Goto(t, "idle", IF num_pending + 1 < 0 THEN "rd_wait" ELSE "reading")
  /\ num_pending' = num_pending + 1
  /\ UNCHANGED <<readers_departing, writer_wait, reader_wait, mutex, r>>

ReaderWake(t) ==
  /\ reader_wait > 0
  /\ Goto(t, "rd_wait", "reading")
  /\ reader_wait' = reader_wait - 1
  /\ UNCHANGED <<num_pending, readers_departing, writer_wait, mutex, r>>

(***************************************************************************)
(* rwlock_unlock_read: the last reader the announced writer waits for      *)
(* wakes it up.                                                            *)
(***************************************************************************)
UnlockRead(t) ==
  /\ Goto(t, "reading", IF num_pending - 1 < 0 THEN "rd_depart" ELSE "idle")
  /\ num_pending' = num_pending - 1
  /\ UNCHANGED <<readers_departing, writer_wait, reader_wait, mutex, r>>

ReaderDepart(t) ==
  /\ Goto(t, "rd_depart",
          IF readers_departing - 1 = 0 THEN "rd_post" ELSE "idle")
  /\ readers_departing' = readers_departing - 1
  /\ UNCHANGED <<num_pending, writer_wait, reader_wait, mutex, r>>

ReaderPost(t) ==
  /\ Goto(t, "rd_post", "idle")
  /\ writer_wait' = writer_wait + 1
  /\ UNCHANGED <<num_pending, readers_departing, reader_wait, mutex, r>>

(***************************************************************************)
(* rwlock_lock_write.                                                      *)
(***************************************************************************)
\* A slip: the writer does not take the mutex.
LockWriteNoMutex(t) ==
  /\ Goto(t, "idle", "wr_sub")
  /\ mutex' = t
  /\ UNCHANGED <<num_pending, readers_departing, writer_wait, reader_wait, r>>

LockWrite(t) ==
  /\ mutex = NoThread
  /\ Goto(t, "idle", "wr_sub")
  /\ mutex' = t
  /\ UNCHANGED <<num_pending, readers_departing, writer_wait, reader_wait, r>>

\* A slip: the writer announces itself only once no reader is pending.
WriterAnnounceLate(t) ==
  /\ num_pending = 0
  /\ Goto(t, "wr_sub", "writing")
  /\ num_pending' = num_pending - MAX_READERS
  /\ r' = num_pending
  /\ UNCHANGED <<readers_departing, writer_wait, reader_wait, mutex>>

WriterAnnounce(t) ==
  /\ Goto(t, "wr_sub", IF num_pending = 0 THEN "writing" ELSE "wr_add")
  /\ num_pending' = num_pending - MAX_READERS
  /\ r' = num_pending
  /\ UNCHANGED <<readers_departing, writer_wait, reader_wait, mutex>>

WriterCount(t) ==
  /\ Goto(t, "wr_add",
          IF readers_departing + r = 0 THEN "writing" ELSE "wr_wait")
  /\ readers_departing' = readers_departing + r
  /\ UNCHANGED <<num_pending, writer_wait, reader_wait, mutex, r>>

WriterWake(t) ==
  /\ writer_wait > 0
  /\ Goto(t, "wr_wait", "writing")
  /\ writer_wait' = writer_wait - 1
  /\ UNCHANGED <<num_pending, readers_departing, reader_wait, mutex, r>>

(***************************************************************************)
(* rwlock_unlock_common: the counter gets MAX_READERS back, plus one for a *)
(* writer that goes on as a reader (keep_reading = 1); every other reader  *)
(* that is pending is waiting and gets one token; then the mutex is        *)
(* released.                                                               *)
(***************************************************************************)
UnlockCommon(t, keep_reading, loop) ==
  /\ Goto(t, "writing", loop)
  /\ num_pending' = num_pending + MAX_READERS + keep_reading
  /\ r' = num_pending + MAX_READERS
  /\ UNCHANGED <<readers_departing, writer_wait, reader_wait, mutex>>

UnlockWrite(t) == UnlockCommon(t, 0, "wr_post")

\* A slip: the downgraded writer is not counted as a reader.
DowngradeUncounted(t) == UnlockCommon(t, 0, "dg_post")

Downgrade(t) == UnlockCommon(t, 1, "dg_post")

PostReader(t) ==
  /\ pc[t] \in {"wr_post", "dg_post"}
  /\ r > 0
  /\ reader_wait' = reader_wait + 1
  /\ r' = r - 1
  /\ UNCHANGED <<pc, num_pending, readers_departing, writer_wait, mutex>>

UnlockMutex(t) ==
  /\ r <= 0
  /\ \/ Goto(t, "wr_post", "idle")
     \/ Goto(t, "dg_post", "reading")
  /\ mutex' = NoThread
  /\ UNCHANGED <<num_pending, readers_departing, writer_wait, reader_wait, r>>

(***************************************************************************)
(* A thread's steps towards leaving an operation it has begun, and those   *)
(* by which it gives back a lock it holds.  Only the beginning of a        *)
(* lock operation and the choice to downgrade are left to the caller.      *)
(***************************************************************************)
Proceed(t) ==
  \/ ReaderWake(t)
  \/ UnlockRead(t)
  \/ ReaderDepart(t)
  \/ ReaderPost(t)
  \/ WriterAnnounce(t)
  \/ WriterCount(t)
  \/ WriterWake(t)
  \/ UnlockWrite(t)
  \/ Downgrade(t)
  \/ PostReader(t)
  \/ UnlockMutex(t)

Next ==
  \E t \in Threads : LockRead(t) \/ LockWrite(t) \/ Proceed(t)

Spec == Init /\ [][Next]_vars

(***************************************************************************)
(* Threads are scheduled, and every section under the lock ends            *)
(* (epoll_shim_ctx.c holds it over bounded work), so each thread keeps     *)
(* proceeding while it can.  Nothing obliges a thread to start.            *)
(***************************************************************************)
Fairness == \A t \in Threads : WF_vars(Proceed(t))

FairSpec == Spec /\ Fairness

-----------------------------------------------------------------------------
(***************************************************************************)
(* Properties.                                                             *)
(***************************************************************************)
At(label) == {t \in Threads : pc[t] = label}

Count(label) == Cardinality(At(label))

ReadHolders  == At("reading") \cup At("dg_post")
WriteHolders == At("writing")

\* The values of the variables of rwlock.c's RWLock: counters, tokens, owner.
TypeOK ==
  /\ pc \in [Threads -> Labels]
  /\ num_pending \in Int
  /\ readers_departing \in Int
  /\ writer_wait \in Nat
  /\ reader_wait \in Nat
  /\ mutex \in Threads \cup {NoThread}
  /\ r \in Nat

\* A writer of rwlock_lock_write is alone: no thread reads and no other
\* thread writes while it holds the lock.
WriterExclusion ==
  \A t \in WriteHolders : ReadHolders = {} /\ WriteHolders = {t}

Announced == At("wr_add") \cup At("wr_wait") \cup At("writing")

Posting == At("wr_post") \cup At("dg_post")

MutexOwners == At("wr_sub") \cup Announced \cup Posting

\* Readers the announced writer has to see leave: those that read, those that
\* hold a token for reading, those on their way out.
Leaving == Count("reading") + reader_wait + Count("rd_depart")

\* The mutex owner is the one thread inside a write operation.
MutexInv == MutexOwners = (IF mutex = NoThread THEN {} ELSE {mutex})

\* num_pending is the readers that hold or await the lock, less MAX_READERS
\* while a writer is announced: the sign test of lock_read is a test for a
\* writer and the counter never drifts.
PendingInv ==
  num_pending = Count("rd_wait") + Count("reading") + Count("dg_post")
                  - (IF Announced = {} THEN 0 ELSE MAX_READERS)

\* Nobody is announced: no reader is in the writer's half of unlock_read and
\* each waiting reader has its token, or the unlocking writer is about to post
\* it. No wake-up is lost and none is left over for a later round.
QuietInv ==
  Announced = {} =>
    /\ readers_departing = 0
    /\ writer_wait = 0
    /\ At("rd_depart") = {}
    /\ At("rd_post") = {}
    /\ Count("rd_wait") = reader_wait + (IF Posting = {} THEN 0 ELSE r)

\* A writer between its two atomic operations: readers that left meanwhile
\* have driven readers_departing below zero by exactly what it lacks of r.
CountingInv ==
  At("wr_add") # {} =>
    /\ readers_departing <= 0
    /\ Leaving = r + readers_departing
    /\ r > 0
    /\ At("rd_post") = {}
    /\ writer_wait = 0

\* A writer that waits: readers_departing is what has still to leave, and
\* it is zero exactly when the wake-up is posted or about to be.
WaitingInv ==
  At("wr_wait") # {} =>
    /\ Leaving = readers_departing
    /\ Count("rd_post") + writer_wait = (IF readers_departing = 0 THEN 1 ELSE 0)

\* A writer that writes: no reader, no token, no late post of a departed
\* reader that would let the next writer in too early.
WritingInv ==
  At("writing") # {} =>
    /\ Leaving = 0
    /\ readers_departing = 0
    /\ writer_wait = 0
    /\ At("rd_post") = {}

\* A reader holding a token still counts as waiting.
TokenInv == reader_wait <= Count("rd_wait")

\* The inductive invariant behind WriterExclusion.
IInv ==
  /\ TypeOK
  /\ MutexInv
  /\ PendingInv
  /\ QuietInv
  /\ CountingInv
  /\ WaitingInv
  /\ WritingInv
  /\ TokenInv

\* The lock implements the abstract reader-writer lock: exclusion, and a
\* downgrade no other writer can interrupt (remove_desc relies on it).
Abstract == INSTANCE AbstractRWLock
              WITH readers <- ReadHolders, writers <- WriteHolders

Refines == Abstract!Spec

\* A writer that has the mutex gets the lock: readers that keep arriving
\* cannot overtake it, and the last reader to depart does not forget it.
WriterGetsLock ==
  \A t \in Threads : pc[t] = "wr_sub" ~> pc[t] = "writing"

=============================================================================
