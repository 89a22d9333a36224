--------------------------- MODULE AbstractRWLock ---------------------------
(***************************************************************************)
(* What a reader-writer lock with downgrading promises to the threads of   *)
(* epoll_shim_ctx.c: any number of readers or one writer hold it, and a    *)
(* writer that downgrades becomes a reader in the same instant, so that no *)
(* other writer gets in between.                                           *)
(***************************************************************************)

CONSTANT Threads

VARIABLES readers,  \* the threads that hold the lock for reading
          writers   \* the threads that hold the lock for writing

vars == <<readers, writers>>

Init ==
  /\ readers = {}
  /\ writers = {}

AcquireRead(t) ==
  /\ writers = {}
  /\ t \notin readers
  /\ readers' = readers \cup {t}
  /\ UNCHANGED writers

ReleaseRead(t) ==
  /\ t \in readers
  /\ readers' = readers \ {t}
  /\ UNCHANGED writers

AcquireWrite(t) ==
  /\ readers = {}
  /\ writers = {}
  /\ writers' = {t}
  /\ UNCHANGED readers

ReleaseWrite(t) ==
  /\ t \in writers
  /\ writers' = writers \ {t}
  /\ UNCHANGED readers

Downgrade(t) ==
  /\ t \in writers
  /\ writers' = writers \ {t}
  /\ readers' = readers \cup {t}

Next ==
  \E t \in Threads :
    \/ AcquireRead(t)
    \/ ReleaseRead(t)
    \/ AcquireWrite(t)
    \/ ReleaseWrite(t)
    \/ Downgrade(t)

Spec == Init /\ [][Next]_vars

=============================================================================
