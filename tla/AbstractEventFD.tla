-------------------------- MODULE AbstractEventFD --------------------------
(***************************************************************************)
(* What an eventfd promises (shims/epoll/include/sys/eventfd.h): a counter *)
(* that a write adds to and a read empties, or, for a semaphore, lowers by *)
(* one, and that never goes beyond UINT64_MAX - 1.                         *)
(***************************************************************************)
EXTENDS Integers

CONSTANTS Values,      \* what is written
          UINT64_MAX

VARIABLES counter, semaphore

vars == <<counter, semaphore>>

Init ==
  /\ counter \in 0 .. UINT64_MAX - 1
  /\ semaphore \in BOOLEAN

Write ==
  /\ \E v \in Values :
       /\ counter + v <= UINT64_MAX - 1
       /\ counter' = counter + v
  /\ UNCHANGED semaphore

Read ==
  /\ counter > 0
  /\ counter' = IF semaphore THEN counter - 1 ELSE 0
  /\ UNCHANGED semaphore

Next == Write \/ Read

Spec == Init /\ [][Next]_vars

=============================================================================
