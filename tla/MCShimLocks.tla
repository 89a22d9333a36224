---------------------------- MODULE MCShimLocks ----------------------------
(***************************************************************************)
(* What the threads in the shim wait on, for TLC in one run: the lock of   *)
(* RWLock and the counter of EventFD.  They share no state: a behaviour is *)
(* one of either.                                                          *)
(***************************************************************************)
EXTENDS RWLock, EventFD

VARIABLE part   \* the one that runs

allVars == <<part, vars, eventVars>>

PartsInit ==
  /\ part \in {"lock", "eventfd"}
  /\ Init
  /\ EventInit
  /\ part = "lock" => counter_ = 0 /\ ~semaphore /\ ~nonblock

PartsNext ==
  \/ part = "lock" /\ Next /\ UNCHANGED <<part, eventVars>>
  \/ part = "eventfd" /\ EventNext /\ UNCHANGED <<part, vars>>

\* What does not run is as it was at first, where nothing has to happen.
PartsSpec == PartsInit /\ [][PartsNext]_allVars /\ Fairness /\ EventFairness
=============================================================================
