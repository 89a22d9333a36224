---------------------------- MODULE MCEpollWait ----------------------------
(***************************************************************************)
(* An instance of EpollWait for TLC: files are registered for nothing, for *)
(* EPOLLIN, and for EPOLLIN once.                                          *)
(***************************************************************************)
EXTENDS EpollWait

MCRegistrations ==
  {[events |-> {}, is_oneshot |-> FALSE]}
    \cup [events : {Events}, is_oneshot : BOOLEAN]
=============================================================================
