---------------------------- MODULE MCSdlBackend ----------------------------
(***************************************************************************)
(* SdlBackend for TLC: a worker presents to CRTC 1, the main thread to the *)
(* second display.                                                         *)
(***************************************************************************)
EXTENDS SdlBackend, TLC

CONSTANTS w1, own, other

MCOwner == 1 :> w1 @@ 2 :> Main

\* The main thread waits on an epoll descriptor of its own, or on the workers'.
Separate == [t \in Threads |-> IF t = Main THEN own ELSE other]
Shared == [t \in Threads |-> other]
=============================================================================
