----------------------------- MODULE MCSurfaces -----------------------------
(***************************************************************************)
(* Surfaces on their way to a display, for TLC in one run: who retains     *)
(* them (DrmBuffers) and who presents them (SdlBackend).  The models share *)
(* no state: a behaviour is one of either.                                 *)
(***************************************************************************)
EXTENDS DrmBuffers, MCSdlBackend

VARIABLE part   \* the one that runs

allVars == <<part, vars, sdlVars>>

PartsInit == part \in {"buffers", "present"} /\ Init /\ SdlInit

PartsNext ==
  \/ part = "buffers" /\ Next /\ UNCHANGED <<part, sdlVars>>
  \/ part = "present" /\ SdlNext /\ UNCHANGED <<part, vars>>

\* What does not run is as it was at first, where nothing has to happen.
PartsSpec == PartsInit /\ [][PartsNext]_allVars /\ Fairness
=============================================================================
