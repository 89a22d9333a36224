---------------------------- MODULE MCCompositor ----------------------------
(***************************************************************************)
(* What a compositor's loop waits for, for TLC in one run: the timers and  *)
(* signals of WlEventSources and the input of LibInput.  They share no     *)
(* state: a behaviour is one of either.                                    *)
(***************************************************************************)
EXTENDS WlEventSources, LibInput

VARIABLE part   \* the one that runs

allVars == <<part, vars, inputVars>>

PartsInit == part \in {"sources", "input"} /\ Init /\ InputInit

\* A client need not add a timer or a signal.
MayStop == part = "sources" /\ UNCHANGED allVars

PartsNext ==
  \/ part = "sources" /\ Next /\ UNCHANGED <<part, inputVars>>
  \/ part = "input" /\ InputNext /\ UNCHANGED <<part, vars>>
  \/ MayStop

\* What does not run is as it was at first, where nothing has to happen.
PartsSpec == PartsInit /\ [][PartsNext]_allVars /\ Fairness /\ InputFairness
=============================================================================
