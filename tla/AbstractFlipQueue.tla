------------------------- MODULE AbstractFlipQueue -------------------------
(***************************************************************************)
(* What the ring of page-flip events of drm_linux.c promises: a first-in   *)
(* first-out queue of the CRTCs whose flip completed that holds Capacity   *)
(* of them and, when one more arrives, gives up the oldest.                *)
(***************************************************************************)
EXTENDS Naturals, Sequences

CONSTANTS Crtcs, Capacity

VARIABLE queue

Init == queue = << >>

Push(c) ==
  queue' = Append(IF Len(queue) = Capacity THEN Tail(queue) ELSE queue, c)

Pop ==
  /\ queue # << >>
  /\ queue' = Tail(queue)

Next == Pop \/ \E c \in Crtcs : Push(c)

Spec == Init /\ [][Next]_queue

=============================================================================
