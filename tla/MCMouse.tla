------------------------------ MODULE MCMouse -------------------------------
(* A mouse that is dragged steadily to the right and down, by 8 each time: all *)
(* three bytes of its packets have bit 3 set.                                  *)
EXTENDS Mouse

Steady == {[dx |-> 8, dy |-> 8, buttons |-> 0]}
=============================================================================
