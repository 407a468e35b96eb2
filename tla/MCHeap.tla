------------------------------- MODULE MCHeap -------------------------------
(* The heap on a small arena: five headers' worth of space, so that blocks   *)
(* are split, exhausted, freed in every order and joined on both sides.      *)
EXTENDS Heap

MCRequests == 0 .. 4
=============================================================================
