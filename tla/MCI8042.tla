------------------------------ MODULE MCI8042 -------------------------------
(* 97 is the usual command byte with the mouse off, 71 with everything on;   *)
(* 28 and 156 are the scancodes of Enter, pressed and released: as command   *)
(* bytes both have the keyboard's interrupt and clock off.                   *)
EXTENDS I8042

MCMovements == {[dx |-> 0, dy |-> 0, buttons |-> 0]}
=============================================================================
