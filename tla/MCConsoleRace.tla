--------------------------- MODULE MCConsoleRace ----------------------------
(* A screen of 3 rows of 5; a cursor register holds 0 .. 3.                  *)
EXTENDS ConsoleRace

AllKeys == {"char", "enter", "backspace"}
=============================================================================
