----------------------------- MODULE MCTerminal -----------------------------
(* A screen of 4 rows of 5, so that the prompt leaves three columns: a few   *)
(* characters are enough to wrap and to scroll, and a line can be erased at  *)
(* the left edge on the last row and on the row above it.                    *)
EXTENDS Terminal

\* Nothing distinguishes the characters.
Alike == Permutations(Chars)
=============================================================================
