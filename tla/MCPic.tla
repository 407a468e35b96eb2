------------------------------- MODULE MCPic --------------------------------
(* Timer, keyboard, mouse and the two disk channels.                         *)
EXTENDS Pic

MCLines == {0, 1, 12, 14, 15}
=============================================================================
