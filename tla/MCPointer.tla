----------------------------- MODULE MCPointer ------------------------------
(* A screen of 4 by 3 under a cursor of 2 by 2 with a transparent pixel.  An *)
(* image wider and higher than the screen, each pixel of a colour of its     *)
(* own, with three bytes a pixel, so that its rows are padded; a cursor of   *)
(* four bytes a pixel; the default cursor where there is none or where it    *)
(* has another size, over the background alone.                              *)
EXTENDS Pointer

MCDefault == [o \in Places(2, 2) |-> CASE o = <<0, 0>> -> 1 [] o = <<0, 1>> -> 2
                                      [] o = <<1, 1>> -> 1 [] OTHER -> 0]

Image(w, h, depth, pixel(_, _)) ==
    [width |-> w, height |-> h, bits |-> depth,
     colour |-> [p \in Places(w, h) |-> pixel(p[1], p[2])]]

Scenery ==
    LET pixel(x, y) == 65536 * (y + 1) + 256 * (x + 1) + 7
    IN Image(5, 4, 24, pixel)

Arrow ==
    LET pixel(x, y) == IF x = 1 /\ y = 0 THEN Magenta ELSE 255 + x + y
    IN Image(2, 2, 32, pixel)

Wide ==
    LET pixel(x, y) == 255
    IN Image(3, 2, 24, pixel)

MCRamdisks == {[image |-> Scenery, cursor |-> Arrow], [image |-> Scenery, cursor |-> None],
               [image |-> None, cursor |-> Wide]}

M(dx, dy) == [dx |-> dx, dy |-> dy, buttons |-> 0]

MCMovements == {M(1, -1), M(-256, 2)}
=============================================================================
