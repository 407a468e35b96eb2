------------------------------ MODULE Console -------------------------------
(***************************************************************************)
(* The text screen (src/src/vga_buffer.c) as operators on a record         *)
(*   [x, y]   cursor_x and cursor_y                                        *)
(*   [cells]  the characters in video memory, colours left out             *)
(*   [hw]     the position held by the cursor registers of the adapter     *)
(* Video memory is longer than the screen, and nothing in the driver stops *)
(* a write beyond the last row, so cells covers all of it.                 *)
(***************************************************************************)
EXTENDS Integers

CONSTANTS
    W, H,           (* BUF_WIDTH, BUF_HEIGHT                               *)
    VideoWords,     (* characters in the memory window at 0xB8000          *)
    Blank, NewLine, BackSpace   (* ' ', '\n' and '\b'                      *)

\* 80 by 25 in a window of 16384: row W - 1, where vga_backspace may land, is
\* below the screen and inside the window.  A blank moves the cursor forward.
ASSUME ConsoleAssumption ==
    /\ W \in Nat /\ H \in Nat /\ VideoWords \in Nat
    /\ 1 < H /\ H < W /\ W * (W + 2) <= VideoWords
    /\ Blank \notin {NewLine, BackSpace}

Window == 0 .. VideoWords - 1

Pos(con) == con.y * W + con.x

update_cursor(con) == [con EXCEPT !.hw = Pos(con)]

vga_clear(con) ==
    update_cursor([con EXCEPT !.cells = [i \in Window |-> IF i < W * H THEN Blank ELSE @[i]],
                              !.x = 0, !.y = 0])

vga_scroll(con) ==
    [con EXCEPT !.y = H - 1,
                !.cells = [i \in Window |->
                    IF i < W * (H - 1) THEN @[i + W]
                    ELSE IF i < W * H THEN Blank ELSE @[i]]]

Left(con) ==
    IF con.x > 0 THEN [con EXCEPT !.x = @ - 1]
    ELSE IF con.y > 0 THEN [con EXCEPT !.x = W - 1, !.y = @ - 1]
    ELSE con

Write(con, c) == [con EXCEPT !.cells = [@ EXCEPT ![Pos(con)] = c]]

\* The part of vga_putc that depends on the character.
Put(con, c) ==
    IF c = NewLine THEN [con EXCEPT !.x = 0, !.y = @ + 1]
    ELSE IF c = BackSpace THEN Write(Left(con), Blank)
    ELSE [Write(con, c) EXCEPT !.x = @ + 1]

Wrap(con) == IF con.x >= W THEN [con EXCEPT !.x = 0, !.y = @ + 1] ELSE con

\* Mutant: the row below the last one is not noticed.
ScrollLate(con) == IF con.y > H THEN vga_scroll(con) ELSE con

Scroll(con) == IF con.y >= H THEN vga_scroll(con) ELSE con

vga_putc(con, c) == update_cursor(Scroll(Wrap(Put(con, c))))

\* One step to the left.  At column 0 the code assigns the last column to the
\* row (vga_buffer.c:31, 43).
StepBack(con) ==
    IF con.x > 0 THEN [con EXCEPT !.x = @ - 1]
    ELSE IF con.y > 0 THEN [con EXCEPT !.y = W - 1]
    ELSE con

\* Mutant: the cursor is not taken back over the blank.
vga_backspace_forward(con) == vga_putc(StepBack(con), Blank)

\* Mutant: the blank is stored without vga_putc, which tells the adapter.
vga_backspace_quietly(con) == Write(StepBack(con), Blank)

vga_backspace(con) == StepBack(vga_putc(StepBack(con), Blank))

Cleared == vga_clear([x |-> 0, y |-> 0, hw |-> 0, cells |-> [i \in Window |-> Blank]])
=============================================================================
