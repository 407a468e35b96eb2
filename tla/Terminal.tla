------------------------------ MODULE Terminal ------------------------------
(***************************************************************************)
(* The screen as the user sees it: the main loop prints, writes the prompt *)
(* and then the keyboard handler echoes a line (src/src/keyboard.c:26-43,  *)
(* src/src/main.c:771).  Here output and keys take turns; ConsoleRace lets *)
(* them overlap.                                                           *)
(***************************************************************************)
EXTENDS Console, Sequences, SequencesExt

CONSTANTS
    Chars,          (* printing characters, the blank included             *)
    Gt,             (* the '>' of the prompt                               *)
    MaxPrinted      (* bound: characters and ends of rows on the paper     *)

\* The cases of the switch of vga_putc are other characters than those shown.
ASSUME TerminalAssumption ==
    NewLine # BackSpace /\ {NewLine, BackSpace} \intersect (Chars \union {Gt}) = {}

VARIABLES
    screen,         (* the console                                         *)
    line,           (* what the line being edited should look like         *)
    paper,          (* what was printed since the last clear, see below    *)
    mode            (* "output" or "edit"                                  *)

terminalVars == <<screen, line, paper, mode>>

prompt == <<NewLine, Gt, Blank>>

\* A roll of paper W characters wide, row by row, on which all that is printed
\* stays: a full row is followed by a new one.
Rewrite(rows, last) == [rows EXCEPT ![Len(rows)] = last]

PrintOn(rows, c) ==
    LET longer == Append(Last(rows), c)
    IN  IF c = NewLine THEN Append(rows, <<>>)
        ELSE IF Len(longer) < W THEN Rewrite(rows, longer)
        ELSE Append(Rewrite(rows, longer), <<>>)

EraseOn(rows) == Rewrite(rows, Front(Last(rows)))

\* Rows of the paper that have left the screen at the top.
Gone(rows) == IF Len(rows) > H THEN Len(rows) - H ELSE 0

\* Empty rows follow until the last one is just below the screen.
FeedOn(rows) ==
    [r \in 1 .. Gone(rows) + H + 1 |-> IF r <= Len(rows) THEN rows[r] ELSE <<>>]

TerminalInit ==
    /\ screen = Cleared
    /\ line = <<>> /\ paper = << <<>> >> /\ mode = "output"

\* One character is kept for the Enter that ends an edit.
Room(rows, n) == Len(FlattenSeq(rows)) + Len(rows) - 1 + n <= MaxPrinted

\* vga_putc from the main loop.  Erasing stays on the row of the cursor.
Output(c) ==
    /\ mode = "output" /\ Room(paper, 1)
    /\ c = BackSpace => screen.x > 0
    /\ screen' = vga_putc(screen, c)
    /\ paper' = IF c = BackSpace THEN EraseOn(paper) ELSE PrintOn(paper, c)
    /\ UNCHANGED <<line, mode>>

Clear ==
    /\ mode = "output"
    /\ screen' = vga_clear(screen)
    /\ paper' = << <<>> >>
    /\ UNCHANGED <<line, mode>>

\* A string as long as the prompt, one character after the other.
vga_puts(s) == vga_putc(vga_putc(vga_putc(screen, s[1]), s[2]), s[3])

Prompt ==
    /\ mode = "output" /\ Room(paper, Len(prompt) + 1)
    /\ screen' = vga_puts(prompt)
    /\ paper' = PrintOn(PrintOn(PrintOn(paper, NewLine), Gt), Blank)
    /\ line' = <<>> /\ mode' = "edit"

KeyChar(c) ==
    /\ mode = "edit" /\ Room(paper, 2)
    /\ screen' = vga_putc(screen, c)
    /\ line' = Append(line, c) /\ paper' = PrintOn(paper, c)
    /\ UNCHANGED mode

\* At the left edge the key erases nothing: the row gets the last column's number
\* (vga_buffer.c:31), which is below the screen, and the screen scrolls.
KeyBackspace ==
    /\ mode = "edit" /\ line # <<>>
    /\ screen' = vga_backspace(screen)
    /\ line' = Front(line)
    /\ paper' = IF Last(paper) = <<>> THEN FeedOn(paper) ELSE EraseOn(paper)
    /\ Room(paper', 1)
    /\ UNCHANGED mode

KeyEnter ==
    /\ mode = "edit"
    /\ screen' = vga_putc(screen, NewLine)
    /\ paper' = PrintOn(paper, NewLine)
    /\ mode' = "output"
    /\ UNCHANGED line

TerminalNext ==
    \/ \E c \in Chars \union {NewLine, BackSpace} : Output(c)
    \/ Clear \/ Prompt
    \/ \E c \in Chars : KeyChar(c)
    \/ KeyBackspace \/ KeyEnter

TerminalSpec == TerminalInit /\ [][TerminalNext]_terminalVars

-----------------------------------------------------------------------------
(* Properties *)

TerminalTypeOK ==
    /\ screen.x \in 0 .. W - 1 /\ screen.y \in 0 .. H - 1
    /\ screen.hw \in Window
    /\ screen.cells \in [Window -> Chars \union {Gt, Blank}]
    /\ line \in Seq(Chars)
    /\ mode \in {"output", "edit"}

CharAt(rows, r, k) ==
    IF r + 1 \in DOMAIN rows /\ k + 1 \in DOMAIN rows[r + 1]
    THEN rows[r + 1][k + 1]
    ELSE Blank

\* The place on the screen behind the last character of the paper.
End(rows) == (Len(rows) - 1 - Gone(rows)) * W + Len(Last(rows))

\* Wrapping at the right edge, scrolling, erasing and clearing together leave on
\* the screen exactly the last rows of what was printed, with the cursor behind
\* the last character (vga_buffer.c:25-112).  A key that erases at the left edge
\* counts as empty rows printed: it moves the text up and takes nothing away.
ScreenShowsPaper ==
    /\ \A r \in 0 .. H - 1, k \in 0 .. W - 1 :
          screen.cells[r * W + k] = CharAt(paper, Gone(paper) + r, k)
    /\ Pos(screen) = End(paper)

\* The adapter's cursor stands behind the text, or, as vga_backspace does not tell
\* it of the last step to the left (vga_buffer.c:38-47), one column further on
\* the same row of a line being edited: however many characters are erased, on
\* however many rows, the two do not drift apart, and output brings them together.
CursorBehindText ==
    \/ screen.hw = End(paper)
    \/ mode = "edit" /\ Len(Last(paper)) + 1 < W /\ screen.hw = End(paper) + 1
=============================================================================
