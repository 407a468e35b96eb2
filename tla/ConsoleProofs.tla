--------------------------- MODULE ConsoleProofs ----------------------------
(***************************************************************************)
(* Proofs about the text console, on a screen of any size.  When echoes    *)
(* interrupt vga_putc (ConsoleRace), the cursor comes back to the screen   *)
(* and no character is stored outside the adapter's memory; when calls     *)
(* take turns (Terminal), the screen shows the end of what was printed and *)
(* the adapter's cursor does not drift away from it.                       *)
(***************************************************************************)
EXTENDS ConsoleRace, Terminal, TLAPS

\* A console by its fields.
Screen(x, y, hw, cells) == [x |-> x, y |-> y, hw |-> hw, cells |-> cells]

IsScreen(c) == c = Screen(c.x, c.y, c.hw, c.cells)

\* The cursor is at most a column and some rows off the screen.
Near(c) == IsScreen(c) /\ c.x \in 0 .. W /\ c.y \in 0 .. W /\ c.hw \in Nat

OnScreen(c) == Near(c) /\ c.x < W /\ c.y < H

\* Where vga_putc has incremented a coordinate and not yet tested it.  While the
\* column is W an echoed backspace may leave the row at W - 1 (vga_buffer.c:43),
\* where it stays until the next echo or until the test of the row.
WrapAhead == {"testX", "wrapX"}
RowAhead == WrapAhead \union {"loadY", "storeY", "testY", "scroll", "lastRow"}

Columns == pc \in WrapAhead \/ con.x < W

Rows ==
    /\ pc \in RowAhead \/ con.y < H
    /\ pc \in {"testY", "scroll", "lastRow"} \/ con.y < W
    /\ pc = "loadY" /\ back = "testX" => con.y < H

\* What the locals hold where they are used.
Locals ==
    /\ pc \in {"index", "pos"} => r < H
    /\ pc = "store" => at < W * H
    /\ pc \in {"storeX", "storeY"} => r < W
    /\ pc = "storeY" /\ back = "testX" => r < H
    /\ pc = "high" => crtc.index = "high"

\* The inductive invariant.
Race == TypeOK /\ Near(con) /\ Columns /\ Rows /\ Locals

-----------------------------------------------------------------------------
(* Sizes and positions *)

\* The screen is higher than one row and wider than high.
LEMMA Sizes == W \in Nat /\ H \in Nat /\ 1 < H /\ H < W
  BY ConsoleAssumption

\* A position on the screen is one of its W * H cells, and one with the column or
\* the row too large by as much as they can be lies in the adapter's memory.
LEMMA PositionBounds ==
  ASSUME NEW x \in 0 .. W, NEW y \in 0 .. W
  PROVE  /\ y * W + x \in Nat /\ y * W + x \in Window
         /\ x < W /\ y < H => y * W + x < W * H
  <1>1. y * W \in Nat /\ y * W <= W * W
    BY Sizes
  <1>2. W * (W + 2) = W * W + 2 * W /\ W * W \in Nat
    BY Sizes
  <1>3. ASSUME y < H PROVE y * W + W <= W * H
    <2>1. (y + 1) * W <= H * W
      BY <1>3, Sizes
    <2>2. (y + 1) * W = y * W + W /\ H * W = W * H
      BY Sizes
    <2> QED
      BY <2>1, <2>2
  <1> HIDE DEF Window
  <1>4. y * W + x \in Nat /\ y * W + x < W * (W + 2)
    BY <1>1, <1>2, Sizes
  <1> QED
    BY <1>1, <1>3, <1>4, Sizes, ConsoleAssumption DEF Window

\* The screen is inside the window.
LEMMA ScreenInWindow == W * H \in Nat /\ W * H <= VideoWords
  <1>1. W * H <= W * (W + 2) /\ W * H \in Nat
    BY Sizes
  <1> QED
    BY <1>1, ConsoleAssumption

-----------------------------------------------------------------------------
(* The console functions on a console given by its fields *)

\* Fields are read back, and only one screen has them.
LEMMA ScreenFields ==
  ASSUME NEW x, NEW y, NEW hw, NEW cells
  PROVE  LET c == Screen(x, y, hw, cells)
         IN  /\ c.x = x /\ c.y = y /\ c.hw = hw /\ c.cells = cells
             /\ IsScreen(c)
  BY DEF Screen, IsScreen

\* The assignments of the driver.  They have names so that each is reasoned about
\* once, whatever is assigned.
SetX(c, a) == [c EXCEPT !.x = a]
SetY(c, a) == [c EXCEPT !.y = a]
SetHw(c, a) == [c EXCEPT !.hw = a]
SetCells(c, a) == [c EXCEPT !.cells = a]
SetXY(c, a, b) == [c EXCEPT !.x = a, !.y = b]
SetYCells(c, a, b) == [c EXCEPT !.y = a, !.cells = b]

\* The assignments of the code, on a screen given by its parts.
LEMMA Assignments ==
  ASSUME NEW x, NEW y, NEW hw, NEW cells, NEW a, NEW b
  PROVE  /\ SetX(Screen(x, y, hw, cells), a) = Screen(a, y, hw, cells)
         /\ SetY(Screen(x, y, hw, cells), a) = Screen(x, a, hw, cells)
         /\ SetHw(Screen(x, y, hw, cells), a) = Screen(x, y, a, cells)
         /\ SetCells(Screen(x, y, hw, cells), a) = Screen(x, y, hw, a)
         /\ SetXY(Screen(x, y, hw, cells), a, b) = Screen(a, b, hw, cells)
         /\ SetYCells(Screen(x, y, hw, cells), a, b) = Screen(x, a, hw, b)
  <1>1. SetX(Screen(x, y, hw, cells), a) = Screen(a, y, hw, cells)
    BY DEF Screen, SetX
  <1>2. SetY(Screen(x, y, hw, cells), a) = Screen(x, a, hw, cells)
    BY DEF Screen, SetY
  <1>3. SetHw(Screen(x, y, hw, cells), a) = Screen(x, y, a, cells)
    BY DEF Screen, SetHw
  <1>4. SetCells(Screen(x, y, hw, cells), a) = Screen(x, y, hw, a)
    BY DEF Screen, SetCells
  <1>5. SetXY(Screen(x, y, hw, cells), a, b) = Screen(a, b, hw, cells)
    <2>1. SetXY(Screen(x, y, hw, cells), a, b) = SetY(SetX(Screen(x, y, hw, cells), a), b)
      BY DEF SetXY, SetX, SetY
    <2>2. SetY(Screen(a, y, hw, cells), b) = Screen(a, b, hw, cells)
      BY DEF Screen, SetY
    <2> QED
      BY <1>1, <2>1, <2>2
  <1>6. SetYCells(Screen(x, y, hw, cells), a, b) = Screen(x, a, hw, b)
    <2>1. SetYCells(Screen(x, y, hw, cells), a, b) = SetCells(SetY(Screen(x, y, hw, cells), a), b)
      BY DEF SetYCells, SetCells, SetY
    <2>2. SetCells(Screen(x, a, hw, cells), b) = Screen(x, a, hw, b)
      BY DEF Screen, SetCells
    <2> QED
      BY <1>2, <2>1, <2>2
  <1> QED
    BY <1>1, <1>2, <1>3, <1>4, <1>5, <1>6

\* The same, on a screen given as a whole.
LEMMA AssignmentsTo ==
  ASSUME NEW c, IsScreen(c), NEW a, NEW b
  PROVE  /\ SetX(c, a) = Screen(a, c.y, c.hw, c.cells)
         /\ SetY(c, a) = Screen(c.x, a, c.hw, c.cells)
         /\ SetHw(c, a) = Screen(c.x, c.y, a, c.cells)
         /\ SetCells(c, a) = Screen(c.x, c.y, c.hw, a)
         /\ SetXY(c, a, b) = Screen(a, b, c.hw, c.cells)
         /\ SetYCells(c, a, b) = Screen(c.x, a, c.hw, b)
  <1>1. PICK x, y, hw, cells : x = c.x /\ y = c.y /\ hw = c.hw /\ cells = c.cells
    OBVIOUS
  <1>2. c = Screen(x, y, hw, cells)
    BY <1>1 DEF IsScreen
  <1> QED
    BY <1>1, <1>2, Assignments

\* The functions of the driver, written with them.
LEMMA AsAssignments ==
  ASSUME NEW c
  PROVE  /\ update_cursor(c) = SetHw(c, Pos(c))
         /\ Wrap(c) = IF c.x >= W THEN SetXY(c, 0, c.y + 1) ELSE c
         /\ \E new : Scroll(c) = IF c.y >= H THEN SetYCells(c, H - 1, new) ELSE c
         /\ Left(c) = IF c.x > 0 THEN SetX(c, c.x - 1)
                      ELSE IF c.y > 0 THEN SetXY(c, W - 1, c.y - 1) ELSE c
         /\ StepBack(c) = IF c.x > 0 THEN SetX(c, c.x - 1)
                          ELSE IF c.y > 0 THEN SetY(c, W - 1) ELSE c
         /\ \A ch : \E new : Write(c, ch) = SetCells(c, new)
         /\ \A ch : Put(c, ch) =
                IF ch = NewLine THEN SetXY(c, 0, c.y + 1)
                ELSE IF ch = BackSpace THEN Write(Left(c), Blank)
                ELSE SetX(Write(c, ch), Write(c, ch).x + 1)
  <1>1. update_cursor(c) = SetHw(c, Pos(c))
    BY DEF update_cursor, SetHw
  <1>2. Wrap(c) = IF c.x >= W THEN SetXY(c, 0, c.y + 1) ELSE c
    BY DEF Wrap, SetXY
  <1>3. \E new : Scroll(c) = IF c.y >= H THEN SetYCells(c, H - 1, new) ELSE c
    BY DEF Scroll, vga_scroll, SetYCells
  <1>4. Left(c) = IF c.x > 0 THEN SetX(c, c.x - 1)
                  ELSE IF c.y > 0 THEN SetXY(c, W - 1, c.y - 1) ELSE c
    BY DEF Left, SetX, SetXY
  <1>5. StepBack(c) = IF c.x > 0 THEN SetX(c, c.x - 1)
                      ELSE IF c.y > 0 THEN SetY(c, W - 1) ELSE c
    BY DEF StepBack, SetX, SetY
  <1>6. \A ch : \E new : Write(c, ch) = SetCells(c, new)
    BY DEF Write, SetCells
  <1>7. ASSUME NEW ch
        PROVE  Put(c, ch) =
                IF ch = NewLine THEN SetXY(c, 0, c.y + 1)
                ELSE IF ch = BackSpace THEN Write(Left(c), Blank)
                ELSE SetX(Write(c, ch), Write(c, ch).x + 1)
    BY DEF Put, SetX, SetXY
  <1> QED
    BY <1>1, <1>2, <1>3, <1>4, <1>5, <1>6, <1>7

-----------------------------------------------------------------------------
(* The echoes *)

\* The column and row that each part of vga_putc and vga_backspace leaves.
LEMMA WriteKeepsCursor ==
  ASSUME NEW c, IsScreen(c), NEW ch
  PROVE  LET d == Write(c, ch)
         IN  IsScreen(d) /\ d.x = c.x /\ d.y = c.y /\ d.hw = c.hw
  <1>1. PICK new : Write(c, ch) = SetCells(c, new)
    BY AsAssignments
  <1>2. Write(c, ch) = Screen(c.x, c.y, c.hw, new)
    BY <1>1, AssignmentsTo
  <1> QED
    BY <1>2, ScreenFields

\* vga_backspace goes one column back, or to the end of the row above
\* (vga_buffer.c:27-32).
LEMMA StepBackMoves ==
  ASSUME NEW c, Near(c)
  PROVE  LET d == StepBack(c)
         IN  /\ Near(d)
             /\ d.x = IF c.x > 0 THEN c.x - 1 ELSE 0
             /\ d.y = IF c.x = 0 /\ c.y > 0 THEN W - 1 ELSE c.y
  <1>1. c.x \in 0 .. W /\ c.y \in 0 .. W /\ c.hw \in Nat /\ IsScreen(c)
    BY DEF Near
  <1>2. CASE c.x > 0
    <2>1. StepBack(c) = Screen(c.x - 1, c.y, c.hw, c.cells)
      BY <1>1, <1>2, AsAssignments, AssignmentsTo
    <2> QED
      BY <1>1, <1>2, <2>1, ScreenFields, Sizes DEF Near
  <1>3. CASE c.x = 0 /\ c.y > 0
    <2>1. StepBack(c) = Screen(c.x, W - 1, c.hw, c.cells)
      BY <1>1, <1>3, AsAssignments, AssignmentsTo
    <2> QED
      BY <1>1, <1>3, <2>1, ScreenFields, Sizes DEF Near
  <1>4. CASE c.x = 0 /\ c.y = 0
    BY <1>1, <1>4, AsAssignments DEF Near
  <1> QED
    BY <1>1, <1>2, <1>3, <1>4, Sizes

\* The switch of vga_putc leaves the cursor at most one place off the screen
\* (vga_buffer.c:80-98).
LEMMA PutMoves ==
  ASSUME NEW c, Near(c), NEW ch
  PROVE  LET d == Put(c, ch)
         IN  /\ IsScreen(d) /\ d.x \in 0 .. W + 1 /\ d.y \in 0 .. W + 1 /\ d.hw \in Nat
             /\ ch \notin {NewLine, BackSpace} => d.x = c.x + 1 /\ d.y = c.y
  <1>1. c.x \in 0 .. W /\ c.y \in 0 .. W /\ c.hw \in Nat /\ IsScreen(c)
    BY DEF Near
  <1>2. CASE ch = NewLine
    <2>1. Put(c, ch) = Screen(0, c.y + 1, c.hw, c.cells)
      BY <1>1, <1>2, AsAssignments, AssignmentsTo
    <2> QED
      BY <1>1, <1>2, <2>1, ScreenFields, Sizes
  <1>3. CASE ch # NewLine /\ ch = BackSpace
    <2> DEFINE l == Left(c)
    <2>1. IsScreen(l) /\ l.x \in 0 .. W /\ l.y \in 0 .. W /\ l.hw \in Nat
      <3>1. CASE c.x > 0
        <4>1. l = Screen(c.x - 1, c.y, c.hw, c.cells)
          BY <1>1, <3>1, AsAssignments, AssignmentsTo
        <4> QED
          BY <1>1, <3>1, <4>1, ScreenFields, Sizes
      <3>2. CASE ~(c.x > 0) /\ c.y > 0
        <4>1. l = Screen(W - 1, c.y - 1, c.hw, c.cells)
          BY <1>1, <3>2, AsAssignments, AssignmentsTo
        <4>2. l.x = W - 1 /\ l.y = c.y - 1 /\ l.hw = c.hw /\ IsScreen(l)
          BY <4>1, ScreenFields
        <4> HIDE DEF l
        <4> QED
          BY <1>1, <3>2, <4>2, Sizes
      <3>3. CASE ~(c.x > 0) /\ ~(c.y > 0)
        BY <1>1, <3>3, AsAssignments
      <3> QED
        BY <3>1, <3>2, <3>3
    <2> HIDE DEF l
    <2>2. Put(c, ch) = Write(l, Blank)
      BY <1>3, AsAssignments DEF l
    <2> QED
      BY <1>3, <2>1, <2>2, WriteKeepsCursor, Sizes
  <1>4. CASE ch \notin {NewLine, BackSpace}
    <2> DEFINE d == Write(c, ch)
    <2>1. IsScreen(d) /\ d.x = c.x /\ d.y = c.y /\ d.hw = c.hw
      BY <1>1, WriteKeepsCursor
    <2>2. Put(c, ch) = SetX(d, d.x + 1)
      BY <1>4, AsAssignments
    <2> HIDE DEF d
    <2>3. Put(c, ch) = Screen(d.x + 1, d.y, d.hw, d.cells)
      BY <2>1, <2>2, AssignmentsTo
    <2>4. /\ Put(c, ch).x = c.x + 1 /\ Put(c, ch).y = c.y /\ Put(c, ch).hw = c.hw
          /\ IsScreen(Put(c, ch))
      BY <2>1, <2>3, ScreenFields
    <2> QED
      BY <1>1, <2>4, Sizes
  <1> QED
    BY <1>2, <1>3, <1>4

\* Wrap and scroll bring a cursor that is at most one column and one row too far
\* back to the screen (vga_buffer.c:101-109).
LEMMA TestsRepair ==
  ASSUME NEW c, IsScreen(c), c.x \in 0 .. W + 1, c.y \in 0 .. W + 1, c.hw \in Nat
  PROVE  LET d == update_cursor(Scroll(Wrap(c)))
         IN  /\ OnScreen(d)
             /\ c.x < W => d.x = c.x
  <1> DEFINE w == Wrap(c)
             s == Scroll(w)
             d == update_cursor(s)
  <1>1. /\ IsScreen(w) /\ w.x \in 0 .. W - 1 /\ w.y \in 0 .. W + 2 /\ w.hw \in Nat
        /\ c.x < W => w.x = c.x
    <2>1. CASE c.x >= W
      <3>1. w = Screen(0, c.y + 1, c.hw, c.cells)
        BY <2>1, AsAssignments, AssignmentsTo
      <3>2. w.x = 0 /\ w.y = c.y + 1 /\ w.hw = c.hw /\ IsScreen(w)
        BY <3>1, ScreenFields
      <3> HIDE DEF w
      <3> QED
        BY <2>1, <3>2, Sizes
    <2>2. CASE ~(c.x >= W)
      <3>1. w = c
        BY <2>2, AsAssignments
      <3> QED
        BY <2>2, <3>1, Sizes
    <2> HIDE DEF w
    <2> QED
      BY <2>1, <2>2, Sizes
  <1> HIDE DEF w
  <1>2. IsScreen(s) /\ s.x = w.x /\ s.y \in 0 .. H - 1 /\ s.hw \in Nat
    <2>1. CASE w.y >= H
      <3>1. PICK new : s = SetYCells(w, H - 1, new)
        BY <2>1, AsAssignments
      <3>2. s = Screen(w.x, H - 1, w.hw, new)
        BY <1>1, <3>1, AssignmentsTo
      <3> QED
        BY <1>1, <3>2, ScreenFields, Sizes
    <2>2. CASE ~(w.y >= H)
      <3>1. s = w
        BY <2>2, AsAssignments
      <3> QED
        BY <1>1, <2>2, <3>1, Sizes
    <2> QED
      BY <2>1, <2>2
  <1> HIDE DEF s
  <1>3. d = Screen(s.x, s.y, Pos(s), s.cells)
    BY <1>2, AsAssignments, AssignmentsTo
  <1>4. Pos(s) \in Nat
    BY <1>1, <1>2, PositionBounds, Sizes DEF Pos
  <1>5. d.x = s.x /\ d.y = s.y /\ d.hw = Pos(s) /\ IsScreen(d)
    BY <1>3, ScreenFields
  <1> HIDE DEF d
  <1>6. OnScreen(d) /\ (c.x < W => d.x = c.x)
    BY <1>1, <1>2, <1>4, <1>5, Sizes DEF OnScreen, Near
  <1> QED
    BY <1>6 DEF d, s, w

\* Whatever the character and wherever the cursor was, vga_putc leaves it on the
\* screen; a blank before the last column only moves it one to the right
\* (vga_buffer.c:77-112).
LEMMA PutcOnScreen ==
  ASSUME NEW c, Near(c), NEW ch
  PROVE  /\ OnScreen(vga_putc(c, ch))
         /\ ch \notin {NewLine, BackSpace} /\ c.x < W - 1 => vga_putc(c, ch).x = c.x + 1
  <1> DEFINE p == Put(c, ch)
  <1>1. /\ IsScreen(p) /\ p.x \in 0 .. W + 1 /\ p.y \in 0 .. W + 1 /\ p.hw \in Nat
        /\ ch \notin {NewLine, BackSpace} => p.x = c.x + 1
    BY PutMoves
  <1>2. vga_putc(c, ch) = update_cursor(Scroll(Wrap(p)))
    BY DEF vga_putc
  <1> HIDE DEF p
  <1>3. OnScreen(vga_putc(c, ch)) /\ (p.x < W => vga_putc(c, ch).x = p.x)
    BY <1>1, <1>2, TestsRepair
  <1> QED
    BY <1>1, <1>3, Sizes DEF Near

\* An echoed backspace leaves the screen only if the column was W, and then only
\* to the first column of row W - 1 (vga_buffer.c:25-45).
LEMMA BackspaceNear ==
  ASSUME NEW c, Near(c)
  PROVE  LET d == vga_backspace(c)
         IN  /\ Near(d) /\ d.x < W /\ d.y < W
             /\ c.x < W => d.y < H
  <1> DEFINE b == StepBack(c)
             p == vga_putc(b, Blank)
             d == StepBack(p)
  <1>1. Near(b) /\ b.x = IF c.x > 0 THEN c.x - 1 ELSE 0
    BY StepBackMoves
  <1>2. OnScreen(p) /\ (b.x < W - 1 => p.x = b.x + 1)
    BY <1>1, PutcOnScreen, ConsoleAssumption
  <1> HIDE DEF b, p
  <1>3. /\ Near(d)
        /\ d.x = IF p.x > 0 THEN p.x - 1 ELSE 0
        /\ d.y = IF p.x = 0 /\ p.y > 0 THEN W - 1 ELSE p.y
    BY <1>2, StepBackMoves DEF OnScreen
  <1> HIDE DEF d
  <1>4. Near(d) /\ d.x < W /\ d.y < W
    BY <1>2, <1>3, Sizes DEF OnScreen, Near
  <1>5. ASSUME c.x < W PROVE d.y < H
    <2>1. b.x < W - 1 /\ b.x \in Nat
      BY <1>1, <1>5, Sizes DEF Near
    <2>2. p.x > 0
      BY <1>2, <2>1
    <2> QED
      BY <1>2, <1>3, <2>2, Sizes DEF OnScreen, Near
  <1> QED
    BY <1>4, <1>5 DEF vga_backspace, d, p, b

-----------------------------------------------------------------------------
(* The invariant *)

\* A position, cut in two, fits the registers it is written to.
LEMMA Registers ==
  ASSUME NEW p \in Nat
  PROVE  /\ p % Low \in 0 .. Low - 1 /\ p \div Low \in Nat
         /\ Loaded(p) \in [index : {"low", "high"}, low : 0 .. Low - 1, high : Nat]
  <1>1. p % Low \in 0 .. Low - 1 /\ p \div Low \in Nat
    BY RaceAssumption
  <1> QED
    BY <1>1 DEF Loaded

\* A screen that has been cleared has its cursor on it.
LEMMA ClearedOnScreen == OnScreen(Cleared)
  <1> DEFINE c == [x |-> 0, y |-> 0, hw |-> 0, cells |-> [i \in Window |-> Blank]]
             new == [i \in Window |-> IF i < W * H THEN Blank ELSE c.cells[i]]
             d == [c EXCEPT !.cells = new, !.x = 0, !.y = 0]
  <1>1. PICK z : z = 0
    OBVIOUS
  <1>2. c = Screen(z, z, z, c.cells)
    BY <1>1 DEF Screen
  <1>3. d = SetY(SetX(SetCells(c, new), z), z)
    BY <1>1 DEF SetY, SetX, SetCells
  <1> HIDE DEF c, new
  <1>4. d = Screen(z, z, z, new)
    BY <1>2, <1>3, Assignments
  <1> HIDE DEF d
  <1>5. IsScreen(d) /\ d.x = 0 /\ d.y = 0 /\ d.hw = 0
    BY <1>1, <1>4, ScreenFields
  <1>6. OnScreen(update_cursor(d))
    <2>1. update_cursor(d) = Screen(d.x, d.y, Pos(d), d.cells)
      BY <1>5, AsAssignments, AssignmentsTo
    <2>2. Pos(d) \in Nat
      BY <1>5, PositionBounds, Sizes DEF Pos
    <2> QED
      BY <1>5, <2>1, <2>2, ScreenFields, Sizes DEF OnScreen, Near
  <1> QED
    BY <1>6 DEF Cleared, vga_clear, c, d, new

\* The start: a cleared screen.
LEMMA InitRace == Init => Race
  <1> SUFFICES ASSUME Init PROVE Race
    OBVIOUS
  <1>1. OnScreen(con)
    BY ClearedOnScreen DEF Init
  <1>2. TypeOK
    BY <1>1, Sizes, RaceAssumption DEF Init, TypeOK, OnScreen, Near
  <1>3. Columns /\ Rows /\ Locals
    BY <1>1, Sizes DEF Init, Columns, Rows, Locals, OnScreen, Near
  <1> QED
    BY <1>1, <1>2, <1>3 DEF Race, OnScreen

\* An echo keeps the invariant wherever vga_putc is.
LEMMA EchoRace ==
  ASSUME Race, NEW d, Echo(d), Near(d), d.x < W, d.y < W, con.x < W => d.y < H
  PROVE  Race'
  <1>1. con' = d /\ crtc' = Loaded(d.hw) /\ UNCHANGED <<pc, back, r, at>>
    BY DEF Echo
  <1>2. TypeOK'
    BY <1>1, Registers DEF Race, TypeOK, Near
  <1>3. Near(con)'
    BY <1>1 DEF Near, IsScreen
  <1>4. Columns' /\ Rows'
    BY <1>1 DEF Race, Columns, Rows, WrapAhead, RowAhead
  <1>5. Locals'
    BY <1>1 DEF Race, Locals, Loaded
  <1> QED
    BY <1>2, <1>3, <1>4, <1>5 DEF Race

\* What the keyboard handler prints.
LEMMA KeyRace ==
  ASSUME Race, NEW k \in Keys, Key(k)
  PROVE  Race'
  <1>1. Near(con)
    BY DEF Race
  <1>2. CASE Echo(vga_putc(con, Blank))
    BY <1>1, <1>2, PutcOnScreen, EchoRace, Sizes DEF OnScreen, Near
  <1>3. CASE Echo(vga_putc(con, NewLine))
    BY <1>1, <1>3, PutcOnScreen, EchoRace, Sizes DEF OnScreen, Near
  <1>4. CASE Echo(vga_backspace(con))
    BY <1>1, <1>4, BackspaceNear, EchoRace
  <1> QED
    BY <1>2, <1>3, <1>4 DEF Key

\* The accesses that only read, or only write to the adapter.
LEMMA ReadingRace ==
  ASSUME Race, UNCHANGED con,
         \/ PutChar \/ Index \/ LoadX \/ TestX \/ LoadY \/ TestY \/ Cursor \/ CursorPos
         \/ SelectLow \/ WriteLow \/ SelectHigh \/ WriteHigh
  PROVE  Race'
  <1>1. /\ con.x \in 0 .. W /\ con.y \in 0 .. W /\ con.hw \in Nat /\ IsScreen(con)
        /\ crtc \in [index : {"low", "high"}, low : 0 .. Low - 1, high : Nat]
        /\ back \in {"testX", "testY"} /\ r \in 0 .. W /\ at \in Nat
    BY DEF Race, TypeOK, Near
  <1>2. Near(con)'
    BY <1>1 DEF Near, IsScreen
  <1>3. CASE PutChar \/ LoadX \/ LoadY \/ Cursor
    <2>1. TypeOK'
      BY <1>1, <1>3 DEF PutChar, LoadX, LoadY, Cursor, TypeOK
    <2>2. Columns' /\ Rows' /\ Locals'
      BY <1>1, <1>3, Sizes DEF PutChar, LoadX, LoadY, Cursor, Step, Race, Columns, Rows, Locals,
                               WrapAhead, RowAhead
    <2> QED
      BY <1>2, <2>1, <2>2 DEF Race
  <1>4. CASE Index \/ CursorPos
    <2>1. /\ con.x < W /\ con.y < H /\ r < H
          /\ at' = r * W + con.x
          /\ pc' \in {"store", "selectLow"}
          /\ UNCHANGED <<con, crtc, back, r>>
      BY <1>4 DEF Index, CursorPos, Step, Race, Columns, Rows, Locals, WrapAhead, RowAhead
    <2>2. at' \in Nat /\ at' < W * H
      BY <1>1, <2>1, PositionBounds
    <2>3. TypeOK'
      BY <1>1, <2>1, <2>2 DEF TypeOK
    <2>4. Columns' /\ Rows' /\ Locals'
      BY <1>1, <2>1, <2>2, Sizes DEF Columns, Rows, Locals, WrapAhead, RowAhead
    <2> QED
      BY <1>2, <2>3, <2>4 DEF Race
  <1>5. CASE TestX \/ TestY
    <2>1. TypeOK'
      BY <1>1, <1>5 DEF TestX, TestY, TypeOK
    <2>2. Columns' /\ Rows' /\ Locals'
      BY <1>1, <1>5, Sizes DEF TestX, TestY, Step, Race, Columns, Rows, Locals, WrapAhead, RowAhead
    <2> QED
      BY <1>2, <2>1, <2>2 DEF Race
  <1>6. CASE SelectLow \/ WriteLow \/ SelectHigh \/ WriteHigh
    <2>1. at % Low \in 0 .. Low - 1 /\ at \div Low \in Nat
      BY <1>1, Registers
    <2>2. crtc' \in [index : {"low", "high"}, low : 0 .. Low - 1, high : Nat]
      <3>1. CASE SelectLow \/ SelectHigh
        BY <1>1, <3>1 DEF SelectLow, SelectHigh, Select
      <3>2. CASE WriteLow
        BY <1>1, <2>1, <3>2 DEF WriteLow, Data
      <3>3. CASE WriteHigh
        BY <1>1, <2>1, <3>3 DEF WriteHigh, Data, Step, Race, Locals
      <3> QED
        BY <1>6, <3>1, <3>2, <3>3
    <2>3. /\ pc \in {"selectLow", "low", "selectHigh", "high"}
          /\ pc' \in {"low", "selectHigh", "high", "idle"}
          /\ UNCHANGED <<con, back, r, at>>
      BY <1>6 DEF SelectLow, WriteLow, SelectHigh, WriteHigh, Step, Select, Data
    <2>4. TypeOK'
      BY <1>1, <2>2, <2>3 DEF TypeOK
    <2>5. Columns' /\ Rows'
      BY <2>3 DEF Race, Columns, Rows, WrapAhead, RowAhead
    <2>6. pc' = "high" => crtc'.index = "high"
      BY <1>1, <1>6 DEF SelectLow, WriteLow, SelectHigh, WriteHigh, Step, Select
    <2>7. Locals'
      BY <2>3, <2>6 DEF Locals
    <2> QED
      BY <1>2, <2>4, <2>5, <2>7 DEF Race
  <1> QED
    BY <1>3, <1>4, <1>5, <1>6

\* The accesses that move the cursor or store a character.
LEMMA WritingRace ==
  ASSUME Race, PutNewLine \/ Store \/ StoreX \/ WrapX \/ StoreY \/ MoveUp \/ LastRow
  PROVE  Race'
  <1>1. /\ con.x \in 0 .. W /\ con.y \in 0 .. W /\ con.hw \in Nat /\ IsScreen(con)
        /\ crtc \in [index : {"low", "high"}, low : 0 .. Low - 1, high : Nat]
        /\ back \in {"testX", "testY"} /\ r \in 0 .. W /\ at \in Nat
    BY DEF Race, TypeOK, Near
  <1> DEFINE Types == /\ crtc \in [index : {"low", "high"}, low : 0 .. Low - 1, high : Nat]
                      /\ back \in {"testX", "testY"} /\ r \in 0 .. W /\ at \in Nat
  <1>2. Types'
    BY <1>1 DEF PutNewLine, Store, StoreX, WrapX, StoreY, MoveUp, LastRow
  <1>3. SUFFICES /\ IsScreen(con)' /\ con'.x \in 0 .. W /\ con'.y \in 0 .. W /\ con'.hw \in Nat
                 /\ Columns' /\ Rows' /\ Locals'
    BY <1>2 DEF Race, TypeOK, Near
  <1>4. CASE PutNewLine \/ WrapX
    <2>1. PICK z : z = 0 /\ con' = SetX(con, z)
      BY <1>4 DEF PutNewLine, WrapX, SetX
    <2>2. con' = Screen(z, con.y, con.hw, con.cells)
      BY <1>1, <2>1, AssignmentsTo
    <2>3. con'.x = 0 /\ con'.y = con.y /\ con'.hw = con.hw /\ IsScreen(con')
      BY <2>1, <2>2, ScreenFields
    <2>4. Columns' /\ Rows' /\ Locals'
      BY <1>1, <1>4, <2>3, Sizes DEF PutNewLine, WrapX, Step, Race, Columns, Rows, Locals,
                                     WrapAhead, RowAhead
    <2> QED
      BY <1>1, <2>3, <2>4, Sizes DEF IsScreen
  <1>5. CASE Store \/ MoveUp
    <2>1. PICK new : con' = SetCells(con, new)
      BY <1>5 DEF Store, MoveUp, SetCells
    <2>2. con' = Screen(con.x, con.y, con.hw, new)
      BY <1>1, <2>1, AssignmentsTo
    <2>3. con'.x = con.x /\ con'.y = con.y /\ con'.hw = con.hw /\ IsScreen(con')
      BY <2>2, ScreenFields
    <2>4. Columns' /\ Rows' /\ Locals'
      BY <1>1, <1>5, <2>3, Sizes DEF Store, MoveUp, Step, Race, Columns, Rows, Locals, WrapAhead, RowAhead
    <2> QED
      BY <1>1, <2>3, <2>4 DEF IsScreen
  <1>6. CASE StoreX
    <2>1. con' = SetX(con, r + 1)
      BY <1>6 DEF StoreX, SetX
    <2>2. con' = Screen(r + 1, con.y, con.hw, con.cells)
      BY <1>1, <2>1, AssignmentsTo
    <2>3. con'.x = r + 1 /\ con'.y = con.y /\ con'.hw = con.hw /\ IsScreen(con')
      BY <2>2, ScreenFields
    <2>4. r < W
      BY <1>6 DEF StoreX, Step, Race, Locals
    <2>5. Columns' /\ Rows' /\ Locals'
      BY <1>1, <1>6, <2>3, <2>4, Sizes DEF StoreX, Step, Race, Columns, Rows, Locals,
                                           WrapAhead, RowAhead
    <2> QED
      BY <1>1, <2>3, <2>4, <2>5, Sizes DEF IsScreen
  <1>7. CASE StoreY
    <2>1. con' = SetY(con, r + 1)
      BY <1>7 DEF StoreY, SetY
    <2>2. con' = Screen(con.x, r + 1, con.hw, con.cells)
      BY <1>1, <2>1, AssignmentsTo
    <2>3. con'.x = con.x /\ con'.y = r + 1 /\ con'.hw = con.hw /\ IsScreen(con')
      BY <2>2, ScreenFields
    <2>4. r < W /\ (back = "testX" => r < H)
      BY <1>7 DEF StoreY, Step, Race, Locals
    <2>5. Columns' /\ Rows' /\ Locals'
      BY <1>1, <1>7, <2>3, <2>4, Sizes DEF StoreY, Step, Race, Columns, Rows, Locals,
                                           WrapAhead, RowAhead
    <2> QED
      BY <1>1, <2>3, <2>4, <2>5, Sizes DEF IsScreen
  <1>8. CASE LastRow
    <2>1. con' = SetY(con, H - 1)
      BY <1>8 DEF LastRow, SetY
    <2>2. con' = Screen(con.x, H - 1, con.hw, con.cells)
      BY <1>1, <2>1, AssignmentsTo
    <2>3. con'.x = con.x /\ con'.y = H - 1 /\ con'.hw = con.hw /\ IsScreen(con')
      BY <2>2, ScreenFields
    <2>4. Columns' /\ Rows' /\ Locals'
      BY <1>1, <1>8, <2>3, Sizes DEF LastRow, Step, Race, Columns, Rows, Locals,
                                     WrapAhead, RowAhead
    <2> QED
      BY <1>1, <2>3, <2>4, Sizes DEF IsScreen
  <1> QED
    BY <1>4, <1>5, <1>6, <1>7, <1>8

\* Every step: of the main loop, or of the handler.
LEMMA StepRace == Race /\ [Next]_vars => Race'
  <1> SUFFICES ASSUME Race, [Next]_vars PROVE Race'
    OBVIOUS
  <1>1. CASE PutNewLine \/ Store \/ StoreX \/ WrapX \/ StoreY \/ MoveUp \/ LastRow
    BY <1>1, WritingRace
  <1>2. CASE \/ PutChar \/ Index \/ LoadX \/ TestX \/ LoadY \/ TestY \/ Cursor \/ CursorPos
             \/ SelectLow \/ WriteLow \/ SelectHigh \/ WriteHigh
    <2>1. UNCHANGED con
      BY <1>2 DEF PutChar, Index, LoadX, TestX, LoadY, TestY, Cursor, CursorPos,
                  SelectLow, WriteLow, SelectHigh, WriteHigh, Select, Data
    <2> QED
      BY <1>2, <2>1, ReadingRace
  <1>3. CASE \E k \in Keys : Key(k)
    BY <1>3, KeyRace
  <1>4. CASE UNCHANGED vars
    BY <1>4 DEF vars, Race, TypeOK, Near, IsScreen, Columns, Rows, Locals, WrapAhead, RowAhead
  <1> QED
    BY <1>1, <1>2, <1>3, <1>4 DEF Next, vga_putc_steps

\* However many echoes come in between the accesses of vga_putc, the inductive
\* invariant holds, on a screen of any size.
THEOREM RaceInvariant == Spec => []Race
  BY InitRace, StepRace, PTL DEF Spec

\* The cursor, the adapter's registers and the locals of vga_putc keep their
\* ranges: even when an echo selects another register between the select and the
\* write, the low one never gets a value too large for it (vga_buffer.c:9-19).
THEOREM RaceTyped == Spec => []TypeOK
  <1>1. Race => TypeOK
    BY DEF Race
  <1> QED
    BY <1>1, RaceInvariant, PTL

\* Whenever the main loop is outside vga_putc, the cursor is on the screen
\* (vga_buffer.c:101-109).
THEOREM CursorRests == Spec => []RestInBounds
  <1>1. Race => RestInBounds
    BY DEF Race, Columns, Rows, WrapAhead, RowAhead, RestInBounds
  <1> QED
    BY <1>1, RaceInvariant, PTL

\* No character, of vga_putc or of an echo, is stored outside the adapter's
\* memory (vga_buffer.c:91, 95).
THEOREM StoresStayInside == Spec => []StoresInWindow
  <1>1. Race => StoresInWindow
    <2> SUFFICES ASSUME Race PROVE StoresInWindow
      OBVIOUS
    <2>1. pc = "store" => at \in Window
      BY ScreenInWindow, ConsoleAssumption DEF Race, TypeOK, Locals, Window
    <2>2. Pos(con) \in Window
      BY PositionBounds DEF Race, Near, Pos
    <2> QED
      BY <2>1, <2>2 DEF StoresInWindow
  <1> QED
    BY <1>1, RaceInvariant, PTL

-----------------------------------------------------------------------------
(* Calls that take turns *)

\* What the calls of Terminal leave: the cursor on the screen, cells of S.
Shows(c, S) == OnScreen(c) /\ c.cells \in [Window -> S]

\* A character stored, wherever it is.
LEMMA WriteCells ==
  ASSUME NEW c, IsScreen(c), NEW S, c.cells \in [Window -> S], NEW ch \in S
  PROVE  Write(c, ch).cells \in [Window -> S]
  <1> DEFINE new == [c.cells EXCEPT ![Pos(c)] = ch]
  <1>1. Write(c, ch) = SetCells(c, new)
    BY DEF Write, SetCells
  <1>2. new \in [Window -> S]
    OBVIOUS
  <1> HIDE DEF new
  <1>3. Write(c, ch) = Screen(c.x, c.y, c.hw, new)
    BY <1>1, AssignmentsTo
  <1> QED
    BY <1>2, <1>3, ScreenFields

\* The switch of vga_putc stores the character, a blank or nothing
\* (vga_buffer.c:78-98).
LEMMA PutCells ==
  ASSUME NEW c, IsScreen(c), NEW S, c.cells \in [Window -> S], Blank \in S,
         NEW ch \in S \union {NewLine, BackSpace}
  PROVE  Put(c, ch).cells \in [Window -> S]
  <1>1. CASE ch = NewLine
    <2>1. Put(c, ch) = Screen(0, c.y + 1, c.hw, c.cells)
      BY <1>1, AsAssignments, AssignmentsTo
    <2> QED
      BY <2>1, ScreenFields
  <1>2. CASE ch # NewLine /\ ch = BackSpace
    <2> DEFINE l == Left(c)
    <2>1. IsScreen(l) /\ l.cells = c.cells
      <3>1. CASE c.x > 0
        <4>1. l = Screen(c.x - 1, c.y, c.hw, c.cells)
          BY <3>1, AsAssignments, AssignmentsTo
        <4> QED
          BY <4>1, ScreenFields
      <3>2. CASE ~(c.x > 0) /\ c.y > 0
        <4>1. l = Screen(W - 1, c.y - 1, c.hw, c.cells)
          BY <3>2, AsAssignments, AssignmentsTo
        <4> QED
          BY <4>1, ScreenFields
      <3>3. CASE ~(c.x > 0) /\ ~(c.y > 0)
        BY <3>3, AsAssignments
      <3> QED
        BY <3>1, <3>2, <3>3
    <2> HIDE DEF l
    <2>2. Put(c, ch) = Write(l, Blank)
      BY <1>2, AsAssignments DEF l
    <2> QED
      BY <2>1, <2>2, WriteCells
  <1>3. CASE ch \notin {NewLine, BackSpace}
    <2> DEFINE d == Write(c, ch)
    <2>1. IsScreen(d) /\ d.cells \in [Window -> S]
      BY <1>3, WriteKeepsCursor, WriteCells
    <2>2. Put(c, ch) = SetX(d, d.x + 1)
      BY <1>3, AsAssignments
    <2> HIDE DEF d
    <2>3. Put(c, ch) = Screen(d.x + 1, d.y, d.hw, d.cells)
      BY <2>1, <2>2, AssignmentsTo
    <2> QED
      BY <2>1, <2>3, ScreenFields
  <1> QED
    BY <1>1, <1>2, <1>3

\* Scrolling moves cells and blanks the last row (vga_buffer.c:60-75); then the
\* adapter is told the position (lines 9-19).
LEMMA RepairCells ==
  ASSUME NEW c, IsScreen(c), NEW S, c.cells \in [Window -> S], Blank \in S
  PROVE  LET d == update_cursor(Scroll(Wrap(c)))
         IN  d.cells \in [Window -> S] /\ d.hw = Pos(d)
  <1> DEFINE w == Wrap(c)
             s == Scroll(w)
             d == update_cursor(s)
  <1>1. IsScreen(w) /\ w.cells = c.cells
    <2>1. CASE c.x >= W
      <3>1. w = Screen(0, c.y + 1, c.hw, c.cells)
        BY <2>1, AsAssignments, AssignmentsTo
      <3> QED
        BY <3>1, ScreenFields
    <2>2. CASE ~(c.x >= W)
      BY <2>2, AsAssignments
    <2> QED
      BY <2>1, <2>2
  <1> HIDE DEF w
  <1>2. IsScreen(s) /\ s.cells \in [Window -> S]
    <2>1. CASE w.y >= H
      <3> DEFINE new == [i \in Window |-> IF i < W * (H - 1) THEN w.cells[i + W]
                                          ELSE IF i < W * H THEN Blank ELSE w.cells[i]]
      <3>1. s = SetYCells(w, H - 1, new)
        BY <2>1 DEF Scroll, vga_scroll, SetYCells
      <3>2. new \in [Window -> S]
        <4> SUFFICES ASSUME NEW i \in Window
                     PROVE  (IF i < W * (H - 1) THEN w.cells[i + W]
                             ELSE IF i < W * H THEN Blank ELSE w.cells[i]) \in S
          OBVIOUS
        <4>1. CASE i < W * (H - 1)
          <5>1. i + W \in Window
            <6>1. W * (H - 1) + W = W * H /\ W * (H - 1) \in Nat
              BY Sizes
            <6> QED
              BY <4>1, <6>1, Sizes, ScreenInWindow, ConsoleAssumption DEF Window
          <5> QED
            BY <1>1, <4>1, <5>1
        <4>2. CASE ~(i < W * (H - 1))
          BY <1>1, <4>2
        <4> QED
          BY <4>1, <4>2
      <3> HIDE DEF new
      <3>3. s = Screen(w.x, H - 1, w.hw, new)
        BY <1>1, <3>1, AssignmentsTo
      <3> QED
        BY <3>2, <3>3, ScreenFields
    <2>2. CASE ~(w.y >= H)
      BY <1>1, <2>2, AsAssignments
    <2> QED
      BY <2>1, <2>2
  <1> HIDE DEF s
  <1>3. d = Screen(s.x, s.y, Pos(s), s.cells)
    BY <1>2, AsAssignments, AssignmentsTo
  <1>4. d.x = s.x /\ d.y = s.y /\ d.hw = Pos(s) /\ d.cells = s.cells
    BY <1>3, ScreenFields
  <1> HIDE DEF d
  <1>5. d.cells \in [Window -> S] /\ d.hw = Pos(d)
    BY <1>2, <1>4 DEF Pos
  <1> QED
    BY <1>5 DEF d, s, w

\* After a call of vga_putc the adapter's cursor is where the next character goes.
LEMMA PutcShows ==
  ASSUME NEW c, NEW S, Near(c), c.cells \in [Window -> S], Blank \in S,
         NEW ch \in S \union {NewLine, BackSpace}
  PROVE  Shows(vga_putc(c, ch), S) /\ vga_putc(c, ch).hw = Pos(vga_putc(c, ch))
  <1> DEFINE p == Put(c, ch)
  <1>1. IsScreen(c)
    BY DEF Near
  <1>2. IsScreen(p) /\ p.cells \in [Window -> S]
    BY <1>1, PutMoves, PutCells
  <1>3. vga_putc(c, ch) = update_cursor(Scroll(Wrap(p)))
    BY DEF vga_putc
  <1> HIDE DEF p
  <1> QED
    BY <1>1, <1>2, <1>3, PutcOnScreen, RepairCells DEF Shows

\* A step to the left touches neither the cells nor the adapter.
LEMMA StepBackKeeps ==
  ASSUME NEW c, IsScreen(c)
  PROVE  StepBack(c).cells = c.cells /\ StepBack(c).hw = c.hw
  <1>1. CASE c.x > 0
    <2>1. StepBack(c) = Screen(c.x - 1, c.y, c.hw, c.cells)
      BY <1>1, AsAssignments, AssignmentsTo
    <2> QED
      BY <2>1, ScreenFields
  <1>2. CASE ~(c.x > 0) /\ c.y > 0
    <2>1. StepBack(c) = Screen(c.x, W - 1, c.hw, c.cells)
      BY <1>2, AsAssignments, AssignmentsTo
    <2> QED
      BY <2>1, ScreenFields
  <1>3. CASE ~(c.x > 0) /\ ~(c.y > 0)
    BY <1>3, AsAssignments
  <1> QED
    BY <1>1, <1>2, <1>3

\* vga_clear blanks the screen and puts both cursors to its corner
\* (vga_buffer.c:50-57).
LEMMA Clears ==
  ASSUME NEW c, IsScreen(c)
  PROVE  LET d == vga_clear(c)
         IN  /\ IsScreen(d) /\ d.x = 0 /\ d.y = 0 /\ d.hw = 0
             /\ d.cells = [i \in Window |-> IF i < W * H THEN Blank ELSE c.cells[i]]
  <1> DEFINE new == [i \in Window |-> IF i < W * H THEN Blank ELSE c.cells[i]]
             d == [c EXCEPT !.cells = new, !.x = 0, !.y = 0]
             e == update_cursor(d)
  <1>1. PICK z : z = 0
    OBVIOUS
  <1>2. d = SetY(SetX(SetCells(c, new), z), z)
    BY <1>1 DEF SetY, SetX, SetCells
  <1> HIDE DEF new
  <1>3. SetCells(c, new) = Screen(c.x, c.y, c.hw, new)
    BY AssignmentsTo
  <1> HIDE DEF d
  <1>4. d = Screen(z, z, c.hw, new)
    <2>1. PICK x, y, hw : x = c.x /\ y = c.y /\ hw = c.hw
      OBVIOUS
    <2>2. SetCells(c, new) = Screen(x, y, hw, new)
      BY <1>3, <2>1
    <2>3. SetX(Screen(x, y, hw, new), z) = Screen(z, y, hw, new)
      BY DEF Screen, SetX
    <2>4. SetY(Screen(z, y, hw, new), z) = Screen(z, z, hw, new)
      BY DEF Screen, SetY
    <2> QED
      BY <1>2, <2>1, <2>2, <2>3, <2>4
  <1>5. IsScreen(d) /\ d.x = 0 /\ d.y = 0 /\ d.cells = new
    BY <1>1, <1>4, ScreenFields
  <1>6. e = Screen(d.x, d.y, Pos(d), d.cells)
    BY <1>5, AsAssignments, AssignmentsTo
  <1>7. /\ IsScreen(e) /\ e.x = 0 /\ e.y = 0 /\ e.hw = Pos(d) /\ e.cells = new
        /\ Pos(d) = 0
    BY <1>5, <1>6, ScreenFields, Sizes DEF Pos
  <1> HIDE DEF e
  <1> QED
    BY <1>7 DEF vga_clear, e, d, new

\* What vga_clear leaves is a screen again.
LEMMA ClearShows ==
  ASSUME NEW c, IsScreen(c), NEW S, c.cells \in [Window -> S], Blank \in S
  PROVE  Shows(vga_clear(c), S) /\ vga_clear(c).hw = Pos(vga_clear(c))
  <1> DEFINE new == [i \in Window |-> IF i < W * H THEN Blank ELSE c.cells[i]]
             e == vga_clear(c)
  <1>1. new \in [Window -> S]
    OBVIOUS
  <1>2. IsScreen(e) /\ e.x = 0 /\ e.y = 0 /\ e.hw = 0 /\ e.cells = new
    BY Clears
  <1> HIDE DEF new, e
  <1>3. Shows(e, S) /\ e.hw = Pos(e)
    BY <1>1, <1>2, Sizes DEF Shows, OnScreen, Near, Pos
  <1> QED
    BY <1>3 DEF e

\* vga_backspace between calls: the screen keeps the cursor, and the adapter the
\* position vga_putc told it (vga_buffer.c:25-48).
LEMMA BackspaceShows ==
  ASSUME NEW c, NEW S, Shows(c, S), Blank \in S
  PROVE  Shows(vga_backspace(c), S) /\ vga_backspace(c).hw \in Window
  <1> DEFINE b == StepBack(c)
             p == vga_putc(b, Blank)
             d == StepBack(p)
  <1>1. Near(c) /\ IsScreen(c) /\ c.x < W /\ c.cells \in [Window -> S]
    BY DEF Shows, OnScreen, Near
  <1>2. Near(b) /\ b.cells \in [Window -> S]
    BY <1>1, StepBackMoves, StepBackKeeps
  <1> HIDE DEF b
  <1>3. Shows(p, S) /\ p.hw = Pos(p)
    BY <1>2, PutcShows
  <1> HIDE DEF p
  <1>4. d.cells = p.cells /\ d.hw = p.hw /\ p.hw \in Window
    BY <1>3, StepBackKeeps, PositionBounds, Sizes DEF Shows, OnScreen, Near, Pos
  <1>5. vga_backspace(c) = d
    BY DEF vga_backspace, d, p, b
  <1> HIDE DEF d
  <1>6. OnScreen(d)
    BY <1>1, <1>5, BackspaceNear DEF OnScreen
  <1> QED
    BY <1>3, <1>4, <1>5, <1>6 DEF Shows

\* What is printed: the prompt's characters and the blank besides the user's.
Font == Chars \union {Gt, Blank}

\* The inductive invariant of Terminal.
Paged ==
    /\ Shows(screen, Font) /\ screen.hw \in Window
    /\ line \in Seq(Chars) /\ mode \in {"output", "edit"}

\* A call of vga_putc keeps it and moves the adapter's cursor along.
LEMMA PutcPaged ==
  ASSUME NEW c, Shows(c, Font), NEW ch \in Font \union {NewLine, BackSpace}
  PROVE  LET d == vga_putc(c, ch)
         IN  Shows(d, Font) /\ d.hw = Pos(d) /\ d.hw \in Window
  <1> DEFINE d == vga_putc(c, ch)
  <1>1. Near(c) /\ c.cells \in [Window -> Font] /\ Blank \in Font
    BY DEF Shows, OnScreen, Font
  <1>2. Shows(d, Font) /\ d.hw = Pos(d)
    BY <1>1, PutcShows
  <1> HIDE DEF d
  <1>3. d.hw \in Window
    BY <1>2, PositionBounds, Sizes DEF Shows, OnScreen, Near, Pos
  <1> QED
    BY <1>2, <1>3 DEF d

\* The screen is cleared at the start, and the adapter's cursor in its corner.
LEMMA ClearedTold == Shows(Cleared, Font) /\ Cleared.hw = Pos(Cleared)
  <1> DEFINE c == [x |-> 0, y |-> 0, hw |-> 0, cells |-> [i \in Window |-> Blank]]
  <1>1. Cleared = vga_clear(c)
    BY DEF Cleared, Window, Window, c
  <1>2. PICK z : z = 0
    OBVIOUS
  <1>3. c = Screen(z, z, z, c.cells)
    BY <1>2 DEF Screen
  <1>4. c.cells \in [Window -> Font]
    BY DEF Font
  <1> HIDE DEF c
  <1>5. IsScreen(c)
    BY <1>3, ScreenFields
  <1> QED
    BY <1>1, <1>4, <1>5, ClearShows DEF Font

\* The inductive invariant holds at the start.
LEMMA TerminalStart == TerminalInit => Paged
  <1> SUFFICES ASSUME TerminalInit PROVE Paged
    OBVIOUS
  <1>1. Shows(screen, Font) /\ screen.hw = Pos(screen)
    BY ClearedTold DEF TerminalInit
  <1>2. screen.hw \in Window
    BY <1>1, PositionBounds, Sizes DEF Shows, OnScreen, Near, Pos
  <1> QED
    BY <1>1, <1>2 DEF Paged, TerminalInit

\* A call of the driver, from the main loop or from the keyboard handler, keeps the
\* invariant; all but an erased key tell the adapter where the cursor is.
LEMMA TerminalStep ==
  ASSUME Paged, TerminalNext
  PROVE  Paged' /\ (~ KeyBackspace => screen'.hw = Pos(screen'))
  <1>1. Shows(screen, Font) /\ line \in Seq(Chars) /\ mode \in {"output", "edit"}
    BY DEF Paged
  <1>2. ASSUME NEW c \in Chars \union {NewLine, BackSpace}, Output(c)
        PROVE  Paged' /\ screen'.hw = Pos(screen')
    <2>1. screen' = vga_putc(screen, c) /\ line' = line /\ mode' = mode
      BY <1>2 DEF Output
    <2>2. Shows(screen', Font) /\ screen'.hw = Pos(screen') /\ screen'.hw \in Window
      BY <1>1, <2>1, PutcPaged DEF Font
    <2> QED
      BY <1>1, <2>1, <2>2 DEF Paged, Shows, OnScreen, Near, IsScreen
  <1>3. CASE Clear
    <2>1. screen' = vga_clear(screen) /\ line' = line /\ mode' = mode
      BY <1>3 DEF Clear
    <2>2. Shows(screen', Font) /\ screen'.hw = Pos(screen')
      BY <1>1, <2>1, ClearShows DEF Shows, OnScreen, Near, Font
    <2>3. screen'.hw \in Window
      BY <2>2, PositionBounds, Sizes DEF Shows, OnScreen, Near, Pos
    <2> QED
      BY <1>1, <2>1, <2>2, <2>3 DEF Paged, Shows, OnScreen, Near, IsScreen
  <1>4. CASE Prompt
    <2> DEFINE a == vga_putc(screen, NewLine)
               b == vga_putc(a, Gt)
               c == vga_putc(b, Blank)
    <2>1. screen' = c /\ line' = <<>> /\ mode' = "edit"
      BY <1>4 DEF Prompt, vga_puts, prompt
    <2>2. Shows(a, Font)
      BY <1>1, PutcPaged
    <2> HIDE DEF a
    <2>3. Shows(b, Font)
      BY <2>2, PutcPaged DEF Font
    <2> HIDE DEF b
    <2>4. Shows(c, Font) /\ c.hw = Pos(c) /\ c.hw \in Window
      BY <2>3, PutcPaged DEF Font
    <2> HIDE DEF c
    <2> QED
      BY <2>1, <2>4 DEF Paged, Shows, OnScreen, Near, IsScreen
  <1>5. ASSUME NEW c \in Chars, KeyChar(c)
        PROVE  Paged' /\ screen'.hw = Pos(screen')
    <2>1. screen' = vga_putc(screen, c) /\ line' = Append(line, c) /\ mode' = mode
      BY <1>5 DEF KeyChar
    <2>2. Shows(screen', Font) /\ screen'.hw = Pos(screen') /\ screen'.hw \in Window
      BY <1>1, <2>1, PutcPaged DEF Font
    <2> QED
      BY <1>1, <2>1, <2>2 DEF Paged, Shows, OnScreen, Near, IsScreen
  <1>6. CASE KeyBackspace
    <2>1. screen' = vga_backspace(screen) /\ line' = SubSeq(line, 1, Len(line) - 1) /\ mode' = mode
          /\ line # <<>>
      BY <1>6 DEF KeyBackspace, Front
    <2>2. Shows(screen', Font) /\ screen'.hw \in Window
      BY <1>1, <2>1, BackspaceShows DEF Font
    <2>3. line' \in Seq(Chars)
      BY <1>1, <2>1
    <2> QED
      BY <1>1, <1>6, <2>1, <2>2, <2>3 DEF Paged, Shows, OnScreen, Near, IsScreen
  <1>7. CASE KeyEnter
    <2>1. screen' = vga_putc(screen, NewLine) /\ line' = line /\ mode' = "output"
      BY <1>7 DEF KeyEnter
    <2>2. Shows(screen', Font) /\ screen'.hw = Pos(screen') /\ screen'.hw \in Window
      BY <1>1, <2>1, PutcPaged
    <2> QED
      BY <1>1, <2>1, <2>2 DEF Paged, Shows, OnScreen, Near, IsScreen
  <1> QED
    BY <1>2, <1>3, <1>4, <1>5, <1>6, <1>7 DEF TerminalNext

\* Whatever is printed, erased and cleared, every step keeps the invariant.
LEMMA TerminalInvariant == TerminalSpec => []Paged
  <1>1. Paged /\ UNCHANGED terminalVars => Paged'
    BY DEF terminalVars, Paged, Shows, OnScreen, Near, IsScreen
  <1> QED
    BY <1>1, TerminalStart, TerminalStep, PTL DEF TerminalSpec

\* Between calls the cursor is on the screen, also after an erasure that meets the
\* first column (vga_buffer.c:31, 43), and only printed characters are shown.
THEOREM TerminalTyped == TerminalSpec => []TerminalTypeOK
  <1>1. Paged => TerminalTypeOK
    BY Sizes DEF Paged, Shows, OnScreen, Near, Font, Window, TerminalTypeOK, Window
  <1> QED
    BY <1>1, TerminalInvariant, PTL

-----------------------------------------------------------------------------
(* The roll of paper *)

\* The cells of two places differ.
LEMMA CellsApart ==
  ASSUME NEW j \in Nat, NEW k \in 0 .. W - 1, NEW y \in Nat, NEW x \in 0 .. W - 1,
         j * W + k = y * W + x
  PROVE  j = y /\ k = x
  <1>1. W \in Nat /\ j * W \in Nat /\ y * W \in Nat
    BY Sizes
  <1>2. ASSUME j < y PROVE FALSE
    <2>1. (j + 1) * W <= y * W
      BY <1>2, Sizes
    <2>2. (j + 1) * W = j * W + W
      BY Sizes
    <2> QED
      BY <1>1, <2>1, <2>2
  <1>3. ASSUME y < j PROVE FALSE
    <2>1. (y + 1) * W <= j * W
      BY <1>3, Sizes
    <2>2. (y + 1) * W = y * W + W
      BY Sizes
    <2> QED
      BY <1>1, <2>1, <2>2
  <1>4. j = y
    BY <1>2, <1>3
  <1> QED
    BY <1>1, <1>4

\* A row in the place of the last one.
LEMMA Rewritten ==
  ASSUME NEW S, NEW rows \in Seq(S), rows # <<>>, NEW row \in S
  PROVE  LET new == Rewrite(rows, row)
         IN  /\ new \in Seq(S) /\ Len(new) = Len(rows) /\ new # <<>>
             /\ Last(new) = row
             /\ \A i \in 1 .. Len(rows) : new[i] = IF i = Len(rows) THEN row ELSE rows[i]
  BY DEF Rewrite, Last

\* What a row shows at column k, and what no row shows.
InRow(row, k) == IF k < Len(row) THEN row[k + 1] ELSE Blank

LEMMA CharAtRow ==
  ASSUME NEW rows \in Seq(Seq(Font)), NEW j \in Nat, NEW k \in Nat
  PROVE  CharAt(rows, j, k) = IF j < Len(rows) THEN InRow(rows[j + 1], k) ELSE Blank
  <1>1. DOMAIN rows = 1 .. Len(rows) /\ Len(rows) \in Nat
    OBVIOUS
  <1>2. CASE j < Len(rows)
    <2>1. rows[j + 1] \in Seq(Font)
      BY <1>2
    <2> QED
      BY <1>1, <1>2, <2>1 DEF CharAt, InRow
  <1>3. CASE ~(j < Len(rows))
    BY <1>1, <1>3 DEF CharAt
  <1> QED
    BY <1>2, <1>3

\* A new row shows nothing yet.
LEMMA CharAtFresh ==
  ASSUME NEW rows \in Seq(Seq(Font)), NEW j \in Nat, NEW k \in Nat
  PROVE  CharAt(Append(rows, <<>>), j, k) = CharAt(rows, j, k)
  <1> DEFINE new == Append(rows, <<>>)
             n == Len(rows)
  <1> SUFFICES CharAt(new, j, k) = CharAt(rows, j, k)
    OBVIOUS
  <1>1. /\ new \in Seq(Seq(Font)) /\ Len(new) = n + 1 /\ n \in Nat /\ new[n + 1] = <<>>
        /\ \A i \in 1 .. n : new[i] = rows[i]
    OBVIOUS
  <1> HIDE DEF new
  <1>2. CharAt(new, j, k) = IF j < n + 1 THEN InRow(new[j + 1], k) ELSE Blank
    BY <1>1, CharAtRow
  <1>3. CharAt(rows, j, k) = IF j < n THEN InRow(rows[j + 1], k) ELSE Blank
    BY CharAtRow
  <1> HIDE DEF n
  <1>4. j < n => new[j + 1] = rows[j + 1]
    BY <1>1
  <1>5. j = n => InRow(new[j + 1], k) = Blank
    BY <1>1 DEF InRow
  <1>6. n \in Nat
    BY <1>1
  <1> QED
    BY <1>2, <1>3, <1>4, <1>5, <1>6

\* A rewritten row changes what it shows and no other.
LEMMA CharAtRewritten ==
  ASSUME NEW rows \in Seq(Seq(Font)), rows # <<>>, NEW row \in Seq(Font),
         NEW j \in Nat, NEW k \in Nat
  PROVE  CharAt(Rewrite(rows, row), j, k) =
            IF j = Len(rows) - 1 THEN InRow(row, k) ELSE CharAt(rows, j, k)
  <1> DEFINE new == Rewrite(rows, row)
  <1>1. /\ new \in Seq(Seq(Font)) /\ Len(new) = Len(rows) /\ Len(rows) \in Nat
        /\ \A i \in 1 .. Len(rows) : new[i] = IF i = Len(rows) THEN row ELSE rows[i]
    BY Rewritten
  <1> HIDE DEF new
  <1>2. CharAt(new, j, k) = IF j < Len(rows) THEN InRow(new[j + 1], k) ELSE Blank
    BY <1>1, CharAtRow
  <1>3. CharAt(rows, j, k) = IF j < Len(rows) THEN InRow(rows[j + 1], k) ELSE Blank
    BY CharAtRow
  <1>4. CASE j < Len(rows)
    <2>1. j + 1 \in 1 .. Len(rows)
      BY <1>1, <1>4
    <2>2. new[j + 1] = IF j + 1 = Len(rows) THEN row ELSE rows[j + 1]
      BY <1>1, <2>1
    <2> QED
      BY <1>1, <1>2, <1>3, <1>4, <2>2 DEF new
  <1>5. CASE ~(j < Len(rows))
    BY <1>1, <1>2, <1>3, <1>5 DEF new
  <1> QED
    BY <1>4, <1>5
\* The screen shows the paper from row g on, with the cursor behind its end.  The
\* cursor may be a column or a row too far, as between the parts of vga_putc.
Rolls(c, rows, g) ==
    /\ rows \in Seq(Seq(Font)) /\ rows # <<>> /\ g \in Nat
    /\ c.y \in Nat /\ c.y = Len(rows) - 1 - g
    /\ c.x = Len(Last(rows))
    /\ \A j \in 0 .. H - 1, k \in 0 .. W - 1 : c.cells[j * W + k] = CharAt(rows, g + j, k)

\* A new line begins a row (vga_buffer.c:79-82).
LEMMA RollsNewLine ==
  ASSUME NEW c, IsScreen(c), NEW rows, NEW g, Rolls(c, rows, g), NEW d,
         d = Screen(0, c.y + 1, c.hw, c.cells)
  PROVE  Rolls(d, Append(rows, <<>>), g)
  <1> DEFINE new == Append(rows, <<>>)
  <1>1. d.x = 0 /\ d.y = c.y + 1 /\ d.cells = c.cells
    BY ScreenFields
  <1>2. rows \in Seq(Seq(Font)) /\ g \in Nat /\ c.y \in Nat /\ c.y = Len(rows) - 1 - g
    BY DEF Rolls
  <1>3. new \in Seq(Seq(Font)) /\ new # <<>> /\ Len(new) = Len(rows) + 1 /\ Last(new) = <<>>
    BY <1>2, SMTT(30) DEF Last
  <1>4. ASSUME NEW j \in 0 .. H - 1, NEW k \in 0 .. W - 1
        PROVE  d.cells[j * W + k] = CharAt(new, g + j, k)
    <2>1. g + j \in Nat /\ k \in Nat
      BY <1>2
    <2>2. CharAt(new, g + j, k) = CharAt(rows, g + j, k)
      BY <1>2, <2>1, CharAtFresh
    <2> QED
      BY <1>1, <2>2 DEF Rolls
  <1> HIDE DEF new
  <1>5. d.y \in Nat /\ d.y = Len(new) - 1 - g /\ d.x = Len(Last(new))
    BY <1>1, <1>2, <1>3
  <1>6. Rolls(d, new, g)
    BY <1>2, <1>3, <1>4, <1>5 DEF Rolls
  <1> QED
    BY <1>6 DEF new

\* A character goes behind the last one (vga_buffer.c:94-97).
LEMMA RollsChar ==
  ASSUME NEW c, IsScreen(c), c.x < W, c.y < H, c.cells \in [Window -> Font],
         NEW rows, NEW g, Rolls(c, rows, g), NEW ch \in Font, NEW d,
         d = Screen(c.x + 1, c.y, c.hw, [c.cells EXCEPT ![Pos(c)] = ch])
  PROVE  Rolls(d, Rewrite(rows, Append(Last(rows), ch)), g)
  <1> DEFINE row == Append(Last(rows), ch)
             new == Rewrite(rows, row)
             cells == [c.cells EXCEPT ![Pos(c)] = ch]
  <1>1. d.x = c.x + 1 /\ d.y = c.y /\ d.cells = cells
    BY ScreenFields
  <1>2. /\ rows \in Seq(Seq(Font)) /\ rows # <<>> /\ g \in Nat
        /\ c.y \in Nat /\ c.y = Len(rows) - 1 - g /\ c.x = Len(Last(rows))
        /\ Last(rows) \in Seq(Font) /\ Len(rows) \in Nat
    BY DEF Rolls, Last
  <1>3. /\ row \in Seq(Font) /\ Len(row) = c.x + 1 /\ c.x \in Nat /\ row[c.x + 1] = ch
        /\ \A i \in 1 .. c.x : row[i] = Last(rows)[i]
    BY <1>2
  <1> HIDE DEF row
  <1>4. new \in Seq(Seq(Font)) /\ Len(new) = Len(rows) /\ new # <<>> /\ Last(new) = row
    BY <1>2, <1>3, Rewritten
  <1>5. ASSUME NEW j \in 0 .. H - 1, NEW k \in 0 .. W - 1
        PROVE  cells[j * W + k] = CharAt(new, g + j, k)
    <2>1. g + j \in Nat /\ k \in Nat /\ j \in Nat /\ j < H /\ k < W
      BY <1>2, Sizes
    <2>2. CharAt(new, g + j, k) = IF g + j = Len(rows) - 1 THEN InRow(row, k)
                                  ELSE CharAt(rows, g + j, k)
      BY <1>2, <1>3, <2>1, CharAtRewritten, SMTT(30)
    <2>3. c.cells[j * W + k] = CharAt(rows, g + j, k)
      BY DEF Rolls
    <2>4. j * W + k \in Window /\ Pos(c) \in Window
      <3>1. j \in 0 .. W /\ k \in 0 .. W /\ c.y \in 0 .. W /\ c.x \in 0 .. W
        BY <1>2, <1>3, <2>1, Sizes
      <3> QED
        BY <3>1, PositionBounds DEF Pos
    <2>5. g + j = Len(rows) - 1 <=> j = c.y
      BY <1>2, <2>1
    <2>6. CASE j = c.y /\ k = c.x
      <3>1. cells[j * W + k] = ch
        BY <2>4, <2>6 DEF Pos
      <3>2. InRow(row, k) = ch
        BY <1>3, <2>6 DEF InRow
      <3> QED
        BY <2>2, <2>5, <2>6, <3>1, <3>2
    <2>7. CASE ~(j = c.y /\ k = c.x)
      <3>1. j * W + k # Pos(c)
        <4>1. c.x \in 0 .. W - 1 /\ c.y \in Nat
          BY <1>2, <1>3, Sizes
        <4> QED
          BY <2>1, <2>7, <4>1, CellsApart DEF Pos
      <3>2. cells[j * W + k] = c.cells[j * W + k]
        BY <2>4, <3>1
      <3>3. j = c.y => InRow(row, k) = CharAt(rows, g + j, k)
        <4> SUFFICES ASSUME j = c.y PROVE InRow(row, k) = CharAt(rows, g + j, k)
          OBVIOUS
        <4>1. CharAt(rows, g + j, k) = InRow(Last(rows), k)
          <5>1. g + j < Len(rows) /\ g + j + 1 = Len(rows)
            BY <1>2, <2>1
          <5> QED
            BY <1>2, <2>1, <5>1, CharAtRow DEF Last
        <4>2. k < c.x \/ k > c.x
          BY <1>3, <2>1, <2>7
        <4>3. CASE k < c.x
          <5>1. k + 1 \in 1 .. c.x /\ k < c.x + 1
            BY <1>3, <2>1, <4>3
          <5>2. row[k + 1] = Last(rows)[k + 1]
            BY <1>3, <5>1
          <5>3. k < Len(row) /\ k < Len(Last(rows))
            BY <1>2, <1>3, <4>3, <5>1
          <5> QED
            BY <4>1, <5>2, <5>3 DEF InRow
        <4>4. CASE k > c.x
          <5>1. ~(k < Len(row)) /\ ~(k < Len(Last(rows)))
            BY <1>2, <1>3, <2>1, <4>4
          <5> QED
            BY <4>1, <5>1 DEF InRow
        <4> QED
          BY <4>2, <4>3, <4>4
      <3> QED
        BY <2>2, <2>3, <2>5, <3>2, <3>3
    <2> QED
      BY <2>6, <2>7
  <1> HIDE DEF new, cells
  <1>6. d.y \in Nat /\ d.y = Len(new) - 1 - g /\ d.x = Len(Last(new))
    BY <1>1, <1>2, <1>3, <1>4
  <1>7. Rolls(d, new, g)
    BY <1>1, <1>2, <1>4, <1>5, <1>6 DEF Rolls
  <1> QED
    BY <1>7 DEF new, row

\* A row without its last character.
LEMMA Shortened ==
  ASSUME NEW S, NEW s \in Seq(S), s # <<>>
  PROVE  /\ Front(s) \in Seq(S) /\ Len(Front(s)) = Len(s) - 1
         /\ \A i \in 1 .. Len(s) - 1 : Front(s)[i] = s[i]
  <1>1. Len(s) \in Nat /\ Len(s) >= 1
    OBVIOUS
  <1>2. Front(s) = [i \in 1 .. Len(s) - 1 |-> s[i]]
    BY <1>1 DEF Front
  <1>3. \A i \in 1 .. Len(s) - 1 : s[i] \in S
    BY <1>1
  <1>4. Front(s) \in Seq(S) /\ Len(Front(s)) = Len(s) - 1
    BY <1>1, <1>2, <1>3
  <1> QED
    BY <1>2, <1>4

\* An erased character leaves a blank (vga_buffer.c:25-48, 87-92).
LEMMA RollsErase ==
  ASSUME NEW c, IsScreen(c), c.x > 0, c.x < W, c.y < H, c.cells \in [Window -> Font],
         NEW rows, NEW g, Rolls(c, rows, g), NEW hw, NEW d,
         d = Screen(c.x - 1, c.y, hw, [c.cells EXCEPT ![Pos(c) - 1] = Blank])
  PROVE  Rolls(d, EraseOn(rows), g)
  <1> DEFINE row == Front(Last(rows))
             new == Rewrite(rows, row)
             cells == [c.cells EXCEPT ![Pos(c) - 1] = Blank]
  <1>1. d.x = c.x - 1 /\ d.y = c.y /\ d.cells = cells
    BY ScreenFields
  <1>2. /\ rows \in Seq(Seq(Font)) /\ rows # <<>> /\ g \in Nat
        /\ c.y \in Nat /\ c.y = Len(rows) - 1 - g /\ c.x = Len(Last(rows))
        /\ Last(rows) \in Seq(Font) /\ Len(rows) \in Nat
    BY DEF Rolls, Last
  <1>3. /\ row \in Seq(Font) /\ Len(row) = c.x - 1 /\ c.x \in Nat
        /\ \A i \in 1 .. c.x - 1 : row[i] = Last(rows)[i]
    <2>1. Last(rows) # <<>>
      BY <1>2
    <2> QED
      BY <1>2, <2>1, Shortened
  <1>4. EraseOn(rows) = new
    BY <1>2, <1>3 DEF EraseOn
  <1> HIDE DEF row
  <1>5. new \in Seq(Seq(Font)) /\ Len(new) = Len(rows) /\ new # <<>> /\ Last(new) = row
    BY <1>2, <1>3, Rewritten
  <1>6. ASSUME NEW j \in 0 .. H - 1, NEW k \in 0 .. W - 1
        PROVE  cells[j * W + k] = CharAt(new, g + j, k)
    <2>1. g + j \in Nat /\ k \in Nat /\ j \in Nat /\ j < H /\ k < W
      BY <1>2, Sizes
    <2>2. CharAt(new, g + j, k) = IF g + j = Len(rows) - 1 THEN InRow(row, k)
                                  ELSE CharAt(rows, g + j, k)
      <3>1. rows \in Seq(Seq(Font)) /\ rows # <<>> /\ row \in Seq(Font)
        BY <1>2, <1>3
      <3> QED
        BY <2>1, <3>1, CharAtRewritten
    <2>3. c.cells[j * W + k] = CharAt(rows, g + j, k)
      BY DEF Rolls
    <2> DEFINE x == c.x - 1
    <2>4. x \in 0 .. W - 1 /\ Pos(c) - 1 = c.y * W + x
      BY <1>2, <1>3, Sizes DEF Pos
    <2>5. j * W + k \in Window /\ Pos(c) - 1 \in Window
      <3>1. j \in 0 .. W /\ k \in 0 .. W /\ c.y \in 0 .. W /\ x \in 0 .. W
        BY <1>2, <2>1, <2>4, Sizes
      <3> HIDE DEF x
      <3> QED
        BY <2>4, <3>1, PositionBounds
    <2>6. g + j = Len(rows) - 1 <=> j = c.y
      <3>1. c.y = Len(rows) - 1 - g /\ g \in Nat /\ Len(rows) \in Nat
        BY <1>2
      <3> QED
        BY <2>1, <3>1
    <2>7. CASE j = c.y /\ k = x
      <3>1. cells[j * W + k] = Blank
        BY <2>4, <2>5, <2>7
      <3>2. InRow(row, k) = Blank
        BY <1>3, <2>7 DEF InRow
      <3> QED
        BY <2>2, <2>6, <2>7, <3>1, <3>2
    <2>8. CASE ~(j = c.y /\ k = x)
      <3>1. j * W + k # Pos(c) - 1
        BY <1>2, <2>1, <2>4, <2>8, CellsApart
      <3>2. cells[j * W + k] = c.cells[j * W + k]
        BY <2>5, <3>1
      <3>3. j = c.y => InRow(row, k) = CharAt(rows, g + j, k)
        <4> SUFFICES ASSUME j = c.y PROVE InRow(row, k) = CharAt(rows, g + j, k)
          OBVIOUS
        <4>1. CharAt(rows, g + j, k) = InRow(Last(rows), k)
          <5>1. g + j < Len(rows) /\ g + j + 1 = Len(rows)
            BY <1>2, <2>1
          <5> QED
            BY <1>2, <2>1, <5>1, CharAtRow DEF Last
        <4>2. k < x \/ k > x
          BY <2>1, <2>4, <2>8
        <4>3. CASE k < x
          <5>1. k + 1 \in 1 .. c.x - 1 /\ k < c.x - 1 /\ k < c.x
            BY <1>3, <2>1, <4>3
          <5>2. row[k + 1] = Last(rows)[k + 1] /\ k < Len(row) /\ k < Len(Last(rows))
            BY <1>2, <1>3, <5>1
          <5> QED
            BY <4>1, <5>2 DEF InRow
        <4>4. CASE k > x
          <5>1. ~(k < Len(row)) /\ ~(k < Len(Last(rows)))
            BY <1>2, <1>3, <2>1, <4>4
          <5> QED
            BY <4>1, <5>1 DEF InRow
        <4> QED
          BY <4>2, <4>3, <4>4
      <3> QED
        BY <2>2, <2>3, <2>6, <3>2, <3>3
    <2> QED
      BY <2>7, <2>8
  <1> HIDE DEF new, cells
  <1>7. d.y \in Nat /\ d.y = Len(new) - 1 - g /\ d.x = Len(Last(new))
    BY <1>1, <1>2, <1>3, <1>5
  <1>8. Rolls(d, new, g)
    BY <1>1, <1>2, <1>5, <1>6, <1>7 DEF Rolls
  <1> QED
    BY <1>4, <1>8

\* A full row is followed by a new one (vga_buffer.c:101-104).
LEMMA RollsWrap ==
  ASSUME NEW c, IsScreen(c), NEW rows, NEW g, Rolls(c, rows, g), c.x <= W
  PROVE  LET d == Wrap(c)
             new == IF c.x < W THEN rows ELSE Append(rows, <<>>)
         IN  /\ IsScreen(d) /\ Rolls(d, new, g) /\ d.cells = c.cells
             /\ c.x < W => d = c
             /\ c.x = W => d.x = 0 /\ d.y = c.y + 1
  <1>1. c.x \in Nat
    BY DEF Rolls, Last
  <1>2. CASE c.x < W
    <2>1. Wrap(c) = c
      BY <1>1, <1>2, AsAssignments, Sizes
    <2> QED
      BY <1>2, <2>1, Sizes
  <1>3. CASE c.x = W
    <2> DEFINE d == Wrap(c)
    <2>1. d = Screen(0, c.y + 1, c.hw, c.cells)
      BY <1>3, AsAssignments, AssignmentsTo, Sizes
    <2>2. IsScreen(d) /\ d.x = 0 /\ d.y = c.y + 1 /\ d.cells = c.cells
      BY <2>1, ScreenFields
    <2> HIDE DEF d
    <2>3. Rolls(d, Append(rows, <<>>), g)
      BY <2>1, RollsNewLine
    <2> QED
      BY <1>3, <2>2, <2>3, Sizes DEF d
  <1> QED
    BY <1>1, <1>2, <1>3, Sizes

\* When the cursor is on the row below the last one, the first row goes and the
\* last is blank, as the new row of the paper is (vga_buffer.c:60-75, 106-109).
LEMMA RollsScroll ==
  ASSUME NEW c, IsScreen(c), c.y <= H, c.y = H => c.x = 0, c.cells \in [Window -> Font],
         NEW rows, NEW g, Rolls(c, rows, g)
  PROVE  LET d == Scroll(c)
         IN  /\ IsScreen(d) /\ d.x = c.x
             /\ c.y < H => d = c
             /\ c.y = H => d.y = H - 1 /\ Rolls(d, rows, g + 1)
  <1>1. /\ rows \in Seq(Seq(Font)) /\ rows # <<>> /\ g \in Nat /\ Len(rows) \in Nat
        /\ c.y \in Nat /\ c.y = Len(rows) - 1 - g /\ c.x = Len(Last(rows))
    BY DEF Rolls
  <1>2. CASE c.y < H
    <2>1. Scroll(c) = c
      BY <1>1, <1>2, Sizes DEF Scroll
    <2> QED
      BY <1>2, <2>1, Sizes
  <1>3. CASE c.y = H
    <2> DEFINE d == Scroll(c)
               new == [i \in Window |-> IF i < W * (H - 1) THEN c.cells[i + W]
                                        ELSE IF i < W * H THEN Blank ELSE c.cells[i]]
    <2>1. d = SetYCells(c, H - 1, new)
      BY <1>3, Sizes DEF Scroll, vga_scroll, SetYCells
    <2>2. IsScreen(d) /\ d.x = c.x /\ d.y = H - 1 /\ d.cells = new
      <3> HIDE DEF new
      <3>1. d = Screen(c.x, H - 1, c.hw, new)
        BY <2>1, AssignmentsTo
      <3> QED
        BY <3>1, ScreenFields
    <2>3. ASSUME NEW j \in 0 .. H - 1, NEW k \in 0 .. W - 1
          PROVE  new[j * W + k] = CharAt(rows, g + 1 + j, k)
      <3>1. j \in Nat /\ k \in Nat /\ j < H /\ k < W /\ g + 1 + j \in Nat
        BY <1>1, Sizes
      <3>2. j * W + k \in Window /\ j * W + k \in Nat /\ j * W + k < W * H
        <4>1. j \in 0 .. W /\ k \in 0 .. W
          BY <3>1, Sizes
        <4> QED
          BY <3>1, <4>1, PositionBounds
      <3>3. CASE j = H - 1
        <4>1. W * (H - 1) \in Nat /\ j * W = W * (H - 1)
          BY <3>3, Sizes
        <4>2. new[j * W + k] = Blank
          BY <3>1, <3>2, <4>1
        <4>3. g + 1 + j = Len(rows) - 1
          BY <1>1, <1>3, <3>3, Sizes
        <4>4. CharAt(rows, g + 1 + j, k) = InRow(Last(rows), k)
          <5>1. g + 1 + j < Len(rows) /\ g + 1 + j + 1 = Len(rows)
            BY <1>1, <3>1, <4>3
          <5> QED
            BY <1>1, <3>1, <5>1, CharAtRow DEF Last
        <4>5. InRow(Last(rows), k) = Blank
          BY <1>1, <1>3, <3>1 DEF InRow
        <4> QED
          BY <4>2, <4>4, <4>5
      <3>4. CASE j < H - 1
        <4>1. j + 1 \in 0 .. H - 1 /\ j + 1 \in 0 .. H - 2 + 1
          BY <3>1, <3>4, Sizes
        <4>2. (j + 1) * W + k = j * W + k + W /\ j * W + k < W * (H - 1)
          <5>1. (j + 1) * W = j * W + W /\ j * W \in Nat
            BY <3>1, Sizes
          <5>2. (j + 1) * W <= (H - 1) * W /\ (H - 1) * W = W * (H - 1) /\ W * (H - 1) \in Nat
            BY <3>1, <3>4, Sizes
          <5> QED
            BY <3>1, <5>1, <5>2, Sizes
        <4>3. new[j * W + k] = c.cells[j * W + k + W]
          BY <3>2, <4>2
        <4>4. c.cells[(j + 1) * W + k] = CharAt(rows, g + (j + 1), k)
          BY <4>1 DEF Rolls
        <4>5. g + (j + 1) = g + 1 + j
          BY <1>1, <3>1
        <4> QED
          BY <4>2, <4>3, <4>4, <4>5
      <3> QED
        BY <3>1, <3>3, <3>4, Sizes
    <2> HIDE DEF d, new
    <2>4. d.y \in Nat /\ d.y = Len(rows) - 1 - (g + 1) /\ g + 1 \in Nat
      BY <1>1, <1>3, <2>2, Sizes
    <2>5. Rolls(d, rows, g + 1)
      BY <1>1, <2>2, <2>3, <2>4 DEF Rolls
    <2> QED
      BY <1>3, <2>2, <2>5, Sizes DEF d
  <1> QED
    BY <1>1, <1>2, <1>3, Sizes

\* Nothing has left the screen unless the cursor is on its last row.
Tidy(c, rows) == \E g \in Nat : Rolls(c, rows, g) /\ (g = 0 \/ c.y = H - 1)

\* The tests of vga_putc and the report to the adapter after a step that leaves the
\* cursor a column or a row too far (vga_buffer.c:101-111).
LEMMA RepairTidy ==
  ASSUME NEW c, IsScreen(c), c.cells \in [Window -> Font], NEW rows, NEW g, Rolls(c, rows, g),
         c.x <= W, c.y <= H, c.y = H => c.x = 0, c.x = W => c.y < H,
         g = 0 \/ c.y >= H - 1
  PROVE  LET d == update_cursor(Scroll(Wrap(c)))
         IN  Tidy(d, IF c.x < W THEN rows ELSE Append(rows, <<>>))
  <1> DEFINE new == IF c.x < W THEN rows ELSE Append(rows, <<>>)
             w == Wrap(c)
             s == Scroll(w)
             d == update_cursor(s)
  <1>1. c.x \in Nat /\ c.y \in Nat /\ g \in Nat
    BY DEF Rolls, Last
  <1>2. /\ IsScreen(w) /\ Rolls(w, new, g) /\ w.cells \in [Window -> Font]
        /\ c.x < W => w.x = c.x /\ w.y = c.y
        /\ c.x = W => w.x = 0 /\ w.y = c.y + 1
    BY RollsWrap
  <1> HIDE DEF w, new
  <1>3. w.y \in Nat /\ w.y <= H /\ (w.y = H => w.x = 0) /\ (g = 0 \/ w.y >= H - 1)
    BY <1>1, <1>2, Sizes
  <1>4. /\ IsScreen(s) /\ s.x = w.x
        /\ w.y < H => s = w
        /\ w.y = H => s.y = H - 1 /\ Rolls(s, new, g + 1)
    BY <1>2, <1>3, RollsScroll
  <1> HIDE DEF s
  <1>5. PICK h \in Nat : Rolls(s, new, h) /\ (h = 0 \/ s.y = H - 1)
    <2>1. CASE w.y < H
      <3>1. Rolls(s, new, g) /\ (g = 0 \/ s.y = H - 1)
        BY <1>1, <1>2, <1>3, <1>4, <2>1, Sizes
      <3> QED
        BY <1>1, <3>1
    <2>2. CASE w.y = H
      BY <1>1, <1>4, <2>2
    <2> QED
      BY <1>3, <2>1, <2>2, Sizes
  <1>6. d = Screen(s.x, s.y, Pos(s), s.cells)
    BY <1>4, AsAssignments, AssignmentsTo, ZenonT(60)
  <1>7. d.x = s.x /\ d.y = s.y /\ d.cells = s.cells
    BY <1>6, ScreenFields
  <1> HIDE DEF d
  <1>8. Rolls(d, new, h) /\ (h = 0 \/ d.y = H - 1)
    BY <1>5, <1>7 DEF Rolls
  <1>9. Tidy(d, new)
    BY <1>8 DEF Tidy
  <1> QED
    BY <1>9 DEF d, s, w, new
\* What is shown is neither a new line nor a backspace.
LEMMA FontShown == \A ch \in Font : ch \notin {NewLine, BackSpace}
  BY ConsoleAssumption, TerminalAssumption DEF Font

\* A call of vga_putc shows what the character does to the paper
\* (vga_buffer.c:77-112).
LEMMA PutcTidy ==
  ASSUME NEW c, Shows(c, Font), NEW rows, Tidy(c, rows), NEW ch \in Font \union {NewLine}
  PROVE  LET d == vga_putc(c, ch)
         IN  Shows(d, Font) /\ Tidy(d, PrintOn(rows, ch))
  <1> DEFINE p == Put(c, ch)
             d == vga_putc(c, ch)
  <1>1. PICK g \in Nat : Rolls(c, rows, g) /\ (g = 0 \/ c.y = H - 1)
    BY DEF Tidy
  <1>2. /\ IsScreen(c) /\ Near(c) /\ c.cells \in [Window -> Font]
        /\ c.x \in 0 .. W - 1 /\ c.y \in 0 .. H - 1
    BY Sizes DEF Shows, OnScreen, Near
  <1>3. Shows(d, Font)
    BY PutcPaged
  <1>4. d = update_cursor(Scroll(Wrap(p)))
    BY DEF vga_putc
  <1>5. IsScreen(p) /\ p.cells \in [Window -> Font]
    BY <1>2, PutMoves, PutCells DEF Font
  <1>6. CASE ch = NewLine
    <2>1. p = Screen(0, c.y + 1, c.hw, c.cells)
      BY <1>2, <1>6, AsAssignments, AssignmentsTo
    <2>2. p.x = 0 /\ p.y = c.y + 1
      BY <2>1, ScreenFields
    <2>3. Rolls(p, Append(rows, <<>>), g)
      BY <1>1, <1>2, <2>1, RollsNewLine
    <2> HIDE DEF p
    <2>4. /\ p.x < W /\ p.x <= W /\ p.y <= H /\ (p.y = H => p.x = 0) /\ (p.x = W => p.y < H)
          /\ g = 0 \/ p.y >= H - 1
      BY <1>1, <1>2, <2>2, Sizes
    <2>5. Tidy(d, Append(rows, <<>>))
      BY <1>4, <1>5, <2>3, <2>4, RepairTidy
    <2> QED
      BY <1>3, <1>6, <2>5 DEF PrintOn
  <1>7. CASE ch \in Font
    <2> DEFINE cells == [c.cells EXCEPT ![Pos(c)] = ch]
               longer == Append(Last(rows), ch)
    <2>1. ch # NewLine /\ ch # BackSpace
      BY <1>7, FontShown
    <2>2. p = Screen(c.x + 1, c.y, c.hw, cells)
      <3> HIDE DEF cells
      <3>1. Write(c, ch) = SetCells(c, cells)
        BY DEF Write, SetCells, cells
      <3>2. Write(c, ch) = Screen(c.x, c.y, c.hw, cells)
        BY <1>2, <3>1, AssignmentsTo
      <3>3. p = SetX(Write(c, ch), Write(c, ch).x + 1)
        BY <2>1, AsAssignments
      <3>4. Write(c, ch).x = c.x
        BY <1>2, WriteKeepsCursor
      <3> QED
        BY <3>2, <3>3, <3>4, Assignments
    <2>3. p.x = c.x + 1 /\ p.y = c.y
      BY <2>2, ScreenFields
    <2>4. Rolls(p, Rewrite(rows, longer), g)
      BY <1>1, <1>2, <1>7, <2>2, RollsChar, Sizes
    <2>5. Len(longer) = p.x
      <3>1. Last(rows) \in Seq(Font) /\ c.x = Len(Last(rows))
        BY <1>1 DEF Rolls, Last
      <3> QED
        BY <2>3, <3>1
    <2> HIDE DEF p, cells, longer
    <2>6. /\ p.x <= W /\ p.y <= H /\ (p.y = H => p.x = 0) /\ (p.x = W => p.y < H)
          /\ g = 0 \/ p.y >= H - 1
      BY <1>1, <1>2, <2>3, Sizes
    <2>7. Tidy(d, IF p.x < W THEN Rewrite(rows, longer) ELSE Append(Rewrite(rows, longer), <<>>))
      BY <1>4, <1>5, <2>4, <2>6, RepairTidy
    <2>8. PrintOn(rows, ch) = IF p.x < W THEN Rewrite(rows, longer)
                              ELSE Append(Rewrite(rows, longer), <<>>)
      BY <2>1, <2>5 DEF PrintOn, longer
    <2> QED
      BY <1>3, <2>7, <2>8
  <1> QED
    BY <1>6, <1>7

\* On a row that is not empty, both ways of erasing shorten it: the backspace of
\* vga_putc and the key's (vga_buffer.c:25-48, 87-92).
LEMMA EraseTidy ==
  ASSUME NEW c, Shows(c, Font), c.x > 0, NEW rows, Tidy(c, rows), NEW d,
         d = vga_putc(c, BackSpace) \/ d = vga_backspace(c)
  PROVE  /\ Shows(d, Font) /\ Tidy(d, EraseOn(rows))
         /\ d = vga_backspace(c) => d.x + 1 < W /\ d.hw = Pos(d) + 1
  <1> DEFINE place == Pos(c) - 1
             cells == [c.cells EXCEPT ![place] = Blank]
             l == Screen(c.x - 1, c.y, c.hw, c.cells)
             w == Screen(c.x - 1, c.y, c.hw, cells)
  <1>1. PICK g \in Nat : Rolls(c, rows, g) /\ (g = 0 \/ c.y = H - 1)
    BY DEF Tidy
  <1>2. /\ IsScreen(c) /\ Near(c) /\ c.cells \in [Window -> Font]
        /\ c.x \in 1 .. W - 1 /\ c.y \in 0 .. H - 1
    BY Sizes DEF Shows, OnScreen, Near
  <1>3. l.x = c.x - 1 /\ l.y = c.y /\ l.hw = c.hw /\ l.cells = c.cells /\ IsScreen(l)
    BY ScreenFields
  <1>4. Left(c) = l /\ StepBack(c) = l
    BY <1>2, AsAssignments, AssignmentsTo
  <1>5. Write(l, Blank) = w
    <2>1. Pos(l) = place
      BY <1>2, <1>3, Sizes DEF Pos
    <2> HIDE DEF l, place
    <2>2. Write(l, Blank) = SetCells(l, cells)
      BY <1>3, <2>1 DEF Write, SetCells
    <2> HIDE DEF cells
    <2>3. SetCells(l, cells) = Screen(l.x, l.y, l.hw, cells)
      BY <1>3, AssignmentsTo
    <2> QED
      BY <1>3, <2>2, <2>3
  <1> HIDE DEF l
  <1>6. w.x = c.x - 1 /\ w.y = c.y /\ w.cells = cells /\ IsScreen(w)
    BY ScreenFields
  <1>7. cells \in [Window -> Font]
    BY <1>2 DEF Font
  <1> HIDE DEF cells, w, place
  <1>8. Blank # NewLine /\ Blank # BackSpace /\ NewLine # BackSpace
    BY ConsoleAssumption, TerminalAssumption
  <1>9. \E x : /\ x \in 0 .. W - 1 /\ x = c.x - 1
               /\ \E hw : /\ d = Screen(x, c.y, hw, cells)
                          /\ d = vga_backspace(c) => hw = Pos(c)
    <2>1. ASSUME NEW p, IsScreen(p), p.x \in 0 .. W - 1, p.y \in 0 .. H - 1
          PROVE  update_cursor(Scroll(Wrap(p))) = Screen(p.x, p.y, Pos(p), p.cells)
      <3>1. Wrap(p) = p
        BY <2>1, AsAssignments, Sizes
      <3>2. Scroll(p) = p
        BY <2>1, Sizes DEF Scroll
      <3>3. update_cursor(p) = SetHw(p, Pos(p))
        BY AsAssignments
      <3>4. SetHw(p, Pos(p)) = Screen(p.x, p.y, Pos(p), p.cells)
        BY <2>1, AssignmentsTo
      <3> QED
        BY <3>1, <3>2, <3>3, <3>4
    <2>2. CASE d = vga_putc(c, BackSpace) /\ d # vga_backspace(c)
      <3>1. Put(c, BackSpace) = w
        BY <1>4, <1>5, <1>8, AsAssignments
      <3>2. w.x \in 0 .. W - 1 /\ w.y \in 0 .. H - 1
        BY <1>2, <1>6, Sizes
      <3>3. d = Screen(w.x, w.y, Pos(w), w.cells)
        BY <1>6, <2>1, <2>2, <3>1, <3>2 DEF vga_putc
      <3> QED
        BY <1>6, <2>2, <3>2, <3>3
    <2>3. CASE d = vga_backspace(c)
      <3> DEFINE p == Put(l, Blank)
                 q == vga_putc(l, Blank)
      <3>1. p = SetX(w, w.x + 1)
        BY <1>5, <1>8, AsAssignments
      <3>2. p = Screen(w.x + 1, w.y, w.hw, w.cells)
        BY <1>6, <3>1, AssignmentsTo
      <3>3. p.x = w.x + 1 /\ p.y = w.y /\ p.cells = w.cells /\ IsScreen(p)
        BY <3>2, ScreenFields
      <3> HIDE DEF p
      <3>4. p.x = c.x /\ p.x \in 0 .. W - 1 /\ p.y \in 0 .. H - 1
        BY <1>2, <1>6, <3>3, Sizes
      <3>5. q = Screen(p.x, p.y, Pos(p), p.cells)
        BY <2>1, <3>3, <3>4 DEF vga_putc, p
      <3>6. q.x = c.x /\ q.y = c.y /\ q.hw = Pos(c) /\ q.cells = cells /\ IsScreen(q)
        BY <1>6, <3>3, <3>4, <3>5, ScreenFields DEF Pos
      <3>7. d = StepBack(q)
        BY <1>4, <2>3 DEF vga_backspace
      <3> HIDE DEF q
      <3>8. d = Screen(q.x - 1, q.y, q.hw, q.cells)
        BY <1>2, <3>6, <3>7, AsAssignments, AssignmentsTo
      <3>9. c.x - 1 \in 0 .. W - 1
        BY <1>2, Sizes
      <3> QED
        BY <3>6, <3>8, <3>9
    <2> QED
      BY <2>2, <2>3
  <1>10. PICK hw : d = Screen(c.x - 1, c.y, hw, cells) /\ (d = vga_backspace(c) => hw = Pos(c))
    BY <1>9
  <1>11. Rolls(d, EraseOn(rows), g)
    <2>1. d = Screen(c.x - 1, c.y, hw, [c.cells EXCEPT ![Pos(c) - 1] = Blank])
      BY <1>10 DEF cells, place
    <2>2. c.x > 0 /\ c.x < W /\ c.y < H
      BY <1>2, Sizes
    <2> QED
      BY <1>1, <1>2, <2>1, <2>2, RollsErase
  <1>12. d.x = c.x - 1 /\ d.y = c.y /\ d.hw = hw
    BY <1>10, ScreenFields
  <1>13. Shows(d, Font)
    <2>1. BackSpace \in Font \union {NewLine, BackSpace} /\ Blank \in Font
      BY DEF Font
    <2> QED
      BY <2>1, PutcPaged, BackspaceShows
  <1>14. d.x + 1 < W /\ Pos(c) = Pos(d) + 1
    <2>1. c.y * W \in Nat
      BY <1>2, Sizes
    <2> QED
      BY <1>2, <1>12, <2>1, Sizes DEF Pos
  <1> QED
    BY <1>1, <1>10, <1>11, <1>12, <1>13, <1>14 DEF Tidy

\* A tidy screen is the end of the paper, and what has left it is known.
LEMMA TidyShowsEnd ==
  ASSUME NEW c, OnScreen(c), NEW rows, Tidy(c, rows)
  PROVE  /\ \A j \in 0 .. H - 1, k \in 0 .. W - 1 :
               c.cells[j * W + k] = CharAt(rows, Gone(rows) + j, k)
         /\ Pos(c) = End(rows) /\ c.x = Len(Last(rows))
         /\ Rolls(c, rows, Gone(rows))
  <1>1. PICK g \in Nat : Rolls(c, rows, g) /\ (g = 0 \/ c.y = H - 1)
    BY DEF Tidy
  <1>2. /\ Len(rows) \in Nat /\ c.y = Len(rows) - 1 - g /\ c.x = Len(Last(rows))
        /\ c.y \in 0 .. H - 1
    <2>1. rows \in Seq(Seq(Font)) /\ c.y \in Nat
      BY <1>1 DEF Rolls
    <2> QED
      BY <1>1, <2>1, Sizes DEF Rolls, OnScreen
  <1>3. Gone(rows) = g
    BY <1>1, <1>2, Sizes DEF Gone
  <1> QED
    BY <1>1, <1>2, <1>3 DEF Rolls, Pos, End

\* Empty rows show nothing.
LEMMA Fed ==
  ASSUME NEW rows \in Seq(Seq(Font)), rows # <<>>
  PROVE  /\ FeedOn(rows) \in Seq(Seq(Font)) /\ FeedOn(rows) # <<>>
         /\ Gone(rows) \in Nat /\ Len(FeedOn(rows)) = Gone(rows) + H + 1
         /\ Last(FeedOn(rows)) = <<>>
         /\ \A j \in Nat, k \in Nat : CharAt(FeedOn(rows), j, k) = CharAt(rows, j, k)
  <1> DEFINE n == Len(rows)
             g == Gone(rows)
             new == FeedOn(rows)
  <1>1. n \in Nat /\ n >= 1 /\ \A i \in 1 .. n : rows[i] \in Seq(Font)
    OBVIOUS
  <1>2. g \in Nat /\ n <= g + H /\ g + H + 1 \in Nat /\ g + H + 1 >= 1
    BY <1>1, Sizes DEF Gone
  <1>3. new = [i \in 1 .. g + H + 1 |-> IF i <= n THEN rows[i] ELSE <<>>]
    BY DEF FeedOn
  <1> HIDE DEF n, g, new
  <1>4. \A i \in 1 .. g + H + 1 : (IF i <= n THEN rows[i] ELSE <<>>) \in Seq(Font)
    BY <1>1, <1>2
  <1>5. new \in Seq(Seq(Font)) /\ Len(new) = g + H + 1
    <2>1. PICK m \in Nat : m = g + H + 1
      BY <1>2
    <2>2. new = [i \in 1 .. m |-> IF i <= n THEN rows[i] ELSE <<>>]
      BY <1>3, <2>1
    <2>3. \A i \in 1 .. m : (IF i <= n THEN rows[i] ELSE <<>>) \in Seq(Font)
      BY <1>4, <2>1
    <2>4. new \in Seq(Seq(Font)) /\ Len(new) = m
      BY <2>2, <2>3
    <2> QED
      BY <2>1, <2>4
  <1>6. \A i \in 1 .. g + H + 1 : new[i] = IF i <= n THEN rows[i] ELSE <<>>
    BY <1>3
  <1>7. new # <<>> /\ Last(new) = <<>>
    <2>1. PICK m \in Nat : m = g + H + 1 /\ m >= 1
      BY <1>2
    <2>2. m \in 1 .. m /\ ~(m <= n)
      BY <1>1, <1>2, <2>1, Sizes
    <2>3. new[m] = <<>>
      BY <1>6, <2>1, <2>2
    <2>4. Len(new) = m
      BY <1>5, <2>1
    <2> QED
      BY <1>5, <2>1, <2>3, <2>4 DEF Last
  <1>8. ASSUME NEW j \in Nat, NEW k \in Nat PROVE CharAt(new, j, k) = CharAt(rows, j, k)
    <2>1. CharAt(new, j, k) = IF j < g + H + 1 THEN InRow(new[j + 1], k) ELSE Blank
      BY <1>5, CharAtRow
    <2>2. CharAt(rows, j, k) = IF j < n THEN InRow(rows[j + 1], k) ELSE Blank
      BY CharAtRow DEF n
    <2>3. InRow(<<>>, k) = Blank
      BY DEF InRow
    <2>4. j < g + H + 1 => new[j + 1] = IF j + 1 <= n THEN rows[j + 1] ELSE <<>>
      BY <1>2, <1>6
    <2>5. j < n => j < g + H + 1
      BY <1>1, <1>2, Sizes
    <2> QED
      BY <1>1, <2>1, <2>2, <2>3, <2>4, <2>5
  <1> QED
    BY <1>2, <1>5, <1>7, <1>8 DEF new, g

\* At the left edge, below the first row, a key erases nothing: the blank goes to
\* the row of the last column's number, which is below the screen, and the screen
\* scrolls once (vga_buffer.c:29-43, 106-109).
LEMMA EdgeTidy ==
  ASSUME NEW c, Shows(c, Font), c.x = 0, c.y > 0, NEW rows, Tidy(c, rows)
  PROVE  LET d == vga_backspace(c)
         IN  Tidy(d, FeedOn(rows)) /\ d.x + 1 < W /\ d.hw = Pos(d) + 1
  <1> DEFINE g == Gone(rows)
             more == FeedOn(rows)
             place == (W - 1) * W
             cells == [c.cells EXCEPT ![place] = Blank]
             b == Screen(0, W - 1, c.hw, c.cells)
             w == Screen(0, W - 1, c.hw, cells)
             p == Screen(1, W - 1, c.hw, cells)
             q == Screen(0, H, c.hw, cells)
             e == Scroll(q).cells
             hw == (H - 1) * W + 1
             d == Screen(0, H - 1, hw, e)
  <1>1. /\ IsScreen(c) /\ OnScreen(c) /\ c.cells \in [Window -> Font]
        /\ c.x = 0 /\ c.y \in 1 .. H - 1
    BY Sizes DEF Shows, OnScreen, Near
  <1>2. Rolls(c, rows, g)
    BY <1>1, TidyShowsEnd
  <1>3. /\ rows \in Seq(Seq(Font)) /\ rows # <<>> /\ g \in Nat
        /\ more \in Seq(Seq(Font)) /\ more # <<>> /\ Len(more) = g + H + 1 /\ Last(more) = <<>>
        /\ \A j \in Nat, k \in Nat : CharAt(more, j, k) = CharAt(rows, j, k)
    BY <1>2, Fed DEF Rolls
  <1> HIDE DEF g, more
  <1>4. place \in Window /\ place >= W * H /\ place \in Nat
    <2>1. W - 1 \in 0 .. W /\ 0 \in 0 .. W
      BY Sizes
    <2>2. (W - 1) * W + 0 \in Window /\ (W - 1) * W + 0 \in Nat
      BY <2>1, PositionBounds
    <2>3. (W - 1) * W >= H * W /\ H * W = W * H
      BY Sizes
    <2>4. PICK z \in Int : z = (W - 1) * W
      BY Sizes
    <2>5. z + 0 = z /\ (W - 1) * W + 0 = z + 0
      BY <2>4
    <2>6. place = z
      BY <2>4
    <2> QED
      BY <2>2, <2>3, <2>4, <2>5, <2>6
  <1>5. StepBack(c) = b
    <2>1. StepBack(c) = SetY(c, W - 1)
      BY <1>1, AsAssignments, Sizes
    <2> QED
      BY <1>1, <2>1, AssignmentsTo
  <1>6. Put(b, Blank) = p
    <2>1. b.x = 0 /\ b.y = W - 1 /\ b.hw = c.hw /\ b.cells = c.cells /\ IsScreen(b)
      BY ScreenFields
    <2>2. Pos(b) = place
      BY <1>4, <2>1, Sizes DEF Pos
    <2> HIDE DEF b, place
    <2>3. Write(b, Blank) = SetCells(b, cells)
      BY <2>1, <2>2 DEF Write, SetCells
    <2> HIDE DEF cells
    <2>4. Write(b, Blank) = w
      BY <2>1, <2>3, AssignmentsTo
    <2>5. w.x = 0 /\ w.y = W - 1 /\ w.hw = c.hw /\ w.cells = cells /\ IsScreen(w)
      BY ScreenFields
    <2> HIDE DEF w
    <2>6. Blank # NewLine /\ Blank # BackSpace
      BY ConsoleAssumption
    <2>7. Put(b, Blank) = SetX(w, 0 + 1)
      BY <2>4, <2>5, <2>6, AsAssignments
    <2> QED
      BY <2>5, <2>7, AssignmentsTo
  <1> HIDE DEF b, w
  <1>7. cells \in [Window -> Font]
    BY <1>1 DEF Font
  <1>8. Rolls(q, more, g)
    <2>1. q.x = 0 /\ q.y = H /\ q.cells = cells
      BY ScreenFields
    <2>2. ASSUME NEW j \in 0 .. H - 1, NEW k \in 0 .. W - 1
          PROVE  cells[j * W + k] = CharAt(more, g + j, k)
      <3>1. j \in 0 .. W /\ k \in 0 .. W /\ j < H /\ k < W /\ g + j \in Nat /\ k \in Nat
        BY <1>3, Sizes
      <3>2. j * W + k \in Window /\ j * W + k \in Nat /\ j * W + k < W * H
        BY <3>1, PositionBounds
      <3>3. j * W + k # place
        BY <1>4, <3>2, ScreenInWindow
      <3>4. cells[j * W + k] = c.cells[j * W + k]
        BY <1>1, <3>2, <3>3
      <3> QED
        BY <1>2, <1>3, <3>1, <3>4 DEF Rolls
    <2> HIDE DEF q, cells
    <2>3. q.y \in Nat /\ q.y = Len(more) - 1 - g /\ q.x = Len(Last(more))
      BY <1>3, <2>1, Sizes
    <2> QED
      BY <1>3, <2>1, <2>2, <2>3 DEF Rolls
  <1> HIDE DEF cells, place
  <1>9. /\ q.x = 0 /\ q.y = H /\ q.cells = cells /\ IsScreen(q)
        /\ p.x = 1 /\ p.y = W - 1 /\ p.hw = c.hw /\ p.cells = cells /\ IsScreen(p)
    BY ScreenFields
  <1>10. /\ Scroll(q).x = 0 /\ Scroll(q).y = H - 1 /\ Rolls(Scroll(q), more, g + 1)
    <2>1. q.y <= H /\ (q.y = H => q.x = 0) /\ q.cells \in [Window -> Font]
      BY <1>7, <1>9, Sizes
    <2> HIDE DEF q
    <2> QED
      BY <1>8, <1>9, <2>1, RollsScroll
  <1>11. Scroll(p) = Screen(1, H - 1, c.hw, e)
    <2> DEFINE new == [i \in Window |-> IF i < W * (H - 1) THEN cells[i + W]
                                        ELSE IF i < W * H THEN Blank ELSE cells[i]]
    <2> HIDE DEF p, q
    <2>1. q.y >= H /\ p.y >= H
      BY <1>9, Sizes
    <2>2. Scroll(q) = SetYCells(q, H - 1, new) /\ Scroll(p) = SetYCells(p, H - 1, new)
      BY <1>9, <2>1 DEF Scroll, vga_scroll, SetYCells
    <2> HIDE DEF new
    <2>3. Scroll(q) = Screen(q.x, H - 1, q.hw, new)
      BY <1>9, <2>2, AssignmentsTo
    <2>4. e = new
      BY <2>3, ScreenFields
    <2> HIDE DEF e
    <2> QED
      BY <1>9, <2>2, <2>4, AssignmentsTo
  <1>12. vga_backspace(c) = d
    <2> DEFINE s == Screen(1, H - 1, c.hw, e)
               u == Screen(1, H - 1, hw, e)
    <2>1. Wrap(p) = p
      <3> HIDE DEF p
      <3>1. ~(p.x >= W)
        BY <1>9, Sizes
      <3> QED
        BY <3>1, AsAssignments
    <2>2. vga_putc(b, Blank) = update_cursor(s)
      BY <1>6, <1>11, <2>1 DEF vga_putc
    <2> HIDE DEF e, hw
    <2>3. s.x = 1 /\ s.y = H - 1 /\ s.cells = e /\ IsScreen(s)
      BY ScreenFields
    <2>4. update_cursor(s) = SetHw(s, hw)
      BY <2>3, AsAssignments DEF Pos, hw
    <2> HIDE DEF s
    <2>5. update_cursor(s) = u
      BY <2>3, <2>4, AssignmentsTo
    <2>6. u.x = 1 /\ u.y = H - 1 /\ u.hw = hw /\ u.cells = e /\ IsScreen(u)
      BY ScreenFields
    <2> HIDE DEF u
    <2>7. StepBack(u) = SetX(u, 1 - 1)
      BY <2>6, AsAssignments
    <2>8. StepBack(u) = d
      BY <2>6, <2>7, AssignmentsTo
    <2> QED
      BY <1>5, <2>2, <2>5, <2>8 DEF vga_backspace
  <1>13. d.x = 0 /\ d.y = H - 1 /\ d.hw = hw /\ d.cells = e
    BY ScreenFields
  <1>14. Rolls(d, more, g + 1)
    <2> HIDE DEF d, q
    <2> QED
      BY <1>10, <1>13 DEF Rolls
  <1> HIDE DEF d
  <1>15. d.x + 1 < W /\ d.hw = Pos(d) + 1
    <2>1. (H - 1) * W \in Nat
      BY Sizes
    <2> QED
      BY <1>13, <2>1, Sizes DEF Pos
  <1>16. Tidy(d, more)
    <2>1. g + 1 \in Nat
      BY <1>3
    <2>2. d.y = H - 1
      BY <1>13
    <2> QED
      BY <1>14, <2>1, <2>2 DEF Tidy
  <1> QED
    BY <1>12, <1>15, <1>16 DEF more

\* A clear screen shows empty paper (vga_buffer.c:50-57).
LEMMA ClearTidy ==
  ASSUME NEW c, IsScreen(c), c.cells \in [Window -> Font]
  PROVE  Tidy(vga_clear(c), << <<>> >>)
  <1> DEFINE d == vga_clear(c)
             rows == << <<>> >>
             new == [i \in Window |-> IF i < W * H THEN Blank ELSE c.cells[i]]
  <1>1. d.x = 0 /\ d.y = 0 /\ d.cells = new
    BY Clears
  <1>2. rows \in Seq(Seq(Font)) /\ rows # <<>> /\ Len(rows) = 1 /\ Last(rows) = <<>>
    BY DEF Last
  <1> HIDE DEF d, rows
  <1>3. ASSUME NEW j \in 0 .. H - 1, NEW k \in 0 .. W - 1
        PROVE  new[j * W + k] = CharAt(rows, 0 + j, k)
    <2>1. j \in Nat /\ k \in Nat /\ j \in 0 .. W /\ k \in 0 .. W /\ j < H /\ k < W
      BY Sizes
    <2>2. j * W + k \in Window /\ j * W + k < W * H
      BY <2>1, PositionBounds
    <2>3. new[j * W + k] = Blank
      BY <2>2
    <2>4. CharAt(rows, j, k) = IF j < Len(rows) THEN InRow(rows[j + 1], k) ELSE Blank
      BY <1>2, <2>1, CharAtRow
    <2>5. j < Len(rows) => rows[j + 1] = <<>>
      BY <1>2, <2>1 DEF Last
    <2>6. InRow(<<>>, k) = Blank
      BY <2>1 DEF InRow
    <2>7. 0 + j = j
      BY <2>1
    <2> QED
      BY <2>3, <2>4, <2>5, <2>6, <2>7
  <1> HIDE DEF new
  <1>4. d.y \in Nat /\ d.y = Len(rows) - 1 - 0 /\ d.x = Len(Last(rows))
    BY <1>1, <1>2
  <1>5. Rolls(d, rows, 0)
    BY <1>1, <1>2, <1>3, <1>4 DEF Rolls
  <1> QED
    BY <1>5 DEF Tidy, d, rows

\* The screen is clear at the start.
LEMMA PaperStart == TerminalInit => Tidy(screen, paper)
  <1> SUFFICES ASSUME TerminalInit PROVE Tidy(screen, paper)
    OBVIOUS
  <1> DEFINE c == [x |-> 0, y |-> 0, hw |-> 0, cells |-> [i \in Window |-> Blank]]
  <1>1. Cleared = vga_clear(c)
    BY DEF Cleared, Window, c
  <1>2. PICK z : z = 0
    OBVIOUS
  <1>3. c = Screen(z, z, z, c.cells)
    BY <1>2 DEF Screen
  <1>4. c.cells \in [Window -> Font]
    BY DEF Font
  <1> HIDE DEF c
  <1>5. IsScreen(c)
    BY <1>3, ScreenFields
  <1> QED
    BY <1>1, <1>4, <1>5, ClearTidy DEF TerminalInit

\* Printing never takes a row away, and a new line adds one.
LEMMA Printed ==
  ASSUME NEW rows \in Seq(Seq(Font)), rows # <<>>, NEW ch
  PROVE  /\ Len(PrintOn(rows, ch)) \in Nat /\ Len(PrintOn(rows, ch)) >= Len(rows)
         /\ ch = NewLine => Len(PrintOn(rows, ch)) = Len(rows) + 1
  <1> DEFINE longer == Append(Last(rows), ch)
             new == Rewrite(rows, longer)
  <1>1. Len(Append(rows, <<>>)) = Len(rows) + 1 /\ Len(rows) \in Nat
    OBVIOUS
  <1>2. Len(new) = Len(rows) /\ new \in Seq(UNION {Seq(Font), {longer}})
    BY DEF Rewrite
  <1>3. Len(Append(new, <<>>)) = Len(rows) + 1
    BY <1>1, <1>2
  <1>4. PrintOn(rows, ch) = IF ch = NewLine THEN Append(rows, <<>>)
                            ELSE IF Len(longer) < W THEN new ELSE Append(new, <<>>)
    BY DEF PrintOn
  <1> HIDE DEF new, longer
  <1> QED
    BY <1>1, <1>2, <1>3, <1>4

\* The rest of the inductive invariant of Terminal.  A line is edited below the row
\* the prompt left, so that its left edge is never that of the first row.
Sheet(c, rows, m) ==
    /\ Tidy(c, rows)
    /\ m = "edit" => Len(rows) >= 2
    /\ c.hw = Pos(c) \/ (m = "edit" /\ c.x + 1 < W /\ c.hw = Pos(c) + 1)

\* Every call keeps the paper on the screen and tells the adapter where its end is,
\* or, when a key erases, the place behind it.
LEMMA PaperStep ==
  ASSUME Paged, Sheet(screen, paper, mode), TerminalNext
  PROVE  Sheet(screen', paper', mode')
  <1>1. Shows(screen, Font)
    BY DEF Paged
  <1>2. /\ IsScreen(screen) /\ OnScreen(screen) /\ screen.x \in 0 .. W - 1
        /\ screen.y \in 0 .. H - 1 /\ screen.cells \in [Window -> Font]
    BY <1>1, Sizes DEF Shows, OnScreen, Near
  <1>3. /\ Tidy(screen, paper) /\ (mode = "edit" => Len(paper) >= 2)
        /\ paper \in Seq(Seq(Font)) /\ paper # <<>> /\ Len(paper) \in Nat
    <2>1. Tidy(screen, paper) /\ (mode = "edit" => Len(paper) >= 2)
      BY DEF Sheet
    <2>2. PICK g \in Nat : Rolls(screen, paper, g)
      BY <2>1 DEF Tidy
    <2>3. paper \in Seq(Seq(Font)) /\ paper # <<>>
      BY <2>2 DEF Rolls
    <2> QED
      BY <2>1, <2>3
  <1>4. ~ KeyBackspace => screen'.hw = Pos(screen')
    BY TerminalStep
  <1>5. ASSUME NEW c \in Chars \union {NewLine, BackSpace}, Output(c)
        PROVE  Tidy(screen', paper') /\ mode' = "output"
    <2>1. screen' = vga_putc(screen, c) /\ mode' = "output"
      BY <1>5 DEF Output
    <2>2. CASE c = BackSpace
      <3>1. screen.x > 0 /\ paper' = EraseOn(paper)
        BY <1>5, <2>2 DEF Output
      <3> QED
        BY <1>1, <1>3, <2>1, <2>2, <3>1, EraseTidy
    <2>3. CASE c # BackSpace
      <3>1. c \in Font \union {NewLine} /\ paper' = PrintOn(paper, c)
        BY <1>5, <2>3 DEF Output, Font
      <3> QED
        BY <1>1, <1>3, <2>1, <3>1, PutcTidy
    <2> QED
      BY <2>2, <2>3
  <1>6. CASE Clear
    <2>1. Tidy(screen', paper') /\ mode' = "output"
      BY <1>2, <1>6, ClearTidy DEF Clear
    <2> QED
      BY <1>4, <1>6, <2>1 DEF Clear, KeyBackspace, Sheet
  <1>7. CASE Prompt
    <2> DEFINE a == vga_putc(screen, NewLine)
               b == vga_putc(a, Gt)
               p == PrintOn(paper, NewLine)
               q == PrintOn(p, Gt)
    <2>1. screen' = vga_putc(b, Blank) /\ paper' = PrintOn(q, Blank) /\ mode = "output"
      BY <1>7 DEF Prompt, vga_puts, prompt
    <2>2. Gt \in Font /\ Blank \in Font
      BY DEF Font
    <2>3. Shows(a, Font) /\ Tidy(a, p)
      BY <1>1, <1>3, PutcTidy
    <2>4. p \in Seq(Seq(Font)) /\ p # <<>> /\ Len(p) >= 2 /\ Len(p) \in Nat
      <3>1. Len(p) = Len(paper) + 1 /\ Len(paper) >= 1
        BY <1>3, Printed
      <3> HIDE DEF a, p
      <3> QED
        BY <1>3, <2>3, <3>1 DEF Tidy, Rolls
    <2> HIDE DEF a, p
    <2>5. Shows(b, Font) /\ Tidy(b, q)
      BY <2>2, <2>3, PutcTidy
    <2>6. q \in Seq(Seq(Font)) /\ q # <<>> /\ Len(q) >= 2 /\ Len(q) \in Nat
      <3>1. Len(q) >= Len(p)
        BY <2>4, Printed
      <3> HIDE DEF b, q
      <3> QED
        BY <2>4, <2>5, <3>1 DEF Tidy, Rolls
    <2> HIDE DEF b, q
    <2>7. Len(paper') >= 2
      <3>1. Len(PrintOn(q, Blank)) >= Len(q) /\ Len(PrintOn(q, Blank)) \in Nat
        BY <2>6, Printed
      <3> QED
        BY <2>1, <2>6, <3>1
    <2>8. Tidy(screen', paper')
      BY <2>1, <2>2, <2>5, PutcTidy
    <2> QED
      BY <1>4, <2>1, <2>7, <2>8 DEF KeyBackspace, Sheet
  <1>8. ASSUME NEW c \in Chars, KeyChar(c)
        PROVE  Tidy(screen', paper') /\ Len(paper') >= 2
    <2>1. /\ c \in Font /\ screen' = vga_putc(screen, c) /\ paper' = PrintOn(paper, c)
          /\ mode = "edit"
      BY <1>8 DEF KeyChar, Font
    <2>2. Len(PrintOn(paper, c)) >= Len(paper) /\ Len(PrintOn(paper, c)) \in Nat
      BY <1>3, Printed
    <2> QED
      BY <1>1, <1>3, <2>1, <2>2, PutcTidy
  <1>9. CASE KeyBackspace
    <2>1. /\ screen' = vga_backspace(screen) /\ mode = "edit" /\ mode' = "edit"
          /\ paper' = IF Last(paper) = <<>> THEN FeedOn(paper) ELSE EraseOn(paper)
      BY <1>9 DEF KeyBackspace
    <2>2. screen.x = Len(Last(paper)) /\ Rolls(screen, paper, Gone(paper))
      BY <1>2, <1>3, TidyShowsEnd
    <2>3. Last(paper) \in Seq(Font)
      BY <1>3 DEF Last
    <2>4. CASE Last(paper) = <<>>
      <3>1. screen.x = 0
        BY <2>2, <2>4
      <3>2. screen.y > 0
        BY <1>3, <2>1, <2>2, Sizes DEF Rolls, Gone
      <3>3. Tidy(screen', paper') /\ screen'.x + 1 < W /\ screen'.hw = Pos(screen') + 1
        BY <1>1, <1>3, <2>1, <2>4, <3>1, <3>2, EdgeTidy
      <3>4. Len(paper') >= 2
        BY <1>3, <2>1, <2>4, Fed, Sizes
      <3> QED
        BY <2>1, <3>3, <3>4 DEF Sheet
    <2>5. CASE Last(paper) # <<>>
      <3>1. screen.x > 0
        BY <2>2, <2>3, <2>5
      <3>2. Tidy(screen', paper') /\ screen'.x + 1 < W /\ screen'.hw = Pos(screen') + 1
        BY <1>1, <1>3, <2>1, <2>5, <3>1, EraseTidy
      <3>3. Len(paper') = Len(paper)
        BY <1>3, <2>1, <2>5 DEF EraseOn, Rewrite
      <3> QED
        BY <1>3, <2>1, <3>2, <3>3 DEF Sheet
    <2> QED
      BY <2>4, <2>5
  <1>10. CASE KeyEnter
    <2>1. /\ screen' = vga_putc(screen, NewLine) /\ paper' = PrintOn(paper, NewLine)
          /\ mode' = "output" /\ ~ KeyBackspace
      BY <1>10 DEF KeyEnter, KeyBackspace
    <2>2. Tidy(screen', paper')
      BY <1>1, <1>3, <2>1, PutcTidy
    <2> QED
      BY <1>4, <2>1, <2>2 DEF Sheet
  <1>11. ASSUME NEW c \in Chars \union {NewLine, BackSpace}, Output(c)
         PROVE  Sheet(screen', paper', mode')
    <2>1. ~ KeyBackspace
      BY <1>11 DEF Output, KeyBackspace
    <2> QED
      BY <1>4, <1>5, <1>11, <2>1 DEF Sheet
  <1>12. ASSUME NEW c \in Chars, KeyChar(c)
         PROVE  Sheet(screen', paper', mode')
    <2>1. screen'.hw = Pos(screen')
      BY PutcPaged, <1>1, <1>12 DEF KeyChar, Font
    <2> QED
      BY <1>8, <1>12, <2>1 DEF Sheet
  <1> QED
    BY <1>6, <1>7, <1>9, <1>10, <1>11, <1>12 DEF TerminalNext

\* The paper is on the screen in every state.
LEMMA SheetInvariant == TerminalSpec => []Sheet(screen, paper, mode)
  <1>1. TerminalInit => Sheet(screen, paper, mode)
    <2> SUFFICES ASSUME TerminalInit PROVE Sheet(screen, paper, mode)
      OBVIOUS
    <2>1. Cleared.hw = Pos(Cleared)
      BY ClearedTold
    <2> QED
      BY <2>1, PaperStart DEF TerminalInit, Sheet
  <1>2. Paged /\ Sheet(screen, paper, mode) /\ [TerminalNext]_(terminalVars)
        => Sheet(screen, paper, mode)'
    <2>1. Sheet(screen, paper, mode) /\ UNCHANGED terminalVars => Sheet(screen, paper, mode)'
      BY DEF terminalVars, Sheet, Tidy, Rolls, CharAt, Pos
    <2>2. ASSUME Paged, Sheet(screen, paper, mode), TerminalNext
          PROVE  Sheet(screen, paper, mode)'
      <3>1. Sheet(screen', paper', mode')
        BY <2>2, PaperStep
      <3> QED
        BY <3>1 DEF Sheet, Tidy, Rolls, CharAt, Pos
    <2> QED
      BY <2>1, <2>2
  <1> QED
    BY <1>1, <1>2, TerminalInvariant, PTL DEF TerminalSpec

\* Wrapping, scrolling, erasing and clearing together leave on the screen exactly
\* the last rows of all that was printed, with the cursor behind the last character,
\* on a screen of any size and after any number of characters; a key that erases at
\* the left edge of a row prints empty rows (vga_buffer.c:25-112).
THEOREM PaperShown == TerminalSpec => []ScreenShowsPaper
  <1>1. Paged /\ Sheet(screen, paper, mode) => ScreenShowsPaper
    <2> SUFFICES ASSUME Paged, Sheet(screen, paper, mode) PROVE ScreenShowsPaper
      OBVIOUS
    <2>1. OnScreen(screen) /\ Tidy(screen, paper)
      BY DEF Paged, Shows, Sheet
    <2> QED
      BY <2>1, TidyShowsEnd DEF ScreenShowsPaper
  <1> QED
    BY <1>1, TerminalInvariant, SheetInvariant, PTL

\* However many characters are erased, the adapter's cursor stands behind the text or,
\* in a line being edited, one column further on the same row, although vga_backspace
\* does not tell it of its last step (vga_buffer.c:9-19, 25-57, 111).
THEOREM AdapterFollows == TerminalSpec => []CursorBehindText
  <1>1. Paged /\ Sheet(screen, paper, mode) => CursorBehindText
    <2> SUFFICES ASSUME Paged, Sheet(screen, paper, mode) PROVE CursorBehindText
      OBVIOUS
    <2>1. OnScreen(screen) /\ Tidy(screen, paper)
      BY DEF Paged, Shows, Sheet
    <2>2. Pos(screen) = End(paper) /\ screen.x = Len(Last(paper))
      BY <2>1, TidyShowsEnd
    <2> QED
      BY <2>2 DEF Sheet, CursorBehindText
  <1> QED
    BY <1>1, TerminalInvariant, SheetInvariant, PTL
=============================================================================
