---------------------------- MODULE ConsoleRace -----------------------------
(***************************************************************************)
(* vga_putc called from the main loop while keyboard interrupts, which     *)
(* echo through the same functions and the same cursor_x and cursor_y,     *)
(* come in between any two of its memory or port accesses                  *)
(* (src/src/vga_buffer.c:9-19, 77-112; the build does not optimise, so     *)
(* each increment is a load and a store).  What the characters are does    *)
(* not matter here: only where they go.                                    *)
(***************************************************************************)
EXTENDS Console

CONSTANTS
    Keys,       (* what the handler may do: "char", "enter", "backspace"   *)
    Low         (* values of a cursor register: 256 in the adapter         *)

ASSUME RaceAssumption == Low \in Nat \ {0}

VARIABLES
    con,        (* cursor_x, cursor_y and video memory                     *)
    crtc,       (* the adapter: selected register and the two registers    *)
    pc,         (* the next access of vga_putc, "idle" outside             *)
    back,       (* where to go on after cursor_y++                         *)
    r,          (* the value loaded last                                   *)
    at          (* the local index of vga_putc, or pos of update_cursor    *)

vars == <<con, crtc, pc, back, r, at>>

Init ==
    /\ con = Cleared
    /\ crtc = [index |-> "high", low |-> 0, high |-> 0]
    /\ pc = "idle" /\ back = "testX" /\ r = 0 /\ at = 0

-----------------------------------------------------------------------------
(* The keyboard handler, in one step *)

Loaded(p) == [index |-> "high", low |-> p % Low, high |-> p \div Low]

Echo(c) ==
    /\ con' = c
    /\ crtc' = Loaded(c.hw)
    /\ UNCHANGED <<pc, back, r, at>>

Key(k) ==
    \/ k = "char"      /\ Echo(vga_putc(con, Blank))
    \/ k = "enter"     /\ Echo(vga_putc(con, NewLine))
    \/ k = "backspace" /\ Echo(vga_backspace(con))

-----------------------------------------------------------------------------
(* vga_putc in the main loop, access by access *)

Step(from, to) == pc = from /\ pc' = to

PutNewLine ==
    /\ Step("idle", "loadY") /\ back' = "testX"
    /\ con' = [con EXCEPT !.x = 0]
    /\ UNCHANGED <<crtc, r, at>>

PutChar ==
    /\ Step("idle", "index")
    /\ r' = con.y
    /\ UNCHANGED <<con, crtc, back, at>>

Index ==
    /\ Step("index", "store")
    /\ at' = r * W + con.x
    /\ UNCHANGED <<con, crtc, back, r>>

Store ==
    /\ Step("store", "loadX")
    /\ con' = [con EXCEPT !.cells = [@ EXCEPT ![at] = Blank]]
    /\ UNCHANGED <<crtc, back, r, at>>

LoadX ==
    /\ Step("loadX", "storeX")
    /\ r' = con.x
    /\ UNCHANGED <<con, crtc, back, at>>

StoreX ==
    /\ Step("storeX", "testX")
    /\ con' = [con EXCEPT !.x = r + 1]
    /\ UNCHANGED <<crtc, back, r, at>>

\* Mutant: the wrap is decided on the column loaded before the increment.
TestXStale ==
    /\ Step("testX", IF r >= W THEN "wrapX" ELSE "testY")
    /\ UNCHANGED <<con, crtc, back, r, at>>

TestX ==
    /\ Step("testX", IF con.x >= W THEN "wrapX" ELSE "testY")
    /\ UNCHANGED <<con, crtc, back, r, at>>

WrapX ==
    /\ Step("wrapX", "loadY") /\ back' = "testY"
    /\ con' = [con EXCEPT !.x = 0]
    /\ UNCHANGED <<crtc, r, at>>

LoadY ==
    /\ Step("loadY", "storeY")
    /\ r' = con.y
    /\ UNCHANGED <<con, crtc, back, at>>

StoreY ==
    /\ Step("storeY", back)
    /\ con' = [con EXCEPT !.y = r + 1]
    /\ UNCHANGED <<crtc, back, r, at>>

TestY ==
    /\ Step("testY", IF con.y >= H THEN "scroll" ELSE "cursor")
    /\ UNCHANGED <<con, crtc, back, r, at>>

\* vga_scroll: the rows are moved up, then the cursor is put on the last one.
MoveUp ==
    /\ Step("scroll", "lastRow")
    /\ con' = [con EXCEPT !.cells = vga_scroll(con).cells]
    /\ UNCHANGED <<crtc, back, r, at>>

\* Mutant: one row too few is given back after the scroll.
LastRowShort ==
    /\ Step("lastRow", "cursor")
    /\ con' = [con EXCEPT !.y = H]
    /\ UNCHANGED <<crtc, back, r, at>>

\* Mutant: the rows move up but the cursor does not.
LastRowForgotten ==
    /\ Step("lastRow", "cursor")
    /\ UNCHANGED <<con, crtc, back, r, at>>

LastRow ==
    /\ Step("lastRow", "cursor")
    /\ con' = [con EXCEPT !.y = H - 1]
    /\ UNCHANGED <<crtc, back, r, at>>

Cursor ==
    /\ Step("cursor", "pos")
    /\ r' = con.y
    /\ UNCHANGED <<con, crtc, back, at>>

CursorPos ==
    /\ Step("pos", "selectLow")
    /\ at' = r * W + con.x
    /\ UNCHANGED <<con, crtc, back, r>>

Select(reg) ==
    /\ crtc' = [crtc EXCEPT !.index = reg]
    /\ UNCHANGED <<con, back, r, at>>

Data(val) ==
    /\ crtc' = IF crtc.index = "low" THEN [crtc EXCEPT !.low = val]
                                     ELSE [crtc EXCEPT !.high = val]
    /\ UNCHANGED <<con, back, r, at>>

SelectLow  == Step("selectLow", "low")   /\ Select("low")
WriteLow   == Step("low", "selectHigh")  /\ Data(at % Low)
SelectHigh == Step("selectHigh", "high") /\ Select("high")
WriteHigh  == Step("high", "idle")       /\ Data(at \div Low)

vga_putc_steps ==
    \/ PutNewLine \/ PutChar \/ Index \/ Store \/ LoadX \/ StoreX
    \/ TestX \/ WrapX \/ LoadY \/ StoreY \/ TestY \/ MoveUp \/ LastRow
    \/ Cursor \/ CursorPos \/ SelectLow \/ WriteLow \/ SelectHigh \/ WriteHigh

Next == vga_putc_steps \/ \E k \in Keys : Key(k)

Spec == Init /\ [][Next]_vars

-----------------------------------------------------------------------------
(* Properties *)

\* Mutual consistency of the locals is all the type invariant says.
TypeOK ==
    /\ con.x \in 0 .. W /\ con.y \in 0 .. W
    /\ crtc \in [index : {"low", "high"}, low : 0 .. Low - 1, high : Nat]
    /\ back \in {"testX", "testY"}
    /\ r \in 0 .. W /\ at \in Nat

\* However the echoes fall between the accesses of vga_putc, the cursor is on
\* the screen again whenever the main loop is outside vga_putc: the two tests
\* of vga_putc repair whatever they were interrupted by (vga_buffer.c:101-109).
RestInBounds == pc = "idle" => con.x < W /\ con.y < H

\* No character is stored outside the adapter's memory, not even by an echo in
\* the middle of an increment (vga_buffer.c:91, 95).
StoresInWindow ==
    /\ pc = "store" => at \in Window
    /\ Pos(con) \in Window
=============================================================================
