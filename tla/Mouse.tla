------------------------------- MODULE Mouse --------------------------------
(***************************************************************************)
(* The PS/2 mouse (src/src/drivers/mouse.c): the device sends each         *)
(* movement as three bytes, one interrupt per byte, and mouse_handler puts *)
(* them together again, keeping its place in mouse_cycle.  A byte may get  *)
(* lost: the port it is read from is shared with the keyboard and with the *)
(* polling loops of init_mouse.                                            *)
(***************************************************************************)
EXTENDS Integers, Sequences

CONSTANTS
    SCREEN_W, SCREEN_H,     (* 800 and 600                                 *)
    Movements,              (* what the user does: [dx, dy, buttons]       *)
    MaxLost                 (* bound: bytes that never reach the handler   *)

ASSUME MouseAssumption ==
    /\ SCREEN_W \in Nat \ {0} /\ SCREEN_H \in Nat \ {0} /\ MaxLost \in Nat
    /\ Movements \subseteq [dx : -256 .. 255, dy : -256 .. 255, buttons : 0 .. 7]

VARIABLES
    mouse_x, mouse_y, mouse_cycle, mouse_byte, mouse_buttons, mouse_updated,
    movement,       (* the movement the device reports                     *)
    sent,           (* how many of its bytes have left the device          *)
    lost            (* bytes lost so far                                   *)

handlerVars == <<mouse_x, mouse_y, mouse_cycle, mouse_byte, mouse_buttons, mouse_updated>>
mouseVars == <<handlerVars, movement, sent, lost>>

-----------------------------------------------------------------------------
(* The device *)

\* Bit 3 of the first byte is always set; bits 4 and 5 are the signs.
Packet(m) == << 8 + m.buttons + (IF m.dx < 0 THEN 16 ELSE 0) + (IF m.dy < 0 THEN 32 ELSE 0),
                m.dx % 256, m.dy % 256 >>

MouseInit ==
    /\ mouse_x = SCREEN_W \div 2 /\ mouse_y = SCREEN_H \div 2
    /\ mouse_cycle = 0 /\ mouse_byte = <<0, 0, 0>>
    /\ mouse_buttons = 0 /\ mouse_updated = 0
    /\ movement \in Movements /\ sent = 0 /\ lost = 0

-----------------------------------------------------------------------------
(* mouse_handler *)

Bit(byte, k) == (byte \div 2 ^ k) % 2 = 1

\* Mutant: the sign bit is not looked at.
DeltaUnsigned(byte, negative) == byte

Delta(byte, negative) == IF negative THEN byte - 256 ELSE byte

\* Mutant: the far edge is one too far.
ClampLoose(v, size) == IF v < 0 THEN 0 ELSE IF v > size THEN size ELSE v

Clamp(v, size) == IF v < 0 THEN 0 ELSE IF v >= size THEN size - 1 ELSE v

FirstByte(byte) ==
    /\ mouse_cycle = 0
    /\ mouse_cycle' = IF Bit(byte, 3) THEN 1 ELSE 0
    /\ UNCHANGED <<mouse_x, mouse_y, mouse_buttons, mouse_updated>>

SecondByte ==
    /\ mouse_cycle = 1 /\ mouse_cycle' = 2
    /\ UNCHANGED <<mouse_x, mouse_y, mouse_buttons, mouse_updated>>

ThirdByte(byte) ==
    /\ mouse_cycle = 2 /\ mouse_cycle' = 0
    /\ mouse_x' = Clamp(mouse_x + Delta(mouse_byte[2], Bit(mouse_byte[1], 4)), SCREEN_W)
    /\ mouse_y' = Clamp(mouse_y - Delta(byte, Bit(mouse_byte[1], 5)), SCREEN_H)
    /\ mouse_buttons' = mouse_byte[1] % 8
    /\ mouse_updated' = 1

mouse_handler(byte) ==
    /\ mouse_byte' = [mouse_byte EXCEPT ![mouse_cycle + 1] = byte]
    /\ FirstByte(byte) \/ SecondByte \/ ThirdByte(byte)

-----------------------------------------------------------------------------
\* The next byte leaves the device; after the third one it reports the next
\* movement.
Transmit ==
    IF sent < 2 THEN sent' = sent + 1 /\ UNCHANGED movement
                ELSE sent' = 0 /\ movement' \in Movements

Deliver ==
    /\ mouse_handler(Packet(movement)[sent + 1])
    /\ Transmit
    /\ UNCHANGED lost

Lose ==
    /\ lost < MaxLost /\ lost' = lost + 1
    /\ Transmit
    /\ UNCHANGED handlerVars

MouseNext == Deliver \/ Lose

MouseSpec == MouseInit /\ [][MouseNext]_mouseVars /\ WF_mouseVars(Deliver)

-----------------------------------------------------------------------------
(* Properties *)

MouseTypeOK ==
    /\ mouse_x \in 0 .. SCREEN_W - 1 /\ mouse_y \in 0 .. SCREEN_H - 1
    /\ mouse_cycle \in 0 .. 2 /\ mouse_byte \in [1 .. 3 -> 0 .. 255]
    /\ mouse_buttons \in 0 .. 7 /\ mouse_updated \in {0, 1}
    /\ movement \in Movements /\ sent \in 0 .. 2 /\ lost \in 0 .. MaxLost

\* The handler expects the byte the device sends.
InStep == mouse_cycle = sent

\* As long as no byte is lost, the pointer makes exactly the movements the
\* device reports, up to the edges of the screen, and makes them only with the
\* third byte of each (mouse.c:110-151).
MovesAsReported ==
    [][lost' = 0 =>
        LET done == sent = 2
        IN  /\ mouse_x' = Clamp(mouse_x + (IF done THEN movement.dx ELSE 0), SCREEN_W)
            /\ mouse_y' = Clamp(mouse_y - (IF done THEN movement.dy ELSE 0), SCREEN_H)
            /\ done => mouse_buttons' = movement.buttons]_<<mouse_x, mouse_y, mouse_buttons, sent>>

\* After bytes have been lost the handler finds the start of a packet again.
Resynchronises == <>[]InStep
=============================================================================
