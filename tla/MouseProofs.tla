---------------------------- MODULE MouseProofs -----------------------------
(***************************************************************************)
(* Proofs about the mouse, from its set-up to what the user sees.  Of the  *)
(* reassembly of packets (Mouse): whatever bytes come, the position stays  *)
(* on the screen; as long as none is lost, it moves exactly as the device  *)
(* reports.  Of the set-up (I8042): whatever the handlers take from under  *)
(* init_mouse, the mouse is on at the end with the rest of the command     *)
(* byte as it was - for any command byte of the firmware and any scancode  *)
(* left behind.  Of the graphical pointer (Pointer): for every screen,     *)
(* cursor, set of bitmaps and movement, drawing stays inside the buffers,  *)
(* the pointer moves as the device reports, and a redraw leaves no trace   *)
(* of the cursor behind.                                                   *)
(***************************************************************************)
EXTENDS Pointer, I8042, Induction, TLAPS

\* What the handler keeps.
HandlerTypeOK ==
    /\ mouse_x \in 0 .. SCREEN_W - 1 /\ mouse_y \in 0 .. SCREEN_H - 1
    /\ mouse_cycle \in 0 .. 2 /\ mouse_byte \in [1 .. 3 -> 0 .. 255]
    /\ mouse_buttons \in 0 .. 7 /\ mouse_updated \in {0, 1}

\* Without a loss, the handler holds the bytes of the movement that were sent.
Reassembling ==
    lost = 0 =>
        /\ InStep
        /\ sent >= 1 => mouse_byte[1] = Packet(movement)[1]
        /\ sent >= 2 => mouse_byte[2] = Packet(movement)[2]

\* The inductive invariant.
MouseInv == MouseTypeOK /\ Reassembling

-----------------------------------------------------------------------------
(* Operators *)

\* A clamped coordinate is on the screen; one that is there stays.
LEMMA Clamped ==
  ASSUME NEW v \in Int, NEW size \in Nat \ {0}
  PROVE  /\ Clamp(v, size) \in 0 .. size - 1
         /\ v \in 0 .. size - 1 => Clamp(v, size) = v
  BY DEF Clamp

\* A packet is three bytes, from which the handler's decoding (mouse.c:126-144)
\* gets the movement back.
LEMMA Decoding ==
  ASSUME NEW m \in [dx : -256 .. 255, dy : -256 .. 255, buttons : 0 .. 7]
  PROVE  /\ Packet(m) \in [1 .. 3 -> 0 .. 255]
         /\ Bit(Packet(m)[1], 3)
         /\ Packet(m)[1] % 8 = m.buttons
         /\ Delta(Packet(m)[2], Bit(Packet(m)[1], 4)) = m.dx
         /\ Delta(Packet(m)[3], Bit(Packet(m)[1], 5)) = m.dy
  <1> DEFINE b == m.buttons
             s == IF m.dx < 0 THEN 16 ELSE 0
             t == IF m.dy < 0 THEN 32 ELSE 0
             first == 8 + b + s + t
  <1>1. Packet(m) = <<first, m.dx % 256, m.dy % 256>>
    BY DEF Packet
  <1>2. b \in 0 .. 7 /\ s \in {0, 16} /\ t \in {0, 32}
    OBVIOUS
  <1>3. (s = 16 <=> m.dx < 0) /\ (t = 32 <=> m.dy < 0)
    OBVIOUS
  <1>4. /\ m.dx \in -256 .. 255 /\ m.dx % 256 = IF m.dx < 0 THEN m.dx + 256 ELSE m.dx
        /\ m.dy \in -256 .. 255 /\ m.dy % 256 = IF m.dy < 0 THEN m.dy + 256 ELSE m.dy
    OBVIOUS
  <1> HIDE DEF b, s, t
  <1>5. first \in 0 .. 255 /\ first % 8 = b /\ (first \div 8) % 2 = 1
    BY <1>2
  <1>6. ((first \div 16) % 2 = 1 <=> s = 16) /\ ((first \div 32) % 2 = 1 <=> t = 32)
    BY <1>2
  <1>7. Bit(first, 3) /\ (Bit(first, 4) <=> s = 16) /\ (Bit(first, 5) <=> t = 32)
    <2>1. 2 ^ 3 = 8 /\ 2 ^ 4 = 16 /\ 2 ^ 5 = 32
      OBVIOUS
    <2> QED
      BY <1>5, <1>6, <2>1 DEF Bit
  <1>8. Packet(m)[1] = first /\ Packet(m)[2] = m.dx % 256 /\ Packet(m)[3] = m.dy % 256
    BY <1>1
  <1>9. Packet(m) \in [1 .. 3 -> 0 .. 255]
    <2>1. ASSUME NEW x \in 0 .. 255, NEW y \in 0 .. 255, NEW z \in 0 .. 255
          PROVE  <<x, y, z>> \in [1 .. 3 -> 0 .. 255]
      OBVIOUS
    <2> DEFINE second == m.dx % 256
               third == m.dy % 256
    <2>2. second \in 0 .. 255 /\ third \in 0 .. 255
      OBVIOUS
    <2>3. first \in 0 .. 255 /\ Packet(m) = <<first, second, third>>
      BY <1>1, <1>5
    <2> HIDE DEF first, second, third
    <2>4. <<first, second, third>> \in [1 .. 3 -> 0 .. 255]
      BY <2>1, <2>2, <2>3
    <2> QED
      BY <2>3, <2>4
  <1>10. /\ Delta(m.dx % 256, Bit(first, 4)) = m.dx
         /\ Delta(m.dy % 256, Bit(first, 5)) = m.dy
    BY <1>3, <1>4, <1>7 DEF Delta
  <1> HIDE DEF first
  <1> QED
    BY <1>5, <1>7, <1>8, <1>9, <1>10 DEF b

-----------------------------------------------------------------------------
(* The handler *)

\* The start: the pointer in the middle of the screen, nothing received.
LEMMA InitMouse == MouseInit => MouseInv
  <1> SUFFICES ASSUME MouseInit
               PROVE  MouseInv
    OBVIOUS
  <1>1. SCREEN_W \div 2 \in 0 .. SCREEN_W - 1 /\ SCREEN_H \div 2 \in 0 .. SCREEN_H - 1
    BY MouseAssumption
  <1>2. <<0, 0, 0>> \in [1 .. 3 -> 0 .. 255]
    OBVIOUS
  <1>3. MouseTypeOK
    BY <1>1, <1>2, MouseAssumption DEF MouseInit, MouseTypeOK
  <1>4. Reassembling
    BY DEF MouseInit, Reassembling, InStep
  <1> QED
    BY <1>3, <1>4 DEF MouseInv

\* Whatever byte the handler reads, of the mouse or not, the pointer stays on the
\* screen and the packet buffer in its bounds (mouse.c:97-158).
LEMMA HandlerTypes ==
  ASSUME HandlerTypeOK, NEW byte \in 0 .. 255, mouse_handler(byte)
  PROVE  HandlerTypeOK'
  <1>1. mouse_cycle + 1 \in 1 .. 3
    BY DEF HandlerTypeOK
  <1>2. mouse_byte' \in [1 .. 3 -> 0 .. 255]
    BY <1>1 DEF HandlerTypeOK, mouse_handler
  <1>3. CASE FirstByte(byte)
    BY <1>2, <1>3 DEF HandlerTypeOK, FirstByte
  <1>4. CASE SecondByte
    BY <1>2, <1>4 DEF HandlerTypeOK, SecondByte
  <1>5. CASE ThirdByte(byte)
    <2> DEFINE dx == Delta(mouse_byte[2], Bit(mouse_byte[1], 4))
               dy == Delta(byte, Bit(mouse_byte[1], 5))
    <2>1. mouse_byte[1] \in 0 .. 255 /\ mouse_byte[2] \in 0 .. 255
      BY DEF HandlerTypeOK
    <2>2. dx \in Int /\ dy \in Int
      BY <2>1 DEF Delta
    <2>3. mouse_x' = Clamp(mouse_x + dx, SCREEN_W) /\ mouse_y' = Clamp(mouse_y - dy, SCREEN_H)
      BY <1>5 DEF ThirdByte
    <2> HIDE DEF dx, dy
    <2>4. mouse_x' \in 0 .. SCREEN_W - 1 /\ mouse_y' \in 0 .. SCREEN_H - 1
      BY <2>2, <2>3, Clamped, MouseAssumption DEF HandlerTypeOK
    <2>5. mouse_cycle' = 0 /\ mouse_updated' = 1 /\ mouse_buttons' = mouse_byte[1] % 8
      BY <1>5 DEF ThirdByte
    <2>6. mouse_buttons' \in 0 .. 7
      BY <2>1, <2>5
    <2> QED
      BY <1>2, <2>4, <2>5, <2>6 DEF HandlerTypeOK
  <1> QED
    BY <1>3, <1>4, <1>5 DEF mouse_handler

\* The device goes on to the next byte, or to the next movement.
LEMMA TransmitTypes ==
  ASSUME MouseTypeOK, Transmit
  PROVE  movement' \in Movements /\ sent' \in 0 .. 2
  BY DEF MouseTypeOK, Transmit

\* One step of the device and the handler: the types.
LEMMA MouseTypes ==
  ASSUME MouseTypeOK, MouseNext
  PROVE  MouseTypeOK'
  <1>1. movement' \in Movements /\ sent' \in 0 .. 2
    BY TransmitTypes DEF MouseNext, Deliver, Lose
  <1>2. HandlerTypeOK' /\ lost' \in 0 .. MaxLost
    <2>1. CASE Deliver
      <3> DEFINE byte == Packet(movement)[sent + 1]
      <3>1. byte \in 0 .. 255
        BY MouseAssumption, Decoding DEF MouseTypeOK
      <3>2. mouse_handler(byte) /\ lost' = lost
        BY <2>1 DEF Deliver
      <3> HIDE DEF byte
      <3>3. HandlerTypeOK
        BY DEF MouseTypeOK, HandlerTypeOK
      <3> QED
        BY <3>1, <3>2, <3>3, HandlerTypes DEF MouseTypeOK
    <2>2. CASE Lose
      BY <2>2, MouseAssumption DEF Lose, MouseTypeOK, HandlerTypeOK, handlerVars
    <2> QED
      BY <2>1, <2>2 DEF MouseNext
  <1> QED
    BY <1>1, <1>2 DEF MouseTypeOK, HandlerTypeOK

\* A byte that is delivered moves the pointer as reported if it is the third of
\* its packet, and not at all otherwise (mouse.c:108-149).
LEMMA DeliverMoves ==
  ASSUME MouseInv, lost = 0, Deliver
  PROVE  /\ sent < 2 => UNCHANGED <<mouse_x, mouse_y, mouse_buttons>>
         /\ sent = 2 => /\ mouse_x' = Clamp(mouse_x + movement.dx, SCREEN_W)
                        /\ mouse_y' = Clamp(mouse_y - movement.dy, SCREEN_H)
                        /\ mouse_buttons' = movement.buttons
         /\ Reassembling'
  <1> DEFINE packet == Packet(movement)
             byte == packet[sent + 1]
  <1>1. /\ packet \in [1 .. 3 -> 0 .. 255]
        /\ Bit(packet[1], 3)
        /\ packet[1] % 8 = movement.buttons
        /\ Delta(packet[2], Bit(packet[1], 4)) = movement.dx
        /\ Delta(packet[3], Bit(packet[1], 5)) = movement.dy
    BY MouseAssumption, Decoding DEF MouseInv, MouseTypeOK
  <1>2. /\ mouse_cycle = sent /\ sent \in 0 .. 2
        /\ sent >= 1 => mouse_byte[1] = packet[1]
        /\ sent >= 2 => mouse_byte[2] = packet[2]
    BY DEF MouseInv, MouseTypeOK, Reassembling, InStep
  <1>3. /\ mouse_byte' = [mouse_byte EXCEPT ![sent + 1] = byte]
        /\ FirstByte(byte) \/ SecondByte \/ ThirdByte(byte)
        /\ Transmit /\ lost' = 0
    BY <1>2 DEF Deliver, mouse_handler
  <1>4. mouse_byte \in [1 .. 3 -> 0 .. 255]
    BY DEF MouseInv, MouseTypeOK
  <1>5. sent < 2 => sent' = sent + 1 /\ Packet(movement)' = packet
    BY <1>3 DEF Transmit, Packet
  <1> HIDE DEF packet
  <1>6. CASE sent = 0
    <2>1. mouse_cycle' = 1 /\ UNCHANGED <<mouse_x, mouse_y, mouse_buttons>>
      BY <1>1, <1>2, <1>3, <1>6 DEF FirstByte, SecondByte, ThirdByte
    <2>2. mouse_byte'[1] = packet[1]
      BY <1>3, <1>4, <1>6
    <2> QED
      BY <1>5, <1>6, <2>1, <2>2 DEF Reassembling, InStep
  <1>7. CASE sent = 1
    <2>1. mouse_cycle' = 2 /\ UNCHANGED <<mouse_x, mouse_y, mouse_buttons>>
      BY <1>2, <1>3, <1>7 DEF FirstByte, SecondByte, ThirdByte
    <2>2. mouse_byte'[1] = packet[1] /\ mouse_byte'[2] = packet[2]
      BY <1>2, <1>3, <1>4, <1>7
    <2> QED
      BY <1>5, <1>7, <2>1, <2>2 DEF Reassembling, InStep
  <1>8. CASE sent = 2
    <2>1. ThirdByte(packet[3])
      BY <1>2, <1>3, <1>8 DEF FirstByte, SecondByte
    <2>2. mouse_cycle' = 0 /\ sent' = 0
      BY <1>3, <1>8, <2>1 DEF ThirdByte, Transmit
    <2>3. Reassembling'
      BY <2>2 DEF Reassembling, InStep
    <2>4. mouse_byte[1] = packet[1] /\ mouse_byte[2] = packet[2]
      BY <1>2, <1>8
    <2>5. /\ mouse_x' = Clamp(mouse_x + movement.dx, SCREEN_W)
          /\ mouse_y' = Clamp(mouse_y - movement.dy, SCREEN_H)
          /\ mouse_buttons' = movement.buttons
      BY <1>1, <2>1, <2>4 DEF ThirdByte
    <2> QED
      BY <1>8, <2>3, <2>5
  <1> QED
    BY <1>2, <1>6, <1>7, <1>8

\* One step of the device and the handler: the invariant.
LEMMA MouseStep ==
  ASSUME MouseInv, MouseNext
  PROVE  MouseInv'
  <1>1. MouseTypeOK'
    BY MouseTypes DEF MouseInv
  <1>2. Reassembling'
    <2>1. CASE Deliver
      <3>1. CASE lost = 0
        BY <2>1, <3>1, DeliverMoves
      <3>2. CASE lost # 0
        BY <2>1, <3>2 DEF Deliver, Reassembling
      <3> QED
        BY <3>1, <3>2
    <2>2. CASE Lose
      <3>1. lost' # 0
        BY <2>2, MouseAssumption DEF Lose, MouseInv, MouseTypeOK
      <3> QED
        BY <3>1 DEF Reassembling
    <2> QED
      BY <2>1, <2>2 DEF MouseNext
  <1> QED
    BY <1>1, <1>2 DEF MouseInv

\* The same of a step that only clears mouse_updated or leaves the mouse alone.
LEMMA MouseRests ==
  ASSUME MouseInv, mouse_updated' \in {mouse_updated, 0},
         UNCHANGED <<mouse_x, mouse_y, mouse_cycle, mouse_byte, mouse_buttons, movement, sent, lost>>
  PROVE  MouseInv'
  <1>1. MouseTypeOK'
    BY DEF MouseInv, MouseTypeOK
  <1>2. Reassembling'
    BY DEF MouseInv, Reassembling, InStep, Packet
  <1> QED
    BY <1>1, <1>2 DEF MouseInv

\* What MovesAsReported says of a step of the device and the handler.
LEMMA StepMoves ==
  ASSUME MouseInv, MouseNext, lost' = 0
  PROVE  LET done == sent = 2
         IN  /\ mouse_x' = Clamp(mouse_x + (IF done THEN movement.dx ELSE 0), SCREEN_W)
             /\ mouse_y' = Clamp(mouse_y - (IF done THEN movement.dy ELSE 0), SCREEN_H)
             /\ done => mouse_buttons' = movement.buttons
  <1>1. Deliver /\ lost = 0
    BY MouseAssumption DEF MouseNext, Deliver, Lose, MouseInv, MouseTypeOK
  <1>2. /\ mouse_x \in 0 .. SCREEN_W - 1 /\ mouse_y \in 0 .. SCREEN_H - 1 /\ sent \in 0 .. 2
        /\ SCREEN_W \in Nat \ {0} /\ SCREEN_H \in Nat \ {0}
    BY MouseAssumption DEF MouseInv, MouseTypeOK
  <1>3. CASE sent = 2
    BY <1>1, <1>3, DeliverMoves
  <1>4. CASE sent < 2
    <2>1. mouse_x' = mouse_x /\ mouse_y' = mouse_y
      BY <1>1, <1>4, DeliverMoves
    <2>2. Clamp(mouse_x + 0, SCREEN_W) = mouse_x /\ Clamp(mouse_y - 0, SCREEN_H) = mouse_y
      BY <1>2 DEF Clamp
    <2> QED
      BY <1>4, <2>1, <2>2
  <1> QED
    BY <1>2, <1>3, <1>4

-----------------------------------------------------------------------------

\* Of the device and the handler alone: the pointer never leaves the screen and,
\* as long as no byte is lost, the handler is where the device is.
THEOREM MouseInvariant == MouseSpec => []MouseInv
  <1>1. MouseInv /\ UNCHANGED mouseVars => MouseInv'
    BY MouseRests DEF mouseVars, handlerVars
  <1>2. MouseInv /\ [MouseNext]_mouseVars => MouseInv'
    BY <1>1, MouseStep
  <1> QED
    BY InitMouse, <1>2, PTL DEF MouseSpec

-----------------------------------------------------------------------------
(* The command byte *)

\* What the command "enable mouse" makes of it.
AuxOn(byte) == IF Bit(byte, AuxOff) THEN byte - 32 ELSE byte

\* The two bits init_mouse is about.
LEMMA BitsAre ==
  ASSUME NEW byte \in Bytes
  PROVE  /\ Bit(byte, 1) <=> (byte \div 2) % 2 = 1
         /\ Bit(byte, AuxOff) <=> (byte \div 32) % 2 = 1
  <1>1. 2 ^ 1 = 2 /\ 2 ^ 5 = 32
    OBVIOUS
  <1> QED
    BY <1>1 DEF Bit, AuxOff

\* Setting bit 1 and clearing bit 5 leaves a byte, and does not care whether bit
\* 5 has been cleared before.
LEMMA CommandByte ==
  ASSUME NEW byte \in Bytes
  PROVE  /\ AuxOn(byte) \in Bytes
         /\ Enabled12(byte) \in Bytes
         /\ Enabled12(AuxOn(byte)) = Enabled12(byte)
  <1> DEFINE one(b) == (b \div 2) % 2 = 1
             five(b) == (b \div 32) % 2 = 1
             set(b) == IF one(b) THEN b ELSE b + 2
  <1>1. ASSUME NEW b \in Bytes
        PROVE  /\ b - 32 \in Bytes \/ ~five(b)
               /\ b + 2 \in Bytes \/ one(b)
    BY DEF Bytes
  <1>2. ASSUME NEW b \in Bytes PROVE set(b) \in Bytes
    BY <1>1, <1>2
  <1>3. ASSUME NEW b \in Bytes
        PROVE  Enabled12(b) = IF five(set(b)) THEN set(b) - 32 ELSE set(b)
    BY <1>2, <1>3, BitsAre DEF Enabled12
  <1>4. ASSUME NEW b \in Bytes PROVE AuxOn(b) = IF five(b) THEN b - 32 ELSE b
    BY <1>4, BitsAre DEF AuxOn
  <1>5. AuxOn(byte) \in Bytes /\ Enabled12(byte) \in Bytes
    <2>1. AuxOn(byte) \in Bytes
      BY <1>1, <1>4
    <2>2. Enabled12(byte) \in Bytes
      BY <1>1, <1>2, <1>3
    <2> QED
      BY <2>1, <2>2
  <1>6. Enabled12(AuxOn(byte)) = Enabled12(byte)
    <2>1. CASE ~five(byte)
      BY <1>4, <2>1
    <2>2. CASE five(byte)
      <3> DEFINE c == byte - 32
      <3>1. c \in Bytes /\ AuxOn(byte) = c
        BY <1>1, <1>4, <2>2
      <3>2. (one(c) <=> one(byte)) /\ ~five(c)
        BY <2>2 DEF Bytes
      <3>3. CASE one(byte)
        <4>1. set(c) = c /\ set(byte) = byte
          BY <3>2, <3>3
        <4> QED
          BY <1>3, <2>2, <3>1, <3>2, <4>1
      <3>4. CASE ~one(byte)
        <4>1. set(c) = c + 2 /\ set(byte) = byte + 2
          BY <3>2, <3>4
        <4>2. ~five(c + 2) /\ five(byte + 2)
          BY <2>2, <3>4 DEF Bytes
        <4> QED
          BY <1>3, <3>1, <4>1, <4>2 DEF Bytes
      <3> QED
        BY <3>3, <3>4
    <2> QED
      BY <2>1, <2>2
  <1> QED
    BY <1>5, <1>6

-----------------------------------------------------------------------------
(* Types *)

\* Everything but the mouse's own state: the controller and the main program.
ControllerOK ==
    /\ out \in [data : Bytes, full : BOOLEAN, from : Sources]
    /\ command \in Bytes /\ before \in CommandBytes
    /\ answers \in [Sources -> Seq(Bytes)] /\ reporting \in BOOLEAN
    /\ keys \in 0 .. MaxKeys
    /\ irr \subseteq {1, 12} /\ running \in {"main", "keyboard", "mouse"}
    /\ order \in {Defaults, EnableReporting} /\ status \in Bytes

\* The two halves of the type invariant.
LEMMA Split == SetupTypeOK <=> MouseTypeOK /\ ControllerOK
  BY DEF SetupTypeOK, ControllerOK

\* The bytes init_mouse sends and the mouse answers are bytes.
LEMMA Codes == Defaults \in Bytes /\ EnableReporting \in Bytes /\ ACK \in Bytes
  BY DEF Defaults, EnableReporting, ACK, Bytes

\* A byte that is read leaves the buffer empty, with the byte still in it.
LEMMA Taking ==
  ASSUME ControllerOK, TakeByte
  PROVE  /\ out' \in [data : Bytes, full : BOOLEAN, from : Sources]
         /\ out'.data = out.data /\ ~out'.full
         /\ irr' \subseteq {1, 12}
  <1>1. out' = [out EXCEPT !.full = FALSE] /\ irr' \in {irr, irr \ Requests(out.from)}
    BY DEF TakeByte
  <1> QED
    BY <1>1 DEF ControllerOK

\* An answer that is put under way is one more byte.
LEMMA Answering ==
  ASSUME ControllerOK, NEW s \in Sources, NEW byte \in Bytes,
         answers' = [answers EXCEPT ![s] = Append(@, byte)]
  PROVE  /\ answers' \in [Sources -> Seq(Bytes)]
         /\ answers'[s] = Append(answers[s], byte)
         /\ \A r \in Sources \ {s} : answers'[r] = answers[r]
  <1>1. answers[s] \in Seq(Bytes)
    BY DEF ControllerOK
  <1>2. Append(answers[s], byte) \in Seq(Bytes)
    BY <1>1
  <1> QED
    BY <1>2 DEF ControllerOK

\* What is written to the two ports.
LEMMA Commanding ==
  ASSUME ControllerOK, NEW c, Command(c)
  PROVE  command' \in Bytes /\ answers' \in [Sources -> Seq(Bytes)]
  <1>1. command' \in Bytes
    <2>1. command \in Bytes
      BY DEF ControllerOK
    <2>2. command' = IF c = "enable mouse" THEN AuxOn(command) ELSE command
      BY DEF Command, AuxOn
    <2> QED
      BY <2>1, <2>2, CommandByte
  <1>2. answers' \in [Sources -> Seq(Bytes)]
    <2>1. CASE c = "read command byte"
      BY <2>1, Answering DEF Command, Answer, ControllerOK, Sources
    <2>2. CASE c # "read command byte"
      BY <2>2 DEF Command, ControllerOK
    <2> QED
      BY <2>1, <2>2
  <1> QED
    BY <1>1, <1>2

\* What is written to the data port.
LEMMA Writing ==
  ASSUME ControllerOK, NEW byte \in Bytes, Data(byte)
  PROVE  /\ command' \in Bytes /\ answers' \in [Sources -> Seq(Bytes)] /\ reporting' \in BOOLEAN
  <1>1. command' \in Bytes
    BY DEF Data, ControllerOK
  <1>2. answers' \in [Sources -> Seq(Bytes)]
    <2>1. <<ACK>> \in Seq(Bytes)
      BY Codes
    <2>2. CASE expects = "to the mouse"
      BY <2>1, <2>2 DEF Data, ControllerOK
    <2>3. CASE expects # "to the mouse"
      BY <2>3 DEF Data, ControllerOK
    <2> QED
      BY <2>2, <2>3
  <1>3. reporting' \in BOOLEAN
    BY DEF Data, ControllerOK
  <1> QED
    BY <1>1, <1>2, <1>3

\* A step of init_mouse: the controller, the main program's own variables.
LEMMA MainTypes == SetupTypeOK /\ init_mouse => SetupTypeOK'
  <1> SUFFICES ASSUME SetupTypeOK, init_mouse PROVE ControllerOK' /\ MouseTypeOK'
    BY DEF SetupTypeOK, ControllerOK
  <1>1. ControllerOK /\ MouseTypeOK
    BY Split
  <1>2. UNCHANGED <<mouseVars, before, keys, running>>
    BY DEF init_mouse, Main, FlushTest, FlushTake, EnableAux, AskCommandByte, WaitCommandByte,
           TakeCommandByte, Announce, WriteBack, Address, Send, WaitAck, TakeAck
  <1>3. MouseTypeOK'
    BY <1>1, <1>2 DEF MouseTypeOK, mouseVars, handlerVars
  <1>4. ControllerOK'
    <2>1. CASE FlushTest \/ WaitCommandByte \/ WaitAck
      BY <1>1, <1>2, <2>1 DEF FlushTest, WaitCommandByte, WaitAck, hardware, ControllerOK
    <2>2. CASE FlushTake
      BY <1>1, <1>2, <2>2, Taking DEF FlushTake, ControllerOK
    <2>3. CASE TakeCommandByte
      <3>1. out.data \in Bytes
        BY <1>1 DEF ControllerOK
      <3>2. status' \in Bytes
        BY <2>3, <3>1, CommandByte DEF TakeCommandByte
      <3> QED
        BY <1>1, <1>2, <2>3, <3>2, Taking DEF TakeCommandByte, ControllerOK
    <2>4. CASE TakeAck
      BY <1>1, <1>2, <2>4, Taking DEF TakeAck, ControllerOK
    <2>5. ASSUME NEW c, Command(c), UNCHANGED <<order, status>> PROVE ControllerOK'
      BY <1>1, <1>2, <2>5, Commanding DEF Command, ControllerOK
    <2>6. CASE EnableAux \/ AskCommandByte \/ Announce \/ Address
      BY <2>5, <2>6 DEF EnableAux, AskCommandByte, Announce, Address
    <2>7. ASSUME NEW byte \in Bytes, Data(byte), UNCHANGED <<order, status>> PROVE ControllerOK'
      BY <1>1, <1>2, <2>7, Writing DEF Data, ControllerOK
    <2>8. CASE WriteBack \/ Send
      <3>1. status \in Bytes /\ order \in Bytes
        BY <1>1, Codes DEF ControllerOK
      <3> QED
        BY <2>7, <2>8, <3>1 DEF WriteBack, Send
    <2> QED
      BY <2>1, <2>2, <2>3, <2>4, <2>6, <2>8 DEF init_mouse
  <1> QED
    BY <1>3, <1>4

\* An interrupt, and what the handlers do with the byte.
LEMMA HandlersType == SetupTypeOK /\ Handler => SetupTypeOK'
  <1> SUFFICES ASSUME SetupTypeOK, Handler PROVE ControllerOK' /\ MouseTypeOK'
    BY DEF SetupTypeOK, ControllerOK
  <1>1. ControllerOK /\ MouseTypeOK
    BY Split
  <1>2. CASE TakeInterrupt
    <2>1. /\ UNCHANGED <<out, command, before, answers, reporting, keys, order, status>>
          /\ UNCHANGED mouseVars /\ running' \in {"keyboard", "mouse"}
          /\ irr' \in {irr \ {1}, irr \ {12}}
      BY <1>2 DEF TakeInterrupt, mainVars
    <2>2. irr' \subseteq {1, 12}
      BY <1>1, <2>1 DEF ControllerOK
    <2>3. ControllerOK'
      BY <1>1, <2>1, <2>2 DEF ControllerOK
    <2> QED
      BY <1>1, <2>1, <2>3 DEF MouseTypeOK, mouseVars, handlerVars
  <1>3. CASE KeyboardHandler
    <2>1. MouseTypeOK'
      BY <1>1, <1>3 DEF KeyboardHandler, MouseTypeOK, mouseVars, handlerVars
    <2>2. /\ UNCHANGED <<command, before, answers, reporting, keys, order, status>>
          /\ running' = "main"
      BY <1>3 DEF KeyboardHandler, mainVars
    <2>3. out' \in [data : Bytes, full : BOOLEAN, from : Sources] /\ irr' \subseteq {1, 12}
      <3>1. CASE TakeByte
        BY <1>1, <3>1, Taking
      <3>2. CASE UNCHANGED <<out, irr>>
        BY <1>1, <3>2 DEF ControllerOK
      <3> QED
        BY <1>3, <3>1, <3>2 DEF KeyboardHandler
    <2>4. ControllerOK'
      BY <1>1, <2>2, <2>3 DEF ControllerOK
    <2> QED
      BY <2>1, <2>4
  <1>4. CASE MouseHandler
    <2>1. CASE TakeByte /\ mouse_handler(out.data)
      <3>1. HandlerTypeOK /\ out.data \in 0 .. 255
        BY <1>1 DEF MouseTypeOK, HandlerTypeOK, ControllerOK, Bytes
      <3>2. HandlerTypeOK'
        BY <2>1, <3>1, HandlerTypes
      <3>3. MouseTypeOK'
        BY <1>1, <1>4, <3>2 DEF MouseHandler, MouseTypeOK, HandlerTypeOK
      <3>4. ControllerOK'
        BY <1>1, <1>4, <2>1, Taking DEF MouseHandler, ControllerOK, mainVars
      <3> QED
        BY <3>3, <3>4
    <2>2. CASE UNCHANGED <<out, irr, handlerVars>>
      BY <1>1, <1>4, <2>2 DEF MouseHandler, ControllerOK, MouseTypeOK, handlerVars, mainVars
    <2> QED
      BY <1>4, <2>1, <2>2 DEF MouseHandler
  <1> QED
    BY <1>2, <1>3, <1>4 DEF Handler

\* A byte arrives, a key is pressed, the mouse is moved.
LEMMA HardwareTypes == SetupTypeOK /\ Hardware => SetupTypeOK'
  <1> SUFFICES ASSUME SetupTypeOK, Hardware PROVE ControllerOK' /\ MouseTypeOK'
    BY DEF SetupTypeOK, ControllerOK
  <1>1. ControllerOK /\ MouseTypeOK
    BY Split
  <1>2. ASSUME NEW s \in Sources, Arrive(s) PROVE ControllerOK' /\ MouseTypeOK'
    <2>1. answers[s] \in Seq(Bytes) /\ answers[s] # <<>>
      BY <1>1, <1>2 DEF Arrive, ControllerOK
    <2>2. Head(answers[s]) \in Bytes /\ Tail(answers[s]) \in Seq(Bytes)
      BY <2>1
    <2>3. out' \in [data : Bytes, full : BOOLEAN, from : Sources]
      BY <1>2, <2>2 DEF Arrive
    <2>4. answers' \in [Sources -> Seq(Bytes)]
      BY <1>1, <1>2, <2>2 DEF Arrive, ControllerOK
    <2>5. irr' \subseteq {1, 12}
      BY <1>1, <1>2 DEF Arrive, Requests, ControllerOK
    <2> QED
      BY <1>1, <1>2, <2>3, <2>4, <2>5
         DEF Arrive, ControllerOK, MouseTypeOK, mouseVars, handlerVars, mainVars
  <1>3. ASSUME NEW byte \in Scancodes, PressKey(byte) PROVE ControllerOK' /\ MouseTypeOK'
    <2>1. byte \in Bytes /\ "keyboard" \in Sources /\ MaxKeys \in Nat
      BY I8042Assumption DEF Sources
    <2>2. answers' \in [Sources -> Seq(Bytes)]
      BY <1>1, <1>3, <2>1, Answering DEF PressKey
    <2>3. keys' \in 0 .. MaxKeys
      BY <1>1, <1>3, <2>1 DEF PressKey, ControllerOK
    <2> QED
      BY <1>1, <1>3, <2>2, <2>3
         DEF PressKey, ControllerOK, MouseTypeOK, mouseVars, handlerVars, mainVars
  <1>4. CASE Move
    <2>1. Packet(movement)[sent + 1] \in Bytes
      BY <1>1, MouseAssumption, Decoding DEF MouseTypeOK, Bytes
    <2>2. answers' \in [Sources -> Seq(Bytes)]
      <3>1. <<Packet(movement)[sent + 1]>> \in Seq(Bytes)
        BY <2>1
      <3> QED
        BY <1>1, <1>4, <3>1 DEF Move, ControllerOK
    <2>3. movement' \in Movements /\ sent' \in 0 .. 2
      BY <1>1, <1>4, TransmitTypes DEF Move
    <2>4. MouseTypeOK'
      BY <1>1, <1>4, <2>3 DEF Move, MouseTypeOK, handlerVars
    <2> QED
      BY <1>1, <1>4, <2>2, <2>4 DEF Move, ControllerOK, mainVars
  <1> QED
    BY <1>2, <1>3, <1>4 DEF Hardware

\* Every step keeps the types.
LEMMA TypesStep == SetupTypeOK /\ [SetupNext]_setupVars => SetupTypeOK'
  <1>1. SetupTypeOK /\ UNCHANGED setupVars => SetupTypeOK'
    BY DEF SetupTypeOK, MouseTypeOK, setupVars, mouseVars, handlerVars, hardware, mainVars
  <1> QED
    BY <1>1, MainTypes, HandlersType, HardwareTypes DEF SetupNext

\* The firmware's command byte, and what its keyboard has left in the buffer.
LEMMA TypesStart == SetupInit => SetupTypeOK
  <1> SUFFICES ASSUME SetupInit PROVE MouseTypeOK /\ ControllerOK
    BY Split
  <1>1. MouseTypeOK
    BY InitMouse DEF SetupInit, MouseInv
  <1>2. PICK full \in BOOLEAN, byte \in Scancodes :
          out = [data |-> byte, full |-> full, from |-> "keyboard"]
    BY DEF SetupInit
  <1>3. out \in [data : Bytes, full : BOOLEAN, from : Sources]
    BY <1>2, I8042Assumption DEF Sources
  <1>4. answers \in [Sources -> Seq(Bytes)]
    BY DEF SetupInit
  <1>5. command \in Bytes /\ before \in CommandBytes
    BY I8042Assumption DEF SetupInit
  <1>6. keys \in 0 .. MaxKeys /\ status \in Bytes
    BY I8042Assumption DEF SetupInit, Bytes
  <1>7. irr = {} /\ running = "main" /\ order = Defaults /\ reporting = FALSE
    BY DEF SetupInit
  <1> QED
    BY <1>1, <1>3, <1>4, <1>5, <1>6, <1>7 DEF ControllerOK

\* Whatever bytes arrive, and whoever takes them: the bytes under way, the
\* command byte and the status are bytes, and the handler, which gets bytes that
\* are none of the mouse's, keeps the pointer on the screen.
THEOREM I8042Typed == SetupSpec => []SetupTypeOK
  BY TypesStart, TypesStep, PTL DEF SetupSpec

-----------------------------------------------------------------------------
(* The set-up *)

\* Before and after the command byte has been written back.
Early == {"flush", "discard", "enable", "ask", "wait byte", "take byte", "announce", "write back"}
Late == {"address", "send", "wait ack", "take ack", "done"}

\* What the controller takes the next byte for, and when the mouse is told to
\* report.
Told ==
    /\ at \in Early \union Late
    /\ at \in Early => reporting = FALSE
    /\ at = "write back" => expects = "write command byte"
    /\ at = "send" => expects = "to the mouse"
    /\ at \in {"wait ack", "take ack"} /\ order = EnableReporting => reporting = TRUE
    /\ at = "done" => reporting = TRUE

\* If no key is pressed, the controller's answer is the only byte there is once
\* the buffer has been flushed, and what the port gives even to a read that
\* comes after the handlers'.
Followed ==
    /\ answers["keyboard"] = <<>>
    /\ at \in Early => answers["mouse"] = <<>>
    /\ at \in Early \ {"wait byte"} => answers["controller"] = <<>>
    /\ at \in {"flush", "discard", "enable"} => command = before
    /\ at \in {"enable", "ask"} => ~out.full
    /\ at \in {"ask", "wait byte", "take byte"} => command = AuxOn(before)
    /\ at = "wait byte" => \/ answers["controller"] = <<command>> /\ ~out.full
                           \/ answers["controller"] = <<>> /\ out.data = command
    /\ at = "take byte" => out.data = command
    /\ at \in {"announce", "write back"} => status = Enabled12(before)
    /\ at \in Late => command = Enabled12(before)

SetUp == Told /\ (keys = 0 => Followed)

\* The start of init_mouse.
LEMMA SetUpStart == SetupInit => SetUp
  <1> SUFFICES ASSUME SetupInit PROVE SetUp
    OBVIOUS
  <1>1. at = "flush" /\ reporting = FALSE /\ command = before
    BY DEF SetupInit
  <1>2. answers = [s \in Sources |-> <<>>]
    BY DEF SetupInit
  <1> QED
    BY <1>1, <1>2 DEF SetUp, Told, Followed, Early, Late, Sources

\* init_mouse goes through its places in order.
LEMMA MainTold == SetupTypeOK /\ Told /\ init_mouse => Told'
  <1> SUFFICES ASSUME SetupTypeOK, Told, init_mouse PROVE Told'
    OBVIOUS
  <1>1. order \in {Defaults, EnableReporting} /\ Defaults # EnableReporting
    BY DEF SetupTypeOK, Defaults, EnableReporting
  <1>2. CASE FlushTest \/ FlushTake
    BY <1>2 DEF FlushTest, FlushTake, Main, hardware, Told, Early, Late
  <1>3. CASE EnableAux \/ AskCommandByte
    BY <1>3 DEF EnableAux, AskCommandByte, Main, Command, Told, Early, Late
  <1>4. CASE WaitCommandByte \/ TakeCommandByte
    BY <1>4 DEF WaitCommandByte, TakeCommandByte, Main, hardware, Told, Early, Late
  <1>5. CASE Announce \/ Address
    BY <1>5 DEF Announce, Address, Main, Command, Told, Early, Late
  <1>6. CASE WriteBack
    BY <1>6 DEF WriteBack, Main, Data, Told, Early, Late
  <1>7. CASE Send
    <2>1. at' = "wait ack" /\ (order = EnableReporting => reporting' = TRUE) /\ order' = order
      BY <1>7 DEF Send, Main, Data, Told
    <2> QED
      BY <2>1 DEF Told, Early, Late
  <1>8. CASE WaitAck
    BY <1>8 DEF WaitAck, Main, hardware, Told, Early, Late
  <1>9. CASE TakeAck
    <2>1. /\ at = "take ack" /\ at' = (IF order = Defaults THEN "address" ELSE "done")
          /\ reporting' = reporting
      BY <1>9 DEF TakeAck, Main
    <2> QED
      BY <1>1, <2>1 DEF Told, Early, Late
  <1> QED
    BY <1>2, <1>3, <1>4, <1>5, <1>6, <1>7, <1>8, <1>9 DEF init_mouse

\* init_mouse itself, if no key is pressed: the command byte it writes back is
\* the one it has read, which is the one there is.
LEMMA MainFollows == SetupTypeOK /\ Told /\ Followed /\ init_mouse => Followed'
  <1> SUFFICES ASSUME SetupTypeOK, Told, Followed, init_mouse PROVE Followed'
    OBVIOUS
  <1>1. UNCHANGED before
    BY DEF init_mouse, Main, FlushTest, FlushTake, EnableAux, AskCommandByte, WaitCommandByte,
           TakeCommandByte, Announce, WriteBack, Address, Send, WaitAck, TakeAck
  <1>2. ControllerOK /\ before \in Bytes
    BY I8042Assumption, Split DEF SetupTypeOK
  <1>3. CASE FlushTest
    BY <1>1, <1>3 DEF FlushTest, Main, hardware, Followed, Early, Late
  <1>4. CASE FlushTake
    BY <1>1, <1>4 DEF FlushTake, Main, Followed, Early, Late
  <1>5. CASE EnableAux
    <2>1. command' = AuxOn(command)
      BY <1>5 DEF EnableAux, Command, AuxOn
    <2> QED
      BY <1>1, <1>5, <2>1 DEF EnableAux, Main, Command, Followed, Early, Late
  <1>6. CASE AskCommandByte
    <2>1. answers' = [answers EXCEPT !["controller"] = Append(@, command)]
      BY <1>6 DEF AskCommandByte, Command, Answer
    <2>2. answers["controller"] = <<>> /\ command \in Bytes
      BY <1>2, <1>6 DEF AskCommandByte, Main, Followed, Early, ControllerOK
    <2>3. /\ answers'["controller"] = Append(<<>>, command)
          /\ answers'["keyboard"] = answers["keyboard"] /\ answers'["mouse"] = answers["mouse"]
      BY <1>2, <2>1, <2>2, Answering DEF Sources
    <2>4. answers'["controller"] = <<command>>
      BY <2>3
    <2> QED
      BY <1>1, <1>6, <2>3, <2>4 DEF AskCommandByte, Main, Command, Followed, Early, Late
  <1>7. CASE WaitCommandByte
    <2>1. answers["controller"] = <<>> /\ out.data = command
      <3>1. <<command>> # <<>>
        OBVIOUS
      <3> QED
        BY <1>7, <3>1 DEF WaitCommandByte, Main, Waited, AnswerDue, Followed
    <2> QED
      BY <1>1, <1>7, <2>1 DEF WaitCommandByte, Main, hardware, Followed, Early, Late
  <1>8. CASE TakeCommandByte
    <2>1. status' = Enabled12(AuxOn(before))
      BY <1>8 DEF TakeCommandByte, Main, Followed
    <2>2. status' = Enabled12(before)
      BY <1>2, <2>1, CommandByte
    <2> QED
      BY <1>1, <1>8, <2>2 DEF TakeCommandByte, Main, Followed, Early, Late
  <1>9. CASE Announce
    BY <1>1, <1>9 DEF Announce, Main, Command, Followed, Early, Late
  <1>10. CASE WriteBack
    BY <1>1, <1>10 DEF WriteBack, Main, Data, Told, Followed, Early, Late
  <1>11. CASE Address
    BY <1>1, <1>11 DEF Address, Main, Command, Followed, Early, Late
  <1>12. CASE Send
    <2>1. at' = "wait ack" /\ at = "send" /\ command' = command
      BY <1>12 DEF Send, Main, Data, Told
    <2>2. answers'["keyboard"] = answers["keyboard"]
      BY <1>2, <1>12 DEF Send, Data, ControllerOK, Sources
    <2> QED
      BY <1>1, <2>1, <2>2 DEF Followed, Early, Late
  <1>13. CASE WaitAck
    BY <1>1, <1>13 DEF WaitAck, Main, hardware, Followed, Early, Late
  <1>14. CASE TakeAck
    BY <1>1, <1>14 DEF TakeAck, Main, Followed, Early, Late
  <1> QED
    BY <1>3, <1>4, <1>5, <1>6, <1>7, <1>8, <1>9, <1>10, <1>11, <1>12, <1>13, <1>14
       DEF init_mouse

\* The handlers take bytes, and leave them in the port.
LEMMA HandlersSetUp == SetupTypeOK /\ SetUp /\ Handler => SetUp'
  <1> SUFFICES ASSUME SetupTypeOK, SetUp, Handler PROVE SetUp'
    OBVIOUS
  <1>1. UNCHANGED <<command, expects, answers, reporting, before, keys, at, order, status>>
    BY DEF Handler, TakeInterrupt, KeyboardHandler, MouseHandler, mainVars
  <1>2. \/ out' = out
        \/ out'.data = out.data /\ out'.full = FALSE
    <2>1. ControllerOK
      BY Split
    <2>2. out' = out \/ TakeByte
      BY DEF Handler, TakeInterrupt, KeyboardHandler, MouseHandler
    <2>3. CASE TakeByte
      <3>1. out' = [out EXCEPT !.full = FALSE]
        BY <2>3 DEF TakeByte
      <3> QED
        BY <2>1, <3>1 DEF ControllerOK
    <2> QED
      BY <2>2, <2>3
  <1>3. Told'
    BY <1>1 DEF SetUp, Told
  <1>4. ASSUME Followed PROVE Followed'
    BY <1>1, <1>2, <1>4 DEF Followed
  <1> QED
    BY <1>1, <1>3, <1>4 DEF SetUp

\* The only byte that arrives before the mouse is spoken to is the controller's
\* answer.
LEMMA HardwareSetUp == SetupTypeOK /\ SetUp /\ Hardware => SetUp'
  <1> SUFFICES ASSUME SetupTypeOK, SetUp, Hardware PROVE SetUp'
    OBVIOUS
  <1>1. ControllerOK
    BY Split
  <1>2. UNCHANGED <<command, expects, reporting, before, at, order, status>>
    BY DEF Hardware, Arrive, PressKey, Move, mainVars
  <1>3. Told'
    BY <1>2 DEF SetUp, Told
  <1>4. ASSUME NEW s \in Sources, Arrive(s), keys' = 0 PROVE Followed'
    <2>1. keys = 0 /\ Followed
      BY <1>4 DEF Arrive, SetUp
    <2>2. answers[s] # <<>> /\ ~out.full /\ answers[s] \in Seq(Bytes)
      BY <1>1, <1>4 DEF Arrive, ControllerOK
    <2>3. /\ out'.data = Head(answers[s])
          /\ answers' = [answers EXCEPT ![s] = Tail(@)]
      BY <1>4 DEF Arrive
    <2>4. /\ answers'[s] = Tail(answers[s])
          /\ \A r \in Sources \ {s} : answers'[r] = answers[r]
      BY <1>1, <2>3 DEF ControllerOK
    <2>5. CASE at \in Early
      <3>1. s = "controller" /\ at = "wait byte"
        BY <2>1, <2>2, <2>5 DEF Followed, Sources, Early
      <3>2. answers["controller"] = <<command>>
        BY <2>1, <2>2, <3>1 DEF Followed
      <3>3. answers'["controller"] = <<>> /\ out'.data = command
        <4>1. ASSUME NEW x PROVE Head(<<x>>) = x /\ Tail(<<x>>) = <<>>
          OBVIOUS
        <4>2. answers[s] = <<command>>
          BY <3>1, <3>2
        <4>3. Head(answers[s]) = command /\ Tail(answers[s]) = <<>>
          BY <4>1, <4>2
        <4> QED
          BY <2>3, <2>4, <3>1, <4>3
      <3>4. answers'["keyboard"] = <<>> /\ answers'["mouse"] = <<>>
        BY <2>1, <2>4, <3>1 DEF Followed, Sources, Early
      <3> QED
        BY <1>2, <2>1, <3>1, <3>3, <3>4 DEF Followed, Early, Late
    <2>6. CASE at \notin Early
      <3>1. s # "keyboard"
        BY <2>1, <2>2 DEF Followed
      <3>2. answers'["keyboard"] = <<>>
        BY <2>1, <2>4, <3>1 DEF Followed, Sources
      <3> QED
        BY <1>2, <2>1, <2>6, <3>2 DEF Followed, Early
    <2> QED
      BY <2>5, <2>6
  <1>5. ASSUME NEW byte, PressKey(byte) PROVE keys' # 0
    BY <1>1, <1>5, I8042Assumption DEF PressKey, ControllerOK
  <1>6. ASSUME Move, keys' = 0 PROVE Followed'
    <2>1. keys = 0 /\ Followed /\ UNCHANGED out
      BY <1>6 DEF Move, SetUp
    <2>2. at \notin Early
      BY <1>6 DEF Move, SetUp, Told
    <2>3. answers'["keyboard"] = answers["keyboard"]
      BY <1>1, <1>6 DEF Move, ControllerOK, Sources
    <2> QED
      BY <1>2, <2>1, <2>2, <2>3 DEF Followed, Early
  <1> QED
    BY <1>3, <1>4, <1>5, <1>6 DEF Hardware, SetUp

\* Every step of init_mouse, of the handlers and of the hardware.
LEMMA SetUpStep == SetupTypeOK /\ SetUp /\ [SetupNext]_setupVars => SetUp'
  <1> SUFFICES ASSUME SetupTypeOK, SetUp, [SetupNext]_setupVars PROVE SetUp'
    OBVIOUS
  <1>1. CASE init_mouse
    <2>1. keys' = keys
      BY <1>1 DEF init_mouse, Main, FlushTest, FlushTake, EnableAux, AskCommandByte,
             WaitCommandByte, TakeCommandByte, Announce, WriteBack, Address, Send, WaitAck, TakeAck
    <2> QED
      BY <1>1, <2>1, MainTold, MainFollows DEF SetUp
  <1>2. CASE Handler
    BY <1>2, HandlersSetUp
  <1>3. CASE Hardware
    BY <1>3, HardwareSetUp
  <1>4. CASE UNCHANGED setupVars
    BY <1>4 DEF setupVars, hardware, mainVars, SetUp, Told, Followed
  <1> QED
    BY <1>1, <1>2, <1>3, <1>4 DEF SetupNext

\* The invariant of the set-up.
THEOREM I8042Invariant == SetupSpec => [](SetupTypeOK /\ SetUp)
  <1>1. SetupInit => SetupTypeOK /\ SetUp
    BY TypesStart, SetUpStart
  <1>2. SetupTypeOK /\ SetUp /\ [SetupNext]_setupVars => (SetupTypeOK /\ SetUp)'
    BY TypesStep, SetUpStep
  <1> QED
    BY <1>1, <1>2, PTL DEF SetupSpec

\* When init_mouse returns and no key was pressed, the mouse reports, its
\* interrupt and its clock are on, and every other bit of the command byte is as
\* the firmware left it, although the handlers may have taken every byte that
\* init_mouse waited for: MouseOn, for every command byte and every scancode in
\* the buffer.
THEOREM SetUpSucceeds == SetupSpec => []MouseOn
  <1>1. SetUp => MouseOn
    BY DEF SetUp, Told, Followed, Late, MouseOn
  <1> QED
    BY <1>1, I8042Invariant, PTL

\* The mouse reports even if keys were pressed meanwhile: what they can spoil is
\* the command byte (and with it the mouse's interrupt), not the two commands to
\* the mouse, which are sent whatever is read.
THEOREM MouseReports == SetupSpec => [](at = "done" => reporting = TRUE)
  <1>1. SetUp => (at = "done" => reporting = TRUE)
    BY DEF SetUp, Told
  <1> QED
    BY <1>1, I8042Invariant, PTL

-----------------------------------------------------------------------------
(* Pixel indices *)

\* A pixel of the screen has an index of its own, from which its column and its
\* row can be told.
LEMMA Index ==
  ASSUME NEW w \in Nat \ {0}, NEW x \in 0 .. w - 1, NEW y \in Nat
  PROVE  /\ y * w + x \in Nat
         /\ (y * w + x) % w = x /\ (y * w + x) \div w = y
  OBVIOUS

\* ... and every index is that of its column and its row.
LEMMA OfIndex ==
  ASSUME NEW w \in Nat \ {0}, NEW i \in Nat
  PROVE  i % w \in 0 .. w - 1 /\ i \div w \in Nat /\ i = (i \div w) * w + (i % w)
  OBVIOUS

\* The rows of the screen.
LEMMA Rows ==
  ASSUME NEW w \in Nat \ {0}, NEW h \in Nat \ {0}, NEW i \in Nat
  PROVE  i < w * h <=> i \div w < h
  OBVIOUS

-----------------------------------------------------------------------------
(* Types *)

\* The colours the code names are colours.
LEMMA Palette == {Black, Grey, Blue, Magenta, White} \subseteq Colours
  <1>1. /\ White \in Nat /\ Black \in Nat /\ Grey \in Nat /\ Blue \in Nat /\ Magenta \in Nat
        /\ Black <= White /\ Grey <= White /\ Blue <= White /\ Magenta <= White
    BY DEF White, Black, Grey, Blue, Magenta
  <1> QED
    BY <1>1 DEF Colours

\* Drawing an image of colours into a buffer of colours gives one, wherever it is
\* drawn and whatever the framebuffer's geometry (vesa.c:123-134).
LEMMA PutTypes ==
  ASSUME NEW buf \in [Pixels -> Colours], NEW x, NEW y, NEW image,
         \A o \in DOMAIN image : image[o] \in Colours
  PROVE  PutAll(buf, x, y, image) \in [Pixels -> Colours]
  <1> DEFINE hit == {o \in DOMAIN image : can_put(x + o[1], y + o[2])}
  <1>1. PutAll(buf, x, y, image) =
           [i \in Pixels |->
               IF \E o \in hit : i = put_index(x + o[1], y + o[2])
               THEN image[CHOOSE o \in hit : i = put_index(x + o[1], y + o[2])]
               ELSE buf[i]]
    BY DEF PutAll
  <1>2. ASSUME NEW i \in Pixels, \E o \in hit : i = put_index(x + o[1], y + o[2])
        PROVE  image[CHOOSE o \in hit : i = put_index(x + o[1], y + o[2])] \in Colours
    BY <1>2
  <1> HIDE DEF hit
  <1> QED
    BY <1>1, <1>2

\* The area under the cursor is read inside the buffer (vesa.c:143-150, 300-308).
LEMMA SaveTypes ==
  ASSUME NEW buf \in [Pixels -> Colours], NEW x \in Nat, NEW y \in Nat
  PROVE  mouse_save_back(buf, x, y) \in [Square -> Colours]
  <1> SUFFICES ASSUME NEW o \in Square
               PROVE  vesa_get_pixel(buf, x + o[1], y + o[2]) \in Colours
    BY DEF mouse_save_back
  <1>1. x + o[1] \in Nat /\ y + o[2] \in Nat
    BY PointerAssumption DEF Square, Places
  <1>2. ASSUME NEW cx \in Nat, NEW cy \in Nat
        PROVE  vesa_get_pixel(buf, cx, cy) \in Colours
    <2>1. CASE cx < SCREEN_W /\ cy < SCREEN_H
      <3>1. cy * SCREEN_W + cx \in Nat /\ cy * SCREEN_W + cx < SCREEN_W * SCREEN_H
        BY <2>1, MouseAssumption, Index, Rows
      <3>2. cy * SCREEN_W + cx \in Pixels
        BY <3>1, MouseAssumption, PointerAssumption DEF Pixels, Larger
      <3> QED
        BY <2>1, <3>2 DEF vesa_get_pixel
    <2>2. CASE ~(cx < SCREEN_W /\ cy < SCREEN_H)
      BY <2>2, Palette DEF vesa_get_pixel
    <2> QED
      BY <2>1, <2>2
  <1> QED
    BY <1>1, <1>2

\* The colour whose bytes these are.
Mixed(p, c) == c = p[3] * 65536 + p[2] * 256 + p[1]

\* A pixel has the bytes of its depth, and they are its colour.
LEMMA PixelHolds ==
  ASSUME NEW c \in Nat, NEW bits \in {24, 32}
  PROVE  /\ PixelBytes(c, bits) \in Seq(Int) /\ Len(PixelBytes(c, bits)) = bits \div 8
         /\ Mixed(PixelBytes(c, bits), c)
  <1>1. PICK u \in Int, v \in Int, w \in Int :
            /\ u = c % 256 /\ v = (c \div 256) % 256 /\ w = c \div 65536
            /\ c = w * 65536 + v * 256 + u
    BY SMT
  <1>2. u \in Int /\ v \in Int /\ w \in Int
    BY <1>1, SMT
  <1>3. PICK t \in Seq(Int) : t = <<u, v, w>> /\ Len(t) = 3 /\ t[1] = u /\ t[2] = v /\ t[3] = w
    <2>1. <<u, v, w>> \in Seq(Int)
      BY <1>2
    <2>2. /\ Len(<<u, v, w>>) = 3
          /\ <<u, v, w>>[1] = u /\ <<u, v, w>>[2] = v /\ <<u, v, w>>[3] = w
      OBVIOUS
    <2> QED
      BY <2>1, <2>2, Zenon
  <1>4. PICK p \in Seq(Int) : /\ p = PixelBytes(c, bits) /\ Len(p) = bits \div 8
                              /\ p[1] = u /\ p[2] = v /\ p[3] = w
    <2>1. CASE bits = 24
      <3>1. PixelBytes(c, bits) = t \o <<>>
        BY <1>1, <1>3, <2>1, SMT DEF PixelBytes
      <3>2. t \o <<>> = t /\ bits \div 8 = 3
        BY <1>3, <2>1
      <3> QED
        BY <1>3, <3>1, <3>2
    <2>2. CASE bits = 32
      <3>1. PixelBytes(c, bits) = t \o <<255>>
        BY <1>1, <1>3, <2>2, SMT DEF PixelBytes
      <3>2. PICK x \in Seq(Int) : x = <<255>> /\ Len(x) = 1
        <4>1. <<255>> \in Seq(Int) /\ Len(<<255>>) = 1
          OBVIOUS
        <4> QED
          BY <4>1
      <3>3. /\ t \o x \in Seq(Int) /\ Len(t \o x) = 4
            /\ (t \o x)[1] = t[1] /\ (t \o x)[2] = t[2] /\ (t \o x)[3] = t[3]
        BY <1>3, <3>2
      <3>4. bits \div 8 = 4
        BY <2>2
      <3> QED
        BY <1>3, <3>1, <3>2, <3>3, <3>4
    <2> QED
      BY <2>1, <2>2
  <1>5. Mixed(p, c)
    <2>1. c = w * 65536 + v * 256 + u
      BY <1>1
    <2>2. p[1] = u /\ p[2] = v /\ p[3] = w
      BY <1>4
    <2> QED
      BY <2>1, <2>2, SMT DEF Mixed
  <1> QED
    BY <1>4, <1>5, Zenon

\* A colour is a number.
LEMMA ColoursAre == Colours \subseteq Nat
  <1>1. White \in Nat
    BY DEF White
  <1> QED
    BY <1>1 DEF Colours

\* A row is padded to four bytes.
LEMMA Padding ==
  ASSUME NEW m \in Nat
  PROVE  m + ((4 - (m % 4)) % 4) = ((m + 3) \div 4) * 4
  OBVIOUS

\* The bytes of a row: pixel x begins at x times the pixels' length.
Row(s, image, y) ==
    /\ s \in Seq(Int) /\ Len(s) = stride(EncodeBmp(image))
    /\ \A x \in 0 .. image.width - 1, k \in 1 .. 3 :
          /\ x * bpp(EncodeBmp(image)) + k \in 1 .. Len(s)
          /\ s[x * bpp(EncodeBmp(image)) + k] = PixelBytes(image.colour[<<x, y>>], image.bits)[k]

LEMMA RowHolds ==
  ASSUME NEW image, IsImage(image), NEW y \in 0 .. image.height - 1
  PROVE  Row(EncodeRow(image, y), image, y)
  <1> DEFINE pixel == [x \in 1 .. image.width |-> PixelBytes(image.colour[<<x - 1, y>>], image.bits)]
             bytes == FlattenSeq(pixel)
             rest == [k \in 1 .. ((4 - (Len(bytes) % 4)) % 4) |-> 0]
  <1>1. PICK W \in Nat, B \in Nat : W = image.width /\ B = image.bits \div 8 /\ B >= 3
    BY DEF IsImage
  <1>2. bpp(EncodeBmp(image)) = B /\ stride(EncodeBmp(image)) = ((W * B + 3) \div 4) * 4
    BY <1>1 DEF bpp, stride, EncodeBmp
  <1>3. ASSUME NEW x \in 1 .. W
        PROVE  pixel[x] \in Seq(Int) /\ Len(pixel[x]) = B
               /\ pixel[x] = PixelBytes(image.colour[<<x - 1, y>>], image.bits)
    <2>1. <<x - 1, y>> \in Places(image.width, image.height)
      BY <1>1 DEF Places
    <2>2. image.colour[<<x - 1, y>>] \in Nat
      BY <2>1, ColoursAre DEF IsImage
    <2>3. image.bits \in {24, 32}
      BY DEF IsImage
    <2> QED
      BY <1>1, <2>2, <2>3, PixelHolds
  <1>4. pixel \in Seq(Seq(Int)) /\ Len(pixel) = W
    <2>1. pixel \in [1 .. W -> Seq(Int)]
      BY <1>1, <1>3
    <2> HIDE DEF pixel
    <2> QED
      BY <1>1, <2>1
  <1> HIDE DEF pixel
  <1>5. \A x \in 1 .. W + 1 : Start(pixel, x) = (x - 1) * B
    BY <1>1, <1>3, <1>4, EvenStarts
  <1>6. bytes \in Seq(Int) /\ Len(bytes) = W * B
    <2>1. Start(pixel, W + 1) = Len(bytes)
      BY <1>4, Starts
    <2>2. W + 1 \in 1 .. W + 1 /\ (W + 1) - 1 = W
      OBVIOUS
    <2>3. bytes \in Seq(Int)
      BY <1>4, FlattenType
    <2> QED
      BY <1>5, <2>1, <2>2, <2>3
  <1>7. EncodeRow(image, y) = bytes \o rest
    BY DEF EncodeRow, pixel
  <1>8. PICK m \in Nat : m = W * B
    BY <1>1
  <1>9. rest \in Seq(Int) /\ Len(bytes) + Len(rest) = ((m + 3) \div 4) * 4
    <2>1. (4 - (m % 4)) % 4 \in Nat /\ m + ((4 - (m % 4)) % 4) = ((m + 3) \div 4) * 4
      BY Padding
    <2>2. PICK p \in Nat : p = (4 - (m % 4)) % 4
      BY <2>1
    <2>3. rest = [k \in 1 .. p |-> 0]
      BY <1>6, <1>8, <2>2
    <2>4. rest \in Seq(Int) /\ Len(rest) = p
      BY <2>3
    <2> QED
      BY <1>6, <1>8, <2>1, <2>2, <2>4
  <1> HIDE DEF bytes, rest
  <1>10. /\ bytes \o rest \in Seq(Int) /\ Len(bytes \o rest) = ((m + 3) \div 4) * 4
         /\ \A e \in 1 .. Len(bytes) : e \in 1 .. Len(bytes \o rest) /\ (bytes \o rest)[e] = bytes[e]
    BY <1>6, <1>9
  <1>11. ASSUME NEW x \in 0 .. W - 1, NEW k \in 1 .. 3
         PROVE  /\ x * B + k \in 1 .. Len(bytes)
                /\ bytes[x * B + k] = PixelBytes(image.colour[<<x, y>>], image.bits)[k]
    <2>1. x + 1 \in 1 .. W /\ (x + 1) - 1 = x
      BY <1>1
    <2>2. k \in 1 .. Len(pixel[x + 1])
      <3>1. Len(pixel[x + 1]) = B
        BY <1>3, <2>1
      <3> QED
        BY <1>1, <3>1
    <2>3. Start(pixel, x + 1) = x * B
      BY <1>1, <1>5, <2>1
    <2>4. Start(pixel, x + 1) + k \in 1 .. Len(bytes) /\ bytes[Start(pixel, x + 1) + k] = pixel[x + 1][k]
      BY <1>4, <2>1, <2>2, FlattenedAt DEF bytes
    <2>5. pixel[x + 1] = PixelBytes(image.colour[<<x, y>>], image.bits)
      BY <1>3, <2>1
    <2> QED
      BY <2>3, <2>4, <2>5
  <1>12. ASSUME NEW x \in 0 .. W - 1, NEW k \in 1 .. 3
         PROVE  /\ x * B + k \in 1 .. Len(bytes \o rest)
                /\ (bytes \o rest)[x * B + k] = PixelBytes(image.colour[<<x, y>>], image.bits)[k]
    BY <1>10, <1>11, Zenon
  <1>13. /\ EncodeRow(image, y) \in Seq(Int)
         /\ Len(EncodeRow(image, y)) = stride(EncodeBmp(image))
    BY <1>2, <1>7, <1>8, <1>10, Zenon
  <1> QED
    BY <1>1, <1>2, <1>7, <1>12, <1>13, Zenon DEF Row

\* The decoder gets back, pixel by pixel, the image a file was made from, in spite
\* of its rows' padding and order (bmp.c:20-90).
THEOREM BitmapReadBack ==
  ASSUME NEW image, IsImage(image)
  PROVE  Decoded(EncodeBmp(image)) = image.colour
  <1> DEFINE file == EncodeBmp(image)
             rows == [k \in 1 .. image.height |-> EncodeRow(image, image.height - k)]
  <1>1. PICK W \in Nat, H \in Nat, B \in Nat, L \in Nat :
            W = image.width /\ H = image.height /\ B = bpp(file) /\ L = stride(file)
    <2>1. image.width \in Nat /\ image.height \in Nat /\ image.bits \in {24, 32}
      BY DEF IsImage
    <2>2. image.bits \div 8 \in Nat
      BY <2>1
    <2>3. PICK B \in Nat : B = bpp(file)
      BY <2>2 DEF bpp, EncodeBmp
    <2>4. image.width * B \in Nat /\ stride(file) = ((image.width * B + 3) \div 4) * 4
      BY <2>1, <2>3 DEF stride, EncodeBmp
    <2> QED
      BY <2>1, <2>3, <2>4
  <1>2. file.biWidth = W /\ file.biHeight = H /\ file.pixels = FlattenSeq(rows)
    BY <1>1 DEF EncodeBmp
  <1>3. ASSUME NEW k \in 1 .. H
        PROVE  /\ rows[k] = EncodeRow(image, H - k) /\ rows[k] \in Seq(Int) /\ Len(rows[k]) = L
               /\ \A x \in 0 .. W - 1, e \in 1 .. 3 :
                     /\ x * B + e \in 1 .. Len(rows[k])
                     /\ rows[k][x * B + e] = PixelBytes(image.colour[<<x, H - k>>], image.bits)[e]
    <2>1. H - k \in 0 .. image.height - 1
      BY <1>1
    <2>2. rows[k] = EncodeRow(image, H - k)
      BY <1>1
    <2>3. Row(EncodeRow(image, H - k), image, H - k)
      BY <2>1, RowHolds
    <2> QED
      BY <1>1, <2>2, <2>3, Zenon DEF Row
  <1>4. rows \in Seq(Seq(Int)) /\ Len(rows) = H
    <2>1. rows \in [1 .. H -> Seq(Int)]
      <3>1. rows = [k \in 1 .. H |-> rows[k]]
        BY <1>1
      <3> HIDE DEF rows
      <3> QED
        BY <1>3, <3>1
    <2>2. DOMAIN rows = 1 .. H
      BY <1>1
    <2> HIDE DEF file, rows
    <2> QED
      BY <1>1, <2>1, <2>2
  <1> HIDE DEF file, rows
  <1>5. \A k \in 1 .. H + 1 : Start(rows, k) = (k - 1) * L
    BY <1>1, <1>3, <1>4, EvenStarts
  <1>6. ASSUME NEW x \in 0 .. W - 1, NEW y \in 0 .. H - 1
        PROVE  ColourAt(file, (H - 1 - y) * L + x * B) = image.colour[<<x, y>>]
    <2>1. PICK k \in 1 .. H : k = H - y /\ k - 1 = H - 1 - y /\ H - k = y
      OBVIOUS
    <2>2. PICK q \in Nat : q = Start(rows, k) /\ q = (H - 1 - y) * L
      <3>1. Start(rows, k) \in Nat
        BY <1>4, Starts
      <3> QED
        BY <1>5, <2>1, <3>1
    <2>3. ASSUME NEW e \in 1 .. 3
          PROVE  file.pixels[(q + x * B) + e] = PixelBytes(image.colour[<<x, y>>], image.bits)[e]
      <3>1. PICK i \in 1 .. Len(rows[k]) :
                i = x * B + e /\ rows[k][i] = PixelBytes(image.colour[<<x, y>>], image.bits)[e]
        <4>1. /\ x * B + e \in 1 .. Len(rows[k])
              /\ rows[k][x * B + e] = PixelBytes(image.colour[<<x, H - k>>], image.bits)[e]
          BY <1>3, Zenon
        <4> QED
          BY <2>1, <4>1, Zenon
      <3>2. FlattenSeq(rows)[Start(rows, k) + i] = rows[k][i]
        BY <1>4, FlattenedAt
      <3>3. (q + x * B) + e = q + i
        BY <1>1, <3>1
      <3> QED
        BY <1>2, <2>2, <3>1, <3>2, <3>3
    <2>4. PICK c \in Nat : c = image.colour[<<x, y>>]
      <3>1. <<x, y>> \in Places(image.width, image.height)
        BY <1>1 DEF Places
      <3> QED
        BY <3>1, ColoursAre DEF IsImage
    <2>5. Mixed(PixelBytes(c, image.bits), c)
      BY PixelHolds DEF IsImage
    <2>6. ColourAt(file, q + x * B) = c
      BY <2>3, <2>4, <2>5, SMT DEF ColourAt, Mixed
    <2> QED
      BY <2>2, <2>4, <2>6
  <1>7. image.colour = [p \in Places(W, H) |-> image.colour[p]]
    BY <1>1 DEF IsImage
  <1>8. \A p \in Places(W, H) : ColourAt(file, (H - 1 - p[2]) * L + p[1] * B) = image.colour[p]
    BY <1>6 DEF Places
  <1>9. Decoded(file) = [p \in Places(W, H) |-> ColourAt(file, (H - 1 - p[2]) * L + p[1] * B)]
    BY <1>1, <1>2 DEF Decoded
  <1> QED
    BY <1>7, <1>8, <1>9 DEF file
Readable(image) == IsImage(image) /\ Decoded(EncodeBmp(image)) = image.colour

RamdisksReadable == \A f \in Ramdisks : \A image \in {f.image, f.cursor} \ {None} : Readable(image)

\* Every bitmap of every ramdisk is read as it was made.
LEMMA AllReadable == RamdisksReadable
  BY RamdisksAssumption, BitmapReadBack DEF RamdisksReadable, Readable

\* The cursor drawn is the one the reader of the code expects: cursor.bmp if it has
\* the size of the cursor, else the built-in one (cursors.c).
LEMMA CursorLooks ==
  ASSUME files \in Ramdisks,
         cursor_pixels = IF files.cursor = None THEN load_default_cursor
                         ELSE cursor_load_bmp(EncodeBmp(files.cursor))
  PROVE  /\ cursor_pixels = [o \in {q \in Square : Look(q) # Magenta} |-> Look(o)]
         /\ \A o \in DOMAIN cursor_pixels : cursor_pixels[o] \in Colours
  <1> DEFINE default(o) == <<Magenta, White, Blue>>[DefaultCursor[o] + 1]
  <1>1. ASSUME NEW o \in Square
        PROVE  /\ DefaultCursor[o] = 0 => default(o) = Magenta
               /\ DefaultCursor[o] = 1 => default(o) = White
               /\ DefaultCursor[o] = 2 => default(o) = Blue
               /\ DefaultCursor[o] \in 0 .. 2
    BY PointerAssumption DEF Square
  <1>2. load_default_cursor = [o \in {q \in Square : default(q) # Magenta} |-> default(o)]
    BY <1>1 DEF load_default_cursor, Magenta, White, Blue
  <1>3. Magenta \in Colours /\ White \in Colours /\ Blue \in Colours
    BY Palette
  <1>4. CASE files.cursor # None /\ files.cursor.width = CURSOR /\ files.cursor.height = CURSOR
    <2> DEFINE image == files.cursor
               file == EncodeBmp(image)
    <2>1. Readable(image)
      BY <1>4, AllReadable DEF RamdisksReadable
    <2>2. /\ image.colour \in [Square -> Colours] /\ Decoded(file) = image.colour
          /\ image.bits \in {24, 32}
      BY <1>4, <2>1 DEF Readable, IsImage, Square
    <2>3. /\ file.bfType = "BM" /\ file.biWidth = CURSOR /\ file.biHeight = CURSOR
          /\ bpp(file) \in {3, 4}
      BY <1>4, <2>2 DEF EncodeBmp, bpp
    <2>4. bmp_parse_to_buffer(file, CURSOR, CURSOR) =
             << [p \in {q \in Square : image.colour[q] # Magenta} |-> image.colour[p]] >>
      <3> DEFINE d == Decoded(file)
      <3>1. bmp_parse_to_buffer(file, CURSOR, CURSOR) =
               << [p \in {q \in DOMAIN d : d[q] # Magenta} |-> d[p]] >>
        <4>1. ~(\/ file.bfType # "BM" \/ file.biWidth # CURSOR \/ file.biHeight # CURSOR
                \/ bpp(file) < 3)
          BY <2>3
        <4> HIDE DEF file
        <4> QED
          BY <4>1 DEF bmp_parse_to_buffer
      <3>2. d = image.colour /\ DOMAIN d = Square
        BY <2>2
      <3> HIDE DEF d, file
      <3> QED
        BY <3>1, <3>2
    <2>5. cursor_pixels = [p \in {q \in Square : image.colour[q] # Magenta} |-> image.colour[p]]
      BY <1>4, <2>4 DEF cursor_load_bmp
    <2>6. ASSUME NEW o \in Square
          PROVE  Look(o) = image.colour[o]
      BY <1>4 DEF Look
    <2> QED
      BY <2>2, <2>5, <2>6
  <1>5. CASE ~(files.cursor # None /\ files.cursor.width = CURSOR /\ files.cursor.height = CURSOR)
    <2>1. cursor_pixels = load_default_cursor
      <3>1. CASE files.cursor = None
        BY <3>1
      <3>2. CASE files.cursor # None
        <4> DEFINE file == EncodeBmp(files.cursor)
        <4>1. file.biWidth = files.cursor.width /\ file.biHeight = files.cursor.height
          BY DEF EncodeBmp
        <4>2. bmp_parse_to_buffer(file, CURSOR, CURSOR) = <<>>
          BY <1>5, <3>2, <4>1 DEF bmp_parse_to_buffer
        <4> QED
          BY <3>2, <4>2 DEF cursor_load_bmp
      <3> QED
        BY <3>1, <3>2
    <2>2. ASSUME NEW o \in Square
          PROVE  Look(o) = default(o)
      BY <1>5 DEF Look
    <2> HIDE DEF default
    <2>3. cursor_pixels = [o \in {q \in Square : Look(q) # Magenta} |-> Look(o)]
      BY <1>2, <2>1, <2>2
    <2>4. ASSUME NEW o \in Square
          PROVE  Look(o) \in Colours
      BY <1>1, <1>3, <2>2
    <2> QED
      BY <2>3, <2>4
  <1> QED
    BY <1>4, <1>5

-----------------------------------------------------------------------------
(* What an image drawn at a place looks like *)

\* The place of pixel i in an image drawn at (x, y).
Offset(i, x, y) == <<(i % SCREEN_W) - x, (i \div SCREEN_W) - y>>

\* What pixel i of a buffer is after an image has been drawn at (x, y).
After(buf, x, y, image, i) ==
    IF Offset(i, x, y) \in DOMAIN image THEN image[Offset(i, x, y)] ELSE buf[i]

Overlay(buf, x, y, image) == [i \in Pixels |-> After(buf, x, y, image, i)]

\* The framebuffer has the size the code assumes.
Fits == Width = SCREEN_W /\ Height = SCREEN_H

\* The pixels of the screen.
LEMMA PixelRange ==
  ASSUME Fits, NEW i \in Pixels
  PROVE  /\ i \in Nat /\ i < SCREEN_W * SCREEN_H
         /\ i % SCREEN_W \in 0 .. SCREEN_W - 1 /\ i \div SCREEN_W \in 0 .. SCREEN_H - 1
         /\ i = (i \div SCREEN_W) * SCREEN_W + (i % SCREEN_W)
  <1> DEFINE n == SCREEN_W * SCREEN_H
  <1>1. SCREEN_W \in Nat \ {0} /\ SCREEN_H \in Nat \ {0} /\ n \in Nat
    BY MouseAssumption
  <1>2. Pixels = 0 .. n - 1
    BY DEF Pixels, Larger, Fits
  <1>3. i \in Nat /\ i < n
    BY <1>1, <1>2
  <1>4. i \div SCREEN_W < SCREEN_H
    BY <1>1, <1>3, Rows
  <1>5. /\ i % SCREEN_W \in 0 .. SCREEN_W - 1 /\ i \div SCREEN_W \in Nat
        /\ i = (i \div SCREEN_W) * SCREEN_W + (i % SCREEN_W)
    BY <1>1, <1>3, OfIndex
  <1> DEFINE row == i \div SCREEN_W
  <1>6. row \in 0 .. SCREEN_H - 1
    <2>1. row \in Nat /\ row < SCREEN_H
      BY <1>4, <1>5
    <2> HIDE DEF row
    <2> QED
      BY <1>1, <2>1
  <1> QED
    BY <1>3, <1>5, <1>6

\* Each pixel of the image is put at one index and no two at the same: what is
\* drawn is the image, and around it the buffer is as it was (vesa.c:123-134).
LEMMA PutPixel ==
  ASSUME Fits, NEW buf, NEW image, NEW x \in 0 .. SCREEN_W - 1, NEW y \in 0 .. SCREEN_H - 1,
         DOMAIN image \subseteq Nat \X Nat, NEW i \in Pixels
  PROVE  PutAll(buf, x, y, image)[i] = After(buf, x, y, image, i)
  <1> DEFINE hit == {o \in DOMAIN image : can_put(x + o[1], y + o[2])}
             px == i % SCREEN_W
             py == i \div SCREEN_W
             here == <<px - x, py - y>>
  <1>1. /\ px \in 0 .. SCREEN_W - 1 /\ py \in 0 .. SCREEN_H - 1 /\ i \in Nat
        /\ i = py * SCREEN_W + px
    BY PixelRange
  <1>2. SCREEN_W \in Nat \ {0} /\ SCREEN_H \in Nat \ {0}
    BY MouseAssumption
  <1>3. ASSUME NEW o \in hit
        PROVE  i = put_index(x + o[1], y + o[2]) <=> o = here
    <2>1. o \in Nat \X Nat /\ x + o[1] < SCREEN_W /\ y + o[2] < SCREEN_H
      BY DEF can_put, Fits
    <2> DEFINE ox == x + o[1]
               oy == y + o[2]
    <2>2. ox \in 0 .. SCREEN_W - 1 /\ oy \in Nat
      BY <1>2, <2>1
    <2>3. put_index(ox, oy) = oy * SCREEN_W + ox
      BY DEF put_index, Fits
    <2>4. (oy * SCREEN_W + ox) % SCREEN_W = ox /\ (oy * SCREEN_W + ox) \div SCREEN_W = oy
      BY <1>2, <2>2, Index
    <2>5. o = here <=> ox = px /\ oy = py
      <3> HIDE DEF px, py
      <3>1. px \in Int /\ py \in Int /\ x \in Int /\ y \in Int
        BY <1>1, <1>2
      <3>2. o = <<o[1], o[2]>> /\ o[1] \in Int /\ o[2] \in Int
        BY <2>1
      <3>3. o = here <=> o[1] = px - x /\ o[2] = py - y
        BY <3>2 DEF here
      <3> QED
        BY <3>1, <3>2, <3>3
    <2>6. i = put_index(ox, oy) <=> ox = px /\ oy = py
      BY <1>1, <2>3, <2>4
    <2> QED
      BY <2>5, <2>6
  <1>4. here \in DOMAIN image => here \in hit
    BY <1>1, <1>2, SMTT(30) DEF can_put, Fits
  <1>5. PutAll(buf, x, y, image)[i] =
           IF \E o \in hit : i = put_index(x + o[1], y + o[2])
           THEN image[CHOOSE o \in hit : i = put_index(x + o[1], y + o[2])]
           ELSE buf[i]
    BY DEF PutAll
  <1>6. hit \subseteq DOMAIN image
    OBVIOUS
  <1> HIDE DEF hit
  <1>7. CASE here \in DOMAIN image
    <2>1. here \in hit /\ i = put_index(x + here[1], y + here[2])
      BY <1>3, <1>4, <1>7
    <2>2. (CHOOSE o \in hit : i = put_index(x + o[1], y + o[2])) = here
      BY <1>3, <2>1
    <2> QED
      BY <1>5, <1>7, <2>1, <2>2 DEF Offset, After
  <1>8. CASE here \notin DOMAIN image
    BY <1>3, <1>5, <1>6, <1>8 DEF Offset, After
  <1> QED
    BY <1>7, <1>8

\* The same of the buffer as a whole.
LEMMA PutAs ==
  ASSUME Fits, NEW buf, NEW image, NEW x \in 0 .. SCREEN_W - 1, NEW y \in 0 .. SCREEN_H - 1,
         DOMAIN image \subseteq Nat \X Nat
  PROVE  PutAll(buf, x, y, image) = Overlay(buf, x, y, image)
  <1> DEFINE put == PutAll(buf, x, y, image)
  <1>1. \A i \in Pixels : put[i] = After(buf, x, y, image, i)
    BY PutPixel
  <1>2. put = [i \in Pixels |-> put[i]]
    BY DEF PutAll
  <1> HIDE DEF put
  <1>3. put = Overlay(buf, x, y, image)
    BY <1>1, <1>2 DEF Overlay
  <1> QED
    BY <1>3 DEF put

\* The picture, pixel by pixel; what lies under the cursor at a place; the picture
\* with the cursor drawn there.
Background == [i \in Pixels |-> Picture(i % SCREEN_W, i \div SCREEN_W)]
Behind(x, y) == mouse_save_back(Background, x, y)
Drawn(x, y) == cursor_draw(Background, x, y)

\* The cursor as CursorLooks finds it.
Shape == cursor_pixels = [o \in {q \in Square : Look(q) # Magenta} |-> Look(o)]

\* No image needs a row or column before the first.
LEMMA SquarePlaces ==
  /\ Square \subseteq Nat \X Nat
  /\ Shape => DOMAIN cursor_pixels \subseteq Square
  <1>1. Square \subseteq Nat \X Nat
    BY PointerAssumption DEF Square, Places
  <1>2. Shape => DOMAIN cursor_pixels \subseteq Square
    BY DEF Shape
  <1> QED
    BY <1>1, <1>2

\* At the start the back buffer holds the picture (main.c:372-396, 449-469).
LEMMA FirstPicture ==
  ASSUME Fits, files \in Ramdisks
  PROVE  PutAll([i \in Pixels |-> Grey], 0, 0,
                IF files.image = None THEN <<>> ELSE draw_bmp(EncodeBmp(files.image))) = Background
  <1> DEFINE grey == [i \in Pixels |-> Grey]
             image == IF files.image = None THEN <<>> ELSE draw_bmp(EncodeBmp(files.image))
  <1>1. /\ 0 \in 0 .. SCREEN_W - 1 /\ 0 \in 0 .. SCREEN_H - 1
        /\ SCREEN_W \in Nat \ {0} /\ SCREEN_H \in Nat \ {0}
    BY MouseAssumption
  <1>2. CASE files.image = None
    <2>1. image = <<>> /\ DOMAIN image = {}
      BY <1>2
    <2>2. ASSUME NEW i \in Pixels
          PROVE  Background[i] = After(grey, 0, 0, image, i)
      BY <1>2, <2>1, <2>2 DEF Background, Picture, After
    <2> HIDE DEF image, grey
    <2>3. PutAll(grey, 0, 0, image) = Overlay(grey, 0, 0, image)
      BY <1>1, <2>1, PutAs
    <2>4. PutAll(grey, 0, 0, image) = Background
      BY <2>2, <2>3 DEF Background, Overlay
    <2> QED
      BY <2>4 DEF image, grey
  <1>3. CASE files.image # None
    <2> DEFINE made == files.image
    <2>1. Readable(made)
      BY <1>3, AllReadable DEF RamdisksReadable
    <2>2. draw_bmp(EncodeBmp(made)) = made.colour
      BY <2>1 DEF draw_bmp, EncodeBmp, Readable, IsImage
    <2>3. image = made.colour /\ DOMAIN image = Places(made.width, made.height)
          /\ made.width \in Nat /\ made.height \in Nat
      BY <1>3, <2>1, <2>2 DEF Readable, IsImage
    <2>4. DOMAIN image \subseteq Nat \X Nat
      BY <2>3 DEF Places
    <2>5. ASSUME NEW i \in Pixels
          PROVE  Background[i] = After(grey, 0, 0, image, i)
      <3> DEFINE px == i % SCREEN_W
                 py == i \div SCREEN_W
      <3>1. px \in 0 .. SCREEN_W - 1 /\ py \in 0 .. SCREEN_H - 1
        BY PixelRange
      <3>2. grey[i] = Grey
        OBVIOUS
      <3>3. Offset(i, 0, 0) = <<px, py>>
        BY <1>1, <3>1 DEF Offset
      <3>4. Background[i] = Picture(px, py)
        BY DEF Background
      <3> HIDE DEF px, py, image
      <3>5. <<px, py>> \in Places(made.width, made.height) <=> px < made.width /\ py < made.height
        BY <1>1, <2>3, <3>1 DEF Places
      <3>6. Picture(px, py) = IF px < made.width /\ py < made.height THEN image[<<px, py>>] ELSE Grey
        BY <1>3, <2>3 DEF Picture
      <3> HIDE DEF made, grey
      <3> QED
        BY <2>3, <3>2, <3>3, <3>4, <3>5, <3>6 DEF After
    <2> HIDE DEF image, grey
    <2>6. PutAll(grey, 0, 0, image) = Overlay(grey, 0, 0, image)
      BY <1>1, <2>4, PutAs
    <2>7. PutAll(grey, 0, 0, image) = Background
      BY <2>5, <2>6 DEF Background, Overlay
    <2> QED
      BY <2>7 DEF image, grey
  <1> QED
    BY <1>2, <1>3

\* Restoring what was saved at a place takes the cursor away without a trace
\* (vesa.c:300-325).
LEMMA Restores ==
  ASSUME Fits, Shape, NEW x \in 0 .. SCREEN_W - 1, NEW y \in 0 .. SCREEN_H - 1
  PROVE  PutAll(Drawn(x, y), x, y, Behind(x, y)) = Background
  <1> DEFINE saved == Behind(x, y)
             drawn == Drawn(x, y)
  <1>1. DOMAIN saved = Square /\ DOMAIN saved \subseteq Nat \X Nat
    BY SquarePlaces DEF Behind, mouse_save_back
  <1>2. drawn = Overlay(Background, x, y, cursor_pixels)
    BY PutAs, SquarePlaces DEF Drawn, cursor_draw
  <1>3. ASSUME NEW i \in Pixels
        PROVE  After(drawn, x, y, saved, i) = Background[i]
    <2> DEFINE o == Offset(i, x, y)
               px == i % SCREEN_W
               py == i \div SCREEN_W
    <2>1. /\ px \in 0 .. SCREEN_W - 1 /\ py \in 0 .. SCREEN_H - 1
          /\ i = py * SCREEN_W + px
      BY PixelRange
    <2>2. x + o[1] = px /\ y + o[2] = py
      BY <2>1, MouseAssumption DEF Offset
    <2>3. vesa_get_pixel(Background, px, py) = Background[i]
      BY <2>1, MouseAssumption DEF vesa_get_pixel
    <2>4. CASE o \in Square
      <3>1. saved[o] = Background[i]
        BY <2>2, <2>3, <2>4 DEF Behind, mouse_save_back
      <3> QED
        BY <1>1, <2>4, <3>1 DEF After
    <2>5. CASE o \notin Square
      <3>1. After(drawn, x, y, saved, i) = drawn[i]
        BY <1>1, <2>5 DEF After
      <3>2. drawn[i] = Background[i]
        BY <1>2, <2>5, SquarePlaces DEF Overlay, After
      <3> QED
        BY <3>1, <3>2
    <2> QED
      BY <2>4, <2>5
  <1> HIDE DEF saved, drawn
  <1>4. PutAll(drawn, x, y, saved) = Overlay(drawn, x, y, saved)
    BY <1>1, PutAs
  <1>5. PutAll(drawn, x, y, saved) = Background
    BY <1>3, <1>4 DEF Overlay, Background
  <1> QED
    BY <1>5 DEF saved, drawn

\* The picture with the cursor drawn at a place is what NoTrace expects to see.
LEMMA Shows ==
  ASSUME Fits, Shape, NEW x \in 0 .. SCREEN_W - 1, NEW y \in 0 .. SCREEN_H - 1
  PROVE  Drawn(x, y) = WithCursor(x, y)
  <1>1. Drawn(x, y) = Overlay(Background, x, y, cursor_pixels)
    BY PutAs, SquarePlaces DEF Drawn, cursor_draw
  <1>2. ASSUME NEW i \in Pixels
        PROVE  After(Background, x, y, cursor_pixels, i) = WithCursor(x, y)[i]
    <2> DEFINE o == Offset(i, x, y)
               p == Picture(i % SCREEN_W, i \div SCREEN_W)
    <2>1. Background[i] = p
      BY DEF Background
    <2>2. WithCursor(x, y)[i] = IF Look(o) = Magenta THEN p ELSE Look(o)
      BY DEF WithCursor, Offset
    <2>3. o \notin Square => Look(o) = Magenta
      BY DEF Look
    <2>4. /\ o \in DOMAIN cursor_pixels <=> o \in Square /\ Look(o) # Magenta
          /\ o \in DOMAIN cursor_pixels => cursor_pixels[o] = Look(o)
      BY DEF Shape
    <2> HIDE DEF p
    <2> QED
      BY <2>1, <2>2, <2>3, <2>4 DEF After
  <1> QED
    BY <1>1, <1>2 DEF Overlay, WithCursor

\* Outside the region that is flushed the picture has no cursor (vesa.c:310-325).
LEMMA InTheRegion ==
  ASSUME Fits, Shape, NEW x \in 0 .. SCREEN_W - 1, NEW y \in 0 .. SCREEN_H - 1,
         NEW i \in Pixels, ~InRegion(i, x, y)
  PROVE  Drawn(x, y)[i] = Background[i]
  <1> DEFINE px == i % SCREEN_W
             py == i \div SCREEN_W
  <1>1. /\ px \in 0 .. SCREEN_W - 1 /\ py \in 0 .. SCREEN_H - 1 /\ i < SCREEN_W * SCREEN_H
        /\ SCREEN_W \in Nat \ {0} /\ SCREEN_H \in Nat \ {0}
    BY PixelRange, MouseAssumption
  <1>2. ~(px \in x .. x + REGION - 1 /\ py \in y .. y + REGION - 1)
    BY <1>1 DEF InRegion
  <1> HIDE DEF px, py
  <1>3. <<px - x, py - y>> \notin Square
    BY <1>1, <1>2, PointerAssumption DEF Square, Places
  <1>4. Offset(i, x, y) \notin Square
    BY <1>3 DEF Offset, px, py
  <1>5. Drawn(x, y) = Overlay(Background, x, y, cursor_pixels)
    BY PutAs, SquarePlaces DEF Drawn, cursor_draw
  <1> QED
    BY <1>4, <1>5, SquarePlaces DEF Overlay, After

-----------------------------------------------------------------------------
(* The pointer moves as reported, whatever the main program does. *)

\* A step of the program under the handler: it clears mouse_updated at most.
LEMMA MouseAmongSteps ==
  ASSUME MouseInv, [Next]_vars
  PROVE  /\ MouseInv'
         /\ MouseNext \/ UNCHANGED <<mouse_x, mouse_y, mouse_buttons, sent>>
  <1>1. CASE MouseNext
    BY <1>1, MouseStep
  <1>2. CASE Clear
    BY <1>2, MouseRests DEF Clear
  <1>3. CASE UNCHANGED mouseVars
    BY <1>3, MouseRests DEF mouseVars, handlerVars
  <1>4. MouseNext \/ Clear \/ UNCHANGED mouseVars
    <2>1. CASE Startup /\ UNCHANGED mouseVars
      BY <2>1
    <2>2. CASE Loop
      BY <2>2 DEF Loop, Poll, ReadX, ReadY, Redraw
    <2>3. CASE Interrupt
      BY <2>3 DEF Interrupt
    <2>4. CASE UNCHANGED vars
      BY <2>4 DEF vars
    <2> QED
      BY <2>1, <2>2, <2>3, <2>4 DEF Next, Gui
  <1>5. Clear \/ UNCHANGED mouseVars => UNCHANGED <<mouse_x, mouse_y, mouse_buttons, sent>>
    BY DEF Clear, mouseVars, handlerVars
  <1> QED
    BY <1>1, <1>2, <1>3, <1>4, <1>5

\* With the program running on the screen, too, the handler keeps its place in the
\* packet and the pointer stays on the screen.
THEOREM PointerMouse == Spec => []MouseInv
  <1>1. Init => MouseInv
    BY InitMouse DEF Init
  <1> QED
    BY <1>1, MouseAmongSteps, PTL DEF Spec

\* As long as no byte is lost the pointer makes exactly the movements the device
\* reports, whenever the interrupts come (mouse.c:108-149, main.c:408-428).
THEOREM PointerMoves == Spec => MovesAsReported
  <1> DEFINE Moves == LET done == sent = 2
                      IN  /\ mouse_x' = Clamp(mouse_x + (IF done THEN movement.dx ELSE 0), SCREEN_W)
                          /\ mouse_y' = Clamp(mouse_y - (IF done THEN movement.dy ELSE 0), SCREEN_H)
                          /\ done => mouse_buttons' = movement.buttons
  <1>1. MouseInv /\ [Next]_vars =>
           [lost' = 0 => Moves]_<<mouse_x, mouse_y, mouse_buttons, sent>>
    <2> SUFFICES ASSUME MouseInv, [Next]_vars, lost' = 0,
                        <<mouse_x, mouse_y, mouse_buttons, sent>>' # <<mouse_x, mouse_y, mouse_buttons, sent>>
                 PROVE  Moves
      OBVIOUS
    <2>1. MouseNext
      BY MouseAmongSteps
    <2> QED
      BY <2>1, StepMoves
  <1> QED
    BY <1>1, PointerMouse, PTL DEF Spec, MovesAsReported

-----------------------------------------------------------------------------
(* Types, for every framebuffer and also if the mouse moves early *)

\* The inductive invariant: the buffers hold colours, and so does the cursor.
GuiInv ==
    /\ MouseInv /\ TypeOK
    /\ last_mouse_x \in 0 .. SCREEN_W - 1 /\ last_mouse_y \in 0 .. SCREEN_H - 1
    /\ \A o \in DOMAIN cursor_pixels : cursor_pixels[o] \in Colours

\* The start.
LEMMA InitGui ==
  ASSUME Init
  PROVE  GuiInv
  <1> DEFINE image == IF files.image = None THEN <<>> ELSE draw_bmp(EncodeBmp(files.image))
             grey == [i \in Pixels |-> Grey]
  <1>1. \A o \in DOMAIN cursor_pixels : cursor_pixels[o] \in Colours
    BY CursorLooks DEF Init
  <1>2. \A o \in DOMAIN image : image[o] \in Colours
    <2>1. CASE files.image = None
      BY <2>1
    <2>2. CASE files.image # None
      <3>1. Readable(files.image)
        BY <2>2, AllReadable DEF RamdisksReadable, Init
      <3>2. image = files.image.colour
        BY <2>2, <3>1 DEF draw_bmp, EncodeBmp, Readable, IsImage
      <3> QED
        BY <3>1, <3>2 DEF Readable, IsImage
    <2> QED
      BY <2>1, <2>2
  <1>3. grey \in [Pixels -> Colours]
    BY Palette
  <1>4. back_buffer = PutAll(grey, 0, 0, image) /\ vesa_mem = back_buffer
    BY DEF Init
  <1> HIDE DEF image, grey
  <1>5. back_buffer \in [Pixels -> Colours] /\ vesa_mem \in [Pixels -> Colours]
    BY <1>2, <1>3, <1>4, PutTypes
  <1>6. mouse_save_buffer \in [Square -> Colours]
    BY Palette DEF Init
  <1>7. 0 \in 0 .. SCREEN_W - 1 /\ 0 \in 0 .. SCREEN_H - 1
    BY MouseAssumption
  <1>8. last_mouse_x = 0 /\ last_mouse_y = 0 /\ nx = 0 /\ ny = 0
    BY DEF Init
  <1>9. MouseInv
    BY InitMouse DEF Init
  <1> QED
    BY <1>1, <1>5, <1>6, <1>7, <1>8, <1>9 DEF GuiInv, TypeOK, MouseInv

\* What each step does to the buffers keeps them buffers of colours.
LEMMA StepGui ==
  ASSUME GuiInv, [Next]_vars
  PROVE  GuiInv'
  <1> DEFINE Typed == /\ back_buffer \in [Pixels -> Colours] /\ vesa_mem \in [Pixels -> Colours]
                      /\ mouse_save_buffer \in [Square -> Colours]
             Placed == /\ nx \in 0 .. SCREEN_W - 1 /\ ny \in 0 .. SCREEN_H - 1
                       /\ last_mouse_x \in 0 .. SCREEN_W - 1 /\ last_mouse_y \in 0 .. SCREEN_H - 1
  <1>1. Typed /\ Placed /\ MouseInv
    BY DEF GuiInv, TypeOK
  <1>2. /\ \A o \in DOMAIN cursor_pixels : cursor_pixels[o] \in Colours
        /\ \A o \in DOMAIN mouse_save_buffer : mouse_save_buffer[o] \in Colours
        /\ nx \in Nat /\ ny \in Nat
        /\ mouse_x \in 0 .. SCREEN_W - 1 /\ mouse_y \in 0 .. SCREEN_H - 1
    BY <1>1, MouseAssumption DEF GuiInv, MouseInv, MouseTypeOK
  <1>3. MouseInv'
    BY <1>1, MouseAmongSteps
  <1>4. cursor_pixels' = cursor_pixels /\ Placed'
    <2>1. CASE Startup /\ UNCHANGED mouseVars
      BY <1>1, <1>2, <2>1 DEF Startup, LastX, LastY, ArgX, ArgY, SaveFirst, DrawFirst, FlushFirst, fileVars
    <2>2. CASE Loop
      BY <1>1, <1>2, <2>2 DEF Loop, Poll, Clear, ReadX, ReadY, Redraw, pixelVars, fileVars
    <2>3. CASE Interrupt
      BY <1>1, <2>3 DEF Interrupt, pixelVars, fileVars
    <2>4. CASE UNCHANGED vars
      BY <1>1, <2>4 DEF vars, guiVars, fileVars
    <2> QED
      BY <2>1, <2>2, <2>3, <2>4 DEF Next, Gui
  <1>5. Typed'
    <2>1. CASE SaveFirst
      BY <1>1, <1>2, <2>1, SaveTypes DEF SaveFirst
    <2>2. CASE DrawFirst
      BY <1>1, <1>2, <2>2, PutTypes DEF DrawFirst, cursor_draw
    <2>3. CASE FlushFirst
      BY <1>1, <2>3 DEF FlushFirst
    <2>4. CASE Redraw
      <3> DEFINE restored == mouse_restore_back(back_buffer, last_mouse_x, last_mouse_y)
      <3>1. restored \in [Pixels -> Colours]
        BY <1>1, <1>2, PutTypes DEF mouse_restore_back
      <3>2. /\ mouse_save_buffer' = mouse_save_back(restored, nx, ny)
            /\ back_buffer' = cursor_draw(restored, nx, ny)
            /\ vesa_mem' = [i \in Pixels |->
                               IF InRegion(i, last_mouse_x, last_mouse_y) \/ InRegion(i, nx, ny)
                               THEN back_buffer'[i] ELSE vesa_mem[i]]
        BY <2>4 DEF Redraw
      <3> HIDE DEF restored
      <3>3. mouse_save_buffer' \in [Square -> Colours]
        BY <1>2, <3>1, <3>2, SaveTypes
      <3>4. back_buffer' \in [Pixels -> Colours]
        BY <1>2, <3>1, <3>2, PutTypes DEF cursor_draw
      <3>5. vesa_mem' \in [Pixels -> Colours]
        BY <1>1, <3>2, <3>4
      <3> QED
        BY <3>3, <3>4, <3>5
    <2>5. CASE UNCHANGED <<back_buffer, vesa_mem, mouse_save_buffer>>
      BY <1>1, <2>5
    <2>6. CASE Interrupt \/ UNCHANGED vars
      BY <2>5, <2>6 DEF Interrupt, vars, guiVars, pixelVars
    <2>7. CASE LastX \/ LastY \/ ArgX \/ ArgY \/ Poll \/ Clear \/ ReadX \/ ReadY
      BY <2>5, <2>7 DEF LastX, LastY, ArgX, ArgY, Poll, Clear, ReadX, ReadY, pixelVars
    <2> QED
      BY <2>1, <2>2, <2>3, <2>4, <2>6, <2>7 DEF Next, Gui, Startup, Loop
  <1> QED
    BY <1>2, <1>3, <1>4, <1>5 DEF GuiInv, TypeOK, MouseInv

\* Whatever bitmaps the ramdisk has, the buffers, the save area and the cursor always
\* hold colours, whatever the framebuffer's size is and wherever the mouse goes
\* (vesa.c:123-150, 300-325).
THEOREM PointerTyped ==
  Spec => []TypeOK
  <1>1. Init => GuiInv
    BY InitGui
  <1>2. GuiInv /\ [Next]_vars => GuiInv'
    BY StepGui
  <1>3. GuiInv => TypeOK
    BY DEF GuiInv
  <1> QED
    BY <1>1, <1>2, <1>3, PTL DEF Spec

-----------------------------------------------------------------------------
(* No trace of the cursor *)

\* Up to the loop the mouse rests, so that all coordinates read are the same.
Starting ==
    phase # "loop" =>
        /\ pc \in {"lastX", "lastY", "argY", "argX", "call"}
        /\ pc \in {"lastX", "lastY"} => phase = "save"
        /\ pc # "lastX" => last_mouse_x = mouse_x
        /\ pc \notin {"lastX", "lastY"} => last_mouse_y = mouse_y
        /\ pc \in {"argX", "call"} => ny = mouse_y
        /\ pc = "call" => nx = mouse_x
        /\ vesa_mem = Background

\* In the loop screen and back buffer agree, and the cursor is where it was drawn
\* last, with what was there before in the save area.
Shown ==
    /\ phase \in {"save", "draw", "flush", "loop"}
    /\ phase \in {"save", "draw"} => back_buffer = Background
    /\ phase \in {"draw", "flush", "loop"} => mouse_save_buffer = Behind(last_mouse_x, last_mouse_y)
    /\ phase \in {"flush", "loop"} => back_buffer = Drawn(last_mouse_x, last_mouse_y)
    /\ phase = "loop" => /\ vesa_mem = back_buffer
                         /\ pc \in {"poll", "clear", "readX", "readY", "redraw"}

\* The inductive invariant of the redraws.
SceneInv == GuiInv /\ files \in Ramdisks /\ Shape /\ Starting /\ Shown

\* The picture belongs to the files, the cursor to its pixels.
LEMMA SamePicture ==
  ASSUME UNCHANGED <<files, cursor_pixels>>
  PROVE  /\ Background' = Background /\ Shape' = Shape
         /\ \A x, y : Behind(x, y)' = Behind(x, y) /\ Drawn(x, y)' = Drawn(x, y)
  <1>1. \A x, y : Picture(x, y)' = Picture(x, y)
    BY DEF Picture
  <1>2. \A o : Look(o)' = Look(o)
    BY DEF Look
  <1>3. Background' = Background
    BY <1>1 DEF Background
  <1> QED
    BY <1>2, <1>3 DEF Shape, Behind, Drawn, cursor_draw

\* The start.
LEMMA InitScene ==
  ASSUME Fits, Init
  PROVE  SceneInv
  <1>1. GuiInv /\ files \in Ramdisks
    BY InitGui DEF Init
  <1>2. Shape
    BY CursorLooks DEF Init, Shape
  <1>3. back_buffer = Background /\ vesa_mem = Background
    BY FirstPicture DEF Init
  <1>4. pc = "lastX" /\ phase = "save"
    BY DEF Init
  <1> QED
    BY <1>1, <1>2, <1>3, <1>4 DEF SceneInv, Starting, Shown

\* Start-up: the coordinates are read, the cursor is saved, drawn and flushed.
LEMMA StartupScene ==
  ASSUME Fits, SceneInv, Startup, UNCHANGED mouseVars
  PROVE  Starting' /\ Shown'
  <1>1. UNCHANGED <<files, cursor_pixels, mouse_x, mouse_y>>
    BY DEF Startup, LastX, LastY, ArgX, ArgY, SaveFirst, DrawFirst, FlushFirst, fileVars,
           mouseVars, handlerVars
  <1>2. /\ Background' = Background
        /\ \A x, y : Behind(x, y)' = Behind(x, y) /\ Drawn(x, y)' = Drawn(x, y)
    BY <1>1, SamePicture
  <1>3. Starting /\ Shown
    BY DEF SceneInv
  <1>4. CASE LastX
    <2>1. Starting'
      BY <1>1, <1>2, <1>3, <1>4 DEF Starting, LastX
    <2>2. Shown'
      BY <1>2, <1>3, <1>4 DEF Starting, Shown, LastX
    <2> QED
      BY <2>1, <2>2
  <1>5. CASE LastY
    <2>1. Starting'
      BY <1>1, <1>2, <1>3, <1>5 DEF Starting, LastY
    <2>2. Shown'
      BY <1>2, <1>3, <1>5 DEF Starting, Shown, LastY
    <2> QED
      BY <2>1, <2>2
  <1>6. CASE ArgY
    <2>1. Starting'
      BY <1>1, <1>2, <1>3, <1>6 DEF Starting, ArgY
    <2>2. Shown'
      BY <1>2, <1>3, <1>6 DEF Starting, Shown, ArgY
    <2> QED
      BY <2>1, <2>2
  <1>7. CASE ArgX
    <2>1. Starting'
      BY <1>1, <1>2, <1>3, <1>7 DEF Starting, ArgX
    <2>2. Shown'
      BY <1>2, <1>3, <1>7 DEF Starting, Shown, ArgX
    <2> QED
      BY <2>1, <2>2
  <1>8. CASE SaveFirst
    <2>1. Starting'
      BY <1>1, <1>2, <1>3, <1>8 DEF Starting, SaveFirst
    <2>2. mouse_save_buffer' = Behind(last_mouse_x, last_mouse_y)
      BY <1>3, <1>8 DEF Starting, Shown, SaveFirst, Behind
    <2>3. Shown'
      BY <1>2, <1>3, <1>8, <2>2 DEF Shown, SaveFirst
    <2> QED
      BY <2>1, <2>3
  <1>9. CASE DrawFirst
    <2>1. Starting'
      BY <1>1, <1>2, <1>3, <1>9 DEF Starting, DrawFirst
    <2>2. back_buffer' = Drawn(last_mouse_x, last_mouse_y)
      BY <1>3, <1>9 DEF Starting, Shown, DrawFirst, Drawn
    <2>3. Shown'
      BY <1>2, <1>3, <1>9, <2>2 DEF Shown, DrawFirst
    <2> QED
      BY <2>1, <2>3
  <1>10. CASE FlushFirst
    <2>1. phase' = "loop" /\ pc' = "poll" /\ UNCHANGED <<back_buffer, mouse_save_buffer, last_mouse_x, last_mouse_y>>
      BY <1>10 DEF FlushFirst
    <2>2. /\ nx = last_mouse_x /\ ny = last_mouse_y /\ vesa_mem = Background
          /\ back_buffer = Drawn(nx, ny)
          /\ mouse_save_buffer = Behind(last_mouse_x, last_mouse_y)
      BY <1>3, <1>10 DEF Starting, Shown, FlushFirst
    <2>3. vesa_mem' = [i \in Pixels |-> IF InRegion(i, nx, ny) THEN back_buffer[i] ELSE vesa_mem[i]]
      BY <1>10 DEF FlushFirst
    <2>4. nx \in 0 .. SCREEN_W - 1 /\ ny \in 0 .. SCREEN_H - 1 /\ Shape
          /\ back_buffer \in [Pixels -> Colours]
      BY DEF SceneInv, GuiInv, TypeOK
    <2>5. \A i \in Pixels : ~InRegion(i, nx, ny) => Drawn(nx, ny)[i] = Background[i]
      BY <2>4, InTheRegion
    <2>6. vesa_mem' = back_buffer
      BY <2>2, <2>3, <2>4, <2>5
    <2>7. Shown'
      BY <1>2, <2>1, <2>2, <2>6 DEF Shown
    <2> QED
      BY <2>1, <2>7 DEF Starting
  <1> QED
    BY <1>4, <1>5, <1>6, <1>7, <1>8, <1>9, <1>10 DEF Startup

\* A redraw takes the cursor away at its old place and draws it at its new one, in
\* the back buffer and on the screen (main.c:415-428, 475-489).
LEMMA RedrawScene ==
  ASSUME Fits, SceneInv, Redraw, phase = "loop"
  PROVE  Starting' /\ Shown'
  <1> DEFINE restored == mouse_restore_back(back_buffer, last_mouse_x, last_mouse_y)
             x == last_mouse_x
             y == last_mouse_y
  <1>1. /\ x \in 0 .. SCREEN_W - 1 /\ y \in 0 .. SCREEN_H - 1 /\ Shape
        /\ nx \in 0 .. SCREEN_W - 1 /\ ny \in 0 .. SCREEN_H - 1
    BY DEF SceneInv, GuiInv, TypeOK
  <1>2. /\ back_buffer = Drawn(x, y) /\ vesa_mem = back_buffer
        /\ mouse_save_buffer = Behind(x, y)
    BY DEF SceneInv, Shown
  <1>3. restored = Background
    BY <1>1, <1>2, Restores DEF mouse_restore_back
  <1>4. /\ mouse_save_buffer' = mouse_save_back(restored, nx, ny)
        /\ back_buffer' = cursor_draw(restored, nx, ny)
        /\ vesa_mem' = [i \in Pixels |-> IF InRegion(i, x, y) \/ InRegion(i, nx, ny)
                                         THEN back_buffer'[i] ELSE vesa_mem[i]]
        /\ last_mouse_x' = nx /\ last_mouse_y' = ny /\ pc' = "poll"
        /\ UNCHANGED <<files, cursor_pixels, phase>>
    BY DEF Redraw, fileVars
  <1> HIDE DEF restored, x, y
  <1>5. mouse_save_buffer' = Behind(nx, ny) /\ back_buffer' = Drawn(nx, ny)
    BY <1>3, <1>4 DEF Behind, Drawn
  <1>6. /\ \A i \in Pixels : ~InRegion(i, x, y) => Drawn(x, y)[i] = Background[i]
        /\ \A i \in Pixels : ~InRegion(i, nx, ny) => Drawn(nx, ny)[i] = Background[i]
    BY <1>1, InTheRegion
  <1>7. back_buffer' = [i \in Pixels |-> back_buffer'[i]]
    BY <1>4 DEF cursor_draw, PutAll
  <1>8. vesa_mem' = back_buffer'
    BY <1>2, <1>4, <1>5, <1>6, <1>7
  <1>9. \A a, b : Behind(a, b)' = Behind(a, b) /\ Drawn(a, b)' = Drawn(a, b)
    BY <1>4, SamePicture
  <1>10. phase' = "loop"
    BY <1>4
  <1>11. Shown'
    BY <1>4, <1>5, <1>8, <1>9, <1>10 DEF Shown
  <1> QED
    BY <1>10, <1>11 DEF Starting

\* One step, with a mouse at rest during the start-up.
LEMMA SceneStep ==
  ASSUME Fits, ~EarlyMotion, SceneInv, [Next]_vars
  PROVE  SceneInv'
  <1>1. GuiInv'
    BY StepGui DEF SceneInv
  <1>2. UNCHANGED <<files, cursor_pixels>>
    <2>1. CASE Startup
      BY <2>1 DEF Startup, LastX, LastY, ArgX, ArgY, SaveFirst, DrawFirst, FlushFirst, fileVars
    <2>2. CASE Loop
      BY <2>2 DEF Loop, Poll, Clear, ReadX, ReadY, Redraw, pixelVars, fileVars
    <2>3. CASE Interrupt
      BY <2>3 DEF Interrupt, pixelVars, fileVars
    <2>4. CASE UNCHANGED vars
      BY <2>4 DEF vars, guiVars, fileVars
    <2> QED
      BY <2>1, <2>2, <2>3, <2>4 DEF Next, Gui
  <1>3. /\ Background' = Background /\ Shape' = Shape
        /\ \A x, y : Behind(x, y)' = Behind(x, y) /\ Drawn(x, y)' = Drawn(x, y)
    BY <1>2, SamePicture
  <1>4. Starting /\ Shown
    BY DEF SceneInv
  <1>5. Starting' /\ Shown'
    <2>1. CASE Startup /\ UNCHANGED mouseVars
      BY <2>1, StartupScene
    <2>2. CASE Loop /\ ~Redraw
      <3>1. /\ pc \in {"poll", "clear", "readX", "readY"} /\ pc' \in {"clear", "readX", "readY", "redraw"}
            /\ UNCHANGED <<back_buffer, vesa_mem, mouse_save_buffer, last_mouse_x, last_mouse_y, phase>>
        BY <2>2 DEF Loop, Poll, Clear, ReadX, ReadY, pixelVars
      <3>2. phase = "loop"
        BY <1>4, <3>1 DEF Starting
      <3>3. Starting'
        BY <3>1, <3>2 DEF Starting
      <3>4. Shown'
        BY <1>3, <1>4, <3>1, <3>2 DEF Shown
      <3> QED
        BY <3>3, <3>4
    <2>3. CASE Redraw
      <3>1. phase = "loop"
        BY <1>4, <2>3 DEF Starting, Redraw
      <3> QED
        BY <2>3, <3>1, RedrawScene
    <2>4. CASE Interrupt
      <3>1. /\ phase = "loop"
            /\ UNCHANGED <<back_buffer, vesa_mem, mouse_save_buffer, last_mouse_x, last_mouse_y, phase, pc>>
        BY <2>4 DEF Interrupt, pixelVars
      <3>2. Starting'
        BY <3>1 DEF Starting
      <3>3. Shown'
        BY <1>3, <1>4, <3>1 DEF Shown
      <3> QED
        BY <3>2, <3>3
    <2>5. CASE UNCHANGED vars
      <3>1. UNCHANGED <<back_buffer, vesa_mem, mouse_save_buffer, last_mouse_x, last_mouse_y, nx, ny,
                        pc, phase, mouse_x, mouse_y>>
        BY <2>5 DEF vars, guiVars, mouseVars, handlerVars
      <3>2. Starting'
        BY <1>3, <1>4, <3>1 DEF Starting
      <3>3. Shown'
        BY <1>3, <1>4, <3>1 DEF Shown
      <3> QED
        BY <3>2, <3>3
    <2> QED
      BY <2>1, <2>2, <2>3, <2>4, <2>5 DEF Next, Gui
  <1> QED
    BY <1>1, <1>2, <1>3, <1>5 DEF SceneInv

\* On every screen of the assumed size, with every cursor and every image:
\* between two redraws the screen shows the image with the cursor at one
\* place and no trace of it anywhere else, whenever the mouse moves in between
\* (main.c:408-428, 469-490, vesa.c:300-325).  The hypotheses are those of NoTrace.
THEOREM PointerLeavesNoTrace ==
  ASSUME Fits, ~EarlyMotion
  PROVE  Spec => []NoTrace
  <1>1. Init => SceneInv
    BY InitScene
  <1>2. SceneInv /\ [Next]_vars => SceneInv'
    BY SceneStep
  <1>3. SceneInv => NoTrace
    <2> SUFFICES ASSUME SceneInv, phase = "loop"
                 PROVE  /\ back_buffer = WithCursor(last_mouse_x, last_mouse_y)
                        /\ \A i \in 0 .. SCREEN_W * SCREEN_H - 1 : vesa_mem[i] = back_buffer[i]
      BY DEF NoTrace
    <2>1. /\ last_mouse_x \in 0 .. SCREEN_W - 1 /\ last_mouse_y \in 0 .. SCREEN_H - 1 /\ Shape
          /\ back_buffer = Drawn(last_mouse_x, last_mouse_y) /\ vesa_mem = back_buffer
      BY DEF SceneInv, GuiInv, Shown
    <2> QED
      BY <2>1, Shows
  <1> QED
    BY <1>1, <1>2, <1>3, PTL DEF Spec
=============================================================================
