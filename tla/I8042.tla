------------------------------- MODULE I8042 --------------------------------
(***************************************************************************)
(* Setting up the mouse (init_mouse and its helpers in                     *)
(* src/src/drivers/mouse.c).  startx and imgview call it with interrupts   *)
(* on, so the bytes it polls for raise the very interrupts whose handlers  *)
(* read the same port.  The 8042 controller and the mouse are hardware,    *)
(* modelled as far as this code uses them: one output buffer, shared by    *)
(* keyboard, mouse and controller, which keeps its last byte after it has  *)
(* been read.  The controller takes what is written to it before           *)
(* mouse_wait(1) gives up, so that this wait is no step of its own, and an *)
(* answer that is under way comes before mouse_wait(0) does.               *)
(***************************************************************************)
EXTENDS Mouse

CONSTANTS
    CommandBytes,   (* what the firmware leaves in the command byte        *)
    Scancodes,      (* bytes the keyboard sends                            *)
    MaxKeys         (* bound: keys pressed                                 *)

Bytes == 0 .. 255

ASSUME I8042Assumption ==
    /\ CommandBytes \subseteq Bytes /\ Scancodes \subseteq Bytes
    /\ MaxKeys \in Nat

VARIABLES
    out,        (* output buffer: [data, full, from]                       *)
    command,    (* the controller's command byte                           *)
    before,     (* ... as the firmware left it                             *)
    expects,    (* what the next byte written to port 0x60 is              *)
    answers,    (* bytes under way: source -> sequence                     *)
    reporting,  (* the mouse sends movements                               *)
    keys,       (* keys pressed so far                                     *)
    irr,        (* interrupts requested                                    *)
    running,    (* "main", or the handler that runs                        *)
    at,         (* where init_mouse is                                     *)
    order,      (* the mouse command sent last                             *)
    status      (* the local variable of init_mouse                        *)

hardware == <<out, command, expects, answers, reporting, irr>>
mainVars == <<at, order, status>>
setupVars == <<mouseVars, hardware, before, keys, running, mainVars>>

Sources == {"keyboard", "mouse", "controller"}

\* The bits of the command byte that stop a device's clock.
AuxOff == 5
KbdOff == 4

\* 0xFA, 0xF6, 0xF4
ACK == 250
Defaults == 246
EnableReporting == 244

SetupInit ==
    /\ MouseInit
    /\ \E full \in BOOLEAN, byte \in Scancodes :
          out = [data |-> byte, full |-> full, from |-> "keyboard"]
    /\ command \in CommandBytes /\ before = command
    /\ expects = "nothing" /\ answers = [s \in Sources |-> <<>>]
    /\ reporting = FALSE /\ keys = 0
    /\ irr = {} /\ running = "main"
    /\ at = "flush" /\ order = Defaults /\ status = 0

-----------------------------------------------------------------------------
(* The hardware *)

Clocked(s) ==
    CASE s = "keyboard" -> ~Bit(command, KbdOff)
      [] s = "mouse"    -> ~Bit(command, AuxOff)
      [] OTHER          -> TRUE

\* Keyboard and controller ask for interrupt 1, the mouse for interrupt 12.
Requests(s) ==
    IF s = "mouse" THEN IF Bit(command, 1) THEN {12} ELSE {}
                   ELSE IF Bit(command, 0) THEN {1} ELSE {}

Arrive(s) ==
    /\ ~out.full /\ answers[s] # <<>> /\ Clocked(s)
    /\ out' = [data |-> Head(answers[s]), full |-> TRUE, from |-> s]
    /\ answers' = [answers EXCEPT ![s] = Tail(@)]
    /\ irr' = irr \union Requests(s)
    /\ UNCHANGED <<mouseVars, command, expects, reporting, before, keys, running, mainVars>>

PressKey(byte) ==
    /\ keys < MaxKeys /\ keys' = keys + 1
    /\ answers' = [answers EXCEPT !["keyboard"] = Append(@, byte)]
    /\ UNCHANGED <<mouseVars, out, command, expects, reporting, irr, before, running, mainVars>>

\* The mouse sends the next byte of a movement.
Move ==
    /\ reporting /\ answers["mouse"] = <<>>
    /\ answers' = [answers EXCEPT !["mouse"] = <<Packet(movement)[sent + 1]>>]
    /\ Transmit
    /\ UNCHANGED <<handlerVars, lost, out, command, expects, reporting, irr, before, keys, running,
                   mainVars>>

Answer(s, byte) == answers' = [answers EXCEPT ![s] = Append(@, byte)]

\* outb(0x64, ...)
Command(c) ==
    /\ command' = IF c = "enable mouse" /\ Bit(command, AuxOff) THEN command - 32 ELSE command
    /\ expects' = IF c = "enable mouse" THEN expects ELSE c
    /\ IF c = "read command byte" THEN Answer("controller", command) ELSE UNCHANGED answers
    /\ UNCHANGED <<out, reporting, irr>>

\* outb(0x60, ...).  A mouse that is spoken to gives up the packet it is sending.
Data(byte) ==
    /\ expects' = "nothing"
    /\ command' = IF expects = "write command byte" THEN byte ELSE command
    /\ answers' = IF expects = "to the mouse" THEN [answers EXCEPT !["mouse"] = <<ACK>>] ELSE answers
    /\ reporting' = IF expects = "to the mouse" THEN byte = EnableReporting ELSE reporting
    /\ UNCHANGED <<out, irr>>

\* inb(0x60).  Whether the interrupt controller forgets a request when the
\* byte it was raised for is gone depends on the machine.
TakeByte ==
    /\ out' = [out EXCEPT !.full = FALSE]
    /\ irr' \in {irr, irr \ Requests(out.from)}

-----------------------------------------------------------------------------
(* init_mouse *)

Main(from, to) ==
    /\ running = "main" /\ at = from /\ at' = to
    /\ UNCHANGED <<mouseVars, before, keys, running>>

\* Mutant: the output buffer is not emptied first.
NoFlush ==
    /\ Main("flush", "enable")
    /\ UNCHANGED <<hardware, order, status>>

FlushTest ==
    /\ Main("flush", IF out.full THEN "discard" ELSE "enable")
    /\ UNCHANGED <<hardware, order, status>>

FlushTake ==
    /\ Main("discard", "flush")
    /\ TakeByte
    /\ UNCHANGED <<command, expects, answers, reporting, order, status>>

EnableAux ==
    /\ Main("enable", "ask")
    /\ Command("enable mouse")
    /\ UNCHANGED <<order, status>>

AskCommandByte ==
    /\ Main("ask", "wait byte")
    /\ Command("read command byte")
    /\ UNCHANGED <<order, status>>

\* Mutant: mouse_wait waits for ever.
WaitForEver(s) == out.full

AnswerDue(s) == answers[s] # <<>> /\ (s = "mouse" => Head(answers[s]) = ACK)

\* mouse_wait(0) sees a byte, or gives up: the answer was taken from under it.
Waited(s) == out.full \/ ~AnswerDue(s)

WaitCommandByte ==
    /\ Main("wait byte", "take byte")
    /\ Waited("controller")
    /\ UNCHANGED <<hardware, order, status>>

\* Mutant: the bits are changed by adding and subtracting.
Enabled12Sum(byte) == byte + 2 - 32

\* status |= 0x02; status &= ~0x20;
Enabled12(byte) ==
    LET set == IF Bit(byte, 1) THEN byte ELSE byte + 2
    IN  IF Bit(set, AuxOff) THEN set - 32 ELSE set

TakeCommandByte ==
    /\ Main("take byte", "announce")
    /\ TakeByte
    /\ status' = Enabled12(out.data)
    /\ UNCHANGED <<command, expects, answers, reporting, order>>

Announce ==
    /\ Main("announce", "write back")
    /\ Command("write command byte")
    /\ UNCHANGED <<order, status>>

WriteBack ==
    /\ Main("write back", "address")
    /\ Data(status)
    /\ UNCHANGED <<order, status>>

\* mouse_write and mouse_read, first for Defaults, then for EnableReporting.
Address ==
    /\ Main("address", "send")
    /\ Command("to the mouse")
    /\ UNCHANGED <<order, status>>

Send ==
    /\ Main("send", "wait ack")
    /\ Data(order)
    /\ UNCHANGED <<order, status>>

WaitAck ==
    /\ Main("wait ack", "take ack")
    /\ Waited("mouse")
    /\ UNCHANGED <<hardware, order, status>>

TakeAck ==
    /\ Main("take ack", IF order = Defaults THEN "address" ELSE "done")
    /\ TakeByte
    /\ order' = EnableReporting
    /\ UNCHANGED <<command, expects, answers, reporting, status>>

init_mouse ==
    \/ FlushTest \/ FlushTake \/ EnableAux \/ AskCommandByte
    \/ WaitCommandByte \/ TakeCommandByte \/ Announce \/ WriteBack
    \/ Address \/ Send \/ WaitAck \/ TakeAck

-----------------------------------------------------------------------------
(* Interrupts: the keyboard's goes first. *)

TakeInterrupt ==
    /\ running = "main" /\ irr # {}
    /\ IF 1 \in irr THEN running' = "keyboard" /\ irr' = irr \ {1}
                    ELSE running' = "mouse" /\ irr' = irr \ {12}
    /\ UNCHANGED <<mouseVars, out, command, expects, answers, reporting, before, keys, mainVars>>

\* keyboard_handler: what it does with the byte is the matter of Shell.
KeyboardHandler ==
    /\ running = "keyboard" /\ running' = "main"
    /\ IF out.full THEN TakeByte ELSE UNCHANGED <<out, irr>>
    /\ UNCHANGED <<mouseVars, command, expects, answers, reporting, before, keys, mainVars>>

MouseHandler ==
    /\ running = "mouse" /\ running' = "main"
    /\ IF out.full THEN TakeByte /\ mouse_handler(out.data)
                   ELSE UNCHANGED <<out, irr, handlerVars>>
    /\ UNCHANGED <<movement, sent, lost, command, expects, answers, reporting, before, keys, mainVars>>

Handler == TakeInterrupt \/ KeyboardHandler \/ MouseHandler

Hardware ==
    \/ \E s \in Sources : Arrive(s)
    \/ \E byte \in Scancodes : PressKey(byte)
    \/ Move

SetupNext == init_mouse \/ Handler \/ Hardware

\* Answers arrive; handlers are much shorter than the time between two bytes,
\* so the main program gets on again and again.
Fairness ==
    /\ \A s \in Sources : WF_setupVars(Arrive(s))
    /\ WF_setupVars(Handler) /\ SF_setupVars(init_mouse)

SetupSpec == SetupInit /\ [][SetupNext]_setupVars /\ Fairness

-----------------------------------------------------------------------------
(* Properties *)

SetupTypeOK ==
    /\ MouseTypeOK
    /\ out \in [data : Bytes, full : BOOLEAN, from : Sources]
    /\ command \in Bytes /\ before \in CommandBytes
    /\ answers \in [Sources -> Seq(Bytes)] /\ reporting \in BOOLEAN
    /\ keys \in 0 .. MaxKeys
    /\ irr \subseteq {1, 12} /\ running \in {"main", "keyboard", "mouse"}
    /\ order \in {Defaults, EnableReporting} /\ status \in Bytes

\* If no key is pressed meanwhile, the mouse reports when init_mouse returns,
\* its interrupt is on, and every other bit of the command byte is as the
\* firmware left it - although the handlers may have taken every single byte
\* that init_mouse was waiting for (mouse.c:55-86).
MouseOn ==
    at = "done" /\ keys = 0 => reporting /\ command = Enabled12(before)

\* init_mouse returns whatever bytes its waits lose to the handlers
\* (mouse.c:24-36, 60-62).
InitReturns == <>(at = "done")
=============================================================================
