-------------------------------- MODULE Pic ---------------------------------
(***************************************************************************)
(* Interrupt delivery: the two cascaded 8259 controllers as the kernel     *)
(* programs them (pic_remap in src/src/main.c), the gates of idt_install   *)
(* (src/src/cpu/idt.c) and every port write of the handlers and of their   *)
(* wrappers (src/src/interrupt.S, src/src/drivers/mouse.c).  The chips are *)
(* hardware, modelled as far as the kernel uses them: initialisation       *)
(* words, mask register, non-specific end of interrupt, fully nested       *)
(* priorities.  All gates are interrupt gates and no handler executes sti, *)
(* so nothing is delivered until a handler has returned.                   *)
(***************************************************************************)
EXTENDS Integers, Sequences, FiniteSets

CONSTANT Lines      (* request lines that have a device which uses them     *)

TimerLine == 0
KeyboardLine == 1
CascadeLine == 2
MouseLine == 12
Lines8259 == 0 .. 15

ASSUME PicAssumption == Lines \subseteq Lines8259 \ {CascadeLine}

Chips == {"master", "slave"}
ChipOf(l) == IF l < 8 THEN "master" ELSE "slave"
Wires(c) == {l \in Lines8259 : ChipOf(l) = c}

VARIABLES
    irr,        (* lines requesting service                                *)
    isr,        (* lines in service                                        *)
    imr,        (* lines masked                                            *)
    base,       (* vector of each chip's first line                        *)
    icw,        (* the initialisation word each chip expects, 0 for none   *)
    todo,       (* port writes still to be made by the code that runs      *)
    running,    (* "boot", "main" or "handler"                             *)
    IF_         (* the processor's interrupt flag                          *)

chipVars == <<irr, isr, imr, base, icw>>
picVars == <<irr, isr, imr, base, icw, todo, running, IF_>>

-----------------------------------------------------------------------------
(* What the kernel writes: <<port, value>>.  Decimal: 32 is 0x20, the command  *)
(* port of the master and also the code of end-of-interrupt; 33 is its data   *)
(* port; 160 and 161 are those of the slave; 17 is the first initialisation   *)
(* word.                                                                      *)

EOI == 32

\* Mutant: the vectors of the two chips are swapped.
remapSwapped == << <<32, 17>>, <<160, 17>>, <<33, 40>>, <<161, 32>>,
                   <<33, 4>>,  <<161, 2>>,  <<33, 1>>,  <<161, 1>>,
                   <<33, 0>>,  <<161, 0>> >>

\* Mutant: the last word masks the timer.
remapMasking == << <<32, 17>>, <<160, 17>>, <<33, 32>>, <<161, 40>>,
                   <<33, 4>>,  <<161, 2>>,  <<33, 1>>,  <<161, 1>>,
                   <<33, 1>>,  <<161, 0>> >>

pic_remap == << <<32, 17>>, <<160, 17>>, <<33, 32>>, <<161, 40>>,
                <<33, 4>>,  <<161, 2>>,  <<33, 1>>,  <<161, 1>>,
                <<33, 0>>,  <<161, 0>> >>

\* Mutant: the keyboard wrapper returns without end of interrupt.
keyboardSilent == << >>

keyboard_isr_wrapper == << <<32, EOI>> >>

mouse_handler == << <<160, EOI>>, <<32, EOI>> >>

mouse_isr_wrapper == mouse_handler \o << <<161, EOI>>, <<32, EOI>> >>

isr_default_handler == << <<32, EOI>>, <<161, EOI>> >>

\* idt_install
idt(vector) ==
    CASE vector = 33 -> keyboard_isr_wrapper
      [] vector = 44 -> mouse_isr_wrapper
      [] OTHER       -> isr_default_handler

-----------------------------------------------------------------------------
(* The chips *)

Bits(c, val) ==
    {l \in Wires(c) : (val \div 2 ^ (l - (IF c = "slave" THEN 8 ELSE 0))) % 2 = 1}

\* Fully nested mode: the lower line of a chip goes first.
First(S) == {l \in S : \A k \in S : l <= k}

Command(c, val) ==
    IF val = 17
    THEN /\ icw' = [icw EXCEPT ![c] = 2]
         /\ imr' = imr \ Wires(c) /\ isr' = isr \ Wires(c) /\ irr' = irr \ Wires(c)
         /\ UNCHANGED base
    ELSE /\ val = EOI
         /\ isr' = isr \ First(isr \intersect Wires(c))
         /\ UNCHANGED <<irr, imr, base, icw>>

Data(c, val) ==
    /\ IF icw[c] = 0
       THEN imr' = (imr \ Wires(c)) \union Bits(c, val)
       ELSE UNCHANGED imr
    /\ base' = IF icw[c] = 2 THEN [base EXCEPT ![c] = val] ELSE base
    /\ icw' = [icw EXCEPT ![c] = CASE @ = 2 -> 3 [] @ = 3 -> 4 [] OTHER -> 0]
    /\ UNCHANGED <<irr, isr>>

outb(port, val) ==
    CASE port = 32  -> Command("master", val)
      [] port = 33  -> Data("master", val)
      [] port = 160 -> Command("slave", val)
      [] port = 161 -> Data("slave", val)

\* What a chip asks for: its first unmasked request, unless a line of the same
\* or a higher priority is still in service there.
Asks(c, requests) ==
    {l \in First((requests \ imr) \intersect Wires(c)) :
        \A k \in isr \intersect Wires(c) : l < k}

\* The slave asks through the cascade line of the master.
Offered ==
    LET s == Asks("slave", irr)
        m == Asks("master", IF s = {} THEN irr ELSE irr \union {CascadeLine})
    IN  IF m = {CascadeLine} THEN s ELSE m

Vector(l) == base[ChipOf(l)] + (l % 8)

-----------------------------------------------------------------------------
(* The machine *)

\* The firmware leaves masks and requests of its own; the loader has interrupts
\* off (entry.S) and kernel_main starts with pic_remap as far as the chips go.
PicInit ==
    /\ irr \in SUBSET Lines /\ isr = {} /\ imr \in SUBSET Lines
    /\ base = [c \in Chips |-> IF c = "master" THEN 8 ELSE 112]
    /\ icw = [c \in Chips |-> 0]
    /\ todo = pic_remap /\ running = "boot" /\ IF_ = FALSE

Write ==
    /\ todo # <<>>
    /\ outb(Head(todo)[1], Head(todo)[2])
    /\ todo' = Tail(todo)
    /\ UNCHANGED <<running, IF_>>

Sti ==
    /\ running = "boot" /\ todo = <<>>
    /\ running' = "main" /\ IF_' = TRUE
    /\ UNCHANGED <<chipVars, todo>>

\* Mutant: the gate is a trap gate, which leaves interrupts on.
DeliverTrap(l) ==
    /\ IF_ /\ l \in Offered
    /\ irr' = irr \ {l}
    /\ isr' = isr \union {l} \union (IF ChipOf(l) = "slave" THEN {CascadeLine} ELSE {})
    /\ running' = "handler" /\ todo' = idt(Vector(l))
    /\ UNCHANGED <<imr, base, icw, IF_>>

\* The processor takes the interrupt through its gate.
Deliver(l) ==
    /\ IF_ /\ l \in Offered
    /\ irr' = irr \ {l}
    /\ isr' = isr \union {l} \union (IF ChipOf(l) = "slave" THEN {CascadeLine} ELSE {})
    /\ running' = "handler" /\ todo' = idt(Vector(l)) /\ IF_' = FALSE
    /\ UNCHANGED <<imr, base, icw>>

Iret ==
    /\ running = "handler" /\ todo = <<>>
    /\ running' = "main" /\ IF_' = TRUE
    /\ UNCHANGED <<chipVars, todo>>

\* Keyboard and mouse share the controller's output buffer, so the next byte of
\* either waits for the last one to be taken; the timer is slower than that.
Raise(l) ==
    /\ l \notin irr
    /\ l \in {TimerLine, KeyboardLine, MouseLine}
           => irr \intersect {KeyboardLine, MouseLine} = {}
    /\ irr' = irr \union {l}
    /\ UNCHANGED <<isr, imr, base, icw, todo, running, IF_>>

Processor == Write \/ Sti \/ Iret \/ \E l \in Lines : Deliver(l)

PicNext == Processor \/ \E l \in Lines : Raise(l)

\* The processor executes on and takes what it is offered.
PicSpec == PicInit /\ [][PicNext]_picVars /\ WF_picVars(Processor)

-----------------------------------------------------------------------------
(* Properties *)

PicTypeOK ==
    /\ irr \subseteq Lines /\ isr \subseteq Lines \union {CascadeLine}
    /\ imr \subseteq Lines8259
    /\ base \in [Chips -> 0 .. 255] /\ icw \in [Chips -> {0, 2, 3, 4}]
    /\ running \in {"boot", "main", "handler"}
    /\ IF_ = (running = "main")

\* Between handlers nothing stays in service on the master, nor on the slave at
\* or above the mouse's priority: the doubled end of interrupt of the mouse
\* path takes away nothing else and leaves nothing behind (interrupt.S:30-33,
\* mouse.c:156-157).
WorkingLinesFree ==
    running = "main" => \A l \in isr : ChipOf(l) = "slave" /\ l > MouseLine

\* Each device's interrupt enters the handler written for it, although the
\* firmware's vectors are different (main.c:669-681, idt.c:45-48).
OwnHandler ==
    [][\A l \in Lines : Deliver(l) =>
        /\ l = KeyboardLine => todo' = keyboard_isr_wrapper
        /\ l = MouseLine => todo' = mouse_isr_wrapper
        /\ l \notin {KeyboardLine, MouseLine} => todo' = isr_default_handler]_picVars

\* Every tick, key and mouse byte is delivered in the end, stray interrupts of
\* the disks notwithstanding (the wake-ups of main.c:776 and main.c:408).
Delivered ==
    \A l \in {TimerLine, KeyboardLine, MouseLine} \intersect Lines : l \in irr ~> l \notin irr

\* The default handler acknowledges stray interrupts on both chips.
StrayAcknowledged == running = "main" => isr = {}
=============================================================================
