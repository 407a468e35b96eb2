-------------------------- MODULE InterruptProofs ---------------------------
(***************************************************************************)
(* Proofs about interrupts.  How they are delivered: for every set of      *)
(* interrupting devices each handler takes back exactly what its interrupt *)
(* has put in service on the master, and each device enters its own        *)
(* handler.  What the keyboard's handler shares with the main loop: the    *)
(* command line, for every buffer size, alphabet and set of commands, and  *)
(* for a user who does not wait.                                           *)
(***************************************************************************)
EXTENDS Shell, Pic, SequenceTheorems, TLAPS

-----------------------------------------------------------------------------
(* Delivery *)

\* What is left of a list of port writes once k of them have been made.
Rest(s, k) == SubSeq(s, k + 1, Len(s))

MasterIsr == isr \intersect Wires("master")

\* pic_remap after k writes: which initialisation word each chip waits for, and
\* which vectors it has been told.
Programming(k) ==
    /\ icw["master"] = CASE k = 0 -> 0 [] k \in 1 .. 2 -> 2 [] k \in 3 .. 4 -> 3
                         [] k \in 5 .. 6 -> 4 [] OTHER -> 0
    /\ icw["slave"] = CASE k <= 1 -> 0 [] k \in 2 .. 3 -> 2 [] k \in 4 .. 5 -> 3
                        [] k \in 6 .. 7 -> 4 [] OTHER -> 0
    /\ k >= 3 => base["master"] = 32
    /\ k >= 4 => base["slave"] = 40

Booting ==
    running = "boot" =>
        /\ isr = {}
        /\ \E k \in 0 .. 10 : todo = Rest(pic_remap, k) /\ Programming(k)

Programmed ==
    running # "boot" => icw = [c \in Chips |-> 0] /\ base["master"] = 32 /\ base["slave"] = 40

\* What a handler still has to write, and what is in service on the master until
\* it has.
Handling ==
    running = "handler" =>
        \/ \E k \in 0 .. 1 : /\ todo = Rest(keyboard_isr_wrapper, k)
                             /\ k = 0 => \E l \in Lines8259 : MasterIsr = {l}
                             /\ k > 0 => MasterIsr = {}
        \/ \E k \in 0 .. 2 : /\ todo = Rest(isr_default_handler, k)
                             /\ k = 0 => \E l \in Lines8259 : MasterIsr = {l}
                             /\ k > 0 => MasterIsr = {}
        \/ \E k \in 0 .. 4 : /\ todo = Rest(mouse_isr_wrapper, k)
                             /\ k <= 1 => \E l \in Lines8259 : MasterIsr = {l}
                             /\ k > 1 => MasterIsr = {}

Quiet == running = "main" => todo = <<>> /\ MasterIsr = {}

\* The inductive invariant.
PicInv == PicTypeOK /\ Booting /\ Programmed /\ Handling /\ Quiet

\* The slave keeps what the default handler has not acknowledged there; the
\* mouse's own line is in service only until the first write of its handler.
SlaveInv ==
    running # "boot" =>
        \A l \in isr : ChipOf(l) = "slave" =>
            /\ l >= MouseLine
            /\ l = MouseLine => running = "handler" /\ todo = Rest(mouse_isr_wrapper, 0)

-----------------------------------------------------------------------------
(* Lists of writes *)

Writes == Seq(Seq(Nat))

\* Making the next write leaves the rest without it (the order of interrupt.S and
\* main.c:669-681).
LEMMA RestOf ==
  ASSUME NEW S, NEW s \in Seq(S), NEW k \in 0 .. Len(s)
  PROVE  /\ Rest(s, k) = <<>> <=> k = Len(s)
         /\ k < Len(s) => /\ Head(Rest(s, k)) = s[k + 1]
                          /\ Tail(Rest(s, k)) = Rest(s, k + 1)
  <1> USE LenProperties
  <1>1. CASE k = Len(s)
    <2>1. Rest(s, k) = <<>>
      BY <1>1, SubSeqEmpty DEF Rest
    <2> QED
      BY <1>1, <2>1
  <1>2. CASE k < Len(s)
    <2>1. k + 1 \in 1 .. Len(s) /\ Len(s) \in k + 1 .. Len(s)
      BY <1>2
    <2>2. Len(Rest(s, k)) = Len(s) - k
      BY <2>1, SubSeqProperties, ElementOfSeq DEF Rest
    <2>3. Rest(s, k) # <<>>
      BY <2>1, <2>2, EmptySeq
    <2>4. Head(Rest(s, k)) = s[k + 1] /\ Tail(Rest(s, k)) = Rest(s, k + 1)
      BY <2>1, HeadTailOfSubSeq DEF Rest
    <2> QED
      BY <1>2, <2>3, <2>4
  <1> QED
    BY <1>1, <1>2

\* The lists of writes and their lengths: pic_remap makes ten, the mouse path four.
LEMMA Routines ==
  /\ pic_remap \in Writes /\ Len(pic_remap) = 10
  /\ keyboard_isr_wrapper \in Writes /\ Len(keyboard_isr_wrapper) = 1
  /\ isr_default_handler \in Writes /\ Len(isr_default_handler) = 2
  /\ mouse_isr_wrapper \in Writes /\ Len(mouse_isr_wrapper) = 4
  /\ mouse_isr_wrapper = << <<160, 32>>, <<32, 32>>, <<161, 32>>, <<32, 32>> >>
  <1>1. pic_remap \in Writes /\ Len(pic_remap) = 10
    BY DEF pic_remap, Writes
  <1>2. keyboard_isr_wrapper \in Writes /\ Len(keyboard_isr_wrapper) = 1
    BY DEF keyboard_isr_wrapper, Writes, EOI
  <1>3. isr_default_handler \in Writes /\ Len(isr_default_handler) = 2
    BY DEF isr_default_handler, Writes, EOI
  <1>4. mouse_isr_wrapper = << <<160, 32>>, <<32, 32>>, <<161, 32>>, <<32, 32>> >>
    <2> DEFINE ends == << <<160, 32>>, <<32, 32>> >>
               more == << <<161, 32>>, <<32, 32>> >>
    <2>1. ends \in Writes /\ more \in Writes /\ Len(ends) = 2 /\ Len(more) = 2
      BY DEF Writes
    <2>2. /\ ends \o more \in Writes /\ Len(ends \o more) = 4
          /\ \A j \in 1 .. 4 : (ends \o more)[j] = IF j <= 2 THEN ends[j] ELSE more[j - 2]
      BY <2>1, ConcatProperties DEF Writes
    <2>3. mouse_isr_wrapper = ends \o more
      BY DEF mouse_isr_wrapper, mouse_handler, EOI
    <2> DEFINE all == << <<160, 32>>, <<32, 32>>, <<161, 32>>, <<32, 32>> >>
    <2>4. all \in Writes /\ Len(all) = 4
      BY DEF Writes
    <2>5. \A j \in 1 .. 4 : all[j] = IF j <= 2 THEN ends[j] ELSE more[j - 2]
      <3>1. all[1] = ends[1] /\ all[2] = ends[2] /\ all[3] = more[1] /\ all[4] = more[2]
        OBVIOUS
      <3> HIDE DEF all, ends, more
      <3>2. ASSUME NEW j \in 1 .. 4
            PROVE  all[j] = IF j <= 2 THEN ends[j] ELSE more[j - 2]
        <4>1. CASE j = 1
          BY <3>1, <4>1
        <4>2. CASE j = 2
          BY <3>1, <4>2
        <4>3. CASE j = 3
          BY <3>1, <4>3
        <4>4. CASE j = 4
          BY <3>1, <4>4
        <4> QED
          BY <4>1, <4>2, <4>3, <4>4
      <3> QED
        BY <3>2
    <2> HIDE DEF all, ends, more
    <2>6. ends \o more = all
      <3>1. \A j \in 1 .. 4 : (ends \o more)[j] = all[j]
        BY <2>2, <2>5
      <3> DEFINE joined == ends \o more
      <3>2. joined \in Seq(Seq(Nat)) /\ all \in Seq(Seq(Nat)) /\ Len(joined) = 4 /\ Len(all) = 4
        BY <2>2, <2>4 DEF Writes
      <3> HIDE DEF joined
      <3>3. \A j \in 1 .. Len(joined) : joined[j] = all[j]
        BY <3>1, <3>2 DEF joined
      <3> QED
        BY <3>2, <3>3, SeqEqual DEF joined
    <2> QED
      BY <2>3, <2>6 DEF all
  <1>5. mouse_isr_wrapper \in Writes /\ Len(mouse_isr_wrapper) = 4
    BY <1>4 DEF Writes
  <1> QED
    BY <1>1, <1>2, <1>3, <1>4, <1>5

-----------------------------------------------------------------------------
(* The chips *)

\* End of interrupt takes exactly the one line in service on the master.
LEMMA AcknowledgeMaster ==
  ASSUME outb(32, 32), NEW l \in Lines8259, MasterIsr = {l}
  PROVE  isr' = isr \ {l} /\ MasterIsr' = {} /\ UNCHANGED <<irr, imr, base, icw>>
  <1>1. Command("master", 32)
    BY DEF outb
  <1>2. isr' = isr \ First(isr \intersect Wires("master")) /\ UNCHANGED <<irr, imr, base, icw>>
    BY <1>1 DEF Command, EOI
  <1>3. First({l}) = {l}
    BY DEF First, Lines8259
  <1> QED
    BY <1>2, <1>3 DEF MasterIsr

\* With nothing in service there it does nothing.
LEMMA AcknowledgeNothing ==
  ASSUME outb(32, 32), MasterIsr = {}
  PROVE  UNCHANGED <<isr, irr, imr, base, icw>>
  <1>1. Command("master", 32)
    BY DEF outb
  <1>2. isr' = isr \ First(isr \intersect Wires("master")) /\ UNCHANGED <<irr, imr, base, icw>>
    BY <1>1 DEF Command, EOI
  <1>3. First({}) = {}
    BY DEF First
  <1> QED
    BY <1>2, <1>3 DEF MasterIsr

\* The slave's end of interrupt leaves the master alone, and takes the mouse's
\* line if that is the first in service.
LEMMA AcknowledgeSlave ==
  ASSUME outb(160, 32)
  PROVE  /\ isr' \subseteq isr /\ MasterIsr' = MasterIsr
         /\ UNCHANGED <<irr, imr, base, icw>>
         /\ (\A l \in isr : ChipOf(l) = "slave" => l >= MouseLine) /\ isr \subseteq Lines8259
               => MouseLine \notin isr'
  <1>1. Command("slave", 32)
    BY DEF outb
  <1>2. isr' = isr \ First(isr \intersect Wires("slave")) /\ UNCHANGED <<irr, imr, base, icw>>
    BY <1>1 DEF Command, EOI
  <1>3. First(isr \intersect Wires("slave")) \intersect Wires("master") = {}
    BY DEF First, Wires
  <1>4. ASSUME \A l \in isr : ChipOf(l) = "slave" => l >= MouseLine, isr \subseteq Lines8259, MouseLine \in isr
        PROVE  MouseLine \in First(isr \intersect Wires("slave"))
    BY <1>4 DEF First, Wires, ChipOf, MouseLine, Lines8259
  <1> QED
    BY <1>2, <1>3, <1>4 DEF MasterIsr

\* Written outside initialisation, the slave's data port only sets its mask.
LEMMA MaskSlave ==
  ASSUME PicTypeOK, icw = [c \in Chips |-> 0], NEW val, outb(161, val)
  PROVE  UNCHANGED <<isr, irr, base, icw>> /\ imr' \subseteq Lines8259
  <1>1. Data("slave", val)
    BY DEF outb
  <1>2. icw["slave"] = 0
    BY DEF Chips
  <1>3. UNCHANGED <<isr, irr, base>> /\ imr' \subseteq Lines8259
    BY <1>1, <1>2 DEF Data, PicTypeOK, Bits, Wires
  <1>4. icw' = icw
    <2> DEFINE given == CASE icw["slave"] = 2 -> 3 [] icw["slave"] = 3 -> 4 [] OTHER -> 0
    <2>1. given = 0
      BY <1>2
    <2>2. icw' = [icw EXCEPT !["slave"] = given]
      BY <1>1 DEF Data
    <2> QED
      BY <1>2, <2>1, <2>2
  <1> QED
    BY <1>3, <1>4

\* Whatever is written, the chips stay chips and nothing new is in service.
LEMMA ChipTypes ==
  ASSUME PicTypeOK, NEW c \in Chips, NEW val \in 0 .. 255, Command(c, val) \/ Data(c, val)
  PROVE  /\ irr' \subseteq Lines /\ isr' \subseteq isr /\ imr' \subseteq Lines8259
         /\ base' \in [Chips -> 0 .. 255] /\ icw' \in [Chips -> {0, 2, 3, 4}]
  <1>1. CASE Command(c, val)
    BY <1>1 DEF PicTypeOK, Command, Chips
  <1>2. CASE Data(c, val)
    <2> DEFINE given == CASE icw[c] = 2 -> 3 [] icw[c] = 3 -> 4 [] OTHER -> 0
    <2>1. given \in {0, 2, 3, 4}
      BY DEF PicTypeOK
    <2>2. icw' = [icw EXCEPT ![c] = given]
      BY <1>2 DEF Data
    <2> HIDE DEF given
    <2>3. icw' \in [Chips -> {0, 2, 3, 4}]
      BY <2>1, <2>2 DEF PicTypeOK
    <2>4. base' \in [Chips -> 0 .. 255]
      BY <1>2 DEF Data, PicTypeOK
    <2>5. UNCHANGED <<irr, isr>> /\ imr' \subseteq Lines8259
      BY <1>2 DEF Data, PicTypeOK, Bits, Wires
    <2> QED
      BY <2>3, <2>4, <2>5 DEF PicTypeOK
  <1> QED
    BY <1>1, <1>2

\* The same of a write to any port the kernel uses.
LEMMA OutbTypes ==
  ASSUME PicTypeOK, NEW port \in {32, 33, 160, 161}, NEW val \in 0 .. 255, outb(port, val),
         UNCHANGED <<running, IF_>>
  PROVE  PicTypeOK' /\ isr' \subseteq isr
  <1>1. \E c \in Chips : Command(c, val) \/ Data(c, val)
    BY DEF outb, Chips
  <1>2. /\ irr' \subseteq Lines /\ isr' \subseteq isr /\ imr' \subseteq Lines8259
        /\ base' \in [Chips -> 0 .. 255] /\ icw' \in [Chips -> {0, 2, 3, 4}]
    BY <1>1, ChipTypes
  <1> QED
    BY <1>2 DEF PicTypeOK

\* One more word of pic_remap (main.c:669-681).
LEMMA ProgrammingAdvances ==
  ASSUME PicTypeOK, NEW k \in 0 .. 9, Programming(k), outb(pic_remap[k + 1][1], pic_remap[k + 1][2])
  PROVE  Programming(k + 1)'
  <1>1. ASSUME NEW c \in Chips, NEW val, Command(c, val), val = 17
        PROVE  icw' = [icw EXCEPT ![c] = 2] /\ base' = base
    BY <1>1 DEF Command
  <1>2. ASSUME NEW c \in Chips, NEW val, Data(c, val)
        PROVE  /\ icw' = [icw EXCEPT ![c] = IF icw[c] = 2 THEN 3 ELSE IF icw[c] = 3 THEN 4 ELSE 0]
               /\ base' = IF icw[c] = 2 THEN [base EXCEPT ![c] = val] ELSE base
    <2> DEFINE given == CASE icw[c] = 2 -> 3 [] icw[c] = 3 -> 4 [] OTHER -> 0
               next == IF icw[c] = 2 THEN 3 ELSE IF icw[c] = 3 THEN 4 ELSE 0
    <2>1. given = next
      OBVIOUS
    <2>2. icw' = [icw EXCEPT ![c] = given]
      BY <1>2 DEF Data
    <2> QED
      BY <1>2, <2>1, <2>2 DEF Data
  <1>3. icw \in [Chips -> {0, 2, 3, 4}] /\ base \in [Chips -> 0 .. 255]
    BY DEF PicTypeOK
  <1>4. CASE k = 0
    <2>1. Command("master", 17)
      BY <1>4 DEF outb, pic_remap
    <2> QED
      BY <1>1, <1>3, <1>4, <2>1 DEF Programming, Chips
  <1>5. CASE k = 1
    <2>1. Command("slave", 17)
      BY <1>5 DEF outb, pic_remap
    <2> QED
      BY <1>1, <1>3, <1>5, <2>1 DEF Programming, Chips
  <1>6. CASE k = 2
    <2>1. Data("master", 32)
      BY <1>6 DEF outb, pic_remap
    <2> QED
      BY <1>2, <1>3, <1>6, <2>1 DEF Programming, Chips
  <1>7. CASE k = 3
    <2>1. Data("slave", 40)
      BY <1>7 DEF outb, pic_remap
    <2> QED
      BY <1>2, <1>3, <1>7, <2>1 DEF Programming, Chips
  <1>8. CASE k = 4
    <2>1. Data("master", 4)
      BY <1>8 DEF outb, pic_remap
    <2> QED
      BY <1>2, <1>3, <1>8, <2>1 DEF Programming, Chips
  <1>9. CASE k = 5
    <2>1. Data("slave", 2)
      BY <1>9 DEF outb, pic_remap
    <2> QED
      BY <1>2, <1>3, <1>9, <2>1 DEF Programming, Chips
  <1>10. CASE k = 6
    <2>1. Data("master", 1)
      BY <1>10 DEF outb, pic_remap
    <2> QED
      BY <1>2, <1>3, <1>10, <2>1 DEF Programming, Chips
  <1>11. CASE k = 7
    <2>1. Data("slave", 1)
      BY <1>11 DEF outb, pic_remap
    <2> QED
      BY <1>2, <1>3, <1>11, <2>1 DEF Programming, Chips
  <1>12. CASE k = 8
    <2>1. Data("master", 0)
      BY <1>12 DEF outb, pic_remap
    <2> QED
      BY <1>2, <1>3, <1>12, <2>1 DEF Programming, Chips
  <1>13. CASE k = 9
    <2>1. Data("slave", 0)
      BY <1>13 DEF outb, pic_remap
    <2> QED
      BY <1>2, <1>3, <1>13, <2>1 DEF Programming, Chips
  <1> QED
    BY <1>4, <1>5, <1>6, <1>7, <1>8, <1>9, <1>10, <1>11, <1>12, <1>13

-----------------------------------------------------------------------------
(* The machine *)

\* The machine starts with pic_remap still to be made and no line in service.
LEMMA InitPicInv == PicInit => PicInv
  <1> SUFFICES ASSUME PicInit
               PROVE  PicInv
    OBVIOUS
  <1>1. PicTypeOK
    <2>1. base \in [Chips -> 0 .. 255] /\ icw \in [Chips -> {0, 2, 3, 4}]
      BY DEF PicInit, Chips
    <2>2. irr \subseteq Lines /\ isr \subseteq Lines \union {CascadeLine} /\ imr \subseteq Lines8259
      BY PicAssumption DEF PicInit
    <2>3. running \in {"boot", "main", "handler"} /\ IF_ = (running = "main")
      BY DEF PicInit
    <2> QED
      BY <2>1, <2>2, <2>3 DEF PicTypeOK
  <1>2. Booting
    <2>1. Rest(pic_remap, 0) = pic_remap
      BY Routines, SubSeqFull DEF Rest, Writes
    <2>2. Programming(0)
      BY DEF PicInit, Programming, Chips
    <2> QED
      BY <2>1, <2>2 DEF PicInit, Booting
  <1>3. Programmed /\ Handling /\ Quiet
    BY DEF PicInit, Programmed, Handling, Quiet
  <1> QED
    BY <1>1, <1>2, <1>3 DEF PicInv

\* Nothing has been made of a list: all of it is left.
LEMMA RestWhole ==
  ASSUME NEW s \in Writes
  PROVE  Rest(s, 0) = s
  <1>1. Rest(s, 0) = SubSeq(s, 1, Len(s))
    BY DEF Rest
  <1> QED
    BY <1>1, SubSeqFull DEF Writes

\* The next write of a list of which k have been made.
LEMMA NextWrite ==
  ASSUME Write, NEW s \in Writes, NEW k \in 0 .. Len(s), todo = Rest(s, k)
  PROVE  /\ k < Len(s) /\ outb(s[k + 1][1], s[k + 1][2])
         /\ todo' = Rest(s, k + 1) /\ UNCHANGED <<running, IF_>>
  <1>1. /\ Rest(s, k) = <<>> <=> k = Len(s)
        /\ k < Len(s) => Head(Rest(s, k)) = s[k + 1] /\ Tail(Rest(s, k)) = Rest(s, k + 1)
    BY RestOf DEF Writes
  <1>2. todo # <<>> /\ outb(Head(todo)[1], Head(todo)[2]) /\ todo' = Tail(todo)
        /\ UNCHANGED <<running, IF_>>
    BY DEF Write
  <1>3. Len(s) \in Nat
    BY LenProperties DEF Writes
  <1>4. k < Len(s)
    BY <1>1, <1>2, <1>3
  <1> QED
    BY <1>1, <1>2, <1>4

\* A write of pic_remap: nothing comes into service and the chips get on by one
\* word.
LEMMA BootWrite ==
  ASSUME PicInv, Write, running = "boot"
  PROVE  PicInv' /\ isr' \subseteq isr
  <1>1. PICK k \in 0 .. 10 : todo = Rest(pic_remap, k) /\ Programming(k)
    BY DEF PicInv, Booting
  <1>2. k \in 0 .. Len(pic_remap)
    BY Routines
  <1>3. /\ k < Len(pic_remap) /\ outb(pic_remap[k + 1][1], pic_remap[k + 1][2])
        /\ todo' = Rest(pic_remap, k + 1) /\ UNCHANGED <<running, IF_>>
    BY <1>1, <1>2, NextWrite, Routines
  <1>4. k \in 0 .. 9
    BY <1>3, Routines
  <1>9. pic_remap[k + 1][1] \in {32, 33, 160, 161} /\ pic_remap[k + 1][2] \in 0 .. 255
    <2>1. k = 0 \/ k = 1 \/ k = 2 \/ k = 3 \/ k = 4 \/ k = 5 \/ k = 6 \/ k = 7 \/ k = 8 \/ k = 9
      BY <1>4
    <2> QED
      BY <2>1 DEF pic_remap
  <1>5. PicTypeOK' /\ isr' \subseteq isr
    <2> DEFINE port == pic_remap[k + 1][1]
               val == pic_remap[k + 1][2]
    <2>1. port \in {32, 33, 160, 161} /\ val \in 0 .. 255
      BY <1>9
    <2>2. outb(port, val)
      BY <1>3
    <2>3. PicTypeOK /\ UNCHANGED <<running, IF_>>
      BY <1>3 DEF PicInv
    <2> HIDE DEF port, val
    <2> QED
      BY <2>1, <2>2, <2>3, OutbTypes
  <1>6. Programming(k + 1)'
    BY <1>1, <1>3, <1>4, ProgrammingAdvances DEF PicInv
  <1>7. Booting'
    <2>1. k + 1 \in 0 .. 10 /\ isr' = {}
      BY <1>4, <1>5 DEF PicInv, Booting
    <2> QED
      BY <1>3, <1>6, <2>1 DEF Booting
  <1>8. Programmed' /\ Handling' /\ Quiet'
    BY <1>3 DEF Programmed, Handling, Quiet
  <1> QED
    BY <1>5, <1>7, <1>8 DEF PicInv

\* A handler's writes keep the chips programmed.
LEMMA HandlerChips ==
  ASSUME PicTypeOK, icw = [c \in Chips |-> 0], NEW port \in {32, 160, 161}, outb(port, 32)
  PROVE  UNCHANGED <<base, icw>>
  <1>1. CASE port = 32
    BY <1>1 DEF outb, Command, EOI
  <1>2. CASE port = 160
    BY <1>2 DEF outb, Command, EOI
  <1>3. CASE port = 161
    BY <1>3, MaskSlave
  <1> QED
    BY <1>1, <1>2, <1>3

\* What a handler's write keeps whichever it is.
LEMMA HandlerKeeps ==
  ASSUME PicInv, running = "handler", NEW port \in {32, 160, 161}, outb(port, 32),
         UNCHANGED <<running, IF_>>
  PROVE  PicTypeOK' /\ Booting' /\ Programmed' /\ Quiet' /\ isr' \subseteq isr
  <1>1. PicTypeOK /\ icw = [c \in Chips |-> 0]
    BY DEF PicInv, Programmed
  <1>2. PicTypeOK' /\ isr' \subseteq isr
    <2>1. port \in {32, 33, 160, 161} /\ 32 \in 0 .. 255
      OBVIOUS
    <2> QED
      BY <1>1, <2>1, OutbTypes
  <1>3. UNCHANGED <<base, icw>>
    BY <1>1, HandlerChips
  <1> QED
    BY <1>2, <1>3 DEF PicInv, Booting, Programmed, Quiet

\* The keyboard's handler: its one write takes its line out of service.
LEMMA KeyboardWrite ==
  ASSUME PicInv, Write, running = "handler", NEW k \in 0 .. 1,
         todo = Rest(keyboard_isr_wrapper, k),
         k = 0 => \E l \in Lines8259 : MasterIsr = {l}
  PROVE  PicInv' /\ isr' \subseteq isr
  <1>1. keyboard_isr_wrapper \in Writes /\ k \in 0 .. Len(keyboard_isr_wrapper)
    BY Routines
  <1>2. /\ k < Len(keyboard_isr_wrapper)
        /\ outb(keyboard_isr_wrapper[k + 1][1], keyboard_isr_wrapper[k + 1][2])
        /\ todo' = Rest(keyboard_isr_wrapper, k + 1) /\ UNCHANGED <<running, IF_>>
    BY <1>1, NextWrite
  <1>3. k = 0
    BY <1>2, Routines
  <1>4. outb(32, 32)
    BY <1>2, <1>3 DEF keyboard_isr_wrapper, EOI
  <1>5. MasterIsr' = {}
    BY <1>3, <1>4, AcknowledgeMaster
  <1>6. Handling'
    BY <1>2, <1>3, <1>5 DEF Handling
  <1>7. PicTypeOK' /\ Booting' /\ Programmed' /\ Quiet' /\ isr' \subseteq isr
    BY <1>2, <1>4, HandlerKeeps
  <1> QED
    BY <1>6, <1>7 DEF PicInv

\* The default handler: the first write takes the line out of service, the second
\* sets the slave's mask and acknowledges nothing (interrupt.S, isr_default_handler).
LEMMA DefaultWrite ==
  ASSUME PicInv, Write, running = "handler", NEW k \in 0 .. 2,
         todo = Rest(isr_default_handler, k),
         k = 0 => \E l \in Lines8259 : MasterIsr = {l},
         k > 0 => MasterIsr = {}
  PROVE  PicInv' /\ isr' \subseteq isr
  <1>1. isr_default_handler \in Writes /\ k \in 0 .. Len(isr_default_handler)
    BY Routines
  <1>2. /\ k < Len(isr_default_handler)
        /\ outb(isr_default_handler[k + 1][1], isr_default_handler[k + 1][2])
        /\ todo' = Rest(isr_default_handler, k + 1) /\ UNCHANGED <<running, IF_>>
    BY <1>1, NextWrite
  <1>3. k = 0 \/ k = 1
    BY <1>2, Routines
  <1>4. CASE k = 0
    <2>1. outb(32, 32)
      BY <1>2, <1>4 DEF isr_default_handler, EOI
    <2>2. MasterIsr' = {}
      BY <1>4, <2>1, AcknowledgeMaster
    <2>3. Handling'
      BY <1>2, <1>4, <2>2 DEF Handling
    <2>4. PicTypeOK' /\ Booting' /\ Programmed' /\ Quiet' /\ isr' \subseteq isr
      BY <1>2, <2>1, HandlerKeeps
    <2> QED
      BY <2>3, <2>4 DEF PicInv
  <1>5. CASE k = 1
    <2>1. outb(161, 32)
      BY <1>2, <1>5 DEF isr_default_handler, EOI
    <2>2. PicTypeOK /\ icw = [c \in Chips |-> 0]
      BY DEF PicInv, Programmed
    <2>3. isr' = isr
      BY <2>1, <2>2, MaskSlave
    <2>4. MasterIsr' = {}
      BY <1>5, <2>3 DEF MasterIsr
    <2>5. Handling'
      BY <1>2, <1>5, <2>4 DEF Handling
    <2>6. PicTypeOK' /\ Booting' /\ Programmed' /\ Quiet' /\ isr' \subseteq isr
      BY <1>2, <2>1, HandlerKeeps
    <2> QED
      BY <2>5, <2>6 DEF PicInv
  <1> QED
    BY <1>3, <1>4, <1>5

\* The mouse's handler and its wrapper: of the four writes the second takes the
\* cascade line out of service and the fourth finds nothing to take.
LEMMA MouseWrite ==
  ASSUME PicInv, Write, running = "handler", NEW k \in 0 .. 4,
         todo = Rest(mouse_isr_wrapper, k),
         k <= 1 => \E l \in Lines8259 : MasterIsr = {l},
         k > 1 => MasterIsr = {}
  PROVE  PicInv' /\ isr' \subseteq isr
  <1>1. mouse_isr_wrapper \in Writes /\ k \in 0 .. Len(mouse_isr_wrapper)
    BY Routines
  <1>2. /\ k < Len(mouse_isr_wrapper)
        /\ outb(mouse_isr_wrapper[k + 1][1], mouse_isr_wrapper[k + 1][2])
        /\ todo' = Rest(mouse_isr_wrapper, k + 1) /\ UNCHANGED <<running, IF_>>
    BY <1>1, NextWrite
  <1>3. k = 0 \/ k = 1 \/ k = 2 \/ k = 3
    BY <1>2, Routines
  <1>4. /\ mouse_isr_wrapper[1] = <<160, 32>> /\ mouse_isr_wrapper[2] = <<32, 32>>
        /\ mouse_isr_wrapper[3] = <<161, 32>> /\ mouse_isr_wrapper[4] = <<32, 32>>
    BY Routines
  <1>5. PicTypeOK /\ icw = [c \in Chips |-> 0]
    BY DEF PicInv, Programmed
  <1>6. CASE k = 0
    <2>1. outb(160, 32)
      BY <1>2, <1>4, <1>6
    <2>2. MasterIsr' = MasterIsr
      BY <2>1, AcknowledgeSlave
    <2>3. Handling'
      BY <1>2, <1>6, <2>2 DEF Handling
    <2>4. PicTypeOK' /\ Booting' /\ Programmed' /\ Quiet' /\ isr' \subseteq isr
      BY <1>2, <2>1, HandlerKeeps
    <2> QED
      BY <2>3, <2>4 DEF PicInv
  <1>7. CASE k = 1
    <2>1. outb(32, 32)
      BY <1>2, <1>4, <1>7
    <2>2. MasterIsr' = {}
      BY <1>7, <2>1, AcknowledgeMaster
    <2>3. Handling'
      BY <1>2, <1>7, <2>2 DEF Handling
    <2>4. PicTypeOK' /\ Booting' /\ Programmed' /\ Quiet' /\ isr' \subseteq isr
      BY <1>2, <2>1, HandlerKeeps
    <2> QED
      BY <2>3, <2>4 DEF PicInv
  <1>8. CASE k = 2
    <2>1. outb(161, 32)
      BY <1>2, <1>4, <1>8
    <2>2. isr' = isr
      BY <1>5, <2>1, MaskSlave
    <2>3. MasterIsr' = {}
      BY <1>8, <2>2 DEF MasterIsr
    <2>4. Handling'
      BY <1>2, <1>8, <2>3 DEF Handling
    <2>5. PicTypeOK' /\ Booting' /\ Programmed' /\ Quiet' /\ isr' \subseteq isr
      BY <1>2, <2>1, HandlerKeeps
    <2> QED
      BY <2>4, <2>5 DEF PicInv
  <1>9. CASE k = 3
    <2>1. outb(32, 32)
      BY <1>2, <1>4, <1>9
    <2>2. isr' = isr
      BY <1>9, <2>1, AcknowledgeNothing
    <2>3. MasterIsr' = {}
      BY <1>9, <2>2 DEF MasterIsr
    <2>4. Handling'
      BY <1>2, <1>9, <2>3 DEF Handling
    <2>5. PicTypeOK' /\ Booting' /\ Programmed' /\ Quiet' /\ isr' \subseteq isr
      BY <1>2, <2>1, HandlerKeeps
    <2> QED
      BY <2>4, <2>5 DEF PicInv
  <1> QED
    BY <1>3, <1>6, <1>7, <1>8, <1>9

\* Any write.
LEMMA WriteStep ==
  ASSUME PicInv, Write
  PROVE  PicInv' /\ isr' \subseteq isr
  <1>1. running \in {"boot", "main", "handler"} /\ running # "main"
    BY DEF PicInv, PicTypeOK, Quiet, Write
  <1>2. CASE running = "boot"
    BY <1>2, BootWrite
  <1>3. CASE running = "handler"
    <2>1. CASE \E k \in 0 .. 1 : /\ todo = Rest(keyboard_isr_wrapper, k)
                                 /\ k = 0 => \E l \in Lines8259 : MasterIsr = {l}
                                 /\ k > 0 => MasterIsr = {}
      BY <1>3, <2>1, KeyboardWrite
    <2>2. CASE \E k \in 0 .. 2 : /\ todo = Rest(isr_default_handler, k)
                                 /\ k = 0 => \E l \in Lines8259 : MasterIsr = {l}
                                 /\ k > 0 => MasterIsr = {}
      BY <1>3, <2>2, DefaultWrite
    <2>3. CASE \E k \in 0 .. 4 : /\ todo = Rest(mouse_isr_wrapper, k)
                                 /\ k <= 1 => \E l \in Lines8259 : MasterIsr = {l}
                                 /\ k > 1 => MasterIsr = {}
      BY <1>3, <2>3, MouseWrite
    <2> QED
      BY <1>3, <2>1, <2>2, <2>3 DEF PicInv, Handling
  <1> QED
    BY <1>1, <1>2, <1>3

\* The sti that ends the boot finds both chips out of initialisation, at the
\* vectors idt_install has filled (main.c:669-681, idt.c:45-48).
LEMMA StiStep ==
  ASSUME PicInv, Sti
  PROVE  PicInv' /\ isr' = {}
  <1>1. PICK k \in 0 .. 10 : todo = Rest(pic_remap, k) /\ Programming(k)
    BY DEF PicInv, Booting, Sti
  <1>2. pic_remap \in Seq(Seq(Nat)) /\ k \in 0 .. Len(pic_remap) /\ Len(pic_remap) = 10
    BY Routines DEF Writes
  <1>3. Rest(pic_remap, k) = <<>> <=> k = Len(pic_remap)
    BY <1>2, RestOf
  <1>4. k = 10
    BY <1>1, <1>2, <1>3 DEF Sti
  <1>5. icw["master"] = 0 /\ icw["slave"] = 0 /\ base["master"] = 32 /\ base["slave"] = 40
    BY <1>1, <1>4 DEF Programming
  <1>6. icw = [c \in Chips |-> 0]
    BY <1>5 DEF PicInv, PicTypeOK, Chips
  <1>7. UNCHANGED <<irr, isr, imr, base, icw, todo>> /\ running' = "main" /\ IF_' = TRUE
        /\ todo = <<>> /\ isr = {}
    BY DEF Sti, PicInv, Booting, chipVars
  <1>8. PicTypeOK'
    BY <1>7 DEF PicInv, PicTypeOK
  <1>9. Programmed'
    BY <1>5, <1>6, <1>7 DEF Programmed
  <1>10. Booting' /\ Handling'
    BY <1>7 DEF Booting, Handling
  <1>11. Quiet'
    BY <1>7 DEF Quiet, MasterIsr
  <1> QED
    BY <1>7, <1>8, <1>9, <1>10, <1>11 DEF PicInv

\* The return from a handler finds its list written out and the master free.
LEMMA IretStep ==
  ASSUME PicInv, Iret
  PROVE  PicInv' /\ isr' = isr
  <1>1. UNCHANGED <<irr, isr, imr, base, icw, todo>> /\ running' = "main" /\ IF_' = TRUE
        /\ todo = <<>> /\ running = "handler"
    BY DEF Iret, chipVars
  <1>2. ASSUME NEW s \in Writes, NEW k \in 0 .. Len(s), todo = Rest(s, k)
        PROVE  k = Len(s)
    BY <1>1, <1>2, RestOf DEF Writes
  <1>3. MasterIsr = {}
    <2>1. CASE \E k \in 0 .. 1 : todo = Rest(keyboard_isr_wrapper, k) /\ (k > 0 => MasterIsr = {})
      <3>1. PICK k \in 0 .. 1 : todo = Rest(keyboard_isr_wrapper, k) /\ (k > 0 => MasterIsr = {})
        BY <2>1
      <3>2. k \in 0 .. Len(keyboard_isr_wrapper) /\ Len(keyboard_isr_wrapper) = 1 /\ keyboard_isr_wrapper \in Writes
        BY Routines
      <3>3. k = 1
        BY <1>2, <3>1, <3>2
      <3> QED
        BY <3>1, <3>3
    <2>2. CASE \E k \in 0 .. 2 : todo = Rest(isr_default_handler, k) /\ (k > 0 => MasterIsr = {})
      <3>1. PICK k \in 0 .. 2 : todo = Rest(isr_default_handler, k) /\ (k > 0 => MasterIsr = {})
        BY <2>2
      <3>2. k \in 0 .. Len(isr_default_handler) /\ Len(isr_default_handler) = 2 /\ isr_default_handler \in Writes
        BY Routines
      <3>3. k = 2
        BY <1>2, <3>1, <3>2
      <3> QED
        BY <3>1, <3>3
    <2>3. CASE \E k \in 0 .. 4 : todo = Rest(mouse_isr_wrapper, k) /\ (k > 1 => MasterIsr = {})
      <3>1. PICK k \in 0 .. 4 : todo = Rest(mouse_isr_wrapper, k) /\ (k > 1 => MasterIsr = {})
        BY <2>3
      <3>2. k \in 0 .. Len(mouse_isr_wrapper) /\ Len(mouse_isr_wrapper) = 4 /\ mouse_isr_wrapper \in Writes
        BY Routines
      <3>3. k = 4
        BY <1>2, <3>1, <3>2
      <3> QED
        BY <3>1, <3>3
    <2> QED
      BY <1>1, <2>1, <2>2, <2>3 DEF PicInv, Handling
  <1>4. PicTypeOK'
    BY <1>1 DEF PicInv, PicTypeOK
  <1>5. Booting' /\ Handling'
    BY <1>1 DEF Booting, Handling
  <1>6. Programmed'
    BY <1>1 DEF PicInv, Programmed
  <1>7. Quiet'
    BY <1>1, <1>3 DEF Quiet, MasterIsr
  <1> QED
    BY <1>1, <1>4, <1>5, <1>6, <1>7 DEF PicInv

\* Once programmed, line l interrupts through gate 32 + l, and finds the routine
\* written for its device there.
LEMMA OwnGate ==
  ASSUME Programmed, running # "boot", NEW l \in Lines8259
  PROVE  /\ l = KeyboardLine => idt(Vector(l)) = keyboard_isr_wrapper
         /\ l = MouseLine => idt(Vector(l)) = mouse_isr_wrapper
         /\ l \notin {KeyboardLine, MouseLine} => idt(Vector(l)) = isr_default_handler
  <1>1. Vector(l) = 32 + l
    <2>1. CASE l < 8
      <3>1. ChipOf(l) = "master" /\ l % 8 = l
        BY <2>1 DEF ChipOf, Lines8259
      <3> QED
        BY <3>1 DEF Programmed, Vector
    <2>2. CASE l >= 8
      <3>1. ChipOf(l) = "slave" /\ l % 8 = l - 8
        BY <2>2 DEF ChipOf, Lines8259
      <3> QED
        BY <3>1 DEF Programmed, Vector, Lines8259
    <2> QED
      BY <2>1, <2>2 DEF Lines8259
  <1> QED
    BY <1>1 DEF idt, KeyboardLine, MouseLine, Lines8259

\* An interrupt puts one line in service on the master, its own or the cascade,
\* and starts a routine from its first write.
LEMMA DeliverStep ==
  ASSUME PicInv, NEW l \in Lines, Deliver(l)
  PROVE  PicInv'
  <1>1. running = "main" /\ l \in Lines8259 /\ l # CascadeLine
    BY PicAssumption DEF Deliver, PicInv, PicTypeOK
  <1>2. /\ irr' = irr \ {l}
        /\ isr' = isr \union {l} \union (IF ChipOf(l) = "slave" THEN {CascadeLine} ELSE {})
        /\ running' = "handler" /\ todo' = idt(Vector(l)) /\ IF_' = FALSE
        /\ UNCHANGED <<imr, base, icw>>
    BY DEF Deliver
  <1>3. \E m \in Lines8259 : MasterIsr' = {m}
    <2>1. MasterIsr = {}
      BY <1>1 DEF PicInv, Quiet
    <2>2. CASE ChipOf(l) = "slave"
      <3>1. MasterIsr' = {CascadeLine}
        BY <1>1, <1>2, <2>1, <2>2 DEF MasterIsr, Wires, ChipOf, CascadeLine, Lines8259
      <3> QED
        BY <3>1 DEF CascadeLine, Lines8259
    <2>3. CASE ChipOf(l) = "master"
      <3>1. MasterIsr' = {l}
        BY <1>1, <1>2, <2>1, <2>3 DEF MasterIsr, Wires, ChipOf, CascadeLine, Lines8259
      <3> QED
        BY <1>1, <3>1
    <2> QED
      BY <2>2, <2>3 DEF ChipOf
  <1>4. /\ Rest(keyboard_isr_wrapper, 0) = keyboard_isr_wrapper
        /\ Rest(isr_default_handler, 0) = isr_default_handler
        /\ Rest(mouse_isr_wrapper, 0) = mouse_isr_wrapper
    BY Routines, RestWhole
  <1>5. todo' \in {keyboard_isr_wrapper, isr_default_handler, mouse_isr_wrapper}
    BY <1>1, <1>2, OwnGate DEF PicInv
  <1>6. Handling'
    BY <1>3, <1>4, <1>5 DEF Handling
  <1>7. PicTypeOK'
    BY <1>2 DEF PicInv, PicTypeOK
  <1>8. Booting' /\ Quiet'
    BY <1>2 DEF Booting, Quiet
  <1>9. Programmed'
    BY <1>1, <1>2 DEF PicInv, Programmed
  <1> QED
    BY <1>6, <1>7, <1>8, <1>9 DEF PicInv

\* A device's request only adds to the lines that wait.
LEMMA RaiseStep ==
  ASSUME PicInv, NEW l \in Lines, Raise(l)
  PROVE  PicInv' /\ isr' = isr
  <1>1. irr' = irr \union {l} /\ UNCHANGED <<isr, imr, base, icw, todo, running, IF_>>
    BY DEF Raise
  <1>2. PicTypeOK'
    BY <1>1 DEF PicInv, PicTypeOK
  <1>3. Booting' /\ Programmed' /\ Handling' /\ Quiet'
    BY <1>1 DEF PicInv, Booting, Programmed, Programming, Handling, Quiet, MasterIsr
  <1> QED
    BY <1>1, <1>2, <1>3 DEF PicInv

\* One step of the machine.
LEMMA PicStep == PicInv /\ [PicNext]_picVars => PicInv'
  <1> SUFFICES ASSUME PicInv, [PicNext]_picVars
               PROVE  PicInv'
    OBVIOUS
  <1>1. CASE Write
    BY <1>1, WriteStep
  <1>2. CASE Sti
    BY <1>2, StiStep
  <1>3. CASE Iret
    BY <1>3, IretStep
  <1>4. CASE \E l \in Lines : Deliver(l)
    BY <1>4, DeliverStep
  <1>5. CASE \E l \in Lines : Raise(l)
    BY <1>5, RaiseStep
  <1>6. CASE UNCHANGED picVars
    <2>1. UNCHANGED <<irr, isr, imr, base, icw, todo, running, IF_>>
      BY <1>6 DEF picVars
    <2>2. PicTypeOK'
      BY <2>1 DEF PicInv, PicTypeOK
    <2>3. Booting' /\ Programmed' /\ Handling' /\ Quiet'
      BY <2>1 DEF PicInv, Booting, Programmed, Programming, Handling, Quiet, MasterIsr
    <2> QED
      BY <2>2, <2>3 DEF PicInv
  <1> QED
    BY <1>1, <1>2, <1>3, <1>4, <1>5, <1>6 DEF PicNext, Processor

\* For every set of devices: while the kernel programs the controllers nothing is
\* in service; a handler has one line in service on the master until the write
\* that is meant for it; between handlers nothing is in service there.
THEOREM PicInvariant == PicSpec => []PicInv
  <1> QED
    BY InitPicInv, PicStep, PTL DEF PicSpec

\* Types, and the interrupt flag on exactly in the main program.
THEOREM PicTyped == PicSpec => []PicTypeOK
  <1>1. PicInv => PicTypeOK
    BY DEF PicInv
  <1> QED
    BY <1>1, PicInvariant, PTL

\* Between handlers the master has nothing in service, whatever lines stray: no
\* device of the master is ever shut out (interrupt.S:30-33, mouse.c:156-157).
THEOREM MasterFree == PicSpec => [](running = "main" => isr \intersect Wires("master") = {})
  <1>1. PicInv => (running = "main" => isr \intersect Wires("master") = {})
    BY DEF PicInv, Quiet, MasterIsr
  <1> QED
    BY <1>1, PicInvariant, PTL

\* Each device's interrupt enters the handler written for it (main.c:669-681,
\* idt.c:45-48).
THEOREM EntersOwnHandler == PicSpec => OwnHandler
  <1> DEFINE Own(l) == /\ l = KeyboardLine => todo' = keyboard_isr_wrapper
                       /\ l = MouseLine => todo' = mouse_isr_wrapper
                       /\ l \notin {KeyboardLine, MouseLine} => todo' = isr_default_handler
  <1>1. ASSUME PicInv, NEW l \in Lines, Deliver(l)
        PROVE  Own(l)
    <2>1. Programmed /\ running # "boot" /\ l \in Lines8259 /\ todo' = idt(Vector(l))
      BY <1>1, PicAssumption DEF PicInv, PicTypeOK, Deliver
    <2> QED
      BY <2>1, OwnGate
  <1>2. PicInv => [\A l \in Lines : Deliver(l) => Own(l)]_picVars
    BY <1>1
  <1> QED
    BY <1>2, PicInvariant, PTL DEF OwnHandler

-----------------------------------------------------------------------------
(* The slave *)

\* One step of the machine, when no line before the mouse's strays.
LEMMA SlaveStep ==
  ASSUME Lines \intersect 8 .. 11 = {}, PicInv, SlaveInv, [PicNext]_picVars
  PROVE  SlaveInv'
  <1>1. CASE Write
    <2>1. isr' \subseteq isr /\ running' = running
      BY <1>1, WriteStep DEF Write
    <2>2. CASE running = "boot"
      BY <2>1, <2>2 DEF SlaveInv
    <2>3. CASE running # "boot" /\ todo = Rest(mouse_isr_wrapper, 0)
      <3>1. outb(160, 32)
        <4>1. mouse_isr_wrapper \in Writes /\ 0 \in 0 .. Len(mouse_isr_wrapper)
              /\ mouse_isr_wrapper[1] = <<160, 32>>
          BY Routines
        <4>2. outb(mouse_isr_wrapper[1][1], mouse_isr_wrapper[1][2])
          BY <1>1, <2>3, <4>1, NextWrite
        <4> QED
          BY <4>1, <4>2
      <3>2. (\A l \in isr : ChipOf(l) = "slave" => l >= MouseLine) /\ isr \subseteq Lines8259
        BY <2>3, PicAssumption DEF SlaveInv, PicInv, PicTypeOK, Lines8259, CascadeLine
      <3>3. MouseLine \notin isr'
        BY <3>1, <3>2, AcknowledgeSlave
      <3> QED
        BY <2>1, <2>3, <3>3 DEF SlaveInv
    <2>4. CASE running # "boot" /\ todo # Rest(mouse_isr_wrapper, 0)
      <3>1. MouseLine \notin isr
        BY <2>4 DEF SlaveInv, ChipOf, MouseLine
      <3> QED
        BY <2>1, <2>4, <3>1 DEF SlaveInv
    <2> QED
      BY <2>2, <2>3, <2>4
  <1>2. CASE Sti
    BY <1>2, StiStep DEF SlaveInv
  <1>3. CASE Iret
    <2>1. isr' = isr /\ todo = <<>> /\ running = "handler"
      BY <1>3, IretStep DEF Iret
    <2>2. todo # Rest(mouse_isr_wrapper, 0)
      BY <2>1, Routines, RestWhole
    <2> QED
      BY <2>1, <2>2 DEF SlaveInv
  <1>4. ASSUME NEW l \in Lines, Deliver(l)
        PROVE  SlaveInv'
    <2>1. running = "main" /\ l \in Lines8259 /\ l \notin 8 .. 11
      BY <1>4, PicAssumption DEF Deliver, PicInv, PicTypeOK
    <2>2. /\ isr' \subseteq isr \union {l, CascadeLine}
          /\ running' = "handler" /\ todo' = idt(Vector(l))
      BY <1>4 DEF Deliver
    <2>3. l = MouseLine => todo' = Rest(mouse_isr_wrapper, 0)
      BY <2>1, <2>2, OwnGate, Routines, RestWhole DEF PicInv
    <2>4. \A m \in isr : ChipOf(m) = "slave" => m >= MouseLine /\ m # MouseLine
      BY <2>1 DEF SlaveInv
    <2>5. ASSUME NEW m \in isr', ChipOf(m) = "slave"
          PROVE  m >= MouseLine /\ (m = MouseLine => todo' = Rest(mouse_isr_wrapper, 0))
      <3>1. CASE m \in isr
        BY <2>4, <2>5, <3>1
      <3>2. CASE m = l
        BY <2>1, <2>3, <2>5, <3>2 DEF ChipOf, MouseLine, Lines8259
      <3>3. CASE m = CascadeLine
        BY <2>5, <3>3 DEF ChipOf, CascadeLine
      <3> QED
        BY <2>2, <3>1, <3>2, <3>3
    <2> QED
      BY <2>2, <2>5 DEF SlaveInv
  <1>5. ASSUME NEW l \in Lines, Raise(l)
        PROVE  SlaveInv'
    BY <1>5 DEF Raise, SlaveInv
  <1>6. CASE UNCHANGED picVars
    BY <1>6 DEF picVars, SlaveInv
  <1> QED
    BY <1>1, <1>2, <1>3, <1>4, <1>5, <1>6 DEF PicNext, Processor

\* Unless a device uses one of the four lines before the mouse's on the slave,
\* nothing stays in service that could hold the mouse, the keyboard or the timer
\* back.  The hypothesis is needed: isr_default_handler acknowledges a stray line
\* on the master only, and one of 8 .. 11 would hold the mouse back for good.
THEOREM WorkingFree ==
  ASSUME Lines \intersect 8 .. 11 = {}
  PROVE  PicSpec => []WorkingLinesFree
  <1>1. PicInit => PicInv /\ SlaveInv
    BY InitPicInv DEF PicInit, SlaveInv
  <1>2. PicInv /\ SlaveInv /\ [PicNext]_picVars => PicInv' /\ SlaveInv'
    BY PicStep, SlaveStep
  <1>3. PicInv /\ SlaveInv => WorkingLinesFree
    <2> SUFFICES ASSUME PicInv, SlaveInv, running = "main", NEW l \in isr
                 PROVE  ChipOf(l) = "slave" /\ l > MouseLine
      BY DEF WorkingLinesFree
    <2>1. l \in Lines8259 /\ l \notin Wires("master")
      BY PicAssumption DEF PicInv, PicTypeOK, Quiet, MasterIsr, CascadeLine, Lines8259
    <2>2. ChipOf(l) = "slave"
      BY <2>1 DEF Wires, ChipOf
    <2> QED
      BY <2>1, <2>2 DEF SlaveInv, MouseLine, Lines8259
  <1> QED
    BY <1>1, <1>2, <1>3, PTL DEF PicSpec

-----------------------------------------------------------------------------
(* The command line *)

USE ShellAssumption DEF Cells, None, Empty, Unknown, Idle, Chosen

\* Zeroed static data satisfies the invariant.
LEMMA InitIInv == Init => IInv
  BY DEF Init, IInv, TypeOK, LastCellIsNUL, NoPhantomCommand, FlagIsOwed

\* The handler never writes a character into the last cell (keyboard.c:26-43).
LEMMA KeyboardIInv == IInv /\ Keyboard => IInv'
  <1> SUFFICES ASSUME IInv, Keyboard PROVE IInv'
    OBVIOUS
  <1> USE DEF IInv, TypeOK, LastCellIsNUL, NoPhantomCommand, FlagIsOwed,
              Keypress, Wake, Interruptible, Store, mainVars
  <1>1. CASE KeyEnter
    BY <1>1 DEF KeyEnter
  <1>2. CASE KeyBackspace
    BY <1>2 DEF KeyBackspace
  <1>3. CASE \E c \in Chars : KeyChar(c)
    BY <1>3 DEF KeyChar
  <1> QED
    BY <1>1, <1>2, <1>3 DEF Keyboard

\* The main loop never reads beyond the last cell and takes up a line only
\* when one is owed (main.c:243-515, 762-769).
LEMMA MainIInv == IInv /\ Main => IInv'
  <1> SUFFICES ASSUME IInv, Main PROVE IInv'
    OBVIOUS
  <1> USE DEF IInv, TypeOK, LastCellIsNUL, NoPhantomCommand, FlagIsOwed,
              keyboardVars, mainVars, history
  <1>1. CASE PollReady
    BY <1>1 DEF PollReady
  <1>2. CASE PollIdle
    BY <1>2 DEF PollIdle
  <1>3. CASE Hlt
    BY <1>3 DEF Hlt
  <1>4. CASE SkipBlank
    BY <1>4 DEF SkipBlank
  <1>5. CASE SkipDone
    BY <1>5 DEF SkipDone
  <1>6. CASE Mismatch
    BY <1>6 DEF Mismatch
  <1>7. CASE Match
    BY <1>7 DEF Match
  <1>8. CASE NoMatch
    BY <1>8 DEF NoMatch
  <1>9. CASE Return
    BY <1>9 DEF Return
  <1>10. CASE StayForever
    BY <1>10 DEF StayForever
  <1>11. CASE PowerOff
    BY <1>11 DEF PowerOff
  <1>12. CASE Reboot
    BY <1>12 DEF Reboot
  <1>13. CASE ResetPtr
    BY <1>13 DEF ResetPtr
  <1>14. CASE ClearReady
    BY <1>14 DEF ClearReady
  <1> QED
    BY <1>1, <1>2, <1>3, <1>4, <1>5, <1>6, <1>7, <1>8, <1>9, <1>10, <1>11,
       <1>12, <1>13, <1>14 DEF Main

\* Every step, of the handlers or of the main loop: the invariant.
LEMMA StepIInv == IInv /\ [Next]_vars => IInv'
  <1> SUFFICES ASSUME IInv, [Next]_vars PROVE IInv'
    OBVIOUS
  <1>1. CASE Timer
    BY <1>1 DEF Timer, Wake, keyboardVars, mainVars, history,
                IInv, TypeOK, LastCellIsNUL, NoPhantomCommand, FlagIsOwed
  <1>2. CASE UNCHANGED vars
    BY <1>2 DEF vars, IInv, TypeOK, LastCellIsNUL, NoPhantomCommand, FlagIsOwed
  <1> QED
    BY <1>1, <1>2, KeyboardIInv, MainIInv DEF Next

\* However keys, the timer and the main loop interleave, the inductive invariant
\* holds: the line buffer keeps its NUL and its bounds, for a line of any length.
THEOREM ShellInvariant == Spec => []IInv
  <1> QED
    BY InitIInv, StepIInv, PTL DEF Spec

\* However keys and the main loop interleave, a scan of the line meets a
\* terminator inside the buffer (keyboard.c:40, main.c:39-51, 248).
THEOREM ScansStayInside == Spec => []TerminatorAhead
  <1>1. IInv => TerminatorAhead
    BY DEF IInv, TypeOK, LastCellIsNUL, TerminatorAhead
  <1> QED
    BY <1>1, ShellInvariant, PTL

\* Commands started never outnumber lines entered (keyboard.c:28, main.c:769).
THEOREM NoCommandUnasked == Spec => []NoPhantomCommand
  <1>1. IInv => NoPhantomCommand
    BY DEF IInv
  <1> QED
    BY <1>1, ShellInvariant, PTL

-----------------------------------------------------------------------------
(* Refinement of LineDiscipline *)

\* What lies before shell_ptr has been typed; the flag stays up from PollReady to
\* ClearReady.
Letters == \A i \in 0 .. shell_ptr - 1 : shell_buffer[i] \in Chars
Raised == pc \in {"skip", "match", "run", "reset", "unready"} => command_ready = 1

\* What holds as long as no key has come since Enter: the line ends where it was
\* entered, the blanks skipped are the line's, the commands tried do not match,
\* and nothing is typed between the two resets.
Ended == (command_ready = 1 /\ pc \notin Chosen) => shell_buffer[shell_ptr] = NUL
Skipped ==
    pc \in {"skip", "match"} =>
        input <= shell_ptr /\ \A i \in 0 .. input - 1 : shell_buffer[i] = Blank
Tried ==
    pc = "match" => /\ shell_buffer[input] # Blank
                    /\ \A w \in 1 .. word - 1 : ~ Matches(Words[w].text)
Emptied == pc = "unready" => shell_ptr = 0
Patient == Ended /\ Skipped /\ Tried /\ Emptied

LineInv == Letters /\ Raised /\ (user = "patient" => Patient)

\* Nothing has been typed yet.
LEMMA InitLine == Init => LineInv
  BY DEF Init, LineInv, Letters, Raised, Patient, Ended, Skipped, Tried, Emptied

\* A key leaves the letters before shell_ptr letters; if the user stays patient,
\* the shell was waiting for it, and Enter writes the terminator (keyboard.c:26-43).
LEMMA KeyboardEdits == IInv /\ LineInv /\ Keyboard => LineInv'
  <1> SUFFICES ASSUME IInv, LineInv, Keyboard PROVE LineInv'
    OBVIOUS
  <1> USE DEF IInv, TypeOK, LineInv, Letters, Raised, Patient, Ended, Skipped, Tried, Emptied,
              Keypress, Wake, Waiting, Interruptible, Store, mainVars
  <1>1. CASE KeyEnter
    BY <1>1 DEF KeyEnter
  <1>2. CASE KeyBackspace
    BY <1>2 DEF KeyBackspace
  <1>3. CASE \E c \in Chars : KeyChar(c)
    BY <1>3 DEF KeyChar
  <1> QED
    BY <1>1, <1>2, <1>3 DEF Keyboard

\* The main loop goes over the line from the left and over the commands in their
\* order (main.c:243-515, 762-769).
LEMMA MainLine == IInv /\ LineInv /\ Main => LineInv'
  <1> SUFFICES ASSUME IInv, LineInv, Main PROVE LineInv'
    OBVIOUS
  <1> USE DEF IInv, TypeOK, LineInv, Letters, Raised, Patient, Ended, Skipped, Tried, Emptied,
              keyboardVars, mainVars, history
  <1>1. CASE PollReady
    BY <1>1 DEF PollReady
  <1>2. CASE PollIdle
    BY <1>2 DEF PollIdle
  <1>3. CASE Hlt
    BY <1>3 DEF Hlt
  <1>4. CASE SkipBlank
    BY <1>4 DEF SkipBlank
  <1>5. CASE SkipDone
    BY <1>5 DEF SkipDone
  <1>6. CASE Mismatch
    <2>1. /\ pc = "match" /\ pc' = pc /\ input' = input /\ word' = word + 1
          /\ user' = user /\ ~ Matches(Words[word].text)
          /\ UNCHANGED <<shell_buffer, shell_ptr, command_ready>>
      BY <1>6 DEF Mismatch
    <2>2. user = "patient" =>
            /\ input <= shell_ptr /\ \A i \in 0 .. input - 1 : shell_buffer[i] = Blank
            /\ shell_buffer[input] # Blank /\ shell_buffer[shell_ptr] = NUL
            /\ \A w \in 1 .. word - 1 : ~ Matches(Words[w].text)
      BY <2>1
    <2>3. \A text : Matches(text)' <=> Matches(text)
      BY <2>1 DEF Matches
    <2>4. user = "patient" => \A w \in 1 .. word' - 1 : ~ Matches(Words[w].text)'
      <3> SUFFICES ASSUME user = "patient", NEW w \in 1 .. word' - 1
                   PROVE  ~ Matches(Words[w].text)
        BY <2>3
      <3>1. w = word \/ w \in 1 .. word - 1
        BY <2>1
      <3> QED
        BY <2>1, <2>2, <3>1
    <2>5. Letters' /\ Raised' /\ (user' = "patient" => Ended' /\ Skipped' /\ Emptied')
      BY <2>1, <2>2
    <2>6. user' = "patient" => Tried'
      BY <2>1, <2>2, <2>4
    <2> QED
      BY <2>5, <2>6
  <1>7. CASE Match
    BY <1>7 DEF Match
  <1>8. CASE NoMatch
    BY <1>8 DEF NoMatch
  <1>9. CASE Return
    BY <1>9 DEF Return
  <1>10. CASE StayForever
    BY <1>10 DEF StayForever
  <1>11. CASE PowerOff
    BY <1>11 DEF PowerOff
  <1>12. CASE Reboot
    BY <1>12 DEF Reboot
  <1>13. CASE ResetPtr
    BY <1>13 DEF ResetPtr
  <1>14. CASE ClearReady
    BY <1>14 DEF ClearReady
  <1> QED
    BY <1>1, <1>2, <1>3, <1>4, <1>5, <1>6, <1>7, <1>8, <1>9, <1>10, <1>11,
       <1>12, <1>13, <1>14 DEF Main

\* Every step: the timer changes nothing but ends hlt.
LEMMA StepLine == IInv /\ LineInv /\ [Next]_vars => LineInv'
  <1> SUFFICES ASSUME IInv, LineInv, [Next]_vars PROVE LineInv'
    OBVIOUS
  <1> USE DEF LineInv, Letters, Raised, Patient, Ended, Skipped, Tried, Emptied, Matches
  <1>1. CASE Timer
    BY <1>1 DEF Timer, Wake, keyboardVars, mainVars, history
  <1>2. CASE UNCHANGED vars
    BY <1>2 DEF vars
  <1> QED
    BY <1>1, <1>2, KeyboardEdits, MainLine DEF Next

\* Without its leading blanks a line starts where the walk over the blanks stops.
LEMMA StrippedFrom ==
  ASSUME NEW l \in Seq(Chars), NEW n \in 0 .. Len(l),
         \A i \in 1 .. n : l[i] = Blank, n < Len(l) => l[n + 1] # Blank
  PROVE  Discipline!Stripped(l) = SubSeq(l, n + 1, Len(l))
  <1> DEFINE Stop(m) == /\ \A i \in 1 .. m : l[i] = Blank
                        /\ m < Len(l) => l[m + 1] # Blank
  <1>1. Stop(n)
    OBVIOUS
  <1>2. ASSUME NEW m \in 0 .. Len(l), Stop(m) PROVE m = n
    <2>1. CASE m < n
      <3>1. m + 1 \in 1 .. n
        BY <2>1
      <3> QED
        BY <1>2, <2>1, <3>1
    <2>2. CASE n < m
      <3>1. n + 1 \in 1 .. m
        BY <2>2
      <3> QED
        BY <1>2, <2>2, <3>1
    <2> QED
      BY <2>1, <2>2
  <1> HIDE DEF Stop
  <1>3. (CHOOSE m \in 0 .. Len(l) : Stop(m)) = n
    BY <1>1, <1>2
  <1> QED
    BY <1>3 DEF Stop, Discipline!Stripped

\* The line that lies in the buffer is a sequence of characters.
LEMMA TypedLine ==
  ASSUME IInv, LineInv
  PROVE  /\ Typed \in Seq(Chars)
         /\ Len(Typed) = shell_ptr
         /\ \A i \in 1 .. shell_ptr : Typed[i] = shell_buffer[i - 1]
  <1>1. \A i \in 1 .. shell_ptr : i - 1 \in 0 .. shell_ptr - 1
    BY DEF IInv, TypeOK
  <1>2. \A i \in 1 .. shell_ptr : shell_buffer[i - 1] \in Chars
    BY <1>1 DEF LineInv, Letters
  <1> QED
    BY <1>2 DEF Typed, IInv, TypeOK

\* At an entered line, the comparison of vga_strncmp (main.c:39-51) says whether
\* the line without its leading blanks starts with the command.
LEMMA MatchIsPrefix ==
  ASSUME IInv, LineInv, user = "patient", pc = "match", NEW text \in Seq(Chars)
  PROVE  Matches(text) <=> Discipline!IsPrefix(text, SubSeq(Typed, input + 1, shell_ptr))
  <1> DEFINE s == SubSeq(Typed, input + 1, shell_ptr)
  <1>1. /\ input \in Nat /\ shell_ptr \in Cells /\ input <= shell_ptr
        /\ shell_buffer[shell_ptr] = NUL /\ Len(text) \in Nat
    BY DEF IInv, TypeOK, LineInv, Raised, Patient, Ended, Skipped
  <1>2. /\ Len(s) = shell_ptr - input
        /\ \A i \in 1 .. shell_ptr - input : s[i] = shell_buffer[input + i - 1]
    <2>1. Typed \in Seq(Chars) /\ Len(Typed) = shell_ptr
      BY TypedLine
    <2>2. Len(s) = shell_ptr - input
      BY <1>1, <2>1
    <2>3. ASSUME NEW i \in 1 .. shell_ptr - input PROVE s[i] = shell_buffer[input + i - 1]
      <3>1. input + i \in 1 .. shell_ptr
        BY <1>1
      <3>2. s[i] = Typed[input + i]
        BY <1>1, <2>1
      <3> QED
        BY <3>1, <3>2, <1>1, TypedLine
    <2> QED
      BY <2>2, <2>3
  <1>3. s \in Seq(Chars)
    BY <1>1, TypedLine
  <1> HIDE DEF s
  <1>4. ASSUME Matches(text) PROVE Discipline!IsPrefix(text, s)
    <2>1. Len(text) <= shell_ptr - input
      <3> SUFFICES ASSUME shell_ptr - input < Len(text) PROVE FALSE
        BY <1>1
      <3>1. shell_ptr - input + 1 \in 1 .. Len(text)
        BY <1>1
      <3>2. shell_buffer[input + (shell_ptr - input + 1) - 1] = text[shell_ptr - input + 1]
        BY <3>1, <1>4 DEF Matches
      <3>3. input + (shell_ptr - input + 1) - 1 = shell_ptr
        BY <1>1
      <3>4. text[shell_ptr - input + 1] \in Chars
        BY <3>1
      <3> QED
        BY <1>1, <3>2, <3>3, <3>4
    <2>2. \A i \in 1 .. Len(text) : text[i] = s[i]
      BY <1>1, <1>2, <1>4, <2>1 DEF Matches
    <2> QED
      BY <1>1, <1>2, <1>3, <2>1, <2>2 DEF Discipline!IsPrefix
  <1>5. ASSUME Discipline!IsPrefix(text, s) PROVE Matches(text)
    <2>1. Len(text) <= shell_ptr - input
      BY <1>2, <1>5 DEF Discipline!IsPrefix
    <2>2. ASSUME NEW i \in 1 .. Len(text) PROVE text[i] = s[i]
      <3>1. SubSeq(text, 1, Len(text))[i] = text[i]
        BY <1>1
      <3>2. SubSeq(s, 1, Len(text))[i] = s[i]
        BY <1>1, <1>2, <1>3, <2>1
      <3> QED
        BY <3>1, <3>2, <1>5 DEF Discipline!IsPrefix
    <2> QED
      BY <1>1, <1>2, <2>1, <2>2 DEF Matches
  <1> QED
    BY <1>4, <1>5 DEF s

\* The command found by going through the table is the meaning of the line
\* (main.c:250-512): the first one that matches, or none.
LEMMA MeaningFound ==
  ASSUME IInv, LineInv, user = "patient", pc = "match"
  PROVE  /\ (word <= Len(Words) /\ Matches(Words[word].text)) => Discipline!Meaning(Typed) = word
         /\ word > Len(Words) =>
              Discipline!Meaning(Typed) = IF shell_buffer[input] = NUL THEN Empty ELSE Unknown
  <1> DEFINE s == SubSeq(Typed, input + 1, shell_ptr)
             Hits == {i \in DOMAIN Words : Discipline!IsPrefix(Words[i].text, s)}
             Earliest == CHOOSE i \in Hits : \A j \in Hits : i <= j
  <1>1. /\ input \in 0 .. shell_ptr /\ shell_ptr \in Cells
        /\ \A i \in 0 .. input - 1 : shell_buffer[i] = Blank
        /\ shell_buffer[input] # Blank /\ shell_buffer[shell_ptr] = NUL
        /\ \A w \in 1 .. word - 1 : ~ Matches(Words[w].text)
        /\ word \in 1 .. Len(Words) + 1
    BY DEF IInv, TypeOK, LineInv, Raised, Patient, Ended, Skipped, Tried
  <1>2. /\ Typed \in Seq(Chars) /\ Len(Typed) = shell_ptr
        /\ \A i \in 1 .. shell_ptr : Typed[i] = shell_buffer[i - 1]
    BY TypedLine
  <1>3. Discipline!Stripped(Typed) = s
    <2>1. ASSUME NEW i \in 1 .. input PROVE Typed[i] = Blank
      <3>1. i \in 1 .. shell_ptr /\ i - 1 \in 0 .. input - 1
        BY <1>1
      <3> QED
        BY <1>1, <1>2, <3>1
    <2>2. input < Len(Typed) => Typed[input + 1] # Blank
      BY <1>1, <1>2
    <2> QED
      BY <1>1, <1>2, <2>1, <2>2, StrippedFrom
  <1>4. \A i \in DOMAIN Words : i \in Hits <=> Matches(Words[i].text)
    <2>1. ASSUME NEW i \in DOMAIN Words PROVE Words[i].text \in Seq(Chars)
      <3>1. i \in 1 .. Len(Words)
        OBVIOUS
      <3> DEFINE Entries == [text : Seq(Chars), kind : Kinds]
      <3>2. Words \in Seq(Entries)
        OBVIOUS
      <3>3. Words[i] \in Entries
        <4> HIDE DEF Entries
        <4> QED
          BY <3>1, <3>2
      <3> QED
        BY <3>3
    <2> QED
      BY <2>1, MatchIsPrefix
  <1>5. Discipline!Meaning(Typed) = IF Hits # {} THEN Earliest ELSE IF s = <<>> THEN Empty ELSE Unknown
    BY <1>3 DEF Discipline!Meaning, Discipline!Empty, Discipline!Unknown
  <1>6. s = <<>> <=> shell_buffer[input] = NUL
    <2>1. s \in Seq(Chars) /\ Len(s) = shell_ptr - input
      BY <1>1, <1>2
    <2> HIDE DEF s
    <2>2. s = <<>> <=> input = shell_ptr
      BY <1>1, <2>1
    <2>3. ASSUME input # shell_ptr PROVE shell_buffer[input] \in Chars
      <3>1. input \in 0 .. shell_ptr - 1
        BY <1>1, <2>3
      <3> QED
        BY <3>1 DEF LineInv, Letters
    <2> QED
      BY <1>1, <2>2, <2>3
  <1> HIDE DEF Hits, s
  <1>7. Hits \subseteq DOMAIN Words /\ DOMAIN Words = 1 .. Len(Words)
    BY DEF Hits
  <1>8. ASSUME word <= Len(Words), Matches(Words[word].text) PROVE Discipline!Meaning(Typed) = word
    <2>1. word \in Hits
      <3>1. word \in DOMAIN Words
        BY <1>1, <1>8
      <3> QED
        BY <1>4, <1>8, <3>1
    <2>2. \A j \in Hits : word <= j
      BY <1>1, <1>4, <1>7, SMTT(30)
    <2>3. Earliest = word
      BY <1>7, <2>1, <2>2
    <2> QED
      BY <1>5, <2>1, <2>3
  <1>9. ASSUME word > Len(Words)
        PROVE  Discipline!Meaning(Typed) = IF shell_buffer[input] = NUL THEN Empty ELSE Unknown
    <2>1. Hits = {}
      BY <1>1, <1>4, <1>7, <1>9
    <2> QED
      BY <1>5, <1>6, <2>1
  <1> QED
    BY <1>8, <1>9

\* A key of a patient user edits or enters the abstract line.
LEMMA KeyboardFollows ==
  ASSUME IInv, LineInv, IInv', LineInv', Keyboard, user = "patient", user' = "patient"
  PROVE  Discipline!Next
  <1> DEFINE Entered == command_ready = 1 /\ pc \notin Chosen
  <1>1. /\ Waiting /\ command_ready = 0 /\ pc \notin Chosen /\ pc' \notin Chosen
        /\ shell_ptr \in Cells /\ outcome' = outcome
        /\ shell_buffer \in [Cells -> Chars \union {NUL}]
    BY DEF Keyboard, KeyEnter, KeyBackspace, KeyChar, Keypress, Waiting, Wake, mainVars, IInv, TypeOK
  <1>2. /\ Typed \in Seq(Chars) /\ Len(Typed) = shell_ptr
        /\ \A i \in 1 .. shell_ptr : Typed[i] = shell_buffer[i - 1]
    BY TypedLine
  <1>3. CASE KeyEnter
    <2>1. Typed' = Typed /\ command_ready' = 1
      BY <1>1, <1>3 DEF KeyEnter, Typed, Store
    <2>2. Discipline!Enter
      BY <1>1, <2>1 DEF Discipline!Enter
    <2> QED
      BY <2>2 DEF Discipline!Next
  <1>4. CASE KeyBackspace
    <2>1. shell_ptr > 0 /\ shell_ptr' = shell_ptr - 1 /\ command_ready' = command_ready
      BY <1>4 DEF KeyBackspace
    <2>2. \A i \in 1 .. shell_ptr - 1 : shell_buffer'[i - 1] = shell_buffer[i - 1]
      BY <1>1, <1>4 DEF KeyBackspace, Store
    <2>3. Typed' = [i \in 1 .. shell_ptr - 1 |-> shell_buffer[i - 1]]
      BY <2>1, <2>2 DEF Typed
    <2>4. Typed' = SubSeq(Typed, 1, Len(Typed) - 1)
      BY <1>1, <1>2, <2>1, <2>3
    <2>5. Typed # <<>>
      BY <1>2, <2>1
    <2>6. Discipline!Erase
      BY <1>1, <2>1, <2>4, <2>5 DEF Discipline!Erase, Discipline!Front
    <2> QED
      BY <2>6 DEF Discipline!Next
  <1>5. ASSUME NEW c \in Chars, KeyChar(c) PROVE Discipline!Next
    <2>1. /\ shell_ptr < MaxLen - 1 /\ shell_ptr' = shell_ptr + 1 /\ command_ready' = command_ready
          /\ shell_buffer' = [shell_buffer EXCEPT ![shell_ptr] = c]
      BY <1>5 DEF KeyChar, Store
    <2>2. Typed' = [i \in 1 .. shell_ptr + 1 |-> IF i = shell_ptr + 1 THEN c ELSE shell_buffer[i - 1]]
      BY <1>1, <2>1 DEF Typed
    <2>3. Typed' = Append(Typed, c)
      <3>1. /\ Append(Typed, c) \in Seq(Chars) /\ Len(Append(Typed, c)) = shell_ptr + 1
            /\ Append(Typed, c)[shell_ptr + 1] = c
            /\ \A i \in 1 .. shell_ptr : Append(Typed, c)[i] = shell_buffer[i - 1]
        BY <1>1, <1>2
      <3>2. Typed' \in Seq(Chars) /\ Len(Typed') = shell_ptr + 1
        <4>1. ASSUME NEW i \in 1 .. shell_ptr PROVE shell_buffer[i - 1] \in Chars
          <5>1. Typed[i] \in Chars
            BY <1>2
          <5> QED
            BY <1>2, <5>1
        <4> QED
          BY <1>1, <2>2, <4>1
      <3>3. ASSUME NEW i \in 1 .. shell_ptr + 1 PROVE Typed'[i] = Append(Typed, c)[i]
        BY <1>1, <2>2, <3>1
      <3> QED
        BY <1>1, <3>1, <3>2, <3>3
    <2>4. Discipline!Type(c)
      BY <1>1, <1>2, <2>1, <2>3 DEF Discipline!Type
    <2> QED
      BY <2>4 DEF Discipline!Next
  <1> QED
    BY <1>3, <1>4, <1>5 DEF Keyboard

\* A step of the main loop, while no key comes, executes the line, restarts the
\* machine, or changes nothing of what the user expects.
LEMMA MainFollows ==
  ASSUME IInv, LineInv, IInv', LineInv', Main, user = "patient", user' = "patient"
  PROVE  Discipline!Next \/ UNCHANGED Discipline!vars
  <1> USE DEF keyboardVars, mainVars, history, Discipline!vars
  <1>1. CASE PollReady \/ PollIdle \/ Hlt \/ SkipBlank \/ SkipDone \/ Mismatch
    BY <1>1 DEF PollReady, PollIdle, Hlt, SkipBlank, SkipDone, Mismatch, Typed
  <1>2. CASE Return \/ StayForever \/ PowerOff \/ ResetPtr
    BY <1>2 DEF Return, StayForever, PowerOff, ResetPtr
  <1>3. CASE Match \/ NoMatch
    <2>1. pc = "match" /\ pc' \in Chosen /\ command_ready = 1 /\ outcome' = Discipline!Meaning(Typed)
      BY <1>3, MeaningFound DEF Match, NoMatch, LineInv, Raised, IInv, TypeOK
    <2>2. Discipline!Execute
      BY <2>1 DEF Discipline!Execute
    <2> QED
      BY <2>2 DEF Discipline!Next
  <1>4. CASE Reboot
    <2>1. Typed' = <<>>
      BY <1>4 DEF Reboot, Typed
    <2>2. Discipline!Restart
      BY <1>4, <2>1 DEF Reboot, Kind, Discipline!Restart, Discipline!None, IInv, TypeOK
    <2> QED
      BY <2>2 DEF Discipline!Next
  <1>5. CASE ClearReady
    <2>1. Typed' = <<>>
      BY <1>5 DEF ClearReady, Typed, LineInv, Patient, Emptied
    <2> QED
      BY <1>5, <2>1 DEF ClearReady
  <1> QED
    BY <1>1, <1>2, <1>3, <1>4, <1>5 DEF Main

\* Every step that begins and ends with a patient user follows the discipline.
LEMMA StepFollows ==
  ASSUME IInv, LineInv, IInv', LineInv', [Next]_vars, user = "patient", user' = "patient"
  PROVE  Discipline!Next \/ UNCHANGED Discipline!vars
  <1>1. CASE Timer \/ UNCHANGED vars
    BY <1>1 DEF Timer, Wake, vars, keyboardVars, mainVars, history, Discipline!vars, Typed
  <1> QED
    BY <1>1, KeyboardFollows, MainFollows DEF Next

\* For a user who waits for the prompt the shell implements the line discipline:
\* each line runs exactly once and as typed, whatever was typed, erased and
\* executed before (keyboard.c:26-43, main.c:243-515, 762-769).
THEOREM ShellFollowsDiscipline == Spec => FollowsDiscipline
  <1>1. Init => Discipline!Init
    BY DEF Init, Typed, Discipline!Init, Discipline!None
  <1>2. Spec => []LineInv
    BY InitLine, StepLine, ShellInvariant, PTL DEF Spec
  <1>3. IInv /\ LineInv /\ IInv' /\ LineInv' /\ [Next]_vars
          => [user = "patient" /\ user' = "patient"
                => Discipline!Next \/ UNCHANGED Discipline!vars]_vars
    BY StepFollows
  <1> QED
    BY <1>1, <1>2, <1>3, ShellInvariant, PTL DEF Spec, FollowsDiscipline
=============================================================================
