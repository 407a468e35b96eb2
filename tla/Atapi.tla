------------------------------- MODULE Atapi --------------------------------
(***************************************************************************)
(* The CD-ROM driver (src/src/fs/iso9660.c:12-59, 102-139): the scan for a *)
(* drive at boot and atapi_read_sector, polling, against the drive.  Every *)
(* wait of the code is bounded and its result is ignored; the drive may be *)
(* later than the bound, refuse a command, or be absent.  A polling loop   *)
(* is one action, a transferred word is one action.                        *)
(***************************************************************************)
EXTENDS Text, FiniteSets

CONSTANTS
    SectorWords,    (* 16-bit words of a sector (1024)                     *)
    PacketWords,    (* words of the command packet (6)                     *)
    Junk            (* what the data port gives when no word is waiting    *)

ASSUME AtapiAssumption == SectorWords \in Nat \ {0} /\ PacketWords \in Nat \ {0}

Positions == {0, 1} \X {0, 1}

VARIABLES
    devices, disc,  (* what is connected, <<bus, drive>> -> "none", "disk" *)
                    (* or "cdrom" (at most one), and lba -> its words      *)
    selected,       (* the drive register of each bus                      *)
    phase,          (* the CD-ROM drive: "idle", "reset", "prepare",       *)
                    (* "packet", "busy" or "data"                          *)
    packet, words,  (* words of the packet received, of the sector left    *)
    current_atapi_base,
    pc, lba,        (* the driver: its next access, its argument           *)
    i, buf,         (* packet words sent, words read                       *)
    tried,          (* the position the scan has reached                   *)
    fs_ready,
    trouble         (* history: how many reads, this one included, may be  *)
                    (* wrong after what the drive did                      *)

driveVars  == <<phase, packet, words>>
driverVars == <<selected, current_atapi_base, pc, lba, i, buf, tried, fs_ready>>
atapiVars  == <<devices, disc, driveVars, driverVars, trouble>>

AtapiInit ==
    /\ selected = [b \in {0, 1} |-> 0]
    /\ phase = "idle" /\ packet = <<>> /\ words = <<>>
    /\ current_atapi_base = 0
    /\ pc = "off" /\ lba = 0 /\ i = 0 /\ buf = <<>> /\ tried = <<0, 0>>
    /\ fs_ready = 0 /\ trouble = 0

-----------------------------------------------------------------------------
(* The registers *)

Selected(b) == devices[<<b, selected[b]>>]
Empty(b) == \A d \in {0, 1} : devices[<<b, d>>] = "none"

\* An empty bus floats: all bits are read as one.
BSY(b) == Empty(b) \/ (Selected(b) = "cdrom" /\ phase \in {"reset", "prepare", "busy"})
DRQ(b) == Empty(b) \/ (Selected(b) = "cdrom" /\ phase \in {"packet", "data"})

\* Bits that do not change unless the driver does something.
Still(b) == Selected(b) = "cdrom" => phase \in {"idle", "packet", "data"}

Worst(m) == IF m > trouble THEN m ELSE trouble

\* atapi_wait_status: the bit is there, or it does not come in time.
Wait(b, bit) == trouble' = IF bit \/ Still(b) THEN trouble ELSE 2

-----------------------------------------------------------------------------
(* The drive *)

Prepared == phase = "prepare" /\ phase' = "packet" /\ packet' = <<>> /\ UNCHANGED <<words, trouble>>

\* A packet put together from two reads asks for anything.
Answer ==
    /\ phase = "busy" /\ phase' = "data"
    /\ \E l \in DOMAIN disc :
          /\ Cardinality(ToSet(packet)) = 1 => l = packet[1]
          /\ words' = disc[l]
    /\ UNCHANGED <<packet, trouble>>

\* No disc, a read error, a sector that does not exist: no data follow.
Refuse ==
    /\ phase = "busy" /\ phase' = "idle"
    /\ trouble' = Worst(1)
    /\ UNCHANGED <<packet, words>>

ResetDone == phase = "reset" /\ phase' = "idle" /\ UNCHANGED <<packet, words, trouble>>

Drive ==
    /\ Prepared \/ Answer \/ Refuse \/ ResetDone
    /\ UNCHANGED <<devices, disc, driverVars>>

-----------------------------------------------------------------------------
(* iso9660_mount: the scan of both busses *)

iso9660_mount ==
    /\ pc = "off" /\ pc' = "probe"
    /\ UNCHANGED <<driveVars, selected, current_atapi_base, lba, i, buf, tried, fs_ready, trouble>>

\* Mutant: the drive register is written with 0xA0 for both drives.
ProbeMaster ==
    /\ pc = "probe" /\ pc' = "scan"
    /\ selected' = [selected EXCEPT ![tried[1]] = 0]
    /\ IF devices[<<tried[1], 0>>] = "cdrom"
       THEN phase' = "reset" /\ packet' = <<>> /\ words' = <<>>
       ELSE UNCHANGED driveVars
    /\ UNCHANGED <<current_atapi_base, lba, i, buf, tried, fs_ready, trouble>>

Probe ==
    /\ pc = "probe" /\ pc' = "scan"
    /\ selected' = [selected EXCEPT ![tried[1]] = tried[2]]
    /\ IF devices[<<tried[1], selected'[tried[1]]>>] = "cdrom"
       THEN phase' = "reset" /\ packet' = <<>> /\ words' = <<>>
       ELSE UNCHANGED driveVars
    /\ UNCHANGED <<current_atapi_base, lba, i, buf, tried, fs_ready, trouble>>

\* The selected drive shows the signature when its reset is over.
Signature == Selected(tried[1]) = "cdrom" /\ phase # "reset"

\* Mutant: the scan goes on until a drive is found.
ScanForever ==
    /\ pc = "scan" /\ Wait(tried[1], ~BSY(tried[1]))
    /\ \/ /\ Signature /\ pc' = "mounted"
          /\ current_atapi_base' = tried[1] /\ fs_ready' = 1
          /\ UNCHANGED tried
       \/ /\ ~Signature /\ pc' = "probe"
          /\ tried' = IF tried[2] = 0 THEN <<tried[1], 1>> ELSE <<1 - tried[1], 0>>
          /\ UNCHANGED <<current_atapi_base, fs_ready>>
    /\ UNCHANGED <<driveVars, selected, lba, i, buf>>

Scan ==
    /\ pc = "scan" /\ Wait(tried[1], ~BSY(tried[1]))
    /\ \/ /\ Signature /\ pc' = "mounted"
          /\ current_atapi_base' = tried[1] /\ fs_ready' = 1
          /\ UNCHANGED tried
       \/ /\ ~Signature /\ tried # <<1, 1>> /\ pc' = "probe"
          /\ tried' = IF tried[2] = 0 THEN <<tried[1], 1>> ELSE <<1, 0>>
          /\ UNCHANGED <<current_atapi_base, fs_ready>>
       \/ /\ ~Signature /\ tried = <<1, 1>> /\ pc' = "mounted"
          /\ UNCHANGED <<current_atapi_base, tried, fs_ready>>
    /\ UNCHANGED <<driveVars, selected, lba, i, buf>>

-----------------------------------------------------------------------------
(* atapi_read_sector *)

base == current_atapi_base

\* The call; what earlier reads may have left behind now counts for less.
Read(l) ==
    /\ pc' = "select" /\ lba' = l /\ i' = 0 /\ buf' = <<>>
    /\ trouble' = IF trouble = 0 THEN 0 ELSE trouble - 1

Select ==
    /\ pc = "select" /\ pc' = "command"
    /\ selected' = [selected EXCEPT ![base] = 0]
    /\ UNCHANGED <<driveVars, current_atapi_base, lba, i, buf, tried, fs_ready, trouble>>

\* The wait for BSY, then the command PACKET.  A drive that is busy ignores
\* it; one that waits for or offers words may take it or not.
Command ==
    /\ pc = "command" /\ pc' = "offer"
    /\ Wait(base, ~BSY(base))
    /\ \/ /\ Selected(base) = "cdrom" /\ phase \in {"idle", "packet", "data"}
          /\ phase' = "prepare" /\ packet' = <<>> /\ words' = <<>>
       \/ ~(Selected(base) = "cdrom" /\ phase = "idle") /\ UNCHANGED driveVars
    /\ UNCHANGED <<selected, current_atapi_base, lba, i, buf, tried, fs_ready>>

\* Mutant: the packet is sent without waiting for DRQ.
OfferAtOnce ==
    /\ pc = "offer" /\ pc' = "send"
    /\ UNCHANGED <<driveVars, selected, current_atapi_base, lba, i, buf, tried, fs_ready, trouble>>

Offer ==
    /\ pc = "offer" /\ pc' = "send" /\ Wait(base, DRQ(base))
    /\ UNCHANGED <<driveVars, selected, current_atapi_base, lba, i, buf, tried, fs_ready>>

\* outw of one word of the packet, which asks for the sector lba.
Send ==
    /\ pc = "send"
    /\ IF Selected(base) = "cdrom" /\ phase = "packet"
       THEN /\ packet' = Append(packet, lba)
            /\ phase' = IF Len(packet') = PacketWords THEN "busy" ELSE "packet"
       ELSE UNCHANGED <<packet, phase>>
    /\ i' = i + 1 /\ pc' = IF i' = PacketWords THEN "settle" ELSE "send"
    /\ UNCHANGED <<words, selected, current_atapi_base, lba, buf, tried, fs_ready, trouble>>

Settle ==
    /\ pc = "settle" /\ pc' = "ready" /\ Wait(base, ~BSY(base))
    /\ UNCHANGED <<driveVars, selected, current_atapi_base, lba, i, buf, tried, fs_ready>>

Ready ==
    /\ pc = "ready" /\ pc' = "data" /\ Wait(base, DRQ(base))
    /\ UNCHANGED <<driveVars, selected, current_atapi_base, lba, i, buf, tried, fs_ready>>

\* Mutant: one word more than the sector has is read.
DataTooLong ==
    /\ pc = "data"
    /\ IF Selected(base) = "cdrom" /\ phase = "data"
       THEN /\ buf' = Append(buf, Head(words)) /\ words' = Tail(words)
            /\ phase' = IF words' = <<>> THEN "idle" ELSE "data"
       ELSE buf' = Append(buf, Junk) /\ UNCHANGED <<words, phase>>
    /\ pc' = IF Len(buf') > SectorWords THEN "return" ELSE "data"
    /\ UNCHANGED <<packet, selected, current_atapi_base, lba, i, tried, fs_ready, trouble>>

Data ==
    /\ pc = "data"
    /\ IF Selected(base) = "cdrom" /\ phase = "data"
       THEN /\ buf' = Append(buf, Head(words)) /\ words' = Tail(words)
            /\ phase' = IF words' = <<>> THEN "idle" ELSE "data"
       ELSE buf' = Append(buf, Junk) /\ UNCHANGED <<words, phase>>
    /\ pc' = IF Len(buf') = SectorWords THEN "return" ELSE "data"
    /\ UNCHANGED <<packet, selected, current_atapi_base, lba, i, tried, fs_ready, trouble>>

atapi_read_sector == Select \/ Command \/ Offer \/ Send \/ Settle \/ Ready \/ Data

Driver == Probe \/ Scan \/ atapi_read_sector

-----------------------------------------------------------------------------
(* Properties *)

AtapiTypeOK ==
    /\ phase \in {"idle", "reset", "prepare", "packet", "busy", "data"}
    /\ Len(packet) <= PacketWords /\ Len(words) <= SectorWords /\ Len(buf) <= SectorWords
    /\ (phase = "data") = (words # <<>>)
    /\ trouble \in 0 .. 2 /\ fs_ready \in {0, 1} /\ tried \in Positions

\* A drive that refuses a command spoils the sector it was asked for and no
\* other; one that is late spoils at most one sector more, whatever it did
\* with the words and the commands it was sent meanwhile: then every sector
\* that is read is the sector asked for, whole and in order
\* (iso9660.c:22-59).  A drive that the scan found as its bus's slave is not
\* asked at all: every read selects the master again (line 25), and not a
\* word of the disc arrives.
WholeSector ==
    pc = "return" =>
        IF devices[<<base, 0>>] = "cdrom"
        THEN trouble = 0 => buf = disc[lba]
        ELSE buf = [k \in 1 .. SectorWords |-> Junk]

\* The scan finds the first CD-ROM drive if there is one and it is not late.
MountFinds ==
    pc = "mounted" /\ trouble = 0 =>
        IF fs_ready = 1
        THEN devices[tried] = "cdrom" /\ tried[1] = current_atapi_base
        ELSE \A p \in Positions : devices[p] # "cdrom"
=============================================================================
