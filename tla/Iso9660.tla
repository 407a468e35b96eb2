------------------------------- MODULE Iso9660 ------------------------------
(***************************************************************************)
(* The ISO 9660 reader (src/src/fs/iso9660.c:61-99, 141-216) on top of the *)
(* driver.  One action per sector that is read; what the code then does    *)
(* with the sector in memory is part of it.  A word stands for what the    *)
(* code may take it for: the start of a directory record, the volume       *)
(* descriptor with its root record, or two characters of a file (`name').  *)
(***************************************************************************)
EXTENDS Atapi

CONSTANTS
    PvdLba          (* the sector of the volume descriptor (16)            *)

ASSUME IsoAssumption == PvdLba \in Nat

VARIABLES
    fs,             (* the function that waits for a sector, or "idle"     *)
    path,           (* iso9660_read_file: the name, as find_file_record    *)
                    (* takes it                                            *)
    rec, s,         (* the record found or listed, the sectors of it read  *)
    out,            (* the words of the file, or the records listed        *)
    found,          (* the result: "none" is NULL                          *)
    sound           (* history: every sector of this call was read with    *)
                    (* trouble = 0                                         *)

isoVars == <<fs, path, rec, s, out, found, sound>>

Zero == [length |-> 0, name |-> <<>>, lba |-> 0, size |-> 0, dir |-> FALSE, pvd |-> FALSE]

IsoInit ==
    /\ fs = "idle" /\ path = <<>> /\ rec = Zero /\ s = 0
    /\ out = <<>> /\ found = "none" /\ sound = TRUE

-----------------------------------------------------------------------------
(* The disc: a volume descriptor, the sectors of the root directory and    *)
(* the files behind them.  `sectors' lists the entries [length, name, dir, *)
(* text] of each directory sector: a record lies in one sector, the rest   *)
(* of a sector is zero.                                                    *)

Sectors(size) == (size + SectorWords - 1) \div SectorWords

Padded(ws) == ws \o [n \in 1 .. SectorWords - Len(ws) |-> Zero]

RootSize(sectors) == Len(sectors) * SectorWords

TextWord(c) == [length |-> 1, name |-> <<c>>, lba |-> 0, size |-> 0, dir |-> FALSE, pvd |-> FALSE]
TextWords(text) == [n \in DOMAIN text |-> TextWord(text[n])]

\* The first sector of the k-th entry.
Extent(sectors, k) ==
    LET e == FlattenSeq(sectors)
        start[n \in 1 .. Len(e)] == IF n = 1 THEN PvdLba + 1 + Len(sectors)
                                    ELSE start[n - 1] + Sectors(Len(e[n - 1].text))
    IN IF e[k].dir THEN PvdLba + 1 ELSE start[k]

RecordWord(sectors, k) ==
    LET e == FlattenSeq(sectors)[k]
    IN  [length |-> e.length, name |-> e.name, lba |-> Extent(sectors, k),
         size |-> IF e.dir THEN RootSize(sectors) ELSE Len(e.text), dir |-> e.dir, pvd |-> FALSE]

Record(sectors, k) ==
    <<RecordWord(sectors, k)>> \o [n \in 1 .. RecordWord(sectors, k).length - 1 |-> Zero]

Before(sectors, d) == Len(FlattenSeq(SubSeq(sectors, 1, d - 1)))

RootSector(sectors, d) ==
    FlattenSeq([k \in DOMAIN sectors[d] |-> Record(sectors, Before(sectors, d) + k)])

FileSectors(text) == [n \in 1 .. Sectors(Len(text)) |-> Padded(Piece(TextWords(text), SectorWords, n))]

Layout(sectors) ==
    LET e == FlattenSeq(sectors)
        root == [length |-> 1, name |-> <<>>, lba |-> PvdLba + 1, size |-> RootSize(sectors),
                 dir |-> TRUE, pvd |-> TRUE]
        directory == [d \in DOMAIN sectors |-> Padded(RootSector(sectors, d))]
        files == FlattenSeq([k \in DOMAIN e |-> FileSectors(e[k].text)])
        all == [n \in 1 .. PvdLba |-> Padded(<<>>)] \o <<Padded(<<root>>)>> \o directory \o files
    IN [l \in 0 .. Len(all) - 1 |-> all[l + 1]]

\* What such a disc is made of: there is a root directory, the records of a
\* sector fit into it, and a name that is more than one character has no NUL.
DiscEntries == [length : Nat \ {0}, name : Seq(Int), dir : BOOLEAN, text : Seq(Int)]

IsDisc(sectors) ==
    /\ sectors \in Seq(Seq(DiscEntries)) /\ sectors # <<>>
    /\ \A d \in DOMAIN sectors :
          /\ Len(RootSector(sectors, d)) <= SectorWords
          /\ \A k \in DOMAIN sectors[d] :
                Len(sectors[d][k].name) > 1 => ~Contains(sectors[d][k].name, NUL)

-----------------------------------------------------------------------------
(* Helpers of the code *)

\* The name without its version is how the target, with its NUL, begins.
\* Mutant: the version is compared with the rest.
WithVersion(target, name) == IsPrefix(name, Append(target, NUL))

filename_match(target, name) ==
    IsPrefix(SubSeq(name, 1, Find(name, SEMI) - 1), Append(target, NUL))

\* The records the code steps through in a sector.
Records(sector) ==
    LET from[offset \in Nat \ {0}] ==
            IF offset > SectorWords \/ sector[offset].length = 0 THEN <<>>
            ELSE <<sector[offset]>> \o from[offset + sector[offset].length]
    IN from[1]

\* Which records of a sector find_file_record would take for the target's.
Matching(sector, target) ==
    {k \in DOMAIN Records(sector) : filename_match(target, Records(sector)[k].name)}

\* What `ls' prints of a record.
Line(r) == <<SubSeq(r.name, 1, Find(r.name, SEMI) - 1), r.dir>>

\* The characters of a file.
Texts(file) == FlattenSeq([n \in DOMAIN file |-> file[n].name])

-----------------------------------------------------------------------------
(* One sector after another *)

DriveRests == UNCHANGED <<driveVars, selected, current_atapi_base, tried, fs_ready>>

\* atapi_read_sector is called for `function' to go on with.
Call(function, l) == fs' = function /\ Read(l) /\ DriveRests
Return(result) ==
    /\ fs' = "idle" /\ found' = result /\ pc' = "idle"
    /\ UNCHANGED <<driveVars, selected, current_atapi_base, lba, i, buf, tried, fs_ready, trouble>>

\* A sector has come back for `function'.
Back(function) ==
    /\ pc = "return" /\ fs = function
    /\ sound' = (sound /\ trouble = 0)

iso9660_read_file(file) ==
    /\ Call("pvd", PvdLba)
    /\ path' = IF file # <<>> /\ Head(file) = SLASH THEN Tail(file) ELSE file
    /\ out' = <<>> /\ sound' = TRUE /\ UNCHANGED <<rec, s, found>>

\* find_file_record: the root's first sector
FindRoot ==
    /\ Back("pvd") /\ Call("record", buf[1].lba)
    /\ UNCHANGED <<path, rec, s, out, found>>

NextSector(l, n) == Call("content", l) /\ s' = n /\ UNCHANGED <<path, found>>

FindRecord ==
    LET matching == Matching(buf, path)
    IN  /\ Back("record") /\ UNCHANGED out
        /\ \/ matching = {} /\ Return("none") /\ UNCHANGED <<path, rec, s>>
           \/ /\ matching # {} /\ rec' = Records(buf)[Min(matching)]
              /\ IF Sectors(rec'.size) = 0 THEN Return("file") /\ UNCHANGED <<path, s>>
                                           ELSE NextSector(rec'.lba, 0)

\* iso9660_read_file: the file's sectors, then what cat gets to see of them
ReadContent ==
    /\ Back("content") /\ UNCHANGED rec
    /\ IF s + 1 < Sectors(rec.size)
       THEN NextSector(rec.lba + s + 1, s + 1) /\ out' = out \o buf
       ELSE /\ Return("file") /\ UNCHANGED <<path, s>>
            /\ out' = SubSeq(out \o buf, 1, rec.size)

iso_list_directory ==
    /\ Call("check", PvdLba)
    /\ out' = <<>> /\ sound' = TRUE /\ UNCHANGED <<path, rec, s, found>>

\* No descriptor, or a directory of no sectors: nothing is listed.
ListRoot ==
    /\ Back("check") /\ rec' = buf[1] /\ s' = 0 /\ UNCHANGED <<path, out>>
    /\ IF buf[1].pvd /\ Sectors(rec'.size) > 0
       THEN Call("list", rec'.lba) /\ UNCHANGED found
       ELSE Return(IF buf[1].pvd THEN "list" ELSE "none")

\* Mutant: the same sector is read again and again.
ListFirst ==
    /\ Back("list") /\ out' = out \o Records(buf) /\ UNCHANGED <<path, rec>>
    /\ s' = s + 1
    /\ IF s' < Sectors(rec.size) THEN Call("list", rec.lba) /\ UNCHANGED found
                                 ELSE Return("list")

ListSector ==
    /\ Back("list") /\ out' = out \o Records(buf) /\ UNCHANGED <<path, rec>>
    /\ s' = s + 1
    /\ IF s' < Sectors(rec.size) THEN Call("list", rec.lba + s') /\ UNCHANGED found
                                 ELSE Return("list")

IsoStep == FindRoot \/ FindRecord \/ ReadContent \/ ListRoot \/ ListSector
-----------------------------------------------------------------------------
\* A disc is written in whole sectors: the records of a directory fill none of
\* them up beyond its end.
Pressed(d) == \A l \in DOMAIN d : d[l] \in Seq(ToSet(d[l])) /\ Len(d[l]) = SectorWords
=============================================================================
