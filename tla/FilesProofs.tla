------------------------------ MODULE FilesProofs -----------------------------
(***************************************************************************)
(* Theorems about the kernel's files (module Files).  First what lies      *)
(* where on a disc, and what the code computes of it.  Then the machine:   *)
(* where the main program, the driver and the loader are, what the loader  *)
(* takes from the heap it gives back, the scan finds the drive, a sector   *)
(* that is read is the sector asked for - and so what the configuration,   *)
(* ls and cat show is what is there.  Last, what lies where in a class     *)
(* file, how the loader walks through it, and what java runs.              *)
(***************************************************************************)
EXTENDS Files, FormatProofs, FiniteSetTheorems, TLAPS

-----------------------------------------------------------------------------
(* The disc *)

DiscWords == [length : Nat, name : Seq(Int), lba : Nat, size : Nat, dir : BOOLEAN, pvd : BOOLEAN]

DiscSectors == {w \in Seq(DiscWords) : Len(w) = SectorWords}

\* Nothing is a word of a disc.
LEMMA ZeroWord == Zero \in DiscWords
  BY DEF Zero, DiscWords

\* The sectors of a file are as many as are needed.
LEMMA SectorsNeeded ==
  ASSUME NEW length \in Nat
  PROVE  /\ Sectors(length) = Needed(length, SectorWords) /\ Sectors(length) \in Nat
         /\ Sectors(length) = 0 => length = 0
  <1>1. Sectors(length) = Needed(length, SectorWords)
    BY DEF Sectors, Needed
  <1>2. PICK w \in Nat \ {0} : w = SectorWords
    BY AtapiAssumption
  <1>3. Needed(length, w) \in Nat /\ length <= Needed(length, w) * w
    BY NeededAre
  <1> QED
    BY <1>1, <1>2, <1>3

\* Characters are words of a disc.
LEMMA TextWordIs ==
  ASSUME NEW c \in Int
  PROVE  TextWord(c) \in DiscWords /\ TextWord(c).name = <<c>>
  <1>1. TextWord(c) = [length |-> 1, name |-> <<c>>, lba |-> 0, size |-> 0, dir |-> FALSE, pvd |-> FALSE]
    BY DEF TextWord
  <1>2. <<c>> \in Seq(Int)
    OBVIOUS
  <1> QED
    BY <1>1, <1>2 DEF DiscWords

\* What is written of a sector, and the zeros behind it.
LEMMA PaddedIs ==
  ASSUME NEW ws \in Seq(DiscWords), Len(ws) <= SectorWords
  PROVE  /\ Padded(ws) \in Seq(DiscWords) /\ Len(Padded(ws)) = SectorWords
         /\ \A j \in 1 .. SectorWords : Padded(ws)[j] = IF j <= Len(ws) THEN ws[j] ELSE Zero
  <1>1. PICK w \in Nat \ {0} : w = SectorWords
    BY AtapiAssumption
  <1>2. PICK u : u = [k \in 1 .. w - Len(ws) |-> Zero]
    OBVIOUS
  <1>3. u \in Seq(DiscWords) /\ Len(u) = w - Len(ws) /\ \A k \in 1 .. w - Len(ws) : u[k] = Zero
    BY <1>1, <1>2, ZeroWord
  <1>4. Padded(ws) = ws \o u
    BY <1>1, <1>2 DEF Padded
  <1>5. /\ ws \o u \in Seq(DiscWords) /\ Len(ws \o u) = Len(ws) + Len(u)
        /\ \A k \in 1 .. Len(ws) : (ws \o u)[k] = ws[k]
        /\ \A k \in 1 .. Len(u) : (ws \o u)[Len(ws) + k] = u[k]
    BY <1>3
  <1>6. ASSUME NEW j \in 1 .. w PROVE (ws \o u)[j] = IF j <= Len(ws) THEN ws[j] ELSE Zero
    <2>1. CASE j <= Len(ws)
      BY <1>5, <2>1
    <2>2. CASE ~(j <= Len(ws))
      <3>1. Len(ws) \in Nat
        OBVIOUS
      <3>2. PICK k \in 1 .. w - Len(ws) : j = Len(ws) + k
        <4>1. j - Len(ws) \in 1 .. w - Len(ws) /\ j = Len(ws) + (j - Len(ws))
          BY <1>1, <2>2, <3>1
        <4> QED
          BY <4>1
      <3>3. (ws \o u)[j] = u[k]
        BY <1>3, <1>5, <3>2
      <3> QED
        BY <1>3, <2>2, <3>2, <3>3
    <2> QED
      BY <2>1, <2>2
  <1> QED
    BY <1>1, <1>3, <1>4, <1>5, <1>6

\* A sector of a file.
LEMMA FileSectorIs ==
  ASSUME NEW text \in Seq(Int), NEW k \in Nat, k < Sectors(Len(text))
  PROVE  /\ FileSectors(text)[k + 1] \in Seq(DiscWords) /\ Len(FileSectors(text)[k + 1]) = SectorWords
         /\ \A j \in 1 .. SectorWords : k * SectorWords + j <= Len(text) =>
               FileSectors(text)[k + 1][j] = TextWord(text[k * SectorWords + j])
  <1>1. PICK w \in Nat \ {0} : w = SectorWords
    BY AtapiAssumption
  <1>2. PICK t : t = TextWords(text)
    OBVIOUS
  <1>3. PICK L \in Nat : L = Len(text)
    OBVIOUS
  <1>4. /\ t \in Seq(DiscWords) /\ Len(t) = L
        /\ \A j \in 1 .. L : t[j] = TextWord(text[j])
    <2>1. \A j \in 1 .. L : TextWord(text[j]) \in DiscWords
      BY <1>3, TextWordIs
    <2>2. t = [j \in 1 .. L |-> TextWord(text[j])]
      BY <1>2, <1>3 DEF TextWords
    <2>3. t \in [1 .. L -> DiscWords]
      BY <2>1, <2>2
    <2> QED
      BY <2>2, <2>3
  <1>5. k < Needed(L, w)
    BY <1>1, <1>3, SectorsNeeded
  <1>6. PICK a \in Nat : a = k * w
    OBVIOUS
  <1>7. /\ a < L /\ Piece(t, w, k + 1) \in Seq(DiscWords)
        /\ \E b \in Nat : /\ b = (IF a + w <= L THEN a + w ELSE L)
                          /\ Piece(t, w, k + 1) = SubSeq(t, a + 1, b)
    <2>1. k < Needed(Len(t), w)
      BY <1>4, <1>5, Zenon
    <2>2. PieceFrom(DiscWords, t, w, k, a)
      BY <1>4, <1>6, <2>1, PieceAt, Zenon
    <2> QED
      BY <1>4, <2>2, Zenon DEF PieceFrom
  <1>8. PICK b \in Nat : /\ b = (IF a + w <= L THEN a + w ELSE L)
                          /\ Piece(t, w, k + 1) = SubSeq(t, a + 1, b)
    BY <1>7
  <1>9. PICK p \in Seq(DiscWords) : p = SubSeq(t, a + 1, b)
    BY <1>7, <1>8
  <1>10. Len(p) = b - a /\ Len(p) <= w /\ \A j \in 1 .. b - a : p[j] = t[a + j]
    <2>1. a + 1 \in 1 .. Len(t) /\ b \in a + 1 .. Len(t) /\ b - a <= w
      BY <1>1, <1>4, <1>7, <1>8
    <2>2. SubSeq(t, a + 1, b) = [j \in 1 .. b - a |-> t[a + j]]
      <3>1. b - (a + 1) + 1 = b - a /\ \A j \in 1 .. b - a : j + (a + 1) - 1 = a + j
        BY <2>1
      <3> QED
        BY <1>4, <2>1, <3>1
    <2>3. PICK c \in Nat : c = b - a
      BY <2>1
    <2>4. p = [j \in 1 .. c |-> t[a + j]]
      BY <1>9, <2>2, <2>3
    <2>5. Len(p) = c
      BY <2>4
    <2> QED
      BY <2>1, <2>3, <2>4, <2>5
  <1>11. FileSectors(text)[k + 1] = Padded(p)
    <2>1. k + 1 \in 1 .. Sectors(Len(text))
      BY <1>3, SectorsNeeded
    <2>2. FileSectors(text)[k + 1] = Padded(Piece(TextWords(text), SectorWords, k + 1))
      BY <2>1 DEF FileSectors
    <2> QED
      BY <1>1, <1>2, <1>8, <1>9, <2>2
  <1>12. /\ Padded(p) \in Seq(DiscWords) /\ Len(Padded(p)) = w
         /\ \A j \in 1 .. w : Padded(p)[j] = IF j <= Len(p) THEN p[j] ELSE Zero
    BY <1>1, <1>10, PaddedIs
  <1>13. ASSUME NEW j \in 1 .. w, a + j <= L
         PROVE  Padded(p)[j] = TextWord(text[a + j])
    <2>1. j \in 1 .. b - a /\ a + j \in 1 .. L
      BY <1>8, <1>13
    <2>2. Padded(p)[j] = t[a + j]
      <3>1. j <= Len(p)
        BY <1>10, <2>1
      <3> QED
        BY <1>10, <1>12, <2>1, <3>1
    <2> QED
      BY <1>4, <2>1, <2>2
  <1>14. \A j \in 1 .. w : a + j <= L => Padded(p)[j] = TextWord(text[a + j])
    BY <1>13
  <1>15. k * SectorWords = a
    BY <1>1, <1>6
  <1> QED
    BY <1>1, <1>3, <1>11, <1>12, <1>14, <1>15

\* The sectors of a file are sectors of a disc.
LEMMA FileSectorsType ==
  ASSUME NEW text \in Seq(Int)
  PROVE  /\ FileSectors(text) \in Seq(DiscSectors) /\ Len(FileSectors(text)) = Sectors(Len(text))
  <1>1. PICK c \in Nat : c = Sectors(Len(text))
    BY SectorsNeeded
  <1>2. PICK Q : Q = DiscSectors
    OBVIOUS
  <1>3. PICK t : t = FileSectors(text)
    OBVIOUS
  <1>4. t = [k \in 1 .. c |-> Padded(Piece(TextWords(text), SectorWords, k))]
    BY <1>1, <1>3 DEF FileSectors
  <1>5. ASSUME NEW k \in 1 .. c PROVE t[k] \in Q
    <2>1. k - 1 \in Nat /\ k - 1 < c /\ (k - 1) + 1 = k
      OBVIOUS
    <2>2. FileSectors(text)[(k - 1) + 1] \in DiscSectors
      BY <1>1, <2>1, FileSectorIs DEF DiscSectors
    <2> QED
      BY <1>2, <1>3, <2>1, <2>2
  <1>6. t = [k \in 1 .. c |-> t[k]]
    BY <1>4
  <1>7. t \in [1 .. c -> Q]
    BY <1>5, <1>6
  <1>8. t \in Seq(Q) /\ Len(t) = c
    BY <1>7
  <1> QED
    BY <1>1, <1>2, <1>3, <1>8

\* The files of a disc, one behind the other.
FilesOf(e) == [k \in DOMAIN e |-> FileSectors(e[k].text)]

\* The sectors of all files, file by file.
LEMMA FilesAre ==
  ASSUME NEW e \in Seq(DiscEntries)
  PROVE  /\ FilesOf(e) \in Seq(Seq(DiscSectors)) /\ Len(FilesOf(e)) = Len(e)
         /\ \A k \in 1 .. Len(e) : /\ e[k].text \in Seq(Int) /\ Len(e[k].text) \in Nat
                                  /\ FilesOf(e)[k] = FileSectors(e[k].text)
                                  /\ Len(FilesOf(e)[k]) = Sectors(Len(e[k].text))
  <1>1. PICK Q : Q = Seq(DiscSectors)
    OBVIOUS
  <1>2. PICK c \in Nat : c = Len(e) /\ DOMAIN e = 1 .. c /\ \A k \in 1 .. c : e[k] \in DiscEntries
    OBVIOUS
  <1>3. \A k \in 1 .. c : e[k].text \in Seq(Int) /\ Len(e[k].text) \in Nat
    <2> SUFFICES ASSUME NEW k \in 1 .. c PROVE e[k].text \in Seq(Int) /\ Len(e[k].text) \in Nat
      OBVIOUS
    <2>1. e[k].text \in Seq(Int)
      BY <1>2 DEF DiscEntries
    <2> QED
      BY <2>1
  <1>4. PICK t : t = FilesOf(e)
    OBVIOUS
  <1>5. t = [k \in 1 .. c |-> FileSectors(e[k].text)]
    BY <1>2, <1>4 DEF FilesOf
  <1>6. \A k \in 1 .. c : FileSectors(e[k].text) \in Q /\ Len(FileSectors(e[k].text)) = Sectors(Len(e[k].text))
    BY <1>1, <1>3, FileSectorsType
  <1>7. t \in [1 .. c -> Q]
    BY <1>5, <1>6
  <1>8. t \in Seq(Q) /\ Len(t) = c /\ \A k \in 1 .. c : t[k] = FileSectors(e[k].text)
    BY <1>5, <1>7
  <1> QED
    BY <1>1, <1>2, <1>3, <1>4, <1>6, <1>8

\* A file begins behind those of the entries before it.
LEMMA ExtentIs ==
  ASSUME NEW sectors, FlattenSeq(sectors) \in Seq(DiscEntries), Len(sectors) \in Nat,
         NEW k \in 1 .. Len(FlattenSeq(sectors))
  PROVE  Extent(sectors, k) = IF FlattenSeq(sectors)[k].dir THEN PvdLba + 1
                              ELSE PvdLba + 1 + Len(sectors) + Start(FilesOf(FlattenSeq(sectors)), k)
  <1> DEFINE e == FlattenSeq(sectors)
  <1>0. PICK c \in Nat : c = Len(e)
    OBVIOUS
  <1>1. PICK D : D = 1 .. c /\ c = Len(e)
    BY <1>0
  <1> DEFINE V == Nat
             length(j) == Sectors(Len(e[j].text))
             rank == [j \in D |-> j]
             Stop == {1}
             next == [j \in D |-> IF j = 1 THEN 1 ELSE j - 1]
             first == PvdLba + 1 + Len(sectors)
             base0 == [j \in D |-> first]
             step == [p \in D \X V |-> IF p[1] = 1 THEN 0 ELSE p[2] + length(p[1] - 1)]
             Solves(g) == g = [j \in 1 .. Len(e) |->
                                 IF j = 1 THEN PvdLba + 1 + Len(sectors)
                                 ELSE g[j - 1] + Sectors(Len(e[j - 1].text))]
             from == CHOOSE g : Solves(g)
  <1>2. Extent(sectors, k) = IF e[k].dir THEN PvdLba + 1 ELSE from[k]
    BY DEF Extent
  <1>3. /\ \A j \in 1 .. c : length(j) \in Nat
        /\ first \in Nat
    <2>1. \A j \in 1 .. c : Len(e[j].text) \in Nat
      BY <1>1, FilesAre
    <2>2. ASSUME NEW j \in 1 .. c PROVE length(j) \in Nat
      <3>1. PICK m \in Nat : m = Len(e[j].text)
        BY <2>1
      <3>2. Sectors(m) \in Nat
        BY SectorsNeeded
      <3> QED
        BY <3>1, <3>2, Zenon
    <2>3. first \in Nat
      BY IsoAssumption
    <2> QED
      BY <2>2, <2>3
  <1>4. /\ rank \in [D -> Nat] /\ next \in [D -> D] /\ base0 \in [D -> V]
        /\ Descends(D, rank, Stop, next)
    <2> HIDE DEF first, e, length, from
    <2>1. rank \in [D -> Nat] /\ next \in [D -> D] /\ base0 \in [D -> V]
      BY <1>1, <1>3
    <2>2. \A j \in D : j \notin Stop => rank[next[j]] < rank[j]
      BY <1>1
    <2> QED
      BY <2>1, <2>2 DEF Descends
  <1>5. step \in [D \X V -> V]
    <2> HIDE DEF first, e, length, from
    <2> SUFFICES ASSUME NEW j \in D, NEW v \in V PROVE (IF j = 1 THEN 0 ELSE v + length(j - 1)) \in V
      OBVIOUS
    <2>1. CASE j = 1
      BY <2>1
    <2>2. CASE j # 1
      <3>1. j - 1 \in 1 .. c
        BY <1>1, <2>2
      <3>2. length(j - 1) \in Nat
        BY <1>3, <3>1
      <3> QED
        BY <2>2, <3>2
    <2> QED
      BY <2>1, <2>2
  <1>6. PICK f \in [D -> V] : Recurs(D, Stop, next, base0, step, f)
    <2> HIDE DEF V, Stop, rank, next, base0, step, e, from
    <2> QED
      BY <1>4, <1>5, Recursion
  <1>7. ASSUME NEW j \in D PROVE f[j] = IF j = 1 THEN first ELSE f[j - 1] + length(j - 1)
    <2>1. f[j] = IF j \in Stop THEN base0[j] ELSE step[<<j, f[next[j]]>>]
      BY <1>6 DEF Recurs
    <2> HIDE DEF first, e, length, from
    <2>2. CASE j = 1
      BY <2>1, <2>2
    <2>3. CASE j # 1
      <3>1. next[j] = j - 1 /\ j - 1 \in D
        BY <1>1, <2>3
      <3>2. <<j, f[j - 1]>> \in D \X V
        BY <1>6, <3>1
      <3>3. step[<<j, f[j - 1]>>] = f[j - 1] + length(j - 1)
        BY <2>3, <3>2
      <3> HIDE DEF next, step
      <3> QED
        BY <2>1, <2>3, <3>1, <3>3
    <2> QED
      BY <2>2, <2>3
  <1>8. Solves(f)
    <2> HIDE DEF e
    <2> QED
      BY <1>1, <1>6, <1>7
  <1>9. Solves(from)
    <2> HIDE DEF Solves
    <2> QED
      BY <1>8
  <1> HIDE DEF from
  <1>10. ASSUME NEW j \in 1 .. c PROVE from[j] = IF j = 1 THEN first ELSE from[j - 1] + length(j - 1)
    <2> HIDE DEF e
    <2> QED
      BY <1>1, <1>9
  <1> DEFINE t == FilesOf(e)
             T == {m \in Nat : m + 1 \in 1 .. c => from[m + 1] = first + Start(t, m + 1)}
  <1>11. t \in Seq(Seq(DiscSectors)) /\ Len(t) = c /\ \A j \in 1 .. c : Len(t[j]) = length(j)
    BY <1>1, FilesAre
  <1> HIDE DEF t, e
  <1>12. /\ Start(t, 1) = 0
         /\ \A j \in 1 .. c : Start(t, j) \in Nat /\ Start(t, j + 1) = Start(t, j) + length(j)
    <2>1. /\ Start(t, 1) = 0 /\ \A j \in 1 .. Len(t) + 1 : Start(t, j) \in Nat
          /\ \A j \in 1 .. Len(t) : Start(t, j + 1) = Start(t, j) + Len(t[j])
      BY <1>11, Starts
    <2> HIDE DEF length
    <2> QED
      BY <1>11, <2>1
  <1>13. 0 \in T
    <2> HIDE DEF length, first
    <2>1. 1 \in 1 .. c => from[1] = first
      BY <1>10
    <2>2. 0 + 1 = 1
      OBVIOUS
    <2> QED
      BY <1>3, <1>12, <2>1, <2>2
  <1>14. ASSUME NEW m \in Nat, m \in T PROVE m + 1 \in T
    <2> HIDE DEF length, first
    <2> SUFFICES ASSUME (m + 1) + 1 \in 1 .. c PROVE from[(m + 1) + 1] = first + Start(t, (m + 1) + 1)
      OBVIOUS
    <2>1. m + 1 \in 1 .. c /\ (m + 1) + 1 # 1 /\ ((m + 1) + 1) - 1 = m + 1
      OBVIOUS
    <2>2. from[(m + 1) + 1] = from[m + 1] + length(m + 1)
      BY <1>10, <2>1
    <2>3. from[m + 1] = first + Start(t, m + 1)
      BY <1>14, <2>1
    <2>4. Start(t, (m + 1) + 1) = Start(t, m + 1) + length(m + 1) /\ Start(t, m + 1) \in Nat /\ length(m + 1) \in Nat
      BY <1>3, <1>12, <2>1
    <2> QED
      BY <1>3, <2>2, <2>3, <2>4
  <1>15. Nat \subseteq T
    <2> HIDE DEF T
    <2> QED
      BY <1>13, <1>14, ByNumber
  <1>16. from[k] = first + Start(t, k)
    <2>1. PICK m \in Nat : m + 1 = k /\ k \in 1 .. c
      <3>1. k \in 1 .. c /\ k - 1 \in Nat /\ (k - 1) + 1 = k
        BY <1>1 DEF e
      <3> QED
        BY <3>1
    <2>2. m \in T
      BY <1>15
    <2> QED
      BY <2>1, <2>2
  <1> QED
    BY <1>2, <1>16 DEF t, e

\* The entries of a disc, and what is written of each.
LEMMA EntriesAre ==
  ASSUME NEW sectors, IsDisc(sectors)
  PROVE  /\ sectors \in Seq(Seq(DiscEntries)) /\ Len(sectors) \in Nat \ {0}
         /\ FlattenSeq(sectors) \in Seq(DiscEntries)
  <1>1. sectors \in Seq(Seq(DiscEntries)) /\ sectors # <<>>
    BY DEF IsDisc
  <1>2. FlattenSeq(sectors) \in Seq(DiscEntries)
    BY <1>1, FlattenType
  <1> QED
    BY <1>1, <1>2

\* What the record of an entry tells of it.
LEMMA RecordIs ==
  ASSUME NEW sectors, IsDisc(sectors), NEW k \in 1 .. Len(FlattenSeq(sectors))
  PROVE  LET e == FlattenSeq(sectors)[k]
             w == RecordWord(sectors, k)
         IN  /\ e \in DiscEntries /\ w \in DiscWords
             /\ w.length = e.length /\ w.name = e.name /\ w.dir = e.dir /\ w.lba = Extent(sectors, k)
             /\ w.size = IF e.dir THEN RootSize(sectors) ELSE Len(e.text)
             /\ Record(sectors, k) \in Seq(DiscWords) /\ Len(Record(sectors, k)) = e.length
             /\ e.length \in Nat \ {0} /\ Record(sectors, k)[1] = w
  <1>1. PICK e : e = FlattenSeq(sectors)[k]
    OBVIOUS
  <1>2. e \in DiscEntries
    BY <1>1, EntriesAre
  <1>3. e.length \in Nat \ {0} /\ e.name \in Seq(Int) /\ e.dir \in BOOLEAN /\ e.text \in Seq(Int)
    BY <1>2 DEF DiscEntries
  <1>4. RootSize(sectors) \in Nat
    <2>1. PICK a \in Nat, b \in Nat : a = Len(sectors) /\ b = SectorWords
      BY EntriesAre, AtapiAssumption
    <2>2. a * b \in Nat
      OBVIOUS
    <2> QED
      BY <2>1, <2>2 DEF RootSize
  <1>5. Extent(sectors, k) \in Nat
    <2>1. PICK m \in Nat, p \in Nat : m = Len(sectors) /\ p = PvdLba
      BY EntriesAre, IsoAssumption
    <2>2. Extent(sectors, k) = IF e.dir THEN PvdLba + 1
                               ELSE PvdLba + 1 + Len(sectors) + Start(FilesOf(FlattenSeq(sectors)), k)
      BY <1>1, <2>1, EntriesAre, ExtentIs
    <2>3. Start(FilesOf(FlattenSeq(sectors)), k) \in Nat
      <3>1. PICK t : t = FilesOf(FlattenSeq(sectors))
        OBVIOUS
      <3>2. t \in Seq(Seq(DiscSectors)) /\ Len(t) = Len(FlattenSeq(sectors))
        BY <3>1, EntriesAre, FilesAre
      <3>3. \A j \in 1 .. Len(t) + 1 : Start(t, j) \in Nat
        BY <3>2, Starts
      <3>4. k \in 1 .. Len(t) + 1
        <4>1. Len(FlattenSeq(sectors)) \in Nat
          BY EntriesAre
        <4> QED
          BY <3>2, <4>1
      <3> QED
        BY <3>1, <3>3, <3>4
    <2> QED
      BY <2>1, <2>2, <2>3
  <1>6. PICK w : w = RecordWord(sectors, k)
    OBVIOUS
  <1>7. w = [length |-> e.length, name |-> e.name, lba |-> Extent(sectors, k),
             size |-> IF e.dir THEN RootSize(sectors) ELSE Len(e.text), dir |-> e.dir, pvd |-> FALSE]
    BY <1>1, <1>6 DEF RecordWord
  <1>8. /\ w \in DiscWords
        /\ w.length = e.length /\ w.name = e.name /\ w.dir = e.dir /\ w.lba = Extent(sectors, k)
        /\ w.size = IF e.dir THEN RootSize(sectors) ELSE Len(e.text)
    <2>1. Len(e.text) \in Nat
      BY <1>3
    <2> QED
      BY <1>3, <1>4, <1>5, <1>7, <2>1 DEF DiscWords
  <1>9. PICK l \in Nat : e.length = l + 1 /\ l = e.length - 1
    <2>1. e.length - 1 \in Nat /\ e.length = (e.length - 1) + 1
      BY <1>3
    <2> QED
      BY <2>1
  <1>10. PICK u : u = [j \in 1 .. l |-> Zero]
    OBVIOUS
  <1>11. u \in Seq(DiscWords) /\ Len(u) = l
    BY <1>10, ZeroWord
  <1>12. Record(sectors, k) = <<w>> \o u
    BY <1>6, <1>8, <1>9, <1>10 DEF Record
  <1>13. PICK v : v = <<w>>
    OBVIOUS
  <1>14. v \in Seq(DiscWords) /\ Len(v) = 1 /\ v[1] = w
    <2> DEFINE S == DiscWords
    <2>1. w \in S
      BY <1>8
    <2> HIDE DEF S
    <2>2. v \in Seq(S) /\ Len(v) = 1 /\ v[1] = w
      BY <1>13, <2>1
    <2> QED
      BY <2>2 DEF S
  <1>15. v \o u \in Seq(DiscWords) /\ Len(v \o u) = l + 1 /\ (v \o u)[1] = w
    <2>1. v \o u \in Seq(DiscWords) /\ Links(v, u, v \o u)
      BY <1>11, <1>14, Concatenated
    <2>2. 1 \in 1 .. Len(v) /\ 1 + l = l + 1
      BY <1>14
    <2> QED
      BY <1>11, <1>14, <2>1, <2>2 DEF Links
  <1>16. Record(sectors, k) = v \o u
    BY <1>12, <1>13
  <1> QED
    BY <1>1, <1>2, <1>3, <1>6, <1>8, <1>9, <1>15, <1>16, Zenon

-----------------------------------------------------------------------------
(* The root directory and the files *)

\* The records of a sector of the root directory.
RecordsOf(sectors, d) == [k \in DOMAIN sectors[d] |-> Record(sectors, Before(sectors, d) + k)]

\* The k-th entry of a sector among all.
LEMMA EntryAt ==
  ASSUME NEW sectors, IsDisc(sectors), NEW d \in 1 .. Len(sectors), NEW k \in 1 .. Len(sectors[d])
  PROVE  /\ Before(sectors, d) \in Nat
         /\ Before(sectors, d) + k \in 1 .. Len(FlattenSeq(sectors))
         /\ FlattenSeq(sectors)[Before(sectors, d) + k] = sectors[d][k]
  <1>1. Before(sectors, d) = Start(sectors, d)
    BY DEF Before, Start
  <1>2. sectors \in Seq(Seq(DiscEntries)) /\ Len(sectors) \in Nat
    BY EntriesAre
  <1>3. /\ Start(sectors, d) + k \in 1 .. Len(FlattenSeq(sectors))
        /\ FlattenSeq(sectors)[Start(sectors, d) + k] = sectors[d][k]
    BY <1>2, FlattenedAt
  <1>4. Start(sectors, d) \in Nat
    <2>1. \A j \in 1 .. Len(sectors) + 1 : Start(sectors, j) \in Nat
      BY <1>2, Starts
    <2>2. d \in 1 .. Len(sectors) + 1
      BY <1>2
    <2> QED
      BY <2>1, <2>2
  <1> QED
    BY <1>1, <1>3, <1>4

\* The records of a sector, one by one, fit into it.
LEMMA RecordsOfAre ==
  ASSUME NEW sectors, IsDisc(sectors), NEW d \in 1 .. Len(sectors)
  PROVE  /\ RecordsOf(sectors, d) \in Seq(Seq(DiscWords))
         /\ Len(RecordsOf(sectors, d)) = Len(sectors[d]) /\ Len(sectors[d]) \in Nat
         /\ \A k \in 1 .. Len(sectors[d]) : RecordsOf(sectors, d)[k] = Record(sectors, Before(sectors, d) + k)
         /\ RootSector(sectors, d) = FlattenSeq(RecordsOf(sectors, d))
         /\ RootSector(sectors, d) \in Seq(DiscWords) /\ Len(RootSector(sectors, d)) <= SectorWords
  <1>1. sectors[d] \in Seq(DiscEntries)
    BY EntriesAre
  <1>2. PICK N \in Nat : N = Len(sectors[d]) /\ DOMAIN sectors[d] = 1 .. N
    BY <1>1
  <1>3. PICK t : t = RecordsOf(sectors, d)
    OBVIOUS
  <1>4. t = [k \in 1 .. N |-> Record(sectors, Before(sectors, d) + k)]
    BY <1>2, <1>3 DEF RecordsOf
  <1>5. PICK Q : Q = Seq(DiscWords)
    OBVIOUS
  <1>6. ASSUME NEW k \in 1 .. N PROVE Record(sectors, Before(sectors, d) + k) \in Q
    <2>1. PICK j \in 1 .. Len(FlattenSeq(sectors)) : j = Before(sectors, d) + k
      BY <1>2, EntryAt
    <2>2. Record(sectors, j) \in Seq(DiscWords)
      BY RecordIs
    <2> QED
      BY <1>5, <2>1, <2>2
  <1>7. t \in Seq(Q) /\ Len(t) = N /\ \A k \in 1 .. N : t[k] = Record(sectors, Before(sectors, d) + k)
    BY <1>4, <1>6
  <1>8. RootSector(sectors, d) = FlattenSeq(t)
    BY <1>3 DEF RootSector, RecordsOf
  <1>9. FlattenSeq(t) \in Seq(DiscWords)
    <2>1. t \in Seq(Seq(DiscWords))
      BY <1>5, <1>7
    <2> QED
      BY <2>1, FlattenType
  <1>10. Len(RootSector(sectors, d)) <= SectorWords
    <2>1. d \in DOMAIN sectors
      BY EntriesAre
    <2> QED
      BY <2>1 DEF IsDisc
  <1> QED
    BY <1>2, <1>3, <1>5, <1>7, <1>8, <1>9, <1>10

RootWord(sectors) ==
    [length |-> 1, name |-> <<>>, lba |-> PvdLba + 1, size |-> RootSize(sectors), dir |-> TRUE, pvd |-> TRUE]

\* The descriptor leads to the root directory.
LEMMA RootWordIs ==
  ASSUME NEW sectors, IsDisc(sectors)
  PROVE  /\ RootWord(sectors) \in DiscWords /\ Sectors(RootWord(sectors).size) = Len(sectors)
         /\ RootWord(sectors).lba = PvdLba + 1 /\ RootWord(sectors).pvd
  <1>1. PICK a \in Nat, b \in Nat \ {0}, p \in Nat : a = Len(sectors) /\ b = SectorWords /\ p = PvdLba
    BY EntriesAre, AtapiAssumption, IsoAssumption
  <1>2. PICK c \in Nat : c = a * b
    OBVIOUS
  <1>3. RootSize(sectors) = c
    BY <1>1, <1>2 DEF RootSize
  <1>4. Sectors(c) = a
    <2>1. c + b - 1 = a * b + (b - 1) /\ b - 1 \in 0 .. b - 1
      BY <1>2
    <2>2. (c + b - 1) \div b = a
      BY <2>1, OnlyQuotient
    <2> QED
      BY <1>1, <2>2 DEF Sectors
  <1>5. RootWord(sectors) = [length |-> 1, name |-> <<>>, lba |-> p + 1, size |-> c, dir |-> TRUE, pvd |-> TRUE]
    BY <1>1, <1>3 DEF RootWord
  <1>6. <<>> \in Seq(Int) /\ p + 1 \in Nat
    OBVIOUS
  <1> QED
    BY <1>1, <1>4, <1>5, <1>6 DEF DiscWords

DiscFiles(sectors) == FlattenSeq(FilesOf(FlattenSeq(sectors)))

\* The sectors of a disc are the volume descriptor, the root directory, the files.
Laid(sectors, d) ==
    /\ d[PvdLba] = Padded(<<RootWord(sectors)>>)
    /\ \A k \in 1 .. Len(sectors) : d[PvdLba + k] = Padded(RootSector(sectors, k))
    /\ \A k \in 1 .. Len(DiscFiles(sectors)) : d[PvdLba + Len(sectors) + k] = DiscFiles(sectors)[k]
    /\ DOMAIN d = 0 .. PvdLba + Len(sectors) + Len(DiscFiles(sectors))
    /\ \A l \in DOMAIN d : d[l] \in DiscSectors

\* The sectors of all files are sectors of a disc.
LEMMA DiscFilesAre ==
  ASSUME NEW sectors, IsDisc(sectors)
  PROVE  DiscFiles(sectors) \in Seq(DiscSectors) /\ Len(DiscFiles(sectors)) \in Nat
  <1>1. FilesOf(FlattenSeq(sectors)) \in Seq(Seq(DiscSectors))
    BY EntriesAre, FilesAre
  <1>2. DiscFiles(sectors) \in Seq(DiscSectors)
    BY <1>1, FlattenType DEF DiscFiles
  <1> QED
    BY <1>2

\* The descriptor, the root directory and the files are where they belong.
LEMMA DiscLaid ==
  ASSUME NEW sectors, IsDisc(sectors)
  PROVE  Laid(sectors, Layout(sectors))
  <1> DEFINE Q == DiscSectors
  <1>1. PICK p \in Nat, D \in Nat \ {0}, F \in Nat :
           p = PvdLba /\ D = Len(sectors) /\ F = Len(DiscFiles(sectors))
    BY EntriesAre, DiscFilesAre, IsoAssumption
  <1>2. \A w \in Seq(DiscWords) : Len(w) <= SectorWords => Padded(w) \in Q
    BY PaddedIs DEF DiscSectors
  <1>3. PICK a : a = [k \in 1 .. PvdLba |-> Padded(<<>>)]
    OBVIOUS
  <1>4. a \in Seq(Q) /\ Len(a) = p
    <2>1. <<>> \in Seq(DiscWords) /\ Len(<<>>) <= SectorWords
      BY AtapiAssumption
    <2>2. Padded(<<>>) \in Q
      BY <1>2, <2>1
    <2> HIDE DEF Q
    <2> QED
      BY <1>1, <1>3, <2>2
  <1>5. PICK x : x = Padded(<<RootWord(sectors)>>)
    OBVIOUS
  <1>6. x \in Q
    <2>1. RootWord(sectors) \in DiscWords
      BY RootWordIs
    <2>2. PICK t : t = <<RootWord(sectors)>>
      OBVIOUS
    <2> DEFINE S == DiscWords
    <2>3. t \in Seq(S) /\ Len(t) = 1
      <3> HIDE DEF S
      <3>1. RootWord(sectors) \in S
        BY <2>1 DEF S
      <3> QED
        BY <2>2, <3>1
    <2>4. 1 <= SectorWords
      BY AtapiAssumption
    <2>5. Padded(t) \in Q
      BY <1>2, <2>3, <2>4
    <2> QED
      BY <1>5, <2>2, <2>5
  <1>7. PICK b : b = <<x>>
    OBVIOUS
  <1>8. b \in Seq(Q) /\ Len(b) = 1 /\ b[1] = x
    <2> HIDE DEF Q
    <2> QED
      BY <1>6, <1>7
  <1>9. PICK c : c = [d \in DOMAIN sectors |-> Padded(RootSector(sectors, d))]
    OBVIOUS
  <1>10. c \in Seq(Q) /\ Len(c) = D /\ \A k \in 1 .. D : c[k] = Padded(RootSector(sectors, k))
    <2>1. \A k \in 1 .. D : Padded(RootSector(sectors, k)) \in Q
      BY <1>1, <1>2, RecordsOfAre
    <2>2. DOMAIN sectors = 1 .. D
      BY <1>1, EntriesAre
    <2> HIDE DEF Q
    <2> QED
      BY <1>9, <2>1, <2>2
  <1>11. PICK f : f = DiscFiles(sectors)
    OBVIOUS
  <1>12. f \in Seq(Q) /\ Len(f) = F
    BY <1>1, <1>11, DiscFilesAre
  <1>13. PICK all : all = a \o b \o c \o f
    OBVIOUS
  <1>14. Layout(sectors) = [l \in 0 .. Len(all) - 1 |-> all[l + 1]]
    <2>1. a \o b \o c \o f = [k \in 1 .. PvdLba |-> Padded(<<>>)] \o <<Padded(<<RootWord(sectors)>>)>>
             \o [d \in DOMAIN sectors |-> Padded(RootSector(sectors, d))] \o DiscFiles(sectors)
      BY <1>3, <1>5, <1>7, <1>9, <1>11, Zenon
    <2> QED
      BY <1>13, <2>1 DEF Layout, RootWord, DiscFiles, FilesOf
  <1> HIDE DEF Q
  <1>15. PICK ab \in Seq(Q) : ab = a \o b /\ Links(a, b, ab)
    BY <1>4, <1>8, Concatenated
  <1>16. PICK abc \in Seq(Q) : abc = ab \o c /\ Links(ab, c, abc)
    BY <1>10, Concatenated
  <1>17. all \in Seq(Q) /\ Links(abc, f, all)
    BY <1>12, <1>13, <1>15, <1>16, Concatenated
  <1>18. Len(ab) = p + 1 /\ Len(abc) = p + 1 + D /\ Len(all) = p + 1 + D + F
    BY <1>1, <1>4, <1>8, <1>10, <1>12, <1>15, <1>16, <1>17 DEF Links
  <1>19. all[p + 1] = x
    <2>1. ab[p + 1] = x
      <3>1. 1 \in 1 .. Len(b) /\ Len(a) + 1 = p + 1
        BY <1>4, <1>8
      <3> QED
        BY <1>8, <1>15, <3>1 DEF Links
    <2>2. p + 1 \in 1 .. Len(ab) /\ p + 1 \in 1 .. Len(abc)
      BY <1>18
    <2> QED
      BY <1>16, <1>17, <2>1, <2>2 DEF Links
  <1>20. ASSUME NEW k \in 1 .. D PROVE all[(p + k) + 1] = c[k]
    <2>1. abc[(p + 1) + k] = c[k]
      BY <1>10, <1>16, <1>18 DEF Links
    <2>2. (p + 1) + k \in 1 .. Len(abc) /\ (p + k) + 1 = (p + 1) + k
      BY <1>18
    <2>3. all[(p + 1) + k] = abc[(p + 1) + k]
      BY <1>17, <2>2 DEF Links
    <2> QED
      BY <2>1, <2>2, <2>3
  <1>21. ASSUME NEW k \in 1 .. F PROVE all[(p + D + k) + 1] = f[k]
    <2>1. all[(p + 1 + D) + k] = f[k]
      BY <1>12, <1>17, <1>18 DEF Links
    <2>2. (p + D + k) + 1 = (p + 1 + D) + k
      OBVIOUS
    <2> QED
      BY <2>1, <2>2
  <1>22. PICK d : d = Layout(sectors)
    OBVIOUS
  <1>23. DOMAIN d = 0 .. p + D + F /\ \A l \in 0 .. p + D + F : d[l] = all[l + 1] /\ d[l] \in Q
    <2>1. Len(all) - 1 = p + D + F
      BY <1>18
    <2>2. d = [l \in 0 .. p + D + F |-> all[l + 1]]
      BY <1>14, <1>22, <2>1
    <2>3. ASSUME NEW l \in 0 .. p + D + F PROVE all[l + 1] \in Q
      <3>1. l + 1 \in 1 .. Len(all)
        BY <1>18
      <3> QED
        BY <1>17, <3>1
    <2> QED
      BY <2>2, <2>3
  <1>24. d[p] = x
    <2>1. p \in 0 .. p + D + F
      OBVIOUS
    <2> QED
      BY <1>19, <1>23, <2>1
  <1>25. \A k \in 1 .. D : d[p + k] = Padded(RootSector(sectors, k))
    <2>1. \A k \in 1 .. D : p + k \in 0 .. p + D + F
      OBVIOUS
    <2> QED
      BY <1>10, <1>20, <1>23, <2>1
  <1>26. \A k \in 1 .. F : d[p + D + k] = f[k]
    <2>1. \A k \in 1 .. F : p + D + k \in 0 .. p + D + F
      OBVIOUS
    <2> QED
      BY <1>21, <1>23, <2>1
  <1> QED
    BY <1>1, <1>5, <1>11, <1>22, <1>23, <1>24, <1>25, <1>26 DEF Laid, Q

\* Every sector is a whole one.
LEMMA DiscPressed ==
  ASSUME NEW sectors, IsDisc(sectors)
  PROVE  Pressed(Layout(sectors))
  <1>1. PICK d : d = Layout(sectors)
    OBVIOUS
  <1>2. \A l \in DOMAIN d : d[l] \in DiscSectors
    BY <1>1, DiscLaid DEF Laid
  <1>3. ASSUME NEW l \in DOMAIN d PROVE d[l] \in Seq(ToSet(d[l])) /\ Len(d[l]) = SectorWords
    <2>1. PICK t \in Seq(DiscWords) : t = d[l] /\ Len(t) = SectorWords
      BY <1>2 DEF DiscSectors
    <2>2. t \in Seq(ToSet(t))
      <3> DEFINE S == DiscWords
      <3>1. t \in Seq(S)
        OBVIOUS
      <3> HIDE DEF S
      <3>2. DOMAIN t = 1 .. Len(t) /\ Len(t) \in Nat /\ t = [k \in 1 .. Len(t) |-> t[k]]
        BY <3>1
      <3>3. \A k \in 1 .. Len(t) : t[k] \in ToSet(t)
        BY <3>2 DEF ToSet
      <3>4. PICK R : R = ToSet(t)
        OBVIOUS
      <3> QED
        BY <3>2, <3>3, <3>4
    <2> QED
      BY <2>1, <2>2
  <1> QED
    BY <1>1, <1>3 DEF Pressed

\* Where the q-th sector of the k-th entry's file lies.
LEMMA FileLaid ==
  ASSUME NEW sectors, IsDisc(sectors), NEW k \in 1 .. Len(FlattenSeq(sectors)),
         ~FlattenSeq(sectors)[k].dir,
         NEW q \in Nat, q < Sectors(Len(FlattenSeq(sectors)[k].text))
  PROVE  /\ Extent(sectors, k) + q \in DOMAIN Layout(sectors)
         /\ Layout(sectors)[Extent(sectors, k) + q] = FileSectors(FlattenSeq(sectors)[k].text)[q + 1]
  <1>1. PICK e : e = FlattenSeq(sectors)
    OBVIOUS
  <1>2. e \in Seq(DiscEntries)
    BY <1>1, EntriesAre
  <1>3. PICK t : t = FilesOf(e)
    OBVIOUS
  <1>4. /\ t \in Seq(Seq(DiscSectors)) /\ Len(t) = Len(e)
        /\ t[k] = FileSectors(e[k].text) /\ Len(t[k]) = Sectors(Len(e[k].text))
    BY <1>1, <1>2, <1>3, FilesAre
  <1>5. PICK p \in Nat, D \in Nat, F \in Nat :
           p = PvdLba /\ D = Len(sectors) /\ F = Len(DiscFiles(sectors))
    BY EntriesAre, DiscFilesAre, IsoAssumption
  <1>6. q + 1 \in 1 .. Len(t[k])
    <2>1. PICK c \in Nat : c = Len(t[k])
      <3>1. k \in 1 .. Len(t)
        BY <1>1, <1>4
      <3> QED
        BY <1>4, <3>1
    <2> QED
      BY <1>1, <1>4, <2>1
  <1>7. /\ Start(t, k) + (q + 1) \in 1 .. Len(FlattenSeq(t))
        /\ FlattenSeq(t)[Start(t, k) + (q + 1)] = t[k][q + 1]
    BY <1>1, <1>4, <1>6, FlattenedAt
  <1>8. PICK s0 \in Nat : s0 = Start(t, k)
    <2>1. \A j \in 1 .. Len(t) + 1 : Start(t, j) \in Nat
      BY <1>4, Starts
    <2>2. k \in 1 .. Len(t) + 1
      <3>1. Len(t) \in Nat
        BY <1>4
      <3> QED
        BY <1>1, <1>4, <3>1
    <2> QED
      BY <2>1, <2>2
  <1>9. Extent(sectors, k) = p + 1 + D + s0
    BY <1>1, <1>2, <1>3, <1>5, <1>8, ExtentIs
  <1>10. FlattenSeq(t) = DiscFiles(sectors)
    BY <1>1, <1>3 DEF DiscFiles
  <1>11. PICK j \in 1 .. F : j = s0 + (q + 1) /\ DiscFiles(sectors)[j] = t[k][q + 1]
    BY <1>5, <1>7, <1>8, <1>10
  <1>12. /\ Layout(sectors)[p + D + j] = DiscFiles(sectors)[j]
         /\ DOMAIN Layout(sectors) = 0 .. p + D + F
    BY <1>5, DiscLaid DEF Laid
  <1>13. Extent(sectors, k) + q = p + D + j
    BY <1>9, <1>11
  <1>14. p + D + j \in 0 .. p + D + F
    OBVIOUS
  <1>15. Extent(sectors, k) + q \in DOMAIN Layout(sectors)
    BY <1>12, <1>13, <1>14, Zenon
  <1>16. Layout(sectors)[Extent(sectors, k) + q] = t[k][q + 1]
    BY <1>11, <1>12, <1>13, Zenon
  <1> QED
    BY <1>1, <1>4, <1>15, <1>16, Zenon

\* Stepping through the records of a sector: where it ends, and what it takes up.
SectorEnds(x) == {o \in Nat \ {0} : o > SectorWords \/ x[o].length = 0}

Takes(x, f) ==
    \A o \in Nat \ {0} :
        f[o] = IF o \in SectorEnds(x) THEN <<>> ELSE <<x[o]>> \o f[o + x[o].length]

\* Records is such a walk.
LEMMA RecordsRun ==
  ASSUME NEW x \in DiscSectors
  PROVE  \E f \in [Nat \ {0} -> Seq(DiscWords)] : Takes(x, f) /\ Records(x) = f[1]
  <1> DEFINE D == Nat \ {0}
             S == DiscWords
             V == Seq(S)
             Stop == SectorEnds(x)
             rank == [o \in D |-> IF o > SectorWords THEN 0 ELSE SectorWords + 1 - o]
             next == [o \in D |-> IF o \in Stop THEN o ELSE o + x[o].length]
             base0 == [o \in D |-> <<>>]
             step == [p \in D \X V |-> IF p[1] \in Stop THEN <<>> ELSE <<x[p[1]]>> \o p[2]]
             Solves(g) == g = [o \in D |-> IF o > SectorWords \/ x[o].length = 0 THEN <<>>
                                           ELSE <<x[o]>> \o g[o + x[o].length]]
             from == CHOOSE g : Solves(g)
  <1>1. Records(x) = from[1]
    BY DEF Records
  <1>2. PICK w \in Nat \ {0} : w = SectorWords
    BY AtapiAssumption
  <1>3. \A o \in D : o \notin Stop => o <= w /\ x[o] \in S /\ x[o].length \in D
    <2> SUFFICES ASSUME NEW o \in D, o \notin Stop PROVE o <= w /\ x[o] \in S /\ x[o].length \in D
      OBVIOUS
    <2>1. ~(o > SectorWords) /\ x[o].length # 0
      BY DEF SectorEnds
    <2>2. x \in Seq(S) /\ Len(x) = w
      BY <1>2 DEF DiscSectors
    <2>3. o \in 1 .. Len(x)
      BY <1>2, <2>1, <2>2
    <2>4. x[o] \in S
      <3> HIDE DEF S
      <3> QED
        BY <2>2, <2>3
    <2>5. x[o].length \in Nat
      BY <2>4 DEF DiscWords
    <2> QED
      BY <1>2, <2>1, <2>4, <2>5
  <1> HIDE DEF Stop, S
  <1>4. /\ rank \in [D -> Nat] /\ next \in [D -> D] /\ Descends(D, rank, Stop, next)
    <2>1. rank \in [D -> Nat]
      BY <1>2
    <2>2. next \in [D -> D]
      <3> SUFFICES ASSUME NEW o \in D PROVE (IF o \in Stop THEN o ELSE o + x[o].length) \in D
        OBVIOUS
      <3>1. CASE o \in Stop
        BY <3>1
      <3>2. CASE o \notin Stop
        <4>1. x[o].length \in D
          BY <1>3, <3>2
        <4> QED
          BY <3>2, <4>1
      <3> QED
        BY <3>1, <3>2
    <2>3. ASSUME NEW o \in D, o \notin Stop PROVE rank[next[o]] < rank[o]
      <3>1. PICK l \in D : l = x[o].length /\ o <= w
        BY <1>3, <2>3
      <3>2. next[o] = o + l /\ o + l \in D
        BY <2>3, <3>1
      <3> HIDE DEF next
      <3>3. rank[o] = w + 1 - o
        BY <1>2, <3>1
      <3>4. rank[o + l] = IF o + l > w THEN 0 ELSE w + 1 - (o + l)
        BY <1>2, <3>2
      <3> HIDE DEF rank
      <3> QED
        BY <3>1, <3>2, <3>3, <3>4
    <2> HIDE DEF rank, next
    <2> QED
      BY <2>1, <2>2, <2>3 DEF Descends
  <1>5. base0 \in [D -> V]
    OBVIOUS
  <1>6. step \in [D \X V -> V]
    <2> SUFFICES ASSUME NEW o \in D, NEW v \in V PROVE (IF o \in Stop THEN <<>> ELSE <<x[o]>> \o v) \in V
      OBVIOUS
    <2>1. CASE o \in Stop
      BY <2>1
    <2>2. CASE o \notin Stop
      <3>1. PICK y \in S : y = x[o]
        BY <1>3, <2>2
      <3> QED
        BY <2>2, <3>1
    <2> QED
      BY <2>1, <2>2
  <1>7. PICK f \in [D -> V] : Recurs(D, Stop, next, base0, step, f)
    <2> HIDE DEF D, V, rank, next, base0, step, Solves, from
    <2> QED
      BY <1>4, <1>5, <1>6, Recursion
  <1>8. ASSUME NEW o \in D PROVE f[o] = IF o \in Stop THEN <<>> ELSE <<x[o]>> \o f[o + x[o].length]
    <2>1. f[o] = IF o \in Stop THEN base0[o] ELSE step[<<o, f[next[o]]>>]
      BY <1>7 DEF Recurs
    <2>2. CASE o \in Stop
      BY <2>1, <2>2
    <2>3. CASE o \notin Stop
      <3>1. PICK n1 \in D : n1 = o + x[o].length
        BY <1>3, <2>3
      <3>2. next[o] = n1
        BY <2>3, <3>1
      <3>3. <<o, f[n1]>> \in D \X V
        BY <1>7
      <3> HIDE DEF next, V
      <3>4. step[<<o, f[n1]>>] = <<x[o]>> \o f[n1]
        BY <2>3, <3>3
      <3> HIDE DEF step
      <3> QED
        BY <2>1, <2>3, <3>1, <3>2, <3>4
    <2> QED
      BY <2>2, <2>3
  <1>9. \A o \in D : o \in Stop <=> (o > SectorWords \/ x[o].length = 0)
    BY DEF Stop, SectorEnds
  <1>10. Solves(f)
    <2>1. f = [o \in D |-> f[o]]
      BY <1>7
    <2> QED
      BY <1>8, <1>9, <2>1
  <1>11. Solves(from)
    <2> HIDE DEF Solves
    <2> QED
      BY <1>10
  <1> HIDE DEF from
  <1>12. ASSUME NEW o \in D PROVE from[o] = IF o \in Stop THEN <<>> ELSE <<x[o]>> \o from[o + x[o].length]
    BY <1>9, <1>11
  <1>13. DOMAIN from = D /\ from = [o \in D |-> from[o]]
    BY <1>11
  <1> DEFINE T == {o \in D : from[o] \in V}
  <1>14. ASSUME NEW o \in D, \A e \in D : rank[e] < rank[o] => e \in T PROVE o \in T
    <2>1. CASE o \in Stop
      <3>1. from[o] = <<>>
        BY <1>12, <2>1
      <3>2. <<>> \in Seq(S)
        OBVIOUS
      <3> QED
        BY <3>1, <3>2
    <2>2. CASE o \notin Stop
      <3>1. PICK n1 \in D : n1 = o + x[o].length /\ n1 = next[o]
        BY <1>3, <2>2
      <3>2. rank[n1] < rank[o]
        BY <1>4, <2>2, <3>1 DEF Descends
      <3>3. from[n1] \in V
        BY <1>14, <3>2
      <3>4. PICK y \in S : y = x[o]
        BY <1>3, <2>2
      <3>5. from[o] = <<y>> \o from[n1]
        BY <1>12, <2>2, <3>1, <3>4
      <3>6. <<y>> \o from[n1] \in Seq(S)
        BY <3>3
      <3> QED
        BY <3>5, <3>6
    <2> QED
      BY <2>1, <2>2
  <1>15. D \subseteq T
    <2> HIDE DEF T, D, rank
    <2> QED
      BY <1>4, <1>14, ByRank
  <1>16. from \in [D -> V]
    BY <1>13, <1>15
  <1> QED
    BY <1>1, <1>12, <1>16 DEF Takes, Stop, S

\* What the code finds in a sector are the records that have been written there.
RecordsAt(sectors, d) == [k \in 1 .. Len(sectors[d]) |-> RecordWord(sectors, Before(sectors, d) + k)]

\* There are as many as the sector has entries.
LEMMA RecordsAtAre ==
  ASSUME NEW sectors, IsDisc(sectors), NEW d \in 1 .. Len(sectors)
  PROVE  /\ RecordsAt(sectors, d) \in Seq(DiscWords) /\ Len(RecordsAt(sectors, d)) = Len(sectors[d])
         /\ \A k \in 1 .. Len(sectors[d]) :
               RecordsAt(sectors, d)[k] = RecordWord(sectors, Before(sectors, d) + k)
  <1>1. PICK N \in Nat : N = Len(sectors[d])
    BY RecordsOfAre
  <1>2. ASSUME NEW k \in 1 .. N PROVE RecordWord(sectors, Before(sectors, d) + k) \in DiscWords
    <2>1. PICK j \in 1 .. Len(FlattenSeq(sectors)) : j = Before(sectors, d) + k
      BY <1>1, EntryAt
    <2>2. RecordWord(sectors, j) \in DiscWords
      BY RecordIs
    <2> QED
      BY <2>1, <2>2
  <1>3. PICK S : S = DiscWords
    OBVIOUS
  <1>4. PICK t : t = [k \in 1 .. N |-> RecordWord(sectors, Before(sectors, d) + k)]
    OBVIOUS
  <1>5. t \in Seq(S) /\ Len(t) = N /\ \A k \in 1 .. N : t[k] = RecordWord(sectors, Before(sectors, d) + k)
    BY <1>2, <1>3, <1>4
  <1> QED
    BY <1>1, <1>3, <1>4, <1>5 DEF RecordsAt

\* Stepping through a sector of the root directory takes up its records, and no
\* other words.
LEMMA RecordsRead ==
  ASSUME NEW sectors, IsDisc(sectors), NEW d \in 1 .. Len(sectors)
  PROVE  Records(Padded(RootSector(sectors, d))) = RecordsAt(sectors, d)
  <1> DEFINE x == Padded(RootSector(sectors, d))
             t == RecordsOf(sectors, d)
             u == RecordsAt(sectors, d)
             P(k) == Start(t, k) + 1
  <1>1. PICK N \in Nat : N = Len(sectors[d])
    BY RecordsOfAre
  <1>2. PICK w \in Nat \ {0} : w = SectorWords
    BY AtapiAssumption
  <1>3. PICK S : S = DiscWords
    OBVIOUS
  <1>4. u \in Seq(S) /\ Len(u) = N
    BY <1>1, <1>3, RecordsAtAre
  <1>5. t \in Seq(Seq(S)) /\ Len(t) = N
    BY <1>1, <1>3, RecordsOfAre
  <1>6. PICK ws \in Seq(S) : ws = FlattenSeq(t) /\ ws = RootSector(sectors, d) /\ Len(ws) <= w
    BY <1>2, <1>3, RecordsOfAre
  <1>7. PICK L \in Nat : L = Len(ws) /\ L <= w
    BY <1>6
  <1>8. /\ x \in DiscSectors
        /\ \A j \in 1 .. w : x[j] = IF j <= L THEN ws[j] ELSE Zero
    BY <1>2, <1>3, <1>6, <1>7, PaddedIs DEF DiscSectors
  <1>9. PICK f : Takes(x, f) /\ Records(x) = f[1]
    <2> HIDE DEF x
    <2> QED
      BY <1>8, RecordsRun
  <1>10. /\ Start(t, 1) = 0 /\ Start(t, N + 1) = L
         /\ \A k \in 1 .. N + 1 : Start(t, k) \in Nat
         /\ \A k \in 1 .. N : Len(t[k]) \in Nat /\ Start(t, k + 1) = Start(t, k) + Len(t[k])
    <2> HIDE DEF t
    <2> QED
      BY <1>5, <1>6, <1>7, Starts
  <1>11. f[P(N + 1)] = <<>>
    <2>1. PICK o \in Nat \ {0} : o = P(N + 1) /\ o = L + 1
      BY <1>10
    <2>2. o > w \/ x[o] = Zero
      <3>1. CASE o <= w
        <4>1. o \in 1 .. w /\ ~(o <= L)
          BY <2>1, <3>1
        <4> HIDE DEF x
        <4> QED
          BY <1>8, <4>1
      <3>2. CASE ~(o <= w)
        BY <3>2
      <3> QED
        BY <3>1, <3>2
    <2>3. o \in SectorEnds(x)
      <3> HIDE DEF x
      <3> QED
        BY <1>2, <2>2 DEF SectorEnds, Zero
    <2> HIDE DEF x, P
    <2> QED
      BY <1>9, <2>1, <2>3 DEF Takes
  <1>12. ASSUME NEW k \in 1 .. N PROVE f[P(k)] = <<u[k]>> \o f[P(k + 1)]
    <2>1. PICK j \in 1 .. Len(FlattenSeq(sectors)) : j = Before(sectors, d) + k
      BY <1>1, EntryAt
    <2>2. t[k] = Record(sectors, j)
      BY <1>1, <2>1, RecordsOfAre
    <2>3. u[k] = RecordWord(sectors, j)
      BY <1>1, <2>1, RecordsAtAre
    <2>4. PICK l \in Nat \ {0} : l = Len(t[k]) /\ RecordWord(sectors, j).length = l /\ t[k][1] = u[k]
      BY <2>2, <2>3, RecordIs
    <2>5. PICK o \in Nat \ {0} : o = P(k) /\ P(k + 1) = o + l
      <3>1. k \in 1 .. N + 1
        OBVIOUS
      <3> HIDE DEF t
      <3>2. PICK m \in Nat : m = Start(t, k)
        BY <1>10, <3>1
      <3>3. Start(t, k + 1) = m + l
        BY <1>10, <2>4, <3>2
      <3>4. P(k) = m + 1 /\ P(k + 1) = m + l + 1
        BY <3>2, <3>3
      <3>5. m + 1 \in Nat \ {0} /\ m + l + 1 = (m + 1) + l
        OBVIOUS
      <3> HIDE DEF P
      <3> QED
        BY <3>4, <3>5
    <2>6. o \in 1 .. L /\ ws[o] = t[k][1]
      <3>1. k \in 1 .. Len(t) /\ 1 \in 1 .. Len(t[k])
        BY <1>5, <2>4
      <3> HIDE DEF t
      <3>2. PICK i1 \in 1 .. Len(t[k]) : i1 = 1
        BY <3>1
      <3>3. Start(t, k) + i1 \in 1 .. Len(FlattenSeq(t)) /\ FlattenSeq(t)[Start(t, k) + i1] = t[k][i1]
        BY <1>5, <3>1, FlattenedAt
      <3>4. o = Start(t, k) + i1
        BY <2>5, <3>2
      <3> QED
        BY <1>6, <1>7, <3>2, <3>3, <3>4
    <2>7. x[o] = u[k] /\ o <= w
      <3>1. o \in 1 .. w /\ o <= L
        BY <1>7, <2>6
      <3> HIDE DEF x
      <3> QED
        BY <1>8, <2>4, <2>6, <3>1
    <2>8. o \notin SectorEnds(x)
      <3>1. u[k].length = l
        BY <2>3, <2>4
      <3> HIDE DEF x, u
      <3> QED
        BY <1>2, <2>7, <3>1 DEF SectorEnds
    <2>9. x[o].length = l
      BY <2>3, <2>4, <2>7
    <2> HIDE DEF x, u, P
    <2> QED
      BY <1>9, <2>5, <2>7, <2>8, <2>9 DEF Takes
  <1> HIDE DEF P, x, u
  <1> DEFINE T == {j \in Nat : j <= N => f[P(N + 1 - j)] = SubSeq(u, N + 1 - j, N)}
  <1>13. 0 \in T
    <2>1. SubSeq(u, N + 1, N) = <<>> /\ N + 1 - 0 = N + 1
      BY <1>4
    <2> QED
      BY <1>11, <2>1
  <1>14. ASSUME NEW j \in Nat, j \in T PROVE j + 1 \in T
    <2> SUFFICES ASSUME j + 1 <= N PROVE f[P(N + 1 - (j + 1))] = SubSeq(u, N + 1 - (j + 1), N)
      OBVIOUS
    <2>1. PICK k \in 1 .. N : k = N + 1 - (j + 1) /\ N + 1 - j = k + 1
      OBVIOUS
    <2>2. f[P(k + 1)] = SubSeq(u, k + 1, N)
      BY <1>14, <2>1
    <2>3. <<u[k]>> \o SubSeq(u, k + 1, N) = SubSeq(u, k, N)
      BY <1>4, HeadAndRest
    <2> QED
      BY <1>12, <2>1, <2>2, <2>3
  <1>15. Nat \subseteq T
    <2> HIDE DEF T
    <2> QED
      BY <1>13, <1>14, ByNumber
  <1>16. f[P(1)] = SubSeq(u, 1, N)
    <2>1. N \in T /\ N + 1 - N = 1
      BY <1>15
    <2> QED
      BY <2>1
  <1>17. P(1) = 1
    BY <1>10 DEF P
  <1>18. SubSeq(u, 1, N) = u
    BY <1>4
  <1> QED
    BY <1>9, <1>16, <1>17, <1>18 DEF x, u

\* What comes before a character is the beginning.
LEMMA FoundIn ==
  ASSUME NEW t \in Seq(Int), NEW c
  PROVE  Find(t, c) \in 1 .. Len(t) + 1
  <1> DEFINE I0 == {k \in 1 .. Len(t) : t[k] = c}
  <1>1. Len(t) \in Nat
    OBVIOUS
  <1>2. CASE Contains(t, c)
    <2>1. I0 \subseteq Nat /\ I0 # {}
      BY <1>2 DEF Contains
    <2>2. Min(I0) \in I0
      <3> HIDE DEF I0
      <3> QED
        BY <2>1, MinNumber
    <2>3. SelectInSeq(t, LAMBDA x : x = c) = IF I0 # {} THEN Min(I0) ELSE 0
      BY DEF SelectInSeq
    <2>5. SelectInSeq(t, LAMBDA x : x = c) \in I0
      <3> HIDE DEF I0
      <3> QED
        BY <2>1, <2>2, <2>3
    <2>4. Find(t, c) \in 1 .. Len(t)
      BY <1>2, <2>5 DEF Find
    <2> QED
      BY <1>1, <2>4
  <1>3. CASE ~Contains(t, c)
    <2>1. Find(t, c) = Len(t) + 1
      BY <1>3 DEF Find
    <2> QED
      BY <1>1, <2>1
  <1> QED
    BY <1>2, <1>3

\* A name without its version.
Stem(nm) == SubSeq(nm, 1, Find(nm, SEMI) - 1)

\* It is how the name begins.
LEMMA StemIs ==
  ASSUME NEW nm \in Seq(Int)
  PROVE  /\ Stem(nm) \in Seq(Int) /\ Len(Stem(nm)) <= Len(nm)
         /\ \A k \in 1 .. Len(Stem(nm)) : Stem(nm)[k] = nm[k]
  <1>1. PICK m \in Nat : m = Find(nm, SEMI) - 1 /\ m <= Len(nm)
    <2>1. PICK c \in 1 .. Len(nm) + 1 : c = Find(nm, SEMI)
      BY FoundIn
    <2>2. c - 1 \in Nat /\ c - 1 <= Len(nm)
      OBVIOUS
    <2> QED
      BY <2>1, <2>2
  <1>2. /\ SubSeq(nm, 1, m) \in Seq(Int) /\ Len(SubSeq(nm, 1, m)) = m
        /\ \A k \in 1 .. m : SubSeq(nm, 1, m)[k] = nm[k]
    BY <1>1
  <1> QED
    BY <1>1, <1>2 DEF Stem

\* The comparison with the target's NUL is one with the target, for a target
\* that is not empty and a name that is more than one character and has no NUL.
LEMMA NameMatches ==
  ASSUME NEW t \in Seq(Int), t # <<>>, NEW nm \in Seq(Int), Len(nm) > 1 => ~Contains(nm, NUL)
  PROVE  filename_match(t, nm) <=> Begins(t, Stem(nm))
  <1>1. PICK p \in Seq(Int) : p = Stem(nm)
    BY StemIs
  <1>2. PICK u \in Seq(Int) : u = Append(t, NUL)
    <2>1. PICK z \in Int : z = NUL
      BY TextAssumption
    <2>2. Append(t, z) \in Seq(Int)
      OBVIOUS
    <2> QED
      BY <2>1, <2>2
  <1>3. PICK L \in Nat \ {0} : L = Len(t)
    <2>1. Len(t) \in Nat /\ Len(t) # 0
      OBVIOUS
    <2> QED
      BY <2>1
  <1>4. Len(u) = L + 1 /\ u[L + 1] = NUL /\ \A k \in 1 .. L : u[k] = t[k]
    BY <1>2, <1>3
  <1>5. PICK K \in Nat : K = Len(p)
    OBVIOUS
  <1>6. filename_match(t, nm) <=> IsPrefix(p, u)
    BY <1>1, <1>2 DEF filename_match, Stem
  <1>7. IsPrefix(p, u) <=> K <= L + 1 /\ \A k \in 1 .. K : p[k] = u[k]
    <2>1. SubSeq(p, 1, Len(p)) = p
      OBVIOUS
    <2>2. K <= L + 1 => /\ SubSeq(u, 1, K) \in Seq(Int) /\ Len(SubSeq(u, 1, K)) = K
                        /\ \A k \in 1 .. K : SubSeq(u, 1, K)[k] = u[k]
      BY <1>4
    <2>3. K <= L + 1 => (p = SubSeq(u, 1, K) <=> \A k \in 1 .. K : p[k] = u[k])
      BY <1>5, <2>2
    <2> QED
      BY <1>4, <1>5, <2>1, <2>3 DEF IsPrefix
  <1>8. IsPrefix(p, t) <=> K <= L /\ \A k \in 1 .. K : p[k] = t[k]
    <2>1. SubSeq(p, 1, Len(p)) = p
      OBVIOUS
    <2>2. K <= L => /\ SubSeq(t, 1, K) \in Seq(Int) /\ Len(SubSeq(t, 1, K)) = K
                    /\ \A k \in 1 .. K : SubSeq(t, 1, K)[k] = t[k]
      BY <1>3
    <2>3. K <= L => (p = SubSeq(t, 1, K) <=> \A k \in 1 .. K : p[k] = t[k])
      BY <1>5, <2>2
    <2> QED
      BY <1>3, <1>5, <2>1, <2>3 DEF IsPrefix
  <1>9. ~(K = L + 1 /\ p[L + 1] = NUL)
    <2> SUFFICES ASSUME K = L + 1, p[L + 1] = NUL PROVE FALSE
      OBVIOUS
    <2>1. Len(nm) \in Nat /\ L + 1 <= Len(nm) /\ nm[L + 1] = NUL
      BY <1>1, <1>5, StemIs
    <2>2. Len(nm) > 1 /\ L + 1 \in 1 .. Len(nm)
      BY <2>1
    <2> QED
      BY <2>1, <2>2 DEF Contains
  <1>10. IsPrefix(p, u) <=> IsPrefix(p, t)
    <2>1. ASSUME K <= L PROVE (\A k \in 1 .. K : p[k] = u[k]) <=> \A k \in 1 .. K : p[k] = t[k]
      <3>1. \A k \in 1 .. K : k \in 1 .. L
        BY <2>1
      <3> QED
        BY <1>4, <3>1
    <2>2. ASSUME K = L + 1 PROVE ~(\A k \in 1 .. K : p[k] = u[k])
      <3>1. L + 1 \in 1 .. K
        BY <2>2
      <3> QED
        BY <1>4, <1>9, <2>2, <3>1
    <2>3. K <= L \/ K = L + 1 \/ ~(K <= L + 1)
      OBVIOUS
    <2> QED
      BY <1>7, <1>8, <2>1, <2>2, <2>3
  <1> QED
    BY <1>1, <1>6, <1>10 DEF Begins

\* The characters of a file's words are its text.
LEMMA TextsOf ==
  ASSUME NEW text \in Seq(Int), NEW ws, NEW S, ws \in Seq(S), Len(ws) = Len(text),
         \A k \in 1 .. Len(text) : ws[k] = TextWord(text[k])
  PROVE  Texts(ws) = text
  <1>1. PICK L \in Nat : L = Len(text) /\ DOMAIN ws = 1 .. L
    OBVIOUS
  <1>2. [k \in DOMAIN ws |-> ws[k].name] = [k \in 1 .. L |-> <<text[k]>>]
    <2>1. \A k \in 1 .. L : ws[k].name = <<text[k]>>
      BY <1>1, TextWordIs
    <2> QED
      BY <1>1, <2>1
  <1>3. FlattenSeq([k \in 1 .. L |-> <<text[k]>>]) = text
    BY <1>1, Singles
  <1> QED
    BY <1>2, <1>3 DEF Texts

-----------------------------------------------------------------------------
(* Where the main program is, and with it the driver and the loader *)

\* The places of atapi_read_sector, the one it returns from included.
Reading == {"select", "command", "offer", "send", "settle", "ready", "data", "return"}

Waiting == {"pvd", "record", "content", "check", "list"}

\* The loops of class_execute.
Loops == {"malloc", "pool", "header", "fields", "field", "skip", "methods", "method",
          "attribute", "done", "returned"}

Where ==
    /\ main \in {"initrd", "config", "mount", "answered", "ls", "cat", "java", "class"}
    /\ main \in {"initrd", "config"} => pc = "off"
    /\ main = "mount" => pc \in {"probe", "scan", "mounted"}
    /\ main \in {"answered", "java", "class"} => pc = "idle"
    /\ main \in {"ls", "cat"} => \/ fs = "idle" /\ pc = "idle"
                                 \/ fs \in Waiting /\ pc \in Reading
    /\ main \notin {"ls", "cat"} => fs = "idle"
    /\ at \in Loops \union {"idle"}
    /\ main = "class" <=> at # "idle"

\* The loader goes from one of its loops to another.
LEMMA WalkStays == Walk => at \in Loops /\ at' \in Loops
  <1>1. Allocated => at \in Loops /\ at' \in Loops
    BY DEF Allocated, Loops
  <1>2. PoolEntry => at \in Loops /\ at' \in Loops
    BY DEF PoolEntry, Loops
  <1>3. PoolDone \/ Header \/ Fields => at \in Loops /\ at' \in Loops
    BY DEF PoolDone, Header, Fields, Part, Loops
  <1>4. Field \/ FieldAttribute \/ Methods => at \in Loops /\ at' \in Loops
    BY DEF Field, FieldAttribute, Methods, Part, Loops
  <1>5. Method \/ MethodAttribute \/ Done => at \in Loops /\ at' \in Loops
    BY DEF Method, MethodAttribute, Done, Part, Loops
  <1> QED
    BY <1>1, <1>2, <1>3, <1>4, <1>5 DEF Walk

\* A sector that has come back is followed by another call or by the end of
\* the function.
LEMMA IsoMoves ==
  IsoStep => /\ fs \in Waiting /\ pc = "return"
             /\ \/ fs' = "idle" /\ pc' = "idle"
                \/ fs' \in Waiting /\ pc' = "select"
  <1>1. FindRoot => fs = "pvd" /\ pc = "return" /\ fs' = "record" /\ pc' = "select"
    BY DEF FindRoot, Back, Call, Read
  <1>2. FindRecord => /\ fs = "record" /\ pc = "return"
                      /\ \/ fs' = "idle" /\ pc' = "idle"
                         \/ fs' = "content" /\ pc' = "select"
    BY DEF FindRecord, Back, NextSector, Call, Read, Return
  <1>3. ReadContent => /\ fs = "content" /\ pc = "return"
                       /\ \/ fs' = "idle" /\ pc' = "idle"
                          \/ fs' = "content" /\ pc' = "select"
    BY DEF ReadContent, Back, NextSector, Call, Read, Return
  <1>4. ListRoot => /\ fs = "check" /\ pc = "return"
                    /\ \/ fs' = "idle" /\ pc' = "idle"
                       \/ fs' = "list" /\ pc' = "select"
    BY DEF ListRoot, Back, Call, Read, Return
  <1>5. ListSector => /\ fs = "list" /\ pc = "return"
                      /\ \/ fs' = "idle" /\ pc' = "idle"
                         \/ fs' = "list" /\ pc' = "select"
    BY DEF ListSector, Back, Call, Read, Return
  <1> QED
    BY <1>1, <1>2, <1>3, <1>4, <1>5 DEF IsoStep, Waiting

\* The driver goes on inside the scan, or inside the read, it is in.
LEMMA DriverMoves ==
  Driver => \/ pc = "probe" /\ pc' = "scan"
            \/ pc = "scan" /\ pc' \in {"probe", "mounted"}
            \/ pc \in Reading /\ pc' \in Reading
  <1>1. Probe => pc = "probe" /\ pc' = "scan"
    BY DEF Probe
  <1>2. Scan => pc = "scan" /\ pc' \in {"probe", "mounted"}
    BY DEF Scan
  <1>3. Select \/ Command \/ Offer \/ Settle \/ Ready => pc \in Reading /\ pc' \in Reading
    BY DEF Select, Command, Offer, Settle, Ready, Reading
  <1>4. Send \/ Data => pc \in Reading /\ pc' \in Reading
    BY DEF Send, Data, Reading
  <1> QED
    BY <1>1, <1>2, <1>3, <1>4 DEF Driver, atapi_read_sector

\* The main program is where it is supposed to be, after every step.
LEMMA WhereStep == Where /\ [Next]_vars => Where'
  <1> SUFFICES ASSUME Where, [Next]_vars PROVE Where'
    OBVIOUS
  <1>1. CASE Ls
    <2>1. CASE fs_ready = 1
      BY <1>1, <2>1 DEF Ls, Enter, iso_list_directory, Call, Read, Where, Waiting, Reading,
                        classVars
    <2>2. CASE fs_ready # 1
      BY <1>1, <2>2 DEF Ls, Enter, NoDisc, Where, classVars, driverVars, isoVars
    <2> QED
      BY <2>1, <2>2
  <1>2. ASSUME NEW name, Cat(name) PROVE Where'
    BY <1>2 DEF Cat, Enter, iso9660_read_file, Call, Read, NoDisc, Where, Waiting, Reading,
                classVars, driverVars, isoVars
  <1>3. ASSUME NEW name, Java(name) PROVE Where'
    BY <1>3 DEF Java, Enter, NoDisc, Where, driverVars, isoVars
  <1>4. CASE LoadInitrd
    BY <1>4 DEF LoadInitrd, Where, classVars, driverVars, isoVars
  <1>5. CASE ReadConfig
    BY <1>5 DEF ReadConfig, iso9660_mount, Where, classVars, isoVars
  <1>6. CASE DriverStep
    <2>1. UNCHANGED <<main, fs, at>>
      BY <1>6 DEF DriverStep, classVars, isoVars
    <2> QED
      BY <2>1, <1>6, DriverMoves DEF DriverStep, Where, Reading
  <1>7. CASE Mounted
    BY <1>7 DEF Mounted, Where, classVars, isoVars
  <1>8. CASE DiscStep
    <2>1. UNCHANGED <<main, at>>
      BY <1>8 DEF DiscStep, classVars
    <2> QED
      BY <2>1, <1>8, IsoMoves DEF DiscStep, Where, Reading, Waiting
  <1>9. CASE DiscAnswers
    BY <1>9 DEF DiscAnswers, Where, Waiting, classVars, driverVars, isoVars
  <1>10. CASE Execute
    BY <1>10 DEF Execute, class_execute, Where, Loops, classVars, driverVars, isoVars
  <1>11. CASE ClassStep
    <2>1. UNCHANGED <<main, pc, fs>>
      BY <1>11 DEF ClassStep, mainVars, atapiVars, driverVars, isoVars
    <2> QED
      BY <2>1, <1>11, WalkStays DEF ClassStep, Where, Loops
  <1>12. CASE JavaReturns
    BY <1>12 DEF JavaReturns, Where, driverVars, isoVars
  <1>13. CASE Drive /\ UNCHANGED <<mainVars, isoVars, classVars>>
    BY <1>13 DEF Drive, Where, mainVars, isoVars, classVars, driverVars
  <1>14. CASE UNCHANGED vars
    BY <1>14 DEF vars, Where, mainVars, isoVars, classVars, atapiVars, driverVars
  <1> QED
    BY <1>1, <1>2, <1>3, <1>4, <1>5, <1>6, <1>7, <1>8, <1>9, <1>10, <1>11, <1>12, <1>13, <1>14
       DEF Next, Work, execute_command

\* The main program, the driver and the loader are never in places that do
\* not go together: a disc is read only for ls and cat, a class is loaded only
\* for java, and a command starts only when the one before has left both.
THEOREM FilesWhere == Spec => []Where
  <1>1. Init => Where
    BY DEF Init, AtapiInit, IsoInit, ClassInit, Where
  <1>2. Where /\ [Next]_vars => Where'
    BY WhereStep
  <1> QED
    BY <1>1, <1>2, PTL DEF Spec

-----------------------------------------------------------------------------
(* The loader and the heap *)

loaderVars == <<heapVars, data, off, at, cp, cp_count, n, attrs, method>>

\* A step is a step of the loader, or leaves it alone.
LEMMA LoaderMoves ==
  [Next]_vars => \/ UNCHANGED loaderVars
                 \/ main = "java" /\ opened # <<>> /\ class_execute(opened[1])
                 \/ Walk
                 \/ JavaReturns
  <1> SUFFICES ASSUME [Next]_vars, ~UNCHANGED loaderVars
               PROVE  \/ main = "java" /\ opened # <<>> /\ class_execute(opened[1])
                      \/ Walk
                      \/ JavaReturns
    OBVIOUS
  <1>1. CASE Ls
    BY <1>1 DEF Ls, classVars, loaderVars
  <1>2. ASSUME NEW name, Cat(name) PROVE FALSE
    BY <1>2 DEF Cat, classVars, loaderVars
  <1>3. ASSUME NEW name, Java(name) PROVE FALSE
    BY <1>3 DEF Java, loaderVars
  <1>4. CASE LoadInitrd \/ ReadConfig \/ DriverStep \/ Mounted \/ DiscStep \/ DiscAnswers
    BY <1>4 DEF LoadInitrd, ReadConfig, DriverStep, Mounted, DiscStep, DiscAnswers, classVars,
                loaderVars
  <1>5. CASE Execute
    BY <1>5 DEF Execute, classVars, loaderVars
  <1>6. CASE ClassStep
    BY <1>6 DEF ClassStep
  <1>7. CASE (Drive /\ UNCHANGED <<mainVars, isoVars, classVars>>) \/ UNCHANGED vars
    BY <1>7 DEF vars, classVars, loaderVars
  <1> QED
    BY <1>1, <1>2, <1>3, <1>4, <1>5, <1>6, <1>7 DEF Next, Work, execute_command

\* The places where the loader holds no pool.
Empty_handed == {"idle", "malloc", "returned"}

Held ==
    /\ at \in Loops \union {"idle"}
    /\ at \in Empty_handed => live = {}
    /\ at \notin Empty_handed => \E b : live = {b}

\* The loops between the allocation and kfree leave the heap alone.
LEMMA WalkKeeps ==
  Walk => Allocated \/ Done \/ (/\ UNCHANGED heapVars
                                /\ at \in Loops \ Empty_handed /\ at' \in Loops \ {"malloc"}
                                /\ at' # "returned")
  <1> SUFFICES ASSUME Walk, ~Allocated, ~Done
               PROVE  /\ UNCHANGED heapVars
                      /\ at \in Loops \ Empty_handed /\ at' \in Loops \ {"malloc"}
                      /\ at' # "returned"
    OBVIOUS
  <1>1. CASE PoolEntry \/ PoolDone
    BY <1>1 DEF PoolEntry, PoolDone, Loops, Empty_handed
  <1>2. CASE Header \/ Fields \/ Field
    BY <1>2 DEF Header, Fields, Field, Part, walkVars, Loops, Empty_handed
  <1>3. CASE FieldAttribute \/ Methods \/ Method
    BY <1>3 DEF FieldAttribute, Methods, Method, Part, walkVars, Loops, Empty_handed
  <1>4. CASE MethodAttribute
    BY <1>4 DEF MethodAttribute, Part, Loops, Empty_handed
  <1> QED
    BY <1>1, <1>2, <1>3, <1>4 DEF Walk

\* The heap grants one block, and is given back the one it has granted.
LEMMA HeldStep == Held /\ [Next]_vars => Held'
  <1> SUFFICES ASSUME Held, [Next]_vars PROVE Held'
    OBVIOUS
  <1>1. CASE UNCHANGED loaderVars
    BY <1>1 DEF Held, loaderVars, heapVars
  <1>2. CASE class_execute(opened[1])
    BY <1>2 DEF class_execute, Held, Heap!Ask, heapVars, Loops, Empty_handed
  <1>3. CASE Allocated
    <2>1. CASE Heap!Grant /\ at' = "pool"
      <3>1. PICK b : live' = live \union {b}
        BY <2>1 DEF Heap!Grant
      <3>2. live' = {b}
        BY <3>1, <1>3 DEF Allocated, Held, Empty_handed
      <3> QED
        BY <3>2, <2>1 DEF Held, Loops, Empty_handed
    <2>2. CASE Heap!Refuse /\ at' = "returned"
      BY <1>3, <2>2 DEF Allocated, Held, Heap!Refuse, Loops, Empty_handed
    <2> QED
      BY <1>3, <2>1, <2>2 DEF Allocated
  <1>4. CASE Done
    <2>1. PICK b : live = {b}
      BY <1>4 DEF Done, Held, Empty_handed
    <2>2. PICK c \in live : live' = live \ {c}
      BY <1>4 DEF Done, Heap!Release
    <2>3. live' = {}
      BY <2>1, <2>2
    <2> QED
      BY <2>3, <1>4 DEF Done, Held, Loops, Empty_handed
  <1>5. CASE Walk /\ ~Allocated /\ ~Done
    <2>1. live' = live
      BY <1>5, WalkKeeps DEF heapVars
    <2>2. at \in Loops \ Empty_handed /\ at' \in Loops \ Empty_handed
      BY <1>5, WalkKeeps DEF Empty_handed, Loops
    <2> QED
      BY <2>1, <2>2 DEF Held
  <1>6. CASE JavaReturns
    BY <1>6 DEF JavaReturns, Held, heapVars, Loops, Empty_handed
  <1> QED
    BY <1>1, <1>2, <1>3, <1>4, <1>5, <1>6, LoaderMoves

\* class_execute holds exactly one block between its kmalloc and its kfree and
\* none when it returns, whatever is wrong with the file: Balanced, for any
\* file, any heap and any largest pool.
THEOREM PoolReleased == Spec => []Balanced
  <1>1. Init => Held
    BY DEF Init, ClassInit, Heap!Init, Held, Loops, Empty_handed
  <1>2. Held /\ [Next]_vars => Held'
    BY HeldStep
  <1>3. Held => Balanced
    BY FS_EmptySet, FS_Singleton DEF Held, Balanced, Empty_handed
  <1> QED
    BY <1>1, <1>2, <1>3, PTL DEF Spec

-----------------------------------------------------------------------------
(* The driver: what a step of the kernel is to it *)

medium == <<devices, disc>>

\* A sector is asked for, and the driver is left.
Calling(l) == pc \in {"idle", "return"} /\ Read(l) /\ DriveRests /\ UNCHANGED medium
Leaving ==
    /\ pc \in {"mounted", "return"} /\ pc' = "idle"
    /\ UNCHANGED <<medium, driveVars, selected, current_atapi_base, lba, i, buf, tried, fs_ready,
                   trouble>>

\* What the commands do to the driver when a sector has come back.
LEMMA IsoCalls ==
  IsoStep /\ UNCHANGED medium => Leaving \/ \E l : Calling(l)
  <1> SUFFICES ASSUME IsoStep, UNCHANGED medium PROVE Leaving \/ \E l : Calling(l)
    OBVIOUS
  <1>1. pc = "return"
    BY IsoMoves
  <1>2. ASSUME NEW function, NEW l, Call(function, l) PROVE Calling(l)
    BY <1>1, <1>2 DEF Call, Calling
  <1>3. ASSUME NEW result, Return(result) PROVE Leaving
    BY <1>1, <1>3 DEF Return, Leaving
  <1>4. CASE FindRoot
    BY <1>4, <1>2 DEF FindRoot
  <1>5. CASE FindRecord
    BY <1>5, <1>2, <1>3 DEF FindRecord, NextSector
  <1>6. CASE ReadContent
    BY <1>6, <1>2, <1>3 DEF ReadContent, NextSector
  <1>7. CASE ListRoot
    BY <1>7, <1>2, <1>3 DEF ListRoot
  <1>8. CASE ListSector
    BY <1>8, <1>2, <1>3 DEF ListSector
  <1> QED
    BY <1>4, <1>5, <1>6, <1>7, <1>8 DEF IsoStep

\* A step is one of the driver's or the drive's, a call, a return, or none of
\* their business.
LEMMA AtapiMoves ==
  Where /\ [Next]_vars =>
    \/ UNCHANGED atapiVars
    \/ iso9660_mount /\ UNCHANGED medium
    \/ Driver /\ UNCHANGED medium
    \/ Drive
    \/ Leaving
    \/ \E l : Calling(l)
  <1> SUFFICES ASSUME Where, [Next]_vars, ~UNCHANGED atapiVars
               PROVE  \/ iso9660_mount /\ UNCHANGED medium
                      \/ Driver /\ UNCHANGED medium
                      \/ Drive
                      \/ Leaving
                      \/ \E l : Calling(l)
    OBVIOUS
  <1>1. CASE Ls
    <2>1. pc = "idle" /\ UNCHANGED medium
      BY <1>1 DEF Ls, Enter, Where, hardware, medium
    <2>2. CASE iso_list_directory
      BY <2>1, <2>2 DEF iso_list_directory, Call, Calling
    <2>3. CASE NoDisc
      BY <2>1, <2>3 DEF NoDisc, medium, atapiVars
    <2> QED
      BY <1>1, <2>2, <2>3 DEF Ls
  <1>2. ASSUME NEW name, Cat(name) PROVE \E l : Calling(l)
    <2>1. pc = "idle" /\ UNCHANGED medium
      BY <1>2 DEF Cat, Enter, Where, hardware, medium
    <2>2. CASE iso9660_read_file(name)
      BY <2>1, <2>2 DEF iso9660_read_file, Call, Calling
    <2>3. CASE NoDisc
      BY <2>1, <2>3 DEF NoDisc, medium, atapiVars
    <2> QED
      BY <1>2, <2>2, <2>3 DEF Cat
  <1>3. ASSUME NEW name, Java(name) PROVE FALSE
    BY <1>3 DEF Java, Enter, NoDisc, hardware, atapiVars
  <1>4. CASE LoadInitrd \/ Execute \/ JavaReturns \/ DiscAnswers
    BY <1>4 DEF LoadInitrd, Execute, JavaReturns, DiscAnswers, hardware, atapiVars
  <1>5. CASE ReadConfig
    BY <1>5 DEF ReadConfig, hardware, medium
  <1>6. CASE DriverStep
    BY <1>6 DEF DriverStep, hardware, medium
  <1>7. CASE Mounted
    BY <1>7 DEF Mounted, Leaving, hardware, medium
  <1>8. CASE DiscStep
    BY <1>8, IsoCalls DEF DiscStep, hardware, medium
  <1>9. CASE ClassStep
    BY <1>9 DEF ClassStep
  <1>10. CASE Drive \/ UNCHANGED vars
    BY <1>10 DEF vars
  <1> QED
    BY <1>1, <1>2, <1>3, <1>4, <1>5, <1>6, <1>7, <1>8, <1>9, <1>10
       DEF Next, Work, execute_command

-----------------------------------------------------------------------------
(* The scan *)

\* The positions the scan comes to before p.
Earlier(p) == {q \in Positions : q[1] < p[1] \/ (q[1] = p[1] /\ q[2] < p[2])}

\* No drive has been passed over.
Passed == trouble = 0 => \A q \in Earlier(tried) : devices[q] # "cdrom"

Scanned ==
    /\ tried \in Positions /\ selected \in [{0, 1} -> {0, 1}] /\ current_atapi_base \in {0, 1}
    /\ fs_ready \in {0, 1} /\ trouble \in 0 .. 2
    /\ pc \in {"off", "probe", "scan", "mounted", "idle"} \union Reading
    /\ pc \in {"off", "probe", "scan"} => fs_ready = 0
    /\ pc = "off" => tried = <<0, 0>>
    /\ pc \in {"probe", "scan"} => Passed
    /\ pc = "scan" => selected[tried[1]] = tried[2]
    /\ MountFinds

\* The four positions of the scan.
LEMMA PositionsAre == Positions = {<<0, 0>>, <<0, 1>>, <<1, 0>>, <<1, 1>>}
  BY DEF Positions

\* A wait that ends without trouble has ended with the bit set, or with a
\* drive that will not change.
LEMMA WaitShows ==
  ASSUME NEW b, NEW bit, trouble \in 0 .. 2, Wait(b, bit)
  PROVE  /\ trouble' \in 0 .. 2
         /\ trouble' < 2 => trouble' = trouble /\ (bit \/ Still(b))
         /\ trouble' >= trouble
  BY DEF Wait

\* A drive is selected: the scan is where it was.
LEMMA ProbeScans == Scanned /\ Probe /\ UNCHANGED medium => Scanned'
  <1> SUFFICES ASSUME Scanned, Probe, UNCHANGED medium PROVE Scanned'
    OBVIOUS
  <1>1. tried[1] \in {0, 1} /\ tried[2] \in {0, 1}
    BY DEF Scanned, Positions
  <1>2. selected' \in [{0, 1} -> {0, 1}] /\ selected'[tried[1]] = tried[2]
    BY <1>1 DEF Scanned, Probe
  <1>3. pc = "probe" /\ pc' = "scan"
    BY DEF Probe
  <1>4. UNCHANGED <<devices, current_atapi_base, tried, fs_ready, trouble>>
    BY DEF Probe, medium
  <1>5. Passed'
    BY <1>3, <1>4 DEF Scanned, Passed
  <1> QED
    BY <1>2, <1>3, <1>4, <1>5 DEF Scanned, MountFinds

\* A drive that has had the time it needs and shows no signature is none.
LEMMA NoneThere ==
  ASSUME Scanned, pc = "scan", Wait(tried[1], ~BSY(tried[1])), ~Signature, trouble' = 0
  PROVE  devices[tried] # "cdrom"
  <1>1. tried = <<tried[1], tried[2]>>
    BY DEF Scanned, Positions
  <1>2. Selected(tried[1]) = devices[tried]
    BY <1>1 DEF Scanned, Selected
  <1>3. ~BSY(tried[1]) \/ Still(tried[1])
    BY DEF Wait
  <1> QED
    BY <1>2, <1>3 DEF BSY, Still, Signature

\* The scan ends at the first drive, goes on to the next position, or ends at
\* the last.
LEMMA ScanScans == Scanned /\ Scan /\ UNCHANGED medium => Scanned'
  <1> SUFFICES ASSUME Scanned, Scan, UNCHANGED medium PROVE Scanned'
    OBVIOUS
  <1>1. /\ pc = "scan" /\ fs_ready = 0 /\ Passed /\ tried \in Positions
        /\ UNCHANGED <<devices, selected>> /\ selected \in [{0, 1} -> {0, 1}]
        /\ current_atapi_base \in {0, 1}
    BY DEF Scanned, Scan, medium
  <1>2. trouble' \in 0 .. 2 /\ (trouble' = 0 => trouble = 0)
    BY WaitShows DEF Scan, Scanned
  <1>3. trouble' = 0 => \A q \in Earlier(tried) : devices[q] # "cdrom"
    BY <1>1, <1>2 DEF Passed
  <1>4. CASE Signature
    <2>1. pc' = "mounted" /\ current_atapi_base' = tried[1] /\ fs_ready' = 1 /\ tried' = tried
      BY <1>4 DEF Scan
    <2>2. tried = <<tried[1], tried[2]>> /\ tried[1] \in {0, 1}
      BY <1>1 DEF Positions
    <2>3. devices[tried] = "cdrom"
      BY <1>1, <1>4, <2>2 DEF Signature, Selected, Scanned
    <2>4. MountFinds'
      BY <2>1, <2>3, <1>1 DEF MountFinds
    <2> QED
      BY <1>1, <1>2, <2>1, <2>2, <2>4 DEF Scanned
  <1>5. CASE ~Signature /\ tried # <<1, 1>>
    <2>1. /\ pc' = "probe" /\ UNCHANGED <<current_atapi_base, fs_ready>>
          /\ tried' = IF tried[2] = 0 THEN <<tried[1], 1>> ELSE <<1, 0>>
      BY <1>5 DEF Scan
    <2>2. tried' \in Positions
      BY <1>1, <2>1, PositionsAre
    <2>3. trouble' = 0 => devices[tried] # "cdrom"
      BY <1>1, <1>5, NoneThere DEF Scan
    <2>4. \A q \in Earlier(tried') : q \in Earlier(tried) \/ q = tried
      BY <1>1, <1>5, <2>1, PositionsAre DEF Earlier
    <2>5. Passed'
      BY <1>1, <1>3, <2>3, <2>4 DEF Passed
    <2> QED
      BY <1>1, <1>2, <2>1, <2>2, <2>5 DEF Scanned, MountFinds
  <1>6. CASE ~Signature /\ tried = <<1, 1>>
    <2>1. pc' = "mounted" /\ UNCHANGED <<current_atapi_base, tried, fs_ready>>
      BY <1>6 DEF Scan
    <2>2. trouble' = 0 => devices[tried] # "cdrom"
      BY <1>1, <1>6, NoneThere DEF Scan
    <2>3. \A q \in Positions : q \in Earlier(tried) \/ q = tried
      BY <1>6, PositionsAre DEF Earlier
    <2>4. MountFinds'
      BY <1>1, <1>3, <2>1, <2>2, <2>3 DEF MountFinds
    <2> QED
      BY <1>1, <1>2, <2>1, <2>4 DEF Scanned
  <1> QED
    BY <1>4, <1>5, <1>6

\* A read changes what is selected, on the bus of the drive, and the scan no
\* more.
LEMMA ReadScans == Scanned /\ atapi_read_sector => Scanned'
  <1> SUFFICES ASSUME Scanned, atapi_read_sector PROVE Scanned'
    OBVIOUS
  <1>1. /\ UNCHANGED <<current_atapi_base, tried, fs_ready>>
        /\ pc \in Reading /\ pc' \in Reading
    BY DEF atapi_read_sector, Select, Command, Offer, Send, Settle, Ready, Data, Reading
  <1>2. trouble' \in 0 .. 2
    <2>1. CASE Select \/ Send \/ Data
      BY <2>1 DEF Select, Send, Data, Scanned
    <2>2. CASE Command \/ Offer \/ Settle \/ Ready
      BY <2>2, WaitShows DEF Command, Offer, Settle, Ready, Scanned
    <2> QED
      BY <2>1, <2>2 DEF atapi_read_sector
  <1>3. selected' \in [{0, 1} -> {0, 1}]
    <2>1. CASE Select
      BY <2>1 DEF Select, Scanned, base
    <2>2. CASE ~Select
      BY <2>2 DEF atapi_read_sector, Command, Offer, Send, Settle, Ready, Data, Scanned
    <2> QED
      BY <2>1, <2>2
  <1> QED
    BY <1>1, <1>2, <1>3 DEF Scanned, MountFinds, Reading

\* Every step keeps what the scan has found.
LEMMA ScannedStep == Where /\ Scanned /\ [Next]_vars => Scanned'
  <1> SUFFICES ASSUME Where, Scanned, [Next]_vars PROVE Scanned'
    OBVIOUS
  <1>1. CASE UNCHANGED atapiVars
    BY <1>1 DEF atapiVars, driverVars, Scanned, Passed, MountFinds
  <1>2. CASE iso9660_mount /\ UNCHANGED medium
    <2>1. Earlier(<<0, 0>>) = {}
      BY DEF Earlier, Positions
    <2>2. /\ UNCHANGED <<devices, selected, current_atapi_base, tried, fs_ready, trouble>>
          /\ pc = "off" /\ pc' = "probe"
      BY <1>2 DEF iso9660_mount, medium
    <2> QED
      BY <2>1, <2>2 DEF Scanned, Passed, MountFinds
  <1>3. CASE Driver /\ UNCHANGED medium
    BY <1>3, ProbeScans, ScanScans, ReadScans DEF Driver
  <1>4. CASE Drive
    <2>1. UNCHANGED <<devices, driverVars>>
      BY <1>4 DEF Drive
    <2>2. trouble' \in 0 .. 2 /\ (trouble' = 0 => trouble = 0)
      BY <1>4 DEF Drive, Prepared, Answer, Refuse, ResetDone, Worst, Scanned
    <2> QED
      BY <2>1, <2>2 DEF driverVars, Scanned, Passed, MountFinds
  <1>5. CASE Leaving
    BY <1>5 DEF Leaving, medium, Scanned, MountFinds, Reading
  <1>6. ASSUME NEW l, Calling(l) PROVE Scanned'
    <2>1. trouble' \in 0 .. 2
      BY <1>6 DEF Calling, Read, Scanned
    <2> QED
      BY <2>1, <1>6 DEF Calling, Read, DriveRests, Scanned, MountFinds, Reading
  <1> QED
    BY <1>1, <1>2, <1>3, <1>4, <1>5, <1>6, AtapiMoves

\* At the start nothing has been asked of the drive.
LEMMA FilesStart == Init => Where /\ Scanned
  <1>1. Init => Where
    BY DEF Init, AtapiInit, IsoInit, ClassInit, Where
  <1>2. AtapiInit => Scanned
    BY DEF AtapiInit, Scanned, Positions, MountFinds
  <1> QED
    BY <1>1, <1>2 DEF Init

\* The scan finds the first drive there is, for any drives on the two busses,
\* unless a drive was late: MountFinds.
THEOREM ScanFinds == Spec => []MountFinds
  <1>1. Init => Where /\ Scanned
    BY FilesStart
  <1>2. Where /\ Scanned /\ [Next]_vars => (Where /\ Scanned)'
    BY WhereStep, ScannedStep
  <1>3. Scanned => MountFinds
    BY DEF Scanned
  <1> QED
    BY <1>1, <1>2, <1>3, PTL DEF Spec

-----------------------------------------------------------------------------
(* Sequences that grow at the end and shrink at the head *)

Sequence(w) == w \in Seq(ToSet(w))

\* A sequence of anything is a sequence of its own elements.
LEMMA SequenceOf ==
  ASSUME NEW S, NEW w \in Seq(S) PROVE Sequence(w)
  <1>1. Len(w) \in Nat /\ w \in [1 .. Len(w) -> S]
    OBVIOUS
  <1>2. w \in [1 .. Len(w) -> ToSet(w)]
    BY <1>1 DEF ToSet
  <1> QED
    BY <1>1, <1>2 DEF Sequence

\* A word more at the end.
LEMMA Appended ==
  ASSUME NEW w, NEW x, Sequence(w)
  PROVE  /\ Sequence(Append(w, x)) /\ Len(Append(w, x)) = Len(w) + 1 /\ Len(w) \in Nat
         /\ \A k \in 1 .. Len(w) : Append(w, x)[k] = w[k]
         /\ Append(w, x)[Len(w) + 1] = x
  <1>1. w \in Seq(ToSet(w) \union {x}) /\ x \in ToSet(w) \union {x}
    BY DEF Sequence
  <1>2. Append(w, x) \in Seq(ToSet(w) \union {x})
    BY <1>1
  <1>3. Sequence(Append(w, x))
    BY <1>2, SequenceOf
  <1>4. w \in Seq(ToSet(w))
    BY DEF Sequence
  <1> QED
    BY <1>3, <1>4

\* A word less at the head.
LEMMA Shortened ==
  ASSUME NEW w, Sequence(w), w # <<>>
  PROVE  /\ Sequence(Tail(w)) /\ Len(Tail(w)) = Len(w) - 1 /\ Len(w) \in Nat \ {0}
         /\ Head(w) = w[1]
         /\ \A k \in 1 .. Len(w) - 1 : Tail(w)[k] = w[k + 1]
  <1>1. w \in Seq(ToSet(w))
    BY DEF Sequence
  <1>2. Tail(w) \in Seq(ToSet(w))
    BY <1>1
  <1>3. Sequence(Tail(w))
    BY <1>2, SequenceOf
  <1> QED
    BY <1>1, <1>3

\* The empty sequence
LEMMA EmptySequence == Sequence(<<>>) /\ Len(<<>>) = 0
  BY DEF Sequence

\* A sequence without length is empty.
LEMMA NoneLeft == ASSUME NEW w, Sequence(w) PROVE Len(w) \in Nat /\ (Len(w) = 0 <=> w = <<>>)
  <1>1. w \in Seq(ToSet(w))
    BY DEF Sequence
  <1> QED
    BY <1>1

\* Two sequences with the same elements are one.
LEMMA SameSequence ==
  ASSUME NEW w, NEW t, Sequence(w), Sequence(t), Len(w) = Len(t),
         \A k \in 1 .. Len(w) : w[k] = t[k]
  PROVE  w = t
  <1>1. w \in [1 .. Len(w) -> ToSet(w)] /\ t \in [1 .. Len(t) -> ToSet(t)]
    BY DEF Sequence
  <1> QED
    BY <1>1

-----------------------------------------------------------------------------
(* The drive *)

Quiet == phase \in {"idle", "reset"}

DriveTyped ==
    /\ phase \in {"idle", "reset", "prepare", "packet", "busy", "data"}
    /\ Sequence(packet) /\ Len(packet) <= PacketWords
    /\ phase = "packet" => Len(packet) < PacketWords
    /\ Sequence(words) /\ Len(words) <= SectorWords
    /\ phase = "data" <=> words # <<>>
    /\ Sequence(buf) /\ Len(buf) <= SectorWords
    /\ i \in 0 .. PacketWords
    /\ pc \in {"select", "command", "offer"} => i = 0
    /\ pc \in {"select", "command", "offer", "send", "settle", "ready"} => buf = <<>>
    /\ pc = "send" => i < PacketWords
    /\ pc = "data" => Len(buf) < SectorWords
    /\ pc = "return" => Len(buf) = SectorWords
    /\ pc \in {"off", "probe", "scan", "mounted"} => Quiet

\* The drive is its bus's master.
Own == devices[<<base, 0>>] = "cdrom"

\* With at most the trouble that a refused command makes, the drive ends every
\* read as it has begun the first: nothing is left of the commands, the words
\* of a packet and the words of a sector it was sent and did not take, or has
\* offered and nobody took.
Calm ==
    /\ pc \in {"idle", "return"} => Quiet
    /\ pc = "offer" => phase \in {"prepare", "packet", "data"}
    /\ pc = "send" => /\ phase \in {"packet", "busy", "data", "idle"}
                      /\ phase = "packet" => Len(packet) >= i
    /\ pc = "settle" => phase \in {"busy", "data", "idle"}
    /\ pc \in {"ready", "data"} => /\ phase \in {"data", "idle"}
                                   /\ Len(buf) + Len(words) <= SectorWords

\* What the packet has of the command that asks for lba.
Asked(m) == Len(packet) = m /\ \A k \in 1 .. Len(packet) : packet[k] = lba

\* What is in the buffer and what the drive still offers make up the sector.
Transferred ==
    /\ lba \in DOMAIN disc
    /\ Len(buf) + Len(words) = SectorWords
    /\ \A k \in 1 .. Len(buf) : buf[k] = disc[lba][k]
    /\ \A k \in 1 .. Len(words) : words[k] = disc[lba][Len(buf) + k]

\* Without trouble the drive has done at each place what is expected there.
Exact ==
    /\ pc \in {"select", "command"} => Quiet
    /\ pc = "offer" => phase \in {"prepare", "packet"} /\ packet = <<>>
    /\ pc = "send" => phase = "packet" /\ Asked(i)
    /\ pc = "settle" => (phase = "busy" /\ Asked(PacketWords)) \/ (phase = "data" /\ Transferred)
    /\ pc = "ready" => phase = "data" /\ Transferred
    /\ pc = "data" => Transferred
    /\ pc = "return" => buf = disc[lba]

Served ==
    Own => /\ pc \in Reading \ {"select"} => selected[base] = 0
           /\ trouble <= 1 => Calm
           /\ trouble = 0 => Exact

WholeInv == Pressed(disc) /\ DriveTyped /\ Served

\* A sector of a pressed disc has its length.
LEMMA PressedSector ==
  ASSUME Pressed(disc), NEW l \in DOMAIN disc
  PROVE  Sequence(disc[l]) /\ Len(disc[l]) = SectorWords /\ disc[l] # <<>>
  <1>1. disc[l] \in Seq(ToSet(disc[l])) /\ Len(disc[l]) = SectorWords
    BY DEF Pressed
  <1> QED
    BY <1>1, AtapiAssumption, EmptySequence DEF Sequence

\* What a wait shows of a drive that is its bus's master, whether it was for
\* BSY to go or for DRQ to come.
LEMMA WaitedFor ==
  ASSUME Scanned, Own, selected[base] = 0,
         Wait(base, ~BSY(base)) \/ Wait(base, DRQ(base)), trouble' <= 1
  PROVE  trouble' = trouble /\ phase \notin {"reset", "prepare", "busy"}
  <1>1. Selected(base) = "cdrom" /\ ~Empty(base) /\ base \in {0, 1}
    BY DEF Selected, Own, Empty, Scanned, base
  <1>2. CASE Wait(base, ~BSY(base))
    BY <1>1, <1>2 DEF Wait, BSY, Still, Scanned
  <1>3. CASE Wait(base, DRQ(base))
    BY <1>1, <1>3 DEF Wait, DRQ, Still, Scanned
  <1> QED
    BY <1>2, <1>3

\* The drive's own steps
LEMMA DriveServes == Scanned /\ WholeInv /\ Drive => WholeInv'
  <1> SUFFICES ASSUME Scanned, WholeInv, Drive PROVE WholeInv'
    OBVIOUS
  <1> USE AtapiAssumption
  <1>1. UNCHANGED <<devices, disc, selected, current_atapi_base, pc, lba, i, buf>>
    BY DEF Drive, driverVars
  <1>2. Pressed(disc)'
    BY <1>1 DEF WholeInv
  <1>3. CASE Prepared
    <2>1. /\ phase = "prepare" /\ phase' = "packet" /\ packet' = <<>>
          /\ UNCHANGED <<words, trouble>>
      BY <1>3 DEF Prepared
    <2>2. DriveTyped'
      BY <1>1, <2>1, EmptySequence DEF WholeInv, DriveTyped, Quiet
    <2>3. Served'
      BY <1>1, <2>1 DEF WholeInv, Served, Own, base, Calm, Exact, Quiet
    <2> QED
      BY <1>2, <2>2, <2>3 DEF WholeInv
  <1>4. CASE Answer
    <2>1. /\ phase = "busy" /\ phase' = "data" /\ UNCHANGED <<packet, trouble>>
      BY <1>4 DEF Answer
    <2>2. PICK l \in DOMAIN disc : (Cardinality(ToSet(packet)) = 1 => l = packet[1])
                                   /\ words' = disc[l]
      BY <1>4 DEF Answer
    <2>3. Sequence(words') /\ Len(words') = SectorWords /\ words' # <<>>
      BY <2>2, PressedSector DEF WholeInv
    <2>4. DriveTyped'
      BY <1>1, <2>1, <2>3 DEF WholeInv, DriveTyped, Quiet
    <2>5. ASSUME Own, trouble <= 1 PROVE Calm'
      BY <1>1, <2>1, <2>5 DEF WholeInv, Served, Calm, Quiet
    <2>6. ASSUME Own, trouble = 0 PROVE Exact'
      <3>1. pc = "settle" \/ pc \notin Reading
        BY <2>1, <2>6 DEF WholeInv, Served, Exact, Calm, Quiet, Reading
      <3>2. CASE pc = "settle"
        <4>1. Asked(PacketWords)
          BY <2>1, <2>6, <3>2 DEF WholeInv, Served, Exact
        <4>2. ToSet(packet) = {lba} /\ packet[1] = lba
          BY <4>1 DEF Asked, ToSet, WholeInv, DriveTyped, Sequence
        <4>3. l = lba
          BY <2>2, <4>2, FS_Singleton
        <4>4. buf = <<>> /\ Len(buf) = 0
          BY <3>2, EmptySequence DEF WholeInv, DriveTyped
        <4>5. Transferred'
          BY <1>1, <2>2, <2>3, <4>3, <4>4 DEF Transferred
        <4> QED
          BY <1>1, <2>1, <3>2, <4>5 DEF Exact
      <3>3. CASE pc \notin Reading
        BY <1>1, <3>3 DEF Exact, Reading
      <3> QED
        BY <3>1, <3>2, <3>3
    <2>7. Served'
      BY <1>1, <2>1, <2>5, <2>6 DEF WholeInv, Served, Own, base
    <2> QED
      BY <1>2, <2>4, <2>7 DEF WholeInv
  <1>5. CASE Refuse
    <2>1. /\ phase = "busy" /\ phase' = "idle" /\ UNCHANGED <<packet, words>>
          /\ trouble' = Worst(1)
      BY <1>5 DEF Refuse
    <2>2. trouble' # 0 /\ (trouble' <= 1 => trouble <= 1)
      BY <2>1 DEF Worst, Scanned
    <2>3. DriveTyped'
      BY <1>1, <2>1 DEF WholeInv, DriveTyped, Quiet
    <2>4. Served'
      BY <1>1, <2>1, <2>2 DEF WholeInv, Served, Own, base, Calm, Quiet
    <2> QED
      BY <1>2, <2>3, <2>4 DEF WholeInv
  <1>6. CASE ResetDone
    <2>1. phase = "reset" /\ phase' = "idle" /\ UNCHANGED <<packet, words, trouble>>
      BY <1>6 DEF ResetDone
    <2>2. DriveTyped'
      BY <1>1, <2>1 DEF WholeInv, DriveTyped, Quiet
    <2>3. Served'
      BY <1>1, <2>1 DEF WholeInv, Served, Own, base, Calm, Exact, Quiet
    <2> QED
      BY <1>2, <2>2, <2>3 DEF WholeInv
  <1> QED
    BY <1>3, <1>4, <1>5, <1>6 DEF Drive

\* The scan resets the drive if it is at the position; nothing else is asked
\* of it yet.
LEMMA ScanServes == Scanned /\ WholeInv /\ (Probe \/ Scan) /\ UNCHANGED medium => WholeInv'
  <1> SUFFICES ASSUME Scanned, WholeInv, Probe \/ Scan, UNCHANGED medium PROVE WholeInv'
    OBVIOUS
  <1>1. UNCHANGED <<lba, i, buf, disc>> /\ pc \in {"probe", "scan"}
    BY DEF Probe, Scan, medium
  <1>2. pc' \in {"probe", "scan", "mounted"}
    BY DEF Probe, Scan
  <1>3. \/ UNCHANGED driveVars
        \/ phase' = "reset" /\ packet' = <<>> /\ words' = <<>>
    BY DEF Probe, Scan
  <1>4. DriveTyped'
    <2>1. CASE UNCHANGED driveVars
      BY <1>1, <1>2, <2>1 DEF WholeInv, DriveTyped, Quiet, driveVars
    <2>2. CASE phase' = "reset" /\ packet' = <<>> /\ words' = <<>>
      BY <1>1, <1>2, <2>2, EmptySequence, AtapiAssumption DEF WholeInv, DriveTyped, Quiet
    <2> QED
      BY <1>3, <2>1, <2>2
  <1>5. Served'
    BY <1>2 DEF Served, Calm, Exact, Reading
  <1> QED
    BY <1>1, <1>4, <1>5 DEF WholeInv

\* atapi_read_sector up to the packet
LEMMA CommandServes ==
  Scanned /\ WholeInv /\ (Select \/ Command \/ Offer) /\ UNCHANGED medium => WholeInv'
  <1> SUFFICES ASSUME Scanned, WholeInv, Select \/ Command \/ Offer, UNCHANGED medium
               PROVE  WholeInv'
    OBVIOUS
  <1> USE AtapiAssumption
  <1>1. UNCHANGED <<devices, disc, current_atapi_base, lba, i, buf>>
    BY DEF Select, Command, Offer, medium
  <1>2. Pressed(disc)' /\ (Own' <=> Own) /\ base' = base /\ base \in {0, 1}
    BY <1>1 DEF WholeInv, Own, base, Scanned
  <1>3. CASE Select
    <2>1. /\ pc = "select" /\ pc' = "command" /\ UNCHANGED <<driveVars, trouble>>
          /\ selected' = [selected EXCEPT ![base] = 0]
      BY <1>3 DEF Select
    <2>2. selected'[base] = 0
      BY <1>2, <2>1 DEF Scanned
    <2>3. DriveTyped'
      BY <1>1, <2>1 DEF WholeInv, DriveTyped, Quiet, driveVars
    <2>4. Served'
      BY <1>1, <1>2, <2>1, <2>2 DEF WholeInv, Served, Calm, Exact, Quiet, driveVars
    <2> QED
      BY <1>2, <2>3, <2>4 DEF WholeInv
  <1>4. CASE Command
    <2>1. pc = "command" /\ pc' = "offer" /\ Wait(base, ~BSY(base)) /\ UNCHANGED selected
      BY <1>4 DEF Command
    <2>2. CASE phase' = "prepare" /\ packet' = <<>> /\ words' = <<>>
      <3>1. DriveTyped'
        BY <1>1, <2>1, <2>2, EmptySequence DEF WholeInv, DriveTyped, Quiet
      <3>2. Served'
        BY <1>1, <1>2, <2>1, <2>2 DEF WholeInv, Served, Calm, Exact, Reading
      <3> QED
        BY <1>2, <3>1, <3>2 DEF WholeInv
    <2>3. CASE ~(Selected(base) = "cdrom" /\ phase = "idle") /\ UNCHANGED driveVars
      <3>1. DriveTyped'
        BY <1>1, <2>1, <2>3 DEF WholeInv, DriveTyped, Quiet, driveVars
      <3>2. ASSUME Own PROVE selected[base] = 0 /\ Selected(base) = "cdrom"
        BY <2>1, <3>2 DEF WholeInv, Served, Own, Selected, Reading
      <3>3. ASSUME Own, trouble' <= 1 PROVE trouble' = trouble /\ phase \in {"packet", "data"}
        BY <2>1, <2>3, <3>2, <3>3, WaitedFor DEF WholeInv, DriveTyped
      <3>4. ASSUME Own, trouble' <= 1 PROVE Calm'
        BY <2>1, <2>3, <3>3, <3>4 DEF Calm, driveVars
      <3>5. ASSUME Own, trouble' = 0 PROVE FALSE
        BY <2>1, <3>3, <3>5 DEF WholeInv, Served, Exact, Quiet
      <3>6. Served'
        BY <1>2, <2>1, <3>2, <3>4, <3>5 DEF Served
      <3> QED
        BY <1>2, <3>1, <3>6 DEF WholeInv
    <2> QED
      BY <1>4, <2>2, <2>3 DEF Command
  <1>5. CASE Offer
    <2>1. /\ pc = "offer" /\ pc' = "send" /\ Wait(base, DRQ(base))
          /\ UNCHANGED <<driveVars, selected>>
      BY <1>5 DEF Offer
    <2>2. DriveTyped'
      BY <1>1, <2>1 DEF WholeInv, DriveTyped, Quiet, driveVars
    <2>3. ASSUME Own PROVE selected[base] = 0
      BY <2>1, <2>3 DEF WholeInv, Served, Reading
    <2>4. ASSUME Own, trouble' <= 1
          PROVE  trouble' = trouble /\ phase \notin {"reset", "prepare", "busy"}
      BY <2>1, <2>3, <2>4, WaitedFor
    <2>5. i = 0 /\ Len(packet) \in Nat
      BY <2>1, NoneLeft DEF WholeInv, DriveTyped
    <2>6. ASSUME Own, trouble' <= 1 PROVE Calm'
      BY <1>1, <2>1, <2>4, <2>5, <2>6 DEF WholeInv, Served, Calm, driveVars
    <2>7. ASSUME Own, trouble' = 0 PROVE Exact'
      <3>1. phase = "packet" /\ packet = <<>> /\ Len(packet) = 0
        BY <2>1, <2>4, <2>7, EmptySequence DEF WholeInv, Served, Exact
      <3> QED
        BY <1>1, <2>1, <2>5, <3>1 DEF Exact, Asked, driveVars
    <2>8. Served'
      BY <1>2, <2>1, <2>3, <2>6, <2>7 DEF Served
    <2> QED
      BY <1>2, <2>2, <2>8 DEF WholeInv
  <1> QED
    BY <1>3, <1>4, <1>5

\* The words of the packet
LEMMA SendServes == Scanned /\ WholeInv /\ Send /\ UNCHANGED medium => WholeInv'
  <1> SUFFICES ASSUME Scanned, WholeInv, Send, UNCHANGED medium PROVE WholeInv'
    OBVIOUS
  <1> USE AtapiAssumption
  <1>1. /\ UNCHANGED <<devices, disc, current_atapi_base, lba, buf, words, selected, trouble>>
        /\ pc = "send" /\ i' = i + 1
        /\ pc' = IF i' = PacketWords THEN "settle" ELSE "send"
    BY DEF Send, medium
  <1>2. Pressed(disc)' /\ (Own' <=> Own) /\ base' = base
    BY <1>1 DEF WholeInv, Own, base
  <1>3. i \in Nat /\ i < PacketWords /\ buf = <<>>
    BY <1>1 DEF WholeInv, DriveTyped
  <1>4. Len(packet) \in Nat
    BY NoneLeft DEF WholeInv, DriveTyped
  <1>5. CASE Selected(base) = "cdrom" /\ phase = "packet"
    <2>1. /\ packet' = Append(packet, lba) /\ Len(packet) < PacketWords
          /\ phase' = IF Len(packet') = PacketWords THEN "busy" ELSE "packet"
      BY <1>5 DEF Send, WholeInv, DriveTyped
    <2>2. Sequence(packet') /\ Len(packet') = Len(packet) + 1
      BY <2>1, Appended DEF WholeInv, DriveTyped
    <2>3. DriveTyped'
      BY <1>1, <1>3, <1>4, <1>5, <2>1, <2>2 DEF WholeInv, DriveTyped
    <2>4. ASSUME Own, trouble <= 1 PROVE Calm'
      BY <1>1, <1>3, <1>4, <1>5, <2>1, <2>2, <2>4 DEF WholeInv, Served, Calm
    <2>5. ASSUME Own, trouble = 0 PROVE Exact'
      <3>1. Asked(i)
        BY <1>1, <2>5 DEF WholeInv, Served, Exact
      <3>2. \A k \in 1 .. Len(packet') : packet'[k] = lba
        BY <1>4, <2>1, <2>2, <3>1, Appended DEF Asked, WholeInv, DriveTyped
      <3>3. Asked(i)'
        BY <1>1, <2>2, <3>1, <3>2 DEF Asked
      <3> QED
        BY <1>1, <1>3, <2>1, <2>2, <3>1, <3>3 DEF Exact, Asked
    <2>6. Served'
      BY <1>1, <1>2, <2>4, <2>5 DEF WholeInv, Served, Reading
    <2> QED
      BY <1>2, <2>3, <2>6 DEF WholeInv
  <1>6. CASE ~(Selected(base) = "cdrom" /\ phase = "packet")
    <2>1. UNCHANGED <<packet, phase>>
      BY <1>6 DEF Send
    <2>2. DriveTyped'
      BY <1>1, <1>3, <2>1 DEF WholeInv, DriveTyped
    <2>3. ASSUME Own PROVE phase # "packet"
      BY <1>1, <1>6, <2>3 DEF WholeInv, Served, Own, Selected, Reading
    <2>4. ASSUME Own, trouble <= 1 PROVE Calm'
      BY <1>1, <1>3, <2>1, <2>3, <2>4 DEF WholeInv, Served, Calm
    <2>5. ASSUME Own, trouble = 0 PROVE FALSE
      BY <1>1, <2>3, <2>5 DEF WholeInv, Served, Exact
    <2>6. Served'
      BY <1>1, <1>2, <2>4, <2>5 DEF WholeInv, Served, Reading
    <2> QED
      BY <1>2, <2>2, <2>6 DEF WholeInv
  <1> QED
    BY <1>5, <1>6

\* The two waits before the sector
LEMMA WaitServes == Scanned /\ WholeInv /\ (Settle \/ Ready) /\ UNCHANGED medium => WholeInv'
  <1> SUFFICES ASSUME Scanned, WholeInv, Settle \/ Ready, UNCHANGED medium PROVE WholeInv'
    OBVIOUS
  <1> USE AtapiAssumption
  <1>1. /\ UNCHANGED <<devices, disc, current_atapi_base, lba, i, buf, selected, driveVars>>
        /\ \/ pc = "settle" /\ pc' = "ready" /\ Wait(base, ~BSY(base))
           \/ pc = "ready" /\ pc' = "data" /\ Wait(base, DRQ(base))
    BY DEF Settle, Ready, medium
  <1>2. Pressed(disc)' /\ (Own' <=> Own) /\ base' = base
    BY <1>1 DEF WholeInv, Own, base
  <1>3. buf = <<>> /\ Len(buf) = 0 /\ Len(words) \in Nat /\ Len(words) <= SectorWords
    BY <1>1, EmptySequence, NoneLeft DEF WholeInv, DriveTyped
  <1>4. DriveTyped'
    BY <1>1, <1>3 DEF WholeInv, DriveTyped, driveVars
  <1>5. ASSUME Own PROVE selected[base] = 0
    BY <1>1, <1>5 DEF WholeInv, Served, Reading
  <1>6. ASSUME Own, trouble' <= 1
        PROVE  trouble' = trouble /\ phase \notin {"reset", "prepare", "busy"}
    BY <1>1, <1>5, <1>6, WaitedFor
  <1>7. ASSUME Own, trouble' <= 1 PROVE Calm'
    BY <1>1, <1>3, <1>6, <1>7 DEF WholeInv, Served, Calm, driveVars
  <1>8. ASSUME Own, trouble' = 0 PROVE Exact'
    <2>1. phase = "data" /\ Transferred
      BY <1>1, <1>6, <1>8 DEF WholeInv, Served, Exact
    <2>2. Transferred'
      BY <1>1, <2>1 DEF Transferred, driveVars
    <2> QED
      BY <1>1, <2>1, <2>2 DEF Exact, driveVars
  <1>9. Served'
    BY <1>1, <1>2, <1>5, <1>7, <1>8 DEF Served
  <1> QED
    BY <1>2, <1>4, <1>9 DEF WholeInv

\* A word of the sector
LEMMA DataServes == Scanned /\ WholeInv /\ Data /\ UNCHANGED medium => WholeInv'
  <1> SUFFICES ASSUME Scanned, WholeInv, Data, UNCHANGED medium PROVE WholeInv'
    OBVIOUS
  <1> USE AtapiAssumption
  <1>1. /\ UNCHANGED <<devices, disc, current_atapi_base, lba, i, packet, selected, trouble>>
        /\ pc = "data" /\ pc' = IF Len(buf') = SectorWords THEN "return" ELSE "data"
    BY DEF Data, medium
  <1>2. Pressed(disc)' /\ (Own' <=> Own) /\ base' = base
    BY <1>1 DEF WholeInv, Own, base
  <1>3. /\ Sequence(buf) /\ Sequence(words) /\ Len(buf) \in Nat /\ Len(words) \in Nat
        /\ Len(buf) < SectorWords /\ Len(words) <= SectorWords
        /\ phase = "data" <=> words # <<>>
        /\ Len(words) = 0 <=> words = <<>>
    BY <1>1, NoneLeft DEF WholeInv, DriveTyped
  <1>4. CASE Selected(base) = "cdrom" /\ phase = "data"
    <2>1. /\ buf' = Append(buf, Head(words)) /\ words' = Tail(words)
          /\ phase' = IF words' = <<>> THEN "idle" ELSE "data"
      BY <1>4 DEF Data
    <2>2. /\ Sequence(words') /\ Len(words') = Len(words) - 1 /\ Head(words) = words[1]
          /\ \A k \in 1 .. Len(words') : words'[k] = words[k + 1]
      BY <1>3, <1>4, <2>1, Shortened
    <2>3. /\ Sequence(buf') /\ Len(buf') = Len(buf) + 1
          /\ \A k \in 1 .. Len(buf) : buf'[k] = buf[k]
          /\ buf'[Len(buf) + 1] = words[1]
      BY <1>3, <2>1, <2>2, Appended
    <2>4. Len(words') = 0 <=> words' = <<>>
      BY <2>2, NoneLeft
    <2>5. DriveTyped'
      BY <1>1, <1>3, <2>1, <2>2, <2>3 DEF WholeInv, DriveTyped
    <2> DEFINE b == Len(buf)
               w == Len(words)
               bb == Len(buf')
               ww == Len(words')
    <2>9. bb = b + 1 /\ ww = w - 1 /\ b \in Nat /\ w \in Nat \ {0}
      BY <1>3, <1>4, <2>2, <2>3
    <2> HIDE DEF b, w, bb, ww
    <2>10. bb + ww = b + w
      BY <2>9
    <2>6. ASSUME Own, trouble <= 1 PROVE Calm'
      <3>1. b + w <= SectorWords
        BY <1>1, <2>6 DEF WholeInv, Served, Calm, b, w
      <3>2. bb + ww <= SectorWords
        BY <2>10, <3>1
      <3>3. bb = SectorWords => ww = 0
        BY <2>9, <3>1
      <3> QED
        BY <1>1, <1>4, <2>1, <2>4, <3>2, <3>3 DEF Calm, Quiet, bb, ww
    <2>7. ASSUME Own, trouble = 0 PROVE Exact'
      <3>1. Transferred
        BY <1>1, <2>7 DEF WholeInv, Served, Exact
      <3>2. Len(buf') + Len(words') = SectorWords
        BY <2>10, <3>1 DEF Transferred, b, w, bb, ww
      <3>3. ASSUME NEW k \in 1 .. Len(buf') PROVE buf'[k] = disc[lba][k]
        <4>1. CASE k <= Len(buf)
          BY <1>3, <2>3, <3>1, <4>1 DEF Transferred
        <4>2. CASE k = Len(buf) + 1
          <5>1. 1 \in 1 .. Len(words)
            BY <1>3, <1>4
          <5> QED
            BY <2>3, <3>1, <4>2, <5>1 DEF Transferred
        <4> QED
          BY <1>3, <2>3, <4>1, <4>2
      <3>4. ASSUME NEW k \in 1 .. Len(words') PROVE words'[k] = disc[lba][Len(buf') + k]
        <4>1. words'[k] = words[k + 1] /\ k + 1 \in 1 .. Len(words)
          BY <1>3, <2>2
        <4>2. words[k + 1] = disc[lba][Len(buf) + (k + 1)]
          BY <3>1, <4>1 DEF Transferred
        <4>3. Len(buf) + (k + 1) = Len(buf') + k
          BY <1>3, <2>3
        <4> QED
          BY <4>1, <4>2, <4>3
      <3>5. Transferred'
        BY <1>1, <3>1, <3>2, <3>3, <3>4 DEF Transferred
      <3>6. CASE Len(buf') = SectorWords
        <4>1. lba \in DOMAIN disc
          BY <3>1 DEF Transferred
        <4>2. Sequence(disc[lba]) /\ Len(disc[lba]) = SectorWords
          BY <4>1, PressedSector DEF WholeInv
        <4>3. buf' = disc[lba]
          BY <2>3, <3>3, <3>6, <4>2, SameSequence
        <4> QED
          BY <1>1, <3>6, <4>3 DEF Exact
      <3>7. CASE Len(buf') # SectorWords
        BY <1>1, <3>5, <3>7 DEF Exact
      <3> QED
        BY <3>6, <3>7
    <2>8. Served'
      BY <1>1, <1>2, <2>6, <2>7 DEF WholeInv, Served, Reading
    <2> QED
      BY <1>2, <2>5, <2>8 DEF WholeInv
  <1>5. CASE ~(Selected(base) = "cdrom" /\ phase = "data")
    <2>1. buf' = Append(buf, Junk) /\ UNCHANGED <<words, phase>>
      BY <1>5 DEF Data
    <2>2. Sequence(buf') /\ Len(buf') = Len(buf) + 1
      BY <1>3, <2>1, Appended
    <2>3. DriveTyped'
      BY <1>1, <1>3, <2>1, <2>2 DEF WholeInv, DriveTyped
    <2>4. ASSUME Own PROVE words = <<>> /\ Len(words) = 0
      BY <1>1, <1>3, <1>5, <2>4 DEF WholeInv, Served, Own, Selected, Reading
    <2>5. ASSUME Own, trouble <= 1 PROVE Calm'
      BY <1>1, <1>3, <2>1, <2>2, <2>4, <2>5 DEF WholeInv, Served, Calm, Quiet
    <2>6. ASSUME Own, trouble = 0 PROVE FALSE
      BY <1>1, <1>3, <2>4, <2>6 DEF WholeInv, Served, Exact, Transferred
    <2>7. Served'
      BY <1>1, <1>2, <2>5, <2>6 DEF WholeInv, Served, Reading
    <2> QED
      BY <1>2, <2>3, <2>7 DEF WholeInv
  <1> QED
    BY <1>4, <1>5

\* Every step of the kernel and the drive.
LEMMA WholeStep == Where /\ Scanned /\ WholeInv /\ [Next]_vars => WholeInv'
  <1> SUFFICES ASSUME Where, Scanned, WholeInv, [Next]_vars PROVE WholeInv'
    OBVIOUS
  <1>1. CASE UNCHANGED atapiVars
    BY <1>1 DEF atapiVars, driveVars, driverVars, WholeInv, DriveTyped, Quiet, Served, Own, base,
                Calm, Exact, Asked, Transferred
  <1>2. CASE iso9660_mount /\ UNCHANGED medium
    <2>1. /\ UNCHANGED <<driveVars, lba, i, buf, disc>> /\ pc = "off" /\ pc' = "probe"
      BY <1>2 DEF iso9660_mount, medium
    <2>2. DriveTyped'
      BY <2>1 DEF WholeInv, DriveTyped, Quiet, driveVars
    <2> QED
      BY <2>1, <2>2 DEF WholeInv, Served, Calm, Exact, Reading
  <1>3. CASE Driver /\ UNCHANGED medium
    BY <1>3, ScanServes, CommandServes, SendServes, WaitServes, DataServes
       DEF Driver, atapi_read_sector
  <1>4. CASE Drive
    BY <1>4, DriveServes
  <1>5. CASE Leaving
    <2>1. /\ UNCHANGED <<devices, disc, driveVars, current_atapi_base, i, buf, trouble>>
          /\ pc \in {"mounted", "return"} /\ pc' = "idle"
      BY <1>5 DEF Leaving, medium
    <2>2. DriveTyped'
      BY <2>1 DEF WholeInv, DriveTyped, driveVars
    <2>3. Served'
      BY <2>1 DEF WholeInv, DriveTyped, Quiet, Served, Own, base, Calm, Exact, Reading, driveVars
    <2> QED
      BY <2>1, <2>2, <2>3 DEF WholeInv
  <1>6. ASSUME NEW l, Calling(l) PROVE WholeInv'
    <2>1. /\ UNCHANGED <<devices, disc, driveVars, current_atapi_base>>
          /\ pc \in {"idle", "return"} /\ pc' = "select" /\ i' = 0 /\ buf' = <<>>
          /\ trouble' = IF trouble = 0 THEN 0 ELSE trouble - 1
      BY <1>6 DEF Calling, Read, DriveRests, medium
    <2>2. DriveTyped'
      BY <2>1, EmptySequence, AtapiAssumption DEF WholeInv, DriveTyped, driveVars
    <2>3. trouble' = 0 => trouble <= 1
      BY <2>1 DEF Scanned
    <2>4. Served'
      BY <2>1, <2>3 DEF WholeInv, Quiet, Served, Own, base, Calm, Exact, Reading, driveVars
    <2> QED
      BY <2>1, <2>2, <2>4 DEF WholeInv
  <1> QED
    BY <1>1, <1>2, <1>3, <1>4, <1>5, <1>6, AtapiMoves

\* A disc is whole before the first read.
LEMMA WholeStart == Init => WholeInv
  <1> SUFFICES ASSUME Init PROVE WholeInv
    OBVIOUS
  <1>1. Pressed(disc)
    <2>1. PICK k \in DOMAIN Worlds : world = Worlds[k]
      BY DEF Init
    <2>2. IsDisc(world.sectors) /\ disc = Layout(world.sectors)
      BY <2>1, WorldsAssumption DEF Init
    <2> QED
      BY <2>2, DiscPressed
  <1>2. AtapiInit
    BY DEF Init
  <1>3. DriveTyped
    BY <1>2, EmptySequence, AtapiAssumption DEF AtapiInit, DriveTyped, Quiet
  <1>4. Served
    BY <1>2 DEF AtapiInit, Served, Calm, Exact, Reading
  <1> QED
    BY <1>1, <1>3, <1>4 DEF WholeInv

\* A drive that is not its bus's master is never addressed: nothing of what a read
\* has gathered comes from it.
Unserved ==
    ~Own /\ pc \in Reading =>
        /\ pc # "select" => selected[base] = 0
        /\ \A k \in 1 .. Len(buf) : buf[k] = Junk

\* Every step of the kernel and the drive: the drive is not addressed.
LEMMA UnservedStep ==
  Where /\ Scanned /\ WholeInv /\ Unserved /\ [Next]_vars => Unserved'
  <1> SUFFICES ASSUME Where, Scanned, WholeInv, Unserved, [Next]_vars PROVE Unserved'
    OBVIOUS
  <1>1. CASE UNCHANGED atapiVars
    BY <1>1 DEF atapiVars, driverVars, Unserved, Own, base
  <1>2. ASSUME pc' \notin Reading PROVE Unserved'
    BY <1>2 DEF Unserved
  <1>3. ASSUME buf' = <<>>, pc' # "select" => selected'[base'] = 0 PROVE Unserved'
    <2>1. Len(buf') = 0
      BY <1>3, EmptySequence
    <2> QED
      BY <1>3, <2>1 DEF Unserved
  <1>4. CASE iso9660_mount \/ Probe \/ Scan \/ Leaving
    <2>1. pc' \in {"probe", "scan", "mounted", "idle"}
      BY <1>4 DEF iso9660_mount, Probe, Scan, Leaving
    <2> QED
      BY <1>2, <2>1 DEF Reading
  <1>5. CASE Select
    <2>1. /\ pc = "select" /\ selected' = [selected EXCEPT ![base] = 0]
          /\ base' = base /\ base \in {0, 1} /\ buf' = buf
      BY <1>5 DEF Select, Scanned, base
    <2>2. buf = <<>> /\ selected'[base] = 0
      BY <2>1 DEF WholeInv, DriveTyped, Scanned
    <2> QED
      BY <1>3, <2>1, <2>2
  <1>6. CASE (Command \/ Offer \/ Send \/ Settle \/ Ready) /\ UNCHANGED medium
    <2>1. /\ UNCHANGED <<devices, current_atapi_base, selected, buf>>
          /\ pc \in Reading /\ pc # "select"
      BY <1>6 DEF Command, Offer, Send, Settle, Ready, medium, Reading
    <2> QED
      BY <2>1 DEF Unserved, Own, base
  <1>7. CASE Data /\ UNCHANGED medium
    <2>1. /\ UNCHANGED <<devices, current_atapi_base, selected>> /\ pc = "data"
          /\ ~(Selected(base) = "cdrom" /\ phase = "data") => buf' = Append(buf, Junk)
      BY <1>7 DEF Data, medium
    <2>2. base' = base /\ (Own' <=> Own)
      BY <2>1 DEF Own, base
    <2> SUFFICES ASSUME ~Own
                 PROVE  selected'[base'] = 0 /\ \A k \in 1 .. Len(buf') : buf'[k] = Junk
      BY <2>2 DEF Unserved
    <2>3. selected[base] = 0 /\ \A k \in 1 .. Len(buf) : buf[k] = Junk
      BY <2>1 DEF Unserved, Reading
    <2>4. buf' = Append(buf, Junk) /\ Sequence(buf)
      BY <2>1, <2>3 DEF Selected, Own, WholeInv, DriveTyped
    <2>5. /\ Len(buf') = Len(buf) + 1 /\ Len(buf) \in Nat
          /\ \A k \in 1 .. Len(buf) : buf'[k] = buf[k]
          /\ buf'[Len(buf) + 1] = Junk
      BY <2>4, Appended
    <2>6. ASSUME NEW k \in 1 .. Len(buf') PROVE buf'[k] = Junk
      <3>1. k \in 1 .. Len(buf) \/ k = Len(buf) + 1
        BY <2>5
      <3> QED
        BY <2>3, <2>5, <3>1
    <2> QED
      BY <2>1, <2>2, <2>3, <2>6
  <1>8. CASE Drive
    BY <1>8 DEF Drive, driverVars, Unserved, Own, base
  <1>9. ASSUME NEW l, Calling(l) PROVE Unserved'
    BY <1>3, <1>9 DEF Calling, Read
  <1> QED
    BY <1>1, <1>4, <1>5, <1>6, <1>7, <1>8, <1>9, AtapiMoves DEF Driver, atapi_read_sector

\* A sector that is read is the sector asked for, whole and in order, if the
\* drive has not refused it and was not late in this read or the one before,
\* whatever it did earlier; from a drive that is its bus's slave nothing is read.
\* WholeSector, for any drives, any discs whose records fit into their sectors,
\* and any lengths of sectors and packets.
THEOREM SectorsWhole == Spec => []WholeSector
  <1> DEFINE Inv == Where /\ Scanned /\ WholeInv /\ Unserved
  <1>1. Init => Inv
    <2>1. Init => Unserved
      BY DEF Init, AtapiInit, Unserved, Reading
    <2> QED
      BY <2>1, FilesStart, WholeStart
  <1>2. Inv /\ [Next]_vars => Inv'
    BY WhereStep, ScannedStep, WholeStep, UnservedStep
  <1>3. Inv => WholeSector
    <2> SUFFICES ASSUME Inv, pc = "return" PROVE WholeSector
      BY DEF WholeSector
    <2>1. CASE Own
      BY <2>1 DEF WholeInv, Served, Own, Exact, WholeSector
    <2>2. CASE ~Own
      <3> DEFINE nothing == [k \in 1 .. SectorWords |-> Junk]
      <3>1. nothing \in Seq({Junk}) /\ Len(nothing) = SectorWords
        BY AtapiAssumption
      <3>2. \A k \in 1 .. SectorWords : nothing[k] = Junk
        OBVIOUS
      <3> HIDE DEF nothing
      <3>3. Sequence(nothing)
        BY <3>1, SequenceOf
      <3>4. Sequence(buf) /\ Len(buf) = SectorWords /\ \A k \in 1 .. Len(buf) : buf[k] = Junk
        BY <2>2 DEF WholeInv, DriveTyped, Unserved, Reading
      <3>5. buf = nothing
        BY <3>1, <3>2, <3>3, <3>4, SameSequence
      <3> QED
        BY <2>2, <3>5 DEF nothing, Own, WholeSector
    <2> QED
      BY <2>1, <2>2
  <1> QED
    BY <1>1, <1>2, <1>3, PTL DEF Spec

-----------------------------------------------------------------------------
(* What the loader walks over *)

Openable == opened # <<>> => opened[1] \in Seq(Nat)

Counted ==
    /\ data \in Seq(Nat) /\ off \in Nat
    /\ cp_count \in 0 .. MaxPool /\ n \in Nat /\ attrs \in Nat
    /\ request \in {Heap!NoRequest} \union 0 .. MaxPool
    /\ at \in {"skip", "attribute"} => n # 0

\* What is behind the end of the file reads as zero.
LEMMA Units == ASSUME data \in Seq(Nat), NEW k \in Nat PROVE Unit(k) \in Nat
  BY DEF Unit, size

\* The width and the slots of an entry are lengths.
LEMMA Widths ==
  ASSUME data \in Seq(Nat), off \in Nat, NEW tag, Known(tag)
  PROVE  Width(tag) \in Nat /\ Slots(tag) \in Nat
  <1>1. Unit(off + 1) \in Nat
    BY Units
  <1>2. Slots(tag) \in Nat
    BY DEF Slots
  <1> QED
    BY <1>1, <1>2 DEF Width

\* A part of the file moves the loader on by what it is long.
LEMMA Parts ==
  ASSUME off \in Nat, NEW units \in Nat, NEW skip \in Nat, NEW next, Part(units, next, skip)
  PROVE  off' \in Nat /\ at' \in {"done", next}
  BY DEF Part

\* Each step of a loop leaves lengths and counts.
LEMMA WalkCounts == Counted /\ Walk => Counted'
  <1> SUFFICES ASSUME Counted, Walk PROVE Counted'
    OBVIOUS
  <1>1. /\ data \in Seq(Nat) /\ off \in Nat /\ n \in Nat /\ attrs \in Nat
        /\ \A k \in Nat : Unit(k) \in Nat
    BY Units DEF Counted
  <1>2. /\ Unit(off) \in Nat /\ Unit(off + 1) \in Nat /\ Unit(off + 3) \in Nat
    <2>1. off + 1 \in Nat /\ off + 3 \in Nat
      BY <1>1
    <2> QED
      BY <1>1, <2>1
  <1>3. CASE Allocated
    <2>1. request' = Heap!NoRequest
      BY <1>3 DEF Allocated, Heap!Grant, Heap!Refuse
    <2> QED
      BY <1>3, <2>1 DEF Allocated, Counted
  <1>4. CASE PoolEntry
    <2>1. UNCHANGED <<heapVars, data, cp_count, attrs, method, ran>> /\ at' \in {at, "header"}
          /\ at = "pool"
      BY <1>4 DEF PoolEntry
    <2>2. off' \in Nat /\ n' \in Nat
      <3>1. CASE Known(Unit(off)) /\ off' = off + 1 + Width(Unit(off)) /\ n' = n + Slots(Unit(off))
        <4>1. Width(Unit(off)) \in Nat /\ Slots(Unit(off)) \in Nat
          BY <1>1, <3>1, Widths
        <4>2. off \in Nat /\ n \in Nat
          BY <1>1
        <4>3. off' = off + 1 + Width(Unit(off)) /\ n' = n + Slots(Unit(off))
          BY <3>1
        <4> QED
          BY <4>1, <4>2, <4>3
      <3>2. CASE off' = off + 1 /\ UNCHANGED n
        BY <1>1, <3>2
      <3> QED
        BY <1>4, <3>1, <3>2 DEF PoolEntry
    <2> QED
      BY <2>1, <2>2 DEF Counted, heapVars
  <1>5. CASE PoolDone
    BY <1>5 DEF PoolDone, Counted, heapVars
  <1>6. CASE Header
    <2>1. off' \in Nat /\ at' \in {"done", "fields"}
      BY <1>1, <1>2, <1>6, Parts DEF Header
    <2> QED
      BY <1>6, <2>1 DEF Header, walkVars, heapVars, Counted
  <1>7. CASE Fields
    <2>1. off' \in Nat /\ at' \in {"done", "field"}
      BY <1>1, <1>7, Parts DEF Fields
    <2> QED
      BY <1>2, <1>7, <2>1 DEF Fields, walkVars, heapVars, Counted
  <1>8. CASE Field
    <2>1. CASE n = 0
      BY <1>8, <2>1 DEF Field, walkVars, heapVars, Counted
    <2>2. CASE n # 0
      <3>1. off' \in Nat /\ at' \in {"done", "skip"}
        BY <1>1, <1>8, <2>2, Parts DEF Field
      <3> QED
        BY <1>2, <1>8, <2>2, <3>1 DEF Field, walkVars, heapVars, Counted
    <2> QED
      BY <2>1, <2>2
  <1>9. CASE FieldAttribute
    <2>1. n # 0
      BY <1>9 DEF FieldAttribute, Counted
    <2>2. CASE attrs = 0
      BY <1>1, <1>9, <2>1, <2>2 DEF FieldAttribute, walkVars, heapVars, Counted
    <2>3. CASE attrs # 0
      <3>1. off' \in Nat /\ at' \in {"done", "skip"}
        BY <1>1, <1>2, <1>9, <2>3, Parts DEF FieldAttribute
      <3> QED
        BY <1>1, <1>9, <2>1, <2>3, <3>1 DEF FieldAttribute, walkVars, heapVars, Counted
    <2> QED
      BY <2>2, <2>3
  <1>10. CASE Methods
    <2>1. off' \in Nat /\ at' \in {"done", "method"}
      BY <1>1, <1>10, Parts DEF Methods
    <2> QED
      BY <1>2, <1>10, <2>1 DEF Methods, walkVars, heapVars, Counted
  <1>11. CASE Method
    <2>1. CASE n = 0
      BY <1>11, <2>1 DEF Method, walkVars, heapVars, Counted
    <2>2. CASE n # 0
      <3>1. off' \in Nat /\ at' \in {"done", "attribute"}
        BY <1>1, <1>11, <2>2, Parts DEF Method
      <3> QED
        BY <1>2, <1>11, <2>2, <3>1 DEF Method, walkVars, heapVars, Counted
    <2> QED
      BY <2>1, <2>2
  <1>12. CASE MethodAttribute
    <2>1. n # 0 /\ UNCHANGED <<heapVars, data, cp, cp_count>>
      BY <1>12 DEF MethodAttribute, Counted
    <2>2. CASE attrs > 0 /\ Part(2, "attribute", Unit(off + 1)) /\ attrs' = attrs - 1 /\ n' = n
      <3>1. off' \in Nat
        BY <1>1, <1>2, <2>2, Parts
      <3> QED
        BY <1>1, <2>1, <2>2, <3>1 DEF heapVars, Counted
    <2>3. CASE at' = "done" /\ UNCHANGED <<off, n, attrs, method>>
      BY <2>1, <2>3 DEF heapVars, Counted
    <2>4. CASE n' = n - 1 /\ at' = "method" /\ UNCHANGED <<off, attrs, method, ran>>
      BY <1>1, <2>1, <2>4 DEF heapVars, Counted
    <2> QED
      BY <1>12, <2>2, <2>3, <2>4 DEF MethodAttribute
  <1>13. CASE Done
    BY <1>13 DEF Done, Heap!Release, Counted
  <1> QED
    BY <1>3, <1>4, <1>5, <1>6, <1>7, <1>8, <1>9, <1>10, <1>11, <1>12, <1>13 DEF Walk

\* The call counts the file's units and asks for as many entries as it says.
LEMMA CallCounts == ASSUME Counted, NEW d \in Seq(Nat), class_execute(d) PROVE Counted'
  <1>1. CASE Len(d) >= 4 /\ d[1] = ClassMagic /\ d[4] <= MaxPool
    <2>1. d[4] \in Nat
      BY <1>1
    <2>2. d[4] \in 0 .. MaxPool
      BY <1>1, <2>1, ClassAssumption
    <2>3. request' = d[4] /\ cp_count' = d[4] /\ at' = "malloc" /\ data' = d
      BY <1>1 DEF class_execute, Heap!Ask
    <2> QED
      BY <2>2, <2>3 DEF class_execute, Counted
  <1>2. CASE ~(Len(d) >= 4 /\ d[1] = ClassMagic /\ d[4] <= MaxPool)
    BY <1>2 DEF class_execute, Counted, heapVars
  <1> QED
    BY <1>1, <1>2

\* Every step of the kernel: the loader counts what it was given.
LEMMA CountedStep == Openable /\ Counted /\ [Next]_vars => Counted'
  <1> SUFFICES ASSUME Openable, Counted, [Next]_vars PROVE Counted'
    OBVIOUS
  <1>1. CASE UNCHANGED loaderVars
    BY <1>1 DEF loaderVars, heapVars, Counted
  <1>2. CASE opened # <<>> /\ class_execute(opened[1])
    BY <1>2, CallCounts DEF Openable
  <1>3. CASE Walk
    BY <1>3, WalkCounts
  <1>4. CASE JavaReturns
    BY <1>4 DEF JavaReturns, heapVars, Counted
  <1> QED
    BY <1>1, <1>2, <1>3, <1>4, LoaderMoves

-----------------------------------------------------------------------------
(* What cat reads of a disc *)

\* Quotient and remainder of a division by the length of a sector.
LEMMA SectorDivision ==
  ASSUME NEW a \in Nat
  PROVE  /\ a \div SectorWords \in Nat /\ a % SectorWords \in 0 .. SectorWords - 1
         /\ a = (a \div SectorWords) * SectorWords + (a % SectorWords)
  <1>1. PICK w \in Nat \ {0} : w = SectorWords
    BY AtapiAssumption
  <1>2. /\ a \div w \in Int /\ a % w \in 0 .. w - 1
        /\ a = (a \div w) * w + (a % w)
    OBVIOUS
  <1>3. PICK q \in Int, m \in 0 .. w - 1 : q = a \div w /\ m = a % w /\ a = q * w + m
    BY <1>2
  <1>4. q >= 0
    <2> SUFFICES ASSUME q <= -1 PROVE FALSE
      OBVIOUS
    <2>1. q * w <= (-1) * w
      OBVIOUS
    <2> QED
      BY <1>3, <2>1
  <1> QED
    BY <1>1, <1>2, <1>3, <1>4

\* The place of a word in its file tells its sector and its place there.
LEMMA PlaceInFile ==
  ASSUME NEW whole \in Nat, NEW j \in 1 .. SectorWords
  PROVE  LET k == whole * SectorWords + j
         IN  (k - 1) \div SectorWords = whole /\ ((k - 1) % SectorWords) + 1 = j
  <1>1. PICK w \in Nat \ {0} : w = SectorWords
    BY AtapiAssumption
  <1>2. PICK a : a = whole * w + j - 1
    OBVIOUS
  <1>3. a \in Nat /\ j \in 1 .. w /\ whole * w \in Nat
    BY <1>1, <1>2
  <1>4. PICK q, m : q = a \div w /\ m = a % w
    OBVIOUS
  <1>5. q \in Nat /\ m \in 0 .. w - 1 /\ a = q * w + m
    BY <1>1, <1>3, <1>4, SectorDivision
  <1>6. ASSUME q < whole PROVE FALSE
    <2>1. (q + 1) * w <= whole * w /\ (q + 1) * w = q * w + w /\ q * w \in Nat
      BY <1>5, <1>6
    <2> QED
      BY <1>2, <1>3, <1>5, <2>1
  <1>7. ASSUME whole < q PROVE FALSE
    <2>1. (whole + 1) * w <= q * w /\ (whole + 1) * w = whole * w + w /\ q * w \in Nat
      BY <1>5, <1>7
    <2> QED
      BY <1>2, <1>3, <1>5, <2>1
  <1>8. q = whole
    BY <1>5, <1>6, <1>7
  <1>9. m + 1 = j
    BY <1>2, <1>3, <1>5, <1>8
  <1>10. a = whole * SectorWords + j - 1
    BY <1>1, <1>2
  <1> QED
    BY <1>1, <1>4, <1>8, <1>9, <1>10

\* The sectors of a file have room for it, and no file has none.
LEMMA Rounding ==
  ASSUME NEW bytes \in Nat
  PROVE  /\ Sectors(bytes) \in Nat /\ bytes <= Sectors(bytes) * SectorWords
         /\ Sectors(bytes) = 0 => bytes = 0
  <1>1. PICK w \in Nat \ {0} : w = SectorWords
    BY AtapiAssumption
  <1>2. bytes + w - 1 \in Nat
    OBVIOUS
  <1>3. PICK q, m : q = (bytes + w - 1) \div w /\ m = (bytes + w - 1) % w
    OBVIOUS
  <1>4. q \in Nat /\ m \in 0 .. w - 1 /\ bytes + w - 1 = q * w + m
    BY <1>1, <1>2, <1>3, SectorDivision
  <1>5. q * w \in Nat /\ bytes <= q * w
    BY <1>4
  <1>6. q = 0 => bytes = 0
    BY <1>4
  <1> QED
    BY <1>1, <1>3, <1>4, <1>5, <1>6 DEF Sectors

\* Two sequences of words one behind the other.
LEMMA Joined ==
  ASSUME NEW w, NEW t, Sequence(w), Sequence(t)
  PROVE  /\ Sequence(w \o t) /\ Len(w \o t) = Len(w) + Len(t) /\ Len(w) \in Nat /\ Len(t) \in Nat
         /\ \A k \in 1 .. Len(w) : (w \o t)[k] = w[k]
         /\ \A k \in 1 .. Len(t) : (w \o t)[Len(w) + k] = t[k]
  <1> DEFINE S == ToSet(w) \union ToSet(t)
  <1>1. w \in Seq(S) /\ t \in Seq(S)
    BY DEF Sequence
  <1> HIDE DEF S
  <1>2. /\ w \o t \in Seq(S) /\ Len(w \o t) = Len(w) + Len(t)
        /\ Len(w) \in Nat /\ Len(t) \in Nat
        /\ \A k \in 1 .. Len(w) : (w \o t)[k] = w[k]
        /\ \A k \in 1 .. Len(t) : (w \o t)[Len(w) + k] = t[k]
    BY <1>1
  <1>3. Sequence(w \o t)
    BY <1>2, SequenceOf
  <1> QED
    BY <1>2, <1>3

\* The first words of a sequence.
LEMMA Cut ==
  ASSUME NEW w, Sequence(w), NEW m \in 0 .. Len(w)
  PROVE  /\ Sequence(SubSeq(w, 1, m)) /\ Len(SubSeq(w, 1, m)) = m
         /\ \A k \in 1 .. m : SubSeq(w, 1, m)[k] = w[k]
  <1>1. w \in Seq(ToSet(w)) /\ Len(w) \in Nat
    BY DEF Sequence
  <1>2. SubSeq(w, 1, m) = [k \in 1 .. m |-> w[k]]
    BY <1>1
  <1>3. \A k \in 1 .. m : w[k] \in ToSet(w)
    BY <1>1
  <1>4. SubSeq(w, 1, m) \in Seq(ToSet(w)) /\ Len(SubSeq(w, 1, m)) = m
    BY <1>1, <1>2, <1>3
  <1> QED
    BY <1>2, <1>4, SequenceOf

\* The root directory's first sector, and the words of a file that a record leads to.
RootLba == disc[PvdLba][1].lba
WordOf(r, k) == disc[r.lba + (k - 1) \div SectorWords][((k - 1) % SectorWords) + 1]

Gathered(m) ==
    Sequence(out) /\ Len(out) = m /\ \A k \in 1 .. m : out[k] = WordOf(rec, k)

\* The record find_file_record takes.
Chosen(sector, target) == Records(sector)[Min(Matching(sector, target))]

\* A record with a size and a place.
Placed(r) == r.size \in Nat /\ r.lba \in Nat

\* What iso9660_read_file has to find and to read.
ReadsFile ==
    LET matching == Matching(disc[RootLba], path)
    IN IF matching = {} THEN found = "none"
       ELSE found = "file" /\ rec = Chosen(disc[RootLba], path) /\ (Placed(rec) => Gathered(rec.size))

\* How far it has come.
Progress ==
    /\ fs = "pvd" => lba = PvdLba /\ out = <<>>
    /\ fs = "record" => lba = RootLba /\ out = <<>>
    /\ fs = "content" =>
         /\ Matching(disc[RootLba], path) # {} /\ rec = Chosen(disc[RootLba], path)
         /\ Placed(rec) => /\ s \in Nat /\ s < Sectors(rec.size) /\ lba = rec.lba + s
                           /\ Gathered(s * SectorWords)
    /\ fs = "idle" => ReadsFile

Catching ==
    main = "cat" => fs \in {"idle", "pvd", "record", "content"} /\ (Healthy => Progress)

\* A sector that comes back to a healthy drive's caller is the one asked for.
LEMMA SectorBack ==
  ASSUME WholeInv, NEW function, Back(function), Healthy', UNCHANGED <<medium, current_atapi_base>>
  PROVE  Healthy /\ buf = disc[lba] /\ Sequence(buf) /\ Len(buf) = SectorWords
  <1>1. pc = "return" /\ sound /\ trouble = 0 /\ devices[<<base, 0>>] = "cdrom"
    BY DEF Back, Healthy, medium, base
  <1> QED
    BY <1>1 DEF WholeInv, DriveTyped, Served, Own, Exact, Healthy

\* A sector more.
LEMMA Gathering ==
  ASSUME Placed(rec), NEW m \in Nat, Gathered(m * SectorWords),
         NEW b, Sequence(b), Len(b) = SectorWords, b = disc[rec.lba + m]
  PROVE  LET all == out \o b
         IN  /\ Sequence(all) /\ Len(all) = (m + 1) * SectorWords
             /\ \A k \in 1 .. (m + 1) * SectorWords : all[k] = WordOf(rec, k)
  <1> DEFINE all == out \o b
  <1>1. /\ Sequence(all) /\ Len(all) = Len(out) + Len(b)
        /\ \A k \in 1 .. Len(out) : all[k] = out[k]
        /\ \A k \in 1 .. Len(b) : all[Len(out) + k] = b[k]
    <2>1. Sequence(out)
      BY DEF Gathered
    <2> QED
      BY <2>1, Joined, SMTT(30)
  <1>2. PICK w \in Nat \ {0} : w = SectorWords
    BY AtapiAssumption
  <1>3. (m + 1) * w = m * w + w /\ m * w \in Nat
    OBVIOUS
  <1>4. Len(out) = m * w /\ Len(b) = w
    BY <1>2 DEF Gathered
  <1> HIDE DEF all
  <1>5. ASSUME NEW k \in 1 .. (m + 1) * SectorWords PROVE all[k] = WordOf(rec, k)
    <2>1. k \in Nat /\ k >= 1 /\ k <= m * w + w
      BY <1>2, <1>3
    <2>2. CASE k <= m * w
      <3>1. k \in 1 .. m * SectorWords /\ k \in 1 .. Len(out)
        BY <1>2, <1>3, <1>4, <2>1, <2>2
      <3> QED
        BY <1>1, <3>1 DEF Gathered
    <2>3. CASE k > m * w
      <3>1. PICK j \in 1 .. w : k = m * w + j
        <4>1. k - m * w \in 1 .. w /\ k = m * w + (k - m * w)
          BY <1>3, <2>1, <2>3
        <4> QED
          BY <4>1
      <3>2. all[k] = b[j]
        BY <1>1, <1>4, <3>1
      <3>3. (k - 1) \div SectorWords = m /\ ((k - 1) % SectorWords) + 1 = j
        BY <1>2, <3>1, PlaceInFile
      <3> QED
        BY <3>2, <3>3 DEF WordOf
    <2> QED
      BY <1>3, <2>1, <2>2, <2>3
  <1>6. Len(all) = (m + 1) * SectorWords
    BY <1>1, <1>2, <1>3, <1>4
  <1> QED
    BY <1>1, <1>5, <1>6 DEF all

\* Every step of the reader keeps the progress: the descriptor leads to the root
\* directory, the record to the file, and each sector that comes back is the next.
LEMMA ReaderCatches ==
  ASSUME WholeInv, Catching, main = "cat", DiscStep
  PROVE  Catching'
  <1>1. /\ UNCHANGED medium /\ main' = main /\ IsoStep
        /\ fs \in {"idle", "pvd", "record", "content"} /\ (Healthy => Progress)
    BY DEF DiscStep, medium, hardware, Catching
  <1> SUFFICES /\ fs' \in {"idle", "pvd", "record", "content"} /\ (Healthy' => Progress')
    BY <1>1 DEF Catching
  <1>2. CASE FindRoot
    <2>1. /\ Back("pvd") /\ fs' = "record" /\ lba' = buf[1].lba /\ out' = out
          /\ current_atapi_base' = current_atapi_base
      BY <1>2 DEF FindRoot, Call, Read, DriveRests
    <2>2. fs = "pvd"
      BY <2>1 DEF Back
    <2>3. ASSUME Healthy' PROVE Progress'
      <3>1. Healthy /\ buf = disc[lba]
        BY <1>1, <2>1, <2>3, SectorBack
      <3>2. lba = PvdLba /\ out = <<>>
        BY <1>1, <2>2, <3>1 DEF Progress
      <3> QED
        BY <1>1, <2>1, <3>1, <3>2 DEF Progress, RootLba, medium
    <2> QED
      BY <2>1, <2>3
  <1>3. CASE FindRecord
    <2> DEFINE matching == Matching(buf, path)
               chosen == Chosen(buf, path)
    <2>1. /\ Back("record") /\ out' = out /\ path' = path
          /\ current_atapi_base' = current_atapi_base
          /\ \/ matching = {} /\ fs' = "idle" /\ found' = "none"
             \/ /\ matching # {} /\ rec' = chosen
                /\ \/ Sectors(rec'.size) = 0 /\ fs' = "idle" /\ found' = "file"
                   \/ /\ Sectors(rec'.size) # 0 /\ fs' = "content"
                      /\ lba' = rec'.lba /\ s' = 0
      BY <1>3 DEF FindRecord, NextSector, Call, Read, Return, DriveRests, Chosen
    <2>2. fs = "record"
      BY <2>1 DEF Back
    <2>3. ASSUME Healthy' PROVE Progress'
      <3>1. Healthy /\ buf = disc[lba]
        BY <1>1, <2>1, <2>3, SectorBack
      <3>2. lba = RootLba /\ out = <<>>
        BY <1>1, <2>2, <3>1 DEF Progress
      <3>3. /\ matching = Matching(disc[RootLba], path)' /\ disc' = disc
            /\ chosen = Chosen(disc[RootLba], path)'
        BY <1>1, <2>1, <3>1, <3>2 DEF RootLba, medium
      <3> HIDE DEF matching, chosen
      <3>4. CASE matching = {}
        BY <2>1, <3>3, <3>4 DEF Progress, ReadsFile
      <3>5. CASE matching # {} /\ Sectors(rec'.size) = 0
        <4>1. fs' = "idle" /\ found' = "file" /\ rec' = chosen
          BY <2>1, <3>5
        <4>2. Placed(rec)' => Gathered(rec.size)'
          <5> SUFFICES ASSUME Placed(rec)' PROVE Gathered(rec.size)'
            OBVIOUS
          <5>1. rec'.size = 0
            BY <3>5, Rounding DEF Placed
          <5> QED
            BY <2>1, <3>2, <5>1, EmptySequence DEF Gathered
        <4> QED
          BY <3>3, <3>5, <4>1, <4>2 DEF Progress, ReadsFile
      <3>6. CASE matching # {} /\ Sectors(rec'.size) # 0
        <4>1. fs' = "content" /\ rec' = chosen /\ lba' = rec'.lba /\ s' = 0
          BY <2>1, <3>6
        <4>2. ASSUME Placed(rec)'
              PROVE  s' \in Nat /\ s' < Sectors(rec'.size) /\ lba' = rec'.lba + s'
                     /\ Gathered(s * SectorWords)'
          <5>1. s' * SectorWords = 0
            BY <4>1, AtapiAssumption
          <5>2. rec'.size \in Nat /\ rec'.lba \in Nat
            BY <4>2 DEF Placed
          <5>3. Sectors(rec'.size) \in Nat
            BY <5>2, Rounding
          <5>4. s' \in Nat /\ s' < Sectors(rec'.size) /\ lba' = rec'.lba + s'
            BY <3>6, <4>1, <5>2, <5>3
          <5>5. Gathered(s * SectorWords)'
            BY <2>1, <3>2, <5>1, EmptySequence DEF Gathered
          <5> QED
            BY <5>4, <5>5
        <4> QED
          BY <3>3, <3>6, <4>1, <4>2 DEF Progress
      <3> QED
        BY <3>4, <3>5, <3>6
    <2> QED
      BY <2>1, <2>3
  <1>4. CASE ReadContent
    <2>1. /\ Back("content") /\ rec' = rec /\ path' = path
          /\ current_atapi_base' = current_atapi_base
          /\ IF s + 1 < Sectors(rec.size)
             THEN /\ fs' = "content" /\ lba' = rec.lba + s + 1 /\ s' = s + 1
                  /\ out' = out \o buf
             ELSE /\ fs' = "idle" /\ found' = "file"
                  /\ out' = SubSeq(out \o buf, 1, rec.size)
      BY <1>4 DEF ReadContent, NextSector, Call, Read, Return, DriveRests
    <2>2. fs = "content"
      BY <2>1 DEF Back
    <2>3. ASSUME Healthy' PROVE Progress'
      <3>1. Healthy /\ buf = disc[lba] /\ Sequence(buf) /\ Len(buf) = SectorWords
        BY <1>1, <2>1, <2>3, SectorBack
      <3>2. Matching(disc[RootLba], path) # {} /\ rec = Chosen(disc[RootLba], path)
        BY <1>1, <2>2, <3>1 DEF Progress
      <3>3. Placed(rec) => /\ s \in Nat /\ s < Sectors(rec.size) /\ lba = rec.lba + s
                           /\ Gathered(s * SectorWords)
        BY <1>1, <2>2, <3>1 DEF Progress
      <3>4. disc' = disc
        BY <1>1 DEF medium
      <3>5. /\ Matching(disc[RootLba], path)' # {} /\ rec' = Chosen(disc[RootLba], path)'
        BY <2>1, <3>2, <3>4 DEF RootLba
      <3>6. Placed(rec) => /\ Sequence(out \o buf) /\ Len(out \o buf) = (s + 1) * SectorWords
                           /\ \A k \in 1 .. (s + 1) * SectorWords :
                                 (out \o buf)[k] = WordOf(rec, k)
        <4> SUFFICES ASSUME Placed(rec)
                     PROVE  /\ Sequence(out \o buf) /\ Len(out \o buf) = (s + 1) * SectorWords
                            /\ \A k \in 1 .. (s + 1) * SectorWords :
                                  (out \o buf)[k] = WordOf(rec, k)
          OBVIOUS
        <4>1. s \in Nat /\ Gathered(s * SectorWords) /\ buf = disc[rec.lba + s]
          BY <3>1, <3>3
        <4> QED
          BY <3>1, <4>1, Gathering
      <3> DEFINE all == out \o buf
      <3>7. CASE s + 1 < Sectors(rec.size)
        <4>1. fs' = "content" /\ lba' = rec.lba + s + 1 /\ s' = s + 1 /\ out' = all
          BY <2>1, <3>7
        <4> HIDE DEF all
        <4>2. ASSUME Placed(rec)'
              PROVE  s' \in Nat /\ s' < Sectors(rec'.size) /\ lba' = rec'.lba + s'
                     /\ Gathered(s * SectorWords)'
          <5>1. Placed(rec)
            BY <2>1, <4>2 DEF Placed
          <5>2. /\ s' \in Nat /\ s' < Sectors(rec'.size)
            BY <2>1, <3>3, <3>7, <4>1, <5>1
          <5>3. lba' = rec'.lba + s'
            <6>1. rec.lba \in Nat /\ s \in Nat
              BY <3>3, <5>1 DEF Placed
            <6>2. rec.lba + s + 1 = rec.lba + (s + 1)
              BY <6>1
            <6> QED
              BY <2>1, <4>1, <6>2
          <5>4. Gathered(s * SectorWords)'
            BY <2>1, <3>4, <3>6, <4>1, <5>1 DEF Gathered, WordOf, all
          <5> QED
            BY <5>2, <5>3, <5>4
        <4> QED
          BY <3>5, <4>1, <4>2 DEF Progress
      <3>8. CASE ~(s + 1 < Sectors(rec.size))
        <4>1. fs' = "idle" /\ found' = "file" /\ out' = SubSeq(all, 1, rec.size)
          BY <2>1, <3>8
        <4> HIDE DEF all
        <4>2. ASSUME Placed(rec)' PROVE Gathered(rec.size)'
          <5>1. Placed(rec) /\ rec.size \in Nat
            BY <2>1, <4>2 DEF Placed
          <5>2. rec.size <= (s + 1) * SectorWords
            <6>1. s + 1 = Sectors(rec.size)
              BY <3>3, <3>8, <5>1, Rounding
            <6> QED
              BY <5>1, <6>1, Rounding
          <5>3. Sequence(all) /\ rec.size \in 0 .. Len(all)
            <6>1. Sequence(all) /\ Len(all) = (s + 1) * SectorWords
              BY <3>6, <5>1 DEF all
            <6>2. Len(all) \in Nat
              BY <6>1, NoneLeft
            <6> QED
              BY <5>1, <5>2, <6>1, <6>2
          <5>4. /\ Sequence(out') /\ Len(out') = rec.size
                /\ \A k \in 1 .. rec.size : out'[k] = all[k]
            BY <4>1, <5>3, Cut
          <5>5. ASSUME NEW k \in 1 .. rec.size PROVE all[k] = WordOf(rec, k)
            <6>1. k \in 1 .. (s + 1) * SectorWords
              <7>1. Len(all) = (s + 1) * SectorWords
                BY <3>6, <5>1 DEF all
              <7> QED
                BY <5>1, <5>3, <7>1
            <6> QED
              BY <3>6, <5>1, <6>1 DEF all
          <5> QED
            BY <2>1, <3>4, <5>4, <5>5 DEF Gathered, WordOf
        <4> QED
          BY <3>5, <4>1, <4>2 DEF Progress, ReadsFile
      <3> QED
        BY <3>7, <3>8
    <2> QED
      BY <2>1, <2>3
  <1>5. CASE ListRoot \/ ListSector
    BY <1>1, <1>5 DEF ListRoot, ListSector, Back
  <1> QED
    BY <1>1, <1>2, <1>3, <1>4, <1>5 DEF IsoStep
\* The other steps leave the reader alone, or begin to read, or are not part of cat.
LEMMA CatchingStep == Where /\ WholeInv /\ Catching /\ [Next]_vars => Catching'
  <1> SUFFICES ASSUME Where, WholeInv, Catching, [Next]_vars PROVE Catching'
    OBVIOUS
  <1>1. ASSUME main' # "cat" PROVE Catching'
    BY <1>1 DEF Catching
  <1>2. ASSUME UNCHANGED <<main, isoVars, lba, medium, current_atapi_base>> PROVE Catching'
    <2>1. UNCHANGED <<main, fs, path, rec, s, out, found, sound, lba, devices, disc, current_atapi_base>>
      BY <1>2 DEF isoVars, medium
    <2>2. /\ Healthy' = Healthy /\ RootLba' = RootLba /\ Placed(rec)' = Placed(rec)
          /\ Matching(disc[RootLba], path)' = Matching(disc[RootLba], path)
          /\ Chosen(disc[RootLba], path)' = Chosen(disc[RootLba], path)
      BY <2>1 DEF Healthy, base, RootLba, Placed
    <2>3. ASSUME NEW m, Gathered(m) PROVE Sequence(out') /\ Len(out') = m
                    /\ \A k \in 1 .. m : out'[k] = WordOf(rec, k)'
      BY <2>1, <2>3 DEF Gathered, WordOf
    <2>4. Gathered(rec.size) => Gathered(rec.size)'
      BY <2>1, <2>3 DEF Gathered
    <2>5. Gathered(s * SectorWords) => Gathered(s * SectorWords)'
      BY <2>1, <2>3 DEF Gathered
    <2>6. ReadsFile => ReadsFile'
      BY <2>1, <2>2, <2>4 DEF ReadsFile
    <2>7. Progress => Progress'
      BY <2>1, <2>2, <2>5, <2>6 DEF Progress
    <2> QED
      BY <2>1, <2>2, <2>7 DEF Catching
  <1>3. CASE Ls
    BY <1>1, <1>3 DEF Ls
  <1>4. ASSUME NEW name, Cat(name) PROVE Catching'
    <2>1. \/ main' = "answered"
          \/ fs' = "pvd" /\ lba' = PvdLba /\ out' = <<>>
      BY <1>4 DEF Cat, iso9660_read_file, Call, Read
    <2> QED
      BY <1>1, <2>1 DEF Catching, Progress
  <1>5. ASSUME NEW name, Java(name) PROVE Catching'
    BY <1>1, <1>5 DEF Java
  <1>6. CASE LoadInitrd \/ ReadConfig \/ Mounted \/ DiscAnswers \/ Execute \/ JavaReturns
    <2>1. LoadInitrd => main' = "config"
      BY DEF LoadInitrd
    <2>2. ReadConfig => main' = "mount"
      BY DEF ReadConfig
    <2>3. Mounted \/ DiscAnswers \/ JavaReturns => main' = "answered"
      BY DEF Mounted, DiscAnswers, JavaReturns
    <2>4. Execute => main' \in {"answered", "class"}
      BY DEF Execute
    <2> QED
      BY <1>1, <1>6, <2>1, <2>2, <2>3, <2>4
  <1>7. CASE DriverStep
    <2>1. UNCHANGED <<main, isoVars, medium>> /\ Driver
      BY <1>7 DEF DriverStep, hardware, medium
    <2>2. CASE main # "cat"
      BY <1>1, <2>1, <2>2
    <2>3. CASE main = "cat"
      <3>1. pc \notin {"probe", "scan"}
        BY <2>3 DEF Where, Reading
      <3>2. atapi_read_sector
        BY <2>1, <3>1 DEF Driver, Probe, Scan
      <3>3. Select \/ Command \/ Offer \/ Settle \/ Ready => UNCHANGED <<lba, current_atapi_base>>
        BY DEF Select, Command, Offer, Settle, Ready
      <3>4. Send \/ Data => UNCHANGED <<lba, current_atapi_base>>
        BY DEF Send, Data
      <3> QED
        BY <1>2, <2>1, <3>2, <3>3, <3>4 DEF atapi_read_sector
    <2> QED
      BY <2>2, <2>3
  <1>8. CASE DiscStep
    <2>1. main' = main
      BY <1>8 DEF DiscStep
    <2> QED
      BY <1>1, <1>8, <2>1, ReaderCatches
  <1>9. CASE ClassStep
    BY <1>2, <1>9 DEF ClassStep, mainVars, atapiVars, driverVars, medium
  <1>10. CASE Drive /\ UNCHANGED <<mainVars, isoVars, classVars>>
    BY <1>2, <1>10 DEF Drive, mainVars, driverVars, medium
  <1>11. CASE UNCHANGED vars
    BY <1>2, <1>11 DEF vars, mainVars, atapiVars, driverVars, medium
  <1> QED
    BY <1>3, <1>4, <1>5, <1>6, <1>7, <1>8, <1>9, <1>10, <1>11
       DEF Next, Work, execute_command

\* What iso9660_read_file gives cat is what the disc holds: with a healthy drive it
\* finds no file if no record of the root directory's first sector matches the name,
\* and otherwise the first that does, and hands over exactly that file's words, from
\* its first sector on and cut to its size, whatever the number of its sectors
\* (iso9660.c:72-99, 196-216).
CatReadsDisc == main = "cat" /\ fs = "idle" /\ Healthy => ReadsFile

\* CatReadsDisc, for any drives, any discs, any names, and any
\* lengths of sectors and packets.
THEOREM FileRead == Spec => []CatReadsDisc
  <1>1. Init => Where /\ Scanned /\ WholeInv /\ Catching
    <2>1. Init => main = "initrd"
      BY DEF Init
    <2> QED
      BY <2>1, FilesStart, WholeStart DEF Catching
  <1>2. Where /\ Scanned /\ WholeInv /\ Catching /\ [Next]_vars
          => (Where /\ Scanned /\ WholeInv /\ Catching)'
    BY WhereStep, ScannedStep, WholeStep, CatchingStep
  <1>3. Catching => CatReadsDisc
    BY DEF Catching, Progress, CatReadsDisc
  <1> QED
    BY <1>1, <1>2, <1>3, PTL DEF Spec

-----------------------------------------------------------------------------
(* What this machine was started with *)

Boots == {"initrd", "config"}

\* The machine is one of the worlds with its ramdisk and its disc, and once
\* initrd_init is over it has found the module or not.
Started ==
    /\ \E k \in DOMAIN Worlds : world = Worlds[k]
    /\ memory = Loaded(world) /\ disc = Layout(world.sectors)
    /\ main # "initrd" => initrd_addr = IF world.module THEN 1 ELSE 0

\* Of the main program's steps, only those of the start change what start-up
\* has left: nothing changes the hardware, and only LoadInitrd the address and
\* ReadConfig the settings.
LEMMA MainMoves ==
  [Next]_vars =>
    /\ UNCHANGED hardware
    /\ \/ LoadInitrd
       \/ ReadConfig
       \/ /\ UNCHANGED <<initrd_addr, settings>>
          /\ main' = main \/ (main \notin Boots /\ main' \notin Boots)
  <1> SUFFICES ASSUME [Next]_vars, ~LoadInitrd, ~ReadConfig
               PROVE  /\ UNCHANGED hardware /\ UNCHANGED <<initrd_addr, settings>>
                      /\ main' = main \/ (main \notin Boots /\ main' \notin Boots)
    BY DEF LoadInitrd, ReadConfig
  <1>1. ASSUME NEW verb, NEW argument, Enter(verb, argument)
        PROVE  main = "answered" /\ UNCHANGED hardware /\ UNCHANGED <<initrd_addr, settings>>
    BY <1>1 DEF Enter, hardware
  <1>2. CASE Ls
    BY <1>1, <1>2 DEF Ls, Boots
  <1>3. ASSUME NEW name, Cat(name) \/ Java(name)
        PROVE  /\ UNCHANGED hardware /\ UNCHANGED <<initrd_addr, settings>>
               /\ main' = main \/ (main \notin Boots /\ main' \notin Boots)
    BY <1>1, <1>3 DEF Cat, Java, Boots
  <1>4. CASE DriverStep \/ DiscStep
    BY <1>4 DEF DriverStep, DiscStep
  <1>5. CASE Mounted \/ DiscAnswers \/ Execute \/ JavaReturns
    BY <1>5 DEF Mounted, DiscAnswers, Execute, JavaReturns, Boots
  <1>6. CASE ClassStep
    BY <1>6 DEF ClassStep, mainVars, atapiVars, hardware
  <1>7. CASE Drive /\ UNCHANGED <<mainVars, isoVars, classVars>>
    BY <1>7 DEF Drive, mainVars, hardware
  <1>8. CASE UNCHANGED vars
    BY <1>8 DEF vars, mainVars, atapiVars, hardware
  <1> QED
    BY <1>2, <1>3, <1>4, <1>5, <1>6, <1>7, <1>8 DEF Next, Work, execute_command

\* The machine is started as one of the worlds.
LEMMA StartedStart == Init => Started
  BY DEF Init, Started

\* And goes on as that.
LEMMA StartedStep == Started /\ [Next]_vars => Started'
  <1> SUFFICES ASSUME Started, [Next]_vars PROVE Started'
    OBVIOUS
  <1>1. UNCHANGED <<world, memory, disc>>
    BY MainMoves DEF hardware
  <1>2. ASSUME main' # "initrd" PROVE initrd_addr' = IF world'.module THEN 1 ELSE 0
    <2>1. CASE LoadInitrd
      BY <1>1, <2>1 DEF LoadInitrd
    <2>2. CASE ~LoadInitrd
      <3>1. main # "initrd" /\ initrd_addr' = initrd_addr
        BY <1>2, <2>2, MainMoves DEF ReadConfig, Boots
      <3> QED
        BY <1>1, <3>1 DEF Started
    <2> QED
      BY <2>1, <2>2
  <1> QED
    BY <1>1, <1>2 DEF Started

\* What the ramdisk of a world is made of.
LEMMA WorldIs ==
  ASSUME Started
  PROVE  /\ Written(world) \in Seq(StoredFiles) /\ world.module \in BOOLEAN
         /\ IsDisc(world.sectors) /\ \A c \in world.commands : c[2] \in Seq(Int)
         /\ Len(Written(world)) = Len(world.members) /\ DOMAIN world.members = 1 .. Len(world.members)
         /\ \A k \in 1 .. Len(world.members) :
               Written(world)[k] = [name |-> world.members[k].name, dir |-> world.members[k].dir,
                                    file |-> Encode(world.members[k].file)]
  <1>1. /\ Written(world) \in Seq(StoredFiles) /\ world.module \in BOOLEAN
        /\ IsDisc(world.sectors) /\ \A c \in world.commands : c[2] \in Seq(Int)
    BY WorldsAssumption DEF Started
  <1>2. PICK t \in Seq(StoredFiles) : t = Written(world)
    BY <1>1
  <1>3. PICK m : m = world.members
    OBVIOUS
  <1>4. t = [k \in DOMAIN m |-> [name |-> m[k].name, dir |-> m[k].dir, file |-> Encode(m[k].file)]]
    BY <1>2, <1>3 DEF Written
  <1>5. DOMAIN m = 1 .. Len(t) /\ Len(t) \in Nat
    BY <1>4
  <1>6. Len(m) = Len(t)
    BY <1>5
  <1> QED
    BY <1>1, <1>2, <1>3, <1>4, <1>5, <1>6

\* Where nothing lies nothing is found.
LEMMA NothingRead ==
  ASSUME NEW name
  PROVE  initrd_read_file(<<>>, name) = NotFound
  <1> DEFINE none == <<>>
  <1>1. none \in Seq(Int) /\ Len(none) = 0
    OBVIOUS
  <1> HIDE DEF none
  <1>2. PICK f : Reads(none, name, f) /\ initrd_read_file(none, name) = f[1]
    BY <1>1, ReadRuns
  <1>3. 1 \in ReadStops(none)
    BY <1>1 DEF ReadStops
  <1>4. f[1] = NotFound
    <2>1. \A a \in Nat \ {0} : a \in ReadStops(none) => f[a] = NotFound
      BY <1>2 DEF Reads
    <2>2. 1 \in Nat \ {0}
      OBVIOUS
    <2> QED
      BY <1>3, <2>1, <2>2, Zenon
  <1> QED
    BY <1>2, <1>4 DEF none

\* What the name of a command or of a file opens is the first member of that name.
LEMMA OpensMember ==
  ASSUME Started, main # "initrd", NEW name
  PROVE  /\ Opened(name) = IF MemberNamed(name) = <<>> THEN <<>> ELSE <<Encode(MemberNamed(name)[1])>>
         /\ Opened(name) # <<>> => Opened(name)[1] \in Seq(Int)
  <1> DEFINE m == world.members
             named == {k \in DOMAIN m : m[k].name = name \/ <<DOT, SLASH>> \o m[k].name = name}
             f == initrd_read_file(ramdisk, name)
  <1>1. PICK w \in Seq(StoredFiles) : w = Written(world)
    BY WorldIs
  <1>2. PICK N \in Nat : N = Len(w) /\ DOMAIN m = 1 .. N
    BY <1>1, WorldIs
  <1>3. \A k \in 1 .. N : w[k].name = m[k].name /\ w[k].file = Encode(m[k].file)
    <2>1. N = Len(m) /\ \A k \in 1 .. Len(m) :
             w[k] = [name |-> m[k].name, dir |-> m[k].dir, file |-> Encode(m[k].file)]
      BY <1>1, <1>2, WorldIs
    <2> HIDE DEF m
    <2> SUFFICES ASSUME NEW k \in 1 .. N PROVE w[k].name = m[k].name /\ w[k].file = Encode(m[k].file)
      OBVIOUS
    <2>2. w[k] = [name |-> m[k].name, dir |-> m[k].dir, file |-> Encode(m[k].file)]
      BY <2>1
    <2> QED
      BY <2>2
  <1>4. named = {k \in 1 .. N : Called(w[k], name)}
    BY <1>2, <1>3 DEF Called
  <1>5. MemberNamed(name) = IF world.module /\ named # {} THEN <<m[Min(named)].file>> ELSE <<>>
    BY DEF MemberNamed
  <1> HIDE DEF named, f
  <1>6. CASE ~world.module
    <2>1. ramdisk = <<>>
      BY <1>6 DEF Started, ramdisk
    <2>2. f = NotFound
      BY <2>1, NothingRead DEF f
    <2> QED
      BY <1>5, <1>6, <2>2 DEF Opened, f
  <1>7. CASE world.module
    <2>1. ramdisk = memory /\ memory = Archive(w)
      BY <1>1, <1>7 DEF Started, ramdisk, Loaded
    <2>2. Finds(w, name, 1, f)
      BY <1>1, <2>1, RamdiskSearched DEF f
    <2>3. CASE (\A j \in 1 .. N : ~Called(w[j], name)) /\ f = NotFound
      <3>1. named = {}
        BY <1>4, <2>3
      <3> QED
        BY <1>5, <2>3, <3>1 DEF Opened, f
    <2>4. ASSUME NEW j \in 1 .. N, Called(w[j], name), \A e \in 1 .. j - 1 : ~Called(w[e], name),
                 f = [address |-> Place(w, j) + 1, size |-> Len(w[j].file)]
          PROVE  /\ Opened(name) = <<Encode(m[j].file)>> /\ Encode(m[j].file) \in Seq(Int)
                 /\ MemberNamed(name) = <<m[j].file>>
      <3>1. Place(w, j) \in Nat
        BY <1>1, <1>2, ArchiveIs
      <3>2. f # NotFound
        <4>1. f.address # 0
          BY <2>4, <3>1
        <4> QED
          BY <4>1 DEF NotFound
      <3>3. Bytes(memory, f) = w[j].file
        BY <1>1, <1>2, <2>1, <2>4, RamdiskRead
      <3>4. j \in named /\ named \subseteq Nat /\ \A e \in named : e >= j
        BY <1>4, <2>4
      <3>5. PICK x \in Nat : x = Min(named) /\ x \in named /\ \A e \in named : x <= e
        BY <3>4, MinNumber
      <3>6. Min(named) = j
        BY <3>4, <3>5
      <3>7. w[j].file \in Seq(Int)
        <4>1. w[j] \in StoredFiles
          BY <1>1, <1>2
        <4> QED
          BY <4>1 DEF StoredFiles
      <3> QED
        BY <1>3, <1>5, <1>7, <3>2, <3>3, <3>4, <3>6, <3>7 DEF Opened, f
    <2>5. (\E j \in 1 .. N : /\ Called(w[j], name) /\ \A e \in 1 .. j - 1 : ~Called(w[e], name)
                             /\ f = [address |-> Place(w, j) + 1, size |-> Len(w[j].file)])
          \/ ((\A j \in 1 .. N : ~Called(w[j], name)) /\ f = NotFound)
      BY <1>2, <2>2 DEF Finds
    <2>6. CASE \E j \in 1 .. N : /\ Opened(name) = <<Encode(m[j].file)>> /\ Encode(m[j].file) \in Seq(Int)
                                   /\ MemberNamed(name) = <<m[j].file>>
      BY <2>6
    <2> QED
      BY <2>3, <2>4, <2>5, <2>6
  <1> QED
    BY <1>6, <1>7, WorldIs

-----------------------------------------------------------------------------
(* The configuration file *)

SettingsInv == ReadsSettings /\ (main \in Boots => settings = <<>>)

\* There are no settings before the configuration is read.
LEMMA SettingsStart == Init => SettingsInv
  BY DEF Init, SettingsInv, ReadsSettings, Boots

\* Reading the configuration makes them what they are to be; nothing else does.
LEMMA SettingsStep == Started /\ SettingsInv /\ [Next]_vars => SettingsInv'
  <1> SUFFICES ASSUME Started, SettingsInv, [Next]_vars PROVE SettingsInv'
    OBVIOUS
  <1>1. world' = world
    BY MainMoves DEF hardware
  <1>2. MemberNamed(InitYc)' = MemberNamed(InitYc)
    BY <1>1 DEF MemberNamed
  <1>3. CASE LoadInitrd
    <2>1. main = "initrd" /\ main' = "config" /\ settings' = settings
      BY <1>3 DEF LoadInitrd
    <2> QED
      BY <2>1 DEF SettingsInv, ReadsSettings, Boots
  <1>4. CASE ReadConfig
    <2> DEFINE f == initrd_read_file(ramdisk, InitYc)
    <2>1. main = "config" /\ main' = "mount" /\ settings = <<>>
      BY <1>4 DEF ReadConfig, SettingsInv, Boots
    <2>2. IF f # NotFound THEN settings' = parse_yanase_config(Bytes(memory, f))
                          ELSE settings' = settings
      BY <1>4 DEF ReadConfig
    <2>3. Opened(InitYc) = IF f = NotFound THEN <<>> ELSE <<Bytes(memory, f)>>
      BY DEF Opened
    <2>4. /\ Opened(InitYc) = IF MemberNamed(InitYc) = <<>> THEN <<>>
                              ELSE <<Encode(MemberNamed(InitYc)[1])>>
          /\ Opened(InitYc) # <<>> => Opened(InitYc)[1] \in Seq(Int)
      BY <2>1, OpensMember
    <2> HIDE DEF f
    <2>5. CASE f = NotFound
      <3>1. MemberNamed(InitYc) = <<>>
        BY <2>3, <2>4, <2>5
      <3> QED
        BY <1>2, <2>1, <2>2, <2>5, <3>1 DEF SettingsInv, ReadsSettings, Boots
    <2>6. CASE f # NotFound
      <3>1. PICK b : b = Bytes(memory, f)
        OBVIOUS
      <3>2. b \in Seq(Int) /\ b = Encode(MemberNamed(InitYc)[1]) /\ MemberNamed(InitYc) # <<>>
        <4>1. Opened(InitYc) = <<b>>
          BY <2>3, <2>6, <3>1
        <4>2. MemberNamed(InitYc) # <<>> /\ <<b>> = <<Encode(MemberNamed(InitYc)[1])>>
          BY <2>4, <4>1
        <4> QED
          BY <2>4, <4>1, <4>2
      <3>3. settings' = Settings(b)
        BY <2>2, <2>6, <3>1, <3>2, SettingsAre, ConfigAssumption
      <3>4. ReadsSettings'
        BY <1>2, <3>2, <3>3 DEF ReadsSettings
      <3> QED
        BY <2>1, <3>4 DEF SettingsInv, Boots
    <2> QED
      BY <2>5, <2>6
  <1>5. CASE /\ UNCHANGED settings
             /\ main' = main \/ (main \notin Boots /\ main' \notin Boots)
    BY <1>2, <1>5 DEF SettingsInv, ReadsSettings, Boots
  <1> QED
    BY <1>3, <1>4, <1>5, MainMoves

\* The settings are those of init.yc, whatever lies before it in the ramdisk,
\* whatever the sizes of the members and however the lines of the file end:
\* ReadsSettings, for any ramdisk.
THEOREM SettingsRead == Spec => []ReadsSettings
  <1>1. Init => Started /\ SettingsInv
    BY StartedStart, SettingsStart
  <1>2. Started /\ SettingsInv /\ [Next]_vars => (Started /\ SettingsInv)'
    BY StartedStep, SettingsStep
  <1>3. SettingsInv => ReadsSettings
    BY DEF SettingsInv
  <1> QED
    BY <1>1, <1>2, <1>3, PTL DEF Spec
-----------------------------------------------------------------------------
(* What ls lists *)

\* The records of the whole root directory, and those of its first sectors.
AllRecords(sectors) == [k \in 1 .. Len(FlattenSeq(sectors)) |-> RecordWord(sectors, k)]
RecordsUpTo(sectors, d) == SubSeq(AllRecords(sectors), 1, Start(sectors, d))

\* There is one for each entry.
LEMMA AllRecordsAre ==
  ASSUME NEW sectors, IsDisc(sectors)
  PROVE  /\ AllRecords(sectors) \in Seq(DiscWords)
         /\ Len(AllRecords(sectors)) = Len(FlattenSeq(sectors)) /\ Len(FlattenSeq(sectors)) \in Nat
         /\ \A k \in 1 .. Len(FlattenSeq(sectors)) : AllRecords(sectors)[k] = RecordWord(sectors, k)
  <1>1. PICK N \in Nat : N = Len(FlattenSeq(sectors))
    BY EntriesAre
  <1>2. \A k \in 1 .. N : RecordWord(sectors, k) \in DiscWords
    BY <1>1, RecordIs
  <1>3. PICK t : t = AllRecords(sectors)
    OBVIOUS
  <1>4. t = [k \in 1 .. N |-> RecordWord(sectors, k)]
    BY <1>1, <1>3 DEF AllRecords
  <1>5. t \in [1 .. N -> DiscWords]
    BY <1>2, <1>4
  <1>6. t \in Seq(DiscWords) /\ Len(t) = N
    BY <1>5
  <1> QED
    BY <1>1, <1>3, <1>4, <1>6

\* The records of one more sector.
LEMMA RecordsMore ==
  ASSUME NEW sectors, IsDisc(sectors), NEW d \in 1 .. Len(sectors)
  PROVE  RecordsUpTo(sectors, d) \o RecordsAt(sectors, d) = RecordsUpTo(sectors, d + 1)
  <1>1. PICK t \in Seq(DiscWords) :
           t = AllRecords(sectors) /\ Len(t) = Len(FlattenSeq(sectors))
           /\ \A k \in 1 .. Len(t) : t[k] = RecordWord(sectors, k)
    BY AllRecordsAre
  <1>2. sectors \in Seq(Seq(DiscEntries)) /\ Len(sectors) \in Nat
    BY EntriesAre
  <1>3. PICK a \in Nat, b \in Nat, n0 \in Nat :
           /\ a = Start(sectors, d) /\ b = Start(sectors, d + 1) /\ n0 = Len(sectors[d])
           /\ b = a + n0 /\ b <= Len(t)
    <2>1. d \in 1 .. Len(sectors) + 1 /\ d + 1 \in 1 .. Len(sectors) + 1
      BY <1>2
    <2>2. /\ Start(sectors, d) \in Nat /\ Start(sectors, d + 1) \in Nat
          /\ Start(sectors, d + 1) <= Len(FlattenSeq(sectors))
      BY <1>2, <2>1, StartsInside
    <2>3. Len(sectors[d]) \in Nat /\ Start(sectors, d + 1) = Start(sectors, d) + Len(sectors[d])
      BY <1>2, Starts
    <2> QED
      BY <1>1, <2>2, <2>3
  <1>4. Before(sectors, d) = a
    BY <1>3 DEF Before, Start
  <1>5. PICK r \in Seq(DiscWords) :
           /\ r = RecordsAt(sectors, d) /\ Len(r) = n0
           /\ \A k \in 1 .. n0 : r[k] = RecordWord(sectors, a + k)
    BY <1>3, <1>4, RecordsAtAre
  <1>6. SubSeq(t, a + 1, b) = r
    <2>1. PICK u : u = SubSeq(t, a + 1, b)
      OBVIOUS
    <2>2. u \in Seq(DiscWords) /\ Len(u) = n0 /\ \A k \in 1 .. n0 : u[k] = t[a + k]
      <3>1. a <= b /\ b <= Len(t) /\ b - a = n0
        BY <1>3
      <3>2. /\ SubSeq(t, a + 1, b) \in Seq(DiscWords) /\ Len(SubSeq(t, a + 1, b)) = b - a
            /\ \A k \in 1 .. b - a : SubSeq(t, a + 1, b)[k] = t[a + k]
        BY <3>1, Between
      <3> QED
        BY <2>1, <3>1, <3>2
    <2>3. ASSUME NEW k \in 1 .. n0 PROVE u[k] = r[k]
      <3>1. a + k \in 1 .. Len(t)
        BY <1>3
      <3> QED
        BY <1>1, <1>5, <2>2, <3>1
    <2>4. u = r
      BY <1>5, <2>2, <2>3
    <2> QED
      BY <2>1, <2>4
  <1>7. SubSeq(t, 1, a) \o SubSeq(t, a + 1, b) = SubSeq(t, 1, b)
    <2>1. a <= b /\ b <= Len(t)
      BY <1>3
    <2> QED
      BY <2>1, TwoParts
  <1> QED
    BY <1>1, <1>3, <1>5, <1>6, <1>7 DEF RecordsUpTo

\* Those before the first sector and those before the end.
LEMMA RecordsEnds ==
  ASSUME NEW sectors, IsDisc(sectors)
  PROVE  /\ RecordsUpTo(sectors, 1) = <<>>
         /\ RecordsUpTo(sectors, Len(sectors) + 1) = AllRecords(sectors)
  <1>1. PICK t \in Seq(DiscWords) : t = AllRecords(sectors) /\ Len(t) = Len(FlattenSeq(sectors))
    BY AllRecordsAre
  <1>2. Start(sectors, 1) = 0 /\ Start(sectors, Len(sectors) + 1) = Len(t)
    <2>1. sectors \in Seq(Seq(DiscEntries))
      BY EntriesAre
    <2> QED
      BY <1>1, <2>1, Starts
  <1>3. SubSeq(t, 1, 0) = <<>> /\ SubSeq(t, 1, Len(t)) = t
    OBVIOUS
  <1> QED
    BY <1>1, <1>2, <1>3 DEF RecordsUpTo

\* The command that is being done, or was the last.
Doing ==
    /\ main \in Boots \union {"mount"} => command[1] = "none"
    /\ main \in {"ls", "cat"} => command[1] = main
    /\ main \in {"java", "class"} => command[1] = "java"

\* The command that is being done stays the one that was entered.
LEMMA DoingStep == Doing /\ [Next]_vars => Doing'
  <1> SUFFICES ASSUME Doing, [Next]_vars PROVE Doing'
    OBVIOUS
  <1>1. ASSUME UNCHANGED <<main, command>> PROVE Doing'
    BY <1>1 DEF Doing
  <1>2. CASE Ls
    <2>1. command' = <<"ls", <<>>>> /\ main' \in {"ls", "answered"}
      BY <1>2 DEF Ls, Enter
    <2> QED
      BY <2>1 DEF Doing, Boots
  <1>3. ASSUME NEW name, Cat(name) PROVE Doing'
    <2>1. command' = <<"cat", name>> /\ main' \in {"cat", "answered"}
      BY <1>3 DEF Cat, Enter
    <2> QED
      BY <2>1 DEF Doing, Boots
  <1>4. ASSUME NEW name, Java(name) PROVE Doing'
    <2>1. command' = <<"java", name>> /\ main' = "java"
      BY <1>4 DEF Java, Enter
    <2> QED
      BY <2>1 DEF Doing, Boots
  <1>5. CASE LoadInitrd \/ ReadConfig
    BY <1>5 DEF LoadInitrd, ReadConfig, Doing, Boots
  <1>6. CASE DriverStep \/ DiscStep
    BY <1>1, <1>6 DEF DriverStep, DiscStep
  <1>7. CASE Mounted \/ DiscAnswers \/ JavaReturns
    BY <1>7 DEF Mounted, DiscAnswers, JavaReturns, Doing, Boots
  <1>8. CASE Execute
    BY <1>8 DEF Execute, Doing, Boots
  <1>9. CASE ClassStep \/ (Drive /\ UNCHANGED <<mainVars, isoVars, classVars>>) \/ UNCHANGED vars
    BY <1>1, <1>9 DEF ClassStep, vars, mainVars
  <1> QED
    BY <1>2, <1>3, <1>4, <1>5, <1>6, <1>7, <1>8, <1>9 DEF Next, Work, execute_command

\* What a command has left stays until the next one is entered.
Left == <<main, command, listed, shown, world, memory, initrd_addr, isoVars, lba, medium,
          current_atapi_base, fs_ready>>

\* The steps of the main program that move it on from a command, of those that
\* enter one, and of the rest, which leave all that a command leaves.
LEMMA CommandMoves ==
  ASSUME Where, [Next]_vars
  PROVE  \/ execute_command
         \/ main \notin {"ls", "cat", "answered"} /\ main' \notin {"ls", "cat", "answered"}
         \/ main \in Boots \union {"mount", "java", "class"} /\ main' = "answered" /\ command' = command
         \/ DiscStep
         \/ DiscAnswers
         \/ UNCHANGED Left
  <1> SUFFICES ASSUME ~execute_command, ~DiscStep, ~DiscAnswers
               PROVE  \/ main \notin {"ls", "cat", "answered"} /\ main' \notin {"ls", "cat", "answered"}
                      \/ main \in Boots \union {"mount", "java", "class"} /\ main' = "answered"
                         /\ command' = command
                      \/ UNCHANGED Left
    OBVIOUS
  <1>1. CASE LoadInitrd \/ ReadConfig
    BY <1>1 DEF LoadInitrd, ReadConfig
  <1>2. CASE Mounted \/ JavaReturns
    BY <1>2 DEF Mounted, JavaReturns
  <1>3. CASE Execute
    BY <1>3 DEF Execute
  <1>4. CASE DriverStep
    <2>1. UNCHANGED <<main, command, listed, shown, world, memory, initrd_addr, isoVars, medium>> /\ Driver
      BY <1>4 DEF DriverStep, hardware, medium
    <2>2. CASE main \in {"ls", "cat", "answered"}
      <3>1. pc \notin {"probe", "scan"}
        BY <2>2 DEF Where, Reading
      <3>2. atapi_read_sector
        BY <2>1, <3>1 DEF Driver, Probe, Scan
      <3>3. Select \/ Command \/ Offer => UNCHANGED <<lba, current_atapi_base, fs_ready>>
        BY DEF Select, Command, Offer
      <3>4. Settle \/ Ready => UNCHANGED <<lba, current_atapi_base, fs_ready>>
        BY DEF Settle, Ready
      <3>5. Send \/ Data => UNCHANGED <<lba, current_atapi_base, fs_ready>>
        BY DEF Send, Data
      <3> QED
        BY <2>1, <3>2, <3>3, <3>4, <3>5 DEF atapi_read_sector, Left
    <2> QED
      BY <2>1, <2>2
  <1>5. CASE ClassStep
    BY <1>5 DEF ClassStep, Left, mainVars, atapiVars, driverVars, medium
  <1>6. CASE Drive /\ UNCHANGED <<mainVars, isoVars, classVars>>
    BY <1>6 DEF Drive, Left, mainVars, driverVars, medium
  <1>7. CASE UNCHANGED vars
    BY <1>7 DEF vars, Left, mainVars, atapiVars, driverVars, medium
  <1> QED
    BY <1>1, <1>2, <1>3, <1>4, <1>5, <1>6, <1>7 DEF Next, Work

\* How far a healthy drive's directory has been listed.
Lister ==
    /\ fs = "check" => lba = PvdLba /\ out = <<>>
    /\ fs = "list" =>
         /\ s \in Nat /\ s < Len(world.sectors) /\ rec = RootWord(world.sectors)
         /\ lba = PvdLba + 1 + s /\ out = RecordsUpTo(world.sectors, s + 1)
    /\ fs = "idle" => out = AllRecords(world.sectors)

Listing ==
    /\ main = "ls" => fs \in {"idle", "check", "list"} /\ (Healthy => Lister)
    /\ main = "ls" \/ Answered("ls") => listed = initrd_list(ramdisk)
    /\ Answered("ls") /\ fs_ready = 1 /\ Healthy => out = AllRecords(world.sectors)

\* A sector of the directory that comes back is the next one's records.
LEMMA ListerLists ==
  ASSUME Started, WholeInv, Listing, main = "ls", DiscStep
  PROVE  Listing'
  <1>1. /\ UNCHANGED <<medium, world, listed, memory, initrd_addr>> /\ main' = "ls" /\ IsoStep
        /\ fs \in {"idle", "check", "list"} /\ (Healthy => Lister) /\ listed = initrd_list(ramdisk)
    BY DEF DiscStep, medium, hardware, Listing
  <1>2. listed' = initrd_list(ramdisk)'
    BY <1>1 DEF ramdisk
  <1> SUFFICES fs' \in {"idle", "check", "list"} /\ (Healthy' => Lister')
    BY <1>1, <1>2 DEF Listing, Answered
  <1>3. PICK d : d = world.sectors /\ IsDisc(d) /\ disc = Layout(d)
    BY WorldIs DEF Started
  <1>4. PICK N \in Nat \ {0} : N = Len(d)
    BY <1>3, EntriesAre
  <1>5. PICK p \in Nat : p = PvdLba
    BY IsoAssumption
  <1>6. PICK w : w = RootWord(d) /\ w \in DiscWords /\ Sectors(w.size) = N /\ w.lba = p + 1 /\ w.pvd
    BY <1>3, <1>4, <1>5, RootWordIs
  <1>7. CASE ListRoot
    <2>1. /\ Back("check") /\ rec' = buf[1] /\ s' = 0 /\ out' = out
          /\ current_atapi_base' = current_atapi_base
          /\ IF buf[1].pvd /\ Sectors(rec'.size) > 0
             THEN fs' = "list" /\ lba' = rec'.lba
             ELSE fs' = "idle"
      BY <1>7 DEF ListRoot, Call, Read, Return, DriveRests
    <2>2. fs = "check"
      BY <2>1 DEF Back
    <2>3. ASSUME Healthy' PROVE Lister'
      <3>1. Healthy /\ buf = disc[lba]
        BY <1>1, <2>1, <2>3, SectorBack
      <3>2. lba = p /\ out = <<>>
        BY <1>1, <1>5, <2>2, <3>1 DEF Lister
      <3>3. disc[p] = Padded(<<w>>)
        BY <1>3, <1>5, <1>6, DiscLaid DEF Laid
      <3>4. Padded(<<w>>)[1] = w
        <4>1. PICK ws : ws = <<w>>
          OBVIOUS
        <4>2. ws \in Seq(DiscWords) /\ Len(ws) = 1 /\ ws[1] = w
          BY <1>6, <4>1
        <4>3. PICK v \in Nat \ {0} : v = SectorWords
          BY AtapiAssumption
        <4>4. 1 \in 1 .. v /\ Len(ws) <= v
          BY <4>2
        <4>5. \A j \in 1 .. SectorWords : Padded(ws)[j] = IF j <= Len(ws) THEN ws[j] ELSE Zero
          BY <4>2, <4>3, <4>4, PaddedIs
        <4>6. Padded(ws)[1] = w
          BY <4>2, <4>3, <4>4, <4>5
        <4> QED
          BY <4>1, <4>6
      <3>5. rec' = w
        BY <2>1, <3>1, <3>2, <3>3, <3>4
      <3>6. /\ fs' = "list" /\ lba' = p + 1
        BY <1>6, <2>1, <3>5
      <3>7. out' = RecordsUpTo(d, 1)
        BY <1>3, <2>1, <3>2, RecordsEnds
      <3>8. s' = 0 /\ s' \in Nat /\ s' < N /\ lba' = p + 1 + s' /\ s' + 1 = 1
        BY <2>1, <3>6
      <3> QED
        BY <1>1, <1>3, <1>4, <1>5, <1>6, <3>5, <3>6, <3>7, <3>8 DEF Lister
    <2> QED
      BY <2>1, <2>3
  <1>8. CASE ListSector
    <2>1. /\ Back("list") /\ out' = out \o Records(buf) /\ rec' = rec /\ s' = s + 1
          /\ current_atapi_base' = current_atapi_base
          /\ IF s' < Sectors(rec.size) THEN fs' = "list" /\ lba' = rec.lba + s'
                                       ELSE fs' = "idle"
      BY <1>8 DEF ListSector, Call, Read, Return, DriveRests
    <2>2. fs = "list"
      BY <2>1 DEF Back
    <2>3. ASSUME Healthy' PROVE Lister'
      <3>1. Healthy /\ buf = disc[lba]
        BY <1>1, <2>1, <2>3, SectorBack
      <3>2. /\ s \in Nat /\ s < N /\ rec = w /\ lba = p + 1 + s /\ out = RecordsUpTo(d, s + 1)
        BY <1>1, <1>3, <1>4, <1>5, <1>6, <2>2, <3>1 DEF Lister
      <3>3. PICK x \in 1 .. N : x = s + 1
        BY <3>2
      <3>4. disc[p + x] = Padded(RootSector(d, x))
        BY <1>3, <1>4, <1>5, DiscLaid DEF Laid
      <3>5. lba = p + x
        BY <3>2, <3>3
      <3>6. Records(buf) = RecordsAt(d, x)
        BY <1>3, <1>4, <3>1, <3>4, <3>5, RecordsRead
      <3>7. out' = RecordsUpTo(d, x + 1)
        BY <1>3, <1>4, <2>1, <3>2, <3>3, <3>6, RecordsMore
      <3>8. s' = x /\ Sectors(rec.size) = N
        BY <1>6, <2>1, <3>2, <3>3
      <3>9. CASE x < N
        <4>1. fs' = "list" /\ lba' = p + 1 + x /\ s' = x /\ rec' = w
          BY <1>6, <2>1, <3>2, <3>8, <3>9
        <4>2. x \in Nat
          OBVIOUS
        <4> QED
          BY <1>1, <1>3, <1>4, <1>5, <1>6, <3>7, <3>9, <4>1, <4>2 DEF Lister
      <3>10. CASE ~(x < N)
        <4>1. fs' = "idle" /\ x = N
          BY <2>1, <3>8, <3>10
        <4>2. out' = AllRecords(d)
          BY <1>3, <1>4, <3>7, <4>1, RecordsEnds
        <4> QED
          BY <1>1, <1>3, <4>1, <4>2 DEF Lister
      <3> QED
        BY <3>9, <3>10
    <2> QED
      BY <2>1, <2>3
  <1>9. CASE FindRoot \/ FindRecord \/ ReadContent
    BY <1>1, <1>9 DEF FindRoot, FindRecord, ReadContent, Back
  <1> QED
    BY <1>1, <1>7, <1>8, <1>9 DEF IsoStep

\* Every step of the kernel keeps to the list.
LEMMA ListingStep ==
  Started /\ Where /\ WholeInv /\ Doing /\ Listing /\ [Next]_vars => Listing'
  <1> SUFFICES ASSUME Started, Where, WholeInv, Doing, Listing, [Next]_vars PROVE Listing'
    OBVIOUS
  <1>1. ASSUME main' # "ls", main' = "answered" => command'[1] # "ls" PROVE Listing'
    BY <1>1 DEF Listing, Answered
  <1>2. ASSUME UNCHANGED Left PROVE Listing'
    <2>1. UNCHANGED <<main, command, listed, world, memory, initrd_addr, fs, rec, s, out, sound, lba,
                      devices, current_atapi_base, fs_ready>>
      BY <1>2 DEF Left, isoVars, medium
    <2>2. /\ Healthy' = Healthy /\ (Lister => Lister') /\ initrd_list(ramdisk)' = initrd_list(ramdisk)
          /\ Answered("ls")' = Answered("ls")
      BY <2>1 DEF Healthy, base, Lister, ramdisk, Answered
    <2> QED
      BY <2>1, <2>2 DEF Listing
  <1>3. CASE Ls
    <2>1. listed' = initrd_list(ramdisk) /\ UNCHANGED <<world, memory, initrd_addr>>
      BY <1>3 DEF Ls, Enter, hardware
    <2>2. listed' = initrd_list(ramdisk)'
      BY <2>1 DEF ramdisk
    <2>3. CASE fs_ready = 1
      <3>1. main' = "ls" /\ fs' = "check" /\ lba' = PvdLba /\ out' = <<>>
        BY <1>3, <2>3 DEF Ls, iso_list_directory, Call, Read
      <3>2. Lister'
        BY <3>1 DEF Lister
      <3> QED
        BY <2>2, <3>1, <3>2 DEF Listing, Answered
    <2>4. CASE fs_ready # 1
      <3>1. main' = "answered" /\ fs_ready' # 1
        BY <1>3, <2>4 DEF Ls, NoDisc, driverVars
      <3> QED
        BY <2>2, <3>1 DEF Listing
    <2> QED
      BY <2>3, <2>4
  <1>4. ASSUME NEW name, Cat(name) PROVE Listing'
    <2>1. command' = <<"cat", name>> /\ main' \in {"cat", "answered"}
      BY <1>4 DEF Cat, Enter
    <2> QED
      BY <1>1, <2>1
  <1>5. ASSUME NEW name, Java(name) PROVE Listing'
    <2>1. main' = "java"
      BY <1>5 DEF Java
    <2> QED
      BY <1>1, <2>1
  <1>6. CASE main \notin {"ls", "cat", "answered"} /\ main' \notin {"ls", "cat", "answered"}
    BY <1>1, <1>6
  <1>7. CASE main \in Boots \union {"mount", "java", "class"} /\ main' = "answered" /\ command' = command
    BY <1>1, <1>7 DEF Doing, Boots
  <1>8. CASE DiscStep
    <2>1. CASE main = "ls"
      BY <1>8, <2>1, ListerLists
    <2>2. CASE main # "ls"
      <3>1. main' = main /\ IsoStep
        BY <1>8 DEF DiscStep
      <3>2. main = "cat"
        BY <2>2, <3>1, IsoMoves DEF Where, Waiting
      <3> QED
        BY <1>1, <3>1, <3>2
    <2> QED
      BY <2>1, <2>2
  <1>9. CASE DiscAnswers
    <2>1. /\ main \in {"ls", "cat"} /\ fs = "idle" /\ main' = "answered"
          /\ UNCHANGED <<command, listed, world, memory, initrd_addr, out, sound, devices, current_atapi_base>>
      BY <1>9 DEF DiscAnswers, hardware, isoVars, driverVars
    <2>2. CASE main = "cat"
      BY <1>1, <2>1, <2>2 DEF Doing
    <2>3. CASE main = "ls"
      <3>1. /\ Healthy' = Healthy /\ initrd_list(ramdisk)' = initrd_list(ramdisk)
        BY <2>1 DEF Healthy, base, ramdisk
      <3>2. (Healthy => out = AllRecords(world.sectors)) /\ listed = initrd_list(ramdisk)
        BY <2>1, <2>3 DEF Listing, Lister
      <3> QED
        BY <2>1, <3>1, <3>2 DEF Listing
    <2> QED
      BY <2>1, <2>2, <2>3
  <1> QED
    BY <1>2, <1>3, <1>4, <1>5, <1>6, <1>7, <1>8, <1>9, CommandMoves DEF execute_command

\* What is listed is all there is.
LEMMA ListingShows == Started /\ Where /\ Listing => ListsAll
  <1> SUFFICES ASSUME Started, Where, Listing, Answered("ls") PROVE ListsAll
    BY DEF ListsAll
  <1>1. main = "answered"
    BY DEF Answered
  <1>2. ASSUME world.module
        PROVE  listed = [k \in DOMAIN world.members |->
                           <<<<DOT, SLASH>> \o world.members[k].name, world.members[k].dir>>]
    <2>1. PICK w \in Seq(StoredFiles) : w = Written(world)
      BY WorldIs
    <2>2. listed = ListedLines(w)
      BY <1>1, <1>2, <2>1, RamdiskListed DEF Listing, Started, ramdisk, Loaded
    <2>3. PICK m : m = world.members
      OBVIOUS
    <2>4. DOMAIN m = 1 .. Len(w)
      BY <2>1, <2>3, WorldIs
    <2>5. ASSUME NEW k \in 1 .. Len(w) PROVE w[k].name = m[k].name /\ w[k].dir = m[k].dir
      <3>1. w[k] = [name |-> m[k].name, dir |-> m[k].dir, file |-> Encode(m[k].file)]
        BY <2>1, <2>3, WorldIs
      <3> QED
        BY <3>1
    <2>6. listed = [k \in 1 .. Len(w) |-> <<<<DOT, SLASH>> \o w[k].name, w[k].dir>>]
      BY <2>2 DEF ListedLines
    <2>7. listed = [k \in DOMAIN m |-> <<<<DOT, SLASH>> \o m[k].name, m[k].dir>>]
      BY <2>4, <2>5, <2>6
    <2> QED
      BY <2>3, <2>7
  <1>3. ASSUME fs_ready = 1, Healthy
        PROVE  LET e == FlattenSeq(world.sectors)
               IN [k \in DOMAIN out |-> Line(out[k])] = [k \in DOMAIN e |-> <<Plain(e[k]), e[k].dir>>]
    <2>1. PICK d : d = world.sectors /\ IsDisc(d)
      BY WorldIs
    <2>2. PICK e \in Seq(DiscEntries) : e = FlattenSeq(d)
      BY <2>1, EntriesAre
    <2>3. out = AllRecords(d)
      BY <1>3, <2>1 DEF Listing
    <2>4. DOMAIN out = 1 .. Len(e) /\ DOMAIN e = 1 .. Len(e)
      <3>1. AllRecords(d) \in Seq(DiscWords) /\ Len(AllRecords(d)) = Len(e)
        BY <2>1, <2>2, AllRecordsAre
      <3> QED
        BY <2>3, <3>1
    <2>5. ASSUME NEW k \in 1 .. Len(e) PROVE Line(out[k]) = <<Plain(e[k]), e[k].dir>>
      <3>1. out[k] = RecordWord(d, k)
        BY <2>1, <2>2, <2>3, AllRecordsAre
      <3>2. RecordWord(d, k).name = e[k].name /\ RecordWord(d, k).dir = e[k].dir
        BY <2>1, <2>2, RecordIs
      <3>3. out[k].name = e[k].name /\ out[k].dir = e[k].dir
        BY <3>1, <3>2
      <3> QED
        BY <3>3 DEF Line, Plain
    <2>6. [k \in DOMAIN out |-> Line(out[k])] = [k \in DOMAIN e |-> <<Plain(e[k]), e[k].dir>>]
      BY <2>4, <2>5
    <2> QED
      BY <2>1, <2>2, <2>6
  <1> QED
    BY <1>2, <1>3 DEF ListsAll

\* `ls' lists every member of the ramdisk, whatever their names and sizes, and with
\* a healthy drive every entry of the root directory, however many sectors it has:
\* ListsAll, for any ramdisk, disc and commands.
THEOREM AllListed == Spec => []ListsAll
  <1> DEFINE Inv == Started /\ Where /\ Scanned /\ WholeInv /\ Doing /\ Listing
  <1>1. Init => Inv
    <2>1. Init => Doing /\ Listing
      <3>1. Init => main = "initrd" /\ command[1] = "none"
        BY DEF Init
      <3> QED
        BY <3>1 DEF Doing, Listing, Answered
    <2> QED
      BY <2>1, StartedStart, FilesStart, WholeStart
  <1>2. Inv /\ [Next]_vars => Inv'
    BY StartedStep, WhereStep, ScannedStep, WholeStep, DoingStep, ListingStep
  <1>3. Inv => ListsAll
    BY ListingShows
  <1> QED
    BY <1>1, <1>2, <1>3, PTL DEF Spec

-----------------------------------------------------------------------------
(* What cat shows *)

\* A word of a file is where its place in the file says.
LEMMA WordLaid ==
  ASSUME NEW sectors, IsDisc(sectors), NEW k \in 1 .. Len(FlattenSeq(sectors)),
         ~FlattenSeq(sectors)[k].dir, NEW j \in 1 .. Len(FlattenSeq(sectors)[k].text)
  PROVE  Layout(sectors)[Extent(sectors, k) + (j - 1) \div SectorWords][((j - 1) % SectorWords) + 1]
           = TextWord(FlattenSeq(sectors)[k].text[j])
  <1>1. PICK w \in Nat \ {0} : w = SectorWords
    BY AtapiAssumption
  <1>2. PICK text \in Seq(Int) : text = FlattenSeq(sectors)[k].text
    <2>1. FlattenSeq(sectors)[k] \in DiscEntries
      BY RecordIs
    <2> QED
      BY <2>1 DEF DiscEntries
  <1>3. PICK L \in Nat : L = Len(text)
    OBVIOUS
  <1>4. j \in 1 .. L
    BY <1>2, <1>3
  <1>5. PICK a \in Nat : a = j - 1
    BY <1>4
  <1>6. PICK q \in Nat, m \in 0 .. w - 1 : q = a \div w /\ m = a % w /\ a = q * w + m
    BY DivideNat
  <1>7. PICK N \in Nat : N = Sectors(L) /\ L <= N * w
    <2>1. Sectors(L) = Needed(L, w)
      BY <1>1, SectorsNeeded
    <2> QED
      BY <2>1, NeededAre
  <1>8. q < N
    <2> SUFFICES ASSUME N <= q PROVE FALSE
      OBVIOUS
    <2>1. N * w <= q * w
      OBVIOUS
    <2>2. PICK x \in Nat, y \in Nat : x = N * w /\ y = q * w
      OBVIOUS
    <2> QED
      BY <1>4, <1>5, <1>6, <1>7, <2>1, <2>2
  <1>9. PICK z \in 1 .. w : z = m + 1
    OBVIOUS
  <1>10. q * SectorWords + z = j
    <2>1. q * w + z = j
      <3>1. PICK y \in Nat : y = q * w
        OBVIOUS
      <3> QED
        BY <1>4, <1>5, <1>6, <1>9, <3>1
    <2> QED
      BY <1>1, <2>1
  <1>11. FileSectors(text)[q + 1][z] = TextWord(text[j])
    <2>1. q < Sectors(Len(text))
      BY <1>3, <1>7, <1>8
    <2>2. \A x \in 1 .. SectorWords : q * SectorWords + x <= Len(text) =>
             FileSectors(text)[q + 1][x] = TextWord(text[q * SectorWords + x])
      BY <2>1, FileSectorIs
    <2>3. q * SectorWords + z <= Len(text)
      BY <1>3, <1>4, <1>10
    <2> QED
      BY <1>1, <1>9, <1>10, <2>2, <2>3
  <1>12. Layout(sectors)[Extent(sectors, k) + q] = FileSectors(text)[q + 1]
    <2>1. q < Sectors(Len(FlattenSeq(sectors)[k].text))
      BY <1>2, <1>3, <1>7, <1>8
    <2> QED
      BY <1>2, <2>1, FileLaid
  <1>13. (j - 1) \div SectorWords = q /\ ((j - 1) % SectorWords) + 1 = z
    BY <1>1, <1>5, <1>6, <1>9
  <1> QED
    BY <1>2, <1>11, <1>12, <1>13

\* What the first sector of the root directory has of a name, and what is read of
\* the file it leads to.
Alike(e, name) == {k \in DOMAIN e : Begins(name, Plain(e[k]))}

\* The names that match are those the argument begins with.
LEMMA AlikeMatch ==
  ASSUME NEW sectors, IsDisc(sectors), NEW name \in Seq(Int), name # <<>>
  PROVE  LET x == Padded(RootSector(sectors, 1))
         IN  /\ Matching(x, name) = Alike(sectors[1], name)
             /\ \A k \in DOMAIN sectors[1] : Records(x)[k] = RecordWord(sectors, k)
             /\ DOMAIN sectors[1] = 1 .. Len(sectors[1])
             /\ \A k \in DOMAIN sectors[1] : k \in 1 .. Len(FlattenSeq(sectors))
                                             /\ FlattenSeq(sectors)[k] = sectors[1][k]
  <1>1. 1 \in 1 .. Len(sectors)
    BY EntriesAre
  <1>2. sectors[1] \in Seq(DiscEntries)
    <2>1. sectors \in Seq(Seq(DiscEntries))
      BY EntriesAre
    <2> QED
      BY <1>1, <2>1
  <1>3. PICK N \in Nat : N = Len(sectors[1]) /\ DOMAIN sectors[1] = 1 .. N
    BY <1>2
  <1>4. Before(sectors, 1) = 0
    <2>1. sectors \in Seq(Seq(DiscEntries))
      BY EntriesAre
    <2> QED
      BY <2>1, Starts DEF Before, Start
  <1>5. PICK r \in Seq(DiscWords) :
           /\ r = Records(Padded(RootSector(sectors, 1))) /\ Len(r) = N
           /\ \A k \in 1 .. N : r[k] = RecordWord(sectors, k)
    <2>1. Records(Padded(RootSector(sectors, 1))) = RecordsAt(sectors, 1)
      BY <1>1, RecordsRead
    <2>2. \A k \in 1 .. N : 0 + k = k
      OBVIOUS
    <2> QED
      BY <1>1, <1>3, <1>4, <2>1, <2>2, RecordsAtAre
  <1>6. \A k \in 1 .. N : k \in 1 .. Len(FlattenSeq(sectors)) /\ FlattenSeq(sectors)[k] = sectors[1][k]
    <2> SUFFICES ASSUME NEW k \in 1 .. N
                 PROVE  k \in 1 .. Len(FlattenSeq(sectors)) /\ FlattenSeq(sectors)[k] = sectors[1][k]
      OBVIOUS
    <2>1. 0 + k = k
      OBVIOUS
    <2> QED
      BY <1>1, <1>3, <1>4, <2>1, EntryAt
  <1>7. ASSUME NEW k \in 1 .. N
        PROVE  filename_match(name, r[k].name) <=> Begins(name, Plain(sectors[1][k]))
    <2>1. r[k].name = sectors[1][k].name
      BY <1>5, <1>6, RecordIs
    <2>2. PICK nm \in Seq(Int) : nm = sectors[1][k].name
      <3>1. sectors[1][k] \in DiscEntries
        BY <1>2, <1>3
      <3> QED
        BY <3>1 DEF DiscEntries
    <2>3. Len(nm) > 1 => ~Contains(nm, NUL)
      BY <1>1, <1>3, <2>2 DEF IsDisc
    <2>4. filename_match(name, nm) <=> Begins(name, Stem(nm))
      BY <2>3, NameMatches
    <2>5. Stem(nm) = Plain(sectors[1][k])
      BY <2>2 DEF Stem, Plain
    <2> QED
      BY <2>1, <2>2, <2>4, <2>5
  <1>8. DOMAIN r = 1 .. N
    BY <1>5
  <1>9. Matching(Padded(RootSector(sectors, 1)), name) = {k \in 1 .. N : filename_match(name, r[k].name)}
    BY <1>5, <1>8 DEF Matching
  <1>10. Matching(Padded(RootSector(sectors, 1)), name) = Alike(sectors[1], name)
    BY <1>3, <1>7, <1>9 DEF Alike
  <1> QED
    BY <1>3, <1>5, <1>6, <1>10

\* What has been read for cat is that file.
LEMMA ReadShows ==
  ASSUME Started, ReadsFile, path \in Seq(Int), path # <<>>
  PROVE  LET e == world.sectors[1]
             like == Alike(e, path)
         IN IF like = {} THEN found = "none"
            ELSE LET first == e[Min(like)]
                 IN ~first.dir => found = "file" /\ Texts(out) = first.text
  <1>1. PICK d : d = world.sectors /\ IsDisc(d) /\ disc = Layout(d)
    BY WorldIs DEF Started
  <1>2. PICK p \in Nat : p = PvdLba
    BY IsoAssumption
  <1>3. PICK N \in Nat \ {0} : N = Len(d)
    BY <1>1, EntriesAre
  <1>4. RootLba = p + 1
    <2>1. PICK w : w = RootWord(d) /\ w \in DiscWords /\ w.lba = p + 1
      BY <1>1, <1>2, RootWordIs
    <2>2. disc[p] = Padded(<<w>>)
      BY <1>1, <1>2, <2>1, DiscLaid DEF Laid
    <2>3. PICK ws : ws = <<w>>
      OBVIOUS
    <2>4. ws \in Seq(DiscWords) /\ Len(ws) = 1 /\ ws[1] = w
      BY <2>1, <2>3
    <2>5. PICK v \in Nat \ {0} : v = SectorWords
      BY AtapiAssumption
    <2>6. 1 \in 1 .. v /\ Len(ws) <= v
      BY <2>4
    <2>7. \A j \in 1 .. SectorWords : Padded(ws)[j] = IF j <= Len(ws) THEN ws[j] ELSE Zero
      BY <2>4, <2>5, <2>6, PaddedIs
    <2>8. Padded(ws)[1] = w
      BY <2>4, <2>5, <2>6, <2>7
    <2> QED
      BY <1>2, <2>1, <2>2, <2>3, <2>8 DEF RootLba
  <1>5. PICK x : x = disc[RootLba] /\ x = Padded(RootSector(d, 1))
    <2>1. disc[p + 1] = Padded(RootSector(d, 1))
      <3>1. \A k \in 1 .. N : disc[p + k] = Padded(RootSector(d, k))
        BY <1>1, <1>2, <1>3, DiscLaid DEF Laid
      <3>2. 1 \in 1 .. N
        OBVIOUS
      <3> QED
        BY <3>1, <3>2, Zenon
    <2> QED
      BY <1>4, <2>1
  <1>6. PICK like : like = Alike(d[1], path)
    OBVIOUS
  <1>7. /\ Matching(x, path) = like
        /\ \A k \in DOMAIN d[1] : Records(x)[k] = RecordWord(d, k)
        /\ DOMAIN d[1] = 1 .. Len(d[1])
        /\ \A k \in DOMAIN d[1] : k \in 1 .. Len(FlattenSeq(d)) /\ FlattenSeq(d)[k] = d[1][k]
    BY <1>1, <1>5, <1>6, AlikeMatch
  <1>8. CASE like = {}
    <2>1. found = "none"
      BY <1>5, <1>7, <1>8 DEF ReadsFile
    <2> QED
      BY <1>1, <1>6, <1>8, <2>1
  <1>9. CASE like # {}
    <2>1. like \subseteq DOMAIN d[1]
      BY <1>6 DEF Alike
    <2>2. PICK m : m = Min(like) /\ m \in like
      <3>1. like \subseteq Nat
        BY <1>7, <2>1
      <3> QED
        BY <1>9, <3>1, MinNumber
    <2>3. /\ found = "file" /\ rec = RecordWord(d, m) /\ (Placed(rec) => Gathered(rec.size))
          /\ m \in 1 .. Len(FlattenSeq(d)) /\ FlattenSeq(d)[m] = d[1][m]
      <3>1. found = "file" /\ rec = Chosen(x, path) /\ (Placed(rec) => Gathered(rec.size))
        BY <1>5, <1>7, <1>9 DEF ReadsFile
      <3>2. Chosen(x, path) = Records(x)[m]
        BY <1>7, <2>2 DEF Chosen
      <3>3. m \in DOMAIN d[1]
        BY <2>1, <2>2
      <3> QED
        BY <1>7, <3>1, <3>2, <3>3
    <2>4. ASSUME ~d[1][m].dir PROVE Texts(out) = d[1][m].text
      <3>1. PICK text \in Seq(Int) : text = d[1][m].text
        <4>1. FlattenSeq(d)[m] \in DiscEntries
          BY <1>1, <2>3, RecordIs
        <4> QED
          BY <2>3, <4>1 DEF DiscEntries
      <3>2. rec \in DiscWords /\ rec.lba = Extent(d, m) /\ rec.size = Len(text)
        BY <1>1, <2>3, <2>4, <3>1, RecordIs
      <3>3. PICK L \in Nat : L = Len(text)
        OBVIOUS
      <3>4. Gathered(L)
        BY <2>3, <3>2, <3>3 DEF Placed, DiscWords
      <3>5. ASSUME NEW k \in 1 .. L PROVE out[k] = TextWord(text[k])
        <4>1. out[k] = WordOf(rec, k)
          BY <3>4 DEF Gathered
        <4>2. WordOf(rec, k) = Layout(d)[Extent(d, m) + (k - 1) \div SectorWords][((k - 1) % SectorWords) + 1]
          BY <1>1, <3>2 DEF WordOf
        <4>3. Layout(d)[Extent(d, m) + (k - 1) \div SectorWords][((k - 1) % SectorWords) + 1]
                = TextWord(FlattenSeq(d)[m].text[k])
          BY <1>1, <2>3, <2>4, <3>1, <3>3, WordLaid
        <4> QED
          BY <2>3, <3>1, <4>1, <4>2, <4>3
      <3>6. out \in Seq(ToSet(out)) /\ Len(out) = L
        BY <3>4 DEF Gathered, Sequence
      <3>7. Texts(out) = text
        BY <3>3, <3>5, <3>6, TextsOf
      <3> QED
        BY <3>1, <3>7
    <2> QED
      BY <1>1, <1>6, <1>9, <2>2, <2>3, <2>4
  <1> QED
    BY <1>8, <1>9

\* The name as iso9660_read_file takes it.
Stripped(name) == IF Begins(name, <<SLASH>>) THEN Tail(name) ELSE name

\* The code looks at the first character.
LEMMA StrippedIs ==
  ASSUME NEW name \in Seq(Int)
  PROVE  /\ Stripped(name) \in Seq(Int)
         /\ Stripped(name) = IF name # <<>> /\ Head(name) = SLASH THEN Tail(name) ELSE name
  <1>1. Begins(name, <<SLASH>>) <=> name # <<>> /\ Head(name) = SLASH
    <2>1. Begins(name, <<SLASH>>) <=> Len(<<SLASH>>) <= Len(name) /\ <<SLASH>> = SubSeq(name, 1, Len(<<SLASH>>))
      BY DEF Begins, IsPrefix
    <2>2. Len(<<SLASH>>) = 1 /\ Len(name) \in Nat
      OBVIOUS
    <2>3. CASE name = <<>>
      BY <2>1, <2>2, <2>3
    <2>4. CASE name # <<>>
      <3>1. Len(name) >= 1 /\ Head(name) = name[1] /\ SubSeq(name, 1, 1) = <<name[1]>>
        <4>1. 1 <= Len(name)
          BY <2>2, <2>4
        <4>2. PICK v : v = SubSeq(name, 1, 1)
          OBVIOUS
        <4>3. v \in Seq(Int) /\ Len(v) = 1 /\ v[1] = name[1]
          BY <4>1, <4>2
        <4>4. v = <<name[1]>>
          BY <4>3
        <4>5. Head(name) = name[1]
          BY <2>4
        <4>6. SubSeq(name, 1, 1) = <<name[1]>>
          BY <4>2, <4>4, Zenon
        <4>7. Len(name) >= 1
          BY <2>2, <4>1
        <4> QED
          BY <4>5, <4>6, <4>7, Zenon
      <3> QED
        BY <2>1, <2>2, <2>4, <3>1
    <2> QED
      BY <2>3, <2>4
  <1>2. name # <<>> => Tail(name) \in Seq(Int)
    OBVIOUS
  <1> QED
    BY <1>1, <1>2 DEF Stripped

\* cat asks the disc for what is not in the ramdisk, and has shown what it is to.
CatInv ==
    /\ main = "cat" =>
         /\ Argument \in Seq(Int) /\ MemberNamed(Argument) = <<>> /\ path = Stripped(Argument)
    /\ CatShowsFile

\* When the disc has answered, what is shown is what was to be.
LEMMA CatAnswers ==
  ASSUME Started, Catching, Doing, CatInv, DiscAnswers PROVE CatInv'
  <1>1. /\ main \in {"ls", "cat"} /\ fs = "idle" /\ main' = "answered"
        /\ UNCHANGED <<command, world, found, sound, devices, current_atapi_base>>
        /\ shown' = IF main = "cat" /\ found = "file" THEN Show(Texts(out)) ELSE shown
    BY DEF DiscAnswers, hardware, isoVars, driverVars
  <1>2. CASE main = "ls"
    BY <1>1, <1>2 DEF Doing, CatInv, CatShowsFile, Answered
  <1>3. CASE main = "cat"
    <2>1. Argument \in Seq(Int) /\ MemberNamed(Argument) = <<>> /\ path = Stripped(Argument)
      BY <1>3 DEF CatInv
    <2>2. Healthy' = Healthy /\ Argument' = Argument /\ MemberNamed(Argument)' = MemberNamed(Argument)
      BY <1>1 DEF Healthy, base, Argument, MemberNamed
    <2>3. path \in Seq(Int)
      BY <2>1, StrippedIs
    <2>4. ASSUME Healthy, path # <<>>
          PROVE  IF Alike(world.sectors[1], path) = {} THEN found = "none"
                 ELSE LET first == world.sectors[1][Min(Alike(world.sectors[1], path))]
                      IN ~first.dir => found = "file" /\ shown' = Show(first.text)
      <3>1. ReadsFile
        BY <1>1, <1>3, <2>4 DEF Catching, Progress
      <3> QED
        BY <1>1, <1>3, <2>3, <2>4, <3>1, ReadShows
    <2>5. CatShowsFile'
      <3> SUFFICES ASSUME Answered("cat")' PROVE CatShowsFile'
        BY DEF CatShowsFile
      <3> QED
        BY <1>1, <2>1, <2>2, <2>4 DEF CatShowsFile, Alike, Stripped
    <2> QED
      BY <1>1, <2>5 DEF CatInv
  <1> QED
    BY <1>1, <1>2, <1>3

\* Every step of the kernel: cat shows what it is to show.
LEMMA CatStep ==
  Started /\ Where /\ Catching /\ Doing /\ CatInv /\ [Next]_vars => CatInv'
  <1> SUFFICES ASSUME Started, Where, Catching, Doing, CatInv, [Next]_vars PROVE CatInv'
    OBVIOUS
  <1>1. ASSUME main' # "cat", main' = "answered" => command'[1] # "cat" PROVE CatInv'
    BY <1>1 DEF CatInv, CatShowsFile, Answered
  <1>2. ASSUME UNCHANGED <<main, command, world, path, shown, found, sound, devices, current_atapi_base>>
        PROVE  CatInv'
    <2>1. /\ Healthy' = Healthy /\ Argument' = Argument /\ Answered("cat")' = Answered("cat")
          /\ MemberNamed(Argument)' = MemberNamed(Argument)
      BY <1>2 DEF Healthy, base, Argument, Answered, MemberNamed
    <2>2. CatShowsFile => CatShowsFile'
      BY <1>2, <2>1 DEF CatShowsFile
    <2> QED
      BY <1>2, <2>1, <2>2 DEF CatInv
  <1>3. CASE Ls
    <2>1. command' = <<"ls", <<>>>> /\ main' \in {"ls", "answered"}
      BY <1>3 DEF Ls, Enter
    <2> QED
      BY <1>1, <2>1
  <1>4. ASSUME NEW c \in world.commands, Cat(c[2]) PROVE CatInv'
    <2>1. /\ <<"cat", c[2]>> \in world.commands /\ command' = <<"cat", c[2]>> /\ world' = world
          /\ main = "answered"
      BY <1>4 DEF Cat, Enter, hardware
    <2>2. PICK name \in Seq(Int) : name = c[2]
      BY WorldIs
    <2>3. Argument' = name /\ MemberNamed(name)' = MemberNamed(name)
      BY <2>1, <2>2 DEF Argument, MemberNamed
    <2>4. Opened(name) = IF MemberNamed(name) = <<>> THEN <<>> ELSE <<Encode(MemberNamed(name)[1])>>
      BY <2>1, OpensMember
    <2>5. CASE Opened(name) # <<>>
      <3>1. main' = "answered" /\ shown' = Show(Opened(name)[1])
        BY <1>4, <2>2, <2>5 DEF Cat
      <3>2. MemberNamed(name) # <<>> /\ Opened(name)[1] = Encode(MemberNamed(name)[1])
        BY <2>4, <2>5
      <3>3. CatShowsFile'
        <4>1. MemberNamed(Argument)' = MemberNamed(name)
          BY <2>1, <2>2, <2>3 DEF MemberNamed
        <4> QED
          BY <3>1, <3>2, <4>1 DEF CatShowsFile
      <3> QED
        BY <3>1, <3>3 DEF CatInv
    <2>6. CASE Opened(name) = <<>>
      <3>1. main' = "cat" /\ iso9660_read_file(name)
        BY <1>4, <2>2, <2>6 DEF Cat
      <3>2. path' = Stripped(name)
        BY <3>1, StrippedIs DEF iso9660_read_file
      <3>3. MemberNamed(name) = <<>>
        BY <2>4, <2>6
      <3>4. MemberNamed(Argument)' = <<>> /\ Stripped(Argument)' = Stripped(name)
        BY <2>1, <2>3, <3>3 DEF MemberNamed, Stripped
      <3> QED
        BY <2>3, <3>1, <3>2, <3>4 DEF CatInv, CatShowsFile, Answered
    <2> QED
      BY <2>5, <2>6
  <1>5. ASSUME NEW name, Java(name) PROVE CatInv'
    <2>1. main' = "java"
      BY <1>5 DEF Java
    <2> QED
      BY <1>1, <2>1
  <1>6. CASE main \notin {"ls", "cat", "answered"} /\ main' \notin {"ls", "cat", "answered"}
    BY <1>1, <1>6
  <1>7. CASE main \in Boots \union {"mount", "java", "class"} /\ main' = "answered" /\ command' = command
    BY <1>1, <1>7 DEF Doing, Boots
  <1>8. CASE DiscStep
    <2>1. main' = main /\ UNCHANGED <<command, world>> /\ IsoStep
      BY <1>8 DEF DiscStep, hardware
    <2>2. main \in {"ls", "cat"}
      BY <2>1, IsoMoves DEF Where, Waiting
    <2>3. CASE main = "ls"
      BY <1>1, <2>1, <2>3
    <2>4. CASE main = "cat"
      <3>1. path' = path
        BY <2>1 DEF IsoStep, FindRoot, FindRecord, ReadContent, ListRoot, ListSector, NextSector
      <3>2. /\ Argument' = Argument /\ MemberNamed(Argument)' = MemberNamed(Argument)
            /\ Stripped(Argument)' = Stripped(Argument)
        BY <2>1 DEF Argument, MemberNamed, Stripped
      <3> QED
        BY <2>1, <2>4, <3>1, <3>2 DEF CatInv, CatShowsFile, Answered
    <2> QED
      BY <2>2, <2>3, <2>4
  <1>9. CASE DiscAnswers
    BY <1>9, CatAnswers
  <1>10. CASE UNCHANGED Left
    BY <1>2, <1>10 DEF Left, isoVars, medium
  <1> QED
    BY <1>3, <1>4, <1>5, <1>6, <1>7, <1>8, <1>9, <1>10, CommandMoves DEF execute_command

\* `cat' shows the ramdisk's file of that name; if there is none and the drive is
\* healthy, the disc's, if its entry lies in the root directory's first sector and
\* none before it has a name the argument begins with: CatShowsFile, for any
\* ramdisk, disc and commands.
THEOREM CatShown == Spec => []CatShowsFile
  <1> DEFINE Inv == Started /\ Where /\ Scanned /\ WholeInv /\ Catching /\ Doing /\ CatInv
  <1>1. Init => Inv
    <2>1. Init => Doing /\ CatInv /\ Catching
      <3>1. Init => main = "initrd" /\ command[1] = "none"
        BY DEF Init
      <3> QED
        BY <3>1 DEF Doing, CatInv, CatShowsFile, Answered, Catching
    <2> QED
      BY <2>1, StartedStart, FilesStart, WholeStart
  <1>2. Inv /\ [Next]_vars => Inv'
    BY StartedStep, WhereStep, ScannedStep, WholeStep, CatchingStep, DoingStep, CatStep
  <1>3. Inv => CatShowsFile
    BY DEF CatInv
  <1> QED
    BY <1>1, <1>2, <1>3, PTL DEF Spec

-----------------------------------------------------------------------------
(* The constants of a class *)

\* The numbers of the entries, one by one.
LEMMA SlotNext ==
  ASSUME NEW pool
  PROVE  /\ Slot(pool, 1) = 1
         /\ \A k \in Nat \ {0} : /\ Slot(pool, k) \in Nat \ {0}
                                 /\ Slot(pool, k + 1) = Slot(pool, k) + Slots(pool[k].tag)
  <1> DEFINE N == Nat \ {0}
             step == [p \in Nat \X N |-> p[2] + Slots(pool[p[1]].tag)]
             Solves(g) == g = [j \in N |-> IF j = 1 THEN 1 ELSE g[j - 1] + Slots(pool[j - 1].tag)]
             slot == CHOOSE g : Solves(g)
  <1>0. \A k : Slots(pool[k].tag) \in Nat \ {0}
    BY DEF Slots
  <1>1. 1 \in N /\ step \in [Nat \X N -> N]
    BY <1>0
  <1>2. PICK f \in [Nat -> N] : Counts(f, 1, step)
    <2> HIDE DEF N, step
    <2> QED
      BY <1>1, NumberRecursion
  <1>3. \A k \in Nat : f[k] = IF k = 0 THEN 1 ELSE f[k - 1] + Slots(pool[k].tag)
    <2> SUFFICES ASSUME NEW k \in Nat PROVE f[k] = IF k = 0 THEN 1 ELSE f[k - 1] + Slots(pool[k].tag)
      OBVIOUS
    <2>1. f[k] = IF k = 0 THEN 1 ELSE step[<<k, f[k - 1]>>]
      BY <1>2 DEF Counts
    <2>2. k # 0 => <<k, f[k - 1]>> \in Nat \X N
      BY <1>2
    <2> QED
      BY <2>1, <2>2
  <1>4. PICK h : h = [j \in N |-> f[j - 1]]
    OBVIOUS
  <1>5. Solves(h)
    <2>1. ASSUME NEW j \in N PROVE h[j] = IF j = 1 THEN 1 ELSE h[j - 1] + Slots(pool[j - 1].tag)
      <3>1. PICK z \in Nat : z = j - 1
        OBVIOUS
      <3>2. h[j] = f[z] /\ f[z] = IF z = 0 THEN 1 ELSE f[z - 1] + Slots(pool[z].tag)
        BY <1>3, <1>4, <3>1
      <3>3. z # 0 => h[z] = f[z - 1]
        BY <1>4
      <3> QED
        BY <3>1, <3>2, <3>3
    <2> QED
      BY <1>4, <2>1
  <1>6. Solves(slot)
    <2> HIDE DEF Solves
    <2> QED
      BY <1>5
  <1>7. \A k : Slot(pool, k) = slot[k]
    BY DEF Slot
  <1> HIDE DEF slot
  <1>8. \A j \in N : slot[j] = IF j = 1 THEN 1 ELSE slot[j - 1] + Slots(pool[j - 1].tag)
    BY <1>6
  <1>9. slot[1] = 1
    BY <1>8
  <1>10. ASSUME NEW k \in N PROVE slot[k + 1] = slot[k] + Slots(pool[k].tag)
    <2>1. k + 1 \in N /\ k + 1 # 1 /\ (k + 1) - 1 = k
      OBVIOUS
    <2> HIDE DEF N
    <2> QED
      BY <1>8, <2>1
  <1> DEFINE T == {k \in Nat : slot[k + 1] \in N}
  <1>11. 0 \in T
    BY <1>9
  <1>12. ASSUME NEW k \in Nat, k \in T PROVE k + 1 \in T
    <2>1. PICK z \in N : z = k + 1
      OBVIOUS
    <2>2. slot[z + 1] = slot[z] + Slots(pool[z].tag) /\ slot[z] \in N
      BY <1>10, <1>12, <2>1
    <2>3. slot[z + 1] \in N
      BY <1>0, <2>2
    <2> QED
      BY <2>1, <2>3
  <1>13. Nat \subseteq T
    <2> HIDE DEF T
    <2> QED
      BY <1>11, <1>12, ByNumber
  <1>14. ASSUME NEW k \in N PROVE slot[k] \in N
    <2>1. PICK z \in Nat : k = z + 1
      <3>1. k - 1 \in Nat /\ k = (k - 1) + 1
        OBVIOUS
      <3> QED
        BY <3>1
    <2>2. z \in T
      BY <1>13
    <2> QED
      BY <2>1, <2>2
  <1> QED
    BY <1>7, <1>9, <1>10, <1>14

\* They grow: an entry leaves room for those before it.
LEMMA SlotsGrow ==
  ASSUME NEW pool, NEW j \in Nat \ {0}, NEW k \in Nat, j < k
  PROVE  Slot(pool, j) + Slots(pool[j].tag) <= Slot(pool, k)
  <1> DEFINE T == {z \in Nat : z >= j => Slot(pool, j) + Slots(pool[j].tag) <= Slot(pool, z + 1)}
  <1>1. Slot(pool, j) \in Nat /\ Slots(pool[j].tag) \in Nat
    BY SlotNext DEF Slots
  <1>2. 0 \in T
    OBVIOUS
  <1>3. ASSUME NEW z \in Nat, z \in T PROVE z + 1 \in T
    <2> SUFFICES ASSUME z + 1 >= j PROVE Slot(pool, j) + Slots(pool[j].tag) <= Slot(pool, (z + 1) + 1)
      OBVIOUS
    <2>1. PICK m \in Nat \ {0} : m = z + 1
      OBVIOUS
    <2>2. /\ Slot(pool, m) \in Nat /\ Slot(pool, m + 1) \in Nat /\ Slots(pool[m].tag) \in Nat
          /\ Slot(pool, m + 1) = Slot(pool, m) + Slots(pool[m].tag)
      BY SlotNext DEF Slots
    <2>3. CASE m = j
      BY <1>1, <2>1, <2>2, <2>3
    <2>4. CASE m # j
      <3>1. Slot(pool, j) + Slots(pool[j].tag) <= Slot(pool, z + 1)
        BY <1>3, <2>1, <2>4
      <3>2. Slot(pool, j) + Slots(pool[j].tag) <= Slot(pool, m)
        BY <2>1, <3>1
      <3> QED
        BY <1>1, <2>1, <2>2, <3>2
    <2> QED
      BY <2>3, <2>4
  <1>4. Nat \subseteq T
    <2> HIDE DEF T
    <2> QED
      BY <1>2, <1>3, ByNumber
  <1>5. k - 1 \in T /\ k - 1 >= j /\ (k - 1) + 1 = k
    BY <1>4
  <1> QED
    BY <1>5

\* No two entries have the same number.
LEMMA SlotsDiffer ==
  ASSUME NEW pool, NEW j \in Nat \ {0}, NEW k \in Nat \ {0}, j # k
  PROVE  Slot(pool, j) # Slot(pool, k)
  <1>0. Slots(pool[j].tag) \in Nat \ {0} /\ Slots(pool[k].tag) \in Nat \ {0}
    BY DEF Slots
  <1>1. Slot(pool, j) \in Nat /\ Slot(pool, k) \in Nat
    BY SlotNext
  <1>2. CASE j < k
    <2>1. Slot(pool, j) + Slots(pool[j].tag) <= Slot(pool, k)
      BY <1>2, SlotsGrow
    <2> QED
      BY <1>0, <1>1, <2>1
  <1>3. CASE k < j
    <2>1. Slot(pool, k) + Slots(pool[k].tag) <= Slot(pool, j)
      BY <1>3, SlotsGrow
    <2> QED
      BY <1>0, <1>1, <2>1
  <1> QED
    BY <1>2, <1>3

-----------------------------------------------------------------------------
(* The parts of a class file *)

PoolEntries == [tag : Nat, value : Seq(Nat)]
ClassAttributes == [name : Nat, payload : Seq(Nat)]
ClassMethods == [name : Nat, attrs : Seq(ClassAttributes)]

PoolParts(c) == [k \in DOMAIN c.pool |-> EncodeEntry(c.pool[k])]
FieldParts(c) == [k \in DOMAIN c.fields |-> EncodeField(c.fields[k])]
MethodParts(c) == [k \in DOMAIN c.methods |-> EncodeMethod(c.methods[k])]
Skipped(f) == [a \in DOMAIN f |-> <<0, f[a]>> \o [u \in 1 .. f[a] |-> 0]]
AttributeParts(m) == [a \in DOMAIN m.attrs |-> <<m.attrs[a].name, Len(m.attrs[a].payload)>> \o m.attrs[a].payload]

\* A constant is encoded as its tag, its length if it is a name, and its value.
LEMMA EntryType ==
  ASSUME NEW e \in PoolEntries
  PROVE  /\ EncodeEntry(e) \in Seq(Nat) /\ e.tag \in Nat /\ e.value \in Seq(Nat) /\ Len(e.value) \in Nat
         /\ EncodeEntry(e) = IF e.tag = Utf8 THEN <<e.tag, Len(e.value)>> \o e.value ELSE <<e.tag>> \o e.value
  <1>1. e.tag \in Nat /\ e.value \in Seq(Nat)
    BY DEF PoolEntries
  <1>2. PICK t \in Nat, v \in Seq(Nat) : t = e.tag /\ v = e.value
    BY <1>1
  <1>3. CASE e.tag = Utf8
    <2>1. EncodeEntry(e) = <<t>> \o <<Len(v)>> \o v
      BY <1>2, <1>3 DEF EncodeEntry
    <2>2. <<t>> \o <<Len(v)>> \o v \in Seq(Nat) /\ <<t>> \o <<Len(v)>> \o v = <<t, Len(v)>> \o v
      OBVIOUS
    <2> QED
      BY <1>2, <1>3, <2>1, <2>2
  <1>4. CASE e.tag # Utf8
    <2>1. EncodeEntry(e) = <<t>> \o <<>> \o v
      BY <1>2, <1>4 DEF EncodeEntry
    <2>2. <<t>> \o <<>> \o v \in Seq(Nat) /\ <<t>> \o <<>> \o v = <<t>> \o v
      OBVIOUS
    <2> QED
      BY <1>2, <1>4, <2>1, <2>2
  <1> QED
    BY <1>3, <1>4

\* The attributes of a field are encoded one by one.
LEMMA SkippedType ==
  ASSUME NEW f \in Seq(Nat)
  PROVE  /\ Skipped(f) \in Seq(Seq(Nat)) /\ Len(Skipped(f)) = Len(f)
         /\ \A a \in 1 .. Len(f) : Skipped(f)[a] = <<0, f[a]>> \o [u \in 1 .. f[a] |-> 0]
  <1>1. ASSUME NEW a \in 1 .. Len(f) PROVE Skipped(f)[a] = <<0, f[a]>> \o [u \in 1 .. f[a] |-> 0]
                                           /\ Skipped(f)[a] \in Seq(Nat)
    <2>1. PICK x \in Nat : x = f[a]
      OBVIOUS
    <2>2. [u \in 1 .. x |-> 0] \in Seq(Nat)
      BY Noughts
    <2>3. <<0, x>> \o [u \in 1 .. x |-> 0] \in Seq(Nat)
      BY <2>2
    <2>4. a \in DOMAIN f
      OBVIOUS
    <2>5. Skipped(f)[a] = <<0, f[a]>> \o [u \in 1 .. f[a] |-> 0]
      BY <2>4 DEF Skipped
    <2> QED
      BY <2>1, <2>3, <2>5
  <1>2. DOMAIN f = 1 .. Len(f) /\ Len(f) \in Nat
    OBVIOUS
  <1>3. Skipped(f) = [a \in 1 .. Len(f) |-> Skipped(f)[a]]
    BY <1>2 DEF Skipped
  <1> QED
    BY <1>1, <1>2, <1>3, ByElements

\* A field is encoded as four numbers, the last one that of its attributes, and these.
LEMMA FieldType ==
  ASSUME NEW f \in Seq(Nat)
  PROVE  EncodeField(f) = <<0, 0, 0, Len(f)>> \o FlattenSeq(Skipped(f)) /\ EncodeField(f) \in Seq(Nat)
  <1>1. EncodeField(f) = <<0, 0, 0, Len(f)>> \o FlattenSeq(Skipped(f))
    BY DEF EncodeField, Skipped
  <1>2. FlattenSeq(Skipped(f)) \in Seq(Nat)
    BY SkippedType, FlattenType
  <1> QED
    BY <1>1, <1>2

\* The attributes of a method are encoded one by one, each with its name and length.
LEMMA AttributePartsAre ==
  ASSUME NEW m \in ClassMethods
  PROVE  /\ m.name \in Nat /\ m.attrs \in Seq(ClassAttributes)
         /\ AttributeParts(m) \in Seq(Seq(Nat)) /\ Len(AttributeParts(m)) = Len(m.attrs)
         /\ \A a \in 1 .. Len(m.attrs) :
              /\ m.attrs[a].name \in Nat /\ m.attrs[a].payload \in Seq(Nat)
              /\ AttributeParts(m)[a] = <<m.attrs[a].name, Len(m.attrs[a].payload)>> \o m.attrs[a].payload
  <1>1. m.name \in Nat /\ m.attrs \in Seq(ClassAttributes)
    BY DEF ClassMethods
  <1>2. PICK z \in Seq(ClassAttributes) : z = m.attrs
    BY <1>1
  <1>3. ASSUME NEW a \in 1 .. Len(z)
        PROVE  /\ z[a].name \in Nat /\ z[a].payload \in Seq(Nat)
               /\ AttributeParts(m)[a] = <<z[a].name, Len(z[a].payload)>> \o z[a].payload
               /\ AttributeParts(m)[a] \in Seq(Nat)
    <2>1. z[a] \in ClassAttributes /\ a \in DOMAIN z
      OBVIOUS
    <2>2. PICK x \in Nat, v \in Seq(Nat) : x = z[a].name /\ v = z[a].payload
      BY <2>1 DEF ClassAttributes
    <2>3. <<x, Len(v)>> \o v \in Seq(Nat)
      OBVIOUS
    <2>4. AttributeParts(m)[a] = <<z[a].name, Len(z[a].payload)>> \o z[a].payload
      BY <1>2, <2>1 DEF AttributeParts
    <2> QED
      BY <2>2, <2>3, <2>4
  <1>4. DOMAIN z = 1 .. Len(z) /\ Len(z) \in Nat
    OBVIOUS
  <1>5. AttributeParts(m) = [a \in 1 .. Len(z) |-> AttributeParts(m)[a]]
    BY <1>2, <1>4 DEF AttributeParts
  <1>6. AttributeParts(m) \in Seq(Seq(Nat)) /\ Len(AttributeParts(m)) = Len(z)
    BY <1>3, <1>4, <1>5, ByElements
  <1> QED
    BY <1>1, <1>2, <1>3, <1>6

\* A method is encoded as four numbers, its name and that of its attributes among
\* them, and these.
LEMMA MethodType ==
  ASSUME NEW m \in ClassMethods
  PROVE  /\ EncodeMethod(m) = <<0, m.name, 0, Len(m.attrs)>> \o FlattenSeq(AttributeParts(m))
         /\ EncodeMethod(m) \in Seq(Nat)
  <1>1. EncodeMethod(m) = <<0, m.name, 0, Len(m.attrs)>> \o FlattenSeq(AttributeParts(m))
    BY DEF EncodeMethod, AttributeParts
  <1>2. FlattenSeq(AttributeParts(m)) \in Seq(Nat)
    BY AttributePartsAre, FlattenType
  <1>3. m.name \in Nat /\ Len(m.attrs) \in Nat
    BY AttributePartsAre
  <1>4. PICK x \in Nat, y \in Nat, u \in Seq(Nat) : x = m.name /\ y = Len(m.attrs) /\ u = FlattenSeq(AttributeParts(m))
    BY <1>2, <1>3
  <1>5. <<0, x, 0, y>> \o u \in Seq(Nat)
    OBVIOUS
  <1> QED
    BY <1>1, <1>4, <1>5

\* The constants, fields and methods of a class are encoded one by one.
LEMMA PartsTyped ==
  ASSUME NEW c, IsClass(c)
  PROVE  /\ c.pool \in Seq(PoolEntries) /\ c.fields \in Seq(Seq(Nat)) /\ c.methods \in Seq(ClassMethods)
         /\ c.interfaces \in Nat
         /\ PoolParts(c) \in Seq(Seq(Nat)) /\ Len(PoolParts(c)) = Len(c.pool)
         /\ \A k \in 1 .. Len(c.pool) : PoolParts(c)[k] = EncodeEntry(c.pool[k])
         /\ FieldParts(c) \in Seq(Seq(Nat)) /\ Len(FieldParts(c)) = Len(c.fields)
         /\ \A k \in 1 .. Len(c.fields) : FieldParts(c)[k] = EncodeField(c.fields[k])
         /\ MethodParts(c) \in Seq(Seq(Nat)) /\ Len(MethodParts(c)) = Len(c.methods)
         /\ \A k \in 1 .. Len(c.methods) : MethodParts(c)[k] = EncodeMethod(c.methods[k])
  <1>1. /\ c.pool \in Seq(PoolEntries) /\ c.fields \in Seq(Seq(Nat)) /\ c.methods \in Seq(ClassMethods)
        /\ c.interfaces \in Nat
    BY DEF IsClass, PoolEntries, ClassMethods, ClassAttributes
  <1>2. PoolParts(c) \in Seq(Seq(Nat)) /\ Len(PoolParts(c)) = Len(c.pool)
        /\ \A k \in 1 .. Len(c.pool) : PoolParts(c)[k] = EncodeEntry(c.pool[k])
    <2>1. PICK z \in Seq(PoolEntries) : z = c.pool
      BY <1>1
    <2>2. DOMAIN z = 1 .. Len(z) /\ Len(z) \in Nat /\ \A k \in 1 .. Len(z) : z[k] \in PoolEntries
      OBVIOUS
    <2>3. \A k \in 1 .. Len(z) : EncodeEntry(z[k]) \in Seq(Nat)
      BY <2>2, EntryType
    <2>4. PoolParts(c) = [k \in 1 .. Len(z) |-> EncodeEntry(z[k])]
      BY <2>1, <2>2 DEF PoolParts
    <2> QED
      BY <2>1, <2>2, <2>3, <2>4, ByElements
  <1>3. FieldParts(c) \in Seq(Seq(Nat)) /\ Len(FieldParts(c)) = Len(c.fields)
        /\ \A k \in 1 .. Len(c.fields) : FieldParts(c)[k] = EncodeField(c.fields[k])
    <2>0. PICK Q : Q = Seq(Nat)
      OBVIOUS
    <2>1. PICK z \in Seq(Q) : z = c.fields
      BY <1>1, <2>0
    <2>2. DOMAIN z = 1 .. Len(z) /\ Len(z) \in Nat /\ \A k \in 1 .. Len(z) : z[k] \in Q
      OBVIOUS
    <2>3. \A k \in 1 .. Len(z) : EncodeField(z[k]) \in Seq(Nat)
      BY <2>0, <2>2, FieldType
    <2>4. FieldParts(c) = [k \in 1 .. Len(z) |-> EncodeField(z[k])]
      BY <2>1, <2>2 DEF FieldParts
    <2> QED
      BY <2>1, <2>2, <2>3, <2>4, ByElements
  <1>4. MethodParts(c) \in Seq(Seq(Nat)) /\ Len(MethodParts(c)) = Len(c.methods)
        /\ \A k \in 1 .. Len(c.methods) : MethodParts(c)[k] = EncodeMethod(c.methods[k])
    <2>1. PICK z \in Seq(ClassMethods) : z = c.methods
      BY <1>1
    <2>2. DOMAIN z = 1 .. Len(z) /\ Len(z) \in Nat /\ \A k \in 1 .. Len(z) : z[k] \in ClassMethods
      OBVIOUS
    <2>3. \A k \in 1 .. Len(z) : EncodeMethod(z[k]) \in Seq(Nat)
      BY <2>2, MethodType
    <2>4. MethodParts(c) = [k \in 1 .. Len(z) |-> EncodeMethod(z[k])]
      BY <2>1, <2>2 DEF MethodParts
    <2> QED
      BY <2>1, <2>2, <2>3, <2>4, ByElements
  <1> QED
    BY <1>1, <1>2, <1>3, <1>4

HeaderAt(c) == 4 + Len(FlattenSeq(PoolParts(c)))
FieldsAt(c) == HeaderAt(c) + 4 + c.interfaces
MethodsAt(c) == FieldsAt(c) + 1 + Len(FlattenSeq(FieldParts(c)))

\* What lies where in the file of a class.
ClassLaid(c, d) ==
    /\ d \in Seq(Nat) /\ HeaderAt(c) \in Nat /\ FieldsAt(c) \in Nat /\ MethodsAt(c) \in Nat
    /\ Len(d) = MethodsAt(c) + 2 + Len(FlattenSeq(MethodParts(c)))
    /\ d[1] = ClassMagic /\ d[4] = PoolSize(c)
    /\ Lies(FlattenSeq(PoolParts(c)), d, 4) /\ d[HeaderAt(c) + 4] = c.interfaces
    /\ d[FieldsAt(c) + 1] = Len(c.fields) /\ Lies(FlattenSeq(FieldParts(c)), d, FieldsAt(c) + 1)
    /\ d[MethodsAt(c) + 1] = Len(c.methods) /\ Lies(FlattenSeq(MethodParts(c)), d, MethodsAt(c) + 1)

\* The encoded class has its counts and its parts at their places.
LEMMA ClassIsLaid ==
  ASSUME NEW c, IsClass(c)
  PROVE  ClassLaid(c, EncodeClass(c))
  <1> DEFINE d == EncodeClass(c)
             s1 == <<ClassMagic, 0, 0, Slot(c.pool, Len(c.pool) + 1)>>
             P == FlattenSeq(PoolParts(c))
             s2 == s1 \o P
             B == <<0, 0, 0, c.interfaces>>
             s3 == s2 \o B
             Z == [k \in 1 .. c.interfaces |-> 0]
             s4 == s3 \o Z
             f == <<Len(c.fields)>>
             s5 == s4 \o f
             F == FlattenSeq(FieldParts(c))
             s6 == s5 \o F
             m == <<Len(c.methods)>>
             s7 == s6 \o m
             M == FlattenSeq(MethodParts(c))
             s8 == s7 \o M
             z == <<0>>
  <1>1. d = s8 \o z
    BY DEF EncodeClass, PoolParts, FieldParts, MethodParts
  <1>2. P \in Seq(Nat) /\ F \in Seq(Nat) /\ M \in Seq(Nat)
    BY PartsTyped, FlattenType
  <1>3. B \in Seq(Nat) /\ f \in Seq(Nat) /\ m \in Seq(Nat) /\ z \in Seq(Nat) /\ Z \in Seq(Nat) /\ Len(Z) = c.interfaces
    <2>1. c.interfaces \in Nat /\ Len(c.fields) \in Nat /\ Len(c.methods) \in Nat
      BY PartsTyped
    <2> QED
      BY <2>1
  <1>4. s1 \in Seq(Nat)
    <2>1. ClassMagic \in Nat
      BY ClassAssumption
    <2>2. Len(c.pool) + 1 \in Nat \ {0}
      BY PartsTyped
    <2>3. Slot(c.pool, Len(c.pool) + 1) \in Nat
      BY <2>2, SlotNext
    <2> QED
      BY <2>1, <2>3
  <1>5. Len(s1) = 4 /\ s1[1] = ClassMagic /\ s1[4] = PoolSize(c) /\ Len(B) = 4 /\ B[4] = c.interfaces
        /\ Len(f) = 1 /\ f[1] = Len(c.fields) /\ Len(m) = 1 /\ m[1] = Len(c.methods) /\ Len(z) = 1
    BY DEF PoolSize
  <1> HIDE DEF s1, P, B, Z, f, F, m, M, z, d
  <1>6. s2 \in Seq(Nat)
    BY <1>2, <1>4
  <1> HIDE DEF s2
  <1>7. s3 \in Seq(Nat)
    BY <1>3, <1>6
  <1> HIDE DEF s3
  <1>8. s4 \in Seq(Nat)
    BY <1>3, <1>7
  <1> HIDE DEF s4
  <1>9. s5 \in Seq(Nat)
    BY <1>3, <1>8
  <1> HIDE DEF s5
  <1>10. s6 \in Seq(Nat)
    BY <1>2, <1>9
  <1> HIDE DEF s6
  <1>11. s7 \in Seq(Nat)
    BY <1>3, <1>10
  <1> HIDE DEF s7
  <1>12. s8 \in Seq(Nat)
    BY <1>2, <1>11
  <1> HIDE DEF s8
  <1>13. d \in Seq(Nat) /\ Len(d) = Len(s8) + 1
    <2>1. s8 \o z \in Seq(Nat) /\ Len(s8 \o z) = Len(s8) + Len(z)
      BY <1>3, <1>12
    <2> QED
      BY <1>1, <1>5, <2>1
  <1>14. Lies(s8, d, 0)
    <2>1. Lies(s8 \o z, d, 0)
      BY <1>1, <1>13, LiesWhole
    <2> QED
      BY <1>1, <1>3, <1>12, <1>13, <2>1, LieFirst
  <1>15. Lies(s7, d, 0) /\ Lies(M, d, Len(s7)) /\ Len(s8) = Len(s7) + Len(M)
    <2>1. s8 = s7 \o M
      BY DEF s8
    <2>2. s7 \in Seq(Nat) /\ M \in Seq(Nat) /\ d \in Seq(Nat) /\ Lies(s8, d, 0)
      BY <1>11, <1>2, <1>13, <1>14
    <2>3. Lies(s7, d, 0) /\ Lies(M, d, Len(s7)) /\ Len(s8) = Len(s7) + Len(M)
      BY <2>1, <2>2, LieFirst
    <2> QED
      BY <1>3, <1>5, <2>3
  <1>16. Lies(s6, d, 0) /\ Lies(m, d, Len(s6)) /\ Len(s7) = Len(s6) + 1
    <2>1. s7 = s6 \o m
      BY DEF s7
    <2>2. s6 \in Seq(Nat) /\ m \in Seq(Nat) /\ d \in Seq(Nat) /\ Lies(s7, d, 0)
      BY <1>10, <1>3, <1>13, <1>15
    <2>3. Lies(s6, d, 0) /\ Lies(m, d, Len(s6)) /\ Len(s7) = Len(s6) + Len(m)
      BY <2>1, <2>2, LieFirst
    <2> QED
      BY <1>3, <1>5, <2>3
  <1>17. Lies(s5, d, 0) /\ Lies(F, d, Len(s5)) /\ Len(s6) = Len(s5) + Len(F)
    <2>1. s6 = s5 \o F
      BY DEF s6
    <2>2. s5 \in Seq(Nat) /\ F \in Seq(Nat) /\ d \in Seq(Nat) /\ Lies(s6, d, 0)
      BY <1>9, <1>2, <1>13, <1>16
    <2>3. Lies(s5, d, 0) /\ Lies(F, d, Len(s5)) /\ Len(s6) = Len(s5) + Len(F)
      BY <2>1, <2>2, LieFirst
    <2> QED
      BY <1>3, <1>5, <2>3
  <1>18. Lies(s4, d, 0) /\ Lies(f, d, Len(s4)) /\ Len(s5) = Len(s4) + 1
    <2>1. s5 = s4 \o f
      BY DEF s5
    <2>2. s4 \in Seq(Nat) /\ f \in Seq(Nat) /\ d \in Seq(Nat) /\ Lies(s5, d, 0)
      BY <1>8, <1>3, <1>13, <1>17
    <2>3. Lies(s4, d, 0) /\ Lies(f, d, Len(s4)) /\ Len(s5) = Len(s4) + Len(f)
      BY <2>1, <2>2, LieFirst
    <2> QED
      BY <1>3, <1>5, <2>3
  <1>19. Lies(s3, d, 0) /\ Len(s4) = Len(s3) + c.interfaces
    <2>1. s4 = s3 \o Z
      BY DEF s4
    <2>2. s3 \in Seq(Nat) /\ Z \in Seq(Nat) /\ d \in Seq(Nat) /\ Lies(s4, d, 0)
      BY <1>7, <1>3, <1>13, <1>18
    <2>3. Lies(s3, d, 0) /\ Lies(Z, d, Len(s3)) /\ Len(s4) = Len(s3) + Len(Z)
      BY <2>1, <2>2, LieFirst
    <2> QED
      BY <1>3, <1>5, <2>3
  <1>20. Lies(s2, d, 0) /\ Lies(B, d, Len(s2)) /\ Len(s3) = Len(s2) + 4
    <2>1. s3 = s2 \o B
      BY DEF s3
    <2>2. s2 \in Seq(Nat) /\ B \in Seq(Nat) /\ d \in Seq(Nat) /\ Lies(s3, d, 0)
      BY <1>6, <1>3, <1>13, <1>19
    <2>3. Lies(s2, d, 0) /\ Lies(B, d, Len(s2)) /\ Len(s3) = Len(s2) + Len(B)
      BY <2>1, <2>2, LieFirst
    <2> QED
      BY <1>3, <1>5, <2>3
  <1>21. Lies(s1, d, 0) /\ Lies(P, d, Len(s1)) /\ Len(s2) = Len(s1) + Len(P)
    <2>1. s2 = s1 \o P
      BY DEF s2
    <2>2. s1 \in Seq(Nat) /\ P \in Seq(Nat) /\ d \in Seq(Nat) /\ Lies(s2, d, 0)
      BY <1>4, <1>2, <1>13, <1>20
    <2>3. Lies(s1, d, 0) /\ Lies(P, d, Len(s1)) /\ Len(s2) = Len(s1) + Len(P)
      BY <2>1, <2>2, LieFirst
    <2> QED
      BY <1>3, <1>5, <2>3
  <1>22. PICK l1 \in Nat, l2 \in Nat, l3 \in Nat, l4 \in Nat, l5 \in Nat, l6 \in Nat, l7 \in Nat, l8 \in Nat :
            /\ l1 = Len(s1) /\ l2 = Len(s2) /\ l3 = Len(s3) /\ l4 = Len(s4) /\ l5 = Len(s5) /\ l6 = Len(s6)
            /\ l7 = Len(s7) /\ l8 = Len(s8)
    <2>1. /\ Len(s1) \in Nat /\ Len(s2) \in Nat /\ Len(s3) \in Nat /\ Len(s4) \in Nat
      BY <1>4, <1>6, <1>7, <1>8
    <2>2. /\ Len(s5) \in Nat /\ Len(s6) \in Nat /\ Len(s7) \in Nat /\ Len(s8) \in Nat
      BY <1>9, <1>10, <1>11, <1>12
    <2> QED
      BY <2>1, <2>2
  <1>23. PICK p \in Nat, q \in Nat, r \in Nat, y \in Nat : p = Len(P) /\ q = Len(F) /\ r = Len(M) /\ y = c.interfaces
    <2>1. c.interfaces \in Nat
      BY PartsTyped
    <2> QED
      BY <1>2, <2>1
  <1>24. HeaderAt(c) = 4 + p /\ FieldsAt(c) = HeaderAt(c) + 4 + y /\ MethodsAt(c) = FieldsAt(c) + 1 + q
    BY <1>23 DEF HeaderAt, FieldsAt, MethodsAt, P, F
  <1>25. /\ l2 = HeaderAt(c) /\ l4 = FieldsAt(c) /\ l5 = FieldsAt(c) + 1 /\ l6 = MethodsAt(c)
         /\ l7 = MethodsAt(c) + 1 /\ Len(d) = MethodsAt(c) + 2 + r /\ l1 = 4
         /\ HeaderAt(c) \in Nat /\ FieldsAt(c) \in Nat /\ MethodsAt(c) \in Nat
    <2>1. l1 = 4 /\ l2 = l1 + p /\ l3 = l2 + 4 /\ l4 = l3 + y
      BY <1>5, <1>19, <1>20, <1>21, <1>22, <1>23
    <2>2. l5 = l4 + 1 /\ l6 = l5 + q /\ l7 = l6 + 1 /\ l8 = l7 + r /\ Len(d) = l8 + 1
      BY <1>13, <1>15, <1>16, <1>17, <1>18, <1>22, <1>23
    <2>3. PICK h, g, e : h = HeaderAt(c) /\ g = FieldsAt(c) /\ e = MethodsAt(c)
      OBVIOUS
    <2>4. h = 4 + p /\ g = h + 4 + y /\ e = g + 1 + q
      BY <1>24, <2>3
    <2>5. l2 = h /\ l4 = g /\ l5 = g + 1 /\ l6 = e /\ l7 = e + 1 /\ l8 = e + 1 + r
      BY <2>1, <2>2, <2>4
    <2>6. h \in Nat /\ g \in Nat /\ e \in Nat
      BY <2>5
    <2>7. Len(d) = e + 2 + r
      <3>1. Len(d) = l8 + 1 /\ l8 = e + 1 + r
        BY <2>2, <2>5
      <3> QED
        BY <2>6, <3>1
    <2> QED
      BY <2>1, <2>3, <2>5, <2>6, <2>7
  <1>26. d[1] = ClassMagic /\ d[4] = PoolSize(c)
    BY <1>5, <1>21 DEF Lies
  <1>27. Lies(P, d, 4)
    BY <1>21, <1>22, <1>25
  <1>28. d[HeaderAt(c) + 4] = c.interfaces
    <2>1. d[l2 + 4] = B[4]
      <3>1. Lies(B, d, l2) /\ 4 \in 1 .. Len(B)
        BY <1>5, <1>20, <1>22
      <3> QED
        BY <3>1 DEF Lies
    <2> QED
      BY <1>5, <1>25, <2>1
  <1>29. d[FieldsAt(c) + 1] = Len(c.fields) /\ Lies(F, d, FieldsAt(c) + 1)
    <2>1. d[l4 + 1] = f[1]
      BY <1>5, <1>18, <1>22 DEF Lies
    <2>2. Lies(F, d, l5)
      BY <1>17, <1>22
    <2> QED
      BY <1>5, <1>25, <2>1, <2>2
  <1>30. d[MethodsAt(c) + 1] = Len(c.methods) /\ Lies(M, d, MethodsAt(c) + 1)
    <2>1. d[l6 + 1] = m[1]
      BY <1>5, <1>16, <1>22 DEF Lies
    <2>2. Lies(M, d, l7)
      BY <1>15, <1>22
    <2> QED
      BY <1>5, <1>25, <2>1, <2>2
  <1> QED
    BY <1>13, <1>23, <1>25, <1>26, <1>27, <1>28, <1>29, <1>30 DEF ClassLaid, d, P, F, M

\* Where the loader stands in front of an entry of the pool, a field, an
\* attribute of a field, a method, an attribute of a method.
PoolAt(c, k) == 4 + Start(PoolParts(c), k)
FieldAt(c, k) == FieldsAt(c) + 1 + Start(FieldParts(c), k)
SkipAt(c, k, a) == FieldAt(c, k) + 4 + Start(Skipped(c.fields[k]), a)
MethodAt(c, k) == MethodsAt(c) + 1 + Start(MethodParts(c), k)
AttributeAt(c, k, a) == MethodAt(c, k) + 4 + Start(AttributeParts(c.methods[k]), a)

\* Parts one behind the other, the first behind the first o.
LEMMA PartsLie ==
  ASSUME NEW z \in Seq(Seq(Nat)), NEW d \in Seq(Nat), NEW o \in Nat, Lies(FlattenSeq(z), d, o)
  PROVE  /\ o + Start(z, 1) = o /\ o + Start(z, Len(z) + 1) = o + Len(FlattenSeq(z))
         /\ \A k \in 1 .. Len(z) + 1 : o + Start(z, k) \in Nat
         /\ \A k \in 1 .. Len(z) : /\ Lies(z[k], d, o + Start(z, k))
                                   /\ o + Start(z, k + 1) = (o + Start(z, k)) + Len(z[k])
  <1>1. Start(z, 1) = 0 /\ Start(z, Len(z) + 1) = Len(FlattenSeq(z))
    BY Starts
  <1>2. ASSUME NEW k \in 1 .. Len(z) + 1 PROVE o + Start(z, k) \in Nat
    <2>1. Start(z, k) \in Nat
      BY Starts
    <2> QED
      BY <2>1
  <1>3. ASSUME NEW k \in 1 .. Len(z)
        PROVE  Lies(z[k], d, o + Start(z, k)) /\ o + Start(z, k + 1) = (o + Start(z, k)) + Len(z[k])
    <2>1. Lies(z[k], d, o + Start(z, k))
      BY LieInFlat
    <2>2. Len(z[k]) \in Nat /\ Start(z, k + 1) = Start(z, k) + Len(z[k])
      BY Starts
    <2>3. k \in 1 .. Len(z) + 1
      OBVIOUS
    <2>4. Start(z, k) \in Nat
      BY <2>3, Starts
    <2>5. PICK a \in Nat, l \in Nat : a = Start(z, k) /\ l = Len(z[k])
      BY <2>2, <2>4
    <2>6. Start(z, k + 1) = a + l
      BY <2>2, <2>5
    <2>7. o + (a + l) = (o + a) + l
      OBVIOUS
    <2> QED
      BY <2>1, <2>5, <2>6, <2>7
  <1>4. o + 0 = o
    OBVIOUS
  <1> QED
    BY <1>1, <1>2, <1>3, <1>4

EntryLies(c, d, k) ==
    /\ PoolAt(c, k) \in Nat /\ PoolAt(c, k) < Len(d) /\ d[PoolAt(c, k) + 1] = c.pool[k].tag
    /\ c.pool[k].tag = Utf8 =>
          /\ PoolAt(c, k) + 1 < Len(d) /\ d[PoolAt(c, k) + 2] = Len(c.pool[k].value)
          /\ PoolAt(c, k + 1) = PoolAt(c, k) + 2 + Len(c.pool[k].value)
          /\ Lies(c.pool[k].value, d, PoolAt(c, k) + 2)
    /\ c.pool[k].tag # Utf8 => PoolAt(c, k + 1) = PoolAt(c, k) + 1 + Len(c.pool[k].value)

\* Each constant lies behind the one before it, from the fifth number on.
LEMMA EntriesLie ==
  ASSUME NEW c, IsClass(c), NEW d, ClassLaid(c, d)
  PROVE  /\ PoolAt(c, 1) = 4 /\ PoolAt(c, Len(c.pool) + 1) = HeaderAt(c)
         /\ \A k \in 1 .. Len(c.pool) : EntryLies(c, d, k)
  <1>1. /\ d \in Seq(Nat) /\ Lies(FlattenSeq(PoolParts(c)), d, 4)
        /\ PoolParts(c) \in Seq(Seq(Nat)) /\ Len(PoolParts(c)) = Len(c.pool)
    BY PartsTyped DEF ClassLaid
  <1>2. /\ 4 + Start(PoolParts(c), 1) = 4
        /\ 4 + Start(PoolParts(c), Len(PoolParts(c)) + 1) = 4 + Len(FlattenSeq(PoolParts(c)))
        /\ \A k \in 1 .. Len(PoolParts(c)) + 1 : 4 + Start(PoolParts(c), k) \in Nat
        /\ \A k \in 1 .. Len(PoolParts(c)) :
              /\ Lies(PoolParts(c)[k], d, 4 + Start(PoolParts(c), k))
              /\ 4 + Start(PoolParts(c), k + 1) = (4 + Start(PoolParts(c), k)) + Len(PoolParts(c)[k])
    BY <1>1, PartsLie
  <1>3. ASSUME NEW k \in 1 .. Len(c.pool) PROVE EntryLies(c, d, k)
    <2>1. c.pool[k] \in PoolEntries /\ PoolParts(c)[k] = EncodeEntry(c.pool[k])
      BY PartsTyped
    <2>2. PICK e : e = c.pool[k]
      OBVIOUS
    <2>3. PICK o \in Nat : o = PoolAt(c, k)
      <3>1. Len(c.pool) \in Nat
        BY PartsTyped
      <3>2. k \in 1 .. Len(PoolParts(c)) + 1
        BY <1>1, <3>1
      <3> QED
        BY <1>2, <3>2 DEF PoolAt
    <2>4. /\ Lies(EncodeEntry(e), d, o) /\ PoolAt(c, k + 1) = o + Len(EncodeEntry(e))
      BY <1>1, <1>2, <2>1, <2>2, <2>3 DEF PoolAt
    <2>5. e \in PoolEntries
      BY <2>1, <2>2
    <2>6. PICK t \in Nat, v \in Seq(Nat) : t = e.tag /\ v = e.value
      BY <2>5, EntryType
    <2>7. CASE t = Utf8
      <3>1. EncodeEntry(e) = <<t, Len(v)>> \o v
        BY <2>5, <2>6, <2>7, EntryType
      <3>2. PICK h \in Seq(Nat) : h = <<t, Len(v)>> /\ Len(h) = 2 /\ h[1] = t /\ h[2] = Len(v)
        <4>1. PICK l \in Nat : l = Len(v)
          OBVIOUS
        <4>2. <<t, l>> \in Seq(Nat) /\ Len(<<t, l>>) = 2 /\ <<t, l>>[1] = t /\ <<t, l>>[2] = l
          BY Two
        <4> QED
          BY <4>1, <4>2
      <3>3. PICK b : b = EncodeEntry(e)
        OBVIOUS
      <3>4. /\ Len(b) = Len(h) + Len(v) /\ o + Len(b) <= Len(d) /\ Lies(v, d, o + Len(h))
            /\ \A j \in 1 .. Len(h) : d[o + j] = h[j] /\ o + j <= Len(d)
        <4>1. b = h \o v /\ Lies(h \o v, d, o) /\ Len(h) # 0 /\ d \in Seq(Nat)
          BY <1>1, <2>4, <3>1, <3>2, <3>3
        <4>2. Headed(h, v, d, o)
          BY <4>1, HeadLies
        <4> QED
          BY <4>1, <4>2 DEF Headed
      <3>5. d[o + 1] = t /\ d[o + 2] = Len(v) /\ o + 2 <= Len(d) /\ Lies(v, d, o + 2)
        BY <3>2, <3>4
      <3>6. o < Len(d) /\ o + 1 < Len(d)
        BY <1>1, <3>5
      <3>7. PoolAt(c, k + 1) = o + 2 + Len(v)
        <4>1. PoolAt(c, k + 1) = o + (2 + Len(v))
          BY <2>4, <3>2, <3>3, <3>4
        <4> QED
          BY <4>1
      <3> QED
        BY <2>2, <2>3, <2>6, <2>7, <3>5, <3>6, <3>7 DEF EntryLies
    <2>8. CASE t # Utf8
      <3>1. EncodeEntry(e) = <<t>> \o v
        BY <2>5, <2>6, <2>8, EntryType
      <3>2. PICK h \in Seq(Nat) : h = <<t>> /\ Len(h) = 1 /\ h[1] = t
        BY <2>6, One
      <3>3. PICK b : b = EncodeEntry(e)
        OBVIOUS
      <3>4. /\ Len(b) = Len(h) + Len(v) /\ o + Len(b) <= Len(d)
            /\ \A j \in 1 .. Len(h) : d[o + j] = h[j] /\ o + j <= Len(d)
        <4>1. b = h \o v /\ Lies(h \o v, d, o) /\ Len(h) # 0 /\ d \in Seq(Nat)
          BY <1>1, <2>4, <3>1, <3>2, <3>3
        <4>2. Headed(h, v, d, o)
          BY <4>1, HeadLies
        <4> QED
          BY <4>1, <4>2 DEF Headed
      <3>5. d[o + 1] = t /\ o + 1 <= Len(d)
        BY <3>2, <3>4
      <3>6. o < Len(d)
        BY <1>1, <3>5
      <3>7. PoolAt(c, k + 1) = o + 1 + Len(v)
        <4>1. PoolAt(c, k + 1) = o + (1 + Len(v))
          BY <2>4, <3>2, <3>3, <3>4
        <4> QED
          BY <4>1
      <3> QED
        BY <2>2, <2>3, <2>6, <2>8, <3>5, <3>6, <3>7 DEF EntryLies
    <2> QED
      BY <2>7, <2>8
  <1> QED
    BY <1>1, <1>2, <1>3 DEF PoolAt, HeaderAt

FieldLies(c, d, k) ==
    LET f == c.fields[k]
    IN  /\ Len(f) \in Nat /\ FieldAt(c, k) \in Nat /\ FieldAt(c, k) + 4 <= Len(d) /\ d[FieldAt(c, k) + 4] = Len(f)
        /\ SkipAt(c, k, 1) = FieldAt(c, k) + 4 /\ SkipAt(c, k, Len(f) + 1) = FieldAt(c, k + 1)
        /\ \A a \in 1 .. Len(f) : /\ SkipAt(c, k, a) \in Nat /\ SkipAt(c, k, a) + 2 <= Len(d)
                                   /\ d[SkipAt(c, k, a) + 2] = f[a] /\ f[a] \in Nat
                                   /\ SkipAt(c, k, a + 1) = SkipAt(c, k, a) + 2 + f[a]

\* Each field lies behind the one before it, from behind their count on.
LEMMA FieldsLie ==
  ASSUME NEW c, IsClass(c), NEW d, ClassLaid(c, d)
  PROVE  /\ FieldAt(c, 1) = FieldsAt(c) + 1 /\ FieldAt(c, Len(c.fields) + 1) = MethodsAt(c)
         /\ \A k \in 1 .. Len(c.fields) : FieldLies(c, d, k)
  <1>0. PICK o0 \in Nat : o0 = FieldsAt(c) + 1
    BY DEF ClassLaid
  <1>1. /\ d \in Seq(Nat) /\ Lies(FlattenSeq(FieldParts(c)), d, o0)
        /\ FieldParts(c) \in Seq(Seq(Nat)) /\ Len(FieldParts(c)) = Len(c.fields)
    BY <1>0, PartsTyped DEF ClassLaid
  <1>2. /\ o0 + Start(FieldParts(c), 1) = o0
        /\ o0 + Start(FieldParts(c), Len(FieldParts(c)) + 1) = o0 + Len(FlattenSeq(FieldParts(c)))
        /\ \A k \in 1 .. Len(FieldParts(c)) + 1 : o0 + Start(FieldParts(c), k) \in Nat
        /\ \A k \in 1 .. Len(FieldParts(c)) :
              /\ Lies(FieldParts(c)[k], d, o0 + Start(FieldParts(c), k))
              /\ o0 + Start(FieldParts(c), k + 1) = (o0 + Start(FieldParts(c), k)) + Len(FieldParts(c)[k])
    BY <1>1, PartsLie
  <1>3. ASSUME NEW k \in 1 .. Len(c.fields) PROVE FieldLies(c, d, k)
    <2>1. c.fields[k] \in Seq(Nat) /\ FieldParts(c)[k] = EncodeField(c.fields[k])
      <3>1. PICK Q : Q = Seq(Nat)
        OBVIOUS
      <3>2. c.fields \in Seq(Q)
        BY <3>1, PartsTyped
      <3>3. c.fields[k] \in Q
        BY <3>2
      <3> QED
        BY <3>1, <3>3, PartsTyped
    <2>2. PICK f \in Seq(Nat) : f = c.fields[k]
      BY <2>1
    <2>3. PICK o \in Nat : o = FieldAt(c, k)
      <3>1. Len(c.fields) \in Nat
        BY PartsTyped
      <3>2. k \in 1 .. Len(FieldParts(c)) + 1
        BY <1>1, <3>1
      <3> QED
        BY <1>0, <1>2, <3>2 DEF FieldAt
    <2>4. /\ Lies(EncodeField(f), d, o) /\ FieldAt(c, k + 1) = o + Len(EncodeField(f))
      BY <1>0, <1>1, <1>2, <2>1, <2>2, <2>3 DEF FieldAt
    <2>5. /\ EncodeField(f) = <<0, 0, 0, Len(f)>> \o FlattenSeq(Skipped(f)) /\ Skipped(f) \in Seq(Seq(Nat))
          /\ FlattenSeq(Skipped(f)) \in Seq(Nat) /\ Len(Skipped(f)) = Len(f) /\ Len(f) \in Nat
      <3>1. Skipped(f) \in Seq(Seq(Nat)) /\ Len(Skipped(f)) = Len(f)
        BY SkippedType
      <3>2. FlattenSeq(Skipped(f)) \in Seq(Nat)
        BY <3>1, FlattenType
      <3>3. EncodeField(f) = <<0, 0, 0, Len(f)>> \o FlattenSeq(Skipped(f))
        BY FieldType
      <3> QED
        BY <3>1, <3>2, <3>3
    <2>6. PICK h \in Seq(Nat) : h = <<0, 0, 0, Len(f)>> /\ Len(h) = 4 /\ h[4] = Len(f)
      <3>1. PICK l \in Nat : l = Len(f)
        BY <2>5
      <3>2. <<0, 0, 0, l>> \in Seq(Nat) /\ Len(<<0, 0, 0, l>>) = 4 /\ <<0, 0, 0, l>>[4] = l
        BY Four
      <3> QED
        BY <3>1, <3>2
    <2>7. PICK b : b = EncodeField(f)
      OBVIOUS
    <2>8. PICK F \in Seq(Nat) : F = FlattenSeq(Skipped(f))
      BY <2>5
    <2>9. b = h \o F /\ Lies(b, d, o)
      BY <2>4, <2>5, <2>6, <2>7, <2>8
    <2>10. /\ Len(b) = Len(h) + Len(F) /\ o + Len(h) \in Nat /\ Lies(F, d, o + Len(h))
           /\ \A j \in 1 .. Len(h) : d[o + j] = h[j] /\ o + j <= Len(d)
      <3>1. Len(h) # 0 /\ d \in Seq(Nat) /\ Lies(h \o F, d, o)
        BY <1>1, <2>6, <2>9
      <3>2. Headed(h, F, d, o)
        BY <3>1, HeadLies
      <3> QED
        BY <2>9, <3>2 DEF Headed
    <2>11. d[o + 4] = Len(f) /\ o + 4 <= Len(d)
      BY <2>6, <2>10
    <2>12. PICK o4 \in Nat : o4 = o + 4 /\ Lies(FlattenSeq(Skipped(f)), d, o4) /\ FieldAt(c, k + 1) = o4 + Len(F)
      <3>1. PICK l \in Nat : l = Len(F)
        OBVIOUS
      <3>2. FieldAt(c, k + 1) = o + (4 + l) /\ o + (4 + l) = (o + 4) + l
        BY <2>4, <2>6, <2>7, <2>10, <3>1
      <3> QED
        BY <2>6, <2>8, <2>10, <3>1, <3>2
    <2>13. /\ o4 + Start(Skipped(f), 1) = o4
           /\ o4 + Start(Skipped(f), Len(Skipped(f)) + 1) = o4 + Len(FlattenSeq(Skipped(f)))
           /\ \A a \in 1 .. Len(Skipped(f)) + 1 : o4 + Start(Skipped(f), a) \in Nat
           /\ \A a \in 1 .. Len(Skipped(f)) :
                 /\ Lies(Skipped(f)[a], d, o4 + Start(Skipped(f), a))
                 /\ o4 + Start(Skipped(f), a + 1) = (o4 + Start(Skipped(f), a)) + Len(Skipped(f)[a])
      BY <1>1, <2>5, <2>12, PartsLie
    <2>14. \A a : SkipAt(c, k, a) = o4 + Start(Skipped(f), a)
      BY <2>2, <2>3, <2>12 DEF SkipAt
    <2>15. SkipAt(c, k, 1) = o4 /\ SkipAt(c, k, Len(f) + 1) = FieldAt(c, k + 1)
      BY <2>5, <2>8, <2>12, <2>13, <2>14
    <2>16. ASSUME NEW a \in 1 .. Len(f)
           PROVE  /\ SkipAt(c, k, a) \in Nat /\ SkipAt(c, k, a) + 2 <= Len(d)
                  /\ d[SkipAt(c, k, a) + 2] = f[a] /\ f[a] \in Nat
                  /\ SkipAt(c, k, a + 1) = SkipAt(c, k, a) + 2 + f[a]
      <3>1. PICK x \in Nat : x = f[a]
        OBVIOUS
      <3>2. PICK p \in Nat : p = SkipAt(c, k, a)
        <4>1. a \in 1 .. Len(Skipped(f)) + 1
          BY <2>5
        <4> QED
          BY <2>13, <2>14, <4>1
      <3>3. PICK z : z = Skipped(f)[a] /\ Lies(z, d, p) /\ SkipAt(c, k, a + 1) = p + Len(z)
        <4>1. a \in 1 .. Len(Skipped(f))
          BY <2>5
        <4>2. /\ Lies(Skipped(f)[a], d, o4 + Start(Skipped(f), a))
              /\ o4 + Start(Skipped(f), a + 1) = (o4 + Start(Skipped(f), a)) + Len(Skipped(f)[a])
          BY <2>13, <4>1
        <4>3. p = o4 + Start(Skipped(f), a) /\ SkipAt(c, k, a + 1) = o4 + Start(Skipped(f), a + 1)
          BY <2>14, <3>2, Zenon
        <4> QED
          BY <4>2, <4>3, Zenon
      <3>4. PICK Z \in Seq(Nat) : Z = [u \in 1 .. x |-> 0] /\ Len(Z) = x
        BY Noughts
      <3>5. PICK g \in Seq(Nat) : g = <<0, x>> /\ Len(g) = 2 /\ g[2] = x
        BY <3>1, Two
      <3>6. z = g \o Z
        BY <3>1, <3>3, <3>4, <3>5, SkippedType
      <3>7. Len(z) = Len(g) + Len(Z) /\ \A j \in 1 .. Len(g) : d[p + j] = g[j] /\ p + j <= Len(d)
        <4>1. Lies(g \o Z, d, p) /\ Len(g) # 0 /\ d \in Seq(Nat)
          BY <1>1, <3>3, <3>5, <3>6
        <4>2. Headed(g, Z, d, p)
          BY <4>1, HeadLies
        <4> QED
          BY <3>6, <4>2 DEF Headed
      <3>8. d[p + 2] = x /\ p + 2 <= Len(d)
        BY <3>5, <3>7
      <3>9. SkipAt(c, k, a + 1) = p + 2 + x
        <4>1. SkipAt(c, k, a + 1) = p + (2 + x)
          BY <3>3, <3>4, <3>5, <3>7
        <4> QED
          BY <4>1
      <3> QED
        BY <3>1, <3>2, <3>8, <3>9
    <2> QED
      BY <2>2, <2>3, <2>5, <2>11, <2>12, <2>15, <2>16 DEF FieldLies
  <1>4. FieldAt(c, 1) = FieldsAt(c) + 1 /\ FieldAt(c, Len(c.fields) + 1) = MethodsAt(c)
    BY <1>0, <1>1, <1>2 DEF FieldAt, MethodsAt
  <1> QED
    BY <1>3, <1>4

MethodLies(c, d, k) ==
    LET m == c.methods[k]
    IN  /\ m \in ClassMethods /\ Len(m.attrs) \in Nat
        /\ MethodAt(c, k) \in Nat /\ MethodAt(c, k) + 4 <= Len(d)
        /\ d[MethodAt(c, k) + 2] = m.name /\ d[MethodAt(c, k) + 4] = Len(m.attrs)
        /\ AttributeAt(c, k, 1) = MethodAt(c, k) + 4 /\ AttributeAt(c, k, Len(m.attrs) + 1) = MethodAt(c, k + 1)
        /\ \A a \in 1 .. Len(m.attrs) :
              /\ AttributeAt(c, k, a) \in Nat /\ AttributeAt(c, k, a) + 2 <= Len(d)
              /\ d[AttributeAt(c, k, a) + 1] = m.attrs[a].name
              /\ d[AttributeAt(c, k, a) + 2] = Len(m.attrs[a].payload)
              /\ AttributeAt(c, k, a + 1) = AttributeAt(c, k, a) + 2 + Len(m.attrs[a].payload)
              /\ Lies(m.attrs[a].payload, d, AttributeAt(c, k, a) + 2)

\* Each method lies behind the one before it, from behind their count on.
LEMMA MethodsLie ==
  ASSUME NEW c, IsClass(c), NEW d, ClassLaid(c, d)
  PROVE  /\ MethodAt(c, 1) = MethodsAt(c) + 1
         /\ \A k \in 1 .. Len(c.methods) : MethodLies(c, d, k)
  <1>0. PICK o0 \in Nat : o0 = MethodsAt(c) + 1
    BY DEF ClassLaid
  <1>1. /\ d \in Seq(Nat) /\ Lies(FlattenSeq(MethodParts(c)), d, o0)
        /\ MethodParts(c) \in Seq(Seq(Nat)) /\ Len(MethodParts(c)) = Len(c.methods)
    BY <1>0, PartsTyped DEF ClassLaid
  <1>2. /\ o0 + Start(MethodParts(c), 1) = o0
        /\ \A k \in 1 .. Len(MethodParts(c)) + 1 : o0 + Start(MethodParts(c), k) \in Nat
        /\ \A k \in 1 .. Len(MethodParts(c)) :
              /\ Lies(MethodParts(c)[k], d, o0 + Start(MethodParts(c), k))
              /\ o0 + Start(MethodParts(c), k + 1) = (o0 + Start(MethodParts(c), k)) + Len(MethodParts(c)[k])
    BY <1>1, PartsLie
  <1>3. ASSUME NEW k \in 1 .. Len(c.methods) PROVE MethodLies(c, d, k)
    <2>1. c.methods[k] \in ClassMethods /\ MethodParts(c)[k] = EncodeMethod(c.methods[k])
      BY PartsTyped
    <2>2. PICK m \in ClassMethods : m = c.methods[k]
      BY <2>1
    <2>3. PICK o \in Nat : o = MethodAt(c, k)
      <3>1. Len(c.methods) \in Nat
        BY PartsTyped
      <3>2. k \in 1 .. Len(MethodParts(c)) + 1
        BY <1>1, <3>1
      <3> QED
        BY <1>0, <1>2, <3>2 DEF MethodAt
    <2>4. /\ Lies(EncodeMethod(m), d, o) /\ MethodAt(c, k + 1) = o + Len(EncodeMethod(m))
      BY <1>0, <1>1, <1>2, <2>1, <2>2, <2>3 DEF MethodAt
    <2>5. /\ EncodeMethod(m) = <<0, m.name, 0, Len(m.attrs)>> \o FlattenSeq(AttributeParts(m))
          /\ AttributeParts(m) \in Seq(Seq(Nat)) /\ FlattenSeq(AttributeParts(m)) \in Seq(Nat)
          /\ Len(AttributeParts(m)) = Len(m.attrs) /\ Len(m.attrs) \in Nat /\ m.name \in Nat
      <3>1. AttributeParts(m) \in Seq(Seq(Nat)) /\ Len(AttributeParts(m)) = Len(m.attrs) /\ m.name \in Nat
            /\ m.attrs \in Seq(ClassAttributes)
        BY AttributePartsAre
      <3>2. FlattenSeq(AttributeParts(m)) \in Seq(Nat)
        BY <3>1, FlattenType
      <3>3. EncodeMethod(m) = <<0, m.name, 0, Len(m.attrs)>> \o FlattenSeq(AttributeParts(m))
        BY MethodType
      <3> QED
        BY <3>1, <3>2, <3>3
    <2>6. PICK h \in Seq(Nat) : h = <<0, m.name, 0, Len(m.attrs)>> /\ Len(h) = 4 /\ h[2] = m.name /\ h[4] = Len(m.attrs)
      <3>1. PICK l \in Nat, x \in Nat : l = Len(m.attrs) /\ x = m.name
        BY <2>5
      <3>2. /\ <<0, x, 0, l>> \in Seq(Nat) /\ Len(<<0, x, 0, l>>) = 4 /\ <<0, x, 0, l>>[2] = x
            /\ <<0, x, 0, l>>[4] = l
        BY Four
      <3> QED
        BY <3>1, <3>2
    <2>7. PICK b : b = EncodeMethod(m)
      OBVIOUS
    <2>8. PICK F \in Seq(Nat) : F = FlattenSeq(AttributeParts(m))
      BY <2>5
    <2>9. b = h \o F /\ Lies(b, d, o)
      BY <2>4, <2>5, <2>6, <2>7, <2>8
    <2>10. /\ Len(b) = Len(h) + Len(F) /\ o + Len(h) \in Nat /\ Lies(F, d, o + Len(h))
           /\ \A j \in 1 .. Len(h) : d[o + j] = h[j] /\ o + j <= Len(d)
      <3>1. Len(h) # 0 /\ d \in Seq(Nat) /\ Lies(h \o F, d, o)
        BY <1>1, <2>6, <2>9
      <3>2. Headed(h, F, d, o)
        BY <3>1, HeadLies
      <3> QED
        BY <2>9, <3>2 DEF Headed
    <2>11. d[o + 2] = m.name /\ d[o + 4] = Len(m.attrs) /\ o + 4 <= Len(d)
      BY <2>6, <2>10
    <2>12. PICK o4 \in Nat : o4 = o + 4 /\ Lies(FlattenSeq(AttributeParts(m)), d, o4) /\ MethodAt(c, k + 1) = o4 + Len(F)
      <3>1. PICK l \in Nat : l = Len(F)
        OBVIOUS
      <3>2. MethodAt(c, k + 1) = o + (4 + l) /\ o + (4 + l) = (o + 4) + l
        BY <2>4, <2>6, <2>7, <2>10, <3>1
      <3> QED
        BY <2>6, <2>8, <2>10, <3>1, <3>2
    <2>13. /\ o4 + Start(AttributeParts(m), 1) = o4
           /\ o4 + Start(AttributeParts(m), Len(AttributeParts(m)) + 1) = o4 + Len(FlattenSeq(AttributeParts(m)))
           /\ \A a \in 1 .. Len(AttributeParts(m)) + 1 : o4 + Start(AttributeParts(m), a) \in Nat
           /\ \A a \in 1 .. Len(AttributeParts(m)) :
                 /\ Lies(AttributeParts(m)[a], d, o4 + Start(AttributeParts(m), a))
                 /\ o4 + Start(AttributeParts(m), a + 1) = (o4 + Start(AttributeParts(m), a)) + Len(AttributeParts(m)[a])
      BY <1>1, <2>5, <2>12, PartsLie
    <2>14. \A a : AttributeAt(c, k, a) = o4 + Start(AttributeParts(m), a)
      BY <2>2, <2>3, <2>12 DEF AttributeAt
    <2>15. AttributeAt(c, k, 1) = o4 /\ AttributeAt(c, k, Len(m.attrs) + 1) = MethodAt(c, k + 1)
      BY <2>5, <2>8, <2>12, <2>13, <2>14
    <2>16. ASSUME NEW a \in 1 .. Len(m.attrs)
           PROVE  /\ AttributeAt(c, k, a) \in Nat /\ AttributeAt(c, k, a) + 2 <= Len(d)
                  /\ d[AttributeAt(c, k, a) + 1] = m.attrs[a].name
                  /\ d[AttributeAt(c, k, a) + 2] = Len(m.attrs[a].payload)
                  /\ AttributeAt(c, k, a + 1) = AttributeAt(c, k, a) + 2 + Len(m.attrs[a].payload)
                  /\ Lies(m.attrs[a].payload, d, AttributeAt(c, k, a) + 2)
      <3>1. PICK x \in Nat, v \in Seq(Nat) : x = m.attrs[a].name /\ v = m.attrs[a].payload
        BY AttributePartsAre
      <3>2. PICK p \in Nat : p = AttributeAt(c, k, a)
        <4>1. a \in 1 .. Len(AttributeParts(m)) + 1
          BY <2>5
        <4> QED
          BY <2>13, <2>14, <4>1
      <3>3. PICK z : z = AttributeParts(m)[a] /\ Lies(z, d, p) /\ AttributeAt(c, k, a + 1) = p + Len(z)
        <4>1. a \in 1 .. Len(AttributeParts(m))
          BY <2>5
        <4>2. /\ Lies(AttributeParts(m)[a], d, p)
              /\ o4 + Start(AttributeParts(m), a + 1) = p + Len(AttributeParts(m)[a])
          BY <2>13, <2>14, <3>2, <4>1
        <4> QED
          BY <2>14, <4>2
      <3>4. PICK l \in Nat : l = Len(v)
        OBVIOUS
      <3>5. PICK g \in Seq(Nat) : g = <<x, l>> /\ Len(g) = 2 /\ g[1] = x /\ g[2] = l
        <4>1. <<x, l>> \in Seq(Nat) /\ Len(<<x, l>>) = 2 /\ <<x, l>>[1] = x /\ <<x, l>>[2] = l
          BY Two
        <4> QED
          BY <4>1
      <3>6. z = g \o v
        BY <3>1, <3>3, <3>4, <3>5, AttributePartsAre
      <3>7. /\ Len(z) = Len(g) + Len(v) /\ \A j \in 1 .. Len(g) : d[p + j] = g[j] /\ p + j <= Len(d)
            /\ Lies(v, d, p + Len(g))
        <4>1. Lies(g \o v, d, p) /\ Len(g) # 0 /\ d \in Seq(Nat)
          BY <1>1, <3>3, <3>5, <3>6
        <4>2. Headed(g, v, d, p)
          BY <3>1, <4>1, HeadLies
        <4> QED
          BY <3>6, <4>2 DEF Headed
      <3>8. d[p + 1] = x /\ d[p + 2] = l /\ p + 2 <= Len(d) /\ Lies(v, d, p + 2)
        BY <3>5, <3>7
      <3>9. AttributeAt(c, k, a + 1) = p + 2 + l
        <4>1. AttributeAt(c, k, a + 1) = p + (2 + l)
          BY <3>3, <3>4, <3>5, <3>7
        <4> QED
          BY <4>1
      <3> QED
        BY <3>1, <3>2, <3>4, <3>8, <3>9
    <2> QED
      BY <2>2, <2>3, <2>5, <2>11, <2>12, <2>15, <2>16 DEF MethodLies
  <1>4. MethodAt(c, 1) = MethodsAt(c) + 1
    BY <1>0, <1>1, <1>2 DEF MethodAt
  <1> QED
    BY <1>3, <1>4

-----------------------------------------------------------------------------
(* Which method is the main one *)

PoolFits(c) == PoolSize(c) <= MaxPool /\ PoolSize(c) <= HeapSize - HeapHdr

PoolRead(c, k) ==
    \A e \in 1 .. k - 1 :
        /\ cp[Slot(c.pool, e)].tag = c.pool[e].tag
        /\ c.pool[e].tag = Utf8 => cp[Slot(c.pool, e)].value = c.pool[e].value

CodeBefore(c, m, a) ==
    LET codes == {j \in 1 .. a - 1 : IsCode(c, m.attrs[j])}
        last == m.attrs[Max(codes)].payload
    IN IF codes = {} THEN NoCode ELSE SubSeq(last, 4, 3 + last[3])

NoMainBefore(c, k) == \A j \in 1 .. k - 1 : ~IsMain(c, c.methods[j])

\* One attribute more.
LEMMA CodeGrows ==
  ASSUME NEW c, NEW m, NEW a \in Nat \ {0}
  PROVE  /\ CodeBefore(c, m, 1) = NoCode
         /\ IsCode(c, m.attrs[a]) =>
              CodeBefore(c, m, a + 1) = SubSeq(m.attrs[a].payload, 4, 3 + m.attrs[a].payload[3])
         /\ ~IsCode(c, m.attrs[a]) => CodeBefore(c, m, a + 1) = CodeBefore(c, m, a)
  <1> DEFINE codes(z) == {j \in 1 .. z - 1 : IsCode(c, m.attrs[j])}
             code(j) == SubSeq(m.attrs[j].payload, 4, 3 + m.attrs[j].payload[3])
  <1>1. \A z : CodeBefore(c, m, z) = IF codes(z) = {} THEN NoCode ELSE code(Max(codes(z)))
    BY DEF CodeBefore
  <1>2. codes(1) = {}
    OBVIOUS
  <1>3. ASSUME IsCode(c, m.attrs[a]) PROVE codes(a + 1) # {} /\ Max(codes(a + 1)) = a
    <2>1. codes(a + 1) \subseteq 0 .. a /\ a \in codes(a + 1)
      BY <1>3
    <2>2. codes(a + 1) # {}
      BY <2>1
    <2>3. PICK T : T = codes(a + 1)
      OBVIOUS
    <2>4. PICK x : x = Max(T) /\ x \in T /\ \A y \in T : x >= y
      BY <2>1, <2>2, <2>3, GreatestNumber
    <2>5. x \in 0 .. a /\ x >= a
      BY <2>1, <2>3, <2>4
    <2> QED
      BY <2>2, <2>3, <2>4, <2>5
  <1>4. ASSUME ~IsCode(c, m.attrs[a]) PROVE codes(a + 1) = codes(a)
    <2>1. ASSUME NEW j \in 1 .. (a + 1) - 1, j \notin 1 .. a - 1 PROVE j = a
      BY <2>1
    <2>2. ASSUME NEW j \in 1 .. a - 1 PROVE j \in 1 .. (a + 1) - 1
      OBVIOUS
    <2> QED
      BY <1>4, <2>1, <2>2
  <1> HIDE DEF codes, code
  <1>5. CodeBefore(c, m, 1) = NoCode
    BY <1>1, <1>2
  <1>6. IsCode(c, m.attrs[a]) => CodeBefore(c, m, a + 1) = code(a)
    BY <1>1, <1>3
  <1>7. ~IsCode(c, m.attrs[a]) => CodeBefore(c, m, a + 1) = CodeBefore(c, m, a)
    BY <1>1, <1>4
  <1> QED
    BY <1>5, <1>6, <1>7 DEF code

\* Of a method that has been read, the code is known.
LEMMA CodeRead ==
  ASSUME NEW c, NEW m \in ClassMethods
  PROVE  CodeBefore(c, m, Len(m.attrs) + 1) = CodeOf(c, m)
  <1>1. PICK z \in Seq(ClassAttributes) : z = m.attrs
    BY AttributePartsAre
  <1>2. DOMAIN z = 1 .. (Len(z) + 1) - 1
    OBVIOUS
  <1> QED
    BY <1>1, <1>2 DEF CodeBefore, CodeOf

\* The first main method that has code is the one meant.
LEMMA MainFound ==
  ASSUME NEW c, c.methods \in Seq(ClassMethods), NEW k \in 1 .. Len(c.methods), NoMainBefore(c, k),
         IsMain(c, c.methods[k])
  PROVE  MainCode(c) = CodeOf(c, c.methods[k])
  <1> DEFINE mains == {j \in DOMAIN c.methods : IsMain(c, c.methods[j])}
  <1>1. DOMAIN c.methods = 1 .. Len(c.methods) /\ Len(c.methods) \in Nat
    OBVIOUS
  <1>2. mains \subseteq Nat /\ k \in mains
    BY <1>1
  <1>3. mains # {}
    BY <1>2
  <1>4. PICK T : T = mains
    OBVIOUS
  <1>5. PICK x : x = Min(T) /\ x \in T /\ \A y \in T : x <= y
    BY <1>2, <1>3, <1>4, MinNumber
  <1>6. x \in 1 .. Len(c.methods) /\ IsMain(c, c.methods[x]) /\ x <= k
    BY <1>1, <1>2, <1>4, <1>5
  <1>7. x = k
    <2>1. x \in 1 .. k - 1 \/ x = k
      BY <1>1, <1>6
    <2> QED
      BY <1>6, <2>1 DEF NoMainBefore
  <1>8. MainCode(c) = IF mains = {} THEN NoCode ELSE CodeOf(c, c.methods[Min(mains)])
    BY DEF MainCode
  <1> QED
    BY <1>3, <1>4, <1>5, <1>7, <1>8

\* If no method is a main method with code, none is meant.
LEMMA MainMissing ==
  ASSUME NEW c, c.methods \in Seq(ClassMethods), NoMainBefore(c, Len(c.methods) + 1)
  PROVE  MainCode(c) = NoCode
  <1>1. DOMAIN c.methods = 1 .. (Len(c.methods) + 1) - 1
    OBVIOUS
  <1> QED
    BY <1>1 DEF MainCode, NoMainBefore

\* The pool read, a name is found by its number.
LEMMA NameLookup ==
  ASSUME NEW c, IsClass(c), PoolRead(c, Len(c.pool) + 1), cp_count = PoolSize(c), NEW k, IsName(c, k), NEW text
  PROVE  Names(k, text) <=> PoolName(c, k, text)
  <1>0. c.pool \in Seq(PoolEntries) /\ Len(c.pool) \in Nat /\ DOMAIN c.pool = 1 .. Len(c.pool)
    BY PartsTyped
  <1>1. PICK e \in 1 .. Len(c.pool) : Slot(c.pool, e) = k /\ c.pool[e].tag = Utf8
    BY <1>0 DEF IsName
  <1>2. cp[k].tag = Utf8 /\ cp[k].value = c.pool[e].value
    <2>1. e \in 1 .. (Len(c.pool) + 1) - 1
      BY <1>0
    <2> QED
      BY <1>1, <2>1 DEF PoolRead
  <1>3. k < cp_count
    <2>1. e \in Nat \ {0} /\ Len(c.pool) + 1 \in Nat /\ e < Len(c.pool) + 1
      BY <1>0
    <2>2. Slot(c.pool, e) + Slots(c.pool[e].tag) <= Slot(c.pool, Len(c.pool) + 1)
      BY <2>1, SlotsGrow
    <2>3. Slot(c.pool, e) \in Nat
      BY <2>1, SlotNext
    <2>4. Slot(c.pool, Len(c.pool) + 1) \in Nat
      <3>1. Len(c.pool) + 1 \in Nat \ {0}
        BY <1>0
      <3> QED
        BY <3>1, SlotNext
    <2>5. Slots(c.pool[e].tag) = 1
      BY <1>1 DEF Slots, Long, Double, Utf8
    <2> QED
      BY <1>1, <2>2, <2>3, <2>4, <2>5 DEF PoolSize
  <1>4. c.pool[e] = [tag |-> Utf8, value |-> c.pool[e].value]
    <2>1. c.pool[e] \in PoolEntries
      BY <1>0
    <2> QED
      BY <1>1, <2>1 DEF PoolEntries
  <1>5. ASSUME c.pool[e].value = text PROVE PoolName(c, k, text)
    BY <1>0, <1>1, <1>4, <1>5 DEF PoolName
  <1>6. ASSUME PoolName(c, k, text) PROVE c.pool[e].value = text
    <2>1. PICK g \in 1 .. Len(c.pool) : Slot(c.pool, g) = k /\ c.pool[g] = [tag |-> Utf8, value |-> text]
      BY <1>0, <1>6 DEF PoolName
    <2>2. g \in Nat \ {0} /\ e \in Nat \ {0}
      OBVIOUS
    <2>3. g = e
      BY <1>1, <2>1, <2>2, SlotsDiffer
    <2> QED
      BY <2>1, <2>3
  <1> QED
    BY <1>2, <1>3, <1>5, <1>6 DEF Names

\* A unit of the file.
LEMMA UnitIs ==
  ASSUME data \in Seq(Nat), NEW k \in Nat, k < Len(data)
  PROVE  Unit(k) = data[k + 1]
  BY DEF Unit, size

\* A text in the file, and the code of an attribute.
LEMMA UnitsAre ==
  ASSUME data \in Seq(Nat), NEW t \in Seq(Nat), NEW o \in Nat, Lies(t, data, o)
  PROVE  /\ \A j \in 1 .. Len(t) : o + j - 1 < Len(data) /\ Unit(o + j - 1) = t[j]
         /\ [j \in 1 .. Len(t) |-> Unit(o + j - 1)] = t
  <1>1. ASSUME NEW j \in 1 .. Len(t) PROVE o + j - 1 < Len(data) /\ Unit(o + j - 1) = t[j]
    <2>1. o + j \in 1 .. Len(data) /\ data[o + j] = t[j]
      BY DEF Lies
    <2>2. PICK k \in Nat : k = o + j - 1 /\ k + 1 = o + j /\ k < Len(data)
      <3>1. j \in Nat \ {0}
        OBVIOUS
      <3>2. Len(data) \in Nat
        OBVIOUS
      <3>3. o + j - 1 \in Nat /\ (o + j - 1) + 1 = o + j /\ o + j - 1 < Len(data)
        BY <2>1, <3>1, <3>2
      <3> QED
        BY <3>3
    <2>3. Unit(k) = data[k + 1]
      BY <2>2, UnitIs
    <2> QED
      BY <2>1, <2>2, <2>3
  <1>2. t = [j \in 1 .. Len(t) |-> t[j]]
    OBVIOUS
  <1> QED
    BY <1>1, <1>2

\* The code the loader takes out of an attribute is what its third number tells, from
\* the fourth on.
LEMMA CodeAtIs ==
  ASSUME data \in Seq(Nat), NEW t \in Seq(Nat), NEW o \in Nat, Lies(t, data, o),
         Len(t) >= 3, 3 + t[3] <= Len(t)
  PROVE  CodeAt(o) = SubSeq(t, 4, 3 + t[3])
  <1>1. PICK x \in Nat : x = t[3]
    OBVIOUS
  <1>2. \A j \in 1 .. Len(t) : Unit(o + j - 1) = t[j]
    BY UnitsAre
  <1>3. Unit(o + 2) = x
    <2>1. 3 \in 1 .. Len(t) /\ o + 3 - 1 = o + 2
      OBVIOUS
    <2> QED
      BY <1>1, <1>2, <2>1
  <1>4. ASSUME NEW j \in 1 .. x PROVE Unit(o + 2 + j) = t[3 + j]
    <2>1. 3 + j \in 1 .. Len(t) /\ o + (3 + j) - 1 = o + 2 + j
      BY <1>1
    <2> QED
      BY <1>2, <2>1
  <1>5. /\ SubSeq(t, 3 + 1, 3 + x) \in Seq(Nat) /\ Len(SubSeq(t, 3 + 1, 3 + x)) = (3 + x) - 3
        /\ \A j \in 1 .. (3 + x) - 3 : SubSeq(t, 3 + 1, 3 + x)[j] = t[3 + j]
    <2>1. 3 \in Nat /\ 3 + x \in Nat /\ 3 <= 3 + x /\ 3 + x <= Len(t)
      BY <1>1
    <2> QED
      BY <2>1, Between
  <1>6. PICK z : z = SubSeq(t, 4, 3 + x)
    OBVIOUS
  <1>7. z \in Seq(Nat) /\ Len(z) = x /\ \A j \in 1 .. x : z[j] = t[3 + j]
    <2>1. 3 + 1 = 4 /\ (3 + x) - 3 = x
      OBVIOUS
    <2> QED
      BY <1>5, <1>6, <2>1
  <1>8. z = [j \in 1 .. x |-> z[j]]
    BY <1>7
  <1>9. CodeAt(o) = [j \in 1 .. x |-> Unit(o + 2 + j)]
    BY <1>3 DEF CodeAt
  <1>10. \A j \in 1 .. x : Unit(o + 2 + j) = z[j]
    BY <1>4, <1>7
  <1>11. CodeAt(o) = z
    BY <1>8, <1>9, <1>10
  <1> QED
    BY <1>1, <1>6, <1>11

-----------------------------------------------------------------------------
(* The loader's walk over the file of a class *)

Result(c) == IF PoolFits(c) THEN MainCode(c) ELSE NoCode

PoolKnown(c) == PoolFits(c) /\ PoolRead(c, Len(c.pool) + 1)

InPool(c) ==
    /\ PoolFits(c)
    /\ \E k \in 1 .. Len(c.pool) + 1 : n = Slot(c.pool, k) /\ off = PoolAt(c, k) /\ PoolRead(c, k)
AtField(c) ==
    \E k \in 1 .. Len(c.fields) + 1 : n = Len(c.fields) + 1 - k /\ off = FieldAt(c, k)
InField(c) ==
    \E k \in 1 .. Len(c.fields) : \E a \in 1 .. Len(c.fields[k]) + 1 :
        n = Len(c.fields) + 1 - k /\ attrs = Len(c.fields[k]) + 1 - a /\ off = SkipAt(c, k, a)
AtMethod(c) ==
    \E k \in 1 .. Len(c.methods) + 1 :
        n = Len(c.methods) + 1 - k /\ off = MethodAt(c, k) /\ NoMainBefore(c, k)
InMethod(c) ==
    \E k \in 1 .. Len(c.methods) : \E a \in 1 .. Len(c.methods[k].attrs) + 1 :
        /\ n = Len(c.methods) + 1 - k /\ attrs = Len(c.methods[k].attrs) + 1 - a
        /\ off = AttributeAt(c, k, a) /\ NoMainBefore(c, k)
        /\ method = [name |-> c.methods[k].name, code |-> CodeBefore(c, c.methods[k], a)]

Stands(c) ==
    /\ at = "header" => off = HeaderAt(c)
    /\ at = "fields" => off = FieldsAt(c)
    /\ at = "field" => AtField(c)
    /\ at = "skip" => InField(c)
    /\ at = "methods" => off = MethodsAt(c)
    /\ at = "method" => AtMethod(c)
    /\ at = "attribute" => InMethod(c)

PastPool == {"header", "fields", "field", "skip", "methods", "method", "attribute"}

\* Where the loader stands in the file of a class.
Walks(c) ==
    /\ at # "returned" => cp_count = PoolSize(c)
    /\ at \notin {"done", "returned"} => ran = NoCode
    /\ at = "malloc" => request = PoolSize(c) /\ PoolSize(c) <= MaxPool
    /\ at = "pool" => InPool(c)
    /\ at \in PastPool => PoolKnown(c) /\ Stands(c)
    /\ at = "done" => PoolFits(c) /\ ran = MainCode(c)
    /\ at = "returned" => ran = Result(c)

\* The loader is executing the file of c, and what it has read of it is c.
Executing(c) ==
    /\ IsClass(c) /\ Loadable(c) /\ data = EncodeClass(c) /\ Walks(c)
    /\ DOMAIN cp = 0 .. MaxPool

\* The file the loader walks over is the class, laid out.
LEMMA ExecutedLies ==
  ASSUME NEW c, Executing(c)
  PROVE  ClassLaid(c, data) /\ data \in Seq(Nat) /\ Len(data) \in Nat
  <1>1. ClassLaid(c, data)
    BY ClassIsLaid DEF Executing
  <1> QED
    BY <1>1 DEF ClassLaid

\* The numbers of constants grow, and stay below the number of all.
LEMMA PoolNumber ==
  ASSUME NEW c, IsClass(c), NEW k \in 1 .. Len(c.pool) + 1
  PROVE  /\ Slot(c.pool, k) \in Nat \ {0} /\ PoolSize(c) \in Nat \ {0}
         /\ k \in 1 .. Len(c.pool) \/ k = Len(c.pool) + 1
         /\ k \in 1 .. Len(c.pool) => Slot(c.pool, k) < PoolSize(c) /\ c.pool[k] \in PoolEntries
  <1>1. Len(c.pool) \in Nat /\ c.pool \in Seq(PoolEntries)
    BY PartsTyped
  <1>2. k \in Nat \ {0} /\ Len(c.pool) + 1 \in Nat \ {0} /\ (k \in 1 .. Len(c.pool) \/ k = Len(c.pool) + 1)
    BY <1>1
  <1>3. Slot(c.pool, k) \in Nat \ {0} /\ Slot(c.pool, Len(c.pool) + 1) \in Nat \ {0}
    BY <1>2, SlotNext
  <1>4. ASSUME k \in 1 .. Len(c.pool) PROVE Slot(c.pool, k) < PoolSize(c) /\ c.pool[k] \in PoolEntries
    <2>1. Slot(c.pool, k) + Slots(c.pool[k].tag) <= Slot(c.pool, Len(c.pool) + 1)
      <3>1. k < Len(c.pool) + 1
        BY <1>1, <1>4
      <3> QED
        BY <1>2, <3>1, SlotsGrow
    <2>2. Slots(c.pool[k].tag) \in {1, 2}
      BY DEF Slots
    <2> QED
      BY <1>1, <1>3, <1>4, <2>1, <2>2 DEF PoolSize
  <1> QED
    BY <1>2, <1>3, <1>4 DEF PoolSize

\* What the parser reads of an entry is the entry.
LEMMA EntryRead ==
  ASSUME NEW c, Executing(c), NEW k \in 1 .. Len(c.pool), off = PoolAt(c, k)
  PROVE  /\ Unit(off) = c.pool[k].tag /\ Known(c.pool[k].tag)
         /\ off + 1 + Width(c.pool[k].tag) = PoolAt(c, k + 1)
         /\ c.pool[k].tag = Utf8 => Value(Utf8) = c.pool[k].value
  <1>1. ClassLaid(c, data) /\ data \in Seq(Nat) /\ Len(data) \in Nat /\ IsClass(c) /\ Loadable(c)
    BY ExecutedLies DEF Executing
  <1>2. EntryLies(c, data, k)
    BY <1>1, EntriesLie
  <1>3. PICK e \in PoolEntries : e = c.pool[k]
    BY <1>1, PartsTyped
  <1>4. PICK t \in Nat, v \in Seq(Nat) : t = e.tag /\ v = e.value
    BY <1>3, EntryType
  <1>5. PICK l \in Nat : l = Len(v)
    OBVIOUS
  <1>6. off \in Nat /\ off < Len(data) /\ data[off + 1] = t
    BY <1>2, <1>3, <1>4 DEF EntryLies
  <1>7. Unit(off) = t
    BY <1>1, <1>6, UnitIs
  <1>8. DOMAIN c.pool = 1 .. Len(c.pool)
    BY <1>1, PartsTyped
  <1>9. t \in {Utf8} \union Integer .. NameAndType
    BY <1>1, <1>3, <1>4, <1>8 DEF Loadable
  <1>10. CASE t = Utf8
    <2>1. /\ off + 1 < Len(data) /\ data[off + 2] = l /\ PoolAt(c, k + 1) = off + 2 + l /\ Lies(v, data, off + 2)
      BY <1>2, <1>3, <1>4, <1>5, <1>10 DEF EntryLies
    <2>2. Unit(off + 1) = l
      <3>1. PICK o \in Nat : o = off + 1 /\ o + 1 = off + 2
        BY <1>6
      <3>2. Unit(o) = data[o + 1]
        BY <1>1, <2>1, <3>1, UnitIs
      <3> QED
        BY <2>1, <3>1, <3>2
    <2>3. Width(t) = 1 + l
      BY <1>10, <2>2 DEF Width
    <2>4. off + 1 + (1 + l) = off + 2 + l /\ off + 1 + (1 + l) - (off + 2) = l
      <3>1. PICK o \in Nat : o = off
        BY <1>6
      <3>2. o + 1 + (1 + l) = o + 2 + l /\ o + 1 + (1 + l) - (o + 2) = l
        OBVIOUS
      <3> QED
        BY <3>1, <3>2
    <2>5. Value(t) = v
      <3>1. off + 2 \in Nat
        BY <1>6
      <3>2. [j \in 1 .. Len(v) |-> Unit((off + 2) + j - 1)] = v
        BY <1>1, <2>1, <3>1, UnitsAre
      <3>3. Value(t) = [j \in 1 .. off + 1 + Width(t) - (off + 2) |-> Unit(off + 2 + j - 1)]
        BY <1>10 DEF Value
      <3> QED
        BY <1>5, <2>3, <2>4, <3>2, <3>3
    <2> QED
      BY <1>3, <1>4, <1>7, <1>9, <1>10, <2>1, <2>3, <2>4, <2>5 DEF Known
  <1>11. CASE t # Utf8
    <2>1. PoolAt(c, k + 1) = off + 1 + l
      BY <1>2, <1>3, <1>4, <1>5, <1>11 DEF EntryLies
    <2>2. l = ValueUnits(t)
      BY <1>1, <1>3, <1>4, <1>5, <1>8, <1>11 DEF IsClass
    <2>3. Width(t) = l
      BY <1>11, <2>2 DEF Width, ValueUnits
    <2> QED
      BY <1>3, <1>4, <1>7, <1>9, <1>11, <2>1, <2>3 DEF Known
  <1> QED
    BY <1>10, <1>11

\* A constant is stored under its number and the loader stands before the next one.
LEMMA PoolEntryWalks ==
  ASSUME NEW c, Executing(c), PoolEntry
  PROVE  Executing(c)'
  <1>1. /\ at = "pool" /\ n < cp_count /\ cp_count = PoolSize(c) /\ InPool(c) /\ ran = NoCode /\ PoolFits(c)
        /\ IsClass(c) /\ DOMAIN cp = 0 .. MaxPool
    BY DEF PoolEntry, Executing, Walks, InPool
  <1>2. PICK k \in 1 .. Len(c.pool) + 1 : n = Slot(c.pool, k) /\ off = PoolAt(c, k) /\ PoolRead(c, k)
    BY <1>1 DEF InPool
  <1>3. k \in 1 .. Len(c.pool)
    BY <1>1, <1>2, PoolNumber DEF PoolSize
  <1>4. k \in Nat \ {0} /\ k + 1 \in 1 .. Len(c.pool) + 1
    <2>1. Len(c.pool) \in Nat
      BY <1>1, PartsTyped
    <2> QED
      BY <1>3, <2>1
  <1>5. PICK t, v : t = c.pool[k].tag /\ v = c.pool[k].value
    OBVIOUS
  <1>6. Unit(off) = t /\ Known(t) /\ off + 1 + Width(t) = PoolAt(c, k + 1) /\ (t = Utf8 => Value(t) = v)
    BY <1>2, <1>3, <1>5, EntryRead
  <1>7. /\ cp' = [cp EXCEPT ![n] = [tag |-> t, value |-> IF Slots(t) = 2 THEN @.value ELSE Value(t)]]
        /\ off' = off + 1 + Width(t) /\ n' = n + Slots(t) /\ UNCHANGED at
    BY <1>6 DEF PoolEntry
  <1>8. UNCHANGED <<data, cp_count, ran>>
    BY DEF PoolEntry
  <1>9. off' = PoolAt(c, k + 1) /\ n' = Slot(c.pool, k + 1)
    BY <1>2, <1>4, <1>5, <1>6, <1>7, SlotNext
  <1>10. DOMAIN cp' = 0 .. MaxPool /\ n \in DOMAIN cp
    <2>1. n \in Nat /\ MaxPool \in Nat /\ n <= MaxPool
      <3>1. n \in Nat /\ PoolSize(c) \in Nat
        BY <1>1, <1>2, PoolNumber
      <3>2. MaxPool \in Nat /\ PoolSize(c) <= MaxPool
        BY <1>1, ClassAssumption DEF PoolFits
      <3> QED
        BY <1>1, <3>1, <3>2
    <2> QED
      BY <1>1, <1>7, <2>1
  <1>11. cp'[n].tag = t /\ (t = Utf8 => cp'[n].value = v)
    <2>1. cp'[n] = [tag |-> t, value |-> IF Slots(t) = 2 THEN cp[n].value ELSE Value(t)]
      BY <1>7, <1>10
    <2>2. t = Utf8 => Slots(t) = 1
      BY DEF Slots, Long, Double, Utf8
    <2> QED
      BY <1>6, <2>1, <2>2
  <1>12. ASSUME NEW e \in 1 .. (k + 1) - 1
         PROVE  /\ cp'[Slot(c.pool, e)].tag = c.pool[e].tag
                /\ c.pool[e].tag = Utf8 => cp'[Slot(c.pool, e)].value = c.pool[e].value
    <2>1. CASE e = k
      BY <1>2, <1>5, <1>11, <2>1
    <2>2. CASE e # k
      <3>1. e \in 1 .. k - 1 /\ e \in Nat \ {0}
        BY <1>4, <2>2
      <3>2. Slot(c.pool, e) # n
        BY <1>2, <1>4, <2>2, <3>1, SlotsDiffer
      <3>3. Slot(c.pool, e) \in DOMAIN cp
        <4>1. e \in 1 .. Len(c.pool) + 1 /\ e \in 1 .. Len(c.pool)
          BY <1>3, <3>1
        <4>2. Slot(c.pool, e) \in Nat /\ PoolSize(c) \in Nat /\ Slot(c.pool, e) < PoolSize(c)
          BY <1>1, <4>1, PoolNumber
        <4>3. MaxPool \in Nat /\ PoolSize(c) <= MaxPool
          BY <1>1, ClassAssumption DEF PoolFits
        <4> QED
          BY <1>1, <4>2, <4>3
      <3>4. cp'[Slot(c.pool, e)] = cp[Slot(c.pool, e)]
        BY <1>7, <3>2, <3>3
      <3> QED
        BY <1>2, <3>1, <3>4 DEF PoolRead
    <2> QED
      BY <2>1, <2>2
  <1>13. PoolRead(c, k + 1)'
    BY <1>12 DEF PoolRead
  <1>14. InPool(c)'
    BY <1>1, <1>4, <1>9, <1>13 DEF InPool
  <1>15. at' = "pool" /\ cp_count' = PoolSize(c) /\ ran' = NoCode /\ DOMAIN cp' = 0 .. MaxPool
    BY <1>1, <1>7, <1>8, <1>10
  <1>16. Walks(c)'
    BY <1>14, <1>15 DEF Walks, PastPool
  <1> QED
    BY <1>8, <1>15, <1>16 DEF Executing

\* From loop to loop behind the pool.
LEMMA GoesOn ==
  ASSUME NEW c, Executing(c), PoolKnown(c), at # "returned", ran = NoCode, UNCHANGED <<data, cp, cp_count, ran>>, at' \in PastPool, Stands(c)'
  PROVE  Executing(c)'
  <1>1. IsClass(c) /\ Loadable(c) /\ data' = EncodeClass(c) /\ DOMAIN cp' = 0 .. MaxPool
    BY DEF Executing
  <1>2. PoolRead(c, Len(c.pool) + 1)'
    BY DEF PoolKnown, PoolRead
  <1>3. PoolKnown(c)'
    BY <1>2 DEF PoolKnown
  <1>4. cp_count' = PoolSize(c) /\ ran' = NoCode
    BY DEF Executing, Walks
  <1>5. Walks(c)'
    BY <1>3, <1>4 DEF Walks, PastPool
  <1> QED
    BY <1>1, <1>5 DEF Executing

\* To the end with what has been run.
LEMMA ComesToEnd ==
  ASSUME NEW c, Executing(c), PoolKnown(c), at # "returned", UNCHANGED <<data, cp, cp_count>>, at' = "done", ran' = MainCode(c)
  PROVE  Executing(c)'
  <1>1. IsClass(c) /\ Loadable(c) /\ data' = EncodeClass(c) /\ DOMAIN cp' = 0 .. MaxPool /\ PoolFits(c)
    BY DEF Executing, PoolKnown
  <1>2. cp_count' = PoolSize(c)
    BY DEF Executing, Walks
  <1>3. Walks(c)'
    BY <1>1, <1>2 DEF Walks, PastPool
  <1> QED
    BY <1>1, <1>3 DEF Executing

\* When the constants are used up, all of them are in the pool.
LEMMA PoolDoneWalks ==
  ASSUME NEW c, Executing(c), PoolDone
  PROVE  Executing(c)'
  <1>1. /\ at = "pool" /\ n >= cp_count /\ cp_count = PoolSize(c) /\ InPool(c) /\ ran = NoCode /\ PoolFits(c)
        /\ IsClass(c) /\ at' = "header" /\ UNCHANGED <<data, off, cp, cp_count, ran>>
    BY DEF PoolDone, Executing, Walks, InPool
  <1>2. PICK k \in 1 .. Len(c.pool) + 1 : n = Slot(c.pool, k) /\ off = PoolAt(c, k) /\ PoolRead(c, k)
    BY <1>1 DEF InPool
  <1>3. k = Len(c.pool) + 1
    <2>1. /\ Slot(c.pool, k) \in Nat /\ PoolSize(c) \in Nat /\ (k \in 1 .. Len(c.pool) \/ k = Len(c.pool) + 1)
          /\ k \in 1 .. Len(c.pool) => Slot(c.pool, k) < PoolSize(c)
      BY <1>1, PoolNumber
    <2> QED
      BY <1>1, <1>2, <2>1
  <1>4. off' = HeaderAt(c)
    <2>1. PoolAt(c, Len(c.pool) + 1) = HeaderAt(c)
      BY <1>1, ExecutedLies, EntriesLie
    <2> QED
      BY <1>1, <1>2, <1>3, <2>1
  <1>5. PoolKnown(c)
    BY <1>1, <1>2, <1>3 DEF PoolKnown
  <1>6. Stands(c)' /\ at' \in PastPool
    BY <1>1, <1>4 DEF Stands, PastPool
  <1> QED
    BY <1>1, <1>5, <1>6, GoesOn

\* What is laid behind a place in the file is there to be read.
LEMMA PartIs ==
  ASSUME off \in Nat, Len(data) \in Nat, NEW units \in Nat, NEW next, NEW skip,
         off + units <= Len(data), Part(units, next, skip)
  PROVE  at' = next /\ off' = off + units + skip
  <1>1. ~(off + units > size)
    BY DEF size
  <1> QED
    BY <1>1 DEF Part

\* Behind the constants come the interfaces, and behind those the fields.
LEMMA HeaderWalks ==
  ASSUME NEW c, Executing(c), Header
  PROVE  Executing(c)'
  <1>1. /\ at = "header" /\ off = HeaderAt(c) /\ PoolKnown(c) /\ ran = NoCode /\ IsClass(c)
        /\ Part(4, "fields", Unit(off + 3)) /\ UNCHANGED <<data, cp, cp_count, ran>>
    BY DEF Header, Executing, Walks, Stands, PastPool, walkVars
  <1>2. ClassLaid(c, data) /\ Len(data) \in Nat /\ data \in Seq(Nat)
    BY ExecutedLies
  <1>3. PICK h \in Nat, z \in Nat, e \in Nat, q \in Nat, r \in Nat :
            /\ h = HeaderAt(c) /\ z = c.interfaces /\ q = Len(FlattenSeq(FieldParts(c)))
            /\ r = Len(FlattenSeq(MethodParts(c))) /\ e = Len(data)
    <2>1. FlattenSeq(FieldParts(c)) \in Seq(Nat) /\ FlattenSeq(MethodParts(c)) \in Seq(Nat) /\ c.interfaces \in Nat
      BY <1>1, PartsTyped, FlattenType
    <2>2. Len(FlattenSeq(FieldParts(c))) \in Nat /\ Len(FlattenSeq(MethodParts(c))) \in Nat
      BY <2>1
    <2> QED
      BY <1>2, <2>1, <2>2 DEF ClassLaid
  <1>4. FieldsAt(c) = h + 4 + z /\ MethodsAt(c) = (h + 4 + z) + 1 + q /\ e = MethodsAt(c) + 2 + r
    BY <1>2, <1>3 DEF ClassLaid, FieldsAt, MethodsAt
  <1>5. h + 4 <= e
    BY <1>3, <1>4
  <1>6. Unit(h + 3) = z
    <2>1. PICK o \in Nat : o = h + 3 /\ o + 1 = h + 4
      BY <1>3
    <2>2. o < Len(data)
      BY <1>3, <1>5, <2>1
    <2>3. Unit(o) = data[o + 1]
      BY <1>2, <2>2, UnitIs
    <2> QED
      BY <1>2, <1>3, <2>1, <2>3 DEF ClassLaid
  <1>7. at' = "fields" /\ off' = off + 4 + Unit(off + 3)
    <2>1. off \in Nat /\ off + 4 <= Len(data)
      BY <1>1, <1>3, <1>5
    <2> QED
      BY <1>1, <1>2, <2>1, PartIs
  <1>8. off' = FieldsAt(c)
    BY <1>1, <1>3, <1>4, <1>6, <1>7
  <1>9. Stands(c)' /\ at' \in PastPool
    BY <1>7, <1>8 DEF Stands, PastPool
  <1> QED
    BY <1>1, <1>9, GoesOn

\* The loader reads how many fields there are.
LEMMA FieldsWalks ==
  ASSUME NEW c, Executing(c), Fields
  PROVE  Executing(c)'
  <1>1. /\ at = "fields" /\ off = FieldsAt(c) /\ PoolKnown(c) /\ ran = NoCode /\ IsClass(c)
        /\ Part(1, "field", 0) /\ n' = Unit(off) /\ UNCHANGED <<data, cp, cp_count, ran>>
    BY DEF Fields, Executing, Walks, Stands, PastPool, walkVars
  <1>2. ClassLaid(c, data) /\ Len(data) \in Nat /\ data \in Seq(Nat)
    BY ExecutedLies
  <1>3. off \in Nat /\ off + 1 <= Len(data)
    <2>1. PICK q \in Nat, r \in Nat : q = Len(FlattenSeq(FieldParts(c))) /\ r = Len(FlattenSeq(MethodParts(c)))
      <3>1. FlattenSeq(FieldParts(c)) \in Seq(Nat) /\ FlattenSeq(MethodParts(c)) \in Seq(Nat)
        BY <1>1, PartsTyped, FlattenType
      <3> QED
        BY <3>1
    <2>2. PICK g \in Nat : g = FieldsAt(c) /\ Len(data) = (g + 1 + q) + 2 + r
      BY <1>2, <2>1 DEF ClassLaid, MethodsAt
    <2> QED
      BY <1>1, <1>2, <2>2
  <1>4. Unit(off) = Len(c.fields)
    <2>1. Unit(off) = data[off + 1]
      <3>1. off < Len(data)
        BY <1>2, <1>3
      <3> QED
        BY <1>2, <1>3, <3>1, UnitIs
    <2> QED
      BY <1>1, <1>2, <2>1 DEF ClassLaid
  <1>5. at' = "field" /\ off' = off + 1 + 0
    BY <1>1, <1>2, <1>3, PartIs
  <1>6. off' = FieldAt(c, 1)
    <2>1. FieldAt(c, 1) = FieldsAt(c) + 1
      BY <1>1, <1>2, FieldsLie
    <2> QED
      BY <1>1, <1>3, <1>5, <2>1
  <1>7. AtField(c)'
    <2>1. Len(c.fields) \in Nat
      BY <1>1, PartsTyped
    <2>2. 1 \in 1 .. Len(c.fields) + 1 /\ Len(c.fields) = Len(c.fields) + 1 - 1
      BY <2>1
    <2> QED
      BY <1>1, <1>4, <1>6, <2>2 DEF AtField
  <1>8. Stands(c)' /\ at' \in PastPool
    BY <1>5, <1>7 DEF Stands, PastPool
  <1> QED
    BY <1>1, <1>8, GoesOn

\* The loader reads how many attributes a field has, or is past the last field.
LEMMA FieldWalks ==
  ASSUME NEW c, Executing(c), Field
  PROVE  Executing(c)'
  <1>1. /\ at = "field" /\ AtField(c) /\ PoolKnown(c) /\ ran = NoCode /\ IsClass(c)
        /\ UNCHANGED <<data, cp, cp_count, ran, n>>
    BY DEF Field, Executing, Walks, Stands, PastPool, walkVars
  <1>2. ClassLaid(c, data) /\ Len(data) \in Nat /\ data \in Seq(Nat) /\ Len(c.fields) \in Nat
    BY <1>1, ExecutedLies, PartsTyped
  <1>3. PICK k \in 1 .. Len(c.fields) + 1 : n = Len(c.fields) + 1 - k /\ off = FieldAt(c, k)
    BY <1>1 DEF AtField
  <1>4. CASE n = 0
    <2>1. at' = "methods" /\ off' = off
      BY <1>4 DEF Field
    <2>2. k = Len(c.fields) + 1
      BY <1>2, <1>3, <1>4, CountDown
    <2>3. off' = MethodsAt(c)
      BY <1>1, <1>2, <1>3, <2>1, <2>2, FieldsLie
    <2>4. Stands(c)' /\ at' \in PastPool
      BY <2>1, <2>3 DEF Stands, PastPool
    <2> QED
      BY <1>1, <2>4, GoesOn
  <1>5. CASE n # 0
    <2>1. Part(4, "skip", 0) /\ attrs' = Unit(off + 3)
      BY <1>5 DEF Field
    <2>2. k \in 1 .. Len(c.fields)
      BY <1>2, <1>3, <1>5, CountDown
    <2>3. FieldLies(c, data, k)
      BY <1>1, <1>2, <2>2, FieldsLie
    <2>4. PICK f : f = c.fields[k]
      OBVIOUS
    <2>5. /\ off \in Nat /\ off + 4 <= Len(data) /\ data[off + 4] = Len(f) /\ Len(f) \in Nat
          /\ SkipAt(c, k, 1) = off + 4
      BY <1>3, <2>3, <2>4 DEF FieldLies
    <2>6. Unit(off + 3) = Len(f)
      <3>1. PICK o \in Nat : o = off + 3 /\ o + 1 = off + 4 /\ o < Len(data)
        BY <1>2, <2>5
      <3> QED
        BY <1>2, <2>5, <3>1, UnitIs
    <2>7. at' = "skip" /\ off' = off + 4 + 0
      BY <1>2, <2>1, <2>5, PartIs
    <2>8. 1 \in 1 .. Len(f) + 1 /\ Len(f) = Len(f) + 1 - 1 /\ off' = SkipAt(c, k, 1) /\ attrs' = Len(f)
      BY <2>1, <2>5, <2>6, <2>7
    <2>9. n' = Len(c.fields) + 1 - k
      BY <1>1, <1>3
    <2>10. InField(c)'
      BY <2>2, <2>4, <2>8, <2>9 DEF InField
    <2>11. Stands(c)' /\ at' \in PastPool
      BY <2>7, <2>10 DEF Stands, PastPool
    <2> QED
      BY <1>1, <2>11, GoesOn
  <1> QED
    BY <1>4, <1>5

\* An attribute of a field is passed over by its length.
LEMMA FieldAttributeWalks ==
  ASSUME NEW c, Executing(c), FieldAttribute
  PROVE  Executing(c)'
  <1>1. /\ at = "skip" /\ InField(c) /\ PoolKnown(c) /\ ran = NoCode /\ IsClass(c)
        /\ UNCHANGED <<data, cp, cp_count, ran>>
    BY DEF FieldAttribute, Executing, Walks, Stands, PastPool, walkVars
  <1>2. ClassLaid(c, data) /\ Len(data) \in Nat /\ data \in Seq(Nat) /\ Len(c.fields) \in Nat
    BY <1>1, ExecutedLies, PartsTyped
  <1>3. PICK k \in 1 .. Len(c.fields) : \E a \in 1 .. Len(c.fields[k]) + 1 :
          n = Len(c.fields) + 1 - k /\ attrs = Len(c.fields[k]) + 1 - a /\ off = SkipAt(c, k, a)
    BY <1>1 DEF InField
  <1>4. PICK f : f = c.fields[k]
    OBVIOUS
  <1>5. PICK a \in 1 .. Len(f) + 1 : n = Len(c.fields) + 1 - k /\ attrs = Len(f) + 1 - a /\ off = SkipAt(c, k, a)
    BY <1>3, <1>4
  <1>6. FieldLies(c, data, k)
    BY <1>1, <1>2, FieldsLie
  <1>7. Len(f) \in Nat
    BY <1>4, <1>6 DEF FieldLies
  <1>8. CASE attrs = 0
    <2>1. at' = "field" /\ n' = n - 1 /\ off' = off
      BY <1>8 DEF FieldAttribute
    <2>2. a = Len(f) + 1
      BY <1>5, <1>7, <1>8, CountDown
    <2>3. off' = FieldAt(c, k + 1)
      BY <1>4, <1>5, <1>6, <2>1, <2>2 DEF FieldLies
    <2>4. k + 1 \in 1 .. Len(c.fields) + 1 /\ n' = Len(c.fields) + 1 - (k + 1)
      <3>1. PICK l \in Nat : l = Len(c.fields)
        BY <1>2
      <3>2. k \in 1 .. l + 1 /\ n = l + 1 - k /\ k # l + 1
        BY <1>5, <3>1
      <3>3. n # 0
        BY <3>2
      <3>4. k + 1 \in 1 .. l + 1 /\ n - 1 = l + 1 - (k + 1)
        BY <3>2, <3>3, CountDown
      <3> QED
        BY <2>1, <3>1, <3>4
    <2>5. AtField(c)'
      BY <2>3, <2>4 DEF AtField
    <2>6. Stands(c)' /\ at' \in PastPool
      BY <2>1, <2>5 DEF Stands, PastPool
    <2> QED
      BY <1>1, <2>6, GoesOn
  <1>9. CASE attrs # 0
    <2>1. Part(2, "skip", Unit(off + 1)) /\ attrs' = attrs - 1 /\ n' = n
      BY <1>9 DEF FieldAttribute
    <2>2. a \in 1 .. Len(f) /\ a + 1 \in 1 .. Len(f) + 1 /\ attrs - 1 = Len(f) + 1 - (a + 1)
      BY <1>5, <1>7, <1>9, CountDown
    <2>3. /\ off \in Nat /\ off + 2 <= Len(data) /\ data[off + 2] = f[a] /\ f[a] \in Nat
          /\ SkipAt(c, k, a + 1) = off + 2 + f[a]
      BY <1>4, <1>5, <1>6, <2>2 DEF FieldLies
    <2>4. Unit(off + 1) = f[a]
      <3>1. PICK o \in Nat : o = off + 1 /\ o + 1 = off + 2 /\ o < Len(data)
        BY <1>2, <2>3
      <3> QED
        BY <1>2, <2>3, <3>1, UnitIs
    <2>5. at' = "skip" /\ off' = off + 2 + f[a]
      <3>1. at' = "skip" /\ off' = off + 2 + Unit(off + 1)
        BY <1>2, <2>1, <2>3, PartIs
      <3> QED
        BY <2>4, <3>1
    <2>6. off' = SkipAt(c, k, a + 1) /\ attrs' = Len(f) + 1 - (a + 1) /\ n' = Len(c.fields) + 1 - k
      BY <1>5, <2>1, <2>2, <2>3, <2>5
    <2>7. InField(c)'
      BY <1>4, <2>2, <2>6 DEF InField
    <2>8. Stands(c)' /\ at' \in PastPool
      BY <2>5, <2>7 DEF Stands, PastPool
    <2> QED
      BY <1>1, <2>8, GoesOn
  <1> QED
    BY <1>8, <1>9

\* The loader reads how many methods there are.
LEMMA MethodsWalks ==
  ASSUME NEW c, Executing(c), Methods
  PROVE  Executing(c)'
  <1>1. /\ at = "methods" /\ off = MethodsAt(c) /\ PoolKnown(c) /\ ran = NoCode /\ IsClass(c)
        /\ Part(1, "method", 0) /\ n' = Unit(off) /\ UNCHANGED <<data, cp, cp_count, ran>>
    BY DEF Methods, Executing, Walks, Stands, PastPool, walkVars
  <1>2. ClassLaid(c, data) /\ Len(data) \in Nat /\ data \in Seq(Nat)
    BY ExecutedLies
  <1>3. off \in Nat /\ off + 1 <= Len(data)
    <2>1. PICK r \in Nat : r = Len(FlattenSeq(MethodParts(c)))
      <3>1. FlattenSeq(MethodParts(c)) \in Seq(Nat)
        BY <1>1, PartsTyped, FlattenType
      <3> QED
        BY <3>1
    <2>2. PICK g \in Nat : g = MethodsAt(c) /\ Len(data) = g + 2 + r
      BY <1>2, <2>1 DEF ClassLaid
    <2> QED
      BY <1>1, <1>2, <2>2
  <1>4. Unit(off) = Len(c.methods)
    <2>1. Unit(off) = data[off + 1]
      <3>1. off < Len(data)
        BY <1>2, <1>3
      <3> QED
        BY <1>2, <1>3, <3>1, UnitIs
    <2> QED
      BY <1>1, <1>2, <2>1 DEF ClassLaid
  <1>5. at' = "method" /\ off' = off + 1 + 0
    BY <1>1, <1>2, <1>3, PartIs
  <1>6. off' = MethodAt(c, 1)
    <2>1. MethodAt(c, 1) = MethodsAt(c) + 1
      BY <1>1, <1>2, MethodsLie
    <2> QED
      BY <1>1, <1>3, <1>5, <2>1
  <1>7. AtMethod(c)'
    <2>1. Len(c.methods) \in Nat
      BY <1>1, PartsTyped
    <2>2. 1 \in 1 .. Len(c.methods) + 1 /\ Len(c.methods) = Len(c.methods) + 1 - 1
      BY <2>1
    <2>3. NoMainBefore(c, 1)
      BY DEF NoMainBefore
    <2> QED
      BY <1>1, <1>4, <1>6, <2>2, <2>3 DEF AtMethod
  <1>8. Stands(c)' /\ at' \in PastPool
    BY <1>5, <1>7 DEF Stands, PastPool
  <1> QED
    BY <1>1, <1>8, GoesOn

\* The loader reads a method's name and the number of its attributes, or is past the
\* last method, when no main method has been found.
LEMMA MethodWalks ==
  ASSUME NEW c, Executing(c), Method
  PROVE  Executing(c)'
  <1>1. /\ at = "method" /\ AtMethod(c) /\ PoolKnown(c) /\ ran = NoCode /\ IsClass(c)
        /\ UNCHANGED <<data, cp, cp_count, ran, n>>
    BY DEF Method, Executing, Walks, Stands, PastPool, walkVars
  <1>2. ClassLaid(c, data) /\ Len(data) \in Nat /\ data \in Seq(Nat) /\ Len(c.methods) \in Nat
        /\ c.methods \in Seq(ClassMethods)
    BY <1>1, ExecutedLies, PartsTyped
  <1>3. PICK k \in 1 .. Len(c.methods) + 1 :
          n = Len(c.methods) + 1 - k /\ off = MethodAt(c, k) /\ NoMainBefore(c, k)
    BY <1>1 DEF AtMethod
  <1>4. CASE n = 0
    <2>1. at' = "done"
      BY <1>4 DEF Method
    <2>2. k = Len(c.methods) + 1
      BY <1>2, <1>3, <1>4, CountDown
    <2>3. MainCode(c) = NoCode
      BY <1>2, <1>3, <2>2, MainMissing
    <2> QED
      BY <1>1, <2>1, <2>3, ComesToEnd
  <1>5. CASE n # 0
    <2>1. /\ Part(4, "attribute", 0) /\ attrs' = Unit(off + 3)
          /\ method' = [name |-> Unit(off + 1), code |-> NoCode]
      BY <1>5 DEF Method
    <2>2. k \in 1 .. Len(c.methods)
      BY <1>2, <1>3, <1>5, CountDown
    <2>3. MethodLies(c, data, k)
      BY <1>1, <1>2, <2>2, MethodsLie
    <2>4. PICK m : m = c.methods[k]
      OBVIOUS
    <2>5. /\ off \in Nat /\ off + 4 <= Len(data) /\ data[off + 2] = m.name /\ data[off + 4] = Len(m.attrs)
          /\ Len(m.attrs) \in Nat /\ AttributeAt(c, k, 1) = off + 4
      BY <1>3, <2>3, <2>4 DEF MethodLies
    <2>6. Unit(off + 3) = Len(m.attrs) /\ Unit(off + 1) = m.name
      <3>1. PICK o \in Nat : o = off + 3 /\ o + 1 = off + 4 /\ o < Len(data)
        BY <1>2, <2>5
      <3>2. PICK p \in Nat : p = off + 1 /\ p + 1 = off + 2 /\ p < Len(data)
        BY <1>2, <2>5
      <3> QED
        BY <1>2, <2>5, <3>1, <3>2, UnitIs
    <2>7. at' = "attribute" /\ off' = off + 4 + 0
      BY <1>2, <2>1, <2>5, PartIs
    <2>8. /\ 1 \in 1 .. Len(m.attrs) + 1 /\ Len(m.attrs) = Len(m.attrs) + 1 - 1 /\ off' = AttributeAt(c, k, 1)
          /\ attrs' = Len(m.attrs)
      BY <2>1, <2>5, <2>6, <2>7
    <2>9. n' = Len(c.methods) + 1 - k /\ method' = [name |-> m.name, code |-> CodeBefore(c, m, 1)]
      <3>1. CodeBefore(c, m, 1) = NoCode
        <4>1. 1 \in Nat \ {0}
          OBVIOUS
        <4> QED
          BY <4>1, CodeGrows
      <3> QED
        BY <1>1, <1>3, <2>1, <2>6, <3>1
    <2>10. InMethod(c)'
      BY <1>3, <2>2, <2>4, <2>8, <2>9 DEF InMethod
    <2>11. Stands(c)' /\ at' \in PastPool
      BY <2>7, <2>10 DEF Stands, PastPool
    <2> QED
      BY <1>1, <2>11, GoesOn
  <1> QED
    BY <1>4, <1>5

\* A method of a class that can be loaded has a name, and so have its attributes.
LEMMA NamesThere ==
  ASSUME NEW c, Executing(c), NEW k \in 1 .. Len(c.methods)
  PROVE  /\ IsName(c, c.methods[k].name)
         /\ \A a \in 1 .. Len(c.methods[k].attrs) :
               /\ IsName(c, c.methods[k].attrs[a].name)
               /\ IsCode(c, c.methods[k].attrs[a]) =>
                     3 + c.methods[k].attrs[a].payload[3] <= Len(c.methods[k].attrs[a].payload)
  <1>1. IsClass(c) /\ Loadable(c)
    BY DEF Executing
  <1>2. c.methods \in Seq(ClassMethods)
    BY <1>1, PartsTyped
  <1>3. IsMethod(c, c.methods[k])
    BY <1>1, <1>2 DEF IsClass
  <1>4. DOMAIN c.methods[k].attrs = 1 .. Len(c.methods[k].attrs)
    <2>1. c.methods[k] \in ClassMethods
      BY <1>2
    <2>2. c.methods[k].attrs \in Seq(ClassAttributes)
      BY <2>1, AttributePartsAre
    <2> QED
      BY <2>2
  <1> QED
    BY <1>3, <1>4 DEF IsMethod

\* The loader keeps the code of a method's last Code attribute; past its attributes it
\* runs the method if that is main and has code, and goes on otherwise.
LEMMA MethodAttributeWalks ==
  ASSUME NEW c, Executing(c), MethodAttribute
  PROVE  Executing(c)'
  <1>1. /\ at = "attribute" /\ InMethod(c) /\ PoolKnown(c) /\ ran = NoCode /\ IsClass(c) /\ cp_count = PoolSize(c)
        /\ PoolRead(c, Len(c.pool) + 1) /\ UNCHANGED <<data, cp, cp_count>>
    BY DEF MethodAttribute, Executing, Walks, Stands, PastPool, PoolKnown
  <1>2. ClassLaid(c, data) /\ Len(data) \in Nat /\ data \in Seq(Nat) /\ Len(c.methods) \in Nat
        /\ c.methods \in Seq(ClassMethods)
    BY <1>1, ExecutedLies, PartsTyped
  <1>3. PICK k \in 1 .. Len(c.methods) : \E a \in 1 .. Len(c.methods[k].attrs) + 1 :
          /\ n = Len(c.methods) + 1 - k /\ attrs = Len(c.methods[k].attrs) + 1 - a
          /\ off = AttributeAt(c, k, a) /\ NoMainBefore(c, k)
          /\ method = [name |-> c.methods[k].name, code |-> CodeBefore(c, c.methods[k], a)]
    BY <1>1 DEF InMethod
  <1>4. PICK m \in ClassMethods : m = c.methods[k]
    BY <1>2
  <1>5. PICK a \in 1 .. Len(m.attrs) + 1 :
          /\ n = Len(c.methods) + 1 - k /\ attrs = Len(m.attrs) + 1 - a
          /\ off = AttributeAt(c, k, a) /\ NoMainBefore(c, k)
          /\ method = [name |-> m.name, code |-> CodeBefore(c, m, a)]
    BY <1>3, <1>4
  <1>6. MethodLies(c, data, k)
    BY <1>1, <1>2, MethodsLie
  <1>7. Len(m.attrs) \in Nat
    BY <1>4, <1>6 DEF MethodLies
  <1>8. CASE attrs = 0
    <2>1. a = Len(m.attrs) + 1
      BY <1>5, <1>7, <1>8, CountDown
    <2>2. method.name = m.name /\ method.code = CodeOf(c, m)
      <3>1. CodeBefore(c, m, Len(m.attrs) + 1) = CodeOf(c, m)
        BY CodeRead
      <3> QED
        BY <1>5, <2>1, <3>1
    <2>3. Names(method.name, NameMain) <=> PoolName(c, m.name, NameMain)
      <3>1. IsName(c, m.name)
        BY <1>4, NamesThere
      <3> QED
        BY <1>1, <2>2, <3>1, NameLookup
    <2>4. CASE Names(method.name, NameMain) /\ method.code # NoCode
      <3>1. ran' = method.code /\ at' = "done"
        BY <1>8, <2>4 DEF MethodAttribute
      <3>2. IsMain(c, c.methods[k])
        BY <1>4, <2>2, <2>3, <2>4 DEF IsMain
      <3>3. MainCode(c) = CodeOf(c, c.methods[k])
        BY <1>2, <1>5, <3>2, MainFound
      <3>4. ran' = MainCode(c)
        BY <1>4, <2>2, <3>1, <3>3
      <3> QED
        BY <1>1, <3>1, <3>4, ComesToEnd
    <2>5. CASE ~(Names(method.name, NameMain) /\ method.code # NoCode)
      <3>1. n' = n - 1 /\ at' = "method" /\ UNCHANGED <<off, ran>>
        BY <1>8, <2>5 DEF MethodAttribute
      <3>2. ~IsMain(c, c.methods[k])
        BY <1>4, <2>2, <2>3, <2>5 DEF IsMain
      <3>3. off' = MethodAt(c, k + 1)
        BY <1>4, <1>5, <1>6, <2>1, <3>1 DEF MethodLies
      <3>4. k + 1 \in 1 .. Len(c.methods) + 1 /\ n' = Len(c.methods) + 1 - (k + 1)
        <4>1. PICK l \in Nat : l = Len(c.methods)
          BY <1>2
        <4>2. k \in 1 .. l + 1 /\ n = l + 1 - k /\ k # l + 1
          BY <1>5, <4>1
        <4>3. n # 0
          BY <4>2
        <4>4. k + 1 \in 1 .. l + 1 /\ n - 1 = l + 1 - (k + 1)
          BY <4>2, <4>3, CountDown
        <4> QED
          BY <3>1, <4>1, <4>4
      <3>5. NoMainBefore(c, k + 1)
        <4>1. \A j \in 1 .. (k + 1) - 1 : j \in 1 .. k - 1 \/ j = k
          OBVIOUS
        <4> QED
          BY <1>5, <3>2, <4>1 DEF NoMainBefore
      <3>6. AtMethod(c)'
        BY <3>3, <3>4, <3>5 DEF AtMethod
      <3>7. Stands(c)' /\ at' \in PastPool
        BY <3>1, <3>6 DEF Stands, PastPool
      <3> QED
        BY <1>1, <3>1, <3>7, GoesOn
    <2> QED
      BY <2>4, <2>5
  <1>9. CASE attrs # 0
    <2>1. /\ Part(2, "attribute", Unit(off + 1)) /\ attrs' = attrs - 1 /\ UNCHANGED <<n, ran>>
          /\ method' = IF off + 2 <= size /\ Names(Unit(off), NameCode) /\ Unit(off + 1) >= 3
                       THEN [method EXCEPT !.code = CodeAt(off + 2)] ELSE method
      BY <1>9 DEF MethodAttribute
    <2>2. a \in 1 .. Len(m.attrs) /\ a + 1 \in 1 .. Len(m.attrs) + 1 /\ attrs - 1 = Len(m.attrs) + 1 - (a + 1)
      <3>1. PICK z \in Nat : z = Len(m.attrs)
        BY <1>7
      <3>2. a \in 1 .. z + 1 /\ attrs = z + 1 - a
        BY <1>5, <3>1
      <3>3. a \in 1 .. z /\ a + 1 \in 1 .. z + 1 /\ attrs - 1 = z + 1 - (a + 1)
        BY <1>9, <3>2, CountDown
      <3> QED
        BY <3>1, <3>3
    <2>0. PICK x : x = m.attrs[a].name
      OBVIOUS
    <2>3. PICK t \in Seq(Nat) : t = m.attrs[a].payload
      BY <2>2, AttributePartsAre
    <2>4. PICK l \in Nat : l = Len(t)
      OBVIOUS
    <2>5. /\ off \in Nat /\ off + 2 <= Len(data) /\ data[off + 1] = x /\ data[off + 2] = l
          /\ AttributeAt(c, k, a + 1) = off + 2 + l /\ Lies(t, data, off + 2)
      BY <1>4, <1>5, <1>6, <2>0, <2>2, <2>3, <2>4 DEF MethodLies
    <2>6. Unit(off) = x /\ Unit(off + 1) = l
      <3>1. PICK o \in Nat : o = off + 1 /\ o + 1 = off + 2 /\ o < Len(data)
        BY <1>2, <2>5
      <3>2. off < Len(data)
        BY <1>2, <2>5
      <3> QED
        BY <1>2, <2>5, <3>1, <3>2, UnitIs
    <2>7. at' = "attribute" /\ off' = off + 2 + l
      <3>1. at' = "attribute" /\ off' = off + 2 + Unit(off + 1)
        BY <1>2, <2>1, <2>5, PartIs
      <3> QED
        BY <2>6, <3>1
    <2>8. /\ off' = AttributeAt(c, k, a + 1) /\ attrs' = Len(m.attrs) + 1 - (a + 1)
          /\ n' = Len(c.methods) + 1 - k
      BY <1>5, <2>1, <2>2, <2>5, <2>7
    <2>9. IsName(c, x) /\ (IsCode(c, m.attrs[a]) => 3 + t[3] <= Len(t))
      BY <1>4, <2>0, <2>2, <2>3, NamesThere
    <2>10. IsCode(c, m.attrs[a]) <=> (Names(x, NameCode) /\ l >= 3)
      <3>1. Names(x, NameCode) <=> PoolName(c, x, NameCode)
        BY <1>1, <2>9, NameLookup
      <3> QED
        BY <2>0, <2>3, <2>4, <3>1 DEF IsCode
    <2>11. off + 2 <= size
      BY <2>5 DEF size
    <2>12. method' = [name |-> m.name, code |-> CodeBefore(c, m, a + 1)]
      <3>1. a \in Nat \ {0}
        BY <2>2
      <3>2. CASE IsCode(c, m.attrs[a])
        <4>1. method' = [method EXCEPT !.code = CodeAt(off + 2)]
          BY <2>1, <2>6, <2>10, <2>11, <3>2
        <4>2. CodeAt(off + 2) = SubSeq(t, 4, 3 + t[3])
          <5>1. off + 2 \in Nat /\ Len(t) >= 3 /\ 3 + t[3] <= Len(t)
            <6>1. 3 + t[3] <= Len(t) /\ Len(t) >= 3
              BY <2>4, <2>9, <2>10, <3>2
            <6>2. PICK o \in Nat : o = off
              BY <2>5
            <6> QED
              BY <6>1, <6>2
          <5> QED
            BY <1>2, <2>3, <2>5, <5>1, CodeAtIs
        <4>3. CodeBefore(c, m, a + 1) = SubSeq(t, 4, 3 + t[3])
          BY <2>3, <3>1, <3>2, CodeGrows
        <4> QED
          BY <1>5, <4>1, <4>2, <4>3
      <3>3. CASE ~IsCode(c, m.attrs[a])
        <4>1. method' = method
          BY <2>1, <2>6, <2>10, <3>3
        <4>2. CodeBefore(c, m, a + 1) = CodeBefore(c, m, a)
          BY <3>1, <3>3, CodeGrows
        <4> QED
          BY <1>5, <4>1, <4>2
      <3> QED
        BY <3>2, <3>3
    <2>13. InMethod(c)'
      BY <1>4, <1>5, <2>2, <2>8, <2>12 DEF InMethod
    <2>14. Stands(c)' /\ at' \in PastPool
      BY <2>7, <2>13 DEF Stands, PastPool
    <2> QED
      BY <1>1, <2>1, <2>14, GoesOn
  <1> QED
    BY <1>8, <1>9

\* The pool is granted, and the walk begins; or it does not fit, and nothing is run.
LEMMA AllocatedWalks ==
  ASSUME NEW c, Executing(c), Held, Allocated
  PROVE  Executing(c)'
  <1>1. /\ at = "malloc" /\ request = PoolSize(c) /\ PoolSize(c) <= MaxPool /\ ran = NoCode /\ cp_count = PoolSize(c)
        /\ IsClass(c) /\ UNCHANGED <<data, cp, cp_count, ran>> /\ off' = 4 /\ n' = 1 /\ live = {}
    BY DEF Allocated, Executing, Walks, Held, Empty_handed
  <1>2. IsClass(c)' /\ Loadable(c)' /\ data' = EncodeClass(c) /\ DOMAIN cp' = 0 .. MaxPool
    BY <1>1 DEF Executing
  <1>3. PICK p \in Nat : p = PoolSize(c)
    <2>1. 1 \in 1 .. Len(c.pool) + 1
      <3>1. Len(c.pool) \in Nat
        BY <1>1, PartsTyped
      <3> QED
        BY <3>1
    <2> QED
      BY <1>1, <2>1, PoolNumber
  <1>4. HeapSize \in Nat /\ HeapHdr \in Nat
    BY ClassAssumption
  <1>5. CASE Heap!Grant /\ at' = "pool"
    <2>1. PICK ptr \in 0 + HeapHdr .. 0 + HeapSize, len \in 0 .. HeapSize :
             len >= request /\ ptr + len <= 0 + HeapSize
      BY <1>5 DEF Heap!Grant, Heap!Clear, Heap!Limit
    <2>2. PoolFits(c)
      BY <1>1, <1>3, <1>4, <2>1 DEF PoolFits
    <2>3. PoolAt(c, 1) = 4 /\ Slot(c.pool, 1) = 1
      BY <1>1, ExecutedLies, EntriesLie, SlotNext
    <2>4. 1 \in 1 .. Len(c.pool) + 1
      <3>1. Len(c.pool) \in Nat
        BY <1>1, PartsTyped
      <3> QED
        BY <3>1
    <2>5. PoolRead(c, 1)'
      BY DEF PoolRead
    <2>6. InPool(c)'
      BY <1>1, <2>2, <2>3, <2>4, <2>5 DEF InPool
    <2>7. Walks(c)'
      BY <1>1, <1>5, <2>6 DEF Walks, PastPool
    <2> QED
      BY <1>2, <2>7 DEF Executing
  <1>6. CASE Heap!Refuse /\ at' = "returned"
    <2>1. ~(\E lo \in 0 .. 0 + HeapSize : 0 <= lo /\ lo + HeapHdr + request <= 0 + HeapSize)
      BY <1>1, <1>6 DEF Heap!Refuse, Heap!Clear, Heap!Limit
    <2>2. ~PoolFits(c)
      <3>1. 0 \in 0 .. 0 + HeapSize
        BY <1>4
      <3>2. ~(0 + HeapHdr + p <= 0 + HeapSize)
        BY <1>1, <1>3, <2>1, <3>1
      <3> QED
        BY <1>3, <1>4, <3>2 DEF PoolFits
    <2>3. ran' = Result(c)
      BY <1>1, <2>2 DEF Result
    <2>4. Walks(c)'
      BY <1>6, <2>3 DEF Walks, PastPool
    <2> QED
      BY <1>2, <2>4 DEF Executing
  <1> QED
    BY <1>5, <1>6 DEF Allocated

\* What has been run when the loader returns is the main method, if any.
LEMMA DoneWalks ==
  ASSUME NEW c, Executing(c), Done
  PROVE  Executing(c)'
  <1>1. PoolFits(c) /\ ran' = MainCode(c) /\ at' = "returned" /\ UNCHANGED <<data, cp>>
    BY DEF Done, Executing, Walks
  <1>2. ran' = Result(c)
    BY <1>1 DEF Result
  <1>3. Walks(c)'
    BY <1>1, <1>2 DEF Walks, PastPool
  <1> QED
    BY <1>1, <1>3 DEF Executing

\* A step of the loader.
LEMMA LoaderWalks ==
  ASSUME NEW c, Executing(c), Held, Walk
  PROVE  Executing(c)'
  BY PoolEntryWalks, PoolDoneWalks, HeaderWalks, FieldsWalks, FieldWalks, FieldAttributeWalks, MethodsWalks,
     MethodWalks, MethodAttributeWalks, AllocatedWalks, DoneWalks DEF Walk

\* The call of the loader with an encoded class begins the walk over that class.
LEMMA ExecutionBegins ==
  ASSUME NEW c, IsClass(c), Loadable(c), DOMAIN cp = 0 .. MaxPool, class_execute(EncodeClass(c))
  PROVE  Executing(c)'
  <1> DEFINE d == EncodeClass(c)
  <1>1. ClassLaid(c, d)
    BY ClassIsLaid
  <1> HIDE DEF d
  <1>2. d[1] = ClassMagic /\ d[4] = PoolSize(c) /\ Len(d) >= 4
    <2>1. PICK e \in Nat, r \in Nat, g \in Nat, q \in Nat, z \in Nat, p \in Nat :
            /\ r = Len(FlattenSeq(MethodParts(c))) /\ e = Len(d) /\ q = Len(FlattenSeq(FieldParts(c)))
            /\ p = Len(FlattenSeq(PoolParts(c))) /\ z = c.interfaces /\ g = MethodsAt(c)
      <3>1. FlattenSeq(FieldParts(c)) \in Seq(Nat) /\ FlattenSeq(MethodParts(c)) \in Seq(Nat)
            /\ FlattenSeq(PoolParts(c)) \in Seq(Nat) /\ c.interfaces \in Nat
        BY PartsTyped, FlattenType
      <3>2. Len(FlattenSeq(FieldParts(c))) \in Nat /\ Len(FlattenSeq(MethodParts(c))) \in Nat
            /\ Len(FlattenSeq(PoolParts(c))) \in Nat
        BY <3>1
      <3>3. d \in Seq(Nat) /\ MethodsAt(c) \in Nat
        BY <1>1 DEF ClassLaid
      <3>4. Len(d) \in Nat
        BY <3>3
      <3> QED
        BY <3>1, <3>2, <3>3, <3>4
    <2>2. g = ((4 + p) + 4 + z) + 1 + q /\ e = g + 2 + r
      BY <1>1, <2>1 DEF ClassLaid, MethodsAt, FieldsAt, HeaderAt
    <2>3. Len(d) >= 4
      BY <2>1, <2>2
    <2>4. d[1] = ClassMagic /\ d[4] = PoolSize(c)
      BY <1>1 DEF ClassLaid
    <2> QED
      BY <2>3, <2>4
  <1>3. data' = d /\ ran' = NoCode /\ UNCHANGED cp
    BY DEF class_execute, d
  <1>4. CASE PoolSize(c) <= MaxPool
    <2>1. at' = "malloc" /\ cp_count' = PoolSize(c) /\ request' = PoolSize(c)
      BY <1>2, <1>4 DEF class_execute, Heap!Ask, d
    <2>2. Walks(c)'
      BY <1>3, <1>4, <2>1 DEF Walks, PastPool
    <2> QED
      BY <1>3, <2>2 DEF Executing, d
  <1>5. CASE ~(PoolSize(c) <= MaxPool)
    <2>1. at' = "returned"
      BY <1>2, <1>5 DEF class_execute, d
    <2>2. ran' = Result(c)
      BY <1>3, <1>5 DEF Result, PoolFits
    <2>3. Walks(c)'
      BY <2>1, <2>2 DEF Walks, PastPool
    <2> QED
      BY <1>3, <2>3 DEF Executing, d
  <1> QED
    BY <1>4, <1>5

-----------------------------------------------------------------------------
(* The archives of the worlds *)

\* The first character of a text.
LEMMA FirstAlone ==
  ASSUME NEW u \in Seq(Nat), 1 <= Len(u)
  PROVE  SubSeq(u, 1, 1) = <<u[1]>>
  <1>1. PICK y \in Nat : y = u[1]
    OBVIOUS
  <1>2. PICK v : v = SubSeq(u, 1, 1)
    OBVIOUS
  <1>3. v \in Seq(Nat) /\ Len(v) = 1 /\ v[1] = y
    BY <1>1, <1>2
  <1>4. v = <<y>>
    BY <1>3
  <1> QED
    BY <1>1, <1>2, <1>4

\* To begin with a character is to have it in the first place.
LEMMA BeginsOne ==
  ASSUME NEW t \in Seq(Nat), NEW x \in Nat
  PROVE  Begins(t, <<x>>) <=> t # <<>> /\ t[1] = x
  <1>1. <<x>> \in Seq(Nat) /\ Len(<<x>>) = 1 /\ <<x>>[1] = x
    OBVIOUS
  <1>2. Begins(t, <<x>>) <=> 1 <= Len(t) /\ SubSeq(<<x>>, 1, 1) = SubSeq(t, 1, 1)
    BY <1>1 DEF Begins, IsPrefix
  <1>3. t # <<>> <=> 1 <= Len(t)
    OBVIOUS
  <1>4. SubSeq(<<x>>, 1, 1) = <<x>>
    <2>1. PICK u \in Seq(Nat) : u = <<x>> /\ Len(u) = 1 /\ u[1] = x
      BY <1>1
    <2>2. SubSeq(u, 1, Len(u)) = u
      OBVIOUS
    <2> QED
      BY <2>1, <2>2
  <1>6. ASSUME 1 <= Len(t) PROVE <<x>> = <<t[1]>> <=> t[1] = x
    OBVIOUS
  <1> QED
    BY <1>2, <1>3, <1>4, <1>6, FirstAlone

\* Where the files of a class begin.
LEMMA ClassBegins ==
  ASSUME NEW c, IsClass(c)
  PROVE  EncodeClass(c) \in Seq(Nat) /\ EncodeClass(c)[1] = ClassMagic
  <1>1. ClassLaid(c, EncodeClass(c))
    BY ClassIsLaid
  <1> QED
    BY <1>1 DEF ClassLaid

\* A part is made of numbers, and does not begin like an archive.
LEMMA PartType ==
  ASSUME NEW f, IsPart(f)
  PROVE  /\ EncodePart(f) \in Seq(Nat) /\ f.kind # "jar"
         /\ EncodePart(f) # <<>> => EncodePart(f)[1] # LocalSig
  <1>1. CASE f.kind = "class" /\ IsClass(f.class)
    <2>1. EncodePart(f) = EncodeClass(f.class)
      BY <1>1 DEF EncodePart
    <2>2. EncodePart(f) \in Seq(Nat) /\ EncodePart(f)[1] = ClassMagic
      BY <1>1, <2>1, ClassBegins
    <2> QED
      BY <1>1, <2>2, ProgramsAssumption
  <1>2. CASE f.kind \in {"text", "units"} /\ f.text \in Seq(Nat) /\ ~Begins(f.text, <<LocalSig>>)
    <2>1. EncodePart(f) = f.text
      BY <1>2 DEF EncodePart
    <2>2. f.text # <<>> => f.text[1] # LocalSig
      BY <1>2, BeginsOne, JarAssumption
    <2> QED
      BY <1>2, <2>1, <2>2
  <1> QED
    BY <1>1, <1>2 DEF IsPart

\* An archive is a sequence of entries, coded one by one.
LEMMA ArchiveCoded ==
  ASSUME NEW entries, IsArchive(entries)
  PROVE  /\ Len(entries) \in Nat /\ DOMAIN entries = 1 .. Len(entries)
         /\ Encoded(entries) \in Seq(JarEntries) /\ Len(Encoded(entries)) = Len(entries)
         /\ NoneLikeEntry(Encoded(entries))
         /\ \A k \in 1 .. Len(entries) :
               /\ Encoded(entries)[k].name = entries[k].name /\ Encoded(entries)[k].packing = entries[k].packing
               /\ Encoded(entries)[k].file = EncodePart(entries[k].file) /\ IsPart(entries[k].file)
               /\ entries[k].packing \in Packings
               /\ Begins(entries[k].name, Manifest) => IsManifest(entries, k)
  <1>1. PICK V : entries \in Seq(V)
    BY DEF IsArchive
  <1>2. PICK w \in Nat : w = Len(entries) /\ DOMAIN entries = 1 .. w
    BY <1>1
  <1>3. PICK es : es = Encoded(entries)
    OBVIOUS
  <1>4. es = [k \in 1 .. w |-> [name |-> entries[k].name, packing |-> entries[k].packing,
                                extra |-> entries[k].extra, file |-> EncodePart(entries[k].file)]]
    BY <1>2, <1>3 DEF Encoded
  <1>5. ASSUME NEW k \in 1 .. w
        PROVE  /\ es[k] \in JarEntries
               /\ es[k].name = entries[k].name /\ es[k].packing = entries[k].packing
               /\ es[k].file = EncodePart(entries[k].file) /\ IsPart(entries[k].file)
               /\ entries[k].packing \in Packings
               /\ Begins(entries[k].name, Manifest) => IsManifest(entries, k)
               /\ es[k].file # <<>> => es[k].file[1] # LocalSig
    <2>1. /\ entries[k].name \in Seq(Nat) /\ entries[k].extra \in Nat /\ IsPart(entries[k].file)
          /\ entries[k].packing \in {"stored", "deflated", "streamed"}
          /\ Begins(entries[k].name, Manifest) => IsManifest(entries, k)
      BY <1>2 DEF IsArchive
    <2>2. PICK u \in Seq(Nat) : u = EncodePart(entries[k].file) /\ (u # <<>> => u[1] # LocalSig)
      BY <2>1, PartType
    <2>3. es[k] = [name |-> entries[k].name, packing |-> entries[k].packing, extra |-> entries[k].extra, file |-> u]
      BY <1>4, <2>2
    <2>4. entries[k].packing \in Packings
      BY <2>1 DEF Packings
    <2>5. es[k] \in JarEntries
      BY <2>1, <2>2, <2>3, <2>4 DEF JarEntries
    <2>6. es[k].name = entries[k].name /\ es[k].packing = entries[k].packing /\ es[k].file = u
      BY <2>3
    <2> QED
      BY <2>1, <2>2, <2>4, <2>5, <2>6
  <1>6. es \in [1 .. w -> JarEntries]
    BY <1>4, <1>5
  <1>7. es \in Seq(JarEntries) /\ Len(es) = w
    BY <1>4, <1>6
  <1>8. NoneLikeEntry(es)
    BY <1>5, <1>7 DEF NoneLikeEntry
  <1> QED
    BY <1>2, <1>3, <1>5, <1>7, <1>8

\* Every file of a machine is made of numbers.
LEMMA FileType ==
  ASSUME NEW f, IsPart(f) \/ (f.kind = "jar" /\ IsArchive(f.entries))
  PROVE  Encode(f) \in Seq(Nat)
  <1>1. CASE IsPart(f)
    BY <1>1, PartType DEF Encode
  <1>2. CASE f.kind = "jar" /\ IsArchive(f.entries)
    <2>1. Encoded(f.entries) \in Seq(JarEntries)
      BY <1>2, ArchiveCoded
    <2>2. EncodeJar(Encoded(f.entries)) \in Seq(Nat)
      BY <2>1, JarIsLaid
    <2> QED
      BY <1>2, <2>2 DEF Encode
  <1> QED
    BY <1>1, <1>2

\* What the specification reaches of an archive is what the walk reaches.
LEMMA ReachedIs ==
  ASSUME NEW entries, IsArchive(entries), NEW es, es = Encoded(entries)
  PROVE  /\ DOMAIN Reached(entries) = 1 .. JarReach(es) /\ JarReach(es) \in Nat /\ JarReach(es) <= Len(es)
         /\ \A k \in 1 .. JarReach(es) : Reached(entries)[k] = entries[k]
  <1>1. PICK w \in Nat : w = Len(entries) /\ DOMAIN entries = 1 .. w /\ Len(es) = w
    BY ArchiveCoded
  <1>2. es \in Seq(JarEntries) /\ \A k \in 1 .. w : es[k].packing = entries[k].packing
    BY <1>1, ArchiveCoded
  <1>3. DOMAIN es = 1 .. w
    BY <1>1, <1>2
  <1> DEFINE hides == {k \in 1 .. w : entries[k].packing = "streamed"}
  <1>4. {k \in DOMAIN entries : entries[k].packing = "streamed"} = hides
    BY <1>1
  <1>5. {k \in DOMAIN es : es[k].packing = "streamed"} = hides
    BY <1>2, <1>3
  <1>6. JarReach(es) = IF hides = {} THEN w ELSE Min(hides)
    BY <1>1, <1>5 DEF JarReach
  <1>7. Reached(entries) = IF hides = {} THEN entries ELSE SubSeq(entries, 1, Min(hides))
    BY <1>4 DEF Reached
  <1>8. hides \subseteq Nat /\ \A k \in hides : k \in 1 .. w
    OBVIOUS
  <1> HIDE DEF hides
  <1>9. CASE hides = {}
    BY <1>1, <1>6, <1>7, <1>9
  <1>10. CASE hides # {}
    <2>1. PICK x \in Nat : x = Min(hides) /\ x \in hides
      BY <1>8, <1>10, MinNumber
    <2>2. x \in 1 .. w
      BY <1>8, <2>1
    <2>3. PICK V : entries \in Seq(V)
      BY DEF IsArchive
    <2>4. PICK u : u = SubSeq(entries, 1, x)
      OBVIOUS
    <2>5. DOMAIN u = 1 .. x
      BY <1>1, <2>2, <2>3, <2>4
    <2>6. \A k \in 1 .. x : u[k] = entries[k]
      BY <1>1, <2>2, <2>3, <2>4
    <2> QED
      BY <1>1, <1>6, <1>7, <1>10, <2>1, <2>2, <2>4, <2>5, <2>6
  <1> QED
    BY <1>9, <1>10

\* No characters name no class.
LEMMA NoText == LinesKept(LinesOf(<<>>)) /\ MainIn(LinesOf(<<>>)) = <<>>
  <1>1. PICK e \in Seq(Int) : e = <<>> /\ Len(e) = 0
    <2>1. <<>> \in Seq(Int) /\ Len(<<>>) = 0
      OBVIOUS
    <2> QED
      BY <2>1
  <1>2. PICK g : Splits(e, g) /\ LinesOf(e) = g[1]
    BY SplitRuns
  <1>3. EndOf(e, 1) = 1
    <2>1. 1 \in Nat \ {0}
      OBVIOUS
    <2>2. EndOf(e, 1) \in 1 .. Len(e) + 1
      BY <2>1, EndsAre
    <2> QED
      BY <1>1, <2>2
  <1>4. g[1] = <<SubSeq(e, 1, EndOf(e, 1) - 1)>> \o (IF EndOf(e, 1) > Len(e) THEN <<>> ELSE g[EndOf(e, 1) + 1])
    BY <1>2 DEF Splits
  <1>5. SubSeq(e, 1, 1 - 1) = e
    BY <1>1
  <1>6. g[1] = <<e>> \o <<>>
    <2>1. EndOf(e, 1) > Len(e) /\ SubSeq(e, 1, EndOf(e, 1) - 1) = e
      BY <1>1, <1>3, <1>5
    <2> QED
      BY <1>4, <2>1
  <1>7. g[1] = <<<<>>>>
    BY <1>1, <1>6
  <1>8. LinesKept(<<<<>>>>)
    <2>1. DOMAIN <<<<>>>> = {1} /\ <<<<>>>>[1] = <<>>
      OBVIOUS
    <2> QED
      BY <2>1, NoLines DEF LinesKept, KeptWhole
  <1> QED
    BY <1>1, <1>2, <1>7, <1>8, NoLines

\* Lines without the key name no class.
LEMMA KeylessLines ==
  ASSUME NEW lines, \A l \in DOMAIN lines : ~Begins(lines[l], KeyMain)
  PROVE  LinesKept(lines) /\ MainIn(lines) = <<>>
  <1>1. {k \in DOMAIN lines : Begins(lines[k], KeyMain)} = {}
    OBVIOUS
  <1> QED
    BY <1>1 DEF LinesKept, KeptWhole, MainIn

\* What is read of a manifest names the class that it names to the specification.
LEMMA ManifestRead ==
  ASSUME NEW entries, IsArchive(entries), NEW es, es = Encoded(entries), NEW k \in 1 .. Len(es),
         Begins(entries[k].name, Manifest), NEW h, h = JarHeader(es[k], JarAt(es, k))
  PROVE  parse_manifest_for_main(Slice(EncodeJar(es), h.data_off, h.uncompressed_size)) =
            MainIn(LinesOf(Contents(entries[k]).text))
  <1>1. es \in Seq(JarEntries) /\ Len(es) = Len(entries)
    BY ArchiveCoded
  <1>2. /\ es[k].packing = entries[k].packing /\ es[k].file = EncodePart(entries[k].file) /\ IsPart(entries[k].file)
        /\ entries[k].packing \in Packings /\ IsManifest(entries, k)
    BY <1>1, ArchiveCoded
  <1>3. CASE entries[k].packing = "stored"
    <2>1. entries[k].file.kind = "text" /\ NamesClass(entries[k].file.text)
      BY <1>2, <1>3 DEF IsManifest
    <2>2. PICK t \in Seq(Nat) : t = entries[k].file.text /\ es[k].file = t
      <3>1. entries[k].file.text = EncodePart(entries[k].file)
        BY <2>1 DEF EncodePart
      <3>2. EncodePart(entries[k].file) \in Seq(Nat)
        BY <1>2, PartType
      <3> QED
        BY <1>2, <3>1, <3>2
    <2>3. Slice(EncodeJar(es), h.data_off, h.uncompressed_size) = t
      BY <1>1, <1>2, <1>3, <2>2, StoredRead
    <2>4. LinesKept(LinesOf(t))
      BY <2>1, <2>2 DEF NamesClass, LinesKept, KeptWhole, MainOf
    <2>5. t \in Seq(Int)
      BY <2>2
    <2>6. Contents(entries[k]).text = t
      BY <1>3, <2>2 DEF Contents
    <2> QED
      BY <2>3, <2>4, <2>5, <2>6, ParseIs
  <1>4. CASE entries[k].packing = "streamed"
    <2>1. Slice(EncodeJar(es), h.data_off, h.uncompressed_size) = <<>>
      BY <1>1, <1>2, <1>4, StoredRead
    <2>2. Contents(entries[k]).text = <<>>
      BY <1>4 DEF Contents
    <2>3. <<>> \in Seq(Int)
      OBVIOUS
    <2>4. parse_manifest_for_main(<<>>) = MainIn(LinesOf(<<>>))
      BY <2>3, NoText, ParseIs
    <2> QED
      BY <2>1, <2>2, <2>4
  <1>5. CASE entries[k].packing = "deflated"
    <2>1. PICK t : t = Instead(es, k)
      OBVIOUS
    <2>2. Slice(EncodeJar(es), h.data_off, h.uncompressed_size) = t
      BY <1>1, <1>2, <1>5, <2>1, DeflatedRead
    <2>3. t \in Seq(Int)
      <3>1. JarAt(es, k) \in Nat /\ es[k] \in JarEntries
        BY <1>1, JarIsLaid DEF JarLaid
      <3>2. EncodeJar(es) \in Seq(Nat)
        BY <1>1, JarIsLaid
      <3>3. DataAt(es[k], JarAt(es, k)) \in Nat /\ Told(es[k], Len(es[k].file)) \in Nat
        <4>1. JarLaid(es, EncodeJar(es), k)
          BY <1>1, JarIsLaid
        <4> QED
          BY <3>1, <4>1, JarEntryType DEF JarLaid, EntryThere
      <3>4. h.data_off \in Nat /\ h.uncompressed_size \in Nat
        BY <3>3 DEF JarHeader
      <3>5. Slice(EncodeJar(es), h.data_off, h.uncompressed_size) \in Seq(Nat)
        BY <3>2, <3>4, SliceType
      <3> QED
        BY <2>2, <3>5
    <2>4. \A l \in DOMAIN LinesOf(t) : ~Begins(LinesOf(t)[l], KeyMain)
      BY <1>2, <1>5, <2>1 DEF IsManifest
    <2>5. LinesKept(LinesOf(t)) /\ MainIn(LinesOf(t)) = <<>>
      BY <2>4, KeylessLines
    <2>6. parse_manifest_for_main(t) = <<>>
      BY <2>3, <2>5, ParseIs
    <2>7. Contents(entries[k]).text = <<>>
      BY <1>5 DEF Contents
    <2> QED
      BY <2>2, <2>6, <2>7, NoText
  <1> QED
    BY <1>2, <1>3, <1>4, <1>5 DEF Packings

\* What java opens, and what it is to open.
OpenedIs(o, meant) ==
    \/ o = <<>> /\ (meant = <<>> \/ meant[1].kind = "text")
    \/ meant # <<>> /\ o = <<EncodePart(meant[1])>> /\ IsPart(meant[1])
    \/ meant # <<>> /\ meant[1].kind = "jar"

\* The walk finds the entry of a name as the specification does.
LEMMA EntryFound ==
  ASSUME NEW entries, IsArchive(entries), NEW es, es = Encoded(entries), NEW name
  PROVE  OpenedIs(jar_find_entry(EncodeJar(es), name), Stored(entries, name))
  <1>1. es \in Seq(JarEntries) /\ NoneLikeEntry(es) /\ Len(es) = Len(entries)
    BY ArchiveCoded
  <1>2. PICK r \in Nat : r = JarReach(es) /\ r <= Len(es)
    BY <1>1, ReachIs
  <1>3. PICK e : e = Reached(entries) /\ DOMAIN e = 1 .. r /\ \A k \in 1 .. r : e[k] = entries[k]
    BY <1>2, ReachedIs
  <1>4. PICK hs : hs = Entries(EncodeJar(es)) /\ hs = JarHeaders(es)
    BY <1>1, JarEntriesAre
  <1>5. DOMAIN hs = 1 .. r /\ \A k \in 1 .. r : hs[k] = JarHeader(es[k], JarAt(es, k)) /\ hs[k].name = es[k].name
    BY <1>2, <1>4 DEF JarHeaders, JarHeader
  <1>6. \A k \in 1 .. r : hs[k].name = e[k].name
    BY <1>1, <1>2, <1>3, <1>5, ArchiveCoded
  <1> DEFINE named == {k \in 1 .. r : e[k].name = name}
  <1>7. {k \in DOMAIN hs : hs[k].name = name} = named
    BY <1>5, <1>6
  <1>8. {k \in DOMAIN e : e[k].name = name} = named
    BY <1>3
  <1>9. Stored(entries, name) = IF named = {} THEN <<>> ELSE <<Contents(e[Min(named)])>>
    BY <1>3, <1>8 DEF Stored
  <1>10. jar_find_entry(EncodeJar(es), name) =
            IF named = {} \/ hs[Min(named)].compression # 0 THEN <<>>
            ELSE <<Slice(EncodeJar(es), hs[Min(named)].data_off, hs[Min(named)].uncompressed_size)>>
    BY <1>4, <1>7 DEF jar_find_entry
  <1>11. named \subseteq Nat /\ \A k \in named : k \in 1 .. r
    OBVIOUS
  <1> HIDE DEF named
  <1>12. CASE named = {}
    BY <1>9, <1>10, <1>12 DEF OpenedIs
  <1>13. CASE named # {}
    <2>1. PICK k \in 1 .. r : k = Min(named)
      <3>1. Min(named) \in named
        BY <1>11, <1>13, MinNumber
      <3> QED
        BY <1>11, <3>1
    <2>2. k \in 1 .. Len(es) /\ e[k] = entries[k] /\ k \in 1 .. Len(entries)
      BY <1>1, <1>2, <1>3
    <2>3. /\ es[k].packing = entries[k].packing /\ es[k].file = EncodePart(entries[k].file)
          /\ IsPart(entries[k].file) /\ entries[k].packing \in Packings
      BY <2>2, ArchiveCoded
    <2>4. PICK h : h = hs[k] /\ h = JarHeader(es[k], JarAt(es, k))
      BY <1>5
    <2>5. /\ Stored(entries, name) = <<Contents(entries[k])>>
          /\ jar_find_entry(EncodeJar(es), name) =
                IF h.compression # 0 THEN <<>> ELSE <<Slice(EncodeJar(es), h.data_off, h.uncompressed_size)>>
      BY <1>9, <1>10, <1>13, <2>1, <2>2, <2>4
    <2>6. (h.compression = 0) = (es[k].packing # "deflated")
      BY <1>1, <2>2, <2>4, StoredRead
    <2>7. CASE entries[k].packing = "stored"
      <3>1. Slice(EncodeJar(es), h.data_off, h.uncompressed_size) = EncodePart(entries[k].file)
        BY <1>1, <2>2, <2>3, <2>4, <2>7, StoredRead
      <3>2. Contents(entries[k]) = entries[k].file
        BY <2>7 DEF Contents
      <3> QED
        BY <2>3, <2>5, <2>6, <2>7, <3>1, <3>2 DEF OpenedIs
    <2>8. CASE entries[k].packing = "streamed"
      <3>1. Slice(EncodeJar(es), h.data_off, h.uncompressed_size) = <<>>
        BY <1>1, <2>2, <2>3, <2>4, <2>8, StoredRead
      <3>2. PICK f : f = [kind |-> "text", text |-> <<>>] /\ Contents(entries[k]) = f
        BY <2>8 DEF Contents
      <3>3. EncodePart(f) = <<>> /\ f.kind = "text" /\ f.text = <<>>
        BY <3>2 DEF EncodePart
      <3>4. IsPart(f)
        <4>1. <<>> \in Seq(Nat)
          OBVIOUS
        <4>2. ~Begins(<<>>, <<LocalSig>>) /\ ~Begins(<<>>, <<ClassMagic>>)
          BY <4>1, BeginsOne, JarAssumption, ClassAssumption
        <4> QED
          BY <3>3, <4>1, <4>2 DEF IsPart
      <3> QED
        BY <2>3, <2>5, <2>6, <2>8, <3>1, <3>2, <3>3, <3>4 DEF OpenedIs
    <2>9. CASE entries[k].packing = "deflated"
      <3>1. Contents(entries[k]).kind = "text"
        BY <2>9 DEF Contents
      <3> QED
        BY <2>3, <2>5, <2>6, <2>9, <3>1 DEF OpenedIs
    <2> QED
      BY <2>3, <2>7, <2>8, <2>9 DEF Packings
  <1> QED
    BY <1>12, <1>13

\* The walk names the class that the specification names.
LEMMA MainClassRead ==
  ASSUME NEW entries, IsArchive(entries), NEW es, es = Encoded(entries)
  PROVE  jar_scan_entries(EncodeJar(es)) = IF MainClass(entries) = <<>> THEN <<>>
            ELSE jar_find_entry(EncodeJar(es), class_path(MainClass(entries)))
  <1>1. es \in Seq(JarEntries) /\ NoneLikeEntry(es) /\ Len(es) = Len(entries)
    BY ArchiveCoded
  <1>2. PICK r \in Nat : r = JarReach(es) /\ r <= Len(es)
    BY <1>1, ReachIs
  <1>3. PICK e : e = Reached(entries) /\ DOMAIN e = 1 .. r /\ \A k \in 1 .. r : e[k] = entries[k]
    BY <1>2, ReachedIs
  <1>4. PICK hs : hs = Entries(EncodeJar(es)) /\ hs = JarHeaders(es)
    BY <1>1, JarEntriesAre
  <1>5. DOMAIN hs = 1 .. r /\ \A k \in 1 .. r : hs[k] = JarHeader(es[k], JarAt(es, k)) /\ hs[k].name = es[k].name
    BY <1>2, <1>4 DEF JarHeaders, JarHeader
  <1>6. \A k \in 1 .. r : hs[k].name = e[k].name
    BY <1>1, <1>2, <1>3, <1>5, ArchiveCoded
  <1> DEFINE manifests == {k \in 1 .. r : Begins(e[k].name, Manifest)}
             m == Min(manifests)
  <1>7. {k \in DOMAIN hs : Begins(hs[k].name, Manifest)} = manifests
    BY <1>5, <1>6
  <1>8. {k \in DOMAIN e : Begins(e[k].name, Manifest)} = manifests
    BY <1>3
  <1>9. MainClass(entries) = IF manifests = {} THEN <<>> ELSE MainIn(LinesOf(Contents(e[m]).text))
    BY <1>3, <1>8 DEF MainClass, MainIn, MainOf
  <1>10. jar_scan_entries(EncodeJar(es)) =
            IF manifests = {} \/ parse_manifest_for_main(Slice(EncodeJar(es), hs[m].data_off, hs[m].uncompressed_size)) = <<>>
            THEN <<>>
            ELSE jar_find_entry(EncodeJar(es), class_path(parse_manifest_for_main(
                    Slice(EncodeJar(es), hs[m].data_off, hs[m].uncompressed_size))))
    BY <1>4, <1>7 DEF jar_scan_entries
  <1>11. manifests \subseteq Nat /\ \A k \in manifests : k \in 1 .. r /\ Begins(e[k].name, Manifest)
    OBVIOUS
  <1> HIDE DEF manifests
  <1>12. CASE manifests = {}
    BY <1>9, <1>10, <1>12
  <1>13. CASE manifests # {}
    <2>1. PICK k \in 1 .. r : k = m /\ Begins(e[k].name, Manifest)
      <3>1. Min(manifests) \in manifests
        BY <1>11, <1>13, MinNumber
      <3> QED
        BY <1>11, <3>1
    <2>2. k \in 1 .. Len(es) /\ e[k] = entries[k]
      BY <1>2, <1>3
    <2>3. PICK h : h = hs[k] /\ h = JarHeader(es[k], JarAt(es, k))
      BY <1>5
    <2>4. parse_manifest_for_main(Slice(EncodeJar(es), h.data_off, h.uncompressed_size)) =
             MainIn(LinesOf(Contents(entries[k]).text))
      BY <2>1, <2>2, <2>3, ManifestRead
    <2> HIDE DEF m
    <2> QED
      BY <1>9, <1>10, <1>13, <2>1, <2>2, <2>3, <2>4
  <1> QED
    BY <1>12, <1>13

\* An archive begins with an entry, or has none to be scanned.
LEMMA ArchiveScanned ==
  ASSUME NEW entries, IsArchive(entries), NEW es, es = Encoded(entries)
  PROVE  jar_execute(EncodeJar(es)) = jar_scan_entries(EncodeJar(es))
  <1>1. es \in Seq(JarEntries) /\ NoneLikeEntry(es)
    BY ArchiveCoded
  <1>2. PICK jar \in Seq(Nat) : jar = EncodeJar(es) /\ Len(jar) = JarAt(es, Len(es) + 1) + 7
                                /\ JarAt(es, Len(es) + 1) \in Nat /\ JarAt(es, 1) = 0
    BY <1>1, JarIsLaid
  <1>3. jar # <<>> /\ Head(jar) = jar[1]
    BY <1>2
  <1>4. CASE Len(es) >= 1
    <2>1. 1 \in 1 .. Len(es)
      BY <1>1, <1>4
    <2>2. JarLaid(es, jar, 1)
      BY <1>1, <1>2, <2>1, JarIsLaid
    <2>3. jar[0 + 1] = LocalSig
      BY <1>2, <2>2 DEF JarLaid, EntryThere
    <2>4. Head(jar) = LocalSig
      BY <1>3, <2>3
    <2> QED
      BY <1>2, <1>3, <2>4 DEF jar_execute
  <1>5. CASE ~(Len(es) >= 1)
    <2>1. Len(es) = 0
      BY <1>1, <1>5
    <2>2. JarReach(es) = 0
      <3>1. PICK r \in Nat : r = JarReach(es) /\ r <= Len(es)
        BY <1>1, ReachIs
      <3> QED
        BY <2>1, <3>1
    <2>3. DOMAIN JarHeaders(es) = {}
      BY <2>2 DEF JarHeaders
    <2>4. Entries(jar) = JarHeaders(es)
      BY <1>1, <1>2, JarEntriesAre
    <2>5. jar_scan_entries(jar) = <<>>
      BY <2>3, <2>4 DEF jar_scan_entries
    <2> QED
      BY <1>2, <2>5 DEF jar_execute
  <1> QED
    BY <1>4, <1>5

\* What java is to run of a file, by the name that it was asked for.
MeantBy(name, f) ==
    IF Ends(name, DotJar)
    THEN IF f.kind = "jar" /\ MainClass(f.entries) # <<>>
         THEN Stored(f.entries, ReplaceAll(MainClass(f.entries), DOT, SLASH) \o DotClass)
         ELSE <<>>
    ELSE IF Ends(name, DotClass) THEN <<f>> ELSE <<>>

\* What java hands to the loader of a file.
HandsOn(name, f) ==
    IF Ends(name, DotJar) THEN jar_execute(Encode(f)) ELSE IF Ends(name, DotClass) THEN <<Encode(f)>> ELSE <<>>

\* It is what it is to run.
LEMMA FileOpened ==
  ASSUME NEW f, IsPart(f) \/ (f.kind = "jar" /\ IsArchive(f.entries)), NEW name
  PROVE  OpenedIs(HandsOn(name, f), MeantBy(name, f))
  <1>1. CASE ~Ends(name, DotJar) /\ ~Ends(name, DotClass)
    BY <1>1 DEF HandsOn, MeantBy, OpenedIs
  <1>2. CASE ~Ends(name, DotJar) /\ Ends(name, DotClass)
    <2>1. HandsOn(name, f) = <<Encode(f)>> /\ MeantBy(name, f) = <<f>>
      BY <1>2 DEF HandsOn, MeantBy
    <2>2. <<f>> # <<>> /\ <<f>>[1] = f
      OBVIOUS
    <2>3. CASE IsPart(f)
      <3>1. Encode(f) = EncodePart(f)
        BY <2>3, PartType DEF Encode
      <3> QED
        BY <2>1, <2>2, <2>3, <3>1 DEF OpenedIs
    <2>4. CASE f.kind = "jar"
      BY <2>1, <2>2, <2>4 DEF OpenedIs
    <2> QED
      BY <2>3, <2>4
  <1>3. CASE Ends(name, DotJar)
    <2>1. HandsOn(name, f) = jar_execute(Encode(f))
      BY <1>3 DEF HandsOn
    <2>2. CASE IsPart(f)
      <3>1. PICK t \in Seq(Nat) : t = Encode(f) /\ (t # <<>> => t[1] # LocalSig)
        BY <2>2, PartType DEF Encode
      <3>2. t # <<>> => Head(t) = t[1]
        OBVIOUS
      <3>3. jar_execute(t) = <<>>
        BY <3>1, <3>2 DEF jar_execute
      <3>4. MeantBy(name, f) = <<>>
        BY <1>3, <2>2, PartType DEF MeantBy
      <3> QED
        BY <2>1, <3>1, <3>3, <3>4 DEF OpenedIs
    <2>3. CASE f.kind = "jar" /\ IsArchive(f.entries)
      <3>1. PICK es : es = Encoded(f.entries)
        OBVIOUS
      <3>2. Encode(f) = EncodeJar(es)
        BY <2>3, <3>1 DEF Encode
      <3>3. HandsOn(name, f) = IF MainClass(f.entries) = <<>> THEN <<>>
               ELSE jar_find_entry(EncodeJar(es), class_path(MainClass(f.entries)))
        BY <2>1, <2>3, <3>1, <3>2, ArchiveScanned, MainClassRead
      <3>4. MeantBy(name, f) = IF MainClass(f.entries) = <<>> THEN <<>>
               ELSE Stored(f.entries, class_path(MainClass(f.entries)))
        BY <1>3, <2>3 DEF MeantBy, class_path
      <3>5. OpenedIs(jar_find_entry(EncodeJar(es), class_path(MainClass(f.entries))),
                     Stored(f.entries, class_path(MainClass(f.entries))))
        BY <2>3, <3>1, EntryFound
      <3>6. OpenedIs(<<>>, <<>>)
        BY DEF OpenedIs
      <3> QED
        BY <3>3, <3>4, <3>5, <3>6
    <2> QED
      BY <2>2, <2>3
  <1> QED
    BY <1>1, <1>2, <1>3

-----------------------------------------------------------------------------
(* java *)

\* A member of the ramdisk is a part or an archive.
LEMMA MemberFile ==
  ASSUME Started, NEW name, MemberNamed(name) # <<>>, NEW f, f = MemberNamed(name)[1]
  PROVE  IsPart(f) \/ (f.kind = "jar" /\ IsArchive(f.entries))
  <1> DEFINE m == world.members
             named == {k \in DOMAIN m : m[k].name = name \/ <<DOT, SLASH>> \o m[k].name = name}
  <1>1. MemberNamed(name) = IF world.module /\ named # {} THEN <<m[Min(named)].file>> ELSE <<>>
    BY DEF MemberNamed
  <1>2. DOMAIN m = 1 .. Len(m) /\ Len(m) \in Nat
    <2>1. Len(Written(world)) = Len(m) /\ DOMAIN m = 1 .. Len(m) /\ Written(world) \in Seq(StoredFiles)
      BY WorldIs
    <2>2. PICK t \in Seq(StoredFiles) : t = Written(world)
      BY <2>1
    <2>3. Len(t) \in Nat
      OBVIOUS
    <2> QED
      BY <2>1, <2>2, <2>3
  <1>3. named \subseteq Nat /\ named \subseteq DOMAIN m
    BY <1>2
  <1>4. named # {}
    BY <1>1
  <1> HIDE DEF named
  <1>5. PICK j : j = Min(named) /\ j \in DOMAIN m
    BY <1>3, <1>4, MinNumber
  <1>6. f = m[j].file
    BY <1>1, <1>4, <1>5
  <1>7. PICK k \in DOMAIN Worlds : world = Worlds[k]
    BY DEF Started
  <1> QED
    BY <1>5, <1>6, <1>7, ProgramsAssumption

\* java opens what it hands on.
LEMMA JavaOpens ==
  ASSUME Started, main # "initrd", NEW name, Java(name)
  PROVE  opened' = IF MemberNamed(name) = <<>> THEN <<>> ELSE HandsOn(name, MemberNamed(name)[1])
  <1>1. Opened(name) = IF MemberNamed(name) = <<>> THEN <<>> ELSE <<Encode(MemberNamed(name)[1])>>
    BY OpensMember
  <1>2. PICK o : o = IF Ends(name, DotJar) \/ Ends(name, DotClass) THEN Opened(name) ELSE <<>>
    OBVIOUS
  <1>3. opened' = IF o # <<>> /\ Ends(name, DotJar) THEN jar_execute(o[1]) ELSE o
    BY <1>2 DEF Java
  <1>4. CASE MemberNamed(name) = <<>>
    BY <1>1, <1>2, <1>3, <1>4
  <1>5. CASE MemberNamed(name) # <<>>
    <2>1. PICK d : d = Encode(MemberNamed(name)[1]) /\ Opened(name) = <<d>>
      BY <1>1, <1>5
    <2>2. <<d>> # <<>> /\ <<d>>[1] = d
      OBVIOUS
    <2> QED
      BY <1>2, <1>3, <1>5, <2>1, <2>2 DEF HandsOn
  <1> QED
    BY <1>4, <1>5

\* What java opens are numbers.
LEMMA OpenStep == Started /\ Where /\ Openable /\ [Next]_vars => Openable'
  <1> SUFFICES ASSUME Started, Where, Openable, [Next]_vars PROVE Openable'
    OBVIOUS
  <1>1. ASSUME NEW name, Java(name) PROVE Openable'
    <2>1. main # "initrd"
      BY <1>1 DEF Java, Enter
    <2>2. opened' = IF MemberNamed(name) = <<>> THEN <<>> ELSE HandsOn(name, MemberNamed(name)[1])
      BY <1>1, <2>1, JavaOpens
    <2>3. CASE MemberNamed(name) = <<>>
      BY <2>2, <2>3 DEF Openable
    <2>4. CASE MemberNamed(name) # <<>>
      <3>1. PICK f : f = MemberNamed(name)[1]
        OBVIOUS
      <3>2. IsPart(f) \/ (f.kind = "jar" /\ IsArchive(f.entries))
        BY <2>4, <3>1, MemberFile
      <3>3. PICK d \in Seq(Nat) : d = Encode(f)
        BY <3>2, FileType
      <3>4. jar_execute(d) # <<>> => jar_execute(d)[1] \in Seq(Nat)
        BY JarGives
      <3>5. opened' = IF Ends(name, DotJar) THEN jar_execute(d) ELSE IF Ends(name, DotClass) THEN <<d>> ELSE <<>>
        BY <2>2, <2>4, <3>1, <3>3 DEF HandsOn
      <3>6. <<d>>[1] = d
        OBVIOUS
      <3> QED
        BY <3>3, <3>4, <3>5, <3>6 DEF Openable
    <2> QED
      BY <2>3, <2>4
  <1>2. ASSUME UNCHANGED opened PROVE Openable'
    BY <1>2 DEF Openable
  <1>3. CASE Ls \/ \E c \in world.commands : Cat(c[2])
    BY <1>2, <1>3 DEF Ls, Cat
  <1>4. CASE LoadInitrd \/ ReadConfig \/ DriverStep \/ Mounted \/ DiscStep \/ DiscAnswers
    BY <1>2, <1>4 DEF LoadInitrd, ReadConfig, DriverStep, Mounted, DiscStep, DiscAnswers
  <1>5. CASE Execute \/ ClassStep \/ JavaReturns
    BY <1>2, <1>5 DEF Execute, ClassStep, JavaReturns, mainVars
  <1>6. CASE (Drive /\ UNCHANGED <<mainVars, isoVars, classVars>>) \/ UNCHANGED vars
    BY <1>2, <1>6 DEF vars, mainVars
  <1> QED
    BY <1>1, <1>3, <1>4, <1>5, <1>6 DEF Next, Work, execute_command

\* Before the first command nothing is opened.
LEMMA CountedStart == Init => Openable /\ Counted
  BY ClassAssumption DEF Init, ClassInit, Heap!Init, Openable, Counted

-----------------------------------------------------------------------------

\* What the command that is done, or was the last, is to run.
JavaMeant == IF MemberNamed(Argument) = <<>> THEN <<>> ELSE Meant(MemberNamed(Argument)[1])

\* The loader is at a class that can be loaded, or has refused a text.
Loads(m) ==
    m # <<>> => /\ m[1].kind = "text" => at = "returned" /\ ran = NoCode
                /\ m[1].kind = "class" /\ Loadable(m[1].class) => Executing(m[1].class)

\* What has been run is what was to be.
RanAs(m) ==
    IF m = <<>> \/ m[1].kind = "text" THEN ran = NoCode
    ELSE m[1].kind = "class" /\ Loadable(m[1].class) =>
           ran = IF PoolSize(m[1].class) <= Min({MaxPool, HeapSize - HeapHdr})
                 THEN MainCode(m[1].class) ELSE NoCode

\* From the command to the prompt.
Runs(m) ==
    /\ main \in {"java", "class"} => OpenedIs(opened, m)
    /\ main = "java" => ran = NoCode
    /\ main = "class" => opened # <<>> /\ Loads(m)
    /\ Answered("java") => RanAs(m)

JavaInv == DOMAIN cp = 0 .. MaxPool /\ Runs(JavaMeant)

\* The invariant says what is wanted.
LEMMA JavaMeans == JavaInv => JavaRuns
  BY DEF JavaInv, Runs, RanAs, JavaRuns, JavaMeant

\* It is another file only with another command.
LEMMA MeantStays ==
  ASSUME UNCHANGED <<world, command>>
  PROVE  JavaMeant' = JavaMeant
  <1>1. Argument' = Argument
    BY DEF Argument
  <1>2. MemberNamed(Argument)' = MemberNamed(Argument)
    BY <1>1 DEF MemberNamed
  <1>3. PICK r : r = MemberNamed(Argument)
    OBVIOUS
  <1>4. Meant(r[1])' = Meant(r[1])
    BY <1>1 DEF Meant
  <1> QED
    BY <1>2, <1>3, <1>4 DEF JavaMeant

\* The loader stands where it stood.
LEMMA ExecutingStays ==
  ASSUME NEW c, Executing(c), UNCHANGED classVars
  PROVE  Executing(c)'
  <1>1. UNCHANGED <<request, data, off, at, cp, cp_count, n, attrs, method, ran>>
    BY DEF classVars, heapVars
  <1>2. PoolRead(c, Len(c.pool) + 1)' = PoolRead(c, Len(c.pool) + 1) /\ \A k : PoolRead(c, k)' = PoolRead(c, k)
    BY <1>1 DEF PoolRead
  <1>3. Stands(c) => Stands(c)'
    BY <1>1 DEF Stands, AtField, InField, AtMethod, InMethod
  <1>4. InPool(c) => InPool(c)'
    BY <1>1, <1>2 DEF InPool
  <1>5. PoolKnown(c) => PoolKnown(c)'
    BY <1>2 DEF PoolKnown
  <1>6. Walks(c)'
    BY <1>1, <1>3, <1>4, <1>5 DEF Executing, Walks
  <1> QED
    BY <1>1, <1>6 DEF Executing

\* It depends on the loader, the command and the file only.
LEMMA RunsStays ==
  ASSUME NEW m, Runs(m), UNCHANGED <<main, command, opened, classVars>>
  PROVE  Runs(m)'
  <1>1. UNCHANGED <<at, ran>>
    BY DEF classVars
  <1>2. Loads(m) => Loads(m)'
    <2>1. ASSUME Executing(m[1].class) PROVE Executing(m[1].class)'
      BY <2>1, ExecutingStays
    <2> QED
      BY <1>1, <2>1 DEF Loads
  <1>3. RanAs(m) => RanAs(m)'
    BY <1>1 DEF RanAs
  <1> QED
    BY <1>1, <1>2, <1>3 DEF Runs, Answered

\* The pool's entries stay as many.
LEMMA PoolStays ==
  ASSUME DOMAIN cp = 0 .. MaxPool, [Next]_vars
  PROVE  DOMAIN cp' = 0 .. MaxPool
  <1>1. CASE UNCHANGED loaderVars
    BY <1>1 DEF loaderVars
  <1>2. CASE class_execute(opened[1])
    BY <1>2 DEF class_execute
  <1>3. CASE Walk
    <2>1. CASE PoolEntry
      BY <2>1 DEF PoolEntry
    <2>2. CASE ~PoolEntry
      BY <1>3, <2>2 DEF Walk, Allocated, PoolDone, Header, Fields, Field, FieldAttribute, Methods, Method,
                        MethodAttribute, Done, walkVars
    <2> QED
      BY <2>1, <2>2
  <1>4. CASE JavaReturns
    BY <1>4 DEF JavaReturns
  <1> QED
    BY <1>1, <1>2, <1>3, <1>4, LoaderMoves

\* The loader is called with what is opened.
LEMMA LoadsBegins ==
  ASSUME NEW m, OpenedIs(opened, m), opened # <<>>, DOMAIN cp = 0 .. MaxPool, class_execute(opened[1])
  PROVE  Loads(m)'
  <1>1. CASE m # <<>> /\ opened = <<EncodePart(m[1])>> /\ IsPart(m[1])
    <2>1. PICK f, d : f = m[1] /\ d = EncodePart(f) /\ IsPart(f) /\ opened = <<d>>
      BY <1>1
    <2>2. opened[1] = d
      BY <2>1
    <2>3. class_execute(d)
      BY <2>2
    <2>4. CASE f.kind = "text"
      <3>1. f.text \in Seq(Nat) /\ ~Begins(f.text, <<ClassMagic>>) /\ d = f.text
        BY <2>1, <2>4 DEF IsPart, EncodePart
      <3>2. ~(Len(d) >= 4 /\ d[1] = ClassMagic)
        <4>1. ClassMagic \in Nat
          BY ClassAssumption
        <4>2. d # <<>> => d[1] # ClassMagic
          BY <3>1, <4>1, BeginsOne
        <4>3. d \in Seq(Nat) /\ (Len(d) >= 4 => d # <<>>)
          BY <3>1
        <4> QED
          BY <4>2, <4>3
      <3>3. at' = "returned" /\ ran' = NoCode
        BY <2>3, <3>2 DEF class_execute
      <3> QED
        BY <2>1, <2>4, <3>3 DEF Loads
    <2>5. CASE f.kind = "class"
      <3>1. IsClass(f.class) /\ d = EncodeClass(f.class)
        BY <2>1, <2>5 DEF IsPart, EncodePart
      <3>2. ASSUME Loadable(f.class) PROVE Executing(f.class)'
        BY <2>3, <3>1, <3>2, ExecutionBegins
      <3> QED
        BY <2>1, <2>5, <3>2 DEF Loads
    <2>6. CASE f.kind # "text" /\ f.kind # "class"
      BY <2>1, <2>6 DEF Loads
    <2> QED
      BY <2>4, <2>5, <2>6
  <1>2. CASE m # <<>> /\ m[1].kind = "jar"
    BY <1>2 DEF Loads
  <1> QED
    BY <1>1, <1>2 DEF OpenedIs

\* When the loader has returned it has run what it was to.
LEMMA LoadsEnds ==
  ASSUME NEW m, OpenedIs(opened, m), opened # <<>>, Loads(m), at = "returned"
  PROVE  RanAs(m)
  <1>1. m # <<>>
    BY DEF OpenedIs
  <1>2. CASE m[1].kind = "text"
    BY <1>1, <1>2 DEF Loads, RanAs
  <1>3. ASSUME m[1].kind = "class", Loadable(m[1].class)
        PROVE  ran = IF PoolSize(m[1].class) <= Min({MaxPool, HeapSize - HeapHdr}) THEN MainCode(m[1].class) ELSE NoCode
    <2>1. PICK c : c = m[1].class /\ Executing(c)
      BY <1>1, <1>3 DEF Loads
    <2>2. ran = Result(c) /\ IsClass(c)
      BY <2>1 DEF Executing, Walks
    <2>3. PICK p \in Nat : p = PoolSize(c)
      <3>1. 1 \in 1 .. Len(c.pool) + 1
        <4>1. Len(c.pool) \in Nat
          BY <2>2, PartsTyped
        <4> QED
          BY <4>1
      <3> QED
        BY <2>2, <3>1, PoolNumber
    <2>4. PICK a \in Nat, b \in Int : a = MaxPool /\ b = HeapSize - HeapHdr
      BY ClassAssumption
    <2>5. p <= Min({a, b}) <=> p <= a /\ p <= b
      <3> DEFINE least(x) == x \in {a, b} /\ \A y \in {a, b} : x <= y
      <3>1. Min({a, b}) = CHOOSE x \in {a, b} : \A y \in {a, b} : x <= y
        BY DEF Min
      <3>2. \E x \in {a, b} : \A y \in {a, b} : x <= y
        <4>1. CASE a <= b
          BY <4>1
        <4>2. CASE ~(a <= b)
          BY <4>2
        <4> QED
          BY <4>1, <4>2
      <3>3. least(Min({a, b}))
        BY <3>1, <3>2
      <3>4. PICK z : z = Min({a, b})
        OBVIOUS
      <3>5. z \in {a, b} /\ z <= a /\ z <= b
        BY <3>3, <3>4
      <3> QED
        BY <3>4, <3>5
    <2>6. PoolFits(c) <=> p <= a /\ p <= b
      BY <2>3, <2>4 DEF PoolFits
    <2> QED
      BY <2>1, <2>2, <2>3, <2>4, <2>5, <2>6 DEF Result
  <1> QED
    BY <1>1, <1>2, <1>3 DEF RanAs

\* A command opens its file.
LEMMA JavaBegins ==
  ASSUME Started, NEW name, Java(name)
  PROVE  Runs(JavaMeant)'
  <1>1. main = "answered" /\ main' = "java" /\ command' = <<"java", name>> /\ world' = world /\ ran' = NoCode
    BY DEF Java, Enter, hardware
  <1>2. opened' = IF MemberNamed(name) = <<>> THEN <<>> ELSE HandsOn(name, MemberNamed(name)[1])
    BY <1>1, JavaOpens
  <1>3. Argument' = name /\ MemberNamed(name)' = MemberNamed(name)
    BY <1>1 DEF Argument, MemberNamed
  <1>4. PICK r : r = MemberNamed(name)
    OBVIOUS
  <1>5. MemberNamed(Argument)' = r
    BY <1>1, <1>3, <1>4 DEF MemberNamed
  <1>6. Meant(r[1])' = MeantBy(name, r[1])
    BY <1>3 DEF Meant, MeantBy
  <1>7. JavaMeant' = IF r = <<>> THEN <<>> ELSE MeantBy(name, r[1])
    BY <1>5, <1>6 DEF JavaMeant
  <1>8. OpenedIs(opened', JavaMeant')
    <2>1. CASE r = <<>>
      BY <1>2, <1>4, <1>7, <2>1 DEF OpenedIs
    <2>2. CASE r # <<>>
      <3>1. IsPart(r[1]) \/ (r[1].kind = "jar" /\ IsArchive(r[1].entries))
        BY <1>4, <2>2, MemberFile
      <3>2. OpenedIs(HandsOn(name, r[1]), MeantBy(name, r[1]))
        BY <3>1, FileOpened
      <3> QED
        BY <1>2, <1>4, <1>7, <2>2, <3>2
    <2> QED
      BY <2>1, <2>2
  <1>9. Runs(JavaMeant)' <=>
           /\ main' \in {"java", "class"} => OpenedIs(opened', JavaMeant')
           /\ main' = "java" => ran' = NoCode
           /\ main' = "class" => opened' # <<>> /\ Loads(JavaMeant)'
           /\ Answered("java")' => RanAs(JavaMeant)'
    BY DEF Runs, OpenedIs
  <1> QED
    BY <1>1, <1>8, <1>9 DEF Answered

\* Every step of the kernel: what java runs is what it was to run.
LEMMA JavaStep == Started /\ Where /\ Held /\ Doing /\ JavaInv /\ [Next]_vars => JavaInv'
  <1> SUFFICES ASSUME Started, Where, Held, Doing, JavaInv, [Next]_vars PROVE JavaInv'
    OBVIOUS
  <1>1. DOMAIN cp = 0 .. MaxPool /\ DOMAIN cp' = 0 .. MaxPool /\ Runs(JavaMeant)
    BY PoolStays DEF JavaInv
  <1>2. PICK m : m = JavaMeant /\ Runs(m)
    BY <1>1
  <1>3. ASSUME UNCHANGED <<world, command>>, Runs(m)' PROVE JavaInv'
    <2>1. JavaMeant' = m
      BY <1>2, <1>3, MeantStays
    <2> QED
      BY <1>1, <1>3, <2>1 DEF JavaInv, Runs, Loads, RanAs
  <1>4. ASSUME UNCHANGED <<world, command, main, opened, classVars>> PROVE JavaInv'
    <2>1. Runs(m)'
      BY <1>2, <1>4, RunsStays
    <2> QED
      BY <1>3, <1>4, <2>1
  <1>5. ASSUME command'[1] # "java", main' \notin {"java", "class"} PROVE JavaInv'
    BY <1>1, <1>5 DEF JavaInv, Runs, Answered
  <1>6. ASSUME NEW name, Java(name) PROVE JavaInv'
    BY <1>1, <1>6, JavaBegins DEF JavaInv
  <1>7. CASE Ls
    BY <1>5, <1>7 DEF Ls, Enter
  <1>8. ASSUME NEW name, Cat(name) PROVE JavaInv'
    BY <1>5, <1>8 DEF Cat, Enter
  <1>9. CASE LoadInitrd \/ ReadConfig \/ Mounted
    BY <1>5, <1>9 DEF LoadInitrd, ReadConfig, Mounted, Doing, Boots
  <1>10. CASE DiscAnswers
    BY <1>5, <1>10 DEF DiscAnswers, Doing
  <1>11. CASE DriverStep \/ DiscStep
    BY <1>4, <1>11 DEF DriverStep, DiscStep, hardware
  <1>12. CASE Execute
    <2>1. main = "java" /\ UNCHANGED <<world, command, opened>> /\ OpenedIs(opened, m) /\ ran = NoCode
      BY <1>2, <1>12 DEF Execute, hardware, Runs
    <2>2. CASE opened = <<>>
      <3>1. main' = "answered" /\ UNCHANGED ran
        BY <1>12, <2>2 DEF Execute, classVars
      <3>2. m = <<>> \/ m[1].kind = "text" \/ m[1].kind = "jar"
        BY <2>1, <2>2 DEF OpenedIs
      <3>3. RanAs(m)'
        BY <2>1, <3>1, <3>2 DEF RanAs
      <3>4. Runs(m)'
        BY <3>1, <3>3 DEF Runs
      <3> QED
        BY <1>3, <2>1, <3>4
    <2>3. CASE opened # <<>>
      <3>1. main' = "class" /\ class_execute(opened[1])
        BY <1>12, <2>3 DEF Execute
      <3>2. Loads(m)'
        BY <1>1, <2>1, <2>3, <3>1, LoadsBegins
      <3>3. Runs(m)'
        BY <2>1, <2>3, <3>1, <3>2 DEF Runs, Answered
      <3> QED
        BY <1>3, <2>1, <3>3
    <2> QED
      BY <2>2, <2>3
  <1>13. CASE ClassStep
    <2>1. Walk /\ UNCHANGED <<world, command, opened, main>>
      BY <1>13 DEF ClassStep, mainVars
    <2>2. at # "idle" /\ at # "returned"
      BY <2>1 DEF Walk, Allocated, PoolEntry, PoolDone, Header, Fields, Field, FieldAttribute, Methods, Method,
                  MethodAttribute, Done
    <2>3. main = "class"
      BY <2>2 DEF Where
    <2>4. Loads(m)'
      <3>1. ASSUME Executing(m[1].class) PROVE Executing(m[1].class)'
        BY <2>1, <3>1, LoaderWalks
      <3>2. Loads(m)
        BY <1>2, <2>3 DEF Runs
      <3> QED
        BY <2>2, <3>1, <3>2 DEF Loads
    <2>5. Runs(m)'
      BY <1>2, <2>1, <2>3, <2>4 DEF Runs, Answered
    <2> QED
      BY <1>3, <2>1, <2>5
  <1>14. CASE JavaReturns
    <2>1. main = "class" /\ at = "returned" /\ main' = "answered" /\ UNCHANGED <<world, command, opened, ran>>
      BY <1>14 DEF JavaReturns, hardware
    <2>2. RanAs(m)
      BY <1>2, <2>1, LoadsEnds DEF Runs
    <2>3. RanAs(m)'
      BY <2>1, <2>2 DEF RanAs
    <2>4. Runs(m)'
      BY <2>1, <2>3 DEF Runs
    <2> QED
      BY <1>3, <2>1, <2>4
  <1>15. CASE (Drive /\ UNCHANGED <<mainVars, isoVars, classVars>>) \/ UNCHANGED vars
    BY <1>4, <1>15 DEF vars, mainVars
  <1> QED
    BY <1>6, <1>7, <1>8, <1>9, <1>10, <1>11, <1>12, <1>13, <1>14, <1>15 DEF Next, Work, execute_command

\* `java' runs the main method, and only that, of the class that is meant, and
\* nothing when there is none: JavaRuns, for any archives and classes, any heap
\* and any largest pool.
THEOREM JavaRun == Spec => []JavaRuns
  <1> DEFINE Inv == Started /\ Where /\ Held /\ Doing /\ JavaInv
  <1>1. Init => Inv
    <2>1. Init => Doing
      BY DEF Init, Doing
    <2>2. Init => Held
      BY DEF Init, ClassInit, Heap!Init, Held, Loops, Empty_handed
    <2>3. Init => JavaInv
      BY DEF Init, ClassInit, JavaInv, Runs, Answered
    <2> QED
      BY <2>1, <2>2, <2>3, StartedStart, FilesStart
  <1>2. Inv /\ [Next]_vars => Inv'
    BY StartedStep, WhereStep, HeldStep, DoingStep, JavaStep
  <1>3. Inv => JavaRuns
    BY JavaMeans
  <1> QED
    BY <1>1, <1>2, <1>3, PTL DEF Spec

-----------------------------------------------------------------------------
(* The types, and what the loader asks of the heap *)

\* Everything the files keep has its type, for any worlds: the indices into the packet, the sector
\* and the class file are never beyond them, no counter of the loader goes below
\* zero, and the heap is asked for no more than the largest pool.
THEOREM FilesTyped == Spec => []TypeOK
  <1> DEFINE Inv == Started /\ Where /\ Scanned /\ WholeInv /\ Openable /\ Counted
  <1>1. Init => Inv
    BY StartedStart, FilesStart, WholeStart, CountedStart
  <1>2. Inv /\ [Next]_vars => Inv'
    BY StartedStep, WhereStep, ScannedStep, WholeStep, OpenStep, CountedStep
  <1>3. Inv => TypeOK
    <2> SUFFICES ASSUME Inv PROVE TypeOK
      OBVIOUS
    <2>1. (phase = "data") = (words # <<>>)
      BY DEF WholeInv, DriveTyped
    <2>2. AtapiTypeOK
      BY <2>1 DEF WholeInv, DriveTyped, Scanned, AtapiTypeOK
    <2>3. ClassTypeOK
      BY DEF Counted, Where, Loops, ClassTypeOK
    <2>4. (at # "idle") = (main = "class")
      BY DEF Where
    <2>5. /\ fs \in {"idle", "pvd", "record", "content", "check", "list"}
          /\ main \in {"initrd", "config", "mount", "answered", "ls", "cat", "java", "class"}
          /\ (fs # "idle") => pc \in Reading
      BY DEF Where, Waiting
    <2> QED
      BY <2>2, <2>3, <2>4, <2>5 DEF TypeOK, Reading
  <1> QED
    BY <1>1, <1>2, <1>3, PTL DEF Spec

\* To the heap the loader is the caller the heap's own promise is made for
\* (Allocator, which module Heap implements): it asks for one block at a time,
\* of a size that may be asked for, waits for the answer, and releases only what
\* it holds.
THEOREM LoaderUsesHeap == Spec => Heap!Spec
  <1> DEFINE Inv == Started /\ Where /\ Openable /\ Counted
  <1>1. Init => Inv /\ Heap!Init
    BY StartedStart, FilesStart, CountedStart DEF Init, ClassInit
  <1>2. Inv /\ [Next]_vars => Inv'
    BY StartedStep, WhereStep, OpenStep, CountedStep
  <1>3. Inv /\ [Next]_vars => [Heap!Next]_(Heap!vars)
    <2> SUFFICES ASSUME Inv, [Next]_vars PROVE [Heap!Next]_(Heap!vars)
      OBVIOUS
    <2>1. CASE UNCHANGED loaderVars
      BY <2>1 DEF loaderVars, heapVars, Heap!vars
    <2>2. CASE opened # <<>> /\ class_execute(opened[1])
      <3> DEFINE d == opened[1]
      <3>1. d \in Seq(Nat)
        BY <2>2 DEF Openable
      <3>2. CASE Len(d) >= 4 /\ d[1] = ClassMagic /\ d[4] <= MaxPool
        <4>1. d[4] \in 0 .. MaxPool
          BY <3>1, <3>2, ClassAssumption
        <4>2. Heap!Ask(d[4])
          BY <2>2, <3>2 DEF class_execute
        <4> QED
          BY <4>1, <4>2 DEF Heap!Next
      <3>3. CASE ~(Len(d) >= 4 /\ d[1] = ClassMagic /\ d[4] <= MaxPool)
        BY <2>2, <3>3 DEF class_execute, heapVars, Heap!vars
      <3> QED
        BY <3>2, <3>3
    <2>3. CASE Allocated
      BY <2>3 DEF Allocated, Heap!Next
    <2>4. CASE Done
      BY <2>4 DEF Done, Heap!Next
    <2>5. CASE Walk /\ ~Allocated /\ ~Done
      BY <2>5, WalkKeeps DEF heapVars, Heap!vars
    <2>6. CASE JavaReturns
      BY <2>6 DEF JavaReturns, heapVars, Heap!vars
    <2> QED
      BY <2>1, <2>2, <2>3, <2>4, <2>5, <2>6, LoaderMoves
  <1> QED
    BY <1>1, <1>2, <1>3, PTL DEF Spec, Heap!Spec
=============================================================================
