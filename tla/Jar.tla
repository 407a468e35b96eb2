--------------------------------- MODULE Jar --------------------------------
(***************************************************************************)
(* JAR archives (src/src/runtime/jar.c:29-62, 214-322): the walk over the  *)
(* local headers, the manifest and the name of the class file.  A local    *)
(* header is six units: signature, compression, the two sizes, the lengths *)
(* of the name and of the extra field.                                     *)
(***************************************************************************)
EXTENDS Text

CONSTANTS
    LocalSig, CentralSig,   (* ZIP_LOCAL_HEADER_SIG, ZIP_CENTRAL_DIR_SIG   *)
    ManifestMax, ClassMax   (* characters kept of a line of the manifest   *)
                            (* (255) and of a class name (127)             *)

ASSUME JarAssumption ==
    /\ NUL \in Nat /\ LocalSig \in Nat \ {0} /\ CentralSig \in Nat \ {LocalSig}
    /\ ManifestMax \in Nat /\ ClassMax \in Nat
    /\ KeyMain \in Seq(Int) /\ Len(KeyMain) \in 1 .. ManifestMax

HeaderUnits == 6

-----------------------------------------------------------------------------
(* The format.  An entry [name, packing, extra, file] is stored, deflated  *)
(* (then its bytes mean nothing here), or stored with its sizes behind its *)
(* data, as a tool does that writes without seeking.                       *)

Deflated(file) == [k \in 1 .. (Len(file) + 1) \div 2 |-> NUL]

EncodeJarEntry(e) ==
    LET payload == IF e.packing = "deflated" THEN Deflated(e.file) ELSE e.file
        told(k) == IF e.packing = "streamed" THEN 0 ELSE k
    IN  <<LocalSig, IF e.packing = "deflated" THEN 8 ELSE 0, told(Len(payload)), told(Len(e.file)),
          Len(e.name), e.extra>>
        \o e.name \o [k \in 1 .. e.extra |-> NUL] \o payload
        \o (IF e.packing = "streamed" THEN <<Len(payload), Len(e.file)>> ELSE <<>>)

EncodeJar(entries) ==
    FlattenSeq([k \in DOMAIN entries |-> EncodeJarEntry(entries[k])])
    \o [k \in 1 .. HeaderUnits + 1 |-> CentralSig]

-----------------------------------------------------------------------------
(* The code.  An offset is the number of units in front of it.             *)

\* Behind the archive lies something else, here NULs.
Slice(jar, offset, size) ==
    [k \in 1 .. size |-> IF offset + k <= Len(jar) THEN jar[offset + k] ELSE NUL]

LocalHeader(jar, offset) ==
    LET name_len == jar[offset + 5]
    IN [signature |-> jar[offset + 1], compression |-> jar[offset + 2],
        compressed_size |-> jar[offset + 3], uncompressed_size |-> jar[offset + 4],
        name |-> Slice(jar, offset + HeaderUnits, name_len),
        data_off |-> offset + HeaderUnits + name_len + jar[offset + 6]]

\* The local headers that the walk reaches: it stops at the first thing that
\* is none, and an entry that tells no size is none in its data.
Entries(jar) ==
    LET from[offset \in Nat] ==
            IF offset + HeaderUnits >= Len(jar) \/ jar[offset + 1] # LocalSig THEN <<>>
            ELSE LET h == LocalHeader(jar, offset)
                 IN <<h>> \o from[h.data_off + h.compressed_size]
    IN from[0]

\* The first entry of that name, unless it is compressed: <<data>>, or <<>>.
jar_find_entry(jar, name) ==
    LET e == Entries(jar)
        named == {k \in DOMAIN e : e[k].name = name}
        h == e[Min(named)]
    IN IF named = {} \/ h.compression # 0 THEN <<>>
       ELSE <<Slice(jar, h.data_off, h.uncompressed_size)>>

SkipBlanks(val) ==
    LET text == {k \in DOMAIN val : val[k] \notin {SPACE, TAB}}
    IN IF text = {} THEN <<>> ELSE SubSeq(val, Min(text), Len(val))

MainKept(line, c) == IF Len(line) < ManifestMax THEN Append(line, c) ELSE line

\* The last character is part of its line even if it does not end it.
LastLine(data, line) ==
    IF data # <<>> /\ Last(data) \notin LineEnd THEN Append(line, Last(data)) ELSE line

MainValue(line) == Upto(SkipBlanks(SubSeq(line, Len(KeyMain) + 1, Len(line))), ClassMax)

parse_manifest_for_main(data) ==
    LET from[p \in (Nat \ {0}) \X Seq(Int)] ==
            LET i == p[1]  line == p[2]
                whole == IF i = Len(data) THEN LastLine(data, line) ELSE line
            IN IF i < Len(data) /\ data[i] \notin LineEnd THEN from[<<i + 1, MainKept(line, data[i])>>]
               ELSE IF Begins(whole, KeyMain) THEN MainValue(whole)
               ELSE IF i >= Len(data) THEN <<>> ELSE from[<<i + 1, <<>>>>]
    IN from[<<1, <<>>>>]

class_path(main_class) == ReplaceAll(main_class, DOT, SLASH) \o DotClass

\* Up to the call of class_execute, with <<the class file>>.
jar_scan_entries(jar) ==
    LET e == Entries(jar)
        manifests == {k \in DOMAIN e : Begins(e[k].name, Manifest)}
        h == e[Min(manifests)]
        main_class == parse_manifest_for_main(Slice(jar, h.data_off, h.uncompressed_size))
    IN IF manifests = {} \/ main_class = <<>> THEN <<>>
       ELSE jar_find_entry(jar, class_path(main_class))

jar_execute(jar) ==
    IF jar = <<>> \/ Head(jar) # LocalSig THEN <<>> ELSE jar_scan_entries(jar)

-----------------------------------------------------------------------------
\* What is read for a text when that is compressed: as much as its size tells,
\* with what follows in the archive.
Instead(entries, k) ==
    Slice(Deflated(entries[k].file) \o EncodeJar(SubSeq(entries, k + 1, Len(entries))),
          0, Len(entries[k].file))
=============================================================================
