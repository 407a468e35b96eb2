------------------------------ MODULE MCFiles -------------------------------
(* Machines with and without a drive, ramdisks with configuration files,     *)
(* classes and archives.  Sectors of four words, packets of two, blocks of   *)
(* four units.                                                               *)
EXTENDS Files

T == 10
K == 11
U == 12
A == 13
B == 14
C == 15
M == 16
J == 17
I == 20
X == 21
Bell == 99

MCLetters == 10 .. 30
MCTheme == <<T>>
MCCore == <<K, T>>
MCAutostart == <<U>>
MCManifest == <<M, SLASH, M>>
MCKeyMain == <<M, A>>
MCDotJar == <<DOT, J>>
MCDotClass == <<DOT, C>>
MCNameMain == <<M, I>>
MCNameCode == <<C>>
MCInitYc == <<I, DOT, U>>

MCJunk == [length |-> 255, name |-> <<Bell>>, lba |-> 255, size |-> 0, dir |-> TRUE, pvd |-> FALSE]

-----------------------------------------------------------------------------
(* Discs and drives *)

Entry(name, text, length) == [name |-> name, text |-> text, length |-> length, dir |-> FALSE]
Itself(char) == [name |-> <<char>>, text |-> <<>>, length |-> 1, dir |-> TRUE]

\* A file of two sectors, one whose name begins like it, and a second sector.
Directory == << <<Itself(NUL), Itself(NL), Entry(<<A, SEMI, X>>, <<A, NL, B, Bell, TAB>>, 1),
                  Entry(<<A, B, SEMI>>, <<X>>, 1)>>,
                <<Entry(<<B, SEMI>>, <<B>>, 2)>> >>

Plugged(kinds) == [p \in Positions |-> kinds[p[1] * 2 + p[2] + 1]]
None    == Plugged(<<"none", "none", "none", "none">>)
Master  == Plugged(<<"cdrom", "none", "none", "none">>)
Second  == Plugged(<<"disk", "none", "cdrom", "none">>)
Slave   == Plugged(<<"disk", "cdrom", "none", "none">>)

-----------------------------------------------------------------------------
(* Ramdisks *)

TextFile(chars) == [kind |-> "text", text |-> chars]
File(name, file) == [name |-> name, dir |-> FALSE, file |-> file]
Root == [name |-> <<>>, dir |-> TRUE, file |-> TextFile(<<>>)]

Disc(kinds, entered) ==
    [module |-> TRUE, members |-> <<Root, File(<<B>>, TextFile(<<B, CR, NL>>))>>, devices |-> kinds,
     sectors |-> Directory, commands |-> entered]

Ramdisk(members, entered) ==
    [module |-> TRUE, members |-> <<Root>> \o members, devices |-> None,
     sectors |-> Directory, commands |-> entered]

Discs == <<
    Disc(Master, {<<"ls", <<>>>>}),
    Disc(Master, {<<"cat", <<X>>>>}),
    Disc(Master, {<<"cat", <<A>>>>}),
    Disc(Master, {<<"cat", <<SLASH, A, B>>>>}),
    Disc(Second, {<<"ls", <<>>>>}),
    Disc(Slave, {<<"ls", <<>>>>, <<"cat", <<A>>>>, <<"cat", <<B>>>>}),
    [Disc(None, {<<"ls", <<>>>>, <<"cat", <<B>>>>}) EXCEPT !.module = FALSE] >>

\* Lines of one, two, no and too many characters, both kinds of line ends, and
\* a last line with and without one.
Configs == <<
    <<T, EQ, A, NL, K, T, EQ, B, CR, NL, U, EQ, X, NL>>,
    <<T, X, EQ, A, EQ, B, NL, NL, K, EQ, A, NL, U, EQ>>,
    <<EQ, T, NL, T, EQ, A, B, C, X, X, X, NL, K, T, EQ, A>>,
    <<>>, <<T>> >>

Configured == [k \in DOMAIN Configs |->
    Ramdisk(<<File(<<A>>, TextFile(<<X, NL, X, X, X>>)), File(MCInitYc, TextFile(Configs[k])),
              File(<<B>>, TextFile(<<X>>))>>,
            {<<"ls", <<>>>>, <<"cat", <<B>>>>, <<"cat", <<DOT, SLASH, A>>>>})]

-----------------------------------------------------------------------------
(* Classes and archives *)

Utf(text) == [tag |-> Utf8, value |-> text]
Pool == << Utf(MCNameMain), [tag |-> Long, value |-> <<0, 7>>], Utf(MCNameCode),
           [tag |-> Class, value |-> <<4>>], Utf(<<X>>) >>
CodeAttr(code) == [name |-> 4, payload |-> <<1, 1, Len(code)>> \o code]
OtherAttr == [name |-> 6, payload |-> <<4>>]
MainMethod(attributes) == [name |-> 1, attrs |-> attributes]
Constructor == [name |-> 6, attrs |-> <<CodeAttr(<<70>>)>>]

Program(pool, methods) ==
    [pool |-> pool, interfaces |-> 1, fields |-> <<<<>>, <<0, 2>>>>, methods |-> methods]
Runs == Program(Pool, <<Constructor, MainMethod(<<OtherAttr, CodeAttr(<<77, 78>>)>>)>>)
Overloaded ==
    Program(Pool, <<MainMethod(<<>>), MainMethod(<<CodeAttr(<<>>)>>), MainMethod(<<CodeAttr(<<80>>)>>),
                   Constructor>>)
NoMain == Program(Pool, <<Constructor>>)
\* More entries than the heap has room for, and than the loader accepts.
Roomy == Program(Pool \o <<Utf(<<X>>)>>, Runs.methods)
TooLarge == Program(Pool \o <<Utf(<<X>>), Utf(<<X>>)>>, Runs.methods)
Handles == Program([Pool EXCEPT ![2] = [tag |-> 15, value |-> <<6, 1>>]], Runs.methods)

ClassOf(c) == [kind |-> "class", class |-> c]
Path == <<A, DOT, C>>
RunPath == {<<"java", Path>>}

Classes == [k \in 1 .. 6 |->
    Ramdisk(<<File(Path, ClassOf(<<Runs, Overloaded, NoMain, Roomy, TooLarge, Handles>>[k])),
              File(<<B, DOT, C>>, ClassOf(Runs))>>,
            RunPath \union {<<"java", <<B, DOT, C>>>>, <<"java", <<DOT, C>>>>})]

\* Every way a class file can end too early.
Whole == EncodeClass(Runs)
Cut == [k \in 1 .. Len(Whole) - 1 |->
    Ramdisk(<<File(Path, [kind |-> "units", text |-> SubSeq(Whole, 1, k)])>>, RunPath)]

Packed(name, packing, file) == [name |-> name, packing |-> packing, extra |-> 1, file |-> file]
ManifestOf(packing, text) == Packed(MCManifest, packing, TextFile(text))
Named == <<B, NL, M, A, SPACE, B, DOT, A, NL, M, A, B, NL>>
Unfinished == <<M, A, TAB, B, DOT, A>>
\* A line that is cut, then a line and a class name of the largest length.
Longest == <<X, X, X, X, X, X, X, X, M, A, B, NL, M, A, A, DOT, B, C, B, C, NL>>
LongEntry == Packed(<<A, SLASH, B, C, B, C>> \o MCDotClass, "stored", ClassOf(Runs))
ProgramEntry(packing) == Packed(<<B, SLASH, A>> \o MCDotClass, packing, ClassOf(Runs))
Readme(packing) == Packed(<<X>>, packing, TextFile(<<X>>))

Archives == <<
    <<ManifestOf("stored", Named), Readme("deflated"), ProgramEntry("stored")>>,
    <<Readme("stored"), ProgramEntry("stored"), ManifestOf("stored", Unfinished)>>,
    <<ManifestOf("stored", Named), ProgramEntry("deflated"), ProgramEntry("stored")>>,
    <<ManifestOf("stored", Named), Readme("streamed"), ProgramEntry("stored")>>,
    <<ManifestOf("deflated", Named), ProgramEntry("stored")>>,
    <<ManifestOf("stored", <<M, A>>), ProgramEntry("stored")>>,
    <<ProgramEntry("streamed"), ManifestOf("stored", Named)>>,
    <<ManifestOf("stored", Longest), ProgramEntry("stored"), LongEntry>>,
    <<Packed(<<X>>, "streamed", TextFile(<<>>)), ManifestOf("stored", Named), ProgramEntry("stored")>>,
    <<ProgramEntry("stored")>> >>

JarPath == <<A, DOT, J>>
Jars == [k \in DOMAIN Archives |->
    Ramdisk(<<File(JarPath, [kind |-> "jar", entries |-> Archives[k]])>>,
            {<<"java", JarPath>>, <<"java", <<X, DOT, J>>>>})]

MCWorlds == Discs \o Configured \o Classes \o Cut \o Jars
=============================================================================
