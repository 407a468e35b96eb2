-------------------------------- MODULE Files -------------------------------
(***************************************************************************)
(* The kernel's files: kernel_main from the ramdisk to the mount           *)
(* (src/src/main.c:707-752) and the commands ls, cat and java              *)
(* (main.c:255-365), over the ramdisk, the disc, the heap and the loader.  *)
(* The main program is sequential; what interleaves with it is the drive.  *)
(***************************************************************************)
EXTENDS Iso9660, Initrd, YanaseConfig, Jar, ClassLoader

CONSTANTS
    Worlds,         (* numbered [module, members, devices, sectors,        *)
                    (* commands]: what the machine was started with, and   *)
                    (* what may be entered                                 *)
    InitYc          (* "init.yc"                                           *)

VARIABLES
    world,          (* the world of this machine                           *)
    memory,         (* what the boot loader has put behind mod_start       *)
    initrd_addr,    (* 1 when initrd_init has found it, else 0             *)
    main,           (* where the main program is                           *)
    opened,         (* <<class file>> to execute, or <<>>                  *)
    settings,       (* what the configuration file has been read as        *)
    command,        (* the command being executed, <<verb, argument>>      *)
    listed,         (* the lines printed of the ramdisk: <<name, dir>>     *)
    shown           (* the characters printed of a file                    *)

mainVars == <<world, memory, initrd_addr, opened, main, settings, command, listed, shown>>
vars == <<mainVars, atapiVars, isoVars, classVars>>

-----------------------------------------------------------------------------
(* The files of a world: text, class files, JAR archives, or the units of  *)
(* a damaged file.                                                         *)

EncodePart(f) == IF f.kind = "class" THEN EncodeClass(f.class) ELSE f.text

Encoded(entries) ==
    [k \in DOMAIN entries |-> [name |-> entries[k].name, packing |-> entries[k].packing,
                               extra |-> entries[k].extra, file |-> EncodePart(entries[k].file)]]

Encode(f) ==
    IF f.kind = "jar"
    THEN EncodeJar(Encoded(f.entries)) ELSE EncodePart(f)

Written(w) == [k \in DOMAIN w.members |-> [name |-> w.members[k].name, dir |-> w.members[k].dir,
                                          file |-> Encode(w.members[k].file)]]
Loaded(w) == Archive(Written(w))

ASSUME WorldsAssumption ==
    \A k \in DOMAIN Worlds :
        /\ Worlds[k].module \in BOOLEAN /\ Written(Worlds[k]) \in Seq(StoredFiles)
        /\ IsDisc(Worlds[k].sectors)
        /\ \A c \in Worlds[k].commands : c[2] \in Seq(Int)

Init ==
    /\ \E k \in DOMAIN Worlds : world = Worlds[k]
    /\ memory = Loaded(world) /\ initrd_addr = 0 /\ opened = <<>> /\ main = "initrd"
    /\ settings = <<>> /\ command = <<"none", <<>>>> /\ listed = <<>> /\ shown = <<>>
    /\ devices = world.devices /\ disc = Layout(world.sectors)
    /\ AtapiInit /\ IsoInit /\ ClassInit

-----------------------------------------------------------------------------
(* kernel_main *)

hardware == <<devices, disc, world, memory>>

\* initrd_init, if the boot loader has left a module.
LoadInitrd ==
    /\ main = "initrd" /\ main' = "config"
    /\ initrd_addr' = IF world.module THEN 1 ELSE 0
    /\ UNCHANGED <<hardware, opened, settings, command, listed, shown, driveVars, driverVars,
                   trouble, isoVars, classVars>>

\* No ramdisk is one that holds nothing.
ramdisk == IF initrd_addr = 0 THEN <<>> ELSE memory

\* init.yc is parsed; without one the ramdisk is listed.
ReadConfig ==
    LET f == initrd_read_file(ramdisk, InitYc)
    IN  /\ main = "config" /\ main' = "mount" /\ iso9660_mount
        /\ IF f # NotFound
           THEN settings' = parse_yanase_config(Bytes(memory, f)) /\ UNCHANGED listed
           ELSE listed' = initrd_list(ramdisk) /\ UNCHANGED settings
        /\ UNCHANGED <<hardware, initrd_addr, opened, command, shown, isoVars, classVars>>

\* The driver scans the busses or reads a sector.
DriverStep ==
    /\ Driver
    /\ UNCHANGED <<hardware, initrd_addr, opened, main, settings, command, listed, shown,
                   isoVars, classVars>>

Mounted ==
    /\ main = "mount" /\ pc = "mounted"
    /\ main' = "answered" /\ pc' = "idle"
    /\ UNCHANGED <<hardware, initrd_addr, opened, settings, command, listed, shown, driveVars,
                   selected, current_atapi_base, lba, i, buf, tried, fs_ready, trouble, isoVars, classVars>>

-----------------------------------------------------------------------------
(* execute_command *)

\* The main program is at its prompt and takes up `verb argument'.
Enter(verb, argument) ==
    /\ main = "answered"
    /\ <<verb, argument>> \in world.commands
    /\ command' = <<verb, argument>>
    /\ UNCHANGED <<hardware, initrd_addr, settings>>

NoDisc == UNCHANGED <<driveVars, driverVars, trouble, isoVars>>

\* The ramdisk first, then the disc if one was found at boot.
Ls ==
    /\ Enter("ls", <<>>) /\ listed' = initrd_list(ramdisk)
    /\ UNCHANGED <<opened, shown, classVars>>
    /\ IF fs_ready = 1 THEN iso_list_directory /\ main' = "ls"
                       ELSE NoDisc /\ main' = "answered"

\* initrd_read_file, and what it has found: <<contents>> or <<>>.
Opened(name) ==
    LET f == initrd_read_file(ramdisk, name)
    IN IF f = NotFound THEN <<>> ELSE <<Bytes(memory, f)>>

\* The ramdisk first; the disc is asked whether one was found or not.
Cat(name) ==
    /\ Enter("cat", name) /\ UNCHANGED <<opened, listed, classVars>>
    /\ \E f \in {Opened(name)} :
          IF f # <<>>
          THEN NoDisc /\ main' = "answered" /\ shown' = Show(f[1])
          ELSE iso9660_read_file(name) /\ main' = "cat" /\ shown' = <<>>

DiscStep ==
    /\ IsoStep
    /\ UNCHANGED <<hardware, initrd_addr, opened, main, settings, command, listed, shown, classVars>>

DiscAnswers ==
    /\ main \in {"ls", "cat"} /\ fs = "idle" /\ main' = "answered"
    /\ shown' = IF main = "cat" /\ found = "file" THEN Show(Texts(out)) ELSE shown
    /\ UNCHANGED <<hardware, initrd_addr, opened, settings, command, listed, driveVars, driverVars,
                   trouble, isoVars, classVars>>

\* The class file, or the one jar_execute finds in the archive.  A file that is
\* neither by its name is not looked for.
Java(name) ==
    /\ Enter("java", name) /\ NoDisc /\ shown' = <<>> /\ main' = "java"
    /\ \E f \in {IF Ends(name, DotJar) \/ Ends(name, DotClass) THEN Opened(name) ELSE <<>>} :
          opened' = IF f # <<>> /\ Ends(name, DotJar) THEN jar_execute(f[1]) ELSE f
    /\ ran' = NoCode
    /\ UNCHANGED <<listed, heapVars, data, off, at, cp, cp_count, n, attrs, method>>

Execute ==
    /\ main = "java" /\ at = "idle"
    /\ IF opened = <<>> THEN main' = "answered" /\ UNCHANGED classVars
                        ELSE main' = "class" /\ class_execute(opened[1])
    /\ UNCHANGED <<hardware, initrd_addr, opened, settings, command, listed, shown, driveVars,
                   driverVars, trouble, isoVars>>

ClassStep == Walk /\ UNCHANGED <<mainVars, atapiVars, isoVars>>

JavaReturns ==
    /\ main = "class" /\ at = "returned" /\ main' = "answered" /\ at' = "idle"
    /\ UNCHANGED <<hardware, initrd_addr, opened, settings, command, listed, shown, driveVars,
                   driverVars, trouble, isoVars, heapVars, data, off, cp, cp_count, n, attrs, method, ran>>

execute_command == Ls \/ \E c \in world.commands : Cat(c[2]) \/ Java(c[2])

Work ==
    \/ LoadInitrd \/ ReadConfig \/ DriverStep \/ Mounted \/ DiscStep \/ DiscAnswers
    \/ Execute \/ ClassStep \/ JavaReturns

Next == execute_command \/ Work \/ (Drive /\ UNCHANGED <<mainVars, isoVars, classVars>>)

\* The processor goes on; of the drive nothing is assumed.
Spec == Init /\ [][Next]_vars /\ WF_vars(Work)

-----------------------------------------------------------------------------
(* Properties *)

TypeOK ==
    /\ AtapiTypeOK /\ ClassTypeOK
    /\ fs \in {"idle", "pvd", "record", "content", "check", "list"}
    /\ main \in {"initrd", "config", "mount", "answered", "ls", "cat", "java", "class"}
    /\ (fs # "idle") =>
         pc \in {"select", "command", "offer", "send", "settle", "ready", "data", "return"}
    /\ (at # "idle") = (main = "class")

Answered(verb) == main = "answered" /\ command[1] = verb
Argument == command[2]

\* The first member of the ramdisk with that name, or none: <<>>.
MemberNamed(name) ==
    LET m == world.members
        named == {k \in DOMAIN m : m[k].name = name \/ <<DOT, SLASH>> \o m[k].name = name}
    IN IF world.module /\ named # {} THEN <<m[Min(named)].file>> ELSE <<>>

\* A drive that is its bus's master and has done as asked throughout the call.
Healthy == sound /\ devices[<<base, 0>>] = "cdrom"

\* When the configuration has been read, the settings are those of init.yc,
\* whatever lies before it in the ramdisk and however its lines end; without
\* the file there are none (main.c:175-239, 732-744).
ReadsSettings ==
    main \notin {"initrd", "config"} =>
        settings = IF MemberNamed(InitYc) = <<>> THEN <<>>
                   ELSE Settings(Encode(MemberNamed(InitYc)[1]))

\* The name of an entry of the disc without its version.
Plain(e) == SubSeq(e.name, 1, Find(e.name, SEMI) - 1)

\* `ls' lists every member of the ramdisk, whatever their sizes (initrd.c:46-79),
\* and, with a healthy drive, every entry of the disc's root directory, however
\* many sectors it has (iso9660.c:141-185).
ListsAll ==
    Answered("ls") =>
        /\ world.module => listed = [k \in DOMAIN world.members |->
                                  <<<<DOT, SLASH>> \o world.members[k].name, world.members[k].dir>>]
        /\ fs_ready = 1 /\ Healthy =>
             LET e == FlattenSeq(world.sectors)
             IN [k \in DOMAIN out |-> Line(out[k])] = [k \in DOMAIN e |-> <<Plain(e[k]), e[k].dir>>]

\* `cat' shows the ramdisk's file of that name; if there is none, the first of
\* the entries in the first sector of the disc's root directory with whose name
\* the argument begins, whole, if it is no directory: a file behind an entry
\* that is such a beginning of its name cannot be shown, its place is taken.
\* Nothing if there is no such entry (main.c:291-328, iso9660.c:63-99, 197-216).
CatShowsFile ==
    Answered("cat") =>
        IF MemberNamed(Argument) # <<>> THEN shown = Show(Encode(MemberNamed(Argument)[1]))
        ELSE LET name == IF Begins(Argument, <<SLASH>>) THEN Tail(Argument) ELSE Argument
                 e == world.sectors[1]
                 like == {k \in DOMAIN e : Begins(name, Plain(e[k]))}
             IN  Healthy /\ name # <<>> =>
                    IF like = {} THEN found = "none"
                    ELSE LET first == e[Min(like)]
                         IN ~first.dir => found = "file" /\ shown = Show(first.text)

-----------------------------------------------------------------------------
\* The class a JAR archive's manifest names, if the walk gets there: an entry
\* whose sizes stand behind its data hides what comes after it.
Reached(entries) ==
    LET hides == {k \in DOMAIN entries : entries[k].packing = "streamed"}
    IN IF hides = {} THEN entries ELSE SubSeq(entries, 1, Min(hides))

Contents(e) == IF e.packing = "stored" THEN e.file ELSE [kind |-> "text", text |-> <<>>]

MainClass(entries) ==
    LET e == Reached(entries)
        manifests == {k \in DOMAIN e : Begins(e[k].name, Manifest)}
        lines == LinesOf(Contents(e[Min(manifests)]).text)
        named == {k \in DOMAIN lines : Begins(lines[k], KeyMain)}
        line == lines[Min(named)]
    IN IF manifests = {} \/ named = {} THEN <<>>
       ELSE SkipBlanks(SubSeq(line, Len(KeyMain) + 1, Len(line)))

Stored(entries, name) ==
    LET e == Reached(entries)
        named == {k \in DOMAIN e : e[k].name = name}
    IN IF named = {} THEN <<>> ELSE <<Contents(e[Min(named)])>>

Meant(f) ==
    IF Ends(Argument, DotJar)
    THEN IF f.kind = "jar" /\ MainClass(f.entries) # <<>>
         THEN Stored(f.entries, ReplaceAll(MainClass(f.entries), DOT, SLASH) \o DotClass)
         ELSE <<>>
    ELSE IF Ends(Argument, DotClass) THEN <<f>> ELSE <<>>

\* The code of the first method called main that has any.
PoolName(class, k, text) ==
    \E e \in DOMAIN class.pool :
        Slot(class.pool, e) = k /\ class.pool[e] = [tag |-> Utf8, value |-> text]

IsCode(class, a) == PoolName(class, a.name, NameCode) /\ Len(a.payload) >= 3

CodeOf(class, m) ==
    LET codes == {k \in DOMAIN m.attrs : IsCode(class, m.attrs[k])}
        last == m.attrs[Max(codes)].payload
    IN IF codes = {} THEN NoCode ELSE SubSeq(last, 4, 3 + last[3])

IsMain(class, m) == PoolName(class, m.name, NameMain) /\ CodeOf(class, m) # NoCode

MainCode(class) ==
    LET mains == {k \in DOMAIN class.methods : IsMain(class, class.methods[k])}
    IN IF mains = {} THEN NoCode ELSE CodeOf(class, class.methods[Min(mains)])

PoolSize(class) == Slot(class.pool, Len(class.pool) + 1)
Loadable(class) ==
    \A k \in DOMAIN class.pool : class.pool[k].tag \in {Utf8} \union Integer .. NameAndType

-----------------------------------------------------------------------------
(* What the files are.                                                     *)

IsName(class, k) == \E e \in DOMAIN class.pool : Slot(class.pool, e) = k /\ class.pool[e].tag = Utf8

ValueUnits(tag) == IF tag \in {Integer, Float, Class, String} THEN 1 ELSE 2

\* A class as a compiler writes it: a constant is as long as its kind says, a
\* name is the number of a Utf8 constant, and code lies inside its attribute.
IsMethod(class, m) ==
    /\ IsName(class, m.name)
    /\ \A a \in DOMAIN m.attrs :
          /\ IsName(class, m.attrs[a].name)
          /\ IsCode(class, m.attrs[a]) => 3 + m.attrs[a].payload[3] <= Len(m.attrs[a].payload)

IsClass(class) ==
    /\ class.pool \in Seq([tag : Nat, value : Seq(Nat)]) /\ class.interfaces \in Nat
    /\ class.fields \in Seq(Seq(Nat))
    /\ class.methods \in Seq([name : Nat, attrs : Seq([name : Nat, payload : Seq(Nat)])])
    /\ Loadable(class) =>
          /\ \A e \in DOMAIN class.pool : LET c == class.pool[e]
                                         IN c.tag # Utf8 => Len(c.value) = ValueUnits(c.tag)
          /\ \A k \in DOMAIN class.methods : IsMethod(class, class.methods[k])

\* No other file begins like an archive, and a text not like a class.
IsPart(f) ==
    \/ f.kind = "class" /\ IsClass(f.class)
    \/ /\ f.kind \in {"text", "units"} /\ f.text \in Seq(Nat)
       /\ ~Begins(f.text, <<LocalSig>>) /\ (f.kind = "text" => ~Begins(f.text, <<ClassMagic>>))

\* The parser keeps the line that names a class, and the name.
NamesClass(text) ==
    \A k \in DOMAIN LinesOf(text) :
        LET line == LinesOf(text)[k]
        IN Begins(line, KeyMain) =>
              /\ Len(line) <= ManifestMax
              /\ Len(SkipBlanks(SubSeq(line, Len(KeyMain) + 1, Len(line)))) <= ClassMax

IsManifest(entries, k) ==
    CASE entries[k].packing = "stored" -> entries[k].file.kind = "text" /\ NamesClass(entries[k].file.text)
      [] entries[k].packing = "deflated" ->
            LET lines == LinesOf(Instead(Encoded(entries), k))
            IN \A l \in DOMAIN lines : ~Begins(lines[l], KeyMain)
      [] OTHER -> TRUE

IsArchive(entries) ==
    /\ entries \in Seq(ToSet(entries))
    /\ \A k \in DOMAIN entries :
          /\ entries[k].name \in Seq(Nat) /\ entries[k].extra \in Nat /\ IsPart(entries[k].file)
          /\ entries[k].packing \in {"stored", "deflated", "streamed"}
          /\ Begins(entries[k].name, Manifest) => IsManifest(entries, k)

ASSUME ProgramsAssumption ==
    /\ ClassMagic # LocalSig
    /\ \A k \in DOMAIN Worlds : \A j \in DOMAIN Worlds[k].members :
          LET f == Worlds[k].members[j].file
          IN IsPart(f) \/ (f.kind = "jar" /\ IsArchive(f.entries))

\* `java' runs the main method, and only that, of the class the argument names
\* or of the one the manifest names, however many members, attributes and
\* two-slot constants precede it; nothing if the class is missing, compressed,
\* too large for the pool or the heap, or has no main (jar.c:65-322).  A
\* constant of a kind the parser does not know is outside this promise.
JavaRuns ==
    Answered("java") =>
        LET meant == IF MemberNamed(Argument) = <<>> THEN <<>> ELSE Meant(MemberNamed(Argument)[1])
        IN IF meant = <<>> \/ meant[1].kind = "text" THEN ran = NoCode
           ELSE meant[1].kind = "class" /\ Loadable(meant[1].class) =>
                  ran = IF PoolSize(meant[1].class) <= Min({MaxPool, HeapSize - HeapHdr})
                        THEN MainCode(meant[1].class) ELSE NoCode

\* Start-up ends and every command comes back to the prompt, even with a drive
\* that never answers or drops out at any moment, and with a class file that
\* ends too early (iso9660.c:13-59, jar.c:110-212).
CommandsReturn == [](main # "answered" => <>(main = "answered"))
=============================================================================
