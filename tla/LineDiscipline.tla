--------------------------- MODULE LineDiscipline ---------------------------
(***************************************************************************)
(* What a user expects of the kernel shell: the keys pressed edit a line,  *)
(* Enter hands the line over, and the command that runs is the one the     *)
(* line means; then the next line starts empty.                            *)
(***************************************************************************)
EXTENDS Integers, Sequences, SequencesExt

CONSTANTS
    Chars,      (* characters that can be typed                            *)
    Blank,      (* the one skipped at the start of a line                  *)
    MaxLen,     (* size of the line buffer, terminator included            *)
    Words       (* commands in the order they are tried: [text, kind]      *)

VARIABLES
    line,       (* the line being edited                                   *)
    entered,    (* Enter was pressed, the command has not run yet          *)
    outcome     (* what the last line turned out to mean                   *)

vars == <<line, entered, outcome>>

None    == -1
Empty   == 0
Unknown == Len(Words) + 1

\* l without its leading blanks.
Stripped(l) ==
    LET n == CHOOSE n \in 0 .. Len(l) :
                /\ \A i \in 1 .. n : l[i] = Blank
                /\ n < Len(l) => l[n + 1] # Blank
    IN  SubSeq(l, n + 1, Len(l))

\* The first command that the stripped line starts with.
Meaning(l) ==
    LET s == Stripped(l)
        Hits == {i \in DOMAIN Words : IsPrefix(Words[i].text, s)}
    IN  IF Hits # {} THEN CHOOSE i \in Hits : \A j \in Hits : i <= j
        ELSE IF s = <<>> THEN Empty ELSE Unknown

Init == line = <<>> /\ entered = FALSE /\ outcome = None

Type(c) ==
    /\ ~entered /\ Len(line) < MaxLen - 1
    /\ line' = Append(line, c)
    /\ UNCHANGED <<entered, outcome>>

Erase ==
    /\ ~entered /\ line # <<>>
    /\ line' = Front(line)
    /\ UNCHANGED <<entered, outcome>>

Enter ==
    /\ ~entered /\ entered' = TRUE
    /\ UNCHANGED <<line, outcome>>

Execute ==
    /\ entered /\ entered' = FALSE
    /\ outcome' = Meaning(line)
    /\ line' = <<>>

\* The command that has just run restarted the machine.
Restart ==
    /\ ~entered /\ line = <<>>
    /\ outcome \in DOMAIN Words /\ Words[outcome].kind = "reboot"
    /\ outcome' = None
    /\ UNCHANGED <<line, entered>>

Next == (\E c \in Chars : Type(c)) \/ Erase \/ Enter \/ Execute \/ Restart

Spec == Init /\ [][Next]_vars
=============================================================================
