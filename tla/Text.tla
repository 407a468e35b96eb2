-------------------------------- MODULE Text --------------------------------
(***************************************************************************)
(* Characters and C strings.  A character is a number, a string a sequence *)
(* of characters without its NUL; a file's contents is a sequence of       *)
(* numbers: characters, bytes, or whole fields of a binary format.         *)
(***************************************************************************)
EXTENDS Integers, Sequences, SequencesExt

CONSTANTS
    NUL, NL, CR, TAB, SPACE, EQ, DOT, SLASH, SEMI,
    Letters,            (* printable characters besides the ones above     *)
    KeyTheme, KeyCore, KeyAutostart,    (* "theme", "core", "autostart"    *)
    Manifest, KeyMain,                  (* "META-INF/MANIFEST.MF", "Main-Class:" *)
    DotJar, DotClass, NameMain, NameCode (* ".jar", ".class", "main", "Code" *)

ASSUME TextAssumption ==
    {NUL, NL, CR, TAB, SPACE, EQ, DOT, SLASH, SEMI} \subseteq Int /\ Letters \subseteq Int

Printable == Letters \union {NL, SPACE, EQ, DOT, SLASH, SEMI}

\* What cat shows of a file: a printable character, a new line, four blanks
\* for a TAB, nothing for another character.
Show(s) ==
    FlattenSeq([k \in DOMAIN s |-> IF s[k] = TAB THEN <<SPACE, SPACE, SPACE, SPACE>>
                                   ELSE IF s[k] \in Printable THEN <<s[k]>> ELSE <<>>])

\* vga_strncmp(s, key, strlen(key)) == 0
Begins(s, key) == IsPrefix(key, s)

\* vga_strncmp(s + strlen(s) - strlen(suffix), suffix, ...) == 0 with a longer s
Ends(s, suffix) == Len(s) > Len(suffix) /\ IsSuffix(suffix, s)

\* The position of c in s, or the one behind the end.
Find(s, c) == IF Contains(s, c) THEN SelectInSeq(s, LAMBDA x : x = c) ELSE Len(s) + 1

\* At most the first k of s, and the k-th piece of `size' of s.
Upto(s, k) == SubSeq(s, 1, Min({Len(s), k}))
Piece(s, size, k) == SubSeq(s, (k - 1) * size + 1, Min({Len(s), k * size}))

LineEnd == {NL, CR}

\* What stands between two ends of lines, the last one as well.
LinesOf(text) ==
    LET from[k \in Nat \ {0}] ==
            LET end == Min({j \in k .. Len(text) : text[j] \in LineEnd} \union {Len(text) + 1})
            IN <<SubSeq(text, k, end - 1)>> \o (IF end > Len(text) THEN <<>> ELSE from[end + 1])
    IN from[1]
=============================================================================
