---------------------------- MODULE YanaseConfig ----------------------------
(***************************************************************************)
(* parse_yanase_config (src/src/main.c:175-239): init.yc is split into     *)
(* lines, a line at its first `=', and the key is compared by its          *)
(* beginning.  The result is what is logged: <<setting, value>>.           *)
(***************************************************************************)
EXTENDS Text

CONSTANTS
    LineMax         (* characters kept of a line (127)                     *)

ASSUME ConfigAssumption == LineMax \in Nat

\* What is logged for a line.  An empty line or one without `=' says nothing.
Setting(line) ==
    LET j == Find(line, EQ)
        key == SubSeq(line, 1, j - 1)
        value == SubSeq(line, j + 1, Len(line))
    IN IF j > Len(line) THEN <<>>
       ELSE CASE Begins(key, KeyTheme) -> <<<<"theme", value>>>>
              [] Begins(key, KeyCore) -> <<<<"core", value>>>>
              [] Begins(key, KeyAutostart) -> <<<<"autostart", <<>>>>>>
              [] OTHER -> <<>>

Kept(line, c) == IF Len(line) < LineMax THEN Append(line, c) ELSE line

\* Mutant: a line that says nothing is not cleared.
ParseUncleared(data) ==
    LET from[p \in (Nat \ {0}) \X Seq(Int)] ==
            LET i == p[1]  line == p[2]
            IN IF i > Len(data) THEN <<>>
               ELSE IF data[i] \in LineEnd \/ i = Len(data)
               THEN Setting(line) \o from[<<i + 1, IF Setting(line) = <<>> THEN line ELSE <<>>>>]
               ELSE from[<<i + 1, Kept(line, data[i])>>]
    IN from[<<1, <<>>>>]

\* The last character ends its line whatever it is, and is not part of it.
parse_yanase_config(data) ==
    LET from[p \in (Nat \ {0}) \X Seq(Int)] ==
            LET i == p[1]  line == p[2]
            IN IF i > Len(data) THEN <<>>
               ELSE IF data[i] \in LineEnd \/ i = Len(data)
               THEN Setting(line) \o from[<<i + 1, <<>>>>]
               ELSE from[<<i + 1, Kept(line, data[i])>>]
    IN from[<<1, <<>>>>]

-----------------------------------------------------------------------------
\* What the parser is to report of a file, line by line.  Only the first
\* LineMax characters of a line count, and a file that does not end with a
\* line's end loses its last character, but nothing else.
Settings(data) ==
    LET text == IF data = <<>> \/ Last(data) \in LineEnd THEN data ELSE Front(data)
    IN FlattenSeq([k \in DOMAIN LinesOf(text) |-> Setting(Upto(LinesOf(text)[k], LineMax))])
=============================================================================
