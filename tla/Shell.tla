------------------------------- MODULE Shell --------------------------------
(***************************************************************************)
(* The command line (src/src/keyboard.c and the loop of kernel_main in     *)
(* src/src/main.c).  The keyboard interrupt edits shell_buffer and raises  *)
(* command_ready; the main loop polls the flag, runs execute_command on    *)
(* the very buffer the interrupt keeps writing to, and only afterwards     *)
(* resets the index and the flag.  Interrupt gates keep IF clear, so a     *)
(* handler is one step; the main loop is cut at every access to a variable *)
(* it shares with the handler, except that one comparison with a command   *)
(* word is one step.  What is echoed and printed is the matter of Console. *)
(***************************************************************************)
EXTENDS Integers, Sequences

CONSTANTS
    Chars,      (* characters the key table yields, '\n' and '\b' apart    *)
    Blank,      (* ' '                                                     *)
    NUL,        (* '\0'                                                    *)
    MaxLen,     (* MAX_COMMAND_LEN                                         *)
    Words,      (* the if chain of execute_command: [text, kind]           *)
    MaxOwed     (* bound: lines entered and not taken up                   *)

Kinds == {"simple", "program", "gui", "reboot", "shutdown"}

ASSUME ShellAssumption ==
    /\ Blank \in Chars /\ NUL \notin Chars
    /\ MaxLen \in Nat \ {0} /\ MaxOwed \in Nat
    /\ Words \in Seq([text : Seq(Chars), kind : Kinds])

VARIABLES
    shell_buffer, shell_ptr, command_ready,
    pc,         (* where the main loop is                                  *)
    input,      (* execute_command's pointer, as an index of the buffer    *)
    word,       (* the command compared with next                          *)
    outcome,    (* the command chosen last: an index of Words or           *)
                (* None, Empty, Unknown                                    *)
    owed,       (* history: lines entered minus commands started           *)
    user        (* history: "hasty" once a key came while a line was in use *)

keyboardVars == <<shell_buffer, shell_ptr, command_ready>>
mainVars == <<input, word, outcome>>
history == <<owed, user>>
vars == <<shell_buffer, shell_ptr, command_ready, pc, input, word, outcome, owed, user>>

None    == -1
Empty   == 0
Unknown == Len(Words) + 1

Cells == 0 .. MaxLen - 1

\* Static data is zero, the prompt is out and interrupts are on (main.c:757-758).
Init ==
    /\ shell_buffer = [i \in Cells |-> NUL] /\ shell_ptr = 0 /\ command_ready = 0
    /\ pc = "poll" /\ input = 0 /\ word = 1 /\ outcome = None
    /\ owed = 0 /\ user = "patient"

-----------------------------------------------------------------------------
(* Interrupts *)

\* Until "cli; hlt" at the end of sys_shutdown.
Interruptible == pc # "off"

\* An interrupt ends hlt: the loop goes on behind it.
Wake == pc' = IF pc = "halted" THEN "poll" ELSE pc

\* The shell is done with the last line and has not been given the next one.
Waiting == command_ready = 0 /\ pc \in {"poll", "hlt", "halted"}

Keypress ==
    /\ Interruptible
    /\ Wake
    /\ user' = IF Waiting THEN user ELSE "hasty"
    /\ UNCHANGED mainVars

Store(i, c) == shell_buffer' = [shell_buffer EXCEPT ![i] = c]

\* Mutant: the line is not terminated.
KeyEnterOpen ==
    /\ Keypress /\ owed < MaxOwed
    /\ command_ready' = 1
    /\ owed' = owed + 1
    /\ UNCHANGED <<shell_buffer, shell_ptr>>

KeyEnter ==
    /\ Keypress /\ owed < MaxOwed
    /\ Store(shell_ptr, NUL)
    /\ command_ready' = 1
    /\ owed' = owed + 1
    /\ UNCHANGED shell_ptr

\* Mutant: the empty line is not protected.
KeyBackspaceAlways ==
    /\ Keypress
    /\ shell_ptr' = shell_ptr - 1
    /\ Store(shell_ptr - 1, NUL)
    /\ UNCHANGED <<command_ready, owed>>

KeyBackspace ==
    /\ Keypress /\ shell_ptr > 0
    /\ shell_ptr' = shell_ptr - 1
    /\ Store(shell_ptr - 1, NUL)
    /\ UNCHANGED <<command_ready, owed>>

\* Mutant: no cell is kept for the terminator.
KeyCharFull(c) ==
    /\ Keypress /\ shell_ptr < MaxLen
    /\ Store(shell_ptr, c)
    /\ shell_ptr' = shell_ptr + 1
    /\ UNCHANGED <<command_ready, owed>>

KeyChar(c) ==
    /\ Keypress /\ shell_ptr < MaxLen - 1
    /\ Store(shell_ptr, c)
    /\ shell_ptr' = shell_ptr + 1
    /\ UNCHANGED <<command_ready, owed>>

\* Mutant: the timer does not end hlt.
TimerMasked ==
    /\ Interruptible
    /\ UNCHANGED vars

\* IRQ 0, through the default handler, which only acknowledges it.  A key that
\* changes nothing (a release, an unmapped code, a full or an empty line) has
\* the same effect.
Timer ==
    /\ Interruptible
    /\ Wake
    /\ UNCHANGED <<keyboardVars, mainVars, history>>

-----------------------------------------------------------------------------
(* The main loop *)

\* if (command_ready): start on the buffer, or go to sleep.
PollReady ==
    /\ pc = "poll" /\ command_ready = 1
    /\ pc' = "skip" /\ input' = 0
    /\ owed' = owed - 1
    /\ UNCHANGED <<keyboardVars, word, outcome, user>>

PollIdle ==
    /\ pc = "poll" /\ command_ready = 0
    /\ pc' = "hlt"
    /\ UNCHANGED <<keyboardVars, mainVars, history>>

Hlt ==
    /\ pc = "hlt"
    /\ pc' = "halted"
    /\ UNCHANGED <<keyboardVars, mainVars, history>>

\* while (*input == ' ') input++;
SkipBlank ==
    /\ pc = "skip" /\ shell_buffer[input] = Blank
    /\ input' = input + 1
    /\ UNCHANGED <<keyboardVars, pc, word, outcome, history>>

SkipDone ==
    /\ pc = "skip" /\ shell_buffer[input] # Blank
    /\ pc' = "match" /\ word' = 1
    /\ UNCHANGED <<keyboardVars, input, outcome, history>>

\* vga_strncmp(input, text, strlen(text)) == 0
Matches(text) ==
    \A i \in 1 .. Len(text) :
        input + i - 1 \in Cells /\ shell_buffer[input + i - 1] = text[i]

Mismatch ==
    /\ pc = "match" /\ word <= Len(Words) /\ ~Matches(Words[word].text)
    /\ word' = word + 1
    /\ UNCHANGED <<keyboardVars, pc, input, outcome, history>>

Match ==
    /\ pc = "match" /\ word <= Len(Words) /\ Matches(Words[word].text)
    /\ pc' = "run" /\ outcome' = word
    /\ UNCHANGED <<keyboardVars, input, word, history>>

NoMatch ==
    /\ pc = "match" /\ word > Len(Words)
    /\ pc' = "reset"
    /\ outcome' = IF shell_buffer[input] = NUL THEN Empty ELSE Unknown
    /\ UNCHANGED <<keyboardVars, input, word, history>>

Kind == Words[outcome].kind

\* The commands that come back to the loop.  imgview does when there is no such
\* file, reboot until the controller pulls the reset line.
Return ==
    /\ pc = "run" /\ Kind \in {"simple", "program", "reboot"}
    /\ pc' = "reset"
    /\ UNCHANGED <<keyboardVars, mainVars, history>>

\* startx, imgview with a picture, a Java program that does not end.
StayForever ==
    /\ pc = "run" /\ Kind \in {"gui", "program"}
    /\ pc' = "loop"
    /\ UNCHANGED <<keyboardVars, mainVars, history>>

PowerOff ==
    /\ pc = "run" /\ Kind = "shutdown"
    /\ pc' = "off"
    /\ UNCHANGED <<keyboardVars, mainVars, history>>

\* The machine restarts and the kernel is loaded afresh.
Reboot ==
    /\ pc = "run" /\ Kind = "reboot"
    /\ shell_buffer' = [i \in Cells |-> NUL] /\ shell_ptr' = 0 /\ command_ready' = 0
    /\ pc' = "poll" /\ input' = 0 /\ word' = 1 /\ outcome' = None
    /\ owed' = 0 /\ user' = "patient"

ResetPtr ==
    /\ pc = "reset"
    /\ pc' = "unready" /\ shell_ptr' = 0
    /\ UNCHANGED <<shell_buffer, command_ready, mainVars, history>>

\* Mutant: the flag is left up.
ClearNothing ==
    /\ pc = "unready"
    /\ pc' = "poll"
    /\ UNCHANGED <<keyboardVars, mainVars, history>>

ClearReady ==
    /\ pc = "unready"
    /\ pc' = "poll" /\ command_ready' = 0
    /\ user' = "patient"
    /\ UNCHANGED <<shell_buffer, shell_ptr, mainVars, owed>>

-----------------------------------------------------------------------------
Keyboard == KeyEnter \/ KeyBackspace \/ \E c \in Chars : KeyChar(c)

Main ==
    \/ PollReady \/ PollIdle \/ Hlt
    \/ SkipBlank \/ SkipDone \/ Mismatch \/ Match \/ NoMatch
    \/ Return \/ StayForever \/ PowerOff \/ Reboot
    \/ ResetPtr \/ ClearReady

Next == Keyboard \/ Timer \/ Main

\* The processor runs and the interval timer, left unmasked, keeps ticking.
Fairness == WF_vars(Main) /\ WF_vars(Timer)

Spec == Init /\ [][Next]_vars /\ Fairness

-----------------------------------------------------------------------------
(* Properties *)

Idle == {"poll", "hlt", "halted"}
Chosen == {"run", "loop", "off", "reset", "unready"}

TypeOK ==
    /\ shell_buffer \in [Cells -> Chars \union {NUL}]
    /\ shell_ptr \in Cells
    /\ command_ready \in {0, 1}
    /\ pc \in Idle \union Chosen \union {"skip", "match"}
    /\ input \in Cells
    /\ word \in 1 .. Len(Words) + 1
    /\ outcome \in {None, Empty, Unknown} \union DOMAIN Words
    /\ pc = "run" => outcome \in DOMAIN Words
    /\ owed \in Int /\ user \in {"patient", "hasty"}

\* Whatever is typed while execute_command reads the buffer, a terminator
\* always lies ahead of the reader, so no scan of the line leaves the buffer
\* (the bound of keyboard.c:40 against the loops of main.c:248 and 39-51).
TerminatorAhead ==
    pc \in {"skip", "match"} => \E i \in input .. MaxLen - 1 : shell_buffer[i] = NUL

LastCellIsNUL == shell_buffer[MaxLen - 1] = NUL

FlagIsOwed == (command_ready = 1 /\ pc \in Idle) => owed >= 1

\* No command is started that no Enter asked for: the flag never survives the
\* command it announced (keyboard.c:28, main.c:762-769).
NoPhantomCommand == owed >= 0

\* The inductive invariant behind the two: only the last cell is never typed
\* into, and a flag the loop has yet to see stands for a line still owed.
IInv == TypeOK /\ LastCellIsNUL /\ NoPhantomCommand /\ FlagIsOwed

\* A line entered while the processor is about to sleep, or asleep, is taken
\* up: the timer closes the window between the test of command_ready and hlt
\* (main.c:762-776).
WakesForLine == (command_ready = 1 /\ pc \in Idle) ~> (pc \notin Idle)

\* The line a user who waits for the prompt has typed, and whether it is entered.
Typed == [i \in 1 .. shell_ptr |-> shell_buffer[i - 1]]

Discipline == INSTANCE LineDiscipline WITH
    line    <- IF pc \in Chosen THEN <<>> ELSE Typed,
    entered <- command_ready = 1 /\ pc \notin Chosen

\* A line during which no key comes while the shell is busy with it or with the
\* last one runs exactly once and as typed, whatever was typed before: erased
\* characters, remains of longer lines, blanks and the length limit do not
\* change its meaning (keyboard.c:26-43, main.c:243-515, 762-769).
FollowsDiscipline ==
    /\ Discipline!Init
    /\ [][user = "patient" /\ user' = "patient"
        => Discipline!Next \/ UNCHANGED Discipline!vars]_vars
=============================================================================
