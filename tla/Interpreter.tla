---------------------------- MODULE Interpreter -----------------------------
(***************************************************************************)
(* The bytecode interpreter (src/src/runtime/bytecode.c): execute_bytecode *)
(* on byte addresses with a fixed array for the operand stack, the static  *)
(* natives it calls, and what it does with the instructions it skips.      *)
(* An instruction holds the value that its index leads to in the constant  *)
(* pool, and a call the method it means and what lies behind its names.    *)
(* Nothing in the code stops it at the end of an array: an access outside  *)
(* the stack ends the model with status "corrupt".                         *)
(***************************************************************************)
EXTENDS ClassFile

CONSTANTS
    Bits,           (* width of int32_t                                    *)
    STACK_SIZE,     (* 256                                                 *)
    LOCALS_SIZE,    (* 64                                                  *)
    Coordinates,    (* values of mouse_x and mouse_y                       *)
    Programs        (* compiled methods                                    *)

Int32s == -Power[Bits - 1] .. Power[Bits - 1] - 1

\* A method as a compiler writes it.  Its local variables are taken to have a
\* place: the interpreter does not look (bytecode.c:130, 137, 160).
Compiled(p) ==
    /\ p \in Seq([op : Opcodes, n : Int, v : Int])
    /\ \A k \in DOMAIN p :
          /\ p[k].op \in Constants => p[k].n \in Int32s
          /\ p[k].op \in Loads \union Stores \union {"iinc"} => p[k].n \in 0 .. LOCALS_SIZE - 1
          /\ p[k].op = "invokestatic" => p[k].n \in DOMAIN Parameters

ASSUME InterpreterAssumption ==
    /\ Bits \in Nat \ {0, 1} /\ STACK_SIZE \in Nat \ {0} /\ LOCALS_SIZE \in Nat \ {0}
    /\ Coordinates \subseteq 0 .. Power[Bits - 1] - 1
    /\ \A p \in Programs : Compiled(p)

VARIABLES
    program,        (* the method that runs                                *)
    pc, sp, stack, locals,
    shown,          (* the native drawing call made last                   *)
    status,         (* "running", "returned", "corrupt", or "lost": a byte *)
                    (* that is no opcode is executed as one                *)
    plain           (* history: "no" once an instruction was only skipped  *)

vars == <<program, pc, sp, stack, locals, shown, status, plain>>

Int32(i) == ((i + Power[Bits - 1]) % Power[Bits]) - Power[Bits - 1]
UInt16(i) == i % Power[Bits \div 2]

\* The stack and the locals hold what earlier methods have left.
Init ==
    /\ program \in {p \in Programs : Verified(p, STACK_SIZE)}
    /\ pc = 0 /\ sp = -1
    /\ stack = [i \in 0 .. STACK_SIZE - 1 |-> 0]
    /\ \E left \in {0, 1} : locals = [i \in 0 .. LOCALS_SIZE - 1 |-> left]
    /\ shown = <<>> /\ status = "running" /\ plain = "yes"

-----------------------------------------------------------------------------
(* push and pop *)

\* What is read outside the array does not matter: the status tells.
Peek(k) == IF sp - k \in DOMAIN stack THEN stack[sp - k] ELSE 0

\* k operands are popped and new ones pushed.
Stack(k, new) ==
    /\ sp' = sp - k + Len(new)
    /\ stack' = [i \in DOMAIN stack |->
                    IF i - (sp - k) \in DOMAIN new THEN new[i - (sp - k)] ELSE stack[i]]
    /\ status' = IF sp - k >= -1 /\ sp' < STACK_SIZE THEN status ELSE "corrupt"

-----------------------------------------------------------------------------
(* execute_bytecode: one action per group of cases *)

\* Mutant: sipush takes one byte like bipush.
OperandBytesShort(op) ==
    CASE op \in {"bipush", "sipush", "ldc", "iload", "istore"} -> 1
      [] op \in {"iinc", "getstatic", "putstatic", "invokestatic", "invokevirtual"} -> 2
      [] op \in Branches -> 2
      [] OTHER -> 0

\* Bytes the interpreter takes behind the opcode.
OperandBytes(op) ==
    CASE op \in {"bipush", "ldc", "iload", "istore"} -> 1
      [] op \in {"sipush", "iinc", "getstatic", "putstatic", "invokestatic", "invokevirtual"} -> 2
      [] op \in Branches -> 2
      [] OTHER -> 0

Running == status = "running" /\ pc < Length(program)

Fetch(ops, i) ==
    /\ Running /\ i.op \in ops
    /\ \E k \in StartsAt(program, pc) : program[k] = i

Instructions == {program[k] : k \in DOMAIN program}

Advance(i) == pc' = pc + 1 + OperandBytes(i.op)

Nop(i) ==
    /\ Fetch({"nop"}, i) /\ Advance(i)
    /\ UNCHANGED <<sp, stack, locals, shown, status, plain>>

Constant(i) ==
    /\ Fetch(Constants, i) /\ Advance(i)
    /\ Stack(0, <<i.n>>)
    /\ UNCHANGED <<locals, shown, plain>>

Load(i) ==
    /\ Fetch(Loads, i) /\ Advance(i)
    /\ Stack(0, <<locals[i.n]>>)
    /\ UNCHANGED <<locals, shown, plain>>

Store(i) ==
    /\ Fetch(Stores, i) /\ Advance(i)
    /\ Stack(1, <<>>)
    /\ locals' = [locals EXCEPT ![i.n] = Peek(0)]
    /\ UNCHANGED <<shown, plain>>

Pop(i) ==
    /\ Fetch({"pop"}, i) /\ Advance(i)
    /\ Stack(1, <<>>)
    /\ UNCHANGED <<locals, shown, plain>>

Dup(i) ==
    /\ Fetch({"dup"}, i) /\ Advance(i)
    /\ Stack(1, <<Peek(0), Peek(0)>>)
    /\ UNCHANGED <<locals, shown, plain>>

\* C divides towards zero; the processor takes a shift count modulo the width.
Size(a) == IF a < 0 THEN -a ELSE a
Towards0(a, b) ==
    IF (a < 0) = (b < 0) THEN Size(a) \div Size(b) ELSE -(Size(a) \div Size(b))

BitsOf(a) == {k \in 0 .. Bits - 1 : (a \div Power[k]) % 2 = 1}
FromBits(s) ==
    LET lowest[k \in Nat] ==
            IF k = 0 THEN 0 ELSE lowest[k - 1] + (IF k - 1 \in s THEN Power[k - 1] ELSE 0)
    IN  Int32(lowest[Bits])

Compute(op, a, b) ==
    CASE op = "iadd" -> Int32(a + b)
      [] op = "isub" -> Int32(a - b)
      [] op = "imul" -> Int32(a * b)
      [] op = "idiv" -> IF b # 0 THEN Towards0(a, b) ELSE 0
      [] op = "irem" -> IF b # 0 THEN a - b * Towards0(a, b) ELSE 0
      [] op = "ishl" -> Int32(a * Power[b % Bits])
      [] op = "ishr" -> a \div Power[b % Bits]
      [] op = "iand" -> FromBits(BitsOf(a) \intersect BitsOf(b))
      [] op = "ior"  -> FromBits(BitsOf(a) \union BitsOf(b))
      [] op = "ixor" -> FromBits((BitsOf(a) \union BitsOf(b)) \ (BitsOf(a) \intersect BitsOf(b)))

\* The one quotient that has no place in 32 bits: the processor traps, and the
\* default handler returns to the division.
Traps(op, a, b) == op \in {"idiv", "irem"} /\ b = -1 /\ a = -Power[Bits - 1]

Binary(i) ==
    /\ Fetch(Arithmetic, i) /\ ~Traps(i.op, Peek(1), Peek(0)) /\ Advance(i)
    /\ Stack(2, <<Compute(i.op, Peek(1), Peek(0))>>)
    /\ UNCHANGED <<locals, shown, plain>>

\* Mutant: the result is not cut to 32 bits.
NegateWide(i) ==
    /\ Fetch({"ineg"}, i) /\ Advance(i)
    /\ Stack(1, <<-Peek(0)>>)
    /\ UNCHANGED <<locals, shown, plain>>

Negate(i) ==
    /\ Fetch({"ineg"}, i) /\ Advance(i)
    /\ Stack(1, <<Int32(-Peek(0))>>)
    /\ UNCHANGED <<locals, shown, plain>>

Increment(i) ==
    /\ Fetch({"iinc"}, i) /\ Advance(i)
    /\ locals' = [locals EXCEPT ![i.n] = Int32(@ + i.v)]
    /\ UNCHANGED <<sp, stack, shown, status, plain>>

\* The distance to the target is stored in the instruction; it is counted from
\* the opcode, three bytes before the address the interpreter has reached.
Offset(i) == Address(program, i.v) - pc

\* Mutant: the distance is counted from behind the instruction.
JumpFrom(i, taken) == pc' = pc + 1 + OperandBytes(i.op) + (IF taken THEN Offset(i) ELSE 0)

Jump(i, taken) == pc' = pc + 1 + OperandBytes(i.op) + (IF taken THEN Offset(i) - 3 ELSE 0)

Holds(op, a, b) ==
    CASE op \in {"ifeq", "if_icmpeq"} -> a = b
      [] op \in {"ifne", "if_icmpne"} -> a # b
      [] op \in {"iflt", "if_icmplt"} -> a < b
      [] op \in {"ifge", "if_icmpge"} -> a >= b
      [] op \in {"ifgt", "if_icmpgt"} -> a > b
      [] op \in {"ifle", "if_icmple"} -> a <= b

Test(i) ==
    /\ Fetch(Tests, i) /\ Jump(i, Holds(i.op, Peek(0), 0))
    /\ Stack(1, <<>>)
    /\ UNCHANGED <<locals, shown, plain>>

Compare(i) ==
    /\ Fetch(Comparisons, i) /\ Jump(i, Holds(i.op, Peek(1), Peek(0)))
    /\ Stack(2, <<>>)
    /\ UNCHANGED <<locals, shown, plain>>

Goto(i) ==
    /\ Fetch({"goto"}, i) /\ Jump(i, TRUE)
    /\ UNCHANGED <<sp, stack, locals, shown, status, plain>>

Return(i) ==
    /\ Fetch(Returns, i) /\ pc' = pc + 1
    /\ status' = "returned"
    /\ UNCHANGED <<sp, stack, locals, shown, plain>>

\* The row of native_table that is found, or 0.  Names are compared up to a NUL,
\* but in the class file the tag of the next constant lies behind a name: none
\* matches that does not bring a NUL of its own.
NUL == 0
handle_native_call(i) == IF i.v = NUL /\ i.n \in 1 .. 7 THEN i.n ELSE 0

\* A static call for which one of these rows is found.
InvokeStatic(i, rows) ==
    Fetch({"invokestatic"}, i) /\ handle_native_call(i) \in rows /\ Advance(i)

\* getX, getY: an interrupt may have moved the mouse since the last call.
GetMouse(i) ==
    /\ InvokeStatic(i, {3, 4})
    /\ \E c \in Coordinates : Stack(0, <<c>>)
    /\ UNCHANGED <<locals, shown, plain>>

\* drawPixel(x, y, color): the last argument is on top.
DrawPixel(i) ==
    /\ InvokeStatic(i, {5})
    /\ Stack(3, <<>>)
    /\ shown' = <<5, UInt16(Peek(2)), UInt16(Peek(1)), Peek(0)>>
    /\ UNCHANGED <<locals, plain>>

\* println(int) and clear(color): the table does not ask how a method is called.
ShowOne(i) ==
    /\ InvokeStatic(i, {1, 6})
    /\ Stack(1, <<>>)
    /\ shown' = <<i.n, Peek(0)>>
    /\ UNCHANGED <<locals, plain>>

Update(i) ==
    /\ InvokeStatic(i, {7})
    /\ shown' = <<7>>
    /\ UNCHANGED <<sp, stack, locals, status, plain>>

\* println(String) only removes its operand.
PrintString(i) ==
    /\ InvokeStatic(i, {2})
    /\ Stack(1, <<>>)
    /\ plain' = "no"
    /\ UNCHANGED <<locals, shown>>

\* A method that is not found, such as another one of the same class: it is
\* neither called nor are its operands removed.
Unresolved(i) ==
    /\ InvokeStatic(i, {0})
    /\ plain' = "no"
    /\ UNCHANGED <<sp, stack, locals, shown, status>>

\* invokevirtual and invokespecial leave their operands where they are.
SkipInvoke(i) ==
    /\ Fetch({"invokevirtual"}, i) /\ Advance(i)
    /\ plain' = "no"
    /\ UNCHANGED <<sp, stack, locals, shown, status>>

GetStatic(i) ==
    /\ Fetch({"getstatic"}, i) /\ Advance(i)
    /\ Stack(0, <<0>>)
    /\ UNCHANGED <<locals, shown, plain>>

PutStatic(i) ==
    /\ Fetch({"putstatic"}, i) /\ Advance(i)
    /\ Stack(1, <<>>)
    /\ UNCHANGED <<locals, shown, plain>>

\* An opcode without a case: its operands are not skipped.
SkipOpcode(i) ==
    /\ Fetch({"newarray"}, i) /\ Advance(i)
    /\ plain' = "no"
    /\ UNCHANGED <<sp, stack, locals, shown, status>>

Derail ==
    /\ Running /\ StartsAt(program, pc) = {}
    /\ status' = "lost"
    /\ UNCHANGED <<pc, sp, stack, locals, shown, plain>>

execute_bytecode ==
    \/ \E i \in Instructions :
          \/ Nop(i) \/ Constant(i) \/ Load(i) \/ Store(i) \/ Pop(i) \/ Dup(i)
          \/ Binary(i) \/ Negate(i) \/ Increment(i)
          \/ Test(i) \/ Compare(i) \/ Goto(i) \/ Return(i)
          \/ GetMouse(i) \/ DrawPixel(i) \/ ShowOne(i) \/ Update(i)
          \/ PrintString(i) \/ Unresolved(i)
          \/ SkipInvoke(i) \/ GetStatic(i) \/ PutStatic(i) \/ SkipOpcode(i)
    \/ Derail

Next == execute_bytecode /\ UNCHANGED program

Spec == Init /\ [][Next]_vars

-----------------------------------------------------------------------------
(* Properties *)

TypeOK ==
    /\ stack \in [0 .. STACK_SIZE - 1 -> Int32s]
    /\ locals \in [0 .. LOCALS_SIZE - 1 -> Int32s]
    /\ pc \in Nat /\ sp \in Int
    /\ status \in {"running", "returned", "corrupt", "lost"} /\ plain \in {"yes", "no"}

\* As long as nothing has been skipped, the interpreter stays inside its stack
\* and on the opcodes of a verified method, although it never looks at the
\* stack's size (bytecode.c:98-214, bytecode.h:76-78).
StaysInside == plain = "yes" => status \in {"running", "returned"} /\ pc <= Length(program)

\* "Find and call the native method" (bytecode.c:77): a method that calls
\* nothing but static natives of the table is executed without skipping any.
CallsNatives ==
    (\A i \in Instructions : i.op \notin {"invokevirtual", "newarray"}
                            /\ (i.op = "invokestatic" => i.n \in 3 .. 7))
        => plain = "yes"

Here == IF Running THEN CHOOSE k \in DOMAIN program : Address(program, k) = pc ELSE 0
Operands == [d \in 1 .. sp + 1 |-> stack[d - 1]]

Machine == INSTANCE Jvm WITH Locals <- LOCALS_SIZE, at <- Here, operands <- Operands

\* Coordinates that are drawn where they are: vesa_put_pixel takes 16 bits.
InScreenRange ==
    \A i \in Instructions :
        Fetch({"invokestatic"}, i) /\ i.n = 5 => UInt16(Peek(2)) = Peek(2) /\ UInt16(Peek(1)) = Peek(1)

\* Until an instruction has been skipped, and unless a coordinate is cut to 16
\* bits, every step is the one the compiler expects: operand order, branch
\* distances counted in bytes, division and shifts, and the arguments of the
\* natives (bytecode.c:19-61, 98-208).
FollowsJvm ==
    /\ Machine!Init
    /\ [][plain' = "yes" /\ InScreenRange => Machine!Next]_vars
=============================================================================
