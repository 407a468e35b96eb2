-------------------------------- MODULE Jvm ---------------------------------
(***************************************************************************)
(* What a Java compiler expects of a machine that runs the static int      *)
(* methods it compiles: the part of the class-file format's instruction    *)
(* set that src/src/runtime/bytecode.c offers, on numbered instructions    *)
(* and an operand stack that is a sequence.  There are no exceptions:      *)
(* division by zero gives zero.                                            *)
(***************************************************************************)
EXTENDS ClassFile

CONSTANTS
    Bits,           (* width of an int                                     *)
    Locals,         (* local variables                                     *)
    Coordinates     (* where the mouse may be                              *)

VARIABLES
    program,        (* sequence of instructions [op, n, v]                 *)
    at,             (* the instruction that is next, 0 when there is none  *)
    operands, locals,
    shown           (* the call made last, with its arguments       *)

vars == <<program, at, operands, locals, shown>>

-----------------------------------------------------------------------------
(* Numbers *)

Least == -Power[Bits - 1]
Word(i) == ((i - Least) % Power[Bits]) + Least
Words == Least .. (-Least) - 1

Magnitude(a) == IF a < 0 THEN -a ELSE a

\* Quotient q and remainder r of a by b: the remainder has a's sign.
Divides(a, b, q, r) ==
    /\ a = q * b + r
    /\ Magnitude(r) < Magnitude(b)
    /\ r # 0 => (r < 0) = (a < 0)

\* The k-th bit of a number.
Bit(a, k) == ((a % Power[Bits]) \div Power[k]) % 2

\* What becomes of two bits.
Joined(op, x, y) ==
    CASE op = "iand" -> x * y
      [] op = "ior"  -> x + y - x * y
      [] op = "ixor" -> (x + y) % 2

Combined(op, a, b) ==
    CHOOSE r \in Words : \A k \in 0 .. Bits - 1 : Bit(r, k) = Joined(op, Bit(a, k), Bit(b, k))

Quotient(a, b)  == CHOOSE q \in Least .. (-Least) : \E r \in Words : Divides(a, b, q, r)
Remainder(a, b) == CHOOSE r \in Words : \E q \in Least .. (-Least) : Divides(a, b, q, r)

Result(op, a, b) ==
    CASE op = "iadd" -> Word(a + b)
      [] op = "isub" -> Word(a - b)
      [] op = "imul" -> Word(a * b)
      [] op = "idiv" -> IF b = 0 THEN 0 ELSE Word(Quotient(a, b))
      [] op = "irem" -> IF b = 0 THEN 0 ELSE Remainder(a, b)
      [] op = "ishl" -> Word(a * Power[b % Bits])
      [] op = "ishr" -> a \div Power[b % Bits]
      [] op \in Bitwise -> Combined(op, a, b)

Relation(op, a, b) ==
    CASE op \in {"ifeq", "if_icmpeq"} -> a = b
      [] op \in {"ifne", "if_icmpne"} -> a # b
      [] op \in {"iflt", "if_icmplt"} -> a < b
      [] op \in {"ifge", "if_icmpge"} -> a >= b
      [] op \in {"ifgt", "if_icmpgt"} -> a > b
      [] op \in {"ifle", "if_icmple"} -> a <= b

-----------------------------------------------------------------------------
(* Steps *)

Ins == program[at]
Operand(k) == operands[Len(operands) - k]
Replace(k, new) == operands' = SubSeq(operands, 1, Len(operands) - k) \o new

Init == at = 1 /\ operands = <<>> /\ locals \in [0 .. Locals - 1 -> Words] /\ shown = <<>>

Straight ==
    /\ at' = at + 1
    /\ \/ Ins.op = "nop" /\ Replace(0, <<>>) /\ UNCHANGED locals
       \/ Ins.op \in Constants /\ Replace(0, <<Ins.n>>) /\ UNCHANGED locals
       \/ Ins.op \in Loads /\ Replace(0, <<locals[Ins.n]>>) /\ UNCHANGED locals
       \/ Ins.op \in Stores /\ Replace(1, <<>>) /\ locals' = [locals EXCEPT ![Ins.n] = Operand(0)]
       \/ Ins.op = "pop" /\ Replace(1, <<>>) /\ UNCHANGED locals
       \/ Ins.op = "dup" /\ Replace(0, <<Operand(0)>>) /\ UNCHANGED locals
       \/ Ins.op = "ineg" /\ Replace(1, <<Word(-Operand(0))>>) /\ UNCHANGED locals
       \/ /\ Ins.op \in Arithmetic
          /\ Replace(2, <<Result(Ins.op, Operand(1), Operand(0))>>) /\ UNCHANGED locals
       \/ /\ Ins.op = "iinc" /\ Replace(0, <<>>)
          /\ locals' = [locals EXCEPT ![Ins.n] = Word(@ + Ins.v)]
       \/ Ins.op = "getstatic" /\ Replace(0, <<0>>) /\ UNCHANGED locals
       \/ Ins.op = "putstatic" /\ Replace(1, <<>>) /\ UNCHANGED locals
    /\ UNCHANGED shown

Branch ==
    /\ \/ Ins.op = "goto" /\ Replace(0, <<>>) /\ at' = Ins.v
       \/ /\ Ins.op \in Tests /\ Replace(1, <<>>)
          /\ at' = IF Relation(Ins.op, Operand(0), 0) THEN Ins.v ELSE at + 1
       \/ /\ Ins.op \in Comparisons /\ Replace(2, <<>>)
          /\ at' = IF Relation(Ins.op, Operand(1), Operand(0)) THEN Ins.v ELSE at + 1
    /\ UNCHANGED <<locals, shown>>

Invoke ==
    /\ Ins.op = "invokestatic"
    /\ at' = at + 1
    /\ IF Ins.n \in Answers
       THEN (\E c \in Coordinates : Replace(0, <<c>>)) /\ UNCHANGED shown
       ELSE LET k == Parameters[Ins.n]
            IN  /\ Replace(k, <<>>)
                /\ shown' = <<Ins.n>> \o SubSeq(operands, Len(operands) - k + 1, Len(operands))
    /\ UNCHANGED locals

Return ==
    /\ Ins.op \in Returns /\ at' = 0
    /\ UNCHANGED <<operands, locals, shown>>

Next == at # 0 /\ (Straight \/ Branch \/ Invoke \/ Return) /\ UNCHANGED program
=============================================================================
