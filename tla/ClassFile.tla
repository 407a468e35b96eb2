----------------------------- MODULE ClassFile ------------------------------
(***************************************************************************)
(* Compiled methods as the class-file format defines them: a method is a   *)
(* sequence of instructions [op, n, v], where n is a number the            *)
(* instruction carries and v, in a branch, the number of its target (in    *)
(* iinc, the amount; in a call, the byte that lies behind each of the      *)
(* three names in the constant pool).  A byte of a method is addressed     *)
(* from 0.                                                                 *)
(***************************************************************************)
EXTENDS Integers, Sequences, SequencesExt

Constants   == {"iconst", "bipush", "sipush", "ldc"}
Loads       == {"iload_n", "iload"}
Stores      == {"istore_n", "istore"}
Bitwise     == {"iand", "ior", "ixor"}
Arithmetic  == {"iadd", "isub", "imul", "idiv", "irem", "ishl", "ishr"} \union Bitwise
Tests       == {"ifeq", "ifne", "iflt", "ifge", "ifgt", "ifle"}
Comparisons == {"if_icmpeq", "if_icmpne", "if_icmplt", "if_icmpge", "if_icmpgt", "if_icmple"}
Branches    == Tests \union Comparisons \union {"goto"}
Returns     == {"return", "ireturn"}

Opcodes ==
    Constants \union Loads \union Stores \union Arithmetic \union Branches \union Returns
    \union {"nop", "pop", "dup", "ineg", "iinc", "getstatic", "putstatic",
            "invokestatic", "invokevirtual", "newarray"}

\* The powers of two.
Power[k \in Nat] == IF k = 0 THEN 1 ELSE 2 * Power[k - 1]

\* Bytes of an instruction in the class file.
Width(op) ==
    CASE op \in {"bipush", "ldc", "iload", "istore", "newarray"} -> 2
      [] op \in {"sipush", "iinc", "getstatic", "putstatic"} -> 3
      [] op \in Branches \union {"invokestatic", "invokevirtual"} -> 3
      [] OTHER -> 1

\* Methods by number: the natives println of an int and of a string, getX,
\* getY, drawPixel, clear, update, and a method int f(int) of the class itself.
Parameters == <<1, 1, 0, 0, 3, 1, 0, 1>>
Answers == {3, 4, 8}

Pops(i) ==
    CASE i.op \in Stores \union Tests -> 1
      [] i.op \in {"pop", "dup", "ineg", "putstatic", "ireturn", "newarray"} -> 1
      [] i.op \in Arithmetic \union Comparisons -> 2
      [] i.op = "invokestatic"  -> Parameters[i.n]
      [] i.op = "invokevirtual" -> i.n + 1
      [] OTHER -> 0

Pushes(i) ==
    CASE i.op \in Constants \union Loads \union Arithmetic -> 1
      [] i.op \in {"ineg", "getstatic", "newarray"} -> 1
      [] i.op = "dup" -> 2
      [] i.op = "invokestatic" -> IF i.n \in Answers THEN 1 ELSE 0
      [] OTHER -> 0

Successors(p, k) ==
    (IF p[k].op \in Branches THEN {p[k].v} ELSE {})
        \union (IF p[k].op \in Returns \union {"goto"} THEN {} ELSE {k + 1})

\* The depths of the stack with which instructions are reached, as pairs.
Behind(p, e) ==
    {<<s, e[2] - Pops(p[e[1]]) + Pushes(p[e[1]])>> : s \in Successors(p, e[1])}
Follow(p, known) == known \union UNION {Behind(p, e) : e \in {f \in known : f[1] \in DOMAIN p}}
Depths(p) == FoldLeft(LAMBDA known, i : Follow(p, known), {<<1, 0>>}, p)

\* The format's rule: the method starts with nothing on the stack, an
\* instruction is reached with one depth, whichever way leads there, it finds
\* its operands, and the last one is not left downwards.
StackMap(p, known, depth) ==
    /\ <<1, 0>> \in known /\ Follow(p, known) = known
    /\ \A e \in known :
          /\ e[1] \in DOMAIN p
          /\ Pops(p[e[1]]) <= e[2]
          /\ e[2] - Pops(p[e[1]]) + Pushes(p[e[1]]) <= depth
          /\ \A f \in known : e[1] = f[1] => e = f

Verified(p, depth) == StackMap(p, Depths(p), depth)

\* The address of the first byte of instruction k is the number of bytes before
\* it; the method's length is the number of all.
BytesBefore(p, k) == UNION {{j} \X (1 .. Width(p[j].op)) : j \in 1 .. k - 1}
Address(p, k) == Cardinality(BytesBefore(p, k))
Length(p) == Address(p, Len(p) + 1)

\* The instruction that starts at an address.
StartsAt(p, byte) == {k \in DOMAIN p : Address(p, k) = byte}
=============================================================================
