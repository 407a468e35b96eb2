------------------------- MODULE InterpreterProofs --------------------------
(***************************************************************************)
(* Theorems about the bytecode interpreter, for every set of methods a     *)
(* compiler may write and for arrays of any size.                          *)
(***************************************************************************)
EXTENDS Interpreter, Induction, FiniteSetTheorems, TLAPS

-----------------------------------------------------------------------------
(* Addresses *)

\* An instruction has between one and three bytes.
LEMMA Widths ==
  ASSUME NEW op
  PROVE  Width(op) \in 1 .. 3
  BY DEF Width

\* The bytes before an instruction are a finite set.
LEMMA BytesFinite ==
  ASSUME NEW p, NEW k \in Int
  PROVE  IsFiniteSet(BytesBefore(p, k)) /\ Address(p, k) \in Nat
  <1> DEFINE box == (1 .. k - 1) \X (1 .. 3)
  <1>1. IsFiniteSet(1 .. k - 1) /\ IsFiniteSet(1 .. 3)
    <2>1. ASSUME NEW n \in Int PROVE IsFiniteSet(1 .. n)
      BY 1 \in Int, FS_Interval, Zenon
    <2>2. k - 1 \in Int /\ 3 \in Int
      OBVIOUS
    <2> QED
      BY <2>1, <2>2, Zenon
  <1>2. IsFiniteSet(box)
    BY <1>1, FS_Product
  <1>3. BytesBefore(p, k) \in SUBSET box
    <2> SUFFICES ASSUME NEW j \in 1 .. k - 1, NEW e \in {j} \X (1 .. Width(p[j].op))
                 PROVE  e \in box
      BY DEF BytesBefore
    <2>1. Width(p[j].op) \in 1 .. 3
      BY Widths
    <2> QED
      BY <2>1
  <1> HIDE DEF box
  <1>4. IsFiniteSet(BytesBefore(p, k))
    BY <1>2, <1>3, FS_Subset
  <1> QED
    BY <1>4, FS_CardinalityType DEF Address

\* The first instruction is at 0, and each lies behind the one before it.
LEMMA NextAddress ==
  ASSUME NEW p, NEW k \in Nat \ {0}
  PROVE  Address(p, 1) = 0 /\ Address(p, k + 1) = Address(p, k) + Width(p[k].op)
  <1> DEFINE own == {k} \X (1 .. Width(p[k].op))
  <1>1. BytesBefore(p, k + 1) = BytesBefore(p, k) \union own
    <2>1. 1 .. (k + 1) - 1 = (1 .. k - 1) \union {k}
      OBVIOUS
    <2> QED
      BY <2>1 DEF BytesBefore
  <1>2. BytesBefore(p, k) \intersect own = {}
    BY DEF BytesBefore
  <1>3. Width(p[k].op) \in 1 .. 3
    BY Widths
  <1>4. IsFiniteSet(own) /\ Cardinality(own) = Width(p[k].op)
    <2>1. IsFiniteSet({k}) /\ Cardinality({k}) = 1
      BY FS_Singleton
    <2>2. IsFiniteSet(1 .. Width(p[k].op)) /\ Cardinality(1 .. Width(p[k].op)) = Width(p[k].op)
      BY <1>3, FS_Interval
    <2> DEFINE w == Width(p[k].op)
    <2>3. IsFiniteSet({k} \X (1 .. w)) /\ Cardinality({k} \X (1 .. w)) = 1 * w
      <3> HIDE DEF w
      <3>1. /\ IsFiniteSet({k} \X (1 .. w))
            /\ Cardinality({k} \X (1 .. w)) = Cardinality({k}) * Cardinality(1 .. w)
        BY <2>1, <2>2, FS_Product DEF w
      <3> QED
        BY <2>1, <2>2, <3>1 DEF w
    <2> QED
      BY <1>3, <2>3
  <1> HIDE DEF own
  <1>5. IsFiniteSet(BytesBefore(p, k)) /\ Address(p, k) \in Nat
    BY BytesFinite
  <1>6. Cardinality(BytesBefore(p, k + 1)) = Cardinality(BytesBefore(p, k)) + Width(p[k].op)
    <2>1. Cardinality(BytesBefore(p, k) \union own) =
             Cardinality(BytesBefore(p, k)) + Cardinality(own)
                 - Cardinality(BytesBefore(p, k) \intersect own)
      BY <1>4, <1>5, FS_Union
    <2>2. Cardinality(BytesBefore(p, k)) \in Nat
      BY <1>5 DEF Address
    <2>3. Cardinality(BytesBefore(p, k) \intersect own) = 0
      BY <1>2, FS_EmptySet
    <2>4. Cardinality(BytesBefore(p, k + 1)) = Cardinality(BytesBefore(p, k) \union own)
      BY <1>1, Zenon
    <2> QED
      BY <1>3, <1>4, <2>1, <2>2, <2>3, <2>4
  <1>7. BytesBefore(p, 1) = {}
    BY DEF BytesBefore
  <1> QED
    BY <1>6, <1>7, FS_EmptySet DEF Address

\* A later instruction has a higher address.
LEMMA AddressGrows ==
  ASSUME NEW p, NEW j \in Nat \ {0}, NEW k \in Nat \ {0}, j < k
  PROVE  /\ Address(p, j) + Width(p[j].op) <= Address(p, k)
         /\ Address(p, j) < Address(p, k)
  <1>1. BytesBefore(p, j + 1) \in SUBSET BytesBefore(p, k)
    BY DEF BytesBefore
  <1>2. IsFiniteSet(BytesBefore(p, k)) /\ Address(p, k) \in Nat
    BY BytesFinite
  <1>3. Address(p, j + 1) <= Address(p, k)
    BY <1>1, <1>2, FS_Subset DEF Address
  <1>4. Address(p, j) \in Nat /\ Width(p[j].op) \in 1 .. 3
    BY BytesFinite, Widths
  <1> QED
    BY <1>2, <1>3, <1>4, NextAddress

\* No two instructions have the same address.
LEMMA AddressOfOne ==
  ASSUME NEW p, NEW j \in Nat \ {0}, NEW k \in Nat \ {0}, Address(p, j) = Address(p, k)
  PROVE  j = k
  <1>1. Address(p, j) \in Nat
    BY BytesFinite
  <1>2. ~(j < k) /\ ~(k < j)
    BY <1>1, AddressGrows
  <1> QED
    BY <1>2

-----------------------------------------------------------------------------
(* The class-file format *)

\* What an instruction takes from the stack and leaves there (Pops and Pushes),
\* group by group.
LEMMA Effects ==
  ASSUME NEW i
  PROVE  /\ i.op \in {"nop", "iinc", "goto", "return"} => Pops(i) = 0 /\ Pushes(i) = 0
         /\ i.op \in Constants \union Loads \union {"getstatic"} => Pops(i) = 0 /\ Pushes(i) = 1
         /\ i.op \in Stores \union Tests \union {"pop", "putstatic"} => Pops(i) = 1 /\ Pushes(i) = 0
         /\ i.op = "dup" => Pops(i) = 1 /\ Pushes(i) = 2
         /\ i.op = "ineg" => Pops(i) = 1 /\ Pushes(i) = 1
         /\ i.op \in Arithmetic => Pops(i) = 2 /\ Pushes(i) = 1
         /\ i.op \in Comparisons => Pops(i) = 2 /\ Pushes(i) = 0
         /\ i.op = "invokestatic" =>
               /\ i.n \in {3, 4} => Pops(i) = 0 /\ Pushes(i) = 1
               /\ i.n = 5 => Pops(i) = 3 /\ Pushes(i) = 0
               /\ i.n \in {1, 6} => Pops(i) = 1 /\ Pushes(i) = 0
               /\ i.n = 7 => Pops(i) = 0 /\ Pushes(i) = 0
  <1>1. Parameters[1] = 1 /\ Parameters[3] = 0 /\ Parameters[4] = 0 /\ Parameters[5] = 3
        /\ Parameters[6] = 1 /\ Parameters[7] = 0
    BY DEF Parameters
  <1>2. i.op = "invokestatic" => /\ Pops(i) = Parameters[i.n]
                                 /\ Pushes(i) = IF i.n \in Answers THEN 1 ELSE 0
    BY DEF Pops, Pushes, Stores, Tests, Arithmetic, Bitwise, Comparisons, Constants, Loads
  <1> QED
    BY <1>1, <1>2
       DEF Pops, Pushes, Answers, Stores, Tests, Arithmetic, Bitwise, Comparisons, Constants,
           Loads, Returns

\* The interpreter takes as many bytes behind an opcode as the format says.  Only
\* of an opcode without a case it does not know them.
LEMMA TakesWidth ==
  ASSUME NEW op \in Opcodes \ {"newarray"}
  PROVE  1 + OperandBytes(op) = Width(op) /\ OperandBytes(op) \in 0 .. 2
  BY DEF Opcodes, OperandBytes, Width, Stores, Tests, Arithmetic, Bitwise, Comparisons, Constants,
         Loads, Returns, Branches

-----------------------------------------------------------------------------
(* On the opcodes and inside the stack *)

\* The interpreter is at instruction k, with the depth the verifier knows.
Place(k) ==
    /\ k \in DOMAIN program /\ pc = Address(program, k)
    /\ <<k, sp + 1>> \in Depths(program)

\* The inductive invariant.
Inside ==
    /\ program \in Programs /\ Verified(program, STACK_SIZE)
    /\ sp \in Int /\ plain \in {"yes", "no"}
    /\ plain = "yes" =>
          /\ status \in {"running", "returned"} /\ pc <= Length(program)
          /\ status = "running" => \E k \in DOMAIN program : Place(k)

\* A method is a sequence of instructions.
LEMMA Methods ==
  ASSUME NEW p \in Programs
  PROVE  /\ DOMAIN p = 1 .. Len(p) /\ Len(p) \in Nat
         /\ \A k \in DOMAIN p :
               /\ p[k].op \in Opcodes /\ p[k].n \in Int /\ p[k].v \in Int
               /\ Pops(p[k]) \in Int /\ Pushes(p[k]) \in Int
  <1> DEFINE Instruction == [op : Opcodes, n : Int, v : Int]
  <1>1. p \in Seq(Instruction) /\ \A k \in DOMAIN p : p[k].op = "invokestatic" => p[k].n \in DOMAIN Parameters
    BY InterpreterAssumption DEF Compiled
  <1>2. ASSUME NEW i \in Instruction, i.op = "invokestatic" => i.n \in DOMAIN Parameters
        PROVE  Pops(i) \in Int /\ Pushes(i) \in Int
    <2>1. \A n \in DOMAIN Parameters : Parameters[n] \in Int
      BY DEF Parameters
    <2> QED
      BY <1>2, <2>1 DEF Pops, Pushes
  <1>3. \A i \in Instruction : i.op \in Opcodes /\ i.n \in Int /\ i.v \in Int
    OBVIOUS
  <1> HIDE DEF Instruction
  <1>4. DOMAIN p = 1 .. Len(p) /\ Len(p) \in Nat /\ \A k \in DOMAIN p : p[k] \in Instruction
    BY <1>1
  <1> QED
    BY <1>1, <1>2, <1>3, <1>4

\* The verifier has seen every instruction that is reached: it finds its operands
\* and leaves room, and what follows it is an instruction, too, reached with the
\* depth it leaves.
LEMMA Known ==
  ASSUME NEW p \in Programs, Verified(p, STACK_SIZE),
         NEW k, NEW d, <<k, d>> \in Depths(p)
  PROVE  /\ k \in DOMAIN p /\ Pops(p[k]) <= d /\ d - Pops(p[k]) + Pushes(p[k]) <= STACK_SIZE
         /\ \A t \in Successors(p, k) :
               t \in DOMAIN p /\ <<t, d - Pops(p[k]) + Pushes(p[k])>> \in Depths(p)
  <1> DEFINE e == <<k, d>>
             known == Depths(p)
  <1>1. /\ Follow(p, known) = known
        /\ \A f \in known : /\ f[1] \in DOMAIN p /\ Pops(p[f[1]]) <= f[2]
                            /\ f[2] - Pops(p[f[1]]) + Pushes(p[f[1]]) <= STACK_SIZE
    BY DEF Verified, StackMap
  <1> HIDE DEF known
  <1>2. e \in known /\ e[1] = k /\ e[2] = d
    BY DEF known
  <1>3. k \in DOMAIN p /\ Pops(p[k]) <= d /\ d - Pops(p[k]) + Pushes(p[k]) <= STACK_SIZE
    BY <1>1, <1>2
  <1>4. ASSUME NEW t \in Successors(p, k)
        PROVE  t \in DOMAIN p /\ <<t, d - Pops(p[k]) + Pushes(p[k])>> \in known
    <2> DEFINE g == <<t, d - Pops(p[k]) + Pushes(p[k])>>
    <2>1. g \in Behind(p, e)
      BY <1>2 DEF Behind
    <2>2. Behind(p, e) \subseteq Follow(p, known)
      BY <1>2, <1>3 DEF Follow
    <2>3. g \in known
      BY <1>1, <2>1, <2>2
    <2>4. g[1] = t
      OBVIOUS
    <2> QED
      BY <1>1, <2>3, <2>4
  <1> QED
    BY <1>3, <1>4 DEF known

\* The instruction that is fetched is the one the interpreter is at.
LEMMA Fetched ==
  ASSUME Inside, NEW k, Place(k), NEW ops, NEW i, Fetch(ops, i)
  PROVE  i = program[k] /\ i.op \in ops
  <1>1. PICK j \in StartsAt(program, pc) : program[j] = i
    BY DEF Fetch
  <1>2. DOMAIN program \subseteq Nat \ {0}
    BY Methods DEF Inside
  <1>3. j \in Nat \ {0} /\ k \in Nat \ {0} /\ Address(program, j) = Address(program, k)
    BY <1>1, <1>2 DEF StartsAt, Place
  <1>4. j = k
    BY <1>3, AddressOfOne
  <1> QED
    BY <1>1, <1>4 DEF Fetch

\* An instruction ends before the method does.
LEMMA EndsInside ==
  ASSUME Inside, NEW k \in DOMAIN program
  PROVE  /\ k \in Nat \ {0} /\ Address(program, k) \in Nat /\ Length(program) \in Nat
         /\ Address(program, k) + Width(program[k].op) <= Length(program)
  <1>1. k \in Nat \ {0} /\ Len(program) + 1 \in Nat \ {0} /\ k < Len(program) + 1
    BY Methods DEF Inside
  <1> QED
    BY <1>1, AddressGrows, BytesFinite DEF Length

\* A step to an instruction that may follow, with the depth that is left.
LEMMA Reached ==
  ASSUME Inside, NEW k, Place(k), NEW t \in Successors(program, k),
         program' = program, pc' = Address(program, t),
         sp' = sp - Pops(program[k]) + Pushes(program[k])
  PROVE  Place(t)' /\ pc' < Length(program)'
  <1> DEFINE d == (sp + 1) - Pops(program[k]) + Pushes(program[k])
  <1>1. t \in DOMAIN program /\ <<t, d>> \in Depths(program)
    <2>1. program \in Programs /\ Verified(program, STACK_SIZE) /\ <<k, sp + 1>> \in Depths(program)
      BY DEF Inside, Place
    <2> QED
      BY <2>1, Known
  <1>2. sp' + 1 = d
    BY Methods DEF Inside, Place
  <1>3. Address(program, t) < Length(program)
    BY <1>1, EndsInside, Widths
  <1> QED
    BY <1>1, <1>2, <1>3 DEF Place

\* An instruction that is neither a branch nor a return is followed by the next.
LEMMA GoesOn ==
  ASSUME Inside, NEW k, Place(k), NEW i, i = program[k],
         i.op \notin Branches \union Returns \union {"newarray"},
         Advance(i), sp' = sp - Pops(i) + Pushes(i), program' = program
  PROVE  Place(k + 1)' /\ pc' < Length(program)'
  <1>1. k \in Nat \ {0} /\ Address(program, k) \in Nat
    BY EndsInside DEF Place
  <1>2. i.op \in Opcodes \ {"newarray"}
    BY Methods DEF Inside, Place
  <1>3. pc' = Address(program, k) + Width(i.op)
    <2>1. /\ 1 + OperandBytes(i.op) = Width(i.op) /\ OperandBytes(i.op) \in 0 .. 2
          /\ Width(i.op) \in 1 .. 3
      BY <1>2, TakesWidth, Widths
    <2> QED
      BY <1>1, <2>1 DEF Advance, Place
  <1>4. pc' = Address(program, k + 1)
    BY <1>1, <1>3, NextAddress
  <1>5. k + 1 \in Successors(program, k)
    BY DEF Successors, Branches
  <1> QED
    BY <1>4, <1>5, Reached

\* A branch leads to its target or to the next instruction.
LEMMA Jumps ==
  ASSUME Inside, NEW k, Place(k), NEW i, i = program[k], i.op \in Branches,
         NEW taken \in BOOLEAN, i.op = "goto" => taken, Jump(i, taken),
         sp' = sp - Pops(i) + Pushes(i), program' = program
  PROVE  Place(IF taken THEN i.v ELSE k + 1)' /\ pc' < Length(program)'
  <1> DEFINE t == IF taken THEN i.v ELSE k + 1
  <1>1. k \in Nat \ {0} /\ Address(program, k) \in Nat /\ pc = Address(program, k)
    BY EndsInside DEF Place
  <1>2. i.v \in Int /\ Address(program, i.v) \in Nat
    BY Methods, BytesFinite DEF Inside, Place
  <1>3. OperandBytes(i.op) = 2 /\ Width(i.op) = 3
    BY DEF OperandBytes, Width, Branches, Tests, Comparisons
  <1>4. pc' = Address(program, t)
    <2>1. CASE taken
      BY <1>1, <1>2, <1>3, <2>1 DEF Jump, Offset
    <2>2. CASE ~taken
      BY <1>1, <1>3, <2>2, NextAddress DEF Jump
    <2> QED
      BY <2>1, <2>2
  <1>5. t \in Successors(program, k)
    BY DEF Successors, Branches, Returns, Tests, Comparisons
  <1> HIDE DEF t
  <1>6. Place(t)' /\ pc' < Length(program)'
    BY <1>4, <1>5, Reached
  <1> QED
    BY <1>6 DEF t

\* Operands that the verifier has seen are on the stack, and there is room for
\* what is pushed.
LEMMA StackFits ==
  ASSUME Inside, NEW k, Place(k), NEW n, NEW new, Stack(n, new),
         n = Pops(program[k]), Len(new) = Pushes(program[k])
  PROVE  sp' = sp - Pops(program[k]) + Pushes(program[k]) /\ status' = status
  <1>1. /\ Pops(program[k]) \in Int /\ Pushes(program[k]) \in Int
        /\ sp \in Int
    BY Methods DEF Inside, Place
  <1>2. Pops(program[k]) <= sp + 1
        /\ (sp + 1) - Pops(program[k]) + Pushes(program[k]) <= STACK_SIZE
    BY Known DEF Inside, Place
  <1> QED
    BY <1>1, <1>2, InterpreterAssumption DEF Stack

\* The actions after which the next instruction is due, nothing skipped.
Straight(i) ==
    \/ Nop(i) \/ Constant(i) \/ Load(i) \/ Store(i) \/ Pop(i) \/ Dup(i)
    \/ Binary(i) \/ Negate(i) \/ Increment(i)
    \/ GetMouse(i) \/ DrawPixel(i) \/ ShowOne(i) \/ Update(i)
    \/ GetStatic(i) \/ PutStatic(i)

\* The actions that skip an instruction.
Skip(i) == PrintString(i) \/ Unresolved(i) \/ SkipInvoke(i) \/ SkipOpcode(i)

\* The operations on the stack, with what they take and leave.
LEMMA StraightMoves ==
  ASSUME Inside, NEW k, Place(k), NEW i, Straight(i), program' = program
  PROVE  /\ i = program[k] /\ plain' = plain /\ status' = status
         /\ Place(k + 1)' /\ pc' < Length(program)'
  <1> DEFINE Done(ops) == /\ i = program[k] /\ i.op \in ops /\ Advance(i) /\ plain' = plain
                          /\ sp' = sp - Pops(i) + Pushes(i) /\ status' = status
  <1>0. sp \in Int
    BY DEF Inside
  <1>1. CASE Nop(i)
    <2>1. Fetch({"nop"}, i) /\ Advance(i) /\ UNCHANGED <<sp, status, plain>>
      BY <1>1 DEF Nop
    <2>2. Done({"nop"})
      BY <1>0, <2>1, Fetched, Effects
    <2> QED
      BY <2>2, GoesOn DEF Branches, Tests, Comparisons, Returns
  <1>2. CASE Increment(i)
    <2>1. Fetch({"iinc"}, i) /\ Advance(i) /\ UNCHANGED <<sp, status, plain>>
      BY <1>2 DEF Increment
    <2>2. Done({"iinc"})
      BY <1>0, <2>1, Fetched, Effects
    <2> QED
      BY <2>2, GoesOn DEF Branches, Tests, Comparisons, Returns
  <1>3. CASE Update(i)
    <2>1. Fetch({"invokestatic"}, i) /\ i.n = 7 /\ Advance(i) /\ UNCHANGED <<sp, status, plain>>
      BY <1>3 DEF Update, InvokeStatic, handle_native_call
    <2>2. Done({"invokestatic"})
      BY <1>0, <2>1, Fetched, Effects
    <2> QED
      BY <2>2, GoesOn DEF Branches, Tests, Comparisons, Returns
  <1>4. ASSUME NEW x, NEW ops, Fetch(ops, i), Advance(i), Stack(0, <<x>>), plain' = plain,
               ops \subseteq Constants \union Loads \union {"getstatic"}
        PROVE  Done(ops) /\ Place(k + 1)' /\ pc' < Length(program)'
    <2>1. i = program[k] /\ i.op \in ops /\ Pops(i) = 0 /\ Pushes(i) = 1 /\ Len(<<x>>) = 1
      BY <1>4, Fetched, Effects
    <2>2. Done(ops)
      BY <1>4, <2>1, StackFits
    <2> QED
      BY <1>4, <2>2, GoesOn DEF Branches, Tests, Comparisons, Returns, Constants, Loads
  <1>5. ASSUME NEW ops, Fetch(ops, i), Advance(i), Stack(1, <<>>), plain' = plain,
               ops \subseteq Stores \union {"pop", "putstatic"}
        PROVE  Done(ops) /\ Place(k + 1)' /\ pc' < Length(program)'
    <2>1. i = program[k] /\ i.op \in ops /\ Pops(i) = 1 /\ Pushes(i) = 0 /\ Len(<<>>) = 0
      BY <1>5, Fetched, Effects
    <2>2. Done(ops)
      BY <1>5, <2>1, StackFits
    <2> QED
      BY <1>5, <2>2, GoesOn DEF Branches, Tests, Comparisons, Returns, Stores
  <1>6. CASE Constant(i)
    BY <1>4, <1>6 DEF Constant
  <1>7. CASE Load(i)
    BY <1>4, <1>7 DEF Load
  <1>8. CASE GetStatic(i)
    BY <1>4, <1>8 DEF GetStatic
  <1>9. CASE Store(i)
    BY <1>5, <1>9 DEF Store
  <1>10. CASE Pop(i) \/ PutStatic(i)
    BY <1>5, <1>10 DEF Pop, PutStatic
  <1>11. CASE Dup(i)
    <2>1. Fetch({"dup"}, i) /\ Advance(i) /\ plain' = plain
      BY <1>11 DEF Dup
    <2>2. PICK x : Stack(1, <<x, x>>)
      BY <1>11 DEF Dup
    <2>3. i = program[k] /\ i.op = "dup" /\ Pops(i) = 1 /\ Pushes(i) = 2 /\ Len(<<x, x>>) = 2
      BY <2>1, Fetched, Effects
    <2>4. Done({"dup"})
      BY <2>1, <2>2, <2>3, StackFits
    <2> QED
      BY <2>4, GoesOn DEF Branches, Tests, Comparisons, Returns
  <1>12. CASE Binary(i)
    <2>1. Fetch(Arithmetic, i) /\ Advance(i) /\ plain' = plain
      BY <1>12 DEF Binary
    <2>2. PICK x : Stack(2, <<x>>)
      BY <1>12 DEF Binary
    <2>3. i = program[k] /\ i.op \in Arithmetic /\ Pops(i) = 2 /\ Pushes(i) = 1 /\ Len(<<x>>) = 1
      BY <2>1, Fetched, Effects
    <2>4. Done(Arithmetic)
      BY <2>1, <2>2, <2>3, StackFits
    <2> QED
      BY <2>4, GoesOn DEF Branches, Tests, Comparisons, Returns, Arithmetic, Bitwise
  <1>13. CASE Negate(i)
    <2>1. Fetch({"ineg"}, i) /\ Advance(i) /\ plain' = plain
      BY <1>13 DEF Negate
    <2>2. PICK x : Stack(1, <<x>>)
      BY <1>13 DEF Negate
    <2>3. i = program[k] /\ i.op = "ineg" /\ Pops(i) = 1 /\ Pushes(i) = 1 /\ Len(<<x>>) = 1
      BY <2>1, Fetched, Effects
    <2>4. Done({"ineg"})
      BY <2>1, <2>2, <2>3, StackFits
    <2> QED
      BY <2>4, GoesOn DEF Branches, Tests, Comparisons, Returns
  <1>14. CASE GetMouse(i)
    <2>1. Fetch({"invokestatic"}, i) /\ i.n \in {3, 4} /\ Advance(i) /\ plain' = plain
      BY <1>14 DEF GetMouse, InvokeStatic, handle_native_call
    <2>2. PICK x : Stack(0, <<x>>)
      BY <1>14 DEF GetMouse
    <2>3. i = program[k] /\ i.op = "invokestatic" /\ Pops(i) = 0 /\ Pushes(i) = 1 /\ Len(<<x>>) = 1
      BY <2>1, Fetched, Effects
    <2>4. Done({"invokestatic"})
      BY <2>1, <2>2, <2>3, StackFits
    <2> QED
      BY <2>4, GoesOn DEF Branches, Tests, Comparisons, Returns
  <1>15. CASE DrawPixel(i)
    <2>1. /\ Fetch({"invokestatic"}, i) /\ i.n = 5 /\ Advance(i) /\ plain' = plain
          /\ Stack(3, <<>>)
      BY <1>15 DEF DrawPixel, InvokeStatic, handle_native_call
    <2>2. i = program[k] /\ i.op = "invokestatic" /\ Pops(i) = 3 /\ Pushes(i) = 0 /\ Len(<<>>) = 0
      BY <2>1, Fetched, Effects
    <2>3. Done({"invokestatic"})
      BY <2>1, <2>2, StackFits
    <2> QED
      BY <2>3, GoesOn DEF Branches, Tests, Comparisons, Returns
  <1>16. CASE ShowOne(i)
    <2>1. /\ Fetch({"invokestatic"}, i) /\ i.n \in {1, 6} /\ Advance(i) /\ plain' = plain
          /\ Stack(1, <<>>)
      BY <1>16 DEF ShowOne, InvokeStatic, handle_native_call
    <2>2. i = program[k] /\ i.op = "invokestatic" /\ Pops(i) = 1 /\ Pushes(i) = 0 /\ Len(<<>>) = 0
      BY <2>1, Fetched, Effects
    <2>3. Done({"invokestatic"})
      BY <2>1, <2>2, StackFits
    <2> QED
      BY <2>3, GoesOn DEF Branches, Tests, Comparisons, Returns
  <1> QED
    BY <1>1, <1>2, <1>3, <1>6, <1>7, <1>8, <1>9, <1>10, <1>11, <1>12, <1>13, <1>14, <1>15, <1>16
       DEF Straight

\* Whether a branch is taken, of an instruction and the operands on top.
Taken(i) ==
    \/ i.op \in Tests /\ Holds(i.op, Peek(0), 0)
    \/ i.op \in Comparisons /\ Holds(i.op, Peek(1), Peek(0))
    \/ i.op = "goto"

\* The branches.
LEMMA BranchMoves ==
  ASSUME Inside, NEW k, Place(k), NEW i, Test(i) \/ Compare(i) \/ Goto(i), program' = program,
         NEW t, t = IF Taken(i) THEN i.v ELSE k + 1
  PROVE  /\ i = program[k] /\ i.op \in Branches /\ plain' = plain /\ status' = status
         /\ Place(t)' /\ pc' < Length(program)'
  <1>0. sp \in Int
    BY DEF Inside
  <1>1. PICK b \in BOOLEAN : b <=> Taken(i)
    OBVIOUS
  <1>2. ASSUME i = program[k], i.op \in Branches, Jump(i, b), i.op = "goto" => b,
               sp' = sp - Pops(i) + Pushes(i)
        PROVE  Place(t)' /\ pc' < Length(program)'
    <2>1. t = IF b THEN i.v ELSE k + 1
      BY <1>1
    <2>2. ASSUME NEW u, u = IF b THEN i.v ELSE k + 1
          PROVE  Place(u)' /\ pc' < Length(program)'
      BY <1>2, <2>2, Jumps
    <2> QED
      BY <2>1, <2>2
  <1>3. CASE Test(i)
    <2>1. /\ Fetch(Tests, i) /\ Stack(1, <<>>) /\ plain' = plain
          /\ Jump(i, Holds(i.op, Peek(0), 0))
      BY <1>3 DEF Test
    <2>2. i = program[k] /\ i.op \in Tests /\ Pops(i) = 1 /\ Pushes(i) = 0 /\ Len(<<>>) = 0
      BY <2>1, Fetched, Effects
    <2>3. sp' = sp - Pops(i) + Pushes(i) /\ status' = status
      BY <2>1, <2>2, StackFits
    <2>4. b <=> Holds(i.op, Peek(0), 0)
      BY <1>1, <2>2 DEF Taken, Tests, Comparisons
    <2>5. Jump(i, b)
      BY <2>1, <2>4 DEF Jump
    <2> QED
      BY <1>2, <2>1, <2>2, <2>3, <2>5 DEF Branches, Tests
  <1>4. CASE Compare(i)
    <2>1. /\ Fetch(Comparisons, i) /\ Stack(2, <<>>) /\ plain' = plain
          /\ Jump(i, Holds(i.op, Peek(1), Peek(0)))
      BY <1>4 DEF Compare
    <2>2. i = program[k] /\ i.op \in Comparisons /\ Pops(i) = 2 /\ Pushes(i) = 0 /\ Len(<<>>) = 0
      BY <2>1, Fetched, Effects
    <2>3. sp' = sp - Pops(i) + Pushes(i) /\ status' = status
      BY <2>1, <2>2, StackFits
    <2>4. b <=> Holds(i.op, Peek(1), Peek(0))
      BY <1>1, <2>2 DEF Taken, Tests, Comparisons
    <2>5. Jump(i, b)
      BY <2>1, <2>4 DEF Jump
    <2> QED
      BY <1>2, <2>1, <2>2, <2>3, <2>5 DEF Branches, Comparisons
  <1>5. CASE Goto(i)
    <2>1. Fetch({"goto"}, i) /\ Jump(i, TRUE) /\ UNCHANGED <<sp, status, plain>>
      BY <1>5 DEF Goto
    <2>2. i = program[k] /\ i.op = "goto" /\ Pops(i) = 0 /\ Pushes(i) = 0
      BY <2>1, Fetched, Effects
    <2>3. sp' = sp - Pops(i) + Pushes(i)
      BY <1>0, <2>1, <2>2
    <2>4. b = TRUE
      BY <1>1, <2>2 DEF Taken
    <2> QED
      BY <1>2, <2>1, <2>2, <2>3, <2>4 DEF Branches
  <1> QED
    BY <1>3, <1>4, <1>5

\* The stack pointer stays a number, whatever is executed.
LEMMA DepthMoves ==
  ASSUME Inside, execute_bytecode
  PROVE  sp' \in Int /\ plain' \in {plain, "no"}
  <1>0. sp \in Int
    BY DEF Inside
  <1>1. ASSUME NEW n \in Int, NEW new, Len(new) \in Int, Stack(n, new)
        PROVE  sp' \in Int
    BY <1>0, <1>1 DEF Stack
  <1>2. ASSUME NEW x PROVE Len(<<x>>) = 1 /\ Len(<<>>) = 0 /\ Len(<<x, x>>) = 2
    OBVIOUS
  <1>3. ASSUME NEW i, NEW x, Stack(0, <<x>>) \/ Stack(1, <<x>>) \/ Stack(2, <<x>>) \/ Stack(1, <<x, x>>)
        PROVE  sp' \in Int
    BY <1>1, <1>2, <1>3
  <1>4. ASSUME Stack(1, <<>>) \/ Stack(2, <<>>) \/ Stack(3, <<>>)
        PROVE  sp' \in Int
    BY <1>1, <1>2, <1>4
  <1>5. CASE Derail
    BY <1>0, <1>5 DEF Derail
  <1>6. ASSUME NEW i, Constant(i) \/ Load(i) \/ Dup(i) \/ Binary(i) \/ Negate(i) \/ GetMouse(i) \/ GetStatic(i)
        PROVE  sp' \in Int /\ plain' = plain
    BY <1>3, <1>6 DEF Constant, Load, Dup, Binary, Negate, GetMouse, GetStatic
  <1>7. ASSUME NEW i, Store(i) \/ Pop(i) \/ Test(i) \/ Compare(i) \/ DrawPixel(i) \/ ShowOne(i) \/ PutStatic(i)
        PROVE  sp' \in Int /\ plain' = plain
    BY <1>4, <1>7 DEF Store, Pop, Test, Compare, DrawPixel, ShowOne, PutStatic
  <1>8. ASSUME NEW i, Nop(i) \/ Increment(i) \/ Goto(i) \/ Return(i) \/ Update(i)
        PROVE  sp' = sp /\ plain' = plain
    BY <1>8 DEF Nop, Increment, Goto, Return, Update
  <1>9. ASSUME NEW i, Skip(i)
        PROVE  sp' \in Int /\ plain' = "no"
    BY <1>0, <1>4, <1>9 DEF Skip, PrintString, Unresolved, SkipInvoke, SkipOpcode
  <1> QED
    BY <1>0, <1>5, <1>6, <1>7, <1>8, <1>9 DEF execute_bytecode, Skip, Derail

\* Every step of the interpreter keeps the invariant.
LEMMA InsideStep == Inside /\ Next => Inside'
  <1> SUFFICES ASSUME Inside, Next PROVE Inside'
    OBVIOUS
  <1>1. program' = program /\ execute_bytecode
    BY DEF Next
  <1>2. /\ program \in Programs /\ Verified(program, STACK_SIZE)
        /\ sp' \in Int /\ plain' \in {"yes", "no"} /\ plain' \in {plain, "no"}
    BY <1>1, DepthMoves DEF Inside
  <1>3. CASE plain' = "no"
    BY <1>1, <1>2, <1>3 DEF Inside
  <1>4. CASE plain' = "yes"
    <2>1. plain = "yes" /\ status \in {"running", "returned"}
      BY <1>2, <1>4 DEF Inside
    <2>2. status = "running"
      <3>1. status = "running" \/ ~Running
        BY DEF Running
      <3>2. Running
        BY <1>1 DEF execute_bytecode, Derail, Nop, Constant, Load, Store, Pop, Dup, Binary, Negate,
                    Increment, Test, Compare, Goto, Return, GetMouse, DrawPixel, ShowOne, Update,
                    PrintString, Unresolved, SkipInvoke, GetStatic, PutStatic, SkipOpcode,
                    InvokeStatic, Fetch
      <3> QED
        BY <3>1, <3>2
    <2>3. PICK k \in DOMAIN program : Place(k)
      BY <2>1, <2>2 DEF Inside
    <2>4. ~Derail
      BY <2>3 DEF Derail, StartsAt, Place
    <2>5. PICK i : Straight(i) \/ Test(i) \/ Compare(i) \/ Goto(i) \/ Return(i) \/ Skip(i)
      BY <1>1, <2>4 DEF execute_bytecode, Straight, Skip
    <2>6. ~Skip(i)
      BY <1>4 DEF Skip, PrintString, Unresolved, SkipInvoke, SkipOpcode
    <2>7. Length(program) \in Nat
      BY <2>3, EndsInside
    <2>10. ASSUME NEW t \in DOMAIN program, Place(t)', pc' < Length(program)
           PROVE  pc' <= Length(program)'
      <3>1. pc' = Address(program, t)
        BY <1>1, <2>10 DEF Place
      <3> QED
        BY <1>1, <2>7, <2>10, <3>1, EndsInside
    <2>8. CASE Return(i)
      <3>1. pc' = pc + 1 /\ status' = "returned"
        BY <2>8 DEF Return
      <3>2. pc' <= Length(program)
        BY <2>3, <2>7, <3>1, EndsInside, Widths DEF Place
      <3> QED
        BY <1>1, <1>2, <3>1, <3>2 DEF Inside
    <2>9. CASE Straight(i)
      <3>1. status' = "running" /\ Place(k + 1)' /\ pc' < Length(program)
        BY <1>1, <2>2, <2>3, <2>9, StraightMoves
      <3>2. k + 1 \in DOMAIN program
        BY <1>1, <3>1 DEF Place
      <3>3. PICK t \in DOMAIN program : t = k + 1
        BY <3>2
      <3>4. Place(t)'
        BY <3>1, <3>3
      <3> QED
        BY <1>1, <1>2, <2>7, <2>10, <3>1, <3>4 DEF Inside
    <2>11. CASE Test(i) \/ Compare(i) \/ Goto(i)
      <3>1. PICK t : t = IF Taken(i) THEN i.v ELSE k + 1
        OBVIOUS
      <3>2. status' = "running" /\ Place(t)' /\ pc' < Length(program)
        BY <1>1, <2>2, <2>3, <2>11, <3>1, BranchMoves
      <3>3. t \in DOMAIN program
        BY <1>1, <3>2 DEF Place
      <3> QED
        BY <1>1, <1>2, <2>7, <2>10, <3>2, <3>3 DEF Inside
    <2> QED
      BY <2>5, <2>6, <2>8, <2>9, <2>11
  <1> QED
    BY <1>2, <1>3, <1>4

\* Before the first instruction nothing is on the stack.
LEMMA InsideStart == Init => Inside
  <1> SUFFICES ASSUME Init PROVE Inside
    OBVIOUS
  <1>1. /\ program \in Programs /\ Verified(program, STACK_SIZE)
        /\ pc = 0 /\ sp = -1 /\ status = "running" /\ plain = "yes"
    BY DEF Init
  <1>2. <<1, 0>> \in Depths(program)
    BY <1>1 DEF Verified, StackMap
  <1>3. 1 \in DOMAIN program
    BY <1>1, <1>2, Known
  <1>4. Address(program, 1) = 0
    BY NextAddress
  <1>5. Place(1)
    <2>1. sp + 1 = 0
      BY <1>1
    <2> QED
      BY <1>1, <1>2, <1>3, <1>4, <2>1 DEF Place
  <1>6. Length(program) \in Nat
    BY <1>1, Methods, BytesFinite DEF Length
  <1> QED
    BY <1>1, <1>3, <1>5, <1>6 DEF Inside

\* A verified method is executed with the program counter on its opcodes and the
\* stack pointer in the array, for every size of the array, as long as nothing is
\* skipped (bytecode.c:98-214, bytecode.h:76-78).
THEOREM StaysInsideMethod == Spec => []StaysInside
  <1>1. Inside /\ UNCHANGED vars => Inside'
    BY DEF vars, Inside, Place
  <1>2. Inside => StaysInside
    BY DEF Inside, StaysInside
  <1> QED
    BY <1>1, <1>2, InsideStart, InsideStep, PTL DEF Spec

-----------------------------------------------------------------------------
(* Numbers *)

\* Quotient and remainder of a division by a positive number.
LEMMA Division ==
  ASSUME NEW a \in Int, NEW c \in Nat \ {0}
  PROVE  /\ a \div c \in Int /\ a % c \in 0 .. c - 1
         /\ a = (a \div c) * c + (a % c)
  OBVIOUS

\* A quotient is not longer than what was divided.
LEMMA Quotients ==
  ASSUME NEW a \in Int, NEW c \in Nat \ {0}
  PROVE  /\ a >= 0 => a \div c \in 0 .. a
         /\ a < 0 => a \div c \in a .. -1
  <1> DEFINE q == a \div c
             m == a % c
  <1>1. q \in Int /\ m \in 0 .. c - 1 /\ a = q * c + m
    BY Division
  <1> HIDE DEF q, m
  <1>2. q > 0 => q * c >= q
    BY <1>1
  <1>3. q < 0 => q * c <= q /\ q * c + c <= 0
    BY <1>1
  <1>4. q = 0 => q * c = 0
    BY <1>1
  <1> QED
    BY <1>1, <1>2, <1>3, <1>4 DEF q

\* The powers of two, one by one.
LEMMA PowerOf ==
  /\ Power[0] = 1
  /\ \A k \in Nat : Power[k] \in Nat \ {0} /\ Power[k + 1] = 2 * Power[k]
  <1> DEFINE N == Nat \ {0}
             step == [p \in Nat \X N |-> 2 * p[2]]
             Solves(g) == g = [k \in Nat |-> IF k = 0 THEN 1 ELSE 2 * g[k - 1]]
  <1>1. 1 \in N /\ step \in [Nat \X N -> N]
    OBVIOUS
  <1>2. PICK f \in [Nat -> N] : Counts(f, 1, step)
    <2> HIDE DEF N, step
    <2> QED
      BY <1>1, NumberRecursion
  <1>3. Solves(f)
    <2> SUFFICES ASSUME NEW k \in Nat PROVE f[k] = IF k = 0 THEN 1 ELSE 2 * f[k - 1]
      BY <1>2
    <2>1. f[k] = IF k = 0 THEN 1 ELSE step[<<k, f[k - 1]>>]
      BY <1>2 DEF Counts
    <2>2. k # 0 => <<k, f[k - 1]>> \in Nat \X N
      BY <1>2
    <2> QED
      BY <2>1, <2>2
  <1>4. Solves(Power)
    <2>1. Power = CHOOSE g : Solves(g)
      BY DEF Power
    <2> HIDE DEF Solves
    <2> QED
      BY <1>3, <2>1
  <1> DEFINE P == Power
             T == {k \in Nat : P[k] \in N}
  <1>5. \A k \in Nat : P[k] = IF k = 0 THEN 1 ELSE 2 * P[k - 1]
    BY <1>4
  <1> HIDE DEF P
  <1>6. P[0] = 1 /\ \A k \in Nat : P[k + 1] = 2 * P[k]
    <2>1. \A k \in Nat : k + 1 \in Nat /\ k + 1 # 0 /\ (k + 1) - 1 = k
      OBVIOUS
    <2> QED
      BY <1>5, <2>1
  <1>7. 0 \in T /\ \A k \in Nat : k \in T => k + 1 \in T
    BY <1>6
  <1>8. Nat \subseteq T
    <2> HIDE DEF T
    <2> QED
      BY <1>7, ByNumber
  <1> QED
    BY <1>6, <1>8 DEF P

\* The powers of a sum.
LEMMA Exponents ==
  ASSUME NEW k \in Nat, NEW j \in Nat
  PROVE  Power[k + j] = Power[k] * Power[j]
  <1> DEFINE T == {e \in Nat : Power[k + e] = Power[k] * Power[e]}
  <1>1. 0 \in T
    BY PowerOf
  <1>2. ASSUME NEW e \in Nat, e \in T PROVE e + 1 \in T
    <2>1. k + (e + 1) = (k + e) + 1 /\ k + e \in Nat
      OBVIOUS
    <2>2. Power[k + (e + 1)] = 2 * Power[k + e] /\ Power[e + 1] = 2 * Power[e]
      BY <2>1, PowerOf
    <2>3. PICK x \in Nat, y \in Nat : x = Power[k] /\ y = Power[e]
      BY PowerOf
    <2>4. 2 * (x * y) = x * (2 * y)
      OBVIOUS
    <2> QED
      BY <1>2, <2>2, <2>3, <2>4
  <1> HIDE DEF T
  <1>3. Nat \subseteq T
    BY <1>1, <1>2, ByNumber
  <1> QED
    BY <1>3 DEF T

\* The powers at the width of int32_t.
LEMMA WidthPowers ==
  /\ Bits \in Nat /\ Bits - 1 \in Nat /\ Bits - 2 \in Nat
  /\ Power[Bits - 1] \in Nat \ {0} /\ Power[Bits - 2] \in Nat \ {0}
  /\ Power[Bits] = 2 * Power[Bits - 1] /\ Power[Bits - 1] = 2 * Power[Bits - 2]
  <1>1. PICK k \in Nat : Bits = (k + 1) + 1 /\ Bits - 1 = k + 1 /\ Bits - 2 = k /\ k + 1 \in Nat
    <2>1. PICK k \in Int : k = Bits - 2
      BY InterpreterAssumption
    <2>2. k \in Nat /\ Bits = (k + 1) + 1 /\ Bits - 1 = k + 1 /\ Bits - 2 = k
      BY <2>1, InterpreterAssumption
    <2> QED
      BY <2>2
  <1>2. /\ Power[k] \in Nat \ {0} /\ Power[k + 1] \in Nat \ {0}
        /\ Power[k + 1] = 2 * Power[k] /\ Power[(k + 1) + 1] = 2 * Power[k + 1]
    BY <1>1, PowerOf
  <1> QED
    BY <1>1, <1>2, InterpreterAssumption

\* The machine counts with the same powers.
LEMMA SamePowers == Machine!Power = Power
  BY DEF Machine!Power, Power

\* The range of int32_t, and what a wrapped number is in it.
LEMMA Range32 ==
  /\ Power[Bits - 1] \in Nat \ {0} /\ 0 \in Int32s /\ Int32s \subseteq Int
  /\ \A c \in Coordinates : c \in Int32s
  /\ \A n \in Int : Int32(n) \in Int32s
  /\ \A n \in Int32s : Int32(n) = n
  /\ \A b \in Int : b % Bits \in Int /\ Power[b % Bits] \in Nat \ {0}
  <1> DEFINE P == Power[Bits - 1]
             Q == Power[Bits]
  <1>1. P \in Nat \ {0} /\ Q = 2 * P
    BY WidthPowers
  <1>2. Int32s = -P .. P - 1 /\ \A n : Int32(n) = ((n + P) % Q) - P
    BY DEF Int32s, Int32
  <1>3. ASSUME NEW c \in Coordinates PROVE c \in 0 .. P - 1
    BY InterpreterAssumption
  <1>4. ASSUME NEW b \in Int
        PROVE  b % Bits \in 0 .. Bits - 1 /\ Power[b % Bits] \in Nat \ {0}
    <2>1. b % Bits \in 0 .. Bits - 1
      BY InterpreterAssumption, Division
    <2> QED
      BY <2>1, InterpreterAssumption, PowerOf
  <1> HIDE DEF P, Q
  <1>5. ASSUME NEW n \in Int
        PROVE  ((n + P) % Q) - P \in -P .. P - 1
    <2>1. (n + P) % Q \in 0 .. Q - 1
      BY <1>1, Division
    <2> QED
      BY <1>1, <2>1
  <1>6. ASSUME NEW n \in -P .. P - 1
        PROVE  ((n + P) % Q) - P = n
    <2>1. n + P \in 0 .. Q - 1
      BY <1>1
    <2>2. (n + P) % Q = n + P
      BY <1>1, <2>1
    <2> QED
      BY <1>1, <2>2
  <1>7. P \in Nat \ {0} /\ 0 \in Int32s /\ Int32s \subseteq Int /\ Coordinates \subseteq Int32s
    BY <1>1, <1>2, <1>3
  <1>8. (\A n \in Int : Int32(n) \in Int32s) /\ (\A n \in Int32s : Int32(n) = n)
    BY <1>2, <1>5, <1>6
  <1> QED
    BY <1>4, <1>7, <1>8 DEF P

\* The Java machine's numbers are the interpreter's.
LEMMA SameNumbers ==
  /\ Machine!Words = Int32s
  /\ \A n \in Int : Machine!Word(n) = Int32(n)
  /\ \A n : Machine!Magnitude(n) = Size(n)
  <1> DEFINE P == Power[Bits - 1]
             Q == Power[Bits]
  <1>1. P \in Nat \ {0} /\ Q \in Nat \ {0}
    BY WidthPowers
  <1>2. /\ Machine!Words = -P .. -(-P) - 1 /\ Int32s = -P .. P - 1
        /\ \A n : Int32(n) = ((n + P) % Q) - P
        /\ \A n : Machine!Word(n) = ((n - (-P)) % Q) + (-P)
    BY SamePowers DEF Machine!Words, Machine!Least, Machine!Word, Int32s, Int32
  <1> HIDE DEF P, Q
  <1>3. Machine!Words = Int32s
    BY <1>1, <1>2
  <1>4. ASSUME NEW n \in Int PROVE Machine!Word(n) = Int32(n)
    <2>1. n - (-P) = n + P
      BY <1>1
    <2>2. (n + P) % Q \in Int
      BY <1>1, Division
    <2> QED
      BY <1>1, <1>2, <2>1, <2>2
  <1> QED
    BY <1>3, <1>4 DEF Machine!Magnitude, Size

\* A product is either zero or at least as long as its factors.
LEMMA ShortProduct ==
  ASSUME NEW d \in Int, NEW b \in Int \ {0}, Size(d * b) < Size(b)
  PROVE  d = 0
  <1>1. d >= 1 /\ b >= 1 => d * b >= b
    OBVIOUS
  <1>2. d >= 1 /\ b <= -1 => d * b <= b
    OBVIOUS
  <1>3. d <= -1 /\ b >= 1 => d * b <= -b
    OBVIOUS
  <1>4. d <= -1 /\ b <= -1 => d * b >= -b
    OBVIOUS
  <1> QED
    BY <1>1, <1>2, <1>3, <1>4 DEF Size

\* The quotient towards zero and its remainder divide as the machine says, and
\* no other pair does.
LEMMA Dividing ==
  ASSUME NEW a \in Int32s, NEW b \in Int32s \ {0}
  PROVE  LET q == Towards0(a, b)
             r == a - b * q
         IN  /\ q \in Int /\ Size(q) <= Size(a) /\ r \in Int32s
             /\ Machine!Divides(a, b, q, r)
             /\ \A s \in Int, t \in Int : Machine!Divides(a, b, s, t) => s = q /\ t = r
  <1> DEFINE q == Towards0(a, b)
             r == a - b * q
             k == Size(a) \div Size(b)
             m == Size(a) % Size(b)
  <1>1. a \in Int /\ b \in Int \ {0} /\ Size(a) \in Nat /\ Size(b) \in Nat \ {0}
    BY Range32 DEF Size
  <1>2. k \in 0 .. Size(a) /\ m \in 0 .. Size(b) - 1 /\ Size(a) = k * Size(b) + m
    <2>1. ASSUME NEW A \in Nat, NEW B \in Nat \ {0}
          PROVE  A \div B \in 0 .. A /\ A % B \in 0 .. B - 1 /\ A = (A \div B) * B + (A % B)
      <3>1. A \in Int /\ A >= 0
        OBVIOUS
      <3>2. A \div B \in 0 .. A
        BY <3>1, Quotients
      <3>3. A % B \in 0 .. B - 1 /\ A = (A \div B) * B + (A % B)
        BY <3>1, Division
      <3> QED
        BY <3>2, <3>3
    <2> QED
      BY <1>1, <2>1
  <1>3. q = IF (a < 0) = (b < 0) THEN k ELSE -k
    BY DEF Towards0
  <1> HIDE DEF k, m, q
  <1>4. q \in Int /\ Size(q) <= Size(a)
    BY <1>1, <1>2, <1>3 DEF Size
  <1>5. b * q = IF a < 0 THEN -(k * Size(b)) ELSE k * Size(b)
    <2>1. /\ b * k = k * b /\ b * (-k) = -(k * b) /\ k * (-b) = -(k * b) /\ k * b \in Int
          /\ -(-(k * b)) = k * b
      BY <1>1, <1>2
    <2> QED
      BY <1>1, <1>3, <2>1 DEF Size
  <1>6. r = IF a < 0 THEN -m ELSE m
    <2>1. k * Size(b) \in Int
      BY <1>1, <1>2
    <2> QED
      BY <1>1, <1>2, <1>5, <2>1 DEF Size
  <1>7. r \in Int /\ Size(r) < Size(b) /\ (r # 0 => (r < 0) = (a < 0)) /\ a = q * b + r
    <2>1. b * q = q * b /\ q * b \in Int
      BY <1>1, <1>4
    <2> QED
      BY <1>1, <1>2, <1>6, <2>1 DEF Size
  <1>8. r \in Int32s
    <2>1. Size(r) <= Size(a) /\ (r # 0 => (r < 0) = (a < 0))
      <3>1. k * Size(b) \in Nat
        BY <1>1, <1>2
      <3> QED
        BY <1>1, <1>2, <1>6, <1>7, <3>1 DEF Size
    <2>2. PICK P \in Nat \ {0} : Int32s = -P .. P - 1
      BY Range32 DEF Int32s
    <2> QED
      BY <1>1, <1>7, <2>1, <2>2 DEF Size
  <1>9. Machine!Divides(a, b, q, r)
    BY <1>7, SameNumbers DEF Machine!Divides
  <1>10. ASSUME NEW s \in Int, NEW t \in Int, Machine!Divides(a, b, s, t)
         PROVE  s = q /\ t = r
    <2>1. a = s * b + t /\ Size(t) < Size(b) /\ (t # 0 => (t < 0) = (a < 0))
      BY <1>10, SameNumbers DEF Machine!Divides
    <2>2. Size(r - t) < Size(b)
      BY <1>1, <1>7, <2>1 DEF Size
    <2>3. (s - q) * b = r - t
      <3>1. s * b \in Int /\ q * b \in Int /\ (s - q) * b = s * b - q * b
        BY <1>1, <1>4
      <3> QED
        BY <1>1, <1>7, <2>1, <3>1
    <2>4. s - q = 0
      <3> DEFINE d == s - q
      <3>1. d \in Int /\ Size(d * b) < Size(b)
        BY <1>4, <2>2, <2>3
      <3> HIDE DEF d
      <3>2. d = 0
        BY <1>1, <3>1, ShortProduct
      <3> QED
        BY <3>2 DEF d
    <2>5. s = q
      BY <1>4, <2>4
    <2>6. q * b \in Int
      BY <1>1, <1>4
    <2> QED
      BY <1>1, <1>7, <2>1, <2>5, <2>6
  <1> HIDE DEF r
  <1> QED
    BY <1>4, <1>8, <1>9, <1>10 DEF q, r

\* The machine's quotient and remainder are the code's.
LEMMA Quotient ==
  ASSUME NEW a \in Int32s, NEW b \in Int32s \ {0}
  PROVE  /\ Machine!Quotient(a, b) = Towards0(a, b)
         /\ Machine!Remainder(a, b) = a - b * Towards0(a, b)
  <1> DEFINE q == Towards0(a, b)
             r == a - b * q
             Short == Machine!Least .. (-Machine!Least)
             D(s, t) == Machine!Divides(a, b, s, t)
  <1>1. /\ q \in Int /\ Size(q) <= Size(a) /\ r \in Int32s /\ D(q, r)
        /\ \A s \in Int, t \in Int : D(s, t) => s = q /\ t = r
    BY Dividing
  <1>2. Machine!Words = Int32s /\ Int32s \subseteq Int
    BY SameNumbers, Range32
  <1>3. q \in Short /\ Short \subseteq Int
    <2>1. PICK P \in Nat \ {0} : Int32s = -P .. P - 1 /\ Machine!Least = -P
      BY Range32, SamePowers DEF Int32s, Machine!Least
    <2>2. Size(a) <= P
      BY <2>1 DEF Size
    <2>3. q \in -P .. P
      BY <1>1, <2>1, <2>2 DEF Size
    <2> QED
      BY <2>1, <2>3
  <1> HIDE DEF q, r, Short, D
  <1>4. (CHOOSE s \in Short : \E t \in Int32s : D(s, t)) = q
    BY <1>1, <1>2, <1>3
  <1>5. (CHOOSE t \in Int32s : \E s \in Short : D(s, t)) = r
    BY <1>1, <1>2, <1>3
  <1> QED
    BY <1>2, <1>4, <1>5 DEF q, r, Short, D, Machine!Quotient, Machine!Remainder

\* There is one way to divide with a remainder.
LEMMA OneQuotient ==
  ASSUME NEW c \in Nat \ {0}, NEW x \in Int, NEW v \in 0 .. c - 1
  PROVE  (x * c + v) \div c = x
  <1>1. PICK a \in Int : a = x * c + v
    <2>1. x * c \in Int
      OBVIOUS
    <2> QED
      BY <2>1
  <1>2. PICK y \in Int, w \in 0 .. c - 1 : y = a \div c /\ a = y * c + w
    BY Division
  <1>3. (x - y) * c = w - v
    <2>1. (x - y) * c = x * c - y * c /\ x * c \in Int /\ y * c \in Int
      OBVIOUS
    <2> QED
      BY <1>1, <1>2, <2>1
  <1>4. PICK d \in Int : d = x - y
    OBVIOUS
  <1>5. Size(d * c) < Size(c)
    BY <1>2, <1>3, <1>4 DEF Size
  <1>6. c \in Int \ {0}
    OBVIOUS
  <1>7. d = 0
    BY <1>5, <1>6, ShortProduct
  <1> QED
    BY <1>1, <1>2, <1>4, <1>7

\* The machine's bit of a number is one if the code's sum would hold it.
LEMMA BitIs ==
  ASSUME NEW a \in Int, NEW k \in 0 .. Bits - 1
  PROVE  Machine!Bit(a, k) = IF k \in BitsOf(a) THEN 1 ELSE 0
  <1>1. PICK P \in Nat \ {0} : P = Power[k]
    BY PowerOf
  <1>2. PICK j \in Nat : (k + 1) + j = Bits /\ k + 1 \in Nat
    <2>1. PICK j \in Int : j = Bits - (k + 1)
      BY InterpreterAssumption
    <2>2. j \in Nat /\ (k + 1) + j = Bits /\ k + 1 \in Nat
      BY <2>1, InterpreterAssumption
    <2> QED
      BY <2>2
  <1>3. PICK R \in Nat \ {0}, Q \in Nat \ {0} : Q = Power[Bits] /\ Q = P * (2 * R)
    <2>1. PICK R \in Nat \ {0} : R = Power[j]
      BY PowerOf
    <2>2. Power[(k + 1) + j] = Power[k + 1] * R
      BY <1>2, <2>1, Exponents
    <2>3. Power[k + 1] = 2 * P /\ Power[Bits] \in Nat \ {0}
      BY <1>1, <1>2, PowerOf
    <2>4. (2 * P) * R = P * (2 * R)
      BY <1>1, <2>1
    <2> QED
      BY <1>2, <2>2, <2>3, <2>4
  <1>4. PICK q \in Int, m \in 0 .. Q - 1 : m = a % Q /\ a = q * Q + m
    BY <1>3, Division
  <1>5. PICK u \in Int, v \in 0 .. P - 1 : u = m \div P /\ m = u * P + v
    <2>1. m \in Int
      BY <1>4
    <2>2. m \div P \in Int /\ m % P \in 0 .. P - 1 /\ m = (m \div P) * P + (m % P)
      BY <1>1, <2>1, Division
    <2> QED
      BY <2>2
  <1>6. PICK w \in Int, z \in 0 .. 1 : z = u % 2 /\ u = w * 2 + z
    <2>1. u \div 2 \in Int /\ u % 2 \in 0 .. 2 - 1 /\ u = (u \div 2) * 2 + (u % 2)
      <3>1. 2 \in Nat \ {0}
        OBVIOUS
      <3> QED
        BY <1>5, <3>1, Division
    <2> QED
      BY <2>1
  <1>7. PICK t \in Int : t = q * R + w
    <2>1. q * R \in Int
      BY <1>2, <1>4
    <2> QED
      BY <1>6, <2>1
  <1>8. a = (t * 2 + z) * P + v
    <2>1. q * (P * (2 * R)) = ((q * R) * 2) * P
      BY <1>1, <1>2, <1>4
    <2>2. PICK g \in Int : g = q * R
      BY <1>2, <1>4
    <2>3. a = (g * 2) * P + ((w * 2 + z) * P + v)
      BY <1>3, <1>4, <1>5, <1>6, <2>1, <2>2
    <2>4. ((g + w) * 2 + z) * P = (g * 2) * P + (w * 2 + z) * P
      BY <1>1, <1>6, <2>2
    <2>5. (g * 2) * P \in Int /\ (w * 2 + z) * P \in Int
      BY <1>1, <1>6, <2>2
    <2>6. t = g + w
      BY <1>7, <2>2
    <2> QED
      BY <1>5, <2>3, <2>4, <2>5, <2>6
  <1>9. a \div P = t * 2 + z
    <2>1. PICK x \in Int : x = t * 2 + z
      BY <1>6, <1>7
    <2> QED
      BY <1>1, <1>5, <1>8, <2>1, OneQuotient
  <1>10. (t * 2 + z) % 2 = z
    BY <1>6, <1>7
  <1>11. Machine!Bit(a, k) = z
    BY <1>1, <1>3, <1>4, <1>5, <1>6, SamePowers DEF Machine!Bit
  <1>12. k \in BitsOf(a) <=> z = 1
    BY <1>1, <1>9, <1>10 DEF BitsOf
  <1> QED
    BY <1>6, <1>11, <1>12

\* The sum of a set of powers, the lowest first.
SumsUp(s, f) ==
    /\ f[0] = 0
    /\ \A k \in Nat : f[k + 1] = f[k] + (IF k \in s THEN Power[k] ELSE 0)

LEMMA Summing ==
  ASSUME NEW set
  PROVE  \E f \in [Nat -> Nat] : SumsUp(set, f) /\ FromBits(set) = Int32(f[Bits])
  <1> DEFINE step == [p \in Nat \X Nat |-> IF p[1] = 0 THEN 0
                                 ELSE p[2] + (IF p[1] - 1 \in set THEN Power[p[1] - 1] ELSE 0)]
             Solves(g) == g = [k \in Nat |-> IF k = 0 THEN 0
                                 ELSE g[k - 1] + (IF k - 1 \in set THEN Power[k - 1] ELSE 0)]
  <1>1. step \in [Nat \X Nat -> Nat]
    <2> SUFFICES ASSUME NEW p \in Nat \X Nat
                 PROVE  (IF p[1] = 0 THEN 0
                            ELSE p[2] + (IF p[1] - 1 \in set THEN Power[p[1] - 1] ELSE 0)) \in Nat
      OBVIOUS
    <2>1. p[1] \in Nat /\ p[2] \in Nat /\ (p[1] # 0 => Power[p[1] - 1] \in Nat)
      <3>1. p[1] \in Nat /\ p[2] \in Nat /\ (p[1] # 0 => p[1] - 1 \in Nat)
        OBVIOUS
      <3> QED
        BY <3>1, PowerOf
    <2> QED
      BY <2>1
  <1>2. PICK f \in [Nat -> Nat] : Counts(f, 0, step)
    <2>1. 0 \in Nat
      OBVIOUS
    <2> HIDE DEF step
    <2> QED
      BY <1>1, <2>1, NumberRecursion
  <1>3. Solves(f)
    <2> SUFFICES ASSUME NEW k \in Nat
                 PROVE  f[k] = IF k = 0 THEN 0
                                 ELSE f[k - 1] + (IF k - 1 \in set THEN Power[k - 1] ELSE 0)
      BY <1>2
    <2>1. f[k] = IF k = 0 THEN 0 ELSE step[<<k, f[k - 1]>>]
      BY <1>2 DEF Counts
    <2>2. k # 0 => <<k, f[k - 1]>> \in Nat \X Nat
      BY <1>2
    <2> QED
      BY <2>1, <2>2
  <1> DEFINE lowest == CHOOSE g : Solves(g)
  <1>4. Solves(lowest)
    <2> HIDE DEF Solves
    <2> QED
      BY <1>3
  <1>5. FromBits(set) = Int32(lowest[Bits])
    BY DEF FromBits
  <1> HIDE DEF lowest
  <1>6. ASSUME NEW g, Solves(g)
        PROVE  SumsUp(set, g)
    <2>1. \A k \in Nat : g[k] = IF k = 0 THEN 0
                                 ELSE g[k - 1] + (IF k - 1 \in set THEN Power[k - 1] ELSE 0)
      BY <1>6
    <2>2. \A k \in Nat : k + 1 \in Nat /\ k + 1 # 0 /\ (k + 1) - 1 = k
      OBVIOUS
    <2> QED
      BY <2>1, <2>2 DEF SumsUp
  <1>7. SumsUp(set, lowest)
    <2> HIDE DEF Solves
    <2> QED
      BY <1>4, <1>6
  <1>8. lowest \in [Nat -> Nat]
    <2> DEFINE T == {k \in Nat : lowest[k] \in Nat}
    <2>1. 0 \in T /\ \A k \in Nat : k \in T => k + 1 \in T
      BY <1>7, PowerOf DEF SumsUp
    <2>2. Nat \subseteq T
      <3> HIDE DEF T
      <3> QED
        BY <2>1, ByNumber
    <2>3. DOMAIN lowest = Nat /\ lowest = [k \in Nat |-> lowest[k]]
      BY <1>4
    <2> QED
      BY <2>2, <2>3
  <1> QED
    BY <1>5, <1>7, <1>8

\* A sum up to some power is below it, and what is added later is a multiple.
LEMMA PartialSums ==
  ASSUME NEW set, NEW f \in [Nat -> Nat], SumsUp(set, f), NEW k \in Nat, NEW j \in Nat
  PROVE  f[k] < Power[k] /\ \E h \in Nat : f[k + j] = h * Power[k] + f[k]
  <1>1. f[k] < Power[k]
    <2> DEFINE T == {e \in Nat : f[e] < Power[e]}
    <2>1. 0 \in T
      BY PowerOf DEF SumsUp
    <2>2. ASSUME NEW e \in Nat, e \in T PROVE e + 1 \in T
      <3>1. f[e + 1] <= f[e] + Power[e] /\ Power[e + 1] = 2 * Power[e] /\ f[e] < Power[e]
            /\ f[e] \in Nat /\ Power[e] \in Nat /\ f[e + 1] \in Nat
        BY <2>2, PowerOf DEF SumsUp
      <3> QED
        BY <3>1
    <2> HIDE DEF T
    <2>3. Nat \subseteq T
      BY <2>1, <2>2, ByNumber
    <2> QED
      BY <2>3 DEF T
  <1>2. \E h \in Nat : f[k + j] = h * Power[k] + f[k]
    <2> DEFINE T == {e \in Nat : \E h \in Nat : f[k + e] = h * Power[k] + f[k]}
    <2>0. PICK P \in Nat : P = Power[k]
      BY PowerOf
    <2>1. 0 \in T
      <3>1. f[k + 0] = 0 * P + f[k]
        OBVIOUS
      <3> QED
        BY <2>0, <3>1
    <2>2. ASSUME NEW e \in Nat, e \in T PROVE e + 1 \in T
      <3>1. PICK h \in Nat : f[k + e] = h * P + f[k]
        BY <2>0, <2>2
      <3>2. PICK R \in Nat : R = Power[e] /\ Power[k + e] = P * R
        BY <2>0, Exponents, PowerOf
      <3>3. f[k + (e + 1)] = f[k + e] + (IF k + e \in set THEN Power[k + e] ELSE 0)
        <4>1. k + (e + 1) = (k + e) + 1 /\ k + e \in Nat
          OBVIOUS
        <4> QED
          BY <4>1 DEF SumsUp
      <3>4. PICK t \in Nat : t = IF k + e \in set THEN h + R ELSE h
        OBVIOUS
      <3>5. f[k + (e + 1)] = t * P + f[k]
        <4>1. f[k] \in Nat /\ h * P \in Nat
          BY <2>0, <3>1
        <4>2. PICK x \in Nat, y \in Nat : x = h * P /\ y = P * R /\ (h + R) * P = x + y
          <5>1. h * P \in Nat /\ P * R \in Nat
            BY <2>0, <3>1, <3>2
          <5>2. (h + R) * P = h * P + R * P /\ R * P = P * R
            BY <2>0, <3>1, <3>2
          <5> QED
            BY <5>1, <5>2
        <4> QED
          BY <2>0, <3>1, <3>2, <3>3, <3>4, <4>1, <4>2
      <3> QED
        BY <2>0, <3>4, <3>5
    <2> HIDE DEF T
    <2>3. Nat \subseteq T
      BY <2>1, <2>2, ByNumber
    <2> QED
      BY <2>3 DEF T
  <1> QED
    BY <1>1, <1>2

LEMMA OneRemainder ==
  ASSUME NEW c \in Nat \ {0}, NEW x \in Int, NEW v \in 0 .. c - 1
  PROVE  (x * c + v) % c = v
  <1>1. PICK e \in Int : e = x * c
    OBVIOUS
  <1>2. PICK y \in Int : y = e + v
    BY <1>1
  <1>3. y \div c = x
    BY <1>1, <1>2, OneQuotient
  <1>4. PICK q \in Int, m \in 0 .. c - 1 : q = y \div c /\ m = y % c /\ y = q * c + m
    BY Division
  <1>5. m = v
    BY <1>1, <1>2, <1>3, <1>4
  <1> QED
    BY <1>1, <1>2, <1>4, <1>5

\* Both halves of a double.
LEMMA Doubles ==
  ASSUME NEW h \in Int, NEW z \in Int, NEW c \in Int
  PROVE  (2 * h + z) * c = h * (2 * c) + z * c
  OBVIOUS

\* The lowest part of a number, the bit above and the rest.
Splits(y, c, h, z, low) == y = h * (2 * c) + (z * c + low)
BitAbove(y, c) == (y \div c) % 2

LEMMA NextBit ==
  ASSUME NEW c \in Nat \ {0}, NEW low \in 0 .. c - 1, NEW z \in 0 .. 1, NEW h \in Int,
         NEW y \in Int, Splits(y, c, h, z, low)
  PROVE  BitAbove(y, c) = z
  <1>1. PICK x \in Int : x = 2 * h + z /\ x * c = h * (2 * c) + z * c
    BY Doubles
  <1>2. y = x * c + low
    <2>1. h * (2 * c) \in Int /\ z * c \in Int
      OBVIOUS
    <2> QED
      BY <1>1, <2>1 DEF Splits
  <1>3. y \div c = x
    BY <1>2, OneQuotient
  <1>4. x % 2 = z
    BY <1>1
  <1> QED
    BY <1>3, <1>4 DEF BitAbove

\* A number by its lowest part, the bit above and the rest.
LEMMA Halves ==
  ASSUME NEW c \in Nat \ {0}, NEW y \in Int
  PROVE  /\ (y \div c) % 2 \in {0, 1} /\ y % c \in 0 .. c - 1
         /\ y % (2 * c) = ((y \div c) % 2) * c + (y % c)
  <1>1. PICK q \in Int, low \in 0 .. c - 1 : q = y \div c /\ low = y % c /\ y = q * c + low
    BY Division
  <1>2. PICK h \in Int, z \in {0, 1} : z = q % 2 /\ q = 2 * h + z
    <2>1. q \div 2 \in Int /\ q % 2 \in {0, 1} /\ q = 2 * (q \div 2) + (q % 2)
      OBVIOUS
    <2> QED
      BY <2>1
  <1>3. y = h * (2 * c) + (z * c + low)
    <2>1. PICK e \in Int, f \in Int : e = h * (2 * c) /\ f = z * c
      OBVIOUS
    <2>2. (2 * h + z) * c = e + f
      BY <2>1, Doubles
    <2>3. q * c = e + f
      BY <1>2, <2>2
    <2>4. q * c \in Int
      BY <1>1
    <2>5. y = e + (f + low)
      BY <1>1, <2>1, <2>3, <2>4
    <2> QED
      BY <2>1, <2>5
  <1>4. y % (2 * c) = z * c + low
    <2>1. PICK d \in Nat \ {0} : d = 2 * c
      OBVIOUS
    <2>2. PICK m \in 0 .. d - 1 : m = z * c + low
      BY <1>1, <1>2, <2>1
    <2>3. y = h * d + m
      BY <1>3, <2>1, <2>2
    <2>4. y % d = m
      BY <2>3, OneRemainder
    <2> QED
      BY <2>1, <2>2, <2>4
  <1> QED
    BY <1>1, <1>2, <1>4

\* What wrapping does to a number that has Bits bits.
LEMMA Wrapped ==
  ASSUME NEW H \in Nat \ {0}, NEW y \in Nat, y < 2 * H
  PROVE  \E e \in {0, 1} : ((y + H) % (2 * H)) - H = y - e * (2 * H)
  <1>1. PICK Q \in Nat \ {0} : Q = 2 * H
    OBVIOUS
  <1>2. CASE y < H
    <2>1. y + H = 0 * Q + (y + H) /\ y + H \in 0 .. Q - 1
      BY <1>1, <1>2
    <2>2. (y + H) % Q = y + H
      BY <2>1, OneRemainder
    <2>3. ((y + H) % Q) - H = y - 0 * Q
      BY <1>1, <2>2
    <2> QED
      BY <1>1, <2>3
  <1>3. CASE y >= H
    <2>1. PICK x \in 0 .. Q - 1 : x = y - H
      BY <1>1, <1>3
    <2>2. y + H = 1 * Q + x
      BY <1>1, <2>1
    <2>3. (1 * Q + x) % Q = x
      BY OneRemainder
    <2>4. ((y + H) % Q) - H = y - 1 * Q
      BY <1>1, <2>1, <2>2, <2>3
    <2> QED
      BY <1>1, <2>4
  <1> QED
    BY <1>2, <1>3

\* Numbers in a range of c that have the same remainder are equal.
LEMMA SameRemainder ==
  ASSUME NEW c \in Nat \ {0}, NEW x \in Int, NEW y \in Int, x % c = y % c,
         x - y < c, -c < x - y
  PROVE  x = y
  <1>1. PICK u \in Int, v \in Int, m \in Int : x = u * c + m /\ y = v * c + m
    <2>1. /\ x \div c \in Int /\ x % c \in Int /\ x = (x \div c) * c + (x % c)
          /\ y \div c \in Int /\ y = (y \div c) * c + (y % c)
      BY Division
    <2> QED
      BY <2>1
  <1>2. PICK d \in Int : d = u - v
    OBVIOUS
  <1>3. x - y = d * c
    <2>1. (u - v) * c = u * c - v * c /\ u * c \in Int /\ v * c \in Int
      OBVIOUS
    <2> QED
      BY <1>1, <1>2, <2>1
  <1>4. (d >= 1 => d * c >= c) /\ (d <= -1 => d * c <= -c)
    OBVIOUS
  <1>5. d = 0
    BY <1>3, <1>4
  <1> QED
    BY <1>3, <1>5

\* Every set of bits is the set of some number's.
LEMMA BitsOfSum ==
  ASSUME NEW set \in SUBSET (0 .. Bits - 1)
  PROVE  FromBits(set) \in Int32s /\ BitsOf(FromBits(set)) = set
  <1>0. Bits \in Nat /\ Bits - 1 \in Nat /\ (Bits - 1) + 1 = Bits
    BY InterpreterAssumption
  <1>1. PICK f \in [Nat -> Nat] : SumsUp(set, f) /\ FromBits(set) = Int32(f[Bits])
    BY Summing
  <1>2. PICK sum \in Nat, H \in Nat \ {0} :
            sum = f[Bits] /\ H = Power[Bits - 1] /\ Power[Bits] = 2 * H /\ sum < 2 * H
    <2>1. Power[Bits] = 2 * Power[Bits - 1] /\ Power[Bits - 1] \in Nat \ {0}
      BY <1>0, PowerOf
    <2>2. f[Bits] < Power[Bits] /\ f[Bits] \in Nat
      BY <1>0, <1>1, PartialSums
    <2> QED
      BY <2>1, <2>2
  <1>3. FromBits(set) \in Int32s
    BY <1>1, <1>2, Range32
  <1>4. PICK e \in {0, 1} : FromBits(set) = sum - e * (2 * H)
    <2>1. FromBits(set) = ((sum + H) % (2 * H)) - H
      BY <1>1, <1>2 DEF Int32
    <2> QED
      BY <1>2, <2>1, Wrapped
  <1>5. ASSUME NEW k \in 0 .. Bits - 1
        PROVE  (FromBits(set) \div Power[k]) % 2 = 1 <=> k \in set
    <2>1. PICK c \in Nat \ {0}, low \in Nat : c = Power[k] /\ low = f[k] /\ low \in 0 .. c - 1
      <3>1. k \in Nat /\ Power[k] \in Nat \ {0} /\ f[k] \in Nat
        BY <1>1, PowerOf
      <3>2. f[k] < Power[k]
        BY <1>1, <3>1, PartialSums
      <3> QED
        BY <3>1, <3>2
    <2>2. PICK z \in {0, 1} : z = IF k \in set THEN 1 ELSE 0
      OBVIOUS
    <2>3. PICK j \in Nat : (k + 1) + j = Bits /\ k + 1 \in Nat
      <3>1. PICK j \in Int : j = Bits - (k + 1)
        BY <1>0
      <3>2. j \in Nat /\ (k + 1) + j = Bits /\ k + 1 \in Nat
        BY <1>0, <3>1
      <3> QED
        BY <3>2
    <2>4. Power[k + 1] = 2 * c /\ f[k + 1] = z * c + low
      BY <1>1, <2>1, <2>2, PowerOf DEF SumsUp
    <2>5. PICK h \in Nat : sum = h * (2 * c) + (z * c + low)
      <3>1. \E h \in Nat : f[(k + 1) + j] = h * Power[k + 1] + f[k + 1]
        BY <1>1, <2>3, PartialSums
      <3> QED
        BY <1>2, <2>3, <2>4, <3>1
    <2>6. PICK t \in Nat : 2 * H = t * (2 * c)
      <3>1. Power[(k + 1) + j] = Power[k + 1] * Power[j] /\ Power[j] \in Nat
        BY <2>3, Exponents, PowerOf
      <3> QED
        BY <1>2, <2>1, <2>3, <2>4, <3>1
    <2>7. PICK q \in Int : FromBits(set) = q * (2 * c) + (z * c + low)
      <3>1. CASE e = 0
        <4>1. FromBits(set) = sum
          BY <1>2, <1>4, <3>1
        <4>2. h \in Int
          OBVIOUS
        <4> QED
          BY <2>5, <4>1, <4>2
      <3>2. CASE e = 1
        <4>1. PICK x \in Int, y \in Int, d \in Int : d = 2 * c /\ x = h * d /\ y = t * d
          BY <2>1, <2>5, <2>6
        <4>2. (h - t) * d = x - y
          BY <4>1
        <4>3. PICK m \in Int : m = z * c + low
          BY <2>1, <2>2
        <4>4. FromBits(set) = (h - t) * d + m
          BY <1>2, <1>4, <2>5, <2>6, <3>2, <4>1, <4>2, <4>3
        <4>5. h - t \in Int
          OBVIOUS
        <4> QED
          BY <4>1, <4>3, <4>4, <4>5
      <3> QED
        BY <3>1, <3>2
    <2>8. PICK y \in Int : y = FromBits(set)
      BY <1>3, Range32
    <2>9. BitAbove(y, c) = z
      <3>1. Splits(y, c, q, z, low)
        BY <2>7, <2>8 DEF Splits
      <3>2. c \in Nat \ {0} /\ low \in 0 .. c - 1 /\ z \in 0 .. 1 /\ q \in Int /\ y \in Int
        BY <2>1, <2>2, <2>7, <2>8
      <3> QED
        BY <3>1, <3>2, NextBit
    <2> QED
      BY <2>1, <2>2, <2>8, <2>9 DEF BitAbove
  <1> QED
    BY <1>3, <1>5 DEF BitsOf

\* Numbers are told apart by their bits.
LEMMA BitsTell ==
  ASSUME NEW a \in Int32s, NEW b \in Int32s, BitsOf(a) = BitsOf(b)
  PROVE  a = b
  <1>0. Bits \in Nat /\ Bits - 1 \in Nat /\ (Bits - 1) + 1 = Bits
    BY InterpreterAssumption
  <1>1. PICK x \in Int, y \in Int : x = a /\ y = b
    BY Range32
  <1> DEFINE T == {k \in Nat : k <= Bits => x % Power[k] = y % Power[k]}
  <1>2. 0 \in T
    <2>1. x % 1 = 0 /\ y % 1 = 0
      OBVIOUS
    <2> QED
      BY <2>1, PowerOf
  <1>3. ASSUME NEW k \in Nat, k \in T PROVE k + 1 \in T
    <2> SUFFICES ASSUME k + 1 <= Bits PROVE x % Power[k + 1] = y % Power[k + 1]
      OBVIOUS
    <2>1. PICK c \in Nat \ {0} : c = Power[k] /\ Power[k + 1] = 2 * c
      BY PowerOf
    <2>2. k \in 0 .. Bits - 1 /\ x % c = y % c
      BY <1>0, <1>3, <2>1
    <2>3. /\ (x \div c) % 2 \in {0, 1} /\ x % (2 * c) = ((x \div c) % 2) * c + (x % c)
          /\ (y \div c) % 2 \in {0, 1} /\ y % (2 * c) = ((y \div c) % 2) * c + (y % c)
      BY Halves
    <2>4. (x \div c) % 2 = 1 <=> (y \div c) % 2 = 1
      <3>1. k \in BitsOf(x) <=> k \in BitsOf(y)
        BY <1>1
      <3> QED
        BY <2>1, <2>2, <3>1 DEF BitsOf
    <2>5. (x \div c) % 2 = (y \div c) % 2
      BY <2>3, <2>4
    <2> QED
      BY <2>1, <2>2, <2>3, <2>5
  <1>4. Nat \subseteq T
    <2> HIDE DEF T
    <2> QED
      BY <1>2, <1>3, ByNumber
  <1>5. PICK c \in Nat \ {0}, H \in Nat : c = Power[Bits] /\ H = Power[Bits - 1] /\ c = 2 * H
    <2>1. Power[(Bits - 1) + 1] = 2 * Power[Bits - 1] /\ Power[Bits - 1] \in Nat \ {0}
      BY <1>0, PowerOf
    <2> QED
      BY <1>0, <2>1
  <1>6. x % c = y % c
    <2>1. x % Power[Bits] = y % Power[Bits]
      BY <1>0, <1>4
    <2> QED
      BY <1>5, <2>1
  <1>7. x - y < c /\ -c < x - y
    BY <1>1, <1>5 DEF Int32s
  <1> QED
    BY <1>1, <1>6, <1>7, SameRemainder

\* The bitwise operations, modelled as sums, give the machine's bits
\* (bytecode.c:152-154).
LEMMA Combines ==
  ASSUME NEW op \in Bitwise, NEW a \in Int32s, NEW b \in Int32s
  PROVE  Compute(op, a, b) \in Int32s /\ Compute(op, a, b) = Machine!Result(op, a, b)
  <1> DEFINE A == BitsOf(a)
             B == BitsOf(b)
             K == 0 .. Bits - 1
  <1>1. PICK s \in SUBSET K :
            /\ op = "iand" => s = A \intersect B
            /\ op = "ior" => s = A \union B
            /\ op = "ixor" => s = (A \union B) \ (A \intersect B)
    <2>1. A \in SUBSET K /\ B \in SUBSET K
      BY DEF BitsOf
    <2> HIDE DEF A, B, K
    <2> QED
      BY <2>1 DEF Bitwise
  <1>2. PICK r \in Int32s : r = FromBits(s) /\ BitsOf(r) = s
    BY <1>1, BitsOfSum
  <1>3. Compute(op, a, b) = r
    BY <1>1, <1>2 DEF Compute, Bitwise
  <1>4. Machine!Result(op, a, b) = Machine!Combined(op, a, b)
    BY DEF Machine!Result, Machine!Bitwise, Bitwise
  <1>5. Machine!Words = Int32s /\ Int32s \subseteq Int
    BY SameNumbers, Range32
  <1>6. ASSUME NEW k \in K, NEW x \in Int32s
        PROVE  Machine!Bit(x, k) = Machine!Joined(op, Machine!Bit(a, k), Machine!Bit(b, k))
                   <=> (k \in BitsOf(x) <=> k \in s)
    <2>1. /\ Machine!Bit(a, k) = IF k \in A THEN 1 ELSE 0
          /\ Machine!Bit(b, k) = IF k \in B THEN 1 ELSE 0
          /\ Machine!Bit(x, k) = IF k \in BitsOf(x) THEN 1 ELSE 0
      BY <1>5, BitIs
    <2> HIDE DEF A, B, K
    <2>2. Machine!Joined(op, Machine!Bit(a, k), Machine!Bit(b, k)) = IF k \in s THEN 1 ELSE 0
      <3>1. CASE op = "iand"
        BY <1>1, <2>1, <3>1 DEF Machine!Joined
      <3>2. CASE op = "ior"
        BY <1>1, <2>1, <3>2 DEF Machine!Joined
      <3>3. CASE op = "ixor"
        BY <1>1, <2>1, <3>3 DEF Machine!Joined
      <3> QED
        BY <3>1, <3>2, <3>3 DEF Bitwise
    <2> QED
      BY <2>1, <2>2
  <1> DEFINE Same(x) == \A k \in K :
                 Machine!Bit(x, k) = Machine!Joined(op, Machine!Bit(a, k), Machine!Bit(b, k))
  <1>7. Same(r)
    BY <1>2, <1>6
  <1>8. ASSUME NEW x \in Int32s, Same(x) PROVE x = r
    <2>1. BitsOf(x) \subseteq K /\ \A k \in K : k \in BitsOf(x) <=> k \in s
      BY <1>6, <1>8 DEF BitsOf
    <2>2. BitsOf(x) = BitsOf(r)
      BY <1>1, <1>2, <2>1
    <2> QED
      BY <2>2, BitsTell
  <1>9. Machine!Combined(op, a, b) = CHOOSE x \in Int32s : Same(x)
    BY <1>5 DEF Machine!Combined
  <1> HIDE DEF Same
  <1>10. (CHOOSE x \in Int32s : Same(x)) = r
    BY <1>7, <1>8
  <1> QED
    BY <1>3, <1>4, <1>9, <1>10

\* What an arithmetic instruction computes is a number of 32 bits and what the
\* machine computes (bytecode.c:144-156).
LEMMA Computes ==
  ASSUME NEW op \in Arithmetic, NEW a \in Int32s, NEW b \in Int32s,
         ~Traps(op, a, b)
  PROVE  Compute(op, a, b) \in Int32s /\ Compute(op, a, b) = Machine!Result(op, a, b)
  <1> DEFINE Fine(n) == n \in Int32s /\ n = Machine!Result(op, a, b)
  <1>0. a \in Int /\ b \in Int
    BY Range32
  <1>1. a \in Int /\ b \in Int /\ 0 \in Int32s /\ \A n \in Int : Int32(n) \in Int32s
    BY Range32
  <1>2. \A n \in Int : Machine!Word(n) = Int32(n)
    BY SameNumbers
  <1>3. Power[b % Bits] \in Nat \ {0}
    BY <1>1, Range32
  <1>4. CASE op = "iadd"
    <2>1. Compute(op, a, b) = Int32(a + b) /\ Machine!Result(op, a, b) = Machine!Word(a + b)
      BY <1>4 DEF Compute, Bitwise, Machine!Result, Machine!Bitwise
    <2> QED
      BY <1>1, <1>2, <2>1
  <1>5. CASE op = "isub"
    <2>1. Compute(op, a, b) = Int32(a - b) /\ Machine!Result(op, a, b) = Machine!Word(a - b)
      BY <1>5 DEF Compute, Bitwise, Machine!Result, Machine!Bitwise
    <2> QED
      BY <1>1, <1>2, <2>1
  <1>6. CASE op = "imul"
    <2>1. Compute(op, a, b) = Int32(a * b) /\ Machine!Result(op, a, b) = Machine!Word(a * b)
      BY <1>6 DEF Compute, Bitwise, Machine!Result, Machine!Bitwise
    <2>2. a * b \in Int
      BY <1>1
    <2> QED
      BY <1>1, <1>2, <2>1, <2>2
  <1>7. CASE op = "ishl"
    <2> DEFINE n == a * Power[b % Bits]
    <2>1. Compute(op, a, b) = Int32(n) /\ Machine!Result(op, a, b) = Machine!Word(n)
      BY <1>7, SamePowers DEF Compute, Bitwise, Machine!Result, Machine!Bitwise
    <2>2. n \in Int
      BY <1>1, <1>3
    <2> QED
      BY <1>1, <1>2, <2>1, <2>2
  <1>8. CASE op = "ishr"
    <2> DEFINE c == Power[b % Bits]
    <2>1. Compute(op, a, b) = a \div c /\ Machine!Result(op, a, b) = a \div c
      BY <1>8, SamePowers DEF Compute, Bitwise, Machine!Result, Machine!Bitwise
    <2>2. a \div c \in Int32s
      <3>1. PICK P \in Nat \ {0} : Int32s = -P .. P - 1
        BY Range32 DEF Int32s
      <3>2. PICK q \in Int : q = a \div c /\ (a >= 0 => q \in 0 .. a) /\ (a < 0 => q \in a .. -1)
        BY <1>1, <1>3, Division, Quotients
      <3> HIDE DEF c
      <3>3. -P <= a /\ a <= P - 1
        BY <3>1
      <3>4. q \in -P .. P - 1
        BY <1>0, <3>2, <3>3
      <3> QED
        BY <3>1, <3>2, <3>4
    <2> QED
      BY <2>1, <2>2
  <1>9. CASE op \in {"idiv", "irem"} /\ b = 0
    <2>1. Compute(op, a, b) = 0 /\ Machine!Result(op, a, b) = 0
      BY <1>9 DEF Compute, Bitwise, Machine!Result, Machine!Bitwise
    <2> QED
      BY <1>1, <2>1
  <1>10. CASE op = "idiv" /\ b # 0
    <2> DEFINE q == Towards0(a, b)
    <2>1. Compute(op, a, b) = q
      BY <1>10 DEF Compute, Bitwise
    <2>2. Machine!Result(op, a, b) = Machine!Word(Machine!Quotient(a, b))
      BY <1>10 DEF Machine!Result, Machine!Bitwise
    <2>3. Machine!Result(op, a, b) = Machine!Word(q)
      BY <1>10, <2>2, Quotient
    <2>4. q \in Int32s
      <3>1. PICK P \in Nat \ {0} : Int32s = -P .. P - 1 /\ (b = -1 => a # -P)
        BY <1>10, Range32 DEF Int32s, Traps
      <3>2. q \in Int /\ Size(q) <= Size(a) /\ Machine!Divides(a, b, q, a - b * q)
        BY <1>10, Dividing
      <3> HIDE DEF q
      <3>3. -P <= a /\ a <= P - 1
        BY <3>1
      <3>4. -P <= q /\ q <= P
        BY <1>0, <3>1, <3>2, <3>3 DEF Size
      <3>5. ASSUME q = P PROVE FALSE
        <4>1. a = -P
          BY <1>0, <3>1, <3>2, <3>3, <3>5 DEF Size
        <4> DEFINE r == a - b * q
        <4>2. r \in Int /\ a = q * b + r /\ Size(r) < Size(b) /\ (r # 0 => (r < 0) = (a < 0))
          <5>1. b * q \in Int
            BY <1>1, <3>2
          <5> QED
            BY <1>1, <3>2, <5>1, SameNumbers DEF Machine!Divides
        <4> HIDE DEF r
        <4>3. b >= 1 \/ b <= -2
          BY <1>0, <1>10, <3>1, <4>1
        <4>4. b >= 1 => q * b >= q
          BY <1>0, <3>1, <3>5
        <4>5. b <= -2 => q * b <= q * (-2)
          BY <1>0, <3>1, <3>5
        <4>6. q * b \in Int /\ q * (-2) = -(2 * q)
          BY <1>1, <3>2
        <4>7. b >= 1 => q * b < 0
          <5>1. r <= 0
            BY <3>1, <4>1, <4>2
          <5>2. b >= 1 => q * b = b * q /\ q * b >= b
            BY <1>0, <3>1, <3>5
          <5>3. b >= 1 => -r < b
            BY <1>1, <4>2, <5>1 DEF Size
          <5> QED
            BY <1>0, <3>1, <3>5, <4>1, <4>2, <4>4, <4>6, <5>1, <5>2, <5>3
        <4>8. b <= -2 => r > 0
          BY <1>0, <3>1, <3>5, <4>1, <4>2, <4>5, <4>6
        <4> QED
          BY <1>0, <3>1, <3>5, <4>1, <4>2, <4>3, <4>4, <4>6, <4>7, <4>8
      <3> QED
        BY <3>1, <3>2, <3>4, <3>5
    <2>5. Machine!Word(q) = q
      BY <1>1, <1>2, <2>4, Range32
    <2> QED
      BY <2>1, <2>3, <2>4, <2>5
  <1>11. CASE op = "irem" /\ b # 0
    <2> DEFINE r == a - b * Towards0(a, b)
    <2>1. Compute(op, a, b) = r
      BY <1>11 DEF Compute, Bitwise
    <2>2. Machine!Result(op, a, b) = Machine!Remainder(a, b)
      BY <1>11 DEF Machine!Result, Machine!Bitwise
    <2>3. Machine!Result(op, a, b) = r
      BY <1>11, <2>2, Quotient
    <2>4. r \in Int32s
      BY <1>11, Dividing
    <2> QED
      BY <2>1, <2>3, <2>4
  <1>12. CASE op \in Bitwise
    BY <1>12, Combines
  <1> QED
    BY <1>4, <1>5, <1>6, <1>7, <1>8, <1>9, <1>10, <1>11, <1>12 DEF Arithmetic

-----------------------------------------------------------------------------
(* Types *)

\* What is known of an instruction that is fetched.
LEMMA Instruction ==
  ASSUME program \in Programs, NEW ops, NEW i, Fetch(ops, i)
  PROVE  /\ i.op \in ops /\ i.op \in Opcodes /\ i.v \in Int
         /\ i.op \in Constants => i.n \in Int32s
         /\ i.op \in Loads \union Stores \union {"iinc"} => i.n \in 0 .. LOCALS_SIZE - 1
         /\ \E k \in DOMAIN program : i = program[k] /\ pc = Address(program, k)
  <1>1. PICK k \in DOMAIN program : i = program[k] /\ pc = Address(program, k)
    BY DEF Fetch, StartsAt
  <1>2. i.op \in Opcodes /\ i.v \in Int
    BY <1>1, Methods
  <1>3. /\ i.op \in Constants => i.n \in Int32s
        /\ i.op \in Loads \union Stores \union {"iinc"} => i.n \in 0 .. LOCALS_SIZE - 1
    BY <1>1, InterpreterAssumption DEF Compiled
  <1> QED
    BY <1>1, <1>2, <1>3 DEF Fetch

\* The types that do not depend on where the method is.
Contents ==
    /\ stack \in [0 .. STACK_SIZE - 1 -> Int32s]
    /\ locals \in [0 .. LOCALS_SIZE - 1 -> Int32s]
    /\ status \in {"running", "returned", "corrupt", "lost"}

\* What is read from the stack is a number, inside the array or not.
LEMMA Peeks ==
  ASSUME Contents, NEW k
  PROVE  Peek(k) \in Int32s
  BY Range32 DEF Contents, Peek

\* Pushing numbers leaves numbers.
LEMMA Pushed ==
  ASSUME Contents, NEW k, NEW new, \A n \in DOMAIN new : new[n] \in Int32s, Stack(k, new)
  PROVE  /\ stack' \in [0 .. STACK_SIZE - 1 -> Int32s]
         /\ status' \in {"running", "returned", "corrupt", "lost"}
  <1>1. DOMAIN stack = 0 .. STACK_SIZE - 1 /\ \A i \in DOMAIN stack : stack[i] \in Int32s
    BY DEF Contents
  <1>2. stack' \in [0 .. STACK_SIZE - 1 -> Int32s]
    BY <1>1 DEF Stack
  <1> QED
    BY <1>2 DEF Contents, Stack

\* The numbers an instruction leaves are of 32 bits.
LEMMA ContentsStep ==
  ASSUME program \in Programs, Contents, execute_bytecode
  PROVE  Contents'
  <1>1. ASSUME NEW k, Stack(k, <<>>), UNCHANGED locals
        PROVE  Contents'
    <2>1. \A n \in DOMAIN <<>> : <<>>[n] \in Int32s
      OBVIOUS
    <2> QED
      BY <1>1, <2>1, Pushed DEF Contents
  <1>2. ASSUME NEW k, NEW x \in Int32s, Stack(k, <<x>>), UNCHANGED locals
        PROVE  Contents'
    <2>1. \A n \in DOMAIN <<x>> : <<x>>[n] \in Int32s
      BY <1>2
    <2> QED
      BY <1>2, <2>1, Pushed DEF Contents
  <1>3. ASSUME UNCHANGED <<stack, locals>>, status' \in {status, "returned", "lost"}
        PROVE  Contents'
    BY <1>3 DEF Contents
  <1>4. CASE Derail
    BY <1>3, <1>4 DEF Derail
  <1>5. ASSUME NEW i, Nop(i) \/ Goto(i) \/ Return(i) \/ Update(i) \/ Unresolved(i)
                      \/ SkipInvoke(i) \/ SkipOpcode(i)
        PROVE  Contents'
    BY <1>3, <1>5 DEF Nop, Goto, Return, Update, Unresolved, SkipInvoke, SkipOpcode
  <1>6. ASSUME NEW i, Pop(i) \/ Test(i) \/ Compare(i) \/ DrawPixel(i) \/ ShowOne(i)
                      \/ PrintString(i) \/ PutStatic(i)
        PROVE  Contents'
    BY <1>1, <1>6 DEF Pop, Test, Compare, DrawPixel, ShowOne, PrintString, PutStatic
  <1>7. ASSUME NEW i, Constant(i)
        PROVE  Contents'
    <2>1. i.n \in Int32s
      BY <1>7, Instruction DEF Constant
    <2> QED
      BY <1>2, <1>7, <2>1 DEF Constant
  <1>8. ASSUME NEW i, Load(i)
        PROVE  Contents'
    <2>1. i.n \in 0 .. LOCALS_SIZE - 1
      BY <1>8, Instruction DEF Load
    <2>2. locals[i.n] \in Int32s
      BY <2>1 DEF Contents
    <2> QED
      BY <1>2, <1>8, <2>2 DEF Load
  <1>9. ASSUME NEW i, Store(i)
        PROVE  Contents'
    <2>1. Peek(0) \in Int32s
      BY Peeks
    <2>2. locals' \in [0 .. LOCALS_SIZE - 1 -> Int32s]
      BY <1>9, <2>1 DEF Store, Contents
    <2>3. \A n \in DOMAIN <<>> : <<>>[n] \in Int32s
      OBVIOUS
    <2> QED
      BY <1>9, <2>2, <2>3, Pushed DEF Store, Contents
  <1>10. ASSUME NEW i, Dup(i)
         PROVE  Contents'
    <2>1. PICK x \in Int32s : Stack(1, <<x, x>>)
      BY <1>10, Peeks DEF Dup
    <2>2. \A n \in DOMAIN <<x, x>> : <<x, x>>[n] \in Int32s
      OBVIOUS
    <2> QED
      BY <1>10, <2>1, <2>2, Pushed DEF Dup, Contents
  <1>11. ASSUME NEW i, Binary(i)
         PROVE  Contents'
    <2>1. i.op \in Arithmetic /\ Peek(0) \in Int32s /\ Peek(1) \in Int32s
      BY <1>11, Peeks DEF Binary, Fetch
    <2>2. Compute(i.op, Peek(1), Peek(0)) \in Int32s
      <3>1. ~Traps(i.op, Peek(1), Peek(0))
        BY <1>11 DEF Binary
      <3>2. ASSUME NEW a \in Int32s, NEW b \in Int32s, ~Traps(i.op, a, b)
            PROVE  Compute(i.op, a, b) \in Int32s
        BY <2>1, <3>2, Computes
      <3> QED
        BY <2>1, <3>1, <3>2
    <2> QED
      BY <1>2, <1>11, <2>2 DEF Binary
  <1>12. ASSUME NEW i, Negate(i)
         PROVE  Contents'
    <2>1. Int32(-Peek(0)) \in Int32s
      <3>1. PICK x \in Int32s : x = Peek(0)
        BY Peeks
      <3>2. -x \in Int
        BY Range32
      <3> QED
        BY <3>1, <3>2, Range32
    <2> QED
      BY <1>2, <1>12, <2>1 DEF Negate
  <1>13. ASSUME NEW i, Increment(i)
         PROVE  Contents'
    <2>1. i.n \in 0 .. LOCALS_SIZE - 1 /\ i.v \in Int
      BY <1>13, Instruction DEF Increment
    <2>2. PICK x \in Int32s : x = locals[i.n]
      BY <2>1 DEF Contents
    <2>3. Int32(x + i.v) \in Int32s
      <3>1. x + i.v \in Int
        BY <2>1, Range32
      <3> QED
        BY <3>1, Range32
    <2>4. locals' = [locals EXCEPT ![i.n] = Int32(x + i.v)]
      BY <1>13, <2>2 DEF Increment
    <2>5. locals' \in [0 .. LOCALS_SIZE - 1 -> Int32s]
      BY <2>1, <2>3, <2>4 DEF Contents
    <2> QED
      BY <1>13, <2>5 DEF Increment, Contents
  <1>14. ASSUME NEW i, GetMouse(i)
         PROVE  Contents'
    <2>1. PICK c \in Coordinates : Stack(0, <<c>>)
      BY <1>14 DEF GetMouse
    <2> QED
      BY <1>2, <1>14, <2>1, Range32 DEF GetMouse
  <1>15. ASSUME NEW i, GetStatic(i)
         PROVE  Contents'
    BY <1>2, <1>15, Range32 DEF GetStatic
  <1> QED
    BY <1>4, <1>5, <1>6, <1>7, <1>8, <1>9, <1>10, <1>11, <1>12, <1>13, <1>14, <1>15
       DEF execute_bytecode

\* The program counter stays an address, skipped instructions or not.
LEMMA AddressStep ==
  ASSUME program \in Programs, pc \in Nat, execute_bytecode
  PROVE  pc' \in Nat
  <1>1. ASSUME NEW i, Advance(i)
        PROVE  pc' \in Nat
    BY <1>1 DEF Advance, OperandBytes
  <1>2. ASSUME NEW i, NEW ops, Fetch(ops, i), ops \subseteq Branches, NEW taken \in BOOLEAN, Jump(i, taken)
        PROVE  pc' \in Nat
    <2>1. i.op \in Branches /\ i.v \in Int
      BY <1>2, Instruction
    <2>2. OperandBytes(i.op) = 2
      BY <2>1 DEF OperandBytes, Branches, Tests, Comparisons
    <2>3. Address(program, i.v) \in Nat
      BY <2>1, BytesFinite
    <2> QED
      BY <1>2, <2>2, <2>3 DEF Jump, Offset
  <1>3. CASE Derail
    BY <1>3 DEF Derail
  <1>4. ASSUME NEW i, Test(i) \/ Compare(i) \/ Goto(i)
        PROVE  pc' \in Nat
    <2>1. CASE Goto(i)
      BY <1>2, <2>1 DEF Goto, Branches
    <2>2. CASE Test(i)
      <3>1. PICK b \in BOOLEAN : b <=> Holds(i.op, Peek(0), 0)
        OBVIOUS
      <3>2. Fetch(Tests, i) /\ Jump(i, b) /\ Tests \subseteq Branches
        BY <2>2, <3>1 DEF Test, Jump, Branches
      <3> QED
        BY <1>2, <3>2
    <2>3. CASE Compare(i)
      <3>1. PICK b \in BOOLEAN : b <=> Holds(i.op, Peek(1), Peek(0))
        OBVIOUS
      <3>2. Fetch(Comparisons, i) /\ Jump(i, b) /\ Comparisons \subseteq Branches
        BY <2>3, <3>1 DEF Compare, Jump, Branches
      <3> QED
        BY <1>2, <3>2
    <2> QED
      BY <1>4, <2>1, <2>2, <2>3
  <1>5. ASSUME NEW i, Return(i)
        PROVE  pc' \in Nat
    BY <1>5 DEF Return
  <1>6. ASSUME NEW i, Nop(i) \/ Constant(i) \/ Load(i) \/ Store(i) \/ Pop(i) \/ Dup(i) \/ Binary(i)
                      \/ Negate(i) \/ Increment(i) \/ GetMouse(i) \/ DrawPixel(i) \/ ShowOne(i)
                      \/ Update(i) \/ GetStatic(i) \/ PutStatic(i) \/ Skip(i)
        PROVE  Advance(i)
    BY <1>6 DEF Nop, Constant, Load, Store, Pop, Dup, Binary, Negate, Increment, GetMouse,
                DrawPixel, ShowOne, Update, GetStatic, PutStatic, Skip, PrintString, Unresolved,
                SkipInvoke, SkipOpcode, InvokeStatic
  <1> QED
    BY <1>1, <1>3, <1>4, <1>5, <1>6 DEF execute_bytecode, Skip

\* The inductive invariant of the types.
Typed == Inside /\ Contents /\ pc \in Nat

\* The least numbers a method is left with.
LEMMA Bit01 ==
  0 \in Int32s /\ 1 \in Int32s
  <1>1. PICK P \in Nat : P = Power[Bits - 1] /\ P >= 2
    BY WidthPowers
  <1> QED
    BY <1>1 DEF Int32s

LEMMA TypedStart ==
  Init => Typed
  BY Bit01, InsideStart DEF Init, Typed, Contents

LEMMA TypedStep ==
  Typed /\ Next => Typed'
  BY InsideStep, ContentsStep, AddressStep DEF Next, Typed, Inside

\* The interpreter's variables keep their types, with values of 32 bits on the
\* stack and in the locals, whatever has been skipped (bytecode.c:98-214).
THEOREM InterpreterTyped ==
  Spec => []TypeOK
  <1>1. Typed /\ UNCHANGED vars => Typed'
    BY DEF vars, Typed, Contents, Inside, Place
  <1>2. Typed => TypeOK
    BY DEF Typed, Contents, Inside, TypeOK
  <1> QED
    BY <1>1, <1>2, TypedStart, TypedStep, PTL DEF Spec

-----------------------------------------------------------------------------
(* The machine a compiler expects *)

\* An address leads back to its instruction.
LEMMA Numbered ==
  ASSUME NEW p \in Programs, NEW k \in DOMAIN p
  PROVE  (CHOOSE j \in DOMAIN p : Address(p, j) = Address(p, k)) = k
  <1>1. DOMAIN p \subseteq Nat \ {0}
    BY Methods
  <1>2. \A j \in DOMAIN p : Address(p, j) = Address(p, k) => j = k
    BY <1>1, AddressOfOne
  <1> QED
    BY <1>2

\* The instruction that is next, before a step and after it.
LEMMA HereNow ==
  ASSUME Inside, NEW k, Place(k), status = "running"
  PROVE  Here = k /\ k \in Nat \ {0} /\ Machine!Ins = program[k]
  <1>1. k \in Nat \ {0} /\ pc < Length(program)
    BY EndsInside, Widths DEF Place
  <1>2. (CHOOSE j \in DOMAIN program : Address(program, j) = pc) = k
    BY Numbered DEF Inside, Place
  <1>3. Here = k
    BY <1>1, <1>2 DEF Here, Running
  <1> QED
    BY <1>1, <1>3 DEF Machine!Ins

LEMMA HereNext ==
  ASSUME program \in Programs, program' = program, NEW k, Place(k)', status' = "running",
         pc' < Length(program)'
  PROVE  Here' = k
  <1>1. k \in DOMAIN program /\ pc' = Address(program, k) /\ pc' < Length(program')
    BY DEF Place
  <1>2. (CHOOSE j \in DOMAIN program : Address(program, j) = pc') = k
    BY <1>1, Numbered
  <1>3. Here' = CHOOSE j \in DOMAIN program : Address(program, j) = pc'
    BY <1>1 DEF Here, Running
  <1> QED
    BY <1>2, <1>3

\* As long as nothing is skipped, the stack pointer is in the array.
Room == plain = "yes" => sp + 1 \in 0 .. STACK_SIZE

\* What a concatenation of sequences is.
LEMMA Concatenation ==
  ASSUME NEW S, NEW s \in Seq(S), NEW t \in Seq(S)
  PROVE  s \o t = [d \in 1 .. Len(s) + Len(t) |-> IF d <= Len(s) THEN s[d] ELSE t[d - Len(s)]]
  <1>1. s \o t \in Seq(S) /\ Len(s \o t) = Len(s) + Len(t) /\ Len(s) \in Nat /\ Len(t) \in Nat
    OBVIOUS
  <1>2. \A d \in 1 .. Len(s) + Len(t) :
           (s \o t)[d] = IF d <= Len(s) THEN s[d] ELSE t[d - Len(s)]
    OBVIOUS
  <1>3. s \o t = [d \in 1 .. Len(s \o t) |-> (s \o t)[d]]
    <2>1. ASSUME NEW u \in Seq(S) PROVE u = [d \in 1 .. Len(u) |-> u[d]]
      OBVIOUS
    <2> QED
      BY <1>1, <2>1
  <1> QED
    BY <1>1, <1>2, <1>3

\* What is on the stack, as the machine sees it.
LEMMA OnStack ==
  ASSUME Contents, sp \in Int, sp + 1 \in 0 .. STACK_SIZE
  PROVE  /\ Operands \in Seq(Int32s) /\ Len(Operands) = sp + 1
         /\ \A k \in 0 .. sp : Machine!Operand(k) = Peek(k)
  <1>1. DOMAIN stack = 0 .. STACK_SIZE - 1 /\ \A d \in DOMAIN stack : stack[d] \in Int32s
    BY DEF Contents
  <1>2. PICK n \in Nat : n = sp + 1
    OBVIOUS
  <1>3. Operands = [d \in 1 .. n |-> stack[d - 1]]
    BY <1>2 DEF Operands
  <1>0. STACK_SIZE \in Nat /\ n <= STACK_SIZE
    BY <1>2, InterpreterAssumption
  <1>4. \A d \in 1 .. n : stack[d - 1] \in Int32s
    BY <1>0, <1>1
  <1>5. Operands \in Seq(Int32s) /\ Len(Operands) = n
    BY <1>3, <1>4
  <1>6. ASSUME NEW k \in 0 .. sp
        PROVE  Machine!Operand(k) = Peek(k)
    <2>1. n - k \in 1 .. n /\ (n - k) - 1 = sp - k /\ sp - k \in DOMAIN stack
      BY <1>0, <1>1, <1>2
    <2>2. Operands[n - k] = stack[sp - k]
      BY <1>3, <2>1
    <2> QED
      BY <1>5, <2>1, <2>2 DEF Machine!Operand, Peek
  <1> QED
    BY <1>2, <1>5, <1>6

\* Popping and pushing replaces the operands on top.
LEMMA Replaces ==
  ASSUME Contents, sp \in Int, sp + 1 \in 0 .. STACK_SIZE, NEW k \in Nat, NEW new \in Seq(Int32s),
         Stack(k, new), status' # "corrupt"
  PROVE  /\ k <= sp + 1 /\ sp' + 1 \in 0 .. STACK_SIZE
         /\ Machine!Replace(k, new)
  <1>1. PICK m \in Int : m = (sp + 1) - k
    OBVIOUS
  <1>2. Len(new) \in Nat /\ DOMAIN new = 1 .. Len(new)
    OBVIOUS
  <1>3. m \in Nat /\ sp' = (sp - k) + Len(new) /\ sp' < STACK_SIZE
    BY <1>1, <1>2 DEF Stack
  <1>4. sp' + 1 = m + Len(new)
    BY <1>1, <1>2, <1>3
  <1>5. /\ DOMAIN stack = 0 .. STACK_SIZE - 1 /\ DOMAIN stack' = DOMAIN stack
        /\ \A d \in DOMAIN stack :
              stack'[d] = IF (d - (sp - k)) \in DOMAIN new THEN new[d - (sp - k)] ELSE stack[d]
    BY DEF Stack, Contents
  <1>6. ASSUME NEW d \in 1 .. m + Len(new)
        PROVE  stack'[d - 1] = IF d <= m THEN stack[d - 1] ELSE new[d - m]
    <2>1. d - 1 \in DOMAIN stack /\ (d - 1) - (sp - k) = d - m
      BY <1>1, <1>2, <1>3, <1>4, <1>5, InterpreterAssumption
    <2>2. d - m \in DOMAIN new <=> ~(d <= m)
      BY <1>2, <1>3
    <2>3. stack'[d - 1] = IF (d - 1) - (sp - k) \in DOMAIN new THEN new[(d - 1) - (sp - k)] ELSE stack[d - 1]
      BY <1>5, <2>1
    <2> QED
      BY <2>1, <2>2, <2>3
  <1>7. Operands' = [d \in 1 .. m + Len(new) |-> IF d <= m THEN stack[d - 1] ELSE new[d - m]]
    <2>1. Operands' = [d \in 1 .. m + Len(new) |-> stack'[d - 1]]
      BY <1>4 DEF Operands
    <2> QED
      BY <1>6, <2>1
  <1>8. SubSeq(Operands, 1, m) = [d \in 1 .. m |-> stack[d - 1]]
    <2>1. Operands \in Seq(Int32s) /\ Len(Operands) = sp + 1 /\ m <= sp + 1
      BY <1>1, OnStack
    <2>2. \A d \in 1 .. m : Operands[d] = stack[d - 1]
      BY <1>1 DEF Operands
    <2> QED
      BY <1>3, <2>1, <2>2
  <1>9. Operands' = SubSeq(Operands, 1, m) \o new
    <2> DEFINE s == SubSeq(Operands, 1, m)
    <2>1. s \in Seq(Int32s) /\ Len(s) = m /\ \A d \in 1 .. m : s[d] = stack[d - 1]
      <3>1. Operands \in Seq(Int32s) /\ Len(Operands) = sp + 1 /\ m <= sp + 1
        BY <1>1, OnStack
      <3>2. SubSeq(Operands, 1, m) \in Seq(Int32s) /\ Len(SubSeq(Operands, 1, m)) = m
        BY <1>3, <3>1
      <3> QED
        BY <1>8, <3>2
    <2> HIDE DEF s
    <2>2. s \o new = [d \in 1 .. m + Len(new) |-> IF d <= m THEN s[d] ELSE new[d - m]]
      <3>1. s \in Seq(Int32s) /\ new \in Seq(Int32s)
        BY <2>1
      <3>2. s \o new = [d \in 1 .. Len(s) + Len(new) |-> IF d <= Len(s) THEN s[d] ELSE new[d - Len(s)]]
        BY <3>1, Concatenation
      <3> QED
        BY <2>1, <3>2
    <2>3. \A d \in 1 .. m + Len(new) :
             (IF d <= m THEN s[d] ELSE new[d - m]) = IF d <= m THEN stack[d - 1] ELSE new[d - m]
      BY <1>2, <1>3, <2>1
    <2> QED
      BY <1>7, <2>2, <2>3 DEF s
  <1>10. Len(Operands) - k = m
    BY <1>1, OnStack
  <1>11. Machine!Replace(k, new)
    BY <1>9, <1>10 DEF Machine!Replace
  <1>12. k <= sp + 1 /\ sp' + 1 \in 0 .. STACK_SIZE
    BY <1>1, <1>2, <1>3, <1>4, InterpreterAssumption
  <1> QED
    BY <1>11, <1>12

\* Nothing is replaced when the stack is left alone.
LEMMA Keeps ==
  ASSUME Contents, sp \in Int, sp + 1 \in 0 .. STACK_SIZE, UNCHANGED <<sp, stack>>
  PROVE  Operands' = Operands /\ Machine!Replace(0, <<>>)
  <1>1. Operands \in Seq(Int32s)
    BY OnStack
  <1>2. Operands' = Operands
    BY DEF Operands
  <1>3. SubSeq(Operands, 1, Len(Operands) - 0) \o <<>> = Operands
    BY <1>1
  <1> QED
    BY <1>2, <1>3 DEF Machine!Replace

\* The stack pointer stays in the array until something is skipped.
LEMMA RoomStep ==
  ASSUME Inside, Inside', Room, Next
  PROVE  Room'
  <1> SUFFICES ASSUME plain' = "yes" PROVE sp' + 1 \in 0 .. STACK_SIZE
    BY DEF Room
  <1>1. execute_bytecode /\ plain = "yes" /\ status' # "corrupt"
    BY DepthMoves DEF Next, Inside
  <1>2. sp \in Int /\ sp + 1 \in 0 .. STACK_SIZE
    BY <1>1 DEF Room, Inside
  <1>3. ASSUME NEW n \in Nat, NEW new, Len(new) \in Nat, Stack(n, new)
        PROVE  sp' + 1 \in 0 .. STACK_SIZE
    BY <1>1, <1>2, <1>3, InterpreterAssumption DEF Stack
  <1>4. ASSUME NEW x PROVE Len(<<x>>) = 1 /\ Len(<<>>) = 0 /\ Len(<<x, x>>) = 2
    OBVIOUS
  <1>5. ASSUME NEW x, Stack(0, <<x>>) \/ Stack(1, <<x>>) \/ Stack(2, <<x>>) \/ Stack(1, <<x, x>>)
        PROVE  sp' + 1 \in 0 .. STACK_SIZE
    BY <1>3, <1>4, <1>5
  <1>6. ASSUME Stack(1, <<>>) \/ Stack(2, <<>>) \/ Stack(3, <<>>)
        PROVE  sp' + 1 \in 0 .. STACK_SIZE
    BY <1>3, <1>4, <1>6
  <1>7. ASSUME NEW i, Constant(i) \/ Load(i) \/ Dup(i) \/ Binary(i) \/ Negate(i) \/ GetMouse(i) \/ GetStatic(i)
        PROVE  sp' + 1 \in 0 .. STACK_SIZE
    BY <1>5, <1>7 DEF Constant, Load, Dup, Binary, Negate, GetMouse, GetStatic
  <1>8. ASSUME NEW i, Store(i) \/ Pop(i) \/ Test(i) \/ Compare(i) \/ DrawPixel(i) \/ ShowOne(i)
                      \/ PutStatic(i) \/ PrintString(i)
        PROVE  sp' + 1 \in 0 .. STACK_SIZE
    BY <1>6, <1>8 DEF Store, Pop, Test, Compare, DrawPixel, ShowOne, PutStatic, PrintString
  <1>9. ASSUME NEW i, Nop(i) \/ Increment(i) \/ Goto(i) \/ Return(i) \/ Update(i) \/ Unresolved(i)
                      \/ SkipInvoke(i) \/ SkipOpcode(i) \/ Derail
        PROVE  sp' = sp
    BY <1>9 DEF Nop, Increment, Goto, Return, Update, Unresolved, SkipInvoke, SkipOpcode, Derail
  <1> QED
    BY <1>1, <1>2, <1>7, <1>8, <1>9 DEF execute_bytecode

\* The same condition decides a branch.
LEMMA SameConditions ==
  ASSUME NEW op \in Tests \union Comparisons, NEW a, NEW b
  PROVE  Holds(op, a, b) <=> Machine!Relation(op, a, b)
  BY DEF Holds, Machine!Relation, Tests, Comparisons

\* The names of groups of instructions mean the same.
LEMMA SameGroups ==
  /\ Machine!Constants = Constants /\ Machine!Loads = Loads /\ Machine!Stores = Stores
  /\ Machine!Arithmetic = Arithmetic /\ Machine!Tests = Tests
  /\ Machine!Comparisons = Comparisons /\ Machine!Returns = Returns
  /\ Machine!Answers = Answers /\ Machine!Parameters = Parameters
  BY DEF Machine!Constants, Constants, Machine!Loads, Loads, Machine!Stores, Stores,
         Machine!Arithmetic, Arithmetic, Machine!Bitwise, Bitwise, Machine!Tests, Tests,
         Machine!Comparisons, Comparisons, Machine!Returns, Returns, Machine!Answers, Answers,
         Machine!Parameters, Parameters

\* The state in which a step that skips nothing is taken.
Ready ==
    /\ Inside /\ Contents /\ Room /\ program \in Programs
    /\ plain = "yes" /\ status = "running" /\ sp \in Int /\ sp + 1 \in 0 .. STACK_SIZE

\* A branch of the interpreter is one of the machine.
LEMMA BranchFollows ==
  ASSUME Ready, NEW k, Place(k), NEW i, Test(i) \/ Compare(i) \/ Goto(i), program' = program
  PROVE  Machine!Next
  <1>1. PICK t : t = IF Taken(i) THEN i.v ELSE k + 1
    OBVIOUS
  <1>2. /\ i = program[k] /\ status' = "running" /\ Place(t)' /\ pc' < Length(program)'
    BY <1>1, BranchMoves DEF Ready
  <1>3. Here = k /\ k \in Nat \ {0} /\ Machine!Ins = i /\ Here' = t
    BY <1>2, HereNow, HereNext DEF Ready
  <1>4. <<>> \in Seq(Int32s)
    OBVIOUS
  <1>5. CASE Test(i)
    <2>1. i.op \in Tests /\ Stack(1, <<>>) /\ UNCHANGED <<locals, shown>>
      BY <1>5 DEF Test, Fetch
    <2>2. Machine!Replace(1, <<>>) /\ Machine!Operand(0) = Peek(0)
      <3>1. Machine!Replace(1, <<>>) /\ 1 <= sp + 1
        BY <1>2, <1>4, <2>1, Replaces DEF Ready
      <3>2. sp \in Int /\ \A d \in 0 .. sp : Machine!Operand(d) = Peek(d)
        BY OnStack DEF Ready
      <3> QED
        BY <3>1, <3>2
    <2>3. Taken(i) <=> Machine!Relation(i.op, Peek(0), 0)
      BY <2>1, SameConditions DEF Taken, Tests, Comparisons
    <2>4. Here' = IF Machine!Relation(i.op, Peek(0), 0) THEN i.v ELSE Here + 1
      BY <1>1, <1>3, <2>3
    <2>5. Machine!Branch
      BY <1>3, <2>1, <2>2, <2>4, SameGroups DEF Machine!Branch
    <2> QED
      BY <1>3, <2>5 DEF Machine!Next
  <1>6. CASE Compare(i)
    <2>1. i.op \in Comparisons /\ Stack(2, <<>>) /\ UNCHANGED <<locals, shown>>
      BY <1>6 DEF Compare, Fetch
    <2>2. Machine!Replace(2, <<>>) /\ Machine!Operand(0) = Peek(0) /\ Machine!Operand(1) = Peek(1)
      <3>1. Machine!Replace(2, <<>>) /\ 2 <= sp + 1
        BY <1>2, <1>4, <2>1, Replaces DEF Ready
      <3>2. sp \in Int /\ \A d \in 0 .. sp : Machine!Operand(d) = Peek(d)
        BY OnStack DEF Ready
      <3> QED
        BY <3>1, <3>2
    <2>3. Taken(i) <=> Machine!Relation(i.op, Peek(1), Peek(0))
      BY <2>1, SameConditions DEF Taken, Tests, Comparisons
    <2>4. Here' = IF Machine!Relation(i.op, Peek(1), Peek(0)) THEN i.v ELSE Here + 1
      BY <1>1, <1>3, <2>3
    <2>5. Machine!Branch
      BY <1>3, <2>1, <2>2, <2>4, SameGroups DEF Machine!Branch
    <2> QED
      BY <1>3, <2>5 DEF Machine!Next
  <1>7. CASE Goto(i)
    <2>1. i.op = "goto" /\ UNCHANGED <<sp, stack, locals, shown>>
      BY <1>7 DEF Goto, Fetch
    <2>2. Machine!Replace(0, <<>>) /\ t = i.v
      BY <1>1, <2>1, Keeps DEF Ready, Taken
    <2>3. Machine!Branch
      BY <1>3, <2>1, <2>2 DEF Machine!Branch
    <2> QED
      BY <1>3, <2>3 DEF Machine!Next
  <1> QED
    BY <1>5, <1>6, <1>7

\* The operands on top, as a sequence.
LEMMA OnTop ==
  ASSUME NEW S, NEW s \in Seq(S), NEW l \in Nat, l = Len(s)
  PROVE  /\ l >= 1 => SubSeq(s, l - 1 + 1, l) = <<s[l]>>
         /\ l >= 3 => SubSeq(s, l - 3 + 1, l) = <<s[l - 2], s[l - 1], s[l]>>
  <1>0. ASSUME NEW u \in Seq(S), NEW v \in Seq(S), Len(u) = Len(v),
               \A d \in 1 .. Len(u) : u[d] = v[d]
        PROVE  u = v
    BY <1>0
  <1>1. ASSUME NEW u \in Seq(S), Len(u) = 1 PROVE u = <<u[1]>>
    <2>1. u[1] \in S
      <3>1. \A d \in 1 .. Len(u) : u[d] \in S
        OBVIOUS
      <3>2. 1 \in 1 .. Len(u)
        BY <1>1
      <3> QED
        BY <3>1, <3>2
    <2>2. /\ <<u[1]>> \in Seq(S) /\ Len(<<u[1]>>) = 1
          /\ \A d \in 1 .. 1 : u[d] = <<u[1]>>[d]
      BY <2>1
    <2> QED
      BY <1>0, <1>1, <2>2
  <1>2. ASSUME NEW u \in Seq(S), Len(u) = 3 PROVE u = <<u[1], u[2], u[3]>>
    <2> DEFINE v == <<u[1], u[2], u[3]>>
    <2>1. u[1] \in S /\ u[2] \in S /\ u[3] \in S
      <3>1. \A d \in 1 .. Len(u) : u[d] \in S
        OBVIOUS
      <3>2. 1 \in 1 .. Len(u) /\ 2 \in 1 .. Len(u) /\ 3 \in 1 .. Len(u)
        BY <1>2
      <3> QED
        BY <3>1, <3>2
    <2>2. v \in Seq(S) /\ Len(v) = 3 /\ v[1] = u[1] /\ v[2] = u[2] /\ v[3] = u[3]
      BY <2>1
    <2>3. \A d \in 1 .. 3 : d = 1 \/ d = 2 \/ d = 3
      OBVIOUS
    <2> HIDE DEF v
    <2>4. u = v
      BY <1>0, <1>2, <2>2, <2>3
    <2> QED
      BY <2>4 DEF v
  <1>3. ASSUME NEW m \in 1 .. l
        PROVE  /\ SubSeq(s, m, l) \in Seq(S) /\ Len(SubSeq(s, m, l)) = l - m + 1
               /\ \A d \in 1 .. l - m + 1 : SubSeq(s, m, l)[d] = s[m + d - 1]
    OBVIOUS
  <1>4. ASSUME l >= 1 PROVE SubSeq(s, l - 1 + 1, l) = <<s[l]>>
    <2>1. PICK u : u = SubSeq(s, l, l)
      OBVIOUS
    <2>2. u \in Seq(S) /\ Len(u) = 1 /\ \A d \in 1 .. 1 : u[d] = s[l + d - 1]
      BY <1>3, <1>4, <2>1
    <2>3. u[1] = s[l] /\ l - 1 + 1 = l
      BY <2>2
    <2> QED
      BY <1>1, <2>1, <2>2, <2>3
  <1>5. ASSUME l >= 3 PROVE SubSeq(s, l - 3 + 1, l) = <<s[l - 2], s[l - 1], s[l]>>
    <2>1. PICK m \in 1 .. l : m = l - 2
      BY <1>5
    <2>2. PICK u : u = SubSeq(s, m, l)
      OBVIOUS
    <2>3. u \in Seq(S) /\ Len(u) = 3 /\ \A d \in 1 .. 3 : u[d] = s[m + d - 1]
      BY <1>3, <2>1, <2>2
    <2>4. u[1] = s[l - 2] /\ u[2] = s[l - 1] /\ u[3] = s[l]
      BY <2>1, <2>3
    <2>5. l - 3 + 1 = m
      BY <2>1
    <2> QED
      BY <1>2, <2>2, <2>3, <2>4, <2>5
  <1> QED
    BY <1>4, <1>5

\* A call of a native is one of the machine.
LEMMA InvokeFollows ==
  ASSUME Ready, InScreenRange, NEW k, Place(k), NEW i \in Instructions,
         GetMouse(i) \/ DrawPixel(i) \/ ShowOne(i) \/ Update(i), program' = program
  PROVE  Machine!Next
  <1>1. /\ i = program[k] /\ status' = "running" /\ Place(k + 1)' /\ pc' < Length(program)'
    BY StraightMoves DEF Ready, Straight
  <1>2. Here = k /\ k \in Nat \ {0} /\ Machine!Ins = i /\ Here' = k + 1
    <2>1. PICK t : t = k + 1
      OBVIOUS
    <2>2. Place(t)'
      BY <1>1, <2>1
    <2> QED
      BY <1>1, <2>1, <2>2, HereNow, HereNext DEF Ready
  <1>3. <<>> \in Seq(Int32s) /\ Operands \in Seq(Int32s) /\ Len(Operands) = sp + 1
    BY OnStack DEF Ready
  <1>4. Parameters[5] = 3 /\ Parameters[1] = 1 /\ Parameters[6] = 1 /\ Parameters[7] = 0
        /\ Answers = {3, 4, 8}
    BY DEF Parameters, Answers
  <1>5. CASE GetMouse(i)
    <2>1. i.op = "invokestatic" /\ i.n \in {3, 4} /\ UNCHANGED <<locals, shown>>
      BY <1>5 DEF GetMouse, InvokeStatic, Fetch, handle_native_call
    <2>2. PICK c \in Coordinates : Stack(0, <<c>>)
      BY <1>5 DEF GetMouse
    <2>3. <<c>> \in Seq(Int32s)
      BY Range32
    <2>4. Machine!Replace(0, <<c>>)
      BY <1>1, <2>2, <2>3, Replaces DEF Ready
    <2>5. Machine!Invoke
      BY <1>2, <1>4, <2>1, <2>4, SameGroups DEF Machine!Invoke
    <2> QED
      BY <1>2, <2>5 DEF Machine!Next
  <1>6. ASSUME i.op = "invokestatic", i.n \notin Answers, UNCHANGED locals,
               Machine!Replace(Parameters[i.n], <<>>),
               shown' = <<i.n>> \o SubSeq(Operands, Len(Operands) - Parameters[i.n] + 1, Len(Operands))
        PROVE  Machine!Next
    <2>1. Machine!Invoke
      BY <1>2, <1>6, SameGroups DEF Machine!Invoke
    <2> QED
      BY <1>2, <2>1 DEF Machine!Next
  <1>7. CASE DrawPixel(i)
    <2>1. /\ i.op = "invokestatic" /\ i.n = 5 /\ Stack(3, <<>>) /\ UNCHANGED locals
          /\ Fetch({"invokestatic"}, i)
          /\ shown' = <<5, UInt16(Peek(2)), UInt16(Peek(1)), Peek(0)>>
      BY <1>7 DEF DrawPixel, InvokeStatic, Fetch, handle_native_call
    <2>2. Machine!Replace(3, <<>>) /\ 3 <= sp + 1
      BY <1>1, <1>3, <2>1, Replaces DEF Ready
    <2>3. UInt16(Peek(2)) = Peek(2) /\ UInt16(Peek(1)) = Peek(1)
      BY <2>1 DEF InScreenRange
    <2>4. Operands[sp + 1] = Peek(0) /\ Operands[sp] = Peek(1) /\ Operands[sp - 1] = Peek(2)
      BY <1>3, <2>2, OnStack DEF Ready, Machine!Operand
    <2>5. SubSeq(Operands, Len(Operands) - 3 + 1, Len(Operands)) = <<Peek(2), Peek(1), Peek(0)>>
      BY <1>3, <2>2, <2>4, OnTop DEF Ready
    <2>6. shown' = <<i.n>> \o <<Peek(2), Peek(1), Peek(0)>>
      BY <2>1, <2>3
    <2> QED
      <3>1. Parameters[i.n] = 3 /\ i.n \notin Answers
        BY <1>4, <2>1
      <3>2. shown' = <<i.n>> \o SubSeq(Operands, Len(Operands) - Parameters[i.n] + 1, Len(Operands))
        BY <3>1, <2>5, <2>6
      <3>3. Machine!Replace(Parameters[i.n], <<>>)
        BY <2>2, <3>1
      <3> QED
        BY <1>6, <2>1, <3>1, <3>2, <3>3
  <1>8. CASE ShowOne(i)
    <2>1. /\ i.op = "invokestatic" /\ i.n \in {1, 6} /\ Stack(1, <<>>) /\ UNCHANGED locals
          /\ shown' = <<i.n, Peek(0)>>
      BY <1>8 DEF ShowOne, InvokeStatic, Fetch, handle_native_call
    <2>2. Machine!Replace(1, <<>>) /\ 1 <= sp + 1
      BY <1>1, <1>3, <2>1, Replaces DEF Ready
    <2>3. Operands[sp + 1] = Peek(0)
      BY <1>3, <2>2, OnStack DEF Ready, Machine!Operand
    <2>4. SubSeq(Operands, Len(Operands) - 1 + 1, Len(Operands)) = <<Peek(0)>>
      BY <1>3, <2>2, <2>3, OnTop DEF Ready
    <2>5. shown' = <<i.n>> \o <<Peek(0)>>
      BY <2>1
    <2> QED
      <3>1. Parameters[i.n] = 1 /\ i.n \notin Answers
        BY <1>4, <2>1
      <3>2. shown' = <<i.n>> \o SubSeq(Operands, Len(Operands) - Parameters[i.n] + 1, Len(Operands))
        BY <3>1, <2>4, <2>5
      <3>3. Machine!Replace(Parameters[i.n], <<>>)
        BY <2>2, <3>1
      <3> QED
        BY <1>6, <2>1, <3>1, <3>2, <3>3
  <1>9. CASE Update(i)
    <2>1. /\ i.op = "invokestatic" /\ i.n = 7 /\ UNCHANGED <<sp, stack, locals>>
          /\ shown' = <<7>>
      BY <1>9 DEF Update, InvokeStatic, Fetch, handle_native_call
    <2>2. Machine!Replace(0, <<>>)
      BY <2>1, Keeps DEF Ready
    <2>3. SubSeq(Operands, Len(Operands) - 0 + 1, Len(Operands)) = <<>>
      BY <1>3 DEF Ready
    <2>4. shown' = <<i.n>> \o <<>>
      BY <2>1
    <2> QED
      <3>1. Parameters[i.n] = 0 /\ i.n \notin Answers
        BY <1>4, <2>1
      <3>2. shown' = <<i.n>> \o SubSeq(Operands, Len(Operands) - Parameters[i.n] + 1, Len(Operands))
        BY <3>1, <2>3, <2>4
      <3>3. Machine!Replace(Parameters[i.n], <<>>)
        BY <2>2, <3>1
      <3> QED
        BY <1>6, <2>1, <3>1, <3>2, <3>3
  <1> QED
    BY <1>5, <1>7, <1>8, <1>9

\* Replacing the number on top by two of its kind is pushing one more.
LEMMA Doubled ==
  ASSUME NEW S, NEW s \in Seq(S), NEW l \in Nat \ {0}, l = Len(s)
  PROVE  SubSeq(s, 1, l - 1) \o <<s[l], s[l]>> = SubSeq(s, 1, l - 0) \o <<s[l]>>
  <1> DEFINE u == SubSeq(s, 1, l - 1)
             v == SubSeq(s, 1, l - 0)
             x == s[l]
  <1>1. x \in S
    <2>1. \A d \in 1 .. Len(s) : s[d] \in S
      OBVIOUS
    <2> QED
      BY <2>1
  <1>2. u \in Seq(S) /\ Len(u) = l - 1 /\ \A d \in 1 .. l - 1 : u[d] = s[d]
    OBVIOUS
  <1>3. v \in Seq(S) /\ Len(v) = l /\ \A d \in 1 .. l : v[d] = s[d]
    OBVIOUS
  <1>4. v[l] = x
    BY <1>3
  <1>5. <<x, x>> \in Seq(S) /\ Len(<<x, x>>) = 2 /\ <<x, x>>[1] = x /\ <<x, x>>[2] = x
    BY <1>1
  <1>6. <<x>> \in Seq(S) /\ Len(<<x>>) = 1 /\ <<x>>[1] = x
    BY <1>1
  <1> HIDE DEF u, v, x
  <1>7. u \o <<x, x>> = [d \in 1 .. l + 1 |-> IF d <= l - 1 THEN s[d] ELSE x]
    <2>1. u \o <<x, x>> = [d \in 1 .. Len(u) + 2 |-> IF d <= Len(u) THEN u[d] ELSE <<x, x>>[d - Len(u)]]
      BY <1>2, <1>5, Concatenation
    <2>2. Len(u) + 2 = l + 1
      BY <1>2
    <2>3. ASSUME NEW d \in 1 .. l + 1
          PROVE  (IF d <= Len(u) THEN u[d] ELSE <<x, x>>[d - Len(u)]) = IF d <= l - 1 THEN s[d] ELSE x
      BY <1>2, <1>5
    <2> QED
      BY <2>1, <2>2, <2>3
  <1>8. v \o <<x>> = [d \in 1 .. l + 1 |-> IF d <= l - 1 THEN s[d] ELSE x]
    <2>1. v \o <<x>> = [d \in 1 .. Len(v) + 1 |-> IF d <= Len(v) THEN v[d] ELSE <<x>>[d - Len(v)]]
      <3>1. PICK w \in Seq(S) : w = <<x>>
        BY <1>6
      <3>2. v \o w = [d \in 1 .. Len(v) + Len(w) |-> IF d <= Len(v) THEN v[d] ELSE w[d - Len(v)]]
        BY <1>3, Concatenation, ZenonT(60)
      <3> QED
        BY <1>6, <3>1, <3>2
    <2>2. Len(v) + 1 = l + 1
      BY <1>3
    <2>3. ASSUME NEW d \in 1 .. l + 1
          PROVE  (IF d <= Len(v) THEN v[d] ELSE <<x>>[d - Len(v)]) = IF d <= l - 1 THEN s[d] ELSE x
      BY <1>3, <1>4, <1>6
    <2> QED
      BY <2>1, <2>2, <2>3
  <1>9. u \o <<x, x>> = v \o <<x>>
    BY <1>7, <1>8
  <1> QED
    BY <1>9 DEF u, v, x

\* An operation on the stack and the locals is one of the machine.
LEMMA StraightFollows ==
  ASSUME Ready, NEW k, Place(k), NEW i,
         Straight(i), ~(GetMouse(i) \/ DrawPixel(i) \/ ShowOne(i) \/ Update(i)), program' = program
  PROVE  Machine!Next
  <1>1. /\ i = program[k] /\ status' = "running" /\ Place(k + 1)' /\ pc' < Length(program)'
    BY StraightMoves DEF Ready
  <1>2. Here = k /\ k \in Nat \ {0} /\ Machine!Ins = i /\ Here' = Here + 1
    <2>1. PICK t : t = k + 1
      OBVIOUS
    <2>2. Place(t)'
      BY <1>1, <2>1
    <2> QED
      BY <1>1, <2>1, <2>2, HereNow, HereNext DEF Ready
  <1> SUFFICES ASSUME TRUE PROVE Machine!Straight
    BY <1>2 DEF Machine!Next
  <1>3. \A x \in Int32s : <<x>> \in Seq(Int32s) /\ <<x, x>> \in Seq(Int32s)
    OBVIOUS
  <1>4. <<>> \in Seq(Int32s) /\ 0 \in Int32s /\ Operands \in Seq(Int32s) /\ Len(Operands) = sp + 1
    BY OnStack, Range32 DEF Ready
  <1>5. \A d \in 0 .. sp : Machine!Operand(d) = Peek(d)
    BY OnStack DEF Ready
  <1>6. Peek(0) \in Int32s /\ Peek(1) \in Int32s
    BY Peeks DEF Ready
  <1>7. ASSUME NEW n \in Nat, NEW new \in Seq(Int32s), Stack(n, new)
        PROVE  Machine!Replace(n, new) /\ n <= sp + 1
    BY <1>1, <1>7, Replaces DEF Ready
  <1>8. CASE Nop(i)
    <2>1. i.op = "nop" /\ UNCHANGED <<sp, stack, locals, shown>>
      BY <1>8 DEF Nop, Fetch
    <2>2. Machine!Replace(0, <<>>)
      BY <2>1, Keeps DEF Ready
    <2> QED
      BY <1>2, <2>1, <2>2 DEF Machine!Straight
  <1>9. CASE Constant(i)
    <2>1. i.op \in Constants /\ Stack(0, <<i.n>>) /\ UNCHANGED <<locals, shown>> /\ i.n \in Int32s
      BY <1>9, Instruction DEF Constant, Ready
    <2>2. Machine!Replace(0, <<i.n>>)
      BY <1>3, <1>7, <2>1
    <2> QED
      BY <1>2, <2>1, <2>2, SameGroups DEF Machine!Straight
  <1>10. CASE Load(i)
    <2>1. /\ i.op \in Loads /\ Stack(0, <<locals[i.n]>>) /\ UNCHANGED <<locals, shown>>
          /\ i.n \in 0 .. LOCALS_SIZE - 1
      BY <1>10, Instruction DEF Load, Ready
    <2>2. locals[i.n] \in Int32s
      BY <2>1 DEF Ready, Contents
    <2>3. Machine!Replace(0, <<locals[i.n]>>)
      BY <1>3, <1>7, <2>1, <2>2
    <2> QED
      BY <1>2, <2>1, <2>3, SameGroups DEF Machine!Straight
  <1>11. CASE Store(i)
    <2>1. /\ i.op \in Stores /\ Stack(1, <<>>) /\ shown' = shown
          /\ locals' = [locals EXCEPT ![i.n] = Peek(0)]
      BY <1>11 DEF Store, Fetch
    <2>2. Machine!Replace(1, <<>>) /\ 1 <= sp + 1
      BY <1>4, <1>7, <2>1
    <2>3. Machine!Operand(0) = Peek(0)
      BY <1>5, <2>2 DEF Ready
    <2> QED
      BY <1>2, <2>1, <2>2, <2>3, SameGroups DEF Machine!Straight
  <1>12. CASE Pop(i)
    <2>1. i.op = "pop" /\ Stack(1, <<>>) /\ UNCHANGED <<locals, shown>>
      BY <1>12 DEF Pop, Fetch
    <2>2. Machine!Replace(1, <<>>)
      BY <1>4, <1>7, <2>1
    <2> QED
      BY <1>2, <2>1, <2>2 DEF Machine!Straight
  <1>13. CASE Dup(i)
    <2>1. i.op = "dup" /\ Stack(1, <<Peek(0), Peek(0)>>) /\ UNCHANGED <<locals, shown>>
      BY <1>13 DEF Dup, Fetch
    <2>2. Machine!Replace(1, <<Peek(0), Peek(0)>>) /\ 1 <= sp + 1
      BY <1>3, <1>6, <1>7, <2>1
    <2>3. Machine!Operand(0) = Peek(0)
      BY <1>5, <2>2 DEF Ready
    <2>4. PICK l \in Nat \ {0} : l = Len(Operands)
      BY <1>4, <2>2 DEF Ready
    <2>5. Operands[l] = Peek(0)
      BY <2>3, <2>4 DEF Machine!Operand
    <2>6. SubSeq(Operands, 1, l - 1) \o <<Operands[l], Operands[l]>> = SubSeq(Operands, 1, l - 0) \o <<Operands[l]>>
      BY <1>4, <2>4, Doubled
    <2>7. Operands' = SubSeq(Operands, 1, l - 1) \o <<Operands[l], Operands[l]>>
      BY <2>2, <2>4, <2>5 DEF Machine!Replace
    <2>8. Machine!Replace(0, <<Machine!Operand(0)>>)
      BY <2>3, <2>4, <2>5, <2>6, <2>7 DEF Machine!Replace
    <2> QED
      BY <1>2, <2>1, <2>8 DEF Machine!Straight
  <1>14. CASE Binary(i)
    <2>1. /\ i.op \in Arithmetic /\ ~Traps(i.op, Peek(1), Peek(0))
          /\ Stack(2, <<Compute(i.op, Peek(1), Peek(0))>>) /\ UNCHANGED <<locals, shown>>
      BY <1>14 DEF Binary, Fetch
    <2>2. /\ Compute(i.op, Peek(1), Peek(0)) \in Int32s
          /\ Compute(i.op, Peek(1), Peek(0)) = Machine!Result(i.op, Peek(1), Peek(0))
      <3>1. ASSUME NEW a \in Int32s, NEW b \in Int32s, ~Traps(i.op, a, b)
            PROVE  Compute(i.op, a, b) \in Int32s /\ Compute(i.op, a, b) = Machine!Result(i.op, a, b)
        BY <2>1, <3>1, Computes
      <3> QED
        BY <1>6, <2>1, <3>1
    <2>3. Machine!Replace(2, <<Compute(i.op, Peek(1), Peek(0))>>) /\ 2 <= sp + 1
      BY <1>3, <1>7, <2>1, <2>2
    <2>4. Machine!Operand(0) = Peek(0) /\ Machine!Operand(1) = Peek(1)
      BY <1>5, <2>3 DEF Ready
    <2>5. Machine!Replace(2, <<Machine!Result(i.op, Machine!Operand(1), Machine!Operand(0))>>)
      BY <2>2, <2>3, <2>4
    <2> QED
      BY <1>2, <2>1, <2>5, SameGroups DEF Machine!Straight
  <1>15. CASE Negate(i)
    <2>1. i.op = "ineg" /\ Stack(1, <<Int32(-Peek(0))>>) /\ UNCHANGED <<locals, shown>>
      BY <1>15 DEF Negate, Fetch
    <2>2. Int32(-Peek(0)) \in Int32s /\ Int32(-Peek(0)) = Machine!Word(-Peek(0))
      <3>1. PICK x \in Int32s : x = Peek(0)
        BY <1>6
      <3>2. -x \in Int
        BY Range32
      <3> QED
        BY <3>1, <3>2, Range32, SameNumbers
    <2>3. Machine!Replace(1, <<Machine!Word(-Peek(0))>>) /\ 1 <= sp + 1
      BY <1>3, <1>7, <2>1, <2>2
    <2>4. Machine!Operand(0) = Peek(0)
      BY <1>5, <2>3 DEF Ready
    <2>5. Machine!Replace(1, <<Machine!Word(-Machine!Operand(0))>>)
      BY <2>3, <2>4
    <2> QED
      BY <1>2, <2>1, <2>5 DEF Machine!Straight
  <1>16. CASE Increment(i)
    <2>1. /\ i.op = "iinc" /\ locals' = [locals EXCEPT ![i.n] = Int32(locals[i.n] + i.v)]
          /\ UNCHANGED <<sp, stack, shown>> /\ i.n \in 0 .. LOCALS_SIZE - 1 /\ i.v \in Int
      BY <1>16, Instruction DEF Increment, Ready
    <2>2. Int32(locals[i.n] + i.v) = Machine!Word(locals[i.n] + i.v)
      <3>1. PICK x \in Int32s : x = locals[i.n]
        BY <2>1 DEF Ready, Contents
      <3>2. x + i.v \in Int
        BY <2>1, Range32
      <3> QED
        BY <3>1, <3>2, SameNumbers
    <2>3. locals' = [locals EXCEPT ![i.n] = Machine!Word(locals[i.n] + i.v)]
      BY <2>1, <2>2
    <2>4. Machine!Replace(0, <<>>)
      BY <2>1, Keeps DEF Ready
    <2> QED
      BY <1>2, <2>1, <2>3, <2>4 DEF Machine!Straight
  <1>17. CASE GetStatic(i)
    <2>1. i.op = "getstatic" /\ Stack(0, <<0>>) /\ UNCHANGED <<locals, shown>>
      BY <1>17 DEF GetStatic, Fetch
    <2>2. Machine!Replace(0, <<0>>)
      BY <1>3, <1>4, <1>7, <2>1
    <2> QED
      BY <1>2, <2>1, <2>2 DEF Machine!Straight
  <1>18. CASE PutStatic(i)
    <2>1. i.op = "putstatic" /\ Stack(1, <<>>) /\ UNCHANGED <<locals, shown>>
      BY <1>18 DEF PutStatic, Fetch
    <2>2. Machine!Replace(1, <<>>)
      BY <1>4, <1>7, <2>1
    <2> QED
      BY <1>2, <2>1, <2>2 DEF Machine!Straight
  <1> QED
    BY <1>8, <1>9, <1>10, <1>11, <1>12, <1>13, <1>14, <1>15, <1>16, <1>17, <1>18 DEF Straight

\* Every step before something is skipped is one of the machine.
LEMMA Follows ==
  ASSUME Typed, Room, Next, plain' = "yes", InScreenRange
  PROVE  Machine!Next
  <1>1. program' = program /\ execute_bytecode
    BY DEF Next
  <1>2. plain = "yes" /\ status \in {"running", "returned"}
    BY <1>1, DepthMoves DEF Typed, Inside
  <1>3. Running
    BY <1>1 DEF execute_bytecode, Derail, Nop, Constant, Load, Store, Pop, Dup, Binary, Negate,
                Increment, Test, Compare, Goto, Return, GetMouse, DrawPixel, ShowOne, Update,
                PrintString, Unresolved, SkipInvoke, GetStatic, PutStatic, SkipOpcode,
                InvokeStatic, Fetch
  <1>4. Ready
    BY <1>2, <1>3 DEF Typed, Inside, Room, Ready, Running
  <1>5. PICK k \in DOMAIN program : Place(k)
    BY <1>2, <1>4 DEF Ready, Inside
  <1>6. ~Derail
    BY <1>5 DEF Derail, StartsAt, Place
  <1>7. PICK i \in Instructions : Straight(i) \/ Test(i) \/ Compare(i) \/ Goto(i) \/ Return(i) \/ Skip(i)
    BY <1>1, <1>6 DEF execute_bytecode, Straight, Skip
  <1>8. ~Skip(i)
    BY DEF Skip, PrintString, Unresolved, SkipInvoke, SkipOpcode
  <1>9. CASE Test(i) \/ Compare(i) \/ Goto(i)
    BY <1>1, <1>4, <1>5, <1>9, BranchFollows
  <1>10. CASE GetMouse(i) \/ DrawPixel(i) \/ ShowOne(i) \/ Update(i)
    BY <1>1, <1>4, <1>5, <1>10, InvokeFollows
  <1>11. CASE Straight(i) /\ ~(GetMouse(i) \/ DrawPixel(i) \/ ShowOne(i) \/ Update(i))
    BY <1>1, <1>4, <1>5, <1>11, StraightFollows
  <1>12. CASE Return(i)
    <2>1. /\ Fetch(Returns, i) /\ status' = "returned" /\ UNCHANGED <<sp, stack, locals, shown>>
      BY <1>12 DEF Return
    <2>2. i = program[k] /\ i.op \in Returns
      BY <1>4, <1>5, <2>1, Fetched DEF Ready
    <2>3. Here = k /\ k \in Nat \ {0} /\ Machine!Ins = i
      BY <1>4, <1>5, <2>2, HereNow DEF Ready
    <2>4. Here' = 0
      BY <2>1 DEF Here, Running
    <2>5. Operands' = Operands
      BY <1>4, <2>1, Keeps DEF Ready
    <2>6. Machine!Return
      BY <2>1, <2>2, <2>3, <2>4, <2>5, SameGroups DEF Machine!Return
    <2> QED
      BY <1>1, <2>3, <2>6 DEF Machine!Next
  <1> QED
    BY <1>7, <1>8, <1>9, <1>10, <1>11, <1>12

\* The interpreter starts where the machine does.
LEMMA StartFollows ==
  ASSUME Init
  PROVE  Machine!Init
  <1>1. 0 \in Int32s /\ 1 \in Int32s
    BY Bit01
  <1>2. Inside
    BY InsideStart
  <1>3. /\ pc = 0 /\ sp = -1 /\ status = "running" /\ plain = "yes" /\ shown = <<>>
        /\ \E left \in {0, 1} : locals = [i \in 0 .. LOCALS_SIZE - 1 |-> left]
    BY DEF Init
  <1>4. 1 \in DOMAIN program /\ Place(1)
    <2>1. <<1, 0>> \in Depths(program) /\ program \in Programs /\ Verified(program, STACK_SIZE)
      BY DEF Init, Verified, StackMap
    <2>2. 1 \in DOMAIN program
      BY <2>1, Known
    <2>3. Address(program, 1) = 0
      BY NextAddress
    <2>4. sp + 1 = 0
      BY <1>3
    <2> QED
      BY <1>3, <2>1, <2>2, <2>3, <2>4 DEF Place
  <1>5. Here = 1
    BY <1>2, <1>3, <1>4, HereNow
  <1>6. Operands = <<>>
    <2>1. 1 .. sp + 1 = {}
      BY <1>3
    <2> QED
      BY <2>1 DEF Operands
  <1>7. locals \in [0 .. LOCALS_SIZE - 1 -> Machine!Words]
    BY <1>1, <1>3, SameNumbers
  <1> QED
    BY <1>3, <1>5, <1>6, <1>7 DEF Machine!Init

\* Until an instruction is skipped, and unless drawPixel cuts a coordinate, the
\* interpreter implements the machine that the compiler compiled for, for every
\* set of methods and every width of the numbers (bytecode.c:19-61, 98-208).
THEOREM InterpreterFollowsJvm ==
  Spec => FollowsJvm
  <1> DEFINE IInv == Typed /\ Room
             A == plain' = "yes" /\ InScreenRange => Machine!Next
  <1>1. Init => IInv /\ Machine!Init
    <2>1. Init => Room
      BY InterpreterAssumption DEF Init, Room
    <2> QED
      BY <2>1, TypedStart, StartFollows
  <1>2. IInv /\ [Next]_vars => IInv'
    <2>1. Typed /\ Next => Typed'
      BY TypedStep
    <2>2. Typed /\ Typed' /\ Room /\ Next => Room'
      BY RoomStep DEF Typed
    <2>3. IInv /\ UNCHANGED vars => IInv'
      BY DEF vars, Typed, Contents, Inside, Place, Room
    <2> QED
      BY <2>1, <2>2, <2>3
  <1>3. IInv /\ [Next]_vars => [A]_vars
    BY Follows
  <1> QED
    BY <1>1, <1>2, <1>3, PTL DEF Spec, FollowsJvm
=============================================================================
