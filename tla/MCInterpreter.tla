--------------------------- MODULE MCInterpreter ----------------------------
(* Four-bit integers, two locals and a stack of three.  The methods are: the *)
(* loop of the archive that comes with the kernel (src/src/assets/test.jar,  *)
(* with smaller numbers), as compiled and with names that end in a NUL,      *)
(* every operation and every comparison on some operands, all methods of     *)
(* three instructions over a small alphabet, and some that contain calls     *)
(* and instructions the interpreter skips.                                   *)
EXTENDS Interpreter

I(op, n, v) == [op |-> op, n |-> n, v |-> v]
O(op) == I(op, 0, 0)

Values == {-8, -3, -1, 0, 2, 7}

Calculations ==
    {<<I("bipush", a, 0), I("sipush", b, 0), O(f), I("istore_n", 0, 0), O("return")>> :
        a \in Values, b \in Values, f \in Arithmetic}
    \union
    {<<I("bipush", a, 0), O("ineg"), I("istore", 1, 0), O("return")>> : a \in Values}

Decisions ==
    {<<I("bipush", a, 0), I("iconst", b, 0), I(r, 0, 5), I("iinc", 1, -3), O("return")>> :
        a \in Values, b \in {-1, 0, 2}, r \in Comparisons}
    \union
    {<<I("ldc", a, 0), I(r, 0, 4), I("iinc", 1, 5), I("iload", 1, 0), O("ireturn")>> :
        a \in Values, r \in Tests}
    \union
    {<<I("ldc", a, 0), I(r, 0, 4), I("iinc", 1, 5), O("return")>> : a \in Values, r \in Tests}

Alphabet ==
    {I("iconst", 1, 0), I("iload_n", 0, 0), I("istore", 1, 0), O("dup"), O("pop"), O("nop"),
     O("ineg"), O("isub"), O("getstatic"), O("putstatic"), O("return"),
     I("invokestatic", 3, 0), I("invokestatic", 1, 0), I("iinc", 0, -1)}
    \union {I(r, 0, t) : r \in {"ifle", "goto"}, t \in 1 .. 3}

Short == [1 .. 3 -> Alphabet]

DrawsLoop ==
    <<I("sipush", 4, 0), I("invokestatic", 6, 0),
      I("iconst", 0, 0), I("istore_n", 0, 0), I("goto", 0, 22),
      I("iconst", 0, 0), I("istore_n", 1, 0), I("goto", 0, 18),
      I("bipush", 2, 0), I("iload_n", 0, 0), O("iadd"),
      I("bipush", 1, 0), I("iload_n", 1, 0), O("iadd"),
      I("ldc", 6, 0), I("invokestatic", 5, 0), I("iinc", 1, 1),
      \* 18 and 22: the conditions of the two loops
      I("iload_n", 1, 0), I("bipush", 3, 0), I("if_icmplt", 0, 9), I("iinc", 0, 1),
      I("iload_n", 0, 0), I("bipush", 2, 0), I("if_icmplt", 0, 6),
      I("invokestatic", 7, 0), O("return")>>

\* Behind a name lies the tag of another constant, as compiled, or a NUL.
Called(method, behind) ==
    [k \in DOMAIN method |-> IF method[k].op = "invokestatic" THEN [method[k] EXCEPT !.v = behind]
                                                           ELSE method[k]]
Shipped == {Called(DrawsLoop, behind) : behind \in {NUL, 1}}

\* A pixel left of the screen.
Outside ==
    {<<I("iconst", -1, 0), I("bipush", 1, 0), I("ldc", 6, 0), I("invokestatic", 5, 0), O("return")>>}

\* A loop that prints through an object, a call of another method, a string,
\* and an opcode without a case.
Skipping ==
    {<<O("getstatic"), I("iconst", 5, 0), I("invokevirtual", 1, 0), I("goto", 0, 1)>>,
     <<I("iconst", 2, 0), I("invokestatic", 8, 0), O("ireturn")>>,
     <<I("ldc", 0, 0), I("invokestatic", 2, 0), O("return")>>,
     <<I("iconst", 2, 0), O("newarray"), O("pop"), O("return")>>}

MCPrograms == Calculations \union Decisions \union Short \union Skipping \union Shipped \union Outside
=============================================================================
