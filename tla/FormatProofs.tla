---------------------------- MODULE FormatProofs ----------------------------
(***************************************************************************)
(* What the code reads of data, for any ramdisk, configuration file and    *)
(* JAR archive: the walks find what has been written, and the parsers      *)
(* report what the lines say.  All of it is functions of the data, without *)
(* a state; the proofs are by induction (module Induction).                *)
(***************************************************************************)
EXTENDS Initrd, YanaseConfig, Jar, Induction, FiniteSetTheorems, TLAPS

-----------------------------------------------------------------------------
(* Sizes in octal *)

\* The powers of eight, one by one.
LEMMA EightsAre ==
  /\ Eights[0] = 1
  /\ \A k \in Nat : Eights[k] \in Nat \ {0} /\ Eights[k + 1] = 8 * Eights[k]
  <1> DEFINE N == Nat \ {0}
             step == [p \in Nat \X N |-> 8 * p[2]]
             Solves(g) == g = [k \in Nat |-> IF k = 0 THEN 1 ELSE 8 * g[k - 1]]
  <1>1. 1 \in N /\ step \in [Nat \X N -> N]
    OBVIOUS
  <1>2. PICK f \in [Nat -> N] : Counts(f, 1, step)
    <2> HIDE DEF N, step
    <2> QED
      BY <1>1, NumberRecursion
  <1>3. Solves(f)
    <2> SUFFICES ASSUME NEW k \in Nat PROVE f[k] = IF k = 0 THEN 1 ELSE 8 * f[k - 1]
      BY <1>2
    <2>1. f[k] = IF k = 0 THEN 1 ELSE step[<<k, f[k - 1]>>]
      BY <1>2 DEF Counts
    <2>2. k # 0 => <<k, f[k - 1]>> \in Nat \X N
      BY <1>2
    <2> QED
      BY <2>1, <2>2
  <1>4. Solves(Eights)
    <2>1. Eights = CHOOSE g : Solves(g)
      BY DEF Eights
    <2> HIDE DEF Solves
    <2> QED
      BY <1>3, <2>1
  <1> DEFINE P == Eights
             T == {k \in Nat : P[k] \in N}
  <1>5. \A k \in Nat : P[k] = IF k = 0 THEN 1 ELSE 8 * P[k - 1]
    BY <1>4
  <1> HIDE DEF P
  <1>6. P[0] = 1 /\ \A k \in Nat : P[k + 1] = 8 * P[k]
    <2>1. \A k \in Nat : k + 1 \in Nat /\ k + 1 # 0 /\ (k + 1) - 1 = k
      OBVIOUS
    <2> QED
      BY <1>5, <2>1
  <1>7. 0 \in T /\ \A k \in Nat : k \in T => k + 1 \in T
    BY <1>6
  <1>8. Nat \subseteq T
    <2> HIDE DEF T
    <2> QED
      BY <1>7, ByNumber
  <1> QED
    BY <1>6, <1>8 DEF P

\* One octal digit more.
LEMMA NextDigit ==
  ASSUME NEW a \in Nat, NEW w \in Nat \ {0}
  PROVE  (a \div (8 * w)) * 8 + ((a \div w) % 8) = a \div w
  <1>1. PICK q \in Nat, m \in 0 .. w - 1 : q = a \div w /\ a = q * w + m
    BY DivideNat
  <1>2. PICK p \in Nat, d \in 0 .. 7 : p = q \div 8 /\ d = q % 8 /\ q = p * 8 + d
    OBVIOUS
  <1>3. PICK v \in Nat \ {0} : v = 8 * w
    OBVIOUS
  <1>4. a = p * v + (d * w + m)
    <2>1. q * w = (p * 8) * w + d * w
      BY <1>2
    <2>2. (p * 8) * w = p * (8 * w)
      OBVIOUS
    <2>3. d * w \in Nat /\ p * v \in Nat
      OBVIOUS
    <2> QED
      BY <1>1, <1>3, <2>1, <2>2, <2>3
  <1>5. d * w + m \in 0 .. v - 1
    <2>1. d * w <= 7 * w /\ d * w \in Nat
      OBVIOUS
    <2> QED
      BY <1>3, <2>1
  <1>6. a \div v = p
    BY <1>3, <1>4, <1>5, OnlyQuotient
  <1> QED
    BY <1>1, <1>2, <1>3, <1>6

\* The length of what precedes the first character of a size field that is no digit.
Digits(field) == Max({k \in 0 .. SizeDigits : \A j \in 1 .. k : field[j] \in 0 .. 7})

\* All digits before the first character that is none are digits.
LEMMA DigitsAre ==
  ASSUME NEW field
  PROVE  /\ Digits(field) \in 0 .. SizeDigits /\ \A j \in 1 .. Digits(field) : field[j] \in 0 .. 7
         /\ \A k \in 0 .. SizeDigits : (\A j \in 1 .. k : field[j] \in 0 .. 7) => k <= Digits(field)
  <1> DEFINE T == {k \in 0 .. SizeDigits : \A j \in 1 .. k : field[j] \in 0 .. 7}
  <1>1. T \subseteq 0 .. SizeDigits /\ 0 \in T /\ SizeDigits \in Nat
    BY InitrdAssumption
  <1>2. Max(T) \in T /\ \A y \in T : Max(T) >= y
    <2> HIDE DEF T
    <2> QED
      BY <1>1, GreatestNumber
  <1> HIDE DEF T
  <1>3. Digits(field) = Max(T)
    BY DEF Digits, T
  <1>4. PICK g \in T : g = Digits(field) /\ \A y \in T : g >= y
    BY <1>2, <1>3
  <1>5. g \in 0 .. SizeDigits /\ \A j \in 1 .. g : field[j] \in 0 .. 7
    BY DEF T
  <1>6. ASSUME NEW k \in 0 .. SizeDigits, \A j \in 1 .. k : field[j] \in 0 .. 7
        PROVE  k <= g
    <2>1. k \in T
      BY <1>6 DEF T
    <2> QED
      BY <1>1, <1>4, <1>5, <2>1
  <1> QED
    BY <1>4, <1>5, <1>6

\* The size, digit after digit.
Valued(field, f) ==
    /\ f[0] = 0
    /\ \A k \in 1 .. Digits(field) : f[k] = (f[k - 1] * 8 + field[k]) % Word

\* tar_get_size goes through the digits one by one.
LEMMA SizeSteps ==
  ASSUME NEW field
  PROVE  \E f \in [0 .. Digits(field) -> Nat] :
            Valued(field, f) /\ tar_get_size(field) = f[Digits(field)]
  <1> DEFINE m == Digits(field)
             D == 0 .. m
             rank == [k \in D |-> k]
             next == [k \in D |-> IF k = 0 THEN 0 ELSE k - 1]
             base0 == [k \in D |-> 0]
             step == [p \in D \X Nat |-> IF p[1] = 0 THEN 0 ELSE (p[2] * 8 + field[p[1]]) % Word]
             Solves(g) == g = [k \in D |-> IF k = 0 THEN 0 ELSE (g[k - 1] * 8 + field[k]) % Word]
             value == CHOOSE g : Solves(g)
  <1>1. m \in Nat /\ \A j \in 1 .. m : field[j] \in 0 .. 7
    BY DigitsAre, InitrdAssumption
  <1>2. PICK w \in Nat \ {0} : w = Word
    BY InitrdAssumption
  <1>3. tar_get_size(field) = value[m]
    BY DEF tar_get_size, Digits
  <1> HIDE DEF m
  <1>4. /\ rank \in [D -> Nat] /\ next \in [D -> D] /\ base0 \in [D -> Nat]
        /\ Descends(D, rank, {0}, next)
    BY <1>1 DEF Descends
  <1>5. step \in [D \X Nat -> Nat]
    <2> SUFFICES ASSUME NEW p \in D \X Nat
                 PROVE  (IF p[1] = 0 THEN 0 ELSE (p[2] * 8 + field[p[1]]) % Word) \in Nat
      OBVIOUS
    <2>1. CASE p[1] = 0
      BY <2>1
    <2>2. CASE p[1] # 0
      <3>1. field[p[1]] \in 0 .. 7 /\ p[2] \in Nat
        BY <1>1, <2>2
      <3>2. PICK a \in Nat : a = p[2] * 8 + field[p[1]]
        BY <3>1
      <3>3. a % w \in Nat
        BY DivideNat
      <3> QED
        BY <1>2, <2>2, <3>2, <3>3, Zenon
    <2> QED
      BY <2>1, <2>2
  <1>6. PICK f \in [D -> Nat] : Recurs(D, {0}, next, base0, step, f)
    <2> HIDE DEF D, rank, next, base0, step
    <2> QED
      BY <1>4, <1>5, Recursion
  <1>7. Solves(f)
    <2> SUFFICES ASSUME NEW k \in D
                 PROVE  f[k] = IF k = 0 THEN 0 ELSE (f[k - 1] * 8 + field[k]) % Word
      BY <1>6
    <2>1. f[k] = IF k \in {0} THEN base0[k] ELSE step[<<k, f[next[k]]>>]
      BY <1>6 DEF Recurs
    <2>2. CASE k = 0
      BY <2>1, <2>2
    <2>3. CASE k # 0
      <3>1. next[k] = k - 1 /\ k - 1 \in D
        BY <1>1, <2>3
      <3>2. <<k, f[k - 1]>> \in D \X Nat
        BY <1>6, <3>1
      <3> QED
        BY <2>1, <2>3, <3>1, <3>2
    <2> QED
      BY <2>2, <2>3
  <1>8. Solves(value)
    <2> HIDE DEF Solves
    <2> QED
      BY <1>7
  <1> HIDE DEF value
  <1>9. \A k \in D : value[k] = IF k = 0 THEN 0 ELSE (value[k - 1] * 8 + field[k]) % Word
    BY <1>8
  <1>10. value[0] = 0 /\ \A k \in 1 .. m : k - 1 \in D /\ value[k] = (value[k - 1] * 8 + field[k]) % Word
    BY <1>1, <1>9
  <1> DEFINE T == {k \in Nat : k <= m => value[k] \in Nat}
  <1>11. 0 \in T
    BY <1>10
  <1>12. ASSUME NEW k \in Nat, k \in T PROVE k + 1 \in T
    <2> SUFFICES ASSUME k + 1 <= m PROVE value[k + 1] \in Nat
      OBVIOUS
    <2>1. value[k] \in Nat
      BY <1>1, <1>12
    <2>2. k + 1 \in 1 .. m /\ (k + 1) - 1 = k
      BY <1>1
    <2>3. field[k + 1] \in 0 .. 7 /\ value[k + 1] = (value[k] * 8 + field[k + 1]) % w
      BY <1>1, <1>2, <1>10, <2>2
    <2>4. PICK a \in Nat : a = value[k] * 8 + field[k + 1]
      BY <2>1, <2>3
    <2>5. a % w \in Nat
      BY DivideNat
    <2> QED
      BY <2>3, <2>4, <2>5, Zenon
  <1>13. Nat \subseteq T
    <2> HIDE DEF T
    <2> QED
      BY <1>11, <1>12, ByNumber
  <1>14. value \in [D -> Nat]
    <2>1. value = [k \in D |-> value[k]]
      BY <1>8
    <2>2. \A k \in D : value[k] \in Nat
      BY <1>1, <1>13
    <2> QED
      BY <2>1, <2>2
  <1> QED
    BY <1>3, <1>10, <1>14 DEF Valued, m

\* A size is a number, whatever stands in the field.
LEMMA SizeIsNumber ==
  ASSUME NEW field
  PROVE  tar_get_size(field) \in Nat
  <1>1. PICK f \in [0 .. Digits(field) -> Nat] : tar_get_size(field) = f[Digits(field)]
    BY SizeSteps
  <1>2. Digits(field) \in 0 .. Digits(field)
    BY DigitsAre, InitrdAssumption
  <1> QED
    BY <1>1, <1>2

\* What has been written is read, if 32 bits can hold it.
LEMMA SizeRead ==
  ASSUME NEW amount \in Nat, amount < Word
  PROVE  tar_get_size(Octal(amount)) = amount
  <1> DEFINE field == Octal(amount)
             left(k) == amount \div Eights[SizeDigits - k]
  <1>1. PICK z \in Nat, w \in Nat \ {0} : z = SizeDigits /\ w = Word /\ w <= Eights[z]
    BY InitrdAssumption
  <1>2. \A k \in 1 .. z : field[k] = left(k) % 8
    <2> DEFINE told == [d \in 1 .. SizeDigits |-> (amount \div Eights[SizeDigits - d]) % 8]
    <2>1. told \in Seq(Int) /\ Len(told) = z
      <3>1. ASSUME NEW d \in 1 .. SizeDigits PROVE (amount \div Eights[SizeDigits - d]) % 8 \in Int
        <4>1. SizeDigits - d \in Nat
          BY <1>1
        <4>2. amount \div Eights[SizeDigits - d] \in Nat
          BY <4>1, EightsAre, DivideNat
        <4> QED
          BY <4>2
      <3> QED
        BY <1>1, <3>1
    <2>2. <<NUL>> \in Seq(Int)
      BY TextAssumption
    <2>3. field = told \o <<NUL>>
      BY DEF Octal
    <2>4. \A k \in 1 .. z : told[k] = left(k) % 8
      BY <1>1
    <2> HIDE DEF told, field
    <2>5. \A k \in 1 .. z : (told \o <<NUL>>)[k] = told[k]
      BY <2>1, <2>2
    <2> QED
      BY <2>3, <2>4, <2>5
  <1>3. \A k \in 0 .. z : left(k) \in Nat /\ left(k) <= amount
    <2> SUFFICES ASSUME NEW k \in 0 .. z PROVE left(k) \in Nat /\ left(k) <= amount
      OBVIOUS
    <2>1. PICK e \in Nat \ {0} : e = Eights[SizeDigits - k]
      BY <1>1, EightsAre
    <2>2. PICK q \in Nat, x \in 0 .. e - 1 : q = amount \div e /\ amount = q * e + x
      BY DivideNat
    <2>3. q <= q * e
      <3>1. PICK y \in Nat : e = 1 + y
        <4>1. e - 1 \in Nat /\ e = 1 + (e - 1)
          OBVIOUS
        <4> QED
          BY <4>1
      <3>2. q * e = q + q * y /\ q * y \in Nat
        BY <3>1
      <3> QED
        BY <3>2
    <2>4. q * e \in Nat
      OBVIOUS
    <2> QED
      BY <2>1, <2>2, <2>3, <2>4
  <1>4. left(0) = 0 /\ left(z) = amount
    <2>1. PICK e \in Nat \ {0} : e = Eights[z] /\ amount < e
      BY <1>1, EightsAre
    <2>2. 0 \in Nat /\ amount \in 0 .. e - 1 /\ amount = 0 * e + amount
      BY <2>1
    <2>3. amount \div e = 0
      BY <2>2, OnlyQuotient
    <2>4. z - 0 = z /\ z - z = 0
      OBVIOUS
    <2>5. amount \div 1 = amount
      OBVIOUS
    <2> QED
      BY <1>1, <2>1, <2>3, <2>4, <2>5, EightsAre
  <1>5. \A k \in 1 .. z : left(k - 1) * 8 + (left(k) % 8) = left(k)
    <2> SUFFICES ASSUME NEW k \in 1 .. z PROVE left(k - 1) * 8 + (left(k) % 8) = left(k)
      OBVIOUS
    <2>1. z - k \in Nat /\ z - (k - 1) = (z - k) + 1
      OBVIOUS
    <2>2. PICK e \in Nat \ {0} : e = Eights[z - k] /\ Eights[z - (k - 1)] = 8 * e
      BY <2>1, EightsAre
    <2>3. (amount \div (8 * e)) * 8 + ((amount \div e) % 8) = amount \div e
      BY NextDigit
    <2>4. left(k - 1) = amount \div (8 * e) /\ left(k) = amount \div e
      BY <1>1, <2>2, Zenon
    <2> HIDE DEF left
    <2> QED
      BY <2>3, <2>4, Zenon
  <1> HIDE DEF field, left
  <1>6. Digits(field) = z
    <2>1. \A k \in 1 .. z : left(k) % 8 \in 0 .. 7
      BY <1>3
    <2>2. \A k \in 1 .. z : field[k] \in 0 .. 7
      BY <1>2, <2>1
    <2>3. z \in 0 .. SizeDigits
      BY <1>1
    <2>4. z <= Digits(field) /\ Digits(field) \in 0 .. SizeDigits
      BY <2>2, <2>3, DigitsAre
    <2> QED
      BY <1>1, <2>4
  <1>7. PICK f \in [0 .. z -> Nat] : Valued(field, f) /\ tar_get_size(field) = f[z]
    BY <1>6, SizeSteps
  <1> DEFINE T == {k \in Nat : k <= z => f[k] = left(k)}
  <1>8. 0 \in T
    BY <1>4, <1>7 DEF Valued
  <1>9. ASSUME NEW k \in Nat, k \in T PROVE k + 1 \in T
    <2> SUFFICES ASSUME k + 1 <= z PROVE f[k + 1] = left(k + 1)
      OBVIOUS
    <2>1. k + 1 \in 1 .. z /\ (k + 1) - 1 = k /\ k + 1 \in 0 .. z
      OBVIOUS
    <2>2. f[k] = left(k)
      BY <1>9
    <2>3. f[k + 1] = (f[k] * 8 + field[k + 1]) % w
      <3>1. f[k + 1] = (f[(k + 1) - 1] * 8 + field[k + 1]) % Word
        BY <1>6, <1>7, <2>1 DEF Valued
      <3> QED
        BY <1>1, <2>1, <3>1
    <2>4. f[k] * 8 + field[k + 1] = left(k + 1)
      <3>1. left((k + 1) - 1) * 8 + (left(k + 1) % 8) = left(k + 1)
        BY <1>5, <2>1
      <3>2. field[k + 1] = left(k + 1) % 8
        BY <1>2, <2>1
      <3>3. left(k) * 8 + (left(k + 1) % 8) = left(k + 1)
        BY <2>1, <3>1, Zenon
      <3> QED
        BY <2>2, <3>2, <3>3, Zenon
    <2>5. left(k + 1) \in 0 .. w - 1
      BY <1>1, <1>3, <2>1
    <2>6. left(k + 1) % w = left(k + 1)
      <3>1. left(k + 1) = 0 * w + left(k + 1)
        BY <2>5
      <3> QED
        BY <2>5, <3>1, OnlyQuotient
    <2> QED
      BY <2>3, <2>4, <2>6
  <1>10. Nat \subseteq T
    <2> HIDE DEF T
    <2> QED
      BY <1>8, <1>9, ByNumber
  <1> QED
    BY <1>4, <1>7, <1>10 DEF field

-----------------------------------------------------------------------------
(* Blocks and pieces *)

\* A piece of a sequence, counted from nought.
LEMMA PieceIs ==
  ASSUME NEW S, NEW t \in Seq(S), NEW w \in Nat \ {0}, NEW k \in Nat, k < Needed(Len(t), w)
  PROVE  /\ k * w \in Nat /\ k * w < Len(t)
         /\ Piece(t, w, k + 1) \in Seq(S)
         /\ \E b \in Nat : /\ b = (IF k * w + w <= Len(t) THEN k * w + w ELSE Len(t))
                           /\ Piece(t, w, k + 1) = SubSeq(t, k * w + 1, b)
  <1>1. PICK a \in Nat : a = k * w
    OBVIOUS
  <1>2. a < Len(t) /\ Len(t) \in Nat
    <2>1. Len(t) \in Nat
      OBVIOUS
    <2>2. k * w < Len(t)
      BY <2>1, NeededAre
    <2> QED
      BY <1>1, <2>1, <2>2, Zenon
  <1>3. (k + 1) * w = a + w /\ ((k + 1) - 1) * w = a
    BY <1>1
  <1>4. PICK b \in Nat : b = (IF a + w <= Len(t) THEN a + w ELSE Len(t))
    BY <1>2
  <1>5. Min({Len(t), a + w}) = b
    <2>1. a + w \in Nat
      OBVIOUS
    <2>2. Min({Len(t), a + w}) = IF Len(t) <= a + w THEN Len(t) ELSE a + w
      BY <1>2, <2>1, Lesser
    <2> QED
      BY <1>2, <1>4, <2>2
  <1>6. Piece(t, w, k + 1) = SubSeq(t, a + 1, b)
    BY <1>3, <1>5 DEF Piece
  <1>7. a <= b /\ b <= Len(t)
    BY <1>2, <1>4
  <1>8. SubSeq(t, a + 1, b) \in Seq(S)
    BY <1>7, TwoParts
  <1> QED
    BY <1>1, <1>2, <1>4, <1>6, <1>8

\* The same, where the product has a name.
PieceFrom(S, t, w, k, a) ==
    /\ a < Len(t) /\ Piece(t, w, k + 1) \in Seq(S)
    /\ \E b \in Nat : b = (IF a + w <= Len(t) THEN a + w ELSE Len(t)) /\ Piece(t, w, k + 1) = SubSeq(t, a + 1, b)

\* A piece is the part of the whole that its number and the size tell.
LEMMA PieceAt ==
  ASSUME NEW S, NEW t \in Seq(S), NEW w \in Nat \ {0}, NEW k \in Nat, k < Needed(Len(t), w),
         NEW a, a = k * w
  PROVE  PieceFrom(S, t, w, k, a)
  <1>1. /\ k * w < Len(t) /\ Piece(t, w, k + 1) \in Seq(S)
        /\ \E b \in Nat : /\ b = (IF k * w + w <= Len(t) THEN k * w + w ELSE Len(t))
                          /\ Piece(t, w, k + 1) = SubSeq(t, k * w + 1, b)
    BY PieceIs
  <1>2. PieceFrom(S, t, w, k, k * w)
    BY <1>1, Zenon DEF PieceFrom
  <1> QED
    BY <1>2, Zenon

\* Put together again they are the sequence.
LEMMA Pieces ==
  ASSUME NEW S, NEW t \in Seq(S), NEW w \in Nat \ {0}
  PROVE  /\ [k \in 1 .. Needed(Len(t), w) |-> Piece(t, w, k)] \in Seq(Seq(S))
         /\ FlattenSeq([k \in 1 .. Needed(Len(t), w) |-> Piece(t, w, k)]) = t
  <1> DEFINE c == Needed(Len(t), w)
             Q == Seq(S)
             p == [k \in 1 .. c |-> Piece(t, w, k)]
             T == {k \in Nat : k <= c => \E a \in Nat :
                      /\ a = (IF k * w <= Len(t) THEN k * w ELSE Len(t))
                      /\ FlattenSeq(SubSeq(p, 1, k)) = SubSeq(t, 1, a)}
  <1>1. c \in Nat /\ Len(t) \in Nat /\ Len(t) <= c * w
    BY NeededAre
  <1>2. ASSUME NEW k \in 1 .. c PROVE p[k] = Piece(t, w, k) /\ p[k] \in Q
    <2>1. k - 1 \in Nat /\ k - 1 < Needed(Len(t), w) /\ (k - 1) + 1 = k
      BY <1>1
    <2>2. Piece(t, w, (k - 1) + 1) \in Seq(S)
      BY <2>1, PieceIs
    <2> QED
      BY <2>1, <2>2
  <1> HIDE DEF c
  <1>3. p \in Seq(Q) /\ Len(p) = c
    <2>1. p = [k \in 1 .. c |-> p[k]]
      OBVIOUS
    <2> HIDE DEF p, Q
    <2> QED
      BY <1>1, <1>2, <2>1
  <1> HIDE DEF p, Q
  <1>4. 0 \in T
    <2>1. SubSeq(p, 1, 0) = <<>> /\ SubSeq(t, 1, 0) = <<>>
      BY <1>3
    <2>2. FlattenSeq(SubSeq(p, 1, 0)) = SubSeq(t, 1, 0)
      BY <2>1, FlattenEmpty, Zenon
    <2>3. 0 \in Nat /\ 0 = (IF 0 * w <= Len(t) THEN 0 * w ELSE Len(t))
      BY <1>1
    <2> QED
      BY <2>2, <2>3
  <1>5. ASSUME NEW k \in Nat, k \in T PROVE k + 1 \in T
    <2> SUFFICES ASSUME k + 1 <= c
                 PROVE  \E a \in Nat : /\ a = (IF (k + 1) * w <= Len(t) THEN (k + 1) * w ELSE Len(t))
                                       /\ FlattenSeq(SubSeq(p, 1, k + 1)) = SubSeq(t, 1, a)
      OBVIOUS
    <2>1. k < c
      BY <1>1
    <2>2. PICK a \in Nat : a = k * w /\ a < Len(t)
      BY <2>1, PieceIs DEF c
    <2>3. FlattenSeq(SubSeq(p, 1, k)) = SubSeq(t, 1, a)
      BY <1>1, <1>5, <2>1, <2>2
    <2>4. PICK b \in Nat : /\ b = (IF k * w + w <= Len(t) THEN k * w + w ELSE Len(t))
                           /\ Piece(t, w, k + 1) = SubSeq(t, k * w + 1, b)
      BY <2>1, PieceIs DEF c
    <2>5. b = (IF (k + 1) * w <= Len(t) THEN (k + 1) * w ELSE Len(t)) /\ a <= b /\ b <= Len(t)
      <3>1. (k + 1) * w = k * w + w
        OBVIOUS
      <3> QED
        BY <1>1, <2>2, <2>4, <3>1
    <2>6. k + 1 \in 1 .. c /\ (k + 1) - 1 = k
      BY <1>1
    <2>7. PICK x, u : x = p[k + 1] /\ u = SubSeq(p, 1, k)
      OBVIOUS
    <2>8. u \in Seq(Q) /\ x \in Q /\ SubSeq(p, 1, k + 1) = Append(u, x)
      BY <1>3, <2>6, <2>7, UpToNext
    <2>9. FlattenSeq(SubSeq(p, 1, k + 1)) = FlattenSeq(u) \o x
      BY <2>8, FlattenAppend DEF Q
    <2>10. x = SubSeq(t, a + 1, b)
      BY <1>2, <2>2, <2>4, <2>6, <2>7
    <2>11. FlattenSeq(u) \o x = SubSeq(t, 1, b)
      <3>1. SubSeq(t, 1, a) \o SubSeq(t, a + 1, b) = SubSeq(t, 1, b)
        <4>1. a <= b /\ b <= Len(t)
          BY <2>5
        <4> QED
          BY <4>1, TwoParts
      <3> QED
        BY <2>3, <2>7, <2>10, <3>1, Zenon
    <2> QED
      BY <2>5, <2>9, <2>11
  <1>6. Nat \subseteq T
    <2> HIDE DEF T
    <2> QED
      BY <1>4, <1>5, ByNumber
  <1>7. PICK a \in Nat : /\ a = (IF c * w <= Len(t) THEN c * w ELSE Len(t))
                         /\ FlattenSeq(SubSeq(p, 1, c)) = SubSeq(t, 1, a)
    BY <1>1, <1>6
  <1>8. a = Len(t)
    <2>1. PICK z \in Nat : z = c * w
      BY <1>1
    <2> QED
      BY <1>1, <1>7, <2>1
  <1>9. SubSeq(p, 1, c) = p /\ SubSeq(t, 1, Len(t)) = t
    BY <1>3
  <1> QED
    BY <1>3, <1>7, <1>8, <1>9 DEF p, c, Q

-----------------------------------------------------------------------------
(* The archive *)

MemoryBlocks ==
    [name : Seq(Int), size : Seq(Int), type : {0, 5}, ustar : BOOLEAN, text : Seq(Int)]

HeaderOf(m) ==
    [name |-> <<DOT, SLASH>> \o m.name, size |-> Octal(Len(m.file)),
     type |-> IF m.dir THEN 5 ELSE 0, ustar |-> TRUE, text |-> <<>>]

\* A size as it is written.
LEMMA OctalType ==
  ASSUME NEW amount \in Nat
  PROVE  Octal(amount) \in Seq(Int) /\ Len(Octal(amount)) = SizeDigits + 1
  <1> DEFINE told == [d \in 1 .. SizeDigits |-> (amount \div Eights[SizeDigits - d]) % 8]
  <1>1. PICK z \in Nat : z = SizeDigits
    BY InitrdAssumption
  <1>2. ASSUME NEW d \in 1 .. SizeDigits PROVE (amount \div Eights[SizeDigits - d]) % 8 \in Int
    <2>1. SizeDigits - d \in Nat
      BY <1>1
    <2>2. amount \div Eights[SizeDigits - d] \in Nat
      BY <2>1, EightsAre, DivideNat
    <2> QED
      BY <2>2
  <1>3. told \in Seq(Int) /\ Len(told) = z
    BY <1>1, <1>2
  <1>4. <<NUL>> \in Seq(Int) /\ Len(<<NUL>>) = 1
    BY TextAssumption
  <1>5. Octal(amount) = told \o <<NUL>>
    BY DEF Octal
  <1> HIDE DEF told
  <1>6. told \o <<NUL>> \in Seq(Int) /\ Len(told \o <<NUL>>) = z + 1
    BY <1>3, <1>4
  <1> QED
    BY <1>1, <1>5, <1>6, Zenon

\* A block of the archive is one of memory.
LEMMA BlockType ==
  ASSUME NEW t \in Seq(Int)
  PROVE  Block(t) \in MemoryBlocks
  <1>1. PICK o \in Seq(Int), z \in Nat : o = Octal(0) /\ z = SizeDigits /\ Len(o) = z + 1
    BY OctalType, InitrdAssumption
  <1>2. PICK u \in Seq(Int) : u = t \o o /\ z + 1 <= Len(u)
    <2>1. t \o o \in Seq(Int) /\ Len(t \o o) = Len(t) + Len(o) /\ Len(t) \in Nat
      BY Concatenated DEF Links
    <2>2. z + 1 <= Len(t \o o)
      BY <1>1, <2>1
    <2> QED
      BY <2>1, <2>2, Zenon
  <1>3. SubSeq(u, 1, z + 1) \in Seq(Int)
    BY <1>1, <1>2
  <1>4. SubSeq(t \o Octal(0), 1, SizeDigits + 1) \in Seq(Int)
    BY <1>1, <1>2, <1>3, Zenon
  <1> QED
    BY <1>4 DEF Block, MemoryBlocks

\* A stored name is the member's behind "./".
LEMMA HeaderName ==
  ASSUME NEW x \in Seq(Int)
  PROVE  LET full == <<DOT, SLASH>> \o x
         IN  /\ full \in Seq(Int) /\ full # <<>>
             /\ Begins(full, <<DOT, SLASH>>) /\ SubSeq(full, 3, Len(full)) = x
  <1>1. PICK u \in Seq(Int) : u = <<DOT, SLASH>> /\ Len(u) = 2
    <2>1. <<DOT, SLASH>> \in Seq(Int) /\ Len(<<DOT, SLASH>>) = 2
      BY TextAssumption
    <2> QED
      BY <2>1
  <1>2. PICK full \in Seq(Int) : full = u \o x
    BY Concatenated
  <1>3. Len(full) = 2 + Len(x) /\ Len(x) \in Nat
    BY <1>1, <1>2, Concatenated DEF Links
  <1>4. SubSeq(full, 1, Len(u)) = u /\ SubSeq(full, Len(u) + 1, Len(full)) = x
    BY <1>2, TakenApart
  <1>5. SubSeq(u, 1, Len(u)) = u
    OBVIOUS
  <1>6. Len(u) <= Len(full) /\ Len(u) + 1 = 3
    BY <1>1, <1>3
  <1>7. Begins(full, u)
    BY <1>4, <1>5, <1>6 DEF Begins, IsPrefix
  <1>8. full # <<>>
    BY <1>3
  <1>9. SubSeq(full, 3, Len(full)) = x
    BY <1>4, <1>6, Zenon
  <1> QED
    BY <1>1, <1>2, <1>7, <1>8, <1>9, Zenon

\* A member is its header and the pieces of its data.
LEMMA MemberIs ==
  ASSUME NEW m \in StoredFiles
  PROVE  /\ Member(m) \in Seq(MemoryBlocks)
         /\ Blocks(Len(m.file)) \in Nat
         /\ Len(Member(m)) = Blocks(Len(m.file)) + 1
         /\ Member(m)[1] = HeaderOf(m)
         /\ \A b \in 1 .. Blocks(Len(m.file)) :
               Member(m)[b + 1] = Block(Piece(m.file, BlockUnits, b))
  <1> DEFINE pieces == [b \in 1 .. Blocks(Len(m.file)) |-> Block(Piece(m.file, BlockUnits, b))]
  <1>1. /\ m.name \in Seq(Int) /\ m.dir \in BOOLEAN /\ m.file \in Seq(Int) /\ Len(m.file) \in Nat
    BY DEF StoredFiles
  <1>2. PICK w \in Nat \ {0} : w = BlockUnits
    BY InitrdAssumption
  <1>3. PICK c \in Nat : c = Blocks(Len(m.file)) /\ c = Needed(Len(m.file), w)
    <2>1. Blocks(Len(m.file)) = Needed(Len(m.file), w)
      BY <1>2 DEF Blocks, Needed
    <2> QED
      BY <1>1, <2>1, NeededAre
  <1>4. ASSUME NEW b \in 1 .. c PROVE Block(Piece(m.file, BlockUnits, b)) \in MemoryBlocks
    <2>1. b - 1 \in Nat /\ b - 1 < Needed(Len(m.file), w) /\ (b - 1) + 1 = b
      BY <1>3
    <2>2. Piece(m.file, w, (b - 1) + 1) \in Seq(Int)
      BY <1>1, <2>1, PieceIs
    <2>3. Piece(m.file, w, b) \in Seq(Int)
      BY <2>1, <2>2
    <2> QED
      BY <1>2, <2>3, BlockType
  <1>5. pieces \in Seq(MemoryBlocks) /\ Len(pieces) = c
        /\ \A b \in 1 .. c : pieces[b] = Block(Piece(m.file, BlockUnits, b))
    BY <1>3, <1>4
  <1>6. HeaderOf(m) \in MemoryBlocks
    <2>1. <<DOT, SLASH>> \o m.name \in Seq(Int)
      BY <1>1, HeaderName
    <2>2. Octal(Len(m.file)) \in Seq(Int)
      BY <1>1, OctalType
    <2> QED
      BY <1>1, <2>1, <2>2 DEF HeaderOf, MemoryBlocks
  <1>7. PICK h : h = <<HeaderOf(m)>>
    OBVIOUS
  <1> DEFINE S == MemoryBlocks
  <1> HIDE DEF S
  <1>8. h \in Seq(S) /\ Len(h) = 1 /\ h[1] = HeaderOf(m)
    BY <1>6, <1>7 DEF S
  <1>9. Member(m) = h \o pieces
    BY <1>7 DEF Member, HeaderOf, DataBlocks
  <1>10. pieces \in Seq(S)
    BY <1>5 DEF S
  <1> HIDE DEF pieces
  <1>11. /\ h \o pieces \in Seq(S) /\ Len(h \o pieces) = c + 1 /\ (h \o pieces)[1] = h[1]
         /\ \A b \in 1 .. c : (h \o pieces)[b + 1] = pieces[b]
    <2>1. h \o pieces \in Seq(S) /\ Links(h, pieces, h \o pieces)
      BY <1>8, <1>10, Concatenated
    <2>2. Len(h) = 1 /\ Len(pieces) = c
      BY <1>5, <1>8
    <2>3. \A b \in 1 .. c : 1 + b = b + 1
      OBVIOUS
    <2>4. 1 \in 1 .. 1 /\ 1 + c = c + 1
      OBVIOUS
    <2> QED
      BY <2>1, <2>2, <2>3, <2>4 DEF Links
  <1>12. \A b \in 1 .. c : Member(m)[b + 1] = Block(Piece(m.file, BlockUnits, b))
    BY <1>5, <1>9, <1>11, Zenon
  <1>13. Member(m) \in Seq(MemoryBlocks) /\ Len(Member(m)) = c + 1 /\ Member(m)[1] = HeaderOf(m)
    BY <1>8, <1>9, <1>11, Zenon DEF S
  <1> QED
    BY <1>3, <1>12, <1>13, Zenon

\* The block of the k-th member's header, or that of the first block of zeros.
Place(members, k) == Start([j \in DOMAIN members |-> Member(members[j])], k) + 1

\* Where the members lie, and what ends them.
LEMMA ArchiveIs ==
  ASSUME NEW members \in Seq(StoredFiles)
  PROVE  /\ Archive(members) \in Seq(MemoryBlocks)
         /\ Place(members, 1) = 1
         /\ \A k \in 1 .. Len(members) + 1 : Place(members, k) \in 1 .. Len(Archive(members))
         /\ \A k \in 1 .. Len(members) :
               /\ Archive(members)[Place(members, k)] = HeaderOf(members[k])
               /\ Place(members, k + 1) = Place(members, k) + 1 + Blocks(Len(members[k].file))
               /\ \A b \in 1 .. Blocks(Len(members[k].file)) :
                     Archive(members)[Place(members, k) + b] = Block(Piece(members[k].file, BlockUnits, b))
         /\ Archive(members)[Place(members, Len(members) + 1)] = Block(<<>>)
  <1> DEFINE p == [j \in DOMAIN members |-> Member(members[j])]
             S == MemoryBlocks
             Q == Seq(S)
             tail == <<Block(<<>>), Block(<<>>)>>
             N == Len(members)
  <1>1. N \in Nat /\ DOMAIN members = 1 .. N /\ \A k \in 1 .. N : members[k] \in StoredFiles
    OBVIOUS
  <1>2. \A k \in 1 .. N : p[k] = Member(members[k])
    BY <1>1
  <1>3. p \in Seq(Q) /\ Len(p) = N
    <2>1. \A k \in 1 .. N : p[k] \in Q
      BY <1>1, <1>2, MemberIs
    <2>2. p = [k \in 1 .. N |-> p[k]]
      BY <1>1
    <2> HIDE DEF p, Q, N
    <2> QED
      BY <1>1, <2>1, <2>2
  <1>4. tail \in Seq(S) /\ Len(tail) = 2 /\ tail[1] = Block(<<>>)
    <2>0. <<>> \in Seq(Int)
      OBVIOUS
    <2>1. Block(<<>>) \in S
      BY <2>0, BlockType
    <2>2. PICK z \in S : z = Block(<<>>)
      BY <2>1
    <2> HIDE DEF S
    <2>3. <<z, z>> \in Seq(S) /\ Len(<<z, z>>) = 2 /\ <<z, z>>[1] = z
      OBVIOUS
    <2> QED
      BY <2>2, <2>3, Zenon
  <1> HIDE DEF S
  <1>5. FlattenSeq(p) \in Seq(S)
    <2> HIDE DEF p
    <2> QED
      BY <1>3, FlattenType
  <1>6. PICK x \in Seq(S) : x = FlattenSeq(p)
    BY <1>5
  <1>7. Archive(members) = x \o tail
    BY <1>6 DEF Archive
  <1>8. \A k \in 1 .. N + 1 : Place(members, k) = Start(p, k) + 1
    BY DEF Place
  <1> HIDE DEF p, tail, N
  <1>9. PICK a : a = x \o tail
    OBVIOUS
  <1>10. /\ a \in Seq(S) /\ Len(a) = Len(x) + 2 /\ \A e \in 1 .. Len(x) : a[e] = x[e]
         /\ a[Len(x) + 1] = tail[1] /\ Len(x) \in Nat
    <2>1. x \o tail \in Seq(S) /\ Links(x, tail, x \o tail)
      BY <1>4, Concatenated
    <2>2. 1 \in 1 .. Len(tail)
      BY <1>4
    <2> QED
      BY <1>4, <1>9, <2>1, <2>2 DEF Links
  <1>11. /\ Start(p, 1) = 0 /\ Start(p, N + 1) = Len(x)
         /\ \A k \in 1 .. N + 1 : Start(p, k) \in Nat
         /\ \A k \in 1 .. N : Len(p[k]) \in Nat /\ Start(p, k + 1) = Start(p, k) + Len(p[k])
    BY <1>3, <1>6, Starts DEF Q
  <1>12. ASSUME NEW k \in 1 .. N, NEW e \in 1 .. Len(p[k])
         PROVE  Start(p, k) + e \in 1 .. Len(x) /\ a[Start(p, k) + e] = p[k][e]
    <2>1. Start(p, k) + e \in 1 .. Len(FlattenSeq(p)) /\ FlattenSeq(p)[Start(p, k) + e] = p[k][e]
      BY <1>3, FlattenedAt DEF Q
    <2> QED
      BY <1>6, <1>10, <2>1
  <1>13. ASSUME NEW k \in 1 .. N
         PROVE  /\ Place(members, k) \in 1 .. Len(a) /\ a[Place(members, k)] = HeaderOf(members[k])
                /\ Place(members, k + 1) = Place(members, k) + 1 + Blocks(Len(members[k].file))
                /\ \A b \in 1 .. Blocks(Len(members[k].file)) :
                      a[Place(members, k) + b] = Block(Piece(members[k].file, BlockUnits, b))
    <2>1. PICK c \in Nat : c = Blocks(Len(members[k].file)) /\ Len(p[k]) = c + 1
      BY <1>1, <1>2, MemberIs
    <2>2. PICK f \in Nat : f = Start(p, k) /\ Place(members, k) = f + 1
      BY <1>1, <1>8, <1>11
    <2>3. Place(members, k + 1) = f + (c + 1) + 1
      <3>1. k + 1 \in 1 .. N + 1
        BY <1>1
      <3> QED
        BY <1>8, <1>11, <2>1, <2>2, <3>1
    <2>4. 1 \in 1 .. Len(p[k])
      BY <2>1
    <2>5. f + 1 \in 1 .. Len(x) /\ a[f + 1] = p[k][1]
      BY <1>12, <2>2, <2>4
    <2>6. p[k][1] = HeaderOf(members[k])
      BY <1>1, <1>2, MemberIs
    <2>7. ASSUME NEW b \in 1 .. c
          PROVE  a[(f + 1) + b] = Block(Piece(members[k].file, BlockUnits, b))
      <3>1. b + 1 \in 1 .. Len(p[k]) /\ (f + 1) + b = f + (b + 1)
        BY <2>1, <2>2
      <3>2. a[f + (b + 1)] = p[k][b + 1]
        BY <1>12, <2>2, <3>1
      <3>3. p[k][b + 1] = Block(Piece(members[k].file, BlockUnits, b))
        BY <1>1, <1>2, <2>1, MemberIs
      <3> QED
        BY <3>1, <3>2, <3>3, Zenon
    <2>8. f + (c + 1) + 1 = (f + 1) + 1 + c
      OBVIOUS
    <2>9. f + 1 \in 1 .. Len(a)
      BY <1>10, <2>5
    <2> QED
      BY <2>1, <2>2, <2>3, <2>5, <2>6, <2>7, <2>8, <2>9
  <1>14. Place(members, N + 1) = Len(x) + 1 /\ Place(members, 1) = 1
    BY <1>1, <1>8, <1>11
  <1>15. ASSUME NEW k \in 1 .. N + 1 PROVE Place(members, k) \in 1 .. Len(a)
    <2>1. k \in 1 .. N \/ k = N + 1
      BY <1>1
    <2>2. Len(x) + 1 \in 1 .. Len(a)
      BY <1>10
    <2> QED
      BY <1>13, <1>14, <2>1, <2>2
  <1>16. a = Archive(members)
    BY <1>7, <1>9
  <1>17. a \in Seq(MemoryBlocks) /\ a[Place(members, N + 1)] = Block(<<>>)
    BY <1>4, <1>10, <1>14 DEF S
  <1> QED
    BY <1>13, <1>14, <1>15, <1>16, <1>17 DEF N

-----------------------------------------------------------------------------
(* The walks over the headers *)

\* The next header lies behind, and at the next member if the size is as stored.
LEMMA HeaderBehind ==
  ASSUME NEW a \in Nat \ {0}, NEW amount \in Nat
  PROVE  NextHeader(a, amount) \in Nat \ {0} /\ NextHeader(a, amount) > a
  <1>1. PICK w \in Nat \ {0}, c \in Nat \ {0} : w = Word /\ c = BlockUnits
    BY InitrdAssumption
  <1>2. PICK x \in Nat : x = amount + c - 1
    OBVIOUS
  <1>3. PICK y \in Nat : y = x % w
    BY DivideNat
  <1>4. PICK z \in Nat : z = y \div c
    BY DivideNat
  <1>5. NextHeader(a, amount) = a + z + 1
    BY <1>1, <1>2, <1>3, <1>4 DEF NextHeader
  <1> QED
    BY <1>5

\* Behind a header lies the next one, if its size is that of its member.
LEMMA HeaderNext ==
  ASSUME NEW a \in Nat \ {0}, NEW m \in StoredFiles
  PROVE  /\ tar_get_size(HeaderOf(m).size) = Len(m.file)
         /\ NextHeader(a, Len(m.file)) = a + 1 + Blocks(Len(m.file))
  <1>1. PICK w \in Nat \ {0}, c \in Nat \ {0} : w = Word /\ c = BlockUnits
    BY InitrdAssumption
  <1>2. PICK len \in Nat : len = Len(m.file) /\ len + c <= w
    BY <1>1 DEF StoredFiles
  <1>3. tar_get_size(Octal(len)) = len
    BY <1>1, <1>2, SizeRead
  <1>4. PICK x \in Nat : x = len + c - 1
    OBVIOUS
  <1>5. x \in 0 .. w - 1 /\ x = 0 * w + x
    <2>1. x <= w - 1
      BY <1>2, <1>4
    <2>2. x = 0 * w + x
      OBVIOUS
    <2> QED
      BY <2>1, <2>2
  <1>6. x % w = x
    BY <1>5, OnlyQuotient
  <1>7. PICK z \in Nat : z = x \div c
    BY DivideNat
  <1>8. NextHeader(a, len) = a + z + 1 /\ Blocks(len) = z
    BY <1>1, <1>4, <1>6, <1>7 DEF NextHeader, Blocks
  <1>9. NextHeader(a, len) = a + 1 + Blocks(len)
    BY <1>8
  <1> QED
    BY <1>2, <1>3, <1>9, Zenon DEF HeaderOf

\* Where initrd_list goes on, and what it says.
ListStops(blocks) == {a \in Nat \ {0} : a > Len(blocks) \/ blocks[a].name = <<>>}

Behind(blocks, a) == NextHeader(a, tar_get_size(blocks[a].size))

Lists(blocks, f) ==
    \A a \in Nat \ {0} :
        f[a] = IF a \in ListStops(blocks) THEN <<>>
               ELSE <<ListLine(blocks[a])>> \o f[Behind(blocks, a)]

\* initrd_list is such a walk.
LEMMA ListRuns ==
  ASSUME NEW S, NEW blocks \in Seq(S)
  PROVE  \E f : Lists(blocks, f) /\ initrd_list(blocks) = f[1]
  <1> DEFINE D == Nat \ {0}
             L == {ListLine(blocks[a]) : a \in 1 .. Len(blocks)}
             V == Seq(L)
             Stop == ListStops(blocks)
             rank == [a \in D |-> IF a > Len(blocks) THEN 0 ELSE Len(blocks) + 1 - a]
             next == [a \in D |-> Behind(blocks, a)]
             base0 == [a \in D |-> <<>>]
             step == [p \in D \X V |-> IF p[1] \in Stop THEN <<>> ELSE <<ListLine(blocks[p[1]])>> \o p[2]]
             Solves(g) == g = [a \in D |-> IF a > Len(blocks) \/ blocks[a].name = <<>> THEN <<>>
                                 ELSE <<ListLine(blocks[a])>>
                                      \o g[NextHeader(a, tar_get_size(blocks[a].size))]]
             from == CHOOSE g : Solves(g)
  <1>1. initrd_list(blocks) = from[1]
    BY DEF initrd_list
  <1>2. \A a \in D : Behind(blocks, a) \in D /\ Behind(blocks, a) > a
    BY HeaderBehind, SizeIsNumber DEF Behind
  <1>3. /\ rank \in [D -> Nat] /\ next \in [D -> D] /\ Descends(D, rank, Stop, next)
    <2>1. Len(blocks) \in Nat
      OBVIOUS
    <2>2. next \in [D -> D]
      BY <1>2
    <2>3. ASSUME NEW a \in D, a \notin Stop PROVE rank[next[a]] < rank[a]
      <3>1. next[a] \in D /\ next[a] > a /\ a <= Len(blocks)
        BY <1>2, <2>1, <2>3 DEF ListStops
      <3> HIDE DEF next, Stop
      <3> QED
        BY <2>1, <3>1
    <2>4. rank \in [D -> Nat]
      BY <2>1
    <2> HIDE DEF rank, next, Stop
    <2> QED
      BY <2>2, <2>3, <2>4 DEF Descends
  <1>4. base0 \in [D -> V]
    OBVIOUS
  <1>5. ASSUME NEW a \in D, a \notin Stop, NEW v \in V PROVE <<ListLine(blocks[a])>> \o v \in V
    <2>1. ListLine(blocks[a]) \in L
      BY <1>5 DEF ListStops
    <2>2. PICK x \in L : x = ListLine(blocks[a])
      BY <2>1
    <2> HIDE DEF L
    <2> QED
      BY <2>2
  <1>6. step \in [D \X V -> V]
    <2> HIDE DEF L, Stop
    <2> QED
      BY <1>5
  <1>7. PICK f \in [D -> V] : Recurs(D, Stop, next, base0, step, f)
    <2> HIDE DEF D, V, Stop, rank, next, base0, step, Solves, from
    <2> QED
      BY <1>3, <1>4, <1>6, Recursion
  <1>8. Solves(f)
    <2> SUFFICES ASSUME NEW a \in D
                 PROVE  f[a] = IF a > Len(blocks) \/ blocks[a].name = <<>> THEN <<>>
                               ELSE <<ListLine(blocks[a])>> \o f[NextHeader(a, tar_get_size(blocks[a].size))]
      BY <1>7
    <2>1. f[a] = IF a \in Stop THEN base0[a] ELSE step[<<a, f[next[a]]>>]
      BY <1>7 DEF Recurs
    <2>2. CASE a \in Stop
      <3>1. a > Len(blocks) \/ blocks[a].name = <<>>
        BY <2>2 DEF ListStops
      <3> QED
        BY <2>1, <2>2, <3>1
    <2>3. CASE a \notin Stop
      <3>1. ~(a > Len(blocks) \/ blocks[a].name = <<>>)
        BY <2>3 DEF ListStops
      <3>2. next[a] = Behind(blocks, a) /\ Behind(blocks, a) \in D
        BY <1>2
      <3>3. <<a, f[Behind(blocks, a)]>> \in D \X V
        BY <1>7, <3>2
      <3> HIDE DEF V, Stop, next
      <3>4. step[<<a, f[Behind(blocks, a)]>>] = <<ListLine(blocks[a])>> \o f[Behind(blocks, a)]
        BY <2>3, <3>3
      <3> HIDE DEF step
      <3> QED
        BY <2>1, <2>3, <3>1, <3>2, <3>4 DEF Behind
    <2> QED
      BY <2>2, <2>3
  <1>9. Solves(from)
    <2> HIDE DEF Solves
    <2> QED
      BY <1>8
  <1> HIDE DEF from
  <1>10. ASSUME NEW a \in D
         PROVE  from[a] = IF a \in Stop THEN <<>> ELSE <<ListLine(blocks[a])>> \o from[Behind(blocks, a)]
    <2>1. from[a] = IF a > Len(blocks) \/ blocks[a].name = <<>> THEN <<>>
                    ELSE <<ListLine(blocks[a])>> \o from[NextHeader(a, tar_get_size(blocks[a].size))]
      BY <1>9
    <2>2. a \in Stop <=> (a > Len(blocks) \/ blocks[a].name = <<>>)
      BY DEF ListStops
    <2> HIDE DEF Stop
    <2> QED
      BY <2>1, <2>2 DEF Behind
  <1> QED
    BY <1>1, <1>10 DEF Lists

\* The lines of the members.
ListedLines(members) ==
    [k \in 1 .. Len(members) |-> <<<<DOT, SLASH>> \o members[k].name, members[k].dir>>]

\* initrd_list prints every member, whatever their names and sizes (initrd.c:46-79).
LEMMA RamdiskListed ==
  ASSUME NEW members \in Seq(StoredFiles)
  PROVE  initrd_list(Archive(members)) = ListedLines(members)
  <1> DEFINE mem == Archive(members)
             lines == ListedLines(members)
             P(k) == Place(members, k)
  <1>1. PICK N \in Nat : N = Len(members) /\ \A k \in 1 .. N : members[k] \in StoredFiles
    OBVIOUS
  <1>2. PICK S : S = Seq(Int) \X BOOLEAN
    OBVIOUS
  <1>3. lines \in Seq(S) /\ Len(lines) = N
        /\ \A k \in 1 .. N : lines[k] = <<<<DOT, SLASH>> \o members[k].name, members[k].dir>>
    <2>1. ASSUME NEW k \in 1 .. N PROVE <<<<DOT, SLASH>> \o members[k].name, members[k].dir>> \in S
      <3>1. members[k].name \in Seq(Int) /\ members[k].dir \in BOOLEAN
        BY <1>1 DEF StoredFiles
      <3>2. <<DOT, SLASH>> \o members[k].name \in Seq(Int)
        BY <3>1, HeaderName
      <3> QED
        BY <1>2, <3>1, <3>2
    <2>2. PICK t : t = [k \in 1 .. N |-> <<<<DOT, SLASH>> \o members[k].name, members[k].dir>>]
      OBVIOUS
    <2>3. t \in [1 .. N -> S]
      BY <2>1, <2>2
    <2>4. t \in Seq(S) /\ Len(t) = N
      BY <2>3
    <2>5. lines = t
      BY <1>1, <2>2 DEF ListedLines
    <2>6. \A k \in 1 .. N : t[k] = <<<<DOT, SLASH>> \o members[k].name, members[k].dir>>
      BY <2>2
    <2> HIDE DEF lines
    <2> QED
      BY <2>4, <2>5, <2>6
  <1>4. mem \in Seq(MemoryBlocks)
    BY ArchiveIs
  <1>5. PICK f : Lists(mem, f) /\ initrd_list(mem) = f[1]
    BY <1>4, ListRuns
  <1>6. \A k \in 1 .. N + 1 : P(k) \in Nat \ {0} /\ P(k) <= Len(mem)
    <2>1. \A k \in 1 .. N + 1 : P(k) \in 1 .. Len(mem)
      BY <1>1, ArchiveIs
    <2>2. Len(mem) \in Nat
      BY <1>4
    <2> HIDE DEF P, mem
    <2> QED
      BY <2>1, <2>2
  <1>7. f[P(N + 1)] = <<>>
    <2>1. mem[P(N + 1)] = Block(<<>>)
      BY <1>1, ArchiveIs
    <2>2. mem[P(N + 1)].name = <<>>
      BY <2>1 DEF Block
    <2>3. P(N + 1) \in Nat \ {0}
      BY <1>6
    <2>4. P(N + 1) \in ListStops(mem)
      BY <2>2, <2>3 DEF ListStops
    <2> HIDE DEF P, mem
    <2> QED
      BY <1>5, <2>3, <2>4 DEF Lists
  <1>8. ASSUME NEW k \in 1 .. N PROVE f[P(k)] = <<lines[k]>> \o f[P(k + 1)]
    <2>1. mem[P(k)] = HeaderOf(members[k]) /\ P(k + 1) = P(k) + 1 + Blocks(Len(members[k].file))
      BY <1>1, ArchiveIs
    <2>2. P(k) \in Nat \ {0} /\ P(k) <= Len(mem)
      BY <1>6
    <2>3. Behind(mem, P(k)) = P(k + 1)
      BY <1>1, <2>1, <2>2, HeaderNext DEF Behind
    <2>4. ListLine(mem[P(k)]) = lines[k]
      <3>1. members[k].dir \in BOOLEAN
        BY <1>1 DEF StoredFiles
      <3>2. (HeaderOf(members[k]).type = 5) = members[k].dir /\ HeaderOf(members[k]).name = <<DOT, SLASH>> \o members[k].name
        BY <3>1 DEF HeaderOf
      <3> QED
        BY <1>3, <2>1, <3>2 DEF ListLine
    <2>5. P(k) \notin ListStops(mem)
      <3>1. members[k].name \in Seq(Int)
        BY <1>1 DEF StoredFiles
      <3>2. HeaderOf(members[k]).name # <<>>
        BY <3>1, HeaderName DEF HeaderOf
      <3>3. Len(mem) \in Nat
        BY <1>4
      <3> HIDE DEF P, mem
      <3> QED
        BY <2>1, <2>2, <3>2, <3>3 DEF ListStops
    <2> HIDE DEF P, mem, lines
    <2> QED
      BY <1>5, <2>2, <2>3, <2>4, <2>5 DEF Lists
  <1> HIDE DEF P, mem, lines
  <1> DEFINE T == {j \in Nat : j <= N => f[P(N + 1 - j)] = SubSeq(lines, N + 1 - j, N)}
  <1>9. 0 \in T
    <2>1. SubSeq(lines, N + 1, N) = <<>> /\ N + 1 - 0 = N + 1
      BY <1>3
    <2> QED
      BY <1>7, <2>1
  <1>10. ASSUME NEW j \in Nat, j \in T PROVE j + 1 \in T
    <2> SUFFICES ASSUME j + 1 <= N PROVE f[P(N + 1 - (j + 1))] = SubSeq(lines, N + 1 - (j + 1), N)
      OBVIOUS
    <2>1. PICK k \in 1 .. N : k = N + 1 - (j + 1) /\ N + 1 - j = k + 1
      OBVIOUS
    <2>2. f[P(k + 1)] = SubSeq(lines, k + 1, N)
      BY <1>10, <2>1
    <2>3. <<lines[k]>> \o SubSeq(lines, k + 1, N) = SubSeq(lines, k, N)
      BY <1>3, HeadAndRest
    <2> QED
      BY <1>8, <2>1, <2>2, <2>3
  <1>11. Nat \subseteq T
    <2> HIDE DEF T
    <2> QED
      BY <1>9, <1>10, ByNumber
  <1>12. f[P(1)] = SubSeq(lines, 1, N)
    <2>1. N \in T /\ N + 1 - N = 1
      BY <1>11
    <2> QED
      BY <2>1
  <1>13. P(1) = 1
    BY ArchiveIs DEF P
  <1>14. SubSeq(lines, 1, N) = lines
    BY <1>3
  <1> QED
    BY <1>5, <1>12, <1>13, <1>14 DEF mem, lines

\* Where initrd_read_file goes on, and what it finds.
ReadStops(blocks) == {a \in Nat \ {0} : a > Len(blocks) \/ (~blocks[a].ustar /\ blocks[a].name = <<>>)}

Reads(blocks, name, f) ==
    \A a \in Nat \ {0} :
        f[a] = IF a \in ReadStops(blocks) THEN NotFound
               ELSE IF tar_match_filename(blocks[a].name, name)
               THEN [address |-> a + 1, size |-> tar_get_size(blocks[a].size)]
               ELSE f[Behind(blocks, a)]

\* initrd_read_file is such a walk.
LEMMA ReadRuns ==
  ASSUME NEW S, NEW blocks \in Seq(S), NEW name
  PROVE  \E f : Reads(blocks, name, f) /\ initrd_read_file(blocks, name) = f[1]
  <1> DEFINE D == Nat \ {0}
             V == [address : Nat, size : Nat]
             hit(a) == tar_match_filename(blocks[a].name, name)
             file(a) == [address |-> a + 1, size |-> tar_get_size(blocks[a].size)]
             over(a) == a > Len(blocks) \/ (~blocks[a].ustar /\ blocks[a].name = <<>>)
             Stop == {a \in D : over(a) \/ hit(a)}
             rank == [a \in D |-> IF a > Len(blocks) THEN 0 ELSE Len(blocks) + 1 - a]
             next == [a \in D |-> Behind(blocks, a)]
             base0 == [a \in D |-> IF over(a) THEN NotFound ELSE file(a)]
             step == [p \in D \X V |-> p[2]]
             Solves(g) == g = [a \in D |->
                IF a > Len(blocks) \/ (~blocks[a].ustar /\ blocks[a].name = <<>>) THEN NotFound
                ELSE IF tar_match_filename(blocks[a].name, name)
                     THEN [address |-> a + 1, size |-> tar_get_size(blocks[a].size)]
                     ELSE g[NextHeader(a, tar_get_size(blocks[a].size))]]
             from == CHOOSE g : Solves(g)
  <1>1. initrd_read_file(blocks, name) = from[1]
    BY DEF initrd_read_file
  <1>2. \A a \in D : Behind(blocks, a) \in D /\ Behind(blocks, a) > a
    BY HeaderBehind, SizeIsNumber DEF Behind
  <1>3. /\ rank \in [D -> Nat] /\ next \in [D -> D] /\ Descends(D, rank, Stop, next)
    <2>1. Len(blocks) \in Nat
      OBVIOUS
    <2>2. next \in [D -> D]
      BY <1>2
    <2>3. ASSUME NEW a \in D, a \notin Stop PROVE rank[next[a]] < rank[a]
      <3>1. next[a] \in D /\ next[a] > a /\ a <= Len(blocks)
        BY <1>2, <2>1, <2>3
      <3> HIDE DEF next, Stop
      <3> QED
        BY <2>1, <3>1
    <2>4. rank \in [D -> Nat]
      BY <2>1
    <2> HIDE DEF rank, next, Stop
    <2> QED
      BY <2>2, <2>3, <2>4 DEF Descends
  <1>4. base0 \in [D -> V]
    <2> SUFFICES ASSUME NEW a \in D PROVE (IF over(a) THEN NotFound ELSE file(a)) \in V
      OBVIOUS
    <2>1. tar_get_size(blocks[a].size) \in Nat
      BY SizeIsNumber
    <2>2. file(a) \in V /\ NotFound \in V
      BY <2>1 DEF NotFound
    <2> HIDE DEF file, over, V
    <2> QED
      BY <2>2
  <1>5. step \in [D \X V -> V]
    OBVIOUS
  <1>6. PICK f \in [D -> V] : Recurs(D, Stop, next, base0, step, f)
    <2> HIDE DEF D, V, Stop, rank, next, base0, step, Solves, from
    <2> QED
      BY <1>3, <1>4, <1>5, Recursion
  <1>7. ASSUME NEW a \in D
        PROVE  f[a] = IF over(a) THEN NotFound ELSE IF hit(a) THEN file(a) ELSE f[Behind(blocks, a)]
    <2>1. f[a] = IF a \in Stop THEN base0[a] ELSE step[<<a, f[next[a]]>>]
      BY <1>6 DEF Recurs
    <2>2. a \in Stop <=> over(a) \/ hit(a)
      OBVIOUS
    <2>3. base0[a] = IF over(a) THEN NotFound ELSE file(a)
      OBVIOUS
    <2>4. next[a] = Behind(blocks, a) /\ Behind(blocks, a) \in D
      BY <1>2
    <2>5. step[<<a, f[Behind(blocks, a)]>>] = f[Behind(blocks, a)]
      <3>1. <<a, f[Behind(blocks, a)]>> \in D \X V
        BY <1>6, <2>4
      <3> QED
        BY <3>1
    <2> HIDE DEF Stop, base0, next, step, over, hit, file
    <2> QED
      BY <2>1, <2>2, <2>3, <2>4, <2>5
  <1>8. Solves(f)
    <2>1. f = [a \in D |-> f[a]]
      BY <1>6
    <2>2. \A a \in D : f[a] = IF over(a) THEN NotFound ELSE IF hit(a) THEN file(a)
                              ELSE f[NextHeader(a, tar_get_size(blocks[a].size))]
      BY <1>7 DEF Behind
    <2> QED
      BY <2>1, <2>2
  <1>9. Solves(from)
    <2> HIDE DEF Solves
    <2> QED
      BY <1>8
  <1> HIDE DEF from
  <1>10. ASSUME NEW a \in D
         PROVE  from[a] = IF a \in ReadStops(blocks) THEN NotFound ELSE IF hit(a) THEN file(a)
                          ELSE from[Behind(blocks, a)]
    <2>1. from[a] = IF over(a) THEN NotFound ELSE IF hit(a) THEN file(a)
                              ELSE from[NextHeader(a, tar_get_size(blocks[a].size))]
      BY <1>9
    <2>2. a \in ReadStops(blocks) <=> over(a)
      BY DEF ReadStops
    <2> HIDE DEF over, hit, file
    <2> QED
      BY <2>1, <2>2 DEF Behind
  <1> QED
    BY <1>1, <1>10 DEF Reads

\* A search name is a member's with or without "./".
Called(m, name) == m.name = name \/ <<DOT, SLASH>> \o m.name = name

\* What initrd_read_file finds from the k-th member on.
Finds(members, name, k, f) ==
    \/ /\ \A j \in k .. Len(members) : ~Called(members[j], name)
       /\ f = NotFound
    \/ \E j \in k .. Len(members) :
          /\ Called(members[j], name) /\ \A e \in k .. j - 1 : ~Called(members[e], name)
          /\ f = [address |-> Place(members, j) + 1, size |-> Len(members[j].file)]

\* It finds the first member of that name (initrd.c:82-121).
LEMMA RamdiskSearched ==
  ASSUME NEW members \in Seq(StoredFiles), NEW name
  PROVE  Finds(members, name, 1, initrd_read_file(Archive(members), name))
  <1> DEFINE mem == Archive(members)
             P(k) == Place(members, k)
             hit(k) == Called(members[k], name)
             file(k) == [address |-> Place(members, k) + 1, size |-> Len(members[k].file)]
  <1>1. PICK N \in Nat : N = Len(members) /\ \A k \in 1 .. N : members[k] \in StoredFiles
    OBVIOUS
  <1>2. mem \in Seq(MemoryBlocks)
    BY ArchiveIs
  <1>3. PICK f : Reads(mem, name, f) /\ initrd_read_file(mem, name) = f[1]
    BY <1>2, ReadRuns
  <1>4. \A k \in 1 .. N + 1 : P(k) \in Nat \ {0} /\ P(k) <= Len(mem)
    <2>1. \A k \in 1 .. N + 1 : P(k) \in 1 .. Len(mem)
      BY <1>1, ArchiveIs
    <2>2. Len(mem) \in Nat
      BY <1>2
    <2> HIDE DEF P, mem
    <2> QED
      BY <2>1, <2>2
  <1>5. f[P(N + 1)] = NotFound
    <2>1. mem[P(N + 1)] = Block(<<>>)
      BY <1>1, ArchiveIs
    <2>2. mem[P(N + 1)].name = <<>> /\ ~mem[P(N + 1)].ustar
      BY <2>1 DEF Block
    <2>3. P(N + 1) \in Nat \ {0}
      BY <1>4
    <2>4. P(N + 1) \in ReadStops(mem)
      BY <2>2, <2>3 DEF ReadStops
    <2> HIDE DEF P, mem
    <2> QED
      BY <1>3, <2>3, <2>4 DEF Reads
  <1>6. ASSUME NEW k \in 1 .. N PROVE f[P(k)] = IF hit(k) THEN file(k) ELSE f[P(k + 1)]
    <2>1. mem[P(k)] = HeaderOf(members[k]) /\ P(k + 1) = P(k) + 1 + Blocks(Len(members[k].file))
      BY <1>1, ArchiveIs
    <2>2. P(k) \in Nat \ {0} /\ P(k) <= Len(mem)
      BY <1>4
    <2>3. Behind(mem, P(k)) = P(k + 1) /\ tar_get_size(mem[P(k)].size) = Len(members[k].file)
      BY <1>1, <2>1, <2>2, HeaderNext DEF Behind
    <2>4. tar_match_filename(mem[P(k)].name, name) <=> hit(k)
      <3>1. members[k].name \in Seq(Int)
        BY <1>1 DEF StoredFiles
      <3>2. PICK x : x = <<DOT, SLASH>> \o members[k].name
        OBVIOUS
      <3>3. Begins(x, <<DOT, SLASH>>) /\ SubSeq(x, 3, Len(x)) = members[k].name
        BY <3>1, <3>2, HeaderName
      <3>4. mem[P(k)].name = x
        BY <2>1, <3>2 DEF HeaderOf
      <3> HIDE DEF mem, P
      <3> QED
        BY <3>2, <3>3, <3>4 DEF tar_match_filename, Called
    <2>5. P(k) \notin ReadStops(mem)
      <3>1. HeaderOf(members[k]).ustar
        BY DEF HeaderOf
      <3>2. Len(mem) \in Nat
        BY <1>2
      <3> HIDE DEF P, mem
      <3> QED
        BY <2>1, <2>2, <3>1, <3>2 DEF ReadStops
    <2>6. f[P(k)] = IF P(k) \in ReadStops(mem) THEN NotFound
                    ELSE IF tar_match_filename(mem[P(k)].name, name)
                    THEN [address |-> P(k) + 1, size |-> tar_get_size(mem[P(k)].size)]
                    ELSE f[Behind(mem, P(k))]
      BY <1>3, <2>2 DEF Reads
    <2>7. [address |-> P(k) + 1, size |-> tar_get_size(mem[P(k)].size)] = file(k)
      BY <2>3
    <2> HIDE DEF P, mem, hit, file
    <2> QED
      BY <2>3, <2>4, <2>5, <2>6, <2>7
  <1> HIDE DEF mem, P
  <1> DEFINE T == {j \in Nat : j <= N => Finds(members, name, N + 1 - j, f[P(N + 1 - j)])}
  <1>7. 0 \in T
    <2>1. N + 1 - 0 = N + 1 /\ N + 1 .. N = {}
      OBVIOUS
    <2>2. Finds(members, name, N + 1, f[P(N + 1)])
      BY <1>1, <1>5, <2>1 DEF Finds
    <2> QED
      BY <2>1, <2>2
  <1>8. ASSUME NEW j \in Nat, j \in T PROVE j + 1 \in T
    <2> SUFFICES ASSUME j + 1 <= N PROVE Finds(members, name, N + 1 - (j + 1), f[P(N + 1 - (j + 1))])
      OBVIOUS
    <2>1. PICK k \in 1 .. N : k = N + 1 - (j + 1) /\ N + 1 - j = k + 1
      OBVIOUS
    <2>2. Finds(members, name, k + 1, f[P(k + 1)])
      BY <1>8, <2>1
    <2>3. CASE hit(k)
      <3>1. f[P(k)] = file(k)
        BY <1>6, <2>3
      <3>2. k \in k .. N /\ k .. k - 1 = {}
        OBVIOUS
      <3>3. Finds(members, name, k, f[P(k)])
        BY <1>1, <2>3, <3>1, <3>2 DEF Finds
      <3> QED
        BY <2>1, <3>3, Zenon
    <2>4. CASE ~hit(k)
      <3>1. f[P(k)] = f[P(k + 1)]
        BY <1>6, <2>4
      <3>2. \A e \in k .. N : e = k \/ e \in k + 1 .. N
        OBVIOUS
      <3>3. CASE (\A e \in k + 1 .. N : ~hit(e)) /\ f[P(k + 1)] = NotFound
        <4>1. \A e \in k .. N : ~hit(e)
          BY <2>4, <3>2, <3>3
        <4>2. Finds(members, name, k, f[P(k)])
          BY <1>1, <3>1, <3>3, <4>1 DEF Finds
        <4> QED
          BY <2>1, <4>2, Zenon
      <3>4. CASE \E e \in k + 1 .. N : /\ hit(e) /\ \A d \in k + 1 .. e - 1 : ~hit(d)
                                       /\ f[P(k + 1)] = file(e)
        <4>1. PICK e \in k + 1 .. N : /\ hit(e) /\ \A d \in k + 1 .. e - 1 : ~hit(d)
                                      /\ f[P(k + 1)] = file(e)
          BY <3>4
        <4>2. e \in k .. N /\ \A d \in k .. e - 1 : d = k \/ d \in k + 1 .. e - 1
          OBVIOUS
        <4>3. \A d \in k .. e - 1 : ~hit(d)
          BY <2>4, <4>1, <4>2
        <4>4. Finds(members, name, k, f[P(k)])
          BY <1>1, <3>1, <4>1, <4>2, <4>3 DEF Finds
        <4> QED
          BY <2>1, <4>4, Zenon
      <3> QED
        BY <1>1, <2>2, <3>3, <3>4 DEF Finds
    <2> QED
      BY <2>3, <2>4
  <1>9. Nat \subseteq T
    <2> HIDE DEF T
    <2> QED
      BY <1>7, <1>8, ByNumber
  <1>10. Finds(members, name, 1, f[P(1)])
    <2>1. N \in T /\ N + 1 - N = 1
      BY <1>9
    <2> QED
      BY <2>1
  <1>11. P(1) = 1
    BY ArchiveIs DEF P
  <1> QED
    BY <1>3, <1>10, <1>11 DEF mem

\* The bytes behind the header are the member's.
LEMMA RamdiskRead ==
  ASSUME NEW members \in Seq(StoredFiles), NEW k \in 1 .. Len(members), NEW f,
         f = [address |-> Place(members, k) + 1, size |-> Len(members[k].file)]
  PROVE  Bytes(Archive(members), f) = members[k].file
  <1> DEFINE mem == Archive(members)
  <1>1. members[k] \in StoredFiles
    OBVIOUS
  <1>2. PICK t \in Seq(Int) : t = members[k].file
    BY <1>1 DEF StoredFiles
  <1>3. PICK w \in Nat \ {0} : w = BlockUnits
    BY InitrdAssumption
  <1>4. PICK c \in Nat : c = Blocks(Len(t)) /\ c = Needed(Len(t), w)
    <2>1. Blocks(Len(t)) = Needed(Len(t), w)
      BY <1>3 DEF Blocks, Needed
    <2>2. Len(t) \in Nat
      OBVIOUS
    <2> QED
      BY <2>1, <2>2, NeededAre
  <1>5. PICK a \in Nat : a = Place(members, k)
    <2>1. k \in 1 .. Len(members) + 1
      OBVIOUS
    <2>2. Place(members, k) \in 1 .. Len(mem)
      BY <2>1, ArchiveIs
    <2> QED
      BY <2>2
  <1>6. ASSUME NEW b \in 1 .. c PROVE mem[(a + 1) + b - 1].text = Piece(t, w, b)
    <2>1. mem[a + b] = Block(Piece(t, BlockUnits, b))
      BY <1>2, <1>4, <1>5, ArchiveIs
    <2>2. mem[a + b].text = Piece(t, w, b)
      BY <1>3, <2>1 DEF Block
    <2>3. (a + 1) + b - 1 = a + b
      OBVIOUS
    <2> QED
      BY <2>2, <2>3, Zenon
  <1> HIDE DEF mem
  <1>7. f.address = a + 1 /\ f.size = Len(t)
    BY <1>2, <1>5
  <1>8. [b \in 1 .. Blocks(f.size) |-> mem[f.address + b - 1].text] =
           [b \in 1 .. Needed(Len(t), w) |-> Piece(t, w, b)]
    BY <1>4, <1>6, <1>7
  <1>9. FlattenSeq([b \in 1 .. Needed(Len(t), w) |-> Piece(t, w, b)]) = t
    BY Pieces
  <1>10. SubSeq(t, 1, Len(t)) = t
    OBVIOUS
  <1>11. Bytes(mem, f) = SubSeq(t, 1, Len(t))
    BY <1>7, <1>8, <1>9, Zenon DEF Bytes
  <1> QED
    BY <1>2, <1>10, <1>11 DEF mem

-----------------------------------------------------------------------------
(* Lines *)

\* Where the line that begins at k ends.
EndOf(text, k) == Min({j \in k .. Len(text) : text[j] \in LineEnd} \union {Len(text) + 1})

\* A line's part up to u that holds no end of a line.
Within(text, k, u) ==
    /\ k \in 1 .. Len(text) + 1 /\ u \in k .. Len(text) + 1
    /\ \A j \in k .. u - 1 : text[j] \notin LineEnd

\* A line has an end, at the latest behind the last character.
LEMMA EndsAre ==
  ASSUME NEW text \in Seq(Int), NEW k \in Nat \ {0}
  PROVE  /\ EndOf(text, k) \in 1 .. Len(text) + 1
         /\ EndOf(text, k) <= Len(text) => EndOf(text, k) >= k
  <1> DEFINE T == {j \in k .. Len(text) : text[j] \in LineEnd} \union {Len(text) + 1}
  <1>1. T \subseteq Nat /\ T # {} /\ \A j \in T : j >= 1 /\ j <= Len(text) + 1 /\ (j <= Len(text) => j >= k)
    OBVIOUS
  <1>2. EndOf(text, k) = Min(T)
    BY DEF EndOf
  <1> HIDE DEF T
  <1>3. Min(T) \in T
    BY <1>1, MinNumber
  <1>4. Len(text) \in Nat
    OBVIOUS
  <1>5. PICK m \in T : m = EndOf(text, k)
    BY <1>2, <1>3
  <1>6. m \in 1 .. Len(text) + 1 /\ (m <= Len(text) => m >= k)
    BY <1>1, <1>4
  <1> QED
    BY <1>5, <1>6

\* The line goes on to the first end of a line.
LEMMA LineGoesOn ==
  ASSUME NEW text \in Seq(Int), NEW k, NEW u, Within(text, k, u)
  PROVE  /\ u = Len(text) + 1 \/ text[u] \in LineEnd => EndOf(text, k) = u
         /\ u <= Len(text) /\ text[u] \notin LineEnd => Within(text, k, u + 1)
  <1> DEFINE T == {j \in k .. Len(text) : text[j] \in LineEnd} \union {Len(text) + 1}
  <1>0. /\ k \in 1 .. Len(text) + 1 /\ u \in k .. Len(text) + 1 /\ Len(text) \in Nat /\ k \in Nat /\ u \in Nat
        /\ \A j \in k .. u - 1 : text[j] \notin LineEnd
    BY DEF Within
  <1>1. ASSUME u = Len(text) + 1 \/ text[u] \in LineEnd PROVE EndOf(text, k) = u
    <2>1. u \in T /\ T \subseteq Nat
      BY <1>0, <1>1
    <2>2. \A j \in T : j >= u
      <3> SUFFICES ASSUME NEW j \in T, j < u PROVE FALSE
        BY <1>0
      <3>1. j \in k .. u - 1 /\ text[j] \in LineEnd
        BY <1>0
      <3> QED
        BY <1>0, <3>1
    <2>3. EndOf(text, k) = Min(T)
      BY DEF EndOf
    <2> HIDE DEF T
    <2>4. Min(T) \in T /\ \A y \in T : Min(T) <= y
      BY <2>1, MinNumber
    <2>5. Min(T) \in Nat /\ Min(T) >= u /\ Min(T) <= u
      BY <2>1, <2>2, <2>4
    <2> QED
      BY <1>0, <2>3, <2>5
  <1>2. ASSUME u <= Len(text), text[u] \notin LineEnd PROVE Within(text, k, u + 1)
    <2>1. u + 1 \in k .. Len(text) + 1
      BY <1>0, <1>2
    <2>2. \A j \in k .. (u + 1) - 1 : text[j] \notin LineEnd
      <3> SUFFICES ASSUME NEW j \in k .. (u + 1) - 1 PROVE text[j] \notin LineEnd
        OBVIOUS
      <3>1. j = u \/ j \in k .. u - 1
        BY <1>0
      <3> QED
        BY <1>0, <1>2, <3>1
    <2> QED
      BY <1>0, <2>1, <2>2 DEF Within
  <1> QED
    BY <1>1, <1>2

\* The lines from a place on.
Splits(text, f) ==
    \A k \in Nat \ {0} :
        /\ f[k] \in Seq(Seq(Int))
        /\ f[k] = <<SubSeq(text, k, EndOf(text, k) - 1)>>
                  \o (IF EndOf(text, k) > Len(text) THEN <<>> ELSE f[EndOf(text, k) + 1])

\* LinesOf is such a walk.
LEMMA SplitRuns ==
  ASSUME NEW text \in Seq(Int)
  PROVE  \E f : Splits(text, f) /\ LinesOf(text) = f[1]
  <1> DEFINE D == Nat \ {0}
             Q == Seq(Int)
             V == Seq(Q)
             Stop == {k \in D : EndOf(text, k) > Len(text)}
             rank == [k \in D |-> IF k > Len(text) THEN 0 ELSE Len(text) + 1 - k]
             next == [k \in D |-> EndOf(text, k) + 1]
             line(k) == SubSeq(text, k, EndOf(text, k) - 1)
             base0 == [k \in D |-> <<line(k)>>]
             step == [p \in D \X V |-> <<line(p[1])>> \o p[2]]
             Solves(g) == g = [k \in D |->
                                 LET end == Min({j \in k .. Len(text) : text[j] \in LineEnd}
                                                  \union {Len(text) + 1})
                                 IN <<SubSeq(text, k, end - 1)>>
                                    \o (IF end > Len(text) THEN <<>> ELSE g[end + 1])]
             from == CHOOSE g : Solves(g)
  <1>1. LinesOf(text) = from[1]
    BY DEF LinesOf
  <1>0. Len(text) \in Nat
    OBVIOUS
  <1>2. \A k \in D : EndOf(text, k) \in 1 .. Len(text) + 1 /\ (EndOf(text, k) <= Len(text) => EndOf(text, k) >= k)
    BY EndsAre
  <1>20. ASSUME NEW k \in D, ~(EndOf(text, k) > Len(text))
        PROVE  \E m \in Nat : m = EndOf(text, k) /\ m <= Len(text) /\ m >= k
    <2>1. PICK m \in Nat : m = EndOf(text, k)
      BY <1>0, <1>2
    <2>2. m <= Len(text)
      BY <1>0, <1>20, <2>1
    <2>3. m >= k
      BY <1>2, <2>1, <2>2
    <2> QED
      BY <2>1, <2>2, <2>3
  <1>3. /\ rank \in [D -> Nat] /\ next \in [D -> D] /\ Descends(D, rank, Stop, next)
    <2>1. next \in [D -> D]
      BY <1>2
    <2>2. ASSUME NEW k \in D, k \notin Stop PROVE rank[next[k]] < rank[k]
      <3>0. PICK m \in Nat : m = EndOf(text, k) /\ m <= Len(text) /\ m >= k
        BY <1>20, <2>2
      <3>1. next[k] \in D /\ next[k] > k /\ k <= Len(text)
        BY <1>0, <3>0
      <3> HIDE DEF next, Stop
      <3> QED
        BY <1>0, <3>1
    <2>3. rank \in [D -> Nat]
      BY <1>0
    <2> HIDE DEF rank, next, Stop
    <2> QED
      BY <2>1, <2>2, <2>3 DEF Descends
  <1>4. \A k \in D : line(k) \in Q
    <2> SUFFICES ASSUME NEW k \in D PROVE line(k) \in Q
      OBVIOUS
    <2>1. PICK e \in Nat : e = EndOf(text, k) - 1 /\ e <= Len(text)
      BY <1>0, <1>2
    <2>2. SubSeq(text, k, e) \in Seq(Int)
      BY <1>0, <2>1
    <2> QED
      BY <2>1, <2>2, Zenon
  <1>5. base0 \in [D -> V] /\ step \in [D \X V -> V]
    <2> HIDE DEF Q, line
    <2>1. ASSUME NEW k \in D, NEW v \in V PROVE <<line(k)>> \in V /\ <<line(k)>> \o v \in V
      BY <1>4
    <2> HIDE DEF V
    <2>4. \A k \in D : <<line(k)>> \in V
      BY <1>4 DEF V
    <2>2. base0 \in [D -> V]
      BY <2>4
    <2>3. step \in [D \X V -> V]
      BY <2>1
    <2> QED
      BY <2>2, <2>3
  <1>7. PICK f \in [D -> V] : Recurs(D, Stop, next, base0, step, f)
    <2> HIDE DEF D, V, Stop, rank, next, base0, step, Solves, from
    <2> QED
      BY <1>3, <1>5, Recursion
  <1>8. ASSUME NEW k \in D
        PROVE  f[k] = <<line(k)>> \o (IF EndOf(text, k) > Len(text) THEN <<>> ELSE f[EndOf(text, k) + 1])
    <2>1. f[k] = IF k \in Stop THEN base0[k] ELSE step[<<k, f[next[k]]>>]
      BY <1>7 DEF Recurs
    <2>2. CASE k \in Stop
      <3>1. f[k] = <<line(k)>>
        BY <2>1, <2>2
      <3>2. <<line(k)>> \o <<>> = <<line(k)>>
        <4> HIDE DEF line
        <4> QED
          BY <1>4
      <3> HIDE DEF line
      <3> QED
        BY <2>2, <3>1, <3>2
    <2>3. CASE k \notin Stop
      <3>0. PICK e : e = EndOf(text, k)
        OBVIOUS
      <3>1. next[k] = EndOf(text, k) + 1 /\ EndOf(text, k) + 1 \in D /\ ~(EndOf(text, k) > Len(text))
        <4>1. e \in k .. Len(text) + 1 /\ ~(e > Len(text)) /\ next[k] = e + 1
          BY <1>2, <2>3, <3>0
        <4>2. e + 1 \in D
          BY <4>1
        <4> QED
          BY <3>0, <4>1, <4>2
      <3>2. <<k, f[EndOf(text, k) + 1]>> \in D \X V
        BY <1>7, <3>1
      <3> HIDE DEF V, Stop, next, line
      <3>3. step[<<k, f[EndOf(text, k) + 1]>>] = <<line(k)>> \o f[EndOf(text, k) + 1]
        BY <3>2
      <3> HIDE DEF step
      <3> QED
        BY <2>1, <2>3, <3>1, <3>3
    <2> QED
      BY <2>2, <2>3
  <1>9. Solves(f)
    <2> SUFFICES ASSUME NEW k \in D
                 PROVE  f[k] = LET end == Min({j \in k .. Len(text) : text[j] \in LineEnd}
                                                  \union {Len(text) + 1})
                               IN <<SubSeq(text, k, end - 1)>>
                                    \o (IF end > Len(text) THEN <<>> ELSE f[end + 1])
      BY <1>7
    <2> HIDE DEF V
    <2> QED
      BY <1>8 DEF EndOf
  <1>10. Solves(from)
    <2> HIDE DEF Solves
    <2> QED
      BY <1>9
  <1> HIDE DEF from
  <1>11. ASSUME NEW k \in D
         PROVE from[k] = <<line(k)>> \o (IF EndOf(text, k) > Len(text) THEN <<>> ELSE from[EndOf(text, k) + 1])
    BY <1>10 DEF EndOf
  <1> DEFINE T == {k \in D : from[k] \in V}
  <1>12. D \subseteq T
    <2>1. ASSUME NEW k \in D, \A e \in D : rank[e] < rank[k] => e \in T PROVE k \in T
      <3>1. CASE EndOf(text, k) > Len(text)
        <4>1. from[k] = <<line(k)>> \o <<>> /\ line(k) \in Q
          BY <1>4, <1>11, <3>1
        <4> HIDE DEF line, Q
        <4>2. from[k] \in V
          BY <4>1
        <4> QED
          BY <4>2
      <3>2. CASE ~(EndOf(text, k) > Len(text))
        <4>0. PICK m \in Nat : m = EndOf(text, k) /\ m <= Len(text) /\ m >= k
          BY <1>20, <3>2
        <4>6. k \in Nat /\ m + 1 \in D /\ rank[k] = Len(text) + 1 - k
          BY <1>0, <4>0
        <4>7. rank[m + 1] = IF m + 1 > Len(text) THEN 0 ELSE Len(text) + 1 - (m + 1)
          BY <4>6
        <4>5. m + 1 \in D /\ rank[m + 1] < rank[k]
          <5> HIDE DEF rank, T, V, line, D
          <5> QED
            BY <1>0, <4>0, <4>6, <4>7
        <4>1. EndOf(text, k) + 1 \in D /\ rank[EndOf(text, k) + 1] < rank[k]
          BY <4>0, <4>5, Zenon
        <4>2. from[EndOf(text, k) + 1] \in V
          BY <2>1, <4>1
        <4>3. from[k] = <<line(k)>> \o from[EndOf(text, k) + 1] /\ line(k) \in Q
          BY <1>4, <1>11, <3>2
        <4> HIDE DEF line, Q
        <4>4. from[k] \in V
          BY <4>2, <4>3
        <4> QED
          BY <4>4
      <3> QED
        BY <3>1, <3>2
    <2> HIDE DEF T, D, rank
    <2> QED
      BY <1>3, <2>1, ByRank
  <1>13. Splits(text, from)
    <2> SUFFICES ASSUME NEW k \in D
                 PROVE  /\ from[k] \in V
                        /\ from[k] = <<line(k)>>
                             \o (IF EndOf(text, k) > Len(text) THEN <<>> ELSE from[EndOf(text, k) + 1])
      BY DEF Splits
    <2> QED
      BY <1>11, <1>12
  <1> QED
    BY <1>1, <1>13

-----------------------------------------------------------------------------
(* What is said of lines *)

\* What can be logged.
Sayings == {Setting(l)[1] : l \in Seq(Int)}

\* What is said of a line is of the kind that is.
LEMMA SettingType ==
  ASSUME NEW l \in Seq(Int)
  PROVE  Setting(l) \in Seq(Sayings)
  <1>1. Setting(l) = <<>> \/ \E x : Setting(l) = <<x>>
    <2>1. PICK j : j = Find(l, EQ)
      OBVIOUS
    <2>2. PICK key : key = SubSeq(l, 1, j - 1)
      OBVIOUS
    <2>3. PICK value : value = SubSeq(l, j + 1, Len(l))
      OBVIOUS
    <2>4. Setting(l) = IF j > Len(l) THEN <<>>
                       ELSE CASE Begins(key, KeyTheme) -> <<<<"theme", value>>>>
                              [] Begins(key, KeyCore) -> <<<<"core", value>>>>
                              [] Begins(key, KeyAutostart) -> <<<<"autostart", <<>>>>>>
                              [] OTHER -> <<>>
      BY <2>1, <2>2, <2>3 DEF Setting
    <2> QED
      BY <2>4
  <1>2. CASE Setting(l) = <<>>
    BY <1>2
  <1>3. ASSUME NEW x, Setting(l) = <<x>> PROVE Setting(l) \in Seq(Sayings)
    <2>1. x = Setting(l)[1]
      BY <1>3
    <2>2. x \in Sayings
      BY <2>1 DEF Sayings
    <2>3. <<x>> \in Seq(Sayings)
      BY <2>2
    <2> QED
      BY <1>3, <2>3
  <1> QED
    BY <1>1, <1>2, <1>3

\* Nothing is said of an empty line.
LEMMA NothingSaid == Setting(<<>>) = <<>>
  <1>1. Find(<<>>, EQ) = 1
    BY DEF Find, Contains
  <1>2. Find(<<>>, EQ) > Len(<<>>)
    BY <1>1
  <1> QED
    BY <1>2 DEF Setting

\* The beginning of a line.
LEMMA UptoIs ==
  ASSUME NEW S, NEW t \in Seq(S), NEW k \in Nat
  PROVE  /\ Upto(t, k) \in Seq(S)
         /\ Upto(t, k) = SubSeq(t, 1, IF Len(t) <= k THEN Len(t) ELSE k)
  <1>1. Min({Len(t), k}) = IF Len(t) <= k THEN Len(t) ELSE k
    BY Lesser
  <1>2. PICK m \in Nat : m = (IF Len(t) <= k THEN Len(t) ELSE k) /\ m <= Len(t)
    OBVIOUS
  <1>3. SubSeq(t, 1, m) \in Seq(S)
    BY <1>2
  <1> QED
    BY <1>1, <1>2, <1>3 DEF Upto

\* A line of which at most so many characters are kept.
KeepsTo(top, line, c) == IF Len(line) < top THEN Append(line, c) ELSE line

\* One character more of it.
LEMMA KeepsMore ==
  ASSUME NEW top \in Nat, NEW text \in Seq(Int), NEW k \in 1 .. Len(text), NEW h \in k .. Len(text)
  PROVE  KeepsTo(top, Upto(SubSeq(text, k, h - 1), top), text[h]) = Upto(SubSeq(text, k, h), top)
  <1>1. PICK u : u = SubSeq(text, k, h - 1)
    OBVIOUS
  <1>2. PICK v : v = SubSeq(text, k, h)
    OBVIOUS
  <1>0. /\ k \in Nat /\ h \in Nat /\ k <= h /\ k >= 1 /\ h <= Len(text) /\ Len(text) \in Nat
        /\ text[h] \in Int
    OBVIOUS
  <1>3. /\ u \in Seq(Int) /\ Len(u) = h - k /\ \A j \in 1 .. h - k : u[j] = text[k + j - 1]
    BY <1>0, <1>1
  <1>7. /\ v \in Seq(Int) /\ Len(v) = h - k + 1 /\ \A j \in 1 .. h - k + 1 : v[j] = text[k + j - 1]
    BY <1>0, <1>2
  <1>8. PICK c \in Nat : c = h - k
    BY <1>0
  <1>9. /\ Len(u) = c /\ Len(v) = c + 1 /\ v[c + 1] = text[h] /\ \A j \in 1 .. c : v[j] = u[j]
    <2>1. c + 1 \in 1 .. h - k + 1 /\ k + (c + 1) - 1 = h
      BY <1>0, <1>8
    <2>2. v[c + 1] = text[h]
      BY <1>7, <2>1
    <2>3. ASSUME NEW j \in 1 .. c PROVE v[j] = u[j]
      <3>1. j \in 1 .. h - k /\ j \in 1 .. h - k + 1
        BY <1>0, <1>8
      <3> QED
        BY <1>3, <1>7, <3>1
    <2> QED
      BY <1>3, <1>7, <1>8, <2>2, <2>3
  <1>10. u \in Seq(Int) /\ v \in Seq(Int) /\ Len(u) = c /\ Len(v) = c + 1
    BY <1>3, <1>7, <1>9
  <1>4. v = Append(u, text[h])
    <2>1. SubSeq(v, 1, c) = u
      BY <1>9, <1>10
    <2> QED
      BY <1>9, <1>10, <2>1, FrontAndLast
  <1>5. CASE Len(u) < top
    <2>1. Upto(u, top) = u
      <3>1. Upto(u, top) = SubSeq(u, 1, IF Len(u) <= top THEN Len(u) ELSE top)
        BY <1>3, UptoIs
      <3>2. (IF Len(u) <= top THEN Len(u) ELSE top) = Len(u)
        BY <1>8, <1>9, <1>5
      <3> QED
        BY <1>3, <3>1, <3>2
    <2>2. Upto(v, top) = v
      <3>1. Upto(v, top) = SubSeq(v, 1, IF Len(v) <= top THEN Len(v) ELSE top)
        BY <1>7, UptoIs
      <3>2. (IF Len(v) <= top THEN Len(v) ELSE top) = Len(v)
        BY <1>8, <1>9, <1>5
      <3> QED
        BY <1>7, <3>1, <3>2
    <2> QED
      BY <1>1, <1>2, <1>4, <1>5, <2>1, <2>2 DEF KeepsTo
  <1>6. CASE ~(Len(u) < top)
    <2>1. Upto(u, top) = SubSeq(u, 1, top)
      <3>1. Upto(u, top) = SubSeq(u, 1, IF Len(u) <= top THEN Len(u) ELSE top)
        BY <1>3, UptoIs
      <3>2. (IF Len(u) <= top THEN Len(u) ELSE top) = top
        BY <1>8, <1>9, <1>6
      <3> QED
        BY <3>1, <3>2
    <2>2. Upto(v, top) = SubSeq(v, 1, top)
      <3>1. Upto(v, top) = SubSeq(v, 1, IF Len(v) <= top THEN Len(v) ELSE top)
        BY <1>7, UptoIs
      <3>2. (IF Len(v) <= top THEN Len(v) ELSE top) = top
        BY <1>8, <1>9, <1>6
      <3> QED
        BY <3>1, <3>2
    <2>4. top <= c
      BY <1>6, <1>8, <1>9
    <2>5. PICK x : x = SubSeq(u, 1, top)
      OBVIOUS
    <2>6. PICK y : y = SubSeq(v, 1, top)
      OBVIOUS
    <2>7. x \in Seq(Int) /\ Len(x) = top /\ \A j \in 1 .. top : x[j] = u[j]
      BY <1>9, <1>10, <2>4, <2>5
    <2>8. y \in Seq(Int) /\ Len(y) = top /\ \A j \in 1 .. top : y[j] = v[j]
      BY <1>9, <1>10, <2>4, <2>6
    <2>11. \A j \in 1 .. top : x[j] = y[j]
      <3> SUFFICES ASSUME NEW j \in 1 .. top PROVE x[j] = y[j]
        OBVIOUS
      <3>1. j \in 1 .. c
        BY <2>4
      <3> QED
        BY <1>9, <2>7, <2>8, <3>1
    <2>3. x = y
      BY <2>7, <2>8, <2>11
    <2>9. Len(Upto(u, top)) = top
      BY <2>1, <2>5, <2>7
    <2>10. KeepsTo(top, Upto(u, top), text[h]) = Upto(u, top)
      BY <2>9 DEF KeepsTo
    <2> QED
      BY <1>1, <1>2, <2>1, <2>2, <2>3, <2>5, <2>6, <2>10, Zenon
  <1> QED
    BY <1>5, <1>6

\* So the configuration's parser keeps its lines.
LEMMA KeptMore ==
  ASSUME LineMax \in Nat, NEW text \in Seq(Int), NEW k \in 1 .. Len(text), NEW h \in k .. Len(text)
  PROVE  Kept(Upto(SubSeq(text, k, h - 1), LineMax), text[h]) = Upto(SubSeq(text, k, h), LineMax)
  BY KeepsMore DEF Kept, KeepsTo

\* Of a line and those behind it.
Said(lines) == FlattenSeq([k \in DOMAIN lines |-> Setting(Upto(lines[k], LineMax))])

\* What is said of lines is said line by line.
LEMMA SaidOfLines ==
  ASSUME LineMax \in Nat, NEW l \in Seq(Int), NEW lines \in Seq(Seq(Int))
  PROVE  /\ Said(<<>>) = <<>>
         /\ Said(<<l>> \o lines) = Setting(Upto(l, LineMax)) \o Said(lines)
         /\ Said(lines) \in Seq(Sayings)
  <1> DEFINE Q == Seq(Int)
             S == Sayings
             says(t) == [k \in DOMAIN t |-> Setting(Upto(t[k], LineMax))]
             both == <<l>> \o lines
             one == Setting(Upto(l, LineMax))
  <1>1. \A t \in Q : Setting(Upto(t, LineMax)) \in Seq(S)
    BY UptoIs, SettingType
  <1> HIDE DEF Q, S
  <1>2. lines \in Seq(Q) /\ l \in Q
    BY DEF Q
  <1>3. \A t \in Seq(Q) : says(t) \in Seq(Seq(S))
    <2> SUFFICES ASSUME NEW t \in Seq(Q) PROVE says(t) \in Seq(Seq(S))
      OBVIOUS
    <2>1. DOMAIN t = 1 .. Len(t) /\ Len(t) \in Nat /\ \A k \in 1 .. Len(t) : t[k] \in Q
      OBVIOUS
    <2>2. says(t) \in [1 .. Len(t) -> Seq(S)]
      BY <1>1, <2>1
    <2> HIDE DEF says
    <2> QED
      BY <2>1, <2>2
  <1>4. /\ both \in Seq(Q) /\ Len(both) = Len(lines) + 1 /\ both[1] = l
        /\ \A k \in 1 .. Len(lines) : both[k + 1] = lines[k]
    BY <1>2
  <1>5. /\ Len(says(both)) = Len(lines) + 1 /\ says(both)[1] = one
        /\ \A k \in 1 .. Len(lines) : says(both)[k + 1] = says(lines)[k]
        /\ Len(says(lines)) = Len(lines)
    <2> HIDE DEF both
    <2>1. PICK c \in Nat : c = Len(lines)
      BY <1>2
    <2>2. DOMAIN both = 1 .. c + 1 /\ DOMAIN lines = 1 .. c
      BY <1>2, <1>4, <2>1
    <2>3. /\ says(both) = [k \in 1 .. c + 1 |-> Setting(Upto(both[k], LineMax))]
          /\ says(lines) = [k \in 1 .. c |-> Setting(Upto(lines[k], LineMax))]
      BY <2>2
    <2>4. Len(says(both)) = c + 1 /\ Len(says(lines)) = c
      BY <2>3
    <2>5. says(both)[1] = one
      BY <1>4, <2>3
    <2>6. \A k \in 1 .. c : says(both)[k + 1] = says(lines)[k]
      <3> SUFFICES ASSUME NEW k \in 1 .. c PROVE says(both)[k + 1] = says(lines)[k]
        OBVIOUS
      <3>1. k + 1 \in 1 .. c + 1
        OBVIOUS
      <3> QED
        BY <1>4, <2>1, <2>3, <3>1
    <2> QED
      BY <2>1, <2>4, <2>5, <2>6
  <1>6. says(both) \in Seq(Seq(S)) /\ says(lines) \in Seq(Seq(S)) /\ one \in Seq(S)
    BY <1>1, <1>2, <1>3, <1>4
  <1>7. says(both) = <<one>> \o says(lines)
    <2> DEFINE R == Seq(S)
    <2>1. PICK u : u = says(both)
      OBVIOUS
    <2>2. PICK v : v = says(lines)
      OBVIOUS
    <2>3. PICK x : x = one
      OBVIOUS
    <2>4. /\ u \in Seq(R) /\ v \in Seq(R) /\ x \in R /\ Len(u) = Len(v) + 1 /\ u[1] = x
          /\ \A k \in 1 .. Len(v) : u[k + 1] = v[k]
      <3> HIDE DEF says, both, one
      <3> QED
        BY <1>5, <1>6, <2>1, <2>2, <2>3
    <2> HIDE DEF says, both, one, R
    <2>5. u = <<x>> \o v
      <3>1. <<x>> \o v \in Seq(R) /\ Len(<<x>> \o v) = Len(v) + 1
        BY <2>4
      <3>2. \A k \in 1 .. Len(v) + 1 : u[k] = (<<x>> \o v)[k]
        <4> SUFFICES ASSUME NEW k \in 1 .. Len(v) + 1 PROVE u[k] = (<<x>> \o v)[k]
          OBVIOUS
        <4>1. CASE k = 1
          BY <2>4, <4>1
        <4>2. CASE k # 1
          <5>1. k - 1 \in 1 .. Len(v) /\ (k - 1) + 1 = k
            BY <2>4, <4>2
          <5>2. u[k] = v[k - 1]
            BY <2>4, <5>1
          <5> QED
            BY <2>4, <5>1, <5>2
        <4> QED
          BY <4>1, <4>2
      <3> QED
        BY <2>4, <3>1, <3>2
    <2> QED
      BY <2>1, <2>2, <2>3, <2>5
  <1>8. Said(both) = FlattenSeq(says(both)) /\ Said(lines) = FlattenSeq(says(lines))
    BY DEF Said
  <1>9. Said(<<>>) = <<>>
    <2>1. [k \in DOMAIN <<>> |-> Setting(Upto(<<>>[k], LineMax))] = <<>>
      OBVIOUS
    <2> QED
      BY <2>1, FlattenEmpty DEF Said
  <1> HIDE DEF says, both, one
  <1>10. <<one>> \in Seq(Seq(S))
    BY <1>6
  <1>12. FlattenSeq(<<one>> \o says(lines)) = FlattenSeq(<<one>>) \o FlattenSeq(says(lines))
    BY <1>6, <1>10, FlattenConcat
  <1>11. FlattenSeq(says(both)) = one \o FlattenSeq(says(lines)) /\ FlattenSeq(says(lines)) \in Seq(S)
    BY <1>6, <1>7, <1>12, FlattenOne, FlattenType
  <1> QED
    BY <1>8, <1>9, <1>11 DEF both, one, S

-----------------------------------------------------------------------------
(* The parser *)

ParseStops(contents, j) == contents[j] \in LineEnd \/ j = Len(contents)

Parses(contents, f) ==
    \A j \in Nat \ {0}, l \in Seq(Int) :
        f[<<j, l>>] = IF j > Len(contents) THEN <<>>
                  ELSE IF ParseStops(contents, j) THEN Setting(l) \o f[<<j + 1, <<>>>>]
                  ELSE f[<<j + 1, Kept(l, contents[j])>>]

\* What is kept of a line is a line.
LEMMA KeptType ==
  ASSUME NEW l \in Seq(Int), NEW c \in Int
  PROVE  Kept(l, c) \in Seq(Int)
  BY DEF Kept

\* parse_yanase_config is such a walk.
LEMMA ParseRuns ==
  ASSUME NEW contents \in Seq(Int)
  PROVE  \E f : Parses(contents, f) /\ parse_yanase_config(contents) = f[<<1, <<>>>>]
  <1> DEFINE P == Nat \ {0}
             Q == Seq(Int)
             D == P \X Q
             V == Seq(Sayings)
             Stop == {d \in D : d[1] > Len(contents)}
             rank == [d \in D |-> IF d[1] > Len(contents) THEN 0 ELSE Len(contents) + 1 - d[1]]
             more(d) == d[1] <= Len(contents) /\ ~ParseStops(contents, d[1])
             next == [d \in D |-> <<d[1] + 1, IF more(d) THEN Kept(d[2], contents[d[1]]) ELSE <<>>>>]
             base0 == [d \in D |-> <<>>]
             step == [p \in D \X V |-> IF more(p[1]) THEN p[2] ELSE Setting(p[1][2]) \o p[2]]
             Solves(g) == g = [p \in D |->
                                 IF p[1] > Len(contents) THEN <<>>
                                 ELSE IF contents[p[1]] \in LineEnd \/ p[1] = Len(contents)
                                 THEN Setting(p[2]) \o g[<<p[1] + 1, <<>>>>]
                                 ELSE g[<<p[1] + 1, Kept(p[2], contents[p[1]])>>]]
             from == CHOOSE g : Solves(g)
  <1>0. Len(contents) \in Nat
    OBVIOUS
  <1>1. parse_yanase_config(contents) = from[<<1, <<>>>>]
    BY DEF parse_yanase_config
  <1>2. next \in [D -> D]
    <2> SUFFICES ASSUME NEW d \in D
                 PROVE  <<d[1] + 1, IF more(d) THEN Kept(d[2], contents[d[1]]) ELSE <<>>>> \in D
      OBVIOUS
    <2>1. d[1] + 1 \in P /\ d[2] \in Seq(Int) /\ d[1] \in P
      OBVIOUS
    <2>2. more(d) => Kept(d[2], contents[d[1]]) \in Seq(Int)
      <3> SUFFICES ASSUME more(d) PROVE Kept(d[2], contents[d[1]]) \in Seq(Int)
        OBVIOUS
      <3>1. contents[d[1]] \in Int
        BY <1>0, <2>1
      <3> QED
        BY <2>1, <3>1, KeptType
    <2>3. (IF more(d) THEN Kept(d[2], contents[d[1]]) ELSE <<>>) \in Q
      BY <2>2
    <2> QED
      BY <2>1, <2>3
  <1>3. rank \in [D -> Nat] /\ Descends(D, rank, Stop, next)
    <2>1. rank \in [D -> Nat]
      <3> SUFFICES ASSUME NEW d \in D
                   PROVE  (IF d[1] > Len(contents) THEN 0 ELSE Len(contents) + 1 - d[1]) \in Nat
        OBVIOUS
      <3>1. d[1] \in Nat
        OBVIOUS
      <3> QED
        BY <1>0, <3>1
    <2>2. ASSUME NEW d \in D, d \notin Stop PROVE rank[next[d]] < rank[d]
      <3>1. PICK e : e = next[d]
        OBVIOUS
      <3>5. d[1] \in Nat /\ d[1] <= Len(contents)
        BY <1>0, <2>2
      <3>6. e \in D
        BY <1>2, <3>1
      <3>7. e[1] = d[1] + 1
        BY <3>1
      <3>2. d[1] \in Nat /\ d[1] <= Len(contents) /\ e \in D /\ e[1] = d[1] + 1
        BY <3>5, <3>6, <3>7
      <3>3. rank[d] = Len(contents) + 1 - d[1]
        BY <1>0, <3>2
      <3>4. rank[e] = IF e[1] > Len(contents) THEN 0 ELSE Len(contents) + 1 - e[1]
        BY <3>2
      <3> HIDE DEF next, rank, D, Stop, V
      <3> QED
        BY <1>0, <3>1, <3>2, <3>3, <3>4
    <2> HIDE DEF rank, next, Stop, D
    <2> QED
      BY <2>1, <2>2 DEF Descends
  <1>4. base0 \in [D -> V]
    OBVIOUS
  <1>5. step \in [D \X V -> V]
    <2> SUFFICES ASSUME NEW d \in D, NEW v \in V
                 PROVE  (IF more(d) THEN v ELSE Setting(d[2]) \o v) \in V
      OBVIOUS
    <2>1. Setting(d[2]) \in V
      BY SettingType
    <2> HIDE DEF more, D
    <2> QED
      BY <2>1
  <1>6. PICK f \in [D -> V] : Recurs(D, Stop, next, base0, step, f)
    <2> HIDE DEF D, V, Stop, rank, next, base0, step, Solves, from
    <2> QED
      BY <1>2, <1>3, <1>4, <1>5, Recursion
  <1>7. ASSUME NEW d \in D
        PROVE  f[d] = IF d[1] > Len(contents) THEN <<>>
                      ELSE IF contents[d[1]] \in LineEnd \/ d[1] = Len(contents)
                      THEN Setting(d[2]) \o f[<<d[1] + 1, <<>>>>]
                      ELSE f[<<d[1] + 1, Kept(d[2], contents[d[1]])>>]
    <2>1. d[1] \in Nat
      OBVIOUS
    <2>2. f[d] = IF d \in Stop THEN base0[d] ELSE step[<<d, f[next[d]]>>]
      BY <1>6 DEF Recurs
    <2>3. CASE d[1] > Len(contents)
      BY <2>2, <2>3
    <2>4. CASE ~(d[1] > Len(contents))
      <3>1. d \notin Stop /\ next[d] \in D
        BY <1>2, <2>4
      <3>2. PICK v \in V : v = f[next[d]]
        BY <1>6, <3>1
      <3>3. step[<<d, v>>] = IF more(d) THEN v ELSE Setting(d[2]) \o v
        OBVIOUS
      <3>4. next[d] = <<d[1] + 1, IF more(d) THEN Kept(d[2], contents[d[1]]) ELSE <<>>>>
        OBVIOUS
      <3>5. more(d) <=> ~(contents[d[1]] \in LineEnd \/ d[1] = Len(contents))
        BY <1>0, <2>1, <2>4 DEF ParseStops
      <3> HIDE DEF more, next, step, Stop, D, V
      <3> QED
        BY <2>2, <2>4, <3>1, <3>2, <3>3, <3>4, <3>5
    <2> QED
      BY <2>3, <2>4
  <1>8. Solves(f)
    <2>1. f \in [D -> V]
      BY <1>6
    <2> HIDE DEF V, D
    <2> QED
      BY <1>7, <2>1
  <1>9. Solves(from)
    <2> HIDE DEF Solves
    <2> QED
      BY <1>8
  <1> HIDE DEF from
  <1>10. ASSUME NEW j \in P, NEW l \in Q
        PROVE  from[<<j, l>>] = IF j > Len(contents) THEN <<>>
                         ELSE IF contents[j] \in LineEnd \/ j = Len(contents)
                         THEN Setting(l) \o from[<<j + 1, <<>>>>]
                         ELSE from[<<j + 1, Kept(l, contents[j])>>]
    <2>1. PICK d \in D : d = <<j, l>> /\ d[1] = j /\ d[2] = l
      <3> DEFINE d == <<j, l>>
      <3>1. d \in D /\ d = <<j, l>> /\ d[1] = j /\ d[2] = l
        OBVIOUS
      <3> QED
        BY <3>1
    <2>2. from[d] = IF d[1] > Len(contents) THEN <<>>
                    ELSE IF contents[d[1]] \in LineEnd \/ d[1] = Len(contents)
                    THEN Setting(d[2]) \o from[<<d[1] + 1, <<>>>>]
                    ELSE from[<<d[1] + 1, Kept(d[2], contents[d[1]])>>]
      <3> HIDE DEF D
      <3> QED
        BY <1>9
    <2> QED
      BY <2>1, <2>2
  <1>11. Parses(contents, from)
    BY <1>10 DEF Parses, ParseStops
  <1> QED
    BY <1>1, <1>11

\* What the parser reads of a line and those behind it is what is said of them.
LEMMA SettingsAre ==
  ASSUME LineMax \in Nat, NEW contents \in Seq(Int)
  PROVE  parse_yanase_config(contents) = Settings(contents)
  <1>1. PICK f : Parses(contents, f) /\ parse_yanase_config(contents) = f[<<1, <<>>>>]
    BY ParseRuns
  <1>2. PICK text : text = IF contents = <<>> \/ Last(contents) \in LineEnd THEN contents ELSE Front(contents)
    OBVIOUS
  <1>3. PICK g : Splits(text, g) /\ LinesOf(text) = g[1] /\ text \in Seq(Int)
    <2>1. text \in Seq(Int)
      BY <1>2 DEF Front
    <2> QED
      BY <2>1, SplitRuns
  <1>4. PICK w \in Nat : w = Len(text)
    BY <1>3
  <1> DEFINE part(k, e) == Upto(SubSeq(text, k, e), LineMax)
  <1>5. /\ Len(contents) \in Nat /\ w <= Len(contents) /\ Len(contents) <= w + 1
        /\ \A j \in 1 .. w : contents[j] = text[j] /\ text[j] \in Int
    <2>1. CASE contents = <<>> \/ Last(contents) \in LineEnd
      BY <1>2, <1>3, <1>4, <2>1
    <2>2. CASE ~(contents = <<>> \/ Last(contents) \in LineEnd)
      <3>1. text = SubSeq(contents, 1, Len(contents) - 1) /\ Len(contents) \in Nat /\ Len(contents) # 0
        BY <1>2, <2>2 DEF Front
      <3> QED
        BY <1>4, <3>1
    <2> QED
      BY <2>1, <2>2
  <1>6. \A j \in 1 .. w : ParseStops(contents, j) <=> text[j] \in LineEnd
    <2> SUFFICES ASSUME NEW j \in 1 .. w PROVE ParseStops(contents, j) <=> text[j] \in LineEnd
      OBVIOUS
    <2>1. CASE contents = <<>> \/ Last(contents) \in LineEnd
      <3>1. text = contents /\ w = Len(contents)
        BY <1>2, <1>4, <2>1
      <3>2. contents # <<>>
        BY <3>1
      <3>3. contents[Len(contents)] \in LineEnd
        BY <2>1, <3>2 DEF Last
      <3> QED
        BY <3>1, <3>3 DEF ParseStops
    <2>2. CASE ~(contents = <<>> \/ Last(contents) \in LineEnd)
      <3>1. w = Len(contents) - 1
        BY <1>2, <1>4, <2>2 DEF Front
      <3>2. j # Len(contents)
        BY <1>4, <1>5, <3>1
      <3> QED
        BY <1>5, <3>2 DEF ParseStops
    <2> QED
      BY <2>1, <2>2
  \* The last line.
  <1>7. ASSUME NEW k, Within(text, k, w + 1)
        PROVE  f[<<w + 1, part(k, w)>>] = Said(g[k])
    <2>1. k \in 1 .. w + 1 /\ \A j \in k .. w : text[j] \notin LineEnd
      <3>1. (w + 1) - 1 = w
        OBVIOUS
      <3> QED
        BY <1>4, <1>7, <3>1 DEF Within
    <2>2. EndOf(text, k) = w + 1
      BY <1>3, <1>4, <1>7, LineGoesOn
    <2>3. PICK l : l = SubSeq(text, k, w)
      OBVIOUS
    <2>4. l \in Seq(Int) /\ part(k, w) \in Seq(Int)
      <3>1. l \in Seq(Int)
        BY <1>3, <1>4, <2>1, <2>3
      <3> QED
        BY <2>3, <3>1, UptoIs
    <2>5. g[k] = <<l>> \o <<>>
      <3>1. g[k] = <<SubSeq(text, k, EndOf(text, k) - 1)>>
                   \o (IF EndOf(text, k) > Len(text) THEN <<>> ELSE g[EndOf(text, k) + 1])
        BY <1>3, <2>1 DEF Splits
      <3>2. (w + 1) - 1 = w /\ EndOf(text, k) > Len(text)
        BY <1>4, <2>2
      <3> QED
        BY <2>2, <2>3, <3>1, <3>2
    <2>6. Said(g[k]) = Setting(part(k, w))
      <3>1. <<>> \in Seq(Seq(Int))
        OBVIOUS
      <3>2. Said(<<l>> \o <<>>) = Setting(Upto(l, LineMax)) \o Said(<<>>) /\ Said(<<>>) = <<>>
        BY <2>4, <3>1, SaidOfLines
      <3>3. Setting(part(k, w)) \in Seq(Sayings)
        BY <2>4, SettingType
      <3>4. Setting(part(k, w)) \o <<>> = Setting(part(k, w))
        BY <3>3
      <3> QED
        BY <2>3, <2>5, <3>2, <3>4
    <2>7. CASE Len(contents) = w
      <3>1. f[<<w + 1, part(k, w)>>] = <<>>
        <4>1. w + 1 \in Nat \ {0} /\ w + 1 > Len(contents)
          BY <2>7
        <4> HIDE DEF part
        <4> QED
          BY <1>1, <2>4, <4>1 DEF Parses
      <3>2. k = w + 1
        <4> SUFFICES ASSUME k <= w PROVE FALSE
          BY <2>1
        <4>1. w \in k .. w /\ w \in 1 .. w /\ w = Len(contents)
          BY <2>1, <2>7
        <4>2. ParseStops(contents, w)
          BY <4>1 DEF ParseStops
        <4> QED
          BY <1>6, <2>1, <4>1, <4>2
      <3>3. part(k, w) = <<>>
        <4>1. SubSeq(text, k, w) = <<>>
          BY <1>3, <1>4, <3>2
        <4>2. Upto(<<>>, LineMax) = SubSeq(<<>>, 1, IF Len(<<>>) <= LineMax THEN Len(<<>>) ELSE LineMax)
          <5>1. <<>> \in Seq(Int)
            OBVIOUS
          <5> QED
            BY <5>1, UptoIs
        <4>3. SubSeq(<<>>, 1, IF Len(<<>>) <= LineMax THEN Len(<<>>) ELSE LineMax) = <<>>
          OBVIOUS
        <4> QED
          BY <4>1, <4>2, <4>3
      <3> QED
        BY <2>6, <3>1, <3>3, NothingSaid
    <2>8. CASE Len(contents) = w + 1
      <3>1. ParseStops(contents, w + 1)
        BY <2>8 DEF ParseStops
      <3>2. f[<<w + 1, part(k, w)>>] = Setting(part(k, w)) \o f[<<(w + 1) + 1, <<>>>>]
        <4>1. w + 1 \in Nat \ {0} /\ ~(w + 1 > Len(contents))
          BY <2>8
        <4> HIDE DEF part
        <4> QED
          BY <1>1, <2>4, <3>1, <4>1 DEF Parses
      <3>3. f[<<(w + 1) + 1, <<>>>>] = <<>>
        <4>1. (w + 1) + 1 \in Nat \ {0} /\ (w + 1) + 1 > Len(contents) /\ <<>> \in Seq(Int)
          BY <2>8
        <4> QED
          BY <1>1, <4>1 DEF Parses
      <3>4. Setting(part(k, w)) \in Seq(Sayings)
        BY <2>4, SettingType
      <3> HIDE DEF part
      <3> QED
        BY <2>6, <3>2, <3>3, <3>4
    <2> QED
      BY <1>5, <2>7, <2>8
  <1> DEFINE T == {c \in Nat : \A k \in Nat, e \in Nat : e + c = w + 1 /\ Within(text, k, e) =>
                                 f[<<e, part(k, e - 1)>>] = Said(g[k])}
  <1>8. ASSUME NEW c \in Nat, \A d \in Nat : d < c => d \in T PROVE c \in T
    <2> SUFFICES ASSUME NEW k \in Nat, NEW e \in Nat, e + c = w + 1, Within(text, k, e)
                 PROVE  f[<<e, part(k, e - 1)>>] = Said(g[k])
      OBVIOUS
    <2>1. CASE c = 0
      <3>1. e = w + 1 /\ e - 1 = w
        BY <2>1
      <3> HIDE DEF part
      <3> QED
        BY <1>7, <3>1
    <2>2. CASE c # 0
      <3>1. k \in 1 .. w /\ e \in k .. w /\ e \in 1 .. w /\ e \in Nat \ {0}
        BY <1>4, <2>2 DEF Within
      <3>2. PICK l : l = SubSeq(text, k, e - 1)
        OBVIOUS
      <3>3. l \in Seq(Int) /\ part(k, e - 1) = Upto(l, LineMax) /\ part(k, e - 1) \in Seq(Int)
        <4>1. e - 1 \in 0 .. Len(text)
          BY <1>4, <3>1
        <4>2. l \in Seq(Int)
          BY <1>3, <3>1, <3>2, <4>1
        <4> QED
          BY <3>2, <4>2, UptoIs
      <3>4. contents[e] = text[e] /\ ~(e > Len(contents))
        BY <1>5, <3>1
      <3>5. CASE text[e] \in LineEnd
        <4>1. f[<<e, part(k, e - 1)>>] = Setting(part(k, e - 1)) \o f[<<e + 1, <<>>>>]
          <5> HIDE DEF part
          <5> QED
            BY <1>1, <1>6, <3>1, <3>3, <3>4, <3>5 DEF Parses
        <4>2. EndOf(text, k) = e
          BY <1>3, <3>5, LineGoesOn
        <4>3. g[k] = <<l>> \o g[e + 1] /\ g[e + 1] \in Seq(Seq(Int))
          <5>1. g[k] = <<SubSeq(text, k, EndOf(text, k) - 1)>>
                   \o (IF EndOf(text, k) > Len(text) THEN <<>> ELSE g[EndOf(text, k) + 1])
            BY <1>3, <3>1 DEF Splits
          <5>2. ~(e > Len(text)) /\ e + 1 \in Nat \ {0}
            BY <1>4, <3>1
          <5>3. g[e + 1] \in Seq(Seq(Int))
            BY <1>3, <5>2 DEF Splits
          <5> QED
            BY <3>2, <4>2, <5>1, <5>2, <5>3
        <4>4. Said(g[k]) = Setting(part(k, e - 1)) \o Said(g[e + 1])
          BY <3>3, <4>3, SaidOfLines
        <4>5. Within(text, e + 1, e + 1) /\ e + 1 \in Nat /\ c - 1 \in Nat /\ c - 1 < c /\ (e + 1) + (c - 1) = w + 1
          BY <1>4, <2>2, <3>1 DEF Within
        <4>6. f[<<e + 1, part(e + 1, (e + 1) - 1)>>] = Said(g[e + 1])
          <5>1. c - 1 \in T
            BY <1>8, <4>5
          <5> HIDE DEF part
          <5> QED
            BY <4>5, <5>1
        <4>7. part(e + 1, (e + 1) - 1) = <<>>
          <5>1. SubSeq(text, e + 1, (e + 1) - 1) = <<>>
            BY <1>3
          <5>2. <<>> \in Seq(Int)
            OBVIOUS
          <5>3. Upto(<<>>, LineMax) = SubSeq(<<>>, 1, IF Len(<<>>) <= LineMax THEN Len(<<>>) ELSE LineMax)
            BY <5>2, UptoIs
          <5>4. SubSeq(<<>>, 1, IF Len(<<>>) <= LineMax THEN Len(<<>>) ELSE LineMax) = <<>>
            OBVIOUS
          <5> QED
            BY <5>1, <5>3, <5>4
        <4> HIDE DEF part
        <4> QED
          BY <4>1, <4>4, <4>6, <4>7
      <3>6. CASE text[e] \notin LineEnd
        <4>1. f[<<e, part(k, e - 1)>>] = f[<<e + 1, Kept(part(k, e - 1), text[e])>>]
          <5> HIDE DEF part
          <5> QED
            BY <1>1, <1>6, <3>1, <3>3, <3>4, <3>6 DEF Parses
        <4>2. Kept(part(k, e - 1), text[e]) = part(k, e)
          BY <1>3, <1>4, <3>1, KeptMore
        <4>3. Within(text, k, e + 1)
          <5>1. text \in Seq(Int) /\ e <= Len(text) /\ Within(text, k, e)
            BY <1>3, <1>4, <3>1
          <5> HIDE DEF part, T
          <5> QED
            BY <3>6, <5>1, LineGoesOn
        <4>4. e + 1 \in Nat /\ c - 1 \in Nat /\ c - 1 < c /\ (e + 1) + (c - 1) = w + 1 /\ (e + 1) - 1 = e
          BY <2>2
        <4>5. c - 1 \in T
          BY <1>8, <4>4
        <4> HIDE DEF part
        <4>6. f[<<e + 1, part(k, (e + 1) - 1)>>] = Said(g[k])
          BY <4>3, <4>4, <4>5
        <4> QED
          BY <4>1, <4>2, <4>4, <4>6
      <3> QED
        BY <3>5, <3>6
    <2> QED
      BY <2>1, <2>2
  <1>9. w \in T
    <2> HIDE DEF T
    <2>1. Nat \subseteq T
      BY <1>8, ByLesser
    <2> QED
      BY <2>1
  <1>10. f[<<1, part(1, 1 - 1)>>] = Said(g[1])
    <2>1. Within(text, 1, 1) /\ 1 + w = w + 1
      BY <1>4 DEF Within
    <2> HIDE DEF part
    <2> QED
      BY <1>9, <2>1
  <1>11. part(1, 1 - 1) = <<>>
    <2>1. SubSeq(text, 1, 1 - 1) = <<>>
      BY <1>3
    <2>2. <<>> \in Seq(Int)
      OBVIOUS
    <2>3. Upto(<<>>, LineMax) = SubSeq(<<>>, 1, IF Len(<<>>) <= LineMax THEN Len(<<>>) ELSE LineMax)
      BY <2>2, UptoIs
    <2>4. SubSeq(<<>>, 1, IF Len(<<>>) <= LineMax THEN Len(<<>>) ELSE LineMax) = <<>>
      OBVIOUS
    <2> QED
      BY <2>1, <2>3, <2>4
  <1>12. Settings(contents) = Said(LinesOf(text))
    BY <1>2 DEF Settings, Said
  <1> QED
    BY <1>1, <1>3, <1>10, <1>11, <1>12


-----------------------------------------------------------------------------
(* What the archive's walk reads *)

Headers == [signature : Nat, compression : Nat, compressed_size : Nat, uncompressed_size : Nat,
            name : Seq(Nat), data_off : Nat]

\* What is read of an archive are numbers.
LEMMA SliceType ==
  ASSUME NEW jar \in Seq(Nat), NEW o \in Nat, NEW k \in Nat
  PROVE  Slice(jar, o, k) \in Seq(Nat)
  <1>1. NUL \in Nat
    BY JarAssumption
  <1>2. \A e \in 1 .. k : (IF o + e <= Len(jar) THEN jar[o + e] ELSE NUL) \in Nat
    BY <1>1
  <1> QED
    BY <1>2 DEF Slice

\* A header is read where it fits.
LEMMA HeaderType ==
  ASSUME NEW jar \in Seq(Nat), NEW o \in Nat, o + HeaderUnits < Len(jar)
  PROVE  /\ LocalHeader(jar, o) \in Headers
         /\ LocalHeader(jar, o).data_off + LocalHeader(jar, o).compressed_size \in Nat
         /\ LocalHeader(jar, o).data_off + LocalHeader(jar, o).compressed_size > o
  <1> DEFINE h == LocalHeader(jar, o)
  <1>1. PICK w \in Nat : w = Len(jar)
    OBVIOUS
  <1>2. o + 6 < w
    BY <1>1 DEF HeaderUnits
  <1>3. \A k \in 1 .. 6 : jar[o + k] \in Nat
    BY <1>1, <1>2
  <1>4. /\ jar[o + 1] \in Nat /\ jar[o + 2] \in Nat /\ jar[o + 3] \in Nat /\ jar[o + 4] \in Nat
        /\ jar[o + 5] \in Nat /\ jar[o + 6] \in Nat
    BY <1>3
  <1>5. PICK l \in Nat, x \in Nat, z \in Nat : l = jar[o + 5] /\ x = jar[o + 6] /\ z = jar[o + 3]
    BY <1>4
  <1>6. Slice(jar, o + HeaderUnits, l) \in Seq(Nat)
    BY SliceType DEF HeaderUnits
  <1>7. h = [signature |-> jar[o + 1], compression |-> jar[o + 2], compressed_size |-> jar[o + 3],
             uncompressed_size |-> jar[o + 4], name |-> Slice(jar, o + HeaderUnits, l),
             data_off |-> o + HeaderUnits + l + x]
    BY <1>5 DEF LocalHeader
  <1>8. o + HeaderUnits + l + x \in Nat /\ (o + HeaderUnits + l + x) + z > o
    BY DEF HeaderUnits
  <1>9. h \in Headers
    BY <1>4, <1>6, <1>7, <1>8 DEF Headers
  <1>10. h.data_off + h.compressed_size = (o + HeaderUnits + l + x) + z
    BY <1>5, <1>7
  <1> HIDE DEF h
  <1>11. (o + HeaderUnits + l + x) + z \in Nat
    BY <1>8
  <1> QED
    BY <1>8, <1>9, <1>10, <1>11 DEF h

\* Where the walk stops, and where it goes on.
JarStops(jar) == {o \in Nat : o + HeaderUnits >= Len(jar) \/ jar[o + 1] # LocalSig}
JarBehind(jar, o) == LocalHeader(jar, o).data_off + LocalHeader(jar, o).compressed_size

WalksJar(jar, f) ==
    \A o \in Nat :
        /\ f[o] \in Seq(Headers)
        /\ o \in JarStops(jar) => f[o] = <<>>
        /\ o \notin JarStops(jar) => f[o] = <<LocalHeader(jar, o)>> \o f[JarBehind(jar, o)]

\* Where the walk does not stop it reads a header, and goes on further behind.
LEMMA JarGoesOn ==
  ASSUME NEW jar \in Seq(Nat), NEW o \in Nat, o \notin JarStops(jar)
  PROVE  /\ o + HeaderUnits < Len(jar) /\ jar[o + 1] = LocalSig
         /\ LocalHeader(jar, o) \in Headers /\ JarBehind(jar, o) \in Nat /\ JarBehind(jar, o) > o
  <1>1. o + HeaderUnits < Len(jar) /\ jar[o + 1] = LocalSig
    <2>1. PICK w \in Nat : w = Len(jar)
      OBVIOUS
    <2>2. ~(o + HeaderUnits >= w \/ jar[o + 1] # LocalSig)
      BY <2>1 DEF JarStops
    <2> QED
      BY <2>1, <2>2 DEF HeaderUnits
  <1> QED
    BY <1>1, HeaderType DEF JarBehind

\* The entries are found by such a walk.
LEMMA EntriesRun ==
  ASSUME NEW jar \in Seq(Nat)
  PROVE  \E f : WalksJar(jar, f) /\ Entries(jar) = f[0]
  <1> DEFINE D == Nat
             V == Seq(Headers)
             over(o) == o + HeaderUnits >= Len(jar) \/ jar[o + 1] # LocalSig
             Stop == JarStops(jar)
             rank == [o \in D |-> IF o > Len(jar) THEN 0 ELSE Len(jar) + 1 - o]
             next == [o \in D |-> IF o \in Stop THEN o ELSE JarBehind(jar, o)]
             none == [o \in D |-> <<>>]
             step == [p \in D \X V |-> IF p[1] \in Stop THEN <<>> ELSE <<LocalHeader(jar, p[1])>> \o p[2]]
             Solves(g) == g = [offset \in D |->
                IF offset + HeaderUnits >= Len(jar) \/ jar[offset + 1] # LocalSig THEN <<>>
                ELSE LET h == LocalHeader(jar, offset) IN <<h>> \o g[h.data_off + h.compressed_size]]
             from == CHOOSE g : Solves(g)
  <1>1. Entries(jar) = from[0]
    BY DEF Entries
  <1>2. \A o \in D : o \notin Stop => JarBehind(jar, o) \in D /\ JarBehind(jar, o) > o /\ o < Len(jar)
    <2> SUFFICES ASSUME NEW o \in D, o \notin Stop
                 PROVE  JarBehind(jar, o) \in D /\ JarBehind(jar, o) > o /\ o < Len(jar)
      OBVIOUS
    <2>1. PICK w \in Nat : w = Len(jar)
      OBVIOUS
    <2>2. o + HeaderUnits < w /\ JarBehind(jar, o) \in D /\ JarBehind(jar, o) > o
      BY <2>1, JarGoesOn
    <2> QED
      BY <2>1, <2>2 DEF HeaderUnits
  <1>3. /\ rank \in [D -> Nat] /\ next \in [D -> D] /\ Descends(D, rank, Stop, next)
    <2>1. PICK w \in Nat : w = Len(jar)
      OBVIOUS
    <2>2. next \in [D -> D]
      BY <1>2
    <2>3. ASSUME NEW a \in D, a \notin Stop PROVE rank[next[a]] < rank[a]
      <3>1. PICK b \in D : b = JarBehind(jar, a)
        BY <1>2, <2>3
      <3>2. next[a] = b /\ b > a /\ a < w
        BY <1>2, <2>1, <2>3, <3>1
      <3>3. rank[a] = w + 1 - a /\ rank[b] = IF b > w THEN 0 ELSE w + 1 - b
        BY <2>1, <3>2
      <3> HIDE DEF next, Stop, rank
      <3> QED
        BY <3>2, <3>3
    <2>4. rank \in [D -> Nat]
      BY <2>1
    <2> HIDE DEF rank, next, Stop
    <2> QED
      BY <2>2, <2>3, <2>4 DEF Descends
  <1>4. none \in [D -> V]
    OBVIOUS
  <1>5. step \in [D \X V -> V]
    <2> SUFFICES ASSUME NEW o \in D, NEW t \in V, o \notin Stop
                 PROVE  <<LocalHeader(jar, o)>> \o t \in V
      OBVIOUS
    <2>1. LocalHeader(jar, o) \in Headers
      BY JarGoesOn
    <2> QED
      BY <2>1
  <1>6. PICK f \in [D -> V] : Recurs(D, Stop, next, none, step, f)
    <2> HIDE DEF D, V, Stop, rank, next, none, step, Solves, from
    <2> QED
      BY <1>3, <1>4, <1>5, Recursion
  <1>7. ASSUME NEW o \in D
        PROVE  /\ f[o] \in V
               /\ o \in Stop => f[o] = <<>>
               /\ o \notin Stop => f[o] = <<LocalHeader(jar, o)>> \o f[JarBehind(jar, o)]
    <2>1. f[o] = IF o \in Stop THEN none[o] ELSE step[<<o, f[next[o]]>>]
      BY <1>6 DEF Recurs
    <2>2. none[o] = <<>>
      OBVIOUS
    <2>3. ASSUME o \notin Stop PROVE step[<<o, f[next[o]]>>] = <<LocalHeader(jar, o)>> \o f[JarBehind(jar, o)]
      <3>1. next[o] = JarBehind(jar, o) /\ JarBehind(jar, o) \in D
        BY <1>2, <2>3
      <3>2. <<o, f[JarBehind(jar, o)]>> \in D \X V
        BY <1>6, <3>1
      <3> HIDE DEF next, Stop
      <3> QED
        BY <2>3, <3>1, <3>2
    <2>4. f[o] \in V
      BY <1>6
    <2> HIDE DEF Stop, none, next, step
    <2> QED
      BY <2>1, <2>2, <2>3, <2>4
  <1>8. Solves(f)
    <2>1. f = [o \in D |-> f[o]]
      BY <1>6
    <2>2. \A o \in D : f[o] = IF o + HeaderUnits >= Len(jar) \/ jar[o + 1] # LocalSig THEN <<>>
                              ELSE LET h == LocalHeader(jar, o) IN <<h>> \o f[h.data_off + h.compressed_size]
      BY <1>7 DEF JarStops, JarBehind
    <2> HIDE DEF Stop
    <2> QED
      BY <2>1, <2>2
  <1>9. Solves(from)
    <2> HIDE DEF Solves
    <2> QED
      BY <1>8
  <1>10. from = f
    <2>1. \A o \in D : from[o] = f[o]
      <3> DEFINE T == {o \in D : from[o] = f[o]}
      <3>1. ASSUME NEW d \in D, \A e \in D : rank[e] < rank[d] => e \in T PROVE d \in T
        <4>1. from[d] = IF over(d) THEN <<>> ELSE <<LocalHeader(jar, d)>> \o from[JarBehind(jar, d)]
          BY <1>9 DEF JarBehind
        <4>2. over(d) <=> d \in Stop
          BY DEF JarStops
        <4>3. CASE d \in Stop
          <5> HIDE DEF over, Stop, Solves, from
          <5> QED
            BY <1>7, <4>1, <4>2, <4>3
        <4>4. CASE d \notin Stop
          <5>1. next[d] = JarBehind(jar, d) /\ JarBehind(jar, d) \in D
            BY <1>2, <4>4
          <5>2. rank[next[d]] < rank[d]
            BY <1>3, <4>4 DEF Descends
          <5>3. from[JarBehind(jar, d)] = f[JarBehind(jar, d)]
            <6> HIDE DEF rank, next
            <6> QED
              BY <3>1, <5>1, <5>2
          <5> HIDE DEF over, Stop, Solves, from, rank, next
          <5> QED
            BY <1>7, <4>1, <4>2, <4>4, <5>3
        <4> HIDE DEF Stop
        <4> QED
          BY <4>3, <4>4
      <3> HIDE DEF T, rank, D
      <3>2. D \subseteq T
        BY <1>3, <3>1, ByRank
      <3> QED
        BY <3>2 DEF T
    <2>2. from = [o \in D |-> from[o]]
      BY <1>9
    <2>3. f = [o \in D |-> f[o]]
      BY <1>6
    <2> HIDE DEF from, D
    <2> QED
      BY <2>1, <2>2, <2>3
  <1>11. WalksJar(jar, f)
    BY <1>7 DEF WalksJar
  <1> HIDE DEF from
  <1> QED
    BY <1>1, <1>10, <1>11

-----------------------------------------------------------------------------
(* Where the entries of an archive lie *)

Packings == {"stored", "deflated", "streamed"}
JarEntries == [name : Seq(Nat), packing : Packings, extra : Nat, file : Seq(Nat)]

Payload(e) == IF e.packing = "deflated" THEN Deflated(e.file) ELSE e.file
SizesBehind(e) == IF e.packing = "streamed" THEN <<Len(Payload(e)), Len(e.file)>> ELSE <<>>
Told(e, k) == IF e.packing = "streamed" THEN 0 ELSE k
DataAt(e, o) == o + HeaderUnits + Len(e.name) + e.extra

JarHeader(e, o) ==
    [signature |-> LocalSig, compression |-> IF e.packing = "deflated" THEN 8 ELSE 0,
     compressed_size |-> Told(e, Len(Payload(e))), uncompressed_size |-> Told(e, Len(e.file)),
     name |-> e.name, data_off |-> DataAt(e, o)]

\* What is read where a sequence lies is that.
LEMMA SliceLies ==
  ASSUME NEW jar \in Seq(Nat), NEW t \in Seq(Nat), NEW o \in Nat, Lies(t, jar, o)
  PROVE  Slice(jar, o, Len(t)) = t
  <1>1. \A j \in 1 .. Len(t) : o + j <= Len(jar) /\ jar[o + j] = t[j]
    BY DEF Lies
  <1>2. Slice(jar, o, Len(t)) = [j \in 1 .. Len(t) |-> t[j]]
    BY <1>1 DEF Slice
  <1> QED
    BY <1>2

\* The parts of an entry and their lengths are numbers and sequences of numbers.
LEMMA JarEntryType ==
  ASSUME NEW e \in JarEntries
  PROVE  /\ e.name \in Seq(Nat) /\ Len(e.name) \in Nat /\ e.extra \in Nat /\ e.file \in Seq(Nat)
         /\ Len(e.file) \in Nat /\ e.packing \in Packings
         /\ Payload(e) \in Seq(Nat) /\ Len(Payload(e)) \in Nat /\ SizesBehind(e) \in Seq(Nat)
         /\ Told(e, Len(Payload(e))) \in Nat /\ Told(e, Len(e.file)) \in Nat
         /\ Len(SizesBehind(e)) = IF e.packing = "streamed" THEN 2 ELSE 0
  <1>1. /\ e.name \in Seq(Nat) /\ Len(e.name) \in Nat /\ e.extra \in Nat /\ e.file \in Seq(Nat)
        /\ Len(e.file) \in Nat /\ e.packing \in Packings
    BY DEF JarEntries
  <1>2. Payload(e) \in Seq(Nat) /\ Len(Payload(e)) \in Nat
    <2>1. NUL \in Nat
      BY JarAssumption
    <2>2. PICK k \in Nat : k = (Len(e.file) + 1) \div 2
      <3>1. PICK l \in Nat : l = Len(e.file)
        BY <1>1
      <3>2. l + 1 \in Nat /\ 2 \in Nat \ {0}
        OBVIOUS
      <3>3. (l + 1) \div 2 \in Nat
        BY <3>2, DivideNat
      <3> QED
        BY <3>1, <3>3
    <2>3. Deflated(e.file) \in Seq(Nat)
      BY <2>1, <2>2, Noughts DEF Deflated
    <2>4. Payload(e) \in Seq(Nat)
      BY <1>1, <2>3 DEF Payload
    <2> QED
      BY <2>4
  <1>3. SizesBehind(e) \in Seq(Nat) /\ Len(SizesBehind(e)) = IF e.packing = "streamed" THEN 2 ELSE 0
    <2>1. <<Len(Payload(e)), Len(e.file)>> \in Seq(Nat) /\ Len(<<Len(Payload(e)), Len(e.file)>>) = 2
      BY <1>1, <1>2, Two
    <2> QED
      BY <2>1 DEF SizesBehind
  <1> QED
    BY <1>1, <1>2, <1>3 DEF Told

\* The six numbers of a header.
LEMMA Six ==
  ASSUME NEW u1 \in Nat, NEW u2 \in Nat, NEW u3 \in Nat, NEW u4 \in Nat, NEW u5 \in Nat, NEW u6 \in Nat,
         NEW h, h = <<u1, u2, u3, u4, u5, u6>>
  PROVE  h \in Seq(Nat) /\ Len(h) = 6 /\ h[1] = u1 /\ h[2] = u2 /\ h[3] = u3 /\ h[4] = u4 /\ h[5] = u5 /\ h[6] = u6
  OBVIOUS

\* An entry's part of the archive is made of these.
LEMMA JarEntryIs ==
  ASSUME NEW e \in JarEntries
  PROVE  \E h \in Seq(Nat), x \in Seq(Nat) :
            /\ Len(h) = 6 /\ h[1] = LocalSig /\ h[2] = (IF e.packing = "deflated" THEN 8 ELSE 0)
            /\ h[3] = Told(e, Len(Payload(e))) /\ h[4] = Told(e, Len(e.file))
            /\ h[5] = Len(e.name) /\ h[6] = e.extra /\ Len(x) = e.extra
            /\ EncodeJarEntry(e) = (((h \o e.name) \o x) \o Payload(e)) \o SizesBehind(e)
  <1> DEFINE h == <<LocalSig, IF e.packing = "deflated" THEN 8 ELSE 0, Told(e, Len(Payload(e))),
                    Told(e, Len(e.file)), Len(e.name), e.extra>>
             x == [k \in 1 .. e.extra |-> NUL]
  <1>1. LocalSig \in Nat /\ NUL \in Nat /\ (IF e.packing = "deflated" THEN 8 ELSE 0) \in Nat
    BY JarAssumption
  <1>2. /\ Len(e.name) \in Nat /\ e.extra \in Nat /\ Told(e, Len(Payload(e))) \in Nat /\ Told(e, Len(e.file)) \in Nat
    BY JarEntryType
  <1>3. x \in Seq(Nat) /\ Len(x) = e.extra
    BY <1>1, <1>2, Noughts
  <1>4. EncodeJarEntry(e) = (((h \o e.name) \o x) \o Payload(e)) \o SizesBehind(e)
    BY DEF EncodeJarEntry, Payload, SizesBehind, Told
  <1> HIDE DEF x
  <1>5. PICK g : g = h
    OBVIOUS
  <1>6. /\ g \in Seq(Nat) /\ Len(g) = 6 /\ g[1] = LocalSig /\ g[2] = (IF e.packing = "deflated" THEN 8 ELSE 0)
        /\ g[3] = Told(e, Len(Payload(e))) /\ g[4] = Told(e, Len(e.file)) /\ g[5] = Len(e.name) /\ g[6] = e.extra
    BY <1>1, <1>2, <1>5, Six
  <1> HIDE DEF h
  <1> QED
    BY <1>3, <1>4, <1>5, <1>6

\* The length of two sequences one behind the other.
LEMMA ConcatLength ==
  ASSUME NEW t \in Seq(Nat), NEW u \in Seq(Nat)
  PROVE  t \o u \in Seq(Nat) /\ Len(t \o u) = Len(t) + Len(u)
  OBVIOUS

\* Five sequences one behind the other.
Five(h, m, x, y, z) == (((h \o m) \o x) \o y) \o z

FiveThere(h, m, x, y, z, t, o) ==
    /\ Lies(h, t, o) /\ Lies(m, t, o + Len(h)) /\ Lies(y, t, o + (Len(h) + Len(m) + Len(x)))
    /\ Lies(z, t, o + (Len(h) + Len(m) + Len(x) + Len(y)))
    /\ Five(h, m, x, y, z) \in Seq(Nat)
    /\ Len(Five(h, m, x, y, z)) = Len(h) + Len(m) + Len(x) + Len(y) + Len(z)

\* Each lies in its place.
LEMMA FiveLie ==
  ASSUME NEW h \in Seq(Nat), NEW m \in Seq(Nat), NEW x \in Seq(Nat), NEW y \in Seq(Nat), NEW z \in Seq(Nat),
         NEW t \in Seq(Nat), NEW o \in Nat, Lies(Five(h, m, x, y, z), t, o)
  PROVE  FiveThere(h, m, x, y, z, t, o)
  <1> DEFINE u == Five(h, m, x, y, z)
  <1>1. PICK a \in Seq(Nat) : a = h \o m /\ Len(a) = Len(h) + Len(m)
    BY ConcatLength
  <1>2. PICK b \in Seq(Nat) : b = a \o x /\ Len(b) = Len(a) + Len(x)
    BY ConcatLength
  <1>3. PICK c \in Seq(Nat) : c = b \o y /\ Len(c) = Len(b) + Len(y)
    BY ConcatLength
  <1>4. PICK d \in Seq(Nat) : d = c \o z /\ Len(d) = Len(c) + Len(z)
    BY ConcatLength
  <1>5. d = u
    BY <1>1, <1>2, <1>3, <1>4, Zenon DEF Five
  <1>6. Lies(c, t, o) /\ Lies(z, t, o + Len(c))
    BY <1>4, <1>5, LieBehind
  <1>7. Lies(b, t, o) /\ Lies(y, t, o + Len(b))
    BY <1>3, <1>6, LieBehind
  <1>8. Lies(a, t, o)
    BY <1>2, <1>7, LieBehind
  <1>9. Lies(h, t, o) /\ Lies(m, t, o + Len(h))
    BY <1>1, <1>8, LieBehind
  <1>10. Len(b) = Len(h) + Len(m) + Len(x) /\ Len(c) = Len(h) + Len(m) + Len(x) + Len(y)
         /\ Len(d) = Len(h) + Len(m) + Len(x) + Len(y) + Len(z)
    BY <1>1, <1>2, <1>3, <1>4
  <1> HIDE DEF u
  <1>11. /\ u \in Seq(Nat) /\ Len(u) = Len(h) + Len(m) + Len(x) + Len(y) + Len(z)
    BY <1>4, <1>5, <1>10
  <1> QED
    BY <1>6, <1>7, <1>9, <1>10, <1>11 DEF FiveThere, u

\* An entry lies in an archive.
EntryThere(e, jar, o) ==
    /\ o + HeaderUnits <= Len(jar) /\ LocalHeader(jar, o) = JarHeader(e, o) /\ jar[o + 1] = LocalSig
    /\ DataAt(e, o) \in Nat
    /\ Lies(Payload(e), jar, DataAt(e, o))
    /\ Lies(SizesBehind(e), jar, DataAt(e, o) + Len(Payload(e)))
    /\ Len(EncodeJarEntry(e)) = HeaderUnits + Len(e.name) + e.extra + Len(Payload(e)) + Len(SizesBehind(e))

\* Where an entry lies in a file, its header, its name and its data lie at their places.
LEMMA JarEntryLies ==
  ASSUME NEW e \in JarEntries, NEW jar \in Seq(Nat), NEW o \in Nat, Lies(EncodeJarEntry(e), jar, o)
  PROVE  EntryThere(e, jar, o) /\ EncodeJarEntry(e) \in Seq(Nat)
  <1>1. PICK h \in Seq(Nat), x \in Seq(Nat) :
            /\ Len(h) = 6 /\ h[1] = LocalSig /\ h[2] = (IF e.packing = "deflated" THEN 8 ELSE 0)
            /\ h[3] = Told(e, Len(Payload(e))) /\ h[4] = Told(e, Len(e.file))
            /\ h[5] = Len(e.name) /\ h[6] = e.extra /\ Len(x) = e.extra
            /\ EncodeJarEntry(e) = (((h \o e.name) \o x) \o Payload(e)) \o SizesBehind(e)
    BY JarEntryIs
  <1>2. PICK m \in Seq(Nat), y \in Seq(Nat), z \in Seq(Nat) : m = e.name /\ y = Payload(e) /\ z = SizesBehind(e)
    BY JarEntryType
  <1>3. PICK l \in Nat, r \in Nat, p \in Nat, q \in Nat : l = Len(m) /\ r = Len(x) /\ p = Len(y) /\ q = Len(z) /\ r = e.extra
    BY <1>1
  <1>4. PICK t : t = EncodeJarEntry(e) /\ t = Five(h, m, x, y, z)
    BY <1>1, <1>2, Zenon DEF Five
  <1>5. /\ Lies(h, jar, o) /\ Lies(m, jar, o + Len(h)) /\ Lies(y, jar, o + (Len(h) + Len(m) + Len(x)))
        /\ Lies(z, jar, o + (Len(h) + Len(m) + Len(x) + Len(y)))
        /\ t \in Seq(Nat) /\ Len(t) = Len(h) + Len(m) + Len(x) + Len(y) + Len(z)
    <2>1. Lies(Five(h, m, x, y, z), jar, o)
      BY <1>4
    <2>2. FiveThere(h, m, x, y, z, jar, o)
      BY <2>1, FiveLie
    <2> QED
      BY <1>4, <2>2, Zenon DEF FiveThere
  <1>6. PICK g \in Nat : g = DataAt(e, o) /\ g = o + 6 + l + r
    <2>1. DataAt(e, o) = o + 6 + Len(m) + e.extra
      BY <1>2 DEF DataAt, HeaderUnits
    <2>2. o + 6 + l + r \in Nat
      OBVIOUS
    <2> QED
      BY <1>3, <2>1, <2>2
  <1>7. /\ Lies(m, jar, o + 6) /\ Lies(y, jar, g) /\ Lies(z, jar, g + p)
        /\ Len(t) = 6 + l + r + p + q
    <2>1. Len(h) = 6 /\ Len(m) = l /\ Len(x) = r /\ Len(y) = p /\ Len(z) = q
      BY <1>1, <1>3
    <2>2. o + (6 + l + r) = g /\ o + (6 + l + r + p) = g + p
      BY <1>6
    <2> QED
      BY <1>5, <2>1, <2>2
  <1>13. \A j \in 1 .. 6 : o + j \in 1 .. Len(jar) /\ jar[o + j] = h[j]
    BY <1>1, <1>5 DEF Lies
  <1>14. /\ o + 6 <= Len(jar) /\ jar[o + 1] = h[1] /\ jar[o + 2] = h[2] /\ jar[o + 3] = h[3] /\ jar[o + 4] = h[4]
         /\ jar[o + 5] = h[5] /\ jar[o + 6] = h[6]
    BY <1>13
  <1>15. Slice(jar, o + HeaderUnits, l) = m
    <2>1. o + 6 \in Nat /\ Lies(m, jar, o + 6)
      BY <1>7
    <2> QED
      BY <1>3, <2>1, SliceLies DEF HeaderUnits
  <1>16. LocalHeader(jar, o) = JarHeader(e, o)
    BY <1>1, <1>2, <1>3, <1>14, <1>15 DEF LocalHeader, JarHeader, DataAt
  <1>17. Len(EncodeJarEntry(e)) = HeaderUnits + Len(e.name) + e.extra + Len(Payload(e)) + Len(SizesBehind(e))
    BY <1>2, <1>3, <1>4, <1>7 DEF HeaderUnits
  <1>18. EncodeJarEntry(e) \in Seq(Nat)
    BY <1>4, <1>5
  <1>19. Lies(Payload(e), jar, DataAt(e, o)) /\ Lies(SizesBehind(e), jar, DataAt(e, o) + Len(Payload(e)))
    BY <1>2, <1>3, <1>6, <1>7
  <1> QED
    BY <1>1, <1>6, <1>14, <1>16, <1>17, <1>18, <1>19 DEF EntryThere, HeaderUnits

\* Without asking where.
LEMMA JarEntryCoded ==
  ASSUME NEW e \in JarEntries
  PROVE  EncodeJarEntry(e) \in Seq(Nat)
  <1>1. PICK h \in Seq(Nat), x \in Seq(Nat) :
            EncodeJarEntry(e) = (((h \o e.name) \o x) \o Payload(e)) \o SizesBehind(e)
    BY JarEntryIs
  <1>2. PICK m \in Seq(Nat), y \in Seq(Nat), z \in Seq(Nat) : m = e.name /\ y = Payload(e) /\ z = SizesBehind(e)
    BY JarEntryType
  <1>3. h \o m \in Seq(Nat)
    OBVIOUS
  <1>4. (h \o m) \o x \in Seq(Nat)
    BY <1>3
  <1>5. ((h \o m) \o x) \o y \in Seq(Nat)
    BY <1>4
  <1>6. (((h \o m) \o x) \o y) \o z \in Seq(Nat)
    BY <1>5
  <1> QED
    BY <1>1, <1>2, <1>6

JarParts(es) == [k \in DOMAIN es |-> EncodeJarEntry(es[k])]
JarEnd == [k \in 1 .. HeaderUnits + 1 |-> CentralSig]
JarAt(es, k) == Start(JarParts(es), k)

\* Where an entry lies, and where the next.
JarLaid(es, jar, k) ==
    /\ JarAt(es, k) \in Nat /\ JarAt(es, k + 1) \in Nat
    /\ EntryThere(es[k], jar, JarAt(es, k))
    /\ JarAt(es, k + 1) = DataAt(es[k], JarAt(es, k)) + Len(Payload(es[k])) + Len(SizesBehind(es[k]))
    /\ JarAt(es, k + 1) + HeaderUnits < Len(jar)

\* An archive is the encoded entries one after the other, and what ends it.
LEMMA JarPartsAre ==
  ASSUME NEW es \in Seq(JarEntries)
  PROVE  /\ JarParts(es) \in Seq(Seq(Nat)) /\ Len(JarParts(es)) = Len(es) /\ Len(es) \in Nat
         /\ \A k \in 1 .. Len(es) : JarParts(es)[k] = EncodeJarEntry(es[k]) /\ es[k] \in JarEntries
         /\ JarEnd \in Seq(Nat) /\ Len(JarEnd) = 7 /\ JarEnd[1] = CentralSig
  <1>1. DOMAIN es = 1 .. Len(es) /\ Len(es) \in Nat /\ \A k \in 1 .. Len(es) : es[k] \in JarEntries
    OBVIOUS
  <1>2. \A k \in 1 .. Len(es) : EncodeJarEntry(es[k]) \in Seq(Nat)
    BY <1>1, JarEntryCoded
  <1>3. JarParts(es) = [k \in 1 .. Len(es) |-> EncodeJarEntry(es[k])]
    BY <1>1 DEF JarParts
  <1>4. /\ JarParts(es) \in Seq(Seq(Nat)) /\ Len(JarParts(es)) = Len(es)
        /\ \A k \in 1 .. Len(es) : JarParts(es)[k] = EncodeJarEntry(es[k])
    BY <1>1, <1>2, <1>3, ByElements
  <1>5. JarEnd \in Seq(Nat) /\ Len(JarEnd) = 7 /\ JarEnd[1] = CentralSig
    <2>1. CentralSig \in Nat
      BY JarAssumption
    <2>2. JarEnd = [k \in 1 .. 7 |-> CentralSig]
      BY DEF JarEnd, HeaderUnits
    <2> QED
      BY <2>1, <2>2
  <1> QED
    BY <1>1, <1>4, <1>5

\* Each entry of an archive lies where the lengths of those in front of it put it,
\* and behind the last one lies what is no local header.
LEMMA JarIsLaid ==
  ASSUME NEW es \in Seq(JarEntries)
  PROVE  /\ EncodeJar(es) \in Seq(Nat) /\ JarAt(es, 1) = 0 /\ JarAt(es, Len(es) + 1) \in Nat
         /\ Len(EncodeJar(es)) = JarAt(es, Len(es) + 1) + 7
         /\ EncodeJar(es)[JarAt(es, Len(es) + 1) + 1] = CentralSig
         /\ \A k \in 1 .. Len(es) : JarLaid(es, EncodeJar(es), k)
  <1>1. PICK q \in Seq(Seq(Nat)), N \in Nat :
           /\ q = JarParts(es) /\ Len(q) = N /\ N = Len(es)
           /\ \A k \in 1 .. N : q[k] = EncodeJarEntry(es[k]) /\ es[k] \in JarEntries
    BY JarPartsAre
  <1>2. PICK jar, v, w : jar = EncodeJar(es) /\ v = FlattenSeq(q) /\ w = JarEnd
    OBVIOUS
  <1>3. v \in Seq(Nat) /\ w \in Seq(Nat) /\ Len(w) = 7 /\ w[1] = CentralSig
    BY <1>2, JarPartsAre, FlattenType
  <1>4. jar = v \o w
    BY <1>1, <1>2 DEF EncodeJar, JarParts, JarEnd
  <1>5. jar \in Seq(Nat) /\ Len(jar) = Len(v) + 7 /\ Len(v) \in Nat
    <2>1. v \in Seq(Nat) /\ w \in Seq(Nat)
      BY <1>3
    <2>2. jar \in Seq(Nat) /\ Len(jar) = Len(v) + Len(w)
      BY <1>4, <2>1, ConcatLength
    <2>3. Len(v) \in Nat
      BY <2>1
    <2> QED
      BY <1>3, <2>2, <2>3
  <1>6. Lies(v, jar, 0) /\ Lies(w, jar, Len(v))
    <2>1. Lies(jar, jar, 0)
      BY <1>5, LiesWhole
    <2> QED
      BY <1>3, <1>4, <1>5, <2>1, LieFirst
  <1>7. JarAt(es, 1) = 0 /\ JarAt(es, N + 1) = Len(v)
    BY <1>1, <1>2, Starts DEF JarAt
  <1>8. jar[Len(v) + 1] = CentralSig
    <2>1. 1 \in 1 .. Len(w)
      BY <1>3
    <2> QED
      BY <1>3, <1>6, <2>1 DEF Lies
  <1>9. ASSUME NEW k \in 1 .. N PROVE JarLaid(es, jar, k)
    <2>1. k \in 1 .. Len(q) /\ k \in 1 .. Len(q) + 1 /\ k + 1 \in 1 .. Len(q) + 1
      BY <1>1
    <2>2. PICK a \in Nat, b \in Nat : a = Start(q, k) /\ b = Start(q, k + 1) /\ b = a + Len(q[k]) /\ b <= Len(v)
      <3>1. Start(q, k) \in Nat /\ Start(q, k + 1) \in Nat /\ Start(q, k + 1) = Start(q, k) + Len(q[k])
        BY <2>1, Starts
      <3>2. Start(q, k + 1) <= Len(v)
        BY <1>2, <2>1, StartsInside
      <3> QED
        BY <3>1, <3>2
    <2>3. Lies(q[k], jar, 0 + Start(q, k))
      <3>1. 0 \in Nat /\ Lies(FlattenSeq(q), jar, 0)
        BY <1>2, <1>6
      <3> QED
        BY <1>5, <2>1, <3>1, LieInFlat
    <2>4. PICK e \in JarEntries : e = es[k] /\ q[k] = EncodeJarEntry(e)
      BY <1>1
    <2>5. EntryThere(e, jar, a)
      <3>1. Lies(EncodeJarEntry(e), jar, a)
        BY <2>2, <2>3, <2>4
      <3> QED
        BY <1>5, <3>1, JarEntryLies
    <2>6. PICK m \in Nat, x \in Nat, p \in Nat, z \in Nat :
             m = Len(e.name) /\ x = e.extra /\ p = Len(Payload(e)) /\ z = Len(SizesBehind(e))
      <3>1. SizesBehind(e) \in Seq(Nat) /\ Len(e.name) \in Nat /\ e.extra \in Nat /\ Len(Payload(e)) \in Nat
        BY JarEntryType
      <3>2. Len(SizesBehind(e)) \in Nat
        BY <3>1
      <3> QED
        BY <3>1, <3>2
    <2>7. b = a + (6 + m + x + p + z)
      BY <2>2, <2>4, <2>5, <2>6 DEF EntryThere, HeaderUnits
    <2>8. DataAt(e, a) = a + 6 + m + x
      BY <2>6 DEF DataAt, HeaderUnits
    <2>9. b = DataAt(e, a) + p + z
      BY <2>7, <2>8
    <2>10. b + HeaderUnits < Len(jar)
      BY <1>5, <2>2 DEF HeaderUnits
    <2>11. JarAt(es, k) = a /\ JarAt(es, k + 1) = b
      BY <1>1, <2>2 DEF JarAt
    <2> QED
      BY <2>4, <2>5, <2>6, <2>9, <2>10, <2>11 DEF JarLaid
  <1> QED
    BY <1>1, <1>2, <1>5, <1>7, <1>8, <1>9

\* Where the walk over an archive ends.
JarReach(es) ==
    LET hides == {k \in DOMAIN es : es[k].packing = "streamed"}
    IN IF hides = {} THEN Len(es) ELSE Min(hides)

\* All entries before the last one that is reached tell their sizes; it is the last
\* of all unless it does not.
LEMMA ReachIs ==
  ASSUME NEW es \in Seq(JarEntries)
  PROVE  /\ JarReach(es) \in Nat /\ JarReach(es) <= Len(es)
         /\ \A k \in 1 .. Len(es) : k < JarReach(es) => es[k].packing # "streamed"
         /\ JarReach(es) < Len(es) => es[JarReach(es)].packing = "streamed" /\ JarReach(es) # 0
         /\ JarReach(es) = 0 => Len(es) = 0
  <1> DEFINE hides == {k \in DOMAIN es : es[k].packing = "streamed"}
  <1>1. DOMAIN es = 1 .. Len(es) /\ Len(es) \in Nat
    OBVIOUS
  <1>2. hides \subseteq Nat /\ \A k \in hides : k \in 1 .. Len(es) /\ es[k].packing = "streamed"
    BY <1>1
  <1>3. JarReach(es) = IF hides = {} THEN Len(es) ELSE Min(hides)
    BY DEF JarReach
  <1>4. \A k \in 1 .. Len(es) : es[k].packing = "streamed" => k \in hides
    BY <1>1
  <1> HIDE DEF hides
  <1>5. CASE hides = {}
    BY <1>1, <1>3, <1>4, <1>5
  <1>6. CASE hides # {}
    <2>1. PICK r \in Nat : r = Min(hides) /\ r \in hides /\ \A y \in hides : r <= y
      BY <1>2, <1>6, MinNumber
    <2>2. JarReach(es) = r /\ r \in 1 .. Len(es) /\ es[r].packing = "streamed"
      BY <1>2, <1>3, <1>6, <2>1
    <2>3. ASSUME NEW k \in 1 .. Len(es), k < r PROVE es[k].packing # "streamed"
      <3> SUFFICES ASSUME es[k].packing = "streamed" PROVE FALSE
        OBVIOUS
      <3>1. r <= k
        BY <1>4, <2>1
      <3> QED
        BY <2>3, <3>1
    <2> QED
      BY <1>1, <2>2, <2>3
  <1> QED
    BY <1>5, <1>6

JarHeaders(es) == [k \in 1 .. JarReach(es) |-> JarHeader(es[k], JarAt(es, k))]

\* No file of it begins like an entry.
NoneLikeEntry(es) == \A k \in 1 .. Len(es) : es[k].file # <<>> => es[k].file[1] # LocalSig

\* From an entry that tells its size the walk goes on to the next; from one
\* that does not, nowhere.
LEMMA JarNext ==
  ASSUME NEW es \in Seq(JarEntries), NoneLikeEntry(es), NEW k \in 1 .. Len(es), NEW jar, jar = EncodeJar(es)
  PROVE  /\ JarAt(es, k) \in Nat \ JarStops(jar) /\ LocalHeader(jar, JarAt(es, k)) = JarHeader(es[k], JarAt(es, k))
         /\ es[k].packing # "streamed" => JarBehind(jar, JarAt(es, k)) = JarAt(es, k + 1)
         /\ es[k].packing = "streamed" => JarBehind(jar, JarAt(es, k)) \in JarStops(jar)
  <1>1. PICK e \in JarEntries, a \in Nat, b \in Nat : e = es[k] /\ a = JarAt(es, k) /\ b = JarAt(es, k + 1)
    BY JarPartsAre, JarIsLaid DEF JarLaid
  <1>2. /\ jar \in Seq(Nat) /\ EntryThere(e, jar, a) /\ b + HeaderUnits < Len(jar)
        /\ b = DataAt(e, a) + Len(Payload(e)) + Len(SizesBehind(e))
    BY <1>1, JarIsLaid DEF JarLaid
  <1>3. PICK g \in Nat, p \in Nat, w \in Nat, z \in Nat :
           /\ g = DataAt(e, a) /\ p = Len(Payload(e)) /\ w = Len(jar) /\ z = Len(SizesBehind(e))
           /\ z = (IF e.packing = "streamed" THEN 2 ELSE 0)
    <2>1. DataAt(e, a) \in Nat
      BY <1>2 DEF EntryThere
    <2>2. Len(Payload(e)) \in Nat /\ Len(SizesBehind(e)) = (IF e.packing = "streamed" THEN 2 ELSE 0)
      BY JarEntryType
    <2>3. Len(jar) \in Nat /\ Len(SizesBehind(e)) \in Nat
      BY <1>2, <2>2
    <2> QED
      BY <2>1, <2>2, <2>3
  <1>4. a <= g
    <2>1. PICK m \in Nat, x \in Nat : m = Len(e.name) /\ x = e.extra
      BY JarEntryType
    <2>2. g = a + 6 + m + x
      BY <1>3, <2>1 DEF DataAt, HeaderUnits
    <2> QED
      BY <2>2
  <1>5. b = g + p + z /\ b + 6 < w
    BY <1>2, <1>3 DEF HeaderUnits
  <1>6. a \in Nat \ JarStops(jar)
    <2>1. ~(a + 6 >= w)
      BY <1>4, <1>5
    <2>2. jar[a + 1] = LocalSig
      BY <1>2 DEF EntryThere
    <2> QED
      BY <1>3, <2>1, <2>2 DEF JarStops, HeaderUnits
  <1>7. LocalHeader(jar, a) = JarHeader(e, a)
    BY <1>2 DEF EntryThere
  <1>8. JarBehind(jar, a) = g + Told(e, p)
    BY <1>3, <1>7 DEF JarBehind, JarHeader
  <1>9. CASE e.packing # "streamed"
    BY <1>1, <1>3, <1>5, <1>6, <1>7, <1>8, <1>9 DEF Told
  <1>10. CASE e.packing = "streamed"
    <2>1. JarBehind(jar, a) = g
      BY <1>3, <1>8, <1>10 DEF Told
    <2>2. Payload(e) = e.file /\ SizesBehind(e) = <<Len(Payload(e)), Len(e.file)>>
      BY <1>10 DEF Payload, SizesBehind
    <2>3. jar[g + 1] # LocalSig
      <3>1. CASE p = 0
        <4>1. Lies(SizesBehind(e), jar, g + p)
          BY <1>2, <1>3 DEF EntryThere
        <4>2. SizesBehind(e)[1] = 0 /\ 1 \in 1 .. Len(SizesBehind(e))
          <5>1. 1 \in 1 .. z
            BY <1>3, <1>10
          <5> QED
            BY <1>3, <2>2, <3>1, <5>1
        <4>3. jar[(g + p) + 1] = SizesBehind(e)[1]
          BY <4>1, <4>2 DEF Lies
        <4>4. LocalSig # 0
          BY JarAssumption
        <4> QED
          BY <3>1, <4>2, <4>3, <4>4
      <3>2. CASE p # 0
        <4>1. Lies(Payload(e), jar, g) /\ 1 \in 1 .. Len(Payload(e))
          BY <1>2, <1>3, <3>2 DEF EntryThere
        <4>2. jar[g + 1] = e.file[1]
          BY <2>2, <4>1 DEF Lies
        <4>3. e.file # <<>>
          BY <1>3, <2>2, <3>2
        <4> QED
          BY <1>1, <4>2, <4>3 DEF NoneLikeEntry
      <3> QED
        BY <3>1, <3>2
    <2>4. g \in JarStops(jar)
      BY <2>3 DEF JarStops
    <2> QED
      BY <1>1, <1>6, <1>7, <1>10, <2>1, <2>4
  <1> QED
    BY <1>9, <1>10

\* The headers that the walk over an archive reaches.
LEMMA JarEntriesAre ==
  ASSUME NEW es \in Seq(JarEntries), NoneLikeEntry(es)
  PROVE  Entries(EncodeJar(es)) = JarHeaders(es)
  <1>1. PICK jar \in Seq(Nat), R \in Nat, N \in Nat : jar = EncodeJar(es) /\ R = JarReach(es) /\ N = Len(es) /\ R <= N
    <2>1. EncodeJar(es) \in Seq(Nat)
      BY JarIsLaid
    <2>2. JarReach(es) \in Nat /\ JarReach(es) <= Len(es) /\ Len(es) \in Nat
      BY ReachIs
    <2> QED
      BY <2>1, <2>2
  <1>2. PICK f : WalksJar(jar, f) /\ Entries(jar) = f[0]
    BY EntriesRun
  <1>3. PICK u : u = JarHeaders(es)
    OBVIOUS
  <1>4. \A k \in 1 .. R : /\ k \in 1 .. Len(es) /\ JarAt(es, k) \in Nat \ JarStops(jar)
                          /\ LocalHeader(jar, JarAt(es, k)) = JarHeader(es[k], JarAt(es, k))
                          /\ es[k].packing # "streamed" => JarBehind(jar, JarAt(es, k)) = JarAt(es, k + 1)
                          /\ es[k].packing = "streamed" => JarBehind(jar, JarAt(es, k)) \in JarStops(jar)
    BY <1>1, JarNext
  <1>5. u \in Seq(Headers) /\ Len(u) = R /\ \A k \in 1 .. R : u[k] = LocalHeader(jar, JarAt(es, k))
    <2>1. u = [k \in 1 .. R |-> JarHeader(es[k], JarAt(es, k))]
      BY <1>1, <1>3 DEF JarHeaders
    <2>2. \A k \in 1 .. R : JarHeader(es[k], JarAt(es, k)) \in Headers
      <3> SUFFICES ASSUME NEW k \in 1 .. R PROVE JarHeader(es[k], JarAt(es, k)) \in Headers
        OBVIOUS
      <3>1. LocalHeader(jar, JarAt(es, k)) \in Headers
        BY <1>4, JarGoesOn
      <3> QED
        BY <1>4, <3>1
    <2>3. \A k \in 1 .. R : u[k] = JarHeader(es[k], JarAt(es, k))
      BY <2>1
    <2>4. u \in [1 .. R -> Headers]
      BY <2>1, <2>2
    <2>5. u \in Seq(Headers) /\ Len(u) = R
      BY <2>4
    <2> QED
      BY <1>4, <2>3, <2>5
  <1>6. \A o \in Nat : o \in JarStops(jar) => f[o] = <<>>
    BY <1>2 DEF WalksJar
  <1>7. \A k \in 1 .. R : f[JarAt(es, k)] = <<u[k]>> \o f[JarBehind(jar, JarAt(es, k))]
    <2> SUFFICES ASSUME NEW k \in 1 .. R PROVE f[JarAt(es, k)] = <<u[k]>> \o f[JarBehind(jar, JarAt(es, k))]
      OBVIOUS
    <2>1. JarAt(es, k) \in Nat /\ JarAt(es, k) \notin JarStops(jar)
      BY <1>4
    <2>2. f[JarAt(es, k)] = <<LocalHeader(jar, JarAt(es, k))>> \o f[JarBehind(jar, JarAt(es, k))]
      BY <1>2, <2>1 DEF WalksJar
    <2> QED
      BY <1>5, <2>2
  <1>8. JarAt(es, N + 1) \in JarStops(jar)
    <2>1. JarAt(es, N + 1) \in Nat /\ jar[JarAt(es, N + 1) + 1] = CentralSig
      BY <1>1, JarIsLaid
    <2>2. CentralSig # LocalSig
      BY JarAssumption
    <2> QED
      BY <2>1, <2>2 DEF JarStops
  <1>9. /\ \A k \in 1 .. Len(es) : k < R => es[k].packing # "streamed"
        /\ R < N => es[R].packing = "streamed" /\ R # 0
    BY <1>1, ReachIs
  <1> DEFINE Open(c) == c = 0 => R = 0 \/ es[R].packing # "streamed"
             T == {c \in Nat : \A k \in Nat \ {0} : k + c = R + 1 /\ Open(c) => f[JarAt(es, k)] = SubSeq(u, k, R)}
  <1>10. 0 \in T
    <2> SUFFICES ASSUME NEW k \in Nat \ {0}, k + 0 = R + 1, Open(0) PROVE f[JarAt(es, k)] = SubSeq(u, k, R)
      OBVIOUS
    <2>1. R = N /\ k = N + 1
      BY <1>1, <1>9
    <2>2. JarAt(es, N + 1) \in Nat
      BY <1>1, JarIsLaid
    <2>3. f[JarAt(es, k)] = <<>>
      BY <1>6, <1>8, <2>1, <2>2
    <2>4. SubSeq(u, R + 1, R) = <<>>
      BY <1>5
    <2> QED
      BY <2>1, <2>3, <2>4
  <1>11. ASSUME NEW c \in Nat, c \in T PROVE c + 1 \in T
    <2> SUFFICES ASSUME NEW k \in Nat \ {0}, k + (c + 1) = R + 1 PROVE f[JarAt(es, k)] = SubSeq(u, k, R)
      OBVIOUS
    <2>1. k \in 1 .. R /\ k + 1 \in Nat \ {0} /\ (k + 1) + c = R + 1 /\ k \in 1 .. Len(u)
      BY <1>5
    <2>2. CASE es[k].packing = "streamed"
      <3>1. k = R
        BY <1>1, <1>4, <1>9, <2>1, <2>2
      <3>2. f[JarBehind(jar, JarAt(es, k))] = <<>>
        <4>1. JarBehind(jar, JarAt(es, k)) \in JarStops(jar)
          BY <1>4, <2>1, <2>2
        <4>2. JarBehind(jar, JarAt(es, k)) \in Nat
          BY <4>1 DEF JarStops
        <4> QED
          BY <1>6, <4>1, <4>2
      <3>3. f[JarAt(es, k)] = <<u[k]>> \o <<>>
        BY <1>7, <2>1, <3>2
      <3>4. <<u[k]>> \o SubSeq(u, k + 1, Len(u)) = SubSeq(u, k, Len(u))
        BY <1>5, <2>1, HeadAndRest
      <3>5. SubSeq(u, k + 1, R) = <<>>
        BY <1>5, <3>1
      <3> QED
        BY <1>5, <3>3, <3>4, <3>5, Zenon
    <2>3. CASE es[k].packing # "streamed"
      <3>1. f[JarAt(es, k)] = <<u[k]>> \o f[JarAt(es, k + 1)]
        BY <1>4, <1>7, <2>1, <2>3
      <3>2. Open(c)
        <4> SUFFICES ASSUME c = 0 PROVE es[R].packing # "streamed"
          OBVIOUS
        <4>1. k = R
          OBVIOUS
        <4> QED
          BY <2>3, <4>1
      <3>3. f[JarAt(es, k + 1)] = SubSeq(u, k + 1, R)
        <4> HIDE DEF Open
        <4> QED
          BY <1>11, <2>1, <3>2
      <3>4. <<u[k]>> \o SubSeq(u, k + 1, Len(u)) = SubSeq(u, k, Len(u))
        BY <1>5, <2>1, HeadAndRest
      <3> QED
        BY <1>5, <3>1, <3>3, <3>4, Zenon
    <2> QED
      BY <2>2, <2>3
  <1>12. R \in T
    <2> HIDE DEF T
    <2> QED
      BY <1>10, <1>11, ByNumber
  <1>13. f[JarAt(es, 1)] = SubSeq(u, 1, R)
    <2>1. 1 \in Nat \ {0} /\ 1 + R = R + 1 /\ Open(R)
      OBVIOUS
    <2> HIDE DEF Open
    <2> QED
      BY <1>12, <2>1
  <1>14. SubSeq(u, 1, R) = u
    BY <1>5
  <1>15. JarAt(es, 1) = 0
    BY JarIsLaid
  <1> QED
    BY <1>1, <1>2, <1>3, <1>13, <1>14, <1>15

\* What is read of a stored entry is its file.
LEMMA StoredRead ==
  ASSUME NEW es \in Seq(JarEntries), NEW k \in 1 .. Len(es), NEW h, h = JarHeader(es[k], JarAt(es, k))
  PROVE  /\ es[k].packing = "stored" => Slice(EncodeJar(es), h.data_off, h.uncompressed_size) = es[k].file
         /\ es[k].packing = "streamed" => Slice(EncodeJar(es), h.data_off, h.uncompressed_size) = <<>>
         /\ (h.compression = 0) = (es[k].packing # "deflated")
  <1>1. PICK jar \in Seq(Nat) : jar = EncodeJar(es)
    BY JarIsLaid
  <1>2. PICK e \in JarEntries, a \in Nat : e = es[k] /\ a = JarAt(es, k) /\ EntryThere(e, jar, a)
    BY <1>1, JarPartsAre, JarIsLaid DEF JarLaid
  <1>3. h.data_off = DataAt(e, a) /\ h.uncompressed_size = Told(e, Len(e.file)) /\ DataAt(e, a) \in Nat
        /\ h.compression = (IF e.packing = "deflated" THEN 8 ELSE 0)
    BY <1>2 DEF JarHeader, EntryThere
  <1>4. CASE e.packing = "stored"
    <2>1. Lies(e.file, jar, DataAt(e, a)) /\ e.file \in Seq(Nat)
      BY <1>2, <1>4, JarEntryType DEF EntryThere, Payload
    <2>2. Slice(jar, DataAt(e, a), Len(e.file)) = e.file
      BY <1>3, <2>1, SliceLies
    <2> QED
      BY <1>1, <1>2, <1>3, <1>4, <2>2 DEF Told
  <1>5. CASE e.packing = "streamed"
    <2>1. Slice(jar, DataAt(e, a), 0) = <<>>
      BY DEF Slice
    <2> QED
      BY <1>1, <1>2, <1>3, <1>5, <2>1 DEF Told
  <1>6. CASE e.packing = "deflated"
    BY <1>2, <1>3, <1>6
  <1>7. e.packing \in Packings
    BY JarEntryType
  <1> QED
    BY <1>4, <1>5, <1>6, <1>7 DEF Packings

\* Sequences with the same elements.
LEMMA ElementsEqual ==
  ASSUME NEW S, NEW t \in Seq(S), NEW u \in Seq(S), Len(t) = Len(u), \A j \in 1 .. Len(t) : t[j] = u[j]
  PROVE  t = u
  OBVIOUS

\* Two sequences are the last things that lie in a third.
Concludes(t, u, jar, g) == Lies(t, jar, g) /\ Lies(u, jar, g + Len(t)) /\ Len(jar) = g + Len(t) + Len(u)

\* What is read from a place on is what lies there.
LEMMA SameSlice ==
  ASSUME NEW t \in Seq(Nat), NEW u \in Seq(Nat), NEW jar \in Seq(Nat), NEW g \in Nat, NEW m \in Nat,
         Concludes(t, u, jar, g)
  PROVE  Slice(jar, g, m) = Slice(t \o u, 0, m)
  <1>0. Lies(t, jar, g) /\ Lies(u, jar, g + Len(t)) /\ Len(jar) = g + Len(t) + Len(u)
    BY DEF Concludes
  <1>1. PICK p \in Nat, q \in Nat, w \in Nat : p = Len(t) /\ q = Len(u) /\ w = Len(jar) /\ w = g + p + q
    BY <1>0
  <1>2. PICK b : b = t \o u /\ b \in Seq(Nat) /\ Links(t, u, b)
    BY Concatenated
  <1>3. /\ Len(b) = p + q /\ \A j \in 1 .. p : b[j] = t[j]
        /\ \A j \in 1 .. q : b[p + j] = u[j]
    BY <1>1, <1>2 DEF Links
  <1>4. /\ \A j \in 1 .. p : jar[g + j] = t[j]
        /\ \A j \in 1 .. q : jar[(g + p) + j] = u[j]
    BY <1>0, <1>1 DEF Lies
  <1>5. ASSUME NEW j \in 1 .. m
        PROVE  (IF g + j <= Len(jar) THEN jar[g + j] ELSE NUL) = (IF 0 + j <= Len(b) THEN b[0 + j] ELSE NUL)
    <2>1. 0 + j = j /\ g + j \in Nat /\ ((g + j <= w) <=> (j <= p + q))
      BY <1>1
    <2>2. CASE j <= p
      <3>0. j \in 1 .. p
        BY <2>2
      <3>1. jar[g + j] = t[j] /\ b[j] = t[j]
        BY <1>3, <1>4, <3>0
      <3> QED
        BY <1>1, <1>3, <2>1, <3>1
    <2>3. CASE p < j /\ j <= p + q
      <3>1. PICK z \in 1 .. q : z = j - p
        BY <2>3
      <3>2. j = p + z /\ g + j = (g + p) + z
        BY <3>1
      <3>3. jar[g + j] = u[z] /\ b[j] = u[z]
        BY <1>3, <1>4, <3>1, <3>2
      <3> QED
        BY <1>1, <1>3, <2>1, <3>3
    <2>4. CASE j > p + q
      BY <1>1, <1>3, <2>1, <2>4
    <2> QED
      BY <2>2, <2>3, <2>4
  <1>6. Slice(jar, g, m) = [k \in 1 .. m |-> IF g + k <= Len(jar) THEN jar[g + k] ELSE NUL]
    BY DEF Slice
  <1>7. Slice(b, 0, m) = [k \in 1 .. m |-> IF 0 + k <= Len(b) THEN b[0 + k] ELSE NUL]
    BY DEF Slice
  <1>8. Slice(jar, g, m) = Slice(b, 0, m)
    BY <1>5, <1>6, <1>7
  <1> QED
    BY <1>2, <1>8

\* Three sequences, one behind the other.
Three(t, u, v) == (t \o u) \o v

\* Joining three sequences from either side is the same.
LEMMA ThreeAre ==
  ASSUME NEW t \in Seq(Nat), NEW u \in Seq(Nat), NEW v \in Seq(Nat)
  PROVE  Three(t, u, v) = t \o (u \o v)
  BY DEF Three

\* The archive behind an entry is the archive of the entries behind it.
LEMMA JarBehindEntry ==
  ASSUME NEW es \in Seq(JarEntries), NEW k \in 1 .. Len(es), NEW rest, rest = EncodeJar(SubSeq(es, k + 1, Len(es)))
  PROVE  /\ rest \in Seq(Nat) /\ Len(EncodeJar(es)) = JarAt(es, k + 1) + Len(rest)
         /\ Lies(rest, EncodeJar(es), JarAt(es, k + 1))
  <1>1. PICK q \in Seq(Seq(Nat)), N \in Nat :
           /\ q = JarParts(es) /\ Len(q) = N /\ N = Len(es)
           /\ \A j \in 1 .. N : q[j] = EncodeJarEntry(es[j])
    BY JarPartsAre
  <1> DEFINE ahead == SubSeq(es, k + 1, N)
             r == SubSeq(q, k + 1, N)
             l == SubSeq(q, 1, k)
  <1>2. l \in Seq(Seq(Nat)) /\ r \in Seq(Seq(Nat)) /\ q = l \o r
    <2>1. k \in 0 .. Len(q)
      BY <1>1
    <2> QED
      BY <1>1, <2>1, SplitAt
  <1>3. /\ ahead \in Seq(JarEntries) /\ Len(ahead) = N - k /\ \A j \in 1 .. N - k : ahead[j] = es[k + j]
        /\ Len(r) = N - k /\ \A j \in 1 .. N - k : r[j] = q[k + j]
    <2>1. k \in Nat /\ N \in Nat /\ k <= N /\ N <= Len(es) /\ N <= Len(q)
      BY <1>1
    <2> QED
      BY <2>1, Between
  <1>4. JarParts(ahead) = r
    <2>1. PICK g \in Seq(Seq(Nat)) : /\ g = JarParts(ahead) /\ Len(g) = Len(ahead)
                                    /\ \A j \in 1 .. Len(ahead) : g[j] = EncodeJarEntry(ahead[j])
      BY <1>3, JarPartsAre
    <2>2. \A j \in 1 .. N - k : g[j] = r[j]
      <3> SUFFICES ASSUME NEW j \in 1 .. N - k PROVE g[j] = r[j]
        OBVIOUS
      <3>1. k + j \in 1 .. N
        BY <1>1
      <3>2. g[j] = EncodeJarEntry(es[k + j])
        BY <1>3, <2>1
      <3> QED
        BY <1>1, <1>3, <3>1, <3>2
    <2>3. Len(g) = Len(r) /\ Len(g) = N - k
      BY <1>3, <2>1
    <2> HIDE DEF r, ahead
    <2>4. r \in Seq(Seq(Nat)) /\ g \in Seq(Seq(Nat)) /\ Len(g) = Len(r) /\ \A j \in 1 .. Len(g) : g[j] = r[j]
      BY <1>2, <2>2, <2>3
    <2>5. g = r
      BY <2>4, ElementsEqual
    <2> QED
      BY <2>1, <2>5
  <1> HIDE DEF ahead, r, l
  <1>5. PICK pre \in Seq(Nat), post \in Seq(Nat), w \in Seq(Nat) : pre = FlattenSeq(l) /\ post = FlattenSeq(r) /\ w = JarEnd
    BY <1>2, FlattenType, JarPartsAre
  <1>6. FlattenSeq(q) = pre \o post
    BY <1>2, <1>5, FlattenConcat
  <1>7. EncodeJar(es) = (pre \o post) \o w
    BY <1>1, <1>5, <1>6 DEF EncodeJar, JarParts, JarEnd
  <1>8. rest = post \o w
    <2>1. rest = EncodeJar(ahead)
      BY <1>1 DEF ahead
    <2>2. EncodeJar(ahead) = FlattenSeq(JarParts(ahead)) \o JarEnd
      BY DEF EncodeJar, JarParts, JarEnd
    <2> QED
      BY <1>4, <1>5, <2>1, <2>2
  <1>9. EncodeJar(es) = pre \o rest
    <2>1. EncodeJar(es) = Three(pre, post, w)
      BY <1>7 DEF Three
    <2>2. Three(pre, post, w) = pre \o (post \o w)
      BY ThreeAre
    <2> QED
      BY <1>8, <2>1, <2>2
  <1>10. rest \in Seq(Nat)
    BY <1>8, ConcatLength
  <1>11. JarAt(es, k + 1) = Len(pre)
    <2>1. (k + 1) - 1 = k
      OBVIOUS
    <2> QED
      BY <1>1, <1>5, <2>1 DEF JarAt, Start, l
  <1>12. PICK jar \in Seq(Nat) : jar = EncodeJar(es) /\ jar = pre \o rest /\ Len(jar) = Len(pre) + Len(rest)
    BY <1>9, <1>10, ConcatLength
  <1>13. Lies(rest, jar, Len(pre))
    <2>1. Lies(jar, jar, 0)
      BY LiesWhole
    <2> QED
      BY <1>10, <1>12, <2>1, LieFirst
  <1> QED
    BY <1>10, <1>11, <1>12, <1>13

\* What is read of a compressed entry.
LEMMA DeflatedRead ==
  ASSUME NEW es \in Seq(JarEntries), NEW k \in 1 .. Len(es), es[k].packing = "deflated",
         NEW h, h = JarHeader(es[k], JarAt(es, k))
  PROVE  Slice(EncodeJar(es), h.data_off, h.uncompressed_size) = Instead(es, k)
  <1>1. PICK jar \in Seq(Nat), rest \in Seq(Nat) :
           /\ jar = EncodeJar(es) /\ rest = EncodeJar(SubSeq(es, k + 1, Len(es)))
           /\ Len(jar) = JarAt(es, k + 1) + Len(rest) /\ Lies(rest, jar, JarAt(es, k + 1))
    BY JarIsLaid, JarBehindEntry
  <1>2. PICK e \in JarEntries, a \in Nat : e = es[k] /\ a = JarAt(es, k) /\ EntryThere(e, jar, a)
    BY <1>1, JarPartsAre, JarIsLaid DEF JarLaid
  <1>3. /\ h.data_off = DataAt(e, a) /\ h.uncompressed_size = Len(e.file) /\ DataAt(e, a) \in Nat
        /\ JarAt(es, k + 1) = DataAt(e, a) + Len(Payload(e)) + Len(SizesBehind(e))
    <2>1. JarLaid(es, jar, k)
      BY <1>1, JarIsLaid
    <2> QED
      BY <1>2, <2>1 DEF JarHeader, EntryThere, JarLaid, Told
  <1>4. PICK t \in Seq(Nat), g \in Nat, m \in Nat : t = Payload(e) /\ t = Deflated(e.file) /\ g = DataAt(e, a) /\ m = Len(e.file)
    BY <1>2, <1>3, JarEntryType DEF Payload
  <1>5. JarAt(es, k + 1) = g + Len(t)
    <2>1. Len(SizesBehind(e)) = 0
      BY <1>2, JarEntryType
    <2>2. Len(t) \in Nat
      OBVIOUS
    <2> QED
      BY <1>3, <1>4, <2>1, <2>2
  <1>6. Lies(t, jar, g)
    BY <1>2, <1>4 DEF EntryThere
  <1>7. Slice(jar, g, m) = Slice(t \o rest, 0, m)
    <2>1. Concludes(t, rest, jar, g)
      BY <1>1, <1>5, <1>6 DEF Concludes
    <2> QED
      BY <2>1, SameSlice
  <1>8. Instead(es, k) = Slice(t \o rest, 0, m)
    BY <1>1, <1>2, <1>4 DEF Instead
  <1> QED
    BY <1>1, <1>3, <1>4, <1>7, <1>8

-----------------------------------------------------------------------------
(* What jar_execute hands on *)

\* The walk over any file gives a sequence of headers.
LEMMA EntriesTyped == ASSUME NEW jar \in Seq(Nat) PROVE Entries(jar) \in Seq(Headers)
  <1>1. PICK f : WalksJar(jar, f) /\ Entries(jar) = f[0]
    BY EntriesRun
  <1>2. f[0] \in Seq(Headers)
    BY <1>1 DEF WalksJar
  <1> QED
    BY <1>1, <1>2

\* What an archive gives is nothing, or a file.
LEMMA JarGives ==
  ASSUME NEW jar \in Seq(Nat)
  PROVE  jar_execute(jar) # <<>> => jar_execute(jar)[1] \in Seq(Nat)
  <1>1. ASSUME NEW name PROVE jar_find_entry(jar, name) # <<>> => jar_find_entry(jar, name)[1] \in Seq(Nat)
    <2>1. PICK e \in Seq(Headers) : e = Entries(jar)
      BY EntriesTyped
    <2> DEFINE named == {k \in DOMAIN e : e[k].name = name}
               h == e[Min(named)]
    <2>2. DOMAIN e = 1 .. Len(e) /\ Len(e) \in Nat
      OBVIOUS
    <2>3. named \subseteq Nat /\ named \subseteq DOMAIN e
      BY <2>2
    <2>4. jar_find_entry(jar, name) = IF named = {} \/ h.compression # 0 THEN <<>>
                                      ELSE <<Slice(jar, h.data_off, h.uncompressed_size)>>
      BY <2>1 DEF jar_find_entry
    <2> HIDE DEF named
    <2>5. CASE named = {}
      BY <2>4, <2>5
    <2>6. CASE named # {}
      <3>1. PICK x : x = Min(named) /\ x \in named
        BY <2>3, <2>6, MinNumber
      <3>2. e[x] \in Headers
        BY <2>2, <2>3, <3>1
      <3>3. h.data_off \in Nat /\ h.uncompressed_size \in Nat
        BY <3>1, <3>2 DEF Headers
      <3>4. Slice(jar, h.data_off, h.uncompressed_size) \in Seq(Nat)
        BY <3>3, SliceType
      <3> HIDE DEF h
      <3> QED
        BY <2>4, <3>4
    <2> QED
      BY <2>5, <2>6
  <1>2. jar_execute(jar) = <<>> \/ \E name : jar_execute(jar) = jar_find_entry(jar, name)
    BY DEF jar_execute, jar_scan_entries
  <1> QED
    BY <1>1, <1>2

-----------------------------------------------------------------------------
(* The manifest *)

MainOf(line) == SkipBlanks(SubSeq(line, Len(KeyMain) + 1, Len(line)))

\* The class the first line with the key names.
MainIn(lines) ==
    LET named == {k \in DOMAIN lines : Begins(lines[k], KeyMain)}
    IN IF named = {} THEN <<>> ELSE MainOf(lines[Min(named)])

KeptWhole(line) == Begins(line, KeyMain) => Len(line) <= ManifestMax /\ Len(MainOf(line)) <= ClassMax
LinesKept(lines) == \A k \in DOMAIN lines : KeptWhole(lines[k])

\* The key of the manifest is a text that fits into a line that is kept.
LEMMA KeyIs == KeyMain \in Seq(Int) /\ Len(KeyMain) \in Nat /\ Len(KeyMain) >= 1 /\ Len(KeyMain) <= ManifestMax
               /\ ManifestMax \in Nat /\ ClassMax \in Nat
  BY JarAssumption

\* To begin with the key is to have it in its first places.
LEMMA KeyBegins ==
  ASSUME NEW line \in Seq(Int)
  PROVE  Begins(line, KeyMain) <=> Len(KeyMain) <= Len(line) /\ \A j \in 1 .. Len(KeyMain) : line[j] = KeyMain[j]
  <1>1. PICK m \in Nat, key \in Seq(Int) : key = KeyMain /\ m = Len(key)
    BY KeyIs
  <1>2. Begins(line, key) <=> m <= Len(line) /\ SubSeq(key, 1, m) = SubSeq(line, 1, m)
    BY <1>1 DEF Begins, IsPrefix
  <1>3. SubSeq(key, 1, m) = key
    BY <1>1
  <1>4. ASSUME m <= Len(line) PROVE SubSeq(line, 1, m) = key <=> \A j \in 1 .. m : line[j] = key[j]
    <2>0. PICK w \in Nat : w = Len(line)
      OBVIOUS
    <2>1. PICK u : u = SubSeq(line, 1, m) /\ u \in Seq(Int) /\ Len(u) = m /\ \A j \in 1 .. m : u[j] = line[j]
      <3>1. m <= w
        BY <1>4, <2>0
      <3>2. PICK u : u = SubSeq(line, 1, m)
        OBVIOUS
      <3>3. u \in Seq(Int)
        BY <2>0, <3>1, <3>2
      <3>4. Len(u) = m
        BY <2>0, <3>1, <3>2
      <3>5. \A j \in 1 .. m : u[j] = line[j]
        BY <2>0, <3>1, <3>2
      <3> QED
        BY <3>2, <3>3, <3>4, <3>5
    <2>2. ASSUME \A j \in 1 .. m : line[j] = key[j] PROVE u = key
      <3>1. \A j \in 1 .. Len(u) : u[j] = key[j]
        BY <2>1, <2>2
      <3> QED
        BY <1>1, <2>1, <3>1, ElementsEqual
    <2> QED
      BY <2>1, <2>2
  <1> QED
    BY <1>1, <1>2, <1>3, <1>4

\* Text without its leading blanks is text.
LEMMA BlanksType ==
  ASSUME NEW val \in Seq(Int)
  PROVE  SkipBlanks(val) \in Seq(Int)
  <1> DEFINE text == {k \in DOMAIN val : val[k] \notin {SPACE, TAB}}
  <1>1. text \subseteq Nat /\ \A k \in text : k \in 1 .. Len(val)
    OBVIOUS
  <1>2. SkipBlanks(val) = IF text = {} THEN <<>> ELSE SubSeq(val, Min(text), Len(val))
    BY DEF SkipBlanks
  <1> HIDE DEF text
  <1>3. CASE text = {}
    BY <1>2, <1>3
  <1>4. CASE text # {}
    <2>1. PICK x \in Nat : x = Min(text) /\ x \in text
      BY <1>1, <1>4, MinNumber
    <2>2. x \in 1 .. Len(val)
      BY <1>1, <2>1
    <2>3. SubSeq(val, x, Len(val)) \in Seq(Int)
      BY <2>2
    <2> QED
      BY <1>2, <1>4, <2>1, <2>3
  <1> QED
    BY <1>3, <1>4

\* The name of the main class is a text; what is kept of it is its beginning.
LEMMA MainType ==
  ASSUME NEW line \in Seq(Int)
  PROVE  MainOf(line) \in Seq(Int) /\ MainValue(line) \in Seq(Int) /\ MainValue(line) = Upto(MainOf(line), ClassMax)
  <1>1. PICK m \in Nat, l \in Nat : m = Len(KeyMain) /\ l = Len(line)
    BY KeyIs
  <1>2. SubSeq(line, m + 1, l) \in Seq(Int)
    BY <1>1
  <1>3. MainOf(line) \in Seq(Int)
    BY <1>1, <1>2, BlanksType DEF MainOf
  <1> QED
    BY <1>3, UptoIs, KeyIs DEF MainValue, MainOf

\* A line more in front.
LEMMA MainOfLines ==
  ASSUME NEW l \in Seq(Int), NEW rest \in Seq(Seq(Int)), NEW both, both = <<l>> \o rest
  PROVE  /\ MainIn(both) = IF Begins(l, KeyMain) THEN MainOf(l) ELSE MainIn(rest)
         /\ LinesKept(both) => KeptWhole(l) /\ LinesKept(rest)
  <1>1. PICK Q : Q = Seq(Int)
    OBVIOUS
  <1>2. PICK r \in Nat : r = Len(rest) /\ DOMAIN rest = 1 .. r
    OBVIOUS
  <1>3. /\ both \in Seq(Q) /\ DOMAIN both = 1 .. r + 1 /\ both[1] = l
        /\ \A k \in 1 .. r : both[k + 1] = rest[k]
    BY <1>1, <1>2
  <1> DEFINE has(lines) == {k \in DOMAIN lines : Begins(lines[k], KeyMain)}
  <1>4. \A lines : MainIn(lines) = IF has(lines) = {} THEN <<>> ELSE MainOf(lines[Min(has(lines))])
    BY DEF MainIn
  <1>5. has(both) \subseteq Nat /\ has(rest) \subseteq Nat
    BY <1>2, <1>3
  <1>6. \A k \in 1 .. r : k \in has(rest) <=> k + 1 \in has(both)
    BY <1>2, <1>3
  <1>7. 1 \in has(both) <=> Begins(l, KeyMain)
    BY <1>2, <1>3
  <1>8. (\A k \in has(both) : k \in 1 .. r + 1) /\ (\A k \in has(rest) : k \in 1 .. r)
    BY <1>2, <1>3
  <1> HIDE DEF has
  <1>9. ASSUME Begins(l, KeyMain) PROVE MainIn(both) = MainOf(l)
    <2>1. has(both) # {}
      BY <1>7, <1>9
    <2>2. PICK x \in Nat : x = Min(has(both)) /\ x \in has(both) /\ \A y \in has(both) : x <= y
      BY <1>5, <2>1, MinNumber
    <2>3. x = 1
      BY <1>7, <1>8, <1>9, <2>2
    <2> QED
      BY <1>3, <1>4, <1>9, <2>1, <2>2, <2>3
  <1>10. ASSUME ~Begins(l, KeyMain) PROVE MainIn(both) = MainIn(rest)
    <2>1. \A k \in has(both) : k - 1 \in has(rest) /\ k \in Nat
      <3> SUFFICES ASSUME NEW k \in has(both) PROVE k - 1 \in has(rest) /\ k \in Nat
        OBVIOUS
      <3>1. k \in 1 .. r + 1 /\ k # 1
        BY <1>7, <1>8, <1>10
      <3>2. PICK j \in Nat : j = k - 1 /\ j \in 1 .. r /\ j + 1 = k
        BY <3>1
      <3>3. j + 1 \in has(both)
        BY <3>2
      <3>4. j \in has(rest)
        BY <1>6, <3>2, <3>3
      <3>5. k \in Nat
        BY <3>1
      <3> QED
        BY <3>2, <3>4, <3>5
    <2>9. has(rest) = {} => has(both) = {}
      BY <2>1
    <2>2. CASE has(rest) = {}
      BY <1>4, <2>2, <2>9
    <2>3. CASE has(rest) # {}
      <3>1. PICK x \in Nat : x = Min(has(rest)) /\ x \in has(rest) /\ \A y \in has(rest) : x <= y
        BY <1>5, <2>3, MinNumber
      <3>2. x \in 1 .. r /\ x + 1 \in has(both)
        BY <1>6, <1>8, <3>1
      <3>3. PICK z \in Nat : z = Min(has(both)) /\ z \in has(both) /\ \A y \in has(both) : z <= y
        BY <1>5, <3>2, MinNumber
      <3>4. z = x + 1
        <4>1. z <= x + 1
          BY <3>2, <3>3
        <4>2. z - 1 \in has(rest)
          BY <2>1, <3>3
        <4>3. x <= z - 1
          BY <3>1, <4>2
        <4> QED
          BY <4>1, <4>3
      <3>5. both[z] = rest[x]
        BY <1>3, <3>2, <3>4
      <3>6. has(both) # {}
        BY <3>2
      <3> QED
        BY <1>4, <1>10, <2>3, <3>1, <3>3, <3>5, <3>6
    <2> QED
      BY <2>2, <2>3
  <1>11. ASSUME LinesKept(both) PROVE KeptWhole(l) /\ LinesKept(rest)
    <2>1. 1 \in DOMAIN both
      BY <1>2, <1>3
    <2>2. \A k \in 1 .. r : k + 1 \in DOMAIN both
      BY <1>2, <1>3
    <2> QED
      BY <1>2, <1>3, <1>11, <2>1, <2>2 DEF LinesKept
  <1> QED
    BY <1>9, <1>10, <1>11

\* No line, or an empty one, names no class.
LEMMA NoLines == MainIn(<<<<>>>>) = <<>> /\ ~Begins(<<>>, KeyMain)
  <1>1. <<>> \in Seq(Int) /\ Len(<<>>) = 0 /\ <<>> \in Seq(Seq(Int))
    OBVIOUS
  <1>2. ~Begins(<<>>, KeyMain)
    <2>1. PICK e \in Seq(Int) : e = <<>> /\ Len(e) = 0
      BY <1>1
    <2>2. Begins(e, KeyMain) => Len(KeyMain) <= Len(e)
      BY KeyBegins
    <2> QED
      BY <2>1, <2>2, KeyIs
  <1>3. MainIn(<<>>) = <<>>
    <2>1. {k \in DOMAIN <<>> : Begins(<<>>[k], KeyMain)} = {}
      OBVIOUS
    <2> QED
      BY <2>1 DEF MainIn
  <1>4. <<<<>>>> = <<<<>>>> \o <<>>
    OBVIOUS
  <1>5. MainIn(<<<<>>>>) = MainIn(<<>>)
    BY <1>1, <1>2, <1>4, MainOfLines
  <1> QED
    BY <1>2, <1>3, <1>5

-----------------------------------------------------------------------------
(* parse_manifest_for_main *)

\* What the parser compares with the key, and whether it only reads on.
WholeAt(contents, j, l) == IF j = Len(contents) THEN LastLine(contents, l) ELSE l
ReadsOn(contents, j) == j < Len(contents) /\ contents[j] \notin LineEnd

Seeks(contents, f) ==
    \A j \in Nat \ {0}, l \in Seq(Int) :
        f[<<j, l>>] = IF ReadsOn(contents, j) THEN f[<<j + 1, MainKept(l, contents[j])>>]
                      ELSE IF Begins(WholeAt(contents, j, l), KeyMain) THEN MainValue(WholeAt(contents, j, l))
                      ELSE IF j >= Len(contents) THEN <<>> ELSE f[<<j + 1, <<>>>>]

\* What is compared is a line.
LEMMA WholeType ==
  ASSUME NEW contents \in Seq(Int), NEW j \in Nat \ {0}, NEW l \in Seq(Int)
  PROVE  WholeAt(contents, j, l) \in Seq(Int) /\ LastLine(contents, l) \in Seq(Int)
  <1>1. LastLine(contents, l) \in Seq(Int)
    <2>1. CASE contents = <<>>
      BY <2>1 DEF LastLine
    <2>2. CASE contents # <<>>
      <3>1. Last(contents) \in Int
        <4>1. Len(contents) \in 1 .. Len(contents)
          BY <2>2
        <4> QED
          BY <4>1 DEF Last
      <3>2. PICK c \in Int : c = Last(contents)
        BY <3>1
      <3>3. Append(l, c) \in Seq(Int)
        OBVIOUS
      <3> QED
        BY <3>2, <3>3 DEF LastLine
    <2> QED
      BY <2>1, <2>2
  <1> QED
    BY <1>1 DEF WholeAt

\* So is what is kept of one.
LEMMA MainKeptType ==
  ASSUME NEW l \in Seq(Int), NEW c \in Int
  PROVE  MainKept(l, c) \in Seq(Int)
  BY DEF MainKept

\* parse_manifest_for_main is such a walk.
LEMMA SeekRuns ==
  ASSUME NEW contents \in Seq(Int)
  PROVE  \E f : Seeks(contents, f) /\ parse_manifest_for_main(contents) = f[<<1, <<>>>>]
  <1> DEFINE P == Nat \ {0}
             Q == Seq(Int)
             D == P \X Q
             V == Seq(Int)
             more(d) == ReadsOn(contents, d[1])
             whole(d) == WholeAt(contents, d[1], d[2])
             named(d) == Begins(whole(d), KeyMain)
             Stop == {d \in D : ~more(d) /\ (named(d) \/ d[1] >= Len(contents))}
             rank == [d \in D |-> IF d[1] > Len(contents) THEN 0 ELSE Len(contents) + 1 - d[1]]
             next == [d \in D |-> <<d[1] + 1, IF more(d) THEN MainKept(d[2], contents[d[1]]) ELSE <<>>>>]
             base0 == [d \in D |-> IF named(d) THEN MainValue(whole(d)) ELSE <<>>]
             step == [p \in D \X V |-> p[2]]
             Solves(g) == g = [p \in D |->
                                 LET i0 == p[1]  line == p[2]
                                     whole0 == IF i0 = Len(contents) THEN LastLine(contents, line) ELSE line
                                 IN IF i0 < Len(contents) /\ contents[i0] \notin LineEnd
                                    THEN g[<<i0 + 1, MainKept(line, contents[i0])>>]
                                    ELSE IF Begins(whole0, KeyMain) THEN MainValue(whole0)
                                    ELSE IF i0 >= Len(contents) THEN <<>> ELSE g[<<i0 + 1, <<>>>>]]
             from == CHOOSE g : Solves(g)
  <1>0. Len(contents) \in Nat
    OBVIOUS
  <1>1. parse_manifest_for_main(contents) = from[<<1, <<>>>>]
    BY DEF parse_manifest_for_main
  <1>2. next \in [D -> D]
    <2> SUFFICES ASSUME NEW d \in D
                 PROVE  <<d[1] + 1, IF more(d) THEN MainKept(d[2], contents[d[1]]) ELSE <<>>>> \in D
      OBVIOUS
    <2>1. d[1] + 1 \in P /\ d[2] \in Seq(Int) /\ d[1] \in P
      OBVIOUS
    <2>2. more(d) => MainKept(d[2], contents[d[1]]) \in Seq(Int)
      <3> SUFFICES ASSUME more(d) PROVE MainKept(d[2], contents[d[1]]) \in Seq(Int)
        OBVIOUS
      <3>1. contents[d[1]] \in Int
        BY <1>0, <2>1 DEF ReadsOn
      <3> QED
        BY <2>1, <3>1, MainKeptType
    <2>3. (IF more(d) THEN MainKept(d[2], contents[d[1]]) ELSE <<>>) \in Q
      BY <2>2
    <2> QED
      BY <2>1, <2>3
  <1>3. rank \in [D -> Nat] /\ Descends(D, rank, Stop, next)
    <2>1. rank \in [D -> Nat]
      <3> SUFFICES ASSUME NEW d \in D
                   PROVE  (IF d[1] > Len(contents) THEN 0 ELSE Len(contents) + 1 - d[1]) \in Nat
        OBVIOUS
      <3>1. d[1] \in Nat
        OBVIOUS
      <3> QED
        BY <1>0, <3>1
    <2>2. ASSUME NEW d \in D, d \notin Stop PROVE rank[next[d]] < rank[d]
      <3>1. PICK e : e = next[d]
        OBVIOUS
      <3>8. more(d) \/ ~(d[1] >= Len(contents))
        BY <2>2
      <3>9. d[1] \in Nat
        OBVIOUS
      <3>5. d[1] \in Nat /\ d[1] <= Len(contents)
        BY <1>0, <3>8, <3>9 DEF ReadsOn
      <3>6. e \in D
        BY <1>2, <3>1
      <3>7. e[1] = d[1] + 1
        BY <3>1
      <3>2. d[1] \in Nat /\ d[1] <= Len(contents) /\ e \in D /\ e[1] = d[1] + 1
        BY <3>5, <3>6, <3>7
      <3>3. rank[d] = Len(contents) + 1 - d[1]
        BY <1>0, <3>2
      <3>4. rank[e] = IF e[1] > Len(contents) THEN 0 ELSE Len(contents) + 1 - e[1]
        BY <3>2
      <3> HIDE DEF next, rank, D, Stop, V
      <3> QED
        BY <1>0, <3>1, <3>2, <3>3, <3>4
    <2> HIDE DEF rank, next, Stop, D
    <2> QED
      BY <2>1, <2>2 DEF Descends
  <1>4. base0 \in [D -> V]
    <2> SUFFICES ASSUME NEW d \in D PROVE (IF named(d) THEN MainValue(whole(d)) ELSE <<>>) \in V
      OBVIOUS
    <2>1. d[1] \in Nat \ {0} /\ d[2] \in Seq(Int)
      OBVIOUS
    <2>2. whole(d) \in Seq(Int)
      BY <2>1, WholeType
    <2>3. MainValue(whole(d)) \in Seq(Int)
      <3> HIDE DEF whole
      <3> QED
        BY <2>2, MainType
    <2> HIDE DEF whole, named
    <2> QED
      BY <2>3
  <1>5. step \in [D \X V -> V]
    <2> HIDE DEF D
    <2> QED
      OBVIOUS
  <1>6. PICK f \in [D -> V] : Recurs(D, Stop, next, base0, step, f)
    <2> HIDE DEF D, V, Stop, rank, next, base0, step, Solves, from
    <2> QED
      BY <1>2, <1>3, <1>4, <1>5, Recursion
  <1>7. ASSUME NEW d \in D
        PROVE  f[d] = IF ReadsOn(contents, d[1]) THEN f[<<d[1] + 1, MainKept(d[2], contents[d[1]])>>]
                      ELSE IF Begins(WholeAt(contents, d[1], d[2]), KeyMain)
                           THEN MainValue(WholeAt(contents, d[1], d[2]))
                      ELSE IF d[1] >= Len(contents) THEN <<>> ELSE f[<<d[1] + 1, <<>>>>]
    <2>2. f[d] = IF d \in Stop THEN base0[d] ELSE step[<<d, f[next[d]]>>]
      BY <1>6 DEF Recurs
    <2>3. d \in Stop <=> ~more(d) /\ (named(d) \/ d[1] >= Len(contents))
      <3> HIDE DEF more, named, D
      <3> QED
        OBVIOUS
    <2>4. base0[d] = IF named(d) THEN MainValue(whole(d)) ELSE <<>>
      <3> HIDE DEF more, named, D
      <3> QED
        OBVIOUS
    <2>5. next[d] = <<d[1] + 1, IF more(d) THEN MainKept(d[2], contents[d[1]]) ELSE <<>>>> /\ next[d] \in D
      <3>1. next[d] \in D
        BY <1>2
      <3> HIDE DEF more, D
      <3> QED
        BY <3>1
    <2>6. step[<<d, f[next[d]]>>] = f[next[d]]
      <3>1. PICK v \in V : v = f[next[d]]
        BY <1>6, <2>5
      <3>2. step[<<d, v>>] = v
        OBVIOUS
      <3> QED
        BY <3>1, <3>2
    <2> HIDE DEF step, base0, next, Stop, D, V
    <2>7. f[d] = IF ~more(d) /\ (named(d) \/ d[1] >= Len(contents))
                 THEN IF named(d) THEN MainValue(whole(d)) ELSE <<>>
                 ELSE f[<<d[1] + 1, IF more(d) THEN MainKept(d[2], contents[d[1]]) ELSE <<>>>>]
      <3> HIDE DEF more, named, whole
      <3> QED
        BY <2>2, <2>3, <2>4, <2>5, <2>6
    <2> QED
      BY <2>7
  <1>8. Solves(f)
    <2>1. f \in [D -> V]
      BY <1>6
    <2>2. ASSUME NEW d \in D
          PROVE  f[d] = LET i0 == d[1]  line == d[2]
                            whole0 == IF i0 = Len(contents) THEN LastLine(contents, line) ELSE line
                        IN IF i0 < Len(contents) /\ contents[i0] \notin LineEnd
                           THEN f[<<i0 + 1, MainKept(line, contents[i0])>>]
                           ELSE IF Begins(whole0, KeyMain) THEN MainValue(whole0)
                           ELSE IF i0 >= Len(contents) THEN <<>> ELSE f[<<i0 + 1, <<>>>>]
      <3> HIDE DEF D
      <3> QED
        BY <1>7 DEF ReadsOn, WholeAt
    <2> HIDE DEF V, D
    <2> QED
      BY <2>1, <2>2
  <1>9. Solves(from)
    <2> HIDE DEF Solves
    <2> QED
      BY <1>8
  <1> HIDE DEF from
  <1>10. ASSUME NEW j \in P, NEW l \in Q
        PROVE  from[<<j, l>>] =
                  IF ReadsOn(contents, j) THEN from[<<j + 1, MainKept(l, contents[j])>>]
                  ELSE IF Begins(WholeAt(contents, j, l), KeyMain) THEN MainValue(WholeAt(contents, j, l))
                  ELSE IF j >= Len(contents) THEN <<>> ELSE from[<<j + 1, <<>>>>]
    <2>1. PICK d \in D : d = <<j, l>> /\ d[1] = j /\ d[2] = l
      <3> DEFINE d == <<j, l>>
      <3>1. d \in D /\ d = <<j, l>> /\ d[1] = j /\ d[2] = l
        OBVIOUS
      <3> QED
        BY <3>1
    <2>2. from[d] = IF ReadsOn(contents, d[1]) THEN from[<<d[1] + 1, MainKept(d[2], contents[d[1]])>>]
                    ELSE IF Begins(WholeAt(contents, d[1], d[2]), KeyMain)
                         THEN MainValue(WholeAt(contents, d[1], d[2]))
                    ELSE IF d[1] >= Len(contents) THEN <<>> ELSE from[<<d[1] + 1, <<>>>>]
      <3> HIDE DEF D
      <3> QED
        BY <1>9 DEF ReadsOn, WholeAt
    <2> QED
      BY <2>1, <2>2
  <1>11. Seeks(contents, from)
    BY <1>10 DEF Seeks
  <1> QED
    BY <1>1, <1>11

\* What the parser has of a line: all of a short one, of a long one its beginning.
StandsFor(w, l) ==
    /\ w \in Seq(Int)
    /\ Len(l) <= ManifestMax => w = l
    /\ Len(l) > ManifestMax => Len(w) >= ManifestMax /\ \A j \in 1 .. ManifestMax : w[j] = l[j]

\* That is enough to see whether the line names a class, and which.
LEMMA StandsIs ==
  ASSUME NEW l \in Seq(Int), NEW w, StandsFor(w, l), KeptWhole(l)
  PROVE  /\ Begins(w, KeyMain) <=> Begins(l, KeyMain)
         /\ Begins(l, KeyMain) => MainValue(w) = MainOf(l)
  <1>1. PICK M \in Nat, c \in Nat, m \in Nat : M = ManifestMax /\ c = ClassMax /\ m = Len(KeyMain) /\ m <= M
    BY KeyIs
  <1>2. w \in Seq(Int) /\ (Len(l) <= M => w = l)
        /\ (Len(l) > M => Len(w) >= M /\ \A j \in 1 .. M : w[j] = l[j])
    BY <1>1 DEF StandsFor
  <1>3. Begins(w, KeyMain) <=> m <= Len(w) /\ \A j \in 1 .. m : w[j] = KeyMain[j]
    BY <1>1, <1>2, KeyBegins
  <1>4. Begins(l, KeyMain) <=> m <= Len(l) /\ \A j \in 1 .. m : l[j] = KeyMain[j]
    BY <1>1, KeyBegins
  <1>5. CASE Len(l) > M
    <2>1. m <= Len(l) /\ m <= Len(w)
      BY <1>1, <1>2, <1>5
    <2>2. \A j \in 1 .. m : w[j] = l[j]
      BY <1>1, <1>2, <1>5
    <2>3. ~Begins(l, KeyMain)
      BY <1>1, <1>5 DEF KeptWhole
    <2> QED
      BY <1>3, <1>4, <2>1, <2>2, <2>3
  <1>6. CASE ~(Len(l) > M)
    <2>1. w = l
      BY <1>1, <1>2, <1>6
    <2>2. ASSUME Begins(l, KeyMain) PROVE MainValue(w) = MainOf(l)
      <3>1. PICK v \in Seq(Int) : v = MainOf(l)
        BY MainType
      <3>2. MainValue(w) = Upto(v, c)
        BY <1>1, <2>1, <3>1, MainType
      <3>3. Len(v) <= c
        BY <1>1, <2>2, <3>1 DEF KeptWhole
      <3>4. Upto(v, c) = SubSeq(v, 1, Len(v))
        BY <3>3, UptoIs
      <3> QED
        BY <3>1, <3>2, <3>4
    <2> QED
      BY <2>1, <2>2
  <1> QED
    BY <1>5, <1>6

\* What is kept of a line stands for it.
LEMMA KeptStands ==
  ASSUME NEW l \in Seq(Int)
  PROVE  StandsFor(Upto(l, ManifestMax), l)
  <1>1. PICK M \in Nat : M = ManifestMax
    BY KeyIs
  <1>2. PICK w : w = Upto(l, M)
    OBVIOUS
  <1>3. w \in Seq(Int) /\ w = SubSeq(l, 1, IF Len(l) <= M THEN Len(l) ELSE M)
    BY <1>2, UptoIs
  <1>4. CASE Len(l) <= M
    <2>1. w = l
      BY <1>3, <1>4
    <2> QED
      BY <1>1, <1>2, <1>3, <1>4, <2>1 DEF StandsFor
  <1>5. CASE ~(Len(l) <= M)
    <2>1. w = SubSeq(l, 1, M)
      BY <1>3, <1>5
    <2>2. Len(w) = M /\ \A j \in 1 .. M : w[j] = l[j]
      BY <1>5, <2>1
    <2> QED
      BY <1>1, <1>2, <1>3, <1>5, <2>2 DEF StandsFor
  <1> QED
    BY <1>4, <1>5

\* One character more.
LEMMA AppendIs ==
  ASSUME NEW u \in Seq(Int), NEW c \in Int
  PROVE  \E l : l = Append(u, c) /\ l \in Seq(Int) /\ Len(l) = Len(u) + 1 /\ \A j \in 1 .. Len(u) : l[j] = u[j]
  <1> WITNESS Append(u, c)
  <1>1. Append(u, c) \in Seq(Int)
    OBVIOUS
  <1>2. Len(Append(u, c)) = Len(u) + 1
    OBVIOUS
  <1>3. \A j \in 1 .. Len(u) : Append(u, c)[j] = u[j]
    OBVIOUS
  <1> QED
    BY <1>1, <1>2, <1>3

\* So does what is kept, with the last character behind it.
LEMMA LastStands ==
  ASSUME NEW u \in Seq(Int), NEW c \in Int
  PROVE  StandsFor(Append(Upto(u, ManifestMax), c), Append(u, c))
  <1>1. PICK M \in Nat : M = ManifestMax
    BY KeyIs
  <1>2. PICK w \in Seq(Int) : w = Upto(u, M)
    BY UptoIs
  <1>3. w = SubSeq(u, 1, IF Len(u) <= M THEN Len(u) ELSE M)
    BY <1>2, UptoIs
  <1>4. PICK l : l = Append(u, c) /\ l \in Seq(Int) /\ Len(l) = Len(u) + 1 /\ \A j \in 1 .. Len(u) : l[j] = u[j]
    BY AppendIs
  <1>5. PICK x : x = Append(w, c) /\ x \in Seq(Int) /\ Len(x) = Len(w) + 1 /\ \A j \in 1 .. Len(w) : x[j] = w[j]
    BY AppendIs
  <1>6. CASE Len(u) <= M
    <2>1. w = u
      BY <1>3, <1>6
    <2>2. x = l
      BY <1>4, <1>5, <2>1
    <2>3. Len(l) > M => Len(x) >= M /\ \A j \in 1 .. M : x[j] = l[j]
      BY <1>5, <2>2
    <2>4. StandsFor(x, l)
      BY <1>1, <1>5, <2>2, <2>3 DEF StandsFor
    <2> QED
      BY <1>1, <1>2, <1>4, <1>5, <2>4
  <1>7. CASE ~(Len(u) <= M)
    <2>1. w = SubSeq(u, 1, M)
      BY <1>3, <1>7
    <2>2. Len(w) = M /\ \A j \in 1 .. M : w[j] = u[j]
      BY <1>7, <2>1
    <2>3. Len(l) > M /\ Len(x) >= M
      BY <1>4, <1>5, <1>7, <2>2
    <2>4. \A j \in 1 .. M : x[j] = l[j]
      BY <1>4, <1>5, <1>7, <2>2
    <2>5. StandsFor(x, l)
      BY <1>1, <1>4, <1>5, <2>3, <2>4 DEF StandsFor
    <2> QED
      BY <1>1, <1>2, <1>4, <1>5, <2>5
  <1> QED
    BY <1>6, <1>7

\* The last lines.
LEMMA LastLineIs ==
  ASSUME NEW text \in Seq(Int), NEW g, Splits(text, g), NEW k \in 1 .. Len(text) + 1, EndOf(text, k) = Len(text) + 1,
         LinesKept(g[k])
  PROVE  /\ KeptWhole(SubSeq(text, k, Len(text)))
         /\ MainIn(g[k]) = IF Begins(SubSeq(text, k, Len(text)), KeyMain) THEN MainOf(SubSeq(text, k, Len(text))) ELSE <<>>
  <1>1. PICK w \in Nat : w = Len(text)
    OBVIOUS
  <1>2. k \in Nat \ {0}
    OBVIOUS
  <1>3. PICK l : l = SubSeq(text, k, w) /\ l \in Seq(Int)
    <2>1. SubSeq(text, k, w) \in Seq(Int)
      BY <1>1
    <2> QED
      BY <2>1
  <1>4. g[k] = <<SubSeq(text, k, EndOf(text, k) - 1)>>
               \o (IF EndOf(text, k) > Len(text) THEN <<>> ELSE g[EndOf(text, k) + 1])
    BY <1>2 DEF Splits
  <1>5. EndOf(text, k) - 1 = w /\ EndOf(text, k) > Len(text)
    BY <1>1
  <1>6. g[k] = <<l>> \o <<>>
    BY <1>3, <1>4, <1>5
  <1>7. <<>> \in Seq(Seq(Int))
    OBVIOUS
  <1>8. /\ MainIn(g[k]) = IF Begins(l, KeyMain) THEN MainOf(l) ELSE MainIn(<<>>)
        /\ KeptWhole(l)
    BY <1>3, <1>6, <1>7, MainOfLines
  <1>9. MainIn(<<>>) = <<>>
    <2>1. {j \in DOMAIN <<>> : Begins(<<>>[j], KeyMain)} = {}
      OBVIOUS
    <2> QED
      BY <2>1 DEF MainIn
  <1> QED
    BY <1>1, <1>3, <1>8, <1>9

\* The parser finds the class that the first line with the key names.
LEMMA ParseIs ==
  ASSUME NEW contents \in Seq(Int), LinesKept(LinesOf(contents))
  PROVE  parse_manifest_for_main(contents) = MainIn(LinesOf(contents))
  <1>1. PICK f : Seeks(contents, f) /\ parse_manifest_for_main(contents) = f[<<1, <<>>>>]
    BY SeekRuns
  <1>2. PICK g : Splits(contents, g) /\ LinesOf(contents) = g[1]
    BY SplitRuns
  <1>3. PICK w \in Nat : w = Len(contents)
    OBVIOUS
  <1> DEFINE part(k, e) == Upto(SubSeq(contents, k, e), ManifestMax)
  <1>4. ASSUME NEW k \in Nat, NEW e \in Nat, Within(contents, k, e)
        PROVE  /\ k \in 1 .. w + 1 /\ e \in k .. w + 1 /\ e \in Nat \ {0}
               /\ SubSeq(contents, k, e - 1) \in Seq(Int) /\ part(k, e - 1) \in Seq(Int)
               /\ StandsFor(part(k, e - 1), SubSeq(contents, k, e - 1))
    <2>1. k \in 1 .. w + 1 /\ e \in k .. w + 1 /\ e \in Nat \ {0}
      BY <1>3, <1>4 DEF Within
    <2>2. PICK h \in 0 .. w : h = e - 1
      BY <2>1
    <2>3. PICK l \in Seq(Int) : l = SubSeq(contents, k, e - 1)
      <3>1. SubSeq(contents, k, h) \in Seq(Int)
        BY <1>3, <2>1, <2>2
      <3> QED
        BY <2>2, <3>1
    <2>4. Upto(l, ManifestMax) \in Seq(Int) /\ StandsFor(Upto(l, ManifestMax), l)
      BY <2>3, UptoIs, KeyIs, KeptStands
    <2> QED
      BY <2>1, <2>3, <2>4
  <1>5. part(1, 0) = <<>> /\ \A k \in 1 .. w + 1 : part(k, k - 1) = <<>>
    <2>1. \A k \in 1 .. w + 1 : SubSeq(contents, k, k - 1) = <<>>
      BY <1>3
    <2>2. <<>> \in Seq(Int)
      OBVIOUS
    <2>3. Upto(<<>>, ManifestMax) = SubSeq(<<>>, 1, IF Len(<<>>) <= ManifestMax THEN Len(<<>>) ELSE ManifestMax)
      BY <2>2, UptoIs, KeyIs
    <2>4. SubSeq(<<>>, 1, IF Len(<<>>) <= ManifestMax THEN Len(<<>>) ELSE ManifestMax) = <<>>
      BY KeyIs
    <2>5. SubSeq(contents, 1, 0) = <<>>
      BY <1>3
    <2> QED
      BY <2>1, <2>3, <2>4, <2>5
  <1> DEFINE T == {c \in Nat : \A k \in Nat, e \in Nat :
                     e + c = w + 1 /\ Within(contents, k, e) /\ LinesKept(g[k]) =>
                         f[<<e, part(k, e - 1)>>] = MainIn(g[k])}
  <1>6. ASSUME NEW c \in Nat, \A d \in Nat : d < c => d \in T PROVE c \in T
    <2> SUFFICES ASSUME NEW k \in Nat, NEW e \in Nat, e + c = w + 1, Within(contents, k, e), LinesKept(g[k])
                 PROVE  f[<<e, part(k, e - 1)>>] = MainIn(g[k])
      OBVIOUS
    <2>1. PICK l \in Seq(Int), p \in Seq(Int) : /\ l = SubSeq(contents, k, e - 1) /\ p = part(k, e - 1)
                                               /\ StandsFor(p, l)
      BY <1>4
    <2>2. k \in 1 .. w + 1 /\ e \in k .. w + 1 /\ e \in Nat \ {0}
      BY <1>4
    <2>3. f[<<e, p>>] = IF ReadsOn(contents, e) THEN f[<<e + 1, MainKept(p, contents[e])>>]
                        ELSE IF Begins(WholeAt(contents, e, p), KeyMain) THEN MainValue(WholeAt(contents, e, p))
                        ELSE IF e >= w THEN <<>> ELSE f[<<e + 1, <<>>>>]
      BY <1>1, <1>3, <2>1, <2>2 DEF Seeks
    <2>4. CASE e = w + 1
      <3>1. ~ReadsOn(contents, e) /\ WholeAt(contents, e, p) = p
        BY <1>3, <2>4 DEF ReadsOn, WholeAt
      <3>2. EndOf(contents, k) = Len(contents) + 1
        BY <1>3, <2>4, LineGoesOn
      <3>3. l = SubSeq(contents, k, Len(contents))
        BY <1>3, <2>1, <2>4
      <3>4. k \in 1 .. Len(contents) + 1
        BY <1>3, <2>2
      <3>5. KeptWhole(l) /\ MainIn(g[k]) = IF Begins(l, KeyMain) THEN MainOf(l) ELSE <<>>
        BY <1>2, <3>2, <3>3, <3>4, LastLineIs
      <3>6. (Begins(p, KeyMain) <=> Begins(l, KeyMain)) /\ (Begins(l, KeyMain) => MainValue(p) = MainOf(l))
        BY <2>1, <3>5, StandsIs
      <3>7. e >= w
        BY <2>4
      <3>8. f[<<e, p>>] = MainIn(g[k])
        BY <2>3, <3>1, <3>5, <3>6, <3>7
      <3> QED
        BY <2>1, <3>8
    <2>5. CASE e # w + 1 /\ contents[e] \in LineEnd
      <3>1. e \in 1 .. w
        BY <2>2, <2>5
      <3>2. ~ReadsOn(contents, e)
        BY <2>5 DEF ReadsOn
      <3>3. WholeAt(contents, e, p) = p
        <4>1. CASE e = w
          <5>1. contents # <<>> /\ Last(contents) = contents[e]
            BY <1>3, <3>1, <4>1 DEF Last
          <5> QED
            BY <2>5, <5>1 DEF WholeAt, LastLine
        <4>2. CASE e # w
          BY <1>3, <4>2 DEF WholeAt
        <4> QED
          BY <4>1, <4>2
      <3>4. EndOf(contents, k) = e
        BY <2>5, LineGoesOn
      <3>5. g[k] = <<l>> \o g[e + 1] /\ g[e + 1] \in Seq(Seq(Int))
        <4>1. g[k] = <<SubSeq(contents, k, EndOf(contents, k) - 1)>>
                 \o (IF EndOf(contents, k) > Len(contents) THEN <<>> ELSE g[EndOf(contents, k) + 1])
          BY <1>2, <2>2 DEF Splits
        <4>2. ~(e > Len(contents)) /\ e + 1 \in Nat \ {0}
          BY <1>3, <3>1
        <4>3. g[e + 1] \in Seq(Seq(Int))
          BY <1>2, <4>2 DEF Splits
        <4> QED
          BY <2>1, <3>4, <4>1, <4>2, <4>3
      <3>6. /\ MainIn(g[k]) = IF Begins(l, KeyMain) THEN MainOf(l) ELSE MainIn(g[e + 1])
            /\ KeptWhole(l) /\ LinesKept(g[e + 1])
        <4>1. PICK rest \in Seq(Seq(Int)) : rest = g[e + 1]
          BY <3>5
        <4>2. PICK both : both = g[k] /\ both = <<l>> \o rest /\ LinesKept(both)
          BY <3>5, <4>1
        <4>3. /\ MainIn(both) = IF Begins(l, KeyMain) THEN MainOf(l) ELSE MainIn(rest)
              /\ LinesKept(both) => KeptWhole(l) /\ LinesKept(rest)
          <5> HIDE DEF part, T
          <5>1. l \in Seq(Int) /\ rest \in Seq(Seq(Int)) /\ both = <<l>> \o rest
            BY <4>2
          <5> QED
            BY ONLY <5>1, MainOfLines
        <4> QED
          BY <4>1, <4>2, <4>3
      <3>7. (Begins(p, KeyMain) <=> Begins(l, KeyMain)) /\ (Begins(l, KeyMain) => MainValue(p) = MainOf(l))
        BY <2>1, <3>6, StandsIs
      <3>8. Within(contents, e + 1, e + 1) /\ e + 1 \in Nat /\ c - 1 \in Nat /\ c - 1 < c /\ (e + 1) + (c - 1) = w + 1
        <4>1. e + 1 \in Nat /\ c - 1 \in Nat /\ c - 1 < c /\ (e + 1) + (c - 1) = w + 1
          BY <3>1
        <4>2. e + 1 \in 1 .. w + 1 /\ e + 1 \in (e + 1) .. w + 1 /\ (e + 1) .. ((e + 1) - 1) = {}
          BY <3>1
        <4>3. Within(contents, e + 1, e + 1)
          BY <1>3, <4>2 DEF Within
        <4> QED
          BY <4>1, <4>3
      <3>9. ASSUME e >= w PROVE MainIn(g[e + 1]) = <<>>
        <4>1. e + 1 = Len(contents) + 1 /\ e + 1 \in 1 .. Len(contents) + 1
          BY <1>3, <3>1, <3>9
        <4>2. EndOf(contents, e + 1) = Len(contents) + 1
          BY <3>8, <4>1, LineGoesOn
        <4>3. SubSeq(contents, e + 1, Len(contents)) = <<>>
          BY <1>3, <3>1, <3>9
        <4>4. MainIn(g[e + 1]) = IF Begins(<<>>, KeyMain) THEN MainOf(<<>>) ELSE <<>>
          BY <1>2, <3>6, <4>1, <4>2, <4>3, LastLineIs
        <4> QED
          BY <4>4, NoLines
      <3>10. f[<<e + 1, <<>>>>] = MainIn(g[e + 1])
        <4>1. c - 1 \in T
          BY <1>6, <3>8
        <4>2. f[<<e + 1, part(e + 1, (e + 1) - 1)>>] = MainIn(g[e + 1])
          <5> HIDE DEF part
          <5> QED
            BY <3>6, <3>8, <4>1
        <4>3. e + 1 \in 1 .. w + 1
          BY <3>1
        <4>4. part(e + 1, (e + 1) - 1) = <<>>
          <5> HIDE DEF part
          <5> QED
            BY <1>5, <4>3
        <4> HIDE DEF part
        <4> QED
          BY <4>2, <4>4
      <3>11. f[<<e, p>>] = MainIn(g[k])
        BY <2>3, <3>2, <3>3, <3>6, <3>7, <3>9, <3>10
      <3> QED
        BY <2>1, <3>11
    <2>6. CASE e # w + 1 /\ contents[e] \notin LineEnd
      <3>1. e \in 1 .. w /\ e \in k .. w /\ k \in 1 .. w
        BY <2>2, <2>6
      <3>2. Within(contents, k, e + 1)
        <4>1. e <= Len(contents) /\ contents[e] \notin LineEnd /\ Within(contents, k, e)
          BY <1>3, <2>6, <3>1
        <4> HIDE DEF part, T
        <4> QED
          BY <4>1, LineGoesOn
      <3>3. CASE e < w
        <4>1. ReadsOn(contents, e)
          BY <1>3, <2>6, <3>3 DEF ReadsOn
        <4>2. MainKept(p, contents[e]) = part(k, e)
          <5>1. MainKept(p, contents[e]) = KeepsTo(ManifestMax, p, contents[e])
            BY DEF MainKept, KeepsTo
          <5>2. KeepsTo(ManifestMax, part(k, e - 1), contents[e]) = part(k, e)
            BY <1>3, <3>1, KeepsMore, KeyIs
          <5> HIDE DEF part
          <5> QED
            BY <2>1, <5>1, <5>2
        <4>3. e + 1 \in Nat /\ c - 1 \in Nat /\ c - 1 < c /\ (e + 1) + (c - 1) = w + 1 /\ (e + 1) - 1 = e
          BY <3>1
        <4>4. c - 1 \in T
          BY <1>6, <4>3
        <4> HIDE DEF part
        <4>5. f[<<e + 1, part(k, (e + 1) - 1)>>] = MainIn(g[k])
          BY <3>2, <4>3, <4>4
        <4> QED
          BY <2>1, <2>3, <4>1, <4>2, <4>3, <4>5
      <3>4. CASE ~(e < w)
        <4>1. e = w /\ ~ReadsOn(contents, e) /\ e >= w
          BY <1>3, <3>1, <3>4 DEF ReadsOn
        <4>2. contents # <<>> /\ Last(contents) = contents[e] /\ contents[e] \in Int
          BY <1>3, <3>1, <4>1 DEF Last
        <4>3. WholeAt(contents, e, p) = Append(p, contents[e])
          BY <1>3, <2>6, <4>1, <4>2 DEF WholeAt, LastLine
        <4>4. PICK r \in Seq(Int) : r = SubSeq(contents, k, w) /\ r = Append(l, contents[e])
          <5>1. PICK r : r = SubSeq(contents, k, w)
            OBVIOUS
          <5>2. r \in Seq(Int)
            BY <1>3, <3>1, <5>1
          <5>3. Len(r) = w - k + 1 /\ \A j \in 1 .. w - k + 1 : r[j] = contents[k + j - 1]
            <6>1. Len(r) = w - k + 1
              BY <1>3, <3>1, <5>1
            <6>2. \A j \in 1 .. w - k + 1 : r[j] = contents[k + j - 1]
              BY <1>3, <3>1, <5>1
            <6> QED
              BY <6>1, <6>2
          <5>4. l = SubSeq(contents, k, w - 1)
            BY <2>1, <4>1
          <5>5. Len(l) = w - k /\ \A j \in 1 .. w - k : l[j] = contents[k + j - 1]
            <6>1. PICK h \in Nat : h = w - 1 /\ h <= w
              BY <3>1
            <6>2. l = SubSeq(contents, k, h)
              BY <5>4, <6>1
            <6>3. h - k + 1 = w - k
              BY <3>1, <6>1
            <6>4. Len(l) = h - k + 1
              BY <1>3, <3>1, <6>1, <6>2
            <6>5. \A j \in 1 .. h - k + 1 : l[j] = contents[k + j - 1]
              BY <1>3, <3>1, <6>1, <6>2
            <6> QED
              BY <6>3, <6>4, <6>5
          <5>6. PICK a : a = Append(l, contents[e]) /\ a \in Seq(Int) /\ Len(a) = Len(l) + 1
                         /\ a[Len(l) + 1] = contents[e] /\ \A j \in 1 .. Len(l) : a[j] = l[j]
            <6>1. PICK x \in Int : x = contents[e]
              BY <4>2
            <6>2. Append(l, x)[Len(l) + 1] = x
              BY <2>1
            <6>3. PICK a : a = Append(l, x) /\ a \in Seq(Int) /\ Len(a) = Len(l) + 1 /\ \A j \in 1 .. Len(l) : a[j] = l[j]
              BY <2>1, <6>1, AppendIs
            <6> QED
              BY <6>1, <6>2, <6>3
          <5>7. \A j \in 1 .. Len(a) : a[j] = r[j]
            <6> SUFFICES ASSUME NEW j \in 1 .. Len(a) PROVE a[j] = r[j]
              OBVIOUS
            <6>1. CASE j <= w - k
              BY <3>1, <5>3, <5>5, <5>6, <6>1
            <6>2. CASE ~(j <= w - k)
              <7>1. j = w - k + 1
                BY <3>1, <5>5, <5>6, <6>2
              <7>2. r[j] = contents[k + j - 1] /\ k + j - 1 = e
                BY <3>1, <4>1, <5>3, <7>1
              <7> QED
                BY <5>5, <5>6, <7>1, <7>2
            <6> QED
              BY <6>1, <6>2
          <5>8. Len(a) = Len(r)
            BY <3>1, <5>3, <5>5, <5>6
          <5>9. a = r
            BY <5>2, <5>6, <5>7, <5>8, ElementsEqual
          <5> QED
            BY <5>1, <5>2, <5>6, <5>9
        <4>5. EndOf(contents, k) = Len(contents) + 1
          <5>1. e + 1 = Len(contents) + 1
            BY <1>3, <4>1
          <5> QED
            BY <3>2, <5>1, LineGoesOn
        <4>6. k \in 1 .. Len(contents) + 1 /\ r = SubSeq(contents, k, Len(contents))
          BY <1>3, <2>2, <4>4
        <4>7. KeptWhole(r) /\ MainIn(g[k]) = IF Begins(r, KeyMain) THEN MainOf(r) ELSE <<>>
          BY <1>2, <4>5, <4>6, LastLineIs
        <4>8. StandsFor(Append(p, contents[e]), r)
          <5>1. StandsFor(Append(Upto(l, ManifestMax), contents[e]), Append(l, contents[e]))
            BY <2>1, <4>2, LastStands
          <5> QED
            BY <2>1, <4>4, <5>1
        <4>9. /\ Begins(Append(p, contents[e]), KeyMain) <=> Begins(r, KeyMain)
              /\ Begins(r, KeyMain) => MainValue(Append(p, contents[e])) = MainOf(r)
          BY <4>4, <4>7, <4>8, StandsIs
        <4>10. f[<<e, p>>] = MainIn(g[k])
          BY <2>3, <4>1, <4>3, <4>7, <4>9
        <4> QED
          BY <2>1, <4>10
      <3> QED
        BY <3>3, <3>4
    <2> QED
      BY <2>4, <2>5, <2>6
  <1>7. w \in T
    <2> HIDE DEF T
    <2>1. Nat \subseteq T
      BY <1>6, ByLesser
    <2> QED
      BY <2>1
  <1>8. f[<<1, part(1, 1 - 1)>>] = MainIn(g[1])
    <2>1. Within(contents, 1, 1) /\ 1 + w = w + 1
      BY <1>3 DEF Within
    <2> HIDE DEF part
    <2> QED
      BY <1>2, <1>7, <2>1
  <1>9. part(1, 1 - 1) = <<>>
    <2>1. 1 - 1 = 0
      OBVIOUS
    <2> HIDE DEF part
    <2> QED
      BY <1>5, <2>1
  <1> QED
    BY <1>1, <1>2, <1>8, <1>9
=============================================================================
