----------------------------- MODULE Induction -----------------------------
(***************************************************************************)
(* Induction over data.  What a recursive function computes is shown by    *)
(* induction over the places it is defined on; that such a function exists *)
(* at all is shown once, by Recursion.  Then what is the same for all      *)
(* models that use them: flattened sequences, and the powers of two.       *)
(***************************************************************************)
EXTENDS Integers, Sequences, SequencesExt, WellFoundedInduction, TLAPS

\* A set of numbers that is not empty has a least one.
LEMMA LeastNumber ==
  ASSUME NEW T, T \subseteq Nat, T # {}
  PROVE  \E x \in T : \A y \in T : x <= y
  <1>1. PICK x \in T : \A y \in T : ~ (<<y, x>> \in OpToRel(<, Nat))
    BY NatLessThanWellFounded, WFMin
  <1>2. \A y \in T : ~ (y < x)
    BY <1>1 DEF OpToRel
  <1> QED
    BY <1>2

\* Induction over the elements of a set by a number of each, as a fact about the
\* set of those for which the claim holds.
LEMMA ByRank ==
  ASSUME NEW D, NEW rank \in [D -> Nat], NEW T,
         \A d \in D : (\A e \in D : rank[e] < rank[d] => e \in T) => d \in T
  PROVE  D \subseteq T
  <1> SUFFICES ASSUME NEW c \in D, c \notin T PROVE FALSE
    OBVIOUS
  <1> DEFINE ranks == {rank[d] : d \in D \ T}
  <1>1. ranks \subseteq Nat /\ ranks # {}
    OBVIOUS
  <1>2. PICK k \in ranks : \A j \in ranks : k <= j
    BY <1>1, LeastNumber
  <1>3. PICK d \in D \ T : k = rank[d]
    BY <1>2
  <1>4. \A e \in D : rank[e] < rank[d] => e \in T
    <2> SUFFICES ASSUME NEW e \in D, rank[e] < rank[d], e \notin T PROVE FALSE
      OBVIOUS
    <2>1. rank[e] \in ranks
      OBVIOUS
    <2>2. k <= rank[e] /\ k \in Nat /\ rank[e] \in Nat
      BY <1>1, <1>2, <2>1
    <2> QED
      BY <1>3, <2>2
  <1> QED
    BY <1>3, <1>4

\* Induction over the numbers.
LEMMA ByNumber ==
  ASSUME NEW T, 0 \in T, \A k \in Nat : k \in T => k + 1 \in T
  PROVE  Nat \subseteq T
  <1> DEFINE rank == [k \in Nat |-> k]
  <1>1. rank \in [Nat -> Nat]
    OBVIOUS
  <1>2. ASSUME NEW d \in Nat, \A e \in Nat : rank[e] < rank[d] => e \in T PROVE d \in T
    <2>1. CASE d = 0
      BY <2>1
    <2>2. CASE d # 0
      <3>1. d - 1 \in Nat /\ rank[d - 1] < rank[d] /\ d = (d - 1) + 1
        BY <2>2
      <3> QED
        BY <1>2, <3>1
    <2> QED
      BY <2>1, <2>2
  <1> HIDE DEF rank
  <1> QED
    BY <1>1, <1>2, ByRank

\* A recursion on D goes on at `next' of each place, unless it stops there.
Descends(D, rank, Stop, next) == \A d \in D : d \notin Stop => rank[next[d]] < rank[d]

Recurs(D, Stop, next, base, step, f) ==
    \A d \in D : f[d] = IF d \in Stop THEN base[d] ELSE step[<<d, f[next[d]]>>]

\* If the places it goes on at have lower and lower ranks, some function obeys it.
LEMMA Recursion ==
  ASSUME NEW D, NEW V, NEW rank \in [D -> Nat], NEW Stop, NEW next \in [D -> D],
         NEW base \in [D -> V], NEW step \in [D \X V -> V], Descends(D, rank, Stop, next)
  PROVE  \E f \in [D -> V] : Recurs(D, Stop, next, base, step, f)
  <1> DEFINE Upto(k) == {d \in D : rank[d] < k}
             Solves(k, f) == /\ f \in [Upto(k) -> V]
                             /\ \A d \in Upto(k) :
                                  f[d] = IF d \in Stop THEN base[d] ELSE step[<<d, f[next[d]]>>]
             T == {k \in Nat : \E f : Solves(k, f)}
  <1>0. \A d \in D : d \notin Stop => rank[next[d]] < rank[d]
    BY DEF Descends
  <1>1. 0 \in T
    <2>1. Upto(0) = {}
      OBVIOUS
    <2>2. Solves(0, [d \in {} |-> d])
      BY <2>1
    <2> QED
      BY <2>2
  <1>2. ASSUME NEW k \in Nat, k \in T PROVE k + 1 \in T
    <2>1. PICK f : Solves(k, f)
      BY <1>2
    <2> DEFINE g == [d \in Upto(k + 1) |->
                        IF d \in Stop THEN base[d] ELSE step[<<d, f[next[d]]>>]]
    <2>2. \A d \in Upto(k + 1) : d \notin Stop => next[d] \in Upto(k)
      BY <1>0
    <2>3. \A d \in Upto(k) : d \in Upto(k + 1)
      OBVIOUS
    <2> HIDE DEF Upto
    <2>4. g \in [Upto(k + 1) -> V]
      <3> SUFFICES ASSUME NEW d \in Upto(k + 1)
                   PROVE  (IF d \in Stop THEN base[d] ELSE step[<<d, f[next[d]]>>]) \in V
        OBVIOUS
      <3>1. d \in D
        BY DEF Upto
      <3>2. d \notin Stop => <<d, f[next[d]]>> \in D \X V
        BY <2>1, <2>2, <3>1
      <3> QED
        BY <3>1, <3>2
    <2>5. \A d \in Upto(k) : g[d] = f[d]
      BY <2>1, <2>3
    <2>6. ASSUME NEW d \in Upto(k + 1)
          PROVE  g[d] = IF d \in Stop THEN base[d] ELSE step[<<d, g[next[d]]>>]
      <3>1. g[d] = IF d \in Stop THEN base[d] ELSE step[<<d, f[next[d]]>>]
        OBVIOUS
      <3> HIDE DEF g
      <3> QED
        BY <2>2, <2>5, <3>1
    <2>7. Solves(k + 1, g)
      BY <2>4, <2>6
    <2> HIDE DEF Solves, g
    <2> QED
      BY <2>7
  <1>3. \A k \in Nat : \E f : Solves(k, f)
    <2> HIDE DEF Solves, T
    <2>1. Nat \subseteq T
      BY <1>1, <1>2, ByNumber
    <2> QED
      BY <2>1 DEF T
  \* Two solutions agree where both are defined.
  <1>4. ASSUME NEW k \in Nat, NEW j \in Nat, k <= j, NEW f, NEW g, Solves(k, f), Solves(j, g)
        PROVE  \A d \in Upto(k) : f[d] = g[d]
    <2> DEFINE R == {d \in D : rank[d] < k => f[d] = g[d]}
    <2>1. ASSUME NEW d \in D, \A e \in D : rank[e] < rank[d] => e \in R PROVE d \in R
      <3> SUFFICES ASSUME rank[d] < k PROVE f[d] = g[d]
        OBVIOUS
      <3>1. d \in Upto(k) /\ d \in Upto(j)
        BY <1>4
      <3>2. d \notin Stop => f[next[d]] = g[next[d]]
        <4> SUFFICES ASSUME d \notin Stop PROVE f[next[d]] = g[next[d]]
          OBVIOUS
        <4>1. next[d] \in D /\ rank[next[d]] < rank[d] /\ rank[next[d]] \in Nat /\ rank[d] \in Nat
          BY <1>0
        <4>2. next[d] \in R
          BY <2>1, <4>1
        <4> QED
          BY <4>1, <4>2
      <3> HIDE DEF Upto
      <3> QED
        BY <1>4, <3>1, <3>2
    <2>2. D \subseteq R
      <3> HIDE DEF R
      <3> QED
        BY <2>1, ByRank
    <2> QED
      BY <2>2
  <1> DEFINE piece == [k \in Nat |-> CHOOSE f : Solves(k, f)]
             f == [d \in D |-> piece[rank[d] + 1][d]]
  <1>5. \A k \in Nat : Solves(k, piece[k])
    <2> HIDE DEF Solves
    <2> QED
      BY <1>3
  <1>6. ASSUME NEW d \in D, NEW k \in Nat, rank[d] < k PROVE f[d] = piece[k][d]
    <2> HIDE DEF Solves, piece
    <2>1. rank[d] + 1 \in Nat /\ rank[d] + 1 <= k /\ d \in Upto(rank[d] + 1)
      BY <1>6
    <2>2. Solves(rank[d] + 1, piece[rank[d] + 1]) /\ Solves(k, piece[k])
      BY <1>5, <2>1
    <2> HIDE DEF Upto
    <2>3. piece[rank[d] + 1][d] = piece[k][d]
      BY <1>4, <2>1, <2>2
    <2> QED
      BY <2>3
  <1>7. ASSUME NEW d \in D
        PROVE  f[d] \in V /\ f[d] = IF d \in Stop THEN base[d] ELSE step[<<d, f[next[d]]>>]
    <2> DEFINE k == rank[d] + 1
    <2>1. k \in Nat /\ rank[d] < k /\ d \in Upto(k)
      OBVIOUS
    <2>2. d \notin Stop => next[d] \in D /\ rank[next[d]] < k
      BY <1>0
    <2> HIDE DEF piece, Upto, f, k
    <2>3. Solves(k, piece[k])
      BY <1>5, <2>1
    <2>4. f[d] = piece[k][d] /\ (d \notin Stop => f[next[d]] = piece[k][next[d]])
      BY <1>6, <2>1, <2>2
    <2> QED
      BY <2>1, <2>3, <2>4
  <1>8. f \in [D -> V]
    BY <1>7
  <1> HIDE DEF f
  <1> QED
    BY <1>7, <1>8 DEF Recurs

\* A recursion on the numbers: what is at 0, and what follows from the place before.
Counts(f, base, step) ==
    \A k \in Nat : f[k] = IF k = 0 THEN base ELSE step[<<k, f[k - 1]>>]

\* There is such a function.
LEMMA NumberRecursion ==
  ASSUME NEW V, NEW base \in V, NEW step \in [Nat \X V -> V]
  PROVE  \E f \in [Nat -> V] : Counts(f, base, step)
  <1> DEFINE D == Nat
             rank == [k \in D |-> k]
             next == [k \in D |-> IF k = 0 THEN 0 ELSE k - 1]
             first == [k \in D |-> base]
  <1>1. /\ rank \in [D -> Nat] /\ next \in [D -> D] /\ first \in [D -> V]
        /\ Descends(D, rank, {0}, next)
    BY DEF Descends
  <1>2. PICK f \in [D -> V] : Recurs(D, {0}, next, first, step, f)
    <2> HIDE DEF rank, next, first
    <2> QED
      BY <1>1, Recursion
  <1>3. ASSUME NEW k \in Nat PROVE f[k] = IF k = 0 THEN base ELSE step[<<k, f[k - 1]>>]
    <2>1. f[k] = IF k \in {0} THEN first[k] ELSE step[<<k, f[next[k]]>>]
      BY <1>2 DEF Recurs
    <2>2. first[k] = base /\ next[k] = (IF k = 0 THEN 0 ELSE k - 1)
      OBVIOUS
    <2> HIDE DEF first, next
    <2> QED
      BY <2>1, <2>2
  <1> QED
    BY <1>2, <1>3 DEF Counts

-----------------------------------------------------------------------------
(* Flattened sequences *)

\* FlattenSeq by its partial results.
Flattens(s, f) ==
    /\ f[1] = s[1]
    /\ \A i \in 2 .. Len(s) : f[i] = f[i - 1] \o s[i]

\* Two sequences that begin with the same m elements.
Agree(s, t, m) ==
    /\ Len(s) \in Nat /\ Len(t) \in Nat /\ m \in Nat /\ m <= Len(s) /\ m <= Len(t)
    /\ \A i \in 1 .. m : s[i] = t[i]

\* FlattenSeq takes up one sequence after the other.
LEMMA Flattening ==
  ASSUME NEW S, NEW s \in Seq(Seq(S)), s # <<>>
  PROVE  \E f \in [1 .. Len(s) -> Seq(S)] : Flattens(s, f) /\ FlattenSeq(s) = f[Len(s)]
  <1> DEFINE D == 1 .. Len(s)
             V == Seq(S)
             rank == [i \in D |-> i]
             Stop == {1}
             next == [i \in D |-> IF i = 1 THEN 1 ELSE i - 1]
             base == [i \in D |-> s[i]]
             step == [p \in D \X V |-> p[2] \o s[p[1]]]
             Solves(f) == f = [i \in D |-> IF i = 1 THEN s[i] ELSE f[i - 1] \o s[i]]
             flatten == CHOOSE f : Solves(f)
  <1>1. /\ rank \in [D -> Nat] /\ next \in [D -> D] /\ base \in [D -> V]
        /\ Descends(D, rank, Stop, next)
    BY DEF Descends
  <1>2. step \in [D \X V -> V]
    OBVIOUS
  <1>3. PICK f \in [D -> V] :
          Recurs(D, Stop, next, base, step, f)
    <2> HIDE DEF D, V, rank, Stop, next, base, step, Solves, flatten
    <2> QED
      BY <1>1, <1>2, Recursion
  <1>4. Solves(f)
    <2> SUFFICES ASSUME NEW i \in D
                 PROVE  f[i] = IF i = 1 THEN s[i] ELSE f[i - 1] \o s[i]
      BY <1>3
    <2>1. f[i] = IF i \in Stop THEN base[i] ELSE step[<<i, f[next[i]]>>]
      BY <1>3 DEF Recurs
    <2>2. CASE i = 1
      BY <2>1, <2>2
    <2>3. CASE i # 1
      <3>1. next[i] = i - 1 /\ i - 1 \in D
        BY <2>3
      <3>4. f[i - 1] \in V
        BY <1>3, <3>1
      <3>2. f[i] = step[<<i, f[i - 1]>>]
        BY <2>1, <2>3, <3>1
      <3>3. <<i, f[i - 1]>> \in D \X V
        BY <3>4
      <3> QED
        BY <2>3, <3>2, <3>3
    <2> QED
      BY <2>2, <2>3
  <1>5. Solves(flatten)
    <2> HIDE DEF Solves
    <2> QED
      BY <1>4
  <1>6. FlattenSeq(s) = flatten[Len(s)]
    BY DEF FlattenSeq
  <1> HIDE DEF flatten
  <1>7. \A i \in D : flatten[i] = IF i = 1 THEN s[i] ELSE flatten[i - 1] \o s[i]
    BY <1>5
  <1>8. D = DOMAIN flatten /\ flatten = [i \in D |-> flatten[i]]
    BY <1>5
  <1> DEFINE T == {i \in D : flatten[i] \in V}
  <1>9. ASSUME NEW d \in D, \A e \in D : rank[e] < rank[d] => e \in T PROVE d \in T
    <2>1. CASE d = 1
      BY <1>7, <2>1
    <2>2. CASE d # 1
      <3>1. d - 1 \in D /\ rank[d - 1] < rank[d]
        BY <2>2
      <3>2. flatten[d - 1] \in V /\ s[d] \in V
        BY <1>9, <3>1
      <3>3. flatten[d] = flatten[d - 1] \o s[d]
        BY <1>7, <2>2
      <3>4. flatten[d - 1] \o s[d] \in Seq(S)
        BY <3>2
      <3>5. flatten[d] \in V
        BY <3>3, <3>4
      <3> QED
        BY <3>5
    <2> QED
      BY <2>1, <2>2
  <1>10. D \subseteq T
    <2> HIDE DEF T, D, rank
    <2> QED
      BY <1>1, <1>9, ByRank
  <1>11. flatten \in [D -> V]
    BY <1>8, <1>10
  <1>12. Flattens(s, flatten)
    <2>1. 1 \in D /\ \A i \in 2 .. Len(s) : i \in D /\ i # 1
      OBVIOUS
    <2> HIDE DEF D
    <2> QED
      BY <1>7, <2>1 DEF Flattens
  <1> QED
    BY <1>6, <1>11, <1>12

\* Partial results depend only on what has been flattened.
LEMMA FlattensOnce ==
  ASSUME NEW s, NEW t, NEW m, Agree(s, t, m), NEW f, NEW g, Flattens(s, f), Flattens(t, g)
  PROVE  m # 0 => f[m] = g[m]
  <1>0. /\ Len(s) \in Nat /\ Len(t) \in Nat /\ m \in Nat /\ m <= Len(s) /\ m <= Len(t)
        /\ \A i \in 1 .. m : s[i] = t[i]
    BY DEF Agree
  <1> DEFINE T == {i \in Nat : i \in 1 .. m => f[i] = g[i]}
  <1>1. 0 \in T
    OBVIOUS
  <1>2. ASSUME NEW k \in Nat, k \in T PROVE k + 1 \in T
    <2> SUFFICES ASSUME k + 1 \in 1 .. m PROVE f[k + 1] = g[k + 1]
      OBVIOUS
    <2>1. CASE k = 0
      BY <1>0, <2>1 DEF Flattens
    <2>2. CASE k > 0
      <3>1. k \in 1 .. m /\ k + 1 \in 2 .. Len(s) /\ k + 1 \in 2 .. Len(t) /\ (k + 1) - 1 = k
        BY <1>0, <2>2
      <3>2. f[k] = g[k]
        BY <1>2, <3>1
      <3>3. f[k + 1] = f[k] \o s[k + 1] /\ g[k + 1] = g[k] \o t[k + 1] /\ s[k + 1] = t[k + 1]
        BY <1>0, <3>1 DEF Flattens
      <3> QED
        BY <3>2, <3>3
    <2> QED
      BY <2>1, <2>2
  <1> HIDE DEF T
  <1>3. Nat \subseteq T
    BY <1>1, <1>2, ByNumber
  <1> QED
    BY <1>0, <1>3 DEF T

\* What is flattened consists of the same elements.
LEMMA FlattenType ==
  ASSUME NEW S, NEW s \in Seq(Seq(S))
  PROVE  FlattenSeq(s) \in Seq(S)
  <1>1. CASE s = <<>>
    BY <1>1 DEF FlattenSeq
  <1>2. CASE s # <<>>
    <2>1. Len(s) \in 1 .. Len(s)
      BY <1>2
    <2>2. PICK f \in [1 .. Len(s) -> Seq(S)] : FlattenSeq(s) = f[Len(s)]
      BY <1>2, Flattening
    <2> QED
      BY <2>1, <2>2
  <1> QED
    BY <1>1, <1>2

\* Of nothing there is nothing.
LEMMA FlattenEmpty == FlattenSeq(<<>>) = <<>>
  BY DEF FlattenSeq

\* A sequence more at the end.
LEMMA FlattenAppend ==
  ASSUME NEW S, NEW s \in Seq(Seq(S)), NEW x \in Seq(S)
  PROVE  FlattenSeq(Append(s, x)) = FlattenSeq(s) \o x
  <1> DEFINE t == Append(s, x)
  <1>1. /\ t \in Seq(Seq(S)) /\ Len(t) = Len(s) + 1 /\ t # <<>> /\ t[Len(s) + 1] = x
        /\ \A i \in 1 .. Len(s) : t[i] = s[i]
    <2>1. s \in Seq(Seq(S)) /\ x \in Seq(S)
      OBVIOUS
    <2>2. PICK Q : Q = Seq(S)
      OBVIOUS
    <2> QED
      BY <2>1, <2>2
  <1> HIDE DEF t
  <1>2. PICK g \in [1 .. Len(t) -> Seq(S)] : Flattens(t, g) /\ FlattenSeq(t) = g[Len(t)]
    BY <1>1, Flattening
  <1>3. CASE s = <<>>
    <2>1. Len(t) = 1 /\ FlattenSeq(t) = x
      BY <1>1, <1>2, <1>3 DEF Flattens
    <2>2. <<>> \o x = x
      OBVIOUS
    <2> QED
      BY <1>3, <2>1, <2>2, FlattenEmpty DEF t
  <1>4. CASE s # <<>>
    <2>1. PICK f \in [1 .. Len(s) -> Seq(S)] : Flattens(s, f) /\ FlattenSeq(s) = f[Len(s)]
      BY <1>4, Flattening
    <2>2. Len(s) \in 1 .. Len(s) /\ Len(s) \in Nat /\ Len(s) <= Len(t)
      BY <1>1, <1>4
    <2>3. f[Len(s)] = g[Len(s)]
      <3>1. PICK m \in Nat : m = Len(s)
        BY <2>2
      <3>2. Agree(s, t, m)
        BY <1>1, <2>2, <3>1 DEF Agree
      <3>3. Flattens(s, f) /\ Flattens(t, g)
        BY <1>2, <2>1
      <3>4. m # 0 => f[m] = g[m]
        BY <3>2, <3>3, FlattensOnce
      <3> QED
        BY <2>2, <3>1, <3>4
    <2>4. g[Len(t)] = g[Len(s)] \o x
      <3>1. Len(t) \in 2 .. Len(t) /\ Len(t) - 1 = Len(s) /\ t[Len(t)] = x
        BY <1>1, <2>2
      <3> QED
        BY <1>2, <3>1 DEF Flattens
    <2> QED
      BY <1>2, <2>1, <2>3, <2>4 DEF t
  <1> QED
    BY <1>3, <1>4

\* A sequence that is not empty is its front and its last element.
LEMMA FrontAndLast ==
  ASSUME NEW Q, NEW t \in Seq(Q), NEW k \in Nat, Len(t) = k + 1
  PROVE  /\ SubSeq(t, 1, k) \in Seq(Q) /\ Len(SubSeq(t, 1, k)) = k /\ t[k + 1] \in Q
         /\ t = Append(SubSeq(t, 1, k), t[k + 1])
  <1>1. SubSeq(t, 1, k) \in Seq(Q) /\ Len(SubSeq(t, 1, k)) = k /\ t[k + 1] \in Q
    OBVIOUS
  <1>2. \A i \in 1 .. k : SubSeq(t, 1, k)[i] = t[i]
    OBVIOUS
  <1>3. /\ Append(SubSeq(t, 1, k), t[k + 1]) \in Seq(Q)
        /\ Len(Append(SubSeq(t, 1, k), t[k + 1])) = k + 1
        /\ Append(SubSeq(t, 1, k), t[k + 1])[k + 1] = t[k + 1]
        /\ \A i \in 1 .. k : Append(SubSeq(t, 1, k), t[k + 1])[i] = t[i]
    BY <1>1, <1>2
  <1>4. \A i \in 1 .. k + 1 : i \in 1 .. k \/ i = k + 1
    OBVIOUS
  <1> QED
    BY <1>1, <1>3, <1>4

\* Concatenation goes element by element at the end.
LEMMA ConcatAppend ==
  ASSUME NEW Q, NEW s \in Seq(Q), NEW t \in Seq(Q), NEW x \in Q
  PROVE  /\ s \o t \in Seq(Q)
         /\ s \o Append(t, x) = Append(s \o t, x)
  OBVIOUS

\* Three sequences one behind the other.
LEMMA ConcatAgain ==
  ASSUME NEW Q, NEW s \in Seq(Q), NEW t \in Seq(Q), NEW u \in Seq(Q)
  PROVE  (s \o t) \o u = s \o (t \o u)
  OBVIOUS

\* Two sequences of sequences one behind the other.
LEMMA FlattenConcat ==
  ASSUME NEW S, NEW s \in Seq(Seq(S)), NEW t \in Seq(Seq(S))
  PROVE  FlattenSeq(s \o t) = FlattenSeq(s) \o FlattenSeq(t)
  <1> DEFINE Q == Seq(S)
             T == {k \in Nat : \A u \in Seq(Q) : Len(u) = k =>
                                  FlattenSeq(s \o u) = FlattenSeq(s) \o FlattenSeq(u)}
  <1> HIDE DEF Q
  <1>0. s \in Seq(Q) /\ t \in Seq(Q) /\ FlattenSeq(s) \in Seq(S)
    BY FlattenType DEF Q
  <1>1. 0 \in T
    <2> SUFFICES ASSUME NEW u \in Seq(Q), Len(u) = 0
                 PROVE  FlattenSeq(s \o u) = FlattenSeq(s) \o FlattenSeq(u)
      OBVIOUS
    <2>1. u = <<>> /\ s \o u = s
      BY <1>0
    <2>2. FlattenSeq(s) \o <<>> = FlattenSeq(s)
      BY <1>0
    <2> QED
      BY <2>1, <2>2, FlattenEmpty
  <1>2. ASSUME NEW k \in Nat, k \in T PROVE k + 1 \in T
    <2> SUFFICES ASSUME NEW u \in Seq(Q), Len(u) = k + 1
                 PROVE  FlattenSeq(s \o u) = FlattenSeq(s) \o FlattenSeq(u)
      OBVIOUS
    <2>1. PICK v, x : v = SubSeq(u, 1, k) /\ x = u[k + 1]
      OBVIOUS
    <2>2. v \in Seq(Q) /\ Len(v) = k /\ x \in Q /\ u = Append(v, x)
      BY <2>1, FrontAndLast
    <2>3. FlattenSeq(s \o v) = FlattenSeq(s) \o FlattenSeq(v)
      BY <1>2, <2>2
    <2>4. s \o u = Append(s \o v, x) /\ s \o v \in Seq(Q)
      BY <1>0, <2>2, ConcatAppend
    <2>5. FlattenSeq(u) = FlattenSeq(v) \o x /\ FlattenSeq(v) \in Seq(S)
      BY <2>2, FlattenAppend, FlattenType DEF Q
    <2>6. FlattenSeq(s \o u) = FlattenSeq(s \o v) \o x
      BY <2>2, <2>4, FlattenAppend DEF Q
    <2>7. x \in Seq(S)
      BY <2>2 DEF Q
    <2> QED
      BY <1>0, <2>3, <2>5, <2>6, <2>7, ConcatAgain
  <1> HIDE DEF T
  <1>3. Nat \subseteq T
    BY <1>1, <1>2, ByNumber
  <1>4. Len(t) \in T
    BY <1>0, <1>3
  <1> QED
    BY <1>0, <1>4 DEF T

\* A single sequence stays as it is.
LEMMA FlattenOne ==
  ASSUME NEW S, NEW x \in Seq(S)
  PROVE  FlattenSeq(<<x>>) = x
  <1>1. <<>> \in Seq(Seq(S)) /\ Append(<<>>, x) = <<x>> /\ <<>> \o x = x
    OBVIOUS
  <1> QED
    BY <1>1, FlattenEmpty, FlattenAppend

-----------------------------------------------------------------------------
(* Where an element lies in a flattened sequence *)

\* A sequence is what comes up to a place and what comes behind.
LEMMA SplitAt ==
  ASSUME NEW Q, NEW s \in Seq(Q), NEW j \in 0 .. Len(s)
  PROVE  /\ SubSeq(s, 1, j) \in Seq(Q) /\ SubSeq(s, j + 1, Len(s)) \in Seq(Q)
         /\ s = SubSeq(s, 1, j) \o SubSeq(s, j + 1, Len(s))
  <1> DEFINE u == SubSeq(s, 1, j)
             v == SubSeq(s, j + 1, Len(s))
  <1>0. Len(s) \in Nat /\ j \in Nat
    OBVIOUS
  <1>1. /\ u \in Seq(Q) /\ Len(u) = j /\ \A k \in 1 .. j : u[k] = s[k]
        /\ v \in Seq(Q) /\ Len(v) = Len(s) - j /\ \A k \in 1 .. Len(v) : v[k] = s[j + k]
    OBVIOUS
  <1> HIDE DEF u, v
  <1>2. u \o v \in Seq(Q) /\ Len(u \o v) = Len(s)
    BY <1>1
  <1>3. ASSUME NEW k \in 1 .. Len(s) PROVE (u \o v)[k] = s[k]
    <2>1. CASE k <= j
      BY <1>1, <2>1
    <2>2. CASE k > j
      <3>1. (u \o v)[k] = v[k - j] /\ k - j \in 1 .. Len(v) /\ j + (k - j) = k
        BY <1>1, <2>2
      <3> QED
        BY <1>1, <3>1
    <2>3. k <= j \/ k > j
      BY <1>0
    <2> QED
      BY <2>1, <2>2, <2>3, Zenon
  <1>4. u \o v = s
    <2>1. PICK w : w = u \o v
      OBVIOUS
    <2>2. w \in Seq(Q) /\ Len(w) = Len(s) /\ \A k \in 1 .. Len(s) : w[k] = s[k]
      BY <1>2, <1>3, <2>1
    <2>3. w = s
      BY <2>2
    <2> QED
      BY <2>1, <2>3, Zenon
  <1> QED
    BY <1>1, <1>4 DEF u, v

\* What comes up to the next place.
LEMMA UpToNext ==
  ASSUME NEW Q, NEW s \in Seq(Q), NEW j \in 1 .. Len(s)
  PROVE  /\ SubSeq(s, 1, j - 1) \in Seq(Q) /\ s[j] \in Q
         /\ SubSeq(s, 1, j) = Append(SubSeq(s, 1, j - 1), s[j])
  <1> DEFINE t == SubSeq(s, 1, j)
  <1>1. PICK k \in Nat : j = k + 1 /\ k = j - 1
    OBVIOUS
  <1>2. t \in Seq(Q) /\ Len(t) = k + 1 /\ t[k + 1] = s[j] /\ \A e \in 1 .. k : t[e] = s[e]
    BY <1>1
  <1>3. SubSeq(t, 1, k) = SubSeq(s, 1, k)
    BY <1>1, <1>2
  <1> HIDE DEF t
  <1>4. t = Append(SubSeq(t, 1, k), t[k + 1]) /\ SubSeq(t, 1, k) \in Seq(Q) /\ t[k + 1] \in Q
    BY <1>2, FrontAndLast
  <1> QED
    BY <1>1, <1>2, <1>3, <1>4 DEF t

\* The elements of a flattened sequence that lie before those of the j-th.
Start(s, j) == Len(FlattenSeq(SubSeq(s, 1, j - 1)))

\* A sequence starts where the one before ends.
LEMMA Starts ==
  ASSUME NEW S, NEW s \in Seq(Seq(S))
  PROVE  /\ Start(s, 1) = 0 /\ Start(s, Len(s) + 1) = Len(FlattenSeq(s))
         /\ \A j \in 1 .. Len(s) + 1 : Start(s, j) \in Nat
         /\ \A j \in 1 .. Len(s) : Len(s[j]) \in Nat /\ Start(s, j + 1) = Start(s, j) + Len(s[j])
  <1> DEFINE Q == Seq(S)
  <1> HIDE DEF Q
  <1>0. s \in Seq(Q)
    BY DEF Q
  <1>1. Start(s, 1) = 0
    <2>1. SubSeq(s, 1, 1 - 1) = <<>>
      BY <1>0
    <2>2. Start(s, 1) = Len(FlattenSeq(SubSeq(s, 1, 1 - 1)))
      BY DEF Start
    <2>3. Len(<<>>) = 0
      OBVIOUS
    <2> QED
      BY <2>1, <2>2, <2>3, FlattenEmpty, Zenon
  <1>2. Start(s, Len(s) + 1) = Len(FlattenSeq(s))
    <2>1. SubSeq(s, 1, (Len(s) + 1) - 1) = s
      BY <1>0
    <2> QED
      BY <2>1 DEF Start
  <1>3. ASSUME NEW j \in 1 .. Len(s) + 1 PROVE Start(s, j) \in Nat
    <2>1. SubSeq(s, 1, j - 1) \in Seq(Q)
      BY <1>0
    <2>2. FlattenSeq(SubSeq(s, 1, j - 1)) \in Seq(S)
      BY <2>1, FlattenType DEF Q
    <2> QED
      BY <2>2 DEF Start
  <1>4. ASSUME NEW j \in 1 .. Len(s)
        PROVE  Len(s[j]) \in Nat /\ Start(s, j + 1) = Start(s, j) + Len(s[j])
    <2>1. PICK u, x : u = SubSeq(s, 1, j - 1) /\ x = s[j]
      OBVIOUS
    <2>2. u \in Seq(Q) /\ x \in Q /\ SubSeq(s, 1, j) = Append(u, x)
      BY <1>0, <2>1, UpToNext
    <2>3. FlattenSeq(Append(u, x)) = FlattenSeq(u) \o x /\ FlattenSeq(u) \in Seq(S) /\ x \in Seq(S)
      BY <2>2, FlattenAppend, FlattenType DEF Q
    <2>4. (j + 1) - 1 = j
      OBVIOUS
    <2>5. Start(s, j + 1) = Len(FlattenSeq(SubSeq(s, 1, j))) /\ Start(s, j) = Len(FlattenSeq(u))
      BY <2>1, <2>4, Zenon DEF Start
    <2>6. SubSeq(s, 1, j) = Append(u, x)
      BY <2>2
    <2>7. Start(s, j + 1) = Len(FlattenSeq(u) \o x)
      BY <2>3, <2>5, <2>6
    <2>8. Len(FlattenSeq(u) \o x) = Len(FlattenSeq(u)) + Len(x) /\ Len(x) \in Nat
      BY <2>3
    <2> QED
      BY <2>1, <2>5, <2>7, <2>8
  <1> QED
    BY <1>1, <1>2, <1>3, <1>4

\* Where an element of a sequence is among all.
LEMMA FlattenedAt ==
  ASSUME NEW S, NEW s \in Seq(Seq(S)), NEW j \in 1 .. Len(s), NEW i \in 1 .. Len(s[j])
  PROVE  /\ Start(s, j) + i \in 1 .. Len(FlattenSeq(s))
         /\ FlattenSeq(s)[Start(s, j) + i] = s[j][i]
  <1> DEFINE Q == Seq(S)
  <1>1. PICK u, v, x : u = SubSeq(s, 1, j - 1) /\ v = SubSeq(s, j + 1, Len(s)) /\ x = s[j]
    OBVIOUS
  <1>2. /\ u \in Seq(Q) /\ x \in Q /\ SubSeq(s, 1, j) = Append(u, x)
        /\ v \in Seq(Q) /\ SubSeq(s, 1, j) \in Seq(Q) /\ s = SubSeq(s, 1, j) \o v
    <2> HIDE DEF Q
    <2>1. s \in Seq(Q) /\ j \in 0 .. Len(s)
      BY DEF Q
    <2> QED
      BY <1>1, <2>1, UpToNext, SplitAt
  <1>3. PICK f, g \in Seq(S) : f = FlattenSeq(u) /\ g = FlattenSeq(v) /\ x \in Seq(S)
    BY <1>2, FlattenType
  <1>4. FlattenSeq(SubSeq(s, 1, j)) = f \o x
    BY <1>2, <1>3, FlattenAppend
  <1>5. FlattenSeq(s) = (f \o x) \o g
    <2>1. FlattenSeq(SubSeq(s, 1, j) \o v) = FlattenSeq(SubSeq(s, 1, j)) \o g
      BY <1>2, <1>3, FlattenConcat
    <2> QED
      BY <1>2, <1>4, <2>1
  <1>6. Start(s, j) = Len(f) /\ i \in 1 .. Len(x)
    BY <1>1, <1>3 DEF Start
  <1>7. Len(f) + i \in 1 .. Len((f \o x) \o g) /\ ((f \o x) \o g)[Len(f) + i] = x[i]
    <2>1. f \o x \in Seq(S) /\ Len(f \o x) = Len(f) + Len(x) /\ (f \o x)[Len(f) + i] = x[i]
      BY <1>3, <1>6
    <2>2. PICK h \in Seq(S) : h = f \o x
      BY <2>1
    <2>3. Len(f) + i \in 1 .. Len(h)
      BY <1>3, <1>6, <2>1, <2>2
    <2> QED
      BY <1>3, <2>1, <2>2, <2>3
  <1> QED
    BY <1>1, <1>5, <1>6, <1>7

\* Elements of one length.
LEMMA EvenStarts ==
  ASSUME NEW S, NEW s \in Seq(Seq(S)), NEW L \in Nat, \A j \in 1 .. Len(s) : Len(s[j]) = L
  PROVE  \A j \in 1 .. Len(s) + 1 : Start(s, j) = (j - 1) * L
  <1> DEFINE T == {k \in Nat : k <= Len(s) => Start(s, k + 1) = k * L}
  <1>1. 0 \in T
    BY Starts
  <1>2. ASSUME NEW k \in Nat, k \in T PROVE k + 1 \in T
    <2> SUFFICES ASSUME k + 1 <= Len(s) PROVE Start(s, (k + 1) + 1) = (k + 1) * L
      OBVIOUS
    <2>1. k + 1 \in 1 .. Len(s)
      OBVIOUS
    <2>2. Start(s, (k + 1) + 1) = Start(s, k + 1) + L
      BY <2>1, Starts
    <2>3. Start(s, k + 1) = k * L
      BY <1>2
    <2>4. (k + 1) * L = k * L + L
      OBVIOUS
    <2> QED
      BY <2>2, <2>3, <2>4
  <1>3. Nat \subseteq T
    <2> HIDE DEF T
    <2> QED
      BY <1>1, <1>2, ByNumber
  <1>4. ASSUME NEW j \in 1 .. Len(s) + 1 PROVE Start(s, j) = (j - 1) * L
    <2>1. PICK k \in Nat : k = j - 1 /\ k + 1 = j /\ k <= Len(s)
      OBVIOUS
    <2> QED
      BY <1>3, <2>1
  <1> QED
    BY <1>4

\* No part of a flattened sequence starts behind its end.
LEMMA StartsInside ==
  ASSUME NEW S, NEW t \in Seq(Seq(S)), NEW j \in 1 .. Len(t) + 1
  PROVE  Start(t, j) \in Nat /\ Start(t, j) <= Len(FlattenSeq(t))
  <1> DEFINE Q == Seq(S)
  <1>1. PICK u, v : u = SubSeq(t, 1, j - 1) /\ v = SubSeq(t, (j - 1) + 1, Len(t))
    OBVIOUS
  <1>2. u \in Seq(Q) /\ v \in Seq(Q) /\ t = u \o v
    <2>1. t \in Seq(Q) /\ j - 1 \in 0 .. Len(t)
      OBVIOUS
    <2> HIDE DEF Q
    <2> QED
      BY <1>1, <2>1, SplitAt
  <1>3. FlattenSeq(t) = FlattenSeq(u) \o FlattenSeq(v)
    BY <1>2, FlattenConcat
  <1>4. PICK x \in Seq(S), y \in Seq(S) : x = FlattenSeq(u) /\ y = FlattenSeq(v)
    BY <1>2, FlattenType
  <1>5. Len(x \o y) = Len(x) + Len(y) /\ Len(x) \in Nat /\ Len(y) \in Nat
    OBVIOUS
  <1>6. Start(t, j) = Len(x)
    BY <1>1, <1>4 DEF Start
  <1> QED
    BY <1>3, <1>4, <1>5, <1>6

-----------------------------------------------------------------------------
(* Numbers, and more about sequences *)

\* OnlyQuotient and remainder.
LEMMA DivideNat ==
  ASSUME NEW a \in Nat, NEW w \in Nat \ {0}
  PROVE  a \div w \in Nat /\ a % w \in 0 .. w - 1 /\ a = (a \div w) * w + (a % w)
  <1>1. /\ a \div w \in Int /\ a % w \in 0 .. w - 1
        /\ a = (a \div w) * w + (a % w)
    OBVIOUS
  <1>2. PICK q \in Int, m \in Int : q = a \div w /\ m = a % w /\ m \in 0 .. w - 1 /\ a = q * w + m
    BY <1>1
  <1>3. q >= 0
    <2> SUFFICES ASSUME q <= -1 PROVE FALSE
      OBVIOUS
    <2>1. q * w <= (-1) * w
      OBVIOUS
    <2> QED
      BY <1>2, <2>1
  <1> QED
    BY <1>1, <1>2, <1>3

\* They are the only ones.
LEMMA OnlyQuotient ==
  ASSUME NEW w \in Nat \ {0}, NEW q \in Nat, NEW m \in 0 .. w - 1, NEW a, a = q * w + m
  PROVE  a \in Nat /\ a \div w = q /\ a % w = m
  <1>1. q * w \in Nat /\ a \in Nat
    OBVIOUS
  <1>2. PICK p \in Nat, k \in 0 .. w - 1 : p = a \div w /\ k = a % w /\ a = p * w + k
    BY <1>1, DivideNat
  <1>3. ASSUME NEW x \in Nat, NEW y \in Nat, x < y PROVE x * w + w <= y * w
    <2>1. (x + 1) * w <= y * w /\ (x + 1) * w = x * w + w
      BY <1>3
    <2> QED
      BY <2>1
  <1>4. p * w \in Nat
    BY <1>2
  <1>5. ~(p < q)
    <2> SUFFICES ASSUME p < q PROVE FALSE
      OBVIOUS
    <2>1. p * w + w <= q * w
      BY <1>2, <1>3
    <2> QED
      BY <1>1, <1>2, <1>4, <2>1
  <1>6. ~(q < p)
    <2> SUFFICES ASSUME q < p PROVE FALSE
      OBVIOUS
    <2>1. q * w + w <= p * w
      BY <1>2, <1>3
    <2> QED
      BY <1>1, <1>2, <1>4, <2>1
  <1>7. p = q
    BY <1>2, <1>5, <1>6
  <1>8. k = m
    BY <1>1, <1>2, <1>4, <1>7
  <1> QED
    BY <1>1, <1>2, <1>7, <1>8

\* A finite set of numbers that is not empty has a greatest one.
LEMMA GreatestNumber ==
  ASSUME NEW T, NEW bound \in Nat, T \subseteq 0 .. bound, T # {}
  PROVE  Max(T) \in T /\ \A y \in T : Max(T) >= y
  <1> DEFINE D == {x \in Nat : bound - x \in T}
  <1>1. ASSUME NEW y \in T PROVE y \in Nat /\ y <= bound /\ bound - y \in D
    <2>1. y \in Nat /\ bound - y \in Nat /\ bound - (bound - y) = y /\ y <= bound
      OBVIOUS
    <2> QED
      BY <2>1
  <1>2. D \subseteq Nat /\ D # {}
    BY <1>1
  <1>3. PICK x \in D : \A y \in D : x <= y
    <2> HIDE DEF D
    <2> QED
      BY <1>2, LeastNumber
  <1>4. bound - x \in T /\ x \in Nat
    OBVIOUS
  <1>5. ASSUME NEW y \in T PROVE bound - x >= y
    <2>1. y \in Nat /\ x <= bound - y
      BY <1>1, <1>3
    <2> QED
      BY <1>4, <2>1
  <1> QED
    BY <1>4, <1>5 DEF Max

\* And a set of numbers has a least one.
LEMMA MinNumber ==
  ASSUME NEW T, T \subseteq Nat, T # {}
  PROVE  Min(T) \in T /\ \A y \in T : Min(T) <= y
  BY LeastNumber DEF Min

\* Two sequences one behind the other.
Links(t, u, both) ==
    /\ Len(t) \in Nat /\ Len(u) \in Nat /\ Len(both) = Len(t) + Len(u)
    /\ \A e \in 1 .. Len(t) : both[e] = t[e]
    /\ \A e \in 1 .. Len(u) : both[Len(t) + e] = u[e]

\* Such is their concatenation.
LEMMA Concatenated ==
  ASSUME NEW S, NEW t \in Seq(S), NEW u \in Seq(S)
  PROVE  t \o u \in Seq(S) /\ Links(t, u, t \o u)
  BY DEF Links

\* It can be taken apart again.
LEMMA TakenApart ==
  ASSUME NEW S, NEW t \in Seq(S), NEW u \in Seq(S)
  PROVE  /\ SubSeq(t \o u, 1, Len(t)) = t
         /\ SubSeq(t \o u, Len(t) + 1, Len(t \o u)) = u
  OBVIOUS

\* The lesser of two numbers.
LEMMA Lesser ==
  ASSUME NEW a \in Nat, NEW b \in Nat
  PROVE  Min({a, b}) = IF a <= b THEN a ELSE b
  <1>1. {a, b} \subseteq Nat /\ {a, b} # {}
    OBVIOUS
  <1>2. PICK m : m = Min({a, b}) /\ m \in {a, b} /\ m <= a /\ m <= b
    BY <1>1, MinNumber
  <1> QED
    BY <1>2

\* A part of a sequence.
LEMMA Between ==
  ASSUME NEW S, NEW t \in Seq(S), NEW a \in Nat, NEW b \in Nat, a <= b, b <= Len(t)
  PROVE  /\ SubSeq(t, a + 1, b) \in Seq(S) /\ Len(SubSeq(t, a + 1, b)) = b - a
         /\ \A k \in 1 .. b - a : SubSeq(t, a + 1, b)[k] = t[a + k]
  <1>1. PICK c \in Nat : c = b - a
    OBVIOUS
  <1>2. PICK x : x = SubSeq(t, a + 1, b)
    OBVIOUS
  <1>3. x \in Seq(S) /\ Len(x) = c /\ \A e \in 1 .. c : x[e] = t[a + e]
    BY <1>1, <1>2
  <1> QED
    BY <1>1, <1>2, <1>3

\* Two parts of a sequence one behind the other.
LEMMA TwoParts ==
  ASSUME NEW S, NEW t \in Seq(S), NEW a \in Nat, NEW b \in Nat, a <= b, b <= Len(t)
  PROVE  /\ SubSeq(t, 1, a) \in Seq(S) /\ SubSeq(t, a + 1, b) \in Seq(S)
         /\ SubSeq(t, 1, a) \o SubSeq(t, a + 1, b) = SubSeq(t, 1, b)
  <1> DEFINE u == SubSeq(t, 1, b)
  <1>1. /\ u \in Seq(S) /\ Len(u) = b /\ \A e \in 1 .. b : u[e] = t[e]
    OBVIOUS
  <1>2. SubSeq(u, 1, a) = SubSeq(t, 1, a)
    BY <1>1
  <1> HIDE DEF u
  <1>3. SubSeq(u, a + 1, Len(u)) = SubSeq(t, a + 1, b)
    <2>1. PICK c \in Nat : c = b - a
      OBVIOUS
    <2>2. PICK v : v = SubSeq(u, a + 1, Len(u))
      OBVIOUS
    <2>3. PICK x : x = SubSeq(t, a + 1, b)
      OBVIOUS
    <2>4. v \in Seq(S) /\ Len(v) = c /\ \A e \in 1 .. c : v[e] = u[a + e]
      BY <1>1, <2>1, <2>2
    <2>5. x \in Seq(S) /\ Len(x) = c /\ \A e \in 1 .. c : x[e] = t[a + e]
      BY <2>1, <2>3
    <2>6. \A e \in 1 .. c : v[e] = x[e]
      <3> SUFFICES ASSUME NEW e \in 1 .. c PROVE v[e] = x[e]
        OBVIOUS
      <3>1. a + e \in 1 .. b
        BY <2>1
      <3> QED
        BY <1>1, <2>4, <2>5, <3>1
    <2>7. v = x
      BY <2>4, <2>5, <2>6
    <2> QED
      BY <2>2, <2>3, <2>7, Zenon
  <1>4. /\ SubSeq(u, 1, a) \in Seq(S) /\ SubSeq(u, a + 1, Len(u)) \in Seq(S)
        /\ u = SubSeq(u, 1, a) \o SubSeq(u, a + 1, Len(u))
    <2>1. a \in 0 .. Len(u)
      BY <1>1
    <2> QED
      BY <1>1, <2>1, SplitAt
  <1>5. /\ SubSeq(t, 1, a) \in Seq(S) /\ SubSeq(t, a + 1, b) \in Seq(S)
    BY <1>2, <1>3, <1>4, Zenon
  <1>6. u = SubSeq(t, 1, a) \o SubSeq(t, a + 1, b)
    BY <1>2, <1>3, <1>4, Zenon
  <1> QED
    BY <1>5, <1>6, Zenon DEF u

\* The pieces of a sequence that is not empty, as many as are needed.
Needed(length, w) == (length + w - 1) \div w

\* They have room for it, and none of them would do with one less.
LEMMA NeededAre ==
  ASSUME NEW length \in Nat, NEW w \in Nat \ {0}
  PROVE  /\ Needed(length, w) \in Nat /\ length <= Needed(length, w) * w
         /\ \A k \in Nat : k < Needed(length, w) => k * w < length
  <1>1. PICK a \in Nat : a = length + w - 1
    OBVIOUS
  <1>2. PICK q \in Nat, m \in 0 .. w - 1 : q = a \div w /\ a = q * w + m
    BY DivideNat
  <1>3. q = Needed(length, w) /\ q * w \in Nat
    BY <1>1, <1>2 DEF Needed
  <1>4. ASSUME NEW k \in Nat, k < q PROVE k * w < length
    <2>1. (k + 1) * w <= q * w /\ (k + 1) * w = k * w + w /\ k * w \in Nat
      BY <1>4
    <2> QED
      BY <1>1, <1>2, <1>3, <2>1
  <1> QED
    BY <1>1, <1>2, <1>3, <1>4

\* A sequence from one of its elements on.
LEMMA HeadAndRest ==
  ASSUME NEW S, NEW t \in Seq(S), NEW k \in 1 .. Len(t)
  PROVE  <<t[k]>> \o SubSeq(t, k + 1, Len(t)) = SubSeq(t, k, Len(t))
  OBVIOUS

\* Induction over the lesser numbers.
LEMMA ByLesser ==
  ASSUME NEW T, \A c \in Nat : (\A d \in Nat : d < c => d \in T) => c \in T
  PROVE  Nat \subseteq T
  <1> DEFINE D == Nat
             rank == [k \in D |-> k]
  <1>1. rank \in [D -> Nat]
    OBVIOUS
  <1>2. ASSUME NEW c \in D, \A d \in D : rank[d] < rank[c] => d \in T PROVE c \in T
    BY <1>2
  <1>3. D \subseteq T
    <2> HIDE DEF D, rank
    <2> QED
      BY <1>1, <1>2, ByRank
  <1> QED
    BY <1>3

-----------------------------------------------------------------------------
\* Characters one by one.
LEMMA Singles ==
  ASSUME NEW S, NEW t \in Seq(S), NEW u, u = [k \in 1 .. Len(t) |-> <<t[k]>>]
  PROVE  FlattenSeq(u) = t
  <1> DEFINE Q == Seq(S)
             T == {k \in Nat : k <= Len(t) => FlattenSeq(SubSeq(u, 1, k)) = SubSeq(t, 1, k)}
  <1>1. u \in Seq(Q) /\ Len(u) = Len(t) /\ Len(t) \in Nat
    <2>1. \A k \in 1 .. Len(t) : <<t[k]>> \in Q
      OBVIOUS
    <2> HIDE DEF Q
    <2> QED
      BY <2>1
  <1> HIDE DEF Q
  <1>2. 0 \in T
    <2>1. SubSeq(u, 1, 0) = <<>> /\ SubSeq(t, 1, 0) = <<>>
      BY <1>1
    <2> QED
      BY <2>1, FlattenEmpty
  <1>3. ASSUME NEW k \in Nat, k \in T PROVE k + 1 \in T
    <2> SUFFICES ASSUME k + 1 <= Len(t) PROVE FlattenSeq(SubSeq(u, 1, k + 1)) = SubSeq(t, 1, k + 1)
      OBVIOUS
    <2>1. k + 1 \in 1 .. Len(u) /\ k + 1 \in 1 .. Len(t) /\ (k + 1) - 1 = k
      BY <1>1
    <2>2. PICK v, x : v = SubSeq(u, 1, k) /\ x = u[k + 1]
      OBVIOUS
    <2>3. v \in Seq(Q) /\ x \in Q /\ SubSeq(u, 1, k + 1) = Append(v, x)
      BY <1>1, <2>1, <2>2, UpToNext
    <2>4. FlattenSeq(SubSeq(u, 1, k + 1)) = FlattenSeq(v) \o x
      BY <2>3, FlattenAppend DEF Q
    <2>5. FlattenSeq(v) = SubSeq(t, 1, k)
      BY <1>1, <1>3, <2>1, <2>2
    <2>6. x = <<t[k + 1]>>
      BY <2>1, <2>2
    <2>7. SubSeq(t, 1, k + 1) = Append(SubSeq(t, 1, k), t[k + 1]) /\ SubSeq(t, 1, k) \in Seq(S) /\ t[k + 1] \in S
      <3>1. SubSeq(t, 1, (k + 1) - 1) \in Seq(S) /\ t[k + 1] \in S
            /\ SubSeq(t, 1, k + 1) = Append(SubSeq(t, 1, (k + 1) - 1), t[k + 1])
        BY <2>1, UpToNext
      <3> QED
        BY <2>1, <3>1
    <2>8. SubSeq(t, 1, k) \o <<t[k + 1]>> = Append(SubSeq(t, 1, k), t[k + 1])
      BY <2>7
    <2> QED
      BY <2>4, <2>5, <2>6, <2>7, <2>8, Zenon
  <1>4. Nat \subseteq T
    <2> HIDE DEF T
    <2> QED
      BY <1>2, <1>3, ByNumber
  <1>5. SubSeq(u, 1, Len(t)) = u /\ SubSeq(t, 1, Len(t)) = t
    BY <1>1
  <1>6. FlattenSeq(SubSeq(u, 1, Len(t))) = SubSeq(t, 1, Len(t))
    BY <1>1, <1>4
  <1> QED
    BY <1>5, <1>6

-----------------------------------------------------------------------------
(* What lies where in a sequence *)

\* s lies in t, behind the first o.
Lies(s, t, o) == \A j \in 1 .. Len(s) : o + j \in 1 .. Len(t) /\ t[o + j] = s[j]

\* A sequence lies in itself.
LEMMA LiesWhole == ASSUME NEW S, NEW t \in Seq(S) PROVE Lies(t, t, 0)
  BY DEF Lies

\* Of two sequences one behind the other, each lies in its place.
LEMMA LieBehind ==
  ASSUME NEW S, NEW s \in Seq(S), NEW u \in Seq(S), NEW t \in Seq(S), NEW o \in Nat, Lies(s \o u, t, o)
  PROVE  Lies(s, t, o) /\ Lies(u, t, o + Len(s)) /\ Len(s) \in Nat /\ o + Len(s) \in Nat
  <1> DEFINE b == s \o u
  <1>1. b \in Seq(S) /\ Links(s, u, b)
    BY Concatenated
  <1>2. /\ Len(s) \in Nat /\ Len(u) \in Nat /\ Len(b) = Len(s) + Len(u)
        /\ \A e \in 1 .. Len(s) : b[e] = s[e]
        /\ \A e \in 1 .. Len(u) : b[Len(s) + e] = u[e]
    BY <1>1 DEF Links
  <1>3. \A j \in 1 .. Len(b) : o + j \in 1 .. Len(t) /\ t[o + j] = b[j]
    BY DEF Lies
  <1> HIDE DEF b
  <1>4. ASSUME NEW j \in 1 .. Len(s) PROVE o + j \in 1 .. Len(t) /\ t[o + j] = s[j]
    BY <1>2, <1>3
  <1>5. ASSUME NEW j \in 1 .. Len(u) PROVE (o + Len(s)) + j \in 1 .. Len(t) /\ t[(o + Len(s)) + j] = u[j]
    <2>1. Len(s) + j \in 1 .. Len(b) /\ b[Len(s) + j] = u[j] /\ o + (Len(s) + j) = (o + Len(s)) + j
      BY <1>2
    <2> QED
      BY <1>3, <2>1
  <1> QED
    BY <1>2, <1>4, <1>5 DEF Lies

\* Of flattened sequences, each lies behind those before it.
LEMMA LieInFlat ==
  ASSUME NEW S, NEW s \in Seq(Seq(S)), NEW t \in Seq(S), NEW o \in Nat, Lies(FlattenSeq(s), t, o),
         NEW j \in 1 .. Len(s)
  PROVE  Lies(s[j], t, o + Start(s, j))
  <1>1. PICK a \in Nat : a = Start(s, j)
    <2>1. j \in 1 .. Len(s) + 1
      OBVIOUS
    <2> QED
      BY <2>1, Starts
  <1>2. ASSUME NEW i \in 1 .. Len(s[j]) PROVE (o + a) + i \in 1 .. Len(t) /\ t[(o + a) + i] = s[j][i]
    <2>1. a + i \in 1 .. Len(FlattenSeq(s)) /\ FlattenSeq(s)[a + i] = s[j][i]
      BY <1>1, FlattenedAt
    <2>2. o + (a + i) \in 1 .. Len(t) /\ t[o + (a + i)] = FlattenSeq(s)[a + i]
      BY <2>1 DEF Lies
    <2>3. i \in Int
      OBVIOUS
    <2>4. o + (a + i) = (o + a) + i
      BY <2>3
    <2> QED
      BY <2>1, <2>2, <2>4
  <1> QED
    BY <1>1, <1>2 DEF Lies

\* A sequence given element by element.
LEMMA ByElements ==
  ASSUME NEW Q, NEW f, NEW k \in Nat, f = [i \in 1 .. k |-> f[i]], \A i \in 1 .. k : f[i] \in Q
  PROVE  f \in Seq(Q) /\ Len(f) = k /\ DOMAIN f = 1 .. k
  <1>1. f \in [1 .. k -> Q]
    OBVIOUS
  <1> QED
    BY <1>1

\* As many noughts as are asked for.
LEMMA Noughts ==
  ASSUME NEW k \in Nat, NEW x \in Nat
  PROVE  [u \in 1 .. k |-> x] \in Seq(Nat) /\ Len([u \in 1 .. k |-> x]) = k
  OBVIOUS

\* Two parts at the beginning.
LEMMA LieFirst ==
  ASSUME NEW s \in Seq(Nat), NEW u \in Seq(Nat), NEW t \in Seq(Nat), NEW b, b = s \o u, Lies(b, t, 0)
  PROVE  Lies(s, t, 0) /\ Lies(u, t, Len(s)) /\ Len(b) = Len(s) + Len(u)
  <1>1. Lies(s, t, 0) /\ Lies(u, t, 0 + Len(s))
    BY LieBehind
  <1>2. 0 + Len(s) = Len(s) /\ Len(b) = Len(s) + Len(u)
    OBVIOUS
  <1> QED
    BY <1>1, <1>2

\* A few numbers and what follows them.
Headed(h, t, d, o) ==
    /\ Len(h \o t) = Len(h) + Len(t) /\ Len(h) \in Nat /\ o + Len(h) \in Nat /\ o + Len(h \o t) <= Len(d)
    /\ \A j \in 1 .. Len(h) : d[o + j] = h[j] /\ o + j <= Len(d)
    /\ Lies(t, d, o + Len(h))

\* Where numbers and what follows them lie, each lies in its place.
LEMMA HeadLies ==
  ASSUME NEW h \in Seq(Nat), NEW t \in Seq(Nat), NEW d \in Seq(Nat), NEW o \in Nat,
         Len(h) # 0, Lies(h \o t, d, o)
  PROVE  Headed(h, t, d, o)
  <1> DEFINE b == h \o t
  <1>1. Lies(h, d, o) /\ Lies(t, d, o + Len(h)) /\ Len(h) \in Nat /\ o + Len(h) \in Nat
    BY LieBehind
  <1>2. \A j \in 1 .. Len(h) : d[o + j] = h[j] /\ o + j \in 1 .. Len(d)
    BY <1>1 DEF Lies
  <1>3. \A j \in 1 .. Len(h) : d[o + j] = h[j] /\ o + j <= Len(d)
    BY <1>2
  <1>4. Len(b) = Len(h) + Len(t) /\ Len(b) \in Nat
    OBVIOUS
  <1>5. o + Len(b) <= Len(d)
    <2>1. Len(b) \in 1 .. Len(b)
      BY <1>4
    <2>2. o + Len(b) \in 1 .. Len(d)
      BY <2>1 DEF Lies
    <2> QED
      BY <2>2
  <1> QED
    BY <1>1, <1>3, <1>4, <1>5 DEF Headed

\* Sequences of one, two, four numbers.
LEMMA One == ASSUME NEW x \in Nat PROVE <<x>> \in Seq(Nat) /\ Len(<<x>>) = 1 /\ <<x>>[1] = x
  OBVIOUS

\* Two numbers.
LEMMA Two ==
  ASSUME NEW x \in Nat, NEW y \in Nat
  PROVE  <<x, y>> \in Seq(Nat) /\ Len(<<x, y>>) = 2 /\ <<x, y>>[1] = x /\ <<x, y>>[2] = y
  OBVIOUS

\* Four numbers.
LEMMA Four ==
  ASSUME NEW x \in Nat, NEW y \in Nat, NEW z \in Nat, NEW w \in Nat
  PROVE  /\ <<x, y, z, w>> \in Seq(Nat) /\ Len(<<x, y, z, w>>) = 4
         /\ <<x, y, z, w>>[2] = y /\ <<x, y, z, w>>[4] = w
  OBVIOUS

\* What is still to come, counted down.
LEMMA CountDown ==
  ASSUME NEW l \in Nat, NEW k \in 1 .. l + 1, NEW m, m = l + 1 - k
  PROVE  /\ m \in Nat /\ (m = 0 => k = l + 1)
         /\ m # 0 => k \in 1 .. l /\ k + 1 \in 1 .. l + 1 /\ m - 1 = l + 1 - (k + 1)
  OBVIOUS
=============================================================================
