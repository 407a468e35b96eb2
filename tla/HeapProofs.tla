----------------------------- MODULE HeapProofs -----------------------------
(***************************************************************************)
(* Proofs about the heap: the list is always a coalesced tiling of the     *)
(* arena, and the heap implements the abstract allocator.                  *)
(***************************************************************************)
EXTENDS Heap, TLAPS

USE HeapAssumption DEF NULL, Limit, End, free_list, Block

\* heap_init builds one block that covers the arena (heap.c:7-16).
LEMMA InitIInv == Init => IInv
  <1> SUFFICES ASSUME Init PROVE IInv
    OBVIOUS
  <1>1. TypeOK
    BY DEF Init, TypeOK
  <1>2. Tiling
    BY DEF Init, Tiling
  <1>3. Coalesced /\ ScanSeen /\ MergeSeen
    BY DEF Init, Coalesced, ScanSeen, MergeSeen
  <1> QED
    BY <1>1, <1>2, <1>3 DEF IInv

-----------------------------------------------------------------------------
\* What every single block of a well-formed list satisfies.
LEMMA BlockFacts ==
  ASSUME TypeOK, Tiling, NEW a \in DOMAIN hdr
  PROVE  /\ a \in Nat /\ a # NULL /\ Start <= a /\ a < Limit
         /\ hdr[a] \in [size : Nat, free : BOOLEAN, next : Nat]
         /\ hdr[a].size \in Nat /\ hdr[a].free \in BOOLEAN /\ hdr[a].next \in Nat
         /\ End(a) \in Nat /\ a < End(a) /\ End(a) <= Limit
         /\ hdr[a].next = IF End(a) = Limit THEN NULL ELSE End(a)
         /\ hdr[a].next # NULL => hdr[a].next \in DOMAIN hdr
         /\ \A b \in DOMAIN hdr : a < b => End(a) <= b
  <1>1. a \in Start .. Limit - 1 /\ hdr[a] \in [size : Nat, free : BOOLEAN, next : Nat]
    BY DEF TypeOK
  <1> QED
    BY <1>1 DEF Tiling

\* A split cuts the block under curr in two at an address t inside it, and
\* changes nothing else (heap.c:26-32).
LEMMA SplitCuts ==
  ASSUME IInv, pc = "scan", curr # NULL, Fits(curr), CanSplit, hdr' = Split
  PROVE  \E t \in Start .. Limit - 1 :
            /\ t \notin DOMAIN hdr
            /\ curr < t /\ t < End(curr) /\ t = curr + HDR + req
            /\ DOMAIN hdr' = DOMAIN hdr \union {t}
            /\ hdr'[t] = [size |-> End(curr) - t - HDR, free |-> TRUE,
                          next |-> hdr[curr].next]
            /\ End(curr) - t - HDR \in Nat
            /\ hdr'[curr] = [size |-> req, free |-> FALSE, next |-> t]
            /\ \A a \in DOMAIN hdr : a # curr => hdr'[a] = hdr[a]
  <1>1. PICK t : t = SplitTail
    OBVIOUS
  <1>2. /\ curr \in DOMAIN hdr /\ req \in Nat /\ curr \in Start .. Limit - 1
        /\ hdr[curr].size \in Nat /\ hdr[curr].size > req + HDR + SLACK
        /\ End(curr) <= Limit
    BY DEF IInv, TypeOK, Tiling, CanSplit
  <1>3. /\ t \in Start .. Limit - 1 /\ t = curr + HDR + req
        /\ curr < t /\ t < End(curr) /\ End(curr) - t - HDR \in Nat
        /\ hdr[curr].size - req - HDR = End(curr) - t - HDR
    BY <1>1, <1>2 DEF SplitTail
  <1>4. t \notin DOMAIN hdr
    BY <1>2, <1>3 DEF IInv, TypeOK, Tiling
  <1>5. hdr' = [a \in DOMAIN hdr \union {t} |->
                  IF a = t
                  THEN [size |-> End(curr) - t - HDR, free |-> TRUE,
                        next |-> hdr[curr].next]
                  ELSE IF a = curr
                  THEN [size |-> req, free |-> FALSE, next |-> t]
                  ELSE hdr[a]]
    BY <1>1, <1>3 DEF Split
  <1> HIDE DEF End, Limit
  <1>6. /\ DOMAIN hdr' = DOMAIN hdr \union {t}
        /\ hdr'[t] = [size |-> End(curr) - t - HDR, free |-> TRUE,
                      next |-> hdr[curr].next]
        /\ hdr'[curr] = [size |-> req, free |-> FALSE, next |-> t]
        /\ \A a \in DOMAIN hdr : a # curr => hdr'[a] = hdr[a]
    BY <1>2, <1>3, <1>4, <1>5
  <1> QED
    BY <1>3, <1>4, <1>6

\* A block that is split: the invariant.
LEMMA SplitInductive ==
  ASSUME IInv, pc = "scan", curr # NULL, Fits(curr), CanSplit, hdr' = Split,
         pc' = "idle", UNCHANGED <<curr, req>>
  PROVE  IInv'
  <1>1. PICK t \in Start .. Limit - 1 :
            /\ t \notin DOMAIN hdr
            /\ curr < t /\ t < End(curr) /\ t = curr + HDR + req
            /\ DOMAIN hdr' = DOMAIN hdr \union {t}
            /\ hdr'[t] = [size |-> End(curr) - t - HDR, free |-> TRUE,
                          next |-> hdr[curr].next]
            /\ End(curr) - t - HDR \in Nat
            /\ hdr'[curr] = [size |-> req, free |-> FALSE, next |-> t]
            /\ \A a \in DOMAIN hdr : a # curr => hdr'[a] = hdr[a]
    BY SplitCuts
  <1>2. /\ curr \in DOMAIN hdr /\ req \in Nat /\ hdr[curr].free
        /\ TypeOK /\ Tiling /\ Coalesced
    BY DEF IInv, TypeOK, Fits
  <1>3. TypeOK'
    <2>1. \A a \in DOMAIN hdr' : hdr'[a] \in [size : Nat, free : BOOLEAN, next : Nat]
      <3>1. t \in Nat /\ hdr[curr].next \in Nat
        BY <1>2, BlockFacts
      <3>2. hdr'[t] \in [size : Nat, free : BOOLEAN, next : Nat]
        <4> HIDE DEF End
        <4> QED
          BY <1>1, <3>1
      <3>3. hdr'[curr] \in [size : Nat, free : BOOLEAN, next : Nat]
        BY <1>1, <1>2, <3>1 DEF TypeOK
      <3>4. \A a \in DOMAIN hdr \ {curr} :
                hdr'[a] \in [size : Nat, free : BOOLEAN, next : Nat]
        <4> HIDE DEF End
        <4> QED
          BY <1>1, <1>2, BlockFacts
      <3> QED
        BY <1>1, <3>2, <3>3, <3>4
    <2>2. hdr' = [a \in DOMAIN hdr' |-> hdr'[a]]
      BY DEF Split
    <2> QED
      BY <1>1, <1>2, <2>1, <2>2 DEF TypeOK
  <1>4. Tiling'
    <2>1. Start \in DOMAIN hdr'
      BY <1>1, <1>2 DEF Tiling
    <2>2. ASSUME NEW a \in DOMAIN hdr'
          PROVE  /\ End(a)' <= Limit
                 /\ hdr'[a].next = IF End(a)' = Limit THEN NULL ELSE End(a)'
                 /\ hdr'[a].next # NULL => hdr'[a].next \in DOMAIN hdr'
      BY <1>1, <1>2 DEF Tiling, TypeOK
    <2>3. ASSUME NEW a \in DOMAIN hdr', NEW b \in DOMAIN hdr', a < b
          PROVE  End(a)' <= b
      <3>1. CASE a = t
        <4>1. End(a)' = End(curr) /\ b \in DOMAIN hdr /\ curr < b
          BY <3>1, <2>3, <1>1, <1>2, BlockFacts
        <4> QED
          BY <4>1, <1>2, BlockFacts
      <3>2. CASE a = curr
        <4>1. End(a)' = t
          BY <3>2, <1>1, <1>2
        <4>2. b = t \/ (b \in DOMAIN hdr /\ End(curr) <= b)
          BY <3>2, <2>3, <1>1, <1>2, BlockFacts
        <4> QED
          BY <4>1, <4>2, <1>1, <1>2, BlockFacts
      <3>3. CASE a # t /\ a # curr
        <4>1. a \in DOMAIN hdr /\ End(a)' = End(a)
          BY <3>3, <1>1
        <4>2. CASE b = t
          <5>1. a < curr
            BY <4>1, <4>2, <3>3, <2>3, <1>1, <1>2, BlockFacts
          <5> QED
            BY <4>1, <4>2, <5>1, <1>1, <1>2, BlockFacts
        <4>3. CASE b # t
          BY <4>1, <4>3, <2>3, <1>1, <1>2, BlockFacts
        <4> QED
          BY <4>2, <4>3
      <3> QED
        BY <3>1, <3>2, <3>3
    <2>4. ASSUME NEW x \in Start .. Limit - 1
          PROVE  \E a \in DOMAIN hdr' : a <= x /\ x < End(a)'
      <3>1. PICK a \in DOMAIN hdr : a <= x /\ x < End(a)
        BY <1>2 DEF Tiling
      <3>2. CASE a = curr /\ x >= t
        BY <3>1, <3>2, <1>1, <1>2 DEF TypeOK
      <3>3. CASE a = curr /\ x < t
        BY <3>1, <3>3, <1>1, <1>2 DEF TypeOK
      <3>4. CASE a # curr
        BY <3>1, <3>4, <1>1, <1>2
      <3> QED
        BY <3>2, <3>3, <3>4, <1>1, <1>2, <3>1 DEF TypeOK
    <2> QED
      BY <2>1, <2>2, <2>3, <2>4 DEF Tiling
  <1>5. Coalesced'
    <2> SUFFICES ASSUME NEW a \in DOMAIN hdr', hdr'[a].free, hdr'[a].next # NULL
                 PROVE  ~hdr'[hdr'[a].next].free
      BY DEF Coalesced
    <2> DEFINE n == hdr'[a].next
    <2>1. PICK b \in DOMAIN hdr : hdr[b].free /\ hdr[b].next = n
      BY <1>1, <1>2
    <2>2. n \in DOMAIN hdr /\ ~hdr[n].free
      BY <1>2, <2>1 DEF Coalesced, Tiling
    <2>3. n # curr
      BY <1>2, <2>2
    <2> QED
      BY <1>1, <2>2, <2>3
  <1>6. ScanSeen' /\ MergeSeen'
    BY DEF ScanSeen, MergeSeen
  <1> QED
    BY <1>3, <1>4, <1>5, <1>6 DEF IInv

-----------------------------------------------------------------------------
\* Changing one free flag, and no other field, keeps the types and the tiling.
LEMMA FlagKeepsTiling ==
  ASSUME TypeOK, Tiling, NEW b \in DOMAIN hdr, NEW f \in BOOLEAN,
         hdr' = [hdr EXCEPT ![b].free = f]
  PROVE  /\ DOMAIN hdr' = DOMAIN hdr
         /\ hdr' \in [DOMAIN hdr' -> [size : Nat, free : BOOLEAN, next : Nat]]
         /\ \A a \in DOMAIN hdr : /\ hdr'[a].size = hdr[a].size
                                  /\ hdr'[a].next = hdr[a].next
                                  /\ a # b => hdr'[a] = hdr[a]
         /\ hdr'[b].free = f
         /\ Tiling'
  <1>1. /\ DOMAIN hdr' = DOMAIN hdr
        /\ hdr' \in [DOMAIN hdr' -> [size : Nat, free : BOOLEAN, next : Nat]]
        /\ \A a \in DOMAIN hdr : /\ hdr'[a].size = hdr[a].size
                                 /\ hdr'[a].next = hdr[a].next
                                 /\ a # b => hdr'[a] = hdr[a]
        /\ hdr'[b].free = f
    BY DEF TypeOK
  <1>2. Tiling'
    BY <1>1 DEF Tiling
  <1> QED
    BY <1>1, <1>2

\* A block that is taken as it is: the invariant.
LEMMA TakeWholeInductive ==
  ASSUME IInv, pc = "scan", curr # NULL, Fits(curr),
         hdr' = [hdr EXCEPT ![curr].free = FALSE],
         pc' = "idle", UNCHANGED <<curr, req>>
  PROVE  IInv'
  <1>1. /\ curr \in DOMAIN hdr /\ TypeOK /\ Tiling /\ Coalesced
    BY DEF IInv, TypeOK
  <1>2. /\ DOMAIN hdr' = DOMAIN hdr
        /\ hdr' \in [DOMAIN hdr' -> [size : Nat, free : BOOLEAN, next : Nat]]
        /\ \A a \in DOMAIN hdr : /\ hdr'[a].size = hdr[a].size
                                 /\ hdr'[a].next = hdr[a].next
                                 /\ a # curr => hdr'[a] = hdr[a]
        /\ hdr'[curr].free = FALSE
        /\ Tiling'
    BY <1>1, FlagKeepsTiling
  <1>3. TypeOK'
    BY <1>1, <1>2 DEF TypeOK
  <1>4. Coalesced'
    BY <1>1, <1>2 DEF Coalesced, Tiling
  <1> QED
    BY <1>2, <1>3, <1>4 DEF IInv, ScanSeen, MergeSeen

\* kfree up to the merge: the invariant.
LEMMA FreeInductive ==
  ASSUME IInv, NEW b \in Allocated, kfree(b)
  PROVE  IInv'
  <1>1. /\ b \in DOMAIN hdr /\ TypeOK /\ Tiling
        /\ hdr' = [hdr EXCEPT ![b].free = TRUE]
        /\ pc' = "merge" /\ curr' = Start /\ req' = req
    BY DEF IInv, Allocated, kfree
  <1>2. /\ DOMAIN hdr' = DOMAIN hdr
        /\ hdr' \in [DOMAIN hdr' -> [size : Nat, free : BOOLEAN, next : Nat]]
        /\ Tiling'
    BY <1>1, FlagKeepsTiling
  <1>3. TypeOK'
    BY <1>1, <1>2 DEF TypeOK, Tiling
  <1>4. Coalesced' /\ ScanSeen' /\ MergeSeen'
    BY <1>1, <1>2 DEF Coalesced, ScanSeen, MergeSeen, TypeOK
  <1> QED
    BY <1>2, <1>3, <1>4 DEF IInv

-----------------------------------------------------------------------------
\* Absorbing the next block gives a tiling with one header fewer (heap.c:53-54).
LEMMA JoinInductive ==
  ASSUME IInv, MergeJoin
  PROVE  IInv'
  <1>1. PICK n \in DOMAIN hdr : n = hdr[curr].next /\ n = End(curr)
    BY DEF IInv, TypeOK, Tiling, MergeJoin
  <1>2. /\ curr \in DOMAIN hdr /\ pc = "merge" /\ n # NULL
        /\ hdr[curr].free /\ hdr[n].free
        /\ TypeOK /\ Tiling /\ MergeSeen
        /\ pc' = pc /\ curr' = curr /\ req' = req
    BY <1>1 DEF IInv, TypeOK, MergeJoin, BothFree
  <1>3. /\ curr < n /\ End(n) = n + HDR + hdr[n].size
        /\ hdr[curr].size \in Nat /\ hdr[n].size \in Nat
        /\ curr \in Int /\ n \in Int
        /\ hdr[curr].size + HDR + hdr[n].size = End(n) - curr - HDR
    BY <1>1, <1>2, BlockFacts
  <1>4. hdr' = [a \in DOMAIN hdr \ {n} |->
                  IF a = curr
                  THEN [size |-> End(n) - curr - HDR, free |-> TRUE,
                        next |-> hdr[n].next]
                  ELSE hdr[a]]
    BY <1>1, <1>3 DEF MergeJoin, Join
  <1>5. /\ DOMAIN hdr' = DOMAIN hdr \ {n}
        /\ hdr'[curr] = [size |-> End(n) - curr - HDR, free |-> TRUE,
                         next |-> hdr[n].next]
        /\ End(n) - curr - HDR \in Nat
        /\ \A a \in DOMAIN hdr \ {n} : a # curr => hdr'[a] = hdr[a]
    <2> HIDE DEF End
    <2>1. /\ DOMAIN hdr' = DOMAIN hdr \ {n}
          /\ hdr'[curr] = [size |-> End(n) - curr - HDR, free |-> TRUE,
                           next |-> hdr[n].next]
          /\ \A a \in DOMAIN hdr \ {n} : a # curr => hdr'[a] = hdr[a]
      BY <1>2, <1>3, <1>4
    <2>2. End(n) - curr - HDR \in Nat
      BY <1>3 DEF End
    <2> QED
      BY <2>1, <2>2
  <1>6. \A a \in DOMAIN hdr \ {n} : a < curr => End(a) <= curr
    BY <1>2 DEF Tiling
  <1>7. \A a \in DOMAIN hdr \ {n} : a > curr => a > n /\ End(n) <= a
    <2> SUFFICES ASSUME NEW a \in DOMAIN hdr \ {n}, a > curr
                 PROVE  a > n /\ End(n) <= a
      OBVIOUS
    <2>1. a > n
      BY <1>1, <1>2, <1>3, BlockFacts
    <2> QED
      BY <2>1, <1>1, <1>2, BlockFacts
  <1>8. TypeOK'
    <2>1. \A a \in DOMAIN hdr' : hdr'[a] \in [size : Nat, free : BOOLEAN, next : Nat]
      <3>1. hdr[n].next \in Nat
        BY BlockFacts, <1>2
      <3>2. hdr'[curr] \in [size : Nat, free : BOOLEAN, next : Nat]
        <4> HIDE DEF End
        <4> QED
          BY <1>5, <3>1
      <3>3. \A a \in DOMAIN hdr : hdr[a] \in [size : Nat, free : BOOLEAN, next : Nat]
        BY <1>2 DEF TypeOK
      <3> QED
        BY <1>5, <3>2, <3>3
    <2>2. hdr' = [a \in DOMAIN hdr' |-> hdr'[a]]
      BY <1>4
    <2>3. curr \in DOMAIN hdr'
      BY <1>2, <1>3, <1>5
    <2> QED
      BY <1>2, <1>5, <2>1, <2>2, <2>3 DEF TypeOK
  <1>9. Tiling'
    <2>1. Start \in DOMAIN hdr'
      BY <1>2, <1>3, <1>5 DEF Tiling, TypeOK
    <2>2. ASSUME NEW a \in DOMAIN hdr'
          PROVE  /\ End(a)' <= Limit
                 /\ hdr'[a].next = IF End(a)' = Limit THEN NULL ELSE End(a)'
                 /\ hdr'[a].next # NULL => hdr'[a].next \in DOMAIN hdr'
      <3>1. CASE a = curr
        <4>1. hdr'[a].size = End(n) - a - HDR /\ hdr'[a].next = hdr[n].next
          BY <3>1, <1>5
        <4>1a. End(a)' = End(n)
          BY <3>1, <4>1, <1>3, <1>2, BlockFacts
        <4>2. hdr[n].next # n
          BY <1>1, <1>2, BlockFacts
        <4> QED
          BY <4>1, <4>1a, <4>2, <1>1, <1>2, <1>5, BlockFacts
      <3>2. CASE a # curr
        <4>1. a \in DOMAIN hdr \ {n} /\ End(a)' = End(a) /\ hdr'[a].next = hdr[a].next
          BY <3>2, <1>5
        <4>2. hdr[a].next # n
          <5>1. a < curr \/ a > curr
            BY <3>2, <4>1, <1>2, <1>3, BlockFacts
          <5>2. End(a) # n
            BY <4>1, <5>1, <1>1, <1>2, <1>3, <1>6, <1>7, BlockFacts
          <5> QED
            BY <4>1, <5>2, <1>2, BlockFacts
        <4> QED
          BY <4>1, <4>2, <1>2, <1>5, BlockFacts
      <3> QED
        BY <3>1, <3>2
    <2>3. ASSUME NEW a \in DOMAIN hdr', NEW b \in DOMAIN hdr', a < b
          PROVE  End(a)' <= b
      <3>1. CASE a = curr
        BY <3>1, <2>3, <1>2, <1>3, <1>5, <1>7 DEF TypeOK
      <3>2. CASE a # curr
        BY <3>2, <2>3, <1>2, <1>5 DEF Tiling, TypeOK
      <3> QED
        BY <3>1, <3>2
    <2>4. ASSUME NEW x \in Start .. Limit - 1
          PROVE  \E a \in DOMAIN hdr' : a <= x /\ x < End(a)'
      <3>1. PICK a \in DOMAIN hdr : a <= x /\ x < End(a)
        BY <1>2 DEF Tiling
      <3>2. CASE a = n \/ a = curr
        BY <3>1, <3>2, <1>1, <1>2, <1>3, <1>5 DEF TypeOK
      <3>3. CASE a # n /\ a # curr
        BY <3>1, <3>3, <1>5
      <3> QED
        BY <3>2, <3>3
    <2> QED
      BY <2>1, <2>2, <2>3, <2>4 DEF Tiling
  <1>10. MergeSeen'
    <2> SUFFICES ASSUME NEW a \in DOMAIN hdr', a < curr,
                        hdr'[a].free, hdr'[a].next # NULL
                 PROVE  ~hdr'[hdr'[a].next].free
      BY <1>2 DEF MergeSeen
    <2> DEFINE m == hdr'[a].next
    <2>1. /\ a \in DOMAIN hdr /\ hdr[a] = hdr'[a]
      BY <1>3, <1>5 DEF TypeOK
    <2>2. m \in DOMAIN hdr /\ ~hdr[m].free
      BY <1>2, <2>1 DEF MergeSeen, Tiling
    <2>3. m # curr /\ m # n
      BY <1>2, <2>2
    <2> QED
      BY <1>5, <2>2, <2>3
  <1>11. Coalesced' /\ ScanSeen'
    BY <1>2 DEF Coalesced, ScanSeen
  <1> QED
    BY <1>8, <1>9, <1>10, <1>11 DEF IInv

-----------------------------------------------------------------------------
\* Every operation, step by step: the invariant.
LEMMA StepIInv == IInv /\ [Next]_vars => IInv'
  <1> SUFFICES ASSUME IInv, [Next]_vars PROVE IInv'
    OBVIOUS
  <1>1. CASE \E n \in Requests : kmalloc(n)
    <2>1. TypeOK' /\ Tiling'
      BY <1>1 DEF kmalloc, IInv, TypeOK, Tiling
    <2>2. Coalesced' /\ ScanSeen' /\ MergeSeen'
      BY <1>1 DEF kmalloc, IInv, TypeOK, Coalesced, ScanSeen, MergeSeen
    <2> QED
      BY <2>1, <2>2 DEF IInv
  <1>2. CASE \E a \in Allocated : kfree(a)
    BY <1>2, FreeInductive
  <1>3. CASE ScanNext
    <2>1. TypeOK' /\ Tiling' /\ Coalesced' /\ MergeSeen'
      BY <1>3 DEF ScanNext, IInv, TypeOK, Tiling, Coalesced, MergeSeen
    <2>2. ScanSeen'
      <3> SUFFICES ASSUME NEW a \in DOMAIN hdr, curr' = NULL \/ a < curr'
                   PROVE  ~Fits(a)
        BY <1>3 DEF ScanNext, ScanSeen, Fits
      <3>1. curr \in DOMAIN hdr /\ ~Fits(curr) /\ ScanSeen /\ TypeOK /\ Tiling
            /\ curr' = hdr[curr].next /\ pc = "scan"
        BY <1>3 DEF ScanNext, IInv, TypeOK
      <3>2. a <= curr
        BY <3>1, BlockFacts
      <3>3. a < curr \/ a = curr
        BY <3>1, <3>2, BlockFacts
      <3> QED
        BY <3>1, <3>3 DEF ScanSeen
    <2> QED
      BY <2>1, <2>2 DEF IInv
  <1>4. CASE TakeBlock
    <2>1. /\ pc = "scan" /\ curr # NULL /\ Fits(curr)
          /\ pc' = "idle" /\ UNCHANGED <<curr, req>>
          /\ \/ CanSplit /\ hdr' = Split
             \/ hdr' = [hdr EXCEPT ![curr].free = FALSE]
      BY <1>4 DEF TakeBlock
    <2> QED
      BY <2>1, SplitInductive, TakeWholeInductive
  <1>5. CASE OutOfMemory
    BY <1>5 DEF OutOfMemory, IInv, TypeOK, Tiling, Coalesced, ScanSeen, MergeSeen
  <1>6. CASE MergeJoin
    BY <1>6, JoinInductive
  <1>7. CASE MergeNext
    <2>1. /\ curr \in DOMAIN hdr /\ TypeOK /\ Tiling /\ MergeSeen
          /\ pc = "merge" /\ curr' = hdr[curr].next /\ curr' # NULL /\ ~BothFree
          /\ UNCHANGED <<hdr, pc, req>>
      BY <1>7 DEF MergeNext, IInv, TypeOK
    <2>2. TypeOK' /\ Tiling' /\ Coalesced' /\ ScanSeen'
      BY <2>1 DEF IInv, TypeOK, Tiling, Coalesced, ScanSeen
    <2>3. MergeSeen'
      <3> SUFFICES ASSUME NEW a \in DOMAIN hdr, a < curr', hdr[a].free, hdr[a].next # NULL
                   PROVE  ~hdr[hdr[a].next].free
        BY <2>1 DEF MergeSeen
      <3>1. a <= curr
        BY <2>1, BlockFacts
      <3>2. a < curr \/ a = curr
        BY <2>1, <3>1, BlockFacts
      <3> QED
        BY <2>1, <3>2 DEF MergeSeen, BothFree
    <2> QED
      BY <2>2, <2>3 DEF IInv
  <1>8. CASE MergeDone
    <2>1. /\ curr \in DOMAIN hdr /\ TypeOK /\ Tiling /\ MergeSeen
          /\ pc = "merge" /\ hdr[curr].next = NULL /\ pc' = "idle"
          /\ UNCHANGED <<hdr, curr, req>>
      BY <1>8 DEF MergeDone, IInv, TypeOK
    <2>2. TypeOK' /\ Tiling' /\ ScanSeen' /\ MergeSeen'
      BY <2>1 DEF IInv, TypeOK, Tiling, ScanSeen, MergeSeen
    <2>3. Coalesced'
      <3> SUFFICES ASSUME NEW a \in DOMAIN hdr, hdr[a].free, hdr[a].next # NULL
                   PROVE  ~hdr[hdr[a].next].free
        BY <2>1 DEF Coalesced
      <3>1. End(curr) = Limit
        BY <2>1, BlockFacts
      <3>2. a < curr \/ a = curr
        BY <2>1, <3>1, BlockFacts
      <3> QED
        BY <2>1, <3>2 DEF MergeSeen
    <2> QED
      BY <2>2, <2>3 DEF IInv
  <1>9. CASE UNCHANGED vars
    BY <1>9 DEF vars, IInv, TypeOK, Tiling, Coalesced, ScanSeen, MergeSeen, Fits
  <1> QED
    BY <1>1, <1>2, <1>3, <1>4, <1>5, <1>6, <1>7, <1>8, <1>9 DEF Next, Loop

\* In every reachable state the inductive invariant holds (heap.c:18-59).
THEOREM HeapInvariant == Spec => []IInv
  <1> QED
    BY InitIInv, StepIInv, PTL DEF Spec

\* Every header lies in the arena and has a size, a flag and a link of its type.
THEOREM HeapTyped == Spec => []TypeOK
  <1>1. IInv => TypeOK
    BY DEF IInv
  <1> QED
    BY <1>1, HeapInvariant, PTL

\* The list goes through the arena in address order, without a gap and without an
\* overlap, through every split and merge (heap.c:25-32, 50-58).
THEOREM HeapTiled == Spec => []Tiling
  <1>1. IInv => Tiling
    BY DEF IInv
  <1> QED
    BY <1>1, HeapInvariant, PTL

\* Between calls no two neighbours are both free: kfree has merged them
\* (heap.c:50-58).
THEOREM HeapCoalesced == Spec => []Coalesced
  <1>1. IInv => Coalesced
    BY DEF IInv
  <1> QED
    BY <1>1, HeapInvariant, PTL

-----------------------------------------------------------------------------
(* Refinement *)

\* When the search reaches the end of the list there is no gap for the request:
\* any gap would start in a free block that is too small and whose successor is
\* in use, because no two free blocks are neighbours (heap.c:39).
LEMMA NoRoom ==
  ASSUME IInv, pc = "scan", curr = NULL
  PROVE  ~ \E lo \in Start .. Alloc!Limit : Alloc!Clear(lo, lo + HDR + req)
  <1> SUFFICES ASSUME NEW lo \in Start .. Limit, Alloc!Clear(lo, lo + HDR + req)
               PROVE  FALSE
    BY DEF Alloc!Limit
  <1>1. /\ TypeOK /\ Tiling /\ Coalesced /\ req \in Nat
        /\ \A a \in DOMAIN hdr : ~Fits(a)
    BY DEF IInv, ScanSeen, TypeOK
  <1>2. /\ lo \in Nat /\ lo + HDR + req <= Limit /\ lo < Limit
        /\ \A b \in Allocated : lo + HDR + req <= b \/ End(b) <= lo
    <2>1. lo \in Nat /\ lo + HDR + req <= Limit
      BY <1>1 DEF Alloc!Clear, Alloc!Limit
    <2>2. ASSUME NEW b \in Allocated PROVE lo + HDR + req <= b \/ End(b) <= lo
      <3>1. Payload(b) \in InUse
        BY DEF InUse
      <3>2. \/ lo + HDR + req <= Payload(b).ptr - HDR
            \/ Payload(b).ptr + Payload(b).len <= lo
        BY <3>1 DEF Alloc!Clear
      <3>3. b \in Nat /\ hdr[b].size \in Nat
        BY <1>1, BlockFacts DEF Allocated
      <3> QED
        BY <3>2, <3>3 DEF Payload
    <2> QED
      BY <1>1, <2>1, <2>2
  <1>3. PICK a \in DOMAIN hdr : a <= lo /\ lo < End(a)
    BY <1>1, <1>2 DEF Tiling
  <1>4. hdr[a].free
    BY <1>1, <1>2, <1>3, BlockFacts DEF Allocated
  <1>5. hdr[a].size < req /\ End(a) < lo + HDR + req
    BY <1>1, <1>2, <1>3, <1>4, BlockFacts DEF Fits
  <1>6. End(a) < Limit /\ hdr[a].next = End(a) /\ End(a) \in DOMAIN hdr
    BY <1>1, <1>2, <1>5, BlockFacts
  <1>7. End(a) \in Allocated
    BY <1>1, <1>4, <1>6, BlockFacts DEF Coalesced, Allocated
  <1>8. End(End(a)) > End(a)
    BY <1>1, <1>6, BlockFacts
  <1> QED
    <2>1. End(End(a)) \in Nat /\ End(a) \in Nat
      BY <1>1, <1>3, <1>6, BlockFacts
    <2>2. lo + HDR + req <= End(a) \/ End(End(a)) <= lo
      BY <1>2, <1>7
    <2> QED
      <3> HIDE DEF End
      <3> QED
        BY <2>1, <2>2, <1>1, <1>2, <1>3, <1>5, <1>8

\* The block taken gives the caller at least what was asked for, in room that
\* no block in use overlaps (heap.c:23-35).
LEMMA TakeGrants ==
  ASSUME IInv, TakeBlock, IInv'
  PROVE  Alloc!Grant
  <1>1. /\ curr \in DOMAIN hdr /\ curr \in DOMAIN hdr' /\ curr' = curr
        /\ hdr[curr].free /\ ~hdr'[curr].free
        /\ hdr'[curr].size \in Nat /\ hdr'[curr].size >= req
        /\ curr + HDR + hdr'[curr].size <= End(curr)
        /\ Allocated' = Allocated \union {curr}
        /\ \A b \in Allocated : hdr'[b].size = hdr[b].size
        /\ TypeOK /\ Tiling /\ pc = "scan" /\ pc' = "idle" /\ req \in Nat
    <2>1. /\ curr \in DOMAIN hdr /\ hdr[curr].free /\ hdr[curr].size >= req
          /\ TypeOK /\ Tiling /\ pc = "scan" /\ pc' = "idle" /\ req \in Nat
          /\ curr' = curr /\ req' = req /\ Fits(curr) /\ curr # NULL
      BY DEF IInv, TakeBlock, TypeOK, Fits
    <2>2. CASE CanSplit /\ hdr' = Split
      <3>1. PICK t \in Start .. Limit - 1 :
            /\ t \notin DOMAIN hdr
            /\ curr < t /\ t < End(curr) /\ t = curr + HDR + req
            /\ DOMAIN hdr' = DOMAIN hdr \union {t}
            /\ hdr'[t] = [size |-> End(curr) - t - HDR, free |-> TRUE,
                          next |-> hdr[curr].next]
            /\ End(curr) - t - HDR \in Nat
            /\ hdr'[curr] = [size |-> req, free |-> FALSE, next |-> t]
            /\ \A a \in DOMAIN hdr : a # curr => hdr'[a] = hdr[a]
        BY <2>1, <2>2, SplitCuts
      <3>2. Allocated' = Allocated \union {curr}
        <4> HIDE DEF End
        <4> QED
          BY <2>1, <3>1 DEF Allocated
      <3>3. curr + HDR + hdr'[curr].size <= End(curr) /\ hdr'[curr].size = req
        BY <2>1, <3>1, BlockFacts
      <3> QED
        BY <2>1, <3>1, <3>2, <3>3 DEF Allocated
    <2>3. CASE hdr' = [hdr EXCEPT ![curr].free = FALSE]
      <3>1. /\ DOMAIN hdr' = DOMAIN hdr /\ hdr'[curr].free = FALSE
            /\ \A a \in DOMAIN hdr : /\ hdr'[a].size = hdr[a].size
                                     /\ a # curr => hdr'[a] = hdr[a]
        BY <2>1, <2>3, FlagKeepsTiling
      <3>2. Allocated' = Allocated \union {curr}
        BY <2>1, <3>1 DEF Allocated
      <3> QED
        BY <2>1, <3>1, <3>2, BlockFacts DEF Allocated
    <2> QED
      BY <2>2, <2>3 DEF TakeBlock
  <1> DEFINE len == hdr'[curr].size
             ptr == curr + HDR
  <1>2. ptr \in Start + HDR .. Alloc!Limit /\ len \in 0 .. Size
    BY <1>1, BlockFacts DEF Alloc!Limit
  <1>3. Alloc!Clear(ptr - HDR, ptr + len)
    <2>1. Start <= ptr - HDR /\ ptr + len <= Alloc!Limit
      BY <1>1, BlockFacts DEF Alloc!Limit
    <2>2. ASSUME NEW r \in InUse
          PROVE  ptr + len <= r.ptr - HDR \/ r.ptr + r.len <= ptr - HDR
      <3>1. PICK b \in Allocated : r = Payload(b)
        BY DEF InUse
      <3>2. b \in DOMAIN hdr /\ b # curr
        BY <1>1 DEF Allocated
      <3>3. /\ curr < b => curr + HDR + len <= b
            /\ b < curr => End(b) <= curr
            /\ b \in Nat /\ curr \in Nat /\ hdr[b].size \in Nat
        BY <1>1, <3>2, BlockFacts
      <3>4. r.ptr = b + HDR /\ r.len = hdr[b].size
        BY <3>1 DEF Payload
      <3> QED
        BY <3>2, <3>3, <3>4
    <2> QED
      BY <2>1, <2>2 DEF Alloc!Clear
  <1>4. InUse' = InUse \union {[ptr |-> ptr, len |-> len]}
    BY <1>1 DEF InUse, Payload
  <1>5. Asked = req /\ Asked # -1 /\ Asked' = -1
    BY <1>1 DEF Asked
  <1> HIDE DEF len, ptr
  <1> QED
    BY <1>1, <1>2, <1>3, <1>4, <1>5 DEF Alloc!Grant, Alloc!NoRequest, len, ptr

\* kfree takes exactly the one block it was given out of use (heap.c:46-47).
LEMMA FreeReleases ==
  ASSUME IInv, NEW a \in Allocated, kfree(a)
  PROVE  \E r \in InUse : Alloc!Release(r)
  <1>1. /\ a \in DOMAIN hdr /\ TypeOK /\ Tiling
        /\ hdr' = [hdr EXCEPT ![a].free = TRUE]
        /\ pc = "idle" /\ pc' = "merge"
    BY DEF IInv, Allocated, kfree
  <1>2. /\ DOMAIN hdr' = DOMAIN hdr /\ hdr'[a].free
        /\ \A b \in DOMAIN hdr : /\ hdr'[b].size = hdr[b].size
                                 /\ b # a => hdr'[b] = hdr[b]
    BY <1>1, FlagKeepsTiling
  <1>3. Allocated' = Allocated \ {a}
    BY <1>2 DEF Allocated
  <1>4. \A b \in Allocated : b # a => Payload(b) # Payload(a)
    <2> SUFFICES ASSUME NEW b \in Allocated, b # a PROVE b + HDR # a + HDR
      BY DEF Payload
    <2> QED
      BY <1>1, BlockFacts, SMTT(30) DEF Allocated
  <1>5. \A b \in Allocated' : Payload(b)' = Payload(b)
    BY <1>2, <1>3 DEF Payload, Allocated
  <1>6. InUse' = InUse \ {Payload(a)}
    BY <1>3, <1>4, <1>5 DEF InUse
  <1>7. Asked = -1 /\ Asked' = -1
    BY <1>1 DEF Asked
  <1> QED
    BY <1>6, <1>7 DEF InUse, Alloc!Release, Alloc!NoRequest

\* Joining two free blocks is invisible to the callers.
LEMMA JoinKeepsInUse ==
  ASSUME IInv, MergeJoin
  PROVE  InUse' = InUse
  <1>1. PICK n \in DOMAIN hdr : n = hdr[curr].next /\ n = End(curr)
    BY DEF IInv, TypeOK, Tiling, MergeJoin
  <1>2. /\ curr \in DOMAIN hdr /\ hdr[curr].free /\ hdr[n].free
        /\ hdr' = Join /\ curr < n
    BY <1>1, BlockFacts DEF IInv, TypeOK, MergeJoin, BothFree
  <1>3. /\ DOMAIN hdr' = DOMAIN hdr \ {n}
        /\ hdr'[curr].free
        /\ \A a \in DOMAIN hdr \ {n} : a # curr => hdr'[a] = hdr[a]
    BY <1>1, <1>2, BlockFacts DEF Join, IInv
  <1>4. Allocated' = Allocated
    BY <1>2, <1>3 DEF Allocated
  <1>5. \A b \in Allocated : Payload(b)' = Payload(b)
    BY <1>2, <1>3 DEF Payload, Allocated
  <1> QED
    BY <1>4, <1>5 DEF InUse

\* Every step of the heap is a step of the abstract allocator or invisible.
LEMMA StepRefines == IInv /\ IInv' /\ [Next]_vars => [Alloc!Next]_(Alloc!vars)
  <1> SUFFICES ASSUME IInv, IInv', [Next]_vars
               PROVE  Alloc!Next \/ (InUse' = InUse /\ Asked' = Asked)
    BY DEF Alloc!vars
  <1>1. ASSUME NEW n \in Requests, kmalloc(n) PROVE Alloc!Next
    <2>1. InUse' = InUse /\ Asked = -1 /\ Asked' = n
      BY <1>1 DEF kmalloc, InUse, Allocated, Payload, Asked
    <2> QED
      BY <2>1 DEF Alloc!Next, Alloc!Ask, Alloc!NoRequest
  <1>2. ASSUME NEW a \in Allocated, kfree(a) PROVE Alloc!Next
    BY <1>2, FreeReleases DEF Alloc!Next
  <1>3. CASE TakeBlock
    BY <1>3, TakeGrants DEF Alloc!Next
  <1>4. CASE OutOfMemory
    <2>1. InUse' = InUse /\ Asked = req /\ Asked # -1 /\ Asked' = -1
      BY <1>4 DEF OutOfMemory, InUse, Allocated, Payload, Asked, IInv, TypeOK
    <2>2. ~ \E lo \in Start .. Alloc!Limit : Alloc!Clear(lo, lo + HDR + Asked)
      BY <1>4, <2>1, NoRoom DEF OutOfMemory
    <2>3. Alloc!Refuse
      BY <2>1, <2>2 DEF Alloc!Refuse, Alloc!NoRequest
    <2> QED
      BY <2>3 DEF Alloc!Next
  <1>5. CASE MergeJoin
    BY <1>5, JoinKeepsInUse DEF MergeJoin, Asked
  <1>6. CASE ScanNext \/ MergeNext \/ MergeDone \/ UNCHANGED vars
    BY <1>6 DEF ScanNext, MergeNext, MergeDone, vars, InUse, Allocated, Payload, Asked
  <1> QED
    BY <1>1, <1>2, <1>3, <1>4, <1>5, <1>6 DEF Next, Loop

\* kmalloc and kfree implement the abstract allocator: blocks handed out are
\* large enough and disjoint, and NULL is returned only when no room is left
\* (heap.c:18-59).
THEOREM HeapRefinesAllocator == Spec => ImplementsAllocator
  <1>1. Init => Alloc!Init
    BY DEF Init, Alloc!Init, Alloc!NoRequest, InUse, Allocated, Asked
  <1> QED
    BY <1>1, HeapInvariant, StepRefines, PTL DEF Spec, ImplementsAllocator, Alloc!Spec
=============================================================================
