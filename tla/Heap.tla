-------------------------------- MODULE Heap --------------------------------
(***************************************************************************)
(* The kernel heap (src/src/memory/heap.c): a first-fit allocator over a   *)
(* singly linked list of block headers that live in the arena itself.      *)
(* Memory is the function hdr from the address of each header that the     *)
(* list still reaches to its fields; next is the stored pointer, so that   *)
(* list order and address order are two things an invariant has to relate. *)
(* An iteration of a while loop of the code is one action.  Interrupt      *)
(* handlers never call the heap, so calls do not overlap.                  *)
(***************************************************************************)
EXTENDS Integers

CONSTANTS
    Start,      (* start_addr given to heap_init                           *)
    Size,       (* size given to heap_init                                 *)
    HDR,        (* sizeof(block_t)                                         *)
    SLACK,      (* the 4 spare bytes a split has to leave                  *)
    Requests    (* sizes passed to kmalloc                                 *)

NULL == 0

Limit == Start + Size

\* The arena does not start at address 0 and holds at least one header.
ASSUME HeapAssumption ==
    /\ Start \in Nat \ {0} /\ Size \in Nat
    /\ HDR \in Nat \ {0}   /\ SLACK \in Nat
    /\ HDR <= Size
    /\ Requests \subseteq Nat

VARIABLES
    hdr,        (* headers in memory: address -> [size, free, next]        *)
    pc,         (* "idle", "scan" (in kmalloc) or "merge" (in kfree)       *)
    curr,       (* the local variable curr of both functions               *)
    req         (* the parameter size of kmalloc                           *)

vars == <<hdr, pc, curr, req>>

Block(s, f, n) == [size |-> s, free |-> f, next |-> n]

\* heap_init: one free block covers the arena.
Init ==
    /\ hdr = [a \in {Start} |-> Block(Size - HDR, TRUE, NULL)]
    /\ pc = "idle" /\ curr = NULL /\ req = 0

free_list == Start

-----------------------------------------------------------------------------
(* kmalloc *)

\* Mutant: the search resumes where the last call stopped.
kmallocResumes(size) ==
    /\ pc = "idle"
    /\ pc' = "scan" /\ req' = size
    /\ UNCHANGED <<hdr, curr>>

kmalloc(size) ==
    /\ pc = "idle"
    /\ pc' = "scan" /\ curr' = free_list /\ req' = size
    /\ UNCHANGED hdr

\* Mutant: the free flag is not looked at.
FitsBySize(a) == hdr[a].size >= req

Fits(a) == hdr[a].free /\ hdr[a].size >= req

ScanNext ==
    /\ pc = "scan" /\ curr # NULL /\ ~Fits(curr)
    /\ curr' = hdr[curr].next
    /\ UNCHANGED <<hdr, pc, req>>

\* Mutant: no room is kept for the second header.
CanSplitTight == hdr[curr].size > req

\* The block is large enough to leave a second block behind.
CanSplit == hdr[curr].size > req + HDR + SLACK

SplitTail == curr + HDR + req

Split ==
    [a \in DOMAIN hdr \union {SplitTail} |->
        IF a = SplitTail
        THEN Block(hdr[curr].size - req - HDR, TRUE, hdr[curr].next)
        ELSE IF a = curr
        THEN Block(req, FALSE, SplitTail)
        ELSE hdr[a]]

TakeBlock ==
    /\ pc = "scan" /\ curr # NULL /\ Fits(curr)
    /\ \/ CanSplit /\ hdr' = Split
       \/ ~CanSplit /\ hdr' = [hdr EXCEPT ![curr].free = FALSE]
    /\ pc' = "idle"
    /\ UNCHANGED <<curr, req>>

OutOfMemory ==
    /\ pc = "scan" /\ curr = NULL
    /\ pc' = "idle"
    /\ UNCHANGED <<hdr, curr, req>>

-----------------------------------------------------------------------------
(* kfree.  The one caller, class_execute, passes what kmalloc gave it. *)

Allocated == {a \in DOMAIN hdr : ~hdr[a].free}

\* Mutant: coalescing starts at the block just freed.
kfreeForward(a) ==
    /\ pc = "idle"
    /\ hdr' = [hdr EXCEPT ![a].free = TRUE]
    /\ pc' = "merge" /\ curr' = a
    /\ UNCHANGED req

kfree(a) ==
    /\ pc = "idle"
    /\ hdr' = [hdr EXCEPT ![a].free = TRUE]
    /\ pc' = "merge" /\ curr' = free_list
    /\ UNCHANGED req

BothFree == hdr[curr].free /\ hdr[hdr[curr].next].free

\* Mutant: the header of the absorbed block is not counted.
JoinLosesHeader ==
    LET nxt == hdr[curr].next
    IN  [a \in DOMAIN hdr \ {nxt} |->
            IF a = curr
            THEN Block(hdr[curr].size + hdr[nxt].size, TRUE, hdr[nxt].next)
            ELSE hdr[a]]

Join ==
    LET nxt == hdr[curr].next
    IN  [a \in DOMAIN hdr \ {nxt} |->
            IF a = curr
            THEN Block(hdr[curr].size + HDR + hdr[nxt].size, TRUE, hdr[nxt].next)
            ELSE hdr[a]]

MergeJoin ==
    /\ pc = "merge" /\ hdr[curr].next # NULL /\ BothFree
    /\ hdr' = Join
    /\ UNCHANGED <<pc, curr, req>>

\* Mutant: the else branch is missing.
MergeStays ==
    /\ pc = "merge" /\ hdr[curr].next # NULL /\ ~BothFree
    /\ UNCHANGED vars

MergeNext ==
    /\ pc = "merge" /\ hdr[curr].next # NULL /\ ~BothFree
    /\ curr' = hdr[curr].next
    /\ UNCHANGED <<hdr, pc, req>>

MergeDone ==
    /\ pc = "merge" /\ hdr[curr].next = NULL
    /\ pc' = "idle"
    /\ UNCHANGED <<hdr, curr, req>>

-----------------------------------------------------------------------------
Loop == ScanNext \/ TakeBlock \/ OutOfMemory \/ MergeJoin \/ MergeNext \/ MergeDone

Next ==
    \/ \E n \in Requests : kmalloc(n)
    \/ \E a \in Allocated : kfree(a)
    \/ Loop

\* A call that has begun runs on: nothing in the loops waits.
Spec == Init /\ [][Next]_vars /\ WF_vars(Loop)

-----------------------------------------------------------------------------
(* Properties *)

End(a) == a + HDR + hdr[a].size

\* Headers lie in the arena and every variable has a value of its C type.
TypeOK ==
    /\ DOMAIN hdr \subseteq Start .. Limit - 1
    /\ hdr \in [DOMAIN hdr -> [size : Nat, free : BOOLEAN, next : Nat]]
    /\ pc \in {"idle", "scan", "merge"}
    /\ curr \in DOMAIN hdr \union {NULL}
    /\ pc = "merge" => curr # NULL
    /\ req \in Nat

\* The linked list is the arena cut into consecutive blocks: each block's
\* next pointer is the address where the block ends (NULL for the last), no two
\* blocks overlap, and every byte belongs to one.  Splitting in kmalloc and
\* joining in kfree both rewrite size and next by hand (heap.c:26-32, 53-54).
Tiling ==
    /\ Start \in DOMAIN hdr
    /\ \A a \in DOMAIN hdr :
          /\ End(a) <= Limit
          /\ hdr[a].next = IF End(a) = Limit THEN NULL ELSE End(a)
          /\ hdr[a].next # NULL => hdr[a].next \in DOMAIN hdr
    /\ \A a, b \in DOMAIN hdr : a < b => End(a) <= b
    /\ \A x \in Start .. Limit - 1 : \E a \in DOMAIN hdr : a <= x /\ x < End(a)

\* Outside kfree no two neighbouring blocks are both free, so free space is
\* never fragmented by its own history; the single pass of kfree over the whole
\* list (heap.c:50-58) is what re-establishes it.
Coalesced ==
    pc # "merge" => \A a \in DOMAIN hdr :
        hdr[a].free /\ hdr[a].next # NULL => ~hdr[hdr[a].next].free

\* What the two walks have established so far: kmalloc has passed only blocks
\* that do not fit, kfree leaves no pair of free neighbours behind it.
ScanSeen ==
    pc = "scan" => \A a \in DOMAIN hdr : (curr = NULL \/ a < curr) => ~Fits(a)

MergeSeen ==
    pc = "merge" => \A a \in DOMAIN hdr :
        a < curr /\ hdr[a].free /\ hdr[a].next # NULL => ~hdr[hdr[a].next].free

\* The inductive invariant: tiling and coalescing need each other and the
\* progress of the walks (heap.c:22-38, 51-58) to survive every step.
IInv == TypeOK /\ Tiling /\ Coalesced /\ ScanSeen /\ MergeSeen

\* The abstract allocator: its blocks in use are the headers marked not free.
Payload(a) == [ptr |-> a + HDR, len |-> hdr[a].size]
InUse == {Payload(a) : a \in Allocated}
Asked == IF pc = "scan" THEN req ELSE -1

Alloc == INSTANCE Allocator WITH live <- InUse, request <- Asked

\* kmalloc and kfree implement the allocator: returned blocks are disjoint and
\* large enough, and kmalloc returns NULL only when no room is left (heap.c:39).
ImplementsAllocator == Alloc!Spec

\* Every call of kmalloc and of kfree returns: the list walks terminate
\* (heap.c:22, 51).
CallsReturn == (pc # "idle") ~> (pc = "idle")
=============================================================================
