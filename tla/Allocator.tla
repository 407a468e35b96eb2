----------------------------- MODULE Allocator -----------------------------
(***************************************************************************)
(* What a heap promises its callers: every block handed out lies inside    *)
(* the arena, is as large as asked for, and overlaps no block that is      *)
(* still in use (headers included); a request is refused only when no      *)
(* contiguous room for it is left.                                         *)
(***************************************************************************)
EXTENDS Integers

CONSTANTS
    Start,      (* first address of the arena                              *)
    Size,       (* bytes in the arena                                      *)
    HDR,        (* bytes of bookkeeping in front of every block            *)
    Requests    (* the sizes a caller may ask for                          *)

VARIABLES
    live,       (* blocks in use, as records [ptr, len]                    *)
    request     (* the size being asked for, or NoRequest                  *)

vars == <<live, request>>

NoRequest == -1

Limit == Start + Size

\* The bytes lo .. hi-1 are in the arena and belong to no block in use.
Clear(lo, hi) ==
    /\ Start <= lo /\ hi <= Limit
    /\ \A r \in live : hi <= r.ptr - HDR \/ r.ptr + r.len <= lo

Init == live = {} /\ request = NoRequest

Ask(n) ==
    /\ request = NoRequest
    /\ request' = n
    /\ UNCHANGED live

Grant ==
    /\ request # NoRequest
    /\ \E ptr \in Start + HDR .. Limit, len \in 0 .. Size :
          /\ len >= request
          /\ Clear(ptr - HDR, ptr + len)
          /\ live' = live \union {[ptr |-> ptr, len |-> len]}
    /\ request' = NoRequest

Refuse ==
    /\ request # NoRequest
    /\ ~ \E lo \in Start .. Limit : Clear(lo, lo + HDR + request)
    /\ request' = NoRequest
    /\ UNCHANGED live

Release(r) ==
    /\ request = NoRequest
    /\ live' = live \ {r}
    /\ UNCHANGED request

Next ==
    \/ \E n \in Requests : Ask(n)
    \/ Grant
    \/ Refuse
    \/ \E r \in live : Release(r)

Spec == Init /\ [][Next]_vars
=============================================================================
