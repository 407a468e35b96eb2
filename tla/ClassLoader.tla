----------------------------- MODULE ClassLoader ----------------------------
(***************************************************************************)
(* class_execute and parse_constant_pool (src/src/runtime/jar.c:64-212), a *)
(* loop iteration an action, against the heap it takes the constant pool   *)
(* from (module Allocator).  A unit of the file is one field of one, two   *)
(* or four bytes, or one character; no check of the code falls inside one. *)
(***************************************************************************)
EXTENDS Text, FiniteSets

CONSTANTS
    ClassMagic,     (* 0xCAFEBABE                                          *)
    MaxPool,        (* entries of the largest pool accepted (512)          *)
    HeapSize, HeapHdr   (* entries the heap has room for, and a header     *)

ASSUME ClassAssumption == {ClassMagic, MaxPool, HeapSize, HeapHdr} \subseteq Nat

VARIABLES
    live, request,  (* the heap, see Allocator                             *)
    data, off,      (* the class file, and the units of it consumed        *)
    at,             (* the loop that runs, or "idle"                       *)
    cp, cp_count,   (* the pool: what the heap hands out keeps its bytes   *)
    n, attrs,       (* members and attributes to come; n is an index while *)
                    (* the pool is parsed                                  *)
    method,         (* the method: its name's index and its code, if any   *)
    ran             (* history: the code given to execute_bytecode by the  *)
                    (* last call, and the results                          *)

heapVars  == <<live, request>>
classVars == <<heapVars, data, off, at, cp, cp_count, n, attrs, method, ran>>

Heap == INSTANCE Allocator
        WITH Start <- 0, Size <- HeapSize, HDR <- HeapHdr, Requests <- 0 .. MaxPool

NoCode == <<>>
NoMethod == [name |-> 0, code |-> NoCode]

ClassInit ==
    /\ Heap!Init /\ data = <<>> /\ off = 0 /\ at = "idle"
    /\ cp = [k \in 0 .. MaxPool |-> [tag |-> 0, value |-> <<>>]] /\ cp_count = 0
    /\ n = 0 /\ attrs = 0 /\ method = NoMethod /\ ran = NoCode

-----------------------------------------------------------------------------
(* The class file format, for a class [pool, interfaces, fields, methods]: *)
(* pool entries [tag, value], for each field the lengths of its            *)
(* attributes, methods [name, attrs] with attributes [name, payload].      *)

Utf8 == 1
Integer == 3
Float == 4
Long == 5
Double == 6
Class == 7
String == 8
Fieldref == 9
Methodref == 10
InterfaceMref == 11
NameAndType == 12

Slots(tag) == IF tag \in {Long, Double} THEN 2 ELSE 1

EncodeEntry(e) == <<e.tag>> \o (IF e.tag = Utf8 THEN <<Len(e.value)>> ELSE <<>>) \o e.value
EncodeField(f) ==
    <<0, 0, 0, Len(f)>> \o FlattenSeq([a \in DOMAIN f |-> <<0, f[a]>> \o [u \in 1 .. f[a] |-> 0]])
EncodeMethod(m) ==
    <<0, m.name, 0, Len(m.attrs)>>
    \o FlattenSeq([a \in DOMAIN m.attrs |->
           <<m.attrs[a].name, Len(m.attrs[a].payload)>> \o m.attrs[a].payload])

\* The number of an entry in the pool: two for each long and double before it.
Slot(pool, k) ==
    LET slot[j \in Nat \ {0}] == IF j = 1 THEN 1 ELSE slot[j - 1] + Slots(pool[j - 1].tag) IN slot[k]

EncodeClass(c) ==
    <<ClassMagic, 0, 0, Slot(c.pool, Len(c.pool) + 1)>>
    \o FlattenSeq([k \in DOMAIN c.pool |-> EncodeEntry(c.pool[k])])
    \o <<0, 0, 0, c.interfaces>> \o [k \in 1 .. c.interfaces |-> 0]
    \o <<Len(c.fields)>> \o FlattenSeq([k \in DOMAIN c.fields |-> EncodeField(c.fields[k])])
    \o <<Len(c.methods)>> \o FlattenSeq([k \in DOMAIN c.methods |-> EncodeMethod(c.methods[k])])
    \o <<0>>

-----------------------------------------------------------------------------
(* class_execute *)

size == Len(data)
Unit(k) == IF k < size THEN data[k + 1] ELSE 0

\* The call: a file too short, of another kind or with too large a pool is
\* refused before anything is allocated.
class_execute(d) ==
    /\ at = "idle" /\ data' = d /\ ran' = NoCode
    /\ IF Len(d) >= 4 /\ d[1] = ClassMagic /\ d[4] <= MaxPool
       THEN /\ Heap!Ask(d[4]) /\ at' = "malloc" /\ cp_count' = d[4]
       ELSE /\ at' = "returned" /\ UNCHANGED <<heapVars, cp_count>>
    /\ UNCHANGED <<off, cp, n, attrs, method>>

Allocated ==
    /\ at = "malloc"
    /\ \/ Heap!Grant /\ at' = "pool"
       \/ Heap!Refuse /\ at' = "returned"
    /\ off' = 4 /\ n' = 1
    /\ UNCHANGED <<data, cp, cp_count, attrs, method, ran>>

\* The units of an entry behind its tag; no other tag is known.
Width(tag) ==
    IF tag = Utf8 THEN 1 + Unit(off + 1)
    ELSE IF tag \in {Integer, Float, Class, String} THEN 1
    ELSE 2      (* long, double, the references, NameAndType *)

Known(tag) == tag \in {Utf8} \union Integer .. NameAndType

Value(tag) ==
    LET first == off + IF tag = Utf8 THEN 2 ELSE 1
    IN [k \in 1 .. off + 1 + Width(tag) - first |-> Unit(first + k - 1)]

\* Mutant: a long or double takes one slot.
OneSlotEach ==
    LET tag == Unit(off)
    IN  /\ at = "pool" /\ n < cp_count
        /\ \/ /\ Known(tag)
              /\ cp' = [cp EXCEPT ![n] = [tag |-> tag,
                     value |-> IF Slots(tag) = 2 THEN @.value ELSE Value(tag)]]
              /\ off' = off + 1 + Width(tag) /\ n' = n + 1 /\ UNCHANGED at
           \/ /\ ~Known(tag)
              /\ cp' = [cp EXCEPT ![n].tag = tag]
              /\ off' = off + 1 /\ at' = "header" /\ UNCHANGED n
        /\ UNCHANGED <<heapVars, data, cp_count, attrs, method, ran>>

\* parse_constant_pool: one entry.  A long or double leaves only its tag; an
\* unknown tag ends the pool where it stands.
PoolEntry ==
    LET tag == Unit(off)
    IN  /\ at = "pool" /\ n < cp_count
        /\ \/ /\ Known(tag)
              /\ cp' = [cp EXCEPT ![n] = [tag |-> tag,
                     value |-> IF Slots(tag) = 2 THEN @.value ELSE Value(tag)]]
              /\ off' = off + 1 + Width(tag) /\ n' = n + Slots(tag) /\ UNCHANGED at
           \/ /\ ~Known(tag)
              /\ cp' = [cp EXCEPT ![n].tag = tag]
              /\ off' = off + 1 /\ at' = "header" /\ UNCHANGED n
        /\ UNCHANGED <<heapVars, data, cp_count, attrs, method, ran>>

PoolDone ==
    /\ at = "pool" /\ n >= cp_count /\ at' = "header"
    /\ UNCHANGED <<heapVars, data, off, cp, cp_count, n, attrs, method, ran>>

\* Mutant: a file that ends too early is left without kfree.
PartLeaking(units, next, skip) ==
    IF off + units > size THEN at' = "returned" /\ UNCHANGED off
                          ELSE at' = next /\ off' = off + units + skip

\* A part of `units' more units is read, if they are there: the code goes on
\* in `next' behind them, or releases the pool.
Part(units, next, skip) ==
    IF off + units > size THEN at' = "done" /\ UNCHANGED off
                          ELSE at' = next /\ off' = off + units + skip

walkVars == <<heapVars, data, cp, cp_count, ran>>

Header ==
    /\ at = "header" /\ Part(4, "fields", Unit(off + 3))
    /\ UNCHANGED <<walkVars, n, attrs, method>>

\* field_cnt, then a field, then one of its attributes
Fields ==
    /\ at = "fields" /\ Part(1, "field", 0) /\ n' = Unit(off)
    /\ UNCHANGED <<walkVars, attrs, method>>

Field ==
    /\ at = "field"
    /\ IF n = 0 THEN at' = "methods" /\ UNCHANGED <<off, attrs>>
                ELSE Part(4, "skip", 0) /\ attrs' = Unit(off + 3)
    /\ UNCHANGED <<walkVars, n, method>>

FieldAttribute ==
    /\ at = "skip"
    /\ IF attrs = 0 THEN at' = "field" /\ n' = n - 1 /\ UNCHANGED <<off, attrs>>
                    ELSE Part(2, "skip", Unit(off + 1)) /\ attrs' = attrs - 1 /\ UNCHANGED n
    /\ UNCHANGED <<walkVars, method>>

Methods ==
    /\ at = "methods" /\ Part(1, "method", 0) /\ n' = Unit(off)
    /\ UNCHANGED <<walkVars, attrs, method>>

Method ==
    /\ at = "method"
    /\ IF n = 0 THEN at' = "done" /\ UNCHANGED <<off, attrs, method>>
                ELSE /\ Part(4, "attribute", 0) /\ attrs' = Unit(off + 3)
                     /\ method' = [name |-> Unit(off + 1), code |-> NoCode]
    /\ UNCHANGED <<walkVars, n>>

\* strn_eq of a pool entry, if there is one
Names(index, text) ==
    index < cp_count /\ cp[index].tag = Utf8 /\ cp[index].value = text

\* max_stack, max_locals, code_len, then the code
CodeAt(k) == [j \in 1 .. Unit(k + 2) |-> Unit(k + 2 + j)]

\* The last attribute of the method has been read: main is run, another
\* method is passed over.
MethodAttribute ==
    /\ at = "attribute"
    /\ \/ /\ attrs > 0 /\ Part(2, "attribute", Unit(off + 1)) /\ attrs' = attrs - 1
          /\ method' = IF off + 2 <= size /\ Names(Unit(off), NameCode) /\ Unit(off + 1) >= 3
                       THEN [method EXCEPT !.code = CodeAt(off + 2)] ELSE method
          /\ UNCHANGED <<n, ran>>
       \/ /\ attrs = 0 /\ Names(method.name, NameMain) /\ method.code # NoCode
          /\ ran' = method.code /\ at' = "done" /\ UNCHANGED <<off, n, attrs, method>>
       \/ /\ attrs = 0 /\ ~(Names(method.name, NameMain) /\ method.code # NoCode)
          /\ n' = n - 1 /\ at' = "method" /\ UNCHANGED <<off, attrs, method, ran>>
    /\ UNCHANGED <<heapVars, data, cp, cp_count>>

\* kfree(cp), on every way out
Done ==
    /\ at = "done" /\ at' = "returned"
    /\ \E b \in live : Heap!Release(b)
    /\ UNCHANGED <<data, off, cp, cp_count, n, attrs, method, ran>>

Walk ==
    \/ Allocated \/ PoolEntry \/ PoolDone \/ Header \/ Fields \/ Field \/ FieldAttribute
    \/ Methods \/ Method \/ MethodAttribute \/ Done

-----------------------------------------------------------------------------
(* Properties *)

ClassTypeOK ==
    /\ at \in {"idle", "malloc", "pool", "header", "fields", "field", "skip", "methods",
               "method", "attribute", "done", "returned"}
    /\ cp_count \in 0 .. MaxPool /\ n \in Nat /\ attrs \in Nat /\ off \in Nat
    /\ request \in {Heap!NoRequest} \union 0 .. MaxPool

\* The pool is held from its allocation to the end of the call and never
\* longer: whatever way class_execute takes out of a damaged file, it has
\* released the pool once when it returns (jar.c:128-211).
Balanced ==
    Cardinality(live) = IF at \in {"idle", "malloc", "returned"} THEN 0 ELSE 1
=============================================================================
