------------------------------- MODULE Initrd -------------------------------
(***************************************************************************)
(* The initial ramdisk (src/src/fs/initrd.c): a tar archive that the boot  *)
(* loader has put into memory, walked from header to header.  Memory is    *)
(* counted in blocks (512 bytes); `memory' is what lies behind mod_start.  *)
(* Nothing is ever written, so a walk is a function of its arguments.      *)
(***************************************************************************)
EXTENDS Text

CONSTANTS
    BlockUnits,     (* what fits in a block (512 bytes)                    *)
    SizeDigits,     (* octal digits of the size field (11)                 *)
    Word            (* 2^32: sizes and addresses wrap                      *)

\* The powers of eight.
Eights[k \in Nat] == IF k = 0 THEN 1 ELSE 8 * Eights[k - 1]

ASSUME InitrdAssumption ==
    /\ BlockUnits \in Nat \ {0} /\ SizeDigits \in Nat \ {0} /\ Word \in Nat \ {0}
    /\ Word <= Eights[SizeDigits]

-----------------------------------------------------------------------------
(* The archive, as `find . | xargs tar' writes it: names begin with "./",  *)
(* directories come before what is in them, two blocks of zeros end it.  A *)
(* block of data may begin like a header.                                  *)

Blocks(size) == (size + BlockUnits - 1) \div BlockUnits

Octal(n) == [d \in 1 .. SizeDigits |-> (n \div Eights[SizeDigits - d]) % 8] \o <<NUL>>

Block(text) ==
    [name |-> text, size |-> SubSeq(text \o Octal(0), 1, SizeDigits + 1), type |-> 0,
     ustar |-> FALSE, text |-> text]

\* What such a file is: its size and a block more can be counted.
StoredFiles ==
    [name : Seq(Int), dir : BOOLEAN, file : {f \in Seq(Int) : Len(f) + BlockUnits <= Word}]

DataBlocks(data) == [n \in 1 .. Blocks(Len(data)) |-> Block(Piece(data, BlockUnits, n))]

\* A member [name, dir, file]: its header and its data.
Member(m) ==
    <<[name |-> <<DOT, SLASH>> \o m.name, size |-> Octal(Len(m.file)),
       type |-> IF m.dir THEN 5 ELSE 0, ustar |-> TRUE, text |-> <<>>]>>
    \o DataBlocks(m.file)

Archive(members) ==
    FlattenSeq([n \in DOMAIN members |-> Member(members[n])]) \o <<Block(<<>>), Block(<<>>)>>

-----------------------------------------------------------------------------
(* The code.  Addresses are block numbers from mod_start = 1 on; memory    *)
(* that is no module has none of them.                                     *)

\* The digits up to the first character that is none.
tar_get_size(field) ==
    LET digits == Max({n \in 0 .. SizeDigits : \A k \in 1 .. n : field[k] \in 0 .. 7})
        value[n \in 0 .. digits] == IF n = 0 THEN 0 ELSE (value[n - 1] * 8 + field[n]) % Word
    IN value[digits]

NextHeader(address, size) ==
    address + (((size + BlockUnits - 1) % Word) \div BlockUnits) + 1

\* What initrd_list prints of a header.
ListLine(h) == <<h.name, h.type = 5>>

initrd_list(memory) ==
    LET from[address \in Nat \ {0}] ==
            IF address > Len(memory) \/ memory[address].name = <<>> THEN <<>>
            ELSE <<ListLine(memory[address])>>
                 \o from[NextHeader(address, tar_get_size(memory[address].size))]
    IN from[1]

tar_match_filename(tar_name, search_name) ==
    \/ Begins(tar_name, <<DOT, SLASH>>) /\ SubSeq(tar_name, 3, Len(tar_name)) = search_name
    \/ tar_name = search_name

NotFound == [address |-> 0, size |-> 0]

initrd_read_file(memory, filename) ==
    LET from[address \in Nat \ {0}] ==
            IF address > Len(memory) \/ (~memory[address].ustar /\ memory[address].name = <<>>)
            THEN NotFound
            ELSE LET size == tar_get_size(memory[address].size)
                 IN IF tar_match_filename(memory[address].name, filename)
                    THEN [address |-> address + 1, size |-> size]
                    ELSE from[NextHeader(address, size)]
    IN from[1]

\* The bytes a caller reads through the pointer.
Bytes(memory, f) ==
    SubSeq(FlattenSeq([b \in 1 .. Blocks(f.size) |-> memory[f.address + b - 1].text]), 1, f.size)
=============================================================================
