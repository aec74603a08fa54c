-------------------------------- MODULE Crc32 --------------------------------
(***************************************************************************)
(* crc32 of libdigi, continued from block to block as update_flash does    *)
(* it.  A 32-bit number is the set of its bits, exclusive or is symmetric  *)
(* difference.  The table is linear: the entry of a byte is the exclusive  *)
(* or of the entries of its bits, and those eight are written out.         *)
(***************************************************************************)
EXTENDS Integers, Sequences, SequencesExt

CONSTANTS Blocks, MaxLen    \* blocks of bytes; bound: bytes in all

VARIABLES
    uiCRC,  \* the result so far, 0 before the first block
    data    \* history: the bytes so far

vars == <<uiCRC, data>>

Xor(a, b) == (a \ b) \cup (b \ a)
Bits(x, low) == {low + k : k \in {j \in 0 .. 15 : (x \div 2^j) % 2 = 1}}
Word(high, low) == Bits(high, 16) \cup Bits(low, 0)
AllBits == 0 .. 31
LowByte(a) == a \cap (0 .. 7)
ShiftRight(a, k) == {j - k : j \in {i \in a : i >= k}}

\* crc32_table[1], [2], [4], [8], [16], [32], [64], [128]
OfBit == <<Word(30471, 12438), Word(60942, 24876), Word(1901, 50201), Word(3803, 34866),
           Word(7607, 4196), Word(15214, 8392), Word(30428, 16784), Word(60856, 33568)>>
crc32_table(byte) == FoldSet(LAMBDA k, acc : Xor(OfBit[k + 1], acc), {}, byte)

Init == uiCRC = {} /\ data = <<>>

(* One call; a byte is the set of its bits.                                *)
crc32_not_undone(crc, buf) ==   \* mutant: only the result is inverted
    Xor(FoldLeft(LAMBDA c, b : Xor(crc32_table(LowByte(Xor(c, b))), ShiftRight(c, 8)),
                 IF crc = {} THEN AllBits ELSE crc, buf),
        AllBits)
crc32(crc, buf) ==
    Xor(FoldLeft(LAMBDA c, b : Xor(crc32_table(LowByte(Xor(c, b))), ShiftRight(c, 8)),
                 Xor(crc, AllBits), buf),
        AllBits)

Block(b) ==
    /\ Len(data) + Len(b) <= MaxLen
    /\ data' = data \o b
    /\ uiCRC' = crc32(uiCRC, b)

Terminated == Len(data) = MaxLen /\ UNCHANGED vars
Next == (\E b \in Blocks : Block(b)) \/ Terminated
Spec == Init /\ [][Next]_vars
-----------------------------------------------------------------------------
(* The checksum of IEEE 802.3, bit by bit: the remainder of the inverted   *)
(* data divided by the polynomial 0xedb88320 (bits reversed).              *)
Poly == Word(60856, 33568)
DivideBit(c) == IF 0 \in c THEN Xor(Poly, ShiftRight(c, 1)) ELSE ShiftRight(c, 1)
DivideByte(c, b) == FoldLeft(LAMBDA r, k : DivideBit(r), Xor(c, b), <<1, 2, 3, 4, 5, 6, 7, 8>>)
Reference(buf) == Xor(FoldLeft(DivideByte, AllBits, buf), AllBits)

(* However a file is cut into blocks, the last call returns the checksum   *)
(* of the file; a file without bytes has 0.                                *)
BlocksContinue == uiCRC = Reference(data)
=============================================================================
