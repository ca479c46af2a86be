----------------------------- MODULE BitMapObject -----------------------------
(***************************************************************************)
(* A BitMap object (BitMap.h): its vector bits_ and the operations that    *)
(* change it.  copyFrom reads from the caller's buffer SOURCE.  The        *)
(* object is shown to implement BitArray: the bit array it stands for is   *)
(* bit k of bits_ for k below size_; the padding bits of the last byte,    *)
(* which setAll and setByte also write, are not part of it.               *)
(***************************************************************************)
EXTENDS BitMap

CONSTANTS
    SIZE,        \* size_, in bits
    SOURCE,      \* the buffer copyFrom copies from: 0..n-1 -> Byte
    SRC_OFFSETS, \* the source offsets of the copyFrom calls
    BYTE_VALUES, \* the values setByte is given
    JUNK         \* the bytes a read past the end of SOURCE may give

ASSUME /\ SIZE \in Nat \ {0}
       /\ SOURCE \in [0..Cardinality(DOMAIN SOURCE) - 1 -> Byte]
       /\ SRC_OFFSETS \subseteq Nat /\ BYTE_VALUES \subseteq Byte
       /\ JUNK \subseteq Byte

VARIABLE bits  \* bits_

ByteIdx == 0..BytesFor(SIZE) - 1
SourceSize == 8 * Cardinality(DOMAIN SOURCE)

\* BitMap(size) zero-fills the vector; BitMap(size, bits) copies
\* (size + 7) / 8 bytes from bits.
Init == bits \in {[i \in ByteIdx |-> 0], [i \in ByteIdx |-> SOURCE[i]]}

\* Mutant: the shift is by index, not index & 0x7, and not truncated.
SetNoMask(index) == bits' = [bits EXCEPT ![index \div 8] = @ | Shl(1, index)]

\* set(index), and the set of getThenSet.
Set(index) == bits' = [bits EXCEPT ![index \div 8] = @ | Shl(1, index % 8)]

\* Mutant: the bit is or-ed in without being cleared first.
SetValueNoClear(index, value) ==
    bits' = [bits EXCEPT ![index \div 8] = @ | Shl(value, index % 8)]

\* set(index, value): ~(1 << i) is an int whose low byte clears bit i.
SetValue(index, value) ==
    bits' = [bits EXCEPT ![index \div 8] = (@ & (255 - Shl(1, index % 8)))
                                           | Shl(value, index % 8)]

SetByte(index, value) == bits' = [bits EXCEPT ![index] = value]

\* setAll: memset of every byte, padding included.
SetAll(value) == bits' = [i \in ByteIdx |-> IF value THEN 255 ELSE 0]

\* copyFrom(source, sourceOffset, offset, length) is bitcpy into bits_.
CopyFrom(sourceOffset, offset, length) ==
    \E junk \in JUNK :
        bits' = Bitcpy(bits, offset, SOURCE, sourceOffset, length, junk)

\* The callers keep the copied range inside both buffers.
Next ==
    \/ \E i \in 0..SIZE - 1 : Set(i)
    \/ \E i \in 0..SIZE - 1, v \in {0, 1} : SetValue(i, v)
    \/ \E i \in ByteIdx, v \in BYTE_VALUES : SetByte(i, v)
    \/ \E v \in BOOLEAN : SetAll(v)
    \/ \E sOff \in SRC_OFFSETS, off \in 0..SIZE - 1, len \in 1..SIZE :
          /\ off + len <= SIZE /\ sOff + len <= SourceSize
          /\ CopyFrom(sOff, off, len)

Spec == Init /\ [][Next]_bits

TypeOK == bits \in [ByteIdx -> Byte]

\* The bit array the object stands for.
AbsBits == [k \in 0..SIZE - 1 |-> BitOf(bits, k)]

Abs == INSTANCE BitArray
        WITH abits <- AbsBits,
             SRCBITS <- [k \in 0..SourceSize - 1 |-> BitOf(SOURCE, k)]

\* Every step of a BitMap, seen through bit k of bits_ for k < size_, is a
\* step of a bit array: set and set(index, value) change the one bit,
\* setByte eight, setAll every bit, and copyFrom exactly the copied range,
\* whatever the padding bits hold and however the offsets are aligned.
BitArrayRefinement == Abs!Spec
================================================================================
