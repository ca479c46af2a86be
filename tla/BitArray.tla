------------------------------- MODULE BitArray -------------------------------
(***************************************************************************)
(* What a BitMap promises its callers: an array of SIZE bits that can be   *)
(* set one at a time, all at once, eight at a time from a byte, or from a  *)
(* range of the bits of a source buffer.                                   *)
(***************************************************************************)
EXTENDS Integers, FiniteSets

CONSTANTS
    SIZE,       \* the number of bits
    SRCBITS,    \* the bits of the source buffer: 0..n-1 -> {0, 1}
    SRC_OFFSETS,\* the source offsets copies start at
    BYTE_VALUES \* the values a whole byte is set to

VARIABLE abits

Bits == 0..SIZE - 1

Init == abits \in [Bits -> {0, 1}]

SetBit(i, v) == abits' = [abits EXCEPT ![i] = v]

SetAllBits(v) == abits' = [k \in Bits |-> v]

\* The bits 8i..8i+7 that are in the array take the bits of value.
WriteByte(i, value) ==
    abits' = [k \in Bits |-> IF k \div 8 = i THEN (value \div 2^(k % 8)) % 2
                             ELSE abits[k]]

\* The bits off..off+len-1 take the bits sOff..sOff+len-1 of the source.
CopyBits(sOff, off, len) ==
    abits' = [k \in Bits |-> IF off <= k /\ k < off + len
                             THEN SRCBITS[sOff + k - off] ELSE abits[k]]

Next ==
    \/ \E i \in Bits, v \in {0, 1} : SetBit(i, v)
    \/ \E v \in {0, 1} : SetAllBits(v)
    \/ \E i \in 0..(SIZE - 1) \div 8, value \in BYTE_VALUES : WriteByte(i, value)
    \/ \E sOff \in SRC_OFFSETS, off \in Bits, len \in 1..SIZE :
          /\ off + len <= SIZE /\ sOff + len <= Cardinality(DOMAIN SRCBITS)
          /\ CopyBits(sOff, off, len)

Spec == Init /\ [][Next]_abits
================================================================================
