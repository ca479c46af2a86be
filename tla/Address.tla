------------------------------- MODULE Address -------------------------------
(***************************************************************************)
(* Address (Address.h, Address.cpp): a radio address of n bytes, n even,   *)
(* here a function from 0..n-1 to 0..255 indexed like value_.  The first   *)
(* half is the top half, the one Address::Hash digests.  Each half ends    *)
(* in a byte whose low nibble is a checksum of the half.  rand() & 0xFF    *)
(* is a byte of the set rand, so the operators that draw random bytes      *)
(* give the set of addresses the draw can produce.                         *)
(***************************************************************************)
EXTENDS Integers, FiniteSets, Bitwise

AddrLen(a) == Cardinality(DOMAIN a)
Half(a) == AddrLen(a) \div 2

\* Both nibbles of a[from..to], summed.
RECURSIVE NibbleSum(_, _, _)
NibbleSum(a, from, to) ==
    IF from > to THEN 0
    ELSE (a[from] \div 16) + (a[from] % 16) + NibbleSum(a, from + 1, to)

\* computeChecksum(&a[from], size): both nibbles of every byte but the
\* last, and the high nibble of the last, summed in a uint8_t.
ComputeChecksum(a, from, size) ==
    ((NibbleSum(a, from, from + size - 2) + a[from + size - 1] \div 16) % 256) % 16

\* value_[i] &= 0xF0; value_[i] |= computeChecksum(&value_[from], size).
WithChecksum(a, i, from, size) ==
    LET cleared == [a EXCEPT ![i] = 16 * (@ \div 16)]
    IN  [cleared EXCEPT ![i] = @ + ComputeChecksum(cleared, from, size)]

\* (b & ~mask) | (value & mask): ~mask is an int whose low byte is 255 - mask.
WithPartial(b, value, mask) == (b & (255 - mask)) | (value & mask)

\* generateWithPartial(size, value, mask): random bytes, the partial value
\* in byte 0, then the checksum of each half.
GenerateWithPartial(size, value, mask, rand) ==
    LET h == size \div 2
        Finish(r) ==
            WithChecksum(WithChecksum([r EXCEPT ![0] = WithPartial(@, value, mask)],
                                      h - 1, 0, h),
                         size - 1, h, h)
    IN  {Finish(r) : r \in [0..size - 1 -> rand]}

\* shiftWithPartial(value, mask): the old top half becomes the bottom half,
\* under a new random top half with the partial value and its checksum;
\* the draw is repeated while the result equals the old address.
ShiftWithPartial(a, value, mask, rand) ==
    LET h == Half(a)
        Draw(r) ==
            WithChecksum([i \in DOMAIN a |->
                            IF i >= h THEN a[i - h]
                            ELSE IF i = 0 THEN WithPartial(r[0], value, mask)
                            ELSE r[i]],
                         h - 1, 0, h)
    IN  {s \in {Draw(r) : r \in [0..h - 1 -> rand]} : s # a}

\* unshift(): the bottom half moved to the top, zeros below it.
Unshift(a) == [i \in DOMAIN a |-> IF i < Half(a) THEN a[i + Half(a)] ELSE 0]

\* a.isShift(other): the bottom half of a is the top half of other.
IsShift(a, other) == \A i \in 0..Half(a) - 1 : a[i + Half(a)] = other[i]

VerifyChecksum(a) ==
    /\ a[Half(a) - 1] % 16 = ComputeChecksum(a, 0, Half(a))
    /\ a[AddrLen(a) - 1] % 16 = ComputeChecksum(a, Half(a), Half(a))

GetPartialValue(a, mask) == a[0] & mask

\* Mutant: the hash digests the whole address.
TopHalfWholeAddress(a) == a

\* What Address::Hash digests: the top half.
TopHalf(a) == [i \in 0..Half(a) - 1 |-> a[i]]

(***************************************************************************)
(* EbNDeviceMap::findShiftedMatch(address): the keys of the bucket of      *)
(* address.unshift() are those with its top half (and others whose hash    *)
(* collides, which isShift rejects); the first key of the bucket that      *)
(* address is a shift of is re-keyed.  The order of a bucket is not        *)
(* specified, so the result is the set of keys that may be the one found.  *)
(***************************************************************************)
FindShiftedMatch(keys, address) ==
    {k \in {k \in keys : TopHalf(k) = TopHalf(Unshift(address))} :
        IsShift(address, k)}
================================================================================
