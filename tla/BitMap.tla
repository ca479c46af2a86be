-------------------------------- MODULE BitMap --------------------------------
(***************************************************************************)
(* BitMap (BitMap.h, BitMap.cpp): a bit array kept in a vector of bytes,   *)
(* bit i being bit (i & 7) of byte i >> 3.  Here a byte buffer is a        *)
(* function from 0..n-1 to 0..255, indexed like the C array.               *)
(*                                                                         *)
(* bitcpy is translated phase by phase: the start (up to the next byte     *)
(* boundary of the destination), the body (whole destination bytes) and    *)
(* the end (the remaining bits).  C evaluates the shifts in int and        *)
(* stores the result into a uint8_t, which is the % 256 of the stores.     *)
(* A read of source[i] past the end of the buffer is undefined behaviour;  *)
(* it yields the byte junk, a free choice of the caller of Bitcpy.         *)
(***************************************************************************)
EXTENDS Integers, FiniteSets, Bitwise

Byte == 0..255

\* BitMap(size): bits_((size + 7) / 8, 0).
Zeros(nBytes) == [i \in 0..nBytes - 1 |-> 0]

\* The bytes of a buffer that holds n bits: (size + 7) / 8.
BytesFor(n) == (n + 7) \div 8

Shl(x, n) == x * 2^n
Shr(x, n) == x \div 2^n
Mask(n) == 2^n - 1

\* source[i], or what a read past its end gives.
Rd(src, i, junk) == IF i \in DOMAIN src THEN src[i] ELSE junk

\* BitMap::get: bit k of a buffer.
BitOf(buf, k) == Shr(buf[k \div 8], k % 8) % 2

\* BitMap::set(index, value): ~(1 << i) is an int whose low byte clears
\* bit i of the byte.
BitSet(buf, index, value) ==
    [buf EXCEPT ![index \div 8] = (@ & (255 - Shl(1, index % 8)))
                                  | Shl(value, index % 8)]

(***************************************************************************)
(* The state of one bitcpy call: the destination, the offsets and length   *)
(* left to copy, and the indices of the source bytes read so far.          *)
(***************************************************************************)
CallState(dest, dOff, src, sOff, len, junk) ==
    [dest |-> dest, dOff |-> dOff, src |-> src, sOff |-> sOff, len |-> len,
     junk |-> junk, reads |-> {}]

\* (source[sp] >> sb), or with the bits of source[sp + 1] above them.
SourceBits(c, twoBytes) ==
    LET sp == c.sOff \div 8
        sb == c.sOff % 8
    IN  IF twoBytes
        THEN Shr(Rd(c.src, sp, c.junk), sb) | Shl(Rd(c.src, sp + 1, c.junk), 8 - sb)
        ELSE Shr(Rd(c.src, sp, c.junk), sb)

SourceRead(c, twoBytes) ==
    IF twoBytes THEN {c.sOff \div 8, c.sOff \div 8 + 1} ELSE {c.sOff \div 8}

\* Mutant: line 71 is missing, sourceBitOffset keeps its old value.
StartSourceOffsetStale(sOff, amount) == 8 * ((sOff + amount) \div 8) + (sOff % 8)

\* Lines 70-71: the source position and bit offset after the start.
StartSourceOffset(sOff, amount) == sOff + amount

\* Lines 56-75: sync the destination to a byte boundary.  amount bits are
\* merged into dest[destPos] under a mask; they come from one source byte
\* when they fit in it (line 61), else from two.
BitcpyStart(c) ==
    LET bo == c.dOff % 8
        dp == c.dOff \div 8
        amount == IF 8 - bo < c.len THEN 8 - bo ELSE c.len
        two == amount > 8 - (c.sOff % 8)
        d == c.dest[dp]
    IN  IF bo = 0 THEN c
        ELSE [c EXCEPT
                !.dest[dp] = (d ^^ Shl((Shr(d, bo) ^^ SourceBits(c, two)) & Mask(amount), bo)) % 256,
                !.sOff = StartSourceOffset(@, amount),
                !.dOff = 8 * (dp + 1), !.len = @ - amount,
                !.reads = @ \cup SourceRead(c, two)]

\* Mutant: the int value is stored without the uint8_t truncation.
BodyByteUntruncated(c) == SourceBits(c, TRUE)

\* Mutant: the body byte is taken from source[sourcePos] alone.
BodyByteLowOnly(c) == SourceBits(c, FALSE) % 256

\* Line 81: a whole byte from source[sourcePos] and source[sourcePos + 1],
\* whatever the source bit offset.
BodyByte(c) == SourceBits(c, TRUE) % 256

\* Lines 77-84: n whole destination bytes.  Iteration j writes byte
\* destPos + j from the source bits at sOff + 8j and reads nothing it
\* wrote, so the n iterations are taken together.
BitcpyBody(c, n) ==
    LET dp == c.dOff \div 8
        At(j) == [c EXCEPT !.sOff = @ + 8 * j]
    IN  [c EXCEPT !.dest = [i \in DOMAIN @ |->
                              IF dp <= i /\ i < dp + n THEN BodyByte(At(i - dp)) ELSE @[i]],
                  !.sOff = @ + 8 * n, !.dOff = @ + 8 * n,
                  !.reads = @ \cup UNION {SourceRead(At(j), TRUE) : j \in 0..n - 1}]

\* Lines 86-97: the last length % 8 bits, from one or two source bytes.
BitcpyEnd(c) ==
    LET len == c.len % 8
        dp == c.dOff \div 8
        two == len > 8 - (c.sOff % 8)
        d == c.dest[dp]
    IN  IF len = 0 THEN c
        ELSE [c EXCEPT !.dest[dp] = (d ^^ ((d ^^ SourceBits(c, two)) & Mask(len))) % 256,
                       !.reads = @ \cup SourceRead(c, two)]

\* BitMap::bitcpy: the final state of the call (dest and the bytes read).
BitcpyCall(dest, dOff, src, sOff, len, junk) ==
    LET s == BitcpyStart(CallState(dest, dOff, src, sOff, len, junk))
    IN  BitcpyEnd(BitcpyBody(s, s.len \div 8))

Bitcpy(dest, dOff, src, sOff, len, junk) ==
    BitcpyCall(dest, dOff, src, sOff, len, junk).dest

(***************************************************************************)
(* What bitcpy is for: after the call, bit k of the destination is bit     *)
(* sOff + k - dOff of the source for k in the copied range, and keeps its  *)
(* value elsewhere.                                                        *)
(***************************************************************************)
CopiedBit(dest, dOff, src, sOff, len, k) ==
    IF dOff <= k /\ k < dOff + len THEN BitOf(src, sOff + k - dOff)
    ELSE BitOf(dest, k)
================================================================================
