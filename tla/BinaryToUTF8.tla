----------------------------- MODULE BinaryToUTF8 -----------------------------
(***************************************************************************)
(* BinaryToUTF8 (BinaryToUTF8.cpp): length bits of a byte buffer written   *)
(* as a string of UTF-8 characters, 7 bits per one-byte character, and a   *)
(* 7-bit group of zeros together with the next 7 bits as a two-byte        *)
(* character (C2/C3 80-BF), so that no character is NUL.  BT2NR sends its  *)
(* advert as the Bluetooth name this way.                                  *)
(*                                                                         *)
(* A character is its byte 0..255; a string is a sequence of them.  The    *)
(* loop state of both directions is the record [v, n, p]: value,           *)
(* numValueBits, and the input position (encode, in bits) or output        *)
(* position (decode, in bytes).  value is a uint32_t that is shifted left  *)
(* and never cleared; only its low numValueBits <= 21 bits are ever read,  *)
(* so it is kept modulo 2^VW, VW = 24, where the code keeps it modulo 2^32. *)
(***************************************************************************)
EXTENDS BitMap, Sequences

VW == 24

\* value << k, modulo 2^VW.
ShlV(v, k) == Shl(v % 2^(VW - k), k)

\* getNumEncodedBits(length): ((length + 6) / 7) * 8.
NumEncodedBits(length) == ((length + 6) \div 7) * 8

\* Lines 17-34: whole bytes, then the last few (low) bits of the last
\* byte, while fewer than 14 bits are held.
RECURSIVE EncodeFill(_, _, _)
EncodeFill(s, input, length) ==
    IF s.p < length /\ s.n < 14
    THEN LET r == length - s.p
         IN  IF r >= 8
             THEN EncodeFill([v |-> ShlV(s.v, 8) | input[s.p \div 8],
                              n |-> s.n + 8, p |-> s.p + 8], input, length)
             ELSE EncodeFill([v |-> ShlV(s.v, r) | (input[s.p \div 8] & Mask(r)),
                              n |-> s.n + r, p |-> s.p + r], input, length)
    ELSE s

\* The next 7 bits, or the n bits left padded below with ones; the pad
\* empties the value (lines 37-51 and 58-69).
Take7(s) ==
    IF s.n >= 7
    THEN [t |-> Shr(s.v, s.n - 7) % 128, s |-> [s EXCEPT !.n = @ - 7]]
    ELSE [t |-> (ShlV(s.v, 7 - s.n) | Mask(7 - s.n)) % 128, s |-> [s EXCEPT !.n = 0]]

\* Lines 36-88: one character, or two for a group of zeros (the two-byte
\* form holds the next 7 bits: its bit 6 in the first byte, the rest in the
\* second).
EncodeStep(s) ==
    LET a == Take7(s)
        b == Take7(a.s)
    IN  IF a.t # 0 THEN [chars |-> <<a.t>>, s |-> a.s]
        ELSE [chars |-> <<194 | (Shr(b.t, 6) % 2), 128 | (b.t % 64)>>, s |-> b.s]

\* Lines 7-89: the encode loop, while input or held bits remain; its
\* iterations are taken RUN at a time, which bounds the depth of the
\* recursion TLC evaluates to a few dozen calls for a BT2NR name.
RUN == 16

EncodeMore(s, length) == s.p < length \/ s.n > 0

RECURSIVE EncodeRun(_, _, _, _)
EncodeRun(s, input, length, k) ==
    IF k = 0 \/ ~EncodeMore(s, length) THEN [chars |-> <<>>, s |-> s]
    ELSE LET e == EncodeStep(EncodeFill(s, input, length))
             r == EncodeRun(e.s, input, length, k - 1)
         IN  [chars |-> e.chars \o r.chars, s |-> r.s]

RECURSIVE EncodeFrom(_, _, _)
EncodeFrom(s, input, length) ==
    IF EncodeMore(s, length)
    THEN LET r == EncodeRun(s, input, length, RUN)
         IN  r.chars \o EncodeFrom(r.s, input, length)
    ELSE <<>>

Encode(input, length) == EncodeFrom([v |-> 0, n |-> 0, p |-> 0], input, length)

(***************************************************************************)
(* decode(output, input, length), lines 97-136: the bits of every          *)
(* character into value, whole bytes out as soon as 8 are held, and the    *)
(* bits left at the end as a last byte.  The output is the buffer the      *)
(* caller passes; past collects the byte positions written beyond it.      *)
(***************************************************************************)
DecodeWrite(d, byte) ==
    [d EXCEPT !.out = IF d.p \in DOMAIN @ THEN [@ EXCEPT ![d.p] = byte] ELSE @,
              !.past = IF d.p \in DOMAIN d.out THEN @ ELSE @ \cup {d.p},
              !.p = @ + 1]

\* Lines 120-124.
RECURSIVE DecodeFlush(_)
DecodeFlush(d) ==
    IF d.n >= 8
    THEN DecodeFlush(DecodeWrite([d EXCEPT !.n = @ - 8], Shr(d.v, d.n - 8) % 256))
    ELSE d

\* input[i] of the C string (1-based here): the NUL that ends it past the
\* last character.
NextChar(input, i) == IF i <= Len(input) THEN input[i] ELSE 0

\* Lines 104-125: the character at i (0-based); the index of the next.
DecodeStep(d, input, i) ==
    IF input[i + 1] & 192 = 192
    THEN [d |-> DecodeFlush([d EXCEPT
                  !.v = ShlV(@, 14) | Shl(input[i + 1] % 2, 6) | (NextChar(input, i + 2) % 64),
                  !.n = @ + 14]),
          i |-> i + 2]
    ELSE [d |-> DecodeFlush([d EXCEPT !.v = ShlV(@, 7) | (input[i + 1] % 128), !.n = @ + 7]),
          i |-> i + 1]

\* The loop of lines 104-125, RUN characters at a time.
RECURSIVE DecodeRun(_, _, _, _)
DecodeRun(d, input, i, k) ==
    IF k = 0 \/ i >= Len(input) THEN [d |-> d, i |-> i]
    ELSE LET e == DecodeStep(d, input, i) IN DecodeRun(e.d, input, e.i, k - 1)

RECURSIVE DecodeFrom(_, _, _)
DecodeFrom(d, input, i) ==
    IF i >= Len(input) THEN d
    ELSE LET r == DecodeRun(d, input, i, RUN) IN DecodeFrom(r.d, input, r.i)

\* length / 8 characters of input, decoded into output.
Decode(output, input) ==
    LET d == DecodeFrom([v |-> 0, n |-> 0, p |-> 0, out |-> output, past |-> {}], input, 0)
    IN  IF d.n > 0 THEN DecodeWrite(d, d.v % 2^d.n) ELSE d
================================================================================
