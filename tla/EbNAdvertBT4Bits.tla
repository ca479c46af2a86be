--------------------------- MODULE EbNAdvertBT4Bits ---------------------------
(***************************************************************************)
(* The bit layout of a BT4 advertisement (EbNRadioBT4.cpp), written by     *)
(* generateAdvert and parsed by processAdvert: a version bit, the          *)
(* advertisement number in ADV_N_LOG2 bits, the RS symbol of the DH public *)
(* value, for the first RS_K - 1 adverts of an epoch a symbol of the       *)
(* previous epoch, and the advert's segment of the segmented Bloom filter  *)
(* (SegmentedBloomFilter.cpp).  Every copy is a BitMap::bitcpy call.       *)
(*                                                                         *)
(* A layout L is a record of the constructor's RS_W, RS_K and BF_SM; a     *)
(* buffer is a function 0..n-1 -> Byte as in BitMap.  Each of the copies   *)
(* reports the bytes it read, and over names the buffers read past their   *)
(* end.                                                                    *)
(***************************************************************************)
EXTENDS BitMap

ADV_BITS == 31 * 8
ADV_N == 134
ADV_N_LOG2 == 8
BF_B == 2

\* The constructor, lines 18-21: RS_W is the symbol size of the key's RS
\* code, RS_K its symbol count, BF_SM what an advert has left for the Bloom
\* filter after the version bit, the number and one symbol.
Layout(keySize, w) ==
    [W |-> w, K |-> (keySize \div 8) \div w, SM |-> ADV_BITS - 1 - ADV_N_LOG2 - 8 * w]

\* Lines 350-355 and 531-536: the advert of an epoch's first RS_K - 1
\* adverts also carries a previous-epoch symbol, and its segment is shorter.
SegmentSize(L, s) == IF s < L.K - 1 THEN L.SM - 8 * L.W ELSE L.SM

SegmentSizes(L, bloomNum) == [b \in 0..BF_B - 1 |-> SegmentSize(L, bloomNum * BF_B + b)]

\* SegmentedBloomFilter(N, M, K, B, segmentSizes), lines 49-54: each
\* segment starts where the ones before it end.
RECURSIVE SegmentOffset(_, _)
SegmentOffset(sizes, b) == IF b = 0 THEN 0 ELSE SegmentOffset(sizes, b - 1) + sizes[b - 1]

FilterSize(sizes) == SegmentOffset(sizes, BF_B)

Ones(nBytes) == [i \in 0..nBytes - 1 |-> 255]

\* Lines 318-321: advert.set(b + offset, (advertNum >> b) & 0x1) for every b.
RECURSIVE WriteNumber(_, _, _, _)
WriteNumber(buf, offset, n, b) ==
    IF b = ADV_N_LOG2 THEN buf
    ELSE WriteNumber(BitSet(buf, offset + b, Shr(n, b) % 2), offset, n, b + 1)

\* Lines 436-443: advertNum |= (1 << b) for every set bit.
ReadNumber(buf, offset) ==
    LET RECURSIVE Acc(_)
        Acc(b) == IF b = ADV_N_LOG2 THEN 0 ELSE BitOf(buf, offset + b) * 2^b + Acc(b + 1)
    IN  Acc(0)

\* getSegment(segment, dest, offset): copyTo of the segment's bits.
GetSegment(sizes, segment, bits, dest, offset, junk) ==
    BitcpyCall(dest, offset, bits, SegmentOffset(sizes, segment), sizes[segment], junk)

\* setSegment(segment, source, offset): copyFrom into the segment's bits;
\* the pFalse bookkeeping is left to EbNAdvertBT4.
SetSegment(sizes, segment, bits, source, offset, junk) ==
    BitcpyCall(bits, SegmentOffset(sizes, segment), source, offset, sizes[segment], junk)

\* The source buffers a call read past the end of.
OverRead(name, call, src) == IF call.reads \subseteq DOMAIN src THEN {} ELSE {name}

(***************************************************************************)
(* generateAdvert(advertNum), lines 307-364: sym is the advert's RS symbol *)
(* (RS_W bytes), prev the previous epoch's symbol, bloom the bits_ of      *)
(* advertBloom_ as fillBloomFilter left them.                              *)
(***************************************************************************)
GenerateAdvert(L, n, sym, prev, bloom, junk) ==
    LET sizes == SegmentSizes(L, n \div BF_B)
        numbered == WriteNumber(Zeros(ADV_BITS \div 8), 1, n, 0)
        symCall == BitcpyCall(numbered, 1 + ADV_N_LOG2, sym, 0, 8 * L.W, junk)
        hasPrev == n < L.K - 1
        prevCall == BitcpyCall(symCall.dest, 1 + ADV_N_LOG2 + 8 * L.W, prev, 0,
                               8 * L.W, junk)
        withPrev == IF hasPrev THEN prevCall.dest ELSE symCall.dest
        offset == 1 + ADV_N_LOG2 + 8 * L.W + (IF hasPrev THEN 8 * L.W ELSE 0)
        segCall == GetSegment(sizes, n % BF_B, bloom, withPrev, offset, junk)
    IN  [advert |-> segCall.dest,
         over |-> OverRead("symbol", symCall, sym) \cup OverRead("bloom", segCall, bloom)
                  \cup IF hasPrev THEN OverRead("prev", prevCall, prev) ELSE {}]

\* Mutant: the offset moves past the previous-epoch symbol only when it is
\* used.
PrevSymbolOffsetIfUsed(L, n, usePrev) == IF n < L.K - 1 /\ usePrev THEN 8 * L.W ELSE 0

\* Mutant: the check of advertNum < RS_K - 1 is lost around the offset.
PrevSymbolOffsetAlways(L, n, usePrev) == 8 * L.W

\* Lines 507-516: the advert carries the symbol when advertNum < RS_K - 1,
\* used or not.
PrevSymbolOffset(L, n, usePrev) == IF n < L.K - 1 THEN 8 * L.W ELSE 0

(***************************************************************************)
(* processAdvert, lines 428-545, the bits it takes out of an advert that   *)
(* is not a duplicate: the number, the symbol (copyTo into dhSymbol, whose *)
(* RS_W bytes are all overwritten), the previous-epoch symbol when the     *)
(* previous epoch exists and is not decoded (usePrev), and setSegment into *)
(* a new filter of ones (allOnes).  A number of RS_K + RS_M or more is     *)
(* dropped.                                                                *)
(***************************************************************************)
ProcessAdvert(L, advert, usePrev, junk) ==
    LET n == ReadNumber(advert, 1)
        sizes == SegmentSizes(L, n \div BF_B)
        symCall == BitcpyCall(Zeros(L.W), 0, advert, 1 + ADV_N_LOG2, 8 * L.W, junk)
        takePrev == n < L.K - 1 /\ usePrev
        prevCall == BitcpyCall(Zeros(L.W), 0, advert, 1 + ADV_N_LOG2 + 8 * L.W,
                               8 * L.W, junk)
        offset == 1 + ADV_N_LOG2 + 8 * L.W + PrevSymbolOffset(L, n, usePrev)
        segCall == SetSegment(sizes, n % BF_B, Ones(BytesFor(FilterSize(sizes))),
                              advert, offset, junk)
    IN  [accepted |-> n < ADV_N,
         num |-> n,
         sym |-> symCall.dest,
         prev |-> IF takePrev THEN prevCall.dest ELSE Zeros(L.W),
         bloom |-> segCall.dest,
         over |-> OverRead("advert", symCall, advert) \cup OverRead("advert", segCall, advert)
                  \cup IF takePrev THEN OverRead("advert", prevCall, advert) ELSE {}]
================================================================================
