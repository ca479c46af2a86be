--------------------------- MODULE EbNAdvertBT2Bits ---------------------------
(***************************************************************************)
(* The adverts of the BT2 radios, as written and parsed bit by bit.        *)
(*                                                                         *)
(* EbNRadioBT2 (EbNRadioBT2.cpp) sends a 240-byte advert: the bytes 239,   *)
(* 0xFF, a version bit, the advert number in ADV_N_LOG2 bits, the DH       *)
(* public value (keySize bits) and a Bloom filter of BF_M bits.            *)
(* EbNRadioBT2NR (EbNRadioBT2NR.cpp) sends NAME_DECODED_SIZE bits as its   *)
(* Bluetooth name, through BinaryToUTF8: a version bit, the sign bit of    *)
(* the public value, its x coordinate and a Bloom filter of BF_M bits.     *)
(*                                                                         *)
(* A Bloom filter (BloomFilter.cpp) is its bits_ and M_; what is put in it *)
(* is given by the SHA-256 hashes of the values, each a tuple of K 32-bit  *)
(* words, since add and query only use hash word k modulo M_.  The random  *)
(* values of fillBloomFilter only set more bits, and are left out.         *)
(***************************************************************************)
EXTENDS BitMap, BinaryToUTF8

BT2_ADV_BITS == 240 * 8
BT2_ADV_N == 15
BT2_ADV_N_LOG2 == 4
BT2_BF_K == 4

\* The EbNRadioBT2 constructor: BF_M((238 * 8) - 1 - ADV_N_LOG2 - keySize).
BT2BfM(keySize) == 238 * 8 - 1 - BT2_ADV_N_LOG2 - keySize

NAME_DECODED_SIZE == 1723
NR_BF_K == 3

\* The EbNRadioBT2NR constructor: BF_M(NAME_DECODED_SIZE - 2 - keySize).
NRBfM(keySize) == NAME_DECODED_SIZE - 2 - keySize

\* BloomFilter::add(hash) of every hash into a new filter of m bits:
\* bits_.set(hash[k] % M_) for k < K_.
RECURSIVE SetIndices(_, _)
SetIndices(buf, S) ==
    IF S = {} THEN buf
    ELSE LET i == CHOOSE i \in S : TRUE IN SetIndices(BitSet(buf, i, 1), S \ {i})

BloomBits(m, k, hashes) ==
    SetIndices(Zeros(BytesFor(m)), {h[j] % m : h \in hashes, j \in 1..k})

\* BloomFilter::query(hash): every bit hash[k] % M_ is set.
BloomQuery(bits, m, k, h) == \A j \in 1..k : BitOf(bits, h[j] % m) = 1

\* advert.set(b + offset, (advertNum >> b) & 0x1) for b < ADV_N_LOG2.
RECURSIVE WriteNumberBits(_, _, _, _)
WriteNumberBits(buf, offset, n, b) ==
    IF b = BT2_ADV_N_LOG2 THEN buf
    ELSE WriteNumberBits(BitSet(buf, offset + b, Shr(n, b) % 2), offset, n, b + 1)

\* advertNum |= (1 << b) for every bit b set.
ReadNumberBits(buf, offset) ==
    LET RECURSIVE Acc(_)
        Acc(b) == IF b = BT2_ADV_N_LOG2 THEN 0 ELSE BitOf(buf, offset + b) * 2^b + Acc(b + 1)
    IN  Acc(0)

(***************************************************************************)
(* EbNRadioBT2::generateAdvert(advertNum), lines 209-246: key is the       *)
(* public value (keySize / 8 bytes), hashes those of the values            *)
(* fillBloomFilter adds (with the prefix of number and key).               *)
(***************************************************************************)
BT2GenerateAdvert(keySize, n, key, hashes, junk) ==
    LET header == [Zeros(BT2_ADV_BITS \div 8) EXCEPT ![0] = 239, ![1] = 255]
        numbered == WriteNumberBits(header, 17, n, 0)
        keyCall == BitcpyCall(numbered, 17 + BT2_ADV_N_LOG2, key, 0, keySize, junk)
        m == BT2BfM(keySize)
        bloomCall == BitcpyCall(keyCall.dest, 17 + BT2_ADV_N_LOG2 + keySize,
                                BloomBits(m, BT2_BF_K, hashes), 0, m, junk)
    IN  bloomCall.dest

(***************************************************************************)
(* EbNRadioBT2::processAdvert, lines 248-341, for an advert of a new       *)
(* epoch (the public value is copied) that is not a duplicate: the         *)
(* number, the key, and the Bloom filter updateMatching and confirmPassive *)
(* query.  advertOffset is left at the start of the key (line 302 copies   *)
(* the key without advancing it), and the filter takes the rest of the     *)
(* advert from there (line 321).  A number of ADV_N or more is dropped.    *)
(***************************************************************************)
BT2ProcessAdvert(keySize, advert, junk) ==
    LET offset == 17 + BT2_ADV_N_LOG2
        keyCall == BitcpyCall(Zeros(keySize \div 8), 0, advert, offset, keySize, junk)
        m == BT2_ADV_BITS - offset
        bloomCall == BitcpyCall(Zeros(BytesFor(m)), 0, advert, offset, m, junk)
    IN  [accepted |-> ReadNumberBits(advert, 17) < BT2_ADV_N,
         num |-> ReadNumberBits(advert, 17), key |-> keyCall.dest,
         bloom |-> bloomCall.dest, m |-> m]

(***************************************************************************)
(* EbNRadioBT2NR::changeAdvert, lines 182-204: the advert and the name     *)
(* written with writeLocalName, its BinaryToUTF8 encoding.                 *)
(***************************************************************************)
NRChangeAdvert(keySize, y, key, hashes, junk) ==
    LET signed == BitSet(Zeros(BytesFor(NAME_DECODED_SIZE)), 1, y)
        keyCall == BitcpyCall(signed, 2, key, 0, keySize, junk)
        m == NRBfM(keySize)
        bloomCall == BitcpyCall(keyCall.dest, 2 + keySize,
                                BloomBits(m, NR_BF_K, hashes), 0, m, junk)
    IN  Encode(bloomCall.dest, NAME_DECODED_SIZE)

\* Mutant: the offset is not advanced past the key, as in EbNRadioBT2.
NRKeyEndUnadvanced(offset, keySize) == offset

\* Line 131: advertOffset += keySize_.
NRKeyEnd(offset, keySize) == offset + keySize

(***************************************************************************)
(* EbNRadioBT2NR::discover, lines 112-146, for a name read back: the       *)
(* length check, the decode into BitMap advert(NAME_DECODED_SIZE), the     *)
(* sign bit, the x coordinate and the filter updateMatching queries.       *)
(* past holds the bytes decode wrote beyond the BitMap.                    *)
(***************************************************************************)
NRDiscover(keySize, name, junk) ==
    LET lengthOK == NumEncodedBits(NAME_DECODED_SIZE) = Len(name) * 8
        dec == Decode(Zeros(BytesFor(NAME_DECODED_SIZE)), name)
        keyCall == BitcpyCall(Zeros(keySize \div 8), 0, dec.out, 2, keySize, junk)
        m == NRBfM(keySize)
        bloomCall == BitcpyCall(Zeros(BytesFor(m)), 0, dec.out, NRKeyEnd(2, keySize), m, junk)
    IN  [accepted |-> lengthOK, y |-> BitOf(dec.out, 1), key |-> keyCall.dest,
         bloom |-> bloomCall.dest, m |-> m, past |-> dec.past]
================================================================================
