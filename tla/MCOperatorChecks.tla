--------------------------- MODULE MCOperatorChecks ---------------------------
EXTENDS OperatorChecks, TLC

MCOps == {"bitcpy", "shift", "fill", "advert", "object", "advertBT2", "advertNR",
          "psiMessage", "psi", "rsSymbols"}
\* The calls of one operation, for the runs that look at it alone.
MCFillOps == {"fill"}
MCBT2Ops == {"advertBT2"}

(* bitcpy: two 3-byte buffers *)
MCBufBytes == 3

\* The byte whose bit j is bits[j].
ByteOfBits(bits8) == bits8[0] + 2 * bits8[1] + 4 * bits8[2] + 8 * bits8[3]
                     + 16 * bits8[4] + 32 * bits8[5] + 64 * bits8[6] + 128 * bits8[7]

\* Bit k of buffer PositionPattern(b) is bit b of k: the five patterns
\* b = 0..4 give every bit position of a 3-byte buffer its own column of
\* values, so a bit copied from the wrong position shows in one of them.
PositionPattern(b) ==
    [i \in 0..MCBufBytes - 1 |->
        ByteOfBits([j \in 0..7 |-> ((8 * i + j) \div 2^b) % 2])]

MCSources == {PositionPattern(b) : b \in 0..4}

\* A destination of zeros and one of ones: a bit that keeps its value
\* differs from a copied bit in one of them.
MCDests == {[i \in 0..MCBufBytes - 1 |-> 0], [i \in 0..MCBufBytes - 1 |-> 255]}

MCJunk == {0, 255}

(* Addresses: the 6-byte BT4 address, its confirmation bit 0x20 *)
MCAddrSize == 6
\* rand() & 0xFF: bytes with equal, different, zero and full nibbles.
MCRand == {0, 90, 255}
MCPartials == {0, 32}
MCPartialMask == 32
\* Other devices' keys: addresses of one repeated byte.
MCOtherKeys == UNION {GenerateWithPartial(MCAddrSize, 0, MCPartialMask, {r}) : r \in MCRand}

(* fillBloomFilter: BF_N 4 and BF_N_PASSIVE 2 stand for 256 and 128 *)
MCBfN == 4
MCBfNPassive == 2
\* Advertised lists shorter than, as long as and longer than both maxAdvert.
MCAdvertised == {[i \in 1..k |-> i] : k \in {0, 1, 2, 3, 5}}
\* Secrets of recent devices: pFalse 0 is confirmed, 2 never matched.
MCSecretPool ==
    {[id |-> 1, pFalse |-> 0, confirmedBy |-> "Passive"],
     [id |-> 2, pFalse |-> 1, confirmedBy |-> "None"],
     [id |-> 3, pFalse |-> 2, confirmedBy |-> "None"],
     [id |-> 4, pFalse |-> 2, confirmedBy |-> "None"],
     [id |-> 5, pFalse |-> 0, confirmedBy |-> "Active"]}
MCSecretSets == SUBSET MCSecretPool

(* BT4 adverts: the RS_W computeRSSymbolSize gives for each key size of
   ECDH (192, 224, 256, 384 bits) *)
MCLayouts == {Layout(k, w) : <<k, w>> \in {<<192, 6>>, <<224, 7>>, <<256, 8>>, <<384, 8>>}}
\* Numbers below and at RS_K - 1, both parities of the segment, the last.
MCAdvertNums == (0..6) \cup {ADV_N - 1}
MCSeeds == {60, 195}

(* The BitMap object: nine bits in two bytes *)
MCSize == 9
MCSource == (0 :> 165 @@ 1 :> 60)
MCSrcOffsets == {0, 3}
\* The header bytes of the BT2 advert (setByte(0, 239), setByte(1, 0xFF)).
MCByteValues == {239, 255}
MCObjJunk == {0}

(* BT2 adverts and BT2NR names: every ECDH key size, the first, a middle
   and the last advert number of an epoch (ADV_N 15), and SHA-256 words
   (below 2^31, where TLC's integers end) *)
MCKeySizes == {192, 224, 256, 384}
MCBT2Nums == {0, 7, BT2_ADV_N - 1}
MCHashSets ==
    {{<<7, 1234567, 2000000011, 99>>},
     {<<1500000001, 55, 1899, 802>>, <<31, 1715, 1722, 1000000007>>}}

(* PSI messages: the empty vector, an empty string beside a short one, and
   a string longer than 255 bytes, whose length takes two bytes *)
MCPSIInputs ==
    {<<>>, <<<<>>, <<7, 0, 255>>>>, <<[i \in 1..300 |-> i % 256]>>}

(* The BT2PSI radios: two nodes, two discovery periods, so that a device
   met in the first is found confirmed in the second *)
CONSTANTS n1, n2
MCPSINodes == {n1, n2}
MCPSIPeriods == 2

(* RS data symbols: two symbols of every RS_W (192- to 384-bit keys), with
   bytes that rise (x 37) and bytes of 128 and more (x 255) *)
MCRSDataK == 2
MCRSWidths == {6, 7, 8}
MCRSMults == {37, 255}
================================================================================
