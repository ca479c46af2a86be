---------------------------- MODULE OperatorChecks ----------------------------
(***************************************************************************)
(* One call of a pure operation of the code, or one BitMap object, per     *)
(* behaviour.  Init picks the call and its arguments among small sets, one *)
(* step returns its result, and the properties compare the result with     *)
(* what the callers rely on:                                               *)
(*   "bitcpy"  BitMap::bitcpy, every alignment of two small buffers;       *)
(*   "shift"   Address::shiftWithPartial of a generated address, and the   *)
(*             EbNDeviceMap lookup that has to find the old key;           *)
(*   "fill"    EbNRadio::fillBloomFilter;                                  *)
(*   "advert"  a BT4 advert built by generateAdvert and parsed by          *)
(*             processAdvert;                                              *)
(*   "object"  a BitMap object, any number of steps, which implements a    *)
(*             bit array (BitMapObject, BitArray);                         *)
(*   "advertBT2", "advertNR"  a BT2 advert, or a BT2NR name, from the      *)
(*             sender's generateAdvert or changeAdvert to the receiver's   *)
(*             processAdvert or discover;                                  *)
(*   "psiMessage"  two PSI messages framed by constructPSIMessage and read *)
(*             back as handshake and listen read them;                     *)
(*   "rsSymbols"  the K data symbols of a key, W bytes each, through     *)
(*             RSErasureEncoder::encode and RSErasureDecoder::decode;      *)
(*   "psi"     BT2PSI radios running discover, handshake and listen, any   *)
(*             number of steps (EbNRadioBT2PSI).                           *)
(* The variables of an object stay at their initial values while another  *)
(* call is checked.                                                        *)
(***************************************************************************)
EXTENDS Address, EbNRadio, EbNAdvertBT4Bits, EbNAdvertBT2Bits, PSIMessage, RSErasureCode

CONSTANTS
    OPS,          \* the operations checked
    BUF_BYTES, SOURCES, DESTS, JUNK,    \* bitcpy: buffers and junk bytes
    ADDR_SIZE, RAND, PARTIALS, PARTIAL_MASK, OTHER_KEYS,  \* addresses
    BF_N, BF_N_PASSIVE, ADVERTISED, SECRET_SETS,         \* fillBloomFilter
    LAYOUTS, ADVERT_NUMS, SEEDS,        \* adverts: layouts, numbers, contents
    SIZE, SOURCE, SRC_OFFSETS, BYTE_VALUES, OBJ_JUNK,    \* the BitMap object
    KEY_SIZES, BT2_NUMS, HASH_SETS,     \* BT2 adverts: hashes of the values
    PSI_INPUTS,                         \* PSI messages: vectors of strings
    PSI_NODES, PSI_PERIODS,             \* the BT2PSI radios
    RS_DATA_K, RS_WIDTHS, RS_MULTS      \* RS data symbols: count, bytes, patterns

VARIABLES
    call,  \* the operation and its arguments
    out,   \* its result, or NotReturned
    bits,  \* bits_ of the BitMap object; zeros when another call is checked
    period, known, shaken, secrets, disc, ctl, todo, ini, lis, conn
           \* the BT2PSI radios

psiVars == <<period, known, shaken, secrets, disc, ctl, todo, ini, lis, conn>>

vars == <<call, out, bits, psiVars>>

Obj == INSTANCE BitMapObject WITH JUNK <- OBJ_JUNK

PSI == INSTANCE EbNRadioBT2PSI WITH Nodes <- PSI_NODES, PERIODS <- PSI_PERIODS

NotReturned == [none |-> TRUE]
Returned == out # NotReturned

Buffer == [0..BUF_BYTES - 1 -> Byte]

\* The arguments copyFrom and copyTo pass: a copied range at least one bit
\* long that lies inside both buffers.
BitcpyCalls ==
    {[op |-> "bitcpy", dest |-> d, dOff |-> x[1], src |-> s, sOff |-> x[2],
      len |-> x[3], junk |-> j] :
        d \in DESTS, s \in SOURCES, j \in JUNK,
        x \in {x \in (0..8 * BUF_BYTES - 1) \X (0..8 * BUF_BYTES - 1)
                       \X (1..8 * BUF_BYTES) :
                 x[1] + x[3] <= 8 * BUF_BYTES /\ x[2] + x[3] <= 8 * BUF_BYTES}}

\* A device's address, as generateWithPartial made it, shifted with a new
\* partial value.
ShiftCalls ==
    {[op |-> "shift", addr |-> a, partial |-> p] :
        a \in UNION {GenerateWithPartial(ADDR_SIZE, q, PARTIAL_MASK, RAND) : q \in PARTIALS},
        p \in PARTIALS}

FillCalls ==
    {[op |-> "fill", passive |-> ps, includePassive |-> ip, advertised |-> adv,
      secrets |-> sec] :
        ps \in BOOLEAN, ip \in BOOLEAN, adv \in ADVERTISED, sec \in SECRET_SETS}

\* A buffer of n bytes whose content depends on the position.
Pattern(n, seed) == [i \in 0..n - 1 |-> (seed + 89 * i) % 256]

\* The bits_ of a filter of m bits: the padding of the last byte is zero.
FilterBuffer(m, seed) ==
    [i \in 0..BytesFor(m) - 1 |->
        IF 8 * i + 8 <= m THEN Pattern(BytesFor(m), seed)[i]
        ELSE Pattern(BytesFor(m), seed)[i] % 2^(m - 8 * i)]

AdvertCalls ==
    {[op |-> "advert", L |-> L, n |-> n, usePrev |-> up,
      sym |-> Pattern(L.W, seed), prev |-> Pattern(L.W, seed + 1),
      bloom |-> FilterBuffer(FilterSize(SegmentSizes(L, n \div BF_B)), seed + 2)] :
        L \in LAYOUTS, n \in ADVERT_NUMS, up \in BOOLEAN, seed \in SEEDS}

\* The public value is a pattern of keySize / 8 bytes.
BT2Calls ==
    {[op |-> "advertBT2", keySize |-> ks, n |-> n, key |-> Pattern(ks \div 8, seed),
      hashes |-> hs] :
        ks \in KEY_SIZES, n \in BT2_NUMS, seed \in SEEDS, hs \in HASH_SETS}

NRCalls ==
    {[op |-> "advertNR", keySize |-> ks, y |-> y, key |-> Pattern(ks \div 8, seed),
      hashes |-> hs] :
        ks \in KEY_SIZES, y \in 0..1, seed \in SEEDS, hs \in HASH_SETS}

CallsOf(op) ==
    CASE op = "bitcpy" -> BitcpyCalls
      [] op = "shift"  -> ShiftCalls
      [] op = "fill"   -> FillCalls
      [] op = "advert" -> AdvertCalls
      [] op = "object" -> {[op |-> "object"]}
      [] op = "advertBT2" -> BT2Calls
      [] op = "advertNR" -> NRCalls
      [] op = "psiMessage" -> {[op |-> "psiMessage", input |-> i, next |-> n] :
                                  i \in PSI_INPUTS, n \in PSI_INPUTS}
      [] op = "psi" -> {[op |-> "psi"]}
      [] op = "rsSymbols" -> {[op |-> "rsSymbols", w |-> w,
                               data |-> [i \in 1..RS_DATA_K * w |-> (i * m) % 256]] :
                                 w \in RS_WIDTHS, m \in RS_MULTS}

Init ==
    /\ \E op \in OPS : call \in CallsOf(op)
    /\ out = NotReturned
    /\ IF call.op = "object" THEN Obj!Init ELSE bits = Zeros(BytesFor(SIZE))
    /\ PSI!Init

\* BitMap::copyFrom and copyTo are bitcpy calls.
CopyBits ==
    /\ call.op = "bitcpy" /\ ~Returned
    /\ out' = BitcpyCall(call.dest, call.dOff, call.src, call.sOff, call.len, call.junk)
    /\ UNCHANGED <<call, bits, psiVars>>

ShiftAddress ==
    /\ call.op = "shift" /\ ~Returned
    /\ \E s \in ShiftWithPartial(call.addr, call.partial, PARTIAL_MASK, RAND) :
          out' = [addr |-> s]
    /\ UNCHANGED <<call, bits, psiVars>>

FillBloom ==
    /\ call.op = "fill" /\ ~Returned
    /\ \E o \in FillBloomFilter(BF_N, BF_N_PASSIVE, call.passive, call.includePassive,
                                call.advertised, call.secrets) :
          out' = o
    /\ UNCHANGED <<call, bits, psiVars>>

\* The advert goes from generateAdvert to processAdvert unchanged.
ExchangeAdvert ==
    /\ call.op = "advert" /\ ~Returned
    /\ \E tx \in {GenerateAdvert(call.L, call.n, call.sym, call.prev, call.bloom, 0)} :
          out' = [tx |-> tx, rx |-> ProcessAdvert(call.L, tx.advert, call.usePrev, 0)]
    /\ UNCHANGED <<call, bits, psiVars>>

ObjectStep == call.op = "object" /\ Obj!Next /\ UNCHANGED <<call, out, psiVars>>

\* The 240 bytes of a BT2 advert reach processAdvert unchanged.
ExchangeAdvertBT2 ==
    /\ call.op = "advertBT2" /\ ~Returned
    /\ \E tx \in {BT2GenerateAdvert(call.keySize, call.n, call.key, call.hashes, 0)} :
          out' = BT2ProcessAdvert(call.keySize, tx, 0)
    /\ UNCHANGED <<call, bits, psiVars>>

\* The name set by writeLocalName is the one readRemoteName returns.
ExchangeAdvertNR ==
    /\ call.op = "advertNR" /\ ~Returned
    /\ \E name \in {NRChangeAdvert(call.keySize, call.y, call.key, call.hashes, 0)} :
          out' = NRDiscover(call.keySize, name, 0)
    /\ UNCHANGED <<call, bits, psiVars>>

\* A message written to the socket by one side and read by the other,
\* followed by the next message of the exchange.
ExchangePSIMessage ==
    /\ call.op = "psiMessage" /\ ~Returned
    /\ \E first \in {ReceivePSIMessage(ConstructPSIMessage(call.input)
                                         \o ConstructPSIMessage(call.next))} :
          out' = [first |-> first, second |-> ReceivePSIMessage(first.rest)]
    /\ UNCHANGED <<call, bits, psiVars>>

\* The data symbols of a key through the encoder, then through setSymbol
\* and decode of the receiver.
ExchangeRSSymbols ==
    /\ call.op = "rsSymbols" /\ ~Returned
    /\ \E sym \in {RSEncodeData(RS_DATA_K, call.w, call.data)} :
          out' = [symbols |-> sym, decoded |-> RSDecodeData(RS_DATA_K, call.w, sym)]
    /\ UNCHANGED <<call, bits, psiVars>>

PSIStep == call.op = "psi" /\ PSI!Next /\ UNCHANGED <<call, out, bits>>

Next == CopyBits \/ ShiftAddress \/ FillBloom \/ ExchangeAdvert \/ ObjectStep
          \/ ExchangeAdvertBT2 \/ ExchangeAdvertNR \/ ExchangePSIMessage \/ PSIStep
          \/ ExchangeRSSymbols

Spec == Init /\ [][Next]_vars

TypeOK ==
    /\ call.op \in OPS
    /\ Obj!TypeOK
    /\ PSI!TypeOK
    /\ call.op = "bitcpy" /\ Returned => out.dest \in Buffer

(***************************************************************************)
(* bitcpy: every bit of the destination in the copied range holds the      *)
(* source bit it stands for, and every other bit keeps its value; the      *)
(* start merge, the whole bytes and the end merge together copy exactly    *)
(* the range, whatever the alignment of the two offsets.                   *)
(***************************************************************************)
BitcpyCopiesRange ==
    call.op = "bitcpy" /\ Returned =>
        \A k \in 0..8 * BUF_BYTES - 1 :
            BitOf(out.dest, k)
              = CopiedBit(call.dest, call.dOff, call.src, call.sOff, call.len, k)

(***************************************************************************)
(* A device that changes epoch shifts its address (shiftWithPartial); a    *)
(* receiver that holds the old address as a key of its EbNDeviceMap finds  *)
(* it again with findShiftedMatch, and with nothing else, when no other    *)
(* key has the same top half.  The new address also passes verifyChecksum  *)
(* and carries the new partial value.                                      *)
(***************************************************************************)
ShiftedAddressFound ==
    call.op = "shift" /\ Returned =>
        LET a == call.addr
            keys == {a} \cup {b \in OTHER_KEYS : TopHalf(b) # TopHalf(a)}
        IN  /\ VerifyChecksum(out.addr)
            /\ GetPartialValue(out.addr, PARTIAL_MASK) = call.partial & PARTIAL_MASK
            /\ FindShiftedMatch(keys, out.addr) = {a}

(***************************************************************************)
(* The comment on the random values of fillBloomFilter: the load of the    *)
(* filter is constant, whatever the size of the advertised set and the     *)
(* number of passive candidates: BF_N values, or BF_N - BF_N_PASSIVE when  *)
(* the passive part is left out of a filter of a passive scheme.           *)
(***************************************************************************)
FillLoadConstant ==
    call.op = "fill" /\ Returned =>
        FillLoad(out) = IF call.passive /\ ~call.includePassive
                        THEN BF_N - BF_N_PASSIVE ELSE BF_N

(***************************************************************************)
(* The comment on the passive part of fillBloomFilter: it uses the most    *)
(* confident shared secrets (the Highest Confidence scheme), so no secret  *)
(* left out has a smaller pFalse than one put in.                          *)
(***************************************************************************)
PassiveCandidatesMostConfident ==
    call.op = "fill" /\ Returned =>
        LET chosen == {out.popped[i] : i \in DOMAIN out.popped}
        IN  \A t \in chosen, u \in PassiveCandidates(call.secrets) \ chosen :
                t.pFalse <= u.pFalse

(***************************************************************************)
(* An advert parsed by processAdvert gives back what generateAdvert put    *)
(* in it: the number, the RS symbol, the previous epoch's symbol when the  *)
(* receiver takes it, and the segment of the Bloom filter, in its place in *)
(* the receiver's filter of ones, for every layout and advert number.      *)
(***************************************************************************)
AdvertRoundTrip ==
    call.op = "advert" /\ Returned =>
        LET L == call.L
            sizes == SegmentSizes(L, call.n \div BF_B)
            lo == SegmentOffset(sizes, call.n % BF_B)
            hi == lo + sizes[call.n % BF_B]
            rx == out.rx
        IN  /\ rx.accepted /\ rx.num = call.n /\ rx.sym = call.sym
            /\ call.n < L.K - 1 /\ call.usePrev => rx.prev = call.prev
            /\ \A k \in 0..FilterSize(sizes) - 1 :
                  BitOf(rx.bloom, k) = IF lo <= k /\ k < hi THEN BitOf(call.bloom, k) ELSE 1

\* Neither generateAdvert nor processAdvert reads past the end of the
\* advert, the symbols or the Bloom filter's bits_.
AdvertReadsWithinBuffers ==
    call.op = "advert" /\ Returned => out.tx.over \cup out.rx.over = {}

(***************************************************************************)
(* What updateMatching and confirmPassive rely on: an accepted BT2 advert  *)
(* gives back the sender's advert number and public value, and its Bloom   *)
(* filter, as the receiver builds it, contains every value the sender put  *)
(* in (a Bloom filter has no false negatives).                             *)
(***************************************************************************)
BT2AdvertRoundTrip ==
    call.op = "advertBT2" /\ Returned =>
        /\ out.accepted /\ out.num = call.n /\ out.key = call.key
        /\ \A h \in call.hashes : BloomQuery(out.bloom, out.m, BT2_BF_K, h)

(***************************************************************************)
(* The same of BT2NR: a name of the right length whose decoding gives back *)
(* the sign bit and x coordinate of the public value, and a filter that    *)
(* contains every value added, through the BinaryToUTF8 encoding.          *)
(***************************************************************************)
NRAdvertRoundTrip ==
    call.op = "advertNR" /\ Returned =>
        /\ out.accepted /\ out.y = call.y /\ out.key = call.key
        /\ \A h \in call.hashes : BloomQuery(out.bloom, out.m, NR_BF_K, h)

(***************************************************************************)
(* Every step of the BitMap object is a step of the bit array it stands    *)
(* for (BitMapObject!BitArrayRefinement).  Steps of the other calls leave *)
(* bits unchanged; that disjunct comes first, so that they are not tried  *)
(* against every step of the bit array.                                    *)
(***************************************************************************)
BitArrayRefinement == Obj!Abs!Init /\ [][UNCHANGED bits \/ Obj!Abs!Next]_(Obj!AbsBits)

(***************************************************************************)
(* A PSI message read by the other side gives back the vector of strings   *)
(* it was built from, empty strings and an empty vector included, and the  *)
(* reader consumes exactly that message: the size recv'd first counts the  *)
(* 4-byte length of every element, so the next message of the exchange    *)
(* starts where the reader stops.                                          *)
(***************************************************************************)
PSIFrameRoundTrip ==
    call.op = "psiMessage" /\ Returned =>
        /\ out.first.parsed = call.input
        /\ out.second.parsed = call.next /\ out.second.rest = <<>>

RSDataSymbolsRoundTrip ==
    call.op = "rsSymbols" /\ Returned =>
        out.symbols = call.data /\ out.decoded = call.data
================================================================================
