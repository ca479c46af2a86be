---------------------------- MODULE EbNAdvertBT4 ----------------------------
(***************************************************************************)
(* The BT4 advertisement channel between one sending device and one        *)
(* receiving device (EbNRadioBT4).                                         *)
(*                                                                         *)
(* The sender runs the controller loop of EbNRadio::getNextAction: every   *)
(* discover() rewrites its advert / scan-response pair (changeAdvert) and  *)
(* every changeEpoch() draws a new DH key, shifts the random address at    *)
(* once, but leaves the broadcast data as it is until the next discover(). *)
(* Advert n of epoch e carries RS symbol n of key e, symbol n+K+M of key   *)
(* e-1 when n < K-1, and segment n % B of Bloom filter n \div B.           *)
(*                                                                         *)
(* The receiver runs processScanResponse for every advert it hears: the    *)
(* device lookup by exact or shifted address (EbNDeviceMap::get), then     *)
(* processAdvert and processEpochs as one step, and the hysteresis expiry  *)
(* that deletes the device (EbNController::run -> doneWithDevice).         *)
(*                                                                         *)
(* Data is abstracted to provenance: an RS symbol is the sender epoch whose*)
(* key it encodes, a Bloom segment is <<epoch, bloomNum>> of the filter it *)
(* was cut from, a decoded key is the epoch of its symbols or Garbage, a   *)
(* shared secret is named by the decoded key.  Time is counted in ticks of *)
(* SCAN_INTERVAL / 2 (6.75 s), the unit in which processAdvert compares    *)
(* advert numbers and times.  The receiver's own key is fixed.             *)
(***************************************************************************)
EXTENDS Integers, Sequences, SequencesExt, FiniteSets, Bags, TLC

CONSTANTS
    ADV_N,          \* adverts per epoch (2 * ceil(EPOCH_INTERVAL / SCAN_INTERVAL))
    RS_K,           \* RS symbols needed to decode a key
    BF_B,           \* segments per Bloom filter
    CUR_SLACK,      \* the "+ 6" slack of the current-epoch test
    EPOCH_TICKS,    \* EPOCH_INTERVAL in ticks
    FIRST_DISCOVER, \* the 10 s before the first discover, in ticks
    EXPIRE_TICKS,   \* hysteresis timeout after which the device is dropped
    CONFIRM_UNITS   \* fresh segments that bring pFalse below the threshold

ASSUME /\ RS_K >= 2 /\ ADV_N > RS_K /\ ADV_N % 2 = 0 /\ ADV_N % BF_B = 0
       /\ EPOCH_TICKS > FIRST_DISCOVER /\ EXPIRE_TICKS >= 1 /\ CONFIRM_UNITS >= 1

RS_M == ADV_N - RS_K
\* (ADV_N / 2) * SCAN_INTERVAL, the duplicate window, in ticks
DUP_WINDOW == ADV_N
\* the zero-filled dhPrevSymbols_ sent in the first epoch
ZeroSym == -1
\* the output of decoding symbols of more than one key
Garbage == -2
\* a segment not yet received (the allOnes filter)
NoSeg == <<-1, -1>>
Segments == 0 .. BF_B - 1

VARIABLES
    now,             \* the clock, in ticks
    sEpoch,          \* sender: epoch of dhExchange_ and of the random address
    advertNum,       \* sender: advertNum_
    bcast,           \* sender: advert data in the controller [epoch, num]
    nextDiscover,    \* sender: nextDiscover_
    nextChangeEpoch, \* sender: nextChangeEpoch_
    heard,           \* receiver: packets (0 advert, 1 scan response) heard this tick
    present,         \* receiver: the device is in deviceMap_
    addr,            \* receiver: epoch of the address stored for the device
    epochs,          \* receiver: device->epochs_
    matching,        \* receiver: the shared link value is still in matching_
    secrets,         \* receiver: sharedSecrets_, id -> [ev, conf]
    lastSeen,        \* receiver: hysteresis lastTime of the device
    lastRx           \* receiver: what processAdvert did with the last packet

sender == <<sEpoch, advertNum, bcast, nextDiscover, nextChangeEpoch>>
receiver == <<heard, present, addr, epochs, matching, secrets, lastSeen, lastRx>>
vars == <<now, sender, receiver>>

PrevTag(e) == IF e = 0 THEN ZeroSym ELSE e - 1

-----------------------------------------------------------------------------
(* Sender *)

\* Variant of ChangeAdvert without the early return at ADV_N.
ChangeAdvertNoLimit ==
    /\ bcast' = [epoch |-> sEpoch, num |-> advertNum]
    /\ advertNum' = advertNum + 2

\* EbNRadioBT4::changeAdvert: the next advert / scan-response pair, unless
\* all ADV_N adverts of the epoch have been sent.
ChangeAdvert ==
    IF advertNum >= ADV_N
    THEN UNCHANGED <<bcast, advertNum>>
    ELSE /\ bcast' = [epoch |-> sEpoch, num |-> advertNum]
         /\ advertNum' = advertNum + 2

\* EbNRadioBT4::initialize after the EbNRadio constructor.
SenderInit ==
    /\ sEpoch = 0
    /\ bcast = [epoch |-> 0, num |-> 0]
    /\ advertNum = 2
    /\ nextDiscover = FIRST_DISCOVER
    /\ nextChangeEpoch = EPOCH_TICKS

\* getNextAction chose ChangeEpoch and its time has come: new key, shifted
\* address, advert numbering restarts, broadcast data untouched.
ChangeEpoch ==
    /\ nextChangeEpoch < nextDiscover
    /\ now >= nextChangeEpoch
    /\ advertNum' = 0
    /\ sEpoch' = sEpoch + 1
    /\ nextChangeEpoch' = nextChangeEpoch + EPOCH_TICKS
    /\ UNCHANGED <<now, bcast, nextDiscover, receiver>>

\* getNextAction chose Discover: changeAdvert, then the next discover is one
\* SCAN_INTERVAL later (the +-1 s jitter is below a tick).
Discover ==
    /\ ~(nextChangeEpoch < nextDiscover)
    /\ now >= nextDiscover
    /\ ChangeAdvert
    /\ nextDiscover' = nextDiscover + 2
    /\ UNCHANGED <<now, sEpoch, nextChangeEpoch, receiver>>
-----------------------------------------------------------------------------
(* Receiver: the pieces of processAdvert and processEpochs *)

\* The Epoch constructor (EbNDeviceBT4.cpp): lastAdvertNum and lastAdvertTime
\* are fixed here and never updated.  firstTag is a history field: the
\* sender epoch of that first advert.  The Y bit the constructor stores is
\* left out: ECDH_compute_key keeps only the x coordinate of the shared
\* point, which is the same for either Y.
NewEpoch(n, de) ==
    [first |-> n, firstTag |-> de, time |-> now,
     idx |-> {}, tags |-> {}, decoded |-> FALSE, key |-> Garbage,
     blooms |-> <<>>, decodeBloomNum |-> 0]

\* RSErasureDecoder::setSymbol: the first symbol at an index wins.  Symbols
\* arriving after decode() are not tracked (decode() returns its cache).
SetSymbol(ep, i, t) ==
    IF ep.decoded \/ i \in ep.idx THEN ep
    ELSE [ep EXCEPT !.idx = @ \cup {i}, !.tags = @ \cup {t}]

\* RSErasureDecoder::decode: the key of the symbols, if they are all of one.
DecodedKey(ep) ==
    IF Cardinality(ep.tags) = 1 THEN CHOOSE t \in ep.tags : TRUE ELSE Garbage

\* SegmentedBloomFilter::setSegment: the bits are always overwritten, pFalse
\* only moves (the segment becomes pending) the first time.
SetSegment(bloom, s, data) ==
    [bloom EXCEPT !.seg[s] = data,
                  !.pend = IF bloom.seg[s] = NoSeg THEN @ \cup {s} ELSE @]

\* Variant of StoreSegment that takes the newest filter whatever its number.
StoreSegmentAnyBloom(ep, n, de) ==
    LET bn == n \div BF_B
        bl == IF ep.blooms # <<>> THEN ep.blooms
              ELSE <<[num |-> bn, seg |-> [s \in Segments |-> NoSeg], pend |-> {}]>>
    IN [ep EXCEPT !.blooms = [bl EXCEPT ![Len(bl)] = SetSegment(@, n % BF_B, <<de, bn>>)]]

\* The bloom lookup of processAdvert: the newest filter if its number
\* matches, otherwise a fresh allOnes filter.
StoreSegment(ep, n, de) ==
    LET bn == n \div BF_B
        bl == IF ep.blooms # <<>> /\ Last(ep.blooms).num = bn THEN ep.blooms
              ELSE Append(ep.blooms, [num |-> bn, seg |-> [s \in Segments |-> NoSeg],
                                      pend |-> {}])
    IN [ep EXCEPT !.blooms = [bl EXCEPT ![Len(bl)] = SetSegment(@, n % BF_B, <<de, bn>>)]]

\* "This is a duplicate advertisement" (SCAN_ACTIVE: the pair partner too).
IsDuplicate(cur, n) ==
    /\ cur.first = n \/ cur.first = n + 1
    /\ now - cur.time < DUP_WINDOW

\* Variant of IsCurrent without the time window.
IsCurrentNoWindow(cur, n) ==
    /\ ~(cur.first = n \/ cur.first = n + 1)
    /\ cur.first < n

\* "This advertisement belongs to the current epoch".
IsCurrent(cur, n) ==
    /\ ~(cur.first = n \/ cur.first = n + 1)
    /\ cur.first < n
    /\ now - cur.time < (n - cur.first) + CUR_SLACK

\* processAdvert(device, time, data) for advert n of sender epoch de.
ProcessAdvert(eps, de, n) ==
    LET isDup == eps # <<>> /\ IsDuplicate(Last(eps), n)
        isNew == eps = <<>> \/ ~IsCurrent(Last(eps), n)
        eps1 == IF isNew THEN Append(eps, NewEpoch(n, de)) ELSE eps
        c == Len(eps1)
        p == IF isNew THEN Len(eps) ELSE IF Len(eps) >= 2 THEN 1 ELSE 0
        eps2 == [eps1 EXCEPT ![c] = StoreSegment(SetSymbol(@, n, de), n, de)]
        eps3 == IF n < RS_K - 1 /\ p # 0 /\ ~eps2[p].decoded
                THEN [eps2 EXCEPT ![p] = SetSymbol(@, n + RS_K + RS_M, PrevTag(de))]
                ELSE eps2
    IN IF isDup THEN eps ELSE eps3
\* EbNDevice::addSharedSecret of an unconfirmed (passive scheme) secret:
\* a secret of the same value is kept as it is.
AddSharedSecret(sec, id) ==
    IF id \in DOMAIN sec THEN sec
    ELSE sec @@ (id :> [ev |-> EmptyBag, conf |-> FALSE])

\* The shared link value is in the sender's filter, so a query for it can
\* fail only through a segment that was cut from some other filter.
SharedMayMiss(bloom, key) ==
    \E s \in Segments : bloom.seg[s] \notin {NoSeg, <<key, bloom.num>>}

\* EbNDevice::updateMatching: the value is dropped when its query fails.
UpdateMatching(m, bloom, key, drop) == m /\ ~(drop /\ SharedMayMiss(bloom, key))

\* The evidence a filter's fresh segments add: sender advert <<epoch, num>>.
Units(bloom) ==
    {<<bloom.seg[s][1], bloom.seg[s][2] * BF_B + s>> : s \in bloom.pend}

\* EbNDevice::confirmPassive: every unconfirmed secret found in the filter
\* takes its evidence (pFalse *= delta) and is confirmed once pFalse is
\* below the threshold; one not found is reset to pFalse = 1.
ConfirmPassive(sec, units, hits) ==
    [id \in DOMAIN sec |->
        IF sec[id].conf THEN sec[id]
        ELSE IF id \in hits
             THEN LET ev == sec[id].ev (+) SetToBag(units)
                  IN [ev |-> ev, conf |-> BagCardinality(ev) >= CONFIRM_UNITS]
             ELSE [ev |-> EmptyBag, conf |-> FALSE]]

\* The decode step of processEpochs: decode once K symbols are in, note the
\* newest filter number, compute the secret (Passive confirmation scheme).
DecodeEpoch(ep, ctx) ==
    IF ~ep.decoded /\ Cardinality(ep.idx) >= RS_K
    THEN LET k == DecodedKey(ep)
         IN [ep |-> [ep EXCEPT !.decoded = TRUE, !.key = k,
                               !.decodeBloomNum = Last(ep.blooms).num],
             ctx |-> [ctx EXCEPT !.secrets = AddSharedSecret(@, k)]]
    ELSE [ep |-> ep, ctx |-> ctx]

\* The Bloom filter loop of processEpochs for a decoded epoch: every filter
\* with a fresh segment (pFalse != 1) updates matching_ and, when newer
\* than decodeBloomNum, confirms passively; then all filters but the newest
\* are erased, and the newest too once its last segment is filled.
ProcessBlooms(ep, ctx, hits, drop) ==
    LET step(c, b) ==
            IF b.pend = {} THEN c
            ELSE [matching |-> UpdateMatching(c.matching, b, ep.key, drop),
                  secrets |-> IF b.num > ep.decodeBloomNum
                              THEN ConfirmPassive(c.secrets, Units(b), hits)
                              ELSE c.secrets]
        newest == Last(ep.blooms)
    IN IF ep.decoded /\ ep.blooms # <<>>
       THEN [ep |-> [ep EXCEPT !.blooms = IF newest.seg[BF_B - 1] # NoSeg THEN <<>>
                                          ELSE <<[newest EXCEPT !.pend = {}]>>],
             ctx |-> FoldLeft(step, ctx, ep.blooms)]
       ELSE [ep |-> ep, ctx |-> ctx]

\* processEpochs(device): each epoch in turn; one that is not the newest is
\* erased when decoded or when there are more than two.
RECURSIVE ProcessEpochsFrom(_, _, _, _, _)
ProcessEpochsFrom(i, eps, ctx, hits, drop) ==
    IF i > Len(eps) THEN [eps |-> eps, ctx |-> ctx]
    ELSE LET d == DecodeEpoch(eps[i], ctx)
             b == ProcessBlooms(d.ep, d.ctx, hits, drop)
             eps1 == [eps EXCEPT ![i] = b.ep]
         IN IF i < Len(eps) /\ (b.ep.decoded \/ Len(eps) > 2)
            THEN ProcessEpochsFrom(i, RemoveAt(eps1, i), b.ctx, hits, drop)
            ELSE ProcessEpochsFrom(i + 1, eps1, b.ctx, hits, drop)

ProcessEpochs(eps, ctx, hits, drop) == ProcessEpochsFrom(1, eps, ctx, hits, drop)

\* EbNDeviceMap::get(address): an exact match, or a match of the address
\* shifted once (findShiftedMatch, which then stores the new address).
KnownDevice(a) == present /\ a \in {addr, addr + 1}

NoSecrets == [id \in {} |-> [ev |-> EmptyBag, conf |-> FALSE]]

-----------------------------------------------------------------------------
(* Receiver actions *)

\* processScanResponse for the advert (kind 0) or scan response (kind 1) on
\* air now: EbNDeviceMap::get matches the stored address exactly or shifted
\* once, otherwise a new device is made (a device whose address is two
\* shifts behind can never be matched again and only waits for expiry);
\* the address is updated, then processAdvert and processEpochs run.  The
\* outcomes of Bloom queries are chosen: hits are the secrets found, drop
\* whether a query that can fail for the shared value does.  An active scan
\* reports the advert before the scan response of the same pair.
ProcessScanResponse(kind) ==
    /\ kind \notin heard
    /\ kind = 0 => 1 \notin heard
    /\ LET n == bcast.num + kind
           de == bcast.epoch
           known == KnownDevice(sEpoch)
           eps0 == IF known THEN epochs ELSE <<>>
           ctx0 == IF known THEN [matching |-> matching, secrets |-> secrets]
                   ELSE [matching |-> TRUE, secrets |-> NoSecrets]
           eps1 == ProcessAdvert(eps0, de, n)
           ids == {id \in DOMAIN ctx0.secrets : ~ctx0.secrets[id].conf}
                  \cup {DecodedKey(ep) : ep \in ToSet(eps1)}
       IN \E hits \in SUBSET ids, drop \in BOOLEAN :
            LET pe == ProcessEpochs(eps1, ctx0, hits, drop)
            IN /\ epochs' = pe.eps
               /\ matching' = pe.ctx.matching
               /\ secrets' = pe.ctx.secrets
               /\ present' = TRUE
               /\ addr' = sEpoch
               /\ lastSeen' = now
               /\ heard' = heard \cup {kind}
               /\ lastRx' = [dup |-> eps0 # <<>> /\ IsDuplicate(Last(eps0), n),
                             again |-> eps0 # <<>> /\ Last(eps0).firstTag = de
                                                   /\ Last(eps0).first = n]
    /\ UNCHANGED <<now, sender>>

\* EbNController::run: checkExpired reports the device and doneWithDevice
\* deletes it with all its epochs and secrets.
Expire ==
    /\ present
    /\ now - lastSeen > EXPIRE_TICKS
    /\ present' = FALSE
    /\ epochs' = <<>>
    /\ matching' = TRUE
    /\ secrets' = NoSecrets
    /\ addr' = 0
    /\ lastSeen' = 0
    /\ UNCHANGED <<now, sender, heard, lastRx>>

\* Time moves on once both controller loops have done what was due.
Tick ==
    /\ ~(present /\ now - lastSeen > EXPIRE_TICKS)
    /\ ~(now >= nextChangeEpoch /\ nextChangeEpoch < nextDiscover)
    /\ ~(now >= nextDiscover /\ ~(nextChangeEpoch < nextDiscover))
    /\ now' = now + 1
    /\ heard' = {}
    /\ UNCHANGED <<sender, present, addr, epochs, matching, secrets, lastSeen, lastRx>>

Init ==
    /\ now = 0
    /\ SenderInit
    /\ heard = {}
    /\ present = FALSE
    /\ addr = 0
    /\ epochs = <<>>
    /\ matching = TRUE
    /\ secrets = NoSecrets
    /\ lastSeen = 0
    /\ lastRx = [dup |-> FALSE, again |-> FALSE]

Next ==
    \/ ChangeEpoch
    \/ Discover
    \/ ProcessScanResponse(0)
    \/ ProcessScanResponse(1)
    \/ Expire
    \/ Tick

Spec == Init /\ [][Next]_vars
-----------------------------------------------------------------------------
(* Properties *)

Tags == Nat \cup {ZeroSym}
EpochRec == [first : Nat, firstTag : Nat, time : Nat,
             idx : SUBSET Nat, tags : SUBSET Tags, decoded : BOOLEAN,
             key : Nat \cup {Garbage}, blooms : Seq([num : Nat, seg : [Segments -> (Nat \X Nat) \cup {NoSeg}],
                                              pend : SUBSET Segments]),
             decodeBloomNum : Nat]

TypeOK ==
    /\ now \in Nat /\ sEpoch \in Nat /\ advertNum \in 0 .. ADV_N
    /\ bcast \in [epoch : Nat, num : 0 .. ADV_N - 2]
    /\ heard \subseteq {0, 1}
    /\ present \in BOOLEAN /\ addr \in Nat /\ lastSeen \in Nat
    /\ epochs \in Seq(EpochRec) /\ Len(epochs) <= 2
    /\ matching \in BOOLEAN
    /\ \A id \in DOMAIN secrets : secrets[id].conf \in BOOLEAN

\* The RS decoder of an epoch record only ever holds symbols of one sender
\* key: the duplicate / current / new classification of processAdvert, the
\* prev-symbol path and the expiry together keep epochs apart.
NoEpochMixing ==
    \A i \in 1 .. Len(epochs) : Cardinality(epochs[i].tags) <= 1

\* A link value both devices hold is never removed from matching_: every
\* segment processEpochs queries it against was cut from the filter
\* (epoch, bloomNum) whose key the record decoded.
MatchingSound == matching

\* A segment of the sender's filter raises a secret's confidence at most
\* once between resets: confirmPassive never counts one advert twice.
EvidenceCountedOnce ==
    \A id \in DOMAIN secrets :
        \A u \in BagToSet(secrets[id].ev) : CopiesIn(u, secrets[id].ev) = 1

=============================================================================
