---------------------------- MODULE EbNAdvertBT2 ----------------------------
(***************************************************************************)
(* The BT2 advert channel between one sending and one receiving radio      *)
(* (EbNRadioBT2), the BT2 counterpart of EbNAdvertBT4.                     *)
(*                                                                         *)
(* The sender runs the controller loop of EbNRadio::getNextAction: every   *)
(* discover() writes the next extended inquiry response (changeAdvert),    *)
(* and changeEpoch() draws a new DH key, shifts the address (line 77),     *)
(* and only then turns discoverability off, writes advert 0 of the new     *)
(* epoch and turns it on again (lines 79-81).  Advert n of epoch e carries *)
(* n, the whole public key of e and a Bloom filter with prefix <<n, key>>. *)
(*                                                                         *)
(* The receiver runs processEIRResponse once per inquiry: the device       *)
(* lookup by exact or shifted address (EbNDeviceMap::get), processAdvert   *)
(* and processEpochs; the hysteresis expiry deletes the device            *)
(* (EbNController::run -> doneWithDevice).                                 *)
(*                                                                         *)
(* Time is counted in ticks of DISC_INTERVAL (60 s), the unit of the       *)
(* windows of processAdvert.  The +-1 s jitter of every discover and the   *)
(* 10 s inquiry make two scan times that are k ticks apart differ by less  *)
(* or more than k * DISC_INTERVAL: a window test at exactly k ticks can go *)
(* either way.  A key is named by its sender epoch.  The receiver's own    *)
(* key and secrets are left out.                                           *)
(***************************************************************************)
EXTENDS Integers, Sequences, SequencesExt

CONSTANTS
    ADV_N,        \* adverts per epoch, ceil(EPOCH_INTERVAL / DISC_INTERVAL)
    EPOCH_TICKS,  \* EPOCH_INTERVAL in ticks
    EXPIRE_TICKS  \* hysteresis timeout after which the device is dropped

ASSUME /\ ADV_N >= 4 /\ EPOCH_TICKS = ADV_N /\ EXPIRE_TICKS >= 1

\* The "+ 3" of the current-epoch test and the "ADV_N - 3" of the duplicate
\* test (processAdvert, lines 281 and 288).
CUR_SLACK == 3
DUP_TICKS == ADV_N - 3

VARIABLES
    now,             \* the clock, in ticks
    sEpoch,          \* sender: epoch of dhExchange_
    advertNum,       \* sender: advertNum_
    bcast,           \* sender: the inquiry response in the controller [epoch, num]
    addrEpoch,       \* sender: shifts of its public address
    shifting,        \* sender: changeEpoch has set the address, not yet the advert
    nextDiscover,    \* sender: nextDiscover_
    nextChangeEpoch, \* sender: nextChangeEpoch_
    scanned,         \* receiver: its inquiry of this tick has heard the sender
    present,         \* receiver: the device is in deviceMap_
    addr,            \* receiver: shifts of the address stored for the device
    epochs,          \* receiver: device->epochs_
    matching,        \* receiver: the shared link value is still in matching_
    lastSeen,        \* receiver: hysteresis lastTime of the device
    lastRx           \* receiver: what processAdvert did with the last advert

sender == <<sEpoch, advertNum, bcast, addrEpoch, shifting, nextDiscover, nextChangeEpoch>>
receiver == <<scanned, present, addr, epochs, matching, lastSeen, lastRx>>
vars == <<now, sender, receiver>>

-----------------------------------------------------------------------------
(* Sender *)

\* EbNRadioBT2::changeAdvert, lines 154-169: the next advert, unless all
\* ADV_N of the epoch have been written.
ChangeAdvert ==
    IF advertNum >= ADV_N
    THEN UNCHANGED <<bcast, advertNum>>
    ELSE /\ bcast' = [epoch |-> sEpoch, num |-> advertNum]
         /\ advertNum' = advertNum + 1

\* The EbNRadio constructor (first discover 10 s after start, within the
\* first tick) and EbNRadioBT2::initialize, which writes advert 0.
SenderInit ==
    /\ sEpoch = 0 /\ addrEpoch = 0 /\ shifting = FALSE
    /\ bcast = [epoch |-> 0, num |-> 0]
    /\ advertNum = 1
    /\ nextDiscover = 0
    /\ nextChangeEpoch = EPOCH_TICKS

\* getNextAction runs changeEpoch when nextChangeEpoch_ < nextDiscover_ and
\* discover otherwise; in the same tick the jitter decides.
EpochFirst == nextChangeEpoch <= nextDiscover
DiscoverFirst == nextDiscover <= nextChangeEpoch

\* changeEpoch, lines 67-77: advert numbering restarts, a new key, the
\* shifted address; the sender is still discoverable with the old advert.
ChangeEpochShift ==
    /\ ~shifting /\ EpochFirst /\ now >= nextChangeEpoch
    /\ advertNum' = 0
    /\ sEpoch' = sEpoch + 1
    /\ addrEpoch' = addrEpoch + 1
    /\ shifting' = TRUE
    /\ UNCHANGED <<now, bcast, nextDiscover, nextChangeEpoch, receiver>>

\* changeEpoch, lines 79-107: advert 0 of the new epoch is written while
\* the sender is not discoverable; the passive secrets it recomputes are
\* its own devices', not modelled here.
ChangeEpochAdvert ==
    /\ shifting
    /\ ChangeAdvert
    /\ shifting' = FALSE
    /\ nextChangeEpoch' = nextChangeEpoch + EPOCH_TICKS
    /\ UNCHANGED <<now, sEpoch, addrEpoch, nextDiscover, receiver>>

\* discover, lines 49-65: changeAdvert, the inquiry, and the next discover
\* one DISC_INTERVAL later.
Discover ==
    /\ ~shifting /\ DiscoverFirst /\ now >= nextDiscover
    /\ ChangeAdvert
    /\ nextDiscover' = nextDiscover + 1
    /\ UNCHANGED <<now, sEpoch, addrEpoch, shifting, nextChangeEpoch, receiver>>

-----------------------------------------------------------------------------
(* Receiver *)

\* The Epoch constructor (EbNDeviceBT2.cpp) and the key copied into it
\* (line 302): lastAdvertNum and lastAdvertTime are never updated.  tags
\* is a history field: the sender epochs of the adverts processed into it.
NewEpoch(n, de) == [first |-> n, time |-> now, key |-> de, tags |-> {}]

\* "time - t < k * DISC_INTERVAL" for scan times d ticks apart.
Within(d, k) == IF d < k THEN {TRUE} ELSE IF d = k THEN BOOLEAN ELSE {FALSE}

\* Mutant: the duplicate test without its time window.
IsDuplicateNoWindow(cur, n, w) == cur.first = n

\* "This is a duplicate advertisement", lines 279-286; w is the window.
IsDuplicate(cur, n, w) == cur.first = n /\ w

\* Mutant: the current-epoch test without its time window.
IsCurrentNoWindow(cur, n, w) == cur.first # n /\ cur.first < n

\* "This advertisement belongs to the current epoch", line 288.
IsCurrent(cur, n, w) == cur.first # n /\ cur.first < n /\ w

\* EbNDevice::updateMatching with the prefix <<n, record key>>: the value
\* the sender put in its filter under <<n, its key>> can be missed only
\* when the keys differ; drop is whether that query fails.
UpdateMatching(m, key, de, drop) == m /\ ~(drop /\ key # de)

\* processEpochs, lines 343-358: every epoch but the last is erased.
ProcessEpochs(eps) == IF eps = <<>> THEN eps ELSE <<Last(eps)>>

\* processAdvert, lines 248-341, for advert n of sender epoch de, then
\* processEpochs; dw and cw are the outcomes of the two window tests,
\* drop that of the filter query.
ProcessAdvert(eps, m, de, n, dw, cw, drop) ==
    LET isDup == eps # <<>> /\ IsDuplicate(Last(eps), n, dw)
        isNew == eps = <<>> \/ ~IsCurrent(Last(eps), n, cw)
        eps1 == IF isNew THEN Append(eps, NewEpoch(n, de)) ELSE eps
        cur == Last(eps1)
    IN  IF n >= ADV_N \/ isDup THEN [eps |-> ProcessEpochs(eps), m |-> m, dup |-> isDup]
        ELSE [eps |-> ProcessEpochs([eps1 EXCEPT ![Len(eps1)].tags = @ \cup {de}]),
              m |-> UpdateMatching(m, cur.key, de, drop), dup |-> FALSE]

\* processEIRResponse, lines 171-207, for the sender's response in this
\* tick's inquiry: the checksum, length and type hold for an EbN advert;
\* EbNDeviceMap::get matches the stored address exactly or shifted once
\* (findShiftedMatch then stores the new one), otherwise a new device is
\* made and the old one only waits for expiry; then processAdvert and
\* processEpochs (Passive scheme).
ProcessEIRResponse ==
    /\ ~scanned
    /\ \E eps0 \in {IF present /\ addrEpoch \in {addr, addr + 1} THEN epochs ELSE <<>>} :
       \E m0 \in {IF eps0 = <<>> THEN TRUE ELSE matching} :
       \E dw \in IF eps0 = <<>> THEN {FALSE} ELSE Within(now - Last(eps0).time, DUP_TICKS),
          cw \in IF eps0 = <<>> THEN {FALSE}
                 ELSE Within(now - Last(eps0).time, (bcast.num - Last(eps0).first) + CUR_SLACK),
          drop \in BOOLEAN :
            \E r \in {ProcessAdvert(eps0, m0, bcast.epoch, bcast.num, dw, cw, drop)} :
               /\ epochs' = r.eps
               /\ matching' = r.m
               /\ lastRx' = [dup |-> r.dup,
                             again |-> eps0 # <<>> /\ Last(eps0).key = bcast.epoch
                                                   /\ Last(eps0).first = bcast.num]
    /\ present' = TRUE
    /\ addr' = addrEpoch
    /\ lastSeen' = now
    /\ scanned' = TRUE
    /\ UNCHANGED <<now, sender>>

\* EbNController::run: checkExpired reports the device and doneWithDevice
\* (lines 141-152) deletes it with its epochs.
Expire ==
    /\ present
    /\ now - lastSeen > EXPIRE_TICKS
    /\ present' = FALSE
    /\ epochs' = <<>>
    /\ matching' = TRUE
    /\ addr' = 0
    /\ lastSeen' = 0
    /\ UNCHANGED <<now, sender, scanned, lastRx>>

\* Time moves on once both controller loops have done what was due.
Tick ==
    /\ ~(present /\ now - lastSeen > EXPIRE_TICKS)
    /\ ~shifting
    /\ ~(EpochFirst /\ now >= nextChangeEpoch)
    /\ ~(DiscoverFirst /\ now >= nextDiscover)
    /\ now' = now + 1
    /\ scanned' = FALSE
    /\ UNCHANGED <<sender, present, addr, epochs, matching, lastSeen, lastRx>>

Init ==
    /\ now = 0
    /\ SenderInit
    /\ scanned = FALSE
    /\ present = FALSE
    /\ addr = 0
    /\ epochs = <<>>
    /\ matching = TRUE
    /\ lastSeen = 0
    /\ lastRx = [dup |-> FALSE, again |-> FALSE]

Next ==
    \/ ChangeEpochShift
    \/ ChangeEpochAdvert
    \/ Discover
    \/ ProcessEIRResponse
    \/ Expire
    \/ Tick

Spec == Init /\ [][Next]_vars
-----------------------------------------------------------------------------
(* Properties *)

TypeOK ==
    /\ now \in Nat /\ sEpoch \in Nat /\ advertNum \in 0 .. ADV_N
    /\ bcast \in [epoch : Nat, num : 0 .. ADV_N - 1]
    /\ addrEpoch \in Nat /\ shifting \in BOOLEAN
    /\ scanned \in BOOLEAN /\ present \in BOOLEAN /\ addr \in Nat /\ lastSeen \in Nat
    /\ epochs \in Seq([first : Nat, time : Nat, key : Nat, tags : SUBSET Nat])
    /\ Len(epochs) <= 1
    /\ matching \in BOOLEAN

BT2DuplicateOnlyIfRepeated == lastRx.dup => lastRx.again
=============================================================================
