-------------------------- MODULE MCAdvertChannels --------------------------
(***************************************************************************)
(* The advert channels of the two radio families in one model: a behaviour *)
(* is either the BT4 channel (MCEbNAdvertBT4) or the BT2 channel           *)
(* (MCEbNAdvertBT2), chosen at the start.  The two share the names of the  *)
(* state they have in common; a variable only one of them has keeps its   *)
(* initial value in the other.                                             *)
(***************************************************************************)
EXTENDS Naturals

CONSTANTS
    RADIOS,                                         \* subset of {"BT4", "BT2"}
    BT4_ADV_N, RS_K, BF_B, CUR_SLACK, BT4_EPOCH_TICKS,
    FIRST_DISCOVER, BT4_EXPIRE_TICKS, CONFIRM_UNITS, \* EbNAdvertBT4
    BT2_ADV_N, BT2_EPOCH_TICKS, BT2_EXPIRE_TICKS     \* EbNAdvertBT2

VARIABLES
    radio,
    now, sEpoch, advertNum, bcast, nextDiscover, nextChangeEpoch,
    present, addr, epochs, matching, lastSeen, lastRx,
    heard, secrets,              \* BT4 only
    addrEpoch, shifting, scanned \* BT2 only

bt4Only == <<heard, secrets>>
bt2Only == <<addrEpoch, shifting, scanned>>

BT4 == INSTANCE MCEbNAdvertBT4
         WITH ADV_N <- BT4_ADV_N, EPOCH_TICKS <- BT4_EPOCH_TICKS,
              EXPIRE_TICKS <- BT4_EXPIRE_TICKS
BT2 == INSTANCE MCEbNAdvertBT2
         WITH ADV_N <- BT2_ADV_N, EPOCH_TICKS <- BT2_EPOCH_TICKS,
              EXPIRE_TICKS <- BT2_EXPIRE_TICKS

Init ==
    /\ radio \in RADIOS
    /\ IF radio = "BT4"
       THEN BT4!Init /\ addrEpoch = 0 /\ shifting = FALSE /\ scanned = FALSE
       ELSE BT2!Init /\ heard = {} /\ secrets = BT4!NoSecrets

Next ==
    \/ radio = "BT4" /\ BT4!Next /\ UNCHANGED <<radio, bt2Only>>
    \/ radio = "BT2" /\ BT2!Next /\ UNCHANGED <<radio, bt4Only>>

TimeBound == IF radio = "BT4" THEN BT4!TimeBound ELSE BT2!TimeBound

TypeOK == IF radio = "BT4" THEN BT4!TypeOK ELSE BT2!TypeOK

\* EbNAdvertBT4!NoEpochMixing.
NoEpochMixing == radio = "BT4" => BT4!NoEpochMixing

\* EbNAdvertBT4!MatchingSound.
MatchingSound == radio = "BT4" => BT4!MatchingSound

BT2DuplicateOnlyIfRepeated == radio = "BT2" => BT2!BT2DuplicateOnlyIfRepeated
=============================================================================
