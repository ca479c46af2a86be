------------------------------- MODULE EbNRadio -------------------------------
(***************************************************************************)
(* EbNRadio::fillBloomFilter (EbNRadio.cpp): the link values a radio puts  *)
(* into the Bloom filter it advertises.  First the advertised set, in list *)
(* order, up to maxAdvert values; then, for passive confirmation, shared   *)
(* secrets of the recent devices taken from a priority queue; then random  *)
(* values for what is left of the load.                                    *)
(*                                                                         *)
(* A link value or a shared secret is a model value; a secret is a record  *)
(* with its pFalse, a level of a small ordered set (a smaller level is a   *)
(* more confident secret), and confirmedBy.  The priority queue pops, of   *)
(* the secrets left, one for which no other compares greater; which one of *)
(* several equal ones it pops is left open.                                *)
(***************************************************************************)
EXTENDS Integers, Sequences, FiniteSets

\* The scheme used to confirm a secret (SharedSecret::ConfirmScheme).
ConfirmedBy == {"None", "Passive", "Active"}

\* Lines 80-84: the room left for the advertised set.
MaxAdvert(bfN, bfNPassive, passive) == IF passive THEN bfN - bfNPassive ELSE bfN

\* Lines 88-92: the advertised values added, a prefix of the list.
NumAdvert(advertised, maxAdvert) ==
    IF Len(advertised) < maxAdvert THEN Len(advertised) ELSE maxAdvert

\* Lines 106-117: every secret of a recent device not confirmed actively.
PassiveCandidates(secrets) == {s \in secrets : s.confirmedBy # "Active"}

\* SharedSecret::Compare is a.pFalse < b.pFalse, so top() is a secret no
\* other one compares greater than: one of highest pFalse.
QueueTops(S) == {t \in S : \A u \in S : ~(t.pFalse < u.pFalse)}

\* Lines 119-125: the orders in which at most k secrets leave the queue.
RECURSIVE PopOrders(_, _)
PopOrders(S, k) ==
    IF S = {} \/ k = 0 THEN {<<>>}
    ELSE UNION {{<<t>> \o p : p \in PopOrders(S \ {t}, k - 1)} : t \in QueueTops(S)}

\* Mutant: the passive shortfall is not made up with random values.
PassiveShortfallDropped(bfNPassive, popped) == 0

\* Line 127: numRandom += BF_N_PASSIVE - numPassive.
PassiveShortfall(bfNPassive, popped) == bfNPassive - Len(popped)

(***************************************************************************)
(* fillBloomFilter(bloom, prefix, prefixSize, includePassive), lines       *)
(* 75-134, with passive the Passive bit of confirmScheme_: the possible    *)
(* outcomes, each the advertised values added, the secrets added in pop    *)
(* order, and the number of random values (addRandom, line 131).           *)
(***************************************************************************)
FillBloomFilter(bfN, bfNPassive, passive, includePassive, advertised, secrets) ==
    LET maxAdvert == MaxAdvert(bfN, bfNPassive, passive)
        numAdvert == NumAdvert(advertised, maxAdvert)
        withPassive == includePassive /\ passive
    IN  {[advert  |-> SubSeq(advertised, 1, numAdvert),
          popped  |-> popped,
          numRandom |-> (maxAdvert - numAdvert)
                        + IF withPassive THEN PassiveShortfall(bfNPassive, popped)
                          ELSE 0] :
            popped \in IF withPassive
                       THEN PopOrders(PassiveCandidates(secrets), bfNPassive)
                       ELSE {<<>>}}

\* The values a filter outcome holds, random ones aside.
FillLoad(out) == Len(out.advert) + Len(out.popped) + out.numRandom
================================================================================
