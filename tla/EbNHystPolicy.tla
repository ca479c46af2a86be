---------------------------- MODULE EbNHystPolicy ----------------------------
(***************************************************************************)
(* The hysteresis policy of EbNHystPolicy.cpp: the table deviceInfo_ and   *)
(* its three operations discovered, encountered and checkExpired, as       *)
(* operators on the table.  The controller loop (EbNController) calls them *)
(* once per discover cycle, so they are composed there into one step.      *)
(*                                                                         *)
(* Times are counted in discover cycles (SCAN_INTERVAL).  A DeviceInfo     *)
(* keeps the age of firstTime and of lastTime instead of the times         *)
(* themselves: every use in the code is a difference with the current     *)
(* time.  Ages saturate at a cap no smaller than every threshold they    *)
(* are compared with, so the comparisons are exact.                       *)
(***************************************************************************)
EXTENDS Integers, FiniteSets, Functions, Bitwise

CONSTANTS
    HYST_SCHEME,     \* scheme_: Standard, Immediate or ImmediateNoMem
    MIN_START_TIME,  \* minStartTime_, in cycles
    MAX_START_TIME,  \* maxStartTime_, in cycles
    START_SEEN,      \* startSeen_
    END_TIME         \* endTime_, in cycles

\* EbNHystPolicy::Scheme (EbNHystPolicy.h)
Standard == 0
Immediate == 1
ImmediateNoMem == 3

ASSUME /\ HYST_SCHEME \in {Standard, Immediate, ImmediateNoMem}
       /\ {MIN_START_TIME, MAX_START_TIME, END_TIME} \subseteq Nat
       /\ START_SEEN \in Nat \ {0}
       /\ MIN_START_TIME <= END_TIME /\ MAX_START_TIME <= END_TIME

AGE_CAP == END_TIME + 1

HystStates == {"Discovered", "Encountered"}

DeviceInfos ==
    [first : 0..MIN_START_TIME, last : 0..AGE_CAP, seen : 0..START_SEEN,
     state : HystStates]

\* DeviceInfo(time) and DeviceInfo(time, state): both times now, seen 0.
DeviceInfo(st) == [first |-> 0, last |-> 0, seen |-> 0, state |-> st]

\* One discover cycle passes: every age grows by one, up to a cap.  The
\* age of firstTime is only compared with minStartTime_, so its cap is
\* MIN_START_TIME.
\* Mutant: saturation one step late.
OlderOffByOne(a, cap) == IF a <= cap THEN a + 1 ELSE a

Older(a, cap) == IF a < cap THEN a + 1 ELSE a

HystAge(info) ==
    [id \in DOMAIN info |-> [info[id] EXCEPT !.first = Older(@, MIN_START_TIME),
                                             !.last = Older(@, AGE_CAP)]]

\* The branch taken by discovered: the test at line 32 is
\* !(scheme_ & ImmediateNoMem), a test of both bits of the scheme.
HasMemory == (HYST_SCHEME & ImmediateNoMem) = 0

\* The Discovered -> Encountered test of line 52, made with lastTime = now.
StartsEncounter(i) ==
    \/ i.seen >= START_SEEN /\ i.first >= MIN_START_TIME
    \/ (HYST_SCHEME & Immediate) # 0

\* The sightings of one device in one scan: lastTime = now, seen grows by
\* the number of events above the RSSI threshold ("strong"), and the state
\* test runs.  The test is monotone in seen, so running it once after all
\* the events of the scan gives the state it reaches after the last one.
Sighted(i, strong) ==
    LET j == [i EXCEPT !.last = 0,
                       !.seen = IF @ + strong < START_SEEN
                                THEN @ + strong ELSE START_SEEN]
    IN  IF j.state = "Discovered" /\ StartsEncounter(j)
        THEN [j EXCEPT !.state = "Encountered"]
        ELSE j

(***************************************************************************)
(* discovered(events, newlyDiscovered).  evs maps every device id of the   *)
(* scan to the number of its events above the threshold.  The result has  *)
(* the new table, the set toHandshake and the ids of newlyDiscovered.     *)
(***************************************************************************)
Discovered(info, evs) ==
    IF HasMemory
    THEN LET new == [id \in DOMAIN info \cup DOMAIN evs |->
                       IF id \in DOMAIN evs
                       THEN Sighted(IF id \in DOMAIN info THEN info[id]
                                    ELSE DeviceInfo("Discovered"), evs[id])
                       ELSE info[id]]
         IN  [info |-> new,
              toHandshake |-> {id \in DOMAIN evs :
                                 new[id].state = "Encountered"},
              newly |-> DOMAIN evs \ DOMAIN info]
    ELSE [info |-> info, toHandshake |-> DOMAIN evs, newly |-> DOMAIN evs]

\* encountered(devices): promote, or insert as Encountered.
Encountered(info, ids) ==
    [id \in DOMAIN info \cup ids |->
        IF id \notin DOMAIN info THEN DeviceInfo("Encountered")
        ELSE IF id \in ids THEN [info[id] EXCEPT !.state = "Encountered"]
        ELSE info[id]]

\* Mutant: the Discovered case of the switch is missing.
IsExpiredEncounteredOnly(i) == i.state = "Encountered" /\ i.last > END_TIME

\* The removal test of checkExpired, per state.
IsExpired(i) ==
    \/ i.state = "Discovered" /\ i.last > MAX_START_TIME
    \/ i.state = "Encountered" /\ i.last > END_TIME

\* checkExpired(): the ids it returns; they are erased from the table.
CheckExpired(info) == {id \in DOMAIN info : IsExpired(info[id])}

\* Mutant: the expired entries are reported but not erased.
WithoutExpiredKeep(info) == info

WithoutExpired(info) == Restrict(info, DOMAIN info \ CheckExpired(info))
=============================================================================
