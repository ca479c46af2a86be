---------------------------- MODULE EbNController ----------------------------
(***************************************************************************)
(* The controller loop of EbNController::run composed with the radio's    *)
(* device bookkeeping (EbNRadioBT4: discover, handshake, doneWithDevice;   *)
(* EbNRadio: recentDevices_, getHandshakeScheme, getDeviceEvent), the      *)
(* report flags of EbNDevice::getEncounterInfo, the hysteresis policy and  *)
(* the listen thread that queues incoming handshakes.                     *)
(*                                                                         *)
(* One Discover iteration of the loop is one step (Cycle): it runs on one  *)
(* thread and nothing else changes the state it reads, except the listen   *)
(* thread, whose only shared write is the push onto listenAdverts_ under  *)
(* its mutex (Listen).  What the advert channel decides (whether a scan    *)
(* completes a decode, confirms a secret passively or shrinks the         *)
(* matching set) is modelled in EbNAdvertBT4 and is a free choice here.    *)
(***************************************************************************)
EXTENDS EbNHystPolicy, Integers, FiniteSets, Functions, Bitwise

CONSTANTS
    Remotes,        \* nearby EbN devices, as model values
    Ids,            \* device ids 1..N that generateDeviceID can hand out
    MEMORY_SCHEME,  \* memoryScheme_: "Standard" or "NoMemory" (--churn)
    CONFIRM_SCHEME, \* confirmScheme_.type
    HYBRID_LIMIT,   \* the 128 of getHandshakeScheme
    RSSI_INTERVAL,  \* rssiReportInterval_, in cycles
    SCAN_EVENTS     \* the most responses of one remote a scan reports

\* EbNRadio::ConfirmScheme
None == 0
Passive == 1
Active == 2
Hybrid == 3

ASSUME /\ Ids \subseteq Nat \ {0} /\ Ids # {}
       /\ MEMORY_SCHEME \in {"Standard", "NoMemory"}
       /\ CONFIRM_SCHEME \in {None, Passive, Active, Hybrid}
       /\ HYBRID_LIMIT \in Nat /\ RSSI_INTERVAL \in Nat
       /\ SCAN_EVENTS \in Nat \ {0}

REPORT_CAP == RSSI_INTERVAL + 1

\* An id past every id: the handshake loop ran to the end.
NoStop == 1 + CHOOSE m \in Ids : \A id \in Ids : id <= m

Phases == {"none", "unconfirmed", "started"}
EventTypes == {"UnconfirmedStarted", "Started", "Updated", "Ended"}

VARIABLES
    devs,     \* deviceMap_: id -> the EbNDevice of that id
    recent,   \* the ids of recentDevices_ / idToRecentDevices_
    hyst,     \* hystPolicy_.deviceInfo_
    queue,    \* the addresses (remotes) in listenAdverts_
    staleKey, \* the queued remotes answered with a key changeEpoch replaced
    gone,     \* remotes that have left radio range for good
    phase,    \* what the encounter callback has been told of each id
    emitted   \* the events the last cycle passed to the callback

vars == <<devs, recent, hyst, queue, staleKey, gone, phase, emitted>>

(***************************************************************************)
(* An EbNDevice reduced to the fields that control its events:             *)
(*   remote    whose address it holds;                                     *)
(*   conf      confirmed_;                                                 *)
(*   shaken    shakenHands_;                                               *)
(*   reported  reported_;                                                  *)
(*   news      secretsToReport_ nonempty or updatedMatching_;              *)
(*   lastReport  the age of lastReportTime_, saturated at REPORT_CAP;     *)
(*   keyMismatch an Active secret of sharedSecrets_ was computed with a    *)
(*             local key other than the one the remote was sent.          *)
(* rssiToReport_ is left out: getDeviceEvent is only asked about devices *)
(* of this scan, which has just added a sample, so it is never empty     *)
(* where getEncounterInfo tests it.                                       *)
(***************************************************************************)
Devices ==
    [remote : Remotes, conf : BOOLEAN, shaken : BOOLEAN,
     reported : BOOLEAN, news : BOOLEAN,
     lastReport : 0..REPORT_CAP, keyMismatch : BOOLEAN]

\* The EbNDeviceBT4 constructor; lastReportTime_(0) is older than any interval.
NewDevice(r) ==
    [remote |-> r, conf |-> FALSE, shaken |-> FALSE, reported |-> FALSE,
     news |-> FALSE, lastReport |-> REPORT_CAP, keyMismatch |-> FALSE]

\* deviceMap_.get(address): the device of this remote, if any.
DeviceOf(map, r) == {id \in DOMAIN map : map[id].remote = r}

\* generateDeviceID never repeats an id.  Ids are reused here only once
\* nothing of the program refers to them any more.
FreeIds == Ids \ (DOMAIN devs \cup recent \cup DOMAIN hyst)

\* getHandshakeScheme(), given the size of recentDevices_.
HandshakeScheme(rec) ==
    IF CONFIRM_SCHEME = Hybrid
    THEN IF Cardinality(rec) > HYBRID_LIMIT THEN Passive ELSE Active
    ELSE CONFIRM_SCHEME

\* A successful processActiveHandshake: an Active secret is added and
\* queued for reporting if it confirms the device.
ActiveConfirm(d) == [d EXCEPT !.conf = TRUE, !.news = @ \/ ~d.conf]

\* The isUpdated test of getEncounterInfo(dest, interval, false).
IsUpdated(d) ==
    d.conf /\ d.shaken /\ (d.news \/ d.lastReport > RSSI_INTERVAL)

\* Mutant: reported_ is not set.
ReportedNoFlag(d) == [d EXCEPT !.news = FALSE, !.lastReport = 0]

\* The report clears the flags, sets reported_ and lastReportTime_.
Reported(d) ==
    [d EXCEPT !.news = FALSE, !.reported = TRUE, !.lastReport = 0]

\* removeRecentDevice for each id.
RemoveRecentDevice(rec, ids) == rec \ ids

\* One injective choice of new ids for a set of remotes.
Allocations(rs, free) ==
    {f \in [rs -> free] : IsInjective(f)}

\* The consumer's phase of an id after the events of one cycle.
NextPhase(p, types) ==
    IF types \cap {"Started", "Updated"} # {} THEN "started"
    ELSE IF "UnconfirmedStarted" \in types /\ p = "none" THEN "unconfirmed"
    ELSE p

Init ==
    /\ devs = [id \in {} |-> NewDevice(CHOOSE r \in Remotes : TRUE)]
    /\ recent = {}
    /\ hyst = [id \in {} |-> DeviceInfo("Discovered")]
    /\ queue = {}
    /\ staleKey = {}
    /\ gone = {}
    /\ phase = [id \in Ids |-> "none"]
    /\ emitted = {}

\* discover(), lines 67-70: with NoMemory deviceMap_ is cleared.  A scan
\* interval has passed since the last report of every device.
DiscoverStart(map) ==
    IF MEMORY_SCHEME = "NoMemory" THEN Restrict(map, {})
    ELSE [id \in DOMAIN map |->
            [map[id] EXCEPT !.lastReport = IF @ < REPORT_CAP THEN @ + 1
                                           ELSE @]]

\* processScanResponse (lines 396-426) for the responses of one scan: the
\* device is found by address or made with a new id (alloc); processAdvert
\* and processEpochs may confirm a secret passively (evidence) or shrink
\* the matching set (narrowed).
ProcessScanResponses(map, alloc, scanned, evidence, narrowed) ==
    [id \in DOMAIN map \cup Range(alloc) |->
        LET d == IF id \in DOMAIN map THEN map[id]
                 ELSE NewDevice(CHOOSE r \in DOMAIN alloc : alloc[r] = id)
        IN  IF id \in scanned
            THEN [d EXCEPT !.conf = @ \/ id \in evidence,
                           !.news = @ \/ id \in evidence \cup narrowed]
            ELSE d]

\* handshake, lines 146-169: every queued message finds or makes its
\* device, is run through processActiveHandshake (a secret is computed for
\* okIds only) and marks the device shaken.  processActiveHandshake uses
\* the current dhExchange_; for the staleIds the listen thread answered
\* with an earlier key, so the secret is not the one the remote derived.
DrainListenAdverts(map, alloc, queued, okIds, staleIds) ==
    [id \in DOMAIN map \cup Range(alloc) |->
        LET d == IF id \in DOMAIN map THEN map[id]
                 ELSE NewDevice(CHOOSE r \in DOMAIN alloc : alloc[r] = id)
            e == IF id \in okIds
             THEN [ActiveConfirm(d) EXCEPT !.keyMismatch = @ \/ id \in staleIds]
             ELSE d
        IN  IF id \in queued THEN [e EXCEPT !.shaken = TRUE] ELSE d]

\* handshake, lines 171-235: the ids tried before the loop broke are
\* marked shaken; the connected ones ran processActiveHandshake.
ConnectLoop(map, tried, connected) ==
    [id \in DOMAIN map |->
        IF id \in tried
        THEN [(IF id \in connected THEN ActiveConfirm(map[id]) ELSE map[id])
                 EXCEPT !.shaken = TRUE]
        ELSE map[id]]

\* handshake, lines 237-246: the devices shaken and confirmed.
EncounteredDevices(map) == {id \in DOMAIN map : map[id].shaken /\ map[id].conf}

\* getDeviceEvent (EbNRadio.cpp 202-215) for the ids of the scan: the ids
\* in idToRecentDevices_ whose getEncounterInfo reports.
DeviceEvents(map, scanned, rec) == {id \in scanned \cap rec : IsUpdated(map[id])}

\* doneWithDevice (lines 249-260) for the expired ids, after the reports
\* of getDeviceEvent: the device leaves deviceMap_.
DoneWithDevices(map, reports, expired) ==
    [id \in DOMAIN map \ expired |->
        IF id \in reports THEN Reported(map[id]) ELSE map[id]]
(***************************************************************************)
(* One Discover iteration of EbNController::run, lines 63-99:             *)
(*   discover()      NoMemory clears the map; every scan response heard    *)
(*                   finds or creates its device, adds an RSSI sample and  *)
(*                   moves it to the front of recentDevices_; the advert   *)
(*                   may confirm a secret passively or shrink the matching *)
(*                   set of a device known before this scan;               *)
(*   discovered()    the hysteresis table;                                 *)
(*   handshake()     drains listenAdverts_, then tries the active handshake*)
(*                   with the ids of toHandshake in increasing order,      *)
(*                   stopping when too little time is left before the     *)
(*                   next action, and returns the confirmed, shaken ids;   *)
(*   encountered()   the hysteresis table;                                 *)
(*   the events      UnconfirmedStarted for newlyDiscovered, the report of *)
(*                   getDeviceEvent for each scanned id, and Ended from    *)
(*                   doneWithDevice for each id checkExpired returns.      *)
(***************************************************************************)
Cycle ==
  \E heard \in SUBSET (Remotes \ gone) :
  \E strong \in [heard -> 0..SCAN_EVENTS] :
  \E map0 \in {DiscoverStart(devs)} :
  \E need \in {{r \in heard : DeviceOf(map0, r) = {}}} :
  \E alloc \in Allocations(need, FreeIds) :
  LET IdOf(r) == IF r \in need THEN alloc[r]
                 ELSE CHOOSE id \in DeviceOf(map0, r) : TRUE
  IN
  \E scanned \in {{IdOf(r) : r \in heard}} :
  \E known \in {scanned \ Range(alloc)} :
  \E evidence \in SUBSET (IF (CONFIRM_SCHEME & Passive) # 0 THEN known
                          ELSE {}) :
  \E narrowed \in SUBSET known :
  \E map1 \in {ProcessScanResponses(map0, alloc, scanned, evidence,
                                    narrowed)} :
  \E hd \in {Discovered(HystAge(hyst),
                        [id \in scanned |-> strong[map1[id].remote]])} :
  \E qneed \in {{r \in queue : DeviceOf(map1, r) = {}}} :
  \E alloc2 \in Allocations(qneed, FreeIds \ Range(alloc)) :
  \E qok \in SUBSET queue :
  LET QId(r) == IF r \in qneed THEN alloc2[r]
                ELSE CHOOSE id \in DeviceOf(map1, r) : TRUE
  IN
  \E queued \in {{QId(r) : r \in queue}} :
  \E okIds \in {{QId(r) : r \in qok}} :
  \E staleIds \in {{QId(r) : r \in staleKey}} :
  \E rec2 \in {recent \cup scanned \cup queued} :
  \E map2 \in {DrainListenAdverts(map1, alloc2, queued, okIds, staleIds)} :
  LET NeedsConnect(id) == ~map2[id].conf /\ HandshakeScheme(rec2) = Active IN
  \E stop \in {id \in hd.toHandshake : NeedsConnect(id)} \cup {NoStop} :
  LET tried == {id \in hd.toHandshake : id < stop} IN
  \E connected \in SUBSET {id \in tried : NeedsConnect(id)} :
  \E map3 \in {ConnectLoop(map2, tried, connected)} :
  \E info2 \in {Encountered(hd.info, EncounteredDevices(map3))} :
  \E reports \in {DeviceEvents(map3, scanned, rec2)} :
  \E expired \in {CheckExpired(info2)} :
  \E events \in {{<<id, "UnconfirmedStarted">> : id \in hd.newly}
                 \cup {<<id, IF map3[id].reported THEN "Updated"
                                                  ELSE "Started">> :
                         id \in reports}
                 \cup {<<id, "Ended">> : id \in expired}} :
  \* doneWithDevice dereferences deviceMap_.get(id) unchecked; an id the
  \* map does not hold ends the process here.
  /\ expired \subseteq DOMAIN map3
  /\ devs' = DoneWithDevices(map3, reports, expired)
  /\ recent' = RemoveRecentDevice(rec2, expired)
  /\ hyst' = WithoutExpired(info2)
  /\ queue' = {}
  /\ staleKey' = {}
  /\ emitted' = events
  /\ phase' = [id \in Ids |->
                 IF id \notin DOMAIN devs' \cup recent' \cup DOMAIN hyst'
                 THEN "none"
                 ELSE NextPhase(phase[id], {t \in EventTypes :
                                              <<id, t>> \in events})]
  /\ UNCHANGED gone

(***************************************************************************)
(* The listen thread (listen, lines 740-765): an incoming connection from  *)
(* a remote in range, with a valid address checksum and a nonzero message,*)
(* is answered and queued in listenAdverts_.  It runs only with the Active *)
(* bit of the confirmation scheme (initialize, line 59).                   *)
(***************************************************************************)
Listen(r) ==
  /\ (CONFIRM_SCHEME & Active) # 0
  /\ r \notin gone
  /\ r \notin queue
  /\ queue' = queue \cup {r}
  /\ emitted' = {}
  /\ UNCHANGED <<devs, recent, hyst, staleKey, gone, phase>>

(***************************************************************************)
(* changeEpoch (lines 83-136), the other action of the loop, chosen by     *)
(* getNextAction whenever nextChangeEpoch_ comes before nextDiscover_: a   *)
(* new dhExchange_ secret.  Every message already in listenAdverts_ was    *)
(* answered with the key it replaces.  The Passive recompute of lines      *)
(* 106-133 adds unconfirmed secrets only (the scheme has the Passive bit,  *)
(* so it is not None), which change no field of a device here.            *)
(***************************************************************************)
ChangeEpoch ==
  /\ staleKey' = queue
  /\ emitted' = {}
  /\ UNCHANGED <<devs, recent, hyst, queue, gone, phase>>

\* A remote leaves radio range and is never heard again.
Leave(r) ==
  /\ r \notin gone
  /\ gone' = gone \cup {r}
  /\ emitted' = {}
  /\ UNCHANGED <<devs, recent, hyst, queue, staleKey, phase>>

Next ==
  \/ Cycle
  \/ ChangeEpoch
  \/ \E r \in Remotes : Listen(r)
  \/ \E r \in Remotes : Leave(r)

\* The loop of run() iterates while isRunning_; nothing stops it here.
Spec == Init /\ [][Next]_vars /\ WF_vars(Cycle)

-----------------------------------------------------------------------------
TypeOK ==
  /\ DOMAIN devs \subseteq Ids /\ \A id \in DOMAIN devs : devs[id] \in Devices
  /\ recent \subseteq Ids
  /\ DOMAIN hyst \subseteq Ids /\ \A id \in DOMAIN hyst : hyst[id] \in DeviceInfos
  /\ queue \subseteq Remotes /\ staleKey \subseteq queue
  /\ gone \subseteq Remotes
  /\ phase \in [Ids -> Phases]
  /\ emitted \subseteq Ids \X EventTypes

(***************************************************************************)
(* Every id the hysteresis table or recentDevices_ holds is a device of    *)
(* the radio's map.  checkExpired returns the ids of the table, and        *)
(* doneWithDevice dereferences deviceMap_.get(id) without a null check, so *)
(* an id missing from the map crashes the controller once it expires; a    *)
(* device leaves the map only through doneWithDevice, which also removes   *)
(* it from recentDevices_, whose size picks the Hybrid handshake scheme.   *)
(***************************************************************************)
IdsReferToDevices == DOMAIN hyst \cup recent \subseteq DOMAIN devs

(***************************************************************************)
(* The events of a device reach the callback in lifecycle order: the      *)
(* UnconfirmedStarted of newlyDiscovered only before anything else,        *)
(* Started (getEncounterInfo with reported_ false) at most once, and       *)
(* Updated only after Started.                                             *)
(***************************************************************************)
EventLifecycle ==
  [][\A e \in emitted' :
       /\ e[2] = "UnconfirmedStarted" => phase[e[1]] = "none"
       /\ e[2] = "Started" => phase[e[1]] # "started"
       /\ e[2] = "Updated" => phase[e[1]] = "started"]_vars

(***************************************************************************)
(* Ended (doneWithDevice) is only reported for a device the callback was   *)
(* told about, by UnconfirmedStarted or Started.                           *)
(***************************************************************************)
EndedOnlyIfAnnounced ==
  [][\A e \in emitted' : e[2] = "Ended" => phase[e[1]] # "none"]_vars

(***************************************************************************)
(* Once a remote has left, every device of the radio's map for it is       *)
(* eventually removed: checkExpired and doneWithDevice forget it.          *)
(***************************************************************************)
DevicesEventuallyForgotten ==
  \A r \in Remotes : r \in gone ~> DeviceOf(devs, r) = {}

(***************************************************************************)
(* Every Active secret a device holds is one the remote derived too: the  *)
(* message drained from listenAdverts_ by handshake is processed with the  *)
(* dhExchange_ the listen thread answered it with.  The comments of        *)
(* handshake and processActiveHandshake say dhExchange_ cannot change      *)
(* while handshaking; here the listen thread, not the handshake, holds it. *)
(***************************************************************************)
ActiveSecretsShared ==
  \A id \in DOMAIN devs : ~devs[id].keyMismatch
=============================================================================
