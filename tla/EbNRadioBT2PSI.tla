--------------------------- MODULE EbNRadioBT2PSI ---------------------------
(***************************************************************************)
(* The BT2PSI radio (EbNRadioBT2PSI.cpp): every radio runs a controller    *)
(* thread, which calls discover, handshake and changeEpoch, and a listen   *)
(* thread.  handshake connects to each device it is given that is not yet  *)
(* confirmed, at most once per discovery period (discDevices_), and runs   *)
(* the exchange as initiator; the listen thread runs it as listener:       *)
(*                                                                         *)
(*   initiator (handshake)            listener (listen)                    *)
(*   send public key                  send public key                      *)
(*   recv public key, add secret      recv public key (secret not kept)    *)
(*   HC1 recv published, send request LS1 send published                   *)
(*   HC2 recv response                LS2 recv request, send response      *)
(*   HS1 send published               LC1 recv published, send request     *)
(*   HS2 recv request, send response  LC2 recv response                    *)
(*                                                                         *)
(* Every send and recv has a timeout and can fail; after a failure a side  *)
(* does nothing more on the connection but close it.  A message is the     *)
(* role of the PSI data it carries, or a public key; the PSI computations  *)
(* (third-party JL10 client and server) and the framing (constructPSI-     *)
(* Message, parsePSIMessage, checked in OperatorChecks) are abstracted to  *)
(* that.  changeEpoch only draws a new key and shifts the address, which  *)
(* the peers' device maps follow (findShiftedMatch); keys are not          *)
(* modelled, and neither is it.                                            *)
(***************************************************************************)
EXTENDS Naturals, Sequences, FiniteSets

CONSTANTS
    Nodes,    \* the radios, as model values
    PERIODS   \* the discover calls each controller makes

VARIABLES
    period,   \* period[n]: discover calls made by n's controller
    known,    \* known[n]: the peers n's deviceMap_ holds a device for
    shaken,   \* shaken[n]: the devices whose hasShakenHands is true
    secrets,  \* secrets[n]: the devices an Active secret was added to
    disc,     \* disc[n]: discDevices_
    ctl,       \* ctl[n]: n's controller thread: "idle" or "handshake"
    todo,     \* todo[n]: the devices handshake has still to visit, in order
    ini,      \* ini[n]: the connection n's handshake has open, or NoSession
    lis,      \* lis[n]: the connection n's listen thread serves, or NoSession
    conn      \* conn[p]: the RFCOMM connection p = <<initiator, listener>>

vars == <<period, known, shaken, secrets, disc, ctl, todo, ini, lis, conn>>

Pairs == {p \in Nodes \X Nodes : p[1] # p[2]}

Roles == {"published", "request", "response"}
Msgs == {"pub"} \cup Roles

\* A thread with no connection open.
NoSession == [peer |-> "none"]

\* A connection: what each side has sent and the other not yet read, and
\* whether each side has closed its socket.  "idle" once both have.
Conn == [st : {"idle", "pending", "open"}, up : Seq(Msgs), down : Seq(Msgs),
         iDone : BOOLEAN, lDone : BOOLEAN]
IdleConn == [st |-> "idle", up |-> <<>>, down |-> <<>>, iDone |-> FALSE, lDone |-> FALSE]

Init ==
    /\ period = [n \in Nodes |-> 0]
    /\ known = [n \in Nodes |-> {}]
    /\ shaken = [n \in Nodes |-> {}]
    /\ secrets = [n \in Nodes |-> {}]
    /\ disc = [n \in Nodes |-> {}]
    /\ ctl = [n \in Nodes |-> "idle"]
    /\ todo = [n \in Nodes |-> <<>>]
    /\ ini = [n \in Nodes |-> NoSession]
    /\ lis = [n \in Nodes |-> NoSession]
    /\ conn = [p \in Pairs |-> IdleConn]

\* EbNDevice::isConfirmed: an Active secret makes the device confirmed.
Confirmed(n, m) == m \in secrets[n]

\* The orderings of a set of devices: std::set<DeviceID> visits them by
\* id, and ids follow the order of first discovery, which any scan order
\* can give.
Orderings(S) == {s \in [1..Cardinality(S) -> S] : \A i, j \in DOMAIN s : i # j => s[i] # s[j]}

(***************************************************************************)
(* The controller thread.                                                  *)
(***************************************************************************)

\* processEIRResponse, lines 287-313, for every peer heard: a device is
\* made for an address whose checksum holds and is not in deviceMap_.
ProcessEIRResponses(n, heard) == known' = [known EXCEPT ![n] = @ \cup heard]

\* Discover (EbNController.cpp lines 63-68): discover() clears
\* discDevices_ and runs the inquiry; the hysteresis policy then picks
\* the devices handshake is called with.
Discover(n) ==
    /\ ctl[n] = "idle" /\ period[n] < PERIODS
    /\ \E heard \in SUBSET (Nodes \ {n}) :
          /\ ProcessEIRResponses(n, heard)
          /\ \E S \in SUBSET heard : \E order \in Orderings(S) : todo' = [todo EXCEPT ![n] = order]
    /\ disc' = [disc EXCEPT ![n] = {}]
    /\ period' = [period EXCEPT ![n] = @ + 1]
    /\ ctl' = [ctl EXCEPT ![n] = "handshake"]
    /\ UNCHANGED <<shaken, secrets, ini, lis, conn>>

\* setShakenHands(true) and on to the next device of the loop.
NextDevice(n, m) ==
    /\ shaken' = [shaken EXCEPT ![n] = @ \cup {m}]
    /\ todo' = [todo EXCEPT ![n] = Tail(@)]

\* handshake, lines 115-135, for the next device m: a confirmed device is
\* not contacted again; one already in discDevices_ ends the loop (break,
\* line 131); otherwise it is put in discDevices_ and connectBT2 either
\* fails or opens a connection m's listen thread has to accept.
VisitDevice(n) ==
    /\ ctl[n] = "handshake" /\ todo[n] # <<>> /\ ini[n] = NoSession
    /\ \E m \in {Head(todo[n])} :
          \/ /\ Confirmed(n, m)
             /\ NextDevice(n, m)
             /\ UNCHANGED <<disc, ini, conn>>
          \/ /\ ~Confirmed(n, m) /\ m \in disc[n]
             /\ todo' = [todo EXCEPT ![n] = <<>>]
             /\ UNCHANGED <<shaken, disc, ini, conn>>
          \/ /\ ~Confirmed(n, m) /\ m \notin disc[n]
             /\ disc' = [disc EXCEPT ![n] = @ \cup {m}]
             /\ \/ NextDevice(n, m) /\ UNCHANGED <<ini, conn>>
                \/ /\ conn[<<n, m>>].st = "idle"
                   /\ conn' = [conn EXCEPT ![<<n, m>>].st = "pending"]
                   /\ ini' = [ini EXCEPT ![n] = [peer |-> m, step |-> 1, mismatch |-> FALSE]]
                   /\ UNCHANGED <<shaken, todo>>
    /\ UNCHANGED <<period, known, secrets, ctl, lis>>

\* Lines 262-271 return the devices shaken and confirmed to the
\* hysteresis policy; the controller then calls doneWithDevice (lines
\* 274-285) for each device it reports expired, which leaves deviceMap_.
EndHandshake(n) ==
    /\ ctl[n] = "handshake" /\ todo[n] = <<>>
    /\ \E expired \in SUBSET known[n] :
          /\ known' = [known EXCEPT ![n] = @ \ expired]
          /\ shaken' = [shaken EXCEPT ![n] = @ \ expired]
          /\ secrets' = [secrets EXCEPT ![n] = @ \ expired]
    /\ ctl' = [ctl EXCEPT ![n] = "idle"]
    /\ UNCHANGED <<period, disc, todo, ini, lis, conn>>

(***************************************************************************)
(* The exchange.  A plan is the list of steps of one side, each the        *)
(* message it receives and the message it sends ("none" for neither).      *)
(***************************************************************************)

\* handshake, lines 163-242.
IniPlan == <<[recv |-> "none", send |-> "pub"],           \* line 163
             [recv |-> "pub", send |-> "none"],            \* lines 165-178
             [recv |-> "published", send |-> "request"],   \* HC1, lines 182-199
             [recv |-> "response", send |-> "none"],       \* HC2, lines 201-213
             [recv |-> "none", send |-> "published"],      \* HS1, lines 216-223
             [recv |-> "request", send |-> "response"]>>   \* HS2, lines 225-242

LisPlan == <<[recv |-> "none", send |-> "pub"],           \* line 361
             [recv |-> "pub", send |-> "none"],            \* lines 363-376
             [recv |-> "none", send |-> "published"],      \* LS1, lines 380-387
             [recv |-> "request", send |-> "response"],    \* LS2, lines 389-406
             [recv |-> "published", send |-> "request"],   \* LC1, lines 409-426
             [recv |-> "response", send |-> "none"]>>      \* LC2, lines 428-440

\* One step of the initiator n on its connection to m.  It succeeds, with
\* the message it waits for in the socket, or a send or recv fails (times
\* out) and the side goes to close.  The public key received becomes an
\* Active-confirmed secret (addSharedSecret, line 172).
IniStep(n) ==
    /\ ini[n] # NoSession /\ ini[n].step <= Len(IniPlan)
    /\ \E m \in {ini[n].peer}, e \in {IniPlan[ini[n].step]} :
          \/ /\ e.recv # "none" => conn[<<n, m>>].down # <<>>
             /\ \E msg \in IF e.recv = "none" THEN {"none"} ELSE {Head(conn[<<n, m>>].down)} :
                  /\ conn' = [conn EXCEPT
                        ![<<n, m>>].down = IF e.recv # "none" THEN Tail(@) ELSE @,
                        ![<<n, m>>].up = IF e.send # "none" THEN Append(@, e.send) ELSE @]
                  /\ ini' = [ini EXCEPT ![n].step = @ + 1,
                                        ![n].mismatch = @ \/ (e.recv # "none" /\ msg # e.recv)]
                  /\ secrets' = IF e.recv = "pub" /\ msg = "pub"
                                THEN [secrets EXCEPT ![n] = @ \cup {m}]
                                ELSE secrets
          \/ /\ ini' = [ini EXCEPT ![n].step = Len(IniPlan) + 1]
             /\ UNCHANGED <<conn, secrets>>
    /\ UNCHANGED <<period, known, shaken, disc, ctl, todo, lis>>

\* Lines 244-257: waitClose and close, then setShakenHands.
IniClose(n) ==
    /\ ini[n] # NoSession /\ ini[n].step = Len(IniPlan) + 1
    /\ \E m \in {ini[n].peer} :
          /\ conn' = [conn EXCEPT ![<<n, m>>] = IF @.lDone THEN IdleConn ELSE [@ EXCEPT !.iDone = TRUE]]
          /\ NextDevice(n, m)
    /\ ini' = [ini EXCEPT ![n] = NoSession]
    /\ UNCHANGED <<period, known, secrets, disc, ctl, lis>>

\* Lines 326-353: acceptBT2 returns a pending connection, whose address
\* goes into discDevices_.
Accept(l) ==
    /\ lis[l] = NoSession
    /\ \E i \in Nodes \ {l} :
          /\ conn[<<i, l>>].st = "pending"
          /\ conn' = [conn EXCEPT ![<<i, l>>].st = "open"]
          /\ disc' = [disc EXCEPT ![l] = @ \cup {i}]
          /\ lis' = [lis EXCEPT ![l] = [peer |-> i, step |-> 1, mismatch |-> FALSE]]
    /\ UNCHANGED <<period, known, shaken, secrets, ctl, todo, ini>>

\* One step of the listener l on the connection from i.
LisStep(l) ==
    /\ lis[l] # NoSession /\ lis[l].step <= Len(LisPlan)
    /\ \E i \in {lis[l].peer}, e \in {LisPlan[lis[l].step]} :
          \/ /\ e.recv # "none" => conn[<<i, l>>].up # <<>>
             /\ \E msg \in IF e.recv = "none" THEN {"none"} ELSE {Head(conn[<<i, l>>].up)} :
                  /\ conn' = [conn EXCEPT
                        ![<<i, l>>].up = IF e.recv # "none" THEN Tail(@) ELSE @,
                        ![<<i, l>>].down = IF e.send # "none" THEN Append(@, e.send) ELSE @]
                  /\ lis' = [lis EXCEPT ![l].step = @ + 1,
                                        ![l].mismatch = @ \/ (e.recv # "none" /\ msg # e.recv)]
          \/ /\ lis' = [lis EXCEPT ![l].step = Len(LisPlan) + 1]
             /\ UNCHANGED conn
    /\ UNCHANGED <<period, known, shaken, secrets, disc, ctl, todo, ini>>

\* Line 444: close.
LisClose(l) ==
    /\ lis[l] # NoSession /\ lis[l].step = Len(LisPlan) + 1
    /\ \E i \in {lis[l].peer} :
          conn' = [conn EXCEPT ![<<i, l>>] = IF @.iDone THEN IdleConn ELSE [@ EXCEPT !.lDone = TRUE]]
    /\ lis' = [lis EXCEPT ![l] = NoSession]
    /\ UNCHANGED <<period, known, shaken, secrets, disc, ctl, todo, ini>>

Next ==
    \E n \in Nodes :
        \/ Discover(n) \/ VisitDevice(n) \/ EndHandshake(n)
        \/ IniStep(n) \/ IniClose(n) \/ Accept(n) \/ LisStep(n) \/ LisClose(n)

Spec == Init /\ [][Next]_vars

TypeOK ==
    /\ period \in [Nodes -> 0..PERIODS]
    /\ \A n \in Nodes : known[n] \cup shaken[n] \cup disc[n] \subseteq Nodes \ {n}
    /\ secrets \in [Nodes -> SUBSET Nodes]
    /\ ctl \in [Nodes -> {"idle", "handshake"}]
    /\ todo \in [Nodes -> Seq(Nodes)]
    /\ \A n \in Nodes : ini[n] \in {NoSession} \cup [peer : Nodes, step : 1..Len(IniPlan) + 1, mismatch : BOOLEAN]
    /\ \A n \in Nodes : lis[n] \in {NoSession} \cup [peer : Nodes, step : 1..Len(LisPlan) + 1, mismatch : BOOLEAN]
    /\ conn \in [Pairs -> Conn]

================================================================================
