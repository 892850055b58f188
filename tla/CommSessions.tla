---------------------------- MODULE CommSessions ----------------------------
(***************************************************************************)
(* The communication data set: every flow between two nodes has a session, *)
(* looked up by a communication id that its packets carry; LogPacketEvent  *)
(* counts a packet when it is sent and again when it is received, the      *)
(* delay comes from a table of send times that a periodic sweep trims, and *)
(* after the run every session becomes a row with its loss rate.           *)
(*                                                                         *)
(* The kinds of flow differ in how their handlers use the tables: voice,   *)
(* positions, environment and video sent to the base, its control          *)
(* messages, beacons, queries and their responses.  A flow sends when its  *)
(* timer says so, which is any time here: neither the intervals nor the    *)
(* reasons to stop matter to the data set.                                 *)
(***************************************************************************)
EXTENDS Integers, FiniteSets

CONSTANTS
  Nodes,      \* node numbers, which also stand for the addresses
  Broadcast,  \* 255.255.255.255
  Flows,      \* what the scenario sends: kind, source and destination
  Period,     \* between two sweeps of the send times
  Ttl,        \* how long a sweep keeps a send time
  Word,       \* number of values of a counter
  MaxPackets, \* bound on the packets sent
  MaxTime     \* when the run ends

Telemetry == {"gps", "env", "video"}
Kinds == Telemetry \cup {"voice", "control", "beacon", "query", "response"}
BroadcastKinds == {"beacon", "query"}

ASSUME CommAssumption ==
  /\ Nodes \subseteq Nat /\ IsFiniteSet(Nodes)
  /\ Broadcast \notin Nodes
  /\ \A f \in Flows :
       /\ f \in [kind : Kinds, source : Nodes, dest : Nodes \cup {Broadcast}]
       /\ f.dest = Broadcast <=> f.kind \in BroadcastKinds
       /\ f.dest # f.source
  /\ {Period, Ttl, Word} \subseteq Nat \ {0}
  /\ MaxPackets \in Nat /\ MaxPackets * Cardinality(Nodes) < Word
  /\ MaxTime \in Nat

\* The ids of the flows: from the table of voice pairs, from the number of a
\* node, and, of a response, from the sum of the numbers of its two ends.
CommId(f) ==
  IF f.kind = "response"
    THEN [kind |-> f.kind, of |-> <<f.source + f.dest>>]
    ELSE [kind |-> f.kind, of |-> <<f.source, f.dest>>]

Ids == {CommId(f) : f \in Flows}
Addresses == Nodes \cup {Broadcast}

VARIABLES
  clock,       \* Simulator::Now, in whole units
  sessions,    \* activeSessions
  ipMap,       \* ipToCommIdMap
  stamps,      \* sendTimestamps, by packet
  nextSweep,   \* when CleanupSendTimestamps runs next
  flight,      \* packets on their way, with the nodes that may yet hear them
  uid,         \* packets sent so far
  lastRx,      \* the last reception logged, with the truth about it
  transmitted, \* packets sent of each id
  arrived,     \* packets received of each id
  rows         \* rows written for the sessions, after the run

commVars == <<clock, sessions, ipMap, stamps, nextSweep, flight, uid, lastRx,
              transmitted, arrived, rows>>
truthVars == <<transmitted, arrived>>

Session == [flow : Flows, dest : Addresses, sent : 0 .. Word - 1,
            received : 0 .. Word - 1, delay : Int]
Packet == [flow : Flows, at : 0 .. MaxTime, ears : SUBSET Nodes]
NoRx == [delay |-> 0, transit |-> 0, known |-> FALSE]

CommTypeOK ==
  /\ clock \in 0 .. MaxTime
  /\ DOMAIN sessions \subseteq Ids
  /\ \A i \in DOMAIN sessions : sessions[i] \in Session
  /\ DOMAIN ipMap \subseteq Addresses
  /\ \A a \in DOMAIN ipMap : ipMap[a] \in DOMAIN sessions
  /\ \A p \in DOMAIN stamps : p \in 1 .. uid /\ stamps[p] \in 0 .. clock
  /\ \A p \in DOMAIN flight : p \in 1 .. uid /\ flight[p] \in Packet
  /\ nextSweep \in clock .. clock + Period
  /\ uid \in 0 .. MaxPackets
  /\ \A i \in Ids : transmitted[i] \in 0 .. uid /\ arrived[i] \in Nat
  /\ DOMAIN rows \subseteq Ids

-----------------------------------------------------------------------------
(* The functions of comm_dataset.cc, on the two tables.                    *)

\* StartCommunicationSession: an id already in use keeps its session.
SamePort(f) == {sessions[i].flow.source :
                  i \in {j \in DOMAIN sessions : sessions[j].flow.kind = f.kind}}
Mapped(f) ==
  {f.source, f.dest} \cup IF f.dest = Broadcast THEN SamePort(f) ELSE {}
Opened(f) ==
  [flow |-> f, dest |-> f.dest, sent |-> 0, received |-> 0, delay |-> 0]
SessionsWith(f) ==
  IF CommId(f) \in DOMAIN sessions THEN sessions
  ELSE [i \in DOMAIN sessions \cup {CommId(f)} |->
          IF i = CommId(f) THEN Opened(f) ELSE sessions[i]]
IpMapWith(f) ==
  IF CommId(f) \in DOMAIN sessions THEN ipMap
  ELSE [a \in DOMAIN ipMap \cup Mapped(f) |->
          IF a \in Mapped(f) THEN CommId(f) ELSE ipMap[a]]

\* LogPacketEvent, with the destination address its caller passes: a broadcast
\* counts one reception per address mapped to the id, a packet to the
\* destination of the session counts as sent and as received.
Listeners(id, map) == Cardinality({a \in DOMAIN map : map[a] = id})
Counted(s, id, map, dest, delay) ==
  IF dest \notin {Broadcast, s.dest} THEN s
  ELSE [s EXCEPT !.sent = (@ + 1) % Word,
                 !.delay = @ + delay,
                 !.received = (@ + IF dest = Broadcast
                                     THEN Listeners(id, map) ELSE 1) % Word]

\* FinalizeCommunicationSession.
Row(s) == [sent |-> s.sent, lost |-> (s.sent - s.received) % Word]

-----------------------------------------------------------------------------
(* The flows.                                                              *)

CommInit ==
  /\ clock = 0 /\ nextSweep = Period /\ uid = 0
  /\ sessions = <<>> /\ ipMap = <<>> /\ stamps = <<>> /\ flight = <<>>
  /\ lastRx = NoRx
  /\ transmitted = [i \in Ids |-> 0] /\ arrived = [i \in Ids |-> 0]
  /\ rows = <<>>

Ended == rows # <<>>

\* The set-up functions of the scenario, one kind after the other, open the
\* sessions of the flows that do not open theirs with every packet.
SetUpRank == [gps |-> 1, env |-> 2, video |-> 3, control |-> 4, beacon |-> 5,
              query |-> 6]
ToSetUp == {f \in Flows : f.kind \in DOMAIN SetUpRank
                            /\ CommId(f) \notin DOMAIN sessions}
SetUp(f) ==
  /\ clock = 0
  /\ f \in ToSetUp
  /\ \A g \in ToSetUp : SetUpRank[f.kind] <= SetUpRank[g.kind]
  /\ sessions' = SessionsWith(f)
  /\ ipMap' = IpMapWith(f)
  /\ UNCHANGED <<clock, stamps, nextSweep, flight, uid, lastRx, truthVars, rows>>

-----------------------------------------------------------------------------
(* Sending.  A kind of packet with a delay in its log has its time noted.    *)

Noted == [p \in DOMAIN stamps \cup {uid'} |->
            IF p = uid' THEN clock ELSE stamps[p]]
Ears(f) == IF f.dest = Broadcast THEN Nodes \ {f.source} ELSE {f.dest}
Transmit(f) ==
  LET id == CommId(f) IN
  /\ ~Ended /\ clock > 0 /\ uid < MaxPackets
  /\ uid' = uid + 1
  /\ flight' = [p \in DOMAIN flight \cup {uid'} |->
                  IF p = uid' THEN [flow |-> f, at |-> clock, ears |-> Ears(f)]
                              ELSE flight[p]]
  /\ ipMap' = IpMapWith(f)
  /\ sessions' = [SessionsWith(f) EXCEPT
                    ![id] = Counted(@, id, IpMapWith(f), f.dest, 0)]
  /\ transmitted' = [transmitted EXCEPT ![id] = @ + 1]
  /\ UNCHANGED <<clock, nextSweep, lastRx, arrived, rows>>

SendVoiceData(f) == f.kind = "voice" /\ Transmit(f) /\ stamps' = Noted

SendControlMessage(f) ==
  f.kind = "control" /\ Transmit(f) /\ UNCHANGED stamps

SendGpsUpdate(f) == f.kind = "gps" /\ Transmit(f) /\ stamps' = Noted

SendEnvironmentalData(f) == f.kind = "env" /\ Transmit(f) /\ stamps' = Noted

\* SendVideoFeed and StreamVideoFeed.
SendVideoFeed(f) == f.kind = "video" /\ Transmit(f) /\ stamps' = Noted

SendSignalData(f) == f.kind = "beacon" /\ Transmit(f) /\ stamps' = Noted

BroadcastQuery(f) == f.kind = "query" /\ Transmit(f) /\ stamps' = Noted

\* The end of OnSarQueryReceived, at any time after a query.
RespondToQuery(f) == f.kind = "response" /\ Transmit(f) /\ UNCHANGED stamps

-----------------------------------------------------------------------------
(* Receiving, by node r.  The destination that most receivers pass on to   *)
(* LogPacketEvent is the address of the sender; three pass on their own.   *)

Stamped(p) == p \in DOMAIN stamps
RxDelay(p, unknown) == IF Stamped(p) THEN clock - stamps[p] ELSE unknown
Without(f, p) == [q \in DOMAIN f \ {p} |-> f[q]]
HeardBy(p, r) ==
  IF flight[p].ears = {r} THEN Without(flight, p)
  ELSE [flight EXCEPT ![p].ears = @ \ {r}]
LoggedDestReceiver(f, r) == r
LoggedDest(f, r) == IF f.kind \in Telemetry THEN r ELSE f.source
\* The common part: the session with its destination d, and the delay.
Log(p, r, d, delay) ==
  LET f == flight[p].flow  id == CommId(f) IN
  /\ ~Ended /\ r \in flight[p].ears
  /\ sessions' = [sessions EXCEPT
       ![id] = Counted([@ EXCEPT !.dest = d], id, ipMap, LoggedDest(f, r), delay)]
  /\ flight' = HeardBy(p, r)
  /\ lastRx' = [delay |-> delay, transit |-> clock - flight[p].at,
                known |-> f.kind \in Telemetry \cup {"voice", "beacon"}
                          /\ flight[p].ears = Ears(f)]
  /\ arrived' = [arrived EXCEPT ![id] = @ + 1]
  /\ UNCHANGED <<clock, ipMap, nextSweep, uid, transmitted, rows>>

DestOf(p) == sessions[CommId(flight[p].flow)].dest
Carries(p, kind) == flight[p].flow.kind = kind

LogVoiceData(p, r) ==
  /\ Carries(p, "voice")
  /\ Log(p, r, DestOf(p), RxDelay(p, 0))
  /\ stamps' = Without(stamps, p)

ReceiveControlMessage(p, r) ==
  /\ Carries(p, "control")
  /\ Log(p, r, DestOf(p), RxDelay(p, 0))
  /\ UNCHANGED stamps

LogGPSData(p, r) ==
  /\ Carries(p, "gps")
  /\ Log(p, r, DestOf(p), RxDelay(p, 0))
  /\ stamps' = Without(stamps, p)

LogEnvironmentalData(p, r) ==
  /\ Carries(p, "env")
  /\ Log(p, r, DestOf(p), RxDelay(p, 0))
  /\ stamps' = Without(stamps, p)

LogVideoData(p, r) ==
  /\ Carries(p, "video")
  /\ Log(p, r, DestOf(p), RxDelay(p, 0))
  /\ stamps' = Without(stamps, p)

\* The first receiver of a beacon removes its send time, the others find none.
OnSignalReceived(p, r) ==
  /\ Carries(p, "beacon")
  /\ Log(p, r, r, RxDelay(p, -1))
  /\ stamps' = Without(stamps, p)

OnSarQueryReceived(p, r) ==
  /\ Carries(p, "query")
  /\ Log(p, r, DestOf(p), 0)
  /\ UNCHANGED stamps

OnQueryResponseReceived(p, r) ==
  /\ Carries(p, "response")
  /\ Log(p, r, flight[p].flow.source, RxDelay(p, 0))
  /\ stamps' = Without(stamps, p)

\* A datagram is lost, for one of the nodes that might have heard it.
Lose(p, r) ==
  /\ ~Ended /\ r \in flight[p].ears
  /\ flight' = HeardBy(p, r)
  /\ UNCHANGED <<clock, sessions, ipMap, stamps, nextSweep, uid, lastRx,
                 truthVars, rows>>

-----------------------------------------------------------------------------
(* Time, the sweep and the end of the run.                                 *)

OlderThan(age) == {p \in DOMAIN stamps : clock - stamps[p] > age}
ExpiredEarly == OlderThan(Ttl - Period)
Expired == OlderThan(Ttl)
SweepOnce == clock + MaxTime
SweepAgain == clock + Period
CleanupSendTimestamps ==
  /\ ~Ended /\ clock = nextSweep
  /\ stamps' = [p \in DOMAIN stamps \ Expired |-> stamps[p]]
  /\ nextSweep' = SweepAgain
  /\ UNCHANGED <<clock, sessions, ipMap, flight, uid, lastRx, truthVars, rows>>

Tick ==
  /\ ~Ended /\ clock < MaxTime /\ clock < nextSweep
  /\ clock = 0 => ToSetUp = {}
  /\ clock' = clock + 1
  /\ UNCHANGED <<sessions, ipMap, stamps, nextSweep, flight, uid, lastRx,
                 truthVars, rows>>

\* FinalizeAllCommunicationSessions, after Simulator::Run: a row per session,
\* and neither the session nor an address mapped to it remains.
Unfinalized(ids) == {a \in DOMAIN ipMap : ipMap[a] \notin ids}
FinalizeAllCommunicationSessions ==
  /\ ~Ended /\ clock = MaxTime /\ sessions # <<>>
  /\ rows' = [i \in DOMAIN sessions |-> Row(sessions[i])]
  /\ sessions' = <<>>
  /\ ipMap' = [a \in Unfinalized(DOMAIN sessions) |-> ipMap[a]]
  /\ UNCHANGED <<clock, stamps, nextSweep, flight, uid, lastRx, truthVars>>

SendNext(f) ==
  \/ SendVoiceData(f)
  \/ SendControlMessage(f)
  \/ SendGpsUpdate(f)
  \/ SendEnvironmentalData(f)
  \/ SendVideoFeed(f)
  \/ SendSignalData(f)
  \/ BroadcastQuery(f)
  \/ RespondToQuery(f)

ReceiveNext(p, r) ==
  \/ LogVoiceData(p, r)
  \/ ReceiveControlMessage(p, r)
  \/ LogGPSData(p, r)
  \/ LogEnvironmentalData(p, r)
  \/ LogVideoData(p, r)
  \/ OnSignalReceived(p, r)
  \/ OnSarQueryReceived(p, r)
  \/ OnQueryResponseReceived(p, r)

CommNext ==
  \/ \E f \in Flows : SetUp(f)
  \/ \E f \in Flows : SendNext(f)
  \/ \E p \in DOMAIN flight : \E r \in flight[p].ears : ReceiveNext(p, r)
  \/ \E p \in DOMAIN flight : \E r \in flight[p].ears : Lose(p, r)
  \/ CleanupSendTimestamps
  \/ Tick
  \/ FinalizeAllCommunicationSessions

CommSpec == CommInit /\ [][CommNext]_commVars

-----------------------------------------------------------------------------
(* Properties.                                                             *)

\* No send time outlives its time to live by more than a sweep, whatever is
\* lost: this is what keeps sendTimestamps from growing with the run.
StampsAreTrimmed ==
  \A p \in DOMAIN stamps : clock - stamps[p] <= Ttl + Period

\* The delay logged with the first reception of a stamped packet is the time
\* it was under way, unless that was longer than a sweep lets its stamp live.
DelayIsTransit ==
  lastRx.known =>
    \/ lastRx.delay = lastRx.transit
    \/ lastRx.delay <= 0 /\ lastRx.transit > Ttl

\* LogPacketEvent counts whatever it is told of, but the row of an id has as
\* many packets as were sent under it, and every id that was used has its row:
\* receptions do not count, except those of the telemetry, which count once.
\* (The responses are left out: their session is pointed at their sender.)
RowsTellTheSent ==
  Ended => \A i \in Ids :
    transmitted[i] > 0 /\ i.kind # "response" =>
      /\ i \in DOMAIN rows
      /\ rows[i].sent = transmitted[i]
                          + IF i.kind \in Telemetry THEN arrived[i] ELSE 0

\* The row of a voice flow or of the control messages says how many of its
\* packets did not arrive: comm_dataset.cc:78, "Total packets received".
LossIsSeen ==
  \A i \in DOMAIN rows :
    i.kind \in {"voice", "control"} =>
      rows[i].lost = transmitted[i] - arrived[i]
=============================================================================
