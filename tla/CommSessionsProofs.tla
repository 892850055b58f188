-------------------------- MODULE CommSessionsProofs -------------------------
(***************************************************************************)
(* Proofs about CommSessions: for any flows, period, time to live and      *)
(* length of the run.                                                      *)
(***************************************************************************)
EXTENDS CommSessions, FiniteSetTheorems, TLAPS

\* The kinds of packet whose log needs the time they were sent.
StampedKinds == Telemetry \cup {"voice", "beacon"}

\* Clock, sweep and the send times: a send time is at most Ttl old when a sweep
\* has passed, and the next sweep is at most Period away.
SweepInv ==
  /\ clock \in Nat /\ nextSweep \in Nat /\ uid \in Nat
  /\ clock <= nextSweep /\ nextSweep <= clock + Period
  /\ \A p \in DOMAIN stamps :
       /\ p \in 1 .. uid
       /\ stamps[p] \in 0 .. clock
       /\ nextSweep - stamps[p] <= Ttl + Period

\* A packet under way: one that nobody has heard or missed yet still has its
\* own send time, unless it has been under way for longer than Ttl.
PacketInv(p, packet) ==
  /\ p \in 1 .. uid
  /\ packet = [flow |-> packet.flow, at |-> packet.at, ears |-> packet.ears]
  /\ packet.at \in 0 .. clock
  /\ packet.ears \subseteq Ears(packet.flow)
  /\ p \in DOMAIN stamps => stamps[p] = packet.at
  /\ packet.flow.kind \in StampedKinds /\ packet.ears = Ears(packet.flow) =>
       p \in DOMAIN stamps \/ clock - packet.at > Ttl

CommInv ==
  /\ SweepInv
  /\ \A p \in DOMAIN flight : PacketInv(p, flight[p])
  /\ DelayIsTransit

\* The tables are empty when the run starts.
LEMMA CommInvInit == CommInit => CommInv
  BY CommAssumption DEF CommInit, CommInv, SweepInv, DelayIsTransit, NoRx

\* A packet goes out: its number is new and its send time, if noted, is now.
LEMMA TransmitKeeps ==
  ASSUME CommInv, NEW f \in Flows, Transmit(f),
         \/ stamps' = Noted
         \/ UNCHANGED stamps /\ f.kind \notin StampedKinds
  PROVE  CommInv'
<1> USE DEF CommInv
<1>1. uid' = uid + 1 /\ uid' \notin DOMAIN stamps /\ uid' \notin DOMAIN flight
  BY DEF Transmit, SweepInv, PacketInv
<1>2. UNCHANGED <<clock, nextSweep, lastRx>>
  BY DEF Transmit
<1>3. SweepInv'
  BY <1>1, <1>2, CommAssumption DEF SweepInv, Noted
<1>4. ASSUME NEW p \in DOMAIN flight' PROVE PacketInv(p, flight[p])'
  <2>1. flight' = [q \in DOMAIN flight \cup {uid'} |->
                     IF q = uid' THEN [flow |-> f, at |-> clock, ears |-> Ears(f)]
                                 ELSE flight[q]]
    BY DEF Transmit
  <2>2. CASE p = uid'
    <3>1. flight'[p] = [flow |-> f, at |-> clock, ears |-> Ears(f)]
      BY <2>1, <2>2
    <3>2. /\ f.kind \in StampedKinds => p \in DOMAIN stamps'
          /\ p \in DOMAIN stamps' => stamps'[p] = clock
      BY <1>1, <2>2 DEF Noted
    <3> QED
      BY <1>1, <1>2, <2>2, <3>1, <3>2 DEF PacketInv, SweepInv, Ears
  <2>3. CASE p # uid'
    <3>1. p \in DOMAIN flight /\ flight'[p] = flight[p]
      BY <1>4, <2>1, <2>3
    <3>2. /\ p \in DOMAIN stamps' <=> p \in DOMAIN stamps
          /\ p \in DOMAIN stamps => stamps'[p] = stamps[p]
      BY <1>1, <2>3 DEF Noted
    <3>3. PacketInv(p, flight[p]) /\ uid \in Nat /\ clock' = clock
      BY <1>2, <3>1 DEF SweepInv
    <3> QED
      BY <1>1, <3>1, <3>2, <3>3 DEF PacketInv, Ears
  <2> QED
    BY <2>2, <2>3
<1>5. DelayIsTransit'
  BY <1>2 DEF DelayIsTransit
<1> QED
  BY <1>3, <1>4, <1>5

\* One node hears, or misses, a packet: the packet is gone or is not unheard
\* any more, and only its own send time may go.
LEMMA HearingKeeps ==
  ASSUME CommInv, NEW p \in DOMAIN flight, NEW r \in flight[p].ears,
         flight' = HeardBy(p, r),
         UNCHANGED <<clock, nextSweep, uid>>,
         UNCHANGED stamps \/ stamps' = Without(stamps, p)
  PROVE  SweepInv' /\ \A q \in DOMAIN flight' : PacketInv(q, flight[q])'
<1> USE DEF CommInv
<1>1. SweepInv'
  BY DEF SweepInv, Without
<1>2. ASSUME NEW q \in DOMAIN flight' PROVE PacketInv(q, flight[q])'
  <2>1. q \in DOMAIN flight
    BY <1>2 DEF HeardBy, Without
  <2>2. CASE q # p
    <3>1. flight'[q] = flight[q]
      BY <1>2, <2>1, <2>2 DEF HeardBy, Without
    <3>2. /\ q \in DOMAIN stamps' <=> q \in DOMAIN stamps
          /\ q \in DOMAIN stamps => stamps'[q] = stamps[q]
      BY <2>2 DEF Without
    <3> QED
      BY <2>1, <3>1, <3>2 DEF PacketInv, Ears
  <2>3. CASE q = p
    <3>1. flight'[p] = [flight[p] EXCEPT !.ears = @ \ {r}]
      BY <1>2, <2>3 DEF HeardBy, Without
    <3>2. PacketInv(p, flight[p])
      OBVIOUS
    <3>3. flight'[p] = [flow |-> flight[p].flow, at |-> flight[p].at,
                        ears |-> flight[p].ears \ {r}]
      BY <3>1, <3>2 DEF PacketInv
    <3>4. flight'[p].ears # Ears(flight'[p].flow)
      BY <3>2, <3>3 DEF PacketInv
    <3> QED
      BY <2>3, <3>2, <3>3, <3>4 DEF PacketInv, Ears, Without
  <2> QED
    BY <2>2, <2>3
<1> QED
  BY <1>1, <1>2

\* The delay a receiver logs, if it takes it from the send time.
LEMMA LogKeeps ==
  ASSUME CommInv, NEW p \in DOMAIN flight, NEW r \in flight[p].ears,
         NEW d, NEW delay,
         Log(p, r, d, delay),
         delay \in {RxDelay(p, 0), RxDelay(p, -1)}
           \/ flight[p].flow.kind \notin StampedKinds,
         UNCHANGED stamps \/ stamps' = Without(stamps, p)
  PROVE  CommInv'
<1>1. /\ flight' = HeardBy(p, r)
      /\ UNCHANGED <<clock, nextSweep, uid>>
      /\ lastRx' = [delay |-> delay, transit |-> clock - flight[p].at,
                    known |-> flight[p].flow.kind \in StampedKinds
                              /\ flight[p].ears = Ears(flight[p].flow)]
  BY DEF Log, StampedKinds
<1>2. SweepInv' /\ \A q \in DOMAIN flight' : PacketInv(q, flight[q])'
  BY <1>1, HearingKeeps
<1>3. PacketInv(p, flight[p])
  BY DEF CommInv
<1>4. ASSUME lastRx'.known
      PROVE  \/ lastRx'.delay = lastRx'.transit
             \/ lastRx'.delay <= 0 /\ lastRx'.transit > Ttl
  <2>1. /\ flight[p].flow.kind \in StampedKinds /\ flight[p].ears = Ears(flight[p].flow)
        /\ lastRx'.delay = delay /\ lastRx'.transit = clock - flight[p].at
    BY <1>1, <1>4
  <2>2. delay \in {RxDelay(p, 0), RxDelay(p, -1)}
    BY <2>1
  <2>3. CASE p \in DOMAIN stamps
    <3>1. delay = clock - stamps[p]
      BY <2>2, <2>3 DEF RxDelay, Stamped
    <3> QED
      BY <1>3, <2>1, <2>3, <3>1 DEF PacketInv
  <2>4. CASE p \notin DOMAIN stamps
    <3>1. delay \in {0, -1}
      BY <2>2, <2>4 DEF RxDelay, Stamped
    <3> QED
      BY <1>3, <2>1, <2>4, <3>1 DEF PacketInv
  <2> QED
    BY <2>3, <2>4
<1> QED
  BY <1>2, <1>4 DEF CommInv, DelayIsTransit

\* Every step keeps the invariant.
LEMMA CommInvStep == CommInv /\ [CommNext]_commVars => CommInv'
<1> SUFFICES ASSUME CommInv, [CommNext]_commVars
             PROVE  CommInv'
  OBVIOUS
<1>1. CASE UNCHANGED <<clock, stamps, nextSweep, flight, uid, lastRx>>
  BY <1>1 DEF CommInv, SweepInv, PacketInv, Ears, DelayIsTransit
<1>2. CASE UNCHANGED commVars \/ (\E f \in Flows : SetUp(f))
             \/ FinalizeAllCommunicationSessions
  BY <1>1, <1>2 DEF commVars, SetUp, FinalizeAllCommunicationSessions
<1>3. ASSUME NEW f \in Flows, SendNext(f) PROVE CommInv'
  <2>1. CASE SendVoiceData(f) \/ SendGpsUpdate(f) \/ SendEnvironmentalData(f)
               \/ SendVideoFeed(f) \/ SendSignalData(f) \/ BroadcastQuery(f)
    <3>1. Transmit(f) /\ stamps' = Noted
      BY <2>1 DEF SendVoiceData, SendGpsUpdate, SendEnvironmentalData, SendVideoFeed,
           SendSignalData, BroadcastQuery
    <3> QED
      BY <3>1, TransmitKeeps
  <2>2. CASE SendControlMessage(f) \/ RespondToQuery(f)
    <3>1. Transmit(f) /\ UNCHANGED stamps
      BY <2>2 DEF SendControlMessage, RespondToQuery
    <3>2. f.kind \notin StampedKinds
      BY <2>2 DEF SendControlMessage, RespondToQuery, StampedKinds, Telemetry
    <3> QED
      BY <3>1, <3>2, TransmitKeeps
  <2> QED
    BY <1>3, <2>1, <2>2 DEF SendNext
<1>4. ASSUME NEW p \in DOMAIN flight, NEW r \in flight[p].ears, ReceiveNext(p, r)
      PROVE  CommInv'
  <2>1. CASE LogVoiceData(p, r) \/ LogGPSData(p, r) \/ LogEnvironmentalData(p, r)
               \/ LogVideoData(p, r)
    <3>1. Log(p, r, DestOf(p), RxDelay(p, 0)) /\ stamps' = Without(stamps, p)
      BY <2>1 DEF LogVoiceData, LogGPSData, LogEnvironmentalData, LogVideoData
    <3> QED
      BY <3>1, LogKeeps
  <2>2. CASE OnSignalReceived(p, r)
    BY <2>2, LogKeeps DEF OnSignalReceived
  <2>3. CASE ReceiveControlMessage(p, r)
    BY <2>3, LogKeeps DEF ReceiveControlMessage
  <2>4. CASE OnSarQueryReceived(p, r)
    <3>1. flight[p].flow.kind \notin StampedKinds
      BY <2>4 DEF OnSarQueryReceived, Carries, StampedKinds, Telemetry
    <3> QED
      BY <2>4, <3>1, LogKeeps DEF OnSarQueryReceived
  <2>5. CASE OnQueryResponseReceived(p, r)
    BY <2>5, LogKeeps DEF OnQueryResponseReceived
  <2> QED
    BY <1>4, <2>1, <2>2, <2>3, <2>4, <2>5 DEF ReceiveNext
<1>5. ASSUME NEW p \in DOMAIN flight, NEW r \in flight[p].ears, Lose(p, r)
      PROVE  CommInv'
  <2>1. flight' = HeardBy(p, r) /\ UNCHANGED <<clock, nextSweep, uid, stamps, lastRx>>
    BY <1>5 DEF Lose
  <2>2. DelayIsTransit'
    BY <2>1 DEF CommInv, DelayIsTransit
  <2>3. SweepInv' /\ \A q \in DOMAIN flight' : PacketInv(q, flight[q])'
    BY <2>1, HearingKeeps
  <2> QED
    BY <2>2, <2>3 DEF CommInv
<1>6. CASE CleanupSendTimestamps
  <2>1. /\ clock = nextSweep /\ nextSweep' = clock + Period
        /\ stamps' = [p \in DOMAIN stamps \ Expired |-> stamps[p]]
        /\ UNCHANGED <<clock, uid, flight, lastRx>>
    BY <1>6 DEF CleanupSendTimestamps, SweepAgain
  <2>2. \A p \in DOMAIN stamps : p \in Expired <=> clock - stamps[p] > Ttl
    BY DEF Expired, OlderThan
  <2>3. SweepInv'
    BY <2>1, <2>2, CommAssumption DEF CommInv, SweepInv
  <2>4. ASSUME NEW p \in DOMAIN flight' PROVE PacketInv(p, flight[p])'
    <3>1. p \in DOMAIN flight /\ flight'[p] = flight[p] /\ PacketInv(p, flight[p])
      BY <2>1, <2>4 DEF CommInv
    <3>2. /\ p \in DOMAIN stamps' => p \in DOMAIN stamps /\ stamps'[p] = stamps[p]
          /\ p \in DOMAIN stamps \ DOMAIN stamps' => clock - stamps[p] > Ttl
      BY <2>1, <2>2
    <3> QED
      BY <2>1, <3>1, <3>2 DEF PacketInv, Ears
  <2>5. DelayIsTransit'
    BY <2>1 DEF CommInv, DelayIsTransit
  <2> QED
    BY <2>3, <2>4, <2>5 DEF CommInv
<1>7. CASE Tick
  <2>1. /\ clock < nextSweep /\ clock' = clock + 1
        /\ UNCHANGED <<nextSweep, uid, flight, lastRx, stamps>>
    BY <1>7 DEF Tick
  <2>2. SweepInv'
    BY <2>1, CommAssumption DEF CommInv, SweepInv
  <2>3. ASSUME NEW p \in DOMAIN flight' PROVE PacketInv(p, flight[p])'
    <3>1. p \in DOMAIN flight /\ flight'[p] = flight[p] /\ PacketInv(p, flight[p])
      BY <2>1, <2>3 DEF CommInv
    <3> QED
      BY <2>1, <3>1, CommAssumption DEF PacketInv, Ears, CommInv, SweepInv
  <2>4. DelayIsTransit'
    BY <2>1 DEF CommInv, DelayIsTransit
  <2> QED
    BY <2>2, <2>3, <2>4 DEF CommInv
<1> QED
  BY <1>2, <1>3, <1>4, <1>5, <1>6, <1>7 DEF CommNext

\* The invariant of the tables of the data set.
LEMMA CommAlways == CommSpec => []CommInv
  BY CommInvInit, CommInvStep, PTL DEF CommSpec

\* sendTimestamps does not grow with the run: whatever is lost, no send time
\* is kept for longer than its time to live and one sweep.
THEOREM StampsStayYoung == CommSpec => []StampsAreTrimmed
<1>1. CommInv => StampsAreTrimmed
  BY CommAssumption DEF CommInv, SweepInv, StampsAreTrimmed
<1> QED
  BY <1>1, CommAlways, PTL

\* A delay in the data set is the time its packet was under way, whatever was
\* lost, overtook it or was swept in between.
THEOREM DelaysAreTransits == CommSpec => []DelayIsTransit
<1>1. CommInv => DelayIsTransit
  BY DEF CommInv
<1> QED
  BY <1>1, CommAlways, PTL

-----------------------------------------------------------------------------
(* The rows.                                                               *)

\* The packets of an id that are on their way.
Flying(i) == {p \in DOMAIN flight : CommId(flight[p].flow) = i}

\* A packet of the telemetry is sent, on its way, heard or lost; it is heard
\* once at most.
FlightInv ==
  /\ transmitted \in [Ids -> Nat] /\ arrived \in [Ids -> Nat] /\ uid <= MaxPackets
  /\ \A i \in Ids : transmitted[i] <= uid
  /\ \A p \in DOMAIN flight :
       flight[p].flow \in Flows /\ transmitted[CommId(flight[p].flow)] > 0
  /\ \A i \in Ids : i.kind \in Telemetry =>
       arrived[i] + Cardinality(Flying(i)) <= transmitted[i]

\* What the session of flow f has counted, and where it points: a receiver's
\* event counts again only if it names the destination of the session.
SentOf(f) ==
  transmitted[CommId(f)] + IF f.kind \in Telemetry THEN arrived[CommId(f)] ELSE 0
Tells(f, s) ==
  /\ s = [flow |-> s.flow, dest |-> s.dest, sent |-> s.sent,
          received |-> s.received, delay |-> s.delay]
  /\ s.sent = SentOf(f)
  /\ IF f.kind \in BroadcastKinds THEN s.dest # f.source ELSE s.dest = f.dest

SessionsInv ==
  ~Ended => \A f \in Flows :
    /\ transmitted[CommId(f)] > 0 => CommId(f) \in DOMAIN sessions
    /\ CommId(f) \in DOMAIN sessions /\ f.kind # "response" =>
         Tells(f, sessions[CommId(f)])

RowsInv == CommInv /\ FlightInv /\ SessionsInv /\ RowsTellTheSent

\* Only the responses share an id.
LEMMA IdTellsFlow ==
  ASSUME NEW f \in Flows, NEW g \in Flows, CommId(f) = CommId(g), f.kind # "response"
  PROVE  f = g
<1> DEFINE Rec == [kind : Kinds, source : Nodes, dest : Nodes \cup {Broadcast}]
<1>1. f \in Rec /\ g \in Rec
  BY CommAssumption
<1>2. f.kind = g.kind
  BY DEF CommId
<1>3. <<f.source, f.dest>> = <<g.source, g.dest>>
  BY <1>2 DEF CommId
<1>4. f.source = g.source /\ f.dest = g.dest
  BY <1>3
<1> QED
  BY <1>1, <1>2, <1>4

\* The ends of a flow.
LEMMA EndsOfFlow ==
  ASSUME NEW f \in Flows
  PROVE  /\ CommId(f) \in Ids /\ CommId(f).kind = f.kind
         /\ f.source \in Nodes /\ f.source # Broadcast /\ f.dest # f.source
         /\ f.kind \in BroadcastKinds <=> f.dest = Broadcast
         /\ Ears(f) \subseteq Nodes \ {f.source}
         /\ f.kind \in Telemetry => f.dest \in Nodes /\ Ears(f) = {f.dest}
<1>1. CommId(f) \in Ids /\ CommId(f).kind = f.kind
  BY DEF Ids, CommId
<1>2. /\ f \in [kind : Kinds, source : Nodes, dest : Nodes \cup {Broadcast}]
      /\ f.dest = Broadcast <=> f.kind \in BroadcastKinds
      /\ f.dest # f.source /\ Broadcast \notin Nodes
  BY CommAssumption
<1>3. f.source \in Nodes /\ f.dest \in Nodes \cup {Broadcast}
  BY <1>2
<1>4. f.kind \in Telemetry => f.kind \notin BroadcastKinds
  BY DEF Telemetry, BroadcastKinds
<1> QED
  BY <1>1, <1>2, <1>3, <1>4 DEF Ears

\* The counters of a session do not wrap around.
LEMMA CountersFit ==
  ASSUME NEW f \in Flows
  PROVE  /\ MaxPackets < Word
         /\ f.kind \in Telemetry => MaxPackets + MaxPackets < Word
<1> DEFINE c == Cardinality(Nodes)
<1>1. /\ IsFiniteSet(Nodes) /\ c \in Nat /\ MaxPackets \in Nat /\ Word \in Nat
      /\ MaxPackets * c < Word
  BY CommAssumption, FS_CardinalityType
<1>2. c >= 1
  <2>1. {f.source} \subseteq Nodes /\ Cardinality({f.source}) = 1
    BY EndsOfFlow, FS_Singleton
  <2> QED
    BY <1>1, <2>1, FS_Subset
<1>3. f.kind \in Telemetry => c >= 2
  <2> SUFFICES ASSUME f.kind \in Telemetry PROVE c >= 2
    OBVIOUS
  <2>1. {f.source, f.dest} \subseteq Nodes /\ f.source # f.dest
    BY EndsOfFlow
  <2>2. Cardinality({f.source, f.dest}) = 2
    <3>1. {f.source, f.dest} = {f.source} \cup {f.dest} /\ f.dest \notin {f.source}
      BY <2>1
    <3>2. /\ IsFiniteSet({f.source}) /\ Cardinality({f.source}) = 1
          /\ Cardinality({f.source} \cup {f.dest}) = Cardinality({f.source}) + 1
      BY <3>1, FS_Singleton, FS_AddElement
    <3> QED
      BY <3>1, <3>2
  <2> QED
    BY <1>1, <2>1, <2>2, FS_Subset
<1> HIDE DEF c
<1>4. \A m, n \in Nat : n >= 1 => m <= m * n
  OBVIOUS
<1>5. \A m, n \in Nat : n >= 2 => m + m <= m * n
  OBVIOUS
<1>6. MaxPackets * c \in Nat
  BY <1>1
<1> QED
  BY <1>1, <1>2, <1>3, <1>4, <1>5, <1>6

\* What LogPacketEvent does to the number sent.
LEMMA CountedIs ==
  ASSUME NEW s, s = [flow |-> s.flow, dest |-> s.dest, sent |-> s.sent,
                     received |-> s.received, delay |-> s.delay],
         NEW id, NEW map, NEW dest, NEW delay
  PROVE  LET c == Counted(s, id, map, dest, delay)
         IN /\ c = [flow |-> c.flow, dest |-> c.dest, sent |-> c.sent,
                    received |-> c.received, delay |-> c.delay]
            /\ c.dest = s.dest
            /\ c.sent = IF dest \in {Broadcast, s.dest} THEN (s.sent + 1) % Word ELSE s.sent
  BY DEF Counted

\* Below the number of its values a counter is what it counts.
LEMMA SmallCount ==
  ASSUME NEW n \in Nat, n < Word
  PROVE  n % Word = n
  BY CommAssumption

\* The packets on their way are finitely many.
LEMMA FlyingIsFinite ==
  ASSUME CommInv
  PROVE  \A i : IsFiniteSet(Flying(i)) /\ Cardinality(Flying(i)) \in Nat
<1> TAKE i
<1>1. IsFiniteSet(1 .. uid) /\ Flying(i) \subseteq 1 .. uid
  BY FS_Interval DEF CommInv, SweepInv, PacketInv, Flying
<1> QED
  BY <1>1, FS_Subset, FS_CardinalityType

\* Nothing is sent when the run starts.
LEMMA RowsInvInit == CommInit => RowsInv
<1> SUFFICES ASSUME CommInit PROVE RowsInv
  OBVIOUS
<1>1. CommInv
  BY CommInvInit
<1>2. \A i : Flying(i) = {}
  BY DEF CommInit, Flying
<1>3. FlightInv
  <2>1. Cardinality({}) = 0
    BY FS_EmptySet
  <2>2. /\ transmitted \in [Ids -> Nat] /\ arrived \in [Ids -> Nat]
        /\ \A i \in Ids : transmitted[i] = 0 /\ arrived[i] = 0
        /\ uid = 0 /\ MaxPackets \in Nat
    BY CommAssumption DEF CommInit
  <2>3. \A i \in Ids : arrived[i] + Cardinality(Flying(i)) <= transmitted[i]
    BY <1>2, <2>1, <2>2
  <2>4. DOMAIN flight = {}
    BY DEF CommInit
  <2> QED
    BY <2>2, <2>3, <2>4 DEF FlightInv
<1>4. SessionsInv
  <2>1. \A f \in Flows : ~(transmitted[CommId(f)] > 0)
    BY EndsOfFlow DEF CommInit
  <2> QED
    BY <2>1 DEF CommInit, SessionsInv
<1>5. RowsTellTheSent
  BY DEF CommInit, RowsTellTheSent, Ended
<1> QED
  BY <1>1, <1>3, <1>4, <1>5 DEF RowsInv

\* Nothing that the rows depend on changes.
LEMMA RowsInvStutter ==
  ASSUME RowsInv, UNCHANGED <<sessions, flight, uid, truthVars, rows>>
  PROVE  FlightInv' /\ SessionsInv' /\ RowsTellTheSent'
  BY DEF RowsInv, FlightInv, Flying, SessionsInv, Tells, SentOf, RowsTellTheSent, Ended, truthVars

\* A session just opened tells of its flow, of which nothing was counted.
LEMMA OpenedTells ==
  ASSUME RowsInv, ~Ended, NEW f \in Flows, CommId(f) \notin DOMAIN sessions,
         f.kind # "response"
  PROVE  Tells(f, Opened(f))
<1>1. CommId(f) \in Ids /\ transmitted[CommId(f)] \in Nat /\ arrived[CommId(f)] \in Nat
  BY EndsOfFlow DEF RowsInv, FlightInv
<1>2. transmitted[CommId(f)] = 0
  BY <1>1 DEF RowsInv, SessionsInv
<1>3. f.kind \in Telemetry => arrived[CommId(f)] = 0
  <2>1. Cardinality(Flying(CommId(f))) \in Nat
    BY FlyingIsFinite DEF RowsInv
  <2>2. f.kind \in Telemetry => arrived[CommId(f)] + Cardinality(Flying(CommId(f))) <= 0
    BY <1>1, <1>2, EndsOfFlow DEF RowsInv, FlightInv
  <2> QED
    BY <1>1, <2>1, <2>2
<1>4. f.kind \in BroadcastKinds => f.dest # f.source
  BY EndsOfFlow
<1> QED
  BY <1>1, <1>2, <1>3, <1>4 DEF Tells, SentOf, Opened

\* Opening a session: nothing was counted of a flow without one.
LEMMA SetUpCounts ==
  ASSUME RowsInv, NEW f \in Flows, SetUp(f)
  PROVE  FlightInv' /\ SessionsInv' /\ RowsTellTheSent'
<1>1. /\ UNCHANGED <<flight, uid, transmitted, arrived, rows>>
      /\ CommId(f) \notin DOMAIN sessions
      /\ sessions' = [i \in DOMAIN sessions \cup {CommId(f)} |->
                        IF i = CommId(f) THEN Opened(f) ELSE sessions[i]]
  BY DEF SetUp, ToSetUp, SessionsWith, truthVars
<1>2. FlightInv' /\ RowsTellTheSent'
  BY <1>1 DEF RowsInv, FlightInv, Flying, RowsTellTheSent, Ended
<1>3. ASSUME ~Ended PROVE CommId(f) \notin DOMAIN sessions /\ f.kind # "response" => Tells(f, Opened(f))
  BY <1>3, OpenedTells DEF RowsInv
<1>4. ASSUME ~Ended, NEW g \in Flows
      PROVE  /\ transmitted[CommId(g)] > 0 => CommId(g) \in DOMAIN sessions'
             /\ CommId(g) \in DOMAIN sessions' /\ g.kind # "response" =>
                  Tells(g, sessions'[CommId(g)])
  <2>1. /\ transmitted[CommId(g)] > 0 => CommId(g) \in DOMAIN sessions
        /\ CommId(g) \in DOMAIN sessions /\ g.kind # "response" =>
             Tells(g, sessions[CommId(g)])
    BY <1>4 DEF RowsInv, SessionsInv
  <2>2. CASE CommId(g) = CommId(f)
    <3>1. g.kind # "response" => g = f
      BY <2>2, IdTellsFlow
    <3> QED
      BY <1>1, <1>3, <1>4, <2>1, <2>2, <3>1
  <2>3. CASE CommId(g) # CommId(f)
    BY <1>1, <2>1, <2>3
  <2> QED
    BY <2>2, <2>3
<1>5. SessionsInv'
  BY <1>1, <1>4 DEF SessionsInv, Tells, SentOf, Ended
<1> QED
  BY <1>2, <1>5

\* A packet sent counts once in its session.
LEMMA TransmitCounts ==
  ASSUME RowsInv, NEW f \in Flows, Transmit(f)
  PROVE  FlightInv' /\ SessionsInv' /\ RowsTellTheSent'
<1> DEFINE id == CommId(f)
<1>1. /\ ~Ended /\ uid < MaxPackets /\ uid' = uid + 1
      /\ flight' = [p \in DOMAIN flight \cup {uid'} |->
                      IF p = uid' THEN [flow |-> f, at |-> clock, ears |-> Ears(f)]
                                  ELSE flight[p]]
      /\ sessions' = [SessionsWith(f) EXCEPT
                        ![id] = Counted(@, id, IpMapWith(f), f.dest, 0)]
      /\ transmitted' = [transmitted EXCEPT ![id] = @ + 1]
      /\ arrived' = arrived /\ rows' = rows
  BY DEF Transmit
<1>2. /\ id \in Ids /\ uid \in Nat /\ uid' \notin DOMAIN flight
      /\ transmitted[id] \in Nat /\ arrived[id] \in Nat
      /\ transmitted \in [Ids -> Nat] /\ arrived \in [Ids -> Nat]
      /\ transmitted[id] <= uid
  BY <1>1, EndsOfFlow DEF RowsInv, CommInv, SweepInv, PacketInv, FlightInv
<1>3. \A i \in Ids : transmitted'[i] = IF i = id THEN transmitted[i] + 1 ELSE transmitted[i]
  BY <1>1, <1>2
<1>4. ASSUME NEW i \in Ids
      PROVE  Flying(i)' = Flying(i) \cup (IF i = id THEN {uid'} ELSE {})
  BY <1>1, <1>2 DEF Flying
<1>5. FlightInv'
  <2>1. ASSUME NEW i \in Ids, i.kind \in Telemetry
        PROVE  arrived[i] + Cardinality(Flying(i)') <= transmitted'[i]
    <3>1. IsFiniteSet(Flying(i)) /\ Cardinality(Flying(i)) \in Nat
      BY FlyingIsFinite DEF RowsInv
    <3>2. arrived[i] + Cardinality(Flying(i)) <= transmitted[i]
          /\ arrived[i] \in Nat /\ transmitted[i] \in Nat
      BY <2>1 DEF RowsInv, FlightInv
    <3>3. CASE i = id
      <4>1. uid' \notin Flying(i)
        BY <1>2 DEF Flying
      <4>2. Cardinality(Flying(i)') = Cardinality(Flying(i)) + 1
        BY <1>4, <3>1, <3>3, <4>1, FS_AddElement
      <4> QED
        BY <1>3, <3>1, <3>2, <3>3, <4>2
    <3>4. CASE i # id
      BY <1>3, <1>4, <3>2, <3>4
    <3> QED
      BY <3>3, <3>4
  <2>2. ASSUME NEW p \in DOMAIN flight'
        PROVE  flight'[p].flow \in Flows /\ transmitted'[CommId(flight'[p].flow)] > 0
    <3>1. CASE p = uid'
      BY <1>1, <1>2, <1>3, <3>1
    <3>2. CASE p # uid'
      <4>1. p \in DOMAIN flight /\ flight'[p] = flight[p]
        BY <1>1, <2>2, <3>2
      <4>2. flight[p].flow \in Flows /\ transmitted[CommId(flight[p].flow)] > 0
        BY <4>1 DEF RowsInv, FlightInv
      <4>3. CommId(flight[p].flow) \in Ids
        BY <4>2, EndsOfFlow
      <4>4. transmitted[CommId(flight[p].flow)] \in Nat
        BY <1>2, <4>3
      <4> QED
        BY <1>3, <4>1, <4>2, <4>3, <4>4
    <3> QED
      BY <3>1, <3>2
  <2>3. /\ transmitted' \in [Ids -> Nat] /\ arrived' \in [Ids -> Nat]
        /\ uid' <= MaxPackets /\ \A i \in Ids : transmitted'[i] <= uid'
    <3>1. \A i \in Ids : transmitted[i] \in Nat /\ transmitted[i] <= uid
      BY DEF RowsInv, FlightInv
    <3> QED
      BY <1>1, <1>2, <1>3, <3>1, CommAssumption
  <2> QED
    BY <1>1, <2>1, <2>2, <2>3 DEF FlightInv
<1> DEFINE old == SessionsWith(f)
<1>6. id \in DOMAIN old /\ (f.kind # "response" => Tells(f, old[id]))
  <2>1. CASE id \in DOMAIN sessions
    BY <1>1, <2>1 DEF SessionsWith, RowsInv, SessionsInv
  <2>2. CASE id \notin DOMAIN sessions
    BY <1>1, <2>2, OpenedTells DEF SessionsWith, RowsInv
  <2> QED
    BY <2>1, <2>2
<1>7. ASSUME f.kind # "response" PROVE Tells(f, sessions[CommId(f)])'
  <2> DEFINE c == Counted(old[id], id, IpMapWith(f), f.dest, 0)
  <2>1. sessions'[id] = c
    BY <1>1, <1>6
  <2>2. Tells(f, old[id])
    BY <1>6, <1>7
  <2>3. f.dest \in {Broadcast, old[id].dest}
    BY <2>2, EndsOfFlow DEF Tells
  <2> HIDE DEF old, id
  <2>4. /\ c = [flow |-> c.flow, dest |-> c.dest, sent |-> c.sent,
                received |-> c.received, delay |-> c.delay]
        /\ c.dest = old[id].dest /\ c.sent = (old[id].sent + 1) % Word
    BY <2>2, <2>3, CountedIs DEF Tells
  <2> USE DEF id
  <2>5. old[id].sent \in Nat /\ old[id].sent + 1 < Word
    <3>1. old[id].sent = transmitted[id] + IF f.kind \in Telemetry THEN arrived[id] ELSE 0
      BY <2>2 DEF Tells, SentOf
    <3>2. MaxPackets < Word /\ (f.kind \in Telemetry => MaxPackets + MaxPackets < Word)
            /\ MaxPackets \in Nat /\ Word \in Nat
      BY CountersFit, CommAssumption
    <3>3. f.kind \in Telemetry => arrived[id] <= transmitted[id]
      <4>1. Cardinality(Flying(id)) \in Nat
        BY FlyingIsFinite DEF RowsInv
      <4>2. f.kind \in Telemetry => arrived[id] + Cardinality(Flying(id)) <= transmitted[id]
        BY EndsOfFlow DEF RowsInv, FlightInv
      <4> QED
        BY <1>2, <4>1, <4>2
    <3> QED
      BY <1>1, <1>2, <3>1, <3>2, <3>3
  <2>6. c.sent = old[id].sent + 1
    BY <2>4, <2>5, SmallCount
  <2>7. SentOf(f)' = old[id].sent + 1
    BY <1>1, <1>2, <1>3, <2>2 DEF Tells, SentOf
  <2> QED
    BY <2>1, <2>2, <2>4, <2>6, <2>7 DEF Tells
<1>8. ASSUME NEW g \in Flows
      PROVE  /\ transmitted'[CommId(g)] > 0 => CommId(g) \in DOMAIN sessions'
             /\ CommId(g) \in DOMAIN sessions' /\ g.kind # "response" =>
                  Tells(g, sessions[CommId(g)])'
  <2>1. DOMAIN sessions' = DOMAIN sessions \cup {id}
    BY <1>1, <1>6 DEF SessionsWith
  <2>2. CASE CommId(g) = id
    <3>1. g.kind # "response" => g = f
      BY <2>2, IdTellsFlow
    <3> QED
      BY <1>7, <2>1, <2>2, <3>1
  <2>3. CASE CommId(g) # id
    <3>1. /\ transmitted'[CommId(g)] = transmitted[CommId(g)]
          /\ arrived'[CommId(g)] = arrived[CommId(g)]
      BY <1>1, <1>3, <2>3, EndsOfFlow
    <3>2. CommId(g) \in DOMAIN sessions => sessions'[CommId(g)] = sessions[CommId(g)]
      BY <1>1, <2>3 DEF SessionsWith
    <3>3. /\ transmitted[CommId(g)] > 0 => CommId(g) \in DOMAIN sessions
          /\ CommId(g) \in DOMAIN sessions /\ g.kind # "response" =>
               Tells(g, sessions[CommId(g)])
      BY <1>1 DEF RowsInv, SessionsInv
    <3> QED
      BY <2>1, <2>3, <3>1, <3>2, <3>3 DEF Tells, SentOf
  <2> QED
    BY <2>2, <2>3
<1>9. SessionsInv'
  BY <1>8 DEF SessionsInv
<1>10. RowsTellTheSent'
  BY <1>1 DEF RowsTellTheSent, Ended
<1> QED
  BY <1>5, <1>9, <1>10

\* One node hears, or misses, a packet: its id has no more packets on their way,
\* and one less if that was the only node it was for.
LEMMA HearingCounts ==
  ASSUME RowsInv, NEW p \in DOMAIN flight, NEW r \in flight[p].ears,
         flight' = HeardBy(p, r)
  PROVE  /\ \A q \in DOMAIN flight' : q \in DOMAIN flight /\ flight'[q].flow = flight[q].flow
         /\ \A i : Cardinality(Flying(i)') \in Nat
                     /\ Cardinality(Flying(i)') <= Cardinality(Flying(i))
         /\ \A i : flight[p].flow.kind \in Telemetry /\ i = CommId(flight[p].flow) =>
                   Cardinality(Flying(i)') = Cardinality(Flying(i)) - 1
<1>1. PacketInv(p, flight[p]) /\ flight[p].flow \in Flows
  BY DEF RowsInv, CommInv, FlightInv
<1>2. ASSUME NEW q \in DOMAIN flight'
      PROVE  q \in DOMAIN flight /\ flight'[q].flow = flight[q].flow
  <2>1. q \in DOMAIN flight
    BY <1>2 DEF HeardBy, Without
  <2>2. CASE q # p
    BY <1>2, <2>1, <2>2 DEF HeardBy, Without
  <2>3. CASE q = p
    <3>1. flight'[p] = [flight[p] EXCEPT !.ears = @ \ {r}]
      BY <1>2, <2>3 DEF HeardBy, Without
    <3> QED
      BY <1>1, <2>1, <2>3, <3>1 DEF PacketInv
  <2> QED
    BY <2>1, <2>2, <2>3
<1>3. \A i : /\ IsFiniteSet(Flying(i)) /\ Cardinality(Flying(i)) \in Nat
             /\ Flying(i)' \subseteq Flying(i)
  BY <1>2, FlyingIsFinite DEF RowsInv, Flying
<1>4. \A i : Cardinality(Flying(i)') \in Nat
               /\ Cardinality(Flying(i)') <= Cardinality(Flying(i))
  <2> TAKE i
  <2>1. IsFiniteSet(Flying(i)) /\ Flying(i)' \subseteq Flying(i)
    BY <1>3
  <2>2. IsFiniteSet(Flying(i)') /\ Cardinality(Flying(i)') <= Cardinality(Flying(i))
    BY <2>1, FS_Subset
  <2> QED
    BY <2>2, FS_CardinalityType
<1>5. ASSUME flight[p].flow.kind \in Telemetry, NEW i, i = CommId(flight[p].flow)
      PROVE  Cardinality(Flying(i)') = Cardinality(Flying(i)) - 1
  <2>1. flight[p].ears = {r}
    BY <1>1, <1>5, EndsOfFlow DEF PacketInv
  <2>2. flight' = [q \in DOMAIN flight \ {p} |-> flight[q]]
    BY <2>1 DEF HeardBy, Without
  <2>3. p \in Flying(i) /\ Flying(i)' = Flying(i) \ {p}
    BY <1>5, <2>2 DEF Flying
  <2> QED
    BY <1>3, <2>3, FS_RemoveElement
<1> QED
  BY <1>2, <1>4, <1>5

\* A packet lost counts nowhere.
LEMMA LoseCounts ==
  ASSUME RowsInv, NEW p \in DOMAIN flight, NEW r \in flight[p].ears, Lose(p, r)
  PROVE  FlightInv' /\ SessionsInv' /\ RowsTellTheSent'
<1>1. flight' = HeardBy(p, r) /\ UNCHANGED <<sessions, uid, transmitted, arrived, rows>>
  BY DEF Lose, truthVars
<1>2. SessionsInv' /\ RowsTellTheSent'
  BY <1>1 DEF RowsInv, SessionsInv, Tells, SentOf, RowsTellTheSent, Ended
<1>3. \A i \in Ids : i.kind \in Telemetry =>
        arrived[i] + Cardinality(Flying(i)') <= transmitted[i]
  <2> TAKE i \in Ids
  <2>1. /\ arrived[i] \in Nat /\ transmitted[i] \in Nat
        /\ i.kind \in Telemetry => arrived[i] + Cardinality(Flying(i)) <= transmitted[i]
    BY DEF RowsInv, FlightInv
  <2>2. Cardinality(Flying(i)') \in Nat /\ Cardinality(Flying(i)) \in Nat
          /\ Cardinality(Flying(i)') <= Cardinality(Flying(i))
    BY <1>1, HearingCounts, FlyingIsFinite DEF RowsInv
  <2> QED
    BY <2>1, <2>2
<1>4. \A q \in DOMAIN flight' :
        flight'[q].flow \in Flows /\ transmitted[CommId(flight'[q].flow)] > 0
  BY <1>1, HearingCounts DEF RowsInv, FlightInv
<1>5. FlightInv'
  BY <1>1, <1>3, <1>4 DEF RowsInv, FlightInv
<1> QED
  BY <1>2, <1>5

\* A reception counts in the session of a telemetry flow, once, and in no other,
\* for the address its receiver logs is not that of the session.
LEMMA LogCounts ==
  ASSUME RowsInv, NEW p \in DOMAIN flight, NEW r \in flight[p].ears,
         NEW d, NEW delay, Log(p, r, d, delay),
         \/ d = DestOf(p)
         \/ flight[p].flow.kind = "beacon" /\ d = r
         \/ flight[p].flow.kind = "response"
  PROVE  FlightInv' /\ SessionsInv' /\ RowsTellTheSent'
<1> DEFINE f == flight[p].flow
           id == CommId(f)
           s == sessions[id]
           c == Counted([s EXCEPT !.dest = d], id, ipMap, LoggedDest(f, r), delay)
<1>1. /\ ~Ended /\ flight' = HeardBy(p, r)
      /\ sessions' = [sessions EXCEPT ![id] = c]
      /\ arrived' = [arrived EXCEPT ![id] = @ + 1]
      /\ UNCHANGED <<uid, transmitted, rows>>
  BY DEF Log
<1>2. /\ f \in Flows /\ id \in Ids /\ id \in DOMAIN sessions
      /\ f.kind # "response" => Tells(f, s)
  BY <1>1, EndsOfFlow DEF RowsInv, FlightInv, SessionsInv
<1>3. /\ transmitted[id] \in Nat /\ arrived[id] \in Nat /\ uid \in Nat
      /\ transmitted \in [Ids -> Nat] /\ arrived \in [Ids -> Nat]
      /\ transmitted[id] <= uid /\ uid <= MaxPackets
      /\ Cardinality(Flying(id)) \in Nat
  BY <1>2, FlyingIsFinite DEF RowsInv, FlightInv, CommInv, SweepInv
<1>4. \A i \in Ids : arrived'[i] = IF i = id THEN arrived[i] + 1 ELSE arrived[i]
  BY <1>1, <1>3
<1>5. r \in Ears(f) /\ r \in Nodes /\ r # f.source
  <2>1. r \in Ears(f)
    BY DEF RowsInv, CommInv, PacketInv
  <2> QED
    BY <1>2, <2>1, EndsOfFlow
<1>6. FlightInv'
  <2>1. ASSUME NEW i \in Ids, i.kind \in Telemetry
        PROVE  arrived'[i] + Cardinality(Flying(i)') <= transmitted[i]
    <3>1. /\ arrived[i] \in Nat /\ transmitted[i] \in Nat
          /\ arrived[i] + Cardinality(Flying(i)) <= transmitted[i]
      BY <2>1 DEF RowsInv, FlightInv
    <3>2. /\ Cardinality(Flying(i)') \in Nat /\ Cardinality(Flying(i)) \in Nat
          /\ Cardinality(Flying(i)') <= Cardinality(Flying(i))
      BY <1>1, HearingCounts, FlyingIsFinite DEF RowsInv
    <3>3. CASE i = id
      <4>1. f.kind \in Telemetry
        BY <1>2, <2>1, <3>3, EndsOfFlow
      <4>2. Cardinality(Flying(i)') = Cardinality(Flying(i)) - 1
        BY <1>1, <3>3, <4>1, HearingCounts
      <4> QED
        BY <1>4, <3>1, <3>2, <3>3, <4>2
    <3>4. CASE i # id
      BY <1>4, <3>1, <3>2, <3>4
    <3> QED
      BY <3>3, <3>4
  <2>2. \A q \in DOMAIN flight' :
          flight'[q].flow \in Flows /\ transmitted[CommId(flight'[q].flow)] > 0
    BY <1>1, HearingCounts DEF RowsInv, FlightInv
  <2>3. arrived' \in [Ids -> Nat]
    BY <1>1, <1>2, <1>3
  <2> QED
    BY <1>1, <2>1, <2>2, <2>3 DEF RowsInv, FlightInv
<1>7. ASSUME f.kind # "response"
      PROVE  /\ c = [flow |-> c.flow, dest |-> c.dest, sent |-> c.sent,
                     received |-> c.received, delay |-> c.delay]
             /\ c.sent = transmitted[id] + IF f.kind \in Telemetry THEN arrived[id] + 1 ELSE 0
             /\ IF f.kind \in BroadcastKinds THEN c.dest # f.source ELSE c.dest = f.dest
  <2> DEFINE pointed == [s EXCEPT !.dest = d]
  <2>1. Tells(f, s)
    BY <1>2, <1>7
  <2>2. /\ pointed = [flow |-> pointed.flow, dest |-> pointed.dest, sent |-> pointed.sent,
                      received |-> pointed.received, delay |-> pointed.delay]
        /\ pointed.dest = d /\ pointed.sent = s.sent
    BY <2>1 DEF Tells
  <2>3. IF f.kind \in BroadcastKinds THEN d # f.source ELSE d = f.dest
    <3>1. CASE d = DestOf(p)
      BY <2>1, <3>1 DEF Tells, DestOf
    <3>2. CASE f.kind = "beacon" /\ d = r
      BY <1>5, <3>2 DEF BroadcastKinds
    <3> QED
      BY <1>7, <3>1, <3>2
  <2>4. s.sent = transmitted[id] + IF f.kind \in Telemetry THEN arrived[id] ELSE 0
    BY <2>1 DEF Tells, SentOf
  <2>5. LoggedDest(f, r) \in {Broadcast, d} <=> f.kind \in Telemetry
    <3>1. CASE f.kind \in Telemetry
      <4>1. f.kind \notin BroadcastKinds /\ r = f.dest
        BY <1>2, <1>5, <3>1, EndsOfFlow DEF Telemetry, BroadcastKinds
      <4> QED
        BY <2>3, <3>1, <4>1 DEF LoggedDest
    <3>2. CASE f.kind \notin Telemetry
      BY <1>2, <2>3, <3>2, EndsOfFlow DEF LoggedDest
    <3> QED
      BY <3>1, <3>2
  <2> HIDE DEF pointed
  <2>6. /\ c = [flow |-> c.flow, dest |-> c.dest, sent |-> c.sent,
                received |-> c.received, delay |-> c.delay]
        /\ c.dest = d
        /\ c.sent = IF f.kind \in Telemetry THEN (s.sent + 1) % Word ELSE s.sent
    <3> DEFINE k == Counted(pointed, id, ipMap, LoggedDest(f, r), delay)
    <3>1. c = k
      BY DEF pointed
    <3>2. /\ k = [flow |-> k.flow, dest |-> k.dest, sent |-> k.sent,
                  received |-> k.received, delay |-> k.delay]
          /\ k.dest = pointed.dest
          /\ k.sent = IF LoggedDest(f, r) \in {Broadcast, pointed.dest}
                        THEN (pointed.sent + 1) % Word ELSE pointed.sent
      <4> HIDE DEF f, id
      <4> QED
        BY <2>2, CountedIs
    <3> HIDE DEF k, c, f, s
    <3> QED
      BY <2>2, <2>5, <3>1, <3>2
  <2>7. f.kind \in Telemetry => s.sent \in Nat /\ s.sent + 1 < Word
    <3>1. MaxPackets \in Nat /\ Word \in Nat /\ (f.kind \in Telemetry => MaxPackets + MaxPackets < Word)
      BY <1>2, CountersFit, CommAssumption
    <3>2. f.kind \in Telemetry =>
            /\ arrived[id] + Cardinality(Flying(id)) <= transmitted[id]
            /\ Cardinality(Flying(id)) >= 1
      <4>1. ASSUME f.kind \in Telemetry PROVE \E n \in Nat : n = Cardinality(Flying(id)) - 1
        <5>1. PICK i : i = id
          OBVIOUS
        <5>2. Cardinality(Flying(i)') = Cardinality(Flying(i)) - 1 /\ Cardinality(Flying(i)') \in Nat
          BY <1>1, <4>1, <5>1, HearingCounts
        <5> QED
          BY <5>1, <5>2
      <4>2. f.kind \in Telemetry => arrived[id] + Cardinality(Flying(id)) <= transmitted[id]
        BY <1>2, EndsOfFlow DEF RowsInv, FlightInv
      <4> QED
        BY <1>3, <4>1, <4>2
    <3> QED
      BY <1>3, <2>4, <3>1, <3>2
  <2>8. f.kind \in Telemetry => (s.sent + 1) % Word = s.sent + 1
    BY <2>7, SmallCount
  <2> HIDE DEF c, s, f, id
  <2>9. c.sent = transmitted[id] + IF f.kind \in Telemetry THEN arrived[id] + 1 ELSE 0
    BY <1>3, <2>4, <2>6, <2>8
  <2> QED
    BY <2>3, <2>6, <2>9
<1>8. ASSUME NEW g \in Flows
      PROVE  /\ transmitted'[CommId(g)] > 0 => CommId(g) \in DOMAIN sessions'
             /\ CommId(g) \in DOMAIN sessions' /\ g.kind # "response" =>
                  Tells(g, sessions[CommId(g)])'
  <2>1. /\ transmitted[CommId(g)] > 0 => CommId(g) \in DOMAIN sessions
        /\ CommId(g) \in DOMAIN sessions /\ g.kind # "response" =>
             Tells(g, sessions[CommId(g)])
    BY <1>1 DEF RowsInv, SessionsInv
  <2>2. CASE CommId(g) = id
    <3>1. g.kind # "response" => g = f
      BY <1>2, <2>2, IdTellsFlow
    <3>2. sessions'[id] = c
      BY <1>1, <1>2
    <3>3. arrived'[id] = arrived[id] + 1 /\ DOMAIN sessions' = DOMAIN sessions
      BY <1>1, <1>2, <1>4
    <3>4. ASSUME f.kind # "response", g = f
          PROVE  Tells(g, sessions[CommId(g)])'
      <4>1. sessions[CommId(g)]' = c
        BY <2>2, <3>2
      <4>2. SentOf(g)' = transmitted[id] + IF f.kind \in Telemetry THEN arrived[id] + 1 ELSE 0
        BY <1>1, <2>2, <3>3, <3>4 DEF SentOf
      <4> HIDE DEF c, f
      <4> QED
        BY <1>7, <3>4, <4>1, <4>2 DEF Tells
    <3> QED
      BY <1>1, <2>1, <2>2, <3>1, <3>3, <3>4
  <2>3. CASE CommId(g) # id
    <3>1. /\ sessions'[CommId(g)] = sessions[CommId(g)] \/ CommId(g) \notin DOMAIN sessions
          /\ arrived'[CommId(g)] = arrived[CommId(g)]
      BY <1>1, <1>4, <2>3, EndsOfFlow
    <3> QED
      BY <1>1, <2>1, <3>1 DEF Tells, SentOf
  <2> QED
    BY <2>2, <2>3
<1> QED
  BY <1>1, <1>6, <1>8 DEF SessionsInv, RowsTellTheSent, Ended

\* The rows are made of the sessions; nothing is open any more.
LEMMA FinalizeCounts ==
  ASSUME RowsInv, FinalizeAllCommunicationSessions
  PROVE  FlightInv' /\ SessionsInv' /\ RowsTellTheSent'
<1>1. /\ ~Ended /\ rows' = [i \in DOMAIN sessions |-> Row(sessions[i])]
      /\ sessions' = <<>> /\ UNCHANGED <<flight, uid, transmitted, arrived>>
  BY DEF FinalizeAllCommunicationSessions, truthVars
<1>2. FlightInv'
  BY <1>1 DEF RowsInv, FlightInv, Flying
<1>3. ASSUME NEW f \in Flows
      PROVE  /\ transmitted[CommId(f)] > 0 => CommId(f) \in DOMAIN sessions
             /\ CommId(f) \in DOMAIN sessions /\ f.kind # "response" =>
                  sessions[CommId(f)].sent = SentOf(f)
  BY <1>1 DEF RowsInv, SessionsInv, Tells
<1>4. RowsTellTheSent'
  <2>1. ASSUME NEW i \in Ids, transmitted[i] > 0, i.kind # "response"
        PROVE  /\ i \in DOMAIN rows'
               /\ rows'[i].sent = transmitted[i]
                                    + IF i.kind \in Telemetry THEN arrived[i] ELSE 0
    <3>1. PICK f \in Flows : i = CommId(f) /\ i.kind = f.kind
      BY EndsOfFlow DEF Ids
    <3>2. i \in DOMAIN sessions /\ sessions[i].sent = SentOf(f)
      BY <1>3, <2>1, <3>1
    <3> QED
      BY <1>1, <3>1, <3>2 DEF Row, SentOf
  <2> QED
    BY <1>1, <2>1 DEF RowsTellTheSent
<1>5. SessionsInv'
  <2>1. CASE DOMAIN sessions = {}
    <3>1. \A f \in Flows : ~(transmitted[CommId(f)] > 0) /\ CommId(f) \notin DOMAIN sessions'
      BY <1>1, <1>3, <2>1
    <3> QED
      BY <1>1, <3>1 DEF SessionsInv
  <2>2. CASE DOMAIN sessions # {}
    <3>1. rows' # <<>>
      BY <1>1, <2>2
    <3> QED
      BY <3>1 DEF SessionsInv, Ended
  <2> QED
    BY <2>1, <2>2
<1> QED
  BY <1>2, <1>4, <1>5

\* Every step keeps the invariant of the rows.
LEMMA RowsInvStep == RowsInv /\ [CommNext]_commVars => RowsInv'
<1> SUFFICES ASSUME RowsInv, [CommNext]_commVars
             PROVE  RowsInv'
  OBVIOUS
<1>0. CommInv'
  BY CommInvStep DEF RowsInv
<1> SUFFICES FlightInv' /\ SessionsInv' /\ RowsTellTheSent'
  BY <1>0 DEF RowsInv
<1>1. CASE UNCHANGED commVars \/ CleanupSendTimestamps \/ Tick
  <2>1. UNCHANGED <<sessions, flight, uid, truthVars, rows>>
    BY <1>1 DEF commVars, truthVars, CleanupSendTimestamps, Tick
  <2> QED
    BY <2>1, RowsInvStutter
<1>2. ASSUME NEW f \in Flows, SetUp(f) PROVE FlightInv' /\ SessionsInv' /\ RowsTellTheSent'
  BY <1>2, SetUpCounts
<1>3. ASSUME NEW f \in Flows, SendNext(f) PROVE FlightInv' /\ SessionsInv' /\ RowsTellTheSent'
  <2>1. Transmit(f)
    BY <1>3 DEF SendNext, SendVoiceData, SendControlMessage, SendGpsUpdate,
         SendEnvironmentalData, SendVideoFeed, SendSignalData, BroadcastQuery, RespondToQuery
  <2> QED
    BY <2>1, TransmitCounts
<1>4. ASSUME NEW p \in DOMAIN flight, NEW r \in flight[p].ears, ReceiveNext(p, r)
      PROVE  FlightInv' /\ SessionsInv' /\ RowsTellTheSent'
  <2>1. CASE LogVoiceData(p, r) \/ ReceiveControlMessage(p, r) \/ LogGPSData(p, r)
               \/ LogEnvironmentalData(p, r) \/ LogVideoData(p, r)
    <3>1. Log(p, r, DestOf(p), RxDelay(p, 0))
      BY <2>1 DEF LogVoiceData, ReceiveControlMessage, LogGPSData, LogEnvironmentalData,
           LogVideoData
    <3> QED
      BY <3>1, LogCounts
  <2>2. CASE OnSignalReceived(p, r)
    <3>1. flight[p].flow.kind = "beacon" /\ Log(p, r, r, RxDelay(p, -1))
      BY <2>2 DEF OnSignalReceived, Carries
    <3> QED
      BY <3>1, LogCounts
  <2>3. CASE OnSarQueryReceived(p, r)
    <3>1. Log(p, r, DestOf(p), 0)
      BY <2>3 DEF OnSarQueryReceived
    <3> QED
      BY <3>1, LogCounts
  <2>4. CASE OnQueryResponseReceived(p, r)
    <3>1. /\ flight[p].flow.kind = "response"
          /\ Log(p, r, flight[p].flow.source, RxDelay(p, 0))
      BY <2>4 DEF OnQueryResponseReceived, Carries
    <3> QED
      BY <3>1, LogCounts
  <2> QED
    BY <1>4, <2>1, <2>2, <2>3, <2>4 DEF ReceiveNext
<1>5. ASSUME NEW p \in DOMAIN flight, NEW r \in flight[p].ears, Lose(p, r)
      PROVE  FlightInv' /\ SessionsInv' /\ RowsTellTheSent'
  BY <1>5, LoseCounts
<1>6. CASE FinalizeAllCommunicationSessions
  BY <1>6, FinalizeCounts
<1> QED
  BY <1>1, <1>2, <1>3, <1>4, <1>5, <1>6 DEF CommNext

\* The rows of FinalizeAllCommunicationSessions: under every id but those of
\* the responses, as many packets as were sent, and for the telemetry those
\* that arrived once more; no id that was used is without its row.
THEOREM RowsCountTheSent == CommSpec => []RowsTellTheSent
<1>1. CommSpec => []RowsInv
  BY RowsInvInit, RowsInvStep, PTL DEF CommSpec
<1>2. RowsInv => RowsTellTheSent
  BY DEF RowsInv
<1> QED
  BY <1>1, <1>2, PTL
=============================================================================
