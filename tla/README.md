# A model of the search-and-rescue simulation

SAR-WEATHER is an ns-3 program. Drones, helicopters, vehicles and foot teams
search for civilians in bad weather, report them to a base station over an ad
hoc network, and bring them home. The simulator under `src/src` is ns-3 with two
additions (weather and weather-aware mobility); the program's own logic is the
set of handlers in `src/helperfiles/SAR_operations_logs_weather`, which the
scenarios `src/scratch/V3.cc` and `V4.cc` schedule. This directory models those
handlers in TLA+, checks them with TLC on small instances and proves the central
results with TLAPS for any number of civilians and rescuers.

File names without a directory below are in
`src/helperfiles/SAR_operations_logs_weather`.

## 1. The system

### How it runs

One thread takes scheduled events in time order. An event is a timer of the
program (`Simulator::Schedule`), the arrival of a datagram, or an arrival at a
waypoint. Handlers therefore never run at the same time; what interleaves is
whole handlers, and everything the handlers of different rescuers share is global
tables (`variables.cc`). The base station and the rescuers read and write the
*same* tables: a rescuer that assigns itself a civilian writes
`rescueAssignments` at once, with no message. Only discoveries travel over the
network, where they are lost, delayed and reordered.

A handler can be a long cascade of calls, and one cascade closes on itself:

    AssignRescuer -> ConvergeOnCivilian -> MoveTowardBaseStation
      -> MarkCivilianAsSafe -> TryAssignPendingCivilians -> AssignRescuer -> ...

when the rescuer already stands next to the civilian and both are at the base.

### Components

| Component | State it keeps | Operations | Talks to |
|---|---|---|---|
| Rescue dispatch at the base (`convergence.cc`, `rescue.cc`) | `rescueAssignments`, `assignedSarNodes`, `pendingCivilians`, `g_civilianAttachedState`, `g_civilianToSarNodeMap`, `sarToCivilianOffset`, `civilianSafetyStatus` | `AssignRescuer`, `TryAssignPendingCivilians`, `AssignRescuerBySelf`, `ConvergeOnCivilian`, `MoveTowardBaseStation`, `MarkCivilianAsSafe`, `CheckAllCiviliansSafe` | called by discovery reporting; moves nodes with `SetPosition`; writes event records |
| Discovery reporting (`discovery.cc`, part of `convergence.cc`) | `discoveryState`, `g_discoveryAcked`, `g_discoveryRetries`, timers | `ProcessDiscoveryEvent`, `sendDiscoveryToBase`, `ProcessDiscoveryPacket`, `ProcessDiscoveryAck`, `OnDiscoveryAckTimeout`, `CheckAssignmentStatusAndPossiblySelfAssign` | UDP to and from the base; the rescue tables |
| Line of sight and thermal sensing (`discoverybuilding*.cc`, `buildinghelper.cc`) | none of its own | `CheckLosBasedDiscoveryForUndiscovered` | calls `ProcessDiscoveryEvent` for pairs not yet discovered |
| Beacons and query signals (`discoveryplb.cc`, `discoverysarquerysignal.cc`) | session tables, `g_activeFound` | periodic emission, `OnSignalReceived` | call `ProcessDiscoveryEvent` at each reception |
| Event records (`disc_con_dataset.cc`) | one record per civilian, `g_civilianToEventIdMap` | `RecordDiscoveryEvent`, `RecordConvergenceStart`, `RecordConvergenceComplete`, `RecordRescueStart`, `RecordRescueComplete`, `WriteDiscoveryConvergenceDataset` | written by discovery and by missions; `ConvergeOnCivilian` needs the record to exist |
| Communication sessions (`comm_dataset.cc`, `helperfunctions.cc`) | `activeSessions`, `ipToCommIdMap`, `sendTimestamps` | start, count, finalise, trim | every sender and receiver |
| Weather manager (`src/src/weather-manager`) | current conditions, history of changes | `SetWeatherCondition`, `ScheduleWeatherChange`, `EvaluateAndApplyMobilityReduction` | sensing radius, attenuation, speed of the nodes |
| Weather-aware mobility (`weather-waypoint-mobility-model.cc`) | position, speed, the one pending event | walk, pause, `SetSpeedScale`, `SetPosition` | driven by missions and by the weather |
| Signal statistics (`snr&weather_dataset.cc`) | sums per receiver and per pair of nodes, the time of the last rows | `PhyRxLogCallback`, `LogWeatherMetricsForAllNodeswithSNR`, `LogAverageSnrRssiNodes` | the averages of the weather manager |
| Telemetry (`video.cc`, `radio.cc`, `gps.cc`, `env.cc`, ...) | log files | periodic traffic | the sessions count what it sends and receives |
| Energy, node and routing logs | log files | periodic output | nobody reads what they write |
| Scenarios (`src/scratch`) | none | create nodes, sockets and timers | all of the above |

### What is hard, and what makes each component correct

- **Rescue dispatch.** Four handlers update two assignment tables separately.
  A mission is a chain of steps in which every step schedules the next; if one
  path forgets, a civilian is stranded, and if two chains drive one rescuer they
  fight over its position. Tables keyed by rescuer (offset, carried civilian)
  must not survive the pair they belong to. The scan of the queue re-enters
  itself, and decides that "this civilian was assigned" from the growth of the
  whole table. *Correct* means: tables agree, one mission per crew, nobody
  stranded, nobody dropped from the queue, civilians only move forward from
  missing to assigned, attached and safe.
- **Discovery reporting.** Reports and acknowledgements are lost or cross a
  retry; the base and the rescuer may both take the civilian; the failover comes
  10 s or more after the sighting. *Correct* means: the rescuer watches until
  somebody has taken the civilian on; an acknowledgement is never a lie; no
  report precedes the event record its handling needs.
- **Beacons, queries and sight.** The same pair may be sensed again while a
  report is pending, starting a second chain of timeouts with the same counter.
- **Event records.** A record is written by five functions along a mission, and
  nothing stops a second mission from writing it again; the tracks of positions
  belong to the rescuer, not to the mission. *Correct* means: a row tells of its
  own crew and of what has happened, and distances are of one mission.
- **Movement of a mission.** Fixed steps towards a walking target, halved near the
  base, with two thresholds for the two of them and an offset between them.
  *Correct* means: it ends, nobody is left behind, and the recorded distances are
  those of the whole way, as far as the caps of the tracks allow.
- **Communication sessions.** Entries added for packets that never arrive are
  trimmed by age; a delay is taken from an entry that may have gone; a reception
  is logged by eight handlers that pass different destinations. *Correct* means:
  the table stays small, delays are true, rows count what was sent and lost.
- **Weather.** The history is a list of dated entries from which averages over
  windows are computed at any later time. *Correct* means: each average is that
  of the weather that was in force.
- **Mobility.** Pauses, walks, changes of speed and missions cancel and
  reschedule the same event. *Correct* means: one event, an arrival exactly at
  the destination, and no node that wanders off its mission.
- **Signal statistics.** Sums that are reset by one handler and read by another,
  for windows that both of them derive. *Correct* means: every frame is told of
  at most once, next to the weather it was received in.

`PROJECT.json` lists every component, with the part that is modelled, and each
hazard at its line with the property that watches it.

## 2. Modules

| Module | What it is |
|---|---|
| `RescueLifecycle` | the abstract specification: a civilian is missing, assigned, attached, safe, once and in that order; a rescuer works for one civilian in danger at a time |
| `RescueDispatch` | the rescue tables and every handler that changes them |
| `DiscoveryReport` | discovery reporting over a lossy network, composed with `RescueDispatch` (it EXTENDS it, and its events feed it) |
| `EventRecords` | the event records and position tracks, composed with `RescueDispatch` (the same handlers, with what each writes) |
| `RescueTrip` | the distances, tracks and recorded distances of one mission, in the plane |
| `WeatherWaypoint` | the mobility model of one node under weather and missions |
| `WeatherHistory` | one weather condition, its history and its averages |
| `SnrLog` | signal statistics and their rows, composed with `WeatherHistory` |
| `CommSessions` | the sessions, send times and counters of the eight flows that are periodic or answer a query |
| `MCRescueDispatch`, `MCDiscoveryReport`, `MCEventRecords`, `MCRescueTrip`, `MCWeatherWaypoint`, `MCSnrLog`, `MCCommSessions` | small instances for TLC |
| `RescueDispatchProofs`, `DiscoveryReportProofs`, `EventRecordsProofs`, `RescueTripProofs`, `WeatherWaypointProofs`, `SnrLogProofs`, `CommSessionsProofs` | theorems |
| `FiniteSums` | lemmas about sums over finite sets, for distances, averages and counters |

### RescueDispatch

One variable per table (the comment beside each names it), and four for control:

- `tasks`: the steps of `ConvergeOnCivilian` and `MoveTowardBaseStation` that are
  scheduled, each with its rescuer and civilian;
- `sweeping`: the periodic `CheckAllCiviliansSafe` is still scheduled;
- `call`: the function the running handler is about to enter, with its
  arguments, or `Idle` when the scheduler has control;
- `scans`: the stack of suspended loops of `TryAssignPendingCivilians`. Every
  other call of the cascade is in tail position and needs no stack.

Events (`RecordDiscovery`, `ReportAtBase`, `SelfAssign`, `RunTask`,
`CheckAllCiviliansSafe`) are guarded by `call = Idle`; the others are one
function, or one outcome of it, each. So a cascade is atomic with respect to
other events, as in the code, and its inside is visible, which matters because it
re-enters itself.

| Action | Code |
|---|---|
| `AssignRescuer` | `AssignRescuer`: already assigned / all ground rescuers busy, queue / take one |
| `Attach`, `Approach` | `ConvergeOnCivilian`: within 12 m, or one step and again in 1 s |
| `Arrive`, `Carry` | `MoveTowardBaseStation`: at the base, or one step and again in 1 s |
| `MarkCivilianAsSafe`, `AlreadySafe` | `MarkCivilianAsSafe` and its early return |
| `ScanNext`, `ScanResume`, `ScanEnd` | the loop of `TryAssignPendingCivilians` |
| `ScanDangling` | the same loop when a nested one has erased its entry (undefined behaviour) |
| `SelfAssign` | `AssignRescuerBySelf` |
| `CheckAllCiviliansSafe` | the status sweep, which also erases entries of `g_civilianToSarNodeMap` |

Abstractions. *Positions*: attachment and arrival are a choice at each step, and
so is the "nearest" rescuer; this allows every geometry, including the
degenerate one in which a cascade runs through without a step. *Order of the
queue*: an unordered set, so the scan takes its entries in any order. *Undefined
behaviour*: an iterator to an erased entry ends the process, or reads a null link
and ends the loop. *Messages of assignment, attachment and movement*: their
receivers only write logs, so they are left out.

### DiscoveryReport

Per pair (rescuer, civilian): the discovered and acknowledged flags, the retry
counter, the numbers of reports and acknowledgements on the air and the numbers
of timeouts and checks scheduled. Counts, because all datagrams of a pair are
alike and so are its timers. `SenseBySight` skips discovered pairs,
`SenseBySignal` (civilians with a beacon or a phone) does not. The three outcomes
of `ProcessDiscoveryEvent` are `SenseOutOfDanger`, `SenseWhileBusy` and `Report`.
The network (external) loses any datagram at any time, and delivers in any order.
The check that polls a busy rescuer every two seconds changes nothing until the
rescuer is free, so waiting is stuttering.

The broadcast to the other rescuers is left out: its receivers only log.

### EventRecords

Each handler of `RescueDispatch` that writes a record is taken with what it
writes (`Discover`, `ApproachRecorded`, `AttachRecorded`, `CarryRecorded`,
`ArriveRecorded`, `MarkAndForgetTracks`, `SelfAssignAfresh`); the others leave the
records alone (`Unrecorded`); `WriteDataset` ends the run. `rec` is
`g_discoveryConvergenceEvents`; `approach` and `trip` are
`trackedConvergencePositions` and `sarPreviousPositions`.

Abstractions. *Times*: a field holds the number of the civilian's mission that
last wrote it, 0 while it has its initial value; this keeps which mission a time
is of, and drops the time itself. *Positions*: a track is the set of civilians for
whose mission positions were noted in it.

### RescueTrip

`ConvergeStep`, `Attach` (the last step of the approach, which calls
`MoveTowardBaseStation` at once) and `CarryOn` are the steps of
`ConvergeOnCivilian` and `MoveTowardBaseStation`; `CivilianWalks` is the civilian's
own mobility between two of them.

Both move in a plane, and the coordinates of a chase are real numbers. The model
keeps of the approach what holds wherever the two are. `gap` is the distance between
them: a step heads straight for the civilian and shortens it by exactly 10 m, and a
civilian that walks `d` metres, in any direction, changes it by anything from `-d`
to `d` (`CivilianWalks` allows every such change; only the size of the area bounds
the gap, no edge stops the civilian). `way` is what the rescuer has come: as two
consecutive positions of the track are the ends of one straight step, `way` stands
for the positions in the sums of their distances. Rounding a gap up to whole metres
commutes with steps of 10 m and with the comparison with 12 m.

The way back is modelled in the plane exactly. The rescuer heads straight for the
base, so the base is put at the origin, the rescuer at `<<home, 0>>` and the
civilian at its `offset` from there, in both coordinates. Where they attach (`Homes`)
and on which side the civilian is then (`Beside`) is open. Halves are rounded up,
so the last metre is one step; in the code it is some forty more halvings, until
floating point leaves nothing, for which the cap has room.

`steps` is not in the program: it counts the positions passed, which is what a
track must be compared with. `record` holds the three distances of the event:
`covered` (`avgDistanceCovered`, the gap at the start), `converged`
(`avgConvergenceDistance`) and `carried` (`totalTravelDistanceToBase`).
`TracksTellTheWay` relates them to the ways: an approach with `covered` up to
`Reach` is recorded in full; of any longer chase the latest positions are kept, as
many as the cap allows; the way back keeps every position and is recorded at twice
its length. The mission is the first one of its event; later ones, which do not
write `covered` again, are in `EventRecords`.

### WeatherWaypoint

One node, in ticks of a second, all times relative. `queue` is what the model has
in the scheduler; one event of it is `held` by `m_event`, so an event that was
replaced without being cancelled stays visible. `RunEvent` is the end of a pause
or an arrival; `SetSpeedScale` comes from `ScheduleMobilityReduction`; `SetPosition`
from `MissionStep`. `settled` is not in the program: how long the node has walked
under the current weather.

Abstractions. *Position*: the distance left to the destination. *Speed*: base
speed times a scale of a few levels, the smoothed update being any level between
the old one and the target (clamped, except the first, as in the code). A choice
that would put an arrival between two ticks is left out.

### WeatherHistory and SnrLog

`SetWeatherCondition` and `UpdateWeatherCondition` are the two ways to change a
condition; `Average` is `GetAverageWeatherConditions`, segment by segment as the
code's loop. One condition stands for all, which are independent of each other.
`sky` and `redated` are not in the program: the weather that really was, and
whether a planned change has overwritten a date (see section 3).

`SnrLog` adds `Receive` (`PhyRxLogCallback`), `LogWindow` (a row per pair, and the
pair starts afresh) and `LogOverall`. Of the sums only the number of frames is
kept, and when the first one came. `told` and `overall` collect what the rows say.
The rows of a node with itself are left out, and the early returns of the window
logger, which write nothing: no frame waits for either.

### CommSessions

`sessions`, `ipMap`, `stamps` are `activeSessions`, `ipToCommIdMap`,
`sendTimestamps`; `flight` is the network (external), which loses a packet for any
node at any time and delivers in any order. There is one action per sender and
per receiver; what they share is `Transmit` and `Log`, what differs is whether a
send time is noted, looked up or removed and which destination is passed to
`LogPacketEvent` (`Counted`). `SetUp` opens sessions in the order of the
scenario's set-up functions; `FinalizeAllCommunicationSessions` writes the rows.
`transmitted`, `arrived` and `lastRx` are not in the program: they are the truth
with which rows and delays are compared.

Abstractions. A flow sends at any time: neither intervals nor the reasons to stop
matter here. Addresses are node numbers. Ids are made as the code makes them:
responses from the *sum* of two node numbers, so they can collide. Counters
wrap at `Word`.

## 3. What TLC checks

| Run | Instance | Shows |
|---|---|---|
| `rescue_dispatch` | 3 civilians, 2 ground rescuers, 1 drone | the safety of the tables, `NobodyDropped`, `OnlyTheCrewDelivers`, refinement of `RescueLifecycle`; and who is given a rescuer becomes safe, unless the loop over the queue kills the process |
| `discovery_report` | 2 civilians (one with a beacon), 1 rescuer, a network that may lose everything | acknowledgements are truthful, no report is given up, a free rescuer's report is acted on, and the tables change only as `RescueDispatch` allows (refinement) |
| `report_with_drone` | 1 civilian without device, a team and a drone | every report has its event record, one chain of retries per pair, and the drone gives up only after the last one |
| `event_records` | 2 civilians, 2 ground rescuers, 1 drone, symmetry | rows tell of their own rescue, tracks of their own mission |
| `rescue_trip` | an area 60 m across, gaps inside and beyond reach, a civilian that walks anywhere, every offset | a mission ends, the pair stays together, the tracks tell the way |
| `weather_waypoint` | one node, legs of 0, 4 and 12, two base speeds, three weather factors | one event, exact arrivals, no wandering on a mission, weather reaches walkers, legs and pauses end |
| `snr_log` | 2 nodes (one listed), 2 intensities, 4 s, 2 frames | averages are true, every frame is counted once and in its window |
| `comm_sessions` | 3 nodes, a flow of each of the 8 kinds, 5 s, 2 packets | send times are trimmed, delays are transit times, rows count what was sent |
| `queue_starves` | 2 civilians, 1 rescuer | **violation**: a queued civilian may wait for ever |
| `dangling_entry` | 2 civilians, 1 rescuer | **violation**: a loop uses an erased queue entry |
| `not_forwarded` | 2 civilians, 1 rescuer | **violation**: a busy rescuer's discovery is not forwarded |
| `comm_loss_seen` | a voice and a control flow, 2 s | **violation**: a lost unicast packet is not counted as lost |

### Bounds

- *Dispatch and records.* With two rescuers and three civilians both rescuers are
  busy while one civilian waits, and a scan of the queue re-enters itself; every
  property relates at most two civilians and two rescuers. `EventRecords` needs
  two civilians: a rescuer's second mission, and a civilian's second mission by
  the other rescuer. These two modules have no other bound.
- *Reports.* `MaxRetries` (3 in the code, 1 or 2 here: one retry already races an
  acknowledgement), `MaxTimers` (timeouts and checks of a pair; a rescuer at the
  bound does not sense that civilian again) and `MaxInFlight` (a further datagram
  of the pair is lost, which the network may do anyway). One rescuer is enough for
  two civilians to compete for it.
- *Trip.* Steps and thresholds are those of the code (10, 12, 8, 22 and 12 m, and
  5 m for the civilian). The area is smaller and so are the caps. With 4 positions
  for the approach, `Reach` is 27 m: gaps of 27 and 28 m are on its two sides, and
  with 28 m, or 41 or 60, chases are cut (for 28 in place of 27 TLC finds one). 15
  positions are the fewest that the assumption allows for the way back. `Homes` are
  the ends of the area and both sides of every threshold; `Beside` gives every
  offset in whole metres. The code's numbers are in section 4.
- *Mobility.* A leg of 12 lasts long enough for several rounds of the weather loop
  (`Interval` 2) and a leg of 0 is a destination where the node stands; a pause of
  2 and mission steps of 1 are the tightest ratio the assumption allows.
- *Weather and statistics.* `MaxTime`, `MaxChanges`, `MaxFrames`: two rows fall
  within 4 s, and two changes can meet in one second.
- *Sessions.* `Period` 1, `Ttl` 2 and 5 s let a packet outlive its send time and
  arrive late; two packets (`MaxPackets`) race or are of one flow. `Word` is 16,
  more than receptions can count.

Symmetry is used only in `event_records`, where no liveness is checked. Deadlock
is checked except where the system does stop: in `report_with_drone` when the
rescued civilian has been noticed by everybody, in `rescue_trip` when both are at
the base, and in `snr_log` and the two runs of `CommSessions` at the end of the
simulation.

### Fairness

- *Dispatch.* A handler that has begun ends (weak). A scheduled step is run
  (strong, because other handlers, each of finite length, disable it while they
  run): the scheduler takes events in time order and every periodic event is
  rescheduled seconds later. `Attach` and `Arrive` are strongly fair per rescuer: a
  rescuer covers 10 m a second and a walking civilian at most 5 (weather only slows
  it: no factor exceeds 1), and the pair
  halves its distance to the base at each step. `RescueTrip` is where this is not
  assumed but shown.
- *Reports.* The same of handlers, timeouts and checks. Nothing is assumed of the
  network or of the movement. A busy rescuer polls, and could miss a short pause
  between two missions; so `ReportIsActedOn` excepts it.
- *Trip.* A step that is scheduled, and a second that passes, happens (weak).
- *Mobility.* What is due runs and time goes on (weak); and a destination drawn at
  random over an area is not for ever the place where the node stands (strong).

### What the violations say

- `queue_starves`: `AssignRescuer` never asks whether the civilian is safe, and
  `MarkCivilianAsSafe` returns for a safe civilian *before* freeing the rescuer.
  A late or repeated report therefore costs the base a rescuer for ever; with
  none left, the queue is never served.
- `dangling_entry`: the nested loop erases the entry at which the outer loop's
  iterator points. The shortest trace needs a pair that meets at the base.
- `not_forwarded`: a rescuer with an assignment marks the civilian as discovered
  and returns, and line of sight never tries the pair again.
- `comm_loss_seen`: `LogPacketEvent` counts a packet to the session's destination
  as sent *and* received (comm_dataset.cc:224). Its reception is logged with the
  sender as destination and counts for nothing, so the loss rate of a voice or
  control session is always 0.

### Observed, and part of the models

These are in the models as the code has them, and the properties are stated around
them; nothing in the repository says what should happen instead.

- A second mission for a safe civilian rewrites the completion times of its row
  (disc_con_dataset.cc:183). `RowsTellTheRescue` allows just that.
- The distance of the way back is the straight line plus the path
  (disc_con_dataset.cc:350).
- The track of an approach is cut at 300 positions (convergence.cc:213), so the
  distance "traveled by the assigned SAR node" (disc_con_dataset.cc:195) of a longer
  chase lacks its beginning. From more than 1507 m away a civilian can make it that
  long: a rescuer at (0, 0) takes some 302 steps to reach one that walks along the
  edge of the area from (2003, 450) at 5 m/s. `TracksTellTheWay` says which
  approaches are safe from it, and what remains of the others.
- A planned weather change writes a duration over the date of the previous entry
  (weather-manager.cc:1256). `redated` says when; averages may then be wrong.
- The overall SNR averages are of the frames since the last rows, not of all
  (snr&weather_dataset.cc:311). `EveryFrameCountedOnce` says so.
- Telemetry packets are counted once more as sent when they are received
  (video.cc:137), and `RowsTellTheSent` counts them so.
- Ids of responses are sums of node numbers, so sessions of different pairs
  coincide (discoverysarquerysignal.cc:81).
- A broadcast counts a reception per mapped address when it is *sent*, so the
  unsigned number of lost packets wraps (comm_dataset.cc:274).
- A beacon carries the position captured when it was set up
  (discoveryplb.cc:328-340); the payload is not modelled.

Every property of a passing run has a mutant in `PROJECT.json`: a plausible bug
in the mapped definition under which TLC finds the property violated.

## 4. What is proved

For all values of the constants, from the assumptions named in the modules:

- `DispatchAssumption`: ids are distinct from the null values, ground and aerial
  rescuers are disjoint, civilians are finitely many;
- `ReportAssumption`: the bounds are positive numbers;
- `CommAssumption`: the flows are well formed, a broadcast kind has the broadcast
  address, the counters' word is larger than what can be counted;
- `WaypointAssumption`: a pause is longer than a step of a mission (the scenarios:
  at least 2 s, and 1 s);
- `TripAssumption`: the civilian is slower than its rescuer (5 and 10 m a second), a
  step does not exceed the attachment distance, which does not exceed the
  civilian's threshold at the base (10, 12 and 12 m); and the cap of the way back
  leaves room for any distance in the area, which is 2833 m at most: 593 steps of
  8 m, less one metre, with the other 7 positions for the halved steps (4743 m).
  Nothing is assumed of the cap of the approach. `Reach`, from where it suffices, is
  299 times 5 m and the attachment distance, 1507 m;
- `HistoryAssumption`: intensities, and the bounds, are natural numbers;
- `SnrAssumption`: nodes are finitely many, and the first rows look back no less
  far than to the start (`FirstLog <= FirstWindow`).

| Theorem | Module | Statement |
|---|---|---|
| `TypeCorrect` | `RescueDispatchProofs` | the type invariant, and the control state: a loop resumes only if it is on the stack, the scheduler has control only when the stack is empty |
| `CrewsCorrect` | | `CrewsMatchAssignments`, `OneMissionPerRescuer`, `NoStrandedCivilian`, `AttachedToCrew`, `OffsetIsOfThisPair` |
| `CrewDelivers` | | `OnlyTheCrewDelivers` |
| `Refinement` | | `RescueDispatch` implements `RescueLifecycle` |
| `QueueServed` | | `QueueWaitsOnlyWhenAllBusy` |
| `QueueDropsNobody` | | `NobodyDropped` |
| `NestingEnds` | | `NestingBounded` |
| `ReportRefines` | `DiscoveryReportProofs` | `DiscoveryReport` implements `RescueDispatch` |
| `ReportsKeepCrews` | | what is proved of the crews holds with the reports |
| `ReportsAreRecorded` | | `ReportTypeOK`, `ReportedHasEvent` |
| `AcksAreTrue` | | `AckMeansTasked` |
| `WatchIsKept` | | `WatchesUntilTasked` |
| `ChainsAreSingle` | | `OneChainPerSighting` |
| `AerialsGiveUpLast` | | `AerialGivesUpLast` |
| `RecordsWellFormed` | `EventRecordsProofs` | `RecordTypeOK`: no civilian has a third mission |
| `RowsAreTold` | | `RowsTellTheRescue` |
| `TracksAreOfTheMission` | | `TracksOfThisMission` |
| `PairIsTogether` | `RescueTripProofs` | `PairStaysClose` |
| `TracksAlwaysTellTheWay` | | `TracksTellTheWay` |
| `TripStaysTyped` | | `TripTypeOK` (not a property of a run) |
| `WaypointTypesHold` | `WeatherWaypointProofs` | `WaypointTypeOK` |
| `OneEventAlways` | | `OneEvent` |
| `ArrivalsAreAtTheDestination` | | `ArrivesAtDestination` |
| `MissionNodesStand` | | `MissionNodeStandsStill` |
| `WeatherReachesAllWalkers` | | `WeatherReachesWalkers` |
| `HistoryStaysCurrent` | `SnrLogProofs` | `HistoryIsCurrent` |
| `AveragesAreTrue` | | `AverageIsTrue` |
| `SnrStaysTyped` | | `SnrTypeOK` |
| `FramesAreCountedOnce` | | `EveryFrameCountedOnce` |
| `RowsAreOfTheirWindow` | | `RowIsOfItsWindow` |
| `SnrImplementsWeather` | | `SnrLog` implements `WeatherHistory` |
| `StampsStayYoung` | `CommSessionsProofs` | `StampsAreTrimmed` |
| `DelaysAreTransits` | | `DelayIsTransit` |
| `RowsCountTheSent` | | `RowsTellTheSent` |

**Crews.** None of the five crew properties is inductive alone. `CrewInv` adds
two facts: what a rescuer keeps in `sarToCivilianOffset` belongs to the civilian
it is assigned (`OffsetOfCrew`; `OffsetIsOfThisPair` follows, because a moving
mission is its rescuer's assignment), and a pair moves only after attachment
(`MovingIsAttached`; without it a delivery could start from "assigned" and skip a
stage). The five need each other: a free rescuer has no mission because every
mission is an assignment and the tables agree, so recording an assignment cannot
make a second chain. There is one lemma per kind of step: recording an assignment,
going on, delivering, running a step, the early return, the sweep; the loop and
the events that touch no crew follow from `CrewFrame`. The early return of
`MarkCivilianAsSafe` is where the invariants are weaker than one would like: an
assigned civilian that is *already safe* may have no mission.

**Queue.** The loop erases an entry when the table of assignments has grown,
although nested calls grow and shrink the same table. `FrameInv` says why it is
right: a mission runs below a loop only after the loop's entry has been assigned,
so a civilian whose call started a nested loop is settled (assigned or safe), and
settled is for ever; if no mission ran, the table has the size the loop
remembers. `QueueInv` says that with a rescuer free everybody who waits is still
ahead of the innermost loop, and that a loop whose entry was erased under it
resumes with nobody waiting. This is also why the undefined behaviour, if it does
not kill the
process, loses nobody. `StackInv` counts: every loop was started by a civilian
that became safe.

**Reports.** Each step of `DiscoveryReport` is a step of `RescueDispatch` or
leaves the tables alone, so its invariants carry over. `AckInv` follows from
`NobodyDropped`: an acknowledgement leaves the base in the very call that takes
the civilian on. `WatchIsKept` needs all of it: a timeout that stops because of an
acknowledgement relies on that being true later. `ChainInv` is what makes a chain
single: for a civilian without a device the timeouts and checks of a pair are at
most one, and none before the pair is discovered; a check exists only after the
last retry, which is what `AerialsGiveUpLast` rests on.

**Records.** `TracksInv`: a note is about the civilian its rescuer is assigned to.
It survives an assignment because who gets a rescuer had none, and a delivery
because that clears both tracks. `RowsInv` describes a record by the state of its
civilian: in danger, it is what the tables say; safe, it is full, or a second
mission is in one of three stages (not reached again, reached again, ended). The
second mission leaves its rescuer assigned to the safe civilian for ever, so there
is no third, although no line of the code counts missions.

**Mobility.** `EventInv`: exactly one event, held, which fits the state; on a
mission it is due after the next step. `ScaleInv` keeps scale and target within
bounds. `LoopInv` adds what is needed for the weather: a walking node has the
target of the current weather, or the next round of the loop comes before its
walk under that weather exceeds the period.

**Sessions.** `SweepInv`: the next sweep is at most a period away, and every send
time is young enough for it. `PacketInv`: a packet nobody has heard still has its
send time, unless it is older than `Ttl`. For the rows, `SessionsInv` says what the
session of each id has counted and where it points: at its flow's destination, and
that of a broadcast anywhere but at its sender; so a transmission is counted as
sent, and a reception only if it is of the telemetry, whose receivers name that
destination again. It needs that an id tells its flow (`IdTellsFlow`: only responses
share ids). `FlightInv` counts the telemetry: a packet is on its way, heard once or
lost, so no more are heard than were sent, and no counter wraps around
(`CountersFit`).

**Trip.** `PairInv` says that the offset is no longer than the gap was at the
attachment, and keeps the distances within the area. `ChaseInv` is the approach.
Each second closes the gap by the difference of the two speeds at least, whichever
way the civilian walks; so the gap, with what the civilian may still open it by
before the next step (`Slack`), and what has been closed so far do not exceed the
gap at the start. Who is not attached is more than the attachment distance away,
which bounds the steps of a chase from within reach by the cap (`FewerSteps`).
Within reach or not, the positions of the track are a step apart (`Even`): a cut
keeps that (`EvenNote`), a step too (`EvenGrows`), and it gives the length
(`EvenLength`, from `SumOfConstant`). `BackInv` is the way back: the full steps are
as long as their share of the cap (`FullSteps`); the first halved one leaves less
than `CarryStep` metres, and each one after it shortens the way by a metre at least
(`LastSteps`). It does not hover short of the base, because whoever stands on it is
there with its civilian (`LargerSquare`: an offset within the attachment distance
is within the civilian's threshold). The track is `Straight`, so its length is the
distance from its first position.

**Sums.** Averages, counters and lengths are folds over finite sets. A theorem of
induction takes an operator as a parameter, which the provers cannot instantiate;
`FiniteSums` argues from the smallest subset of which a statement would be false,
which the well-foundedness of strict inclusion gives (`SmallestSubset`). It shows
that the fold exists and obeys its equation (`SumPick`), that any element may be
taken out first (`SumTake`), and what follows.

**Weather and statistics.** `SkyInv` relates the history to the weather that was:
unless an entry has been redated, the weather of each second is the value of the
entry in whose segment it lies. `AverageOfWindow` then takes the window second by
second: one second more adds the value of one entry to the sum of the code's loop
and the weather of that second to the true sum, and the first window for which
the two differ would be one second longer than one for which they agree.
`SnrInv` adds the statistics: what waits for a row came since the rows before
(`WindowInv`), a frame heard adds one to the sum over the pairs of its receiver, and
a row moves its frames from what waits to what was told.

Only model-checked: liveness (`AssignedBecomesSafe`, `ReportIsActedOn`,
`LegsAndPausesEnd`, `MissionEnds`), because fairness and ENABLED are out of the
prover's reach here. Every other property of a passing run is stated by a theorem.

## 5. Not modelled

- Floating-point formulas (attenuation, `GetEffectiveLOSRange` and the sensing
  radius): outside TLC; their outcomes are choices. The tables of weather factors
  per node type (weather-manager.cc:600-1010) are pure data; any factor occurs.
- Energy, node and routing logs, and the layout of every CSV file: nothing reads
  them back.
- The receivers of assignment, attachment, movement, safety and broadcast
  messages, which only log.
- The session entries made by the messages of discovery, convergence, assignment
  and safety: they share the tables with the eight flows of `CommSessions`.
- The payload of beacons, queries and responses, and the civilians' tables of the
  queries they heard.
- `post_rescue.cc`: its only call is commented out (rescue.cc:806).
- `discoverynobuildings.cc` and the first generation of the handlers in
  `SAR_operations_logs`: copies of what is modelled.
- The scenarios: initial states and ranges of the constants are taken from them.
- ns-3 itself, which is nearly all of the lines under `src/src`: vendored. The
  event queue and UDP are modelled from how the handlers use them.

## 6. Plan

Done: the dispatch tables and their queue, reporting, records, the movement of a
mission, weather-aware mobility, weather history, signal statistics and sessions;
their safety is proved, and their liveness model-checked.

Left, most useful first:

1. When beacons and queries stop: their emission intervals, the reasons to stop,
   and the `g_activeFound` window that suspends passive checks, composed with
   `DiscoveryReport`.
2. Several missions at once: `RescueTrip` composed with `RescueDispatch`, so that
   the fairness of `Attach` and `Arrive` follows from the movement in one model.
3. The compiled tables of weather factors, as functions checked for
   worse weather never making a node faster.
