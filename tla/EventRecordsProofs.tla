------------------------- MODULE EventRecordsProofs -------------------------
(***************************************************************************)
(* Proofs about EventRecords: for any number of civilians and rescuers.    *)
(***************************************************************************)
EXTENDS EventRecords, RescueDispatchProofs

-----------------------------------------------------------------------------
(* The records only watch the tables.                                      *)

\* One step with records is one step of the tables, or leaves them alone.
LEMMA EventStepOfTables == [EventNext]_eventVars => [DispatchNext]_dispatchVars
<1> SUFFICES ASSUME [EventNext]_eventVars
             PROVE  [DispatchNext]_dispatchVars
  OBVIOUS
<1>1. CASE UNCHANGED eventVars \/ Ended \/ WriteDataset
  BY <1>1 DEF eventVars, Ended, WriteDataset
<1>2. CASE Unrecorded
  BY <1>2 DEF Unrecorded, DispatchNext, Cascade, Event
<1>3. ASSUME NEW s \in Sars, NEW c \in Civilians,
             \/ Discover(s, c)
             \/ ApproachRecorded(s, c) \/ AttachRecorded(s, c)
             \/ CarryRecorded(s, c) \/ ArriveRecorded(s, c)
             \/ MarkAndForgetTracks(s, c)
             \/ SelfAssignAfresh(s, c)
      PROVE  [DispatchNext]_dispatchVars
  <2>1. RecordDiscovery(c) \/ SelfAssign(s, c) => DispatchNext
    BY DEF DispatchNext, Event
  <2>2. Approach(s, c) \/ Attach(s, c) \/ Carry(s, c) \/ Arrive(s, c)
          \/ MarkCivilianAsSafe(s, c) => DispatchNext
    BY DEF DispatchNext, Cascade
  <2> QED
    BY <1>3, <2>1, <2>2 DEF Discover, ApproachRecorded, AttachRecorded, CarryRecorded,
         ArriveRecorded, MarkAndForgetTracks, SelfAssignAfresh
<1> QED
  BY <1>1, <1>2, <1>3 DEF EventNext

\* What is proved of the crews holds while the records are written.
LEMMA EventCrews == EventSpec => []CrewInv
<1>1. EventInit => DispatchInit
  BY DEF EventInit
<1> QED
  BY <1>1, EventStepOfTables, CrewInit, CrewStep, PTL DEF EventSpec

-----------------------------------------------------------------------------
(* Tracks.                                                                 *)

TracksInv ==
  /\ approach \in [Sars -> SUBSET Civilians]
  /\ trip \in [Sars -> SUBSET Civilians]
  /\ TracksOfThisMission

\* No track has a note at first.
LEMMA TracksInit == EventInit => TracksInv
  BY DEF EventInit, TracksInv, TracksOfThisMission

\* A note about the civilian of a running mission is about the rescuer's own.
LEMMA RunsForItsOwn ==
  ASSUME CrewInv, NEW s \in Sars, NEW c \in Civilians,
         NEW op \in {"converge", "move", "deliver"},
         call = [op |-> op, sar |-> s, civ |-> c]
  PROVE  rescuer[c] = s
<1>1. call \in Missions
  BY DEF Missions, Running
<1> QED
  BY <1>1 DEF CrewInv, OneMissionPerRescuer

\* Tracks stay true while rescuers stay and the notes are about their own.
LEMMA NotesKeepTracks ==
  ASSUME TracksInv, UNCHANGED rescuer,
         NEW s \in Sars, NEW c \in Civilians, rescuer[c] = s,
         approach' \in {approach, Note(approach, s, c), Clear(approach, s)},
         trip' \in {trip, Note(trip, s, c), Clear(trip, s)}
  PROVE  TracksInv'
<1>1. approach' \in [Sars -> SUBSET Civilians] /\ trip' \in [Sars -> SUBSET Civilians]
  BY DEF TracksInv, Note, Clear
<1>2. ASSUME NEW r \in Sars, NEW d \in Civilians, d \in approach'[r] \cup trip'[r]
      PROVE  rescuer[d] = r
  BY <1>2 DEF TracksInv, TracksOfThisMission, Note, Clear
<1> QED
  BY <1>1, <1>2 DEF TracksInv, TracksOfThisMission

\* A civilian that gets a rescuer had none, so no track has a note of it.
LEMMA AssignmentKeepsTracks ==
  ASSUME TracksInv, CrewInv, NEW r \in FreeGround, NEW d \in Civilians,
         ~Assigned(d), RecordAssignment(r, d),
         UNCHANGED <<approach, trip>>
           \/ (approach' = Clear(approach, r) /\ trip' = Clear(trip, r))
  PROVE  TracksInv'
<1>1. approach' \in [Sars -> SUBSET Civilians] /\ trip' \in [Sars -> SUBSET Civilians]
  BY DEF TracksInv, Clear
<1>2. ASSUME NEW s \in Sars, NEW c \in Civilians, c \in approach'[s] \cup trip'[s]
      PROVE  rescuer'[c] = s
  <2>1. c \in approach[s] \cup trip[s]
    BY <1>2 DEF TracksInv, Clear
  <2>2. rescuer[c] = s /\ s # NoSar
    BY <2>1, DispatchAssumption DEF TracksInv, TracksOfThisMission
  <2> QED
    BY <2>2 DEF RecordAssignment, Assigned, CrewInv, TypeInv, TypeOK
<1> QED
  BY <1>1, <1>2 DEF TracksInv, TracksOfThisMission

\* A delivery takes the rescuer from its civilian and drops the rescuer's notes.
LEMMA DeliveryKeepsTracks ==
  ASSUME TracksInv, CrewInv, NEW s \in Sars, NEW c \in Civilians,
         MarkAndForgetTracks(s, c)
  PROVE  TracksInv'
<1>1. MarkCivilianAsSafe(s, c) /\ approach' = Clear(approach, s) /\ trip' = Clear(trip, s)
  BY DEF MarkAndForgetTracks
<1>2. rescuer[c] = s /\ rescuer' = [rescuer EXCEPT ![c] = NoSar]
  BY <1>1, DeliveredByCrew DEF MarkCivilianAsSafe
<1>3. approach' \in [Sars -> SUBSET Civilians] /\ trip' \in [Sars -> SUBSET Civilians]
  BY <1>1 DEF TracksInv, Clear
<1>4. ASSUME NEW r \in Sars, NEW d \in Civilians, d \in approach'[r] \cup trip'[r]
      PROVE  rescuer'[d] = r
  <2>1. r # s /\ d \in approach[r] \cup trip[r]
    BY <1>1, <1>4 DEF TracksInv, Clear
  <2> QED
    BY <1>2, <2>1 DEF TracksInv, TracksOfThisMission, CrewInv, TypeInv, TypeOK
<1> QED
  BY <1>3, <1>4 DEF TracksInv, TracksOfThisMission

\* A step notes positions of the rescuer's own civilian, or drops the notes.
LEMMA TracksStep == TracksInv /\ CrewInv /\ [EventNext]_eventVars => TracksInv'
<1> SUFFICES ASSUME TracksInv, CrewInv, [EventNext]_eventVars
             PROVE  TracksInv'
  OBVIOUS
<1>1. CASE UNCHANGED <<rescuer, approach, trip>>
  BY <1>1 DEF TracksInv, TracksOfThisMission
<1>2. CASE UNCHANGED eventVars \/ Ended \/ WriteDataset
  BY <1>1, <1>2 DEF eventVars, recordVars, dispatchVars, Ended, WriteDataset
<1>3. CASE Unrecorded
  <2>1. UNCHANGED <<approach, trip>>
    BY <1>3 DEF Unrecorded, recordVars
  <2>2. CASE AssignRescuer
    <3>1. CASE UNCHANGED rescuer
      BY <1>1, <2>1, <3>1
    <3>2. CASE ~UNCHANGED rescuer
      <4>1. PICK r \in FreeGround : ~Assigned(call.civ) /\ RecordAssignment(r, call.civ)
        BY <2>2, <3>2 DEF AssignRescuer
      <4>2. call.civ \in Civilians
        BY <2>2 DEF AssignRescuer, CrewInv, TypeInv, TypeOK, Call, Mission
      <4> QED
        BY <2>1, <4>1, <4>2, AssignmentKeepsTracks
    <3> QED
      BY <3>1, <3>2
  <2>3. CASE ~AssignRescuer
    <3>1. UNCHANGED rescuer
      BY <1>3, <2>3 DEF Unrecorded, AlreadySafe, ScanNext, ScanResume, ScanEnd, ScanDangling,
           ReportAtBase, RunTask, CheckAllCiviliansSafe, Crashed, dispatchVars
    <3> QED
      BY <1>1, <2>1, <3>1
  <2> QED
    BY <2>2, <2>3
<1>4. ASSUME NEW s \in Sars, NEW c \in Civilians, Discover(s, c) PROVE TracksInv'
  BY <1>1, <1>4 DEF Discover, RecordDiscovery
<1>5. ASSUME NEW s \in Sars, NEW c \in Civilians,
             ApproachRecorded(s, c) \/ AttachRecorded(s, c)
      PROVE  TracksInv'
  <2>1. call = [op |-> "converge", sar |-> s, civ |-> c] /\ UNCHANGED rescuer
    BY <1>5 DEF ApproachRecorded, AttachRecorded, Approach, Attach
  <2>2. rescuer[c] = s
    BY <2>1, RunsForItsOwn
  <2>3. approach' \in {Note(approach, s, c), Clear(approach, s)} /\ trip' = trip
    BY <1>5 DEF ApproachRecorded, AttachRecorded
  <2> QED
    BY <2>1, <2>2, <2>3, NotesKeepTracks
<1>6. ASSUME NEW s \in Sars, NEW c \in Civilians,
             CarryRecorded(s, c) \/ ArriveRecorded(s, c)
      PROVE  TracksInv'
  <2>1. call = [op |-> "move", sar |-> s, civ |-> c] /\ UNCHANGED rescuer
    BY <1>6 DEF CarryRecorded, ArriveRecorded, Carry, Arrive
  <2>2. rescuer[c] = s
    BY <2>1, RunsForItsOwn
  <2>3. trip' \in {Note(trip, s, c), Clear(trip, s)} /\ approach' = approach
    BY <1>6 DEF CarryRecorded, ArriveRecorded
  <2> QED
    BY <2>1, <2>2, <2>3, NotesKeepTracks
<1>7. ASSUME NEW s \in Sars, NEW c \in Civilians, MarkAndForgetTracks(s, c)
      PROVE  TracksInv'
  BY <1>7, DeliveryKeepsTracks
<1>8. ASSUME NEW s \in Sars, NEW c \in Civilians, SelfAssignAfresh(s, c)
      PROVE  TracksInv'
  <2>1. s \in FreeGround /\ ~Assigned(c) /\ RecordAssignment(s, c)
    BY <1>8 DEF SelfAssignAfresh, SelfAssign
  <2> QED
    BY <1>8, <2>1, AssignmentKeepsTracks DEF SelfAssignAfresh
<1> QED
  BY <1>2, <1>3, <1>4, <1>5, <1>6, <1>7, <1>8 DEF EventNext

\* The tracks hold in every state.
LEMMA TracksAlways == EventSpec => []TracksInv
  BY EventCrews, TracksInit, TracksStep, PTL DEF EventSpec

\* The distances of a record are those of its own mission: whatever missions a
\* rescuer has had, its tracks hold positions of the civilian it is assigned to.
THEOREM TracksAreOfTheMission == EventSpec => []TracksOfThisMission
<1>1. TracksInv => TracksOfThisMission
  BY DEF TracksInv
<1> QED
  BY <1>1, TracksAlways, PTL

-----------------------------------------------------------------------------
(* Rows.                                                                   *)

\* A step of c's mission is scheduled or running.
Under(c, op) == \E m \in Missions : m.op = op /\ m.civ = c

\* How far a second mission for a safe civilian has come: not to the civilian,
\* on the way back, or to the base, where it leaves its rescuer assigned.
NotReachedAgain(c) ==
  /\ rec[c].reached = 1 /\ rec[c].ended = 1
  /\ ~Under(c, "move") /\ ~Under(c, "deliver")
ReachedAgain(c) ==
  /\ rec[c].reached = 2 /\ rec[c].ended = 1
  /\ Under(c, "move") /\ ~Under(c, "converge") /\ ~Under(c, "deliver")
EndedAgain(c) ==
  /\ rec[c].reached = 2 /\ rec[c].ended = 2
  /\ ~Under(c, "converge") /\ ~Under(c, "move")
  /\ Assigned(c)

RowDone(c) ==
  /\ rec[c].by # {} /\ rec[c].crew # NoSar
  /\ rec[c].start = 1 /\ rec[c].rescue = 1
  /\ NotReachedAgain(c) \/ ReachedAgain(c) \/ EndedAgain(c)

\* What RowsTellTheRescue says, with the progress of a second mission, and that
\* who is known has been discovered by somebody.
RowInv(c) ==
  /\ c \in known => rec[c].by # {}
  /\ c \in safe => RowDone(c)
  /\ c \notin safe => RowInProgress(c) /\ rec[c].start \in {0, 1}

WideRecord == [by : SUBSET Sars, crew : Sars \cup {NoSar}, start : Nat,
               reached : Nat, rescue : Nat, ended : Nat]
RowsInv == rec \in [Civilians -> WideRecord] /\ \A c \in Civilians : RowInv(c)


\* Every record begins empty, and everybody is missing.
LEMMA RowsInit == EventInit => RowsInv
<1> SUFFICES ASSUME EventInit PROVE RowsInv
  OBVIOUS
<1>1. rec \in [Civilians -> WideRecord]
  BY DEF EventInit, WideRecord
<1>2. known = {} /\ safe = {} /\ attached = {} /\ call.op = "idle"
  BY DEF EventInit, DispatchInit
<1>3. \A c \in Civilians : /\ rec[c].start = 0 /\ rec[c].crew = NoSar
                           /\ rec[c].reached = 0 /\ rec[c].rescue = 0 /\ rec[c].ended = 0
  BY DEF EventInit
<1> QED
  BY <1>1, <1>2, <1>3 DEF RowsInv, RowInv, RowInProgress, Delivering

\* Nothing of what a row is compared with changes for d, nor does the row, except
\* for the discoverers.
SameFor(d) ==
  /\ rec[d].by \subseteq rec'[d].by
  /\ rec'[d].crew = rec[d].crew /\ rec'[d].start = rec[d].start
  /\ rec'[d].reached = rec[d].reached /\ rec'[d].rescue = rec[d].rescue
  /\ rec'[d].ended = rec[d].ended
  /\ known \subseteq known' /\ (d \in known' => d \in known \/ rec'[d].by # {})
  /\ d \in safe' <=> d \in safe
  /\ d \in attached' <=> d \in attached
  /\ rescuer'[d] = rescuer[d]
  /\ (call'.op = "deliver" /\ call'.civ = d) <=> (call.op = "deliver" /\ call.civ = d)
  /\ \A op \in {"converge", "move", "deliver"} :
       (\E m \in Missions' : m.op = op /\ m.civ = d) <=> Under(d, op)

LEMMA RowStays ==
  ASSUME NEW d \in Civilians, RowInv(d), SameFor(d)
  PROVE  RowInv(d)'
<1>1. /\ Delivering(d)' <=> Delivering(d)
      /\ Under(d, "converge")' <=> Under(d, "converge")
      /\ Under(d, "move")' <=> Under(d, "move")
      /\ Under(d, "deliver")' <=> Under(d, "deliver")
  BY DEF SameFor, Delivering, Under
<1>2. d \in known' => rec'[d].by # {}
  BY DEF SameFor, RowInv
<1>3. ASSUME d \in safe' PROVE RowDone(d)'
  BY <1>1, <1>3 DEF SameFor, RowInv, RowDone, NotReachedAgain, ReachedAgain, EndedAgain, Assigned
<1>4. ASSUME d \notin safe' PROVE RowInProgress(d)' /\ rec'[d].start \in {0, 1}
  BY <1>1, <1>4 DEF SameFor, RowInv, RowInProgress
<1> QED
  BY <1>2, <1>3, <1>4 DEF RowInv

\* All rows stay when no mission starts or ends and no time is written.
LEMMA RowsStay ==
  ASSUME RowsInv, UNCHANGED <<safe, attached, rescuer>>, Missions' = Missions,
         call.op # "deliver", call'.op # "deliver",
         rec' \in [Civilians -> WideRecord],
         known \subseteq known',
         \A d \in Civilians :
           /\ d \in known' => d \in known \/ rec'[d].by # {}
           /\ rec[d].by \subseteq rec'[d].by
           /\ rec'[d].crew = rec[d].crew /\ rec'[d].start = rec[d].start
           /\ rec'[d].reached = rec[d].reached /\ rec'[d].rescue = rec[d].rescue
           /\ rec'[d].ended = rec[d].ended
  PROVE  RowsInv'
<1>1. ASSUME NEW d \in Civilians PROVE RowInv(d)'
  <2>1. SameFor(d)
    BY DEF SameFor, Under
  <2> QED
    BY <2>1, RowStays DEF RowsInv
<1> QED
  BY <1>1 DEF RowsInv

\* The rows of the others while c's mission changes.
LEMMA OthersStay ==
  ASSUME RowsInv, NEW c \in Civilians, NEW d \in Civilians \ {c},
         rec'[d] = rec[d], known' = known, rescuer'[d] = rescuer[d],
         d \in safe' <=> d \in safe, d \in attached' <=> d \in attached,
         call.op = "deliver" => call.civ = c,
         call'.op = "deliver" => call'.civ = c,
         \A m : m.civ = d => (m \in Missions' <=> m \in Missions)
  PROVE  RowInv(d)'
<1>1. SameFor(d)
  BY DEF SameFor, Under
<1> QED
  BY <1>1, RowStays DEF RowsInv

\* A civilian that gets a rescuer has no mission: its row is that of one still
\* missing, or of one safe that nobody is on the way to.
LEMMA AssignmentKeepsRows ==
  ASSUME RowsInv, CrewInv, NEW s \in FreeGround, NEW c \in Civilians,
         ~Assigned(c), RecordAssignment(s, c), ~Running,
         UNCHANGED <<known, safe, attached, tasks, rec>>
  PROVE  RowsInv'
<1>1. /\ Missions = tasks /\ Missions' = tasks \cup {call'}
      /\ call' = [op |-> "converge", sar |-> s, civ |-> c]
      /\ call.op # "deliver"
  BY DEF RecordAssignment, Enter, Missions, Running
<1>2. \A t \in tasks : t.civ # c
  <2>1. \A t \in tasks : t.sar # NoSar /\ rescuer[t.civ] = t.sar
    BY <1>1, DispatchAssumption DEF CrewInv, OneMissionPerRescuer, TypeInv, TypeOK, Task
  <2> QED
    BY <2>1 DEF Assigned
<1>3. c \notin attached
  BY DEF CrewInv, AttachedToCrew
<1>4. rescuer' = [rescuer EXCEPT ![c] = s] /\ rescuer'[c] = s
      /\ \A d \in Civilians \ {c} : rescuer'[d] = rescuer[d]
  BY DEF RecordAssignment, CrewInv, TypeInv, TypeOK
<1>5. RowInv(c)'
  <2>1. CASE c \in safe
    <3>1. NotReachedAgain(c) /\ RowDone(c)
      BY <1>1, <1>2, <2>1 DEF RowsInv, RowInv, RowDone, ReachedAgain, EndedAgain, Under
    <3>2. NotReachedAgain(c)'
      BY <1>1, <1>2, <3>1 DEF NotReachedAgain, Under
    <3> QED
      BY <2>1, <3>1, <3>2 DEF RowInv, RowDone
  <2>2. CASE c \notin safe
    <3>1. RowInProgress(c) /\ rec[c].start \in {0, 1} /\ rec[c].crew = NoSar
      BY <2>2 DEF RowsInv, RowInv, RowInProgress, Assigned
    <3>2. ~Delivering(c) /\ ~Delivering(c)'
      BY <1>1 DEF Delivering
    <3> QED
      BY <1>3, <2>2, <3>1, <3>2 DEF RowsInv, RowInv, RowInProgress
  <2> QED
    BY <2>1, <2>2
<1>6. ASSUME NEW d \in Civilians \ {c} PROVE RowInv(d)'
  <2>1. \A m : m.civ = d => (m \in Missions' <=> m \in Missions)
    BY <1>1
  <2> QED
    BY <1>1, <1>4, <2>1, OthersStay
<1> QED
  BY <1>5, <1>6 DEF RowsInv

\* The step of a mission that is running, and its civilian's row before it.
LEMMA RowOfRunning ==
  ASSUME RowsInv, CrewInv, NEW s \in Sars, NEW c \in Civilians,
         NEW op \in {"converge", "move", "deliver"},
         call = [op |-> op, sar |-> s, civ |-> c]
  PROVE  /\ Running /\ Missions = tasks \cup {call}
         /\ \A t \in tasks : t.civ # c
         /\ rescuer[c] = s /\ Assigned(c) /\ s # NoSar
         /\ op # "converge" => c \in attached
         /\ Under(c, op) /\ \A p \in {"converge", "move", "deliver"} \ {op} : ~Under(c, p)
<1>1. Running /\ call \in Missions
  BY DEF Running, Missions
<1>2. Missions = tasks \cup {call} /\ rescuer[c] = s /\ \A t \in tasks : t.civ # c
  BY <1>1, RunningMission
<1>3. Assigned(c) /\ s # NoSar
  BY <1>2, DispatchAssumption DEF Assigned
<1>4. op # "converge" => c \in attached
  BY <1>1 DEF CrewInv, MovingIsAttached
<1>5. Under(c, op) /\ \A p \in {"converge", "move", "deliver"} \ {op} : ~Under(c, p)
  BY <1>2 DEF Under
<1> QED
  BY <1>1, <1>2, <1>3, <1>4, <1>5

\* The first step of an approach writes the crew; it runs again a second later.
LEMMA ApproachKeepsRows ==
  ASSUME RowsInv, CrewInv, NEW s \in Sars, NEW c \in Civilians, ApproachRecorded(s, c)
  PROVE  RowsInv'
<1>1. /\ call = [op |-> "converge", sar |-> s, civ |-> c]
      /\ c \in known /\ tasks' = tasks \cup {call}
      /\ UNCHANGED <<known, safe, rescuer, attached>>
      /\ rec' = [rec EXCEPT ![c] = WithStart(@, s, Current(c))]
  BY DEF ApproachRecorded, Approach, Reschedule
<1>2. ~Running' /\ call'.op # "deliver"
  BY DEF ApproachRecorded, Approach, Return, After, Idle, Control, Running
<1>3. Missions' = Missions /\ rescuer[c] = s /\ s # NoSar
  BY <1>1, <1>2, RowOfRunning DEF Missions
<1>4. rec[c] \in WideRecord /\ Current(c) \in Nat /\ Current(c) # 0
  BY DEF RowsInv, WideRecord, Current
<1>5. /\ rec' \in [Civilians -> WideRecord]
      /\ rec'[c] = WithStart(rec[c], s, Current(c))
      /\ \A d \in Civilians \ {c} : rec'[d] = rec[d]
  BY <1>1, <1>4 DEF RowsInv, WithStart, WideRecord
<1>6. RowInv(c)'
  <2>1. CASE rec[c].start # 0
    <3>1. SameFor(c)
      BY <1>1, <1>2, <1>3, <1>5, <2>1 DEF SameFor, WithStart, Under
    <3> QED
      BY <3>1, RowStays DEF RowsInv
  <2>2. CASE rec[c].start = 0
    <3>1. c \notin safe /\ RowInProgress(c) /\ ~Delivering(c)
      BY <1>1, <2>2 DEF RowsInv, RowInv, RowDone, Delivering
    <3>2. rec'[c] = [rec[c] EXCEPT !.crew = s, !.start = 1]
      BY <1>4, <1>5, <2>2, <3>1 DEF RowInProgress, Current, WithStart
    <3>3. /\ rec'[c].crew = s /\ rec'[c].start = 1 /\ rec'[c].by = rec[c].by
          /\ rec'[c].reached = rec[c].reached /\ rec'[c].rescue = rec[c].rescue
          /\ rec'[c].ended = rec[c].ended
      BY <1>4, <3>2 DEF WideRecord
    <3>4. ~Delivering(c)'
      BY <1>2 DEF Delivering
    <3> QED
      BY <1>1, <1>3, <3>1, <3>3, <3>4 DEF RowsInv, RowInv, RowInProgress
  <2> QED
    BY <2>1, <2>2
<1>7. ASSUME NEW d \in Civilians \ {c} PROVE RowInv(d)'
  BY <1>1, <1>2, <1>3, <1>5, OthersStay
<1> QED
  BY <1>5, <1>6, <1>7 DEF RowsInv

\* The attachment writes the completion of this mission, first or second.
LEMMA AttachKeepsRows ==
  ASSUME RowsInv, CrewInv, NEW s \in Sars, NEW c \in Civilians, AttachRecorded(s, c)
  PROVE  RowsInv'
<1>1. /\ call = [op |-> "converge", sar |-> s, civ |-> c]
      /\ call' = [op |-> "move", sar |-> s, civ |-> c]
      /\ c \in known /\ attached' = attached \cup {c}
      /\ UNCHANGED <<known, safe, rescuer, tasks>>
      /\ rec' = [rec EXCEPT
                   ![c] = WithAttachment(WithStart(@, s, Current(c)), Current(c))]
  BY DEF AttachRecorded, Attach, Enter
<1>2. /\ Missions = tasks \cup {call} /\ Missions' = tasks \cup {call'}
      /\ \A t \in tasks : t.civ # c
      /\ rescuer[c] = s /\ s # NoSar
      /\ Under(c, "converge") /\ ~Under(c, "move") /\ ~Under(c, "deliver")
  <2>1. Missions' = tasks \cup {call'}
    BY <1>1 DEF Missions, Running
  <2> QED
    BY <1>1, <2>1, RowOfRunning
<1>3. rec[c] \in WideRecord /\ Current(c) \in Nat /\ Current(c) # 0
  BY DEF RowsInv, WideRecord, Current
<1>4. /\ rec' \in [Civilians -> WideRecord]
      /\ rec'[c] = WithAttachment(WithStart(rec[c], s, Current(c)), Current(c))
      /\ \A d \in Civilians \ {c} : rec'[d] = rec[d]
  BY <1>1, <1>3 DEF RowsInv, WithStart, WithAttachment, WideRecord
<1>5. /\ rec'[c].by = rec[c].by /\ rec'[c].ended = rec[c].ended
      /\ rec'[c].reached = Current(c)
      /\ rec'[c].rescue = (IF rec[c].rescue = 0 THEN Current(c) ELSE rec[c].rescue)
      /\ rec[c].start # 0 => rec'[c].start = rec[c].start /\ rec'[c].crew = rec[c].crew
      /\ rec[c].start = 0 => rec'[c].start = Current(c) /\ rec'[c].crew = s
  BY <1>3, <1>4 DEF WithStart, WithAttachment, WideRecord
<1>6. RowInv(c)'
  <2>1. CASE c \in safe
    <3>1. RowDone(c) /\ NotReachedAgain(c) /\ Current(c) = 2
      BY <1>2, <2>1 DEF RowsInv, RowInv, RowDone, ReachedAgain, EndedAgain, NotReachedAgain, Current
    <3>2. rec'[c].reached = 2 /\ rec'[c].ended = 1 /\ rec'[c].rescue = 1 /\ rec'[c].start = 1
          /\ rec'[c].crew # NoSar /\ rec'[c].by # {}
      BY <1>5, <3>1 DEF RowDone, NotReachedAgain
    <3>3. Under(c, "move")' /\ ~Under(c, "converge")' /\ ~Under(c, "deliver")'
      BY <1>1, <1>2 DEF Under
    <3> QED
      BY <1>1, <2>1, <3>2, <3>3 DEF RowInv, RowDone, ReachedAgain
  <2>2. CASE c \notin safe
    <3>1. RowInProgress(c) /\ rec[c].start \in {0, 1} /\ rec[c].ended = 0 /\ Current(c) = 1
      BY <1>1, <2>2 DEF RowsInv, RowInv, RowInProgress, Delivering, Current
    <3>2. ~Delivering(c)' /\ c \in attached' /\ c \notin safe' /\ c \in known'
      BY <1>1, <2>2 DEF Delivering
    <3> QED
      BY <1>1, <1>2, <1>5, <3>1, <3>2 DEF RowsInv, RowInv, RowInProgress
  <2> QED
    BY <2>1, <2>2
<1>7. ASSUME NEW d \in Civilians \ {c} PROVE RowInv(d)'
  <2>1. \A m : m.civ = d => (m \in Missions' <=> m \in Missions)
    BY <1>1, <1>2
  <2> QED
    BY <1>1, <1>4, <2>1, OthersStay
<1> QED
  BY <1>4, <1>6, <1>7 DEF RowsInv

\* The end is written before it is known whether anybody was left to rescue.
LEMMA ArriveKeepsRows ==
  ASSUME RowsInv, CrewInv, NEW s \in Sars, NEW c \in Civilians, ArriveRecorded(s, c)
  PROVE  RowsInv'
<1>1. /\ call = [op |-> "move", sar |-> s, civ |-> c]
      /\ call' = [op |-> "deliver", sar |-> s, civ |-> c]
      /\ UNCHANGED <<known, safe, rescuer, attached, tasks>>
      /\ rec' = [rec EXCEPT ![c] = WithEnd(@, Current(c))]
  BY DEF ArriveRecorded, Arrive, Enter
<1>2. /\ Missions = tasks \cup {call} /\ Missions' = tasks \cup {call'}
      /\ \A t \in tasks : t.civ # c
      /\ rescuer[c] = s /\ s # NoSar /\ c \in attached
      /\ Under(c, "move") /\ ~Under(c, "converge") /\ ~Under(c, "deliver")
  <2>1. Missions' = tasks \cup {call'}
    BY <1>1 DEF Missions, Running
  <2> QED
    BY <1>1, <2>1, RowOfRunning
<1>3. rec[c] \in WideRecord /\ Current(c) \in Nat
  BY DEF RowsInv, WideRecord, Current
<1>4. /\ rec' \in [Civilians -> WideRecord]
      /\ rec'[c] = WithEnd(rec[c], Current(c))
      /\ \A d \in Civilians \ {c} : rec'[d] = rec[d]
  BY <1>1, <1>3 DEF RowsInv, WithEnd, WideRecord
<1>5. /\ rec'[c].by = rec[c].by /\ rec'[c].ended = Current(c)
      /\ rec'[c].reached = rec[c].reached /\ rec'[c].rescue = rec[c].rescue
      /\ rec'[c].start = rec[c].start /\ rec'[c].crew = rec[c].crew
  BY <1>3, <1>4 DEF WithEnd, WideRecord
<1>6. RowInv(c)'
  <2>1. CASE c \in safe
    <3>1. RowDone(c) /\ ReachedAgain(c) /\ Current(c) = 2
      BY <1>2, <2>1 DEF RowsInv, RowInv, RowDone, ReachedAgain, EndedAgain, NotReachedAgain, Current
    <3>2. Assigned(c)' /\ ~Under(c, "move")' /\ ~Under(c, "converge")'
      BY <1>1, <1>2 DEF Under, Assigned
    <3>3. EndedAgain(c)'
      BY <1>5, <3>1, <3>2 DEF EndedAgain, ReachedAgain
    <3> QED
      BY <1>1, <1>5, <2>1, <3>1, <3>3 DEF RowInv, RowDone
  <2>2. CASE c \notin safe
    <3>1. RowInProgress(c) /\ rec[c].start \in {0, 1} /\ Current(c) = 1
      BY <1>1, <2>2 DEF RowsInv, RowInv, RowInProgress, Delivering, Current
    <3>2. Delivering(c)'
      BY <1>1 DEF Delivering
    <3> QED
      BY <1>1, <1>2, <1>5, <2>2, <3>1, <3>2 DEF RowsInv, RowInv, RowInProgress
  <2> QED
    BY <2>1, <2>2
<1>7. ASSUME NEW d \in Civilians \ {c} PROVE RowInv(d)'
  <2>1. \A m : m.civ = d => (m \in Missions' <=> m \in Missions)
    BY <1>1, <1>2
  <2> QED
    BY <1>1, <1>4, <2>1, OthersStay
<1> QED
  BY <1>4, <1>6, <1>7 DEF RowsInv

\* The row of a civilian that becomes safe is full, and no mission is left.
LEMMA DeliveryKeepsRows ==
  ASSUME RowsInv, CrewInv, NEW s \in Sars, NEW c \in Civilians, MarkAndForgetTracks(s, c)
  PROVE  RowsInv'
<1>1. /\ call = [op |-> "deliver", sar |-> s, civ |-> c]
      /\ call'.op = "scan"
      /\ c \notin safe /\ safe' = safe \cup {c} /\ attached' = attached \ {c}
      /\ rescuer' = [rescuer EXCEPT ![c] = NoSar]
      /\ UNCHANGED <<known, tasks, rec>>
  BY DEF MarkAndForgetTracks, MarkCivilianAsSafe, Safe, ForgetPair, Rescan, Control
<1>2. /\ Missions = tasks \cup {call} /\ Missions' = tasks
      /\ \A t \in tasks : t.civ # c
      /\ rescuer[c] = s /\ s # NoSar /\ c \in attached
  <2>1. Missions' = tasks
    BY <1>1 DEF Missions, Running
  <2> QED
    BY <1>1, <2>1, RowOfRunning
<1>3. RowInv(c)'
  <2>1. RowInProgress(c) /\ rec[c].start \in {0, 1} /\ Delivering(c) /\ c \in known
    BY <1>1, <1>2 DEF RowsInv, RowInv, RowInProgress, Delivering
  <2>2. rec[c].ended = 1 /\ rec[c].reached = 1 /\ rec[c].rescue = 1 /\ rec[c].start = 1
        /\ rec[c].crew # NoSar /\ rec[c].by # {}
    BY <1>2, <2>1 DEF RowsInv, RowInv, RowInProgress
  <2>3. ~Under(c, "move")' /\ ~Under(c, "deliver")'
    BY <1>2 DEF Under
  <2> QED
    BY <1>1, <2>2, <2>3 DEF RowInv, RowDone, NotReachedAgain
<1>4. ASSUME NEW d \in Civilians \ {c} PROVE RowInv(d)'
  <2>1. \A m : m.civ = d => (m \in Missions' <=> m \in Missions)
    BY <1>1, <1>2
  <2>2. rescuer'[d] = rescuer[d]
    BY <1>1 DEF CrewInv, TypeInv, TypeOK
  <2> QED
    BY <1>1, <2>1, <2>2, OthersStay
<1> QED
  BY <1>1, <1>3, <1>4 DEF RowsInv

\* A second delivery ends without a trace in the row.
LEMMA AlreadySafeKeepsRows ==
  ASSUME RowsInv, CrewInv, AlreadySafe, UNCHANGED rec
  PROVE  RowsInv'
<1>1. PICK s \in Sars, c \in Civilians : call = [op |-> "deliver", sar |-> s, civ |-> c]
  BY DEF AlreadySafe, CrewInv, TypeInv, TypeOK, Call, Mission
<1>2. /\ c \in safe /\ ~Running' /\ call'.op # "deliver"
      /\ UNCHANGED <<known, safe, rescuer, attached, tasks>>
  BY <1>1 DEF AlreadySafe, Safe, Return, After, Idle, Control, Running
<1>3. /\ Missions = tasks \cup {call} /\ Missions' = tasks
      /\ \A t \in tasks : t.civ # c
      /\ Under(c, "deliver")
  <2>1. Missions' = tasks
    BY <1>2 DEF Missions
  <2> QED
    BY <1>1, <2>1, RowOfRunning
<1>4. RowInv(c)'
  <2>1. RowDone(c) /\ EndedAgain(c)
    BY <1>2, <1>3 DEF RowsInv, RowInv, RowDone, NotReachedAgain, ReachedAgain
  <2>2. EndedAgain(c)'
    BY <1>2, <1>3, <2>1 DEF EndedAgain, Under, Assigned
  <2> QED
    BY <1>2, <2>1, <2>2 DEF RowInv, RowDone
<1>5. ASSUME NEW d \in Civilians \ {c} PROVE RowInv(d)'
  <2>1. \A m : m.civ = d => (m \in Missions' <=> m \in Missions)
    BY <1>1, <1>3
  <2> QED
    BY <1>1, <1>2, <2>1, OthersStay
<1> QED
  BY <1>2, <1>4, <1>5 DEF RowsInv

\* Each handler keeps the rows in step with the tables.
LEMMA RowsStep == RowsInv /\ CrewInv /\ [EventNext]_eventVars => RowsInv'
<1> SUFFICES ASSUME RowsInv, CrewInv, [EventNext]_eventVars
             PROVE  RowsInv'
  OBVIOUS
<1>1. ASSUME UNCHANGED <<safe, attached, rescuer, known, rec>>, Missions' = Missions,
             (call.op # "deliver" /\ call'.op # "deliver") \/ UNCHANGED call
      PROVE  RowsInv'
  <2>1. \A d \in Civilians : SameFor(d)
    BY <1>1 DEF SameFor, Under
  <2> QED
    BY <1>1, <2>1, RowStays DEF RowsInv
<1>2. CASE UNCHANGED eventVars \/ Ended \/ WriteDataset
  BY <1>1, <1>2 DEF eventVars, recordVars, dispatchVars, Ended, WriteDataset, Missions, Running
<1>3. CASE Unrecorded
  <2>1. UNCHANGED rec
    BY <1>3 DEF Unrecorded, recordVars
  <2>2. CASE AssignRescuer
    <3>1. call.op = "assign" /\ call.civ \in Civilians /\ ~Running
          /\ UNCHANGED <<known, safe, attached, tasks>>
      BY <2>2 DEF AssignRescuer, Running, CrewInv, TypeInv, TypeOK, Call, Mission
    <3>2. CASE Return /\ UNCHANGED rescuer
      <4>1. ~Running' /\ call'.op # "deliver"
        BY <3>2 DEF Return, After, Idle, Control, Running
      <4> QED
        BY <1>1, <2>1, <3>1, <3>2, <4>1 DEF Missions
    <3>3. CASE \E r \in FreeGround : ~Assigned(call.civ) /\ RecordAssignment(r, call.civ)
      BY <2>1, <3>1, <3>3, AssignmentKeepsRows
    <3> QED
      BY <2>2, <3>2, <3>3 DEF AssignRescuer
  <2>3. CASE AlreadySafe
    BY <2>1, <2>3, AlreadySafeKeepsRows
  <2>4. CASE ScanNext \/ ScanResume \/ ScanEnd \/ ScanDangling
    <3>1. UNCHANGED <<safe, attached, rescuer, known, tasks>> /\ ~Running /\ call.op # "deliver"
      BY <2>4 DEF ScanNext, ScanResume, ScanEnd, ScanDangling, Running
    <3>2. call'.op \in {"assign", "scan", "idle", "resume", "crashed"}
      <4>1. CASE ScanNext
        BY <4>1 DEF ScanNext, Enter
      <4>2. CASE ScanResume \/ ScanEnd \/ ScanDangling
        BY <4>2 DEF ScanResume, ScanEnd, ScanDangling, After, Idle, Control
      <4> QED
        BY <2>4, <4>1, <4>2
    <3>3. ~Running' /\ call'.op # "deliver"
      BY <3>2 DEF Running
    <3> QED
      BY <1>1, <2>1, <3>1, <3>3 DEF Missions
  <2>5. CASE \E c \in Civilians : ReportAtBase(c)
    BY <1>1, <2>1, <2>5 DEF ReportAtBase, Enter, Idle, Control, Missions, Running
  <2>6. ASSUME NEW t \in Task, RunTask(t) PROVE RowsInv'
    <3>1. UNCHANGED <<safe, attached, rescuer, known>> /\ call.op = "idle" /\ call' = t
          /\ t \in tasks /\ tasks' = tasks \ {t} /\ t.op \in {"converge", "move"}
      BY <2>6 DEF RunTask, Idle, Control, Task
    <3>2. Missions' = Missions
      BY <3>1 DEF Missions, Running
    <3> QED
      BY <1>1, <2>1, <3>1, <3>2
  <2>7. CASE CheckAllCiviliansSafe \/ Crashed
    BY <1>1, <2>1, <2>7 DEF CheckAllCiviliansSafe, Crashed, dispatchVars, Missions, Running
  <2> QED
    BY <1>3, <2>2, <2>3, <2>4, <2>5, <2>6, <2>7 DEF Unrecorded
<1>4. ASSUME NEW s \in Sars, NEW c \in Civilians, Discover(s, c) PROVE RowsInv'
  <2>1. /\ UNCHANGED <<safe, attached, rescuer, tasks, call>> /\ call.op = "idle"
        /\ known' = known \cup {c}
        /\ rec' = [rec EXCEPT ![c] = WithDiscoverer(@, s)]
    BY <1>4 DEF Discover, RecordDiscovery, Idle, Control
  <2>2. rec[c] \in WideRecord
    BY DEF RowsInv
  <2>3. WithDiscoverer(rec[c], s) \in WideRecord
    BY <2>2 DEF WithDiscoverer, WideRecord
  <2>4. /\ rec' \in [Civilians -> WideRecord]
        /\ rec'[c] = WithDiscoverer(rec[c], s)
        /\ \A d \in Civilians \ {c} : rec'[d] = rec[d]
    BY <2>1, <2>3 DEF RowsInv
  <2>5. /\ rec'[c].by = rec[c].by \cup {s}
        /\ rec'[c].crew = rec[c].crew /\ rec'[c].start = rec[c].start
        /\ rec'[c].reached = rec[c].reached /\ rec'[c].rescue = rec[c].rescue
        /\ rec'[c].ended = rec[c].ended
    BY <2>2, <2>4 DEF WithDiscoverer, WideRecord
  <2>6. Missions' = Missions
    BY <2>1 DEF Missions, Running
  <2> QED
    BY <2>1, <2>4, <2>5, <2>6, RowsStay
<1>5. ASSUME NEW s \in Sars, NEW c \in Civilians, CarryRecorded(s, c) PROVE RowsInv'
  <2>1. /\ UNCHANGED <<safe, attached, rescuer, known, rec>>
        /\ call = [op |-> "move", sar |-> s, civ |-> c] /\ tasks' = tasks \cup {call}
    BY <1>5 DEF CarryRecorded, Carry, Reschedule
  <2>2. ~Running' /\ call'.op # "deliver"
    BY <1>5 DEF CarryRecorded, Carry, Return, After, Idle, Control, Running
  <2>3. Missions' = Missions
    BY <2>1, <2>2 DEF Missions, Running
  <2> QED
    BY <1>1, <2>1, <2>2, <2>3
<1>6. ASSUME NEW s \in Sars, NEW c \in Civilians, SelfAssignAfresh(s, c) PROVE RowsInv'
  <2>1. /\ s \in FreeGround /\ ~Assigned(c) /\ RecordAssignment(s, c) /\ ~Running
        /\ UNCHANGED <<known, safe, attached, tasks, rec>>
    BY <1>6 DEF SelfAssignAfresh, SelfAssign, Idle, Control, Running
  <2> QED
    BY <2>1, AssignmentKeepsRows
<1> QED
  BY <1>2, <1>3, <1>4, <1>5, <1>6, ApproachKeepsRows, AttachKeepsRows, ArriveKeepsRows,
     DeliveryKeepsRows DEF EventNext

\* The rows hold in every state.
LEMMA RowsAlways == EventSpec => []RowsInv
  BY EventCrews, RowsInit, RowsStep, PTL DEF EventSpec

\* The row of a rescue in progress tells of its own crew and of what has happened,
\* the row of a safe civilian is that of its first mission, or of a second one as far
\* as it has come.
THEOREM RowsAreTold == EventSpec => []RowsTellTheRescue
<1>1. RowsInv => RowsTellTheRescue
  <2> SUFFICES ASSUME RowsInv, NEW c \in Civilians, c \in safe PROVE RowOfSafe(c)
    BY DEF RowsInv, RowInv, RowsTellTheRescue
  <2>1. RowDone(c)
    BY DEF RowsInv, RowInv
  <2> QED
    BY <2>1 DEF RowDone, NotReachedAgain, ReachedAgain, EndedAgain, Under, RowOfSafe
<1> QED
  BY <1>1, RowsAlways, PTL

\* Records are well formed, and no time in one is of a third mission.
THEOREM RecordsWellFormed == EventSpec => []RecordTypeOK
<1>1. EventInit => over \in BOOLEAN
  BY DEF EventInit
<1>2. over \in BOOLEAN /\ [EventNext]_eventVars => (over \in BOOLEAN)'
  BY DEF EventNext, Ended, WriteDataset, Unrecorded, recordVars, eventVars, Discover,
     ApproachRecorded, AttachRecorded, CarryRecorded, ArriveRecorded,
     MarkAndForgetTracks, SelfAssignAfresh
<1>3. RowsInv /\ TracksInv /\ over \in BOOLEAN => RecordTypeOK
  <2> SUFFICES ASSUME RowsInv, TracksInv, over \in BOOLEAN PROVE RecordTypeOK
    OBVIOUS
  <2>1. ASSUME NEW c \in Civilians PROVE rec[c] \in Record
    <3>1. rec[c] \in WideRecord /\ RowInv(c)
      BY DEF RowsInv
    <3>2. /\ rec[c].start \in MissionNo /\ rec[c].reached \in MissionNo
          /\ rec[c].rescue \in MissionNo /\ rec[c].ended \in MissionNo
      BY <3>1 DEF RowInv, RowInProgress, RowDone, NotReachedAgain, ReachedAgain,
         EndedAgain, MissionNo
    <3> QED
      BY <3>1, <3>2 DEF WideRecord, Record
  <2> QED
    BY <2>1 DEF RecordTypeOK, RowsInv, TracksInv
<1> QED
  BY <1>1, <1>2, <1>3, RowsAlways, TracksAlways, PTL DEF EventSpec
=============================================================================
