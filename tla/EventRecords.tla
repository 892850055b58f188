---------------------------- MODULE EventRecords ----------------------------
(***************************************************************************)
(* The event records of disc_con_dataset.cc, one per civilian, written by  *)
(* discovery and by every step of a mission, and the dataset of one row    *)
(* per record that is written when the run is over.  The module adds them  *)
(* to the handlers of RescueDispatch that write them.                      *)
(*                                                                         *)
(* Times are abstracted to what orders them: a time field holds the number *)
(* of the civilian's mission that last wrote it, 0 while it is the 0.0 of  *)
(* RecordDiscoveryEvent.  All times of mission 1 precede those of mission  *)
(* 2.  Positions are abstracted to the civilian for whom they were noted:  *)
(* a track is the set of civilians it has positions of.                    *)
(***************************************************************************)
EXTENDS RescueDispatch

VARIABLES
  rec,       \* civilian -> its record (g_discoveryConvergenceEvents)
  approach,  \* rescuer -> trackedConvergencePositions
  trip,      \* rescuer -> sarPreviousPositions
  over       \* the run has ended and the dataset is written

recordVars == <<rec, approach, trip, over>>
eventVars == <<dispatchVars, recordVars>>

MissionNo == 0 .. 2

Record == [by : SUBSET Sars,          \* discoveringNodeIds
           crew : Sars \cup {NoSar},  \* convergenceNodeIds, assignedNode
           start : MissionNo,         \* convergenceStartTime
           reached : MissionNo,       \* convergenceCompletionTime
           rescue : MissionNo,        \* rescueStartTime
           ended : MissionNo]         \* rescueEndTime

\* Records are well formed.  No civilian has more than two missions although
\* nothing limits them: the second one never gives its rescuer back.
RecordTypeOK ==
  /\ rec \in [Civilians -> Record]
  /\ approach \in [Sars -> SUBSET Civilians]
  /\ trip \in [Sars -> SUBSET Civilians]
  /\ over \in BOOLEAN

EventInit ==
  /\ DispatchInit
  /\ rec = [c \in Civilians |-> [by |-> {}, crew |-> NoSar, start |-> 0,
                                 reached |-> 0, rescue |-> 0, ended |-> 0]]
  /\ approach = [s \in Sars |-> {}]
  /\ trip = [s \in Sars |-> {}]
  /\ over = FALSE

-----------------------------------------------------------------------------
(* The functions that write a record.                                      *)

\* The mission under way for c: each ends by recording the end of a rescue.
Current(c) == rec[c].ended + 1

\* The first record keeps its time; later discoverers are added to its list.
WithDiscoverer(r, s) == [r EXCEPT !.by = @ \cup {s}]

\* Only once per event (loggedConvergenceStart).
RestartedEachTime(r, s, n) == [r EXCEPT !.crew = s, !.start = n]
WithStart(r, s, n) ==
  IF r.start # 0 THEN r ELSE [r EXCEPT !.crew = s, !.start = n]

\* The completion is written by every mission, the start of the rescue once
\* (loggedRescueStart).
WithAttachment(r, n) ==
  [r EXCEPT !.reached = n, !.rescue = IF @ = 0 THEN n ELSE @]

WithEnd(r, n) == [r EXCEPT !.ended = n]

\* Positions are noted under the rescuer's id, and dropped when a mission has
\* used them.
Note(track, s, c) == [track EXCEPT ![s] = @ \cup {c}]
KeepTrack(track, s) == track
Clear(track, s) == [track EXCEPT ![s] = {}]

-----------------------------------------------------------------------------
(* The handlers of RescueDispatch with the records they write.             *)

\* ProcessDiscoveryEvent, up to the record, for a rescuer that is not busy.
Discover(s, c) ==
  /\ s \notin assigned
  /\ RecordDiscovery(c)
  /\ rec' = [rec EXCEPT ![c] = WithDiscoverer(@, s)]
  /\ UNCHANGED <<approach, trip, over>>

ApproachRecorded(s, c) ==
  /\ Approach(s, c)
  /\ rec' = [rec EXCEPT ![c] = WithStart(@, s, Current(c))]
  /\ approach' = Note(approach, s, c)
  /\ UNCHANGED <<trip, over>>

\* The approach is used for the record of the attachment, then cleared.
AttachRecorded(s, c) ==
  /\ Attach(s, c)
  /\ rec' = [rec EXCEPT
               ![c] = WithAttachment(WithStart(@, s, Current(c)), Current(c))]
  /\ approach' = Clear(approach, s)
  /\ UNCHANGED <<trip, over>>

CarryRecorded(s, c) ==
  /\ Carry(s, c)
  /\ trip' = Note(trip, s, c)
  /\ UNCHANGED <<rec, approach, over>>

\* The end of the rescue is recorded before MarkCivilianAsSafe decides whether
\* there was anybody left to rescue.
ArriveRecorded(s, c) ==
  /\ Arrive(s, c)
  /\ rec' = [rec EXCEPT ![c] = WithEnd(@, Current(c))]
  /\ trip' = Clear(trip, s)
  /\ UNCHANGED <<approach, over>>

MarkAndForgetTracks(s, c) ==
  /\ MarkCivilianAsSafe(s, c)
  /\ approach' = Clear(approach, s)
  /\ trip' = Clear(trip, s)
  /\ UNCHANGED <<rec, over>>

SelfAssignAfresh(s, c) ==
  /\ SelfAssign(s, c)
  /\ approach' = Clear(approach, s)
  /\ trip' = Clear(trip, s)
  /\ UNCHANGED <<rec, over>>

\* Handlers that write no record.
Unrecorded ==
  /\ \/ AssignRescuer \/ AlreadySafe
     \/ ScanNext \/ ScanResume \/ ScanEnd \/ ScanDangling
     \/ \E c \in Civilians : ReportAtBase(c)
     \/ \E t \in Task : RunTask(t)
     \/ CheckAllCiviliansSafe
     \/ Crashed
  /\ UNCHANGED recordVars

\* WriteDiscoveryConvergenceDataset, after the last event of the run.
WriteDataset ==
  /\ call = Idle
  /\ over' = TRUE
  /\ UNCHANGED <<dispatchVars, rec, approach, trip>>

Ended == over /\ UNCHANGED eventVars

EventNext ==
  \/ /\ ~over
     /\ \/ \E s \in Sars, c \in Civilians :
             \/ Discover(s, c)
             \/ ApproachRecorded(s, c) \/ AttachRecorded(s, c)
             \/ CarryRecorded(s, c) \/ ArriveRecorded(s, c)
             \/ MarkAndForgetTracks(s, c)
             \/ SelfAssignAfresh(s, c)
        \/ Unrecorded
        \/ WriteDataset
  \/ Ended

EventSpec == EventInit /\ [][EventNext]_eventVars

-----------------------------------------------------------------------------
(* Properties.                                                             *)

Delivering(c) == call.op = "deliver" /\ call.civ = c

\* The row of a rescue in progress tells of nobody but the crew that is doing
\* it, and has no time of something that has not happened: no completion before
\* the attachment, no end before the base.
RowInProgress(c) ==
  /\ rec[c].start = 0 <=> rec[c].crew = NoSar
  /\ rec[c].crew # NoSar => rec[c].crew = rescuer[c] /\ c \in known
  /\ c \in attached => rec[c].crew # NoSar
  /\ rec[c].reached = rec[c].rescue
  /\ rec[c].reached = (IF c \in attached THEN 1 ELSE 0)
  /\ rec[c].ended = (IF Delivering(c) THEN 1 ELSE 0)

\* The row of a safe civilian is full, started by its first mission; its
\* completion and its end are those of the same mission, or a second one has
\* reached the civilian again and has not come back.
RowOfSafe(c) ==
  /\ rec[c].by # {} /\ rec[c].crew # NoSar
  /\ rec[c].start = 1 /\ rec[c].rescue = 1
  /\ rec[c].ended \in {1, 2}
  /\ rec[c].reached = rec[c].ended
       \/ /\ rec[c].reached = rec[c].ended + 1
          /\ \E m \in Missions : m.op = "move" /\ m.civ = c

\* Row and tables, written by different handlers, agree: see above.
RowsTellTheRescue ==
  \A c \in Civilians : IF c \in safe THEN RowOfSafe(c) ELSE RowInProgress(c)

\* Distances are summed over positions of the mission itself: a rescuer's
\* tracks never keep a position noted for an earlier civilian.
TracksOfThisMission ==
  \A s \in Sars, c \in Civilians :
    c \in approach[s] \cup trip[s] => rescuer[c] = s
=============================================================================
