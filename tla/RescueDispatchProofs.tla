------------------------ MODULE RescueDispatchProofs ------------------------
(***************************************************************************)
(* Proofs about RescueDispatch: for any number of civilians and rescuers,  *)
(* and any depth of nesting of the scan of the queue.                      *)
(***************************************************************************)
EXTENDS RescueDispatch, FiniteSetTheorems, SequenceTheorems, TLAPS

-----------------------------------------------------------------------------
(* Control.                                                                *)

\* A loop is running or suspended only if the stack holds it, and the
\* scheduler has control only when no loop is left.
ControlOK ==
  /\ call.op \in {"scan", "resume"} => scans # <<>>
  /\ call.op = "idle" => scans = <<>>

TypeInv == TypeOK /\ ControlOK

LEMMA CrewedCounted ==
  TypeOK => IsFiniteSet(Crewed) /\ Cardinality(Crewed) \in Nat
  BY FS_Subset, FS_CardinalityType, DispatchAssumption DEF Crewed

\* What After returns is a control state, and it resumes only a loop there is.
LEMMA AfterType ==
  ASSUME NEW loops \in Seq(Scan)
  PROVE  /\ After(loops) \in Call
         /\ After(loops) = Control("idle") \/ After(loops) = Control("resume")
         /\ After(loops).op \in {"idle", "resume"}
         /\ After(loops).op = "resume" => loops # <<>>
         /\ After(loops).op = "idle" => loops = <<>>
  BY DEF After, Idle, Control, Call

LEMMA TypeInit == DispatchInit => TypeInv
  BY DispatchAssumption DEF DispatchInit, TypeInv, TypeOK, ControlOK, Call, Sars

LEMMA EnterMissionType ==
  ASSUME NEW op \in {"converge", "move", "deliver"}, NEW s \in Sars, NEW c \in Civilians,
         Enter(op, s, c)
  PROVE  call' \in Call /\ call'.op = op /\ call'.sar = s /\ call'.civ = c
  BY DEF Enter, Call, Mission

\* Each step keeps the tables and the control state well formed.
LEMMA TypeStep == TypeInv /\ [DispatchNext]_dispatchVars => TypeInv'
<1> SUFFICES ASSUME TypeInv, [DispatchNext]_dispatchVars PROVE TypeInv'
  OBVIOUS
<1> USE DEF TypeInv
<1>0. CASE UNCHANGED dispatchVars
  BY <1>0 DEF dispatchVars, TypeOK, ControlOK
<1>1. CASE AssignRescuer
  <2>1. After(scans) \in Call /\ After(scans).op \in {"idle", "resume"}
        /\ (After(scans).op = "resume" => scans # <<>>) /\ (After(scans).op = "idle" => scans = <<>>)
    BY AfterType DEF TypeOK
  <2>2. call.civ \in Civilians
    BY <1>1 DEF AssignRescuer, TypeOK, Call, Mission
  <2>3. CASE Return /\ UNCHANGED <<rescuer, assigned>> /\ pending' \in {pending, pending \cup {call.civ}}
    BY <1>1, <2>1, <2>2, <2>3 DEF AssignRescuer, Return, TypeOK, ControlOK
  <2>4. CASE \E s \in FreeGround : RecordAssignment(s, call.civ) /\ UNCHANGED pending
    <3>1. PICK s \in FreeGround : RecordAssignment(s, call.civ)
      BY <2>4
    <3>2. s \in Sars
      BY DEF FreeGround, Sars
    <3>3. call' \in Call /\ call'.op = "converge"
      BY <2>2, <3>1, <3>2, EnterMissionType DEF RecordAssignment
    <3> QED
      BY <1>1, <2>2, <2>4, <3>1, <3>2, <3>3 DEF AssignRescuer, RecordAssignment, TypeOK, ControlOK
  <2> QED
    BY <1>1, <2>3, <2>4 DEF AssignRescuer, Queue
<1>2. ASSUME NEW s \in Sars, NEW c \in Civilians, Attach(s, c) PROVE TypeInv'
  <2>1. call' \in Call /\ call'.op = "move"
    BY <1>2, EnterMissionType DEF Attach
  <2> QED
    BY <1>2, <2>1 DEF Attach, TypeOK, ControlOK
<1>3. ASSUME NEW s \in Sars, NEW c \in Civilians, Approach(s, c) \/ Carry(s, c) PROVE TypeInv'
  <2>1. call' \in Call /\ call'.op \in {"idle", "resume"}
        /\ (call'.op = "resume" => scans # <<>>) /\ (call'.op = "idle" => scans = <<>>)
    BY <1>3, AfterType DEF Approach, Carry, Return, TypeOK
  <2>2. tasks' \subseteq Task
    BY <1>3 DEF Approach, Carry, Reschedule, TypeOK, Task
  <2>3. offset' \in [Sars -> Civilians \cup {NoCiv}]
    BY <1>3 DEF Approach, Carry, KeepOffset, TypeOK
  <2> QED
    BY <1>3, <2>1, <2>2, <2>3 DEF Approach, Carry, TypeOK, ControlOK
<1>4. ASSUME NEW s \in Sars, NEW c \in Civilians, Arrive(s, c) PROVE TypeInv'
  <2>1. call' \in Call /\ call'.op = "deliver"
    BY <1>4, EnterMissionType DEF Arrive
  <2>2. offset' \in [Sars -> Civilians \cup {NoCiv}]
    BY <1>4 DEF Arrive, KeepOffset, TypeOK
  <2> QED
    BY <1>4, <2>1, <2>2 DEF Arrive, TypeOK, ControlOK
<1>5. ASSUME NEW s \in Sars, NEW c \in Civilians, MarkCivilianAsSafe(s, c) PROVE TypeInv'
  <2>1. call' \in Call /\ call'.op = "scan"
    BY <1>5 DEF MarkCivilianAsSafe, Rescan, Control, Call
  <2>2. [visited |-> {}, cur |-> NoCiv, size |-> 0] \in Scan
    BY DEF Scan
  <2>3. scans' \in Seq(Scan) /\ scans' # <<>>
    BY <1>5, <2>2 DEF MarkCivilianAsSafe, Rescan, TypeOK
  <2> QED
    BY <1>5, <2>1, <2>3 DEF MarkCivilianAsSafe, Rescan, ForgetPair, TypeOK, ControlOK
<1>6. CASE AlreadySafe
  <2>1. call' \in Call /\ call'.op \in {"idle", "resume"}
        /\ (call'.op = "resume" => scans # <<>>) /\ (call'.op = "idle" => scans = <<>>)
    BY <1>6, AfterType DEF AlreadySafe, Return, TypeOK
  <2> QED
    BY <1>6, <2>1 DEF AlreadySafe, TypeOK, ControlOK
<1>7. CASE ScanNext
  <2>1. scans # <<>>
    BY <1>7 DEF ScanNext, ControlOK
  <2>2. PICK c \in Unvisited :
          /\ scans' = <<[visited |-> Head(scans).visited \cup {c}, cur |-> c,
                         size |-> Cardinality(Crewed)]>> \o Tail(scans)
          /\ Enter("assign", NoSar, c)
    BY <1>7 DEF ScanNext
  <2>3. c \in Civilians /\ Head(scans) \in Scan /\ Tail(scans) \in Seq(Scan)
    BY <2>1, <2>2 DEF Unvisited, TypeOK
  <2>4. [visited |-> Head(scans).visited \cup {c}, cur |-> c, size |-> Cardinality(Crewed)] \in Scan
    BY <2>3, CrewedCounted DEF Scan
  <2>5. scans' \in Seq(Scan) /\ scans' # <<>>
    BY <2>2, <2>3, <2>4
  <2>6. call' \in Call /\ call'.op = "assign"
    BY <2>2, <2>3 DEF Enter, Call
  <2> QED
    BY <1>7, <2>5, <2>6 DEF ScanNext, TypeOK, ControlOK
<1>8. CASE ScanResume
  <2>1. call' \in Call /\ call'.op = "scan"
    BY <1>8 DEF ScanResume, Control, Call
  <2>2. pending' \subseteq Civilians
    BY <1>8 DEF ScanResume, TypeOK
  <2> QED
    BY <1>8, <2>1, <2>2 DEF ScanResume, TypeOK, ControlOK
<1>9. CASE ScanEnd \/ ScanDangling
  <2>1. scans # <<>>
    BY <1>9 DEF ScanEnd, ScanDangling, ControlOK
  <2>2. Tail(scans) \in Seq(Scan)
    BY <2>1 DEF TypeOK
  <2>3. CASE scans' = Tail(scans) /\ call' = After(Tail(scans))
    <3>1. call' \in Call /\ call'.op \in {"idle", "resume"}
          /\ (call'.op = "resume" => scans' # <<>>) /\ (call'.op = "idle" => scans' = <<>>)
      BY <2>2, <2>3, AfterType
    <3> QED
      BY <1>9, <2>2, <2>3, <3>1 DEF ScanEnd, ScanDangling, TypeOK, ControlOK
  <2>4. CASE call' = Control("crashed") /\ UNCHANGED scans
    <3>1. call' \in Call /\ call'.op = "crashed"
      BY <2>4 DEF Control, Call
    <3> QED
      BY <1>9, <2>4, <3>1 DEF ScanEnd, ScanDangling, TypeOK, ControlOK
  <2> QED
    BY <1>9, <2>3, <2>4 DEF ScanEnd, ScanDangling
<1>10. ASSUME NEW c \in Civilians, RecordDiscovery(c) PROVE TypeInv'
  BY <1>10 DEF RecordDiscovery, TypeOK, ControlOK
<1>11. ASSUME NEW c \in Civilians, ReportAtBase(c) PROVE TypeInv'
  <2>1. call' \in Call /\ call'.op = "assign"
    BY <1>11 DEF ReportAtBase, Enter, Call
  <2> QED
    BY <1>11, <2>1 DEF ReportAtBase, TypeOK, ControlOK
<1>12. ASSUME NEW s \in Sars, NEW c \in Civilians, SelfAssign(s, c) PROVE TypeInv'
  <2>1. call' \in Call /\ call'.op = "converge"
    BY <1>12, EnterMissionType DEF SelfAssign, RecordAssignment
  <2> QED
    BY <1>12, <2>1 DEF SelfAssign, RecordAssignment, TypeOK, ControlOK
<1>13. ASSUME NEW t \in Task, RunTask(t) PROVE TypeInv'
  <2>1. call' \in Call /\ call'.op \in {"converge", "move"}
    BY <1>13 DEF RunTask, Task, Call, Mission
  <2> QED
    BY <1>13, <2>1 DEF RunTask, TypeOK, ControlOK
<1>14. CASE CheckAllCiviliansSafe
  BY <1>14 DEF CheckAllCiviliansSafe, TypeOK, ControlOK
<1>15. CASE Crashed
  BY <1>15 DEF Crashed, dispatchVars, TypeOK, ControlOK
<1> QED
  BY <1>0, <1>1, <1>2, <1>3, <1>4, <1>5, <1>6, <1>7, <1>8, <1>9, <1>10, <1>11, <1>12, <1>13,
     <1>14, <1>15 DEF DispatchNext, Cascade, Event

\* The tables always hold node ids of the right kind, and the control state is
\* always one that the functions of convergence.cc and rescue.cc can be in.
THEOREM TypeCorrect == DispatchSpec => [](TypeOK /\ ControlOK)
<1>1. DispatchSpec => []TypeInv
  BY TypeInit, TypeStep, PTL DEF DispatchSpec
<1> QED
  BY <1>1, PTL DEF TypeInv

-----------------------------------------------------------------------------
(* Crews and missions.                                                     *)

\* What a rescuer keeps of a civilian is kept for the civilian it is assigned:
\* the offset of an earlier pair is gone before the rescuer is free again.
OffsetOfCrew ==
  \A s \in Sars : offset[s] # NoCiv => rescuer[offset[s]] = s

\* A pair moves only when the civilian is attached.
MovingIsAttached ==
  \A m \in Missions : m.op \in {"move", "deliver"} => m.civ \in attached

CrewInv ==
  /\ TypeInv
  /\ CrewsMatchAssignments
  /\ OneMissionPerRescuer
  /\ NoStrandedCivilian
  /\ AttachedToCrew
  /\ OffsetOfCrew
  /\ MovingIsAttached

LEMMA CrewInit == DispatchInit => CrewInv
<1> SUFFICES ASSUME DispatchInit PROVE CrewInv
  OBVIOUS
<1>1. TypeInv
  BY TypeInit
<1>2. Crewed = {} /\ Missions = {} /\ ~Running
  BY DEF DispatchInit, Crewed, Assigned, Missions, Running
<1> QED
  BY <1>1, <1>2 DEF DispatchInit, CrewInv, CrewsMatchAssignments, OneMissionPerRescuer,
       NoStrandedCivilian, AttachedToCrew, OffsetOfCrew, MovingIsAttached, Missions

\* The crews depend on these variables and on the missions only.
LEMMA CrewFrame ==
  ASSUME CrewInv, TypeInv',
         UNCHANGED <<safe, rescuer, assigned, attached, towing, offset>>,
         Missions' = Missions, tasks' = tasks, Running' => Running /\ call' = call
  PROVE  CrewInv'
<1> USE DEF CrewInv
<1>1. Crewed' = Crewed
  BY DEF Crewed, Assigned
<1>2. CrewsMatchAssignments'
  BY <1>1 DEF CrewsMatchAssignments
<1>3. OneMissionPerRescuer'
  BY DEF OneMissionPerRescuer
<1>4. NoStrandedCivilian'
  BY <1>1 DEF NoStrandedCivilian
<1>5. AttachedToCrew'
  BY DEF AttachedToCrew, Assigned
<1>6. OffsetOfCrew' /\ MovingIsAttached'
  BY DEF OffsetOfCrew, MovingIsAttached
<1> QED
  BY <1>1, <1>2, <1>3, <1>4, <1>5, <1>6

\* Giving a free rescuer to a civilian without one starts the one mission of
\* both, whether the base or the rescuer decides.
LEMMA RecordKeepsCrews ==
  ASSUME CrewInv, TypeInv', NEW s \in FreeGround, NEW c \in Civilians,
         ~Assigned(c), ~Running, RecordAssignment(s, c),
         UNCHANGED <<safe, attached, tasks>>,
         \A r \in Sars \ {s} : towing'[r] = towing[r] /\ offset'[r] = offset[r],
         offset'[s] \in {offset[s], NoCiv}
  PROVE  CrewInv'
<1> USE DEF CrewInv
<1>1. s \in Sars /\ s \notin assigned /\ s # NoSar
  BY DispatchAssumption DEF FreeGround, Sars
<1>2. rescuer' = [rescuer EXCEPT ![c] = s] /\ rescuer[c] = NoSar
  BY DEF RecordAssignment, Assigned
<1>3. Crewed' = Crewed \cup {c} /\ c \notin Crewed
  BY <1>1, <1>2 DEF Crewed, Assigned, TypeInv, TypeOK
<1>4. \A d \in Crewed : rescuer[d] # s
  BY <1>1 DEF CrewsMatchAssignments
<1>5. CrewsMatchAssignments'
  <2>1. assigned' = assigned \cup {s}
    BY DEF RecordAssignment
  <2>2. \A d \in Crewed : rescuer'[d] = rescuer[d]
    BY <1>2, <1>3 DEF Crewed, TypeInv, TypeOK
  <2>3. rescuer'[c] = s
    BY <1>2 DEF TypeInv, TypeOK
  <2> QED
    BY <1>3, <1>4, <2>1, <2>2, <2>3 DEF CrewsMatchAssignments
<1>6. Missions = tasks /\ Missions' = tasks \cup {call'} /\ Running'
      /\ call'.op = "converge" /\ call'.sar = s /\ call'.civ = c
  BY DEF RecordAssignment, Enter, Missions, Running
<1>7. \A m \in tasks : m.sar \in Sars /\ m.civ \in Civilians /\ m.civ \in Crewed /\ m.sar # s
  <2> SUFFICES ASSUME NEW m \in tasks
               PROVE  m.sar \in Sars /\ m.civ \in Civilians /\ m.civ \in Crewed /\ m.sar # s
    OBVIOUS
  <2>1. m.sar \in Sars /\ m.civ \in Civilians
    BY DEF TypeInv, TypeOK, Task
  <2>2. rescuer[m.civ] = m.sar
    BY <1>6 DEF OneMissionPerRescuer
  <2> QED
    BY <1>4, <2>1, <2>2, DispatchAssumption DEF Crewed, Assigned
<1>8. OneMissionPerRescuer'
  <2>1. \A m \in tasks : rescuer'[m.civ] = m.sar
    BY <1>2, <1>3, <1>6, <1>7 DEF OneMissionPerRescuer, TypeInv, TypeOK
  <2>2. rescuer'[call'.civ] = call'.sar
    BY <1>2, <1>6 DEF TypeInv, TypeOK
  <2> QED
    BY <1>6, <1>7, <2>1, <2>2 DEF OneMissionPerRescuer
<1>9. NoStrandedCivilian'
  BY <1>3, <1>6 DEF NoStrandedCivilian
<1>10. AttachedToCrew'
  <2> SUFFICES ASSUME NEW d \in attached
               PROVE  Assigned(d)' /\ (d \notin safe => towing'[rescuer'[d]] = d)
    BY DEF AttachedToCrew
  <2>1. d \in Crewed /\ rescuer'[d] = rescuer[d] /\ rescuer[d] \in Sars \ {s}
    BY <1>2, <1>3, <1>4 DEF AttachedToCrew, Crewed, Assigned, TypeInv, TypeOK
  <2> QED
    BY <2>1 DEF AttachedToCrew, Crewed, Assigned
<1>11. OffsetOfCrew'
  <2> SUFFICES ASSUME NEW r \in Sars, offset'[r] # NoCiv
               PROVE  rescuer'[offset'[r]] = r
    BY DEF OffsetOfCrew
  <2>1. CASE r = s
    <3>1. offset[s] # NoCiv /\ offset[s] \in Civilians
      BY <1>1, <2>1 DEF TypeInv, TypeOK
    <3>2. offset[s] \in Crewed
      BY <1>1, <3>1 DEF OffsetOfCrew, Crewed, Assigned
    <3> QED
      BY <1>1, <1>4, <3>1, <3>2 DEF OffsetOfCrew
  <2>2. CASE r # s
    <3>1. offset'[r] = offset[r] /\ rescuer[offset[r]] = r /\ offset[r] \in Civilians
      BY <2>2 DEF OffsetOfCrew, TypeInv, TypeOK
    <3>2. offset[r] # c
      BY <1>2, <3>1, DispatchAssumption
    <3> QED
      BY <1>2, <3>1, <3>2 DEF TypeInv, TypeOK
  <2> QED
    BY <2>1, <2>2
<1>12. MovingIsAttached'
  BY <1>6 DEF MovingIsAttached
<1> QED
  BY <1>5, <1>8, <1>9, <1>10, <1>11, <1>12

\* The mission being run is its rescuer's and its civilian's only one.
LEMMA RunningMission ==
  ASSUME CrewInv, Running
  PROVE  /\ call \in Mission /\ call.sar \in Sars /\ call.civ \in Civilians
         /\ rescuer[call.civ] = call.sar /\ call.civ \in Crewed
         /\ Missions = tasks \cup {call}
         /\ \A t \in tasks : t.sar # call.sar /\ t.civ # call.civ
<1> USE DEF CrewInv
<1>1. call \in Mission /\ call.sar \in Sars /\ call.civ \in Civilians
  BY DEF Running, TypeInv, TypeOK, Call, Mission
<1>2. Missions = tasks \cup {call}
  BY DEF Missions
<1>3. rescuer[call.civ] = call.sar
  BY <1>2 DEF OneMissionPerRescuer
<1>4. call.civ \in Crewed
  BY <1>1, <1>3, DispatchAssumption DEF Crewed, Assigned
<1>5. \A t \in tasks : t.sar # call.sar /\ t.civ # call.civ
  BY <1>2, <1>3 DEF OneMissionPerRescuer
<1> QED
  BY <1>1, <1>2, <1>3, <1>4, <1>5

\* A mission that goes on, in this handler or in a later step, keeps the crews.
LEMMA MissionGoesOn ==
  ASSUME CrewInv, TypeInv', Running,
         UNCHANGED <<safe, rescuer, assigned>>,
         attached \subseteq attached', attached' \subseteq attached \cup {call.civ},
         \A r \in Sars \ {call.sar} : towing'[r] = towing[r] /\ offset'[r] = offset[r],
         towing'[call.sar] \in {towing[call.sar], call.civ},
         call.civ \in attached' \ attached => towing'[call.sar] = call.civ,
         offset'[call.sar] \in {offset[call.sar], call.civ},
         NEW m, m.sar = call.sar, m.civ = call.civ,
         m.op \in {"move", "deliver"} => call.civ \in attached',
         \/ tasks' = tasks /\ Running' /\ call' = m
         \/ tasks' = tasks \cup {m} /\ ~Running'
  PROVE  CrewInv'
<1> USE DEF CrewInv
<1>1. /\ call.sar \in Sars /\ call.civ \in Civilians
      /\ rescuer[call.civ] = call.sar /\ call.civ \in Crewed
      /\ Missions = tasks \cup {call}
      /\ \A t \in tasks : t.sar # call.sar /\ t.civ # call.civ
  BY RunningMission
<1>2. Missions' = tasks \cup {m}
  BY DEF Missions
<1>3. Crewed' = Crewed /\ CrewsMatchAssignments'
  BY DEF Crewed, Assigned, CrewsMatchAssignments
<1>4. OneMissionPerRescuer'
  BY <1>1, <1>2 DEF OneMissionPerRescuer
<1>5. NoStrandedCivilian'
  BY <1>1, <1>2, <1>3 DEF NoStrandedCivilian
<1>6. AttachedToCrew'
  <2> SUFFICES ASSUME NEW d \in attached'
               PROVE  Assigned(d)' /\ (d \notin safe => towing'[rescuer[d]] = d)
    BY DEF AttachedToCrew
  <2>1. CASE d = call.civ
    BY <1>1, <2>1, DispatchAssumption DEF AttachedToCrew, Assigned, Crewed
  <2>2. CASE d # call.civ
    <3>1. d \in attached /\ d \in Crewed /\ rescuer[d] # call.sar
      BY <1>1, <2>2 DEF AttachedToCrew, CrewsMatchAssignments, Crewed, TypeInv, TypeOK
    <3>2. rescuer[d] \in Sars
      BY <3>1 DEF Crewed, Assigned, TypeInv, TypeOK
    <3> QED
      BY <3>1, <3>2 DEF AttachedToCrew, Assigned
  <2> QED
    BY <2>1, <2>2
<1>7. OffsetOfCrew'
  BY <1>1 DEF OffsetOfCrew
<1>8. MovingIsAttached'
  BY <1>1, <1>2 DEF MovingIsAttached
<1> QED
  BY <1>3, <1>4, <1>5, <1>6, <1>7, <1>8

\* Delivering a civilian frees its rescuer and leaves nothing of the pair behind.
LEMMA DeliveryKeepsCrews ==
  ASSUME CrewInv, TypeInv', NEW s \in Sars, NEW c \in Civilians, MarkCivilianAsSafe(s, c)
  PROVE  CrewInv'
<1> USE DEF CrewInv
<1>1. /\ Running /\ call.sar = s /\ call.civ = c
      /\ rescuer[c] = s /\ c \in Crewed
      /\ Missions = tasks \cup {call}
      /\ \A t \in tasks : t.sar # s /\ t.civ # c
  BY RunningMission DEF MarkCivilianAsSafe, Running
<1>2. ~Running' /\ Missions' = tasks /\ tasks' = tasks
  BY DEF MarkCivilianAsSafe, Rescan, Control, Running, Missions
<1>3. rescuer' = [rescuer EXCEPT ![c] = NoSar] /\ Crewed' = Crewed \ {c}
      /\ \A d \in Civilians \ {c} : rescuer'[d] = rescuer[d]
  BY DEF MarkCivilianAsSafe, Crewed, Assigned, TypeInv, TypeOK
<1>4. CrewsMatchAssignments'
  <2>1. assigned' = assigned \ {s}
    BY DEF MarkCivilianAsSafe
  <2>2. \A d \in Crewed \ {c} : rescuer[d] # s /\ rescuer'[d] = rescuer[d]
    BY <1>1, <1>3 DEF CrewsMatchAssignments, Crewed
  <2> QED
    BY <1>1, <1>3, <2>1, <2>2 DEF CrewsMatchAssignments
<1>5. OneMissionPerRescuer'
  <2>1. \A t \in tasks : t.civ \in Civilians \ {c}
    BY <1>1 DEF TypeInv, TypeOK, Task
  <2> QED
    BY <1>1, <1>2, <1>3, <2>1 DEF OneMissionPerRescuer
<1>6. NoStrandedCivilian'
  BY <1>1, <1>2, <1>3 DEF NoStrandedCivilian, MarkCivilianAsSafe
<1>7. AttachedToCrew'
  <2> SUFFICES ASSUME NEW d \in attached'
               PROVE  Assigned(d)' /\ (d \notin safe' => towing'[rescuer'[d]] = d)
    BY DEF AttachedToCrew
  <2>1. d \in attached /\ d # c /\ d \in Civilians
    BY DEF MarkCivilianAsSafe, ForgetPair, TypeInv, TypeOK
  <2>2. d \in Crewed /\ rescuer'[d] = rescuer[d] /\ rescuer[d] # s /\ rescuer[d] \in Sars
    BY <1>1, <1>3, <2>1 DEF AttachedToCrew, CrewsMatchAssignments, Crewed, Assigned, TypeInv, TypeOK
  <2>3. towing'[rescuer[d]] = towing[rescuer[d]]
    BY <2>2 DEF MarkCivilianAsSafe, ForgetPair, TypeInv, TypeOK
  <2> QED
    BY <2>1, <2>2, <2>3 DEF AttachedToCrew, Crewed, Assigned, MarkCivilianAsSafe
<1>8. OffsetOfCrew'
  <2> SUFFICES ASSUME NEW r \in Sars, offset'[r] # NoCiv
               PROVE  rescuer'[offset'[r]] = r
    BY DEF OffsetOfCrew
  <2>1. r # s /\ offset'[r] = offset[r] /\ offset[r] \in Civilians
    BY DEF MarkCivilianAsSafe, ForgetPair, TypeInv, TypeOK
  <2>2. rescuer[offset[r]] = r /\ offset[r] # c
    BY <1>1, <2>1 DEF OffsetOfCrew
  <2> QED
    BY <1>3, <2>1, <2>2
<1>9. MovingIsAttached'
  <2>1. attached' = attached \ {c}
    BY DEF MarkCivilianAsSafe, ForgetPair
  <2> QED
    BY <1>1, <1>2, <2>1 DEF MovingIsAttached
<1> QED
  BY <1>4, <1>5, <1>6, <1>7, <1>8, <1>9

\* A scheduled step that is taken leaves the schedule and becomes the call.
LEMMA RunTaskKeepsCrews ==
  ASSUME CrewInv, TypeInv', NEW t \in Task, RunTask(t)
  PROVE  CrewInv'
<1> USE DEF CrewInv
<1>1. ~Running /\ Running' /\ call' = t /\ tasks' = tasks \ {t} /\ t \in tasks
  BY DEF RunTask, Idle, Control, Running, Task
<1>2. Missions' = Missions
  BY <1>1 DEF Missions
<1>3. UNCHANGED <<safe, rescuer, assigned, attached, towing, offset>> /\ Crewed' = Crewed
  BY DEF RunTask, Crewed, Assigned
<1>4. OneMissionPerRescuer'
  BY <1>1, <1>2, <1>3 DEF OneMissionPerRescuer
<1> QED
  BY <1>2, <1>3, <1>4 DEF CrewsMatchAssignments, NoStrandedCivilian, AttachedToCrew,
       OffsetOfCrew, MovingIsAttached, Assigned

\* A mission for a civilian already safe ends; its rescuer stays assigned.
LEMMA AlreadySafeKeepsCrews ==
  ASSUME CrewInv, TypeInv', AlreadySafe
  PROVE  CrewInv'
<1> USE DEF CrewInv
<1>1. Running /\ call.civ \in safe
  BY DEF AlreadySafe, Safe, Running
<1>2. ~Running' /\ tasks' = tasks
  BY DEF AlreadySafe, Return, After, Idle, Control, Running
<1>3. Missions = tasks \cup {call} /\ Missions' = tasks
  BY <1>1, <1>2 DEF Missions
<1>4. UNCHANGED <<safe, rescuer, assigned, attached, towing, offset>> /\ Crewed' = Crewed
  BY DEF AlreadySafe, Crewed, Assigned
<1>5. OneMissionPerRescuer' /\ MovingIsAttached'
  BY <1>2, <1>3, <1>4 DEF OneMissionPerRescuer, MovingIsAttached
<1>6. NoStrandedCivilian'
  BY <1>1, <1>3, <1>4 DEF NoStrandedCivilian
<1> QED
  BY <1>4, <1>5, <1>6 DEF CrewsMatchAssignments, AttachedToCrew, OffsetOfCrew, Assigned

\* The status report forgets only what was kept for safe civilians.
LEMMA SweepKeepsCrews ==
  ASSUME CrewInv, TypeInv', CheckAllCiviliansSafe
  PROVE  CrewInv'
<1> USE DEF CrewInv
<1>1. UNCHANGED <<safe, rescuer, assigned, attached, offset, tasks, call>>
  BY DEF CheckAllCiviliansSafe
<1>2. Crewed' = Crewed /\ Missions' = Missions /\ (Running' <=> Running)
  BY <1>1 DEF Crewed, Assigned, Missions, Running
<1>3. AttachedToCrew'
  <2> SUFFICES ASSUME NEW d \in attached
               PROVE  Assigned(d)' /\ (d \notin safe => towing'[rescuer[d]] = d)
    BY <1>1 DEF AttachedToCrew
  <2>1. d \in Crewed /\ rescuer[d] \in Sars
    BY DEF AttachedToCrew, Crewed, Assigned, TypeInv, TypeOK
  <2> QED
    BY <1>1, <2>1 DEF AttachedToCrew, CheckAllCiviliansSafe, Assigned
<1> QED
  BY <1>1, <1>2, <1>3 DEF CrewsMatchAssignments, OneMissionPerRescuer, NoStrandedCivilian,
       OffsetOfCrew, MovingIsAttached

LEMMA CrewStep == CrewInv /\ [DispatchNext]_dispatchVars => CrewInv'
<1> SUFFICES ASSUME CrewInv, [DispatchNext]_dispatchVars PROVE CrewInv'
  OBVIOUS
<1>0. TypeInv /\ TypeInv'
  BY TypeStep DEF CrewInv
<1>1. CASE UNCHANGED dispatchVars \/ Crashed
  <2>1. UNCHANGED <<safe, rescuer, assigned, attached, towing, offset, tasks, call>>
    BY <1>1 DEF dispatchVars, Crashed
  <2> QED
    BY <1>0, <2>1, CrewFrame DEF Missions, Running
<1>2. CASE AssignRescuer
  <2>1. ~Running /\ Missions = tasks /\ UNCHANGED <<safe, attached, towing, offset, tasks>>
    BY <1>2 DEF AssignRescuer, Running, Missions
  <2>2. CASE Return /\ UNCHANGED <<rescuer, assigned>>
    <3>1. ~Running' /\ Missions' = tasks
      BY <2>1, <2>2 DEF Return, After, Idle, Control, Running, Missions
    <3> QED
      BY <1>0, <2>1, <2>2, <3>1, CrewFrame
  <2>3. CASE ~Assigned(call.civ) /\ \E s \in FreeGround : RecordAssignment(s, call.civ)
    <3>1. call.civ \in Civilians
      BY <1>0, <1>2 DEF AssignRescuer, TypeInv, TypeOK, Call, Mission
    <3> QED
      BY <1>0, <2>1, <2>3, <3>1, RecordKeepsCrews
  <2> QED
    BY <1>2, <2>2, <2>3 DEF AssignRescuer
<1>3. ASSUME NEW s \in Sars, NEW c \in Civilians, Attach(s, c) PROVE CrewInv'
  <2>1. Running /\ Running' /\ call.sar = s /\ call.civ = c /\ call'.sar = s /\ call'.civ = c
    BY <1>3 DEF Attach, Enter, Running
  <2>2. \A r \in Sars \ {s} : towing'[r] = towing[r]
    BY <1>0, <1>3 DEF Attach, TypeInv, TypeOK
  <2>3. towing'[s] = c
    BY <1>0, <1>3 DEF Attach, TypeInv, TypeOK
  <2> QED
    BY <1>0, <1>3, <2>1, <2>2, <2>3, MissionGoesOn DEF Attach
<1>4. ASSUME NEW s \in Sars, NEW c \in Civilians, Approach(s, c) PROVE CrewInv'
  <2>1. Running /\ ~Running' /\ call.sar = s /\ call.civ = c /\ call.op = "converge"
    BY <1>4 DEF Approach, Return, After, Idle, Control, Running
  <2> QED
    BY <1>0, <1>4, <2>1, MissionGoesOn DEF Approach, Reschedule
<1>5. ASSUME NEW s \in Sars, NEW c \in Civilians, Carry(s, c) \/ Arrive(s, c) PROVE CrewInv'
  <2>1. Running /\ call.sar = s /\ call.civ = c /\ call.op = "move"
    BY <1>5 DEF Carry, Arrive, Running
  <2>2. call.civ \in attached
    BY <2>1 DEF CrewInv, MovingIsAttached, Missions
  <2>3. /\ \A r \in Sars \ {s} : offset'[r] = offset[r]
        /\ offset'[s] \in {offset[s], c}
    BY <1>0, <1>5 DEF Carry, Arrive, KeepOffset, TypeInv, TypeOK
  <2>4. CASE Carry(s, c)
    <3>1. ~Running'
      BY <2>4 DEF Carry, Return, After, Idle, Control, Running
    <3> QED
      BY <1>0, <2>1, <2>2, <2>3, <2>4, <3>1, MissionGoesOn DEF Carry, Reschedule
  <2>5. CASE Arrive(s, c)
    <3>1. Running' /\ call'.sar = s /\ call'.civ = c
      BY <2>5 DEF Arrive, Enter, Running
    <3> QED
      BY <1>0, <2>1, <2>2, <2>3, <2>5, <3>1, MissionGoesOn DEF Arrive
  <2> QED
    BY <1>5, <2>4, <2>5
<1>6. ASSUME NEW s \in Sars, NEW c \in Civilians, MarkCivilianAsSafe(s, c) PROVE CrewInv'
  BY <1>0, <1>6, DeliveryKeepsCrews
<1>7. CASE AlreadySafe
  BY <1>0, <1>7, AlreadySafeKeepsCrews
<1>8. CASE ScanNext \/ ScanResume \/ ScanEnd \/ ScanDangling
  <2>1. ~Running
    BY <1>8 DEF ScanNext, ScanResume, ScanEnd, ScanDangling, Running
  <2>2. CASE ScanNext
    BY <1>0, <2>1, <2>2, CrewFrame DEF ScanNext, Enter, Running, Missions
  <2>3. CASE ScanResume
    BY <1>0, <2>1, <2>3, CrewFrame DEF ScanResume, Control, Running, Missions
  <2>4. CASE ScanEnd \/ ScanDangling
    <3>1. call'.op \in {"idle", "resume", "crashed"}
      BY <2>4 DEF ScanEnd, ScanDangling, After, Idle, Control
    <3>2. ~Running'
      BY <3>1 DEF Running
    <3> QED
      BY <1>0, <2>1, <2>4, <3>2, CrewFrame DEF ScanEnd, ScanDangling, Missions
  <2> QED
    BY <1>8, <2>2, <2>3, <2>4
<1>9. ASSUME NEW c \in Civilians, RecordDiscovery(c) \/ ReportAtBase(c) PROVE CrewInv'
  <2>1. ~Running /\ ~Running'
    BY <1>9 DEF RecordDiscovery, ReportAtBase, Enter, Idle, Control, Running
  <2>2. UNCHANGED <<safe, rescuer, assigned, attached, towing, offset, tasks>>
    BY <1>9 DEF RecordDiscovery, ReportAtBase
  <2> QED
    BY <1>0, <2>1, <2>2, CrewFrame DEF Missions
<1>10. ASSUME NEW s \in Sars, NEW c \in Civilians, SelfAssign(s, c) PROVE CrewInv'
  <2>1. ~Running
    BY <1>10 DEF SelfAssign, Idle, Control, Running
  <2>2. \A r \in Sars \ {s} : towing'[r] = towing[r] /\ offset'[r] = offset[r]
    BY <1>0, <1>10 DEF SelfAssign, TypeInv, TypeOK
  <2>3. offset'[s] = NoCiv
    BY <1>0, <1>10 DEF SelfAssign, TypeInv, TypeOK
  <2> QED
    BY <1>0, <1>10, <2>1, <2>2, <2>3, RecordKeepsCrews DEF SelfAssign
<1>11. ASSUME NEW t \in Task, RunTask(t) PROVE CrewInv'
  BY <1>0, <1>11, RunTaskKeepsCrews
<1>12. CASE CheckAllCiviliansSafe
  BY <1>0, <1>12, SweepKeepsCrews
<1> QED
  BY <1>1, <1>2, <1>3, <1>4, <1>5, <1>6, <1>7, <1>8, <1>9, <1>10, <1>11, <1>12
     DEF DispatchNext, Cascade, Event

LEMMA CrewAlways == DispatchSpec => []CrewInv
  BY CrewInit, CrewStep, PTL DEF DispatchSpec

\* A step that MoveTowardBaseStation takes never finds another pair's offset.
LEMMA CrewOffsets == CrewInv => OffsetIsOfThisPair
<1> SUFFICES ASSUME CrewInv, NEW m \in Missions, offset[m.sar] # NoCiv
             PROVE  offset[m.sar] = m.civ
  BY DEF OffsetIsOfThisPair
<1>1. m.sar \in Sars /\ m.civ \in Civilians /\ rescuer[m.civ] = m.sar
  BY DEF Missions, Running, CrewInv, OneMissionPerRescuer, TypeInv, TypeOK, Task, Call, Mission
<1>2. offset[m.sar] \in Civilians /\ rescuer[offset[m.sar]] = m.sar
  BY <1>1 DEF CrewInv, OffsetOfCrew, TypeInv, TypeOK
<1> QED
  BY <1>1, <1>2, DispatchAssumption DEF CrewInv, CrewsMatchAssignments, Crewed, Assigned

\* The assignment tables of the base agree, each rescuer is driven by one mission,
\* no assigned civilian in danger is left without one, and neither attachments nor
\* offsets outlive their pair, whatever the order of reports and missions.
THEOREM CrewsCorrect ==
  DispatchSpec => [](/\ CrewsMatchAssignments
                     /\ OneMissionPerRescuer
                     /\ NoStrandedCivilian
                     /\ AttachedToCrew
                     /\ OffsetIsOfThisPair)
<1>1. CrewInv => CrewsMatchAssignments /\ OneMissionPerRescuer /\ NoStrandedCivilian
                 /\ AttachedToCrew /\ OffsetIsOfThisPair
  BY CrewOffsets DEF CrewInv
<1> QED
  BY <1>1, CrewAlways, PTL

-----------------------------------------------------------------------------
(* What a step may do to a civilian.                                       *)

\* Which steps change the rescuers, the safe and the attached.
LEMMA StepsOfCivilians ==
  ASSUME CrewInv, [DispatchNext]_dispatchVars
  PROVE  \/ UNCHANGED <<rescuer, safe, attached>>
         \/ \E s \in FreeGround, c \in Civilians :
              ~Assigned(c) /\ RecordAssignment(s, c) /\ UNCHANGED <<safe, attached>>
         \/ \E s \in Sars, c \in Civilians : Attach(s, c)
         \/ \E s \in Sars, c \in Civilians : MarkCivilianAsSafe(s, c)
<1>1. CASE AssignRescuer
  <2>1. call.civ \in Civilians
    BY <1>1 DEF AssignRescuer, CrewInv, TypeInv, TypeOK, Call, Mission
  <2> QED
    BY <1>1, <2>1 DEF AssignRescuer
<1>2. CASE Cascade /\ ~AssignRescuer
  BY <1>2 DEF Cascade, Approach, Arrive, Carry, AlreadySafe, ScanNext, ScanResume, ScanEnd,
       ScanDangling
<1>3. CASE \E s \in Sars, c \in Civilians : SelfAssign(s, c)
  BY <1>3 DEF SelfAssign
<1>4. CASE Event /\ ~\E s \in Sars, c \in Civilians : SelfAssign(s, c)
  BY <1>4 DEF Event, RecordDiscovery, ReportAtBase, RunTask, CheckAllCiviliansSafe
<1>5. CASE Crashed \/ UNCHANGED dispatchVars
  BY <1>5 DEF Crashed, dispatchVars
<1> QED
  BY <1>1, <1>2, <1>3, <1>4, <1>5 DEF DispatchNext

\* The civilian being delivered is attached to the rescuer that delivers it.
LEMMA DeliveredByCrew ==
  ASSUME CrewInv, NEW s \in Sars, NEW c \in Civilians, MarkCivilianAsSafe(s, c)
  PROVE  rescuer[c] = s /\ c \in attached /\ c \notin safe /\ s # NoSar
<1>1. Running /\ call.sar = s /\ call.civ = c /\ call.op = "deliver" /\ call \in Missions
  BY DEF MarkCivilianAsSafe, Running, Missions
<1> QED
  BY <1>1, DispatchAssumption DEF CrewInv, OneMissionPerRescuer, MovingIsAttached, MarkCivilianAsSafe, Safe

\* A civilian keeps its rescuer until it is safe, and becomes safe only in the hands
\* of the rescuer it is assigned and attached to.
THEOREM CrewDelivers == DispatchSpec => OnlyTheCrewDelivers
<1> DEFINE Delivers(c) ==
      /\ rescuer[c] # NoSar /\ rescuer'[c] # rescuer[c] => c \in safe' \ safe
      /\ c \in safe' \ safe => c \in attached /\ rescuer[c] # NoSar
<1>1. CrewInv /\ [DispatchNext]_dispatchVars => \A c \in Civilians : Delivers(c)
  <2> SUFFICES ASSUME CrewInv, [DispatchNext]_dispatchVars, NEW c \in Civilians
               PROVE  Delivers(c)
    OBVIOUS
  <2> USE DEF CrewInv, TypeInv, TypeOK
  <2>1. CASE UNCHANGED <<rescuer, safe, attached>>
    BY <2>1
  <2>2. ASSUME NEW s \in FreeGround, NEW d \in Civilians, ~Assigned(d),
               RecordAssignment(s, d), UNCHANGED <<safe, attached>>
        PROVE  Delivers(c)
    BY <2>2 DEF RecordAssignment, Assigned
  <2>3. ASSUME NEW s \in Sars, NEW d \in Civilians, Attach(s, d) PROVE Delivers(c)
    BY <2>3 DEF Attach
  <2>4. ASSUME NEW s \in Sars, NEW d \in Civilians, MarkCivilianAsSafe(s, d) PROVE Delivers(c)
    <3>1. rescuer[d] = s /\ d \in attached /\ d \notin safe /\ s # NoSar
      BY <2>4, DeliveredByCrew
    <3>2. safe' = safe \cup {d} /\ rescuer' = [rescuer EXCEPT ![d] = NoSar]
      BY <2>4 DEF MarkCivilianAsSafe
    <3> QED
      BY <3>1, <3>2
  <2> QED
    BY <2>1, <2>2, <2>3, <2>4, StepsOfCivilians
<1> QED
  BY <1>1, CrewAlways, PTL DEF DispatchSpec, OnlyTheCrewDelivers

-----------------------------------------------------------------------------
(* RescueDispatch implements RescueLifecycle.                              *)

stageOf == [c \in Civilians |-> Stage(c)]
crewOf == [c \in Civilians |-> IF c \in safe THEN NoSar ELSE rescuer[c]]

LEMMA LifecycleStep ==
  CrewInv /\ [DispatchNext]_dispatchVars
    => [Lifecycle!LifecycleNext]_(Lifecycle!lifecycleVars)
<1> SUFFICES ASSUME CrewInv, [DispatchNext]_dispatchVars
             PROVE  Lifecycle!LifecycleNext \/ (stageOf' = stageOf /\ crewOf' = crewOf)
  BY DEF Lifecycle!lifecycleVars, stageOf, crewOf
<1> USE DEF CrewInv, TypeInv, TypeOK
<1>1. CASE UNCHANGED <<rescuer, safe, attached>>
  BY <1>1 DEF stageOf, crewOf, Stage, Assigned
<1>2. ASSUME NEW s \in FreeGround, NEW c \in Civilians, ~Assigned(c),
             RecordAssignment(s, c), UNCHANGED <<safe, attached>>
      PROVE  Lifecycle!LifecycleNext \/ (stageOf' = stageOf /\ crewOf' = crewOf)
  <2>1. rescuer' = [rescuer EXCEPT ![c] = s] /\ safe' = safe /\ attached' = attached
    BY <1>2 DEF RecordAssignment
  <2>2. s # NoSar /\ s \in GroundSars /\ c \notin attached
    BY <1>2, DispatchAssumption DEF FreeGround, Sars, AttachedToCrew
  <2>3. \A d \in Civilians : rescuer[d] # s
    BY <1>2, <2>2 DEF FreeGround, CrewsMatchAssignments, Crewed, Assigned
  <2>4. CASE c \in safe
    BY <2>1, <2>4 DEF stageOf, crewOf, Stage, Assigned
  <2>5. CASE c \notin safe
    <3>1. stageOf[c] = "missing" /\ \A d \in Civilians : crewOf[d] # s
      BY <1>2, <2>2, <2>3, <2>5 DEF stageOf, crewOf, Stage
    <3>2. stageOf' = [stageOf EXCEPT ![c] = "assigned"]
      BY <2>1, <2>2, <2>5 DEF stageOf, Stage, Assigned
    <3>3. crewOf' = [crewOf EXCEPT ![c] = s]
      BY <2>1, <2>5 DEF crewOf
    <3> QED
      BY <2>2, <3>1, <3>2, <3>3 DEF Lifecycle!LifecycleNext, Lifecycle!Take, stageOf, crewOf
  <2> QED
    BY <2>4, <2>5
<1>3. ASSUME NEW s \in Sars, NEW c \in Civilians, Attach(s, c)
      PROVE  Lifecycle!LifecycleNext \/ (stageOf' = stageOf /\ crewOf' = crewOf)
  <2>1. rescuer' = rescuer /\ safe' = safe /\ attached' = attached \cup {c}
    BY <1>3 DEF Attach
  <2>2. rescuer[c] = s /\ Assigned(c)
    BY <1>3, RunningMission DEF Attach, Running, Crewed
  <2>3. CASE c \in safe \cup attached
    BY <2>1, <2>3 DEF stageOf, crewOf, Stage, Assigned
  <2>4. CASE c \notin safe \cup attached
    <3>1. stageOf[c] = "assigned" /\ stageOf' = [stageOf EXCEPT ![c] = "attached"] /\ crewOf' = crewOf
      BY <2>1, <2>2, <2>4 DEF stageOf, crewOf, Stage, Assigned
    <3> QED
      BY <3>1 DEF Lifecycle!LifecycleNext, Lifecycle!Reach, stageOf, crewOf
  <2> QED
    BY <2>3, <2>4
<1>4. ASSUME NEW s \in Sars, NEW c \in Civilians, MarkCivilianAsSafe(s, c)
      PROVE  Lifecycle!LifecycleNext \/ (stageOf' = stageOf /\ crewOf' = crewOf)
  <2>1. /\ rescuer' = [rescuer EXCEPT ![c] = NoSar] /\ safe' = safe \cup {c}
        /\ attached' = attached \ {c}
    BY <1>4 DEF MarkCivilianAsSafe, ForgetPair
  <2>2. c \in attached /\ c \notin safe
    BY <1>4, DeliveredByCrew
  <2>3. /\ stageOf[c] = "attached" /\ stageOf' = [stageOf EXCEPT ![c] = "safe"]
        /\ crewOf' = [crewOf EXCEPT ![c] = NoSar]
    BY <2>1, <2>2 DEF stageOf, crewOf, Stage, Assigned
  <2> QED
    BY <2>3 DEF Lifecycle!LifecycleNext, Lifecycle!Deliver, stageOf, crewOf
<1> QED
  BY <1>1, <1>2, <1>3, <1>4, StepsOfCivilians

\* The tables of the base implement the lifecycle: every civilian goes through
\* missing, assigned, attached and safe once, in order, with one rescuer.
THEOREM Refinement == DispatchSpec => KeepsLifecycle
<1>1. DispatchInit => Lifecycle!LifecycleInit
  BY DEF DispatchInit, Lifecycle!LifecycleInit, Stage, Assigned
<1> QED
  BY <1>1, LifecycleStep, CrewAlways, PTL DEF DispatchSpec, KeepsLifecycle, Lifecycle!LifecycleSpec

-----------------------------------------------------------------------------
(* The queue, whose scan re-enters itself: what a suspended loop may rely  *)
(* on, at any depth of nesting.                                            *)

\* A civilian that has, or has had, a rescuer needs no place in the queue.
Settled == Crewed \cup safe

\* While a nested loop runs, the entry of every outer one has been settled; the
\* entry of the innermost loop is settled before a mission starts in its name, and
\* until then the table has the size the loop remembers.
FrameInv ==
  /\ \A i \in 2 .. Len(scans) : scans[i].cur \in Settled
  /\ Running /\ scans # <<>> => Head(scans).cur \in Settled
  /\ call.op = "assign" /\ scans # <<>> =>
       call.civ = Head(scans).cur /\ Head(scans).size = Cardinality(Crewed)
  /\ call.op = "resume" =>
       Head(scans).cur \in Settled \/ Head(scans).size = Cardinality(Crewed)

\* Every loop on the stack was started by the delivery of another civilian.
StackInv == Len(scans) <= Cardinality(safe)

Waiting == pending \ Settled
Served == FreeGround = {} \/ Waiting = {}

\* With a rescuer free, whoever waits is still ahead of the innermost loop; once a
\* nested loop has erased its entry, nobody waits.
QueueInv ==
  /\ scans = <<>> => Served
  /\ scans # <<>> /\ (call.op \in {"scan", "resume"} \/ Running) =>
       Served \/ Waiting \cap Head(scans).visited = {}
  /\ scans # <<>> /\ call.op = "assign" =>
       Served \/ Waiting \cap Head(scans).visited \subseteq {call.civ}
  /\ scans # <<>> /\ (call.op = "assign" \/ Running) => Head(scans).cur \in pending
  /\ call.op = "resume" => Served \/ Head(scans).cur \in pending

LoopInv == FrameInv /\ QueueInv

LEMMA SettledStays ==
  ASSUME CrewInv, [DispatchNext]_dispatchVars
  PROVE  Settled \subseteq Settled'
<1> USE DEF CrewInv, TypeInv, TypeOK, Settled, Crewed, Assigned
<1>1. CASE UNCHANGED <<rescuer, safe, attached>>
  BY <1>1
<1>2. ASSUME NEW s \in FreeGround, NEW c \in Civilians, RecordAssignment(s, c), UNCHANGED safe
      PROVE  Settled \subseteq Settled'
  BY <1>2, DispatchAssumption DEF RecordAssignment, FreeGround, Sars
<1>3. ASSUME NEW s \in Sars, NEW c \in Civilians, Attach(s, c) PROVE Settled \subseteq Settled'
  BY <1>3 DEF Attach
<1>4. ASSUME NEW s \in Sars, NEW c \in Civilians, MarkCivilianAsSafe(s, c)
      PROVE  Settled \subseteq Settled'
  BY <1>4 DEF MarkCivilianAsSafe
<1> QED
  BY <1>1, <1>2, <1>3, <1>4, StepsOfCivilians

\* Recording an assignment settles the civilian, and frees nobody.
LEMMA RecordSettles ==
  ASSUME CrewInv, NEW s \in FreeGround, NEW c \in Civilians, RecordAssignment(s, c),
         UNCHANGED <<safe, pending>>
  PROVE  /\ c \in Settled' /\ Settled \subseteq Settled'
         /\ Waiting' \subseteq Waiting /\ c \notin Waiting' /\ (Served => Served')
         /\ call' = [op |-> "converge", sar |-> s, civ |-> c] /\ Running'
<1>1. c \in Settled' /\ Settled \subseteq Settled'
  BY DispatchAssumption DEF RecordAssignment, FreeGround, Sars, CrewInv, TypeInv, TypeOK, Settled,
       Crewed, Assigned
<1>2. FreeGround' \subseteq FreeGround
  BY DEF RecordAssignment, FreeGround
<1> QED
  BY <1>1, <1>2 DEF Waiting, Served, RecordAssignment, Enter, Running

\* A step that leaves the tables, the queue and the stack alone.
LEMMA QuietTables ==
  ASSUME UNCHANGED <<rescuer, safe, assigned, pending>>
  PROVE  /\ Settled' = Settled /\ Crewed' = Crewed /\ Waiting' = Waiting
         /\ FreeGround' = FreeGround /\ Served' = Served
  BY DEF Settled, Crewed, Assigned, Waiting, FreeGround, Served

LEMMA StackTypes ==
  ASSUME TypeInv, scans # <<>>
  PROVE  /\ Head(scans) = scans[1] /\ Head(scans) \in Scan /\ Tail(scans) \in Seq(Scan)
         /\ Len(scans) \in Nat \ {0} /\ Len(Tail(scans)) = Len(scans) - 1
         /\ \A i \in 1 .. Len(Tail(scans)) : Tail(scans)[i] = scans[i + 1]
  BY DEF TypeInv, TypeOK

LEMMA LoopInit == DispatchInit => LoopInv
<1> SUFFICES ASSUME DispatchInit PROVE LoopInv
  OBVIOUS
<1>1. call.op = "idle" /\ scans = <<>> /\ pending = {} /\ Len(scans) = 0
  BY DEF DispatchInit
<1> QED
  BY <1>1 DEF LoopInv, FrameInv, QueueInv, Running, Served, Waiting

-----------------------------------------------------------------------------
(* One lemma per kind of step.                                             *)

\* Running on, within a mission, with nothing of the queue touched.
LEMMA MissionKeepsLoops ==
  ASSUME TypeInv, LoopInv, Running, Running',
         UNCHANGED <<rescuer, safe, assigned, pending, scans>>
  PROVE  LoopInv'
<1>1. call'.op \notin {"assign", "resume", "scan"}
  BY DEF Running
<1> QED
  BY <1>1, QuietTables DEF LoopInv, FrameInv, QueueInv

\* A mission step that returns to the innermost loop, or to the scheduler.
LEMMA ReturnKeepsLoops ==
  ASSUME TypeInv, LoopInv, Running, Return,
         UNCHANGED <<rescuer, safe, assigned, pending, scans>>
  PROVE  LoopInv'
<1>1. call' = After(scans) /\ call'.op \in {"idle", "resume"}
      /\ (call'.op = "resume" => scans # <<>>)
  BY AfterType DEF Return, TypeInv, TypeOK
<1>2. ~Running'
  BY <1>1 DEF Running
<1> QED
  BY <1>1, <1>2, QuietTables DEF LoopInv, FrameInv, QueueInv

\* An event, taken with no loop on the stack, that leaves the tables alone.
LEMMA EventKeepsLoops ==
  ASSUME LoopInv, call = Idle, scans = <<>>, call'.op # "resume",
         UNCHANGED <<rescuer, safe, assigned, pending, scans>>
  PROVE  LoopInv'
<1>1. Len(scans) = 0 /\ scans' = <<>>
  OBVIOUS
<1> QED
  BY <1>1, QuietTables DEF LoopInv, FrameInv, QueueInv

LEMMA AssignKeepsLoops ==
  ASSUME CrewInv, LoopInv, AssignRescuer
  PROVE  LoopInv'
<1> USE DEF CrewInv
<1>1. call.op = "assign" /\ call.civ \in Civilians /\ scans' = scans /\ safe' = safe
  BY DEF AssignRescuer, TypeInv, TypeOK, Call, Mission
<1>2. ASSUME Return PROVE /\ call'.op \in {"idle", "resume"} /\ ~Running'
                          /\ (call'.op = "resume" => scans # <<>>)
  BY <1>2, AfterType DEF Return, TypeInv, TypeOK, Running
<1>3. CASE Assigned(call.civ) /\ Return /\ UNCHANGED <<rescuer, assigned, pending>>
  <2>1. call.civ \in Settled /\ call.civ \notin Waiting
    BY <1>1, <1>3 DEF Settled, Crewed, Waiting
  <2>2. FrameInv'
    BY <1>1, <1>2, <1>3, <2>1, QuietTables DEF LoopInv, FrameInv
  <2>3. QueueInv'
    BY <1>1, <1>2, <1>3, <2>1, QuietTables DEF LoopInv, QueueInv
  <2> QED
    BY <2>2, <2>3 DEF LoopInv
<1>4. CASE FreeGround = {} /\ Return /\ UNCHANGED <<rescuer, assigned>>
           /\ pending' = pending \cup {call.civ}
  <2>1. Served' /\ Settled' = Settled /\ Crewed' = Crewed
    BY <1>1, <1>4 DEF Served, FreeGround, Settled, Crewed, Assigned
  <2>2. FrameInv'
    BY <1>1, <1>2, <1>4, <2>1 DEF LoopInv, FrameInv
  <2>3. QueueInv'
    BY <1>1, <1>2, <1>4, <2>1 DEF LoopInv, QueueInv
  <2> QED
    BY <2>2, <2>3 DEF LoopInv
<1>5. ASSUME NEW s \in FreeGround, RecordAssignment(s, call.civ), UNCHANGED pending
      PROVE  LoopInv'
  <2>1. /\ call.civ \in Settled' /\ Settled \subseteq Settled' /\ Waiting' \subseteq Waiting
        /\ call.civ \notin Waiting' /\ (Served => Served')
        /\ call'.op = "converge" /\ Running'
    BY <1>1, <1>5, RecordSettles
  <2>2. FrameInv'
    BY <1>1, <2>1 DEF LoopInv, FrameInv
  <2>3. QueueInv'
    BY <1>1, <1>5, <2>1 DEF LoopInv, QueueInv, FrameInv
  <2> QED
    BY <2>2, <2>3 DEF LoopInv
<1> QED
  BY <1>3, <1>4, <1>5 DEF AssignRescuer, Queue

\* A delivery suspends the innermost loop, whose entry is settled, and starts another.
LEMMA DeliveryKeepsLoops ==
  ASSUME CrewInv, LoopInv, [DispatchNext]_dispatchVars,
         NEW s \in Sars, NEW c \in Civilians, MarkCivilianAsSafe(s, c)
  PROVE  LoopInv'
<1> DEFINE frame == [visited |-> {}, cur |-> NoCiv, size |-> 0]
<1>1. Running /\ call' = Control("scan") /\ scans' = <<frame>> \o scans /\ pending' = pending
  BY DEF MarkCivilianAsSafe, Running, Rescan
<1>2. call'.op = "scan" /\ ~Running'
  BY <1>1 DEF Control, Running
<1>3. scans \in Seq(Scan) /\ frame \in Scan
  BY DEF CrewInv, TypeInv, TypeOK, Scan
<1>4. scans' # <<>> /\ Head(scans') = frame /\ Len(scans') = Len(scans) + 1
      /\ \A i \in 2 .. Len(scans') : scans'[i] = scans[i - 1]
  BY <1>1, <1>3
<1>5. \A i \in 1 .. Len(scans) : scans[i].cur \in Settled
  <2>1. scans # <<>> => Head(scans) = scans[1]
    BY <1>3
  <2> QED
    BY <1>1, <1>3, <2>1 DEF LoopInv, FrameInv
<1>6. Settled \subseteq Settled'
  BY SettledStays
<1>7. FrameInv'
  <2>1. Len(scans) \in Nat
    BY <1>3
  <2>2. ASSUME NEW i \in 2 .. Len(scans') PROVE scans'[i].cur \in Settled'
    <3>1. i - 1 \in 1 .. Len(scans)
      BY <1>4, <2>1
    <3> QED
      BY <1>4, <1>5, <1>6, <3>1
  <2> QED
    BY <1>2, <2>2 DEF FrameInv
<1>8. QueueInv'
  BY <1>2, <1>4 DEF QueueInv
<1> QED
  BY <1>7, <1>8 DEF LoopInv

LEMMA ScanNextKeepsLoops ==
  ASSUME TypeInv, LoopInv, ScanNext
  PROVE  LoopInv'
<1>1. call.op = "scan" /\ scans # <<>> /\ UNCHANGED <<rescuer, safe, assigned, pending>>
  BY DEF ScanNext, TypeInv, ControlOK
<1>2. PICK c \in Unvisited :
        /\ scans' = <<[visited |-> Head(scans).visited \cup {c}, cur |-> c,
                       size |-> Cardinality(Crewed)]>> \o Tail(scans)
        /\ Enter("assign", NoSar, c)
  BY DEF ScanNext
<1> DEFINE frame == [visited |-> Head(scans).visited \cup {c}, cur |-> c,
                     size |-> Cardinality(Crewed)]
<1>3. call'.op = "assign" /\ call'.civ = c /\ ~Running'
  BY <1>2 DEF Enter, Running
<1>4. c \in pending /\ c \in Civilians
  BY DEF Unvisited, TypeInv, TypeOK
<1>5. frame \in Scan
  BY <1>1, <1>4, StackTypes, CrewedCounted DEF Scan, TypeInv
<1>6. scans' # <<>> /\ Head(scans') = frame /\ Len(scans') = Len(scans)
      /\ \A i \in 2 .. Len(scans') : scans'[i] = scans[i]
  BY <1>1, <1>2, <1>5, StackTypes
<1>7. FrameInv'
  BY <1>1, <1>3, <1>6, QuietTables DEF LoopInv, FrameInv
<1>8. QueueInv'
  BY <1>1, <1>3, <1>4, <1>6, QuietTables DEF LoopInv, QueueInv
<1> QED
  BY <1>7, <1>8 DEF LoopInv

LEMMA ScanResumeKeepsLoops ==
  ASSUME TypeInv, LoopInv, ScanResume
  PROVE  LoopInv'
<1>1. /\ call.op = "resume" /\ call' = Control("scan")
      /\ pending' \subseteq pending /\ UNCHANGED <<rescuer, safe, assigned, scans>>
  BY DEF ScanResume
<1>2. call'.op = "scan" /\ ~Running' /\ scans # <<>>
  BY <1>1 DEF Control, Running, TypeInv, ControlOK
<1>3. Settled' = Settled /\ Crewed' = Crewed /\ Waiting' \subseteq Waiting /\ (Served => Served')
  BY <1>1 DEF Settled, Crewed, Assigned, Waiting, Served, FreeGround
<1>4. FrameInv'
  BY <1>1, <1>2, <1>3 DEF LoopInv, FrameInv
<1>5. QueueInv'
  BY <1>1, <1>2, <1>3 DEF LoopInv, QueueInv
<1> QED
  BY <1>4, <1>5 DEF LoopInv

\* Leaving a loop, with everybody served, resumes the outer loop or the scheduler.
LEMMA PopKeepsLoops ==
  ASSUME TypeInv, LoopInv, scans # <<>>, Served,
         scans' = Tail(scans), call' = After(Tail(scans)),
         UNCHANGED <<rescuer, safe, assigned, pending>>
  PROVE  LoopInv'
<1>1. Tail(scans) \in Seq(Scan)
  BY StackTypes
<1>2. call'.op \in {"idle", "resume"} /\ ~Running' /\ (call'.op = "resume" => scans' # <<>>)
  BY <1>1, AfterType DEF Running
<1>3. \A i \in 1 .. Len(scans') : scans'[i].cur \in Settled'
  BY StackTypes, QuietTables DEF LoopInv, FrameInv
<1>4. scans' # <<>> => Head(scans') = scans'[1] /\ 1 \in 1 .. Len(scans')
  BY <1>1
<1>5. \A i \in 2 .. Len(scans') : scans'[i].cur \in Settled'
  <2>1. Len(scans') \in Nat
    BY <1>1
  <2>2. ASSUME NEW i \in 2 .. Len(scans') PROVE i \in 1 .. Len(scans')
    BY <2>1
  <2> QED
    BY <1>3, <2>2
<1>6. call'.op = "resume" => Head(scans').cur \in Settled'
  BY <1>2, <1>3, <1>4
<1>7. FrameInv'
  BY <1>2, <1>5, <1>6 DEF FrameInv
<1>8. QueueInv'
  BY <1>2, QuietTables DEF QueueInv
<1> QED
  BY <1>7, <1>8 DEF LoopInv

LEMMA ScanEndKeepsLoops ==
  ASSUME TypeInv, LoopInv, ScanEnd \/ ScanDangling
  PROVE  LoopInv'
<1>1. scans # <<>> /\ UNCHANGED <<rescuer, safe, assigned, pending>>
  BY DEF ScanEnd, ScanDangling, TypeInv, ControlOK
<1>2. CASE ScanEnd
  <2>1. Served
    BY <1>1, <1>2 DEF ScanEnd, Unvisited, LoopInv, QueueInv, Served, Waiting
  <2> QED
    BY <1>1, <1>2, <2>1, PopKeepsLoops DEF ScanEnd
<1>3. CASE ScanDangling
  <2>1. Served
    BY <1>1, <1>3 DEF ScanDangling, LoopInv, QueueInv
  <2>2. CASE call' = Control("crashed") /\ UNCHANGED scans
    <3>1. call'.op = "crashed" /\ ~Running'
      BY <2>2 DEF Control, Running
    <3> QED
      BY <1>1, <2>1, <2>2, <3>1, QuietTables DEF LoopInv, FrameInv, QueueInv
  <2> QED
    BY <1>1, <1>3, <2>1, <2>2, PopKeepsLoops DEF ScanDangling
<1> QED
  BY <1>2, <1>3

\* No step breaks what the suspended loops rely on.
LEMMA LoopStep == CrewInv /\ LoopInv /\ [DispatchNext]_dispatchVars => LoopInv'
<1> SUFFICES ASSUME CrewInv, LoopInv, [DispatchNext]_dispatchVars PROVE LoopInv'
  OBVIOUS
<1>0. TypeInv
  BY DEF CrewInv
<1>1. CASE UNCHANGED <<rescuer, safe, assigned, pending, scans, call>>
  BY <1>1, QuietTables DEF LoopInv, FrameInv, QueueInv, Running
<1>2. CASE AssignRescuer
  BY <1>2, AssignKeepsLoops
<1>3. ASSUME NEW s \in Sars, NEW c \in Civilians, Attach(s, c) \/ Arrive(s, c) PROVE LoopInv'
  <2>1. Running /\ Running' /\ UNCHANGED <<rescuer, safe, assigned, pending, scans>>
    BY <1>3 DEF Attach, Arrive, Enter, Running
  <2> QED
    BY <1>0, <2>1, MissionKeepsLoops
<1>4. ASSUME NEW s \in Sars, NEW c \in Civilians, Approach(s, c) \/ Carry(s, c) PROVE LoopInv'
  <2>1. Running /\ Return /\ UNCHANGED <<rescuer, safe, assigned, pending, scans>>
    BY <1>4 DEF Approach, Carry, Running
  <2> QED
    BY <1>0, <2>1, ReturnKeepsLoops
<1>5. CASE AlreadySafe
  <2>1. Running /\ Return /\ UNCHANGED <<rescuer, safe, assigned, pending, scans>>
    BY <1>5 DEF AlreadySafe, Running
  <2> QED
    BY <1>0, <2>1, ReturnKeepsLoops
<1>6. ASSUME NEW s \in Sars, NEW c \in Civilians, MarkCivilianAsSafe(s, c) PROVE LoopInv'
  BY <1>6, DeliveryKeepsLoops
<1>7. CASE ScanNext \/ ScanResume \/ ScanEnd \/ ScanDangling
  BY <1>0, <1>7, ScanNextKeepsLoops, ScanResumeKeepsLoops, ScanEndKeepsLoops
<1>8. ASSUME call = Idle PROVE scans = <<>> /\ ~Running
  BY <1>0, <1>8 DEF TypeInv, ControlOK, Idle, Control, Running
<1>9. ASSUME NEW c \in Civilians, RecordDiscovery(c) \/ ReportAtBase(c) PROVE LoopInv'
  <2>1. call = Idle /\ call'.op # "resume" /\ UNCHANGED <<rescuer, safe, assigned, pending, scans>>
    BY <1>9 DEF RecordDiscovery, ReportAtBase, Enter, Idle, Control
  <2> QED
    BY <1>8, <2>1, EventKeepsLoops
<1>10. ASSUME NEW t \in Task, RunTask(t) PROVE LoopInv'
  <2>1. call = Idle /\ call'.op # "resume" /\ UNCHANGED <<rescuer, safe, assigned, pending, scans>>
    BY <1>10 DEF RunTask, Task
  <2> QED
    BY <1>8, <2>1, EventKeepsLoops
<1>11. ASSUME NEW s \in Sars, NEW c \in Civilians, SelfAssign(s, c) PROVE LoopInv'
  <2>1. call = Idle /\ s \in FreeGround /\ RecordAssignment(s, c) /\ UNCHANGED <<safe, pending, scans>>
    BY <1>11 DEF SelfAssign
  <2>2. scans = <<>> /\ scans' = <<>> /\ Len(scans') = 0
    BY <1>8, <2>1
  <2>3. (Served => Served') /\ call'.op = "converge"
    BY <2>1, RecordSettles
  <2> QED
    BY <2>2, <2>3 DEF LoopInv, FrameInv, QueueInv
<1>12. CASE CheckAllCiviliansSafe \/ Crashed \/ UNCHANGED dispatchVars
  BY <1>1, <1>12 DEF CheckAllCiviliansSafe, Crashed, dispatchVars
<1> QED
  BY <1>2, <1>3, <1>4, <1>5, <1>6, <1>7, <1>9, <1>10, <1>11, <1>12 DEF DispatchNext, Cascade, Event

LEMMA LoopAlways == DispatchSpec => [](CrewInv /\ LoopInv)
<1>1. DispatchSpec => []LoopInv
  BY CrewAlways, LoopInit, LoopStep, PTL DEF DispatchSpec
<1> QED
  BY <1>1, CrewAlways, PTL

-----------------------------------------------------------------------------
(* The queue.                                                              *)

\* The scan that follows every delivery serves the queue however deep it nests:
\* between events, somebody waits only if every ground rescuer is marked busy.
THEOREM QueueServed == DispatchSpec => []QueueWaitsOnlyWhenAllBusy
<1>1. CrewInv /\ LoopInv => QueueWaitsOnlyWhenAllBusy
  <2> SUFFICES ASSUME CrewInv, LoopInv, call = Idle, NEW c \in pending \ safe, ~Assigned(c)
               PROVE  FreeGround = {}
    BY DEF QueueWaitsOnlyWhenAllBusy
  <2>1. scans = <<>>
    BY DEF CrewInv, TypeInv, ControlOK, Idle, Control
  <2>2. c \in Waiting
    BY DEF Waiting, Settled, Crewed
  <2> QED
    BY <2>1, <2>2 DEF LoopInv, QueueInv, Served
<1> QED
  BY <1>1, LoopAlways, PTL

\* Whoever the base has taken on stays assigned, queued or safe.
LEMMA TaskedStays ==
  CrewInv /\ LoopInv /\ [DispatchNext]_dispatchVars
    => \A c \in Civilians : Tasked(c) => Tasked(c)'
<1> SUFFICES ASSUME CrewInv, LoopInv, [DispatchNext]_dispatchVars, NEW c \in Civilians, Tasked(c)
             PROVE  Tasked(c)'
  OBVIOUS
<1>1. \A d \in Civilians : d \in Settled' => Tasked(d)'
  BY DEF Settled, Crewed, Tasked
<1>2. Settled \subseteq Settled'
  BY SettledStays
<1>3. CASE c \in Settled
  BY <1>1, <1>2, <1>3
<1>4. CASE c \in pending /\ c \notin Settled
  <2>1. CASE ScanResume
    <3>1. Grown => Head(scans).cur \in Settled
      <4>1. Head(scans).size \in Nat /\ Cardinality(Crewed) \in Nat
        BY <2>1, StackTypes, CrewedCounted DEF ScanResume, CrewInv, TypeInv, ControlOK, Scan
      <4> QED
        BY <2>1, <4>1 DEF ScanResume, LoopInv, FrameInv, Grown
    <3> QED
      BY <1>4, <2>1, <3>1 DEF ScanResume, Tasked
  <2>2. CASE pending \subseteq pending'
    BY <1>4, <2>2 DEF Tasked
  <2>3. CASE Cascade /\ ~ScanResume
    BY <2>2, <2>3 DEF Cascade, AssignRescuer, Queue, Attach, Approach, Arrive, Carry,
         MarkCivilianAsSafe, AlreadySafe, ScanNext, ScanEnd, ScanDangling
  <2>4. CASE Event \/ Crashed \/ UNCHANGED dispatchVars
    BY <2>2, <2>4 DEF Event, Crashed, dispatchVars, RecordDiscovery, ReportAtBase, SelfAssign,
         RunTask, CheckAllCiviliansSafe
  <2> QED
    BY <2>1, <2>3, <2>4 DEF DispatchNext
<1> QED
  BY <1>3, <1>4 DEF Tasked, Settled, Crewed

\* Erasing a queue entry because the table of assignments has grown, though nested
\* calls grow and shrink it too, never drops a civilian the base has taken on.
THEOREM QueueDropsNobody == DispatchSpec => NobodyDropped
  BY LoopAlways, TaskedStays, PTL DEF DispatchSpec, NobodyDropped

LEMMA StackInit == DispatchInit => StackInv
  BY FS_EmptySet DEF DispatchInit, StackInv

\* A loop is added only with a civilian that was not safe before.
LEMMA StackStep == CrewInv /\ StackInv /\ [DispatchNext]_dispatchVars => StackInv'
<1> SUFFICES ASSUME CrewInv, StackInv, [DispatchNext]_dispatchVars PROVE StackInv'
  OBVIOUS
<1> USE DEF CrewInv
<1>1. /\ IsFiniteSet(safe) /\ Cardinality(safe) \in Nat
      /\ scans \in Seq(Scan) /\ Len(scans) \in Nat
  BY FS_Subset, FS_CardinalityType, DispatchAssumption DEF TypeInv, TypeOK
<1>2. ASSUME NEW s \in Sars, NEW c \in Civilians, MarkCivilianAsSafe(s, c) PROVE StackInv'
  <2>1. c \notin safe /\ safe' = safe \cup {c}
        /\ scans' = <<[visited |-> {}, cur |-> NoCiv, size |-> 0]>> \o scans
    BY <1>2 DEF MarkCivilianAsSafe, Safe, Rescan
  <2>2. Cardinality(safe') = Cardinality(safe) + 1
    BY <1>1, <2>1, FS_AddElement
  <2>3. Len(scans') = Len(scans) + 1
    BY <1>1, <2>1
  <2> QED
    BY <1>1, <2>2, <2>3 DEF StackInv
<1>3. ASSUME safe' = safe, Len(scans') <= Len(scans), Len(scans') \in Nat PROVE StackInv'
  BY <1>1, <1>3 DEF StackInv
<1>4. CASE ScanNext
  <2>1. scans # <<>>
    BY <1>4 DEF ScanNext, TypeInv, ControlOK
  <2>2. Len(scans') = Len(scans) /\ safe' = safe
    BY <1>4, <2>1, StackTypes DEF ScanNext
  <2> QED
    BY <1>1, <1>3, <2>2
<1>5. CASE ScanEnd \/ ScanDangling
  <2>1. scans # <<>> /\ (scans' = Tail(scans) \/ scans' = scans) /\ safe' = safe
    BY <1>5 DEF ScanEnd, ScanDangling, TypeInv, ControlOK
  <2> QED
    BY <1>1, <1>3, <2>1, StackTypes
<1>6. CASE UNCHANGED <<safe, scans>>
  BY <1>1, <1>3, <1>6
<1>7. CASE Event \/ Crashed \/ UNCHANGED dispatchVars
  BY <1>6, <1>7 DEF Event, Crashed, dispatchVars, RecordDiscovery, ReportAtBase, SelfAssign,
       RunTask, CheckAllCiviliansSafe
<1> QED
  BY <1>2, <1>4, <1>5, <1>6, <1>7 DEF DispatchNext, Cascade, AssignRescuer, Attach, Approach,
       Arrive, Carry, AlreadySafe, ScanResume

\* TryAssignPendingCivilians re-enters itself at most once for each civilian, so the
\* recursion ends and its depth is bounded by the size of the scenario.
THEOREM NestingEnds == DispatchSpec => []NestingBounded
<1>1. CrewInv /\ StackInv => NestingBounded
  <2> SUFFICES ASSUME CrewInv, StackInv PROVE NestingBounded
    OBVIOUS
  <2>1. safe \subseteq Civilians /\ Len(scans) \in Nat
    BY DEF CrewInv, TypeInv, TypeOK
  <2>2. Cardinality(safe) <= Cardinality(Civilians)
        /\ Cardinality(safe) \in Nat /\ Cardinality(Civilians) \in Nat
    BY <2>1, FS_Subset, FS_CardinalityType, DispatchAssumption
  <2> QED
    BY <2>1, <2>2 DEF StackInv, NestingBounded
<1> QED
  BY <1>1, CrewAlways, StackInit, StackStep, PTL DEF DispatchSpec
=============================================================================
