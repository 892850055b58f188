--------------------------- MODULE RescueDispatch ---------------------------
(***************************************************************************)
(* The base station's rescue tables and the handlers that change them:     *)
(* AssignRescuer, TryAssignPendingCivilians, AssignRescuerBySelf and       *)
(* ConvergeOnCivilian (convergence.cc), MoveTowardBaseStation,             *)
(* MarkCivilianAsSafe and CheckAllCiviliansSafe (rescue.cc).               *)
(*                                                                         *)
(* The program is one thread running a queue of scheduled events, so       *)
(* events interleave and handlers do not.  A handler here is a cascade of  *)
(* calls: AssignRescuer calls ConvergeOnCivilian, which calls              *)
(* MoveTowardBaseStation, which calls MarkCivilianAsSafe, which calls      *)
(* TryAssignPendingCivilians, whose loop calls AssignRescuer again.  Every *)
(* call but that last one is in tail position, so "call" holds the         *)
(* function being entered and "scans" the stack of suspended loops; no     *)
(* other event is taken until the cascade is over (call = Idle).           *)
(*                                                                         *)
(* Positions are abstracted: whether a rescuer is close enough to attach,  *)
(* and whether the pair has reached the base, is a nondeterministic        *)
(* outcome of each step, and so is which free rescuer is the nearest.      *)
(***************************************************************************)
EXTENDS Naturals, Sequences, FiniteSets

CONSTANTS
  Civilians,   \* ids of the nodes of civilianNodes
  GroundSars,  \* vehicles and foot teams
  AerialSars,  \* drone and helicopter: they report, and never rescue
  NoSar,       \* "no entry" in a table of rescuers
  NoCiv        \* "no entry" in a table of civilians

Sars == GroundSars \cup AerialSars

ASSUME DispatchAssumption ==
  /\ IsFiniteSet(Civilians)
  /\ NoSar \notin Sars
  /\ NoCiv \notin Civilians
  /\ GroundSars \cap AerialSars = {}

VARIABLES
  known,     \* civilians with a discovery event (g_civilianToEventIdMap)
  safe,      \* civilians marked safe (civilianSafetyStatus)
  rescuer,   \* civilian -> its rescuer (rescueAssignments)
  assigned,  \* rescuers marked busy (assignedSarNodes)
  pending,   \* civilians queued for later assignment (pendingCivilians)
  attached,  \* civilians a rescuer has reached (g_civilianAttachedState)
  towing,    \* rescuer -> civilian it carries (g_civilianToSarNodeMap)
  offset,    \* rescuer -> civilian whose offset it keeps (sarToCivilianOffset)
  tasks,     \* ConvergeOnCivilian and MoveTowardBaseStation steps scheduled
  sweeping,  \* CheckAllCiviliansSafe is still scheduled
  call,      \* the function the running handler is about to enter
  scans      \* suspended TryAssignPendingCivilians loops, innermost first

dispatchVars == <<known, safe, rescuer, assigned, pending, attached, towing,
                  offset, tasks, sweeping, call, scans>>

Task == [op : {"converge", "move"}, sar : Sars, civ : Civilians]
Mission == [op : {"converge", "move", "deliver"}, sar : Sars, civ : Civilians]
Call == Mission
          \cup [op : {"assign"}, sar : {NoSar}, civ : Civilians]
          \cup [op : {"idle", "scan", "resume", "crashed"}, sar : {NoSar}, civ : {NoCiv}]
Scan == [visited : SUBSET Civilians, cur : Civilians \cup {NoCiv}, size : Nat]

\* The tables hold node ids of the right kind, and the control state is one
\* the functions of convergence.cc and rescue.cc can be in.
TypeOK ==
  /\ known \subseteq Civilians
  /\ safe \subseteq Civilians
  /\ rescuer \in [Civilians -> Sars \cup {NoSar}]
  /\ assigned \subseteq Sars
  /\ pending \subseteq Civilians
  /\ attached \subseteq Civilians
  /\ towing \in [Sars -> Civilians \cup {NoCiv}]
  /\ offset \in [Sars -> Civilians \cup {NoCiv}]
  /\ tasks \subseteq Task
  /\ sweeping \in BOOLEAN
  /\ call \in Call
  /\ scans \in Seq(Scan)

DispatchInit ==
  /\ known = {}
  /\ safe = {}
  /\ rescuer = [c \in Civilians |-> NoSar]
  /\ assigned = {}
  /\ pending = {}
  /\ attached = {}
  /\ towing = [s \in Sars |-> NoCiv]
  /\ offset = [s \in Sars |-> NoCiv]
  /\ tasks = {}
  /\ sweeping = TRUE
  /\ call = [op |-> "idle", sar |-> NoSar, civ |-> NoCiv]
  /\ scans = <<>>

-----------------------------------------------------------------------------
(* Control of a cascade.                                                   *)

Control(op) == [op |-> op, sar |-> NoSar, civ |-> NoCiv]
Idle == Control("idle")

Enter(op, s, c) == call' = [op |-> op, sar |-> s, civ |-> c]

\* What a function returns to: the innermost suspended loop, or the scheduler.
After(loops) == IF loops = <<>> THEN Idle ELSE Control("resume")
Return == call' = After(scans)

AssignedUnchecked(c) == FALSE
Assigned(c) == rescuer[c] # NoSar
Crewed == {c \in Civilians : Assigned(c)}

FreeGroundUnfiltered == GroundSars
FreeGround == GroundSars \ assigned

SafeUnchecked(c) == FALSE
Safe(c) == c \in safe

-----------------------------------------------------------------------------
(* AssignRescuer: the base gives a civilian to a free ground rescuer.      *)

RecordAssignmentSwapped(s, c) ==
  /\ rescuer' = [rescuer EXCEPT ![c] = c]
  /\ assigned' = assigned \cup {s}
  /\ Enter("converge", s, c)

RecordAssignment(s, c) ==
  /\ rescuer' = [rescuer EXCEPT ![c] = s]
  /\ assigned' = assigned \cup {s}
  /\ Enter("converge", s, c)

\* A civilian that finds no free rescuer waits in the queue.
QueueForgotten(c) == pending' = pending
Queue(c) == pending' = pending \cup {c}

AssignRescuer ==
  /\ call.op = "assign"
  /\ \/ /\ Assigned(call.civ)
        /\ Return
        /\ UNCHANGED <<rescuer, assigned, pending>>
     \/ /\ ~Assigned(call.civ)
        /\ FreeGround = {}
        /\ Queue(call.civ)
        /\ Return
        /\ UNCHANGED <<rescuer, assigned>>
     \/ /\ ~Assigned(call.civ)
        /\ \E s \in FreeGround : RecordAssignment(s, call.civ)
        /\ UNCHANGED pending
  /\ UNCHANGED <<known, safe, attached, towing, offset, tasks, sweeping, scans>>

(* ConvergeOnCivilian: one 10 m step, or attachment within 12 m.           *)

\* The step schedules itself again, one second later.
RescheduleLost == tasks' = tasks
Reschedule == tasks' = tasks \cup {call}

Attach(s, c) ==
  /\ call = [op |-> "converge", sar |-> s, civ |-> c]
  /\ c \in known
  /\ attached' = attached \cup {c}
  /\ towing' = [towing EXCEPT ![s] = c]
  /\ Enter("move", s, c)
  /\ UNCHANGED <<known, safe, rescuer, assigned, pending, offset, tasks, sweeping, scans>>

Approach(s, c) ==
  /\ call = [op |-> "converge", sar |-> s, civ |-> c]
  /\ c \in known
  /\ Reschedule
  /\ Return
  /\ UNCHANGED <<known, safe, rescuer, assigned, pending, attached, towing,
                 offset, sweeping, scans>>

(* MoveTowardBaseStation: one step of the pair, or arrival at the base.    *)

\* The offset of the pair is measured only when the rescuer has none.
KeepOffset(s, c) == offset' = IF offset[s] = NoCiv THEN [offset EXCEPT ![s] = c] ELSE offset

Arrive(s, c) ==
  /\ call = [op |-> "move", sar |-> s, civ |-> c]
  /\ c \in known
  /\ KeepOffset(s, c)
  /\ Enter("deliver", s, c)
  /\ UNCHANGED <<known, safe, rescuer, assigned, pending, attached, towing,
                 tasks, sweeping, scans>>

Carry(s, c) ==
  /\ call = [op |-> "move", sar |-> s, civ |-> c]
  /\ KeepOffset(s, c)
  /\ Reschedule
  /\ Return
  /\ UNCHANGED <<known, safe, rescuer, assigned, pending, attached, towing,
                 sweeping, scans>>

(* MarkCivilianAsSafe: an early return for a civilian already safe, else   *)
(* the tables are cleaned and the queue is scanned.                        *)

ForgetPairKeepsOffset(s, c) ==
  /\ attached' = attached \ {c}
  /\ towing' = [towing EXCEPT ![s] = NoCiv]
  /\ offset' = offset

ForgetPairKeepsAttached(s, c) ==
  /\ attached' = attached
  /\ towing' = [towing EXCEPT ![s] = NoCiv]
  /\ offset' = [offset EXCEPT ![s] = NoCiv]

ForgetPair(s, c) ==
  /\ attached' = attached \ {c}
  /\ towing' = [towing EXCEPT ![s] = NoCiv]
  /\ offset' = [offset EXCEPT ![s] = NoCiv]

\* The call of TryAssignPendingCivilians that ends a delivery.
RescanForgotten == Return /\ scans' = scans
Rescan ==
  /\ scans' = <<[visited |-> {}, cur |-> NoCiv, size |-> 0]>> \o scans
  /\ call' = Control("scan")

AlreadySafe ==
  /\ call.op = "deliver"
  /\ Safe(call.civ)
  /\ Return
  /\ UNCHANGED <<known, safe, rescuer, assigned, pending, attached, towing,
                 offset, tasks, sweeping, scans>>

MarkCivilianAsSafe(s, c) ==
  /\ call = [op |-> "deliver", sar |-> s, civ |-> c]
  /\ ~Safe(c)
  /\ safe' = safe \cup {c}
  /\ assigned' = assigned \ {s}
  /\ rescuer' = [rescuer EXCEPT ![c] = NoSar]
  /\ ForgetPair(s, c)
  /\ Rescan
  /\ UNCHANGED <<known, pending, tasks, sweeping>>

-----------------------------------------------------------------------------
(* TryAssignPendingCivilians: a loop over the unordered set "pending".     *)

Unvisited == pending \ Head(scans).visited

ScanNextErasing ==
  /\ call.op = "scan"
  /\ \E c \in Unvisited :
       /\ scans' = <<[visited |-> Head(scans).visited \cup {c}, cur |-> c,
                      size |-> Cardinality(Crewed)]>> \o Tail(scans)
       /\ pending' = pending \ {c}
       /\ Enter("assign", NoSar, c)
  /\ UNCHANGED <<known, safe, rescuer, assigned, attached, towing, offset,
                 tasks, sweeping>>

ScanNext ==
  /\ call.op = "scan"
  /\ \E c \in Unvisited :
       /\ scans' = <<[visited |-> Head(scans).visited \cup {c}, cur |-> c,
                      size |-> Cardinality(Crewed)]>> \o Tail(scans)
       /\ Enter("assign", NoSar, c)
  /\ UNCHANGED <<known, safe, rescuer, assigned, pending, attached, towing,
                 offset, tasks, sweeping>>

\* Back from AssignRescuer: the entry is erased when the table has grown.
Grown == Cardinality(Crewed) > Head(scans).size

ScanResume ==
  /\ call.op = "resume"
  /\ Head(scans).cur \in pending
  /\ pending' = IF Grown THEN pending \ {Head(scans).cur} ELSE pending
  /\ call' = Control("scan")
  /\ UNCHANGED <<known, safe, rescuer, assigned, attached, towing, offset,
                 tasks, sweeping, scans>>

ScanEnd ==
  /\ call.op = "scan"
  /\ Unvisited = {}
  /\ scans' = Tail(scans)
  /\ call' = After(Tail(scans))
  /\ UNCHANGED <<known, safe, rescuer, assigned, pending, attached, towing,
                 offset, tasks, sweeping>>

\* The entry this loop's iterator points at was erased by a nested loop, and
\* the loop erases or advances through it: undefined behaviour.  The process
\* dies, or a stale null link ends the loop.
ScanDangling ==
  /\ call.op = "resume"
  /\ Head(scans).cur \notin pending
  /\ \/ call' = Control("crashed") /\ UNCHANGED scans
     \/ scans' = Tail(scans) /\ call' = After(Tail(scans))
  /\ UNCHANGED <<known, safe, rescuer, assigned, pending, attached, towing,
                 offset, tasks, sweeping>>

-----------------------------------------------------------------------------
(* Events: what the scheduler may run next.                                *)

\* A discovery is recorded before it is reported (ProcessDiscoveryEvent).
RecordDiscovery(c) ==
  /\ call = Idle
  /\ c \notin safe /\ c \notin attached
  /\ known' = known \cup {c}
  /\ UNCHANGED <<safe, rescuer, assigned, pending, attached, towing, offset,
                 tasks, sweeping, call, scans>>

\* A report about a recorded civilian reaches the base, at any later time.
ReportAtBase(c) ==
  /\ call = Idle
  /\ c \in known
  /\ Enter("assign", NoSar, c)
  /\ UNCHANGED <<known, safe, rescuer, assigned, pending, attached, towing,
                 offset, tasks, sweeping, scans>>

\* A rescuer whose report was never acknowledged takes the civilian itself.
SelfAssign(s, c) ==
  /\ call = Idle
  /\ c \in known
  /\ ~Assigned(c)
  /\ s \in FreeGround
  /\ offset' = [offset EXCEPT ![s] = NoCiv]
  /\ towing' = [towing EXCEPT ![s] = NoCiv]
  /\ RecordAssignment(s, c)
  /\ UNCHANGED <<known, safe, pending, attached, tasks, sweeping, scans>>

RunTask(t) ==
  /\ call = Idle
  /\ t \in tasks
  /\ tasks' = tasks \ {t}
  /\ call' = t
  /\ UNCHANGED <<known, safe, rescuer, assigned, pending, attached, towing,
                 offset, sweeping, scans>>

\* The periodic status report forgets the rescuers of safe civilians, and
\* stops rescheduling itself once every civilian is safe.
CheckAllCiviliansSafe ==
  /\ call = Idle
  /\ sweeping
  /\ towing' = [s \in Sars |-> IF towing[s] \in safe THEN NoCiv ELSE towing[s]]
  /\ sweeping' = (safe # Civilians)
  /\ UNCHANGED <<known, safe, rescuer, assigned, pending, attached, offset,
                 tasks, call, scans>>

\* Nothing runs after a crash.
Crashed == call.op = "crashed" /\ UNCHANGED dispatchVars

-----------------------------------------------------------------------------
Cascade ==
  \/ AssignRescuer
  \/ \E s \in Sars, c \in Civilians :
       Attach(s, c) \/ Approach(s, c) \/ Arrive(s, c) \/ Carry(s, c)
         \/ MarkCivilianAsSafe(s, c)
  \/ AlreadySafe
  \/ ScanNext \/ ScanResume \/ ScanEnd \/ ScanDangling

Event ==
  \/ \E c \in Civilians : RecordDiscovery(c) \/ ReportAtBase(c)
  \/ \E s \in Sars, c \in Civilians : SelfAssign(s, c)
  \/ \E t \in Task : RunTask(t)
  \/ CheckAllCiviliansSafe

DispatchNext == Cascade \/ Event \/ Crashed

DispatchSpec == DispatchInit /\ [][DispatchNext]_dispatchVars

(***************************************************************************)
(* Fairness.  A handler that has begun runs to its end, and a scheduled    *)
(* step is run whatever other events come first: the event loop runs them  *)
(* in time order and every event reschedules itself seconds later.  The    *)
(* second is strong fairness because other handlers disable the step while *)
(* they run.  A rescuer covers 10 m a second against a walking civilian's  *)
(* 5 m at most, and the pair halves its distance to the base, so a step    *)
(* that keeps being repeated ends in attachment, and then at the base.     *)
(***************************************************************************)
Progress ==
  /\ WF_dispatchVars(Cascade)
  /\ \A s \in GroundSars :
       /\ SF_dispatchVars(\E t \in Task : t.sar = s /\ RunTask(t))
       /\ SF_dispatchVars(\E c \in Civilians : Attach(s, c))
       /\ SF_dispatchVars(\E c \in Civilians : Arrive(s, c))

FairDispatchSpec == DispatchSpec /\ Progress

-----------------------------------------------------------------------------
(* Safety.                                                                 *)

Running == call.op \in {"converge", "move", "deliver"}
Missions == tasks \cup (IF Running THEN {call} ELSE {})

\* The two assignment tables agree: assignedSarNodes is exactly the set of
\* rescuers in rescueAssignments, and no rescuer has two civilians, although
\* four handlers update them separately.
CrewsMatchAssignments ==
  /\ assigned = {rescuer[c] : c \in Crewed}
  /\ \A c, d \in Crewed : rescuer[c] = rescuer[d] => c = d

\* A rescuer is driven by at most one chain of steps, the one of the civilian
\* it is assigned to: re-assignments never leave two chains moving it.
OneMissionPerRescuer ==
  /\ \A m \in Missions : rescuer[m.civ] = m.sar
  /\ \A t, u \in tasks : t.sar = u.sar => t = u
  /\ Running => \A t \in tasks : t.sar # call.sar

\* No civilian in danger is stranded with a rescuer that nothing moves: while
\* it has a rescuer and is not safe, a step for it is scheduled or running.
NoStrandedCivilian ==
  \A c \in Crewed \ safe : \E m \in Missions : m.civ = c

\* "Attached" is never left over: an attached civilian has a rescuer, and until
\* it is safe that rescuer's entry in g_civilianToSarNodeMap is this civilian.
AttachedToCrew ==
  \A c \in attached : Assigned(c) /\ (c \notin safe => towing[rescuer[c]] = c)

\* A pair never moves with the offset of an earlier pair: the entry of
\* sarToCivilianOffset that a step of MoveTowardBaseStation finds is its own.
OffsetIsOfThisPair ==
  \A m \in Missions : m.op = "move" => offset[m.sar] \in {NoCiv, m.civ}

\* Between events the queue is served: a civilian waiting in pendingCivilians
\* without a rescuer means every ground rescuer is marked busy.
QueueWaitsOnlyWhenAllBusy ==
  call = Idle /\ (\E c \in pending \ safe : ~Assigned(c)) => FreeGround = {}

\* TryAssignPendingCivilians re-enters itself at most once per civilian.
NestingBounded == Len(scans) <= Cardinality(Civilians)

\* A civilian the base has taken on (assigned, queued or safe) is never
\* dropped: erasing the queue entry "when the table has grown" loses nobody.
Tasked(c) == Assigned(c) \/ c \in pending \/ c \in safe
NobodyDropped == [][\A c \in Civilians : Tasked(c) => Tasked(c)']_dispatchVars

\* A civilian keeps its rescuer until that rescuer, attached to it, brings it to
\* the base, and nobody becomes safe in any other way.
OnlyTheCrewDelivers ==
  [][\A c \in Civilians :
       /\ rescuer[c] # NoSar /\ rescuer'[c] # rescuer[c] => c \in safe' \ safe
       /\ c \in safe' \ safe => c \in attached /\ rescuer[c] # NoSar]_dispatchVars

-----------------------------------------------------------------------------
(* Liveness, under FairDispatchSpec.                                       *)

\* Every civilian that is given a rescuer ends up safe, unless the program dies
\* of its dangling queue entry first.
AssignedBecomesSafe ==
  \A c \in Civilians : Assigned(c) ~> (c \in safe \/ call.op = "crashed")

-----------------------------------------------------------------------------
(* Refinement.                                                             *)

\* A civilian that is safe stays so whatever the tables say of it later.
Stage(c) == IF c \in safe THEN "safe"
            ELSE IF c \in attached THEN "attached"
            ELSE IF Assigned(c) THEN "assigned" ELSE "missing"

Lifecycle == INSTANCE RescueLifecycle WITH
  stage <- [c \in Civilians |-> Stage(c)],
  crew <- [c \in Civilians |-> IF c \in safe THEN NoSar ELSE rescuer[c]]

\* The tables keep the promise of RescueLifecycle, step by step: no civilian
\* goes back, skips a stage or changes hands.
KeepsLifecycle == Lifecycle!LifecycleSpec

-----------------------------------------------------------------------------
(* What the comments say and the code does not do.                         *)

\* convergence.cc:411: a civilian that finds all rescuers busy is "queued for
\* later assignment".
QueuedGetsAssigned ==
  \A c \in Civilians :
    c \in pending ~> (Assigned(c) \/ c \in safe \/ call.op = "crashed")

\* rescue.cc:218: once a civilian is safe the pending ones are reassigned, which
\* supposes the loop never uses an entry that has been erased under it.
ScanEntryIsLive == call.op = "resume" => Head(scans).cur \in pending
=============================================================================
