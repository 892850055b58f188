------------------------ MODULE DiscoveryReportProofs ------------------------
(***************************************************************************)
(* Proofs about DiscoveryReport: for any number of civilians, rescuers,    *)
(* retries, timers and datagrams.                                          *)
(***************************************************************************)
EXTENDS DiscoveryReport, RescueDispatchProofs

-----------------------------------------------------------------------------
(* Reports only do to the tables what RescueDispatch lets them.            *)

\* One step of the reports is one step of the tables, or leaves them alone.
LEMMA ReportStepOfTables == [ReportNext]_vars => [DispatchNext]_dispatchVars
<1> SUFFICES ASSUME [ReportNext]_vars
             PROVE  [DispatchNext]_dispatchVars
  OBVIOUS
<1>1. CASE UNCHANGED vars
  BY <1>1 DEF vars
<1>2. CASE DispatchAlone
  BY <1>2 DEF DispatchAlone, DispatchNext, Event
<1>3. ASSUME NEW s \in Sars, NEW c \in Civilians, Reporting(s, c)
      PROVE  [DispatchNext]_dispatchVars
  <2>1. CASE Report(s, c)
    BY <2>1 DEF Report, DispatchNext, Event
  <2>2. CASE BaseReceives(s, c)
    BY <2>2 DEF BaseReceives, DispatchNext, Event
  <2>3. CASE FailOver(s, c)
    BY <2>3 DEF FailOver, DispatchNext, Event
  <2>4. CASE SenseOutOfDanger(s, c) \/ SenseWhileBusy(s, c)
    BY <2>4 DEF SenseOutOfDanger, SenseWhileBusy
  <2>5. CASE SarReceivesAck(s, c) \/ Lose(s, c) \/ OnDiscoveryAckTimeout(s, c)
               \/ NothingToCheck(s, c)
    BY <2>5 DEF SarReceivesAck, Lose, OnDiscoveryAckTimeout, NothingToCheck
  <2> QED
    BY <1>3, <2>1, <2>2, <2>3, <2>4, <2>5 DEF Reporting, SenseBySight, SenseBySignal
<1> QED
  BY <1>1, <1>2, <1>3 DEF ReportNext

\* The rescue tables, fed by a network that loses and reorders reports, by retries
\* and by rescuers that act alone, change only as RescueDispatch lets them.
THEOREM ReportRefines == ReportSpec => KeepsDispatch
<1>1. ReportInit => DispatchInit
  BY DEF ReportInit
<1> QED
  BY <1>1, ReportStepOfTables, PTL DEF ReportSpec, KeepsDispatch, DispatchSpec

\* What is proved of the tables alone holds of them with the reports that feed them:
\* whatever is lost, repeated or late, the crews are consistent and deliver in order.
THEOREM ReportsKeepCrews ==
  ReportSpec => /\ [](CrewsMatchAssignments /\ OneMissionPerRescuer /\ NoStrandedCivilian)
                /\ OnlyTheCrewDelivers
                /\ KeepsLifecycle
<1>1. KeepsDispatch => [](CrewsMatchAssignments /\ OneMissionPerRescuer /\ NoStrandedCivilian)
  BY CrewsCorrect, PTL DEF KeepsDispatch
<1>2. KeepsDispatch => OnlyTheCrewDelivers /\ KeepsLifecycle
  BY CrewDelivers, Refinement DEF KeepsDispatch
<1> QED
  BY <1>1, <1>2, ReportRefines

-----------------------------------------------------------------------------
(* Flags and counters.                                                     *)

\* A pair's timeouts and checks share one bound: a timeout that gives up becomes
\* a check.
TimersBounded == \A p \in Pairs : timers[p] + checks[p] <= MaxTimers

\* ReportedHasEvent, pair by pair.
PairHasEvent == \A p \in Pairs : reports[p] + timers[p] + checks[p] > 0 => p[2] \in known

ReportInv == ReportTypeOK /\ TimersBounded /\ PairHasEvent

\* Nothing is forgotten of what is known: no handler removes an event.
LEMMA KnownGrows == [DispatchNext]_dispatchVars => known \subseteq known'
<1> SUFFICES ASSUME [DispatchNext]_dispatchVars PROVE known \subseteq known'
  OBVIOUS
<1>1. CASE UNCHANGED dispatchVars
  BY <1>1 DEF dispatchVars
<1>2. CASE Cascade
  BY <1>2 DEF Cascade, AssignRescuer, Attach, Approach, Arrive, Carry, MarkCivilianAsSafe,
       AlreadySafe, ScanNext, ScanResume, ScanEnd, ScanDangling
<1>3. CASE Event \/ Crashed
  BY <1>3 DEF Event, Crashed, dispatchVars, RecordDiscovery, ReportAtBase, SelfAssign, RunTask,
       CheckAllCiviliansSafe
<1> QED
  BY <1>1, <1>2, <1>3 DEF DispatchNext

LEMMA ReportInvInit == ReportInit => ReportInv
<1> SUFFICES ASSUME ReportInit PROVE ReportInv
  OBVIOUS
<1>1. \A p \in Pairs : NoneOf[p] = 0
  BY DEF NoneOf
<1>2. \A n \in Nat : NoneOf \in [Pairs -> 0 .. n]
  BY DEF NoneOf
<1>3. ReportTypeOK
  BY <1>2, ReportAssumption DEF ReportInit, ReportTypeOK
<1> QED
  BY <1>1, <1>3, ReportAssumption DEF ReportInit, ReportInv, TimersBounded, PairHasEvent

\* Putting a datagram on the air, or taking one off, keeps the counts in bounds and
\* changes only the pair's.
LEMMA PutType ==
  ASSUME NEW net \in [Pairs -> 0 .. MaxInFlight], NEW p \in Pairs
  PROVE  /\ Put(net, p) \in [Pairs -> 0 .. MaxInFlight]
         /\ \A q \in Pairs : q # p => Put(net, p)[q] = net[q]
  BY ReportAssumption DEF Put

LEMMA DropType ==
  ASSUME NEW bound \in Nat, NEW count \in [Pairs -> 0 .. bound], NEW p \in Pairs, count[p] > 0
  PROVE  /\ Drop(count, p) \in [Pairs -> 0 .. bound]
         /\ Drop(count, p)[p] = count[p] - 1
         /\ \A q \in Pairs : q # p => Drop(count, p)[q] = count[q]
  BY DEF Drop

\* Counts that change at one pair only, within the bound, and only if that pair's
\* civilian has its event, keep the invariant.
LEMMA OnePairChanges ==
  ASSUME ReportInv, ReportTypeOK', known \subseteq known', NEW p \in Pairs,
         \A q \in Pairs \ {p} :
           reports'[q] = reports[q] /\ timers'[q] = timers[q] /\ checks'[q] = checks[q],
         timers'[p] + checks'[p] <= MaxTimers,
         reports'[p] + timers'[p] + checks'[p] > 0 => p[2] \in known'
  PROVE  ReportInv'
<1>1. TimersBounded'
  BY DEF ReportInv, TimersBounded
<1>2. PairHasEvent'
  BY DEF ReportInv, PairHasEvent
<1> QED
  BY <1>1, <1>2 DEF ReportInv

LEMMA ReportInvStep == ReportInv /\ [ReportNext]_vars => ReportInv'
<1> SUFFICES ASSUME ReportInv, [ReportNext]_vars PROVE ReportInv'
  OBVIOUS
<1> USE DEF ReportInv
<1>0. known \subseteq known'
  BY ReportStepOfTables, KnownGrows
<1>1. CASE UNCHANGED reportVars
  BY <1>0, <1>1 DEF reportVars, ReportTypeOK, TimersBounded, PairHasEvent
<1>2. ASSUME NEW s \in Sars, NEW c \in Civilians, Reporting(s, c) PROVE ReportInv'
  <2> DEFINE p == <<s, c>>
  <2>1. p \in Pairs /\ p[2] = c
    BY DEF Pairs
  <2>2. reports[p] \in 0 .. MaxInFlight /\ acks[p] \in 0 .. MaxInFlight
        /\ timers[p] \in 0 .. MaxTimers /\ checks[p] \in 0 .. MaxTimers
        /\ timers[p] + checks[p] <= MaxTimers
        /\ (reports[p] + timers[p] + checks[p] > 0 => c \in known)
    BY <2>1 DEF ReportTypeOK, TimersBounded, PairHasEvent
  <2>3. MaxTimers \in Nat /\ MaxInFlight \in Nat /\ MaxRetries \in Nat
    BY ReportAssumption
  <2> HIDE DEF p
  <2>4. CASE SenseOutOfDanger(s, c) \/ SenseWhileBusy(s, c) \/ SarReceivesAck(s, c)
    <3>1. UNCHANGED <<retries, reports, timers, checks>>
      BY <2>4 DEF SenseOutOfDanger, SenseWhileBusy, SarReceivesAck
    <3>0. acks[p] > 0 => Drop(acks, p) \in [Pairs -> 0 .. MaxInFlight]
      BY <2>1, <2>3, DropType DEF ReportTypeOK
    <3>2. seen' \in {seen, seen \cup {p}} /\ acked' \in {acked, acked \cup {p}}
          /\ acks' \in [Pairs -> 0 .. MaxInFlight]
      BY <2>4, <3>0 DEF SenseOutOfDanger, SenseWhileBusy, SarReceivesAck, ReportTypeOK, p
    <3> QED
      BY <1>0, <2>1, <3>1, <3>2 DEF ReportTypeOK, TimersBounded, PairHasEvent
  <2>5. CASE Report(s, c)
    <3>1. /\ timers[p] + checks[p] < MaxTimers
          /\ seen' = seen \cup {p} /\ acked' = acked \ {p}
          /\ reports' = Put(reports, p)
          /\ timers' = [timers EXCEPT ![p] = @ + 1]
          /\ UNCHANGED <<retries, acks, checks>>
          /\ c \in known'
      BY <2>5 DEF Report, SendDiscoveryToBase, RecordDiscovery, p
    <3>2. ReportTypeOK'
      BY <2>1, <2>2, <2>3, <3>1, PutType DEF ReportTypeOK
    <3>3. \A q \in Pairs \ {p} :
            reports'[q] = reports[q] /\ timers'[q] = timers[q] /\ checks'[q] = checks[q]
      BY <2>1, <3>1, PutType DEF ReportTypeOK
    <3>4. timers'[p] + checks'[p] <= MaxTimers
      BY <2>1, <2>2, <2>3, <3>1 DEF ReportTypeOK
    <3> QED
      BY <1>0, <2>1, <3>1, <3>2, <3>3, <3>4, OnePairChanges
  <2>6. CASE BaseReceives(s, c) \/ Lose(s, c)
    <3>1. /\ reports' = reports \/ (reports[p] > 0 /\ reports' = Drop(reports, p))
          /\ acks' = acks \/ (acks[p] > 0 /\ acks' = Drop(acks, p)) \/ acks' = Put(acks, p)
          /\ UNCHANGED <<seen, acked, retries, timers, checks>>
      BY <2>6 DEF BaseReceives, Lose, p
    <3>4. reports \in [Pairs -> 0 .. MaxInFlight] /\ acks \in [Pairs -> 0 .. MaxInFlight]
      BY DEF ReportTypeOK
    <3>5. Put(acks, p) \in [Pairs -> 0 .. MaxInFlight]
      BY <2>1, <3>4, PutType
    <3>6. acks[p] > 0 => Drop(acks, p) \in [Pairs -> 0 .. MaxInFlight]
      BY <2>1, <2>3, <3>4, DropType
    <3>7. reports[p] > 0 => /\ Drop(reports, p) \in [Pairs -> 0 .. MaxInFlight]
                            /\ Drop(reports, p)[p] = reports[p] - 1
                            /\ \A q \in Pairs : q # p => Drop(reports, p)[q] = reports[q]
      BY <2>1, <2>3, <3>4, DropType
    <3>2. reports' \in [Pairs -> 0 .. MaxInFlight] /\ acks' \in [Pairs -> 0 .. MaxInFlight]
          /\ reports'[p] <= reports[p]
          /\ \A q \in Pairs \ {p} : reports'[q] = reports[q]
      BY <2>2, <2>3, <3>1, <3>4, <3>5, <3>6, <3>7
    <3>3. ReportTypeOK'
      BY <3>1, <3>2 DEF ReportTypeOK
    <3> QED
      BY <1>0, <2>1, <2>2, <3>1, <3>2, <3>3, OnePairChanges
  <2>7. CASE OnDiscoveryAckTimeout(s, c)
    <3>1. timers[p] > 0 /\ UNCHANGED <<seen, acks>>
      BY <2>7 DEF OnDiscoveryAckTimeout, p
    <3>2. Drop(timers, p) \in [Pairs -> 0 .. MaxTimers] /\ Drop(timers, p)[p] = timers[p] - 1
          /\ \A q \in Pairs \ {p} : Drop(timers, p)[q] = timers[q]
      BY <2>1, <2>3, <3>1, DropType DEF ReportTypeOK
    <3>3. CASE timers' = Drop(timers, p) /\ UNCHANGED <<acked, retries, reports, checks>>
      <4>1. ReportTypeOK'
        BY <3>1, <3>2, <3>3 DEF ReportTypeOK
      <4>2. timers'[p] + checks'[p] <= MaxTimers /\ c \in known'
        BY <1>0, <2>2, <2>3, <3>1, <3>2, <3>3
      <4> QED
        BY <1>0, <2>1, <3>2, <3>3, <4>1, <4>2, OnePairChanges
    <3>4. CASE RetryLeft(p) /\ retries' = [retries EXCEPT ![p] = @ + 1]
                 /\ SendDiscoveryToBase(p, Drop(timers, p)) /\ UNCHANGED checks
      <4>1. retries' \in [Pairs -> 0 .. MaxRetries]
        BY <2>1, <2>3, <3>4 DEF RetryLeft, ReportTypeOK
      <4>2. timers' \in [Pairs -> 0 .. MaxTimers] /\ timers'[p] = timers[p]
            /\ \A q \in Pairs \ {p} : timers'[q] = timers[q]
        BY <2>1, <2>2, <2>3, <3>2, <3>4 DEF SendDiscoveryToBase
      <4>3. reports' = Put(reports, p) /\ acked' = acked \ {p} /\ UNCHANGED checks
        BY <3>4 DEF SendDiscoveryToBase
      <4>4. ReportTypeOK'
        BY <2>1, <3>1, <4>1, <4>2, <4>3, PutType DEF ReportTypeOK
      <4>5. c \in known'
        BY <1>0, <2>2, <3>1
      <4> QED
        BY <1>0, <2>1, <2>2, <4>2, <4>3, <4>4, <4>5, PutType, OnePairChanges DEF ReportTypeOK
    <3>5. CASE timers' = Drop(timers, p) /\ Escalate(p) /\ UNCHANGED <<acked, retries, reports>>
      <4>1. checks' \in [Pairs -> 0 .. MaxTimers] /\ checks'[p] = checks[p] + 1
            /\ \A q \in Pairs \ {p} : checks'[q] = checks[q]
        BY <2>1, <2>2, <2>3, <3>1, <3>5 DEF Escalate, ReportTypeOK
      <4>2. ReportTypeOK'
        BY <3>1, <3>2, <3>5, <4>1 DEF ReportTypeOK
      <4>3. c \in known'
        BY <1>0, <2>2, <3>1
      <4> QED
        BY <1>0, <2>1, <2>2, <3>2, <3>5, <4>1, <4>2, <4>3, OnePairChanges
    <3> QED
      BY <2>7, <3>3, <3>4, <3>5 DEF OnDiscoveryAckTimeout, p
  <2>8. CASE NothingToCheck(s, c) \/ FailOver(s, c)
    <3>1. checks[p] > 0 /\ checks' = Drop(checks, p)
          /\ UNCHANGED <<seen, acked, retries, reports, acks, timers>>
      BY <2>8 DEF NothingToCheck, FailOver, p
    <3>2. checks' \in [Pairs -> 0 .. MaxTimers] /\ checks'[p] = checks[p] - 1
          /\ \A q \in Pairs \ {p} : checks'[q] = checks[q]
      BY <2>1, <2>3, <3>1, DropType DEF ReportTypeOK
    <3>3. ReportTypeOK'
      BY <3>1, <3>2 DEF ReportTypeOK
    <3>4. timers'[p] + checks'[p] <= MaxTimers /\ c \in known'
      BY <1>0, <2>2, <2>3, <3>1, <3>2
    <3> QED
      BY <1>0, <2>1, <3>1, <3>2, <3>3, <3>4, OnePairChanges
  <2> QED
    BY <1>2, <2>4, <2>5, <2>6, <2>7, <2>8 DEF Reporting, SenseBySight, SenseBySignal
<1>3. CASE DispatchAlone
  BY <1>1, <1>3 DEF DispatchAlone
<1>4. CASE UNCHANGED vars
  BY <1>1, <1>4 DEF vars
<1> QED
  BY <1>2, <1>3, <1>4 DEF ReportNext

\* The flags and counters of every pair stay within their bounds, and no report,
\* timeout or check is about a civilian without a discovery event, so
\* ConvergeOnCivilian never gives up for want of one.
THEOREM ReportsAreRecorded == ReportSpec => [](ReportTypeOK /\ ReportedHasEvent)
<1>1. ReportInv => ReportTypeOK /\ ReportedHasEvent
  <2> SUFFICES ASSUME ReportInv, NEW s \in Sars, NEW c \in Civilians
               PROVE  reports[s, c] + timers[s, c] + checks[s, c] > 0 => c \in known
    BY DEF ReportInv, ReportedHasEvent
  <2>1. <<s, c>> \in Pairs /\ <<s, c>>[2] = c
    BY DEF Pairs
  <2> QED
    BY <2>1 DEF ReportInv, PairHasEvent
<1> QED
  BY <1>1, ReportInvInit, ReportInvStep, PTL DEF ReportSpec

-----------------------------------------------------------------------------
(* Acknowledgements.                                                       *)

BeingAssigned(c) == call = [op |-> "assign", sar |-> NoSar, civ |-> c]

\* AckMeansTasked, pair by pair.
AckInv ==
  \A p \in Pairs : p \in acked \/ acks[p] > 0 => Tasked(p[2]) \/ BeingAssigned(p[2])

TablesInv == CrewInv /\ LoopInv

LEMMA TablesAlways == ReportSpec => []TablesInv
  BY ReportRefines, LoopAlways, PTL DEF KeepsDispatch, TablesInv

\* A civilian being assigned ends up assigned or queued, in that very call.
LEMMA AssignTasks ==
  ASSUME TablesInv, AssignRescuer, NEW c \in Civilians, call.civ = c
  PROVE  Tasked(c)'
<1>1. ASSUME NEW s \in FreeGround, RecordAssignment(s, c)
      PROVE  Tasked(c)'
  <2>1. rescuer'[c] = s /\ s # NoSar
    BY <1>1, DispatchAssumption DEF RecordAssignment, FreeGround, Sars, TablesInv, CrewInv,
       TypeInv, TypeOK
  <2> QED
    BY <2>1 DEF Tasked, Assigned
<1> QED
  BY <1>1 DEF AssignRescuer, Queue, Tasked, Assigned

\* Taken on, or about to be, is for ever.
LEMMA TakenStays ==
  ASSUME TablesInv, [ReportNext]_vars, NEW c \in Civilians, Tasked(c) \/ BeingAssigned(c)
  PROVE  Tasked(c)' \/ BeingAssigned(c)'
<1>1. CASE Tasked(c)
  BY <1>1, ReportStepOfTables, TaskedStays DEF TablesInv
<1>2. CASE BeingAssigned(c) /\ AssignRescuer
  BY <1>2, AssignTasks DEF BeingAssigned
<1>3. CASE BeingAssigned(c) /\ call' # call
  <2>1. call.op = "assign" /\ call.op # "idle"
    BY <1>3 DEF BeingAssigned
  <2>2. [DispatchNext]_dispatchVars
    BY ReportStepOfTables
  <2>3. DispatchNext
    BY <1>3, <2>2 DEF dispatchVars
  <2>4. ~Event /\ ~Crashed
    BY <2>1 DEF Event, Crashed, RecordDiscovery, ReportAtBase, SelfAssign, RunTask,
       CheckAllCiviliansSafe, Idle, Control
  <2>5. AssignRescuer
    BY <2>1, <2>3, <2>4 DEF DispatchNext, Cascade, Attach, Approach, Arrive, Carry,
       MarkCivilianAsSafe, AlreadySafe, ScanNext, ScanResume, ScanEnd, ScanDangling
  <2> QED
    BY <1>2, <1>3, <2>5
<1>4. CASE BeingAssigned(c) /\ call' = call
  BY <1>4 DEF BeingAssigned
<1> QED
  BY <1>1, <1>3, <1>4

LEMMA AckInit == ReportInit => AckInv
  BY DEF ReportInit, AckInv, NoneOf

LEMMA AckStep == TablesInv /\ ReportInv /\ AckInv /\ [ReportNext]_vars => AckInv'
<1> SUFFICES ASSUME TablesInv, ReportInv, AckInv, [ReportNext]_vars, NEW p \in Pairs,
                    p \in acked' \/ acks'[p] > 0
             PROVE  Tasked(p[2])' \/ BeingAssigned(p[2])'
  BY DEF AckInv
<1>1. p[2] \in Civilians /\ acks[p] \in Nat
  BY DEF Pairs, ReportInv, ReportTypeOK
<1>2. CASE p \in acked \/ acks[p] > 0
  BY <1>1, <1>2, TakenStays DEF AckInv
<1>3. ASSUME p \notin acked, ~(acks[p] > 0), NEW s \in Sars, NEW c \in Civilians, Reporting(s, c)
      PROVE  Tasked(p[2])' \/ BeingAssigned(p[2])'
  <2> DEFINE q == <<s, c>>
  <2>1. q \in Pairs /\ q[2] = c
    BY DEF Pairs
  <2>2. acks \in [Pairs -> 0 .. MaxInFlight] /\ MaxInFlight \in Nat
    BY ReportAssumption DEF ReportInv, ReportTypeOK
  <2> HIDE DEF q
  <2>3. ASSUME acks[q] > 0, acks' = Drop(acks, q)
        PROVE  acks'[p] = acks[p]
    BY <1>3, <2>1, <2>2, <2>3, DropType
  <2>4. CASE BaseReceives(s, c)
    <3>1. acks' = Put(acks, q) /\ acked' = acked /\ call' = [op |-> "assign", sar |-> NoSar, civ |-> c]
      BY <2>4 DEF BaseReceives, ReportAtBase, Enter, q
    <3>2. p = q
      BY <1>3, <2>1, <2>2, <3>1, PutType
    <3> QED
      BY <2>1, <3>1, <3>2 DEF BeingAssigned
  <2>5. CASE SarReceivesAck(s, c)
    <3>1. acks[q] > 0 /\ acks' = Drop(acks, q) /\ acked' = acked \cup {q}
      BY <2>5 DEF SarReceivesAck, q
    <3> QED
      BY <1>3, <2>3, <3>1
  <2>6. CASE Lose(s, c)
    <3>1. acked' = acked /\ (acks' = acks \/ (acks[q] > 0 /\ acks' = Drop(acks, q)))
      BY <2>6 DEF Lose, q
    <3> QED
      BY <1>3, <2>3, <3>1
  <2>7. CASE SenseOutOfDanger(s, c) \/ SenseWhileBusy(s, c) \/ Report(s, c)
               \/ OnDiscoveryAckTimeout(s, c) \/ NothingToCheck(s, c) \/ FailOver(s, c)
    BY <1>3, <2>7 DEF SenseOutOfDanger, SenseWhileBusy, Report, OnDiscoveryAckTimeout,
       NothingToCheck, FailOver, SendDiscoveryToBase
  <2> QED
    BY <1>3, <2>4, <2>5, <2>6, <2>7 DEF Reporting, SenseBySight, SenseBySignal
<1>4. CASE UNCHANGED reportVars
  BY <1>2, <1>4 DEF reportVars
<1>5. CASE DispatchAlone \/ UNCHANGED vars
  BY <1>4, <1>5 DEF DispatchAlone, vars
<1> QED
  BY <1>2, <1>3, <1>5 DEF ReportNext

\* An acknowledgement tells the truth, however late it arrives and whatever retry it
\* answers: its civilian is assigned, queued, safe, or being assigned.
THEOREM AcksAreTrue == ReportSpec => []AckMeansTasked
<1>1. ReportSpec => []ReportInv
  BY ReportInvInit, ReportInvStep, PTL DEF ReportSpec
<1>2. ReportSpec => []AckInv
  BY <1>1, TablesAlways, AckInit, AckStep, PTL DEF ReportSpec
<1>3. AckInv => AckMeansTasked
  <2> SUFFICES ASSUME AckInv, NEW s \in Sars, NEW c \in Civilians,
                      <<s, c>> \in acked \/ acks[s, c] > 0
               PROVE  Tasked(c) \/ BeingAssigned(c)
    BY DEF AckMeansTasked, BeingAssigned
  <2>1. <<s, c>> \in Pairs /\ <<s, c>>[2] = c
    BY DEF Pairs
  <2> QED
    BY <2>1 DEF AckInv
<1> QED
  BY <1>2, <1>3, PTL

-----------------------------------------------------------------------------
(* How a watch ends.                                                       *)

\* Only an answer or the failover ends a watch: the civilian has been taken on, or
\* the failover was that of a drone or a helicopter, which is dropped.
LEMMA WatchEnds ==
  ASSUME TablesInv, ReportInv, AckInv, [ReportNext]_vars,
         NEW s \in Sars, NEW c \in Civilians, Watching(s, c), ~Watching(s, c)'
  PROVE  Tasked(c)' \/ (s \in AerialSars /\ checks[<<s, c>>] > 0)
<1> DEFINE p == <<s, c>>
<1>1. p \in Pairs /\ p[2] = c
  BY DEF Pairs
<1>2. /\ timers \in [Pairs -> 0 .. MaxTimers] /\ checks \in [Pairs -> 0 .. MaxTimers]
      /\ MaxTimers \in Nat
  BY ReportAssumption DEF ReportInv, ReportTypeOK
<1>3. timers[p] + checks[p] > 0 /\ ~(timers'[p] + checks'[p] > 0)
  BY DEF Watching
<1>4. Tasked(c) => Tasked(c)'
  BY ReportStepOfTables, TaskedStays DEF TablesInv
<1> HIDE DEF p
<1>5. CASE UNCHANGED <<timers, checks>>
  BY <1>3, <1>5
<1>6. ASSUME NEW t \in Sars, NEW d \in Civilians, Reporting(t, d), ~UNCHANGED <<timers, checks>>
      PROVE  Tasked(c)' \/ (s \in AerialSars /\ checks[p] > 0)
  <2> DEFINE q == <<t, d>>
  <2>1. q \in Pairs /\ (q = p => t = s /\ d = c)
    BY DEF Pairs, p
  <2> HIDE DEF q
  <2>2. ASSUME timers[q] > 0
        PROVE  /\ Drop(timers, q) \in [Pairs -> 0 .. MaxTimers]
               /\ Drop(timers, q)[q] = timers[q] - 1
               /\ \A r \in Pairs : r # q => Drop(timers, q)[r] = timers[r]
    BY <1>2, <2>1, <2>2, DropType
  <2>3. ASSUME checks[q] > 0, checks' = Drop(checks, q), UNCHANGED timers PROVE q = p
    BY <1>1, <1>2, <1>3, <2>1, <2>3, DropType
  <2>4. CASE Report(t, d)
    <3>1. timers' = [timers EXCEPT ![q] = @ + 1] /\ checks' = checks
      BY <2>4 DEF Report, SendDiscoveryToBase, q
    <3> QED
      BY <1>1, <1>2, <1>3, <2>1, <3>1
  <2>5. CASE OnDiscoveryAckTimeout(t, d)
    <3>1. timers[q] > 0 /\ call = Idle
      BY <2>5 DEF OnDiscoveryAckTimeout, q
    <3>2. CASE Answered(t, d) /\ timers' = Drop(timers, q) /\ checks' = checks
      <4>1. q = p
        BY <1>1, <1>2, <1>3, <2>1, <2>2, <3>1, <3>2
      <4>2. p \in acked \/ Assigned(c)
        BY <2>1, <3>2, <4>1 DEF Answered, q
      <4>3. ~BeingAssigned(c)
        BY <3>1 DEF BeingAssigned, Idle, Control
      <4> QED
        BY <1>1, <1>4, <4>2, <4>3 DEF AckInv, Tasked
    <3>3. CASE SendDiscoveryToBase(q, Drop(timers, q)) /\ checks' = checks
      <4>1. timers' = [Drop(timers, q) EXCEPT ![q] = @ + 1]
        BY <3>3 DEF SendDiscoveryToBase
      <4> QED
        BY <1>1, <1>2, <1>3, <2>1, <2>2, <3>1, <3>3, <4>1
    <3>4. CASE timers' = Drop(timers, q) /\ Escalate(q)
      <4>1. checks' = [checks EXCEPT ![q] = @ + 1]
        BY <3>4 DEF Escalate
      <4> QED
        BY <1>1, <1>2, <1>3, <2>1, <2>2, <3>1, <3>4, <4>1
    <3> QED
      BY <2>5, <3>2, <3>3, <3>4 DEF OnDiscoveryAckTimeout, q
  <2>6. CASE NothingToCheck(t, d)
    <3>1. checks[q] > 0 /\ checks' = Drop(checks, q) /\ UNCHANGED timers /\ Needless(t, d)
      BY <2>6 DEF NothingToCheck, q
    <3>2. t = s /\ d = c /\ q = p
      BY <2>1, <2>3, <3>1
    <3> QED
      BY <1>4, <3>1, <3>2 DEF Needless, Tasked
  <2>7. CASE FailOver(t, d)
    <3>1. checks[q] > 0 /\ checks' = Drop(checks, q) /\ UNCHANGED timers
          /\ t \in FreeGround /\ RecordAssignment(t, d)
      BY <2>7 DEF FailOver, SelfAssign, q
    <3>2. t = s /\ d = c
      BY <2>1, <2>3, <3>1
    <3>3. rescuer'[c] = s /\ s # NoSar
      BY <1>1, <3>1, <3>2, DispatchAssumption DEF RecordAssignment, TablesInv, CrewInv,
         TypeInv, TypeOK
    <3> QED
      BY <3>3 DEF Tasked, Assigned
  <2> QED
    BY <1>6, <2>4, <2>5, <2>6, <2>7 DEF Reporting, SenseBySight, SenseBySignal, SenseOutOfDanger,
       SenseWhileBusy, BaseReceives, SarReceivesAck, Lose
<1>7. CASE DispatchAlone \/ UNCHANGED vars
  BY <1>5, <1>7 DEF DispatchAlone, vars, reportVars
<1> QED
  BY <1>5, <1>6, <1>7 DEF ReportNext, p

\* All that is proved of the tables and of the reports above holds in every state.
LEMMA ReportsAlways == ReportSpec => [](TablesInv /\ ReportInv /\ AckInv)
  BY TablesAlways, ReportInvInit, ReportInvStep, AckInit, AckStep, PTL DEF ReportSpec

\* A ground rescuer that has reported a civilian watches for the answer until the
\* civilian has been taken on, through losses, retries and late acknowledgements.
THEOREM WatchIsKept == ReportSpec => WatchesUntilTasked
<1>1. TablesInv /\ ReportInv /\ AckInv /\ [ReportNext]_vars
        => [\A s \in GroundSars, c \in Civilians :
              Watching(s, c) /\ ~Watching(s, c)' => Tasked(c)']_vars
  BY WatchEnds, DispatchAssumption DEF Sars
<1> QED
  BY <1>1, ReportsAlways, PTL DEF ReportSpec, WatchesUntilTasked

-----------------------------------------------------------------------------
(* Chains of retries.                                                      *)

\* A pair that sight or heat alone can sense has one timeout or check, since it was
\* sensed; and a check is scheduled after the last retry only.
ChainInv ==
  \A p \in Pairs :
    /\ p[2] \notin Signalling => timers[p] + checks[p] <= (IF p \in seen THEN 1 ELSE 0)
    /\ checks[p] > 0 => retries[p] = MaxRetries

\* No pair has a timeout at first.
LEMMA ChainInit == ReportInit => ChainInv
<1>1. \A p \in Pairs : NoneOf[p] = 0
  BY DEF NoneOf
<1> QED
  BY <1>1 DEF ReportInit, ChainInv

\* A pair with no new timeout and no new check, or with a timeout that became a
\* check after the last retry, keeps its chain; the other pairs do not change.
LEMMA ChainOfPair ==
  ASSUME ReportInv, ReportInv', ChainInv, NEW p \in Pairs, seen \subseteq seen',
         \A q \in Pairs \ {p} :
           timers'[q] = timers[q] /\ checks'[q] = checks[q] /\ retries'[q] = retries[q],
         timers'[p] + checks'[p] <= timers[p] + checks[p],
         checks'[p] > 0 => retries'[p] = MaxRetries
  PROVE  ChainInv'
<1>1. ASSUME NEW q \in Pairs
      PROVE  q[2] \notin Signalling => timers'[q] + checks'[q] <= (IF q \in seen' THEN 1 ELSE 0)
  <2>1. timers[q] \in Nat /\ checks[q] \in Nat /\ timers'[q] \in Nat /\ checks'[q] \in Nat
    BY ReportAssumption DEF ReportInv, ReportTypeOK
  <2>2. timers'[q] + checks'[q] <= timers[q] + checks[q]
    BY <2>1
  <2>3. q[2] \notin Signalling => timers[q] + checks[q] <= (IF q \in seen THEN 1 ELSE 0)
    BY DEF ChainInv
  <2> QED
    BY <2>1, <2>2, <2>3
<1>2. ASSUME NEW q \in Pairs, checks'[q] > 0
      PROVE  retries'[q] = MaxRetries
  BY <1>2 DEF ChainInv
<1> QED
  BY <1>1, <1>2 DEF ChainInv

\* Only a report starts a chain, and a retry or the failover continues it.
LEMMA ChainStep == ReportInv /\ ChainInv /\ [ReportNext]_vars => ChainInv'
<1> SUFFICES ASSUME ReportInv, ChainInv, [ReportNext]_vars PROVE ChainInv'
  OBVIOUS
<1>0. ReportInv'
  BY ReportInvStep
<1>1. CASE UNCHANGED <<timers, checks, retries>> /\ seen \subseteq seen'
  BY <1>1 DEF ChainInv, ReportInv, ReportTypeOK
<1>2. ASSUME NEW s \in Sars, NEW c \in Civilians, Reporting(s, c) PROVE ChainInv'
  <2> DEFINE p == <<s, c>>
  <2>1. p \in Pairs /\ p[2] = c
    BY DEF Pairs
  <2>2. /\ timers \in [Pairs -> 0 .. MaxTimers] /\ checks \in [Pairs -> 0 .. MaxTimers]
        /\ retries \in [Pairs -> 0 .. MaxRetries] /\ MaxTimers \in Nat /\ MaxRetries \in Nat
    BY ReportAssumption DEF ReportInv, ReportTypeOK
  <2>3. timers[p] \in Nat /\ checks[p] \in Nat /\ retries[p] \in 0 .. MaxRetries
    BY <2>1, <2>2
  <2> HIDE DEF p
  <2>4. CASE SenseOutOfDanger(s, c) \/ SenseWhileBusy(s, c) \/ BaseReceives(s, c)
               \/ SarReceivesAck(s, c) \/ Lose(s, c)
    BY <1>1, <2>4 DEF SenseOutOfDanger, SenseWhileBusy, BaseReceives, SarReceivesAck, Lose
  <2>5. CASE Report(s, c) /\ (p \notin seen \/ c \in Signalling)
    <3>1. /\ seen' = seen \cup {p} /\ timers' = [timers EXCEPT ![p] = @ + 1]
          /\ UNCHANGED <<checks, retries>>
      BY <2>5 DEF Report, SendDiscoveryToBase, p
    <3>2. ASSUME NEW q \in Pairs, q[2] \notin Signalling
          PROVE  timers'[q] + checks'[q] <= (IF q \in seen' THEN 1 ELSE 0)
      <4>1. timers[q] \in Nat /\ checks[q] \in Nat
            /\ timers[q] + checks[q] <= (IF q \in seen THEN 1 ELSE 0)
        BY <2>2, <3>2 DEF ChainInv
      <4>2. CASE q = p
        BY <2>1, <2>2, <2>5, <3>1, <3>2, <4>1, <4>2
      <4>3. CASE q # p
        BY <2>2, <3>1, <4>1, <4>3
      <4> QED
        BY <4>2, <4>3
    <3> QED
      BY <3>1, <3>2 DEF ChainInv
  <2>6. CASE OnDiscoveryAckTimeout(s, c)
    <3>1. timers[p] > 0 /\ seen' = seen
      BY <2>6 DEF OnDiscoveryAckTimeout, p
    <3>2. Drop(timers, p) \in [Pairs -> 0 .. MaxTimers] /\ Drop(timers, p)[p] = timers[p] - 1
          /\ \A q \in Pairs \ {p} : Drop(timers, p)[q] = timers[q]
      BY <2>1, <2>2, <3>1, DropType
    <3>3. CASE timers' = Drop(timers, p) /\ UNCHANGED <<retries, checks>>
      <4>1. timers'[p] + checks'[p] <= timers[p] + checks[p]
        BY <2>3, <3>2, <3>3
      <4> QED
        BY <1>0, <2>1, <3>1, <3>2, <3>3, <4>1, ChainOfPair DEF ChainInv
    <3>4. CASE RetryLeft(p) /\ retries' = [retries EXCEPT ![p] = @ + 1]
                 /\ SendDiscoveryToBase(p, Drop(timers, p)) /\ UNCHANGED checks
      <4>1. timers' = [Drop(timers, p) EXCEPT ![p] = @ + 1]
        BY <3>4 DEF SendDiscoveryToBase
      <4>2. timers'[p] = timers[p] /\ \A q \in Pairs \ {p} : timers'[q] = timers[q]
        BY <2>1, <2>3, <3>2, <4>1
      <4>3. ~(checks[p] > 0)
        BY <2>1, <2>3, <3>4 DEF ChainInv, RetryLeft
      <4>4. timers'[p] + checks'[p] <= timers[p] + checks[p]
        BY <2>3, <3>4, <4>2
      <4> QED
        BY <1>0, <2>1, <2>2, <3>1, <3>4, <4>2, <4>3, <4>4, ChainOfPair
    <3>5. CASE ~RetryLeft(p) /\ timers' = Drop(timers, p) /\ Escalate(p) /\ retries' = retries
      <4>1. checks' = [checks EXCEPT ![p] = @ + 1]
        BY <3>5 DEF Escalate
      <4>2. checks'[p] = checks[p] + 1 /\ \A q \in Pairs \ {p} : checks'[q] = checks[q]
        BY <2>1, <2>2, <4>1
      <4>3. timers'[p] + checks'[p] <= timers[p] + checks[p]
        BY <2>3, <3>2, <3>5, <4>2
      <4>4. retries'[p] = MaxRetries
        BY <2>2, <2>3, <3>5 DEF RetryLeft
      <4> QED
        BY <1>0, <2>1, <3>1, <3>2, <3>5, <4>2, <4>3, <4>4, ChainOfPair
    <3> QED
      BY <2>6, <3>3, <3>4, <3>5 DEF OnDiscoveryAckTimeout, p
  <2>7. CASE NothingToCheck(s, c) \/ FailOver(s, c)
    <3>1. checks[p] > 0 /\ checks' = Drop(checks, p) /\ UNCHANGED <<seen, retries, timers>>
      BY <2>7 DEF NothingToCheck, FailOver, p
    <3>2. checks'[p] = checks[p] - 1 /\ \A q \in Pairs \ {p} : checks'[q] = checks[q]
      BY <2>1, <2>2, <3>1, DropType
    <3>3. timers'[p] + checks'[p] <= timers[p] + checks[p]
      BY <2>3, <3>1, <3>2
    <3>4. retries'[p] = MaxRetries
      BY <2>1, <3>1 DEF ChainInv
    <3> QED
      BY <1>0, <2>1, <3>1, <3>2, <3>3, <3>4, ChainOfPair
  <2> QED
    BY <1>2, <2>4, <2>5, <2>6, <2>7 DEF Reporting, SenseBySight, SenseBySignal, p
<1>3. CASE DispatchAlone \/ UNCHANGED vars
  BY <1>1, <1>3 DEF DispatchAlone, vars, reportVars
<1> QED
  BY <1>2, <1>3 DEF ReportNext

\* The chains hold in every state.
LEMMA ChainsAlways == ReportSpec => []ChainInv
  BY ReportInvInit, ReportInvStep, ChainInit, ChainStep, PTL DEF ReportSpec

\* However often a rescuer sees a civilian without a device, it reports it once: the
\* pair never has two chains of timeouts.
THEOREM ChainsAreSingle == ReportSpec => []OneChainPerSighting
<1>1. ReportInv /\ ChainInv => OneChainPerSighting
  <2> SUFFICES ASSUME ReportInv, ChainInv, NEW s \in Sars, NEW c \in Civilians \ Signalling
               PROVE  timers[s, c] + checks[s, c] <= 1
    BY DEF OneChainPerSighting
  <2> DEFINE p == <<s, c>>
  <2>1. p \in Pairs /\ p[2] \notin Signalling
    BY DEF Pairs
  <2> HIDE DEF p
  <2>2. timers[p] \in Nat /\ checks[p] \in Nat
    BY <2>1, ReportAssumption DEF ReportInv, ReportTypeOK
  <2>3. timers[p] + checks[p] <= 1
    BY <2>1, <2>2 DEF ChainInv
  <2> QED
    BY <2>3 DEF p
<1> QED
  BY <1>1, ReportsAlways, ChainsAlways, PTL

\* A drone or a helicopter stops watching a civilian that nobody has taken on only
\* when it has made every retry.
THEOREM AerialsGiveUpLast == ReportSpec => AerialGivesUpLast
<1>1. ASSUME TablesInv, ReportInv, AckInv, ChainInv, [ReportNext]_vars, NEW s \in AerialSars,
             NEW c \in Civilians, Watching(s, c), ~Watching(s, c)'
      PROVE  Tasked(c)' \/ retries[s, c] = MaxRetries
  <2>1. s \in Sars /\ <<s, c>> \in Pairs
    BY DEF Sars, Pairs
  <2>2. checks[<<s, c>>] > 0 => retries[<<s, c>>] = MaxRetries
    BY <1>1, <2>1 DEF ChainInv
  <2> QED
    BY <1>1, <2>1, <2>2, WatchEnds
<1>2. TablesInv /\ ReportInv /\ AckInv /\ ChainInv /\ [ReportNext]_vars
        => [\A s \in AerialSars, c \in Civilians :
              Watching(s, c) /\ ~Watching(s, c)'
                => Tasked(c)' \/ retries[s, c] = MaxRetries]_vars
  BY <1>1
<1> QED
  BY <1>2, ReportsAlways, ChainsAlways, PTL DEF ReportSpec, AerialGivesUpLast
=============================================================================
