--------------------------- MODULE DiscoveryReport ---------------------------
(***************************************************************************)
(* How a discovery reaches the base station: ProcessDiscoveryEvent,        *)
(* sendDiscoveryToBase, ProcessDiscoveryPacket, ProcessDiscoveryAck,       *)
(* OnDiscoveryAckTimeout (discovery.cc) and                                *)
(* CheckAssignmentStatusAndPossiblySelfAssign (convergence.cc), composed   *)
(* with the rescue tables of RescueDispatch, which they read and change.   *)
(*                                                                         *)
(* Reports and acknowledgements are UDP datagrams over an ad hoc network:  *)
(* they may be lost, delayed and overtake each other.  All datagrams of a  *)
(* pair (rescuer, civilian) are alike, so the network is a count per pair. *)
(* A pair's timeouts carry the same arguments too, and are counted.        *)
(***************************************************************************)
EXTENDS RescueDispatch

CONSTANTS
  Signalling,   \* civilians with a locator beacon or a phone that answers queries
  MaxRetries,   \* MAX_DISCOVERY_RETRIES
  MaxTimers,    \* bound: timeouts and checks a pair has running, to sense again
  MaxInFlight   \* bound: datagrams of a pair on the air, a further one is lost

ASSUME ReportAssumption ==
  /\ Signalling \subseteq Civilians
  /\ MaxRetries \in Nat
  /\ MaxTimers \in Nat \ {0}
  /\ MaxInFlight \in Nat \ {0}

Pairs == Sars \X Civilians

VARIABLES
  seen,     \* pairs with discoveryState[sar][civilian]
  acked,    \* pairs with g_discoveryAcked
  retries,  \* g_discoveryRetries
  reports,  \* discovery datagrams on their way to the base
  acks,     \* acknowledgements on their way back
  timers,   \* OnDiscoveryAckTimeout events scheduled
  checks    \* CheckAssignmentStatusAndPossiblySelfAssign events scheduled

reportVars == <<seen, acked, retries, reports, acks, timers, checks>>
vars == <<dispatchVars, reportVars>>

\* The flags and counters are those of the pairs, within their bounds.
ReportTypeOK ==
  /\ seen \subseteq Pairs
  /\ acked \subseteq Pairs
  /\ retries \in [Pairs -> 0 .. MaxRetries]
  /\ reports \in [Pairs -> 0 .. MaxInFlight]
  /\ acks \in [Pairs -> 0 .. MaxInFlight]
  /\ timers \in [Pairs -> 0 .. MaxTimers]
  /\ checks \in [Pairs -> 0 .. MaxTimers]

NoneOf == [p \in Pairs |-> 0]

ReportInit ==
  /\ DispatchInit
  /\ seen = {}
  /\ acked = {}
  /\ retries = NoneOf
  /\ reports = NoneOf
  /\ acks = NoneOf
  /\ timers = NoneOf
  /\ checks = NoneOf

-----------------------------------------------------------------------------
Put(net, p) == [net EXCEPT ![p] = IF @ < MaxInFlight THEN @ + 1 ELSE @]
Drop(count, p) == [count EXCEPT ![p] = @ - 1]

(* Sending a report: a datagram, the acknowledged flag cleared, a timeout. *)

SendDiscoveryToBase(p, running) ==
  /\ reports' = Put(reports, p)
  /\ acked' = acked \ {p}
  /\ timers' = [running EXCEPT ![p] = @ + 1]

(* ProcessDiscoveryEvent, for a rescuer that senses a civilian.            *)

OutOfDanger(c) == c \in safe \/ c \in attached

\* Nothing to report.  Line of sight and the signals mark the civilian as
\* discovered all the same; thermal imaging does not.
SenseOutOfDanger(s, c) ==
  /\ call = Idle
  /\ OutOfDanger(c)
  /\ seen' = seen \cup {<<s, c>>}
  /\ UNCHANGED <<dispatchVars, acked, retries, reports, acks, timers, checks>>

\* A rescuer that has an assignment marks the civilian and does not report it.
SenseWhileBusy(s, c) ==
  /\ call = Idle
  /\ ~OutOfDanger(c)
  /\ s \in assigned
  /\ seen' = seen \cup {<<s, c>>}
  /\ UNCHANGED <<dispatchVars, acked, retries, reports, acks, timers, checks>>

ReportUnrecorded(s, c) ==
  /\ call = Idle
  /\ ~OutOfDanger(c)
  /\ s \notin assigned
  /\ timers[s, c] + checks[s, c] < MaxTimers
  /\ seen' = seen \cup {<<s, c>>}
  /\ SendDiscoveryToBase(<<s, c>>, timers)
  /\ UNCHANGED <<dispatchVars, retries, acks, checks>>

Report(s, c) ==
  /\ ~OutOfDanger(c)
  /\ s \notin assigned
  /\ timers[s, c] + checks[s, c] < MaxTimers
  /\ RecordDiscovery(c)
  /\ seen' = seen \cup {<<s, c>>}
  /\ SendDiscoveryToBase(<<s, c>>, timers)
  /\ UNCHANGED <<retries, acks, checks>>

\* Sight and heat are tried only for pairs not discovered yet; beacons and
\* answers to queries come again and again.
SenseBySightAgain(s, c) ==
  SenseOutOfDanger(s, c) \/ SenseWhileBusy(s, c) \/ Report(s, c)

SenseBySight(s, c) ==
  /\ <<s, c>> \notin seen
  /\ SenseOutOfDanger(s, c) \/ SenseWhileBusy(s, c) \/ Report(s, c)

SenseBySignal(s, c) ==
  /\ c \in Signalling
  /\ SenseOutOfDanger(s, c) \/ SenseWhileBusy(s, c) \/ Report(s, c)

-----------------------------------------------------------------------------
(* The network.                                                            *)

\* ProcessDiscoveryPacket: the base acknowledges, then assigns a rescuer.
BaseReceives(s, c) ==
  /\ reports[s, c] > 0
  /\ reports' = Drop(reports, <<s, c>>)
  /\ acks' = Put(acks, <<s, c>>)
  /\ ReportAtBase(c)
  /\ UNCHANGED <<seen, acked, retries, timers, checks>>

\* ProcessDiscoveryAck.
SarReceivesAck(s, c) ==
  /\ call = Idle
  /\ acks[s, c] > 0
  /\ acks' = Drop(acks, <<s, c>>)
  /\ acked' = acked \cup {<<s, c>>}
  /\ UNCHANGED <<dispatchVars, seen, retries, reports, timers, checks>>

Lose(s, c) ==
  /\ \/ reports[s, c] > 0 /\ reports' = Drop(reports, <<s, c>>) /\ UNCHANGED acks
     \/ acks[s, c] > 0 /\ acks' = Drop(acks, <<s, c>>) /\ UNCHANGED reports
  /\ UNCHANGED <<dispatchVars, seen, acked, retries, timers, checks>>

-----------------------------------------------------------------------------
(* Timeouts.                                                               *)

RetryLeftOffByOne(p) == retries[p] <= MaxRetries
LastRetrySkipped(p) == retries[p] + 1 < MaxRetries
RetryLeft(p) == retries[p] < MaxRetries

EscalateNever(p) == checks' = checks
Escalate(p) == checks' = [checks EXCEPT ![p] = @ + 1]

Answered(s, c) == <<s, c>> \in acked \/ Assigned(c)

OnDiscoveryAckTimeout(s, c) ==
  /\ call = Idle
  /\ timers[s, c] > 0
  /\ LET p == <<s, c>>
         left == Drop(timers, p)
     IN \/ /\ Answered(s, c)
           /\ timers' = left
           /\ UNCHANGED <<acked, retries, reports, checks>>
        \/ /\ ~Answered(s, c)
           /\ RetryLeft(p)
           /\ retries' = [retries EXCEPT ![p] = @ + 1]
           /\ SendDiscoveryToBase(p, left)
           /\ UNCHANGED checks
        \/ /\ ~Answered(s, c)
           /\ ~RetryLeft(p)
           /\ timers' = left
           /\ Escalate(p)
           /\ UNCHANGED <<acked, retries, reports>>
  /\ UNCHANGED <<dispatchVars, seen, acks>>

(* CheckAssignmentStatusAndPossiblySelfAssign.  A busy rescuer schedules   *)
(* the check again two seconds later: that leaves every variable as it is. *)

NeedlessOrBusy(s, c) == Assigned(c) \/ s \in AerialSars \/ s \in assigned
Needless(s, c) == Assigned(c) \/ s \in AerialSars

NothingToCheck(s, c) ==
  /\ call = Idle
  /\ checks[s, c] > 0
  /\ Needless(s, c)
  /\ checks' = Drop(checks, <<s, c>>)
  /\ UNCHANGED <<dispatchVars, seen, acked, retries, reports, acks, timers>>

FailOverUnchecked(s, c) ==
  /\ call = Idle
  /\ checks[s, c] > 0
  /\ checks' = Drop(checks, <<s, c>>)
  /\ s \in GroundSars
  /\ RecordAssignment(s, c)
  /\ UNCHANGED <<known, safe, pending, attached, towing, offset, tasks, sweeping,
                 scans, seen, acked, retries, reports, acks, timers>>

FailOver(s, c) ==
  /\ checks[s, c] > 0
  /\ checks' = Drop(checks, <<s, c>>)
  /\ SelfAssign(s, c)
  /\ UNCHANGED <<seen, acked, retries, reports, acks, timers>>

-----------------------------------------------------------------------------
\* What RescueDispatch does by itself, with nothing reported.
DispatchAlone ==
  /\ Cascade \/ (\E t \in Task : RunTask(t)) \/ CheckAllCiviliansSafe \/ Crashed
  /\ UNCHANGED reportVars

Reporting(s, c) ==
  \/ SenseBySight(s, c) \/ SenseBySignal(s, c)
  \/ BaseReceives(s, c) \/ SarReceivesAck(s, c) \/ Lose(s, c)
  \/ OnDiscoveryAckTimeout(s, c) \/ NothingToCheck(s, c) \/ FailOver(s, c)

ReportNext == DispatchAlone \/ \E s \in Sars, c \in Civilians : Reporting(s, c)

ReportSpec == ReportInit /\ [][ReportNext]_vars

(***************************************************************************)
(* Fairness.  A handler that has begun ends, and a timeout or a check that *)
(* is scheduled is run; strong fairness because other handlers disable     *)
(* these events while they run.  Nothing is asked of the network, which    *)
(* may lose everything, nor of the rescuers' movement.  A check polls      *)
(* every two seconds whether the rescuer is free, so it could miss a       *)
(* shorter pause: what is claimed below excepts a busy rescuer.            *)
(***************************************************************************)
FairReportSpec ==
  /\ ReportSpec
  /\ WF_dispatchVars(Cascade)
  /\ \A s \in GroundSars, c \in Civilians :
       /\ SF_vars(OnDiscoveryAckTimeout(s, c))
       /\ SF_vars(NothingToCheck(s, c) \/ FailOver(s, c))

-----------------------------------------------------------------------------
\* Whatever is in flight or scheduled about a civilian, its discovery event
\* exists: ConvergeOnCivilian never gives up for want of one, which would leave
\* the rescuer assigned with nothing driving it.
ReportedHasEvent ==
  \A s \in Sars, c \in Civilians :
    reports[s, c] + timers[s, c] + checks[s, c] > 0 => c \in known

\* An acknowledgement tells the truth: a civilian whose report is acknowledged,
\* or about to be, is assigned, queued or safe, or is being assigned.
AckMeansTasked ==
  \A s \in Sars, c \in Civilians :
    <<s, c>> \in acked \/ acks[s, c] > 0
      => Tasked(c) \/ call = [op |-> "assign", sar |-> NoSar, civ |-> c]

\* A rescuer reports a civilian that has no device once, however often it sees
\* it: the pair never has two chains of timeouts.
OneChainPerSighting ==
  \A s \in Sars, c \in Civilians \ Signalling : timers[s, c] + checks[s, c] <= 1

\* A ground rescuer that has reported a civilian does not stop watching for the
\* answer, through lost datagrams, late acknowledgements and retries, until the
\* civilian has been taken on by somebody.
Watching(s, c) == timers[s, c] + checks[s, c] > 0
WatchesUntilTasked ==
  [][\A s \in GroundSars, c \in Civilians :
       Watching(s, c) /\ ~Watching(s, c)' => Tasked(c)']_vars

\* A drone or a helicopter never takes a civilian itself, and its failover is
\* dropped: what holds of it is that it stops watching a civilian nobody has
\* taken on only when every retry has been made.
AerialGivesUpLast ==
  [][\A s \in AerialSars, c \in Civilians :
       Watching(s, c) /\ ~Watching(s, c)'
         => Tasked(c)' \/ retries[s, c] = MaxRetries]_vars

\* The rescue tables change only as RescueDispatch lets them, so what is shown
\* of RescueDispatch holds with the reports that feed it.
KeepsDispatch == DispatchSpec

\* Though the network may lose everything, a ground rescuer's report ends with
\* the civilian taken on, if only by that rescuer, unless it gets other work.
ReportIsActedOn ==
  \A s \in GroundSars, c \in Civilians :
    Watching(s, c) ~> (Tasked(c) \/ s \in assigned)

\* discovery.cc:31-32: all discovery types "are logged and forwarded to the base
\* station uniformly".
ForwardedUniformly ==
  [][\A s \in Sars, c \in Civilians :
       <<s, c>> \in seen' \ seen /\ ~OutOfDanger(c) => timers'[s, c] > timers[s, c]]_vars
=============================================================================
