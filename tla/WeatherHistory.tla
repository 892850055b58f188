--------------------------- MODULE WeatherHistory ---------------------------
(***************************************************************************)
(* One weather condition of WeatherManager: its current value, the history *)
(* of its changes and the averages that the result files take from it.     *)
(* The conditions are independent of each other, so one stands for all.    *)
(*                                                                         *)
(* Time is counted in seconds.  Two variables are not in the program:      *)
(* sky[t] is the weather that was in force from second t - 1 to second t,  *)
(* and redated tells whether a planned change has overwritten the date of  *)
(* an entry.                                                               *)
(***************************************************************************)
EXTENDS Integers, Sequences, FiniteSetsExt, Functions

CONSTANTS
  Intensities,  \* values of the condition
  MaxTime,      \* bound on the simulated seconds
  MaxChanges    \* bound on the number of entries of the history

ASSUME HistoryAssumption ==
  /\ Intensities \subseteq Nat
  /\ MaxTime \in Nat /\ MaxChanges \in Nat

VARIABLES
  now,        \* Simulator::Now
  condition,  \* m_weatherConditions
  history,    \* m_weatherHistory
  sky,        \* the weather of each second that has passed
  redated     \* the date of an entry has been overwritten

weatherVars == <<now, condition, history, sky, redated>>

Entry == [startTime : Int, intensity : Intensities]

WeatherTypeOK ==
  /\ now \in 0 .. MaxTime
  /\ condition \in Intensities
  /\ history \in Seq(Entry) /\ Len(history) \in 1 .. MaxChanges + 1
  /\ sky \in [1 .. now -> Intensities]
  /\ redated \in BOOLEAN

\* The scenarios set every condition before the run; the first entry is dated
\* at time 0.
WeatherInit ==
  /\ now = 0
  /\ condition \in Intensities
  /\ history = <<[startTime |-> 0, intensity |-> condition]>>
  /\ sky = <<>>
  /\ redated = FALSE

-----------------------------------------------------------------------------
(* Averages.                                                               *)

\* Where the i-th segment of the history ends.
SegmentToNow(h, i, t) == t
SegmentEnd(h, i, t) == IF i < Len(h) THEN h[i + 1].startTime ELSE t

\* The seconds of segment i within a window; the loop breaks after the first
\* segment that starts behind the window.
Overlap(h, i, t, from, to) ==
  LET overlapStart == Max({h[i].startTime, from})
      overlapEnd == Min({SegmentEnd(h, i, t), to})
      reached == \A j \in 1 .. i - 1 : h[j].startTime <= to
  IN IF reached THEN Max({overlapEnd - overlapStart, 0}) ELSE 0

TotalDuration(h, t, from, to) ==
  SumFunction([i \in 1 .. Len(h) |-> Overlap(h, i, t, from, to)])

WeightedSum(h, t, from, to) ==
  SumFunction([i \in 1 .. Len(h) |->
                 h[i].intensity * Overlap(h, i, t, from, to)])

\* GetAverageWeatherConditions, as a fraction; 0 when no segment overlaps.
Average(from, to) ==
  [sum |-> WeightedSum(history, now, from, to),
   over |-> TotalDuration(history, now, from, to)]

-----------------------------------------------------------------------------
(* Changes of the weather.                                                 *)

PushFront(h, t, v) == <<[startTime |-> t, intensity |-> v]>> \o h

Push(h, t, v) == Append(h, [startTime |-> t, intensity |-> v])

SetWeatherCondition(v) ==
  /\ Len(history) <= MaxChanges
  /\ condition' = v
  /\ history' = Push(history, now, v)
  /\ UNCHANGED <<now, sky, redated>>

\* What ScheduleWeatherChange schedules.  It logs how long the last weather
\* lasted in the field that holds when it began.
Closed(h, t) == [h EXCEPT ![Len(h)].startTime = t - @]
UpdateWeatherCondition(v) ==
  /\ Len(history) <= MaxChanges
  /\ condition' = v
  /\ history' = Push(Closed(history, now), now, v)
  /\ redated' = TRUE
  /\ UNCHANGED <<now, sky>>

Tick ==
  /\ now < MaxTime
  /\ now' = now + 1
  /\ sky' = Append(sky, condition)
  /\ UNCHANGED <<condition, history, redated>>

WeatherNext ==
  \/ \E v \in Intensities : SetWeatherCondition(v) \/ UpdateWeatherCondition(v)
  \/ Tick

WeatherSpec == WeatherInit /\ [][WeatherNext]_weatherVars

-----------------------------------------------------------------------------
(* Properties.                                                             *)

\* GetAverageWeatherConditions: whatever window is asked for, and however often
\* the weather has changed, in the same second too, the average over the
\* window is that of the weather in force, unless an entry was redated.
AverageIsTrue ==
  \A from, to \in 0 .. now :
    LET true == SumFunctionOnSet(sky, from + 1 .. to)
        avg == Average(from, to)
    IN from < to => redated \/ (avg.sum = true /\ avg.over = to - from)

Sorted(h) ==
  \A i, j \in 1 .. Len(h) : i < j => h[i].startTime <= h[j].startTime

\* Mobility, links and batteries read the value that the history says holds;
\* its last entry is not dated in the future, and its entries are sorted as
\* weather-manager.cc:1300 assumes ("We assume 'history' is sorted by
\* startTime"), until a planned change redates one.
HistoryIsCurrent ==
  /\ history[Len(history)].intensity = condition
  /\ history[Len(history)].startTime \in 0 .. now
  /\ redated \/ Sorted(history)
=============================================================================
