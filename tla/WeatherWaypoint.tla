--------------------------- MODULE WeatherWaypoint --------------------------
(***************************************************************************)
(* One node under WeatherWaypointMobilityModel: it pauses, walks a leg to  *)
(* a random destination, pauses again.  Three others act on it: the        *)
(* weather loop of WeatherManager rescales its speed every Interval, a     *)
(* mission places it with SetPosition once a second, and the scheduler     *)
(* runs the one event, end of pause or arrival, the model keeps pending.   *)
(*                                                                         *)
(* Time advances in ticks of one second and all times are relative (ticks  *)
(* left).  A position is abstracted to the distance left to the            *)
(* destination.  Scales are levels: 0 is a weather factor below the sane   *)
(* bounds, Full is 1.0; a speed is the base speed of the leg times the     *)
(* scale.  A speed at which the arrival would fall between two ticks is    *)
(* left out (the OnGrid guard).                                            *)
(***************************************************************************)
EXTENDS Integers, FiniteSets, FiniteSetsExt

CONSTANTS
  Legs,      \* distances to a next destination, 0 when it is where we stand
  Bases,     \* base speeds, drawn once per leg
  Full,      \* the scale of good weather, also the largest
  Factors,   \* weather factors that occur
  PauseTime, \* the Pause attribute
  Step,      \* time between two steps of a mission
  Interval   \* period of the weather loop

\* A mission's step comes before the pause it restarts is over: the scenarios
\* set pauses of 2 to 10 s and steps are 1 s apart.
ASSUME WaypointAssumption ==
  /\ Legs \subseteq Nat /\ Bases \subseteq Nat \ {0}
  /\ Full \in Nat \ {0} /\ Factors \subseteq 0 .. Full
  /\ Step \in Nat \ {0} /\ Interval \in Nat \ {0}
  /\ PauseTime \in Nat /\ PauseTime > Step

VARIABLES
  paused,    \* m_isPaused
  hasDest,   \* m_hasDest
  left,      \* distance from the position to m_dest
  vel,       \* the speed of m_helper, 0 while it is paused
  base,      \* m_legBaseSpeed
  target,    \* m_speedScaleTarget
  applied,   \* m_speedScaleApplied
  updated,   \* m_lastScaleUpdate: never, in this tick, or before it
  queue,     \* the model's events in the scheduler; m_event holds one of them
  factor,    \* the mobility factor of the current weather
  evalIn,    \* ticks to the next round of the weather loop
  stepIn,    \* ticks to the next step of the mission, NoMission without one
  settled    \* ticks this leg has been walked under the current weather

vars == <<paused, hasDest, left, vel, base, target, applied, updated, queue,
          factor, evalIn, stepIn, settled>>

legVars == <<paused, hasDest, left, vel, base>>
scaleVars == <<target, applied, updated>>

NoMission == -1
MinScale == 1
Event == [kind : {"walk", "pause"}, due : Nat, held : BOOLEAN]

\* The scale keeps to the bounds although the first update copies the target
\* unclamped: a node is not rescaled before its first leg has updated it.
WaypointTypeOK ==
  /\ paused \in BOOLEAN /\ hasDest \in BOOLEAN
  /\ left \in Nat /\ vel \in Nat /\ base \in Bases \cup {0}
  /\ target \in Factors \cup {Full}
  /\ applied \in MinScale .. Full
  /\ updated \in {"never", "now", "before"}
  /\ queue \subseteq Event
  /\ factor \in Factors
  /\ evalIn \in 0 .. Interval
  /\ stepIn \in 0 .. Step \cup {NoMission}
  /\ settled \in 0 .. Interval + 1

WaypointInit ==
  /\ paused = FALSE /\ hasDest = FALSE
  /\ left = 0 /\ vel = 0 /\ base = 0
  /\ target = Full /\ applied = Full /\ updated = "never"
  /\ queue = {}
  /\ factor \in Factors
  /\ evalIn \in 0 .. Interval
  /\ stepIn = NoMission
  /\ settled = 0

\* DoInitialize has started the first pause.
Initialized == paused \/ hasDest
Walking == hasDest /\ ~paused

-----------------------------------------------------------------------------
(* The event of the model.                                                 *)

ReplaceUncancelled(q, kind, due) ==
  {[e EXCEPT !.held = FALSE] : e \in q}
    \cup {[kind |-> kind, due |-> due, held |-> TRUE]}

\* Cancel what m_event holds, if it is still pending, and hold a new event.
Replace(q, kind, due) ==
  {e \in q : ~e.held} \cup {[kind |-> kind, due |-> due, held |-> TRUE]}

\* The event that runs is no longer pending.
Ran(e) == queue \ {e}

-----------------------------------------------------------------------------
(* Speed scale.                                                            *)

\* Smoothing moves the scale towards the target, not at all when no time has
\* passed, and the result is clamped; the first update copies the target.
Unclamped(x) == x
Clamp(x) == Max({MinScale, x})
Between(a, b) == Min({a, b}) .. Max({a, b})
Scales(t) ==
  CASE updated = "never"  -> {t}
    [] updated = "now"    -> {applied}
    [] updated = "before" -> {Clamp(x) : x \in Between(applied, t)}

UpdateAppliedScale(t) ==
  /\ applied' \in Scales(t)
  /\ updated' = "now"

\* The floor on the speed keeps a node moving whatever the scale is.
Speed(b, a) == Max({1, b * a})
OnGrid(v) == left' % v = 0

-----------------------------------------------------------------------------
(* The states of the model.                                                *)

StartPause(q) ==
  /\ paused' = TRUE /\ hasDest' = FALSE
  /\ left' = 0 /\ vel' = 0
  /\ queue' = Replace(q, "walk", PauseTime)
  /\ settled' = 0
  /\ UNCHANGED base

\* A destination that is where the node stands ends the leg at once.
StartWalk(q) ==
  \E d \in Legs :
    \/ /\ d = 0
       /\ StartPause(q)
       /\ UNCHANGED scaleVars
    \/ /\ d # 0
       /\ paused' = FALSE /\ hasDest' = TRUE
       /\ left' = d
       /\ base' \in Bases
       /\ UpdateAppliedScale(target)
       /\ vel' = Speed(base', applied')
       /\ OnGrid(vel')
       /\ queue' = Replace(q, "pause", d \div vel')
       /\ settled' = 0
       /\ UNCHANGED target

\* The speed changes on the way: the arrival is scheduled anew.
ChangeSpeedOnly == queue' = queue
CancelArrival == queue' = {e \in queue : ~e.held}
ChangeArrival == queue' = Replace(queue, "pause", left \div vel')

\* Only a node that moves is asked to (see Skip), so it has a destination.
SetSpeedScale(scale) ==
  /\ target' = scale
  /\ \/ /\ left = 0
        /\ UNCHANGED <<legVars, queue, applied, updated>>
     \/ /\ left # 0
        /\ UpdateAppliedScale(scale)
        /\ UNCHANGED <<paused, hasDest, left, base>>
        /\ vel' = Speed(base, applied')
        /\ OnGrid(vel')
        /\ ChangeArrival

-----------------------------------------------------------------------------
(* Who acts on the node.                                                   *)

\* The simulation starts.
Place ==
  /\ ~Initialized
  /\ StartPause(queue)
  /\ UNCHANGED <<scaleVars, factor, evalIn, stepIn>>

RunEvent(e) ==
  /\ e.due = 0
  /\ \/ e.kind = "pause" /\ StartPause(Ran(e)) /\ UNCHANGED scaleVars
     \/ e.kind = "walk" /\ StartWalk(Ran(e))
  /\ UNCHANGED <<factor, evalIn, stepIn>>

\* DoSetPosition, from ConvergeOnCivilian or MoveTowardBaseStation.
MoveWithoutPause ==
  left' = 0 /\ UNCHANGED <<paused, hasDest, vel, base, queue, settled, scaleVars>>
SetPosition == StartPause(queue) /\ UNCHANGED scaleVars

MissionStep ==
  /\ Initialized
  /\ stepIn \in {0, NoMission}
  /\ SetPosition
  /\ stepIn' = Step
  /\ UNCHANGED <<factor, evalIn>>

\* The last step of a mission places nobody.
MissionEnd ==
  /\ stepIn = 0
  /\ stepIn' = NoMission
  /\ UNCHANGED <<legVars, scaleVars, queue, factor, evalIn, settled>>

\* EvaluateAndApplyMobilityReduction skips a node that stands still.
Skip == vel = 0
NextRoundLate == Interval + 1
NextRound == Interval

ScheduleMobilityReduction ==
  /\ Initialized
  /\ evalIn = 0
  /\ \/ Skip /\ UNCHANGED <<legVars, scaleVars, queue>>
     \/ ~Skip /\ SetSpeedScale(factor)
  /\ evalIn' = NextRound
  /\ UNCHANGED <<factor, stepIn, settled>>

SetWeather(f) ==
  /\ factor' = f
  /\ settled' = 0
  /\ UNCHANGED <<legVars, scaleVars, queue, evalIn, stepIn>>

\* What is due runs before time goes on.
Tick ==
  /\ Initialized
  /\ \A e \in queue : e.due > 0
  /\ evalIn > 0 /\ stepIn # 0
  /\ left' = IF Walking THEN Max({left - vel, 0}) ELSE left
  /\ queue' = {[e EXCEPT !.due = @ - 1] : e \in queue}
  /\ evalIn' = evalIn - 1
  /\ stepIn' = IF stepIn = NoMission THEN NoMission ELSE stepIn - 1
  /\ updated' = IF updated = "now" THEN "before" ELSE updated
  /\ settled' = IF Walking THEN Min({settled + 1, Interval + 1}) ELSE 0
  /\ UNCHANGED <<paused, hasDest, vel, base, target, applied, factor>>

WaypointNext ==
  \/ Place
  \/ \E e \in queue : RunEvent(e)
  \/ MissionStep \/ MissionEnd
  \/ ScheduleMobilityReduction
  \/ \E f \in Factors : SetWeather(f)
  \/ Tick

WaypointSpec == WaypointInit /\ [][WaypointNext]_vars

-----------------------------------------------------------------------------
(* Properties.                                                             *)

\* However pauses, walks, changes of speed and SetPosition cancel and schedule
\* m_event, one event of the model is pending and m_event holds it: none that
\* was replaced is left to run.
OneEvent ==
  Initialized => Cardinality(queue) = 1 /\ \A e \in queue : e.held

\* The pending event fits the state: a pause ends in a walk, and a node that
\* walks, at the speed its base speed and scale give, arrives when it has
\* covered just the distance left, however its speed has changed on the way.
ArrivesAtDestination ==
  \A e \in queue :
    \/ e.kind = "walk" /\ paused /\ ~hasDest /\ vel = 0
    \/ /\ e.kind = "pause" /\ Walking
       /\ vel = Speed(base, applied)
       /\ e.due * vel = left

\* A node on a mission does not wander off between two steps of it: each step
\* restarts the pause, and the pause outlasts the step.
MissionNodeStandsStill ==
  stepIn # NoMission =>
    /\ vel = 0
    /\ \A e \in queue : e.kind = "walk" /\ e.due > 0

\* A walking node is slowed for the current weather within one period of the
\* weather loop, although the loop skips the nodes that stand.
WeatherReachesWalkers == settled > Interval => target = factor

\* A leg ends: the node arrives, or a mission takes it, however often the
\* weather changes its speed; and a pause ends: the node walks again, or is on
\* a mission.
LegsAndPausesEnd ==
  /\ Walking ~> ~Walking
  /\ paused ~> Walking \/ stepIn # NoMission

\* The scheduler runs what is due and lets time go on; and a destination drawn
\* at random is not for ever where the node stands.
WaypointFairness ==
  /\ WF_vars(Place)
  /\ WF_vars(Tick)
  /\ WF_vars(\E e \in queue : RunEvent(e))
  /\ WF_vars(ScheduleMobilityReduction)
  /\ WF_vars(MissionStep /\ stepIn = 0)
  /\ SF_vars((\E e \in queue : RunEvent(e)) /\ hasDest')

WaypointFairSpec == WaypointSpec /\ WaypointFairness

=============================================================================
