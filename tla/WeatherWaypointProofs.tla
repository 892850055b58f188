------------------------ MODULE WeatherWaypointProofs ------------------------
(***************************************************************************)
(* Proofs about WeatherWaypoint: for any legs, speeds, weather factors,    *)
(* pauses longer than a step of a mission, and period of the weather loop. *)
(***************************************************************************)
EXTENDS WeatherWaypoint, FiniteSetTheorems, TLAPS

-----------------------------------------------------------------------------
(* The larger and the smaller of two numbers.                              *)

\* Max picks the larger one.
LEMMA MaxOfTwo ==
  ASSUME NEW a \in Int, NEW b \in Int
  PROVE  Max({a, b}) \in {a, b} /\ Max({a, b}) >= a /\ Max({a, b}) >= b
<1>1. \E x \in {a, b} : \A y \in {a, b} : x >= y
  <2>1. CASE a >= b
    BY <2>1
  <2>2. CASE b >= a
    BY <2>2
  <2> QED
    BY <2>1, <2>2
<1>2. /\ Max({a, b}) \in {a, b}
      /\ \A y \in {a, b} : Max({a, b}) >= y
  BY <1>1 DEF Max
<1> QED
  BY <1>2

\* Min picks the smaller one.
LEMMA MinOfTwo ==
  ASSUME NEW a \in Int, NEW b \in Int
  PROVE  Min({a, b}) \in {a, b} /\ Min({a, b}) <= a /\ Min({a, b}) <= b
<1>1. \E x \in {a, b} : \A y \in {a, b} : x <= y
  <2>1. CASE a <= b
    BY <2>1
  <2>2. CASE b <= a
    BY <2>2
  <2> QED
    BY <2>1, <2>2
<1>2. /\ Min({a, b}) \in {a, b}
      /\ \A y \in {a, b} : Min({a, b}) <= y
  BY <1>1 DEF Min
<1> QED
  BY <1>2

-----------------------------------------------------------------------------
(* The invariant.                                                          *)

\* Types, and the scale that the first leg will copy is in bounds.
ScaleInv ==
  /\ WaypointTypeOK
  /\ updated = "never" => target = Full /\ vel = 0

\* What the one pending event has to do with the state of the node.
Fits(e) ==
  /\ e.held
  /\ \/ e.kind = "walk" /\ paused /\ ~hasDest /\ vel = 0
     \/ /\ e.kind = "pause" /\ Walking
        /\ vel = Speed(base, applied)
        /\ e.due * vel = left
  /\ stepIn # NoMission => e.kind = "walk" /\ e.due > stepIn

\* None is pending before the start, then always just one that fits.
EventInv ==
  /\ ~Initialized => queue = {} /\ vel = 0 /\ stepIn = NoMission
  /\ Initialized => \E e \in Event : queue = {e} /\ Fits(e)

WayInv == ScaleInv /\ EventInv

\* The node stands and has no event yet.
LEMMA WayInit == WaypointInit => WayInv
<1> SUFFICES ASSUME WaypointInit PROVE WayInv
  OBVIOUS
<1>1. EventInv
  BY DEF WaypointInit, EventInv, Initialized
<1>2. applied \in MinScale .. Full /\ settled \in 0 .. Interval + 1
  BY WaypointAssumption DEF WaypointInit, MinScale
<1>3. ScaleInv
  BY <1>2, WaypointAssumption DEF WaypointInit, ScaleInv, WaypointTypeOK
<1> QED
  BY <1>1, <1>3 DEF WayInv

\* Whatever event runs or is pending, replacing leaves just the new one.
LEMMA ReplaceLeavesOne ==
  ASSUME NEW q, q = {} \/ \E e \in Event : q = {e} /\ e.held,
         NEW kind, NEW due
  PROVE  Replace(q, kind, due) = {[kind |-> kind, due |-> due, held |-> TRUE]}
  BY DEF Replace

\* A speed is at least 1, so a node that walks moves.
LEMMA SpeedMoves ==
  ASSUME NEW b \in Nat, NEW a \in Nat
  PROVE  Speed(b, a) \in Nat \ {0}
<1>1. b * a \in Int /\ 1 \in Int
  OBVIOUS
<1>2. Max({1, b * a}) \in {1, b * a} /\ Max({1, b * a}) >= 1
  BY <1>1, MaxOfTwo
<1> QED
  BY <1>1, <1>2 DEF Speed

\* An update keeps the scale in its bounds, if the target is.
LEMMA UpdateInBounds ==
  ASSUME ScaleInv, NEW t \in 0 .. Full, updated = "never" => t = Full,
         UpdateAppliedScale(t)
  PROVE  applied' \in MinScale .. Full /\ updated' = "now"
<1>1. Full \in Nat \ {0} /\ applied \in 1 .. Full /\ MinScale = 1
  BY WaypointAssumption DEF ScaleInv, WaypointTypeOK, MinScale
<1>2. CASE updated = "never"
  BY <1>1, <1>2 DEF UpdateAppliedScale, Scales
<1>3. CASE updated = "now"
  BY <1>1, <1>3 DEF UpdateAppliedScale, Scales
<1>4. CASE updated = "before"
  <2>1. PICK x \in Between(applied, t) : applied' = Clamp(x)
    BY <1>4 DEF UpdateAppliedScale, Scales
  <2>2. x \in 0 .. Full
    BY <1>1, <2>1, MaxOfTwo, MinOfTwo DEF Between
  <2>3. Clamp(x) \in 1 .. Full
    BY <1>1, <2>2, MaxOfTwo DEF Clamp
  <2> QED
    BY <1>1, <2>1, <2>3 DEF UpdateAppliedScale
<1> QED
  BY <1>2, <1>3, <1>4 DEF ScaleInv, WaypointTypeOK

\* A tick takes a tick's way off the rest of a leg.
LEMMA OneTickLess ==
  ASSUME NEW n \in Nat \ {0}, NEW v \in Nat
  PROVE  (n - 1) * v = n * v - v /\ (n - 1) * v \in Nat
  OBVIOUS

\* The time to an arrival on the grid.
LEMMA ArrivalOnGrid ==
  ASSUME NEW d \in Nat, NEW v \in Nat \ {0}, d % v = 0
  PROVE  d \div v \in Nat /\ (d \div v) * v = d
  OBVIOUS

-----------------------------------------------------------------------------
(* Steps.                                                                  *)

\* A pause starts, from the start of the run, an event that runs or a mission.
LEMMA PauseKeeps ==
  ASSUME WayInv, NEW q, q = {} \/ \E e \in Event : q = {e} /\ e.held,
         StartPause(q), UNCHANGED <<scaleVars, factor, evalIn>>,
         stepIn' \in {NoMission, Step}
  PROVE  WayInv'
<1> DEFINE e == [kind |-> "walk", due |-> PauseTime, held |-> TRUE]
<1>1. queue' = {e} /\ e \in Event
  BY ReplaceLeavesOne, WaypointAssumption DEF StartPause, Event
<1>2. ScaleInv'
  <2>1. stepIn' \in 0 .. Step \cup {NoMission} /\ settled' \in 0 .. Interval + 1
    BY WaypointAssumption DEF StartPause
  <2> QED
    BY <1>1, <2>1 DEF WayInv, ScaleInv, WaypointTypeOK, StartPause, scaleVars
<1>3. Fits(e)'
  BY WaypointAssumption DEF Fits, StartPause, NoMission
<1>4. Initialized'
  BY DEF Initialized, StartPause
<1> QED
  BY <1>1, <1>2, <1>3, <1>4 DEF WayInv, EventInv

\* A walk starts, when the pause of a node that is not on a mission is over.
LEMMA WalkKeeps ==
  ASSUME WayInv, StartWalk({}), stepIn = NoMission, UNCHANGED <<factor, evalIn, stepIn>>
  PROVE  WayInv'
<1>1. PICK d \in Legs :
        \/ d = 0 /\ StartPause({}) /\ UNCHANGED scaleVars
        \/ /\ d # 0
           /\ paused' = FALSE /\ hasDest' = TRUE
           /\ left' = d
           /\ base' \in Bases
           /\ UpdateAppliedScale(target)
           /\ vel' = Speed(base', applied')
           /\ OnGrid(vel')
           /\ queue' = Replace({}, "pause", d \div vel')
           /\ settled' = 0
           /\ UNCHANGED target
  BY DEF StartWalk
<1>2. CASE d = 0
  BY <1>1, <1>2, PauseKeeps
<1>3. CASE d # 0
  <2>1. target \in 0 .. Full /\ (updated = "never" => target = Full)
    BY WaypointAssumption DEF WayInv, ScaleInv, WaypointTypeOK
  <2>2. applied' \in MinScale .. Full /\ updated' = "now"
    BY <1>1, <1>3, <2>1, UpdateInBounds DEF WayInv
  <2>3. vel' \in Nat \ {0}
    <3>1. base' \in Bases /\ vel' = Speed(base', applied')
      BY <1>1, <1>3
    <3>2. base' \in Nat /\ applied' \in Nat
      BY <2>2, <3>1, WaypointAssumption DEF MinScale
    <3> QED
      BY <3>1, <3>2, SpeedMoves
  <2>4. d \div vel' \in Nat /\ (d \div vel') * vel' = left'
    BY <1>1, <1>3, <2>3, ArrivalOnGrid, WaypointAssumption DEF OnGrid
  <2>5. PICK e \in Event : /\ e = [kind |-> "pause", due |-> d \div vel', held |-> TRUE]
                            /\ queue' = {e}
    <3>1. queue' = {[kind |-> "pause", due |-> d \div vel', held |-> TRUE]}
      BY <1>1, <1>3 DEF Replace
    <3>2. [kind |-> "pause", due |-> d \div vel', held |-> TRUE] \in Event
      BY <2>4 DEF Event
    <3> QED
      BY <3>1, <3>2
  <2>6. ScaleInv'
    <3>1. left' \in Nat /\ settled' \in 0 .. Interval + 1
      BY <1>1, <1>3, WaypointAssumption
    <3>2. base' \in Bases \cup {0} /\ target' = target /\ updated' \in {"never", "now", "before"}
      BY <1>1, <1>3, <2>2
    <3> QED
      BY <1>1, <1>3, <2>2, <2>3, <2>5, <3>1, <3>2 DEF WayInv, ScaleInv, WaypointTypeOK
  <2>7. Fits(e)'
    BY <1>1, <1>3, <2>4, <2>5 DEF Fits, Walking
  <2>8. Initialized'
    BY <1>1, <1>3 DEF Initialized
  <2> QED
    BY <2>5, <2>6, <2>7, <2>8 DEF WayInv, EventInv
<1> QED
  BY <1>2, <1>3

\* The weather loop changes the speed of a node that walks.
LEMMA ScaleKeeps ==
  ASSUME WayInv, Initialized, vel # 0, SetSpeedScale(factor),
         evalIn' = Interval, UNCHANGED <<factor, stepIn, settled>>
  PROVE  WayInv'
<1>1. PICK e \in Event : queue = {e} /\ Fits(e)
  BY DEF WayInv, EventInv
<1>2. e.kind = "pause" /\ Walking /\ stepIn = NoMission /\ updated # "never" /\ e.held
  BY <1>1 DEF Fits, WayInv, ScaleInv
<1>3. factor \in 0 .. Full
  BY WaypointAssumption DEF WayInv, ScaleInv, WaypointTypeOK
<1>4. CASE left = 0
  <2>1. UNCHANGED <<legVars, queue, applied, updated>> /\ target' = factor
    BY <1>4 DEF SetSpeedScale
  <2>2. ScaleInv'
    BY <1>2, <2>1, WaypointAssumption DEF WayInv, ScaleInv, WaypointTypeOK, legVars
  <2>3. Fits(e)' /\ Initialized'
    BY <1>1, <2>1 DEF Fits, Walking, Initialized, legVars
  <2> QED
    BY <1>1, <2>1, <2>2, <2>3 DEF WayInv, EventInv
<1>5. CASE left # 0
  <2>1. /\ target' = factor /\ UpdateAppliedScale(factor)
        /\ UNCHANGED <<paused, hasDest, left, base>>
        /\ vel' = Speed(base, applied') /\ left' % vel' = 0
        /\ queue' = Replace(queue, "pause", left \div vel')
    BY <1>5 DEF SetSpeedScale, OnGrid, ChangeArrival
  <2>2. applied' \in MinScale .. Full /\ updated' = "now"
    BY <1>2, <1>3, <2>1, UpdateInBounds DEF WayInv
  <2>3. left \in Nat /\ base \in Nat
    BY WaypointAssumption DEF WayInv, ScaleInv, WaypointTypeOK
  <2>4. vel' \in Nat \ {0}
    BY <2>1, <2>2, <2>3, SpeedMoves, WaypointAssumption DEF MinScale
  <2>5. left \div vel' \in Nat /\ (left \div vel') * vel' = left'
    BY <2>1, <2>3, <2>4, ArrivalOnGrid
  <2>6. PICK f \in Event : /\ f = [kind |-> "pause", due |-> left \div vel', held |-> TRUE]
                            /\ queue' = {f}
    <3>1. queue' = {[kind |-> "pause", due |-> left \div vel', held |-> TRUE]}
      BY <1>1, <1>2, <2>1, ReplaceLeavesOne
    <3>2. [kind |-> "pause", due |-> left \div vel', held |-> TRUE] \in Event
      BY <2>5 DEF Event
    <3> QED
      BY <3>1, <3>2
  <2>7. ScaleInv'
    <3>1. target' \in Factors \cup {Full}
      BY <2>1 DEF WayInv, ScaleInv, WaypointTypeOK
    <3>2. evalIn' \in 0 .. Interval
      BY WaypointAssumption
    <3>3. WayInv
      OBVIOUS
    <3> QED
      BY <2>1, <2>2, <2>4, <2>6, <3>1, <3>2, <3>3 DEF WayInv, ScaleInv, WaypointTypeOK
  <2>8. Fits(f)' /\ Initialized'
    BY <1>2, <2>1, <2>5, <2>6 DEF Fits, Walking, Initialized
  <2> QED
    BY <2>6, <2>7, <2>8 DEF WayInv, EventInv
<1> QED
  BY <1>4, <1>5

\* Time goes on when nothing is due.
LEMMA TickKeeps == ASSUME WayInv, Tick PROVE WayInv'
<1>1. PICK e \in Event : queue = {e} /\ Fits(e)
  BY DEF WayInv, EventInv, Tick
<1> DEFINE f == [e EXCEPT !.due = @ - 1]
<1>2. e.due \in Nat /\ e.due > 0
  BY <1>1 DEF Tick, Event
<1>3. queue' = {f} /\ f \in Event /\ f.kind = e.kind /\ f.held = e.held
        /\ f.due = e.due - 1
  BY <1>1, <1>2 DEF Tick, Event
<1>4. left \in Nat /\ vel \in Nat
  BY DEF WayInv, ScaleInv, WaypointTypeOK
<1>5. Walking => left' = left - vel /\ left' \in Nat /\ f.due * vel = left'
  <2> SUFFICES ASSUME Walking
               PROVE  left' = left - vel /\ left' \in Nat /\ f.due * vel = left'
    OBVIOUS
  <2>1. e.due * vel = left
    BY <1>1 DEF Fits, Walking
  <2>2. (e.due - 1) * vel = left - vel /\ (e.due - 1) * vel \in Nat
    BY <1>2, <1>4, <2>1, OneTickLess
  <2>3. left' = Max({left - vel, 0})
    BY DEF Tick
  <2> QED
    <3>1. left - vel \in Int /\ left - vel >= 0
      BY <1>4, <2>2
    <3>2. Max({left - vel, 0}) \in {left - vel, 0} /\ Max({left - vel, 0}) >= left - vel
      BY <3>1, MaxOfTwo
    <3> QED
      BY <1>3, <2>2, <2>3, <3>1, <3>2
<1>6. ~Walking => left' = left
  BY DEF Tick
<1>7. settled' \in 0 .. Interval + 1
  <2>1. settled \in Nat /\ Interval \in Nat
    BY WaypointAssumption DEF WayInv, ScaleInv, WaypointTypeOK
  <2>2. settled' = 0 \/ settled' = Min({settled + 1, Interval + 1})
    BY DEF Tick
  <2>3. settled + 1 \in Int /\ Interval + 1 \in Int
    BY <2>1
  <2>4. /\ Min({settled + 1, Interval + 1}) \in {settled + 1, Interval + 1}
        /\ Min({settled + 1, Interval + 1}) <= Interval + 1
    BY <2>3, MinOfTwo
  <2> QED
    BY <2>1, <2>2, <2>4
<1>8. ScaleInv'
  <2>1. left' \in Nat
    BY <1>4, <1>5, <1>6
  <2>2. evalIn' \in 0 .. Interval /\ stepIn' \in 0 .. Step \cup {NoMission}
    BY WaypointAssumption DEF Tick, WayInv, ScaleInv, WaypointTypeOK, NoMission
  <2> QED
    BY <1>3, <1>7, <2>1, <2>2 DEF Tick, WayInv, ScaleInv, WaypointTypeOK
<1>9. Fits(f)'
  <2>1. UNCHANGED <<paused, hasDest, vel, base, applied>>
    BY DEF Tick
  <2>2. stepIn' # NoMission => f.kind = "walk" /\ f.due > stepIn'
    BY <1>1, <1>2, <1>3, WaypointAssumption
       DEF Tick, Fits, WayInv, ScaleInv, WaypointTypeOK, NoMission
  <2> QED
    BY <1>1, <1>3, <1>5, <2>1, <2>2 DEF Fits, Walking
<1>10. Initialized'
  BY DEF Tick, Initialized
<1> QED
  BY <1>3, <1>8, <1>9, <1>10 DEF WayInv, EventInv

\* Every step keeps the invariant.
LEMMA WayStep == WayInv /\ [WaypointNext]_vars => WayInv'
<1> SUFFICES ASSUME WayInv, [WaypointNext]_vars
             PROVE  WayInv'
  OBVIOUS
<1>1. CASE UNCHANGED vars
  BY <1>1 DEF vars, WayInv, ScaleInv, WaypointTypeOK, EventInv, Fits, Initialized, Walking
<1>2. CASE Place
  <2>1. queue = {} /\ stepIn' = NoMission
    BY <1>2 DEF Place, WayInv, EventInv
  <2> QED
    BY <1>2, <2>1, PauseKeeps DEF Place
<1>3. ASSUME NEW e \in queue, RunEvent(e) PROVE WayInv'
  <2>1. e \in Event /\ queue = {e} /\ Fits(e) /\ e.due = 0
    BY <1>3 DEF RunEvent, WayInv, EventInv
  <2>2. stepIn = NoMission /\ Ran(e) = {}
    BY <2>1 DEF Fits, Ran, WayInv, ScaleInv, WaypointTypeOK, Event, NoMission
  <2>3. CASE StartPause({}) /\ UNCHANGED <<scaleVars, factor, evalIn, stepIn>>
    BY <2>2, <2>3, PauseKeeps
  <2>4. CASE StartWalk({}) /\ UNCHANGED <<factor, evalIn, stepIn>>
    BY <2>2, <2>4, WalkKeeps
  <2> QED
    BY <1>3, <2>2, <2>3, <2>4 DEF RunEvent
<1>4. CASE MissionStep
  <2>1. \E e \in Event : queue = {e} /\ e.held
    BY <1>4 DEF MissionStep, WayInv, EventInv, Fits
  <2> QED
    BY <1>4, <2>1, PauseKeeps DEF MissionStep, SetPosition
<1>5. CASE MissionEnd
  BY <1>5, WaypointAssumption
     DEF MissionEnd, WayInv, ScaleInv, WaypointTypeOK, EventInv, Fits, Initialized, Walking,
         legVars, scaleVars
<1>6. CASE ScheduleMobilityReduction
  <2>1. CASE vel # 0
    BY <1>6, <2>1, ScaleKeeps DEF ScheduleMobilityReduction, Skip, NextRound
  <2>2. CASE vel = 0
    <3>1. UNCHANGED <<legVars, scaleVars, queue, factor, stepIn, settled>>
            /\ evalIn' = Interval
      BY <1>6, <2>2 DEF ScheduleMobilityReduction, Skip, NextRound
    <3> QED
      BY <3>1, WaypointAssumption
         DEF WayInv, ScaleInv, WaypointTypeOK, EventInv, Fits, Initialized, Walking,
             legVars, scaleVars
  <2> QED
    BY <2>1, <2>2
<1>7. ASSUME NEW f \in Factors, SetWeather(f) PROVE WayInv'
  BY <1>7, WaypointAssumption
     DEF SetWeather, WayInv, ScaleInv, WaypointTypeOK, EventInv, Fits, Initialized, Walking,
         legVars, scaleVars
<1>8. CASE Tick
  BY <1>8, TickKeeps
<1> QED
  BY <1>1, <1>2, <1>3, <1>4, <1>5, <1>6, <1>7, <1>8 DEF WaypointNext

\* The invariant of the node and its scheduler.
LEMMA WayAlways == WaypointSpec => []WayInv
  BY WayInit, WayStep, PTL DEF WaypointSpec

-----------------------------------------------------------------------------
(* The weather loop.                                                       *)

\* A node that has walked under this weather without being slowed for it meets
\* the next round of the loop before Interval ticks of it are over.
LoopInv ==
  /\ settled # 0 => Walking
  /\ target = factor \/ evalIn <= Interval - settled

\* The first leg has not begun.
LEMMA LoopInit == WaypointInit => LoopInv
  BY WaypointAssumption DEF WaypointInit, LoopInv

\* One tick more of the count is one tick less to the next round.
LEMMA RoundIsNearer ==
  ASSUME NEW interval \in Nat, NEW count \in Nat, NEW round \in Nat,
         NEW countNext \in Int, NEW roundNext \in Int,
         roundNext = round - 1, countNext <= count + 1,
         round <= interval - count
  PROVE  roundNext <= interval - countNext
  OBVIOUS

\* What starts a pause or a leg, or changes the weather, starts the count.
LEMMA CountRestarts ==
  ASSUME WayInv', settled' = 0
  PROVE  LoopInv'
<1>1. evalIn' \in 0 .. Interval /\ Interval \in Nat
  BY WaypointAssumption DEF WayInv, ScaleInv, WaypointTypeOK
<1>2. settled' = 0
  OBVIOUS
<1>3. evalIn' <= Interval - settled'
  BY <1>1, <1>2
<1> QED
  BY <1>2, <1>3 DEF LoopInv

\* Every step keeps it.
LEMMA LoopStep ==
  WayInv /\ WayInv' /\ LoopInv /\ [WaypointNext]_vars => LoopInv'
<1> SUFFICES ASSUME WayInv, WayInv', LoopInv, [WaypointNext]_vars
             PROVE  LoopInv'
  OBVIOUS
<1>1. CASE UNCHANGED vars \/ MissionEnd
  BY <1>1 DEF vars, MissionEnd, legVars, scaleVars, LoopInv, Walking
<1>2. CASE Place \/ MissionStep \/ \E f \in Factors : SetWeather(f)
  <2>1. settled' = 0
    BY <1>2 DEF Place, MissionStep, SetPosition, SetWeather, StartPause
  <2> QED
    BY <2>1, CountRestarts
<1>3. ASSUME NEW e \in queue, RunEvent(e) PROVE LoopInv'
  <2>1. settled' = 0
    BY <1>3 DEF RunEvent, StartPause, StartWalk
  <2> QED
    BY <2>1, CountRestarts
<1>4. CASE ScheduleMobilityReduction
  <2>1. PICK e \in Event : queue = {e} /\ Fits(e)
    BY <1>4 DEF ScheduleMobilityReduction, WayInv, EventInv
  <2>2. CASE vel = 0
    <3>1. ~Walking
      <4>1. base \in Nat /\ applied \in Nat
        BY WaypointAssumption DEF WayInv, ScaleInv, WaypointTypeOK, MinScale
      <4>2. Speed(base, applied) # 0
        BY <4>1, SpeedMoves
      <4> QED
        BY <2>1, <2>2, <4>2 DEF Fits, Walking
    <3>2. settled' = 0
      BY <1>4, <3>1 DEF ScheduleMobilityReduction, LoopInv
    <3> QED
      BY <3>2, CountRestarts
  <2>3. CASE vel # 0
    <3>1. SetSpeedScale(factor) /\ UNCHANGED <<factor, settled>>
      BY <1>4, <2>3 DEF ScheduleMobilityReduction, Skip
    <3>2. target' = factor /\ UNCHANGED <<paused, hasDest>>
      BY <3>1 DEF SetSpeedScale, legVars
    <3> QED
      BY <3>1, <3>2 DEF LoopInv, Walking
  <2> QED
    BY <2>2, <2>3
<1>5. CASE Tick
  <2>1. UNCHANGED <<paused, hasDest, target, factor>> /\ evalIn' = evalIn - 1
    BY <1>5 DEF Tick
  <2>2. CASE Walking
    <3>1. settled \in Nat /\ evalIn \in Nat /\ Interval \in Nat
      BY WaypointAssumption DEF WayInv, ScaleInv, WaypointTypeOK
    <3>2. settled + 1 \in Int /\ Interval + 1 \in Int
      BY <3>1
    <3>3. settled' = Min({settled + 1, Interval + 1})
      BY <1>5, <2>2 DEF Tick
    <3>4. settled' \in Int /\ settled' <= settled + 1
      <4>1. /\ Min({settled + 1, Interval + 1}) \in {settled + 1, Interval + 1}
            /\ Min({settled + 1, Interval + 1}) <= settled + 1
        BY <3>2, MinOfTwo
      <4> QED
        BY <3>2, <3>3, <4>1
    <3>5. Walking'
      BY <2>1, <2>2 DEF Walking
    <3>6. target = factor \/ evalIn <= Interval - settled
      BY DEF LoopInv
    <3>7. CASE evalIn <= Interval - settled
      <4>1. evalIn' = evalIn - 1 /\ evalIn' \in Int
        BY <2>1, <3>1
      <4>2. evalIn' <= Interval - settled'
        BY <3>1, <3>4, <3>7, <4>1, RoundIsNearer
      <4> QED
        BY <3>5, <4>2 DEF LoopInv
    <3>8. CASE target = factor
      BY <2>1, <3>5, <3>8 DEF LoopInv
    <3> QED
      BY <3>6, <3>7, <3>8
  <2>3. CASE ~Walking
    <3>1. settled' = 0
      BY <1>5, <2>3 DEF Tick
    <3> QED
      BY <3>1, CountRestarts
  <2> QED
    BY <2>2, <2>3
<1> QED
  BY <1>1, <1>2, <1>3, <1>4, <1>5 DEF WaypointNext

-----------------------------------------------------------------------------
(* The theorems.                                                           *)

\* Types, and the scale of a speed never leaves its sane bounds, although its
\* first update copies the target without clamping it.
THEOREM WaypointTypesHold == WaypointSpec => []WaypointTypeOK
<1>1. WayInv => WaypointTypeOK
  BY DEF WayInv, ScaleInv
<1> QED
  BY <1>1, WayAlways, PTL

\* No event that pauses, walks, changes of speed or SetPosition have replaced
\* is left to run, in any order of them.
THEOREM OneEventAlways == WaypointSpec => []OneEvent
<1>1. WayInv => OneEvent
  BY FS_Singleton DEF WayInv, EventInv, Fits, OneEvent
<1> QED
  BY <1>1, WayAlways, PTL

\* The pending arrival is when the rest of the leg has been walked, whatever
\* changes of speed there have been.
THEOREM ArrivalsAreAtTheDestination == WaypointSpec => []ArrivesAtDestination
<1>1. WayInv => ArrivesAtDestination
  BY DEF WayInv, EventInv, Fits, ArrivesAtDestination
<1> QED
  BY <1>1, WayAlways, PTL

\* A node on a mission stays where the mission placed it, whatever the weather
\* loop does, because a pause is longer than a step.
THEOREM MissionNodesStand == WaypointSpec => []MissionNodeStandsStill
<1>1. WayInv => MissionNodeStandsStill
  <2> SUFFICES ASSUME WayInv, stepIn # NoMission
               PROVE  vel = 0 /\ \A e \in queue : e.kind = "walk" /\ e.due > 0
    BY DEF MissionNodeStandsStill
  <2>1. PICK e \in Event : queue = {e} /\ Fits(e)
    BY DEF WayInv, EventInv
  <2> QED
    BY <2>1 DEF Fits, Event, WayInv, ScaleInv, WaypointTypeOK, NoMission
<1> QED
  BY <1>1, WayAlways, PTL
\* The current weather reaches every node that walks within one period of the
\* loop, although the loop skips the nodes that stand when it comes round.
THEOREM WeatherReachesAllWalkers == WaypointSpec => []WeatherReachesWalkers
<1>1. WayInv /\ LoopInv => WeatherReachesWalkers
  BY WaypointAssumption DEF WayInv, ScaleInv, WaypointTypeOK, LoopInv, WeatherReachesWalkers
<1>2. WaypointSpec => []LoopInv
  BY LoopInit, LoopStep, WayAlways, PTL DEF WaypointSpec
<1> QED
  BY <1>1, <1>2, WayAlways, PTL
=============================================================================
