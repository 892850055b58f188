----------------------------- MODULE RescueTrip -----------------------------
(***************************************************************************)
(* The movement of one mission: the rescuer converges on a civilian that   *)
(* may walk, attaches to it and takes it to the base, in steps of one      *)
(* second.  Both tracks of positions are kept, each up to a cap, and the   *)
(* distances of the event record are summed from them.                     *)
(*                                                                         *)
(* Both move in a plane.  Of the approach the model keeps what does not    *)
(* depend on where they are: the gap between the two, which a step of the  *)
(* rescuer shortens by its whole length as it heads straight for the       *)
(* civilian, and which the civilian, whichever way it walks, changes by no *)
(* more than it covers; and the way that the rescuer has come, which       *)
(* stands for its positions, as each is a straight step from the one       *)
(* before.  The way back is in the plane, with the base at <<0, 0>> and    *)
(* the rescuer, which heads straight for it, at <<home, 0>>.               *)
(*                                                                         *)
(* The gap is in whole metres, rounded up.  So is the way home, except     *)
(* that the halved steps at its end are rounded up too: the last metre is  *)
(* one step, where the code goes on halving until floating point has       *)
(* nothing left to halve.                                                  *)
(***************************************************************************)
EXTENDS Integers, Sequences, FiniteSetsExt, Functions

CONSTANTS
  Diameter,      \* no two places are farther apart
  Gaps,          \* between the two when the mission starts
  Homes,         \* from the place of the attachment to the base
  Fastest,       \* what a civilian walks in a second, 5 m
  ApproachStep,  \* 10 m
  Attachable,    \* convergenceThresholdDistance, 12 m
  CarryStep,     \* 8 m
  SarNear,       \* sarProxmitytoBase, 22 m
  CivilianNear,  \* civilianProxmitytoBase, 12 m
  MaxApproach,   \* MAX_TRACKED_POS, 300
  MaxCarry       \* MAX_RES_CUE_TRACK, 600

\* The civilian is slower than its rescuer; a step does not pass over it; who is
\* attached is near enough once its rescuer stands at the base; and the cap of
\* the way back leaves room for any way, and for the halved steps at its end.
\* Nothing is assumed of the other cap: a chase may be longer.
ASSUME TripAssumption ==
  /\ Diameter \in Nat
  /\ Gaps \subseteq 0 .. Diameter /\ Homes \subseteq 0 .. Diameter
  /\ ApproachStep \in Nat \ {0} /\ CarryStep \in Nat \ {0}
  /\ Fastest \in Nat /\ Fastest < ApproachStep
  /\ Attachable \in Nat /\ ApproachStep <= Attachable
  /\ SarNear \in Nat /\ CivilianNear \in Nat /\ Attachable <= CivilianNear
  /\ MaxApproach \in Nat \ {0} /\ MaxCarry \in Nat \ {0}
  /\ Diameter < (MaxCarry - CarryStep + 1) * CarryStep

VARIABLES
  phase,     \* what is scheduled: a step of the approach or of the way back
  walked,    \* the second until the next step of the approach has passed
  gap,       \* from the rescuer to the civilian
  way,       \* what the rescuer has come of the approach
  home,      \* from the rescuer to the base, known from the attachment on
  civ,       \* where the civilian is on the way back
  offset,    \* sarToCivilianOffset
  approach,  \* trackedConvergencePositions, as ways
  carry,     \* sarPreviousPositions, as distances from the base
  steps,     \* positions passed since the mission, or the way back, started
  record     \* the distances of the event record

vars == <<phase, walked, gap, way, home, civ, offset, approach, carry, steps,
          record>>

TripTypeOK ==
  /\ phase \in {"approach", "carry", "safe"}
  /\ walked \in BOOLEAN
  /\ gap \in 0 .. Diameter /\ way \in Nat
  /\ home \in 0 .. Diameter /\ civ \in Int \X Int
  /\ offset \in Int \X Int
  /\ approach \in Seq(Nat) /\ Len(approach) <= MaxApproach
  /\ carry \in Seq(Nat) /\ Len(carry) <= MaxCarry
  /\ steps \in Nat
  /\ record \in [covered : Nat, converged : Nat, carried : Nat]

\* Where the rescuer is, and on which side of it the civilian, is left open
\* until they attach.
TripInit ==
  /\ phase = "approach" /\ walked = TRUE
  /\ gap \in Gaps /\ way = 0
  /\ home = 0 /\ civ = <<0, 0>> /\ offset = <<0, 0>>
  /\ approach = <<>> /\ carry = <<>>
  /\ steps = 0
  /\ record = [covered |-> 0, converged |-> 0, carried |-> 0]

-----------------------------------------------------------------------------
(* Tracks.                                                                 *)

Distance(a, b) == Max({a - b, b - a})

\* Append a position; the oldest go when there are more than the cap.
KeepOneLess(track, cap) ==
  SubSeq(track, Max({1, Len(track) - cap + 2}), Len(track))
Keep(track, cap) ==
  SubSeq(track, Max({1, Len(track) - cap + 1}), Len(track))
Note(track, pos, cap) == Keep(Append(track, pos), cap)

\* The count of positions on the way back is bounded by what its track can hold.
Count(n) == Min({n + 1, MaxCarry})

Length(track) ==
  SumFunction([i \in 1 .. Len(track) - 1 |-> Distance(track[i], track[i + 1])])

\* RecordConvergenceComplete: the path, and the gap that is left.
ConvergedDistance(track) == Length(track) + gap
\* RecordRescueComplete: from the first position straight to the last, and the
\* path on top of it.
CarriedDistance(track, h) == Distance(track[1], h) + Length(track)

-----------------------------------------------------------------------------
(* Steps.                                                                  *)

\* RecordConvergenceStart, at the first step of the mission.
Started == IF steps = 0 THEN [record EXCEPT !.covered = gap] ELSE record

\* Between two steps of the approach the civilian goes on with its own walk.
CivilianWalks ==
  /\ phase = "approach" /\ ~walked
  /\ \E g \in 0 .. Diameter : Distance(g, gap) <= Fastest /\ gap' = g
  /\ walked' = TRUE
  /\ UNCHANGED <<phase, way, home, civ, offset, approach, carry, steps, record>>

ConvergeStep ==
  /\ phase = "approach" /\ walked
  /\ gap > Attachable
  /\ record' = Started
  /\ approach' = Note(approach, way, MaxApproach)
  /\ way' = way + ApproachStep
  /\ gap' = gap - ApproachStep
  /\ steps' = steps + 1
  /\ walked' = FALSE
  /\ UNCHANGED <<phase, home, civ, offset, carry>>

Square(v) == v[1] * v[1] + v[2] * v[2]

\* Where the civilian can be, seen from its rescuer, with g metres between them.
\* The side of the way home that it is on makes no difference.
Beside(g) ==
  {v \in (-g .. g) \X (0 .. g) :
     Square(v) <= g * g /\ (g > 0 => Square(v) > (g - 1) * (g - 1))}

NearBase(h, c) == h <= SarNear /\ Square(c) <= CivilianNear * CivilianNear

\* Half the distance when the base is close, so that no step passes over it.
StopWhenNear(h) == IF h <= SarNear THEN 0 ELSE CarryStep
StepSize(h) == Min({CarryStep, (h + 1) \div 2})

\* The civilian keeps its offset to the rescuer.
Centred(h, off) == <<h, 0>>
Together(h, off) == <<h + off[1], off[2]>>

\* MoveTowardBaseStation, from h and c, once the offset is known.
Carry(h, c, off, told, n) ==
  LET track == Note(carry, h, MaxCarry)
  IN \/ /\ NearBase(h, c)
        /\ record' = [told EXCEPT !.carried = CarriedDistance(track, h)]
        /\ carry' = <<>>
        /\ phase' = "safe"
        /\ steps' = n
        /\ home' = h /\ civ' = c
     \/ /\ ~NearBase(h, c)
        /\ home' = h - StepSize(h)
        /\ civ' = Together(home', off)
        /\ carry' = track
        /\ phase' = "carry"
        /\ steps' = Count(n)
        /\ record' = told

\* The last step of the approach is the first one of the way back.
Attach ==
  /\ phase = "approach" /\ walked
  /\ gap <= Attachable
  /\ LET track == Note(approach, way, MaxApproach)
         told == [Started EXCEPT !.converged = ConvergedDistance(track)]
     IN \E h \in Homes, off \in Beside(gap) :
          /\ offset' = off
          /\ Carry(h, <<h + off[1], off[2]>>, off, told, 0)
  /\ approach' = <<>> /\ way' = 0
  /\ walked' = FALSE
  /\ UNCHANGED gap

CarryOn ==
  /\ phase = "carry"
  /\ Carry(home, civ, offset, record, steps)
  /\ UNCHANGED <<walked, gap, way, offset, approach>>

TripNext == CivilianWalks \/ ConvergeStep \/ Attach \/ CarryOn

TripSpec == TripInit /\ [][TripNext]_vars
TripFairSpec == TripSpec /\ WF_vars(TripNext)

-----------------------------------------------------------------------------
(* Properties.                                                             *)

\* Every mission ends with both at the base: the approach catches up with a
\* walking civilian, no step passes over who or what it heads for, and no pair
\* hovers short of the base, however long its offset and to whichever side.
MissionEnds == <>(phase = "safe")

\* On the way back the two stay as close as they were when they attached.
PairStaysClose ==
  phase # "approach" =>
    /\ civ = <<home + offset[1], offset[2]>>
    /\ Square(offset) <= gap * gap /\ gap <= Attachable

\* A chase from here is over before its track is full, however the civilian flees.
Reach == (MaxApproach - 1) * (ApproachStep - Fastest) + Attachable

\* The distances of an event are those of the whole way, where they can be.  The
\* approach is recorded in full when it started within reach; a longer chase may
\* be cut, and then keeps the latest positions, as many as the cap allows.  The
\* cap of the way back is never reached: its track holds every position, and it
\* is recorded at twice its length.
TracksTellTheWay ==
  /\ phase = "approach" =>
       LET track == Note(approach, way, MaxApproach)
       IN /\ Len(track) = Min({steps + 1, MaxApproach})
          /\ Length(track) = (Len(track) - 1) * ApproachStep
          /\ record.covered <= Reach => ConvergedDistance(track) = way + gap
  /\ phase = "carry" =>
       LET track == Note(carry, home, MaxCarry)
       IN /\ Len(track) = steps + 1
          /\ CarriedDistance(track, home) = 2 * Distance(track[1], home)
=============================================================================
