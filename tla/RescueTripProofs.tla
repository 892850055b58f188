--------------------------- MODULE RescueTripProofs --------------------------
(***************************************************************************)
(* Proofs about RescueTrip: for any area, steps, thresholds and caps       *)
(* within the assumption of that module, wherever the two start and        *)
(* however the civilian walks.                                             *)
(***************************************************************************)
EXTENDS RescueTrip, FiniteSums, SequenceTheorems, TLAPS

-----------------------------------------------------------------------------
(* Arithmetic.                                                             *)

\* The larger and the smaller one of two numbers.
LEMMA MaxIs ==
  ASSUME NEW a \in Int, NEW b \in Int
  PROVE  Max({a, b}) = IF a >= b THEN a ELSE b
<1>1. \E x \in {a, b} : \A y \in {a, b} : x >= y
  <2>1. CASE a >= b
    BY <2>1
  <2>2. CASE b >= a
    BY <2>2
  <2> QED
    BY <2>1, <2>2
<1>2. /\ Max({a, b}) \in {a, b}
      /\ \A y \in {a, b} : Max({a, b}) >= y
  BY <1>1 DEF Max
<1> QED
  BY <1>2

LEMMA MinIs ==
  ASSUME NEW a \in Int, NEW b \in Int
  PROVE  Min({a, b}) = IF a <= b THEN a ELSE b
<1>1. \E x \in {a, b} : \A y \in {a, b} : x <= y
  <2>1. CASE a <= b
    BY <2>1
  <2>2. CASE b <= a
    BY <2>2
  <2> QED
    BY <2>1, <2>2
<1>2. /\ Min({a, b}) \in {a, b}
      /\ \A y \in {a, b} : Min({a, b}) <= y
  BY <1>1 DEF Min
<1> QED
  BY <1>2

\* A distance is the difference, the larger one of both ways round.
LEMMA DistanceIs ==
  ASSUME NEW a \in Int, NEW b \in Int
  PROVE  Distance(a, b) = IF a >= b THEN a - b ELSE b - a
<1>1. a - b \in Int /\ b - a \in Int
  OBVIOUS
<1>2. Distance(a, b) = IF a - b >= b - a THEN a - b ELSE b - a
  BY <1>1, MaxIs DEF Distance
<1> QED
  BY <1>1, <1>2

\* Fewer steps of one length make a shorter way.
LEMMA FewerSteps ==
  ASSUME NEW k \in Int, NEW m \in Int, NEW size \in Nat \ {0},
         k * size < m * size
  PROVE  k < m
<1> SUFFICES ASSUME k >= m
             PROVE  FALSE
  OBVIOUS
<1>1. PICK j \in Nat : k = m + j
  <2>1. k - m \in Nat /\ k = m + (k - m)
    OBVIOUS
  <2> QED
    BY <2>1
<1>2. k * size = m * size + j * size
  BY <1>1
<1>3. j * size \in Nat /\ m * size \in Int
  OBVIOUS
<1> QED
  BY <1>2, <1>3

\* The larger number has the larger square.
LEMMA LargerSquare ==
  ASSUME NEW a \in Nat, NEW b \in Nat, a <= b
  PROVE  a * a <= b * b
<1>1. PICK c \in Nat : b = a + c
  <2>1. b - a \in Nat /\ b = a + (b - a)
    OBVIOUS
  <2> QED
    BY <2>1
<1>2. b * b = a * a + (a * c + c * a + c * c)
  BY <1>1
<1>3. a * a \in Nat /\ a * c \in Nat /\ c * a \in Nat /\ c * c \in Nat
  OBVIOUS
<1> QED
  BY <1>2, <1>3

-----------------------------------------------------------------------------
(* Tracks.                                                                 *)

\* What is left of a track and a new position: the latest, up to the cap.
LEMMA NoteIs ==
  ASSUME NEW track \in Seq(Nat), NEW pos \in Nat, NEW cap \in Nat \ {0}
  PROVE  /\ Note(track, pos, cap) \in Seq(Nat)
         /\ Len(Note(track, pos, cap)) = IF Len(track) < cap THEN Len(track) + 1 ELSE cap
         /\ \A i \in 1 .. Len(Note(track, pos, cap)) :
              Note(track, pos, cap)[i] =
                Append(track, pos)[i + (Len(track) + 1 - Len(Note(track, pos, cap)))]
<1> DEFINE t == Append(track, pos)
           first == Max({1, Len(t) - cap + 1})
<1>1. t \in Seq(Nat) /\ Len(t) = Len(track) + 1 /\ Len(track) \in Nat
  BY AppendProperties, LenProperties
<1> HIDE DEF t
<1>2. first = IF Len(track) < cap THEN 1 ELSE Len(track) - cap + 2
  <2>1. 1 \in Int /\ Len(t) - cap + 1 \in Int
    BY <1>1
  <2>2. first = IF 1 >= Len(t) - cap + 1 THEN 1 ELSE Len(t) - cap + 1
    BY <2>1, MaxIs
  <2> QED
    BY <1>1, <2>2
<1>3. first \in 1 .. Len(t)
  BY <1>1, <1>2
<1>4. Note(track, pos, cap) = SubSeq(t, first, Len(t))
  BY DEF Note, Keep, t
<1> HIDE DEF first
<1>5. /\ SubSeq(t, first, Len(t)) \in Seq(Nat)
      /\ Len(SubSeq(t, first, Len(t))) = Len(t) - first + 1
      /\ \A i \in 1 .. Len(t) - first + 1 : SubSeq(t, first, Len(t))[i] = t[first + i - 1]
  BY <1>1, <1>3
<1>6. Len(Note(track, pos, cap)) = IF Len(track) < cap THEN Len(track) + 1 ELSE cap
  <2>1. Len(Note(track, pos, cap)) = Len(t) - first + 1 /\ Len(track) \in Nat
    BY <1>1, <1>4, <1>5
  <2>2. CASE Len(track) < cap
    BY <1>1, <1>2, <2>1, <2>2
  <2>3. CASE ~(Len(track) < cap)
    <3>1. first = Len(track) - cap + 2
      BY <1>2, <2>3
    <3> QED
      BY <1>1, <2>1, <2>3, <3>1
  <2> QED
    BY <2>2, <2>3
<1>7. ASSUME NEW i \in 1 .. Len(Note(track, pos, cap))
      PROVE  Note(track, pos, cap)[i] = t[i + (Len(track) + 1 - Len(Note(track, pos, cap)))]
  <2>1. first + i - 1 = i + (Len(track) + 1 - (Len(t) - first + 1))
    BY <1>1, <1>3, <1>4, <1>5
  <2> QED
    BY <1>1, <1>4, <1>5, <2>1
<1> QED
  BY <1>4, <1>5, <1>6, <1>7 DEF t

\* A track that is shorter than its cap loses nothing to a new position.
LEMMA NoteKeeps ==
  ASSUME NEW track \in Seq(Nat), NEW pos \in Nat, NEW cap \in Nat,
         Len(track) < cap
  PROVE  /\ Note(track, pos, cap) = Append(track, pos)
         /\ Note(track, pos, cap) \in Seq(Nat)
         /\ Len(Note(track, pos, cap)) = Len(track) + 1
<1> DEFINE t == Append(track, pos)
<1>1. t \in Seq(Nat) /\ Len(t) = Len(track) + 1 /\ Len(track) \in Nat
  BY AppendProperties, LenProperties
<1> HIDE DEF t
<1>2. 1 \in Int /\ Len(t) - cap + 1 \in Int /\ Len(t) - cap + 1 <= 1
  BY <1>1
<1>3. Max({1, Len(t) - cap + 1}) = 1
  BY <1>2, MaxIs
<1>4. Note(track, pos, cap) = SubSeq(t, 1, Len(t))
  BY <1>3 DEF Note, Keep, t
<1>5. SubSeq(t, 1, Len(t)) = t
  BY <1>1
<1> QED
  BY <1>1, <1>4, <1>5 DEF t

\* A position at the end of a track makes it longer by the step to it.
LEMMA LengthGrows ==
  ASSUME NEW t \in Seq(Nat), NEW pos \in Nat
  PROVE  /\ Length(t) \in Nat
         /\ t = <<>> => Length(Append(t, pos)) = 0
         /\ t # <<>> => Length(Append(t, pos)) = Length(t) + Distance(t[Len(t)], pos)
<1>1. \A a, b \in Nat : Distance(a, b) \in Nat /\ Distance(a, b) \in Int
  <2> TAKE a, b \in Nat
  <2>1. Distance(a, b) = IF a >= b THEN a - b ELSE b - a
    BY DistanceIs
  <2> QED
    BY <2>1
<1> DEFINE a == Append(t, pos)
           F(s) == [i \in 1 .. Len(s) - 1 |-> Distance(s[i], s[i + 1])]
           f == F(a)
           g == F(t)
           T == 1 .. Len(t) - 1
           S == 1 .. Len(t)
<1>2. /\ Len(t) \in Nat /\ a \in Seq(Nat) /\ Len(a) = Len(t) + 1
      /\ \A i \in S : t[i] \in Nat /\ a[i] = t[i]
      /\ a[Len(t) + 1] = pos
  BY ElementOfSeq, AppendProperties
<1>3. \A i \in T : g[i] = Distance(t[i], t[i + 1]) /\ g[i] \in Nat
  <2> TAKE i \in T
  <2>1. t[i] \in Nat /\ t[i + 1] \in Nat
    BY <1>2
  <2> QED
    BY <1>1, <2>1
<1>4. Length(t) = SumFunctionOnSet(g, T) /\ IsFiniteSet(T)
  BY <1>2, FS_Interval DEF Length, SumFunction
<1>5. Length(a) = SumFunctionOnSet(f, S) /\ IsFiniteSet(S)
  <2>1. DOMAIN f = S
    BY <1>2
  <2>2. Length(a) = SumFunctionOnSet(f, DOMAIN f)
    BY DEF Length, SumFunction
  <2>3. IsFiniteSet(S)
    BY <1>2, FS_Interval
  <2> HIDE DEF f, S
  <2> QED
    BY <2>1, <2>2, <2>3
<1>6. Length(t) \in Nat
  <2> HIDE DEF g, T
  <2> QED
    BY <1>3, <1>4, SumOfNat
<1>7. CASE t = <<>>
  <2>1. S = {}
    BY <1>7
  <2>2. SumFunctionOnSet(f, S) = 0
    <3> HIDE DEF f, S
    <3> QED
      BY <2>1, FS_EmptySet, SumTake
  <2> QED
    BY <1>5, <1>6, <1>7, <2>2
<1>8. CASE t # <<>>
  <2> DEFINE n == Len(t)
  <2>1. n \in S /\ S \ {n} = T
    <3>1. n # 0
      BY <1>2, <1>8, EmptySeq
    <3> QED
      BY <1>2, <3>1
  <2>2. \A i \in S : f[i] = Distance(a[i], a[i + 1]) /\ f[i] \in Int
    <3> TAKE i \in S
    <3>1. a[i] \in Nat /\ a[i + 1] \in Nat
      BY <1>2, ElementOfSeq
    <3>2. f[i] = Distance(a[i], a[i + 1])
      BY <1>2
    <3>3. Distance(a[i], a[i + 1]) \in Int
      BY <1>1, <3>1
    <3> HIDE DEF f, a
    <3> QED
      BY <3>2, <3>3
  <2>3. f[n] = Distance(t[n], pos)
    BY <1>2, <2>1, <2>2
  <2>4. \A i \in T : f[i] = g[i]
    BY <1>2, <1>3, <2>2
  <2> HIDE DEF f, g, S, T, n
  <2>5. SumFunctionOnSet(f, T) = SumFunctionOnSet(g, T)
    BY <1>4, <2>4, SumCongruence
  <2>6. SumFunctionOnSet(f, S) = f[n] + SumFunctionOnSet(f, T)
    BY <1>5, <2>1, <2>2, SumTake
  <2>7. f[n] \in Nat
    BY <1>1, <1>2, <2>1, <2>3 DEF S, n
  <2>8. Length(a) = Length(t) + Distance(t[n], pos)
    BY <1>4, <1>5, <1>6, <2>3, <2>5, <2>6, <2>7
  <2> QED
    BY <1>6, <1>8, <2>8 DEF n
<1> QED
  BY <1>7, <1>8

\* Positions a step of the approach apart, one after the other.
Even(track) ==
  \A i \in 1 .. Len(track) - 1 : Distance(track[i], track[i + 1]) = ApproachStep

\* They make a track of as many steps as lie between them.
LEMMA EvenLength ==
  ASSUME TripAssumption, NEW t \in Seq(Nat), t # <<>>, Even(t)
  PROVE  Length(t) = (Len(t) - 1) * ApproachStep
<1>1. ApproachStep \in Int /\ Len(t) - 1 \in Nat
  <2>1. Len(t) \in Nat /\ Len(t) # 0
    BY EmptySeq
  <2> QED
    BY <2>1 DEF TripAssumption
<1> DEFINE n == Len(t) - 1
           f == [i \in 1 .. n |-> Distance(t[i], t[i + 1])]
<1>2. Length(t) = SumFunctionOnSet(f, 1 .. n)
  BY DEF Length, SumFunction
<1>3. \A i \in 1 .. n : f[i] = ApproachStep
  BY DEF Even
<1>4. n \in Nat
  BY <1>1
<1> HIDE DEF f, n
<1>5. SumFunctionOnSet(f, 1 .. n) = n * ApproachStep
  BY <1>1, <1>3, <1>4, SumOfConstant
<1> QED
  BY <1>2, <1>5 DEF n

\* A cut leaves them so.
LEMMA EvenNote ==
  ASSUME NEW track \in Seq(Nat), NEW pos \in Nat, NEW cap \in Nat \ {0},
         Even(Append(track, pos))
  PROVE  /\ Even(Note(track, pos, cap))
         /\ Note(track, pos, cap) # <<>>
         /\ Note(track, pos, cap)[Len(Note(track, pos, cap))] = pos
<1> DEFINE t == Append(track, pos)
           s == Note(track, pos, cap)
           k == Len(track) + 1 - Len(s)
<1>1. /\ s \in Seq(Nat) /\ Len(s) = IF Len(track) < cap THEN Len(track) + 1 ELSE cap
      /\ \A i \in 1 .. Len(s) : s[i] = t[i + k]
  <2>1. /\ Note(track, pos, cap) \in Seq(Nat)
        /\ Len(Note(track, pos, cap)) = IF Len(track) < cap THEN Len(track) + 1 ELSE cap
        /\ \A i \in 1 .. Len(Note(track, pos, cap)) :
             Note(track, pos, cap)[i] =
               Append(track, pos)[i + (Len(track) + 1 - Len(Note(track, pos, cap)))]
    <3> HIDE DEF t, s, k
    <3> QED
      BY NoteIs
  <2> QED
    BY <2>1
<1>2. Len(track) \in Nat /\ Len(t) = Len(track) + 1 /\ t[Len(track) + 1] = pos
  OBVIOUS
<1>3. Len(s) \in Nat \ {0} /\ k \in Nat /\ Len(s) + k = Len(t)
  BY <1>1, <1>2
<1>4. Even(t)
  OBVIOUS
<1> HIDE DEF t, s, k
<1>5. ASSUME NEW i \in 1 .. Len(s) - 1
      PROVE  Distance(s[i], s[i + 1]) = ApproachStep
  <2>1. i \in 1 .. Len(s) /\ i + 1 \in 1 .. Len(s)
    BY <1>3
  <2>2. s[i] = t[i + k] /\ s[i + 1] = t[(i + 1) + k]
    BY <1>1, <2>1
  <2>3. i + k \in 1 .. Len(t) - 1 /\ (i + 1) + k = (i + k) + 1
    BY <1>3
  <2>4. Distance(t[i + k], t[(i + k) + 1]) = ApproachStep
    BY <1>4, <2>3 DEF Even
  <2> QED
    BY <2>2, <2>3, <2>4
<1>6. Len(s) \in 1 .. Len(s) /\ s # <<>>
  BY <1>1, <1>3, EmptySeq
<1>7. s[Len(s)] = pos
  <2>1. s[Len(s)] = t[Len(s) + k]
    BY <1>1, <1>6
  <2> QED
    BY <1>2, <1>3, <2>1
<1> QED
  BY <1>5, <1>6, <1>7 DEF Even, s

\* So does one more step.
LEMMA EvenGrows ==
  ASSUME NEW t \in Seq(Nat), t # <<>>, Even(t), NEW pos \in Nat,
         Distance(t[Len(t)], pos) = ApproachStep
  PROVE  Even(Append(t, pos))
<1> DEFINE u == Append(t, pos)
<1>1. /\ Len(t) \in Nat \ {0} /\ Len(u) = Len(t) + 1 /\ u[Len(t) + 1] = pos
      /\ \A i \in 1 .. Len(t) : u[i] = t[i]
  BY EmptySeq, AppendProperties
<1> HIDE DEF u
<1>2. ASSUME NEW i \in 1 .. Len(u) - 1
      PROVE  Distance(u[i], u[i + 1]) = ApproachStep
  <2>1. CASE i = Len(t)
    BY <1>1, <2>1
  <2>2. CASE i # Len(t)
    <3>1. i \in 1 .. Len(t) - 1 /\ i \in 1 .. Len(t) /\ i + 1 \in 1 .. Len(t)
      BY <1>1, <2>2
    <3>2. Distance(t[i], t[i + 1]) = ApproachStep
      BY <3>1 DEF Even
    <3> QED
      BY <1>1, <3>1, <3>2
  <2> QED
    BY <2>1, <2>2
<1> QED
  BY <1>2 DEF Even, u

-----------------------------------------------------------------------------
(* The pair.                                                               *)

\* The length of a step to the base.  It is at most the distance that is left.
LEMMA StepIs ==
  ASSUME TripAssumption, NEW d \in Nat
  PROVE  \/ CarryStep + CarryStep <= d + 1 /\ StepSize(d) = CarryStep
         \/ /\ d + 1 < CarryStep + CarryStep
            /\ StepSize(d) = (d + 1) \div 2 /\ StepSize(d) \in Nat
<1>1. CarryStep \in Nat \ {0}
  BY DEF TripAssumption
<1>2. PICK h \in Nat : h = (d + 1) \div 2 /\ h + h <= d + 1 /\ d + 1 < h + h + 2
  BY SMT
<1>3. StepSize(d) = IF CarryStep <= h THEN CarryStep ELSE h
  <2>1. StepSize(d) = Min({CarryStep, h})
    BY <1>2 DEF StepSize
  <2>2. CarryStep \in Int /\ h \in Int
    BY <1>1, <1>2
  <2> QED
    BY <2>1, <2>2, MinIs
<1>4. CASE CarryStep <= h
  BY <1>1, <1>2, <1>3, <1>4
<1>5. CASE h < CarryStep
  <2>1. d + 1 < CarryStep + CarryStep
    BY <1>1, <1>2, <1>5
  <2> QED
    BY <1>1, <1>2, <1>3, <1>5, <2>1
<1> QED
  BY <1>1, <1>2, <1>4, <1>5

LEMMA StepEndsAtBase ==
  ASSUME TripAssumption, NEW d \in Nat
  PROVE  StepSize(d) \in Nat /\ StepSize(d) <= d
<1>1. CarryStep \in Nat \ {0}
  BY DEF TripAssumption
<1>2. CASE CarryStep + CarryStep <= d + 1 /\ StepSize(d) = CarryStep
  BY <1>1, <1>2
<1>3. CASE StepSize(d) = (d + 1) \div 2
  BY <1>3
<1> QED
  BY <1>2, <1>3, StepIs

\* The distances that the model knows are within the area.  From the attachment
\* on the civilian is at its offset, which is no longer than the gap was then.
PairInv ==
  /\ phase \in {"approach", "carry", "safe"}
  /\ gap \in 0 .. Diameter /\ home \in 0 .. Diameter
  /\ civ \in Int \X Int /\ offset \in Int \X Int
  /\ phase # "approach" =>
       /\ civ = <<home + offset[1], offset[2]>>
       /\ Square(offset) <= gap * gap /\ gap <= Attachable

\* Both are in the area when the mission starts.
LEMMA PairInit == TripInit => PairInv
  BY TripAssumption DEF TripInit, PairInv, TripAssumption

\* One step of the way back, from where the two are, with the civilian's offset.
LEMMA CarryKeepsPair ==
  ASSUME NEW h \in 0 .. Diameter, NEW off \in Int \X Int, NEW c, NEW told, NEW n,
         c = <<h + off[1], off[2]>>,
         gap \in 0 .. Diameter, Square(off) <= gap * gap, gap <= Attachable,
         gap' = gap, offset' = off, Carry(h, c, off, told, n)
  PROVE  PairInv'
<1>1. h \in Nat /\ h <= Diameter /\ Diameter \in Nat /\ off[1] \in Int /\ off[2] \in Int
  BY TripAssumption DEF TripAssumption
<1>2. CASE phase' = "safe" /\ home' = h /\ civ' = c
  <2>1. civ' \in Int \X Int
    BY <1>1, <1>2
  <2> QED
    BY <1>2, <2>1 DEF PairInv, Square
<1>3. CASE phase' = "carry" /\ civ' = Together(home', off) /\ home' = h - StepSize(h)
  <2>1. home' \in 0 .. Diameter
    BY <1>1, <1>3, TripAssumption, StepEndsAtBase
  <2>2. civ' = <<home' + off[1], off[2]>>
    BY <1>3 DEF Together
  <2>3. civ' \in Int \X Int
    BY <1>1, <2>1, <2>2
  <2> QED
    BY <1>3, <2>1, <2>2, <2>3 DEF PairInv, Square
<1> QED
  BY <1>2, <1>3 DEF Carry

\* What is chosen at the attachment.
LEMMA BesideIs ==
  ASSUME NEW g \in Nat, NEW v \in Beside(g)
  PROVE  v \in Int \X Int /\ Square(v) <= g * g
  BY DEF Beside

\* Every step keeps the invariant.
LEMMA PairStep == PairInv /\ [TripNext]_vars => PairInv'
<1> SUFFICES ASSUME PairInv, [TripNext]_vars
             PROVE  PairInv'
  OBVIOUS
<1>0. /\ gap \in 0 .. Diameter /\ home \in 0 .. Diameter /\ Diameter \in Nat
      /\ gap \in Nat
  BY TripAssumption DEF PairInv, TripAssumption
<1>1. CASE UNCHANGED vars
  BY <1>1 DEF vars, PairInv, Square
<1>2. CASE CivilianWalks
  <2>1. gap' \in 0 .. Diameter /\ phase = "approach"
        /\ UNCHANGED <<phase, home, civ, offset>>
    BY <1>2 DEF CivilianWalks
  <2> QED
    BY <2>1 DEF PairInv
<1>3. CASE ConvergeStep
  <2>1. phase = "approach" /\ UNCHANGED <<phase, home, civ, offset>>
        /\ gap > Attachable /\ gap' = gap - ApproachStep
    BY <1>3 DEF ConvergeStep
  <2>2. /\ ApproachStep \in Nat /\ Attachable \in Nat /\ ApproachStep <= Attachable
    BY TripAssumption DEF TripAssumption
  <2>3. gap' \in 0 .. Diameter
    BY <1>0, <2>1, <2>2
  <2> QED
    BY <2>1, <2>3 DEF PairInv
<1>4. CASE Attach
  <2>1. phase = "approach" /\ gap <= Attachable /\ gap' = gap
    BY <1>4 DEF Attach
  <2>2. PICK h \in Homes, off \in Beside(gap) :
          offset' = off /\ \E told : Carry(h, <<h + off[1], off[2]>>, off, told, 0)
    BY <1>4 DEF Attach
  <2>3. h \in 0 .. Diameter /\ off \in Int \X Int /\ Square(off) <= gap * gap
    BY <1>0, <2>2, TripAssumption, BesideIs DEF TripAssumption
  <2> QED
    BY <1>0, <2>1, <2>2, <2>3, CarryKeepsPair
<1>5. CASE CarryOn
  <2>1. phase = "carry" /\ Carry(home, civ, offset, record, steps)
        /\ UNCHANGED <<gap, offset>>
    BY <1>5 DEF CarryOn
  <2>2. /\ civ = <<home + offset[1], offset[2]>> /\ offset \in Int \X Int
        /\ Square(offset) <= gap * gap /\ gap <= Attachable
    BY <2>1 DEF PairInv
  <2> QED
    BY <1>0, <2>1, <2>2, CarryKeepsPair
<1> QED
  BY <1>1, <1>2, <1>3, <1>4, <1>5 DEF TripNext

\* From the attachment to the base the civilian keeps its place beside the
\* rescuer, no farther than convergenceThresholdDistance, however they move.
THEOREM PairIsTogether == TripSpec => []PairStaysClose
<1>1. PairInv => PairStaysClose
  BY DEF PairInv, PairStaysClose
<1> QED
  BY <1>1, PairInit, PairStep, PTL DEF TripSpec

-----------------------------------------------------------------------------
(* The approach.                                                           *)

\* What the variables range over, and what is cleared at the attachment.
RangeInv ==
  /\ walked \in BOOLEAN /\ steps \in Nat /\ way \in Nat
  /\ record \in [covered : Nat, converged : Nat, carried : Nat]
  /\ phase # "approach" => approach = <<>>
  /\ phase # "carry" => carry = <<>>

\* The most that the civilian may still open the gap before the next step.
Slack == IF walked THEN 0 ELSE Fastest

\* The rescuer has come a step for each position, and the track holds the latest
\* of them.  Each second of the chase has closed the gap by the difference of the
\* two speeds at least, so that a chase within reach is over in time.
ChaseInv ==
  phase = "approach" =>
    /\ walked \/ steps # 0
    /\ way = steps * ApproachStep
    /\ approach \in Seq(Nat)
    /\ Len(approach) = IF steps < MaxApproach THEN steps ELSE MaxApproach
    /\ Even(Append(approach, way))
    /\ steps # 0 =>
         gap + Slack + steps * (ApproachStep - Fastest) <= record.covered
    /\ record.covered <= Reach => steps < MaxApproach

\* The mission starts with nothing behind it.
LEMMA ChaseInit == TripInit => RangeInv /\ ChaseInv
<1> SUFFICES ASSUME TripInit
             PROVE  RangeInv /\ ChaseInv
  OBVIOUS
<1>1. /\ phase = "approach" /\ walked = TRUE /\ steps = 0 /\ way = 0
      /\ approach = <<>> /\ carry = <<>>
      /\ record = [covered |-> 0, converged |-> 0, carried |-> 0]
      /\ ApproachStep \in Nat /\ MaxApproach \in Nat \ {0}
  BY TripAssumption DEF TripInit, TripAssumption
<1>2. RangeInv
  BY <1>1 DEF RangeInv
<1>3. way = steps * ApproachStep
  BY <1>1
<1>4. approach \in Seq(Nat) /\ Len(approach) = 0
  BY <1>1
<1>5. Even(Append(approach, way))
  BY <1>1, <1>4 DEF Even
<1> QED
  BY <1>1, <1>2, <1>3, <1>4, <1>5 DEF ChaseInv

\* A walk opens the gap by no more than the slack.
LEMMA WalkKeepsChase ==
  PairInv /\ RangeInv /\ ChaseInv /\ CivilianWalks => ChaseInv'
<1> SUFFICES ASSUME PairInv, RangeInv, ChaseInv, CivilianWalks
             PROVE  ChaseInv'
  OBVIOUS
<1>1. /\ phase = "approach" /\ ~walked /\ walked' = TRUE
      /\ gap' \in 0 .. Diameter /\ Distance(gap', gap) <= Fastest
      /\ UNCHANGED <<phase, way, approach, carry, steps, record>>
  BY DEF CivilianWalks
<1>2. /\ gap \in Int /\ gap' \in Int /\ Fastest \in Nat /\ ApproachStep \in Nat
      /\ steps \in Nat /\ record.covered \in Nat
  BY <1>1, TripAssumption DEF PairInv, RangeInv, TripAssumption
<1>3. /\ steps # 0
      /\ gap + Fastest + steps * (ApproachStep - Fastest) <= record.covered
  BY <1>1 DEF ChaseInv, Slack
<1>4. gap' <= gap + Fastest
  BY <1>1, <1>2, DistanceIs
<1>5. PICK closed \in Int : closed = steps * (ApproachStep - Fastest)
  BY <1>2
<1>6. gap' + 0 + closed <= record.covered
  BY <1>2, <1>3, <1>4, <1>5
<1>7. Slack' = 0
  BY <1>1 DEF Slack
<1>8. gap' + Slack' + steps' * (ApproachStep - Fastest) <= record'.covered
  BY <1>1, <1>5, <1>6, <1>7
<1> QED
  BY <1>1, <1>8 DEF ChaseInv, Even, Reach

\* A step of the approach is taken by who is not attached, more than Attachable
\* away: then there is room for its position, if the chase started within reach.
LEMMA StepKeepsChase ==
  PairInv /\ RangeInv /\ ChaseInv /\ ConvergeStep => RangeInv' /\ ChaseInv'
<1> SUFFICES ASSUME PairInv, RangeInv, ChaseInv, ConvergeStep
             PROVE  RangeInv' /\ ChaseInv'
  OBVIOUS
<1>1. /\ phase = "approach" /\ walked /\ gap > Attachable
      /\ record' = Started /\ approach' = Note(approach, way, MaxApproach)
      /\ way' = way + ApproachStep /\ gap' = gap - ApproachStep
      /\ steps' = steps + 1 /\ walked' = FALSE /\ UNCHANGED <<phase, carry>>
  BY DEF ConvergeStep
<1>2. /\ gap \in Nat /\ steps \in Nat /\ way \in Nat
      /\ record \in [covered : Nat, converged : Nat, carried : Nat]
      /\ carry = <<>>
  BY <1>1, TripAssumption DEF PairInv, RangeInv, TripAssumption
<1>3. /\ ApproachStep \in Nat /\ Fastest \in Nat /\ Fastest < ApproachStep
      /\ Attachable \in Nat /\ MaxApproach \in Nat \ {0}
  BY TripAssumption DEF TripAssumption
<1>4. /\ way = steps * ApproachStep /\ approach \in Seq(Nat)
      /\ Len(approach) = IF steps < MaxApproach THEN steps ELSE MaxApproach
      /\ Even(Append(approach, way))
      /\ steps # 0 => gap + Slack + steps * (ApproachStep - Fastest) <= record.covered
      /\ record.covered <= Reach => steps < MaxApproach
  BY <1>1 DEF ChaseInv
<1>5. /\ record' \in [covered : Nat, converged : Nat, carried : Nat]
      /\ record'.covered = IF steps = 0 THEN gap ELSE record.covered
  BY <1>1, <1>2 DEF Started
<1>6. RangeInv'
  <2>1. walked' \in BOOLEAN
    BY <1>1
  <2>2. steps' \in Nat /\ way' \in Nat
    BY <1>1, <1>2, <1>3
  <2>3. phase' = "approach" /\ carry' = <<>>
    BY <1>1, <1>2
  <2> QED
    BY <1>5, <2>1, <2>2, <2>3 DEF RangeInv
<1>7. PICK speed \in Nat \ {0} : speed = ApproachStep - Fastest
  BY <1>3
<1>8. PICK closed \in Int : closed = steps * speed
  BY <1>2, <1>7
<1>9. gap + closed <= record'.covered
  <2>1. CASE steps = 0
    <3>1. closed = 0
      BY <1>7, <1>8, <2>1
    <3> QED
      BY <1>2, <1>5, <2>1, <3>1
  <2>2. CASE steps # 0
    <3>1. Slack = 0
      BY <1>1 DEF Slack
    <3>2. gap + 0 + closed <= record.covered
      BY <1>4, <1>7, <1>8, <2>2, <3>1
    <3> QED
      BY <1>2, <1>5, <2>2, <3>2
  <2> QED
    BY <2>1, <2>2
<1>10. gap' + Slack' + steps' * (ApproachStep - Fastest) <= record'.covered
  <2>1. Slack' = Fastest
    BY <1>1 DEF Slack
  <2>2. (steps + 1) * speed = closed + speed
    BY <1>2, <1>7, <1>8
  <2>3. gap - ApproachStep + Fastest + (closed + speed) = gap + closed
    BY <1>2, <1>3, <1>7
  <2> QED
    BY <1>1, <1>7, <1>9, <2>1, <2>2, <2>3
<1>11. record'.covered <= Reach => steps' < MaxApproach
  <2> SUFFICES ASSUME record'.covered <= Reach
               PROVE  steps' < MaxApproach
    OBVIOUS
  <2>1. PICK most \in Int : most = (MaxApproach - 1) * speed
    BY <1>3, <1>7
  <2>2. Reach = most + Attachable
    BY <1>7, <2>1 DEF Reach
  <2>3. record'.covered \in Nat
    BY <1>5
  <2>4. closed < most
    BY <1>1, <1>2, <1>3, <1>9, <2>2, <2>3
  <2>5. steps \in Int /\ MaxApproach - 1 \in Int /\ steps * speed < (MaxApproach - 1) * speed
    BY <1>2, <1>3, <1>8, <2>1, <2>4
  <2>6. steps < MaxApproach - 1
    BY <1>7, <2>5, FewerSteps
  <2> QED
    BY <1>1, <1>2, <1>3, <2>6
<1>12. way' = steps' * ApproachStep /\ way' \in Nat
  BY <1>1, <1>2, <1>3, <1>4
<1>13. /\ approach' \in Seq(Nat)
       /\ Len(approach') = IF steps' < MaxApproach THEN steps' ELSE MaxApproach
  <2>1. /\ approach' \in Seq(Nat)
        /\ Len(approach') = IF Len(approach) < MaxApproach
                            THEN Len(approach) + 1 ELSE MaxApproach
    BY <1>1, <1>2, <1>3, <1>4, NoteIs
  <2>2. CASE steps < MaxApproach
    BY <1>1, <1>2, <1>3, <1>4, <2>1, <2>2
  <2>3. CASE ~(steps < MaxApproach)
    BY <1>1, <1>2, <1>3, <1>4, <2>1, <2>3
  <2> QED
    BY <2>2, <2>3
<1>14. Even(Append(approach', way'))
  <2>1. /\ Even(approach') /\ approach' # <<>>
        /\ approach'[Len(approach')] = way
    BY <1>1, <1>2, <1>3, <1>4, EvenNote
  <2>2. Distance(way, way') = ApproachStep
    BY <1>1, <1>2, <1>3, DistanceIs
  <2> QED
    BY <1>12, <1>13, <2>1, <2>2, EvenGrows
<1>15. ChaseInv'
  <2>1. (Even(Append(approach, way)))'
    BY <1>14 DEF Even
  <2>2. Reach' = Reach
    BY DEF Reach
  <2>3. steps' # 0
    BY <1>1, <1>2
  <2> QED
    BY <1>10, <1>11, <1>12, <1>13, <2>1, <2>2, <2>3 DEF ChaseInv
<1> QED
  BY <1>6, <1>15

-----------------------------------------------------------------------------
(* The way back.                                                           *)

\* The count of positions does not stop before the cap.
LEMMA CountIs ==
  ASSUME TripAssumption, NEW n \in Nat, n < MaxCarry
  PROVE  Count(n) = n + 1
<1>1. MaxCarry \in Nat
  BY DEF TripAssumption
<1>2. n + 1 \in Int /\ MaxCarry \in Int /\ n + 1 <= MaxCarry
  BY <1>1
<1> QED
  BY <1>2, MinIs DEF Count

\* n steps are passed and d metres left: with full steps only they are fewer
\* than the cap allows, with CarryStep - 1 to spare; or the halved steps have
\* begun, and what is left takes no more than a step for a metre.
FullSteps(n, d) == n * CarryStep + d < (MaxCarry - CarryStep + 1) * CarryStep
LastSteps(n, d) == d < CarryStep /\ n + d < MaxCarry
InTime(n, d) == FullSteps(n, d) \/ LastSteps(n, d)

\* A step keeps the way back in time.  A full one is as long as the share of the
\* cap that it takes.  The first halved one leaves less than CarryStep metres,
\* with as many steps to spare; and every one after it shortens the way.
LEMMA StepInTime ==
  ASSUME TripAssumption, NEW n \in Nat, NEW d \in Nat \ {0}, InTime(n, d)
  PROVE  n + 1 < MaxCarry /\ InTime(n + 1, d - StepSize(d))
<1>1. CarryStep \in Nat \ {0} /\ MaxCarry \in Nat
  BY DEF TripAssumption
<1> DEFINE most == MaxCarry - CarryStep + 1
<1>2. most \in Int /\ most + CarryStep = MaxCarry + 1
  BY <1>1
<1> HIDE DEF most
<1>3. PICK come \in Nat : come = n * CarryStep
  BY <1>1
<1>4. PICK all \in Int : all = most * CarryStep
  BY <1>1, <1>2
<1>5. (n + 1) * CarryStep = come + CarryStep
  BY <1>1, <1>3
<1>6. FullSteps(n, d) <=> come + d < all
  BY <1>3, <1>4 DEF FullSteps, most
<1>7. \A e : FullSteps(n + 1, e) <=> come + CarryStep + e < all
  BY <1>4, <1>5 DEF FullSteps, most
<1>8. FullSteps(n, d) => n < most
  <2> SUFFICES ASSUME FullSteps(n, d)
               PROVE  n < most
    OBVIOUS
  <2>1. come < all
    BY <1>3, <1>4, <1>6
  <2> QED
    BY <1>1, <1>2, <1>3, <1>4, <2>1, FewerSteps
<1>9. FullSteps(n, d) /\ d >= CarryStep => n + 1 < most
  <2> SUFFICES ASSUME FullSteps(n, d), d >= CarryStep
               PROVE  n + 1 < most
    OBVIOUS
  <2>1. (n + 1) * CarryStep < most * CarryStep
    BY <1>1, <1>3, <1>4, <1>5, <1>6
  <2>2. n + 1 \in Int
    OBVIOUS
  <2> QED
    BY <1>1, <1>2, <2>1, <2>2, FewerSteps
<1>10. CASE CarryStep + CarryStep <= d + 1 /\ StepSize(d) = CarryStep
  <2>1. CASE FullSteps(n, d)
    <3>1. d >= CarryStep /\ d - CarryStep \in Nat
      BY <1>1, <1>10
    <3>2. n + 1 < MaxCarry
      BY <1>1, <1>2, <1>9, <2>1, <3>1
    <3>3. come + CarryStep + (d - CarryStep) < all
      BY <1>1, <1>3, <1>4, <1>6, <2>1, <3>1
    <3> QED
      BY <1>7, <1>10, <3>2, <3>3 DEF InTime
  <2>2. CASE LastSteps(n, d)
    <3>1. d < CarryStep /\ n + d < MaxCarry
      BY <2>2 DEF LastSteps
    <3>2. CarryStep = 1 /\ d = 0
      BY <1>1, <1>10, <3>1
    <3> QED
      BY <3>2
  <2> QED
    BY <2>1, <2>2 DEF InTime
<1>11. CASE d + 1 < CarryStep + CarryStep /\ StepSize(d) = (d + 1) \div 2
  <2>1. PICK s \in Nat : s = StepSize(d) /\ s + s <= d + 1 /\ d + 1 < s + s + 2
    <3>1. \E h \in Nat : h = (d + 1) \div 2 /\ h + h <= d + 1 /\ d + 1 < h + h + 2
      BY SMT
    <3> QED
      BY <1>11, <3>1
  <2>2. d - s \in Nat /\ d - s < CarryStep /\ d - s < d
    BY <1>1, <1>11, <2>1
  <2>3. n + 1 + (d - s) < MaxCarry
    <3>1. CASE FullSteps(n, d) /\ d >= CarryStep
      BY <1>1, <1>2, <1>9, <2>1, <2>2, <3>1
    <3>2. CASE FullSteps(n, d) /\ d < CarryStep
      BY <1>1, <1>2, <1>8, <2>1, <2>2, <3>2
    <3>3. CASE LastSteps(n, d)
      <4>1. n + d < MaxCarry
        BY <3>3 DEF LastSteps
      <4> QED
        BY <1>1, <2>1, <2>2, <4>1
    <3> QED
      BY <1>1, <3>1, <3>2, <3>3 DEF InTime
  <2>4. n + 1 < MaxCarry
    BY <1>1, <2>2, <2>3
  <2> QED
    BY <2>1, <2>2, <2>3, <2>4 DEF InTime, LastSteps
<1> QED
  BY <1>10, <1>11, StepIs

\* A track that leads straight towards the base.
Straight(track) ==
  LET last == track[Len(track)]
  IN track[1] >= last /\ Length(track) = track[1] - last

\* A step to the base goes on straight.
LEMMA StepsStraight ==
  ASSUME NEW t \in Seq(Nat), t # <<>>, Straight(t),
         NEW pos \in Nat, pos <= t[Len(t)]
  PROVE  Straight(Append(t, pos))
<1> DEFINE u == Append(t, pos)
           first == t[1]
           last == t[Len(t)]
<1>1. Len(t) \in Nat \ {0}
  BY EmptySeq
<1>2. first \in Nat /\ last \in Nat
  BY <1>1, ElementOfSeq
<1>3. u[1] = first /\ u[Len(u)] = pos
  BY <1>1
<1>4. Length(u) = Length(t) + Distance(last, pos) /\ Length(t) \in Nat
  BY LengthGrows
<1>5. first >= last /\ Length(t) = first - last
  BY DEF Straight
<1> HIDE DEF u, first, last
<1>6. Distance(last, pos) = last - pos
  <2>1. pos <= last
    BY DEF last
  <2> QED
    BY <1>2, <2>1, DistanceIs
<1>7. first >= pos /\ Length(u) = first - pos
  <2>1. pos <= last
    BY DEF last
  <2> QED
    BY <1>2, <1>4, <1>5, <1>6, <2>1
<1> QED
  BY <1>3, <1>7 DEF Straight, u

\* The track of the way back has not reached its cap, and the way that is left
\* cannot fill it.
BackInv ==
  phase = "carry" =>
    /\ carry \in Seq(Nat) /\ Len(carry) = steps /\ steps < MaxCarry
    /\ carry # <<>> /\ Straight(Append(carry, home))
    /\ InTime(steps, home)

TripInv == PairInv /\ RangeInv /\ ChaseInv /\ BackInv

\* The recorded distance of the way back is a number.
LEMMA CarriedIsNat ==
  ASSUME NEW track \in Seq(Nat), NEW h \in Nat, NEW cap \in Nat, Len(track) < cap
  PROVE  CarriedDistance(Note(track, h, cap), h) \in Nat
<1> DEFINE t == Note(track, h, cap)
<1>1. t \in Seq(Nat) /\ Len(t) = Len(track) + 1 /\ Len(track) \in Nat
  BY NoteKeeps
<1> HIDE DEF t
<1>2. Length(t) \in Nat
  BY <1>1, LengthGrows
<1>3. t[1] \in Nat
  <2>1. 1 \in 1 .. Len(t)
    BY <1>1
  <2> QED
    BY <1>1, <2>1, ElementOfSeq
<1>4. Distance(t[1], h) \in Nat
  <2>1. Distance(t[1], h) = IF t[1] >= h THEN t[1] - h ELSE h - t[1]
    BY <1>3, DistanceIs
  <2> QED
    BY <1>3, <2>1
<1> QED
  BY <1>2, <1>4 DEF CarriedDistance, t

\* One step of the way back, with the count of the ones before it.  The two are
\* not short of the base once the rescuer stands on it.
LEMMA CarryKeepsTrack ==
  ASSUME NEW h \in 0 .. Diameter, NEW off \in Int \X Int, NEW c,
         c = <<h + off[1], off[2]>>, gap \in Nat,
         Square(off) <= gap * gap, gap <= Attachable,
         NEW told \in [covered : Nat, converged : Nat, carried : Nat], NEW n \in Nat,
         carry \in Seq(Nat), Len(carry) = n, n < MaxCarry,
         Straight(Append(carry, h)), InTime(n, h), Carry(h, c, off, told, n)
  PROVE  /\ phase' \in {"carry", "safe"} /\ steps' \in Nat
         /\ record' \in [covered : Nat, converged : Nat, carried : Nat]
         /\ phase' = "safe" => carry' = <<>>
         /\ BackInv'
<1>0. /\ h \in Nat /\ MaxCarry \in Nat
      /\ SarNear \in Nat /\ CivilianNear \in Nat /\ Attachable \in Nat
      /\ Attachable <= CivilianNear /\ off[1] \in Int /\ off[2] \in Int
  BY TripAssumption DEF TripAssumption
<1>1. CASE /\ phase' = "safe" /\ steps' = n /\ carry' = <<>>
           /\ record' = [told EXCEPT !.carried = CarriedDistance(Note(carry, h, MaxCarry), h)]
  <2>1. CarriedDistance(Note(carry, h, MaxCarry), h) \in Nat
    BY <1>0, CarriedIsNat
  <2>2. record' \in [covered : Nat, converged : Nat, carried : Nat]
    BY <1>1, <2>1
  <2> QED
    BY <1>1, <2>2 DEF BackInv
<1>2. CASE /\ ~NearBase(h, c) /\ phase' = "carry" /\ steps' = Count(n)
           /\ home' = h - StepSize(h) /\ carry' = Note(carry, h, MaxCarry)
           /\ record' = told
  <2>1. h # 0
    <3> SUFFICES ASSUME h = 0
                 PROVE  FALSE
      OBVIOUS
    <3>1. Square(c) = Square(off)
      <4>1. c[1] = off[1] /\ c[2] = off[2]
        BY <1>0
      <4> QED
        BY <4>1 DEF Square
    <3>2. gap * gap <= CivilianNear * CivilianNear
      BY <1>0, LargerSquare
    <3>3. PICK near \in Int : near = CivilianNear * CivilianNear
      BY <1>0
    <3>4. PICK apart \in Int : apart = gap * gap
      OBVIOUS
    <3>5. Square(off) \in Int
      BY <1>0 DEF Square
    <3>6. Square(c) <= near
      BY <3>1, <3>2, <3>3, <3>4, <3>5
    <3>7. NearBase(h, c)
      BY <1>0, <3>3, <3>6 DEF NearBase
    <3> QED
      BY <1>2, <3>7
  <2>2. steps' = n + 1
    BY <1>2, TripAssumption, CountIs
  <2>3. /\ carry' = Append(carry, h) /\ carry' \in Seq(Nat) /\ Len(carry') = n + 1
    BY <1>0, <1>2, NoteKeeps
  <2>4. n + 1 < MaxCarry /\ InTime(n + 1, h - StepSize(h))
    BY <1>0, <2>1, TripAssumption, StepInTime
  <2>5. home' \in Nat /\ home' <= h
    <3>1. StepSize(h) \in Nat /\ StepSize(h) <= h
      BY <1>0, TripAssumption, StepEndsAtBase
    <3> QED
      BY <1>0, <1>2, <3>1
  <2>6. carry' # <<>> /\ carry'[Len(carry')] = h
    BY <1>0, <2>3
  <2>7. Straight(Append(carry', home'))
    <3> DEFINE t == Append(carry, h)
    <3>1. t \in Seq(Nat) /\ t # <<>> /\ t[Len(t)] = h /\ Straight(t)
      BY <2>3, <2>6
    <3> HIDE DEF t
    <3>2. Straight(Append(t, home'))
      BY <2>5, <3>1, StepsStraight
    <3> QED
      BY <2>3, <3>2 DEF t
  <2>8. BackInv'
    <3>1. (Straight(Append(carry, home)))'
      BY <2>7 DEF Straight, Length
    <3>2. InTime(n + 1, home')
      BY <1>2, <2>4
    <3>3. (InTime(steps, home))'
      BY <2>2, <3>2 DEF InTime, FullSteps, LastSteps
    <3> QED
      BY <2>2, <2>3, <2>4, <2>6, <3>1, <3>3 DEF BackInv
  <2> QED
    BY <1>2, <2>2, <2>8
<1> QED
  BY <1>1, <1>2 DEF Carry

\* The way back is in time when it starts, anywhere in the area.
LEMMA StartsInTime ==
  ASSUME TripAssumption, NEW h \in 0 .. Diameter
  PROVE  InTime(0, h)
<1>1. h \in Nat /\ h <= Diameter /\ Diameter \in Nat /\ CarryStep \in Nat /\ MaxCarry \in Nat
  BY DEF TripAssumption
<1>2. PICK all \in Int : all = (MaxCarry - CarryStep + 1) * CarryStep
  BY <1>1
<1>3. Diameter < all
  BY <1>2 DEF TripAssumption
<1>4. 0 * CarryStep + h < all
  BY <1>1, <1>2, <1>3
<1> QED
  BY <1>2, <1>4 DEF InTime, FullSteps

-----------------------------------------------------------------------------
(* The invariant, and what follows from it.                                *)

\* The recorded distance of the approach is a number.
LEMMA ConvergedIsNat ==
  ASSUME TripInv, phase = "approach"
  PROVE  ConvergedDistance(Note(approach, way, MaxApproach)) \in Nat
<1>1. /\ approach \in Seq(Nat) /\ way \in Nat /\ gap \in Nat /\ MaxApproach \in Nat \ {0}
  BY TripAssumption DEF TripInv, PairInv, RangeInv, ChaseInv, TripAssumption
<1>2. Note(approach, way, MaxApproach) \in Seq(Nat)
  BY <1>1, NoteIs
<1>3. Length(Note(approach, way, MaxApproach)) \in Nat
  BY <1>2, LengthGrows
<1> QED
  BY <1>1, <1>3 DEF ConvergedDistance

\* The attachment, which starts the way back.
LEMMA AttachKeeps ==
  TripInv /\ Attach => RangeInv' /\ ChaseInv' /\ BackInv'
<1> SUFFICES ASSUME TripInv, Attach
             PROVE  RangeInv' /\ ChaseInv' /\ BackInv'
  OBVIOUS
<1> DEFINE Record == [covered : Nat, converged : Nat, carried : Nat]
           length == ConvergedDistance(Note(approach, way, MaxApproach))
           told == [Started EXCEPT !.converged = length]
<1>1. /\ phase = "approach" /\ gap <= Attachable
      /\ approach' = <<>> /\ way' = 0 /\ walked' = FALSE
  BY DEF Attach
<1>2. PICK h \in Homes, off \in Beside(gap) : Carry(h, <<h + off[1], off[2]>>, off, told, 0)
  BY DEF Attach
<1>3. gap \in Nat /\ carry = <<>> /\ record \in Record /\ MaxCarry \in Nat \ {0}
  BY <1>1, TripAssumption DEF TripInv, PairInv, RangeInv, TripAssumption
<1>4. told \in Record
  <2>1. length \in Nat
    BY <1>1, ConvergedIsNat
  <2> HIDE DEF length
  <2>2. Started \in Record
    BY <1>3 DEF Started
  <2> QED
    BY <2>1, <2>2
<1>5. h \in 0 .. Diameter /\ h \in Nat /\ off \in Int \X Int /\ Square(off) <= gap * gap
  BY <1>2, <1>3, TripAssumption, BesideIs DEF TripAssumption
<1>6. carry \in Seq(Nat) /\ Len(carry) = 0 /\ 0 \in Nat /\ 0 < MaxCarry
  BY <1>3
<1>7. Straight(Append(carry, h))
  <2> DEFINE t == Append(carry, h)
  <2>1. t[1] = h /\ t[Len(t)] = h
    BY <1>3
  <2>2. Length(t) = 0
    BY <1>3, <1>5, <1>6, LengthGrows
  <2> QED
    BY <1>5, <2>1, <2>2 DEF Straight
<1>8. InTime(0, h)
  BY <1>5, TripAssumption, StartsInTime
<1> HIDE DEF told
<1>9. /\ phase' \in {"carry", "safe"} /\ steps' \in Nat /\ record' \in Record
      /\ phase' = "safe" => carry' = <<>>
      /\ BackInv'
  BY <1>1, <1>2, <1>3, <1>4, <1>5, <1>6, <1>7, <1>8, CarryKeepsTrack
<1>10. RangeInv'
  BY <1>1, <1>9 DEF RangeInv
<1>11. ChaseInv'
  BY <1>9 DEF ChaseInv
<1> QED
  BY <1>9, <1>10, <1>11

\* A step of the way back.
LEMMA CarryOnKeeps ==
  TripInv /\ CarryOn => RangeInv' /\ ChaseInv' /\ BackInv'
<1> SUFFICES ASSUME TripInv, CarryOn
             PROVE  RangeInv' /\ ChaseInv' /\ BackInv'
  OBVIOUS
<1>1. /\ phase = "carry" /\ Carry(home, civ, offset, record, steps)
      /\ UNCHANGED <<walked, way, approach>>
  BY DEF CarryOn
<1>2. /\ home \in 0 .. Diameter /\ offset \in Int \X Int
      /\ civ = <<home + offset[1], offset[2]>> /\ gap \in Nat
      /\ Square(offset) <= gap * gap /\ gap <= Attachable
  BY <1>1, TripAssumption DEF TripInv, PairInv, TripAssumption
<1>3. /\ record \in [covered : Nat, converged : Nat, carried : Nat]
      /\ steps \in Nat /\ walked \in BOOLEAN /\ way \in Nat /\ approach = <<>>
  BY <1>1 DEF TripInv, RangeInv
<1>4. /\ carry \in Seq(Nat) /\ Len(carry) = steps /\ steps < MaxCarry
      /\ Straight(Append(carry, home)) /\ InTime(steps, home)
  BY <1>1 DEF TripInv, BackInv
<1>5. /\ phase' \in {"carry", "safe"} /\ steps' \in Nat
      /\ record' \in [covered : Nat, converged : Nat, carried : Nat]
      /\ phase' = "safe" => carry' = <<>>
      /\ BackInv'
  BY <1>1, <1>2, <1>3, <1>4, CarryKeepsTrack
<1>6. RangeInv'
  BY <1>1, <1>3, <1>5 DEF RangeInv
<1>7. ChaseInv'
  BY <1>5 DEF ChaseInv
<1> QED
  BY <1>5, <1>6, <1>7

\* The approach does not touch the way back.
LEMMA ApproachKeepsBack ==
  phase' = "approach" => BackInv'
  BY DEF BackInv

LEMMA TripStep == TripInv /\ [TripNext]_vars => TripInv'
<1> SUFFICES ASSUME TripInv, [TripNext]_vars
             PROVE  RangeInv' /\ ChaseInv' /\ BackInv'
  BY PairStep DEF TripInv
<1>1. CASE UNCHANGED vars
  BY <1>1 DEF vars, TripInv, RangeInv, ChaseInv, BackInv, Slack, Reach, Even,
             Straight, Length, InTime, FullSteps, LastSteps
<1>2. CASE CivilianWalks
  <2>1. ChaseInv'
    BY <1>2, WalkKeepsChase DEF TripInv
  <2>2. /\ phase = "approach" /\ walked' = TRUE
        /\ UNCHANGED <<phase, way, approach, carry, steps, record>>
    BY <1>2 DEF CivilianWalks
  <2>3. RangeInv'
    BY <2>2 DEF TripInv, RangeInv
  <2> QED
    BY <2>1, <2>2, <2>3, ApproachKeepsBack
<1>3. CASE ConvergeStep
  <2>1. RangeInv' /\ ChaseInv'
    BY <1>3, StepKeepsChase DEF TripInv
  <2>2. phase' = "approach"
    BY <1>3 DEF ConvergeStep
  <2> QED
    BY <2>1, <2>2, ApproachKeepsBack
<1>4. CASE Attach
  BY <1>4, AttachKeeps
<1>5. CASE CarryOn
  BY <1>5, CarryOnKeeps
<1> QED
  BY <1>1, <1>2, <1>3, <1>4, <1>5 DEF TripNext

LEMMA TripAlways == TripSpec => []TripInv
<1>1. TripInit => TripInv
  <2>1. TripInit => BackInv
    BY DEF TripInit, BackInv
  <2> QED
    BY <2>1, PairInit, ChaseInit DEF TripInv
<1> QED
  BY <1>1, TripStep, PTL DEF TripSpec

\* The variables keep their types and the tracks their caps: nobody leaves the
\* area, and no distance is negative.
THEOREM TripStaysTyped == TripSpec => []TripTypeOK
<1>1. TripInv => TripTypeOK
  <2> SUFFICES ASSUME TripInv
               PROVE  TripTypeOK
    OBVIOUS
  <2>1. MaxApproach \in Nat /\ MaxCarry \in Nat
    BY TripAssumption DEF TripAssumption
  <2>2. /\ phase \in {"approach", "carry", "safe"}
        /\ gap \in 0 .. Diameter /\ home \in 0 .. Diameter
        /\ civ \in Int \X Int /\ offset \in Int \X Int
    BY DEF TripInv, PairInv
  <2>3. /\ walked \in BOOLEAN /\ steps \in Nat /\ way \in Nat
        /\ record \in [covered : Nat, converged : Nat, carried : Nat]
    BY DEF TripInv, RangeInv
  <2>4. approach \in Seq(Nat) /\ Len(approach) <= MaxApproach
    <3>1. CASE phase = "approach"
      <4>1. /\ approach \in Seq(Nat)
            /\ Len(approach) = IF steps < MaxApproach THEN steps ELSE MaxApproach
        BY <3>1 DEF TripInv, ChaseInv
      <4> QED
        BY <2>1, <2>3, <4>1
    <3>2. CASE phase # "approach"
      <4>1. approach = <<>>
        BY <3>2 DEF TripInv, RangeInv
      <4> QED
        BY <2>1, <4>1
    <3> QED
      BY <3>1, <3>2
  <2>5. carry \in Seq(Nat) /\ Len(carry) <= MaxCarry
    <3>1. CASE phase = "carry"
      <4>1. carry \in Seq(Nat) /\ Len(carry) = steps /\ steps < MaxCarry
        BY <3>1 DEF TripInv, BackInv
      <4> QED
        BY <2>1, <2>3, <4>1
    <3>2. CASE phase # "carry"
      <4>1. carry = <<>>
        BY <3>2 DEF TripInv, RangeInv
      <4> QED
        BY <2>1, <4>1
    <3> QED
      BY <3>1, <3>2
  <2> QED
    BY <2>2, <2>3, <2>4, <2>5 DEF TripTypeOK
<1> QED
  BY <1>1, TripAlways, PTL

\* What an event says of the ways of its rescuer: that of an approach from within
\* reach in full, however the civilian flees; that of any longer chase from the
\* latest positions, as many as the cap allows; and the way back at twice its
\* length, as its cap is never reached.
THEOREM TracksAlwaysTellTheWay == TripSpec => []TracksTellTheWay
<1>1. TripInv => TracksTellTheWay
  <2> SUFFICES ASSUME TripInv
               PROVE  TracksTellTheWay
    OBVIOUS
  <2>1. /\ gap \in Nat /\ home \in Nat /\ steps \in Nat /\ way \in Nat
        /\ MaxApproach \in Nat \ {0} /\ MaxCarry \in Nat /\ ApproachStep \in Nat
    BY TripAssumption DEF TripInv, PairInv, RangeInv, TripAssumption
  <2>2. CASE phase = "approach"
    <3> DEFINE t == Note(approach, way, MaxApproach)
    <3>1. /\ way = steps * ApproachStep /\ approach \in Seq(Nat)
          /\ Len(approach) = IF steps < MaxApproach THEN steps ELSE MaxApproach
          /\ Even(Append(approach, way))
          /\ record.covered <= Reach => steps < MaxApproach
      BY <2>2 DEF TripInv, ChaseInv
    <3>2. t \in Seq(Nat) /\ t # <<>> /\ Even(t)
      <4>1. t \in Seq(Nat)
        BY <2>1, <3>1, NoteIs
      <4> QED
        BY <2>1, <3>1, <4>1, EvenNote
    <3>3. Len(t) = IF Len(approach) < MaxApproach THEN Len(approach) + 1 ELSE MaxApproach
      BY <2>1, <3>1, NoteIs
    <3> HIDE DEF t
    <3>4. Len(t) = IF steps < MaxApproach THEN steps + 1 ELSE MaxApproach
      <4>1. CASE steps < MaxApproach
        BY <2>1, <3>1, <3>3, <4>1
      <4>2. CASE ~(steps < MaxApproach)
        BY <2>1, <3>1, <3>3, <4>2
      <4> QED
        BY <4>1, <4>2
    <3>5. Len(t) = Min({steps + 1, MaxApproach})
      <4>1. steps + 1 \in Int /\ MaxApproach \in Int
        BY <2>1
      <4>2. Min({steps + 1, MaxApproach}) =
              IF steps + 1 <= MaxApproach THEN steps + 1 ELSE MaxApproach
        BY <4>1, MinIs
      <4> QED
        BY <2>1, <3>4, <4>2
    <3>6. Length(t) = (Len(t) - 1) * ApproachStep
      BY <3>2, TripAssumption, EvenLength
    <3>7. record.covered <= Reach => ConvergedDistance(t) = way + gap
      <4> SUFFICES ASSUME record.covered <= Reach
                   PROVE  ConvergedDistance(t) = way + gap
        OBVIOUS
      <4>1. Len(t) - 1 = steps
        BY <2>1, <3>1, <3>4
      <4> QED
        BY <3>1, <3>6, <4>1 DEF ConvergedDistance
    <3> QED
      BY <2>2, <3>5, <3>6, <3>7 DEF TracksTellTheWay, t
  <2>3. CASE phase = "carry"
    <3>1. /\ carry \in Seq(Nat) /\ Len(carry) = steps /\ steps < MaxCarry
          /\ Straight(Append(carry, home))
      BY <2>3 DEF TripInv, BackInv
    <3>2. /\ Note(carry, home, MaxCarry) = Append(carry, home)
          /\ Len(Note(carry, home, MaxCarry)) = steps + 1
      BY <2>1, <3>1, NoteKeeps
    <3> DEFINE t == Append(carry, home)
    <3>3. t \in Seq(Nat) /\ Len(t) = steps + 1 /\ t[Len(t)] = home
      BY <2>1, <3>1
    <3> HIDE DEF t
    <3>4. t[1] \in Nat
      <4>1. 1 \in 1 .. Len(t)
        BY <2>1, <3>3
      <4> QED
        BY <3>3, <4>1, ElementOfSeq
    <3>5. t[1] >= home /\ Length(t) = t[1] - home
      BY <3>1, <3>3 DEF Straight, t
    <3>6. Distance(t[1], home) = t[1] - home
      BY <2>1, <3>4, <3>5, DistanceIs
    <3>7. CarriedDistance(t, home) = 2 * Distance(t[1], home)
      BY <2>1, <3>4, <3>5, <3>6 DEF CarriedDistance
    <3> QED
      BY <2>3, <3>2, <3>7 DEF TracksTellTheWay, t
  <2> QED
    BY <2>2, <2>3 DEF TracksTellTheWay
<1> QED
  BY <1>1, TripAlways, PTL
=============================================================================
