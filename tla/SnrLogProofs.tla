---------------------------- MODULE SnrLogProofs ----------------------------
(***************************************************************************)
(* Proofs about WeatherHistory and SnrLog: for any values of the weather,  *)
(* any nodes and any periods, however long the run, however often the      *)
(* weather changes and however many frames are heard.                      *)
(*                                                                         *)
(* The averages and the counters are sums (FiniteSums).  That the average  *)
(* of a window is true is proved from the first second that would make it  *)
(* false.                                                                  *)
(***************************************************************************)
EXTENDS SnrLog, FiniteSums, SequenceTheorems, TLAPS

-----------------------------------------------------------------------------
(* The history is current.                                                 *)

\* A value of the condition is a number.
LEMMA IntensityIsInt == \A v \in Intensities : v \in Int /\ v \in Nat
  BY HistoryAssumption

\* The history has a last entry, the current one, and an entry that was not
\* redated is not behind a later one.
HistoryInv ==
  /\ now \in Nat
  /\ condition \in Intensities
  /\ history \in Seq(Entry) /\ Len(history) # 0
  /\ HistoryIsCurrent

\* The scenarios have set the condition.
LEMMA HistoryInit == WeatherInit => HistoryInv
<1> SUFFICES ASSUME WeatherInit PROVE HistoryInv
  OBVIOUS
<1>1. [startTime |-> 0, intensity |-> condition] \in Entry
  BY DEF WeatherInit, Entry
<1>2. history \in Seq(Entry) /\ Len(history) = 1
        /\ history[1] = [startTime |-> 0, intensity |-> condition]
  BY <1>1 DEF WeatherInit
<1> QED
  BY <1>2 DEF WeatherInit, HistoryInv, HistoryIsCurrent, Sorted

\* Pushing an entry of now keeps a sorted history sorted, if its last entry was
\* not of the future.
LEMMA PushKeepsSorted ==
  ASSUME NEW h \in Seq(Entry), Len(h) # 0, NEW t \in Nat, NEW v \in Intensities,
         Sorted(h), h[Len(h)].startTime <= t
  PROVE  Sorted(Push(h, t, v))
<1> DEFINE e == [startTime |-> t, intensity |-> v]
           g == Append(h, e)
<1>1. Len(g) = Len(h) + 1 /\ Len(h) \in Nat /\ g[Len(h) + 1] = e
  BY DEF Entry
<1>2. \A i \in 1 .. Len(h) : g[i] = h[i] /\ h[i].startTime \in Int
  <2> TAKE i \in 1 .. Len(h)
  <2>1. h[i] \in Entry
    BY ElementOfSeq
  <2> QED
    BY <2>1 DEF Entry
<1>3. \A i \in 1 .. Len(h) : h[i].startTime <= t
  <2> TAKE i \in 1 .. Len(h)
  <2>1. CASE i = Len(h)
    BY <2>1
  <2>2. CASE i < Len(h)
    <3>1. h[i].startTime <= h[Len(h)].startTime
      BY <1>1, <2>2 DEF Sorted
    <3>2. Len(h) \in 1 .. Len(h)
      BY <1>1
    <3> QED
      BY <1>2, <3>1, <3>2
  <2> QED
    BY <1>1, <2>1, <2>2
<1> HIDE DEF g
<1>4. \A i, j \in 1 .. Len(g) : i < j => g[i].startTime <= g[j].startTime
  <2> SUFFICES ASSUME NEW i \in 1 .. Len(g), NEW j \in 1 .. Len(g), i < j
               PROVE  g[i].startTime <= g[j].startTime
    OBVIOUS
  <2>1. i \in 1 .. Len(h)
    BY <1>1
  <2>2. CASE j = Len(h) + 1
    BY <1>1, <1>2, <1>3, <2>1, <2>2
  <2>3. CASE j \in 1 .. Len(h)
    BY <1>2, <2>1, <2>3 DEF Sorted
  <2> QED
    BY <1>1, <2>2, <2>3
<1> QED
  BY <1>4 DEF Sorted, Push, g

\* What is pushed is the last entry.
LEMMA PushIsLast ==
  ASSUME NEW h \in Seq(Entry), NEW t \in Nat, NEW v \in Intensities
  PROVE  /\ Push(h, t, v) \in Seq(Entry) /\ Len(Push(h, t, v)) # 0
         /\ Push(h, t, v)[Len(Push(h, t, v))] = [startTime |-> t, intensity |-> v]
<1>1. [startTime |-> t, intensity |-> v] \in Entry
  BY DEF Entry
<1> QED
  BY <1>1 DEF Push

\* Redating its last entry leaves a history.
LEMMA ClosedIsHistory ==
  ASSUME NEW h \in Seq(Entry), Len(h) # 0, NEW t \in Nat
  PROVE  Closed(h, t) \in Seq(Entry) /\ Len(Closed(h, t)) = Len(h)
<1>1. Len(h) \in 1 .. Len(h)
  OBVIOUS
<1>2. h[Len(h)] \in Entry
  BY <1>1, ElementOfSeq
<1> DEFINE e == [h[Len(h)] EXCEPT !.startTime = t - @]
<1>3. e \in Entry
  BY <1>2 DEF Entry
<1>4. Closed(h, t) = [h EXCEPT ![Len(h)] = e]
  BY DEF Closed
<1> HIDE DEF e
<1> QED
  BY <1>1, <1>3, <1>4, ExceptSeq

\* Every step keeps the invariant.
LEMMA HistoryStep == HistoryInv /\ [WeatherNext]_weatherVars => HistoryInv'
<1> SUFFICES ASSUME HistoryInv, [WeatherNext]_weatherVars
             PROVE  HistoryInv'
  OBVIOUS
<1>1. CASE UNCHANGED weatherVars
  BY <1>1 DEF weatherVars, HistoryInv, HistoryIsCurrent, Sorted
<1>2. ASSUME NEW v \in Intensities, SetWeatherCondition(v)
      PROVE  HistoryInv'
  <2>1. /\ condition' = v /\ history' = Push(history, now, v)
        /\ UNCHANGED <<now, redated>>
    BY <1>2 DEF SetWeatherCondition
  <2>2. history \in Seq(Entry) /\ Len(history) # 0 /\ now \in Nat
          /\ history[Len(history)].startTime <= now
    BY DEF HistoryInv, HistoryIsCurrent
  <2>3. /\ history' \in Seq(Entry) /\ Len(history') # 0
        /\ history'[Len(history')] = [startTime |-> now, intensity |-> v]
    BY <2>1, <2>2, PushIsLast
  <2>4. ~redated => Sorted(history')
    BY <2>1, <2>2, PushKeepsSorted DEF HistoryInv, HistoryIsCurrent
  <2> QED
    BY <2>1, <2>2, <2>3, <2>4 DEF HistoryInv, HistoryIsCurrent, Sorted
<1>3. ASSUME NEW v \in Intensities, UpdateWeatherCondition(v)
      PROVE  HistoryInv'
  <2>1. /\ condition' = v /\ history' = Push(Closed(history, now), now, v)
        /\ UNCHANGED now /\ redated' = TRUE
    BY <1>3 DEF UpdateWeatherCondition
  <2>2. history \in Seq(Entry) /\ Len(history) # 0 /\ now \in Nat
    BY DEF HistoryInv
  <2>3. Closed(history, now) \in Seq(Entry)
    BY <2>2, ClosedIsHistory
  <2>4. /\ history' \in Seq(Entry) /\ Len(history') # 0
        /\ history'[Len(history')] = [startTime |-> now, intensity |-> v]
    BY <2>1, <2>2, <2>3, PushIsLast
  <2> QED
    BY <2>1, <2>2, <2>4 DEF HistoryInv, HistoryIsCurrent
<1>4. CASE Tick
  <2>1. now' = now + 1 /\ UNCHANGED <<condition, history, redated>>
    BY <1>4 DEF Tick
  <2> QED
    BY <2>1 DEF HistoryInv, HistoryIsCurrent, Sorted
<1> QED
  BY <1>1, <1>2, <1>3, <1>4 DEF WeatherNext

\* The value that mobility, links and batteries read is the one the history
\* says holds, and the history is sorted as GetAverageWeatherConditions
\* assumes, until a planned change redates an entry.
THEOREM HistoryStaysCurrent == WeatherSpec => []HistoryIsCurrent
<1>1. HistoryInv => HistoryIsCurrent
  BY DEF HistoryInv
<1> QED
  BY <1>1, HistoryInit, HistoryStep, PTL DEF WeatherSpec

-----------------------------------------------------------------------------
(* The averages are true.                                                  *)

\* The larger of two numbers.
LEMMA MaxOfTwo ==
  ASSUME NEW a \in Int, NEW b \in Int
  PROVE  Max({a, b}) = IF a >= b THEN a ELSE b
<1>1. \E x \in {a, b} : \A y \in {a, b} : x >= y
  <2>1. CASE a >= b
    BY <2>1
  <2>2. CASE b >= a
    BY <2>2
  <2> QED
    BY <2>1, <2>2
<1>2. Max({a, b}) \in {a, b} /\ \A y \in {a, b} : Max({a, b}) >= y
  BY <1>1 DEF Max
<1> QED
  BY <1>2

\* The smaller of two numbers.
LEMMA MinOfTwo ==
  ASSUME NEW a \in Int, NEW b \in Int
  PROVE  Min({a, b}) = IF a <= b THEN a ELSE b
<1>1. \E x \in {a, b} : \A y \in {a, b} : x <= y
  <2>1. CASE a <= b
    BY <2>1
  <2>2. CASE b <= a
    BY <2>2
  <2> QED
    BY <2>1, <2>2
<1>2. Min({a, b}) \in {a, b} /\ \A y \in {a, b} : Min({a, b}) <= y
  BY <1>1 DEF Min
<1> QED
  BY <1>2

\* Entry i was in force from its date to that of the next one, or until now.
InForce(i) ==
  \A t \in 1 .. now :
    history[i].startTime < t /\ t <= SegmentEnd(history, i, now)
      => sky[t] = history[i].intensity

\* What the history says of the past, unless an entry was redated.
SkyInv ==
  /\ sky \in [1 .. now -> Intensities]
  /\ ~redated => /\ history[1].startTime = 0
                 /\ \A i \in 1 .. Len(history) : InForce(i)

\* The dates of a history that was not redated.
LEMMA Dates ==
  ASSUME HistoryInv, SkyInv, ~redated
  PROVE  /\ Len(history) \in Nat \ {0}
         /\ \A i \in 1 .. Len(history) :
              /\ history[i] \in Entry
              /\ history[i].startTime \in 0 .. now
              /\ SegmentEnd(history, i, now) \in history[i].startTime .. now
         /\ \A i, j \in 1 .. Len(history) : i < j =>
              /\ history[i].startTime <= history[j].startTime
              /\ SegmentEnd(history, i, now) <= history[j].startTime
<1>1. Len(history) \in Nat \ {0}
  BY DEF HistoryInv
<1>2. \A i \in 1 .. Len(history) : history[i] \in Entry /\ history[i].startTime \in Int
  <2> TAKE i \in 1 .. Len(history)
  <2>1. history[i] \in Entry
    BY ElementOfSeq DEF HistoryInv
  <2> QED
    BY <2>1 DEF Entry
<1>3. \A i, j \in 1 .. Len(history) : i <= j => history[i].startTime <= history[j].startTime
  BY <1>1, <1>2 DEF HistoryInv, HistoryIsCurrent, Sorted
<1>4. history[1].startTime = 0 /\ history[Len(history)].startTime <= now /\ now \in Nat
  BY DEF HistoryInv, HistoryIsCurrent, SkyInv
<1>5. ASSUME NEW i \in 1 .. Len(history) PROVE history[i].startTime \in 0 .. now
  <2>1. 1 \in 1 .. Len(history) /\ Len(history) \in 1 .. Len(history) /\ 1 <= i /\ i <= Len(history)
    BY <1>1
  <2> QED
    BY <1>2, <1>3, <1>4, <2>1
<1>6. ASSUME NEW i \in 1 .. Len(history)
      PROVE  SegmentEnd(history, i, now) \in history[i].startTime .. now
  <2>1. CASE i < Len(history)
    <3>1. i + 1 \in 1 .. Len(history)
      BY <1>1, <2>1
    <3> QED
      BY <1>2, <1>3, <1>5, <2>1, <3>1 DEF SegmentEnd
  <2>2. CASE i = Len(history)
    BY <1>4, <1>5, <2>2 DEF SegmentEnd
  <2> QED
    BY <1>1, <2>1, <2>2
<1>7. ASSUME NEW i \in 1 .. Len(history), NEW j \in 1 .. Len(history), i < j
      PROVE  SegmentEnd(history, i, now) <= history[j].startTime
  <2>1. i + 1 \in 1 .. Len(history) /\ i + 1 <= j /\ i < Len(history)
    BY <1>1, <1>7
  <2> QED
    BY <1>3, <2>1 DEF SegmentEnd
<1> QED
  BY <1>1, <1>2, <1>3, <1>5, <1>6, <1>7

\* The overlap of the segment from b to f with a window, without sets.
Within(b, f, from, to) ==
  LET a == IF b >= from THEN b ELSE from
      e == IF f <= to THEN f ELSE to
  IN IF e >= a THEN e - a ELSE 0

LEMMA OverlapIs ==
  ASSUME HistoryInv, SkyInv, ~redated, NEW from \in Int, NEW to \in Int,
         NEW i \in 1 .. Len(history)
  PROVE  Overlap(history, i, now, from, to)
           = Within(history[i].startTime, SegmentEnd(history, i, now), from, to)
<1> DEFINE b == history[i].startTime
           f == SegmentEnd(history, i, now)
           a == IF b >= from THEN b ELSE from
           e == IF f <= to THEN f ELSE to
           reached == \A j \in 1 .. i - 1 : history[j].startTime <= to
<1>1. b \in Int /\ f \in Int
  <2>1. b \in 0 .. now /\ f \in b .. now
    BY Dates
  <2> HIDE DEF b, f
  <2> QED
    BY <2>1 DEF HistoryInv
<1>2. Max({b, from}) = a /\ Min({f, to}) = e
  <2> HIDE DEF b, f
  <2> QED
    BY <1>1, MaxOfTwo, MinOfTwo DEF a, e
<1>3. a \in Int /\ e \in Int
  <2> HIDE DEF b, f
  <2> QED
    BY <1>1
<1>4. Overlap(history, i, now, from, to) = IF reached THEN Max({e - a, 0}) ELSE 0
  BY <1>2 DEF Overlap
<1>5. Max({e - a, 0}) = IF e >= a THEN e - a ELSE 0
  <2> HIDE DEF a, e
  <2>1. e - a \in Int
    BY <1>3
  <2>2. Max({e - a, 0}) = IF e - a >= 0 THEN e - a ELSE 0
    BY <2>1, MaxOfTwo
  <2> QED
    BY <1>3, <2>2
<1>6. ~reached => e <= a
  <2> SUFFICES ASSUME NEW j \in 1 .. i - 1, ~(history[j].startTime <= to)
               PROVE  e <= a
    OBVIOUS
  <2>1. j \in 1 .. Len(history) /\ j < i
    BY Dates
  <2>2. history[j].startTime <= b /\ history[j].startTime \in Int
    <3>1. history[j].startTime <= b /\ history[j].startTime \in 0 .. now
      BY <2>1, Dates
    <3> QED
      BY <3>1
  <2> HIDE DEF b, f
  <2>3. to <= b
    BY <1>1, <2>2
  <2> QED
    BY <1>1, <2>3
<1>7. Within(b, f, from, to) = IF e >= a THEN e - a ELSE 0
  BY DEF Within
<1> HIDE DEF a, e, reached, b, f
<1>8. Overlap(history, i, now, from, to) = IF e >= a THEN e - a ELSE 0
  BY <1>3, <1>4, <1>5, <1>6
<1> QED
  BY <1>7, <1>8 DEF b, f

\* One second more of the window adds to the segment that it falls in.
LEMMA WithinMore ==
  ASSUME NEW from \in Int, NEW n \in Int, NEW b \in Int, NEW f \in Int,
         from <= n, b <= n, n < f
  PROVE  Within(b, f, from, n + 1) = Within(b, f, from, n) + 1
  BY DEF Within

\* A second was in exactly one segment, which gains it when the window does.
LEMMA OneSecondMore ==
  ASSUME HistoryInv, SkyInv, ~redated, NEW from \in 0 .. now, NEW n \in from .. now - 1
  PROVE  \E i \in 1 .. Len(history) :
           /\ Overlap(history, i, now, from, n + 1) = Overlap(history, i, now, from, n) + 1
           /\ sky[n + 1] = history[i].intensity
           /\ \A j \in 1 .. Len(history) \ {i} :
                Overlap(history, j, now, from, n + 1) = Overlap(history, j, now, from, n)
<1> DEFINE L == Len(history)
           Later == {i \in 1 .. L : history[i].startTime > n} \cup {L + 1}
<1>0. L \in Nat \ {0} /\ now \in Nat /\ n \in Nat /\ from \in Nat /\ from <= n /\ n < now
  BY Dates DEF HistoryInv
<1>1. PICK k \in Later : \A m \in Later : k <= m
  <2>1. Later \subseteq Nat /\ Later # {}
    BY <1>0
  <2> HIDE DEF Later
  <2> QED
    BY <2>1, LeastNumber
<1> DEFINE i == k - 1
<1>2. i \in 1 .. L
  <2>1. k # 1
    <3>1. history[1].startTime = 0 /\ 1 # L + 1
      BY <1>0 DEF SkyInv
    <3> QED
      BY <1>0, <3>1
  <2> QED
    BY <1>0, <1>1, <2>1
<1>3. history[i].startTime <= n
  <2>1. i \notin Later
    BY <1>0, <1>1, <1>2
  <2>2. history[i].startTime \in 0 .. now
    BY <1>2, Dates
  <2> HIDE DEF i
  <2> QED
    BY <1>0, <1>2, <2>1, <2>2
<1>4. SegmentEnd(history, i, now) >= n + 1 /\ SegmentEnd(history, i, now) \in Int
  <2>1. CASE k = L + 1
    BY <1>0, <2>1 DEF SegmentEnd
  <2>2. CASE k # L + 1
    <3>1. k \in 1 .. L /\ history[k].startTime > n /\ history[k].startTime \in 0 .. now /\ i < L
      BY <1>0, <1>1, <2>2, Dates
    <3> QED
      BY <1>0, <3>1 DEF SegmentEnd
  <2> QED
    BY <2>1, <2>2
<1>5. sky[n + 1] = history[i].intensity
  <2>1. n + 1 \in 1 .. now /\ history[i].startTime < n + 1 /\ history[i].startTime \in Int
    BY <1>0, <1>2, <1>3, Dates
  <2> HIDE DEF i
  <2> QED
    BY <1>2, <1>4, <2>1 DEF SkyInv, InForce
<1> HIDE DEF i
<1> DEFINE b(j) == history[j].startTime
           f(j) == SegmentEnd(history, j, now)
<1>6. ASSUME NEW j \in 1 .. L
      PROVE  /\ b(j) \in Int /\ f(j) \in Int /\ b(j) <= f(j)
             /\ Overlap(history, j, now, from, n + 1) = Within(b(j), f(j), from, n + 1)
             /\ Overlap(history, j, now, from, n) = Within(b(j), f(j), from, n)
  <2>1. b(j) \in 0 .. now /\ f(j) \in b(j) .. now
    BY Dates
  <2>2. n + 1 \in Int /\ n \in Int /\ from \in Int
    BY <1>0
  <2>3. /\ Overlap(history, j, now, from, n + 1) = Within(b(j), f(j), from, n + 1)
        /\ Overlap(history, j, now, from, n) = Within(b(j), f(j), from, n)
    BY <2>2, OverlapIs
  <2> HIDE DEF b, f
  <2> QED
    BY <1>0, <2>1, <2>3
<1>7. \A j \in 1 .. L : /\ j < i => f(j) <= b(i)
                        /\ i < j => f(i) <= b(j)
  BY <1>2, Dates
<1>8. b(i) <= n /\ n < f(i)
  BY <1>0, <1>3, <1>4
<1> HIDE DEF b, f, L
<1>9. Overlap(history, i, now, from, n + 1) = Overlap(history, i, now, from, n) + 1
  <2>1. Within(b(i), f(i), from, n + 1) = Within(b(i), f(i), from, n) + 1
    <3>1. /\ from \in Int /\ n \in Int /\ b(i) \in Int /\ f(i) \in Int
          /\ from <= n /\ b(i) <= f(i)
      BY <1>0, <1>2, <1>6
    <3> QED
      BY <1>8, <3>1, WithinMore
  <2> QED
    BY <1>2, <1>6, <2>1
<1>10. ASSUME NEW j \in 1 .. L, j # i
      PROVE  Overlap(history, j, now, from, n + 1) = Overlap(history, j, now, from, n)
  <2>1. b(j) \in Int /\ f(j) \in Int /\ b(j) <= f(j) /\ b(i) \in Int /\ f(i) \in Int
    BY <1>2, <1>6
  <2>2. f(j) <= n \/ n < b(j)
    <3>1. j < i \/ i < j
      BY <1>0, <1>2, <1>10
    <3>2. f(j) <= b(i) \/ f(i) <= b(j)
      BY <1>7, <3>1
    <3> QED
      BY <1>0, <1>8, <2>1, <3>2
  <2>3. Within(b(j), f(j), from, n + 1) = Within(b(j), f(j), from, n)
    <3>1. /\ from \in Int /\ n \in Int /\ b(j) \in Int /\ f(j) \in Int
          /\ from <= n /\ b(j) <= f(j)
      BY <1>0, <2>1
    <3> QED
      BY <2>2, <3>1 DEF Within
  <2> QED
    BY <1>6, <2>3
<1> QED
  BY <1>2, <1>5, <1>9, <1>10 DEF L

\* The averages are sums over the entries.
LEMMA AverageSums ==
  ASSUME NEW from, NEW to
  PROVE  /\ TotalDuration(history, now, from, to)
              = SumFunctionOnSet([i \in 1 .. Len(history) |-> Overlap(history, i, now, from, to)],
                                 1 .. Len(history))
         /\ WeightedSum(history, now, from, to)
              = SumFunctionOnSet([i \in 1 .. Len(history) |->
                                    history[i].intensity * Overlap(history, i, now, from, to)],
                                 1 .. Len(history))
BY DEF TotalDuration, WeightedSum, SumFunction, FoldFunction, SumFunctionOnSet

\* The window that ends at second n tells the truth.
Truth(from, n) ==
  /\ TotalDuration(history, now, from, n) = n - from
  /\ WeightedSum(history, now, from, n) = SumFunctionOnSet(sky, from + 1 .. n)

\* An empty window has nothing of any segment.
LEMMA EmptyWindow ==
  ASSUME HistoryInv, SkyInv, ~redated, NEW from \in 0 .. now
  PROVE  Truth(from, from)
<1> DEFINE S == 1 .. Len(history)
           d == [i \in S |-> Overlap(history, i, now, from, from)]
           w == [i \in S |-> history[i].intensity * Overlap(history, i, now, from, from)]
<1>0. Len(history) \in Nat /\ IsFiniteSet(S) /\ from \in Int
  BY Dates, FS_Interval DEF HistoryInv
<1>1. ASSUME NEW i \in S PROVE Overlap(history, i, now, from, from) = 0 /\ history[i].intensity \in Int
  <2>1. Overlap(history, i, now, from, from)
          = Within(history[i].startTime, SegmentEnd(history, i, now), from, from)
    BY <1>0, OverlapIs
  <2>2. history[i].startTime \in Int /\ SegmentEnd(history, i, now) \in Int
    <3>1. history[i].startTime \in 0 .. now /\ SegmentEnd(history, i, now) \in history[i].startTime .. now
      BY Dates
    <3> QED
      BY <3>1 DEF HistoryInv
  <2>3. \A b, f \in Int : Within(b, f, from, from) = 0
    BY <1>0 DEF Within
  <2>4. history[i].intensity \in Int
    <3>1. history[i].intensity \in Intensities
      BY Dates DEF Entry
    <3> QED
      BY <3>1, IntensityIsInt
  <2> QED
    BY <2>1, <2>2, <2>3, <2>4
<1>2. \A i \in S : d[i] = 0 /\ w[i] = 0
  BY <1>1
<1> HIDE DEF d, w, S
<1>3. SumFunctionOnSet(d, S) = 0 /\ SumFunctionOnSet(w, S) = 0
  BY <1>0, <1>2, SumOfZeros
<1>4. SumFunctionOnSet(sky, from + 1 .. from) = 0
  <2>1. from + 1 .. from = {}
    BY <1>0
  <2>2. SumFunctionOnSet(sky, {}) = 0
    BY SumPick, FS_EmptySet
  <2> QED
    BY <2>1, <2>2
<1>5. /\ TotalDuration(history, now, from, from) = SumFunctionOnSet(d, S)
      /\ WeightedSum(history, now, from, from) = SumFunctionOnSet(w, S)
  BY AverageSums DEF d, w, S
<1> QED
  BY <1>0, <1>3, <1>4, <1>5 DEF Truth

\* The seconds of a window are of the past.
LEMMA SkyOfWindow ==
  ASSUME HistoryInv, SkyInv, NEW from \in 0 .. now, NEW n \in from .. now
  PROVE  IsFiniteSet(from + 1 .. n) /\ \A t \in from + 1 .. n : sky[t] \in Int
<1>1. now \in Nat /\ from \in Int /\ n \in Int /\ from >= 0 /\ n <= now
  BY DEF HistoryInv
<1>2. IsFiniteSet(from + 1 .. n)
  BY <1>1, FS_Interval
<1>3. ASSUME NEW t \in from + 1 .. n PROVE sky[t] \in Int
  <2>1. t \in 1 .. now
    BY <1>1
  <2>2. sky[t] \in Intensities
    BY <2>1 DEF SkyInv
  <2> QED
    BY <2>2, IntensityIsInt
<1> QED
  BY <1>2, <1>3

\* A window that tells the truth does so with one second more.
LEMMA LongerWindow ==
  ASSUME HistoryInv, SkyInv, ~redated, NEW from \in 0 .. now, NEW n \in from .. now - 1,
         Truth(from, n)
  PROVE  Truth(from, n + 1)
<1> DEFINE S == 1 .. Len(history)
           d0 == [j \in S |-> Overlap(history, j, now, from, n)]
           d1 == [j \in S |-> Overlap(history, j, now, from, n + 1)]
           w0 == [j \in S |-> history[j].intensity * Overlap(history, j, now, from, n)]
           w1 == [j \in S |-> history[j].intensity * Overlap(history, j, now, from, n + 1)]
           past0 == from + 1 .. n
           past1 == from + 1 .. n + 1
<1>0. /\ Len(history) \in Nat /\ IsFiniteSet(S) /\ now \in Nat /\ from \in Nat /\ n \in Nat
      /\ from <= n /\ n < now
  <2>1. Len(history) \in Nat /\ now \in Nat /\ from \in Nat /\ n \in Nat /\ from <= n /\ n < now
    BY DEF HistoryInv
  <2>2. IsFiniteSet(S)
    BY <2>1, FS_Interval
  <2> QED
    BY <2>1, <2>2
<1>1. PICK i \in S :
        /\ Overlap(history, i, now, from, n + 1) = Overlap(history, i, now, from, n) + 1
        /\ sky[n + 1] = history[i].intensity
        /\ \A j \in S \ {i} :
             Overlap(history, j, now, from, n + 1) = Overlap(history, j, now, from, n)
  BY OneSecondMore
<1>2. ASSUME NEW j \in S
      PROVE  Overlap(history, j, now, from, n) \in Int /\ history[j].intensity \in Int
  <2>1. Overlap(history, j, now, from, n)
          = Within(history[j].startTime, SegmentEnd(history, j, now), from, n)
    BY <1>0, OverlapIs
  <2>2. history[j].startTime \in Int /\ SegmentEnd(history, j, now) \in Int
    <3>1. history[j].startTime \in 0 .. now /\ SegmentEnd(history, j, now) \in history[j].startTime .. now
      BY Dates
    <3> QED
      BY <3>1 DEF HistoryInv
  <2>3. \A b, f \in Int : Within(b, f, from, n) \in Int
    BY <1>0 DEF Within
  <2>4. history[j].intensity \in Int
    <3>1. history[j].intensity \in Intensities
      BY Dates DEF Entry
    <3> QED
      BY <3>1, IntensityIsInt
  <2> QED
    BY <2>1, <2>2, <2>3, <2>4
<1>3. SumFunctionOnSet(d1, S) = SumFunctionOnSet(d0, S) + 1
  <2>1. /\ d1[i] = d0[i] + 1 /\ 1 \in Int
        /\ \A j \in S : d0[j] \in Int
        /\ \A j \in S \ {i} : d1[j] = d0[j]
    BY <1>1, <1>2
  <2> HIDE DEF d0, d1, S
  <2> QED
    BY <1>0, <2>1, SumOneMore
<1>4. SumFunctionOnSet(w1, S) = SumFunctionOnSet(w0, S) + sky[n + 1] /\ sky[n + 1] \in Int
  <2>1. w1[i] = w0[i] + sky[n + 1] /\ sky[n + 1] \in Int
    <3>1. \A q, r \in Int : q * (r + 1) = q * r + q
      OBVIOUS
    <3>2. history[i].intensity * (Overlap(history, i, now, from, n) + 1)
            = history[i].intensity * Overlap(history, i, now, from, n) + history[i].intensity
      BY <1>2, <3>1
    <3> QED
      BY <1>1, <1>2, <3>2
  <2>2. \A j \in S : w0[j] \in Int
    <3>1. \A q, r \in Int : q * r \in Int
      OBVIOUS
    <3> QED
      BY <1>2, <3>1
  <2>3. \A j \in S \ {i} : w1[j] = w0[j]
    BY <1>1
  <2> HIDE DEF w0, w1, S
  <2> QED
    BY <1>0, <2>1, <2>2, <2>3, SumOneMore
<1>5. SumFunctionOnSet(sky, past1) = sky[n + 1] + SumFunctionOnSet(sky, past0)
  <2>1. IsFiniteSet(past1) /\ \A t \in past1 : sky[t] \in Int
    <3>1. n + 1 \in from .. now
      BY <1>0
    <3> QED
      BY <3>1, SkyOfWindow
  <2>2. n + 1 \in past1 /\ past0 = past1 \ {n + 1}
    BY <1>0
  <2> HIDE DEF past0, past1
  <2> QED
    BY <2>1, <2>2, SumTake
<1>6. SumFunctionOnSet(d0, S) = n - from /\ SumFunctionOnSet(w0, S) = SumFunctionOnSet(sky, past0)
  BY AverageSums DEF Truth
<1>7. SumFunctionOnSet(sky, past0) \in Int
  <2>1. IsFiniteSet(past0) /\ \A t \in past0 : sky[t] \in Int
    <3>1. n \in from .. now
      BY <1>0
    <3> QED
      BY <3>1, SkyOfWindow
  <2> HIDE DEF past0, past1
  <2> QED
    BY <2>1, SumTake
<1> HIDE DEF d0, d1, w0, w1, past0, past1
<1>8. SumFunctionOnSet(d1, S) = n + 1 - from
      /\ SumFunctionOnSet(w1, S) = SumFunctionOnSet(sky, past1)
  BY <1>0, <1>3, <1>4, <1>5, <1>6, <1>7
<1>9. /\ TotalDuration(history, now, from, n + 1) = SumFunctionOnSet(d1, S)
      /\ WeightedSum(history, now, from, n + 1) = SumFunctionOnSet(w1, S)
  BY AverageSums DEF d1, w1
<1> QED
  BY <1>8, <1>9 DEF Truth, past1

\* Every window tells the truth.
LEMMA AverageOfWindow ==
  ASSUME HistoryInv, SkyInv, ~redated, NEW from \in 0 .. now, NEW to \in from .. now
  PROVE  Truth(from, to)
<1> DEFINE T == {n \in from .. now : ~Truth(from, n)}
<1>1. ASSUME T # {} PROVE FALSE
  <2>1. PICK n \in T : \A m \in T : n <= m
    <3>1. T \subseteq Nat
      BY DEF HistoryInv
    <3> HIDE DEF T
    <3> QED
      BY <1>1, <3>1, LeastNumber
  <2>2. n # from
    BY EmptyWindow
  <2>3. n - 1 \in from .. now - 1 /\ n - 1 \in from .. now /\ ~(n <= n - 1) /\ n - 1 + 1 = n
    BY <2>2 DEF HistoryInv
  <2>4. Truth(from, n - 1)
    BY <2>1, <2>3
  <2>5. Truth(from, n - 1 + 1)
    BY <2>3, <2>4, LongerWindow
  <2> QED
    BY <2>3, <2>5
<1> QED
  BY <1>1

\* The window is empty when the run starts.
LEMMA SkyInit == WeatherInit => SkyInv
<1> SUFFICES ASSUME WeatherInit PROVE SkyInv
  OBVIOUS
<1>1. sky \in [1 .. now -> Intensities] /\ now = 0
  BY DEF WeatherInit
<1>2. history[1].startTime = 0
  BY DEF WeatherInit
<1>3. \A i \in 1 .. Len(history) : InForce(i)
  BY <1>1 DEF InForce
<1> QED
  BY <1>1, <1>2, <1>3 DEF SkyInv

\* Every step keeps what the history says of the past.
LEMMA SkyStep == HistoryInv /\ SkyInv /\ [WeatherNext]_weatherVars => SkyInv'
<1> SUFFICES ASSUME HistoryInv, SkyInv, [WeatherNext]_weatherVars
             PROVE  SkyInv'
  OBVIOUS
<1>0. now \in Nat /\ history \in Seq(Entry) /\ Len(history) \in Nat \ {0} /\ condition \in Intensities
  BY DEF HistoryInv
<1>1. CASE UNCHANGED weatherVars
  BY <1>1 DEF weatherVars, SkyInv, InForce
<1>2. ASSUME NEW v \in Intensities, SetWeatherCondition(v)
      PROVE  SkyInv'
  <2>1. /\ history' = Push(history, now, v) /\ now' = now /\ sky' = sky /\ redated' = redated
    BY <1>2 DEF SetWeatherCondition
  <2> DEFINE e == [startTime |-> now, intensity |-> v]
             L == Len(history)
  <2>2. /\ Len(history') = L + 1 /\ history'[L + 1] = e /\ e.startTime = now
        /\ \A i \in 1 .. L : history'[i] = history[i]
    <3>1. history' = Append(history, e)
      BY <2>1 DEF Push
    <3> QED
      BY <1>0, <3>1, AppendProperties DEF Entry
  <2>3. SUFFICES ASSUME ~redated
                 PROVE  history'[1].startTime = 0 /\ \A i \in 1 .. L + 1 : InForce(i)'
    BY <2>1, <2>2 DEF SkyInv
  <2>4. history'[1].startTime = 0
    BY <1>0, <2>2, <2>3 DEF SkyInv
  <2>5. ASSUME NEW i \in 1 .. L PROVE InForce(i)'
    <3>1. SUFFICES ASSUME NEW t \in 1 .. now, history'[i].startTime < t,
                          t <= SegmentEnd(history', i, now)
                   PROVE  sky[t] = history'[i].intensity
      BY <2>1 DEF InForce
    <3>2. SegmentEnd(history', i, now) = SegmentEnd(history, i, now)
      BY <1>0, <2>2 DEF SegmentEnd
    <3>3. InForce(i)
      BY <2>3 DEF SkyInv
    <3>4. history'[i] = history[i]
      BY <2>2
    <3> QED
      BY <3>1, <3>2, <3>3, <3>4 DEF InForce
  <2>6. ASSUME NEW i \in 1 .. L + 1, i = L + 1 PROVE InForce(i)'
    <3>1. \A t \in 1 .. now : ~(now < t)
      BY <1>0
    <3>2. history'[i].startTime = now
      BY <2>2, <2>6
    <3> QED
      BY <2>1, <3>1, <3>2 DEF InForce
  <2> QED
    BY <1>0, <2>4, <2>5, <2>6
<1>3. ASSUME NEW v \in Intensities, UpdateWeatherCondition(v)
      PROVE  SkyInv'
  BY <1>3 DEF UpdateWeatherCondition, SkyInv
<1>4. CASE Tick
  <2>1. now' = now + 1 /\ sky' = Append(sky, condition) /\ UNCHANGED <<condition, history, redated>>
    BY <1>4 DEF Tick
  <2>2. /\ sky' \in [1 .. now + 1 -> Intensities] /\ sky'[now + 1] = condition
        /\ \A t \in 1 .. now : sky'[t] = sky[t]
    <3>1. sky \in Seq(Intensities) /\ Len(sky) = now
      BY <1>0 DEF SkyInv
    <3>2. /\ sky' \in Seq(Intensities) /\ Len(sky') = now + 1 /\ sky'[now + 1] = condition
          /\ \A t \in 1 .. now : sky'[t] = sky[t]
      BY <1>0, <2>1, <3>1, AppendProperties
    <3>3. sky' \in [1 .. Len(sky') -> Intensities]
      BY <3>2
    <3> QED
      BY <3>2, <3>3
  <2>3. ASSUME ~redated, NEW i \in 1 .. Len(history) PROVE InForce(i)'
    <3>1. SUFFICES ASSUME NEW t \in 1 .. now + 1, history[i].startTime < t,
                          t <= SegmentEnd(history, i, now + 1)
                   PROVE  sky'[t] = history[i].intensity
      BY <2>1 DEF InForce
    <3>2. InForce(i)
      BY <2>3 DEF SkyInv
    <3>3. CASE i < Len(history)
      <4>1. SegmentEnd(history, i, now + 1) = SegmentEnd(history, i, now)
        BY <3>3 DEF SegmentEnd
      <4>2. SegmentEnd(history, i, now) \in history[i].startTime .. now
        BY <2>3, Dates
      <4>3. t \in 1 .. now
        BY <1>0, <3>1, <4>1, <4>2
      <4> QED
        BY <2>2, <3>1, <3>2, <4>1, <4>3 DEF InForce
    <3>4. CASE i = Len(history)
      <4>1. SegmentEnd(history, i, now) = now /\ history[i].intensity = condition
        BY <3>4 DEF SegmentEnd, HistoryInv, HistoryIsCurrent
      <4>2. CASE t \in 1 .. now
        BY <2>2, <3>1, <3>2, <4>1, <4>2 DEF InForce
      <4>3. CASE t = now + 1
        BY <2>2, <4>1, <4>3
      <4> QED
        BY <1>0, <4>2, <4>3
    <3> QED
      BY <1>0, <3>3, <3>4
  <2> QED
    BY <2>1, <2>2, <2>3 DEF SkyInv
<1> QED
  BY <1>1, <1>2, <1>3, <1>4 DEF WeatherNext

\* What the sum of a window says is what AverageIsTrue asks.
LEMMA WindowsAreTrue == HistoryInv /\ SkyInv => AverageIsTrue
<1> SUFFICES ASSUME HistoryInv, SkyInv, NEW from \in 0 .. now, NEW to \in 0 .. now,
                    from < to, ~redated
             PROVE  /\ Average(from, to).sum = SumFunctionOnSet(sky, from + 1 .. to)
                    /\ Average(from, to).over = to - from
  BY DEF AverageIsTrue
<1>1. to \in from .. now
  BY DEF HistoryInv
<1> QED
  BY <1>1, AverageOfWindow DEF Truth, Average

\* GetAverageWeatherConditions: the average over any window is that of the
\* weather that was in force, second by second, until an entry is redated.
THEOREM AveragesAreTrue == WeatherSpec => []AverageIsTrue
<1>1. WeatherInit => HistoryInv /\ SkyInv
  BY HistoryInit, SkyInit
<1>2. HistoryInv /\ SkyInv /\ [WeatherNext]_weatherVars => (HistoryInv /\ SkyInv)'
  BY HistoryStep, SkyStep
<1> QED
  BY <1>1, <1>2, WindowsAreTrue, PTL DEF WeatherSpec

-----------------------------------------------------------------------------
(* The rows.                                                               *)

\* What is counted of each pair, told in a row or not.
Counted == [p \in Pairs |-> pairStats[p].count + told[p]]
Waiting == [p \in Pairs |-> pairStats[p].count]
OfThe(r) == {p \in Pairs : p[1] = r}

\* Until the first rows the window reaches back to the start, and what waits
\* for a row came after the rows before.
WindowInv ==
  /\ logDue \in Nat \ {0}
  /\ lastLog = 0 => logDue = FirstLog
  /\ \A p \in Pairs : Reported(p) => pairStats[p].first \in lastLog .. now

SnrInv ==
  /\ SnrTypeOK
  /\ HistoryInv /\ SkyInv
  /\ WindowInv
  /\ EveryFrameCountedOnce

\* A receiver is in finitely many pairs.
LEMMA PairsAreFinite == IsFiniteSet(Pairs) /\ \A r : IsFiniteSet(OfThe(r)) /\ OfThe(r) \subseteq Pairs
<1>1. IsFiniteSet(Nodes) /\ IsFiniteSet(Senders)
  BY SnrAssumption, FS_AddElement DEF Senders
<1>2. IsFiniteSet(Nodes \X Senders)
  BY <1>1, FS_Product
<1>3. Pairs \subseteq Nodes \X Senders /\ \A r : OfThe(r) \subseteq Pairs
  BY DEF Pairs, OfThe
<1> QED
  BY <1>2, <1>3, FS_Subset

\* What is counted are numbers.
LEMMA CountsAreNumbers ==
  ASSUME SnrTypeOK
  PROVE  \A p \in Pairs :
           /\ p[1] \in Nodes
           /\ pairStats[p] \in Stats /\ pairStats[p].count \in Nat
           /\ told[p] \in Nat /\ Counted[p] \in Nat
           /\ Waiting[p] = pairStats[p].count /\ Counted[p] = Waiting[p] + told[p]
<1> TAKE p \in Pairs
<1>1. p[1] \in Nodes
  BY DEF Pairs
<1>2. pairStats[p] \in Stats /\ told[p] \in 0 .. MaxFrames
  BY DEF SnrTypeOK
<1> QED
  BY <1>1, <1>2 DEF Stats, Counted, Waiting

\* The sums per receiver, with the sets named.
LEMMA ReceiverSums ==
  /\ \A f, r : OfReceiver(f, r) = SumFunctionOnSet(f, OfThe(r))
  /\ EveryFrameCountedOnce <=>
       /\ \A r \in Nodes : nodeStats[r] = SumFunctionOnSet(Counted, OfThe(r))
       /\ done => \A r \in Nodes : overall[r] = nodeStats[r] - SumFunctionOnSet(told, OfThe(r))
       /\ \A p \in Pairs : p[2] \notin Listed => told[p] = 0
BY DEF OfReceiver, OfThe, EveryFrameCountedOnce, Counted

\* The run starts with nothing heard.
LEMMA SnrInitInv == SnrInit => SnrInv
<1> SUFFICES ASSUME SnrInit PROVE SnrInv
  OBVIOUS
<1>1. HistoryInv /\ SkyInv
  BY HistoryInit, SkyInit DEF SnrInit
<1>2. WeatherTypeOK
  <2>1. Len(history) = 1 /\ now = 0 /\ redated \in BOOLEAN
    BY DEF SnrInit, WeatherInit
  <2> QED
    BY <1>1, <2>1, HistoryAssumption DEF WeatherTypeOK, HistoryInv, SkyInv
<1>3. SnrTypeOK
  <2>1. now = 0 /\ 0 \in 0 .. MaxFrames
    BY SnrAssumption DEF SnrInit, WeatherInit
  <2>2. FirstLog <= Max({Period, FirstLog}) /\ Max({Period, FirstLog}) \in Int
    BY SnrAssumption, MaxOfTwo
  <2>3. NoStats \in Stats
    BY DEF NoStats, Stats
  <2>4. lastLog \in 0 .. now /\ logDue \in now .. now + Max({Period, FirstLog})
    <3>1. lastLog = 0 /\ logDue = FirstLog /\ FirstLog \in Nat
      BY SnrAssumption DEF SnrInit
    <3> DEFINE M == Max({Period, FirstLog})
    <3> HIDE DEF M
    <3>2. FirstLog <= M /\ M \in Int
      BY <2>2 DEF M
    <3>3. logDue \in now .. now + M
      BY <2>1, <3>1, <3>2
    <3> QED
      BY <2>1, <3>1, <3>3 DEF M
  <2>5. /\ nodeStats \in [Nodes -> 0 .. MaxFrames] /\ told \in [Pairs -> 0 .. MaxFrames]
        /\ overall \in [Nodes -> 0 .. MaxFrames] /\ pairStats \in [Pairs -> Stats]
        /\ done \in BOOLEAN
    BY <2>1, <2>3 DEF SnrInit
  <2> QED
    BY <1>2, <2>4, <2>5 DEF SnrTypeOK
<1>4. WindowInv
  BY SnrAssumption DEF SnrInit, WindowInv, Reported, NoStats
<1>5. EveryFrameCountedOnce
  <2>1. \A p \in Pairs : Counted[p] = 0
    BY DEF SnrInit, Counted, NoStats
  <2>2. ASSUME NEW r \in Nodes PROVE nodeStats[r] = SumFunctionOnSet(Counted, OfThe(r))
    <3>1. IsFiniteSet(OfThe(r)) /\ \A p \in OfThe(r) : Counted[p] = 0
      BY <2>1, PairsAreFinite
    <3>2. SumFunctionOnSet(Counted, OfThe(r)) = 0
      BY <3>1, SumOfZeros
    <3> QED
      BY <3>2 DEF SnrInit
  <2> QED
    BY <2>2, ReceiverSums DEF SnrInit
<1> QED
  BY <1>1, <1>3, <1>4, <1>5 DEF SnrInv

\* A frame received is counted once for its receiver and once for its pair.
LEMMA ReceiveCounts ==
  ASSUME SnrInv, NEW q \in Pairs, Receive(q)
  PROVE  EveryFrameCountedOnce'
<1>1. /\ nodeStats' = [nodeStats EXCEPT ![q[1]] = @ + 1]
      /\ pairStats' = [pairStats EXCEPT ![q] = Add(@)]
      /\ told' = told /\ done' = FALSE
  BY DEF Receive
<1>2. SnrTypeOK /\ EveryFrameCountedOnce
  BY DEF SnrInv
<1>3. \A p \in Pairs : Counted'[p] = IF p = q THEN Counted[p] + 1 ELSE Counted[p]
  <2>1. \A p \in Pairs : pairStats'[p].count = pairStats[p].count + IF p = q THEN 1 ELSE 0
    BY <1>1, <1>2, CountsAreNumbers DEF SnrTypeOK, Add
  <2> QED
    BY <1>1, <1>2, <2>1, CountsAreNumbers DEF Counted
<1>4. ASSUME NEW r \in Nodes
      PROVE  nodeStats'[r] = SumFunctionOnSet(Counted', OfThe(r))
  <2>1. IsFiniteSet(OfThe(r)) /\ OfThe(r) \subseteq Pairs /\ \A p \in OfThe(r) : Counted[p] \in Int
    BY <1>2, PairsAreFinite, CountsAreNumbers
  <2>2. nodeStats[r] = SumFunctionOnSet(Counted, OfThe(r)) /\ nodeStats[r] \in Int
    BY <1>2, ReceiverSums DEF SnrTypeOK
  <2>3. CASE r = q[1]
    <3>1. q \in OfThe(r) /\ 1 \in Int
      BY <2>3 DEF OfThe
    <3>2. Counted'[q] = Counted[q] + 1 /\ \A p \in OfThe(r) \ {q} : Counted'[p] = Counted[p]
      BY <1>3, <2>1
    <3>3. SumFunctionOnSet(Counted', OfThe(r)) = SumFunctionOnSet(Counted, OfThe(r)) + 1
      BY <2>1, <3>1, <3>2, SumOneMore
    <3> QED
      BY <1>1, <1>2, <2>2, <2>3, <3>3 DEF SnrTypeOK
  <2>4. CASE r # q[1]
    <3>1. \A p \in OfThe(r) : Counted'[p] = Counted[p]
      BY <1>3, <2>1, <2>4 DEF OfThe
    <3>2. SumFunctionOnSet(Counted', OfThe(r)) = SumFunctionOnSet(Counted, OfThe(r))
      BY <2>1, <3>1, SumCongruence
    <3> QED
      BY <1>1, <1>2, <2>2, <2>4, <3>2 DEF SnrTypeOK
  <2> QED
    BY <2>3, <2>4
<1>5. \A p \in Pairs : p[2] \notin Listed => told'[p] = 0
  BY <1>1, <1>2 DEF EveryFrameCountedOnce
<1> QED
  BY <1>1, <1>4, <1>5 DEF EveryFrameCountedOnce, OfReceiver, OfThe, Counted

\* A row tells what it takes out of the sums.
LEMMA RowsCount ==
  ASSUME SnrInv, LogWindow
  PROVE  EveryFrameCountedOnce'
<1>1. /\ nodeStats' = nodeStats /\ done' = FALSE
      /\ told' = [p \in Pairs |-> told[p] + IF Reported(p) THEN pairStats[p].count ELSE 0]
      /\ pairStats' = [p \in Pairs |-> AfterRow(p)]
  BY DEF LogWindow
<1>2. SnrTypeOK /\ EveryFrameCountedOnce
  BY DEF SnrInv
<1>3. Counted' = Counted
  <2>1. \A p \in Pairs : pairStats'[p].count + told'[p] = pairStats[p].count + told[p]
    <3> TAKE p \in Pairs
    <3>1. pairStats[p].count \in Nat /\ told[p] \in Nat
      BY <1>2, CountsAreNumbers
    <3>2. CASE Reported(p)
      BY <1>1, <3>1, <3>2 DEF AfterRow, NoStats
    <3>3. CASE ~Reported(p)
      BY <1>1, <3>1, <3>3 DEF AfterRow
    <3> QED
      BY <3>2, <3>3
  <2> QED
    BY <2>1 DEF Counted
<1>4. \A p \in Pairs : p[2] \notin Listed => told'[p] = 0
  BY <1>1, <1>2 DEF EveryFrameCountedOnce, Reported
<1>5. \A r \in Nodes : nodeStats'[r] = SumFunctionOnSet(Counted', OfThe(r))
  BY <1>1, <1>2, <1>3, ReceiverSums
<1> QED
  BY <1>1, <1>4, <1>5 DEF EveryFrameCountedOnce, OfReceiver, OfThe, Counted

\* The overall averages tell of the rest.
LEMMA OverallCounts ==
  ASSUME SnrInv, LogOverall
  PROVE  /\ EveryFrameCountedOnce'
         /\ \A r \in Nodes : overall'[r] \in 0 .. nodeStats[r]
<1>1. /\ overall' = [r \in Nodes |-> OfReceiver(Waiting, r)]
      /\ UNCHANGED <<nodeStats, pairStats, told>>
  BY DEF LogOverall, Waiting
<1>2. SnrTypeOK /\ EveryFrameCountedOnce
  BY DEF SnrInv
<1>3. ASSUME NEW r \in Nodes
      PROVE  /\ overall'[r] = nodeStats[r] - SumFunctionOnSet(told, OfThe(r))
             /\ overall'[r] \in 0 .. nodeStats[r]
  <2>1. /\ IsFiniteSet(OfThe(r))
        /\ \A p \in OfThe(r) : /\ Waiting[p] \in Nat /\ told[p] \in Nat
                               /\ Waiting[p] \in Int /\ told[p] \in Int
                               /\ Counted[p] = Waiting[p] + told[p]
    BY <1>2, PairsAreFinite, CountsAreNumbers
  <2>2. SumFunctionOnSet(Counted, OfThe(r))
          = SumFunctionOnSet(Waiting, OfThe(r)) + SumFunctionOnSet(told, OfThe(r))
    BY <2>1, SumOfBoth
  <2>3. SumFunctionOnSet(Waiting, OfThe(r)) \in Nat /\ SumFunctionOnSet(told, OfThe(r)) \in Nat
    BY <2>1, SumOfNat
  <2>4. nodeStats[r] = SumFunctionOnSet(Counted, OfThe(r))
    BY <1>2, ReceiverSums
  <2>5. overall'[r] = SumFunctionOnSet(Waiting, OfThe(r))
    BY <1>1, ReceiverSums
  <2> QED
    BY <2>2, <2>3, <2>4, <2>5
<1>4. /\ \A r \in Nodes : nodeStats[r] = OfReceiver([p \in Pairs |-> pairStats[p].count + told[p]], r)
      /\ \A p \in Pairs : p[2] \notin Listed => told[p] = 0
  BY <1>2 DEF EveryFrameCountedOnce
<1>5. \A r \in Nodes : overall'[r] = nodeStats[r] - OfReceiver(told, r)
  BY <1>3, ReceiverSums
<1> QED
  BY <1>1, <1>3, <1>4, <1>5 DEF EveryFrameCountedOnce, OfReceiver

\* What was told of a pair and what waits is no more than its receiver heard.
LEMMA NoMoreThanHeard ==
  ASSUME SnrTypeOK, EveryFrameCountedOnce
  PROVE  /\ \A p \in Pairs : Counted[p] <= MaxFrames
         /\ \A r \in Nodes : nodeStats[r] <= Heard
<1>1. ASSUME NEW p \in Pairs PROVE Counted[p] <= MaxFrames
  <2>1. /\ IsFiniteSet(OfThe(p[1])) /\ p \in OfThe(p[1]) /\ OfThe(p[1]) \subseteq Pairs
        /\ p[1] \in Nodes
    BY PairsAreFinite DEF OfThe, Pairs
  <2>2. \A x \in OfThe(p[1]) : Counted[x] \in Nat
    BY <2>1, CountsAreNumbers
  <2>3. Counted[p] <= SumFunctionOnSet(Counted, OfThe(p[1]))
    BY <2>1, <2>2, SumOfNat
  <2>4. nodeStats[p[1]] = SumFunctionOnSet(Counted, OfThe(p[1])) /\ nodeStats[p[1]] \in 0 .. MaxFrames
    BY <2>1, ReceiverSums DEF SnrTypeOK
  <2>5. Counted[p] \in Nat
    BY CountsAreNumbers
  <2> QED
    BY <2>3, <2>4, <2>5, SnrAssumption
<1>2. \A r \in Nodes : nodeStats[r] <= Heard
  <2>1. IsFiniteSet(Nodes) /\ \A r \in Nodes : nodeStats[r] \in Nat
    BY SnrAssumption DEF SnrTypeOK
  <2>2. Heard = SumFunctionOnSet(nodeStats, Nodes)
    BY DEF Heard, SumFunction, SnrTypeOK
  <2> QED
    BY <2>1, <2>2, SumOfNat
<1> QED
  BY <1>1, <1>2

\* The window of a row starts at the rows before, or at the start.
LEMMA WindowStartIs ==
  ASSUME SnrTypeOK, WindowInv
  PROVE  WindowStart = lastLog
<1>1. CASE lastLog > 0
  BY <1>1 DEF WindowStart
<1>2. CASE lastLog = 0
  <2>1. now \in Int /\ now <= logDue /\ logDue = FirstLog
    BY <1>2 DEF SnrTypeOK, WeatherTypeOK, WindowInv
  <2>2. FirstWindow \in Int /\ FirstLog \in Int /\ FirstLog <= FirstWindow
    BY SnrAssumption
  <2>3. now - FirstWindow \in Int /\ now - FirstWindow <= 0
    BY <2>1, <2>2
  <2>4. Max({0, now - FirstWindow}) = 0
    BY <2>3, MaxOfTwo
  <2> QED
    BY <1>2, <2>4 DEF WindowStart
<1> QED
  BY <1>1, <1>2 DEF SnrTypeOK, WeatherTypeOK

\* The rows are of their window.
LEMMA RowsOfWindow == SnrInv => RowIsOfItsWindow
<1> SUFFICES ASSUME SnrInv PROVE RowIsOfItsWindow
  OBVIOUS
<1>1. WindowStart = lastLog
  BY WindowStartIs DEF SnrInv
<1>2. \A p \in Pairs : Reported(p) => pairStats[p].first \in WindowStart .. now
  BY <1>1 DEF SnrInv, WindowInv
<1>3. ASSUME ~redated, lastLog < now
      PROVE  /\ Average(WindowStart, now).over = now - lastLog
             /\ Average(WindowStart, now).sum = SumFunctionOnSet(sky, lastLog + 1 .. now)
  <2>1. HistoryInv /\ SkyInv /\ lastLog \in 0 .. now /\ now \in lastLog .. now
    BY DEF SnrInv, SnrTypeOK, HistoryInv
  <2>2. Truth(lastLog, now)
    BY <1>3, <2>1, AverageOfWindow
  <2> QED
    BY <1>1, <2>2 DEF Truth, Average
<1> QED
  BY <1>2, <1>3 DEF RowIsOfItsWindow

\* A step of the weather keeps its types.
LEMMA WeatherStepTypes ==
  ASSUME WeatherTypeOK, [WeatherNext]_weatherVars, HistoryInv', SkyInv'
  PROVE  WeatherTypeOK'
<1>1. CASE UNCHANGED weatherVars
  BY <1>1 DEF weatherVars, WeatherTypeOK
<1>2. ASSUME NEW v \in Intensities, SetWeatherCondition(v)
      PROVE  WeatherTypeOK'
  <2>1. Len(history') = Len(history) + 1 /\ Len(history) <= MaxChanges /\ Len(history) \in Nat
    BY <1>2 DEF SetWeatherCondition, Push, WeatherTypeOK
  <2>2. now' = now /\ redated' = redated
    BY <1>2 DEF SetWeatherCondition
  <2> QED
    BY <2>1, <2>2, HistoryAssumption DEF WeatherTypeOK, HistoryInv, SkyInv
<1>3. ASSUME NEW v \in Intensities, UpdateWeatherCondition(v)
      PROVE  WeatherTypeOK'
  <2>1. Len(Closed(history, now)) = Len(history) /\ Closed(history, now) \in Seq(Entry)
    BY ClosedIsHistory DEF WeatherTypeOK
  <2>2. Len(history') = Len(history) + 1 /\ Len(history) <= MaxChanges /\ Len(history) \in Nat
    BY <1>3, <2>1 DEF UpdateWeatherCondition, Push, WeatherTypeOK
  <2>3. now' = now /\ redated' = TRUE
    BY <1>3 DEF UpdateWeatherCondition
  <2> QED
    BY <2>2, <2>3, HistoryAssumption DEF WeatherTypeOK, HistoryInv, SkyInv
<1>4. CASE Tick
  BY <1>4, HistoryAssumption DEF Tick, WeatherTypeOK, HistoryInv, SkyInv
<1> QED
  BY <1>1, <1>2, <1>3, <1>4 DEF WeatherNext

\* Every step keeps the invariant.
LEMMA SnrStep == SnrInv /\ [SnrNext]_<<weatherVars, snrVars>> => SnrInv'
<1> SUFFICES ASSUME SnrInv, [SnrNext]_<<weatherVars, snrVars>>
             PROVE  SnrInv'
  OBVIOUS
<1>0. SnrTypeOK /\ HistoryInv /\ SkyInv /\ WindowInv /\ EveryFrameCountedOnce
  BY DEF SnrInv
<1>1. CASE UNCHANGED <<weatherVars, snrVars>>
  <2>1. (HistoryInv /\ SkyInv)'
    BY <1>0, <1>1, HistoryStep, SkyStep
  <2>2. SnrTypeOK' /\ WindowInv' /\ EveryFrameCountedOnce'
    BY <1>0, <1>1 DEF weatherVars, snrVars, SnrTypeOK, WeatherTypeOK, WindowInv, Reported,
         EveryFrameCountedOnce, OfReceiver
  <2> QED
    BY <2>1, <2>2 DEF SnrInv
<1> DEFINE M == Max({Period, FirstLog})
<1>M. M \in Int /\ Period <= M /\ FirstLog <= M
  BY SnrAssumption, MaxOfTwo
<1> HIDE DEF M
<1>2. ASSUME NEW q \in Pairs, Receive(q)
      PROVE  SnrInv'
  <2>1. /\ UNCHANGED weatherVars /\ UNCHANGED <<lastLog, logDue, told, overall, done>>
        /\ nodeStats' = [nodeStats EXCEPT ![q[1]] = @ + 1]
        /\ pairStats' = [pairStats EXCEPT ![q] = Add(@)]
        /\ Heard < MaxFrames
    BY <1>2 DEF Receive
  <2>2. (HistoryInv /\ SkyInv)' /\ WeatherTypeOK'
    BY <1>0, <2>1, HistoryStep, SkyStep, WeatherStepTypes DEF SnrTypeOK
  <2>3. q[1] \in Nodes /\ nodeStats[q[1]] \in 0 .. MaxFrames /\ nodeStats[q[1]] + 1 \in 0 .. MaxFrames
    <3>1. q[1] \in Nodes /\ nodeStats[q[1]] \in 0 .. MaxFrames
      BY <1>0 DEF Pairs, SnrTypeOK
    <3>2. Heard \in Int
      <4>1. IsFiniteSet(Nodes) /\ \A r \in Nodes : nodeStats[r] \in Int
        BY <1>0, SnrAssumption DEF SnrTypeOK
      <4>2. Heard = SumFunctionOnSet(nodeStats, Nodes)
        BY <1>0 DEF Heard, SumFunction, SnrTypeOK
      <4> QED
        BY <4>1, <4>2, SumTake
    <3>3. nodeStats[q[1]] <= Heard
      BY <1>0, <3>1, NoMoreThanHeard
    <3> QED
      BY <2>1, <3>1, <3>2, <3>3, SnrAssumption
  <2>4. /\ pairStats[q] \in Stats /\ Add(pairStats[q]) \in Stats
        /\ Add(pairStats[q]).first = IF pairStats[q].count = 0 THEN now ELSE pairStats[q].first
    BY <1>0, CountsAreNumbers DEF Stats, Add, HistoryInv
  <2>5. SnrTypeOK'
    <3>1. nodeStats' \in [Nodes -> 0 .. MaxFrames] /\ pairStats' \in [Pairs -> Stats]
      BY <1>0, <2>1, <2>3, <2>4 DEF SnrTypeOK
    <3>2. now' = now
      BY <2>1 DEF weatherVars
    <3> QED
      BY <1>0, <2>1, <2>2, <3>1, <3>2 DEF SnrTypeOK
  <2>6. WindowInv'
    <3>1. ASSUME NEW p \in Pairs, Reported(p)'
          PROVE  pairStats'[p].first \in lastLog .. now
      <4>1. CASE p # q
        BY <1>0, <2>1, <3>1, <4>1 DEF WindowInv, Reported, SnrTypeOK
      <4>2. CASE p = q
        <5>1. pairStats'[p] = Add(pairStats[q]) /\ p[2] \in Listed
          BY <1>0, <2>1, <3>1, <4>2 DEF SnrTypeOK, Reported
        <5>2. pairStats[q].count \in Nat /\ lastLog \in 0 .. now /\ now \in Nat
          BY <1>0, CountsAreNumbers DEF SnrTypeOK, HistoryInv
        <5>3. CASE pairStats[q].count = 0
          BY <2>4, <5>1, <5>2, <5>3
        <5>4. CASE pairStats[q].count > 0
          BY <1>0, <2>4, <4>2, <5>1, <5>2, <5>4 DEF WindowInv, Reported
        <5> QED
          BY <5>2, <5>3, <5>4
      <4> QED
        BY <4>1, <4>2
    <3> QED
      BY <1>0, <2>1, <3>1 DEF WindowInv, weatherVars
  <2> QED
    BY <1>2, <2>2, <2>5, <2>6, ReceiveCounts DEF SnrInv
<1>3. CASE LogWindow
  <2>1. /\ UNCHANGED weatherVars /\ UNCHANGED <<nodeStats, overall, done>>
        /\ told' = [p \in Pairs |-> told[p] + IF Reported(p) THEN pairStats[p].count ELSE 0]
        /\ pairStats' = [p \in Pairs |-> AfterRow(p)]
        /\ lastLog' = now /\ now = logDue /\ logDue' = now + Period
    BY <1>3 DEF LogWindow, NextLog
  <2>2. (HistoryInv /\ SkyInv)' /\ WeatherTypeOK'
    BY <1>0, <2>1, HistoryStep, SkyStep, WeatherStepTypes DEF SnrTypeOK
  <2>3. SnrTypeOK'
    <3>1. ASSUME NEW p \in Pairs
          PROVE  told'[p] \in 0 .. MaxFrames /\ pairStats'[p] \in Stats
      <4>1. /\ pairStats[p].count \in Nat /\ told[p] \in Nat /\ pairStats[p] \in Stats
            /\ pairStats[p].count + told[p] <= MaxFrames
        BY <1>0, CountsAreNumbers, NoMoreThanHeard DEF Counted
      <4>2. NoStats \in Stats
        BY DEF NoStats, Stats
      <4>3. told'[p] = told[p] + IF Reported(p) THEN pairStats[p].count ELSE 0
        BY <2>1
      <4> QED
        BY <2>1, <4>1, <4>2, <4>3, SnrAssumption DEF AfterRow
    <3>2. told' \in [Pairs -> 0 .. MaxFrames] /\ pairStats' \in [Pairs -> Stats]
      BY <2>1, <3>1
    <3>3. now' = now /\ now \in Nat
      BY <1>0, <2>1 DEF weatherVars, HistoryInv
    <3>4. logDue' \in now .. now + M
      BY <1>M, <2>1, <3>3, SnrAssumption
    <3> QED
      BY <1>0, <2>1, <2>2, <3>2, <3>3, <3>4 DEF SnrTypeOK, M
  <2>4. WindowInv'
    <3>1. now \in Nat /\ logDue \in Nat \ {0} /\ Period \in Nat
      BY <1>0, SnrAssumption DEF HistoryInv, WindowInv
    <3>2. ASSUME NEW p \in Pairs PROVE ~Reported(p)'
      BY <2>1 DEF Reported, AfterRow, NoStats
    <3> QED
      BY <2>1, <3>1, <3>2 DEF WindowInv
  <2> QED
    BY <1>3, <2>2, <2>3, <2>4, RowsCount DEF SnrInv
<1>4. CASE LogOverall
  <2>1. /\ UNCHANGED weatherVars /\ UNCHANGED <<nodeStats, pairStats, lastLog, logDue, told>>
        /\ done' = TRUE /\ overall' = [r \in Nodes |-> OfReceiver(Waiting, r)]
    BY <1>4 DEF LogOverall, Waiting
  <2>2. (HistoryInv /\ SkyInv)' /\ WeatherTypeOK'
    BY <1>0, <2>1, HistoryStep, SkyStep, WeatherStepTypes DEF SnrTypeOK
  <2>3. \A r \in Nodes : overall'[r] \in 0 .. MaxFrames
    <3> TAKE r \in Nodes
    <3>1. overall'[r] \in 0 .. nodeStats[r]
      BY <1>4, OverallCounts
    <3>2. nodeStats[r] \in 0 .. MaxFrames
      BY <1>0 DEF SnrTypeOK
    <3> QED
      BY <3>1, <3>2, SnrAssumption
  <2>4. SnrTypeOK'
    <3>1. overall' \in [Nodes -> 0 .. MaxFrames] /\ now' = now
      BY <2>1, <2>3 DEF weatherVars
    <3> QED
      BY <1>0, <2>1, <2>2, <3>1 DEF SnrTypeOK
  <2>5. WindowInv'
    BY <1>0, <2>1 DEF WindowInv, Reported, weatherVars
  <2> QED
    BY <1>4, <2>2, <2>4, <2>5, OverallCounts DEF SnrInv
<1>5. CASE Elsewhere
  <2>1. /\ ~done /\ WeatherNext /\ (now' # now => now < logDue)
        /\ UNCHANGED <<nodeStats, pairStats, lastLog, logDue, told, overall, done>>
    BY <1>5 DEF Elsewhere, snrVars
  <2>2. (HistoryInv /\ SkyInv)' /\ WeatherTypeOK'
    BY <1>0, <2>1, HistoryStep, SkyStep, WeatherStepTypes DEF SnrTypeOK
  <2>3. now \in Nat /\ now' \in {now, now + 1}
    BY <1>0, <2>1 DEF WeatherNext, SetWeatherCondition, UpdateWeatherCondition, Tick, HistoryInv
  <2>4. SnrTypeOK'
    <3>1. logDue \in now .. now + M /\ lastLog \in 0 .. now
      BY <1>0 DEF SnrTypeOK, M
    <3>2. logDue \in now' .. now' + M /\ lastLog \in 0 .. now'
      <4>1. CASE now' = now
        BY <3>1, <4>1
      <4>2. CASE now' # now /\ now' = now + 1
        <5>1. now < logDue /\ logDue \in Int /\ now \in Int /\ lastLog \in Int
          BY <2>1, <2>3, <3>1, <4>2
        <5> QED
          BY <1>M, <3>1, <4>2, <5>1
      <4> QED
        BY <2>3, <4>1, <4>2
    <3> QED
      BY <1>0, <2>1, <2>2, <3>2 DEF SnrTypeOK, M
  <2>5. WindowInv'
    <3>1. ASSUME NEW p \in Pairs, Reported(p)'
          PROVE  pairStats'[p].first \in lastLog' .. now'
      <4>1. Reported(p) /\ pairStats[p].first \in lastLog .. now /\ lastLog \in Int
        BY <1>0, <2>1, <3>1 DEF WindowInv, Reported, SnrTypeOK
      <4> QED
        BY <2>1, <2>3, <4>1
    <3> QED
      BY <1>0, <2>1, <3>1 DEF WindowInv
  <2>6. EveryFrameCountedOnce'
    BY <1>0, <2>1 DEF EveryFrameCountedOnce, OfReceiver
  <2> QED
    BY <2>2, <2>4, <2>5, <2>6 DEF SnrInv
<1> QED
  BY <1>1, <1>2, <1>3, <1>4, <1>5 DEF SnrNext

\* The invariant holds throughout.
LEMMA SnrInvariant == SnrSpec => []SnrInv
BY SnrInitInv, SnrStep, PTL DEF SnrSpec

\* The counters of frames, the times of the rows and the averages stay within
\* their bounds: no receiver hears, and no row tells of, more than was sent,
\* and the next rows are never overdue.
THEOREM SnrStaysTyped == SnrSpec => []SnrTypeOK
<1>1. SnrInv => SnrTypeOK
  BY DEF SnrInv
<1> QED
  BY <1>1, SnrInvariant, PTL

\* PhyRxLogCallback, the rows and the overall averages, together, tell of every
\* frame once: what a receiver heard is what the rows told and what waits.
THEOREM FramesAreCountedOnce == SnrSpec => []EveryFrameCountedOnce
<1>1. SnrInv => EveryFrameCountedOnce
  BY DEF SnrInv
<1> QED
  BY <1>1, SnrInvariant, PTL

\* A row tells of the frames, and of the weather, of its own window.
THEOREM RowsAreOfTheirWindow == SnrSpec => []RowIsOfItsWindow
BY RowsOfWindow, SnrInvariant, PTL

\* The rows only read the weather: the run of the radio is one of the weather,
\* step by step, so what holds of the history holds beneath the rows.
THEOREM SnrImplementsWeather == SnrSpec => WeatherSpec
<1>1. SnrInit => WeatherInit
  BY DEF SnrInit
<1>2. [SnrNext]_<<weatherVars, snrVars>> => [WeatherNext]_weatherVars
  BY DEF SnrNext, Receive, LogWindow, LogOverall, Elsewhere
<1> QED
  BY <1>1, <1>2, PTL DEF SnrSpec, WeatherSpec
=============================================================================
