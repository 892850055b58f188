------------------------------- MODULE SnrLog -------------------------------
(***************************************************************************)
(* The signal statistics of the radio and the rows written of them: each   *)
(* frame received is added to sums per receiver and per pair of nodes, and *)
(* every Period seconds LogWeatherMetricsForAllNodeswithSNR writes a row   *)
(* per pair, next to the average weather of the window, and starts the     *)
(* pair afresh.  At the end of the run the overall averages are written.   *)
(*                                                                         *)
(* Of the sums only the number of frames is kept, and the time of the      *)
(* first one; a row is the frames it tells of and its window.              *)
(***************************************************************************)
EXTENDS WeatherHistory

CONSTANTS
  Nodes,       \* nodes with a radio, those of allNodes
  Listed,      \* nodes of the node data set; no row is written of the others
  Untagged,    \* stands for the sender of a frame without its tag
  Period,      \* seconds between two rows of a pair
  FirstLog,    \* when the first rows are written
  FirstWindow, \* how far the first window reaches back
  MaxFrames    \* bound on the frames received

ASSUME SnrAssumption ==
  /\ IsFiniteSet(Nodes)
  /\ Listed \subseteq Nodes
  /\ Untagged \notin Nodes
  /\ Period \in Nat \ {0}
  /\ FirstLog \in Nat \ {0} /\ FirstWindow \in Nat
  /\ FirstLog <= FirstWindow
  /\ MaxFrames \in Nat

Senders == Nodes \cup {Untagged}
Pairs == {p \in Nodes \X Senders : p[1] # p[2]}

VARIABLES
  nodeStats,  \* g_nodeStats: frames of each receiver
  pairStats,  \* g_nodePairStats: frames of each pair, and when the first came
  lastLog,    \* g_lastSnrWeatherLogTime
  logDue,     \* when the next rows are written
  told,       \* frames the rows written so far tell of, per pair
  overall,    \* frames the overall averages tell of, per receiver
  done        \* the simulation has ended and the averages are written

snrVars == <<nodeStats, pairStats, lastLog, logDue, told, overall, done>>

Stats == [count : Nat, first : Nat]
NoStats == [count |-> 0, first |-> 0]

SnrTypeOK ==
  /\ WeatherTypeOK
  /\ nodeStats \in [Nodes -> 0 .. MaxFrames]
  /\ pairStats \in [Pairs -> Stats]
  /\ lastLog \in 0 .. now
  /\ logDue \in now .. now + Max({Period, FirstLog})
  /\ told \in [Pairs -> 0 .. MaxFrames]
  /\ overall \in [Nodes -> 0 .. MaxFrames]
  /\ done \in BOOLEAN

SnrInit ==
  /\ WeatherInit
  /\ nodeStats = [r \in Nodes |-> 0]
  /\ pairStats = [p \in Pairs |-> NoStats]
  /\ lastLog = 0 /\ logDue = FirstLog
  /\ told = [p \in Pairs |-> 0]
  /\ overall = [r \in Nodes |-> 0]
  /\ done = FALSE

Heard == SumFunction(nodeStats)
OfReceiver(f, r) == SumFunctionOnSet(f, {p \in Pairs : p[1] = r})

-----------------------------------------------------------------------------
(* Receptions.                                                             *)

Add(s) == [count |-> s.count + 1,
           first |-> IF s.count = 0 THEN now ELSE s.first]

\* PhyRxLogCallback.
Receive(p) ==
  /\ ~done
  /\ Heard < MaxFrames
  /\ nodeStats' = [nodeStats EXCEPT ![p[1]] = @ + 1]
  /\ pairStats' = [pairStats EXCEPT ![p] = Add(@)]
  /\ UNCHANGED <<weatherVars, lastLog, logDue, told, overall, done>>

-----------------------------------------------------------------------------
(* Rows.                                                                   *)

WindowOfPeriod == Max({0, now - FirstWindow})
WindowStart ==
  IF lastLog > 0 THEN lastLog ELSE Max({0, now - FirstWindow})

\* Pairs of which rows are written: the sender is in the node data set.
Reported(p) == p[2] \in Listed /\ pairStats[p].count > 0

AfterRowNobody(p) == NoStats
AfterRow(p) == IF Reported(p) THEN NoStats ELSE pairStats[p]

NextLogLate == now + Period + 1
NextLog == now + Period
LogWindow ==
  /\ ~done
  /\ now = logDue
  /\ told' = [p \in Pairs |->
                told[p] + IF Reported(p) THEN pairStats[p].count ELSE 0]
  /\ pairStats' = [p \in Pairs |-> AfterRow(p)]
  /\ lastLog' = now
  /\ logDue' = NextLog
  /\ UNCHANGED <<weatherVars, nodeStats, overall, done>>

\* LogAverageSnrRssiNodes, after Simulator::Run.
LogOverall ==
  /\ ~done
  /\ now = MaxTime
  /\ overall' = [r \in Nodes |->
       OfReceiver([p \in Pairs |-> pairStats[p].count], r)]
  /\ done' = TRUE
  /\ UNCHANGED <<weatherVars, nodeStats, pairStats, lastLog, logDue, told>>

\* The weather changes, and time passes up to what is due.
Elsewhere ==
  /\ ~done
  /\ WeatherNext
  /\ now' # now => now < logDue
  /\ UNCHANGED snrVars

SnrNext ==
  \/ \E p \in Pairs : Receive(p)
  \/ LogWindow
  \/ LogOverall
  \/ Elsewhere

SnrSpec == SnrInit /\ [][SnrNext]_<<weatherVars, snrVars>>

-----------------------------------------------------------------------------
(* Properties.                                                             *)

\* No reception is lost or told twice: what a receiver heard is what the rows
\* have told of it and what still waits for one; the overall averages, at the
\* end, are of what is left, which is everything for a sender without rows.
EveryFrameCountedOnce ==
  /\ \A r \in Nodes :
       nodeStats[r] =
         OfReceiver([p \in Pairs |-> pairStats[p].count + told[p]], r)
  /\ done => \A r \in Nodes : overall[r] = nodeStats[r] - OfReceiver(told, r)
  /\ \A p \in Pairs : p[2] \notin Listed => told[p] = 0

\* A row tells of the frames and of the weather of its own window: what waits
\* for a row was received within the window, and was not told of before; and
\* the average written is that of the weather in force since the rows before,
\* however it changed in between, until a planned change redates an entry.
RowIsOfItsWindow ==
  /\ \A p \in Pairs : Reported(p) => pairStats[p].first \in WindowStart .. now
  /\ ~done /\ ~redated /\ now = logDue /\ lastLog < now =>
       LET avg == Average(WindowStart, now)
       IN /\ avg.over = now - lastLog
          /\ avg.sum = SumFunctionOnSet(sky, lastLog + 1 .. now)
=============================================================================
