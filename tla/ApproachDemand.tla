--------------------------- MODULE ApproachDemand ---------------------------
(***************************************************************************)
(* From the vehicles of one approach to its green: the statistics of       *)
(* ai/analytics, the smoothing of ai/state/count_stabilizer.py, the score  *)
(* of ai/signal/priority_calculator.py with the boost of                   *)
(* emergency_override.py, and the green the scheduler would give it now.   *)
(* Who is next, and when, is the business of TrafficPipeline.              *)
(*                                                                         *)
(* The code computes with floats.  Here a PCE and a congestion index are   *)
(* in hundredths, a queue time in seconds (one tick is one second), a      *)
(* score in ten-thousandths and the moving average in units of 1 / Unit of *)
(* a vehicle, rounded down.                                                *)
(***************************************************************************)
EXTENDS VehicleTracks, FiniteSetsExt

CONSTANTS
  Weight,       \* PCE_WEIGHTS of each track's class, in hundredths
  Unit,         \* bound of the model: the resolution of the moving average
  MinGreen,     \* min_green_sec
  MaxGreen,     \* max_green_sec
  OthersScores  \* what the scores of the other approaches may add up to

ASSUME DemandAssumption ==
  /\ Weight \in [Track -> Nat \ {0}]
  /\ Unit \in Nat \ {0}
  /\ MinGreen \in Nat \ {0} /\ MaxGreen \in Nat /\ MinGreen <= MaxGreen
  /\ OthersScores \subseteq Nat

VARIABLES
  stat,      \* _last_authoritative_stats of the approach
  average,   \* CountStabilizer._ema of the approach
  started    \* whether its _count_history holds anything

vars == <<trackVars, stat, average, started>>

-----------------------------------------------------------------------------
(***************************************************************************)
(* OccupancyAnalyzer and CongestionAnalyzer on the vehicles vs.  A vehicle *)
(* that has queued once counts as stopped for as long as it is known.      *)
(***************************************************************************)
PceOf(vehicles) == MapThenSumSet(LAMBDA t : Weight[t], vehicles)

Stopped(vehicles, vs) == {t \in vehicles : vs[t].queued \/ vs[t].queue > 0}

QueueSeconds(vehicles, vs) == MapThenSumSet(LAMBDA t : vs[t].queue, Stopped(vehicles, vs))

(* The weights 1.0, 0.2 and 5.0 of CONGESTION_WEIGHTS.                     *)
CongestionIndex(pce, queue, stopped) == pce + 20 * queue + 500 * stopped

(***************************************************************************)
(* AnalyticsExporter.generate_stats for the approach.                      *)
(***************************************************************************)
RawStatistics(vehicles, vs) ==
  LET pce     == PceOf(vehicles)
      queue   == QueueSeconds(vehicles, vs)
      stopped == Cardinality(Stopped(vehicles, vs))
  IN  [raw |-> Cardinality(vehicles), live |-> Cardinality(vehicles), pce |-> pce,
       queue |-> queue, stopped |-> stopped,
       congestion |-> CongestionIndex(pce, queue, stopped),
       urgent |-> \E t \in vehicles : vs[t].urgent]

NoStatistics ==
  [raw |-> 0, live |-> 0, pce |-> 0, queue |-> 0, stopped |-> 0, congestion |-> 0,
   urgent |-> FALSE]

(* Mutant of AverageAfter: the older counts are not forgotten.             *)
AverageAfter_NoDecay(raw) == Larger(average, raw * Unit)

(* The moving average with EMA_ALPHA = 0.4, seeded with the first count.   *)
AverageAfter(raw) == IF started THEN (4 * raw * Unit + 6 * average) \div 10 ELSE raw * Unit

(***************************************************************************)
(* stabilize: the count the scheduler reads is the rounded average, and    *)
(* the PCE is scaled with it; queue and congestion stay as they are.       *)
(***************************************************************************)
Stabilized(s, avg) ==
  LET live == RoundHalfEven(avg, Unit)
  IN  [s EXCEPT !.live = live,
                !.pce = IF s.raw > 0 /\ live # s.raw THEN RoundHalfEven(s.pce * live, s.raw)
                                                     ELSE s.pce]

-----------------------------------------------------------------------------
(* Mutant of BaseScore: the congestion index is left out.                  *)
BaseScore_NoCongestion(s) == 45 * s.pce + 3500 * s.queue

(***************************************************************************)
(* PriorityCalculator.calculate with the weights 0.45, 0.35 and 0.20; then *)
(* check_and_override adds its 1000 points.                                *)
(***************************************************************************)
BaseScore(s) == 45 * s.pce + 3500 * s.queue + 20 * s.congestion

Score(s) == BaseScore(s) + (IF s.urgent THEN 10000000 ELSE 0)

(* Mutant of GreenFor: the share of the total score decides.               *)
GreenFor_ByShare(s, others) ==
  GreenTime(Score(s), Score(s) + others, 0, 0, MinGreen, MaxGreen)

(* SignalScheduler.schedule for this approach as the winner.               *)
GreenFor(s, others) ==
  GreenTime(Score(s), Score(s) + others, s.pce, s.queue, MinGreen, MaxGreen)

-----------------------------------------------------------------------------
Statistics ==
  [raw : Nat, live : Nat, pce : Nat, queue : Nat, stopped : Nat, congestion : Nat,
   urgent : BOOLEAN]

TypeOK ==
  /\ TracksOK
  /\ stat \in Statistics
  /\ average \in 0 .. Unit * Cardinality(Track)
  /\ started \in BOOLEAN

Init ==
  /\ TracksInit
  /\ stat = NoStatistics
  /\ average = 0
  /\ started = FALSE

(* Mutant of Detect: the tracker's boxes are counted, confirmed or not.    *)
Detect_CountsBoxes ==
  /\ \E seen \in SUBSET Track : \E still \in SUBSET seen, flagged \in SUBSET (seen \cap Urgent) :
       DetectorFrame(seen, still, flagged)
  /\ LET raw == RawStatistics(boxes', states')
     IN  /\ average' = AverageAfter(raw.raw)
         /\ stat' = Stabilized(raw, average')
  /\ started' = TRUE

(* A frame that is detected: the tracks, the statistics, the average.      *)
Detect ==
  /\ \E seen \in SUBSET Track : \E still \in SUBSET seen, flagged \in SUBSET (seen \cap Urgent) :
       DetectorFrame(seen, still, flagged)
  /\ LET raw == RawStatistics(Confirmed', states')
     IN  /\ average' = AverageAfter(raw.raw)
         /\ stat' = Stabilized(raw, average')
  /\ started' = TRUE

Preview == PreviewFrame /\ UNCHANGED <<stat, average, started>>

Tick == TimePasses /\ UNCHANGED <<stat, average, started>>

Next == Detect \/ Preview \/ Tick

Spec == Init /\ [][Next]_vars

-----------------------------------------------------------------------------
(***************************************************************************)
(* An approach with a vehicle always has a score, also while the smoothed  *)
(* count, and with it the PCE, is still rounded to nothing.                *)
(***************************************************************************)
OccupiedHasScore == stat.raw > 0 => Score(stat) > 0

(***************************************************************************)
(* signal_scheduler.py: "Use absolute approach demand": as soon as the     *)
(* smoothed count shows a vehicle or one has queued, the other approaches  *)
(* make no difference to the green.                                        *)
(***************************************************************************)
OwnDemandDecides ==
  stat.raw > 0 /\ (stat.live > 0 \/ stat.queue > 0) =>
    \A x, y \in OthersScores : GreenFor(stat, x) = GreenFor(stat, y)

(***************************************************************************)
(* Counts follow the evidence: when frames keep being detected and the     *)
(* number of confirmed vehicles stays the same, the count the scheduler    *)
(* reads becomes that number.                                              *)
(***************************************************************************)
CountSettles ==
  []<><<Detect>>_vars =>
    \A n \in 0 .. Cardinality(Track) : <>[](stat.raw = n) => <>[](stat.live = n)
=============================================================================
