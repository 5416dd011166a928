------------------------------ MODULE ReplayLab ------------------------------
(***************************************************************************)
(* The scripted traffic of ai/pipeline/replay_lab.py: run_scenario drives  *)
(* a fresh SignalScheduler through the steps of a scenario and keeps what  *)
(* it decides, one run after the other.                                    *)
(*                                                                         *)
(* PCE is counted in tenths.  sim_time and the copies of the statistics    *)
(* that a record carries are left out.                                     *)
(***************************************************************************)
EXTENDS Integers, FiniteSets, Sequences

CONSTANTS
  ReplaySteps,    \* total_steps
  ReplayBounds    \* the pairs min_green, max_green a lab is made with

ASSUME ReplayAssumption ==
  /\ ReplaySteps \in Nat
  /\ ReplayBounds \subseteq {b \in (Nat \ {0}) \X Nat : b[1] <= b[2]}

VARIABLES
  scenario,       \* of the run in progress, NoScenario before the first one
  limits,         \* min_green_sec and max_green_sec of the lab's scheduler
  turn,           \* its _next_cycle_index
  result          \* the ReplayRunResult

labVars == <<scenario, limits, turn, result>>

S == INSTANCE SignalScheduler WITH NumLanes <- 4, FullPce <- 200, FullQueue <- 120

North == 0
East == 1
South == 2
West == 3

Scenario ==
  {"BALANCED_NORMAL", "HEAVY_NORTH", "ALL_BUSY_GRIDLOCK", "CAMERA_DISCONNECT",
   "EMERGENCY_PREEMPTION", "SUDDEN_SPIKE", "UNKNOWN"}
NoScenario == "NONE"

-----------------------------------------------------------------------------
(***************************************************************************)
(* _generate_scenario_traffic: the load of an approach, which approaches   *)
(* are fresh, and which of them report an emergency.                       *)
(***************************************************************************)
Load(pce, stopped, queue) == [pce |-> pce, stopped |-> stopped, queue |-> queue]

Traffic(step, l) ==
  CASE scenario = "BALANCED_NORMAL" -> Load(50, 2, 15)
    [] scenario = "HEAVY_NORTH" -> IF l = North THEN Load(240, 12, 110) ELSE Load(20, 1, 5)
    [] scenario = "ALL_BUSY_GRIDLOCK" -> Load(200, 10, 90)
    [] scenario = "CAMERA_DISCONNECT" -> Load(40, 1, 10)
    [] scenario = "EMERGENCY_PREEMPTION" -> Load(60, 2, 20)
    [] scenario = "SUDDEN_SPIKE" ->
         IF l # West THEN Load(30, 1, 10)
         ELSE IF step >= 4 THEN Load(240, 10, 100) ELSE Load(12, 0, 5)
    [] OTHER -> Load(0, 0, 0)

(* The east camera drops out after step 3.                                 *)
Fresh(step) ==
  IF scenario = "CAMERA_DISCONNECT" /\ step > 3 THEN S!Lane \ {East} ELSE S!Lane

(* The ambulance comes from the south at step 2, and stays.                *)
Urgent(step) ==
  IF scenario = "EMERGENCY_PREEMPTION" /\ step >= 2 THEN {South} ELSE {}

(* _calculate_priority, in thousandths                                     *)
Score(step, l) ==
  LET load == Traffic(step, l)
  IN  IF l \notin Fresh(step) THEN 0
      ELSE IF l \in Urgent(step) THEN 1000000
      ELSE 45 * load.pce + 35 * load.queue + 200 * load.stopped

TotalScore(step) ==
  Score(step, North) + Score(step, East)
    + Score(step, South) + Score(step, West)

-----------------------------------------------------------------------------
(***************************************************************************)
(* run_scenario.  There are vehicles on every approach of every scenario.  *)
(***************************************************************************)
NewResult == [steps |-> <<>>, allocations |-> [l \in S!Lane |-> 0],
              preemptions |-> 0, dropouts |-> 0]

LabInit ==
  /\ scenario = NoScenario
  /\ limits = <<10, 60>>
  /\ turn = 0 /\ result = NewResult

(* A run starts with a new scheduler; the lab may be a new one, too.       *)
RunScenario(name) ==
  /\ scenario = NoScenario \/ Len(result.steps) = ReplaySteps
  /\ scenario' = name
  /\ limits' \in ReplayBounds
  /\ turn' = 0 /\ result' = NewResult

Step == Len(result.steps)

(* Mutant of Winners: an approach without fresh frames is not skipped.     *)
Winners_Known == S!SelectEligible(S!Lane, Urgent(Step), turn)

Winners == S!SelectEligible(Fresh(Step), Urgent(Step) \cap Fresh(Step), turn)

GreenFor(l) ==
  LET load == Traffic(Step, l)
  IN  S!GreenTime(Score(Step, l), TotalScore(Step), load.pce, load.queue, limits[1], limits[2])

(* Without demand North is recorded with the least green, uncounted.       *)
Decided ==
  IF Winners = {} THEN {[lane |-> North, green |-> limits[1]]}
  ELSE {[lane |-> l, green |-> GreenFor(l)] : l \in Winners}

ReplayStep ==
  /\ scenario # NoScenario /\ Step < ReplaySteps
  /\ \E d \in Decided :
       /\ turn' = IF Winners = {} THEN turn ELSE S!AdvanceAfter(d.lane)
       /\ result' =
            [steps |-> Append(result.steps, d),
             allocations |-> [result.allocations EXCEPT ![d.lane] = @ + IF Winners = {} THEN 0 ELSE 1],
             preemptions |-> result.preemptions + Cardinality({d.lane} \cap Urgent(Step) \cap Winners),
             dropouts |-> result.dropouts + 4 - Cardinality(Fresh(Step))]
  /\ UNCHANGED <<scenario, limits>>

LabNext == (\E name \in Scenario : RunScenario(name)) \/ ReplayStep

LabSpec == LabInit /\ [][LabNext]_labVars

-----------------------------------------------------------------------------
Recorded == DOMAIN result.steps
LaneAt(n) == result.steps[n].lane
LoadAt(n) == Traffic(n - 1, LaneAt(n))

(***************************************************************************)
(* replay_lab.py: "measures scheduler responses, fairness, and safety      *)
(* invariants".  In every scenario, at every step and for any bounds: an   *)
(* approach that was fresh in the last four steps, none of them an         *)
(* emergency's, was green in one of them, however the load of the others   *)
(* changed and however long another one was served before; the approach of *)
(* a lost camera is never green; more load is never given less green.      *)
(***************************************************************************)
ReplayServesFairly ==
  /\ \A l \in S!Lane :
       /\ Step >= 4
       /\ \A n \in Step - 3 .. Step : l \in Fresh(n - 1) /\ Urgent(n - 1) = {}
       => \E n \in Step - 3 .. Step : LaneAt(n) = l
  /\ \A n \in Recorded : LaneAt(n) \in Fresh(n - 1)
  /\ \A n, k \in Recorded :
       LoadAt(n).pce <= LoadAt(k).pce /\ LoadAt(n).queue <= LoadAt(k).queue =>
         result.steps[n].green <= result.steps[k].green
=============================================================================
