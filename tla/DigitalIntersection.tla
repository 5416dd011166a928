------------------------ MODULE DigitalIntersection ------------------------
(***************************************************************************)
(* The simulated junction of ai/pipeline/digital_intersection.py: a second *)
(* phase machine beside the traffic pipeline's, which counts the remaining *)
(* seconds of a colour down instead of comparing clocks.  Cameras drop     *)
(* out, the AI stalls, and step_simulation lets dt seconds pass.           *)
(*                                                                         *)
(* The statistics of the approaches are an input of every step: the caller *)
(* may replace all of them, so what is kept from the step before decides   *)
(* nothing.  A DEGRADED camera is like a HEALTHY one here.                 *)
(***************************************************************************)
EXTENDS SignalScheduler, FiniteSets

CONSTANTS
  Yellow,       \* yellow_sec
  AllRed,       \* all_red_sec
  MinGreen,     \* min_green_sec
  MaxGreen,     \* max_green_sec
  StepSizes,    \* the dt a step may have
  CycleCap      \* bound of the model: the cycle counter stops here

ASSUME SimulationAssumption ==
  /\ Yellow \in Nat \ {0} /\ AllRed \in Nat \ {0}
  /\ MinGreen \in Nat \ {0} /\ MaxGreen \in Nat /\ MinGreen <= MaxGreen
  /\ StepSizes \subseteq Nat \ {0}
  /\ CycleCap \in Nat

VARIABLES
  phase,        \* sim_phase_state
  activeLane,   \* sim_active_lane, or -1
  remaining,    \* sim_remaining_sec
  camera,       \* sim_camera_status
  stalled,      \* sim_ai_stalled
  cursor,       \* sim_scheduler._next_cycle_index
  served,       \* sim_lanes_served_in_cycle
  cycleCount    \* sim_cycle_count

signalVars == <<phase, activeLane, remaining>>
cycleVars == <<cursor, served, cycleCount>>
simVars == <<signalVars, camera, stalled, cycleVars>>

Stat == {"empty", "occupied", "emergency"}
CameraStatus == {"HEALTHY", "OFFLINE"}

SimInit ==
  /\ phase = "ALL_RED" /\ activeLane = -1 /\ remaining = 0
  /\ camera = [l \in Lane |-> "HEALTHY"]
  /\ stalled = FALSE
  /\ cursor = 0
  /\ served = {} /\ cycleCount = 0

Green(l) == phase = "GREEN" /\ activeLane = l

(* A hold forgets the approach and the rest of its time.                   *)
Hold == phase' = "ALL_RED" /\ activeLane' = -1 /\ remaining' = 0

Enter(colour, duration) == phase' = colour /\ remaining' = duration /\ UNCHANGED activeLane

-----------------------------------------------------------------------------
(* Mutant of CameraChanges: a dropped camera is only noted.                *)
CameraChanges_Noted(l, status) ==
  /\ camera' = [camera EXCEPT ![l] = status]
  /\ UNCHANGED <<signalVars, stalled, cycleVars>>

(* trigger_camera_dropout: whatever the new status, a green of that        *)
(* approach turns yellow.                                                  *)
CameraChanges(l, status) ==
  /\ camera' = [camera EXCEPT ![l] = status]
  /\ IF Green(l) THEN Enter("YELLOW", Yellow) ELSE UNCHANGED signalVars
  /\ UNCHANGED <<stalled, cycleVars>>

AiStalls ==
  /\ stalled' = TRUE
  /\ Hold
  /\ UNCHANGED <<camera, cycleVars>>

AiRecovers ==
  /\ stalled' = FALSE
  /\ UNCHANGED <<signalVars, camera, cycleVars>>

-----------------------------------------------------------------------------
(***************************************************************************)
(* step_simulation(dt, demands), one operator for each way it may end.     *)
(***************************************************************************)
MustHold == stalled \/ \A l \in Lane : camera[l] = "OFFLINE"

SimHolds == MustHold /\ Hold /\ UNCHANGED cycleVars

StepCountsDown(dt) ==
  /\ ~MustHold
  /\ remaining > dt
  /\ remaining' = remaining - dt
  /\ UNCHANGED <<phase, activeLane, cycleVars>>

(* Mutants: a green that ends in all-red, an all-red that takes no time.   *)
GreenEnds_AllRed(dt) ==
  /\ ~MustHold /\ phase = "GREEN" /\ remaining <= dt
  /\ Enter("ALL_RED", AllRed)
  /\ UNCHANGED cycleVars

YellowEnds_NoAllRed(dt) ==
  /\ ~MustHold /\ phase = "YELLOW" /\ remaining <= dt
  /\ Enter("ALL_RED", 0)
  /\ UNCHANGED cycleVars

GreenEnds(dt) ==
  /\ ~MustHold /\ phase = "GREEN" /\ remaining <= dt
  /\ Enter("YELLOW", Yellow)
  /\ UNCHANGED cycleVars

YellowEnds(dt) ==
  /\ ~MustHold /\ phase = "YELLOW" /\ remaining <= dt
  /\ Enter("ALL_RED", AllRed)
  /\ UNCHANGED cycleVars

(* An offline camera's statistics do not count.                            *)
Demand(stats) == {l \in Lane : camera[l] # "OFFLINE" /\ stats[l] # "empty"}
EmergencyDemand(stats) == {l \in Demand(stats) : stats[l] = "emergency"}

(* A cycle is over when every approach was served in it, or when one is    *)
(* served again.                                                           *)
CountServed(l) ==
  IF l \in served \/ Cardinality(served) >= NumLanes
  THEN served' = {l} /\ cycleCount' = Smaller(cycleCount + 1, CycleCap)
  ELSE IF Cardinality(served \cup {l}) = NumLanes
  THEN served' = {} /\ cycleCount' = Smaller(cycleCount + 1, CycleCap)
  ELSE served' = served \cup {l} /\ UNCHANGED cycleCount

AllRedEnds(dt, stats) ==
  /\ ~MustHold /\ phase = "ALL_RED" /\ remaining <= dt
  /\ \/ /\ Demand(stats) = {}
        /\ Hold
        /\ UNCHANGED cycleVars
     \/ \E l \in SelectEligible(Demand(stats), EmergencyDemand(stats), cursor) :
          /\ phase' = "GREEN" /\ activeLane' = l
          /\ remaining' \in MinGreen .. MaxGreen
          /\ cursor' = AdvanceAfter(l)
          /\ CountServed(l)

StepSimulation(dt) ==
  /\ UNCHANGED <<camera, stalled>>
  /\ \/ SimHolds
     \/ StepCountsDown(dt)
     \/ GreenEnds(dt)
     \/ YellowEnds(dt)
     \/ \E stats \in [Lane -> Stat] : AllRedEnds(dt, stats)

CameraEvent == \E l \in Lane, status \in CameraStatus : CameraChanges(l, status)

SimNext ==
  \/ CameraEvent
  \/ AiStalls
  \/ AiRecovers
  \/ \E dt \in StepSizes : StepSimulation(dt)

SimSpec == SimInit /\ [][SimNext]_simVars

-----------------------------------------------------------------------------
(* A cycle under way has served some approaches and never all: the second  *)
(* test of CountServed's first condition never decides.                    *)
SimTypeOK ==
  /\ phase \in {"GREEN", "YELLOW", "ALL_RED"}
  /\ activeLane \in Lane \cup {-1}
  /\ phase # "ALL_RED" => activeLane \in Lane /\ remaining > 0
  /\ remaining \in 0 .. Larger(MaxGreen, Larger(Yellow, AllRed))
  /\ camera \in [Lane -> CameraStatus]
  /\ stalled \in BOOLEAN
  /\ cursor \in Lane
  /\ served \subseteq Lane /\ (NumLanes > 1 => Cardinality(served) < NumLanes)
  /\ cycleCount \in 0 .. CycleCap

(***************************************************************************)
(* _build_sim_snapshot: what the dashboard is told.                        *)
(***************************************************************************)
Signal(l) == IF activeLane = l /\ phase # "ALL_RED" THEN phase ELSE "RED"

SafetyStatus ==
  IF MustHold THEN "ALL_RED_HOLD"
  ELSE IF \E l \in Lane : camera[l] # "HEALTHY" THEN "DEGRADED"
  ELSE "NORMAL"

Snapshot ==
  [active_phase |-> IF activeLane \in Lane /\ phase # "ALL_RED" THEN <<activeLane, phase>>
                    ELSE <<"all_red">>,
   remaining |-> remaining,
   approaches |-> [l \in Lane |-> [camera_status |-> camera[l], signal |-> Signal(l)]],
   safety_status |-> SafetyStatus,
   cycle_count |-> cycleCount]

(***************************************************************************)
(* docs/ARCHITECTURE.md: "Active camera dropout initiates yellow clearance *)
(* to safe red; AI stall immediately triggers ALL_RED_HOLD": no snapshot   *)
(* shows an approach green whose camera it calls offline, or a green in a  *)
(* hold, at whatever moment of a phase cameras and AI fail; what it calls  *)
(* the active phase is the one approach that is not red.                   *)
(***************************************************************************)
GreenIsWatched ==
  /\ \A l \in Lane :
       Snapshot.approaches[l].signal = "GREEN" =>
         /\ Snapshot.approaches[l].camera_status # "OFFLINE"
         /\ Snapshot.safety_status # "ALL_RED_HOLD"
  /\ {l \in Lane : Snapshot.approaches[l].signal # "RED"}
       = IF Snapshot.active_phase = <<"all_red">> THEN {} ELSE {Snapshot.active_phase[1]}

Abstract == INSTANCE SignalHead WITH Lanes <- Lane, lane <- activeLane, colour <- phase

(***************************************************************************)
(* The simulation shows the same colour order as the pipeline: it          *)
(* implements the abstract signal head, which only a hold cuts short.      *)
(***************************************************************************)
SimulationImplementsHead == Abstract!HeadSpec
=============================================================================
