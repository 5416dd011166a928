--------------------------- MODULE TrafficPipeline ---------------------------
(***************************************************************************)
(* The phase machine of ai/pipeline/traffic_pipeline.py: what one call of  *)
(* process_step does to the lane statistics, to the active decision and to *)
(* the hardware command, with time passing between the calls.              *)
(*                                                                         *)
(* Time is counted in ticks, Second ticks to a second, and every timestamp *)
(* of the code is kept as the time that has passed since it (elapsed for   *)
(* phase_start_time, age for lane_last_seen, emptyFor for                  *)
(* _active_empty_since, sinceDet for _last_detection_ts).  A timer stops   *)
(* at a cap beyond which the code no longer tells its values apart.        *)
(*                                                                         *)
(* A frame is processed up to FrameWait after its receipt.  The code takes *)
(* the age of a lane, of the phase and of an empty approach from the       *)
(* processing (time.monotonic() in the step), but the cadence of the       *)
(* detector from the receipt (the frame's timestamp).                      *)
(*                                                                         *)
(* A lane statistic is reduced to what the scheduler tells apart: no       *)
(* vehicle (raw_count = 0), vehicles, or vehicles with a priority vehicle. *)
(***************************************************************************)
EXTENDS SignalScheduler

CONSTANTS
  Second,           \* ticks in a second
  Yellow,           \* YELLOW_SEC, in ticks
  AllRed,           \* ALL_RED_SEC, in ticks
  Release,          \* EMPTY_LANE_RELEASE_SEC, in ticks
  Stale,            \* the 3.0 s after which a lane's statistics are stale, in ticks
  DetectorPeriod,   \* 1 / DETECTOR_FPS, in ticks
  FrameWait,        \* longest time from the receipt of a frame to its processing, in ticks
  MinGreen,         \* MIN_GREEN_SEC, in seconds
  MaxGreen,         \* MAX_GREEN_SEC, in seconds
  GreenBounds,      \* the pairs <<min, max>> (seconds) an operator may configure
  Arrivals,         \* the sets of lanes whose frames one call of process_step gets
  EmergencyLanes,   \* the lanes whose detector may report a priority vehicle
  Disconnects,      \* whether a frame set may hold a disconnected camera (main.py)
  OperatorResets,   \* whether STOP and RESTART reset the phase
  PhaseCap,         \* bound of the model: phase counters stop here
  ElapsedCap        \* bound of the model: the phase clock stops here

Bounds == GreenBounds \cup {<<MinGreen, MaxGreen>>}

ASSUME TimingAssumption ==
  /\ Second \in Nat \ {0}
  /\ Yellow \in Nat /\ Yellow >= Second
  /\ AllRed \in Nat \ {0}
  /\ Release \in Nat /\ Release >= Second
  /\ Stale \in Nat \ {0}
  /\ DetectorPeriod \in Nat
  /\ FrameWait \in Nat

ASSUME BoundsAssumption ==
  /\ Bounds \subseteq (Nat \ {0}) \X (Nat \ {0})
  /\ \A b \in Bounds : b[1] <= b[2]
  /\ PhaseCap \in Nat
  /\ ElapsedCap \in Nat
  /\ \A b \in Bounds : ElapsedCap >= b[2] * Second + Yellow + AllRed

ASSUME InputAssumption ==
  /\ Arrivals \subseteq SUBSET Lane
  /\ EmergencyLanes \subseteq Lane
  /\ Disconnects \in BOOLEAN
  /\ OperatorResets \in BOOLEAN

Stat == {"empty", "occupied", "emergency"}
Payload == Stat \cup {"projected", "disconnected"}

NoDecision == [lane |-> -1, green |-> 0, emergency |-> FALSE, id |-> 0]
NoCommand == [lane |-> -1, green |-> 0, id |-> 0]
NotEmpty == -1      \* _active_empty_since is None

AgeCap == Stale + 1
DetectionCap == DetectorPeriod + FrameWait     \* the detector is due for every frame

VARIABLES
  hist,         \* ctx.lane_stats_history: the statistic last kept for each lane
  auth,         \* _last_authoritative_stats: the last detector result of each lane
  age,          \* time since ctx.lane_last_seen of each lane
  sinceDet,     \* time since the receipt of the frame the detector last ran on
  active,       \* active_decision; its green is in ticks
  elapsed,      \* time since phase_start_time
  emptyFor,     \* time since _active_empty_since, or NotEmpty
  cursor,       \* signal_scheduler._next_cycle_index
  bounds,       \* <<min_green_sec, max_green_sec>> of the scheduler
  phaseCounter, \* TrafficPipeline.phase_counter
  commandCounter,   \* SignalController.phase_counter
  command       \* active_hardware_cmd

laneVars == <<hist, auth, age, sinceDet>>
phaseVars == <<active, elapsed, emptyFor, cursor, phaseCounter, commandCounter, command>>
vars == <<hist, auth, age, sinceDet, active, elapsed, emptyFor, cursor, bounds,
          phaseCounter, commandCounter, command>>

TypeOK ==
  /\ hist \in [Lane -> Stat]
  /\ auth \in [Lane -> Stat]
  /\ age \in [Lane -> 0 .. AgeCap]
  /\ sinceDet \in [Lane -> 0 .. DetectionCap]
  /\ active \in [lane : Lane \cup {-1}, green : Nat, emergency : BOOLEAN, id : 0 .. PhaseCap]
  /\ elapsed \in 0 .. ElapsedCap
  /\ emptyFor \in {NotEmpty} \cup 0 .. Release
  /\ cursor \in Lane
  /\ bounds \in Bounds
  /\ phaseCounter \in 0 .. PhaseCap
  /\ commandCounter \in 0 .. PhaseCap
  /\ command \in [lane : Lane \cup {-1}, green : Nat, id : 0 .. PhaseCap]

HasDecision == active # NoDecision

(***************************************************************************)
(* PipelineResult.signal_state, evaluated now.                             *)
(***************************************************************************)
SignalState ==
  IF ~HasDecision THEN "ALL_RED"
  ELSE IF elapsed < active.green THEN "GREEN"
  ELSE IF elapsed < active.green + Yellow THEN "YELLOW"
  ELSE "ALL_RED"

Green(l) == active.lane = l /\ SignalState = "GREEN"

Init ==
  /\ hist = [l \in Lane |-> "empty"]
  /\ auth = [l \in Lane |-> "empty"]
  /\ age = [l \in Lane |-> AgeCap]
  /\ sinceDet = [l \in Lane |-> DetectionCap]
  /\ active = NoDecision
  /\ elapsed = ElapsedCap
  /\ emptyFor = NotEmpty
  /\ cursor = 0
  /\ bounds = <<MinGreen, MaxGreen>>
  /\ phaseCounter = 0
  /\ commandCounter = 0
  /\ command = NoCommand

-----------------------------------------------------------------------------
(***************************************************************************)
(* The first half of process_step: what the frames say about the lanes.    *)
(* frames is a function from the lanes with a frame to what it holds.      *)
(***************************************************************************)

(* Between its receipt and its step a frame waits for its batch, behind    *)
(* other batches and for the detector.  A batch refuses frames older than  *)
(* 2.5 s when it begins, and again those the detector is not due for.      *)
Waits == 0 .. FrameWait

(* frame_ts - last_detection_ts, for a frame received waited ticks ago.    *)
DetectorDue(l, waited) == sinceDet[l] - waited >= DetectorPeriod

(* A connected frame gets a detector result when the detector is due and a *)
(* projection of the last one otherwise.  A lane's frames are processed in *)
(* the order of their receipt.                                             *)
FrameMayHold(l, p, waited) ==
  /\ waited <= sinceDet[l]
  /\ \/ p = "disconnected" /\ Disconnects
     \/ p = "projected" /\ ~DetectorDue(l, waited)
     \/ /\ p \in Stat
        /\ DetectorDue(l, waited)
        /\ p = "emergency" => l \in EmergencyLanes

Detected(frames) == {l \in DOMAIN frames : frames[l] \in Stat}

StatOf(l, p) ==
  IF p = "disconnected" THEN "empty" ELSE IF p = "projected" THEN auth[l] ELSE p

(* Lanes without a frame keep their history until it is stale.             *)
MergedStat(frames, l) ==
  IF l \in DOMAIN frames THEN StatOf(l, frames[l])
  ELSE IF age[l] > Stale THEN "empty" ELSE hist[l]

(* Mutant of ObserveFrames: every known lane is marked as seen.            *)
ObserveFrames_RefreshesAll(frames) ==
  \E waited \in [DOMAIN frames -> Waits] :
    /\ \A l \in DOMAIN frames : FrameMayHold(l, frames[l], waited[l])
    /\ hist' = [l \in Lane |-> MergedStat(frames, l)]
    /\ auth' = [l \in Lane |-> IF l \in Detected(frames) THEN frames[l] ELSE auth[l]]
    /\ age' = [l \in Lane |-> 0]
    /\ sinceDet' = [l \in Lane |-> IF l \in Detected(frames) THEN waited[l] ELSE sinceDet[l]]

ObserveFrames(frames) ==
  \E waited \in [DOMAIN frames -> Waits] :
    /\ \A l \in DOMAIN frames : FrameMayHold(l, frames[l], waited[l])
    /\ hist' = [l \in Lane |-> MergedStat(frames, l)]
    /\ auth' = [l \in Lane |-> IF l \in Detected(frames) THEN frames[l] ELSE auth[l]]
    /\ age' = [l \in Lane |-> IF l \in DOMAIN frames THEN 0 ELSE age[l]]
    /\ sinceDet' = [l \in Lane |-> IF l \in Detected(frames) THEN waited[l] ELSE sinceDet[l]]

(***************************************************************************)
(* The second half: what the merged statistics (hist' and age') do to the  *)
(* phase.  An active approach seen empty for Release ends its green early, *)
(* at the last whole second.                                               *)
(***************************************************************************)
ActiveSeen(frames) == HasDecision /\ active.lane \in DOMAIN frames
ActiveEmpty(frames) == ActiveSeen(frames) /\ hist'[active.lane] = "empty"

EmptyForNow(frames) ==
  IF ActiveEmpty(frames) THEN Larger(emptyFor, 0)
  ELSE IF ActiveSeen(frames) THEN NotEmpty
  ELSE emptyFor

WholeSeconds(t) == t - (t % Second)

(* Mutant of ReleasesEarly: no confirmation window.                        *)
ReleasesEarly_AtOnce(frames) ==
  /\ ActiveEmpty(frames)
  /\ elapsed < active.green

ReleasesEarly(frames) ==
  /\ ActiveEmpty(frames)
  /\ emptyFor >= Release
  /\ elapsed < active.green

GreenNow(frames) ==
  IF ReleasesEarly(frames) THEN Larger(Second, WholeSeconds(elapsed)) ELSE active.green

(* Mutants of Expired: the phase ends before its all-red, or its yellow.   *)
Expired_NoAllRed(frames) == HasDecision => elapsed >= GreenNow(frames) + Yellow
Expired_NoClearance(frames) == HasDecision => elapsed >= GreenNow(frames)

Expired(frames) == HasDecision => elapsed >= GreenNow(frames) + Yellow + AllRed

Preempted ==
  /\ HasDecision
  /\ ~active.emergency
  /\ \E l \in Lane : hist'[l] = "emergency"

PhaseChanges(frames) == Expired(frames) \/ Preempted

Demand == {l \in Lane : age'[l] < Stale /\ hist'[l] # "empty"}
EmergencyDemand == {l \in Demand : hist'[l] = "emergency"}

GreenChoices == {s * Second : s \in bounds[1] .. bounds[2]}

Bump(counter) == Smaller(counter + 1, PhaseCap)

-----------------------------------------------------------------------------
(***************************************************************************)
(* process_step: the three ways the second half may end.                   *)
(***************************************************************************)
KeepPhase(frames) ==
  /\ ~PhaseChanges(frames)
  /\ active' = [active EXCEPT !.green = GreenNow(frames)]
  /\ emptyFor' = EmptyForNow(frames)
  /\ UNCHANGED <<elapsed, cursor, phaseCounter, commandCounter, command>>

(* Mutant of HoldAllRed: the last hardware command stays active.           *)
HoldAllRed_KeepsCommand(frames) ==
  /\ PhaseChanges(frames)
  /\ Demand = {}
  /\ active' = NoDecision
  /\ phaseCounter' = Bump(phaseCounter)
  /\ emptyFor' = EmptyForNow(frames)
  /\ UNCHANGED <<elapsed, cursor, commandCounter, command>>

(* No fresh approach has demand: all-red, yet a phase number is used up.   *)
HoldAllRed(frames) ==
  /\ PhaseChanges(frames)
  /\ Demand = {}
  /\ active' = NoDecision
  /\ command' = NoCommand
  /\ phaseCounter' = Bump(phaseCounter)
  /\ emptyFor' = EmptyForNow(frames)
  /\ UNCHANGED <<elapsed, cursor, commandCounter>>

(* The scheduler's decision, and the controller's command for it, which    *)
(* has a number of its own.                                                *)
DecisionFor(l, g, id) ==
  [lane |-> l, green |-> g, emergency |-> hist'[l] = "emergency", id |-> id]
CommandFor(decision, id) == [lane |-> decision.lane, green |-> decision.green, id |-> id]

(* A new phase for lane l with a green of g ticks.                         *)
Grant(frames, l, g) ==
  /\ PhaseChanges(frames)
  /\ l \in SelectEligible(Demand, EmergencyDemand, cursor)
  /\ phaseCounter' = Bump(phaseCounter)
  /\ commandCounter' = Bump(commandCounter)
  /\ active' = DecisionFor(l, g, phaseCounter')
  /\ command' = CommandFor(active', commandCounter')
  /\ cursor' = AdvanceAfter(l)
  /\ elapsed' = 0
  /\ emptyFor' = NotEmpty

-----------------------------------------------------------------------------
(***************************************************************************)
(* One call of process_step.  The cameras call it with the frames of some  *)
(* lanes, the ticker with none while a phase is active; without frames and *)
(* without a phase it returns at once.                                     *)
(***************************************************************************)
NoFrames == [l \in {} |-> "empty"]
CameraFrames == UNION {[lanes -> Payload] : lanes \in Arrivals}
Inputs == CameraFrames \cup {NoFrames}

StepBegins(frames) ==
  /\ DOMAIN frames # {} \/ HasDecision
  /\ ObserveFrames(frames)
  /\ UNCHANGED bounds

ContinueStep(frames) == StepBegins(frames) /\ (KeepPhase(frames) \/ HoldAllRed(frames))

GrantStep(frames, l) == StepBegins(frames) /\ \E g \in GreenChoices : Grant(frames, l, g)

ProcessStep(frames) == ContinueStep(frames) \/ \E l \in Lane : GrantStep(frames, l)

CameraStep == \E frames \in CameraFrames : ProcessStep(frames)

TickerStep == ProcessStep(NoFrames)

(***************************************************************************)
(* STOP and RESTART of server/runtime.py forget the phase under the        *)
(* pipeline's lock; CONFIGURE replaces the green bounds under it.          *)
(***************************************************************************)
ResetPhase ==
  /\ OperatorResets
  /\ HasDecision
  /\ active' = NoDecision
  /\ command' = NoCommand
  /\ UNCHANGED <<laneVars, elapsed, emptyFor, cursor, bounds, phaseCounter, commandCounter>>

Configure ==
  /\ bounds' \in GreenBounds
  /\ UNCHANGED <<laneVars, phaseVars>>

Tick ==
  /\ elapsed' = Smaller(elapsed + 1, ElapsedCap)
  /\ age' = [l \in Lane |-> Smaller(age[l] + 1, AgeCap)]
  /\ sinceDet' = [l \in Lane |-> Smaller(sinceDet[l] + 1, DetectionCap)]
  /\ emptyFor' = IF emptyFor = NotEmpty THEN NotEmpty ELSE Smaller(emptyFor + 1, Release)
  /\ UNCHANGED <<hist, auth, active, cursor, bounds, phaseCounter, commandCounter, command>>

Next == CameraStep \/ TickerStep \/ ResetPhase \/ Configure \/ Tick

Spec == Init /\ [][Next]_vars

(***************************************************************************)
(* Time passes, and the ticker of server/runtime.py comes round every half *)
(* second whatever the cameras do.                                         *)
(***************************************************************************)
FairSpec == Spec /\ WF_vars(Tick) /\ WF_vars(TickerStep)

-----------------------------------------------------------------------------
(***************************************************************************)
(* The hardware is told about the phase the software runs: there is a      *)
(* command exactly while there is a decision, for the same approach, and   *)
(* the software only ever ends a green sooner than the hardware was told.  *)
(***************************************************************************)
CommandMatchesDecision ==
  /\ HasDecision <=> command # NoCommand
  /\ command.lane = active.lane
  /\ active.green <= command.green

(* The inductive form: a decision names an approach and lasts a second.    *)
PhaseInv ==
  /\ CommandMatchesDecision
  /\ HasDecision <=> active.lane \in Lane
  /\ HasDecision => Second <= active.green

(***************************************************************************)
(* An approach that keeps fresh demand gets its green in the end.          *)
(***************************************************************************)
FreshDemand(l) == age[l] < Stale /\ hist[l] # "empty"

DemandIsServed == \A l \in Lane : <>[]FreshDemand(l) => []<>Green(l)
=============================================================================
