------------------------ MODULE TrafficPipelineProofs ------------------------
(***************************************************************************)
(* What holds of the phase machine for any number of approaches, any       *)
(* timing constants and any pattern of frames: its types and commands, how *)
(* old the evidence behind a lane's demand can be, on which results of the *)
(* detector a green is cut, and, as long as no approach reports an         *)
(* emergency, that one with demand is passed over fewer than NumLanes      *)
(* times in a row; and the clearance between greens while nothing preempts *)
(* a phase, though an operator may reset it.  Also what the scheduler's    *)
(* operators return: one approach, and a green that grows with the load.   *)
(***************************************************************************)
EXTENDS DetectorEvidence, ServiceOrder, ClearanceTiming, NaturalsInduction,
        WellFoundedInduction, TLAPS

-----------------------------------------------------------------------------
(* The cursor stays on an approach.                                        *)
LEMMA AdvanceAfterType ==
  ASSUME NEW l \in Lane
  PROVE  AdvanceAfter(l) \in Lane
BY NumLanesAssumption DEF AdvanceAfter, Lane

(* Rounding down to a whole second loses less than a second.               *)
LEMMA WholeSecondsRange ==
  ASSUME NEW t \in Nat
  PROVE  /\ WholeSeconds(t) \in Nat
         /\ WholeSeconds(t) <= t
         /\ t - WholeSeconds(t) <= Second - 1
<1>1. t % Second \in 0 .. Second - 1
  BY TimingAssumption
<1>2. t % Second <= t
  BY TimingAssumption
<1> QED BY <1>1, <1>2, TimingAssumption DEF WholeSeconds

(* What select_eligible returns has demand.                                *)
LEMMA SelectedHasDemand ==
  ASSUME NEW demand, NEW emergency \in SUBSET demand, NEW c,
         NEW l \in SelectEligible(demand, emergency, c)
  PROVE  l \in demand
BY DEF SelectEligible

(* The frames of one call belong to lanes and hold what frames may hold.   *)
LEMMA InputsAreFrames ==
  ASSUME NEW frames \in Inputs
  PROVE  /\ DOMAIN frames \subseteq Lane
         /\ \A l \in DOMAIN frames : frames[l] \in Payload
<1>1. CASE frames = NoFrames
  BY <1>1 DEF NoFrames
<1>2. CASE frames \in CameraFrames
  <2>1. PICK lanes \in Arrivals : frames \in [lanes -> Payload]
    BY <1>2 DEF CameraFrames
  <2> QED BY <2>1, InputAssumption
<1> QED BY <1>1, <1>2 DEF Inputs

-----------------------------------------------------------------------------
(* What observing frames does to one lane, however long each has waited.   *)
LEMMA ObserveLane ==
  ASSUME TypeOK, NEW frames \in Inputs, ObserveFrames(frames), NEW l \in Lane
  PROVE  /\ hist'[l] = MergedStat(frames, l)
         /\ auth'[l] = IF l \in Detected(frames) THEN frames[l] ELSE auth[l]
         /\ age'[l] = IF l \in DOMAIN frames THEN 0 ELSE age[l]
         /\ IF l \in Detected(frames) THEN sinceDet'[l] \in Waits ELSE sinceDet'[l] = sinceDet[l]
         /\ l \in DOMAIN frames
              => \/ frames[l] = "disconnected" /\ Disconnects
                 \/ frames[l] = "projected" /\ sinceDet[l] < DetectionCap
                 \/ l \in Detected(frames) /\ (frames[l] = "emergency" => l \in EmergencyLanes)
<1>1. PICK waited \in [DOMAIN frames -> Waits] :
        /\ \A k \in DOMAIN frames : FrameMayHold(k, frames[k], waited[k])
        /\ hist' = [k \in Lane |-> MergedStat(frames, k)]
        /\ auth' = [k \in Lane |-> IF k \in Detected(frames) THEN frames[k] ELSE auth[k]]
        /\ age' = [k \in Lane |-> IF k \in DOMAIN frames THEN 0 ELSE age[k]]
        /\ sinceDet' = [k \in Lane |-> IF k \in Detected(frames) THEN waited[k] ELSE sinceDet[k]]
  BY DEF ObserveFrames
<1>2. IF l \in Detected(frames) THEN sinceDet'[l] \in Waits ELSE sinceDet'[l] = sinceDet[l]
  BY <1>1 DEF Detected
<1>3. ASSUME l \in DOMAIN frames
      PROVE  \/ frames[l] = "disconnected" /\ Disconnects
             \/ frames[l] = "projected" /\ sinceDet[l] < DetectionCap
             \/ l \in Detected(frames) /\ (frames[l] = "emergency" => l \in EmergencyLanes)
  <2>1. FrameMayHold(l, frames[l], waited[l]) /\ waited[l] \in 0 .. FrameWait
    BY <1>1, <1>3 DEF Waits
  <2>2. sinceDet[l] \in Nat
    BY TimingAssumption DEF TypeOK, DetectionCap
  <2>3. ~DetectorDue(l, waited[l]) => sinceDet[l] < DetectionCap
    BY <2>1, <2>2, TimingAssumption DEF DetectorDue, DetectionCap
  <2> QED BY <1>3, <2>1, <2>3 DEF FrameMayHold, Detected
<1> QED BY <1>1, <1>2, <1>3

(* Observing frames leaves well-typed lane statistics.                     *)
LEMMA ObserveFramesType ==
  ASSUME TypeOK, NEW frames \in Inputs, ObserveFrames(frames)
  PROVE  /\ hist' \in [Lane -> Stat]
         /\ auth' \in [Lane -> Stat]
         /\ age' \in [Lane -> 0 .. AgeCap]
         /\ sinceDet' \in [Lane -> 0 .. DetectionCap]
<1> USE InputsAreFrames
<1>1. ASSUME NEW l \in Lane PROVE MergedStat(frames, l) \in Stat
  <2>1. CASE l \in DOMAIN frames
    <3>1. frames[l] \in Payload /\ auth[l] \in Stat
      BY <2>1 DEF TypeOK
    <3>2. StatOf(l, frames[l]) \in Stat
      BY <3>1 DEF StatOf, Payload, Stat
    <3> QED BY <2>1, <3>2 DEF MergedStat
  <2>2. CASE l \notin DOMAIN frames
    BY <2>2 DEF MergedStat, TypeOK, Stat
  <2> QED BY <2>1, <2>2
<1>2. hist' \in [Lane -> Stat]
  BY <1>1, Zenon DEF ObserveFrames
<1>3. ASSUME NEW l \in Lane
      PROVE  (IF l \in Detected(frames) THEN frames[l] ELSE auth[l]) \in Stat
  BY DEF Detected, TypeOK
<1>4. auth' \in [Lane -> Stat]
  BY <1>3, Zenon DEF ObserveFrames
<1>5. age' \in [Lane -> 0 .. AgeCap]
  BY TimingAssumption DEF ObserveFrames, TypeOK, AgeCap
<1>6. sinceDet' \in [Lane -> 0 .. DetectionCap]
  <2>1. PICK waited \in [DOMAIN frames -> Waits] :
          sinceDet' = [l \in Lane |-> IF l \in Detected(frames) THEN waited[l] ELSE sinceDet[l]]
    BY DEF ObserveFrames
  <2>2. Waits \subseteq 0 .. DetectionCap
    BY TimingAssumption DEF Waits, DetectionCap
  <2> QED BY <2>1, <2>2 DEF Detected, TypeOK
<1> QED BY <1>2, <1>4, <1>5, <1>6

(* The green a step leaves to the running phase is a duration, and no      *)
(* longer than before.                                                     *)
LEMMA GreenNowType ==
  ASSUME TypeOK, NEW frames
  PROVE  /\ GreenNow(frames) \in Nat
         /\ Second <= active.green => GreenNow(frames) <= active.green
<1>1. elapsed \in Nat /\ active.green \in Nat
  BY BoundsAssumption DEF TypeOK
<1>2. CASE ~ReleasesEarly(frames)
  BY <1>1, <1>2 DEF GreenNow
<1>3. CASE ReleasesEarly(frames)
  <2>1. GreenNow(frames) = Larger(Second, WholeSeconds(elapsed))
    BY <1>3 DEF GreenNow
  <2>2. elapsed < active.green
    BY <1>3 DEF ReleasesEarly
  <2> QED BY <1>1, <2>1, <2>2, WholeSecondsRange, TimingAssumption DEF Larger
<1> QED BY <1>2, <1>3

LEMMA EmptyForNowType ==
  ASSUME TypeOK, NEW frames
  PROVE  EmptyForNow(frames) \in {NotEmpty} \cup 0 .. Release
BY TimingAssumption DEF EmptyForNow, TypeOK, NotEmpty, Larger

LEMMA BumpType ==
  ASSUME NEW c \in 0 .. PhaseCap
  PROVE  Bump(c) \in 0 .. PhaseCap
BY BoundsAssumption DEF Bump, Smaller

(* Every green that can be granted lasts at least a second.                *)
LEMMA GreenChoicesType ==
  ASSUME TypeOK, NEW g \in GreenChoices
  PROVE  g \in Nat /\ Second <= g
<1>1. PICK s \in bounds[1] .. bounds[2] : g = s * Second
  BY DEF GreenChoices
<1>2. bounds \in (Nat \ {0}) \X (Nat \ {0})
  BY BoundsAssumption DEF TypeOK
<1>3. s \in Nat /\ 1 <= s
  BY <1>1, <1>2
<1>4. s * Second \in Nat
  BY <1>3, TimingAssumption
<1>5. s * Second = Second + (s - 1) * Second
  BY <1>3, TimingAssumption
<1>6. (s - 1) * Second \in Nat
  BY <1>3, TimingAssumption
<1> QED BY <1>1, <1>4, <1>5, <1>6, TimingAssumption

-----------------------------------------------------------------------------
(***************************************************************************)
(* Type correctness, one step per action; process_step is split into its   *)
(* three outcomes.                                                         *)
(***************************************************************************)
LEMMA ContinueStepType ==
  ASSUME TypeOK, NEW frames \in Inputs, ContinueStep(frames)
  PROVE  TypeOK'
<1> USE DEF ContinueStep, StepBegins
<1>1. /\ hist' \in [Lane -> Stat]
      /\ auth' \in [Lane -> Stat]
      /\ age' \in [Lane -> 0 .. AgeCap]
      /\ sinceDet' \in [Lane -> 0 .. DetectionCap]
  BY ObserveFramesType
<1>2. bounds' \in Bounds
  BY DEF TypeOK
<1>3. CASE KeepPhase(frames)
  <2>1. active' \in [lane : Lane \cup {-1}, green : Nat, emergency : BOOLEAN, id : 0 .. PhaseCap]
    BY <1>3, GreenNowType DEF KeepPhase, TypeOK
  <2>2. emptyFor' \in {NotEmpty} \cup 0 .. Release
    BY <1>3, EmptyForNowType DEF KeepPhase
  <2> QED BY <1>1, <1>2, <1>3, <2>1, <2>2 DEF KeepPhase, TypeOK
<1>4. CASE HoldAllRed(frames)
  <2>1. active' \in [lane : Lane \cup {-1}, green : Nat, emergency : BOOLEAN, id : 0 .. PhaseCap]
    BY <1>4, BoundsAssumption DEF HoldAllRed, NoDecision
  <2>2. command' \in [lane : Lane \cup {-1}, green : Nat, id : 0 .. PhaseCap]
    BY <1>4, BoundsAssumption DEF HoldAllRed, NoCommand
  <2>3. emptyFor' \in {NotEmpty} \cup 0 .. Release
    BY <1>4, EmptyForNowType DEF HoldAllRed
  <2>4. phaseCounter' \in 0 .. PhaseCap
    BY <1>4, BumpType DEF HoldAllRed, TypeOK
  <2> QED BY <1>1, <1>2, <1>4, <2>1, <2>2, <2>3, <2>4 DEF HoldAllRed, TypeOK
<1> QED BY <1>3, <1>4

LEMMA GrantStepType ==
  ASSUME TypeOK, NEW frames \in Inputs, NEW l \in Lane, GrantStep(frames, l)
  PROVE  TypeOK'
<1> USE DEF GrantStep, StepBegins
<1>1. /\ hist' \in [Lane -> Stat]
      /\ auth' \in [Lane -> Stat]
      /\ age' \in [Lane -> 0 .. AgeCap]
      /\ sinceDet' \in [Lane -> 0 .. DetectionCap]
  BY ObserveFramesType
<1>2. bounds' \in Bounds
  BY DEF TypeOK
<1>3. PICK g \in GreenChoices : Grant(frames, l, g)
  OBVIOUS
<1>4. g \in Nat
  BY GreenChoicesType
<1>5. phaseCounter' \in 0 .. PhaseCap /\ commandCounter' \in 0 .. PhaseCap
  BY <1>3, BumpType DEF Grant, DecisionFor, CommandFor, TypeOK
<1>6. active' \in [lane : Lane \cup {-1}, green : Nat, emergency : BOOLEAN, id : 0 .. PhaseCap]
  BY <1>3, <1>4, <1>5 DEF Grant, DecisionFor, CommandFor
<1>7. command' \in [lane : Lane \cup {-1}, green : Nat, id : 0 .. PhaseCap]
  BY <1>3, <1>4, <1>5 DEF Grant, DecisionFor, CommandFor
<1>8. cursor' \in Lane /\ elapsed' \in 0 .. ElapsedCap
  BY <1>3, AdvanceAfterType, BoundsAssumption DEF Grant, DecisionFor, CommandFor
<1>9. emptyFor' \in {NotEmpty} \cup 0 .. Release
  BY <1>3 DEF Grant, DecisionFor, CommandFor
<1> QED BY <1>1, <1>2, <1>5, <1>6, <1>7, <1>8, <1>9 DEF TypeOK

LEMMA TickType ==
  ASSUME TypeOK, Tick
  PROVE  TypeOK'
<1>1. elapsed' \in 0 .. ElapsedCap
  BY BoundsAssumption DEF Tick, TypeOK, Smaller
<1>2. age' \in [Lane -> 0 .. AgeCap]
  BY TimingAssumption DEF Tick, TypeOK, Smaller, AgeCap
<1>3. sinceDet' \in [Lane -> 0 .. DetectionCap]
  BY TimingAssumption DEF Tick, TypeOK, Smaller, DetectionCap
<1>4. emptyFor' \in {NotEmpty} \cup 0 .. Release
  BY TimingAssumption DEF Tick, TypeOK, Smaller, NotEmpty
<1> QED BY <1>1, <1>2, <1>3, <1>4 DEF Tick, TypeOK

LEMMA InitType == Init => TypeOK
<1> SUFFICES ASSUME Init PROVE TypeOK
  OBVIOUS
<1> USE DEF Init
<1>1. hist \in [Lane -> Stat] /\ auth \in [Lane -> Stat]
  BY DEF Stat
<1>2. age \in [Lane -> 0 .. AgeCap] /\ sinceDet \in [Lane -> 0 .. DetectionCap]
  BY TimingAssumption DEF AgeCap, DetectionCap
<1>3. active \in [lane : Lane \cup {-1}, green : Nat, emergency : BOOLEAN, id : 0 .. PhaseCap]
  BY BoundsAssumption DEF NoDecision
<1>4. command \in [lane : Lane \cup {-1}, green : Nat, id : 0 .. PhaseCap]
  BY BoundsAssumption DEF NoCommand
<1>5. cursor \in Lane
  BY NumLanesAssumption DEF Lane
<1>6. bounds \in Bounds
  BY DEF Bounds
<1> QED BY <1>1, <1>2, <1>3, <1>4, <1>5, <1>6, BoundsAssumption DEF TypeOK

LEMMA NextType == TypeOK /\ [Next]_vars => TypeOK'
<1> SUFFICES ASSUME TypeOK, [Next]_vars PROVE TypeOK'
  OBVIOUS
<1>1. ASSUME NEW frames \in Inputs, ProcessStep(frames) PROVE TypeOK'
  BY <1>1, ContinueStepType, GrantStepType DEF ProcessStep
<1>2. CASE CameraStep
  BY <1>1, <1>2 DEF CameraStep, Inputs
<1>3. CASE TickerStep
  BY <1>1, <1>3 DEF TickerStep, Inputs
<1>4. CASE ResetPhase
  <2>1. active' \in [lane : Lane \cup {-1}, green : Nat, emergency : BOOLEAN, id : 0 .. PhaseCap]
    BY <1>4, BoundsAssumption DEF ResetPhase, NoDecision
  <2>2. command' \in [lane : Lane \cup {-1}, green : Nat, id : 0 .. PhaseCap]
    BY <1>4, BoundsAssumption DEF ResetPhase, NoCommand
  <2> QED BY <1>4, <2>1, <2>2 DEF ResetPhase, TypeOK, laneVars
<1>5. CASE Configure
  BY <1>5 DEF Configure, TypeOK, laneVars, phaseVars, Bounds
<1>6. CASE Tick
  BY <1>6, TickType
<1>7. CASE UNCHANGED vars
  BY <1>7 DEF vars, TypeOK
<1> QED BY <1>2, <1>3, <1>4, <1>5, <1>6, <1>7 DEF Next

(***************************************************************************)
(* Every state of the phase machine has its types, for any constants.      *)
(***************************************************************************)
THEOREM TypeCorrect == Spec => []TypeOK
BY InitType, NextType, PTL DEF Spec

-----------------------------------------------------------------------------
(***************************************************************************)
(* The command belongs to the decision.  The inductive invariant PhaseInv  *)
(* adds that a decision names an approach, which tells it from NoDecision, *)
(* and that its green is never shorter than the second at which an early   *)
(* end stops: so an early end never lengthens a green.                     *)
(***************************************************************************)
LEMMA NoneIsNotALane == -1 \notin Lane
BY DEF Lane

LEMMA ContinueStepPhase ==
  ASSUME TypeOK, PhaseInv, NEW frames \in Inputs, ContinueStep(frames)
  PROVE  PhaseInv'
<1>1. CASE HoldAllRed(frames)
  BY <1>1, NoneIsNotALane
  DEF HoldAllRed, PhaseInv, CommandMatchesDecision, HasDecision, NoDecision, NoCommand
<1>2. CASE KeepPhase(frames)
  <2>1. /\ active' = [active EXCEPT !.green = GreenNow(frames)]
        /\ command' = command
    BY <1>2 DEF KeepPhase
  <2>2. CASE ~HasDecision
    <3>1. ~ReleasesEarly(frames)
      BY <2>2 DEF ReleasesEarly, ActiveEmpty, ActiveSeen
    <3>2. active' = active
      BY <2>1, <2>2, <3>1 DEF GreenNow, HasDecision, NoDecision
    <3> QED BY <2>1, <3>2 DEF PhaseInv, CommandMatchesDecision, HasDecision
  <2>3. CASE HasDecision
    <3>1. active'.lane = active.lane /\ active'.green = GreenNow(frames)
      BY <2>1 DEF TypeOK
    <3>2. active.lane \in Lane /\ Second <= active.green /\ active.green <= command.green
      BY <2>3 DEF PhaseInv, CommandMatchesDecision
    <3>3. GreenNow(frames) \in Nat /\ GreenNow(frames) <= active.green
      BY <3>2, GreenNowType
    <3>4. Second <= GreenNow(frames)
      BY <3>2, WholeSecondsRange, TimingAssumption, BoundsAssumption
      DEF GreenNow, Larger, TypeOK
    <3>5. active' # NoDecision
      BY <3>1, <3>2, NoneIsNotALane DEF NoDecision
    <3>6. active'.green <= command.green
      BY <3>1, <3>2, <3>3 DEF TypeOK
    <3> QED BY <2>1, <2>3, <3>1, <3>2, <3>4, <3>5, <3>6
            DEF PhaseInv, CommandMatchesDecision, HasDecision
  <2> QED BY <2>2, <2>3
<1> QED BY <1>1, <1>2 DEF ContinueStep

LEMMA GrantStepPhase ==
  ASSUME TypeOK, NEW frames \in Inputs, NEW l \in Lane, GrantStep(frames, l)
  PROVE  PhaseInv'
<1>1. PICK g \in GreenChoices : Grant(frames, l, g)
  BY DEF GrantStep
<1>2. g \in Nat /\ Second <= g
  BY GreenChoicesType
<1>3. /\ active'.lane = l /\ active'.green = g
      /\ command'.lane = l /\ command'.green = g
  BY <1>1 DEF Grant, DecisionFor, CommandFor
<1>4. active' # NoDecision /\ command' # NoCommand
  BY <1>3, NoneIsNotALane DEF NoDecision, NoCommand
<1> QED BY <1>2, <1>3, <1>4 DEF PhaseInv, CommandMatchesDecision, HasDecision

LEMMA InitPhase == Init => PhaseInv
BY NoneIsNotALane
DEF Init, PhaseInv, CommandMatchesDecision, HasDecision, NoDecision, NoCommand

LEMMA NextPhase == TypeOK /\ PhaseInv /\ [Next]_vars => PhaseInv'
<1> SUFFICES ASSUME TypeOK, PhaseInv, [Next]_vars PROVE PhaseInv'
  OBVIOUS
<1>1. ASSUME NEW frames \in Inputs, ProcessStep(frames) PROVE PhaseInv'
  BY <1>1, ContinueStepPhase, GrantStepPhase DEF ProcessStep
<1>2. CASE CameraStep
  BY <1>1, <1>2 DEF CameraStep, Inputs
<1>3. CASE TickerStep
  BY <1>1, <1>3 DEF TickerStep, Inputs
<1>4. CASE ResetPhase
  BY <1>4, NoneIsNotALane
  DEF ResetPhase, PhaseInv, CommandMatchesDecision, HasDecision, NoDecision, NoCommand
<1>5. CASE active' = active /\ command' = command
  BY <1>5 DEF PhaseInv, CommandMatchesDecision, HasDecision
<1> QED BY <1>2, <1>3, <1>4, <1>5 DEF Next, Configure, Tick, phaseVars, vars

(***************************************************************************)
(* The hardware is told about exactly the phase the software runs, for     *)
(* any timing, any bounds an operator may set and any pattern of frames.   *)
(***************************************************************************)
THEOREM CommandAlwaysMatches == Spec => []CommandMatchesDecision
<1>1. PhaseInv => CommandMatchesDecision
  BY DEF PhaseInv
<1> QED BY <1>1, InitPhase, NextPhase, TypeCorrect, PTL DEF Spec

-----------------------------------------------------------------------------
(***************************************************************************)
(* Without detectors that report emergencies no statistic ever holds one.  *)
(***************************************************************************)
NoEmergencySeen == \A l \in Lane : hist[l] # "emergency" /\ auth[l] # "emergency"

LEMMA ObserveNoEmergency ==
  ASSUME EmergencyLanes = {}, TypeOK, NoEmergencySeen,
         NEW frames \in Inputs, ObserveFrames(frames)
  PROVE  NoEmergencySeen'
<1>1. \A l \in DOMAIN frames : l \in Lane /\ frames[l] # "emergency"
  BY InputsAreFrames, ObserveLane
<1>2. ASSUME NEW l \in Lane PROVE hist'[l] # "emergency"
  <2>1. hist'[l] = MergedStat(frames, l)
    BY ObserveLane
  <2>2. CASE l \in DOMAIN frames
    <3>1. StatOf(l, frames[l]) # "emergency"
      BY <1>1, <2>2 DEF StatOf, NoEmergencySeen
    <3> QED BY <2>1, <2>2, <3>1 DEF MergedStat
  <2>3. CASE l \notin DOMAIN frames
    BY <2>1, <2>3 DEF MergedStat, NoEmergencySeen
  <2> QED BY <2>2, <2>3
<1>3. ASSUME NEW l \in Lane PROVE auth'[l] # "emergency"
  <2>1. auth'[l] = IF l \in Detected(frames) THEN frames[l] ELSE auth[l]
    BY ObserveLane
  <2> QED BY <1>1, <2>1 DEF Detected, NoEmergencySeen
<1> QED BY <1>2, <1>3 DEF NoEmergencySeen

-----------------------------------------------------------------------------
(* Rounding yields a whole number.                                         *)
LEMMA RoundHalfEvenType ==
  ASSUME NEW num \in Nat, NEW den \in Nat \ {0}
  PROVE  RoundHalfEven(num, den) \in Int
<1>1. num \div den \in Int
  OBVIOUS
<1> QED BY <1>1 DEF RoundHalfEven

(***************************************************************************)
(* The green that _calculate_green_time returns is one of those a grant    *)
(* may choose, for every demand and for every pair of bounds an operator   *)
(* may have configured: letting Grant choose leaves no duration out.       *)
(***************************************************************************)
THEOREM GreenTimeInBounds ==
  ASSUME TypeOK, NEW score \in Nat, NEW total \in Nat, score > 0 => total > 0,
         NEW pce \in Nat, NEW queue \in Nat
  PROVE  GreenTime(score, total, pce, queue, bounds[1], bounds[2]) * Second \in GreenChoices
<1> DEFINE lo == bounds[1]
           hi == bounds[2]
           loaded == pce > 0 \/ queue > 0
           num == IF loaded
                  THEN 3 * Smaller(pce, FullPce) * FullQueue + Smaller(queue, FullQueue) * FullPce
                  ELSE score
           den == IF loaded THEN 4 * FullPce * FullQueue ELSE total
           raw == RoundHalfEven(lo * den + num * (hi - lo), den)
<1>1. lo \in Nat /\ hi \in Nat /\ lo <= hi
  BY BoundsAssumption DEF TypeOK, Bounds
<1>2. num \in Nat
  BY FullDemandAssumption DEF Smaller
<1>3. score > 0 => den \in Nat \ {0}
  BY FullDemandAssumption
<1> HIDE DEF lo, hi, num, den
<1>4. score > 0 => lo * den + num * (hi - lo) \in Nat
  <2>1. hi - lo \in Nat
    BY <1>1
  <2> QED BY <1>1, <1>2, <1>3, <2>1
<1>5. score > 0 => raw \in Int
  BY <1>3, <1>4, RoundHalfEvenType
<1> HIDE DEF raw
<1>6. CASE score <= 0
  <2>1. GreenTime(score, total, pce, queue, lo, hi) = lo
    BY <1>6 DEF GreenTime
  <2> QED BY <1>1, <2>1 DEF GreenChoices, lo, hi
<1>7. CASE score > 0
  <2>1. GreenTime(score, total, pce, queue, lo, hi) = Larger(lo, Smaller(hi, raw))
    BY <1>7 DEF GreenTime, raw, num, den
  <2>2. Larger(lo, Smaller(hi, raw)) \in lo .. hi
    BY <1>1, <1>5, <1>7 DEF Larger, Smaller
  <2> QED BY <2>1, <2>2 DEF GreenChoices, lo, hi
<1> QED BY <1>6, <1>7

(* A fraction with a larger numerator is not rounded lower.                *)
LEMMA RoundingGrows ==
  ASSUME NEW a \in Nat, NEW b \in Nat, a <= b, NEW den \in Nat \ {0}
  PROVE  RoundHalfEven(a, den) <= RoundHalfEven(b, den)
<1>1. /\ a \div den \in Nat /\ b \div den \in Nat
      /\ a \div den <= b \div den
      /\ a \div den = b \div den => a % den <= b % den
      /\ a % den \in Nat /\ b % den \in Nat
  OBVIOUS
<1> QED BY <1>1 DEF RoundHalfEven

(* What is a multiple is not rounded.                                      *)
LEMMA RoundingExact ==
  ASSUME NEW n \in Nat, NEW den \in Nat \ {0}
  PROVE  RoundHalfEven(n * den, den) = n
<1>1. (n * den) \div den = n /\ (n * den) % den = 0
  OBVIOUS
<1> QED BY <1>1 DEF RoundHalfEven

(* The numerator of the demand ratio.                                     *)
LoadOf(pce, queue) == 3 * Smaller(pce, FullPce) * FullQueue + Smaller(queue, FullQueue) * FullPce

LEMMA LoadGrows ==
  ASSUME NEW pce \in Nat, NEW pce2 \in Nat, pce <= pce2,
         NEW queue \in Nat, NEW queue2 \in Nat, queue <= queue2
  PROVE  /\ LoadOf(pce, queue) \in Nat /\ LoadOf(pce2, queue2) \in Nat
         /\ LoadOf(pce, queue) <= LoadOf(pce2, queue2)
<1> DEFINE p == Smaller(pce, FullPce)  p2 == Smaller(pce2, FullPce)
           q == Smaller(queue, FullQueue)  q2 == Smaller(queue2, FullQueue)
<1>1. p \in Nat /\ p2 \in Nat /\ p <= p2 /\ q \in Nat /\ q2 \in Nat /\ q <= q2
  BY FullDemandAssumption DEF Smaller
<1> HIDE DEF p, p2, q, q2
<1>2. 3 * p * FullQueue <= 3 * p2 * FullQueue /\ q * FullPce <= q2 * FullPce
  BY <1>1, FullDemandAssumption
<1>3. /\ 3 * p * FullQueue \in Nat /\ 3 * p2 * FullQueue \in Nat
      /\ q * FullPce \in Nat /\ q2 * FullPce \in Nat
  BY <1>1, FullDemandAssumption
<1> QED BY <1>2, <1>3 DEF LoadOf, p, p2, q, q2

(***************************************************************************)
(* _calculate_green_time for an approach with PCE or queue: more load is   *)
(* never given less green, whatever the bounds and whatever else the       *)
(* intersection holds: the score and the total score do not matter.        *)
(***************************************************************************)
THEOREM GreenGrowsWithLoad ==
  ASSUME NEW lo \in Nat, NEW hi \in Nat, lo <= hi,
         NEW pce \in Nat, NEW pce2 \in Nat, pce <= pce2,
         NEW queue \in Nat, NEW queue2 \in Nat, queue <= queue2,
         pce > 0 \/ queue > 0,
         NEW score \in Nat \ {0}, NEW score2 \in Nat \ {0}, NEW total \in Nat, NEW total2 \in Nat
  PROVE  GreenTime(score, total, pce, queue, lo, hi) <= GreenTime(score2, total2, pce2, queue2, lo, hi)
<1> DEFINE den == 4 * FullPce * FullQueue
           num == LoadOf(pce, queue)
           num2 == LoadOf(pce2, queue2)
           raw == RoundHalfEven(lo * den + num * (hi - lo), den)
           raw2 == RoundHalfEven(lo * den + num2 * (hi - lo), den)
<1>1. /\ GreenTime(score, total, pce, queue, lo, hi) = Larger(lo, Smaller(hi, raw))
      /\ GreenTime(score2, total2, pce2, queue2, lo, hi) = Larger(lo, Smaller(hi, raw2))
  BY DEF GreenTime, LoadOf
<1>2. den \in Nat \ {0}
  BY FullDemandAssumption
<1>3. num \in Nat /\ num2 \in Nat /\ num <= num2
  BY LoadGrows
<1> HIDE DEF den, num, num2
<1>4. num * (hi - lo) \in Nat /\ num2 * (hi - lo) \in Nat /\ num * (hi - lo) <= num2 * (hi - lo)
  BY <1>3
<1>5. lo * den \in Nat
  BY <1>2
<1>6. raw <= raw2
  BY <1>2, <1>4, <1>5, RoundingGrows
<1>7. raw \in Int /\ raw2 \in Int
  BY <1>2, <1>4, <1>5, RoundHalfEvenType
<1> HIDE DEF raw, raw2
<1> QED BY <1>1, <1>6, <1>7 DEF Larger, Smaller

(***************************************************************************)
(* A fully loaded approach is given the longest green: no rounding takes   *)
(* the last second from it.                                                *)
(***************************************************************************)
THEOREM FullLoadGetsLongestGreen ==
  ASSUME NEW lo \in Nat, NEW hi \in Nat, lo <= hi,
         NEW pce \in Nat, NEW queue \in Nat, pce >= FullPce, queue >= FullQueue,
         NEW score \in Nat \ {0}, NEW total \in Nat
  PROVE  GreenTime(score, total, pce, queue, lo, hi) = hi
<1> DEFINE den == 4 * FullPce * FullQueue
           num == LoadOf(pce, queue)
           raw == RoundHalfEven(lo * den + num * (hi - lo), den)
<1>1. GreenTime(score, total, pce, queue, lo, hi) = Larger(lo, Smaller(hi, raw))
  BY FullDemandAssumption DEF GreenTime, LoadOf
<1>2. den \in Nat \ {0}
  BY FullDemandAssumption
<1>3. num = den
  BY FullDemandAssumption DEF LoadOf, Smaller
<1> HIDE DEF den, num
<1>4. lo * den + den * (hi - lo) = hi * den
  BY <1>2
<1>5. raw = hi
  BY <1>2, <1>3, <1>4, RoundingExact
<1> HIDE DEF raw
<1> QED BY <1>1, <1>5 DEF Larger, Smaller

-----------------------------------------------------------------------------
(***************************************************************************)
(* A detector result that is not empty was seen when its frame came, as    *)
(* far as the timer of the detector tells; a statistic was seen no longer  *)
(* than a detector period and a wait before the lane was last observed.    *)
(* Beyond Stale an age says nothing any more.                              *)
(***************************************************************************)
ResultsSeen ==
  \A l \in Lane : auth[l] # "empty" /\ sinceDet[l] < DetectionCap
                    => seenAgo[l] <= sinceDet[l]

StatisticsSeen ==
  \A l \in Lane : hist[l] # "empty" /\ age[l] <= Stale
                    => seenAgo[l] <= age[l] + DetectionCap

EvidenceInv ==
  /\ TypeOK
  /\ seenAgo \in [Lane -> 0 .. SeenAgoCap]
  /\ ResultsSeen
  /\ StatisticsSeen

-----------------------------------------------------------------------------
(* A call of process_step keeps the invariant, whatever it decides.        *)
LEMMA ObserveEvidence ==
  ASSUME EvidenceInv, NEW frames \in Inputs, ObserveFrames(frames), RecordSeen(frames)
  PROVE  /\ seenAgo' \in [Lane -> 0 .. SeenAgoCap]
         /\ ResultsSeen' /\ StatisticsSeen'
<1> USE DEF EvidenceInv
<1>1. SeenAgoCap \in Nat /\ SeenAgoCap >= FrameWait /\ DetectionCap \in Nat /\ FrameWait \in Nat
      /\ FrameWait <= DetectionCap
  BY TimingAssumption DEF SeenAgoCap, DetectionCap
<1>2. ASSUME NEW l \in Lane
      PROVE  /\ seenAgo[l] \in 0 .. SeenAgoCap /\ sinceDet[l] \in Nat /\ age[l] \in Nat
             /\ l \in Detected(frames) /\ frames[l] # "empty"
                  => seenAgo'[l] = sinceDet'[l] /\ sinceDet'[l] \in 0 .. FrameWait
             /\ ~(l \in Detected(frames) /\ frames[l] # "empty") => seenAgo'[l] = seenAgo[l]
  BY <1>1, TimingAssumption, ObserveLane DEF RecordSeen, TypeOK, AgeCap, Waits
<1>3. seenAgo' \in [Lane -> 0 .. SeenAgoCap]
  <2>1. \A l \in Lane : seenAgo'[l] \in 0 .. SeenAgoCap
    BY <1>1, <1>2
  <2> QED BY <2>1 DEF RecordSeen
<1>4. ASSUME NEW l \in Lane, auth'[l] # "empty", sinceDet'[l] < DetectionCap
      PROVE  seenAgo'[l] <= sinceDet'[l]
  <2>1. CASE l \in Detected(frames)
    <3>1. auth'[l] = frames[l]
      BY <2>1, ObserveLane
    <3> QED BY <1>2, <1>4, <2>1, <3>1
  <2>2. CASE l \notin Detected(frames)
    <3>1. auth'[l] = auth[l] /\ sinceDet'[l] = sinceDet[l]
      BY <2>2, ObserveLane
    <3>2. seenAgo[l] <= sinceDet[l]
      BY <1>4, <3>1 DEF ResultsSeen
    <3> QED BY <1>2, <2>2, <3>1, <3>2
  <2> QED BY <2>1, <2>2
<1>5. ASSUME NEW l \in Lane, hist'[l] # "empty", age'[l] <= Stale
      PROVE  seenAgo'[l] <= age'[l] + DetectionCap
  <2>1. hist'[l] = MergedStat(frames, l)
    BY ObserveLane
  <2>2. CASE l \notin DOMAIN frames
    <3>1. age'[l] = age[l] /\ l \notin Detected(frames)
      BY <2>2, ObserveLane DEF Detected
    <3>2. hist'[l] = hist[l]
      BY <1>5, <2>1, <2>2 DEF MergedStat
    <3>3. seenAgo[l] <= age[l] + DetectionCap
      BY <1>5, <3>1, <3>2 DEF StatisticsSeen
    <3> QED BY <1>2, <3>1, <3>3
  <2>3. CASE l \in DOMAIN frames
    <3>1. age'[l] = 0 /\ hist'[l] = StatOf(l, frames[l])
      BY <2>1, <2>3, ObserveLane DEF MergedStat
    <3>2. frames[l] # "disconnected"
      BY <1>5, <3>1 DEF StatOf
    <3>3. CASE frames[l] = "projected"
      <4>1. sinceDet[l] < DetectionCap /\ auth[l] # "empty" /\ l \notin Detected(frames)
        BY <1>5, <2>3, <3>1, <3>3, ObserveLane DEF StatOf, Stat, Detected
      <4>2. seenAgo[l] <= sinceDet[l]
        BY <4>1 DEF ResultsSeen
      <4> QED BY <1>1, <1>2, <3>1, <4>1, <4>2
    <3>4. CASE frames[l] # "projected"
      <4>1. l \in Detected(frames)
        BY <2>3, <3>2, <3>4, ObserveLane
      <4>2. frames[l] # "empty"
        BY <1>5, <3>1, <3>2, <3>4 DEF StatOf
      <4> QED BY <1>1, <1>2, <3>1, <4>1, <4>2
    <3> QED BY <3>3, <3>4
  <2> QED BY <2>2, <2>3
<1> QED BY <1>3, <1>4, <1>5 DEF ResultsSeen, StatisticsSeen

(* Time makes everything older by the same amount.                         *)
LEMMA TickEvidence ==
  ASSUME EvidenceInv, Tick,
         seenAgo' = [l \in Lane |-> Smaller(seenAgo[l] + 1, SeenAgoCap)]
  PROVE  EvidenceInv'
<1> USE DEF EvidenceInv
<1>1. SeenAgoCap \in Nat /\ DetectionCap \in Nat
  BY TimingAssumption DEF SeenAgoCap, DetectionCap
<1>2. TypeOK'
  BY TickType
<1>3. seenAgo' \in [Lane -> 0 .. SeenAgoCap]
  BY <1>1 DEF Smaller
<1>4. ASSUME NEW l \in Lane
      PROVE  /\ seenAgo[l] \in Nat /\ sinceDet[l] \in Nat /\ age[l] \in Nat
             /\ seenAgo'[l] \in Nat /\ seenAgo'[l] <= seenAgo[l] + 1
             /\ sinceDet'[l] = Smaller(sinceDet[l] + 1, DetectionCap)
             /\ age'[l] = Smaller(age[l] + 1, AgeCap)
  BY <1>1, TimingAssumption DEF Tick, TypeOK, Smaller, AgeCap
<1>5. ResultsSeen'
  <2> SUFFICES ASSUME NEW l \in Lane, auth'[l] # "empty", sinceDet'[l] < DetectionCap
               PROVE  seenAgo'[l] <= sinceDet'[l]
    BY DEF ResultsSeen
  <2>1. sinceDet'[l] = sinceDet[l] + 1
    BY <1>1, <1>4 DEF Smaller
  <2>2. auth'[l] = auth[l]
    BY DEF Tick
  <2>3. seenAgo[l] <= sinceDet[l]
    BY <1>1, <1>4, <2>1, <2>2 DEF ResultsSeen
  <2> QED BY <1>4, <2>1, <2>3
<1>6. StatisticsSeen'
  <2> SUFFICES ASSUME NEW l \in Lane, hist'[l] # "empty", age'[l] <= Stale
               PROVE  seenAgo'[l] <= age'[l] + DetectionCap
    BY DEF StatisticsSeen
  <2>1. age'[l] = age[l] + 1
    BY <1>4, TimingAssumption DEF Smaller, AgeCap
  <2>2. hist'[l] = hist[l]
    BY DEF Tick
  <2>3. seenAgo[l] <= age[l] + DetectionCap
    BY <1>4, <2>1, <2>2, TimingAssumption DEF StatisticsSeen
  <2> QED BY <1>1, <1>4, <2>1, <2>3
<1> QED BY <1>2, <1>3, <1>5, <1>6

LEMMA EvidenceInitInv == EvidenceInit => EvidenceInv
<1> SUFFICES ASSUME EvidenceInit PROVE EvidenceInv
  OBVIOUS
<1> USE DEF EvidenceInit
<1>1. TypeOK
  BY InitType
<1>2. seenAgo \in [Lane -> 0 .. SeenAgoCap]
  BY TimingAssumption DEF SeenAgoCap
<1>3. ResultsSeen /\ StatisticsSeen
  BY DEF Init, ResultsSeen, StatisticsSeen
<1> QED BY <1>1, <1>2, <1>3 DEF EvidenceInv

LEMMA EvidenceNextInv == EvidenceInv /\ [EvidenceNext]_evidenceVars => EvidenceInv'
<1> SUFFICES ASSUME EvidenceInv, [EvidenceNext]_evidenceVars PROVE EvidenceInv'
  OBVIOUS
<1>1. ASSUME NEW frames \in Inputs, ContinueStep(frames), RecordSeen(frames)
      PROVE  EvidenceInv'
  BY <1>1, ContinueStepType, ObserveEvidence DEF ContinueStep, StepBegins, EvidenceInv
<1>2. ASSUME NEW frames \in Inputs, NEW l \in Lane, GrantStep(frames, l), RecordSeen(frames)
      PROVE  EvidenceInv'
  BY <1>2, GrantStepType, ObserveEvidence DEF GrantStep, StepBegins, EvidenceInv
<1>3. CASE (ResetPhase \/ Configure \/ UNCHANGED vars) /\ UNCHANGED seenAgo
  <2>1. TypeOK'
    BY <1>3, NextType DEF Next, EvidenceInv
  <2>2. UNCHANGED <<hist, auth, age, sinceDet>>
    BY <1>3 DEF ResetPhase, Configure, laneVars, vars
  <2> QED BY <1>3, <2>1, <2>2 DEF EvidenceInv, ResultsSeen, StatisticsSeen, SeenAgoCap
<1>4. CASE Tick /\ seenAgo' = [l \in Lane |-> Smaller(seenAgo[l] + 1, SeenAgoCap)]
  BY <1>4, TickEvidence
<1> QED BY <1>1, <1>2, <1>3, <1>4 DEF EvidenceNext, RecordTick, evidenceVars

(***************************************************************************)
(* Demand that may win a green rests on a picture that came less than the  *)
(* stale limit, a detector period and a wait ago.  The wait is part of it: *)
(* a projection that waited renews the age of the lane.                    *)
(***************************************************************************)
THEOREM DemandAlwaysRecent == EvidenceSpec => []DemandIsRecent
<1>1. EvidenceInv => DemandIsRecent
  <2> SUFFICES ASSUME EvidenceInv, NEW l \in Lane, age[l] < Stale, hist[l] # "empty"
               PROVE  seenAgo[l] < Stale + DetectorPeriod + FrameWait
    BY DEF DemandIsRecent, FreshDemand
  <2>1. age[l] \in Nat /\ seenAgo[l] \in Nat
    BY TimingAssumption DEF EvidenceInv, TypeOK, AgeCap, SeenAgoCap
  <2>2. seenAgo[l] <= age[l] + DetectionCap
    BY <2>1, TimingAssumption DEF EvidenceInv, StatisticsSeen
  <2> QED BY <2>1, <2>2, TimingAssumption DEF DetectionCap
<1> QED BY <1>1, EvidenceInitInv, EvidenceNextInv, PTL DEF EvidenceSpec

-----------------------------------------------------------------------------
(***************************************************************************)
(* What an early end rests on, when every frame comes from a connected     *)
(* camera.  A statistic that shows a vehicle repeats the last detector     *)
(* result; the phase began with such a result, so an approach that is      *)
(* empty now has been found so since; and while only one result has, it is *)
(* as old as emptyFor, unless the detector is due for every frame that can *)
(* still come: no projection then, and the next frame brings the second.   *)
(***************************************************************************)
EarlyInv ==
  /\ emptyResults \in 0 .. EnoughResults
  /\ \A l \in Lane : hist[l] # "empty" => auth[l] # "empty"
  /\ HasDecision /\ auth[active.lane] = "empty" => emptyResults >= 1
  /\ HasDecision /\ emptyFor # NotEmpty
       => \/ emptyResults = EnoughResults
          \/ /\ emptyResults = 1
             /\ sinceDet[active.lane] >= Smaller(emptyFor, DetectionCap)

(* A frame of the served approach: what is kept of it, and when the        *)
(* detector has seen it.                                                   *)
LEMMA ServedFrame ==
  ASSUME ~Disconnects, TypeOK, PhaseInv, EarlyInv, NEW frames \in Inputs, ObserveFrames(frames),
         RecordEmpty(frames), ActiveSeen(frames)
  PROVE  LET l == active.lane
         IN  /\ hist'[l] = auth'[l]
             /\ \/ /\ frames[l] = "projected" /\ sinceDet[l] < DetectionCap
                   /\ auth'[l] = auth[l] /\ sinceDet'[l] = sinceDet[l]
                   /\ emptyResults' = emptyResults
                \/ /\ frames[l] \in Stat /\ auth'[l] = frames[l] /\ sinceDet'[l] \in Nat
                   /\ frames[l] = "empty"
                        => emptyResults' = Smaller(emptyResults + 1, EnoughResults)
                   /\ frames[l] # "empty" => emptyResults' = 0
<1> DEFINE l == active.lane
<1>1. l \in Lane /\ l \in DOMAIN frames
  BY DEF ActiveSeen, PhaseInv
<1>2. \/ frames[l] = "projected" /\ sinceDet[l] < DetectionCap
      \/ l \in Detected(frames)
  BY <1>1, ObserveLane
<1>3. /\ hist'[l] = StatOf(l, frames[l])
      /\ auth'[l] = IF l \in Detected(frames) THEN frames[l] ELSE auth[l]
      /\ IF l \in Detected(frames) THEN sinceDet'[l] \in Nat ELSE sinceDet'[l] = sinceDet[l]
  BY <1>1, ObserveLane, TimingAssumption DEF MergedStat, Waits
<1> HIDE DEF l
<1>4. CASE frames[l] = "projected"
  <2>1. l \notin Detected(frames) /\ sinceDet[l] < DetectionCap
    BY <1>2, <1>4 DEF Detected, Stat
  <2>2. hist'[l] = auth[l]
    BY <1>3, <1>4 DEF StatOf
  <2>3. emptyResults' = emptyResults
    BY <1>4 DEF RecordEmpty, l
  <2> QED BY <1>3, <1>4, <2>1, <2>2, <2>3 DEF l
<1>5. CASE frames[l] # "projected"
  <2>1. frames[l] \in Stat /\ l \in Detected(frames)
    BY <1>2, <1>5 DEF Detected
  <2>2. hist'[l] = frames[l]
    BY <1>3, <1>5, <2>1 DEF StatOf, Stat
  <2>3. /\ frames[l] = "empty" => emptyResults' = Smaller(emptyResults + 1, EnoughResults)
        /\ frames[l] # "empty" => emptyResults' = 0
    BY <1>5 DEF RecordEmpty, l
  <2> QED BY <1>3, <2>1, <2>2, <2>3 DEF l
<1> QED BY <1>4, <1>5

(* A statistic that shows a vehicle repeats the last result.               *)
LEMMA ShownIsDetected ==
  ASSUME TypeOK, EarlyInv, NEW frames \in Inputs, ObserveFrames(frames), NEW l \in Lane,
         hist'[l] # "empty"
  PROVE  auth'[l] # "empty"
<1>1. /\ hist'[l] = MergedStat(frames, l)
      /\ auth'[l] = IF l \in Detected(frames) THEN frames[l] ELSE auth[l]
  BY ObserveLane
<1>2. CASE l \notin DOMAIN frames
  BY <1>1, <1>2 DEF MergedStat, EarlyInv, Detected
<1>3. CASE l \in DOMAIN frames
  <2>1. hist'[l] = StatOf(l, frames[l])
    BY <1>1, <1>3 DEF MergedStat
  <2>2. frames[l] # "disconnected"
    BY <2>1 DEF StatOf
  <2>3. CASE frames[l] = "projected"
    BY <1>1, <2>1, <2>3 DEF StatOf, Detected, Stat
  <2>4. CASE frames[l] # "projected"
    <3>1. l \in Detected(frames)
      BY <1>3, <2>2, <2>4, ObserveLane
    <3> QED BY <1>1, <2>1, <2>2, <2>4, <3>1 DEF StatOf
  <2> QED BY <2>3, <2>4
<1> QED BY <1>2, <1>3

(* The evidence is complete when the green is cut.                         *)
LEMMA ReleaseHasEvidence ==
  ASSUME ~Disconnects, TypeOK, PhaseInv, EarlyInv, NEW frames \in Inputs, ObserveFrames(frames),
         RecordEmpty(frames), ReleasesEarly(frames)
  PROVE  LET l == active.lane
         IN  \/ emptyResults' = EnoughResults
             \/ emptyResults' = 1 /\ sinceDet'[l] >= Release /\ sinceDet'[l] < DetectionCap
<1> DEFINE l == active.lane
<1>1. /\ ActiveSeen(frames) /\ hist'[l] = "empty" /\ HasDecision
      /\ emptyFor >= Release
  BY DEF ReleasesEarly, ActiveEmpty, ActiveSeen
<1>2. /\ emptyFor = Release /\ emptyFor # NotEmpty /\ Release \in Nat /\ DetectionCap \in Nat
  BY <1>1, TimingAssumption DEF TypeOK, NotEmpty, DetectionCap
<1>3. \/ emptyResults = 2
      \/ emptyResults = 1 /\ sinceDet[l] >= Smaller(Release, DetectionCap)
  BY <1>1, <1>2 DEF EarlyInv, EnoughResults
<1>4. l \in Lane /\ sinceDet[l] \in Nat
  BY <1>1, TimingAssumption DEF PhaseInv, TypeOK, DetectionCap
<1>5. \/ /\ sinceDet[l] < DetectionCap /\ sinceDet'[l] = sinceDet[l]
         /\ emptyResults' = emptyResults
      \/ emptyResults' = Smaller(emptyResults + 1, EnoughResults)
  BY <1>1, ServedFrame
<1> HIDE DEF l
<1>6. CASE emptyResults = 2
  BY <1>5, <1>6 DEF Smaller, EnoughResults
<1>7. CASE emptyResults = 1 /\ sinceDet[l] >= Smaller(Release, DetectionCap)
  BY <1>2, <1>4, <1>5, <1>7 DEF Smaller, EnoughResults, l
<1> QED BY <1>3, <1>6, <1>7 DEF l

-----------------------------------------------------------------------------
LEMMA EarlyInitially == EvidenceInit => EarlyInv
BY DEF EvidenceInit, Init, EarlyInv, HasDecision, EnoughResults

LEMMA ContinueEarly ==
  ASSUME ~Disconnects, TypeOK, PhaseInv, EarlyInv, NEW frames \in Inputs, ContinueStep(frames),
         RecordEmpty(frames)
  PROVE  EarlyInv'
<1>0. ObserveFrames(frames) /\ emptyResults \in 0 .. 2
  BY DEF ContinueStep, StepBegins, EarlyInv, EnoughResults
<1>1. emptyResults' \in 0 .. EnoughResults
  BY <1>0 DEF RecordEmpty, EnoughResults, Smaller
<1>2. \A l \in Lane : hist'[l] # "empty" => auth'[l] # "empty"
  BY <1>0, ShownIsDetected
<1>3. CASE HoldAllRed(frames)
  BY <1>1, <1>2, <1>3 DEF HoldAllRed, EarlyInv, HasDecision
<1>4. CASE KeepPhase(frames)
  <2>1. emptyFor' = EmptyForNow(frames) /\ active' = [active EXCEPT !.green = GreenNow(frames)]
    BY <1>4 DEF KeepPhase
  <2>2. CASE ~HasDecision
    <3>1. active' = active
      BY <2>1, <2>2 DEF GreenNow, ReleasesEarly, ActiveEmpty, ActiveSeen, HasDecision, NoDecision
    <3> QED BY <1>1, <1>2, <2>2, <3>1 DEF EarlyInv, HasDecision
  <2>3. CASE HasDecision
    <3> DEFINE l == active.lane
    <3>1. l \in Lane /\ active'.lane = l
      BY <2>1, <2>3 DEF PhaseInv, TypeOK
    <3>2. /\ sinceDet[l] \in Nat /\ emptyFor \in {NotEmpty} \cup Nat
          /\ DetectionCap \in Nat
      BY <3>1, TimingAssumption DEF TypeOK, DetectionCap
    <3>3. /\ auth[l] = "empty" => emptyResults >= 1
          /\ emptyFor # NotEmpty
               => \/ emptyResults = 2
                  \/ emptyResults = 1 /\ sinceDet[l] >= Smaller(emptyFor, DetectionCap)
      BY <2>3 DEF EarlyInv, EnoughResults
    <3> HIDE DEF l
    <3>4. CASE ~ActiveSeen(frames)
      <4>1. emptyResults' = emptyResults /\ emptyFor' = emptyFor
        BY <2>1, <3>4 DEF RecordEmpty, EmptyForNow, ActiveEmpty
      <4>2. l \notin Detected(frames)
        BY <2>3, <3>4 DEF ActiveSeen, Detected, l
      <4>3. auth'[l] = auth[l] /\ sinceDet'[l] = sinceDet[l]
        BY <1>0, <3>1, <4>2, ObserveLane
      <4> QED BY <1>1, <1>2, <3>1, <3>3, <4>1, <4>3 DEF EarlyInv, EnoughResults
    <3>5. CASE ActiveSeen(frames)
      <4>1. /\ hist'[l] = auth'[l]
            /\ \/ /\ auth'[l] = auth[l] /\ sinceDet'[l] = sinceDet[l]
                  /\ emptyResults' = emptyResults
               \/ /\ frames[l] \in Stat /\ auth'[l] = frames[l] /\ sinceDet'[l] \in Nat
                  /\ frames[l] = "empty"
                       => emptyResults' = Smaller(emptyResults + 1, EnoughResults)
                  /\ frames[l] # "empty" => emptyResults' = 0
        BY <1>0, <3>5, ServedFrame DEF l
      <4>2. emptyFor' = IF auth'[l] = "empty" THEN Larger(emptyFor, 0) ELSE NotEmpty
        BY <2>1, <3>5, <4>1 DEF EmptyForNow, ActiveEmpty, l
      <4>3. auth'[l] = "empty" => emptyResults' >= 1
        BY <1>0, <3>3, <4>1 DEF Smaller, EnoughResults
      <4>4. CASE auth'[l] = "empty"
        <5>1. /\ emptyFor' = Larger(emptyFor, 0) /\ emptyFor' \in Nat
              /\ emptyFor = NotEmpty => emptyFor' = 0
              /\ emptyFor # NotEmpty => emptyFor' = emptyFor
          BY <3>2, <4>2, <4>4 DEF Larger, NotEmpty
        <5>2. \/ emptyResults' = 2
              \/ emptyResults' = 1 /\ sinceDet'[l] >= Smaller(emptyFor', DetectionCap)
          <6>1. CASE emptyFor = NotEmpty
            <7>1. Smaller(emptyFor', DetectionCap) = 0
              BY <3>2, <5>1, <6>1 DEF Smaller
            <7>2. sinceDet'[l] \in Nat /\ emptyResults' \in {1, 2}
              BY <1>1, <3>2, <4>1, <4>3, <4>4 DEF EnoughResults
            <7> QED BY <7>1, <7>2
          <6>2. CASE emptyFor # NotEmpty
            <7>1. emptyResults \in {1, 2} /\ emptyFor' = emptyFor
              BY <3>3, <5>1, <6>2
            <7> QED BY <3>3, <4>1, <4>4, <6>2, <7>1 DEF Smaller, EnoughResults
          <6> QED BY <6>1, <6>2
        <5> QED BY <1>1, <1>2, <3>1, <4>3, <5>2 DEF EarlyInv, EnoughResults
      <4>5. CASE auth'[l] # "empty"
        <5>1. emptyFor' = NotEmpty
          BY <4>2, <4>5
        <5> QED BY <1>1, <1>2, <3>1, <4>5, <5>1 DEF EarlyInv, NotEmpty
      <4> QED BY <4>4, <4>5
    <3> QED BY <3>4, <3>5
  <2> QED BY <2>2, <2>3
<1> QED BY <1>3, <1>4 DEF ContinueStep

LEMMA GrantEarly ==
  ASSUME TypeOK, EarlyInv, NEW frames \in Inputs, NEW l \in Lane, GrantStep(frames, l), emptyResults' = 0
  PROVE  EarlyInv'
<1>1. PICK g \in GreenChoices : Grant(frames, l, g)
  BY DEF GrantStep
<1>2. ObserveFrames(frames)
  BY DEF GrantStep, StepBegins
<1>3. \A k \in Lane : hist'[k] # "empty" => auth'[k] # "empty"
  BY <1>2, ShownIsDetected
<1>4. l \in Demand
  <2>1. EmergencyDemand \in SUBSET Demand
    BY DEF EmergencyDemand
  <2> QED BY <1>1, <2>1, SelectedHasDemand DEF Grant
<1>5. active'.lane = l /\ emptyFor' = NotEmpty
  BY <1>1 DEF Grant, DecisionFor
<1>6. auth'[l] # "empty"
  BY <1>3, <1>4 DEF Demand
<1> QED BY <1>3, <1>5, <1>6 DEF EarlyInv, EnoughResults, NotEmpty

LEMMA TickEarly ==
  ASSUME TypeOK, PhaseInv, EarlyInv, Tick, UNCHANGED emptyResults
  PROVE  EarlyInv'
<1>1. active' = active /\ hist' = hist /\ auth' = auth
  BY DEF Tick
<1>2. ASSUME HasDecision, emptyFor' # NotEmpty
      PROVE  \/ emptyResults = EnoughResults
             \/ /\ emptyResults = 1
                /\ sinceDet'[active.lane] >= Smaller(emptyFor', DetectionCap)
  <2> DEFINE l == active.lane
  <2>1. l \in Lane
    BY <1>2 DEF PhaseInv
  <2>2. emptyFor # NotEmpty /\ emptyFor' = Smaller(emptyFor + 1, Release)
    BY <1>2 DEF Tick
  <2>3. emptyFor \in 0 .. Release /\ sinceDet[l] \in 0 .. DetectionCap
    BY <2>1, <2>2 DEF TypeOK
  <2>4. sinceDet'[l] = Smaller(sinceDet[l] + 1, DetectionCap)
    BY <2>1 DEF Tick
  <2>5. \/ emptyResults = EnoughResults
        \/ emptyResults = 1 /\ sinceDet[l] >= Smaller(emptyFor, DetectionCap)
    BY <1>2, <2>2 DEF EarlyInv
  <2>a. DetectionCap \in Nat /\ Release \in Nat
    BY TimingAssumption DEF DetectionCap
  <2> HIDE DEF l
  <2>6. sinceDet[l] >= Smaller(emptyFor, DetectionCap)
          => sinceDet'[l] >= Smaller(emptyFor', DetectionCap)
    BY <2>2, <2>3, <2>4, <2>a DEF Smaller
  <2> QED BY <2>5, <2>6 DEF l
<1> QED BY <1>1, <1>2 DEF EarlyInv, HasDecision

(* Every step with evidence is a step of the pipeline.                     *)
LEMMA EvidenceRefines == [EvidenceNext]_evidenceVars => [Next]_vars
<1> SUFFICES ASSUME [EvidenceNext]_evidenceVars PROVE [Next]_vars
  OBVIOUS
<1>1. ASSUME NEW frames \in Inputs, ProcessStep(frames) PROVE Next
  BY <1>1 DEF Inputs, Next, CameraStep, TickerStep
<1>2. ASSUME NEW frames \in Inputs, ContinueStep(frames) \/ \E l \in Lane : GrantStep(frames, l)
      PROVE  Next
  BY <1>1, <1>2 DEF ProcessStep
<1>3. CASE UNCHANGED evidenceVars
  BY <1>3 DEF evidenceVars
<1> QED BY <1>2, <1>3 DEF EvidenceNext, RecordTick, Next

LEMMA EarlyKept ==
  ~Disconnects /\ TypeOK /\ PhaseInv /\ EarlyInv /\ [EvidenceNext]_evidenceVars => EarlyInv'
<1> SUFFICES ASSUME ~Disconnects, TypeOK, PhaseInv, EarlyInv, [EvidenceNext]_evidenceVars
             PROVE  EarlyInv'
  OBVIOUS
<1>1. ASSUME NEW frames \in Inputs, ContinueStep(frames), RecordEmpty(frames) PROVE EarlyInv'
  BY <1>1, ContinueEarly
<1>2. ASSUME NEW frames \in Inputs, NEW l \in Lane, GrantStep(frames, l), emptyResults' = 0
      PROVE  EarlyInv'
  BY <1>2, GrantEarly
<1>3. CASE ResetPhase /\ UNCHANGED emptyResults
  BY <1>3 DEF ResetPhase, laneVars, EarlyInv, HasDecision
<1>4. CASE UNCHANGED <<laneVars, active, emptyFor, emptyResults>>
  BY <1>4 DEF laneVars, EarlyInv, HasDecision
<1>5. CASE RecordTick
  BY <1>5, TickEarly DEF RecordTick
<1> QED BY <1>1, <1>2, <1>3, <1>4, <1>5
        DEF EvidenceNext, Configure, laneVars, phaseVars, evidenceVars, vars

(* Only KeepPhase shortens a running green.                                *)
LEMMA EarlyStep ==
  ~Disconnects /\ TypeOK /\ PhaseInv /\ EarlyInv /\ [EvidenceNext]_evidenceVars
    => [EarlyEnd /\ elapsed' > 0
          => \/ emptyResults' = EnoughResults
             \/ emptyResults' = 1 /\ sinceDet'[active.lane] \in Release .. DetectionCap - 1]_evidenceVars
<1> SUFFICES ASSUME ~Disconnects, TypeOK, PhaseInv, EarlyInv, EvidenceNext, EarlyEnd, elapsed' > 0
             PROVE  \/ emptyResults' = EnoughResults
                    \/ /\ emptyResults' = 1
                       /\ sinceDet'[active.lane] \in Release .. DetectionCap - 1
  OBVIOUS
<1>1. active.green \in Nat /\ HasDecision /\ active.lane \in Lane
  BY DEF TypeOK, EarlyEnd, PhaseInv
<1>2. active'.lane = active.lane /\ active'.green < active.green
  BY DEF EarlyEnd
<1>3. active' # active /\ active' # NoDecision
  BY <1>1, <1>2, NoneIsNotALane DEF NoDecision
<1>4. ASSUME NEW frames \in Inputs, ContinueStep(frames), RecordEmpty(frames)
      PROVE  \/ emptyResults' = EnoughResults
             \/ /\ emptyResults' = 1
                /\ sinceDet'[active.lane] \in Release .. DetectionCap - 1
  <2>1. ObserveFrames(frames) /\ KeepPhase(frames)
    BY <1>3, <1>4 DEF ContinueStep, StepBegins, HoldAllRed
  <2>2. ReleasesEarly(frames)
    <3>1. active'.green = GreenNow(frames)
      BY <2>1 DEF KeepPhase, TypeOK
    <3> QED BY <1>1, <1>2, <3>1 DEF GreenNow
  <2>3. TypeOK' /\ Release \in Nat /\ DetectionCap \in Nat
    BY <1>4, ContinueStepType, TimingAssumption DEF DetectionCap
  <2>4. sinceDet'[active.lane] \in Nat
    BY <1>1, <2>3, TimingAssumption DEF TypeOK, DetectionCap
  <2> QED BY <1>4, <2>1, <2>2, <2>3, <2>4, ReleaseHasEvidence
<1>5. ASSUME NEW frames \in Inputs, NEW l \in Lane, GrantStep(frames, l)
      PROVE  FALSE
  <2>1. elapsed' = 0
    BY <1>5 DEF GrantStep, Grant
  <2> QED BY <2>1
<1> QED BY <1>3, <1>4, <1>5 DEF EvidenceNext, ResetPhase, Configure, phaseVars, RecordTick, Tick

(***************************************************************************)
(* What a green that ends early rests on, with connected cameras: two      *)
(* detector results in a row, or one that is as old as the confirmation    *)
(* window and no other since; for any number of approaches, any timing and *)
(* detector rate, any waits of the frames, and any arrivals, resets and    *)
(* bounds of an operator.                                                  *)
(***************************************************************************)
THEOREM EarlyEndAlwaysHasEvidence ==
  ASSUME ~Disconnects
  PROVE  EvidenceSpec => EarlyEndHasEvidence
<1>1. EvidenceInit => TypeOK /\ PhaseInv /\ EarlyInv
  BY InitType, InitPhase, EarlyInitially DEF EvidenceInit
<1>2. TypeOK /\ PhaseInv /\ EarlyInv /\ [EvidenceNext]_evidenceVars
        => (TypeOK /\ PhaseInv /\ EarlyInv)'
  BY EvidenceRefines, NextType, NextPhase, EarlyKept
<1>3. TypeOK /\ PhaseInv /\ EarlyInv /\ [EvidenceNext]_evidenceVars
        => [EarlyEnd /\ elapsed' > 0
              => \/ emptyResults' = EnoughResults
                 \/ emptyResults' = 1 /\ sinceDet'[active.lane] >= Release]_evidenceVars
  <2> USE TimingAssumption DEF DetectionCap
  <2> QED BY EarlyStep
<1> QED BY <1>1, <1>2, <1>3, PTL DEF EvidenceSpec, EarlyEndHasEvidence

(***************************************************************************)
(* config/signal.py: "A green ends early only after consecutive fresh      *)
(* empty observations".  It does when a detector period and the longest    *)
(* wait of a frame together fit in the confirmation window; otherwise the  *)
(* second observation may be a projection of the first.                    *)
(***************************************************************************)
THEOREM PromptEarlyEndIsConfirmed ==
  ASSUME ~Disconnects, DetectorPeriod + FrameWait <= Release
  PROVE  EvidenceSpec => EarlyEndIsConfirmed
<1>1. EvidenceInit => TypeOK /\ PhaseInv /\ EarlyInv
  BY InitType, InitPhase, EarlyInitially DEF EvidenceInit
<1>2. TypeOK /\ PhaseInv /\ EarlyInv /\ [EvidenceNext]_evidenceVars
        => (TypeOK /\ PhaseInv /\ EarlyInv)'
  BY EvidenceRefines, NextType, NextPhase, EarlyKept
<1>3. Release .. DetectionCap - 1 = {}
  BY TimingAssumption DEF DetectionCap
<1>4. TypeOK /\ PhaseInv /\ EarlyInv /\ [EvidenceNext]_evidenceVars
        => [EarlyEnd /\ elapsed' > 0 => emptyResults' = EnoughResults]_evidenceVars
  BY <1>3, EarlyStep
<1> QED BY <1>1, <1>2, <1>4, PTL DEF EvidenceSpec, EarlyEndIsConfirmed

-----------------------------------------------------------------------------
(* Distances are those of a cycle of NumLanes approaches.                  *)
LEMMA DistanceRange ==
  ASSUME NEW from \in Lane, NEW to \in Lane
  PROVE  Distance(from, to) \in 0 .. NumLanes - 1
BY NumLanesAssumption DEF Distance, Lane

(* When the cursor moves just past w, an approach beyond w comes closer by *)
(* one more than its way to w.                                             *)
LEMMA DistanceShrinks ==
  ASSUME NEW c \in Lane, NEW w \in Lane, NEW l \in Lane,
         l # w, Distance(c, w) <= Distance(c, l)
  PROVE  Distance(AdvanceAfter(w), l) + 1 <= Distance(c, l)
BY NumLanesAssumption DEF Distance, AdvanceAfter, Lane

(* Different approaches are at different distances from the cursor.        *)
LEMMA DistanceSeparates ==
  ASSUME NEW cur \in Lane, NEW k \in Lane, NEW l \in Lane,
         Distance(cur, k) = Distance(cur, l)
  PROVE  k = l
BY NumLanesAssumption DEF Distance, Lane

(* The natural numbers are well-founded.                                   *)
LEMMA LeastDistance ==
  ASSUME NEW B \in SUBSET Nat, B # {}
  PROVE  \E n \in B : \A m \in Nat : m < n => m \notin B
<1>1. PICK n \in B : \A m \in B : ~(<<m, n>> \in OpToRel(<, Nat))
  BY NatLessThanWellFounded, WFMin
<1> QED BY <1>1 DEF OpToRel

(***************************************************************************)
(* select_eligible's walk from the cursor always finds an approach while   *)
(* there is demand, and only one: without emergencies SelectEligible       *)
(* leaves Grant no choice, for any number of approaches.                   *)
(***************************************************************************)
THEOREM OneApproachIsNext ==
  ASSUME NEW demand \in SUBSET Lane, demand # {}, NEW cur \in Lane
  PROVE  \E l \in demand : SelectEligible(demand, {}, cur) = {l}
<1> DEFINE B == {Distance(cur, l) : l \in demand}
<1>1. B \in SUBSET Nat /\ B # {}
  BY DistanceRange
<1>2. PICK n \in B : \A m \in Nat : m < n => m \notin B
  BY <1>1, LeastDistance
<1>3. \A m \in B : n <= m
  BY <1>1, <1>2
<1>4. PICK l \in demand : n = Distance(cur, l)
  BY <1>2
<1>5. \A k \in demand : Distance(cur, l) <= Distance(cur, k)
  BY <1>3, <1>4
<1>6. ASSUME NEW k \in demand, \A j \in demand : Distance(cur, k) <= Distance(cur, j)
      PROVE  k = l
  BY <1>5, <1>6, DistanceRange, DistanceSeparates
<1>7. SelectEligible(demand, {}, cur) = {l}
  BY <1>5, <1>6 DEF SelectEligible
<1> QED BY <1>7

-----------------------------------------------------------------------------
(* The inductive invariant.                                                *)
ServiceInv ==
  /\ TypeOK
  /\ NoEmergencySeen
  /\ passed \in [Lane -> Nat]
  /\ PassesBoundedByDistance

LEMMA GrantStepService ==
  ASSUME EmergencyLanes = {}, ServiceInv,
         NEW frames \in Inputs, NEW w \in Lane, GrantStep(frames, w), CountPassed(w)
  PROVE  ServiceInv'
<1>1. TypeOK'
  BY GrantStepType DEF ServiceInv
<1>2. NoEmergencySeen'
  BY ObserveNoEmergency DEF GrantStep, StepBegins, ServiceInv
<1>3. passed' \in [Lane -> Nat]
  BY NumLanesAssumption DEF CountPassed, ServiceInv, Smaller
<1>4. PICK g \in GreenChoices : Grant(frames, w, g)
  BY DEF GrantStep
<1>5. cursor \in Lane /\ cursor' = AdvanceAfter(w)
  BY <1>4 DEF Grant, DecisionFor, CommandFor, ServiceInv, TypeOK
<1>6. EmergencyDemand = {}
  BY <1>2 DEF EmergencyDemand, Demand, NoEmergencySeen
<1>7. \A k \in Demand : Distance(cursor, w) <= Distance(cursor, k)
  BY <1>4, <1>6 DEF Grant, DecisionFor, CommandFor, SelectEligible
<1>8. ASSUME NEW l \in Lane PROVE passed'[l] + Distance(cursor', l) < NumLanes
  <2>1. Distance(cursor', l) \in 0 .. NumLanes - 1
    BY <1>5, AdvanceAfterType, DistanceRange
  <2>2. CASE l = w \/ l \notin Demand
    <3>1. passed'[l] = 0
      BY <2>2 DEF CountPassed
    <3> QED BY <2>1, <3>1, NumLanesAssumption
  <2>3. CASE l # w /\ l \in Demand
    <3>1. passed'[l] = Smaller(passed[l] + 1, NumLanes)
      BY <2>3 DEF CountPassed
    <3>2. passed[l] \in Nat /\ passed[l] + Distance(cursor, l) < NumLanes
      BY DEF ServiceInv, PassesBoundedByDistance
    <3>3. passed'[l] <= passed[l] + 1 /\ passed'[l] \in Nat
      BY <3>1, <3>2, NumLanesAssumption DEF Smaller
    <3>4. Distance(cursor', l) + 1 <= Distance(cursor, l)
      BY <1>5, <1>7, <2>3, DistanceShrinks
    <3>5. Distance(cursor, l) \in 0 .. NumLanes - 1
      BY <1>5, DistanceRange
    <3> QED BY <2>1, <3>2, <3>3, <3>4, <3>5, NumLanesAssumption
  <2> QED BY <2>2, <2>3
<1> QED BY <1>1, <1>2, <1>3, <1>8 DEF ServiceInv, PassesBoundedByDistance

LEMMA ServiceInitInv == ServiceInit => ServiceInv
<1> SUFFICES ASSUME ServiceInit PROVE ServiceInv
  OBVIOUS
<1>1. TypeOK
  BY InitType DEF ServiceInit
<1>2. NoEmergencySeen
  BY DEF ServiceInit, Init, NoEmergencySeen
<1>3. passed \in [Lane -> Nat] /\ \A l \in Lane : passed[l] = 0
  BY DEF ServiceInit
<1>4. cursor \in Lane
  BY <1>1 DEF TypeOK
<1>5. PassesBoundedByDistance
  BY <1>3, <1>4, DistanceRange, NumLanesAssumption DEF PassesBoundedByDistance
<1> QED BY <1>1, <1>2, <1>3, <1>5 DEF ServiceInv

LEMMA ServiceNextInv ==
  ASSUME EmergencyLanes = {}
  PROVE  ServiceInv /\ [ServiceNext]_serviceVars => ServiceInv'
<1> SUFFICES ASSUME ServiceInv, [ServiceNext]_serviceVars PROVE ServiceInv'
  OBVIOUS
<1>1. ASSUME NEW frames \in Inputs, ContinueStep(frames), UNCHANGED passed
      PROVE  ServiceInv'
  <2>1. TypeOK'
    BY <1>1, ContinueStepType DEF ServiceInv
  <2>2. NoEmergencySeen'
    BY <1>1, ObserveNoEmergency DEF ContinueStep, StepBegins, ServiceInv
  <2>3. cursor' = cursor
    BY <1>1 DEF ContinueStep, KeepPhase, HoldAllRed
  <2> QED BY <1>1, <2>1, <2>2, <2>3 DEF ServiceInv, PassesBoundedByDistance
<1>2. CASE \E frames \in Inputs : \E w \in Lane : GrantStep(frames, w) /\ CountPassed(w)
  BY <1>2, GrantStepService
<1>3. CASE /\ ResetPhase \/ Configure \/ Tick \/ UNCHANGED vars
           /\ UNCHANGED passed
  <2>1. TypeOK'
    BY <1>3, NextType DEF Next, ServiceInv
  <2>2. UNCHANGED <<hist, auth, cursor>>
    BY <1>3 DEF ResetPhase, Configure, Tick, vars, laneVars, phaseVars
  <2> QED BY <1>3, <2>1, <2>2 DEF ServiceInv, NoEmergencySeen, PassesBoundedByDistance
<1> QED BY <1>1, <1>2, <1>3 DEF ServiceNext, serviceVars

(***************************************************************************)
(* Every pass brings the cursor closer to an approach that waits.          *)
(***************************************************************************)
THEOREM PassesBounded ==
  ASSUME EmergencyLanes = {}
  PROVE  ServiceSpec => []PassesBoundedByDistance
<1>1. ServiceInv => PassesBoundedByDistance
  BY DEF ServiceInv
<1> QED BY <1>1, ServiceInitInv, ServiceNextInv, PTL DEF ServiceSpec

(***************************************************************************)
(* Without emergencies no approach with demand is passed over NumLanes     *)
(* times in a row, however long the greens and whatever the frames say.    *)
(***************************************************************************)
THEOREM RoundRobin ==
  ASSUME EmergencyLanes = {}
  PROVE  ServiceSpec => []ServedWithinOneCycle
<1>1. ServiceInv => ServedWithinOneCycle
  <2> SUFFICES ASSUME ServiceInv, NEW l \in Lane PROVE passed[l] < NumLanes
    BY DEF ServedWithinOneCycle
  <2>1. cursor \in Lane /\ passed[l] \in Nat /\ passed[l] + Distance(cursor, l) < NumLanes
    BY DEF ServiceInv, TypeOK, PassesBoundedByDistance
  <2> QED BY <2>1, DistanceRange, NumLanesAssumption
<1> QED BY <1>1, ServiceInitInv, ServiceNextInv, PTL DEF ServiceSpec

-----------------------------------------------------------------------------
Clearance == Yellow + AllRed - Rounding

(***************************************************************************)
(* Unless a reset has dropped it, each approach that is not the active one *)
(* has been without green for the clearance; in any case it has been so    *)
(* since the phase began.  The active one has been without green for as    *)
(* long as its yellow and all-red have lasted, less the rounding of an     *)
(* early end.                                                              *)
(***************************************************************************)
OthersClear == ~dropped => \A l \in Lane : l # active.lane => sinceGreen[l] >= Clearance

OthersWait ==
  HasDecision =>
    \A l \in Lane : l # active.lane => sinceGreen[l] >= Smaller(SinceGreenCap, elapsed)

ActiveClears ==
  HasDecision =>
    sinceGreen[active.lane] >= Smaller(SinceGreenCap, elapsed - active.green - Rounding)

ClearanceInv ==
  /\ TypeOK
  /\ PhaseInv
  /\ NoEmergencySeen
  /\ sinceGreen \in [Lane -> 0 .. SinceGreenCap]
  /\ dropped \in BOOLEAN
  /\ OthersClear
  /\ OthersWait
  /\ ActiveClears

-----------------------------------------------------------------------------
LEMMA Constants ==
  /\ Second \in Nat /\ Second >= 1
  /\ Yellow \in Nat /\ Yellow >= Second
  /\ AllRed \in Nat /\ AllRed >= 1
  /\ Rounding = Second - 1
  /\ SinceGreenCap = Yellow + AllRed + 1
  /\ Clearance = Yellow + AllRed - Rounding
BY TimingAssumption DEF Rounding, SinceGreenCap, Clearance

LEMMA PhaseTypes ==
  ASSUME TypeOK, PhaseInv
  PROVE  /\ elapsed \in Nat /\ active.green \in Nat
         /\ HasDecision => active.lane \in Lane /\ Second <= active.green
BY BoundsAssumption DEF TypeOK, PhaseInv

(* An early end is rounded by less than a second.                          *)
LEMMA EarlyEndRounds ==
  ASSUME TypeOK, NEW frames, ReleasesEarly(frames)
  PROVE  GreenNow(frames) \in Nat /\ elapsed - GreenNow(frames) <= Rounding
<1>1. GreenNow(frames) = Larger(Second, WholeSeconds(elapsed))
  BY DEF GreenNow
<1>2. elapsed \in Nat
  BY BoundsAssumption DEF TypeOK
<1> QED BY <1>1, <1>2, WholeSecondsRange, Constants DEF Larger

(* A phase that ends without preemption has shown its whole clearance.     *)
LEMMA PhaseEndsInAllRed ==
  ASSUME TypeOK, PhaseInv, NEW frames, PhaseChanges(frames), NoEmergencySeen', HasDecision
  PROVE  elapsed >= active.green + Yellow + AllRed
<1>1. Expired(frames)
  BY DEF PhaseChanges, Preempted, NoEmergencySeen
<1>2. elapsed >= GreenNow(frames) + Yellow + AllRed
  BY <1>1 DEF Expired
<1>3. ~ReleasesEarly(frames)
  <2> SUFFICES ASSUME ReleasesEarly(frames) PROVE FALSE
    OBVIOUS
  <2> QED BY <1>2, EarlyEndRounds, PhaseTypes, Constants
<1> QED BY <1>2, <1>3 DEF GreenNow

LEMMA PhaseEndsClear ==
  ASSUME ClearanceInv, NEW frames, PhaseChanges(frames), NoEmergencySeen'
  PROVE  /\ HasDecision \/ ~dropped => \A l \in Lane : sinceGreen[l] >= Clearance
         /\ SignalState = "ALL_RED"
<1> USE DEF ClearanceInv
<1>1. CASE ~HasDecision
  <2>1. active.lane = -1
    BY <1>1 DEF HasDecision, NoDecision
  <2> QED BY <1>1, <2>1, NoneIsNotALane DEF OthersClear, SignalState
<1>2. CASE HasDecision
  <2>1. elapsed >= active.green + Yellow + AllRed
    BY <1>2, PhaseEndsInAllRed
  <2>2. active.lane \in Lane /\ elapsed \in Nat /\ active.green \in Nat
    BY <1>2, PhaseTypes
  <2>3. sinceGreen[active.lane] >= Smaller(SinceGreenCap, elapsed - active.green - Rounding)
    BY <1>2 DEF ActiveClears
  <2>4. \A l \in Lane : sinceGreen[l] \in Nat
    BY Constants
  <2>5. sinceGreen[active.lane] >= Clearance
    BY <2>1, <2>2, <2>3, <2>4, Constants DEF Smaller
  <2>6. ASSUME NEW l \in Lane, l # active.lane PROVE sinceGreen[l] >= Clearance
    <3>1. sinceGreen[l] >= Smaller(SinceGreenCap, elapsed)
      BY <1>2, <2>6 DEF OthersWait
    <3> QED BY <2>1, <2>2, <2>4, <3>1, Constants DEF Smaller
  <2>7. SignalState = "ALL_RED"
    BY <1>2, <2>1, <2>2, Constants DEF SignalState
  <2> QED BY <2>5, <2>6, <2>7
<1> QED BY <1>1, <1>2

(* Only the active approach can be green.                                  *)
LEMMA GreenIsActive ==
  ASSUME NEW l \in Lane, Green(l)
  PROVE  HasDecision /\ l = active.lane /\ elapsed < active.green
BY DEF Green, SignalState

(* What the stopwatches show after a step that takes no time.              *)
LEMMA WatchType ==
  ASSUME sinceGreen \in [Lane -> 0 .. SinceGreenCap], Watch
  PROVE  /\ sinceGreen' \in [Lane -> 0 .. SinceGreenCap]
         /\ \A l \in Lane : ~Green(l)' => sinceGreen'[l] = sinceGreen[l]
BY Constants DEF Watch

(* A dropped clearance is restored only where a phase ends.                *)
LEMMA WatchDropped ==
  ASSUME WatchStep
  PROVE  /\ Watch
         /\ dropped' \in BOOLEAN
         /\ ~dropped' => ~dropped \/ HasDecision
         /\ ~dropped' /\ active'.lane = active.lane => ~dropped
BY DEF WatchStep, HandsOver

-----------------------------------------------------------------------------
(* The three outcomes of process_step.                                     *)
LEMMA KeepPhaseClears ==
  ASSUME ClearanceInv, NEW frames \in Inputs, KeepPhase(frames), PhaseInv', WatchStep
  PROVE  OthersClear' /\ OthersWait' /\ ActiveClears'
<1> USE DEF ClearanceInv
<1>1. HasDecision
  BY DEF KeepPhase, PhaseChanges, Expired
<1>2. /\ active'.lane = active.lane /\ active'.green = GreenNow(frames)
      /\ elapsed' = elapsed
  BY DEF KeepPhase, TypeOK
<1>3. active.lane \in Lane /\ elapsed \in Nat /\ active.green \in Nat /\ Second <= active.green
  BY <1>1, PhaseTypes
<1>a. PICK a \in Lane : a = active.lane
  BY <1>3
<1>b. Watch
  BY WatchDropped
<1>c. ASSUME NEW l \in Lane, l # active'.lane PROVE sinceGreen'[l] = sinceGreen[l]
  <2>1. ~Green(l)'
    BY <1>c DEF Green
  <2> QED BY <1>b, <2>1, WatchType
<1>d. OthersClear'
  <2> SUFFICES ASSUME ~dropped', NEW l \in Lane, l # active'.lane
               PROVE  sinceGreen'[l] >= Clearance
    BY DEF OthersClear, Clearance, Rounding
  <2>1. ~dropped
    BY <1>2, WatchDropped
  <2> QED BY <1>2, <1>c, <2>1 DEF OthersClear
<1>e. OthersWait'
  <2> SUFFICES ASSUME NEW l \in Lane, l # active'.lane
               PROVE  sinceGreen'[l] >= Smaller(SinceGreenCap, elapsed')
    BY DEF OthersWait, SinceGreenCap
  <2> QED BY <1>1, <1>2, <1>c DEF OthersWait
<1>4. OthersClear' /\ OthersWait'
  BY <1>d, <1>e
<1>5. CASE ReleasesEarly(frames)
  <2>1. GreenNow(frames) \in Nat /\ elapsed - GreenNow(frames) <= Rounding
    BY <1>5, EarlyEndRounds
  <2>2. sinceGreen'[active.lane] \in Nat
    BY <1>3, <1>b, WatchType, Constants
  <2>3. sinceGreen'[active'.lane]
          >= Smaller(SinceGreenCap, elapsed' - active'.green - Rounding)
    BY <1>2, <1>3, <2>1, <2>2, Constants DEF Smaller
  <2> QED BY <1>4, <2>3 DEF ActiveClears, SinceGreenCap, Rounding
<1>6. CASE ~ReleasesEarly(frames)
  <2>1. active'.green = active.green
    BY <1>2, <1>6 DEF GreenNow
  <2>2. sinceGreen[active.lane] >= Smaller(SinceGreenCap, elapsed - active.green - Rounding)
    BY <1>1 DEF ActiveClears
  <2>3. CASE Green(a)'
    <3>1. elapsed' < active'.green
      BY <2>3 DEF Green, SignalState
    <3>2. sinceGreen'[active.lane] \in Nat
      BY <1>3, <1>b, WatchType, Constants
    <3>3. sinceGreen'[active'.lane]
            >= Smaller(SinceGreenCap, elapsed' - active'.green - Rounding)
      BY <1>2, <1>3, <2>1, <3>1, <3>2, Constants DEF Smaller
    <3> QED BY <1>4, <3>3 DEF ActiveClears, SinceGreenCap, Rounding
  <2>4. CASE ~Green(a)'
    <3>1. sinceGreen'[a] = sinceGreen[a]
      BY <1>b, <2>4, WatchType
    <3>2. sinceGreen'[active'.lane]
            >= Smaller(SinceGreenCap, elapsed' - active'.green - Rounding)
      BY <1>2, <1>a, <2>1, <2>2, <3>1
    <3> QED BY <1>4, <3>2 DEF ActiveClears, SinceGreenCap, Rounding
  <2> QED BY <2>3, <2>4
<1> QED BY <1>5, <1>6

LEMMA HoldAllRedClears ==
  ASSUME ClearanceInv, NEW frames \in Inputs, HoldAllRed(frames), NoEmergencySeen', WatchStep
  PROVE  OthersClear' /\ OthersWait' /\ ActiveClears'
<1>1. HasDecision \/ ~dropped => \A l \in Lane : sinceGreen[l] >= Clearance
  BY PhaseEndsClear DEF HoldAllRed
<1>2. active' = NoDecision
  BY DEF HoldAllRed
<1>3. \A l \in Lane : ~Green(l)'
  BY <1>2 DEF Green, SignalState, HasDecision
<1>4. ~dropped' => \A l \in Lane : sinceGreen'[l] >= Clearance
  BY <1>1, <1>3, WatchType, WatchDropped DEF ClearanceInv
<1> QED BY <1>2, <1>4
        DEF OthersClear, OthersWait, ActiveClears, HasDecision, Clearance, Rounding

LEMMA GrantClears ==
  ASSUME ClearanceInv, NEW frames \in Inputs, NEW w \in Lane, NEW g \in GreenChoices,
         Grant(frames, w, g), NoEmergencySeen', WatchStep
  PROVE  OthersClear' /\ OthersWait' /\ ActiveClears'
<1>1. HasDecision \/ ~dropped => \A l \in Lane : sinceGreen[l] >= Clearance
  BY PhaseEndsClear DEF Grant, DecisionFor, CommandFor
<1>2. active'.lane = w /\ active'.green = g /\ elapsed' = 0
  BY DEF Grant, DecisionFor, CommandFor
<1>3. g \in Nat /\ Second <= g
  BY GreenChoicesType DEF ClearanceInv
<1>4. Watch /\ sinceGreen' \in [Lane -> 0 .. SinceGreenCap]
  BY WatchType, WatchDropped DEF ClearanceInv
<1>5. OthersClear'
  <2> SUFFICES ASSUME ~dropped', NEW l \in Lane, l # active'.lane
               PROVE  sinceGreen'[l] >= Clearance
    BY DEF OthersClear, Clearance, Rounding
  <2>1. ~Green(l)'
    BY DEF Green
  <2>2. sinceGreen'[l] = sinceGreen[l]
    BY <1>4, <2>1, WatchType DEF ClearanceInv
  <2> QED BY <1>1, <2>2, WatchDropped
<1>6. OthersWait'
  <2> SUFFICES ASSUME NEW l \in Lane, l # active'.lane
               PROVE  sinceGreen'[l] >= Smaller(SinceGreenCap, elapsed')
    BY DEF OthersWait, SinceGreenCap
  <2>1. sinceGreen'[l] \in Nat
    BY <1>4, Constants
  <2> QED BY <1>2, <2>1, Constants DEF Smaller
<1>7. sinceGreen'[w] \in Nat
  BY <1>4, Constants
<1>8. sinceGreen'[active'.lane]
        >= Smaller(SinceGreenCap, elapsed' - active'.green - Rounding)
  BY <1>2, <1>3, <1>7, Constants DEF Smaller
<1> QED BY <1>5, <1>6, <1>8 DEF ActiveClears, SinceGreenCap, Rounding

(* Time passes: the clocks of a phase and of its approach run together.    *)
LEMMA TickClears ==
  ASSUME ClearanceInv, Tick, WatchTick, UNCHANGED dropped
  PROVE  /\ sinceGreen' \in [Lane -> 0 .. SinceGreenCap]
         /\ OthersClear' /\ OthersWait' /\ ActiveClears'
<1> USE DEF ClearanceInv
<1>1. active' = active /\ elapsed' \in {elapsed, elapsed + 1}
  BY DEF Tick, Smaller, TypeOK
<1>2. sinceGreen' \in [Lane -> 0 .. SinceGreenCap]
  BY Constants DEF WatchTick, Smaller
<1>3. \A l \in Lane : ~Green(l) => sinceGreen'[l] = Smaller(sinceGreen[l] + 1, SinceGreenCap)
  BY DEF WatchTick
<1>4. OthersClear'
  <2> SUFFICES ASSUME ~dropped, NEW l \in Lane, l # active.lane
               PROVE  sinceGreen'[l] >= Clearance
    BY <1>1 DEF OthersClear, Clearance, Rounding
  <2>1. ~Green(l)
    BY DEF Green
  <2>2. sinceGreen[l] >= Clearance /\ sinceGreen[l] \in Nat
    BY Constants DEF OthersClear
  <2> QED BY <1>3, <2>1, <2>2, Constants DEF Smaller
<1>6. OthersWait'
  <2> SUFFICES ASSUME HasDecision, NEW l \in Lane, l # active.lane
               PROVE  sinceGreen'[l] >= Smaller(SinceGreenCap, elapsed')
    BY <1>1 DEF OthersWait, HasDecision, SinceGreenCap
  <2>1. ~Green(l)
    BY DEF Green
  <2>2. sinceGreen[l] >= Smaller(SinceGreenCap, elapsed) /\ sinceGreen[l] \in Nat
    BY Constants DEF OthersWait
  <2>3. elapsed \in Nat
    BY PhaseTypes
  <2> QED BY <1>1, <1>3, <2>1, <2>2, <2>3, Constants DEF Smaller
<1>5. ActiveClears'
  <2> SUFFICES ASSUME HasDecision
               PROVE  sinceGreen'[active.lane]
                        >= Smaller(SinceGreenCap, elapsed' - active.green - Rounding)
    BY <1>1 DEF ActiveClears, HasDecision, SinceGreenCap, Rounding
  <2>1. active.lane \in Lane /\ elapsed \in Nat /\ active.green \in Nat
    BY PhaseTypes
  <2>2. sinceGreen[active.lane] \in Nat /\ sinceGreen'[active.lane] \in Nat
    BY <1>2, <2>1, Constants
  <2>3. CASE Green(active.lane)
    <3>1. elapsed < active.green
      BY <2>1, <2>3, GreenIsActive
    <3>2. elapsed' - active.green - Rounding <= 0
      BY <1>1, <2>1, <3>1, Constants
    <3> QED BY <1>1, <2>1, <2>2, <3>2, Constants DEF Smaller
  <2>4. CASE ~Green(active.lane)
    <3>1. sinceGreen'[active.lane] = Smaller(sinceGreen[active.lane] + 1, SinceGreenCap)
      BY <1>3, <2>1, <2>4
    <3>2. sinceGreen[active.lane] >= Smaller(SinceGreenCap, elapsed - active.green - Rounding)
      BY DEF ActiveClears
    <3> QED BY <1>1, <2>1, <2>2, <3>1, <3>2, Constants DEF Smaller
  <2> QED BY <2>3, <2>4
<1> QED BY <1>2, <1>4, <1>5, <1>6

-----------------------------------------------------------------------------
LEMMA ClearanceInitInv == ClearanceInit => ClearanceInv
<1> SUFFICES ASSUME ClearanceInit PROVE ClearanceInv
  OBVIOUS
<1> USE DEF ClearanceInit
<1>1. TypeOK /\ PhaseInv
  BY InitType, InitPhase
<1>2. NoEmergencySeen
  BY DEF Init, NoEmergencySeen
<1>3. sinceGreen \in [Lane -> 0 .. SinceGreenCap]
  BY Constants
<1>4. OthersClear
  BY Constants DEF OthersClear
<1>5. OthersWait /\ ActiveClears
  BY DEF Init, OthersWait, ActiveClears, HasDecision
<1> QED BY <1>1, <1>2, <1>3, <1>4, <1>5 DEF ClearanceInv

LEMMA ClearanceNextInv ==
  ASSUME EmergencyLanes = {}
  PROVE  ClearanceInv /\ [ClearanceNext]_clearanceVars => ClearanceInv'
<1> SUFFICES ASSUME ClearanceInv, [ClearanceNext]_clearanceVars PROVE ClearanceInv'
  OBVIOUS
<1>1. [Next]_vars
  BY DEF ClearanceNext, Next, clearanceVars
<1>2. TypeOK' /\ PhaseInv'
  BY <1>1, NextType, NextPhase DEF ClearanceInv
<1>3. ASSUME NEW frames \in Inputs, ProcessStep(frames), WatchStep PROVE ClearanceInv'
  <2>1. NoEmergencySeen'
    BY <1>3, ObserveNoEmergency
    DEF ProcessStep, ContinueStep, GrantStep, StepBegins, ClearanceInv
  <2>2. sinceGreen' \in [Lane -> 0 .. SinceGreenCap]
    BY <1>3, WatchType, WatchDropped DEF ClearanceInv
  <2>3. OthersClear' /\ OthersWait' /\ ActiveClears'
    BY <1>2, <1>3, <2>1, KeepPhaseClears, HoldAllRedClears, GrantClears
    DEF ProcessStep, ContinueStep, GrantStep
  <2> QED BY <1>2, <1>3, <2>1, <2>2, <2>3, WatchDropped DEF ClearanceInv
<1>4. CASE CameraStep /\ WatchStep
  BY <1>3, <1>4 DEF CameraStep, Inputs
<1>5. CASE TickerStep /\ WatchStep
  BY <1>3, <1>5 DEF TickerStep, Inputs
<1>6. CASE ResetPhase /\ Watch /\ dropped' = TRUE
  <2>1. NoEmergencySeen'
    BY <1>6 DEF ResetPhase, laneVars, NoEmergencySeen, ClearanceInv
  <2>2. sinceGreen' \in [Lane -> 0 .. SinceGreenCap]
    BY <1>6, WatchType DEF ClearanceInv
  <2>3. ~HasDecision'
    BY <1>6 DEF ResetPhase, HasDecision
  <2> QED BY <1>2, <1>6, <2>1, <2>2, <2>3
          DEF ClearanceInv, OthersClear, OthersWait, ActiveClears
<1>7. CASE Configure /\ Watch /\ UNCHANGED dropped
  <2>1. UNCHANGED <<hist, auth, active, elapsed>>
    BY <1>7 DEF Configure, laneVars, phaseVars
  <2>2. \A l \in Lane : Green(l)' = Green(l)
    BY <2>1 DEF Green, SignalState, HasDecision
  <2>3. sinceGreen' \in [Lane -> 0 .. SinceGreenCap]
    BY <1>7, WatchType DEF ClearanceInv
  <2>a. ASSUME NEW l \in Lane, l # active'.lane PROVE sinceGreen'[l] = sinceGreen[l]
    <3>1. ~Green(l)'
      BY <2>a DEF Green
    <3> QED BY <1>7, <3>1, WatchType DEF ClearanceInv
  <2>b. OthersWait'
    BY <2>1, <2>a DEF OthersWait, ClearanceInv, HasDecision, SinceGreenCap
  <2>4. OthersClear'
    BY <1>7, <2>1, <2>a DEF OthersClear, ClearanceInv, Clearance, Rounding
  <2>5. ActiveClears'
    <3> SUFFICES ASSUME HasDecision
                 PROVE  sinceGreen'[active.lane]
                          >= Smaller(SinceGreenCap, elapsed - active.green - Rounding)
      BY <2>1 DEF ActiveClears, HasDecision, SinceGreenCap, Rounding
    <3>1. active.lane \in Lane /\ elapsed \in Nat /\ active.green \in Nat
      BY PhaseTypes DEF ClearanceInv
    <3>2. CASE Green(active.lane)
      <4>1. elapsed < active.green
        BY <3>1, <3>2, GreenIsActive
      <4>2. sinceGreen'[active.lane] \in Nat
        BY <2>3, <3>1, Constants
      <4> QED BY <3>1, <4>1, <4>2, Constants DEF Smaller
    <3>3. CASE ~Green(active.lane)
      BY <1>7, <2>2, <3>1, <3>3, WatchType DEF ActiveClears, ClearanceInv
    <3> QED BY <3>2, <3>3
  <2>6. NoEmergencySeen'
    BY <2>1 DEF NoEmergencySeen, ClearanceInv
  <2> QED BY <1>2, <1>7, <2>b, <2>3, <2>4, <2>5, <2>6 DEF ClearanceInv
<1>8. CASE Tick /\ WatchTick /\ UNCHANGED dropped
  <2>1. NoEmergencySeen'
    BY <1>8 DEF Tick, NoEmergencySeen, ClearanceInv
  <2> QED BY <1>2, <1>8, <2>1, TickClears DEF ClearanceInv
<1>9. CASE UNCHANGED clearanceVars
  <2>1. UNCHANGED <<hist, auth, active, elapsed, sinceGreen, dropped>>
    BY <1>9 DEF clearanceVars, vars
  <2> QED BY <1>2, <2>1
          DEF ClearanceInv, OthersClear, OthersWait, ActiveClears, HasDecision, NoEmergencySeen,
              Clearance, SinceGreenCap, Rounding
<1> QED BY <1>4, <1>5, <1>6, <1>7, <1>8, <1>9 DEF ClearanceNext

(***************************************************************************)
(* While an approach is green, every other one has been without green for  *)
(* yellow plus all-red less the rounding of an early end, unless a reset   *)
(* has dropped the clearance and no phase has followed another since.      *)
(***************************************************************************)
THEOREM ClearanceAlwaysHeld ==
  ASSUME EmergencyLanes = {}
  PROVE  ClearanceSpec => []ClearanceHeld
<1>1. ClearanceInv => ClearanceHeld
  BY GreenIsActive DEF ClearanceInv, OthersClear, ClearanceHeld, Clearance
<1> QED BY <1>1, ClearanceInitInv, ClearanceNextInv, PTL DEF ClearanceSpec

-----------------------------------------------------------------------------
(***************************************************************************)
(* The phase machine implements the abstract signal head: each of its      *)
(* steps changes the colour as the head may, or not at all.                *)
(***************************************************************************)
LEMMA KeepPhaseColour ==
  ASSUME ClearanceInv, NEW frames \in Inputs, KeepPhase(frames), PhaseInv'
  PROVE  Head!TurnYellow \/ UNCHANGED <<active.lane, SignalState>>
<1> USE DEF ClearanceInv
<1>1. HasDecision
  BY DEF KeepPhase, PhaseChanges, Expired
<1>2. /\ active'.lane = active.lane /\ active'.green = GreenNow(frames)
      /\ elapsed' = elapsed
  BY DEF KeepPhase, TypeOK
<1>3. active.lane \in Lane /\ elapsed \in Nat /\ active.green \in Nat
  BY <1>1, PhaseTypes
<1>4. HasDecision'
  BY <1>2, <1>3, NoneIsNotALane DEF HasDecision, NoDecision
<1>5. CASE ReleasesEarly(frames)
  <2>1. GreenNow(frames) \in Nat /\ elapsed - GreenNow(frames) <= Rounding
    BY <1>5, EarlyEndRounds
  <2>2. SignalState = "GREEN"
    BY <1>1, <1>5 DEF ReleasesEarly, SignalState
  <2>3. elapsed' < active'.green + Yellow
    BY <1>2, <1>3, <2>1, Constants
  <2>4. SignalState' \in {"GREEN", "YELLOW"}
    BY <1>4, <2>3 DEF SignalState
  <2> QED BY <1>2, <2>2, <2>4 DEF Head!TurnYellow
<1>6. CASE ~ReleasesEarly(frames)
  <2>1. active'.green = active.green
    BY <1>2, <1>6 DEF GreenNow
  <2> QED BY <1>1, <1>2, <1>4, <2>1 DEF SignalState
<1> QED BY <1>5, <1>6

LEMMA StepColour ==
  ASSUME ClearanceInv, PhaseInv', NoEmergencySeen',
         NEW frames \in Inputs, ProcessStep(frames)
  PROVE  [Head!HeadNext]_<<active.lane, SignalState>>
<1>1. CASE KeepPhase(frames)
  BY <1>1, KeepPhaseColour DEF Head!HeadNext
<1>2. CASE HoldAllRed(frames)
  <2>1. SignalState = "ALL_RED"
    BY <1>2, PhaseEndsClear DEF HoldAllRed
  <2>2. active'.lane = -1 /\ SignalState' = "ALL_RED"
    BY <1>2 DEF HoldAllRed, NoDecision, SignalState, HasDecision
  <2> QED BY <2>1, <2>2 DEF Head!HeadNext, Head!Forget
<1>3. ASSUME NEW w \in Lane, NEW g \in GreenChoices, Grant(frames, w, g)
      PROVE  Head!HeadNext
  <2>1. SignalState = "ALL_RED"
    BY <1>3, PhaseEndsClear DEF Grant, DecisionFor, CommandFor
  <2>2. active'.lane = w /\ active'.green = g /\ elapsed' = 0
    BY <1>3 DEF Grant, DecisionFor, CommandFor
  <2>3. 0 < g
    BY GreenChoicesType, Constants DEF ClearanceInv
  <2>4. SignalState' = "GREEN"
    BY <2>2, <2>3, NoneIsNotALane DEF SignalState, HasDecision, NoDecision
  <2> QED BY <2>1, <2>2, <2>4 DEF Head!HeadNext, Head!TurnGreen
<1> QED BY <1>1, <1>2, <1>3 DEF ProcessStep, ContinueStep, GrantStep

LEMMA TickColour ==
  ASSUME ClearanceInv, Tick
  PROVE  [Head!HeadNext]_<<active.lane, SignalState>>
<1>1. active' = active /\ elapsed' \in {elapsed, elapsed + 1}
  BY DEF Tick, Smaller, ClearanceInv, TypeOK
<1>2. CASE ~HasDecision
  BY <1>1, <1>2 DEF SignalState, HasDecision
<1>3. CASE HasDecision
  <2>1. elapsed \in Nat /\ active.green \in Nat
    BY PhaseTypes DEF ClearanceInv
  <2>2. HasDecision'
    BY <1>1, <1>3 DEF HasDecision
  <2>3. CASE elapsed < active.green
    <3>1. SignalState = "GREEN"
      BY <1>3, <2>3 DEF SignalState
    <3>2. elapsed' < active'.green + Yellow
      BY <1>1, <2>1, <2>3, Constants
    <3>3. SignalState' \in {"GREEN", "YELLOW"}
      BY <2>2, <3>2 DEF SignalState
    <3> QED BY <1>1, <3>1, <3>3 DEF Head!HeadNext, Head!TurnYellow
  <2>4. CASE active.green <= elapsed /\ elapsed < active.green + Yellow
    <3>1. SignalState = "YELLOW"
      BY <1>3, <2>1, <2>4 DEF SignalState
    <3>2. ~(elapsed' < active'.green)
      BY <1>1, <2>1, <2>4
    <3>3. SignalState' \in {"YELLOW", "ALL_RED"}
      BY <2>2, <3>2 DEF SignalState
    <3> QED BY <1>1, <3>1, <3>3 DEF Head!HeadNext, Head!TurnRed
  <2>5. CASE active.green + Yellow <= elapsed
    <3>1. ~(elapsed < active.green) /\ ~(elapsed < active.green + Yellow)
      BY <2>1, <2>5, Constants
    <3>2. ~(elapsed' < active'.green) /\ ~(elapsed' < active'.green + Yellow)
      BY <1>1, <2>1, <2>5, Constants
    <3> QED BY <1>1, <1>3, <2>2, <3>1, <3>2 DEF SignalState
  <2> QED BY <2>1, <2>3, <2>4, <2>5, Constants
<1> QED BY <1>2, <1>3

(***************************************************************************)
(* The colours follow the documented order, whatever the timing constants. *)
(***************************************************************************)
THEOREM HeadImplemented ==
  ASSUME EmergencyLanes = {}
  PROVE  ClearanceSpec => ImplementsHead
<1>1. ClearanceInit => Head!HeadInit
  BY DEF ClearanceInit, Init, Head!HeadInit, SignalState, HasDecision, NoDecision
<1>2. ClearanceInv /\ ClearanceInv' /\ [ClearanceNext]_clearanceVars
        => [Head!HeadNext]_<<active.lane, SignalState>>
  <2> SUFFICES ASSUME ClearanceInv, ClearanceInv', [ClearanceNext]_clearanceVars
               PROVE  [Head!HeadNext]_<<active.lane, SignalState>>
    OBVIOUS
  <2>1. ASSUME NEW frames \in Inputs, ProcessStep(frames)
        PROVE  [Head!HeadNext]_<<active.lane, SignalState>>
    BY <2>1, StepColour DEF ClearanceInv
  <2>2. CASE CameraStep \/ TickerStep
    BY <2>1, <2>2 DEF CameraStep, TickerStep, Inputs
  <2>3. CASE ResetPhase
    <3>1. active'.lane = -1 /\ SignalState' = "ALL_RED"
      BY <2>3 DEF ResetPhase, NoDecision, SignalState, HasDecision
    <3> QED BY <3>1 DEF Head!HeadNext, Head!Forget
  <2>4. CASE UNCHANGED <<active, elapsed>>
    BY <2>4 DEF SignalState, HasDecision
  <2>5. CASE Tick
    BY <2>5, TickColour
  <2> QED BY <2>2, <2>3, <2>4, <2>5
          DEF ClearanceNext, Configure, phaseVars, clearanceVars, vars
<1> QED BY <1>1, <1>2, ClearanceInitInv, ClearanceNextInv, PTL
        DEF ClearanceSpec, ImplementsHead, Head!HeadSpec, Head!headVars

-----------------------------------------------------------------------------
(* A step that also keeps a history is a step of the phase machine.        *)
LEMMA ServiceRefines == [ServiceNext]_serviceVars => [Next]_vars
<1> SUFFICES ASSUME [ServiceNext]_serviceVars PROVE [Next]_vars
  OBVIOUS
<1>1. ASSUME NEW frames \in Inputs, ContinueStep(frames) \/ \E l \in Lane : GrantStep(frames, l)
      PROVE  Next
  BY <1>1 DEF ProcessStep, Inputs, Next, CameraStep, TickerStep
<1>2. CASE UNCHANGED serviceVars
  BY <1>2 DEF serviceVars
<1> QED BY <1>1, <1>2 DEF ServiceNext, Next

LEMMA ClearanceRefines == [ClearanceNext]_clearanceVars => [Next]_vars
BY DEF ClearanceNext, Next, clearanceVars

(***************************************************************************)
(* The three specifications with a history, which the runs check, are the  *)
(* phase machine of ai/pipeline/traffic_pipeline.py: their behaviours are  *)
(* its behaviours, and so what is proved of it holds of each of them.      *)
(***************************************************************************)
THEOREM HistoriesArePipeline ==
  /\ EvidenceSpec => Spec
  /\ ServiceSpec => Spec
  /\ ClearanceSpec => Spec
<1>1. EvidenceSpec => Spec
  BY EvidenceRefines, PTL DEF EvidenceSpec, EvidenceInit, Spec
<1>2. ServiceSpec => Spec
  BY ServiceRefines, PTL DEF ServiceSpec, ServiceInit, Spec
<1>3. ClearanceSpec => Spec
  BY ClearanceRefines, PTL DEF ClearanceSpec, ClearanceInit, Spec
<1> QED BY <1>1, <1>2, <1>3
=============================================================================
