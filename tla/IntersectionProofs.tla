------------------------- MODULE IntersectionProofs -------------------------
(***************************************************************************)
(* The two simulations.  What holds of the digital intersection for any    *)
(* number of approaches, any timing, any lengths of its steps, and cameras *)
(* and an AI that fail at any moment; and of the replay lab, for any       *)
(* length of its runs and any bounds of its scheduler.                     *)
(***************************************************************************)
EXTENDS IntersectionClearance, ReplayLab, TLAPS

(***************************************************************************)
(* The inductive invariant: a green rests on a camera and on the AI.       *)
(***************************************************************************)
SimInv ==
  /\ phase \in {"GREEN", "YELLOW", "ALL_RED"}
  /\ activeLane \in Lane \cup {-1}
  /\ phase # "ALL_RED" => activeLane \in Lane
  /\ remaining \in Nat
  /\ camera \in [Lane -> CameraStatus]
  /\ stalled \in BOOLEAN
  /\ phase = "GREEN" => ~stalled /\ camera[activeLane] = "HEALTHY"

(* Only approaches whose camera works have demand.                         *)
LEMMA WinnerIsWatched ==
  ASSUME SimInv, NEW stats \in [Lane -> Stat],
         NEW l \in SelectEligible(Demand(stats), EmergencyDemand(stats), cursor)
  PROVE  l \in Lane /\ camera[l] = "HEALTHY"
<1>1. l \in Demand(stats)
  BY DEF SelectEligible, EmergencyDemand
<1> QED BY <1>1 DEF Demand, SimInv, CameraStatus

LEMMA SimInvInitially == SimInit => SimInv
<1> SUFFICES ASSUME SimInit PROVE SimInv
  OBVIOUS
<1>1. camera \in [Lane -> CameraStatus]
  BY DEF SimInit, CameraStatus
<1> QED BY <1>1 DEF SimInit, SimInv

LEMMA SimInvPreserved ==
  ASSUME SimInv, [SimNext]_simVars
  PROVE  SimInv'
<1> USE SimulationAssumption
<1>1. CASE CameraEvent
  <2>1. PICK l \in Lane, status \in CameraStatus : CameraChanges(l, status)
    BY <1>1 DEF CameraEvent
  <2>2. camera' = [camera EXCEPT ![l] = status] /\ UNCHANGED stalled
    BY <2>1 DEF CameraChanges
  <2>3. camera' \in [Lane -> CameraStatus]
    BY <2>2 DEF SimInv
  <2>4. CASE Green(l)
    BY <2>1, <2>2, <2>3, <2>4 DEF CameraChanges, Enter, Green, SimInv
  <2>5. CASE ~Green(l)
    BY <2>1, <2>2, <2>3, <2>5 DEF CameraChanges, signalVars, Green, SimInv
  <2> QED BY <2>4, <2>5
<1>2. CASE AiStalls
  BY <1>2 DEF AiStalls, Hold, SimInv
<1>3. CASE AiRecovers
  BY <1>3 DEF AiRecovers, signalVars, SimInv
<1>4. ASSUME NEW dt \in StepSizes, StepSimulation(dt)
      PROVE  SimInv'
  <2>1. UNCHANGED <<camera, stalled>> /\ dt \in Nat
    BY <1>4 DEF StepSimulation
  <2>2. CASE SimHolds
    BY <2>1, <2>2 DEF SimHolds, Hold, SimInv
  <2>3. CASE StepCountsDown(dt)
    BY <2>1, <2>3 DEF StepCountsDown, SimInv
  <2>4. CASE GreenEnds(dt)
    BY <2>1, <2>4 DEF GreenEnds, Enter, SimInv
  <2>5. CASE YellowEnds(dt)
    BY <2>1, <2>5 DEF YellowEnds, Enter, SimInv
  <2>6. ASSUME NEW stats \in [Lane -> Stat], AllRedEnds(dt, stats)
        PROVE  SimInv'
    <3>1. CASE Hold
      BY <2>1, <3>1 DEF Hold, SimInv
    <3>2. CASE ~Hold
      <4>1. PICK l \in SelectEligible(Demand(stats), EmergencyDemand(stats), cursor) :
              phase' = "GREEN" /\ activeLane' = l /\ remaining' \in MinGreen .. MaxGreen
        BY <2>6, <3>2 DEF AllRedEnds
      <4>2. l \in Lane /\ camera[l] = "HEALTHY"
        BY <4>1, WinnerIsWatched
      <4>3. ~stalled
        BY <2>6 DEF AllRedEnds, MustHold, SimInv
      <4> QED BY <2>1, <4>1, <4>2, <4>3 DEF SimInv
    <3> QED BY <3>1, <3>2
  <2> QED BY <1>4, <2>2, <2>3, <2>4, <2>5, <2>6 DEF StepSimulation
<1>5. CASE UNCHANGED simVars
  BY <1>5 DEF simVars, signalVars, SimInv
<1> QED BY <1>1, <1>2, <1>3, <1>4, <1>5 DEF SimNext

(***************************************************************************)
(* Every state of the simulated junction satisfies the invariant.          *)
(***************************************************************************)
THEOREM SimInvariant == SimSpec => []SimInv
BY SimInvInitially, SimInvPreserved, PTL DEF SimSpec

-----------------------------------------------------------------------------
(***************************************************************************)
(* GreenIsWatched, for any number of approaches: what get_snapshot tells   *)
(* of the simulation never shows a green whose camera is offline or that   *)
(* stands in a hold.                                                       *)
(***************************************************************************)
THEOREM GreenAlwaysWatched == SimSpec => []GreenIsWatched
<1>1. SimInv => GreenIsWatched
  <2> SUFFICES ASSUME SimInv PROVE GreenIsWatched
    OBVIOUS
  <2>1. Snapshot.approaches = [l \in Lane |-> [camera_status |-> camera[l], signal |-> Signal(l)]]
    BY DEF Snapshot
  <2>2. Snapshot.safety_status = SafetyStatus
    BY DEF Snapshot
  <2>3. Snapshot.active_phase = IF activeLane \in Lane /\ phase # "ALL_RED"
                                THEN <<activeLane, phase>> ELSE <<"all_red">>
    BY DEF Snapshot
  <2>4. ASSUME NEW l \in Lane
        PROVE  /\ Snapshot.approaches[l].signal = Signal(l)
               /\ Snapshot.approaches[l].camera_status = camera[l]
    BY <2>1
  <2>5. ASSUME NEW l \in Lane, Snapshot.approaches[l].signal = "GREEN"
        PROVE  /\ Snapshot.approaches[l].camera_status # "OFFLINE"
               /\ Snapshot.safety_status # "ALL_RED_HOLD"
    <3>1. phase = "GREEN" /\ activeLane = l
      BY <2>4, <2>5 DEF Signal
    <3>2. ~stalled /\ camera[l] = "HEALTHY"
      BY <3>1 DEF SimInv
    <3>3. ~MustHold
      BY <3>2 DEF MustHold
    <3> QED BY <2>2, <2>4, <3>2, <3>3 DEF SafetyStatus
  <2>6. {l \in Lane : Snapshot.approaches[l].signal # "RED"}
          = {l \in Lane : activeLane = l /\ phase # "ALL_RED"}
    BY <2>4 DEF Signal, SimInv
  <2>7. {l \in Lane : Snapshot.approaches[l].signal # "RED"}
          = IF Snapshot.active_phase = <<"all_red">> THEN {} ELSE {Snapshot.active_phase[1]}
    <3>1. CASE activeLane \in Lane /\ phase # "ALL_RED"
      <4>1. Snapshot.active_phase = <<activeLane, phase>>
        BY <2>3, <3>1
      <4>2. <<activeLane, phase>> # <<"all_red">> /\ <<activeLane, phase>>[1] = activeLane
        OBVIOUS
      <4> QED BY <2>6, <3>1, <4>1, <4>2
    <3>2. CASE ~(activeLane \in Lane /\ phase # "ALL_RED")
      BY <2>3, <2>6, <3>2
    <3> QED BY <3>1, <3>2
  <2> QED BY <2>5, <2>7 DEF GreenIsWatched
<1> QED BY <1>1, SimInvariant, PTL

(***************************************************************************)
(* The simulation implements the abstract signal head: every way a step    *)
(* ends, and every failure, is one of its moves or none.                   *)
(***************************************************************************)
THEOREM SimulationIsHead == SimSpec => SimulationImplementsHead
<1>1. SimInit => Abstract!HeadInit
  BY DEF SimInit, Abstract!HeadInit
<1>2. ASSUME SimInv, [SimNext]_simVars
      PROVE  [Abstract!HeadNext]_(Abstract!headVars)
  <2> USE DEF Abstract!HeadNext, Abstract!headVars, Abstract!TurnGreen, Abstract!TurnYellow,
              Abstract!TurnRed, Abstract!Forget
  <2>1. CASE CameraEvent
    BY <2>1 DEF CameraEvent, CameraChanges, Enter, Green, signalVars
  <2>2. CASE AiStalls \/ AiRecovers
    BY <2>2 DEF AiStalls, AiRecovers, Hold, signalVars
  <2>3. ASSUME NEW dt \in StepSizes, StepSimulation(dt)
        PROVE  [Abstract!HeadNext]_(Abstract!headVars)
    <3>1. CASE SimHolds
      BY <3>1 DEF SimHolds, Hold
    <3>2. CASE StepCountsDown(dt)
      BY <3>2 DEF StepCountsDown
    <3>3. CASE GreenEnds(dt) \/ YellowEnds(dt)
      BY <3>3 DEF GreenEnds, YellowEnds, Enter
    <3>4. ASSUME NEW stats \in [Lane -> Stat], AllRedEnds(dt, stats)
          PROVE  [Abstract!HeadNext]_(Abstract!headVars)
      BY <1>2, <3>4, WinnerIsWatched DEF AllRedEnds, Hold
    <3> QED BY <2>3, <3>1, <3>2, <3>3, <3>4 DEF StepSimulation
  <2>4. CASE UNCHANGED simVars
    BY <2>4 DEF simVars, signalVars
  <2> QED BY <1>2, <2>1, <2>2, <2>3, <2>4 DEF SimNext
<1> QED BY <1>1, <1>2, SimInvariant, PTL DEF SimSpec, SimulationImplementsHead, Abstract!HeadSpec

-----------------------------------------------------------------------------
(***************************************************************************)
(* The stopwatches.                                                        *)
(***************************************************************************)

(* Unless a hold cut the clearance short, what is left of the yellow and   *)
(* the all-red is all that is missing to the clearance of an approach.     *)
ClearanceInv ==
  /\ sinceGreen \in [Lane -> Nat]
  /\ dropped \in BOOLEAN
  /\ ~dropped => \A m \in Lane :
       /\ phase = "GREEN" /\ m # activeLane => sinceGreen[m] >= Yellow + AllRed
       /\ phase = "YELLOW" => sinceGreen[m] + remaining >= Yellow
       /\ phase = "ALL_RED" => sinceGreen[m] + remaining >= Yellow + AllRed

(* What one step of dt seconds does to a stopwatch.                        *)
LEMMA WatchRuns ==
  ASSUME ClearanceInv, NEW dt \in Nat, Watch(dt)
  PROVE  /\ sinceGreen' \in [Lane -> Nat]
         /\ \A m \in Lane : ~Green(m) /\ ~Green(m)'
              => \/ sinceGreen'[m] >= sinceGreen[m] + dt
                 \/ sinceGreen'[m] > Yellow + AllRed
<1> USE SimulationAssumption
<1> DEFINE next(m) == IF Green(m) \/ Green(m)' THEN 0
                      ELSE Smaller(sinceGreen[m] + dt, SinceGreenCap)
<1>1. sinceGreen' = [m \in Lane |-> next(m)]
  BY Zenon DEF Watch
<1>2. ASSUME NEW m \in Lane PROVE next(m) \in Nat
  BY DEF ClearanceInv, Smaller, SinceGreenCap
<1>3. sinceGreen' \in [Lane -> Nat]
  BY <1>1, <1>2
<1>4. ASSUME NEW m \in Lane, ~Green(m), ~Green(m)'
      PROVE  sinceGreen'[m] >= sinceGreen[m] + dt \/ sinceGreen'[m] > Yellow + AllRed
  <2>1. sinceGreen'[m] = Smaller(sinceGreen[m] + dt, SinceGreenCap)
    BY <1>1, <1>4
  <2> QED BY <2>1 DEF ClearanceInv, Smaller, SinceGreenCap
<1> QED BY <1>3, <1>4

(* Time that leaves one clock reaches the other.                           *)
LEMMA TimeMoves ==
  ASSUME NEW d \in Nat, NEW up \in Nat, NEW upNext \in Nat, upNext >= up + d,
         NEW down \in Nat, NEW downNext \in Nat, downNext + d >= down
  PROVE  upNext + downNext >= up + down
OBVIOUS

(* A step that leaves the colour and the approach alone, dt of which the   *)
(* colour has less left than before.                                       *)
LEMMA SameColourKeeps ==
  ASSUME SimInv, SimInv', ClearanceInv, NEW dt \in Nat, Watch(dt), WatchDropped,
         UNCHANGED <<phase, activeLane>>, remaining' + dt >= remaining
  PROVE  ClearanceInv'
<1> USE SimulationAssumption
<1>1. sinceGreen' \in [Lane -> Nat]
  BY WatchRuns
<1>2. dropped' \in BOOLEAN /\ (~dropped' => ~dropped)
  BY DEF WatchDropped, ClearanceInv
<1>3. ASSUME ~dropped', NEW m \in Lane
      PROVE  /\ phase = "GREEN" /\ m # activeLane => sinceGreen'[m] >= Yellow + AllRed
             /\ phase = "YELLOW" => sinceGreen'[m] + remaining' >= Yellow
             /\ phase = "ALL_RED" => sinceGreen'[m] + remaining' >= Yellow + AllRed
  <2>1. CASE phase = "GREEN" /\ m = activeLane
    BY <2>1
  <2>2. CASE ~(phase = "GREEN" /\ m = activeLane)
    <3>1. ~Green(m) /\ ~Green(m)'
      BY <2>2 DEF Green
    <3>2. sinceGreen'[m] >= sinceGreen[m] + dt \/ sinceGreen'[m] > Yellow + AllRed
      BY <3>1, WatchRuns
    <3>3. sinceGreen[m] \in Nat /\ sinceGreen'[m] \in Nat /\ remaining \in Nat /\ remaining' \in Nat
      BY <1>1 DEF ClearanceInv, SimInv
    <3>4. /\ phase = "GREEN" => sinceGreen[m] >= Yellow + AllRed
          /\ phase = "YELLOW" => sinceGreen[m] + remaining >= Yellow
          /\ phase = "ALL_RED" => sinceGreen[m] + remaining >= Yellow + AllRed
      BY <1>2, <1>3, <2>2 DEF ClearanceInv
    <3>5. Yellow + AllRed \in Nat /\ Yellow \in Nat /\ Yellow <= Yellow + AllRed
      OBVIOUS
    <3>6. remaining \in Nat /\ remaining' \in Nat /\ remaining' + dt >= remaining
      BY <3>3
    <3>7. CASE sinceGreen'[m] > Yellow + AllRed
      BY <3>3, <3>5, <3>7
    <3>8. CASE sinceGreen'[m] >= sinceGreen[m] + dt
      <4>1. phase = "GREEN" => sinceGreen'[m] >= Yellow + AllRed
        BY <3>3, <3>4, <3>5, <3>8
      <4>2. sinceGreen'[m] + remaining' >= sinceGreen[m] + remaining
        BY <3>3, <3>6, <3>8, TimeMoves
      <4>3. phase = "YELLOW" => sinceGreen'[m] + remaining' >= Yellow
        BY <3>3, <3>4, <4>2
      <4>4. phase = "ALL_RED" => sinceGreen'[m] + remaining' >= Yellow + AllRed
        BY <3>3, <3>4, <4>2
      <4> QED BY <4>1, <4>3, <4>4
    <3> QED BY <3>2, <3>7, <3>8
  <2> QED BY <2>1, <2>2
<1> QED BY <1>1, <1>2, <1>3 DEF ClearanceInv

(* A hold, whatever it cut short, and a green that turned yellow.          *)
LEMMA HoldKeeps ==
  ASSUME SimInv', ClearanceInv, NEW dt \in Nat, Watch(dt), WatchDropped, Hold, MustHold'
  PROVE  ClearanceInv'
BY WatchRuns DEF Hold, WatchDropped, CutShort, ClearanceInv

LEMMA YellowKeeps ==
  ASSUME SimInv', ClearanceInv, NEW dt \in Nat, Watch(dt), WatchDropped,
         phase = "GREEN", phase' = "YELLOW", remaining' = Yellow
  PROVE  ClearanceInv'
<1>1. sinceGreen' \in [Lane -> Nat]
  BY WatchRuns
<1>2. dropped' = FALSE
  BY DEF WatchDropped, CutShort
<1>3. ASSUME NEW m \in Lane PROVE sinceGreen'[m] + remaining' >= Yellow
  BY <1>1, SimulationAssumption
<1> QED BY <1>1, <1>2, <1>3 DEF ClearanceInv

LEMMA ClearanceInitially == ClearanceInit => ClearanceInv
<1> SUFFICES ASSUME ClearanceInit PROVE ClearanceInv
  OBVIOUS
<1>1. SinceGreenCap \in Nat /\ SinceGreenCap > Yellow + AllRed
  BY SimulationAssumption DEF SinceGreenCap
<1>2. sinceGreen \in [Lane -> Nat] /\ \A m \in Lane : sinceGreen[m] = SinceGreenCap
  BY <1>1 DEF ClearanceInit
<1>3. ASSUME NEW m \in Lane PROVE sinceGreen[m] + remaining >= Yellow + AllRed
  BY <1>1, <1>2, SimulationAssumption DEF ClearanceInit, SimInit
<1> QED BY <1>2, <1>3 DEF ClearanceInit, SimInit, ClearanceInv

LEMMA ClearancePreserved ==
  ASSUME SimInv, SimInv', ClearanceInv, ClearanceNext
  PROVE  ClearanceInv'
<1> USE SimulationAssumption
<1>1. WatchDropped
  BY DEF ClearanceNext
<1>2. CASE CameraEvent /\ Watch(0)
  <2>1. PICK l \in Lane, status \in CameraStatus : CameraChanges(l, status)
    BY <1>2 DEF CameraEvent
  <2>2. CASE Green(l)
    BY <1>1, <1>2, <2>1, <2>2, YellowKeeps DEF CameraChanges, Enter, Green
  <2>3. CASE ~Green(l)
    BY <1>1, <1>2, <2>1, <2>3, SameColourKeeps DEF CameraChanges, signalVars, SimInv
  <2> QED BY <2>2, <2>3
<1>3. CASE AiStalls /\ Watch(0)
  BY <1>1, <1>3, HoldKeeps DEF AiStalls, MustHold
<1>4. CASE AiRecovers /\ Watch(0)
  BY <1>1, <1>4, SameColourKeeps DEF AiRecovers, signalVars, SimInv
<1>5. ASSUME NEW dt \in StepSizes, StepSimulation(dt), Watch(dt)
      PROVE  ClearanceInv'
  <2>1. dt \in Nat /\ UNCHANGED <<camera, stalled>>
    BY <1>5 DEF StepSimulation
  <2>2. CASE SimHolds
    <3>1. MustHold'
      BY <2>1, <2>2 DEF SimHolds, MustHold
    <3> QED BY <1>1, <1>5, <2>1, <2>2, <3>1, HoldKeeps DEF SimHolds
  <2>3. CASE StepCountsDown(dt)
    BY <1>1, <1>5, <2>1, <2>3, SameColourKeeps DEF StepCountsDown, SimInv
  <2>4. CASE GreenEnds(dt)
    BY <1>1, <1>5, <2>1, <2>4, YellowKeeps DEF GreenEnds, Enter
  <2>5. sinceGreen' \in [Lane -> Nat] /\ sinceGreen \in [Lane -> Nat]
        /\ remaining \in Nat /\ remaining' \in Nat /\ dropped \in BOOLEAN
    BY <1>5, <2>1, WatchRuns DEF ClearanceInv, SimInv
  <2>6. CASE YellowEnds(dt)
    <3>1. phase = "YELLOW" /\ remaining <= dt
          /\ phase' = "ALL_RED" /\ remaining' = AllRed /\ activeLane' = activeLane
      BY <2>6 DEF YellowEnds, Enter
    <3>2. dropped' = dropped
      <4>1. activeLane' # -1
        BY <3>1, NumLanesAssumption DEF SimInv, Lane
      <4> QED BY <1>1, <3>1, <4>1 DEF WatchDropped, CutShort
    <3>3. ASSUME ~dropped, NEW m \in Lane
          PROVE  sinceGreen'[m] + AllRed >= Yellow + AllRed
      <4>1. sinceGreen'[m] >= sinceGreen[m] + dt \/ sinceGreen'[m] > Yellow + AllRed
        BY <1>5, <2>1, <3>1, WatchRuns DEF Green
      <4>2. sinceGreen[m] + remaining >= Yellow
        BY <3>1, <3>3 DEF ClearanceInv
      <4> QED BY <2>1, <2>5, <3>1, <4>1, <4>2
    <3> QED BY <2>5, <3>1, <3>2, <3>3 DEF ClearanceInv
  <2>7. ASSUME NEW stats \in [Lane -> Stat], AllRedEnds(dt, stats)
        PROVE  ClearanceInv'
    <3>1. phase = "ALL_RED" /\ remaining <= dt
      BY <2>7 DEF AllRedEnds
    <3>2. ASSUME ~dropped, NEW m \in Lane, ~Green(m)'
          PROVE  sinceGreen'[m] >= Yellow + AllRed
      <4>1. sinceGreen'[m] >= sinceGreen[m] + dt \/ sinceGreen'[m] > Yellow + AllRed
        BY <1>5, <2>1, <3>1, <3>2, WatchRuns DEF Green
      <4>2. sinceGreen[m] + remaining >= Yellow + AllRed
        BY <3>1, <3>2 DEF ClearanceInv
      <4> QED BY <2>1, <2>5, <3>1, <4>1, <4>2
    <3>3. dropped' \in BOOLEAN /\ (~dropped' => ~dropped)
      BY <1>1, <2>5, <3>1 DEF WatchDropped
    <3>4. phase' = "GREEN" \/ (phase' = "ALL_RED" /\ remaining' = 0)
      BY <2>7 DEF AllRedEnds, Hold
    <3> QED BY <2>5, <3>2, <3>3, <3>4 DEF ClearanceInv, Green
  <2> QED BY <1>5, <2>2, <2>3, <2>4, <2>6, <2>7 DEF StepSimulation
<1> QED BY <1>2, <1>3, <1>4, <1>5 DEF ClearanceNext

(***************************************************************************)
(* The stopwatches restrict nothing: what was proved of the simulation     *)
(* holds with them.                                                        *)
(***************************************************************************)
LEMMA ClearanceRefinesSim == ClearanceSpec => SimSpec
<1>1. ClearanceInit => SimInit
  BY DEF ClearanceInit
<1>2. [ClearanceNext]_clearanceVars => [SimNext]_simVars
  BY DEF ClearanceNext, SimNext, clearanceVars
<1> QED BY <1>1, <1>2, PTL DEF ClearanceSpec, SimSpec

(***************************************************************************)
(* ClearanceKept, for any timing: between two greens of the simulation lie *)
(* yellow and all-red in full, also behind a green that a camera's dropout *)
(* ended; the first green after a hold is the one exception.               *)
(***************************************************************************)
THEOREM ClearanceAlwaysKept == ClearanceSpec => []ClearanceKept
<1>1. ClearanceSpec => []SimInv
  BY ClearanceRefinesSim, SimInvariant, PTL
<1>2. SimInv /\ SimInv' /\ ClearanceInv /\ [ClearanceNext]_clearanceVars => ClearanceInv'
  <2>1. ASSUME ClearanceInv, UNCHANGED clearanceVars PROVE ClearanceInv'
    BY <2>1 DEF clearanceVars, simVars, signalVars, ClearanceInv
  <2> QED BY <2>1, ClearancePreserved
<1>3. ClearanceInv => ClearanceKept
  BY DEF ClearanceInv, ClearanceKept, Green
<1> QED BY <1>1, <1>2, <1>3, ClearanceInitially, PTL DEF ClearanceSpec

-----------------------------------------------------------------------------
(***************************************************************************)
(* The replay lab.  Each record is what the scheduler returns for its      *)
(* step; and an approach that has been fresh and passed over in the last m *)
(* steps, none of them an emergency's, is at most 3 - m approaches from    *)
(* the cursor.                                                             *)
(***************************************************************************)
Given(n, l) ==
  S!GreenTime(Score(n, l), TotalScore(n), Traffic(n, l).pce, Traffic(n, l).queue,
              limits[1], limits[2])

Records ==
  \A n \in Recorded :
    LaneAt(n) \in Fresh(n - 1) /\ result.steps[n].green = Given(n - 1, LaneAt(n))

PassedOver(l, m) ==
  \A n \in Step - m + 1 .. Step : l \in Fresh(n - 1) /\ Urgent(n - 1) = {} /\ LaneAt(n) # l

LabInv ==
  /\ limits \in (Nat \ {0}) \X Nat /\ limits[1] <= limits[2]
  /\ turn \in 0 .. 3
  /\ result.steps \in Seq([lane : 0 .. 3, green : Int])
  /\ Records
  /\ \A l \in 0 .. 3, m \in 1 .. 4 :
       m <= Step /\ PassedOver(l, m) => S!Distance(turn, l) + m <= 3

LEMMA FourLanes == S!Lane = 0 .. 3
BY DEF S!Lane

(* Some approach is always fresh, and one of them wins.                    *)
LEMMA FreshWins ==
  ASSUME turn \in 0 .. 3
  PROVE  /\ Winners # {}
         /\ \A w \in Winners : w \in 0 .. 3 /\ w \in Fresh(Step)
         /\ Urgent(Step) = {} =>
              \A w \in Winners, l \in Fresh(Step) : S!Distance(turn, w) <= S!Distance(turn, l)
<1>1. Fresh(Step) \subseteq 0 .. 3 /\ {0, 2, 3} \subseteq Fresh(Step)
  BY FourLanes DEF Fresh, East
<1>2. CASE Urgent(Step) = {}
  <2>1. Winners = {l \in Fresh(Step) :
                     \A k \in Fresh(Step) : S!Distance(turn, l) <= S!Distance(turn, k)}
    BY <1>2 DEF Winners, S!SelectEligible
  <2>2. \A l \in 0 .. 3 : S!Distance(turn, l) = IF turn <= l THEN l - turn ELSE l + 4 - turn
    BY DEF S!Distance
  <2>3. CASE Fresh(Step) = 0 .. 3
    <3>1. turn \in Winners
      BY <2>1, <2>2, <2>3
    <3> QED BY <1>1, <2>1, <3>1
  <2>4. CASE Fresh(Step) # 0 .. 3
    <3>1. Fresh(Step) = {0, 2, 3}
      BY <1>1, <2>4
    <3>2. turn # 1 => turn \in Winners
      BY <2>1, <2>2, <3>1
    <3>3. turn = 1 => 2 \in Winners
      BY <2>1, <2>2, <3>1
    <3> QED BY <1>1, <2>1, <3>2, <3>3
  <2> QED BY <2>3, <2>4
<1>3. CASE Urgent(Step) # {}
  <2>1. Urgent(Step) = {2}
    BY <1>3 DEF Urgent, South
  <2>2. Urgent(Step) \cap Fresh(Step) = {2}
    BY <1>1, <2>1
  <2>3. Winners = {2}
    BY <2>2 DEF Winners, S!SelectEligible
  <2> QED BY <1>1, <1>3, <2>3
<1> QED BY <1>2, <1>3

(* A passed-over approach comes closer to the cursor.                      *)
LEMMA TurnComesCloser ==
  ASSUME NEW c \in 0 .. 3, NEW w \in 0 .. 3, NEW l \in 0 .. 3,
         l # w, S!Distance(c, w) <= S!Distance(c, l)
  PROVE  S!Distance(S!AdvanceAfter(w), l) + 1 <= S!Distance(c, l)
BY DEF S!Distance, S!AdvanceAfter

-----------------------------------------------------------------------------
(* More never rounds to less.                                              *)
LEMMA RoundsUpwards ==
  ASSUME NEW a \in Nat, NEW b \in Nat, a <= b, NEW den \in Nat \ {0}
  PROVE  /\ S!RoundHalfEven(a, den) \in Int
         /\ S!RoundHalfEven(a, den) <= S!RoundHalfEven(b, den)
<1> DEFINE u == a \div den
           v == b \div den
           x == a % den
           y == b % den
<1>1. u \in Int /\ v \in Int /\ x \in Int /\ y \in Int
  OBVIOUS
<1>2. u <= v
  OBVIOUS
<1>3. u = v => x <= y
  OBVIOUS
<1>4. /\ S!RoundHalfEven(a, den) =
           IF 2 * x > den \/ (2 * x = den /\ u % 2 = 1) THEN u + 1 ELSE u
      /\ S!RoundHalfEven(b, den) =
           IF 2 * y > den \/ (2 * y = den /\ v % 2 = 1) THEN v + 1 ELSE v
  BY DEF S!RoundHalfEven
<1> HIDE DEF u, v, x, y
<1> QED BY <1>1, <1>2, <1>3, <1>4

LEMMA ProductsGrow ==
  ASSUME NEW a \in Nat, NEW b \in Nat, a <= b, NEW c \in Nat
  PROVE  a * c \in Nat /\ a * c <= b * c
<1>1. PICK d \in Nat : b = a + d
  <2>1. b - a \in Nat /\ b = a + (b - a)
    OBVIOUS
  <2> QED BY <2>1
<1>2. b * c = a * c + d * c /\ a * c \in Nat /\ d * c \in Nat
  BY <1>1
<1> QED BY <1>2

(* The green of an approach with a load.                                   *)
LoadShare(p, q) == 3 * S!Smaller(p, 200) * 120 + S!Smaller(q, 120) * 200

LoadGreen(p, q, least, most) ==
  S!Larger(least, S!Smaller(most,
    S!RoundHalfEven(least * 96000 + LoadShare(p, q) * (most - least), 96000)))

LEMMA LoadGreenGrows ==
  ASSUME NEW least \in Nat, NEW most \in Nat, least <= most,
         NEW p \in Nat, NEW q \in Nat, NEW r \in Nat, NEW t \in Nat, p <= r, q <= t
  PROVE  /\ LoadGreen(p, q, least, most) \in Int
         /\ LoadGreen(p, q, least, most) <= LoadGreen(r, t, least, most)
<1> DEFINE a == least * 96000 + LoadShare(p, q) * (most - least)
           b == least * 96000 + LoadShare(r, t) * (most - least)
<1>1. LoadShare(p, q) \in Nat /\ LoadShare(r, t) \in Nat /\ LoadShare(p, q) <= LoadShare(r, t)
  BY DEF LoadShare, S!Smaller
<1>2. /\ LoadShare(p, q) * (most - least) \in Nat /\ LoadShare(r, t) * (most - least) \in Nat
      /\ LoadShare(p, q) * (most - least) <= LoadShare(r, t) * (most - least)
  <2>1. most - least \in Nat
    OBVIOUS
  <2> QED BY <1>1, <2>1, ProductsGrow
<1>3. a \in Nat /\ b \in Nat /\ a <= b
  BY <1>2
<1>4. /\ S!RoundHalfEven(a, 96000) \in Int /\ S!RoundHalfEven(b, 96000) \in Int
      /\ S!RoundHalfEven(a, 96000) <= S!RoundHalfEven(b, 96000)
  BY <1>3, RoundsUpwards
<1>5. /\ LoadGreen(p, q, least, most) = S!Larger(least, S!Smaller(most, S!RoundHalfEven(a, 96000)))
      /\ LoadGreen(r, t, least, most) = S!Larger(least, S!Smaller(most, S!RoundHalfEven(b, 96000)))
  BY DEF LoadGreen
<1> HIDE DEF a, b
<1> QED BY <1>4, <1>5 DEF S!Larger, S!Smaller

-----------------------------------------------------------------------------
(* A scenario has vehicles on every approach at every step, or on none.    *)
LEMMA LoadsOfScenario ==
  /\ \A n, l : Traffic(n, l).pce \in Nat /\ Traffic(n, l).queue \in Nat /\ Traffic(n, l).stopped \in Nat
  /\ \/ \A n, l : Traffic(n, l) = Load(0, 0, 0) /\ Urgent(n) = {}
     \/ \A n, l : Traffic(n, l).pce > 0
<1>1. CASE scenario \in Scenario \ {"UNKNOWN"}
  <2>1. ASSUME NEW n, NEW l
        PROVE  Traffic(n, l) \in {Load(50, 2, 15), Load(240, 12, 110), Load(20, 1, 5),
                                  Load(200, 10, 90), Load(40, 1, 10), Load(60, 2, 20),
                                  Load(30, 1, 10), Load(240, 10, 100), Load(12, 0, 5)}
    BY <1>1 DEF Traffic, Scenario
  <2>2. ASSUME NEW n, NEW l
        PROVE  /\ Traffic(n, l).pce \in Nat /\ Traffic(n, l).pce > 0
               /\ Traffic(n, l).queue \in Nat /\ Traffic(n, l).stopped \in Nat
    BY <2>1 DEF Load
  <2> QED BY <2>2
<1>2. CASE scenario \notin Scenario \ {"UNKNOWN"}
  <2>1. ASSUME NEW n, NEW l PROVE Traffic(n, l) = Load(0, 0, 0)
    BY <1>2 DEF Traffic, Scenario
  <2>2. \A n : Urgent(n) = {}
    BY <1>2 DEF Urgent, Scenario
  <2> QED BY <2>1, <2>2 DEF Load
<1> QED BY <1>1, <1>2

(* More load is never given less green, within a run.                      *)
LEMMA GivenGrows ==
  ASSUME limits \in (Nat \ {0}) \X Nat, limits[1] <= limits[2],
         NEW n, NEW l \in Fresh(n), NEW k, NEW j \in Fresh(k),
         Traffic(n, l).pce <= Traffic(k, j).pce, Traffic(n, l).queue <= Traffic(k, j).queue
  PROVE  Given(n, l) \in Int /\ Given(n, l) <= Given(k, j)
<1>1. limits[1] \in Nat /\ limits[2] \in Nat
  OBVIOUS
<1>2. CASE \A i, h : Traffic(i, h) = Load(0, 0, 0) /\ Urgent(i) = {}
  <2>1. ASSUME NEW i, NEW h PROVE Score(i, h) = 0
    <3>1. Traffic(i, h).pce = 0 /\ Traffic(i, h).queue = 0 /\ Traffic(i, h).stopped = 0
      BY <1>2 DEF Load
    <3> QED BY <1>2, <3>1 DEF Score
  <2>2. Given(n, l) = limits[1] /\ Given(k, j) = limits[1]
    BY <2>1 DEF Given, S!GreenTime
  <2> QED BY <1>1, <2>2
<1>3. CASE \A i, h : Traffic(i, h).pce > 0
  <2>1. ASSUME NEW i, NEW h \in Fresh(i)
        PROVE  Given(i, h) = LoadGreen(Traffic(i, h).pce, Traffic(i, h).queue, limits[1], limits[2])
    <3> DEFINE p == Traffic(i, h).pce
               q == Traffic(i, h).queue
               s == Traffic(i, h).stopped
    <3>1. p \in Nat /\ q \in Nat /\ s \in Nat /\ p > 0
      BY <1>3, LoadsOfScenario
    <3>2. Score(i, h) = IF h \in Urgent(i) THEN 1000000 ELSE 45 * p + 35 * q + 200 * s
      BY DEF Score
    <3> HIDE DEF p, q, s
    <3>3. Score(i, h) > 0 /\ Score(i, h) \in Nat
      BY <3>1, <3>2
    <3>4. Given(i, h) = S!GreenTime(Score(i, h), TotalScore(i), p, q, limits[1], limits[2])
      BY DEF Given, p, q
    <3>5. S!GreenTime(Score(i, h), TotalScore(i), p, q, limits[1], limits[2])
            = LoadGreen(p, q, limits[1], limits[2])
      BY <3>1, <3>3 DEF S!GreenTime, LoadGreen, LoadShare
    <3> QED BY <3>4, <3>5 DEF p, q
  <2>2. /\ Given(n, l) = LoadGreen(Traffic(n, l).pce, Traffic(n, l).queue, limits[1], limits[2])
        /\ Given(k, j) = LoadGreen(Traffic(k, j).pce, Traffic(k, j).queue, limits[1], limits[2])
    BY <2>1
  <2> DEFINE p == Traffic(n, l).pce
             q == Traffic(n, l).queue
             r == Traffic(k, j).pce
             t == Traffic(k, j).queue
  <2>3. p \in Nat /\ q \in Nat /\ r \in Nat /\ t \in Nat /\ p <= r /\ q <= t
    BY LoadsOfScenario
  <2> HIDE DEF p, q, r, t
  <2>4. /\ LoadGreen(p, q, limits[1], limits[2]) \in Int
        /\ LoadGreen(p, q, limits[1], limits[2]) <= LoadGreen(r, t, limits[1], limits[2])
    BY <1>1, <2>3, LoadGreenGrows
  <2> QED BY <2>2, <2>4 DEF p, q, r, t
<1> QED BY <1>2, <1>3, LoadsOfScenario

-----------------------------------------------------------------------------
LEMMA LabInitially == LabInit => LabInv
BY DEF LabInit, LabInv, NewResult, Records, Recorded, Step

LEMMA RunBegins ==
  ASSUME LabInv, NEW name \in Scenario, RunScenario(name)
  PROVE  LabInv'
<1>1. limits' \in (Nat \ {0}) \X Nat /\ limits'[1] <= limits'[2]
  BY ReplayAssumption DEF RunScenario
<1>2. turn' = 0 /\ result'.steps = <<>>
  BY DEF RunScenario, NewResult
<1> QED BY <1>1, <1>2 DEF LabInv, Records, Recorded, Step

(* Traffic and greens depend on the scenario and on the limits alone.      *)
LEMMA SameRun ==
  ASSUME UNCHANGED <<scenario, limits>>
  PROVE  /\ \A n : Fresh(n)' = Fresh(n) /\ Urgent(n)' = Urgent(n)
         /\ \A n, l : Given(n, l)' = Given(n, l)
<1>1. \A n : Fresh(n)' = Fresh(n) /\ Urgent(n)' = Urgent(n)
  BY DEF Fresh, Urgent
<1>2. \A n, l : Traffic(n, l)' = Traffic(n, l)
  BY DEF Traffic
<1>3. \A n, l : Score(n, l)' = Score(n, l)
  BY <1>1, <1>2 DEF Score
<1>4. \A n : TotalScore(n)' = TotalScore(n)
  BY <1>3 DEF TotalScore
<1>5. \A n, l : Given(n, l)' = Given(n, l)
  BY <1>2, <1>3, <1>4 DEF Given
<1> QED BY <1>1, <1>5

LEMMA StepKept ==
  ASSUME LabInv, ReplayStep
  PROVE  LabInv'
<1>1. PICK d \in Decided :
        /\ turn' = IF Winners = {} THEN turn ELSE S!AdvanceAfter(d.lane)
        /\ result'.steps = Append(result.steps, d)
  BY DEF ReplayStep
<1>2. scenario' = scenario /\ limits' = limits
  BY DEF ReplayStep
<1>3. PICK w \in Winners : d = [lane |-> w, green |-> GreenFor(w)]
  BY FreshWins DEF Decided, LabInv
<1>4. /\ w \in 0 .. 3 /\ w \in Fresh(Step) /\ turn \in 0 .. 3
      /\ turn' = S!AdvanceAfter(w)
      /\ Urgent(Step) = {} => \A l \in Fresh(Step) : S!Distance(turn, w) <= S!Distance(turn, l)
  BY <1>1, <1>3, FreshWins DEF LabInv
<1>5. turn' \in 0 .. 3
  BY <1>4 DEF S!AdvanceAfter
<1>6. limits \in (Nat \ {0}) \X Nat /\ limits[1] <= limits[2]
  BY DEF LabInv
<1>7. GreenFor(w) = Given(Step, w)
  BY DEF GreenFor, Given
<1>8. GreenFor(w) \in Int
  <2>1. Traffic(Step, w).pce \in Nat /\ Traffic(Step, w).queue \in Nat
    BY LoadsOfScenario
  <2> QED BY <1>4, <1>6, <1>7, <2>1, GivenGrows
<1> DEFINE old == result.steps
           new == result'.steps
<1>9. old \in Seq([lane : 0 .. 3, green : Int]) /\ d \in [lane : 0 .. 3, green : Int]
  BY <1>3, <1>4, <1>8 DEF LabInv
<1>10. PICK k \in Nat : k = Len(old)
  BY <1>9
<1>11. /\ new \in Seq([lane : 0 .. 3, green : Int])
       /\ Len(new) = k + 1 /\ new[k + 1] = d
       /\ \A n \in 1 .. k : new[n] = old[n]
  BY <1>1, <1>9, <1>10
<1>12. Step = k /\ Step' = k + 1 /\ Recorded = 1 .. k /\ Recorded' = 1 .. k + 1
  BY <1>9, <1>11, <1>10 DEF Step, Recorded
<1>13. /\ \A n \in 1 .. k : LaneAt(n)' = LaneAt(n)
       /\ LaneAt(k + 1)' = w
  <2>1. \A n \in 1 .. k : new[n].lane = old[n].lane
    BY <1>11
  <2>2. new[k + 1].lane = w
    BY <1>3, <1>11
  <2> QED BY <2>1, <2>2 DEF LaneAt
<1>14. \A n : Fresh(n)' = Fresh(n) /\ Urgent(n)' = Urgent(n)
  BY <1>2, SameRun
<1>15. \A n, l : Given(n, l)' = Given(n, l)
  BY <1>2, SameRun
<1> HIDE DEF old, new
<1>16. Records'
  <2> SUFFICES ASSUME NEW n \in 1 .. k + 1
               PROVE  /\ LaneAt(n)' \in Fresh(n - 1)
                      /\ new[n].green = Given(n - 1, LaneAt(n)')
    BY <1>12, <1>14, <1>15 DEF Records, new
  <2>1. CASE n = k + 1
    <3>1. n - 1 = k
      BY <1>11, <2>1
    <3>2. new[n].green = GreenFor(w)
      BY <1>3, <1>11, <2>1
    <3> QED BY <1>4, <1>7, <1>12, <1>13, <2>1, <3>1, <3>2
  <2>2. CASE n \in 1 .. k
    BY <1>11, <1>12, <1>13, <2>2 DEF LabInv, Records, old
  <2> QED BY <1>11, <2>1, <2>2
<1>17. ASSUME NEW l \in 0 .. 3, NEW m \in 1 .. 4, m <= Step', PassedOver(l, m)'
       PROVE  S!Distance(turn', l) + m <= 3
  <2>1. \A n \in k + 1 - m + 1 .. k + 1 : l \in Fresh(n - 1) /\ Urgent(n - 1) = {} /\ LaneAt(n)' # l
    BY <1>12, <1>14, <1>17 DEF PassedOver
  <2>2. l \in Fresh(k) /\ Urgent(k) = {} /\ w # l
    <3>1. k + 1 \in k + 1 - m + 1 .. k + 1 /\ k + 1 - 1 = k
      BY <1>11
    <3>2. l \in Fresh(k + 1 - 1) /\ Urgent(k + 1 - 1) = {} /\ LaneAt(k + 1)' # l
      BY <2>1, <3>1
    <3> QED BY <1>13, <3>1, <3>2
  <2>3. S!Distance(turn', l) + 1 <= S!Distance(turn, l)
    BY <1>4, <1>12, <2>2, TurnComesCloser
  <2>4. S!Distance(turn, l) \in 0 .. 3 /\ S!Distance(turn', l) \in 0 .. 3
    BY <1>4, <1>5 DEF S!Distance
  <2>5. CASE m = 1
    BY <2>3, <2>4, <2>5
  <2>6. CASE m # 1
    <3>1. m - 1 \in 1 .. 4 /\ m - 1 <= Step
      BY <1>11, <1>12, <1>17, <2>6
    <3>2. PassedOver(l, m - 1)
      <4> SUFFICES ASSUME NEW n \in k - (m - 1) + 1 .. k
                   PROVE  l \in Fresh(n - 1) /\ Urgent(n - 1) = {} /\ LaneAt(n) # l
        BY <1>12 DEF PassedOver
      <4>0. m <= k + 1
        BY <1>12, <1>17
      <4>1. n \in k + 1 - m + 1 .. k + 1 /\ n \in 1 .. k
        BY <4>0, m \in 1 .. 4, k \in Nat, n \in k - (m - 1) + 1 .. k
      <4> QED BY <1>13, <2>1, <4>1
    <3>3. S!Distance(turn, l) + (m - 1) <= 3
      BY <3>1, <3>2 DEF LabInv
    <3> QED BY <2>3, <2>4, <3>3
  <2> QED BY <2>5, <2>6
<1> QED BY <1>2, <1>5, <1>6, <1>11, <1>16, <1>17 DEF LabInv, new

LEMMA LabKept == LabInv /\ [LabNext]_labVars => LabInv'
<1> SUFFICES ASSUME LabInv, [LabNext]_labVars PROVE LabInv'
  OBVIOUS
<1>1. CASE UNCHANGED labVars
  <2>1. UNCHANGED <<scenario, limits, turn, result>>
    BY <1>1 DEF labVars
  <2>2. /\ \A n : Fresh(n)' = Fresh(n) /\ Urgent(n)' = Urgent(n)
        /\ \A n, l : Given(n, l)' = Given(n, l)
    BY <2>1, SameRun
  <2>3. \A l, m : PassedOver(l, m)' = PassedOver(l, m)
    BY <2>1, <2>2 DEF PassedOver, Step, LaneAt
  <2>4. Records'
    BY <2>1, <2>2 DEF LabInv, Records, Recorded, LaneAt
  <2> QED BY <2>1, <2>3, <2>4 DEF LabInv, Step
<1> QED BY <1>1, RunBegins, StepKept DEF LabNext

(***************************************************************************)
(* In every scenario of the replay lab, for any length of a run and any    *)
(* bounds of its scheduler: no fresh approach waits a fourth step, no      *)
(* approach of a lost camera is green, and more load never gets less.      *)
(***************************************************************************)
THEOREM ReplayAlwaysServesFairly == LabSpec => []ReplayServesFairly
<1>1. LabInv => ReplayServesFairly
  <2> SUFFICES ASSUME LabInv PROVE ReplayServesFairly
    OBVIOUS
  <2>1. Step \in Nat /\ Recorded = 1 .. Step
    BY DEF LabInv, Step, Recorded
  <2>2. ASSUME NEW l \in S!Lane, Step >= 4,
               \A n \in Step - 3 .. Step : l \in Fresh(n - 1) /\ Urgent(n - 1) = {}
        PROVE  \E n \in Step - 3 .. Step : LaneAt(n) = l
    <3> SUFFICES ASSUME \A n \in Step - 3 .. Step : LaneAt(n) # l PROVE FALSE
      OBVIOUS
    <3>1. l \in 0 .. 3 /\ turn \in 0 .. 3
      BY FourLanes DEF LabInv
    <3>2. PassedOver(l, 4)
      <4>1. Step - 4 + 1 = Step - 3
        BY <2>1
      <4> QED BY <2>2, <4>1 DEF PassedOver
    <3>3. S!Distance(turn, l) + 4 <= 3
      BY <2>1, <2>2, <3>1, <3>2 DEF LabInv
    <3>4. S!Distance(turn, l) \in 0 .. 3
      BY <3>1 DEF S!Distance
    <3> QED BY <3>3, <3>4
  <2>3. \A n \in Recorded : LaneAt(n) \in Fresh(n - 1)
    BY DEF LabInv, Records
  <2>4. ASSUME NEW n \in Recorded, NEW k \in Recorded,
               LoadAt(n).pce <= LoadAt(k).pce, LoadAt(n).queue <= LoadAt(k).queue
        PROVE  result.steps[n].green <= result.steps[k].green
    <3>1. /\ LaneAt(n) \in Fresh(n - 1) /\ result.steps[n].green = Given(n - 1, LaneAt(n))
          /\ LaneAt(k) \in Fresh(k - 1) /\ result.steps[k].green = Given(k - 1, LaneAt(k))
      BY DEF LabInv, Records
    <3>2. /\ Traffic(n - 1, LaneAt(n)).pce <= Traffic(k - 1, LaneAt(k)).pce
          /\ Traffic(n - 1, LaneAt(n)).queue <= Traffic(k - 1, LaneAt(k)).queue
      BY <2>4 DEF LoadAt
    <3>3. limits \in (Nat \ {0}) \X Nat /\ limits[1] <= limits[2]
      BY DEF LabInv
    <3> QED BY <3>1, <3>2, <3>3, GivenGrows
  <2> QED BY <2>2, <2>3, <2>4 DEF ReplayServesFairly
<1> QED BY <1>1, LabInitially, LabKept, PTL DEF LabSpec
=============================================================================
