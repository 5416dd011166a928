------------------------- MODULE VehicleTracksProofs -------------------------
(***************************************************************************)
(* What counts as a vehicle, and how long it has queued, for any number of *)
(* tracks, any detector period, grace and numbers of frames, in the        *)
(* behaviours of ApproachDemand; and what the scheduler is told of them:   *)
(* an approach with a vehicle has a score, and its own demand decides.     *)
(***************************************************************************)
EXTENDS ApproachDemand, FiniteSetTheorems, WellFoundedInduction, TLAPS

(***************************************************************************)
(* A track gains at most one slow frame with each frame it is seen in, so  *)
(* that it cannot queue before it is confirmed.                            *)
(***************************************************************************)
VehicleOK(v) ==
  /\ v \in VehicleState
  /\ v.queue <= v.stay
  /\ v.frames < Confirmations => v.slow < v.frames /\ ~v.queued /\ v.queue = 0

TracksInv ==
  /\ TracksOK
  /\ \A t \in Track : states[t] = Unknown \/ VehicleOK(states[t])
  /\ shown \subseteq boxes
  /\ \A t \in Track : t \in boxes <=> states[t] # Unknown /\ states[t].alive

-----------------------------------------------------------------------------
LEMMA NotUnknown == \A v \in VehicleState : v # Unknown
<1>1. \A v \in VehicleState : v.frames \in 1 .. Confirmations
  BY DEF VehicleState
<1> QED BY <1>1 DEF Unknown

LEMMA CapsAreNumbers ==
  /\ Confirmations \in Nat /\ Confirmations >= 2 /\ Confirmations <= QueueFrames + 1
  /\ QueueFrames \in Nat /\ SlowCap \in Nat /\ QueueFrames <= SlowCap
  /\ StayCap \in Nat /\ GapCap \in Nat
BY TrackAssumption DEF GapCap, Larger

(* The fields of a vehicle.                                                *)
LEMMA Fields ==
  ASSUME NEW v \in VehicleState
  PROVE  /\ v.frames \in Nat /\ v.frames >= 1 /\ v.frames <= Confirmations
         /\ v.slow \in Nat /\ v.slow <= SlowCap
         /\ v.stay \in Nat /\ v.stay <= StayCap
         /\ v.queue \in Nat /\ v.queue <= StayCap
         /\ v.gap \in Nat /\ v.gap <= GapCap
         /\ v.queued \in BOOLEAN /\ v.alive \in BOOLEAN /\ v.urgent \in BOOLEAN
BY CapsAreNumbers DEF VehicleState

LEMMA FirstSightOK ==
  ASSUME NEW u \in BOOLEAN
  PROVE  VehicleOK(FirstSight(u)) /\ FirstSight(u).alive
BY CapsAreNumbers DEF VehicleOK, VehicleState, FirstSight

LEMMA SlowAfterOK ==
  ASSUME NEW v \in VehicleState, NEW isSlow \in BOOLEAN
  PROVE  /\ SlowAfter(v, isSlow) \in 0 .. SlowCap
         /\ SlowAfter(v, isSlow) <= v.slow + 1
BY Fields, CapsAreNumbers DEF SlowAfter, Smaller, Larger

LEMMA SeenAgainOK ==
  ASSUME NEW v, VehicleOK(v), NEW isSlow \in BOOLEAN
  PROVE  VehicleOK(SeenAgain(v, isSlow)) /\ SeenAgain(v, isSlow).alive
<1> DEFINE slow   == SlowAfter(v, isSlow)
           frames == Smaller(v.frames + 1, Confirmations)
           queued == slow >= QueueFrames
           stay   == Smaller(v.stay + v.gap, StayCap)
           queue  == IF slow >= QueueFrames THEN Smaller(v.queue + v.gap, StayCap) ELSE v.queue
           w      == SeenAgain(v, isSlow)
<1>1. v \in VehicleState
  BY DEF VehicleOK
<1>2. slow \in 0 .. SlowCap /\ slow <= v.slow + 1
  BY <1>1, SlowAfterOK
<1>3. w = [v EXCEPT !.frames = frames, !.slow = slow, !.queued = queued, !.alive = TRUE,
                    !.stay = stay, !.queue = queue, !.gap = 0]
  BY DEF SeenAgain
<1> HIDE DEF slow
<1>4. frames \in 1 .. Confirmations /\ (frames < Confirmations => frames = v.frames + 1)
  BY <1>1, Fields, CapsAreNumbers DEF Smaller
<1>5. stay \in 0 .. StayCap /\ queue \in 0 .. StayCap /\ queue <= stay
  BY <1>1, Fields, CapsAreNumbers DEF VehicleOK, Smaller
<1>6. queued \in BOOLEAN /\ v.urgent \in BOOLEAN /\ 0 \in 0 .. GapCap
  BY <1>1, Fields, CapsAreNumbers
<1>7. frames < Confirmations => slow < frames /\ ~(slow >= QueueFrames) /\ queue = 0
  BY <1>1, <1>2, <1>4, Fields, CapsAreNumbers DEF VehicleOK
<1>8. frames < Confirmations => ~queued
  BY <1>7
<1> HIDE DEF frames, queued, stay, queue, w
<1>9. /\ w \in VehicleState
      /\ w.frames = frames /\ w.slow = slow /\ w.queued = queued /\ w.alive = TRUE
      /\ w.stay = stay /\ w.queue = queue
  BY <1>1, <1>2, <1>3, <1>4, <1>5, <1>6 DEF VehicleState
<1>10. VehicleOK(w)
  BY <1>5, <1>7, <1>8, <1>9 DEF VehicleOK
<1> QED BY <1>9, <1>10 DEF w

LEMMA NotSeenOK ==
  ASSUME NEW v, VehicleOK(v)
  PROVE  NotSeen(v) = Unknown \/ (VehicleOK(NotSeen(v)) /\ ~NotSeen(v).alive)
<1>1. CASE v.gap > Grace
  BY <1>1 DEF NotSeen
<1>2. CASE ~(v.gap > Grace)
  <2>1. v \in VehicleState
    BY DEF VehicleOK
  <2>2. NotSeen(v) = [v EXCEPT !.alive = FALSE]
    BY <1>2 DEF NotSeen
  <2>3. [v EXCEPT !.alive = FALSE] \in VehicleState
    BY <2>1 DEF VehicleState
  <2>4. LET w == [v EXCEPT !.alive = FALSE]
        IN  /\ w.frames = v.frames /\ w.slow = v.slow /\ w.queued = v.queued
            /\ w.stay = v.stay /\ w.queue = v.queue /\ w.alive = FALSE
    BY <2>1 DEF VehicleState
  <2> QED BY <2>2, <2>3, <2>4 DEF VehicleOK
<1> QED BY <1>1, <1>2

LEMMA AgedOK ==
  ASSUME NEW v, VehicleOK(v)
  PROVE  VehicleOK(AgedState(v)) /\ AgedState(v).alive = v.alive
<1> DEFINE gap == Smaller(v.gap + 1, GapCap)
           w   == [v EXCEPT !.gap = gap]
<1>1. v \in VehicleState
  BY DEF VehicleOK
<1>2. AgedState(v) = w
  BY <1>1, NotUnknown DEF AgedState
<1>3. gap \in 0 .. GapCap
  BY <1>1, Fields, CapsAreNumbers DEF Smaller
<1> HIDE DEF gap
<1>4. w \in VehicleState
  BY <1>1, <1>3 DEF VehicleState
<1>5. /\ w.frames = v.frames /\ w.slow = v.slow /\ w.queued = v.queued
      /\ w.stay = v.stay /\ w.queue = v.queue /\ w.alive = v.alive
  BY <1>1 DEF VehicleState
<1> HIDE DEF w
<1> QED BY <1>2, <1>4, <1>5 DEF VehicleOK

-----------------------------------------------------------------------------
LEMMA TracksInitially == Init => TracksInv
<1> SUFFICES ASSUME Init PROVE TracksInv
  OBVIOUS
<1>1. \A t \in Track : states[t] = Unknown
  BY DEF Init, TracksInit
<1>2. TracksOK
  BY CapsAreNumbers DEF Init, TracksInit, TracksOK
<1> QED BY <1>1, <1>2 DEF TracksInv, Init, TracksInit

LEMMA DetectorFrameKeeps ==
  ASSUME TracksInv,
         NEW seen \in SUBSET Track, NEW still \in SUBSET seen, NEW flagged \in SUBSET seen,
         DetectorFrame(seen, still, flagged)
  PROVE  TracksInv'
<1>1. states' = Recorded(seen, still, flagged) /\ boxes' = seen /\ shown' = seen
  BY DEF DetectorFrame
<1>2. ASSUME NEW t \in seen
      PROVE  VehicleOK(states'[t]) /\ states'[t].alive
  <2>1. CASE t \in Known
    <3>1. states'[t] = SeenAgain(states[t], t \in still) /\ VehicleOK(states[t])
      BY <1>1, <1>2, <2>1 DEF Recorded, Known, TracksInv
    <3>2. states'[t] = SeenAgain(states[t], TRUE) \/ states'[t] = SeenAgain(states[t], FALSE)
      BY <3>1 DEF SeenAgain, SlowAfter
    <3> QED BY <3>1, <3>2, SeenAgainOK
  <2>2. CASE t \notin Known
    <3>1. states'[t] = FirstSight(t \in flagged)
      BY <1>1, <1>2, <2>2 DEF Recorded
    <3>2. (t \in flagged) = TRUE \/ (t \in flagged) = FALSE
      OBVIOUS
    <3>3. states'[t] = FirstSight(TRUE) \/ states'[t] = FirstSight(FALSE)
      BY <3>1, <3>2, Zenon DEF FirstSight
    <3> QED BY <3>3, FirstSightOK
  <2> QED BY <2>1, <2>2
<1>3. ASSUME NEW t \in Track, t \notin seen
      PROVE  states'[t] = Unknown \/ (VehicleOK(states'[t]) /\ ~states'[t].alive)
  <2>1. CASE t \in Known
    <3>1. states'[t] = NotSeen(states[t]) /\ VehicleOK(states[t])
      BY <1>1, <1>3, <2>1 DEF Recorded, Known, TracksInv
    <3> QED BY <3>1, NotSeenOK
  <2>2. CASE t \notin Known
    BY <1>1, <1>3, <2>2 DEF Recorded
  <2> QED BY <2>1, <2>2
<1>4. \A t \in Track : states'[t] = Unknown \/ VehicleOK(states'[t])
  BY <1>2, <1>3
<1>5. \A t \in Track : t \in boxes' <=> states'[t] # Unknown /\ states'[t].alive
  BY <1>1, <1>2, <1>3, NotUnknown DEF VehicleOK
<1>6. TracksOK'
  <2>1. states' \in [Track -> VehicleState \cup {Unknown}]
    <3>1. states' = [t \in Track |-> states'[t]]
      BY <1>1 DEF Recorded
    <3>2. \A t \in Track : states'[t] \in VehicleState \cup {Unknown}
      BY <1>4 DEF VehicleOK
    <3> QED BY <3>1, <3>2
  <2>2. counted' \subseteq Track /\ sinceFrame' \in 0 .. GapCap
    BY CapsAreNumbers DEF DetectorFrame, TracksInv, TracksOK
  <2> QED BY <1>1, <2>1, <2>2 DEF TracksOK
<1> QED BY <1>1, <1>4, <1>5, <1>6 DEF TracksInv

LEMMA TimeKeeps ==
  ASSUME TracksInv, TimePasses
  PROVE  TracksInv'
<1>1. states' = [t \in Track |-> AgedState(states[t])] /\ UNCHANGED <<boxes, shown, counted>>
  BY DEF TimePasses
<1>2. ASSUME NEW t \in Track, states[t] = Unknown
      PROVE  states'[t] = Unknown
  BY <1>1, <1>2 DEF AgedState
<1>3. ASSUME NEW t \in Track, states[t] # Unknown
      PROVE  VehicleOK(states'[t]) /\ states'[t].alive = states[t].alive
  BY <1>1, <1>3, AgedOK DEF TracksInv
<1>4. \A t \in Track : states'[t] = Unknown \/ VehicleOK(states'[t])
  BY <1>2, <1>3
<1>5. \A t \in Track : t \in boxes' <=> states'[t] # Unknown /\ states'[t].alive
  BY <1>1, <1>2, <1>3, NotUnknown DEF VehicleOK, TracksInv
<1>6. TracksOK'
  <2>1. states' \in [Track -> VehicleState \cup {Unknown}]
    <3>1. \A t \in Track : AgedState(states[t]) \in VehicleState \cup {Unknown}
      BY <1>1, <1>4 DEF VehicleOK
    <3> QED BY <1>1, <3>1
  <2>2. sinceFrame' \in 0 .. GapCap
    BY CapsAreNumbers DEF TimePasses, TracksInv, TracksOK, Smaller
  <2> QED BY <1>1, <2>1, <2>2 DEF TracksInv, TracksOK
<1> QED BY <1>1, <1>4, <1>5, <1>6 DEF TracksInv

LEMMA TracksKept == TracksInv /\ [Next]_vars => TracksInv'
<1> SUFFICES ASSUME TracksInv, [Next]_vars PROVE TracksInv'
  OBVIOUS
<1>1. CASE Detect
  <2>1. PICK seen \in SUBSET Track : \E still \in SUBSET seen :
          \E flagged \in SUBSET (seen \cap Urgent) : DetectorFrame(seen, still, flagged)
    BY <1>1 DEF Detect
  <2> QED BY <2>1, DetectorFrameKeeps
<1>2. CASE Preview
  BY <1>2 DEF Preview, PreviewFrame, Projected, TracksInv, TracksOK
<1>3. CASE Tick
  BY <1>3, TimeKeeps DEF Tick
<1>4. CASE UNCHANGED vars
  BY <1>4 DEF vars, trackVars, TracksInv, TracksOK
<1> QED BY <1>1, <1>2, <1>3, <1>4 DEF Next

LEMMA TracksAlways == Spec => []TracksInv
BY TracksInitially, TracksKept, PTL DEF Spec

(***************************************************************************)
(* Only what the last detector result held counts or is drawn, for any     *)
(* tracks, losses, returns and projections.                                *)
(***************************************************************************)
THEOREM EvidenceAlways == Spec => []OnlyEvidenceCounts
<1>1. TracksInv => OnlyEvidenceCounts
  <2> SUFFICES ASSUME TracksInv PROVE OnlyEvidenceCounts
    OBVIOUS
  <2>1. boxes = {t \in Known : states[t].alive}
    BY DEF TracksInv, TracksOK, Known
  <2> QED BY <2>1 DEF TracksInv, OnlyEvidenceCounts, Confirmed
<1> QED BY <1>1, TracksAlways, PTL

(***************************************************************************)
(* No vehicle queued longer than it has been in the lane, nor before it    *)
(* was confirmed.                                                          *)
(***************************************************************************)
THEOREM QueueAlwaysWithinStay == Spec => []QueueWithinStay
<1>1. TracksInv => QueueWithinStay
  BY DEF TracksInv, QueueWithinStay, Known, VehicleOK
<1> QED BY <1>1, TracksAlways, PTL

-----------------------------------------------------------------------------
(***************************************************************************)
(* Sums over a finite set, as MapThenSumSet builds them: a function g on   *)
(* its subsets, each of which adds the weight of the element it picks to   *)
(* the sum of the rest.                                                    *)
(***************************************************************************)
Pick(s) == CHOOSE x \in s : TRUE

SumStep(w, g, s) == IF s = {} THEN 0 ELSE w[Pick(s)] + g[s \ {Pick(s)}]

IsSum(g, w, D) == g = [s \in D |-> SumStep(w, g, s)]

Small(T, n) == {s \in SUBSET T : Cardinality(s) <= n}

LEMMA PickIsIn ==
  ASSUME NEW s, s # {}
  PROVE  Pick(s) \in s
BY DEF Pick

(* Induction over the natural numbers, as the least counterexample.        *)
LEMMA LeastNatural ==
  ASSUME NEW B \in SUBSET Nat, B # {}
  PROVE  \E n \in B : \A m \in Nat : m < n => m \notin B
<1>1. PICK n \in B : \A m \in B : ~(<<m, n>> \in OpToRel(<, Nat))
  BY NatLessThanWellFounded, WFMin
<1> QED BY <1>1 DEF OpToRel

LEMMA SmallSets ==
  ASSUME NEW T, IsFiniteSet(T), NEW n \in Nat
  PROVE  /\ \A s \in Small(T, n) : s # {} => n # 0 /\ s \ {Pick(s)} \in Small(T, n - 1)
         /\ Small(T, 0) = {{}}
         /\ Small(T, n) \subseteq Small(T, n + 1)
         /\ \A s \in SUBSET T : Cardinality(s) \in Nat
<1>1. ASSUME NEW s \in SUBSET T
      PROVE  IsFiniteSet(s) /\ Cardinality(s) \in Nat
  BY FS_Subset, FS_CardinalityType
<1>2. ASSUME NEW s \in Small(T, n), s # {}
      PROVE  n # 0 /\ s \ {Pick(s)} \in Small(T, n - 1)
  <2>1. s \in SUBSET T /\ Cardinality(s) <= n /\ Pick(s) \in s
    BY <1>2, PickIsIn DEF Small
  <2>2. Cardinality(s \ {Pick(s)}) = Cardinality(s) - 1 /\ Cardinality(s \ {Pick(s)}) \in Nat
    BY <1>1, <2>1, FS_RemoveElement, FS_CardinalityType
  <2>3. Cardinality(s) \in Nat
    BY <1>1, <2>1
  <2> QED BY <2>1, <2>2, <2>3 DEF Small
<1>3. Small(T, 0) = {{}}
  <2>1. ASSUME NEW s \in Small(T, 0) PROVE s = {}
    <3>1. IsFiniteSet(s) /\ Cardinality(s) = 0
      BY <1>1 DEF Small
    <3> QED BY <3>1, FS_EmptySet
  <2>2. {} \in Small(T, 0)
    BY FS_EmptySet DEF Small
  <2> QED BY <2>1, <2>2
<1>4. Small(T, n) \subseteq Small(T, n + 1)
  BY <1>1 DEF Small
<1> QED BY <1>1, <1>2, <1>3, <1>4

(* There is a function that adds up.                                       *)
LEMMA SumsExist ==
  ASSUME NEW T, IsFiniteSet(T), NEW w
  PROVE  \E g : IsSum(g, w, SUBSET T)
<1> DEFINE B == {n \in Nat : ~(\E g : IsSum(g, w, Small(T, n)))}
<1>1. ASSUME B # {}
      PROVE  FALSE
  <2>1. PICK n \in B : \A m \in Nat : m < n => m \notin B
    BY <1>1, LeastNatural
  <2>2. CASE n = 0
    <3> DEFINE g == [s \in {{}} |-> 0]
    <3>1. \A s \in {{}} : SumStep(w, g, s) = 0
      BY DEF SumStep
    <3>2. g = [s \in {{}} |-> SumStep(w, g, s)]
      BY <3>1
    <3>3. IsSum(g, w, Small(T, 0))
      BY <3>2, SmallSets DEF IsSum
    <3> QED BY <2>2, <3>3
  <2>3. CASE n # 0
    <3>1. n - 1 \in Nat /\ n \in Nat /\ n - 1 < n
      BY <2>3
    <3>2. PICK g : IsSum(g, w, Small(T, n - 1))
      BY <2>1, <3>1
    <3> DEFINE h == [s \in Small(T, n) |-> SumStep(w, g, s)]
    <3>3. Small(T, n - 1) \subseteq Small(T, n)
      BY <3>1, SmallSets
    <3>4. \A s \in Small(T, n - 1) : h[s] = g[s]
      BY <3>2, <3>3 DEF IsSum
    <3>5. ASSUME NEW s \in Small(T, n)
          PROVE  SumStep(w, h, s) = SumStep(w, g, s)
      <4> HIDE DEF h
      <4>1. CASE s = {}
        BY <4>1 DEF SumStep
      <4>2. CASE s # {}
        <5>1. s \ {Pick(s)} \in Small(T, n - 1)
          BY <3>1, <4>2, SmallSets
        <5>2. h[s \ {Pick(s)}] = g[s \ {Pick(s)}]
          BY <3>4, <5>1
        <5> QED BY <4>2, <5>2 DEF SumStep
      <4> QED BY <4>1, <4>2
    <3>6. h = [s \in Small(T, n) |-> SumStep(w, h, s)]
      BY <3>5
    <3>7. IsSum(h, w, Small(T, n))
      BY <3>6 DEF IsSum
    <3> QED BY <3>7
  <2> QED BY <2>2, <2>3
<1>2. Cardinality(T) \in Nat /\ SUBSET T = Small(T, Cardinality(T))
  BY FS_CardinalityType, FS_Subset DEF Small
<1> QED BY <1>1, <1>2

(* What it adds up to.                                                     *)
LEMMA SumsBounded ==
  ASSUME NEW T, IsFiniteSet(T), NEW w, \A t \in T : w[t] \in Nat,
         NEW g, IsSum(g, w, SUBSET T)
  PROVE  /\ g[T] \in Nat
         /\ (\A t \in T : w[t] >= 1) => g[T] >= Cardinality(T)
<1> DEFINE Weighty == \A t \in T : w[t] >= 1
           Fits(s) == g[s] \in Nat /\ (Weighty => g[s] >= Cardinality(s))
           B == {n \in Nat : \E s \in SUBSET T : Cardinality(s) = n /\ ~Fits(s)}
<1>0. \A s \in SUBSET T : IsFiniteSet(s) /\ Cardinality(s) \in Nat
  BY FS_Subset, FS_CardinalityType
<1>1. ASSUME B # {}
      PROVE  FALSE
  <2>1. PICK n \in B : \A m \in Nat : m < n => m \notin B
    BY <1>1, LeastNatural
  <2>2. PICK s \in SUBSET T : Cardinality(s) = n /\ ~Fits(s)
    BY <2>1
  <2>3. g[s] = SumStep(w, g, s)
    BY DEF IsSum
  <2>4. CASE s = {}
    <3>1. g[s] = 0 /\ Cardinality(s) = 0
      BY <2>3, <2>4, FS_EmptySet DEF SumStep
    <3> QED BY <2>2, <3>1
  <2>5. CASE s # {}
    <3> DEFINE x == Pick(s)
               r == s \ {x}
    <3>1. x \in s /\ x \in T
      BY <2>5, PickIsIn
    <3>2. r \in SUBSET T /\ IsFiniteSet(s)
      BY <1>0
    <3>3. Cardinality(r) = n - 1
      BY <2>2, <3>1, <3>2, FS_RemoveElement
    <3>4. n - 1 \in Nat /\ n - 1 < n
      BY <1>0, <3>2, <3>3, <2>1
    <3>5. g[s] = w[x] + g[r]
      BY <2>3, <2>5 DEF SumStep
    <3> HIDE DEF x, r
    <3>6. Fits(r)
      BY <2>1, <3>2, <3>3, <3>4
    <3>7. w[x] \in Nat /\ (Weighty => w[x] >= 1)
      BY <3>1
    <3> HIDE DEF Weighty
    <3> QED BY <2>1, <2>2, <3>3, <3>5, <3>6, <3>7
  <2> QED BY <2>4, <2>5
<1>2. Fits(T)
  BY <1>0, <1>1
<1> QED BY <1>2

-----------------------------------------------------------------------------
(* Every vehicle adds at least one hundredth to the PCE of its approach.   *)
LEMMA PceCounts ==
  ASSUME NEW vehicles \in SUBSET Track
  PROVE  PceOf(vehicles) \in Nat /\ PceOf(vehicles) >= Cardinality(vehicles)
<1> DEFINE g == CHOOSE f : f = [s \in SUBSET vehicles |-> SumStep(Weight, f, s)]
<1>1. IsFiniteSet(vehicles)
  BY TrackAssumption, FS_Subset
<1>2. PceOf(vehicles) = g[vehicles]
  BY DEF PceOf, MapThenSumSet, MapThenFoldSet, SumStep, Pick
<1>3. \E f : f = [s \in SUBSET vehicles |-> SumStep(Weight, f, s)]
  <2>1. PICK f : IsSum(f, Weight, SUBSET vehicles)
    BY <1>1, SumsExist
  <2>2. f = [s \in SUBSET vehicles |-> SumStep(Weight, f, s)]
    BY <2>1 DEF IsSum
  <2> QED BY <2>2
<1>4. g = [s \in SUBSET vehicles |-> SumStep(Weight, g, s)]
  BY <1>3
<1> HIDE DEF g
<1>5. IsSum(g, Weight, SUBSET vehicles)
  BY <1>4 DEF IsSum
<1>6. \A t \in vehicles : Weight[t] \in Nat /\ Weight[t] >= 1
  BY DemandAssumption
<1> QED BY <1>1, <1>2, <1>5, <1>6, SumsBounded

LEMMA QueueIsCounted ==
  ASSUME NEW vehicles \in SUBSET Track, NEW vs, \A t \in vehicles : vs[t].queue \in Nat
  PROVE  QueueSeconds(vehicles, vs) \in Nat
<1> DEFINE S == Stopped(vehicles, vs)
           w == [t \in S |-> vs[t].queue]
           QueueStep(f, s) == IF s = {} THEN 0 ELSE vs[Pick(s)].queue + f[s \ {Pick(s)}]
           g == CHOOSE f : f = [s \in SUBSET S |-> QueueStep(f, s)]
<1>1. S \subseteq vehicles /\ IsFiniteSet(S)
  BY TrackAssumption, FS_Subset DEF Stopped
<1>2. QueueSeconds(vehicles, vs) = g[S]
  BY DEF QueueSeconds, MapThenSumSet, MapThenFoldSet, Pick
<1> HIDE DEF S
<1>3. ASSUME NEW f, NEW s \in SUBSET S
      PROVE  QueueStep(f, s) = SumStep(w, f, s)
  <2>1. CASE s = {}
    BY <2>1 DEF SumStep
  <2>2. CASE s # {}
    <3>1. Pick(s) \in S
      BY <2>2, PickIsIn
    <3>2. w[Pick(s)] = vs[Pick(s)].queue
      BY <3>1
    <3> QED BY <2>2, <3>2 DEF SumStep
  <2> QED BY <2>1, <2>2
<1> HIDE DEF w, QueueStep
<1>4. \E f : f = [s \in SUBSET S |-> QueueStep(f, s)]
  <2>1. PICK f : IsSum(f, w, SUBSET S)
    BY <1>1, SumsExist
  <2>2. f = [s \in SUBSET S |-> SumStep(w, f, s)]
    BY <2>1 DEF IsSum
  <2>3. f = [s \in SUBSET S |-> QueueStep(f, s)]
    BY <2>2, <1>3
  <2> QED BY <2>3
<1>5. g = [s \in SUBSET S |-> QueueStep(g, s)]
  BY <1>4
<1> HIDE DEF g
<1>6. IsSum(g, w, SUBSET S)
  BY <1>3, <1>5 DEF IsSum
<1>7. \A t \in S : w[t] \in Nat
  BY <1>1 DEF w
<1> QED BY <1>1, <1>2, <1>6, <1>7, SumsBounded

(* Rounding half to even yields a number, and no zero from one or more.    *)
LEMMA Rounded ==
  ASSUME NEW num \in Nat, NEW den \in Nat \ {0}
  PROVE  RoundHalfEven(num, den) \in Nat /\ (num >= den => RoundHalfEven(num, den) >= 1)
<1>1. num \div den \in Nat
  OBVIOUS
<1>2. num >= den => num \div den >= 1
  OBVIOUS
<1> QED BY <1>1, <1>2 DEF RoundHalfEven

LEMMA AtLeastOnce ==
  ASSUME NEW a \in Nat, NEW b \in Nat, b >= 1
  PROVE  a * b \in Nat /\ a * b >= a
<1>1. PICK c \in Nat : b = c + 1
  <2>1. b - 1 \in Nat /\ b = (b - 1) + 1
    OBVIOUS
  <2> QED BY <2>1
<1>2. a * b = a * c + a /\ a * c \in Nat
  BY <1>1
<1> QED BY <1>2

(***************************************************************************)
(* What the scheduler is told of the approach: with a vehicle there is     *)
(* congestion, and the PCE is rounded away only with the count.            *)
(***************************************************************************)
StatOK(s) ==
  /\ s \in Statistics
  /\ s.raw > 0 => s.congestion > 0
  /\ s.raw > 0 /\ s.live > 0 => s.pce > 0

DemandInv ==
  /\ StatOK(stat)
  /\ average \in Nat

LEMMA RawOK ==
  ASSUME NEW vehicles \in SUBSET Track, NEW vs, \A t \in vehicles : vs[t].queue \in Nat
  PROVE  LET s == RawStatistics(vehicles, vs)
         IN  s \in Statistics /\ s.pce >= s.raw /\ (s.raw > 0 => s.congestion > 0)
<1> DEFINE pce == PceOf(vehicles)
           queue == QueueSeconds(vehicles, vs)
           stopped == Cardinality(Stopped(vehicles, vs))
           count == Cardinality(vehicles)
           index == CongestionIndex(pce, queue, stopped)
           urgent == \E t \in vehicles : vs[t].urgent
           s == RawStatistics(vehicles, vs)
<1>1. pce \in Nat /\ pce >= count /\ queue \in Nat
  BY PceCounts, QueueIsCounted
<1>2. stopped \in Nat /\ count \in Nat
  <2>1. IsFiniteSet(vehicles) /\ IsFiniteSet(Stopped(vehicles, vs))
    BY TrackAssumption, FS_Subset DEF Stopped
  <2> QED BY <2>1, FS_CardinalityType
<1>3. s = [raw |-> count, live |-> count, pce |-> pce, queue |-> queue, stopped |-> stopped,
           congestion |-> index, urgent |-> urgent]
  BY DEF RawStatistics
<1> HIDE DEF pce, queue, stopped, count
<1>4. index \in Nat /\ index >= pce
  BY <1>1, <1>2 DEF CongestionIndex
<1>5. urgent \in BOOLEAN
  OBVIOUS
<1> HIDE DEF index, urgent, s
<1>6. /\ s \in Statistics
      /\ s.pce = pce /\ s.raw = count /\ s.congestion = index
  BY <1>1, <1>2, <1>3, <1>4, <1>5 DEF Statistics
<1> QED BY <1>1, <1>2, <1>4, <1>6 DEF s

LEMMA StabilizedOK ==
  ASSUME NEW s \in Statistics, s.pce >= s.raw, s.raw > 0 => s.congestion > 0, NEW avg \in Nat
  PROVE  StatOK(Stabilized(s, avg))
<1> DEFINE live == RoundHalfEven(avg, Unit)
           pce == IF s.raw > 0 /\ live # s.raw THEN RoundHalfEven(s.pce * live, s.raw) ELSE s.pce
           w == Stabilized(s, avg)
<1>1. s.raw \in Nat /\ s.pce \in Nat
  BY DEF Statistics
<1>2. live \in Nat
  BY Rounded, DemandAssumption
<1>3. w = [s EXCEPT !.live = live, !.pce = pce]
  BY DEF Stabilized
<1> HIDE DEF live
<1>4. pce \in Nat /\ (s.raw > 0 /\ live > 0 => pce > 0)
  <2>1. CASE s.raw > 0 /\ live # s.raw
    <3>1. s.pce * live \in Nat
      BY <1>1, <1>2
    <3>2. live > 0 => s.pce * live >= s.raw
      <4>1. live > 0 => s.pce * live >= s.pce
        BY <1>1, <1>2, AtLeastOnce
      <4> QED BY <4>1, <1>1, <3>1
    <3>3. pce = RoundHalfEven(s.pce * live, s.raw)
      BY <2>1
    <3> HIDE DEF pce
    <3> QED BY <2>1, <1>1, <3>1, <3>2, <3>3, Rounded
  <2>2. CASE ~(s.raw > 0 /\ live # s.raw)
    BY <2>2, <1>1
  <2> QED BY <2>1, <2>2
<1> HIDE DEF pce, w
<1>5. /\ w \in Statistics
      /\ w.raw = s.raw /\ w.congestion = s.congestion /\ w.live = live /\ w.pce = pce
  BY <1>2, <1>3, <1>4 DEF Statistics
<1> QED BY <1>4, <1>5 DEF StatOK, w

LEMMA DemandInitially == Init => DemandInv
BY DEF Init, NoStatistics, DemandInv, StatOK, Statistics

LEMMA DemandKept == TracksInv /\ TracksInv' /\ DemandInv /\ [Next]_vars => DemandInv'
<1> SUFFICES ASSUME TracksInv, TracksInv', DemandInv, [Next]_vars PROVE DemandInv'
  OBVIOUS
<1>1. CASE Detect
  <2> DEFINE raw == RawStatistics(Confirmed', states')
  <2>1. Confirmed' \in SUBSET Track /\ \A t \in Confirmed' : states'[t].queue \in Nat
    BY Fields DEF Confirmed, Known, TracksInv, VehicleOK
  <2>2. raw \in Statistics /\ raw.pce >= raw.raw /\ (raw.raw > 0 => raw.congestion > 0)
    BY <2>1, RawOK
  <2>3. average' = AverageAfter(raw.raw) /\ stat' = Stabilized(raw, average')
    BY <1>1 DEF Detect
  <2> HIDE DEF raw
  <2>4. average' \in Nat
    <3>1. raw.raw \in Nat /\ average \in Nat /\ Unit \in Nat
      BY <2>2, DemandAssumption DEF Statistics, DemandInv
    <3>2. raw.raw * Unit \in Nat
      BY <3>1
    <3>3. 4 * raw.raw * Unit + 6 * average \in Nat
      BY <3>1
    <3>4. (4 * raw.raw * Unit + 6 * average) \div 10 \in Nat
      BY <3>3
    <3> QED BY <2>3, <3>2, <3>4 DEF AverageAfter
  <2> QED BY <2>2, <2>3, <2>4, StabilizedOK DEF DemandInv
<1>2. CASE UNCHANGED <<stat, average>>
  BY <1>2 DEF DemandInv
<1> QED BY <1>1, <1>2 DEF Next, Preview, Tick, vars

LEMMA DemandAlways == Spec => []DemandInv
<1>1. TracksInv /\ TracksInv' /\ DemandInv /\ [Next]_vars => DemandInv'
  BY DemandKept
<1> QED BY <1>1, TracksAlways, DemandInitially, PTL DEF Spec

(***************************************************************************)
(* An approach with a vehicle always has a score, for any tracks, weights, *)
(* periods and resolution of the average.                                  *)
(***************************************************************************)
THEOREM OccupiedAlwaysHasScore == Spec => []OccupiedHasScore
<1>1. DemandInv => OccupiedHasScore
  <2> SUFFICES ASSUME StatOK(stat), stat.raw > 0 PROVE Score(stat) > 0
    BY DEF DemandInv, OccupiedHasScore
  <2>1. stat.congestion \in Nat /\ stat.congestion > 0 /\ stat.pce \in Nat /\ stat.queue \in Nat
    BY DEF StatOK, Statistics
  <2>2. BaseScore(stat) \in Nat /\ BaseScore(stat) > 0
    BY <2>1 DEF BaseScore
  <2> QED BY <2>2 DEF Score
<1> QED BY <1>1, DemandAlways, PTL

(***************************************************************************)
(* The other approaches make no difference to the green of one whose       *)
(* smoothed count shows a vehicle, or where one has queued.                *)
(***************************************************************************)
THEOREM OwnDemandAlwaysDecides == Spec => []OwnDemandDecides
<1>1. DemandInv => OwnDemandDecides
  <2> SUFFICES ASSUME StatOK(stat), stat.raw > 0, stat.live > 0 \/ stat.queue > 0,
                      NEW x \in OthersScores, NEW y \in OthersScores
               PROVE  GreenFor(stat, x) = GreenFor(stat, y)
    BY DEF DemandInv, OwnDemandDecides
  <2>1. stat.pce > 0 \/ stat.queue > 0
    BY DEF StatOK
  <2> QED BY <2>1 DEF GreenFor, GreenTime
<1> QED BY <1>1, DemandAlways, PTL
=============================================================================
