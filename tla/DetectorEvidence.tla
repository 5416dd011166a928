-------------------------- MODULE DetectorEvidence --------------------------
(***************************************************************************)
(* TrafficPipeline with the history of what the detector itself has said:  *)
(* how long ago the last picture with a vehicle on each lane was received, *)
(* and how many results in a row, since the phase began, found the served  *)
(* approach empty.                                                         *)
(***************************************************************************)
EXTENDS TrafficPipeline

VARIABLES
  seenAgo,        \* time since the receipt of the last frame with a vehicle on each lane
  emptyResults    \* detector results in a row that found the approach empty

evidenceVars == <<vars, seenAgo, emptyResults>>

SeenAgoCap == Stale + DetectorPeriod + FrameWait     \* bound of the model
EnoughResults == 2                           \* bound of the model: more is not counted

EvidenceInit ==
  /\ Init
  /\ seenAgo = [l \in Lane |-> SeenAgoCap]
  /\ emptyResults = 0

RecordSeen(frames) ==
  seenAgo' = [l \in Lane |-> IF l \in Detected(frames) /\ frames[l] # "empty"
                             THEN sinceDet'[l] ELSE seenAgo[l]]

(* A projection says nothing new; anything but an empty result breaks the  *)
(* row.                                                                    *)
RecordEmpty(frames) ==
  emptyResults' =
    IF ~ActiveSeen(frames) \/ frames[active.lane] = "projected" THEN emptyResults
    ELSE IF frames[active.lane] = "empty" THEN Smaller(emptyResults + 1, EnoughResults)
    ELSE 0

RecordTick ==
  /\ Tick
  /\ seenAgo' = [l \in Lane |-> Smaller(seenAgo[l] + 1, SeenAgoCap)]
  /\ UNCHANGED emptyResults

EvidenceNext ==
  \/ \E frames \in Inputs :
       \/ ContinueStep(frames) /\ RecordSeen(frames) /\ RecordEmpty(frames)
       \/ \E l \in Lane : GrantStep(frames, l) /\ RecordSeen(frames) /\ emptyResults' = 0
  \/ (ResetPhase \/ Configure) /\ UNCHANGED <<seenAgo, emptyResults>>
  \/ RecordTick

EvidenceSpec == EvidenceInit /\ [][EvidenceNext]_evidenceVars

(* The fairness of TrafficPipeline.                                        *)
FairEvidenceSpec ==
  /\ EvidenceSpec
  /\ WF_evidenceVars(RecordTick)
  /\ WF_evidenceVars(\/ ContinueStep(NoFrames) /\ UNCHANGED <<seenAgo, emptyResults>>
                     \/ \E l \in Lane : GrantStep(NoFrames, l) /\ UNCHANGED seenAgo
                                                              /\ emptyResults' = 0)

EvidenceTypeOK ==
  /\ TypeOK
  /\ seenAgo \in [Lane -> 0 .. SeenAgoCap]
  /\ emptyResults \in 0 .. EnoughResults

(***************************************************************************)
(* Demand that may win a green rests on a recent picture: a statistic that *)
(* is kept, projected by the tracker or restored after a gap never outlives*)
(* Stale plus one detector period plus the longest wait of a frame.  The   *)
(* wait counts, because a projection that waited renews the lane's age.    *)
(***************************************************************************)
DemandIsRecent ==
  \A l \in Lane : FreshDemand(l) => seenAgo[l] < Stale + DetectorPeriod + FrameWait

EarlyEnd == HasDecision /\ active'.lane = active.lane /\ active'.green < active.green

(***************************************************************************)
(* What an early end rests on: two detector results in a row that found    *)
(* the approach empty, or one that is as old as the confirmation window    *)
(* and that no other result has followed.                                  *)
(***************************************************************************)
EarlyEndHasEvidence ==
  [][EarlyEnd /\ elapsed' > 0
       => \/ emptyResults' = EnoughResults
          \/ emptyResults' = 1 /\ sinceDet'[active.lane] >= Release]_evidenceVars

(***************************************************************************)
(* config/signal.py: "A green ends early only after consecutive fresh      *)
(* empty observations".  Where a frame may wait longer than Release less   *)
(* a detector period, the second one may be a projection of the first.     *)
(***************************************************************************)
EarlyEndIsConfirmed ==
  [][EarlyEnd /\ elapsed' > 0 => emptyResults' = EnoughResults]_evidenceVars
=============================================================================
