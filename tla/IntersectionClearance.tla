----------------------- MODULE IntersectionClearance -----------------------
(***************************************************************************)
(* DigitalIntersection with a stopwatch per approach that tells how long   *)
(* it has not been green.  A hold (a stall, or all cameras offline) drops  *)
(* the clearance it cuts short; dropped remembers that until the next      *)
(* green has ended in yellow.                                              *)
(***************************************************************************)
EXTENDS DigitalIntersection

VARIABLES sinceGreen, dropped

clearanceVars == <<simVars, sinceGreen, dropped>>

SinceGreenCap == Yellow + AllRed + 1     \* bound of the model

ClearanceInit ==
  /\ SimInit
  /\ sinceGreen = [l \in Lane |-> SinceGreenCap]
  /\ dropped = FALSE

(* dt seconds in the old colour pass before a step changes it.             *)
Watch(dt) ==
  sinceGreen' = [l \in Lane |-> IF Green(l) \/ Green(l)' THEN 0
                                ELSE Smaller(sinceGreen[l] + dt, SinceGreenCap)]

CutShort == phase' = "ALL_RED" /\ activeLane' = -1 /\ (phase # "ALL_RED" \/ MustHold')

WatchDropped ==
  dropped' = IF CutShort THEN TRUE
             ELSE IF phase = "GREEN" /\ phase' = "YELLOW" THEN FALSE
             ELSE dropped

ClearanceNext ==
  /\ \/ (CameraEvent \/ AiStalls \/ AiRecovers) /\ Watch(0)
     \/ \E dt \in StepSizes : StepSimulation(dt) /\ Watch(dt)
  /\ WatchDropped

ClearanceSpec == ClearanceInit /\ [][ClearanceNext]_clearanceVars

(***************************************************************************)
(* docs/ARCHITECTURE.md: "All-Red Interval: Clearance buffer between phase *)
(* switches": an approach turns green only when every other one has been   *)
(* without green for yellow plus all-red, also when the phase before it    *)
(* was ended by a camera that dropped out.  The first green after a hold   *)
(* is excepted: a hold gives up the clearance.                             *)
(***************************************************************************)
ClearanceKept ==
  ~dropped => \A l \in Lane : \A m \in Lane \ {l} :
                Green(l) => sinceGreen[m] >= Yellow + AllRed
=============================================================================
