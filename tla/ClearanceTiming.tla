--------------------------- MODULE ClearanceTiming ---------------------------
(***************************************************************************)
(* TrafficPipeline with a stopwatch per approach that tells how long it    *)
(* has not been green: what a driver measures, as opposed to the durations *)
(* the decision carries.  An operator's reset drops the clearance of the   *)
(* phase it forgets; dropped remembers that until one phase has followed   *)
(* another again.                                                          *)
(***************************************************************************)
EXTENDS TrafficPipeline

VARIABLES
  sinceGreen,   \* time since each approach was last green
  dropped       \* whether a clearance dropped by the operator may still be missing

clearanceVars == <<vars, sinceGreen, dropped>>

SinceGreenCap == Yellow + AllRed + 1     \* bound of the model

ClearanceInit == Init /\ sinceGreen = [l \in Lane |-> SinceGreenCap] /\ dropped = FALSE

(* A step that takes no time restarts the watch of an approach it turns    *)
(* green.                                                                  *)
Watch == sinceGreen' = [l \in Lane |-> IF Green(l)' THEN 0 ELSE sinceGreen[l]]

(* One phase gives way to another, or to none.                             *)
HandsOver == HasDecision /\ active'.lane # active.lane

WatchStep == Watch /\ dropped' = (dropped /\ ~HandsOver)

(* The approach that was green during the tick has been so until its end.  *)
WatchTick ==
  sinceGreen' = [l \in Lane |-> IF Green(l) THEN 0
                                ELSE Smaller(sinceGreen[l] + 1, SinceGreenCap)]

ClearanceNext ==
  \/ CameraStep /\ WatchStep
  \/ TickerStep /\ WatchStep
  \/ ResetPhase /\ Watch /\ dropped' = TRUE
  \/ Configure /\ Watch /\ UNCHANGED dropped
  \/ Tick /\ WatchTick /\ UNCHANGED dropped

ClearanceSpec == ClearanceInit /\ [][ClearanceNext]_clearanceVars

ClearanceTypeOK ==
  TypeOK /\ sinceGreen \in [Lane -> 0 .. SinceGreenCap] /\ dropped \in BOOLEAN

(***************************************************************************)
(* Rounding the early end of a green down to a whole second takes up to a  *)
(* second (less a tick) from the yellow, and the rest of the clearance     *)
(* stays: while an approach is green every other one has been without      *)
(* green for yellow plus all-red, less that rounding.  After an operator's *)
(* reset this holds again as soon as one phase has followed another, also  *)
(* for the approach that was green when the operator reset the phase.      *)
(***************************************************************************)
Rounding == Second - 1

ClearanceHeld ==
  ~dropped => \A l \in Lane : \A m \in Lane \ {l} :
                Green(l) => sinceGreen[m] >= Yellow + AllRed - Rounding

(***************************************************************************)
(* docs/TECHNICAL_REVIEW_QA.md: an emergency "interrupts the cycle,        *)
(* enforces yellow and all-red clearance, and grants immediate green".     *)
(* Even less is claimed here: no conflicting green without some clearance. *)
(***************************************************************************)
NeverGreenToGreen ==
  \A l \in Lane : \A m \in Lane \ {l} : Green(l) => sinceGreen[m] > 0

Head == INSTANCE SignalHead WITH Lanes <- Lane, lane <- active.lane, colour <- SignalState

(***************************************************************************)
(* The phase machine shows the colours in the documented order, which only *)
(* an operator's reset cuts short.                                         *)
(***************************************************************************)
ImplementsHead == Head!HeadSpec
=============================================================================
