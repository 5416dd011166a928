---------------------------- MODULE ServiceOrder ----------------------------
(***************************************************************************)
(* TrafficPipeline with a count, for every approach, of the phases granted *)
(* to others while it had fresh demand and was passed over.                *)
(***************************************************************************)
EXTENDS TrafficPipeline

VARIABLE passed

serviceVars == <<vars, passed>>

ServiceInit == Init /\ passed = [l \in Lane |-> 0]

(* Lane w is granted a phase; the bound is never reached by a correct run. *)
CountPassed(w) ==
  passed' = [l \in Lane |-> IF l = w \/ l \notin Demand THEN 0
                            ELSE Smaller(passed[l] + 1, NumLanes)]

ServiceNext ==
  \/ \E frames \in Inputs :
       \/ ContinueStep(frames) /\ UNCHANGED passed
       \/ \E w \in Lane : GrantStep(frames, w) /\ CountPassed(w)
  \/ ResetPhase /\ UNCHANGED passed
  \/ Configure /\ UNCHANGED passed
  \/ Tick /\ UNCHANGED passed

ServiceSpec == ServiceInit /\ [][ServiceNext]_serviceVars

ServiceTypeOK == TypeOK /\ passed \in [Lane -> 0 .. NumLanes]

(***************************************************************************)
(* docs/TEST_STRATEGY.md: "Clockwise round-robin guarantees every demand   *)
(* lane is served within 4 cycles regardless of opposing congestion": an   *)
(* approach with demand whenever a phase is granted is passed over less    *)
(* than NumLanes times in a row, whatever the frames say, however phases   *)
(* end and whenever the operator resets the phase.  It needs that no       *)
(* approach reports an emergency.                                          *)
(***************************************************************************)
ServedWithinOneCycle == \A l \in Lane : passed[l] < NumLanes

(***************************************************************************)
(* Why it holds: every pass brings the cursor closer.                      *)
(***************************************************************************)
PassesBoundedByDistance ==
  \A l \in Lane : passed[l] + Distance(cursor, l) < NumLanes
=============================================================================
