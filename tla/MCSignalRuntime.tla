--------------------------- MODULE MCSignalRuntime ---------------------------
EXTENDS SignalRuntime, IntersectionClearance

CONSTANT dashboard

OneOperator == {dashboard}
OneOrTwo == {1, 2}

(* The runtime and the simulated junction share the server and no state: a *)
(* behaviour is one of the one or one of the other.                        *)
MCInit == Init /\ ClearanceInit
MCNext ==
  \/ ClearanceInit /\ Next /\ UNCHANGED clearanceVars
  \/ Init /\ ClearanceNext /\ UNCHANGED vars
MCSpec == MCInit /\ [][MCNext]_<<vars, clearanceVars>> /\ Fairness
=============================================================================
