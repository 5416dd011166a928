--------------------------- MODULE CommandPromise ---------------------------
(***************************************************************************)
(* What an operator may rely on when a command is sent to a camera server  *)
(* in another container: the command runs at most once, "success" is only  *)
(* said of a command that ran, and of one that was refused at once it is   *)
(* certain that it never runs.  Any other error leaves it open: the        *)
(* command may have run, or may still run after the answer.                *)
(***************************************************************************)
EXTENDS Naturals

CONSTANT Request

VARIABLES
  runs,   \* how often the camera server carried each request out
  told    \* what its client was told: "nothing", "success", "refused" or "unknown"

Init ==
  /\ runs = [r \in Request |-> 0]
  /\ told = [r \in Request |-> "nothing"]

Run(r) ==
  /\ runs[r] = 0 /\ told[r] # "refused"
  /\ runs' = [runs EXCEPT ![r] = 1]
  /\ UNCHANGED told

Tell(r) ==
  /\ told[r] = "nothing"
  /\ \/ runs[r] = 1 /\ told' = [told EXCEPT ![r] = "success"]
     \/ runs[r] = 0 /\ told' = [told EXCEPT ![r] = "refused"]
     \/ told' = [told EXCEPT ![r] = "unknown"]
  /\ UNCHANGED runs

Next == \E r \in Request : Run(r) \/ Tell(r)

Spec == Init /\ [][Next]_<<runs, told>>
=============================================================================
