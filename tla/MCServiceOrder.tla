--------------------------- MODULE MCServiceOrder ---------------------------
EXTENDS ServiceOrder, ReplayLab

OneCameraAtATime == {{l} : l \in Lane}
AllCamerasTogether == {Lane}
ShortGreens == {<<1, 1>>, <<1, 2>>}
NoBounds == {}
LabBounds == {<<10, 60>>, <<5, 120>>, <<15, 15>>}

(* The pipeline and the replay lab share the scheduler's code and no       *)
(* state: a behaviour is one of the one or one of the other.               *)
MCInit == ServiceInit /\ LabInit
MCNext ==
  \/ scenario = NoScenario /\ ServiceNext /\ UNCHANGED labVars
  \/ ServiceInit /\ LabNext /\ UNCHANGED serviceVars
MCSpec == MCInit /\ [][MCNext]_<<serviceVars, labVars>>
=============================================================================
