------------------------- MODULE MCFrameCoordinator -------------------------
EXTENDS FrameCoordinator, TLC

CONSTANTS north, a, b, s1, s2, s3

TwoNodes == {a, b}
OneDirection == {north}
BothNorth == [n \in TwoNodes |-> north]
TwoSockets == {s1, s2}
ThreeSockets == {s1, s2, s3}

(* Neither the nodes nor the sockets differ in anything but their names.   *)
Symmetry == Permutations(TwoNodes) \cup Permutations(Sockets)
=============================================================================
