------------------------- MODULE MCDetectorEvidence -------------------------
EXTENDS DetectorEvidence

OneCameraAtATime == {{l} : l \in Lane}
AllCamerasTogether == {Lane}
NoBounds == {}
ShortGreens == {<<1, 1>>, <<1, 2>>}
=============================================================================
