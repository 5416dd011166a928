-------------------------- MODULE MCClearanceTiming --------------------------
EXTENDS ClearanceTiming

OneCameraAtATime == {{l} : l \in Lane}
NoBounds == {}
ShortGreens == {<<1, 1>>, <<1, 2>>}
=============================================================================
