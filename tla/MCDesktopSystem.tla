--------------------------- MODULE MCDesktopSystem ---------------------------
EXTENDS DesktopSystem

CONSTANTS north, south, d1, d2, u, b, video

TwoLanes == {north, south}
NorthFirst == <<north, south>>
TwoDevices == {d1, d2}
OneUrl == {u}
OneBare == {b}
=============================================================================
