--------------------------- MODULE MCCommandBridge ---------------------------
EXTENDS CommandBridge

CONSTANTS r1, r2, r3

Requests == {r1, r2, r3}
Alike == Permutations(Requests)
=============================================================================
