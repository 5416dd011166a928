-------------------------- MODULE MCApproachDemand --------------------------
EXTENDS ApproachDemand

CONSTANTS bike, truck

TwoTracks == {bike, truck}
OneUrgent == {truck}
Weights == [t \in TwoTracks |-> IF t = bike THEN 50 ELSE 200]
=============================================================================
