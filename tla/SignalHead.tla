----------------------------- MODULE SignalHead -----------------------------
(***************************************************************************)
(* What the documentation promises of the signal, without saying when: the *)
(* colours of docs/ARCHITECTURE.md follow each other green, yellow,        *)
(* all-red, and an approach gets green only out of all-red.  green and     *)
(* yellow belong to one approach at a time by construction.                *)
(***************************************************************************)
EXTENDS Integers

CONSTANT Lanes

VARIABLES
  lane,     \* the approach being served
  colour    \* its colour; every other approach is red

headVars == <<lane, colour>>

HeadInit == lane = -1 /\ colour = "ALL_RED"

TurnGreen(l) == colour = "ALL_RED" /\ colour' = "GREEN" /\ lane' = l

TurnYellow == colour = "GREEN" /\ colour' = "YELLOW" /\ lane' = lane

TurnRed == colour = "YELLOW" /\ colour' = "ALL_RED" /\ lane' = lane

(* The approach of a finished phase may be forgotten, and an operator may  *)
(* forget it at any time.                                                  *)
Forget == colour' = "ALL_RED" /\ lane' = -1

HeadNext == (\E l \in Lanes : TurnGreen(l)) \/ TurnYellow \/ TurnRed \/ Forget

HeadSpec == HeadInit /\ [][HeadNext]_headVars
=============================================================================
