--------------------------- MODULE SignalScheduler ---------------------------
(***************************************************************************)
(* The decisions of ai/signal/signal_scheduler.py, as pure operators: who  *)
(* is served next (select_eligible), where the clockwise cursor goes       *)
(* (_advance_after) and how long the green lasts (_calculate_green_time).  *)
(*                                                                         *)
(* An approach is identified with its position in cycle_order, so the      *)
(* clockwise order North, East, South, West is 0, 1, 2, 3.                 *)
(***************************************************************************)
EXTENDS Integers

CONSTANTS
  NumLanes,     \* number of approaches in cycle_order (4 in the code)
  FullPce,      \* FULL_GREEN_PCE
  FullQueue     \* FULL_GREEN_QUEUE_SEC

ASSUME NumLanesAssumption == NumLanes \in Nat \ {0}
ASSUME FullDemandAssumption == FullPce \in Nat \ {0} /\ FullQueue \in Nat \ {0}

Lane == 0 .. NumLanes - 1

Smaller(a, b) == IF a <= b THEN a ELSE b
Larger(a, b) == IF a >= b THEN a ELSE b

(***************************************************************************)
(* Steps the cursor takes clockwise from one approach to another.          *)
(***************************************************************************)
Distance(from, to) == IF from <= to THEN to - from ELSE to + NumLanes - from

(* Mutants of AdvanceAfter: no wrap-around, and a cursor that stays.       *)
AdvanceAfter_NoWrap(l) == l + 1
AdvanceAfter_Stays(l) == l

AdvanceAfter(l) == IF l = NumLanes - 1 THEN 0 ELSE l + 1

(* Mutant of SelectEligible: any approach with demand, as by its score.    *)
SelectEligible_ByScore(demand, emergency, cursor) ==
  IF emergency # {} THEN emergency ELSE demand

(***************************************************************************)
(* The approaches select_eligible may return for this demand.  Among       *)
(* several emergency approaches the score decides, which this module does  *)
(* not carry: any of them may win.  Otherwise the first one clockwise from *)
(* the cursor wins, whatever the scores are.                               *)
(***************************************************************************)
SelectEligible(demand, emergency, cursor) ==
  IF emergency # {}
  THEN emergency
  ELSE {l \in demand : \A k \in demand : Distance(cursor, l) <= Distance(cursor, k)}

(***************************************************************************)
(* round() of num / den for non-negative integers: to the nearest integer, *)
(* a tie to the even one.                                                  *)
(***************************************************************************)
RoundHalfEven(num, den) ==
  LET whole == num \div den
      rest  == 2 * (num % den)
  IN  IF rest > den \/ (rest = den /\ whole % 2 = 1) THEN whole + 1 ELSE whole

(***************************************************************************)
(* _calculate_green_time.  The demand ratio is                             *)
(*   0.75 * min(1, pce / FullPce) + 0.25 * min(1, queue / FullQueue),      *)
(* or the winner's share of the total score when it has neither PCE nor    *)
(* queue; all of it is over one common denominator here.                   *)
(***************************************************************************)
GreenTime(score, total, pce, queue, minGreen, maxGreen) ==
  LET loaded == pce > 0 \/ queue > 0
      num    == IF loaded
                THEN 3 * Smaller(pce, FullPce) * FullQueue + Smaller(queue, FullQueue) * FullPce
                ELSE score
      den    == IF loaded THEN 4 * FullPce * FullQueue ELSE total
      raw    == RoundHalfEven(minGreen * den + num * (maxGreen - minGreen), den)
  IN  IF score <= 0 THEN minGreen
                    ELSE Larger(minGreen, Smaller(maxGreen, raw))
=============================================================================
