------------------------------ MODULE FlowRules ------------------------------
(***************************************************************************)
(* How flow-rules.service.ts divides an amount among the destinations of a *)
(* rule and among the members, and how shares.service.ts turns             *)
(* contributions into percentages.  Amounts are integers of cents,         *)
(* percentages integers of 0.0001 %, the scale of the percentage columns.  *)
(***************************************************************************)
EXTENDS Integers, Sequences, FiniteSets, Functions

Whole == 1000000    \* 100 %

\* a / b to the nearest integer, halves away from zero (ROUND_HALF_UP), b > 0.
RoundHalfUp(a, b) ==
    IF a >= 0 THEN (2 * a + b) \div (2 * b) ELSE -((b - 2 * a) \div (2 * b))

\* Variant: rounded up.
ShareOfCeiling(total, percentage) == (total * percentage + Whole - 1) \div Whole

ShareOf(total, percentage) == RoundHalfUp(total * percentage, Whole)

\* The amounts allotted to a list of percentages: each is rounded on its own, the
\* last one takes what is left.
Parts(total, percentages) ==
    LET n == Len(percentages)
        rounded == [i \in 1..(n - 1) |-> ShareOf(total, percentages[i])]
    IN  [i \in 1..n |-> IF i < n THEN rounded[i] ELSE total - SumFunction(rounded)]

\* A member's percentage of all that was contributed.
Percentage(contributed, groupTotal) ==
    IF groupTotal = 0 THEN 0 ELSE RoundHalfUp(contributed * Whole, groupTotal)

\* The group total is the sum over everyone in contributed: in the code, everyone with
\* an unreversed contribution, those who have left included.
MemberPercentage(contributed, m) == Percentage(contributed[m], SumFunction(contributed))

\* The numbers in I in increasing order.
InOrder(I) ==
    [n \in 1..Cardinality(I) |-> CHOOSE i \in I : Cardinality({j \in I : j < i}) = n - 1]

\* Those of the active members who have a share, in the order of their ids.
Sharers(share, active) == InOrder({m \in active : share[m] # 0})
==============================================================================
