------------------------------- MODULE MCLedger -------------------------------
(* Instances of Ledger for TLC. *)
EXTENDS Ledger, TLC

CONSTANTS r1, r2, c1, c2, main, w1, w2

OnePercent == 10000

TwoPockets == <<w1, w2>>
TwoContributors == c1 :> 1 @@ c2 :> 2

\* Amounts that do not halve: 3 is 2 for the group and 1 for the members, and that
\* one cent cannot be split between two of them.
OddAmounts == c1 :> 3 @@ c2 :> 3

\* A rule for each source type, and a spare one: a second rule for contributions, with a
\* destination of the first, or the rule that replaces another one.
SomeRules ==
    << << <<main, 50 * OnePercent>>, <<EveryMember, 50 * OnePercent>> >>,
       << <<EveryMember, 100 * OnePercent>> >>,
       << <<main, 100 * OnePercent>> >>,
       << <<main, 100 * OnePercent>> >> >>
SomeSources == <<"CONTRIBUTION", "PROJECT_REVENUE", "PROJECT_EXPENSE">>

Symmetry == Permutations(Requests)
==============================================================================
