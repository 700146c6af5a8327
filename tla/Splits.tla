-------------------------------- MODULE Splits --------------------------------
(***************************************************************************)
(* The amounts that flow-rules.service.ts allots to members for an amount  *)
(* they split, as members come and go and their contributions with them:   *)
(* shares.service.ts and splitAcrossMembers end to end, over bounded       *)
(* contributions and amounts.  The shares are percentages of what everyone *)
(* has contributed; only active members have theirs recomputed and are     *)
(* given a part.  A rule's own destinations are split by the same formula  *)
(* (applyRule).                                                            *)
(***************************************************************************)
EXTENDS FlowRules

CONSTANTS
    MaxMembers,     \* bound: the members
    MaxContributed, \* bound: what a member has contributed
    Amounts         \* the amounts that are split

ASSUME SplitsAssumption ==
    /\ MaxMembers \in Nat \ {0}
    /\ MaxContributed \in Nat
    /\ Amounts \subseteq Nat \ {0}

VARIABLES
    status,         \* by member, in the order of their ids: GroupMember.status
    contributed,    \* by member: the sum of their unreversed contributions
    share,          \* by member: MemberShareCache.percentage, 0 without a row
    amount          \* the amount to split

vars == <<status, contributed, share, amount>>

Members == 1..MaxMembers

TypeOK ==
    /\ status \in [Members -> {"NONE", "ACTIVE", "LEFT"}]
    /\ contributed \in [Members -> 0..MaxContributed]
    /\ share \in [Members -> 0..Whole]
    /\ amount \in Amounts

Active == {m \in Members : status[m] = "ACTIVE"}

\* A group starts with its creator.
Init ==
    /\ \E creator \in Members :
          status = [m \in Members |-> IF m = creator THEN "ACTIVE" ELSE "NONE"]
    /\ contributed = [m \in Members |-> 0]
    /\ share = [m \in Members |-> 0]
    /\ amount \in Amounts

\* Who joins, again perhaps, is a new member.
Join(m) ==
    /\ status[m] = "NONE"
    /\ status' = [status EXCEPT ![m] = "ACTIVE"]
    /\ UNCHANGED <<contributed, share, amount>>

\* A member leaves or is voted out.  Their contributions and their share stay as they are,
\* and nothing is recomputed.  That others remain is checked, but on a count that may be
\* old (Membership), so that the last two may both leave.
Leave(m) ==
    /\ status[m] = "ACTIVE"
    /\ status' = [status EXCEPT ![m] = "LEFT"]
    /\ UNCHANGED <<contributed, share, amount>>

\* Variant: the group total is that of the active members.
RecomputeAmongActive ==
    share' = [m \in Members |->
                 IF m \in Active THEN MemberPercentage([k \in Active |-> contributed'[k]], m)
                                 ELSE share[m]]

\* The shares of the active members, and no others, after a change of the contributions.
Recompute ==
    share' = [m \in Members |->
                 IF m \in Active THEN MemberPercentage(contributed', m) ELSE share[m]]

\* The request of a member who has left meanwhile has passed the guard before.
Contribute(m) ==
    /\ status[m] # "NONE"
    /\ contributed[m] < MaxContributed
    /\ contributed' = [contributed EXCEPT ![m] = @ + 1]
    /\ Recompute
    /\ UNCHANGED <<status, amount>>

Reverse(m) ==
    /\ contributed[m] > 0
    /\ contributed' = [contributed EXCEPT ![m] = @ - 1]
    /\ Recompute
    /\ UNCHANGED <<status, amount>>

Declare(a) ==
    /\ amount' = a
    /\ UNCHANGED <<status, contributed, share>>

Next ==
    \/ \E m \in Members : Join(m) \/ Leave(m) \/ Contribute(m) \/ Reverse(m)
    \/ \E a \in Amounts : Declare(a)

Spec == Init /\ [][Next]_vars

-----------------------------------------------------------------------------
\* What splitAcrossMembers gives to each of the active members with a share.
Given ==
    LET sharers == Sharers(share, Active)
    IN  Parts(amount, [i \in DOMAIN sharers |-> share[sharers[i]]])

GroupTotal == SumFunction(contributed)

\* What those have contributed who are not active any more.
Departed == SumFunction([m \in Members \ Active |-> contributed[m]])

\* The contributions that the i-th part is in proportion to: for the last part, what those
\* have contributed who get none as they have left is added to the member's own.
Basis(i) ==
    LET sharers == Sharers(share, Active)
    IN  contributed[sharers[i]] + (IF i < Len(sharers) THEN 0 ELSE Departed)

\* Twice the cents by which the i-th part misses the exact proportion of its basis, times
\* the group total.
Error(i) ==
    LET d == Given[i] * GroupTotal - amount * Basis(i)
    IN  2 * (IF d < 0 THEN -d ELSE d)

\* What k percentages of 4 decimals make of an amount may differ by this from the exact
\* proportions, in the measure of Error: nothing for small amounts.
Coarse(k) == (k * amount * GroupTotal) \div Whole

\* The parts add up to the amount, to the cent, and there are some unless the shares of
\* all active members may be rounded to 0 %.  Every active member but the last gets the
\* proportion that they have contributed of everything, to the nearest cent, although it
\* is computed in two roundings (a percentage to 4 decimals, then an amount to 2) and was
\* stored when a contribution last changed: the first rounding can cost more only where 4
\* decimals are too coarse.  The last one, who takes the remainder, gets the proportion of
\* those who have left on top of their own, and bears as much for every other member.
PartsFollowShares ==
    LET n == Len(Given)
    IN  /\ n > 0 => SumFunction(Given) = amount
        /\ (GroupTotal - Departed) * (2 * Whole) > MaxMembers * GroupTotal => n > 0
        /\ \A i \in 1..n :
              Error(i) <= IF i < n THEN GroupTotal + Coarse(1)
                                   ELSE (n - 1) * GroupTotal + Coarse(MaxMembers - 1)

\* With up to three sharers, where everyone has contributed less than 10 000.00 together,
\* no part is negative.
FewGetNoDebt ==
    Len(Given) <= 3 /\ GroupTotal < Whole => \A i \in DOMAIN Given : Given[i] >= 0
==============================================================================
