----------------------------- MODULE SplitsProofs -----------------------------
(***************************************************************************)
(* Theorems about Splits, for any number of members, contributions and     *)
(* amounts, whoever has left: the stored shares are those of now, how far  *)
(* the parts that members get are from the exact proportions, and when     *)
(* none of them is negative.                                               *)
(***************************************************************************)
EXTENDS Splits, AmountTheorems

-----------------------------------------------------------------------------
(* One part *)

\* A percentage of x out of t is a half of 0.0001 % off, at most.
LEMMA PercentageNear ==
    ASSUME NEW t \in Nat \ {0}, NEW x \in 0..t
    PROVE  /\ Percentage(x, t) \in Nat /\ Percentage(x, t) <= Whole
           /\ (2 * t) * Percentage(x, t) <= 2 * (x * Whole) + t
           /\ 2 * (x * Whole) + t < (2 * t) * Percentage(x, t) + 2 * t
           /\ x = 0 => Percentage(x, t) = 0
<1>1. PICK p : p = Percentage(x, t)
  OBVIOUS
<1>2. x * Whole \in Nat
  BY SMT DEF Whole
<1>3. p = RoundHalfUp(x * Whole, t)
  BY <1>1 DEF Percentage
<1>4. p \in Nat /\ (2 * t) * p <= 2 * (x * Whole) + t /\ 2 * (x * Whole) + t < (2 * t) * p + 2 * t
  BY <1>2, <1>3, RoundBounds
<1>5. p <= Whole
  <2>1. ASSUME p >= Whole + 1 PROVE FALSE
    <3>1. (2 * t) * p >= (2 * t) * (Whole + 1)
      BY <1>4, <2>1, SMT DEF Whole
    <3>2. x * Whole <= t * Whole
      BY SMT DEF Whole
    <3>3. (2 * t) * p \in Int
      BY <1>4
    <3> QED
      BY <1>4, <3>1, <3>2, <3>3, SMT DEF Whole
  <2> QED
    BY <1>4, <2>1, SMT DEF Whole
<1>6. x = 0 => p = 0
  <2>1. ASSUME x = 0, p >= 1 PROVE FALSE
    <3>1. (2 * t) * p >= 2 * t
      BY <1>4, <2>1
    <3>2. (2 * t) * p \in Int
      BY <1>4
    <3> QED
      BY <1>4, <2>1, <3>1, <3>2, SMT DEF Whole
  <2> QED
    BY <1>4, <2>1
<1> QED
  BY <1>1, <1>4, <1>5, <1>6, SMT DEF Whole

\* The part of an amount for a percentage is half a cent off, at most.
LEMMA ShareNear ==
    ASSUME NEW a \in Nat, NEW p \in Nat, p <= Whole
    PROVE  /\ ShareOf(a, p) \in Nat /\ ShareOf(a, p) <= a
           /\ (2 * Whole) * ShareOf(a, p) <= 2 * (a * p) + Whole
           /\ 2 * (a * p) + Whole < (2 * Whole) * ShareOf(a, p) + 2 * Whole
<1>1. a * p \in Nat /\ Whole \in Nat \ {0}
  BY SMT DEF Whole
<1>2. PICK g : g = ShareOf(a, p)
  OBVIOUS
<1>3. g = RoundHalfUp(a * p, Whole)
  BY <1>2 DEF ShareOf
<1>4. /\ g \in Nat /\ (2 * Whole) * g <= 2 * (a * p) + Whole
      /\ 2 * (a * p) + Whole < (2 * Whole) * g + 2 * Whole
  BY <1>1, <1>3, RoundBounds
<1>5. g <= a
  <2>1. a * p <= a * Whole
    BY SMT DEF Whole
  <2> QED
    BY <1>1, <1>4, <2>1, SMT DEF Whole
<1> QED
  BY <1>2, <1>4, <1>5

\* The two roundings together.
LEMMA PartNear ==
    ASSUME NEW t \in Nat \ {0}, NEW x \in 0..t, NEW a \in Nat
    PROVE  LET missed == (2 * Whole) * (ShareOf(a, Percentage(x, t)) * t - a * x)
           IN  -(t * Whole + a * t) <= missed /\ missed <= t * Whole + a * t
<1>1. PICK p \in Nat : p = Percentage(x, t) /\ p <= Whole
  BY PercentageNear
<1>2. PICK g \in Nat : g = ShareOf(a, p)
  BY <1>1, ShareNear
<1>3. Whole \in Nat \ {0}
  BY SMT DEF Whole
<1>4. PICK ax \in Nat, gt \in Nat, at \in Nat, ap \in Nat, tp \in Nat, apt \in Nat :
         /\ ax = a * x /\ gt = g * t /\ at = a * t /\ ap = a * p /\ tp = t * p /\ apt = ap * t
  BY <1>3
<1>5. 2 * tp <= 2 * (x * Whole) + t /\ 2 * (x * Whole) + t < 2 * tp + 2 * t
  <2>1. (2 * t) * p = 2 * tp
    BY <1>3, <1>4
  <2> QED
    BY <1>1, <2>1, PercentageNear
<1>6. (2 * Whole) * g <= 2 * ap + Whole /\ 2 * ap + Whole < (2 * Whole) * g + 2 * Whole
  BY <1>1, <1>2, <1>4, ShareNear
<1>7. a * tp = apt /\ a * (x * Whole) = ax * Whole
  BY <1>3, <1>4, SMT DEF Whole
<1>8. 2 * apt <= 2 * (ax * Whole) + at /\ 2 * (ax * Whole) + at <= 2 * apt + 2 * at
  <2>1. PICK l \in Int, m \in Int, r \in Int :
           l = 2 * tp /\ m = 2 * (x * Whole) + t /\ r = 2 * tp + 2 * t
    BY SMT DEF Whole
  <2>2. a * l <= a * m /\ a * m <= a * r
    BY <1>5, <2>1
  <2>3. a * l = 2 * (a * tp) /\ a * m = 2 * (a * (x * Whole)) + a * t
        /\ a * r = 2 * (a * tp) + 2 * (a * t)
    BY <2>1, SMT DEF Whole
  <2> QED
    BY <1>4, <1>7, <2>2, <2>3
<1>9. (2 * Whole) * gt <= 2 * apt + Whole * t /\ 2 * apt + Whole * t <= (2 * Whole) * gt + (2 * Whole) * t
  <2>1. PICK l \in Int, m \in Int, r \in Int :
           l = (2 * Whole) * g /\ m = 2 * ap + Whole /\ r = (2 * Whole) * g + 2 * Whole
    BY SMT DEF Whole
  <2>2. l * t <= m * t /\ m * t <= r * t
    BY <1>6, <2>1
  <2>3. l * t = (2 * Whole) * (g * t) /\ m * t = 2 * (ap * t) + Whole * t
        /\ r * t = (2 * Whole) * (g * t) + (2 * Whole) * t
    BY <2>1, SMT DEF Whole
  <2> QED
    BY <1>4, <2>2, <2>3
<1>10. /\ -(t * Whole + at) <= (2 * Whole) * (gt - ax)
       /\ (2 * Whole) * (gt - ax) <= t * Whole + at
  BY <1>8, <1>9, SMT DEF Whole
<1> QED
  BY <1>1, <1>2, <1>4, <1>10

-----------------------------------------------------------------------------
(* The stored shares *)

\* Contributions add up to a number that none of them exceeds, and none is more than all.
LEMMA TotalOf ==
    ASSUME NEW c \in [Members -> Nat]
    PROVE  /\ SumFunction(c) \in Nat /\ SumFunction(c) = SumOver(c, Members)
           /\ \A m \in Members : /\ c[m] \in 0..SumFunction(c)
                                 /\ MemberPercentage(c, m) \in 0..Whole
                                 /\ c[m] = 0 => MemberPercentage(c, m) = 0
<1>1. IsFiniteSet(Members)
  BY SplitsAssumption, FS_Interval DEF Members
<1>2. \A m \in Members : c[m] \in Nat /\ c[m] \in Int
  OBVIOUS
<1>3. \A s \in SUBSET Members : SumOver(c, s) \in Nat
  <2> SUFFICES ASSUME NEW s \in SUBSET Members PROVE SumOver(c, s) \in Nat
    OBVIOUS
  <2>1. PICK k : k = [x \in s |-> c[x]]
    OBVIOUS
  <2>2. IsFiniteSet(DOMAIN k) /\ \A x \in DOMAIN k : k[x] \in Nat
    BY <1>1, <1>2, <2>1, FS_Subset
  <2> QED
    BY <2>1, <2>2, SumTypes DEF SumOver
<1>4. SumFunction(c) = SumOver(c, Members)
  <2>1. c = [x \in Members |-> c[x]]
    OBVIOUS
  <2> QED
    BY <2>1 DEF SumOver
<1>5. ASSUME NEW m \in Members
      PROVE  /\ c[m] \in 0..SumFunction(c) /\ MemberPercentage(c, m) \in 0..Whole
             /\ c[m] = 0 => MemberPercentage(c, m) = 0
  <2>1. SumOver(c, Members) = c[m] + SumOver(c, Members \ {m})
    BY <1>1, <1>2, SumsOver
  <2>2. SumOver(c, Members \ {m}) \in Nat
    BY <1>3
  <2>3. PICK t \in Nat, x \in Nat : t = SumFunction(c) /\ x = c[m] /\ x \in 0..t
    BY <1>2, <1>3, <1>4, <2>1, <2>2
  <2>4. MemberPercentage(c, m) = Percentage(x, t)
    BY <2>3 DEF MemberPercentage
  <2>5. Percentage(x, t) \in 0..Whole /\ (x = 0 => Percentage(x, t) = 0)
    <3>1. CASE t = 0
      <4>1. Percentage(x, t) = 0
        BY <3>1 DEF Percentage
      <4>2. Whole \in Nat
        BY SMT DEF Whole
      <4> QED
        BY <4>1, <4>2
    <3>2. CASE t # 0
      <4>1. t \in Nat \ {0}
        BY <3>2
      <4>2. Whole \in Nat
        BY SMT DEF Whole
      <4>3. /\ Percentage(x, t) \in Nat /\ Percentage(x, t) <= Whole
            /\ x = 0 => Percentage(x, t) = 0
        BY <2>3, <4>1, PercentageNear
      <4> QED
        BY <4>2, <4>3
    <3> QED
      BY <3>1, <3>2
  <2> QED
    BY <2>3, <2>4, <2>5
<1> QED
  BY <1>3, <1>4, <1>5

\* The stored share of an active member is what it would be computed as now, although those
\* who joined or left since have recomputed nothing.
SharesCurrent == \A m \in Active : share[m] = MemberPercentage(contributed, m)

\* Who has not joined yet has contributed nothing, and has no share.
StrangersHaveNothing ==
    \A m \in Members : status[m] = "NONE" => contributed[m] = 0 /\ share[m] = 0

SInv == TypeOK /\ SharesCurrent /\ StrangersHaveNothing

LEMMA SInvInit == Init => SInv
<1> SUFFICES ASSUME Init PROVE SInv
  OBVIOUS
<1>1. contributed \in [Members -> Nat] /\ \A m \in Members : contributed[m] = 0 /\ share[m] = 0
  BY DEF Init
<1>2. TypeOK
  <2>1. Whole \in Nat /\ MaxContributed \in Nat
    BY SplitsAssumption, SMT DEF Whole
  <2> QED
    BY <2>1 DEF Init, TypeOK
<1>3. SharesCurrent
  BY <1>1, TotalOf DEF SharesCurrent, Active
<1> QED
  BY <1>1, <1>2, <1>3 DEF SInv, StrangersHaveNothing

\* A contribution or a reversal by somebody who is or was a member.
LEMMA ChangeKeeps ==
    ASSUME SInv, NEW m \in Members, status[m] # "NONE", NEW v \in 0..MaxContributed,
           contributed' = [contributed EXCEPT ![m] = v], Recompute,
           UNCHANGED <<status, amount>>
    PROVE  SInv'
<1>1. contributed' \in [Members -> 0..MaxContributed] /\ contributed' \in [Members -> Nat]
  BY SplitsAssumption DEF SInv, TypeOK
<1>2. \A k \in Members : MemberPercentage(contributed', k) \in 0..Whole
  BY <1>1, TotalOf
<1>3. TypeOK'
  BY <1>1, <1>2 DEF SInv, TypeOK, Recompute
<1>4. SharesCurrent'
  BY DEF SharesCurrent, Recompute, Active
<1>5. StrangersHaveNothing'
  BY DEF SInv, TypeOK, StrangersHaveNothing, Recompute, Active
<1> QED
  BY <1>3, <1>4, <1>5 DEF SInv

LEMMA SInvStep == SInv /\ [Next]_vars => SInv'
<1> SUFFICES ASSUME SInv, [Next]_vars PROVE SInv'
  OBVIOUS
<1>0. contributed \in [Members -> Nat]
  BY SplitsAssumption DEF SInv, TypeOK
<1>1. ASSUME NEW m \in Members, Join(m) PROVE SInv'
  <2>1. MemberPercentage(contributed, m) = 0
    BY <1>0, <1>1, TotalOf DEF SInv, StrangersHaveNothing, Join
  <2> QED
    BY <1>1, <2>1 DEF Join, SInv, TypeOK, SharesCurrent, StrangersHaveNothing, Active
<1>2. ASSUME NEW m \in Members, Leave(m) PROVE SInv'
  BY <1>2 DEF Leave, SInv, TypeOK, SharesCurrent, StrangersHaveNothing, Active
<1>3. ASSUME NEW m \in Members, Contribute(m) PROVE SInv'
  <2>1. contributed[m] + 1 \in 0..MaxContributed
    BY <1>3, SplitsAssumption DEF Contribute, SInv, TypeOK
  <2> QED
    BY <1>3, <2>1, ChangeKeeps DEF Contribute
<1>4. ASSUME NEW m \in Members, Reverse(m) PROVE SInv'
  <2>1. contributed[m] - 1 \in 0..MaxContributed /\ status[m] # "NONE"
    BY <1>4, SplitsAssumption DEF Reverse, SInv, TypeOK, StrangersHaveNothing
  <2> QED
    BY <1>4, <2>1, ChangeKeeps DEF Reverse
<1>5. ASSUME NEW a \in Amounts, Declare(a) PROVE SInv'
  BY <1>5 DEF Declare, SInv, TypeOK, SharesCurrent, StrangersHaveNothing, Active
<1>6. CASE UNCHANGED vars
  BY <1>6 DEF vars, SInv, TypeOK, SharesCurrent, StrangersHaveNothing, Active
<1> QED
  BY <1>1, <1>2, <1>3, <1>4, <1>5, <1>6 DEF Next

\* Whoever joins, leaves, contributes or takes a contribution back: the shares that a split
\* reads are those of now.
THEOREM SharesStayCurrent == Spec => []SInv
<1> QED
  BY SInvInit, SInvStep, PTL DEF Spec

-----------------------------------------------------------------------------
(* All parts *)

\* The members who get a part, and what the i-th of them has contributed.
Sharing == {m \in Active : share[m] # 0}
Own == [i \in 1..Cardinality(Sharing) |-> contributed[Sharers(share, Active)[i]]]

LEMMA TotalType ==
    ASSUME SInv
    PROVE  /\ GroupTotal \in Nat /\ GroupTotal = SumOver(contributed, Members)
           /\ \A m \in Members : contributed[m] \in 0..GroupTotal
<1>1. contributed \in [Members -> Nat]
  BY SplitsAssumption DEF SInv, TypeOK
<1> QED
  BY <1>1, TotalOf DEF GroupTotal

\* The members who get a part are in the list once each.
LEMMA SharersListed ==
    ASSUME SInv
    PROVE  /\ IsFiniteSet(Sharing) /\ Sharing \in SUBSET Members
           /\ Cardinality(Sharing) \in Nat /\ Cardinality(Sharing) <= MaxMembers
           /\ Active \in SUBSET Members /\ IsFiniteSet(Active \ Sharing)
           /\ Cardinality(Active \ Sharing) \in Nat
           /\ Cardinality(Active \ Sharing) <= MaxMembers - Cardinality(Sharing)
           /\ Sharers(share, Active) \in [1..Cardinality(Sharing) -> Sharing]
           /\ \A n, k \in 1..Cardinality(Sharing) :
                 Sharers(share, Active)[n] = Sharers(share, Active)[k] => n = k
           /\ \A m \in Sharing : \E n \in 1..Cardinality(Sharing) : Sharers(share, Active)[n] = m
<1>1. IsFiniteSet(Members) /\ Cardinality(Members) = MaxMembers /\ Members \subseteq Nat
  BY SplitsAssumption, FS_Interval DEF Members
<1>2. /\ IsFiniteSet(Sharing) /\ Sharing \in SUBSET Members /\ Sharing \subseteq Nat
      /\ Active \in SUBSET Members
  <2>1. Sharing \in SUBSET Members /\ Active \in SUBSET Members
    BY DEF Sharing, Active
  <2> QED
    BY <1>1, <2>1, FS_Subset
<1>3. PICK others : others = Members \ Sharing
  OBVIOUS
<1>4. /\ Cardinality(Sharing) \in Nat /\ Cardinality(Sharing) <= MaxMembers
      /\ IsFiniteSet(others) /\ Cardinality(others) = MaxMembers - Cardinality(Sharing)
  <2>1. Cardinality(Sharing) \in Nat /\ Cardinality(Sharing) <= Cardinality(Members)
    BY <1>1, <1>2, FS_Subset, FS_CardinalityType
  <2>2. Cardinality(others) = Cardinality(Members) - Cardinality(Members \cap Sharing)
    BY <1>1, <1>3, FS_Difference
  <2>3. Members \cap Sharing = Sharing
    BY <1>2
  <2>4. IsFiniteSet(others)
    BY <1>1, <1>3, FS_Difference
  <2> QED
    BY <1>1, <2>1, <2>2, <2>3, <2>4
<1>5. /\ IsFiniteSet(Active \ Sharing) /\ Cardinality(Active \ Sharing) \in Nat
      /\ Cardinality(Active \ Sharing) <= MaxMembers - Cardinality(Sharing)
  <2>1. Active \ Sharing \in SUBSET others
    BY <1>2, <1>3
  <2>2. /\ IsFiniteSet(Active \ Sharing)
        /\ Cardinality(Active \ Sharing) <= Cardinality(others)
    BY <1>4, <2>1, FS_Subset
  <2> QED
    BY <1>4, <2>2, FS_CardinalityType
<1>6. Sharers(share, Active) = InOrder(Sharing)
  BY DEF Sharers, Sharing
<1> QED
  BY <1>2, <1>4, <1>5, <1>6, InOrderLists

\* What has been contributed by those who get a part, by those who have left, and by the
\* active members whose share is rounded to 0 %.
LEMMA SharersTotal ==
    ASSUME SInv
    PROVE  /\ \A i \in 1..Cardinality(Sharing) : Own[i] \in 0..GroupTotal /\ Own[i] # 0
           /\ SumOver(Own, 1..Cardinality(Sharing)) \in 0..GroupTotal /\ Departed \in Nat
           /\ SumOver(Own, 1..Cardinality(Sharing)) + Departed <= GroupTotal
           /\ (2 * Whole) * (GroupTotal - SumOver(Own, 1..Cardinality(Sharing)) - Departed)
                 <= (MaxMembers - Cardinality(Sharing)) * GroupTotal
<1> DEFINE n == Cardinality(Sharing)
           others == Active \ Sharing
           gone == Members \ Active
<1>1. /\ IsFiniteSet(Members) /\ IsFiniteSet(1..n) /\ IsFiniteSet(others)
      /\ \A m \in Members : contributed[m] \in Int /\ contributed[m] \in Nat
  <2>1. IsFiniteSet(Members)
    BY SplitsAssumption, FS_Interval DEF Members
  <2>2. n \in Nat
    BY SharersListed
  <2>3. \A m \in Members : contributed[m] \in Int /\ contributed[m] \in Nat
    BY SplitsAssumption DEF SInv, TypeOK
  <2>4. IsFiniteSet(1..n)
    BY <2>2, FS_Interval
  <2>5. IsFiniteSet(others)
    BY SharersListed
  <2> HIDE DEF n, others, gone
  <2> QED
    BY <2>1, <2>3, <2>4, <2>5
<1>2. PICK t \in Nat : t = GroupTotal /\ t = SumOver(contributed, Members)
  BY TotalType
<1>3. SumOver(Own, 1..n) = SumOver(contributed, Sharing)
  <2>1. \A i \in 1..n : Own[i] = contributed[Sharers(share, Active)[i]]
    BY DEF Own
  <2>2. \A m \in Sharing : contributed[m] \in Int
    BY <1>1, SharersListed
  <2>3. PICK h : h = Sharers(share, Active)
    OBVIOUS
  <2>4. PICK places : places = 1..n
    OBVIOUS
  <2>5. h \in Bijection(places, Sharing) /\ IsFiniteSet(Sharing) /\ IsFiniteSet(places)
    <3>1. /\ h \in [places -> Sharing] /\ \A i, k \in places : h[i] = h[k] => i = k
          /\ \A m \in Sharing : \E i \in places : h[i] = m
      BY <2>3, <2>4, SharersListed
    <3>2. h \in Bijection(places, Sharing)
      BY <3>1 DEF Bijection, Injection, Surjection, IsInjective
    <3> QED
      BY <1>1, <2>4, <3>2, SharersListed
  <2>6. \A i \in places : Own[i] = contributed[h[i]]
    BY <2>1, <2>3, <2>4
  <2>7. SumOver(Own, places) = SumOver(contributed, Sharing)
    BY <2>2, <2>5, <2>6, SumRenamed
  <2> QED
    BY <2>4, <2>7
<1>4. \A k \in SUBSET Members : SumOver(contributed, k) \in Nat
  <2> SUFFICES ASSUME NEW k \in SUBSET Members PROVE SumOver(contributed, k) \in Nat
    OBVIOUS
  <2>1. PICK f : f = [x \in k |-> contributed[x]]
    OBVIOUS
  <2>2. IsFiniteSet(DOMAIN f) /\ \A x \in DOMAIN f : f[x] \in Nat
    BY <1>1, <2>1, FS_Subset
  <2> QED
    BY <2>1, <2>2, SumTypes DEF SumOver
<1>5. PICK s \in Nat, u \in Nat, d \in Nat :
         /\ s = SumOver(contributed, Sharing) /\ u = SumOver(contributed, others)
         /\ d = SumOver(contributed, gone)
  <2>1. Sharing \in SUBSET Members /\ others \in SUBSET Members /\ gone \in SUBSET Members
    BY SharersListed
  <2> HIDE DEF others, gone
  <2> QED
    BY <1>4, <2>1
<1>6. t = s + u + d /\ d = Departed
  <2>1. SumOver(contributed, Members) =
           SumOver(contributed, Active) + SumOver(contributed, Members \ Active)
    BY <1>1, SharersListed, SumParts
  <2>2. SumOver(contributed, Active) = SumOver(contributed, Sharing) + SumOver(contributed, others)
    <3>1. /\ IsFiniteSet(Active) /\ Sharing \in SUBSET Active
          /\ \A m \in Active : contributed[m] \in Int
      BY <1>1, SharersListed, FS_Subset DEF Sharing
    <3> QED
      BY <3>1, SumParts
  <2>3. d = Departed
    BY <1>5 DEF SumOver, Departed
  <2> HIDE DEF others, gone
  <2> QED
    BY <1>2, <1>5, <2>1, <2>2, <2>3 DEF gone
<1>7. u * (2 * Whole) <= Cardinality(others) * t
  <2>1. ASSUME NEW m \in others PROVE contributed[m] * (2 * Whole) <= t
    <3>1. m \in Members /\ MemberPercentage(contributed, m) = 0 /\ contributed[m] \in 0..t
      BY <1>2, TotalType, SharersListed DEF Sharing, SInv, SharesCurrent
    <3>2. CASE t = 0
      <4>1. contributed[m] = 0
        BY <3>1, <3>2
      <4> QED
        BY <4>1, SMT DEF Whole
    <3>3. CASE t # 0
      <4>1. PICK x \in 0..t : x = contributed[m]
        BY <3>1
      <4>2. Percentage(x, t) = 0
        BY <1>2, <3>1, <4>1 DEF MemberPercentage, GroupTotal
      <4>3. 2 * (x * Whole) + t < (2 * t) * 0 + 2 * t
        BY <3>3, <4>2, PercentageNear
      <4> QED
        BY <4>1, <4>3, SMT DEF Whole
    <3> QED
      BY <3>2, <3>3
  <2>2. \A m \in others : contributed[m] \in Nat
    BY <1>1, SharersListed
  <2>3. 2 * Whole \in Nat
    BY SMT DEF Whole
  <2> HIDE DEF others
  <2> QED
    BY <1>1, <1>2, <1>5, <2>1, <2>2, <2>3, SumBound
<1>8. ASSUME NEW i \in 1..n PROVE Own[i] \in 0..t /\ Own[i] # 0
  <2>1. PICK m \in Sharing : m = Sharers(share, Active)[i]
    BY SharersListed
  <2>2. m \in Members /\ MemberPercentage(contributed, m) # 0 /\ contributed[m] \in 0..t
    BY <1>2, TotalType, SharersListed DEF Sharing, SInv, SharesCurrent
  <2>3. PICK x \in 0..t : x = contributed[m]
    BY <2>2
  <2>4. Percentage(x, t) # 0
    BY <1>2, <2>2, <2>3 DEF MemberPercentage, GroupTotal
  <2>5. t # 0
    BY <2>4 DEF Percentage
  <2>6. x # 0
    BY <2>4, <2>5, PercentageNear
  <2> QED
    BY <2>1, <2>3, <2>6 DEF Own
<1>9. Cardinality(others) \in Nat /\ Cardinality(others) <= MaxMembers - n /\ n \in Nat
  BY SharersListed
<1>10. (2 * Whole) * (t - s - d) <= (MaxMembers - n) * t
  <2>1. t - s - d = u /\ u * (2 * Whole) = (2 * Whole) * u
    BY <1>5, <1>6, SMT DEF Whole
  <2>2. PICK k \in Nat, l \in Int : k = Cardinality(others) /\ l = MaxMembers - n /\ k <= l
    BY <1>9, SplitsAssumption
  <2>3. k * t <= l * t
    BY <2>2
  <2>4. PICK w \in Int : w = (2 * Whole) * u
    BY SMT DEF Whole
  <2>5. k * t \in Int /\ l * t \in Int
    BY <2>2
  <2> HIDE DEF n, others
  <2> QED
    BY <1>7, <2>1, <2>2, <2>3, <2>4, <2>5
<1>11. PICK l \in Nat, v \in Int : l = n /\ v = SumOver(Own, 1..n) /\ v = s
  BY <1>3, <1>5, <1>9
<1>12. (2 * Whole) * (GroupTotal - SumOver(Own, 1..n) - Departed) <= (MaxMembers - n) * GroupTotal
  <2> HIDE DEF n
  <2> QED
    BY <1>2, <1>6, <1>10, <1>11
<1>13. s \in 0..t /\ s + d <= t
  BY <1>5, <1>6
<1> HIDE DEF others, gone
<1> QED
  BY <1>2, <1>5, <1>6, <1>8, <1>11, <1>12, <1>13

\* What the parts are in proportion to.
LEMMA BasisIs ==
    ASSUME SInv, NEW i \in 1..Cardinality(Sharing)
    PROVE  Basis(i) = Own[i] + (IF i < Cardinality(Sharing) THEN 0 ELSE Departed)
<1> DEFINE sharers == Sharers(share, Active)
<1>1. PICK n \in Nat : n = Cardinality(Sharing) /\ sharers \in [1..n -> Sharing]
  BY SharersListed
<1> HIDE DEF sharers
<1>2. sharers \in Seq(Sharing) /\ Len(sharers) = n
  BY <1>1
<1> QED
  BY <1>1, <1>2 DEF sharers, Basis, Own

\* The parts: each but the last is rounded on its own, the last one is the rest.
LEMMA GivenAre ==
    ASSUME SInv
    PROVE  LET n == Cardinality(Sharing)
           IN  /\ Given \in Seq(Int) /\ Len(Given) = n
               /\ \A i \in 1..n : i < n =>
                     Given[i] = ShareOf(amount, Percentage(Own[i], GroupTotal))
               /\ n > 0 => /\ SumFunction(Given) = amount
                           /\ Given[n] = amount - SumOver(Given, 1..(n - 1))
<1> DEFINE sharers == Sharers(share, Active)
           percentages == [i \in DOMAIN sharers |-> share[sharers[i]]]
<1>1. PICK n \in Nat : n = Cardinality(Sharing)
  BY SharersListed
<1>2. PICK t \in Nat, a \in Nat : t = GroupTotal /\ a = amount
  BY TotalType, SplitsAssumption DEF SInv, TypeOK
<1>3. DOMAIN percentages = 1..n /\ \A i \in 1..n : percentages[i] = Percentage(Own[i], t)
  <2>1. DOMAIN percentages = 1..n
    BY <1>1, SharersListed
  <2>2. ASSUME NEW i \in 1..n PROVE percentages[i] = Percentage(Own[i], t)
    <3>1. PICK m \in Sharing : m = sharers[i]
      BY <1>1, SharersListed
    <3>2. share[m] = Percentage(contributed[m], t) /\ contributed[m] = Own[i]
      BY <1>1, <1>2, <3>1 DEF Sharing, SInv, SharesCurrent, MemberPercentage, GroupTotal, Own
    <3> QED
      BY <2>1, <3>1, <3>2
  <2> QED
    BY <2>1, <2>2
<1>4. \A i \in 1..n : Percentage(Own[i], t) \in Int
  <2> SUFFICES ASSUME NEW i \in 1..n PROVE Percentage(Own[i], t) \in Int
    OBVIOUS
  <2>1. PICK x \in 0..t : x = Own[i] /\ x # 0
    BY <1>1, <1>2, SharersTotal
  <2> QED
    BY <2>1, PercentageNear
<1>5. percentages \in [1..n -> Int]
  <2>1. percentages = [i \in DOMAIN percentages |-> percentages[i]]
    OBVIOUS
  <2> HIDE DEF percentages
  <2> QED
    BY <1>3, <1>4, <2>1
<1>6. percentages \in Seq(Int) /\ Len(percentages) = n
  <2> HIDE DEF percentages
  <2> QED
    BY <1>3, <1>5
<1>7. PICK given : given = Given
  OBVIOUS
<1>8. given = Parts(a, percentages)
  BY <1>2, <1>7 DEF Given
<1> HIDE DEF sharers, percentages
<1>9. DOMAIN given = 1..n /\ \A i \in 1..n : given[i] \in Int
  BY <1>6, <1>8, PartsType
<1>10. given = [i \in 1..n |-> given[i]]
  BY <1>6, <1>8 DEF Parts
<1>11. given \in Seq(Int) /\ Len(given) = n
  BY <1>9, <1>10
<1>12. ASSUME NEW i \in 1..n, i < n
       PROVE  given[i] = ShareOf(a, Percentage(Own[i], t))
  <2>1. given[i] = ShareOf(a, percentages[i])
    BY <1>6, <1>8, <1>12 DEF Parts
  <2> QED
    BY <1>3, <2>1
<1>13. ASSUME n > 0
       PROVE  SumFunction(given) = a /\ given[n] = a - SumOver(given, 1..(n - 1))
  <2>1. SumFunction(given) = a
    <3>1. percentages # <<>>
      BY <1>6, <1>13
    <3> QED
      BY <1>6, <1>8, <3>1, PartsSum
  <2>2. SumFunction(given) = SumOver(given, 1..n)
    BY <1>10 DEF SumOver
  <2>3. PICK places : places = 1..n /\ IsFiniteSet(places)
    BY FS_Interval
  <2>4. n \in places /\ places \ {n} = 1..(n - 1) /\ \A i \in places : given[i] \in Int
    BY <1>9, <1>13, <2>3
  <2>5. /\ SumOver(given, places) = given[n] + SumOver(given, places \ {n})
        /\ SumOver(given, places \ {n}) \in Int
    <3>1. IsFiniteSet(places) /\ \A i \in places : given[i] \in Int
      BY <2>3, <2>4
    <3>2. \A i \in places : /\ SumOver(given, places) = given[i] + SumOver(given, places \ {i})
                             /\ SumOver(given, places \ {i}) \in Int
      BY <3>1, SumsOver
    <3> QED
      BY <2>4, <3>2
  <2>6. PICK v \in Int, w \in Int :
           v = given[n] /\ w = SumOver(given, places \ {n}) /\ a = v + w
    BY <2>1, <2>2, <2>3, <2>4, <2>5
  <2>7. v = a - w
    BY <2>6
  <2> QED
    BY <2>1, <2>4, <2>6, <2>7
<1> QED
  BY <1>1, <1>2, <1>7, <1>11, <1>12, <1>13

\* From hundredths of millionths to the measure of Error.
LEMMA Measured ==
    ASSUME NEW d \in Int, NEW k \in Nat, NEW x \in Nat,
           -(k * Whole + x) <= (2 * Whole) * d, (2 * Whole) * d <= k * Whole + x
    PROVE  2 * (IF d < 0 THEN -d ELSE d) <= k + x \div Whole
<1>1. PICK e \in Int : e = 2 * (IF d < 0 THEN -d ELSE d)
  OBVIOUS
<1>2. Whole * e <= k * Whole + x
  BY <1>1, SMT DEF Whole
<1>3. PICK q \in Int : q = x \div Whole /\ x < Whole * q + Whole
  BY SMT DEF Whole
<1>4. e <= k + q
  BY <1>2, <1>3, SMT DEF Whole
<1> QED
  BY <1>1, <1>3, <1>4

\* Every part but the last.
LEMMA EarlierNear ==
    ASSUME SInv, NEW i \in 1..Cardinality(Sharing), i < Cardinality(Sharing)
    PROVE  LET missed == (2 * Whole) * (Given[i] * GroupTotal - amount * Own[i])
               most == GroupTotal * Whole + amount * GroupTotal
           IN  -most <= missed /\ missed <= most
<1>1. PICK t \in Nat, a \in Nat : t = GroupTotal /\ a = amount
  BY TotalType, SplitsAssumption DEF SInv, TypeOK
<1>2. PICK x \in 0..t : x = Own[i] /\ x # 0
  BY <1>1, SharersTotal
<1>3. t \in Nat \ {0}
  BY <1>2
<1>4. Given[i] = ShareOf(a, Percentage(x, t))
  BY <1>1, <1>2, GivenAre
<1> QED
  BY <1>1, <1>2, <1>3, <1>4, PartNear

\* The last part, which is the rest, misses its proportion, with that of those who have
\* left, by what the others miss theirs by, and by the proportion of the active members who
\* get nothing.
LEMMA LastNear ==
    ASSUME SInv, Sharing # {}
    PROVE  LET n == Cardinality(Sharing)
               missed == (2 * Whole) * (Given[n] * GroupTotal - amount * (Own[n] + Departed))
               most == ((n - 1) * GroupTotal) * Whole + ((MaxMembers - 1) * amount) * GroupTotal
           IN  -most <= missed /\ missed <= most
<1>1. PICK t \in Nat, a \in Nat : t = GroupTotal /\ a = amount
  BY TotalType, SplitsAssumption DEF SInv, TypeOK
<1>2. PICK n \in Nat : n = Cardinality(Sharing) /\ n > 0 /\ n <= MaxMembers
  BY SharersListed, FS_EmptySet
<1>3. PICK places : places = 1..n /\ IsFiniteSet(places)
  BY <1>2, FS_Interval
<1>4. PICK before : before = places \ {n} /\ before = 1..(n - 1) /\ before \in SUBSET places
  BY <1>2, <1>3
<1>5. n \in places /\ IsFiniteSet(before) /\ Cardinality(before) = n - 1
  <2>1. 1..(n - 1) = before /\ n - 1 \in Nat /\ n \in places
    BY <1>2, <1>3, <1>4
  <2>2. IsFiniteSet(1..(n - 1)) /\ Cardinality(1..(n - 1)) = n - 1
    BY <2>1, FS_Interval
  <2> QED
    BY <2>1, <2>2
<1>6. \A i \in places : Given[i] \in Int /\ Own[i] \in Int
  <2>1. \A i \in 1..n : Given[i] \in Int
    BY <1>2, GivenAre
  <2>2. \A i \in 1..n : Own[i] \in 0..t
    BY <1>1, <1>2, SharersTotal
  <2> QED
    BY <1>1, <1>3, <2>1, <2>2
<1>7. PICK g \in Int : g = SumOver(Given, before) /\ Given[n] = a - g
  <2>1. \A u \in SUBSET places : SumOver(Given, u) \in Int
    BY <1>3, <1>6, SumsOver
  <2>2. Given[n] = amount - SumOver(Given, 1..(n - 1))
    BY <1>2, GivenAre
  <2> QED
    BY <1>1, <1>4, <2>1, <2>2
<1>8. PICK c \in Int, x \in Int, s \in Int :
         /\ c = SumOver(Own, before) /\ x = Own[n] /\ s = SumOver(Own, places)
         /\ s = x + c
  <2>1. IsFiniteSet(places) /\ \A i \in places : Own[i] \in Int
    BY <1>3, <1>6
  <2>2. /\ SumOver(Own, places) \in Int
        /\ \A i \in places : /\ SumOver(Own, places) = Own[i] + SumOver(Own, places \ {i})
                             /\ SumOver(Own, places \ {i}) \in Int
    BY <2>1, SumsOver
  <2> QED
    BY <1>4, <1>5, <2>1, <2>2
<1>9. PICK e \in Int : e = t * Whole + a * t
  BY SMT DEF Whole
<1>10. PICK w \in Nat : w = 2 * Whole
  BY SMT DEF Whole
<1>11. -((n - 1) * e) <= w * (g * t - a * c) /\ w * (g * t - a * c) <= (n - 1) * e
  <2>1. ASSUME NEW i \in before
        PROVE  /\ -e <= w * (Given[i] * t - a * Own[i])
               /\ w * (Given[i] * t - a * Own[i]) <= e
    <3>1. i \in 1..Cardinality(Sharing) /\ i < Cardinality(Sharing)
      BY <1>2, <1>4
    <3> QED
      BY <1>1, <1>9, <1>10, <3>1, EarlierNear
  <2>2. \A i \in before : Given[i] \in Int /\ Own[i] \in Int
    BY <1>4, <1>6
  <2>3. LET missed == w * (SumOver(Given, before) * t - a * SumOver(Own, before))
        IN  -(Cardinality(before) * e) <= missed /\ missed <= Cardinality(before) * e
    <3>1. IsFiniteSet(before)
      BY <1>5
    <3>2. t \in Int /\ a \in Int /\ w \in Int
      OBVIOUS
    <3> QED
      BY <2>1, <2>2, <3>1, <3>2, ErrorsAdd
  <2> QED
    BY <1>5, <1>7, <1>8, <2>3
<1>12. PICK r \in Nat, d \in Nat :
          d = Departed /\ r = t - s - d /\ w * r <= (MaxMembers - n) * t
  BY <1>1, <1>2, <1>3, <1>8, <1>10, SharersTotal
<1>13. (a - g) * t - a * (x + d) = a * r - (g * t - a * c)
  <2>1. a * r = a * t - a * s - a * d /\ a * s = a * x + a * c /\ a * (x + d) = a * x + a * d
    BY <1>8, <1>12
  <2>2. (a - g) * t = a * t - g * t
    OBVIOUS
  <2> QED
    BY <2>1, <2>2
<1>14. PICK m \in Nat : m = MaxMembers /\ n <= m
  BY <1>2, SplitsAssumption
<1>15. 0 <= w * (a * r) /\ w * (a * r) <= (m - n) * (a * t)
  <2>1. PICK v \in Nat, z \in Int : v = w * r /\ z = (m - n) * t
    BY <1>14
  <2>2. a * v <= a * z
    BY <1>12, <1>14, <2>1
  <2>3. w * (a * r) = a * v /\ (m - n) * (a * t) = a * z
    BY <2>1
  <2> QED
    BY <2>1, <2>2, <2>3
<1>16. PICK p \in Int, q \in Int : p = g * t - a * c /\ q = a * r
  OBVIOUS
<1>17. w * (q - p) = w * q - w * p
  OBVIOUS
<1>18. PICK at \in Nat, nt \in Int : at = a * t /\ nt = (n - 1) * t
  OBVIOUS
<1>19. (n - 1) * e = nt * Whole + (n - 1) * at
  <2>1. (n - 1) * (t * Whole) = nt * Whole
    BY <1>18, SMT DEF Whole
  <2>2. PICK tw \in Int : tw = t * Whole
    BY SMT DEF Whole
  <2>3. (n - 1) * (tw + at) = (n - 1) * tw + (n - 1) * at
    OBVIOUS
  <2> QED
    BY <1>9, <1>18, <2>1, <2>2, <2>3
<1>20. ((m - 1) * a) * t = (m - 1) * at /\ (m - 1) * at = (m - n) * at + (n - 1) * at
  BY <1>18
<1>21. 0 <= (m - n) * at
  BY <1>14
<1>22. PICK wp \in Int, wq \in Int, nw \in Int, na \in Int, ma \in Int :
          wp = w * p /\ wq = w * q /\ nw = nt * Whole /\ na = (n - 1) * at /\ ma = (m - n) * at
  BY SMT DEF Whole
<1>23. -(nw + ma + na) <= wq - wp /\ wq - wp <= nw + ma + na
  BY <1>11, <1>15, <1>16, <1>18, <1>19, <1>21, <1>22
<1>24. w * (Given[n] * t - a * (Own[n] + d)) = wq - wp
  BY <1>7, <1>8, <1>13, <1>16, <1>17, <1>22
<1>25. (nt * Whole) + ((m - 1) * a) * t = nw + ma + na
  BY <1>20, <1>22
<1> QED
  BY <1>1, <1>2, <1>10, <1>12, <1>14, <1>18, <1>23, <1>24, <1>25

-----------------------------------------------------------------------------
\* Whoever has left and whenever shares were computed: the parts of a split follow the
\* active members' proportions of everything contributed, as closely as the roundings
\* allow, and the last one takes what those who have left would get.
THEOREM PartsAsShares == Spec => []PartsFollowShares
<1>1. ASSUME SInv PROVE PartsFollowShares
  <2>1. PICK t \in Nat, a \in Nat, m \in Nat : t = GroupTotal /\ a = amount /\ m = MaxMembers /\ m > 0
    BY <1>1, TotalType, SplitsAssumption DEF SInv, TypeOK
  <2>2. PICK n \in Nat : n = Cardinality(Sharing) /\ n = Len(Given)
    BY <1>1, SharersListed, GivenAre
  <2>3. n > 0 => SumFunction(Given) = a
    BY <1>1, <2>1, <2>2, GivenAre
  <2>5. ASSUME n = 0 PROVE ~((GroupTotal - Departed) * (2 * Whole) > MaxMembers * GroupTotal)
    <3>1. PICK s \in Nat, d \in Nat :
             /\ s = SumOver(Own, 1..n) /\ d = Departed
             /\ (2 * Whole) * (t - s - d) <= (m - n) * t
      BY <1>1, <2>1, <2>2, SharersTotal
    <3>2. s = 0
      BY <2>5, <3>1, SumOfFew
    <3>3. PICK w \in Nat : w = 2 * Whole
      BY SMT DEF Whole
    <3>4. w * (t - d) <= m * t
      BY <2>5, <3>1, <3>2, <3>3
    <3>5. (t - d) * w = w * (t - d) /\ (t - d) * w \in Int /\ m * t \in Int
      BY <3>1
    <3>6. ~((t - d) * w > m * t)
      BY <3>4, <3>5
    <3> QED
      BY <2>1, <3>1, <3>3, <3>6
  <2>4. ASSUME NEW i \in 1..n
        PROVE  Error(i) <= IF i < n THEN t + Coarse(1) ELSE (n - 1) * t + Coarse(m - 1)
    <3>1. PICK x \in Nat, d \in Int : x = Basis(i) /\ d = Given[i] * t - a * x
      <4>1. Given[i] \in Int /\ Own[i] \in 0..t /\ Departed \in Nat
        BY <1>1, <2>1, <2>2, GivenAre, SharersTotal
      <4>2. Basis(i) \in Nat
        BY <1>1, <2>2, <4>1, BasisIs
      <4> QED
        BY <4>1, <4>2
    <3>2. Error(i) = 2 * (IF d < 0 THEN -d ELSE d)
      BY <2>1, <3>1 DEF Error
    <3>3. CASE i < n
      <4>1. PICK y \in Nat : y = a * t
        OBVIOUS
      <4>2. Coarse(1) = y \div Whole
        BY <2>1, <4>1 DEF Coarse
      <4>2a. d = Given[i] * t - a * Own[i]
        <5>1. Own[i] \in 0..t /\ x = Own[i] + 0
          BY <1>1, <2>1, <2>2, <3>1, <3>3, BasisIs, SharersTotal
        <5> QED
          BY <3>1, <5>1
      <4>3. -(t * Whole + y) <= (2 * Whole) * d /\ (2 * Whole) * d <= t * Whole + y
        BY <1>1, <2>1, <2>2, <3>1, <3>3, <4>2a, <4>1, EarlierNear
      <4>4. Error(i) <= t + y \div Whole
        BY <3>2, <4>3, Measured
      <4> QED
        BY <3>3, <4>2, <4>4
    <3>4. CASE ~(i < n)
      <4>1. i = n /\ n > 0 /\ n - 1 \in Nat /\ m - 1 \in Nat
        BY <2>1, <3>4
      <4>2. PICK y \in Nat, k \in Nat : y = ((m - 1) * a) * t /\ k = (n - 1) * t
        BY <4>1
      <4>3. Coarse(m - 1) = y \div Whole
        BY <2>1, <4>2 DEF Coarse
      <4>4. Sharing # {}
        <5>1. Cardinality({}) = 0
          BY FS_EmptySet
        <5>2. ASSUME Sharing = {} PROVE n = 0
          BY <2>2, <5>1, <5>2, Zenon
        <5> QED
          BY <4>1, <5>2
      <4>4a. d = Given[n] * t - a * (Own[n] + Departed)
        BY <1>1, <2>1, <2>2, <3>1, <4>1, BasisIs
      <4>5. -(k * Whole + y) <= (2 * Whole) * d /\ (2 * Whole) * d <= k * Whole + y
        BY <1>1, <2>1, <2>2, <4>4a, <4>1, <4>2, <4>4, LastNear
      <4>6. Error(i) <= k + y \div Whole
        BY <3>2, <4>5, Measured
      <4> QED
        BY <3>4, <4>2, <4>3, <4>6
    <3> QED
      BY <3>3, <3>4
  <2> QED
    BY <2>1, <2>2, <2>3, <2>4, <2>5 DEF PartsFollowShares
<1> QED
  BY <1>1, SharesStayCurrent, PTL

\* Two parts of three leave something for the third one: with less than 10 000.00 in all,
\* its percentage of at least 0.0001 % is not rounded away from it.
LEMMA TwoLeaveRoom ==
    ASSUME NEW t \in Nat \ {0}, t < Whole, NEW a \in Nat \ {0},
           NEW x \in 0..t, NEW y \in 0..t, x + y < t
    PROVE  ShareOf(a, Percentage(x, t)) + ShareOf(a, Percentage(y, t)) <= a
<1>1. t \in Nat \ {0} /\ t < Whole
  OBVIOUS
<1>2. PICK p \in Nat, q \in Nat :
         /\ p = Percentage(x, t) /\ p <= Whole /\ q = Percentage(y, t) /\ q <= Whole
         /\ (2 * t) * p <= 2 * (x * Whole) + t /\ (2 * t) * q <= 2 * (y * Whole) + t
  BY <1>1, PercentageNear
<1>3. p + q <= Whole - 1
  <2>1. ASSUME p + q >= Whole PROVE FALSE
    <3>1. PICK tp \in Int, tq \in Int : tp = t * p /\ tq = t * q
      OBVIOUS
    <3>2. tp + tq >= t * Whole
      <4>1. t * (p + q) >= t * Whole
        BY <1>1, <2>1, SMT DEF Whole
      <4>2. t * (p + q) = tp + tq
        BY <3>1
      <4> QED
        BY <4>1, <4>2
    <3>3. 2 * tp <= 2 * (x * Whole) + t /\ 2 * tq <= 2 * (y * Whole) + t
      <4>1. (2 * t) * p = 2 * tp /\ (2 * t) * q = 2 * tq
        BY <3>1
      <4> QED
        BY <1>2, <4>1
    <3> QED
      BY <1>1, <3>2, <3>3, SMT DEF Whole
  <2> QED
    BY <1>2, <2>1, SMT DEF Whole
<1>4. PICK g \in Nat, h \in Nat :
         /\ g = ShareOf(a, p) /\ h = ShareOf(a, q)
         /\ (2 * Whole) * g <= 2 * (a * p) + Whole /\ (2 * Whole) * h <= 2 * (a * q) + Whole
  BY <1>2, ShareNear
<1>5. a * p + a * q <= a * (Whole - 1)
  <2>1. a * (p + q) <= a * (Whole - 1)
    BY <1>3, SMT DEF Whole
  <2>2. a * (p + q) = a * p + a * q
    OBVIOUS
  <2> QED
    BY <2>1, <2>2
<1>6. PICK ap \in Int, aq \in Int : ap = a * p /\ aq = a * q
  OBVIOUS
<1>7. g + h <= a
  BY <1>4, <1>5, <1>6, SMT DEF Whole
<1> QED
  BY <1>2, <1>4, <1>7

\* Up to three members get no debts.
THEOREM FewHaveNoDebt == Spec => []FewGetNoDebt
<1>1. ASSUME SInv, Len(Given) <= 3, GroupTotal < Whole, NEW i \in DOMAIN Given
      PROVE  Given[i] >= 0
  <2>1. PICK t \in Nat, a \in Nat \ {0} : t = GroupTotal /\ a = amount
    BY <1>1, TotalType, SplitsAssumption DEF SInv, TypeOK
  <2>2. PICK n \in Nat : n = Cardinality(Sharing) /\ n = Len(Given) /\ n <= 3
    BY <1>1, SharersListed, GivenAre
  <2>3. DOMAIN Given = 1..n /\ i \in 1..n
    BY <1>1, <2>2, GivenAre
  <2>4. \A k \in 1..n : Own[k] \in 0..t /\ Own[k] # 0
    BY <1>1, <2>1, <2>2, SharersTotal
  <2>5. t # 0
    BY <2>3, <2>4
  <2>6. ASSUME NEW k \in 1..n, k < n
        PROVE  /\ Given[k] = ShareOf(a, Percentage(Own[k], t))
               /\ Given[k] \in Nat /\ Given[k] <= a
    <3>1. PICK x \in 0..t : x = Own[k]
      BY <2>4
    <3>2. PICK p \in Nat : p = Percentage(x, t) /\ p <= Whole
      BY <2>5, PercentageNear
    <3>3. ShareOf(a, p) \in Nat /\ ShareOf(a, p) <= a
      BY <3>2, ShareNear
    <3>4. Given[k] = ShareOf(a, Percentage(Own[k], t))
      BY <1>1, <2>1, <2>2, <2>6, GivenAre
    <3> QED
      BY <3>1, <3>2, <3>3, <3>4
  <2>7. Given[n] = a - SumOver(Given, 1..(n - 1))
    BY <1>1, <2>1, <2>2, <2>3, GivenAre
  <2>8. CASE i < n
    BY <2>3, <2>6, <2>8
  <2>9. CASE i = n /\ n = 1
    <3>1. SumOver(Given, 1..(n - 1)) = 0
      <4>1. n - 1 = 0
        BY <2>9
      <4> QED
        BY <4>1, SumOfFew
    <3> QED
      BY <2>7, <2>9, <3>1
  <2>10. CASE i = n /\ n = 2
    <3>1. SumOver(Given, 1..(n - 1)) = Given[1]
      <4>1. n - 1 = 1 /\ Given[1] \in Int
        BY <2>6, <2>10
      <4> QED
        BY <4>1, SumOfFew
    <3>2. Given[1] \in Nat /\ Given[1] <= a
      BY <2>6, <2>10
    <3> QED
      BY <2>7, <2>10, <3>1, <3>2
  <2>11. CASE i = n /\ n = 3
    <3>1. /\ Given[1] \in Nat /\ Given[1] = ShareOf(a, Percentage(Own[1], t))
          /\ Given[2] \in Nat /\ Given[2] = ShareOf(a, Percentage(Own[2], t))
      BY <2>6, <2>11
    <3>2. SumOver(Given, 1..(n - 1)) = Given[1] + Given[2]
      <4>1. n - 1 = 2 /\ Given[1] \in Int /\ Given[2] \in Int
        BY <2>11, <3>1
      <4> QED
        BY <4>1, SumOfFew
    <3>3. PICK x \in 0..t, y \in 0..t : x = Own[1] /\ y = Own[2] /\ x + y < t
      <4>1. PICK x \in 0..t, y \in 0..t, z \in 0..t : x = Own[1] /\ y = Own[2] /\ z = Own[3] /\ z # 0
        BY <2>4, <2>11
      <4>2. SumOver(Own, 1..n) = x + y + z
        <5>1. Own[1] \in Int /\ Own[2] \in Int /\ Own[3] \in Int
          BY <4>1
        <5> QED
          BY <2>11, <4>1, <5>1, SumOfFew
      <4>3. SumOver(Own, 1..n) \in 0..t
        BY <1>1, <2>1, <2>2, SharersTotal
      <4> QED
        BY <4>1, <4>2, <4>3
    <3>4. ShareOf(a, Percentage(x, t)) + ShareOf(a, Percentage(y, t)) <= a
      <4>1. t \in Nat \ {0} /\ t < Whole
        BY <1>1, <2>1, <2>5
      <4> QED
        BY <3>3, <4>1, TwoLeaveRoom
    <3> QED
      BY <2>7, <2>11, <3>1, <3>2, <3>3, <3>4
  <2> QED
    BY <2>2, <2>3, <2>8, <2>9, <2>10, <2>11
<1>2. SInv => FewGetNoDebt
  BY <1>1 DEF FewGetNoDebt
<1> QED
  BY <1>2, SharesStayCurrent, PTL
=============================================================================
