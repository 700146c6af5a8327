---------------------------- MODULE LedgerProofs ----------------------------
(***************************************************************************)
(* Proofs about Ledger, for any requests, members, vaults, contributions,  *)
(* rules and amounts: the balance of every vault is the sum of its rows,   *)
(* distributions are whole, no contribution stays undistributed, debits of *)
(* entries are covered, and Ledger implements Journal.                     *)
(***************************************************************************)
EXTENDS Ledger, AmountTheorems

-----------------------------------------------------------------------------
(* Percentages *)

\* Percentages of what naturals add up to.
LEMMA PercentageType ==
    ASSUME NEW seen \in [Members -> Nat], NEW m \in Members
    PROVE  MemberPercentage(seen, m) \in Int
<1>1. SumFunction(seen) \in Nat
  BY LedgerAssumption, SumTypes
<1>2. seen[m] * Whole \in Int
  BY DEF Whole
<1> QED
  BY <1>1, <1>2, RoundType DEF MemberPercentage, Percentage

-----------------------------------------------------------------------------
(* The rows of rules *)

\* Where an amount goes, and in which proportions.
Destinations == (Vaults \cup {EveryMember}) \X Int

\* The rows that pass something of kind k, for c, to vaults.
Passing(k, c) ==
    {e \in Row : /\ e.sourceType = k /\ e.source = c /\ e.reverses = 0
                 /\ e.direction = IF k = "PROJECT_EXPENSE" THEN "DEBIT" ELSE "CREDIT"}

\* The rows of a rule.
LEMMA RuleEntriesType ==
    ASSUME NEW to \in Seq(Destinations), NEW a \in Int, NEW k \in SourceTypes,
           NEW c \in Contributions \cup {NoContribution}
    PROVE  RuleEntries(to, a, k, c) \in Seq(Row) /\ RuleEntries(to, a, k, c) \in Seq(Passing(k, c))
<1> DEFINE destinations == [i \in DOMAIN to |-> to[i][1]]
           percentages == [i \in DOMAIN to |-> to[i][2]]
           parts == Parts(a, percentages)
           nonzero == {i \in DOMAIN parts : parts[i] # 0}
           row(i) == [vault |-> destinations[i],
                      direction |-> IF k = "PROJECT_EXPENSE" THEN "DEBIT" ELSE "CREDIT",
                      amount |-> parts[i], sourceType |-> k, source |-> c, reverses |-> 0]
<1>1. \A i \in DOMAIN to : to[i][1] \in Vaults \cup {EveryMember} /\ to[i][2] \in Int
  BY DEF Destinations
<1>2. percentages \in Seq(Int) /\ Len(percentages) = Len(to) /\ Len(to) \in Nat
  BY <1>1
<1>3. DOMAIN parts = 1..Len(to) /\ \A i \in 1..Len(to) : parts[i] \in Int
  <2> HIDE DEF percentages
  <2> QED
    BY <1>2, PartsType
<1>4. \A i \in DOMAIN parts : row(i) \in Row /\ row(i) \in Passing(k, c)
  <2>1. \A i \in DOMAIN parts : destinations[i] \in Vaults \cup {EveryMember} /\ parts[i] \in Int
    BY <1>1, <1>2, <1>3
  <2> HIDE DEF destinations, parts
  <2> QED
    BY <2>1 DEF Row, Passing
<1>5. IsFiniteSet(nonzero) /\ nonzero \subseteq Nat
  <2> HIDE DEF parts
  <2>1. nonzero \subseteq 1..Len(to) /\ 1..Len(to) \subseteq Nat
    BY <1>2, <1>3
  <2>2. IsFiniteSet(1..Len(to))
    BY <1>2, FS_Interval
  <2> QED
    BY <2>1, <2>2, FS_Subset
<1>6. /\ Cardinality(nonzero) \in Nat /\ DOMAIN InOrder(nonzero) = 1..Cardinality(nonzero)
      /\ \A n \in 1..Cardinality(nonzero) : InOrder(nonzero)[n] \in DOMAIN parts
  <2> HIDE DEF parts
  <2> QED
    BY <1>5, InOrderType
<1>7. RuleEntries(to, a, k, c) =
        [n \in DOMAIN InOrder(nonzero) |-> row(InOrder(nonzero)[n])]
  BY DEF RuleEntries, Entries
<1>8. /\ RuleEntries(to, a, k, c) \in [1..Cardinality(nonzero) -> Row]
      /\ RuleEntries(to, a, k, c) \in [1..Cardinality(nonzero) -> Passing(k, c)]
  <2> HIDE DEF nonzero, row, parts
  <2> QED
    BY <1>4, <1>6, <1>7
<1> HIDE DEF nonzero
<1> QED
  BY <1>6, <1>8

\* A rule has destinations, since its percentages add up to the whole.
LEMMA RulesHaveDestinations ==
    ASSUME NEW n \in RuleIds
    PROVE  Rules[n] \in Seq(Destinations) /\ Rules[n] # <<>>
<1>1. Rules[n] \in Seq(Destinations)
  <2>1. Rules[n] \in Seq((Vaults \cup {EveryMember}) \X (0..Whole))
    BY LedgerAssumption DEF RuleIds
  <2>2. (Vaults \cup {EveryMember}) \X (0..Whole) \subseteq Destinations
    BY DEF Destinations
  <2> QED
    BY <2>1, <2>2
<1>2. SumFunction([d \in DOMAIN Rules[n] |-> Rules[n][d][2]]) # 0
  <2>1. SumFunction([d \in DOMAIN Rules[n] |-> Rules[n][d][2]]) = Whole
    BY LedgerAssumption DEF RuleIds
  <2>2. Whole # 0
    BY SMT DEF Whole
  <2> QED
    BY <2>1, <2>2
<1>3. ASSUME Rules[n] = <<>>
      PROVE  FALSE
  <2>1. DOMAIN [d \in DOMAIN Rules[n] |-> Rules[n][d][2]] = {}
    BY <1>3
  <2> QED
    BY <1>2, <2>1, SumNothing
<1> QED
  BY <1>1, <1>3

\* f joins the rows of the rules in a set, one rule after the other.
Joins(f, rules, k, a, c) ==
    /\ f[0] = <<>>
    /\ \A m \in Nat : m + 1 <= Len(Rules) =>
          f[m + 1] = f[m] \o IF m + 1 \in rules THEN RuleEntries(Rules[m + 1], a, k, c) ELSE <<>>

LEMMA AllEntriesJoined ==
    ASSUME NEW rules, NEW k, NEW a, NEW c
    PROVE  \E f : Joins(f, rules, k, a, c) /\ f[Len(Rules)] = AllEntries(rules, k, a, c)
<1> DEFINE N == Len(Rules)
           Of(n) == IF n \in rules THEN RuleEntries(Rules[n], a, k, c) ELSE <<>>
           Joined(g, m) == g = [n \in 0..m |-> IF n = 0 THEN <<>> ELSE g[n - 1] \o Of(n)]
<1>0. N \in Nat
  BY LedgerAssumption
<1>1. PICK T : T = {m \in Nat : \E g : Joined(g, m)}
  OBVIOUS
<1>2. 0 \in T
  <2>1. Joined([n \in 0..0 |-> <<>>], 0)
    OBVIOUS
  <2> QED
    BY <1>1, <2>1
<1>3. ASSUME NEW m \in Nat, m \in T
      PROVE  m + 1 \in T
  <2>1. PICK g : Joined(g, m)
    BY <1>1, <1>3
  <2>2. PICK h : h = [n \in 0..(m + 1) |-> IF n = 0 THEN <<>> ELSE g[n - 1] \o Of(n)]
    OBVIOUS
  <2> HIDE DEF Of
  <2>3. ASSUME NEW n \in 0..m
        PROVE  h[n] = g[n]
    <3>1. n \in 0..(m + 1)
      OBVIOUS
    <3> QED
      BY <2>1, <2>2, <3>1
  <2>4. ASSUME NEW n \in 0..(m + 1), n # 0
        PROVE  h[n - 1] = g[n - 1]
    <3>1. n - 1 \in 0..m
      BY <2>4
    <3> QED
      BY <2>3, <3>1
  <2>5. \A n \in 0..(m + 1) : (IF n = 0 THEN <<>> ELSE g[n - 1] \o Of(n)) =
                              (IF n = 0 THEN <<>> ELSE h[n - 1] \o Of(n))
    BY <2>4
  <2>6. Joined(h, m + 1)
    BY <2>2, <2>5
  <2> HIDE DEF Joined
  <2> QED
    BY <1>1, <2>6
<1>4. N \in T
  <2> HIDE DEF Joined
  <2>1. Nat \subseteq T
    BY <1>2, <1>3, Induction
  <2> QED
    BY <1>0, <2>1
<1>5. PICK g : Joined(g, N)
  <2> HIDE DEF Joined
  <2> QED
    BY <1>1, <1>4
<1>6. PICK f : f = CHOOSE h : Joined(h, N)
  OBVIOUS
<1>7. AllEntries(rules, k, a, c) = f[N]
  BY <1>6 DEF AllEntries
<1>8. Joined(f, N)
  BY <1>5, <1>6
<1> HIDE DEF Of
<1>9. f[0] = <<>>
  BY <1>0, <1>8
<1>10. ASSUME NEW m \in Nat, m + 1 <= N
       PROVE  f[m + 1] = f[m] \o Of(m + 1)
  <2>1. m + 1 \in 0..N /\ m + 1 # 0 /\ (m + 1) - 1 = m
    BY <1>0, <1>10
  <2>2. \A n \in 0..N : f[n] = IF n = 0 THEN <<>> ELSE f[n - 1] \o Of(n)
    BY <1>8
  <2>3. f[m + 1] = f[(m + 1) - 1] \o Of(m + 1)
    BY <2>1, <2>2
  <2> QED
    BY <2>1, <2>3
<1>11. Joins(f, rules, k, a, c)
  BY <1>9, <1>10 DEF Joins, Of
<1> QED
  BY <1>7, <1>11

\* The rows of several rules.
LEMMA AllEntriesType ==
    ASSUME NEW rules, NEW k \in SourceTypes, NEW a \in Int,
           NEW c \in Contributions \cup {NoContribution}
    PROVE  AllEntries(rules, k, a, c) \in Seq(Row) /\ AllEntries(rules, k, a, c) \in Seq(Passing(k, c))
<1> DEFINE N == Len(Rules)
           Of(n) == IF n \in rules THEN RuleEntries(Rules[n], a, k, c) ELSE <<>>
<1>0. N \in Nat
  BY LedgerAssumption
<1>1. \A n \in 1..N : Of(n) \in Seq(Passing(k, c))
  <2>1. ASSUME NEW n \in 1..N
        PROVE  RuleEntries(Rules[n], a, k, c) \in Seq(Passing(k, c))
    <3>1. Rules[n] \in Seq(Destinations)
      BY RulesHaveDestinations, LedgerAssumption DEF RuleIds
    <3> QED
      BY <3>1, RuleEntriesType
  <2> QED
    BY <2>1
<1>2. PICK f : Joins(f, rules, k, a, c) /\ f[N] = AllEntries(rules, k, a, c)
  BY AllEntriesJoined
<1>3. PICK S : S = {m \in Nat : m <= N => f[m] \in Seq(Passing(k, c))}
  OBVIOUS
<1>4. 0 \in S
  <2>1. f[0] = <<>> /\ <<>> \in Seq(Passing(k, c))
    BY <1>2 DEF Joins
  <2> QED
    BY <1>3, <2>1
<1>5. ASSUME NEW m \in Nat, m \in S
      PROVE  m + 1 \in S
  <2>1. ASSUME m + 1 <= N
        PROVE  f[m + 1] \in Seq(Passing(k, c))
    <3>1. f[m] \in Seq(Passing(k, c)) /\ Of(m + 1) \in Seq(Passing(k, c))
      BY <1>0, <1>1, <1>3, <1>5, <2>1
    <3>2. f[m + 1] = f[m] \o Of(m + 1)
      BY <1>2, <2>1 DEF Joins
    <3> HIDE DEF Of
    <3> QED
      BY <3>1, <3>2
  <2> QED
    BY <1>3, <2>1
<1>6. N \in S
  BY <1>0, <1>4, <1>5, Induction
<1>7. AllEntries(rules, k, a, c) \in Seq(Passing(k, c))
  BY <1>0, <1>2, <1>3, <1>6
<1>8. Passing(k, c) \subseteq Row
  BY DEF Passing
<1> QED
  BY <1>7, <1>8

\* The members' shares, as request r sees them.
LEMMA MemberSharesType ==
    ASSUME TypeOK, NEW r \in Requests
    PROVE  MemberShares(r) \in Seq(Destinations)
<1> DEFINE seen == [m \in Members |-> Visible(shares, newShares, shareLock, m, r)]
           percentage == [m \in Members |-> MemberPercentage(seen, m)]
           having == {m \in Members : percentage[m] # 0}
<1>1. seen \in [Members -> Nat]
  BY DEF TypeOK, Visible
<1>2. Members \subseteq Nat /\ IsFiniteSet(Members)
  <2>1. IsFiniteSet(Members) /\ Members = 1..Cardinality(Members)
    BY LedgerAssumption
  <2>2. Cardinality(Members) \in Nat
    BY <2>1, FS_CardinalityType
  <2> QED
    BY <2>1, <2>2
<1>3. having \subseteq Members /\ IsFiniteSet(having)
  <2>1. having \subseteq Members
    OBVIOUS
  <2> QED
    BY <1>2, <2>1, FS_Subset
<1>4. /\ Cardinality(having) \in Nat /\ DOMAIN InOrder(having) = 1..Cardinality(having)
      /\ \A n \in 1..Cardinality(having) : InOrder(having)[n] \in Members
  <2> HIDE DEF having
  <2> QED
    BY <1>2, <1>3, InOrderType
<1>5. ASSUME NEW m \in Members
      PROVE  <<Pocket[m], percentage[m]>> \in Destinations
  <2>1. Pocket[m] \in Vaults
    BY LedgerAssumption
  <2>2. MemberPercentage(seen, m) \in Int
    <3> HIDE DEF seen
    <3> QED
      BY <1>1, PercentageType
  <2> QED
    BY <2>1, <2>2 DEF Destinations
<1>6. MemberShares(r) =
        [i \in DOMAIN InOrder(having) |->
            <<Pocket[InOrder(having)[i]], percentage[InOrder(having)[i]]>>]
  BY DEF MemberShares, Sharers
<1>7. MemberShares(r) \in [1..Cardinality(having) -> Destinations]
  <2> HIDE DEF having, percentage, seen
  <2> QED
    BY <1>4, <1>5, <1>6
<1> HIDE DEF having
<1> QED
  BY <1>4, <1>7

\* The row that offsets another one.
LEMMA OffsetType ==
    ASSUME TypeOK, NEW i \in DOMAIN rows
    PROVE  Offset(i) \in Row
<1>1. rows[i] \in Row /\ i \in Nat
  BY DEF TypeOK
<1> QED
  BY <1>1 DEF Offset, Mirror, Row

-----------------------------------------------------------------------------
(* What rows do to a balance *)

\* A row adds to the balance of its vault, whichever rows come before it and after it.
LEMMA NetOfRows ==
    ASSUME NEW x, NEW s \in Seq(Row)
    PROVE  /\ Net(x, s) \in Int
           /\ (\A i \in DOMAIN s : s[i].vault # x) => Net(x, s) = 0
           /\ \A e \in Row : Net(x, Append(s, e)) =
                                Net(x, s) + IF e.vault = x THEN Delta(e) ELSE 0
           /\ \A t \in Seq(Row) : Net(x, s \o t) = Net(x, s) + Net(x, t)
<1> DEFINE flow == [e \in Row |-> IF e.vault = x THEN Delta(e) ELSE 0]
<1>1. flow \in [Row -> Int] /\ \A e \in Row : flow[e] = IF e.vault = x THEN Delta(e) ELSE 0
  BY DEF Row, Delta
<1>2. ASSUME NEW t \in Seq(Row)
      PROVE  Net(x, t) = Along(flow, t)
  <2>1. \A i \in DOMAIN t : t[i] \in Row
    OBVIOUS
  <2> HIDE DEF flow
  <2>2. \A i \in DOMAIN t : flow[t[i]] = IF t[i].vault = x THEN Delta(t[i]) ELSE 0
    BY <1>1, <2>1
  <2> QED
    BY <2>2 DEF Net, Along
<1> HIDE DEF flow
<1>3. /\ Along(flow, s) \in Int
      /\ (\A i \in DOMAIN s : flow[s[i]] = 0) => Along(flow, s) = 0
      /\ \A e \in Row : Along(flow, Append(s, e)) = Along(flow, s) + flow[e]
      /\ \A t \in Seq(Row) : Along(flow, s \o t) = Along(flow, s) + Along(flow, t)
  BY <1>1, SumAlong
<1>4. ASSUME \A i \in DOMAIN s : s[i].vault # x
      PROVE  \A i \in DOMAIN s : flow[s[i]] = 0
  <2>1. \A i \in DOMAIN s : s[i] \in Row
    OBVIOUS
  <2> QED
    BY <1>1, <1>4, <2>1
<1>5. /\ \A e \in Row : Append(s, e) \in Seq(Row)
      /\ \A t \in Seq(Row) : s \o t \in Seq(Row)
  OBVIOUS
<1> QED
  BY <1>1, <1>2, <1>3, <1>4, <1>5

-----------------------------------------------------------------------------
(* Distributions are whole *)

\* A row posts its amount for its contribution, whichever rows come before it and after it.
LEMMA PostedOfRows ==
    ASSUME NEW c, NEW s \in Seq(Row)
    PROVE  /\ Posted(c, s) \in Int
           /\ (\A i \in DOMAIN s : s[i].source # c) => Posted(c, s) = 0
           /\ \A e \in Row : Posted(c, Append(s, e)) =
                                Posted(c, s) + IF e.source = c THEN e.amount ELSE 0
           /\ \A t \in Seq(Row) : Posted(c, s \o t) = Posted(c, s) + Posted(c, t)
           /\ s # <<>> => Posted(c, s) = (IF Head(s).source = c THEN Head(s).amount ELSE 0)
                                            + Posted(c, Tail(s))
<1> DEFINE post == [e \in Row |-> IF e.source = c THEN e.amount ELSE 0]
<1>1. post \in [Row -> Int] /\ \A e \in Row : post[e] = IF e.source = c THEN e.amount ELSE 0
  BY DEF Row
<1>2. ASSUME NEW t \in Seq(Row)
      PROVE  Posted(c, t) = Along(post, t)
  <2>1. \A i \in DOMAIN t : t[i] \in Row
    OBVIOUS
  <2> HIDE DEF post
  <2>2. \A i \in DOMAIN t : post[t[i]] = IF t[i].source = c THEN t[i].amount ELSE 0
    BY <1>1, <2>1
  <2> QED
    BY <2>2 DEF Posted, Along
<1> HIDE DEF post
<1>3. /\ Along(post, s) \in Int
      /\ (\A i \in DOMAIN s : post[s[i]] = 0) => Along(post, s) = 0
      /\ \A e \in Row : Along(post, Append(s, e)) = Along(post, s) + post[e]
      /\ \A t \in Seq(Row) : Along(post, s \o t) = Along(post, s) + Along(post, t)
      /\ s # <<>> => Along(post, s) = post[Head(s)] + Along(post, Tail(s))
  BY <1>1, SumAlong
<1>4. ASSUME \A i \in DOMAIN s : s[i].source # c
      PROVE  \A i \in DOMAIN s : post[s[i]] = 0
  <2>1. \A i \in DOMAIN s : s[i] \in Row
    OBVIOUS
  <2> QED
    BY <1>1, <1>4, <2>1
<1>5. /\ \A e \in Row : Append(s, e) \in Seq(Row)
      /\ \A t \in Seq(Row) : s \o t \in Seq(Row)
      /\ s # <<>> => Tail(s) \in Seq(Row) /\ Head(s) \in Row
  OBVIOUS
<1> QED
  BY <1>1, <1>2, <1>3, <1>4, <1>5

\* The rows of a rule post the whole amount.
LEMMA RuleEntriesPost ==
    ASSUME NEW to \in Seq(Destinations), to # <<>>, NEW a \in Int, NEW k \in SourceTypes,
           NEW c \in Contributions \cup {NoContribution}
    PROVE  Posted(c, RuleEntries(to, a, k, c)) = a
<1> DEFINE destinations == [i \in DOMAIN to |-> to[i][1]]
           percentages == [i \in DOMAIN to |-> to[i][2]]
           row(d, x) == [vault |-> d,
                         direction |-> IF k = "PROJECT_EXPENSE" THEN "DEBIT" ELSE "CREDIT",
                         amount |-> x, sourceType |-> k, source |-> c, reverses |-> 0]
<1>1. PICK parts : parts = Parts(a, percentages)
  OBVIOUS
<1>2. percentages \in Seq(Int) /\ percentages # <<>> /\ Len(percentages) \in Nat
  BY DEF Destinations
<1>3. /\ DOMAIN parts = 1..Len(percentages) /\ \A i \in DOMAIN parts : parts[i] \in Int
      /\ SumFunction(parts) = a
  <2> HIDE DEF percentages
  <2> QED
    BY <1>1, <1>2, PartsType, PartsSum
<1>4. PICK nonzero : nonzero = {i \in DOMAIN parts : parts[i] # 0}
  OBVIOUS
<1>5. /\ IsFiniteSet(DOMAIN parts) /\ IsFiniteSet(nonzero)
      /\ nonzero \subseteq DOMAIN parts /\ nonzero \subseteq Nat
  <2>1. nonzero \subseteq DOMAIN parts /\ DOMAIN parts \subseteq Nat
    BY <1>2, <1>3, <1>4
  <2>2. IsFiniteSet(DOMAIN parts)
    BY <1>2, <1>3, FS_Interval
  <2> QED
    BY <2>1, <2>2, FS_Subset
<1>6. PICK order : order = InOrder(nonzero)
  OBVIOUS
<1>7. PICK n \in Nat : n = Cardinality(nonzero)
  BY <1>5, FS_CardinalityType
<1>8. /\ order \in [1..n -> nonzero] /\ \A i, j \in 1..n : order[i] = order[j] => i = j
      /\ \A x \in nonzero : \E i \in 1..n : order[i] = x
  BY <1>5, <1>6, <1>7, InOrderLists
<1>9. PICK s : s = RuleEntries(to, a, k, c)
  OBVIOUS
<1>10. s = [i \in 1..n |-> row(destinations[order[i]], parts[order[i]])]
  <2>1. s = [i \in DOMAIN order |-> row(destinations[order[i]], parts[order[i]])]
    BY <1>1, <1>4, <1>6, <1>9 DEF RuleEntries, Entries
  <2>2. DOMAIN order = 1..n
    BY <1>8
  <2> HIDE DEF destinations, row
  <2> QED
    BY <2>1, <2>2
<1>11. Posted(c, s) = SumFunction([i \in 1..n |-> parts[order[i]]])
  <2>1. DOMAIN s = 1..n /\ \A i \in 1..n : s[i].source = c /\ s[i].amount = parts[order[i]]
    BY <1>10
  <2> HIDE DEF row, destinations
  <2>2. [i \in DOMAIN s |-> IF s[i].source = c THEN s[i].amount ELSE 0] =
        [i \in 1..n |-> parts[order[i]]]
    BY <2>1
  <2> QED
    BY <2>2 DEF Posted
<1> HIDE DEF row, destinations, percentages
<1>12. SumFunction([i \in 1..n |-> parts[order[i]]]) = SumOver(parts, nonzero)
  <2>1. PICK places : places = 1..n
    OBVIOUS
  <2>2. IsFiniteSet(places) /\ \A i \in nonzero : parts[i] \in Int
    BY <1>3, <1>5, <1>7, <2>1, FS_Interval
  <2>3. order \in Bijection(places, nonzero)
    BY <1>8, <2>1 DEF Bijection, Injection, Surjection, IsInjective
  <2>4. PICK g : g = [i \in places |-> parts[order[i]]]
    OBVIOUS
  <2>5. \A i \in places : g[i] = parts[order[i]]
    BY <2>4
  <2>6. SumOver(g, places) = SumOver(parts, nonzero)
    BY <1>5, <2>2, <2>3, <2>5, SumRenamed
  <2>7. SumOver(g, places) = SumFunction([i \in places |-> parts[order[i]]])
    BY <2>5 DEF SumOver
  <2> QED
    BY <2>1, <2>6, <2>7
<1>13. SumOver(parts, nonzero) = SumOver(parts, DOMAIN parts)
  <2>1. nonzero \in SUBSET DOMAIN parts /\ \A i \in DOMAIN parts \ nonzero : parts[i] = 0
    BY <1>4
  <2> QED
    BY <1>3, <1>5, <2>1, SumOfOthers
<1>14. SumOver(parts, DOMAIN parts) = SumFunction(parts)
  <2>1. parts = [i \in DOMAIN parts |-> parts[i]]
    BY <1>1 DEF Parts
  <2> QED
    BY <2>1 DEF SumOver
<1> QED
  BY <1>3, <1>9, <1>11, <1>12, <1>13, <1>14

\* The rows of several rules post the whole amount once for each of them.
LEMMA AllEntriesPost ==
    ASSUME NEW rules \in SUBSET RuleIds, NEW k \in SourceTypes, NEW a \in Int,
           NEW c \in Contributions \cup {NoContribution}
    PROVE  Posted(c, AllEntries(rules, k, a, c)) = a * Cardinality(rules)
<1> DEFINE N == Len(Rules)
           Of(n) == IF n \in rules THEN RuleEntries(Rules[n], a, k, c) ELSE <<>>
           first(m) == {n \in rules : n <= m}
<1>0. N \in Nat /\ RuleIds = 1..N /\ IsFiniteSet(RuleIds)
  <2>1. N \in Nat /\ RuleIds = 1..N
    BY LedgerAssumption DEF RuleIds
  <2> QED
    BY <2>1, FS_Interval
<1>1. PICK f : Joins(f, rules, k, a, c) /\ f[N] = AllEntries(rules, k, a, c)
  BY AllEntriesJoined
<1>2. PICK S : S = {m \in Nat : m <= N =>
                      f[m] \in Seq(Row) /\ Posted(c, f[m]) = a * Cardinality(first(m))}
  OBVIOUS
<1>3. 0 \in S
  <2>1. f[0] = <<>> /\ <<>> \in Seq(Row)
    BY <1>1 DEF Joins
  <2>2. Posted(c, <<>>) = 0
    <3>1. \A i \in DOMAIN <<>> : <<>>[i].source # c
      OBVIOUS
    <3> QED
      BY <2>1, <3>1, PostedOfRows
  <2>3. first(0) = {}
    <3>1. \A n \in rules : n \in Nat /\ n # 0
      BY <1>0
    <3>2. \A n \in rules : ~(n <= 0)
      BY <3>1
    <3> QED
      BY <3>2
  <2>4. Cardinality(first(0)) = 0
    BY <2>3, FS_EmptySet
  <2>5. a * 0 = 0
    OBVIOUS
  <2> HIDE DEF first
  <2>6. f[0] \in Seq(Row) /\ Posted(c, f[0]) = a * Cardinality(first(0))
    BY <2>1, <2>2, <2>4, <2>5
  <2> QED
    BY <1>2, <2>6
<1>4. ASSUME NEW m \in Nat, m \in S
      PROVE  m + 1 \in S
  <2> SUFFICES ASSUME m + 1 <= N
               PROVE  /\ f[m + 1] \in Seq(Row)
                      /\ Posted(c, f[m + 1]) = a * Cardinality(first(m + 1))
    BY <1>2
  <2>1. f[m] \in Seq(Row) /\ Posted(c, f[m]) = a * Cardinality(first(m))
    <3> HIDE DEF first
    <3> QED
      BY <1>0, <1>2, <1>4
  <2>2. m + 1 \in RuleIds
    BY <1>0
  <2>3. f[m + 1] = f[m] \o Of(m + 1)
    BY <1>1 DEF Joins
  <2>4. IsFiniteSet(first(m)) /\ Cardinality(first(m)) \in Nat
    <3>1. first(m) \subseteq RuleIds
      OBVIOUS
    <3> HIDE DEF first
    <3> QED
      BY <1>0, <3>1, FS_Subset, FS_CardinalityType
  <2>5. CASE m + 1 \in rules
    <3>1. first(m + 1) = first(m) \cup {m + 1} /\ m + 1 \notin first(m)
      <4>1. \A n \in rules : n \in Nat /\ (n <= m + 1 <=> n <= m \/ n = m + 1) /\ ~(m + 1 <= m)
        BY <1>0
      <4> QED
        BY <2>5, <4>1
    <3>2. Cardinality(first(m + 1)) = Cardinality(first(m)) + 1
      <4> HIDE DEF first
      <4> QED
        BY <2>4, <3>1, FS_AddElement
    <3>3. Of(m + 1) \in Seq(Row) /\ Posted(c, Of(m + 1)) = a
      BY <2>2, <2>5, RulesHaveDestinations, RuleEntriesType, RuleEntriesPost
    <3> HIDE DEF Of, first
    <3>4. f[m + 1] \in Seq(Row) /\ Posted(c, f[m + 1]) = Posted(c, f[m]) + a
      BY <2>1, <2>3, <3>3, PostedOfRows
    <3>5. PICK n \in Nat : n = Cardinality(first(m)) /\ Cardinality(first(m + 1)) = n + 1
      BY <2>4, <3>2
    <3>6. a * (n + 1) = a * n + a
      OBVIOUS
    <3> QED
      BY <2>1, <3>4, <3>5, <3>6
  <2>6. CASE m + 1 \notin rules
    <3>1. first(m + 1) = first(m)
      <4>1. \A n \in rules : n \in Nat /\ n # m + 1 /\ (n <= m + 1 <=> n <= m \/ n = m + 1)
        BY <1>0, <2>6
      <4> QED
        BY <4>1
    <3>2. f[m + 1] = f[m]
      BY <2>1, <2>3, <2>6
    <3> QED
      BY <2>1, <3>1, <3>2
  <2> QED
    BY <2>5, <2>6
<1>5. N \in S
  BY <1>0, <1>3, <1>4, Induction
<1>6. first(N) = rules
  <2>1. \A n \in rules : n <= N
    BY <1>0
  <2> QED
    BY <2>1
<1> HIDE DEF first
<1> QED
  BY <1>0, <1>1, <1>2, <1>5, <1>6

\* If anybody has contributed, somebody has a share.
LEMMA SomebodyShares ==
    ASSUME NEW seen \in [Members -> Nat], NEW m \in Members, seen[m] > 0
    PROVE  \E i \in Members : MemberPercentage(seen, i) # 0
<1>0. IsFiniteSet(Members)
  BY LedgerAssumption
<1>1. PICK T \in Nat : T = SumFunction(seen)
  BY <1>0, SumTypes
<1>2. T > 0
  <2>1. seen = [x \in Members |-> seen[x]] /\ \A x \in Members : seen[x] \in Int
    OBVIOUS
  <2>2. SumFunction(seen) = SumOver(seen, Members)
    BY <2>1 DEF SumOver
  <2>3. SumOver(seen, Members) = seen[m] + SumOver(seen, Members \ {m})
    BY <1>0, <2>1, SumsOver
  <2>4. SumOver(seen, Members \ {m}) \in Nat
    <3>1. PICK k : k = [x \in Members \ {m} |-> seen[x]]
      OBVIOUS
    <3>2. IsFiniteSet(DOMAIN k) /\ \A x \in DOMAIN k : k[x] \in Nat
      BY <1>0, <3>1, FS_Subset
    <3> QED
      BY <3>1, <3>2, SumTypes DEF SumOver
  <2> QED
    BY <1>1, <2>2, <2>3, <2>4
<1>3. \E i \in Members : MemberPercentage(seen, i) # 0
  <2>1. SumFunction(seen) # 0
    BY <1>1, <1>2
  <2> QED
    BY <1>0, <2>1, MembersFew, SharesExist
<1> QED
  BY <1>3

-----------------------------------------------------------------------------
(* Type correctness *)

\* What a request has in memory stays of its type, whichever field changes.
LEMMA JobTypes ==
    /\ NoJob \in Jobs
    /\ \A j \in Jobs :
          /\ \A k \in Kinds : [j EXCEPT !.kind = k] \in Jobs
          /\ \A c \in Contributions : [j EXCEPT !.on = c] \in Jobs
          /\ \A a \in Nat : [j EXCEPT !.amount = a] \in Jobs
          /\ \A p \in Seq(Row) : [j EXCEPT !.plan = p] \in Jobs
          /\ \A p \in Seq(Row), m \in Seq(Row) : [j EXCEPT !.plan = p, !.made = m] \in Jobs
          /\ \A i \in RuleIds : [j EXCEPT !.rule = i] \in Jobs
          /\ \A t \in [Members -> Nat] : [j EXCEPT !.totals = t] \in Jobs
<1>1. NoJob \in Jobs
  BY DEF NoJob, Jobs, Kinds
<1> QED
  BY <1>1 DEF Jobs

\* An operation starts with a job of its own and changes no row.
LEMMA StartType ==
    ASSUME TypeOK, NEW r \in Requests, NEW l \in Locations, NEW new \in Jobs, Start(r, l, new)
    PROVE  TypeOK'
BY DEF TypeOK, Start, Goto, vaultRows, contributionRows, shareRows, ruleRows

\* The end of a transaction leaves an idle request.
LEMMA ReturnType ==
    ASSUME TypeOK, NEW r \in Requests, Return(r)
    PROVE  pc' \in [Requests -> Locations] /\ job' \in [Requests -> Jobs]
BY JobTypes DEF TypeOK, Return, Goto, Locations

LEMMA TypeInit == Init => TypeOK
<1>1. SUFFICES ASSUME Init PROVE TypeOK
  OBVIOUS
<1>2. /\ balance \in [Vaults -> Int] /\ newBalance \in [Vaults -> Int]
      /\ vaultLock \in [Vaults -> Requests \cup {Free}]
      /\ shares \in [Members -> Nat] /\ newShares \in [Members -> Nat]
      /\ shareLock \in [Members -> Requests \cup {Free}]
      /\ rows \in Seq(Row) /\ active \in BOOLEAN
  BY <1>1 DEF Init
<1>3. /\ contribution \in [Contributions -> {"NONE", "RECORDED", "REVERSED"}]
      /\ newContribution \in [Contributions -> {"NONE", "RECORDED", "REVERSED"}]
      /\ contributionLock \in [Contributions -> Requests \cup {Free}]
      /\ met \in [Contributions -> 0..Len(Rules)]
  <2>1. Len(Rules) \in Nat
    BY LedgerAssumption
  <2> QED
    BY <1>1, <2>1 DEF Init
<1>4. rule \in [RuleIds -> [status : {"NONE", "ACTIVE", "REPLACED"}, source : SourceTypes,
                            replaces : RuleIds \cup {0}, project : BOOLEAN]]
  <2>1. \A i \in DOMAIN Given : Given[i] \in SourceTypes
    BY LedgerAssumption
  <2> QED
    BY <1>1, <2>1 DEF Init, SourceTypes
<1>5. pc \in [Requests -> Locations] /\ job \in [Requests -> Jobs]
  BY <1>1, JobTypes DEF Init, Locations
<1> QED
  BY <1>2, <1>3, <1>4, <1>5 DEF TypeOK

\* Request r starts an operation, with nothing pending, or does nothing.
Starts(r) ==
    \/ UNCHANGED vars
    \/ \E l \in Locations, new \in Jobs :
          /\ Start(r, l, new) /\ new.made = <<>>
          /\ l = "replace" => new.rule \in RuleIds

LEMMA StartStarts ==
    ASSUME NEW r \in Requests, NEW l \in Locations, NEW new \in Jobs, new.made = <<>>,
           l = "replace" => new.rule \in RuleIds, Start(r, l, new)
    PROVE  Starts(r)
BY DEF Starts

LEMMA BeginStarts ==
    ASSUME TypeOK, NEW r \in Requests, Begin(r)
    PROVE  Starts(r)
<1> USE DEF Locations
<1>0. NoJob \in Jobs /\ NoJob.made = <<>>
  BY JobTypes DEF NoJob
<1>1. ASSUME NEW m \in Members, NEW a \in Amounts, StartWithdrawal(r, m, a)
      PROVE  Starts(r)
  <2>1. Pocket[m] \in Vaults /\ a \in Nat
    BY LedgerAssumption
  <2>2. Withdrawn(m, a) \in Row
    BY <2>1 DEF Withdrawn, Row, SourceTypes
  <2>3. PICK new : new = [NoJob EXCEPT !.kind = "WITHDRAWAL", !.amount = a,
                            !.plan = <<Withdrawn(m, a)>>]
    OBVIOUS
  <2>4. new \in Jobs /\ new.made = <<>>
    <3>1. <<Withdrawn(m, a)>> \in Seq(Row)
      BY <2>2
    <3>2. [NoJob EXCEPT !.kind = "WITHDRAWAL", !.amount = a] \in Jobs
      BY <2>1, <2>2, <1>0, JobTypes DEF Jobs, Kinds, SourceTypes
    <3> QED
      BY <2>3, <3>1, <3>2, <1>0, JobTypes DEF Jobs
  <2> QED
    BY <1>1, <2>3, <2>4, StartStarts DEF StartWithdrawal
<1>2. ASSUME NEW i \in DOMAIN rows, StartReversal(r, i)
      PROVE  Starts(r)
  <2>1. PICK new : new = [NoJob EXCEPT !.kind = "REVERSAL", !.plan = <<Offset(i)>>]
    OBVIOUS
  <2>2. new \in Jobs /\ new.made = <<>>
    <3>1. <<Offset(i)>> \in Seq(Row)
      BY OffsetType
    <3> QED
      BY <2>1, <3>1, <1>0, JobTypes DEF Jobs, Kinds
  <2> QED
    BY <1>2, <2>1, <2>2, StartStarts DEF StartReversal
<1>3. ASSUME NEW i \in DOMAIN rows, StartEntryReversal(r, i)
      PROVE  Starts(r)
  <2>1. PICK new : new = [NoJob EXCEPT !.kind = "ENTRY_REVERSAL", !.plan = <<Offset(i)>>]
    OBVIOUS
  <2>2. new \in Jobs /\ new.made = <<>>
    <3>1. <<Offset(i)>> \in Seq(Row)
      BY OffsetType
    <3> QED
      BY <2>1, <3>1, <1>0, JobTypes DEF Jobs, Kinds
  <2> QED
    BY <1>3, <2>1, <2>2, StartStarts DEF StartEntryReversal
<1>4. ASSUME NEW k \in {"PROJECT_REVENUE", "PROJECT_EXPENSE"}, NEW a \in Amounts,
             StartEntry(r, k, a)
      PROVE  Starts(r)
  <2>1. a \in Nat
    BY LedgerAssumption
  <2>2. PICK new : new = [NoJob EXCEPT !.kind = k, !.amount = a]
    OBVIOUS
  <2>3. new \in Jobs /\ new.made = <<>>
    BY <2>1, <2>2, <1>0, JobTypes DEF Jobs, Kinds, SourceTypes
  <2> QED
    BY <1>4, <2>2, <2>3, StartStarts DEF StartEntry
<1>5. CASE RefuseEntry(r)
  BY <1>5 DEF RefuseEntry, Starts
<1>6. ASSUME NEW i \in RuleIds, StartReplace(r, i)
      PROVE  Starts(r)
  <2>1. PICK new : new = [NoJob EXCEPT !.rule = i]
    OBVIOUS
  <2>2. new \in Jobs /\ new.made = <<>> /\ new.rule = i
    BY <2>1, <1>0, JobTypes DEF Jobs
  <2> QED
    BY <1>6, <2>1, <2>2, StartStarts DEF StartReplace
<1>7. ASSUME NEW c \in Contributions, StartContribution(r, c)
      PROVE  Starts(r)
  <2>1. Contributed[c] \in Nat
    BY LedgerAssumption
  <2>2. PICK new : new = [NoJob EXCEPT !.kind = "CONTRIBUTION", !.on = c, !.amount = Contributed[c]]
    OBVIOUS
  <2>3. new \in Jobs /\ new.made = <<>>
    BY <2>1, <2>2, <1>0, JobTypes DEF Jobs, Kinds, SourceTypes
  <2> QED
    BY <1>7, <2>2, <2>3, StartStarts DEF StartContribution
<1>8. ASSUME NEW c \in Contributions, StartContributionReversal(r, c)
      PROVE  Starts(r)
  <2>1. PICK new : new = [NoJob EXCEPT !.kind = "CONTRIBUTION_REVERSAL", !.on = c]
    OBVIOUS
  <2>2. new \in Jobs /\ new.made = <<>>
    BY <2>1, <1>0, JobTypes DEF Jobs, Kinds
  <2> QED
    BY <1>8, <2>1, <2>2, StartStarts DEF StartContributionReversal
<1> QED
  BY <1>1, <1>2, <1>3, <1>4, <1>5, <1>6, <1>7, <1>8 DEF Begin

\* Every operation and every statement leaves values of the right type.
LEMMA TypeNext ==
    ASSUME TypeOK, JobsFit, [Next]_vars
    PROVE  TypeOK'
<1> USE DEF Locations
<1>1. ASSUME NEW r \in Requests, Begin(r)
      PROVE  TypeOK'
  <2>1. CASE UNCHANGED vars
    BY <2>1 DEF TypeOK, vars, vaultRows, contributionRows, shareRows, ruleRows
  <2> QED
    BY <1>1, <2>1, BeginStarts, StartType DEF Starts
<1>2. ASSUME NEW r \in Requests, ReadOriginals(r)
      PROVE  TypeOK'
  <2> DEFINE I == Originals(job[r].on)
             plan == [n \in DOMAIN InOrder(I) |-> Offset(InOrder(I)[n])]
  <2>1. IsFiniteSet(I) /\ I \subseteq DOMAIN rows /\ I \subseteq Nat
    <3>1. I \subseteq DOMAIN rows
      BY DEF Originals
    <3>2. DOMAIN rows = 1..Len(rows) /\ Len(rows) \in Nat
      BY DEF TypeOK
    <3>3. IsFiniteSet(1..Len(rows))
      BY <3>2, FS_Interval
    <3> HIDE DEF I
    <3> QED
      BY <3>1, <3>2, <3>3, FS_Subset
  <2>2. /\ Cardinality(I) \in Nat /\ DOMAIN InOrder(I) = 1..Cardinality(I)
        /\ \A n \in 1..Cardinality(I) : InOrder(I)[n] \in DOMAIN rows
    <3> HIDE DEF I
    <3> QED
      BY <2>1, InOrderType
  <2>3. plan \in Seq(Row)
    <3> HIDE DEF I
    <3>1. plan \in [1..Cardinality(I) -> Row]
      BY <2>2, OffsetType
    <3> HIDE DEF plan
    <3> QED
      BY <2>2, <3>1
  <2>4. job' = [job EXCEPT ![r] = [job[r] EXCEPT !.plan = plan]]
    BY <1>2 DEF ReadOriginals, Plan, TypeOK
  <2>5. job' \in [Requests -> Jobs] /\ pc' \in [Requests -> Locations]
    <3> HIDE DEF plan
    <3> QED
      BY <1>2, <2>3, <2>4, JobTypes DEF TypeOK, ReadOriginals, Goto
  <2> QED
    BY <1>2, <2>5
    DEF TypeOK, ReadOriginals, UnchangedRows, vaultRows, contributionRows, shareRows, ruleRows
<1>3. ASSUME NEW r \in Requests, MarkReversed(r)
      PROVE  TypeOK'
  BY <1>3 DEF TypeOK, MarkReversed, Goto, vaultRows, shareRows, ruleRows
<1>4. ASSUME NEW r \in Requests, SumContributions(r)
      PROVE  TypeOK'
  <2> DEFINE Of(m) == {d \in Counted(r) : Contributor[d] = m}
             totals == [m \in Members |-> SumFunction([c \in Of(m) |-> Contributed[c]])]
  <2>1. ASSUME NEW m \in Members
        PROVE  SumFunction([c \in Of(m) |-> Contributed[c]]) \in Nat
    <3> DEFINE f == [c \in Of(m) |-> Contributed[c]]
    <3>1. Of(m) \subseteq Contributions
      BY DEF Counted
    <3>2. IsFiniteSet(Of(m))
      <4> HIDE DEF Of
      <4> QED
        BY <3>1, LedgerAssumption, FS_Subset
    <3>3. DOMAIN f = Of(m) /\ \A c \in DOMAIN f : f[c] \in Nat
      <4> HIDE DEF Of
      <4> QED
        BY <3>1, LedgerAssumption
    <3> HIDE DEF f
    <3>4. SumFunction(f) \in Nat
      BY <3>2, <3>3, SumTypes
    <3> QED
      BY <3>4 DEF f
  <2>2. totals \in [Members -> Nat]
    <3> HIDE DEF Of
    <3> QED
      BY <2>1
  <2>3. job' = [job EXCEPT ![r] = [job[r] EXCEPT !.totals = totals]]
    BY <1>4 DEF SumContributions, TypeOK
  <2>4. job' \in [Requests -> Jobs]
    <3> HIDE DEF totals
    <3> QED
      BY <2>2, <2>3, JobTypes DEF TypeOK
  <2>5. pc' \in [Requests -> Locations]
    BY <1>4 DEF SumContributions, Goto, TypeOK
  <2> QED
    BY <1>4, <2>4, <2>5
    DEF TypeOK, SumContributions, UnchangedRows, vaultRows, contributionRows, shareRows, ruleRows
<1>5. ASSUME NEW r \in Requests, WriteShares(r)
      PROVE  TypeOK'
  <2>1. newShares' \in [Members -> Nat]
    BY <1>5 DEF WriteShares, TypeOK, Jobs
  <2>2. shareLock' \in [Members -> Requests \cup {Free}]
    BY <1>5 DEF WriteShares, TypeOK
  <2>3. pc' \in [Requests -> Locations]
    BY <1>5 DEF WriteShares, Goto, TypeOK
  <2>4. UNCHANGED <<vaultRows, contributionRows, shares, ruleRows, rows, active, job>>
    BY <1>5 DEF WriteShares
  <2> QED
    BY <2>1, <2>2, <2>3, <2>4 DEF TypeOK, vaultRows, contributionRows, ruleRows
<1>6. ASSUME NEW r \in Requests, ReplaceRule(r)
      PROVE  TypeOK'
  <2>1. PICK i \in RuleIds :
          rule' = [rule EXCEPT ![job[r].rule].status = "REPLACED",
                               ![i] = [status |-> "ACTIVE", source |-> rule[job[r].rule].source,
                                       replaces |-> job[r].rule, project |-> FALSE]]
    BY <1>6 DEF ReplaceRule
  <2>2. pc' \in [Requests -> Locations] /\ job' \in [Requests -> Jobs]
    BY <1>6, JobTypes DEF ReplaceRule, Goto, TypeOK
  <2>3. PICK old \in RuleIds : old = job[r].rule
    BY <1>6 DEF ReplaceRule, JobsFit
  <2>4. rule' \in [RuleIds -> [status : {"NONE", "ACTIVE", "REPLACED"}, source : SourceTypes,
                               replaces : RuleIds \cup {0}, project : BOOLEAN]]
    BY <2>1, <2>3 DEF TypeOK
  <2>5. UNCHANGED <<vaultRows, contributionRows, shareRows, met, rows, active>>
    BY <1>6 DEF ReplaceRule
  <2> QED
    BY <2>2, <2>4, <2>5 DEF TypeOK, vaultRows, contributionRows, shareRows
<1>7. ASSUME NEW r \in Requests, ReadRules(r)
      PROVE  TypeOK'
  <2> DEFINE k == job[r].kind
             plan == AllEntries(ActiveRules(k), k, job[r].amount, job[r].on)
  <2>1. k \in SourceTypes
    <3>1. CASE k = "CONTRIBUTION"
      BY <3>1 DEF SourceTypes
    <3>2. CASE k # "CONTRIBUTION"
      <4>1. PICK i \in RuleIds : rule[i].source = k
        BY <1>7, <3>2 DEF ReadRules, ActiveRules
      <4> QED
        BY <4>1 DEF TypeOK
    <3> QED
      BY <3>1, <3>2
  <2>2. plan \in Seq(Row)
    <3>1. job[r].amount \in Int /\ job[r].on \in Contributions \cup {NoContribution}
      BY DEF TypeOK, Jobs
    <3> HIDE DEF k
    <3> QED
      BY <2>1, <3>1, AllEntriesType
  <2>3. Cardinality(ActiveRules(k)) \in 0..Len(Rules)
    <3>1. ActiveRules(k) \subseteq 1..Len(Rules) /\ Len(Rules) \in Nat
      BY LedgerAssumption DEF ActiveRules, RuleIds
    <3>2. IsFiniteSet(1..Len(Rules)) /\ Cardinality(1..Len(Rules)) = Len(Rules)
      <4>1. /\ IsFiniteSet(1..Len(Rules))
            /\ Cardinality(1..Len(Rules)) = IF 1 > Len(Rules) THEN 0 ELSE Len(Rules) - 1 + 1
        BY <3>1, FS_Interval
      <4> QED
        BY <3>1, <4>1
    <3>3. Cardinality(ActiveRules(k)) <= Len(Rules) /\ Cardinality(ActiveRules(k)) \in Nat
      <4> HIDE DEF k
      <4> QED
        BY <3>1, <3>2, FS_Subset, FS_CardinalityType
    <3> QED
      BY <3>1, <3>3
  <2>4. /\ job' = [job EXCEPT ![r] = [job[r] EXCEPT !.plan = plan]]
        /\ met' = IF k = "CONTRIBUTION"
                  THEN [met EXCEPT ![job[r].on] = Cardinality(ActiveRules(k))] ELSE met
    BY <1>7 DEF ReadRules, Plan, TypeOK
  <2>5. met' \in [Contributions -> 0..Len(Rules)]
    <3> HIDE DEF k
    <3> QED
      BY <2>3, <2>4 DEF TypeOK
  <2>6. job' \in [Requests -> Jobs] /\ pc' \in [Requests -> Locations]
    <3> HIDE DEF plan, k
    <3> QED
      BY <1>7, <2>2, <2>4, JobTypes DEF TypeOK, ReadRules, Goto
  <2> QED
    BY <1>7, <2>5, <2>6
    DEF TypeOK, ReadRules, vaultRows, contributionRows, shareRows
<1>8. ASSUME NEW r \in Requests, SplitAcrossMembers(r)
      PROVE  TypeOK'
  <2> DEFINE e == Head(job[r].plan)
             plan == RuleEntries(MemberShares(r), e.amount, e.sourceType, e.source)
                        \o Tail(job[r].plan)
  <2>1. e \in Row /\ Tail(job[r].plan) \in Seq(Row)
    <3>1. job[r].plan \in Seq(Row) /\ job[r].plan # <<>>
      BY <1>8 DEF SplitAcrossMembers, TypeOK, Jobs
    <3> QED
      BY <3>1
  <2>2. plan \in Seq(Row)
    <3>1. MemberShares(r) \in Seq(Destinations)
      BY MemberSharesType
    <3>2. e.amount \in Int /\ e.sourceType \in SourceTypes
          /\ e.source \in Contributions \cup {NoContribution}
      BY <2>1 DEF Row
    <3> HIDE DEF e
    <3>3. RuleEntries(MemberShares(r), e.amount, e.sourceType, e.source) \in Seq(Row)
      BY <3>1, <3>2, RuleEntriesType
    <3> QED
      BY <2>1, <3>3
  <2>3. job' = [job EXCEPT ![r] = [job[r] EXCEPT !.plan = plan]]
    BY <1>8 DEF SplitAcrossMembers, Plan, TypeOK
  <2>4. job' \in [Requests -> Jobs]
    <3> HIDE DEF plan
    <3> QED
      BY <2>2, <2>3, JobTypes DEF TypeOK
  <2> QED
    BY <1>8, <2>4
    DEF TypeOK, SplitAcrossMembers, UnchangedRows, vaultRows, contributionRows, shareRows, ruleRows
<1>9. ASSUME NEW r \in Requests, WriteEntry(r)
      PROVE  TypeOK'
  <2>1. PICK e : e = Head(job[r].plan)
    OBVIOUS
  <2>2. e \in Row /\ e.vault \in Vaults /\ Tail(job[r].plan) \in Seq(Row)
    <3>1. job[r].plan \in Seq(Row) /\ job[r].plan # <<>>
      BY <1>9 DEF WriteEntry, TypeOK, Jobs
    <3>2. e \in Row /\ Tail(job[r].plan) \in Seq(Row)
      BY <2>1, <3>1
    <3> QED
      BY <1>9, <2>1, <3>2 DEF WriteEntry, Row
  <2>3. Append(job[r].made, e) \in Seq(Row)
    BY <2>2 DEF TypeOK, Jobs
  <2>4. job' = [job EXCEPT ![r] = [job[r] EXCEPT !.plan = Tail(job[r].plan),
                                                 !.made = Append(job[r].made, e)]]
    BY <1>9, <2>1 DEF WriteEntry, TypeOK
  <2>5. job' \in [Requests -> Jobs]
    BY <2>2, <2>3, <2>4, JobTypes DEF TypeOK
  <2>6. newBalance' \in [Vaults -> Int]
    <3>1. Delta(e) \in Int
      BY <2>2 DEF Delta, Row
    <3>2. Visible(balance, newBalance, vaultLock, e.vault, r) \in Int
      BY <2>2 DEF TypeOK, Visible
    <3>3. PICK b \in Int : b = Visible(balance, newBalance, vaultLock, e.vault, r) + Delta(e)
      BY <3>1, <3>2
    <3>4. newBalance' = [newBalance EXCEPT ![e.vault] = b]
      BY <1>9, <2>1, <3>3 DEF WriteEntry
    <3> QED
      BY <3>4 DEF TypeOK
  <2>7. vaultLock' \in [Vaults -> Requests \cup {Free}]
    BY <1>9 DEF WriteEntry, TypeOK
  <2> QED
    BY <1>9, <2>5, <2>6, <2>7
    DEF TypeOK, WriteEntry, contributionRows, shareRows, ruleRows
<1>10. ASSUME NEW r \in Requests, Commit(r)
       PROVE  TypeOK'
  <2>1. pc' \in [Requests -> Locations] /\ job' \in [Requests -> Jobs]
    BY <1>10, ReturnType DEF Commit
  <2>2. /\ balance' \in [Vaults -> Int] /\ newBalance' \in [Vaults -> Int]
        /\ vaultLock' \in [Vaults -> Requests \cup {Free}]
    BY <1>10 DEF Commit, AfterCommit, Released, TypeOK
  <2>3. /\ shares' \in [Members -> Nat] /\ newShares' \in [Members -> Nat]
        /\ shareLock' \in [Members -> Requests \cup {Free}]
    BY <1>10 DEF Commit, AfterCommit, Released, TypeOK
  <2>4. /\ contribution' \in [Contributions -> {"NONE", "RECORDED", "REVERSED"}]
        /\ newContribution' \in [Contributions -> {"NONE", "RECORDED", "REVERSED"}]
        /\ contributionLock' \in [Contributions -> Requests \cup {Free}]
    <3>1. AfterCommit(contribution, newContribution, contributionLock, r)
             \in [Contributions -> {"NONE", "RECORDED", "REVERSED"}]
      BY DEF AfterCommit, TypeOK
    <3> QED
      BY <1>10, <3>1 DEF Commit, Released, TypeOK
  <2>5. rows' \in Seq(Row)
    BY <1>10 DEF Commit, TypeOK, Jobs
  <2> QED
    BY <1>10, <2>1, <2>2, <2>3, <2>4, <2>5 DEF TypeOK, Commit, ruleRows
<1>11. ASSUME NEW r \in Requests, Rollback(r)
       PROVE  TypeOK'
  <2>1. pc' \in [Requests -> Locations] /\ job' \in [Requests -> Jobs]
    BY <1>11, ReturnType DEF Rollback
  <2> QED
    BY <1>11, <2>1 DEF TypeOK, Rollback, AfterRollback, Released, ruleRows
<1>12. CASE CloseProject
  BY <1>12 DEF TypeOK, CloseProject, vaultRows, contributionRows, shareRows, ruleRows
<1>13. ASSUME NEW i \in RuleIds, CreateRule(i)
       PROVE  TypeOK'
  BY <1>13 DEF TypeOK, CreateRule, vaultRows, contributionRows, shareRows
<1>14. CASE UNCHANGED vars
  BY <1>14 DEF TypeOK, vars, vaultRows, contributionRows, shareRows, ruleRows
<1> QED
  BY <1>1, <1>2, <1>3, <1>4, <1>5, <1>6, <1>7, <1>8, <1>9, <1>10, <1>11, <1>12, <1>13, <1>14
  DEF Next, Continue, EntryRefused

-----------------------------------------------------------------------------
(* Pending rows *)

\* The statements that write no entry.
Prepares(r) ==
    \/ ReadOriginals(r) \/ MarkReversed(r) \/ SumContributions(r) \/ WriteShares(r)
    \/ ReadRules(r) \/ SplitAcrossMembers(r)

\* Neither the start of an operation nor any of these statements makes a row pending or
\* changes a balance.
LEMMA NothingWritten ==
    ASSUME TypeOK, JobsFit, NEW r \in Requests, Starts(r) \/ Prepares(r)
    PROVE  /\ JobsFit'
           /\ UNCHANGED <<balance, newBalance, vaultLock, rows>>
           /\ \A q \in Requests : job'[q].made = job[q].made
<1>1. CASE UNCHANGED vars
  BY <1>1 DEF vars, JobsFit, vaultRows
<1>2. ASSUME NEW l \in Locations, NEW new \in Jobs, Start(r, l, new), new.made = <<>>,
             l = "replace" => new.rule \in RuleIds
      PROVE  /\ JobsFit'
             /\ UNCHANGED <<balance, newBalance, vaultLock, rows>>
             /\ \A q \in Requests : job'[q].made = job[q].made
  BY <1>2 DEF Start, Goto, JobsFit, TypeOK, vaultRows
<1>3. CASE Prepares(r)
  <2>1. pc[r] \notin {"idle", "replace"} /\ pc' = [pc EXCEPT ![r] = pc'[r]]
        /\ pc'[r] \notin {"idle", "replace"}
    BY <1>3
    DEF Prepares, ReadOriginals, MarkReversed, SumContributions, WriteShares, ReadRules,
        SplitAcrossMembers, Goto, TypeOK
  <2>2. UNCHANGED <<balance, newBalance, vaultLock, rows>>
    BY <1>3
    DEF Prepares, ReadOriginals, MarkReversed, SumContributions, WriteShares, ReadRules,
        SplitAcrossMembers, UnchangedRows, vaultRows
  <2>3. \A q \in Requests : job'[q].made = job[q].made /\ job'[q].rule = job[q].rule
    <3>1. ASSUME NEW p, Plan(r, p)
          PROVE  \A q \in Requests : job'[q].made = job[q].made /\ job'[q].rule = job[q].rule
      BY <3>1 DEF Plan, TypeOK, Jobs
    <3>2. CASE ReadOriginals(r) \/ ReadRules(r) \/ SplitAcrossMembers(r)
      BY <3>1, <3>2 DEF ReadOriginals, ReadRules, SplitAcrossMembers
    <3>3. ASSUME NEW t, job' = [job EXCEPT ![r].totals = t]
          PROVE  \A q \in Requests : job'[q].made = job[q].made /\ job'[q].rule = job[q].rule
      BY <3>3 DEF TypeOK, Jobs
    <3>4. CASE SumContributions(r)
      BY <3>3, <3>4 DEF SumContributions
    <3>5. CASE MarkReversed(r) \/ WriteShares(r)
      BY <3>5 DEF MarkReversed, WriteShares
    <3> QED
      BY <1>3, <3>2, <3>4, <3>5 DEF Prepares
  <2> QED
    BY <2>1, <2>2, <2>3 DEF JobsFit, TypeOK
<1> QED
  BY <1>1, <1>2, <1>3 DEF Starts

\* The end of a transaction leaves nothing pending of request r.
LEMMA ReturnFits ==
    ASSUME TypeOK, JobsFit, NEW r \in Requests, Return(r)
    PROVE  /\ JobsFit' /\ job'[r].made = <<>>
           /\ \A q \in Requests \ {r} : job'[q] = job[q]
BY DEF Return, Goto, TypeOK, JobsFit, NoJob

\* The rows of a vault that r has not locked are none of r's.
LEMMA NothingElsewhere ==
    ASSUME TypeOK, PendingBalance, NEW r \in Requests, NEW x \in Vaults, vaultLock[x] # r
    PROVE  Net(x, job[r].made) = 0
<1>1. job[r].made \in Seq(Row)
  BY DEF TypeOK, Jobs
<1>2. \A i \in DOMAIN job[r].made : job[r].made[i].vault # x
  BY DEF PendingBalance
<1> QED
  BY <1>1, <1>2, NetOfRows

\* What an entry of r does to the rows that are pending and to the balance they are pending on.
LEMMA EntryWritten ==
    ASSUME TypeOK, JobsFit, PendingBalance, NEW r \in Requests, WriteEntry(r)
    PROVE  JobsFit' /\ PendingBalance'
<1>1. PICK e : e = Head(job[r].plan)
  OBVIOUS
<1>2. e \in Row /\ e.vault \in Vaults
  <2>1. job[r].plan \in Seq(Row) /\ job[r].plan # <<>>
    BY DEF WriteEntry, TypeOK, Jobs
  <2>2. e \in Row
    BY <1>1, <2>1
  <2> QED
    BY <1>1, <2>2 DEF WriteEntry, Row
<1>3. PICK x \in Vaults : x = e.vault
  BY <1>2
<1>4. PICK made \in Seq(Row) : made = job[r].made
  BY DEF TypeOK, Jobs
<1>5. /\ job'[r].made = Append(made, e) /\ job'[r].rule = job[r].rule
      /\ \A q \in Requests \ {r} : job'[q] = job[q]
      /\ pc' = pc /\ pc[r] = "write"
  BY <1>1, <1>4 DEF WriteEntry, TypeOK, Jobs
<1>6. /\ vaultLock[x] \in {r, Free}
      /\ vaultLock' = [vaultLock EXCEPT ![x] = r]
      /\ balance' = balance
      /\ newBalance' = [newBalance EXCEPT ![x] =
                           (IF vaultLock[x] = r THEN newBalance[x] ELSE balance[x]) + Delta(e)]
  BY <1>1, <1>3 DEF WriteEntry, Lockable, Visible
<1>7. JobsFit'
  BY <1>5 DEF JobsFit
<1>8. ASSUME NEW q \in Requests, NEW i \in DOMAIN job'[q].made
      PROVE  job'[q].made[i].vault \in Vaults /\ vaultLock'[job'[q].made[i].vault] = q
  <2>1. CASE q = r
    <3>1. i \in 1..(Len(made) + 1)
      BY <1>4, <1>5, <1>8, <2>1
    <3>2. CASE i = Len(made) + 1
      BY <1>3, <1>5, <1>6, <2>1, <3>2 DEF TypeOK
    <3>3. CASE i \in 1..Len(made)
      <4>1. job'[r].made[i] = made[i] /\ made[i].vault \in Vaults /\ vaultLock[made[i].vault] = r
        BY <1>4, <1>5, <3>3 DEF PendingBalance
      <4> QED
        BY <1>6, <2>1, <4>1 DEF TypeOK
    <3> QED
      BY <3>1, <3>2, <3>3
  <2>2. CASE q # r
    <3>1. /\ job'[q].made = job[q].made
          /\ job[q].made[i].vault \in Vaults /\ vaultLock[job[q].made[i].vault] = q
      BY <1>5, <1>8, <2>2 DEF PendingBalance
    <3>2. q # Free
      BY LedgerAssumption
    <3> QED
      BY <1>6, <2>2, <3>1, <3>2 DEF TypeOK
  <2> QED
    BY <2>1, <2>2
<1>9. ASSUME NEW y \in Vaults
      PROVE  newBalance'[y] = balance'[y] +
                IF vaultLock'[y] = Free THEN 0 ELSE Net(y, job'[vaultLock'[y]].made)
  <2>0. r # Free /\ balance[y] \in Int /\ newBalance[y] \in Int /\ Delta(e) \in Int
    <3>1. Delta(e) \in Int
      BY <1>2, LedgerAssumption DEF Row, Delta
    <3>2. r # Free
      BY LedgerAssumption
    <3>3. balance[y] \in Int /\ newBalance[y] \in Int
      BY DEF TypeOK
    <3> QED
      BY <3>1, <3>2, <3>3
  <2>1. newBalance[y] = balance[y] +
          IF vaultLock[y] = Free THEN 0 ELSE Net(y, job[vaultLock[y]].made)
    BY DEF PendingBalance
  <2>2. /\ Net(y, made) \in Int
        /\ Net(y, Append(made, e)) = Net(y, made) + IF e.vault = y THEN Delta(e) ELSE 0
    BY <1>2, NetOfRows
  <2>3. CASE y = x
    <3>1. vaultLock'[y] = r
      BY <1>6, <2>3 DEF TypeOK
    <3>2. newBalance'[y] =
            (IF vaultLock[y] = r THEN newBalance[y] ELSE balance[y]) + Delta(e)
      BY <1>6, <2>3 DEF TypeOK
    <3>3. vaultLock[y] = Free => Net(y, made) = 0
      BY <1>4, <2>0, NothingElsewhere
    <3>4. newBalance'[y] = balance[y] + Net(y, made) + Delta(e)
      BY <1>4, <1>6, <2>0, <2>1, <2>2, <2>3, <3>2, <3>3
    <3>5. Net(y, job'[r].made) = Net(y, made) + Delta(e)
      BY <1>3, <1>5, <2>2, <2>3
    <3>6. balance'[y] = balance[y]
      BY <1>6
    <3> QED
      BY <2>0, <2>2, <3>1, <3>4, <3>5, <3>6
  <2>4. CASE y # x
    <3>1. vaultLock'[y] = vaultLock[y] /\ newBalance'[y] = newBalance[y] /\ balance'[y] = balance[y]
      BY <1>6, <2>4 DEF TypeOK
    <3>2. Net(y, job'[r].made) = Net(y, job[r].made)
      <4>1. Net(y, Append(made, e)) = Net(y, made)
        BY <1>3, <2>2, <2>4
      <4> QED
        BY <1>4, <1>5, <4>1
    <3>3. vaultLock[y] \in Requests \ {r} => job'[vaultLock[y]].made = job[vaultLock[y]].made
      BY <1>5
    <3>4. vaultLock[y] \in Requests \cup {Free}
      BY DEF TypeOK
    <3> QED
      BY <2>1, <3>1, <3>2, <3>3, <3>4
  <2> QED
    BY <2>3, <2>4
<1> QED
  BY <1>7, <1>8, <1>9 DEF PendingBalance

\* Once r's transaction has ended, its locks are released and its vaults have one balance.
LEMMA EndedFits ==
    ASSUME TypeOK, PendingBalance, NEW r \in Requests,
           job'[r].made = <<>>, \A q \in Requests \ {r} : job'[q] = job[q],
           vaultLock' = Released(vaultLock, r),
           \A x \in Vaults : IF vaultLock[x] = r THEN newBalance'[x] = balance'[x]
                             ELSE newBalance'[x] = newBalance[x] /\ balance'[x] = balance[x],
           balance' \in [Vaults -> Int]
    PROVE  PendingBalance'
<1>1. \A x \in Vaults : vaultLock'[x] = IF vaultLock[x] = r THEN Free ELSE vaultLock[x]
  BY DEF Released, TypeOK
<1>2. ASSUME NEW q \in Requests, NEW i \in DOMAIN job'[q].made
      PROVE  job'[q].made[i].vault \in Vaults /\ vaultLock'[job'[q].made[i].vault] = q
  <2>1. q # r /\ q # Free
    BY <1>2, LedgerAssumption
  <2>2. /\ job'[q].made = job[q].made
        /\ job[q].made[i].vault \in Vaults /\ vaultLock[job[q].made[i].vault] = q
    BY <1>2, <2>1 DEF PendingBalance
  <2> QED
    BY <1>1, <2>1, <2>2
<1>3. ASSUME NEW x \in Vaults
      PROVE  newBalance'[x] = balance'[x] +
                IF vaultLock'[x] = Free THEN 0 ELSE Net(x, job'[vaultLock'[x]].made)
  <2>1. newBalance[x] = balance[x] +
          IF vaultLock[x] = Free THEN 0 ELSE Net(x, job[vaultLock[x]].made)
    BY DEF PendingBalance
  <2>2. balance'[x] \in Int
    OBVIOUS
  <2>3. CASE vaultLock[x] = r
    BY <1>1, <2>2, <2>3
  <2>4. CASE vaultLock[x] # r
    <3>1. vaultLock'[x] = vaultLock[x] /\ vaultLock[x] \in Requests \cup {Free}
      BY <1>1, <2>4 DEF TypeOK
    <3>2. vaultLock[x] # Free => job'[vaultLock[x]].made = job[vaultLock[x]].made
      BY <2>4, <3>1
    <3> QED
      BY <2>1, <2>4, <3>1, <3>2
  <2> QED
    BY <2>3, <2>4
<1> QED
  BY <1>2, <1>3 DEF PendingBalance

\* A commit adds the pending rows of its vaults to their balances.
LEMMA CommitAdds ==
    ASSUME TypeOK, PendingBalance, NEW r \in Requests, Commit(r), NEW x \in Vaults
    PROVE  balance'[x] = balance[x] + Net(x, job[r].made)
<1>1. balance'[x] = IF vaultLock[x] = r THEN newBalance[x] ELSE balance[x]
  BY DEF Commit, AfterCommit, TypeOK
<1>2. CASE vaultLock[x] = r
  <2>1. r # Free
    BY LedgerAssumption
  <2> QED
    BY <1>1, <1>2, <2>1 DEF PendingBalance
<1>3. CASE vaultLock[x] # r
  <2>1. Net(x, job[r].made) = 0 /\ balance[x] \in Int
    BY <1>3, NothingElsewhere DEF TypeOK
  <2> QED
    BY <1>1, <1>3, <2>1
<1> QED
  BY <1>2, <1>3

-----------------------------------------------------------------------------
(* The invariants *)

LEMMA LInvInit == Init => LInv
<1>1. SUFFICES ASSUME Init PROVE LInv
  OBVIOUS
<1>2. JobsFit
  BY <1>1 DEF Init, JobsFit, NoJob
<1>3. PendingBalance
  <2>1. \A r \in Requests : job[r].made = <<>>
    BY <1>1 DEF Init, NoJob
  <2>2. \A x \in Vaults : vaultLock[x] = Free /\ newBalance[x] = 0 /\ balance[x] = 0
    BY <1>1 DEF Init
  <2> QED
    BY <2>1, <2>2 DEF PendingBalance
<1> QED
  BY <1>1, <1>2, <1>3, TypeInit DEF LInv

LEMMA LInvNext ==
    ASSUME LInv, [Next]_vars
    PROVE  LInv'
<1>0. TypeOK /\ JobsFit /\ PendingBalance /\ TypeOK'
  BY TypeNext DEF LInv
<1>1. ASSUME UNCHANGED <<balance, newBalance, vaultLock>>,
             \A q \in Requests : job'[q].made = job[q].made
      PROVE  PendingBalance'
  <2>1. \A x \in Vaults : vaultLock[x] \in Requests \cup {Free}
    BY <1>0 DEF TypeOK
  <2>2. \A x \in Vaults : vaultLock[x] # Free =>
            job'[vaultLock[x]].made = job[vaultLock[x]].made
    BY <1>1, <2>1
  <2> QED
    BY <1>0, <1>1, <2>2 DEF PendingBalance
<1>2. ASSUME NEW r \in Requests, Begin(r) \/ Prepares(r)
      PROVE  JobsFit' /\ PendingBalance'
  BY <1>0, <1>1, <1>2, BeginStarts, NothingWritten
<1>3. ASSUME NEW r \in Requests, WriteEntry(r)
      PROVE  JobsFit' /\ PendingBalance'
  BY <1>0, <1>3, EntryWritten
<1>4. ASSUME NEW r \in Requests, ReplaceRule(r)
      PROVE  JobsFit' /\ PendingBalance'
  <2>1. Return(r) /\ UNCHANGED vaultRows
    BY <1>4 DEF ReplaceRule, Return
  <2>2. \A q \in Requests : job'[q].made = job[q].made
    <3>1. job[r].made = <<>>
      BY <1>0, <1>4 DEF ReplaceRule, JobsFit
    <3> QED
      BY <1>0, <2>1, <3>1, ReturnFits
  <2> QED
    BY <1>0, <1>1, <2>1, <2>2, ReturnFits DEF vaultRows
<1>5. ASSUME NEW r \in Requests, Commit(r)
      PROVE  JobsFit' /\ PendingBalance'
  <2>1. Return(r) /\ vaultLock' = Released(vaultLock, r)
    BY <1>5 DEF Commit
  <2>2. \A x \in Vaults : IF vaultLock[x] = r THEN newBalance'[x] = balance'[x]
                          ELSE newBalance'[x] = newBalance[x] /\ balance'[x] = balance[x]
    BY <1>0, <1>5 DEF Commit, AfterCommit, TypeOK
  <2>3. balance' \in [Vaults -> Int]
    BY <1>0 DEF TypeOK
  <2> QED
    BY <1>0, <2>1, <2>2, <2>3, ReturnFits, EndedFits
<1>6. ASSUME NEW r \in Requests, Rollback(r)
      PROVE  JobsFit' /\ PendingBalance'
  <2>1. Return(r) /\ vaultLock' = Released(vaultLock, r)
    BY <1>6 DEF Rollback
  <2>2. \A x \in Vaults : IF vaultLock[x] = r THEN newBalance'[x] = balance'[x]
                          ELSE newBalance'[x] = newBalance[x] /\ balance'[x] = balance[x]
    BY <1>0, <1>6 DEF Rollback, AfterRollback, TypeOK
  <2>3. balance' \in [Vaults -> Int]
    BY <1>0 DEF TypeOK
  <2> QED
    BY <1>0, <2>1, <2>2, <2>3, ReturnFits, EndedFits
<1>7. ASSUME UNCHANGED <<vaultRows, pc, job>>
      PROVE  JobsFit' /\ PendingBalance'
  BY <1>0, <1>1, <1>7 DEF JobsFit, vaultRows
<1>8. ASSUME CloseProject \/ (\E i \in RuleIds : CreateRule(i)) \/ UNCHANGED vars
      PROVE  JobsFit' /\ PendingBalance'
  <2>1. UNCHANGED <<vaultRows, pc, job>>
    BY <1>8 DEF CloseProject, CreateRule, vars
  <2> QED
    BY <1>7, <2>1
<1>9. JobsFit' /\ PendingBalance'
  BY <1>2, <1>3, <1>4, <1>5, <1>6, <1>8 DEF LInv, Next, Continue, Prepares, EntryRefused
<1> QED
  BY <1>0, <1>9 DEF LInv

\* What open transactions hold is always what their requests have inserted: the types, what
\* requests have in memory and the pending balances are an inductive invariant.
THEOREM LInvAlways == Spec => []LInv
BY LInvInit, LInvNext, PTL DEF Spec

\* Every vault's cached balance is always the sum of its committed rows.
THEOREM BalanceIsSum == Spec => []CachedBalance
<1>1. Init => CachedBalance
  <2>1. SUFFICES ASSUME Init, NEW x \in Vaults PROVE balance[x] = Net(x, rows)
    BY DEF CachedBalance
  <2>2. rows = <<>> /\ balance[x] = 0 /\ rows \in Seq(Row)
    BY <2>1 DEF Init
  <2>3. Net(x, <<>>) = 0
    <3>1. <<>> \in Seq(Row)
      OBVIOUS
    <3>2. \A i \in DOMAIN <<>> : <<>>[i].vault # x
      OBVIOUS
    <3> QED
      BY <3>1, <3>2, NetOfRows
  <2> QED
    BY <2>2, <2>3
<1>2. ASSUME LInv, CachedBalance, [Next]_vars
      PROVE  CachedBalance'
  <2>0. TypeOK /\ JobsFit /\ PendingBalance
    BY <1>2 DEF LInv
  <2>1. ASSUME UNCHANGED <<balance, rows>>
        PROVE  CachedBalance'
    BY <1>2, <2>1 DEF CachedBalance
  <2>2. ASSUME NEW r \in Requests, Commit(r), NEW x \in Vaults
        PROVE  balance'[x] = Net(x, rows')
    <3>1. rows \in Seq(Row) /\ job[r].made \in Seq(Row) /\ rows' = rows \o job[r].made
      BY <2>0, <2>2 DEF TypeOK, Jobs, Commit
    <3>2. Net(x, rows') = Net(x, rows) + Net(x, job[r].made)
      BY <3>1, NetOfRows
    <3> QED
      BY <1>2, <2>0, <2>2, <3>2, CommitAdds DEF CachedBalance
  <2>3. ASSUME NEW r \in Requests, Begin(r) \/ Prepares(r)
        PROVE  UNCHANGED <<balance, rows>>
    BY <2>0, <2>3, BeginStarts, NothingWritten
  <2>4. ASSUME NEW r \in Requests, ReplaceRule(r) \/ WriteEntry(r) \/ Rollback(r)
        PROVE  UNCHANGED <<balance, rows>>
    BY <2>4 DEF ReplaceRule, WriteEntry, Rollback, vaultRows
  <2>5. CASE CloseProject \/ (\E i \in RuleIds : CreateRule(i)) \/ UNCHANGED vars
    BY <2>1, <2>5 DEF CloseProject, CreateRule, vars, vaultRows
  <2>6. ASSUME NEW r \in Requests, Commit(r)
        PROVE  CachedBalance'
    BY <2>2, <2>6 DEF CachedBalance
  <2> QED
    BY <1>2, <2>1, <2>3, <2>4, <2>5, <2>6
    DEF Next, Continue, Prepares, EntryRefused
<1> QED
  BY <1>1, <1>2, LInvAlways, PTL DEF Spec

-----------------------------------------------------------------------------
(* What a step leaves of the other requests *)

\* Rows are only added, and none of the new ones is an original of contribution c.
Adds(c) ==
    /\ \A i \in DOMAIN rows : i \in DOMAIN rows' /\ rows'[i] = rows[i]
    /\ Originals(c)' \subseteq Originals(c)

\* A step of r leaves alone what the other requests have locked and have in memory.
LeavesOthers(r) ==
    /\ \A q \in Requests \ {r} : job'[q] = job[q] /\ pc'[q] = pc[q]
    /\ \A c \in Contributions :
          /\ contribution[c] = "NONE" /\ job[r].on # c =>
                /\ contribution'[c] = "NONE" /\ met'[c] = met[c]
                /\ (\E q \in Requests : job[q].on = c) => job'[r].on # c
          /\ contribution[c] # "NONE" => contribution'[c] # "NONE" /\ Adds(c)
          /\ \A q \in Requests \ {r} :
                /\ contributionLock'[c] = q => contributionLock[c] = q
                /\ contributionLock[c] = q =>
                      contributionLock'[c] = q /\ newContribution'[c] = newContribution[c]
    /\ \A m \in Members, q \in Requests \ {r} :
          shareLock[m] = q => shareLock'[m] = q /\ newShares'[m] = newShares[m]

\* The rows that rows refer to stay.
LEMMA RowStaysFit ==
    ASSUME NEW row, RowFits(row), \A i \in DOMAIN rows : i \in DOMAIN rows' /\ rows'[i] = rows[i]
    PROVE  RowFits(row)'
BY DEF RowFits

LEMMA OthersFit ==
    ASSUME DInv, NEW r \in Requests, LeavesOthers(r), NEW q \in Requests \ {r},
           \A i \in DOMAIN rows : i \in DOMAIN rows' /\ rows'[i] = rows[i]
    PROVE  RequestFits(q)'
<1>0. RequestFits(q) /\ job'[q] = job[q] /\ pc'[q] = pc[q] /\ job[q] \in Jobs /\ q # Free
  BY LedgerAssumption DEF DInv, RequestsFit, LeavesOthers, LInv, TypeOK
<1>1. PICK e : e = Entered(q)
  OBVIOUS
<1>2. Entered(q)' = e
  BY <1>0, <1>1 DEF Entered
<1>3. \A row \in e : RowFits(row)' /\ row.source = job[q].on
  <2>1. \A row \in e : RowFits(row) /\ row.source = job[q].on
    BY <1>0, <1>1 DEF RequestFits
  <2> QED
    BY <2>1, RowStaysFit
<1>4. job[q].kind \in {"CONTRIBUTION", "CONTRIBUTION_REVERSAL"} => job[q].on \in Contributions
  BY <1>0 DEF RequestFits, Jobs
<1>5. ASSUME NEW c \in Contributions, c = job[q].on, job[q].kind = "CONTRIBUTION"
      PROVE  Records(q, c)'
  <2>1. Records(q, c)
    BY <1>0, <1>5 DEF RequestFits
  <2>2. /\ contribution[c] = "NONE" /\ \A p \in Requests \ {q} : job[p].on # c
    BY <2>1 DEF Records
  <2>3. contribution'[c] = "NONE" /\ met'[c] = met[c] /\ \A p \in Requests \ {q} : job'[p].on # c
    BY <1>5, <2>2 DEF LeavesOthers
  <2>4. pc[q] \in {"rules", "write"} =>
          newShares'[Contributor[c]] > 0 /\ \A m \in Members : shareLock'[m] = q
    <3>1. Contributor[c] \in Members
      BY LedgerAssumption
    <3> QED
      BY <2>1, <3>1 DEF Records, LeavesOthers
  <2> QED
    BY <1>0, <1>1, <1>2, <2>1, <2>3, <2>4 DEF Records, Total
<1>6. ASSUME NEW c \in Contributions, c = job[q].on, job[q].kind = "CONTRIBUTION_REVERSAL"
      PROVE  Reverses(q, c)'
  <2>1. Reverses(q, c)
    BY <1>0, <1>6 DEF RequestFits
  <2>2. contribution'[c] # "NONE" /\ Originals(c)' \subseteq Originals(c)
    BY <2>1 DEF Reverses, LeavesOthers, Adds
  <2>3. contributionLock[c] = q => contributionLock'[c] = q /\ newContribution'[c] = newContribution[c]
    BY DEF LeavesOthers
  <2> QED
    BY <1>0, <1>1, <1>2, <2>1, <2>2, <2>3 DEF Reverses
<1>7. \A c \in Contributions : contributionLock'[c] = q =>
          /\ job[q].kind = "CONTRIBUTION_REVERSAL" /\ job[q].on = c
          /\ pc[q] \in {"sum", "shares", "commit"}
  BY <1>0 DEF LeavesOthers, RequestFits
<1>8. /\ job[q].kind = "CONTRIBUTION" => Records(q, job[q].on)'
      /\ job[q].kind = "CONTRIBUTION_REVERSAL" => Reverses(q, job[q].on)'
  BY <1>0, <1>4, <1>5, <1>6
<1> QED
  BY <1>0, <1>2, <1>3, <1>7, <1>8 DEF RequestFits

\* A statement of r that makes nothing visible to the others.
Hidden(r) ==
    /\ rows' = rows /\ contribution' = contribution
    /\ \A q \in Requests \ {r} : job'[q] = job[q] /\ pc'[q] = pc[q]
    /\ \A c \in Contributions :
          /\ contribution[c] = "NONE" /\ job[r].on # c /\ (\E q \in Requests : job[q].on = c)
                => job'[r].on # c
          /\ contribution[c] # "NONE" \/ job[r].on # c => met'[c] = met[c]
          /\ \A q \in Requests \ {r} :
                /\ contributionLock'[c] = q => contributionLock[c] = q
                /\ contributionLock[c] = q =>
                      contributionLock'[c] = q /\ newContribution'[c] = newContribution[c]
    /\ \A m \in Members, q \in Requests \ {r} :
          shareLock[m] = q => shareLock'[m] = q /\ newShares'[m] = newShares[m]

LEMMA HiddenFits ==
    ASSUME DInv, NEW r \in Requests, Hidden(r), RequestFits(r)'
    PROVE  RowsFit' /\ RequestsFit' /\ ContributionsFit'
<1>0. rows' = rows /\ contribution' = contribution
  BY DEF Hidden
<1>1. \A c \in Contributions : Originals(c)' = Originals(c)
  BY <1>0 DEF Originals, Reversals
<1>2. LeavesOthers(r)
  BY <1>0, <1>1 DEF Hidden, LeavesOthers, Adds
<1>3. RequestsFit'
  BY <1>0, <1>2, OthersFit DEF RequestsFit
<1>4. RowsFit'
  <2>1. \A row : RowFits(row)' <=> RowFits(row)
    BY <1>0 DEF RowFits
  <2> QED
    BY <1>0, <2>1 DEF RowsFit, DInv
<1>5. ASSUME NEW c \in Contributions
      PROVE  ContributionFits(c)'
  <2>1. ContributionFits(c) /\ Originals(c)' = Originals(c)
    BY <1>1 DEF DInv, ContributionsFit
  <2>2. Posted(c, rows)' = Posted(c, rows)
    BY <1>0 DEF Posted
  <2>3. contribution[c] = "RECORDED" => Total(c)' = Total(c)
    BY DEF Hidden, Total
  <2> QED
    BY <1>0, <2>1, <2>2, <2>3 DEF ContributionFits
<1> QED
  BY <1>3, <1>4, <1>5 DEF ContributionsFit

\* The start of an operation and the statements of a transaction before its end are hidden.
LEMMA StatementsHidden ==
    ASSUME DInv, NEW r \in Requests,
           \/ ReadOriginals(r) \/ MarkReversed(r) \/ SumContributions(r) \/ WriteShares(r)
           \/ ReadRules(r) \/ SplitAcrossMembers(r) \/ WriteEntry(r) \/ ReplaceRule(r)
           \/ Rollback(r)
    PROVE  Hidden(r)
<1>0. TypeOK /\ r # Free
  BY LedgerAssumption DEF DInv, LInv
<1>1. ASSUME UNCHANGED <<rows, contributionRows, shareRows>>,
             \A q \in Requests \ {r} : job'[q] = job[q] /\ pc'[q] = pc[q],
             job'[r].on \in {job[r].on, NoContribution},
             \A c \in Contributions : contribution[c] # "NONE" \/ job[r].on # c => met'[c] = met[c]
      PROVE  Hidden(r)
  <2>1. \A c \in Contributions : job[r].on # c => job'[r].on # c
    BY <1>1, LedgerAssumption
  <2> QED
    BY <1>1, <2>1 DEF Hidden, contributionRows, shareRows
<1>2. ASSUME NEW p, Plan(r, p)
      PROVE  (\A q \in Requests \ {r} : job'[q] = job[q]) /\ job'[r].on = job[r].on
  BY <1>0, <1>2 DEF Plan, TypeOK, Jobs
<1>3. ASSUME NEW l, Goto(r, l)
      PROVE  \A q \in Requests \ {r} : pc'[q] = pc[q]
  BY <1>0, <1>3 DEF Goto, TypeOK
<1>4. CASE ReadOriginals(r)
  BY <1>1, <1>2, <1>3, <1>4 DEF ReadOriginals, UnchangedRows, ruleRows
<1>5. CASE SplitAcrossMembers(r)
  BY <1>1, <1>2, <1>5 DEF SplitAcrossMembers, UnchangedRows, ruleRows
<1>6. CASE SumContributions(r)
  <2>1. (\A q \in Requests \ {r} : job'[q] = job[q]) /\ job'[r].on = job[r].on
    BY <1>0, <1>6 DEF SumContributions, TypeOK, Jobs
  <2> QED
    BY <1>1, <1>3, <1>6, <2>1 DEF SumContributions, UnchangedRows, ruleRows
<1>7. CASE WriteEntry(r)
  <2>1. (\A q \in Requests \ {r} : job'[q] = job[q]) /\ job'[r].on = job[r].on
    BY <1>0, <1>7 DEF WriteEntry, TypeOK, Jobs
  <2> QED
    BY <1>1, <1>7, <2>1 DEF WriteEntry, ruleRows
<1>8. CASE ReadRules(r)
  <2>1. (\A q \in Requests \ {r} : job'[q] = job[q]) /\ job'[r].on = job[r].on
    BY <1>2, <1>8 DEF ReadRules
  <2>2. ASSUME NEW c \in Contributions, contribution[c] # "NONE" \/ job[r].on # c
        PROVE  met'[c] = met[c]
    <3>1. job[r].kind = "CONTRIBUTION" => job[r].on # c
      <4>1. job[r].kind = "CONTRIBUTION" => Records(r, job[r].on)
        BY DEF DInv, RequestsFit, RequestFits
      <4> QED
        BY <2>2, <4>1 DEF Records
    <3> QED
      BY <1>0, <1>8, <3>1 DEF ReadRules, TypeOK
  <2> QED
    BY <1>1, <1>3, <1>8, <2>1, <2>2 DEF ReadRules
<1>9. CASE ReplaceRule(r)
  BY <1>0, <1>1, <1>9 DEF ReplaceRule, Goto, TypeOK, NoJob
<1>10. CASE MarkReversed(r)
  <2>1. PICK c \in Contributions : c = job[r].on
    <3>1. job[r].on \in Contributions \cup {NoContribution}
      BY <1>0 DEF TypeOK, Jobs
    <3>2. job[r].on # NoContribution
      BY <1>10 DEF MarkReversed, DInv, RequestsFit, RequestFits
    <3> QED
      BY <3>1, <3>2
  <2>2. /\ contributionLock[c] \in {r, Free}
        /\ contributionLock' = [contributionLock EXCEPT ![c] = r]
        /\ newContribution' = [newContribution EXCEPT ![c] = "REVERSED"]
    BY <1>10, <2>1 DEF MarkReversed, Lockable
  <2>3. \A d \in Contributions, q \in Requests \ {r} :
           /\ contributionLock'[d] = q => contributionLock[d] = q
           /\ contributionLock[d] = q =>
                 contributionLock'[d] = q /\ newContribution'[d] = newContribution[d]
    BY <1>0, <2>2, LedgerAssumption DEF TypeOK
  <2> QED
    BY <1>3, <1>10, <2>3 DEF MarkReversed, Hidden, shareRows, ruleRows
<1>11. CASE WriteShares(r)
  <2>1. \A m \in Members : shareLock[m] \in {r, Free}
    BY <1>11 DEF WriteShares, Lockable
  <2>2. \A m \in Members, q \in Requests \ {r} : shareLock[m] # q
    BY <2>1, LedgerAssumption
  <2> QED
    BY <1>3, <1>11, <2>2 DEF WriteShares, Hidden, contributionRows, ruleRows
<1>12. CASE Rollback(r)
  <2>1. \A q \in Requests \ {r} : job'[q] = job[q] /\ pc'[q] = pc[q]
    BY <1>0, <1>12 DEF Rollback, Return, Goto, TypeOK
  <2>2. \A c \in Contributions : job'[r].on # c
    BY <1>0, <1>12, LedgerAssumption DEF Rollback, Return, NoJob, TypeOK
  <2>3. \A c \in Contributions, q \in Requests \ {r} :
           /\ contributionLock'[c] = q => contributionLock[c] = q
           /\ contributionLock[c] = q =>
                 contributionLock'[c] = q /\ newContribution'[c] = newContribution[c]
    BY <1>0, <1>12, LedgerAssumption DEF Rollback, Released, AfterRollback, TypeOK
  <2>4. \A m \in Members, q \in Requests \ {r} :
           shareLock[m] = q => shareLock'[m] = q /\ newShares'[m] = newShares[m]
    BY <1>0, <1>12, LedgerAssumption DEF Rollback, Released, AfterRollback, TypeOK
  <2> QED
    BY <1>12, <2>1, <2>2, <2>3, <2>4 DEF Rollback, Hidden, ruleRows
<1> QED
  BY <1>4, <1>5, <1>6, <1>7, <1>8, <1>9, <1>10, <1>11, <1>12

-----------------------------------------------------------------------------
(* What a step leaves of its own request *)

\* An operation starts with what it is about to insert.
LEMMA StartHidden ==
    ASSUME DInv, NEW r \in Requests, NEW l, NEW new, Start(r, l, new),
           \A c \in Contributions : contribution[c] = "NONE" /\ new.on = c => \A q \in Requests : job[q].on # c
    PROVE  /\ Hidden(r) /\ pc'[r] = l /\ job'[r] = new
           /\ UNCHANGED <<rows, contribution, contributionLock>>
           /\ \A c \in Contributions : contributionLock[c] # r
           /\ \A row : RowFits(row) => RowFits(row)'
<1>1. \A c \in Contributions : contributionLock[c] # r
  BY DEF Start, DInv, RequestsFit, RequestFits
<1>2. UNCHANGED <<rows, contributionRows, shareRows, ruleRows>>
  BY DEF Start
<1>3. /\ job'[r] = new /\ pc'[r] = l
      /\ \A q \in Requests \ {r} : job'[q] = job[q] /\ pc'[q] = pc[q]
  BY DEF Start, Goto, DInv, LInv, TypeOK
<1>4. Hidden(r)
  BY <1>2, <1>3 DEF Hidden, contributionRows, shareRows, ruleRows
<1> QED
  BY <1>1, <1>2, <1>3, <1>4 DEF contributionRows, RowFits

\* An operation on no contribution.
LEMMA StartElsewhereFits ==
    ASSUME DInv, NEW r \in Requests, NEW l, NEW new, Start(r, l, new), l \notin {"idle", "originals"},
           new.on = NoContribution, new.kind \notin {"CONTRIBUTION", "CONTRIBUTION_REVERSAL"},
           new.made = <<>>, \A row \in Range(new.plan) : RowFits(row) /\ row.source = NoContribution
    PROVE  Hidden(r) /\ RequestFits(r)'
<1>1. \A c \in Contributions : new.on # c
  BY LedgerAssumption
<1>2. /\ Hidden(r) /\ pc'[r] = l /\ job'[r] = new
      /\ UNCHANGED contributionLock /\ \A c \in Contributions : contributionLock[c] # r
      /\ \A row : RowFits(row) => RowFits(row)'
  BY <1>1, StartHidden
<1>3. Entered(r)' = Range(new.plan)
  BY <1>2 DEF Entered, Range
<1> QED
  BY <1>2, <1>3 DEF RequestFits

\* A contribution, or the reversal of one.
LEMMA StartOnFits ==
    ASSUME DInv, NEW r \in Requests, NEW l, NEW new, Start(r, l, new), NEW c \in Contributions,
           new.on = c, new.plan = <<>>, new.made = <<>>,
           \/ /\ new.kind = "CONTRIBUTION" /\ l = "sum" /\ new.amount = Contributed[c]
              /\ contribution[c] = "NONE" /\ \A q \in Requests : job[q].on # c
           \/ new.kind = "CONTRIBUTION_REVERSAL" /\ l = "originals" /\ contribution[c] # "NONE"
    PROVE  Hidden(r) /\ RequestFits(r)'
<1>1. /\ Hidden(r) /\ pc'[r] = l /\ job'[r] = new
      /\ UNCHANGED <<contribution, contributionLock>>
      /\ \A d \in Contributions : contributionLock[d] # r
  BY StartHidden
<1>2. Entered(r)' = {}
  BY <1>1 DEF Entered, Range
<1>3. c # NoContribution
  BY LedgerAssumption
<1>4. new.kind = "CONTRIBUTION" => Records(r, c)'
  BY <1>1, <1>2 DEF Records, Hidden
<1>5. new.kind = "CONTRIBUTION_REVERSAL" => Reverses(r, c)'
  BY <1>1, <1>2 DEF Reverses
<1>6. /\ job'[r].kind = "CONTRIBUTION" => Records(r, job[r].on)'
      /\ job'[r].kind = "CONTRIBUTION_REVERSAL" => Reverses(r, job[r].on)'
  BY <1>1, <1>4, <1>5
<1> QED
  BY <1>1, <1>2, <1>3, <1>6 DEF RequestFits

\* The reversal of a row names what the row names.
LEMMA OffsetFits ==
    ASSUME DInv, NEW i \in DOMAIN rows
    PROVE  /\ RowFits(Offset(i)) /\ Offset(i).source = rows[i].source
           /\ Offset(i).reverses = i /\ i # 0 /\ Offset(i).vault \in Vaults
<1>1. rows[i] \in Row /\ rows[i] \in Range(rows) /\ i \in Nat /\ i # 0
  BY DEF DInv, LInv, TypeOK, Range
<1>2. RowFits(rows[i]) /\ rows[i].vault \in Vaults
  BY <1>1 DEF DInv, RowsFit
<1>3. /\ Offset(i).source = rows[i].source /\ Offset(i).sourceType = rows[i].sourceType
      /\ Offset(i).reverses = i /\ Offset(i).vault = rows[i].vault
  BY <1>1 DEF Offset, Mirror, Row
<1>4. Offset(i) = Mirror(rows[Offset(i).reverses], Offset(i).reverses)
  BY <1>3 DEF Offset
<1> QED
  BY <1>1, <1>2, <1>3, <1>4 DEF RowFits

LEMMA BeginFits ==
    ASSUME DInv, NEW r \in Requests, Begin(r)
    PROVE  UNCHANGED vars \/ (Hidden(r) /\ RequestFits(r)')
<1>1. ASSUME NEW m \in Members, NEW a \in Amounts, StartWithdrawal(r, m, a)
      PROVE  Hidden(r) /\ RequestFits(r)'
  <2>1. RowFits(Withdrawn(m, a)) /\ Withdrawn(m, a).source = NoContribution
    BY DEF Withdrawn, RowFits
  <2>2. PICK new : new = [NoJob EXCEPT !.kind = "WITHDRAWAL", !.amount = a, !.plan = <<Withdrawn(m, a)>>]
    OBVIOUS
  <2>3. /\ new.on = NoContribution /\ new.kind = "WITHDRAWAL" /\ new.made = <<>>
        /\ new.plan = <<Withdrawn(m, a)>>
    BY <2>2 DEF NoJob
  <2>4. \A row \in Range(new.plan) : row = Withdrawn(m, a)
    BY <2>3 DEF Range
  <2>5. Start(r, "write", new)
    BY <1>1, <2>2 DEF StartWithdrawal
  <2>6. \A row \in Range(new.plan) : RowFits(row) /\ row.source = NoContribution
    BY <2>1, <2>4
  <2> QED
    BY <2>3, <2>5, <2>6, StartElsewhereFits
<1>2. ASSUME NEW i \in DOMAIN rows, StartReversal(r, i) \/ StartEntryReversal(r, i)
      PROVE  Hidden(r) /\ RequestFits(r)'
  <2>1. rows[i].sourceType # "CONTRIBUTION"
    BY <1>2 DEF StartReversal, StartEntryReversal
  <2>2. rows[i].source = NoContribution
    BY <2>1 DEF DInv, RowsFit, RowFits, Range
  <2>3. RowFits(Offset(i)) /\ Offset(i).source = NoContribution
    BY <2>2, OffsetFits
  <2>4. PICK k \in {"REVERSAL", "ENTRY_REVERSAL"} :
            Start(r, "write", [NoJob EXCEPT !.kind = k, !.plan = <<Offset(i)>>])
    BY <1>2 DEF StartReversal, StartEntryReversal
  <2>5. PICK new : new = [NoJob EXCEPT !.kind = k, !.plan = <<Offset(i)>>]
    OBVIOUS
  <2>6. /\ new.on = NoContribution /\ new.kind = k /\ new.made = <<>>
        /\ new.plan = <<Offset(i)>>
    BY <2>5 DEF NoJob
  <2>7. \A row \in Range(new.plan) : row = Offset(i)
    BY <2>6 DEF Range
  <2>8. Start(r, "write", new)
    BY <2>4, <2>5
  <2>9. \A row \in Range(new.plan) : RowFits(row) /\ row.source = NoContribution
    BY <2>3, <2>7
  <2> QED
    BY <2>6, <2>8, <2>9, StartElsewhereFits
<1>3. ASSUME NEW k \in {"PROJECT_REVENUE", "PROJECT_EXPENSE"}, NEW a \in Amounts,
             StartEntry(r, k, a)
      PROVE  Hidden(r) /\ RequestFits(r)'
  <2>1. PICK new : new = [NoJob EXCEPT !.kind = k, !.amount = a]
    OBVIOUS
  <2>2. /\ new.on = NoContribution /\ new.kind = k /\ new.made = <<>> /\ new.plan = <<>>
    BY <2>1 DEF NoJob
  <2>3. Range(new.plan) = {}
    BY <2>2 DEF Range
  <2>4. Start(r, "rules", new)
    BY <1>3, <2>1 DEF StartEntry
  <2> QED
    BY <2>2, <2>3, <2>4, StartElsewhereFits
<1>4. ASSUME NEW i \in RuleIds, StartReplace(r, i)
      PROVE  Hidden(r) /\ RequestFits(r)'
  <2>1. PICK new : new = [NoJob EXCEPT !.rule = i]
    OBVIOUS
  <2>2. /\ new.on = NoContribution /\ new.kind = "NONE" /\ new.made = <<>> /\ new.plan = <<>>
    BY <2>1 DEF NoJob
  <2>3. Range(new.plan) = {}
    BY <2>2 DEF Range
  <2>4. Start(r, "replace", new)
    BY <1>4, <2>1 DEF StartReplace
  <2> QED
    BY <2>2, <2>3, <2>4, StartElsewhereFits
<1>5. ASSUME NEW c \in Contributions, StartContribution(r, c)
      PROVE  Hidden(r) /\ RequestFits(r)'
  <2>1. PICK new : new = [NoJob EXCEPT !.kind = "CONTRIBUTION", !.on = c, !.amount = Contributed[c]]
    OBVIOUS
  <2>2. /\ new.on = c /\ new.kind = "CONTRIBUTION" /\ new.made = <<>> /\ new.plan = <<>>
        /\ new.amount = Contributed[c]
    BY <2>1 DEF NoJob
  <2>3. Start(r, "sum", new) /\ contribution[c] = "NONE" /\ \A q \in Requests : job[q].on # c
    BY <1>5, <2>1 DEF StartContribution
  <2> QED
    BY <2>2, <2>3, StartOnFits
<1>6. ASSUME NEW c \in Contributions, StartContributionReversal(r, c)
      PROVE  Hidden(r) /\ RequestFits(r)'
  <2>1. PICK new : new = [NoJob EXCEPT !.kind = "CONTRIBUTION_REVERSAL", !.on = c]
    OBVIOUS
  <2>2. /\ new.on = c /\ new.kind = "CONTRIBUTION_REVERSAL" /\ new.made = <<>> /\ new.plan = <<>>
    BY <2>1 DEF NoJob
  <2>3. Start(r, "originals", new) /\ contribution[c] # "NONE"
    BY <1>6, <2>1 DEF StartContributionReversal
  <2> QED
    BY <2>2, <2>3, StartOnFits
<1>7. CASE RefuseEntry(r)
  BY <1>7 DEF RefuseEntry
<1> QED
  BY <1>1, <1>2, <1>3, <1>4, <1>5, <1>6, <1>7 DEF Begin

\* A request that works on a contribution works on one there is.
LEMMA OnContribution ==
    ASSUME DInv, NEW r \in Requests, job[r].kind \in {"CONTRIBUTION", "CONTRIBUTION_REVERSAL"}
    PROVE  /\ job[r].on \in Contributions
           /\ job[r].kind = "CONTRIBUTION" => Records(r, job[r].on)
           /\ job[r].kind = "CONTRIBUTION_REVERSAL" => Reverses(r, job[r].on)
BY DEF DInv, LInv, TypeOK, Jobs, RequestsFit, RequestFits

\* The originals of a contribution are places of rows.
LEMMA OriginalsType ==
    ASSUME DInv, NEW c
    PROVE  IsFiniteSet(Originals(c)) /\ Originals(c) \subseteq Nat /\ Originals(c) \subseteq DOMAIN rows
<1>1. DOMAIN rows = 1..Len(rows) /\ Len(rows) \in Nat
  BY DEF DInv, LInv, TypeOK
<1>2. Originals(c) \subseteq 1..Len(rows)
  BY <1>1 DEF Originals
<1>3. IsFiniteSet(1..Len(rows))
  BY <1>1, FS_Interval
<1> QED
  BY <1>1, <1>2, <1>3, FS_Subset

LEMMA ReadOriginalsFits ==
    ASSUME DInv, NEW r \in Requests, ReadOriginals(r)
    PROVE  RequestFits(r)'
<1>0. TypeOK /\ job[r] \in Jobs /\ RequestFits(r) /\ pc[r] = "originals"
  BY DEF DInv, LInv, TypeOK, RequestsFit, ReadOriginals
<1>1. job[r].kind = "CONTRIBUTION_REVERSAL"
  BY <1>0 DEF RequestFits
<1>2. PICK c \in Contributions : c = job[r].on /\ Reverses(r, c)
  BY <1>1, OnContribution
<1>3. PICK order : order = InOrder(Originals(c))
  OBVIOUS
<1>4. /\ \A n \in DOMAIN order : order[n] \in Originals(c)
      /\ \A i \in Originals(c) : \E n \in DOMAIN order : order[n] = i
  <2>1. /\ order \in [1..Cardinality(Originals(c)) -> Originals(c)]
        /\ \A i \in Originals(c) : \E n \in 1..Cardinality(Originals(c)) : order[n] = i
    BY <1>3, OriginalsType, InOrderLists
  <2> QED
    BY <2>1
<1>5. /\ job' = [job EXCEPT ![r] = [job[r] EXCEPT !.plan = [n \in DOMAIN order |-> Offset(order[n])]]]
      /\ pc' = [pc EXCEPT ![r] = "write"]
      /\ UNCHANGED <<rows, contribution, newContribution, contributionLock>>
  BY <1>0, <1>2, <1>3 DEF ReadOriginals, Plan, Goto, TypeOK, UnchangedRows, contributionRows
<1>6. /\ job'[r].plan = [n \in DOMAIN order |-> Offset(order[n])] /\ pc'[r] = "write"
      /\ job'[r].kind = job[r].kind /\ job'[r].on = c /\ job'[r].made = job[r].made
  BY <1>0, <1>2, <1>5 DEF Jobs, TypeOK
<1>7. Range(job[r].made) = {}
  BY <1>0, <1>2 DEF Reverses, Entered
<1>8. Entered(r)' = {Offset(i) : i \in Originals(c)}
  <2>1. Range([n \in DOMAIN order |-> Offset(order[n])]) = {Offset(i) : i \in Originals(c)}
    BY <1>4 DEF Range
  <2> QED
    BY <1>6, <1>7, <2>1 DEF Entered
<1>9. ASSUME NEW row, NEW i \in Originals(c), row = Offset(i)
      PROVE  /\ RowFits(row)' /\ row.source = c
             /\ row.reverses = i /\ row.reverses # 0 /\ row.vault \in Vaults
  <2>1. i \in DOMAIN rows /\ rows[i].source = c
    BY DEF Originals
  <2>2. RowFits(row)
    BY <1>9, <2>1, OffsetFits
  <2>3. RowFits(row) => RowFits(row)'
    BY <1>5 DEF RowFits
  <2> QED
    BY <1>9, <2>1, <2>2, <2>3, OffsetFits
<1>10. Originals(c)' = Originals(c)
  BY <1>5 DEF Originals, Reversals
<1>11. Reverses(r, c)'
  BY <1>2, <1>5, <1>6, <1>8, <1>9, <1>10 DEF Reverses
<1>12. \A d \in Contributions : contributionLock'[d] # r
  BY <1>0, <1>5 DEF RequestFits
<1>13. /\ \A row \in Entered(r)' : RowFits(row)' /\ row.source = c
       /\ c # NoContribution
  BY <1>8, <1>9, LedgerAssumption
<1> QED
  BY <1>1, <1>6, <1>11, <1>12, <1>13 DEF RequestFits

LEMMA MarkReversedFits ==
    ASSUME DInv, NEW r \in Requests, MarkReversed(r)
    PROVE  RequestFits(r)'
<1>0. /\ TypeOK /\ RequestFits(r) /\ pc[r] = "write" /\ job[r].plan = <<>>
      /\ job[r].kind = "CONTRIBUTION_REVERSAL"
  BY DEF DInv, LInv, RequestsFit, MarkReversed
<1>1. PICK c \in Contributions : c = job[r].on /\ Reverses(r, c)
  BY <1>0, OnContribution
<1>2. /\ contributionLock' = [contributionLock EXCEPT ![c] = r]
      /\ newContribution' = [newContribution EXCEPT ![c] = "REVERSED"]
      /\ pc' = [pc EXCEPT ![r] = "sum"]
      /\ UNCHANGED <<rows, contribution, job>>
  BY <1>1 DEF MarkReversed, Goto
<1>3. Originals(c)' = Originals(c) /\ \A row : RowFits(row) => RowFits(row)'
  BY <1>2 DEF Originals, Reversals, RowFits
<1>4. Entered(r)' = Entered(r) /\ pc'[r] = "sum"
  BY <1>0, <1>2 DEF Entered, TypeOK
<1>5. contributionLock'[c] = r /\ newContribution'[c] = "REVERSED"
  BY <1>0, <1>2 DEF TypeOK
<1>6. Reverses(r, c)'
  BY <1>0, <1>1, <1>2, <1>3, <1>4, <1>5 DEF Reverses
<1>7. \A d \in Contributions : contributionLock'[d] = r => d = c
  BY <1>0, <1>2 DEF TypeOK, RequestFits
<1> QED
  BY <1>0, <1>1, <1>2, <1>3, <1>4, <1>6, <1>7 DEF RequestFits

\* A contribution counts for its own request.
LEMMA SumContributionsFits ==
    ASSUME DInv, NEW r \in Requests, SumContributions(r)
    PROVE  RequestFits(r)'
<1>0. TypeOK /\ job[r] \in Jobs /\ RequestFits(r) /\ pc[r] = "sum"
  BY DEF DInv, LInv, TypeOK, RequestsFit, SumContributions
<1>1. PICK totals : totals = [m \in Members |->
            SumFunction([c \in {d \in Counted(r) : Contributor[d] = m} |-> Contributed[c]])]
  OBVIOUS
<1>2. /\ job' = [job EXCEPT ![r] = [job[r] EXCEPT !.totals = totals]]
      /\ pc' = [pc EXCEPT ![r] = "shares"]
      /\ UNCHANGED <<rows, contribution, newContribution, contributionLock, newShares, shareLock, met>>
  BY <1>0, <1>1
  DEF SumContributions, Goto, TypeOK, UnchangedRows, contributionRows, shareRows, ruleRows
<1>3. /\ job'[r].kind = job[r].kind /\ job'[r].on = job[r].on /\ job'[r].amount = job[r].amount
      /\ job'[r].plan = job[r].plan /\ job'[r].made = job[r].made /\ job'[r].totals = totals
      /\ pc'[r] = "shares" /\ \A q \in Requests \ {r} : job'[q] = job[q]
  BY <1>0, <1>2 DEF Jobs, TypeOK
<1>4. Entered(r)' = Entered(r) /\ \A row : RowFits(row) => RowFits(row)'
  BY <1>2, <1>3 DEF Entered, RowFits
<1>5. ASSUME NEW c \in Contributions, c = job[r].on, job[r].kind = "CONTRIBUTION"
      PROVE  Records(r, c)'
  <2>1. Records(r, c)
    BY <1>5, OnContribution
  <2>2. totals[Contributor[c]] > 0
    <3>1. PICK D : D = {d \in Counted(r) : Contributor[d] = Contributor[c]}
      OBVIOUS
    <3>2. c \in D /\ D \subseteq Contributions /\ IsFiniteSet(D) /\ IsFiniteSet(D \ {c})
      <4>1. c \in D /\ D \subseteq Contributions
        BY <1>5, <3>1 DEF Counted
      <4>2. IsFiniteSet(Contributions)
        BY LedgerAssumption
      <4> QED
        BY <4>1, <4>2, FS_Subset
    <3>3. \A d \in D : Contributed[d] \in Nat /\ Contributed[d] # 0
      BY <3>2, LedgerAssumption
    <3>4. SumOver(Contributed, D) = Contributed[c] + SumOver(Contributed, D \ {c})
      BY <3>2, <3>3, SumsOver
    <3>5. SumOver(Contributed, D \ {c}) \in Nat
      <4>1. PICK f : f = [d \in D \ {c} |-> Contributed[d]]
        OBVIOUS
      <4>2. DOMAIN f = D \ {c} /\ \A d \in DOMAIN f : f[d] \in Nat
        BY <3>3, <4>1
      <4>3. SumFunction(f) \in Nat
        BY <3>2, <4>2, SumTypes
      <4> QED
        BY <4>1, <4>3 DEF SumOver
    <3>6. totals[Contributor[c]] = SumOver(Contributed, D)
      <4>1. Contributor[c] \in Members
        BY LedgerAssumption
      <4> QED
        BY <1>1, <3>1, <4>1 DEF SumOver
    <3>7. Contributed[c] \in Nat /\ Contributed[c] # 0
      BY <3>2, <3>3
    <3> QED
      BY <3>4, <3>5, <3>6, <3>7
  <2> QED
    BY <1>0, <1>2, <1>3, <1>4, <2>1, <2>2 DEF Records
<1>6. ASSUME NEW c \in Contributions, c = job[r].on, job[r].kind = "CONTRIBUTION_REVERSAL"
      PROVE  Reverses(r, c)'
  <2>1. Reverses(r, c)
    BY <1>6, OnContribution
  <2>2. Originals(c)' = Originals(c)
    BY <1>2 DEF Originals, Reversals
  <2> QED
    BY <1>0, <1>2, <1>3, <1>4, <2>1, <2>2 DEF Reverses
<1>7. /\ job[r].kind = "CONTRIBUTION" => Records(r, job[r].on)'
      /\ job[r].kind = "CONTRIBUTION_REVERSAL" => Reverses(r, job[r].on)'
  BY <1>3, <1>5, <1>6, OnContribution
<1>8. \A c \in Contributions : contributionLock'[c] = r =>
          job[r].kind = "CONTRIBUTION_REVERSAL" /\ job[r].on = c
  BY <1>0, <1>2 DEF RequestFits
<1> QED
  BY <1>0, <1>3, <1>4, <1>7, <1>8 DEF RequestFits

LEMMA WriteSharesFits ==
    ASSUME DInv, NEW r \in Requests, WriteShares(r)
    PROVE  RequestFits(r)'
<1>0. TypeOK /\ RequestFits(r) /\ pc[r] = "shares"
  BY DEF DInv, LInv, RequestsFit, WriteShares
<1>1. /\ shareLock' = [m \in Members |-> r] /\ newShares' = job[r].totals
      /\ pc' = [pc EXCEPT ![r] = IF job[r].kind = "CONTRIBUTION" THEN "rules" ELSE "commit"]
      /\ UNCHANGED <<rows, contribution, newContribution, contributionLock, job, met>>
  BY DEF WriteShares, Goto, contributionRows, ruleRows
<1>2. pc'[r] = IF job[r].kind = "CONTRIBUTION" THEN "rules" ELSE "commit"
  BY <1>0, <1>1 DEF TypeOK
<1>3. Entered(r)' = Entered(r) /\ \A row : RowFits(row) => RowFits(row)'
  BY <1>1 DEF Entered, RowFits
<1>4. ASSUME NEW c \in Contributions, c = job[r].on, job[r].kind = "CONTRIBUTION"
      PROVE  Records(r, c)'
  <2>1. Records(r, c) /\ Contributor[c] \in Members
    BY <1>4, OnContribution, LedgerAssumption
  <2> QED
    BY <1>0, <1>1, <1>2, <1>3, <1>4, <2>1 DEF Records
<1>5. ASSUME NEW c \in Contributions, c = job[r].on, job[r].kind = "CONTRIBUTION_REVERSAL"
      PROVE  Reverses(r, c)'
  <2>1. Reverses(r, c)
    BY <1>5, OnContribution
  <2>2. Originals(c)' = Originals(c)
    BY <1>1 DEF Originals, Reversals
  <2> QED
    BY <1>0, <1>1, <1>2, <1>3, <1>5, <2>1, <2>2 DEF Reverses
<1>6. /\ job[r].kind = "CONTRIBUTION" => Records(r, job[r].on)'
      /\ job[r].kind = "CONTRIBUTION_REVERSAL" => Reverses(r, job[r].on)'
  BY <1>1, <1>4, <1>5, OnContribution
<1>7. \A c \in Contributions : contributionLock'[c] = r =>
          job[r].kind = "CONTRIBUTION_REVERSAL" /\ job[r].on = c
  BY <1>0, <1>1 DEF RequestFits
<1> QED
  BY <1>0, <1>1, <1>2, <1>3, <1>6, <1>7 DEF RequestFits

\* What a request may insert for what it works on, if nothing in it reverses a row.
LEMMA PassingFits ==
    ASSUME DInv, NEW r \in Requests, NEW k, k = "CONTRIBUTION" <=> job[r].kind = "CONTRIBUTION",
           job[r].kind # "CONTRIBUTION_REVERSAL", NEW row \in Passing(k, job[r].on)
    PROVE  RowFits(row) /\ row.source = job[r].on /\ row.reverses = 0
<1>1. /\ row.sourceType = k /\ row.source = job[r].on /\ row.reverses = 0
      /\ k = "CONTRIBUTION" => row.direction = "CREDIT"
  BY DEF Passing
<1>2. job[r].on # NoContribution <=> k = "CONTRIBUTION"
  BY DEF DInv, RequestsFit, RequestFits
<1> QED
  BY <1>1, <1>2 DEF RowFits

LEMMA ReadRulesFits ==
    ASSUME DInv, TypeOK', NEW r \in Requests, ReadRules(r)
    PROVE  RequestFits(r)'
<1>0. TypeOK /\ job[r] \in Jobs /\ RequestFits(r) /\ pc[r] = "rules"
  BY DEF DInv, LInv, TypeOK, RequestsFit, ReadRules
<1>1. PICK k : k = job[r].kind
  OBVIOUS
<1>2. PICK c \in Contributions \cup {NoContribution} : c = job[r].on
  BY <1>0 DEF Jobs
<1>3. k \in SourceTypes
  <2>1. CASE k = "CONTRIBUTION"
    BY <2>1 DEF SourceTypes
  <2>2. CASE k # "CONTRIBUTION"
    <3>1. PICK i \in RuleIds : rule[i].source = k
      BY <1>1, <2>2 DEF ReadRules, ActiveRules
    <3> QED
      BY <1>0, <3>1 DEF TypeOK
  <2> QED
    BY <2>1, <2>2
<1>4. k # "CONTRIBUTION_REVERSAL"
  BY <1>3 DEF SourceTypes
<1>5. PICK plan : plan = AllEntries(ActiveRules(k), k, job[r].amount, c)
  OBVIOUS
<1>6. plan \in Seq(Row) /\ plan \in Seq(Passing(k, c))
  <2>1. job[r].amount \in Int
    BY <1>0 DEF Jobs
  <2> QED
    BY <1>3, <1>5, <2>1, AllEntriesType
<1>7. /\ job' = [job EXCEPT ![r] = [job[r] EXCEPT !.plan = plan]]
      /\ pc' = [pc EXCEPT ![r] = "write"]
      /\ met' = IF k = "CONTRIBUTION" THEN [met EXCEPT ![c] = Cardinality(ActiveRules(k))] ELSE met
      /\ UNCHANGED <<rows, contribution, newContribution, contributionLock, newShares, shareLock>>
  BY <1>0, <1>1, <1>2, <1>5 DEF ReadRules, Plan, Goto, TypeOK, contributionRows, shareRows
<1>8. /\ job'[r].kind = k /\ job'[r].on = c /\ job'[r].amount = job[r].amount
      /\ job'[r].plan = plan /\ job'[r].made = job[r].made
      /\ pc'[r] = "write" /\ \A q \in Requests \ {r} : job'[q] = job[q]
  BY <1>0, <1>1, <1>2, <1>7 DEF Jobs, TypeOK
<1>9. \A row \in Range(plan) : RowFits(row) /\ row.source = c /\ row.reverses = 0
  <2>1. \A row \in Range(plan) : row \in Passing(k, c)
    BY <1>6 DEF Range
  <2> QED
    BY <1>1, <1>2, <1>4, <2>1, PassingFits
<1>10. Entered(r)' = Range(plan) \cup Range(job[r].made)
  BY <1>8 DEF Entered
<1>11. ASSUME NEW row \in Entered(r)'
       PROVE  RowFits(row)' /\ row.source = c
  <2>1. RowFits(row) /\ row.source = c
    BY <1>0, <1>2, <1>9, <1>10 DEF RequestFits, Entered
  <2> QED
    BY <1>7, <2>1 DEF RowFits
<1>12. ASSUME k = "CONTRIBUTION"
       PROVE  Records(r, c)'
  <2>1. c \in Contributions /\ Records(r, c)
    BY <1>1, <1>2, <1>12, OnContribution
  <2>2. job[r].amount = Contributed[c] /\ Range(job[r].made) = {}
    BY <1>0, <2>1 DEF Records, Entered
  <2>3. met'[c] = Cardinality(ActiveRules(k))
    BY <1>0, <1>7, <1>12, <2>1 DEF TypeOK
  <2>4. Posted(c, plan) = Contributed[c] * met'[c]
    <3>1. ActiveRules(k) \in SUBSET RuleIds /\ Contributed[c] \in Int
      BY <2>1, LedgerAssumption DEF ActiveRules
    <3> QED
      BY <1>3, <1>5, <2>2, <2>3, <3>1, AllEntriesPost
  <2>5. Posted(c, job[r].made) = 0
    <3>1. job[r].made \in Seq(Row)
      BY <1>0 DEF Jobs
    <3>2. \A i \in DOMAIN job[r].made : job[r].made[i].source # c
      BY <2>2 DEF Range
    <3> QED
      BY <3>1, <3>2, PostedOfRows
  <2>6. Posted(c, job'[r].made) + Posted(c, job'[r].plan) = Contributed[c] * met'[c]
    <3>1. PICK n \in Int : n = Posted(c, plan)
      BY <1>6, PostedOfRows
    <3> QED
      BY <1>8, <2>4, <2>5, <3>1
  <2>7. "CONTRIBUTION" \in Range(Given) => met'[c] # 0
    <3>1. "CONTRIBUTION" \in Range(Given) => ActiveRules(k) # {}
      BY <1>12 DEF DInv, RulesFit
    <3>2. IsFiniteSet(ActiveRules(k))
      <4>1. RuleIds = 1..Len(Rules) /\ Len(Rules) \in Nat
        BY LedgerAssumption DEF RuleIds
      <4>2. ActiveRules(k) \subseteq RuleIds
        BY DEF ActiveRules
      <4>3. IsFiniteSet(1..Len(Rules))
        BY <4>1, FS_Interval
      <4> QED
        BY <4>1, <4>2, <4>3, FS_Subset
    <3> QED
      BY <2>3, <3>1, <3>2, FS_EmptySet
  <2>8. \A row \in Entered(r)' : row.reverses = 0
    BY <1>9, <1>10, <2>2
  <2> QED
    BY <1>0, <1>7, <1>8, <2>1, <2>6, <2>7, <2>8 DEF Records, Total, Posted
<1>13. \A d \in Contributions : contributionLock'[d] # r
  BY <1>0, <1>7 DEF RequestFits
<1>14. c # NoContribution <=> k = "CONTRIBUTION"
  BY <1>0, <1>1, <1>2, <1>4 DEF RequestFits
<1> QED
  BY <1>4, <1>8, <1>11, <1>12, <1>13, <1>14 DEF RequestFits

\* The rows of a list: its first one and the others; those there were and a new one.
LEMMA RangesOfRows ==
    ASSUME NEW s \in Seq(Row)
    PROVE  /\ s # <<>> => /\ Head(s) \in Row /\ Tail(s) \in Seq(Row)
                          /\ Range(s) = {Head(s)} \cup Range(Tail(s))
           /\ \A e \in Row : Range(Append(s, e)) = Range(s) \cup {e}
           /\ \A t \in Seq(Row) : Range(s \o t) = Range(s) \cup Range(t)
<1>1. ASSUME s # <<>>
      PROVE  /\ Head(s) \in Row /\ Tail(s) \in Seq(Row)
             /\ Range(s) = {Head(s)} \cup Range(Tail(s))
  <2>1. PICK t : t = Tail(s) /\ t \in Seq(Row)
    BY <1>1, HeadTailProperties
  <2>2. PICK n \in Nat : n = Len(s) /\ n # 0 /\ DOMAIN s = 1..n /\ Len(t) = n - 1
    BY <1>1, <2>1
  <2>3. DOMAIN t = 1..(n - 1) /\ \A i \in 1..(n - 1) : t[i] = s[i + 1]
    BY <1>1, <2>1, <2>2
  <2>4. Head(s) = s[1] /\ 1 \in 1..n /\ s[1] \in Row
    BY <1>1, <2>2
  <2>5. ASSUME NEW i \in 1..n, i # 1
        PROVE  i - 1 \in 1..(n - 1) /\ t[i - 1] = s[i]
    <3>1. i - 1 \in 1..(n - 1) /\ (i - 1) + 1 = i
      BY <2>2, <2>5
    <3> QED
      BY <2>3, <3>1
  <2>6. \A i \in 1..(n - 1) : i + 1 \in 1..n
    BY <2>2
  <2>7. Range(s) = {s[1]} \cup Range(t)
    <3>1. \A i \in DOMAIN s : s[i] \in {s[1]} \cup Range(t)
      BY <2>2, <2>3, <2>5 DEF Range
    <3>2. \A i \in DOMAIN t : t[i] \in Range(s)
      BY <2>2, <2>3, <2>6 DEF Range
    <3>3. s[1] \in Range(s)
      BY <2>2, <2>4 DEF Range
    <3> QED
      BY <3>1, <3>2, <3>3 DEF Range
  <2> QED
    BY <2>1, <2>4, <2>7
<1>2. ASSUME NEW e \in Row
      PROVE  Range(Append(s, e)) = Range(s) \cup {e}
  <2>1. PICK t : t = Append(s, e)
    OBVIOUS
  <2>2. /\ DOMAIN t = DOMAIN s \cup {Len(s) + 1} /\ t[Len(s) + 1] = e
        /\ \A i \in DOMAIN s : t[i] = s[i]
    BY <2>1
  <2>3. Range(t) = Range(s) \cup {e}
    BY <2>2 DEF Range
  <2> QED
    BY <2>1, <2>3
<1>3. \A t \in Seq(Row) : Range(s \o t) = Range(s) \cup Range(t)
  BY RangeConcatenation
<1> QED
  BY <1>1, <1>2, <1>3

\* Whoever has summed up a contribution finds somebody with a share.
LEMMA SharesFound ==
    ASSUME DInv, NEW r \in Requests, NEW c \in Contributions, newShares[Contributor[c]] > 0,
           \A m \in Members : shareLock[m] = r
    PROVE  MemberShares(r) # <<>>
<1>1. PICK seen : seen = [m \in Members |-> Visible(shares, newShares, shareLock, m, r)]
  OBVIOUS
<1>2. seen \in [Members -> Nat] /\ Contributor[c] \in Members /\ seen[Contributor[c]] > 0
  BY <1>1, LedgerAssumption DEF DInv, LInv, TypeOK, Visible
<1>3. PICK i \in Members : MemberPercentage(seen, i) # 0
  BY <1>2, SomebodyShares
<1>4. PICK percentage, having :
         /\ percentage = [m \in Members |-> MemberPercentage(seen, m)]
         /\ having = {m \in Members : percentage[m] # 0}
  OBVIOUS
<1>5. i \in having /\ having \subseteq Members
  BY <1>2, <1>3, <1>4
<1>6. IsFiniteSet(having) /\ having \subseteq Nat
  <2>1. IsFiniteSet(Members) /\ Members \subseteq Nat
    <3>1. IsFiniteSet(Members) /\ Members = 1..Cardinality(Members)
      BY LedgerAssumption
    <3>2. Cardinality(Members) \in Nat
      BY <3>1, FS_CardinalityType
    <3> QED
      BY <3>1, <3>2
  <2> QED
    BY <1>5, <2>1, FS_Subset
<1>7. PICK n \in DOMAIN InOrder(having) : TRUE
  <2>1. \E n \in 1..Cardinality(having) : InOrder(having)[n] = i
    BY <1>5, <1>6, InOrderLists
  <2>2. DOMAIN InOrder(having) = 1..Cardinality(having)
    BY <1>6, InOrderType
  <2> QED
    BY <2>1, <2>2
<1>8. DOMAIN MemberShares(r) = DOMAIN InOrder(having)
  BY <1>1, <1>4 DEF MemberShares, Sharers
<1> QED
  BY <1>7, <1>8

LEMMA SplitFits ==
    ASSUME DInv, NEW r \in Requests, SplitAcrossMembers(r)
    PROVE  RequestFits(r)'
<1>0. TypeOK /\ job[r] \in Jobs /\ RequestFits(r) /\ pc[r] = "write" /\ job[r].plan # <<>>
  BY DEF DInv, LInv, TypeOK, RequestsFit, SplitAcrossMembers
<1>1. PICK e : e = Head(job[r].plan)
  OBVIOUS
<1>2. PICK rest : rest = Tail(job[r].plan)
  OBVIOUS
<1>3. /\ e \in Row /\ rest \in Seq(Row) /\ e \in Entered(r)
      /\ Range(rest) \subseteq Range(job[r].plan)
  <2>1. job[r].plan \in Seq(Row)
    BY <1>0 DEF Jobs
  <2> QED
    BY <1>0, <1>1, <1>2, <2>1, RangesOfRows DEF Entered
<1>4. PICK entries : entries = RuleEntries(MemberShares(r), e.amount, e.sourceType, e.source)
  OBVIOUS
<1>5. /\ MemberShares(r) \in Seq(Destinations) /\ e.amount \in Int /\ e.sourceType \in SourceTypes
      /\ e.source \in Contributions \cup {NoContribution}
  BY <1>0, <1>3, MemberSharesType DEF Row
<1>6. entries \in Seq(Row) /\ entries \in Seq(Passing(e.sourceType, e.source))
  BY <1>4, <1>5, RuleEntriesType
<1>7. /\ e.source = job[r].on /\ RowFits(e) /\ job[r].kind # "CONTRIBUTION_REVERSAL"
      /\ e.vault = EveryMember
  <2>1. e.vault = EveryMember /\ EveryMember \notin Vaults
    BY <1>1, LedgerAssumption DEF SplitAcrossMembers
  <2>2. job[r].kind # "CONTRIBUTION_REVERSAL"
    BY <1>3, <2>1, OnContribution DEF Reverses
  <2> QED
    BY <1>0, <1>3, <2>1, <2>2 DEF RequestFits
<1>8. e.sourceType = "CONTRIBUTION" <=> job[r].kind = "CONTRIBUTION"
  BY <1>0, <1>7 DEF RowFits, RequestFits
<1>9. \A row \in Range(entries) : RowFits(row) /\ row.source = job[r].on /\ row.reverses = 0
  <2>1. \A row \in Range(entries) : row \in Passing(e.sourceType, job[r].on)
    BY <1>6, <1>7 DEF Range
  <2> QED
    BY <1>7, <1>8, <2>1, PassingFits
<1>10. PICK plan : plan = entries \o rest
  OBVIOUS
<1>11. plan \in Seq(Row) /\ Range(plan) \subseteq Range(entries) \cup Range(rest)
  <2>1. plan \in Seq(Row)
    BY <1>3, <1>6, <1>10
  <2>2. Range(plan) = Range(entries) \cup Range(rest)
    BY <1>3, <1>6, <1>10, RangesOfRows
  <2> QED
    BY <2>1, <2>2
<1>12. /\ job' = [job EXCEPT ![r] = [job[r] EXCEPT !.plan = plan]]
       /\ UNCHANGED <<rows, contribution, newContribution, contributionLock, newShares, shareLock,
                      met, pc>>
  BY <1>0, <1>1, <1>2, <1>4, <1>10
  DEF SplitAcrossMembers, Plan, TypeOK, UnchangedRows, contributionRows, shareRows, ruleRows
<1>13. /\ job'[r].kind = job[r].kind /\ job'[r].on = job[r].on /\ job'[r].amount = job[r].amount
       /\ job'[r].plan = plan /\ job'[r].made = job[r].made
       /\ \A q \in Requests \ {r} : job'[q] = job[q]
  BY <1>0, <1>12 DEF Jobs, TypeOK
<1>14. Entered(r)' \subseteq Entered(r) \cup Range(entries)
  BY <1>3, <1>11, <1>13 DEF Entered
<1>15. ASSUME NEW row \in Entered(r)'
       PROVE  RowFits(row)' /\ row.source = job[r].on
  <2>1. RowFits(row) /\ row.source = job[r].on
    BY <1>0, <1>9, <1>14 DEF RequestFits
  <2> QED
    BY <1>12, <2>1 DEF RowFits
<1>16. ASSUME NEW c \in Contributions, c = job[r].on, job[r].kind = "CONTRIBUTION"
       PROVE  Records(r, c)'
  <2>1. Records(r, c)
    BY <1>16, OnContribution
  <2>2. Posted(c, plan) = Posted(c, job[r].plan)
    <3>1. MemberShares(r) # <<>>
      BY <1>0, <2>1, SharesFound DEF Records
    <3>2. Posted(c, entries) = e.amount
      BY <1>4, <1>5, <1>7, <1>16, <3>1, RuleEntriesPost
    <3>3. Posted(c, plan) = Posted(c, entries) + Posted(c, rest)
      BY <1>3, <1>6, <1>10, PostedOfRows
    <3>4. Posted(c, job[r].plan) = e.amount + Posted(c, rest)
      <4>1. job[r].plan \in Seq(Row)
        BY <1>0 DEF Jobs
      <4> QED
        BY <1>0, <1>1, <1>2, <1>7, <1>16, <4>1, PostedOfRows
    <3> QED
      BY <3>2, <3>3, <3>4
  <2>3. \A row \in Entered(r)' : row.reverses = 0
    BY <1>9, <1>14, <2>1 DEF Records
  <2> QED
    BY <1>0, <1>12, <1>13, <2>1, <2>2, <2>3 DEF Records, Total, Posted
<1>17. \A c \in Contributions : contributionLock'[c] # r
  BY <1>0, <1>12 DEF RequestFits
<1>18. job[r].kind = "CONTRIBUTION" => Records(r, job[r].on)'
  BY <1>13, <1>16, OnContribution
<1> QED
  BY <1>0, <1>7, <1>12, <1>13, <1>15, <1>17, <1>18 DEF RequestFits

\* An entry that is inserted is no longer about to be.
LEMMA WriteEntryFits ==
    ASSUME DInv, NEW r \in Requests, WriteEntry(r)
    PROVE  RequestFits(r)'
<1>0. TypeOK /\ job[r] \in Jobs /\ RequestFits(r) /\ pc[r] = "write" /\ job[r].plan # <<>>
  BY DEF DInv, LInv, TypeOK, RequestsFit, WriteEntry
<1>1. PICK e : e = Head(job[r].plan)
  OBVIOUS
<1>2. PICK rest : rest = Tail(job[r].plan)
  OBVIOUS
<1>3. PICK made : made = Append(job[r].made, e)
  OBVIOUS
<1>4. /\ job' = [job EXCEPT ![r] = [job[r] EXCEPT !.plan = rest, !.made = made]]
      /\ UNCHANGED <<rows, contribution, newContribution, contributionLock, newShares, shareLock,
                     met, pc>>
  BY <1>0, <1>1, <1>2, <1>3 DEF WriteEntry, TypeOK, contributionRows, shareRows, ruleRows
<1>5. /\ job'[r].kind = job[r].kind /\ job'[r].on = job[r].on /\ job'[r].amount = job[r].amount
      /\ job'[r].plan = rest /\ job'[r].made = made
      /\ \A q \in Requests \ {r} : job'[q] = job[q]
  BY <1>0, <1>4 DEF Jobs, TypeOK
<1>6. /\ job[r].plan \in Seq(Row) /\ job[r].made \in Seq(Row) /\ e \in Row /\ rest \in Seq(Row)
      /\ Range(job[r].plan) = {e} \cup Range(rest)
  <2>1. job[r].plan \in Seq(Row) /\ job[r].made \in Seq(Row)
    BY <1>0 DEF Jobs
  <2> QED
    BY <1>0, <1>1, <1>2, <2>1, RangesOfRows
<1>7. Entered(r)' = Entered(r)
  <2>1. Range(made) = Range(job[r].made) \cup {e}
    BY <1>3, <1>6, RangesOfRows
  <2> QED
    BY <1>5, <1>6, <2>1 DEF Entered
<1>8. \A row : RowFits(row) => RowFits(row)'
  BY <1>4 DEF RowFits
<1>9. ASSUME NEW c \in Contributions, c = job[r].on, job[r].kind = "CONTRIBUTION"
      PROVE  Records(r, c)'
  <2>1. Records(r, c)
    BY <1>9, OnContribution
  <2>2. Posted(c, made) + Posted(c, rest) = Posted(c, job[r].made) + Posted(c, job[r].plan)
    <3>1. PICK n : n = IF e.source = c THEN e.amount ELSE 0
      OBVIOUS
    <3>2. n \in Int
      BY <1>6, <3>1 DEF Row
    <3>3. Posted(c, made) = Posted(c, job[r].made) + n
      BY <1>3, <1>6, <3>1, PostedOfRows
    <3>4. Posted(c, job[r].plan) = n + Posted(c, rest)
      BY <1>0, <1>1, <1>2, <1>6, <3>1, PostedOfRows
    <3>5. Posted(c, rest) \in Int /\ Posted(c, job[r].made) \in Int
      BY <1>6, PostedOfRows
    <3> QED
      BY <3>2, <3>3, <3>4, <3>5
  <2> QED
    BY <1>0, <1>4, <1>5, <1>7, <2>1, <2>2 DEF Records, Total, Posted
<1>10. ASSUME NEW c \in Contributions, c = job[r].on, job[r].kind = "CONTRIBUTION_REVERSAL"
       PROVE  Reverses(r, c)'
  <2>1. Reverses(r, c)
    BY <1>10, OnContribution
  <2>2. Originals(c)' = Originals(c)
    BY <1>4 DEF Originals, Reversals
  <2> QED
    BY <1>0, <1>4, <1>5, <1>7, <2>1, <2>2 DEF Reverses
<1>11. \A c \in Contributions : contributionLock'[c] # r
  BY <1>0, <1>4 DEF RequestFits
<1>12. /\ job[r].kind = "CONTRIBUTION" => Records(r, job[r].on)'
       /\ job[r].kind = "CONTRIBUTION_REVERSAL" => Reverses(r, job[r].on)'
  BY <1>5, <1>9, <1>10, OnContribution
<1> QED
  BY <1>0, <1>4, <1>5, <1>7, <1>8, <1>11, <1>12 DEF RequestFits

\* Nothing is left of a request that has returned.
LEMMA ReturnedFits ==
    ASSUME TypeOK, NEW r \in Requests, Return(r), \A c \in Contributions : contributionLock'[c] # r
    PROVE  RequestFits(r)'
<1>1. job'[r] = NoJob /\ pc'[r] = "idle"
  BY DEF Return, Goto, TypeOK
<1>2. Entered(r)' = {}
  BY <1>1 DEF Entered, Range, NoJob
<1> QED
  BY <1>1, <1>2 DEF RequestFits, NoJob

-----------------------------------------------------------------------------
(* What a commit makes visible *)

\* A request that commits has inserted all its rows, in vaults there are, for what it works on.
LEMMA CommitsAll ==
    ASSUME DInv, NEW r \in Requests, Commit(r)
    PROVE  /\ rows \in Seq(Row) /\ job[r].made \in Seq(Row) /\ rows' = rows \o job[r].made
           /\ \A row \in Range(job[r].made) :
                 RowFits(row) /\ row.source = job[r].on /\ row.vault \in Vaults
           /\ job[r].kind \in {"CONTRIBUTION", "CONTRIBUTION_REVERSAL"} =>
                 Entered(r) = Range(job[r].made) /\ job[r].on \in Contributions
           /\ job[r].kind = "CONTRIBUTION" =>
                 /\ Records(r, job[r].on) /\ pc[r] = "write" /\ job[r].plan = <<>>
           /\ job[r].kind = "CONTRIBUTION_REVERSAL" =>
                 Reverses(r, job[r].on) /\ pc[r] = "commit"
<1>1. rows \in Seq(Row) /\ job[r].made \in Seq(Row) /\ rows' = rows \o job[r].made
  BY DEF DInv, LInv, TypeOK, Jobs, Commit
<1>2. \A row \in Range(job[r].made) : RowFits(row) /\ row.source = job[r].on /\ row.vault \in Vaults
  BY DEF DInv, LInv, PendingBalance, RequestsFit, RequestFits, Entered, Range
<1>3. CASE job[r].kind = "CONTRIBUTION"
  <2>1. Records(r, job[r].on) /\ job[r].on \in Contributions
    BY <1>3, OnContribution
  <2>2. pc[r] = "write" /\ job[r].plan = <<>>
    BY <2>1 DEF Records, Commit, Finished
  <2>3. Entered(r) = Range(job[r].made)
    BY <2>2 DEF Entered, Range
  <2> QED
    BY <1>1, <1>2, <1>3, <2>1, <2>2, <2>3
<1>4. CASE job[r].kind = "CONTRIBUTION_REVERSAL"
  <2>1. Reverses(r, job[r].on) /\ job[r].on \in Contributions
    BY <1>4, OnContribution
  <2>2. pc[r] = "commit"
    BY <1>4 DEF Commit, Finished
  <2>3. job[r].plan = <<>>
    BY <2>1, <2>2 DEF Reverses
  <2>4. Entered(r) = Range(job[r].made)
    BY <2>3 DEF Entered, Range
  <2> QED
    BY <1>1, <1>2, <1>4, <2>1, <2>2, <2>4
<1> QED
  BY <1>1, <1>2, <1>3, <1>4

\* The rows after a commit: those before it, then those of the request.
LEMMA CommittedRows ==
    ASSUME DInv, NEW r \in Requests, Commit(r)
    PROVE  /\ \A i \in DOMAIN rows : i \in DOMAIN rows' /\ rows'[i] = rows[i]
           /\ \A i \in DOMAIN rows' : i \notin DOMAIN rows => rows'[i] \in Range(job[r].made)
           /\ \A row \in Range(job[r].made) : \E i \in DOMAIN rows' \ DOMAIN rows : rows'[i] = row
<1>1. rows \in Seq(Row) /\ job[r].made \in Seq(Row) /\ rows' = rows \o job[r].made
  BY CommitsAll
<1>2. PICK made \in Seq(Row) : made = job[r].made
  BY <1>1
<1>3. PICK n \in Nat : n = Len(rows) /\ DOMAIN rows = 1..n
  BY <1>1
<1>4. PICK k \in Nat : k = Len(made) /\ DOMAIN made = 1..k
  OBVIOUS
<1>5. /\ DOMAIN rows' = 1..(n + k)
      /\ \A i \in 1..(n + k) : rows'[i] = IF i <= n THEN rows[i] ELSE made[i - n]
  BY <1>1, <1>2, <1>3, <1>4, ConcatProperties
<1>6. \A i \in 1..n : i \in 1..(n + k) /\ i <= n
  OBVIOUS
<1>7. \A i \in 1..(n + k) : i \notin 1..n => ~(i <= n) /\ i - n \in 1..k
  OBVIOUS
<1>8. \A i \in 1..k : i + n \in 1..(n + k) /\ i + n \notin 1..n /\ ~(i + n <= n) /\ (i + n) - n = i
  OBVIOUS
<1>9. \A i \in 1..(n + k) : i \notin 1..n => rows'[i] \in Range(made)
  BY <1>4, <1>5, <1>7 DEF Range
<1>10. ASSUME NEW row \in Range(made)
       PROVE  \E i \in (1..(n + k)) \ (1..n) : rows'[i] = row
  <2>1. PICK i \in 1..k : made[i] = row
    BY <1>4 DEF Range
  <2> QED
    BY <1>5, <1>8, <2>1
<1> QED
  BY <1>2, <1>3, <1>5, <1>6, <1>9, <1>10

\* What a commit does to the originals of contribution c: a recorded one gets some, and only
\* a reversal of c offsets any.
LEMMA CommittedOriginals ==
    ASSUME DInv, NEW r \in Requests, Commit(r), NEW c \in Contributions
    PROVE  /\ contribution[c] # "NONE" => Originals(c)' \subseteq Originals(c)
           /\ job[r].on # c => Originals(c) \subseteq Originals(c)'
           /\ contribution[c] # "NONE" /\ job[r].on = c => Originals(c)' = {}
<1>0. /\ \A i \in DOMAIN rows : i \in DOMAIN rows' /\ rows'[i] = rows[i]
      /\ \A i \in DOMAIN rows' : i \notin DOMAIN rows => rows'[i] \in Range(job[r].made)
      /\ \A row \in Range(job[r].made) : \E i \in DOMAIN rows' \ DOMAIN rows : rows'[i] = row
      /\ \A row \in Range(job[r].made) : RowFits(row) /\ row.source = job[r].on
      /\ c # NoContribution
  BY CommittedRows, CommitsAll, LedgerAssumption
<1>1. ASSUME NEW i, i \in Originals(c)', i \in DOMAIN rows
      PROVE  i \in Originals(c)
  BY <1>0, <1>1 DEF Originals, Reversals
<1>2. ASSUME contribution[c] # "NONE", NEW i, i \in Originals(c)'
      PROVE  i \in DOMAIN rows
  <2>1. SUFFICES ASSUME i \notin DOMAIN rows PROVE FALSE
    OBVIOUS
  <2>2. PICK row : row = rows'[i]
    OBVIOUS
  <2>3. row \in Range(job[r].made) /\ row.source = c /\ row.reverses = 0
    BY <1>0, <1>2, <2>1, <2>2 DEF Originals
  <2>4. job[r].on = c
    BY <1>0, <2>3
  <2>5. job[r].kind \in {"CONTRIBUTION", "CONTRIBUTION_REVERSAL"}
    BY <1>0, <2>4 DEF DInv, RequestsFit, RequestFits
  <2>6. CASE job[r].kind = "CONTRIBUTION"
    BY <1>2, <2>4, <2>6, CommitsAll DEF Records
  <2>7. CASE job[r].kind = "CONTRIBUTION_REVERSAL"
    BY <2>3, <2>4, <2>7, CommitsAll DEF Reverses
  <2> QED
    BY <2>5, <2>6, <2>7
<1>3. ASSUME job[r].on # c, NEW i \in Originals(c)
      PROVE  i \in Originals(c)'
  <2>1. i \in DOMAIN rows /\ rows[i].source = c /\ rows[i].reverses = 0 /\ Reversals(i) = {}
    BY DEF Originals
  <2>2. ASSUME NEW j \in DOMAIN rows', rows'[j].reverses = i
        PROVE  FALSE
    <3>1. CASE j \in DOMAIN rows
      BY <1>0, <2>1, <2>2, <3>1 DEF Reversals
    <3>2. CASE j \notin DOMAIN rows
      <4>1. PICK row : row = rows'[j]
        OBVIOUS
      <4>2. row \in Range(job[r].made) /\ row.reverses = i
        BY <1>0, <2>2, <3>2, <4>1
      <4>3. RowFits(row) /\ row.source = job[r].on
        BY <1>0, <4>2
      <4>4. i # 0
        BY <2>1, CommitsAll
      <4>5. row = Offset(i)
        BY <4>2, <4>3, <4>4 DEF RowFits, Offset
      <4> QED
        BY <1>3, <2>1, <4>3, <4>5, OffsetFits
    <3> QED
      BY <3>1, <3>2
  <2>3. rows'[i] = rows[i] /\ i \in DOMAIN rows'
    BY <1>0, <2>1
  <2> QED
    BY <2>1, <2>2, <2>3 DEF Originals, Reversals
<1>4. ASSUME contribution[c] # "NONE", job[r].on = c, NEW i, i \in Originals(c)'
      PROVE  FALSE
  <2>1. i \in Originals(c)
    BY <1>1, <1>2, <1>4
  <2>2. job[r].kind = "CONTRIBUTION_REVERSAL"
    <3>1. job[r].kind \in {"CONTRIBUTION", "CONTRIBUTION_REVERSAL"}
      BY <1>0, <1>4 DEF DInv, RequestsFit, RequestFits
    <3>2. job[r].kind # "CONTRIBUTION"
      BY <1>4, CommitsAll DEF Records
    <3> QED
      BY <3>1, <3>2
  <2>3. PICK row \in Range(job[r].made) : row.reverses = i
    <3>1. Reverses(r, c) /\ pc[r] = "commit" /\ Entered(r) = Range(job[r].made)
      BY <1>4, <2>2, CommitsAll
    <3>2. \A k \in Originals(c) : \E row \in Entered(r) : row.reverses = k
      BY <3>1 DEF Reverses
    <3> QED
      BY <2>1, <3>1, <3>2
  <2>4. PICK j \in DOMAIN rows' : rows'[j] = row
    BY <1>0, <2>3
  <2> QED
    BY <1>4, <2>3, <2>4 DEF Originals, Reversals
<1> QED
  BY <1>1, <1>2, <1>3, <1>4

LEMMA CommitFits ==
    ASSUME DInv, NEW r \in Requests, Commit(r)
    PROVE  RowsFit' /\ RequestsFit' /\ ContributionsFit'
<1>0. /\ TypeOK /\ RequestFits(r) /\ r # Free /\ Return(r)
      /\ contributionLock' = Released(contributionLock, r) /\ shareLock' = Released(shareLock, r)
      /\ UNCHANGED <<newShares, met>>
  BY LedgerAssumption DEF DInv, LInv, RequestsFit, Commit, ruleRows
<1>1. /\ \A i \in DOMAIN rows : i \in DOMAIN rows' /\ rows'[i] = rows[i]
      /\ \A i \in DOMAIN rows' : i \notin DOMAIN rows => rows'[i] \in Range(job[r].made)
      /\ \A row \in Range(job[r].made) : \E i \in DOMAIN rows' \ DOMAIN rows : rows'[i] = row
      /\ \A row \in Range(job[r].made) :
            RowFits(row) /\ row.source = job[r].on /\ row.vault \in Vaults
  BY CommittedRows, CommitsAll
<1>2. ASSUME NEW c \in Contributions
      PROVE  contribution'[c] = IF job[r].on # c THEN contribution[c]
                                ELSE IF job[r].kind = "CONTRIBUTION" THEN "RECORDED" ELSE "REVERSED"
  <2>1. contribution' =
            LET seen == AfterCommit(contribution, newContribution, contributionLock, r)
            IN  IF job[r].kind = "CONTRIBUTION"
                THEN [seen EXCEPT ![job[r].on] = "RECORDED"] ELSE seen
    BY DEF Commit
  <2>2. contributionLock[c] = r => job[r].kind = "CONTRIBUTION_REVERSAL" /\ job[r].on = c
    BY <1>0 DEF RequestFits
  <2>3. CASE job[r].on # c
    <3>1. contributionLock[c] # r
      BY <2>2, <2>3
    <3> QED
      BY <1>0, <2>1, <2>3, <3>1 DEF AfterCommit, TypeOK
  <2>4. CASE job[r].on = c /\ job[r].kind = "CONTRIBUTION"
    BY <1>0, <2>1, <2>4 DEF AfterCommit, TypeOK
  <2>5. CASE job[r].on = c /\ job[r].kind # "CONTRIBUTION"
    <3>1. job[r].kind = "CONTRIBUTION_REVERSAL"
      BY <1>0, <2>5, LedgerAssumption DEF RequestFits
    <3>2. contributionLock[c] = r /\ newContribution[c] = "REVERSED"
      BY <2>5, <3>1, CommitsAll DEF Reverses
    <3> QED
      BY <1>0, <2>1, <2>5, <3>2 DEF AfterCommit, TypeOK
  <2> QED
    BY <2>3, <2>4, <2>5
<1>3. \A q \in Requests \ {r} : job'[q] = job[q] /\ pc'[q] = pc[q]
  BY <1>0 DEF Return, Goto, TypeOK
<1>4. job'[r] = NoJob /\ \A c \in Contributions : job'[r].on # c
  BY <1>0, LedgerAssumption DEF Return, NoJob, TypeOK
<1>5. ASSUME NEW c \in Contributions, NEW q \in Requests \ {r}
      PROVE  /\ contributionLock'[c] = q => contributionLock[c] = q
             /\ contributionLock[c] = q =>
                   contributionLock'[c] = q /\ newContribution'[c] = newContribution[c]
  <2>1. contributionLock'[c] = IF contributionLock[c] = r THEN Free ELSE contributionLock[c]
    BY <1>0 DEF Released, TypeOK
  <2>2. ASSUME contributionLock[c] = q
        PROVE  newContribution'[c] = newContribution[c]
    <3>1. /\ RequestFits(q) /\ job[q].kind = "CONTRIBUTION_REVERSAL" /\ job[q].on = c
      BY <2>2 DEF DInv, RequestsFit, RequestFits
    <3>2. contribution[c] # "NONE"
      BY <3>1, OnContribution DEF Reverses
    <3>3. job[r].kind = "CONTRIBUTION" => job[r].on # c
      BY <3>2, OnContribution DEF Records
    <3> QED
      BY <1>0, <3>3 DEF Commit, TypeOK
  <2>3. q # Free
    BY LedgerAssumption
  <2> QED
    BY <2>1, <2>2, <2>3
<1>6. ASSUME NEW m \in Members, NEW q \in Requests \ {r}, shareLock[m] = q
      PROVE  shareLock'[m] = q /\ newShares'[m] = newShares[m]
  BY <1>0, <1>6 DEF Released, TypeOK
<1>7. LeavesOthers(r)
  <2>1. ASSUME NEW c \in Contributions
        PROVE  /\ contribution[c] = "NONE" /\ job[r].on # c => contribution'[c] = "NONE"
               /\ contribution[c] # "NONE" => contribution'[c] # "NONE"
               /\ contribution[c] # "NONE" => Originals(c)' \subseteq Originals(c)
    BY <1>2, CommittedOriginals
  <2> QED
    BY <1>0, <1>1, <1>3, <1>4, <1>5, <1>6, <2>1 DEF LeavesOthers, Adds
<1>8. RequestFits(r)'
  <2>1. \A c \in Contributions : contributionLock'[c] # r
    BY <1>0 DEF Released, TypeOK
  <2> QED
    BY <1>0, <2>1, ReturnedFits
<1>9. RequestsFit'
  BY <1>1, <1>7, <1>8, OthersFit DEF RequestsFit
<1>10. RowsFit'
  <2>1. ASSUME NEW i \in DOMAIN rows', NEW row, row = rows'[i]
        PROVE  RowFits(row)' /\ row.vault \in Vaults
    <3>1. RowFits(row) /\ row.vault \in Vaults
      <4>1. CASE i \in DOMAIN rows
        BY <1>1, <2>1, <4>1 DEF DInv, RowsFit, Range
      <4>2. CASE i \notin DOMAIN rows
        BY <1>1, <2>1, <4>2
      <4> QED
        BY <4>1, <4>2
    <3> QED
      BY <1>1, <3>1, RowStaysFit
  <2>2. \A row \in Range(rows') : RowFits(row)' /\ row.vault \in Vaults
    BY <2>1 DEF Range
  <2> QED
    BY <2>2 DEF RowsFit
<1>11. /\ rows' \in Seq(Row)
       /\ \A c \in Contributions : Posted(c, rows') = Posted(c, rows) + Posted(c, job[r].made)
  <2>1. rows \in Seq(Row) /\ job[r].made \in Seq(Row) /\ rows' = rows \o job[r].made
    BY CommitsAll
  <2>2. \A c \in Contributions :
           Posted(c, rows \o job[r].made) = Posted(c, rows) + Posted(c, job[r].made)
    BY <2>1, PostedOfRows
  <2>3. rows \o job[r].made \in Seq(Row)
    BY <2>1
  <2> QED
    BY <2>1, <2>2, <2>3
<1>12. ASSUME NEW c \in Contributions, job[r].on # c
       PROVE  ContributionFits(c)'
  <2>1. ContributionFits(c) /\ contribution'[c] = contribution[c] /\ met'[c] = met[c]
    BY <1>0, <1>2, <1>12 DEF DInv, ContributionsFit
  <2>2. \A i \in DOMAIN rows' : rows'[i].source = c => i \in DOMAIN rows /\ rows[i].source = c
    BY <1>1, <1>12
  <2>3. /\ contribution[c] # "NONE" => Originals(c)' = Originals(c)
        /\ Originals(c) \subseteq Originals(c)'
    BY <1>12, CommittedOriginals
  <2>4. Posted(c, rows)' = Posted(c, rows)
    <3>1. job[r].made \in Seq(Row) /\ Posted(c, job[r].made) = 0
      <4>1. job[r].made \in Seq(Row)
        BY CommitsAll
      <4>2. \A i \in DOMAIN job[r].made : job[r].made[i].source # c
        BY <1>1, <1>12 DEF Range
      <4> QED
        BY <4>1, <4>2, PostedOfRows
    <3>2. Posted(c, rows) \in Int
      BY CommitsAll, PostedOfRows
    <3>3. Posted(c, rows)' = Posted(c, rows')
      BY DEF Posted
    <3> QED
      BY <1>11, <3>1, <3>2, <3>3
  <2> QED
    BY <2>1, <2>2, <2>3, <2>4 DEF ContributionFits, Total
<1>13. ASSUME NEW c \in Contributions, job[r].on = c
       PROVE  ContributionFits(c)'
  <2>1. job[r].kind \in {"CONTRIBUTION", "CONTRIBUTION_REVERSAL"}
    BY <1>0, <1>13, LedgerAssumption DEF RequestFits
  <2>2. CASE job[r].kind = "CONTRIBUTION_REVERSAL"
    <3>1. contribution[c] # "NONE"
      BY <1>13, <2>2, CommitsAll DEF Reverses
    <3>2. contribution'[c] = "REVERSED" /\ Originals(c)' = {}
      BY <1>2, <1>13, <2>2, <3>1, CommittedOriginals
    <3> QED
      BY <3>2 DEF ContributionFits
  <2>3. CASE job[r].kind = "CONTRIBUTION"
    <3>1. /\ Records(r, c) /\ pc[r] = "write" /\ job[r].plan = <<>>
          /\ Entered(r) = Range(job[r].made)
      BY <1>13, <2>3, CommitsAll
    <3>2. contribution'[c] = "RECORDED" /\ contribution[c] = "NONE"
      BY <1>2, <1>13, <2>3, <3>1 DEF Records
    <3>3. \A i \in DOMAIN rows : rows[i].source # c
      BY <3>2 DEF DInv, ContributionsFit, ContributionFits
    <3>4. Posted(c, rows)' = Total(c)'
      <4>1. Posted(c, job[r].made) + Posted(c, <<>>) = Total(c)
        BY <3>1 DEF Records
      <4>2. Posted(c, <<>>) = 0 /\ Posted(c, rows) = 0 /\ Posted(c, job[r].made) \in Int
        <5>1. <<>> \in Seq(Row) /\ \A i \in DOMAIN <<>> : <<>>[i].source # c
          OBVIOUS
        <5> QED
          BY <3>3, <5>1, CommitsAll, PostedOfRows
      <4>3. Posted(c, rows') = Total(c)
        BY <1>11, <4>1, <4>2
      <4> QED
        BY <1>0, <4>3 DEF Posted, Total
    <3>5. ASSUME NEW i \in DOMAIN rows', rows'[i].source = c
          PROVE  i \in Originals(c)'
      <4>1. i \notin DOMAIN rows
        BY <1>1, <3>3, <3>5
      <4>2. i # 0 /\ rows'[i].reverses = 0
        <5>1. rows'[i] \in Entered(r)
          BY <1>1, <3>1, <3>5, <4>1
        <5>2. rows'[i].reverses = 0
          BY <3>1, <5>1 DEF Records
        <5>3. i # 0
          BY <1>11, <3>5
        <5> QED
          BY <5>2, <5>3
      <4>3. ASSUME NEW j \in DOMAIN rows'
            PROVE  rows'[j].reverses # i
        <5>1. CASE j \in DOMAIN rows
          <6>1. RowFits(rows[j])
            BY <5>1 DEF DInv, RowsFit, Range
          <6> QED
            BY <1>1, <4>1, <4>2, <5>1, <6>1 DEF RowFits
        <5>2. CASE j \notin DOMAIN rows
          <6>1. rows'[j] \in Entered(r)
            BY <1>1, <3>1, <4>3, <5>2
          <6> QED
            BY <3>1, <4>2, <6>1 DEF Records
        <5> QED
          BY <5>1, <5>2
      <4> QED
        BY <3>5, <4>2, <4>3 DEF Originals, Reversals
    <3> QED
      BY <3>2, <3>4, <3>5 DEF ContributionFits
  <2> QED
    BY <2>1, <2>2, <2>3
<1>14. ContributionsFit'
  BY <1>12, <1>13 DEF ContributionsFit
<1> QED
  BY <1>9, <1>10, <1>14

-----------------------------------------------------------------------------
(* The theorems about distributions *)

LEMMA DInvInit == Init => DInv
<1>1. SUFFICES ASSUME Init PROVE DInv
  OBVIOUS
<1>2. /\ TypeOK /\ rows = <<>> /\ \A r \in Requests : job[r] = NoJob /\ pc[r] = "idle"
      /\ \A c \in Contributions : contribution[c] = "NONE" /\ contributionLock[c] = Free
      /\ rule = [i \in RuleIds |->
                  IF i \in DOMAIN Given
                  THEN [status |-> "ACTIVE", source |-> Given[i], replaces |-> 0,
                        project |-> Given[i] # "CONTRIBUTION"]
                  ELSE [status |-> "NONE", source |-> "CONTRIBUTION", replaces |-> 0,
                        project |-> FALSE]]
  BY <1>1, TypeInit DEF Init
<1>3. RowsFit
  BY <1>2 DEF RowsFit, Range
<1>4. ASSUME NEW r \in Requests
      PROVE  RequestFits(r)
  <2>1. Entered(r) = {}
    BY <1>2 DEF Entered, Range, NoJob
  <2>2. \A c \in Contributions : contributionLock[c] # r
    BY <1>2, LedgerAssumption
  <2> QED
    BY <1>2, <2>1, <2>2 DEF RequestFits, NoJob
<1>5. ContributionsFit
  BY <1>2 DEF ContributionsFit, ContributionFits
<1>6. RulesFit
  <2>1. ASSUME NEW i \in DOMAIN Given, Given[i] = "CONTRIBUTION"
        PROVE  i \in ActiveRules("CONTRIBUTION")
    <3>1. i \in RuleIds
      BY LedgerAssumption DEF RuleIds
    <3> QED
      BY <1>2, <2>1, <3>1 DEF ActiveRules
  <2> QED
    BY <2>1 DEF RulesFit, Range
<1> QED
  BY <1>1, <1>3, <1>4, <1>5, <1>6, LInvInit DEF DInv, RequestsFit

\* A rule that is replaced has a successor, and no other statement ends one.
LEMMA RulesFitNext ==
    ASSUME TypeOK, RulesFit, [Next]_vars
    PROVE  RulesFit'
<1>1. SUFFICES ASSUME NEW a \in ActiveRules("CONTRIBUTION")
               PROVE  ActiveRules("CONTRIBUTION")' # {}
  BY DEF RulesFit
<1>2. a \in RuleIds /\ rule[a].status = "ACTIVE" /\ rule[a].source = "CONTRIBUTION"
  BY DEF ActiveRules
<1>3. CASE rule' = rule
  BY <1>2, <1>3 DEF ActiveRules
<1>4. ASSUME NEW i \in RuleIds, CreateRule(i)
      PROVE  ActiveRules("CONTRIBUTION")' # {}
  <2>1. rule'[a].status = "ACTIVE" /\ rule'[a].source = "CONTRIBUTION"
    BY <1>2, <1>4 DEF CreateRule, TypeOK
  <2> QED
    BY <1>2, <2>1 DEF ActiveRules
<1>5. ASSUME NEW r \in Requests, ReplaceRule(r)
      PROVE  ActiveRules("CONTRIBUTION")' # {}
  <2>1. PICK i \in RuleIds :
          /\ rule[i].status = "NONE"
          /\ rule' = [rule EXCEPT ![job[r].rule].status = "REPLACED",
                                  ![i] = [status |-> "ACTIVE", source |-> rule[job[r].rule].source,
                                          replaces |-> job[r].rule, project |-> FALSE]]
    BY <1>5 DEF ReplaceRule
  <2>2. i # a
    BY <1>2, <2>1
  <2>3. CASE job[r].rule = a
    <3>1. rule'[i].status = "ACTIVE" /\ rule'[i].source = "CONTRIBUTION"
      BY <1>2, <2>1, <2>3 DEF TypeOK
    <3> QED
      BY <3>1 DEF ActiveRules
  <2>4. CASE job[r].rule # a
    <3>1. rule'[a] = rule[a]
      BY <1>2, <2>1, <2>2, <2>4 DEF TypeOK
    <3> QED
      BY <1>2, <3>1 DEF ActiveRules
  <2> QED
    BY <2>3, <2>4
<1>6. ASSUME NEW r \in Requests, Starts(r) \/ Prepares(r) \/ WriteEntry(r) \/ Commit(r) \/ Rollback(r)
      PROVE  rule' = rule
  BY <1>6
  DEF Starts, Start, Prepares, ReadOriginals, MarkReversed, SumContributions, WriteShares, ReadRules,
      SplitAcrossMembers, WriteEntry, Commit, Rollback, UnchangedRows, ruleRows, vars
<1>7. CASE CloseProject \/ UNCHANGED vars
  BY <1>3, <1>7 DEF CloseProject, ruleRows, vars
<1> QED
  BY <1>3, <1>4, <1>5, <1>6, <1>7, BeginStarts DEF Next, Continue, Prepares, EntryRefused

LEMMA DInvNext ==
    ASSUME DInv, [Next]_vars
    PROVE  DInv'
<1>1. LInv' /\ TypeOK' /\ RulesFit' /\ TypeOK
  BY LInvNext, RulesFitNext DEF DInv, LInv
<1>2. ASSUME UNCHANGED <<rows, contributionRows, shareRows, met, pc, job>>
      PROVE  RowsFit' /\ RequestsFit' /\ ContributionsFit'
  <2>1. RowsFit'
    BY <1>2 DEF DInv, RowsFit, RowFits
  <2>2. \A c \in Contributions : Originals(c)' = Originals(c)
    BY <1>2 DEF Originals, Reversals
  <2>3. ContributionsFit'
    BY <1>2, <2>2
    DEF DInv, ContributionsFit, ContributionFits, Posted, Total, contributionRows
  <2>4. ASSUME NEW r \in Requests
        PROVE  RequestFits(r)'
    <3>1. RequestFits(r) /\ Entered(r)' = Entered(r) /\ \A row : RowFits(row) => RowFits(row)'
      BY <1>2 DEF DInv, RequestsFit, Entered, RowFits
    <3>2. job[r].kind = "CONTRIBUTION" => Records(r, job[r].on)'
      BY <1>2, <3>1, OnContribution DEF Records, Posted, Total, contributionRows, shareRows
    <3>3. job[r].kind = "CONTRIBUTION_REVERSAL" => Reverses(r, job[r].on)'
      <4>1. job[r].kind = "CONTRIBUTION_REVERSAL" =>
                Reverses(r, job[r].on) /\ Originals(job[r].on)' = Originals(job[r].on)
        BY <1>2, <2>2, OnContribution
      <4> QED
        BY <1>2, <3>1, <4>1 DEF Reverses, contributionRows
    <3> QED
      BY <1>2, <3>1, <3>2, <3>3 DEF RequestFits, contributionRows
  <2> QED
    BY <2>1, <2>3, <2>4 DEF RequestsFit
<1>3. ASSUME CloseProject \/ (\E i \in RuleIds : CreateRule(i)) \/ UNCHANGED vars
      PROVE  RowsFit' /\ RequestsFit' /\ ContributionsFit'
  BY <1>2, <1>3 DEF CloseProject, CreateRule, vars, ruleRows
<1>4. ASSUME NEW r \in Requests, Begin(r)
      PROVE  RowsFit' /\ RequestsFit' /\ ContributionsFit'
  <2>1. CASE UNCHANGED vars
    BY <1>3, <2>1
  <2>2. CASE Hidden(r) /\ RequestFits(r)'
    BY <2>2, HiddenFits
  <2> QED
    BY <1>4, <2>1, <2>2, BeginFits
<1>5. ASSUME NEW r \in Requests,
             \/ ReadOriginals(r) \/ MarkReversed(r) \/ SumContributions(r) \/ WriteShares(r)
             \/ ReadRules(r) \/ SplitAcrossMembers(r) \/ WriteEntry(r)
      PROVE  RowsFit' /\ RequestsFit' /\ ContributionsFit'
  <2>1. Hidden(r)
    BY <1>5, StatementsHidden
  <2>2. RequestFits(r)'
    BY <1>1, <1>5, ReadOriginalsFits, MarkReversedFits, SumContributionsFits, WriteSharesFits,
       ReadRulesFits, SplitFits, WriteEntryFits
  <2> QED
    BY <2>1, <2>2, HiddenFits
<1>6. ASSUME NEW r \in Requests, ReplaceRule(r) \/ Rollback(r)
      PROVE  RowsFit' /\ RequestsFit' /\ ContributionsFit'
  <2>1. Hidden(r)
    BY <1>6, StatementsHidden
  <2>2. Return(r)
    BY <1>6 DEF ReplaceRule, Rollback, Return
  <2>3. \A c \in Contributions : contributionLock'[c] # r
    <3>1. CASE ReplaceRule(r)
      BY <3>1 DEF ReplaceRule, contributionRows, DInv, RequestsFit, RequestFits
    <3>2. CASE Rollback(r)
      BY <1>1, <3>2, LedgerAssumption DEF Rollback, Released, TypeOK
    <3> QED
      BY <1>6, <3>1, <3>2
  <2>4. RequestFits(r)'
    BY <1>1, <2>2, <2>3, ReturnedFits
  <2> QED
    BY <2>1, <2>4, HiddenFits
<1>7. ASSUME NEW r \in Requests, Commit(r)
      PROVE  RowsFit' /\ RequestsFit' /\ ContributionsFit'
  BY <1>7, CommitFits
<1>8. RowsFit' /\ RequestsFit' /\ ContributionsFit'
  BY <1>3, <1>4, <1>5, <1>6, <1>7 DEF Next, Continue, EntryRefused
<1> QED
  BY <1>1, <1>8 DEF DInv

\* Whatever the order in which requests record contributions, reverse them, move other money
\* and replace rules, each of them knows what it has to know: an inductive invariant.
THEOREM DInvAlways == Spec => []DInv
BY DInvInit, DInvNext, PTL DEF Spec

\* A recorded contribution has posted its amount to the last cent, once per rule it found
\* active, and none of its rows is reversed; a reversed one has no row left unreversed.
THEOREM DistributionsWhole == Spec => []ContributionsWhole
<1>1. ASSUME DInv
      PROVE  ContributionsWhole
  <2>0. rows \in Seq(Row)
    BY <1>1 DEF DInv, LInv, TypeOK
  <2>1. ASSUME NEW c \in Contributions, NEW of, of = {i \in DOMAIN rows : rows[i].source = c}
        PROVE  Posted(c, rows) = SumFunction([i \in of |-> rows[i].amount])
    <3>1. PICK f : f = [i \in DOMAIN rows |-> IF rows[i].source = c THEN rows[i].amount ELSE 0]
      OBVIOUS
    <3>2. IsFiniteSet(DOMAIN rows) /\ \A i \in DOMAIN rows : f[i] \in Int
      <4>1. \A i \in DOMAIN rows : rows[i].amount \in Int
        <5>1. \A i \in DOMAIN rows : rows[i] \in Row
          BY <2>0
        <5> QED
          BY <5>1 DEF Row
      <4>2. DOMAIN rows = 1..Len(rows) /\ Len(rows) \in Nat
        BY <2>0
      <4>3. IsFiniteSet(1..Len(rows))
        BY <4>2, FS_Interval
      <4> QED
        BY <3>1, <4>1, <4>2, <4>3
    <3>3. of \in SUBSET DOMAIN rows /\ \A i \in DOMAIN rows \ of : f[i] = 0
      BY <2>1, <3>1
    <3>4. SumOver(f, DOMAIN rows) = SumOver(f, of)
      BY <3>2, <3>3, SumOfOthers
    <3>5. f = [i \in DOMAIN rows |-> f[i]]
      BY <3>1
    <3>6. SumOver(f, DOMAIN rows) = Posted(c, rows)
      BY <3>1, <3>5 DEF SumOver, Posted
    <3>7. [i \in of |-> f[i]] = [i \in of |-> rows[i].amount]
      BY <2>1, <3>1
    <3> QED
      BY <3>4, <3>6, <3>7 DEF SumOver
  <2>2. ASSUME NEW c \in Contributions, NEW of, of = {i \in DOMAIN rows : rows[i].source = c}
        PROVE  /\ contribution[c] = "NONE" => of = {}
               /\ contribution[c] = "RECORDED" =>
                     /\ Originals(c) = of
                     /\ SumFunction([i \in of |-> rows[i].amount]) = Total(c)
               /\ contribution[c] = "REVERSED" => Originals(c) = {}
    <3>1. ContributionFits(c) /\ Originals(c) \subseteq of
      BY <1>1, <2>2 DEF DInv, ContributionsFit, Originals
    <3> QED
      BY <2>1, <2>2, <3>1 DEF ContributionFits
  <2>3. \A c \in Contributions : contribution[c] \in {"NONE", "RECORDED", "REVERSED"}
    BY <1>1 DEF DInv, LInv, TypeOK
  <2> QED
    BY <2>2, <2>3 DEF ContributionsWhole
<1> QED
  BY <1>1, DInvAlways, PTL

\* While rules are replaced, no contribution passes between a rule and its successor.
THEOREM NothingLost == Spec => []NoneUndistributed
<1>1. Init => NoneUndistributed
  BY DEF Init, NoneUndistributed
<1>2. ASSUME DInv, DInv', NoneUndistributed, [Next]_vars
      PROVE  NoneUndistributed'
  <2>0. TypeOK
    BY <1>2 DEF DInv, LInv
  <2>1. ASSUME UNCHANGED <<rows, contribution>>
        PROVE  NoneUndistributed'
    BY <1>2, <2>1 DEF NoneUndistributed
  <2>2. ASSUME NEW r \in Requests, Commit(r)
        PROVE  NoneUndistributed'
    <3>1. SUFFICES ASSUME "CONTRIBUTION" \in Range(Given), NEW c \in Contributions,
                          contribution'[c] # "NONE"
                   PROVE  \E i \in DOMAIN rows' : rows'[i].source = c
      BY DEF NoneUndistributed
    <3>2. CASE contribution[c] # "NONE"
      <4>1. PICK i \in DOMAIN rows : rows[i].source = c
        BY <1>2, <3>1, <3>2 DEF NoneUndistributed
      <4> QED
        BY <1>2, <2>2, <4>1, CommittedRows
    <3>3. CASE contribution[c] = "NONE"
      <4>1. job[r].kind = "CONTRIBUTION" /\ job[r].on = c
        <5>1. contributionLock[c] # r
          BY <1>2, <3>3, OnContribution DEF DInv, RequestsFit, RequestFits, Reverses
        <5>2. AfterCommit(contribution, newContribution, contributionLock, r)[c] = "NONE"
          BY <2>0, <3>3, <5>1 DEF AfterCommit, TypeOK
        <5>3. contribution' =
                LET seen == AfterCommit(contribution, newContribution, contributionLock, r)
                IN  IF job[r].kind = "CONTRIBUTION"
                    THEN [seen EXCEPT ![job[r].on] = "RECORDED"] ELSE seen
          BY <2>2 DEF Commit
        <5> QED
          BY <3>1, <5>2, <5>3
      <4>2. /\ Records(r, c) /\ pc[r] = "write" /\ job[r].plan = <<>>
            /\ job[r].made \in Seq(Row)
        BY <1>2, <2>2, <4>1, CommitsAll
      <4>3. Posted(c, job[r].made) # 0
        <5>1. /\ Posted(c, job[r].made) + Posted(c, <<>>) = Contributed[c] * met[c]
              /\ met[c] # 0
          BY <3>1, <4>2 DEF Records, Total
        <5>2. PICK a \in Nat : a = Contributed[c] /\ a # 0
          BY LedgerAssumption
        <5>3. PICK n \in Nat : n = met[c]
          <6>1. met[c] \in 0..Len(Rules) /\ Len(Rules) \in Nat
            BY <2>0, LedgerAssumption DEF TypeOK
          <6> QED
            BY <6>1
        <5>4. a * n # 0
          BY <5>1, <5>2, <5>3
        <5>5. Posted(c, <<>>) = 0 /\ Posted(c, job[r].made) \in Int
          <6>1. <<>> \in Seq(Row) /\ \A i \in DOMAIN <<>> : <<>>[i].source # c
            OBVIOUS
          <6> QED
            BY <4>2, <6>1, PostedOfRows
        <5> QED
          BY <5>1, <5>2, <5>3, <5>4, <5>5
      <4>4. PICK k \in DOMAIN job[r].made : job[r].made[k].source = c
        BY <4>2, <4>3, PostedOfRows
      <4>5. job[r].made[k] \in Range(job[r].made)
        BY DEF Range
      <4> QED
        BY <1>2, <2>2, <4>4, <4>5, CommittedRows
    <3> QED
      BY <3>2, <3>3
  <2>3. ASSUME NEW r \in Requests, Begin(r)
        PROVE  UNCHANGED <<rows, contribution>>
    BY <1>2, <2>3, BeginFits DEF Hidden, vars, contributionRows
  <2>4. ASSUME NEW r \in Requests,
               \/ ReadOriginals(r) \/ MarkReversed(r) \/ SumContributions(r) \/ WriteShares(r)
               \/ ReadRules(r) \/ SplitAcrossMembers(r) \/ WriteEntry(r) \/ ReplaceRule(r)
               \/ Rollback(r)
        PROVE  UNCHANGED <<rows, contribution>>
    BY <1>2, <2>4, StatementsHidden DEF Hidden
  <2>5. CASE CloseProject \/ (\E i \in RuleIds : CreateRule(i)) \/ UNCHANGED vars
    BY <2>1, <2>5 DEF CloseProject, CreateRule, vars, contributionRows
  <2> QED
    BY <1>2, <2>1, <2>2, <2>3, <2>4, <2>5 DEF Next, Continue, EntryRefused
<1> QED
  BY <1>1, <1>2, DInvAlways, PTL DEF Spec

-----------------------------------------------------------------------------
(* Covered debits *)

\* A statement before the end of a transaction leaves kinds of operations and open transactions.
LEMMA PreparesStays ==
    ASSUME TypeOK, NEW r \in Requests, Prepares(r)
    PROVE  /\ \A q \in Requests : job'[q].kind = job[q].kind
           /\ \A q \in Requests : pc[q] \notin {"idle", "replace"} => pc'[q] \notin {"idle", "replace"}
<1>1. \A q \in Requests : job'[q].kind = job[q].kind
  <2>1. ASSUME NEW p, Plan(r, p)
        PROVE  \A q \in Requests : job'[q].kind = job[q].kind
    BY <2>1 DEF Plan, TypeOK, Jobs
  <2>2. ASSUME NEW t, job' = [job EXCEPT ![r].totals = t]
        PROVE  \A q \in Requests : job'[q].kind = job[q].kind
    BY <2>2 DEF TypeOK, Jobs
  <2> QED
    BY <2>1, <2>2
    DEF Prepares, ReadOriginals, MarkReversed, SumContributions, WriteShares, ReadRules,
        SplitAcrossMembers
<1>2. \A q \in Requests : pc[q] \notin {"idle", "replace"} => pc'[q] \notin {"idle", "replace"}
  BY DEF Prepares, ReadOriginals, MarkReversed, SumContributions, WriteShares, ReadRules,
         SplitAcrossMembers, Goto, TypeOK
<1> QED
  BY <1>1, <1>2

\* An entry is a debit that is covered, or adds to what there is.
LEMMA EntryCovered ==
    ASSUME LInv, DebitsFit, NEW r \in Requests, WriteEntry(r)
    PROVE  DebitsFit'
<1>0. TypeOK /\ JobsFit /\ PendingBalance /\ pc' = pc /\ pc[r] = "write"
  BY DEF LInv, WriteEntry
<1>1. PICK e : e = Head(job[r].plan)
  OBVIOUS
<1>2. e \in Row /\ job[r].made \in Seq(Row)
  <2>1. job[r].plan \in Seq(Row) /\ job[r].plan # <<>> /\ job[r].made \in Seq(Row)
    BY <1>0 DEF WriteEntry, TypeOK, Jobs
  <2> QED
    BY <1>1, <2>1
<1>3. PICK x \in Vaults : x = e.vault
  BY <1>1, <1>2 DEF WriteEntry, Row
<1>4. PICK b \in Int : b = Visible(balance, newBalance, vaultLock, x, r)
  BY <1>0, <1>3 DEF Visible, TypeOK
<1>5. PICK d \in Int : d = Delta(e)
  BY <1>2 DEF Delta, Row
<1>6. /\ vaultLock[x] \in {r, Free} /\ vaultLock' = [vaultLock EXCEPT ![x] = r]
      /\ newBalance' = [newBalance EXCEPT ![x] = b + d] /\ balance' = balance
      /\ job' = [job EXCEPT ![r].plan = Tail(@), ![r].made = Append(@, e)]
      /\ Conditional(r) => b >= e.amount
  BY <1>1, <1>3, <1>4, <1>5 DEF WriteEntry, Lockable, Covers
<1>7. /\ job'[r].kind = job[r].kind /\ job'[r].made = Append(job[r].made, e)
      /\ \A q \in Requests \ {r} : job'[q] = job[q]
  BY <1>0, <1>6 DEF TypeOK, Jobs
<1>8. ASSUME Guarded(r)'
      PROVE  Guarded(r) /\ e.amount >= 0
  <2>1. /\ Len(job[r].made) + 1 \in DOMAIN Append(job[r].made, e)
        /\ Append(job[r].made, e)[Len(job[r].made) + 1] = e
        /\ \A i \in DOMAIN job[r].made : i \in DOMAIN Append(job[r].made, e)
                                         /\ Append(job[r].made, e)[i] = job[r].made[i]
    BY <1>2
  <2> QED
    BY <1>7, <1>8, <2>1 DEF Guarded
<1>9. ASSUME Guarded(r)'
      PROVE  newBalance'[x] >= 0 \/ newBalance'[x] >= balance[x]
  <2>1. Guarded(r) /\ e.amount >= 0 /\ newBalance'[x] = b + d /\ e.amount \in Int
    BY <1>0, <1>2, <1>6, <1>8, <1>9 DEF TypeOK, Row
  <2>2. balance[x] \in Int /\ newBalance[x] \in Int
    BY <1>0 DEF TypeOK
  <2>3. CASE e.direction = "DEBIT"
    <3>1. b >= e.amount /\ d = -e.amount
      BY <1>1, <1>5, <1>6, <2>1, <2>3 DEF Conditional, Guarded, Delta
    <3> QED
      BY <2>1, <3>1
  <2>4. CASE e.direction = "CREDIT"
    <3>1. d = e.amount
      BY <1>5, <2>4 DEF Delta
    <3>2. b >= 0 \/ b >= balance[x]
      BY <1>4, <2>1, <2>2 DEF Visible, DebitsFit
    <3> QED
      BY <2>1, <2>2, <3>1, <3>2
  <2> QED
    BY <1>2, <2>3, <2>4 DEF Row
<1>10. ASSUME NEW q \in Requests, NEW y \in Vaults, vaultLock'[y] = q
       PROVE  /\ pc'[q] \notin {"idle", "replace"}
              /\ Guarded(q)' => newBalance'[y] >= 0 \/ newBalance'[y] >= balance'[y]
  <2>1. CASE y = x
    <3>1. q = r
      BY <1>0, <1>6, <1>10, <2>1 DEF TypeOK
    <3> QED
      BY <1>0, <1>6, <1>9, <2>1, <3>1
  <2>2. CASE y # x
    <3>1. vaultLock[y] = q /\ newBalance'[y] = newBalance[y] /\ balance'[y] = balance[y]
      BY <1>0, <1>6, <1>10, <2>2 DEF TypeOK
    <3>2. Guarded(q)' => Guarded(q)
      BY <1>7, <1>8 DEF Guarded
    <3> QED
      BY <1>0, <3>1, <3>2 DEF DebitsFit
  <2> QED
    BY <2>1, <2>2
<1> QED
  BY <1>10 DEF DebitsFit

LEMMA DebitsFitNext ==
    ASSUME LInv, DebitsFit, [Next]_vars
    PROVE  DebitsFit'
<1>0. TypeOK /\ JobsFit /\ \A r \in Requests : r # Free
  BY LedgerAssumption DEF LInv
<1>1. ASSUME UNCHANGED <<balance, newBalance, vaultLock>>,
             \A q \in Requests, x \in Vaults : vaultLock[x] = q =>
                /\ pc'[q] \notin {"idle", "replace"}
                /\ job'[q].kind = job[q].kind /\ job'[q].made = job[q].made
      PROVE  DebitsFit'
  BY <1>1 DEF DebitsFit, Guarded
<1>2. ASSUME NEW r \in Requests, Prepares(r)
      PROVE  DebitsFit'
  BY <1>0, <1>1, <1>2, PreparesStays, NothingWritten DEF DebitsFit
<1>3. ASSUME NEW r \in Requests, Begin(r)
      PROVE  DebitsFit'
  <2>1. CASE UNCHANGED vars
    BY <1>1, <2>1 DEF vars, vaultRows, DebitsFit
  <2>2. ASSUME NEW l \in Locations, NEW new \in Jobs, Start(r, l, new)
        PROVE  DebitsFit'
    <3>1. UNCHANGED vaultRows /\ pc[r] = "idle"
          /\ \A q \in Requests \ {r} : pc'[q] = pc[q] /\ job'[q] = job[q]
      BY <1>0, <2>2 DEF Start, Goto, TypeOK
    <3> QED
      BY <1>1, <3>1 DEF DebitsFit, vaultRows
  <2> QED
    BY <1>0, <1>3, <2>1, <2>2, BeginStarts DEF Starts
<1>4. ASSUME NEW r \in Requests, ReplaceRule(r)
      PROVE  DebitsFit'
  <2>1. /\ UNCHANGED vaultRows /\ pc[r] = "replace"
        /\ \A q \in Requests \ {r} : pc'[q] = pc[q] /\ job'[q] = job[q]
    BY <1>0, <1>4 DEF ReplaceRule, Goto, TypeOK
  <2> QED
    BY <1>1, <2>1 DEF DebitsFit, vaultRows
<1>5. ASSUME NEW r \in Requests, Commit(r) \/ Rollback(r)
      PROVE  DebitsFit'
  <2>1. \A q \in Requests \ {r} : pc'[q] = pc[q] /\ job'[q] = job[q]
    BY <1>0, <1>5 DEF Commit, Rollback, Return, Goto, TypeOK
  <2>2. ASSUME NEW x \in Vaults, NEW q \in Requests, vaultLock'[x] = q
        PROVE  q # r /\ vaultLock[x] = q /\ newBalance'[x] = newBalance[x] /\ balance'[x] = balance[x]
    <3>1. vaultLock'[x] = IF vaultLock[x] = r THEN Free ELSE vaultLock[x]
      BY <1>0, <1>5 DEF Commit, Rollback, Released, TypeOK
    <3>2. q # r /\ vaultLock[x] = q
      BY <1>0, <2>2, <3>1
    <3> QED
      BY <1>0, <1>5, <3>2 DEF Commit, Rollback, AfterCommit, AfterRollback, TypeOK
  <2> QED
    BY <2>1, <2>2 DEF DebitsFit, Guarded
<1>6. CASE CloseProject \/ (\E i \in RuleIds : CreateRule(i)) \/ UNCHANGED vars
  BY <1>1, <1>6 DEF CloseProject, CreateRule, vars, vaultRows, DebitsFit
<1> QED
  BY <1>2, <1>3, <1>4, <1>5, <1>6, EntryCovered DEF Next, Continue, Prepares, EntryRefused

\* No commit of an expense or of the reversal of an entry leaves a vault below zero that it
\* has lowered, whatever other requests did since it started.
THEOREM DebitsCovered == Spec => EntriesCovered
<1>1. Init => DebitsFit
  BY LedgerAssumption DEF Init, DebitsFit
<1>2. ASSUME LInv, DebitsFit, [Next]_vars
      PROVE  [\A r \in Requests : Guarded(r) => DebitCovered(r)]_vars
  <2>1. ASSUME NEW r \in Requests, Guarded(r), NEW x \in Vaults, vaultLock[x] = r,
               balance'[x] < balance[x]
        PROVE  balance'[x] >= 0
    <3>0. TypeOK /\ JobsFit /\ balance[x] \in Int /\ newBalance[x] \in Int
      BY <1>2 DEF LInv, TypeOK
    <3>1. PICK q \in Requests : Commit(q)
      <4>1. balance'[x] # balance[x]
        BY <2>1, <3>0
      <4>2. ASSUME NEW q \in Requests, Begin(q) \/ Prepares(q)
            PROVE  UNCHANGED balance
        BY <3>0, <4>2, BeginStarts, NothingWritten
      <4>3. ASSUME NEW q \in Requests, ReplaceRule(q) \/ WriteEntry(q) \/ Rollback(q)
            PROVE  UNCHANGED balance
        BY <4>3 DEF ReplaceRule, WriteEntry, Rollback, vaultRows
      <4>4. CASE CloseProject \/ (\E i \in RuleIds : CreateRule(i)) \/ UNCHANGED vars
        BY <4>1, <4>4 DEF CloseProject, CreateRule, vars, vaultRows
      <4> QED
        BY <1>2, <4>1, <4>2, <4>3, <4>4 DEF Next, Continue, Prepares, EntryRefused
    <3>2. balance'[x] = IF vaultLock[x] = q THEN newBalance[x] ELSE balance[x]
      BY <3>0, <3>1 DEF Commit, AfterCommit, TypeOK
    <3>3. balance'[x] = newBalance[x]
      BY <2>1, <3>0, <3>2
    <3> QED
      BY <1>2, <2>1, <3>0, <3>3 DEF DebitsFit
  <2> QED
    BY <2>1 DEF DebitCovered
<1>3. LInv /\ DebitsFit /\ [Next]_vars => DebitsFit'
  BY DebitsFitNext
<1>4. LInv /\ DebitsFit /\ [Next]_vars => [\A r \in Requests : Guarded(r) => DebitCovered(r)]_vars
  BY <1>2
<1> QED
  BY <1>1, <1>3, <1>4, LInvAlways, PTL DEF Spec, EntriesCovered

-----------------------------------------------------------------------------
(* Whole operations *)

\* Both parts of joined lists.
LEMMA Rejoined ==
    ASSUME NEW s \in Seq(Row), NEW t \in Seq(Row)
    PROVE  /\ SubSeq(s \o t, 1, Len(s)) = s
           /\ SubSeq(s \o t, Len(s) + 1, Len(s \o t)) = t
<1>1. PICK n \in Nat : n = Len(s) /\ DOMAIN s = 1..n
  OBVIOUS
<1>2. PICK k \in Nat : k = Len(t) /\ DOMAIN t = 1..k
  OBVIOUS
<1>3. PICK u : u = s \o t
  OBVIOUS
<1>4. Len(u) = n + k /\ \A i \in 1..(n + k) : u[i] = IF i <= n THEN s[i] ELSE t[i - n]
  BY <1>1, <1>2, <1>3, ConcatProperties
<1>5. \A i \in 1..(n + k) : u[i] \in Row
  <2>1. \A i \in 1..(n + k) : i <= n => i \in 1..n
    OBVIOUS
  <2>2. \A i \in 1..(n + k) : ~(i <= n) => i - n \in 1..k
    OBVIOUS
  <2>3. (\A i \in 1..n : s[i] \in Row) /\ \A i \in 1..k : t[i] \in Row
    BY <1>1, <1>2
  <2> QED
    BY <1>4, <2>1, <2>2, <2>3
<1>6. SubSeq(u, 1, n) = s
  <2>1. PICK v : v = SubSeq(u, 1, n)
    OBVIOUS
  <2>2. v \in Seq(Row) /\ Len(v) = n /\ \A i \in 1..n : v[i] = u[i]
    <3>1. \A i \in 1..n : u[i] \in Row
      BY <1>5
    <3> QED
      BY <2>1, <3>1, SubSeqProperties
  <2>3. \A i \in 1..n : i \in 1..(n + k) /\ i <= n
    OBVIOUS
  <2>4. \A i \in 1..n : v[i] = s[i]
    BY <1>4, <2>2, <2>3
  <2> QED
    BY <1>1, <2>1, <2>2, <2>4
<1>7. SubSeq(u, n + 1, n + k) = t
  <2>1. PICK v : v = SubSeq(u, n + 1, n + k)
    OBVIOUS
  <2>2. v \in Seq(Row) /\ Len(v) = k /\ \A i \in 1..k : v[i] = u[n + i]
    <3>1. \A i \in (n + 1)..(n + k) : u[i] \in Row
      BY <1>5
    <3>2. /\ v \in Seq(Row)
          /\ Len(v) = IF n + 1 <= n + k THEN (n + k) - (n + 1) + 1 ELSE 0
          /\ \A i \in 1..((n + k) - (n + 1) + 1) : v[i] = u[(n + 1) + i - 1]
      BY <2>1, <3>1, SubSeqProperties
    <3>3. Len(v) = k /\ (n + k) - (n + 1) + 1 = k
      BY <3>2
    <3>4. \A i \in 1..k : (n + 1) + i - 1 = n + i
      OBVIOUS
    <3> QED
      BY <3>2, <3>3, <3>4
  <2>3. \A i \in 1..k : n + i \in 1..(n + k) /\ ~(n + i <= n) /\ (n + i) - n = i
    OBVIOUS
  <2>4. \A i \in 1..k : v[i] = t[i]
    BY <1>4, <2>2, <2>3
  <2>5. v = t
    BY <1>2, <2>2, <2>4
  <2> QED
    BY <2>1, <2>5
<1> QED
  BY <1>1, <1>3, <1>4, <1>6, <1>7

\* Journal adds and lists as Ledger does.
LEMMA SameOperators ==
    /\ \A s : Abstract!Range(s) = Range(s)
    /\ \A f : Abstract!SumFunction(f) = SumFunction(f)
<1>1. \A s : Abstract!Range(s) = Range(s)
  BY DEF Abstract!Range, Range
<1>2. ASSUME NEW f
      PROVE  Abstract!SumFunction(f) = SumFunction(f)
  BY DEF Abstract!SumFunction, SumFunction, Abstract!SumFunctionOnSet, SumFunctionOnSet,
         Abstract!FoldFunctionOnSet, FoldFunctionOnSet, Abstract!MapThenFoldSet, MapThenFoldSet
<1> QED
  BY <1>1, <1>2

\* All steps but commits leave what the journal shows.
LEMMA NothingBooked ==
    ASSUME DInv, [Next]_vars, \A r \in Requests : ~Commit(r)
    PROVE  UNCHANGED <<rows, balance, contribution>>
<1>1. ASSUME NEW r \in Requests, Begin(r)
      PROVE  UNCHANGED <<rows, balance, contribution>>
  <2>1. UNCHANGED balance
    BY <1>1, BeginStarts, NothingWritten DEF DInv, LInv
  <2> QED
    BY <1>1, <2>1, BeginFits DEF Hidden, vars, contributionRows
<1>2. ASSUME NEW r \in Requests, Prepares(r)
      PROVE  UNCHANGED <<rows, balance, contribution>>
  <2>1. UNCHANGED balance
    BY <1>2, NothingWritten DEF DInv, LInv
  <2> QED
    BY <1>2, <2>1, StatementsHidden DEF Prepares, Hidden
<1>3. ASSUME NEW r \in Requests, WriteEntry(r) \/ ReplaceRule(r) \/ Rollback(r)
      PROVE  UNCHANGED <<rows, balance, contribution>>
  BY <1>3 DEF WriteEntry, ReplaceRule, Rollback, vaultRows, contributionRows
<1>4. CASE CloseProject \/ (\E i \in RuleIds : CreateRule(i)) \/ UNCHANGED vars
  BY <1>4 DEF CloseProject, CreateRule, vars, vaultRows, contributionRows
<1> QED
  BY <1>1, <1>2, <1>3, <1>4 DEF Next, Continue, Prepares, EntryRefused

\* What a commit does to the contributions.
LEMMA ContributionsCommitted ==
    ASSUME DInv, NEW r \in Requests, Commit(r)
    PROVE  /\ job[r].kind = "CONTRIBUTION" =>
                 contribution' = [contribution EXCEPT ![job[r].on] = "RECORDED"]
           /\ job[r].kind = "CONTRIBUTION_REVERSAL" =>
                 contribution' = [contribution EXCEPT ![job[r].on] = "REVERSED"]
           /\ job[r].kind \notin {"CONTRIBUTION", "CONTRIBUTION_REVERSAL"} =>
                 UNCHANGED contribution
<1>0. /\ TypeOK /\ RequestFits(r)
      /\ DOMAIN contribution = Contributions
      /\ contribution = [c \in Contributions |-> contribution[c]]
  BY DEF DInv, LInv, TypeOK, RequestsFit
<1>1. PICK seen : seen = AfterCommit(contribution, newContribution, contributionLock, r)
  OBVIOUS
<1>2. seen = [c \in Contributions |-> IF contributionLock[c] = r THEN newContribution[c]
                                                                 ELSE contribution[c]]
  BY <1>0, <1>1 DEF AfterCommit, TypeOK
<1>3. contribution' = IF job[r].kind = "CONTRIBUTION"
                      THEN [seen EXCEPT ![job[r].on] = "RECORDED"] ELSE seen
  BY <1>1 DEF Commit
<1>4. CASE job[r].kind # "CONTRIBUTION_REVERSAL"
  <2>1. \A c \in Contributions : contributionLock[c] # r
    BY <1>0, <1>4 DEF RequestFits
  <2>2. seen = contribution
    BY <1>0, <1>2, <2>1
  <2> QED
    BY <1>3, <1>4, <2>2
<1>5. CASE job[r].kind = "CONTRIBUTION_REVERSAL"
  <2>1. PICK c \in Contributions : c = job[r].on /\ Reverses(r, c) /\ pc[r] = "commit"
    BY <1>5, CommitsAll
  <2>2. contributionLock[c] = r /\ newContribution[c] = "REVERSED"
    BY <2>1 DEF Reverses
  <2>3. \A d \in Contributions \ {c} : contributionLock[d] # r
    BY <1>0, <2>1 DEF RequestFits
  <2>4. seen = [contribution EXCEPT ![c] = "REVERSED"]
    BY <1>0, <1>2, <2>2, <2>3
  <2> QED
    BY <1>3, <1>5, <2>1, <2>4
<1> QED
  BY <1>4, <1>5

\* A row that reverses one there is undoes it.
LEMMA ReversalUndoes ==
    ASSUME DInv, NEW row \in Row, RowFits(row), row.reverses # 0
    PROVE  Abstract!Undoes(row)
<1>1. PICK i \in DOMAIN rows : i = row.reverses /\ row = Mirror(rows[i], i)
  BY DEF RowFits
<1>2. PICK original \in Row : original = rows[i]
  BY DEF DInv, LInv, TypeOK
<1>3. /\ row.vault = original.vault /\ row.source = original.source /\ row.amount = original.amount
      /\ row.direction = IF original.direction = "CREDIT" THEN "DEBIT" ELSE "CREDIT"
  BY <1>1, <1>2 DEF Mirror, Row
<1>4. original.amount \in Int /\ original.direction \in {"CREDIT", "DEBIT"}
  BY DEF Row
<1>5. Abstract!Effect(row) = -Abstract!Effect(original)
  BY <1>3, <1>4 DEF Abstract!Effect
<1> QED
  BY <1>1, <1>2, <1>3, <1>5 DEF Abstract!Undoes

\* A commit is one step of the journal.
LEMMA CommitBooks ==
    ASSUME DInv, NEW r \in Requests, Commit(r)
    PROVE  Abstract!Next
<1>1. /\ rows \in Seq(Row) /\ job[r].made \in Seq(Row) /\ rows' = rows \o job[r].made
      /\ \A row \in Range(job[r].made) :
            RowFits(row) /\ row.source = job[r].on /\ row.vault \in Vaults
  BY CommitsAll
<1>2. PICK made \in Seq(Row) : made = job[r].made
  BY <1>1
<1>3. Abstract!Booked = made /\ SubSeq(rows', 1, Len(rows)) = rows
  BY <1>1, <1>2, Rejoined DEF Abstract!Booked
<1>4. \A row \in Range(made) : row \in Row
  BY DEF Range
<1>5. Abstract!Book
  <2>1. balance' = [x \in Vaults |-> balance[x] + Net(x, made)]
    <3>1. balance' = [x \in Vaults |-> balance'[x]]
      BY DEF Commit, AfterCommit, DInv, LInv, TypeOK
    <3>2. \A x \in Vaults : balance'[x] = balance[x] + Net(x, made)
      BY <1>2, CommitAdds DEF DInv, LInv
    <3> QED
      BY <3>1, <3>2
  <2>2. ASSUME NEW x \in Vaults
        PROVE  Net(x, made) = Abstract!SumFunction([i \in DOMAIN made |->
                                  IF made[i].vault = x THEN Abstract!Effect(made[i]) ELSE 0])
    BY SameOperators DEF Net, Delta, Abstract!Effect
  <2>3. \A row \in Range(made) : row.vault \in Vaults /\ (row.reverses # 0 => Abstract!Undoes(row))
    BY <1>1, <1>2, <1>4, ReversalUndoes
  <2> QED
    BY <1>3, <2>1, <2>2, <2>3, SameOperators DEF Abstract!Book
<1>6. CASE job[r].kind = "CONTRIBUTION"
  <2>1. PICK c \in Contributions : c = job[r].on /\ Records(r, c) /\ pc[r] = "write"
                                   /\ job[r].plan = <<>> /\ Entered(r) = Range(made)
    BY <1>2, <1>6, CommitsAll
  <2>2. contribution[c] = "NONE" /\ \A row \in Range(made) : row.reverses = 0
    BY <2>1 DEF Records
  <2>3. \A row \in Range(made) : row.source = c /\ row.direction = "CREDIT"
    <3>1. c # NoContribution
      BY LedgerAssumption
    <3> QED
      BY <1>1, <1>2, <2>1, <2>2, <3>1 DEF RowFits
  <2>4. SumFunction([i \in DOMAIN made |-> made[i].amount]) = met[c] * Contributed[c]
    <3>1. Posted(c, made) + Posted(c, <<>>) = Contributed[c] * met[c]
      BY <1>2, <2>1 DEF Records, Total
    <3>2. Posted(c, <<>>) = 0 /\ Posted(c, made) \in Int
      <4>1. <<>> \in Seq(Row) /\ \A i \in DOMAIN <<>> : <<>>[i].source # c
        OBVIOUS
      <4> QED
        BY <4>1, PostedOfRows
    <3>3. \A i \in DOMAIN made : made[i].source = c
      BY <2>3 DEF Range
    <3>4. Posted(c, made) = SumFunction([i \in DOMAIN made |-> made[i].amount])
      BY <3>3 DEF Posted
    <3>5. Contributed[c] \in Int /\ met[c] \in Int
      BY LedgerAssumption DEF DInv, LInv, TypeOK
    <3> QED
      BY <3>1, <3>2, <3>4, <3>5
  <2>5. met[c] \in 0..Len(Rules)
    BY DEF DInv, LInv, TypeOK
  <2>6. contribution' = [contribution EXCEPT ![c] = "RECORDED"]
    BY <1>6, <2>1, ContributionsCommitted
  <2>7. Abstract!Record(c)
    BY <1>3, <2>2, <2>3, <2>4, <2>5, <2>6, SameOperators DEF Abstract!Record
  <2> QED
    BY <1>5, <2>7 DEF Abstract!Next
<1>7. CASE job[r].kind = "CONTRIBUTION_REVERSAL"
  <2>1. PICK c \in Contributions : c = job[r].on /\ Reverses(r, c) /\ pc[r] = "commit"
                                   /\ Entered(r) = Range(made)
    BY <1>2, <1>7, CommitsAll
  <2>2. /\ contribution[c] # "NONE" /\ \A row \in Range(made) : row.reverses # 0
        /\ \A i \in Originals(c) : \E row \in Range(made) : row.reverses = i
    BY <2>1 DEF Reverses
  <2>3. Abstract!Standing(c) = Originals(c)
    BY DEF Abstract!Standing, Originals, Reversals
  <2>4. contribution' = [contribution EXCEPT ![c] = "REVERSED"]
    BY <1>7, <2>1, ContributionsCommitted
  <2>5. Abstract!Cancel(c)
    BY <1>1, <1>2, <1>3, <2>1, <2>2, <2>3, <2>4, SameOperators DEF Abstract!Cancel
  <2> QED
    BY <1>5, <2>5 DEF Abstract!Next
<1>8. CASE job[r].kind \notin {"CONTRIBUTION", "CONTRIBUTION_REVERSAL"}
  <2>1. job[r].on = NoContribution
    BY <1>8 DEF DInv, RequestsFit, RequestFits
  <2>2. UNCHANGED contribution
    BY <1>8, ContributionsCommitted
  <2>3. Abstract!Move
    BY <1>1, <1>2, <1>3, <2>1, <2>2, SameOperators DEF Abstract!Move
  <2> QED
    BY <1>5, <2>3 DEF Abstract!Next
<1> QED
  BY <1>6, <1>7, <1>8

\* Ledger implements Journal: the rows, balances and contributions that are committed change
\* only by whole operations, and each reversal undoes the row it names.
THEOREM JournalImplemented == Spec => ImplementsJournal
<1>1. Init => Abstract!Init
  BY DEF Init, Abstract!Init
<1>2. ASSUME DInv, [Next]_vars
      PROVE  [Abstract!Next]_(Abstract!vars)
  <2>1. CASE \E r \in Requests : Commit(r)
    BY <1>2, <2>1, CommitBooks
  <2>2. CASE \A r \in Requests : ~Commit(r)
    BY <1>2, <2>2, NothingBooked DEF Abstract!vars
  <2> QED
    BY <2>1, <2>2
<1>3. DInv /\ [Next]_vars => [Abstract!Next]_(Abstract!vars)
  BY <1>2
<1> QED
  BY <1>1, <1>3, DInvAlways, PTL DEF Spec, ImplementsJournal, Abstract!Spec
=============================================================================
