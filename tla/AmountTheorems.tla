--------------------------- MODULE AmountTheorems ----------------------------
(***************************************************************************)
(* Facts on which the theorems about the ledger and about splits rest: of  *)
(* SumFunction and sequences, and of the operators of FlowRules.           *)
(* SumFunction takes the elements of a finite domain in an order that      *)
(* nobody knows, so that even the sum of a longer sequence has to be found *)
(* by induction.  Induction is by the well-foundedness of < on the         *)
(* naturals: a set that has no least missing number is all of Nat.         *)
(***************************************************************************)
EXTENDS FlowRules, FiniteSetTheorems, SequenceTheorems, WellFoundedInduction, TLAPS

\* A set of numbers has a least element.
LEMMA Least ==
    ASSUME NEW S, S \subseteq Nat, S # {}
    PROVE  \E n \in S : \A k \in S : n <= k
<1>1. PICK less : less = OpToRel(<, Nat)
  OBVIOUS
<1>2. IsWellFoundedOn(less, Nat)
  BY <1>1, NatLessThanWellFounded
<1>3. PICK n \in S : \A k \in S : <<k, n>> \notin less
  BY <1>2, WFMin
<1>4. ASSUME NEW k \in S
      PROVE  n <= k
  <2>1. n \in Nat /\ k \in Nat /\ <<k, n>> \notin less
    BY <1>3
  <2> QED
    BY <1>1, <2>1 DEF OpToRel
<1> QED
  BY <1>4

\* A set that contains 0 and the successor of each of its numbers contains every number.
LEMMA Induction ==
    ASSUME NEW T, 0 \in T, \A n \in Nat : n \in T => n + 1 \in T
    PROVE  Nat \subseteq T
<1>1. SUFFICES ASSUME NEW S, S = Nat \ T, S # {} PROVE FALSE
  OBVIOUS
<1>2. PICK n \in S : \A k \in S : n <= k
  BY <1>1, Least
<1>3. n \in Nat /\ n # 0 /\ n - 1 \in Nat /\ (n - 1) + 1 = n
  BY <1>1, <1>2
<1>4. n - 1 \in S
  BY <1>1, <1>3
<1> QED
  BY <1>2, <1>3, <1>4

-----------------------------------------------------------------------------
(* What SumFunction computes *)

Any(s) == CHOOSE x \in s : TRUE

\* g gives the sums of f over the sets in `sets`.
Sums(g, f, sets) ==
    g = [s \in sets |-> IF s = {} THEN 0 ELSE f[Any(s)] + g[s \ {Any(s)}]]

\* The sums over the sets of up to n elements of S.
UpTo(S, n) == {s \in SUBSET S : Cardinality(s) <= n}

\* Taking an element out of a finite set.
LEMMA Smaller ==
    ASSUME NEW s, IsFiniteSet(s)
    PROVE  /\ Cardinality(s) \in Nat /\ (Cardinality(s) = 0 <=> s = {})
           /\ s # {} => Any(s) \in s
           /\ \A x \in s : IsFiniteSet(s \ {x}) /\ Cardinality(s \ {x}) = Cardinality(s) - 1
<1>1. Cardinality(s) \in Nat /\ (Cardinality(s) = 0 <=> s = {})
  BY FS_CardinalityType, FS_EmptySet
<1>2. s # {} => Any(s) \in s
  BY DEF Any
<1>3. ASSUME NEW x \in s
      PROVE  IsFiniteSet(s \ {x}) /\ Cardinality(s \ {x}) = Cardinality(s) - 1
  BY FS_RemoveElement
<1> QED
  BY <1>1, <1>2, <1>3

\* Sums over the subsets of a finite set exist.
LEMMA SumsExist ==
    ASSUME NEW S, IsFiniteSet(S), NEW f
    PROVE  \E g : Sums(g, f, SUBSET S)
<1>1. PICK T : T = {n \in Nat : \E g : Sums(g, f, UpTo(S, n))}
  OBVIOUS
<1>2. \A s \in SUBSET S : IsFiniteSet(s) /\ Cardinality(s) \in Nat /\ Cardinality(s) <= Cardinality(S)
  BY FS_Subset, FS_CardinalityType
<1>3. ASSUME NEW s \in SUBSET S, s # {}
      PROVE  /\ Any(s) \in s /\ s \ {Any(s)} \in SUBSET S
             /\ Cardinality(s \ {Any(s)}) = Cardinality(s) - 1
  <2>1. Any(s) \in s
    BY <1>3 DEF Any
  <2> QED
    BY <1>2, <2>1, FS_RemoveElement
<1>4. 0 \in T
  <2>1. UpTo(S, 0) = {{}}
    BY <1>2, FS_EmptySet DEF UpTo
  <2>2. Sums([s \in {{}} |-> 0], f, {{}})
    BY DEF Sums
  <2> QED
    BY <1>1, <2>1, <2>2
<1>5. ASSUME NEW n \in Nat, n \in T
      PROVE  n + 1 \in T
  <2>1. PICK g : Sums(g, f, UpTo(S, n))
    BY <1>1, <1>5
  <2>2. PICK h : h = [s \in UpTo(S, n + 1) |-> IF s = {} THEN 0 ELSE f[Any(s)] + g[s \ {Any(s)}]]
    OBVIOUS
  <2>3. ASSUME NEW s \in UpTo(S, n)
        PROVE  h[s] = g[s]
    <3>1. s \in UpTo(S, n + 1)
      BY <1>2 DEF UpTo
    <3> QED
      BY <2>1, <2>2, <3>1 DEF Sums
  <2>4. ASSUME NEW s \in UpTo(S, n + 1), s # {}
        PROVE  h[s \ {Any(s)}] = g[s \ {Any(s)}]
    <3>1. s \ {Any(s)} \in UpTo(S, n)
      BY <1>2, <1>3, <2>4 DEF UpTo
    <3> QED
      BY <2>3, <3>1
  <2>5. \A s \in UpTo(S, n + 1) :
           (IF s = {} THEN 0 ELSE f[Any(s)] + g[s \ {Any(s)}]) =
           (IF s = {} THEN 0 ELSE f[Any(s)] + h[s \ {Any(s)}])
    BY <2>4
  <2>6. Sums(h, f, UpTo(S, n + 1))
    BY <2>2, <2>5 DEF Sums
  <2> QED
    BY <1>1, <2>6
<1>6. Cardinality(S) \in T
  BY <1>2, <1>4, <1>5, Induction
<1>7. UpTo(S, Cardinality(S)) = SUBSET S
  BY <1>2 DEF UpTo
<1> QED
  BY <1>1, <1>6, <1>7

\* SumFunction takes its value from them.
LEMMA SumIsOfSums ==
    ASSUME NEW f, IsFiniteSet(DOMAIN f)
    PROVE  \E g : Sums(g, f, SUBSET DOMAIN f) /\ SumFunction(f) = g[DOMAIN f]
<1>1. SumFunction(f) = (CHOOSE g : Sums(g, f, SUBSET DOMAIN f))[DOMAIN f]
  BY DEF SumFunction, SumFunctionOnSet, FoldFunctionOnSet, MapThenFoldSet, Sums, Any
<1>2. \E g : Sums(g, f, SUBSET DOMAIN f)
  BY SumsExist
<1>3. Sums(CHOOSE g : Sums(g, f, SUBSET DOMAIN f), f, SUBSET DOMAIN f)
  BY <1>2
<1> QED
  BY <1>1, <1>3

\* The sum over a set depends on its elements alone, not on the set it is taken from.
LEMMA SumsAgree ==
    ASSUME NEW f, NEW g, NEW F, Sums(g, f, SUBSET F), NEW s, IsFiniteSet(s), s \subseteq F,
           NEW k, NEW h, Sums(h, k, SUBSET s), \A x \in s : f[x] = k[x]
    PROVE  g[s] = h[s]
<1>1. PICK T : T = {n \in Nat : \A u \in SUBSET s : Cardinality(u) = n => g[u] = h[u]}
  OBVIOUS
<1>2. \A u \in SUBSET s : IsFiniteSet(u) /\ Cardinality(u) \in Nat
  BY FS_Subset, FS_CardinalityType
<1>3. ASSUME NEW u \in SUBSET s
      PROVE  /\ g[u] = IF u = {} THEN 0 ELSE f[Any(u)] + g[u \ {Any(u)}]
             /\ h[u] = IF u = {} THEN 0 ELSE k[Any(u)] + h[u \ {Any(u)}]
  <2>1. u \in SUBSET F
    OBVIOUS
  <2> QED
    BY <2>1 DEF Sums
<1>4. 0 \in T
  BY <1>1, <1>2, <1>3, FS_EmptySet
<1>5. ASSUME NEW n \in Nat, n \in T
      PROVE  n + 1 \in T
  <2>1. ASSUME NEW u \in SUBSET s, Cardinality(u) = n + 1
        PROVE  g[u] = h[u]
    <3>0. IsFiniteSet(u) /\ n + 1 # 0 /\ (n + 1) - 1 = n
      BY <1>2
    <3>1. u # {} /\ Any(u) \in u
      BY <2>1, <3>0, Smaller
    <3>2. Cardinality(u \ {Any(u)}) = n /\ u \ {Any(u)} \in SUBSET s
      BY <2>1, <3>0, <3>1, Smaller
    <3>3. g[u \ {Any(u)}] = h[u \ {Any(u)}]
      BY <1>1, <1>5, <3>2
    <3> QED
      BY <1>3, <3>1, <3>3
  <2> QED
    BY <1>1, <2>1
<1>6. Cardinality(s) \in T
  BY <1>2, <1>4, <1>5, Induction
<1> QED
  BY <1>1, <1>6

\* Sums stay in a set that has 0 and is closed under addition.
LEMMA SumsTyped ==
    ASSUME NEW D, 0 \in D, \A m \in D, n \in D : m + n \in D,
           NEW S, IsFiniteSet(S), NEW f, \A x \in S : f[x] \in D, NEW g, Sums(g, f, SUBSET S)
    PROVE  \A s \in SUBSET S : g[s] \in D
<1>1. PICK T : T = {n \in Nat : \A s \in SUBSET S : Cardinality(s) = n => g[s] \in D}
  OBVIOUS
<1>2. \A s \in SUBSET S : IsFiniteSet(s) /\ Cardinality(s) \in Nat
  BY FS_Subset, FS_CardinalityType
<1>3. \A s \in SUBSET S : g[s] = IF s = {} THEN 0 ELSE f[Any(s)] + g[s \ {Any(s)}]
  BY DEF Sums
<1>6. 0 \in T
  <2>1. ASSUME NEW s \in SUBSET S, Cardinality(s) = 0
        PROVE  g[s] \in D
    <3>1. s = {}
      BY <1>2, <2>1, Smaller
    <3> QED
      BY <1>3, <3>1
  <2> QED
    BY <1>1, <2>1
<1>7. ASSUME NEW n \in Nat, n \in T
      PROVE  n + 1 \in T
  <2>1. ASSUME NEW s \in SUBSET S, Cardinality(s) = n + 1
        PROVE  g[s] \in D
    <3>1. IsFiniteSet(s) /\ n + 1 # 0 /\ (n + 1) - 1 = n
      BY <1>2
    <3>2. s # {} /\ Any(s) \in s
      BY <2>1, <3>1, Smaller
    <3>3. Cardinality(s \ {Any(s)}) = n /\ s \ {Any(s)} \in SUBSET S
      BY <2>1, <3>1, <3>2, Smaller
    <3>4. g[s \ {Any(s)}] \in D /\ f[Any(s)] \in D
      BY <1>1, <1>7, <3>2, <3>3
    <3>5. g[s] = f[Any(s)] + g[s \ {Any(s)}]
      BY <1>3, <3>2
    <3> QED
      BY <3>4, <3>5
  <2> QED
    BY <1>1, <2>1
<1>8. ASSUME NEW s \in SUBSET S
      PROVE  g[s] \in D
  <2>1. Cardinality(s) \in T
    BY <1>2, <1>6, <1>7, Induction
  <2> QED
    BY <1>1, <2>1
<1> QED
  BY <1>8

\* Any element may be taken first.
LEMMA SumsStep ==
    ASSUME NEW S, IsFiniteSet(S), NEW f, \A x \in S : f[x] \in Int, NEW g, Sums(g, f, SUBSET S)
    PROVE  \A s \in SUBSET S : \A y \in s : g[s] = f[y] + g[s \ {y}]
<1>1. PICK T : T = {n \in Nat : \A s \in SUBSET S : Cardinality(s) = n =>
                                    \A y \in s : g[s] = f[y] + g[s \ {y}]}
  OBVIOUS
<1>2. \A s \in SUBSET S : IsFiniteSet(s) /\ Cardinality(s) \in Nat
  BY FS_Subset, FS_CardinalityType
<1>3. \A s \in SUBSET S : g[s] \in Int
  <2>1. 0 \in Int /\ \A m \in Int, n \in Int : m + n \in Int
    OBVIOUS
  <2> QED
    BY <2>1, SumsTyped
<1>4. 0 \in T
  <2>1. ASSUME NEW s \in SUBSET S, Cardinality(s) = 0
        PROVE  s = {}
    BY <1>2, <2>1, Smaller
  <2> QED
    BY <1>1, <2>1
<1>5. ASSUME NEW n \in Nat, n \in T
      PROVE  n + 1 \in T
  <2>1. ASSUME NEW s \in SUBSET S, Cardinality(s) = n + 1, NEW y \in s
        PROVE  g[s] = f[y] + g[s \ {y}]
    <3>1. IsFiniteSet(s) /\ n + 1 # 0 /\ (n + 1) - 1 = n
      BY <1>2
    <3>2. s # {} /\ Any(s) \in s
      BY <2>1, <3>1, Smaller
    <3>3. PICK a \in s : a = Any(s)
      BY <3>2
    <3>4. g[s] = f[a] + g[s \ {a}]
      BY <3>2, <3>3 DEF Sums
    <3>5. CASE y = a
      BY <3>4, <3>5
    <3>6. CASE y # a
      <4>1. PICK u \in SUBSET S : u = s \ {a}
        OBVIOUS
      <4>2. PICK v \in SUBSET S : v = s \ {y}
        OBVIOUS
      <4>3. PICK w \in SUBSET S : w = u \ {y}
        OBVIOUS
      <4>4. w = v \ {a} /\ y \in u /\ a \in v
        BY <3>6, <4>1, <4>2, <4>3
      <4>5. Cardinality(u) = n /\ Cardinality(v) = n
        BY <2>1, <3>1, <4>1, <4>2, Smaller
      <4>6. g[u] = f[y] + g[w] /\ g[v] = f[a] + g[w]
        <5>1. \A x \in u : g[u] = f[x] + g[u \ {x}]
          BY <1>1, <1>5, <4>5
        <5>2. \A x \in v : g[v] = f[x] + g[v \ {x}]
          BY <1>1, <1>5, <4>5
        <5> QED
          BY <4>3, <4>4, <5>1, <5>2
      <4>7. g[w] \in Int /\ f[a] \in Int /\ f[y] \in Int
        BY <1>3
      <4>8. g[s] = f[a] + g[u]
        BY <3>4, <4>1
      <4>9. g[s] = f[y] + g[v]
        BY <4>6, <4>7, <4>8
      <4> QED
        BY <4>2, <4>9
    <3> QED
      BY <3>5, <3>6
  <2> QED
    BY <1>1, <2>1
<1>6. ASSUME NEW s \in SUBSET S
      PROVE  \A y \in s : g[s] = f[y] + g[s \ {y}]
  <2>1. Cardinality(s) \in T
    BY <1>2, <1>4, <1>5, Induction
  <2> QED
    BY <1>1, <2>1
<1> QED
  BY <1>6

-----------------------------------------------------------------------------
(* The sum of a function *)

\* The sum of a function on a finite set stays where its values are.
LEMMA SumType ==
    ASSUME NEW D, 0 \in D, \A m \in D, n \in D : m + n \in D,
           NEW f, IsFiniteSet(DOMAIN f), \A x \in DOMAIN f : f[x] \in D
    PROVE  SumFunction(f) \in D
<1>1. PICK g : Sums(g, f, SUBSET DOMAIN f) /\ SumFunction(f) = g[DOMAIN f]
  BY SumIsOfSums
<1>2. PICK S : S = DOMAIN f
  OBVIOUS
<1>3. IsFiniteSet(S) /\ Sums(g, f, SUBSET S) /\ \A x \in S : f[x] \in D
  BY <1>1, <1>2
<1>4. \A s \in SUBSET S : g[s] \in D
  BY <1>3, SumsTyped
<1> QED
  BY <1>1, <1>2, <1>4

\* Sums of integers are integers, sums of naturals naturals, sums of zeros zero.
LEMMA SumTypes ==
    ASSUME NEW f, IsFiniteSet(DOMAIN f)
    PROVE  /\ (\A x \in DOMAIN f : f[x] \in Int) => SumFunction(f) \in Int
           /\ (\A x \in DOMAIN f : f[x] \in Nat) => SumFunction(f) \in Nat
           /\ (\A x \in DOMAIN f : f[x] = 0) => SumFunction(f) = 0
<1>1. (\A x \in DOMAIN f : f[x] \in Int) => SumFunction(f) \in Int
  <2>1. 0 \in Int /\ \A m \in Int, n \in Int : m + n \in Int
    OBVIOUS
  <2> QED
    BY <2>1, SumType
<1>2. (\A x \in DOMAIN f : f[x] \in Nat) => SumFunction(f) \in Nat
  <2>1. 0 \in Nat /\ \A m \in Nat, n \in Nat : m + n \in Nat
    OBVIOUS
  <2> QED
    BY <2>1, SumType
<1>3. ASSUME \A x \in DOMAIN f : f[x] = 0
      PROVE  SumFunction(f) = 0
  <2>1. \A x \in DOMAIN f : f[x] \in {0}
    BY <1>3
  <2>2. \A m \in {0}, n \in {0} : m + n \in {0}
    OBVIOUS
  <2>3. SumFunction(f) \in {0}
    BY <2>1, <2>2, SumType
  <2> QED
    BY <2>3
<1> QED
  BY <1>1, <1>2, <1>3

\* Nothing to sum.
LEMMA SumNothing ==
    ASSUME NEW f, DOMAIN f = {}
    PROVE  SumFunction(f) = 0
<1>1. IsFiniteSet(DOMAIN f)
  BY FS_EmptySet
<1>2. PICK g : Sums(g, f, SUBSET DOMAIN f) /\ SumFunction(f) = g[DOMAIN f]
  BY <1>1, SumIsOfSums
<1> QED
  BY <1>2 DEF Sums

\* One element is taken out, by whatever function f is without it.
LEMMA SumWithout ==
    ASSUME NEW f, IsFiniteSet(DOMAIN f), \A x \in DOMAIN f : f[x] \in Int,
           NEW y \in DOMAIN f, NEW k, DOMAIN k = DOMAIN f \ {y}, \A x \in DOMAIN k : k[x] = f[x]
    PROVE  SumFunction(f) = f[y] + SumFunction(k)
<1>1. IsFiniteSet(DOMAIN k)
  BY FS_RemoveElement
<1>2. PICK g : Sums(g, f, SUBSET DOMAIN f) /\ SumFunction(f) = g[DOMAIN f]
  BY SumIsOfSums
<1>3. PICK h : Sums(h, k, SUBSET DOMAIN k) /\ SumFunction(k) = h[DOMAIN k]
  BY <1>1, SumIsOfSums
<1>4. PICK S : S = DOMAIN f
  OBVIOUS
<1>5. PICK K : K = DOMAIN k
  OBVIOUS
<1>6. g[S] = f[y] + g[S \ {y}]
  <2>1. Sums(g, f, SUBSET S) /\ IsFiniteSet(S) /\ y \in S /\ \A x \in S : f[x] \in Int
    BY <1>2, <1>4
  <2> QED
    BY <2>1, SumsStep
<1>7. g[K] = h[K]
  <2>1. K \subseteq S /\ IsFiniteSet(K) /\ \A x \in K : f[x] = k[x]
    BY <1>1, <1>4, <1>5
  <2>2. Sums(g, f, SUBSET S) /\ Sums(h, k, SUBSET K)
    BY <1>2, <1>3, <1>4, <1>5
  <2> QED
    BY <2>1, <2>2, SumsAgree, SMTT(60)
<1> QED
  BY <1>2, <1>3, <1>4, <1>5, <1>6, <1>7

-----------------------------------------------------------------------------
(* The sum of a sequence *)

\* A longer sequence.
LEMMA SumAppend ==
    ASSUME NEW s \in Seq(Int), NEW e \in Int
    PROVE  SumFunction(Append(s, e)) = SumFunction(s) + e
<1> DEFINE t == Append(s, e)
<1>1. /\ t \in Seq(Int) /\ Len(t) = Len(s) + 1 /\ DOMAIN t = 1..(Len(s) + 1)
      /\ t[Len(s) + 1] = e /\ \A i \in 1..Len(s) : t[i] = s[i]
  OBVIOUS
<1>2. IsFiniteSet(DOMAIN t) /\ IsFiniteSet(DOMAIN s)
  BY <1>1, FS_Interval
<1>3. DOMAIN s = DOMAIN t \ {Len(s) + 1}
  <2>1. DOMAIN s = 1..Len(s) /\ Len(s) \in Nat
    OBVIOUS
  <2>2. 1..Len(s) = (1..(Len(s) + 1)) \ {Len(s) + 1}
    BY <2>1
  <2> HIDE DEF t
  <2> QED
    BY <1>1, <2>1, <2>2
<1>4. SumFunction(s) \in Int
  BY <1>2, SumTypes
<1>5. SumFunction(t) = t[Len(s) + 1] + SumFunction(s)
  <2>1. /\ \A x \in DOMAIN t : t[x] \in Int
        /\ Len(s) + 1 \in DOMAIN t
        /\ \A x \in DOMAIN s : s[x] = t[x]
    BY <1>1
  <2> HIDE DEF t
  <2> QED
    BY <1>2, <1>3, <2>1, SumWithout
<1> QED
  BY <1>1, <1>4, <1>5

\* Two sequences, one after the other.
LEMMA SumConcat ==
    ASSUME NEW s \in Seq(Int), NEW t \in Seq(Int)
    PROVE  SumFunction(s \o t) = SumFunction(s) + SumFunction(t)
<1>1. PICK T : T = {n \in Nat : \A u \in Seq(Int) : Len(u) = n =>
                        SumFunction(s \o u) = SumFunction(s) + SumFunction(u)}
  OBVIOUS
<1>2. \A u \in Seq(Int) : SumFunction(u) \in Int
  <2>1. \A u \in Seq(Int) : IsFiniteSet(DOMAIN u) /\ \A x \in DOMAIN u : u[x] \in Int
    BY FS_Interval
  <2> QED
    BY <2>1, SumTypes
<1>3. 0 \in T
  <2>1. ASSUME NEW u \in Seq(Int), Len(u) = 0
        PROVE  SumFunction(s \o u) = SumFunction(s) + SumFunction(u)
    <3>1. s \o u = s /\ DOMAIN u = {}
      BY <2>1
    <3>2. SumFunction(u) = 0
      BY <3>1, SumNothing
    <3> QED
      BY <1>2, <3>1, <3>2
  <2> QED
    BY <1>1, <2>1
<1>4. ASSUME NEW n \in Nat, n \in T
      PROVE  n + 1 \in T
  <2>1. ASSUME NEW u \in Seq(Int), Len(u) = n + 1
        PROVE  SumFunction(s \o u) = SumFunction(s) + SumFunction(u)
    <3>1. PICK v \in Seq(Int), e \in Int : u = Append(v, e) /\ Len(v) = n
      <4>1. u # <<>>
        BY <2>1
      <4>2. SubSeq(u, 1, n) \in Seq(Int) /\ Len(SubSeq(u, 1, n)) = n
        BY <2>1
      <4>3. u = Append(SubSeq(u, 1, n), u[n + 1]) /\ u[n + 1] \in Int
        BY <2>1
      <4> QED
        BY <4>2, <4>3
    <3>2. s \o u = Append(s \o v, e) /\ s \o v \in Seq(Int)
      BY <3>1
    <3>3. SumFunction(s \o u) = SumFunction(s \o v) + e
      BY <3>2, SumAppend
    <3>4. SumFunction(u) = SumFunction(v) + e
      BY <3>1, SumAppend
    <3>5. SumFunction(s \o v) = SumFunction(s) + SumFunction(v)
      BY <1>1, <1>4, <3>1
    <3> QED
      BY <1>2, <3>1, <3>2, <3>3, <3>4, <3>5
  <2> QED
    BY <1>1, <2>1
<1>5. Nat \subseteq T
  BY <1>3, <1>4, Induction
<1>6. Len(t) \in T
  BY <1>5
<1> QED
  BY <1>1, <1>6

\* What the elements of a sequence are worth, each v of it.
Along(v, s) == SumFunction([i \in DOMAIN s |-> v[s[i]]])

LEMMA SumAlong ==
    ASSUME NEW R, NEW v \in [R -> Int], NEW s \in Seq(R)
    PROVE  /\ Along(v, s) \in Int
           /\ (\A i \in DOMAIN s : v[s[i]] = 0) => Along(v, s) = 0
           /\ \A e \in R : Along(v, Append(s, e)) = Along(v, s) + v[e]
           /\ \A t \in Seq(R) : Along(v, s \o t) = Along(v, s) + Along(v, t)
           /\ s # <<>> => Along(v, s) = v[Head(s)] + Along(v, Tail(s))
<1> DEFINE Val(e) == v[e]
           Each(t) == [i \in DOMAIN t |-> Val(t[i])]
<1>1. \A t \in Seq(R) : /\ Each(t) \in Seq(Int) /\ Along(v, t) = SumFunction(Each(t))
                        /\ Len(Each(t)) = Len(t) /\ DOMAIN Each(t) = DOMAIN t
  BY DEF Along
<1>2. \A t \in Seq(R) : IsFiniteSet(DOMAIN Each(t))
  <2>1. \A t \in Seq(R) : DOMAIN t = 1..Len(t) /\ Len(t) \in Nat
    OBVIOUS
  <2> HIDE DEF Each
  <2> QED
    BY <1>1, <2>1, FS_Interval
<1>3. \A t \in Seq(R) : Along(v, t) \in Int
  <2>1. \A t \in Seq(R) : \A i \in DOMAIN Each(t) : Each(t)[i] \in Int
    OBVIOUS
  <2> HIDE DEF Each
  <2> QED
    BY <1>1, <1>2, <2>1, SumTypes
<1>4. (\A i \in DOMAIN s : v[s[i]] = 0) => Along(v, s) = 0
  <2>1. ASSUME \A i \in DOMAIN s : v[s[i]] = 0
        PROVE  \A i \in DOMAIN Each(s) : Each(s)[i] = 0
    BY <2>1
  <2> HIDE DEF Each
  <2> QED
    BY <1>1, <1>2, <2>1, SumTypes
<1>5. ASSUME NEW t \in Seq(R), NEW e \in R
      PROVE  Along(v, Append(t, e)) = Along(v, t) + v[e]
  <2>1. Each(Append(t, e)) = Append(Each(t), v[e]) /\ Append(t, e) \in Seq(R) /\ v[e] \in Int
    OBVIOUS
  <2> HIDE DEF Each
  <2>2. SumFunction(Append(Each(t), v[e])) = SumFunction(Each(t)) + v[e]
    BY <1>1, <2>1, SumAppend
  <2> QED
    BY <1>1, <2>1, <2>2
<1>6. ASSUME NEW t \in Seq(R), NEW u \in Seq(R)
      PROVE  Along(v, t \o u) = Along(v, t) + Along(v, u)
  <2>1. Each(t \o u) = Each(t) \o Each(u) /\ t \o u \in Seq(R)
    <3>1. t \o u \in Seq(R) /\ Len(t \o u) = Len(t) + Len(u) /\ Len(t) \in Nat /\ Len(u) \in Nat
      OBVIOUS
    <3>2. PICK x \in Seq(Int) : x = Each(t \o u) /\ Len(x) = Len(t) + Len(u)
      BY <1>1, <3>1
    <3>3. PICK p \in Seq(Int), q \in Seq(Int) :
            p = Each(t) /\ q = Each(u) /\ Len(p) = Len(t) /\ Len(q) = Len(u)
      BY <1>1
    <3>4. \A i \in 1..(Len(t) + Len(u)) :
             x[i] = IF i <= Len(t) THEN p[i] ELSE q[i - Len(t)]
      BY <3>1, <3>2, <3>3
    <3> HIDE DEF Each
    <3>5. /\ p \o q \in Seq(Int) /\ Len(p \o q) = Len(t) + Len(u)
          /\ \A i \in 1..(Len(t) + Len(u)) :
                (p \o q)[i] = IF i <= Len(t) THEN p[i] ELSE q[i - Len(t)]
      <4>1. /\ p \o q \in Seq(Int) /\ Len(p \o q) = Len(p) + Len(q)
            /\ \A i \in 1..(Len(p) + Len(q)) :
                  (p \o q)[i] = IF i <= Len(p) THEN p[i] ELSE q[i - Len(p)]
        BY ConcatProperties
      <4> QED
        BY <3>3, <4>1
    <3>6. x = p \o q
      BY <3>2, <3>4, <3>5, SeqEqual
    <3> QED
      BY <3>1, <3>2, <3>3, <3>6
  <2> HIDE DEF Each
  <2>2. SumFunction(Each(t) \o Each(u)) = SumFunction(Each(t)) + SumFunction(Each(u))
    BY <1>1, SumConcat
  <2> QED
    BY <1>1, <2>1, <2>2
<1>7. ASSUME s # <<>>
      PROVE  Along(v, s) = v[Head(s)] + Along(v, Tail(s))
  <2>1. /\ Head(s) \in R /\ Tail(s) \in Seq(R) /\ Append(<<>>, Head(s)) \in Seq(R)
        /\ s = Append(<<>>, Head(s)) \o Tail(s) /\ <<>> \in Seq(R)
    BY <1>7
  <2>2. Along(v, <<>>) = 0
    <3>1. DOMAIN Each(<<>>) = {}
      OBVIOUS
    <3> HIDE DEF Each
    <3> QED
      BY <1>1, <2>1, <3>1, SumNothing
  <2>3. Along(v, Append(<<>>, Head(s))) = 0 + v[Head(s)]
    BY <1>5, <2>1, <2>2
  <2>4. v[Head(s)] \in Int /\ Along(v, Tail(s)) \in Int
    BY <1>3, <2>1
  <2>5. Along(v, s) = Along(v, Append(<<>>, Head(s))) + Along(v, Tail(s))
    BY <1>6, <2>1
  <2> QED
    BY <2>3, <2>4, <2>5
<1> QED
  BY <1>3, <1>4, <1>5, <1>6, <1>7

-----------------------------------------------------------------------------
(* Other sums *)

\* What holds of no elements, and of a set if it holds of the set without any one of its
\* elements, holds of every finite set.
LEMMA FiniteInduction ==
    ASSUME NEW S, IsFiniteSet(S), NEW T, {} \in T,
           \A s \in SUBSET S : s # {} /\ (\A x \in s : s \ {x} \in T) => s \in T
    PROVE  \A s \in SUBSET S : s \in T
<1>1. PICK N : N = {n \in Nat : \A s \in SUBSET S : Cardinality(s) = n => s \in T}
  OBVIOUS
<1>2. \A s \in SUBSET S : IsFiniteSet(s) /\ Cardinality(s) \in Nat
  BY FS_Subset, FS_CardinalityType
<1>3. 0 \in N
  BY <1>1, <1>2, Smaller
<1>4. ASSUME NEW n \in Nat, n \in N
      PROVE  n + 1 \in N
  <2>1. ASSUME NEW s \in SUBSET S, Cardinality(s) = n + 1
        PROVE  s \in T
    <3>1. IsFiniteSet(s) /\ n + 1 # 0 /\ (n + 1) - 1 = n
      BY <1>2
    <3>2. s # {}
      BY <2>1, <3>1, Smaller
    <3>3. ASSUME NEW x \in s
          PROVE  s \ {x} \in T
      <4>1. Cardinality(s \ {x}) = n /\ s \ {x} \in SUBSET S
        BY <2>1, <3>1, Smaller
      <4> QED
        BY <1>1, <1>4, <4>1
    <3> QED
      BY <3>2, <3>3
  <2> QED
    BY <1>1, <2>1
<1>5. ASSUME NEW s \in SUBSET S
      PROVE  s \in T
  <2>1. Cardinality(s) \in N
    BY <1>2, <1>3, <1>4, Induction
  <2> QED
    BY <1>1, <2>1
<1> QED
  BY <1>5

\* The sum of f over the elements of s.
SumOver(f, s) == SumFunction([x \in s |-> f[x]])

\* Sums over the subsets of a finite set.
LEMMA SumsOver ==
    ASSUME NEW S, IsFiniteSet(S), NEW f, \A x \in S : f[x] \in Int
    PROVE  /\ SumOver(f, {}) = 0
           /\ \A s \in SUBSET S : /\ SumOver(f, s) \in Int
                                  /\ \A x \in s : SumOver(f, s) = f[x] + SumOver(f, s \ {x})
<1>1. SumOver(f, {}) = 0
  <2>1. DOMAIN [x \in {} |-> f[x]] = {}
    OBVIOUS
  <2> QED
    BY <2>1, SumNothing DEF SumOver
<1>2. ASSUME NEW s \in SUBSET S
      PROVE  /\ SumOver(f, s) \in Int
             /\ \A x \in s : SumOver(f, s) = f[x] + SumOver(f, s \ {x})
  <2>1. PICK k : k = [x \in s |-> f[x]]
    OBVIOUS
  <2>2. /\ IsFiniteSet(DOMAIN k) /\ DOMAIN k = s
        /\ \A x \in DOMAIN k : k[x] \in Int /\ k[x] = f[x]
    BY <2>1, FS_Subset
  <2>3. SumFunction(k) \in Int
    BY <2>2, SumTypes
  <2>4. ASSUME NEW x \in s
        PROVE  SumFunction(k) = f[x] + SumOver(f, s \ {x})
    <3>1. PICK h : h = [y \in s \ {x} |-> f[y]]
      OBVIOUS
    <3>2. DOMAIN h = DOMAIN k \ {x} /\ \A y \in DOMAIN h : h[y] = k[y]
      BY <2>2, <3>1
    <3>3. SumFunction(k) = k[x] + SumFunction(h)
      BY <2>2, <3>2, SumWithout
    <3> QED
      BY <2>2, <3>1, <3>3 DEF SumOver
  <2> QED
    BY <2>1, <2>3, <2>4 DEF SumOver
<1> QED
  BY <1>1, <1>2

\* The sum of up to three numbers.
LEMMA SumOfFew ==
    ASSUME NEW f
    PROVE  /\ SumOver(f, 1..0) = 0
           /\ f[1] \in Int => SumOver(f, 1..1) = f[1]
           /\ f[1] \in Int /\ f[2] \in Int => SumOver(f, 1..2) = f[1] + f[2]
           /\ f[1] \in Int /\ f[2] \in Int /\ f[3] \in Int => SumOver(f, 1..3) = f[1] + f[2] + f[3]
<1>1. ASSUME NEW S, IsFiniteSet(S), \A x \in S : f[x] \in Int, NEW x \in S
      PROVE  SumOver(f, S) = f[x] + SumOver(f, S \ {x}) /\ SumOver(f, S \ {x}) \in Int
  BY <1>1, SumsOver
<1>2. SumOver(f, {}) = 0
  <2>1. IsFiniteSet({}) /\ \A x \in {} : f[x] \in Int
    BY FS_EmptySet
  <2> QED
    BY <2>1, SumsOver
<1>3. /\ 1..0 = {} /\ 1..1 = {1} /\ 1..2 = {1, 2} /\ 1..3 = {1, 2, 3}
      /\ {1} \ {1} = {} /\ {1, 2} \ {2} = {1} /\ {1, 2, 3} \ {3} = {1, 2}
  OBVIOUS
<1>4. IsFiniteSet({1}) /\ IsFiniteSet({1, 2}) /\ IsFiniteSet({1, 2, 3})
  <2>1. \A n \in Nat : IsFiniteSet(1..n)
    BY FS_Interval
  <2>2. IsFiniteSet(1..1) /\ IsFiniteSet(1..2) /\ IsFiniteSet(1..3)
    BY <2>1
  <2> QED
    BY <1>3, <2>2, Zenon
<1>5. ASSUME f[1] \in Int PROVE SumOver(f, {1}) = f[1]
  <2>1. SumOver(f, {1}) = f[1] + SumOver(f, {1} \ {1})
    BY <1>1, <1>4, <1>5
  <2>2. SumOver(f, {1} \ {1}) = 0
    BY <1>2, <1>3, Zenon
  <2> QED
    BY <1>5, <2>1, <2>2
<1>6. ASSUME f[1] \in Int, f[2] \in Int PROVE SumOver(f, {1, 2}) = f[1] + f[2]
  <2>1. SumOver(f, {1, 2}) = f[2] + SumOver(f, {1, 2} \ {2})
    <3>1. IsFiniteSet({1, 2}) /\ \A x \in {1, 2} : f[x] \in Int
      BY <1>4, <1>6
    <3> QED
      BY <1>1, <3>1
  <2>2. SumOver(f, {1, 2} \ {2}) = f[1]
    BY <1>3, <1>5, <1>6, Zenon
  <2> QED
    BY <1>6, <2>1, <2>2
<1>7. ASSUME f[1] \in Int, f[2] \in Int, f[3] \in Int
      PROVE  SumOver(f, {1, 2, 3}) = f[1] + f[2] + f[3]
  <2>1. SumOver(f, {1, 2, 3}) = f[3] + SumOver(f, {1, 2, 3} \ {3})
    <3>1. IsFiniteSet({1, 2, 3}) /\ \A x \in {1, 2, 3} : f[x] \in Int
      BY <1>4, <1>7
    <3> QED
      BY <1>1, <3>1
  <2>2. SumOver(f, {1, 2, 3} \ {3}) = f[1] + f[2]
    BY <1>3, <1>6, <1>7, Zenon
  <2> QED
    BY <1>7, <2>1, <2>2
<1> QED
  BY <1>2, <1>3, <1>5, <1>6, <1>7

\* What is zero does not count.
LEMMA SumOfOthers ==
    ASSUME NEW S, IsFiniteSet(S), NEW f, \A x \in S : f[x] \in Int,
           NEW R \in SUBSET S, \A x \in S \ R : f[x] = 0
    PROVE  SumOver(f, S) = SumOver(f, R)
<1>1. PICK T : T = {s \in SUBSET S : SumOver(f, s) = SumOver(f, s \cap R)}
  OBVIOUS
<1>2. {} \in T
  BY <1>1
<1>3. ASSUME NEW s \in SUBSET S, s # {}, \A x \in s : s \ {x} \in T
      PROVE  s \in T
  <2>1. PICK x : x \in s
    BY <1>3
  <2>2. /\ SumOver(f, s) = f[x] + SumOver(f, s \ {x}) /\ SumOver(f, s \ {x}) \in Int
        /\ SumOver(f, s \ {x}) = SumOver(f, (s \ {x}) \cap R) /\ f[x] \in Int
    <3>1. s \ {x} \in T /\ s \ {x} \in SUBSET S
      BY <1>3, <2>1
    <3>2. SumOver(f, s) = f[x] + SumOver(f, s \ {x}) /\ SumOver(f, s \ {x}) \in Int
      BY <2>1, <3>1, SumsOver
    <3> QED
      BY <1>1, <2>1, <3>1, <3>2
  <2>3. CASE x \in R
    <3>1. (s \cap R) \ {x} = (s \ {x}) \cap R /\ x \in s \cap R /\ s \cap R \in SUBSET S
      BY <2>1, <2>3
    <3>2. SumOver(f, s \cap R) = f[x] + SumOver(f, (s \ {x}) \cap R)
      BY <3>1, SumsOver
    <3> QED
      BY <1>1, <2>2, <3>2
  <2>4. CASE x \notin R
    <3>1. s \cap R = (s \ {x}) \cap R /\ f[x] = 0
      BY <2>1, <2>4
    <3> QED
      BY <1>1, <2>2, <3>1
  <2> QED
    BY <2>3, <2>4
<1>4. S \in T
  <2>1. \A s \in SUBSET S : s # {} /\ (\A x \in s : s \ {x} \in T) => s \in T
    BY <1>3
  <2>2. \A s \in SUBSET S : s \in T
    BY <1>2, <2>1, FiniteInduction, Zenon
  <2> QED
    BY <2>2
<1>5. S \cap R = R
  OBVIOUS
<1> QED
  BY <1>1, <1>4, <1>5

\* A sum does not change when its elements are given other names.
LEMMA SumRenamed ==
    ASSUME NEW S, IsFiniteSet(S), NEW D, IsFiniteSet(D), NEW f, \A y \in D : f[y] \in Int,
           NEW h \in Bijection(S, D), NEW g, \A x \in S : g[x] = f[h[x]]
    PROVE  SumOver(g, S) = SumOver(f, D)
<1>1. /\ h \in [S -> D] /\ \A x, y \in S : h[x] = h[y] => x = y
      /\ \A y \in D : \E x \in S : h[x] = y
  BY DEF Bijection, Injection, Surjection, IsInjective
<1>2. PICK T : T = {s \in SUBSET S : SumOver(g, s) = SumOver(f, {h[x] : x \in s})}
  OBVIOUS
<1>3. \A x \in S : g[x] \in Int /\ g[x] = f[h[x]]
  BY <1>1
<1>4. {} \in T
  <2>1. {h[x] : x \in {}} = {}
    OBVIOUS
  <2>2. SumOver(g, {}) = 0 /\ SumOver(f, {}) = 0
    BY <1>3, SumsOver
  <2> QED
    BY <1>2, <2>1, <2>2
<1>5. ASSUME NEW s \in SUBSET S, s # {}, \A x \in s : s \ {x} \in T
      PROVE  s \in T
  <2>1. PICK x \in S : x \in s
    BY <1>5
  <2>2. PICK d \in SUBSET D : d = {h[y] : y \in s}
    <3>1. \A y \in s : h[y] \in D
      BY <1>1
    <3>2. {h[y] : y \in s} \in SUBSET D
      BY <3>1
    <3> QED
      BY <3>2
  <2>3. {h[y] : y \in s \ {x}} = d \ {h[x]} /\ h[x] \in d
    BY <1>1, <2>1, <2>2
  <2>4. SumOver(g, s) = g[x] + SumOver(g, s \ {x})
    BY <1>3, <2>1, SumsOver
  <2>5. SumOver(f, d) = f[h[x]] + SumOver(f, d \ {h[x]})
    BY <2>3, SumsOver
  <2>6. SumOver(g, s \ {x}) = SumOver(f, d \ {h[x]})
    BY <1>2, <1>5, <2>1, <2>3
  <2> QED
    BY <1>2, <1>3, <2>2, <2>4, <2>5, <2>6
<1>6. S \in T
  <2>1. \A s \in SUBSET S : s # {} /\ (\A x \in s : s \ {x} \in T) => s \in T
    BY <1>5
  <2>2. \A s \in SUBSET S : s \in T
    BY <1>4, <2>1, FiniteInduction, Zenon
  <2> QED
    BY <2>2
<1>7. {h[x] : x \in S} = D
  BY <1>1
<1> QED
  BY <1>2, <1>6, <1>7

\* A sum of numbers each of which is at most t / k is at most that often t / k.
LEMMA SumBound ==
    ASSUME NEW S, IsFiniteSet(S), NEW f, \A x \in S : f[x] \in Nat,
           NEW k \in Nat, NEW t \in Nat, \A x \in S : f[x] * k <= t
    PROVE  SumOver(f, S) * k <= Cardinality(S) * t
<1>1. PICK T : T = {s \in SUBSET S : SumOver(f, s) * k <= Cardinality(s) * t}
  OBVIOUS
<1>2. {} \in T
  <2>1. SumOver(f, {}) = 0 /\ Cardinality({}) = 0
    BY SumsOver, FS_EmptySet
  <2> QED
    BY <1>1, <2>1
<1>3. ASSUME NEW s \in SUBSET S, s # {}, \A x \in s : s \ {x} \in T
      PROVE  s \in T
  <2>1. PICK x \in S : x \in s
    BY <1>3
  <2>2. IsFiniteSet(s)
    BY FS_Subset
  <2>3. PICK n \in Nat : n = Cardinality(s \ {x}) /\ Cardinality(s) = n + 1
    <3>1. Cardinality(s) \in Nat /\ Cardinality(s) # 0 /\ Cardinality(s \ {x}) = Cardinality(s) - 1
      BY <1>3, <2>1, <2>2, Smaller
    <3> QED
      BY <3>1
  <2>4. PICK a \in Int : a = SumOver(f, s \ {x})
    BY SumsOver
  <2>5. PICK b \in Int : b = f[x] /\ b * k <= t
    OBVIOUS
  <2>6. SumOver(f, s) = b + a
    BY <2>1, <2>4, <2>5, SumsOver
  <2>7. a * k <= n * t
    BY <1>1, <1>3, <2>1, <2>3, <2>4
  <2>8. (b + a) * k = b * k + a * k /\ (n + 1) * t = n * t + t
    OBVIOUS
  <2>9. b * k \in Int /\ a * k \in Int /\ n * t \in Int
    OBVIOUS
  <2>10. (b + a) * k <= (n + 1) * t
    BY <2>5, <2>7, <2>8, <2>9
  <2> QED
    BY <1>1, <2>3, <2>6, <2>10
<1>4. S \in T
  <2>1. \A s \in SUBSET S : s # {} /\ (\A x \in s : s \ {x} \in T) => s \in T
    BY <1>3
  <2>2. \A s \in SUBSET S : s \in T
    BY <1>2, <2>1, FiniteInduction, Zenon
  <2> QED
    BY <2>2
<1> QED
  BY <1>1, <1>4

\* A part of a sum and the rest of it.
LEMMA SumParts ==
    ASSUME NEW S, IsFiniteSet(S), NEW f, \A x \in S : f[x] \in Int, NEW R \in SUBSET S
    PROVE  SumOver(f, S) = SumOver(f, R) + SumOver(f, S \ R)
<1>1. PICK T : T = {s \in SUBSET S : SumOver(f, s) = SumOver(f, s \cap R) + SumOver(f, s \ R)}
  OBVIOUS
<1>2. {} \in T
  <2>1. SumOver(f, {}) = 0 /\ {} \cap R = {} /\ {} \ R = {}
    BY SumsOver
  <2> QED
    BY <1>1, <2>1
<1>3. ASSUME NEW s \in SUBSET S, s # {}, \A x \in s : s \ {x} \in T
      PROVE  s \in T
  <2>1. PICK x \in S : x \in s
    BY <1>3
  <2>2. PICK u \in SUBSET S : u = s \ {x}
    OBVIOUS
  <2>3. /\ SumOver(f, s) = f[x] + SumOver(f, u)
        /\ SumOver(f, u) \in Int /\ SumOver(f, u \cap R) \in Int /\ SumOver(f, u \ R) \in Int
        /\ f[x] \in Int
    <3>1. u \cap R \in SUBSET S /\ u \ R \in SUBSET S
      OBVIOUS
    <3> QED
      BY <2>1, <2>2, <3>1, SumsOver
  <2>4. SumOver(f, u) = SumOver(f, u \cap R) + SumOver(f, u \ R)
    BY <1>1, <1>3, <2>1, <2>2
  <2>5. CASE x \in R
    <3>1. /\ s \cap R \in SUBSET S /\ x \in s \cap R /\ (s \cap R) \ {x} = u \cap R
          /\ s \ R = u \ R
      BY <2>1, <2>2, <2>5
    <3>2. SumOver(f, s \cap R) = f[x] + SumOver(f, u \cap R)
      BY <3>1, SumsOver
    <3>3. SumOver(f, s \ R) = SumOver(f, u \ R)
      BY <3>1, Zenon
    <3>4. SumOver(f, s) = SumOver(f, s \cap R) + SumOver(f, s \ R)
      BY <2>3, <2>4, <3>2, <3>3
    <3> QED
      BY <1>1, <3>4
  <2>6. CASE x \notin R
    <3>1. /\ s \ R \in SUBSET S /\ x \in s \ R /\ (s \ R) \ {x} = u \ R
          /\ s \cap R = u \cap R
      BY <2>1, <2>2, <2>6
    <3>2. SumOver(f, s \ R) = f[x] + SumOver(f, u \ R)
      BY <3>1, SumsOver
    <3>3. SumOver(f, s \cap R) = SumOver(f, u \cap R)
      BY <3>1, Zenon
    <3>4. SumOver(f, s) = SumOver(f, s \cap R) + SumOver(f, s \ R)
      BY <2>3, <2>4, <3>2, <3>3
    <3> QED
      BY <1>1, <3>4
  <2> QED
    BY <2>5, <2>6
<1>4. \A s \in SUBSET S : s # {} /\ (\A x \in s : s \ {x} \in T) => s \in T
  BY <1>3
<1>5. \A s \in SUBSET S : s \in T
  BY <1>2, <1>4, FiniteInduction, Zenon
<1>6. S \in T /\ S \cap R = R
  BY <1>5
<1> QED
  BY <1>1, <1>6

\* What each of some numbers misses its proportion by adds up to no more than that often
\* the most that one of them misses it by.
LEMMA ErrorsAdd ==
    ASSUME NEW S, IsFiniteSet(S), NEW g, \A x \in S : g[x] \in Int,
           NEW c, \A x \in S : c[x] \in Int, NEW t \in Int, NEW a \in Int,
           NEW k \in Int, NEW e \in Int,
           \A x \in S : -e <= k * (g[x] * t - a * c[x]) /\ k * (g[x] * t - a * c[x]) <= e
    PROVE  LET missed == k * (SumOver(g, S) * t - a * SumOver(c, S))
           IN  -(Cardinality(S) * e) <= missed /\ missed <= Cardinality(S) * e
<1> DEFINE Within(s) ==
             LET missed == k * (SumOver(g, s) * t - a * SumOver(c, s))
             IN  -(Cardinality(s) * e) <= missed /\ missed <= Cardinality(s) * e
<1>1. PICK T : T = {s \in SUBSET S : Within(s)}
  OBVIOUS
<1>2. {} \in T
  <2>1. SumOver(g, {}) = 0 /\ SumOver(c, {}) = 0 /\ Cardinality({}) = 0
    BY SumsOver, FS_EmptySet
  <2>2. Within({})
    BY <2>1
  <2> QED
    BY <1>1, <2>2
<1>3. ASSUME NEW s \in SUBSET S, s # {}, \A x \in s : s \ {x} \in T
      PROVE  s \in T
  <2>1. PICK x \in S : x \in s
    BY <1>3
  <2>2. PICK u \in SUBSET S : u = s \ {x}
    OBVIOUS
  <2>3. IsFiniteSet(s)
    BY FS_Subset
  <2>4. PICK n \in Nat : n = Cardinality(u) /\ Cardinality(s) = n + 1
    <3>1. Cardinality(s) \in Nat /\ Cardinality(s) # 0 /\ Cardinality(u) = Cardinality(s) - 1
      BY <1>3, <2>1, <2>2, <2>3, Smaller
    <3> QED
      BY <3>1
  <2>5. PICK gu \in Int, cu \in Int : gu = SumOver(g, u) /\ cu = SumOver(c, u)
    BY SumsOver
  <2>6. PICK gx \in Int, cx \in Int : gx = g[x] /\ cx = c[x]
    OBVIOUS
  <2>7. SumOver(g, s) = gx + gu /\ SumOver(c, s) = cx + cu
    BY <2>1, <2>2, <2>5, <2>6, SumsOver
  <2>8. -(n * e) <= k * (gu * t - a * cu) /\ k * (gu * t - a * cu) <= n * e
    BY <1>1, <1>3, <2>1, <2>2, <2>4, <2>5
  <2>9. -e <= k * (gx * t - a * cx) /\ k * (gx * t - a * cx) <= e
    BY <2>6
  <2>10. k * ((gx + gu) * t - a * (cx + cu)) = k * (gu * t - a * cu) + k * (gx * t - a * cx)
    <3>1. PICK p \in Int, q \in Int : p = gu * t - a * cu /\ q = gx * t - a * cx
      OBVIOUS
    <3>2. (gx + gu) * t - a * (cx + cu) = p + q
      BY <3>1
    <3>3. k * (p + q) = k * p + k * q
      OBVIOUS
    <3> QED
      BY <3>1, <3>2, <3>3
  <2>11. PICK v \in Int, w \in Int, ne \in Int :
           v = k * (gu * t - a * cu) /\ w = k * (gx * t - a * cx) /\ ne = n * e
    OBVIOUS
  <2>12. (n + 1) * e = ne + e
    BY <2>11
  <2>13. -(ne + e) <= v + w /\ v + w <= ne + e
    BY <2>8, <2>9, <2>11
  <2>14. Within(s)
    BY <2>4, <2>7, <2>10, <2>11, <2>12, <2>13
  <2> QED
    BY <1>1, <2>14
<1>4. \A s \in SUBSET S : s # {} /\ (\A x \in s : s \ {x} \in T) => s \in T
  BY <1>3
<1>5. \A s \in SUBSET S : s \in T
  <2> HIDE DEF Within
  <2> QED
    BY <1>2, <1>4, FiniteInduction, Zenon
<1>6. Within(S)
  BY <1>1, <1>5
<1> QED
  BY <1>6

-----------------------------------------------------------------------------
(* Numbers in increasing order *)

\* Every place but the last has a number that follows that many others.
LEMMA Ranked ==
    ASSUME NEW I, IsFiniteSet(I), I \subseteq Nat
    PROVE  \A n \in Nat : n < Cardinality(I) =>
              \E i \in I : Cardinality({j \in I : j < i}) = n
<1>1. PICK T : T = {n \in Nat : \A J \in SUBSET I : n < Cardinality(J) =>
                        \E i \in J : Cardinality({j \in J : j < i}) = n}
  OBVIOUS
<1>2. \A J \in SUBSET I : IsFiniteSet(J) /\ Cardinality(J) \in Nat
  BY FS_Subset, FS_CardinalityType
<1>3. 0 \in T
  <2>1. ASSUME NEW J \in SUBSET I, 0 < Cardinality(J)
        PROVE  \E i \in J : Cardinality({j \in J : j < i}) = 0
    <3>1. J # {} /\ J \subseteq Nat
      BY <2>1, FS_EmptySet
    <3>2. PICK m \in J : \A j \in J : m <= j
      BY <3>1, Least
    <3>3. {j \in J : j < m} = {}
      <4>1. \A j \in J : j \in Nat /\ m \in Nat /\ m <= j
        BY <3>1, <3>2
      <4>2. \A j \in J : ~(j < m)
        BY <4>1
      <4> QED
        BY <4>2
    <3> QED
      BY <3>3, FS_EmptySet
  <2> QED
    BY <1>1, <2>1
<1>4. ASSUME NEW n \in Nat, n \in T
      PROVE  n + 1 \in T
  <2>1. ASSUME NEW J \in SUBSET I, n + 1 < Cardinality(J)
        PROVE  \E i \in J : Cardinality({j \in J : j < i}) = n + 1
    <3>1. J # {} /\ J \subseteq Nat /\ IsFiniteSet(J) /\ Cardinality(J) \in Nat
      BY <1>2, <2>1, FS_EmptySet
    <3>2. PICK m \in J : \A j \in J : m <= j
      BY <3>1, Least
    <3>3. PICK K \in SUBSET I : K = J \ {m}
      OBVIOUS
    <3>4. Cardinality(K) = Cardinality(J) - 1
      BY <3>1, <3>3, FS_RemoveElement
    <3>5. n < Cardinality(K)
      BY <2>1, <3>1, <3>4
    <3>6. PICK i \in K : Cardinality({j \in K : j < i}) = n
      BY <1>1, <1>4, <3>5
    <3>7. PICK L \in SUBSET I : L = {j \in K : j < i}
      OBVIOUS
    <3>8. {j \in J : j < i} = L \cup {m} /\ m \notin L
      BY <3>1, <3>2, <3>3, <3>7
    <3>9. Cardinality(L \cup {m}) = Cardinality(L) + 1
      BY <1>2, <3>8, FS_AddElement
    <3> QED
      BY <3>3, <3>6, <3>7, <3>8, <3>9
  <2> QED
    BY <1>1, <2>1
<1>5. Nat \subseteq T
  BY <1>3, <1>4, Induction
<1> QED
  BY <1>1, <1>5

\* The list of a set of numbers has its numbers.
LEMMA InOrderType ==
    ASSUME NEW I, IsFiniteSet(I), I \subseteq Nat
    PROVE  /\ Cardinality(I) \in Nat /\ InOrder(I) \in Seq(I)
           /\ DOMAIN InOrder(I) = 1..Cardinality(I)
           /\ \A n \in DOMAIN InOrder(I) : InOrder(I)[n] \in I
<1>1. Cardinality(I) \in Nat
  BY FS_CardinalityType
<1>2. ASSUME NEW n \in 1..Cardinality(I)
      PROVE  (CHOOSE i \in I : Cardinality({j \in I : j < i}) = n - 1) \in I
  <2>1. n - 1 \in Nat /\ n - 1 < Cardinality(I)
    BY <1>1
  <2> QED
    BY <2>1, Ranked
<1>3. InOrder(I) \in [1..Cardinality(I) -> I]
  BY <1>2 DEF InOrder
<1> QED
  BY <1>1, <1>3

\* The list of a set of numbers has each of them once.
LEMMA InOrderLists ==
    ASSUME NEW I, IsFiniteSet(I), I \subseteq Nat
    PROVE  /\ InOrder(I) \in [1..Cardinality(I) -> I]
           /\ \A n, k \in 1..Cardinality(I) : InOrder(I)[n] = InOrder(I)[k] => n = k
           /\ \A i \in I : \E n \in 1..Cardinality(I) : InOrder(I)[n] = i
<1> DEFINE below(i) == {j \in I : j < i}
           rank(i) == Cardinality(below(i))
<1>0. Cardinality(I) \in Nat /\ \A i \in I : IsFiniteSet(below(i)) /\ rank(i) \in Nat
  <2>1. \A i \in I : below(i) \subseteq I
    OBVIOUS
  <2> HIDE DEF below
  <2> QED
    BY <2>1, FS_Subset, FS_CardinalityType
<1>1. \A i \in I : rank(i) < Cardinality(I)
  <2> SUFFICES ASSUME NEW i \in I PROVE rank(i) < Cardinality(I)
    OBVIOUS
  <2>1. below(i) \subseteq I /\ below(i) # I
    <3>1. ~(i < i)
      OBVIOUS
    <3> QED
      BY <3>1
  <2> HIDE DEF below
  <2> QED
    BY <1>0, <2>1, FS_Subset
<1>2. ASSUME NEW i \in I, NEW j \in I, i < j
      PROVE  rank(i) < rank(j)
  <2>1. below(i) \subseteq below(j) /\ i \in below(j) /\ i \notin below(i)
    <3>1. i \in Nat /\ j \in Nat /\ \A k \in I : k \in Nat
      OBVIOUS
    <3>2. \A k \in I : k < i => k < j
      BY <1>2, <3>1
    <3>3. ~(i < i)
      BY <3>1
    <3> QED
      BY <1>2, <3>2, <3>3
  <2> HIDE DEF below
  <2> QED
    BY <1>0, <2>1, FS_Subset
<1>3. ASSUME NEW i \in I, NEW j \in I, rank(i) = rank(j)
      PROVE  i = j
  <2>1. i \in Nat /\ j \in Nat /\ rank(i) \in Nat
    BY <1>0
  <2>2. ~(i < j) /\ ~(j < i)
    <3> HIDE DEF rank
    <3> QED
      BY <1>2, <1>3, <2>1
  <2> QED
    BY <2>1, <2>2
<1>4. ASSUME NEW n \in 1..Cardinality(I)
      PROVE  InOrder(I)[n] \in I /\ rank(InOrder(I)[n]) = n - 1
  <2>1. n - 1 \in Nat /\ n - 1 < Cardinality(I)
    BY <1>0
  <2>2. \E i \in I : rank(i) = n - 1
    BY <2>1, Ranked
  <2>3. InOrder(I)[n] = CHOOSE i \in I : rank(i) = n - 1
    BY DEF InOrder
  <2> HIDE DEF rank
  <2> QED
    BY <2>2, <2>3
<1>5. \A n, k \in 1..Cardinality(I) : InOrder(I)[n] = InOrder(I)[k] => n = k
  <2> HIDE DEF rank
  <2> QED
    BY <1>0, <1>4
<1>6. ASSUME NEW i \in I
      PROVE  \E n \in 1..Cardinality(I) : InOrder(I)[n] = i
  <2>1. PICK n \in 1..Cardinality(I) : rank(i) = n - 1
    <3> HIDE DEF rank
    <3>1. PICK k \in Nat : k = rank(i) /\ k < Cardinality(I)
      BY <1>0, <1>1
    <3>2. k + 1 \in 1..Cardinality(I) /\ k = (k + 1) - 1
      BY <1>0, <3>1
    <3> QED
      BY <3>1, <3>2
  <2>2. InOrder(I)[n] = i
    <3>1. InOrder(I)[n] \in I /\ rank(InOrder(I)[n]) = rank(i)
      BY <1>4, <2>1
    <3> HIDE DEF rank
    <3> QED
      BY <1>3, <3>1
  <2> QED
    BY <2>2
<1>7. InOrder(I) \in [1..Cardinality(I) -> I]
  <2>1. DOMAIN InOrder(I) = 1..Cardinality(I)
    BY InOrderType
  <2>2. InOrder(I) = [n \in DOMAIN InOrder(I) |-> InOrder(I)[n]]
    BY DEF InOrder
  <2> QED
    BY <1>4, <2>1, <2>2
<1> QED
  BY <1>5, <1>6, <1>7

-----------------------------------------------------------------------------
(* Amounts and percentages *)

\* Rounding yields an integer, that of a natural a natural.
LEMMA RoundType ==
    ASSUME NEW a \in Int, NEW b \in Nat \ {0}
    PROVE  RoundHalfUp(a, b) \in Int /\ (a >= 0 => RoundHalfUp(a, b) \in Nat)
<1>1. \A n \in Int : n \div (2 * b) \in Int /\ (n >= 0 => n \div (2 * b) \in Nat)
  OBVIOUS
<1> QED
  BY <1>1 DEF RoundHalfUp

\* A rounded quotient is a half away from the exact one, at most.
LEMMA RoundBounds ==
    ASSUME NEW a \in Nat, NEW b \in Nat \ {0}
    PROVE  /\ RoundHalfUp(a, b) \in Nat
           /\ (2 * b) * RoundHalfUp(a, b) <= 2 * a + b
           /\ 2 * a + b < (2 * b) * RoundHalfUp(a, b) + 2 * b
<1>1. PICK x \in Nat : x = 2 * a + b
  OBVIOUS
<1>2. PICK y \in Nat \ {0} : y = 2 * b
  OBVIOUS
<1>3. x \div y \in Nat /\ y * (x \div y) <= x /\ x < y * (x \div y) + y
  <2>1. PICK q \in Int : q = x \div y
    OBVIOUS
  <2>2. x = y * q + (x % y) /\ x % y \in 0..(y - 1)
    BY <2>1
  <2> QED
    BY <2>1, <2>2
<1>4. RoundHalfUp(a, b) = x \div y
  BY <1>1, <1>2 DEF RoundHalfUp
<1> QED
  BY <1>1, <1>2, <1>3, <1>4

\* The parts of an amount, one for each percentage.
LEMMA PartsType ==
    ASSUME NEW total \in Int, NEW percentages \in Seq(Int)
    PROVE  /\ DOMAIN Parts(total, percentages) = 1..Len(percentages)
           /\ \A i \in 1..Len(percentages) : Parts(total, percentages)[i] \in Int
<1> DEFINE n == Len(percentages)
           rounded == [i \in 1..(n - 1) |-> ShareOf(total, percentages[i])]
<1>1. n \in Nat /\ \A i \in 1..(n - 1) : percentages[i] \in Int
  OBVIOUS
<1>2. \A i \in 1..(n - 1) : rounded[i] \in Int
  <2>1. Whole \in Nat \ {0}
    BY DEF Whole
  <2>2. \A i \in 1..(n - 1) : total * percentages[i] \in Int
    BY <1>1
  <2> QED
    BY <2>1, <2>2, RoundType DEF ShareOf
<1>3. IsFiniteSet(DOMAIN rounded)
  BY <1>1, FS_Interval
<1>4. SumFunction(rounded) \in Int
  <2>1. \A i \in DOMAIN rounded : rounded[i] \in Int
    BY <1>2
  <2> HIDE DEF rounded
  <2> QED
    BY <1>3, <2>1, SumTypes
<1>5. Parts(total, percentages) =
        [i \in 1..n |-> IF i < n THEN rounded[i] ELSE total - SumFunction(rounded)]
  BY DEF Parts
<1>6. \A i \in 1..n : (i < n => i \in 1..(n - 1)) /\ total - SumFunction(rounded) \in Int
  BY <1>1, <1>4
<1> HIDE DEF rounded
<1> QED
  BY <1>2, <1>5, <1>6

\* The parts of an amount add up to it.
LEMMA PartsSum ==
    ASSUME NEW total \in Int, NEW percentages \in Seq(Int), percentages # <<>>
    PROVE  SumFunction(Parts(total, percentages)) = total
<1> DEFINE n == Len(percentages)
           rounded == [i \in 1..(n - 1) |-> ShareOf(total, percentages[i])]
<1>1. n \in Nat /\ n # 0 /\ n \in 1..n /\ (1..n) \ {n} = 1..(n - 1)
  OBVIOUS
<1>2. PICK parts : parts = Parts(total, percentages)
  OBVIOUS
<1>3. parts = [i \in 1..n |-> IF i < n THEN rounded[i] ELSE total - SumFunction(rounded)]
  BY <1>2 DEF Parts
<1>4. DOMAIN parts = 1..n /\ \A i \in 1..n : parts[i] \in Int
  BY <1>2, PartsType
<1>5. IsFiniteSet(1..n) /\ IsFiniteSet(1..(n - 1))
  BY <1>1, FS_Interval
<1>6. DOMAIN rounded = DOMAIN parts \ {n} /\ \A i \in DOMAIN rounded : rounded[i] = parts[i]
  <2>1. DOMAIN rounded = 1..(n - 1)
    OBVIOUS
  <2>2. \A i \in 1..(n - 1) : i \in 1..n /\ i < n
    BY <1>1
  <2> HIDE DEF rounded
  <2> QED
    BY <1>1, <1>3, <1>4, <2>1, <2>2
<1> HIDE DEF rounded
<1>7. SumFunction(rounded) \in Int
  <2>1. \A i \in DOMAIN rounded : rounded[i] \in Int
    BY <1>4, <1>6
  <2>2. IsFiniteSet(DOMAIN rounded)
    BY <1>1, <1>4, <1>5, <1>6
  <2> QED
    BY <2>1, <2>2, SumTypes
<1>8. parts[n] = total - SumFunction(rounded)
  BY <1>1, <1>3
<1>9. SumFunction(parts) = parts[n] + SumFunction(rounded)
  <2>1. /\ IsFiniteSet(DOMAIN parts) /\ \A i \in DOMAIN parts : parts[i] \in Int
        /\ n \in DOMAIN parts
    BY <1>1, <1>4, <1>5
  <2> HIDE DEF n
  <2> QED
    BY <1>6, <2>1, SumWithout
<1> QED
  BY <1>2, <1>7, <1>8, <1>9

\* Some of not too many members has a percentage, if they have anything.
LEMMA SharesExist ==
    ASSUME NEW S, IsFiniteSet(S), Cardinality(S) <= 2 * Whole,
           NEW seen \in [S -> Nat], SumFunction(seen) # 0
    PROVE  \E i \in S : MemberPercentage(seen, i) # 0
<1>0. IsFiniteSet(S)
  OBVIOUS
<1>1. PICK T \in Nat : T = SumFunction(seen)
  BY <1>0, SumTypes
<1>2. T > 0
  BY <1>1
<1>3. PICK k \in Nat : k = 2 * Whole /\ k > 0 /\ Cardinality(S) <= k
  BY SMT DEF Whole
<1>4. ASSUME \A i \in S : seen[i] * k <= T - 1
      PROVE  FALSE
  <2>1. SumOver(seen, S) = T
    <3>1. seen = [x \in S |-> seen[x]]
      OBVIOUS
    <3> QED
      BY <1>1, <3>1 DEF SumOver
  <2>2. T - 1 \in Nat
    BY <1>2
  <2>3. T * k <= Cardinality(S) * (T - 1)
    BY <1>0, <1>4, <2>1, <2>2, SumBound
  <2>4. PICK n \in Nat : n = Cardinality(S) /\ n <= k
    BY <1>0, <1>3, FS_CardinalityType
  <2>5. n * (T - 1) <= k * (T - 1)
    BY <2>2, <2>4
  <2>6. k * (T - 1) = T * k - k
    OBVIOUS
  <2>7. T * k \in Int /\ n * (T - 1) \in Int
    BY <2>2
  <2> QED
    BY <1>3, <2>3, <2>4, <2>5, <2>6, <2>7
<1>5. PICK i \in S : ~(seen[i] * k <= T - 1)
  BY <1>4
<1>6. PICK a \in Nat : a = seen[i]
  OBVIOUS
<1>7. a * k >= T
  <2>1. a * k \in Int
    OBVIOUS
  <2> QED
    BY <1>5, <1>6, <2>1
<1>8. MemberPercentage(seen, i) = RoundHalfUp(a * Whole, T)
  BY <1>1, <1>2, <1>6 DEF MemberPercentage, Percentage
<1>9. RoundHalfUp(a * Whole, T) # 0
  <2>1. PICK b \in Nat : b = a * Whole /\ 2 * b = a * k
    BY <1>3, SMT DEF Whole
  <2>2. 2 * b + T >= 2 * T
    BY <1>7, <2>1
  <2>3. (2 * b + T) \div (2 * T) # 0
    <3>1. \A x, y \in Nat : y > 0 /\ x >= y => x \div y # 0
      OBVIOUS
    <3> QED
      BY <1>2, <2>2, <3>1
  <2> QED
    BY <2>1, <2>3 DEF RoundHalfUp
<1> QED
  BY <1>8, <1>9
=============================================================================
