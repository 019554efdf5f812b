---------------------------- MODULE StorageProofs ----------------------------
(***************************************************************************)
(* The properties of lookup plans and of Storage, for any responses,       *)
(* documents, prompts, engines and limits.                                 *)
(*                                                                         *)
(* A lookup plan: what the scan of _select_non_overlapping keeps for every *)
(* prefix of the candidates is best among the chains of that prefix, and a *)
(* set of candidates that do not overlap is a chain.                       *)
(*                                                                         *)
(* Storage: everything a store names by a hash is a chunk of a document,   *)
(* and a hash names one chunk (HashAssumption): so records, objects and    *)
(* matcher entries under the same key describe the same keys and values,   *)
(* whichever of the stores was emptied or lost a part in the meantime.     *)
(***************************************************************************)
EXTENDS Storage, LookupPlan, FiniteSetTheorems, WellFoundedInduction, SequenceTheorems, TLAPS

-----------------------------------------------------------------------------
(* Induction, recursion and orders.                                         *)

\* A set of numbers that is not empty has a least one.
LEMMA Least ==
  ASSUME NEW T \in SUBSET Nat, T # {}
  PROVE  \E m \in T : \A n \in T : m <= n
<1> DEFINE R == OpToRel(<, Nat)
<1>1. \A x, y \in Nat : x < y => <<x, y>> \in R
  BY DEF OpToRel
<1>2. IsWellFoundedOn(R, Nat)
  BY NatLessThanWellFounded
<1> HIDE DEF R
<1>3. PICK m \in T : \A y \in T : ~(<<y, m>> \in R)
  BY <1>2, WFMin
<1>4. ASSUME NEW n \in T PROVE m <= n
  <2>1. n \in Nat /\ m \in Nat /\ ~(n < m)
    BY <1>1, <1>3
  <2> QED BY <2>1
<1> QED BY <1>4

\* What holds at the start and from one step to the next holds up to the end.
LEMMA SetInduction ==
  ASSUME NEW n \in Nat, NEW T, 0 \in T, \A i \in 0 .. n - 1 : i \in T => i + 1 \in T
  PROVE  \A i \in 0 .. n : i \in T
<1> DEFINE B == {i \in 0 .. n : i \notin T}
<1>1. SUFFICES ASSUME B # {} PROVE FALSE
  OBVIOUS
<1>2. PICK m \in B : \A k \in B : m <= k
  <2>1. B \in SUBSET Nat
    OBVIOUS
  <2> HIDE DEF B
  <2> QED BY <1>1, <2>1, Least
<1>3. m \in 1 .. n /\ m - 1 \in 0 .. n - 1 /\ m \notin T
  <2>1. m \in 0 .. n /\ m # 0 /\ m \notin T
    OBVIOUS
  <2> QED BY <2>1
<1>4. m - 1 \in T
  <2>1. m - 1 \notin B
    BY <1>2, <1>3
  <2>2. m - 1 \in 0 .. n
    BY <1>3
  <2> QED BY <2>1, <2>2
<1>5. (m - 1) + 1 \in T /\ (m - 1) + 1 = m
  BY <1>3, <1>4
<1> QED BY <1>3, <1>5

\* The steps of a recursion over numbers, and a function that takes them.
Steps(n, V) == [1 .. n -> [V -> V]]
Takes(f, n, V, base, g) ==
  f \in [0 .. n -> V] /\ f[0] = base /\ \A i \in 1 .. n : f[i] = g[i][f[i - 1]]

\* Whatever its steps, a recursion over numbers has a solution.
LEMMA Recursion ==
  ASSUME NEW n \in Nat, NEW V, NEW base \in V, NEW g \in Steps(n, V)
  PROVE  \E f : Takes(f, n, V, base, g)
<1> DEFINE Solves(f, m) == f[0] = base /\ \A i \in 1 .. m : f[i] = g[i][f[i - 1]]
           T == {m \in 0 .. n : \E f \in [0 .. m -> V] : Solves(f, m)}
<1> USE DEF Steps
<1>1. 0 \in T
  <2> DEFINE f == [i \in 0 .. 0 |-> base]
  <2>1. f \in [0 .. 0 -> V] /\ f[0] = base
    OBVIOUS
  <2>2. \A i \in 1 .. 0 : FALSE
    OBVIOUS
  <2> HIDE DEF f
  <2>3. Solves(f, 0)
    BY <2>1, <2>2
  <2>4. 0 \in 0 .. n
    OBVIOUS
  <2> HIDE DEF Solves
  <2> QED BY <2>1, <2>3, <2>4
<1>2. ASSUME NEW m \in 0 .. n - 1, m \in T PROVE m + 1 \in T
  <2>1. PICK f \in [0 .. m -> V] : Solves(f, m)
    BY <1>2
  <2> DEFINE h == [i \in 0 .. m + 1 |-> IF i = m + 1 THEN g[m + 1][f[m]] ELSE f[i]]
  <2>2. f[m] \in V /\ m + 1 \in 1 .. n /\ g[m + 1][f[m]] \in V
    OBVIOUS
  <2>3. h \in [0 .. m + 1 -> V]
    BY <2>2
  <2>4. Solves(h, m + 1)
    <3>1. h[0] = base
      BY <2>1
    <3>2. ASSUME NEW i \in 1 .. m + 1 PROVE h[i] = g[i][h[i - 1]]
      <4>1. h[i - 1] = f[i - 1]
        OBVIOUS
      <4>2. CASE i = m + 1
        <5>1. h[i] = g[m + 1][f[m]] /\ i - 1 = m
          BY <4>2
        <5> QED BY <4>1, <4>2, <5>1
      <4>3. CASE i # m + 1
        <5>1. h[i] = f[i] /\ i \in 1 .. m
          BY <4>3
        <5> QED BY <2>1, <4>1, <5>1
      <4> QED BY <4>2, <4>3
    <3> HIDE DEF h
    <3> QED BY <3>1, <3>2
  <2>5. m + 1 \in 0 .. n
    OBVIOUS
  <2> HIDE DEF h, Solves
  <2> QED BY <2>3, <2>4, <2>5
<1>3. n \in T
  <2> HIDE DEF T
  <2>1. \A m \in 0 .. n : m \in T
    BY <1>1, <1>2, SetInduction
  <2> QED BY <2>1
<1> QED BY <1>3 DEF Takes

\* A strict total order of a set, as a set of pairs, and an element's rank in it.
IsStrictOrder(R, S) ==
  /\ \A x \in S : <<x, x>> \notin R
  /\ \A x, y \in S : x = y \/ <<x, y>> \in R \/ <<y, x>> \in R
  /\ \A x, y, z \in S : <<x, y>> \in R /\ <<y, z>> \in R => <<x, z>> \in R
Rank(R, S, x) == Cardinality({y \in S : <<y, x>> \in R})

\* Ranks are numbers below the size of the set, in the order of the elements.
LEMMA RankOrder ==
  ASSUME NEW S, IsFiniteSet(S), NEW R, IsStrictOrder(R, S)
  PROVE  /\ \A x \in S : Rank(R, S, x) \in 0 .. Cardinality(S) - 1
         /\ \A x, y \in S : <<x, y>> \in R <=> Rank(R, S, x) < Rank(R, S, y)
<1> DEFINE Below(x) == {y \in S : <<y, x>> \in R}
<1>1. ASSUME NEW x \in S
      PROVE  /\ IsFiniteSet(Below(x)) /\ Cardinality(Below(x)) \in Nat
             /\ Cardinality(Below(x)) < Cardinality(S)
             /\ Cardinality(S) \in Nat
  <2>1. Below(x) \in SUBSET S /\ Below(x) # S
    BY DEF IsStrictOrder
  <2>2. /\ IsFiniteSet(Below(x)) /\ Cardinality(Below(x)) <= Cardinality(S)
        /\ Cardinality(S) = Cardinality(Below(x)) => S = Below(x)
    <3> HIDE DEF Below
    <3> QED BY <2>1, FS_Subset
  <2>3. Cardinality(S) \in Nat /\ Cardinality(Below(x)) \in Nat
    BY <2>2, FS_CardinalityType
  <2> HIDE DEF Below
  <2> QED BY <2>1, <2>2, <2>3
<1>2. ASSUME NEW x \in S, NEW y \in S, <<x, y>> \in R
      PROVE  Cardinality(Below(x)) < Cardinality(Below(y))
  <2>1. Below(x) \in SUBSET Below(y) /\ x \in Below(y) /\ x \notin Below(x)
    BY <1>2 DEF IsStrictOrder
  <2>2. /\ Cardinality(Below(x)) <= Cardinality(Below(y))
        /\ Cardinality(Below(x)) \in Nat /\ Cardinality(Below(y)) \in Nat
        /\ Cardinality(Below(y)) = Cardinality(Below(x)) => Below(y) = Below(x)
    <3>1. /\ IsFiniteSet(Below(y))
          /\ Cardinality(Below(x)) \in Nat /\ Cardinality(Below(y)) \in Nat
      BY <1>1
    <3> HIDE DEF Below
    <3> QED BY <2>1, <3>1, FS_Subset
  <2> HIDE DEF Below
  <2> QED BY <2>1, <2>2
<1>3. ASSUME NEW x \in S, NEW y \in S, ~(<<x, y>> \in R)
      PROVE  ~(Cardinality(Below(x)) < Cardinality(Below(y)))
  <2>1. x = y \/ <<y, x>> \in R
    BY <1>3 DEF IsStrictOrder
  <2>2. Cardinality(Below(x)) \in Nat /\ Cardinality(Below(y)) \in Nat
    BY <1>1
  <2>3. x = y \/ Cardinality(Below(y)) < Cardinality(Below(x))
    BY <1>2, <2>1
  <2> HIDE DEF Below
  <2> QED BY <2>2, <2>3
<1>4. \A x \in S : Rank(R, S, x) = Cardinality(Below(x))
  BY DEF Rank
<1> HIDE DEF Below
<1> QED BY <1>1, <1>2, <1>3, <1>4

\* Every rank is the rank of exactly one element.
LEMMA RankBijection ==
  ASSUME NEW S, IsFiniteSet(S), NEW R, IsStrictOrder(R, S)
  PROVE  /\ Cardinality(S) \in Nat
         /\ \A k \in 0 .. Cardinality(S) - 1 : \E x \in S : Rank(R, S, x) = k
         /\ \A x, y \in S : Rank(R, S, x) = Rank(R, S, y) => x = y
<1> DEFINE m == Cardinality(S)
           r == [x \in S |-> Rank(R, S, x)]
<1>1. m \in Nat
  BY FS_CardinalityType
<1>2. \A x, y \in S : Rank(R, S, x) = Rank(R, S, y) => x = y
  <2> SUFFICES ASSUME NEW x \in S, NEW y \in S, Rank(R, S, x) = Rank(R, S, y), x # y
               PROVE  FALSE
    OBVIOUS
  <2>1. <<x, y>> \in R \/ <<y, x>> \in R
    BY DEF IsStrictOrder
  <2>2. /\ Rank(R, S, x) < Rank(R, S, y) \/ Rank(R, S, y) < Rank(R, S, x)
        /\ Rank(R, S, x) \in Nat /\ Rank(R, S, y) \in Nat
    BY <2>1, RankOrder
  <2> QED BY <2>2
<1>3. r \in [S -> 0 .. m - 1]
  BY RankOrder
<1>4. r \in Injection(S, 0 .. m - 1)
  <2>1. \A x, y \in S : r[x] = r[y] => x = y
    BY <1>2
  <2> HIDE DEF r, m
  <2> QED BY <1>3, <2>1 DEF Injection, IsInjective
<1>5. IsFiniteSet(0 .. m - 1) /\ Cardinality(0 .. m - 1) = m
  <2> HIDE DEF m
  <2>1. /\ IsFiniteSet(0 .. m - 1)
        /\ Cardinality(0 .. m - 1) = IF 0 > m - 1 THEN 0 ELSE (m - 1) - 0 + 1
    BY <1>1, FS_Interval
  <2> QED BY <1>1, <2>1
<1>6. r \in Surjection(S, 0 .. m - 1)
  <2>1. Cardinality(S) = Cardinality(0 .. m - 1)
    BY <1>5
  <2> HIDE DEF r, m
  <2> QED BY <1>4, <1>5, <2>1, FS_Injection
<1>7. \A k \in 0 .. m - 1 : \E x \in S : r[x] = k
  <2> HIDE DEF r, m
  <2> QED BY <1>6 DEF Surjection
<1> QED BY <1>1, <1>2, <1>7

-----------------------------------------------------------------------------
(* The order of tuples.                                                     *)

\* Lexicographic, of an order that is a set of pairs.
TupleLess(R, s, t) ==
  \E i \in 1 .. Len(t) :
    /\ \A j \in 1 .. i - 1 : j <= Len(s) /\ s[j] = t[j]
    /\ i > Len(s) \/ <<s[i], t[i]>> \in R
OrderOfTuples(R, V) == {x \in Seq(V) \X Seq(V) : TupleLess(R, x[1], x[2])}

\* Where two sequences differ first.
LEMMA FirstDifference ==
  ASSUME NEW V, NEW s \in Seq(V), NEW t \in Seq(V), s # t
  PROVE  \E i \in Nat \ {0} :
           /\ \A j \in 1 .. i - 1 : j <= Len(s) /\ j <= Len(t) /\ s[j] = t[j]
           /\ i <= Len(s) \/ i <= Len(t)
           /\ i > Len(s) \/ i > Len(t) \/ s[i] # t[i]
<1> DEFINE D == {i \in Nat : /\ i # 0 /\ (i <= Len(s) \/ i <= Len(t))
                             /\ i > Len(s) \/ i > Len(t) \/ s[i] # t[i]}
<1>1. Len(s) \in Nat /\ Len(t) \in Nat
  BY LenProperties
<1>2. D # {}
  <2> SUFFICES ASSUME D = {} PROVE FALSE
    OBVIOUS
  <2>1. \A i \in Nat : i # 0 /\ (i <= Len(s) \/ i <= Len(t)) => i <= Len(s) /\ i <= Len(t) /\ s[i] = t[i]
    BY <1>1
  <2>2. Len(s) = Len(t)
    <3>1. CASE Len(s) < Len(t)
      <4>1. Len(t) # 0 /\ Len(t) <= Len(t)
        BY <1>1, <3>1
      <4> QED BY <1>1, <2>1, <3>1, <4>1
    <3>2. CASE Len(t) < Len(s)
      <4>1. Len(s) # 0 /\ Len(s) <= Len(s)
        BY <1>1, <3>2
      <4> QED BY <1>1, <2>1, <3>2, <4>1
    <3> QED BY <1>1, <3>1, <3>2
  <2>3. \A i \in 1 .. Len(s) : s[i] = t[i]
    <3>1. \A i \in 1 .. Len(s) : i \in Nat /\ i # 0 /\ i <= Len(s)
      BY <1>1
    <3> QED BY <2>1, <3>1
  <2> QED BY <2>2, <2>3, SeqEqual
<1>3. PICK i \in D : \A j \in D : i <= j
  <2>1. D \in SUBSET Nat
    OBVIOUS
  <2> HIDE DEF D
  <2> QED BY <1>2, <2>1, Least
<1>4. ASSUME NEW j \in 1 .. i - 1 PROVE j <= Len(s) /\ j <= Len(t) /\ s[j] = t[j]
  <2>1. j \in Nat /\ j # 0 /\ j < i /\ i \in Nat
    OBVIOUS
  <2>2. j \notin D
    BY <1>3, <2>1
  <2>3. i <= Len(s) \/ i <= Len(t)
    OBVIOUS
  <2>4. j <= Len(s) \/ j <= Len(t)
    BY <1>1, <2>1, <2>3
  <2> QED BY <1>1, <2>1, <2>2, <2>4
<1> QED BY <1>3, <1>4

\* A strict total order of elements orders the tuples.
LEMMA TuplesAreOrdered ==
  ASSUME NEW V, NEW R, IsStrictOrder(R, V)
  PROVE  IsStrictOrder(OrderOfTuples(R, V), Seq(V))
<1> DEFINE Q == Seq(V)
<1>1. ASSUME NEW s \in Q PROVE ~TupleLess(R, s, s)
  <2>1. Len(s) \in Nat /\ \A i \in 1 .. Len(s) : s[i] \in V
    BY LenProperties, ElementOfSeq
  <2>2. \A i \in 1 .. Len(s) : ~(i > Len(s))
    BY <2>1
  <2> QED BY <2>1, <2>2 DEF TupleLess, IsStrictOrder
<1>2. ASSUME NEW s \in Q, NEW t \in Q PROVE s = t \/ TupleLess(R, s, t) \/ TupleLess(R, t, s)
  <2> SUFFICES ASSUME s # t PROVE TupleLess(R, s, t) \/ TupleLess(R, t, s)
    OBVIOUS
  <2>1. PICK i \in Nat \ {0} :
           /\ \A j \in 1 .. i - 1 : j <= Len(s) /\ j <= Len(t) /\ s[j] = t[j]
           /\ i <= Len(s) \/ i <= Len(t)
           /\ i > Len(s) \/ i > Len(t) \/ s[i] # t[i]
    BY FirstDifference
  <2>2. Len(s) \in Nat /\ Len(t) \in Nat
    BY LenProperties
  <2>3. CASE i > Len(s)
    <3>1. i \in 1 .. Len(t)
      BY <2>1, <2>2, <2>3
    <3> QED BY <2>1, <2>3, <3>1 DEF TupleLess
  <2>4. CASE i > Len(t)
    <3>1. i \in 1 .. Len(s)
      BY <2>1, <2>2, <2>4
    <3> QED BY <2>1, <2>4, <3>1 DEF TupleLess
  <2>5. CASE i <= Len(s) /\ i <= Len(t)
    <3>1. i \in 1 .. Len(s) /\ i \in 1 .. Len(t) /\ s[i] # t[i]
      BY <2>1, <2>2, <2>5
    <3>2. s[i] \in V /\ t[i] \in V
      BY <3>1, ElementOfSeq
    <3>3. <<s[i], t[i]>> \in R \/ <<t[i], s[i]>> \in R
      BY <3>1, <3>2 DEF IsStrictOrder
    <3> QED BY <2>1, <3>1, <3>3 DEF TupleLess
  <2> QED BY <2>2, <2>3, <2>4, <2>5
<1>3. ASSUME NEW s \in Q, NEW t \in Q, NEW u \in Q, TupleLess(R, s, t), TupleLess(R, t, u)
      PROVE  TupleLess(R, s, u)
  <2>1. PICK i \in 1 .. Len(t) :
          /\ \A j \in 1 .. i - 1 : j <= Len(s) /\ s[j] = t[j]
          /\ i > Len(s) \/ <<s[i], t[i]>> \in R
    BY <1>3 DEF TupleLess
  <2>2. PICK k \in 1 .. Len(u) :
          /\ \A j \in 1 .. k - 1 : j <= Len(t) /\ t[j] = u[j]
          /\ k > Len(t) \/ <<t[k], u[k]>> \in R
    BY <1>3 DEF TupleLess
  <2>3. Len(s) \in Nat /\ Len(t) \in Nat /\ Len(u) \in Nat
    BY LenProperties
  <2>4. CASE i < k
    <3>1. i \in 1 .. Len(u) /\ i \in 1 .. k - 1
      BY <2>3, <2>4
    <3>2. \A j \in 1 .. i - 1 : j <= Len(s) /\ s[j] = u[j]
      <4>1. \A j \in 1 .. i - 1 : j \in 1 .. k - 1
        BY <2>4
      <4> QED BY <2>1, <2>2, <4>1
    <3>3. i > Len(s) \/ <<s[i], u[i]>> \in R
      BY <2>1, <2>2, <3>1
    <3> QED BY <3>1, <3>2, <3>3 DEF TupleLess
  <2>5. CASE k < i
    <3>1. k \in 1 .. i - 1 /\ ~(k > Len(t))
      BY <2>3, <2>5
    <3>2. <<s[k], u[k]>> \in R
      BY <2>1, <2>2, <3>1
    <3>3. \A j \in 1 .. k - 1 : j <= Len(s) /\ s[j] = u[j]
      <4>1. \A j \in 1 .. k - 1 : j \in 1 .. i - 1
        BY <2>5
      <4> QED BY <2>1, <2>2, <4>1
    <3> QED BY <3>2, <3>3 DEF TupleLess
  <2>6. CASE i = k
    <3>1. ~(i > Len(t)) /\ <<t[i], u[i]>> \in R
      BY <2>2, <2>3, <2>6
    <3>2. i > Len(s) \/ <<s[i], u[i]>> \in R
      <4> SUFFICES ASSUME ~(i > Len(s)) PROVE <<s[i], u[i]>> \in R
        OBVIOUS
      <4>1. i \in 1 .. Len(s) /\ i \in 1 .. Len(u)
        BY <2>3, <2>6
      <4>2. s[i] \in V /\ t[i] \in V /\ u[i] \in V
        BY <4>1, ElementOfSeq
      <4> QED BY <2>1, <3>1, <4>2 DEF IsStrictOrder
    <3>3. \A j \in 1 .. i - 1 : j <= Len(s) /\ s[j] = u[j]
      BY <2>1, <2>2, <2>6
    <3> QED BY <2>6, <3>2, <3>3 DEF TupleLess
  <2> QED BY <2>3, <2>4, <2>5, <2>6
<1>4. \A s, t \in Q : <<s, t>> \in OrderOfTuples(R, V) <=> TupleLess(R, s, t)
  BY DEF OrderOfTuples
<1> HIDE DEF Q
<1>5. /\ \A s \in Q : <<s, s>> \notin OrderOfTuples(R, V)
      /\ \A s, t \in Q : s = t \/ <<s, t>> \in OrderOfTuples(R, V) \/ <<t, s>> \in OrderOfTuples(R, V)
      /\ \A s, t, u \in Q : <<s, t>> \in OrderOfTuples(R, V) /\ <<t, u>> \in OrderOfTuples(R, V)
                              => <<s, u>> \in OrderOfTuples(R, V)
  BY <1>1, <1>2, <1>3, <1>4
<1> QED BY <1>5 DEF IsStrictOrder, Q

\* The orders of numbers, of keys and of ties, as sets of pairs.
NumberOrder == {x \in Nat \X Nat : x[1] < x[2]}
KeyOrder == OrderOfTuples(NumberOrder, Nat)
TieOrder == OrderOfTuples(KeyOrder, Seq(Nat))

\* Keys and ties are ordered strictly.
LEMMA KeysAreOrdered ==
  /\ IsStrictOrder(KeyOrder, Seq(Nat))
  /\ \A s, t \in Seq(Nat) : <<s, t>> \in KeyOrder <=> LessKey(s, t)
  /\ IsStrictOrder(TieOrder, Seq(Seq(Nat)))
  /\ \A s, t \in Seq(Seq(Nat)) : <<s, t>> \in TieOrder <=> LessTie(s, t)
<1>1. IsStrictOrder(NumberOrder, Nat)
  BY DEF IsStrictOrder, NumberOrder
<1>2. IsStrictOrder(KeyOrder, Seq(Nat))
  BY <1>1, TuplesAreOrdered DEF KeyOrder
<1>3. ASSUME NEW s \in Seq(Nat), NEW t \in Seq(Nat) PROVE <<s, t>> \in KeyOrder <=> LessKey(s, t)
  <2>1. Len(s) \in Nat /\ Len(t) \in Nat
    BY LenProperties
  <2>2. ASSUME NEW i \in 1 .. Len(t), ~(i > Len(s)) PROVE <<s[i], t[i]>> \in NumberOrder <=> s[i] < t[i]
    <3>1. i \in 1 .. Len(s)
      BY <2>1, <2>2
    <3>2. s[i] \in Nat /\ t[i] \in Nat
      BY <3>1, ElementOfSeq
    <3> QED BY <3>2 DEF NumberOrder
  <2>3. LessKey(s, t) <=> \E i \in 1 .. Len(t) :
          /\ \A j \in 1 .. (i - 1) : j <= Len(s) /\ s[j] = t[j]
          /\ i > Len(s) \/ s[i] < t[i]
    BY DEF LessKey, Lexicographic, LessNat
  <2>4. <<s, t>> \in KeyOrder <=> TupleLess(NumberOrder, s, t)
    BY DEF KeyOrder, OrderOfTuples
  <2> QED BY <2>2, <2>3, <2>4 DEF TupleLess
<1>4. IsStrictOrder(TieOrder, Seq(Seq(Nat)))
  BY <1>2, TuplesAreOrdered DEF TieOrder
<1>5. ASSUME NEW s \in Seq(Seq(Nat)), NEW t \in Seq(Seq(Nat)) PROVE <<s, t>> \in TieOrder <=> LessTie(s, t)
  <2>1. Len(s) \in Nat /\ Len(t) \in Nat
    BY LenProperties
  <2>2. ASSUME NEW i \in 1 .. Len(t), ~(i > Len(s)) PROVE <<s[i], t[i]>> \in KeyOrder <=> LessKey(s[i], t[i])
    <3>1. i \in 1 .. Len(s)
      BY <2>1, <2>2
    <3>2. s[i] \in Seq(Nat) /\ t[i] \in Seq(Nat)
      BY <3>1, ElementOfSeq
    <3> QED BY <1>3, <3>2
  <2>3. LessTie(s, t) <=> \E i \in 1 .. Len(t) :
          /\ \A j \in 1 .. (i - 1) : j <= Len(s) /\ s[j] = t[j]
          /\ i > Len(s) \/ LessKey(s[i], t[i])
    BY DEF LessTie, Lexicographic
  <2>4. <<s, t>> \in TieOrder <=> TupleLess(KeyOrder, s, t)
    BY DEF TieOrder, OrderOfTuples
  <2> QED BY <2>2, <2>3, <2>4 DEF TupleLess
<1> QED BY <1>2, <1>3, <1>4, <1>5

-----------------------------------------------------------------------------
(* The positions that candidates cover.                                     *)

\* Candidates as plan checks them: ranges that are not empty.
WellFormed(cs) ==
  /\ Len(cs) \in Nat /\ DOMAIN cs = 1 .. Len(cs)
  /\ \A i \in 1 .. Len(cs) :
       /\ cs[i].start \in Nat /\ cs[i].end \in Nat /\ cs[i].start < cs[i].end
       /\ cs[i].key \in Nat /\ cs[i].source \in Nat

\* What the candidates T cover, and that none of them overlaps another.
Covered(cs, T) == UNION {cs[i].start .. (cs[i].end - 1) : i \in T}
Apart(cs, T) == \A i, j \in T : i # j => ~Overlap(cs[i], cs[j])

\* A candidate covers as many positions as it has tokens.
LEMMA OneCovered ==
  ASSUME NEW cs, WellFormed(cs), NEW i \in 1 .. Len(cs)
  PROVE  /\ IsFiniteSet(cs[i].start .. (cs[i].end - 1))
         /\ Cardinality(cs[i].start .. (cs[i].end - 1)) = Tokens(cs[i])
         /\ Tokens(cs[i]) \in Nat
<1> DEFINE a == cs[i].start
           b == cs[i].end
<1>1. a \in Nat /\ b \in Nat /\ a < b /\ Tokens(cs[i]) = b - a
  BY DEF WellFormed, Tokens
<1> HIDE DEF a, b
<1>2. a \in Int /\ b - 1 \in Int
  BY <1>1
<1>3. /\ IsFiniteSet(a .. b - 1)
      /\ Cardinality(a .. b - 1) = IF a > b - 1 THEN 0 ELSE (b - 1) - a + 1
  BY <1>2, FS_Interval
<1>4. Cardinality(a .. b - 1) = b - a /\ b - a \in Nat
  BY <1>1, <1>3
<1> QED BY <1>1, <1>3, <1>4 DEF a, b

\* Candidates cover finitely many positions.
LEMMA CoveredFinite ==
  ASSUME NEW cs, WellFormed(cs), NEW T \in SUBSET (1 .. Len(cs))
  PROVE  /\ IsFiniteSet(T)
         /\ IsFiniteSet(Covered(cs, T)) /\ Cardinality(Covered(cs, T)) \in Nat
<1> DEFINE f == [i \in T |-> cs[i].start .. (cs[i].end - 1)]
           R == {cs[i].start .. (cs[i].end - 1) : i \in T}
<1>1. IsFiniteSet(T)
  <2>1. Len(cs) \in Int /\ 1 \in Int
    BY DEF WellFormed
  <2>2. IsFiniteSet(1 .. Len(cs))
    BY <2>1, FS_Interval
  <2> QED BY <2>2, FS_Subset
<1>2. f \in Surjection(T, R)
  BY DEF Surjection
<1>3. \A r \in R : IsFiniteSet(r)
  BY OneCovered
<1>4. Covered(cs, T) = UNION R
  BY DEF Covered
<1> HIDE DEF f, R
<1>5. IsFiniteSet(R)
  BY <1>1, <1>2, FS_Surjection
<1>6. IsFiniteSet(UNION R)
  BY <1>3, <1>5, FS_UNION
<1> QED BY <1>1, <1>4, <1>6, FS_CardinalityType

\* A candidate beside the others adds its tokens to what they cover.
LEMMA CoveredOneMore ==
  ASSUME NEW cs, WellFormed(cs), NEW T \in SUBSET (1 .. Len(cs)), NEW i \in 1 .. Len(cs),
         \A j \in T : ~Overlap(cs[j], cs[i])
  PROVE  Cardinality(Covered(cs, T \cup {i})) = Cardinality(Covered(cs, T)) + Tokens(cs[i])
<1> DEFINE R == cs[i].start .. (cs[i].end - 1)
           C == Covered(cs, T)
<1>1. Covered(cs, T \cup {i}) = C \cup R
  BY DEF Covered
<1>2. C \cap R = {}
  <2> SUFFICES ASSUME NEW q \in C, q \in R PROVE FALSE
    OBVIOUS
  <2>1. PICK j \in T : q \in cs[j].start .. (cs[j].end - 1)
    BY DEF Covered
  <2>2. ~(cs[j].start < cs[i].end /\ cs[i].start < cs[j].end)
    BY DEF Overlap
  <2>3. cs[j].start \in Nat /\ cs[j].end \in Nat /\ cs[i].start \in Nat /\ cs[i].end \in Nat
    BY DEF WellFormed
  <2>4. cs[j].start <= q /\ q <= cs[j].end - 1 /\ cs[i].start <= q /\ q <= cs[i].end - 1 /\ q \in Int
    BY <2>1, <2>3
  <2> QED BY <2>2, <2>3, <2>4
<1>3. IsFiniteSet(C) /\ Cardinality(C) \in Nat
  BY CoveredFinite
<1>4. IsFiniteSet(R) /\ Cardinality(R) = Tokens(cs[i]) /\ Tokens(cs[i]) \in Nat
  BY OneCovered
<1> HIDE DEF R, C
<1>5. Cardinality(C \cup R) = Cardinality(C) + Cardinality(R) - Cardinality(C \cap R)
  BY <1>3, <1>4, FS_Union
<1>6. Cardinality(C \cap R) = 0
  BY <1>2, FS_EmptySet
<1>7. Cardinality(C \cup R) = Cardinality(C) + Tokens(cs[i])
  BY <1>3, <1>4, <1>5, <1>6
<1> QED BY <1>1, <1>7 DEF C

\* TokensOf, step by step.
Share(cs, T, i) == IF i \in T THEN Tokens(cs[i]) ELSE 0
Sums(f, cs, T) ==
  /\ f \in [0 .. Len(cs) -> Nat] /\ f[0] = 0
  /\ \A i \in 1 .. Len(cs) : f[i] = f[i - 1] + Share(cs, T, i)
  /\ TokensOf(cs, T) = f[Len(cs)]

\* The sum of TokensOf has its steps.
LEMMA TokenSums ==
  ASSUME NEW cs, WellFormed(cs), NEW T
  PROVE  \E f : Sums(f, cs, T)
<1> DEFINE N == Len(cs)
           V == Nat
           Body(f) == [i \in 0 .. N |-> IF i = 0 THEN 0 ELSE f[i - 1] + (IF i \in T THEN Tokens(cs[i]) ELSE 0)]
           F == CHOOSE f : f = Body(f)
           g == [i \in 1 .. N |-> [f \in V |-> f + Share(cs, T, i)]]
<1>1. N \in Nat
  BY DEF WellFormed
<1>2. TokensOf(cs, T) = F[N]
  BY DEF TokensOf
<1>3. \A i \in 1 .. N : \A f \in V : f + Share(cs, T, i) \in V
  BY OneCovered DEF Share
<1>4. \A f : Body(f) = [i \in 0 .. N |-> IF i = 0 THEN 0 ELSE f[i - 1] + Share(cs, T, i)]
  BY DEF Share
<1>5. 0 \in V
  OBVIOUS
<1> HIDE DEF N, V, Body, F, g
<1>6. g \in Steps(N, V) /\ \A f \in V, i \in 1 .. N : g[i][f] = f + Share(cs, T, i)
  BY <1>3 DEF g, Steps
<1>7. PICK f : Takes(f, N, V, 0, g)
  BY <1>1, <1>5, <1>6, Recursion
<1>8. f \in [0 .. N -> V] /\ f[0] = 0 /\ \A i \in 1 .. N : f[i] = f[i - 1] + Share(cs, T, i)
  <2>1. \A i \in 1 .. N : i - 1 \in 0 .. N
    BY <1>1
  <2>2. f \in [0 .. N -> V] /\ f[0] = 0 /\ \A i \in 1 .. N : f[i] = g[i][f[i - 1]]
    BY <1>7 DEF Takes
  <2> QED BY <1>6, <2>1, <2>2
<1>9. f = Body(f)
  <2>1. \A i \in 0 .. N : i # 0 => i \in 1 .. N
    BY <1>1
  <2> QED BY <1>4, <1>8, <2>1
<1>10. F = Body(F)
  BY <1>9 DEF F
<1>11. F[0] = 0 /\ F \in [0 .. N -> {F[i] : i \in 0 .. N}] /\ \A i \in 1 .. N : F[i] = F[i - 1] + Share(cs, T, i)
  <2>1. 0 \in 0 .. N /\ \A i \in 1 .. N : i \in 0 .. N /\ i # 0
    BY <1>1
  <2>2. F = [i \in 0 .. N |-> IF i = 0 THEN 0 ELSE F[i - 1] + Share(cs, T, i)]
    BY <1>4, <1>10
  <2> QED BY <2>1, <2>2
<1> DEFINE I == {i \in 0 .. N : F[i] = f[i]}
<1>12. 0 \in I
  <2>1. 0 \in 0 .. N
    BY <1>1
  <2> QED BY <1>8, <1>11, <2>1
<1>13. ASSUME NEW i \in 0 .. N - 1, i \in I PROVE i + 1 \in I
  <2> DEFINE k == i + 1
  <2>1. k \in 1 .. N /\ k \in 0 .. N /\ k - 1 = i
    BY <1>1
  <2> HIDE DEF k
  <2>2. F[k] = F[i] + Share(cs, T, k) /\ f[k] = f[i] + Share(cs, T, k)
    BY <1>8, <1>11, <2>1
  <2>3. F[k] = f[k]
    BY <1>13, <2>2
  <2> QED BY <2>1, <2>3 DEF k
<1>14. N \in I
  <2> HIDE DEF I
  <2>1. \A i \in 0 .. N : i \in I
    BY <1>1, <1>12, <1>13, SetInduction
  <2> QED BY <1>1, <2>1
<1> QED BY <1>2, <1>8, <1>14 DEF Sums, N, V

\* One of these steps.
LEMMA SumStep ==
  ASSUME NEW cs, WellFormed(cs), NEW T, NEW f, Sums(f, cs, T), NEW k \in 1 .. Len(cs)
  PROVE  f[k] = f[k - 1] + Share(cs, T, k) /\ f[k - 1] \in Nat
<1>1. Len(cs) \in Nat /\ k - 1 \in 0 .. Len(cs)
  BY DEF WellFormed
<1> QED BY <1>1 DEF Sums

\* Tokens of candidates add up.
LEMMA TokensAddUp ==
  ASSUME NEW cs, WellFormed(cs), NEW A, NEW B, A \cap B = {}
  PROVE  /\ TokensOf(cs, A) \in Nat /\ TokensOf(cs, B) \in Nat
         /\ TokensOf(cs, A \cup B) = TokensOf(cs, A) + TokensOf(cs, B)
<1> DEFINE N == Len(cs)
<1>1. N \in Nat
  BY DEF WellFormed
<1>2. PICK a : Sums(a, cs, A)
  BY TokenSums
<1>3. PICK b : Sums(b, cs, B)
  BY TokenSums
<1>4. PICK c : Sums(c, cs, A \cup B)
  BY TokenSums
<1> DEFINE I == {i \in 0 .. N : c[i] = a[i] + b[i]}
<1>5. 0 \in I
  BY <1>1, <1>2, <1>3, <1>4 DEF Sums
<1>6. ASSUME NEW i \in 0 .. N - 1, i \in I PROVE i + 1 \in I
  <2> DEFINE k == i + 1
  <2>1. k \in 1 .. N /\ k \in 0 .. N /\ k - 1 = i
    BY <1>1
  <2> HIDE DEF k
  <2>2. /\ a[k] = a[i] + Share(cs, A, k) /\ b[k] = b[i] + Share(cs, B, k)
        /\ c[k] = c[i] + Share(cs, A \cup B, k)
        /\ a[i] \in Nat /\ b[i] \in Nat
    BY <1>2, <1>3, <1>4, <2>1, SumStep
  <2>3. Tokens(cs[k]) \in Nat
    BY <2>1, OneCovered
  <2>4. Share(cs, A \cup B, k) = Share(cs, A, k) + Share(cs, B, k) /\ Share(cs, A, k) \in Nat /\ Share(cs, B, k) \in Nat
    BY <2>3 DEF Share
  <2>5. c[k] = a[k] + b[k]
    BY <1>6, <2>2, <2>4
  <2> QED BY <2>1, <2>5 DEF k
<1>7. N \in I
  <2> HIDE DEF I, N
  <2>1. \A i \in 0 .. N : i \in I
    BY <1>1, <1>5, <1>6, SetInduction
  <2> QED BY <1>1, <2>1
<1>8. TokensOf(cs, A) = a[N] /\ TokensOf(cs, B) = b[N] /\ TokensOf(cs, A \cup B) = c[N] /\ a[N] \in Nat /\ b[N] \in Nat
  BY <1>1, <1>2, <1>3, <1>4 DEF Sums
<1> QED BY <1>7, <1>8

\* Candidates that do not overlap cover as many positions as they have tokens.
LEMMA TokensAreCovered ==
  ASSUME NEW cs, WellFormed(cs), NEW T \in SUBSET (1 .. Len(cs)), Apart(cs, T)
  PROVE  TokensOf(cs, T) = Cardinality(Covered(cs, T))
<1> DEFINE N == Len(cs)
           Upto(i) == T \cap (1 .. i)
           I == {i \in 0 .. N : TRUE}
<1>1. N \in Nat
  BY DEF WellFormed
<1>2. PICK f : Sums(f, cs, T)
  BY TokenSums
<1> DEFINE J == {i \in 0 .. N : f[i] = Cardinality(Covered(cs, Upto(i)))}
<1>3. 0 \in J
  <2>1. Upto(0) = {}
    OBVIOUS
  <2>2. Covered(cs, {}) = {}
    BY DEF Covered
  <2>3. f[0] = 0 /\ 0 \in 0 .. N
    BY <1>1, <1>2 DEF Sums
  <2> HIDE DEF Upto, N
  <2> QED BY <2>1, <2>2, <2>3, FS_EmptySet
<1>4. ASSUME NEW i \in 0 .. N - 1, i \in J PROVE i + 1 \in J
  <2> DEFINE k == i + 1
  <2>1. k \in 1 .. N /\ k \in 0 .. N /\ k - 1 = i
    BY <1>1
  <2>2. 1 .. k = (1 .. i) \cup {k} /\ k \notin 1 .. i
    BY <2>1
  <2> HIDE DEF k
  <2>3. f[k] = f[i] + Share(cs, T, k) /\ f[i] \in Nat
    BY <1>2, <2>1, SumStep
  <2>4. CASE k \in T
    <3>1. Upto(k) = Upto(i) \cup {k} /\ Upto(i) \in SUBSET (1 .. N) /\ k \notin Upto(i)
      BY <2>2, <2>4
    <3>2. \A j \in Upto(i) : ~Overlap(cs[j], cs[k])
      BY <2>2, <2>4 DEF Apart
    <3> HIDE DEF Upto
    <3>3. Cardinality(Covered(cs, Upto(i) \cup {k})) = Cardinality(Covered(cs, Upto(i))) + Tokens(cs[k])
      BY <2>1, <3>1, <3>2, CoveredOneMore
    <3>4. f[k] = Cardinality(Covered(cs, Upto(k)))
      BY <1>4, <2>3, <2>4, <3>1, <3>3 DEF Share
    <3> QED BY <2>1, <3>4 DEF k
  <2>5. CASE k \notin T
    <3>1. Upto(k) = Upto(i)
      BY <2>2, <2>5
    <3> HIDE DEF Upto
    <3>2. f[k] = Cardinality(Covered(cs, Upto(k)))
      BY <1>4, <2>3, <2>5, <3>1 DEF Share
    <3> QED BY <2>1, <3>2 DEF k
  <2> QED BY <2>4, <2>5
<1>5. N \in J
  <2> HIDE DEF J, N
  <2>1. \A i \in 0 .. N : i \in J
    BY <1>1, <1>3, <1>4, SetInduction
  <2> QED BY <1>1, <2>1
<1>6. Upto(N) = T
  OBVIOUS
<1> QED BY <1>2, <1>5, <1>6 DEF Sums

-----------------------------------------------------------------------------
(* The orders that candidates and ranges are taken in.                      *)

\* A sequence of the indexes in S by their keys, as Sorted chooses it.
Below(S, key, i) == {j \in S : LessKey(key[j], key[i])}
SortsByKey(f, S, key) ==
  /\ f = [k \in 1 .. Cardinality(S) |-> f[k]]
  /\ \A k \in 1 .. Cardinality(S) :
       (\E i \in S : Cardinality(Below(S, key, i)) = k - 1)
         => f[k] \in S /\ Cardinality(Below(S, key, f[k])) = k - 1

\* With different keys, every index occurs once, after those with smaller keys.
LEMMA SortedByKey ==
  ASSUME NEW S, IsFiniteSet(S), NEW key \in [S -> Seq(Nat)],
         \A i, j \in S : key[i] = key[j] => i = j,
         NEW f, SortsByKey(f, S, key)
  PROVE  /\ Cardinality(S) \in Nat
         /\ f \in [1 .. Cardinality(S) -> S]
         /\ \A i \in S : \E k \in 1 .. Cardinality(S) : f[k] = i
         /\ \A k, l \in 1 .. Cardinality(S) : k < l <=> LessKey(key[f[k]], key[f[l]])
<1> DEFINE R == {x \in S \X S : LessKey(key[x[1]], key[x[2]])}
           N == Cardinality(S)
<1>1. /\ \A s \in Seq(Nat) : ~LessKey(s, s)
      /\ \A s, t \in Seq(Nat) : s = t \/ LessKey(s, t) \/ LessKey(t, s)
      /\ \A s, t, u \in Seq(Nat) : LessKey(s, t) /\ LessKey(t, u) => LessKey(s, u)
  BY KeysAreOrdered DEF IsStrictOrder
<1>2. \A i, j \in S : <<i, j>> \in R <=> LessKey(key[i], key[j])
  OBVIOUS
<1>3. \A i \in S : key[i] \in Seq(Nat)
  OBVIOUS
<1> HIDE DEF R
<1>4. IsStrictOrder(R, S)
  BY <1>1, <1>2, <1>3 DEF IsStrictOrder
<1>5. \A i \in S : Below(S, key, i) = {j \in S : <<j, i>> \in R}
  BY <1>2 DEF Below
<1>6. \A i \in S : Rank(R, S, i) = Cardinality(Below(S, key, i))
  BY <1>5 DEF Rank
<1>7. /\ N \in Nat
      /\ \A k \in 0 .. N - 1 : \E x \in S : Rank(R, S, x) = k
      /\ \A x, y \in S : Rank(R, S, x) = Rank(R, S, y) => x = y
  BY <1>4, RankBijection
<1>8. /\ \A x \in S : Rank(R, S, x) \in 0 .. N - 1
      /\ \A x, y \in S : <<x, y>> \in R <=> Rank(R, S, x) < Rank(R, S, y)
  BY <1>4, RankOrder
<1> HIDE DEF N
<1>9. ASSUME NEW k \in 1 .. N PROVE f[k] \in S /\ Rank(R, S, f[k]) = k - 1
  <2>1. k - 1 \in 0 .. N - 1
    BY <1>7
  <2>2. \E x \in S : Cardinality(Below(S, key, x)) = k - 1
    BY <1>6, <1>7, <2>1
  <2>3. f[k] \in S /\ Cardinality(Below(S, key, f[k])) = k - 1
    BY <2>2 DEF SortsByKey, N
  <2> QED BY <1>6, <2>3
<1>10. f \in [1 .. N -> S]
  <2>1. f = [k \in 1 .. N |-> f[k]]
    BY DEF SortsByKey, N
  <2> QED BY <1>9, <2>1
<1>11. ASSUME NEW x \in S PROVE \E k \in 1 .. N : f[k] = x
  <2> DEFINE k == Rank(R, S, x) + 1
  <2>1. k \in 1 .. N /\ k - 1 = Rank(R, S, x)
    BY <1>7, <1>8
  <2> HIDE DEF k
  <2>2. f[k] = x
    BY <1>7, <1>9, <2>1
  <2> QED BY <2>1, <2>2
<1>12. ASSUME NEW k \in 1 .. N, NEW l \in 1 .. N PROVE k < l <=> LessKey(key[f[k]], key[f[l]])
  <2>1. <<f[k], f[l]>> \in R <=> k - 1 < l - 1
    BY <1>8, <1>9
  <2>2. k < l <=> k - 1 < l - 1
    BY <1>7
  <2> QED BY <1>2, <1>9, <2>1, <2>2
<1> QED BY <1>7, <1>10, <1>11, <1>12 DEF N

\* Keys compare by their first numbers, then by the rest.
LEMMA FirstNumbers ==
  ASSUME NEW s \in Seq(Nat), NEW t \in Seq(Nat), Len(s) # 0, Len(t) # 0, LessKey(s, t)
  PROVE  s[1] <= t[1]
<1>1. Len(s) \in Nat /\ Len(t) \in Nat
  BY LenProperties
<1>2. s[1] \in Nat /\ t[1] \in Nat
  <2>1. 1 \in 1 .. Len(s) /\ 1 \in 1 .. Len(t)
    BY <1>1
  <2> QED BY <2>1, ElementOfSeq
<1>3. PICK i \in 1 .. Len(t) :
        /\ \A j \in 1 .. (i - 1) : j <= Len(s) /\ s[j] = t[j]
        /\ i > Len(s) \/ s[i] < t[i]
  BY DEF LessKey, Lexicographic, LessNat
<1>4. CASE i = 1
  BY <1>1, <1>2, <1>3, <1>4
<1>5. CASE i # 1
  <2>1. 1 \in 1 .. (i - 1)
    BY <1>1, <1>5
  <2> QED BY <1>2, <1>3, <2>1
<1> QED BY <1>4, <1>5

\* A key with a number behind it, and with one before that.
LEMMA LongerKeys ==
  ASSUME NEW a \in Nat, NEW b \in Nat, NEW c \in Nat, NEW d \in Nat, NEW e \in Nat, NEW h \in Nat
  PROVE  /\ <<a, b, c, d>> \o <<e>> \in Seq(Nat)
         /\ <<h>> \o (<<a, b, c, d>> \o <<e>>) \in Seq(Nat)
         /\ Len(<<a, b, c, d>> \o <<e>>) = 5
         /\ Len(<<h>> \o (<<a, b, c, d>> \o <<e>>)) = 6
         /\ \A i \in 1 .. 4 : (<<a, b, c, d>> \o <<e>>)[i] = <<a, b, c, d>>[i]
         /\ (<<a, b, c, d>> \o <<e>>)[5] = e
         /\ (<<h>> \o (<<a, b, c, d>> \o <<e>>))[1] = h
         /\ (<<h>> \o (<<a, b, c, d>> \o <<e>>))[6] = e
<1> DEFINE s == <<a, b, c, d>>
           t == <<e>>
           u == <<h>>
           st == s \o t
           ust == u \o st
<1>1. s \in Seq(Nat) /\ t \in Seq(Nat) /\ u \in Seq(Nat) /\ Len(s) = 4 /\ Len(t) = 1 /\ Len(u) = 1
      /\ t[1] = e /\ u[1] = h
  OBVIOUS
<1> HIDE DEF s, t, u
<1>2. /\ st \in Seq(Nat) /\ Len(st) = Len(s) + Len(t)
      /\ \A i \in 1 .. Len(s) + Len(t) : st[i] = IF i <= Len(s) THEN s[i] ELSE t[i - Len(s)]
  <2> HIDE DEF st
  <2> QED BY <1>1, ConcatProperties DEF st
<1>3. Len(st) = 5 /\ \A i \in 1 .. 5 : i \in 1 .. Len(s) + Len(t) /\ (i <= Len(s) <=> i # 5)
  <2> HIDE DEF st
  <2> QED BY <1>1, <1>2
<1>4. st[5] = e /\ \A i \in 1 .. 4 : st[i] = s[i]
  <2>1. 5 \in 1 .. 5 /\ \A i \in 1 .. 4 : i \in 1 .. 5 /\ i # 5
    OBVIOUS
  <2>2. 5 - Len(s) = 1
    BY <1>1
  <2>3. \A i \in 1 .. 5 : st[i] = IF i # 5 THEN s[i] ELSE t[i - Len(s)]
    <3> HIDE DEF st
    <3> QED BY <1>2, <1>3
  <2>4. st[5] = t[5 - Len(s)] /\ \A i \in 1 .. 4 : st[i] = s[i]
    <3> HIDE DEF st
    <3> QED BY <2>1, <2>3
  <2> HIDE DEF st
  <2> QED BY <1>1, <2>2, <2>4
<1> HIDE DEF st
<1>5. /\ ust \in Seq(Nat) /\ Len(ust) = Len(u) + Len(st)
      /\ \A i \in 1 .. Len(u) + Len(st) : ust[i] = IF i <= Len(u) THEN u[i] ELSE st[i - Len(u)]
  <2>1. u \in Seq(Nat) /\ st \in Seq(Nat)
    BY <1>1, <1>2
  <2> HIDE DEF ust
  <2> QED BY <2>1, ConcatProperties DEF ust
<1>6. Len(ust) = 6 /\ ust[1] = h /\ ust[6] = e
  <2> HIDE DEF ust
  <2>1. Len(ust) = 6 /\ 1 \in 1 .. Len(u) + Len(st) /\ 6 \in 1 .. Len(u) + Len(st) /\ 1 <= Len(u) /\ ~(6 <= Len(u))
        /\ 6 - Len(u) = 5
    BY <1>1, <1>3, <1>5
  <2>2. ust[1] = u[1] /\ ust[6] = st[6 - Len(u)]
    BY <1>5, <2>1
  <2> QED BY <1>1, <1>4, <2>1, <2>2
<1> QED BY <1>2, <1>3, <1>4, <1>5, <1>6 DEF s, t, u, st

\* What a candidate is sorted by: its range, its key and its source ...
LEMMA RangeIsInKey ==
  ASSUME NEW cs, WellFormed(cs)
  PROVE  /\ \A i \in 1 .. Len(cs) : CandidateKey(cs[i]) \in Seq(Nat)
         /\ \A i \in 1 .. Len(cs) : Len(CandidateKey(cs[i])) = 4
         /\ \A i \in 1 .. Len(cs) :
              CandidateKey(cs[i])[1] = cs[i].start /\ CandidateKey(cs[i])[2] = cs[i].end
<1>1. ASSUME NEW i \in 1 .. Len(cs)
      PROVE  /\ CandidateKey(cs[i]) \in Seq(Nat) /\ Len(CandidateKey(cs[i])) = 4
             /\ CandidateKey(cs[i])[1] = cs[i].start /\ CandidateKey(cs[i])[2] = cs[i].end
  <2>1. cs[i].start \in Nat /\ cs[i].end \in Nat /\ cs[i].key \in Nat /\ cs[i].source \in Nat
    BY DEF WellFormed
  <2> QED BY <2>1 DEF CandidateKey
<1> QED BY <1>1

\* ... and behind them its place in the response; in a scan, before them its end.
LEMMA KeysOfCandidates ==
  ASSUME NEW cs, WellFormed(cs)
  PROVE  /\ \A i \in 1 .. Len(cs) : PotentialKey(cs, i) \in Seq(Nat)
         /\ \A i \in 1 .. Len(cs) : Len(PotentialKey(cs, i)) = 5 /\ PotentialKey(cs, i)[5] = i
         /\ \A i \in 1 .. Len(cs) : \A j \in 1 .. 4 : PotentialKey(cs, i)[j] = CandidateKey(cs[i])[j]
         /\ \A i \in 1 .. Len(cs) :
              /\ <<cs[i].end>> \o PotentialKey(cs, i) \in Seq(Nat)
              /\ Len(<<cs[i].end>> \o PotentialKey(cs, i)) = 6
              /\ (<<cs[i].end>> \o PotentialKey(cs, i))[1] = cs[i].end
              /\ (<<cs[i].end>> \o PotentialKey(cs, i))[6] = i
<1>1. ASSUME NEW i \in 1 .. Len(cs)
      PROVE  /\ PotentialKey(cs, i) \in Seq(Nat)
             /\ Len(PotentialKey(cs, i)) = 5 /\ PotentialKey(cs, i)[5] = i
             /\ \A j \in 1 .. 4 : PotentialKey(cs, i)[j] = CandidateKey(cs[i])[j]
             /\ <<cs[i].end>> \o PotentialKey(cs, i) \in Seq(Nat)
             /\ Len(<<cs[i].end>> \o PotentialKey(cs, i)) = 6
             /\ (<<cs[i].end>> \o PotentialKey(cs, i))[1] = cs[i].end
             /\ (<<cs[i].end>> \o PotentialKey(cs, i))[6] = i
  <2>1. /\ cs[i].start \in Nat /\ cs[i].end \in Nat /\ cs[i].key \in Nat /\ cs[i].source \in Nat
        /\ i \in Nat
    BY DEF WellFormed
  <2>2. /\ CandidateKey(cs[i]) = <<cs[i].start, cs[i].end, cs[i].key, cs[i].source>>
        /\ PotentialKey(cs, i) = <<cs[i].start, cs[i].end, cs[i].key, cs[i].source>> \o <<i>>
    BY DEF CandidateKey, PotentialKey
  <2> QED BY <2>1, <2>2, LongerKeys
<1> QED BY <1>1

\* The scan takes every candidate of S once, by growing ends.
InScanOrder(cs, S, o, N) ==
  /\ N \in Nat /\ o \in [1 .. N -> S]
  /\ \A i \in S : \E k \in 1 .. N : o[k] = i
  /\ \A k, l \in 1 .. N : k < l => cs[o[k]].end <= cs[o[l]].end
  /\ \A k, l \in 1 .. N : o[k] = o[l] => k = l

\* ScanOrder is such an order.
LEMMA ScanInOrder ==
  ASSUME NEW cs, WellFormed(cs), NEW S \in SUBSET (1 .. Len(cs))
  PROVE  InScanOrder(cs, S, ScanOrder(cs, S), Cardinality(S))
<1> DEFINE key == [i \in S |-> <<cs[i].end>> \o PotentialKey(cs, i)]
           o == ScanOrder(cs, S)
           N == Cardinality(S)
           C(k) == CHOOSE i \in S : Cardinality({j \in S : ScansBefore(cs, j, i)}) = k - 1
<1>1. /\ key \in [S -> Seq(Nat)]
      /\ \A i \in S : Len(key[i]) = 6 /\ key[i][1] = cs[i].end /\ key[i][6] = i
  BY KeysOfCandidates
<1>2. \A i, j \in S : ScansBefore(cs, i, j) <=> LessKey(key[i], key[j])
  BY DEF ScansBefore
<1>3. o = [k \in 1 .. N |-> C(k)]
  BY DEF ScanOrder, Sorted
<1> HIDE DEF key, o, N, C
<1>4. \A i \in S : {j \in S : ScansBefore(cs, j, i)} = Below(S, key, i)
  BY <1>2 DEF Below
<1>5. SortsByKey(o, S, key)
  <2>1. o = [k \in 1 .. N |-> o[k]]
    BY <1>3
  <2>2. ASSUME NEW k \in 1 .. N, \E i \in S : Cardinality(Below(S, key, i)) = k - 1
        PROVE  o[k] \in S /\ Cardinality(Below(S, key, o[k])) = k - 1
    <3>1. o[k] = CHOOSE i \in S : Cardinality({j \in S : ScansBefore(cs, j, i)}) = k - 1
      BY <1>3 DEF C
    <3>2. \E i \in S : Cardinality({j \in S : ScansBefore(cs, j, i)}) = k - 1
      BY <1>4, <2>2
    <3>3. o[k] \in S /\ Cardinality({j \in S : ScansBefore(cs, j, o[k])}) = k - 1
      BY <3>1, <3>2
    <3> QED BY <1>4, <3>3
  <2> QED BY <2>1, <2>2 DEF SortsByKey, N
<1>6. \A i, j \in S : key[i] = key[j] => i = j
  BY <1>1
<1>7. IsFiniteSet(S)
  BY CoveredFinite
<1>8. /\ N \in Nat
      /\ o \in [1 .. N -> S]
      /\ \A i \in S : \E k \in 1 .. N : o[k] = i
      /\ \A k, l \in 1 .. N : k < l <=> LessKey(key[o[k]], key[o[l]])
  BY <1>1, <1>5, <1>6, <1>7, SortedByKey DEF N
<1>9. ASSUME NEW k \in 1 .. N, NEW l \in 1 .. N, k < l PROVE cs[o[k]].end <= cs[o[l]].end
  <2>1. o[k] \in S /\ o[l] \in S /\ LessKey(key[o[k]], key[o[l]])
    BY <1>8, <1>9
  <2>2. /\ key[o[k]] \in Seq(Nat) /\ key[o[l]] \in Seq(Nat)
        /\ Len(key[o[k]]) # 0 /\ Len(key[o[l]]) # 0
        /\ key[o[k]][1] = cs[o[k]].end /\ key[o[l]][1] = cs[o[l]].end
    <3>1. \A i \in S : key[i] \in Seq(Nat) /\ Len(key[i]) # 0 /\ key[i][1] = cs[i].end
      <4>1. \A i \in S : key[i] \in Seq(Nat)
        BY <1>1
      <4>2. \A i \in S : Len(key[i]) # 0 /\ key[i][1] = cs[i].end
        BY <1>1
      <4> QED BY <4>1, <4>2
    <3> QED BY <2>1, <3>1
  <2> QED BY <2>1, <2>2, FirstNumbers
<1>10. ASSUME NEW k \in 1 .. N, NEW l \in 1 .. N, o[k] = o[l] PROVE k = l
  <2>1. ~LessKey(key[o[k]], key[o[k]])
    <3>1. key[o[k]] \in Seq(Nat)
      BY <1>1, <1>8
    <3> QED BY <3>1, KeysAreOrdered DEF IsStrictOrder
  <2>2. ~(k < l) /\ ~(l < k)
    BY <1>8, <1>10, <2>1
  <2> QED BY <1>8, <2>2
<1> QED BY <1>8, <1>9, <1>10 DEF InScanOrder, N, o

\* What the k-th candidate of a scan can be added to.
LEMMA PredecessorOfScan ==
  ASSUME NEW cs, WellFormed(cs), NEW S \in SUBSET (1 .. Len(cs)), NEW o, NEW N, InScanOrder(cs, S, o, N),
         NEW k \in 1 .. N
  PROVE  /\ Predecessor(cs, o, k) \in 0 .. k - 1
         /\ \A j \in 1 .. k - 1 : j <= Predecessor(cs, o, k) <=> cs[o[j]].end <= cs[o[k]].start
<1> DEFINE E == {0} \cup {j \in 1 .. (k - 1) : cs[o[j]].end <= cs[o[k]].start}
           p == Predecessor(cs, o, k)
<1>1. N \in Nat /\ E \in SUBSET (0 .. k - 1) /\ 0 \in E
  BY DEF InScanOrder
<1>2. p = CHOOSE x \in E : \A y \in E : x >= y
  BY DEF Predecessor, Max
<1>3. \E x \in E : \A y \in E : x >= y
  <2> DEFINE D == {k - x : x \in E}
  <2>1. D \in SUBSET Nat /\ D # {}
    BY <1>1
  <2> HIDE DEF D
  <2>2. PICK m \in D : \A n \in D : m <= n
    BY <2>1, Least
  <2>3. PICK x \in E : m = k - x
    BY DEF D
  <2>4. ASSUME NEW y \in E PROVE x >= y
    <3>1. k - y \in D
      BY DEF D
    <3>2. k - x <= k - y
      BY <2>2, <2>3, <3>1
    <3>3. x \in Int /\ y \in Int /\ k \in Int
      BY <1>1
    <3> HIDE DEF E
    <3> QED BY <3>2, <3>3
  <2> QED BY <2>4
<1>4. p \in E /\ \A y \in E : p >= y
  <2> HIDE DEF p, E
  <2> QED BY <1>2, <1>3
<1>5. p \in 0 .. k - 1
  <2> HIDE DEF p
  <2> QED BY <1>1, <1>4
<1> HIDE DEF p
<1>6. ASSUME NEW j \in 1 .. k - 1, cs[o[j]].end <= cs[o[k]].start PROVE j <= p
  <2>1. j \in E
    BY <1>6
  <2>2. p >= j /\ j \in Int /\ p \in Int
    BY <1>4, <1>5, <2>1
  <2> QED BY <2>2
<1>7. ASSUME NEW j \in 1 .. k - 1, j <= p PROVE cs[o[j]].end <= cs[o[k]].start
  <2>1. p # 0 /\ p \in 1 .. k - 1
    BY <1>5, <1>7
  <2>2. cs[o[p]].end <= cs[o[k]].start
    BY <1>4, <2>1
  <2>3. p \in 1 .. N /\ j \in 1 .. N /\ (j = p \/ j < p)
    BY <1>1, <1>7, <2>1
  <2>4. cs[o[j]].end <= cs[o[p]].end
    <3>1. o[p] \in S
      BY <2>3 DEF InScanOrder
    <3>2. cs[o[p]].end \in Nat
      BY <3>1 DEF WellFormed
    <3> QED BY <2>3, <3>2 DEF InScanOrder
  <2>5. cs[o[j]].end \in Nat /\ cs[o[p]].end \in Nat /\ cs[o[k]].start \in Nat
    <3>1. o[j] \in S /\ o[p] \in S /\ o[k] \in S
      BY <2>3 DEF InScanOrder
    <3> QED BY <3>1 DEF WellFormed
  <2> QED BY <2>2, <2>4, <2>5
<1> QED BY <1>5, <1>6, <1>7 DEF p

-----------------------------------------------------------------------------
(* Chains: candidates one after the other.                                  *)

\* The elements of a sequence, the sequences of candidates that each end before the
\* next one begins, and the solution that chooses such a sequence.
Elems(s) == {s[k] : k \in 1 .. Len(s)}
Chain(cs, s, T) ==
  /\ s \in Seq(T)
  /\ \A k, l \in 1 .. Len(s) : k < l => cs[s[k]].end <= cs[s[l]].start
KeysOf(cs, s) == [k \in 1 .. Len(s) |-> PotentialKey(cs, s[k])]
SolutionOf(cs, s) ==
  [tokens |-> Cardinality(Covered(cs, Elems(s))), chosen |-> s, ties |-> KeysOf(cs, s)]

\* x does not beat y.
NoBetter(x, y) == x.tokens < y.tokens \/ (x.tokens = y.tokens /\ ~LessTie(x.ties, y.ties))
Comparable(x) == x.tokens \in Nat /\ x.ties \in Seq(Seq(Nat))

\* KeysAreOrdered, for the ties of solutions.
LEMMA TiesAreOrdered ==
  /\ \A s \in Seq(Seq(Nat)) : ~LessTie(s, s)
  /\ \A s, t \in Seq(Seq(Nat)) : s = t \/ LessTie(s, t) \/ LessTie(t, s)
  /\ \A s, t, u \in Seq(Seq(Nat)) : LessTie(s, t) /\ LessTie(t, u) => LessTie(s, u)
  BY KeysAreOrdered DEF IsStrictOrder

\* "Does not beat" is reflexive and transitive.
LEMMA NoBetterOrder ==
  /\ \A x : Comparable(x) => NoBetter(x, x)
  /\ \A x, y, z : /\ Comparable(x) /\ Comparable(y) /\ Comparable(z)
                  /\ NoBetter(x, y) /\ NoBetter(y, z)
                  => NoBetter(x, z)
<1>1. ASSUME NEW x, Comparable(x) PROVE NoBetter(x, x)
  BY <1>1, TiesAreOrdered DEF Comparable, NoBetter
<1>2. ASSUME NEW x, NEW y, NEW z, Comparable(x), Comparable(y), Comparable(z),
             NoBetter(x, y), NoBetter(y, z)
      PROVE  NoBetter(x, z)
  <2>1. /\ x.tokens \in Nat /\ y.tokens \in Nat /\ z.tokens \in Nat
        /\ x.ties \in Seq(Seq(Nat)) /\ y.ties \in Seq(Seq(Nat)) /\ z.ties \in Seq(Seq(Nat))
    BY <1>2 DEF Comparable
  <2>2. ~LessTie(x.ties, y.ties) /\ ~LessTie(y.ties, z.ties) => ~LessTie(x.ties, z.ties)
    BY <2>1, TiesAreOrdered
  <2> QED BY <1>2, <2>1, <2>2 DEF NoBetter
<1> QED BY <1>1, <1>2

\* _better_solution returns one of the two, and the other does not beat it.
LEMMA BetterOfTwo ==
  ASSUME NEW x, NEW y, Comparable(x), Comparable(y)
  PROVE  /\ BetterSolution(x, y) = x \/ BetterSolution(x, y) = y
         /\ NoBetter(x, BetterSolution(x, y)) /\ NoBetter(y, BetterSolution(x, y))
<1>1. /\ x.tokens \in Nat /\ y.tokens \in Nat
      /\ x.ties \in Seq(Seq(Nat)) /\ y.ties \in Seq(Seq(Nat))
  BY DEF Comparable
<1>2. /\ ~LessTie(x.ties, x.ties) /\ ~LessTie(y.ties, y.ties)
      /\ LessTie(y.ties, x.ties) => ~LessTie(x.ties, y.ties)
  BY <1>1, TiesAreOrdered
<1>3. CASE x.tokens # y.tokens
  BY <1>1, <1>2, <1>3 DEF BetterSolution, NoBetter
<1>4. CASE x.tokens = y.tokens
  BY <1>1, <1>2, <1>4 DEF BetterSolution, NoBetter
<1> QED BY <1>3, <1>4

\* The candidates of a chain are different and do not overlap.
LEMMA ChainFacts ==
  ASSUME NEW cs, WellFormed(cs), NEW T \in SUBSET (1 .. Len(cs)), NEW s, Chain(cs, s, T)
  PROVE  /\ Len(s) \in Nat /\ DOMAIN s = 1 .. Len(s)
         /\ \A k \in 1 .. Len(s) : s[k] \in T /\ s[k] \in 1 .. Len(cs)
         /\ \A k, l \in 1 .. Len(s) : s[k] = s[l] => k = l
         /\ Elems(s) \in SUBSET T /\ Elems(s) \in SUBSET (1 .. Len(cs))
         /\ Apart(cs, Elems(s))
<1>1. s \in Seq(T) /\ \A k, l \in 1 .. Len(s) : k < l => cs[s[k]].end <= cs[s[l]].start
  BY DEF Chain
<1>2. Len(s) \in Nat /\ DOMAIN s = 1 .. Len(s)
  BY <1>1, LenProperties
<1>3. \A k \in 1 .. Len(s) : s[k] \in T /\ s[k] \in 1 .. Len(cs)
  BY <1>1, ElementOfSeq
<1>4. ASSUME NEW k \in 1 .. Len(s), NEW l \in 1 .. Len(s), k < l
      PROVE  s[k] # s[l] /\ ~Overlap(cs[s[k]], cs[s[l]]) /\ ~Overlap(cs[s[l]], cs[s[k]])
  <2>1. /\ cs[s[k]].end \in Nat /\ cs[s[l]].start \in Nat /\ cs[s[k]].start \in Nat /\ cs[s[l]].end \in Nat
        /\ cs[s[k]].start < cs[s[k]].end /\ cs[s[l]].start < cs[s[l]].end
    BY <1>3 DEF WellFormed
  <2>2. cs[s[k]].end <= cs[s[l]].start
    BY <1>1, <1>4
  <2>3. s[k] # s[l]
    BY <2>1, <2>2
  <2>4. ~(cs[s[l]].start < cs[s[k]].end)
    BY <2>1, <2>2
  <2> QED BY <2>3, <2>4 DEF Overlap
<1>5. \A k, l \in 1 .. Len(s) : s[k] = s[l] => k = l
  BY <1>2, <1>4
<1>6. Elems(s) \in SUBSET T
  BY <1>3 DEF Elems
<1>7. ASSUME NEW i \in Elems(s), NEW j \in Elems(s), i # j PROVE ~Overlap(cs[i], cs[j])
  <2>1. PICK k \in 1 .. Len(s) : i = s[k]
    BY DEF Elems
  <2>2. PICK l \in 1 .. Len(s) : j = s[l]
    BY DEF Elems
  <2>3. k < l \/ l < k
    BY <1>2, <1>7, <2>1, <2>2
  <2> QED BY <1>4, <2>1, <2>2, <2>3
<1> QED BY <1>2, <1>3, <1>5, <1>6, <1>7 DEF Apart

\* A chain is a solution that can be compared.
LEMMA SolutionFacts ==
  ASSUME NEW cs, WellFormed(cs), NEW T \in SUBSET (1 .. Len(cs)), NEW s, Chain(cs, s, T)
  PROVE  /\ Comparable(SolutionOf(cs, s))
         /\ KeysOf(cs, s) \in Seq(Seq(Nat)) /\ Len(KeysOf(cs, s)) = Len(s)
         /\ \A k \in 1 .. Len(s) : KeysOf(cs, s)[k] = PotentialKey(cs, s[k])
<1>1. /\ Len(s) \in Nat /\ \A k \in 1 .. Len(s) : s[k] \in 1 .. Len(cs)
      /\ Elems(s) \in SUBSET (1 .. Len(cs))
  BY ChainFacts
<1>2. Cardinality(Covered(cs, Elems(s))) \in Nat
  BY <1>1, CoveredFinite
<1>3. KeysOf(cs, s) \in [1 .. Len(s) -> Seq(Nat)]
  <2>1. \A k \in 1 .. Len(s) : PotentialKey(cs, s[k]) \in Seq(Nat)
    BY <1>1, KeysOfCandidates
  <2> QED BY <2>1 DEF KeysOf
<1>4. KeysOf(cs, s) \in Seq(Seq(Nat)) /\ Len(KeysOf(cs, s)) = Len(s)
  BY <1>1, <1>3, SeqDef, LenProperties
<1> QED BY <1>2, <1>3, <1>4 DEF Comparable, SolutionOf, KeysOf

\* A chain that another one continues covers less.
LEMMA PrefixCoversLess ==
  ASSUME NEW cs, WellFormed(cs), NEW T \in SUBSET (1 .. Len(cs)),
         NEW s, Chain(cs, s, T), NEW t, Chain(cs, t, T),
         Len(s) < Len(t), \A k \in 1 .. Len(s) : s[k] = t[k]
  PROVE  Cardinality(Covered(cs, Elems(s))) < Cardinality(Covered(cs, Elems(t)))
<1> DEFINE A == Covered(cs, Elems(s))
           B == Covered(cs, Elems(t))
           m == Len(s) + 1
           q == cs[t[m]].start
<1>1. /\ Len(s) \in Nat /\ Len(t) \in Nat
      /\ Elems(s) \in SUBSET (1 .. Len(cs)) /\ Elems(t) \in SUBSET (1 .. Len(cs))
      /\ \A k \in 1 .. Len(t) : t[k] \in 1 .. Len(cs)
  BY ChainFacts
<1>2. m \in 1 .. Len(t) /\ \A k \in 1 .. Len(s) : k \in 1 .. Len(t) /\ k < m
  BY <1>1
<1> HIDE DEF m
<1>3. Elems(s) \in SUBSET Elems(t)
  BY <1>2 DEF Elems
<1>4. A \in SUBSET B
  BY <1>3 DEF Covered
<1>5. q \in B
  <2>1. t[m] \in Elems(t)
    BY <1>2 DEF Elems
  <2>2. cs[t[m]].start \in Nat /\ cs[t[m]].end \in Nat /\ cs[t[m]].start < cs[t[m]].end
    BY <1>1, <1>2 DEF WellFormed
  <2>3. q \in cs[t[m]].start .. (cs[t[m]].end - 1)
    BY <2>2
  <2> HIDE DEF q
  <2> QED BY <2>1, <2>3 DEF Covered
<1>6. q \notin A
  <2> SUFFICES ASSUME q \in A PROVE FALSE
    OBVIOUS
  <2>1. PICK i \in Elems(s) : q \in cs[i].start .. (cs[i].end - 1)
    <3> HIDE DEF q
    <3> QED BY DEF Covered
  <2>2. PICK k \in 1 .. Len(s) : i = s[k]
    BY <2>1 DEF Elems
  <2>3. cs[i].end <= q
    BY <1>2, <2>2 DEF Chain
  <2>4. i \in 1 .. Len(cs) /\ t[m] \in 1 .. Len(cs)
    BY <1>1, <1>2, <2>1
  <2>5. cs[i].end \in Nat /\ cs[i].start \in Nat /\ q \in Nat
    BY <2>4 DEF WellFormed
  <2> HIDE DEF q
  <2> QED BY <2>1, <2>3, <2>5
<1>7. IsFiniteSet(B) /\ Cardinality(B) \in Nat /\ Cardinality(A) \in Nat
  BY <1>1, CoveredFinite
<1> HIDE DEF A, B, q
<1>8. Cardinality(A) <= Cardinality(B) /\ (Cardinality(B) = Cardinality(A) => B = A)
  BY <1>4, <1>7, FS_Subset
<1>9. Cardinality(A) < Cardinality(B)
  BY <1>5, <1>6, <1>7, <1>8
<1> QED BY <1>9 DEF A, B

\* A sequence with one more element.
LEMMA Appended ==
  ASSUME NEW V, NEW s \in Seq(V), NEW x \in V
  PROVE  /\ Append(s, x) \in Seq(V) /\ Len(Append(s, x)) = Len(s) + 1
         /\ Len(s) \in Nat /\ Len(s) + 1 \in 1 .. Len(s) + 1
         /\ \A k \in 1 .. Len(s) : k \in 1 .. Len(s) + 1 /\ k < Len(s) + 1
         /\ \A k \in 1 .. Len(s) + 1 : k \in 1 .. Len(s) \/ k = Len(s) + 1
         /\ \A k \in 1 .. Len(s) : Append(s, x)[k] = s[k]
         /\ Append(s, x)[Len(s) + 1] = x
<1>1. Len(s) \in Nat
  BY LenProperties
<1>2. /\ Append(s, x) \in Seq(V) /\ Len(Append(s, x)) = Len(s) + 1
      /\ \A i \in 1 .. Len(s) : Append(s, x)[i] = s[i]
      /\ Append(s, x)[Len(s) + 1] = x
  BY AppendProperties
<1> QED BY <1>1, <1>2

\* A candidate behind the last one of a chain makes a longer chain.
LEMMA ChainGrows ==
  ASSUME NEW cs, WellFormed(cs), NEW T \in SUBSET (1 .. Len(cs)), NEW s, Chain(cs, s, T),
         NEW x \in T, \A k \in 1 .. Len(s) : cs[s[k]].end <= cs[x].start
  PROVE  /\ Chain(cs, Append(s, x), T)
         /\ Including(cs, SolutionOf(cs, s), x) = SolutionOf(cs, Append(s, x))
         /\ SolutionOf(cs, Append(s, x)).tokens = SolutionOf(cs, s).tokens + Tokens(cs[x])
         /\ SolutionOf(cs, s).tokens \in Nat /\ Tokens(cs[x]) \in Nat
<1> DEFINE u == Append(s, x)
           n == Len(s)
<1>1. /\ n \in Nat /\ \A k \in 1 .. n : s[k] \in T /\ s[k] \in 1 .. Len(cs)
      /\ Elems(s) \in SUBSET (1 .. Len(cs)) /\ s \in Seq(T)
      /\ \A k, l \in 1 .. n : k < l => cs[s[k]].end <= cs[s[l]].start
  BY ChainFacts DEF Chain
<1>2. /\ u \in Seq(T) /\ Len(u) = n + 1 /\ n + 1 \in 1 .. n + 1
      /\ \A k \in 1 .. n : k \in 1 .. n + 1 /\ k < n + 1
      /\ \A k \in 1 .. n + 1 : k \in 1 .. n \/ k = n + 1
      /\ \A k \in 1 .. n : u[k] = s[k]
      /\ u[n + 1] = x
  BY <1>1, Appended
<1> HIDE DEF u, n
<1>3. ASSUME NEW k \in 1 .. Len(u), NEW l \in 1 .. Len(u), k < l PROVE cs[u[k]].end <= cs[u[l]].start
  <2>1. k \in 1 .. n
    BY <1>1, <1>2, <1>3
  <2>2. l \in 1 .. n \/ l = n + 1
    BY <1>2
  <2> QED BY <1>1, <1>2, <1>3, <2>1, <2>2 DEF n
<1>4. Chain(cs, u, T)
  BY <1>2, <1>3 DEF Chain
<1>5. Elems(u) = Elems(s) \cup {x}
  BY <1>2 DEF Elems, n
<1>6. \A j \in Elems(s) : ~Overlap(cs[j], cs[x])
  <2> SUFFICES ASSUME NEW j \in Elems(s) PROVE ~Overlap(cs[j], cs[x])
    OBVIOUS
  <2>1. PICK k \in 1 .. Len(s) : j = s[k]
    BY DEF Elems
  <2>2. cs[j].end <= cs[x].start /\ cs[j].end \in Nat /\ cs[x].start \in Nat
    BY <1>1, <2>1 DEF n, WellFormed
  <2> QED BY <2>2 DEF Overlap
<1>7. Cardinality(Covered(cs, Elems(u))) = Cardinality(Covered(cs, Elems(s))) + Tokens(cs[x])
  BY <1>1, <1>5, <1>6, CoveredOneMore
<1>8. Append(KeysOf(cs, s), PotentialKey(cs, x)) = KeysOf(cs, u)
  <2> DEFINE K == KeysOf(cs, s)
             L == KeysOf(cs, u)
             y == PotentialKey(cs, x)
  <2>1. K \in Seq(Seq(Nat)) /\ Len(K) = n /\ \A k \in 1 .. n : K[k] = PotentialKey(cs, s[k])
    BY SolutionFacts DEF n
  <2>2. L \in Seq(Seq(Nat)) /\ Len(L) = n + 1 /\ \A k \in 1 .. n + 1 : L[k] = PotentialKey(cs, u[k])
    <3>1. L \in Seq(Seq(Nat)) /\ Len(L) = Len(u) /\ \A k \in 1 .. Len(u) : L[k] = PotentialKey(cs, u[k])
      BY <1>4, SolutionFacts
    <3> HIDE DEF L
    <3> QED BY <1>2, <3>1
  <2>3. y \in Seq(Nat)
    BY KeysOfCandidates
  <2>4. y = PotentialKey(cs, x)
    OBVIOUS
  <2> HIDE DEF K, L, y
  <2>5. /\ Append(K, y) \in Seq(Seq(Nat)) /\ Len(Append(K, y)) = n + 1
        /\ \A k \in 1 .. n : Append(K, y)[k] = K[k]
        /\ Append(K, y)[n + 1] = y
    BY <2>1, <2>3, Appended
  <2>6. ASSUME NEW k \in 1 .. n + 1 PROVE Append(K, y)[k] = L[k]
    <3>1. CASE k \in 1 .. n
      BY <1>2, <2>1, <2>2, <2>5, <3>1
    <3>2. CASE k = n + 1
      BY <1>2, <2>2, <2>4, <2>5, <3>2
    <3> QED BY <1>2, <3>1, <3>2
  <2>7. Append(K, y) = L
    BY <2>2, <2>5, <2>6, SeqEqual
  <2> QED BY <2>7 DEF K, L, y
<1>9. Including(cs, SolutionOf(cs, s), x) = SolutionOf(cs, u)
  BY <1>7, <1>8 DEF Including, SolutionOf, u
<1>10. /\ SolutionOf(cs, u).tokens = SolutionOf(cs, s).tokens + Tokens(cs[x])
       /\ SolutionOf(cs, s).tokens \in Nat /\ Tokens(cs[x]) \in Nat
  <2>1. SolutionOf(cs, s).tokens \in Nat
    BY SolutionFacts DEF Comparable
  <2>2. Tokens(cs[x]) \in Nat
    BY OneCovered
  <2> QED BY <1>7, <2>1, <2>2 DEF SolutionOf
<1> QED BY <1>4, <1>9, <1>10 DEF u

\* The same candidate behind two chains does not change which one is better.
LEMMA GrowthKeepsOrder ==
  ASSUME NEW cs, WellFormed(cs), NEW T \in SUBSET (1 .. Len(cs)), NEW x \in T,
         NEW s, Chain(cs, s, T), \A k \in 1 .. Len(s) : cs[s[k]].end <= cs[x].start,
         NEW t, Chain(cs, t, T), \A k \in 1 .. Len(t) : cs[t[k]].end <= cs[x].start,
         NoBetter(SolutionOf(cs, s), SolutionOf(cs, t))
  PROVE  NoBetter(SolutionOf(cs, Append(s, x)), SolutionOf(cs, Append(t, x)))
<1> DEFINE y == PotentialKey(cs, x)
           a == KeysOf(cs, s)
           b == KeysOf(cs, t)
           ay == Append(a, y)
           by == Append(b, y)
<1>1. /\ SolutionOf(cs, Append(s, x)).tokens = SolutionOf(cs, s).tokens + Tokens(cs[x])
      /\ SolutionOf(cs, s).tokens \in Nat /\ Tokens(cs[x]) \in Nat
      /\ Including(cs, SolutionOf(cs, s), x) = SolutionOf(cs, Append(s, x))
  BY ChainGrows
<1>2. /\ SolutionOf(cs, Append(t, x)).tokens = SolutionOf(cs, t).tokens + Tokens(cs[x])
      /\ SolutionOf(cs, t).tokens \in Nat
      /\ Including(cs, SolutionOf(cs, t), x) = SolutionOf(cs, Append(t, x))
  BY ChainGrows
<1>3. SolutionOf(cs, Append(s, x)).ties = ay /\ SolutionOf(cs, Append(t, x)).ties = by
  <2>1. Including(cs, SolutionOf(cs, s), x).ties = ay /\ Including(cs, SolutionOf(cs, t), x).ties = by
    BY DEF Including, SolutionOf
  <2> QED BY <1>1, <1>2, <2>1
<1>4. SolutionOf(cs, s).ties = a /\ SolutionOf(cs, t).ties = b
  BY DEF SolutionOf
<1>5. /\ a \in Seq(Seq(Nat)) /\ Len(a) = Len(s) /\ Len(s) \in Nat
      /\ \A k \in 1 .. Len(s) : a[k] = PotentialKey(cs, s[k]) /\ s[k] \in 1 .. Len(cs)
  <2>1. a \in Seq(Seq(Nat)) /\ Len(a) = Len(s) /\ \A k \in 1 .. Len(s) : a[k] = PotentialKey(cs, s[k])
    BY SolutionFacts
  <2>2. Len(s) \in Nat /\ \A k \in 1 .. Len(s) : s[k] \in 1 .. Len(cs)
    BY ChainFacts
  <2> HIDE DEF a
  <2> QED BY <2>1, <2>2
<1>6. /\ b \in Seq(Seq(Nat)) /\ Len(b) = Len(t) /\ Len(t) \in Nat
      /\ \A k \in 1 .. Len(t) : b[k] = PotentialKey(cs, t[k]) /\ t[k] \in 1 .. Len(cs)
  <2>1. b \in Seq(Seq(Nat)) /\ Len(b) = Len(t) /\ \A k \in 1 .. Len(t) : b[k] = PotentialKey(cs, t[k])
    BY SolutionFacts
  <2>2. Len(t) \in Nat /\ \A k \in 1 .. Len(t) : t[k] \in 1 .. Len(cs)
    BY ChainFacts
  <2> HIDE DEF b
  <2> QED BY <2>1, <2>2
<1>7. y \in Seq(Nat)
  BY KeysOfCandidates
<1> HIDE DEF y, a, b
<1>8. /\ ay \in Seq(Seq(Nat)) /\ Len(ay) = Len(a) + 1 /\ \A k \in 1 .. Len(a) : ay[k] = a[k]
      /\ by \in Seq(Seq(Nat)) /\ Len(by) = Len(b) + 1 /\ \A k \in 1 .. Len(b) : by[k] = b[k]
  BY <1>5, <1>6, <1>7, Appended
<1>9. CASE SolutionOf(cs, s).tokens < SolutionOf(cs, t).tokens
  BY <1>1, <1>2, <1>9 DEF NoBetter
<1>10. CASE SolutionOf(cs, s).tokens = SolutionOf(cs, t).tokens
  <2>1. ~LessTie(a, b)
    BY <1>1, <1>2, <1>4, <1>10 DEF NoBetter
  <2>2. a = b \/ LessTie(b, a)
    BY <1>5, <1>6, <2>1, TiesAreOrdered
  <2> HIDE DEF ay, by
  <2>3. ~LessTie(ay, by)
    <3>1. CASE a = b
      <4>1. ay = by
        BY <3>1 DEF ay, by
      <4> QED BY <1>8, <4>1, TiesAreOrdered
    <3>2. CASE LessTie(b, a)
      <4>1. PICK i \in 1 .. Len(a) :
              /\ \A j \in 1 .. (i - 1) : j <= Len(b) /\ b[j] = a[j]
              /\ i > Len(b) \/ LessKey(b[i], a[i])
        BY <3>2 DEF LessTie, Lexicographic
      <4>2. ~(i > Len(b))
        <5> SUFFICES ASSUME i > Len(b) PROVE FALSE
          OBVIOUS
        <5>1. Len(t) < Len(s) /\ \A j \in 1 .. Len(t) : j \in 1 .. (i - 1) /\ j \in 1 .. Len(s)
          BY <1>5, <1>6
        <5>2. ASSUME NEW j \in 1 .. Len(t) PROVE t[j] = s[j]
          <6>1. PotentialKey(cs, t[j]) = PotentialKey(cs, s[j])
            BY <1>5, <1>6, <4>1, <5>1
          <6>2. j \in 1 .. Len(s) /\ t[j] \in 1 .. Len(cs) /\ s[j] \in 1 .. Len(cs)
            <7>1. j \in 1 .. Len(s)
              BY <5>1
            <7> QED BY <1>5, <1>6, <7>1
          <6>3. \A k \in 1 .. Len(cs) : PotentialKey(cs, k)[5] = k
            BY KeysOfCandidates
          <6>4. PotentialKey(cs, t[j])[5] = t[j] /\ PotentialKey(cs, s[j])[5] = s[j]
            BY <6>2, <6>3
          <6> QED BY <6>1, <6>4
        <5>3. Cardinality(Covered(cs, Elems(t))) < Cardinality(Covered(cs, Elems(s)))
          BY <5>1, <5>2, PrefixCoversLess
        <5>4. SolutionOf(cs, t).tokens < SolutionOf(cs, s).tokens
          BY <5>3 DEF SolutionOf
        <5> QED BY <1>1, <1>2, <1>10, <5>4
      <4>3. i \in 1 .. Len(ay) /\ i \in 1 .. Len(b) /\ ~(i > Len(by)) /\ i \in 1 .. Len(a)
        <5>1. Len(a) \in Nat /\ Len(b) \in Nat /\ Len(ay) = Len(a) + 1 /\ Len(by) = Len(b) + 1
          BY <1>5, <1>6, <1>8
        <5> QED BY <4>2, <5>1
      <4>4. LessKey(by[i], ay[i])
        BY <1>8, <4>1, <4>2, <4>3
      <4>5. \A j \in 1 .. (i - 1) : j <= Len(by) /\ by[j] = ay[j]
        <5>1. \A j \in 1 .. (i - 1) : j \in 1 .. Len(a) /\ j \in 1 .. Len(b) /\ j <= Len(by)
          <6>1. Len(a) \in Nat /\ Len(b) \in Nat /\ Len(by) = Len(b) + 1
            BY <1>5, <1>6, <1>8
          <6> QED BY <4>3, <6>1
        <5> QED BY <1>8, <4>1, <5>1
      <4>6. LessTie(by, ay)
        BY <4>3, <4>4, <4>5 DEF LessTie, Lexicographic
      <4> QED BY <1>8, <4>6, TiesAreOrdered
    <3> QED BY <2>2, <3>1, <3>2
  <2>4. SolutionOf(cs, Append(s, x)).tokens = SolutionOf(cs, Append(t, x)).tokens
    BY <1>1, <1>2, <1>10
  <2> QED BY <1>3, <2>3, <2>4 DEF NoBetter
<1> QED BY <1>9, <1>10 DEF NoBetter

\* The first candidates of a scan, and a chain that no other one beats.
Prefix(o, k) == {o[j] : j \in 1 .. k}
Best(cs, s, T) ==
  Chain(cs, s, T) /\ \A t : Chain(cs, t, T) => NoBetter(SolutionOf(cs, t), SolutionOf(cs, s))

\* A chain through some candidates is a chain of any set that has them.
LEMMA ChainAmong ==
  ASSUME NEW cs, NEW T, NEW s, Chain(cs, s, T), NEW U, \A k \in 1 .. Len(s) : s[k] \in U
  PROVE  Chain(cs, s, U)
<1>1. s \in Seq(T)
  BY DEF Chain
<1>2. Len(s) \in Nat /\ s \in [1 .. Len(s) -> T]
  BY <1>1, LenProperties
<1>3. s \in [1 .. Len(s) -> U]
  BY <1>2
<1>4. s \in Seq(U)
  BY <1>2, <1>3, SeqDef
<1> QED BY <1>4 DEF Chain

\* The last candidate of a chain can be taken off.
LEMMA ChainWithoutLast ==
  ASSUME NEW cs, WellFormed(cs), NEW T \in SUBSET (1 .. Len(cs)), NEW t, Chain(cs, t, T), Len(t) # 0
  PROVE  \E f : /\ Chain(cs, f, T) /\ Len(f) = Len(t) - 1
                /\ \A k \in 1 .. Len(f) : f[k] = t[k]
                /\ t = Append(f, t[Len(t)])
<1> DEFINE m == Len(t) - 1
           f == [k \in 1 .. m |-> t[k]]
           x == t[Len(t)]
<1>1. /\ Len(t) \in Nat /\ \A k \in 1 .. Len(t) : t[k] \in T
      /\ t \in Seq(T) /\ \A k, l \in 1 .. Len(t) : k < l => cs[t[k]].end <= cs[t[l]].start
  BY ChainFacts DEF Chain
<1>2. m \in Nat /\ Len(t) = m + 1 /\ \A k \in 1 .. m : k \in 1 .. Len(t)
  BY <1>1
<1>3. f \in [1 .. m -> T] /\ \A k \in 1 .. m : f[k] = t[k]
  BY <1>1, <1>2
<1> HIDE DEF m, f
<1>4. f \in Seq(T) /\ Len(f) = m
  BY <1>2, <1>3, SeqDef, LenProperties
<1>5. Chain(cs, f, T)
  BY <1>1, <1>2, <1>3, <1>4 DEF Chain
<1>6. x \in T
  <2>1. Len(t) \in 1 .. Len(t)
    BY <1>2
  <2> QED BY <1>1, <2>1
<1>7. x = t[m + 1]
  BY <1>2
<1> HIDE DEF x
<1>8. /\ Append(f, x) \in Seq(T) /\ Len(Append(f, x)) = m + 1
      /\ \A k \in 1 .. m : Append(f, x)[k] = f[k]
      /\ \A k \in 1 .. m + 1 : k \in 1 .. m \/ k = m + 1
      /\ Append(f, x)[m + 1] = x
  BY <1>4, <1>6, Appended
<1>9. ASSUME NEW k \in 1 .. m + 1 PROVE t[k] = Append(f, x)[k]
  <2>1. CASE k \in 1 .. m
    BY <1>3, <1>8, <2>1
  <2>2. CASE k = m + 1
    BY <1>7, <1>8, <2>2
  <2> QED BY <1>8, <2>1, <2>2
<1>10. t = Append(f, x)
  BY <1>1, <1>2, <1>8, <1>9, SeqEqual
<1> QED BY <1>3, <1>4, <1>5, <1>10 DEF m, x

\* One step of the scan finds the best solution over one candidate more.
LEMMA ScanStep ==
  ASSUME NEW cs, WellFormed(cs), NEW S \in SUBSET (1 .. Len(cs)), NEW o, NEW N, InScanOrder(cs, S, o, N),
         NEW k \in 1 .. N,
         NEW b, Best(cs, b, Prefix(o, Predecessor(cs, o, k))), NEW w, Best(cs, w, Prefix(o, k - 1))
  PROVE  \E s : /\ Best(cs, s, Prefix(o, k))
                /\ BetterSolution(Including(cs, SolutionOf(cs, b), o[k]), SolutionOf(cs, w)) = SolutionOf(cs, s)
<1> DEFINE p == Predecessor(cs, o, k)
           x == o[k]
           P == Prefix(o, k)
           new == SolutionOf(cs, Append(b, x))
           old == SolutionOf(cs, w)
           best == BetterSolution(new, old)
<1>1. /\ N \in Nat /\ \A j \in 1 .. N : o[j] \in S /\ o[j] \in 1 .. Len(cs)
      /\ \A j, l \in 1 .. N : j < l => cs[o[j]].end <= cs[o[l]].end
      /\ \A j, l \in 1 .. N : o[j] = o[l] => j = l
  BY DEF InScanOrder
<1>2. /\ p \in 0 .. k - 1
      /\ \A j \in 1 .. k - 1 : j <= p <=> cs[o[j]].end <= cs[o[k]].start
  BY PredecessorOfScan
<1> HIDE DEF p, new, old, best
<1>3. /\ P \in SUBSET (1 .. Len(cs)) /\ x \in P /\ x \in 1 .. Len(cs)
      /\ Prefix(o, k - 1) \in SUBSET P /\ Prefix(o, p) \in SUBSET P
      /\ Prefix(o, k - 1) \in SUBSET (1 .. Len(cs)) /\ Prefix(o, p) \in SUBSET (1 .. Len(cs))
  <2>1. k \in 1 .. k /\ \A j \in 1 .. k : j \in 1 .. N
    BY <1>1
  <2>2. \A j \in 1 .. k - 1 : j \in 1 .. k
    OBVIOUS
  <2>3. \A j \in 1 .. p : j \in 1 .. k
    BY <1>2
  <2> QED BY <1>1, <2>1, <2>2, <2>3 DEF Prefix
<1>4. \A i \in Prefix(o, p) : cs[i].end <= cs[x].start
  <2> SUFFICES ASSUME NEW i \in Prefix(o, p) PROVE cs[i].end <= cs[x].start
    OBVIOUS
  <2>1. PICK j \in 1 .. p : i = o[j]
    BY DEF Prefix
  <2>2. j \in 1 .. k - 1 /\ j <= p
    BY <1>2
  <2> QED BY <1>2, <2>1, <2>2
<1>5. /\ Chain(cs, b, P) /\ Chain(cs, w, P)
      /\ \A i \in 1 .. Len(b) : cs[b[i]].end <= cs[x].start
      /\ Chain(cs, b, Prefix(o, p)) /\ Chain(cs, w, Prefix(o, k - 1))
  <2>1. Chain(cs, b, Prefix(o, p)) /\ Chain(cs, w, Prefix(o, k - 1))
    BY DEF Best, p
  <2>2. \A i \in 1 .. Len(b) : b[i] \in Prefix(o, p)
    BY <1>3, <2>1, ChainFacts
  <2>3. \A i \in 1 .. Len(w) : w[i] \in Prefix(o, k - 1)
    BY <1>3, <2>1, ChainFacts
  <2>4. (\A i \in 1 .. Len(b) : b[i] \in P) /\ (\A i \in 1 .. Len(w) : w[i] \in P)
    BY <1>3, <2>2, <2>3
  <2>5. Chain(cs, b, P)
    BY <2>1, <2>4, ChainAmong
  <2>6. Chain(cs, w, P)
    BY <2>1, <2>4, ChainAmong
  <2> QED BY <1>4, <2>1, <2>2, <2>5, <2>6
<1> HIDE DEF P, x
<1>6. /\ Chain(cs, Append(b, x), P)
      /\ Including(cs, SolutionOf(cs, b), x) = new
  BY <1>3, <1>5, ChainGrows DEF new
<1>7. /\ Comparable(new) /\ Comparable(old)
  BY <1>3, <1>5, <1>6, SolutionFacts DEF new, old
<1>8. /\ best = new \/ best = old
      /\ NoBetter(new, best) /\ NoBetter(old, best)
  BY <1>7, BetterOfTwo DEF best
<1>9. ASSUME NEW t, Chain(cs, t, P) PROVE NoBetter(SolutionOf(cs, t), best)
  <2>1. /\ Len(t) \in Nat /\ \A i \in 1 .. Len(t) : t[i] \in P
        /\ \A i, j \in 1 .. Len(t) : t[i] = t[j] => i = j
        /\ \A i, j \in 1 .. Len(t) : i < j => cs[t[i]].end <= cs[t[j]].start
    BY <1>3, <1>9, ChainFacts DEF Chain
  <2>2. ASSUME NEW i \in P PROVE i = x \/ i \in Prefix(o, k - 1)
    <3>1. PICK j \in 1 .. k : i = o[j]
      BY DEF P, Prefix
    <3>2. j = k \/ j \in 1 .. k - 1
      OBVIOUS
    <3> QED BY <3>1, <3>2 DEF Prefix, x
  <2>3. Comparable(SolutionOf(cs, t)) /\ Comparable(best)
    BY <1>3, <1>7, <1>8, <1>9, SolutionFacts
  <2>4. CASE \A i \in 1 .. Len(t) : t[i] # x
    <3>1. Chain(cs, t, Prefix(o, k - 1))
      BY <1>9, <2>1, <2>2, <2>4, ChainAmong
    <3>2. NoBetter(SolutionOf(cs, t), old)
      BY <3>1 DEF Best, old
    <3> QED BY <1>7, <1>8, <2>3, <3>2, NoBetterOrder
  <2>5. CASE \E i \in 1 .. Len(t) : t[i] = x
    <3>1. PICK m \in 1 .. Len(t) : t[m] = x
      BY <2>5
    <3>2. m = Len(t)
      <4> SUFFICES ASSUME m < Len(t) PROVE FALSE
        BY <2>1
      <4> DEFINE y == t[m + 1]
      <4>1. m + 1 \in 1 .. Len(t) /\ m < m + 1
        BY <2>1
      <4>2. cs[x].end <= cs[y].start /\ y \in P
        BY <2>1, <3>1, <4>1
      <4> HIDE DEF y
      <4>3. PICK j \in 1 .. k : y = o[j]
        BY <4>2 DEF P, Prefix
      <4>4. j \in 1 .. N /\ k \in 1 .. N /\ (j < k \/ j = k)
        BY <1>1
      <4>5. /\ cs[y].end \in Nat /\ cs[x].end \in Nat /\ cs[y].start \in Nat /\ cs[y].start < cs[y].end
        BY <1>3, <4>2 DEF WellFormed
      <4>6. cs[y].end <= cs[x].end
        BY <1>1, <4>3, <4>4, <4>5 DEF x
      <4> QED BY <4>2, <4>5, <4>6
    <3>3. PICK f : /\ Chain(cs, f, P) /\ Len(f) = Len(t) - 1
                   /\ \A i \in 1 .. Len(f) : f[i] = t[i]
                   /\ t = Append(f, t[Len(t)])
      <4>1. Len(t) # 0
        BY <2>1, <3>2
      <4>2. P \in SUBSET (1 .. Len(cs))
        BY <1>3
      <4> QED BY <1>9, <4>1, <4>2, ChainWithoutLast
    <3>4. t = Append(f, x)
      BY <3>1, <3>2, <3>3
    <3>5. ASSUME NEW i \in 1 .. Len(f) PROVE f[i] \in Prefix(o, p) /\ cs[f[i]].end <= cs[x].start
      <4>1. i \in 1 .. Len(t) /\ i < m
        BY <2>1, <3>2, <3>3
      <4>2. f[i] = t[i] /\ t[i] # x /\ cs[t[i]].end <= cs[x].start
        BY <2>1, <3>1, <3>3, <4>1
      <4>3. f[i] \in Prefix(o, k - 1)
        BY <2>1, <2>2, <4>1, <4>2
      <4>4. PICK j \in 1 .. k - 1 : f[i] = o[j]
        BY <4>3 DEF Prefix
      <4>5. j <= p
        BY <1>2, <4>2, <4>4 DEF x
      <4>6. j \in 1 .. p
        BY <1>2, <4>5
      <4> QED BY <4>2, <4>4, <4>6 DEF Prefix
    <3>6. Chain(cs, f, Prefix(o, p))
      BY <3>3, <3>5, ChainAmong
    <3>7. NoBetter(SolutionOf(cs, f), SolutionOf(cs, b))
      BY <3>6 DEF Best, p
    <3>8. NoBetter(SolutionOf(cs, t), new)
      BY <1>3, <1>5, <3>3, <3>4, <3>5, <3>7, GrowthKeepsOrder DEF new
    <3> QED BY <1>7, <1>8, <2>3, <3>8, NoBetterOrder
  <2> QED BY <2>4, <2>5
<1>10. CASE best = new
  <2>1. Best(cs, Append(b, x), P)
    BY <1>6, <1>9, <1>10 DEF Best, new
  <2> QED BY <1>6, <1>10, <2>1 DEF P, x, new, old, best
<1>11. CASE best = old
  <2>1. Best(cs, w, P)
    BY <1>5, <1>9, <1>11 DEF Best, old
  <2> QED BY <1>6, <1>11, <2>1 DEF P, x, new, old, best
<1> QED BY <1>8, <1>10, <1>11

\* What _select_non_overlapping has found after k candidates.
ScanFound(cs, o, k, d) ==
  /\ d \in Seq({SolutionOf(cs, s) : s \in Seq(1 .. Len(cs))})
  /\ Len(d) = k + 1
  /\ \A j \in 0 .. k : \E s : Best(cs, s, Prefix(o, j)) /\ d[j + 1] = SolutionOf(cs, s)

\* Before the first candidate, nothing is best.
LEMMA NothingFound ==
  ASSUME NEW cs, WellFormed(cs), NEW o
  PROVE  ScanFound(cs, o, 0, <<NoSolution>>)
<1> DEFINE e == SolutionOf(cs, <<>>)
           d == <<e>>
<1>1. Len(<<>>) = 0 /\ 1 .. 0 = {} /\ <<>> \in Seq(1 .. Len(cs)) /\ <<>> \in Seq({})
  OBVIOUS
<1>2. Elems(<<>>) = {}
  BY <1>1 DEF Elems
<1>3. Cardinality(Covered(cs, {})) = 0
  <2>1. Covered(cs, {}) = {}
    BY DEF Covered
  <2> QED BY <2>1, FS_EmptySet
<1>4. KeysOf(cs, <<>>) = <<>>
  BY DEF KeysOf
<1>5. NoSolution = e
  BY <1>2, <1>3, <1>4 DEF SolutionOf, NoSolution
<1>6. Chain(cs, <<>>, {})
  BY <1>1 DEF Chain
<1>7. ASSUME NEW t, Chain(cs, t, {}) PROVE NoBetter(SolutionOf(cs, t), e)
  <2>1. t = <<>>
    <3>1. t \in Seq({})
      BY <1>7 DEF Chain
    <3>2. Len(t) \in Nat /\ \A k \in 1 .. Len(t) : t[k] \in {}
      BY <3>1, LenProperties, ElementOfSeq
    <3>3. Len(t) = 0
      <4>1. 1 \in 1 .. Len(t) \/ Len(t) = 0
        BY <3>2
      <4> QED BY <3>2, <4>1
    <3> QED BY <3>1, <3>3, EmptySeq
  <2>2. Comparable(e)
    <3>1. {} \in SUBSET (1 .. Len(cs))
      OBVIOUS
    <3> QED BY <1>6, <3>1, SolutionFacts
  <2> QED BY <2>1, <2>2, NoBetterOrder
<1>8. Best(cs, <<>>, {})
  BY <1>6, <1>7 DEF Best
<1>9. Prefix(o, 0) = {}
  BY DEF Prefix
<1>10. e \in {SolutionOf(cs, s) : s \in Seq(1 .. Len(cs))}
  BY <1>1
<1> DEFINE W == {SolutionOf(cs, s) : s \in Seq(1 .. Len(cs))}
<1> HIDE DEF W
<1>11. e \in W
  BY <1>10 DEF W
<1>12. Best(cs, <<>>, Prefix(o, 0)) /\ e = SolutionOf(cs, <<>>)
  BY <1>8, <1>9
<1> HIDE DEF e
<1>13. d \in Seq(W) /\ Len(d) = 0 + 1 /\ d[0 + 1] = e
  BY <1>11
<1> HIDE DEF d
<1>14. ASSUME NEW j \in 0 .. 0 PROVE \E s : Best(cs, s, Prefix(o, j)) /\ d[j + 1] = SolutionOf(cs, s)
  <2>1. j = 0
    OBVIOUS
  <2>2. Best(cs, <<>>, Prefix(o, j)) /\ d[j + 1] = SolutionOf(cs, <<>>)
    BY <1>12, <1>13, <2>1
  <2> QED BY <2>2
<1>15. ScanFound(cs, o, 0, d)
  BY <1>13, <1>14 DEF ScanFound, W
<1> QED BY <1>5, <1>15 DEF d

\* The step of Solutions.
ScanNext(cs, o, k, d) ==
  Append(d, BetterSolution(Including(cs, d[Predecessor(cs, o, k) + 1], o[k]), d[k]))

\* It finds the best solution with one candidate more.
LEMMA FoundNext ==
  ASSUME NEW cs, WellFormed(cs), NEW S \in SUBSET (1 .. Len(cs)), NEW o, NEW N, InScanOrder(cs, S, o, N),
         NEW k \in 1 .. N, NEW d, ScanFound(cs, o, k - 1, d)
  PROVE  ScanFound(cs, o, k, ScanNext(cs, o, k, d))
<1> DEFINE p == Predecessor(cs, o, k)
           W == {SolutionOf(cs, s) : s \in Seq(1 .. Len(cs))}
           x == BetterSolution(Including(cs, d[p + 1], o[k]), d[k])
           e == Append(d, x)
<1>1. /\ d \in Seq(W) /\ Len(d) = (k - 1) + 1
      /\ \A j \in 0 .. k - 1 : \E s : Best(cs, s, Prefix(o, j)) /\ d[j + 1] = SolutionOf(cs, s)
  BY DEF ScanFound
<1>2. p \in 0 .. k - 1 /\ k - 1 \in 0 .. k - 1 /\ (k - 1) + 1 = k /\ N \in Nat /\ k \in Nat
  <2>1. N \in Nat
    BY DEF InScanOrder
  <2>2. p \in 0 .. k - 1
    BY PredecessorOfScan
  <2> HIDE DEF p
  <2> QED BY <2>1, <2>2
<1>3. PICK b : Best(cs, b, Prefix(o, p)) /\ d[p + 1] = SolutionOf(cs, b)
  BY <1>1, <1>2
<1>4. PICK w : Best(cs, w, Prefix(o, k - 1)) /\ d[k] = SolutionOf(cs, w)
  <2>1. \E s : Best(cs, s, Prefix(o, k - 1)) /\ d[(k - 1) + 1] = SolutionOf(cs, s)
    BY <1>1, <1>2
  <2> QED BY <1>2, <2>1
<1>5. PICK s : Best(cs, s, Prefix(o, k)) /\ x = SolutionOf(cs, s)
  BY <1>3, <1>4, ScanStep
<1>6. s \in Seq(1 .. Len(cs))
  <2>1. Chain(cs, s, Prefix(o, k))
    BY <1>5 DEF Best
  <2>2. Prefix(o, k) \in SUBSET (1 .. Len(cs))
    <3>1. \A j \in 1 .. k : j \in 1 .. N
      BY <1>2
    <3>2. \A j \in 1 .. N : o[j] \in 1 .. Len(cs)
      BY DEF InScanOrder
    <3> QED BY <3>1, <3>2 DEF Prefix
  <2>3. \A i \in 1 .. Len(s) : s[i] \in 1 .. Len(cs)
    BY <2>1, <2>2, ChainFacts
  <2>4. Chain(cs, s, 1 .. Len(cs))
    BY <2>1, <2>3, ChainAmong
  <2> QED BY <2>4 DEF Chain
<1>7. x \in W
  BY <1>5, <1>6
<1> HIDE DEF p, W, x
<1>8. /\ e \in Seq(W) /\ Len(e) = k + 1
      /\ \A j \in 1 .. k : e[j] = d[j]
      /\ e[k + 1] = x
  <2>1. Len(d) = k
    BY <1>1, <1>2
  <2>2. /\ e \in Seq(W) /\ Len(e) = Len(d) + 1
        /\ \A j \in 1 .. Len(d) : e[j] = d[j]
        /\ e[Len(d) + 1] = x
    BY <1>1, <1>7, Appended
  <2> HIDE DEF e
  <2> QED BY <2>1, <2>2
<1> HIDE DEF e
<1>9. ASSUME NEW j \in 0 .. k PROVE \E t : Best(cs, t, Prefix(o, j)) /\ e[j + 1] = SolutionOf(cs, t)
  <2>1. CASE j = k
    BY <1>5, <1>8, <2>1
  <2>2. CASE j # k
    <3>1. j \in 0 .. k - 1 /\ j + 1 \in 1 .. k
      BY <1>2, <2>2
    <3> QED BY <1>1, <1>8, <3>1
  <2> QED BY <2>1, <2>2
<1>10. ScanFound(cs, o, k, e)
  BY <1>8, <1>9 DEF ScanFound, W
<1> QED BY <1>10 DEF e, x, p, ScanNext

\* _select_non_overlapping selects the candidates of a best chain.
LEMMA SelectionFound ==
  ASSUME NEW cs, WellFormed(cs), NEW S \in SUBSET (1 .. Len(cs))
  PROVE  \E s : Best(cs, s, S) /\ SelectNonOverlapping(cs, S) = Elems(s)
<1> DEFINE o == ScanOrder(cs, S)
           N == Cardinality(S)
           W == {SolutionOf(cs, s) : s \in Seq(1 .. Len(cs))}
           V == Seq(W)
           E == <<NoSolution>>
           Body(f) == [k \in 0 .. N |->
             IF k = 0 THEN E
             ELSE LET done == f[k - 1]
                      base == done[Predecessor(cs, o, k) + 1]
                  IN Append(done, BetterSolution(Including(cs, base, o[k]), done[k]))]
           F == CHOOSE f : f = Body(f)
           Guarded(f, k) == IF ScanNext(cs, o, k, f) \in V THEN ScanNext(cs, o, k, f) ELSE E
           g == [k \in 1 .. N |-> [f \in V |-> Guarded(f, k)]]
<1>1. InScanOrder(cs, S, o, N) /\ N \in Nat
  <2>1. InScanOrder(cs, S, o, N)
    BY ScanInOrder
  <2> QED BY <2>1 DEF InScanOrder
<1>2. Solutions(cs, S) = F[N]
  BY DEF Solutions
<1>3. \A f : Body(f) = [k \in 0 .. N |-> IF k = 0 THEN E ELSE ScanNext(cs, o, k, f[k - 1])]
  BY DEF ScanNext
<1>4. ScanFound(cs, o, 0, E)
  BY NothingFound
<1>5. E \in V
  BY <1>4 DEF ScanFound
<1>6. \A k \in 1 .. N : \A f \in V : Guarded(f, k) \in V
  BY <1>5
<1> HIDE DEF o, N, W, V, E, Body, F, Guarded, g
<1>7. g \in Steps(N, V) /\ \A f \in V, k \in 1 .. N : g[k][f] = Guarded(f, k)
  BY <1>6 DEF g, Steps
<1>8. PICK f : Takes(f, N, V, E, g)
  BY <1>1, <1>5, <1>7, Recursion
<1>9. f \in [0 .. N -> V] /\ f[0] = E /\ \A k \in 1 .. N : f[k] = Guarded(f[k - 1], k)
  <2>1. \A k \in 1 .. N : k - 1 \in 0 .. N
    BY <1>1
  <2>2. f \in [0 .. N -> V] /\ f[0] = E /\ \A k \in 1 .. N : f[k] = g[k][f[k - 1]]
    BY <1>8 DEF Takes
  <2> QED BY <1>7, <2>1, <2>2
<1> DEFINE T == {k \in 0 .. N : ScanFound(cs, o, k, f[k])}
<1>10. ASSUME NEW k \in 1 .. N, ScanFound(cs, o, k - 1, f[k - 1])
       PROVE  f[k] = ScanNext(cs, o, k, f[k - 1]) /\ ScanFound(cs, o, k, f[k])
  <2>1. ScanFound(cs, o, k, ScanNext(cs, o, k, f[k - 1]))
    BY <1>1, <1>10, FoundNext
  <2>2. ScanNext(cs, o, k, f[k - 1]) \in V
    BY <2>1 DEF ScanFound, V, W
  <2>3. f[k] = ScanNext(cs, o, k, f[k - 1])
    BY <1>9, <2>2 DEF Guarded
  <2> QED BY <2>1, <2>3
<1>11. 0 \in T
  BY <1>1, <1>4, <1>9
<1>12. ASSUME NEW i \in 0 .. N - 1, i \in T PROVE i + 1 \in T
  <2> DEFINE k == i + 1
  <2>1. k \in 1 .. N /\ k \in 0 .. N /\ k - 1 = i
    BY <1>1
  <2> HIDE DEF k
  <2>2. ScanFound(cs, o, k - 1, f[k - 1])
    BY <1>12, <2>1
  <2>3. ScanFound(cs, o, k, f[k])
    BY <1>10, <2>1, <2>2
  <2> QED BY <2>1, <2>3 DEF k
<1>13. \A k \in 0 .. N : ScanFound(cs, o, k, f[k])
  <2> HIDE DEF T
  <2>1. \A k \in 0 .. N : k \in T
    BY <1>1, <1>11, <1>12, SetInduction
  <2> QED BY <2>1 DEF T
<1>14. \A k \in 1 .. N : f[k] = ScanNext(cs, o, k, f[k - 1])
  <2>1. \A k \in 1 .. N : k - 1 \in 0 .. N
    BY <1>1
  <2> QED BY <1>10, <1>13, <2>1
<1>15. f = Body(f)
  <2>1. \A k \in 0 .. N : k # 0 => k \in 1 .. N
    BY <1>1
  <2> QED BY <1>3, <1>9, <1>14, <2>1
<1>16. F = Body(F)
  BY <1>15 DEF F
<1>17. F[0] = E /\ \A k \in 1 .. N : F[k] = ScanNext(cs, o, k, F[k - 1])
  <2>1. 0 \in 0 .. N /\ \A k \in 1 .. N : k \in 0 .. N /\ k # 0
    BY <1>1
  <2> QED BY <1>3, <1>16, <2>1
<1> DEFINE U == {k \in 0 .. N : F[k] = f[k]}
<1>18. 0 \in U
  BY <1>1, <1>9, <1>17
<1>19. ASSUME NEW i \in 0 .. N - 1, i \in U PROVE i + 1 \in U
  <2> DEFINE k == i + 1
  <2>1. k \in 1 .. N /\ k \in 0 .. N /\ k - 1 = i
    BY <1>1
  <2> HIDE DEF k
  <2>2. F[k - 1] = f[k - 1]
    BY <1>19, <2>1
  <2>3. F[k] = f[k]
    BY <1>14, <1>17, <2>1, <2>2
  <2> QED BY <2>1, <2>3 DEF k
<1>20. F[N] = f[N]
  <2>1. \A k \in 0 .. N : k \in U
    <3> HIDE DEF U
    <3> QED BY <1>1, <1>18, <1>19, SetInduction
  <2> QED BY <1>1, <2>1
<1>21. ScanFound(cs, o, N, Solutions(cs, S))
  BY <1>1, <1>2, <1>13, <1>20
<1>22. PICK s : Best(cs, s, Prefix(o, N)) /\ Solutions(cs, S)[N + 1] = SolutionOf(cs, s)
  <2>1. N \in 0 .. N
    BY <1>1
  <2> QED BY <1>21, <2>1 DEF ScanFound
<1>23. Prefix(o, N) = S
  <2>1. \A j \in 1 .. N : o[j] \in S
    BY <1>1 DEF InScanOrder
  <2>2. \A i \in S : \E j \in 1 .. N : o[j] = i
    BY <1>1 DEF InScanOrder
  <2> QED BY <2>1, <2>2 DEF Prefix
<1>24. SelectNonOverlapping(cs, S) = Elems(s)
  <2>1. Solutions(cs, S)[Cardinality(S) + 1].chosen = s
    BY <1>22 DEF N, SolutionOf
  <2>2. SelectNonOverlapping(cs, S) = {s[k] : k \in DOMAIN s}
    BY <2>1 DEF SelectNonOverlapping
  <2>3. DOMAIN s = 1 .. Len(s)
    <3>1. Chain(cs, s, S)
      BY <1>22, <1>23 DEF Best
    <3> QED BY <3>1, ChainFacts
  <2> QED BY <2>2, <2>3 DEF Elems
<1> QED BY <1>22, <1>23, <1>24

-----------------------------------------------------------------------------
(* Sets of candidates that do not overlap are chains.                       *)

\* One chain goes through the same candidates as another one only if it is the same.
LEMMA SameElements ==
  ASSUME NEW cs, WellFormed(cs), NEW T \in SUBSET (1 .. Len(cs)),
         NEW s, Chain(cs, s, T), NEW t, Chain(cs, t, T), Elems(s) \in SUBSET Elems(t),
         Elems(t) \in SUBSET Elems(s)
  PROVE  Len(s) <= Len(t) /\ \A k \in 1 .. Len(s) : s[k] = t[k]
<1> DEFINE K == {k \in 0 .. Len(s) : \A j \in 1 .. k : j <= Len(t) /\ s[j] = t[j]}
<1>1. /\ Len(s) \in Nat /\ \A k \in 1 .. Len(s) : s[k] \in 1 .. Len(cs)
      /\ \A k, l \in 1 .. Len(s) : k < l => cs[s[k]].end <= cs[s[l]].start
      /\ \A k, l \in 1 .. Len(s) : s[k] = s[l] => k = l
  <2>1. \A k, l \in 1 .. Len(s) : k < l => cs[s[k]].end <= cs[s[l]].start
    BY DEF Chain
  <2> QED BY <2>1, ChainFacts
<1>2. /\ Len(t) \in Nat /\ \A k \in 1 .. Len(t) : t[k] \in 1 .. Len(cs)
      /\ \A k, l \in 1 .. Len(t) : k < l => cs[t[k]].end <= cs[t[l]].start
      /\ \A k, l \in 1 .. Len(t) : t[k] = t[l] => k = l
  <2>1. \A k, l \in 1 .. Len(t) : k < l => cs[t[k]].end <= cs[t[l]].start
    BY DEF Chain
  <2> QED BY <2>1, ChainFacts
<1>3. \A k \in 1 .. Len(s) : \E l \in 1 .. Len(t) : s[k] = t[l]
  BY DEF Elems
<1>4. \A l \in 1 .. Len(t) : \E k \in 1 .. Len(s) : s[k] = t[l]
  BY DEF Elems
<1>5. 0 \in K
  BY <1>1
<1>6. ASSUME NEW i \in 0 .. Len(s) - 1, i \in K PROVE i + 1 \in K
  <2> DEFINE k == i + 1
  <2>1. k \in 1 .. Len(s) /\ k \in 0 .. Len(s) /\ k \in Nat /\ \A j \in 1 .. k : j \in 1 .. i \/ j = k
    BY <1>1
  <2>2. \A j \in 1 .. i : j <= Len(t) /\ s[j] = t[j] /\ j \in 1 .. Len(t) /\ j \in 1 .. Len(s) /\ j < k
    BY <1>1, <1>2, <1>6
  <2>3. \A j \in Nat : j # 0 /\ j < k => j \in 1 .. i
    OBVIOUS
  <2> HIDE DEF k
  <2>4. PICK l \in 1 .. Len(t) : s[k] = t[l]
    BY <1>3, <2>1
  <2>5. ~(l < k)
    <3> SUFFICES ASSUME l < k PROVE FALSE
      OBVIOUS
    <3>1. l \in 1 .. i
      BY <1>2, <2>3
    <3>2. s[l] = s[k] /\ l \in 1 .. Len(s)
      BY <2>2, <2>4, <3>1
    <3>3. l = k
      BY <1>1, <2>1, <3>2
    <3> QED BY <2>1, <3>3
  <2>6. k \in 1 .. Len(t)
    BY <1>2, <2>1, <2>5
  <2>7. PICK m \in 1 .. Len(s) : s[m] = t[k]
    BY <1>4, <2>6
  <2>8. ~(m < k)
    <3> SUFFICES ASSUME m < k PROVE FALSE
      OBVIOUS
    <3>1. m \in 1 .. i
      BY <1>1, <2>3
    <3>2. t[m] = t[k] /\ m \in 1 .. Len(t)
      BY <2>2, <2>7, <3>1
    <3>3. m = k
      BY <1>2, <2>6, <3>2
    <3> QED BY <2>1, <3>3
  <2>9. s[k] = t[k]
    <3> SUFFICES ASSUME s[k] # t[k] PROVE FALSE
      OBVIOUS
    <3>1. k < l /\ k < m
      BY <1>1, <1>2, <2>1, <2>4, <2>5, <2>7, <2>8
    <3>2. cs[t[k]].end <= cs[s[k]].start /\ cs[s[k]].end <= cs[t[k]].start
      BY <1>1, <1>2, <2>1, <2>4, <2>6, <2>7, <3>1
    <3>3. /\ cs[t[k]].end \in Nat /\ cs[s[k]].start \in Nat /\ cs[s[k]].end \in Nat /\ cs[t[k]].start \in Nat
          /\ cs[t[k]].start < cs[t[k]].end /\ cs[s[k]].start < cs[s[k]].end
      BY <1>1, <1>2, <2>1, <2>6 DEF WellFormed
    <3> QED BY <3>2, <3>3
  <2>10. \A j \in 1 .. k : j <= Len(t) /\ s[j] = t[j]
    <3>1. k <= Len(t)
      BY <1>2, <2>6
    <3>2. \A j \in 1 .. k : j \in 1 .. i \/ j = k
      BY <2>1
    <3>3. \A j \in 1 .. i : j <= Len(t) /\ s[j] = t[j]
      BY <2>2
    <3> QED BY <2>9, <3>1, <3>2, <3>3
  <2> QED BY <2>1, <2>10 DEF k
<1>7. Len(s) \in K
  <2> HIDE DEF K
  <2>1. \A i \in 0 .. Len(s) : i \in K
    BY <1>1, <1>5, <1>6, SetInduction
  <2> QED BY <1>1, <2>1
<1>8. \A j \in 1 .. Len(s) : j <= Len(t) /\ s[j] = t[j]
  BY <1>7
<1>9. Len(s) <= Len(t)
  <2>1. Len(s) = 0 \/ Len(s) \in 1 .. Len(s)
    BY <1>1
  <2> QED BY <1>1, <1>2, <1>8, <2>1
<1> QED BY <1>8, <1>9

\* The keys of a chain's candidates.
CandidateKeys(cs, s) == [k \in 1 .. Len(s) |-> CandidateKey(cs[s[k]])]

\* They are keys, one for each candidate.
LEMMA CandidateKeysFacts ==
  ASSUME NEW cs, WellFormed(cs), NEW T \in SUBSET (1 .. Len(cs)), NEW s, Chain(cs, s, T)
  PROVE  /\ CandidateKeys(cs, s) \in Seq(Seq(Nat)) /\ Len(CandidateKeys(cs, s)) = Len(s)
         /\ \A k \in 1 .. Len(s) : CandidateKeys(cs, s)[k] = CandidateKey(cs[s[k]])
<1>1. Len(s) \in Nat /\ \A k \in 1 .. Len(s) : s[k] \in 1 .. Len(cs)
  BY ChainFacts
<1>2. CandidateKeys(cs, s) \in [1 .. Len(s) -> Seq(Nat)]
  <2>1. \A k \in 1 .. Len(s) : CandidateKey(cs[s[k]]) \in Seq(Nat)
    BY <1>1, RangeIsInKey
  <2> QED BY <2>1 DEF CandidateKeys
<1>3. CandidateKeys(cs, s) \in Seq(Seq(Nat)) /\ Len(CandidateKeys(cs, s)) = Len(s)
  BY <1>1, <1>2, SeqDef, LenProperties
<1> QED BY <1>3 DEF CandidateKeys

\* Candidates that do not overlap, in the order of their keys, are a chain.
LEMMA TiesAreOfAChain ==
  ASSUME WellFormed(cands), NEW T \in SUBSET (1 .. Len(cands)), Apart(cands, T)
  PROVE  \E t : Chain(cands, t, T) /\ Elems(t) = T /\ Ties(T) = CandidateKeys(cands, t)
<1> DEFINE key == [i \in T |-> CandidateKey(cands[i])]
           N == Cardinality(T)
           C(k) == CHOOSE i \in T : Cardinality({j \in T : LessKey(CandidateKey(cands[j]), CandidateKey(cands[i]))}) = k - 1
           o == [k \in 1 .. N |-> C(k)]
<1>1. key \in [T -> Seq(Nat)]
  BY RangeIsInKey
<1>2. \A i \in T : key[i] = CandidateKey(cands[i]) /\ Len(key[i]) # 0 /\ key[i][1] = cands[i].start /\ key[i][2] = cands[i].end
  BY RangeIsInKey
<1>3. Ties(T) = [k \in 1 .. N |-> CandidateKey(cands[o[k]])]
  BY DEF Ties, Sorted
<1>4. o = [k \in 1 .. N |-> C(k)]
  OBVIOUS
<1> HIDE DEF key, o, N, C
<1>5. \A i \in T : {j \in T : LessKey(CandidateKey(cands[j]), CandidateKey(cands[i]))} = Below(T, key, i)
  BY <1>2 DEF Below
<1>6. SortsByKey(o, T, key)
  <2>1. o = [k \in 1 .. N |-> o[k]]
    BY <1>4
  <2>2. ASSUME NEW k \in 1 .. N, \E i \in T : Cardinality(Below(T, key, i)) = k - 1
        PROVE  o[k] \in T /\ Cardinality(Below(T, key, o[k])) = k - 1
    <3>1. o[k] = CHOOSE i \in T : Cardinality({j \in T : LessKey(CandidateKey(cands[j]), CandidateKey(cands[i]))}) = k - 1
      BY <1>4 DEF C
    <3>2. \E i \in T : Cardinality({j \in T : LessKey(CandidateKey(cands[j]), CandidateKey(cands[i]))}) = k - 1
      BY <1>5, <2>2
    <3>3. o[k] \in T /\ Cardinality({j \in T : LessKey(CandidateKey(cands[j]), CandidateKey(cands[o[k]]))}) = k - 1
      BY <3>1, <3>2
    <3> QED BY <1>5, <3>3
  <2> QED BY <2>1, <2>2 DEF SortsByKey, N
<1>7. \A i \in T : /\ cands[i].start \in Nat /\ cands[i].end \in Nat /\ cands[i].start < cands[i].end
  BY DEF WellFormed
<1>8. ASSUME NEW i \in T, NEW j \in T, key[i] = key[j] PROVE i = j
  <2>1. cands[i].start = cands[j].start /\ cands[i].end = cands[j].end
    BY <1>2, <1>8
  <2>2. Overlap(cands[i], cands[j])
    BY <1>7, <2>1 DEF Overlap
  <2> QED BY <2>2 DEF Apart
<1>9. IsFiniteSet(T)
  BY CoveredFinite
<1>10. /\ N \in Nat
       /\ o \in [1 .. N -> T]
       /\ \A i \in T : \E k \in 1 .. N : o[k] = i
       /\ \A k, l \in 1 .. N : k < l <=> LessKey(key[o[k]], key[o[l]])
  BY <1>1, <1>6, <1>8, <1>9, SortedByKey DEF N
<1>11. ASSUME NEW k \in 1 .. N, NEW l \in 1 .. N, k < l PROVE cands[o[k]].end <= cands[o[l]].start
  <2>1. o[k] \in T /\ o[l] \in T /\ LessKey(key[o[k]], key[o[l]])
    BY <1>10, <1>11
  <2>2. /\ key[o[k]] \in Seq(Nat) /\ key[o[l]] \in Seq(Nat)
        /\ Len(key[o[k]]) # 0 /\ Len(key[o[l]]) # 0
        /\ key[o[k]][1] = cands[o[k]].start /\ key[o[l]][1] = cands[o[l]].start
    <3>1. \A i \in T : key[i] \in Seq(Nat)
      BY <1>1
    <3> QED BY <1>2, <2>1, <3>1
  <2>3. cands[o[k]].start <= cands[o[l]].start
    BY <2>1, <2>2, FirstNumbers
  <2>4. o[k] # o[l]
    <3>1. ~LessKey(key[o[k]], key[o[k]])
      BY <2>2, KeysAreOrdered DEF IsStrictOrder
    <3> QED BY <2>1, <3>1
  <2>5. ~(cands[o[k]].start < cands[o[l]].end /\ cands[o[l]].start < cands[o[k]].end)
    BY <2>1, <2>4 DEF Apart, Overlap
  <2>6. /\ cands[o[k]].start \in Nat /\ cands[o[k]].end \in Nat
        /\ cands[o[l]].start \in Nat /\ cands[o[l]].end \in Nat /\ cands[o[l]].start < cands[o[l]].end
    BY <1>7, <2>1
  <2> QED BY <2>3, <2>5, <2>6
<1>12. o \in Seq(T) /\ Len(o) = N
  BY <1>10, SeqDef, LenProperties
<1>13. Chain(cands, o, T)
  BY <1>11, <1>12 DEF Chain
<1>14. Elems(o) = T
  BY <1>10, <1>12 DEF Elems
<1>15. Ties(T) = CandidateKeys(cands, o)
  BY <1>3, <1>12 DEF CandidateKeys
<1> QED BY <1>13, <1>14, <1>15

\* The ties of a chain are its keys in its own order.
LEMMA TiesOfChain ==
  ASSUME WellFormed(cands), NEW T \in SUBSET (1 .. Len(cands)), NEW s, Chain(cands, s, T)
  PROVE  Ties(Elems(s)) = CandidateKeys(cands, s)
<1> DEFINE E == Elems(s)
<1>1. /\ E \in SUBSET T /\ E \in SUBSET (1 .. Len(cands)) /\ Apart(cands, E)
      /\ \A k \in 1 .. Len(s) : s[k] \in T
  BY ChainFacts
<1>2. PICK t : Chain(cands, t, E) /\ Elems(t) = E /\ Ties(E) = CandidateKeys(cands, t)
  BY <1>1, TiesAreOfAChain
<1>3. Chain(cands, s, E)
  <2>1. \A k \in 1 .. Len(s) : s[k] \in E
    BY DEF Elems
  <2> QED BY <2>1, ChainAmong
<1> HIDE DEF E
<1>4. Elems(s) = E
  BY DEF E
<1>5. Len(s) <= Len(t) /\ \A k \in 1 .. Len(s) : s[k] = t[k]
  BY <1>1, <1>2, <1>3, <1>4, SameElements
<1>6. Len(t) <= Len(s)
  BY <1>1, <1>2, <1>3, <1>4, SameElements
<1>7. Len(s) \in Nat /\ Len(t) \in Nat
  <2>1. Len(s) \in Nat
    BY <1>1, <1>3, ChainFacts
  <2>2. Len(t) \in Nat
    BY <1>1, <1>2, ChainFacts
  <2> QED BY <2>1, <2>2
<1>8. s = t
  <2>1. s \in Seq(E) /\ t \in Seq(E) /\ Len(s) = Len(t)
    BY <1>2, <1>3, <1>5, <1>6, <1>7 DEF Chain
  <2> QED BY <1>5, <2>1, SeqEqual
<1> QED BY <1>2, <1>8 DEF E

\* A smaller key of a candidate is a smaller key of its place in the response.
LEMMA PotentialKeysFollow ==
  ASSUME NEW cs, WellFormed(cs), NEW i \in 1 .. Len(cs), NEW j \in 1 .. Len(cs),
         LessKey(CandidateKey(cs[i]), CandidateKey(cs[j]))
  PROVE  LessKey(PotentialKey(cs, i), PotentialKey(cs, j))
<1>1. /\ Len(CandidateKey(cs[i])) = 4 /\ Len(PotentialKey(cs, i)) = 5
      /\ \A m \in 1 .. 4 : PotentialKey(cs, i)[m] = CandidateKey(cs[i])[m]
  BY RangeIsInKey, KeysOfCandidates
<1>2. /\ Len(CandidateKey(cs[j])) = 4 /\ Len(PotentialKey(cs, j)) = 5
      /\ \A m \in 1 .. 4 : PotentialKey(cs, j)[m] = CandidateKey(cs[j])[m]
  BY RangeIsInKey, KeysOfCandidates
<1>3. PICK k \in 1 .. Len(CandidateKey(cs[j])) :
        /\ \A m \in 1 .. (k - 1) : m <= Len(CandidateKey(cs[i])) /\ CandidateKey(cs[i])[m] = CandidateKey(cs[j])[m]
        /\ k > Len(CandidateKey(cs[i])) \/ CandidateKey(cs[i])[k] < CandidateKey(cs[j])[k]
  BY DEF LessKey, Lexicographic, LessNat
<1>4. k \in 1 .. 4 /\ k \in 1 .. Len(PotentialKey(cs, j)) /\ ~(k > Len(CandidateKey(cs[i])))
      /\ \A m \in 1 .. (k - 1) : m \in 1 .. 4 /\ m <= Len(PotentialKey(cs, i))
  BY <1>1, <1>2
<1>5. PotentialKey(cs, i)[k] < PotentialKey(cs, j)[k]
  BY <1>1, <1>2, <1>3, <1>4
<1>6. \A m \in 1 .. (k - 1) : m <= Len(PotentialKey(cs, i)) /\ PotentialKey(cs, i)[m] = PotentialKey(cs, j)[m]
  BY <1>1, <1>2, <1>3, <1>4
<1> QED BY <1>4, <1>5, <1>6 DEF LessKey, Lexicographic, LessNat

\* The same key is the same range.
LEMMA SameKeySameRange ==
  ASSUME NEW cs, WellFormed(cs), NEW i \in 1 .. Len(cs), NEW j \in 1 .. Len(cs),
         CandidateKey(cs[i]) = CandidateKey(cs[j])
  PROVE  cs[i].start = cs[j].start /\ cs[i].end = cs[j].end
<1>1. CandidateKey(cs[i])[1] = cs[i].start /\ CandidateKey(cs[i])[2] = cs[i].end
  BY RangeIsInKey
<1>2. CandidateKey(cs[j])[1] = cs[j].start /\ CandidateKey(cs[j])[2] = cs[j].end
  BY RangeIsInKey
<1> QED BY <1>1, <1>2

\* A best chain has the smallest keys, too, of the chains with as many tokens:
\* another one with smaller keys could begin like the best one and be better.
LEMMA BestHasSmallestKeys ==
  ASSUME NEW cs, WellFormed(cs), NEW S \in SUBSET (1 .. Len(cs)), NEW s, Best(cs, s, S),
         NEW t, Chain(cs, t, S)
  PROVE  \/ Cardinality(Covered(cs, Elems(t))) < Cardinality(Covered(cs, Elems(s)))
         \/ /\ Cardinality(Covered(cs, Elems(t))) = Cardinality(Covered(cs, Elems(s)))
            /\ ~LessTie(CandidateKeys(cs, t), CandidateKeys(cs, s))
<1> DEFINE a == CandidateKeys(cs, t)
           b == CandidateKeys(cs, s)
           W(v) == Cardinality(Covered(cs, Elems(v)))
<1>1. Chain(cs, s, S) /\ \A v : Chain(cs, v, S) => NoBetter(SolutionOf(cs, v), SolutionOf(cs, s))
  BY DEF Best
<1>2. \A v : SolutionOf(cs, v).tokens = W(v) /\ SolutionOf(cs, v).ties = KeysOf(cs, v)
  BY DEF SolutionOf
<1>3. W(t) < W(s) \/ W(t) = W(s)
  BY <1>1, <1>2 DEF NoBetter
<1> HIDE DEF W
<1>4. ASSUME W(t) = W(s), LessTie(a, b) PROVE FALSE
  <2>1. /\ Len(s) \in Nat /\ \A k \in 1 .. Len(s) : s[k] \in S /\ s[k] \in 1 .. Len(cs)
        /\ \A k, l \in 1 .. Len(s) : k < l => cs[s[k]].end <= cs[s[l]].start
    BY <1>1, ChainFacts DEF Chain
  <2>2. /\ Len(t) \in Nat /\ \A k \in 1 .. Len(t) : t[k] \in S /\ t[k] \in 1 .. Len(cs)
        /\ \A k, l \in 1 .. Len(t) : k < l => cs[t[k]].end <= cs[t[l]].start
    BY ChainFacts DEF Chain
  <2>3. Len(b) = Len(s) /\ \A k \in 1 .. Len(s) : b[k] = CandidateKey(cs[s[k]])
    BY <1>1, CandidateKeysFacts
  <2>4. Len(a) = Len(t) /\ \A k \in 1 .. Len(t) : a[k] = CandidateKey(cs[t[k]])
    BY CandidateKeysFacts
  <2>5. PICK i \in 1 .. Len(b) :
          /\ \A j \in 1 .. (i - 1) : j <= Len(a) /\ a[j] = b[j]
          /\ i > Len(a) \/ LessKey(a[i], b[i])
    BY <1>4 DEF LessTie, Lexicographic
  <2> HIDE DEF a, b
  <2> DEFINE u == [j \in 1 .. Len(t) |-> IF j < i THEN s[j] ELSE t[j]]
  <2>6. i \in 1 .. Len(s) /\ i \in Nat
    BY <2>1, <2>3
  <2>7. ASSUME NEW j \in 1 .. Len(t), j < i
        PROVE  /\ j \in 1 .. Len(s) /\ cs[s[j]].start = cs[t[j]].start /\ cs[s[j]].end = cs[t[j]].end
    <3>1. j \in 1 .. (i - 1) /\ j \in 1 .. Len(s)
      BY <2>1, <2>6, <2>7
    <3>2. CandidateKey(cs[t[j]]) = CandidateKey(cs[s[j]])
      BY <2>3, <2>4, <2>5, <3>1
    <3> QED BY <2>1, <2>2, <3>1, <3>2, SameKeySameRange
  <2>8. u \in [1 .. Len(t) -> S] /\ \A j \in 1 .. Len(t) : u[j] = IF j < i THEN s[j] ELSE t[j]
    BY <2>1, <2>2, <2>7
  <2> HIDE DEF u
  <2>9. u \in Seq(S) /\ Len(u) = Len(t)
    BY <2>2, <2>8, SeqDef, LenProperties
  <2>10. \A j \in 1 .. Len(t) : cs[u[j]].start = cs[t[j]].start /\ cs[u[j]].end = cs[t[j]].end
    BY <2>7, <2>8
  <2>11. Chain(cs, u, S)
    BY <2>2, <2>9, <2>10 DEF Chain
  <2>12. Covered(cs, Elems(u)) = Covered(cs, Elems(t))
    <3> DEFINE R(n) == cs[n].start .. (cs[n].end - 1)
    <3>1. \A j \in 1 .. Len(t) : R(u[j]) = R(t[j])
      BY <2>10
    <3>2. \A U : Covered(cs, U) = UNION {R(n) : n \in U}
      BY DEF Covered
    <3> HIDE DEF R
    <3>3. {R(n) : n \in Elems(u)} = {R(n) : n \in Elems(t)}
      BY <2>9, <3>1 DEF Elems
    <3> QED BY <3>2, <3>3
  <2>13. W(u) = W(s)
    BY <1>4, <2>12 DEF W
  <2>14. W(s) \in Nat
    <3>1. Comparable(SolutionOf(cs, s))
      BY <1>1, SolutionFacts
    <3> QED BY <1>2, <3>1 DEF Comparable
  <2>15. ~LessTie(KeysOf(cs, u), KeysOf(cs, s))
    <3>1. NoBetter(SolutionOf(cs, u), SolutionOf(cs, s))
      BY <1>1, <2>11
    <3>2. ~(W(u) < W(s))
      BY <2>13, <2>14
    <3> QED BY <1>2, <3>1, <3>2 DEF NoBetter
  <2> DEFINE x == KeysOf(cs, u)
             y == KeysOf(cs, s)
  <2>16. Len(x) = Len(t) /\ \A k \in 1 .. Len(t) : x[k] = PotentialKey(cs, u[k])
    <3>1. Len(x) = Len(u) /\ \A k \in 1 .. Len(u) : x[k] = PotentialKey(cs, u[k])
      BY <2>11, SolutionFacts
    <3> HIDE DEF x
    <3> QED BY <2>9, <3>1
  <2>17. Len(y) = Len(s) /\ \A k \in 1 .. Len(s) : y[k] = PotentialKey(cs, s[k])
    BY <1>1, SolutionFacts
  <2> HIDE DEF x, y
  <2>18. \A j \in 1 .. (i - 1) : j <= Len(x) /\ x[j] = y[j]
    <3> SUFFICES ASSUME NEW j \in 1 .. (i - 1) PROVE j <= Len(x) /\ x[j] = y[j]
      OBVIOUS
    <3>1. j <= Len(t) /\ j < i
      BY <2>4, <2>5, <2>6
    <3>2. j \in 1 .. Len(t) /\ j \in 1 .. Len(s)
      BY <2>1, <2>2, <2>6, <3>1
    <3>3. u[j] = s[j]
      BY <2>8, <3>1, <3>2
    <3> QED BY <2>16, <2>17, <3>1, <3>2, <3>3
  <2>19. i > Len(x) \/ LessKey(x[i], y[i])
    <3> SUFFICES ASSUME ~(i > Len(x)) PROVE LessKey(x[i], y[i])
      OBVIOUS
    <3>1. i \in 1 .. Len(t) /\ ~(i < i) /\ ~(i > Len(a))
      BY <2>2, <2>4, <2>6, <2>16
    <3>2. u[i] = t[i] /\ LessKey(a[i], b[i])
      BY <2>5, <2>8, <3>1
    <3>3. LessKey(CandidateKey(cs[t[i]]), CandidateKey(cs[s[i]]))
      BY <2>3, <2>4, <2>6, <3>1, <3>2
    <3>4. LessKey(PotentialKey(cs, t[i]), PotentialKey(cs, s[i]))
      BY <2>1, <2>2, <2>6, <3>1, <3>3, PotentialKeysFollow
    <3> QED BY <2>6, <2>16, <2>17, <3>1, <3>2, <3>4
  <2>20. LessTie(x, y)
    <3>1. i \in 1 .. Len(y)
      BY <2>6, <2>17
    <3> QED BY <2>18, <2>19, <3>1 DEF LessTie, Lexicographic
  <2> QED BY <2>15, <2>20 DEF x, y
<1> QED BY <1>3, <1>4 DEF W

\* _select_non_overlapping makes the choice SelectionIsBest describes.
LEMMA SelectionChosen ==
  ASSUME WellFormed(cands), NEW S \in SUBSET (1 .. Len(cands)), NEW chosen,
         chosen = SelectNonOverlapping(cands, S)
  PROVE  /\ chosen \subseteq S
         /\ Disjoint(chosen)
         /\ TokensOf(cands, chosen) = Cardinality(Covered(cands, chosen))
         /\ \A T \in SUBSET S : Disjoint(T) =>
              \/ TokensOf(cands, T) < TokensOf(cands, chosen)
              \/ /\ TokensOf(cands, T) = TokensOf(cands, chosen)
                 /\ ~LessTie(Ties(T), Ties(chosen))
<1>1. PICK s : Best(cands, s, S) /\ SelectNonOverlapping(cands, S) = Elems(s)
  BY SelectionFound
<1>2. Chain(cands, s, S) /\ chosen = Elems(s)
  BY <1>1 DEF Best
<1>3. chosen \in SUBSET S /\ chosen \in SUBSET (1 .. Len(cands)) /\ Apart(cands, chosen)
  <2>1. Elems(s) \in SUBSET S /\ Elems(s) \in SUBSET (1 .. Len(cands)) /\ Apart(cands, Elems(s))
    BY <1>2, ChainFacts
  <2> QED BY <1>2, <2>1
<1>4. TokensOf(cands, chosen) = Cardinality(Covered(cands, Elems(s)))
  BY <1>2, <1>3, TokensAreCovered
<1>5. Ties(chosen) = CandidateKeys(cands, s)
  BY <1>2, TiesOfChain
<1>6. ASSUME NEW T \in SUBSET S, Disjoint(T)
      PROVE  \/ TokensOf(cands, T) < TokensOf(cands, chosen)
             \/ /\ TokensOf(cands, T) = TokensOf(cands, chosen)
                /\ ~LessTie(Ties(T), Ties(chosen))
  <2>1. T \in SUBSET (1 .. Len(cands)) /\ Apart(cands, T)
    BY <1>6 DEF Disjoint, Apart
  <2>2. PICK t : Chain(cands, t, T) /\ Elems(t) = T /\ Ties(T) = CandidateKeys(cands, t)
    BY <2>1, TiesAreOfAChain
  <2>3. Chain(cands, t, S)
    <3>1. \A k \in 1 .. Len(t) : t[k] \in S
      BY <2>1, <2>2, ChainFacts
    <3> QED BY <2>2, <3>1, ChainAmong
  <2>4. TokensOf(cands, T) = Cardinality(Covered(cands, Elems(t)))
    BY <2>1, <2>2, TokensAreCovered
  <2>5. \/ Cardinality(Covered(cands, Elems(t))) < Cardinality(Covered(cands, Elems(s)))
        \/ /\ Cardinality(Covered(cands, Elems(t))) = Cardinality(Covered(cands, Elems(s)))
           /\ ~LessTie(CandidateKeys(cands, t), CandidateKeys(cands, s))
    BY <1>1, <2>3, BestHasSmallestKeys
  <2> QED BY <1>4, <1>5, <2>2, <2>4, <2>5
<1> QED BY <1>2, <1>3, <1>4, <1>6 DEF Disjoint, Apart

-----------------------------------------------------------------------------
(* Merged ranges.                                                           *)

\* A set of numbers cut at one of them.
Before(C, a) == {q \in C : q < a}

\* The runs merged from the candidates T: a last one, and the positions before it.
LastRun(cs, r, T) ==
  /\ r \in [covered : Nat, start : Nat, end : Nat] /\ r.start < r.end
  /\ r.start .. (r.end - 1) \subseteq Covered(cs, T)
  /\ \A q \in Covered(cs, T) : q < r.end
  /\ Cardinality(Before(Covered(cs, T), r.start)) = r.covered
  /\ \E j \in T : r.start = cs[j].start

\* The last run and what is before it are all positions.
LEMMA RunsCover ==
  ASSUME NEW cs, WellFormed(cs), NEW T \in SUBSET (1 .. Len(cs)), NEW r, LastRun(cs, r, T)
  PROVE  r.covered + Tokens(r) = Cardinality(Covered(cs, T))
<1> DEFINE C == Covered(cs, T)
           A == Before(C, r.start)
           R == r.start .. (r.end - 1)
<1>1. /\ r.start \in Nat /\ r.end \in Nat /\ r.covered \in Nat /\ r.start < r.end
      /\ R \subseteq C /\ Cardinality(A) = r.covered /\ \A q \in C : q < r.end
  BY DEF LastRun
<1>2. IsFiniteSet(C)
  BY CoveredFinite
<1>3. \A q \in C : q \in Int
  <2>1. \A i \in T : cs[i].start \in Int /\ cs[i].end \in Int
    BY DEF WellFormed
  <2> QED BY <2>1 DEF Covered
<1>4. C = A \cup R /\ A \cap R = {} /\ A \in SUBSET C
  <2> HIDE DEF C
  <2> QED BY <1>1, <1>3 DEF Before
<1>5. IsFiniteSet(R) /\ Cardinality(R) = r.end - r.start
  <2> DEFINE a == r.start
             b == r.end
  <2>1. a \in Nat /\ b \in Nat /\ a < b
    BY <1>1
  <2> HIDE DEF a, b
  <2>2. a \in Int /\ b - 1 \in Int
    BY <2>1
  <2>3. /\ IsFiniteSet(a .. b - 1)
        /\ Cardinality(a .. b - 1) = IF a > b - 1 THEN 0 ELSE (b - 1) - a + 1
    BY <2>2, FS_Interval
  <2>4. Cardinality(a .. b - 1) = b - a
    BY <2>1, <2>3
  <2> QED BY <2>3, <2>4 DEF a, b
<1> HIDE DEF C, A, R
<1>6. IsFiniteSet(A)
  BY <1>2, <1>4, FS_Subset
<1>7. Cardinality(A \cup R) = Cardinality(A) + Cardinality(R) - Cardinality(A \cap R)
  BY <1>5, <1>6, FS_Union
<1>8. Cardinality(A \cap R) = 0
  BY <1>4, FS_EmptySet
<1>9. Cardinality(C) = r.covered + (r.end - r.start)
  BY <1>1, <1>4, <1>5, <1>7, <1>8
<1> QED BY <1>9 DEF C, Tokens

\* The first range is a run.
FirstRun(c) == [covered |-> 0, start |-> c.start, end |-> c.end]
LEMMA RunStarts ==
  ASSUME NEW cs, WellFormed(cs), NEW x \in 1 .. Len(cs)
  PROVE  LastRun(cs, FirstRun(cs[x]), {x})
<1>1. cs[x].start \in Nat /\ cs[x].end \in Nat /\ cs[x].start < cs[x].end
  BY DEF WellFormed
<1>2. Covered(cs, {x}) = cs[x].start .. (cs[x].end - 1)
  BY DEF Covered
<1> DEFINE a == cs[x].start
           b == cs[x].end
           r == FirstRun(cs[x])
<1>3. r = [covered |-> 0, start |-> a, end |-> b]
  BY DEF FirstRun
<1>4. a \in Nat /\ b \in Nat /\ a < b /\ Covered(cs, {x}) = a .. (b - 1) /\ \E j \in {x} : a = cs[j].start
  BY <1>1, <1>2
<1> HIDE DEF a, b, r
<1>5. r \in [covered : Nat, start : Nat, end : Nat] /\ r.start = a /\ r.end = b /\ r.covered = 0
  BY <1>3, <1>4
<1>6. Before(Covered(cs, {x}), a) = {}
  BY <1>4 DEF Before
<1>7. \A q \in a .. (b - 1) : q < b
  BY <1>4
<1>8. LastRun(cs, r, {x})
  BY <1>4, <1>5, <1>6, <1>7, FS_EmptySet DEF LastRun
<1> QED BY <1>8 DEF r

\* The next range extends the run or begins another one.
NextRun(run, range) ==
  IF range.start <= run.end THEN Extended(run, range)
  ELSE [covered |-> run.covered + Tokens(run), start |-> range.start, end |-> range.end]

\* Max of two numbers.
LEMMA LargerOfTwo ==
  ASSUME NEW a \in Nat, NEW b \in Nat
  PROVE  Max({a, b}) = IF a <= b THEN b ELSE a
<1>1. \E x \in {a, b} : \A y \in {a, b} : x >= y
  OBVIOUS
<1>2. Max({a, b}) = CHOOSE x \in {a, b} : \A y \in {a, b} : x >= y
  BY DEF Max
<1>3. Max({a, b}) \in {a, b} /\ \A y \in {a, b} : Max({a, b}) >= y
  BY <1>1, <1>2
<1> DEFINE m == Max({a, b})
<1> HIDE DEF m
<1>4. (m = a \/ m = b) /\ m >= a /\ m >= b
  BY <1>3 DEF m
<1>5. m = IF a <= b THEN b ELSE a
  BY <1>4
<1> QED BY <1>5 DEF m

\* A range that does not begin before the others keeps the runs merged.
LEMMA RunGoesOn ==
  ASSUME NEW cs, WellFormed(cs), NEW T \in SUBSET (1 .. Len(cs)), NEW r, LastRun(cs, r, T),
         NEW x \in 1 .. Len(cs), \A j \in T : cs[j].start <= cs[x].start
  PROVE  LastRun(cs, NextRun(r, cs[x]), T \cup {x})
<1> DEFINE C == Covered(cs, T)
           D == Covered(cs, T \cup {x})
           a == cs[x].start
           b == cs[x].end
           n == NextRun(r, cs[x])
<1>1. a \in Nat /\ b \in Nat /\ a < b
  BY DEF WellFormed
<1>2. D = C \cup a .. (b - 1)
  BY DEF Covered
<1>3. \A q \in C : q \in Int
  <2>1. \A i \in T : cs[i].start \in Int /\ cs[i].end \in Int
    BY DEF WellFormed
  <2> QED BY <2>1 DEF Covered
<1>4. /\ r \in [covered : Nat, start : Nat, end : Nat] /\ r.start < r.end
      /\ r.start .. (r.end - 1) \subseteq C /\ \A q \in C : q < r.end
      /\ Cardinality(Before(C, r.start)) = r.covered
  BY DEF LastRun
<1>5. (\E j \in T \cup {x} : r.start = cs[j].start) /\ (\E j \in T \cup {x} : a = cs[j].start) /\ r.start <= a
  BY DEF LastRun
<1>6. n = IF a <= r.end THEN [r EXCEPT !.end = Max({r.end, b})]
          ELSE [covered |-> r.covered + Tokens(r), start |-> a, end |-> b]
  BY DEF NextRun, Extended
<1>7. r.covered + Tokens(r) = Cardinality(C)
  BY RunsCover
<1>8. Cardinality(C) \in Nat
  BY CoveredFinite
<1>9. Max({r.end, b}) = IF r.end <= b THEN b ELSE r.end
  BY <1>1, <1>4, LargerOfTwo
<1> HIDE DEF C, D, a, b, n
<1>10. CASE a <= r.end
  <2>1. n = [r EXCEPT !.end = IF r.end <= b THEN b ELSE r.end]
    BY <1>6, <1>9, <1>10
  <2>2. /\ n \in [covered : Nat, start : Nat, end : Nat]
        /\ n.covered = r.covered /\ n.start = r.start
        /\ n.end = IF r.end <= b THEN b ELSE r.end
    BY <1>1, <1>4, <2>1
  <2>3. r.start \in Nat /\ r.end \in Nat
    BY <1>4
  <2>4. n.start < n.end /\ n.start .. (n.end - 1) \subseteq D /\ \A q \in D : q < n.end
    BY <1>1, <1>2, <1>3, <1>4, <1>10, <2>2, <2>3
  <2>5. Before(D, r.start) = Before(C, r.start)
    BY <1>1, <1>2, <1>3, <1>5, <2>3 DEF Before
  <2>6. Cardinality(Before(D, n.start)) = n.covered
    BY <1>4, <2>2, <2>5
  <2> QED BY <1>5, <2>2, <2>4, <2>6 DEF LastRun, D, n
<1>11. CASE ~(a <= r.end)
  <2>1. n = [covered |-> Cardinality(C), start |-> a, end |-> b]
    BY <1>6, <1>7, <1>11
  <2>2. n \in [covered : Nat, start : Nat, end : Nat] /\ n.covered = Cardinality(C) /\ n.start = a /\ n.end = b
    BY <1>1, <1>8, <2>1
  <2>3. r.start \in Nat /\ r.end \in Nat
    BY <1>4
  <2>4. a .. (b - 1) \subseteq D /\ \A q \in D : q < b
    BY <1>1, <1>2, <1>3, <1>4, <1>11, <2>3
  <2>5. Before(D, a) = C
    BY <1>1, <1>2, <1>3, <1>4, <1>11, <2>3 DEF Before
  <2>6. Cardinality(Before(D, n.start)) = n.covered /\ n.start < n.end
        /\ n.start .. (n.end - 1) \subseteq D /\ \A q \in D : q < n.end
    BY <1>1, <2>2, <2>4, <2>5
  <2>7. \E j \in T \cup {x} : n.start = cs[j].start
    BY <1>5, <2>2
  <2> QED BY <2>2, <2>6, <2>7 DEF LastRun, D, n
<1>12. LastRun(cs, n, T \cup {x})
  BY <1>10, <1>11 DEF n
<1> QED BY <1>12 DEF n

\* The ranges of S, every one once, by growing starts.
InRangeOrder(cs, S, o, N) ==
  /\ N \in Nat /\ o \in [1 .. N -> S]
  /\ \A i \in S : \E k \in 1 .. N : o[k] = i
  /\ \A k, l \in 1 .. N : k < l => cs[o[k]].start <= cs[o[l]].start

\* RangeOrder is such an order.
LEMMA RangesInOrder ==
  ASSUME NEW cs, WellFormed(cs), NEW S \in SUBSET (1 .. Len(cs))
  PROVE  InRangeOrder(cs, S, RangeOrder(cs, S), Cardinality(S))
<1> DEFINE key == [i \in S |-> <<cs[i].start, cs[i].end, i>>]
           N == Cardinality(S)
           C(k) == CHOOSE i \in S : Cardinality({j \in S : LessKey(<<cs[j].start, cs[j].end, j>>, <<cs[i].start, cs[i].end, i>>)}) = k - 1
           o == RangeOrder(cs, S)
<1>1. /\ key \in [S -> Seq(Nat)]
      /\ \A i \in S : Len(key[i]) # 0 /\ key[i][1] = cs[i].start /\ key[i][3] = i
  BY DEF WellFormed
<1>2. \A i \in S : key[i] = <<cs[i].start, cs[i].end, i>>
  OBVIOUS
<1>3. o = [k \in 1 .. N |-> C(k)]
  BY DEF RangeOrder, Sorted
<1> HIDE DEF key, o, N, C
<1>4. \A i \in S : {j \in S : LessKey(<<cs[j].start, cs[j].end, j>>, <<cs[i].start, cs[i].end, i>>)} = Below(S, key, i)
  BY <1>2 DEF Below
<1>5. SortsByKey(o, S, key)
  <2>1. o = [k \in 1 .. N |-> o[k]]
    BY <1>3
  <2>2. ASSUME NEW k \in 1 .. N, \E i \in S : Cardinality(Below(S, key, i)) = k - 1
        PROVE  o[k] \in S /\ Cardinality(Below(S, key, o[k])) = k - 1
    <3>1. o[k] = CHOOSE i \in S : Cardinality({j \in S : LessKey(<<cs[j].start, cs[j].end, j>>, <<cs[i].start, cs[i].end, i>>)}) = k - 1
      BY <1>3 DEF C
    <3>2. \E i \in S : Cardinality({j \in S : LessKey(<<cs[j].start, cs[j].end, j>>, <<cs[i].start, cs[i].end, i>>)}) = k - 1
      BY <1>4, <2>2
    <3>3. o[k] \in S /\ Cardinality({j \in S : LessKey(<<cs[j].start, cs[j].end, j>>, <<cs[o[k]].start, cs[o[k]].end, o[k]>>)}) = k - 1
      BY <3>1, <3>2
    <3> QED BY <1>4, <3>3
  <2> QED BY <2>1, <2>2 DEF SortsByKey, N
<1>6. \A i, j \in S : key[i] = key[j] => i = j
  BY <1>1
<1>7. IsFiniteSet(S)
  BY CoveredFinite
<1>8. /\ N \in Nat
      /\ o \in [1 .. N -> S]
      /\ \A i \in S : \E k \in 1 .. N : o[k] = i
      /\ \A k, l \in 1 .. N : k < l <=> LessKey(key[o[k]], key[o[l]])
  BY <1>1, <1>5, <1>6, <1>7, SortedByKey DEF N
<1>9. ASSUME NEW k \in 1 .. N, NEW l \in 1 .. N, k < l PROVE cs[o[k]].start <= cs[o[l]].start
  <2>1. o[k] \in S /\ o[l] \in S /\ LessKey(key[o[k]], key[o[l]])
    BY <1>8, <1>9
  <2>2. /\ key[o[k]] \in Seq(Nat) /\ key[o[l]] \in Seq(Nat)
        /\ Len(key[o[k]]) # 0 /\ Len(key[o[l]]) # 0
        /\ key[o[k]][1] = cs[o[k]].start /\ key[o[l]][1] = cs[o[l]].start
    <3>1. \A i \in S : key[i] \in Seq(Nat)
      BY <1>1
    <3>2. \A i \in S : Len(key[i]) # 0 /\ key[i][1] = cs[i].start
      BY <1>1
    <3> QED BY <2>1, <3>1, <3>2
  <2> QED BY <2>1, <2>2, FirstNumbers
<1> QED BY <1>8, <1>9 DEF InRangeOrder, N, o

\* _covered_token_count counts the positions that the ranges cover.
LEMMA CoveredCounted ==
  ASSUME NEW cs, WellFormed(cs), NEW S \in SUBSET (1 .. Len(cs))
  PROVE  CoveredTokenCount(cs, S) = Cardinality(Covered(cs, S))
<1>1. CASE S = {}
  <2>1. CoveredTokenCount(cs, S) = 0
    BY <1>1 DEF CoveredTokenCount
  <2>2. Covered(cs, S) = {}
    BY <1>1 DEF Covered
  <2> QED BY <2>1, <2>2, FS_EmptySet
<1>2. CASE S # {}
  <2> DEFINE o == RangeOrder(cs, S)
             M == Cardinality(S) - 1
             V == [covered : Nat, start : Nat, end : Nat]
             E == FirstRun(cs[o[1]])
             Body(f) == [k \in 0 .. M |->
               LET range == cs[o[k + 1]] IN
               IF k = 0
                 THEN [covered |-> 0, start |-> range.start, end |-> range.end]
               ELSE IF range.start <= f[k - 1].end
                 THEN Extended(f[k - 1], range)
                 ELSE [covered |-> f[k - 1].covered + Tokens(f[k - 1]),
                       start |-> range.start, end |-> range.end]]
             F == CHOOSE f : f = Body(f)
             WithNext(f, k) == NextRun(f, cs[o[k + 1]])
             Guarded(f, k) == IF WithNext(f, k) \in V THEN WithNext(f, k) ELSE E
             g == [k \in 1 .. M |-> [f \in V |-> Guarded(f, k)]]
             P(k) == {o[j] : j \in 1 .. k + 1}
  <2>1. InRangeOrder(cs, S, o, Cardinality(S))
    BY RangesInOrder
  <2>2. M \in Nat
    <3>1. Cardinality(S) \in Nat
      BY <2>1 DEF InRangeOrder
    <3>2. Cardinality(S) # 0
      BY <1>2, CoveredFinite, FS_EmptySet
    <3> QED BY <3>1, <3>2
  <2>3. CoveredTokenCount(cs, S) = F[M].covered + Tokens(F[M])
    BY <1>2 DEF CoveredTokenCount
  <2>4. \A f : Body(f) = [k \in 0 .. M |-> IF k = 0 THEN FirstRun(cs[o[k + 1]]) ELSE WithNext(f[k - 1], k)]
    BY DEF FirstRun, NextRun
  <2> HIDE DEF M, V, E, Body, F, WithNext, Guarded, g, P
  <2>5. /\ \A k \in 0 .. M : o[k + 1] \in S /\ o[k + 1] \in 1 .. Len(cs)
        /\ \A k, l \in 0 .. M : k < l => cs[o[k + 1]].start <= cs[o[l + 1]].start
    <3> HIDE DEF o
    <3>1. \A k \in 0 .. M : k + 1 \in 1 .. Cardinality(S)
      BY <2>1, <2>2 DEF M, InRangeOrder
    <3>2. \A k, l \in 0 .. M : k < l => k + 1 < l + 1
      BY <2>2
    <3>3. /\ \A k \in 1 .. Cardinality(S) : o[k] \in S
          /\ \A k, l \in 1 .. Cardinality(S) : k < l => cs[o[k]].start <= cs[o[l]].start
      BY <2>1 DEF InRangeOrder
    <3> QED BY <3>1, <3>2, <3>3
  <2>6. /\ P(0) = {o[1]} /\ P(M) = S
        /\ \A k \in 0 .. M : P(k) \in SUBSET (1 .. Len(cs))
        /\ \A k \in 1 .. M : P(k) = P(k - 1) \cup {o[k + 1]}
        /\ \A k \in 1 .. M : \A j \in P(k - 1) : cs[j].start <= cs[o[k + 1]].start
    <3> HIDE DEF o
    <3>1. P(0) = {o[1]}
      BY DEF P
    <3>2. P(M) = S
      <4>1. M + 1 = Cardinality(S)
        BY <2>1, <2>2 DEF M, InRangeOrder
      <4>2. /\ \A k \in 1 .. Cardinality(S) : o[k] \in S
            /\ \A i \in S : \E k \in 1 .. Cardinality(S) : o[k] = i
        BY <2>1 DEF InRangeOrder
      <4> QED BY <4>1, <4>2 DEF P
    <3>3. ASSUME NEW k \in 0 .. M PROVE \A j \in 1 .. k + 1 : j - 1 \in 0 .. M /\ (j - 1) + 1 = j
      BY <2>2
    <3>4. \A k \in 0 .. M : P(k) \in SUBSET (1 .. Len(cs))
      BY <2>5, <3>3 DEF P
    <3>5. ASSUME NEW k \in 1 .. M PROVE P(k) = P(k - 1) \cup {o[k + 1]}
      <4>1. 1 .. k + 1 = (1 .. (k - 1) + 1) \cup {k + 1}
        BY <2>2
      <4> QED BY <4>1 DEF P
    <3>6. ASSUME NEW k \in 1 .. M, NEW j \in P(k - 1) PROVE cs[j].start <= cs[o[k + 1]].start
      <4>1. PICK i \in 1 .. (k - 1) + 1 : j = o[i]
        BY DEF P
      <4>2. i - 1 \in 0 .. M /\ k \in 0 .. M /\ i - 1 < k /\ (i - 1) + 1 = i
        BY <2>2
      <4>3. cs[o[(i - 1) + 1]].start <= cs[o[k + 1]].start
        BY <2>5, <4>2
      <4> QED BY <4>1, <4>2, <4>3
    <3> QED BY <3>1, <3>2, <3>4, <3>5, <3>6
  <2>7. LastRun(cs, E, P(0))
    <3>1. o[1] \in 1 .. Len(cs)
      <4>1. 0 \in 0 .. M /\ 0 + 1 = 1
        BY <2>2
      <4> QED BY <2>5, <4>1
    <3> HIDE DEF o
    <3>2. LastRun(cs, FirstRun(cs[o[1]]), {o[1]})
      BY <3>1, RunStarts
    <3> QED BY <2>6, <3>2 DEF E
  <2> HIDE DEF o
  <2>8. E \in V
    BY <2>7 DEF LastRun, V
  <2>9. \A k \in 1 .. M : \A f \in V : Guarded(f, k) \in V
    BY <2>8 DEF Guarded
  <2>10. g \in Steps(M, V) /\ \A f \in V, k \in 1 .. M : g[k][f] = Guarded(f, k)
    BY <2>9 DEF g, Steps
  <2>11. PICK f : Takes(f, M, V, E, g)
    BY <2>2, <2>8, <2>10, Recursion
  <2>12. f \in [0 .. M -> V] /\ f[0] = E /\ \A k \in 1 .. M : f[k] = Guarded(f[k - 1], k)
    <3>1. \A k \in 1 .. M : k - 1 \in 0 .. M
      BY <2>2
    <3>2. f \in [0 .. M -> V] /\ f[0] = E /\ \A k \in 1 .. M : f[k] = g[k][f[k - 1]]
      BY <2>11 DEF Takes
    <3> QED BY <2>10, <3>1, <3>2
  <2>13. ASSUME NEW k \in 1 .. M, LastRun(cs, f[k - 1], P(k - 1))
         PROVE  f[k] = WithNext(f[k - 1], k) /\ LastRun(cs, f[k], P(k))
    <3>1. P(k - 1) \in SUBSET (1 .. Len(cs)) /\ o[k + 1] \in 1 .. Len(cs)
      <4>1. k \in 0 .. M /\ k - 1 \in 0 .. M
        BY <2>2
      <4> QED BY <2>5, <2>6, <4>1
    <3>2. /\ P(k) = P(k - 1) \cup {o[k + 1]}
          /\ \A j \in P(k - 1) : cs[j].start <= cs[o[k + 1]].start
      BY <2>6
    <3>3. LastRun(cs, NextRun(f[k - 1], cs[o[k + 1]]), P(k - 1) \cup {o[k + 1]})
      BY <2>13, <3>1, <3>2, RunGoesOn
    <3>4. LastRun(cs, WithNext(f[k - 1], k), P(k))
      BY <3>2, <3>3 DEF WithNext
    <3>5. WithNext(f[k - 1], k) \in V
      BY <3>4 DEF LastRun, V
    <3>6. f[k] = WithNext(f[k - 1], k)
      BY <2>12, <3>5 DEF Guarded
    <3> QED BY <3>4, <3>6
  <2> DEFINE T == {k \in 0 .. M : LastRun(cs, f[k], P(k))}
  <2>14. 0 \in T
    <3>1. 0 \in 0 .. M
      BY <2>2
    <3>2. LastRun(cs, f[0], P(0))
      BY <2>7, <2>12
    <3> QED BY <3>1, <3>2
  <2>15. ASSUME NEW i \in 0 .. M - 1, i \in T PROVE i + 1 \in T
    <3> DEFINE k == i + 1
    <3>1. k \in 1 .. M /\ k \in 0 .. M /\ k - 1 = i
      BY <2>2
    <3> HIDE DEF k
    <3>2. LastRun(cs, f[k - 1], P(k - 1))
      BY <2>15, <3>1
    <3>3. LastRun(cs, f[k], P(k))
      BY <2>13, <3>1, <3>2
    <3> QED BY <3>1, <3>3 DEF k
  <2>16. \A k \in 0 .. M : LastRun(cs, f[k], P(k))
    <3> HIDE DEF T
    <3>1. \A k \in 0 .. M : k \in T
      BY <2>2, <2>14, <2>15, SetInduction
    <3> QED BY <3>1 DEF T
  <2>17. \A k \in 1 .. M : f[k] = WithNext(f[k - 1], k)
    <3>1. \A k \in 1 .. M : k - 1 \in 0 .. M
      BY <2>2
    <3> QED BY <2>13, <2>16, <3>1
  <2>18. \A h : Body(h) = [k \in 0 .. M |-> IF k = 0 THEN E ELSE WithNext(h[k - 1], k)]
    <3>1. ASSUME NEW h, NEW k \in 0 .. M, k = 0 PROVE FirstRun(cs[o[k + 1]]) = E
      <4>1. k + 1 = 1
        BY <3>1
      <4> QED BY <4>1 DEF E
    <3> QED BY <2>4, <3>1
  <2>19. f = Body(f)
    <3>1. \A k \in 0 .. M : k # 0 => k \in 1 .. M
      BY <2>2
    <3> QED BY <2>12, <2>17, <2>18, <3>1
  <2>20. F = Body(F)
    BY <2>19 DEF F
  <2>21. F[0] = E /\ \A k \in 1 .. M : F[k] = WithNext(F[k - 1], k)
    <3>1. 0 \in 0 .. M /\ \A k \in 1 .. M : k \in 0 .. M /\ k # 0
      BY <2>2
    <3> QED BY <2>18, <2>20, <3>1
  <2> DEFINE U == {k \in 0 .. M : F[k] = f[k]}
  <2>22. 0 \in U
    BY <2>2, <2>12, <2>21
  <2>23. ASSUME NEW i \in 0 .. M - 1, i \in U PROVE i + 1 \in U
    <3> DEFINE k == i + 1
    <3>1. k \in 1 .. M /\ k \in 0 .. M /\ k - 1 = i
      BY <2>2
    <3> HIDE DEF k
    <3>2. F[k - 1] = f[k - 1]
      BY <2>23, <3>1
    <3>3. F[k] = f[k]
      BY <2>17, <2>21, <3>1, <3>2
    <3> QED BY <3>1, <3>3 DEF k
  <2>24. F[M] = f[M]
    <3>1. \A k \in 0 .. M : k \in U
      <4> HIDE DEF U
      <4> QED BY <2>2, <2>22, <2>23, SetInduction
    <3> QED BY <2>2, <3>1
  <2>25. LastRun(cs, F[M], S)
    <3>1. M \in 0 .. M
      BY <2>2
    <3> QED BY <2>6, <2>16, <2>24, <3>1
  <2> QED BY <2>3, <2>25, RunsCover
<1> QED BY <1>1, <1>2

-----------------------------------------------------------------------------
(* Lookup plans.                                                            *)

\* The responses that the properties are about.
LEMMA ResponseFacts ==
  ASSUME cands \in Responses
  PROVE  /\ WellFormed(cands)
         /\ PromptTokens \in Nat
         /\ \A i \in 1 .. Len(cands) : cands[i].end <= PromptTokens
<1>1. /\ PromptTokens \in Nat /\ Len(cands) \in Nat /\ DOMAIN cands = 1 .. Len(cands)
      /\ \A i \in 1 .. Len(cands) : cands[i] \in CandidateRecords
  BY ResponsesAssumption
<1>2. \A c \in CandidateRecords :
        /\ c.start \in Nat /\ c.end \in Nat /\ c.key \in Nat /\ c.source \in Nat
        /\ c.start < c.end /\ c.end <= PromptTokens
  BY DEF CandidateRecords
<1> QED BY <1>1, <1>2 DEF WellFormed

\* Every candidate of a selection covers a position of its own.
LEMMA AtMostOnePerPosition ==
  ASSUME NEW cs, WellFormed(cs), NEW T \in SUBSET (1 .. Len(cs)), Apart(cs, T)
  PROVE  Cardinality(T) <= Cardinality(Covered(cs, T))
<1> DEFINE C == Covered(cs, T)
           f == [i \in T |-> cs[i].start]
<1>1. \A i \in T : cs[i].start \in Nat /\ cs[i].end \in Nat /\ cs[i].start < cs[i].end
  BY DEF WellFormed
<1>2. ASSUME NEW i \in T PROVE cs[i].start \in C
  <2>1. cs[i].start \in cs[i].start .. (cs[i].end - 1)
    BY <1>1
  <2> QED BY <2>1 DEF Covered
<1>3. ASSUME NEW i \in T, NEW j \in T, cs[i].start = cs[j].start PROVE i = j
  <2>1. Overlap(cs[i], cs[j])
    BY <1>1, <1>3 DEF Overlap
  <2> QED BY <2>1 DEF Apart
<1>4. IsFiniteSet(C)
  BY CoveredFinite
<1>5. f \in Injection(T, C)
  <2> HIDE DEF C
  <2>1. f \in [T -> C] /\ \A i, j \in T : f[i] = f[j] => i = j
    BY <1>2, <1>3
  <2> HIDE DEF f
  <2> QED BY <2>1 DEF Injection, IsInjective
<1> HIDE DEF C, f
<1>6. Cardinality(T) <= Cardinality(C)
  BY <1>4, <1>5, FS_Injection
<1> QED BY <1>6 DEF C

\* The plan of a response, in the terms of the lemmas.
LEMMA PlanOfResponse ==
  ASSUME cands \in Responses, NEW p, p = MakePlan(cands)
  PROVE  /\ p.selected = SelectNonOverlapping(cands, VerifiedCandidates)
         /\ p.selected \in SUBSET VerifiedCandidates
         /\ Disjoint(p.selected)
         /\ p.counters = Counters(cands, p.selected)
         /\ p.found_tokens = Cardinality(Covered(cands, Found(cands)))
<1> DEFINE S == VerifiedCandidates
           selected == SelectNonOverlapping(cands, S)
           rejected == [i \in DOMAIN cands \ selected |->
                          IF cands[i].verdict = "verified"
                            THEN Rejection(cands, selected, i) ELSE cands[i].verdict]
<1>1. WellFormed(cands) /\ DOMAIN cands = 1 .. Len(cands)
  BY ResponseFacts DEF WellFormed
<1>2. S \in SUBSET (1 .. Len(cands)) /\ S = {i \in DOMAIN cands : cands[i].verdict = "verified"}
  BY <1>1 DEF VerifiedCandidates
<1>3. p = [selected |-> selected, rejected |-> rejected, counters |-> Counters(cands, selected),
           found_tokens |-> FoundTargetTokenCount(cands, selected, rejected)]
  BY <1>2, Zenon DEF MakePlan
<1> HIDE DEF S, selected
<1>4. /\ p.selected = selected /\ p.counters = Counters(cands, selected)
      /\ p.found_tokens = FoundTargetTokenCount(cands, selected, rejected)
  BY <1>3
<1>5. selected \subseteq S /\ Disjoint(selected)
  BY <1>1, <1>2, SelectionChosen DEF selected
<1>6. selected \cup {i \in DOMAIN rejected : rejected[i] # "unbound"} = Found(cands)
  <2>1. \A i : Rejection(cands, selected, i) # "unbound"
    BY DEF Rejection
  <2>2. \A i \in selected : i \in DOMAIN cands /\ cands[i].verdict = "verified"
    BY <1>2, <1>5
  <2>3. \A i \in DOMAIN rejected : i \in DOMAIN cands /\ i \notin selected
          /\ (rejected[i] # "unbound" <=> cands[i].verdict # "unbound")
    BY <2>1
  <2>4. DOMAIN rejected = DOMAIN cands \ selected
    OBVIOUS
  <2> HIDE DEF rejected
  <2> QED BY <2>2, <2>3, <2>4 DEF Found
<1>7. Found(cands) \in SUBSET (1 .. Len(cands))
  BY <1>1 DEF Found
<1>8. FoundTargetTokenCount(cands, selected, rejected) = Cardinality(Covered(cands, Found(cands)))
  BY <1>1, <1>6, <1>7, CoveredCounted DEF FoundTargetTokenCount
<1> QED BY <1>4, <1>5, <1>8 DEF selected, S

\* The counters of a selection add up.
LEMMA CountersAddUp ==
  ASSUME NEW cs, WellFormed(cs), NEW T \in SUBSET Found(cs)
  PROVE  CountersAccepted(Counters(cs, T))
<1> DEFINE D == DOMAIN cs
           F == Found(cs)
           R == D \ T
<1>1. D = 1 .. Len(cs) /\ Len(cs) \in Nat
  BY DEF WellFormed
<1>2. F \in SUBSET D /\ T \in SUBSET D
  BY DEF Found
<1>3. IsFiniteSet(D) /\ Cardinality(D) = Len(cs)
  <2> DEFINE n == Len(cs)
  <2>1. n \in Nat /\ 1 \in Int /\ n \in Int
    BY <1>1
  <2> HIDE DEF n
  <2>2. IsFiniteSet(1 .. n) /\ Cardinality(1 .. n) = IF 1 > n THEN 0 ELSE n - 1 + 1
    BY <2>1, FS_Interval
  <2>3. Cardinality(1 .. n) = n
    BY <2>1, <2>2
  <2> QED BY <1>1, <2>2, <2>3 DEF n
<1> HIDE DEF D, F
<1>4. IsFiniteSet(F) /\ Cardinality(F) <= Cardinality(D)
  BY <1>2, <1>3, FS_Subset
<1>5. T \in SUBSET F
  BY DEF F
<1>6. IsFiniteSet(T) /\ Cardinality(T) <= Cardinality(F)
  BY <1>4, <1>5, FS_Subset
<1>7. Cardinality(R) = Cardinality(D) - Cardinality(T)
  <2>1. D \cap T = T
    BY <1>2
  <2>2. Cardinality(D \ T) = Cardinality(D) - Cardinality(D \cap T)
    BY <1>3, FS_Difference
  <2> QED BY <2>1, <2>2
<1>8. Cardinality(D) \in Nat /\ Cardinality(F) \in Nat /\ Cardinality(T) \in Nat
  BY <1>3, <1>4, <1>6, FS_CardinalityType
<1>9. /\ TokensOf(cs, T) \in Nat /\ TokensOf(cs, R) \in Nat
      /\ TokensOf(cs, D) = TokensOf(cs, T) + TokensOf(cs, R)
  <2>1. T \cap R = {} /\ T \cup R = D
    BY <1>2
  <2> HIDE DEF R
  <2>2. /\ TokensOf(cs, T) \in Nat /\ TokensOf(cs, R) \in Nat
        /\ TokensOf(cs, T \cup R) = TokensOf(cs, T) + TokensOf(cs, R)
    BY <2>1, TokensAddUp
  <2> QED BY <2>1, <2>2
<1>10. TokensOf(cs, T) <= TokensOf(cs, F) /\ TokensOf(cs, F) \in Nat
  <2> DEFINE X == F \ T
  <2>1. T \cap X = {} /\ T \cup X = F
    BY <1>5
  <2> HIDE DEF X
  <2>2. /\ TokensOf(cs, T) \in Nat /\ TokensOf(cs, X) \in Nat
        /\ TokensOf(cs, T \cup X) = TokensOf(cs, T) + TokensOf(cs, X)
    BY <2>1, TokensAddUp
  <2>3. TokensOf(cs, F) = TokensOf(cs, T) + TokensOf(cs, X)
    BY <2>1, <2>2
  <2> QED BY <2>2, <2>3
<1>11. TokensOf(cs, F) <= TokensOf(cs, D)
  <2> DEFINE X == D \ F
  <2>1. F \cap X = {} /\ F \cup X = D
    BY <1>2
  <2> HIDE DEF X
  <2>2. /\ TokensOf(cs, F) \in Nat /\ TokensOf(cs, X) \in Nat
        /\ TokensOf(cs, F \cup X) = TokensOf(cs, F) + TokensOf(cs, X)
    BY <2>1, TokensAddUp
  <2>3. TokensOf(cs, D) = TokensOf(cs, F) + TokensOf(cs, X)
    BY <2>1, <2>2
  <2> QED BY <2>2, <2>3
<1> DEFINE c == Counters(cs, T)
<1>12. /\ c.raw = Cardinality(D) /\ c.raw_tokens = TokensOf(cs, D)
       /\ c.found = Cardinality(F) /\ c.found_tokens = TokensOf(cs, F)
       /\ c.verified = Cardinality(T) /\ c.verified_tokens = TokensOf(cs, T)
       /\ c.rejected = Cardinality(R) /\ c.rejected_tokens = TokensOf(cs, R)
  BY <1>3 DEF Counters, D, F
<1> HIDE DEF c, R
<1>13. CountersAccepted(c)
  BY <1>4, <1>6, <1>7, <1>8, <1>9, <1>10, <1>11, <1>12 DEF CountersAccepted
<1> QED BY <1>13 DEF c

\* Every plan is the plan of a response.
PlanInv == cands \in Responses /\ (plan # NoPlan => plan = MakePlan(cands))

\* A plan stays what MakePlan made of the response.
THEOREM PlanInvariant == LookupSpec => []PlanInv
<1>1. LookupInit => PlanInv
  BY DEF LookupInit, PlanInv
<1>2. PlanInv /\ [Plan]_<<cands, plan>> => PlanInv'
  BY DEF PlanInv, Plan
<1> QED BY <1>1, <1>2, PTL DEF LookupSpec

\* Whatever the server answers, the plan selects candidates that do not overlap,
\* no choice covers more, and the order of the response decides no tie.
THEOREM SelectionIsAlwaysBest == LookupSpec => []SelectionIsBest
<1>1. PlanInv => SelectionIsBest
  <2> SUFFICES ASSUME PlanInv, plan # NoPlan PROVE SelectionIsBest
    BY DEF SelectionIsBest
  <2> DEFINE S == VerifiedCandidates
             chosen == plan.selected
  <2>1. cands \in Responses /\ plan = MakePlan(cands)
    BY DEF PlanInv
  <2>2. WellFormed(cands)
    BY <2>1, ResponseFacts
  <2>3. S \in SUBSET (1 .. Len(cands))
    BY <2>2 DEF VerifiedCandidates, WellFormed
  <2>4. chosen = SelectNonOverlapping(cands, S) /\ plan.counters = Counters(cands, chosen)
    BY <2>1, PlanOfResponse
  <2>5. plan.counters.verified_tokens = TokensOf(cands, chosen)
    BY <2>4 DEF Counters
  <2> HIDE DEF S, chosen
  <2>6. /\ chosen \subseteq S
        /\ Disjoint(chosen)
        /\ \A T \in SUBSET S : Disjoint(T) =>
             \/ TokensOf(cands, T) < TokensOf(cands, chosen)
             \/ /\ TokensOf(cands, T) = TokensOf(cands, chosen)
                /\ ~LessTie(Ties(T), Ties(chosen))
    BY <2>2, <2>3, <2>4, SelectionChosen
  <2> QED BY <2>5, <2>6 DEF SelectionIsBest, S, chosen
<1> QED BY <1>1, PlanInvariant, PTL

\* Whatever the server answers, the counters and the observation of the plan are
\* accepted, and found_tokens counts every position of a found candidate once.
THEOREM PlansAreAlwaysAccountable == LookupSpec => []PlansAreAccountable
<1>1. PlanInv => PlansAreAccountable
  <2> SUFFICES ASSUME PlanInv, plan # NoPlan PROVE PlansAreAccountable
    BY DEF PlansAreAccountable
  <2> DEFINE F == Found(cands)
             chosen == plan.selected
             v == Cardinality(Covered(cands, chosen))
             q == Cardinality(Covered(cands, F))
  <2>1. cands \in Responses /\ plan = MakePlan(cands)
    BY DEF PlanInv
  <2>2. /\ WellFormed(cands) /\ PromptTokens \in Nat
        /\ \A i \in 1 .. Len(cands) : cands[i].end <= PromptTokens
    BY <2>1, ResponseFacts
  <2>3. F \in SUBSET (1 .. Len(cands))
    BY <2>2 DEF Found, WellFormed
  <2>4. /\ chosen \in SUBSET VerifiedCandidates /\ Disjoint(chosen)
        /\ plan.counters = Counters(cands, chosen) /\ plan.found_tokens = q
    BY <2>1, PlanOfResponse
  <2>5. chosen \in SUBSET F
    BY <2>4 DEF VerifiedCandidates, Found
  <2> HIDE DEF F, chosen
  <2>6. CountersAccepted(plan.counters)
    BY <2>2, <2>4, <2>5, CountersAddUp DEF F
  <2>7. plan.found_tokens = Cardinality(Positions(F))
    BY <2>4 DEF Positions, Covered
  <2>8. chosen \in SUBSET (1 .. Len(cands)) /\ Apart(cands, chosen)
    BY <2>3, <2>4, <2>5 DEF Disjoint, Apart
  <2>9. /\ plan.counters.verified = Cardinality(chosen)
        /\ plan.counters.verified_tokens = v
    <3>1. TokensOf(cands, chosen) = v
      BY <2>2, <2>8, TokensAreCovered
    <3> QED BY <2>4, <3>1 DEF Counters
  <2>10. Cardinality(chosen) <= v /\ Cardinality(chosen) \in Nat /\ v \in Nat /\ q \in Nat
    <3>1. Cardinality(chosen) <= v
      BY <2>2, <2>8, AtMostOnePerPosition
    <3>2. IsFiniteSet(chosen) /\ v \in Nat
      BY <2>2, <2>8, CoveredFinite
    <3>3. q \in Nat
      BY <2>2, <2>3, CoveredFinite
    <3> QED BY <3>1, <3>2, <3>3, FS_CardinalityType
  <2>11. v <= q
    <3> DEFINE A == Covered(cands, chosen)
               B == Covered(cands, F)
    <3>1. A \in SUBSET B
      BY <2>5 DEF Covered
    <3>2. IsFiniteSet(B)
      BY <2>2, <2>3, CoveredFinite
    <3> HIDE DEF A, B
    <3>3. Cardinality(A) <= Cardinality(B)
      BY <3>1, <3>2, FS_Subset
    <3> QED BY <3>3 DEF A, B
  <2>12. q <= PromptTokens
    <3> DEFINE B == Covered(cands, F)
               n == PromptTokens
    <3>1. B \in SUBSET (0 .. n - 1)
      <4>1. \A i \in F : cands[i].start \in Nat /\ cands[i].end \in Nat /\ cands[i].end <= n
        BY <2>2, <2>3 DEF WellFormed
      <4>2. ASSUME NEW i \in F PROVE cands[i].start .. (cands[i].end - 1) \subseteq 0 .. n - 1
        BY <2>2, <4>1
      <4> HIDE DEF n
      <4> QED BY <4>2 DEF Covered
    <3>2. n \in Nat
      BY <2>2
    <3> HIDE DEF B, n
    <3>3. 0 \in Int /\ n - 1 \in Int
      BY <3>2
    <3>4. /\ IsFiniteSet(0 .. n - 1)
          /\ Cardinality(0 .. n - 1) = IF 0 > n - 1 THEN 0 ELSE (n - 1) - 0 + 1
      BY <3>3, FS_Interval
    <3>5. Cardinality(B) <= Cardinality(0 .. n - 1)
      BY <3>1, <3>4, FS_Subset
    <3>6. Cardinality(0 .. n - 1) = n
      BY <3>2, <3>4
    <3> QED BY <3>5, <3>6 DEF B, n
  <2> HIDE DEF v, q
  <2>13. ObservationAccepted(Observation(plan, PromptTokens, PromptTokens))
    <3> DEFINE o == Observation(plan, PromptTokens, PromptTokens)
    <3>1. /\ o.prompt = PromptTokens /\ o.windows = PromptTokens /\ o.hit = Cardinality(chosen)
          /\ o.requested = IF PromptTokens > 0 THEN PromptTokens ELSE 0
          /\ o.found = q /\ o.verified = v /\ o.rejected = q - v
      BY <2>4, <2>9 DEF Observation
    <3> HIDE DEF o
    <3>2. ObservationAccepted(o)
      BY <2>2, <2>10, <2>11, <2>12, <3>1 DEF ObservationAccepted
    <3> QED BY <3>2 DEF o
  <2> QED BY <2>6, <2>7, <2>13 DEF PlansAreAccountable, F
<1> QED BY <1>1, PlanInvariant, PTL

-----------------------------------------------------------------------------
(* The stores.                                                              *)

USE StorageAssumption

\* Key h stands for these tokens at this position.
IsChunk(h, tokens, start) ==
  \E d \in Documents : \E k \in 1..ChunkCount(d) :
    h = Hash(d, k) /\ tokens = Chunk(d, k) /\ start = Start(k)

\* The matcher's entries, the objects and the records are chunks.
IndexIsOfChunks ==
  /\ byHash = [h \in DOMAIN byHash |-> byHash[h]]
  /\ \A h \in DOMAIN byHash : \E tokens, start :
       byHash[h] = [chunk |-> tokens, start |-> start] /\ IsChunk(h, tokens, start)
  /\ byFirst = ByFirst(byHash)

ObjectsAreChunks ==
  \A o \in DOMAIN objects : \E ns \in Namespaces : \E h, tokens, start :
    /\ o = <<ns, h>> /\ IsChunk(h, tokens, start)
    /\ objects[o] = [tokens |-> tokens, position |-> start]

SidecarIsOfDocuments ==
  \A r \in sidecar : \E ns \in Namespaces, doc \in Documents :
    r \in Records(ns, doc) /\ Records(ns, doc) \subseteq sidecar

\* A request that both sides have left is over, and an event follows the copy.
JobsProgress ==
  /\ jobs \in [Jobs -> JobRecords \cup {None, Over}]
  /\ \A j \in Jobs : Active(j) =>
       /\ jobs[j].client # "done"
       /\ jobs[j].event => jobs[j].committed

\* What is resident can be found, unless a store of it is under way or the
\* server dropped it from the matcher; so can what a request registered.
ObjectsAreFindable ==
  /\ unfindable \subseteq AllHashes
  /\ \A o \in DOMAIN objects :
       o[2] \in DOMAIN byHash \cup unfindable \/ InProgress(o[2])
  /\ \A j \in Jobs : Active(j) /\ jobs[j].registered =>
       Hashes(jobs[j].doc) \subseteq DOMAIN byHash \cup unfindable

SInv ==
  /\ IndexIsOfChunks /\ ObjectsAreChunks /\ SidecarIsOfDocuments
  /\ JobsProgress /\ ObjectsAreFindable

-----------------------------------------------------------------------------
(* Chunks and their hashes.                                                *)

\* The number of complete chunks of a document.
LEMMA ChunkCountTyped ==
  ASSUME NEW d \in Documents
  PROVE  ChunkCount(d) \in Nat /\ Len(d) \in Nat
BY DEF ChunkCount

\* A key stands for one chunk.
LEMMA ChunkIsUnique ==
  ASSUME NEW h, NEW t, NEW u, NEW x, NEW y, IsChunk(h, t, x), IsChunk(h, u, y)
  PROVE  t = u /\ x = y
<1>1. PICK d \in Documents : \E k \in 1..ChunkCount(d) :
        h = Hash(d, k) /\ t = Chunk(d, k) /\ x = Start(k)
  BY DEF IsChunk
<1>2. PICK e \in Documents : \E l \in 1..ChunkCount(e) :
        h = Hash(e, l) /\ u = Chunk(e, l) /\ y = Start(l)
  BY DEF IsChunk
<1>3. PICK k \in 1..ChunkCount(d) : h = Hash(d, k) /\ t = Chunk(d, k) /\ x = Start(k)
  BY <1>1
<1>4. PICK l \in 1..ChunkCount(e) : h = Hash(e, l) /\ u = Chunk(e, l) /\ y = Start(l)
  BY <1>2
<1>5. Hash(d, k) = Hash(e, l) => Chunk(d, k) = Chunk(e, l) /\ k = l
  BY HashAssumption
<1> QED BY <1>3, <1>4, <1>5

\* What a hash identifies as a chunk is the hash of one.
LEMMA ChunkHasHash ==
  ASSUME NEW h, NEW tokens, NEW start, IsChunk(h, tokens, start)
  PROVE  h \in AllHashes
BY DEF IsChunk, AllHashes, Hashes

\* The last chunk of a document ends within it.
LEMMA ChunksFit ==
  ASSUME NEW d \in Documents, NEW k \in 1..ChunkCount(d)
  PROVE  Start(k) \in Nat /\ Start(k) + ChunkSize <= Len(d)
<1>1. Len(d) \in Nat /\ ChunkSize \in Nat \ {0} /\ Len(d) % ChunkSize = 0
  BY ChunkCountTyped
<1> DEFINE q == Len(d) \div ChunkSize
<1>2. q \in Nat /\ Len(d) = q * ChunkSize
  BY <1>1, Z3
<1>3. k \in Nat /\ k >= 1 /\ k <= q
  BY <1>2 DEF ChunkCount
<1> HIDE DEF q
<1>4. (k - 1) \in Nat /\ (q - k) \in Nat
  BY <1>2, <1>3
<1>5. /\ (k - 1) * ChunkSize \in Nat /\ (q - k) * ChunkSize \in Nat
      /\ q * ChunkSize = (k - 1) * ChunkSize + ChunkSize + (q - k) * ChunkSize
  BY <1>1, <1>2, <1>3, <1>4, Z3
<1> QED BY <1>1, <1>2, <1>5 DEF Start

\* What a record of a document says.
LEMMA RecordFacts ==
  ASSUME NEW ns, NEW doc \in Documents, NEW r \in Records(ns, doc)
  PROVE  /\ r.ns = ns /\ IsChunk(r.key, r.tokens, r.source)
         /\ r.key \in Hashes(doc) /\ r.source + ChunkSize <= Len(doc)
<1>1. PICK k \in 1..ChunkCount(doc) :
        r = [ns |-> ns, tokens |-> Chunk(doc, k), source |-> Start(k), key |-> Hash(doc, k)]
  BY DEF Records
<1>2. r.ns = ns /\ r.tokens = Chunk(doc, k) /\ r.source = Start(k) /\ r.key = Hash(doc, k)
  BY <1>1
<1> QED BY <1>2, ChunksFit DEF IsChunk, Hashes

-----------------------------------------------------------------------------
(* The matcher.                                                            *)

\* The hashes whose chunk begins with t.
HashesFrom(f, t) == {h \in DOMAIN f : f[h].chunk[1] = t}

\* b groups the entries of f by the first tokens of their chunks.
Groups(b, f) ==
  /\ b = [t \in DOMAIN b |-> b[t]]
  /\ \A t : t \in DOMAIN b <=> HashesFrom(f, t) # {}
  /\ \A t \in DOMAIN b : b[t] = [h \in HashesFrom(f, t) |-> f[h]]

\* The index by first token groups the index by hash.
LEMMA ByFirstGroups ==
  ASSUME NEW f
  PROVE  Groups(ByFirst(f), f)
<1>1. ByFirst(f) = [t \in {f[h].chunk[1] : h \in DOMAIN f} |-> [h \in HashesFrom(f, t) |-> f[h]]]
  BY DEF ByFirst, Restrict, HashesFrom
<1> QED BY <1>1 DEF HashesFrom, Groups

\* Two such groupings are the same.
LEMMA GroupsUnique ==
  ASSUME NEW f, NEW b, NEW c, Groups(b, f), Groups(c, f)
  PROVE  b = c
<1>1. DOMAIN b = DOMAIN c
  BY DEF Groups
<1>2. \A t \in DOMAIN b : b[t] = c[t]
  BY <1>1 DEF Groups
<1>3. b = [t \in DOMAIN b |-> b[t]] /\ c = [t \in DOMAIN c |-> c[t]]
  BY DEF Groups
<1> QED BY <1>1, <1>2, <1>3

\* Adding chunks to the index and to the buckets of their first tokens comes to
\* the same, as long as no hash changes its meaning.
LEMMA ByFirstMerged ==
  ASSUME NEW f, NEW g, \A h \in DOMAIN f \cap DOMAIN g : f[h] = g[h],
         NEW bf, NEW bg, Groups(bf, f), Groups(bg, g), NEW old, 
         old = [t \in DOMAIN bf |-> IF t \in DOMAIN bg THEN bg[t] ELSE <<>>]
  PROVE  Groups(Merged([t \in DOMAIN bf |-> Merged(bf[t], old[t])], bg), Merged(f, g))
<1> DEFINE m == Merged(f, g)
           b == [t \in DOMAIN bf |-> Merged(bf[t], old[t])]
           n == Merged(b, bg)
<1>1. /\ DOMAIN m = DOMAIN f \cup DOMAIN g
      /\ \A x \in DOMAIN f : m[x] = f[x]
      /\ \A x \in DOMAIN g : m[x] = g[x]
  BY DEF Merged
<1>2. \A t : HashesFrom(m, t) = HashesFrom(f, t) \cup HashesFrom(g, t)
  BY <1>1 DEF HashesFrom
<1>3. /\ DOMAIN n = DOMAIN bf \cup DOMAIN bg
      /\ \A t \in DOMAIN bf : n[t] = Merged(bf[t], old[t])
      /\ \A t \in DOMAIN bg \ DOMAIN bf : n[t] = bg[t]
      /\ n = [t \in DOMAIN n |-> n[t]]
  <2>1. DOMAIN b = DOMAIN bf /\ \A t \in DOMAIN b : b[t] = Merged(bf[t], old[t])
    OBVIOUS
  <2> HIDE DEF b
  <2> QED BY <2>1 DEF Merged
<1> HIDE DEF m, n, b
<1>4. \A t : t \in DOMAIN n <=> HashesFrom(m, t) # {}
  BY <1>2, <1>3 DEF Groups
<1>5. ASSUME NEW t \in DOMAIN n
      PROVE  n[t] = [h \in HashesFrom(m, t) |-> m[h]]
  <2>2. CASE t \in DOMAIN bf
    <3>1. bf[t] = [h \in HashesFrom(f, t) |-> f[h]]
      BY <2>2 DEF Groups
    <3>2. DOMAIN old[t] = HashesFrom(g, t) /\ \A h \in HashesFrom(g, t) : old[t][h] = g[h]
      <4>1. CASE t \in DOMAIN bg
        BY <2>2, <4>1 DEF Groups
      <4>2. CASE t \notin DOMAIN bg
        <5>1. HashesFrom(g, t) = {} /\ old[t] = <<>>
          BY <2>2, <4>2 DEF Groups
        <5> QED BY <5>1
      <4> QED BY <4>1, <4>2
    <3>3. n[t] = Merged(bf[t], old[t])
      BY <1>3, <2>2
    <3>4. n[t] = [h \in HashesFrom(f, t) \cup HashesFrom(g, t) |->
                    IF h \in HashesFrom(f, t) THEN f[h] ELSE g[h]]
      <4>1. DOMAIN bf[t] = HashesFrom(f, t) /\ \A h \in HashesFrom(f, t) : bf[t][h] = f[h]
        BY <3>1
      <4> QED BY <3>2, <3>3, <4>1 DEF Merged
    <3>5. \A h \in HashesFrom(f, t) \cup HashesFrom(g, t) :
            m[h] = IF h \in HashesFrom(f, t) THEN f[h] ELSE g[h]
      BY <1>1 DEF HashesFrom
    <3> QED BY <1>2, <3>4, <3>5
  <2>3. CASE t \notin DOMAIN bf
    <3>1. HashesFrom(f, t) = {} /\ t \in DOMAIN bg
      BY <1>3, <2>3 DEF Groups
    <3>2. n[t] = [h \in HashesFrom(g, t) |-> g[h]]
      BY <1>3, <2>3, <3>1 DEF Groups
    <3>3. \A h \in HashesFrom(g, t) : m[h] = g[h]
      BY <1>1 DEF HashesFrom
    <3>4. HashesFrom(m, t) = HashesFrom(g, t)
      BY <1>2, <3>1
    <3> QED BY <3>2, <3>3, <3>4
  <2> QED BY <2>2, <2>3
<1>6. Groups(n, m)
  BY <1>3, <1>4, <1>5 DEF Groups
<1> QED BY <1>6 DEF m, n, b

\* So does removing chunks from both, with the buckets that become empty.
LEMMA ByFirstRestricted ==
  ASSUME NEW f, NEW S, NEW b, Groups(b, f)
  PROVE  Groups([t \in {x \in DOMAIN b : DOMAIN b[x] \ (S \cap DOMAIN f) # {}} |->
                   Restrict(b[t], DOMAIN b[t] \ (S \cap DOMAIN f))],
                Restrict(f, DOMAIN f \ S))
<1> DEFINE m == Restrict(f, DOMAIN f \ S)
           D == {x \in DOMAIN b : DOMAIN b[x] \ (S \cap DOMAIN f) # {}}
           n == [t \in D |-> Restrict(b[t], DOMAIN b[t] \ (S \cap DOMAIN f))]
<1>1. DOMAIN m = DOMAIN f \ S /\ \A x \in DOMAIN f \ S : m[x] = f[x]
  BY DEF Restrict
<1>2. \A t : HashesFrom(m, t) = HashesFrom(f, t) \ S
  BY <1>1 DEF HashesFrom
<1>3. ASSUME NEW t \in DOMAIN b
      PROVE  /\ DOMAIN b[t] = HashesFrom(f, t)
             /\ DOMAIN b[t] \ (S \cap DOMAIN f) = HashesFrom(f, t) \ S
             /\ \A h \in HashesFrom(f, t) : b[t][h] = f[h]
  <2>1. b[t] = [h \in HashesFrom(f, t) |-> f[h]]
    BY <1>3 DEF Groups
  <2> QED BY <2>1 DEF HashesFrom
<1>4. \A t : t \in D <=> HashesFrom(m, t) # {}
  BY <1>2, <1>3 DEF Groups
<1>5. ASSUME NEW t \in D
      PROVE  n[t] = [h \in HashesFrom(m, t) |-> m[h]]
  <2>1. n[t] = [h \in HashesFrom(f, t) \ S |-> b[t][h]]
    BY <1>3, <1>5 DEF Restrict
  <2>2. \A h \in HashesFrom(f, t) \ S : m[h] = f[h] /\ b[t][h] = f[h]
    BY <1>1, <1>3, <1>5 DEF HashesFrom
  <2>3. HashesFrom(m, t) = HashesFrom(f, t) \ S
    BY <1>2
  <2> HIDE DEF n, D, m
  <2> QED BY <2>1, <2>2, <2>3
<1>6. n = [t \in D |-> n[t]] /\ DOMAIN n = D
  OBVIOUS
<1> HIDE DEF n, D, m
<1>7. Groups(n, m)
  BY <1>4, <1>5, <1>6 DEF Groups
<1> QED BY <1>7 DEF m, n, D

\* What on_new_token_hashes adds for a document.
LEMMA AdditionsFacts ==
  ASSUME NEW doc \in Documents
  PROVE  /\ DOMAIN AsIndex(Additions(doc)) = Hashes(doc)
         /\ \A h \in Hashes(doc) : \E tokens, start :
              /\ AsIndex(Additions(doc))[h] = [chunk |-> tokens, start |-> start]
              /\ IsChunk(h, tokens, start)
<1> DEFINE pairs == Additions(doc)
<1>1. \A p \in pairs : \E k \in 1..ChunkCount(doc) :
        /\ p[1] = Hash(doc, k)
        /\ p[2] = [chunk |-> Chunk(doc, k), start |-> Start(k)]
  BY DEF Additions
<1>2. {p[1] : p \in pairs} = Hashes(doc)
  <2>1. \A k \in 1..ChunkCount(doc) : \E p \in pairs : p[1] = Hash(doc, k)
    <3> TAKE k \in 1..ChunkCount(doc)
    <3> DEFINE p == <<Hash(doc, k), [chunk |-> Chunk(doc, k), start |-> Start(k)]>>
    <3>1. p \in pairs
      BY DEF Additions
    <3>2. p[1] = Hash(doc, k)
      OBVIOUS
    <3> HIDE DEF p, pairs
    <3> QED BY <3>1, <3>2
  <2> QED BY <1>1, <2>1 DEF Hashes
<1> HIDE DEF pairs
<1>3. ASSUME NEW h \in Hashes(doc)
      PROVE  \E tokens, start :
               /\ (CHOOSE p \in pairs : p[1] = h)[2] = [chunk |-> tokens, start |-> start]
               /\ IsChunk(h, tokens, start)
  <2> DEFINE q == CHOOSE p \in pairs : p[1] = h
  <2>1. q \in pairs /\ q[1] = h
    BY <1>2, <1>3
  <2>2. PICK k \in 1..ChunkCount(doc) :
          q[1] = Hash(doc, k) /\ q[2] = [chunk |-> Chunk(doc, k), start |-> Start(k)]
    BY <1>1, <2>1
  <2>3. IsChunk(h, Chunk(doc, k), Start(k))
    BY <2>1, <2>2 DEF IsChunk
  <2> HIDE DEF q
  <2>4. \E tokens, start : q[2] = [chunk |-> tokens, start |-> start] /\ IsChunk(h, tokens, start)
    BY <2>2, <2>3
  <2> QED BY <2>4 DEF q
<1>4. AsIndex(pairs) = [h \in Hashes(doc) |-> (CHOOSE p \in pairs : p[1] = h)[2]]
  BY <1>2 DEF AsIndex
<1>5. /\ DOMAIN AsIndex(pairs) = Hashes(doc)
      /\ \A h \in Hashes(doc) : \E tokens, start :
           /\ AsIndex(pairs)[h] = [chunk |-> tokens, start |-> start]
           /\ IsChunk(h, tokens, start)
  BY <1>3, <1>4
<1> QED BY <1>5 DEF pairs

\* Registration keeps the two indexes together.
LEMMA RegisterIndex ==
  ASSUME IndexIsOfChunks, NEW doc \in Documents, OnNewTokenHashes(doc)
  PROVE  IndexIsOfChunks' /\ DOMAIN byHash' = DOMAIN byHash \cup Hashes(doc)
<1> DEFINE new == AsIndex(Additions(doc))
           bf == ByFirst(new)
           old == [t \in DOMAIN bf |-> IF t \in DOMAIN byFirst THEN byFirst[t] ELSE <<>>]
<1>1. /\ DOMAIN new = Hashes(doc)
      /\ \A h \in Hashes(doc) : \E tokens, start :
           new[h] = [chunk |-> tokens, start |-> start] /\ IsChunk(h, tokens, start)
  BY AdditionsFacts
<1>2. byHash' = Merged(new, byHash)
      /\ byFirst' = Merged([t \in DOMAIN bf |-> Merged(bf[t], old[t])], byFirst)
  BY DEF OnNewTokenHashes
<1>3. Groups(bf, new) /\ Groups(byFirst, byHash)
  BY ByFirstGroups DEF IndexIsOfChunks
<1> HIDE DEF new, bf
<1>4. \A h \in DOMAIN new \cap DOMAIN byHash : new[h] = byHash[h]
  <2> SUFFICES ASSUME NEW h \in DOMAIN new \cap DOMAIN byHash
               PROVE  new[h] = byHash[h]
    OBVIOUS
  <2>1. PICK t, x : new[h] = [chunk |-> t, start |-> x] /\ IsChunk(h, t, x)
    BY <1>1
  <2>2. PICK u, y : byHash[h] = [chunk |-> u, start |-> y] /\ IsChunk(h, u, y)
    BY DEF IndexIsOfChunks
  <2> QED BY <2>1, <2>2, ChunkIsUnique
<1>5. /\ DOMAIN byHash' = DOMAIN byHash \cup Hashes(doc)
      /\ \A h \in DOMAIN new : byHash'[h] = new[h]
      /\ \A h \in DOMAIN byHash : byHash'[h] = byHash[h]
      /\ byHash' = [h \in DOMAIN byHash' |-> byHash'[h]]
  BY <1>1, <1>2, <1>4 DEF Merged
<1>6. byFirst' = ByFirst(byHash')
  <2>1. old = [t \in DOMAIN bf |-> IF t \in DOMAIN byFirst THEN byFirst[t] ELSE <<>>]
    OBVIOUS
  <2> HIDE DEF old
  <2>2. Groups(byFirst', byHash')
    BY <1>2, <1>3, <1>4, <2>1, ByFirstMerged
  <2>3. Groups(ByFirst(byHash'), byHash')
    BY ByFirstGroups
  <2> QED BY <2>2, <2>3, GroupsUnique
<1>7. \A h \in DOMAIN byHash' : \E tokens, start :
        byHash'[h] = [chunk |-> tokens, start |-> start] /\ IsChunk(h, tokens, start)
  <2> SUFFICES ASSUME NEW h \in DOMAIN byHash'
               PROVE  \E tokens, start : byHash'[h] = [chunk |-> tokens, start |-> start]
                                           /\ IsChunk(h, tokens, start)
    OBVIOUS
  <2>1. CASE h \in Hashes(doc)
    BY <1>1, <1>5, <2>1
  <2>2. CASE h \in DOMAIN byHash
    BY <1>5, <2>2 DEF IndexIsOfChunks
  <2> QED BY <1>5, <2>1, <2>2
<1> QED BY <1>5, <1>6, <1>7 DEF IndexIsOfChunks, IsChunk

\* So does removal.
LEMMA RemoveIndex ==
  ASSUME IndexIsOfChunks, NEW S, RemoveChunks(S)
  PROVE  IndexIsOfChunks' /\ DOMAIN byHash' = DOMAIN byHash \ S
<1>1. /\ byHash' = Restrict(byHash, DOMAIN byHash \ S)
      /\ byFirst' = [t \in {x \in DOMAIN byFirst : DOMAIN byFirst[x] \ (S \cap DOMAIN byHash) # {}} |->
                       Restrict(byFirst[t], DOMAIN byFirst[t] \ (S \cap DOMAIN byHash))]
  BY DEF RemoveChunks
<1>2. Groups(byFirst, byHash)
  BY ByFirstGroups DEF IndexIsOfChunks
<1>3. byFirst' = ByFirst(byHash')
  <2>1. Groups(byFirst', byHash')
    BY <1>1, <1>2, ByFirstRestricted
  <2>2. Groups(ByFirst(byHash'), byHash')
    BY ByFirstGroups
  <2> QED BY <2>1, <2>2, GroupsUnique
<1>4. /\ DOMAIN byHash' = DOMAIN byHash \ S
      /\ \A h \in DOMAIN byHash \ S : byHash'[h] = byHash[h]
      /\ byHash' = [h \in DOMAIN byHash' |-> byHash'[h]]
  BY <1>1 DEF Restrict
<1>5. \A h \in DOMAIN byHash' : \E tokens, start :
        byHash'[h] = [chunk |-> tokens, start |-> start] /\ IsChunk(h, tokens, start)
  BY <1>4 DEF IndexIsOfChunks
<1> QED BY <1>3, <1>4, <1>5 DEF IndexIsOfChunks, IsChunk

-----------------------------------------------------------------------------
(* Stores.                                                                 *)

\* The empty sequence is the empty index.
LEMMA NothingIndexed == <<>> = [x \in {} |-> x]
OBVIOUS

\* A request that goes on with what it may have registered or copied.
LEMMA JobStep ==
  ASSUME SInv, NEW j \in Jobs, Active(j), NEW job \in JobRecords, job.doc = jobs[j].doc,
         jobs' = [jobs EXCEPT ![j] = Settled(job)],
         job.event => job.committed,
         job.client = "done" => job.registered /\ job.event,
         job.registered => Hashes(job.doc) \subseteq DOMAIN byHash' \cup unfindable',
         DOMAIN byHash \cup unfindable \subseteq DOMAIN byHash' \cup unfindable',
         unfindable' \subseteq AllHashes,
         \A o \in DOMAIN objects' :
           o \in DOMAIN objects \/ (o[2] \in Hashes(job.doc) /\ ~job.event)
  PROVE  JobsProgress' /\ ObjectsAreFindable'
<1>1. jobs \in [Jobs -> JobRecords \cup {None, Over}]
  BY DEF SInv, JobsProgress
<1>2. /\ Settled(job) \in {job, Over}
      /\ Settled(job) = Over => job.registered
      /\ Settled(job) = job => job.client # "done"
  <2>1. job # Over
    BY JobsAssumption
  <2> QED BY <2>1 DEF Settled
<1>3. /\ jobs' \in [Jobs -> JobRecords \cup {None, Over}]
      /\ jobs'[j] = Settled(job)
      /\ \A i \in Jobs \ {j} : jobs'[i] = jobs[i]
  BY <1>1, <1>2
<1>4. \A i \in Jobs \ {j} : Active(i)' <=> Active(i)
  BY <1>3 DEF Active
<1>5. Active(j)' => jobs'[j] = job
  BY <1>2, <1>3 DEF Active
<1>6. Settled(job) = job => Active(j)'
  BY <1>3, JobsAssumption DEF Active
<1>a. JobsProgress'
  BY <1>2, <1>3, <1>4, <1>5 DEF SInv, JobsProgress
<1>b. \A h \in Hashes(job.doc) : h \in DOMAIN byHash' \cup unfindable' \/ InProgress(h)'
  <2> SUFFICES ASSUME NEW h \in Hashes(job.doc), h \notin DOMAIN byHash' \cup unfindable'
               PROVE  InProgress(h)'
    OBVIOUS
  <2>1. Settled(job) = job
    BY <1>2
  <2> QED BY <1>2, <1>3, <1>6, <2>1 DEF InProgress
<1>c. \A h : InProgress(h) => InProgress(h)' \/ h \in DOMAIN byHash' \cup unfindable'
  <2> SUFFICES ASSUME NEW h, NEW i \in Jobs, Active(i), jobs[i].client # "done",
                      h \in Hashes(jobs[i].doc)
               PROVE  InProgress(h)' \/ h \in DOMAIN byHash' \cup unfindable'
    BY DEF InProgress
  <2>1. CASE i = j
    BY <1>b, <2>1
  <2>2. CASE i # j
    BY <1>3, <1>4, <2>2 DEF InProgress
  <2> QED BY <2>1, <2>2
<1>d. \A o \in DOMAIN objects' : o[2] \in DOMAIN byHash' \cup unfindable' \/ InProgress(o[2])'
  <2> SUFFICES ASSUME NEW o \in DOMAIN objects'
               PROVE  o[2] \in DOMAIN byHash' \cup unfindable' \/ InProgress(o[2])'
    OBVIOUS
  <2>1. CASE o \in DOMAIN objects
    <3>1. o[2] \in DOMAIN byHash \cup unfindable \/ InProgress(o[2])
      BY <2>1 DEF SInv, ObjectsAreFindable
    <3> QED BY <1>c, <3>1
  <2>2. CASE o[2] \in Hashes(job.doc)
    BY <1>b, <2>2
  <2> QED BY <2>1, <2>2
<1>e. \A i \in Jobs : Active(i)' /\ jobs'[i].registered =>
        Hashes(jobs'[i].doc) \subseteq DOMAIN byHash' \cup unfindable'
  <2> SUFFICES ASSUME NEW i \in Jobs, Active(i)', jobs'[i].registered
               PROVE  Hashes(jobs'[i].doc) \subseteq DOMAIN byHash' \cup unfindable'
    OBVIOUS
  <2>1. CASE i = j
    BY <1>5, <2>1
  <2>2. CASE i # j
    <3>1. Hashes(jobs[i].doc) \subseteq DOMAIN byHash \cup unfindable
      BY <1>3, <1>4, <2>2 DEF SInv, ObjectsAreFindable
    <3> QED BY <1>3, <2>2, <3>1
  <2> QED BY <2>1, <2>2
<1> QED BY <1>a, <1>d, <1>e DEF ObjectsAreFindable

\* What the engine of ns computed for a document are its chunks.
LEMMA ComputedFacts ==
  ASSUME NEW ns \in Namespaces, NEW doc \in Documents, NEW o \in DOMAIN Computed(ns, doc)
  PROVE  \E h \in Hashes(doc) : \E tokens, start :
           /\ o = <<ns, h>> /\ IsChunk(h, tokens, start)
           /\ Computed(ns, doc)[o] = [tokens |-> tokens, position |-> start]
<1>1. PICK h \in Hashes(doc) : o = <<ns, h>>
  BY DEF Computed
<1> DEFINE k == CHOOSE i \in 1..ChunkCount(doc) : h = Hash(doc, i)
<1>2. k \in 1..ChunkCount(doc) /\ h = Hash(doc, k)
  BY DEF Hashes
<1>3. Computed(ns, doc)[o] = [tokens |-> Chunk(doc, k), position |-> Start(k)]
  <2>1. o[2] = h
    BY <1>1
  <2> QED BY <2>1 DEF Computed
<1> HIDE DEF k
<1>4. IsChunk(h, Chunk(doc, k), Start(k))
  BY <1>2 DEF IsChunk
<1> QED BY <1>1, <1>3, <1>4

-----------------------------------------------------------------------------
(* The stores agree.                                                       *)

\* The stores start empty.
LEMMA StoresInit == Init => SInv
<1> SUFFICES ASSUME Init PROVE SInv
  OBVIOUS
<1>1. DOMAIN byHash = {} /\ byHash = [h \in DOMAIN byHash |-> byHash[h]]
  BY DEF Init
<1>2. byFirst = ByFirst(byHash)
  BY <1>1, NothingIndexed DEF Init, ByFirst
<1>3. DOMAIN objects = {}
  BY DEF Init
<1> QED BY <1>1, <1>2, <1>3
  DEF Init, SInv, IndexIsOfChunks, ObjectsAreChunks, SidecarIsOfDocuments, JobsProgress,
      ObjectsAreFindable, Active

\* Every step of a worker, a scheduler or the server keeps the stores together.
LEMMA StoresStep ==
  ASSUME SInv, [Next]_vars
  PROVE  SInv'
<1>t. jobs \in [Jobs -> JobRecords \cup {None, Over}]
  BY DEF SInv, JobsProgress
\* The active requests.
<1>j. ASSUME NEW j \in Jobs, Active(j)
      PROVE  /\ jobs[j] \in JobRecords /\ jobs[j].ns \in Namespaces
             /\ jobs[j].doc \in Documents
             /\ jobs[j].client # "done" /\ (jobs[j].event => jobs[j].committed)
             /\ Hashes(jobs[j].doc) \subseteq AllHashes
             /\ jobs[j].registered =>
                  Hashes(jobs[j].doc) \subseteq DOMAIN byHash \cup unfindable
  <2>1. jobs[j] \in JobRecords
    BY <1>t, <1>j DEF Active
  <2>2. jobs[j].ns \in Namespaces /\ jobs[j].doc \in Documents
    BY <2>1 DEF JobRecords
  <2> QED BY <1>j, <2>1, <2>2 DEF SInv, JobsProgress, ObjectsAreFindable, AllHashes
<1>u. unfindable \subseteq AllHashes
  BY DEF SInv, ObjectsAreFindable
<1>i. UNCHANGED <<byHash, byFirst>> => IndexIsOfChunks'
  BY DEF SInv, IndexIsOfChunks, IsChunk
<1>o. UNCHANGED objects => ObjectsAreChunks'
  BY DEF SInv, ObjectsAreChunks, IsChunk
<1>s. UNCHANGED sidecar => SidecarIsOfDocuments'
  BY DEF SInv, SidecarIsOfDocuments
<1>q. UNCHANGED jobs => JobsProgress' /\ \A h : InProgress(h)' <=> InProgress(h)
  BY DEF SInv, JobsProgress, Active, InProgress
<1>1. ASSUME NEW j \in Jobs, NEW ns \in Namespaces, NEW doc \in Documents,
             StorePrecomputed(j, ns, doc)
      PROVE  SInv'
  <2> DEFINE job == [ns |-> ns, doc |-> doc, registered |-> FALSE, committed |-> FALSE,
                     event |-> FALSE, client |-> "waits"]
  <2>1. /\ job \in JobRecords /\ job.client = "waits" /\ ~job.registered /\ ~job.event
    BY DEF JobRecords
  <2>2. /\ jobs[j] = None /\ jobs' = [jobs EXCEPT ![j] = job]
        /\ UNCHANGED <<byHash, byFirst, objects, sidecar, unfindable>>
    BY <1>1 DEF StorePrecomputed
  <2> HIDE DEF job
  <2>3. /\ jobs' \in [Jobs -> JobRecords \cup {None, Over}] /\ jobs'[j] = job
        /\ \A i \in Jobs \ {j} : jobs'[i] = jobs[i]
    BY <1>t, <2>1, <2>2
  <2>4. ~Active(j) /\ \A i \in Jobs \ {j} : Active(i)' <=> Active(i)
    BY <2>2, <2>3 DEF Active
  <2>5. JobsProgress'
    BY <2>1, <2>3, <2>4 DEF SInv, JobsProgress
  <2>6. \A h : InProgress(h) => InProgress(h)'
    BY <2>3, <2>4 DEF InProgress
  <2>7. ObjectsAreFindable'
    BY <2>1, <2>2, <2>3, <2>4, <2>6 DEF SInv, ObjectsAreFindable
  <2> QED BY <2>2, <2>5, <2>7, <1>i, <1>o, <1>s DEF SInv
<1>2. ASSUME NEW j \in Jobs, Register(j)
      PROVE  SInv'
  <2> DEFINE job == [jobs[j] EXCEPT !.registered = TRUE]
  <2>1. Active(j) /\ OnNewTokenHashes(jobs[j].doc)
        /\ unfindable' = unfindable \ Hashes(jobs[j].doc)
        /\ jobs' = [jobs EXCEPT ![j] = Settled(job)]
        /\ UNCHANGED <<objects, sidecar>>
    BY <1>2 DEF Register
  <2>2. IndexIsOfChunks' /\ DOMAIN byHash' = DOMAIN byHash \cup Hashes(jobs[j].doc)
    BY <1>j, <2>1, RegisterIndex DEF SInv
  <2>3. /\ job \in JobRecords /\ job.doc = jobs[j].doc /\ job.client = jobs[j].client
        /\ job.event = jobs[j].event /\ job.committed = jobs[j].committed
    BY <1>j, <2>1 DEF JobRecords
  <2> HIDE DEF job
  <2>4. JobsProgress' /\ ObjectsAreFindable'
    BY <1>j, <1>u, <2>1, <2>2, <2>3, JobStep
  <2> QED BY <2>1, <2>2, <2>4, <1>o, <1>s DEF SInv
<1>3. ASSUME NEW j \in Jobs, RegisterRaises(j)
      PROVE  SInv'
  <2>1. /\ Active(j) /\ unfindable' = unfindable \cup (Hashes(jobs[j].doc) \ DOMAIN byHash)
        /\ jobs' = [jobs EXCEPT ![j] = Over]
        /\ UNCHANGED <<byHash, byFirst, objects, sidecar>>
    BY <1>3 DEF RegisterRaises
  <2>2. /\ jobs' \in [Jobs -> JobRecords \cup {None, Over}] /\ jobs'[j] = Over
        /\ \A i \in Jobs \ {j} : jobs'[i] = jobs[i]
    BY <1>t, <2>1
  <2>3. ~Active(j)' /\ \A i \in Jobs \ {j} : Active(i)' <=> Active(i)
    BY <2>2 DEF Active
  <2>4. JobsProgress'
    BY <2>2, <2>3 DEF SInv, JobsProgress
  <2>5. \A h : InProgress(h) => InProgress(h)' \/ h \in DOMAIN byHash' \cup unfindable'
    BY <2>1, <2>2, <2>3 DEF InProgress
  <2>6. unfindable' \subseteq AllHashes
    BY <1>j, <1>u, <2>1
  <2>7. ObjectsAreFindable'
    BY <2>1, <2>2, <2>3, <2>5, <2>6 DEF SInv, ObjectsAreFindable
  <2> QED BY <2>1, <2>4, <2>7, <1>i, <1>o, <1>s DEF SInv
<1>4. ASSUME NEW j \in Jobs, FinishWrite(j)
      PROVE  SInv'
  <2> DEFINE job == [jobs[j] EXCEPT !.committed = TRUE]
             computed == Computed(jobs[j].ns, jobs[j].doc)
  <2>1. /\ Active(j) /\ ~jobs[j].committed
        /\ jobs' = [jobs EXCEPT ![j] = Settled(job)]
        /\ UNCHANGED <<byHash, byFirst, sidecar, unfindable>>
    BY <1>4 DEF FinishWrite
  <2>2. PICK reserved \in SUBSET (DOMAIN computed \ DOMAIN objects) :
          objects' = Merged(Restrict(computed, reserved), objects)
    BY <1>4 DEF FinishWrite
  <2>3. /\ job \in JobRecords /\ job.doc = jobs[j].doc /\ job.client = jobs[j].client
        /\ job.event = jobs[j].event /\ job.registered = jobs[j].registered /\ job.committed
    BY <1>j, <2>1 DEF JobRecords
  <2>4. \A o \in DOMAIN computed : \E h \in Hashes(jobs[j].doc) : \E tokens, start :
          /\ o = <<jobs[j].ns, h>> /\ IsChunk(h, tokens, start)
          /\ computed[o] = [tokens |-> tokens, position |-> start]
    BY <1>j, <2>1, ComputedFacts
  <2> HIDE DEF job, computed
  <2>5. /\ DOMAIN objects' = reserved \cup DOMAIN objects
        /\ \A o \in reserved : objects'[o] = computed[o]
        /\ \A o \in DOMAIN objects : objects'[o] = objects[o]
    BY <2>2 DEF Merged, Restrict
  <2>6. \A o \in DOMAIN objects' :
          o \in DOMAIN objects \/ (o[2] \in Hashes(job.doc) /\ ~job.event)
    BY <1>j, <2>1, <2>3, <2>4, <2>5
  <2>7. JobsProgress' /\ ObjectsAreFindable'
    BY <1>j, <1>u, <2>1, <2>3, <2>6, JobStep
  <2>8. ObjectsAreChunks'
    <3> SUFFICES ASSUME NEW o \in DOMAIN objects'
                 PROVE  \E ns \in Namespaces : \E h, tokens, start :
                          /\ o = <<ns, h>> /\ IsChunk(h, tokens, start)
                          /\ objects'[o] = [tokens |-> tokens, position |-> start]
      BY DEF ObjectsAreChunks, IsChunk
    <3>1. CASE o \in reserved
      BY <1>j, <2>1, <2>4, <2>5, <3>1
    <3>2. CASE o \in DOMAIN objects
      BY <2>5, <3>2 DEF SInv, ObjectsAreChunks
    <3> QED BY <2>5, <3>1, <3>2
  <2> QED BY <2>1, <2>7, <2>8, <1>i, <1>s DEF SInv
<1>5. ASSUME NEW j \in Jobs, RecordEvent(j)
      PROVE  SInv'
  <2> DEFINE job == [jobs[j] EXCEPT !.event = TRUE]
  <2>1. /\ Active(j) /\ jobs[j].committed
        /\ jobs' = [jobs EXCEPT ![j] = Settled(job)]
        /\ UNCHANGED <<byHash, byFirst, objects, sidecar, unfindable>>
    BY <1>5 DEF RecordEvent, Recordable
  <2>2. /\ job \in JobRecords /\ job.doc = jobs[j].doc /\ job.client = jobs[j].client
        /\ job.registered = jobs[j].registered /\ job.committed = jobs[j].committed
    BY <1>j, <2>1 DEF JobRecords
  <2> HIDE DEF job
  <2>3. JobsProgress' /\ ObjectsAreFindable'
    BY <1>j, <1>u, <2>1, <2>2, JobStep
  <2> QED BY <2>1, <2>3, <1>i, <1>o, <1>s DEF SInv
<1>6. ASSUME NEW j \in Jobs, PublishSidecarRecords(j)
      PROVE  SInv'
  <2> DEFINE job == [jobs[j] EXCEPT !.client = "done"]
  <2>1. /\ Active(j) /\ jobs[j].registered /\ jobs[j].event
        /\ sidecar' \in {sidecar, sidecar \cup Records(jobs[j].ns, jobs[j].doc)}
        /\ jobs' = [jobs EXCEPT ![j] = Settled(job)]
        /\ UNCHANGED <<byHash, byFirst, objects, unfindable>>
    BY <1>6 DEF PublishSidecarRecords, AddMany
  <2>2. /\ job \in JobRecords /\ job.doc = jobs[j].doc /\ job.event = jobs[j].event
        /\ job.registered = jobs[j].registered /\ job.committed = jobs[j].committed
    BY <1>j, <2>1 DEF JobRecords
  <2> HIDE DEF job
  <2>3. JobsProgress' /\ ObjectsAreFindable'
    BY <1>j, <1>u, <2>1, <2>2, JobStep
  <2>4. SidecarIsOfDocuments'
    <3>1. jobs[j].ns \in Namespaces /\ jobs[j].doc \in Documents
      BY <1>j, <2>1
    <3> QED BY <2>1, <3>1 DEF SInv, SidecarIsOfDocuments
  <2> QED BY <2>1, <2>3, <2>4, <1>i, <1>o DEF SInv
<1>7. ASSUME NEW j \in Jobs, StoreTimesOut(j)
      PROVE  SInv'
  <2> DEFINE job == [jobs[j] EXCEPT !.client = "gone"]
  <2>1. /\ Active(j) /\ jobs' = [jobs EXCEPT ![j] = Settled(job)]
        /\ UNCHANGED <<byHash, byFirst, objects, sidecar, unfindable>>
    BY <1>7 DEF StoreTimesOut
  <2>2. /\ job \in JobRecords /\ job.doc = jobs[j].doc /\ job.event = jobs[j].event
        /\ job.registered = jobs[j].registered /\ job.committed = jobs[j].committed
        /\ job.client = "gone"
    BY <1>j, <2>1 DEF JobRecords
  <2> HIDE DEF job
  <2>3. JobsProgress' /\ ObjectsAreFindable'
    BY <1>j, <1>u, <2>1, <2>2, JobStep
  <2> QED BY <2>1, <2>3, <1>i, <1>o, <1>s DEF SInv
<1>8. CASE UNCHANGED <<byHash, byFirst, objects, sidecar, jobs, unfindable>>
  <2>1. ObjectsAreFindable'
    BY <1>8, <1>q DEF SInv, ObjectsAreFindable, Active
  <2> QED BY <1>8, <2>1, <1>i, <1>o, <1>s, <1>q DEF SInv
<1>9. ASSUME NEW ns \in Namespaces, Probe(ns)
      PROVE  SInv'
  <2> DEFINE found == lookups[ns].found
             resident == {m \in found : <<ns, m.key>> \in DOMAIN objects}
             stale == {m.key : m \in found \ resident}
  <2>1. /\ RemoveChunks(stale)
        /\ unfindable' = unfindable \cup {h \in stale : InProgress(h) \/ ResidentElsewhere(ns, h)}
        /\ UNCHANGED <<objects, sidecar, jobs>>
    BY <1>9 DEF Probe
  <2>2. \A h \in stale : <<ns, h>> \notin DOMAIN objects
    OBVIOUS
  <2> HIDE DEF stale
  <2>3. IndexIsOfChunks' /\ DOMAIN byHash' = DOMAIN byHash \ stale
    BY <2>1, RemoveIndex DEF SInv
  <2>4. unfindable' \subseteq AllHashes
    <3>1. \A h : InProgress(h) => h \in AllHashes
      BY <1>j DEF InProgress
    <3>2. \A h : ResidentElsewhere(ns, h) => h \in AllHashes
      <4> SUFFICES ASSUME NEW h, NEW n \in Namespaces, <<n, h>> \in DOMAIN objects
                   PROVE  h \in AllHashes
        BY DEF ResidentElsewhere
      <4>1. PICK m, g, tokens, start :
              m \in Namespaces /\ <<n, h>> = <<m, g>> /\ IsChunk(g, tokens, start)
        BY DEF SInv, ObjectsAreChunks
      <4> QED BY <4>1, ChunkHasHash
    <3> QED BY <1>u, <2>1, <3>1, <3>2
  <2>5. \A o \in DOMAIN objects : o[2] \in DOMAIN byHash' \cup unfindable' \/ InProgress(o[2])'
    <3> SUFFICES ASSUME NEW o \in DOMAIN objects, ~InProgress(o[2])
                 PROVE  o[2] \in DOMAIN byHash' \cup unfindable'
      BY <1>q, <2>1
    <3>1. o[2] \in DOMAIN byHash \cup unfindable
      BY DEF SInv, ObjectsAreFindable
    <3>2. PICK n, h : n \in Namespaces /\ o = <<n, h>>
      BY DEF SInv, ObjectsAreChunks
    <3>3. o[2] = h
      BY <3>2
    <3>4. h \in stale => ResidentElsewhere(ns, h)
      BY <2>2, <3>2 DEF ResidentElsewhere
    <3> QED BY <2>1, <2>3, <3>1, <3>3, <3>4
  <2>6. \A i \in Jobs : Active(i) /\ jobs[i].registered =>
          Hashes(jobs[i].doc) \subseteq DOMAIN byHash' \cup unfindable'
    <3> SUFFICES ASSUME NEW i \in Jobs, Active(i), jobs[i].registered,
                        NEW h \in Hashes(jobs[i].doc)
                 PROVE  h \in DOMAIN byHash' \cup unfindable'
      OBVIOUS
    <3>1. h \in DOMAIN byHash \cup unfindable /\ InProgress(h)
      BY <1>j DEF InProgress
    <3> QED BY <2>1, <2>3, <3>1
  <2>7. ObjectsAreFindable'
    BY <2>1, <2>4, <2>5, <2>6 DEF ObjectsAreFindable, Active
  <2> QED BY <2>1, <2>3, <2>7, <1>o, <1>s, <1>q DEF SInv
<1>10. ASSUME NEW object \in DOMAIN objects, Evict(object)
       PROVE  SInv'
  <2>1. /\ objects' = Restrict(objects, DOMAIN objects \ {object})
        /\ UNCHANGED <<byHash, byFirst, sidecar, jobs, unfindable>>
    BY <1>10 DEF Evict
  <2>2. DOMAIN objects' = DOMAIN objects \ {object}
        /\ \A o \in DOMAIN objects' : objects'[o] = objects[o]
    BY <2>1 DEF Restrict
  <2>3. ObjectsAreChunks'
    BY <2>2 DEF SInv, ObjectsAreChunks, IsChunk
  <2>4. ObjectsAreFindable'
    BY <2>1, <2>2, <1>q DEF SInv, ObjectsAreFindable, Active
  <2> QED BY <2>1, <2>3, <2>4, <1>i, <1>s, <1>q DEF SInv
<1>11. CASE ServerRestart
  <2>1. byHash' = <<>> /\ byFirst' = <<>> /\ objects' = <<>> /\ unfindable' = {}
        /\ jobs' = [j \in Jobs |-> IF Active(j) THEN Over ELSE jobs[j]]
        /\ UNCHANGED sidecar
    BY <1>11 DEF ServerRestart
  <2>2. DOMAIN byHash' = {} /\ byHash' = [h \in DOMAIN byHash' |-> byHash'[h]]
        /\ DOMAIN objects' = {}
    BY <2>1
  <2>3. byFirst' = ByFirst(byHash')
    BY <2>1, <2>2, NothingIndexed DEF ByFirst
  <2>4. IndexIsOfChunks' /\ ObjectsAreChunks'
    BY <2>2, <2>3 DEF IndexIsOfChunks, ObjectsAreChunks
  <2>5. jobs' \in [Jobs -> JobRecords \cup {None, Over}] /\ \A j \in Jobs : ~Active(j)'
    BY <1>t, <2>1 DEF Active
  <2>6. JobsProgress' /\ ObjectsAreFindable'
    BY <2>1, <2>2, <2>5 DEF JobsProgress, ObjectsAreFindable
  <2> QED BY <2>1, <2>4, <2>6, <1>s DEF SInv
<1>12. ASSUME NEW ns \in Namespaces, VerifyCandidates(ns) \/ RetrievePrecomputed(ns) \/ Forget(ns)
       PROVE  SInv'
  BY <1>8, <1>12 DEF VerifyCandidates, RetrievePrecomputed, Forget
<1>13. ASSUME NEW ns \in Namespaces, NEW prompt \in Prompts, Match(ns, prompt)
       PROVE  SInv'
  BY <1>8, <1>13 DEF Match
<1>14. CASE UNCHANGED vars
  BY <1>8, <1>14 DEF vars
<1> QED
  BY <1>1, <1>2, <1>3, <1>4, <1>5, <1>6, <1>7, <1>9, <1>10, <1>11, <1>12, <1>13, <1>14
     DEF Next

\* The stores agree whatever is stored, lost, evicted or restarted.
THEOREM StoresAgree == Spec => []SInv
<1>1. SInv /\ [Next]_vars => SInv'
  BY StoresStep
<1> QED BY StoresInit, <1>1, PTL DEF Spec

\* A record and the object its key finds are of the same chunk.
LEMMA RecordDescribesObject ==
  ASSUME SInv, NEW r \in sidecar, <<r.ns, r.key>> \in DOMAIN objects
  PROVE  objects[<<r.ns, r.key>>] = [tokens |-> r.tokens, position |-> r.source]
<1>1. PICK n \in Namespaces, doc \in Documents : r \in Records(n, doc)
  BY DEF SInv, SidecarIsOfDocuments
<1>2. IsChunk(r.key, r.tokens, r.source)
  BY <1>1, RecordFacts
<1>3. PICK ns, h, tokens, start :
        /\ ns \in Namespaces /\ <<r.ns, r.key>> = <<ns, h>> /\ IsChunk(h, tokens, start)
        /\ objects[<<r.ns, r.key>>] = [tokens |-> tokens, position |-> start]
  BY DEF SInv, ObjectsAreChunks
<1>4. h = r.key
  BY <1>3
<1>5. tokens = r.tokens /\ start = r.source
  BY <1>2, <1>3, <1>4, ChunkIsUnique
<1> QED BY <1>3, <1>5

\* A sidecar record describes the object its key finds, in every state in which
\* the server has one, and the stores are of their types.
THEOREM RecordsAlwaysDescribeObjects == Spec => []RecordsDescribeObjects
<1>1. SInv => RecordsDescribeObjects
  <2> SUFFICES ASSUME SInv PROVE RecordsDescribeObjects
    OBVIOUS
  <2>1. ASSUME NEW r \in sidecar
        PROVE  /\ r.ns \in Namespaces /\ IsChunk(r.key, r.tokens, r.source)
               /\ r.key \in AllHashes
               /\ \E d \in Documents : r.source + ChunkSize <= Len(d)
    <3>1. PICK ns \in Namespaces, doc \in Documents : r \in Records(ns, doc)
      BY DEF SInv, SidecarIsOfDocuments
    <3>2. /\ r.ns = ns /\ IsChunk(r.key, r.tokens, r.source)
          /\ r.key \in Hashes(doc) /\ r.source + ChunkSize <= Len(doc)
      BY <3>1, RecordFacts
    <3> QED BY <3>2 DEF AllHashes
  <2>2. ASSUME NEW o \in DOMAIN objects
        PROVE  o \in Namespaces \X AllHashes
    <3>1. PICK ns, h, tokens, start :
            ns \in Namespaces /\ o = <<ns, h>> /\ IsChunk(h, tokens, start)
      BY DEF SInv, ObjectsAreChunks
    <3> QED BY <3>1, ChunkHasHash
  <2>3. DOMAIN byHash \subseteq AllHashes
    BY ChunkHasHash DEF SInv, IndexIsOfChunks
  <2>4. TypeOK
    BY <2>1, <2>2, <2>3 DEF TypeOK, SInv, JobsProgress, ObjectsAreFindable
  <2>5. ASSUME NEW r \in sidecar, <<r.ns, r.key>> \in DOMAIN objects
        PROVE  objects[<<r.ns, r.key>>] = [tokens |-> r.tokens, position |-> r.source]
    BY <2>5, RecordDescribesObject
  <2> QED BY <2>4, <2>5 DEF RecordsDescribeObjects
<1> QED BY <1>1, StoresAgree, PTL

\* The records of a document are published together or not at all.
THEOREM PublicationIsAlwaysAtomic == Spec => []PublicationIsAtomic
<1>1. SInv => PublicationIsAtomic
  <2> SUFFICES ASSUME SInv, NEW r \in sidecar
               PROVE  \E doc \in Documents :
                        r \in Records(r.ns, doc) /\ Records(r.ns, doc) \subseteq sidecar
    BY DEF PublicationIsAtomic
  <2>1. PICK ns \in Namespaces, doc \in Documents :
          r \in Records(ns, doc) /\ Records(ns, doc) \subseteq sidecar
    BY DEF SInv, SidecarIsOfDocuments
  <2>2. r.ns = ns
    BY <2>1, RecordFacts
  <2> QED BY <2>1, <2>2
<1> QED BY <1>1, StoresAgree, PTL

\* A resident, published chunk is found by a lookup, but for the exceptions the
\* history names; and the matcher's two indexes never part.
THEOREM StoredIsAlwaysFindable == Spec => []StoredIsFindable
<1>1. SInv => StoredIsFindable
  <2> SUFFICES ASSUME SInv, NEW r \in sidecar, <<r.ns, r.key>> \in DOMAIN objects,
                      ~InProgress(r.key), r.key \notin unfindable
               PROVE  r.key \in DOMAIN byHash
    BY DEF StoredIsFindable, SInv, IndexIsOfChunks
  <2>1. <<r.ns, r.key>>[2] = r.key
    OBVIOUS
  <2> QED BY <2>1 DEF SInv, ObjectsAreFindable
<1> QED BY <1>1, StoresAgree, PTL

-----------------------------------------------------------------------------
(* Lookups.  A response lists the candidates it was made from: Sorted takes *)
(* the one with k - 1 before it, and there is one for every k.              *)

Candidate == [start : Nat, source : Nat, key : Nat]

\* The order of a response.
Precedes(a, b) == LessKey(<<a.start, a.source, a.key>>, <<b.start, b.source, b.key>>)

\* On three numbers Python's order of tuples is the lexicographic order.
LEMMA TupleOrder ==
  ASSUME NEW a \in Nat, NEW b \in Nat, NEW c \in Nat, NEW d \in Nat, NEW e \in Nat, NEW f \in Nat
  PROVE  LessKey(<<a, b, c>>, <<d, e, f>>) <=>
           a < d \/ (a = d /\ b < e) \/ (a = d /\ b = e /\ c < f)
<1> DEFINE s == <<a, b, c>>
           t == <<d, e, f>>
<1>1. Len(s) = 3 /\ Len(t) = 3 /\ s[1] = a /\ s[2] = b /\ s[3] = c /\ t[1] = d /\ t[2] = e /\ t[3] = f
  OBVIOUS
<1> HIDE DEF s, t
<1>2. LessKey(s, t) <=>
        \E i \in 1..3 : (\A j \in 1..(i - 1) : j <= 3 /\ s[j] = t[j]) /\ (i > 3 \/ s[i] < t[i])
  BY <1>1 DEF LessKey, Lexicographic, LessNat
<1>3. ASSUME NEW i \in 1..3
      PROVE  /\ i = 1 => (\A j \in 1..(i - 1) : j <= 3 /\ s[j] = t[j])
             /\ i = 2 => ((\A j \in 1..(i - 1) : j <= 3 /\ s[j] = t[j]) <=> a = d)
             /\ i = 3 => ((\A j \in 1..(i - 1) : j <= 3 /\ s[j] = t[j]) <=> a = d /\ b = e)
  <2>1. CASE i = 1
    BY <2>1
  <2>2. CASE i = 2
    BY <1>1, <2>2
  <2>3. CASE i = 3
    BY <1>1, <2>3
  <2> QED BY <2>1, <2>2, <2>3
<1>4. LessKey(s, t) <=> s[1] < t[1] \/ (a = d /\ s[2] < t[2]) \/ (a = d /\ b = e /\ s[3] < t[3])
  <2>1. ASSUME LessKey(s, t)
        PROVE  s[1] < t[1] \/ (a = d /\ s[2] < t[2]) \/ (a = d /\ b = e /\ s[3] < t[3])
    <3>1. PICK i \in 1..3 : (\A j \in 1..(i - 1) : j <= 3 /\ s[j] = t[j]) /\ (i > 3 \/ s[i] < t[i])
      BY <1>2, <2>1
    <3>2. i = 1 \/ i = 2 \/ i = 3
      OBVIOUS
    <3> QED BY <1>3, <3>1, <3>2
  <2>2. ASSUME s[1] < t[1] PROVE LessKey(s, t)
    BY <1>2, <1>3, <2>2
  <2>3. ASSUME a = d /\ s[2] < t[2] PROVE LessKey(s, t)
    BY <1>2, <1>3, <2>3
  <2>4. ASSUME a = d /\ b = e /\ s[3] < t[3] PROVE LessKey(s, t)
    BY <1>2, <1>3, <2>4
  <2> QED BY <2>1, <2>2, <2>3, <2>4
<1> QED BY <1>1, <1>4 DEF s, t

\* It is a strict total order of candidates.
LEMMA OrderOfCandidates ==
  /\ \A a \in Candidate : ~Precedes(a, a)
  /\ \A a, b, c \in Candidate : Precedes(a, b) /\ Precedes(b, c) => Precedes(a, c)
  /\ \A a, b \in Candidate : a # b => Precedes(a, b) \/ Precedes(b, a)
<1>1. \A a, b \in Candidate : Precedes(a, b) <=>
        \/ a.start < b.start
        \/ a.start = b.start /\ a.source < b.source
        \/ a.start = b.start /\ a.source = b.source /\ a.key < b.key
  BY TupleOrder DEF Precedes, Candidate
<1>2. \A a \in Candidate : a.start \in Nat /\ a.source \in Nat /\ a.key \in Nat
  BY DEF Candidate
<1>3. \A a, b \in Candidate :
        a.start = b.start /\ a.source = b.source /\ a.key = b.key => a = b
  BY DEF Candidate
<1>4. \A a \in Candidate : ~Precedes(a, a)
  BY <1>1, <1>2
<1>5. \A a, b, c \in Candidate : Precedes(a, b) /\ Precedes(b, c) => Precedes(a, c)
  BY <1>1, <1>2
<1>6. \A a, b \in Candidate : a # b => Precedes(a, b) \/ Precedes(b, a)
  BY <1>1, <1>2, <1>3
<1> QED BY <1>4, <1>5, <1>6

\* In a strict total order of a finite set, given by what is ahead of each of its
\* elements, there is one element of every rank.
LEMMA EveryRankIsTaken ==
  ASSUME NEW S, IsFiniteSet(S), NEW ahead \in [S -> SUBSET S],
         \A m \in S : m \notin ahead[m],
         \A m, n \in S : m # n => \/ m \in ahead[n] /\ ahead[m] \subseteq ahead[n]
                                  \/ n \in ahead[m] /\ ahead[n] \subseteq ahead[m]
  PROVE  \A k \in 1..Cardinality(S) : \E m \in S : Cardinality(ahead[m]) = k - 1
<1> DEFINE N == Cardinality(S)
           rank == [m \in S |-> Cardinality(ahead[m])]
<1>1. N \in Nat
  BY FS_CardinalityType
<1>2. ASSUME NEW m \in S
      PROVE  /\ IsFiniteSet(ahead[m]) /\ Cardinality(ahead[m]) \in Nat
             /\ Cardinality(ahead[m]) < N
  <2>1. ahead[m] \in SUBSET S /\ m \notin ahead[m]
    OBVIOUS
  <2>2. /\ IsFiniteSet(ahead[m]) /\ Cardinality(ahead[m]) <= N
        /\ N = Cardinality(ahead[m]) => S = ahead[m]
    BY <2>1, FS_Subset
  <2>3. Cardinality(ahead[m]) \in Nat
    BY <2>2, FS_CardinalityType
  <2> HIDE DEF N
  <2> QED BY <1>1, <2>1, <2>2, <2>3
<1>3. ASSUME NEW m \in S, NEW n \in S, m \in ahead[n], ahead[m] \subseteq ahead[n]
      PROVE  Cardinality(ahead[m]) # Cardinality(ahead[n])
  BY <1>2, <1>3, FS_Subset
<1>4. rank \in [S -> 0..(N - 1)]
  BY <1>1, <1>2
<1>5. \A m, n \in S : rank[m] = rank[n] => m = n
  <2> SUFFICES ASSUME NEW m \in S, NEW n \in S, m # n PROVE rank[m] # rank[n]
    OBVIOUS
  <2> QED BY <1>3
<1>6. rank \in Injection(S, 0..(N - 1))
  <2> HIDE DEF rank, N
  <2>1. DOMAIN rank = S
    BY <1>4
  <2> QED BY <1>4, <1>5, <2>1 DEF Injection, IsInjective
<1>7. IsFiniteSet(0..(N - 1)) /\ Cardinality(0..(N - 1)) = N
  <2> HIDE DEF N
  <2> QED BY <1>1, FS_Interval
<1>8. rank \in Surjection(S, 0..(N - 1))
  <2> HIDE DEF rank
  <2> QED BY <1>6, <1>7, FS_Injection
<1> SUFFICES ASSUME NEW k \in 1..N PROVE \E m \in S : Cardinality(ahead[m]) = k - 1
  OBVIOUS
<1>9. k - 1 \in 0..(N - 1)
  BY <1>1
<1>10. PICK m \in S : rank[m] = k - 1
  BY <1>8, <1>9 DEF Surjection
<1> QED BY <1>10

\* Every place of a response is taken by one of its candidates.
LEMMA ResponseLists ==
  ASSUME NEW S, IsFiniteSet(S), S \subseteq Candidate
  PROVE  /\ DOMAIN Response(S) = 1..Cardinality(S)
         /\ \A k \in 1..Cardinality(S) : Response(S)[k] \in S
<1> DEFINE ahead == [m \in S |-> {j \in S : Precedes(j, m)}]
<1>1. \A m \in S : ahead[m] = {j \in S : Precedes(j, m)}
  OBVIOUS
<1>2. ahead \in [S -> SUBSET S]
  OBVIOUS
<1> HIDE DEF ahead
<1>3. \A m \in S : m \notin ahead[m]
  BY <1>1, OrderOfCandidates
<1>4. \A m, n \in S : m # n => \/ m \in ahead[n] /\ ahead[m] \subseteq ahead[n]
                               \/ n \in ahead[m] /\ ahead[n] \subseteq ahead[m]
  BY <1>1, OrderOfCandidates
<1>5. \A k \in 1..Cardinality(S) : \E m \in S : Cardinality(ahead[m]) = k - 1
  BY <1>2, <1>3, <1>4, EveryRankIsTaken
<1>6. Response(S) = [k \in 1..Cardinality(S) |->
                       CHOOSE m \in S : Cardinality({j \in S : Precedes(j, m)}) = k - 1]
  BY DEF Response, Sorted, Precedes
<1>7. \A k \in 1..Cardinality(S) : \E m \in S : Cardinality({j \in S : Precedes(j, m)}) = k - 1
  BY <1>1, <1>5
<1> QED BY <1>6, <1>7

\* A finite set of naturals has a least element.
LEMMA LeastNatural ==
  ASSUME NEW S, IsFiniteSet(S), S \subseteq Nat, S # {}
  PROVE  \E w \in S : \A v \in S : w <= v
<1> DEFINE ahead == [m \in S |-> {j \in S : j < m}]
<1>1. \A m \in S : ahead[m] = {j \in S : j < m}
  OBVIOUS
<1>2. ahead \in [S -> SUBSET S]
  OBVIOUS
<1> HIDE DEF ahead
<1>3. \A m \in S : m \notin ahead[m]
  BY <1>1
<1>4. \A m, n \in S : m # n => \/ m \in ahead[n] /\ ahead[m] \subseteq ahead[n]
                               \/ n \in ahead[m] /\ ahead[n] \subseteq ahead[m]
  <2> SUFFICES ASSUME NEW m \in S, NEW n \in S, m < n
               PROVE  m \in ahead[n] /\ ahead[m] \subseteq ahead[n]
    <3>1. \A m, n \in S : m # n => m < n \/ n < m
      OBVIOUS
    <3> QED BY <3>1
  <2>1. \A j \in S : j < m => j < n
    OBVIOUS
  <2> QED BY <1>1, <2>1
<1>5. \A k \in 1..Cardinality(S) : \E m \in S : Cardinality(ahead[m]) = k - 1
  BY <1>2, <1>3, <1>4, EveryRankIsTaken
<1>6. Cardinality(S) \in Nat /\ Cardinality(S) # 0
  BY FS_CardinalityType, FS_EmptySet
<1>7. PICK m \in S : Cardinality(ahead[m]) = 0
  <2>1. 1 \in 1..Cardinality(S)
    BY <1>6
  <2> QED BY <1>5, <2>1
<1>8. ahead[m] = {}
  <2>1. ahead[m] \in SUBSET S
    BY <1>2
  <2>2. IsFiniteSet(ahead[m])
    BY <2>1, FS_Subset
  <2> QED BY <1>7, <2>2, FS_EmptySet
<1>9. \A v \in S : ~(v < m)
  BY <1>1, <1>8
<1> QED BY <1>9

\* A search of the matcher finds finitely many candidates, one for each hash.
LEMMA MatchFacts ==
  ASSUME IndexIsOfChunks, IsFiniteSet(DOMAIN byHash), NEW prompt \in Prompts
  PROVE  IsFiniteSet(MatchSubSequence(prompt)) /\ MatchSubSequence(prompt) \subseteq Candidate
<1> DEFINE M == MatchSubSequence(prompt)
           Occ(t, h) == {w \in 0..(Len(prompt) - ChunkSize) :
                           SubSeq(prompt, w + 1, w + ChunkSize) = byFirst[t][h].chunk}
           First(t, h) == CHOOSE w \in Occ(t, h) : \A v \in Occ(t, h) : w <= v
<1>1. \A m \in M : \E t \in DOMAIN byFirst : \E h \in DOMAIN byFirst[t] :
        Occ(t, h) # {} /\ m = [start |-> First(t, h), source |-> byFirst[t][h].start, key |-> h]
  <2>1. M = UNION {{[start |-> First(t, h), source |-> byFirst[t][h].start, key |-> h] :
                      h \in {i \in DOMAIN byFirst[t] : Occ(t, i) # {}}} : t \in DOMAIN byFirst}
    BY DEF MatchSubSequence
  <2> HIDE DEF M, First, Occ
  <2> QED BY <2>1
<1>2. ASSUME NEW t, NEW h, Occ(t, h) # {}
      PROVE  First(t, h) \in Nat
  <2>1. Len(prompt) \in Nat /\ ChunkSize \in Nat
    OBVIOUS
  <2>2. IsFiniteSet(0..(Len(prompt) - ChunkSize))
    BY <2>1, FS_Interval
  <2>3. Occ(t, h) \in SUBSET (0..(Len(prompt) - ChunkSize)) /\ Occ(t, h) \subseteq Nat
    BY <2>1
  <2> HIDE DEF Occ
  <2>4. IsFiniteSet(Occ(t, h))
    BY <2>2, <2>3, FS_Subset
  <2>5. \E w \in Occ(t, h) : \A v \in Occ(t, h) : w <= v
    BY <1>2, <2>3, <2>4, LeastNatural
  <2>6. First(t, h) \in Occ(t, h)
    BY <2>5
  <2> HIDE DEF First
  <2> QED BY <2>3, <2>6
<1> HIDE DEF First, Occ, M
<1>3. Groups(byFirst, byHash)
  BY ByFirstGroups DEF IndexIsOfChunks
<1>4. ASSUME NEW t \in DOMAIN byFirst, NEW h \in DOMAIN byFirst[t]
      PROVE  h \in HashesFrom(byHash, t) /\ byFirst[t][h] = byHash[h]
  <2>1. byFirst[t] = [i \in HashesFrom(byHash, t) |-> byHash[i]]
    BY <1>3 DEF Groups
  <2> QED BY <2>1
<1>5. ASSUME NEW h \in DOMAIN byHash
      PROVE  h \in Nat /\ byHash[h].start \in Nat
  <2>1. PICK tokens, start : byHash[h] = [chunk |-> tokens, start |-> start]
                             /\ IsChunk(h, tokens, start)
    BY DEF IndexIsOfChunks
  <2>2. PICK d \in Documents : \E k \in 1..ChunkCount(d) : h = Hash(d, k) /\ start = Start(k)
    BY <2>1 DEF IsChunk
  <2>3. PICK k \in 1..ChunkCount(d) : h = Hash(d, k) /\ start = Start(k)
    BY <2>2
  <2>4. Hash(d, k) \in Nat
    BY HashAssumption
  <2>5. Start(k) \in Nat
    BY ChunksFit
  <2> QED BY <2>1, <2>3, <2>4, <2>5
<1>6. M \subseteq Candidate
  <2> SUFFICES ASSUME NEW m \in M PROVE m \in Candidate
    OBVIOUS
  <2>1. PICK t \in DOMAIN byFirst : \E h \in DOMAIN byFirst[t] :
          Occ(t, h) # {} /\ m = [start |-> First(t, h), source |-> byFirst[t][h].start, key |-> h]
    BY <1>1
  <2>2. PICK h \in DOMAIN byFirst[t] :
          Occ(t, h) # {} /\ m = [start |-> First(t, h), source |-> byFirst[t][h].start, key |-> h]
    BY <2>1
  <2>3. First(t, h) \in Nat /\ h \in Nat /\ byFirst[t][h].start \in Nat
    BY <1>2, <1>4, <1>5, <2>2 DEF HashesFrom
  <2> QED BY <2>2, <2>3 DEF Candidate
<1> DEFINE key == [m \in M |-> m.key]
<1>7. key \in [M -> DOMAIN byHash] /\ \A m, n \in M : key[m] = key[n] => m = n
  <2>1. ASSUME NEW m \in M
        PROVE  /\ m.key \in DOMAIN byHash
               /\ m = [start |-> First(byHash[m.key].chunk[1], m.key),
                       source |-> byHash[m.key].start, key |-> m.key]
    <3>1. PICK t \in DOMAIN byFirst : \E h \in DOMAIN byFirst[t] :
            m = [start |-> First(t, h), source |-> byFirst[t][h].start, key |-> h]
      BY <1>1
    <3>2. PICK h \in DOMAIN byFirst[t] :
            m = [start |-> First(t, h), source |-> byFirst[t][h].start, key |-> h]
      BY <3>1
    <3>3. m.key = h /\ h \in DOMAIN byHash /\ t = byHash[h].chunk[1] /\ byFirst[t][h] = byHash[h]
      BY <1>4, <3>2 DEF HashesFrom
    <3> QED BY <3>2, <3>3
  <2>2. \A m \in M : key[m] = m.key
    OBVIOUS
  <2>3. key \in [M -> DOMAIN byHash]
    BY <2>1
  <2> HIDE DEF key
  <2>4. ASSUME NEW m \in M, NEW n \in M, key[m] = key[n] PROVE m = n
    <3>1. m.key = n.key
      BY <2>2, <2>4
    <3> QED BY <2>1, <3>1
  <2> QED BY <2>3, <2>4
<1>8. key \in Injection(M, DOMAIN byHash)
  <2> HIDE DEF key
  <2>1. DOMAIN key = M
    BY <1>7
  <2> QED BY <1>7, <2>1 DEF Injection, IsInjective
<1>9. IsFiniteSet(M)
  <2> HIDE DEF key
  <2> QED BY <1>8, FS_Injection
<1> QED BY <1>6, <1>9 DEF M

\* A selected candidate is backed by a record of its namespace for the very tokens
\* it is to replace.  Records are never withdrawn.
Backed(records, ns, prompt, c) ==
  /\ c.end = c.start + ChunkSize
  /\ \E r \in records :
       /\ r.ns = ns /\ r.key = c.key /\ r.source = c.source
       /\ r.tokens = SubSeq(prompt, c.start + 1, c.start + ChunkSize)

\* A loaded object is of the tokens and the position of its target.
Right(prompt, l) ==
  /\ l.kv.tokens = SubSeq(prompt, l.target.start + 1, l.target.end)
  /\ l.kv.position = l.target.source

\* What a lookup holds at each of its stages.
LookupOk(records, ns, l) ==
  /\ l.stage \in {"matched", "answered"} =>
       /\ DOMAIN l = {"prompt", "stage", "found"}
       /\ IsFiniteSet(l.found) /\ l.found \subseteq Candidate
  /\ l.stage = "planned" => \A c \in l.plan : Backed(records, ns, l.prompt, c)
  /\ l.stage = "loaded" => \A x \in l.loaded : Right(l.prompt, x)

LookupsInv ==
  /\ IsFiniteSet(DOMAIN byHash)
  /\ DOMAIN lookups = Namespaces
  /\ \A ns \in Namespaces : lookups[ns] # None => LookupOk(sidecar, ns, lookups[ns])

\* _verify_candidates: what can be selected of a response is backed by a record.
LEMMA PotentialsAreBacked ==
  ASSUME NEW ns, NEW prompt, NEW found, IsFiniteSet(found), found \subseteq Candidate,
         NEW i \in DOMAIN Potentials(ns, prompt, found)
  PROVE  Backed(sidecar, ns, prompt, Potentials(ns, prompt, found)[i])
<1> DEFINE S == {m \in found : Verified(ns, prompt, m)}
           m == Response(S)[i]
           b == CHOOSE r \in Bound(ns, prompt, m) : TRUE
           c == [start |-> m.start, end |-> m.start + ChunkSize, key |-> m.key, source |-> b.source]
<1>1. DOMAIN Potentials(ns, prompt, found) = DOMAIN Response(S)
      /\ Potentials(ns, prompt, found)[i] = c
  BY DEF Potentials
<1>2. S \in SUBSET found /\ S \subseteq Candidate
  OBVIOUS
<1>3. IsFiniteSet(S)
  <2> HIDE DEF S
  <2> QED BY <1>2, FS_Subset
<1>4. m \in S
  <2>1. i \in DOMAIN Response(S)
    BY <1>1
  <2> HIDE DEF S
  <2>2. Response(S)[i] \in S
    BY <1>2, <1>3, <2>1, ResponseLists
  <2> QED BY <2>2
<1>5. Cardinality({r.source : r \in Bound(ns, prompt, m)}) = 1
  <2> HIDE DEF m
  <2> QED BY <1>4 DEF Verified
<1>6. {r.source : r \in Bound(ns, prompt, m)} # {}
  <2> DEFINE D == {r.source : r \in Bound(ns, prompt, m)}
  <2>1. Cardinality(D) = 1
    BY <1>5
  <2> HIDE DEF D
  <2>2. Cardinality({}) = 0
    BY FS_EmptySet
  <2>3. D # {}
    <3>1. D = {} => Cardinality(D) = Cardinality({})
      BY Zenon
    <3> QED BY <2>1, <2>2, <3>1
  <2> QED BY <2>3 DEF D
<1>7. b \in Bound(ns, prompt, m)
  <2> HIDE DEF m
  <2> QED BY <1>6
<1> HIDE DEF m, b
<1>8. /\ b \in sidecar /\ b.ns = ns /\ b.key = m.key
      /\ b.tokens = SubSeq(prompt, m.start + 1, m.start + ChunkSize)
  BY <1>7 DEF Bound, Bucket
<1>9. c.start = m.start /\ c.end = m.start + ChunkSize /\ c.key = m.key /\ c.source = b.source
  OBVIOUS
<1> HIDE DEF c
<1>10. Backed(sidecar, ns, prompt, c)
  BY <1>8, <1>9 DEF Backed
<1> QED BY <1>1, <1>10

\* The records of a namespace's lookups stay where they are.
LEMMA BackedStays ==
  ASSUME NEW ns, NEW prompt, NEW c, Backed(sidecar, ns, prompt, c), sidecar \subseteq sidecar'
  PROVE  Backed(sidecar', ns, prompt, c)
BY DEF Backed

\* The matcher stays finite, and no step takes a record from the sidecar.
LEMMA StoresGrow ==
  ASSUME SInv, IsFiniteSet(DOMAIN byHash), [Next]_vars
  PROVE  IsFiniteSet(DOMAIN byHash') /\ sidecar \subseteq sidecar'
<1>1. ASSUME NEW doc \in Documents PROVE IsFiniteSet(Hashes(doc))
  <2> DEFINE f == [k \in 1..ChunkCount(doc) |-> Hash(doc, k)]
  <2>1. \A k \in 1..ChunkCount(doc) : f[k] = Hash(doc, k)
    OBVIOUS
  <2>2. DOMAIN f = 1..ChunkCount(doc) /\ f = [k \in 1..ChunkCount(doc) |-> f[k]]
    OBVIOUS
  <2> HIDE DEF f
  <2>3. f \in Surjection(1..ChunkCount(doc), Hashes(doc))
    BY <2>1, <2>2 DEF Hashes, Surjection
  <2>4. IsFiniteSet(1..ChunkCount(doc))
    BY ChunkCountTyped, FS_Interval
  <2> QED BY <2>3, <2>4, FS_Surjection
<1>2. CASE UNCHANGED byHash /\ sidecar \subseteq sidecar'
  BY <1>2
<1>3. ASSUME NEW j \in Jobs, Register(j)
      PROVE  IsFiniteSet(DOMAIN byHash') /\ sidecar \subseteq sidecar'
  <2>1. OnNewTokenHashes(jobs[j].doc) /\ Active(j) /\ sidecar' = sidecar
    BY <1>3 DEF Register
  <2>2. jobs[j].doc \in Documents
    BY <2>1 DEF SInv, JobsProgress, Active, JobRecords
  <2>3. DOMAIN byHash' = DOMAIN byHash \cup Hashes(jobs[j].doc)
    BY <2>1, <2>2, RegisterIndex DEF SInv
  <2> QED BY <1>1, <2>1, <2>2, <2>3, FS_Union
<1>4. ASSUME NEW ns \in Namespaces, Probe(ns)
      PROVE  IsFiniteSet(DOMAIN byHash') /\ sidecar \subseteq sidecar'
  <2>1. sidecar' = sidecar /\ \E stale : RemoveChunks(stale)
    BY <1>4 DEF Probe
  <2>2. PICK stale : RemoveChunks(stale)
    BY <2>1
  <2>3. DOMAIN byHash' \in SUBSET DOMAIN byHash
    BY <2>2, RemoveIndex DEF SInv
  <2> QED BY <2>1, <2>3, FS_Subset
<1>5. CASE ServerRestart
  <2>1. byHash' = <<>> /\ sidecar' = sidecar
    BY <1>5 DEF ServerRestart
  <2>2. DOMAIN byHash' = {}
    BY <2>1
  <2> QED BY <2>1, <2>2, FS_EmptySet
<1>6. ASSUME NEW j \in Jobs,
             \/ \E ns \in Namespaces, doc \in Documents : StorePrecomputed(j, ns, doc)
             \/ RegisterRaises(j) \/ FinishWrite(j) \/ RecordEvent(j)
             \/ PublishSidecarRecords(j) \/ StoreTimesOut(j)
      PROVE  UNCHANGED byHash /\ sidecar \subseteq sidecar'
  BY <1>6 DEF StorePrecomputed, RegisterRaises, FinishWrite, RecordEvent, PublishSidecarRecords,
              AddMany, StoreTimesOut
<1>7. ASSUME NEW ns \in Namespaces,
             \/ \E prompt \in Prompts : Match(ns, prompt)
             \/ VerifyCandidates(ns) \/ RetrievePrecomputed(ns) \/ Forget(ns)
      PROVE  UNCHANGED byHash /\ sidecar \subseteq sidecar'
  BY <1>7 DEF Match, VerifyCandidates, RetrievePrecomputed, Forget
<1>8. ASSUME NEW object \in DOMAIN objects, Evict(object)
      PROVE  UNCHANGED byHash /\ sidecar \subseteq sidecar'
  BY <1>8 DEF Evict
<1>9. CASE UNCHANGED vars
  BY <1>2, <1>9 DEF vars
<1> QED BY <1>2, <1>3, <1>4, <1>5, <1>6, <1>7, <1>8, <1>9 DEF Next

\* A step leaves the other lookups alone, whatever it makes of one.
LEMMA LookupChanged ==
  ASSUME LookupsInv, IsFiniteSet(DOMAIN byHash'), sidecar \subseteq sidecar',
         NEW ns \in Namespaces, NEW l, lookups' = [lookups EXCEPT ![ns] = l],
         l # None => LookupOk(sidecar', ns, l)
  PROVE  LookupsInv'
<1>1. DOMAIN lookups' = Namespaces /\ lookups'[ns] = l
      /\ \A n \in Namespaces \ {ns} : lookups'[n] = lookups[n]
  BY DEF LookupsInv
<1>2. ASSUME NEW n \in Namespaces, lookups'[n] # None PROVE LookupOk(sidecar', n, lookups'[n])
  <2>1. CASE n = ns
    BY <1>1, <1>2, <2>1
  <2>2. CASE n # ns
    <3>1. lookups'[n] = lookups[n] /\ LookupOk(sidecar, n, lookups[n])
      BY <1>1, <1>2, <2>2 DEF LookupsInv
    <3> QED BY <3>1, BackedStays DEF LookupOk, Right
  <2> QED BY <2>1, <2>2
<1> QED BY <1>1, <1>2 DEF LookupsInv

\* The steps of a lookup, and those of the stores, keep what the lookups hold.
LEMMA LookupsStep ==
  ASSUME SInv, LookupsInv, [Next]_vars
  PROVE  LookupsInv'
<1>g. IsFiniteSet(DOMAIN byHash') /\ sidecar \subseteq sidecar'
  BY StoresGrow DEF LookupsInv
<1>1. ASSUME UNCHANGED lookups PROVE LookupsInv'
  BY <1>g, <1>1, BackedStays DEF LookupsInv, LookupOk, Right
<1>2. ASSUME NEW ns \in Namespaces, NEW prompt \in Prompts, Match(ns, prompt)
      PROVE  LookupsInv'
  <2> DEFINE l == [prompt |-> prompt, stage |-> "matched", found |-> MatchSubSequence(prompt)]
  <2>1. lookups' = [lookups EXCEPT ![ns] = l]
    BY <1>2 DEF Match
  <2>2. IsFiniteSet(MatchSubSequence(prompt)) /\ MatchSubSequence(prompt) \subseteq Candidate
    BY MatchFacts DEF SInv, LookupsInv
  <2>3. l.stage = "matched" /\ l.found = MatchSubSequence(prompt)
        /\ DOMAIN l = {"prompt", "stage", "found"}
    OBVIOUS
  <2> HIDE DEF l
  <2>4. LookupOk(sidecar', ns, l)
    BY <2>2, <2>3 DEF LookupOk
  <2> QED BY <1>g, <2>1, <2>4, LookupChanged
<1>3. ASSUME NEW ns \in Namespaces, Probe(ns)
      PROVE  LookupsInv'
  <2> DEFINE l == lookups[ns]
             resident == {m \in l.found : <<ns, m.key>> \in DOMAIN objects}
             new == [[l EXCEPT !.stage = "answered"] EXCEPT !.found = resident]
  <2>1. l # None /\ l.stage = "matched" /\ LookupOk(sidecar, ns, l)
    BY <1>3 DEF Probe, LookupsInv
  <2>2. lookups' = [lookups EXCEPT ![ns] = new]
    <3>1. lookups' = [lookups EXCEPT ![ns].stage = "answered", ![ns].found = resident]
      BY <1>3 DEF Probe
    <3>2. DOMAIN lookups = Namespaces
      BY DEF LookupsInv
    <3> QED BY <3>1, <3>2
  <2>3. DOMAIN l = {"prompt", "stage", "found"} /\ IsFiniteSet(l.found) /\ l.found \subseteq Candidate
    BY <2>1 DEF LookupOk
  <2>4. new.stage = "answered" /\ new.found = resident /\ DOMAIN new = {"prompt", "stage", "found"}
    BY <2>3
  <2>5. resident \in SUBSET l.found
    OBVIOUS
  <2> HIDE DEF l, new, resident
  <2>6. IsFiniteSet(resident) /\ resident \subseteq Candidate
    BY <2>3, <2>5, FS_Subset
  <2>7. LookupOk(sidecar', ns, new)
    BY <2>4, <2>6 DEF LookupOk
  <2> QED BY <1>g, <2>2, <2>7, LookupChanged
<1>4. ASSUME NEW ns \in Namespaces, VerifyCandidates(ns)
      PROVE  LookupsInv'
  <2> DEFINE l == lookups[ns]
             ps == Potentials(ns, l.prompt, l.found)
             chosen == {ps[i] : i \in DOMAIN ps \cap SelectNonOverlapping(ps, DOMAIN ps)}
             fatal == [prompt |-> l.prompt, stage |-> "fatal"]
             planned == [prompt |-> l.prompt, stage |-> "planned", plan |-> chosen]
  <2>1. l # None /\ l.stage = "answered" /\ LookupOk(sidecar, ns, l)
    BY <1>4 DEF VerifyCandidates, LookupsInv
  <2>2. \/ lookups' = [lookups EXCEPT ![ns] = fatal]
        \/ lookups' = [lookups EXCEPT ![ns] = planned]
    BY <1>4 DEF VerifyCandidates
  <2>3. IsFiniteSet(l.found) /\ l.found \subseteq Candidate
    BY <2>1 DEF LookupOk
  <2>4. \A c \in chosen : Backed(sidecar, ns, l.prompt, c)
    <3> HIDE DEF l
    <3> QED BY <2>3, PotentialsAreBacked
  <2>5. /\ fatal.stage = "fatal" /\ planned.stage = "planned"
        /\ planned.plan = chosen /\ planned.prompt = l.prompt
    OBVIOUS
  <2> HIDE DEF l, fatal, planned, chosen
  <2>6. LookupOk(sidecar', ns, fatal) /\ LookupOk(sidecar', ns, planned)
    BY <1>g, <2>4, <2>5, BackedStays DEF LookupOk
  <2> QED BY <1>g, <2>2, <2>6, LookupChanged
<1>5. ASSUME NEW ns \in Namespaces, RetrievePrecomputed(ns)
      PROVE  LookupsInv'
  <2> DEFINE l == lookups[ns]
             loaded == {[target |-> c, kv |-> objects[<<ns, c.key>>]] : c \in l.plan}
             new == [prompt |-> l.prompt, stage |-> "loaded", loaded |-> loaded]
  <2>1. l # None /\ l.stage = "planned" /\ LookupOk(sidecar, ns, l)
        /\ \A c \in l.plan : <<ns, c.key>> \in DOMAIN objects
    BY <1>5 DEF RetrievePrecomputed, LookupsInv
  <2>2. lookups' = [lookups EXCEPT ![ns] = new]
    BY <1>5 DEF RetrievePrecomputed
  <2>3. new.stage = "loaded" /\ new.loaded = loaded /\ new.prompt = l.prompt
    OBVIOUS
  <2>4. ASSUME NEW c \in l.plan PROVE Right(l.prompt, [target |-> c, kv |-> objects[<<ns, c.key>>]])
    <3>1. Backed(sidecar, ns, l.prompt, c) /\ <<ns, c.key>> \in DOMAIN objects
      BY <2>1 DEF LookupOk
    <3>2. PICK r \in sidecar :
            /\ r.ns = ns /\ r.key = c.key /\ r.source = c.source
            /\ r.tokens = SubSeq(l.prompt, c.start + 1, c.start + ChunkSize)
      BY <3>1 DEF Backed
    <3>3. objects[<<ns, c.key>>] = [tokens |-> r.tokens, position |-> r.source]
      BY <3>1, <3>2, RecordDescribesObject
    <3> QED BY <3>1, <3>2, <3>3 DEF Right, Backed
  <2>5. \A x \in loaded : Right(l.prompt, x)
    BY <2>4
  <2> HIDE DEF l, new, loaded
  <2>6. LookupOk(sidecar', ns, new)
    BY <2>3, <2>5 DEF LookupOk, Right
  <2> QED BY <1>g, <2>2, <2>6, LookupChanged
<1>6. ASSUME NEW ns \in Namespaces, Forget(ns)
      PROVE  LookupsInv'
  <2>1. lookups' = [lookups EXCEPT ![ns] = None]
    BY <1>6 DEF Forget
  <2> QED BY <1>g, <2>1, LookupChanged
<1>7. ASSUME ServerRestart PROVE LookupsInv'
  <2>1. lookups' = [ns \in Namespaces |->
          IF lookups[ns] # None /\ lookups[ns].stage = "matched" THEN None ELSE lookups[ns]]
    BY <1>7 DEF ServerRestart
  <2>2. ASSUME NEW ns \in Namespaces, lookups'[ns] # None PROVE LookupOk(sidecar', ns, lookups'[ns])
    <3>1. lookups'[ns] = lookups[ns] /\ LookupOk(sidecar, ns, lookups[ns])
      BY <2>1, <2>2 DEF LookupsInv
    <3> QED BY <1>g, <3>1, BackedStays DEF LookupOk, Right
  <2> QED BY <1>g, <2>1, <2>2 DEF LookupsInv
<1>8. ASSUME NEW j \in Jobs,
             \/ \E ns \in Namespaces, doc \in Documents : StorePrecomputed(j, ns, doc)
             \/ Register(j) \/ RegisterRaises(j) \/ FinishWrite(j) \/ RecordEvent(j)
             \/ PublishSidecarRecords(j) \/ StoreTimesOut(j)
      PROVE  UNCHANGED lookups
  BY <1>8 DEF StorePrecomputed, Register, RegisterRaises, FinishWrite, RecordEvent,
              PublishSidecarRecords, StoreTimesOut
<1>9. ASSUME NEW object \in DOMAIN objects, Evict(object) PROVE UNCHANGED lookups
  BY <1>9 DEF Evict
<1>10. ASSUME UNCHANGED vars PROVE UNCHANGED lookups
  BY <1>10 DEF vars
<1> QED
  BY <1>1, <1>2, <1>3, <1>4, <1>5, <1>6, <1>7, <1>8, <1>9, <1>10 DEF Next

\* Lookups hold what the stores back.
THEOREM LookupsAreBacked == Spec => []LookupsInv
<1>1. Init => LookupsInv
  <2> SUFFICES ASSUME Init PROVE LookupsInv
    OBVIOUS
  <2>1. DOMAIN byHash = {}
    BY DEF Init
  <2> QED BY <2>1, FS_EmptySet DEF Init, LookupsInv
<1>2. SInv /\ LookupsInv /\ [Next]_vars => LookupsInv'
  BY LookupsStep
<1> QED BY <1>1, <1>2, StoresAgree, PTL DEF Spec

\* What a load puts into a request's cache was computed for the very tokens of its
\* target and at the position the key correction starts from, for any documents
\* and prompts, whatever is evicted, restarted or stored between the lookup and
\* the retrieve (LmcacheCandidateLookupCoordinator.plan, retrieve_precomputed).
THEOREM LoadedIsAlwaysVerified == Spec => []LoadedIsVerified
<1>1. LookupsInv => LoadedIsVerified
  BY DEF LookupsInv, LookupOk, Right, LoadedIsVerified
<1> QED BY <1>1, LookupsAreBacked, PTL
=============================================================================
