--------------------------- MODULE AscendingProofs ---------------------------
(* Lemmas about numbers and ascending sequences that the other proofs use.   *)
EXTENDS Ascending, Sequences, Functions, FiniteSetTheorems, WellFoundedInduction, TLAPS

\* Every set of natural numbers has a least member.
LEMMA Least ==
  ASSUME NEW T, T \subseteq Nat, T # {}
  PROVE  \E n \in T : \A m \in T : n <= m
<1> DEFINE Below == {ss \in Nat \X Nat : ss[1] < ss[2]}
<1>1. OpToRel(<, Nat) = Below
  BY DEF OpToRel
<1>2. IsWellFoundedOn(Below, Nat)
  BY <1>1, NatLessThanWellFounded
<1>3. PICK n \in T : \A m \in T : <<m, n>> \notin Below
  <2> HIDE DEF Below
  <2> QED BY <1>2, WFMin
<1>4. \A m \in T : ~(m < n)
  BY <1>3
<1> QED BY <1>4

\* Induction over the natural numbers, of membership in a set.
LEMMA Induct ==
  ASSUME NEW S, 0 \in S, \A n \in Nat : n \in S => n + 1 \in S
  PROVE  Nat \subseteq S
<1> SUFFICES ASSUME Nat \ S # {} PROVE FALSE
  OBVIOUS
<1>1. PICK n \in Nat \ S : \A m \in Nat \ S : n <= m
  BY Least
<1>2. n - 1 \in Nat /\ n - 1 \in S
  BY <1>1
<1> QED BY <1>1, <1>2

\* q is S in ascending order.
Ordered(S, q) == q \in [1..Cardinality(S) -> S] /\ \A i, j \in 1..Cardinality(S) : i < j => q[i] < q[j]

LEMMA BoundedIsFinite ==
  ASSUME NEW k \in Nat, NEW S \in SUBSET (1..k)
  PROVE  IsFiniteSet(S) /\ Cardinality(S) \in Nat
<1>1. IsFiniteSet(1..k)
  BY FS_Interval
<1>2. IsFiniteSet(S)
  BY <1>1, FS_Subset
<1> QED BY <1>2, FS_CardinalityType

LEMMA OrderExtends ==
  ASSUME NEW n \in Nat, NEW S \in SUBSET (1..n), NEW q, Ordered(S, q)
  PROVE  \E p : Ordered(S \cup {n + 1}, p)
<1> DEFINE m == Cardinality(S)
<1>1. IsFiniteSet(S) /\ m \in Nat
  BY BoundedIsFinite
<1>2. Cardinality(S \cup {n + 1}) = m + 1
  BY <1>1, FS_AddElement
<1>3. q \in [1..m -> S] /\ \A i, j \in 1..m : i < j => q[i] < q[j]
  BY DEF Ordered
<1> HIDE DEF m
<1> DEFINE p == [i \in 1..(m + 1) |-> IF i = m + 1 THEN n + 1 ELSE q[i]]
<1>4. \A i \in 1..m : q[i] \in S /\ q[i] \in 1..n
  BY <1>3
<1>5. p \in [1..(m + 1) -> S \cup {n + 1}]
  BY <1>1, <1>4
<1>6. \A i, j \in 1..(m + 1) : i < j => p[i] < p[j]
  <2> SUFFICES ASSUME NEW i \in 1..(m + 1), NEW j \in 1..(m + 1), i < j PROVE p[i] < p[j]
    OBVIOUS
  <2>1. i \in 1..m /\ p[i] = q[i]
    BY <1>1
  <2>2. p[j] = IF j = m + 1 THEN n + 1 ELSE q[j]
    BY <1>1
  <2>3. q[i] \in 1..n /\ (j \in 1..m \/ j = m + 1)
    BY <1>1, <1>4, <2>1
  <2> QED BY <1>1, <1>3, <2>1, <2>2, <2>3
<1> HIDE DEF p
<1> QED BY <1>2, <1>5, <1>6 DEF Ordered

LEMMA OrderExists ==
  ASSUME NEW k \in Nat, NEW S \in SUBSET (1..k)
  PROVE  \E q : Ordered(S, q)
<1> DEFINE Fine == {n \in Nat : \A T \in SUBSET (1..n) : \E q : Ordered(T, q)}
<1>1. 0 \in Fine
  <2> SUFFICES ASSUME NEW T \in SUBSET (1..0) PROVE \E q : Ordered(T, q)
    OBVIOUS
  <2>1. T = {} /\ Cardinality({}) = 0
    BY FS_EmptySet
  <2>2. Ordered(T, <<>>)
    BY <2>1 DEF Ordered
  <2> QED BY <2>2
<1>2. ASSUME NEW n \in Nat, n \in Fine PROVE n + 1 \in Fine
  <2>1. ASSUME NEW T \in SUBSET (1..(n + 1)) PROVE \E q : Ordered(T, q)
    <3>1. T \ {n + 1} \in SUBSET (1..n)
      OBVIOUS
    <3>2. PICK q : Ordered(T \ {n + 1}, q)
      BY <1>2, <3>1
    <3>3. PICK p : Ordered((T \ {n + 1}) \cup {n + 1}, p)
      BY <3>1, <3>2, OrderExtends
    <3>4. CASE n + 1 \in T
      <4>1. (T \ {n + 1}) \cup {n + 1} = T
        BY <3>4
      <4> QED BY <3>3, <4>1
    <3>5. CASE n + 1 \notin T
      <4>1. T \ {n + 1} = T
        BY <3>5
      <4> QED BY <3>2, <4>1
    <3> QED BY <3>4, <3>5
  <2>2. n + 1 \in Nat
    OBVIOUS
  <2> QED BY <2>1, <2>2
<1>3. Nat \subseteq Fine
  <2> HIDE DEF Fine
  <2> QED BY <1>1, <1>2, Induct
<1> QED BY <1>3

\* What InOrder returns: all of S, and nothing else, ascending.
LEMMA InOrderIs ==
  ASSUME NEW k \in Nat, NEW S \in SUBSET (1..k)
  PROVE /\ InOrder(S) \in Seq(S) /\ Len(InOrder(S)) = Cardinality(S) 
        /\ \A i, j \in 1..Cardinality(S) : i < j => InOrder(S)[i] < InOrder(S)[j]
        /\ Range(InOrder(S)) = S
<1> DEFINE n == Cardinality(S)  q == InOrder(S)
<1>1. PICK p : Ordered(S, p)
  BY OrderExists
<1>2. q \in [1..n -> S] /\ \A i, j \in 1..n : i < j => q[i] < q[j]
  BY <1>1 DEF InOrder, Ordered
<1>3. IsFiniteSet(S) /\ n \in Nat
  BY BoundedIsFinite
<1>4. n = Cardinality(S)
  OBVIOUS
<1> HIDE DEF n, q
<1>5. q \in Seq(S) /\ Len(q) = n
  BY <1>2, <1>3
<1>6. \A i, j \in 1..n : q[i] = q[j] => i = j
  <2> SUFFICES ASSUME NEW i \in 1..n, NEW j \in 1..n, q[i] = q[j], i # j PROVE FALSE
    OBVIOUS
  <2>1. q[i] \in S /\ q[j] \in S /\ i \in Int /\ j \in Int
    BY <1>2, <1>3
  <2>2. q[i] \in 1..k /\ q[j] \in 1..k
    BY <2>1
  <2> QED BY <1>2, <2>1, <2>2
<1>7. q \in Surjection(1..n, S)
  <2>1. q \in Injection(1..n, S)
    BY <1>2, <1>6 DEF Injection, IsInjective
  <2>2. Cardinality(1..n) = n
    BY <1>3, FS_Interval
  <2> QED BY <1>3, <1>4, <2>1, <2>2, FS_Injection
<1>8. Range(q) = S
  BY <1>2, <1>7 DEF Surjection, Range
<1> QED BY <1>2, <1>5, <1>8 DEF n, q
====
