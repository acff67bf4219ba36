---------------------------- MODULE Dart_proofs ----------------------------
(***************************************************************************)
(* Proofs about Dart, for all functions, test data and bounds: the branch  *)
(* coverage is that of the branches executed, no list of constraints is    *)
(* solved twice, the search is given up only when it is exhausted, and     *)
(* what is solved leads to a new branch.                                   *)
(***************************************************************************)
EXTENDS Dart, FiniteSetTheorems, WellFoundedInduction, TLAPS

(* What the generator knows of a function: what the lists of constraints   *)
(* hold, and that a test data that solves constraints takes the branches   *)
(* they ask for.                                                           *)
ConstraintType ==
  [kind : {"decision", "additional"}, cond : Node, taken : BOOLEAN, negated : BOOLEAN]

-----------------------------------------------------------------------------
(* A set of naturals that is not empty has a least element. *)
LEMMA Least ==
  ASSUME NEW S \in SUBSET Nat, S # {}
  PROVE  \E n \in S : \A m \in S : n <= m
<1>1. PICK n \in S : \A m \in S : ~ (<<m, n>> \in OpToRel(<, Nat))
  BY WFMin, NatLessThanWellFounded, Zenon
<1>2. \A m \in Nat : m < n => <<m, n>> \in OpToRel(<, Nat)
  BY DEF OpToRel
<1>3. \A m \in S : n <= m
  <2> TAKE m \in S
  <2>1. m \in Nat /\ n \in Nat /\ ~ (m < n)
    BY <1>1, <1>2
  <2>2. QED
    BY <2>1
<1>4. QED
  BY <1>3

(* Min of such a set is one of its elements. *)
LEMMA MinIn ==
  ASSUME NEW S \in SUBSET Nat, S # {}
  PROVE  Min(S) \in S
BY Least DEF Min

-----------------------------------------------------------------------------
(* InOrder enumerates a finite set of numbers: all of it and nothing else. *)
LEMMA InOrderOk ==
  ASSUME NEW n \in Nat, NEW S \in SUBSET (1 .. n)
  PROVE  /\ Cardinality(S) \in Nat
         /\ InOrder(S) \in [1 .. Cardinality(S) -> S]
         /\ \A i \in S : \E k \in 1 .. Cardinality(S) : InOrder(S)[k] = i
         /\ S = 1 .. n => \A k \in 1 .. n : Cardinality(S) = n /\ InOrder(S)[k] = k
<1> DEFINE Below(i) == {j \in S : j < i}
           rank == [i \in S |-> Cardinality(Below(i))]
           c == Cardinality(S)
<1>1. IsFiniteSet(S) /\ c \in Nat
  <2>1. IsFiniteSet(1 .. n)
    BY FS_Interval
  <2>2. QED
    BY <2>1, FS_Subset, FS_CardinalityType
<1>2. ASSUME NEW i \in S
      PROVE  IsFiniteSet(Below(i)) /\ Cardinality(Below(i)) \in 0 .. c - 1
  <2>1. IsFiniteSet(S \ {i}) /\ Cardinality(S \ {i}) = c - 1
    BY <1>1, <1>2, FS_RemoveElement
  <2>2. Below(i) \subseteq S \ {i}
    OBVIOUS
  <2>3. IsFiniteSet(Below(i)) /\ Cardinality(Below(i)) <= c - 1
    BY <2>1, <2>2, FS_Subset
  <2>4. QED
    BY <2>3, FS_CardinalityType, <1>1
<1>3. ASSUME NEW i \in S, NEW j \in S, i < j
      PROVE  rank[i] < rank[j]
  <2>1. Below(i) \cup {i} \subseteq Below(j)
    <3>1. i \in Nat /\ j \in Nat /\ S \subseteq Nat
      OBVIOUS
    <3>2. \A m \in S : m < i => m < j
      BY <1>3, <3>1
    <3>3. QED
      BY <1>3, <3>2
  <2>2. IsFiniteSet(Below(i) \cup {i}) /\ Cardinality(Below(i) \cup {i}) = Cardinality(Below(i)) + 1
    <3>1. i \notin Below(i)
      OBVIOUS
    <3>2. QED
      BY <1>2, <3>1, FS_AddElement
  <2>3. Cardinality(Below(i) \cup {i}) <= Cardinality(Below(j))
    BY <1>2, <2>1, FS_Subset
  <2>4. Cardinality(Below(i)) \in Nat /\ Cardinality(Below(j)) \in Nat
    BY <1>2, FS_CardinalityType
  <2>5. QED
    BY <2>2, <2>3, <2>4
<1>4. rank \in Injection(S, 0 .. c - 1)
  <2>1. rank \in [S -> 0 .. c - 1]
    BY <1>2
  <2>2. ASSUME NEW i \in S, NEW j \in S, rank[i] = rank[j] PROVE i = j
    <3>1. i \in Nat /\ j \in Nat /\ rank[i] \in Nat
      BY <2>1
    <3>2. ~ (i < j) /\ ~ (j < i)
      BY <1>3, <2>2, <3>1
    <3>3. QED
      BY <3>1, <3>2
  <2>3. QED
    BY <2>1, <2>2 DEF Injection, IsInjective
<1> HIDE DEF rank
<1>5. \A k \in 0 .. c - 1 : \E i \in S : rank[i] = k
  <2>1. IsFiniteSet(0 .. c - 1) /\ Cardinality(0 .. c - 1) = c
    <3>1. 0 \in Int /\ c - 1 \in Int
      BY <1>1
    <3>2. /\ IsFiniteSet(0 .. c - 1)
          /\ Cardinality(0 .. c - 1) = IF 0 > c - 1 THEN 0 ELSE (c - 1) - 0 + 1
      BY <3>1, FS_Interval
    <3>3. QED
      BY <1>1, <3>2
  <2>2. rank \in Surjection(S, 0 .. c - 1)
    BY <1>4, <2>1, FS_Injection
  <2>3. QED
    BY <2>2 DEF Surjection
<1>6. \A i \in S : rank[i] = Cardinality({j \in S : j < i})
  BY DEF rank
<1> DEFINE Nth(k) == CHOOSE i \in S : Cardinality({j \in S : j < i}) = k - 1
<1>7. InOrder(S) = [k \in 1 .. c |-> Nth(k)]
  BY Zenon DEF InOrder
<1>8. ASSUME NEW k \in 1 .. c
      PROVE  InOrder(S)[k] \in S /\ rank[InOrder(S)[k]] = k - 1
  <2>1. k - 1 \in 0 .. c - 1
    BY <1>1
  <2>2. \E i \in S : rank[i] = k - 1
    BY <1>5, <2>1
  <2>3. PICK i \in S : Cardinality({j \in S : j < i}) = k - 1
    BY <1>6, <2>2
  <2>4. Nth(k) \in S /\ Cardinality({j \in S : j < Nth(k)}) = k - 1
    BY <2>3, Zenon
  <2> HIDE DEF Nth
  <2>5. InOrder(S)[k] = Nth(k)
    BY <1>7
  <2>6. QED
    BY <1>6, <2>4, <2>5
<1>9. ASSUME NEW i \in S PROVE \E k \in 1 .. c : InOrder(S)[k] = i
  <2>1. rank[i] \in 0 .. c - 1
    BY <1>4 DEF Injection
  <2>2. rank[i] + 1 \in 1 .. c /\ (rank[i] + 1) - 1 = rank[i]
    BY <1>1, <2>1
  <2>3. InOrder(S)[rank[i] + 1] \in S /\ rank[InOrder(S)[rank[i] + 1]] = rank[i]
    BY <1>8, <2>2
  <2>4. InOrder(S)[rank[i] + 1] = i
    BY <1>4, <2>3 DEF Injection, IsInjective
  <2>5. QED
    BY <2>2, <2>4
<1>10. ASSUME S = 1 .. n, NEW k \in 1 .. n PROVE c = n /\ InOrder(S)[k] = k
  <2>1. c = n
    BY <1>10, FS_Interval
  <2>2. ASSUME NEW i \in S PROVE rank[i] = i - 1
    <3>1. Below(i) = 1 .. i - 1
      BY <1>10, <2>2
    <3>2. Cardinality(1 .. i - 1) = i - 1
      BY <1>10, <2>2, FS_Interval
    <3>3. QED
      BY <1>6, <3>1, <3>2
  <2>3. rank[InOrder(S)[k]] = k - 1 /\ InOrder(S)[k] \in S
    BY <1>8, <2>1
  <2>4. QED
    BY <1>10, <2>1, <2>2, <2>3
<1> HIDE DEF Nth
<1>11. InOrder(S) \in [1 .. c -> S]
  BY <1>7, <1>8
<1>12. QED
  BY <1>1, <1>9, <1>10, <1>11

-----------------------------------------------------------------------------
(* FlattenSeq by its prefixes: each is the one before and one more part.   *)
LEMMA Flattened ==
  ASSUME NEW C, NEW e \in Seq(Seq(C)), e # <<>>
  PROVE  \E g \in [1 .. Len(e) -> Seq(C)] :
           /\ g[1] = e[1]
           /\ \A i \in 2 .. Len(e) : g[i] = g[i - 1] \o e[i]
           /\ FlattenSeq(e) = g[Len(e)]
<1> DEFINE n == Len(e)
           Upto(m) == \E g \in [1 .. m -> Seq(C)] :
                        g[1] = e[1] /\ \A i \in 2 .. m : g[i] = g[i - 1] \o e[i]
           Bad == {m \in 1 .. n : ~ Upto(m)}
<1>1. n \in Nat \ {0} /\ \A i \in 1 .. n : e[i] \in Seq(C)
  OBVIOUS
<1> HIDE DEF n, Upto
<1>2. Bad = {}
  <2> SUFFICES ASSUME Bad # {} PROVE FALSE
    OBVIOUS
  <2>1. PICK m \in Bad : \A l \in Bad : m <= l
    <3>1. Bad \in SUBSET Nat
      BY <1>1
    <3>2. QED
      BY <3>1, Least
  <2>2. m \in 1 .. n /\ ~ Upto(m)
    OBVIOUS
  <2>3. CASE m = 1
    <3>1. [i \in 1 .. 1 |-> e[1]] \in [1 .. m -> Seq(C)]
      BY <1>1, <2>3
    <3> DEFINE one == [i \in 1 .. 1 |-> e[1]]
    <3>2. one[1] = e[1] /\ \A i \in 2 .. m : FALSE
      BY <2>3
    <3> HIDE DEF one
    <3>3. one \in [1 .. m -> Seq(C)]
      BY <3>1 DEF one
    <3>4. Upto(m)
      BY <3>2, <3>3, Zenon DEF Upto
    <3>5. QED
      BY <2>2, <3>4
  <2>4. CASE m > 1
    <3>1. m - 1 \in 1 .. n /\ Upto(m - 1)
      <4>1. m - 1 \in 1 .. n /\ m \in Nat /\ ~ (m <= m - 1)
        BY <1>1, <2>2, <2>4
      <4>2. m - 1 \notin Bad
        BY <2>1, <4>1
      <4>3. QED
        BY <4>1, <4>2
    <3>2. PICK g \in [1 .. m - 1 -> Seq(C)] :
                 g[1] = e[1] /\ \A i \in 2 .. m - 1 : g[i] = g[i - 1] \o e[i]
      BY <3>1 DEF Upto
    <3> DEFINE h == [i \in 1 .. m |-> IF i = m THEN g[m - 1] \o e[m] ELSE g[i]]
    <3>3. g[m - 1] \o e[m] \in Seq(C)
      BY <1>1, <2>2, <3>1, <3>2
    <3>4. h \in [1 .. m -> Seq(C)]
      <4>1. \A i \in 1 .. m : i # m => i \in 1 .. m - 1
        BY <2>2
      <4>2. QED
        BY <3>3, <4>1
    <3>5. h[1] = e[1]
      BY <2>2, <2>4, <3>2
    <3>6. ASSUME NEW i \in 2 .. m PROVE h[i] = h[i - 1] \o e[i]
      <4>1. h[i - 1] = g[i - 1]
        BY <2>2, <3>6
      <4>2. CASE i = m
        <5>0. m \in 1 .. m
          BY <1>1, <2>2
        <5>1. h[m] = g[m - 1] \o e[m]
          BY <5>0, Zenon
        <5>2. QED
          BY <4>1, <4>2, <5>1, Zenon
      <4>3. CASE i # m
        <5>1. i \in 2 .. m - 1
          BY <2>2, <4>3
        <5>2. h[i] = g[i]
          BY <5>1, <2>2
        <5>3. QED
          BY <3>2, <4>1, <5>1, <5>2
      <4>4. QED
        BY <4>2, <4>3
    <3> HIDE DEF h
    <3>7. Upto(m)
      BY <3>4, <3>5, <3>6, Zenon DEF Upto
    <3>8. QED
      BY <2>2, <3>7
  <2>5. QED
    BY <2>2, <2>3, <2>4
<1>3. PICK g \in [1 .. n -> Seq(C)] :
             g[1] = e[1] /\ \A i \in 2 .. n : g[i] = g[i - 1] \o e[i]
  <2>1. n \in 1 .. n
    BY <1>1
  <2>2. Upto(n)
    BY <1>2, <2>1
  <2>3. QED
    BY <2>2 DEF Upto
<1> DEFINE By(h) == [i \in 1 .. n |-> IF i = 1 THEN e[i] ELSE h[i - 1] \o e[i]]
           flatten == CHOOSE h : h = By(h)
<1>4. g = By(g)
  <2>1. ASSUME NEW i \in 1 .. n PROVE g[i] = By(g)[i]
    <3>1. CASE i = 1
      BY <1>3, <3>1
    <3>2. CASE i # 1
      <4>1. i \in 2 .. n
        BY <1>1, <3>2
      <4>2. QED
        BY <1>3, <3>2, <4>1
    <3>3. QED
      BY <3>1, <3>2
  <2>2. QED
    BY <2>1
<1>5. flatten = By(flatten)
  <2> HIDE DEF By
  <2>1. QED
    BY <1>4, Zenon
<1>6. FlattenSeq(e) = flatten[n]
  <2>1. n # 0
    BY <1>1
  <2>2. QED
    BY <2>1, Zenon DEF FlattenSeq, n
<1> HIDE DEF flatten
<1>7. /\ \A i \in 1 .. n : flatten[i] = IF i = 1 THEN e[i] ELSE flatten[i - 1] \o e[i]
      /\ DOMAIN flatten = 1 .. n
      /\ flatten = [i \in 1 .. n |-> flatten[i]]
  BY <1>5
<1> DEFINE Off == {i \in 1 .. n : flatten[i] # g[i]}
<1>8. Off = {}
  <2> SUFFICES ASSUME Off # {} PROVE FALSE
    OBVIOUS
  <2>1. PICK m \in Off : \A l \in Off : m <= l
    <3>1. Off \in SUBSET Nat
      BY <1>1
    <3>2. QED
      BY <3>1, Least
  <2>2. m \in 1 .. n /\ flatten[m] # g[m]
    OBVIOUS
  <2>3. m # 1
    BY <1>3, <1>7, <2>2
  <2>4. m - 1 \in 1 .. n /\ m \in 2 .. n
    BY <1>1, <2>2, <2>3
  <2>5. flatten[m - 1] = g[m - 1]
    BY <2>1, <2>4
  <2>6. flatten[m] = flatten[m - 1] \o e[m]
    BY <1>7, <2>2, <2>3
  <2>7. g[m] = g[m - 1] \o e[m]
    BY <1>3, <2>4
  <2>8. QED
    BY <2>2, <2>5, <2>6, <2>7
<1>9. FlattenSeq(e) = g[n]
  <2>1. n \in 1 .. n
    BY <1>1
  <2>2. flatten[n] = g[n]
    BY <1>8, <2>1
  <2>3. QED
    BY <1>6, <2>2
<1>10. QED
  BY <1>3, <1>9, Zenon DEF n

(* A constraint is expanded to a list of constraints that contains it;     *)
(* only conditions on array items yield more than one.                     *)
LEMMA ExpandedOk ==
  ASSUME NEW fn, NEW c \in ConstraintType
  PROVE  /\ Expanded(fn, c) \in Seq(ConstraintType)
         /\ \E k \in 1 .. Len(Expanded(fn, c)) : Expanded(fn, c)[k] = c
         /\ fn.indexed = {} => Expanded(fn, c) = <<c>>
<1> DEFINE a == Constraint("additional", c.cond, FALSE, FALSE)
<1>1. a \in ConstraintType
  BY DEF Constraint, ConstraintType
<1> HIDE DEF a
<1>2. CASE c.kind = "decision" /\ c.cond \in fn.indexed
  <2>1. Expanded(fn, c) = <<a, c>>
    BY <1>2 DEF Expanded, a
  <2>2. <<a, c>> \in Seq(ConstraintType) /\ Len(<<a, c>>) = 2 /\ <<a, c>>[2] = c
    BY <1>1
  <2>3. QED
    BY <1>2, <2>1, <2>2
<1>3. CASE ~ (c.kind = "decision" /\ c.cond \in fn.indexed)
  <2>1. Expanded(fn, c) = <<c>>
    BY <1>3 DEF Expanded
  <2>2. <<c>> \in Seq(ConstraintType) /\ Len(<<c>>) = 1 /\ <<c>>[1] = c
    OBVIOUS
  <2>3. QED
    BY <2>1, <2>2
<1>4. QED
  BY <1>2, <1>3

(* AddAll keeps every constraint, and adds none unless an array item has   *)
(* an index.                                                               *)
LEMMA AddAllOk ==
  ASSUME NEW fn, NEW cs \in Seq(ConstraintType)
  PROVE  /\ AddAll(fn, cs) \in Seq(ConstraintType)
         /\ \A i \in 1 .. Len(cs) : \E k \in 1 .. Len(AddAll(fn, cs)) : AddAll(fn, cs)[k] = cs[i]
         /\ fn.indexed = {} => AddAll(fn, cs) = cs
<1> DEFINE n == Len(cs)
           e == [i \in 1 .. n |-> Expanded(fn, cs[i])]
           C == ConstraintType
<1>1. n \in Nat /\ \A i \in 1 .. n : cs[i] \in C
  OBVIOUS
<1>2. /\ e \in Seq(Seq(C)) /\ Len(e) = n
      /\ \A i \in 1 .. n : /\ e[i] \in Seq(C)
                           /\ \E k \in 1 .. Len(e[i]) : e[i][k] = cs[i]
                           /\ fn.indexed = {} => e[i] = <<cs[i]>>
  <2>1. \A i \in 1 .. n : /\ Expanded(fn, cs[i]) \in Seq(C)
                          /\ \E k \in 1 .. Len(Expanded(fn, cs[i])) : Expanded(fn, cs[i])[k] = cs[i]
                          /\ fn.indexed = {} => Expanded(fn, cs[i]) = <<cs[i]>>
    BY <1>1, ExpandedOk
  <2>2. e \in [1 .. n -> Seq(C)]
    BY <2>1
  <2>3. e \in Seq(Seq(C)) /\ Len(e) = n
    BY <1>1, <2>2
  <2>4. QED
    BY <2>1, <2>3
<1>3. AddAll(fn, cs) = FlattenSeq(e)
  BY DEF AddAll
<1> HIDE DEF e, C, n
<1>4. CASE n = 0
  <2>1. FlattenSeq(e) = e
    BY <1>2, <1>4 DEF FlattenSeq
  <2>2. e = <<>> /\ cs = <<>>
    BY <1>2, <1>4 DEF n
  <2>3. QED
    BY <1>2, <1>3, <1>4, <2>1, <2>2 DEF C
<1>5. CASE n # 0
  <2>1. e # <<>>
    BY <1>2, <1>5
  <2>2. PICK g \in [1 .. n -> Seq(C)] :
               /\ g[1] = e[1]
               /\ \A i \in 2 .. n : g[i] = g[i - 1] \o e[i]
               /\ FlattenSeq(e) = g[n]
    <3>1. \E g \in [1 .. Len(e) -> Seq(C)] :
               /\ g[1] = e[1]
               /\ \A i \in 2 .. Len(e) : g[i] = g[i - 1] \o e[i]
               /\ FlattenSeq(e) = g[Len(e)]
      BY <1>2, <2>1, Flattened, Zenon
    <3>2. QED
      BY <1>2, <3>1
  <2> DEFINE Has(m) == \A i \in 1 .. m : \E k \in 1 .. Len(g[m]) : g[m][k] = cs[i]
             Same(m) == fn.indexed = {} => g[m] = [j \in 1 .. m |-> cs[j]]
             Bad     == {m \in 1 .. n : ~ (Has(m) /\ Same(m))}
  <2>3. Has(1) /\ Same(1)
    <3>1. 1 \in 1 .. n /\ g[1] = e[1]
      BY <1>1, <1>5, <2>2
    <3>2. Has(1)
      BY <1>2, <3>1
    <3>3. fn.indexed = {} => g[1] = <<cs[1]>>
      BY <1>2, <3>1
    <3>4. <<cs[1]>> = [j \in 1 .. 1 |-> cs[j]]
      OBVIOUS
    <3>5. QED
      BY <3>2, <3>3, <3>4
  <2>4. ASSUME NEW m \in 2 .. n, Has(m - 1), Same(m - 1) PROVE Has(m) /\ Same(m)
    <3> DEFINE s == g[m - 1]
               t == e[m]
    <3>0. m - 1 \in 1 .. n /\ m \in 1 .. n
      BY <1>1
    <3>1. g[m] = s \o t /\ s \in Seq(C) /\ t \in Seq(C)
      BY <1>2, <2>2, <3>0
    <3> HIDE DEF s, t
    <3>2. /\ Len(g[m]) = Len(s) + Len(t) /\ Len(s) \in Nat /\ Len(t) \in Nat
          /\ \A k \in 1 .. Len(s) : k \in 1 .. Len(g[m]) /\ g[m][k] = s[k]
          /\ \A k \in 1 .. Len(t) : Len(s) + k \in 1 .. Len(g[m]) /\ g[m][Len(s) + k] = t[k]
      BY <3>1
    <3>3. Has(m)
      <4> SUFFICES ASSUME NEW i \in 1 .. m PROVE \E k \in 1 .. Len(g[m]) : g[m][k] = cs[i]
        OBVIOUS
      <4>1. CASE i = m
        <5>1. PICK k \in 1 .. Len(t) : t[k] = cs[i]
          BY <1>2, <3>0, <4>1 DEF t
        <5>2. Len(s) + k \in 1 .. Len(g[m]) /\ g[m][Len(s) + k] = cs[i]
          BY <3>2, <5>1
        <5>3. QED
          BY <5>2
      <4>2. CASE i # m
        <5>1. i \in 1 .. m - 1
          BY <1>1, <4>2
        <5>2. PICK k \in 1 .. Len(s) : s[k] = cs[i]
          BY <2>4, <5>1 DEF s
        <5>3. k \in 1 .. Len(g[m]) /\ g[m][k] = cs[i]
          BY <3>2, <5>2
        <5>4. QED
          BY <5>3
      <4>3. QED
        BY <4>1, <4>2
    <3>4. ASSUME fn.indexed = {} PROVE g[m] = [j \in 1 .. m |-> cs[j]]
      <4>1. s = [j \in 1 .. m - 1 |-> cs[j]] /\ t = <<cs[m]>>
        BY <1>2, <2>4, <3>0, <3>4 DEF s, t
      <4>2. Len(s) = m - 1 /\ Len(t) = 1
        BY <3>0, <3>1, <4>1
      <4>3. g[m] \in Seq(C) /\ Len(g[m]) = m
        BY <2>2, <3>0, <3>2, <4>2
      <4>4. ASSUME NEW j \in 1 .. m PROVE g[m][j] = cs[j]
        <5>1. CASE j = m
          BY <3>2, <4>1, <4>2, <5>1
        <5>2. CASE j # m
          <6>1. j \in 1 .. m - 1
            BY <3>0, <5>2
          <6>2. QED
            BY <3>2, <4>1, <4>2, <6>1
        <5>3. QED
          BY <5>1, <5>2
      <4>5. QED
        BY <4>3, <4>4
    <3>5. QED
      BY <3>3, <3>4
  <2> HIDE DEF Has, Same
  <2>5. Bad = {}
    <3> SUFFICES ASSUME Bad # {} PROVE FALSE
      OBVIOUS
    <3>1. PICK m \in Bad : \A l \in Bad : m <= l
      <4>1. Bad \in SUBSET Nat
        BY <1>1
      <4>2. QED
        BY <4>1, Least
    <3>2. m \in 1 .. n /\ ~ (Has(m) /\ Same(m))
      OBVIOUS
    <3>3. m # 1
      BY <2>3, <3>2
    <3>4. m \in 2 .. n /\ m - 1 \in 1 .. n /\ ~ (m <= m - 1)
      BY <1>1, <3>2, <3>3
    <3>5. Has(m - 1) /\ Same(m - 1)
      BY <3>1, <3>4
    <3>6. QED
      BY <2>4, <3>2, <3>4, <3>5
  <2>6. n \in 1 .. n
    BY <1>1, <1>5
  <2>7. g[n] \in Seq(C) /\ Has(n) /\ Same(n)
    BY <2>2, <2>5, <2>6
  <2>8. cs = [j \in 1 .. n |-> cs[j]]
    BY DEF n
  <2>9. AddAll(fn, cs) = g[n]
    BY <1>3, <2>2
  <2>10. \A i \in 1 .. n : \E k \in 1 .. Len(AddAll(fn, cs)) : AddAll(fn, cs)[k] = cs[i]
    BY <2>7, <2>9 DEF Has
  <2>11. fn.indexed = {} => AddAll(fn, cs) = cs
    BY <2>7, <2>8, <2>9 DEF Same
  <2>12. QED
    BY <2>7, <2>9, <2>10, <2>11 DEF C, n
<1>6. QED
  BY <1>4, <1>5

-----------------------------------------------------------------------------
(* What a list of constraints asks for: its decisions, each of them. *)
LEMMA AskedOk ==
  ASSUME NEW cs \in Seq(ConstraintType)
  PROVE  /\ Asked(cs) \in Seq(Node \X BOOLEAN)
         /\ \A i \in 1 .. Len(cs) : cs[i].kind = "decision" =>
              \E k \in 1 .. Len(Asked(cs)) : Asked(cs)[k] = <<cs[i].cond, cs[i].taken # cs[i].negated>>
         /\ \A k \in 1 .. Len(Asked(cs)) : \E i \in 1 .. Len(cs) :
              cs[i].kind = "decision" /\ Asked(cs)[k] = <<cs[i].cond, cs[i].taken # cs[i].negated>>
         /\ (\A i \in 1 .. Len(cs) : cs[i].kind = "decision") =>
              /\ Len(Asked(cs)) = Len(cs)
              /\ \A i \in 1 .. Len(cs) : Asked(cs)[i] = <<cs[i].cond, cs[i].taken # cs[i].negated>>
<1> DEFINE S == {i \in 1 .. Len(cs) : cs[i].kind = "decision"}
           at == InOrder(S)
           n == Cardinality(S)
           Answer(c) == <<c.cond, c.taken # c.negated>>
<1>1. /\ n \in Nat /\ at \in [1 .. n -> S]
      /\ \A i \in S : \E k \in 1 .. n : at[k] = i
      /\ S = 1 .. Len(cs) => \A k \in 1 .. Len(cs) : n = Len(cs) /\ at[k] = k
  <2>1. Len(cs) \in Nat /\ S \in SUBSET (1 .. Len(cs))
    OBVIOUS
  <2> HIDE DEF S
  <2>2. QED
    BY <2>1, InOrderOk
<1>2. S \subseteq 1 .. Len(cs) /\ \A i \in S : cs[i].kind = "decision" /\ cs[i] \in ConstraintType
  OBVIOUS
<1>3. \A i \in 1 .. Len(cs) : cs[i].kind = "decision" => i \in S
  OBVIOUS
<1>4. S = {} => n = 0
  BY FS_EmptySet
<1> HIDE DEF S, n
<1>5. Len(at) = n
  BY <1>1
<1>6. Asked(cs) = [k \in 1 .. n |-> Answer(cs[at[k]])]
  BY <1>5 DEF Asked, S
<1> HIDE DEF at
<1>7. \A i \in S : Answer(cs[i]) \in Node \X BOOLEAN
  BY <1>2 DEF ConstraintType
<1> HIDE DEF Answer
<1>8. Asked(cs) \in Seq(Node \X BOOLEAN) /\ Len(Asked(cs)) = n
  <2>1. Asked(cs) \in [1 .. n -> Node \X BOOLEAN]
    BY <1>1, <1>6, <1>7
  <2>2. QED
    BY <1>1, <2>1
<1>9. ASSUME NEW i \in 1 .. Len(cs), cs[i].kind = "decision"
      PROVE  \E k \in 1 .. Len(Asked(cs)) : Asked(cs)[k] = Answer(cs[i])
  BY <1>1, <1>3, <1>6, <1>8, <1>9
<1>10. ASSUME NEW k \in 1 .. Len(Asked(cs))
       PROVE  \E i \in 1 .. Len(cs) : cs[i].kind = "decision" /\ Asked(cs)[k] = Answer(cs[i])
  <2>1. k \in 1 .. n
    BY <1>8, <1>10
  <2>2. at[k] \in S /\ Asked(cs)[k] = Answer(cs[at[k]])
    BY <1>1, <1>6, <2>1
  <2>3. QED
    BY <1>2, <2>2
<1>11. ASSUME \A i \in 1 .. Len(cs) : cs[i].kind = "decision"
       PROVE  Len(Asked(cs)) = Len(cs) /\ \A i \in 1 .. Len(cs) : Asked(cs)[i] = Answer(cs[i])
  <2>1. S = 1 .. Len(cs)
    BY <1>2, <1>3, <1>11
  <2>2. Len(cs) \in Nat
    OBVIOUS
  <2>3. CASE Len(cs) = 0
    <3>1. S = {}
      BY <2>1, <2>3
    <3>2. QED
      BY <1>4, <1>8, <2>3, <3>1
  <2>4. CASE Len(cs) # 0
    <3>1. n = Len(cs)
      BY <1>1, <2>1, <2>2, <2>4
    <3>2. QED
      BY <1>1, <1>6, <1>8, <2>1, <3>1
  <2>5. QED
    BY <2>3, <2>4
<1>12. QED
  BY <1>8, <1>9, <1>10, <1>11 DEF Answer

(* The decisions of a path: those of its conditions, each of them. *)
LEMMA DecisionsOk ==
  ASSUME NEW fn, NEW path \in Seq(Node)
  PROVE  /\ Decisions(fn, path) \in Seq(ConstraintType)
         /\ \A i \in 1 .. Len(path) : path[i] \in fn.cond =>
              \E k \in 1 .. Len(Decisions(fn, path)) : Decisions(fn, path)[k] = Decision(fn, path, i)
         /\ \A k \in 1 .. Len(Decisions(fn, path)) : \E i \in 1 .. Len(path) :
              path[i] \in fn.cond /\ Decisions(fn, path)[k] = Decision(fn, path, i)
<1> DEFINE S == {i \in 1 .. Len(path) : path[i] \in fn.cond}
           at == InOrder(S)
           n == Cardinality(S)
<1>1. /\ n \in Nat /\ at \in [1 .. n -> S]
      /\ \A i \in S : \E k \in 1 .. n : at[k] = i
  <2>1. Len(path) \in Nat /\ S \in SUBSET (1 .. Len(path))
    OBVIOUS
  <2> HIDE DEF S
  <2>2. QED
    BY <2>1, InOrderOk
<1>2. S \subseteq 1 .. Len(path) /\ \A i \in S : path[i] \in fn.cond /\ path[i] \in Node
  OBVIOUS
<1>3. \A i \in 1 .. Len(path) : path[i] \in fn.cond => i \in S
  OBVIOUS
<1> HIDE DEF S, n
<1>4. Len(at) = n
  BY <1>1
<1>5. Decisions(fn, path) = [k \in 1 .. n |-> Decision(fn, path, at[k])]
  BY <1>4 DEF Decisions, S
<1> HIDE DEF at
<1>6. \A i \in S : Decision(fn, path, i) \in ConstraintType
  BY <1>2 DEF Decision, Constraint, ConstraintType
<1>7. Decisions(fn, path) \in Seq(ConstraintType) /\ Len(Decisions(fn, path)) = n
  <2>1. Decisions(fn, path) \in [1 .. n -> ConstraintType]
    BY <1>1, <1>5, <1>6
  <2>2. QED
    BY <1>1, <2>1
<1>8. ASSUME NEW i \in 1 .. Len(path), path[i] \in fn.cond
      PROVE  \E k \in 1 .. Len(Decisions(fn, path)) : Decisions(fn, path)[k] = Decision(fn, path, i)
  BY <1>1, <1>3, <1>5, <1>7, <1>8
<1>9. ASSUME NEW k \in 1 .. Len(Decisions(fn, path))
      PROVE  \E i \in 1 .. Len(path) :
               path[i] \in fn.cond /\ Decisions(fn, path)[k] = Decision(fn, path, i)
  <2>1. k \in 1 .. n
    BY <1>7, <1>9
  <2>2. at[k] \in S /\ Decisions(fn, path)[k] = Decision(fn, path, at[k])
    BY <1>1, <1>5, <2>1
  <2>3. QED
    BY <1>2, <2>2
<1>10. QED
  BY <1>7, <1>8, <1>9

-----------------------------------------------------------------------------
(* The node the branch of a condition leads to *)
Toward(fn, c, b) == IF b THEN fn.true[c] ELSE fn.false[c]

(* The parts of a function *)
LEMMA FunctionTyped ==
  ASSUME NEW fn \in FunctionType
  PROVE  /\ fn.cond \subseteq Node /\ fn.scopes \subseteq Node
         /\ fn.true \in [Node -> Node] /\ fn.false \in [Node -> Node]
         /\ fn.marks \in [TestData -> Seq(Node)] /\ fn.testpaths \in Seq(Seq(Node))
         /\ \A t \in TestData : fn.marks[t] \in Seq(Node)
BY DEF FunctionType

(* The marks of an execution are nodes. *)
LEMMA MarksTyped ==
  ASSUME NEW fn \in FunctionType, NEW t \in TestData
  PROVE  /\ fn.marks[t] \in Seq(Node)
         /\ MarkedNodes(fn, t) \subseteq Node
         /\ Range(fn.marks[t]) \subseteq MarkedNodes(fn, t)
         /\ BranchesTaken(fn, t) \subseteq fn.cond \X BOOLEAN
<1>1. fn.marks[t] \in Seq(Node) /\ fn.scopes \subseteq Node
  BY FunctionTyped
<1>2. Range(fn.marks[t]) \subseteq Node
  BY <1>1 DEF Range
<1>3. QED
  BY <1>1, <1>2 DEF MarkedNodes, BranchesTaken

(* An execution that runs to the end makes each of its decisions: it comes *)
(* by the node the branch leads to.                                        *)
LEMMA DecisionTaken ==
  ASSUME NEW fn \in FunctionType, WellFormed(fn), NEW t \in TestData, Complete(fn, t),
         NEW i \in 1 .. Len(fn.marks[t]), fn.marks[t][i] \in fn.cond
  PROVE  Toward(fn, fn.marks[t][i], Decision(fn, fn.marks[t], i).taken) \in Range(fn.marks[t])
<1> DEFINE walk == fn.marks[t]
           c == walk[i]
<1>1. walk \in Seq(Node)
  BY FunctionTyped
<1>2. i < Len(walk)
  <2>1. SUFFICES ASSUME i = Len(walk) PROVE FALSE
    BY <1>1
  <2>2. End \in {fn.true[c], fn.false[c]}
    BY <2>1 DEF Complete, Last
  <2>3. fn.true[c] # End /\ fn.false[c] # End
    BY DEF WellFormed
  <2>4. QED
    BY <2>2, <2>3
<1>3. i \in 1 .. Len(walk) - 1 /\ i + 1 \in DOMAIN walk
  BY <1>1, <1>2
<1>4. walk[i + 1] \in {fn.true[c], fn.false[c]} /\ walk[i + 1] \in Range(walk)
  BY <1>3 DEF WellFormed, Range
<1>5. Decision(fn, walk, i).taken = (walk[i + 1] = fn.true[c])
  BY <1>2 DEF Decision, Constraint
<1> HIDE DEF walk
<1>6. Toward(fn, c, walk[i + 1] = fn.true[c]) = walk[i + 1]
  BY <1>4 DEF Toward
<1>7. QED
  BY <1>4, <1>5, <1>6 DEF walk

(* A test data that runs to the end and satisfies a list of constraints    *)
(* visits the nodes that their branches lead to.                           *)
LEMMA SolutionDrives ==
  ASSUME NEW fn \in FunctionType, WellFormed(fn), fn.exact,
         NEW cs \in Seq(ConstraintType), NEW t \in Solutions(fn, cs), Complete(fn, t),
         NEW k \in 1 .. Len(Asked(cs))
  PROVE  Toward(fn, Asked(cs)[k][1], Asked(cs)[k][2]) \in MarkedNodes(fn, t)
<1> DEFINE walk == fn.marks[t]
           made == Asked(Decisions(fn, walk))
<1>1. t \in TestData /\ Satisfies(fn, t, cs)
  BY DEF Solutions
<1>2. walk \in Seq(Node) /\ Range(walk) \subseteq MarkedNodes(fn, t)
  BY <1>1, MarksTyped
<1>3. Decisions(fn, walk) \in Seq(ConstraintType)
  BY <1>2, DecisionsOk
<1>4. made \in Seq(Node \X BOOLEAN) /\ Asked(cs) \in Seq(Node \X BOOLEAN)
  BY <1>3, AskedOk
<1>5. IsPrefix(Asked(cs), made)
  BY <1>1 DEF Satisfies
<1> HIDE DEF made
<1>6. k \in 1 .. Len(made) /\ Asked(cs)[k] = made[k]
  <2>1. Len(Asked(cs)) <= Len(made) /\ SubSeq(Asked(cs), 1, Len(Asked(cs))) = SubSeq(made, 1, Len(Asked(cs)))
    BY <1>5 DEF IsPrefix
  <2>2. /\ SubSeq(Asked(cs), 1, Len(Asked(cs)))[k] = Asked(cs)[k]
        /\ SubSeq(made, 1, Len(Asked(cs)))[k] = made[k]
    BY <1>4, <2>1
  <2>3. QED
    BY <1>4, <2>1, <2>2
<1> DEFINE ds == Decisions(fn, walk)
<1>7. PICK j \in 1 .. Len(ds) : made[k] = <<ds[j].cond, ds[j].taken # ds[j].negated>>
  <2>1. /\ Len(Asked(ds)) = Len(Asked(Decisions(fn, walk)))
        /\ \A l \in 1 .. Len(Asked(ds)) : \E j \in 1 .. Len(ds) :
              Asked(ds)[l] = <<ds[j].cond, ds[j].taken # ds[j].negated>>
    BY <1>3, AskedOk
  <2>2. made = Asked(ds)
    BY DEF made
  <2> HIDE DEF ds
  <2>3. QED
    BY <1>6, <2>1, <2>2
<1>8. PICK i \in 1 .. Len(walk) : walk[i] \in fn.cond /\ ds[j] = Decision(fn, walk, i)
  BY <1>2, DecisionsOk
<1>9. Decision(fn, walk, i).cond = walk[i] /\ Decision(fn, walk, i).negated = FALSE
      /\ Decision(fn, walk, i).taken \in BOOLEAN
  BY DEF Decision, Constraint
<1>10. Asked(cs)[k][1] = walk[i] /\ Asked(cs)[k][2] = Decision(fn, walk, i).taken
  <2> DEFINE d == Decision(fn, walk, i)
  <2>1. made[k] = <<d.cond, d.taken # d.negated>>
    BY <1>7, <1>8
  <2> HIDE DEF d
  <2>2. d.cond = walk[i] /\ (d.taken # d.negated) = d.taken
    BY <1>9, Zenon DEF d
  <2>3. made[k][1] = walk[i] /\ made[k][2] = d.taken
    BY <2>1, <2>2
  <2>4. QED
    BY <1>6, <2>3 DEF d
<1>11. Toward(fn, walk[i], Decision(fn, walk, i).taken) \in Range(walk)
  BY <1>1, <1>8, DecisionTaken
<1>12. QED
  BY <1>2, <1>10, <1>11

-----------------------------------------------------------------------------
(* The outer loop has not run out while the inner one runs, and there is a *)
(* test data to execute.                                                   *)
Loops ==
  /\ pc \in {"iterate", "execute", "select", "solve"} => depth < Depth
  /\ pc = "execute" => testdata \in TestData

(* Every mark and every branch comes from an execution that has left all   *)
(* of its marks and branches.                                              *)
Witnessed ==
  /\ \A n \in visited : \E t \in TestData :
       n \in MarkedNodes(f, t) /\ BranchesTaken(f, t) \subseteq executed
  /\ \A e \in executed : \E t \in TestData :
       e \in BranchesTaken(f, t) /\ MarkedNodes(f, t) \subseteq visited

(* canNegate is cleared when every constraint has been looked at. *)
Exhausted == \A i \in Within : IsDecision(i) => Negation(i) \in solved
FlagTrue  == ~ canNegate => Exhausted

IInv == TypeOK /\ Loops /\ Witnessed /\ FlagTrue

-----------------------------------------------------------------------------
(* BFSSelection selects a constraint that it may, or there is none. *)
LEMMA SelectedOk ==
  /\ Selected # 0 => Selected \in Within /\ Selectable(Selected)
  /\ Selected = 0 => \A i \in Within : ~ Selectable(i)
<1> DEFINE S == {i \in Within : Selectable(i)}
<1>1. S \in SUBSET Nat /\ 0 \notin S
  BY DEF Within
<1>2. CASE S = {}
  <2>1. Selected = 0
    BY <1>2 DEF Selected
  <2>2. QED
    BY <1>2, <2>1
<1>3. CASE S # {}
  <2>1. Min(S) \in S
    BY <1>1, <1>3, MinIn
  <2>2. Selected = Min(S)
    BY <1>3 DEF Selected
  <2>3. Selected \in S
    BY <2>1, <2>2
  <2>4. Selected # 0
    BY <2>3, <1>1
  <2>5. QED
    BY <2>3, <2>4
<1>4. QED
  BY <1>2, <1>3

-----------------------------------------------------------------------------
(* The inductive invariant holds initially.                                *)
LEMMA InitIInv == Init => IInv
<1> SUFFICES ASSUME Init PROVE IInv
  OBVIOUS
<1>1. /\ f \in Functions /\ depth \in 0 .. Depth /\ iteration \in 0 .. MaxIterations
      /\ tries \in 0 .. MaxTries
  BY BoundsAssumption DEF Init
<1>2. TypeOK
  BY <1>1 DEF Init, TypeOK
<1>3. Loops /\ Witnessed /\ FlagTrue
  BY DEF Init, Loops, Witnessed, FlagTrue
<1>4. QED
  BY <1>2, <1>3 DEF IInv

(* An execution that leaves marks *)
LEMMA MarkOk ==
  ASSUME IInv, pc = "execute", Mark, f' = f
  PROVE  visited' \subseteq Node /\ executed' \subseteq f.cond \X BOOLEAN
         /\ covered' \in BOOLEAN /\ Witnessed'
<1>1. testdata \in TestData /\ f \in Functions
  BY DEF IInv, Loops, TypeOK
<1>2. /\ MarkedNodes(f, testdata) \subseteq Node
      /\ BranchesTaken(f, testdata) \subseteq f.cond \X BOOLEAN
  BY <1>1, FunctionsAssumption, MarksTyped
<1>3. visited' \subseteq Node /\ executed' \subseteq f.cond \X BOOLEAN
  BY <1>2 DEF IInv, TypeOK, Mark
<1>4. covered' \in BOOLEAN
  BY DEF Mark, FullyCovered
<1>5. Witnessed'
  <2>1. ASSUME NEW n \in visited'
        PROVE  \E t \in TestData : n \in MarkedNodes(f, t) /\ BranchesTaken(f, t) \subseteq executed'
    <3>1. CASE n \in visited
      BY <3>1 DEF IInv, Witnessed, Mark
    <3>2. CASE n \in MarkedNodes(f, testdata)
      BY <1>1, <3>2 DEF Mark
    <3>3. QED
      BY <3>1, <3>2 DEF Mark
  <2>2. ASSUME NEW e \in executed'
        PROVE  \E t \in TestData : e \in BranchesTaken(f, t) /\ MarkedNodes(f, t) \subseteq visited'
    <3>1. CASE e \in executed
      BY <3>1 DEF IInv, Witnessed, Mark
    <3>2. CASE e \in BranchesTaken(f, testdata)
      BY <1>1, <3>2 DEF Mark
    <3>3. QED
      BY <3>1, <3>2 DEF Mark
  <2>3. QED
    BY <2>1, <2>2 DEF Witnessed
<1>6. QED
  BY <1>3, <1>4, <1>5

(* BFSSelection adds what it has looked at to the solved constraints, and  *)
(* clears the flag only when that is everything.                           *)
LEMMA LookedAtOk ==
  ASSUME NEW new,
         new = solved \cup {Negation(i) : i \in {i \in LookedAt : IsDecision(i)}},
         LookedAt = 1 .. Len(constraints) \/ Selected = 0
  PROVE  \A i \in Within : IsDecision(i) => Negation(i) \in new
<1>1. Within \subseteq LookedAt
  BY DEF LookedAt, Within
<1>2. QED
  BY <1>1

-----------------------------------------------------------------------------
(* Every step preserves the inductive invariant.                           *)
LEMMA StepIInv == IInv /\ [Next]_vars => IInv'
<1> SUFFICES ASSUME IInv, [Next]_vars PROVE IInv'
  OBVIOUS
<1> USE DEF IInv
<1>1. CASE EnterDepth
  <2>1. TypeOK' /\ Loops'
    BY <1>1, BoundsAssumption DEF EnterDepth, TypeOK, Loops, coverVars, searchVars
  <2>2. Witnessed' /\ FlagTrue'
    BY <1>1 DEF EnterDepth, Witnessed, FlagTrue, Exhausted, Within, IsDecision, Negation, coverVars, searchVars
  <2>3. QED
    BY <2>1, <2>2
<1>2. CASE LeaveDepth
  <2>1. TypeOK' /\ Loops'
    BY <1>2, BoundsAssumption DEF LeaveDepth, TypeOK, Loops, coverVars, searchVars
  <2>2. Witnessed' /\ FlagTrue'
    BY <1>2 DEF LeaveDepth, Witnessed, FlagTrue, Exhausted, Within, IsDecision, Negation, coverVars, searchVars
  <2>3. QED
    BY <2>1, <2>2
<1>3. CASE Finish
  <2>1. TypeOK' /\ Loops'
    BY <1>3 DEF Finish, TypeOK, Loops, loopVars, coverVars, searchVars
  <2>2. Witnessed' /\ FlagTrue'
    BY <1>3 DEF Finish, Witnessed, FlagTrue, Exhausted, Within, IsDecision, Negation, coverVars, searchVars
  <2>3. QED
    BY <2>1, <2>2
<1>4. CASE Iterate
  <2>1. testdata' \in TestData /\ origin' \in {"random", "solved"}
    BY <1>4 DEF Iterate, TypeOK
  <2>2. iteration' \in 0 .. MaxIterations
    BY <1>4, BoundsAssumption DEF Iterate, TypeOK
  <2>3. TypeOK' /\ Loops'
    BY <1>4, <2>1, <2>2 DEF Iterate, TypeOK, Loops, coverVars, searchVars
  <2>4. Witnessed' /\ FlagTrue'
    BY <1>4 DEF Iterate, Witnessed, FlagTrue, Exhausted, Within, IsDecision, Negation, coverVars, searchVars
  <2>5. QED
    BY <2>3, <2>4
<1>5. CASE ExecuteNothing
  <2>1. TypeOK' /\ Loops'
    BY <1>5 DEF ExecuteNothing, TypeOK, Loops, loopVars, coverVars, searchVars
  <2>2. Witnessed' /\ FlagTrue'
    BY <1>5 DEF ExecuteNothing, Witnessed, FlagTrue, Exhausted, Within, IsDecision, Negation, coverVars, searchVars
  <2>3. QED
    BY <2>1, <2>2
<1>6. CASE ExecuteIncomplete
  <2>1. /\ visited' \subseteq Node /\ executed' \subseteq f.cond \X BOOLEAN
        /\ covered' \in BOOLEAN /\ Witnessed'
    BY <1>6, MarkOk DEF ExecuteIncomplete
  <2>2. TypeOK' /\ Loops'
    BY <1>6, <2>1 DEF ExecuteIncomplete, TypeOK, Loops, loopVars, searchVars
  <2>3. FlagTrue'
    BY <1>6 DEF ExecuteIncomplete, FlagTrue, Exhausted, Within, IsDecision, Negation, searchVars
  <2>4. QED
    BY <2>1, <2>2, <2>3
<1>7. CASE ExecuteComplete
  <2>1. /\ visited' \subseteq Node /\ executed' \subseteq f.cond \X BOOLEAN
        /\ covered' \in BOOLEAN /\ Witnessed'
    BY <1>7, MarkOk DEF ExecuteComplete
  <2>2. tries' \in 0 .. MaxTries /\ canNegate' \in BOOLEAN /\ pc' \in {"iterate", "select"}
    <3>1. CASE covered'
      BY <1>7, <3>1 DEF ExecuteComplete, TypeOK
    <3>2. CASE ~ covered'
      BY <1>7, <3>2, BoundsAssumption DEF ExecuteComplete
    <3>3. QED
      BY <3>1, <3>2
  <2>3. TypeOK' /\ Loops'
    BY <1>7, <2>1, <2>2 DEF ExecuteComplete, TypeOK, Loops, loopVars
  <2>4. FlagTrue'
    BY <1>7 DEF ExecuteComplete, FlagTrue, Exhausted, Within, IsDecision, Negation
  <2>5. QED
    BY <2>1, <2>3, <2>4
<1>8. CASE Select
  <2>1. tries' \in 0 .. MaxTries /\ canNegate' \in BOOLEAN
    BY <1>8, BoundsAssumption DEF Select, Searching, TypeOK
  <2>2. TypeOK' /\ Loops'
    BY <1>8, <2>1 DEF Select, Searching, TypeOK, Loops, loopVars, coverVars
  <2>3. ASSUME ~ canNegate' PROVE Exhausted'
    <3>1. LookedAt = 1 .. Len(constraints)
      BY <1>8, <2>3 DEF Select
    <3>2. \A i \in Within : IsDecision(i) => Negation(i) \in solved'
      BY <1>8, <3>1, LookedAtOk DEF Select
    <3>3. QED
      BY <1>8, <3>2 DEF Select, Exhausted, Within, IsDecision, Negation
  <2>4. Witnessed'
    BY <1>8 DEF Select, Witnessed, coverVars
  <2>5. QED
    BY <2>2, <2>3, <2>4 DEF FlagTrue
<1>9. CASE SelectNothing
  <2>1. tries' \in 0 .. MaxTries
    BY <1>9, BoundsAssumption DEF SelectNothing, Searching, TypeOK
  <2>2. TypeOK' /\ Loops'
    BY <1>9, <2>1 DEF SelectNothing, Searching, TypeOK, Loops, loopVars, coverVars
  <2>3. \A i \in Within : IsDecision(i) => Negation(i) \in solved'
    BY <1>9, LookedAtOk DEF SelectNothing
  <2>4. Exhausted'
    BY <1>9, <2>3 DEF SelectNothing, Exhausted, Within, IsDecision, Negation
  <2>5. Witnessed'
    BY <1>9 DEF SelectNothing, Witnessed, coverVars
  <2>6. QED
    BY <2>2, <2>4, <2>5 DEF FlagTrue
<1>10. CASE GiveUp
  <2>1. TypeOK' /\ Loops'
    BY <1>10 DEF GiveUp, TypeOK, Loops, loopVars, coverVars, searchVars
  <2>2. Witnessed' /\ FlagTrue'
    BY <1>10 DEF GiveUp, Witnessed, FlagTrue, Exhausted, Within, IsDecision, Negation, coverVars, searchVars
  <2>3. QED
    BY <2>1, <2>2
<1>11. CASE SolveNew
  <2>1. testdata' \in TestData
    BY <1>11 DEF SolveNew, Solutions
  <2>2. TypeOK' /\ Loops'
    BY <1>11, <2>1 DEF SolveNew, TypeOK, Loops, loopVars, coverVars, searchVars
  <2>3. Witnessed' /\ FlagTrue'
    BY <1>11 DEF SolveNew, Witnessed, FlagTrue, Exhausted, Within, IsDecision, Negation, coverVars, searchVars
  <2>4. QED
    BY <2>2, <2>3
<1>12. CASE SolveDuplicate \/ NoSolution \/ SolveThrows
  <2>1. TypeOK' /\ Loops'
    BY <1>12 DEF SolveDuplicate, NoSolution, SolveThrows, TypeOK, Loops, loopVars, coverVars, searchVars
  <2>2. Witnessed' /\ FlagTrue'
    BY <1>12 DEF SolveDuplicate, NoSolution, SolveThrows, Witnessed, FlagTrue, Exhausted, Within, IsDecision, Negation, coverVars, searchVars
  <2>3. QED
    BY <2>1, <2>2
<1>13. CASE UNCHANGED vars
  BY <1>13 DEF vars, TypeOK, Loops, Witnessed, FlagTrue, Exhausted, Within, IsDecision, Negation
<1>14. QED
  BY <1>1, <1>2, <1>3, <1>4, <1>5, <1>6, <1>7, <1>8, <1>9, <1>10, <1>11, <1>12, <1>13
     DEF Next, Step, Execute, NextData, Terminated

(* The inductive invariant holds in every reachable state.                 *)
LEMMA Inductive == Spec => []IInv
BY InitIInv, StepIInv, PTL DEF Spec

(* Every reachable state of DART is well typed. *)
THEOREM TypeCorrect == Spec => []TypeOK
BY Inductive, PTL DEF IInv

-----------------------------------------------------------------------------
(* The visited branches of a function are those its executions have taken, *)
(* for the branches that lead to a node of their own: getVisitedBranches   *)
(* of CFG never reports a branch that was not executed, nor misses one.    *)
THEOREM Truthful == Spec => []CoverageTruthful
<1>1. IInv => CoverageTruthful
  <2> SUFFICES ASSUME IInv, NEW c \in f.cond, NEW b \in BOOLEAN, Exclusive(c, b)
               PROVE  <<c, b>> \in VisitedBranches(f, visited) <=> <<c, b>> \in executed
    BY DEF CoverageTruthful
  <2> DEFINE n == IF b THEN f.true[c] ELSE f.false[c]
  <2>1. f \in FunctionType
    BY FunctionsAssumption DEF IInv, TypeOK
  <2>2. ASSUME <<c, b>> \in VisitedBranches(f, visited) PROVE <<c, b>> \in executed
    <3>1. n \in visited
      BY <2>2 DEF VisitedBranches, BranchVisited
    <3>2. PICK t \in TestData : n \in MarkedNodes(f, t) /\ BranchesTaken(f, t) \subseteq executed
      BY <3>1 DEF IInv, Witnessed
    <3>3. f.marks[t] \in Seq(Node)
      BY <2>1, MarksTyped
    <3>4. n \notin f.scopes
      BY DEF Exclusive
    <3>5. PICK i \in 1 .. Len(f.marks[t]) : f.marks[t][i] = n
      BY <3>2, <3>3, <3>4, SMTT(30) DEF MarkedNodes, Range
    <3>6. i > 1 /\ f.marks[t][i - 1] = c
      BY <3>5 DEF Exclusive
    <3>7. i - 1 \in 1 .. Len(f.marks[t]) - 1 /\ (i - 1) + 1 = i
      BY <3>3, <3>6
    <3>8. <<c, b>> \in BranchesTaken(f, t)
      BY <3>5, <3>6, <3>7 DEF BranchesTaken
    <3>9. QED
      BY <3>2, <3>8
  <2>3. ASSUME <<c, b>> \in executed PROVE <<c, b>> \in VisitedBranches(f, visited)
    <3>1. PICK t \in TestData : <<c, b>> \in BranchesTaken(f, t) /\ MarkedNodes(f, t) \subseteq visited
      BY <2>3 DEF IInv, Witnessed
    <3>2. PICK i \in 1 .. Len(f.marks[t]) - 1 : f.marks[t][i] = c /\ f.marks[t][i + 1] = n
      BY <3>1 DEF BranchesTaken
    <3>3. f.marks[t] \in Seq(Node)
      BY <2>1, MarksTyped
    <3>4. i \in DOMAIN f.marks[t] /\ i + 1 \in DOMAIN f.marks[t]
      BY <3>3
    <3>5. c \in visited /\ n \in visited
      BY <3>1, <3>2, <3>4 DEF MarkedNodes, Range
    <3>6. QED
      BY <3>5 DEF VisitedBranches, BranchVisited
  <2>4. QED
    BY <2>2, <2>3
<1>2. QED
  BY <1>1, Inductive, PTL

(* generateTheNextTestdata never gives the solver a list of constraints    *)
(* that counts as solved.                                                  *)
THEOREM Fresh == Spec => FreshQuery
<1>1. [Next]_vars => [pc = "select" /\ pc' = "solve" => query' \notin solved]_vars
  <2> SUFFICES ASSUME Next, pc = "select", pc' = "solve" PROVE query' \notin solved
    BY DEF vars
  <2>1. Select
    BY DEF Next, Step, EnterDepth, LeaveDepth, Finish, Iterate, Execute, ExecuteNothing,
           ExecuteIncomplete, ExecuteComplete, NextData, SelectNothing, GiveUp, SolveNew,
           SolveDuplicate, NoSolution, SolveThrows, Terminated
  <2>2. Selectable(Selected) /\ query' = Negation(Selected)
    BY <2>1, SelectedOk DEF Select
  <2>3. QED
    BY <2>2 DEF Selectable
<1>2. QED
  BY <1>1, PTL DEF Spec, FreshQuery

(* The search falls back to random test data only when its tries are used  *)
(* up or the negation of every decision looked at counts as solved.        *)
THEOREM GivesUpExhausted == Spec => GivesUpWhenExhausted
<1> DEFINE GaveUp == SelectNothing \/ GiveUp =>
                       \/ tries' = MaxTries
                       \/ \A i \in Within : IsDecision(i) => Negation(i) \in solved'
<1>1. IInv /\ [Next]_vars => [GaveUp]_vars
  <2>1. ASSUME IInv, SelectNothing
        PROVE  \A i \in Within : IsDecision(i) => Negation(i) \in solved'
    BY <2>1, LookedAtOk DEF SelectNothing
  <2>2. ASSUME IInv, GiveUp
        PROVE  \/ tries' = MaxTries
               \/ \A i \in Within : IsDecision(i) => Negation(i) \in solved'
    <3>1. solved' = solved /\ tries' = tries
      BY <2>2 DEF GiveUp, searchVars
    <3>2. CASE ~ canNegate
      BY <2>2, <3>1, <3>2 DEF IInv, FlagTrue, Exhausted
    <3>3. CASE constraints = <<>>
      BY <3>3 DEF Within
    <3>4. CASE ~ (tries < MaxTries)
      BY <2>2, <3>1, <3>4, BoundsAssumption DEF IInv, TypeOK
    <3>5. QED
      BY <2>2, <3>2, <3>3, <3>4 DEF GiveUp, Searching
  <2>3. QED
    BY <2>1, <2>2
<1>2. QED
  BY <1>1, Inductive, PTL DEF Spec, GivesUpWhenExhausted

-----------------------------------------------------------------------------
(* What is known while constraints are negated.  Marked: the constraints   *)
(* are those of an execution that ran to the end and has left its marks.   *)
(* Aimed: the last decision of a query leads to a node not visited, and so *)
(* it stays until the solution is run.  Answered: the test data to run,    *)
(* when it comes from the solver, solves the query.  Wanting: nothing is   *)
(* run once everything is covered.                                         *)
Marked ==
  pc \in {"select", "solve"} =>
    /\ testdata \in TestData /\ Complete(f, testdata)
    /\ constraints = PathConstraints(f, f.marks[testdata])
    /\ MarkedNodes(f, testdata) \subseteq visited

ToRun == /\ pc \in {"depth", "iterate", "execute"}
         /\ origin = "solved" /\ testdata # None /\ ~ covered

Aims(q, seen) ==
  /\ q \in Seq(ConstraintType) /\ Len(Asked(q)) > 0
  /\ LET e == Asked(q)[Len(Asked(q))] IN ~ BranchVisited(f, seen, e[1], e[2])

Aimed    == f.indexed = {} /\ (pc = "solve" \/ ToRun) => Aims(query, visited)
Answered == ToRun => testdata \in Solutions(f, query)
Wanting  == pc = "execute" => ~ covered

Searched == Marked /\ Aimed /\ Answered /\ Wanting

(* In a function without array items the constraints are the decisions of  *)
(* the path, and the negation of one that BFSSelection selects asks, at    *)
(* last, for the branch that the execution did not take.                   *)
LEMMA SelectedAims ==
  ASSUME TypeOK, Marked, pc = "select", f.indexed = {}, NEW i \in Within, Selectable(i)
  PROVE  Aims(Negation(i), visited)
<1> DEFINE walk == f.marks[testdata]
           ds == Decisions(f, walk)
<1>1. f \in FunctionType /\ WellFormed(f) /\ testdata \in TestData /\ Complete(f, testdata)
  BY FunctionsAssumption DEF TypeOK, Marked
<1>2. walk \in Seq(Node) /\ Range(walk) \subseteq visited
  BY <1>1, MarksTyped DEF Marked
<1>3. ds \in Seq(ConstraintType) /\ constraints = ds
  <2>1. ds \in Seq(ConstraintType)
    BY <1>2, DecisionsOk
  <2>2. QED
    BY <2>1, AddAllOk DEF Marked, PathConstraints
<1>4. \A k \in 1 .. Len(ds) : \E j \in 1 .. Len(walk) :
        walk[j] \in f.cond /\ ds[k] = Decision(f, walk, j)
  BY <1>2, DecisionsOk
<1> HIDE DEF ds
<1>5. i \in 1 .. Len(ds)
  BY <1>3 DEF Within
<1>6. PICK j \in 1 .. Len(walk) : walk[j] \in f.cond /\ ds[i] = Decision(f, walk, j)
  BY <1>4, <1>5
<1> DEFINE d == ds[i]
           neg == [d EXCEPT !.negated = ~ @]
           q == SubSeq(ds, 1, i - 1) \o <<neg>>
<1>7. /\ d \in ConstraintType /\ d.kind = "decision" /\ d.cond = walk[j] /\ d.negated = FALSE
      /\ d.taken = Decision(f, walk, j).taken /\ d.taken \in BOOLEAN
  <2>1. d \in ConstraintType
    BY <1>3, <1>5
  <2>2. /\ Decision(f, walk, j).kind = "decision" /\ Decision(f, walk, j).cond = walk[j]
        /\ Decision(f, walk, j).negated = FALSE /\ Decision(f, walk, j).taken \in BOOLEAN
    BY DEF Decision, Constraint
  <2>3. QED
    BY <1>6, <2>1, <2>2, Zenon
<1>8. /\ neg \in ConstraintType /\ neg.kind = "decision" /\ neg.cond = d.cond
      /\ neg.taken = d.taken /\ neg.negated = TRUE
  BY <1>7 DEF ConstraintType
<1> HIDE DEF neg, d
<1>9. /\ q \in Seq(ConstraintType) /\ Len(q) = i /\ q[i] = neg
      /\ \A k \in 1 .. i - 1 : q[k] = ds[k]
  <2>1. SubSeq(ds, 1, i - 1) \in Seq(ConstraintType) /\ Len(SubSeq(ds, 1, i - 1)) = i - 1
        /\ \A k \in 1 .. i - 1 : SubSeq(ds, 1, i - 1)[k] = ds[k]
    BY <1>3, <1>5
  <2>2. <<neg>> \in Seq(ConstraintType) /\ Len(<<neg>>) = 1 /\ <<neg>>[1] = neg
    BY <1>8
  <2> HIDE DEF ds
  <2>3. QED
    BY <1>5, <2>1, <2>2
<1>10. \A k \in 1 .. Len(q) : q[k].kind = "decision"
  <2>1. \A k \in 1 .. i - 1 : k \in 1 .. Len(ds) /\ ds[k].kind = "decision"
    <3> TAKE k \in 1 .. i - 1
    <3>1. k \in 1 .. Len(ds)
      BY <1>3, <1>5
    <3>2. PICK l \in 1 .. Len(walk) : ds[k] = Decision(f, walk, l)
      BY <1>4, <3>1
    <3>3. Decision(f, walk, l).kind = "decision"
      BY DEF Decision, Constraint
    <3>4. QED
      BY <3>1, <3>2, <3>3
  <2>2. QED
    BY <1>5, <1>8, <1>9, <2>1
<1>11. Negation(i) = q
  <2>1. NegateAt(f, ds, i) = AddAll(f, q)
    BY Zenon DEF NegateAt, neg, d
  <2>2. AddAll(f, q) = q
    BY <1>9, AddAllOk
  <2>3. QED
    BY <1>3, <2>1, <2>2 DEF Negation
<1>12. UnvisitedBranch(f, visited, d.cond)
  <2>1. UnvisitedBranch(f, visited, Negation(i)[i].cond)
    BY DEF Selectable
  <2>2. QED
    BY <1>8, <1>9, <1>11, <2>1
<1> HIDE DEF q
<1>13. /\ Len(Asked(q)) = i
       /\ Asked(q)[i] = <<d.cond, d.taken # TRUE>>
  <2>1. Len(Asked(q)) = Len(q) /\ \A k \in 1 .. Len(q) :
          Asked(q)[k] = <<q[k].cond, q[k].taken # q[k].negated>>
    BY <1>9, <1>10, AskedOk
  <2>2. i \in 1 .. Len(q)
    BY <1>5, <1>9
  <2>3. Asked(q)[i] = <<neg.cond, neg.taken # neg.negated>>
    BY <1>9, <2>1, <2>2
  <2>4. QED
    BY <1>8, <1>9, <2>1, <2>3
<1>14. Toward(f, d.cond, d.taken) \in visited
  BY <1>1, <1>2, <1>6, <1>7, DecisionTaken
<1>15. ~ BranchVisited(f, visited, d.cond, d.taken # TRUE)
  BY <1>7, <1>12, <1>14 DEF UnvisitedBranch, BranchVisited, Toward
<1>16. Asked(q)[i][1] = d.cond /\ Asked(q)[i][2] = (d.taken # TRUE)
  BY <1>13
<1>17. i > 0
  BY DEF Within
<1>18. QED
  BY <1>9, <1>11, <1>13, <1>15, <1>16, <1>17 DEF Aims

(* Every step preserves what is known of the constraints already searched. *)
LEMMA StepSearched == IInv /\ Searched /\ [Next]_vars => Searched'
<1> SUFFICES ASSUME IInv, Searched, [Next]_vars PROVE Searched'
  OBVIOUS
<1> USE DEF Searched
<1>1. TypeOK /\ Wanting'
  <2>1. ASSUME Iterate PROVE Wanting'
    BY <2>1 DEF Iterate, Wanting, coverVars
  <2>2. ASSUME ~ Iterate PROVE Wanting'
    <3>1. pc' = "execute" => pc = "execute" /\ covered' = covered
      BY <2>2 DEF Next, Step, EnterDepth, LeaveDepth, Finish, Execute, ExecuteNothing,
             ExecuteIncomplete, ExecuteComplete, NextData, Select, SelectNothing, GiveUp, SolveNew,
             SolveDuplicate, NoSolution, SolveThrows, Terminated, vars
    <3>2. QED
      BY <3>1 DEF Wanting
  <2>3. QED
    BY <2>1, <2>2 DEF IInv
<1>2. CASE EnterDepth \/ LeaveDepth \/ Finish \/ ExecuteNothing
  <2>1. /\ pc' \notin {"select", "solve"}
        /\ UNCHANGED <<f, visited, covered, testdata, origin, query>>
        /\ pc \in {"depth", "iterate", "execute"}
    BY <1>2 DEF EnterDepth, LeaveDepth, Finish, ExecuteNothing, coverVars, searchVars
  <2>2. Marked' /\ (ToRun' => ToRun) /\ pc' # "solve"
    BY <2>1 DEF Marked, ToRun
  <2>3. QED
    BY <1>1, <2>1, <2>2 DEF Aimed, Answered, Aims
<1>3. CASE Iterate
  <2>1. /\ pc' = "execute" /\ pc = "iterate" /\ UNCHANGED <<f, visited, covered, query>>
        /\ origin' = "random" \/ UNCHANGED <<testdata, origin>>
    BY <1>3 DEF Iterate, coverVars, searchVars
  <2>2. Marked' /\ pc' # "solve"
    BY <2>1 DEF Marked
  <2>3. ToRun' => ToRun /\ UNCHANGED testdata
    BY <2>1 DEF ToRun
  <2>4. QED
    BY <1>1, <2>1, <2>2, <2>3 DEF Aimed, Answered, Aims
<1>4. CASE ExecuteIncomplete
  <2>1. pc' = "iterate" /\ testdata' = None
    BY <1>4 DEF ExecuteIncomplete
  <2>2. QED
    BY <1>1, <2>1 DEF Marked, Aimed, Answered, ToRun
<1>5. CASE ExecuteComplete
  <2>1. ~ ToRun' /\ pc' # "solve"
    BY <1>5 DEF ExecuteComplete, ToRun
  <2>2. Marked'
    <3>1. SUFFICES ASSUME pc' = "select" PROVE Marked'
      BY <1>5 DEF ExecuteComplete, Marked
    <3>2. /\ UNCHANGED <<f, testdata>> /\ Complete(f, testdata) /\ Mark
          /\ constraints' = PathConstraints(f, f.marks[testdata])
      BY <1>5, <3>1 DEF ExecuteComplete
    <3>3. testdata \in TestData
      BY <1>5 DEF ExecuteComplete, IInv, Loops
    <3>4. QED
      BY <3>2, <3>3 DEF Marked, Mark
  <2>3. QED
    BY <1>1, <2>1, <2>2 DEF Aimed, Answered
<1>6. CASE Select
  <2>1. /\ pc = "select" /\ pc' = "solve" /\ query' = Negation(Selected)
        /\ UNCHANGED <<f, visited, constraints, testdata>>
    BY <1>6 DEF Select, Searching, coverVars
  <2>2. Marked' /\ ~ ToRun'
    BY <2>1 DEF Marked, ToRun
  <2>3. f.indexed = {} => Aims(query', visited)
    BY <1>1, <1>6, <2>1, SelectedOk, SelectedAims DEF Select
  <2>4. QED
    BY <1>1, <2>1, <2>2, <2>3 DEF Aimed, Answered, Aims
<1>7. CASE SelectNothing \/ GiveUp
  <2>1. pc' = "iterate" /\ (origin' = "random" \/ testdata' = None)
    BY <1>7 DEF SelectNothing, GiveUp
  <2>2. QED
    BY <1>1, <2>1 DEF Marked, Aimed, Answered, ToRun
<1>8. CASE SolveNew
  <2>1. /\ pc = "solve" /\ pc' = "iterate" /\ testdata' \in Solutions(f, query)
        /\ UNCHANGED <<f, visited, query>>
    BY <1>8 DEF SolveNew, coverVars, searchVars
  <2>2. Aimed'
    BY <2>1 DEF Aimed, Aims
  <2>3. QED
    BY <1>1, <2>1, <2>2 DEF Marked, Answered
<1>9. CASE SolveDuplicate \/ NoSolution
  <2>1. /\ pc = "solve" /\ pc' = "select"
        /\ UNCHANGED <<f, visited, constraints, testdata>>
    BY <1>9 DEF SolveDuplicate, NoSolution, coverVars, searchVars
  <2>2. QED
    BY <1>1, <2>1 DEF Marked, Aimed, Answered, ToRun
<1>10. CASE SolveThrows
  BY <1>1, <1>10 DEF SolveThrows, Marked, Aimed, Answered, ToRun
<1>11. CASE UNCHANGED vars
  BY <1>1, <1>11 DEF vars, Marked, Aimed, Aims, Answered, ToRun
<1>12. QED
  BY <1>2, <1>3, <1>4, <1>5, <1>6, <1>7, <1>8, <1>9, <1>10, <1>11
     DEF Next, Step, Execute, NextData, Terminated

(* What is known of the constraints searched holds in every reachable      *)
(* state.                                                                  *)
LEMMA SearchedAlways == Spec => [](IInv /\ Searched)
<1>1. Init => Searched
  BY DEF Init, Searched, Marked, Aimed, Answered, ToRun, Wanting
<1>2. QED
  BY <1>1, InitIInv, StepIInv, StepSearched, PTL DEF Spec

(* What the solver is asked for leads to a branch not visited yet, in any  *)
(* function without array items at a variable index: BFSSelection only     *)
(* looks for a condition with some branch left, but the execution has      *)
(* marked the other one.                                                   *)
THEOREM Worthwhile == Spec => []QueryWorthwhile
<1>1. Searched => QueryWorthwhile
  BY DEF Searched, Aimed, Aims, QueryWorthwhile, QueryUnvisited, Target
<1>2. QED
  BY <1>1, SearchedAlways, PTL

(* A solution that runs to the end visits a new node, however long it had  *)
(* to wait for an execution that leaves marks.                             *)
THEOREM SolvedCovers == Spec => SolvedDataCovers
<1>1. IInv /\ Searched /\ [Next]_vars
        => [f.exact /\ f.indexed = {} /\ origin = "solved" /\ ExecuteComplete
              => visited' # visited]_vars
  <2> SUFFICES ASSUME IInv, Searched, f.exact, f.indexed = {}, origin = "solved", ExecuteComplete
               PROVE  visited' # visited
    OBVIOUS
  <2>1. pc = "execute" /\ Complete(f, testdata) /\ visited' = visited \cup MarkedNodes(f, testdata)
    BY DEF ExecuteComplete, Mark
  <2>2. testdata \in TestData /\ testdata # None
    BY <2>1, BoundsAssumption DEF IInv, Loops
  <2>3. ~ covered
    BY <2>1 DEF Searched, Wanting
  <2>4. QED
    <3>1. Aims(query, visited) /\ testdata \in Solutions(f, query)
      BY <2>1, <2>2, <2>3 DEF Searched, Aimed, Answered, ToRun
    <3>2. f \in FunctionType /\ WellFormed(f)
      BY FunctionsAssumption DEF IInv, TypeOK
    <3> DEFINE k == Len(Asked(query))
    <3>3. query \in Seq(ConstraintType) /\ k \in 1 .. Len(Asked(query))
      <4>1. query \in Seq(ConstraintType) /\ k > 0
        BY <3>1 DEF Aims
      <4>2. Asked(query) \in Seq(Node \X BOOLEAN)
        BY <4>1, AskedOk
      <4>3. QED
        BY <4>1, <4>2
    <3>4. Toward(f, Asked(query)[k][1], Asked(query)[k][2]) \in MarkedNodes(f, testdata)
      BY <2>1, <3>1, <3>2, <3>3, SolutionDrives
    <3>5. Toward(f, Asked(query)[k][1], Asked(query)[k][2]) \notin visited
      BY <3>1 DEF Aims, BranchVisited, Toward
    <3>6. QED
      BY <2>1, <3>4, <3>5
<1>2. QED
  BY <1>1, SearchedAlways, PTL DEF Spec, SolvedDataCovers
=============================================================================
