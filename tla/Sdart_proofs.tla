---------------------------- MODULE Sdart_proofs ----------------------------
(***************************************************************************)
(* Theorems about the two loops of SDART, for all functions, test data and *)
(* bounds.                                                                 *)
(***************************************************************************)
EXTENDS Sdart, FiniteSetTheorems, WellFoundedInduction, TLAPS

(* What the generator knows of a function: what the lists of constraints   *)
(* hold, and that a test data that solves constraints takes the branches   *)
(* they ask for.                                                           *)
ConstraintType ==
  [kind : {"decision", "additional"}, cond : Node, taken : BOOLEAN, negated : BOOLEAN]

-----------------------------------------------------------------------------
(* A set of naturals that is not empty has a least element. *)
LEMMA Least ==
  ASSUME NEW S \in SUBSET Nat, S # {}
  PROVE  \E n \in S : \A m \in S : n <= m
<1>1. PICK n \in S : \A m \in S : ~ (<<m, n>> \in OpToRel(<, Nat))
  BY WFMin, NatLessThanWellFounded, Zenon
<1>2. \A m \in Nat : m < n => <<m, n>> \in OpToRel(<, Nat)
  BY DEF OpToRel
<1>3. \A m \in S : n <= m
  <2> TAKE m \in S
  <2>1. m \in Nat /\ n \in Nat /\ ~ (m < n)
    BY <1>1, <1>2
  <2>2. QED
    BY <2>1
<1>4. QED
  BY <1>3

(* Min of such a set is one of its elements. *)
LEMMA MinIn ==
  ASSUME NEW S \in SUBSET Nat, S # {}
  PROVE  Min(S) \in S
BY Least DEF Min

-----------------------------------------------------------------------------
(* InOrder enumerates a finite set of numbers: all of it and nothing else. *)
LEMMA InOrderOk ==
  ASSUME NEW n \in Nat, NEW S \in SUBSET (1 .. n)
  PROVE  /\ Cardinality(S) \in Nat
         /\ InOrder(S) \in [1 .. Cardinality(S) -> S]
         /\ \A i \in S : \E k \in 1 .. Cardinality(S) : InOrder(S)[k] = i
         /\ S = 1 .. n => \A k \in 1 .. n : Cardinality(S) = n /\ InOrder(S)[k] = k
<1> DEFINE Below(i) == {j \in S : j < i}
           rank == [i \in S |-> Cardinality(Below(i))]
           c == Cardinality(S)
<1>1. IsFiniteSet(S) /\ c \in Nat
  <2>1. IsFiniteSet(1 .. n)
    BY FS_Interval
  <2>2. QED
    BY <2>1, FS_Subset, FS_CardinalityType
<1>2. ASSUME NEW i \in S
      PROVE  IsFiniteSet(Below(i)) /\ Cardinality(Below(i)) \in 0 .. c - 1
  <2>1. IsFiniteSet(S \ {i}) /\ Cardinality(S \ {i}) = c - 1
    BY <1>1, <1>2, FS_RemoveElement
  <2>2. Below(i) \subseteq S \ {i}
    OBVIOUS
  <2>3. IsFiniteSet(Below(i)) /\ Cardinality(Below(i)) <= c - 1
    BY <2>1, <2>2, FS_Subset
  <2>4. QED
    BY <2>3, FS_CardinalityType, <1>1
<1>3. ASSUME NEW i \in S, NEW j \in S, i < j
      PROVE  rank[i] < rank[j]
  <2>1. Below(i) \cup {i} \subseteq Below(j)
    <3>1. i \in Nat /\ j \in Nat /\ S \subseteq Nat
      OBVIOUS
    <3>2. \A m \in S : m < i => m < j
      BY <1>3, <3>1
    <3>3. QED
      BY <1>3, <3>2
  <2>2. IsFiniteSet(Below(i) \cup {i}) /\ Cardinality(Below(i) \cup {i}) = Cardinality(Below(i)) + 1
    <3>1. i \notin Below(i)
      OBVIOUS
    <3>2. QED
      BY <1>2, <3>1, FS_AddElement
  <2>3. Cardinality(Below(i) \cup {i}) <= Cardinality(Below(j))
    BY <1>2, <2>1, FS_Subset
  <2>4. Cardinality(Below(i)) \in Nat /\ Cardinality(Below(j)) \in Nat
    BY <1>2, FS_CardinalityType
  <2>5. QED
    BY <2>2, <2>3, <2>4
<1>4. rank \in Injection(S, 0 .. c - 1)
  <2>1. rank \in [S -> 0 .. c - 1]
    BY <1>2
  <2>2. ASSUME NEW i \in S, NEW j \in S, rank[i] = rank[j] PROVE i = j
    <3>1. i \in Nat /\ j \in Nat /\ rank[i] \in Nat
      BY <2>1
    <3>2. ~ (i < j) /\ ~ (j < i)
      BY <1>3, <2>2, <3>1
    <3>3. QED
      BY <3>1, <3>2
  <2>3. QED
    BY <2>1, <2>2 DEF Injection, IsInjective
<1> HIDE DEF rank
<1>5. \A k \in 0 .. c - 1 : \E i \in S : rank[i] = k
  <2>1. IsFiniteSet(0 .. c - 1) /\ Cardinality(0 .. c - 1) = c
    <3>1. 0 \in Int /\ c - 1 \in Int
      BY <1>1
    <3>2. /\ IsFiniteSet(0 .. c - 1)
          /\ Cardinality(0 .. c - 1) = IF 0 > c - 1 THEN 0 ELSE (c - 1) - 0 + 1
      BY <3>1, FS_Interval
    <3>3. QED
      BY <1>1, <3>2
  <2>2. rank \in Surjection(S, 0 .. c - 1)
    BY <1>4, <2>1, FS_Injection
  <2>3. QED
    BY <2>2 DEF Surjection
<1>6. \A i \in S : rank[i] = Cardinality({j \in S : j < i})
  BY DEF rank
<1> DEFINE Nth(k) == CHOOSE i \in S : Cardinality({j \in S : j < i}) = k - 1
<1>7. InOrder(S) = [k \in 1 .. c |-> Nth(k)]
  BY Zenon DEF InOrder
<1>8. ASSUME NEW k \in 1 .. c
      PROVE  InOrder(S)[k] \in S /\ rank[InOrder(S)[k]] = k - 1
  <2>1. k - 1 \in 0 .. c - 1
    BY <1>1
  <2>2. \E i \in S : rank[i] = k - 1
    BY <1>5, <2>1
  <2>3. PICK i \in S : Cardinality({j \in S : j < i}) = k - 1
    BY <1>6, <2>2
  <2>4. Nth(k) \in S /\ Cardinality({j \in S : j < Nth(k)}) = k - 1
    BY <2>3, Zenon
  <2> HIDE DEF Nth
  <2>5. InOrder(S)[k] = Nth(k)
    BY <1>7
  <2>6. QED
    BY <1>6, <2>4, <2>5
<1>9. ASSUME NEW i \in S PROVE \E k \in 1 .. c : InOrder(S)[k] = i
  <2>1. rank[i] \in 0 .. c - 1
    BY <1>4 DEF Injection
  <2>2. rank[i] + 1 \in 1 .. c /\ (rank[i] + 1) - 1 = rank[i]
    BY <1>1, <2>1
  <2>3. InOrder(S)[rank[i] + 1] \in S /\ rank[InOrder(S)[rank[i] + 1]] = rank[i]
    BY <1>8, <2>2
  <2>4. InOrder(S)[rank[i] + 1] = i
    BY <1>4, <2>3 DEF Injection, IsInjective
  <2>5. QED
    BY <2>2, <2>4
<1>10. ASSUME S = 1 .. n, NEW k \in 1 .. n PROVE c = n /\ InOrder(S)[k] = k
  <2>1. c = n
    BY <1>10, FS_Interval
  <2>2. ASSUME NEW i \in S PROVE rank[i] = i - 1
    <3>1. Below(i) = 1 .. i - 1
      BY <1>10, <2>2
    <3>2. Cardinality(1 .. i - 1) = i - 1
      BY <1>10, <2>2, FS_Interval
    <3>3. QED
      BY <1>6, <3>1, <3>2
  <2>3. rank[InOrder(S)[k]] = k - 1 /\ InOrder(S)[k] \in S
    BY <1>8, <2>1
  <2>4. QED
    BY <1>10, <2>1, <2>2, <2>3
<1> HIDE DEF Nth
<1>11. InOrder(S) \in [1 .. c -> S]
  BY <1>7, <1>8
<1>12. QED
  BY <1>1, <1>9, <1>10, <1>11

-----------------------------------------------------------------------------
(* FlattenSeq by its prefixes: each is the one before and one more part.   *)
LEMMA Flattened ==
  ASSUME NEW C, NEW e \in Seq(Seq(C)), e # <<>>
  PROVE  \E g \in [1 .. Len(e) -> Seq(C)] :
           /\ g[1] = e[1]
           /\ \A i \in 2 .. Len(e) : g[i] = g[i - 1] \o e[i]
           /\ FlattenSeq(e) = g[Len(e)]
<1> DEFINE n == Len(e)
           Upto(m) == \E g \in [1 .. m -> Seq(C)] :
                        g[1] = e[1] /\ \A i \in 2 .. m : g[i] = g[i - 1] \o e[i]
           Bad == {m \in 1 .. n : ~ Upto(m)}
<1>1. n \in Nat \ {0} /\ \A i \in 1 .. n : e[i] \in Seq(C)
  OBVIOUS
<1> HIDE DEF n, Upto
<1>2. Bad = {}
  <2> SUFFICES ASSUME Bad # {} PROVE FALSE
    OBVIOUS
  <2>1. PICK m \in Bad : \A l \in Bad : m <= l
    <3>1. Bad \in SUBSET Nat
      BY <1>1
    <3>2. QED
      BY <3>1, Least
  <2>2. m \in 1 .. n /\ ~ Upto(m)
    OBVIOUS
  <2>3. CASE m = 1
    <3>1. [i \in 1 .. 1 |-> e[1]] \in [1 .. m -> Seq(C)]
      BY <1>1, <2>3
    <3> DEFINE one == [i \in 1 .. 1 |-> e[1]]
    <3>2. one[1] = e[1] /\ \A i \in 2 .. m : FALSE
      BY <2>3
    <3> HIDE DEF one
    <3>3. one \in [1 .. m -> Seq(C)]
      BY <3>1 DEF one
    <3>4. Upto(m)
      BY <3>2, <3>3, Zenon DEF Upto
    <3>5. QED
      BY <2>2, <3>4
  <2>4. CASE m > 1
    <3>1. m - 1 \in 1 .. n /\ Upto(m - 1)
      <4>1. m - 1 \in 1 .. n /\ m \in Nat /\ ~ (m <= m - 1)
        BY <1>1, <2>2, <2>4
      <4>2. m - 1 \notin Bad
        BY <2>1, <4>1
      <4>3. QED
        BY <4>1, <4>2
    <3>2. PICK g \in [1 .. m - 1 -> Seq(C)] :
                 g[1] = e[1] /\ \A i \in 2 .. m - 1 : g[i] = g[i - 1] \o e[i]
      BY <3>1 DEF Upto
    <3> DEFINE h == [i \in 1 .. m |-> IF i = m THEN g[m - 1] \o e[m] ELSE g[i]]
    <3>3. g[m - 1] \o e[m] \in Seq(C)
      BY <1>1, <2>2, <3>1, <3>2
    <3>4. h \in [1 .. m -> Seq(C)]
      <4>1. \A i \in 1 .. m : i # m => i \in 1 .. m - 1
        BY <2>2
      <4>2. QED
        BY <3>3, <4>1
    <3>5. h[1] = e[1]
      BY <2>2, <2>4, <3>2
    <3>6. ASSUME NEW i \in 2 .. m PROVE h[i] = h[i - 1] \o e[i]
      <4>1. h[i - 1] = g[i - 1]
        BY <2>2, <3>6
      <4>2. CASE i = m
        <5>0. m \in 1 .. m
          BY <1>1, <2>2
        <5>1. h[m] = g[m - 1] \o e[m]
          BY <5>0, Zenon
        <5>2. QED
          BY <4>1, <4>2, <5>1, Zenon
      <4>3. CASE i # m
        <5>1. i \in 2 .. m - 1
          BY <2>2, <4>3
        <5>2. h[i] = g[i]
          BY <5>1, <2>2
        <5>3. QED
          BY <3>2, <4>1, <5>1, <5>2
      <4>4. QED
        BY <4>2, <4>3
    <3> HIDE DEF h
    <3>7. Upto(m)
      BY <3>4, <3>5, <3>6, Zenon DEF Upto
    <3>8. QED
      BY <2>2, <3>7
  <2>5. QED
    BY <2>2, <2>3, <2>4
<1>3. PICK g \in [1 .. n -> Seq(C)] :
             g[1] = e[1] /\ \A i \in 2 .. n : g[i] = g[i - 1] \o e[i]
  <2>1. n \in 1 .. n
    BY <1>1
  <2>2. Upto(n)
    BY <1>2, <2>1
  <2>3. QED
    BY <2>2 DEF Upto
<1> DEFINE By(h) == [i \in 1 .. n |-> IF i = 1 THEN e[i] ELSE h[i - 1] \o e[i]]
           flatten == CHOOSE h : h = By(h)
<1>4. g = By(g)
  <2>1. ASSUME NEW i \in 1 .. n PROVE g[i] = By(g)[i]
    <3>1. CASE i = 1
      BY <1>3, <3>1
    <3>2. CASE i # 1
      <4>1. i \in 2 .. n
        BY <1>1, <3>2
      <4>2. QED
        BY <1>3, <3>2, <4>1
    <3>3. QED
      BY <3>1, <3>2
  <2>2. QED
    BY <2>1
<1>5. flatten = By(flatten)
  <2> HIDE DEF By
  <2>1. QED
    BY <1>4, Zenon
<1>6. FlattenSeq(e) = flatten[n]
  <2>1. n # 0
    BY <1>1
  <2>2. QED
    BY <2>1, Zenon DEF FlattenSeq, n
<1> HIDE DEF flatten
<1>7. /\ \A i \in 1 .. n : flatten[i] = IF i = 1 THEN e[i] ELSE flatten[i - 1] \o e[i]
      /\ DOMAIN flatten = 1 .. n
      /\ flatten = [i \in 1 .. n |-> flatten[i]]
  BY <1>5
<1> DEFINE Off == {i \in 1 .. n : flatten[i] # g[i]}
<1>8. Off = {}
  <2> SUFFICES ASSUME Off # {} PROVE FALSE
    OBVIOUS
  <2>1. PICK m \in Off : \A l \in Off : m <= l
    <3>1. Off \in SUBSET Nat
      BY <1>1
    <3>2. QED
      BY <3>1, Least
  <2>2. m \in 1 .. n /\ flatten[m] # g[m]
    OBVIOUS
  <2>3. m # 1
    BY <1>3, <1>7, <2>2
  <2>4. m - 1 \in 1 .. n /\ m \in 2 .. n
    BY <1>1, <2>2, <2>3
  <2>5. flatten[m - 1] = g[m - 1]
    BY <2>1, <2>4
  <2>6. flatten[m] = flatten[m - 1] \o e[m]
    BY <1>7, <2>2, <2>3
  <2>7. g[m] = g[m - 1] \o e[m]
    BY <1>3, <2>4
  <2>8. QED
    BY <2>2, <2>5, <2>6, <2>7
<1>9. FlattenSeq(e) = g[n]
  <2>1. n \in 1 .. n
    BY <1>1
  <2>2. flatten[n] = g[n]
    BY <1>8, <2>1
  <2>3. QED
    BY <1>6, <2>2
<1>10. QED
  BY <1>3, <1>9, Zenon DEF n

(* A constraint is expanded to a list of constraints that contains it;     *)
(* only conditions on array items yield more than one.                     *)
LEMMA ExpandedOk ==
  ASSUME NEW fn, NEW c \in ConstraintType
  PROVE  /\ Expanded(fn, c) \in Seq(ConstraintType)
         /\ \E k \in 1 .. Len(Expanded(fn, c)) : Expanded(fn, c)[k] = c
         /\ fn.indexed = {} => Expanded(fn, c) = <<c>>
<1> DEFINE a == Constraint("additional", c.cond, FALSE, FALSE)
<1>1. a \in ConstraintType
  BY DEF Constraint, ConstraintType
<1> HIDE DEF a
<1>2. CASE c.kind = "decision" /\ c.cond \in fn.indexed
  <2>1. Expanded(fn, c) = <<a, c>>
    BY <1>2 DEF Expanded, a
  <2>2. <<a, c>> \in Seq(ConstraintType) /\ Len(<<a, c>>) = 2 /\ <<a, c>>[2] = c
    BY <1>1
  <2>3. QED
    BY <1>2, <2>1, <2>2
<1>3. CASE ~ (c.kind = "decision" /\ c.cond \in fn.indexed)
  <2>1. Expanded(fn, c) = <<c>>
    BY <1>3 DEF Expanded
  <2>2. <<c>> \in Seq(ConstraintType) /\ Len(<<c>>) = 1 /\ <<c>>[1] = c
    OBVIOUS
  <2>3. QED
    BY <2>1, <2>2
<1>4. QED
  BY <1>2, <1>3

(* AddAll keeps every constraint, and adds none unless an array item has   *)
(* an index.                                                               *)
LEMMA AddAllOk ==
  ASSUME NEW fn, NEW cs \in Seq(ConstraintType)
  PROVE  /\ AddAll(fn, cs) \in Seq(ConstraintType)
         /\ \A i \in 1 .. Len(cs) : \E k \in 1 .. Len(AddAll(fn, cs)) : AddAll(fn, cs)[k] = cs[i]
         /\ fn.indexed = {} => AddAll(fn, cs) = cs
<1> DEFINE n == Len(cs)
           e == [i \in 1 .. n |-> Expanded(fn, cs[i])]
           C == ConstraintType
<1>1. n \in Nat /\ \A i \in 1 .. n : cs[i] \in C
  OBVIOUS
<1>2. /\ e \in Seq(Seq(C)) /\ Len(e) = n
      /\ \A i \in 1 .. n : /\ e[i] \in Seq(C)
                           /\ \E k \in 1 .. Len(e[i]) : e[i][k] = cs[i]
                           /\ fn.indexed = {} => e[i] = <<cs[i]>>
  <2>1. \A i \in 1 .. n : /\ Expanded(fn, cs[i]) \in Seq(C)
                          /\ \E k \in 1 .. Len(Expanded(fn, cs[i])) : Expanded(fn, cs[i])[k] = cs[i]
                          /\ fn.indexed = {} => Expanded(fn, cs[i]) = <<cs[i]>>
    BY <1>1, ExpandedOk
  <2>2. e \in [1 .. n -> Seq(C)]
    BY <2>1
  <2>3. e \in Seq(Seq(C)) /\ Len(e) = n
    BY <1>1, <2>2
  <2>4. QED
    BY <2>1, <2>3
<1>3. AddAll(fn, cs) = FlattenSeq(e)
  BY DEF AddAll
<1> HIDE DEF e, C, n
<1>4. CASE n = 0
  <2>1. FlattenSeq(e) = e
    BY <1>2, <1>4 DEF FlattenSeq
  <2>2. e = <<>> /\ cs = <<>>
    BY <1>2, <1>4 DEF n
  <2>3. QED
    BY <1>2, <1>3, <1>4, <2>1, <2>2 DEF C
<1>5. CASE n # 0
  <2>1. e # <<>>
    BY <1>2, <1>5
  <2>2. PICK g \in [1 .. n -> Seq(C)] :
               /\ g[1] = e[1]
               /\ \A i \in 2 .. n : g[i] = g[i - 1] \o e[i]
               /\ FlattenSeq(e) = g[n]
    <3>1. \E g \in [1 .. Len(e) -> Seq(C)] :
               /\ g[1] = e[1]
               /\ \A i \in 2 .. Len(e) : g[i] = g[i - 1] \o e[i]
               /\ FlattenSeq(e) = g[Len(e)]
      BY <1>2, <2>1, Flattened, Zenon
    <3>2. QED
      BY <1>2, <3>1
  <2> DEFINE Has(m) == \A i \in 1 .. m : \E k \in 1 .. Len(g[m]) : g[m][k] = cs[i]
             Same(m) == fn.indexed = {} => g[m] = [j \in 1 .. m |-> cs[j]]
             Bad     == {m \in 1 .. n : ~ (Has(m) /\ Same(m))}
  <2>3. Has(1) /\ Same(1)
    <3>1. 1 \in 1 .. n /\ g[1] = e[1]
      BY <1>1, <1>5, <2>2
    <3>2. Has(1)
      BY <1>2, <3>1
    <3>3. fn.indexed = {} => g[1] = <<cs[1]>>
      BY <1>2, <3>1
    <3>4. <<cs[1]>> = [j \in 1 .. 1 |-> cs[j]]
      OBVIOUS
    <3>5. QED
      BY <3>2, <3>3, <3>4
  <2>4. ASSUME NEW m \in 2 .. n, Has(m - 1), Same(m - 1) PROVE Has(m) /\ Same(m)
    <3> DEFINE s == g[m - 1]
               t == e[m]
    <3>0. m - 1 \in 1 .. n /\ m \in 1 .. n
      BY <1>1
    <3>1. g[m] = s \o t /\ s \in Seq(C) /\ t \in Seq(C)
      BY <1>2, <2>2, <3>0
    <3> HIDE DEF s, t
    <3>2. /\ Len(g[m]) = Len(s) + Len(t) /\ Len(s) \in Nat /\ Len(t) \in Nat
          /\ \A k \in 1 .. Len(s) : k \in 1 .. Len(g[m]) /\ g[m][k] = s[k]
          /\ \A k \in 1 .. Len(t) : Len(s) + k \in 1 .. Len(g[m]) /\ g[m][Len(s) + k] = t[k]
      BY <3>1
    <3>3. Has(m)
      <4> SUFFICES ASSUME NEW i \in 1 .. m PROVE \E k \in 1 .. Len(g[m]) : g[m][k] = cs[i]
        OBVIOUS
      <4>1. CASE i = m
        <5>1. PICK k \in 1 .. Len(t) : t[k] = cs[i]
          BY <1>2, <3>0, <4>1 DEF t
        <5>2. Len(s) + k \in 1 .. Len(g[m]) /\ g[m][Len(s) + k] = cs[i]
          BY <3>2, <5>1
        <5>3. QED
          BY <5>2
      <4>2. CASE i # m
        <5>1. i \in 1 .. m - 1
          BY <1>1, <4>2
        <5>2. PICK k \in 1 .. Len(s) : s[k] = cs[i]
          BY <2>4, <5>1 DEF s
        <5>3. k \in 1 .. Len(g[m]) /\ g[m][k] = cs[i]
          BY <3>2, <5>2
        <5>4. QED
          BY <5>3
      <4>3. QED
        BY <4>1, <4>2
    <3>4. ASSUME fn.indexed = {} PROVE g[m] = [j \in 1 .. m |-> cs[j]]
      <4>1. s = [j \in 1 .. m - 1 |-> cs[j]] /\ t = <<cs[m]>>
        BY <1>2, <2>4, <3>0, <3>4 DEF s, t
      <4>2. Len(s) = m - 1 /\ Len(t) = 1
        BY <3>0, <3>1, <4>1
      <4>3. g[m] \in Seq(C) /\ Len(g[m]) = m
        BY <2>2, <3>0, <3>2, <4>2
      <4>4. ASSUME NEW j \in 1 .. m PROVE g[m][j] = cs[j]
        <5>1. CASE j = m
          BY <3>2, <4>1, <4>2, <5>1
        <5>2. CASE j # m
          <6>1. j \in 1 .. m - 1
            BY <3>0, <5>2
          <6>2. QED
            BY <3>2, <4>1, <4>2, <6>1
        <5>3. QED
          BY <5>1, <5>2
      <4>5. QED
        BY <4>3, <4>4
    <3>5. QED
      BY <3>3, <3>4
  <2> HIDE DEF Has, Same
  <2>5. Bad = {}
    <3> SUFFICES ASSUME Bad # {} PROVE FALSE
      OBVIOUS
    <3>1. PICK m \in Bad : \A l \in Bad : m <= l
      <4>1. Bad \in SUBSET Nat
        BY <1>1
      <4>2. QED
        BY <4>1, Least
    <3>2. m \in 1 .. n /\ ~ (Has(m) /\ Same(m))
      OBVIOUS
    <3>3. m # 1
      BY <2>3, <3>2
    <3>4. m \in 2 .. n /\ m - 1 \in 1 .. n /\ ~ (m <= m - 1)
      BY <1>1, <3>2, <3>3
    <3>5. Has(m - 1) /\ Same(m - 1)
      BY <3>1, <3>4
    <3>6. QED
      BY <2>4, <3>2, <3>4, <3>5
  <2>6. n \in 1 .. n
    BY <1>1, <1>5
  <2>7. g[n] \in Seq(C) /\ Has(n) /\ Same(n)
    BY <2>2, <2>5, <2>6
  <2>8. cs = [j \in 1 .. n |-> cs[j]]
    BY DEF n
  <2>9. AddAll(fn, cs) = g[n]
    BY <1>3, <2>2
  <2>10. \A i \in 1 .. n : \E k \in 1 .. Len(AddAll(fn, cs)) : AddAll(fn, cs)[k] = cs[i]
    BY <2>7, <2>9 DEF Has
  <2>11. fn.indexed = {} => AddAll(fn, cs) = cs
    BY <2>7, <2>8, <2>9 DEF Same
  <2>12. QED
    BY <2>7, <2>9, <2>10, <2>11 DEF C, n
<1>6. QED
  BY <1>4, <1>5

-----------------------------------------------------------------------------
(* What a list of constraints asks for: its decisions, each of them. *)
LEMMA AskedOk ==
  ASSUME NEW cs \in Seq(ConstraintType)
  PROVE  /\ Asked(cs) \in Seq(Node \X BOOLEAN)
         /\ \A i \in 1 .. Len(cs) : cs[i].kind = "decision" =>
              \E k \in 1 .. Len(Asked(cs)) : Asked(cs)[k] = <<cs[i].cond, cs[i].taken # cs[i].negated>>
         /\ \A k \in 1 .. Len(Asked(cs)) : \E i \in 1 .. Len(cs) :
              cs[i].kind = "decision" /\ Asked(cs)[k] = <<cs[i].cond, cs[i].taken # cs[i].negated>>
         /\ (\A i \in 1 .. Len(cs) : cs[i].kind = "decision") =>
              /\ Len(Asked(cs)) = Len(cs)
              /\ \A i \in 1 .. Len(cs) : Asked(cs)[i] = <<cs[i].cond, cs[i].taken # cs[i].negated>>
<1> DEFINE S == {i \in 1 .. Len(cs) : cs[i].kind = "decision"}
           at == InOrder(S)
           n == Cardinality(S)
           Answer(c) == <<c.cond, c.taken # c.negated>>
<1>1. /\ n \in Nat /\ at \in [1 .. n -> S]
      /\ \A i \in S : \E k \in 1 .. n : at[k] = i
      /\ S = 1 .. Len(cs) => \A k \in 1 .. Len(cs) : n = Len(cs) /\ at[k] = k
  <2>1. Len(cs) \in Nat /\ S \in SUBSET (1 .. Len(cs))
    OBVIOUS
  <2> HIDE DEF S
  <2>2. QED
    BY <2>1, InOrderOk
<1>2. S \subseteq 1 .. Len(cs) /\ \A i \in S : cs[i].kind = "decision" /\ cs[i] \in ConstraintType
  OBVIOUS
<1>3. \A i \in 1 .. Len(cs) : cs[i].kind = "decision" => i \in S
  OBVIOUS
<1>4. S = {} => n = 0
  BY FS_EmptySet
<1> HIDE DEF S, n
<1>5. Len(at) = n
  BY <1>1
<1>6. Asked(cs) = [k \in 1 .. n |-> Answer(cs[at[k]])]
  BY <1>5 DEF Asked, S
<1> HIDE DEF at
<1>7. \A i \in S : Answer(cs[i]) \in Node \X BOOLEAN
  BY <1>2 DEF ConstraintType
<1> HIDE DEF Answer
<1>8. Asked(cs) \in Seq(Node \X BOOLEAN) /\ Len(Asked(cs)) = n
  <2>1. Asked(cs) \in [1 .. n -> Node \X BOOLEAN]
    BY <1>1, <1>6, <1>7
  <2>2. QED
    BY <1>1, <2>1
<1>9. ASSUME NEW i \in 1 .. Len(cs), cs[i].kind = "decision"
      PROVE  \E k \in 1 .. Len(Asked(cs)) : Asked(cs)[k] = Answer(cs[i])
  BY <1>1, <1>3, <1>6, <1>8, <1>9
<1>10. ASSUME NEW k \in 1 .. Len(Asked(cs))
       PROVE  \E i \in 1 .. Len(cs) : cs[i].kind = "decision" /\ Asked(cs)[k] = Answer(cs[i])
  <2>1. k \in 1 .. n
    BY <1>8, <1>10
  <2>2. at[k] \in S /\ Asked(cs)[k] = Answer(cs[at[k]])
    BY <1>1, <1>6, <2>1
  <2>3. QED
    BY <1>2, <2>2
<1>11. ASSUME \A i \in 1 .. Len(cs) : cs[i].kind = "decision"
       PROVE  Len(Asked(cs)) = Len(cs) /\ \A i \in 1 .. Len(cs) : Asked(cs)[i] = Answer(cs[i])
  <2>1. S = 1 .. Len(cs)
    BY <1>2, <1>3, <1>11
  <2>2. Len(cs) \in Nat
    OBVIOUS
  <2>3. CASE Len(cs) = 0
    <3>1. S = {}
      BY <2>1, <2>3
    <3>2. QED
      BY <1>4, <1>8, <2>3, <3>1
  <2>4. CASE Len(cs) # 0
    <3>1. n = Len(cs)
      BY <1>1, <2>1, <2>2, <2>4
    <3>2. QED
      BY <1>1, <1>6, <1>8, <2>1, <3>1
  <2>5. QED
    BY <2>3, <2>4
<1>12. QED
  BY <1>8, <1>9, <1>10, <1>11 DEF Answer

(* The decisions of a path: those of its conditions, each of them. *)
LEMMA DecisionsOk ==
  ASSUME NEW fn, NEW path \in Seq(Node)
  PROVE  /\ Decisions(fn, path) \in Seq(ConstraintType)
         /\ \A i \in 1 .. Len(path) : path[i] \in fn.cond =>
              \E k \in 1 .. Len(Decisions(fn, path)) : Decisions(fn, path)[k] = Decision(fn, path, i)
         /\ \A k \in 1 .. Len(Decisions(fn, path)) : \E i \in 1 .. Len(path) :
              path[i] \in fn.cond /\ Decisions(fn, path)[k] = Decision(fn, path, i)
<1> DEFINE S == {i \in 1 .. Len(path) : path[i] \in fn.cond}
           at == InOrder(S)
           n == Cardinality(S)
<1>1. /\ n \in Nat /\ at \in [1 .. n -> S]
      /\ \A i \in S : \E k \in 1 .. n : at[k] = i
  <2>1. Len(path) \in Nat /\ S \in SUBSET (1 .. Len(path))
    OBVIOUS
  <2> HIDE DEF S
  <2>2. QED
    BY <2>1, InOrderOk
<1>2. S \subseteq 1 .. Len(path) /\ \A i \in S : path[i] \in fn.cond /\ path[i] \in Node
  OBVIOUS
<1>3. \A i \in 1 .. Len(path) : path[i] \in fn.cond => i \in S
  OBVIOUS
<1> HIDE DEF S, n
<1>4. Len(at) = n
  BY <1>1
<1>5. Decisions(fn, path) = [k \in 1 .. n |-> Decision(fn, path, at[k])]
  BY <1>4 DEF Decisions, S
<1> HIDE DEF at
<1>6. \A i \in S : Decision(fn, path, i) \in ConstraintType
  BY <1>2 DEF Decision, Constraint, ConstraintType
<1>7. Decisions(fn, path) \in Seq(ConstraintType) /\ Len(Decisions(fn, path)) = n
  <2>1. Decisions(fn, path) \in [1 .. n -> ConstraintType]
    BY <1>1, <1>5, <1>6
  <2>2. QED
    BY <1>1, <2>1
<1>8. ASSUME NEW i \in 1 .. Len(path), path[i] \in fn.cond
      PROVE  \E k \in 1 .. Len(Decisions(fn, path)) : Decisions(fn, path)[k] = Decision(fn, path, i)
  BY <1>1, <1>3, <1>5, <1>7, <1>8
<1>9. ASSUME NEW k \in 1 .. Len(Decisions(fn, path))
      PROVE  \E i \in 1 .. Len(path) :
               path[i] \in fn.cond /\ Decisions(fn, path)[k] = Decision(fn, path, i)
  <2>1. k \in 1 .. n
    BY <1>7, <1>9
  <2>2. at[k] \in S /\ Decisions(fn, path)[k] = Decision(fn, path, at[k])
    BY <1>1, <1>5, <2>1
  <2>3. QED
    BY <1>2, <2>2
<1>10. QED
  BY <1>7, <1>8, <1>9

-----------------------------------------------------------------------------
(* The node the branch of a condition leads to *)
Toward(fn, c, b) == IF b THEN fn.true[c] ELSE fn.false[c]

(* The parts of a function *)
LEMMA FunctionTyped ==
  ASSUME NEW fn \in FunctionType
  PROVE  /\ fn.cond \subseteq Node /\ fn.scopes \subseteq Node
         /\ fn.true \in [Node -> Node] /\ fn.false \in [Node -> Node]
         /\ fn.marks \in [TestData -> Seq(Node)] /\ fn.testpaths \in Seq(Seq(Node))
         /\ \A t \in TestData : fn.marks[t] \in Seq(Node)
BY DEF FunctionType

(* The marks of an execution are nodes. *)
LEMMA MarksTyped ==
  ASSUME NEW fn \in FunctionType, NEW t \in TestData
  PROVE  /\ fn.marks[t] \in Seq(Node)
         /\ MarkedNodes(fn, t) \subseteq Node
         /\ Range(fn.marks[t]) \subseteq MarkedNodes(fn, t)
         /\ BranchesTaken(fn, t) \subseteq fn.cond \X BOOLEAN
<1>1. fn.marks[t] \in Seq(Node) /\ fn.scopes \subseteq Node
  BY FunctionTyped
<1>2. Range(fn.marks[t]) \subseteq Node
  BY <1>1 DEF Range
<1>3. QED
  BY <1>1, <1>2 DEF MarkedNodes, BranchesTaken

(* An execution that runs to the end makes each of its decisions: it comes *)
(* by the node the branch leads to.                                        *)
LEMMA DecisionTaken ==
  ASSUME NEW fn \in FunctionType, WellFormed(fn), NEW t \in TestData, Complete(fn, t),
         NEW i \in 1 .. Len(fn.marks[t]), fn.marks[t][i] \in fn.cond
  PROVE  Toward(fn, fn.marks[t][i], Decision(fn, fn.marks[t], i).taken) \in Range(fn.marks[t])
<1> DEFINE walk == fn.marks[t]
           c == walk[i]
<1>1. walk \in Seq(Node)
  BY FunctionTyped
<1>2. i < Len(walk)
  <2>1. SUFFICES ASSUME i = Len(walk) PROVE FALSE
    BY <1>1
  <2>2. End \in {fn.true[c], fn.false[c]}
    BY <2>1 DEF Complete, Last
  <2>3. fn.true[c] # End /\ fn.false[c] # End
    BY DEF WellFormed
  <2>4. QED
    BY <2>2, <2>3
<1>3. i \in 1 .. Len(walk) - 1 /\ i + 1 \in DOMAIN walk
  BY <1>1, <1>2
<1>4. walk[i + 1] \in {fn.true[c], fn.false[c]} /\ walk[i + 1] \in Range(walk)
  BY <1>3 DEF WellFormed, Range
<1>5. Decision(fn, walk, i).taken = (walk[i + 1] = fn.true[c])
  BY <1>2 DEF Decision, Constraint
<1> HIDE DEF walk
<1>6. Toward(fn, c, walk[i + 1] = fn.true[c]) = walk[i + 1]
  BY <1>4 DEF Toward
<1>7. QED
  BY <1>4, <1>5, <1>6 DEF walk

(* A test data that runs to the end and satisfies a list of constraints    *)
(* visits the nodes that their branches lead to.                           *)
LEMMA SolutionDrives ==
  ASSUME NEW fn \in FunctionType, WellFormed(fn), fn.exact,
         NEW cs \in Seq(ConstraintType), NEW t \in Solutions(fn, cs), Complete(fn, t),
         NEW k \in 1 .. Len(Asked(cs))
  PROVE  Toward(fn, Asked(cs)[k][1], Asked(cs)[k][2]) \in MarkedNodes(fn, t)
<1> DEFINE walk == fn.marks[t]
           made == Asked(Decisions(fn, walk))
<1>1. t \in TestData /\ Satisfies(fn, t, cs)
  BY DEF Solutions
<1>2. walk \in Seq(Node) /\ Range(walk) \subseteq MarkedNodes(fn, t)
  BY <1>1, MarksTyped
<1>3. Decisions(fn, walk) \in Seq(ConstraintType)
  BY <1>2, DecisionsOk
<1>4. made \in Seq(Node \X BOOLEAN) /\ Asked(cs) \in Seq(Node \X BOOLEAN)
  BY <1>3, AskedOk
<1>5. IsPrefix(Asked(cs), made)
  BY <1>1 DEF Satisfies
<1> HIDE DEF made
<1>6. k \in 1 .. Len(made) /\ Asked(cs)[k] = made[k]
  <2>1. Len(Asked(cs)) <= Len(made) /\ SubSeq(Asked(cs), 1, Len(Asked(cs))) = SubSeq(made, 1, Len(Asked(cs)))
    BY <1>5 DEF IsPrefix
  <2>2. /\ SubSeq(Asked(cs), 1, Len(Asked(cs)))[k] = Asked(cs)[k]
        /\ SubSeq(made, 1, Len(Asked(cs)))[k] = made[k]
    BY <1>4, <2>1
  <2>3. QED
    BY <1>4, <2>1, <2>2
<1> DEFINE ds == Decisions(fn, walk)
<1>7. PICK j \in 1 .. Len(ds) : made[k] = <<ds[j].cond, ds[j].taken # ds[j].negated>>
  <2>1. /\ Len(Asked(ds)) = Len(Asked(Decisions(fn, walk)))
        /\ \A l \in 1 .. Len(Asked(ds)) : \E j \in 1 .. Len(ds) :
              Asked(ds)[l] = <<ds[j].cond, ds[j].taken # ds[j].negated>>
    BY <1>3, AskedOk
  <2>2. made = Asked(ds)
    BY DEF made
  <2> HIDE DEF ds
  <2>3. QED
    BY <1>6, <2>1, <2>2
<1>8. PICK i \in 1 .. Len(walk) : walk[i] \in fn.cond /\ ds[j] = Decision(fn, walk, i)
  BY <1>2, DecisionsOk
<1>9. Decision(fn, walk, i).cond = walk[i] /\ Decision(fn, walk, i).negated = FALSE
      /\ Decision(fn, walk, i).taken \in BOOLEAN
  BY DEF Decision, Constraint
<1>10. Asked(cs)[k][1] = walk[i] /\ Asked(cs)[k][2] = Decision(fn, walk, i).taken
  <2> DEFINE d == Decision(fn, walk, i)
  <2>1. made[k] = <<d.cond, d.taken # d.negated>>
    BY <1>7, <1>8
  <2> HIDE DEF d
  <2>2. d.cond = walk[i] /\ (d.taken # d.negated) = d.taken
    BY <1>9, Zenon DEF d
  <2>3. made[k][1] = walk[i] /\ made[k][2] = d.taken
    BY <2>1, <2>2
  <2>4. QED
    BY <1>6, <2>3 DEF d
<1>11. Toward(fn, walk[i], Decision(fn, walk, i).taken) \in Range(walk)
  BY <1>1, <1>8, DecisionTaken
<1>12. QED
  BY <1>2, <1>10, <1>11

-----------------------------------------------------------------------------
(* The inductive invariant.  Running: an iteration has begun.  Counted:    *)
(* the coverage is that of the visited nodes, once there are some.         *)
(* Witnessed: a visited node was marked together with all the others that  *)
(* its execution marks.  Current: the list of uncovered test paths was     *)
(* collected after the last execution.                                     *)
Running == pc \in {"random", "directed"} => iteration < Iterations

Counted == /\ covered => FullyCovered(f, visited)
           /\ ~ covered /\ visited # {} => ~ FullyCovered(f, visited)

Witnessed == \A n \in visited : \E t \in TestData :
               n \in MarkedNodes(f, t) /\ MarkedNodes(f, t) \subseteq visited

Current == pc = "directed" => uncoveredTestpath = FirstUncovered(f, visited)

IInv == TypeOK /\ Running /\ Counted /\ Witnessed /\ Current

-----------------------------------------------------------------------------
(* Executing a test data keeps what the invariant says of the flags.       *)
LEMMA CoverageKept ==
  ASSUME IInv, NEW t \in TestData, ComputeCoverage(t), f' = f
  PROVE  /\ visited' \subseteq Node /\ covered' \in BOOLEAN /\ increased' \in BOOLEAN
         /\ existingTestdata' \subseteq TestData
         /\ Counted' /\ Witnessed'
<1> USE DEF IInv
<1>1. CASE UNCHANGED <<visited, covered>>
  <2>1. Counted' /\ Witnessed'
    BY <1>1 DEF Counted, Witnessed
  <2>2. QED
    BY <1>1, <2>1 DEF ComputeCoverage, TypeOK
<1>2. CASE /\ existingTestdata' = existingTestdata \cup {t}
           /\ visited' = visited \cup MarkedNodes(f, t)
           /\ covered' = FullyCovered(f, visited')
           /\ increased' = (visited' # visited)
  <2>1. Counted'
    BY <1>2 DEF Counted
  <2>2. Witnessed'
    BY <1>2 DEF Witnessed
  <2>3. visited' \subseteq Node
    BY <1>2, FunctionsAssumption, MarksTyped DEF TypeOK
  <2>4. covered' \in BOOLEAN
    BY <1>2 DEF FullyCovered
  <2>5. QED
    BY <1>2, <2>1, <2>2, <2>3, <2>4 DEF TypeOK
<1>3. QED
  BY <1>1, <1>2 DEF ComputeCoverage

(* The inductive invariant holds initially.                                *)
LEMMA InitInv == Init => IInv
<1> SUFFICES ASSUME Init PROVE IInv
  OBVIOUS
<1>1. TypeOK
  <2>1. 0 \in 0 .. Iterations /\ 0 \in 0 .. CountCap
    BY BoundsAssumption
  <2>2. QED
    BY <2>1 DEF Init, TypeOK
<1>2. Running /\ Counted /\ Witnessed /\ Current
  BY DEF Init, Running, Counted, Witnessed, Current
<1>3. QED
  BY <1>1, <1>2 DEF IInv

(* The count of executions that did not increase the coverage stays within *)
(* its cap.                                                                *)
LEMMA CountTyped ==
  ASSUME TypeOK
  PROVE  Count \in 0 .. CountCap
BY BoundsAssumption DEF TypeOK, Count

(* Every step preserves the inductive invariant.                           *)
LEMMA NextInv == IInv /\ [Next]_vars => IInv'
<1> SUFFICES ASSUME IInv, [Next]_vars PROVE IInv'
  OBVIOUS
<1> USE DEF IInv
<1>1. ASSUME NEW t \in TestData, Draw(t) PROVE IInv'
  <2>1. f' = f /\ ComputeCoverage(t) /\ iteration' = iteration /\ iteration < Iterations
        /\ notIncreasing' = notIncreasing /\ pc' = "random"
    BY <1>1 DEF Draw
  <2>2. TypeOK'
    BY <2>1, CoverageKept DEF TypeOK
  <2>3. QED
    BY <2>1, <2>2, CoverageKept DEF Running, Current
<1>2. ASSUME NEW t \in TestData, DrawAgain(t) PROVE IInv'
  <2>1. f' = f /\ ComputeCoverage(t) /\ iteration' = iteration
        /\ notIncreasing' = Count /\ pc = "random" /\ pc' = "random"
    BY <1>2 DEF DrawAgain
  <2>2. TypeOK'
    BY <2>1, CoverageKept, CountTyped DEF TypeOK
  <2>3. QED
    BY <2>1, <2>2, CoverageKept DEF Running, Current
<1>3. ASSUME NEW t \in TestData, SolveNew(t) PROVE IInv'
  <2>1. f' = f /\ ComputeCoverage(t) /\ iteration' = iteration
        /\ notIncreasing' = notIncreasing /\ pc = "directed" /\ pc' = "directed"
        /\ uncoveredTestpath' = FirstUncovered(f, visited')
    BY <1>3 DEF SolveNew, Directing
  <2>2. TypeOK'
    BY <2>1, CoverageKept DEF TypeOK
  <2>3. Current'
    BY <2>1 DEF Current
  <2>4. QED
    BY <2>1, <2>2, <2>3, CoverageKept DEF Running
<1>4. CASE UNCHANGED <<f, visited, covered, increased, existingTestdata>>
           /\ (Finish \/ LeaveRandom \/ SolveNothing \/ SolveKnown \/ LeaveDirected)
  <2>1. Counted' /\ Witnessed'
    BY <1>4 DEF Counted, Witnessed
  <2>2. CASE Finish
    BY <1>4, <2>1, <2>2 DEF Finish, TypeOK, Running, Current
  <2>3. CASE LeaveRandom
    <3>1. pc = "random" /\ pc' = "directed" /\ iteration' = iteration
          /\ uncoveredTestpath' = FirstUncovered(f, visited)
          /\ (notIncreasing' = notIncreasing \/ notIncreasing' = Count)
      BY <2>3 DEF LeaveRandom
    <3>2. Current'
      BY <1>4, <3>1 DEF Current
    <3>3. QED
      BY <1>4, <2>1, <3>1, <3>2, CountTyped DEF TypeOK, Running
  <2>4. CASE SolveNothing \/ SolveKnown
    <3>1. pc = "directed" /\ pc' = "directed" /\ iteration' = iteration
          /\ uncoveredTestpath' = FirstUncovered(f, visited) /\ notIncreasing' = notIncreasing
      BY <2>4 DEF SolveNothing, SolveKnown, Directing
    <3>2. Current'
      BY <1>4, <3>1 DEF Current
    <3>3. QED
      BY <1>4, <2>1, <3>1, <3>2 DEF TypeOK, Running
  <2>5. CASE LeaveDirected
    <3>1. pc = "directed" /\ pc' = "outer" /\ iteration' = iteration + 1
          /\ notIncreasing' = notIncreasing
      BY <2>5 DEF LeaveDirected
    <3>2. iteration' \in 0 .. Iterations
      BY <3>1, BoundsAssumption DEF TypeOK, Running
    <3>3. QED
      BY <1>4, <2>1, <3>1, <3>2 DEF TypeOK, Running, Current
  <2>6. QED
    BY <1>4, <2>2, <2>3, <2>4, <2>5
<1>5. CASE UNCHANGED vars
  <2>1. Counted' /\ Witnessed' /\ Running'
    BY <1>5 DEF vars, Counted, Witnessed, Running
  <2>2. Current'
    BY <1>5 DEF vars, Current
  <2>3. QED
    BY <1>5, <2>1, <2>2 DEF vars, TypeOK
<1>6. Finish \/ LeaveRandom \/ SolveNothing \/ SolveKnown \/ LeaveDirected
        => UNCHANGED <<f, visited, covered, increased, existingTestdata>>
  BY DEF Finish, LeaveRandom, SolveNothing, SolveKnown, LeaveDirected
<1>7. QED
  BY <1>1, <1>2, <1>3, <1>4, <1>5, <1>6 DEF Next, RandomStep, OtherStep, Terminated

(* The inductive invariant holds in every reachable state.                 *)
LEMMA Invariance == Spec => []IInv
BY InitInv, NextInv, PTL DEF Spec

(* Every reachable state of SDART is well typed; in particular the         *)
(* iterations never exceed their bound.                                    *)
THEOREM TypeCorrect == Spec => []TypeOK
<1>1. IInv => TypeOK
  BY DEF IInv
<1>2. QED
  BY <1>1, Invariance, PTL

-----------------------------------------------------------------------------
(* The first uncovered test path: up to a condition of which a branch was  *)
(* not visited, and that branch.                                           *)
LEMMA FirstUncoveredOk ==
  ASSUME f \in Functions, Open(f, visited) # {}
  PROVE  /\ FirstUncovered(f, visited) \in Seq(Node)
         /\ \E i \in Nat \ {0} :
              /\ Len(FirstUncovered(f, visited)) = i + 1
              /\ FirstUncovered(f, visited)[i] \in f.cond
              /\ LET p == FirstUncovered(f, visited) IN
                   p[i + 1] \in Successors(f, p[i]) \ visited
<1> DEFINE path == f.testpaths[Min(Open(f, visited))]
<1>0. f \in FunctionType
  BY FunctionsAssumption
<1>1. path \in Seq(Node) /\ OpenAt(f, visited, path) # {}
  <2>1. Open(f, visited) \in SUBSET Nat
    BY DEF Open
  <2>2. Min(Open(f, visited)) \in Open(f, visited)
    BY <2>1, MinIn
  <2>3. Min(Open(f, visited)) \in 1 .. Len(f.testpaths) /\ OpenAt(f, visited, path) # {}
    BY <2>2 DEF Open
  <2>4. f.testpaths \in Seq(Seq(Node))
    BY <1>0, FunctionTyped
  <2>5. \A k \in 1 .. Len(f.testpaths) : f.testpaths[k] \in Seq(Node)
    BY <2>4
  <2>6. QED
    BY <2>3, <2>5
<1>2. FirstUncovered(f, visited) = PartialPath(f, visited, path)
  BY DEF FirstUncovered
<1> HIDE DEF path
<1> DEFINE i == Min(OpenAt(f, visited, path))
           c == path[i]
           n == IF BranchVisited(f, visited, c, FALSE) THEN f.true[c] ELSE f.false[c]
<1>3. i \in OpenAt(f, visited, path)
  <2>1. OpenAt(f, visited, path) \in SUBSET Nat
    BY DEF OpenAt
  <2>2. QED
    BY <1>1, <2>1, MinIn
<1>4. i \in 1 .. Len(path) /\ c \in f.cond /\ UnvisitedBranch(f, visited, c)
  BY <1>3 DEF OpenAt
<1>5. FirstUncovered(f, visited) = SubSeq(path, 1, i) \o <<n>>
  BY <1>2, Zenon DEF PartialPath
<1> HIDE DEF i
<1>6. n \in Successors(f, c) /\ n \notin visited
  BY <1>4 DEF UnvisitedBranch, BranchVisited, Successors
<1>7. c \in Node /\ n \in Node
  BY <1>0, <1>1, <1>4, FunctionTyped
<1> HIDE DEF n
<1>8. /\ SubSeq(path, 1, i) \in Seq(Node) /\ Len(SubSeq(path, 1, i)) = i
      /\ SubSeq(path, 1, i)[i] = c
  BY <1>1, <1>4
<1>9. /\ SubSeq(path, 1, i) \o <<n>> \in Seq(Node)
      /\ Len(SubSeq(path, 1, i) \o <<n>>) = i + 1
      /\ (SubSeq(path, 1, i) \o <<n>>)[i] = c /\ (SubSeq(path, 1, i) \o <<n>>)[i + 1] = n
  <2>1. <<n>> \in Seq(Node) /\ Len(<<n>>) = 1 /\ <<n>>[1] = n
    BY <1>7
  <2>2. QED
    BY <1>4, <1>8, <2>1
<1>10. i \in Nat \ {0}
  BY <1>4
<1>11. QED
  BY <1>4, <1>5, <1>6, <1>9, <1>10

(* The list of uncovered test paths is empty exactly when no condition on  *)
(* a test path has a branch not visited.                                   *)
LEMMA NoneUncovered ==
  ASSUME f \in Functions
  PROVE  FirstUncovered(f, visited) = <<>> <=> Open(f, visited) = {}
<1>1. SUFFICES ASSUME Open(f, visited) # {} PROVE FirstUncovered(f, visited) # <<>>
  BY DEF FirstUncovered
<1>2. PICK i \in Nat \ {0} : Len(FirstUncovered(f, visited)) = i + 1
  BY <1>1, FirstUncoveredOk
<1>3. QED
  BY <1>2

(* The directed loop is left exactly when the coverage is complete, in a   *)
(* function whose conditions lie on its test paths and have a branch of    *)
(* their own.                                                              *)
THEOREM UntilCovered == Spec => []DirectedUntilCovered
<1>1. IInv => DirectedUntilCovered
  <2> SUFFICES ASSUME IInv, pc = "directed", visited # {}, OnTestpaths, OwnBranches
               PROVE  covered <=> uncoveredTestpath = <<>>
    BY DEF DirectedUntilCovered
  <2> USE DEF IInv
  <2>1. covered <=> FullyCovered(f, visited)
    BY DEF Counted, TypeOK
  <2>2. uncoveredTestpath = <<>> <=> Open(f, visited) = {}
    BY NoneUncovered DEF Current, TypeOK
  <2>3. ASSUME FullyCovered(f, visited) PROVE Open(f, visited) = {}
    <3>1. ASSUME NEW c \in f.cond, NEW b \in BOOLEAN PROVE BranchVisited(f, visited, c, b)
      <4>1. <<c, b>> \in VisitedBranches(f, visited)
        BY <2>3 DEF FullyCovered
      <4>2. QED
        BY <4>1 DEF VisitedBranches
    <3>2. QED
      BY <3>1 DEF Open, OpenAt, UnvisitedBranch
  <2>4. ASSUME Open(f, visited) = {} PROVE FullyCovered(f, visited)
    <3>1. ASSUME NEW c \in f.cond PROVE \A b \in BOOLEAN : BranchVisited(f, visited, c, b)
      <4>1. PICK k \in 1 .. Len(f.testpaths) :
                   \E i \in 1 .. Len(f.testpaths[k]) : f.testpaths[k][i] = c
        BY <3>1 DEF OnTestpaths
      <4>2. OpenAt(f, visited, f.testpaths[k]) = {}
        BY <2>4 DEF Open
      <4>3. QED
        BY <3>1, <4>1, <4>2 DEF OpenAt, UnvisitedBranch
    <3>2. ASSUME NEW c \in f.cond PROVE c \in visited
      <4>1. PICK n \in Successors(f, c) : \A t \in TestData :
                   n \in MarkedNodes(f, t) => c \in Range(f.marks[t])
        BY <3>2 DEF OwnBranches
      <4>2. n \in visited
        BY <3>1, <4>1 DEF Successors, BranchVisited
      <4>3. PICK t \in TestData : n \in MarkedNodes(f, t) /\ MarkedNodes(f, t) \subseteq visited
        BY <4>2 DEF Witnessed
      <4>4. Range(f.marks[t]) \subseteq MarkedNodes(f, t)
        BY DEF MarkedNodes
      <4>5. QED
        BY <4>1, <4>3, <4>4
    <3>3. QED
      BY <3>1, <3>2 DEF FullyCovered, VisitedBranches
  <2>5. QED
    BY <2>1, <2>2, <2>3, <2>4
<1>2. QED
  BY <1>1, Invariance, PTL

-----------------------------------------------------------------------------
(* What the directed loop remembers, as long as no execution is lost: a    *)
(* test data that exists has left its marks, and constraints it has seen   *)
(* have no solution, or one of their solutions has been run.               *)
Remembered ==
  Reliable =>
    /\ \A t \in existingTestdata : MarkedNodes(f, t) \subseteq visited
    /\ \A w \in existingConstraints :
         \/ Solutions(f, w) = {}
         \/ \E t \in Solutions(f, w) : MarkedNodes(f, t) \subseteq visited

(* A test data that solves the first uncovered test path visits a node     *)
(* that is not visited yet.                                                *)
LEMMA WantedIsNew ==
  ASSUME IInv, Directing, Reliable, NEW t \in Solutions(f, Wanted)
  PROVE  \E n \in MarkedNodes(f, t) : n \notin visited
<1>1. f \in Functions /\ f \in FunctionType /\ WellFormed(f) /\ f.exact
  BY FunctionsAssumption DEF IInv, TypeOK, Reliable
<1>2. uncoveredTestpath = FirstUncovered(f, visited) /\ Open(f, visited) # {}
  BY <1>1, NoneUncovered DEF IInv, Current, Directing
<1> DEFINE p == uncoveredTestpath
<1>3. PICK i \in Nat \ {0} :
             p \in Seq(Node) /\ Len(p) = i + 1 /\ p[i] \in f.cond
             /\ p[i + 1] \in Successors(f, p[i]) /\ p[i + 1] \notin visited
  BY <1>1, <1>2, FirstUncoveredOk
<1> HIDE DEF p
<1> DEFINE ds == Decisions(f, p)
           d == Decision(f, p, i)
<1>4. i \in 1 .. Len(p) /\ i < Len(p)
  BY <1>3
<1>5. /\ d.kind = "decision" /\ d.cond = p[i] /\ d.negated = FALSE
      /\ d.taken = (p[i + 1] = f.true[p[i]])
  BY <1>4 DEF Decision, Constraint
<1>6. PICK k \in 1 .. Len(ds) : ds[k] = d
  BY <1>3, <1>4, DecisionsOk
<1>7. ds \in Seq(ConstraintType) /\ Wanted = AddAll(f, ds)
  BY <1>3, DecisionsOk DEF Wanted, PathConstraints, p
<1>8. Wanted \in Seq(ConstraintType) /\ \E l \in 1 .. Len(Wanted) : Wanted[l] = d
  <2>1. \A j \in 1 .. Len(ds) : \E l \in 1 .. Len(AddAll(f, ds)) : AddAll(f, ds)[l] = ds[j]
    BY <1>7, AddAllOk
  <2>2. QED
    BY <1>6, <1>7, <2>1, AddAllOk
<1> HIDE DEF ds
<1>9. PICK l \in 1 .. Len(Wanted) : Wanted[l] = d
  BY <1>8
<1>10. PICK m \in 1 .. Len(Asked(Wanted)) : Asked(Wanted)[m] = <<d.cond, d.taken # d.negated>>
  <2>1. Wanted[l].kind = "decision"
    BY <1>5, <1>9
  <2>2. \E m \in 1 .. Len(Asked(Wanted)) :
          Asked(Wanted)[m] = <<Wanted[l].cond, Wanted[l].taken # Wanted[l].negated>>
    BY <1>8, <2>1, AskedOk
  <2>3. QED
    BY <1>9, <2>2
<1>11. Asked(Wanted)[m][1] = p[i] /\ Asked(Wanted)[m][2] = (p[i + 1] = f.true[p[i]])
  <2>1. (d.taken # d.negated) = (p[i + 1] = f.true[p[i]])
    <3>1. \A b \in BOOLEAN : (b # FALSE) = b
      OBVIOUS
    <3>2. QED
      BY <1>5, <3>1
  <2> HIDE DEF d
  <2>2. QED
    BY <1>5, <1>10, <2>1
<1>12. Complete(f, t)
  BY DEF Reliable, Solutions
<1>13. Toward(f, p[i], p[i + 1] = f.true[p[i]]) \in MarkedNodes(f, t)
  BY <1>1, <1>8, <1>11, <1>12, SolutionDrives
<1>14. Toward(f, p[i], p[i + 1] = f.true[p[i]]) = p[i + 1]
  BY <1>3 DEF Toward, Successors
<1>15. QED
  BY <1>3, <1>13, <1>14

(* A reliable execution leaves its marks. *)
LEMMA ReliablyMarked ==
  ASSUME IInv, Remembered, Reliable, NEW t \in TestData, ComputeCoverage(t), f' = f
  PROVE  /\ visited \subseteq visited' /\ MarkedNodes(f, t) \subseteq visited'
         /\ \A s \in existingTestdata' : MarkedNodes(f, s) \subseteq visited'
<1>1. CASE t \in existingTestdata
  BY <1>1 DEF ComputeCoverage, Remembered
<1>2. CASE t \notin existingTestdata
  <2>1. ~ Fails(f, t)
    BY DEF Fails, RunsNeeded, Reliable, MaxExecutions
  <2>2. visited' = visited \cup MarkedNodes(f, t) /\ existingTestdata' = existingTestdata \cup {t}
    BY <1>2, <2>1 DEF ComputeCoverage
  <2>3. QED
    BY <2>2 DEF Remembered
<1>3. QED
  BY <1>1, <1>2

(* Every step preserves what is known of the constraints remembered.       *)
LEMMA StepRemembered == IInv /\ Remembered /\ [Next]_vars => Remembered'
<1> SUFFICES ASSUME IInv, Remembered, [Next]_vars, Reliable' PROVE Remembered'
  BY DEF Remembered
<1>1. f' = f
  BY DEF Next, RandomStep, OtherStep, Draw, DrawAgain, Finish, LeaveRandom, SolveNew,
         SolveNothing, SolveKnown, LeaveDirected, Terminated, vars
<1>2. Reliable
  BY <1>1 DEF Reliable
<1>3. ASSUME NEW t \in TestData, Draw(t) \/ DrawAgain(t) PROVE Remembered'
  <2>1. ComputeCoverage(t) /\ existingConstraints' = existingConstraints
    BY <1>3 DEF Draw, DrawAgain
  <2>2. /\ visited \subseteq visited'
        /\ \A s \in existingTestdata' : MarkedNodes(f, s) \subseteq visited'
    BY <1>1, <1>2, <2>1, ReliablyMarked
  <2>3. QED
    BY <1>1, <1>2, <2>1, <2>2 DEF Remembered
<1>4. ASSUME NEW t \in TestData, SolveNew(t) PROVE Remembered'
  <2>1. /\ ComputeCoverage(t) /\ t \in Solutions(f, Wanted)
        /\ existingConstraints' = existingConstraints \cup {Wanted}
    BY <1>4 DEF SolveNew
  <2>2. /\ visited \subseteq visited' /\ MarkedNodes(f, t) \subseteq visited'
        /\ \A s \in existingTestdata' : MarkedNodes(f, s) \subseteq visited'
    BY <1>1, <1>2, <2>1, ReliablyMarked
  <2>3. ASSUME NEW w \in existingConstraints'
        PROVE  \/ Solutions(f, w) = {}
               \/ \E s \in Solutions(f, w) : MarkedNodes(f, s) \subseteq visited'
    <3>1. CASE w = Wanted
      BY <2>1, <2>2, <3>1
    <3>2. CASE w \in existingConstraints
      BY <1>2, <2>2, <3>2 DEF Remembered
    <3>3. QED
      BY <2>1, <3>1, <3>2
  <2>4. QED
    BY <1>1, <2>2, <2>3 DEF Remembered
<1>5. CASE SolveNothing
  <2>1. /\ MayHaveNone(f, Wanted) /\ UNCHANGED <<visited, existingTestdata>>
        /\ existingConstraints' = existingConstraints \cup {Wanted}
    BY <1>5 DEF SolveNothing
  <2>2. Solutions(f, Wanted) = {}
    <3>1. \A t \in Solutions(f, Wanted) : t \in TestData
      BY DEF Solutions
    <3>2. QED
      BY <1>2, <2>1, <3>1 DEF MayHaveNone, Reliable
  <2>3. QED
    BY <1>1, <1>2, <2>1, <2>2 DEF Remembered
<1>6. CASE UNCHANGED <<visited, existingTestdata, existingConstraints>>
  BY <1>1, <1>2, <1>6 DEF Remembered
<1>7. Finish \/ LeaveRandom \/ SolveKnown \/ LeaveDirected \/ UNCHANGED vars
        => UNCHANGED <<visited, existingTestdata, existingConstraints>>
  BY DEF Finish, LeaveRandom, SolveKnown, LeaveDirected, vars
<1>8. QED
  BY <1>3, <1>4, <1>5, <1>6, <1>7 DEF Next, RandomStep, OtherStep, Terminated

(* What is known of the constraints remembered holds in every reachable    *)
(* state.                                                                  *)
LEMMA RememberedAlways == Spec => [](IInv /\ Remembered)
<1>1. Init => Remembered
  BY DEF Init, Remembered
<1>2. QED
  BY <1>1, InitInv, NextInv, StepRemembered, PTL DEF Spec

(* The directed loop meets constraints it has seen before only if they     *)
(* have no solution, whatever was run in between.                          *)
THEOREM KnownInfeasible == Spec => []KnownOnlyIfInfeasible
<1>1. IInv /\ Remembered => KnownOnlyIfInfeasible
  <2> SUFFICES ASSUME IInv, Remembered, Reliable, Directing, Wanted \in existingConstraints,
                      Solutions(f, Wanted) # {}
               PROVE  FALSE
    BY DEF KnownOnlyIfInfeasible
  <2>1. PICK t \in Solutions(f, Wanted) : MarkedNodes(f, t) \subseteq visited
    BY DEF Remembered
  <2>2. QED
    BY <2>1, WantedIsNew
<1>2. QED
  BY <1>1, RememberedAlways, PTL

(* A test data that solves an uncovered test path visits a new node, and   *)
(* so is never one that has been run before.                               *)
THEOREM DirectedCovers == Spec => DirectedDataCovers
<1>1. IInv /\ Remembered /\ [Next]_vars
        => [Reliable /\ (\E t \in TestData : SolveNew(t)) => visited' # visited]_vars
  <2> SUFFICES ASSUME IInv, Remembered, Reliable, NEW t \in TestData, SolveNew(t)
               PROVE  visited' # visited
    OBVIOUS
  <2>1. Directing /\ t \in Solutions(f, Wanted) /\ ComputeCoverage(t) /\ f' = f
    BY DEF SolveNew
  <2>2. PICK n \in MarkedNodes(f, t) : n \notin visited
    BY <2>1, WantedIsNew
  <2>3. MarkedNodes(f, t) \subseteq visited'
    BY <2>1, ReliablyMarked
  <2>4. QED
    BY <2>2, <2>3
<1>2. QED
  BY <1>1, RememberedAlways, PTL DEF Spec, DirectedDataCovers

=============================================================================
