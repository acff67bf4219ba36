--------------------- MODULE TestpathGeneration_proofs ---------------------
(***************************************************************************)
(* Proofs about TestpathGeneration, for every set of graphs, loop bound    *)
(* and stack size: the traversal emits test paths only, each one once, and *)
(* when it returns it has emitted every one, when it fails exactly those   *)
(* up to there; and the stack overflows on graphs with a free cycle only.  *)
(***************************************************************************)
EXTENDS TestpathGeneration, FiniteSetTheorems, TLAPS

(* The calls still to be made lead along allowed edges.                    *)
CallsAllowed ==
  \A i \in 1 .. Len(calls) : \A j \in 1 .. Len(calls[i]) :
    LET n == calls[i][j] IN
      \/ tp[i] \in cfg.cond /\ n = cfg.false[tp[i]]
      \/ n = cfg.true[tp[i]] /\ (tp[i] \in cfg.loop => Count(tp, i, n) < MaxLoop)

Phases ==
  /\ status = "idle" => tp = <<>> /\ testpaths = <<>>
  /\ status = "done" => calls = <<>> /\ possibleTestpaths = testpaths
  /\ status = "failed" => /\ calls # <<>> /\ calls[Len(calls)] # <<>>
                          /\ Head(calls[Len(calls)]) = cfg.end
                          /\ possibleTestpaths = testpaths
  /\ Len(tp) # 0 => tp[1] = cfg.begin

IInv == TypeOK /\ PathIsChain /\ CallsAllowed /\ Phases /\ EmittedSound

(* The false branch of a condition is called first: while an activation    *)
(* runs below another one that has a call left, it is that of the false    *)
(* branch.                                                                 *)
FalseFirst ==
  /\ \A k \in 1 .. Len(calls) :
       /\ Len(calls[k]) <= 2
       /\ \A j \in 2 .. Len(calls[k]) :
            tp[k] \in cfg.cond /\ calls[k][1] = cfg.false[tp[k]] /\ calls[k][j] = cfg.true[tp[k]]
  /\ \A k \in 1 .. Len(calls) - 1 : \A j \in 1 .. Len(calls[k]) :
       tp[k] \in cfg.cond /\ tp[k + 1] = cfg.false[tp[k]] /\ calls[k][j] = cfg.true[tp[k]]

(* A test path is emitted already or lies ahead of the traversal.          *)
Exhaustive(q) ==
  status # "idle" /\ IsTestpath(cfg, q) => q \in Emitted \/ Ahead(q)

-----------------------------------------------------------------------------
(* How often a node occurs on a path depends on the counted prefix only.   *)
LEMMA CountPrefix ==
  ASSUME NEW p, NEW q, NEW n \in Nat, NEW s, \A i \in 1 .. n : p[i] = q[i]
  PROVE  Count(p, n, s) = Count(q, n, s)
<1>1. {i \in 1 .. n : p[i] = s} = {i \in 1 .. n : q[i] = s}
  OBVIOUS
<1>2. QED
  BY <1>1 DEF Count

(* Whether a step of a path is allowed depends on the path up to it only.  *)
LEMMA AllowedPrefix ==
  ASSUME NEW g, NEW p, NEW q, NEW n \in Nat, n >= 1,
         \A i \in 1 .. n + 1 : p[i] = q[i]
  PROVE  Allowed(g, p, n) <=> Allowed(g, q, n)
<1>1. p[n] = q[n] /\ p[n + 1] = q[n + 1]
  OBVIOUS
<1>2. Count(p, n, p[n + 1]) = Count(q, n, q[n + 1])
  <2>1. \A i \in 1 .. n : p[i] = q[i]
    OBVIOUS
  <2>2. QED
    BY <2>1, <1>1, CountPrefix
<1>3. QED
  BY <1>1, <1>2 DEF Allowed

(* The calls traverseCFG makes on a node, by the kind of the node.         *)
LEMMA BranchesCases ==
  ASSUME NEW g \in Cfgs, NEW s, NEW p
  PROVE  LET b == Branches(g, s, p)
             open == s \in g.loop => Count(p, Len(p), g.true[s]) < MaxLoop
         IN /\ s \in g.cond /\ open   => Len(b) = 2 /\ b[1] = g.false[s] /\ b[2] = g.true[s]
            /\ s \in g.cond /\ ~ open => Len(b) = 1 /\ b[1] = g.false[s]
            /\ s \notin g.cond        => Len(b) = 1 /\ b[1] = g.true[s] /\ open
<1> DEFINE b == Branches(g, s, p)
<1> DEFINE open == s \in g.loop => Count(p, Len(p), g.true[s]) < MaxLoop
<1>1. g.loop \subseteq g.cond
  BY CfgsAssumption DEF WellFormed
<1>2. ASSUME s \in g.cond, open PROVE b = <<g.false[s], g.true[s]>>
  BY <1>2 DEF Branches
<1>3. ASSUME s \in g.cond, ~ open PROVE b = <<g.false[s]>>
  BY <1>3, <1>1 DEF Branches
<1>4. ASSUME s \notin g.cond PROVE b = <<g.true[s]>>
  BY <1>4, <1>1 DEF Branches
<1> HIDE DEF b
<1>5. QED
  BY <1>1, <1>2, <1>3, <1>4 DEF b

(* traverseCFG calls itself only on nodes that an allowed edge leads to.   *)
LEMMA BranchesAllowed ==
  ASSUME NEW g \in Cfgs, NEW p \in Seq(Node), Len(p) >= 1, NEW n,
         NEW j \in 1 .. Len(Branches(g, p[Len(p)], p)),
         Branches(g, p[Len(p)], p)[j] = n
  PROVE  \/ p[Len(p)] \in g.cond /\ n = g.false[p[Len(p)]]
         \/ /\ n = g.true[p[Len(p)]]
            /\ p[Len(p)] \in g.loop => Count(p, Len(p), n) < MaxLoop
<1> DEFINE s == p[Len(p)]
<1> DEFINE b == Branches(g, s, p)
<1> DEFINE open == s \in g.loop => Count(p, Len(p), g.true[s]) < MaxLoop
<1>1. /\ s \in g.cond /\ open   => Len(b) = 2 /\ b[1] = g.false[s] /\ b[2] = g.true[s]
      /\ s \in g.cond /\ ~ open => Len(b) = 1 /\ b[1] = g.false[s]
      /\ s \notin g.cond        => Len(b) = 1 /\ b[1] = g.true[s] /\ open
  BY BranchesCases
<1>2. j \in 1 .. Len(b) /\ b[j] = n
  OBVIOUS
<1> HIDE DEF b
<1>3. j \in Nat /\ (j = 1 \/ j = 2)
  BY <1>1, <1>2
<1>4. QED
  BY <1>1, <1>2, <1>3

(* The nodes that an allowed edge leads to, and those that Branches has.   *)
Chosen(g, p, n) ==
  \/ p[Len(p)] \in g.cond /\ n = g.false[p[Len(p)]]
  \/ /\ n = g.true[p[Len(p)]]
     /\ p[Len(p)] \in g.loop => Count(p, Len(p), n) < MaxLoop

Reached(g, p, n) ==
  \E j \in 1 .. Len(Branches(g, p[Len(p)], p)) : Branches(g, p[Len(p)], p)[j] = n

(* Branches has every node that an allowed edge leads to.                  *)
LEMMA BranchesReach ==
  ASSUME NEW g \in Cfgs, NEW p \in Seq(Node), Len(p) >= 1, NEW n, Chosen(g, p, n)
  PROVE  Reached(g, p, n)
<1> USE DEF Chosen, Reached
<1> DEFINE s == p[Len(p)]
<1> DEFINE b == Branches(g, s, p)
<1> DEFINE open == s \in g.loop => Count(p, Len(p), g.true[s]) < MaxLoop
<1>1. /\ s \in g.cond /\ open   => Len(b) = 2 /\ b[1] = g.false[s] /\ b[2] = g.true[s]
      /\ s \in g.cond /\ ~ open => Len(b) = 1 /\ b[1] = g.false[s]
      /\ s \notin g.cond        => Len(b) = 1 /\ b[1] = g.true[s] /\ open
  BY BranchesCases
<1>2. (s \in g.cond /\ n = g.false[s]) \/ (n = g.true[s] /\ open)
  OBVIOUS
<1> HIDE DEF b
<1>3. \E j \in 1 .. Len(b) : b[j] = n
  BY <1>1, <1>2
<1>4. QED
  BY <1>3 DEF b

(* The calls traverseCFG makes are on nodes.                               *)
LEMMA BranchesType ==
  ASSUME NEW g \in Cfgs, NEW s \in Node, NEW p
  PROVE  Branches(g, s, p) \in Seq(Node)
<1>1. g.true[s] \in Node /\ g.false[s] \in Node
  BY CfgsAssumption DEF CfgType
<1>2. QED
  BY <1>1 DEF Branches

-----------------------------------------------------------------------------
(* The edges of the graph that is traversed lead to nodes.                 *)
LEMMA GraphTyped ==
  ASSUME TypeOK
  PROVE  /\ cfg.begin \in Node /\ cfg.end \in Node /\ cfg.begin # cfg.end
         /\ \A n \in Node : cfg.true[n] \in Node /\ cfg.false[n] \in Node
BY CfgsAssumption DEF TypeOK, CfgType, WellFormed

(* The inductive invariant holds initially.                                *)
LEMMA InitInv == Init => IInv
BY BoundsAssumption DEF Init, IInv, TypeOK, PathIsChain, CallsAllowed, Phases, EmittedSound, Emitted

(* What Start, EmitPath and Descend do to the two stacks.                  *)
LEMMA StartInv ==
  ASSUME IInv, Start
  PROVE  IInv'
<1> USE DEF IInv
<1>1. cfg.begin \in Node /\ cfg' = cfg /\ cfg \in Cfgs /\ cfg.begin # cfg.end
  BY GraphTyped DEF TypeOK, Start
<1>2. tp' = <<cfg.begin>> /\ tp' \in Seq(Node) /\ Len(tp') = 1 /\ tp'[1] = cfg.begin
  BY <1>1 DEF Start
<1> DEFINE b == Branches(cfg, cfg.begin, <<cfg.begin>>)
<1>3. b \in Seq(Node)
  BY <1>1, BranchesType
<1>4. calls' = <<b>> /\ Len(calls') = 1 /\ calls'[1] = b /\ calls' \in Seq(Seq(Node))
  BY <1>3 DEF Start
<1>5. TypeOK'
  BY <1>2, <1>4, BoundsAssumption DEF TypeOK, Start
<1>6. PathIsChain'
  BY <1>1, <1>2, <1>4 DEF PathIsChain
<1>7. CallsAllowed'
  <2>1. b = Branches(cfg, tp'[Len(tp')], tp')
    BY <1>1, <1>2 DEF Start
  <2> HIDE DEF b
  <2> DEFINE p == tp'
  <2>2. p \in Seq(Node) /\ Len(p) = 1 /\ b = Branches(cfg, p[Len(p)], p) /\ cfg \in Cfgs
    BY <1>1, <1>2, <2>1
  <2> HIDE DEF p
  <2>3. \A n : (\E j \in 1 .. Len(b) : b[j] = n)
           => \/ p[Len(p)] \in cfg.cond /\ n = cfg.false[p[Len(p)]]
              \/ n = cfg.true[p[Len(p)]] /\ (p[Len(p)] \in cfg.loop => Count(p, Len(p), n) < MaxLoop)
    BY <2>2, BranchesAllowed
  <2>4. \A n : (\E j \in 1 .. Len(b) : b[j] = n)
           => \/ tp'[1] \in cfg.cond /\ n = cfg.false[tp'[1]]
              \/ n = cfg.true[tp'[1]] /\ (tp'[1] \in cfg.loop => Count(tp', 1, n) < MaxLoop)
    BY <2>2, <2>3 DEF p
  <2>5. QED
    BY <2>4, <1>1, <1>2, <1>4 DEF CallsAllowed
<1>8. Phases'
  BY <1>1, <1>2 DEF Phases, Start
<1>9. EmittedSound'
  BY <1>1 DEF EmittedSound, Emitted, Start
<1>10. QED
  BY <1>5, <1>6, <1>7, <1>8, <1>9

(* While a call is pending the innermost activation and its callee are     *)
(* well defined, and the callee extends the path by an allowed step.       *)
LEMMA PendingFacts ==
  ASSUME IInv, Pending
  PROVE  /\ Top \in Nat /\ Top >= 1 /\ Len(tp) = Top
         /\ calls[Top] \in Seq(Node) /\ Len(calls[Top]) >= 1
         /\ Callee \in Node /\ Callee = calls[Top][1]
         /\ Caller \in Seq(Seq(Node)) /\ Len(Caller) = Top
         /\ Caller[Top] = Tail(calls[Top])
         /\ \A i \in 1 .. Top : i # Top => Caller[i] = calls[i]
         /\ \A i \in 1 .. Top : \A j \in 1 .. Len(Caller[i]) :
              \E k \in 1 .. Len(calls[i]) : calls[i][k] = Caller[i][j]
         /\ Append(tp, Callee) \in Seq(Node) /\ Len(Append(tp, Callee)) = Top + 1
         /\ Append(tp, Callee)[Top + 1] = Callee
         /\ \A i \in 1 .. Top : Append(tp, Callee)[i] = tp[i]
         /\ \A i \in 1 .. Top : Allowed(cfg, Append(tp, Callee), i)
<1> USE DEF IInv
<1>1. /\ Top \in Nat /\ Top >= 1 /\ Len(tp) = Top /\ tp \in Seq(Node)
      /\ calls \in Seq(Seq(Node)) /\ calls[Top] \in Seq(Node)
  BY DEF Pending, TypeOK, PathIsChain, Top
<1>2. /\ Len(calls[Top]) >= 1 /\ Callee \in Node /\ Callee = calls[Top][1]
  BY <1>1 DEF Pending, Callee
<1>3. Tail(calls[Top]) \in Seq(Node)
  BY <1>1, <1>2
<1>4. /\ Caller \in Seq(Seq(Node)) /\ Len(Caller) = Top
      /\ Caller[Top] = Tail(calls[Top])
      /\ \A i \in 1 .. Top : i # Top => Caller[i] = calls[i]
  BY <1>1, <1>3 DEF Caller, Top
<1>5. \A j \in 1 .. Len(Tail(calls[Top])) :
         j + 1 \in 1 .. Len(calls[Top]) /\ Tail(calls[Top])[j] = calls[Top][j + 1]
  BY <1>1, <1>2
<1>6. \A i \in 1 .. Top : \A j \in 1 .. Len(Caller[i]) :
         \E k \in 1 .. Len(calls[i]) : calls[i][k] = Caller[i][j]
  <2> TAKE i \in 1 .. Top
  <2> TAKE j \in 1 .. Len(Caller[i])
  <2>1. CASE i = Top
    BY <2>1, <1>4, <1>5
  <2>2. CASE i # Top
    BY <2>2, <1>4
  <2>3. QED
    BY <2>1, <2>2
<1> DEFINE q == Append(tp, Callee)
<1>7. /\ q \in Seq(Node) /\ Len(q) = Top + 1 /\ q[Top + 1] = Callee
      /\ \A i \in 1 .. Top : q[i] = tp[i]
  BY <1>1, <1>2
<1> HIDE DEF q
<1>8. \A i \in 1 .. Top : Allowed(cfg, q, i)
  <2> TAKE i \in 1 .. Top
  <2>1. CASE i = Top
    <3>1. \/ tp[Top] \in cfg.cond /\ Callee = cfg.false[tp[Top]]
          \/ /\ Callee = cfg.true[tp[Top]]
             /\ tp[Top] \in cfg.loop => Count(tp, Top, Callee) < MaxLoop
      BY <1>1, <1>2 DEF CallsAllowed, Top
    <3>2. Count(tp, Top, Callee) = Count(q, Top, Callee)
      BY <1>1, <1>7, CountPrefix
    <3>3. q[Top] = tp[Top] /\ q[Top + 1] = Callee
      BY <1>1, <1>7
    <3>4. QED
      BY <2>1, <3>1, <3>2, <3>3 DEF Allowed
  <2>2. CASE i # Top
    <3>1. i \in 1 .. Len(tp) - 1 /\ i \in Nat /\ i >= 1
      BY <2>2, <1>1
    <3>2. Allowed(cfg, tp, i)
      BY <3>1 DEF PathIsChain
    <3>3. \A k \in 1 .. i + 1 : tp[k] = q[k]
      BY <1>1, <1>7, <3>1
    <3>4. QED
      BY <3>1, <3>2, <3>3, AllowedPrefix
  <2>3. QED
    BY <2>1, <2>2
<1>9. QED
  BY <1>1, <1>2, <1>4, <1>6, <1>7, <1>8 DEF q

(* Cloning a complete path preserves the inductive invariant.              *)
LEMMA EmitPathInv ==
  ASSUME IInv, EmitPath
  PROVE  IInv'
<1> USE DEF IInv
<1>1. Pending /\ Callee = cfg.end /\ cfg' = cfg /\ tp' = tp /\ calls' = Caller
  BY DEF EmitPath
<1> DEFINE q == Append(tp, Callee)
<1>2. testpaths' = Append(testpaths, q) /\ testpaths \in Seq(Seq(Node)) /\ q \in Seq(Node)
  BY <1>1, PendingFacts DEF EmitPath, TypeOK
<1>3. TypeOK'
  BY <1>1, <1>2, PendingFacts DEF TypeOK, EmitPath, Top
<1>4. PathIsChain'
  BY <1>1, PendingFacts DEF PathIsChain
<1>5. CallsAllowed'
  <2>1. Len(calls') = Len(calls)
    BY <1>1, PendingFacts DEF Top
  <2>2. \A i \in 1 .. Len(calls) : \A j \in 1 .. Len(calls'[i]) :
           \E k \in 1 .. Len(calls[i]) : calls[i][k] = calls'[i][j]
    BY <1>1, PendingFacts DEF Top
  <2>3. QED
    BY <1>1, <2>1, <2>2 DEF CallsAllowed
<1>6. Phases'
  BY <1>1 DEF Phases, EmitPath, Pending
<1>7. IsTestpath(cfg, q)
  <2>1. Len(tp) # 0 /\ tp[1] = cfg.begin
    BY <1>1, PendingFacts DEF Phases, TypeOK
  <2>2. Len(q) >= 2 /\ q[1] = cfg.begin /\ q[Len(q)] = cfg.end
    BY <2>1, <1>1, PendingFacts
  <2>3. \A i \in 2 .. Len(q) - 1 : q[i] # cfg.end
    BY <1>1, PendingFacts DEF PathIsChain
  <2>4. \A i \in 1 .. Len(q) - 1 : Allowed(cfg, q, i)
    BY <1>1, PendingFacts
  <2>5. QED
    BY <1>2, <2>2, <2>3, <2>4 DEF IsTestpath
<1>8. EmittedSound'
  <2>1. \A p \in Emitted' : p \in Emitted \/ p = q
    BY <1>2 DEF Emitted
  <2>2. QED
    BY <2>1, <1>1, <1>7 DEF EmittedSound
<1>9. QED
  BY <1>3, <1>4, <1>5, <1>6, <1>8

(* A recursive call, which adds a node to the path, preserves it.          *)
LEMMA DescendInv ==
  ASSUME IInv, Descend
  PROVE  IInv'
<1> USE DEF IInv
<1> DEFINE q == Append(tp, Callee)
<1> DEFINE b == Branches(cfg, Callee, q)
<1>1. /\ Pending /\ Callee # cfg.end /\ cfg' = cfg /\ tp' = q
      /\ calls' = Append(Caller, b) /\ testpaths' = testpaths
  BY DEF Descend
<1>2. cfg \in Cfgs /\ b \in Seq(Node)
  BY <1>1, PendingFacts, BranchesType DEF TypeOK
<1>3. /\ calls' \in Seq(Seq(Node)) /\ Len(calls') = Top + 1 /\ calls'[Top + 1] = b
      /\ \A i \in 1 .. Top : calls'[i] = Caller[i]
  BY <1>1, <1>2, PendingFacts
<1>4. TypeOK'
  BY <1>1, <1>3, PendingFacts, BoundsAssumption DEF TypeOK, Descend
<1>5. /\ q \in Seq(Node) /\ Len(q) = Top + 1 /\ q[Top + 1] = Callee
      /\ \A i \in 1 .. Top : q[i] = tp[i]
      /\ \A i \in 1 .. Top : Allowed(cfg, q, i)
      /\ Top \in Nat /\ Top >= 1 /\ Len(tp) = Top
  BY <1>1, PendingFacts
<1> HIDE DEF q
<1>6. PathIsChain'
  <2>1. Len(tp') = Len(calls') /\ Len(tp') = Top + 1
    BY <1>5, <1>1, <1>3
  <2>2. \A i \in 1 .. Len(tp') : tp'[i] # cfg'.end
    <3>1. \A i \in 1 .. Top : q[i] # cfg.end
      BY <1>5 DEF PathIsChain
    <3>2. QED
      BY <3>1, <2>1, <1>5, <1>1
  <2>3. \A i \in 1 .. Len(tp') - 1 : Allowed(cfg', tp', i)
    BY <1>5, <1>1, <2>1
  <2>4. QED
    BY <2>1, <2>2, <2>3 DEF PathIsChain
<1>7. CallsAllowed'
  <2> SUFFICES ASSUME NEW i \in 1 .. Len(calls'), NEW j \in 1 .. Len(calls'[i])
               PROVE  LET n == calls'[i][j] IN
                        \/ q[i] \in cfg.cond /\ n = cfg.false[q[i]]
                        \/ n = cfg.true[q[i]] /\ (q[i] \in cfg.loop => Count(q, i, n) < MaxLoop)
    BY <1>1 DEF CallsAllowed
  <2> DEFINE n == calls'[i][j]
  <2>1. CASE i = Top + 1
    <3>1. Len(q) = Top + 1 /\ q \in Seq(Node) /\ q[Len(q)] = Callee /\ Len(q) >= 1
      BY <1>5
    <3>2. \E k \in 1 .. Len(b) : b[k] = n
      BY <1>3, <2>1
    <3>3. b = Branches(cfg, q[Len(q)], q)
      BY <3>1
    <3> HIDE DEF b, n
    <3>4. \/ q[Len(q)] \in cfg.cond /\ n = cfg.false[q[Len(q)]]
          \/ /\ n = cfg.true[q[Len(q)]]
             /\ q[Len(q)] \in cfg.loop => Count(q, Len(q), n) < MaxLoop
      BY <1>2, <3>1, <3>2, <3>3, BranchesAllowed
    <3>5. i = Len(q)
      BY <2>1, <3>1
    <3>6. QED
      BY <3>4, <3>5 DEF n
  <2>2. CASE i # Top + 1
    <3>1. i \in 1 .. Top /\ n = Caller[i][j] /\ j \in 1 .. Len(Caller[i])
      BY <1>5, <1>3, <2>2
    <3>2. PICK k \in 1 .. Len(calls[i]) : calls[i][k] = n
      <4>1. \A h \in 1 .. Top : \A g \in 1 .. Len(Caller[h]) :
              \E k \in 1 .. Len(calls[h]) : calls[h][k] = Caller[h][g]
        BY <1>1, PendingFacts
      <4>2. QED
        BY <3>1, <4>1
    <3>3. \/ tp[i] \in cfg.cond /\ n = cfg.false[tp[i]]
          \/ n = cfg.true[tp[i]] /\ (tp[i] \in cfg.loop => Count(tp, i, n) < MaxLoop)
      BY <3>1, <3>2 DEF CallsAllowed, Top
    <3>4. i \in Nat /\ q[i] = tp[i] /\ \A m \in 1 .. i : tp[m] = q[m]
      BY <1>5, <3>1
    <3>5. Count(tp, i, n) = Count(q, i, n)
      BY <3>4, CountPrefix
    <3>6. QED
      BY <3>3, <3>4, <3>5
  <2>3. QED
    BY <2>1, <2>2
<1>8. Phases'
  <2>1. Len(tp) # 0 /\ tp'[1] = tp[1]
    <3>1. tp'[1] = tp[1]
      BY <1>5, <1>1
    <3>2. QED
      BY <1>5, <3>1 DEF TypeOK
  <2>2. QED
    BY <1>1, <2>1 DEF Phases, Descend, Pending
<1>9. EmittedSound'
  BY <1>1 DEF EmittedSound, Emitted
<1>10. QED
  BY <1>4, <1>6, <1>7, <1>8, <1>9

(* A return, which removes the last node, preserves it.                    *)
LEMMA ReturnInv ==
  ASSUME IInv, Return
  PROVE  IInv'
<1> USE DEF IInv
<1>1. /\ cfg' = cfg /\ testpaths' = testpaths /\ status = "running" /\ status' = status
      /\ tp' = SubSeq(tp, 1, Len(tp) - 1) /\ calls' = SubSeq(calls, 1, Len(tp) - 1)
  BY DEF Return, Top, PathIsChain
<1>2. tp \in Seq(Node) /\ calls \in Seq(Seq(Node)) /\ Len(tp) \in Nat /\ Len(tp) >= 1
      /\ Len(calls) = Len(tp)
  BY DEF Return, TypeOK, PathIsChain
<1>3. /\ tp' \in Seq(Node) /\ calls' \in Seq(Seq(Node))
      /\ Len(tp') = Len(tp) - 1 /\ Len(calls') = Len(tp) - 1
      /\ \A i \in 1 .. Len(tp) - 1 : tp'[i] = tp[i] /\ calls'[i] = calls[i]
  BY <1>1, <1>2 DEF PathIsChain
<1>4. TypeOK'
  <2>1. Len(calls') <= StackLimit
    BY <1>2, <1>3, BoundsAssumption DEF TypeOK
  <2>2. QED
    BY <1>1, <1>3, <2>1 DEF TypeOK, Return
<1>5. PathIsChain'
  <2>1. \A i \in 1 .. Len(tp') - 1 : Allowed(cfg, tp', i)
    <3> TAKE i \in 1 .. Len(tp') - 1
    <3>1. Len(tp) \in Nat /\ Len(tp') = Len(tp) - 1
      BY <1>2, <1>3
    <3>2. i \in Nat /\ i >= 1 /\ i \in 1 .. Len(tp) - 1 /\ i + 1 <= Len(tp) - 1
      BY <3>1
    <3>3. \A m \in 1 .. i + 1 : m \in 1 .. Len(tp) - 1
      BY <3>1, <3>2
    <3>4. \A m \in 1 .. i + 1 : tp[m] = tp'[m]
      BY <1>3, <3>3, Zenon
    <3>5. Allowed(cfg, tp, i)
      BY <3>2 DEF PathIsChain
    <3>6. QED
      BY <3>2, <3>4, <3>5, AllowedPrefix
  <2>2. \A i \in 1 .. Len(tp') : i \in 1 .. Len(tp) /\ tp'[i] = tp[i]
    BY <1>2, <1>3
  <2>3. \A i \in 1 .. Len(tp') : tp'[i] # cfg'.end
    BY <1>1, <2>2 DEF PathIsChain
  <2>4. Len(tp') = Len(calls')
    BY <1>2, <1>3
  <2>5. QED
    BY <1>1, <2>1, <2>3, <2>4 DEF PathIsChain
<1>6. CallsAllowed'
  <2> SUFFICES ASSUME NEW i \in 1 .. Len(calls'), NEW j \in 1 .. Len(calls'[i])
               PROVE  LET n == calls'[i][j] IN
                        \/ tp'[i] \in cfg.cond /\ n = cfg.false[tp'[i]]
                        \/ n = cfg.true[tp'[i]] /\ (tp'[i] \in cfg.loop => Count(tp', i, n) < MaxLoop)
    BY <1>1 DEF CallsAllowed
  <2> DEFINE n == calls[i][j]
  <2>1. /\ i \in Nat /\ i \in 1 .. Len(calls) /\ calls'[i] = calls[i] /\ tp'[i] = tp[i]
        /\ j \in 1 .. Len(calls[i]) /\ \A m \in 1 .. i : tp[m] = tp'[m]
    <3>1. Len(tp) \in Nat /\ Len(calls) = Len(tp) /\ Len(calls') = Len(tp) - 1
      BY <1>2, <1>3
    <3>2. i \in Nat /\ i \in 1 .. Len(calls) /\ i \in 1 .. Len(tp) - 1
      BY <3>1
    <3>3. calls'[i] = calls[i] /\ tp'[i] = tp[i]
      BY <1>3, <3>2
    <3>4. \A m \in 1 .. i : m \in 1 .. Len(tp) - 1
      BY <3>1, <3>2
    <3>5. \A m \in 1 .. i : tp[m] = tp'[m]
      BY <1>3, <3>4, Zenon
    <3>6. QED
      BY <3>2, <3>3, <3>5
  <2>2. \/ tp[i] \in cfg.cond /\ n = cfg.false[tp[i]]
        \/ n = cfg.true[tp[i]] /\ (tp[i] \in cfg.loop => Count(tp, i, n) < MaxLoop)
    BY <2>1 DEF CallsAllowed
  <2>3. Count(tp, i, n) = Count(tp', i, n)
    BY <2>1, CountPrefix
  <2>4. QED
    BY <2>1, <2>2, <2>3
<1>7. Phases'
  <2>1. Len(tp') # 0 => tp'[1] = tp[1]
    <3> SUFFICES ASSUME Len(tp') # 0 PROVE tp'[1] = tp[1]
      OBVIOUS
    <3>1. 1 \in 1 .. Len(tp) - 1
      BY <1>2, <1>3
    <3>2. QED
      BY <1>3, <3>1
  <2>2. Len(tp) # 0
    BY <1>2
  <2>3. QED
    BY <1>1, <2>1, <2>2 DEF Phases
<1>8. EmittedSound'
  BY <1>1 DEF EmittedSound, Emitted
<1>9. QED
  BY <1>4, <1>5, <1>6, <1>7, <1>8

(* The overflow of the stack preserves it.                                 *)
LEMMA OverflowInv ==
  ASSUME IInv, Overflow
  PROVE  IInv'
BY DEF Overflow, IInv, TypeOK, PathIsChain, CallsAllowed, Phases, EmittedSound, Emitted, Pending

(* A solver that throws preserves it.                                      *)
LEMMA SolveThrowsInv ==
  ASSUME IInv, SolveThrows
  PROVE  IInv'
<1>1. Head(calls[Len(calls)]) = cfg.end /\ calls # <<>> /\ calls[Len(calls)] # <<>>
  BY DEF SolveThrows, Pending, Callee, Top
<1>2. QED
  BY <1>1 DEF SolveThrows, IInv, TypeOK, PathIsChain, CallsAllowed, Phases, EmittedSound, Emitted, Pending

(* Handing out the test paths preserves it.                                *)
LEMMA PublishInv ==
  ASSUME IInv, Publish
  PROVE  IInv'
BY DEF Publish, IInv, TypeOK, PathIsChain, CallsAllowed, Phases, EmittedSound, Emitted

(* A step that changes nothing preserves it.                               *)
LEMMA StutterInv ==
  ASSUME IInv, UNCHANGED vars
  PROVE  IInv'
BY DEF vars, IInv, TypeOK, PathIsChain, CallsAllowed, Phases, EmittedSound, Emitted

(* Every step preserves the inductive invariant.                           *)
LEMMA NextInv == IInv /\ [Next]_vars => IInv'
<1> SUFFICES ASSUME IInv, [Next]_vars PROVE IInv'
  OBVIOUS
<1>1. CASE Start
  BY <1>1, StartInv
<1>2. CASE EmitPath
  BY <1>2, EmitPathInv
<1>3. CASE Descend
  BY <1>3, DescendInv
<1>4. CASE Overflow
  BY <1>4, OverflowInv
<1>5. CASE Return
  BY <1>5, ReturnInv
<1>6. CASE Publish
  BY <1>6, PublishInv
<1>7. CASE Terminated \/ UNCHANGED vars
  BY <1>7, StutterInv DEF Terminated
<1>8. CASE SolveThrows
  BY <1>8, SolveThrowsInv
<1>9. QED
  BY <1>1, <1>2, <1>3, <1>4, <1>5, <1>6, <1>7, <1>8 DEF Next, Step

(* The inductive invariant holds in every reachable state: the path is the *)
(* chain of the activations and every path cloned is a test path.          *)
THEOREM Invariance == Spec => []IInv
BY InitInv, NextInv, PTL DEF Spec

(* generateTestpaths keeps its data well typed.                            *)
THEOREM TypeCorrect == Spec => []TypeOK
<1>1. IInv => TypeOK
  BY DEF IInv
<1>2. QED
  BY Invariance, <1>1, PTL

(* The shared path always is the chain of the activations of traverseCFG.  *)
THEOREM Restored == Spec => []PathIsChain
<1>1. IInv => PathIsChain
  BY DEF IInv
<1>2. QED
  BY Invariance, <1>1, PTL

(* Every path traverseCFG clones is a test path of the graph.              *)
THEOREM Soundness == Spec => []EmittedSound
<1>1. IInv => EmittedSound
  BY DEF IInv
<1>2. QED
  BY Invariance, <1>1, PTL

-----------------------------------------------------------------------------
(* The first call lies on every test path: its second node is a branch of  *)
(* the begin node.                                                         *)
LEMMA StartExhaustive ==
  ASSUME NEW q, IInv, Start
  PROVE  Exhaustive(q)'
<1> SUFFICES ASSUME IsTestpath(cfg, q) PROVE Ahead(q)'
  BY DEF Exhaustive, Start
<1> DEFINE p == <<cfg.begin>>
<1> DEFINE b == Branches(cfg, cfg.begin, p)
<1>1. cfg.begin \in Node /\ cfg \in Cfgs
  BY GraphTyped DEF IInv, TypeOK
<1>2. p \in Seq(Node) /\ Len(p) = 1 /\ p[1] = cfg.begin /\ b = Branches(cfg, p[Len(p)], p)
  BY <1>1
<1>3. tp' = p /\ calls' = <<b>>
  BY DEF Start
<1>4. q[1] = cfg.begin /\ Len(q) >= 2 /\ Len(q) \in Nat /\ Allowed(cfg, q, 1)
  BY DEF IsTestpath
<1> HIDE DEF p, b
<1>5. Count(p, 1, q[2]) = Count(q, 1, q[2])
  BY <1>2, <1>4, CountPrefix
<1>6. \/ p[Len(p)] \in cfg.cond /\ q[2] = cfg.false[p[Len(p)]]
      \/ /\ q[2] = cfg.true[p[Len(p)]]
         /\ p[Len(p)] \in cfg.loop => Count(p, Len(p), q[2]) < MaxLoop
  BY <1>2, <1>4, <1>5 DEF Allowed
<1>7. PICK j \in 1 .. Len(b) : b[j] = q[2]
  <2>1. cfg \in Cfgs /\ p \in Seq(Node) /\ Len(p) >= 1 /\ Chosen(cfg, p, q[2])
    BY <1>1, <1>2, <1>6 DEF Chosen
  <2>2. Reached(cfg, p, q[2])
    BY <2>1, BranchesReach
  <2>3. QED
    BY <2>2, <1>2 DEF Reached
<1>8. /\ Len(tp') = 1 /\ tp'[1] = q[1] /\ calls'[1] = b
  BY <1>2, <1>3, <1>4
<1>9. QED
  BY <1>4, <1>7, <1>8 DEF Ahead

(* A path that lies ahead at some activation lies ahead at the innermost   *)
(* one through the pending callee, or it still does after the call.        *)
LEMMA AheadSplit ==
  ASSUME NEW q, IInv, Pending, Ahead(q)
  PROVE  \/ /\ Top < Len(q) /\ \A i \in 1 .. Top : q[i] = tp[i]
            /\ q[Top + 1] = Callee
         \/ \E k \in 1 .. Top :
              /\ k < Len(q)
              /\ \A i \in 1 .. k : q[i] = tp[i]
              /\ q[k + 1] # Append(tp, Callee)[k + 1]
              /\ \E j \in 1 .. Len(Caller[k]) : Caller[k][j] = q[k + 1]
<1>1. PICK k \in 1 .. Len(tp) :
         /\ k < Len(q)
         /\ \A i \in 1 .. k : q[i] = tp[i]
         /\ k = Len(tp) \/ q[k + 1] # tp[k + 1]
         /\ \E j \in 1 .. Len(calls[k]) : calls[k][j] = q[k + 1]
  BY DEF Ahead
<1>2. /\ k \in 1 .. Top /\ Top \in Nat /\ Len(tp) = Top
      /\ calls[Top] \in Seq(Node) /\ Len(calls[Top]) >= 1
      /\ Callee = calls[Top][1] /\ Caller[Top] = Tail(calls[Top])
      /\ \A i \in 1 .. Top : i # Top => Caller[i] = calls[i]
      /\ Append(tp, Callee)[Top + 1] = Callee /\ \A i \in 1 .. Top : Append(tp, Callee)[i] = tp[i]
  BY <1>1, PendingFacts
<1>3. CASE k # Top
  <2>1. Caller[k] = calls[k] /\ q[k + 1] # Append(tp, Callee)[k + 1]
    BY <1>1, <1>2, <1>3
  <2>2. \E j \in 1 .. Len(Caller[k]) : Caller[k][j] = q[k + 1]
    BY <1>1, <2>1, Zenon
  <2>3. QED
    BY <1>1, <1>2, <2>1, <2>2, Zenon
<1>4. CASE k = Top
  <2>1. PICK j \in 1 .. Len(calls[k]) : calls[k][j] = q[k + 1]
    BY <1>1
  <2>2. CASE q[Top + 1] = Callee
    BY <1>1, <1>2, <1>4, <2>1, <2>2
  <2>3. CASE q[Top + 1] # Callee
    <3>0. j # 1 /\ q[k + 1] # Append(tp, Callee)[k + 1]
      BY <1>2, <1>4, <2>1, <2>3
    <3>1. j - 1 \in 1 .. Len(Tail(calls[Top])) /\ Tail(calls[Top])[j - 1] = q[k + 1]
      BY <1>2, <1>4, <2>1, <3>0
    <3>2. j - 1 \in 1 .. Len(Caller[k]) /\ Caller[k][j - 1] = q[k + 1]
      BY <1>2, <1>4, <3>1
    <3>3. QED
      BY <1>1, <1>2, <3>0, <3>2
  <2>4. QED
    BY <2>2, <2>3
<1>5. QED
  BY <1>3, <1>4

(* A test path that is not missed so far is not missed when a path is      *)
(* cloned.                                                                 *)
LEMMA EmitPathExhaustive ==
  ASSUME NEW q, IInv, Exhaustive(q), EmitPath
  PROVE  Exhaustive(q)'
<1> SUFFICES ASSUME IsTestpath(cfg, q) PROVE q \in Emitted' \/ Ahead(q)'
  BY DEF Exhaustive, EmitPath
<1>1. /\ Pending /\ Callee = cfg.end /\ tp' = tp /\ calls' = Caller
      /\ testpaths' = Append(testpaths, Append(tp, Callee))
      /\ testpaths \in Seq(Seq(Node))
  BY DEF EmitPath, IInv, TypeOK
<1>2. q \in Emitted \/ Ahead(q)
  BY <1>1 DEF Exhaustive, Pending
<1>3. \A p : p \in Emitted \/ p = Append(tp, Callee) => p \in Emitted'
  <2>1. Append(tp, Callee) \in Seq(Node)
    BY <1>1, PendingFacts
  <2>2. /\ Len(testpaths') = Len(testpaths) + 1 /\ Len(testpaths) \in Nat
        /\ testpaths'[Len(testpaths) + 1] = Append(tp, Callee)
        /\ \A i \in 1 .. Len(testpaths) : testpaths'[i] = testpaths[i]
    BY <1>1, <2>1
  <2>3. QED
    BY <2>2 DEF Emitted
<1>4. CASE q \in Emitted
  BY <1>3, <1>4
<1>5. CASE Ahead(q)
  <2>1. CASE Top < Len(q) /\ (\A i \in 1 .. Top : q[i] = tp[i]) /\ q[Top + 1] = Callee
    <3>1. /\ Top \in Nat /\ Top >= 1 /\ q \in Seq(Node) /\ Len(q) \in Nat
          /\ Append(tp, Callee) \in Seq(Node) /\ Len(Append(tp, Callee)) = Top + 1
          /\ \A i \in 1 .. Top + 1 : q[i] = Append(tp, Callee)[i]
      BY <1>1, <2>1, PendingFacts, SMTT(30) DEF IsTestpath
    <3>2. Len(q) = Top + 1
      BY <1>1, <2>1, <3>1, SMTT(30) DEF IsTestpath
    <3>3. q = Append(tp, Callee)
      BY <3>1, <3>2
    <3>4. QED
      BY <1>3, <3>3
  <2>2. CASE \E k \in 1 .. Top :
               /\ k < Len(q)
               /\ \A i \in 1 .. k : q[i] = tp[i]
               /\ q[k + 1] # Append(tp, Callee)[k + 1]
               /\ \E j \in 1 .. Len(Caller[k]) : Caller[k][j] = q[k + 1]
    <3>1. \A k \in 1 .. Top : k = Len(tp) \/ Append(tp, Callee)[k + 1] = tp[k + 1]
      BY <1>1, PendingFacts
    <3>2. QED
      BY <1>1, <2>2, <3>1, PendingFacts DEF Ahead
  <2>3. QED
    BY <1>1, <1>5, <2>1, <2>2, AheadSplit
<1>6. QED
  BY <1>2, <1>4, <1>5

(* Nor is it missed by a recursive call: the call that leads to it is now  *)
(* running.                                                                *)
LEMMA DescendExhaustive ==
  ASSUME NEW q, IInv, Exhaustive(q), Descend
  PROVE  Exhaustive(q)'
<1> SUFFICES ASSUME IsTestpath(cfg, q) PROVE q \in Emitted' \/ Ahead(q)'
  BY DEF Exhaustive, Descend
<1> DEFINE p == Append(tp, Callee)
<1> DEFINE b == Branches(cfg, Callee, p)
<1>1. /\ Pending /\ Callee # cfg.end /\ tp' = p /\ calls' = Append(Caller, b)
      /\ testpaths' = testpaths /\ cfg \in Cfgs
  BY DEF Descend, IInv, TypeOK
<1>2. q \in Emitted \/ Ahead(q)
  BY <1>1 DEF Exhaustive, Pending
<1>3. /\ Top \in Nat /\ Top >= 1 /\ p \in Seq(Node) /\ Len(p) = Top + 1
      /\ p[Top + 1] = Callee /\ Callee \in Node /\ \A i \in 1 .. Top : p[i] = tp[i]
  BY <1>1, PendingFacts
<1>4. b \in Seq(Node) /\ b = Branches(cfg, p[Len(p)], p)
  BY <1>1, <1>3, BranchesType
<1>5. /\ Len(calls') = Top + 1 /\ calls'[Top + 1] = b
      /\ \A i \in 1 .. Top : calls'[i] = Caller[i]
  BY <1>1, <1>4, PendingFacts
<1> HIDE DEF b, p
<1>6. CASE q \in Emitted
  BY <1>1, <1>6 DEF Emitted
<1>7. CASE Ahead(q)
  <2>1. CASE Top < Len(q) /\ (\A i \in 1 .. Top : q[i] = tp[i]) /\ q[Top + 1] = Callee
    <3>1. q \in Seq(Node) /\ Len(q) \in Nat /\ \A i \in 1 .. Top + 1 : p[i] = q[i]
      BY <1>3, <2>1 DEF IsTestpath
    <3>2. Top + 1 < Len(q)
      BY <1>1, <1>3, <2>1, <3>1 DEF IsTestpath
    <3>3. Allowed(cfg, q, Len(p))
      BY <1>3, <3>1, <3>2 DEF IsTestpath
    <3>4. Count(p, Len(p), q[Top + 2]) = Count(q, Len(p), q[Top + 2])
      BY <1>3, <3>1, CountPrefix
    <3>5. \/ p[Len(p)] \in cfg.cond /\ q[Top + 2] = cfg.false[p[Len(p)]]
          \/ /\ q[Top + 2] = cfg.true[p[Len(p)]]
             /\ p[Len(p)] \in cfg.loop => Count(p, Len(p), q[Top + 2]) < MaxLoop
      BY <1>3, <3>1, <3>3, <3>4 DEF Allowed
    <3>6. PICK j \in 1 .. Len(b) : b[j] = q[Top + 2]
      <4>1. cfg \in Cfgs /\ p \in Seq(Node) /\ Len(p) >= 1
        BY <1>1, <1>3
      <4>2. Chosen(cfg, p, q[Top + 2])
        BY <3>5 DEF Chosen
      <4>3. Reached(cfg, p, q[Top + 2])
        BY <4>1, <4>2, BranchesReach
      <4>4. QED
        BY <4>3, <1>4 DEF Reached
    <3>7. /\ Top + 1 \in 1 .. Len(tp') /\ Top + 1 < Len(q) /\ Top + 1 = Len(tp')
          /\ \A i \in 1 .. Top + 1 : q[i] = tp'[i]
          /\ j \in 1 .. Len(calls'[Top + 1]) /\ calls'[Top + 1][j] = q[(Top + 1) + 1]
      BY <1>1, <1>3, <1>5, <3>1, <3>2, <3>6
    <3>8. QED
      BY <3>7 DEF Ahead
  <2>2. CASE \E k \in 1 .. Top :
               /\ k < Len(q)
               /\ \A i \in 1 .. k : q[i] = tp[i]
               /\ q[k + 1] # Append(tp, Callee)[k + 1]
               /\ \E j \in 1 .. Len(Caller[k]) : Caller[k][j] = q[k + 1]
    <3>1. PICK k \in 1 .. Top :
               /\ k < Len(q)
               /\ \A i \in 1 .. k : q[i] = tp[i]
               /\ q[k + 1] # Append(tp, Callee)[k + 1]
               /\ \E j \in 1 .. Len(Caller[k]) : Caller[k][j] = q[k + 1]
      BY <2>2
    <3>2. k \in 1 .. Len(tp') /\ calls'[k] = Caller[k]
      BY <1>1, <1>3, <1>5, <3>1
    <3>3. \A i \in 1 .. k : i \in 1 .. Top
      BY <1>3, <3>1
    <3>4. \A i \in 1 .. k : q[i] = tp'[i]
      BY <1>1, <1>3, <3>1, <3>3
    <3>5. q[k + 1] # tp'[k + 1]
      BY <1>1, <3>1 DEF p
    <3>6. QED
      BY <3>1, <3>2, <3>4, <3>5 DEF Ahead
  <2>3. QED
    BY <1>1, <1>7, <2>1, <2>2, AheadSplit
<1>8. QED
  BY <1>2, <1>6, <1>7

(* Nor by a return: an activation returns only when all its calls are      *)
(* made.                                                                   *)
LEMMA ReturnExhaustive ==
  ASSUME NEW q, IInv, Exhaustive(q), Return
  PROVE  Exhaustive(q)'
<1> SUFFICES ASSUME IsTestpath(cfg, q) PROVE q \in Emitted' \/ Ahead(q)'
  BY DEF Exhaustive, Return
<1>1. q \in Emitted \/ Ahead(q)
  BY DEF Exhaustive, Return
<1>2. /\ tp \in Seq(Node) /\ calls \in Seq(Seq(Node)) /\ Len(calls) = Len(tp)
      /\ Len(tp) \in Nat /\ Len(tp) >= 1 /\ calls[Len(tp)] = <<>>
      /\ tp' = SubSeq(tp, 1, Len(tp) - 1) /\ calls' = SubSeq(calls, 1, Len(tp) - 1)
      /\ testpaths' = testpaths
  BY DEF Return, IInv, TypeOK, PathIsChain, Top
<1>3. /\ Len(tp') = Len(tp) - 1
      /\ \A i \in 1 .. Len(tp) - 1 : tp'[i] = tp[i] /\ calls'[i] = calls[i]
  BY <1>2
<1>4. CASE q \in Emitted
  BY <1>2, <1>4 DEF Emitted
<1>5. CASE Ahead(q)
  <2>1. PICK k \in 1 .. Len(tp) :
         /\ k < Len(q)
         /\ \A i \in 1 .. k : q[i] = tp[i]
         /\ k = Len(tp) \/ q[k + 1] # tp[k + 1]
         /\ \E j \in 1 .. Len(calls[k]) : calls[k][j] = q[k + 1]
    BY <1>5 DEF Ahead
  <2>2. k # Len(tp)
    BY <1>2, <2>1
  <2>3. k \in 1 .. Len(tp) - 1
    BY <1>2, <2>1, <2>2
  <2>4. k \in 1 .. Len(tp') /\ calls'[k] = calls[k] /\ \A i \in 1 .. k : q[i] = tp'[i]
    <3>1. Len(tp) \in Nat
      BY <1>2
    <3>2. \A i \in 1 .. k : i \in 1 .. Len(tp) - 1
      BY <2>3, <3>1
    <3>3. \A i \in 1 .. k : q[i] = tp'[i]
      BY <1>3, <2>1, <3>2, Zenon
    <3>4. k \in 1 .. Len(tp') /\ calls'[k] = calls[k]
      BY <1>3, <2>3
    <3>5. QED
      BY <3>3, <3>4
  <2>5. k = Len(tp') \/ q[k + 1] # tp'[k + 1]
    <3>1. Len(tp) \in Nat /\ Len(tp') = Len(tp) - 1
      BY <1>2, <1>3
    <3>2. k = Len(tp') \/ k + 1 \in 1 .. Len(tp) - 1
      BY <2>3, <3>1
    <3>3. QED
      BY <1>3, <2>1, <2>2, <3>2, Zenon
  <2>6. QED
    BY <2>1, <2>4, <2>5 DEF Ahead
<1>6. QED
  BY <1>1, <1>4, <1>5

(* Nor by the remaining steps, which leave the activations alone or give   *)
(* up.                                                                     *)
LEMMA OtherExhaustive ==
  ASSUME NEW q, Exhaustive(q), Overflow \/ SolveThrows \/ Publish \/ UNCHANGED vars
  PROVE  Exhaustive(q)'
<1>1. /\ cfg' = cfg /\ tp' = tp /\ calls' = calls /\ testpaths' = testpaths
      /\ status = "idle" <=> status' = "idle"
  BY DEF Overflow, SolveThrows, Publish, vars, Pending
<1>2. QED
  BY <1>1 DEF Exhaustive, Emitted, Ahead

(* No step misses a test path.                                             *)
LEMMA NextExhaustive ==
  ASSUME NEW q
  PROVE  IInv /\ Exhaustive(q) /\ [Next]_vars => Exhaustive(q)'
<1> SUFFICES ASSUME IInv, Exhaustive(q), [Next]_vars PROVE Exhaustive(q)'
  OBVIOUS
<1>1. CASE Start
  BY <1>1, StartExhaustive
<1>2. CASE EmitPath
  BY <1>2, EmitPathExhaustive
<1>3. CASE Descend
  BY <1>3, DescendExhaustive
<1>4. CASE Return
  BY <1>4, ReturnExhaustive
<1>5. CASE Overflow \/ SolveThrows \/ Publish \/ Terminated \/ UNCHANGED vars
  BY <1>5, OtherExhaustive DEF Terminated
<1>6. QED
  BY <1>1, <1>2, <1>3, <1>4, <1>5 DEF Next, Step

NothingLost == \A q : Exhaustive(q)

(* No test path is lost in any reachable state.                            *)
LEMMA LossInvariant == Spec => []NothingLost
<1>1. Init => NothingLost
  BY DEF Init, NothingLost, Exhaustive
<1>2. IInv /\ NothingLost /\ [Next]_vars => NothingLost'
  <2> SUFFICES ASSUME IInv, NothingLost, [Next]_vars, NEW q PROVE Exhaustive(q)'
    BY DEF NothingLost
  <2>1. Exhaustive(q)
    BY DEF NothingLost
  <2>2. QED
    BY <2>1, NextExhaustive
<1>3. QED
  BY <1>1, <1>2, Invariance, PTL DEF Spec

(* No test path is lost: once generateTestpaths has returned, the field    *)
(* holds, of any walks of the graph, exactly the test paths.               *)
THEOREM Completeness == Spec => []PathsComplete
<1>1. IInv /\ NothingLost => PathsComplete
  <2> SUFFICES ASSUME IInv, NothingLost, status = "done", NEW q \in WalksOf[cfg]
               PROVE  IsTestpath(cfg, q) <=> q \in Kept
    BY DEF PathsComplete
  <2>1. calls = <<>> /\ possibleTestpaths = testpaths /\ Len(tp) = Len(calls)
    BY DEF IInv, Phases, PathIsChain
  <2>2. Kept = Emitted
    BY <2>1 DEF Kept, Emitted
  <2>3. ~ Ahead(q)
    BY <2>1 DEF Ahead
  <2>4. IsTestpath(cfg, q) => q \in Emitted
    BY <2>3 DEF NothingLost, Exhaustive
  <2>5. QED
    BY <2>2, <2>4 DEF IInv, EmittedSound
<1>2. QED
  BY <1>1, Invariance, LossInvariant, PTL

-----------------------------------------------------------------------------
(* Cloning a path keeps the false branches before the true ones.           *)
LEMMA EmitPathFalseFirst ==
  ASSUME IInv, FalseFirst, EmitPath
  PROVE  FalseFirst'
<1>1. Pending /\ cfg' = cfg /\ tp' = tp /\ calls' = Caller
  BY DEF EmitPath
<1>2. /\ Top \in Nat /\ Top >= 1 /\ Len(Caller) = Top /\ Len(calls) = Top
      /\ calls[Top] \in Seq(Node) /\ Len(calls[Top]) >= 1 /\ Caller[Top] = Tail(calls[Top])
      /\ \A i \in 1 .. Top : i # Top => Caller[i] = calls[i]
  BY <1>1, PendingFacts DEF Top
<1>3. Len(Caller[Top]) <= 1
  BY <1>2 DEF FalseFirst
<1>4. QED
  BY <1>1, <1>2, <1>3, SMTT(30) DEF FalseFirst

(* Of two calls, the first is for the false branch.                        *)
LEMMA BranchesFalseFirst ==
  ASSUME NEW g \in Cfgs, NEW s, NEW p
  PROVE  LET b == Branches(g, s, p) IN
           /\ Len(b) <= 2
           /\ \A j \in 2 .. Len(b) : s \in g.cond /\ b[1] = g.false[s] /\ b[j] = g.true[s]
<1> DEFINE b == Branches(g, s, p)
<1> DEFINE open == s \in g.loop => Count(p, Len(p), g.true[s]) < MaxLoop
<1>1. \/ s \in g.cond /\ Len(b) = 2 /\ b[1] = g.false[s] /\ b[2] = g.true[s]
      \/ Len(b) = 1
  <2>1. CASE s \in g.cond /\ open
    BY <2>1, BranchesCases
  <2>2. CASE s \in g.cond /\ ~ open
    BY <2>2, BranchesCases
  <2>3. CASE s \notin g.cond
    BY <2>3, BranchesCases
  <2>4. QED
    BY <2>1, <2>2, <2>3
<1> HIDE DEF b
<1>2. /\ Len(b) <= 2
      /\ \A j \in 2 .. Len(b) : s \in g.cond /\ b[1] = g.false[s] /\ b[j] = g.true[s]
  <2>1. ASSUME s \in g.cond, Len(b) = 2, b[1] = g.false[s], b[2] = g.true[s], NEW j \in 2 .. Len(b)
        PROVE  s \in g.cond /\ b[1] = g.false[s] /\ b[j] = g.true[s]
    <3>1. j = 2
      BY <2>1
    <3>2. QED
      BY <2>1, <3>1
  <2>2. ASSUME Len(b) = 1, NEW j \in 2 .. Len(b)
        PROVE  FALSE
    BY <2>2
  <2>3. Len(b) <= 2
    <3>1. Len(b) \in {1, 2}
      BY <1>1, Zenon
    <3>2. \A n \in {1, 2} : n <= 2
      OBVIOUS
    <3>3. QED
      BY <3>1, <3>2, Zenon
  <2>4. QED
    BY <1>1, <2>1, <2>2, <2>3
<1>3. QED
  BY <1>2 DEF b

(* A recursive call makes that of the false branch first.                  *)
LEMMA DescendFalseFirst ==
  ASSUME IInv, FalseFirst, Descend
  PROVE  FalseFirst'
<1> DEFINE p == Append(tp, Callee)
<1> DEFINE b == Branches(cfg, Callee, p)
<1>1. /\ Pending /\ cfg' = cfg /\ tp' = p /\ calls' = Append(Caller, b) /\ cfg \in Cfgs
  BY DEF Descend, IInv, TypeOK
<1>2. /\ Top \in Nat /\ Top >= 1 /\ Len(Caller) = Top /\ Len(calls) = Top
      /\ Caller \in Seq(Seq(Node)) /\ Callee \in Node /\ Callee = calls[Top][1]
      /\ calls[Top] \in Seq(Node) /\ Len(calls[Top]) >= 1 /\ Caller[Top] = Tail(calls[Top])
      /\ \A i \in 1 .. Top : i # Top => Caller[i] = calls[i]
      /\ p[Top + 1] = Callee /\ \A i \in 1 .. Top : p[i] = tp[i]
  BY <1>1, PendingFacts DEF Top
<1>3. b \in Seq(Node)
  BY <1>1, <1>2, BranchesType
<1>4. /\ Len(b) <= 2
      /\ \A j \in 2 .. Len(b) :
           Callee \in cfg.cond /\ b[1] = cfg.false[Callee] /\ b[j] = cfg.true[Callee]
  BY <1>1, BranchesFalseFirst
<1> HIDE DEF p, b
<1>5. /\ Len(calls') = Top + 1 /\ calls'[Top + 1] = b
      /\ \A i \in 1 .. Top : calls'[i] = Caller[i]
  BY <1>1, <1>2, <1>3
<1>6. /\ Len(Caller[Top]) <= 1
      /\ \A j \in 1 .. Len(Caller[Top]) :
           tp[Top] \in cfg.cond /\ Callee = cfg.false[tp[Top]] /\ Caller[Top][j] = cfg.true[tp[Top]]
  <2>1. \A j \in 1 .. Len(Caller[Top]) : j + 1 \in 2 .. Len(calls[Top]) /\ Caller[Top][j] = calls[Top][j + 1]
    BY <1>2
  <2>2. Len(Caller[Top]) <= 1
    BY <1>2 DEF FalseFirst
  <2>3. QED
    BY <1>2, <2>1, <2>2 DEF FalseFirst
<1>7. ASSUME NEW k \in 1 .. Len(calls')
      PROVE  /\ Len(calls'[k]) <= 2
             /\ \A j \in 2 .. Len(calls'[k]) :
                  p[k] \in cfg.cond /\ calls'[k][1] = cfg.false[p[k]] /\ calls'[k][j] = cfg.true[p[k]]
  <2>1. CASE k = Top + 1
    BY <1>2, <1>4, <1>5, <2>1
  <2>2. CASE k = Top
    BY <1>2, <1>5, <1>6, <2>2
  <2>3. CASE k \in 1 .. Top - 1
    <3>1. k \in 1 .. Len(calls) /\ k \in 1 .. Top /\ k # Top
      BY <1>2, <2>3
    <3>2. calls'[k] = calls[k] /\ p[k] = tp[k]
      BY <1>2, <1>5, <3>1, SMTT(30)
    <3>3. QED
      BY <3>1, <3>2 DEF FalseFirst
  <2>4. QED
    BY <1>2, <1>5, <2>1, <2>2, <2>3
<1>8. ASSUME NEW k \in 1 .. Len(calls') - 1, NEW j \in 1 .. Len(calls'[k])
      PROVE  p[k] \in cfg.cond /\ p[k + 1] = cfg.false[p[k]] /\ calls'[k][j] = cfg.true[p[k]]
  <2>1. CASE k = Top
    <3>1. calls'[k] = Caller[Top] /\ p[k] = tp[Top] /\ p[k + 1] = Callee /\ j \in 1 .. Len(Caller[Top])
      BY <1>2, <1>5, <2>1
    <3>2. QED
      BY <1>6, <3>1
  <2>2. CASE k \in 1 .. Top - 1
    <3>1. k \in 1 .. Len(calls) - 1 /\ k \in 1 .. Top /\ k + 1 \in 1 .. Top /\ k # Top
      BY <1>2, <2>2
    <3>2. p[k] = tp[k] /\ p[k + 1] = tp[k + 1]
      BY <1>2, <3>1
    <3>3. calls'[k] = calls[k]
      BY <1>2, <1>5, <3>1
    <3>4. QED
      BY <3>1, <3>2, <3>3 DEF FalseFirst
  <2>3. QED
    BY <1>2, <1>5, <2>1, <2>2
<1>9. QED
  BY <1>1, <1>7, <1>8 DEF FalseFirst

(* A return leaves the call of the true branch, or none.                   *)
LEMMA ReturnFalseFirst ==
  ASSUME IInv, FalseFirst, Return
  PROVE  FalseFirst'
<1>1. /\ tp \in Seq(Node) /\ calls \in Seq(Seq(Node)) /\ Len(calls) = Len(tp)
      /\ Len(tp) \in Nat /\ Len(tp) >= 1 /\ cfg' = cfg
      /\ tp' = SubSeq(tp, 1, Len(tp) - 1) /\ calls' = SubSeq(calls, 1, Len(tp) - 1)
  BY DEF Return, IInv, TypeOK, PathIsChain, Top
<1>2. /\ Len(calls') = Len(tp) - 1
      /\ \A i \in 1 .. Len(tp) - 1 : tp'[i] = tp[i] /\ calls'[i] = calls[i]
  BY <1>1
<1>3. ASSUME NEW k \in 1 .. Len(calls')
      PROVE  /\ Len(calls'[k]) <= 2
             /\ \A j \in 2 .. Len(calls'[k]) :
                  tp'[k] \in cfg.cond /\ calls'[k][1] = cfg.false[tp'[k]] /\ calls'[k][j] = cfg.true[tp'[k]]
  <2>1. k \in 1 .. Len(calls) /\ calls'[k] = calls[k] /\ tp'[k] = tp[k]
    BY <1>1, <1>2
  <2>2. QED
    BY <2>1 DEF FalseFirst
<1>4. ASSUME NEW k \in 1 .. Len(calls') - 1, NEW j \in 1 .. Len(calls'[k])
      PROVE  tp'[k] \in cfg.cond /\ tp'[k + 1] = cfg.false[tp'[k]] /\ calls'[k][j] = cfg.true[tp'[k]]
  <2>1. k \in 1 .. Len(calls) - 1 /\ calls'[k] = calls[k] /\ tp'[k] = tp[k] /\ tp'[k + 1] = tp[k + 1]
    BY <1>1, <1>2
  <2>2. QED
    BY <2>1 DEF FalseFirst
<1>5. QED
  BY <1>1, <1>3, <1>4 DEF FalseFirst

(* The first activation has its calls in this order.                       *)
LEMMA StartFalseFirst ==
  ASSUME IInv, Start
  PROVE  FalseFirst'
<1> DEFINE p == <<cfg.begin>>
<1> DEFINE b == Branches(cfg, cfg.begin, p)
<1>1. tp' = p /\ calls' = <<b>> /\ cfg' = cfg /\ cfg \in Cfgs /\ cfg.begin \notin cfg.cond
  BY CfgsAssumption DEF Start, IInv, TypeOK, WellFormed
<1>2. Len(b) = 1
  BY <1>1, BranchesCases
<1> HIDE DEF b
<1>3. Len(calls') = 1 /\ calls'[1] = b
  BY <1>1
<1>4. QED
  BY <1>2, <1>3 DEF FalseFirst

(* In every reachable state the false branch of a condition is called      *)
(* first.                                                                  *)
LEMMA OrderInvariant == Spec => []FalseFirst
<1>1. Init => FalseFirst
  BY DEF Init, FalseFirst
<1>2. IInv /\ FalseFirst /\ [Next]_vars => FalseFirst'
  <2> SUFFICES ASSUME IInv, FalseFirst, [Next]_vars PROVE FalseFirst'
    OBVIOUS
  <2>1. CASE Start
    BY <2>1, StartFalseFirst
  <2>2. CASE EmitPath
    BY <2>2, EmitPathFalseFirst
  <2>3. CASE Descend
    BY <2>3, DescendFalseFirst
  <2>4. CASE Return
    BY <2>4, ReturnFalseFirst
  <2>5. CASE Overflow \/ SolveThrows \/ Publish \/ Terminated \/ UNCHANGED vars
    <3>1. cfg' = cfg /\ tp' = tp /\ calls' = calls
      BY <2>5 DEF Overflow, SolveThrows, Publish, Terminated, vars
    <3>2. QED
      BY <3>1 DEF FalseFirst
  <2>6. QED
    BY <2>1, <2>2, <2>3, <2>4, <2>5 DEF Next, Step
<1>3. QED
  BY <1>1, <1>2, Invariance, PTL DEF Spec

(* What lies ahead of a failure does not come before the path that failed. *)
LEMMA AheadNotBefore ==
  ASSUME NEW q, IInv, FalseFirst, status = "failed", IsTestpath(cfg, q), Ahead(q)
  PROVE  ~ Before(cfg, q, Append(tp, cfg.end))
<1> DEFINE f == Append(tp, cfg.end)
<1> SUFFICES ASSUME NEW k \in 1 .. Len(q) - 1, k < Len(f),
                    \A i \in 1 .. k : q[i] = f[i],
                    q[k] \in cfg.cond, q[k + 1] = cfg.false[q[k]], f[k + 1] = cfg.true[q[k]],
                    q[k + 1] # f[k + 1]
             PROVE  FALSE
  BY DEF Before
<1>1. /\ tp \in Seq(Node) /\ cfg.end \in Node /\ Len(calls) = Len(tp) /\ Len(tp) \in Nat
      /\ calls \in Seq(Seq(Node)) /\ q \in Seq(Node) /\ Len(q) \in Nat
  BY GraphTyped DEF IInv, TypeOK, PathIsChain, IsTestpath
<1>2. /\ Len(f) = Len(tp) + 1 /\ f[Len(tp) + 1] = cfg.end /\ \A i \in 1 .. Len(tp) : f[i] = tp[i]
  BY <1>1
<1> HIDE DEF f
<1>3. /\ Len(calls) >= 1 /\ calls[Len(calls)] \in Seq(Node) /\ Len(calls[Len(calls)]) >= 1
      /\ calls[Len(calls)][1] = cfg.end
  <2>1. calls # <<>> /\ calls[Len(calls)] # <<>> /\ Head(calls[Len(calls)]) = cfg.end
    BY DEF IInv, Phases
  <2>2. QED
    BY <1>1, <2>1
<1>4. PICK m \in 1 .. Len(tp) :
         /\ m < Len(q)
         /\ \A i \in 1 .. m : q[i] = tp[i]
         /\ m = Len(tp) \/ q[m + 1] # tp[m + 1]
         /\ \E j \in 1 .. Len(calls[m]) : calls[m][j] = q[m + 1]
  BY DEF Ahead
<1>5. PICK j \in 1 .. Len(calls[m]) : calls[m][j] = q[m + 1]
  BY <1>4
<1>6. k \in 1 .. Len(tp) /\ q[k] = tp[k] /\ k >= m
  <2>1. k \in 1 .. Len(tp) /\ q[k] = tp[k]
    BY <1>1, <1>2
  <2>2. ~ (k + 1 <= m)
    BY <1>1, <1>2, <1>4, <2>1
  <2>3. QED
    BY <1>1, <2>1, <2>2
<1>7. CASE k # m
  <2>1. m + 1 \in 1 .. k /\ m + 1 \in 1 .. Len(tp) /\ m # Len(tp)
    BY <1>1, <1>6, <1>7
  <2>2. q[m + 1] = tp[m + 1]
    BY <1>2, <2>1
  <2>3. QED
    BY <1>4, <2>1, <2>2
<1>8. CASE k = m /\ k # Len(tp)
  <2>1. k \in 1 .. Len(calls) - 1
    BY <1>1, <1>6, <1>8
  <2>2. calls[k][j] = cfg.true[tp[k]]
    BY <2>1, <1>5, <1>8 DEF FalseFirst
  <2>3. QED
    BY <1>5, <1>6, <1>8, <2>2
<1>9. CASE k = m /\ k = Len(tp)
  <2>1. f[k + 1] = cfg.end /\ calls[k][1] = cfg.end /\ k \in 1 .. Len(calls)
    BY <1>1, <1>2, <1>3, <1>9
  <2>2. CASE j = 1
    BY <1>5, <1>9, <2>1, <2>2
  <2>3. CASE j # 1
    <3>1. j \in 2 .. Len(calls[k])
      BY <1>1, <1>5, <1>9, <2>1, <2>3
    <3>2. calls[k][1] = cfg.false[tp[k]]
      BY <2>1, <3>1 DEF FalseFirst
    <3>3. QED
      BY <1>6, <2>1, <3>2
  <2>4. QED
    BY <2>2, <2>3
<1>10. QED
  BY <1>7, <1>8, <1>9

-----------------------------------------------------------------------------
(* Where an emitted path p leaves the shared path: at activation k, which  *)
(* has gone on to the true branch, has no call left, or has only that of   *)
(* the true branch left.                                                   *)
LeavesAt(g, t, c, p, k) ==
  /\ k \in 1 .. Len(t) /\ k < Len(p)
  /\ \A i \in 1 .. k : p[i] = t[i]
  /\ \/ k < Len(t) /\ t[k] \in g.cond /\ p[k + 1] = g.false[t[k]] /\ t[k + 1] = g.true[t[k]]
     \/ k = Len(t) /\ c[k] = <<>>
     \/ /\ k = Len(t) /\ t[k] \in g.cond /\ p[k + 1] = g.false[t[k]]
        /\ \A j \in 1 .. Len(c[k]) : c[k][j] = g.true[t[k]]

Passed ==
  calls # <<>> =>
    \A m \in 1 .. Len(testpaths) : \E k \in 1 .. Len(tp) :
      LeavesAt(cfg, tp, calls, testpaths[m], k)

(* The calls an activation has left after one: none or the true branch.    *)
LEMMA RestOfCalls ==
  ASSUME IInv, FalseFirst, Pending
  PROVE  \/ Tail(calls[Top]) = <<>>
         \/ /\ tp[Top] \in cfg.cond /\ Callee = cfg.false[tp[Top]]
            /\ \A j \in 1 .. Len(Tail(calls[Top])) : Tail(calls[Top])[j] = cfg.true[tp[Top]]
<1>1. /\ Top \in Nat /\ Top >= 1 /\ Len(calls) = Top /\ calls[Top] \in Seq(Node)
      /\ Len(calls[Top]) >= 1 /\ Callee = calls[Top][1]
  BY PendingFacts DEF Top
<1>2. \A j \in 1 .. Len(Tail(calls[Top])) :
         j + 1 \in 2 .. Len(calls[Top]) /\ Tail(calls[Top])[j] = calls[Top][j + 1]
  BY <1>1
<1>3. Len(Tail(calls[Top])) \in Nat /\ (Tail(calls[Top]) = <<>> \/ Len(Tail(calls[Top])) >= 1)
  BY <1>1
<1>4. \A j \in 2 .. Len(calls[Top]) :
         tp[Top] \in cfg.cond /\ calls[Top][1] = cfg.false[tp[Top]] /\ calls[Top][j] = cfg.true[tp[Top]]
  BY <1>1 DEF FalseFirst
<1>5. QED
  BY <1>1, <1>2, <1>3, <1>4

(* A path being cloned is one that the shared path has passed.             *)
LEMMA EmitPathPassed ==
  ASSUME IInv, FalseFirst, Passed, EmitPath
  PROVE  Passed'
<1> DEFINE q == Append(tp, Callee)
<1>1. /\ Pending /\ Callee = cfg.end /\ cfg' = cfg /\ tp' = tp /\ calls' = Caller
      /\ testpaths' = Append(testpaths, q) /\ testpaths \in Seq(Seq(Node))
  BY DEF EmitPath, IInv, TypeOK
<1>2. /\ Top \in Nat /\ Top >= 1 /\ Len(tp) = Top /\ Len(calls) = Top /\ Len(Caller) = Top
      /\ calls[Top] \in Seq(Node) /\ Len(calls[Top]) >= 1 /\ calls[Top] # <<>>
      /\ Caller[Top] = Tail(calls[Top]) /\ Callee = calls[Top][1]
      /\ q \in Seq(Node) /\ Len(q) = Top + 1 /\ q[Top + 1] = Callee
      /\ \A i \in 1 .. Top : q[i] = tp[i]
  BY <1>1, PendingFacts DEF Top, Pending
<1>3. \A j \in 1 .. Len(Tail(calls[Top])) : \E i \in 1 .. Len(calls[Top]) :
         calls[Top][i] = Tail(calls[Top])[j]
  BY <1>1, <1>2, PendingFacts
<1> HIDE DEF q
<1>4. LeavesAt(cfg, tp', calls', q, Top)
  <2>1. \/ calls'[Top] = <<>>
        \/ /\ tp[Top] \in cfg.cond /\ q[Top + 1] = cfg.false[tp[Top]]
           /\ \A j \in 1 .. Len(calls'[Top]) : calls'[Top][j] = cfg.true[tp[Top]]
    BY <1>1, <1>2, RestOfCalls
  <2>2. QED
    BY <1>1, <1>2, <2>1 DEF LeavesAt, q
<1>5. ASSUME NEW p, NEW k, LeavesAt(cfg, tp, calls, p, k)
      PROVE  LeavesAt(cfg, tp', calls', p, k)
  <2>1. k < Len(tp) \/ \A j \in 1 .. Len(calls'[k]) : \E i \in 1 .. Len(calls[k]) : calls[k][i] = calls'[k][j]
    <3>1. k < Len(tp) \/ k = Top
      BY <1>2, <1>5 DEF LeavesAt
    <3>2. calls'[Top] = Tail(calls[Top])
      BY <1>1, <1>2
    <3>3. QED
      BY <1>3, <3>1, <3>2
  <2>2. ~ (k = Len(tp) /\ calls[k] = <<>>)
    BY <1>2
  <2>3. QED
    BY <1>1, <1>2, <1>5, <2>1, <2>2 DEF LeavesAt
<1>6. \A m \in 1 .. Len(testpaths') :
         \/ testpaths'[m] = q
         \/ m \in 1 .. Len(testpaths) /\ testpaths'[m] = testpaths[m]
  BY <1>1, <1>2
<1>7. calls # <<>> /\ Top \in 1 .. Len(tp)
  BY <1>1, <1>2 DEF Pending
<1>8. ASSUME NEW m \in 1 .. Len(testpaths')
      PROVE  \E k \in 1 .. Len(tp') : LeavesAt(cfg, tp', calls', testpaths'[m], k)
  <2>1. CASE testpaths'[m] = q
    BY <1>1, <1>4, <1>7, <2>1
  <2>2. CASE m \in 1 .. Len(testpaths) /\ testpaths'[m] = testpaths[m]
    BY <1>1, <1>5, <1>7, <2>2 DEF Passed
  <2>3. QED
    BY <1>6, <2>1, <2>2
<1>9. QED
  BY <1>1, <1>8 DEF Passed

(* A recursive call goes on past the paths cloned before.                  *)
LEMMA DescendPassed ==
  ASSUME IInv, FalseFirst, Passed, Descend
  PROVE  Passed'
<1> DEFINE q == Append(tp, Callee)
<1> DEFINE b == Branches(cfg, Callee, q)
<1>1. /\ Pending /\ cfg' = cfg /\ tp' = q /\ calls' = Append(Caller, b) /\ testpaths' = testpaths
  BY DEF Descend
<1>2. /\ Top \in Nat /\ Top >= 1 /\ Len(tp) = Top /\ Len(calls) = Top
      /\ calls[Top] \in Seq(Node) /\ Len(calls[Top]) >= 1 /\ calls[Top] # <<>>
      /\ Callee = calls[Top][1]
      /\ Len(q) = Top + 1 /\ q[Top + 1] = Callee
      /\ \A i \in 1 .. Top : q[i] = tp[i]
  BY <1>1, PendingFacts DEF Top, Pending
<1> HIDE DEF q, b
<1>3. ASSUME NEW p, NEW k, LeavesAt(cfg, tp, calls, p, k)
      PROVE  LeavesAt(cfg, tp', calls', p, k)
  <2>1. k \in 1 .. Top /\ k < Top + 1 /\ k < Len(p) /\ \A i \in 1 .. k : p[i] = q[i]
    BY <1>2, <1>3 DEF LeavesAt
  <2>2. q[k] \in cfg.cond /\ p[k + 1] = cfg.false[q[k]] /\ q[k + 1] = cfg.true[q[k]]
    <3>1. q[k] = tp[k]
      BY <1>2, <2>1
    <3>2. CASE k < Top
      BY <1>2, <1>3, <2>1, <3>1, <3>2 DEF LeavesAt
    <3>3. CASE k = Top
      <4>1. tp[k] \in cfg.cond /\ p[k + 1] = cfg.false[tp[k]] /\ calls[Top][1] = cfg.true[tp[k]]
        BY <1>2, <1>3, <3>3 DEF LeavesAt
      <4>2. QED
        BY <1>2, <3>1, <3>3, <4>1
    <3>4. QED
      BY <1>2, <2>1, <3>2, <3>3
  <2>3. QED
    BY <1>1, <1>2, <2>1, <2>2 DEF LeavesAt
<1>4. calls # <<>> /\ \A k \in 1 .. Len(tp) : k \in 1 .. Len(q)
  BY <1>1, <1>2 DEF Pending
<1>5. QED
  BY <1>1, <1>3, <1>4 DEF Passed

(* A return does not come back to a path cloned before.                    *)
LEMMA ReturnPassed ==
  ASSUME IInv, FalseFirst, Passed, Return
  PROVE  Passed'
<1> DEFINE n == Len(tp) - 1
<1>1. /\ tp \in Seq(Node) /\ calls \in Seq(Seq(Node)) /\ Len(calls) = Len(tp)
      /\ Len(tp) \in Nat /\ Len(tp) >= 1 /\ cfg' = cfg /\ testpaths' = testpaths
      /\ tp' = SubSeq(tp, 1, Len(tp) - 1) /\ calls' = SubSeq(calls, 1, Len(tp) - 1)
  BY DEF Return, IInv, TypeOK, PathIsChain, Top
<1>2. /\ Len(tp') = n /\ Len(calls') = n
      /\ \A i \in 1 .. n : tp'[i] = tp[i] /\ calls'[i] = calls[i]
  BY <1>1
<1>3. SUFFICES ASSUME calls' # <<>>, NEW m \in 1 .. Len(testpaths), NEW k,
                      LeavesAt(cfg, tp, calls, testpaths[m], k)
               PROVE  \E e \in 1 .. n : LeavesAt(cfg, tp', calls', testpaths[m], e)
  BY <1>1, <1>2 DEF Passed, Return
<1>4. n \in Nat /\ n >= 1 /\ n \in 1 .. Len(calls) - 1
  BY <1>1, <1>2, <1>3
<1> DEFINE p == testpaths[m]
<1> HIDE DEF n
<1>5. CASE k < n
  <2>0. k \in 1 .. Len(tp) /\ Len(tp) = n + 1
    BY <1>1, <1>3, <1>4 DEF LeavesAt, n
  <2>1. /\ k \in 1 .. n /\ k + 1 \in 1 .. n /\ k < n /\ n < Len(tp) /\ k # Len(tp)
        /\ \A i \in 1 .. k : i \in 1 .. n
    BY <1>1, <1>4, <1>5, <2>0
  <2>2. /\ tp[k] \in cfg.cond /\ p[k + 1] = cfg.false[tp[k]] /\ tp[k + 1] = cfg.true[tp[k]]
        /\ k < Len(p) /\ \A i \in 1 .. k : p[i] = tp[i]
    BY <1>3, <2>1 DEF LeavesAt
  <2>3. LeavesAt(cfg, tp', calls', p, k)
    BY <1>1, <1>2, <2>1, <2>2 DEF LeavesAt
  <2>4. QED
    BY <2>1, <2>3
<1>6. CASE ~ (k < n)
  <2>0. k \in 1 .. Len(tp) /\ Len(tp) = n + 1 /\ \A i \in 1 .. k : p[i] = tp[i]
    BY <1>1, <1>3, <1>4 DEF LeavesAt, n
  <2>1. /\ k \in 1 .. Len(tp) /\ n <= k /\ k <= n + 1 /\ Len(tp) = n + 1
        /\ \A i \in 1 .. k : p[i] = tp[i]
        /\ \A i \in 1 .. n : i \in 1 .. k
    BY <1>1, <1>4, <1>6, <2>0
  <2>2. \A j \in 1 .. Len(calls[n]) :
           tp[n] \in cfg.cond /\ tp[n + 1] = cfg.false[tp[n]] /\ calls[n][j] = cfg.true[tp[n]]
    BY <1>4 DEF FalseFirst
  <2>3. /\ n < Len(p)
        /\ \/ tp[n] \in cfg.cond /\ p[n + 1] = cfg.false[tp[n]]
           \/ p[n + 1] = tp[n + 1]
    <3>1. CASE k = n
      BY <1>3, <2>1, <3>1 DEF LeavesAt
    <3>2. CASE k = n + 1
      BY <1>3, <1>4, <2>1, <3>2 DEF LeavesAt
    <3>3. QED
      BY <1>4, <2>1, <3>1, <3>2
  <2>4. calls[n] \in Seq(Node)
    BY <1>1, <1>4
  <2>5. CASE calls[n] = <<>>
    <3>1. LeavesAt(cfg, tp', calls', p, n)
      BY <1>1, <1>2, <1>4, <2>1, <2>3, <2>5 DEF LeavesAt
    <3>2. QED
      BY <1>4, <3>1
  <2>6. CASE calls[n] # <<>>
    <3>1. 1 \in 1 .. Len(calls[n])
      BY <2>4, <2>6
    <3>2. /\ tp[n] \in cfg.cond /\ p[n + 1] = cfg.false[tp[n]]
          /\ \A j \in 1 .. Len(calls[n]) : calls[n][j] = cfg.true[tp[n]]
      BY <2>2, <2>3, <3>1
    <3>3. LeavesAt(cfg, tp', calls', p, n)
      BY <1>1, <1>2, <1>4, <2>1, <2>3, <3>2 DEF LeavesAt
    <3>4. QED
      BY <1>4, <3>3
  <2>7. QED
    BY <2>5, <2>6
<1>7. QED
  BY <1>5, <1>6

(* In every reachable state the traversal has passed all the paths cloned. *)
LEMMA PassedInvariant == Spec => []Passed
<1>1. Init => Passed
  BY DEF Init, Passed
<1>2. IInv /\ FalseFirst /\ Passed /\ [Next]_vars => Passed'
  <2> SUFFICES ASSUME IInv, FalseFirst, Passed, [Next]_vars PROVE Passed'
    OBVIOUS
  <2>1. CASE Start
    BY <2>1 DEF Start, Passed, IInv, Phases
  <2>2. CASE EmitPath
    BY <2>2, EmitPathPassed
  <2>3. CASE Descend
    BY <2>3, DescendPassed
  <2>4. CASE Return
    BY <2>4, ReturnPassed
  <2>5. CASE Overflow \/ SolveThrows \/ Publish \/ Terminated \/ UNCHANGED vars
    <3>1. cfg' = cfg /\ tp' = tp /\ calls' = calls /\ testpaths' = testpaths
      BY <2>5 DEF Overflow, SolveThrows, Publish, Terminated, vars
    <3>2. QED
      BY <3>1 DEF Passed, LeavesAt
  <2>6. QED
    BY <2>1, <2>2, <2>3, <2>4, <2>5 DEF Next, Step
<1>3. QED
  BY <1>1, <1>2, Invariance, OrderInvariant, PTL DEF Spec

(* Where the path that reaches the end next parts from an emitted one.     *)
LEMMA PartsFromEmitted ==
  ASSUME IInv, Passed, calls # <<>>, calls[Len(calls)] # <<>>, BodiesNotEmpty,
         NEW m \in 1 .. Len(testpaths)
  PROVE  Before(cfg, testpaths[m], Append(tp, Head(calls[Len(calls)])))
<1> DEFINE p == testpaths[m]
<1> DEFINE n == Head(calls[Len(calls)])
<1> DEFINE f == Append(tp, n)
<1>1. /\ tp \in Seq(Node) /\ Len(calls) = Len(tp) /\ Len(tp) \in Nat /\ Len(tp) >= 1
      /\ calls[Len(tp)] \in Seq(Node) /\ Len(calls[Len(tp)]) >= 1 /\ n = calls[Len(tp)][1]
      /\ calls[Len(tp)] # <<>>
      /\ n \in Node
  <2>1. tp \in Seq(Node) /\ calls \in Seq(Seq(Node)) /\ Len(calls) = Len(tp)
    BY DEF IInv, TypeOK, PathIsChain
  <2>2. Len(calls) \in 1 .. Len(calls) /\ calls[Len(calls)] \in Seq(Node)
    BY <2>1
  <2>3. /\ Len(calls[Len(calls)]) >= 1 /\ n = calls[Len(calls)][1]
        /\ n \in Node
    BY <2>2
  <2>4. QED
    BY <2>1, <2>2, <2>3
<1>2. p \in Seq(Node) /\ Len(p) \in Nat
  BY DEF IInv, TypeOK
<1> HIDE DEF p, n
<1>3. Len(f) = Len(tp) + 1 /\ f[Len(tp) + 1] = n /\ \A i \in 1 .. Len(tp) : f[i] = tp[i]
  BY <1>1
<1> HIDE DEF f
<1>4. PICK k \in 1 .. Len(tp) : LeavesAt(cfg, tp, calls, p, k)
  BY DEF Passed, p
<1>5. /\ k < Len(p) /\ k < Len(f) /\ k \in 1 .. Len(p) - 1 /\ k \in 1 .. k /\ f[k] = tp[k]
      /\ \A i \in 1 .. k : p[i] = f[i]
  BY <1>1, <1>2, <1>3, <1>4 DEF LeavesAt
<1>6. tp[k] \in cfg.cond /\ p[k + 1] = cfg.false[tp[k]] /\ f[k + 1] = cfg.true[tp[k]]
  <2>1. CASE k < Len(tp)
    BY <1>1, <1>3, <1>4, <2>1 DEF LeavesAt
  <2>2. CASE k = Len(tp)
    <3>1. tp[k] \in cfg.cond /\ p[k + 1] = cfg.false[tp[k]] /\ calls[k][1] = cfg.true[tp[k]]
      BY <1>1, <1>4, <2>2 DEF LeavesAt
    <3>2. QED
      BY <1>1, <1>3, <2>2, <3>1
  <2>3. QED
    BY <1>1, <2>1, <2>2
<1>7. Before(cfg, p, f)
  BY <1>5, <1>6 DEF Before, BodiesNotEmpty
<1>8. QED
  BY <1>7 DEF p, f, n

(* An exception of the solver costs no test path that comes before the one *)
(* it was called for, and keeps none that comes after it, in a graph       *)
(* without empty branches.                                                 *)
THEOREM FailureKeeps == Spec => []FailureKeepsEarlier
<1>1. IInv /\ FalseFirst /\ Passed /\ NothingLost => FailureKeepsEarlier
  <2> SUFFICES ASSUME IInv, FalseFirst, Passed, NothingLost, status = "failed",
                      NEW q \in WalksOf[cfg]
               PROVE  LET earlier == IsTestpath(cfg, q) /\ Before(cfg, q, Append(tp, cfg.end))
                      IN  (earlier => q \in Kept) /\ (BodiesNotEmpty /\ q \in Kept => earlier)
    BY DEF FailureKeepsEarlier
  <2>1. /\ possibleTestpaths = testpaths /\ calls # <<>> /\ calls[Len(calls)] # <<>>
        /\ Head(calls[Len(calls)]) = cfg.end
    BY DEF IInv, Phases
  <2>2. Kept = Emitted
    BY <2>1 DEF Kept, Emitted
  <2>3. ASSUME IsTestpath(cfg, q), Before(cfg, q, Append(tp, cfg.end))
        PROVE  q \in Emitted
    BY <2>3, AheadNotBefore DEF NothingLost, Exhaustive
  <2>4. ASSUME BodiesNotEmpty, NEW i \in 1 .. Len(testpaths), testpaths[i] = q
        PROVE  IsTestpath(cfg, q) /\ Before(cfg, q, Append(tp, cfg.end))
    BY <2>1, <2>4, PartsFromEmitted DEF IInv, EmittedSound, Emitted
  <2>5. QED
    BY <2>2, <2>3, <2>4 DEF Emitted
<1>2. QED
  BY <1>1, Invariance, OrderInvariant, PassedInvariant, LossInvariant, PTL

(* Each test path is produced once, in a graph without empty branches.     *)
THEOREM ProducedOnce == Spec => []NoDuplicates
<1>1. Init => NoDuplicates
  BY DEF Init, NoDuplicates
<1>2. IInv /\ Passed /\ NoDuplicates /\ [Next]_vars => NoDuplicates'
  <2> SUFFICES ASSUME IInv, Passed, NoDuplicates, [Next]_vars PROVE NoDuplicates'
    OBVIOUS
  <2>1. cfg' = cfg /\ testpaths \in Seq(Seq(Node))
    BY DEF Next, Step, Start, EmitPath, SolveThrows, Descend, Overflow, Return, Publish,
           Terminated, vars, IInv, TypeOK
  <2>2. CASE EmitPath
    <3> DEFINE q == Append(tp, Callee)
    <3>1. Pending /\ testpaths' = Append(testpaths, q) /\ q \in Seq(Node)
      BY <2>2, PendingFacts DEF EmitPath
    <3> HIDE DEF q
    <3>2. /\ Len(testpaths') = Len(testpaths) + 1 /\ testpaths'[Len(testpaths) + 1] = q
          /\ Len(testpaths) \in Nat
          /\ \A i \in 1 .. Len(testpaths) : testpaths'[i] = testpaths[i]
      BY <2>1, <3>1
    <3>3. ASSUME BodiesNotEmpty, NEW i \in 1 .. Len(testpaths)
          PROVE  testpaths[i] # q
      <4>1. Before(cfg, testpaths[i], q)
        BY <3>1, <3>3, PartsFromEmitted DEF Pending, Callee, Top, q
      <4>2. QED
        BY <4>1 DEF Before
    <3>4. ASSUME BodiesNotEmpty, NEW i \in 1 .. Len(testpaths'), NEW j \in 1 .. Len(testpaths'),
                 testpaths'[i] = testpaths'[j]
          PROVE  i = j
      <4>1. i \in 1 .. Len(testpaths) \/ i = Len(testpaths) + 1
        BY <3>2
      <4>2. j \in 1 .. Len(testpaths) \/ j = Len(testpaths) + 1
        BY <3>2
      <4>3. QED
        BY <3>2, <3>3, <3>4, <4>1, <4>2 DEF NoDuplicates
    <3>5. QED
      BY <2>1, <3>4 DEF NoDuplicates, BodiesNotEmpty
  <2>3. CASE ~ EmitPath
    <3>1. testpaths' = testpaths
      BY <2>3 DEF Next, Step, Start, SolveThrows, Descend, Overflow, Return, Publish, Terminated, vars
    <3>2. QED
      BY <2>1, <3>1 DEF NoDuplicates, BodiesNotEmpty
  <2>4. QED
    BY <2>2, <2>3
<1>3. QED
  BY <1>1, <1>2, Invariance, PassedInvariant, PTL DEF Spec

-----------------------------------------------------------------------------
(* The pairs of numbers up to k and m are coded by the numbers up to k * m *)
LEMMA PairCode ==
  ASSUME NEW k \in Nat, NEW m \in Nat,
         NEW x \in 1 .. k, NEW y \in 1 .. m, NEW u \in 1 .. k, NEW v \in 1 .. m
  PROVE  /\ (x - 1) * m + y \in 1 .. k * m
         /\ (x - 1) * m + y = (u - 1) * m + v => x = u /\ y = v
<1>1. \A a, b \in Nat : a * b \in Nat
  OBVIOUS
<1>2. (x - 1) * m \in Nat /\ (k - x) * m \in Nat /\ k * m \in Nat /\ (u - 1) * m \in Nat
  BY <1>1
<1>3. k * m = (x - 1) * m + (k - x) * m + m
  OBVIOUS
<1>4. (x - 1) * m + y \in 1 .. k * m
  BY <1>2, <1>3
<1>5. ASSUME NEW a \in 1 .. k, NEW b \in 1 .. k, a < b, NEW c \in 1 .. m, NEW d \in 1 .. m
      PROVE  (a - 1) * m + c # (b - 1) * m + d
  <2>1. (a - 1) * m \in Nat /\ (b - 1) * m \in Nat /\ (b - a - 1) * m \in Nat
    BY <1>1, <1>5
  <2>2. (b - 1) * m = (a - 1) * m + (b - a - 1) * m + m
    OBVIOUS
  <2>3. QED
    BY <2>1, <2>2
<1>6. ASSUME (x - 1) * m + y = (u - 1) * m + v PROVE x = u /\ y = v
  <2>1. ~ (x < u) /\ ~ (u < x)
    BY <1>5, <1>6
  <2>2. x = u
    BY <2>1
  <2>3. QED
    BY <1>2, <1>6, <2>2
<1>7. QED
  BY <1>4, <1>6

(* The elements of a finite set can be numbered.                           *)
LEMMA Numbering ==
  ASSUME NEW A, IsFiniteSet(A)
  PROVE  /\ Cardinality(A) \in Nat
         /\ \E c \in [A -> 1 .. Cardinality(A)] : \A x, y \in A : c[x] = c[y] => x = y
<1> DEFINE n == Cardinality(A)
<1>1. n \in Nat /\ ExistsBijection(1 .. n, A)
  BY FS_CardinalityType
<1>2. PICK f \in [1 .. n -> A] : \A x \in A : \E i \in 1 .. n : f[i] = x
  BY <1>1 DEF ExistsBijection, Bijection, Surjection
<1> HIDE DEF n
<1> DEFINE c == [x \in A |-> CHOOSE i \in 1 .. n : f[i] = x]
<1>3. \A x \in A : c[x] \in 1 .. n /\ f[c[x]] = x
  BY <1>2
<1>4. c \in [A -> 1 .. n]
  BY <1>3
<1> HIDE DEF c
<1>5. QED
  BY <1>1, <1>3, <1>4 DEF n

(* A finite set is no larger than one it can be mapped to one to one.      *)
LEMMA OneToOne ==
  ASSUME NEW D, IsFiniteSet(D), NEW A, IsFiniteSet(A), NEW f \in [D -> A],
         \A x, y \in D : f[x] = f[y] => x = y
  PROVE  Cardinality(D) <= Cardinality(A)
<1>1. Cardinality(D) \in Nat /\ Cardinality(A) \in Nat
  BY FS_CardinalityType
<1>2. ~ (Cardinality(A) < Cardinality(D))
  BY FS_PigeonHole
<1>3. QED
  BY <1>1, <1>2

(* A set whose elements are told apart by two attributes is no larger than *)
(* the product of what the attributes range over.                          *)
LEMMA TwoAttributes ==
  ASSUME NEW D, IsFiniteSet(D), NEW A, IsFiniteSet(A), NEW B, IsFiniteSet(B),
         NEW f \in [D -> A], NEW g \in [D -> B],
         \A x, y \in D : f[x] = f[y] /\ g[x] = g[y] => x = y
  PROVE  Cardinality(D) <= Cardinality(A) * Cardinality(B)
<1> DEFINE k == Cardinality(A)
<1> DEFINE m == Cardinality(B)
<1>1. k \in Nat /\ m \in Nat
  BY FS_CardinalityType
<1>2. PICK a \in [A -> 1 .. k] : \A x, y \in A : a[x] = a[y] => x = y
  BY Numbering
<1>3. PICK b \in [B -> 1 .. m] : \A x, y \in B : b[x] = b[y] => x = y
  BY Numbering
<1> HIDE DEF k, m
<1> DEFINE h == [x \in D |-> (a[f[x]] - 1) * m + b[g[x]]]
<1>4. h \in [D -> 1 .. k * m]
  BY <1>1, PairCode
<1>5. \A x, y \in D : h[x] = h[y] => x = y
  <2> SUFFICES ASSUME NEW x \in D, NEW y \in D, h[x] = h[y] PROVE x = y
    OBVIOUS
  <2>1. a[f[x]] \in 1 .. k /\ a[f[y]] \in 1 .. k /\ b[g[x]] \in 1 .. m /\ b[g[y]] \in 1 .. m
    OBVIOUS
  <2>2. a[f[x]] = a[f[y]] /\ b[g[x]] = b[g[y]]
    BY <1>1, <2>1, PairCode
  <2>3. QED
    BY <1>2, <1>3, <2>2
<1> HIDE DEF h
<1>6. k * m \in Nat
  BY <1>1
<1>7. IsFiniteSet(1 .. k * m) /\ Cardinality(1 .. k * m) = k * m
  BY <1>6, FS_Interval
<1>8. Cardinality(D) <= Cardinality(1 .. k * m)
  BY <1>4, <1>5, <1>7, OneToOne
<1>9. QED
  BY <1>7, <1>8 DEF k, m

(* A count is a number, and grows past every occurrence.                   *)
LEMMA CountGrows ==
  ASSUME NEW p, NEW i \in Nat, NEW j \in Nat, NEW s, i < j, p[i + 1] = s
  PROVE  Count(p, i, s) \in Nat /\ Count(p, j, s) \in Nat /\ Count(p, i, s) < Count(p, j, s)
<1> DEFINE I == {e \in 1 .. i : p[e] = s}
<1> DEFINE J == {e \in 1 .. j : p[e] = s}
<1>1. IsFiniteSet(1 .. j)
  BY FS_Interval
<1>2. J \in SUBSET (1 .. j) /\ I \in SUBSET J /\ i + 1 \in J /\ i + 1 \notin I
  OBVIOUS
<1> HIDE DEF I, J
<1>3. IsFiniteSet(J)
  BY <1>1, <1>2, FS_Subset
<1>4. IsFiniteSet(I) /\ Cardinality(I) <= Cardinality(J) /\ (Cardinality(J) = Cardinality(I) => J = I)
  BY <1>2, <1>3, FS_Subset
<1>5. Cardinality(I) \in Nat /\ Cardinality(J) \in Nat
  BY <1>3, <1>4, FS_CardinalityType
<1>6. QED
  BY <1>2, <1>4, <1>5 DEF Count, I, J

(* The steps of a path that enter the body of loop l, and of any loop.     *)
EntriesOf(g, p, n, l) ==
  {i \in 1 .. n : p[i] = l /\ p[i + 1] = g.true[l]}

Entries(g, p, n) ==
  {i \in 1 .. n : p[i] \in g.loop /\ p[i + 1] = g.true[p[i]] /\ p[i + 1] # g.false[p[i]]}

(* What an entry counts before it: a number below the bound, and another   *)
(* one for each entry of the same loop.                                    *)
LEMMA EntryCounts ==
  ASSUME NEW g, NEW p, NEW n \in Nat, \A i \in 1 .. n : Allowed(g, p, i),
         NEW i \in 1 .. n, p[i] \in g.loop, p[i + 1] = g.true[p[i]], p[i + 1] # g.false[p[i]]
  PROVE  /\ Count(p, i, p[i + 1]) \in 0 .. MaxLoop - 1
         /\ \A j \in 1 .. n : i < j => Count(p, i, p[i + 1]) # Count(p, j, p[i + 1])
<1>1. Count(p, i, p[i + 1]) < MaxLoop
  BY DEF Allowed
<1>2. \A j \in Nat : i < j => Count(p, i, p[i + 1]) \in Nat /\ Count(p, j, p[i + 1]) \in Nat
                                /\ Count(p, i, p[i + 1]) < Count(p, j, p[i + 1])
  BY CountGrows
<1>3. Count(p, i, p[i + 1]) \in Nat
  BY <1>2
<1>4. QED
  BY <1>1, <1>2, <1>3, BoundsAssumption

(* The numbers below the loop bound are as many as the bound.              *)
LEMMA LoopCounts == IsFiniteSet(0 .. MaxLoop - 1) /\ Cardinality(0 .. MaxLoop - 1) = MaxLoop
<1>1. MaxLoop \in Nat /\ 0 \in Int /\ MaxLoop - 1 \in Int
  BY BoundsAssumption
<1>2. IsFiniteSet(0 .. MaxLoop - 1)
      /\ Cardinality(0 .. MaxLoop - 1) = IF 0 > MaxLoop - 1 THEN 0 ELSE (MaxLoop - 1) - 0 + 1
  BY <1>1, FS_Interval
<1>3. QED
  BY <1>1, <1>2

(* An allowed path enters the body of each loop at most MaxLoop times.     *)
LEMMA EntriesBounded ==
  ASSUME NEW g, NEW p, NEW n \in Nat, \A i \in 1 .. n : Allowed(g, p, i),
         NEW l \in g.loop, g.true[l] # g.false[l]
  PROVE  Cardinality(EntriesOf(g, p, n, l)) <= MaxLoop
<1> DEFINE E == EntriesOf(g, p, n, l)
<1> DEFINE f == [i \in E |-> Count(p, i, g.true[l])]
<1>1. IsFiniteSet(1 .. n) /\ E \in SUBSET (1 .. n)
  BY FS_Interval DEF EntriesOf
<1>2. IsFiniteSet(E)
  BY <1>1, FS_Subset
<1>3. \A i \in E : i \in 1 .. n /\ p[i] = l /\ p[i + 1] = g.true[l]
  BY DEF EntriesOf
<1> HIDE DEF E
<1>4. \A i \in E : /\ Count(p, i, g.true[l]) \in 0 .. MaxLoop - 1
                   /\ \A j \in E : i < j => Count(p, i, g.true[l]) # Count(p, j, g.true[l])
  <2> TAKE i \in E
  <2>1. i \in 1 .. n /\ p[i] \in g.loop /\ p[i + 1] = g.true[p[i]] /\ p[i + 1] # g.false[p[i]]
    BY <1>3
  <2>2. /\ Count(p, i, p[i + 1]) \in 0 .. MaxLoop - 1
        /\ \A j \in 1 .. n : i < j => Count(p, i, p[i + 1]) # Count(p, j, p[i + 1])
    BY <2>1, EntryCounts
  <2>3. QED
    BY <1>3, <2>2
<1>5. f \in [E -> 0 .. MaxLoop - 1]
  BY <1>4
<1>6. \A i, j \in E : f[i] = f[j] => i = j
  <2> SUFFICES ASSUME NEW i \in E, NEW j \in E, f[i] = f[j], i # j PROVE FALSE
    OBVIOUS
  <2>1. i \in Nat /\ j \in Nat
    BY <1>3
  <2>2. i < j \/ j < i
    BY <2>1
  <2>3. QED
    BY <1>4, <2>2
<1> HIDE DEF f
<1>7. Cardinality(E) <= Cardinality(0 .. MaxLoop - 1)
  BY <1>2, <1>5, <1>6, LoopCounts, OneToOne
<1>8. QED
  BY <1>7, LoopCounts DEF E

(* No emitted path enters the body of a loop more than MaxLoop times.      *)
THEOREM LoopsBounded == Spec => []LoopBound
<1>1. EmittedSound => LoopBound
  <2> SUFFICES ASSUME EmittedSound, NEW p \in Emitted, NEW l \in cfg.loop,
                      cfg.true[l] # cfg.false[l]
               PROVE  Cardinality(EntriesOf(cfg, p, Len(p) - 1, l)) <= MaxLoop
    BY DEF LoopBound, EntriesOf
  <2>1. IsTestpath(cfg, p)
    BY DEF EmittedSound
  <2>2. Len(p) - 1 \in Nat /\ \A i \in 1 .. Len(p) - 1 : Allowed(cfg, p, i)
    BY <2>1 DEF IsTestpath
  <2>3. QED
    BY <2>2, EntriesBounded
<1>2. QED
  BY <1>1, Soundness, PTL

-----------------------------------------------------------------------------
(* The entries of all loops on an allowed path are bounded.                *)
LEMMA AllEntriesBounded ==
  ASSUME NEW g \in Cfgs, NEW p, NEW n \in Nat, \A i \in 1 .. n : Allowed(g, p, i)
  PROVE  /\ IsFiniteSet(Entries(g, p, n)) /\ IsFiniteSet(g.loop)
         /\ Cardinality(Entries(g, p, n)) <= Cardinality(g.loop) * MaxLoop
<1> DEFINE E == Entries(g, p, n)
<1> DEFINE f == [i \in E |-> p[i]]
<1> DEFINE c == [i \in E |-> Count(p, i, p[i + 1])]
<1>1. IsFiniteSet(1 .. n) /\ E \in SUBSET (1 .. n)
  BY FS_Interval DEF Entries
<1>2. IsFiniteSet(E)
  BY <1>1, FS_Subset
<1>3. g.loop \in SUBSET Node
  BY CfgsAssumption DEF CfgType
<1>4. IsFiniteSet(g.loop)
  BY <1>3, NodeAssumption, FS_Subset
<1>5. \A i \in E : i \in 1 .. n /\ p[i] \in g.loop /\ p[i + 1] = g.true[p[i]] /\ p[i + 1] # g.false[p[i]]
  BY DEF Entries
<1> HIDE DEF E
<1>6. \A i \in E : /\ Count(p, i, p[i + 1]) \in 0 .. MaxLoop - 1
                   /\ \A j \in 1 .. n : i < j => Count(p, i, p[i + 1]) # Count(p, j, p[i + 1])
  <2> TAKE i \in E
  <2>1. i \in 1 .. n /\ p[i] \in g.loop /\ p[i + 1] = g.true[p[i]] /\ p[i + 1] # g.false[p[i]]
    BY <1>5
  <2>2. QED
    BY <2>1, EntryCounts
<1>7. f \in [E -> g.loop] /\ c \in [E -> 0 .. MaxLoop - 1]
  BY <1>5, <1>6
<1>8. \A i, j \in E : f[i] = f[j] /\ c[i] = c[j] => i = j
  <2> SUFFICES ASSUME NEW i \in E, NEW j \in E, p[i] = p[j],
                      Count(p, i, p[i + 1]) = Count(p, j, p[j + 1]), i # j
               PROVE  FALSE
    OBVIOUS
  <2>1. i \in 1 .. n /\ j \in 1 .. n /\ p[i + 1] = p[j + 1]
    BY <1>5
  <2>2. i < j \/ j < i
    BY <2>1
  <2>3. QED
    BY <1>6, <2>1, <2>2
<1> HIDE DEF f, c
<1>9. Cardinality(E) <= Cardinality(g.loop) * Cardinality(0 .. MaxLoop - 1)
  BY <1>2, <1>4, <1>7, <1>8, LoopCounts, TwoAttributes
<1>10. QED
  BY <1>2, <1>4, <1>9, LoopCounts DEF E

(* A way without entries that comes back to a node is a free cycle.        *)
LEMMA CycleOnPath ==
  ASSUME NEW g \in Cfgs, NEW p, NEW i \in Nat, NEW j \in Nat, 1 <= i, i < j, p[i] = p[j],
         \A k \in i .. j - 1 : /\ p[k] \in Reachable(g) /\ p[k] # g.end
                               /\ Allowed(g, p, k) /\ k \notin Entries(g, p, j - 1)
  PROVE  HasFreeCycle(g)
<1> DEFINE S == {p[k] : k \in i .. j - 1}
<1>1. S \in SUBSET Reachable(g) /\ p[i] \in S
  OBVIOUS
<1>2. ASSUME NEW m \in S PROVE \E n \in S : FreeStep(g, m, n)
  <2>1. PICK k \in i .. j - 1 : m = p[k]
    BY <1>2
  <2>2. k \in Nat /\ k \in 1 .. j - 1
    OBVIOUS
  <2>3. FreeStep(g, p[k], p[k + 1])
    <3>1. g.loop \subseteq g.cond
      BY CfgsAssumption DEF WellFormed
    <3>2. p[k] # g.end /\ Allowed(g, p, k) /\ k \notin Entries(g, p, j - 1)
      OBVIOUS
    <3>3. QED
      BY <2>2, <3>1, <3>2 DEF FreeStep, Allowed, Entries
  <2>4. p[k + 1] \in S
    <3>1. CASE k + 1 = j
      BY <3>1, <1>1
    <3>2. CASE k + 1 # j
      <4>1. k + 1 \in i .. j - 1
        BY <2>2, <3>2
      <4>2. QED
        BY <4>1
    <3>3. QED
      BY <3>1, <3>2
  <2>5. QED
    BY <2>1, <2>3, <2>4
<1> HIDE DEF S
<1>3. QED
  BY <1>1, <1>2 DEF HasFreeCycle

(* The reachable nodes of a graph are finitely many.                       *)
LEMMA ReachableFinite ==
  ASSUME NEW g
  PROVE  IsFiniteSet(Reachable(g) \ {g.end}) /\ Cardinality(Reachable(g) \ {g.end}) \in Nat
<1>1. (Reachable(g) \ {g.end}) \in SUBSET Node
  BY DEF Reachable
<1>2. IsFiniteSet(Reachable(g) \ {g.end})
  BY <1>1, NodeAssumption, FS_Subset
<1>3. QED
  BY <1>2, FS_CardinalityType

(* Without a free cycle, the depth of an allowed path is bounded: its      *)
(* positions are told apart by the entries before them and by the node.    *)
LEMMA DepthBounded ==
  ASSUME NEW g \in Cfgs, NEW p, NEW n \in Nat, n >= 1, ~ HasFreeCycle(g),
         \A i \in 1 .. n : p[i] \in Reachable(g) /\ p[i] # g.end,
         \A i \in 1 .. n - 1 : Allowed(g, p, i)
  PROVE  n <= DepthBound(g)
<1> DEFINE E == Entries(g, p, n - 1)
<1> DEFINE R == Reachable(g) \ {g.end}
<1> DEFINE B(i) == {e \in E : e < i}
<1> DEFINE f == [i \in 1 .. n |-> Cardinality(B(i))]
<1> DEFINE h == [i \in 1 .. n |-> p[i]]
<1>1. n - 1 \in Nat
  OBVIOUS
<1>2. /\ IsFiniteSet(E) /\ IsFiniteSet(g.loop) /\ Cardinality(E) <= Cardinality(g.loop) * MaxLoop
  BY <1>1, AllEntriesBounded
<1>3. IsFiniteSet(R) /\ Cardinality(R) \in Nat
  BY ReachableFinite
<1>4. Cardinality(E) \in Nat /\ Cardinality(g.loop) \in Nat
  BY <1>2, FS_CardinalityType
<1>5. E \in SUBSET (1 .. n - 1)
  BY DEF Entries
<1>6. ASSUME NEW i \in 1 .. n, NEW j \in 1 .. n, i < j, B(i) = B(j), p[i] = p[j]
      PROVE  FALSE
  <2>1. \A k \in i .. j - 1 : k \notin E
    BY <1>6
  <2>2. \A k \in i .. j - 1 : k \in 1 .. n - 1 /\ k \in 1 .. n
    BY <1>6
  <2>3. \A k \in i .. j - 1 : k \notin Entries(g, p, j - 1)
    BY <2>1, <2>2 DEF Entries
  <2>4. i \in Nat /\ j \in Nat /\ 1 <= i
    OBVIOUS
  <2>5. HasFreeCycle(g)
    BY <1>6, <2>2, <2>3, <2>4, CycleOnPath
  <2>6. QED
    BY <2>5
<1>7. \A i \in 1 .. n : B(i) \in SUBSET E
  OBVIOUS
<1>8. \A i, j \in 1 .. n : i < j => B(i) \in SUBSET B(j)
  <2> SUFFICES ASSUME NEW i \in 1 .. n, NEW j \in 1 .. n, i < j, NEW e \in E, e < i PROVE e < j
    OBVIOUS
  <2>1. e \in Nat
    BY <1>5
  <2>2. QED
    BY <2>1
<1> HIDE DEF E
<1>9. \A i \in 1 .. n : IsFiniteSet(B(i)) /\ Cardinality(B(i)) \in Nat /\ Cardinality(B(i)) <= Cardinality(E)
  <2> TAKE i \in 1 .. n
  <2>1. IsFiniteSet(B(i)) /\ Cardinality(B(i)) <= Cardinality(E)
    BY <1>2, <1>7, FS_Subset
  <2>2. QED
    BY <2>1, FS_CardinalityType
<1>10. ASSUME NEW i \in 1 .. n, NEW j \in 1 .. n, i < j, Cardinality(B(i)) = Cardinality(B(j))
       PROVE  B(i) = B(j)
  <2>1. IsFiniteSet(B(j)) /\ B(i) \in SUBSET B(j)
    BY <1>8, <1>9, <1>10
  <2>2. Cardinality(B(j)) = Cardinality(B(i)) => B(j) = B(i)
    BY <2>1, FS_Subset
  <2>3. QED
    BY <1>10, <2>2
<1> HIDE DEF B
<1>11. f \in [1 .. n -> 0 .. Cardinality(E)]
  BY <1>4, <1>9
<1>12. h \in [1 .. n -> R]
  OBVIOUS
<1>13. \A i, j \in 1 .. n : f[i] = f[j] /\ h[i] = h[j] => i = j
  <2> SUFFICES ASSUME NEW i \in 1 .. n, NEW j \in 1 .. n,
                      Cardinality(B(i)) = Cardinality(B(j)), p[i] = p[j], i # j
               PROVE  FALSE
    OBVIOUS
  <2>1. i < j \/ j < i
    OBVIOUS
  <2>2. QED
    BY <1>6, <1>10, <2>1
<1> HIDE DEF f, h, R
<1>14. IsFiniteSet(0 .. Cardinality(E)) /\ Cardinality(0 .. Cardinality(E)) = Cardinality(E) + 1
  <2>1. 0 \in Int /\ Cardinality(E) \in Int /\ ~ (0 > Cardinality(E))
    BY <1>4
  <2>2. QED
    BY <2>1, FS_Interval
<1>15. IsFiniteSet(1 .. n) /\ Cardinality(1 .. n) = n
  BY FS_Interval
<1>16. n <= (Cardinality(E) + 1) * Cardinality(R)
  <2> DEFINE D == 1 .. n
  <2> DEFINE A == 0 .. Cardinality(E)
  <2>1. IsFiniteSet(D) /\ IsFiniteSet(A) /\ f \in [D -> A] /\ h \in [D -> R]
    BY <1>11, <1>12, <1>14, <1>15
  <2>2. \A i, j \in D : f[i] = f[j] /\ h[i] = h[j] => i = j
    BY <1>13
  <2>3. Cardinality(D) = n /\ Cardinality(A) = Cardinality(E) + 1
    BY <1>14, <1>15
  <2> HIDE DEF D, A
  <2>4. Cardinality(D) <= Cardinality(A) * Cardinality(R)
    BY <1>3, <2>1, <2>2, TwoAttributes, Zenon
  <2>5. QED
    BY <2>3, <2>4
<1>17. (Cardinality(E) + 1) * Cardinality(R) <= (Cardinality(g.loop) * MaxLoop + 1) * Cardinality(R)
  <2>1. \A a, b, r \in Nat : a <= b => (a + 1) * r <= (b + 1) * r
    <3> TAKE a, b, r \in Nat
    <3>1. (b + 1) * r = (a + 1) * r + (b - a) * r
      OBVIOUS
    <3>2. a <= b => (b - a) * r >= 0
      <4>1. \A x, y \in Nat : x * y >= 0
        OBVIOUS
      <4>2. a <= b => b - a \in Nat
        OBVIOUS
      <4>3. QED
        BY <4>1, <4>2
    <3>3. (b + 1) * r \in Nat /\ (a + 1) * r \in Nat /\ (b - a) * r \in Int
      OBVIOUS
    <3>4. QED
      BY <3>1, <3>2, <3>3
  <2>2. Cardinality(g.loop) * MaxLoop \in Nat
    BY <1>4, BoundsAssumption
  <2>3. QED
    BY <1>2, <1>3, <1>4, <2>1, <2>2
<1>18. (Cardinality(E) + 1) * Cardinality(R) \in Nat
       /\ (Cardinality(g.loop) * MaxLoop + 1) * Cardinality(R) \in Nat
  BY <1>3, <1>4, BoundsAssumption
<1>19. QED
  BY <1>16, <1>17, <1>18 DEF DepthBound, R

(* The traversal stays within the reachable nodes, and the stack is full   *)
(* when it overflows.                                                      *)
OnReachable ==
  /\ \A i \in 1 .. Len(tp) : tp[i] \in Reachable(cfg)
  /\ status = "overflow" => Len(calls) = StackLimit

(* An allowed edge out of a reachable node leads to a reachable one.       *)
LEMMA ReachableStep ==
  ASSUME NEW g, NEW p, NEW i, p[i] \in Reachable(g), p[i] # g.end, p[i + 1] \in Node, Allowed(g, p, i)
  PROVE  p[i + 1] \in Reachable(g)
BY DEF Reachable, ClosedUnderSteps, Allowed

(* A recursive call is on a reachable node.                                *)
LEMMA DescendReachable ==
  ASSUME IInv, OnReachable, Descend
  PROVE  OnReachable'
<1> DEFINE q == Append(tp, Callee)
<1>1. Pending /\ cfg' = cfg /\ tp' = q /\ status' = status /\ status = "running"
  BY DEF Descend, Pending
<1>2. /\ Top \in Nat /\ Top >= 1 /\ Len(tp) = Top /\ Callee \in Node
      /\ Len(q) = Top + 1 /\ q[Top + 1] = Callee
      /\ \A i \in 1 .. Top : q[i] = tp[i]
      /\ \A i \in 1 .. Top : Allowed(cfg, q, i)
  BY <1>1, PendingFacts
<1> HIDE DEF q
<1>3. Top \in 1 .. Top /\ q[Top] \in Reachable(cfg) /\ q[Top] # cfg.end
  BY <1>2 DEF OnReachable, IInv, PathIsChain
<1>4. q[Top + 1] \in Reachable(cfg)
  BY <1>2, <1>3, ReachableStep
<1>5. \A i \in 1 .. Top + 1 : q[i] \in Reachable(cfg)
  BY <1>2, <1>4 DEF OnReachable
<1>6. QED
  BY <1>1, <1>2, <1>5 DEF OnReachable

(* The path runs over reachable nodes in every reachable state.            *)
LEMMA ReachableInvariant == Spec => []OnReachable
<1>1. Init => OnReachable
  BY DEF Init, OnReachable
<1>2. IInv /\ OnReachable /\ [Next]_vars => OnReachable'
  <2> SUFFICES ASSUME IInv, OnReachable, [Next]_vars PROVE OnReachable'
    OBVIOUS
  <2>1. CASE Start
    <3>1. cfg.begin \in Reachable(cfg)
      BY GraphTyped DEF Reachable, ClosedUnderSteps, IInv
    <3>2. QED
      BY <2>1, <3>1 DEF Start, OnReachable
  <2>2. CASE Descend
    BY <2>2, DescendReachable
  <2>3. CASE Return
    BY <2>3 DEF Return, OnReachable, IInv, TypeOK
  <2>4. CASE Overflow
    BY <2>4 DEF Overflow, OnReachable, Top
  <2>5. CASE EmitPath \/ SolveThrows \/ Publish
    BY <2>5 DEF EmitPath, SolveThrows, Publish, Pending, OnReachable
  <2>6. CASE Terminated \/ UNCHANGED vars
    BY <2>6 DEF Terminated, vars, OnReachable
  <2>7. QED
    BY <2>1, <2>2, <2>3, <2>4, <2>5, <2>6 DEF Next, Step
<1>3. QED
  BY <1>1, <1>2, Invariance, PTL DEF Spec

(* The Java stack overflows only on a graph with a cycle that no loop      *)
(* bound stops, if it has room for DepthBound activations.                 *)
THEOREM OverflowExplained == Spec => []OverflowOnlyOnFreeCycle
<1>1. IInv /\ OnReachable => OverflowOnlyOnFreeCycle
  <2> SUFFICES ASSUME IInv, OnReachable, status = "overflow", ~ HasFreeCycle(cfg)
               PROVE  StackLimit <= DepthBound(cfg)
    BY DEF OverflowOnlyOnFreeCycle
  <2>1. Len(tp) = StackLimit /\ Len(tp) \in Nat /\ Len(tp) >= 1 /\ cfg \in Cfgs
    BY BoundsAssumption DEF IInv, TypeOK, PathIsChain, OnReachable
  <2>2. \A i \in 1 .. Len(tp) : tp[i] \in Reachable(cfg) /\ tp[i] # cfg.end
    BY DEF IInv, PathIsChain, OnReachable
  <2>3. \A i \in 1 .. Len(tp) - 1 : Allowed(cfg, tp, i)
    BY DEF IInv, PathIsChain
  <2>4. QED
    BY <2>1, <2>2, <2>3, DepthBounded
<1>2. QED
  BY <1>1, Invariance, ReachableInvariant, PTL

=============================================================================
