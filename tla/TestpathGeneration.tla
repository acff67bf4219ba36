------------------------- MODULE TestpathGeneration -------------------------
(***************************************************************************)
(* The enumeration of the test paths of a control flow graph, by           *)
(* cfg.testpath.PossibleTestpathGeneration and HybridAutoTestGen.CFT4CPP:  *)
(* a depth-first walk that pushes every node on a shared path tp, clones   *)
(* tp at the end node, and lets a loop condition take its true branch only *)
(* while tp holds fewer than maxIterationsforEachLoop occurrences of the   *)
(* node behind that branch.  CFT4CPP also solves tp at the end node, and   *)
(* an exception there ends the walk (modelled by the failed status).       *)
(*                                                                         *)
(* The recursion is kept as a stack of the calls still to be made, one     *)
(* entry per activation of traverseCFG, so that its depth is visible: the  *)
(* Java stack is finite, and a StackOverflowError is not an Exception, so  *)
(* generateTestpaths does not catch it.                                    *)
(***************************************************************************)
EXTENDS Integers, Sequences, FiniteSets

CONSTANTS
  Node,        \* the nodes of the graphs
  Cfgs,        \* the control flow graphs considered
  MaxLoop,     \* maxIterationsforEachLoop
  StackLimit,  \* activations of traverseCFG the Java stack has room for
  MayThrow,    \* whether paths are solved, which may fail (CFT4CPP)
  WalksOf      \* the walks that completeness is asked of, graph by graph

(* A graph: its flag nodes, its conditions (ConditionCfgNode), those of    *)
(* them that are loop conditions (AbstractConditionLoopCfgNode), and the   *)
(* successors.  A node that is no condition may still have a falseNode of  *)
(* its own (a recursive call, a try label): the traversal never takes it.  *)
CfgType ==
  [begin : Node, end : Node, cond : SUBSET Node, loop : SUBSET Node,
   true : [Node -> Node], false : [Node -> Node]]

WellFormed(g) ==
  /\ g.begin # g.end
  /\ g.loop \subseteq g.cond
  /\ g.begin \notin g.cond /\ g.end \notin g.cond

ASSUME NodeAssumption   == IsFiniteSet(Node)
ASSUME CfgsAssumption   == Cfgs \subseteq {g \in CfgType : WellFormed(g)}
ASSUME BoundsAssumption == MaxLoop \in Nat /\ StackLimit \in Nat \ {0} /\ MayThrow \in BOOLEAN

VARIABLES
  cfg,                \* the graph the generator was built with
  tp,                 \* the shared path of the traversal
  calls,              \* calls[i]: successors activation i has yet to visit
  testpaths,          \* testpaths_, the paths cloned so far
  possibleTestpaths,  \* the field getPossibleTestpaths returns
  status              \* "idle", "running", "done", "overflow" or "failed"

vars == <<cfg, tp, calls, testpaths, possibleTestpaths, status>>

-----------------------------------------------------------------------------
(* AbstractTestpath.count, over the first n nodes of path p *)
Count(p, n, stm) == Cardinality({i \in 1 .. n : p[i] = stm})

(* Mutants of Branches: a loop within its bound is only taken, a statement *)
(* follows both of its nodes, the bound is forgotten or off by one.        *)
BranchesOnlyTaken(g, stm, p) ==
  IF stm \in g.loop /\ Count(p, Len(p), g.true[stm]) < MaxLoop THEN <<g.true[stm]>>
  ELSE IF stm \in g.cond \ g.loop THEN <<g.false[stm], g.true[stm]>>
  ELSE IF stm \in g.cond THEN <<g.false[stm]>> ELSE <<g.true[stm]>>

BranchesOfStatements(g, stm, p) ==
  IF stm \in g.loop /\ Count(p, Len(p), g.true[stm]) >= MaxLoop
  THEN <<g.false[stm]>> ELSE <<g.false[stm], g.true[stm]>>

BranchesUnbounded(g, stm, p) ==
  IF stm \in g.cond THEN <<g.false[stm], g.true[stm]>> ELSE <<g.true[stm]>>

BranchesOneMore(g, stm, p) ==
  IF stm \in g.cond /\ (stm \in g.loop => Count(p, Len(p), g.true[stm]) <= MaxLoop)
  THEN <<g.false[stm], g.true[stm]>>
  ELSE IF stm \in g.cond THEN <<g.false[stm]>> ELSE <<g.true[stm]>>

(* The recursive calls an activation makes for node stm when the path,     *)
(* stm included, is p: the false branch always first.                      *)
Branches(g, stm, p) ==
  IF \/ stm \in g.loop /\ Count(p, Len(p), g.true[stm]) < MaxLoop
     \/ stm \in g.cond \ g.loop
  THEN <<g.false[stm], g.true[stm]>>
  ELSE IF stm \in g.cond THEN <<g.false[stm]>> ELSE <<g.true[stm]>>

Top == Len(calls)

Init ==
  /\ cfg \in Cfgs
  /\ tp = <<>>
  /\ calls = <<>>
  /\ testpaths = <<>>
  /\ possibleTestpaths = <<>>
  /\ status = "idle"

(* generateTestpaths: the first call, on the begin node *)
Start ==
  /\ status = "idle"
  /\ status' = "running"
  /\ tp' = <<cfg.begin>>
  /\ calls' = <<Branches(cfg, cfg.begin, <<cfg.begin>>)>>
  /\ UNCHANGED <<cfg, testpaths, possibleTestpaths>>

(* The next call to be made by the innermost activation *)
Pending == status = "running" /\ calls # <<>> /\ calls[Top] # <<>>
Callee  == Head(calls[Top])
Caller  == [calls EXCEPT ![Top] = Tail(@)]

(* Mutant of EmitPath: the path is cloned before the end node is on it. *)
EmitTooEarly ==
  /\ Pending /\ Callee = cfg.end /\ Top < StackLimit
  /\ testpaths' = Append(testpaths, tp)
  /\ calls' = Caller
  /\ UNCHANGED <<cfg, tp, possibleTestpaths, status>>

(* The call reaches the end node: tp is cloned, and is as before when the  *)
(* call returns.                                                           *)
EmitPath ==
  /\ Pending
  /\ Callee = cfg.end
  /\ Top < StackLimit
  /\ testpaths' = Append(testpaths, Append(tp, Callee))
  /\ calls' = Caller
  /\ UNCHANGED <<cfg, tp, possibleTestpaths, status>>

(* Mutant of SolveThrows: the exception leaves generateTestpaths, which     *)
(* keeps nothing.                                                          *)
SolveThrowsOut ==
  /\ MayThrow /\ Pending
  /\ Callee = cfg.end
  /\ Top < StackLimit
  /\ status' = "failed"
  /\ UNCHANGED <<cfg, tp, calls, testpaths, possibleTestpaths>>

(* solveTestpath throws for the path that has reached the end node.  The   *)
(* exception ends all activations; generateTestpaths catches it and keeps  *)
(* the paths found before.                                                 *)
SolveThrows ==
  /\ MayThrow /\ Pending
  /\ Callee = cfg.end
  /\ Top < StackLimit
  /\ possibleTestpaths' = testpaths
  /\ status' = "failed"
  /\ UNCHANGED <<cfg, tp, calls, testpaths>>

(* The call reaches any other node: a new activation *)
Descend ==
  /\ Pending
  /\ Callee # cfg.end
  /\ Top < StackLimit
  /\ tp' = Append(tp, Callee)
  /\ calls' = Append(Caller, Branches(cfg, Callee, Append(tp, Callee)))
  /\ UNCHANGED <<cfg, testpaths, possibleTestpaths, status>>

(* Mutant of Overflow: the error is swallowed, and the call is lost.        *)
OverflowSwallowed ==
  /\ Pending /\ Top = StackLimit
  /\ UNCHANGED vars

(* The call finds no room on the stack; the error leaves generateTestpaths *)
(* with possibleTestpaths as it was.                                       *)
Overflow ==
  /\ Pending
  /\ Top = StackLimit
  /\ status' = "overflow"
  /\ UNCHANGED <<cfg, tp, calls, testpaths, possibleTestpaths>>

(* Mutant of Return: the node stays on the path. *)
ReturnKeepingNode ==
  /\ status = "running" /\ calls # <<>> /\ calls[Top] = <<>>
  /\ calls' = SubSeq(calls, 1, Top - 1)
  /\ UNCHANGED <<cfg, tp, testpaths, possibleTestpaths, status>>

(* The innermost activation has no call left and returns *)
Return ==
  /\ status = "running"
  /\ calls # <<>>
  /\ calls[Top] = <<>>
  /\ tp' = SubSeq(tp, 1, Len(tp) - 1)
  /\ calls' = SubSeq(calls, 1, Top - 1)
  /\ UNCHANGED <<cfg, testpaths, possibleTestpaths, status>>

(* The first activation has returned: generateTestpaths keeps the paths *)
Publish ==
  /\ status = "running"
  /\ calls = <<>>
  /\ possibleTestpaths' = testpaths
  /\ status' = "done"
  /\ UNCHANGED <<cfg, tp, calls, testpaths>>

Terminated == status \in {"done", "overflow", "failed"} /\ UNCHANGED vars

Step == Start \/ EmitPath \/ SolveThrows \/ Descend \/ Overflow \/ Return \/ Publish

Next == Step \/ Terminated

Spec     == Init /\ [][Next]_vars
FairSpec == Spec /\ WF_vars(Step)

-----------------------------------------------------------------------------
(* What a test path is, stated on whole paths and without the traversal:   *)
(* a walk from begin to end that leaves every node by its true edge, or a  *)
(* condition by its false edge, and a loop condition by its true edge only *)
(* while the path so far holds fewer than MaxLoop occurrences of the node  *)
(* behind that edge.                                                       *)
Allowed(g, p, i) ==
  \/ p[i] \in g.cond /\ p[i + 1] = g.false[p[i]]
  \/ /\ p[i + 1] = g.true[p[i]]
     /\ p[i] \in g.loop => Count(p, i, p[i + 1]) < MaxLoop

IsTestpath(g, p) ==
  /\ p \in Seq(Node) /\ Len(p) >= 2
  /\ p[1] = g.begin /\ p[Len(p)] = g.end
  /\ \A i \in 2 .. Len(p) - 1 : p[i] # g.end
  /\ \A i \in 1 .. Len(p) - 1 : Allowed(g, p, i)

Emitted == {testpaths[i] : i \in 1 .. Len(testpaths)}

(* The walk will still come to path q: the two agree up to activation k,   *)
(* and no further, which has the next node of q yet to visit.              *)
Ahead(q) ==
  \E k \in 1 .. Len(tp) :
    /\ k < Len(q)
    /\ \A i \in 1 .. k : q[i] = tp[i]
    /\ k = Len(tp) \/ q[k + 1] # tp[k + 1]
    /\ \E j \in 1 .. Len(calls[k]) : calls[k][j] = q[k + 1]

(* Path p is walked before path q: where they part, p takes the false      *)
(* branch and q the true one.                                              *)
Before(g, p, q) ==
  \E k \in 1 .. Len(p) - 1 :
    /\ k < Len(q)
    /\ \A i \in 1 .. k : p[i] = q[i]
    /\ p[k] \in g.cond
    /\ p[k + 1] = g.false[p[k]] /\ q[k + 1] = g.true[p[k]]
    /\ p[k + 1] # q[k + 1]

(* A cycle that avoids the true edges of the loops is bounded by nothing,  *)
(* once it is reached.                                                     *)
FreeStep(g, m, n) ==
  /\ m # g.end
  /\ \/ m \in g.cond /\ n = g.false[m]
     \/ m \notin g.loop /\ n = g.true[m]

ClosedUnderSteps(g, C) ==
  /\ g.begin \in C
  /\ \A m \in C \ {g.end} : g.true[m] \in C /\ (m \in g.cond => g.false[m] \in C)

Reachable(g) == {n \in Node : \A C \in SUBSET Node : ClosedUnderSteps(g, C) => n \in C}

HasFreeCycle(g) ==
  \E S \in SUBSET Reachable(g) : S # {} /\ \A m \in S : \E n \in S : FreeStep(g, m, n)

(* How deep the recursion may go without one: every entry of a loop, of    *)
(* which a path has MaxLoop at most, leads to a way that visits no node    *)
(* twice.                                                                  *)
DepthBound(g) == (Cardinality(g.loop) * MaxLoop + 1) * Cardinality(Reachable(g) \ {g.end})

BodiesNotEmpty == \A c \in cfg.cond : cfg.true[c] # cfg.false[c]

-----------------------------------------------------------------------------
TypeOK ==
  /\ cfg \in Cfgs
  /\ tp \in Seq(Node)
  /\ calls \in Seq(Seq(Node)) /\ Len(calls) <= StackLimit
  /\ testpaths \in Seq(Seq(Node))
  /\ possibleTestpaths \in Seq(Seq(Node))
  /\ status \in {"idle", "running", "done", "overflow", "failed"}

(* The shared path is restored by every return of traverseCFG: it always   *)
(* is the chain of the running activations, each of which was called by    *)
(* the one before it along an edge its loop bound allows.                  *)
PathIsChain ==
  /\ Len(tp) = Len(calls)
  /\ \A i \in 1 .. Len(tp) : tp[i] # cfg.end
  /\ \A i \in 1 .. Len(tp) - 1 : Allowed(cfg, tp, i)

(* Every path traverseCFG clones is a test path of the graph: the clone    *)
(* is not disturbed by the adds and removes that go on on the shared path. *)
EmittedSound == \A p \in Emitted : IsTestpath(cfg, p)

Kept == {possibleTestpaths[i] : i \in 1 .. Len(possibleTestpaths)}

(* No test path is lost: when generateTestpaths returns normally, the      *)
(* field holds every walk of the graph that is a test path, and no other,  *)
(* however the loops nest.                                                 *)
PathsComplete ==
  status = "done" => \A q \in WalksOf[cfg] : IsTestpath(cfg, q) <=> q \in Kept

(* When solving a path throws, exactly the test paths before it are kept:  *)
(* the walk is cut off there, but nothing that was found is lost or made   *)
(* up.  Where a condition has an empty body its paths come out twice, and  *)
(* later ones may be there as well.                                        *)
FailureKeepsEarlier ==
  status = "failed" =>
    \A q \in WalksOf[cfg] :
      LET earlier == IsTestpath(cfg, q) /\ Before(cfg, q, Append(tp, cfg.end))
      IN  (earlier => q \in Kept) /\ (BodiesNotEmpty /\ q \in Kept => earlier)

(* Each test path is produced once, except that a condition with an empty  *)
(* body (both branches lead to the same node) is taken twice.              *)
NoDuplicates ==
  BodiesNotEmpty =>
    \A i, j \in 1 .. Len(testpaths) : testpaths[i] = testpaths[j] => i = j

(* The recursion depth of traverseCFG is bounded by the loop bound unless  *)
(* the graph has a cycle without a loop condition, as the construction     *)
(* makes for for(;;) and for a recursive call: only then the Java stack    *)
(* overflows, if it has room for the paths of the other graphs.            *)
OverflowOnlyOnFreeCycle ==
  status = "overflow" => HasFreeCycle(cfg) \/ StackLimit <= DepthBound(cfg)

(* No path enters the body of a loop more than MaxLoop times, however the  *)
(* loops nest: the bound is per path and not per entry of the loop.        *)
LoopBound ==
  \A p \in Emitted : \A l \in cfg.loop :
    cfg.true[l] # cfg.false[l] =>
      Cardinality({i \in 1 .. Len(p) - 1 : p[i] = l /\ p[i + 1] = cfg.true[l]}) <= MaxLoop

=============================================================================
