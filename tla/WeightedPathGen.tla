-------------------------- MODULE WeightedPathGen --------------------------
(***************************************************************************)
(* The static generation of test data over the enumerated test paths, by   *)
(* HybridAutoTestGen.WeightedCFGTestGEn.run with Graph, ProbTestPath, Edge *)
(* and the HMM package: paths are taken one by one, each is solved, and a  *)
(* solved path marks its edges and nodes visited, raises the weights of    *)
(* its transitions in the HMM graph and gets its test case.  Everything is *)
(* inside one try block: an exception anywhere before the end leaves       *)
(* probTestPathList null and all the test data found so far is lost.       *)
(*                                                                         *)
(* Path number i of the code is number i + 1 here, and its -1 is 0.        *)
(***************************************************************************)
EXTENDS Integers, Sequences, FiniteSets

CONSTANTS
  Node,       \* the nodes of the control flow graph
  PathId,     \* what a full test path prints as (FullTestpath.getFullPath)
  PathLists,  \* the lists of test paths considered
  Epoches,    \* Graph.epoches: how often one path is tried
  MayThrow    \* whether symbolic execution and the solver may throw

(* A test path: what it prints as, and the nodes left when the flag and    *)
(* scope nodes have been filtered out.                                     *)
PathType == [id : PathId, nodes : Seq(Node)]

ASSUME PathsAssumption  == PathLists \subseteq Seq(PathType)
ASSUME BoundsAssumption == Epoches \in Nat \ {0} /\ MayThrow \in BOOLEAN

VARIABLES
  paths,           \* fullPossibleTestpaths, and the nodes of fullProbTestPaths
  constrained,     \* path numbers whose constraints have been set
  visitedNumber,   \* ProbTestPath.visitedNumber: how often a path was taken
  generated,       \* path numbers with isGenerated
  testCase,        \* path number -> "" (NO_SOLUTION), or "solution"
  visitedNodes,    \* nodes with isVisit
  visitedEdges,    \* edge slots with isVisited
  hmm,             \* HMMGraph: transition -> weight, 0 when there is no entry
  weight,          \* Edge.weight, by slot
  pathNumber,      \* the path taken last, 0 when there was none left
  pc               \* where run is

vars == <<paths, constrained, visitedNumber, generated, testCase, visitedNodes,
          visitedEdges, hmm, weight, pathNumber, pc>>

-----------------------------------------------------------------------------
Paths == 1 .. Len(paths)

(* The edges of path i are its slots <<i, k>>: every path has Edge objects *)
(* of its own, also for a transition another path has too.                 *)
SlotsOf(i) == {<<i, k>> : k \in 1 .. Len(paths[i].nodes) - 1}
Slots      == UNION {SlotsOf(i) : i \in Paths}
EdgeAt(s)  == <<paths[s[1]].nodes[s[2]], paths[s[1]].nodes[s[2] + 1]>>
EdgesOf(i) == {EdgeAt(s) : s \in SlotsOf(i)}
NodesOf(i) == {paths[i].nodes[k] : k \in 1 .. Len(paths[i].nodes)}
Times(i, e) == Cardinality({k \in 1 .. Len(paths[i].nodes) - 1 : EdgeAt(<<i, k>>) = e})

(* HMM Node.addProbability keeps no transition from a node to itself, and  *)
(* getProbability then unboxes null.                                       *)
SelfEdge(e) == e[1] = e[2]

(* getFullCfgNode needs an edge: a path of fewer than two nodes throws.    *)
NoEdge(i) == SlotsOf(i) = {}

(* Mutants of Eligible: one try too few, and a solved path that is taken   *)
(* again.                                                                  *)
EligibleOneLess(gen, taken) == {i \in Paths : i \notin gen /\ taken[i] < Epoches - 1}
EligibleAgain(gen, taken)   == {i \in Paths : taken[i] < Epoches}

(* Graph.getNewPath: the first path not generated and not yet taken often  *)
(* enough.  Weights are positive, so its test on the weight never fails.   *)
Eligible(gen, taken) == {i \in Paths : i \notin gen /\ taken[i] < Epoches}

FirstOf(S) == IF S = {} THEN 0 ELSE CHOOSE i \in S : \A j \in S : i <= j

Taken(i) == IF i = 0 THEN visitedNumber ELSE [visitedNumber EXCEPT ![i] = @ + 1]

GetNewPath(gen) ==
  LET i == FirstOf(Eligible(gen, visitedNumber)) IN
    /\ pathNumber' = i
    /\ visitedNumber' = Taken(i)

(* Mutant of IndexOf: paths are told apart by identity. *)
IndexOfItself(i) == i

(* indexOf finds a path by what it prints as: the first of its equals.     *)
IndexOf(i) == FirstOf({j \in Paths : paths[j].id = paths[i].id})

-----------------------------------------------------------------------------
Init ==
  /\ paths \in PathLists
  /\ constrained = {}
  /\ visitedNumber = [i \in Paths |-> 0]
  /\ generated = {}
  /\ testCase = [i \in Paths |-> ""]
  /\ visitedNodes = {}
  /\ visitedEdges = {}
  /\ hmm = [e \in Node \X Node |-> 0]
  /\ weight = [s \in Slots |-> 1]
  /\ pathNumber = 0
  /\ pc = "addConstraint"

(* Graph.addConstraint: symbolic execution of every path *)
AddConstraint ==
  /\ pc = "addConstraint"
  /\ constrained' = {IndexOf(i) : i \in Paths}
  /\ pc' = "start"
  /\ UNCHANGED <<paths, visitedNumber, generated, testCase, visitedNodes, visitedEdges,
                 hmm, weight, pathNumber>>

(* The first path is taken, then the HMM graph is filled. *)
Start ==
  /\ pc = "start"
  /\ GetNewPath(generated)
  /\ hmm' = [e \in Node \X Node |->
               IF (\E s \in Slots : EdgeAt(s) = e /\ ~ SelfEdge(e)) THEN 1 ELSE 0]
  /\ pc' = "solve"
  /\ UNCHANGED <<paths, constrained, generated, testCase, visitedNodes, visitedEdges, weight>>

Solvable == pc = "solve" /\ pathNumber \in constrained

(* getSolutionInRandomPath has no solution: the loop goes on while there   *)
(* is a path to take.                                                      *)
NoSolution ==
  /\ Solvable
  /\ GetNewPath(generated)
  /\ pc' = IF pathNumber' = 0 THEN "createProbability" ELSE "solve"
  /\ UNCHANGED <<paths, constrained, generated, testCase, visitedNodes, visitedEdges, hmm, weight>>

(* Mutants of MarkPath: the equal edges of the other paths are forgotten,  *)
(* the nodes are, and a transition taken twice weighs as one taken once.   *)
MarkOwnEdges(i) ==
  /\ generated' = generated \cup {i}
  /\ visitedNodes' = visitedNodes \cup NodesOf(i)
  /\ visitedEdges' = visitedEdges \cup SlotsOf(i)
  /\ hmm' = [e \in Node \X Node |-> IF hmm[e] = 0 THEN 0 ELSE hmm[e] + Times(i, e)]

MarkNoTarget(i) ==
  /\ generated' = generated \cup {i}
  /\ visitedNodes' = visitedNodes \cup {e[1] : e \in EdgesOf(i)}
  /\ visitedEdges' = visitedEdges \cup {s \in Slots : EdgeAt(s) \in EdgesOf(i)}
  /\ hmm' = [e \in Node \X Node |-> IF hmm[e] = 0 THEN 0 ELSE hmm[e] + Times(i, e)]

MarkEdgesOnce(i) ==
  /\ generated' = generated \cup {i}
  /\ visitedNodes' = visitedNodes \cup NodesOf(i)
  /\ visitedEdges' = visitedEdges \cup {s \in Slots : EdgeAt(s) \in EdgesOf(i)}
  /\ hmm' = [e \in Node \X Node |-> IF hmm[e] # 0 /\ e \in EdgesOf(i) THEN hmm[e] + 1
                                                                     ELSE hmm[e]]

(* What Graph.updateGraph does to the flags before its weights, for a path *)
(* with edges: every edge of every path that equals one of the path's.     *)
MarkPath(i) ==
  /\ generated' = generated \cup {i}
  /\ visitedNodes' = visitedNodes \cup NodesOf(i)
  /\ visitedEdges' = visitedEdges \cup {s \in Slots : EdgeAt(s) \in EdgesOf(i)}
  /\ hmm' = [e \in Node \X Node |-> IF hmm[e] = 0 THEN 0 ELSE hmm[e] + Times(i, e)]

(* The refresh of the weights visits the slots in order and stops at the   *)
(* first one without an entry in the HMM graph.                            *)
Precedes(s, t) == s[1] < t[1] \/ (s[1] = t[1] /\ s[2] <= t[2])

Refreshed(s) == \A t \in Slots : Precedes(t, s) => ~ SelfEdge(EdgeAt(t))

RefreshWeights ==
  weight' = [s \in Slots |-> IF Refreshed(s) THEN hmm'[EdgeAt(s)] ELSE weight[s]]

Refreshable == \A s \in Slots : ~ SelfEdge(EdgeAt(s))

(* A solution: the path is generated and gets its test case.  A solution   *)
(* whose text is empty ("=;" cut down by the parser) passes the identity   *)
(* test of run and is treated as one.                                      *)
Solution ==
  /\ Solvable /\ ~ NoEdge(pathNumber) /\ Refreshable
  /\ MarkPath(pathNumber)
  /\ RefreshWeights
  /\ \E text \in {"", "solution"} : testCase' = [testCase EXCEPT ![pathNumber] = text]
  /\ GetNewPath(generated')
  /\ pc' = IF pathNumber' = 0 THEN "createProbability" ELSE "solve"
  /\ UNCHANGED <<paths, constrained>>

(* A solution, but updateGraph throws: at once for a path without edges,   *)
(* in the refresh when some path has an edge from a node to itself.        *)
UpdateThrows ==
  /\ Solvable
  /\ \/ /\ NoEdge(pathNumber)
        /\ generated' = generated \cup {pathNumber}
        /\ UNCHANGED <<visitedNodes, visitedEdges, hmm, weight>>
     \/ /\ ~ NoEdge(pathNumber) /\ ~ Refreshable
        /\ MarkPath(pathNumber)
        /\ RefreshWeights
  /\ pc' = "failed"
  /\ UNCHANGED <<paths, constrained, visitedNumber, testCase, pathNumber>>

(* The loop is entered without a path, or with one without constraints.    *)
SolveThrows ==
  /\ pc = "solve" /\ pathNumber \notin constrained
  /\ pc' = "failed"
  /\ UNCHANGED <<paths, constrained, visitedNumber, generated, testCase, visitedNodes,
                 visitedEdges, hmm, weight, pathNumber>>

(* Symbolic execution, the solver or its parser throws.                    *)
ToolThrows ==
  /\ MayThrow
  /\ pc = "addConstraint" \/ Solvable
  /\ pc' = "failed"
  /\ \/ pc = "addConstraint" /\ \E n \in Paths : constrained' = {IndexOf(i) : i \in 1 .. n - 1}
     \/ pc = "solve" /\ UNCHANGED constrained
  /\ UNCHANGED <<paths, visitedNumber, generated, testCase, visitedNodes, visitedEdges,
                 hmm, weight, pathNumber>>

(* Mutant of CreateProbability: the paths are published without a look at  *)
(* what has been lost before.                                              *)
PublishAnyway ==
  /\ pc \in {"createProbability", "solve"}
  /\ pc' = "done"
  /\ UNCHANGED <<paths, constrained, visitedNumber, generated, testCase, visitedNodes,
                 visitedEdges, hmm, weight, pathNumber>>

(* createProbabilityForTestPath: looks up every transition of every path,  *)
(* solved or not; recomputeProbability does nothing for this version of    *)
(* the graph; then the paths are published.                                *)
CreateProbability ==
  /\ pc = "createProbability"
  /\ pc' = IF Refreshable /\ \A i \in Paths : ~ NoEdge(i) THEN "done" ELSE "failed"
  /\ UNCHANGED <<paths, constrained, visitedNumber, generated, testCase, visitedNodes,
                 visitedEdges, hmm, weight, pathNumber>>

Terminated == pc \in {"done", "failed"} /\ UNCHANGED vars

Step ==
  \/ AddConstraint \/ Start \/ NoSolution \/ Solution \/ UpdateThrows
  \/ SolveThrows \/ ToolThrows \/ CreateProbability

Next == Step \/ Terminated

Spec     == Init /\ [][Next]_vars
FairSpec == Spec /\ WF_vars(Step)

-----------------------------------------------------------------------------
(* WeightedCFGTestGEn.getTestDataList, without its check on the parameters:*)
(* the paths whose test case becomes test data.                            *)
TestData == IF pc = "done" THEN {i \in Paths : testCase[i] # ""} ELSE {}

(* Two paths that print alike: the second one gets no constraints.         *)
Twins == \E i, j \in Paths : i # j /\ paths[i].id = paths[j].id

(* The functions this generation cannot handle, whatever the solver says.  *)
Degenerate == Twins \/ ~ Refreshable \/ (\E i \in Paths : NoEdge(i)) \/ paths = <<>>

TypeOK ==
  /\ paths \in PathLists
  /\ constrained \subseteq Paths
  /\ visitedNumber \in [Paths -> 0 .. Epoches]
  /\ generated \subseteq Paths
  /\ testCase \in [Paths -> {"", "solution"}]
  /\ visitedNodes \subseteq Node
  /\ visitedEdges \subseteq Slots
  /\ hmm \in [Node \X Node -> Nat]
  /\ weight \in [Slots -> Nat]
  /\ pathNumber \in Paths \cup {0}
  /\ pc \in {"addConstraint", "start", "solve", "createProbability", "done", "failed"}

-----------------------------------------------------------------------------
(* An edge is marked visited exactly when its transition lies on a         *)
(* generated path: the marking of equal edges of the other paths misses    *)
(* none, in whatever order the paths are solved (Graph.updateGraph).       *)
EdgeMarksExact ==
  visitedEdges = {s \in Slots : \E i \in generated : EdgeAt(s) \in EdgesOf(i)}

(* A node is marked visited exactly when it lies on a generated path that  *)
(* has an edge: the node coverage the report is computed from.             *)
NodeMarksExact ==
  visitedNodes = UNION {NodesOf(i) : i \in {j \in generated : ~ NoEdge(j)}}

(* The HMM graph has an entry for exactly the transitions of the paths     *)
(* between two different nodes, weighing one more than the times the       *)
(* generated paths take it; the weights copied to the edges agree with it, *)
(* in whatever order the paths are solved (HMMGraph.addNode,               *)
(* Node.updateProbability, Graph.updateGraph).                             *)
HmmExact ==
  pc \notin {"addConstraint", "start", "failed"} =>
    /\ \A e \in Node \X Node :
         hmm[e] = IF (\E s \in Slots : EdgeAt(s) = e) /\ ~ SelfEdge(e)
                  THEN 1 + Cardinality({s \in Slots : s[1] \in generated /\ EdgeAt(s) = e})
                  ELSE 0
    /\ Refreshable => \A s \in Slots : weight[s] = hmm[EdgeAt(s)]

(* When run leaves its loop no path is left over: each one is solved or    *)
(* has been taken as often as the epoches allow.                           *)
NothingLeft ==
  pc \in {"createProbability", "done"} =>
    \A i \in Paths : i \in generated \/ visitedNumber[i] = Epoches

(* A path is never taken again once it has been solved, and its test case  *)
(* is final.                                                               *)
SolvedOnce ==
  [][\A i \in generated : /\ visitedNumber'[i] = visitedNumber[i]
                          /\ testCase'[i] = testCase[i]
                          /\ i \in generated']_vars

(* run ends with its test data only if no path is degenerate, and then     *)
(* only an exception of its tools makes it end otherwise, in whatever      *)
(* order the paths are solved: the failure of one path loses the solutions *)
(* of all.                                                                 *)
OutcomeByShape ==
  /\ [][CreateProbability => (pc' = "done" <=> ~ Degenerate)]_vars
  /\ [][pc' = "failed" /\ pc # "failed" => Degenerate \/ ToolThrows]_vars

-----------------------------------------------------------------------------
(* run as an implementation of PathCampaign: an attempt has finished when  *)
(* the next path is taken, and a failure loses what has been solved.       *)
Tries == [i \in Paths |-> IF pc \in {"solve", "failed"} /\ i = pathNumber
                          THEN visitedNumber[i] - 1 ELSE visitedNumber[i]]

Solved  == IF pc = "failed" THEN {} ELSE generated
Outcome == IF pc = "done" THEN "published" ELSE IF pc = "failed" THEN "lost" ELSE "running"

PC == INSTANCE PathCampaign WITH
  Campaigns <- {1 .. Len(l) : l \in PathLists}, Attempts <- Epoches,
  tries <- Tries, solved <- Solved, outcome <- Outcome

(* Every path is attempted up to Epoches times and never after it has been *)
(* solved; the paths are published together, and only when none is left.   *)
CampaignSafety == PC!CSafety
Campaign       == PC!CSpec

=============================================================================
