----------------------- MODULE WeightedPathGen_proofs -----------------------
(***************************************************************************)
(* Proofs about WeightedPathGen, for every list of test paths and number   *)
(* of epoches: the visited marks and the weights are exact, no solved path *)
(* is taken again, no path is left over, a failure has one of two reasons, *)
(* and run implements PathCampaign.                                        *)
(***************************************************************************)
EXTENDS WeightedPathGen, FiniteSetTheorems, WellFoundedInduction, TLAPS

(* The path taken last is an eligible one until its attempt has ended, and *)
(* the loop is left only when no path is eligible.                         *)
TakenOk ==
  /\ pc = "solve" /\ pathNumber # 0 =>
       pathNumber \notin generated /\ visitedNumber[pathNumber] >= 1
  /\ pc = "failed" /\ pathNumber # 0 => visitedNumber[pathNumber] >= 1
  /\ pc \in {"addConstraint", "start", "createProbability", "done"} => pathNumber = 0
  /\ pc \in {"createProbability", "done"} => Eligible(generated, visitedNumber) = {}

IInv == TypeOK /\ TakenOk /\ EdgeMarksExact /\ NodeMarksExact

-----------------------------------------------------------------------------
(* The transitions and nodes of a path are transitions and nodes of the    *)
(* graph.                                                                  *)
LEMMA PathsTyped ==
  ASSUME TypeOK
  PROVE  /\ Len(paths) \in Nat
         /\ \A i \in Paths : paths[i].nodes \in Seq(Node) /\ Len(paths[i].nodes) \in Nat
         /\ \A i \in Paths : NodesOf(i) \subseteq Node
         /\ \A s \in Slots : EdgeAt(s) \in Node \X Node
<1>1. paths \in Seq(PathType)
  BY PathsAssumption DEF TypeOK
<1>2. Len(paths) \in Nat /\ \A i \in Paths : paths[i] \in PathType
  BY <1>1 DEF Paths
<1>3. \A i \in Paths : paths[i].nodes \in Seq(Node) /\ Len(paths[i].nodes) \in Nat
  BY <1>2 DEF PathType
<1>4. \A i \in Paths : NodesOf(i) \subseteq Node
  BY <1>3 DEF NodesOf
<1>5. \A s \in Slots : EdgeAt(s) \in Node \X Node
  <2> TAKE s \in Slots
  <2>1. PICK i \in Paths : \E k \in 1 .. Len(paths[i].nodes) - 1 : s = <<i, k>>
    BY DEF Slots, SlotsOf
  <2>2. PICK k \in 1 .. Len(paths[i].nodes) - 1 : s = <<i, k>>
    BY <2>1
  <2>3. k \in 1 .. Len(paths[i].nodes) /\ k + 1 \in 1 .. Len(paths[i].nodes)
    BY <1>3, <2>2
  <2>4. paths[i].nodes[k] \in Node /\ paths[i].nodes[k + 1] \in Node
    BY <1>3, <2>3
  <2>5. QED
    BY <2>2, <2>4 DEF EdgeAt
<1>6. QED
  BY <1>2, <1>3, <1>4, <1>5

(* The first of a set of numbers is in it; of none it is 0.                *)
LEMMA FirstOfType ==
  ASSUME NEW S \in SUBSET Nat
  PROVE  (S = {} /\ FirstOf(S) = 0) \/ FirstOf(S) \in S
<1>1. CASE S = {}
  BY <1>1 DEF FirstOf
<1>2. CASE S # {}
  <2>1. PICK n \in S : \A m \in 0 .. n : n > m => m \notin S
    <3>1. PICK n \in S : \A m \in S : ~ (<<m, n>> \in OpToRel(<, Nat))
      BY <1>2, WFMin, NatLessThanWellFounded, Zenon
    <3>2. \A m \in Nat : m < n => <<m, n>> \in OpToRel(<, Nat)
      BY DEF OpToRel
    <3>3. QED
      BY <3>1, <3>2
  <2>2. \A j \in S : n <= j
    BY <2>1
  <2>3. QED
    BY <1>2, <2>1, <2>2 DEF FirstOf
<1>3. QED
  BY <1>1, <1>2

(* getNewPath takes an eligible path, or none when none is eligible.       *)
LEMMA GetNewPathOk ==
  ASSUME TypeOK, NEW gen \in SUBSET Paths, GetNewPath(gen)
  PROVE  /\ \/ pathNumber' = 0 /\ Eligible(gen, visitedNumber) = {}
            \/ /\ pathNumber' \in Paths /\ pathNumber' # 0
               /\ pathNumber' \notin gen
               /\ visitedNumber[pathNumber'] < Epoches
               /\ visitedNumber'[pathNumber'] = visitedNumber[pathNumber'] + 1
         /\ pathNumber' # 0 => visitedNumber'[pathNumber'] >= 1
         /\ visitedNumber' \in [Paths -> 0 .. Epoches]
         /\ \A i \in gen : visitedNumber'[i] = visitedNumber[i]
<1> DEFINE S == Eligible(gen, visitedNumber)
<1>1. Len(paths) \in Nat /\ Paths \subseteq Nat /\ 0 \notin Paths
  BY PathsTyped DEF Paths
<1>2. S \in SUBSET Nat /\ S \subseteq Paths /\ \A i \in S : i \notin gen /\ visitedNumber[i] < Epoches
  BY <1>1 DEF Eligible
<1>3. pathNumber' = FirstOf(S) /\ visitedNumber' = Taken(pathNumber')
  BY DEF GetNewPath
<1>4. visitedNumber \in [Paths -> 0 .. Epoches] /\ Epoches \in Nat
  BY BoundsAssumption DEF TypeOK
<1> HIDE DEF S
<1>5. CASE S = {} /\ FirstOf(S) = 0
  <2>1. pathNumber' = 0 /\ visitedNumber' = visitedNumber
    BY <1>3, <1>5 DEF Taken
  <2>2. QED
    BY <1>1, <1>4, <1>5, <2>1 DEF S
<1>6. CASE FirstOf(S) \in S
  <2>1. /\ pathNumber' \in Paths /\ pathNumber' # 0 /\ pathNumber' \notin gen
        /\ visitedNumber[pathNumber'] < Epoches
    BY <1>1, <1>2, <1>3, <1>6
  <2>2. visitedNumber' = [visitedNumber EXCEPT ![pathNumber'] = @ + 1]
    BY <1>3, <2>1 DEF Taken
  <2>3. visitedNumber[pathNumber'] + 1 \in 0 .. Epoches
    BY <1>4, <2>1
  <2>4. QED
    BY <1>4, <2>1, <2>2, <2>3
<1>7. QED
  BY <1>2, <1>5, <1>6, FirstOfType

(* What a step leaves of the graph: the paths never change.                *)
LEMMA SamePaths ==
  ASSUME paths' = paths
  PROVE  /\ Paths' = Paths /\ Slots' = Slots
         /\ \A i : SlotsOf(i)' = SlotsOf(i) /\ EdgesOf(i)' = EdgesOf(i)
         /\ \A i : NodesOf(i)' = NodesOf(i) /\ NoEdge(i)' = NoEdge(i)
         /\ \A s : EdgeAt(s)' = EdgeAt(s)
         /\ \A gen, taken : Eligible(gen, taken)' = Eligible(gen, taken)
BY DEF Paths, Slots, SlotsOf, EdgesOf, NodesOf, NoEdge, EdgeAt, Eligible

(* A path takes a transition a natural number of times.                    *)
LEMMA TimesType ==
  ASSUME TypeOK, NEW i \in Paths, NEW e
  PROVE  Times(i, e) \in Nat
<1>1. Len(paths[i].nodes) - 1 \in Int
  BY PathsTyped
<1>2. IsFiniteSet(1 .. Len(paths[i].nodes) - 1)
  BY <1>1, FS_Interval
<1>3. IsFiniteSet({k \in 1 .. Len(paths[i].nodes) - 1 : EdgeAt(<<i, k>>) = e})
  BY <1>2, FS_Subset
<1>4. QED
  BY <1>3, FS_CardinalityType DEF Times

(* Marking a path keeps the marks exact and the weights numbers.           *)
LEMMA MarkPathOk ==
  ASSUME IInv, NEW i \in Paths, ~ NoEdge(i), MarkPath(i), RefreshWeights, paths' = paths
  PROVE  /\ generated' \subseteq Paths
         /\ visitedNodes' \subseteq Node /\ visitedEdges' \subseteq Slots
         /\ hmm' \in [Node \X Node -> Nat] /\ weight' \in [Slots -> Nat]
         /\ EdgeMarksExact' /\ NodeMarksExact'
<1> USE DEF IInv
<1>1. /\ generated' = generated \cup {i} /\ generated \subseteq Paths
      /\ visitedNodes' = visitedNodes \cup NodesOf(i)
      /\ visitedEdges' = visitedEdges \cup {s \in Slots : EdgeAt(s) \in EdgesOf(i)}
  BY DEF MarkPath, TypeOK
<1>2. generated' \subseteq Paths
  BY <1>1
<1>3. visitedNodes' \subseteq Node /\ visitedEdges' \subseteq Slots
  BY <1>1, PathsTyped DEF TypeOK
<1>4. hmm' \in [Node \X Node -> Nat]
  <2>1. \A e \in Node \X Node : hmm[e] \in Nat /\ Times(i, e) \in Nat
    BY TimesType DEF TypeOK
  <2>2. \A e \in Node \X Node : (IF hmm[e] = 0 THEN 0 ELSE hmm[e] + Times(i, e)) \in Nat
    BY <2>1
  <2>3. QED
    BY <2>2 DEF MarkPath
<1>5. weight' \in [Slots -> Nat]
  BY <1>4, PathsTyped DEF RefreshWeights, TypeOK
<1>6. EdgeMarksExact'
  BY <1>1, SamePaths DEF EdgeMarksExact
<1>7. NodeMarksExact'
  BY <1>1, SamePaths DEF NodeMarksExact
<1>8. QED
  BY <1>2, <1>3, <1>4, <1>5, <1>6, <1>7

(* A step that only moves the control keeps all but TakenOk.               *)
LEMMA Frame ==
  ASSUME IInv, paths' = paths, visitedNumber' = visitedNumber, generated' = generated,
         testCase' = testCase, visitedNodes' = visitedNodes, visitedEdges' = visitedEdges,
         hmm' = hmm, weight' = weight, pathNumber' = pathNumber,
         constrained' \subseteq Paths,
         pc' \in {"addConstraint", "start", "solve", "createProbability", "done", "failed"}
  PROVE  TypeOK' /\ EdgeMarksExact' /\ NodeMarksExact'
<1>1. TypeOK'
  BY SamePaths DEF IInv, TypeOK
<1>2. EdgeMarksExact' /\ NodeMarksExact'
  BY SamePaths DEF IInv, EdgeMarksExact, NodeMarksExact
<1>3. QED
  BY <1>1, <1>2

(* The inductive invariant holds initially.                                *)
LEMMA InitInv == Init => IInv
<1> SUFFICES ASSUME Init PROVE IInv
  OBVIOUS
<1>1. TypeOK
  <2>1. visitedNumber \in [Paths -> 0 .. Epoches]
    <3>1. 0 \in 0 .. Epoches
      BY BoundsAssumption
    <3>2. QED
      BY <3>1 DEF Init
  <2>2. hmm \in [Node \X Node -> Nat] /\ weight \in [Slots -> Nat]
    BY DEF Init
  <2>3. testCase \in [Paths -> {"", "solution"}]
    BY DEF Init
  <2>4. QED
    BY <2>1, <2>2, <2>3 DEF Init, TypeOK
<1>2. QED
  BY <1>1 DEF Init, IInv, TakenOk, EdgeMarksExact, NodeMarksExact

(* Adding the constraint of a path preserves the inductive invariant.      *)
LEMMA AddConstraintInv ==
  ASSUME IInv, AddConstraint
  PROVE  IInv'
<1> USE DEF IInv
<1>1. paths' = paths /\ pc = "addConstraint" /\ pc' = "start"
  BY DEF AddConstraint
<1>2. \A i \in Paths : IndexOf(i) \in Paths
  <2> TAKE i \in Paths
  <2> DEFINE S == {j \in Paths : paths[j].id = paths[i].id}
  <2>1. i \in S /\ S \subseteq Paths /\ S \in SUBSET Nat
    BY DEF Paths
  <2> HIDE DEF S
  <2>2. FirstOf(S) \in S
    BY <2>1, FirstOfType
  <2>3. QED
    BY <2>1, <2>2 DEF IndexOf, S
<1>3. TypeOK'
  BY <1>1, <1>2, SamePaths DEF TypeOK, AddConstraint
<1>4. QED
  BY <1>1, <1>3, SamePaths DEF AddConstraint, TakenOk, EdgeMarksExact, NodeMarksExact

(* The start of the loop, which builds the weights, preserves it.          *)
LEMMA StartInv ==
  ASSUME IInv, Start
  PROVE  IInv'
<1> USE DEF IInv
<1>1. /\ paths' = paths /\ pc' = "solve" /\ GetNewPath(generated) /\ generated' = generated
      /\ generated \in SUBSET Paths
  BY DEF Start, TypeOK
<1>2. TypeOK'
  <2>1. hmm' \in [Node \X Node -> Nat]
    BY DEF Start
  <2>2. QED
    BY <1>1, <2>1, GetNewPathOk, SamePaths DEF TypeOK, Start
<1>3. TakenOk'
  BY <1>1, GetNewPathOk DEF TakenOk
<1>4. EdgeMarksExact' /\ NodeMarksExact'
  BY <1>1, SamePaths DEF EdgeMarksExact, NodeMarksExact, Start
<1>5. QED
  BY <1>2, <1>3, <1>4

(* A path without solution preserves it.                                   *)
LEMMA NoSolutionInv ==
  ASSUME IInv, NoSolution
  PROVE  IInv'
<1> USE DEF IInv
<1>1. /\ paths' = paths /\ pc' = IF pathNumber' = 0 THEN "createProbability" ELSE "solve"
      /\ GetNewPath(generated) /\ generated' = generated /\ generated \in SUBSET Paths
  BY DEF NoSolution, TypeOK
<1>2. TypeOK'
  BY <1>1, GetNewPathOk, SamePaths DEF TypeOK, NoSolution
<1>3. TakenOk'
  <2>1. pathNumber' = 0 => Eligible(generated', visitedNumber') = {}
    BY <1>1, GetNewPathOk DEF GetNewPath, Taken
  <2>2. QED
    BY <1>1, <2>1, GetNewPathOk, SamePaths DEF TakenOk
<1>4. EdgeMarksExact' /\ NodeMarksExact'
  BY <1>1, SamePaths DEF EdgeMarksExact, NodeMarksExact, NoSolution
<1>5. QED
  BY <1>2, <1>3, <1>4

(* A path solved, with its marks and weights, preserves it.                *)
LEMMA SolutionInv ==
  ASSUME IInv, Solution
  PROVE  IInv'
<1> USE DEF IInv
<1>1. /\ pc = "solve" /\ pathNumber \in constrained /\ ~ NoEdge(pathNumber)
      /\ MarkPath(pathNumber) /\ RefreshWeights /\ paths' = paths /\ constrained' = constrained
      /\ GetNewPath(generated')
      /\ pc' = IF pathNumber' = 0 THEN "createProbability" ELSE "solve"
  BY DEF Solution, Solvable
<1>2. pathNumber \in Paths
  BY <1>1 DEF TypeOK
<1>3. /\ generated' \subseteq Paths
      /\ visitedNodes' \subseteq Node /\ visitedEdges' \subseteq Slots
      /\ hmm' \in [Node \X Node -> Nat] /\ weight' \in [Slots -> Nat]
      /\ EdgeMarksExact' /\ NodeMarksExact'
  BY <1>1, <1>2, MarkPathOk
<1>4. generated' \in SUBSET Paths
  BY <1>3
<1>5. TypeOK'
  <2>1. testCase' \in [Paths -> {"", "solution"}]
    BY DEF Solution, TypeOK
  <2>2. QED
    BY <1>1, <1>3, <1>4, <2>1, GetNewPathOk, SamePaths DEF TypeOK
<1>6. TakenOk'
  <2>1. pathNumber' = 0 => Eligible(generated', visitedNumber') = {}
    BY <1>1, <1>4, GetNewPathOk DEF GetNewPath, Taken
  <2>2. Eligible(generated, visitedNumber)' = Eligible(generated', visitedNumber')
    BY <1>1, SamePaths
  <2>3. QED
    BY <1>1, <1>4, <2>1, <2>2, GetNewPathOk DEF TakenOk
<1>7. QED
  BY <1>3, <1>5, <1>6

(* A failure between solving and marking preserves it.                     *)
LEMMA UpdateThrowsInv ==
  ASSUME IInv, UpdateThrows
  PROVE  IInv'
<1> USE DEF IInv
<1>1. /\ pc = "solve" /\ pathNumber \in constrained /\ paths' = paths /\ pc' = "failed"
      /\ constrained' = constrained /\ visitedNumber' = visitedNumber
      /\ testCase' = testCase /\ pathNumber' = pathNumber
  BY DEF UpdateThrows, Solvable
<1>2. pathNumber \in Paths
  BY <1>1 DEF TypeOK
<1>3. TakenOk'
  BY <1>1 DEF TakenOk
<1>4. CASE NoEdge(pathNumber) /\ generated' = generated \cup {pathNumber}
           /\ UNCHANGED <<visitedNodes, visitedEdges, hmm, weight>>
  <2>1. TypeOK'
    BY <1>1, <1>2, <1>4, SamePaths DEF TypeOK
  <2>2. EdgesOf(pathNumber) = {}
    BY <1>4 DEF NoEdge, EdgesOf
  <2>3. EdgeMarksExact'
    BY <1>1, <1>4, <2>2, SamePaths DEF EdgeMarksExact
  <2>4. {j \in generated' : ~ NoEdge(j)} = {j \in generated : ~ NoEdge(j)}
    BY <1>4
  <2>5. NodeMarksExact'
    BY <1>1, <1>4, <2>4, SamePaths DEF NodeMarksExact
  <2>6. QED
    BY <1>3, <2>1, <2>3, <2>5
<1>5. CASE ~ NoEdge(pathNumber) /\ MarkPath(pathNumber) /\ RefreshWeights
  <2>1. /\ generated' \subseteq Paths
        /\ visitedNodes' \subseteq Node /\ visitedEdges' \subseteq Slots
        /\ hmm' \in [Node \X Node -> Nat] /\ weight' \in [Slots -> Nat]
        /\ EdgeMarksExact' /\ NodeMarksExact'
    BY <1>1, <1>2, <1>5, MarkPathOk
  <2>2. TypeOK'
    BY <1>1, <2>1, SamePaths DEF TypeOK
  <2>3. QED
    BY <1>3, <2>1, <2>2
<1>6. QED
  BY <1>4, <1>5 DEF UpdateThrows

(* A solver that throws preserves it.                                      *)
LEMMA SolveThrowsInv ==
  ASSUME IInv, SolveThrows
  PROVE  IInv'
<1>1. constrained' \subseteq Paths
  BY DEF SolveThrows, IInv, TypeOK
<1>2. TypeOK' /\ EdgeMarksExact' /\ NodeMarksExact'
  BY <1>1, Frame DEF SolveThrows
<1>3. TakenOk'
  BY DEF SolveThrows, IInv, TakenOk
<1>4. QED
  BY <1>2, <1>3 DEF IInv

(* Another tool that throws preserves it.                                  *)
LEMMA ToolThrowsInv ==
  ASSUME IInv, ToolThrows
  PROVE  IInv'
<1> USE DEF IInv
<1>1. /\ paths' = paths /\ pc' = "failed" /\ pathNumber' = pathNumber
      /\ pc \in {"addConstraint", "solve"} /\ visitedNumber' = visitedNumber
      /\ generated' = generated /\ testCase' = testCase /\ visitedNodes' = visitedNodes
      /\ visitedEdges' = visitedEdges /\ hmm' = hmm /\ weight' = weight
  BY DEF ToolThrows, Solvable
<1>2. constrained' \subseteq Paths
  <2>1. \A i \in Paths : IndexOf(i) \in Paths
    <3> TAKE i \in Paths
    <3> DEFINE S == {j \in Paths : paths[j].id = paths[i].id}
    <3>1. i \in S /\ S \subseteq Paths /\ S \in SUBSET Nat
      BY DEF Paths
    <3> HIDE DEF S
    <3>2. FirstOf(S) \in S
      BY <3>1, FirstOfType
    <3>3. QED
      BY <3>1, <3>2 DEF IndexOf, S
  <2>2. \A n \in Paths : \A i \in 1 .. n - 1 : i \in Paths
    BY PathsTyped DEF Paths
  <2>3. CASE \E n \in Paths : constrained' = {IndexOf(i) : i \in 1 .. n - 1}
    BY <2>1, <2>2, <2>3
  <2>4. CASE constrained' = constrained
    BY <2>4 DEF TypeOK
  <2>5. QED
    BY <2>3, <2>4 DEF ToolThrows
<1>3. TypeOK' /\ EdgeMarksExact' /\ NodeMarksExact'
  BY <1>1, <1>2, Frame
<1>4. TakenOk'
  BY <1>1 DEF TakenOk
<1>5. QED
  BY <1>3, <1>4

(* The end of the loop, which copies the weights, preserves it.            *)
LEMMA CreateProbabilityInv ==
  ASSUME IInv, CreateProbability
  PROVE  IInv'
<1>1. constrained' \subseteq Paths /\ pc' \in {"done", "failed"}
  BY DEF CreateProbability, IInv, TypeOK
<1>2. TypeOK' /\ EdgeMarksExact' /\ NodeMarksExact'
  BY <1>1, Frame DEF CreateProbability
<1>3. TakenOk'
  <2>1. Eligible(generated, visitedNumber)' = Eligible(generated, visitedNumber)
    BY SamePaths DEF CreateProbability
  <2>2. QED
    BY <1>1, <2>1 DEF CreateProbability, IInv, TakenOk
<1>4. QED
  BY <1>2, <1>3 DEF IInv

(* A step that changes nothing preserves it.                               *)
LEMMA StutterInv ==
  ASSUME IInv, UNCHANGED vars
  PROVE  IInv'
<1>1. constrained' \subseteq Paths
  BY DEF vars, IInv, TypeOK
<1>2. TypeOK' /\ EdgeMarksExact' /\ NodeMarksExact'
  BY <1>1, Frame DEF vars, IInv, TypeOK
<1>3. TakenOk'
  <2>1. Eligible(generated, visitedNumber)' = Eligible(generated, visitedNumber)
    BY SamePaths DEF vars
  <2>2. QED
    BY <2>1 DEF vars, IInv, TakenOk
<1>4. QED
  BY <1>2, <1>3 DEF IInv

(* Every step preserves the inductive invariant.                           *)
LEMMA NextInv == IInv /\ [Next]_vars => IInv'
<1> SUFFICES ASSUME IInv, [Next]_vars PROVE IInv'
  OBVIOUS
<1>1. CASE AddConstraint
  BY <1>1, AddConstraintInv
<1>2. CASE Start
  BY <1>2, StartInv
<1>3. CASE NoSolution
  BY <1>3, NoSolutionInv
<1>4. CASE Solution
  BY <1>4, SolutionInv
<1>5. CASE UpdateThrows
  BY <1>5, UpdateThrowsInv
<1>6. CASE SolveThrows
  BY <1>6, SolveThrowsInv
<1>7. CASE ToolThrows
  BY <1>7, ToolThrowsInv
<1>8. CASE CreateProbability
  BY <1>8, CreateProbabilityInv
<1>9. CASE Terminated \/ UNCHANGED vars
  BY <1>9, StutterInv DEF Terminated
<1>10. QED
  BY <1>1, <1>2, <1>3, <1>4, <1>5, <1>6, <1>7, <1>8, <1>9 DEF Next, Step

(* The inductive invariant holds in every reachable state: types, marks of *)
(* the generated paths, and results that match them.                       *)
THEOREM Invariance == Spec => []IInv
BY InitInv, NextInv, PTL DEF Spec

(* The data of run is well typed; no path is taken more than Epoches times.*)
THEOREM TypeCorrect == Spec => []TypeOK
<1>1. IInv => TypeOK
  BY DEF IInv
<1>2. QED
  BY Invariance, <1>1, PTL

(* An edge is marked visited exactly when a generated path takes it.       *)
THEOREM EdgeMarks == Spec => []EdgeMarksExact
<1>1. IInv => EdgeMarksExact
  BY DEF IInv
<1>2. QED
  BY Invariance, <1>1, PTL

(* A node is marked visited exactly when it is on a generated path.        *)
THEOREM NodeMarks == Spec => []NodeMarksExact
<1>1. IInv => NodeMarksExact
  BY DEF IInv
<1>2. QED
  BY Invariance, <1>1, PTL

(* When the loop of run ends, every path is solved or out of attempts.     *)
THEOREM NoneLeft == Spec => []NothingLeft
<1>1. IInv => NothingLeft
  <2> SUFFICES ASSUME IInv, pc \in {"createProbability", "done"}, NEW i \in Paths,
                      i \notin generated
               PROVE  visitedNumber[i] = Epoches
    BY DEF NothingLeft
  <2>1. ~ (visitedNumber[i] < Epoches)
    BY DEF IInv, TakenOk, Eligible
  <2>2. visitedNumber[i] \in 0 .. Epoches /\ Epoches \in Nat
    BY BoundsAssumption DEF IInv, TypeOK
  <2>3. QED
    BY <2>1, <2>2
<1>2. QED
  BY Invariance, <1>1, PTL

(* A path that has been solved is never taken again, and keeps its test    *)
(* case.                                                                   *)
THEOREM Once == Spec => SolvedOnce
<1> DEFINE A == \A i \in generated : /\ visitedNumber'[i] = visitedNumber[i]
                                     /\ testCase'[i] = testCase[i]
                                     /\ i \in generated'
<1>1. IInv /\ [Next]_vars => [A]_vars
  <2> SUFFICES ASSUME IInv, Next, NEW i \in generated
               PROVE  /\ visitedNumber'[i] = visitedNumber[i]
                      /\ testCase'[i] = testCase[i]
                      /\ i \in generated'
    OBVIOUS
  <2> USE DEF IInv
  <2>1. i \in Paths /\ generated \in SUBSET Paths /\ testCase \in [Paths -> {"", "solution"}]
    BY DEF TypeOK
  <2>2. CASE Start
    BY <2>1, <2>2, GetNewPathOk DEF Start
  <2>3. CASE NoSolution
    BY <2>1, <2>3, GetNewPathOk DEF NoSolution
  <2>4. CASE Solution
    <3>1. /\ pathNumber \in constrained /\ pc = "solve" /\ ~ NoEdge(pathNumber)
          /\ MarkPath(pathNumber) /\ GetNewPath(generated')
      BY <2>4 DEF Solution, Solvable
    <3>2. pathNumber \in Paths /\ pathNumber \notin generated
      <4>1. pathNumber \in Paths
        BY <3>1 DEF TypeOK
      <4>2. pathNumber # 0
        BY <4>1, PathsTyped DEF Paths
      <4>3. QED
        BY <3>1, <4>1, <4>2 DEF TakenOk
    <3>3. generated' = generated \cup {pathNumber} /\ generated' \in SUBSET Paths
      BY <3>1, <3>2, <2>1 DEF MarkPath
    <3>4. visitedNumber'[i] = visitedNumber[i]
      BY <2>1, <3>1, <3>3, GetNewPathOk
    <3>5. testCase'[i] = testCase[i]
      BY <2>1, <2>4, <3>2 DEF Solution
    <3>6. QED
      BY <3>3, <3>4, <3>5
  <2>5. CASE UpdateThrows
    BY <2>5 DEF UpdateThrows, MarkPath
  <2>6. CASE AddConstraint \/ SolveThrows \/ ToolThrows \/ CreateProbability \/ Terminated
    BY <2>6 DEF AddConstraint, SolveThrows, ToolThrows, CreateProbability, Terminated, vars
  <2>7. QED
    BY <2>2, <2>3, <2>4, <2>5, <2>6 DEF Next, Step
<1>2. QED
  BY <1>1, Invariance, PTL DEF Spec, SolvedOnce

-----------------------------------------------------------------------------
(* Run implements PathCampaign.                                            *)
LEMMA InitRefines == Init => PC!CInit
<1> SUFFICES ASSUME Init PROVE PC!CInit
  OBVIOUS
<1>1. Paths \in {1 .. Len(l) : l \in PathLists}
  BY DEF Init, Paths
<1>2. Tries = [i \in Paths |-> 0] /\ Solved = {} /\ Outcome = "running"
  BY DEF Init, Tries, Solved, Outcome
<1>3. QED
  BY <1>1, <1>2 DEF PC!CInit

(* The attempt on the path taken last ends and another path is taken, or   *)
(* none: whatever the outcome, it is an attempt of the campaign.           *)
LEMMA AttemptRefines ==
  ASSUME IInv, pc = "solve", pathNumber \in Paths, paths' = paths,
         generated' \in {generated, generated \cup {pathNumber}},
         GetNewPath(generated'),
         pc' = IF pathNumber' = 0 THEN "createProbability" ELSE "solve"
  PROVE  PC!Attempt(pathNumber)
<1>1. pathNumber # 0 /\ 0 \notin Paths
  BY PathsTyped DEF IInv, Paths
<1>2. /\ pathNumber \notin generated /\ visitedNumber[pathNumber] >= 1
      /\ visitedNumber \in [Paths -> 0 .. Epoches] /\ Epoches \in Nat
      /\ generated' \in SUBSET Paths
  BY <1>1, BoundsAssumption DEF IInv, TakenOk, TypeOK
<1>3. Outcome = "running" /\ Outcome' = "running" /\ Solved = generated /\ Solved' = generated'
  BY DEF Outcome, Solved
<1>4. /\ DOMAIN Tries = Paths /\ Tries[pathNumber] < Epoches
      /\ Tries[pathNumber] + 1 = visitedNumber[pathNumber]
  BY <1>2 DEF Tries
<1>5. Tries' = [Tries EXCEPT ![pathNumber] = @ + 1]
  <2>1. \A i \in Paths : Tries'[i] = visitedNumber[i]
    <3> TAKE i \in Paths
    <3>1. i # pathNumber' => visitedNumber'[i] = visitedNumber[i]
      BY <1>2, GetNewPathOk DEF IInv, GetNewPath, Taken
    <3>2. i = pathNumber' => visitedNumber'[i] = visitedNumber[i] + 1
      BY <1>1, <1>2, GetNewPathOk DEF IInv
    <3>3. visitedNumber[i] \in Nat /\ visitedNumber'[i] \in Nat
      BY <1>2, GetNewPathOk DEF IInv
    <3>4. Tries'[i] = IF pc' \in {"solve", "failed"} /\ i = pathNumber'
                      THEN visitedNumber'[i] - 1 ELSE visitedNumber'[i]
      BY SamePaths DEF Tries
    <3>5. i = pathNumber' => pc' = "solve"
      BY <1>1
    <3>6. QED
      BY <3>1, <3>2, <3>3, <3>4, <3>5
  <2>2. \A i \in Paths : i # pathNumber => Tries[i] = visitedNumber[i]
    BY DEF Tries
  <2>3. Tries' = [i \in Paths |-> Tries'[i]]
    BY SamePaths DEF Tries
  <2>4. QED
    BY <1>4, <2>1, <2>2, <2>3
<1>6. QED
  BY <1>2, <1>3, <1>4, <1>5 DEF PC!Attempt, PC!Open

(* Every step of run is a step of PathCampaign or leaves its state alone.  *)
LEMMA NextRefines == IInv /\ [Next]_vars => [PC!CNext]_(PC!cvars)
<1> SUFFICES ASSUME IInv, [Next]_vars PROVE PC!CNext \/ UNCHANGED PC!cvars
  OBVIOUS
<1> USE DEF IInv
<1>1. CASE AddConstraint
  <2>1. /\ paths' = paths /\ pc = "addConstraint" /\ pc' = "start" /\ generated' = generated
        /\ visitedNumber' = visitedNumber /\ pathNumber' = pathNumber
    BY <1>1 DEF AddConstraint
  <2>2. Tries' = Tries /\ Solved' = Solved /\ Outcome' = Outcome
    BY <2>1, SamePaths DEF Tries, Solved, Outcome
  <2>3. QED
    BY <2>2 DEF PC!cvars
<1>2. CASE Start
  <2>1. /\ paths' = paths /\ pc = "start" /\ pc' = "solve" /\ generated' = generated
        /\ GetNewPath(generated) /\ generated \in SUBSET Paths
        /\ visitedNumber \in [Paths -> 0 .. Epoches] /\ Epoches \in Nat
    BY <1>2, BoundsAssumption DEF Start, TypeOK
  <2>2. Solved' = Solved /\ Outcome' = Outcome
    BY <2>1 DEF Solved, Outcome
  <2>3. \A i \in Paths : Tries'[i] = visitedNumber[i]
    <3> TAKE i \in Paths
    <3>1. i # pathNumber' => visitedNumber'[i] = visitedNumber[i]
      BY <2>1, GetNewPathOk DEF GetNewPath, Taken
    <3>2. i = pathNumber' => visitedNumber'[i] = visitedNumber[i] + 1
      BY <2>1, GetNewPathOk, PathsTyped DEF Paths
    <3>3. visitedNumber[i] \in Nat
      BY <2>1
    <3>4. Tries'[i] = IF i = pathNumber' THEN visitedNumber'[i] - 1 ELSE visitedNumber'[i]
      BY <2>1, SamePaths DEF Tries
    <3>5. QED
      BY <3>1, <3>2, <3>3, <3>4
  <2>4. Tries = [i \in Paths |-> visitedNumber[i]] /\ Tries' = [i \in Paths |-> Tries'[i]]
    BY <2>1, SamePaths DEF Tries
  <2>5. QED
    BY <2>2, <2>3, <2>4 DEF PC!cvars
<1>3. CASE NoSolution
  <2>1. PC!Attempt(pathNumber)
    BY <1>3, AttemptRefines DEF NoSolution, Solvable, TypeOK
  <2>2. pathNumber \in DOMAIN Tries
    BY <1>3 DEF NoSolution, Solvable, TypeOK, Tries
  <2>3. QED
    BY <2>1, <2>2 DEF PC!CNext
<1>4. CASE Solution
  <2>1. PC!Attempt(pathNumber)
    BY <1>4, AttemptRefines DEF Solution, MarkPath, Solvable, TypeOK
  <2>2. pathNumber \in DOMAIN Tries
    BY <1>4 DEF Solution, Solvable, TypeOK, Tries
  <2>3. QED
    BY <2>1, <2>2 DEF PC!CNext
<1>5. ASSUME pc \in {"addConstraint", "solve", "createProbability"}, pc' = "failed",
             paths' = paths, visitedNumber' = visitedNumber, pathNumber' = pathNumber
      PROVE  PC!CNext
  <2>1. Outcome = "running" /\ Outcome' = "lost" /\ Solved' = {}
    BY <1>5 DEF Outcome, Solved
  <2>2. Tries' = Tries
    <3>1. pc \in {"addConstraint", "createProbability"} => pathNumber = 0 /\ 0 \notin Paths
      BY PathsTyped DEF TakenOk, Paths
    <3>2. QED
      BY <1>5, <3>1, SamePaths DEF Tries
  <2>3. QED
    BY <2>1, <2>2 DEF PC!Lose, PC!CNext
<1>6. CASE UpdateThrows
  BY <1>5, <1>6 DEF UpdateThrows, Solvable
<1>7. CASE SolveThrows
  BY <1>5, <1>7 DEF SolveThrows
<1>8. CASE ToolThrows
  BY <1>5, <1>8 DEF ToolThrows, Solvable
<1>9. CASE CreateProbability
  <2>1. /\ pc = "createProbability" /\ pc' \in {"done", "failed"} /\ paths' = paths
        /\ visitedNumber' = visitedNumber /\ pathNumber' = pathNumber
        /\ generated' = generated
    BY <1>9 DEF CreateProbability
  <2>2. CASE pc' = "failed"
    BY <1>5, <2>1, <2>2
  <2>3. CASE pc' = "done"
    <3>1. /\ Outcome = "running" /\ Outcome' = "published" /\ Solved = generated
          /\ Solved' = Solved
      BY <2>1, <2>3 DEF Outcome, Solved
    <3>2. Tries = [i \in Paths |-> visitedNumber[i]] /\ Tries' = Tries
      BY <2>1, <2>3, SamePaths DEF Tries
    <3>3. PC!Open = {}
      BY <2>1, <3>1, <3>2 DEF PC!Open, TakenOk, Eligible
    <3>4. QED
      BY <3>1, <3>2, <3>3 DEF PC!Publish, PC!CNext
  <2>4. QED
    BY <2>1, <2>2, <2>3
<1>10. CASE Terminated \/ UNCHANGED vars
  <2>1. /\ paths' = paths /\ visitedNumber' = visitedNumber /\ pathNumber' = pathNumber
        /\ generated' = generated /\ pc' = pc
    BY <1>10 DEF Terminated, vars
  <2>2. Tries' = Tries /\ Solved' = Solved /\ Outcome' = Outcome
    BY <2>1, SamePaths DEF Tries, Solved, Outcome
  <2>3. QED
    BY <2>2 DEF PC!cvars
<1>11. QED
  BY <1>1, <1>2, <1>3, <1>4, <1>6, <1>7, <1>8, <1>9, <1>10 DEF Next, Step

(* Each path is attempted at most Epoches times and never after it has     *)
(* been solved, and the results are published together when no path is     *)
(* left to attempt, or lost.                                               *)
THEOREM Refinement == Spec => CampaignSafety
<1>1. IInv /\ [Next]_vars => [PC!CNext]_(PC!cvars)
  BY NextRefines
<1>2. QED
  BY <1>1, InitRefines, Invariance, PTL DEF Spec, CampaignSafety, PC!CSafety

-----------------------------------------------------------------------------
(* What is known of the paths by the place run is at: only the first of    *)
(* paths that print alike has constraints, and a path without them cannot  *)
(* be passed by.                                                           *)
Untouched ==
  pc \in {"addConstraint", "start"} =>
    /\ generated = {}
    /\ visitedNumber = [i \in Paths |-> 0]
    /\ weight = [s \in Slots |-> 1]

Constraints ==
  pc \in {"start", "solve", "createProbability", "done"} =>
    constrained = {IndexOf(i) : i \in Paths}

Passed ==
  pc \in {"start", "solve", "createProbability", "done"} =>
    \A i \in Paths : i # pathNumber /\ (i \in generated \/ visitedNumber[i] >= 1)
                       => i \in constrained

Entered ==
  /\ pc = "solve" /\ pathNumber = 0 => paths = <<>>
  /\ pc \in {"createProbability", "done"} => paths # <<>>

Shaped == Untouched /\ Constraints /\ Passed /\ Entered

(* What the shape of the list decides is open before run starts.           *)
LEMMA ShapedInit == Init => Shaped
BY DEF Init, Shaped, Untouched, Constraints, Passed, Entered

(* A step that keeps the list keeps the position of every path in it.      *)
LEMMA SameIndex ==
  ASSUME paths' = paths
  PROVE  \A i : IndexOf(i)' = IndexOf(i)
BY DEF IndexOf, Paths

(* Without paths there is none to take, and with paths there is one at the *)
(* start.                                                                  *)
LEMMA NoPaths ==
  ASSUME TypeOK
  PROVE  paths = <<>> <=> Paths = {}
<1>1. paths \in Seq(PathType)
  BY PathsAssumption DEF TypeOK
<1>2. Len(paths) \in Nat
  BY <1>1
<1>3. paths = <<>> => Paths = {}
  BY DEF Paths
<1>4. ASSUME Paths = {} PROVE paths = <<>>
  <2>1. 1 \notin Paths
    BY <1>4
  <2>2. Len(paths) = 0
    BY <1>2, <2>1 DEF Paths
  <2>3. QED
    BY <1>1, <2>2
<1>5. QED
  BY <1>3, <1>4

(* The next path is taken when an attempt ends.                            *)
LEMMA PassedOn ==
  ASSUME IInv, Shaped, pc = "solve", pathNumber \in constrained, paths' = paths,
         constrained' = constrained,
         generated' \in {generated, generated \cup {pathNumber}},
         GetNewPath(generated'),
         pc' = IF pathNumber' = 0 THEN "createProbability" ELSE "solve"
  PROVE  Shaped'
<1>1. pathNumber \in Paths /\ Paths # {} /\ generated' \in SUBSET Paths
  BY DEF IInv, TypeOK
<1>2. paths # <<>>
  BY <1>1, NoPaths DEF IInv
<1>3. Untouched'
  BY DEF Untouched
<1>4. Constraints'
  BY SameIndex, SamePaths DEF Shaped, Constraints
<1>5. Entered'
  BY <1>2 DEF Entered
<1>6. Passed'
  <2>1. \A i \in Paths : i # pathNumber' => visitedNumber'[i] = visitedNumber[i]
    BY DEF GetNewPath, Taken, IInv, TypeOK
  <2>2. \A i \in Paths : i # pathNumber' /\ (i \in generated' \/ visitedNumber'[i] >= 1)
                           => i \in constrained
    BY <2>1 DEF Shaped, Passed
  <2>3. QED
    BY <2>2, SamePaths DEF Passed
<1>7. QED
  BY <1>3, <1>4, <1>5, <1>6 DEF Shaped

(* Every step agrees with what the shape of the list decides.              *)
LEMMA ShapedStep ==
  ASSUME IInv, Shaped, [Next]_vars
  PROVE  Shaped'
<1>1. CASE AddConstraint
  <2>1. /\ paths' = paths /\ pc = "addConstraint" /\ pc' = "start" /\ generated' = generated
        /\ visitedNumber' = visitedNumber /\ weight' = weight
        /\ constrained' = {IndexOf(i) : i \in Paths}
    BY <1>1 DEF AddConstraint
  <2>2. Untouched'
    BY <2>1, SamePaths DEF Shaped, Untouched
  <2>3. Constraints'
    BY <2>1, SamePaths, SameIndex DEF Constraints
  <2>4. generated' = {} /\ \A i \in Paths : visitedNumber'[i] = 0
    BY <2>1 DEF Shaped, Untouched
  <2>5. Passed'
    BY <2>1, <2>4, SamePaths DEF Passed
  <2>6. QED
    BY <2>1, <2>2, <2>3, <2>5 DEF Shaped, Entered
<1>2. CASE Start
  <2>1. /\ paths' = paths /\ pc = "start" /\ pc' = "solve" /\ generated' = generated
        /\ GetNewPath(generated) /\ constrained' = constrained
        /\ generated = {} /\ visitedNumber = [i \in Paths |-> 0]
    BY <1>2 DEF Start, Shaped, Untouched
  <2>2. Untouched'
    BY <2>1 DEF Untouched
  <2>3. Constraints'
    BY <2>1, SamePaths, SameIndex DEF Shaped, Constraints
  <2>4. Passed'
    <3>1. \A i \in Paths : i # pathNumber' => visitedNumber'[i] = 0
      BY <2>1 DEF GetNewPath, Taken
    <3>2. QED
      BY <2>1, <3>1, SamePaths DEF Passed
  <2>5. Entered'
    <3>1. pathNumber' = 0 => Eligible(generated, visitedNumber) = {}
      BY <2>1, GetNewPathOk DEF IInv, TypeOK
    <3>2. \A i \in Paths : i \in Eligible(generated, visitedNumber)
      BY <2>1, BoundsAssumption DEF Eligible
    <3>3. QED
      BY <2>1, <3>1, <3>2, NoPaths DEF Entered, IInv
  <2>6. QED
    BY <2>2, <2>3, <2>4, <2>5 DEF Shaped
<1>3. CASE NoSolution
  BY <1>3, PassedOn DEF NoSolution, Solvable
<1>4. CASE Solution
  BY <1>4, PassedOn DEF Solution, Solvable, MarkPath
<1>5. ASSUME pc' = "failed"
      PROVE  Shaped'
  BY <1>5 DEF Shaped, Untouched, Constraints, Passed, Entered
<1>6. CASE UpdateThrows \/ SolveThrows \/ ToolThrows
  BY <1>5, <1>6 DEF UpdateThrows, SolveThrows, ToolThrows
<1>7. ASSUME paths' = paths, constrained' = constrained, visitedNumber' = visitedNumber,
             generated' = generated, pathNumber' = pathNumber, weight' = weight,
             pc' = pc \/ (pc = "createProbability" /\ pc' = "done")
      PROVE  Shaped'
  <2>1. Untouched' /\ Entered'
    BY <1>7, SamePaths DEF Shaped, Untouched, Entered
  <2>2. Constraints'
    BY <1>7, SamePaths, SameIndex DEF Shaped, Constraints
  <2>3. Passed'
    BY <1>7, SamePaths DEF Shaped, Passed
  <2>4. QED
    BY <2>1, <2>2, <2>3 DEF Shaped
<1>8. CASE CreateProbability
  <2>1. pc' \in {"done", "failed"}
    BY <1>8 DEF CreateProbability
  <2>2. QED
    BY <1>5, <1>7, <1>8, <2>1 DEF CreateProbability
<1>9. CASE Terminated \/ UNCHANGED vars
  BY <1>7, <1>9 DEF Terminated, vars
<1>10. QED
  BY <1>1, <1>2, <1>3, <1>4, <1>6, <1>8, <1>9 DEF Next, Step

(* What the shape of the list decides holds in every reachable state.      *)
LEMMA ShapedAlways == Spec => []Shaped
BY ShapedInit, ShapedStep, Invariance, PTL DEF Spec

(* Only the first of equal prints has constraints.                         *)
LEMMA IndexOfOk ==
  ASSUME TypeOK, NEW i \in Paths
  PROVE  IndexOf(i) \in Paths /\ paths[IndexOf(i)].id = paths[i].id
<1> DEFINE S == {j \in Paths : paths[j].id = paths[i].id}
<1>1. i \in S /\ S \in SUBSET Nat
  BY DEF Paths
<1> HIDE DEF S
<1>2. FirstOf(S) \in S
  BY <1>1, FirstOfType
<1>3. QED
  BY <1>2 DEF IndexOf, S

(* Paths that print alike are found at the same position.                  *)
LEMMA IndexOfSame ==
  ASSUME NEW i, NEW j, paths[i].id = paths[j].id
  PROVE  IndexOf(i) = IndexOf(j)
BY DEF IndexOf

(* When no path is left over there are no two that print alike.            *)
LEMMA NoTwinsLeft ==
  ASSUME IInv, Shaped, pc = "createProbability"
  PROVE  ~ Twins /\ paths # <<>>
<1>1. pathNumber = 0 /\ 0 \notin Paths /\ Eligible(generated, visitedNumber) = {}
  BY PathsTyped DEF IInv, TakenOk, Paths
<1>2. visitedNumber \in [Paths -> 0 .. Epoches] /\ Epoches \in Nat \ {0}
  BY BoundsAssumption DEF IInv, TypeOK
<1>3. \A i \in Paths : i \in constrained
  <2> SUFFICES ASSUME NEW i \in Paths PROVE i \in generated \/ visitedNumber[i] >= 1
    BY <1>1 DEF Shaped, Passed
  <2>1. i \in generated \/ ~ (visitedNumber[i] < Epoches)
    BY <1>1 DEF Eligible
  <2>2. QED
    BY <1>2, <2>1
<1>4. \A i \in Paths : IndexOf(i) = i
  <2> TAKE i \in Paths
  <2>1. PICK j \in Paths : i = IndexOf(j)
    BY <1>3 DEF Shaped, Constraints
  <2>2. paths[i].id = paths[j].id
    BY <2>1, IndexOfOk DEF IInv
  <2>3. QED
    BY <2>1, <2>2, IndexOfSame
<1>5. ~ Twins
  <2> SUFFICES ASSUME NEW i \in Paths, NEW j \in Paths, paths[i].id = paths[j].id
               PROVE  i = j
    BY DEF Twins
  <2>1. QED
    BY <1>4, IndexOfSame
<1>6. QED
  BY <1>5 DEF Shaped, Entered

(* The loop of run fails by itself only on a degenerate list of paths.     *)
LEMMA FailsDegenerate ==
  ASSUME IInv, Shaped, UpdateThrows \/ SolveThrows
  PROVE  Degenerate
<1>1. CASE UpdateThrows
  <2>1. pathNumber \in Paths
    BY <1>1 DEF UpdateThrows, Solvable, IInv, TypeOK
  <2>2. QED
    BY <1>1, <2>1 DEF UpdateThrows, Degenerate
<1>2. CASE SolveThrows
  <2>1. pc = "solve" /\ pathNumber \notin constrained
    BY <1>2 DEF SolveThrows
  <2>2. CASE pathNumber = 0
    BY <2>1, <2>2 DEF Shaped, Entered, Degenerate
  <2>3. CASE pathNumber # 0
    <3>1. pathNumber \in Paths
      BY <2>3 DEF IInv, TypeOK
    <3>2. IndexOf(pathNumber) \in constrained
      BY <2>1, <3>1 DEF Shaped, Constraints
    <3>3. IndexOf(pathNumber) # pathNumber
      BY <2>1, <3>2
    <3>4. Twins
      BY <3>1, <3>3, IndexOfOk DEF Twins, IInv
    <3>5. QED
      BY <3>4 DEF Degenerate
  <2>4. QED
    BY <2>2, <2>3
<1>3. QED
  BY <1>1, <1>2

(* run publishes its paths only if none is degenerate, and fails then only *)
(* because its tools throw.                                                *)
THEOREM Outcomes == Spec => OutcomeByShape
<1> DEFINE A == CreateProbability => (pc' = "done" <=> ~ Degenerate)
           B == pc' = "failed" /\ pc # "failed" => Degenerate \/ ToolThrows
<1>1. IInv /\ Shaped /\ [Next]_vars => [A]_vars
  <2> SUFFICES ASSUME IInv, Shaped, CreateProbability
               PROVE  pc' = "done" <=> ~ Degenerate
    OBVIOUS
  <2>1. ~ Twins /\ paths # <<>>
    BY NoTwinsLeft DEF CreateProbability
  <2>2. pc' = "done" <=> Refreshable /\ \A i \in Paths : ~ NoEdge(i)
    BY DEF CreateProbability
  <2>3. QED
    BY <2>1, <2>2 DEF Degenerate
<1>2. IInv /\ Shaped /\ [Next]_vars => [B]_vars
  <2> SUFFICES ASSUME IInv, Shaped, Next, pc' = "failed", pc # "failed", ~ ToolThrows
               PROVE  Degenerate
    OBVIOUS
  <2>1. ~ (AddConstraint \/ Start \/ NoSolution \/ Solution \/ Terminated)
    BY DEF AddConstraint, Start, NoSolution, Solution, Terminated, vars
  <2>2. CASE UpdateThrows \/ SolveThrows
    BY <2>2, FailsDegenerate
  <2>3. CASE CreateProbability
    <3>1. ~ (Refreshable /\ \A i \in Paths : ~ NoEdge(i))
      BY <2>3 DEF CreateProbability
    <3>2. QED
      BY <3>1 DEF Degenerate
  <2>4. QED
    BY <2>1, <2>2, <2>3 DEF Next, Step
<1>3. QED
  BY <1>1, <1>2, Invariance, ShapedAlways, PTL DEF Spec, OutcomeByShape


-----------------------------------------------------------------------------
(* The weights of the HMM graph: a solved path adds its slots to those     *)
(* that the generated paths have of each transition.                       *)
SlotsAt(gen, e) == {s \in Slots : s[1] \in gen /\ EdgeAt(s) = e}
OwnSlots(i, e)  == {s \in SlotsOf(i) : EdgeAt(s) = e}
Entry(e)        == (\E s \in Slots : EdgeAt(s) = e) /\ ~ SelfEdge(e)

(* A path has as many slots at a transition as it takes the transition.    *)
LEMMA OwnSlotsCounted ==
  ASSUME TypeOK, NEW i \in Paths, NEW e
  PROVE  IsFiniteSet(OwnSlots(i, e)) /\ Cardinality(OwnSlots(i, e)) = Times(i, e)
<1> DEFINE K == {k \in 1 .. Len(paths[i].nodes) - 1 : EdgeAt(<<i, k>>) = e}
           f == [k \in K |-> <<i, k>>]
<1>1. IsFiniteSet(K)
  <2>1. Len(paths[i].nodes) - 1 \in Int
    BY PathsTyped
  <2>2. IsFiniteSet(1 .. Len(paths[i].nodes) - 1)
    BY <2>1, FS_Interval
  <2>3. QED
    BY <2>2, FS_Subset
<1>2. OwnSlots(i, e) = {<<i, k>> : k \in K}
  BY DEF OwnSlots, SlotsOf
<1> HIDE DEF K
<1>3. f \in Bijection(K, OwnSlots(i, e))
  <2>1. f \in [K -> OwnSlots(i, e)]
    BY <1>2
  <2>2. \A k, l \in K : f[k] = f[l] => k = l
    OBVIOUS
  <2>3. \A s \in OwnSlots(i, e) : \E k \in K : f[k] = s
    BY <1>2
  <2>4. f \in Injection(K, OwnSlots(i, e)) /\ f \in Surjection(K, OwnSlots(i, e))
    BY <2>1, <2>2, <2>3 DEF Injection, IsInjective, Surjection
  <2>5. QED
    BY <2>4 DEF Bijection
<1>4. ExistsBijection(K, OwnSlots(i, e))
  BY <1>3 DEF ExistsBijection
<1>5. IsFiniteSet(OwnSlots(i, e)) /\ Cardinality(OwnSlots(i, e)) = Cardinality(K)
  BY <1>1, <1>4, FS_Bijection
<1>6. QED
  BY <1>5 DEF Times, K

(* The slots of all paths are finitely many.                               *)
LEMMA SlotsFinite ==
  ASSUME TypeOK
  PROVE  IsFiniteSet(Slots)
<1> DEFINE Own == {SlotsOf(i) : i \in Paths}
           f   == [i \in Paths |-> SlotsOf(i)]
<1>1. IsFiniteSet(Paths)
  <2>1. Len(paths) \in Int
    BY PathsTyped
  <2>2. QED
    BY <2>1, FS_Interval DEF Paths
<1>2. f \in Surjection(Paths, Own)
  BY DEF Surjection
<1>3. IsFiniteSet(Own)
  <2> HIDE DEF f, Own
  <2>1. QED
    BY <1>1, <1>2, FS_Surjection
<1>4. \A T \in Own : IsFiniteSet(T)
  <2> SUFFICES ASSUME NEW i \in Paths PROVE IsFiniteSet(SlotsOf(i))
    OBVIOUS
  <2> DEFINE K == 1 .. Len(paths[i].nodes) - 1
             g == [k \in K |-> <<i, k>>]
  <2>1. IsFiniteSet(K)
    <3>1. Len(paths[i].nodes) - 1 \in Int
      BY PathsTyped
    <3>2. QED
      BY <3>1, FS_Interval
  <2>2. g \in Surjection(K, SlotsOf(i))
    BY DEF Surjection, SlotsOf
  <2> HIDE DEF K, g
  <2>3. QED
    BY <2>1, <2>2, FS_Surjection
<1>5. IsFiniteSet(UNION Own)
  <2> HIDE DEF Own
  <2>1. QED
    BY <1>3, <1>4, FS_UNION
<1>6. QED
  BY <1>5 DEF Slots

(* A path that becomes generated adds as many slots as it takes the        *)
(* transition.                                                             *)
LEMMA SlotsAdded ==
  ASSUME TypeOK, NEW i \in Paths, i \notin generated, NEW e
  PROVE  /\ Cardinality(SlotsAt(generated, e)) \in Nat
         /\ Cardinality(SlotsAt(generated \cup {i}, e))
              = Cardinality(SlotsAt(generated, e)) + Times(i, e)
<1>1. SlotsAt(generated \cup {i}, e) = SlotsAt(generated, e) \cup OwnSlots(i, e)
  <2>1. \A s \in Slots : s[1] = i <=> s \in SlotsOf(i)
    BY DEF Slots, SlotsOf
  <2>2. SlotsOf(i) \subseteq Slots
    BY DEF Slots
  <2>3. QED
    BY <2>1, <2>2 DEF SlotsAt, OwnSlots
<1>2. SlotsAt(generated, e) \cap OwnSlots(i, e) = {}
  BY DEF SlotsAt, OwnSlots, SlotsOf
<1>3. IsFiniteSet(SlotsAt(generated, e))
  BY SlotsFinite, FS_Subset DEF SlotsAt
<1>4. IsFiniteSet(OwnSlots(i, e)) /\ Cardinality(OwnSlots(i, e)) = Times(i, e)
  BY OwnSlotsCounted
<1>5. /\ Cardinality(SlotsAt(generated, e)) \in Nat /\ Times(i, e) \in Nat
  BY <1>3, <1>4, FS_CardinalityType
<1>6. Cardinality(SlotsAt(generated, e) \cup OwnSlots(i, e))
        = Cardinality(SlotsAt(generated, e)) + Cardinality(OwnSlots(i, e)) - Cardinality({})
  BY <1>2, <1>3, <1>4, FS_Union
<1>7. Cardinality({}) = 0
  BY FS_EmptySet
<1>8. Cardinality(SlotsAt(generated \cup {i}, e))
        = Cardinality(SlotsAt(generated, e)) + Times(i, e) - 0
  BY <1>1, <1>4, <1>6, <1>7, Zenon
<1>9. QED
  BY <1>5, <1>8

Weighs ==
  \A e \in Node \X Node :
    hmm[e] = IF Entry(e) THEN 1 + Cardinality(SlotsAt(generated, e)) ELSE 0
Copied == Refreshable => \A s \in Slots : weight[s] = hmm[EdgeAt(s)]

(* The exactness of the weights is that of the matrix and that of its      *)
(* copy.                                                                   *)
LEMMA HmmSplit == HmmExact <=> (pc \notin {"addConstraint", "start", "failed"} => Weighs /\ Copied)
BY DEF HmmExact, Weighs, Copied, Entry, SlotsAt

(* Steps that leave list, generated paths and weights alone keep them      *)
(* exact.                                                                  *)
LEMMA HmmFrame ==
  ASSUME TypeOK, Weighs, Copied, paths' = paths, generated' = generated, hmm' = hmm,
         weight' = weight
  PROVE  Weighs' /\ Copied'
<1>1. /\ \A e : Entry(e)' = Entry(e) /\ SlotsAt(generated, e)' = SlotsAt(generated, e)
      /\ Refreshable' = Refreshable
  BY SamePaths DEF Entry, SlotsAt, Refreshable, SelfEdge
<1>2. Weighs'
  BY <1>1 DEF Weighs
<1>3. Copied'
  BY <1>1, SamePaths DEF Copied
<1>4. QED
  BY <1>2, <1>3

(* The weights are exact when the loop starts.                             *)
LEMMA HmmStart ==
  ASSUME IInv, Shaped, Start
  PROVE  Weighs' /\ Copied'
<1>1. /\ paths' = paths /\ generated' = {} /\ weight' = [s \in Slots |-> 1]
      /\ \A e \in Node \X Node : hmm'[e] = IF Entry(e) THEN 1 ELSE 0
  BY DEF Start, Shaped, Untouched, Entry
<1>2. /\ \A e : Entry(e)' = Entry(e) /\ SlotsAt(generated, e)' = {}
      /\ Refreshable' = Refreshable
  BY <1>1, SamePaths DEF Entry, SlotsAt, Refreshable, SelfEdge
<1>3. Weighs'
  <2>1. Cardinality({}) = 0
    BY FS_EmptySet
  <2>2. QED
    BY <1>1, <1>2, <2>1 DEF Weighs
<1>4. Copied'
  <2> SUFFICES ASSUME Refreshable, NEW s \in Slots PROVE weight'[s] = hmm'[EdgeAt(s)]
    BY <1>2, SamePaths, <1>1 DEF Copied
  <2>1. EdgeAt(s) \in Node \X Node /\ Entry(EdgeAt(s))
    BY PathsTyped DEF IInv, Entry, Refreshable
  <2>2. QED
    BY <1>1, <2>1
<1>5. QED
  BY <1>3, <1>4

(* They stay exact when a path has been solved.                            *)
LEMMA HmmSolution ==
  ASSUME IInv, Weighs, Solution
  PROVE  Weighs' /\ Copied'
<1> DEFINE i == pathNumber
<1>1. /\ pc = "solve" /\ i \in constrained /\ Refreshable /\ paths' = paths
      /\ MarkPath(i) /\ RefreshWeights
  BY DEF Solution, Solvable
<1>2. i \in Paths /\ i \notin generated
  <2>1. i \in Paths
    BY <1>1 DEF IInv, TypeOK
  <2>2. i # 0
    BY <2>1, PathsTyped DEF Paths, IInv
  <2>3. QED
    BY <1>1, <2>1, <2>2 DEF IInv, TakenOk
<1>3. /\ \A e : Entry(e)' = Entry(e)
      /\ \A gen, e : SlotsAt(gen, e)' = SlotsAt(gen', e)
      /\ Refreshable' = Refreshable
  BY <1>1, SamePaths DEF Entry, SlotsAt, Refreshable, SelfEdge
<1>4. generated' = generated \cup {i}
  BY <1>1 DEF MarkPath
<1>5. Weighs'
  <2> SUFFICES ASSUME NEW e \in Node \X Node
               PROVE  hmm'[e] = IF Entry(e) THEN 1 + Cardinality(SlotsAt(generated', e)) ELSE 0
    BY <1>3, SamePaths, <1>1 DEF Weighs, SlotsAt
  <2>1. hmm'[e] = IF hmm[e] = 0 THEN 0 ELSE hmm[e] + Times(i, e)
    BY <1>1 DEF MarkPath
  <2>2. /\ Cardinality(SlotsAt(generated, e)) \in Nat /\ Times(i, e) \in Nat
        /\ Cardinality(SlotsAt(generated', e)) = Cardinality(SlotsAt(generated, e)) + Times(i, e)
    BY <1>2, <1>4, SlotsAdded, TimesType DEF IInv
  <2>3. CASE Entry(e)
    <3>1. hmm[e] = 1 + Cardinality(SlotsAt(generated, e))
      BY <2>3 DEF Weighs
    <3>2. QED
      BY <2>1, <2>2, <2>3, <3>1
  <2>4. CASE ~ Entry(e)
    BY <2>1, <2>4 DEF Weighs
  <2>5. QED
    BY <2>3, <2>4
<1>6. Copied'
  <2>1. \A s \in Slots : Refreshed(s)
    BY <1>1 DEF Refreshed, Refreshable
  <2>2. \A s \in Slots : weight'[s] = hmm'[EdgeAt(s)]
    BY <1>1, <2>1 DEF RefreshWeights
  <2>3. QED
    BY <1>1, <2>2, SamePaths DEF Copied
<1>7. QED
  BY <1>5, <1>6

(* Every step keeps the weights exact.                                     *)
LEMMA HmmStep == IInv /\ Shaped /\ HmmExact /\ [Next]_vars => HmmExact'
<1> SUFFICES ASSUME IInv, Shaped, HmmExact, [Next]_vars,
                    pc' \notin {"addConstraint", "start", "failed"}
             PROVE  Weighs' /\ Copied'
  BY HmmSplit DEF HmmExact, Weighs, Copied, Entry, SlotsAt
<1>1. CASE Start
  BY <1>1, HmmStart
<1>2. ASSUME pc \notin {"addConstraint", "start", "failed"}, paths' = paths,
             generated' = generated, hmm' = hmm, weight' = weight
      PROVE  Weighs' /\ Copied'
  BY <1>2, HmmSplit, HmmFrame DEF IInv
<1>3. CASE NoSolution
  BY <1>2, <1>3 DEF NoSolution, Solvable
<1>4. CASE Solution
  <2>1. Weighs
    BY <1>4, HmmSplit DEF Solution, Solvable
  <2>2. QED
    BY <1>4, <2>1, HmmSolution
<1>5. CASE CreateProbability
  BY <1>2, <1>5 DEF CreateProbability
<1>6. CASE Terminated \/ UNCHANGED vars
  BY <1>2, <1>6 DEF Terminated, vars
<1>7. ~ (AddConstraint \/ UpdateThrows \/ SolveThrows \/ ToolThrows)
  BY DEF AddConstraint, UpdateThrows, SolveThrows, ToolThrows
<1>8. QED
  BY <1>1, <1>3, <1>4, <1>5, <1>6, <1>7 DEF Next, Step

(* The weight of a transition is one more than the times the generated     *)
(* paths take it, and the weights of the edges are not stale.              *)
THEOREM Weights == Spec => []HmmExact
<1>1. Init => HmmExact
  BY DEF Init, HmmExact
<1>2. QED
  BY <1>1, HmmStep, Invariance, ShapedAlways, PTL DEF Spec


=============================================================================
