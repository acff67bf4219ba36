--------------------------- MODULE TestedFunction ---------------------------
(***************************************************************************)
(* What the dynamic generators know of the function they test: its control *)
(* flow graph with the visited flags of the nodes (cfg.CFG and             *)
(* cfg.object.ConditionCfgNode), the nodes an execution of a test data     *)
(* marks (testdatagen.coverage.CFGUpdater_Mark), and the constraints that  *)
(* symbolic execution finds on a path, with their negation                 *)
(* (testdatagen.se.PathConstraints).                                       *)
(***************************************************************************)
EXTENDS Integers, Sequences, SequencesExt, FiniteSets

CONSTANTS
  Node,      \* the nodes of the graphs
  End,       \* EndFlagCfgNode: mapped by no mark of a test path
  TestData   \* the texts of test data, e.g. "a=1;b=2;"

(* A function: its conditions, the successors of its nodes, the nodes      *)
(* mapped by the marks of an execution under each test data (cut short by  *)
(* a crash, empty when nothing can be mapped), the opening scopes of       *)
(* blocks, the conditions on an array item whose index is no literal, the  *)
(* test data whose executions leave no marks at all, always or only        *)
(* sometimes, whether a solution of path constraints is bound to take that *)
(* path, and the test paths that PossibleTestpathGeneration finds when     *)
(* each loop is taken at most once.                                        *)
FunctionType ==
  [cond : SUBSET Node, true : [Node -> Node], false : [Node -> Node],
   marks : [TestData -> Seq(Node)], scopes : SUBSET Node, indexed : SUBSET Node,
   dead : SUBSET TestData, flaky : SUBSET TestData, exact : BOOLEAN,
   testpaths : Seq(Seq(Node))]

ASSUME EndAssumption == End \in Node

WellFormed(f) ==
  /\ f.indexed \subseteq f.cond
  /\ \A c \in f.cond : f.true[c] # End /\ f.false[c] # End
  /\ \A t \in TestData :
       /\ \A i \in 1 .. Len(f.marks[t]) : f.marks[t][i] # End
       /\ \A i \in 1 .. Len(f.marks[t]) - 1 :
            f.marks[t][i + 1] \in {f.true[f.marks[t][i]], f.false[f.marks[t][i]]}

-----------------------------------------------------------------------------
(* Mutant of BranchVisited: the flag of the condition itself is read. *)
ConditionVisited(f, visited, c, taken) == c \in visited

(* The visited state of a branch is that of the node it leads to.          *)
BranchVisited(f, visited, c, taken) == (IF taken THEN f.true[c] ELSE f.false[c]) \in visited

UnvisitedBranch(f, visited, c) == \E b \in BOOLEAN : ~ BranchVisited(f, visited, c, b)

(* CFG.getVisitedBranches *)
VisitedBranches(f, visited) ==
  {e \in f.cond \X BOOLEAN : e[1] \in visited /\ BranchVisited(f, visited, e[1], e[2])}

(* computeBranchCoverage is 1.0, also for a function without conditions.   *)
FullyCovered(f, visited) == VisitedBranches(f, visited) = f.cond \X BOOLEAN

(* CFGUpdater_Mark.isCompleteTestpath *)
Complete(f, t) ==
  f.marks[t] # <<>> /\ End \in {f.true[Last(f.marks[t])], f.false[Last(f.marks[t])]}

Successors(f, n) == {f.true[n], f.false[n]}

(* The nodes that get a visited flag: those executed, and the scopes that  *)
(* might have been entered in place of one (ExecutionMapping!TwinsVisited).*)
MarkedNodes(f, t) ==
  LET walk == f.marks[t]
      Entered == {i \in 1 .. Len(walk) - 1 : walk[i + 1] \in f.scopes}
  IN Range(walk) \cup UNION {Successors(f, walk[i]) \cap f.scopes : i \in Entered}

(* The branches an execution really takes *)
BranchesTaken(f, t) ==
  {e \in f.cond \X BOOLEAN :
     \E i \in 1 .. Len(f.marks[t]) - 1 :
       /\ f.marks[t][i] = e[1]
       /\ f.marks[t][i + 1] = IF e[2] THEN f.true[e[1]] ELSE f.false[e[1]]}

(* executeTestdata runs a test data until it leaves marks, at most         *)
(* MaxExecutions times, and then also drops what the last run has left.    *)
MaxExecutions == 4

RunsNeeded(f, t) ==
  IF t \in f.dead THEN {MaxExecutions + 1}
  ELSE IF t \in f.flaky THEN 1 .. MaxExecutions + 1 ELSE {1}

Fails(f, t)    == \E n \in RunsNeeded(f, t) : n >= MaxExecutions
Succeeds(f, t) == \E n \in RunsNeeded(f, t) : n < MaxExecutions

-----------------------------------------------------------------------------
(* A constraint that a decision adds, or that an array index adds.  What a *)
(* constraint reads as is its condition, the branch taken and the "!(...)" *)
(* around it, so equal text is equality of these.                          *)
Constraint(kind, c, taken, negated) ==
  [kind |-> kind, cond |-> c, taken |-> taken, negated |-> negated]

(* PathConstraints.add with ArrayIndexExpander: the constraint on an array *)
(* index comes before the constraint that has the array item in it.        *)
Expanded(f, c) ==
  IF c.kind = "decision" /\ c.cond \in f.indexed
  THEN <<Constraint("additional", c.cond, FALSE, FALSE), c>> ELSE <<c>>

AddAll(f, cs) == FlattenSeq([i \in 1 .. Len(cs) |-> Expanded(f, cs[i])])

(* The numbers of a finite set in ascending order *)
InOrder(S) ==
  [k \in 1 .. Cardinality(S) |-> CHOOSE i \in S : Cardinality({j \in S : j < i}) = k - 1]

(* The decisions along a path of the graph, read off as nextIsTrueBranch   *)
(* does: the condition at its very end counts as not taken.                *)
Decision(f, path, i) ==
  Constraint("decision", path[i], i < Len(path) /\ path[i + 1] = f.true[path[i]], FALSE)

Decisions(f, path) ==
  LET at == InOrder({i \in 1 .. Len(path) : path[i] \in f.cond})
  IN [k \in 1 .. Len(at) |-> Decision(f, path, at[k])]

(* SymbolicExecution, for a path it supports throughout *)
PathConstraints(f, path) == AddAll(f, Decisions(f, path))

(* negateConditionAt: everything before is added anew, so constraints on   *)
(* array indices appear again and move what comes after them.              *)
NegateAt(f, cs, i) ==
  AddAll(f, SubSeq(cs, 1, i - 1) \o <<[cs[i] EXCEPT !.negated = ~ @]>>)

(* The decisions a list of constraints asks for, and the test data the     *)
(* solver may answer with: after a crash a test data could have decided    *)
(* anything.                                                               *)
Asked(cs) ==
  LET at == InOrder({i \in 1 .. Len(cs) : cs[i].kind = "decision"})
      Answer(c) == <<c.cond, c.taken # c.negated>>
  IN [k \in 1 .. Len(at) |-> Answer(cs[at[k]])]

Satisfies(f, t, cs) ==
  IF Complete(f, t)
  THEN IsPrefix(Asked(cs), Asked(Decisions(f, f.marks[t])))
  ELSE LET made == Asked(Decisions(f, f.marks[t])) IN
         \A i \in 1 .. Len(made) - 1 : i <= Len(Asked(cs)) => made[i] = Asked(cs)[i]

Solutions(f, cs) == IF f.exact THEN {t \in TestData : Satisfies(f, t, cs)} ELSE TestData

MayHaveNone(f, cs) == f.exact => \A t \in Solutions(f, cs) : ~ Complete(f, t)

=============================================================================
