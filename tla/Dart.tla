-------------------------------- MODULE Dart --------------------------------
(***************************************************************************)
(* The directed automated random testing of                                *)
(* testdatagen.FastTestdataGeneration.DART, with the next test data found  *)
(* by generateTheNextTestdata and testdatagen.strategy.BFSSelection: run a *)
(* test data, mark the nodes it visits, take the constraints of the        *)
(* executed path, negate one, solve, run the answer; draw a test data at   *)
(* random when there is none to run.                                       *)
(***************************************************************************)
EXTENDS TestedFunction, FiniteSetsExt

CONSTANTS
  Functions,      \* the functions tested
  None,           \* no test data: null or "" in the code
  Depth,          \* DEPTH
  MaxIterations,  \* MAX_ITERATIONS_IN_ONE_DEPTH
  MaxSelection,   \* MAX_SELECTION_UPPER_BOUND of BFSSelection, 30 in the code
  MaxTries,       \* selections per generateTheNextTestdata, 31 in the code
  MayThrow        \* whether the solver or its parser may throw

ASSUME FunctionsAssumption == Functions \subseteq {g \in FunctionType : WellFormed(g)}
ASSUME BoundsAssumption ==
  /\ None \notin TestData
  /\ Depth \in Nat /\ MaxIterations \in Nat
  /\ MaxSelection \in Nat \ {0} /\ MaxTries \in Nat \ {0}
  /\ MayThrow \in BOOLEAN

VARIABLES
  f,            \* the function tested
  visited,      \* the nodes with isVisited
  executed,     \* history: the branches the executions have taken
  covered,      \* currentBranchCoverage is 100
  depth,
  iteration,    \* iteration_in_one_depth
  testdata,     \* the test data to run, None when one is to be drawn
  origin,       \* history: "random" or "solved", where testdata is from
  generated,    \* Optimization.generatedTestdata
  solved,       \* Optimization.solvedPathConstraints
  constraints,  \* the constraints of the path executed last
  query,        \* the negated constraints handed to the solver
  tries,        \* selections made for these constraints
  canNegate,    \* canNegateCondition
  pc

vars == <<f, visited, executed, covered, depth, iteration, testdata, origin, generated,
          solved, constraints, query, tries, canNegate, pc>>

loopVars   == <<depth, iteration>>
coverVars  == <<visited, executed, covered>>
searchVars == <<solved, constraints, query, tries, canNegate>>

-----------------------------------------------------------------------------
(* BFSSelection: from the first constraint on, the first decision whose    *)
(* negation has not been solved before and whose condition, as found at    *)
(* the same index of the negated constraints, has a branch not visited.    *)
Negation(i) == NegateAt(f, constraints, i)
IsDecision(i) == constraints[i].kind = "decision"

(* Mutants of Selectable: a condition with both branches visited is taken, *)
(* a negation solved before is taken again.                                *)
SelectableVisited(i) ==
  IsDecision(i) /\ Negation(i) \notin solved /\ Negation(i)[i].kind = "decision"

SelectableAgain(i) ==
  /\ IsDecision(i) /\ Negation(i)[i].kind = "decision"
  /\ UnvisitedBranch(f, visited, Negation(i)[i].cond)

Selectable(i) ==
  /\ IsDecision(i)
  /\ Negation(i) \notin solved
  /\ Negation(i)[i].kind = "decision"
  /\ UnvisitedBranch(f, visited, Negation(i)[i].cond)

Within   == {i \in 1 .. Len(constraints) : i <= MaxSelection}
Selected == IF \E i \in Within : Selectable(i)
            THEN Min({i \in Within : Selectable(i)}) ELSE 0

(* The constraints looked at, up to the one selected, are not looked at    *)
(* again: all of their negations count as solved.                          *)
LookedAt == IF Selected = 0 THEN Within ELSE 1 .. Selected

-----------------------------------------------------------------------------
Init ==
  /\ f \in Functions
  /\ visited = {} /\ executed = {} /\ covered = FALSE
  /\ depth = 0 /\ iteration = 0
  /\ testdata = None /\ origin = "random" /\ generated = {}
  /\ solved = {} /\ constraints = <<>> /\ query = <<>>
  /\ tries = 0 /\ canNegate = TRUE
  /\ pc = "depth"

(* The outer loop *)
EnterDepth ==
  /\ pc = "depth" /\ depth < Depth /\ ~ covered
  /\ iteration' = 0
  /\ pc' = "iterate"
  /\ UNCHANGED <<f, depth, testdata, origin, generated, coverVars, searchVars>>

LeaveDepth ==
  /\ pc = "iterate"
  /\ iteration >= MaxIterations \/ covered
  /\ depth' = depth + 1
  /\ pc' = "depth"
  /\ UNCHANGED <<f, iteration, testdata, origin, generated, coverVars, searchVars>>

Finish ==
  /\ pc = "depth"
  /\ depth >= Depth \/ covered
  /\ pc' = "done"
  /\ UNCHANGED <<f, loopVars, testdata, origin, generated, coverVars, searchVars>>

(* Mutant of Iterate: no iteration is counted for a test data that is run  *)
(* again.                                                                  *)
IterateUncounted ==
  /\ pc = "iterate" /\ iteration < MaxIterations /\ ~ covered
  /\ IF testdata = None THEN /\ testdata' \in TestData /\ origin' = "random"
                             /\ iteration' = iteration + 1
                        ELSE UNCHANGED <<testdata, origin, iteration>>
  /\ generated' = generated \cup {testdata'}
  /\ pc' = "execute"
  /\ UNCHANGED <<f, depth, coverVars, searchVars>>

(* Step 1: a test data drawn at random unless there is one to run *)
Iterate ==
  /\ pc = "iterate" /\ iteration < MaxIterations /\ ~ covered
  /\ iteration' = iteration + 1
  /\ IF testdata = None THEN testdata' \in TestData /\ origin' = "random"
                        ELSE UNCHANGED <<testdata, origin>>
  /\ generated' = generated \cup {testdata'}
  /\ pc' = "execute"
  /\ UNCHANGED <<f, depth, coverVars, searchVars>>

(* Step 2, executeTestdata returns null: the test data stays as it is *)
ExecuteNothing ==
  /\ pc = "execute" /\ Fails(f, testdata)
  /\ pc' = "iterate"
  /\ UNCHANGED <<f, loopVars, testdata, origin, generated, coverVars, searchVars>>

Mark ==
  /\ visited'  = visited \cup MarkedNodes(f, testdata)
  /\ executed' = executed \cup BranchesTaken(f, testdata)
  /\ covered'  = FullyCovered(f, visited')

(* Step 2, with marks: an incomplete test path is a bug found *)
ExecuteIncomplete ==
  /\ pc = "execute" /\ Succeeds(f, testdata) /\ ~ Complete(f, testdata)
  /\ Mark
  /\ testdata' = None
  /\ pc' = "iterate"
  /\ UNCHANGED <<f, loopVars, origin, generated, searchVars>>

(* Steps 2 and 3: the constraints of a complete test path are to be        *)
(* negated, unless everything is covered now.                              *)
ExecuteComplete ==
  /\ pc = "execute" /\ Succeeds(f, testdata) /\ Complete(f, testdata)
  /\ Mark
  /\ IF covered' THEN pc' = "iterate" /\ UNCHANGED <<constraints, tries, canNegate>>
     ELSE /\ constraints' = PathConstraints(f, f.marks[testdata])
          /\ tries' = 0 /\ canNegate' = TRUE
          /\ pc' = "select"
  /\ UNCHANGED <<f, loopVars, testdata, origin, generated, solved, query>>

(* Step 4, generateTheNextTestdata: the loop goes on *)
Searching == pc = "select" /\ canNegate /\ constraints # <<>> /\ tries < MaxTries

(* Mutant of Select: the flag that everything is negated is taken the      *)
(* wrong way round.                                                        *)
SelectInverted ==
  /\ Searching /\ Selected # 0
  /\ solved' = solved \cup {Negation(i) : i \in {i \in LookedAt : IsDecision(i)}}
  /\ query' = Negation(Selected)
  /\ canNegate' = (LookedAt = 1 .. Len(constraints))
  /\ tries' = tries + 1
  /\ pc' = "solve"
  /\ UNCHANGED <<f, loopVars, testdata, origin, generated, coverVars, constraints>>

Select ==
  /\ Searching /\ Selected # 0
  /\ solved' = solved \cup {Negation(i) : i \in {i \in LookedAt : IsDecision(i)}}
  /\ query' = Negation(Selected)
  /\ canNegate' = (LookedAt # 1 .. Len(constraints))
  /\ tries' = tries + 1
  /\ pc' = "solve"
  /\ UNCHANGED <<f, loopVars, testdata, origin, generated, coverVars, constraints>>

(* Nothing can be negated: the next test data is drawn at random *)
SelectNothing ==
  /\ Searching /\ Selected = 0
  /\ solved' = solved \cup {Negation(i) : i \in {i \in LookedAt : IsDecision(i)}}
  /\ canNegate' = FALSE
  /\ tries' = tries + 1
  /\ testdata' \in TestData /\ origin' = "random"
  /\ generated' = generated \cup {testdata'}
  /\ pc' = "iterate"
  /\ UNCHANGED <<f, loopVars, coverVars, constraints, query>>

(* The loop has ended without a solution *)
GiveUp ==
  /\ pc = "select" /\ ~ Searching
  /\ testdata' = None
  /\ pc' = "iterate"
  /\ UNCHANGED <<f, loopVars, origin, generated, coverVars, searchVars>>

SolveNew ==
  /\ pc = "solve"
  /\ testdata' \in Solutions(f, query) \ generated
  /\ origin' = "solved"
  /\ generated' = generated \cup {testdata'}
  /\ pc' = "iterate"
  /\ UNCHANGED <<f, loopVars, coverVars, searchVars>>

(* The solution is one generated before, or there is none, or it is not    *)
(* found.                                                                  *)
SolveDuplicate ==
  /\ pc = "solve" /\ Solutions(f, query) \cap generated # {}
  /\ pc' = "select"
  /\ UNCHANGED <<f, loopVars, testdata, origin, generated, coverVars, searchVars>>

NoSolution ==
  /\ pc = "solve" /\ MayHaveNone(f, query)
  /\ pc' = "select"
  /\ UNCHANGED <<f, loopVars, testdata, origin, generated, coverVars, searchVars>>

SolveThrows ==
  /\ MayThrow /\ pc = "solve"
  /\ pc' = "failed"
  /\ UNCHANGED <<f, loopVars, testdata, origin, generated, coverVars, searchVars>>

Terminated == pc \in {"done", "failed"} /\ UNCHANGED vars

Execute  == ExecuteNothing \/ ExecuteIncomplete \/ ExecuteComplete
NextData == Select \/ SelectNothing \/ GiveUp \/ SolveNew \/ SolveDuplicate
            \/ NoSolution \/ SolveThrows

Step == EnterDepth \/ LeaveDepth \/ Finish \/ Iterate \/ Execute \/ NextData

Next == Step \/ Terminated

Spec     == Init /\ [][Next]_vars
FairSpec == Spec /\ WF_vars(Step)

-----------------------------------------------------------------------------
TypeOK ==
  /\ f \in Functions
  /\ visited \subseteq Node /\ executed \subseteq f.cond \X BOOLEAN
  /\ covered \in BOOLEAN /\ canNegate \in BOOLEAN
  /\ depth \in 0 .. Depth /\ iteration \in 0 .. MaxIterations
  /\ testdata \in TestData \cup {None} /\ origin \in {"random", "solved"}
  /\ generated \subseteq TestData
  /\ tries \in 0 .. MaxTries
  /\ pc \in {"depth", "iterate", "execute", "select", "solve", "done", "failed"}

(* The decision a query negates comes last in it. *)
Target == LET q == Asked(query) IN q[Len(q)]

(* No list of constraints is given to the solver twice in one generation,  *)
(* whichever test data it is found on (BFSSelection's "Duplicate path      *)
(* constraints").                                                          *)
FreshQuery == [][pc = "select" /\ pc' = "solve" => query' \notin solved]_vars

(* What the solver is asked for leads to a branch not visited yet: the     *)
(* executed path has marked the other branch of the condition, although    *)
(* BFSSelection only checks that one of the two is not visited.            *)
QueryUnvisited ==
  pc = "solve" => ~ BranchVisited(f, visited, Target[1], Target[2])

QueryWorthwhile == f.indexed = {} => QueryUnvisited

(* A test data that comes from the solver and runs to the end visits a new *)
(* node, also when it had to be run again after an execution without       *)
(* marks: no iteration of DART is wasted on it.                            *)
SolvedDataCovers ==
  [][f.exact /\ f.indexed = {} /\ origin = "solved" /\ ExecuteComplete
       => visited' # visited]_vars

(* generateTheNextTestdata goes back to random test data only when it has  *)
(* used up its tries or negated every decision BFSSelection looks at.      *)
GivesUpWhenExhausted ==
  [][SelectNothing \/ GiveUp =>
       \/ tries' = MaxTries
       \/ \A i \in Within : IsDecision(i) => Negation(i) \in solved']_vars

(* The branch coverage is that of the branches executed, as long as no     *)
(* branch leads to a node that can be reached past it or to a scope.       *)
Exclusive(c, b) ==
  LET n == IF b THEN f.true[c] ELSE f.false[c] IN
    n \notin f.scopes /\ \A t \in TestData : \A i \in 1 .. Len(f.marks[t]) :
      f.marks[t][i] = n =>
        i > 1 /\ f.marks[t][i - 1] = c /\ f.true[c] # f.false[c]

CoverageTruthful ==
  \A c \in f.cond, b \in BOOLEAN :
    Exclusive(c, b) => (<<c, b>> \in VisitedBranches(f, visited) <=> <<c, b>> \in executed)

(* DART comes to an end.  If every path takes all the conditions and each  *)
(* of its negations has a solution, then one iteration per condition after *)
(* the first one covers all the branches, whatever is drawn at random.     *)
Sequential ==
  /\ f.exact /\ f.indexed = {} /\ f.dead = {} /\ f.flaky = {}
  /\ \A t \in TestData :
       LET cs == PathConstraints(f, f.marks[t]) IN
         /\ Complete(f, t)
         /\ {cs[i].cond : i \in 1 .. Len(cs)} = f.cond
         /\ Len(cs) <= MaxSelection
         /\ \A i \in 1 .. Len(cs) : Solutions(f, NegateAt(f, cs, i)) # {}

DartEnds ==
  /\ <>(pc \in {"done", "failed"})
  /\ Sequential /\ Depth * MaxIterations > Cardinality(f.cond)
       => <>(pc = "failed" \/ (pc = "done" /\ covered))

=============================================================================
