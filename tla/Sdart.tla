------------------------------- MODULE Sdart -------------------------------
(***************************************************************************)
(* The generation of test data by testdatagen.FastTestdataGeneration.      *)
(* SDART_new with compute_coverage: test data are drawn at random until    *)
(* the coverage has not grown a number of times, then the test paths of    *)
(* the graph that lead to a branch not visited are solved, one by one, as  *)
(* CFG.getPartialTestpathcontainingUnCoveredBranches_Strategy1 finds them. *)
(* Only test data not run before are run.                                  *)
(*                                                                         *)
(* A call of compute_coverage is one step with the draw or the solution    *)
(* that leads to it: nothing runs beside it.                               *)
(***************************************************************************)
EXTENDS TestedFunction, FiniteSetsExt

CONSTANTS
  Functions,   \* the functions tested
  Iterations,  \* DEPTH * MAX_ITERATIONS_IN_ONE_DEPTH
  Threshold,   \* THRESHOLD_RANDOM_TESTDATA
  CountCap     \* bound of this model on notIncreasingCoverageCount

ASSUME FunctionsAssumption == Functions \subseteq {g \in FunctionType : WellFormed(g)}
ASSUME BoundsAssumption ==
  /\ Iterations \in Nat /\ Threshold \in Nat \ {0}
  /\ CountCap \in Nat /\ CountCap > Threshold

VARIABLES
  f,                    \* the function tested
  visited,              \* the nodes with isVisited
  covered,              \* currentBranchCoverage is 100
  increased,            \* the coverage of the execution before is exceeded
  iteration,            \* iteration_in_one_depth
  notIncreasing,        \* notIncreasingCoverageCount
  uncoveredTestpath,    \* uncoveredTestpaths.get(0), <<>> when the list is empty
  existingTestdata,
  existingConstraints,
  pc                    \* the loop that is running, "done" after the last

vars == <<f, visited, covered, increased, iteration, notIncreasing, uncoveredTestpath,
          existingTestdata, existingConstraints, pc>>

-----------------------------------------------------------------------------
(* Mutant of OpenAt: only the false branches are looked at. *)
OpenAtFalse(g, seen, path) ==
  {i \in 1 .. Len(path) : path[i] \in g.cond /\ ~ BranchVisited(g, seen, path[i], FALSE)}

(* Strategy 1: the first condition of a path with a branch not visited,    *)
(* its false branch before its true branch, ends the partial path.         *)
OpenAt(g, seen, path) ==
  {i \in 1 .. Len(path) : path[i] \in g.cond /\ UnvisitedBranch(g, seen, path[i])}

(* Mutant of PartialPath: the branch that has been visited ends it. *)
PartialPathVisited(g, seen, path) ==
  LET i == Min(OpenAt(g, seen, path))
      c == path[i]
  IN SubSeq(path, 1, i) \o <<IF BranchVisited(g, seen, c, FALSE) THEN g.false[c] ELSE g.true[c]>>

PartialPath(g, seen, path) ==
  LET i == Min(OpenAt(g, seen, path))
      c == path[i]
  IN SubSeq(path, 1, i) \o <<IF BranchVisited(g, seen, c, FALSE) THEN g.true[c] ELSE g.false[c]>>

Open(g, seen) == {k \in 1 .. Len(g.testpaths) : OpenAt(g, seen, g.testpaths[k]) # {}}

FirstUncovered(g, seen) ==
  IF Open(g, seen) = {} THEN <<>> ELSE PartialPath(g, seen, g.testpaths[Min(Open(g, seen))])

(* Symbolic execution of the first uncovered test path *)
Wanted == PathConstraints(f, uncoveredTestpath)

(* compute_coverage *)
ComputeCoverage(t) ==
  IF t \in existingTestdata
  THEN UNCHANGED <<visited, covered, increased, existingTestdata>>
  ELSE /\ existingTestdata' = existingTestdata \cup {t}
       /\ \/ Fails(f, t) /\ increased' = FALSE /\ UNCHANGED <<visited, covered>>
          \/ /\ Succeeds(f, t)
             /\ visited' = visited \cup MarkedNodes(f, t)
             /\ covered' = FullyCovered(f, visited')
             /\ increased' = (visited' # visited)

-----------------------------------------------------------------------------
Init ==
  /\ f \in Functions
  /\ visited = {} /\ covered = FALSE /\ increased = FALSE
  /\ iteration = 0 /\ notIncreasing = 0
  /\ uncoveredTestpath = <<>>
  /\ existingTestdata = {} /\ existingConstraints = {}
  /\ pc = "outer"

Draw(t) ==
  /\ pc = "outer" /\ iteration < Iterations /\ ~ covered
  /\ ComputeCoverage(t)
  /\ pc' = "random"
  /\ UNCHANGED <<f, iteration, notIncreasing, uncoveredTestpath, existingConstraints>>

Finish ==
  /\ pc = "outer"
  /\ iteration >= Iterations \/ covered
  /\ pc' = "done"
  /\ UNCHANGED <<f, visited, covered, increased, iteration, notIncreasing,
                 uncoveredTestpath, existingTestdata, existingConstraints>>

(* The random loop counts the executions that did not increase the         *)
(* coverage, and stops when there are exactly as many as the threshold.    *)
Count == IF increased THEN 0
         ELSE IF notIncreasing = CountCap THEN CountCap ELSE notIncreasing + 1

DrawAgain(t) ==
  /\ pc = "random" /\ ~ covered
  /\ notIncreasing' = Count /\ Count # Threshold
  /\ ComputeCoverage(t)
  /\ UNCHANGED <<f, iteration, uncoveredTestpath, existingConstraints, pc>>

LeaveRandom ==
  /\ pc = "random"
  /\ \/ covered /\ UNCHANGED notIncreasing
     \/ ~ covered /\ notIncreasing' = Count /\ Count = Threshold
  /\ uncoveredTestpath' = FirstUncovered(f, visited)
  /\ pc' = "directed"
  /\ UNCHANGED <<f, visited, covered, increased, iteration, existingTestdata,
                 existingConstraints>>

(* The directed loop solves the first uncovered test path, runs what it    *)
(* finds and collects the uncovered test paths again.                      *)
Directing == pc = "directed" /\ uncoveredTestpath # <<>>

SolveNew(t) ==
  /\ Directing /\ Wanted \notin existingConstraints
  /\ t \in Solutions(f, Wanted)
  /\ existingConstraints' = existingConstraints \cup {Wanted}
  /\ ComputeCoverage(t)
  /\ uncoveredTestpath' = FirstUncovered(f, visited')
  /\ UNCHANGED <<f, iteration, notIncreasing, pc>>

SolveNothing ==
  /\ Directing /\ Wanted \notin existingConstraints
  /\ MayHaveNone(f, Wanted)
  /\ existingConstraints' = existingConstraints \cup {Wanted}
  /\ uncoveredTestpath' = FirstUncovered(f, visited)
  /\ UNCHANGED <<f, visited, covered, increased, iteration, notIncreasing,
                 existingTestdata, pc>>

(* The constraints are known, and nothing is run. *)
SolveKnown ==
  /\ Directing /\ Wanted \in existingConstraints
  /\ uncoveredTestpath' = FirstUncovered(f, visited)
  /\ UNCHANGED <<f, visited, covered, increased, iteration, notIncreasing,
                 existingTestdata, existingConstraints, pc>>

LeaveDirected ==
  /\ pc = "directed" /\ uncoveredTestpath = <<>>
  /\ iteration' = iteration + 1
  /\ pc' = "outer"
  /\ UNCHANGED <<f, visited, covered, increased, notIncreasing, uncoveredTestpath,
                 existingTestdata, existingConstraints>>

Terminated == pc = "done" /\ UNCHANGED vars

RandomStep(t) == Draw(t) \/ DrawAgain(t)
OtherStep ==
  \/ Finish \/ LeaveRandom \/ SolveNothing \/ SolveKnown \/ LeaveDirected
  \/ \E t \in TestData : SolveNew(t)

Next == (\E t \in TestData : RandomStep(t)) \/ OtherStep \/ Terminated

Spec == Init /\ [][Next]_vars

(* The loops keep running, and the generator of random numbers draws every *)
(* test data again and again.                                              *)
FairSpec ==
  /\ Spec
  /\ WF_vars(OtherStep)
  /\ \A t \in TestData : SF_vars(RandomStep(t))

-----------------------------------------------------------------------------
TypeOK ==
  /\ f \in Functions
  /\ visited \subseteq Node
  /\ covered \in BOOLEAN /\ increased \in BOOLEAN
  /\ iteration \in 0 .. Iterations
  /\ notIncreasing \in 0 .. CountCap
  /\ existingTestdata \subseteq TestData
  /\ pc \in {"outer", "random", "directed", "done"}

(* No execution is lost and none goes wrong on the way. *)
Reliable == f.exact /\ f.dead = {} /\ f.flaky = {} /\ \A t \in TestData : Complete(f, t)

(* A test data that solves an uncovered test path visits a new node: it is *)
(* never one that has been run before, so that it would be passed over.    *)
DirectedDataCovers ==
  [][Reliable /\ (\E t \in TestData : SolveNew(t)) => visited' # visited]_vars

(* The directed loop meets constraints again only if they have no          *)
(* solution, whatever has been run in between.                             *)
KnownOnlyIfInfeasible ==
  Reliable /\ Directing /\ Wanted \in existingConstraints => Solutions(f, Wanted) = {}

(* The directed loop runs until the coverage is complete: the coverage,    *)
(* which asks for visited conditions, and Strategy 1, which asks for       *)
(* visited branches on the test paths, agree, for a function whose         *)
(* conditions lie on its test paths and have a branch whose node is only   *)
(* marked by executions that come by that condition.                       *)
OnTestpaths == \A c \in f.cond : \E k \in 1 .. Len(f.testpaths) :
                 \E i \in 1 .. Len(f.testpaths[k]) : f.testpaths[k][i] = c

OwnBranches == \A c \in f.cond : \E n \in Successors(f, c) : \A t \in TestData :
                 n \in MarkedNodes(f, t) => c \in Range(f.marks[t])

DirectedUntilCovered ==
  pc = "directed" /\ visited # {} /\ OnTestpaths /\ OwnBranches =>
    (covered <=> uncoveredTestpath = <<>>)

(* A function each of whose test paths has a solution, up to any of its    *)
(* branches, is covered in the end.                                        *)
Feasible ==
  /\ OnTestpaths /\ OwnBranches /\ Reliable /\ Iterations > 0
  /\ \A k \in 1 .. Len(f.testpaths) : \A i \in 1 .. Len(f.testpaths[k]) :
       LET path == f.testpaths[k] IN
         path[i] \in f.cond =>
           \A n \in {f.true[path[i]], f.false[path[i]]} :
             Solutions(f, PathConstraints(f, SubSeq(path, 1, i) \o <<n>>)) # {}

FeasibleCovered == Feasible => <>(pc = "done" /\ covered)

-----------------------------------------------------------------------------
(* The comments in SDART_new: "Get a new uncovered test path" and "No      *)
(* solution. Seek another unvisited test path.": after a path without      *)
(* solution another one is tried.                                          *)
SeeksAnother ==
  (Directing /\ Wanted \in existingConstraints)
    ~> ~ (Directing /\ Wanted \in existingConstraints)

(* The comment in SDART_new: "If code coverage is not changed in N test    *)
(* data execution times, perform static testing".                          *)
StaticTestingFollows == (pc = "random") ~> (pc = "directed")

=============================================================================
