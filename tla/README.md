# A verification development for PMC (CFT4CPP)

PMC generates unit tests for C and C++ functions. It parses a project, builds
the control flow graph (CFG) of a function, enumerates test paths or executes
the instrumented function, turns paths into constraints by symbolic execution,
and asks Z3 for test data that take a path not covered yet. This directory
holds TLA+ models of the parts in which that can go wrong over several steps,
their TLC runs, and theorems about them checked by TLAPS. Paths in this text
are relative to `src/src/` unless they begin with `src/`.

Every definition that stands for code is listed with its lines in
`PROJECT.json` under `map`. An operator called a mutant in its comment is a
plausible bug of the definition below it; no specification uses it.

## The system

| Component | State it keeps | Operations | What makes it correct |
|---|---|---|---|
| CFG construction (`cfg/CFGGenerationfor*.java`) | nodes with true and false successors | one visit per statement kind, then removal of forward nodes | the paths of the graph are the executions of the function |
| Path enumeration (`cfg/testpath/PossibleTestpathGeneration.java`), with solving (`HybridAutoTestGen/CFT4CPP.java`) | one shared path, the list of clones, the recursion | `generateTestpaths`, `traverseCFG`, `solveTestpath` | exactly the paths within the loop bound, each once; terminates; a failure loses no path found before |
| Static generation (`HybridAutoTestGen/WeightedCFGTestGEn.java`, `Graph`, `ProbTestPath`, `Edge`, `HMM/`) | flags of paths, nodes and edges, HMM weights | `run`: take a path, solve it, mark, reweigh, publish | marks agree with what was solved; no path dropped or repeated |
| DART (`testdatagen/FastTestdataGeneration.java`, `strategy/BFSSelection.java`) | test data, visited flags, solved negations, counters | draw, execute, mark, constrain, negate, solve | never asks the same twice, asks for something new, ends |
| SDART (same file) | the same, and known test data and constraints | random loop, directed loop over uncovered paths | directed data make progress, both loops end |
| Mapping of executions (`testdatagen/coverage/CFGUpdater_Mark.java`) | visited nodes and branches, points of recursion | `updateVisitedNodes`, `traverseGraph` | the executed walk is found and nothing else is marked |
| Child processes (`testdatagen/se/solver/RunZ3OnCMD.java`, `compiler/Terminal.java`, `cia/api/CppEnvironmentParser.java`) | a process and its two pipes | start, read, wait, destroy | all output is read, and the caller comes back |
| Cloning with instrumentation (`project_init/ProjectClone.java`) | a map from old to new function text | tasks in a pool of 5 threads | every function is replaced, whatever the interleaving |
| Symbolic execution, solver input and output (`testdatagen/se`) | variable table, scope level, constraints | per statement | the constraints hold for exactly the inputs that take the path |
| Normalizers, instrumentation, parser, tree, dependency | syntax trees and texts | rewriting | behaviour is preserved |
| Change impact (`cia`, `cia_new`), pairwise, GUI, console, reports | their own | front ends | see `PROJECT.json` |

The generators call the enumeration, symbolic execution and the solver
sequentially; they share the CFG, whose visited flags they read and write. The
only threads are those of `ProjectClone`, `Terminal`, the progress task of the
GUI; `ThreadManager` has no callers. Child processes run beside the generator. What is hard
here is therefore less the interleaving of threads than long sequences of
iterations over state that outlives each of them (solved negations, known test
data, counters, flags), searches with backtracking on shared lists, retries of
executions that fail, exceptions in the middle of a campaign, and loops whose
end depends on progress. The list under `hazards` in `PROJECT.json` names them
with their lines.

## Modules

`TestpathGeneration` keeps the recursion of `traverseCFG` as a stack: `calls[i]`
holds the calls activation `i` has yet to make, `tp` is the shared path.
`Start`, `EmitPath`, `Descend`, `Return` and `Publish` are the calls and
returns; `Overflow` is the StackOverflowError, which `generateTestpaths` does
not catch. With `MayThrow` the traversal is that of `CFT4CPP`, which solves
each path at the end node: `SolveThrows` is an exception there, which ends all
activations and is caught by `generateTestpaths`. `IsTestpath` says what a test
path is without the traversal.

`CfgGeneration` makes the graph of a function from its syntax tree. The nested
calls of `visitStatement` are an agenda, a stack of the calls still to be made;
each carries the node it starts from, the node it leads to and where a break, a
continue and a throw in it lead, as the parameters in the code do. There is one
action for each kind of statement. The phase `link` is `linkStatement`, the
depth-first walk that removes the nodes that only forward; `failed` is the
exception for a `for` that would forward in a circle.

`StructuredExecution` executes the same syntax trees by the rules of C, as a
stack of frames that knows nothing of the graph. It is the independent
reference for the two modules around it.

`SymbolicExecution` EXTENDS both. It walks a path of the graph node by node
(`PassFlag`, `Execute`, `Decide`) and takes the step of the execution with it,
keeps the table of variables, the scope level and the constraints as
`symbolicTestpath` does, and has the constraints solved at the end (`Solve`, for
`solveTestpath`). Beside them it keeps what they are compared with: the
variables by the rules of C (`env`) and the inputs that go through the nodes of
the path (`live`).

`WeightedPathGen` is `WeightedCFGTestGEn.run` after the paths have been
enumerated. A path is its printed text and its nodes after the flag and scope
nodes have been filtered. Each path has its own edges, as in the code. The
solver's answer, and whether it throws, are nondeterministic. `PathCampaign` is
what the campaign promises; `WeightedPathGen` implements it with the number of
finished attempts as refinement mapping.

`TestedFunction` holds what both dynamic generators know about the function
they test: its graph, the nodes marked by an execution under each test data,
the constraints of a path with their negation, and the answers the solver may
give. `Dart` is the loop of `DART` with `generateTheNextTestdata` and
`BFSSelection`; `Sdart` is `SDART_new` with `compute_coverage` and Strategy 1 of
`CFG`. In both, one action is one pass through a branch of the code up to the
next loop condition.

`ExecutionMapping` has two halves: the instrumented function prints a mark per
statement, condition and block (`Run`, `ReturnFromCall`, `Stop`), then
`traverseGraph` looks for the nodes that match. `activations` is the Java
stack: an activation that a single node with one successor matches goes on in
its loop (`MatchOne`), two successors cost a call (`MatchCall`), several
matching nodes a call each (`MatchSeveral`, `Fork`). The list of statements is
one variable because all calls share it; the branches and the recursion points
are in the activation because they are copied. `TestedFunction!MarkedNodes` uses
what `TwinsVisited` says of the result.

`ChildProcess` is a process with its two pipes. `RunZ3OnCMD`, `Terminal` (with
`runExecutableFile`) and `RunWait` are the three ways in which the repository
reads the output of one; `ProcessCallers` composes each of them with the
process.

The modules called `MC...` give the constants their values; `MCFunctions` holds
the small functions that `MCDart` and `MCSdart` share, and
`MCSymbolicExecution` builds the syntax trees of `SymbolicExecution`. Modules
called `..._proofs` hold theorems.

## Runs and what they show

`enumeration` takes every graph with two nodes between begin and end (729 and
more, with and without conditions and loops) and seven shapes that the
construction makes, with a loop bound of 2 and a stack of 26 activations. Two
nodes suffice for nested, self-referring and unreachable loops. 26 activations
are more than `DepthBound`, the depth up to which the stack needs room in a
graph without a free cycle, of any of these graphs; the module assumes that
(`StackSuffices`), so that TLC computes it. The properties say that the result
is exactly the set of test paths, without duplicates unless a condition has an
empty body, and that the stack overflows only when a cycle that no loop
condition bounds is reachable. The constant `WalksOf` gives the walks that the
result is compared with: here all walks to the end that the bounds allow,
enumerated breadth first without the traversal, in graphs with a free cycle
those of at most 8 nodes. The solver may throw at any path:
`FailureKeepsEarlier` says that exactly the test paths that come before it in
the order of the traversal (the false branch first) are then in the result, so
that a failure costs what follows and nothing else.

`symbolic_execution` takes 664 functions: all loops and switches with an `if`
whose branches are chosen from eight statements (break, continue, return, blocks
with declarations among them), switches with labels in every position, `for`
with each of its parts absent, `goto` forward, back, out of a loop and into
blocks, loops and switches, throw and exit, three conditions in sequence over
the same variables, calls of the function itself, `try` with its handlers, and
labels of a switch inside another of its statements. A path has at most six
conditions and ten other statements, which is two rounds of each loop with an
`if` inside; the inputs are 0 to 2, which lie on both sides of the conditions on
the parameters, and values range from -9 to 9, more than any condition on these
paths meets. Walks end at the bounds, so deadlock is not checked. The graph has
no dangling or forwarding node (`GraphClosed`), the construction ends and fails
on endless loops without body alone (`ConstructionEnds`, `FailsOnEndlessFor`),
and each path shows, node for node, what the execution does
(`PathsAreExecutions`). No variable is deleted while it can be used, although
break and goto leave the scope level too high (`VariablesKept`), and the table
holds the values the program has unless a name was shadowed (`ValuesExact`). A
solution takes the path it was found for (`SolutionDrivesPath`), and a path
without solution is one no input takes (`NoSolutionMeansInfeasible`); their
hypotheses name where the code is not exact: shadowed names, a `goto` into a
block, statements the parser refuses, a path called always false, an `int` alone
as condition, and conditions with an empty body.

`static_campaign` takes all lists of up to three paths out of a pool of six,
two tries per path and a solver that may throw at any time. Three paths are the
least with a path before, at and after the one solved; the pool has shared
transitions, a transition taken twice, a path of one node, an edge from a node
to itself, and paths that print alike. `OutcomeByShape` says which lists lose
all their test data whatever the solver does.

`dart` takes sixteen functions (sequence, nesting, missing else, loops,
infeasible branch, try, blocks in braces, no condition, executions that are
killed, that crash, that leave no marks or do so only sometimes, a condition on
an array item, dependent conditions, an imprecise solver, a condition with an
empty body behind a block) with two depths of three iterations. Six iterations
are more than any of these functions has branches; `MaxSelection` is 3,
`MaxTries` is 2, below 30 and 31 in the code, so that both limits are met.
`sdart` takes the same functions with two iterations and the threshold 3 of the
code; the count of executions without progress is capped at 5, above the
threshold, so that passing it is visible. Strategy 1 finds an uncovered path
exactly while the coverage is incomplete (`DirectedUntilCovered`), for
functions whose conditions lie on their test paths and have a branch of their
own. The function with the empty body shows why: both branches of its condition
lead to a node that the block marks as well, so they count as visited before
the condition is, and since Strategy 1 looks at the branches alone
(`cfg/CFG.java:396`) and the coverage at the condition too (`cfg/CFG.java:82`),
the two disagree.

`execution_mapping` executes eleven functions with up to 24 marks, enough for
two levels of recursion with two calls each, and stops the execution anywhere.
Besides branches and loops with and without blocks they call themselves in a
statement, twice in one statement, in a condition and in a return, have an empty
block, or two statements with the same text on one line. When a path is found,
the statements it marks are those executed for all of them (`StatementsExact`);
that one is found, and the branches, leave out those the code cannot map: see
below. The module also assumes that four of the functions, those that only
branch, loop and open blocks, satisfy what the theorems on the branches suppose
of a function (`ExecutionsToldApart`), for walks of up to nine nodes.

`process_callers` takes every output of up to five pieces on two streams, pipes
of two pieces (five is more than both pipes hold), processes that end or not and
heed `destroy` or not, and time limits of a few polls. Deadlock is not checked:
a caller that waits for a process that waits for it is one of the outcomes, and
`CallersReturn` says exactly when it does not happen.

Five runs show a statement of the repository violated by what the code does:

| Run | What happens |
|---|---|
| `dart_indexed_condition` | with a condition on `a[i]`, BFSSelection looks at the wrong node and asks for a branch already visited |
| `sdart_infeasible_path` | the directed loop of SDART never leaves a first uncovered path that has no solution |
| `sdart_threshold` | the random loop of SDART never ends once its count has passed the threshold, which `==` then misses |
| `mapping_visited` | after an `if` with blocks, the "{" of the branch not taken counts as visited, and so do both branches |
| `executable_timeout` | an execution that does not end is never stopped: `Terminal` has waited for its end before the time limit is looked at |

Some disagreements have no run. After an execution without marks DART runs the
same test data again, while its comment (line 168) says that it goes back to
drawing one at random. A path called always false, and one with a statement the
parsers refuse, is solved as the prefix before that point
(`HybridAutoTestGen/CFT4CPP.java:466`, `se/SymbolicExecution.java:264`),
although `IPathConstraints` (line 37) says of the flag that such a path never
has a solution. `BFSSelection` negates constraints from the first one, while
the comment on `DART` (line 171) says from the last.
After a `goto` into a block the path closes a scope that it has not opened, and
`parseScope` (`se/SymbolicExecution.java:919`) deletes the variables around it
(`entered` in `SymbolicExecution`): a condition on one of them is then solved as
if its name were a parameter, and the test data need not take the path.
`computeNumofVisitedBranches` counts a branch by the node it leads to, so an
`if` without `else` counts both after its true branch alone. `traverseGraph`
calls itself for a single match with two successors, although its comment (line
226) says it need not.

## Fairness

`FairSpec` of `TestpathGeneration`, `WeightedPathGen`, `Dart`,
`SymbolicExecution` and, for the mapping, `ExecutionMapping` is weak fairness
of the one sequential thread: it keeps taking steps while it can.
`ProcessCallers` assumes it of the caller and of the process separately, since
the operating system runs both; a process that never ends is not one without
fairness but one with `ends` false. Nothing is assumed about which answer the
solver gives or which test data is drawn. `Sdart` also assumes strong fairness
of every random draw: its random loop ends only if some draw makes progress or
fails to often enough, and `java.util.Random` draws every value of a bounded
range again and again.

## What is proved

Each theorem is of the form `Spec => []P` or `Spec => [][A]_vars` and holds for
every value of the constants that the named assumptions of the module allow;
where it needs more, the hypothesis is part of the property and named here.

`TestpathGeneration_proofs`, for every finite set of nodes, all graphs, loop
bounds and stacks. `TypeCorrect`, `Restored` (`PathIsChain`) and `Soundness`
(`EmittedSound`) come from an invariant that adds to `PathIsChain` that the
calls pending in activation `i` are allowed successors of `tp[i]` on the prefix
of length `i`. `Completeness` (`PathsComplete`) rests on the invariant that a
test path is already emitted or still ahead of the traversal (`Ahead`), which
the branches pushed by `Descend` establish and `Return` hands back to the
caller. `FailureKeeps` (`FailureKeepsEarlier`) and `ProducedOnce`
(`NoDuplicates`) need `FalseFirst` in addition: an activation that runs below
one with a call left is that of the false branch, so that the paths come out in
the order of the traversal and what is ahead comes after what has been emitted.
`LoopsBounded` (`LoopBound`) counts the entries of a body on the shared path.
`OverflowExplained` (`OverflowOnlyOnFreeCycle`) is a counting argument: between
two entries of a loop a path without a free cycle visits no node twice (the set
of nodes of a repetition would be the free cycle), and there are at most
`MaxLoop` entries of each loop, so that no path is longer than `DepthBound`.

`WeightedPathGen_proofs`, for every list of paths and number of epoches:
`TypeCorrect`, `EdgeMarks`, `NodeMarks`, `NoneLeft`, `Once`; `Weights`
(`HmmExact`), with lemmas on how the number of transitions taken grows by a
solved path, since the code adds to a weight once per occurrence; `Outcomes`
(`OutcomeByShape`), from an invariant on what has been solved and constrained
when `run` comes to each of its phases (only the first of paths that print alike
has constraints, and a path without them cannot be passed by); and `Refinement`,
that every behaviour satisfies the safety part of `PathCampaign`.

`ProcessCallers_proofs`: `Complete`, that `OutputComplete` holds for every
capacity, output and limit. The invariant says what each caller knows of the
streams at each of its steps: a stream seen at its end stays there, and a
process that ends between `runWait`'s look at a stream and `isAlive` is noted.

`CfgGeneration_proofs`, for all functions. `Closed` (`GraphClosed`): while
statements are visited, every node without successors is the beginning of a
call on the agenda, which will set them, and the targets a call carries are
nodes; while nodes are linked, every node met is reached, linked or still on
the agenda. This says nothing of what the nodes stand for. `LaidOut` does: for
each call that has been or will be made it keeps what the call leaves behind
(`Lays`, with one shape for each kind of statement, such as `LaidIf`, `Ring` of
a `for` and `Chain` of a `switch`), so that in the end the graph is laid out as
the statements nest (`AllVisited`, by the least statement that is missing), and
while nodes are linked, that a link still leads to where the nodes that only
forward led (`Reflects`). From it, for `Regular` functions,
`EndlessRejected` (`FailsOnEndlessFor`): when the iteration of a `for` is laid
out, its body has been and nothing after it has, so that two steps from where
the condition is tried lead back to the iteration only through an empty body
(`BodyFirst`, `Escapes`).

`SymbolicExecution_proofs`: symbolic execution implements the construction
(`WalksOnGraph`: it never changes the graph), so that `Closed` carries over
(`ClosedUnderPaths`). Five theorems relate a path to the execution that goes
with it:

- `PathsExecute` (`PathsAreExecutions`). The stack of frames of the execution
  stands in the graph: each frame has a place, that of the top is the node the
  path has come to, and between two places lies what the statement of the frame
  was laid out as (`Sits`, `Placed`, from `LaidOut`). Every step of the path
  that shows something is then the step of the execution, and those that show
  nothing (`Shows`) lead to the next that does.
- `VariablesStay` (`VariablesKept`). The scope level is above the number of
  blocks open in the execution, however much too high a jump has left it, and
  every variable in scope has an entry at least as many levels below it as
  blocks have been opened since (`Covers`; `Tracks` between two nodes that show
  something), so that leaving a block deletes none that is still in scope.
- `ValuesAgree` (`ValuesExact`). The table has one entry for a name and, if
  nothing has been shadowed, the execution one variable; a variable and an entry
  of one name have the same value (`ValueInv`).
- `SolutionDrives` (`SolutionDrivesPath`) and `NoSolutionInfeasible`
  (`NoSolutionMeansInfeasible`). The inputs that solve the constraints collected
  so far go through the nodes of the path, unless a name was shadowed or a
  statement refused (`DriveInv`), and those that go through its nodes solve them
  if the conditions are exact (`TightInv`).

They suppose of the function that it has no label and no goto (`NoGoto`) and
that its graph is one to compare (`Comparable`, which is a part of the
properties themselves); together that is `Regular`. The last three suppose that
a name is used only while it is declared (`[]InScope`), which the compiler sees
to, and the last one that no comparison leaves the range of values
(`[]InRange`), which is true of `Value = Int`. What the grammar of C says of a
syntax tree is `WellFormed`, an assumption on `Functions`. The configuration
`MCSymbolicExecutionScope.cfg` checks `InScope` and `InRange` on the functions of
`symbolic_execution`, for which these hypotheses are therefore true.

The constraints of a path in `TestedFunction` are put together by folds over
its nodes. Lemmas that `Dart_proofs` and `Sdart_proofs` both begin with say of a
list which elements it has and in which order, so that a solution whose
execution runs to the end visits the node that each branch asked for leads to
(`SolutionDrives` there). Induction over the length is by the least
counterexample.

`Dart_proofs`, for all functions, test data and bounds: `TypeCorrect`,
`Truthful` (`CoverageTruthful`), `Fresh` (`FreshQuery`), `GivesUpExhausted`
(`GivesUpWhenExhausted`), and, for functions without a condition on an array
item, `Worthwhile` (`QueryWorthwhile`) and `SolvedCovers` (`SolvedDataCovers`,
with an exact solver). The invariant ties the two loop counters to the program
point (`Loops`), every visited node to an execution that marked it
(`Witnessed`), and the flag that ends the inner loop to what the selection has
found. For the last two theorems it says (`Searched`) that the path looked at
is marked, that the constraint negated aims at a branch not visited, and that
test data from the solver solve such a constraint until they have been run.

`Sdart_proofs`: `TypeCorrect`, `UntilCovered` (`DirectedUntilCovered`), and,
where executions are complete and leave their marks and the solver is exact
(`Reliable`), `KnownInfeasible` (`KnownOnlyIfInfeasible`) and `DirectedCovers`
(`DirectedDataCovers`). The invariant says that the coverage and the first
uncovered path are those of the nodes visited now (`Current`), although the
loops compute them at different points, and that what the generator remembers
has left its marks (`Remembered`): known test data have, and of known
constraints with a solution at least one solution has.

`ExecutionMapping_proofs` is about a search with backtracking whose list of
statements is shared. What its invariants must say is therefore not who
appended a node, but what each activation has matched and has left to try.

- `TypeCorrect` and `VisitedExecuted` (`StatementsExact`): every mark before
  the index of an activation is matched by a node of the list, and the
  candidates still to be tried match the mark at it (`Good`). A candidate tried
  in vain can then have added only nodes that match an executed mark, whatever
  the recursion points did.
- `TwinsToo` (`TwinsVisited`): a node that matches a mark is listed or is among
  the candidates of an activation that will list it (`Due`); while nothing is
  found the running activation has matched what was executed (`Follows`), is
  about to try it (`Aims`), or has taken the twin in its caller's stead
  (`Strays`), and then comes back.
- `MappedToWalk`: of a function without calls of itself a path is found for
  every execution, and its branches are those of one walk through the graph
  that prints the same marks. The invariant `Reading` says that what each
  activation holds is read from one walk with the marks before its index; that,
  until a path is found, some activation is at the node executed or has the next
  one left to try; and that afterwards no activation matches a mark.
- `BranchesFound` and `ExecutionMapped` follow: if an execution that ends
  prints marks that no other walk prints (`Unmistakable`), the branches are
  those executed (`BranchesExact`), and if also nothing but the end comes after
  the last statement (`EndAlone`), the execution is complete exactly if the
  function has returned (`ExecutionFound`). Both hypotheses are about the
  labels of the graph alone.

## What is only model-checked

- Liveness under fairness, which the prover does not handle: `EnumerationEnds`,
  `DartEnds`, `FeasibleCovered`, `MappingEnds`, `CallersReturn`,
  `ConstructionEnds`, and the fairness of `Campaign`.
- The paths of functions with labels and gotos: where a goto leads, the stack of
  frames is not that of the statements around it (`After`), and the invariants
  on frames do not cover it. On them TLC checks `PathsAreExecutions`,
  `VariablesKept`, `ValuesExact`, `SolutionDrivesPath`,
  `NoSolutionMeansInfeasible` and `FailsOnEndlessFor`.
- `ExecutionFound` of functions that call themselves, and all that the theorems
  on the mapping suppose beyond `Regular`: TLC checks `ExecutionFound` and
  `BranchesExact` without `Unmistakable` and `EndAlone`, on the functions of
  the run.
- `TwinsVisited`, `KnownOnlyIfInfeasible` and the other properties with a
  hypothesis are false without it; the comments on the hypotheses name the code
  that makes them so.

## What is not modelled, and where the models abstract

- Test data are compared by their text in the code; a model value stands for a
  text. Texts of constraints are compared too; a constraint is the condition,
  the branch taken and whether it is negated.
- The coverage is 100 exactly when all branches count as visited; percentages
  as floats are left out, and an increase of coverage is a new visited node.
- `EVERY_SOLUTION` cannot come out of `solve` for a list that has a constraint
  on a value: for a list with null constraints only, text is appended to it and
  the comparison fails, so it counts as a solution.
- `executeTestdata` runs up to four times and throws away the marks of its last
  run; the model keeps exactly that (`RunsNeeded`).
- In `TestedFunction`, and so in `Dart` and `Sdart`, a symbolic execution that
  stops at an unsupported statement and constant constraints are left out;
  `SymbolicExecution` has both. Reports and timings are left out everywhere.
- `SymbolicExecution` has variables of number types, assignments of a variable
  plus a constant, and conditions on one variable. Pointers, arrays, structures
  and the simplification of expressions are left out. Of two variables with one
  name the table keeps the first entry, whatever its scope; `shadowed` marks
  such paths and the properties on values exclude them. A name alone as
  condition is compared with 1 and 0. A condition with an empty body is always
  taken as true, since its next node is the true one. When the constraints are
  not related by a parameter, the path is given random data (`Answers`).
- The graphs of four kinds of functions are not compared with an execution
  (`Comparable`): a `try` block falls into its first handler, a call of a
  function whose name is this one's or a prefix of it is taken for recursion and
  led back to the beginning, a case at the end of a switch is taken for the
  default, and a label inside another statement of its switch becomes a
  statement that nothing is compared with (`OfSwitch`). `CfgGeneration` builds
  them as the code does, the run has functions of each kind, and `GraphClosed`
  and `FailsOnEndlessFor` cover them.
  Parents of nodes and the variant for sub-conditions are left out.
- In `Sdart` the count of executions without progress stays at its cap; its
  wrap after 2^31 draws is left out.
- `getTestDataList` also drops test cases whose values do not fit the
  parameters; `TestData` leaves that check out.
- `ExecutionMapping` compares nodes by labels instead of text and line.
  `StatementsExact` is about all functions once a path is found, `ExecutionFound`
  about those that call themselves, if at all, in statements of their own, and
  `TwinsVisited` and `BranchesExact` about those that do not. For `return f()`,
  two calls in one statement and a call in a
  condition the code loses its recursion points (one mark pops at most one), an
  empty block prints marks that no node of the graph matches, and the marks
  around `try` have no statement property; then nothing or only a part is
  mapped. The functions of the run do all of this.
- A process that crashes inside a recursive call leaves marks that count as a
  complete test path.
- In `ProcessCallers` output is counted in pieces, a process writes finitely
  much, and nobody interrupts the callers (nothing in the repository does). That
  `runWait` comes back rests on the finite output: it looks at its limits only
  while both streams are empty (`CppEnvironmentParser.java:470-486`), so that a
  process that keeps one of them filled is never stopped.
  `runWait`'s three callers in the repository pass limits of 24 days.
- `CFT4CPP.haveSolution` and the partial paths it would solve are not called by
  the traversal and are left out.
- Not modelled at all: the parser, the project tree, the normalizers, the
  instrumentation, the test drivers and the SMT-LIB texts, which are conversions
  of syntax or files; the user interfaces and reports, which only call the parts
  above; the compiler front end and the execution of test cases beyond the child
  process they start. The test case manager is a map from names to test cases,
  read and written by one thread. `PROJECT.json` lists each with its reason.

## Plan

Done in this order: enumeration, static generation, DART, SDART, the mapping of
executions, child processes, CFG construction, symbolic execution, the traversal
with solving; then the proofs for each, as listed above. What is left, in order
of importance:

1. `PairWiser` against its promise that every pair of values is covered, and
   `GraphDiffer` of `cia` against a definition of a difference of two graphs.
2. `BoundedTestGen`, `ImprovedSDART` and the other selection strategies.
3. `ProjectClone`'s unsynchronised map, which needs the outcomes of races on
   `HashMap` modelled first.
4. The theorems on paths for functions with gotos, then `ExecutionFound` with
   recursion.
