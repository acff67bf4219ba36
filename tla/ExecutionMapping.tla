-------------------------- MODULE ExecutionMapping --------------------------
(***************************************************************************)
(* How testdatagen.coverage.CFGUpdater_Mark finds out which nodes of the   *)
(* control flow graph an execution has visited: the instrumented function  *)
(* prints a mark for every statement, condition and block, and             *)
(* updateVisitedNodes looks for the nodes that match the marks one after   *)
(* another, with backtracking where several nodes match and a stack of     *)
(* recursive calls.                                                        *)
(***************************************************************************)
EXTENDS Integers, Sequences, SequencesExt, FiniteSets

CONSTANTS
  Node,      \* nodes, and statements whose marks have no node
  Label,     \* what a mark and a node are compared by
  Scope,     \* the labels of opening and closing scopes, "{" and "}"
  Programs,  \* the functions executed
  MaxMarks   \* bound of this model on the marks of an execution

(* A function and its graph: the first node (begin.getTrueNode()), the     *)
(* end, the conditions, the successors in the graph, the successors in the *)
(* program, what is compared of a node (its text and its line; for the     *)
(* scopes the brace only), and how many calls of itself the evaluation of  *)
(* a statement may make.                                                   *)
ProgramType ==
  [first : Node, end : Node, cond : SUBSET Node,
   true : [Node -> Node], false : [Node -> Node], next : [Node -> SUBSET Node],
   label : [Node -> Label], calls : [Node -> SUBSET (0 .. 2)]]

ASSUME ProgramsAssumption ==
  Programs \subseteq {q \in ProgramType : q.first # q.end /\ q.end \notin q.cond}
ASSUME MarksAssumption == MaxMarks \in Nat /\ Scope \subseteq Label

VARIABLES
  p,             \* the function
  at,            \* the node to be executed next
  frames,        \* the calls of itself that are running: node, calls left
  walk,          \* the nodes executed; their marks are the test path
  pc,
  activations,   \* the running calls of traverseGraph
  statements,    \* visitedStatements, the list that all of them share
  branches,      \* this.visitedBranches
  found,         \* findAPath
  complete       \* isCompleteTestpath

vars == <<p, at, frames, walk, pc, activations, statements, branches, found, complete>>

runVars == <<p, at, frames, walk>>

Successors(n) == {p.true[n], p.false[n]}

-----------------------------------------------------------------------------
Init ==
  /\ p \in Programs
  /\ at = p.first /\ frames = <<>> /\ walk = <<>>
  /\ pc = "run"
  /\ activations = <<>> /\ statements = {} /\ branches = {}
  /\ found = FALSE /\ complete = FALSE

mapVars == <<activations, statements, branches, found, complete>>

(* The instrumented function prints the mark of a statement before the     *)
(* statement is evaluated, with the calls in it.                           *)
Run ==
  /\ pc = "run" /\ at # p.end /\ Len(walk) < MaxMarks
  /\ walk' = Append(walk, at)
  /\ \E k \in p.calls[at] :
       IF k = 0 THEN at' \in p.next[at] /\ UNCHANGED frames
       ELSE /\ frames' = Append(frames, [node |-> at, left |-> k - 1])
            /\ at' = p.first
  /\ UNCHANGED <<p, pc, mapVars>>

ReturnFromCall ==
  /\ pc = "run" /\ at = p.end /\ frames # <<>>
  /\ LET fr == Last(frames) IN
       IF fr.left = 0 THEN frames' = Front(frames) /\ at' \in p.next[fr.node]
       ELSE /\ frames' = Append(Front(frames), [fr EXCEPT !.left = @ - 1])
            /\ at' = p.first
  /\ UNCHANGED <<p, walk, pc, mapVars>>

Activation(index, candidates, previous, visitedBranches, points) ==
  [index |-> index, candidates |-> candidates, previous |-> previous,
   branches |-> visitedBranches, points |-> points, todo |-> <<>>, step |-> "enter"]

(* The function returns, or the process ends before that.  The node before *)
(* the first one is no condition, as the end is none.                      *)
Stop ==
  /\ pc = "run" /\ walk # <<>>
  /\ pc' = "map"
  /\ activations' = <<Activation(0, {p.first}, p.end, {}, <<>>)>>
  /\ UNCHANGED <<runVars, statements, branches, found, complete>>

-----------------------------------------------------------------------------
(* traverseGraph: "a" is the innermost activation. *)
Top == Last(activations)
Mapping(step) == pc = "map" /\ activations # <<>> /\ Top.step = step
Put(a) == activations' = Append(Front(activations), a)

(* reachEndNodeInTestpath *)
ReachEnd(a, visited) ==
  /\ found' = (visited # {})
  /\ branches' = a.branches
  /\ complete' = (complete \/ p.end \in Successors(a.previous))

Enter ==
  /\ Mapping("enter") /\ ~ found
  /\ IF Top.index = Len(walk)
     THEN ReachEnd(Top, statements) /\ Put([Top EXCEPT !.step = "return"])
     ELSE /\ Put([Top EXCEPT !.step = "match"])
          /\ UNCHANGED <<found, branches, complete>>
  /\ UNCHANGED <<runVars, pc, statements>>

EnterFound ==
  /\ Mapping("enter") /\ found
  /\ Put([Top EXCEPT !.step = "return"])
  /\ UNCHANGED <<runVars, pc, statements, branches, found, complete>>

(* isStronglyConnectedMapping: equal text, and the same line but for scopes *)
Marked     == walk[Top.index + 1]

(* Mutant of Matches: the lines are not compared. *)
MatchesText(n) ==
  p.label[n] = p.label[Marked] \/ {p.label[n], p.label[Marked]} \cap Scope = {}

Matches(n) == p.label[n] = p.label[Marked]
Candidates == {n \in Top.candidates : Matches(n)}

(* The last recursive statement, when no candidate matches *)
Popped == Candidates = {} /\ Top.points # <<>>
Points == IF Popped THEN Front(Top.points) ELSE Top.points

(* The orders in which the matching nodes may be listed: a set has none,   *)
(* the successors of a recursive statement come false one first.           *)
IfMatching(n) == IF Matches(n) THEN <<n>> ELSE <<>>

MatchingLists ==
  IF Popped
  THEN {IfMatching(p.false[Last(Top.points)]) \o IfMatching(p.true[Last(Top.points)])}
  ELSE {s \in [1 .. Cardinality(Candidates) -> Candidates] : IsInjective(s)}

(* The mark says whether the statement calls the function it is in. *)
IsRecursive == p.calls[Marked] # {0}
NextPoints(points, n) == IF IsRecursive THEN Append(points, n) ELSE points
NextCandidates(n) == IF IsRecursive THEN {p.first} ELSE Successors(n)

(* Mutant of NextBranches: a branch is added for every node. *)
NextBranchesAny(n) == Top.branches \cup {<<Top.previous, n>>}

NextBranches(n) ==
  Top.branches \cup (IF Top.previous \in p.cond THEN {<<Top.previous, n>>} ELSE {})

(* Mutant of MappingFails: hasSingleChoice stays as it is. *)
MappingFailsRetry ==
  /\ Mapping("match") /\ \E s \in MatchingLists : s = <<>>
  /\ Put([Top EXCEPT !.points = Points])
  /\ UNCHANGED <<runVars, pc, statements, branches, found, complete>>

MappingFails ==
  /\ Mapping("match") /\ \E s \in MatchingLists : s = <<>>
  /\ Put([Top EXCEPT !.step = "return", !.points = Points])
  /\ UNCHANGED <<runVars, pc, statements, branches, found, complete>>

(* One node matches, and there is one candidate after it: the loop goes on *)
(* in the same activation until it reaches the end.                        *)
MatchOne(n) ==
  LET a == [Top EXCEPT !.index = @ + 1, !.candidates = NextCandidates(n),
                       !.previous = n, !.branches = NextBranches(n),
                       !.points = NextPoints(Points, n)]
  IN /\ Mapping("match") /\ <<n>> \in MatchingLists
     /\ statements' = statements \cup {n}
     /\ Cardinality(NextCandidates(n)) = 1
     /\ IF a.index = Len(walk)
        THEN ReachEnd(a, statements') /\ Put([a EXCEPT !.step = "return"])
        ELSE Put(a) /\ UNCHANGED <<found, branches, complete>>
     /\ UNCHANGED <<runVars, pc>>

(* Mutant of MatchCall: the node is not put into the list. *)
MatchCallUnlisted(n) ==
  /\ Mapping("match") /\ <<n>> \in MatchingLists
  /\ Cardinality(NextCandidates(n)) = 2
  /\ activations' = Append(Append(Front(activations), [Top EXCEPT !.step = "return"]),
       Activation(Top.index + 1, NextCandidates(n), n, NextBranches(n), NextPoints(Points, n)))
  /\ UNCHANGED <<runVars, pc, statements, branches, found, complete>>

(* One node matches, with two candidates after it: a call, after which the *)
(* activation returns.                                                     *)
MatchCall(n) ==
  /\ Mapping("match") /\ <<n>> \in MatchingLists
  /\ statements' = statements \cup {n}
  /\ Cardinality(NextCandidates(n)) = 2
  /\ activations' = Append(Append(Front(activations), [Top EXCEPT !.step = "return"]),
       Activation(Top.index + 1, NextCandidates(n), n, NextBranches(n), NextPoints(Points, n)))
  /\ UNCHANGED <<runVars, pc, branches, found, complete>>

(* Several nodes match: each of them is tried in turn, also those after    *)
(* the one with which a path is found.                                     *)
MatchSeveral ==
  /\ Mapping("match")
  /\ \E s \in MatchingLists :
       Len(s) > 1 /\ Put([Top EXCEPT !.step = "fork", !.todo = s, !.points = Points])
  /\ UNCHANGED <<runVars, pc, statements, branches, found, complete>>

(* Mutant of Fork: only the first of them is tried. *)
ForkOnce ==
  /\ Mapping("fork") /\ Top.todo # <<>>
  /\ LET n == Head(Top.todo)
         a == [Top EXCEPT !.todo = <<>>, !.points = NextPoints(@, n)]
     IN /\ statements' = statements \cup {n}
        /\ activations' = Append(Append(Front(activations), a),
             Activation(Top.index + 1, NextCandidates(n), n, NextBranches(n), a.points))
  /\ UNCHANGED <<runVars, pc, branches, found, complete>>

Fork ==
  /\ Mapping("fork") /\ Top.todo # <<>>
  /\ LET n == Head(Top.todo)
         a == [Top EXCEPT !.todo = Tail(@), !.points = NextPoints(@, n)]
     IN /\ statements' = statements \cup {n}
        /\ activations' = Append(Append(Front(activations), a),
             Activation(Top.index + 1, NextCandidates(n), n, NextBranches(n), a.points))
  /\ UNCHANGED <<runVars, pc, branches, found, complete>>

Return ==
  /\ Mapping("return") \/ (Mapping("fork") /\ Top.todo = <<>>)
  /\ activations' = Front(activations)
  /\ UNCHANGED <<runVars, pc, statements, branches, found, complete>>

(* The nodes of the list get their visited flags, if a path is found. *)
Visited == IF found THEN statements ELSE {}

Update ==
  /\ pc = "map" /\ activations = <<>>
  /\ pc' = "done"
  /\ UNCHANGED <<runVars, mapVars>>

Terminated == pc = "done" /\ UNCHANGED vars

Match == MappingFails \/ MatchSeveral \/ \E n \in Node : MatchOne(n) \/ MatchCall(n)
Map   == Enter \/ EnterFound \/ Match \/ Fork \/ Return \/ Update

Next == Run \/ ReturnFromCall \/ Stop \/ Map \/ Terminated

Spec     == Init /\ [][Next]_vars
FairSpec == Spec /\ WF_vars(Map)

-----------------------------------------------------------------------------
TypeOK ==
  /\ p \in Programs /\ at \in Node /\ walk \in Seq(Node)
  /\ pc \in {"run", "map", "done"}
  /\ statements \subseteq Node /\ branches \subseteq Node \X Node
  /\ found \in BOOLEAN /\ complete \in BOOLEAN
  /\ \A i \in 1 .. Len(activations) :
       LET a == activations[i] IN
         /\ a.index \in 0 .. Len(walk)
         /\ a.candidates \subseteq Node /\ a.points \in Seq(Node) /\ a.todo \in Seq(Node)
         /\ a.step \in {"enter", "match", "fork", "return"}

Executed == {walk[i] : i \in 1 .. Len(walk)}
Ended    == at = p.end /\ frames = <<>>

(* A function without calls of itself whose graph has all of its marks     *)
Regular == \A n \in Node : p.calls[n] = {0} /\ p.next[n] = Successors(n)

(* A function that calls itself only in statements of their own, once each *)
Procedure ==
  \A n \in Node : \/ p.calls[n] = {0} /\ p.next[n] = Successors(n)
                  \/ p.calls[n] = {1} /\ p.true[n] = p.first /\ p.next[n] = {p.false[n]}

(* No two statements with the same text on the same line *)
Distinct == \A m, n \in Node : p.label[m] = p.label[n] => m = n \/ p.label[m] \in Scope

(* The walks through a graph, and those that print the same marks          *)
After(q, n) == {q.true[n], q.false[n]}

Options(q, w, i) ==
  {n \in Node : /\ n \in IF i = 1 THEN {q.first} ELSE After(q, w[i - 1])
                /\ q.label[n] = q.label[w[i]]}

IsWalk(q, w)   == \A i \in 1 .. Len(w) : w[i] \in Options(q, w, i)
Alike(q, v, w) == Len(v) = Len(w) /\ \A i \in 1 .. Len(v) : q.label[v[i]] = q.label[w[i]]
Ends(q, w)     == w # <<>> /\ q.end \in After(q, w[Len(w)])

(* A walk to the end prints marks that no other walk prints.               *)
ToldApart(q, W) ==
  \A v, w \in W : IsWalk(q, v) /\ IsWalk(q, w) /\ Alike(q, v, w) /\ Ends(q, w) => v = w

Unmistakable(q) == ToldApart(q, Seq(Node))

(* Nothing but the end comes after what it comes after, as after the "}"   *)
(* of the body.                                                            *)
EndAlone(q) == \A n \in Node : q.end \in After(q, n) => After(q, n) = {q.end}

(* Every execution is found in the graph, however many nodes match a mark  *)
(* and in whatever order they are tried.  It is complete if the function   *)
(* has returned, and only then unless it calls itself.                     *)
ExecutionFound ==
  pc = "done" /\ Procedure /\ Distinct =>
    found /\ (Ended => complete) /\ (Regular /\ complete => Ended)

(* The nodes that count as visited, but for scopes, are those executed:    *)
(* none of a candidate tried in vain, none of a call left out.  This does  *)
(* not depend on how the function calls itself, if only a path is found.   *)
StatementsExact ==
  pc = "done" /\ found /\ Distinct =>
    {n \in Visited : p.label[n] \notin Scope} = {n \in Executed : p.label[n] \notin Scope}

(* Beside the nodes executed, the nodes that match the same mark count as  *)
(* visited (what TestedFunction assumes), unless they lead to nodes that   *)
(* match alike.                                                            *)
Shallow ==
  \A m, n \in Node : p.label[m] = p.label[n] /\ p.label[m] \in Scope /\ m # n
                        /\ (\E c \in Node : {m, n} = Successors(c)) =>
    \A x \in Successors(m), y \in Successors(n) : p.label[x] # p.label[y]

Twins == {n \in Node : \E i \in 1 .. Len(walk) - 1 :
            n \in Successors(walk[i]) /\ p.label[n] = p.label[walk[i + 1]]}

TwinsVisited ==
  pc = "done" /\ Regular /\ Distinct /\ Shallow => Visited = Executed \cup Twins

(* The branches found are those executed: the lists of branches are copied *)
(* for each candidate, so that one tried in vain leaves none behind.  Only *)
(* an execution that is cut short after a "{" may end in the wrong one.    *)
BranchesExact ==
  pc = "done" /\ Regular /\ Distinct /\ Ended =>
    branches = {<<walk[i], walk[i + 1]>> : i \in {i \in 1 .. Len(walk) - 1 : walk[i] \in p.cond}}

(* The mapping comes to an end. *)
MappingEnds == (pc = "map") ~> (pc = "done")

-----------------------------------------------------------------------------
(* The comment on updatedCFGNodes, which has the nodes of visitedStatements *)
(* in the end: "A list of visited cfg node by a given test path".          *)
VisitedByTestpath == pc = "done" => Visited \subseteq Executed

=============================================================================
