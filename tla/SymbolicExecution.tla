---------------------------- MODULE SymbolicExecution ----------------------------
(***************************************************************************)
(* The symbolic execution of a path of the graph CfgGeneration has made    *)
(* (testdatagen/se/SymbolicExecution.java) and what is answered for the    *)
(* path (solveTestpath).  The path is walked node by node together with    *)
(* the execution of StructuredExecution, so that the table of variables    *)
(* and the constraints can be compared with what the program computes.     *)
(*                                                                         *)
(* The data of a statement: var and from name variables, add and in are an *)
(* integer and a set of values.  "expr" and "decl" set var to from + add,  *)
(* a condition holds if from + add is in the set; from is "" for none.  A  *)
(* condition that is only a name is bare; one with ok = FALSE is refused   *)
(* by the parsers with an exception.  Values are [in, off]: the input in   *)
(* plus off, a constant if in is "".                                       *)
(***************************************************************************)
EXTENDS CfgGeneration, StructuredExecution

CONSTANTS
  Value,            \* the values of the type of the parameters and in conditions
  Input,            \* the values the parameters may have
  MaxConditions,    \* how many conditions a path has at most
  MaxStatements     \* how many other statements

ASSUME ValueAssumption == Input \subseteq Value /\ Value \subseteq Int /\ {MaxConditions, MaxStatements} \subseteq Nat

(* The parameters have names, each its own.  A name alone holds for 1 and  *)
(* not for 0; what a switch compares with its labels is none.              *)
ASSUME DataAssumption ==
  \A f \in Functions :
    /\ f.params \in Seq(STRING \ {""})
    /\ \A i, j \in DOMAIN f.params : f.params[i] = f.params[j] => i = j
    /\ \A s \in DOMAIN f.ast :
         /\ {f.ast[s].var, f.ast[s].from} \subseteq STRING /\ f.ast[s].add \in Int
         /\ f.ast[s].bare => 1 \in f.ast[s].in /\ 0 \notin f.ast[s].in
         /\ f.ast[s].kind = "switch" => ~f.ast[f.ast[s].kids[1]].bare

VARIABLES
  at,               \* the node of the path reached, 0 before the walk
  control,          \* the frames of the execution
  conditions,       \* how many conditions have been decided
  statements,       \* how many statements have been executed
  env,              \* the variables of the execution, innermost last
  live,             \* the inputs that have gone through the nodes of the path
  shadowed,         \* a name was declared where another of that name was in scope
  entered,          \* a goto has led into a block
  table,            \* tableMapping: [name, level, val] in the order of their creation
  scopeLevel,
  constraints,      \* the constraints, each [val, in]
  isAlwaysFalse,
  stopped,          \* the loop of symbolicTestpath was left by an exception
  answer            \* what solveTestpath returned: [kind, input]

walkVars == <<at, control, conditions, statements, env, live, shadowed, entered>>
seVars   == <<table, scopeLevel, constraints, isAlwaysFalse, stopped>>
vars     == <<cfgVars, walkVars, seVars, answer>>

GLOBAL_SCOPE == 0

ParamsOf(f) == {f.params[i] : i \in DOMAIN f.params}
Inputs      == [ParamsOf(fn) -> Input]
Eval(v, input) == v.off + IF v.in \in DOMAIN input THEN input[v.in] ELSE 0

-----------------------------------------------------------------------------
(* The elements of s at the places in I, in their order *)
Only(s, I) ==
  [n \in 1 .. Cardinality(I) |-> s[CHOOSE i \in I : Cardinality({j \in I : j <= i}) = n]]

(* Mutant: the variables of the scope around go with those of the scope    *)
(* that ends.                                                              *)
deleteScopeLevelAround(level) == Only(table, {i \in DOMAIN table : table[i].level # level - 1})

(* VariableNodeTable: found by name, the first entry counts.  An entry of  *)
(* the same name is not added.  A name that is not found stays as it is.   *)
Found(name) == {i \in DOMAIN table : table[i].name = name}
FirstOf(S)  == CHOOSE i \in S : \A j \in S : i <= j
LastOf(S)   == CHOOSE i \in S : \A j \in S : i >= j

Added(name, level) ==
  IF Found(name) # {} THEN table
  ELSE Append(table, [name |-> name, level |-> level, val |-> [in |-> "", off |-> 0]])

Assigned(tab, name, v) ==
  LET S == {i \in DOMAIN tab : tab[i].name = name}
  IN  IF S = {} THEN tab ELSE [tab EXCEPT ![FirstOf(S)].val = v]

deleteScopeLevelAt(level) == Only(table, {i \in DOMAIN table : table[i].level # level})

(* Mutant: variables are not replaced by their values. *)
SymbolicUnreplaced(stm) == [in |-> stm.from, off |-> stm.add]

(* ExpressionRewriterUtils.rewrite of from + add *)
Symbolic(stm) ==
  LET v == IF stm.from = "" THEN [in |-> "", off |-> 0]
           ELSE IF Found(stm.from) = {} THEN [in |-> stm.from, off |-> 0]
           ELSE table[FirstOf(Found(stm.from))].val
  IN  [v EXCEPT !.off = @ + stm.add]

(* The same by the rules of C: the innermost declaration counts. *)
Meant(stm) ==
  LET v == IF stm.from = "" THEN [in |-> "", off |-> 0]
           ELSE env[LastOf({i \in DOMAIN env : env[i].name = stm.from})].val
  IN  [v EXCEPT !.off = @ + stm.add]

-----------------------------------------------------------------------------
(* createMappingTable, and the start of the loop of symbolicTestpath *)
Parameters(f) ==
  [i \in DOMAIN f.params |-> [name |-> f.params[i], level |-> GLOBAL_SCOPE,
                              val |-> [in |-> f.params[i], off |-> 0]]]

Start ==
  /\ phase = "built" /\ at = 0 /\ Comparable(fn)
  /\ at' = BEGIN
  /\ control' = <<Frame("run", fn.body)>>
  /\ env' = Parameters(fn)
  /\ live' = Inputs
  /\ table' = Parameters(fn)
  /\ scopeLevel' = 1
  /\ UNCHANGED <<cfgVars, conditions, statements, shadowed, entered, constraints, isAlwaysFalse, stopped, answer>>

Running == ~isAlwaysFalse /\ ~stopped

(* The execution enters and leaves blocks; the variables of those it       *)
(* leaves are gone.                                                        *)
Outer(e, k) == Only(e, {i \in DOMAIN e : e[i].level <= Depth(k)})
Leave(k)    == Outer(env, k)

(* A goto leads into a block that the path does not open. *)
AtGoto == Head(control).at = "run" /\ Kind(fn, Head(control).stm) = "goto"

Settle ==
  /\ at # 0 /\ IsSilent(fn, control)
  /\ control' = Silently(fn, control)
  /\ env' = Leave(control')
  /\ entered' = (entered \/ (AtGoto /\ Depth(control') > Depth(control)))
  /\ UNCHANGED <<cfgVars, at, conditions, statements, live, shadowed, seVars, answer>>

(* parseScope, and nothing for the other nodes without a statement *)
PassFlag ==
  /\ at # 0 /\ ~IsSilent(fn, control)
  /\ nodes[at].kind \in {"begin", "open", "close", "mark"}
  /\ at' = nodes[at].t
  /\ IF Running /\ nodes[at].kind = "open"
     THEN /\ scopeLevel' = scopeLevel + 1
          /\ UNCHANGED table
     ELSE IF Running /\ nodes[at].kind = "close"
     THEN /\ table' = deleteScopeLevelAt(scopeLevel)
          /\ scopeLevel' = scopeLevel - 1
     ELSE UNCHANGED <<table, scopeLevel>>
  /\ UNCHANGED <<cfgVars, control, conditions, statements, env, live, shadowed, entered, constraints, isAlwaysFalse, stopped, answer>>

(* Whether the node and the execution show the same *)
AtEvent == /\ at # 0 /\ ~IsSilent(fn, control)
           /\ nodes[at].kind \notin {"begin", "open", "close", "mark"}
Agrees  == [kind |-> nodes[at].kind, stm |-> nodes[at].stm] = EventOf(fn, control)

(* An assignment, or a declaration with its initial value *)
Execute ==
  /\ AtEvent /\ Agrees /\ nodes[at].kind \notin {"cond", "end"}
  /\ statements < MaxStatements
  /\ statements' = statements + 1
  /\ LET s   == nodes[at].stm
         stm == fn.ast[s]
         sets == stm.kind \in {"expr", "decl"}
         declared == IF stm.kind = "decl" THEN Added(stm.var, scopeLevel) ELSE table
     IN  /\ at' = nodes[at].t
         /\ control' = Executed(fn, control)
         /\ env' = LET old == IF stm.kind = "decl"
                              THEN Append(env, [name |-> stm.var, level |-> Depth(control),
                                                val |-> Meant(stm)])
                              ELSE env
                       own == LastOf({i \in DOMAIN old : old[i].name = stm.var})
                       new == IF sets THEN [old EXCEPT ![own].val = Meant(stm)] ELSE old
                   IN  Outer(new, control')
         /\ shadowed' = (shadowed \/ (/\ stm.kind = "decl"
                                       /\ \E i \in DOMAIN env : env[i].name = stm.var))
         /\ stopped' = (stopped \/ (Running /\ ~stm.ok))
         /\ table' = IF Running /\ sets /\ stm.ok
                     THEN Assigned(declared, stm.var, Symbolic(stm)) ELSE table
  /\ UNCHANGED <<cfgVars, conditions, live, entered, scopeLevel, constraints, isAlwaysFalse, answer>>

(* The condition of a node.  The labels before a statement of a switch are *)
(* one condition, joined by joinCaseSwitch.                                *)
ConditionOf(s) ==
  IF fn.ast[s].kind # "case" THEN fn.ast[s]
  ELSE LET p == Parent(fn, s)
           i == Index(fn, s)
           c == fn.ast[Parts(fn, p)[1]]
       IN  [from |-> c.from, add |-> c.add, bare |-> c.bare, ok |-> c.ok,
            in |-> UNION {fn.ast[Parts(fn, p)[j]].in : j \in i .. RunEnd(fn, p, i) - 1}]

(* Mutants: the condition is not negated, constants that hold are taken    *)
(* for ones that do not.                                                   *)
NormalizedSetPlain(cond, nextIsTrueBranch) == cond.in
AddConstraintInverted(c) ==
  /\ constraints' = IF c.val.in = "" THEN constraints ELSE Append(constraints, c)
  /\ isAlwaysFalse' = (isAlwaysFalse \/ (c.val.in = "" /\ c.val.off \in c.in))

(* UnaryNormalizer.normalizeCondition: the condition is negated unless the *)
(* next node is the true one; a name alone is compared with 1 and 0.       *)
NormalizedSet(cond, nextIsTrueBranch) ==
  IF cond.bare THEN {IF nextIsTrueBranch THEN 1 ELSE 0}
  ELSE IF nextIsTrueBranch THEN cond.in ELSE Value \ cond.in

(* PathConstraints.add: a constant condition is not kept. *)
AddConstraint(c) ==
  /\ constraints' = IF c.val.in = "" THEN constraints ELSE Append(constraints, c)
  /\ isAlwaysFalse' = (isAlwaysFalse \/ (c.val.in = "" /\ c.val.off \notin c.in))

Holds(cond, input) == Eval(Meant(cond), input) \in cond.in
Branch(n, holds)   == IF holds THEN nodes[n].t ELSE nodes[n].f

Decide(holds) ==
  /\ AtEvent /\ Agrees /\ nodes[at].kind = "cond"
  /\ conditions < MaxConditions
  /\ conditions' = conditions + 1
  /\ LET cond == ConditionOf(nodes[at].stm)
         next == Branch(at, holds)
     IN  /\ at' = next
         /\ control' = Decided(fn, control, holds)
         /\ env' = Leave(control')
         /\ live' = {input \in live : Branch(at, Holds(cond, input)) = next}
         /\ IF Running /\ cond.ok
            THEN AddConstraint([val |-> Symbolic(cond),
                                in  |-> NormalizedSet(cond, nodes[at].t = next)])
            ELSE UNCHANGED <<constraints, isAlwaysFalse>>
         /\ stopped' = (stopped \/ (Running /\ ~cond.ok))
  /\ UNCHANGED <<cfgVars, statements, shadowed, entered, table, scopeLevel, answer>>

-----------------------------------------------------------------------------
(* RelatedConstraintsChecker: whether the last constraint is the only one, *)
(* or has a parameter in common with an earlier one                        *)
Related(cs) ==
  /\ cs # <<>>
  /\ \/ Len(cs) = 1
     \/ \E i \in 1 .. Len(cs) - 1 : cs[i].val.in = cs[Len(cs)].val.in

(* What Z3 may answer *)
Solutions(cs) == {input \in Inputs : \A i \in DOMAIN cs : Eval(cs[i].val, input) \in cs[i].in}

(* solveTestpath of the complete path: constraints that are not related    *)
(* are not solved, the path is given test data at random.                  *)
Answers(cs) ==
  IF ~Related(cs) THEN [kind : {"random"}, input : Inputs]
  ELSE IF Solutions(cs) = {} THEN {[kind |-> "NO_SOLUTION", input |-> <<>>]}
  ELSE [kind : {"solution"}, input : Solutions(cs)]

Solve ==
  /\ AtEvent /\ Agrees /\ nodes[at].kind = "end" /\ answer.kind = "none"
  /\ answer' \in Answers(constraints)
  /\ UNCHANGED <<cfgVars, walkVars, seVars>>

Init ==
  /\ CfgInit
  /\ at = 0 /\ control = <<>> /\ conditions = 0 /\ statements = 0 /\ env = <<>> /\ live = {}
  /\ shadowed = FALSE /\ entered = FALSE
  /\ table = <<>> /\ scopeLevel = 1 /\ constraints = <<>>
  /\ isAlwaysFalse = FALSE /\ stopped = FALSE
  /\ answer = [kind |-> "none", input |-> <<>>]

Walk == \/ Start \/ Settle \/ PassFlag \/ Execute
        \/ \E holds \in BOOLEAN : Decide(holds)
        \/ Solve

Next == (CfgNext /\ UNCHANGED <<walkVars, seVars, answer>>) \/ Walk

Spec     == Init /\ [][Next]_vars
FairSpec == Spec /\ WF_vars(Next)

-----------------------------------------------------------------------------
TypeOK ==
  /\ phase \in {"visit", "link", "built", "failed"}
  /\ stmList \subseteq DOMAIN nodes
  /\ at \in {0} \cup stmList
  /\ live \subseteq Inputs
  /\ scopeLevel \in Nat
  /\ isAlwaysFalse \in BOOLEAN /\ stopped \in BOOLEAN

(* The construction ends: linkStatement never follows forwarding nodes in  *)
(* a circle.                                                               *)
ConstructionEnds == <>(phase \in {"built", "failed"})

(* A path of the graph is an execution of the function. *)
PathsAreExecutions == AtEvent => Agrees

(* The scope level never falls below the depth of the blocks, so that no   *)
(* variable is deleted while it can be used, but where a goto leads into a *)
(* block.  (break, continue and goto leave levels behind.)                 *)
VariablesKept ==
  AtEvent /\ Running /\ ~entered =>
    /\ scopeLevel >= 1 + Depth(control)
    /\ \A i \in DOMAIN env : Found(env[i].name) # {}

(* As long as no name was declared twice, the table has the values the     *)
(* program has, also for the variables of a scope left by break that are   *)
(* declared again.                                                         *)
ValuesExact ==
  AtEvent /\ Running /\ ~shadowed /\ ~entered =>
    \A i \in DOMAIN env : table[FirstOf(Found(env[i].name))].val = env[i].val

(* A solution drives the path it was found for, unless a name was declared *)
(* twice, a statement was refused or the path was called always false.     *)
(* (With a goto into a block a variable may be missing in the table.)      *)
SolutionDrivesPath ==
  answer.kind = "solution" /\ ~shadowed /\ ~stopped /\ ~isAlwaysFalse /\ ~entered =>
    answer.input \in live

(* A path without solution, and one called always false, is one that no    *)
(* input takes: unless a condition is a name alone, which is taken for a   *)
(* bool, or has an empty body, when it is always taken as true.            *)
Exact(f) == /\ \A s \in DOMAIN f.ast : ~f.ast[s].bare
            /\ \A n \in stmList : nodes[n].kind = "cond" => nodes[n].t # nodes[n].f
NoSolutionMeansInfeasible ==
  (answer.kind = "NO_SOLUTION" \/ isAlwaysFalse) /\ ~shadowed /\ ~entered /\ Exact(fn) => live = {}

(* Of the functions nothing more is known than their shape.  That one is   *)
(* accepted by the compiler, which finds every name it uses in scope, and  *)
(* that what it compares stays among the values, is said of its execution. *)
Evaluated   == IF nodes[at].kind = "cond" THEN ConditionOf(nodes[at].stm) ELSE fn.ast[nodes[at].stm]
Known(name) == \E i \in DOMAIN env : env[i].name = name
InScope ==
  AtEvent /\ Agrees /\ nodes[at].kind # "end" =>
    /\ Evaluated.from # "" => Known(Evaluated.from)
    /\ nodes[at].kind # "cond" /\ Evaluated.kind = "expr" => Known(Evaluated.var)
InRange ==
  AtEvent /\ Agrees /\ nodes[at].kind = "cond" =>
    \A input \in live : Eval(Meant(Evaluated), input) \in Value
================================================================================
