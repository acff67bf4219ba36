----------------------------- MODULE CfgGeneration -----------------------------
(***************************************************************************)
(* How a control flow graph is made of the syntax tree of a function       *)
(* (cfg/CFGGenerationforBranchvsStatementCoverage.java).  The nested calls *)
(* of visitStatement are an agenda, a stack of the calls to come; each has *)
(* the node it starts from, the node it leads to, and where a break, a     *)
(* continue and a throw in it lead.  Nodes that only forward are removed   *)
(* at the end, in a depth first walk from the beginning.                   *)
(*                                                                         *)
(* A statement is a record [kind, kids, to, callee, ...].  kids are the    *)
(* numbers of its parts in the tree, 0 for an absent one: condition and    *)
(* branches of if; initialisation, condition, iteration and body of for;   *)
(* condition and body of while and do; controller and statements of        *)
(* switch; tried block and handlers of try.  to is the label statement a   *)
(* goto names.  callee tells what the calls in it call: this function      *)
(* ("self"), one whose name is a prefix of this one's ("prefix"), neither  *)
(* ("none").  within are the jumps, of break and continue, that may stand  *)
(* there: those of the loops and switches around it.                       *)
(***************************************************************************)
EXTENDS Integers, Sequences

CONSTANT Functions      \* the functions whose graphs are made

CaseLabel == {"case", "default"}
Simple    == {"expr", "decl", "return", "throw", "exit"}
Kinds     == Simple \cup CaseLabel \cup
             {"null", "block", "if", "for", "while", "do", "switch", "break",
              "continue", "label", "goto", "try", "catch", "catchall"}

HasParts(stm) ==
  CASE stm.kind = "if"                             -> Len(stm.kids) = 3
    [] stm.kind = "for"                            -> Len(stm.kids) = 4
    [] stm.kind \in {"while", "do"}                -> Len(stm.kids) = 2
    [] stm.kind \in {"switch", "try"}              -> Len(stm.kids) > 0
    [] stm.kind \in {"label", "catch", "catchall"} -> Len(stm.kids) = 1
    [] OTHER                                       -> TRUE

Binds(kind) == CASE kind \in {"for", "while", "do"} -> {"break", "continue"}
                 [] kind = "switch"                  -> {"break"}
                 [] OTHER                            -> {}

(* What stands as part i of statement s, "null" if it is absent *)
PartKind(f, s, i) == IF f.ast[s].kids[i] = 0 THEN "null" ELSE f.ast[f.ast[s].kids[i]].kind

(* What the grammar of C says of a statement besides its parts: there is   *)
(* an expression to decide but in a for, which begins with an expression,  *)
(* a declaration or nothing; a switch has one default at most, a handler   *)
(* belongs to a try.                                                       *)
Grammatical(f, s) ==
  /\ f.ast[s].kind \in {"if", "while", "do", "switch"} => PartKind(f, s, 1) = "expr"
  /\ f.ast[s].kind = "for" => /\ PartKind(f, s, 1) \in {"null", "expr", "decl"}
                              /\ PartKind(f, s, 2) \in {"null", "expr"}
                              /\ PartKind(f, s, 3) \in {"null", "expr"}
  /\ f.ast[s].kind = "switch" =>
       \A i, j \in 2 .. Len(f.ast[s].kids) :
         PartKind(f, s, i) = "default" /\ PartKind(f, s, j) = "default" => i = j
  /\ f.ast[s].kind \in {"catch", "catchall"} =>
       \E p \in 1 .. Len(f.ast) : f.ast[p].kind = "try" /\ \E i \in 2 .. Len(f.ast[p].kids) : f.ast[p].kids[i] = s

(* Expressions and jumps have no statements in them.  The statements are a *)
(* tree, in which each is numbered after the one it is a part of.          *)
Leaves == Simple \cup CaseLabel \cup {"null", "break", "continue", "goto"}
IsTree(f) ==
  LET PartOf(s) == {p \in DOMAIN f.ast : \E i \in 1 .. Len(f.ast[p].kids) : f.ast[p].kids[i] = s}
  IN  \A s \in DOMAIN f.ast :
        /\ f.ast[s].kind \in Leaves => f.ast[s].kids = <<>>
        /\ s # f.body => \E p \in DOMAIN f.ast : p < s /\ PartOf(s) = {p}

WellFormed(f) ==
  LET S == 1 .. Len(f.ast)
  IN  /\ DOMAIN f.ast = S
      /\ \A s \in S :
           /\ Grammatical(f, s)
           /\ f.ast[s].kind \in Kinds
           /\ f.ast[s].kids \in Seq({0} \cup S)
           /\ HasParts(f.ast[s])
           /\ f.ast[s].kind = "goto" => f.ast[s].to \in S
           /\ f.ast[s].kind \in {"break", "continue"} => f.ast[s].kind \in f.ast[s].within
           /\ \A i \in 1 .. Len(f.ast[s].kids) :
                f.ast[s].kids[i] # 0 =>
                  f.ast[f.ast[s].kids[i]].within \subseteq f.ast[s].within \cup Binds(f.ast[s].kind)
      /\ IsTree(f)
      /\ f.body \in S /\ f.ast[f.body].kind = "block" /\ f.ast[f.body].within = {}

ASSUME FunctionsAssumption == \A f \in Functions : WellFormed(f)

VARIABLES
  fn,           \* the function, functionNode
  nodes,        \* the nodes made so far; a successor that is not set is 0
  labels,       \* labels[s]: the node of label statement s, 0 before it is met
  agenda,       \* the calls under way, innermost first
  stmList,      \* the nodes linked: the graph in the end
  phase         \* "visit", "link", "built", or "failed" by an exception

cfgVars == <<fn, nodes, labels, agenda, stmList, phase>>

-----------------------------------------------------------------------------
(* CfgNode: what it stands for and its two successors *)
Node(kind, stm, t, f) == [kind |-> kind, stm |-> stm, t |-> t, f |-> f]
Through(kind, stm, next) == Node(kind, stm, next, next)
Forward == Through("forward", 0, 0)

BEGIN == 1
END   == 2

(* setBranch of node b, and the new nodes *)
Begun(b, first, new) == [nodes EXCEPT ![b].t = first, ![b].f = first] \o new

KindOf(s)  == IF s = 0 THEN "null" ELSE fn.ast[s].kind
Kid(i)     == fn.ast[Head(agenda).stm].kids[i]
Last       == Len(nodes)
Top        == Head(agenda)
NextIs(do) == agenda # <<>> /\ Top.do = do
Visits(K)  == phase = "visit" /\ NextIs("visit") /\ KindOf(Top.stm) \in K

(* A call of visitStatement like the one under way, but for another        *)
(* statement between other nodes                                           *)
Visit(s, begin, end) == [Top EXCEPT !.stm = s, !.begin = begin, !.end = end]

(* The call under way makes the calls of sequence inner, then returns. *)
Calls(inner) == agenda' = inner \o Tail(agenda)

Unlabelled == UNCHANGED <<fn, labels, stmList, phase>>

-----------------------------------------------------------------------------
(* if: each branch starts at a node of its own and leads to the end. *)
VisitIf ==
  /\ Visits({"if"})
  /\ nodes' = Begun(Top.begin, Last + 1,
                <<Node("cond", Kid(1), Last + 2, Last + 3), Forward, Forward>>)
  /\ Calls(<<Visit(Kid(2), Last + 2, Top.end), Visit(Kid(3), Last + 3, Top.end)>>)
  /\ Unlabelled

(* A label directly in a switch, which visitSwitch takes itself *)
OfSwitch(s) ==
  \E p \in DOMAIN fn.ast : fn.ast[p].kind = "switch" /\ \E i \in 2 .. Len(fn.ast[p].kids) : fn.ast[p].kids[i] = s

(* An absent or a null statement, and a label in the chain of the          *)
(* statements of its switch                                                *)
VisitNothing ==
  /\ Visits({"null"} \cup CaseLabel)
  /\ KindOf(Top.stm) \in CaseLabel => OfSwitch(Top.stm)
  /\ nodes' = Begun(Top.begin, Top.end, <<>>)
  /\ Calls(<<>>)
  /\ Unlabelled

(* Mutant: an empty block leaves its beginning unconnected. *)
VisitBlockEmptyLost ==
  /\ Visits({"block"})
  /\ LET kids     == fn.ast[Top.stm].kids
         k        == Len(kids)
         point(i) == IF i = 0 THEN Last + 1 ELSE IF i = k THEN Last + 2 ELSE Last + 2 + i
     IN  IF k = 0
         THEN /\ UNCHANGED nodes
              /\ Calls(<<>>)
         ELSE /\ nodes' = Begun(Top.begin, Last + 1,
                            <<Through("open", 0, 0), Through("close", 0, Top.end)>>
                            \o [i \in 1 .. k - 1 |-> Forward])
              /\ Calls([i \in 1 .. k |-> Visit(kids[i], point(i - 1), point(i))])
  /\ Unlabelled

(* A block: its statements between an opening and a closing scope.  An     *)
(* empty one has no scope.                                                 *)
VisitBlock ==
  /\ Visits({"block"})
  /\ LET kids     == fn.ast[Top.stm].kids
         k        == Len(kids)
         point(i) == IF i = 0 THEN Last + 1 ELSE IF i = k THEN Last + 2 ELSE Last + 2 + i
     IN  IF k = 0
         THEN /\ nodes' = Begun(Top.begin, Top.end, <<>>)
              /\ Calls(<<>>)
         ELSE /\ nodes' = Begun(Top.begin, Last + 1,
                            <<Through("open", 0, 0), Through("close", 0, Top.end)>>
                            \o [i \in 1 .. k - 1 |-> Forward])
              /\ Calls([i \in 1 .. k |-> Visit(kids[i], point(i - 1), point(i))])
  /\ Unlabelled

(* for: break leads to the closing scope, continue to the iteration.  That *)
(* of a for without condition cannot follow an empty body.                 *)
VisitFor ==
  /\ Visits({"for"})
  /\ LET bfInit == Last + 2   bfCond   == Last + 3   bfBody    == Last + 4
         out    == Last + 5   continue == Last + 6   condition == Last + 7
         endless == KindOf(Kid(2)) = "null"
         in(s, begin, end) == [Visit(s, begin, end) EXCEPT !.break = out, !.continue = continue]
     IN  /\ nodes' = Begun(Top.begin, Last + 1,
              <<Through("open", 0, bfInit), Forward,
                Through("forward", 0, IF endless THEN bfBody ELSE condition), Forward,
                Through("close", 0, Top.end), Forward>>
              \o IF endless THEN <<>> ELSE <<Node("cond", Kid(2), bfBody, out)>>)
         /\ Calls(<<in(Kid(1), bfInit, bfCond), in(Kid(4), bfBody, continue),
                    [in(Kid(3), continue, bfCond) EXCEPT !.do = "iterate"]>>)
  /\ Unlabelled

(* The rest of visitStatement for a for, once its body has been visited.   *)
(* Mutants: the check is left out, or looks one node too early.            *)
EndlessNever(a) == FALSE
EndlessAtOnce(a) == nodes[a.end].t = a.begin

Endless(a) == nodes[nodes[a.end].t].t = a.begin

Iterate ==
  /\ phase = "visit" /\ NextIs("iterate") /\ ~Endless(Top)
  /\ nodes' = IF KindOf(Top.stm) = "null" THEN Begun(Top.begin, Top.end, <<>>)
              ELSE Begun(Top.begin, Last + 1, <<Through("stm", Top.stm, Top.end)>>)
  /\ Calls(<<>>)
  /\ Unlabelled

(* "This FOR statement is infinity": the exception ends parse. *)
ForFails ==
  /\ phase = "visit" /\ NextIs("iterate") /\ Endless(Top)
  /\ phase' = "failed"
  /\ agenda' = <<>>
  /\ UNCHANGED <<fn, nodes, labels, stmList>>

(* Mutant: continue leads to the body of a do. *)
VisitDoContinueAtBody ==
  /\ Visits({"do"})
  /\ nodes' = Begun(Top.begin, Last + 1,
                <<Forward, Through("forward", 0, Last + 3), Node("cond", Kid(1), Last + 1, Top.end)>>)
  /\ Calls(<<[Visit(Kid(2), Last + 1, Last + 2) EXCEPT !.break = Top.end, !.continue = Last + 1]>>)
  /\ Unlabelled

(* while and do: continue leads to the condition, break to the end.  The   *)
(* visit of a while starts at the condition, the one of a do at the body.  *)
VisitWhile ==
  /\ Visits({"while"})
  /\ nodes' = Begun(Top.begin, Last + 1,
                <<Through("forward", 0, Last + 3), Forward, Node("cond", Kid(1), Last + 2, Top.end)>>)
  /\ Calls(<<[Visit(Kid(2), Last + 2, Last + 1) EXCEPT !.break = Top.end, !.continue = Last + 1]>>)
  /\ Unlabelled

VisitDo ==
  /\ Visits({"do"})
  /\ nodes' = Begun(Top.begin, Last + 1,
                <<Forward, Through("forward", 0, Last + 3), Node("cond", Kid(1), Last + 1, Top.end)>>)
  /\ Calls(<<[Visit(Kid(2), Last + 1, Last + 2) EXCEPT !.break = Top.end, !.continue = Last + 2]>>)
  /\ Unlabelled

-----------------------------------------------------------------------------
(* switch.  The statements follow each other, break leads to the closing   *)
(* scope.  Every run of case labels before a statement is one condition,   *)
(* tried in their order; a run with default in it, or with no statement    *)
(* after it, is none.                                                      *)
IsGroup(kids, i) ==
  /\ KindOf(kids[i]) = "case"
  /\ i > 2 => KindOf(kids[i - 1]) \notin CaseLabel
  /\ \E j \in i .. Len(kids) :
       /\ KindOf(kids[j]) \notin CaseLabel
       /\ \A l \in i .. j - 1 : KindOf(kids[l]) = "case"

VisitSwitch ==
  /\ Visits({"switch"})
  /\ LET kids  == fn.ast[Top.stm].kids
         k     == Len(kids)                      \* kids[1] is the controller
         out   == Last + 2
         at(i) == Last + 1 + i                   \* where statement i starts
         try(i) == Last + k + 1 + i              \* where the labels from i on are tried
         defaults == {i \in 2 .. k : KindOf(kids[i]) = "default"}
         default  == IF defaults = {} THEN out ELSE at(CHOOSE i \in defaults : TRUE)
         link(i)  == IF i = k + 1 THEN Through("forward", 0, default)
                     ELSE IF IsGroup(kids, i) THEN Node("cond", kids[i], at(i), try(i + 1))
                     ELSE Through("forward", 0, try(i + 1))
     IN  /\ nodes' = Begun(Top.begin, Last + 1,
              <<Through("open", 0, try(2)), Through("close", 0, Top.end)>>
              \o [i \in 1 .. k |-> IF i = k THEN Through("forward", 0, out) ELSE Forward]
              \o [i \in 1 .. k |-> link(i + 1)])
         /\ Calls([i \in 1 .. k - 1 |->
               [Visit(kids[i + 1], at(i + 1), at(i + 2)) EXCEPT !.break = out]])
  /\ Unlabelled

(* break and continue lead out without the closing scopes between. *)
VisitJump ==
  /\ Visits({"break", "continue"})
  /\ nodes' = Begun(Top.begin, Last + 1,
                <<Through(KindOf(Top.stm), Top.stm,
                          IF KindOf(Top.stm) = "break" THEN Top.break ELSE Top.continue)>>)
  /\ Calls(<<>>)
  /\ Unlabelled

(* A label and the gotos to it share a node, made by the first one met. *)
VisitLabel ==
  /\ Visits({"label", "goto"})
  /\ LET label == IF KindOf(Top.stm) = "goto" THEN fn.ast[Top.stm].to ELSE Top.stm
         ref   == IF labels[label] = 0 THEN Last + 1 ELSE labels[label]
     IN  /\ labels' = [labels EXCEPT ![label] = ref]
         /\ nodes' = Begun(Top.begin, ref,
                       IF labels[label] = 0 THEN <<Through("mark", label, 0)>> ELSE <<>>)
         /\ Calls(IF KindOf(Top.stm) = "label" THEN <<Visit(Kid(1), ref, Top.end)>> ELSE <<>>)
  /\ UNCHANGED <<fn, stmList, phase>>

(* try: a throw in the block, and its end too, lead to the first handler;  *)
(* the false branch of a handler to the next one, the last one's to where  *)
(* a throw leads outside.  catch (...) ends the list.                      *)
VisitTry ==
  /\ Visits({"try"})
  /\ LET kids    == fn.ast[Top.stm].kids
         all     == {i \in 2 .. Len(kids) : KindOf(kids[i]) = "catchall"}
         r       == IF all = {} THEN Len(kids) - 1
                    ELSE (CHOOSE i \in all : \A j \in all : i <= j) - 1
         start   == Last + 1
         done    == Last + 2
         entry(i) == Last + 3 + 3 * i
         handler(j) == LET i == (j + 2) \div 3  \* the nodes of handler i: label, body, next entry
                           s == kids[i + 1]
                       IN  CASE j % 3 = 1 -> Node("mark", s, entry(i - 1) + 2,
                                                  IF KindOf(s) = "catchall" THEN entry(i - 1) + 2
                                                  ELSE entry(i))
                             [] j % 3 = 2 -> Forward
                             [] OTHER     -> Through("forward", 0, IF i = r THEN Top.throw
                                                                   ELSE entry(i) + 1)
     IN  /\ nodes' = Begun(Top.begin, start,
              <<Through("mark", Top.stm, 0), Through("mark", 0, Top.end),
                Through("forward", 0, IF r = 0 THEN Top.throw ELSE entry(0) + 1)>>
              \o [j \in 1 .. 3 * r |-> handler(j)])
         /\ Calls(<<[Visit(kids[1], start, entry(0)) EXCEPT !.throw = entry(0)]>>
              \o [i \in 1 .. r |-> Visit(kids[i + 1], entry(i - 1) + 2, done)])
  /\ Unlabelled

(* The body of a handler *)
VisitCatch ==
  /\ Visits({"catch", "catchall"})
  /\ agenda' = <<[Top EXCEPT !.stm = Kid(1)]>> \o Tail(agenda)
  /\ UNCHANGED nodes
  /\ Unlabelled

(* "functionNode.getName().startsWith(name)", for a name called in it *)
FoundRecursive(s) == fn.ast[s].callee \in {"self", "prefix"}

(* A label inside another statement of its switch is a statement too, that *)
(* nothing is compared with.                                               *)
VisitSimple ==
  /\ Visits(Simple \cup CaseLabel)
  /\ KindOf(Top.stm) \in CaseLabel => ~OfSwitch(Top.stm)
  /\ LET s     == Top.stm
         start == nodes[BEGIN].t
         node  == CASE KindOf(s) = "throw"  -> Through("throw", s, Top.throw)
                    [] KindOf(s) = "exit"   -> Through("stm", s, END)
                    [] KindOf(s) = "return" -> Through("return", s, IF FoundRecursive(s) THEN start ELSE END)
                    [] OTHER -> Node("stm", s, IF FoundRecursive(s) THEN start ELSE Top.end, Top.end)
     IN  nodes' = Begun(Top.begin, Last + 1, <<node>>)
  /\ Calls(<<>>)
  /\ Unlabelled

-----------------------------------------------------------------------------
(* linkStatement: both successors of root skip the nodes that only forward *)
(* (nextConcrete), then they are linked themselves, the true one first.    *)
Linking(root) == [Top EXCEPT !.do = "link", !.begin = root]

StartLink ==
  /\ phase = "visit" /\ agenda = <<>>
  /\ phase' = "link"
  /\ agenda' = <<[do |-> "link", stm |-> 0, begin |-> BEGIN, end |-> 0,
                  break |-> 0, continue |-> 0, throw |-> 0]>>
  /\ UNCHANGED <<fn, nodes, labels, stmList>>

LinkRoot ==
  /\ phase = "link" /\ NextIs("link")
  /\ LET root == Top.begin
     IN  IF root = 0 \/ root \in stmList
         THEN /\ agenda' = Tail(agenda)
              /\ UNCHANGED stmList
         ELSE /\ stmList' = stmList \cup {root}
              /\ agenda' = <<[Top EXCEPT !.do = "next", !.break = nodes[root].t,
                              !.continue = nodes[root].f]>> \o Tail(agenda)
  /\ UNCHANGED <<fn, nodes, labels, phase>>

(* Mutant: only the true successor is linked further. *)
NextConcreteTrueOnly ==
  /\ phase = "link" /\ NextIs("next")
  /\ nodes' = [nodes EXCEPT ![Top.begin].t = Top.break, ![Top.begin].f = Top.continue]
  /\ Calls(<<Linking(Top.break)>>)
  /\ UNCHANGED <<fn, labels, stmList, phase>>

IsForward(n) == n # 0 /\ nodes[n].kind = "forward"

NextConcrete ==
  /\ phase = "link" /\ NextIs("next")
  /\ LET t == Top.break
         f == Top.continue
     IN  CASE IsForward(t) -> /\ agenda' = <<[Top EXCEPT !.break = nodes[t].t]>> \o Tail(agenda)
                              /\ UNCHANGED nodes
           [] ~IsForward(t) /\ IsForward(f) ->
                              /\ agenda' = <<[Top EXCEPT !.continue = nodes[f].t]>> \o Tail(agenda)
                              /\ UNCHANGED nodes
           [] OTHER        -> /\ nodes' = [nodes EXCEPT ![Top.begin].t = t, ![Top.begin].f = f]
                              /\ Calls(<<Linking(t), Linking(f)>>)
  /\ UNCHANGED <<fn, labels, stmList, phase>>

FinishLink ==
  /\ phase = "link" /\ agenda = <<>>
  /\ phase' = "built"
  /\ UNCHANGED <<fn, nodes, labels, agenda, stmList>>

-----------------------------------------------------------------------------
(* parse: the body is visited from the beginning to the end, where a throw *)
(* leads too.                                                              *)
CfgInit ==
  /\ fn \in Functions
  /\ nodes = <<Through("begin", 0, 0), Through("end", 0, 0)>>
  /\ labels = [s \in 1 .. Len(fn.ast) |-> 0]
  /\ agenda = <<[do |-> "visit", stm |-> fn.body, begin |-> BEGIN, end |-> END,
                 break |-> 0, continue |-> 0, throw |-> END]>>
  /\ stmList = {}
  /\ phase = "visit"

VisitStatement ==
  \/ VisitIf \/ VisitNothing \/ VisitBlock \/ VisitFor \/ Iterate \/ ForFails
  \/ VisitWhile \/ VisitDo \/ VisitSwitch \/ VisitJump \/ VisitLabel \/ VisitTry
  \/ VisitCatch \/ VisitSimple

LinkStatement == StartLink \/ LinkRoot \/ NextConcrete \/ FinishLink

CfgNext == VisitStatement \/ LinkStatement

CfgSpec == CfgInit /\ [][CfgNext]_cfgVars

(* The graph that is built: no path ends before END, and no node that only *)
(* forwards is left in it.  A goto to a label that was not visited (in a   *)
(* handler after catch (...)) would lead nowhere.                          *)
LabelsVisited ==
  \A l \in DOMAIN labels : labels[l] # 0 => 0 \notin {nodes[labels[l]].t, nodes[labels[l]].f}
GraphClosed ==
  phase = "built" /\ LabelsVisited =>
    \A n \in stmList : /\ nodes[n].kind # "forward"
                       /\ n # END => {nodes[n].t, nodes[n].f} \subseteq stmList

(* The construction fails on endless loops without body alone. *)
EndlessFor(f) ==
  \E s \in DOMAIN f.ast :
    /\ f.ast[s].kind = "for" /\ PartKind(f, s, 2) = "null"
    /\ \/ PartKind(f, s, 4) = "null"
       \/ PartKind(f, s, 4) = "block" /\ f.ast[f.ast[s].kids[4]].kids = <<>>
FailsOnEndlessFor == /\ phase = "failed" => EndlessFor(fn)
                     /\ phase = "built" => ~EndlessFor(fn)
================================================================================
