-------------------------- MODULE StructuredExecution --------------------------
(***************************************************************************)
(* How the statements of CfgGeneration are executed by the rules of C: the *)
(* reference the graphs and the symbolic execution are compared with.  The *)
(* control state is a stack of frames [at, stm, i]:                        *)
(*   run   statement stm is to be executed                                 *)
(*   test  loop stm is to evaluate its condition                           *)
(*   iter  for stm is to evaluate its iteration expression                 *)
(*   pick  switch stm is to compare with its labels from statement i on    *)
(*   exit  loop or switch stm ends here, where break leads                 *)
(*   close the scope that stm has opened ends here                         *)
(* Throw, try and recursive calls are left out: Comparable says so.        *)
(***************************************************************************)
EXTENDS Integers, Sequences, FiniteSets

Frame(at, s) == [at |-> at, stm |-> s, i |-> 0]
Labels       == {"case", "default"}

Kind(f, s) == IF s = 0 THEN "null" ELSE f.ast[s].kind
Parts(f, s) == f.ast[s].kids

Depth(k) == Cardinality({i \in DOMAIN k : k[i].at = "close"})

RunFrom(f, s, i) ==
  [j \in 1 .. Len(Parts(f, s)) - i + 1 |-> Frame("run", Parts(f, s)[i + j - 1])]

(* The runs of labels of switch s that are compared, each as one condition *)
RunEnd(f, s, i) ==
  CHOOSE j \in i .. Len(Parts(f, s)) + 1 :
    /\ \A l \in i .. j - 1 : Kind(f, Parts(f, s)[l]) \in Labels
    /\ j <= Len(Parts(f, s)) => Kind(f, Parts(f, s)[j]) \notin Labels

RunStarts(f, s) ==
  {i \in 2 .. Len(Parts(f, s)) :
     /\ Kind(f, Parts(f, s)[i]) \in Labels
     /\ i > 2 => Kind(f, Parts(f, s)[i - 1]) \notin Labels}

HasDefault(f, s, i) == \E j \in i .. RunEnd(f, s, i) - 1 : Kind(f, Parts(f, s)[j]) = "default"

RunsLeft(f, s, i) == {j \in RunStarts(f, s) : j >= i /\ ~HasDefault(f, s, j)}
NextRun(f, s, i)  == CHOOSE j \in RunsLeft(f, s, i) : \A l \in RunsLeft(f, s, i) : j <= l

Defaults(f, s) == {j \in RunStarts(f, s) : HasDefault(f, s, j)}

(* The frames left when statement s has been executed *)
Parent(f, s) == CHOOSE p \in DOMAIN f.ast : \E i \in DOMAIN Parts(f, p) : Parts(f, p)[i] = s
Index(f, s)  == CHOOSE i \in DOMAIN Parts(f, Parent(f, s)) : Parts(f, Parent(f, s))[i] = s

After(f, s) ==
  LET after[t \in DOMAIN f.ast] ==
        IF t = f.body THEN <<>>
        ELSE LET p == Parent(f, t)
             IN  (CASE Kind(f, p) = "block"  ->
                         RunFrom(f, p, Index(f, t) + 1) \o <<Frame("close", p)>>
                    [] Kind(f, p) = "switch" ->
                         RunFrom(f, p, Index(f, t) + 1) \o <<Frame("exit", p), Frame("close", p)>>
                    [] Kind(f, p) = "for"    ->
                         <<Frame("iter", p), Frame("test", p), Frame("exit", p), Frame("close", p)>>
                    [] Kind(f, p) \in {"while", "do"} -> <<Frame("test", p), Frame("exit", p)>>
                    [] OTHER -> <<>>)
                 \o after[p]
  IN  after[s]

-----------------------------------------------------------------------------
(* What the top frame does: an event, a step that shows nothing, or the end *)
Events == {"expr", "decl", "return", "throw", "exit", "break", "continue", "if"}

LoopCondition(f, s) == Parts(f, s)[IF Kind(f, s) = "for" THEN 2 ELSE 1]

IsSilent(f, k) ==
  /\ k # <<>>
  /\ LET h == Head(k)
     IN  CASE h.at = "run"  -> Kind(f, h.stm) \notin Events
           [] h.at = "test" -> Kind(f, LoopCondition(f, h.stm)) = "null"
           [] h.at = "iter" -> Kind(f, Parts(f, h.stm)[3]) = "null"
           [] h.at = "pick" -> RunsLeft(f, h.stm, h.i) = {}
           [] OTHER         -> TRUE

LoopBody(f, s) ==
  IF Kind(f, s) = "for" THEN <<Frame("run", Parts(f, s)[4]), Frame("iter", s)>>
  ELSE <<Frame("run", Parts(f, s)[2])>>

(* The frames that take the place of a statement that shows nothing *)
Entered(f, s) ==
  CASE Kind(f, s) = "block"  ->
         IF Parts(f, s) = <<>> THEN <<>> ELSE RunFrom(f, s, 1) \o <<Frame("close", s)>>
    [] Kind(f, s) = "for"    ->
         <<Frame("run", Parts(f, s)[1]), Frame("test", s), Frame("exit", s), Frame("close", s)>>
    [] Kind(f, s) = "while"  -> <<Frame("test", s), Frame("exit", s)>>
    [] Kind(f, s) = "do"     -> <<Frame("run", Parts(f, s)[2]), Frame("test", s), Frame("exit", s)>>
    [] Kind(f, s) = "switch" ->
         <<[Frame("pick", s) EXCEPT !.i = 2], Frame("exit", s), Frame("close", s)>>
    [] Kind(f, s) = "label"  -> <<Frame("run", Parts(f, s)[1])>>
    [] OTHER -> <<>>

Silently(f, k) ==
  LET h == Head(k)
      s == h.stm
      rest == Tail(k)
  IN  CASE h.at = "test" -> LoopBody(f, s) \o k
        [] h.at = "pick" ->
             IF Defaults(f, s) = {} THEN rest
             ELSE RunFrom(f, s, CHOOSE i \in Defaults(f, s) : TRUE) \o rest
        [] h.at \in {"iter", "exit", "close"} -> rest
        [] h.at = "run" ->
             IF Kind(f, s) = "goto" THEN <<Frame("run", f.ast[s].to)>> \o After(f, f.ast[s].to)
             ELSE Entered(f, s) \o rest

(* The event of the top frame: the statement executed or the condition *)
(* evaluated, as a node of the graph shows it                          *)
EventOf(f, k) ==
  IF k = <<>> THEN [kind |-> "end", stm |-> 0]
  ELSE LET h == Head(k)
       IN  CASE h.at = "test" -> [kind |-> "cond", stm |-> LoopCondition(f, h.stm)]
             [] h.at = "iter" -> [kind |-> "stm", stm |-> Parts(f, h.stm)[3]]
             [] h.at = "pick" ->
                  [kind |-> "cond", stm |-> Parts(f, h.stm)[NextRun(f, h.stm, h.i)]]
             [] Kind(f, h.stm) = "if" -> [kind |-> "cond", stm |-> Parts(f, h.stm)[1]]
             [] Kind(f, h.stm) \in {"return", "throw", "break", "continue"} ->
                  [kind |-> Kind(f, h.stm), stm |-> h.stm]
             [] OTHER -> [kind |-> "stm", stm |-> h.stm]

First(k, At) == CHOOSE i \in DOMAIN k : k[i].at \in At /\ \A j \in 1 .. i - 1 : k[j].at \notin At

Executed(f, k) ==
  LET h == Head(k)
  IN  CASE h.at = "iter" -> Tail(k)
        [] Kind(f, h.stm) \in {"return", "throw", "exit"} -> <<>>
        [] Kind(f, h.stm) = "break"    -> SubSeq(k, First(k, {"exit"}) + 1, Len(k))
        [] Kind(f, h.stm) = "continue" -> SubSeq(k, First(k, {"iter", "test"}), Len(k))
        [] OTHER -> Tail(k)

Decided(f, k, holds) ==
  LET h == Head(k)
      s == h.stm
  IN  CASE h.at = "test" -> IF holds THEN LoopBody(f, s) \o k ELSE Tail(k)
        [] h.at = "pick" ->
             IF holds THEN RunFrom(f, s, NextRun(f, s, h.i)) \o Tail(k)
             ELSE <<[h EXCEPT !.i = RunEnd(f, s, NextRun(f, s, h.i))]>> \o Tail(k)
        [] OTHER -> <<Frame("run", Parts(f, s)[IF holds THEN 2 ELSE 3])>> \o Tail(k)

(* The functions whose graphs are compared with their execution: the graph *)
(* of the others differs.  A try block falls into its first handler, a     *)
(* call of the function or of one whose name is a prefix leads back to the *)
(* beginning, a case at the end of a switch is taken for the default, a    *)
(* label inside another statement of the switch is compared with nothing.  *)
Comparable(f) ==
  \A s \in DOMAIN f.ast :
    /\ f.ast[s].kind # "try"
    /\ f.ast[s].kind \in Labels => Parent(f, s) \in {p \in DOMAIN f.ast : Kind(f, p) = "switch"}
    /\ f.ast[s].callee = "none"
    /\ f.ast[s].kind = "switch" =>
         \A i \in RunStarts(f, s) : RunEnd(f, s, i) <= Len(Parts(f, s)) \/ HasDefault(f, s, i)
================================================================================
