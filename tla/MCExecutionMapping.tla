------------------------- MODULE MCExecutionMapping -------------------------
(***************************************************************************)
(* ExecutionMapping on small functions.  Node 1 is the "{" of the body, 12 *)
(* its "}" and 13 the end; 20 and 21 are the labels of "{" and "}", and    *)
(* any other node is labelled by itself.                                   *)
(***************************************************************************)
EXTENDS ExecutionMapping

MCNode  == 1 .. 13
MCLabel == 1 .. 21
MCScope == {20, 21}

(* A function by its successors (none for the nodes it does not have) and  *)
(* its opening and closing scopes                                          *)
Program(cond, true, false, open, close) ==
  [first |-> 1, end |-> 13, cond |-> cond,
   true  |-> [n \in MCNode |-> IF n < 12 THEN true[n] ELSE 13],
   false |-> [n \in MCNode |-> IF n < 12 THEN false[n] ELSE 13],
   next  |-> [n \in MCNode |-> IF n < 12 THEN {true[n], false[n]} ELSE {13}],
   label |-> [n \in MCNode |-> IF n \in open \cup {1} THEN 20
                               ELSE IF n \in close \cup {12} THEN 21 ELSE n],
   calls |-> [n \in MCNode |-> {0}]]

(* { if (c2) { s4; } else { s7; } s9; } *)
IfElse ==
  Program({2}, <<2, 3, 4, 5, 9, 7, 8, 9, 12, 13, 13>>, <<2, 6, 4, 5, 9, 7, 8, 9, 12, 13, 13>>,
          {3, 6}, {5, 8})

(* { while (c2) { s4; } for (s7; ...) s8; }, the scope of the for is 6, 9. *)
LoopThenScope ==
  Program({2, 10}, <<2, 3, 4, 5, 2, 7, 10, 10, 12, 8, 13>>,
          <<2, 6, 4, 5, 2, 7, 10, 10, 12, 9, 13>>, {3, 6}, {5, 9})

(* { if (c2) { { s5; } } else { { s8; } } } *)
NestedScopes ==
  Program({2}, <<2, 3, 4, 5, 9, 7, 8, 10, 11, 11, 12>>,
          <<2, 6, 4, 5, 9, 7, 8, 10, 11, 11, 12>>, {3, 4, 6, 7}, {9, 10, 11})

(* { while (c2) if (c3) { s5; } else { s8; } } *)
LoopIf ==
  Program({2, 3}, <<2, 3, 4, 5, 6, 2, 8, 9, 2, 13, 13>>,
          <<2, 12, 7, 5, 6, 2, 8, 9, 2, 13, 13>>, {4, 7}, {6, 9})

Calls(q, n, ks, next) == [q EXCEPT !.calls[n] = ks, !.next[n] = next]

(* { if (c2) { f(); s5; f(); } } *)
Recursive ==
  LET q == Program({2}, <<2, 3, 4, 1, 6, 1, 12, 13, 13, 13, 13>>,
                   <<2, 12, 4, 5, 6, 7, 12, 13, 13, 13, 13>>, {3}, {7})
  IN Calls(Calls(q, 4, {1}, {5}), 6, {1}, {7})

(* { if (c2) { f(); } else { s7; } } *)
RecursiveElse ==
  Calls(Program({2}, <<2, 3, 4, 1, 12, 7, 8, 12, 13, 13, 13>>,
                <<2, 6, 4, 5, 12, 7, 8, 12, 13, 13, 13>>, {3, 6}, {5, 8}), 4, {1}, {5})

(* { if (c2) return f(); return s4; } *)
ReturnCall ==
  Calls(Program({2}, <<2, 3, 1, 13, 13, 13, 13, 13, 13, 13, 13>>,
                <<2, 4, 1, 13, 13, 13, 13, 13, 13, 13, 13>>, {}, {}), 3, {1}, {13})

(* { if (c2) s4 = f() + f(); } *)
TwoCalls ==
  Calls(Program({2}, <<2, 4, 13, 1, 13, 13, 13, 13, 13, 13, 13>>,
                <<2, 12, 13, 12, 13, 13, 13, 13, 13, 13, 13>>, {}, {}), 4, {2}, {12})

(* { if (c2 && f()) { s4; } } *)
ShortCircuit ==
  Calls(Program({2}, <<2, 3, 4, 5, 12, 13, 13, 13, 13, 13, 13>>,
                <<2, 12, 4, 5, 12, 13, 13, 13, 13, 13, 13>>, {3}, {5}), 2, {0, 1}, {3, 12})

(* { if (c2) { } else s5; }, whose graph does not have the block 3, 4 *)
EmptyBlock ==
  [Program({2}, <<2, 12, 4, 12, 12, 13, 13, 13, 13, 13, 13>>,
           <<2, 5, 4, 12, 12, 13, 13, 13, 13, 13, 13>>, {3}, {4})
     EXCEPT !.next[2] = {3, 5}]

(* { if (c2) s; else s; } on one line *)
SameLine ==
  [Program({2}, <<2, 3, 12, 12, 13, 13, 13, 13, 13, 13, 13>>,
           <<2, 4, 12, 12, 13, 13, 13, 13, 13, 13, 13>>, {}, {})
     EXCEPT !.label[4] = 3]

MCPrograms ==
  {IfElse, LoopThenScope, NestedScopes, LoopIf, Recursive, RecursiveElse, ReturnCall,
   TwoCalls, ShortCircuit, EmptyBlock, SameLine}

(* What the theorems on the branches assume of a function holds of four    *)
(* that do not call themselves, for walks of up to 9 nodes.                *)
WalksTo(q) ==
  LET walks[k \in 1 .. 9] ==
        IF k = 1 THEN {<<q.first>>}
        ELSE UNION {{Append(v, n) : n \in After(q, v[k - 1])} : v \in walks[k - 1]}
  IN UNION {walks[k] : k \in 1 .. 9}

ASSUME ExecutionsToldApart ==
  \A q \in {IfElse, LoopThenScope, NestedScopes, LoopIf} :
    ToldApart(q, WalksTo(q)) /\ EndAlone(q)

=============================================================================
