----------------------------- MODULE MCFunctions -----------------------------
(***************************************************************************)
(* Small functions to test: nodes 1, 2 and 3 are conditions, 4 to 8 are    *)
(* statements, 9 is the closing scope of the body and 10 the end.          *)
(***************************************************************************)
EXTENDS TestedFunction

MCNode     == 1 .. 10
MCEnd      == 10
MCTestData == 1 .. 4

(* true and false hold the successors of the nodes 1 to 8. *)
Function(cond, true, false, marks, testpaths) ==
  [cond |-> cond, true |-> true \o <<10, 10>>, false |-> false \o <<10, 10>>,
   marks |-> marks, scopes |-> {}, indexed |-> {}, dead |-> {}, flaky |-> {}, exact |-> TRUE,
   testpaths |-> testpaths]

(* if (c1) s4; else s5;  if (c2) s6; else s7; *)
TwoIfs ==
  Function({1, 2}, <<4, 6, 9, 2, 2, 9, 9, 9>>, <<5, 7, 9, 2, 2, 9, 9, 9>>,
    <<  <<1, 4, 2, 6, 9>>, <<1, 4, 2, 7, 9>>, <<1, 5, 2, 6, 9>>, <<1, 5, 2, 7, 9>>  >>,
    <<  <<1, 5, 2, 7, 9, 10>>, <<1, 5, 2, 6, 9, 10>>,
        <<1, 4, 2, 7, 9, 10>>, <<1, 4, 2, 6, 9, 10>>  >>)

(* if (c1) s4; else if (c2) { if (c3) s5; else s6; } else s7; *)
Nested ==
  Function({1, 2, 3}, <<4, 3, 5, 9, 9, 9, 9, 9>>, <<2, 7, 6, 9, 9, 9, 9, 9>>,
    <<  <<1, 4, 9>>, <<1, 2, 7, 9>>, <<1, 2, 3, 5, 9>>, <<1, 2, 3, 6, 9>>  >>,
    <<  <<1, 2, 7, 9, 10>>, <<1, 2, 3, 6, 9, 10>>, <<1, 2, 3, 5, 9, 10>>, <<1, 4, 9, 10>>  >>)

(* if (c1) s4;  s5;   -- the false branch of c1 leads to s5 *)
NoElse ==
  Function({1}, <<4, 9, 9, 5, 9, 9, 9, 9>>, <<5, 9, 9, 5, 9, 9, 9, 9>>,
    <<  <<1, 4, 5, 9>>, <<1, 4, 5, 9>>, <<1, 5, 9>>, <<1, 4>>  >>,
    <<  <<1, 5, 9, 10>>, <<1, 4, 5, 9, 10>>  >>)

(* while (c1) s4; *)
Loop ==
  Function({1}, <<4, 9, 9, 1, 9, 9, 9, 9>>, <<9, 9, 9, 1, 9, 9, 9, 9>>,
    <<  <<1, 9>>, <<1, 4, 1, 9>>, <<1, 4, 1, 4, 1, 9>>, <<1, 4, 1, 4, 1, 4, 1, 9>>  >>,
    <<  <<1, 9, 10>>, <<1, 4, 1, 9, 10>>  >>)

(* The same loop, run either never or twice *)
LoopTwice == [Loop EXCEPT !.marks = [t \in 1 .. 4 |-> IF t < 3 THEN @[1] ELSE @[3]]]

(* if (c1) s4; else s5;  s6;  with c1 always true *)
Infeasible ==
  Function({1}, <<4, 9, 9, 6, 6, 9, 9, 9>>, <<5, 9, 9, 6, 6, 9, 9, 9>>,
    <<  <<1, 4, 6, 9>>, <<1, 4, 6, 9>>, <<1, 4>>, <<>>  >>,
    <<  <<1, 5, 6, 9, 10>>, <<1, 4, 6, 9, 10>>  >>)

(* try { if (c1) s4; else s5; } catch (E) { s8; } catch (F) { s2; }, where *)
(* the "start try" 6 of the graph matches no mark, so that nothing can be  *)
(* mapped: 7 and 3 are the handlers' nodes, with the next one as false     *)
(* successor.                                                              *)
Try ==
  Function({1}, <<4, 9, 2, 7, 7, 1, 8, 9>>, <<5, 9, 10, 7, 7, 1, 3, 9>>,
    << <<>>, <<>>, <<>>, <<>> >>,
    <<  <<6, 1, 5, 7, 8, 9, 10>>, <<6, 1, 4, 7, 8, 9, 10>>  >>)

(* if (c1) { if (c2) s6; else s7; } else { s8; }, with the scopes 4 and 5 *)
Blocks ==
  [Function({1, 2}, <<4, 6, 9, 2, 8, 9, 9, 9>>, <<5, 7, 9, 2, 8, 9, 9, 9>>,
     <<  <<1, 4, 2, 6, 9>>, <<1, 4, 2, 7, 9>>, <<1, 5, 8, 9>>, <<1, 5, 8, 9>>  >>,
     <<  <<1, 5, 8, 9, 10>>, <<1, 4, 2, 7, 9, 10>>, <<1, 4, 2, 6, 9, 10>>  >>)
   EXCEPT !.scopes = {4, 5}]

(* if (c1) { if (c2) ; } else { s8; }, both branches of c2 lead to 9 *)
EmptyBehind ==
  [Function({1, 2}, <<4, 9, 9, 2, 8, 9, 9, 9>>, <<5, 9, 9, 2, 8, 9, 9, 9>>,
     <<  <<1, 4, 2, 9>>, <<1, 4, 2, 9>>, <<1, 5, 8, 9>>, <<1, 5, 8, 9>>  >>,
     <<  <<1, 5, 8, 9, 10>>, <<1, 4, 2, 9, 10>>, <<1, 4, 2, 9, 10>>  >>)
   EXCEPT !.scopes = {4, 5}]

Straight ==
  Function({}, <<4, 9, 9, 5, 9, 9, 9, 9>>, <<4, 9, 9, 5, 9, 9, 9, 9>>,
           <<  <<4, 5, 9>>, <<4, 5, 9>>, <<4, 5, 9>>, <<4, 5, 9>>  >>,
           <<  <<4, 5, 9, 10>>  >>)

(* No execution of it leaves marks. *)
Killed == [Straight EXCEPT !.dead = MCTestData]

(* One crash, one test data that leaves no marks, one that may not *)
Failing == [Nested EXCEPT !.marks[3] = <<1, 2, 3>>, !.dead = {2}, !.flaky = {1}]

(* if (a[i]) s4; else s5;  if (c2) s6; else s7; *)
IndexedIf == [TwoIfs EXCEPT !.indexed = {1}]

(* c2 holds exactly when c1 does. *)
Dependent == [TwoIfs EXCEPT !.marks[2] = TwoIfs.marks[1], !.marks[3] = TwoIfs.marks[4]]

AllFunctions ==
  {TwoIfs, Nested, NoElse, Loop, LoopTwice, Infeasible, Try, Blocks, Straight, Killed, Failing,
   IndexedIf, Dependent, EmptyBehind, [Nested EXCEPT !.exact = FALSE], [Loop EXCEPT !.flaky = {3}]}

=============================================================================
