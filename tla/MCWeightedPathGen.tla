------------------------- MODULE MCWeightedPathGen -------------------------
(***************************************************************************)
(* WeightedPathGen on every list of up to three paths out of a pool with   *)
(* the cases that matter: paths sharing a transition, a path through a     *)
(* loop, a single statement, a loop with an empty body, and two paths that *)
(* print alike although their nodes are the same only after filtering.     *)
(***************************************************************************)
EXTENDS WeightedPathGen

CONSTANTS a, b, c, d

MCNode == {a, b, c, d}
MCPathId == 1 .. 6

Pool ==
  { [id |-> 1, nodes |-> <<a, d>>],
    [id |-> 2, nodes |-> <<a, b, d>>],
    [id |-> 3, nodes |-> <<a, b, a, b, a, d>>],
    [id |-> 4, nodes |-> <<c>>],           \* a straight function of one statement
    [id |-> 5, nodes |-> <<a, a, d>>],     \* while (a) ;
    [id |-> 6, nodes |-> <<a, d>>] }       \* if (a) { }  d

MCPathLists == {<<>>} \cup Pool \X Pool \X Pool \cup Pool \X Pool \cup {<<p>> : p \in Pool}

=============================================================================
