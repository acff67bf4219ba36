------------------------ MODULE MCTestpathGeneration ------------------------
(***************************************************************************)
(* TestpathGeneration on the graphs that CFGGenerationforBranchvsStatement-*)
(* Coverage builds for typical C functions, and on every graph with two    *)
(* nodes between begin and end.                                            *)
(***************************************************************************)
EXTENDS TestpathGeneration, SequencesExt

MCNode == 0 .. 6
B == 0     \* BeginFlagCfgNode
E == 6     \* EndFlagCfgNode

(* The graph whose begin node leads to node first *)
Graph(first, cond, loop, t, f) ==
  [begin |-> B, end |-> E, cond |-> cond, loop |-> loop,
   true  |-> [n \in MCNode |-> IF n = B THEN first ELSE IF n \in DOMAIN t THEN t[n] ELSE E],
   false |-> [n \in MCNode |-> IF n \in DOMAIN f THEN f[n]
                               ELSE IF n = B THEN first
                               ELSE IF n \in DOMAIN t THEN t[n] ELSE E]]

Shapes ==
  { \* if (c1) s2; else s3;  if (c4) ;      -- c4 has an empty body
    Graph(1, {1, 4}, {}, 1 :> 2 @@ 2 :> 4 @@ 3 :> 4 @@ 4 :> E, 1 :> 3 @@ 4 :> E),
    \* while (c1) { if (c2) s3; }
    Graph(1, {1, 2}, {1}, 1 :> 2 @@ 2 :> 3 @@ 3 :> 1, 1 :> E @@ 2 :> 1),
    \* while (c1) { while (c2) s3; s4 }
    Graph(1, {1, 2}, {1, 2}, 1 :> 2 @@ 2 :> 3 @@ 3 :> 2 @@ 4 :> 1, 1 :> E @@ 2 :> 4),
    \* do { s1; while (c2) s3; } while (c4);
    Graph(1, {2, 4}, {2, 4}, 1 :> 2 @@ 2 :> 3 @@ 3 :> 2 @@ 4 :> 1, 2 :> 4 @@ 4 :> E),
    \* while (c1) ;      -- the true edge of c1 leads back to c1
    Graph(1, {1}, {1}, 1 :> 1, 1 :> E),
    \* for (;;) { s1; if (c2) break; }      -- no condition node for the loop
    Graph(1, {2}, {}, 1 :> 2 @@ 2 :> E, 2 :> 1),
    \* if (c1) { s2; s3 }  with s2 a call of the function itself: its true
    \* edge leads to BEGIN.true, its false edge to the next statement
    Graph(1, {1}, {}, 1 :> 2 @@ 2 :> 1, 1 :> E @@ 2 :> 3) }

(* Every graph with the nodes 1 and 2 between begin and end: statements,   *)
(* conditions and loops, wherever their edges lead.                        *)
Target == {1, 2, E}
Small ==
  {Graph(1, c, l, t, f) :
     c \in SUBSET {1, 2}, l \in SUBSET {1, 2},
     t \in [{1, 2} -> Target], f \in [{1, 2} -> Target]}

MCCfgs == Shapes \cup {g \in Small : g.loop \subseteq g.cond}

-----------------------------------------------------------------------------
(* Level(n): the walks of n nodes that have not left the bounds, computed  *)
(* breadth first, each step checked on the whole prefix.                   *)
Extensions(g, p) ==
  {q \in {Append(p, n) : n \in MCNode} : Allowed(g, q, Len(p))}

RECURSIVE Walks(_, _, _)
Walks(g, level, n) ==
  IF n = 0 THEN {}
  ELSE LET next == UNION {Extensions(g, p) : p \in {p \in level : Last(p) # g.end}}
       IN level \cup Walks(g, next, n - 1)

(* The walks to the end node that stay within the bounds: all of a graph   *)
(* without a free cycle, the shorter ones of the others.                   *)
MCWalksOf ==
  [g \in MCCfgs |->
     LET n == IF HasFreeCycle(g) THEN 8 ELSE StackLimit + 1
     IN  {p \in Walks(g, {<<g.begin>>}, n) : Last(p) = g.end}]

(* They all are test paths, so that none of them may be missing. *)
ASSUME WalksAreTestpaths == \A g \in MCCfgs : \A p \in MCWalksOf[g] : IsTestpath(g, p)

(* The stack has room for the graphs without a free cycle. *)
ASSUME StackSuffices == \A g \in MCCfgs : HasFreeCycle(g) \/ DepthBound(g) < StackLimit

-----------------------------------------------------------------------------
(* generateTestpaths returns, for every graph without a free cycle; for    *)
(* one with a free cycle it comes to an end too, but never returns the     *)
(* paths, which are infinitely many.                                       *)
EnumerationEnds ==
  IF HasFreeCycle(cfg) THEN <>(status \in {"overflow", "failed"})
                       ELSE <>(status \in {"done", "failed"})

=============================================================================
