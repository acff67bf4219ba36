----------------------- MODULE SymbolicExecution_proofs -----------------------
(***************************************************************************)
(* Symbolic execution, for all functions.  It leaves the graph it walks on *)
(* as it was built; its paths are executions, its table keeps the variables*)
(* of the execution and their values, and a solution drives the execution  *)
(* along the path.                                                         *)
(***************************************************************************)
EXTENDS SymbolicExecution, CfgGeneration_proofs, FiniteSetTheorems

(* Paths on the graph.                                                     *)
LEMMA WalkKeepsGraph == Walk => UNCHANGED cfgVars
<1>1. Start => UNCHANGED cfgVars
  BY DEF Start
<1>2. Settle => UNCHANGED cfgVars
  BY DEF Settle
<1>3. PassFlag => UNCHANGED cfgVars
  BY DEF PassFlag
<1>4. Execute => UNCHANGED cfgVars
  BY DEF Execute
<1>5. ASSUME NEW holds \in BOOLEAN PROVE Decide(holds) => UNCHANGED cfgVars
  BY DEF Decide
<1>6. Solve => UNCHANGED cfgVars
  BY DEF Solve
<1>7. QED
  BY <1>1, <1>2, <1>3, <1>4, <1>5, <1>6 DEF Walk

(* Symbolic execution implements the construction of the graph: its steps  *)
(* on paths leave nodes and links alone.                                   *)
THEOREM WalksOnGraph == Spec => CfgSpec
<1>1. Init => CfgInit
  BY DEF Init
<1>2. [Next]_vars => [CfgNext]_cfgVars
  BY WalkKeepsGraph DEF Next, vars
<1>3. QED
  BY <1>1, <1>2, PTL DEF Spec, CfgSpec

(* The graph that paths are walked on has no way that ends before END and  *)
(* no node that only forwards.                                             *)
THEOREM ClosedUnderPaths == Spec => []GraphClosed
BY WalksOnGraph, Closed, PTL

(* A graph laid out for a regular function, no call being under way *)
Finished(f, N, V) == f \in Functions /\ Regular(f) /\ Lays(f, N, V, <<>>)

(* The frames of an execution, numbered from the bottom *)
Frames(f)  == [at : {"run", "test", "iter", "pick", "exit", "close"}, stm : {0} \cup DOMAIN f.ast, i : Nat]
Heights(k) == [h \in 1 .. Len(k) |-> k[Len(k) + 1 - h]]

Within(f, s) == IF s = 0 THEN {} ELSE f.ast[s].within

(* Where break and continue in frame h lead, P[h] being the place in the   *)
(* graph where frame h starts *)
Breaks(N, K, P, h, b) ==
  \E m \in 1 .. h - 1 :
    K[m].at = "exit" /\ (\A g \in m + 1 .. h - 1 : K[g].at # "exit") /\ Joined(N, b, P[m - 1])
Continues(N, K, P, h, b) ==
  \E m \in 1 .. h - 1 :
    /\ K[m].at \in {"iter", "test"}
    /\ \A g \in m + 1 .. h - 1 : K[g].at \notin {"iter", "test"}
    /\ Joined(N, b, P[m])
Jumps(f, N, K, P, h, s, out, next) ==
  Kind(f, s) \notin {"null", "expr", "decl"} =>
    /\ "break" \in Within(f, s) => Breaks(N, K, P, h, out)
    /\ "continue" \in Within(f, s) => Continues(N, K, P, h, next)

(* The call that has laid statement s between x and y *)
Made(N, V, do, s, x, y, c) ==
  c \in V /\ c.do = do /\ c.stm = s /\ Joined(N, x, N[c.begin].t) /\ Joined(N, c.end, y)

(* Loop s tries its condition at x: it is node q, the body starts at b,    *)
(* continue leads to n, and the loop ends at e, where y starts.            *)
Body(f, N, V, s, x, b, n, e) ==
  IF Kind(f, s) = "for"
  THEN /\ Called("visit", Parts(f, s)[4], b, n, e, n) \in V /\ Stands(N, n, "forward")
       /\ \E j : Called("iterate", Parts(f, s)[3], n, j, e, n) \in V /\ Joined(N, j, x)
  ELSE /\ Called("visit", Parts(f, s)[2], b, n, e, n) \in V /\ Joined(N, n, x)
Tries(f, N, V, s, x, y, q, b, n, e) ==
  /\ Joined(N, x, q) /\ Joined(N, e, y) /\ Stands(N, b, "forward")
  /\ IF Kind(f, LoopCondition(f, s)) = "null" THEN q = b
     ELSE Is(N, q, "cond", LoopCondition(f, s), b, e)
  /\ Body(f, N, V, s, x, b, n, e)

Picks(f, N, V, K, P, h, s, i, d, a, r, out) ==
  /\ d.stm = s /\ Chain(f, N, V, d, a, r, out)
  /\ Joined(N, P[h], r[i]) /\ Joined(N, out, P[h - 1])
  /\ "continue" \in Within(f, s) => Continues(N, K, P, h, d.continue)

(* Frame h sits: the graph has, between the place of the frame and that of *)
(* the one below, what the frame is going to do.                           *)
Sits(f, N, V, K, P, h) ==
  LET s == K[h].stm
  IN  /\ K[h].at = "run" =>
           \E c : /\ Made(N, V, "visit", s, P[h], P[h - 1], c)
                  /\ Jumps(f, N, K, P, h, s, c.break, c.continue)
      /\ K[h].at = "iter" =>
           /\ Kind(f, s) = "for"
           /\ \E c : Made(N, V, "iterate", Parts(f, s)[3], P[h], P[h - 1], c)
      /\ K[h].at = "test" =>
           /\ Kind(f, s) \in {"for", "while", "do"} /\ h > 1 /\ K[h - 1].at = "exit"
           /\ \E q, b, n, e : Tries(f, N, V, s, P[h], P[h - 1], q, b, n, e)
      /\ K[h].at = "pick" =>
           /\ Kind(f, s) = "switch" /\ h > 1 /\ K[h - 1].at = "exit"
           /\ K[h].i \in 2 .. Len(Parts(f, s)) + 1
           /\ \E d, a, r, out : Picks(f, N, V, K, P, h, s, K[h].i, d, a, r, out)
      /\ K[h].at = "exit" => Joined(N, P[h], P[h - 1])
      /\ K[h].at = "close" =>
           \E o : Stands(N, o, "close") /\ Joined(N, P[h], o) /\ Joined(N, N[o].t, P[h - 1])

(* The execution with the frames k is at place P[Len(k)] of the graph. *)
Placed(f, N, V, k, P) ==
  /\ k \in Seq(Frames(f))
  /\ P[0] = END
  /\ \A h \in 1 .. Len(k) : Sits(f, N, V, Heights(k), P, h)

-----------------------------------------------------------------------------
(* The frames numbered from the bottom.                                    *)
LEMMA HeightsIs ==
  ASSUME NEW S, NEW k \in Seq(S)
  PROVE  /\ Len(k) \in Nat
         /\ \A h \in 1 .. Len(k) : Heights(k)[h] = k[Len(k) + 1 - h] /\ Heights(k)[h] \in S
<1>1. Len(k) \in Nat /\ \A i \in 1 .. Len(k) : k[i] \in S
  BY LenProperties, ElementOfSeq
<1>2. \A h \in 1 .. Len(k) : Len(k) + 1 - h \in 1 .. Len(k)
  BY <1>1
<1>3. \A h \in 1 .. Len(k) : Heights(k)[h] = k[Len(k) + 1 - h]
  BY DEF Heights
<1> QED BY <1>1, <1>2, <1>3

(* Popping and pushing leave what is below as it is. *)
LEMMA PopHeights ==
  ASSUME NEW S, NEW k \in Seq(S), k # <<>>
  PROVE  /\ Len(k) \in Nat \ {0} /\ Tail(k) \in Seq(S) /\ Len(Tail(k)) = Len(k) - 1
         /\ Heights(k)[Len(k)] = Head(k) /\ Head(k) \in S
         /\ \A h \in 1 .. Len(k) - 1 : Heights(Tail(k))[h] = Heights(k)[h]
<1>1. /\ Head(k) = k[1] /\ Tail(k) \in Seq(S) /\ Len(Tail(k)) = Len(k) - 1
      /\ \A i \in 1 .. Len(k) - 1 : Tail(k)[i] = k[i + 1]
      /\ Len(k) \in Nat \ {0} /\ Head(k) \in S
  BY HeadTailProperties, EmptySeq, LenProperties, ElementOfSeq
<1>2. PICK rest : rest = Tail(k)
  OBVIOUS
<1>3. Len(rest) = Len(k) - 1 /\ \A h \in 1 .. Len(rest) : Heights(rest)[h] = rest[Len(rest) + 1 - h]
  BY <1>1, <1>2 DEF Heights
<1>4. \A h \in 1 .. Len(k) : Heights(k)[h] = k[Len(k) + 1 - h]
  BY DEF Heights
<1>5. ASSUME NEW h \in 1 .. Len(k) - 1 PROVE Heights(rest)[h] = Heights(k)[h]
  <2>1. Len(k) - h \in 1 .. Len(k) - 1 /\ h \in 1 .. Len(k) /\ Len(rest) + 1 - h = Len(k) - h
        /\ (Len(k) - h) + 1 = Len(k) + 1 - h
    BY <1>1, <1>3
  <2>2. rest[Len(k) - h] = k[(Len(k) - h) + 1]
    BY <1>1, <1>2, <2>1
  <2>3. Heights(rest)[h] = rest[Len(k) - h]
    BY <1>3, <2>1
  <2> QED BY <1>4, <2>1, <2>2, <2>3
<1>6. Heights(k)[Len(k)] = k[1]
  BY <1>1, <1>4
<1> QED BY <1>1, <1>2, <1>5, <1>6

(* Frames that are put on others leave their numbers alone.                *)
LEMMA PushHeights ==
  ASSUME NEW S, NEW w \in Seq(S), NEW k \in Seq(S)
  PROVE  /\ w \o k \in Seq(S) /\ Len(w \o k) = Len(w) + Len(k)
         /\ Len(w) \in Nat /\ Len(k) \in Nat
         /\ \A h \in 1 .. Len(k) : Heights(w \o k)[h] = Heights(k)[h]
         /\ \A j \in 1 .. Len(w) : Heights(w \o k)[Len(k) + j] = w[Len(w) + 1 - j]
<1>1. PICK u : u = w \o k
  OBVIOUS
<1>2. Strings(w, k, u) /\ u \in Seq(S)
  BY <1>1, ConcatIs, Zenon
<1>3. /\ Len(w) \in Nat /\ Len(k) \in Nat /\ Len(u) = Len(w) + Len(k)
      /\ \A i \in 1 .. Len(w) : u[i] = w[i]
      /\ \A j \in 1 .. Len(k) : u[Len(w) + j] = k[j]
  BY <1>2 DEF Strings
<1>4. \A h \in 1 .. Len(u) : Heights(u)[h] = u[Len(u) + 1 - h]
  BY DEF Heights
<1>5. \A h \in 1 .. Len(k) : Heights(k)[h] = k[Len(k) + 1 - h]
  BY DEF Heights
<1>6. ASSUME NEW h \in 1 .. Len(k) PROVE Heights(u)[h] = Heights(k)[h]
  <2>1. h \in 1 .. Len(u) /\ Len(k) + 1 - h \in 1 .. Len(k)
        /\ Len(u) + 1 - h = Len(w) + (Len(k) + 1 - h)
    BY <1>3
  <2>2. u[Len(w) + (Len(k) + 1 - h)] = k[Len(k) + 1 - h]
    BY <1>3, <2>1
  <2> QED BY <1>4, <1>5, <2>1, <2>2
<1>7. ASSUME NEW j \in 1 .. Len(w) PROVE Heights(u)[Len(k) + j] = w[Len(w) + 1 - j]
  <2>1. Len(k) + j \in 1 .. Len(u) /\ Len(w) + 1 - j \in 1 .. Len(w)
        /\ Len(u) + 1 - (Len(k) + j) = Len(w) + 1 - j
    BY <1>3
  <2> QED BY <1>3, <1>4, <2>1
<1> QED BY <1>1, <1>2, <1>3, <1>6, <1>7

(* So do frames that are dropped from the top.                             *)
LEMMA DropHeights ==
  ASSUME NEW S, NEW k \in Seq(S), NEW n \in 0 .. Len(k)
  PROVE  LET u == SubSeq(k, Len(k) - n + 1, Len(k))
         IN  u \in Seq(S) /\ Len(u) = n /\ \A h \in 1 .. n : Heights(u)[h] = Heights(k)[h]
<1>1. Len(k) \in Nat /\ \A i \in 1 .. Len(k) : k[i] \in S
  BY LenProperties, ElementOfSeq
<1>2. PICK m : m = Len(k) - n + 1
  OBVIOUS
<1>3. PICK u : u = SubSeq(k, m, Len(k))
  OBVIOUS
<1>4. m \in Int /\ Len(k) \in Int /\ \A i \in m .. Len(k) : k[i] \in S
  BY <1>1, <1>2
<1>5. /\ u \in Seq(S) /\ Len(u) = IF m <= Len(k) THEN Len(k) - m + 1 ELSE 0
      /\ \A i \in 1 .. Len(k) - m + 1 : u[i] = k[m + i - 1]
  BY <1>3, <1>4, SubSeqProperties
<1>6. Len(u) = n /\ Len(k) - m + 1 = n
  BY <1>1, <1>2, <1>5
<1>7. \A h \in 1 .. n : Heights(u)[h] = u[n + 1 - h]
  BY <1>6 DEF Heights
<1>8. \A h \in 1 .. Len(k) : Heights(k)[h] = k[Len(k) + 1 - h]
  BY DEF Heights
<1>9. ASSUME NEW h \in 1 .. n PROVE Heights(u)[h] = Heights(k)[h]
  <2>1. n + 1 - h \in 1 .. n /\ h \in 1 .. Len(k) /\ m + (n + 1 - h) - 1 = Len(k) + 1 - h
    BY <1>1, <1>2
  <2>2. u[n + 1 - h] = k[m + (n + 1 - h) - 1]
    BY <1>5, <1>6, <2>1
  <2> QED BY <1>7, <1>8, <2>1, <2>2
<1> QED BY <1>2, <1>3, <1>5, <1>6, <1>9

-----------------------------------------------------------------------------
(* A frame sits where it sat if nothing below it has changed. *)
Agree(K, P, M, Q, h) == P[0] = Q[0] /\ \A g \in 1 .. h : K[g] = M[g] /\ P[g] = Q[g]

(* Where break and continue lead does not depend on frames that are no     *)
(* loop and no exit.                                                       *)
LEMMA JumpsKept ==
  ASSUME NEW f, NEW N, NEW K, NEW P, NEW M, NEW Q, NEW h \in Nat, NEW l \in Nat, h <= l,
         Agree(K, P, M, Q, h),
         \A g \in h + 1 .. l : M[g].at \notin {"exit", "iter", "test"}
  PROVE  /\ \A b : Breaks(N, K, P, h + 1, b) => Breaks(N, M, Q, l + 1, b)
         /\ \A b : Continues(N, K, P, h + 1, b) => Continues(N, M, Q, l + 1, b)
<1>1. \A g \in 1 .. h : K[g] = M[g] /\ P[g] = Q[g]
  BY DEF Agree
<1>2. \A m \in 1 .. h : P[m - 1] = Q[m - 1]
  BY DEF Agree
<1>3. ASSUME NEW b, Breaks(N, K, P, h + 1, b) PROVE Breaks(N, M, Q, l + 1, b)
  <2>1. PICK m \in 1 .. h : K[m].at = "exit" /\ (\A g \in m + 1 .. h : K[g].at # "exit") /\ Joined(N, b, P[m - 1])
    BY <1>3 DEF Breaks
  <2>2. M[m].at = "exit" /\ Joined(N, b, Q[m - 1]) /\ m \in 1 .. l
    BY <1>1, <1>2, <2>1
  <2>3. \A g \in m + 1 .. l : M[g].at # "exit"
    <3> TAKE g \in m + 1 .. l
    <3>1. g \in h + 1 .. l \/ g \in m + 1 .. h
      OBVIOUS
    <3>2. g \in m + 1 .. h => g \in 1 .. h
      OBVIOUS
    <3> QED BY <1>1, <2>1, <3>1, <3>2
  <2>4. (l + 1) - 1 = l
    OBVIOUS
  <2> QED BY <2>2, <2>3, <2>4 DEF Breaks
<1>4. ASSUME NEW b, Continues(N, K, P, h + 1, b) PROVE Continues(N, M, Q, l + 1, b)
  <2>1. PICK m \in 1 .. h : K[m].at \in {"iter", "test"}
              /\ (\A g \in m + 1 .. h : K[g].at \notin {"iter", "test"}) /\ Joined(N, b, P[m])
    BY <1>4 DEF Continues
  <2>2. M[m].at \in {"iter", "test"} /\ Joined(N, b, Q[m]) /\ m \in 1 .. l
    BY <1>1, <2>1
  <2>3. \A g \in m + 1 .. l : M[g].at \notin {"iter", "test"}
    <3> TAKE g \in m + 1 .. l
    <3>1. g \in h + 1 .. l \/ g \in m + 1 .. h
      OBVIOUS
    <3>2. g \in m + 1 .. h => g \in 1 .. h
      OBVIOUS
    <3> QED BY <1>1, <2>1, <3>1, <3>2
  <2>4. (l + 1) - 1 = l
    OBVIOUS
  <2> QED BY <2>2, <2>3, <2>4 DEF Continues
<1> QED BY <1>3, <1>4

(* Frame h sits where it sat when the frames up to it and their places are *)
(* the same.                                                               *)
LEMMA SitsKept ==
  ASSUME NEW f, NEW N, NEW V, NEW K, NEW P, NEW M, NEW Q, NEW h \in Nat \ {0},
         Agree(K, P, M, Q, h), Sits(f, N, V, K, P, h)
  PROVE  Sits(f, N, V, M, Q, h)
<1>1. K[h] = M[h] /\ P[h] = Q[h] /\ P[h - 1] = Q[h - 1]
  BY DEF Agree
<1>2. h > 1 => K[h - 1] = M[h - 1]
  BY DEF Agree
<1>3. PICK g : g = h - 1
  OBVIOUS
<1>4. g \in Nat /\ g + 1 = h /\ Agree(K, P, M, Q, g)
  BY <1>3 DEF Agree
<1>5. /\ \A b : Breaks(N, K, P, h, b) => Breaks(N, M, Q, h, b)
      /\ \A b : Continues(N, K, P, h, b) => Continues(N, M, Q, h, b)
  <2>1. \A i \in g + 1 .. g : M[i].at \notin {"exit", "iter", "test"}
    BY <1>4
  <2>2. g <= g
    BY <1>4
  <2>3. /\ \A b : Breaks(N, K, P, g + 1, b) => Breaks(N, M, Q, g + 1, b)
        /\ \A b : Continues(N, K, P, g + 1, b) => Continues(N, M, Q, g + 1, b)
    BY <1>4, <2>1, <2>2, JumpsKept
  <2> QED BY <1>4, <2>3
<1>6. \A s, out, next : Jumps(f, N, K, P, h, s, out, next) => Jumps(f, N, M, Q, h, s, out, next)
  BY <1>5 DEF Jumps
<1>7. \A s, i, d, a, r, out :
         Picks(f, N, V, K, P, h, s, i, d, a, r, out) => Picks(f, N, V, M, Q, h, s, i, d, a, r, out)
  BY <1>1, <1>5 DEF Picks
<1> HIDE DEF Agree
<1>8. K[h].at = "run" => Sits(f, N, V, M, Q, h)
  BY <1>1, <1>6 DEF Sits
<1>9. K[h].at = "pick" => Sits(f, N, V, M, Q, h)
  BY <1>1, <1>2, <1>7 DEF Sits
<1>10. K[h].at = "test" => Sits(f, N, V, M, Q, h)
  BY <1>1, <1>2 DEF Sits
<1>11. K[h].at \notin {"run", "pick", "test"} => Sits(f, N, V, M, Q, h)
  BY <1>1 DEF Sits
<1> QED BY <1>8, <1>9, <1>10, <1>11

Places(P, n, Q) == [h \in Nat |-> IF h <= n THEN P[h] ELSE Q[h - n]]

(* Places put after n others.                                              *)
LEMMA PlacesIs ==
  ASSUME NEW P, NEW n \in Nat, NEW Q
  PROVE  /\ \A h \in 0 .. n : Places(P, n, Q)[h] = P[h]
         /\ \A j \in Nat \ {0} : Places(P, n, Q)[n + j] = Q[j]
<1>1. \A h \in Nat : Places(P, n, Q)[h] = IF h <= n THEN P[h] ELSE Q[h - n]
  BY DEF Places
<1>2. ASSUME NEW j \in Nat \ {0} PROVE Places(P, n, Q)[n + j] = Q[j]
  <2>1. n + j \in Nat /\ ~(n + j <= n) /\ (n + j) - n = j
    OBVIOUS
  <2> QED BY <1>1, <2>1
<1> QED BY <1>1, <1>2

(* Q has four places more than P, from the bottom x, y, z and v. *)
Above(P, n, Q, x, y, z, v) ==
  /\ \A h \in 0 .. n : Q[h] = P[h]
  /\ Q[n + 1] = x /\ Q[n + 2] = y /\ Q[n + 3] = z /\ Q[n + 4] = v

(* Four more places can be found for four more frames.                     *)
LEMMA SomePlaces ==
  ASSUME NEW P, NEW n \in Nat, NEW x, NEW y, NEW z, NEW v
  PROVE  \E Q : Above(P, n, Q, x, y, z, v)
<1>1. PICK R : R = <<x, y, z, v>>
  OBVIOUS
<1>2. R[1] = x /\ R[2] = y /\ R[3] = z /\ R[4] = v
  BY <1>1
<1>3. PICK Q : Q = Places(P, n, R)
  OBVIOUS
<1>4. (\A h \in 0 .. n : Q[h] = P[h]) /\ \A j \in Nat \ {0} : Q[n + j] = R[j]
  BY <1>3, PlacesIs
<1> QED BY <1>2, <1>4 DEF Above

(* The top of the frames *)
LEMMA TopFrame ==
  ASSUME NEW f, NEW N, NEW V, NEW k, k # <<>>, NEW P, Placed(f, N, V, k, P)
  PROVE  /\ Len(k) \in Nat \ {0} /\ Sits(f, N, V, Heights(k), P, Len(k))
         /\ Heights(k)[Len(k)] = Head(k) /\ Head(k) \in Frames(f)
         /\ Len(Tail(k)) = Len(k) - 1 /\ Tail(k) \in Seq(Frames(f)) /\ k \in Seq(Frames(f))
<1>1. k \in Seq(Frames(f)) /\ \A h \in 1 .. Len(k) : Sits(f, N, V, Heights(k), P, h)
  BY DEF Placed
<1>2. /\ Len(k) \in Nat \ {0} /\ Tail(k) \in Seq(Frames(f)) /\ Len(Tail(k)) = Len(k) - 1
      /\ Heights(k)[Len(k)] = Head(k) /\ Head(k) \in Frames(f)
  BY <1>1, PopHeights, Zenon
<1> QED BY <1>1, <1>2

(* The frames below the top one are placed.                                *)
LEMMA Popped ==
  ASSUME NEW f, NEW N, NEW V, NEW k, k # <<>>, NEW P, Placed(f, N, V, k, P)
  PROVE  /\ Placed(f, N, V, Tail(k), P) /\ Len(Tail(k)) = Len(k) - 1
         /\ Agree(Heights(k), P, Heights(Tail(k)), P, Len(k) - 1)
<1>1. k \in Seq(Frames(f)) /\ P[0] = END /\ \A h \in 1 .. Len(k) : Sits(f, N, V, Heights(k), P, h)
  BY DEF Placed
<1>2. /\ Len(k) \in Nat \ {0} /\ Tail(k) \in Seq(Frames(f)) /\ Len(Tail(k)) = Len(k) - 1
      /\ \A h \in 1 .. Len(k) - 1 : Heights(Tail(k))[h] = Heights(k)[h]
  BY <1>1, PopHeights, Zenon
<1>3. ASSUME NEW h \in 1 .. Len(k) - 1 PROVE Sits(f, N, V, Heights(Tail(k)), P, h)
  <2>1. Agree(Heights(k), P, Heights(Tail(k)), P, h) /\ h \in Nat \ {0} /\ h \in 1 .. Len(k)
    BY <1>2 DEF Agree
  <2> QED BY <1>1, <2>1, SitsKept
<1>4. Agree(Heights(k), P, Heights(Tail(k)), P, Len(k) - 1)
  BY <1>2 DEF Agree
<1> QED BY <1>1, <1>2, <1>3, <1>4 DEF Placed

(* So are the lower n frames.                                              *)
LEMMA Dropped ==
  ASSUME NEW f, NEW N, NEW V, NEW k, NEW P, Placed(f, N, V, k, P), NEW n \in 0 .. Len(k)
  PROVE  /\ Placed(f, N, V, SubSeq(k, Len(k) - n + 1, Len(k)), P)
         /\ Len(SubSeq(k, Len(k) - n + 1, Len(k))) = n
<1>1. k \in Seq(Frames(f)) /\ P[0] = END /\ \A h \in 1 .. Len(k) : Sits(f, N, V, Heights(k), P, h)
  BY DEF Placed
<1>2. PICK u : u = SubSeq(k, Len(k) - n + 1, Len(k))
  OBVIOUS
<1>3. Len(k) \in Nat
  BY <1>1, LenProperties
<1>4. u \in Seq(Frames(f)) /\ Len(u) = n /\ \A h \in 1 .. n : Heights(u)[h] = Heights(k)[h]
  BY <1>1, <1>2, DropHeights
<1>5. ASSUME NEW h \in 1 .. n PROVE Sits(f, N, V, Heights(u), P, h)
  <2>1. Agree(Heights(k), P, Heights(u), P, h) /\ h \in Nat \ {0} /\ h \in 1 .. Len(k)
    BY <1>3, <1>4 DEF Agree
  <2> QED BY <1>1, <2>1, SitsKept
<1> QED BY <1>1, <1>2, <1>4, <1>5 DEF Placed

(* Frames w are put on frames k. *)
Puts(f, w, k, P, Q, u) ==
  /\ w \in Seq(Frames(f)) /\ u = w \o k
  /\ \A h \in 0 .. Len(k) : Q[h] = P[h]

PutOn(f, w, k, P, Q, u) ==
  /\ u \in Seq(Frames(f)) /\ Len(u) = Len(w) + Len(k) /\ Len(w) \in Nat /\ Len(k) \in Nat
  /\ Agree(Heights(k), P, Heights(u), Q, Len(k))
  /\ \A j \in 1 .. Len(w) : Heights(u)[Len(k) + j] = w[Len(w) + 1 - j]

(* Frames put on others, frame by frame.                                   *)
LEMMA PutsIs ==
  ASSUME NEW f, NEW k \in Seq(Frames(f)), NEW w, NEW P, NEW Q, NEW u, Puts(f, w, k, P, Q, u)
  PROVE  PutOn(f, w, k, P, Q, u)
<1>1. w \in Seq(Frames(f)) /\ u = w \o k
  BY DEF Puts
<1>2. /\ u \in Seq(Frames(f)) /\ Len(u) = Len(w) + Len(k)
      /\ Len(w) \in Nat /\ Len(k) \in Nat
      /\ \A h \in 1 .. Len(k) : Heights(u)[h] = Heights(k)[h]
      /\ \A j \in 1 .. Len(w) : Heights(u)[Len(k) + j] = w[Len(w) + 1 - j]
  BY <1>1, PushHeights
<1>3. Agree(Heights(k), P, Heights(u), Q, Len(k))
  BY <1>2 DEF Agree, Puts
<1> QED BY <1>2, <1>3 DEF PutOn

AllSit(f, N, V, w, Q, u, n) == \A j \in 1 .. Len(w) : Sits(f, N, V, Heights(u), Q, n + j)

(* Frames put on others are placed if each of them sits.                   *)
LEMMA Pushed ==
  ASSUME NEW f, NEW N, NEW V, NEW k, NEW P, Placed(f, N, V, k, P),
         NEW w, NEW Q, NEW u, Puts(f, w, k, P, Q, u),
         AllSit(f, N, V, w, Q, u, Len(k))
  PROVE  Placed(f, N, V, u, Q)
<1>1. k \in Seq(Frames(f)) /\ P[0] = END /\ \A h \in 1 .. Len(k) : Sits(f, N, V, Heights(k), P, h)
  BY DEF Placed
<1>2. /\ u \in Seq(Frames(f)) /\ Len(u) = Len(w) + Len(k) /\ Len(w) \in Nat /\ Len(k) \in Nat
      /\ Agree(Heights(k), P, Heights(u), Q, Len(k))
  BY <1>1, PutsIs DEF PutOn
<1>3. Q[0] = END
  BY <1>1, <1>2 DEF Puts
<1>4. ASSUME NEW h \in 1 .. Len(u) PROVE Sits(f, N, V, Heights(u), Q, h)
  <2>1. CASE h <= Len(k)
    <3>1. Agree(Heights(k), P, Heights(u), Q, h) /\ h \in Nat \ {0} /\ h \in 1 .. Len(k)
      BY <1>2, <2>1 DEF Agree
    <3> QED BY <1>1, <3>1, SitsKept
  <2>2. CASE ~(h <= Len(k))
    <3>1. h - Len(k) \in 1 .. Len(w) /\ Len(k) + (h - Len(k)) = h
      BY <1>2, <2>2
    <3>2. Sits(f, N, V, Heights(u), Q, Len(k) + (h - Len(k)))
      BY <3>1 DEF AllSit
    <3> QED BY <3>1, <3>2
  <2> QED BY <2>1, <2>2
<1> QED BY <1>2, <1>3, <1>4 DEF Placed

-----------------------------------------------------------------------------
(* The calls of a graph that is laid out *)
LEMMA CallIs ==
  ASSUME NEW f, NEW N, NEW V, Finished(f, N, V), NEW c \in V
  PROVE  /\ f \in Functions /\ Regular(f)
         /\ CallOk(f, N, c) /\ Laid(f, N, V, c) /\ c.begin \in DOMAIN N /\ c.stm \in {0} \cup DOMAIN f.ast
         /\ N[c.begin].kind = "forward" => Joined(N, c.begin, N[c.begin].t)
<1>1. CallOk(f, N, c) /\ (Laid(f, N, V, c) \/ c \in Items(<<>>))
  BY DEF Finished, Lays
<1>2. Items(<<>>) = {}
  BY DEF Items
<1>3. c.begin \in DOMAIN N /\ c.stm \in {0} \cup DOMAIN f.ast
  BY <1>1 DEF CallOk
<1>4. N[c.begin].kind = "forward" => Joined(N, c.begin, N[c.begin].t)
  BY <1>3, JoinedIs
<1> QED BY <1>1, <1>2, <1>3, <1>4 DEF Finished

(* A call, field by field.                                                 *)
LEMMA CalledParts ==
  \A do, s, b, e, out, next :
    LET c == Called(do, s, b, e, out, next)
    IN  c.do = do /\ c.stm = s /\ c.begin = b /\ c.end = e /\ c.break = out /\ c.continue = next
BY DEF Called

(* A node that forwards joins where it leads; one that is set leads there. *)
LEMMA NodeJoins ==
  ASSUME NEW N
  PROVE  /\ \A x, s, y, z : Is(N, x, "forward", s, y, z) => Joined(N, x, y)
         /\ \A x : Stands(N, x, "forward") => Joined(N, x, N[x].t)
         /\ \A x, kind, s, y, z : Is(N, x, kind, s, y, z) =>
              N[x].kind = kind /\ N[x].stm = s /\ N[x].t = y /\ N[x].f = z /\ x \in DOMAIN N
              /\ Stands(N, x, kind)
         /\ \A x, y : Goes(N, x, y) => N[x].t = y
<1>1. ASSUME NEW x, NEW kind, NEW s, NEW y, NEW z, Is(N, x, kind, s, y, z)
      PROVE  /\ N[x].kind = kind /\ N[x].stm = s /\ N[x].t = y /\ N[x].f = z /\ x \in DOMAIN N
             /\ Stands(N, x, kind)
  BY <1>1, NodeParts DEF Is, Stands
<1>2. \A x : Stands(N, x, "forward") => Joined(N, x, N[x].t)
  BY JoinedIs DEF Stands
<1>3. \A x, s, y, z : Is(N, x, "forward", s, y, z) => Joined(N, x, y)
  BY <1>1, <1>2
<1>4. \A x, y : Goes(N, x, y) => N[x].t = y
  BY DEF Goes
<1> QED BY <1>1, <1>2, <1>3, <1>4, Zenon

(* How the place changes when the frames do without showing anything: by   *)
(* nothing but forwarding nodes, or by an opening or a closing scope too.  *)
Flows(N, x, y, rise) ==
  \/ rise = 0 /\ Joined(N, x, y)
  \/ rise = 1 /\ \E o : Stands(N, o, "open") /\ Joined(N, x, o) /\ Joined(N, N[o].t, y)
  \/ rise = -1 /\ \E o : Stands(N, o, "close") /\ Joined(N, x, o) /\ Joined(N, N[o].t, y)
RiseOf(f, k) ==
  LET h == Head(k)
  IN  IF h.at = "close" THEN -1
      ELSE IF /\ h.at = "run"
              /\ \/ Kind(f, h.stm) \in {"for", "switch"}
                 \/ Kind(f, h.stm) = "block" /\ Parts(f, h.stm) # <<>>
           THEN 1 ELSE 0
Settles(f, N, V, k, P) ==
  \E Q : Placed(f, N, V, Silently(f, k), Q)
         /\ Flows(N, P[Len(k)], Q[Len(Silently(f, k))], RiseOf(f, k))

(* A frame, field by field.                                                *)
LEMMA FrameIs ==
  \A do, s : Frame(do, s).at = do /\ Frame(do, s).stm = s /\ Frame(do, s).i = 0
BY DEF Frame

(* What it takes for a frame of each kind to sit.                          *)
LEMMA SitsIs ==
  ASSUME NEW f, NEW N, NEW V, NEW K, NEW P, NEW h, NEW s, K[h].stm = s
  PROVE  /\ \A c : K[h].at = "run" /\ Made(N, V, "visit", s, P[h], P[h - 1], c)
                   /\ Jumps(f, N, K, P, h, s, c.break, c.continue) => Sits(f, N, V, K, P, h)
         /\ \A c : K[h].at = "iter" /\ Kind(f, s) = "for"
                   /\ Made(N, V, "iterate", Parts(f, s)[3], P[h], P[h - 1], c) => Sits(f, N, V, K, P, h)
         /\ \A q, b, n, e : K[h].at = "test" /\ Kind(f, s) \in {"for", "while", "do"}
                   /\ h > 1 /\ K[h - 1].at = "exit" /\ Tries(f, N, V, s, P[h], P[h - 1], q, b, n, e)
                   => Sits(f, N, V, K, P, h)
         /\ \A d, a, r, out : K[h].at = "pick" /\ Kind(f, s) = "switch"
                   /\ h > 1 /\ K[h - 1].at = "exit" /\ K[h].i \in 2 .. Len(Parts(f, s)) + 1
                   /\ Picks(f, N, V, K, P, h, s, K[h].i, d, a, r, out) => Sits(f, N, V, K, P, h)
         /\ K[h].at = "exit" /\ Joined(N, P[h], P[h - 1]) => Sits(f, N, V, K, P, h)
         /\ \A o : K[h].at = "close" /\ Stands(N, o, "close") /\ Joined(N, P[h], o)
                   /\ Joined(N, N[o].t, P[h - 1]) => Sits(f, N, V, K, P, h)
<1>1. ASSUME NEW c, K[h].at = "run", Made(N, V, "visit", s, P[h], P[h - 1], c),
             Jumps(f, N, K, P, h, s, c.break, c.continue)
      PROVE  Sits(f, N, V, K, P, h)
  BY <1>1 DEF Sits
<1>2. ASSUME NEW c, K[h].at = "iter", Kind(f, s) = "for",
             Made(N, V, "iterate", Parts(f, s)[3], P[h], P[h - 1], c)
      PROVE  Sits(f, N, V, K, P, h)
  BY <1>2 DEF Sits
<1>3. ASSUME NEW q, NEW b, NEW n, NEW e, K[h].at = "test", Kind(f, s) \in {"for", "while", "do"},
             h > 1, K[h - 1].at = "exit", Tries(f, N, V, s, P[h], P[h - 1], q, b, n, e)
      PROVE  Sits(f, N, V, K, P, h)
  BY <1>3 DEF Sits
<1>4. ASSUME NEW d, NEW a, NEW r, NEW out, K[h].at = "pick", Kind(f, s) = "switch",
             h > 1, K[h - 1].at = "exit", K[h].i \in 2 .. Len(Parts(f, s)) + 1,
             Picks(f, N, V, K, P, h, s, K[h].i, d, a, r, out)
      PROVE  Sits(f, N, V, K, P, h)
  BY <1>4 DEF Sits
<1>5. K[h].at = "exit" /\ Joined(N, P[h], P[h - 1]) => Sits(f, N, V, K, P, h)
  BY DEF Sits
<1>6. ASSUME NEW o, K[h].at = "close", Stands(N, o, "close"), Joined(N, P[h], o), Joined(N, N[o].t, P[h - 1])
      PROVE  Sits(f, N, V, K, P, h)
  BY <1>6 DEF Sits
<1> QED BY <1>1, <1>2, <1>3, <1>4, <1>5, <1>6, Zenon

(* The call of the statement to be executed *)
LEMMA TopRun ==
  ASSUME NEW f, NEW N, NEW V, Finished(f, N, V), NEW k, k # <<>>, NEW P, Placed(f, N, V, k, P),
         Head(k).at = "run"
  PROVE  \E c : /\ Made(N, V, "visit", Head(k).stm, P[Len(k)], P[Len(k) - 1], c)
                /\ Jumps(f, N, Heights(k), P, Len(k), Head(k).stm, c.break, c.continue)
                /\ LaidVisit(f, N, V, c) /\ Head(k).stm \in {0} \cup DOMAIN f.ast
<1>1. Sits(f, N, V, Heights(k), P, Len(k)) /\ Heights(k)[Len(k)] = Head(k)
  BY TopFrame
<1>2. PICK c : /\ Made(N, V, "visit", Head(k).stm, P[Len(k)], P[Len(k) - 1], c)
               /\ Jumps(f, N, Heights(k), P, Len(k), Head(k).stm, c.break, c.continue)
  BY <1>1 DEF Sits
<1>3. c \in V /\ c.do = "visit" /\ c.stm = Head(k).stm
  BY <1>2 DEF Made
<1>4. Laid(f, N, V, c) /\ c.stm \in {0} \cup DOMAIN f.ast
  BY <1>3, CallIs
<1>5. LaidVisit(f, N, V, c)
  BY <1>3, <1>4 DEF Laid
<1> QED BY <1>2, <1>3, <1>4, <1>5

(* A call that has been made has laid its statement between its places.    *)
LEMMA MadeIs ==
  ASSUME NEW f, NEW N, NEW V, Finished(f, N, V),
         NEW do, NEW s, NEW b, NEW e, NEW out, NEW next, Called(do, s, b, e, out, next) \in V,
         Stands(N, b, "forward"), NEW x, Joined(N, x, b), NEW y, Joined(N, e, y)
  PROVE  Made(N, V, do, s, x, y, Called(do, s, b, e, out, next))
<1>1. PICK c : c = Called(do, s, b, e, out, next)
  OBVIOUS
<1>2. c \in V /\ c.do = do /\ c.stm = s /\ c.begin = b /\ c.end = e
  BY <1>1, CalledParts
<1>3. Joined(N, x, N[b].t)
  BY NodeJoins, JoinedIs
<1> QED BY <1>1, <1>2, <1>3 DEF Made

(* The frame at the top is taken away. *)
LEMMA SettlePop ==
  ASSUME NEW f, NEW N, NEW V, NEW k, k # <<>>, NEW P, Placed(f, N, V, k, P),
         Silently(f, k) = Tail(k), Flows(N, P[Len(k)], P[Len(k) - 1], RiseOf(f, k))
  PROVE  Settles(f, N, V, k, P)
<1>1. Placed(f, N, V, Tail(k), P) /\ Len(Tail(k)) = Len(k) - 1
  BY Popped
<1> QED BY <1>1 DEF Settles

(* Leaving a loop, a scope or the iteration of a for that has none passes  *)
(* what the graph has there.                                               *)
LEMMA SettleEnd ==
  ASSUME NEW f, NEW N, NEW V, Finished(f, N, V), NEW k, k # <<>>, NEW P, Placed(f, N, V, k, P),
         Head(k).at \in {"exit", "close", "iter"}, IsSilent(f, k)
  PROVE  Settles(f, N, V, k, P)
<1>1. Sits(f, N, V, Heights(k), P, Len(k)) /\ Heights(k)[Len(k)] = Head(k)
  BY TopFrame
<1>2. Silently(f, k) = Tail(k)
  BY DEF Silently
<1>3. CASE Head(k).at = "exit"
  <2>1. Joined(N, P[Len(k)], P[Len(k) - 1])
    BY <1>1, <1>3 DEF Sits
  <2>2. RiseOf(f, k) = 0
    BY <1>3 DEF RiseOf
  <2>3. Flows(N, P[Len(k)], P[Len(k) - 1], RiseOf(f, k))
    BY <2>1, <2>2 DEF Flows
  <2> QED BY <1>2, <2>3, SettlePop
<1>4. CASE Head(k).at = "close"
  <2>1. \E o : Stands(N, o, "close") /\ Joined(N, P[Len(k)], o) /\ Joined(N, N[o].t, P[Len(k) - 1])
    BY <1>1, <1>4 DEF Sits
  <2>2. RiseOf(f, k) = -1
    BY <1>4 DEF RiseOf
  <2>3. Flows(N, P[Len(k)], P[Len(k) - 1], RiseOf(f, k))
    BY <2>1, <2>2 DEF Flows
  <2> QED BY <1>2, <2>3, SettlePop
<1>5. CASE Head(k).at = "iter"
  <2>1. Kind(f, Parts(f, Head(k).stm)[3]) = "null"
    BY <1>5 DEF IsSilent
  <2>2. PICK c : Made(N, V, "iterate", Parts(f, Head(k).stm)[3], P[Len(k)], P[Len(k) - 1], c)
    BY <1>1, <1>5 DEF Sits
  <2>3. c \in V /\ c.do = "iterate" /\ c.stm = Parts(f, Head(k).stm)[3]
        /\ Joined(N, P[Len(k)], N[c.begin].t) /\ Joined(N, c.end, P[Len(k) - 1])
    BY <2>2 DEF Made
  <2>4. Goes(N, c.begin, c.end)
    BY <2>1, <2>3, CallIs DEF Laid, LaidIterate
  <2>5. N[c.begin].t = c.end
    BY <2>4 DEF Goes
  <2>6. Joined(N, P[Len(k)], P[Len(k) - 1])
    BY <2>3, <2>5, JoinedIs
  <2>7. RiseOf(f, k) = 0
    BY <1>5 DEF RiseOf
  <2>8. Flows(N, P[Len(k)], P[Len(k) - 1], RiseOf(f, k))
    BY <2>6, <2>7 DEF Flows
  <2> QED BY <1>2, <2>8, SettlePop
<1> QED BY <1>3, <1>4, <1>5

(* An absent statement, a label of a switch, and an empty block *)
LEMMA SettleNothing ==
  ASSUME NEW f, NEW N, NEW V, Finished(f, N, V), NEW k, k # <<>>, NEW P, Placed(f, N, V, k, P),
         Head(k).at = "run",
         \/ Kind(f, Head(k).stm) \in {"null"} \cup Labels
         \/ Kind(f, Head(k).stm) = "block" /\ Parts(f, Head(k).stm) = <<>>
  PROVE  Settles(f, N, V, k, P)
<1>1. PICK c : Made(N, V, "visit", Head(k).stm, P[Len(k)], P[Len(k) - 1], c) /\ LaidVisit(f, N, V, c)
  BY TopRun
<1>2. c.stm = Head(k).stm /\ Joined(N, P[Len(k)], N[c.begin].t) /\ Joined(N, c.end, P[Len(k) - 1])
  BY <1>1 DEF Made
<1>3. Goes(N, c.begin, c.end)
  BY <1>1, <1>2 DEF LaidVisit, Labels
<1>4. N[c.begin].t = c.end
  BY <1>3 DEF Goes
<1>5. Joined(N, P[Len(k)], P[Len(k) - 1])
  BY <1>2, <1>4, JoinedIs
<1>6. RiseOf(f, k) = 0
  BY DEF RiseOf, Labels
<1>8. Silently(f, k) = Tail(k)
  <2>1. Entered(f, Head(k).stm) = <<>> /\ Kind(f, Head(k).stm) # "goto"
    BY DEF Entered, Labels
  <2>2. Tail(k) \in Seq(Frames(f))
    BY TopFrame
  <2>3. <<>> \o Tail(k) = Tail(k)
    BY <2>2, ConcatEmptySeq
  <2> QED BY <2>1, <2>3 DEF Silently
<1>7. Flows(N, P[Len(k)], P[Len(k) - 1], RiseOf(f, k))
  BY <1>5, <1>6 DEF Flows
<1> QED BY <1>7, <1>8, SettlePop

(* Places that are joined, one after the other.                            *)
LEMMA Joining ==
  \A N, x, y, z : /\ Joined(N, x, x)
                  /\ Joined(N, x, y) /\ Joined(N, y, z) => Joined(N, x, z)
BY JoinedIs

(* The frames w are put in place of the top frame, above n others. *)
Replaces(f, N, V, k, P, w, Q, u, n) ==
  /\ k # <<>> /\ Placed(f, N, V, k, P) /\ n = Len(k) - 1
  /\ w \in Seq(Frames(f)) /\ u = w \o Tail(k)
  /\ \A h \in 0 .. n : Q[h] = P[h]
(* What is below the top stays below them. *)
Under(f, N, V, k, P, w, Q, u, n) ==
  /\ Placed(f, N, V, Tail(k), P) /\ Len(Tail(k)) = n /\ n \in Nat /\ Len(k) = n + 1
  /\ Agree(Heights(k), P, Heights(u), Q, n)
  /\ Q[n] = P[n] /\ Len(w) \in Nat /\ Puts(f, w, Tail(k), P, Q, u)
  /\ \A j \in 1 .. Len(w) : Heights(u)[n + j] = w[Len(w) + 1 - j]

(* Frames in place of the top one: the frames below sit as they sat.       *)
LEMMA UnderIs ==
  ASSUME NEW f, NEW N, NEW V, NEW k, NEW P, NEW w, NEW Q, NEW u, NEW n,
         Replaces(f, N, V, k, P, w, Q, u, n)
  PROVE  Under(f, N, V, k, P, w, Q, u, n)
<1>0. k # <<>> /\ Placed(f, N, V, k, P)
  BY DEF Replaces
<1>1. /\ Placed(f, N, V, Tail(k), P) /\ Len(Tail(k)) = Len(k) - 1
      /\ Agree(Heights(k), P, Heights(Tail(k)), P, Len(k) - 1)
  BY <1>0, Popped, Zenon
<1>2. Len(k) \in Nat \ {0} /\ Tail(k) \in Seq(Frames(f))
  BY <1>0, TopFrame, Zenon
<1>3. n = Len(Tail(k)) /\ n \in Nat /\ Len(k) = n + 1 /\ n = Len(k) - 1
  BY <1>1, <1>2 DEF Replaces
<1>4. Puts(f, w, Tail(k), P, Q, u)
  BY <1>3 DEF Puts, Replaces
<1>5. /\ Agree(Heights(Tail(k)), P, Heights(u), Q, Len(Tail(k))) /\ Len(w) \in Nat
      /\ \A j \in 1 .. Len(w) : Heights(u)[Len(Tail(k)) + j] = w[Len(w) + 1 - j]
  <2>1. PutOn(f, w, Tail(k), P, Q, u)
    BY <1>2, <1>4, PutsIs, Zenon
  <2> QED BY <2>1 DEF PutOn
<1>6. /\ Agree(Heights(Tail(k)), P, Heights(u), Q, n)
      /\ \A j \in 1 .. Len(w) : Heights(u)[n + j] = w[Len(w) + 1 - j]
  BY <1>3, <1>5
<1>7. Agree(Heights(k), P, Heights(u), Q, n)
  BY <1>1, <1>3, <1>6 DEF Agree
<1>8. Q[n] = P[n]
  BY <1>3 DEF Replaces
<1> QED BY <1>1, <1>3, <1>4, <1>5, <1>6, <1>7, <1>8 DEF Under

(* A silent step that replaces the top frame settles if the new frames sit *)
(* and the place flows.                                                    *)
LEMMA SettleOn ==
  ASSUME NEW f, NEW N, NEW V, NEW k, NEW P, NEW w, NEW Q, NEW u, NEW n,
         Replaces(f, N, V, k, P, w, Q, u, n),
         AllSit(f, N, V, w, Q, u, n)
  PROVE  /\ Placed(f, N, V, u, Q) /\ Len(u) = n + Len(w) /\ Len(k) = n + 1
         /\ u = Silently(f, k) /\ Flows(N, P[n + 1], Q[n + Len(w)], RiseOf(f, k)) =>
              Settles(f, N, V, k, P)
<1>1. /\ Placed(f, N, V, Tail(k), P) /\ Len(Tail(k)) = n /\ n \in Nat /\ Len(k) = n + 1 /\ Len(w) \in Nat
      /\ Puts(f, w, Tail(k), P, Q, u)
  <2>1. Under(f, N, V, k, P, w, Q, u, n)
    BY UnderIs, Zenon
  <2> QED BY <2>1 DEF Under
<1>2. AllSit(f, N, V, w, Q, u, Len(Tail(k)))
  BY <1>1
<1>3. Placed(f, N, V, u, Q)
  BY <1>1, <1>2, Pushed, Zenon
<1>4. Len(u) = n + Len(w)
  <2>1. Tail(k) \in Seq(Frames(f))
    BY <1>1 DEF Placed
  <2>2. PutOn(f, w, Tail(k), P, Q, u)
    BY <1>1, <2>1, PutsIs, Zenon
  <2>3. Len(u) = Len(w) + Len(Tail(k))
    BY <2>2 DEF PutOn
  <2> QED BY <1>1, <2>3
<1> QED BY <1>1, <1>3, <1>4 DEF Settles

(* A frame that is made is a frame.                                        *)
LEMMA FramesIs ==
  ASSUME NEW f, NEW s \in {0} \cup DOMAIN f.ast,
         NEW do \in {"run", "test", "iter", "pick", "exit", "close"}
  PROVE  Frame(do, s) \in Frames(f)
BY DEF Frame, Frames

(* Entering a while follows the graph.                                     *)
LEMMA SettleWhile ==
  ASSUME NEW f, NEW N, NEW V, Finished(f, N, V), NEW k, k # <<>>, NEW P, Placed(f, N, V, k, P),
         Head(k).at = "run", Kind(f, Head(k).stm) = "while"
  PROVE  Settles(f, N, V, k, P)
<1>1. PICK s, n : s = Head(k).stm /\ n = Len(k) - 1
  OBVIOUS
<1>2. PICK c : /\ Made(N, V, "visit", s, P[Len(k)], P[Len(k) - 1], c)
               /\ LaidVisit(f, N, V, c) /\ s \in {0} \cup DOMAIN f.ast
  BY <1>1, TopRun
<1>3. c.stm = s /\ Joined(N, P[Len(k)], N[c.begin].t) /\ Joined(N, c.end, P[n])
  BY <1>1, <1>2 DEF Made
<1>4. Kind(f, s) = "while" /\ LaidWhile(f, N, V, c)
  BY <1>1, <1>2, <1>3 DEF LaidVisit
<1>5. PICK x, b, y :
    /\ Goes(N, c.begin, x) /\ Is(N, x, "forward", 0, y, y) /\ Stands(N, b, "forward")
    /\ Is(N, y, "cond", Parts(f, s)[1], b, c.end)
    /\ Called("visit", Parts(f, s)[2], b, x, c.end, x) \in V
  BY <1>3, <1>4 DEF LaidWhile
<1>6. PICK w : w = <<Frame("test", s), Frame("exit", s)>>
  OBVIOUS
<1>7. w \in Seq(Frames(f)) /\ Len(w) = 2 /\ w[1] = Frame("test", s) /\ w[2] = Frame("exit", s)
  BY <1>2, <1>6, FramesIs
<1>9. n \in Nat /\ Len(k) = n + 1
  <2>1. Len(k) \in Nat \ {0}
    BY TopFrame, Zenon
  <2> QED BY <1>1, <2>1
<1>8. PICK Q : Above(P, n, Q, c.end, x, 0, 0)
  BY <1>9, SomePlaces, Zenon
<1>10. (\A h \in 0 .. n : Q[h] = P[h]) /\ Q[n + 1] = c.end /\ Q[n + 2] = x
  BY <1>8 DEF Above
<1>11. PICK u : u = w \o Tail(k)
  OBVIOUS
<1>12. Replaces(f, N, V, k, P, w, Q, u, n)
  BY <1>1, <1>7, <1>10, <1>11 DEF Replaces
<1>13. PICK M : M = Heights(u)
  OBVIOUS
<1>14. \A j \in 1 .. 2 : M[n + j] = w[2 + 1 - j]
  <2>1. Under(f, N, V, k, P, w, Q, u, n)
    BY <1>12, UnderIs, Zenon
  <2> QED BY <1>7, <1>13, <2>1 DEF Under
<1>15. M[n + 1] = Frame("exit", s) /\ M[n + 2] = Frame("test", s)
  BY <1>7, <1>14
<1>16. Sits(f, N, V, M, Q, n + 1)
  <2>1. M[n + 1].at = "exit" /\ Joined(N, Q[n + 1], Q[n]) /\ (n + 1) - 1 = n
    BY <1>3, <1>9, <1>10, <1>15, FrameIs
  <2> QED BY <2>1, SitsIs
<1>17. Sits(f, N, V, M, Q, n + 2)
  <2>1. /\ M[n + 2].at = "test" /\ M[n + 2].stm = s /\ n + 2 > 1 /\ M[n + 1].at = "exit"
        /\ (n + 2) - 1 = n + 1
    BY <1>9, <1>15, FrameIs
  <2>2. Joined(N, x, y) /\ Joined(N, c.end, c.end) /\ Joined(N, x, x)
    BY <1>5, NodeJoins, Joining
  <2>3. LoopCondition(f, s) = Parts(f, s)[1]
    BY <1>4 DEF LoopCondition
  <2>4. Body(f, N, V, s, x, b, x, c.end)
    BY <1>4, <1>5, <2>2 DEF Body
  <2>5. Kind(f, Parts(f, s)[1]) # "null"
    <3>1. f \in Functions /\ Regular(f)
      BY DEF Finished
    <3>2. s \in DOMAIN f.ast
      BY <1>2, <1>4 DEF Kind
    <3>3. Grammatical(f, s) /\ Kind(f, s) = f.ast[s].kind
      BY <3>1, <3>2, StmOk
    <3> QED BY <1>4, <3>3 DEF Grammatical, PartKind, Kind, Parts
  <2>6. Tries(f, N, V, s, x, c.end, y, b, x, c.end)
    BY <1>5, <2>2, <2>3, <2>4, <2>5 DEF Tries
  <2>7. Tries(f, N, V, s, Q[n + 2], Q[n + 1], y, b, x, c.end)
    BY <1>10, <2>6
  <2> QED BY <1>4, <2>1, <2>7, SitsIs
<1>18. AllSit(f, N, V, w, Q, u, n)
  BY <1>7, <1>13, <1>16, <1>17 DEF AllSit
<1>19. u = Silently(f, k)
  <2>1. Entered(f, s) = w
    BY <1>4, <1>6 DEF Entered
  <2> QED BY <1>1, <1>4, <1>11, <2>1 DEF Silently
<1>20. Flows(N, P[n + 1], Q[n + Len(w)], RiseOf(f, k))
  <2>1. RiseOf(f, k) = 0
    BY <1>1, <1>4 DEF RiseOf
  <2>2. Joined(N, P[n + 1], x)
    BY <1>3, <1>5, <1>9, NodeJoins
  <2> QED BY <1>7, <1>10, <2>1, <2>2 DEF Flows
<1> QED BY <1>12, <1>18, <1>19, <1>20, SettleOn, Zenon

(* The call of a statement to be executed, with what is below *)
LEMMA RunTop ==
  ASSUME NEW f, NEW N, NEW V, Finished(f, N, V), NEW k, k # <<>>, NEW P, Placed(f, N, V, k, P),
         Head(k).at = "run", NEW s, s = Head(k).stm, NEW n, n = Len(k) - 1, Kind(f, s) # "null"
  PROVE  /\ \E c : /\ c.stm = s /\ Joined(N, P[n + 1], N[c.begin].t) /\ Joined(N, c.end, P[n])
                   /\ Jumps(f, N, Heights(k), P, n + 1, s, c.break, c.continue)
                   /\ LaidVisit(f, N, V, c)
         /\ s \in DOMAIN f.ast /\ s \in {0} \cup DOMAIN f.ast
         /\ n \in Nat /\ Len(k) = n + 1 /\ f \in Functions /\ Regular(f)
         /\ Kind(f, s) = f.ast[s].kind
<1>1. PICK c : /\ Made(N, V, "visit", s, P[Len(k)], P[Len(k) - 1], c)
               /\ Jumps(f, N, Heights(k), P, Len(k), s, c.break, c.continue)
               /\ LaidVisit(f, N, V, c) /\ s \in {0} \cup DOMAIN f.ast
  BY TopRun
<1>2. c.stm = s /\ Joined(N, P[Len(k)], N[c.begin].t) /\ Joined(N, c.end, P[n])
  BY <1>1 DEF Made
<1>3. n \in Nat /\ Len(k) = n + 1
  <2>1. Len(k) \in Nat \ {0}
    BY TopFrame, Zenon
  <2> QED BY <2>1
<1>4. s \in DOMAIN f.ast /\ Kind(f, s) = f.ast[s].kind
  BY <1>1 DEF Kind
<1> QED BY <1>1, <1>2, <1>3, <1>4 DEF Finished

(* Entering a do follows the graph.                                        *)
LEMMA SettleDo ==
  ASSUME NEW f, NEW N, NEW V, Finished(f, N, V), NEW k, k # <<>>, NEW P, Placed(f, N, V, k, P),
         Head(k).at = "run", Kind(f, Head(k).stm) = "do"
  PROVE  Settles(f, N, V, k, P)
<1>1. PICK s, n : s = Head(k).stm /\ n = Len(k) - 1
  OBVIOUS
<1>2. PICK c : /\ c.stm = s /\ Joined(N, P[n + 1], N[c.begin].t) /\ Joined(N, c.end, P[n])
               /\ LaidVisit(f, N, V, c)
  BY <1>1, RunTop
<1>3. /\ s \in DOMAIN f.ast /\ s \in {0} \cup DOMAIN f.ast /\ n \in Nat /\ Len(k) = n + 1
      /\ f \in Functions /\ Regular(f) /\ Kind(f, s) = f.ast[s].kind
  BY <1>1, RunTop
<1>4. Kind(f, s) = "do" /\ LaidDo(f, N, V, c)
  BY <1>1, <1>2 DEF LaidVisit
<1>5. PICK x, m, y :
    /\ Goes(N, c.begin, x) /\ Stands(N, x, "forward") /\ Is(N, m, "forward", 0, y, y)
    /\ Is(N, y, "cond", Parts(f, s)[1], x, c.end)
    /\ Called("visit", Parts(f, s)[2], x, m, c.end, m) \in V
  BY <1>2, <1>4 DEF LaidDo
<1>6. PICK b : b = Parts(f, s)[2]
  OBVIOUS
<1>7. b \in {0} \cup DOMAIN f.ast
  <2>1. /\ \A i \in 1 .. Len(Parts(f, s)) : Parts(f, s)[i] \in {0} \cup DOMAIN f.ast
        /\ Len(Parts(f, s)) = 2
    BY <1>3, <1>4, PartsOk
  <2> QED BY <1>6, <2>1
<1>8. PICK w : w = <<Frame("run", b), Frame("test", s), Frame("exit", s)>>
  OBVIOUS
<1>9. /\ w \in Seq(Frames(f)) /\ Len(w) = 3
      /\ w[1] = Frame("run", b) /\ w[2] = Frame("test", s) /\ w[3] = Frame("exit", s)
  <2>1. /\ Frame("run", b) \in Frames(f) /\ Frame("test", s) \in Frames(f)
        /\ Frame("exit", s) \in Frames(f)
    BY <1>3, <1>7, FramesIs
  <2> QED BY <1>8, <2>1
<1>10. PICK Q : Above(P, n, Q, c.end, m, x, 0)
  BY <1>3, SomePlaces, Zenon
<1>11. (\A h \in 0 .. n : Q[h] = P[h]) /\ Q[n] = P[n] /\ Q[n + 1] = c.end /\ Q[n + 2] = m /\ Q[n + 3] = x
  BY <1>3, <1>10 DEF Above
<1>12. PICK u : u = w \o Tail(k)
  OBVIOUS
<1>13. Replaces(f, N, V, k, P, w, Q, u, n)
  BY <1>1, <1>9, <1>11, <1>12 DEF Replaces
<1>14. PICK M : M = Heights(u)
  OBVIOUS
<1>15. \A j \in 1 .. 3 : M[n + j] = w[3 + 1 - j]
  <2>1. Under(f, N, V, k, P, w, Q, u, n)
    BY <1>13, UnderIs, Zenon
  <2> QED BY <1>9, <1>14, <2>1 DEF Under
<1>16. M[n + 1] = Frame("exit", s) /\ M[n + 2] = Frame("test", s) /\ M[n + 3] = Frame("run", b)
  BY <1>9, <1>15
<1>17. /\ M[n + 1].at = "exit" /\ M[n + 2].at = "test" /\ M[n + 2].stm = s
       /\ M[n + 3].at = "run" /\ M[n + 3].stm = b
  BY <1>16, FrameIs
<1>18. /\ (n + 1) - 1 = n /\ (n + 2) - 1 = n + 1 /\ (n + 3) - 1 = n + 2
       /\ n + 2 > 1 /\ n + 1 \in 1 .. (n + 3) - 1 /\ n + 2 \in 1 .. (n + 3) - 1
       /\ (n + 1) + 1 .. (n + 3) - 1 = {n + 2} /\ (n + 2) + 1 .. (n + 3) - 1 = {}
  BY <1>3
<1>19. Sits(f, N, V, M, Q, n + 1)
  <2>1. Joined(N, Q[n + 1], Q[n])
    BY <1>2, <1>11
  <2> QED BY <1>17, <1>18, <2>1, SitsIs
<1>20. Sits(f, N, V, M, Q, n + 2)
  <2>1. Joined(N, m, y) /\ Joined(N, c.end, c.end) /\ Joined(N, m, m)
    BY <1>5, NodeJoins, Joining
  <2>2. LoopCondition(f, s) = Parts(f, s)[1]
    BY <1>4 DEF LoopCondition
  <2>3. Body(f, N, V, s, m, x, m, c.end)
    BY <1>4, <1>5, <2>1 DEF Body
  <2>4. Kind(f, Parts(f, s)[1]) # "null"
    <3>1. Grammatical(f, s)
      BY <1>3, StmOk
    <3> QED BY <1>3, <1>4, <3>1 DEF Grammatical, PartKind, Kind, Parts
  <2>5. Tries(f, N, V, s, m, c.end, y, x, m, c.end)
    BY <1>5, <2>1, <2>2, <2>3, <2>4 DEF Tries
  <2>6. Tries(f, N, V, s, Q[n + 2], Q[(n + 2) - 1], y, x, m, c.end)
    BY <1>11, <1>18, <2>5
  <2>7. M[(n + 2) - 1].at = "exit"
    BY <1>17, <1>18
  <2> QED BY <1>4, <1>17, <1>18, <2>6, <2>7, SitsIs
<1>21. Sits(f, N, V, M, Q, n + 3)
  <2>1. PICK d : d = Called("visit", b, x, m, c.end, m)
    OBVIOUS
  <2>2. d \in V /\ d.break = c.end /\ d.continue = m
    BY <1>5, <1>6, <2>1, CalledParts
  <2>3. Joined(N, x, x) /\ Joined(N, m, m)
    BY Joining
  <2>4. Made(N, V, "visit", b, x, m, d)
    BY <1>5, <2>1, <2>2, <2>3, MadeIs
  <2>5. Breaks(N, M, Q, n + 3, d.break)
    <3>1. Joined(N, d.break, Q[(n + 1) - 1])
      BY <1>2, <1>11, <1>18, <2>2
    <3> QED BY <1>17, <1>18, <3>1 DEF Breaks
  <2>6. Continues(N, M, Q, n + 3, d.continue)
    <3>1. Joined(N, d.continue, Q[n + 2])
      BY <1>11, <2>2, <2>3
    <3> QED BY <1>17, <1>18, <3>1 DEF Continues
  <2>7. Jumps(f, N, M, Q, n + 3, b, d.break, d.continue)
    BY <2>5, <2>6 DEF Jumps
  <2>8. Made(N, V, "visit", b, Q[n + 3], Q[(n + 3) - 1], d)
    BY <1>11, <1>18, <2>4
  <2> QED BY <1>17, <2>7, <2>8, SitsIs
<1>22. AllSit(f, N, V, w, Q, u, n)
  BY <1>9, <1>14, <1>19, <1>20, <1>21 DEF AllSit
<1>23. u = Silently(f, k)
  <2>1. Entered(f, s) = w
    BY <1>4, <1>6, <1>8 DEF Entered
  <2> QED BY <1>1, <1>4, <1>12, <2>1 DEF Silently
<1>24. Flows(N, P[n + 1], Q[n + Len(w)], RiseOf(f, k))
  <2>1. RiseOf(f, k) = 0
    BY <1>1, <1>4 DEF RiseOf
  <2>2. Joined(N, P[n + 1], x)
    BY <1>2, <1>5, NodeJoins
  <2> QED BY <1>9, <1>11, <2>1, <2>2 DEF Flows
<1> QED BY <1>13, <1>22, <1>23, <1>24, SettleOn, Zenon

(* Entering a for follows the graph.                                       *)
LEMMA SettleFor ==
  ASSUME NEW f, NEW N, NEW V, Finished(f, N, V), NEW k, k # <<>>, NEW P, Placed(f, N, V, k, P),
         Head(k).at = "run", Kind(f, Head(k).stm) = "for"
  PROVE  Settles(f, N, V, k, P)
<1>1. PICK s, n : s = Head(k).stm /\ n = Len(k) - 1
  OBVIOUS
<1>2. PICK c : /\ c.stm = s /\ Joined(N, P[n + 1], N[c.begin].t) /\ Joined(N, c.end, P[n])
               /\ LaidVisit(f, N, V, c)
  BY <1>1, RunTop
<1>3. /\ s \in DOMAIN f.ast /\ s \in {0} \cup DOMAIN f.ast /\ n \in Nat /\ Len(k) = n + 1
      /\ f \in Functions /\ Regular(f) /\ Kind(f, s) = f.ast[s].kind
  BY <1>1, RunTop
<1>4. Kind(f, s) = "for" /\ LaidFor(f, N, V, c)
  BY <1>1, <1>2 DEF LaidVisit
<1>5. PICK x, i, j, y, b, m, out :
    Goes(N, c.begin, x) /\ Is(N, x, "open", 0, i, i) /\ Ring(f, N, V, c, i, j, y, b, m, out)
  BY <1>4, Zenon DEF LaidFor
<1>6. PICK p : p = Parts(f, s)[1]
  OBVIOUS
<1>7. p \in {0} \cup DOMAIN f.ast /\ Kind(f, p) \in {"null", "expr", "decl"}
  <2>1. /\ \A l \in 1 .. Len(Parts(f, s)) : Parts(f, s)[l] \in {0} \cup DOMAIN f.ast
        /\ Len(Parts(f, s)) = 4
    BY <1>3, <1>4, PartsOk
  <2>2. Grammatical(f, s)
    BY <1>3, StmOk
  <2>3. Kind(f, p) = PartKind(f, s, 1)
    BY <1>6 DEF Kind, PartKind, Parts
  <2> QED BY <1>3, <1>4, <1>6, <2>1, <2>2, <2>3 DEF Grammatical
<1>8. PICK w : w = <<Frame("run", p), Frame("test", s), Frame("exit", s), Frame("close", s)>>
  OBVIOUS
<1>9. /\ w \in Seq(Frames(f)) /\ Len(w) = 4
      /\ w[1] = Frame("run", p) /\ w[2] = Frame("test", s) /\ w[3] = Frame("exit", s)
      /\ w[4] = Frame("close", s)
  <2>1. /\ Frame("run", p) \in Frames(f) /\ Frame("test", s) \in Frames(f)
        /\ Frame("exit", s) \in Frames(f) /\ Frame("close", s) \in Frames(f)
    BY <1>3, <1>7, FramesIs
  <2>2. \A S : \A g, h, l, o \in S :
          <<g, h, l, o>> \in Seq(S) /\ Len(<<g, h, l, o>>) = 4 /\ <<g, h, l, o>>[1] = g
          /\ <<g, h, l, o>>[2] = h /\ <<g, h, l, o>>[3] = l /\ <<g, h, l, o>>[4] = o
    OBVIOUS
  <2> QED BY <1>8, <2>1, <2>2, Zenon
<1>10. PICK Q : Above(P, n, Q, out, out, j, i)
  BY <1>3, SomePlaces, Zenon
<1>11. /\ \A h \in 0 .. n : Q[h] = P[h]
       /\ Q[n] = P[n] /\ Q[n + 1] = out /\ Q[n + 2] = out /\ Q[n + 3] = j /\ Q[n + 4] = i
  BY <1>3, <1>10 DEF Above
<1>12. PICK u : u = w \o Tail(k)
  OBVIOUS
<1>13. Replaces(f, N, V, k, P, w, Q, u, n)
  BY <1>1, <1>9, <1>11, <1>12 DEF Replaces
<1>14. PICK M : M = Heights(u)
  OBVIOUS
<1>15. \A l \in 1 .. 4 : M[n + l] = w[4 + 1 - l]
  <2>1. Under(f, N, V, k, P, w, Q, u, n)
    BY <1>13, UnderIs, Zenon
  <2> QED BY <1>9, <1>14, <2>1 DEF Under
<1>16. /\ M[n + 1] = Frame("close", s) /\ M[n + 2] = Frame("exit", s) /\ M[n + 3] = Frame("test", s)
       /\ M[n + 4] = Frame("run", p)
  BY <1>9, <1>15
<1>17. /\ M[n + 1].at = "close" /\ M[n + 2].at = "exit" /\ M[n + 3].at = "test" /\ M[n + 3].stm = s
       /\ M[n + 4].at = "run" /\ M[n + 4].stm = p
  BY <1>16, FrameIs
<1>18. /\ (n + 1) - 1 = n /\ (n + 2) - 1 = n + 1 /\ (n + 3) - 1 = n + 2 /\ (n + 4) - 1 = n + 3
       /\ n + 3 > 1
  BY <1>3
<1>19. Sits(f, N, V, M, Q, n + 1)
  <2>1. Stands(N, out, "close") /\ N[out].t = c.end
    BY <1>5, NodeJoins DEF Ring
  <2>2. Joined(N, Q[n + 1], out) /\ Joined(N, N[out].t, Q[(n + 1) - 1])
    BY <1>2, <1>11, <1>18, <2>1, Joining
  <2> QED BY <1>17, <2>1, <2>2, SitsIs
<1>20. Sits(f, N, V, M, Q, n + 2)
  <2>1. Joined(N, Q[n + 2], Q[(n + 2) - 1])
    BY <1>11, <1>18, Joining
  <2> QED BY <1>17, <2>1, SitsIs
<1>21. Sits(f, N, V, M, Q, n + 3)
  <2>1. Joined(N, j, y) /\ Joined(N, j, j) /\ Joined(N, out, out) /\ Stands(N, b, "forward")
    BY <1>5, NodeJoins, Joining DEF Ring
  <2>2. LoopCondition(f, s) = Parts(f, s)[2]
    BY <1>4 DEF LoopCondition
  <2>3. Body(f, N, V, s, j, b, m, out)
    BY <1>2, <1>4, <1>5, <2>1 DEF Body, Ring
  <2>4. IF Kind(f, Parts(f, s)[2]) = "null" THEN y = b ELSE Is(N, y, "cond", Parts(f, s)[2], b, out)
    BY <1>2, <1>5 DEF Ring
  <2>5. Tries(f, N, V, s, j, out, y, b, m, out)
    BY <2>1, <2>2, <2>3, <2>4 DEF Tries
  <2>6. Tries(f, N, V, s, Q[n + 3], Q[(n + 3) - 1], y, b, m, out)
    BY <1>11, <1>18, <2>5
  <2>7. M[(n + 3) - 1].at = "exit"
    BY <1>17, <1>18
  <2> QED BY <1>4, <1>17, <1>18, <2>6, <2>7, SitsIs
<1>22. Sits(f, N, V, M, Q, n + 4)
  <2>1. PICK d : d = Called("visit", p, i, j, out, m)
    OBVIOUS
  <2>2. d \in V /\ Stands(N, i, "forward")
    BY <1>2, <1>5, <1>6, <2>1 DEF Ring
  <2>3. Joined(N, i, i) /\ Joined(N, j, j)
    BY Joining
  <2>4. Made(N, V, "visit", p, i, j, d)
    BY <2>1, <2>2, <2>3, MadeIs
  <2>5. Jumps(f, N, M, Q, n + 4, p, d.break, d.continue)
    BY <1>7 DEF Jumps
  <2>6. Made(N, V, "visit", p, Q[n + 4], Q[(n + 4) - 1], d)
    BY <1>11, <1>18, <2>4
  <2> QED BY <1>17, <2>5, <2>6, SitsIs
<1>23. AllSit(f, N, V, w, Q, u, n)
  BY <1>9, <1>14, <1>19, <1>20, <1>21, <1>22 DEF AllSit
<1>24. u = Silently(f, k)
  <2>1. Entered(f, s) = w
    BY <1>4, <1>6, <1>8 DEF Entered
  <2> QED BY <1>1, <1>4, <1>12, <2>1 DEF Silently
<1>25. Flows(N, P[n + 1], Q[n + Len(w)], RiseOf(f, k))
  <2>1. RiseOf(f, k) = 1
    BY <1>1, <1>4 DEF RiseOf
  <2>2. Joined(N, P[n + 1], x) /\ Stands(N, x, "open") /\ N[x].t = i
    BY <1>2, <1>5, NodeJoins
  <2>3. Joined(N, N[x].t, i)
    BY <2>2, Joining
  <2> QED BY <1>9, <1>11, <2>1, <2>2, <2>3 DEF Flows
<1> QED BY <1>13, <1>23, <1>24, <1>25, SettleOn, Zenon

(* The body of a loop is entered: from the condition, or where there is none *)
At(f, N, V, k, b) == \E Q : Placed(f, N, V, k, Q) /\ Q[Len(k)] = b

(* The frames of the body of a loop are placed where the condition leads.  *)
LEMMA EnterBody ==
  ASSUME NEW f, NEW N, NEW V, Finished(f, N, V), NEW k, k # <<>>, NEW P, Placed(f, N, V, k, P),
         Head(k).at = "test", NEW s, s = Head(k).stm,
         NEW q, NEW b, NEW m, NEW e, Tries(f, N, V, s, P[Len(k)], P[Len(k) - 1], q, b, m, e)
  PROVE  At(f, N, V, LoopBody(f, s) \o k, b)
<1>1. PICK n : n = Len(k)
  OBVIOUS
<1>2. PICK K : K = Heights(k)
  OBVIOUS
<1>3. n \in Nat \ {0} /\ k \in Seq(Frames(f)) /\ K[n] = Head(k) /\ Sits(f, N, V, K, P, n) /\ Head(k) \in Frames(f)
  BY <1>1, <1>2, TopFrame
<1>4. Kind(f, s) \in {"for", "while", "do"} /\ n > 1 /\ K[n - 1].at = "exit" /\ K[n].at = "test"
  BY <1>3 DEF Sits
<1>5. Joined(N, P[n - 1], P[n - 2])
  <2>1. n - 1 \in 1 .. Len(k) /\ (n - 1) - 1 = n - 2
    BY <1>1, <1>3, <1>4
  <2>2. Sits(f, N, V, K, P, n - 1)
    BY <1>2, <2>1 DEF Placed
  <2> QED BY <1>4, <2>1, <2>2 DEF Sits
<1>6. Joined(N, e, P[n - 2])
  BY <1>1, <1>5, Joining DEF Tries
<1>7. Stands(N, b, "forward") /\ Joined(N, b, b) /\ Joined(N, m, m) /\ Body(f, N, V, s, P[n], b, m, e)
  BY <1>1, Joining DEF Tries
<1>8. f \in Functions /\ Regular(f) /\ s \in {0} \cup DOMAIN f.ast
  BY <1>3 DEF Finished, Frames
<1>9. CASE Kind(f, s) = "for"
  <2>1. PICK p : p = Parts(f, s)[4]
    OBVIOUS
  <2>2. p \in {0} \cup DOMAIN f.ast
    <3>1. /\ \A l \in 1 .. Len(Parts(f, s)) : Parts(f, s)[l] \in {0} \cup DOMAIN f.ast
          /\ Len(Parts(f, s)) = 4
      BY <1>8, <1>9, PartsOk
    <3> QED BY <2>1, <3>1
  <2>3. PICK j : /\ Called("visit", p, b, m, e, m) \in V /\ Stands(N, m, "forward")
                 /\ Called("iterate", Parts(f, s)[3], m, j, e, m) \in V /\ Joined(N, j, P[n])
    BY <1>7, <1>9, <2>1 DEF Body
  <2>4. PICK w : w = <<Frame("run", p), Frame("iter", s)>>
    OBVIOUS
  <2>5. w \in Seq(Frames(f)) /\ Len(w) = 2 /\ w[1] = Frame("run", p) /\ w[2] = Frame("iter", s)
    <3>1. Frame("run", p) \in Frames(f) /\ Frame("iter", s) \in Frames(f)
      BY <1>8, <2>2, FramesIs
    <3>2. \A S : \A g, h \in S :
            <<g, h>> \in Seq(S) /\ Len(<<g, h>>) = 2 /\ <<g, h>>[1] = g /\ <<g, h>>[2] = h
      OBVIOUS
    <3> QED BY <2>4, <3>1, <3>2, Zenon
  <2>6. PICK Q : Above(P, n, Q, m, b, 0, 0)
    BY <1>3, SomePlaces, Zenon
  <2>7. /\ \A h \in 0 .. n : Q[h] = P[h]
        /\ Q[n] = P[n] /\ Q[n - 2] = P[n - 2] /\ Q[n + 1] = m /\ Q[n + 2] = b
    BY <1>3, <1>4, <2>6 DEF Above
  <2>8. PICK u : u = w \o k
    OBVIOUS
  <2>9. Puts(f, w, k, P, Q, u)
    BY <1>1, <2>5, <2>7, <2>8 DEF Puts
  <2>10. PutOn(f, w, k, P, Q, u)
    BY <1>3, <2>9, PutsIs, Zenon
  <2>11. PICK M : M = Heights(u)
    OBVIOUS
  <2>12. /\ \A l \in 1 .. 2 : M[n + l] = w[2 + 1 - l]
         /\ M[n] = K[n] /\ M[n - 1] = K[n - 1] /\ Len(u) = n + 2
    <3>1. /\ \A l \in 1 .. 2 : M[n + l] = w[2 + 1 - l]
          /\ Agree(K, P, M, Q, n) /\ Len(u) = 2 + n
      BY <1>1, <1>2, <2>5, <2>10, <2>11 DEF PutOn
    <3> QED BY <1>3, <1>4, <3>1 DEF Agree
  <2>13. M[n + 1] = Frame("iter", s) /\ M[n + 2] = Frame("run", p)
    BY <2>5, <2>12
  <2>14. /\ M[n + 1].at = "iter" /\ M[n + 1].stm = s /\ M[n + 2].at = "run" /\ M[n + 2].stm = p
         /\ M[n].at = "test" /\ M[n - 1].at = "exit"
    BY <1>4, <2>12, <2>13, FrameIs
  <2>15. /\ (n + 1) - 1 = n /\ (n + 2) - 1 = n + 1 /\ n - 1 \in 1 .. (n + 2) - 1
         /\ n + 1 \in 1 .. (n + 2) - 1 /\ (n - 1) + 1 .. (n + 2) - 1 = {n, n + 1}
         /\ (n + 1) + 1 .. (n + 2) - 1 = {} /\ (n - 1) - 1 = n - 2
    <3>1. (n - 1) + 1 .. (n + 2) - 1 = {n, n + 1}
      BY <1>3, <1>4
    <3>2. (n + 1) + 1 .. (n + 2) - 1 = {}
      BY <1>3, <1>4
    <3>3. /\ (n + 1) - 1 = n /\ (n + 2) - 1 = n + 1 /\ n - 1 \in 1 .. (n + 2) - 1
          /\ n + 1 \in 1 .. (n + 2) - 1 /\ (n - 1) - 1 = n - 2
      BY <1>3, <1>4
    <3> QED BY <3>1, <3>2, <3>3
  <2>16. Sits(f, N, V, M, Q, n + 1)
    <3>1. PICK d : d = Called("iterate", Parts(f, s)[3], m, j, e, m)
      OBVIOUS
    <3>2. Made(N, V, "iterate", Parts(f, s)[3], m, P[n], d)
      BY <1>7, <2>3, <3>1, MadeIs
    <3>3. Made(N, V, "iterate", Parts(f, s)[3], Q[n + 1], Q[(n + 1) - 1], d)
      BY <2>7, <2>15, <3>2
    <3> QED BY <1>9, <2>14, <3>3, SitsIs
  <2>17. Sits(f, N, V, M, Q, n + 2)
    <3>1. PICK d : d = Called("visit", p, b, m, e, m)
      OBVIOUS
    <3>2. d.break = e /\ d.continue = m
      BY <3>1, CalledParts
    <3>3. Made(N, V, "visit", p, b, m, d)
      BY <1>7, <2>3, <3>1, MadeIs
    <3>4. Made(N, V, "visit", p, Q[n + 2], Q[(n + 2) - 1], d)
      BY <2>7, <2>15, <3>3
    <3>5. Breaks(N, M, Q, n + 2, d.break)
      <4>1. Joined(N, d.break, Q[(n - 1) - 1])
        BY <1>6, <2>7, <2>15, <3>2
      <4> QED BY <2>14, <2>15, <4>1 DEF Breaks
    <3>6. Continues(N, M, Q, n + 2, d.continue)
      <4>1. Joined(N, d.continue, Q[n + 1])
        BY <1>7, <2>7, <3>2
      <4> QED BY <2>14, <2>15, <4>1 DEF Continues
    <3>7. Jumps(f, N, M, Q, n + 2, p, d.break, d.continue)
      BY <3>5, <3>6 DEF Jumps
    <3> QED BY <2>14, <3>4, <3>7, SitsIs
  <2>18. AllSit(f, N, V, w, Q, u, Len(k))
    BY <1>1, <2>5, <2>11, <2>16, <2>17 DEF AllSit
  <2>19. Placed(f, N, V, u, Q)
    BY <2>9, <2>18, Pushed, Zenon
  <2>20. u = LoopBody(f, s) \o k
    BY <1>9, <2>1, <2>4, <2>8 DEF LoopBody
  <2> QED BY <2>7, <2>12, <2>19, <2>20 DEF At
<1>10. CASE Kind(f, s) \in {"while", "do"}
  <2>1. PICK p : p = Parts(f, s)[2]
    OBVIOUS
  <2>2. p \in {0} \cup DOMAIN f.ast
    <3>1. /\ \A l \in 1 .. Len(Parts(f, s)) : Parts(f, s)[l] \in {0} \cup DOMAIN f.ast
          /\ Len(Parts(f, s)) = 2
      BY <1>8, <1>10, PartsOk
    <3> QED BY <2>1, <3>1
  <2>3. Called("visit", p, b, m, e, m) \in V /\ Joined(N, m, P[n])
    BY <1>7, <1>10, <2>1 DEF Body
  <2>4. PICK w : w = <<Frame("run", p)>>
    OBVIOUS
  <2>5. w \in Seq(Frames(f)) /\ Len(w) = 1 /\ w[1] = Frame("run", p)
    <3>1. Frame("run", p) \in Frames(f)
      BY <1>8, <2>2, FramesIs
    <3>2. \A S : \A g \in S : <<g>> \in Seq(S) /\ Len(<<g>>) = 1 /\ <<g>>[1] = g
      OBVIOUS
    <3> QED BY <2>4, <3>1, <3>2, Zenon
  <2>6. PICK Q : Above(P, n, Q, b, 0, 0, 0)
    BY <1>3, SomePlaces, Zenon
  <2>7. /\ \A h \in 0 .. n : Q[h] = P[h]
        /\ Q[n] = P[n] /\ Q[n - 2] = P[n - 2] /\ Q[n + 1] = b
    BY <1>3, <1>4, <2>6 DEF Above
  <2>8. PICK u : u = w \o k
    OBVIOUS
  <2>9. Puts(f, w, k, P, Q, u)
    BY <1>1, <2>5, <2>7, <2>8 DEF Puts
  <2>10. PutOn(f, w, k, P, Q, u)
    BY <1>3, <2>9, PutsIs, Zenon
  <2>11. PICK M : M = Heights(u)
    OBVIOUS
  <2>12. /\ \A l \in 1 .. 1 : M[n + l] = w[1 + 1 - l]
         /\ M[n] = K[n] /\ M[n - 1] = K[n - 1] /\ Len(u) = n + 1
    <3>1. /\ \A l \in 1 .. 1 : M[n + l] = w[1 + 1 - l]
          /\ Agree(K, P, M, Q, n) /\ Len(u) = 1 + n
      BY <1>1, <1>2, <2>5, <2>10, <2>11 DEF PutOn
    <3> QED BY <1>3, <1>4, <3>1 DEF Agree
  <2>13. M[n + 1] = Frame("run", p)
    BY <2>5, <2>12
  <2>14. /\ M[n + 1].at = "run" /\ M[n + 1].stm = p /\ M[n].at = "test" /\ M[n - 1].at = "exit"
    BY <1>4, <2>12, <2>13, FrameIs
  <2>15. /\ (n + 1) - 1 = n /\ n - 1 \in 1 .. (n + 1) - 1 /\ n \in 1 .. (n + 1) - 1
         /\ (n - 1) + 1 .. (n + 1) - 1 = {n} /\ n + 1 .. (n + 1) - 1 = {} /\ (n - 1) - 1 = n - 2
    BY <1>3, <1>4
  <2>16. Sits(f, N, V, M, Q, n + 1)
    <3>1. PICK d : d = Called("visit", p, b, m, e, m)
      OBVIOUS
    <3>2. d.break = e /\ d.continue = m
      BY <3>1, CalledParts
    <3>3. Made(N, V, "visit", p, b, P[n], d)
      BY <1>7, <2>3, <3>1, MadeIs
    <3>4. Made(N, V, "visit", p, Q[n + 1], Q[(n + 1) - 1], d)
      BY <2>7, <2>15, <3>3
    <3>5. Breaks(N, M, Q, n + 1, d.break)
      <4>1. Joined(N, d.break, Q[(n - 1) - 1])
        BY <1>6, <2>7, <2>15, <3>2
      <4> QED BY <2>14, <2>15, <4>1 DEF Breaks
    <3>6. Continues(N, M, Q, n + 1, d.continue)
      <4>1. Joined(N, d.continue, Q[n])
        BY <2>3, <2>7, <3>2
      <4> QED BY <2>14, <2>15, <4>1 DEF Continues
    <3>7. Jumps(f, N, M, Q, n + 1, p, d.break, d.continue)
      BY <3>5, <3>6 DEF Jumps
    <3> QED BY <2>14, <3>4, <3>7, SitsIs
  <2>17. AllSit(f, N, V, w, Q, u, Len(k))
    BY <1>1, <2>5, <2>11, <2>16 DEF AllSit
  <2>18. Placed(f, N, V, u, Q)
    BY <2>9, <2>17, Pushed, Zenon
  <2>19. u = LoopBody(f, s) \o k
    BY <1>10, <2>1, <2>4, <2>8 DEF LoopBody
  <2> QED BY <2>7, <2>12, <2>18, <2>19 DEF At
<1> QED BY <1>4, <1>9, <1>10

(* A loop without condition goes on with its body.                         *)
LEMMA SettleTest ==
  ASSUME NEW f, NEW N, NEW V, Finished(f, N, V), NEW k, k # <<>>, NEW P, Placed(f, N, V, k, P),
         Head(k).at = "test", IsSilent(f, k)
  PROVE  Settles(f, N, V, k, P)
<1>1. PICK s : s = Head(k).stm
  OBVIOUS
<1>2. Sits(f, N, V, Heights(k), P, Len(k)) /\ Heights(k)[Len(k)] = Head(k)
  BY TopFrame
<1>3. PICK q, b, m, e : Tries(f, N, V, s, P[Len(k)], P[Len(k) - 1], q, b, m, e)
  BY <1>1, <1>2 DEF Sits
<1>4. Kind(f, LoopCondition(f, s)) = "null"
  BY <1>1 DEF IsSilent
<1>5. Joined(N, P[Len(k)], b)
  BY <1>3, <1>4 DEF Tries
<1>6. PICK Q : Placed(f, N, V, LoopBody(f, s) \o k, Q) /\ Q[Len(LoopBody(f, s) \o k)] = b
  <2>1. At(f, N, V, LoopBody(f, s) \o k, b)
    BY <1>1, <1>3, EnterBody, Zenon
  <2> QED BY <2>1 DEF At
<1>7. Silently(f, k) = LoopBody(f, s) \o k
  BY <1>1 DEF Silently
<1>8. RiseOf(f, k) = 0
  BY DEF RiseOf
<1> QED BY <1>5, <1>6, <1>7, <1>8 DEF Settles, Flows

(* The statements of s from i on, one after the other, statement l at      *)
(* place p[l], lead to the place of the frames k.                          *)
Row(f, N, V, k, P, s, i, p) ==
  LET n == Len(Parts(f, s))
  IN  /\ n \in Nat /\ i \in 1 .. n
      /\ \A l \in i .. n : Parts(f, s)[l] \in {0} \cup DOMAIN f.ast
      /\ p[n + 1] = P[Len(k)]
      /\ \A l \in i .. n :
           \E c : /\ Made(N, V, "visit", Parts(f, s)[l], p[l], p[l + 1], c)
                  /\ Jumps(f, N, Heights(k), P, Len(k) + 1, Parts(f, s)[l], c.break, c.continue)

(* The frames of the statements of s from i on *)
Listed(f, s, i) ==
  /\ Len(Parts(f, s)) \in Nat /\ i \in 1 .. Len(Parts(f, s))
  /\ \A l \in i .. Len(Parts(f, s)) : Parts(f, s)[l] \in {0} \cup DOMAIN f.ast
RunsAre(f, s, i, w) ==
  /\ w \in Seq(Frames(f)) /\ Len(w) = Len(Parts(f, s)) - i + 1
  /\ \A j \in 1 .. Len(w) : w[j] = Frame("run", Parts(f, s)[i + j - 1])

(* The frames of the statements of a list from one on, frame by frame.     *)
LEMMA RunFromIs ==
  ASSUME NEW f, NEW s, NEW i, Listed(f, s, i)
  PROVE  RunsAre(f, s, i, RunFrom(f, s, i))
<1>0. /\ Len(Parts(f, s)) \in Nat /\ i \in 1 .. Len(Parts(f, s))
      /\ \A l \in i .. Len(Parts(f, s)) : Parts(f, s)[l] \in {0} \cup DOMAIN f.ast
  BY DEF Listed
<1>9. PICK w : w = RunFrom(f, s, i)
  OBVIOUS
<1>1. PICK n : n = Len(Parts(f, s)) - i + 1
  OBVIOUS
<1>2. n \in Nat
  BY <1>0, <1>1
<1>3. \A j \in 1 .. n : Frame("run", Parts(f, s)[i + j - 1]) \in Frames(f)
  <2> TAKE j \in 1 .. n
  <2>1. i + j - 1 \in i .. Len(Parts(f, s))
    BY <1>0, <1>1, <1>2
  <2>2. Parts(f, s)[i + j - 1] \in {0} \cup DOMAIN f.ast
    BY <1>0, <2>1
  <2> QED BY <2>2, FramesIs
<1>4. w = [j \in 1 .. n |-> Frame("run", Parts(f, s)[i + j - 1])]
  BY <1>1, <1>9 DEF RunFrom
<1> DEFINE g(j) == Frame("run", Parts(f, s)[i + j - 1])
<1>5. \A j \in 1 .. n : g(j) \in Frames(f)
  BY <1>3
<1>6. w = [j \in 1 .. n |-> g(j)]
  BY <1>4
<1>7. \A j \in 1 .. n : w[j] = g(j)
  BY <1>4
<1> HIDE DEF g
<1>8. w \in Seq(Frames(f)) /\ Len(w) = n
  BY <1>2, <1>5, <1>6
<1> USE DEF g
<1> QED BY <1>1, <1>7, <1>8, <1>9 DEF RunsAre

(* Frames for statements that are laid one after the other are placed.     *)
LEMMA RowPlaced ==
  ASSUME NEW f, NEW N, NEW V, NEW k, NEW P, Placed(f, N, V, k, P),
         NEW s, NEW i, NEW p, Row(f, N, V, k, P, s, i, p)
  PROVE  At(f, N, V, RunFrom(f, s, i) \o k, p[i])
<1>1. PICK n, m : n = Len(k) /\ m = Len(Parts(f, s))
  OBVIOUS
<1>2. /\ m \in Nat /\ i \in 1 .. m /\ p[m + 1] = P[n]
      /\ \A l \in i .. m : Parts(f, s)[l] \in {0} \cup DOMAIN f.ast
      /\ \A l \in i .. m :
           \E c : /\ Made(N, V, "visit", Parts(f, s)[l], p[l], p[l + 1], c)
                  /\ Jumps(f, N, Heights(k), P, n + 1, Parts(f, s)[l], c.break, c.continue)
  BY <1>1 DEF Row
<1>3. PICK w : w = RunFrom(f, s, i)
  OBVIOUS
<1>4. /\ w \in Seq(Frames(f)) /\ Len(w) = m - i + 1
      /\ \A j \in 1 .. Len(w) : w[j] = Frame("run", Parts(f, s)[i + j - 1])
  <2>1. Listed(f, s, i)
    BY <1>1, <1>2 DEF Listed
  <2>2. RunsAre(f, s, i, w)
    BY <1>3, <2>1, RunFromIs, Zenon
  <2> QED BY <1>1, <2>2 DEF RunsAre
<1>5. n \in Nat /\ k \in Seq(Frames(f))
  BY <1>1, LenProperties DEF Placed
<1>6. PICK R : R = [j \in 1 .. Len(w) |-> p[m + 1 - j]]
  OBVIOUS
<1>7. PICK Q : Q = Places(P, n, R)
  OBVIOUS
<1>8. /\ \A h \in 0 .. n : Q[h] = P[h]
      /\ \A j \in 1 .. Len(w) : Q[n + j] = p[m + 1 - j]
  <2>1. (\A h \in 0 .. n : Q[h] = P[h]) /\ \A j \in Nat \ {0} : Q[n + j] = R[j]
    BY <1>5, <1>7, PlacesIs
  <2>2. \A j \in 1 .. Len(w) : R[j] = p[m + 1 - j]
    BY <1>6
  <2> QED BY <2>1, <2>2
<1>9. PICK u : u = w \o k
  OBVIOUS
<1>10. Puts(f, w, k, P, Q, u)
  BY <1>1, <1>4, <1>8, <1>9 DEF Puts
<1>11. PutOn(f, w, k, P, Q, u)
  BY <1>5, <1>10, PutsIs, Zenon
<1>12. PICK M : M = Heights(u)
  OBVIOUS
<1>13. /\ Len(u) = Len(w) + n /\ Agree(Heights(k), P, M, Q, n)
       /\ \A j \in 1 .. Len(w) : M[n + j] = w[Len(w) + 1 - j]
  BY <1>1, <1>11, <1>12 DEF PutOn
<1>14. ASSUME NEW j \in 1 .. Len(w) PROVE M[n + j] = Frame("run", Parts(f, s)[m + 1 - j])
  <2>1. Len(w) + 1 - j \in 1 .. Len(w) /\ i + (Len(w) + 1 - j) - 1 = m + 1 - j
    BY <1>2, <1>4
  <2>2. w[Len(w) + 1 - j] = Frame("run", Parts(f, s)[i + (Len(w) + 1 - j) - 1])
    BY <1>4, <2>1
  <2> QED BY <1>13, <2>1, <2>2
<1>15. ASSUME NEW j \in 1 .. Len(w) PROVE Sits(f, N, V, M, Q, n + j)
  <2>1. PICK l : l = m + 1 - j
    OBVIOUS
  <2>2. l \in i .. m /\ n + j \in Nat
    BY <1>2, <1>4, <1>5, <2>1
  <2>3. PICK c : /\ Made(N, V, "visit", Parts(f, s)[l], p[l], p[l + 1], c)
                 /\ Jumps(f, N, Heights(k), P, n + 1, Parts(f, s)[l], c.break, c.continue)
    BY <1>2, <2>2
  <2>4. M[n + j].at = "run" /\ M[n + j].stm = Parts(f, s)[l]
    BY <1>14, <2>1, FrameIs
  <2>5. Q[n + j] = p[l]
    BY <1>8, <2>1
  <2>6. Q[(n + j) - 1] = p[l + 1]
    <3>1. CASE j = 1
      <4>1. (n + j) - 1 = n /\ l + 1 = m + 1
        BY <1>2, <1>5, <2>1, <3>1
      <4> QED BY <1>2, <1>5, <1>8, <4>1
    <3>2. CASE j # 1
      <4>1. j - 1 \in 1 .. Len(w) /\ n + (j - 1) = (n + j) - 1 /\ m + 1 - (j - 1) = l + 1
        BY <1>2, <1>4, <1>5, <2>1, <3>2
      <4>2. Q[n + (j - 1)] = p[m + 1 - (j - 1)]
        BY <1>8, <4>1
      <4> QED BY <4>1, <4>2
    <3> QED BY <3>1, <3>2
  <2>7. Jumps(f, N, M, Q, n + j, Parts(f, s)[l], c.break, c.continue)
    <3>1. PICK g : g = (n + j) - 1
      OBVIOUS
    <3>2. g \in Nat /\ n <= g /\ g + 1 = n + j
      BY <1>4, <1>5, <3>1
    <3>3. \A h \in n + 1 .. g : M[h].at \notin {"exit", "iter", "test"}
      <4> TAKE h \in n + 1 .. g
      <4>1. h - n \in 1 .. Len(w) /\ n + (h - n) = h
        BY <1>4, <1>5, <3>1
      <4>2. M[n + (h - n)] = Frame("run", Parts(f, s)[m + 1 - (h - n)])
        BY <1>14, <4>1
      <4>3. M[h].at = "run"
        BY <4>1, <4>2, FrameIs
      <4> QED BY <4>3
    <3>4. /\ \A b : Breaks(N, Heights(k), P, n + 1, b) => Breaks(N, M, Q, g + 1, b)
          /\ \A b : Continues(N, Heights(k), P, n + 1, b) => Continues(N, M, Q, g + 1, b)
      BY <1>5, <1>13, <3>2, <3>3, JumpsKept
    <3> QED BY <2>3, <3>2, <3>4 DEF Jumps
  <2>8. Made(N, V, "visit", Parts(f, s)[l], Q[n + j], Q[(n + j) - 1], c)
    BY <2>3, <2>5, <2>6
  <2> QED BY <2>4, <2>7, <2>8, SitsIs
<1>16. AllSit(f, N, V, w, Q, u, Len(k))
  BY <1>1, <1>12, <1>15 DEF AllSit
<1>17. Placed(f, N, V, u, Q)
  BY <1>10, <1>16, Pushed, Zenon
<1>18. Q[Len(u)] = p[i]
  <2>1. Len(w) \in 1 .. Len(w) /\ m + 1 - Len(w) = i /\ n + Len(w) = Len(u)
    BY <1>2, <1>4, <1>5, <1>13
  <2>2. Q[n + Len(w)] = p[m + 1 - Len(w)]
    BY <1>8, <2>1
  <2> QED BY <2>1, <2>2
<1> QED BY <1>3, <1>9, <1>17, <1>18 DEF At

(* Entering a block follows the graph.                                     *)
LEMMA SettleBlock ==
  ASSUME NEW f, NEW N, NEW V, Finished(f, N, V), NEW k, k # <<>>, NEW P, Placed(f, N, V, k, P),
         Head(k).at = "run", Kind(f, Head(k).stm) = "block", Parts(f, Head(k).stm) # <<>>
  PROVE  Settles(f, N, V, k, P)
<1>1. PICK s, n : s = Head(k).stm /\ n = Len(k) - 1
  OBVIOUS
<1>2. PICK c : /\ c.stm = s /\ Joined(N, P[n + 1], N[c.begin].t) /\ Joined(N, c.end, P[n])
               /\ Jumps(f, N, Heights(k), P, n + 1, s, c.break, c.continue)
               /\ LaidVisit(f, N, V, c)
  BY <1>1, RunTop
<1>3. /\ s \in DOMAIN f.ast /\ s \in {0} \cup DOMAIN f.ast /\ n \in Nat /\ Len(k) = n + 1
      /\ f \in Functions /\ Regular(f) /\ Kind(f, s) = f.ast[s].kind
  BY <1>1, RunTop
<1>4. Kind(f, s) = "block" /\ LaidBlock(f, N, V, c) /\ Parts(f, s) # <<>>
  BY <1>1, <1>2 DEF LaidVisit
<1>5. PICK m : m = Len(Parts(f, s))
  OBVIOUS
<1>6. /\ m \in Nat \ {0} /\ \A l \in 1 .. m : Parts(f, s)[l] \in {0} \cup DOMAIN f.ast
      /\ \A l \in 1 .. m : Within(f, Parts(f, s)[l]) \subseteq Within(f, s)
  <2>1. /\ Parts(f, s) \in Seq({0} \cup DOMAIN f.ast) /\ s # 0
        /\ \A l \in 1 .. m : Parts(f, s)[l] # 0 =>
                f.ast[Parts(f, s)[l]].within \subseteq f.ast[s].within \cup Binds(Kind(f, s))
    BY <1>3, <1>5, StmOk
  <2>2. Binds("block") = {}
    BY DEF Binds
  <2>3. m \in Nat \ {0} /\ \A l \in 1 .. m : Parts(f, s)[l] \in {0} \cup DOMAIN f.ast
    BY <1>4, <1>5, <2>1, EmptySeq, ElementOfSeq
  <2>4. \A l \in 1 .. m : Within(f, Parts(f, s)[l]) \subseteq Within(f, s)
    BY <1>4, <2>1, <2>2 DEF Within
  <2> QED BY <2>3, <2>4
<1>7. PICK p : /\ Goes(N, c.begin, p[0]) /\ Stands(N, p[0], "open")
               /\ \A i \in 1 .. m - 1 : Stands(N, p[i], "forward")
               /\ Is(N, p[m], "close", 0, c.end, c.end)
               /\ \A i \in 1 .. m : Like(c, Parts(f, s)[i], p[i - 1], p[i]) \in V
  BY <1>2, <1>4, <1>5 DEF LaidBlock
<1>8. PICK w : w = <<Frame("close", s)>>
  OBVIOUS
<1>9. w \in Seq(Frames(f)) /\ Len(w) = 1 /\ w[1] = Frame("close", s)
  <2>1. Frame("close", s) \in Frames(f)
    BY <1>3, FramesIs
  <2>2. \A S : \A g \in S : <<g>> \in Seq(S) /\ Len(<<g>>) = 1 /\ <<g>>[1] = g
    OBVIOUS
  <2> QED BY <1>8, <2>1, <2>2, Zenon
<1>10. PICK Q : Above(P, n, Q, p[m], 0, 0, 0)
  BY <1>3, SomePlaces, Zenon
<1>11. (\A h \in 0 .. n : Q[h] = P[h]) /\ Q[n] = P[n] /\ Q[n + 1] = p[m]
  BY <1>3, <1>10 DEF Above
<1>12. PICK u : u = w \o Tail(k)
  OBVIOUS
<1>13. Replaces(f, N, V, k, P, w, Q, u, n)
  BY <1>1, <1>9, <1>11, <1>12 DEF Replaces
<1>14. PICK M : M = Heights(u)
  OBVIOUS
<1>15. M[n + 1] = Frame("close", s) /\ Agree(Heights(k), P, M, Q, n)
  <2>1. Under(f, N, V, k, P, w, Q, u, n)
    BY <1>13, UnderIs, Zenon
  <2>2. Agree(Heights(k), P, M, Q, n) /\ \A j \in 1 .. 1 : M[n + j] = w[1 + 1 - j]
    BY <1>9, <1>14, <2>1 DEF Under
  <2> QED BY <1>9, <2>2
<1>16. Sits(f, N, V, M, Q, n + 1)
  <2>1. Stands(N, p[m], "close") /\ N[p[m]].t = c.end
    BY <1>7, NodeJoins
  <2>2. M[n + 1].at = "close" /\ (n + 1) - 1 = n
    BY <1>3, <1>15, FrameIs
  <2>3. Joined(N, Q[n + 1], p[m]) /\ Joined(N, N[p[m]].t, Q[(n + 1) - 1])
    BY <1>2, <1>11, <2>1, <2>2, Joining
  <2> QED BY <2>1, <2>2, <2>3, SitsIs
<1>17. AllSit(f, N, V, w, Q, u, n)
  BY <1>9, <1>14, <1>16 DEF AllSit
<1>18. Placed(f, N, V, u, Q) /\ Len(u) = n + 1
  <2>1. Placed(f, N, V, u, Q)
    BY <1>13, <1>17, SettleOn, Zenon
  <2>2. Under(f, N, V, k, P, w, Q, u, n)
    BY <1>13, UnderIs, Zenon
  <2>3. Puts(f, w, Tail(k), P, Q, u) /\ Len(Tail(k)) = n /\ Tail(k) \in Seq(Frames(f))
    BY <2>2 DEF Under, Placed
  <2>4. PutOn(f, w, Tail(k), P, Q, u)
    BY <2>3, PutsIs, Zenon
  <2>5. Len(u) = Len(w) + n
    BY <2>3, <2>4 DEF PutOn
  <2> QED BY <1>3, <1>9, <2>1, <2>5
<1>19. PICK r : r = [l \in 1 .. m + 1 |-> IF l = m + 1 THEN p[m] ELSE N[p[l - 1]].t]
  OBVIOUS
<1>20. r[m + 1] = p[m] /\ \A l \in 1 .. m : r[l] = N[p[l - 1]].t
  BY <1>6, <1>19
<1>21. ASSUME NEW l \in 1 .. m
       PROVE  \E d : /\ Made(N, V, "visit", Parts(f, s)[l], r[l], r[l + 1], d)
                     /\ Jumps(f, N, Heights(u), Q, Len(u) + 1, Parts(f, s)[l], d.break, d.continue)
  <2>1. PICK d : d = Like(c, Parts(f, s)[l], p[l - 1], p[l])
    OBVIOUS
  <2>2. /\ d \in V /\ d.do = "visit" /\ d.stm = Parts(f, s)[l] /\ d.begin = p[l - 1] /\ d.end = p[l]
        /\ d.break = c.break /\ d.continue = c.continue
    BY <1>7, <2>1, CalledParts DEF Like
  <2>3. Joined(N, p[l], r[l + 1])
    <3>1. CASE l = m
      BY <1>20, <3>1, Joining
    <3>2. CASE l # m
      <4>1. l \in 1 .. m - 1 /\ l + 1 \in 1 .. m /\ (l + 1) - 1 = l
        BY <1>6, <3>2
      <4>2. r[l + 1] = N[p[l]].t
        BY <1>20, <4>1
      <4> QED BY <1>7, <4>1, <4>2, NodeJoins
    <3> QED BY <3>1, <3>2
  <2>4. Made(N, V, "visit", Parts(f, s)[l], r[l], r[l + 1], d)
    BY <1>20, <2>2, <2>3, Joining DEF Made
  <2>5. /\ \A b : Breaks(N, Heights(k), P, n + 1, b) => Breaks(N, M, Q, (n + 1) + 1, b)
        /\ \A b : Continues(N, Heights(k), P, n + 1, b) => Continues(N, M, Q, (n + 1) + 1, b)
    <3>1. n <= n + 1 /\ n + 1 \in Nat /\ \A g \in n + 1 .. n + 1 : M[g].at \notin {"exit", "iter", "test"}
      BY <1>3, <1>15, FrameIs
    <3> QED BY <1>3, <1>15, <3>1, JumpsKept
  <2>6. Jumps(f, N, M, Q, (n + 1) + 1, Parts(f, s)[l], d.break, d.continue)
    BY <1>2, <1>4, <1>6, <2>2, <2>5 DEF Jumps
  <2> QED BY <1>14, <1>18, <2>4, <2>6
<1>22. Row(f, N, V, u, Q, s, 1, r)
  <2>1. r[m + 1] = Q[Len(u)] /\ 1 \in 1 .. m
    BY <1>6, <1>11, <1>18, <1>20
  <2> QED BY <1>5, <1>6, <1>21, <2>1 DEF Row
<1>23. At(f, N, V, RunFrom(f, s, 1) \o u, r[1])
  BY <1>18, <1>22, RowPlaced
<1>24. Silently(f, k) = RunFrom(f, s, 1) \o u
  <2>1. Entered(f, s) = RunFrom(f, s, 1) \o w
    BY <1>4, <1>8 DEF Entered
  <2>2. Silently(f, k) = (RunFrom(f, s, 1) \o w) \o Tail(k)
    BY <1>1, <1>4, <2>1 DEF Silently
  <2>3. Tail(k) \in Seq(Frames(f))
    BY TopFrame
  <2>4. RunFrom(f, s, 1) \in Seq(Frames(f))
    <3>1. Listed(f, s, 1)
      BY <1>5, <1>6 DEF Listed
    <3>2. RunsAre(f, s, 1, RunFrom(f, s, 1))
      BY <3>1, RunFromIs, Zenon
    <3> QED BY <3>2 DEF RunsAre
  <2>5. (RunFrom(f, s, 1) \o w) \o Tail(k) = RunFrom(f, s, 1) \o (w \o Tail(k))
    BY <1>9, <2>3, <2>4, ConcatAssociative
  <2> QED BY <1>12, <2>2, <2>5
<1>25. RiseOf(f, k) = 1
  BY <1>1, <1>4 DEF RiseOf
<1>26. PICK T : Placed(f, N, V, Silently(f, k), T) /\ T[Len(Silently(f, k))] = r[1]
  BY <1>23, <1>24 DEF At
<1>27. Joined(N, P[Len(k)], p[0]) /\ r[1] = N[p[0]].t
  BY <1>2, <1>3, <1>6, <1>7, <1>20, NodeJoins
<1>28. Flows(N, P[Len(k)], r[1], 1)
  BY <1>7, <1>27, Joining DEF Flows
<1> QED BY <1>25, <1>26, <1>28 DEF Settles

(* Labels that are not compared only forward. *)
LEMMA ChainRuns ==
  ASSUME NEW f, NEW N, NEW V, NEW d, NEW a, NEW r, NEW out, Chain(f, N, V, d, a, r, out),
         NEW k, k = Len(Parts(f, d.stm)), k \in Nat, NEW i \in 2 .. k + 1, NEW j \in i .. k + 1,
         \A l \in i .. j - 1 : ~Compared(f, d.stm, l)
  PROVE  Joined(N, r[i], r[j])
<1> SUFFICES ASSUME ~Joined(N, r[i], r[j]) PROVE FALSE
  OBVIOUS
<1>1. \A l \in 2 .. k : ~Compared(f, d.stm, l) => Joined(N, r[l], r[l + 1])
  <2>1. \A l \in 2 .. k : ~Compared(f, d.stm, l) => Is(N, r[l], "forward", 0, r[l + 1], r[l + 1])
    BY DEF Chain
  <2> QED BY <2>1, NodeJoins
<1> DEFINE S == {l \in i .. j : ~Joined(N, r[i], r[l])}
<1>2. PICK l \in S : \A m \in S : l <= m
  <2>1. S \in SUBSET Nat /\ j \in S
    OBVIOUS
  <2> HIDE DEF S
  <2> QED BY <2>1, Least
<1>3. l \in i .. j /\ ~Joined(N, r[i], r[l]) /\ l # i
  BY <1>2, Joining
<1>4. l - 1 \in i .. j - 1 /\ l - 1 \in i .. j /\ l - 1 \in 2 .. k /\ (l - 1) + 1 = l /\ ~(l <= l - 1)
  BY <1>3
<1>5. Joined(N, r[i], r[l - 1])
  BY <1>2, <1>4
<1>6. Joined(N, r[l - 1], r[(l - 1) + 1])
  BY <1>1, <1>4
<1> QED BY <1>3, <1>4, <1>5, <1>6, Joining

(* Nor do labels when they are executed. *)
LEMMA LabelsJoin ==
  ASSUME NEW f, NEW N, NEW V, Finished(f, N, V),
         NEW d, NEW a, NEW r, NEW out, Chain(f, N, V, d, a, r, out),
         NEW k, k = Len(Parts(f, d.stm)), k \in Nat, NEW i \in 2 .. k, NEW j \in i .. k,
         \A l \in i .. j - 1 : Kind(f, Parts(f, d.stm)[l]) \in Labels
  PROVE  Joined(N, a[i], a[j])
<1> SUFFICES ASSUME ~Joined(N, a[i], a[j]) PROVE FALSE
  OBVIOUS
<1>1. ASSUME NEW l \in 2 .. k, Kind(f, Parts(f, d.stm)[l]) \in Labels PROVE Joined(N, a[l], a[l + 1])
  <2>1. PICK c : c = Called("visit", Parts(f, d.stm)[l], a[l], a[l + 1], out, d.continue)
    OBVIOUS
  <2>2. c \in V /\ Stands(N, a[l], "forward")
    BY <2>1 DEF Chain
  <2>3. c.do = "visit" /\ c.stm = Parts(f, d.stm)[l] /\ c.begin = a[l] /\ c.end = a[l + 1]
    BY <2>1, CalledParts
  <2>4. Laid(f, N, V, c)
    BY <2>2, CallIs
  <2>5. Goes(N, c.begin, c.end)
    <3>1. LaidVisit(f, N, V, c)
      BY <2>3, <2>4 DEF Laid
    <3>2. Kind(f, c.stm) \in {"null"} \cup Labels
      BY <1>1, <2>3
    <3>3. Kind(f, c.stm) \in {"null"} \cup Labels => Goes(N, c.begin, c.end)
      BY <3>1 DEF LaidVisit
    <3> QED BY <3>2, <3>3
  <2>6. Joined(N, a[l], N[a[l]].t)
    BY <2>2, NodeJoins
  <2>7. N[c.begin].t = c.end
    BY <2>5, NodeJoins
  <2> QED BY <2>3, <2>6, <2>7
<1> DEFINE S == {l \in i .. j : ~Joined(N, a[i], a[l])}
<1>2. PICK l \in S : \A m \in S : l <= m
  <2>1. S \in SUBSET Nat /\ j \in S
    OBVIOUS
  <2> HIDE DEF S
  <2> QED BY <2>1, Least
<1>3. l \in i .. j /\ ~Joined(N, a[i], a[l]) /\ l # i
  BY <1>2, Joining
<1>4. l - 1 \in i .. j - 1 /\ l - 1 \in i .. j /\ l - 1 \in 2 .. k /\ (l - 1) + 1 = l /\ ~(l <= l - 1)
  BY <1>3
<1>5. Joined(N, a[i], a[l - 1])
  BY <1>2, <1>4
<1>6. Joined(N, a[l - 1], a[(l - 1) + 1])
  BY <1>1, <1>4
<1> QED BY <1>3, <1>4, <1>5, <1>6, Joining

(* The run of labels with default in it *)
Default(f, s, j) == j \in 2 .. Len(Parts(f, s)) /\ Kind(f, Parts(f, s)[j]) = "default"

(* A switch with a default has a place to run from when no case fits.      *)
LEMMA DefaultRun ==
  ASSUME NEW f, NEW s, Len(Parts(f, s)) \in Nat, NEW j, Default(f, s, j)
  PROVE  Defaults(f, s) # {}
<1>1. PICK k : k = Len(Parts(f, s))
  OBVIOUS
<1> DEFINE Label(l) == Kind(f, Parts(f, s)[l]) \in Labels
           S == {i \in 2 .. j : \A l \in i .. j : Label(l)}
<1>2. k \in Nat /\ j \in 2 .. k /\ Label(j) /\ Kind(f, Parts(f, s)[j]) = "default"
  BY <1>1 DEF Default, Labels
<1> HIDE DEF Label
<1>3. PICK i \in S : \A m \in S : i <= m
  <2>1. \A l \in j .. j : l = j
    BY <1>2
  <2>2. S \in SUBSET Nat /\ j \in S
    BY <1>2, <2>1
  <2> HIDE DEF S
  <2> QED BY <2>2, Least
<1>4. i \in 2 .. j /\ (\A l \in i .. j : Label(l)) /\ i \in 2 .. k /\ i \in 1 .. k /\ i \in i .. j
  BY <1>2, <1>3
<1>5. i > 2 => ~Label(i - 1)
  <2> SUFFICES ASSUME i > 2, Label(i - 1) PROVE FALSE
    OBVIOUS
  <2>1. i - 1 \in 2 .. j /\ ~(i <= i - 1)
    BY <1>2, <1>4
  <2>2. \A l \in i - 1 .. j : l = i - 1 \/ l \in i .. j
    BY <1>2, <1>4
  <2>3. i - 1 \in S
    BY <1>4, <2>1, <2>2
  <2> QED BY <1>3, <2>1, <2>3
<1>6. i \in RunStarts(f, s)
  BY <1>1, <1>4, <1>5 DEF RunStarts, Label
<1>7. PICK e : e = RunEnd(f, s, i)
  OBVIOUS
<1>8. e \in i .. k + 1 /\ (e <= k => ~Label(e))
  BY <1>1, <1>4, <1>7, RunEndIs DEF Label
<1>9. j \in i .. e - 1
  <2>1. ~(e <= j)
    <3> SUFFICES ASSUME e <= j PROVE FALSE
      OBVIOUS
    <3>1. e \in i .. j /\ e <= k
      BY <1>2, <1>4, <1>8
    <3> QED BY <1>4, <1>8, <3>1
  <2> QED BY <1>2, <1>4, <1>8, <2>1
<1>10. HasDefault(f, s, i)
  BY <1>2, <1>7, <1>9 DEF HasDefault
<1> QED BY <1>6, <1>10 DEF Defaults

(* That place is a default, or a label right before it.                    *)
LEMMA DefaultIs ==
  ASSUME NEW f, NEW s, Len(Parts(f, s)) \in Nat, NEW i \in Defaults(f, s)
  PROVE  /\ i \in 2 .. Len(Parts(f, s))
         /\ \E j \in i .. Len(Parts(f, s)) :
              Default(f, s, j) /\ \A l \in i .. j - 1 : Kind(f, Parts(f, s)[l]) \in Labels
<1>1. i \in 2 .. Len(Parts(f, s)) /\ HasDefault(f, s, i)
  BY DEF Defaults, RunStarts
<1>2. PICK e : e = RunEnd(f, s, i)
  OBVIOUS
<1>3. i \in 1 .. Len(Parts(f, s))
  BY <1>1
<1>4. e \in i .. Len(Parts(f, s)) + 1 /\ \A l \in i .. e - 1 : Kind(f, Parts(f, s)[l]) \in Labels
  BY <1>2, <1>3, RunEndIs
<1>5. PICK j \in i .. e - 1 : Kind(f, Parts(f, s)[j]) = "default"
  BY <1>1, <1>2 DEF HasDefault
<1>6. j \in i .. Len(Parts(f, s)) /\ j \in 2 .. Len(Parts(f, s)) /\ \A l \in i .. j - 1 : l \in i .. e - 1
  BY <1>1, <1>4, <1>5
<1> QED BY <1>1, <1>4, <1>5, <1>6 DEF Default

(* What is compared is what is left. *)
LEMMA RunsLeftIs ==
  ASSUME NEW f, NEW s, NEW i
  PROVE  /\ \A j : j \in RunsLeft(f, s, i) <=> Compared(f, s, j) /\ j >= i
         /\ \A j : Compared(f, s, j) => j \in 2 .. Len(Parts(f, s))
BY DEF RunsLeft, Compared, RunStarts

(* A continue is bound below frames that bind only breaks. *)
LEMMA ContinuesKept ==
  ASSUME NEW f, NEW N, NEW K, NEW P, NEW M, NEW Q, NEW h \in Nat, NEW l \in Nat, h <= l,
         Agree(K, P, M, Q, h),
         \A g \in h + 1 .. l : M[g].at \notin {"iter", "test"},
         NEW b, Continues(N, K, P, h + 1, b)
  PROVE  Continues(N, M, Q, l + 1, b)
<1>1. \A g \in 1 .. h : K[g] = M[g] /\ P[g] = Q[g]
  BY DEF Agree
<1>2. PICK m \in 1 .. h : K[m].at \in {"iter", "test"}
              /\ (\A g \in m + 1 .. h : K[g].at \notin {"iter", "test"}) /\ Joined(N, b, P[m])
  BY DEF Continues
<1>3. M[m].at \in {"iter", "test"} /\ Joined(N, b, Q[m]) /\ m \in 1 .. l
  BY <1>1, <1>2
<1>4. \A g \in m + 1 .. l : M[g].at \notin {"iter", "test"}
  <2> TAKE g \in m + 1 .. l
  <2>1. g \in h + 1 .. l \/ g \in m + 1 .. h
    OBVIOUS
  <2>2. g \in m + 1 .. h => g \in 1 .. h
    OBVIOUS
  <2> QED BY <1>1, <1>2, <2>1, <2>2
<1>5. (l + 1) - 1 = l
  OBVIOUS
<1> QED BY <1>3, <1>4, <1>5 DEF Continues

(* The statements of a switch are executed from statement i on. *)
LEMMA PickRow ==
  ASSUME NEW f, NEW N, NEW V, Finished(f, N, V), NEW k, k # <<>>, NEW P, Placed(f, N, V, k, P),
         Head(k).at = "pick", NEW s, s = Head(k).stm,
         NEW d, NEW a, NEW r, NEW out,
         Picks(f, N, V, Heights(k), P, Len(k), s, Head(k).i, d, a, r, out),
         NEW i \in 2 .. Len(Parts(f, s))
  PROVE  At(f, N, V, RunFrom(f, s, i) \o Tail(k), a[i])
<1>1. PICK n, m, u : n = Len(k) - 1 /\ m = Len(Parts(f, s)) /\ u = Tail(k)
  OBVIOUS
<1>2. PICK K : K = Heights(k)
  OBVIOUS
<1>3. /\ Len(k) \in Nat \ {0} /\ K[Len(k)] = Head(k) /\ Sits(f, N, V, K, P, Len(k)) /\ Head(k) \in Frames(f)
  BY <1>2, TopFrame
<1>4. n \in Nat /\ Len(k) = n + 1
  BY <1>1, <1>3
<1>5. Kind(f, s) = "switch" /\ n + 1 > 1 /\ K[n].at = "exit"
  <2>1. (n + 1) - 1 = n
    BY <1>4
  <2> QED BY <1>3, <1>4, <2>1 DEF Sits
<1>6. Placed(f, N, V, u, P) /\ Len(u) = n /\ Agree(K, P, Heights(u), P, n)
  BY <1>1, <1>2, Popped, Zenon
<1>7. /\ d.stm = s /\ Chain(f, N, V, d, a, r, out) /\ Joined(N, out, P[n])
      /\ "continue" \in Within(f, s) => Continues(N, K, P, n + 1, d.continue)
  <2>1. (n + 1) - 1 = n
    BY <1>4
  <2> QED BY <1>2, <1>4, <2>1 DEF Picks
<1>8. Joined(N, P[n], P[n - 1])
  <2>1. n \in 1 .. Len(k)
    BY <1>4, <1>5
  <2>2. Sits(f, N, V, K, P, n)
    BY <1>2, <2>1 DEF Placed
  <2> QED BY <1>5, <2>2 DEF Sits
<1>9. f \in Functions /\ Regular(f) /\ s \in {0} \cup DOMAIN f.ast
  BY <1>3 DEF Finished, Frames
<1>10. m \in Nat /\ \A l \in 1 .. m : Parts(f, s)[l] \in {0} \cup DOMAIN f.ast /\ s \in DOMAIN f.ast
  BY <1>1, <1>5, <1>9, PartsOk
<1>11. /\ Is(N, out, "close", 0, d.end, d.end) /\ Is(N, a[m + 1], "forward", 0, out, out)
       /\ \A l \in 2 .. m : /\ Stands(N, a[l], "forward")
                            /\ Called("visit", Parts(f, s)[l], a[l], a[l + 1], out, d.continue) \in V
  BY <1>1, <1>7 DEF Chain
<1>12. PICK p : p = [l \in 1 .. m + 1 |-> IF l = m + 1 THEN P[n] ELSE a[l]]
  OBVIOUS
<1>13. p[m + 1] = P[n] /\ \A l \in 1 .. m : p[l] = a[l]
  BY <1>10, <1>12
<1>14. ASSUME NEW l \in i .. m
       PROVE  \E c : /\ Made(N, V, "visit", Parts(f, s)[l], p[l], p[l + 1], c)
                     /\ Jumps(f, N, Heights(u), P, n + 1, Parts(f, s)[l], c.break, c.continue)
  <2>1. l \in 2 .. m /\ l \in 1 .. m /\ i \in 2 .. m
    BY <1>1
  <2>2. PICK c : c = Called("visit", Parts(f, s)[l], a[l], a[l + 1], out, d.continue)
    OBVIOUS
  <2>3. c \in V /\ Stands(N, a[l], "forward") /\ c.break = out /\ c.continue = d.continue
    BY <1>11, <2>1, <2>2, CalledParts
  <2>4. Joined(N, a[l + 1], p[l + 1])
    <3>1. CASE l = m
      <4>1. Joined(N, a[m + 1], out)
        BY <1>11, NodeJoins
      <4>2. Joined(N, a[m + 1], P[n])
        BY <1>7, <4>1, Joining
      <4> QED BY <1>13, <3>1, <4>2
    <3>2. CASE l # m
      <4>1. l + 1 \in 1 .. m
        BY <1>10, <2>1, <3>2
      <4> QED BY <1>13, <4>1, Joining
    <3> QED BY <3>1, <3>2
  <2>5. Joined(N, p[l], a[l])
    BY <1>13, <2>1, Joining
  <2>6. Made(N, V, "visit", Parts(f, s)[l], p[l], p[l + 1], c)
    <3>1. Called("visit", Parts(f, s)[l], a[l], a[l + 1], out, d.continue) \in V
      BY <2>2, <2>3
    <3>2. Made(N, V, "visit", Parts(f, s)[l], p[l], p[l + 1],
               Called("visit", Parts(f, s)[l], a[l], a[l + 1], out, d.continue))
      BY <2>3, <2>4, <2>5, <3>1, MadeIs, Zenon
    <3> QED BY <2>2, <3>2
  <2>7. Within(f, Parts(f, s)[l]) \subseteq Within(f, s) \cup {"break"}
    <3>1. /\ \A j \in 1 .. Len(Parts(f, s)) : Parts(f, s)[j] # 0 =>
                f.ast[Parts(f, s)[j]].within \subseteq f.ast[s].within \cup Binds(Kind(f, s))
          /\ s # 0
      BY <1>9, <1>10, <2>1, StmOk
    <3>2. Binds("switch") = {"break"}
      BY DEF Binds
    <3> QED BY <1>1, <1>5, <2>1, <3>1, <3>2 DEF Within
  <2>8. Breaks(N, Heights(u), P, n + 1, out)
    <3>1. n \in 1 .. (n + 1) - 1 /\ n + 1 .. (n + 1) - 1 = {} /\ n \in 1 .. n
      BY <1>4, <1>5
    <3>2. Heights(u)[n].at = "exit"
      BY <1>5, <1>6, <3>1 DEF Agree
    <3>3. Joined(N, out, P[n - 1])
      BY <1>7, <1>8, Joining
    <3> QED BY <3>1, <3>2, <3>3 DEF Breaks
  <2>9. "continue" \in Within(f, s) => Continues(N, Heights(u), P, n + 1, d.continue)
    <3>1. n <= n /\ \A g \in n + 1 .. n : Heights(u)[g].at \notin {"iter", "test"}
      BY <1>4
    <3> QED BY <1>4, <1>6, <1>7, <3>1, ContinuesKept
  <2>10. Jumps(f, N, Heights(u), P, n + 1, Parts(f, s)[l], c.break, c.continue)
    BY <2>3, <2>7, <2>8, <2>9 DEF Jumps
  <2> QED BY <2>6, <2>10
<1>15. Row(f, N, V, u, P, s, i, p)
  <2>1. p[m + 1] = P[Len(u)] /\ i \in 1 .. m
    BY <1>1, <1>6, <1>10, <1>13
  <2>2. \A l \in i .. m : Parts(f, s)[l] \in {0} \cup DOMAIN f.ast
    BY <1>10, <2>1
  <2> QED BY <1>1, <1>6, <1>10, <1>14, <2>1, <2>2 DEF Row
<1>16. At(f, N, V, RunFrom(f, s, i) \o u, p[i])
  BY <1>6, <1>15, RowPlaced
<1>17. p[i] = a[i]
  BY <1>1, <1>13
<1> QED BY <1>1, <1>16, <1>17

(* A switch with no label left follows the graph to its default or its     *)
(* end.                                                                    *)
LEMMA SettlePick ==
  ASSUME NEW f, NEW N, NEW V, Finished(f, N, V), NEW k, k # <<>>, NEW P, Placed(f, N, V, k, P),
         Head(k).at = "pick", IsSilent(f, k)
  PROVE  Settles(f, N, V, k, P)
<1>1. PICK s, m, i : s = Head(k).stm /\ m = Len(Parts(f, s)) /\ i = Head(k).i
  OBVIOUS
<1>2. Sits(f, N, V, Heights(k), P, Len(k)) /\ Heights(k)[Len(k)] = Head(k) /\ Head(k) \in Frames(f)
  BY TopFrame
<1>3. Kind(f, s) = "switch" /\ i \in 2 .. m + 1
  BY <1>1, <1>2 DEF Sits
<1>4. PICK d, a, r, out : Picks(f, N, V, Heights(k), P, Len(k), s, i, d, a, r, out)
  BY <1>1, <1>2 DEF Sits
<1>5. f \in Functions /\ Regular(f) /\ s \in {0} \cup DOMAIN f.ast
  BY <1>1, <1>2 DEF Finished, Frames
<1>6. m \in Nat /\ s \in DOMAIN f.ast
  BY <1>1, <1>3, <1>5, PartsOk
<1>7. /\ d.stm = s /\ Chain(f, N, V, d, a, r, out) /\ Joined(N, P[Len(k)], r[i])
      /\ Joined(N, out, P[Len(k) - 1])
  BY <1>4 DEF Picks
<1>8. Joined(N, P[Len(k)], r[m + 1])
  <2>1. RunsLeft(f, s, i) = {}
    BY <1>1 DEF IsSilent
  <2>2. \A l \in i .. (m + 1) - 1 : ~Compared(f, s, l)
    BY <1>3, <1>6, <2>1, RunsLeftIs
  <2>3. m + 1 \in i .. m + 1
    BY <1>3, <1>6
  <2>4. Joined(N, r[i], r[m + 1])
    BY <1>1, <1>3, <1>6, <1>7, <2>2, <2>3, ChainRuns
  <2> QED BY <1>7, <2>4, Joining
<1> DEFINE defaults == {j \in 2 .. m : Kind(f, Parts(f, s)[j]) = "default"}
           to == IF defaults = {} THEN out ELSE a[CHOOSE j \in defaults : TRUE]
<1>9. Joined(N, P[Len(k)], to)
  <2>1. Is(N, r[m + 1], "forward", 0, to, to)
    BY <1>1, <1>7 DEF Chain
  <2> HIDE DEF to
  <2>2. Joined(N, r[m + 1], to)
    BY <2>1, NodeJoins
  <2> QED BY <1>8, <2>2, Joining
<1>10. RiseOf(f, k) = 0
  BY DEF RiseOf
<1>11. CASE Defaults(f, s) = {}
  <2>1. defaults = {}
    BY <1>1, <1>6, <1>11, DefaultRun DEF Default
  <2>2. Joined(N, P[Len(k)], P[Len(k) - 1])
    BY <1>7, <1>9, <2>1, Joining
  <2>3. Silently(f, k) = Tail(k)
    BY <1>1, <1>11 DEF Silently
  <2>4. Flows(N, P[Len(k)], P[Len(k) - 1], RiseOf(f, k))
    BY <1>10, <2>2 DEF Flows
  <2> QED BY <2>3, <2>4, SettlePop, Zenon
<1>12. CASE Defaults(f, s) # {}
  <2>1. PICK g : g = CHOOSE j \in Defaults(f, s) : TRUE
    OBVIOUS
  <2>2. g \in Defaults(f, s)
    BY <1>12, <2>1
  <2>3. g \in 2 .. m
    BY <1>1, <1>6, <2>2, DefaultIs
  <2>4. PICK j \in g .. m : Default(f, s, j) /\ \A l \in g .. j - 1 : Kind(f, Parts(f, s)[l]) \in Labels
    BY <1>1, <1>6, <2>2, DefaultIs
  <2>5. Joined(N, a[g], a[j])
    BY <1>1, <1>6, <1>7, <2>3, <2>4, LabelsJoin
  <2>6. j \in defaults /\ \A l \in defaults : l = j
    <3>1. j \in defaults
      BY <1>1, <2>4 DEF Default
    <3>2. Grammatical(f, s) /\ Kind(f, s) = f.ast[s].kind
      BY <1>5, <1>6, StmOk
    <3>3. \A l, o \in 2 .. m : PartKind(f, s, l) = "default" /\ PartKind(f, s, o) = "default" => l = o
      BY <1>1, <1>3, <3>2 DEF Grammatical, Parts
    <3>4. \A l \in 2 .. m : PartKind(f, s, l) = Kind(f, Parts(f, s)[l])
      BY DEF PartKind, Kind, Parts
    <3> QED BY <3>1, <3>3, <3>4
  <2>7. to = a[j]
    <3> HIDE DEF defaults
    <3> QED BY <2>6
  <2>8. Joined(N, P[Len(k)], a[g])
    <3>1. Joined(N, a[j], a[g])
      BY <2>5, JoinedIs
    <3> QED BY <1>9, <2>7, <3>1, Joining
  <2>9. At(f, N, V, RunFrom(f, s, g) \o Tail(k), a[g])
    BY <1>1, <1>4, <2>3, PickRow
  <2>10. Silently(f, k) = RunFrom(f, s, g) \o Tail(k)
    BY <1>1, <1>12, <2>1 DEF Silently
  <2>11. PICK T : Placed(f, N, V, Silently(f, k), T) /\ T[Len(Silently(f, k))] = a[g]
    BY <2>9, <2>10 DEF At
  <2> QED BY <1>10, <2>8, <2>11 DEF Settles, Flows
<1> QED BY <1>11, <1>12

(* Entering a switch follows the graph.                                    *)
LEMMA SettleSwitch ==
  ASSUME NEW f, NEW N, NEW V, Finished(f, N, V), NEW k, k # <<>>, NEW P, Placed(f, N, V, k, P),
         Head(k).at = "run", Kind(f, Head(k).stm) = "switch"
  PROVE  Settles(f, N, V, k, P)
<1>1. PICK s, n : s = Head(k).stm /\ n = Len(k) - 1
  OBVIOUS
<1>2. PICK c : /\ c.stm = s /\ Joined(N, P[n + 1], N[c.begin].t) /\ Joined(N, c.end, P[n])
               /\ Jumps(f, N, Heights(k), P, n + 1, s, c.break, c.continue)
               /\ LaidVisit(f, N, V, c)
  BY <1>1, RunTop
<1>3. /\ s \in DOMAIN f.ast /\ s \in {0} \cup DOMAIN f.ast /\ n \in Nat /\ Len(k) = n + 1
      /\ f \in Functions /\ Regular(f) /\ Kind(f, s) = f.ast[s].kind
  BY <1>1, RunTop
<1>4. Kind(f, s) = "switch" /\ LaidSwitch(f, N, V, c)
  BY <1>1, <1>2 DEF LaidVisit
<1>5. PICK x, a, r, out :
    Goes(N, c.begin, x) /\ Is(N, x, "open", 0, r[2], r[2]) /\ Chain(f, N, V, c, a, r, out)
  BY <1>4, Zenon DEF LaidSwitch
<1>6. Is(N, out, "close", 0, c.end, c.end)
  BY <1>5 DEF Chain
<1>7. PICK g : g = [Frame("pick", s) EXCEPT !.i = 2]
  OBVIOUS
<1>8. g.at = "pick" /\ g.stm = s /\ g.i = 2 /\ g \in Frames(f)
  BY <1>3, <1>7 DEF Frame, Frames
<1>9. PICK w : w = <<g, Frame("exit", s), Frame("close", s)>>
  OBVIOUS
<1>10. /\ w \in Seq(Frames(f)) /\ Len(w) = 3
       /\ w[1] = g /\ w[2] = Frame("exit", s) /\ w[3] = Frame("close", s)
  <2>1. Frame("exit", s) \in Frames(f) /\ Frame("close", s) \in Frames(f)
    BY <1>3, FramesIs
  <2>2. \A S : \A h, l, o \in S :
          <<h, l, o>> \in Seq(S) /\ Len(<<h, l, o>>) = 3 /\ <<h, l, o>>[1] = h
          /\ <<h, l, o>>[2] = l /\ <<h, l, o>>[3] = o
    OBVIOUS
  <2> QED BY <1>8, <1>9, <2>1, <2>2, Zenon
<1>11. PICK Q : Above(P, n, Q, out, out, r[2], 0)
  BY <1>3, SomePlaces, Zenon
<1>12. /\ \A h \in 0 .. n : Q[h] = P[h]
       /\ Q[n] = P[n] /\ Q[n + 1] = out /\ Q[n + 2] = out /\ Q[n + 3] = r[2]
  BY <1>3, <1>11 DEF Above
<1>13. PICK u : u = w \o Tail(k)
  OBVIOUS
<1>14. Replaces(f, N, V, k, P, w, Q, u, n)
  BY <1>1, <1>10, <1>12, <1>13 DEF Replaces
<1>15. PICK M : M = Heights(u)
  OBVIOUS
<1>16. (\A l \in 1 .. 3 : M[n + l] = w[3 + 1 - l]) /\ Agree(Heights(k), P, M, Q, n)
  <2>1. Under(f, N, V, k, P, w, Q, u, n)
    BY <1>14, UnderIs, Zenon
  <2> QED BY <1>10, <1>15, <2>1 DEF Under
<1>17. M[n + 1] = Frame("close", s) /\ M[n + 2] = Frame("exit", s) /\ M[n + 3] = g
  BY <1>10, <1>16
<1>18. M[n + 1].at = "close" /\ M[n + 2].at = "exit" /\ M[n + 3].at = "pick" /\ M[n + 3].stm = s /\ M[n + 3].i = 2
  BY <1>8, <1>17, FrameIs
<1>19. /\ (n + 1) - 1 = n /\ (n + 2) - 1 = n + 1 /\ (n + 3) - 1 = n + 2 /\ (n + 2) + 1 = n + 3
       /\ n + 3 > 1
  BY <1>3
<1>20. Sits(f, N, V, M, Q, n + 1)
  <2>1. Stands(N, out, "close") /\ N[out].t = c.end
    BY <1>6, NodeJoins
  <2>2. Joined(N, Q[n + 1], out) /\ Joined(N, N[out].t, Q[(n + 1) - 1])
    BY <1>2, <1>12, <1>19, <2>1, Joining
  <2> QED BY <1>18, <2>1, <2>2, SitsIs
<1>21. Sits(f, N, V, M, Q, n + 2)
  <2>1. Joined(N, Q[n + 2], Q[(n + 2) - 1])
    BY <1>12, <1>19, Joining
  <2> QED BY <1>18, <2>1, SitsIs
<1>22. Sits(f, N, V, M, Q, n + 3)
  <2>1. Joined(N, Q[n + 3], r[2]) /\ Joined(N, out, Q[(n + 3) - 1])
    BY <1>12, <1>19, Joining
  <2>2. ASSUME "continue" \in Within(f, s) PROVE Continues(N, M, Q, n + 3, c.continue)
    <3>1. Continues(N, Heights(k), P, n + 1, c.continue)
      BY <1>2, <1>4, <2>2 DEF Jumps
    <3>2. \A h \in n + 1 .. n + 2 : M[h].at \notin {"iter", "test"}
      <4>1. \A h \in n + 1 .. n + 2 : h = n + 1 \/ h = n + 2
        BY <1>3
      <4> QED BY <1>18, <4>1
    <3>3. PICK l : l = n + 2
      OBVIOUS
    <3>4. n <= l /\ l \in Nat /\ l + 1 = n + 3
      BY <1>3, <3>3
    <3>5. \A h \in n + 1 .. l : M[h].at \notin {"iter", "test"}
      BY <3>2, <3>3
    <3>6. Continues(N, M, Q, l + 1, c.continue)
      BY <1>3, <1>16, <3>1, <3>4, <3>5, ContinuesKept
    <3> QED BY <3>4, <3>6
  <2>3. Picks(f, N, V, M, Q, n + 3, s, M[n + 3].i, c, a, r, out)
    BY <1>2, <1>5, <1>18, <2>1, <2>2 DEF Picks
  <2>4. M[n + 3].i \in 2 .. Len(Parts(f, s)) + 1
    <3>1. Len(Parts(f, s)) \in Nat /\ Len(Parts(f, s)) > 0
      BY <1>3, <1>4, PartsOk
    <3> QED BY <1>18, <3>1
  <2>5. M[(n + 3) - 1].at = "exit"
    BY <1>18, <1>19
  <2> QED BY <1>4, <1>18, <1>19, <2>3, <2>4, <2>5, SitsIs
<1>23. AllSit(f, N, V, w, Q, u, n)
  BY <1>10, <1>15, <1>20, <1>21, <1>22 DEF AllSit
<1>24. u = Silently(f, k)
  <2>1. Entered(f, s) = w
    BY <1>4, <1>7, <1>9 DEF Entered
  <2> QED BY <1>1, <1>4, <1>13, <2>1 DEF Silently
<1>25. Flows(N, P[n + 1], Q[n + Len(w)], RiseOf(f, k))
  <2>1. RiseOf(f, k) = 1
    BY <1>1, <1>4 DEF RiseOf
  <2>2. Joined(N, P[n + 1], x) /\ Stands(N, x, "open") /\ N[x].t = r[2]
    BY <1>2, <1>5, NodeJoins
  <2>3. Joined(N, N[x].t, r[2])
    BY <2>2, Joining
  <2> QED BY <1>10, <1>12, <2>1, <2>2, <2>3 DEF Flows
<1> QED BY <1>14, <1>23, <1>24, <1>25, SettleOn, Zenon

(* A step that shows nothing leads to the next place. *)
LEMMA SettleOk ==
  ASSUME NEW f, NEW N, NEW V, Finished(f, N, V), NEW k, k # <<>>, NEW P, Placed(f, N, V, k, P),
         IsSilent(f, k)
  PROVE  Settles(f, N, V, k, P)
<1>1. Head(k) \in Frames(f)
  BY TopFrame
<1>2. PICK s : s = Head(k).stm
  OBVIOUS
<1>3. Head(k).at \in {"run", "test", "iter", "pick", "exit", "close"} /\ s \in {0} \cup DOMAIN f.ast
  BY <1>1, <1>2 DEF Frames
<1>4. CASE Head(k).at \in {"exit", "close", "iter"}
  BY <1>4, SettleEnd
<1>5. CASE Head(k).at = "test"
  BY <1>5, SettleTest
<1>6. CASE Head(k).at = "pick"
  BY <1>6, SettlePick
<1>7. CASE Head(k).at = "run"
  <2>1. Kind(f, s) \notin Events
    BY <1>2, <1>7 DEF IsSilent
  <2>2. Kind(f, s) \in Plainly
    <3>1. f \in Functions /\ Regular(f)
      BY DEF Finished
    <3>2. CASE Kind(f, s) = "null"
      BY <3>2 DEF Plainly
    <3>3. CASE Kind(f, s) # "null"
      <4>1. s \in DOMAIN f.ast
        BY <1>3, <3>3 DEF Kind
      <4> QED BY <3>1, <4>1, StmOk
    <3> QED BY <3>2, <3>3
  <2>3. Kind(f, s) \in {"null", "block", "for", "while", "do", "switch"} \cup Labels
    BY <2>1, <2>2 DEF Plainly, Events, Labels
  <2>4. CASE Kind(f, s) \in {"null"} \cup Labels
    BY <1>2, <1>7, <2>4, SettleNothing
  <2>5. CASE Kind(f, s) = "block" /\ Parts(f, s) = <<>>
    BY <1>2, <1>7, <2>5, SettleNothing
  <2>6. CASE Kind(f, s) = "block" /\ Parts(f, s) # <<>>
    BY <1>2, <1>7, <2>6, SettleBlock
  <2>7. CASE Kind(f, s) = "for"
    BY <1>2, <1>7, <2>7, SettleFor
  <2>8. CASE Kind(f, s) = "while"
    BY <1>2, <1>7, <2>8, SettleWhile
  <2>9. CASE Kind(f, s) = "do"
    BY <1>2, <1>7, <2>9, SettleDo
  <2>10. CASE Kind(f, s) = "switch"
    BY <1>2, <1>7, <2>10, SettleSwitch
  <2> QED BY <2>3, <2>4, <2>5, <2>6, <2>7, <2>8, <2>9, <2>10
<1> QED BY <1>3, <1>4, <1>5, <1>6, <1>7

(* The place y leads to that of the frames k. *)
Leads(f, N, V, k, y) == \E Q : Placed(f, N, V, k, Q) /\ Joined(N, y, Q[Len(k)])

(* Node E at place x shows what the top frame does; where it leads the     *)
(* execution goes on.                                                      *)
Shows(f, N, V, k, x, E) ==
  /\ E \in DOMAIN N /\ Joined(N, x, E)
  /\ N[E].kind = EventOf(f, k).kind /\ N[E].stm = EventOf(f, k).stm
  /\ N[E].kind \in {"stm", "cond", "end", "return", "throw", "break", "continue"}
  /\ N[E].kind \notin {"cond", "end"} => Leads(f, N, V, Executed(f, k), N[E].t)
  /\ N[E].kind = "cond" => /\ Leads(f, N, V, Decided(f, k, TRUE), N[E].t)
                           /\ Leads(f, N, V, Decided(f, k, FALSE), N[E].f)

(* A place leads to frames when it is joined to theirs.                    *)
LEMMA LeadsIs ==
  ASSUME NEW f, NEW N, NEW V, NEW k
  PROVE  /\ \A P, y : Placed(f, N, V, k, P) /\ Joined(N, y, P[Len(k)]) => Leads(f, N, V, k, y)
         /\ \A y : At(f, N, V, k, y) => Leads(f, N, V, k, y)
BY Joining DEF Leads, At

(* The end of the top frame leads to the frames below.                     *)
LEMMA LeadsPop ==
  ASSUME NEW f, NEW N, NEW V, NEW k, k # <<>>, NEW P, Placed(f, N, V, k, P),
         NEW y, Joined(N, y, P[Len(k) - 1])
  PROVE  Leads(f, N, V, Tail(k), y)
<1>1. Placed(f, N, V, Tail(k), P) /\ Len(Tail(k)) = Len(k) - 1
  BY Popped
<1> QED BY <1>1 DEF Leads

(* What it takes for a node to show the event of the top frame.            *)
LEMMA ShowsIs ==
  ASSUME NEW f, NEW N, NEW V, NEW k, NEW x, NEW E \in DOMAIN N, Joined(N, x, E),
         NEW kind, NEW s, EventOf(f, k) = [kind |-> kind, stm |-> s],
         N[E].kind = kind, N[E].stm = s, NEW t, N[E].t = t
  PROVE  /\ /\ kind \in {"stm", "return", "throw", "break", "continue"}
            /\ Leads(f, N, V, Executed(f, k), t)
            => Shows(f, N, V, k, x, E)
         /\ \A e : /\ kind = "cond" /\ N[E].f = e
                   /\ Leads(f, N, V, Decided(f, k, TRUE), t) /\ Leads(f, N, V, Decided(f, k, FALSE), e)
                   => Shows(f, N, V, k, x, E)
<1>1. EventOf(f, k).kind = kind /\ EventOf(f, k).stm = s
  OBVIOUS
<1> QED BY <1>1 DEF Shows

(* The iteration of a for is shown by a node.                              *)
LEMMA ShowsIter ==
  ASSUME NEW f, NEW N, NEW V, Finished(f, N, V), NEW k, k # <<>>, NEW P, Placed(f, N, V, k, P),
         Head(k).at = "iter", ~IsSilent(f, k)
  PROVE  \E E : Shows(f, N, V, k, P[Len(k)], E)
<1>1. PICK s : s = Head(k).stm
  OBVIOUS
<1>2. Sits(f, N, V, Heights(k), P, Len(k)) /\ Heights(k)[Len(k)] = Head(k)
  BY TopFrame
<1>3. Kind(f, s) = "for" /\ Kind(f, Parts(f, s)[3]) # "null"
  BY <1>1, <1>2 DEF Sits, IsSilent
<1>4. PICK c : Made(N, V, "iterate", Parts(f, s)[3], P[Len(k)], P[Len(k) - 1], c)
  BY <1>1, <1>2 DEF Sits
<1>5. /\ c \in V /\ c.do = "iterate" /\ c.stm = Parts(f, s)[3]
      /\ Joined(N, P[Len(k)], N[c.begin].t) /\ Joined(N, c.end, P[Len(k) - 1])
  BY <1>4 DEF Made
<1>6. LaidIterate(f, N, c)
  BY <1>5, CallIs DEF Laid
<1>7. PICK x : Goes(N, c.begin, x) /\ Is(N, x, "stm", c.stm, c.end, c.end)
  BY <1>3, <1>5, <1>6 DEF LaidIterate
<1>8. N[c.begin].t = x /\ x \in DOMAIN N /\ N[x].kind = "stm" /\ N[x].stm = c.stm /\ N[x].t = c.end
  BY <1>7, NodeJoins
<1>9. Leads(f, N, V, Tail(k), c.end)
  BY <1>5, LeadsPop
<1>10. Executed(f, k) = Tail(k) /\ EventOf(f, k) = [kind |-> "stm", stm |-> Parts(f, s)[3]]
  BY <1>1, <1>3 DEF Executed, EventOf
<1>11. Joined(N, P[Len(k)], x)
  BY <1>5, <1>8
<1> QED BY <1>5, <1>8, <1>9, <1>10, <1>11, ShowsIs

(* The condition of a loop is shown by a node.                             *)
LEMMA ShowsTest ==
  ASSUME NEW f, NEW N, NEW V, Finished(f, N, V), NEW k, k # <<>>, NEW P, Placed(f, N, V, k, P),
         Head(k).at = "test", ~IsSilent(f, k)
  PROVE  \E E : Shows(f, N, V, k, P[Len(k)], E)
<1>1. PICK s : s = Head(k).stm
  OBVIOUS
<1>2. Sits(f, N, V, Heights(k), P, Len(k)) /\ Heights(k)[Len(k)] = Head(k)
  BY TopFrame
<1>3. Kind(f, s) \in {"for", "while", "do"} /\ Kind(f, LoopCondition(f, s)) # "null"
  BY <1>1, <1>2 DEF Sits, IsSilent
<1>4. PICK q, b, m, e : Tries(f, N, V, s, P[Len(k)], P[Len(k) - 1], q, b, m, e)
  BY <1>1, <1>2 DEF Sits
<1>5. Joined(N, P[Len(k)], q) /\ Joined(N, e, P[Len(k) - 1]) /\ Is(N, q, "cond", LoopCondition(f, s), b, e)
  BY <1>3, <1>4 DEF Tries
<1>6. q \in DOMAIN N /\ N[q].kind = "cond" /\ N[q].stm = LoopCondition(f, s) /\ N[q].t = b /\ N[q].f = e
  BY <1>5, NodeJoins
<1>7. Leads(f, N, V, LoopBody(f, s) \o k, b)
  <2>1. At(f, N, V, LoopBody(f, s) \o k, b)
    BY <1>1, <1>4, EnterBody, Zenon
  <2> QED BY <2>1, LeadsIs
<1>8. Leads(f, N, V, Tail(k), e)
  BY <1>5, LeadsPop
<1>9. Decided(f, k, TRUE) = LoopBody(f, s) \o k /\ Decided(f, k, FALSE) = Tail(k)
  BY <1>1 DEF Decided
<1>10. EventOf(f, k) = [kind |-> "cond", stm |-> LoopCondition(f, s)]
  BY <1>1, <1>3 DEF EventOf
<1> QED BY <1>5, <1>6, <1>7, <1>8, <1>9, <1>10, ShowsIs

(* A jump leads to the frame that binds it. *)
LEMMA FirstIs ==
  ASSUME NEW S, NEW k \in Seq(S), NEW m \in 1 .. Len(k), NEW A, Heights(k)[m].at \in A,
         \A g \in m + 1 .. Len(k) : Heights(k)[g].at \notin A
  PROVE  First(k, A) = Len(k) + 1 - m
<1>1. Len(k) \in Nat /\ DOMAIN k = 1 .. Len(k) /\ \A h \in 1 .. Len(k) : Heights(k)[h] = k[Len(k) + 1 - h]
  BY LenProperties DEF Heights
<1>2. PICK i : i = Len(k) + 1 - m
  OBVIOUS
<1>3. i \in DOMAIN k /\ k[i].at \in A
  BY <1>1, <1>2
<1>4. \A j \in 1 .. i - 1 : k[j].at \notin A
  <2> TAKE j \in 1 .. i - 1
  <2>1. Len(k) + 1 - j \in m + 1 .. Len(k) /\ Len(k) + 1 - j \in 1 .. Len(k) /\ Len(k) + 1 - (Len(k) + 1 - j) = j
    BY <1>1, <1>2
  <2>2. Heights(k)[Len(k) + 1 - j] = k[Len(k) + 1 - (Len(k) + 1 - j)]
    BY <1>1, <2>1
  <2> QED BY <2>1, <2>2
<1>5. ASSUME NEW l \in DOMAIN k, k[l].at \in A, \A j \in 1 .. l - 1 : k[j].at \notin A PROVE l = i
  <2>1. ~(l \in 1 .. i - 1) /\ ~(i \in 1 .. l - 1)
    BY <1>3, <1>4, <1>5
  <2> QED BY <1>1, <1>2, <1>3, <2>1
<1>6. First(k, A) = i
  BY <1>3, <1>4, <1>5 DEF First
<1> QED BY <1>2, <1>6

(* A statement without branches *)
LEMMA ShowsSimple ==
  ASSUME NEW f, NEW N, NEW V, Finished(f, N, V), NEW k, k # <<>>, NEW P, Placed(f, N, V, k, P),
         Head(k).at = "run", NEW s, s = Head(k).stm,
         Kind(f, s) \in {"expr", "decl", "return", "throw", "exit", "break", "continue"}
  PROVE  \E E : Shows(f, N, V, k, P[Len(k)], E)
<1>1. PICK n : n = Len(k) - 1
  OBVIOUS
<1>2. PICK c : /\ c.stm = s /\ Joined(N, P[n + 1], N[c.begin].t) /\ Joined(N, c.end, P[n])
               /\ Jumps(f, N, Heights(k), P, n + 1, s, c.break, c.continue)
               /\ LaidVisit(f, N, V, c)
  BY <1>1, RunTop
<1>3. s \in DOMAIN f.ast /\ n \in Nat /\ Len(k) = n + 1 /\ f \in Functions /\ Regular(f) /\ Kind(f, s) = f.ast[s].kind
  BY <1>1, RunTop
<1>4. k \in Seq(Frames(f)) /\ Heights(k)[Len(k)] = Head(k)
  BY TopFrame
<1> DEFINE kind == IF Kind(f, s) \in {"expr", "decl", "exit"} THEN "stm" ELSE Kind(f, s)
           next == CASE Kind(f, s) \in {"expr", "decl"} -> c.end
                     [] Kind(f, s) = "break" -> c.break
                     [] Kind(f, s) = "continue" -> c.continue
                     [] Kind(f, s) \in {"return", "throw", "exit"} -> END
<1>5. LaidOne(N, c, kind, next)
  BY <1>2 DEF LaidVisit
<1>6. Leads(f, N, V, Executed(f, k), next)
  <2>1. CASE Kind(f, s) \in {"expr", "decl"}
    <3>1. Executed(f, k) = Tail(k) /\ next = c.end
      BY <2>1 DEF Executed
    <3> HIDE DEF next
    <3> QED BY <1>1, <1>2, <3>1, LeadsPop
  <2>2. CASE Kind(f, s) \in {"return", "throw", "exit"}
    <3>1. Executed(f, k) = <<>> /\ next = END
      BY <2>2 DEF Executed
    <3>2. Placed(f, N, V, <<>>, P) /\ P[0] = END
      BY DEF Placed
    <3>3. Joined(N, END, P[Len(<<>>)])
      BY <3>2, Joining
    <3> HIDE DEF next
    <3> QED BY <3>1, <3>2, <3>3, LeadsIs
  <2>3. CASE Kind(f, s) = "break"
    <3>1. Executed(f, k) = SubSeq(k, First(k, {"exit"}) + 1, Len(k)) /\ next = c.break
      BY <2>3 DEF Executed
    <3>2. Breaks(N, Heights(k), P, n + 1, c.break)
      <4>1. "break" \in Within(f, s)
        BY <1>3, <2>3, StmOk DEF Within
      <4> QED BY <1>2, <2>3, <4>1 DEF Jumps
    <3>3. PICK m \in 1 .. n : /\ Heights(k)[m].at = "exit" /\ \A g \in m + 1 .. n : Heights(k)[g].at # "exit"
                              /\ Joined(N, c.break, P[m - 1])
      <4>1. (n + 1) - 1 = n
        BY <1>3
      <4> QED BY <3>2, <4>1 DEF Breaks
    <3>4. \A g \in m + 1 .. Len(k) : Heights(k)[g].at \notin {"exit"}
      <4>1. \A g \in m + 1 .. Len(k) : g \in m + 1 .. n \/ g = Len(k)
        BY <1>3
      <4> QED BY <1>4, <3>3, <4>1
    <3>5. m \in 1 .. Len(k) /\ m - 1 \in 0 .. Len(k) /\ Heights(k)[m].at \in {"exit"}
      BY <1>3, <3>3
    <3>6. First(k, {"exit"}) = Len(k) + 1 - m
      BY <1>4, <3>4, <3>5, FirstIs
    <3>7. First(k, {"exit"}) + 1 = Len(k) - (m - 1) + 1
      BY <1>3, <3>3, <3>6
    <3>9. PICK h : h = m - 1
      OBVIOUS
    <3>10. h \in 0 .. Len(k) /\ Executed(f, k) = SubSeq(k, Len(k) - h + 1, Len(k))
      BY <3>1, <3>5, <3>7, <3>9
    <3>11. Placed(f, N, V, Executed(f, k), P) /\ Len(Executed(f, k)) = h
      BY <3>10, Dropped
    <3>8. Placed(f, N, V, Executed(f, k), P) /\ Len(Executed(f, k)) = m - 1
      BY <3>9, <3>11
    <3> HIDE DEF next
    <3> QED BY <3>1, <3>3, <3>8, LeadsIs
  <2>4. CASE Kind(f, s) = "continue"
    <3>1. Executed(f, k) = SubSeq(k, First(k, {"iter", "test"}), Len(k)) /\ next = c.continue
      BY <2>4 DEF Executed
    <3>2. Continues(N, Heights(k), P, n + 1, c.continue)
      <4>1. "continue" \in Within(f, s)
        BY <1>3, <2>4, StmOk DEF Within
      <4> QED BY <1>2, <2>4, <4>1 DEF Jumps
    <3>3. PICK m \in 1 .. n :
            /\ Heights(k)[m].at \in {"iter", "test"} /\ Joined(N, c.continue, P[m])
            /\ \A g \in m + 1 .. n : Heights(k)[g].at \notin {"iter", "test"}
      <4>1. (n + 1) - 1 = n
        BY <1>3
      <4> QED BY <3>2, <4>1 DEF Continues
    <3>4. \A g \in m + 1 .. Len(k) : Heights(k)[g].at \notin {"iter", "test"}
      <4>1. \A g \in m + 1 .. Len(k) : g \in m + 1 .. n \/ g = Len(k)
        BY <1>3
      <4> QED BY <1>4, <3>3, <4>1
    <3>5. m \in 1 .. Len(k) /\ m \in 0 .. Len(k)
      BY <1>3, <3>3
    <3>6. First(k, {"iter", "test"}) = Len(k) + 1 - m
      BY <1>4, <3>3, <3>4, <3>5, FirstIs
    <3>7. First(k, {"iter", "test"}) = Len(k) - m + 1
      BY <1>3, <3>3, <3>6
    <3>8. Placed(f, N, V, Executed(f, k), P) /\ Len(Executed(f, k)) = m
      BY <3>1, <3>5, <3>7, Dropped
    <3> HIDE DEF next
    <3> QED BY <3>1, <3>3, <3>8, LeadsIs
  <2> QED BY <2>1, <2>2, <2>3, <2>4
<1>7. EventOf(f, k) = [kind |-> kind, stm |-> s]
  BY DEF EventOf
<1>8. kind \in {"stm", "return", "throw", "break", "continue"}
  OBVIOUS
<1> HIDE DEF kind, next
<1>9. PICK x : Goes(N, c.begin, x) /\ Is(N, x, kind, s, next, next)
  BY <1>2, <1>5 DEF LaidOne
<1>10. N[c.begin].t = x /\ x \in DOMAIN N /\ N[x].kind = kind /\ N[x].stm = s /\ N[x].t = next
  BY <1>9, NodeJoins
<1>11. Joined(N, P[Len(k)], x)
  BY <1>2, <1>3, <1>10
<1> QED BY <1>6, <1>7, <1>8, <1>10, <1>11, ShowsIs

(* One frame takes the place of the top one. *)
LEMMA TopReplaced ==
  ASSUME NEW f, NEW N, NEW V, NEW k, k # <<>>, NEW P, Placed(f, N, V, k, P),
         NEW n, n = Len(k) - 1, NEW g \in Frames(f), NEW y,
         \A M, Q : /\ Agree(Heights(k), P, M, Q, n) /\ Q[n] = P[n]
                   /\ Q[n + 1] = y /\ M[n + 1] = g /\ n \in Nat
                   => Sits(f, N, V, M, Q, n + 1)
  PROVE  At(f, N, V, <<g>> \o Tail(k), y)
<1>1. Len(k) \in Nat \ {0}
  BY TopFrame, Zenon
<1>2. n \in Nat
  BY <1>1
<1>3. PICK w : w = <<g>>
  OBVIOUS
<1>4. w \in Seq(Frames(f)) /\ Len(w) = 1 /\ w[1] = g
  <2>1. \A S : \A h \in S : <<h>> \in Seq(S) /\ Len(<<h>>) = 1 /\ <<h>>[1] = h
    OBVIOUS
  <2> QED BY <1>3, <2>1, Zenon
<1>5. PICK Q : Above(P, n, Q, y, 0, 0, 0)
  BY <1>2, SomePlaces, Zenon
<1>6. (\A h \in 0 .. n : Q[h] = P[h]) /\ Q[n] = P[n] /\ Q[n + 1] = y
  BY <1>2, <1>5 DEF Above
<1>7. PICK u : u = w \o Tail(k)
  OBVIOUS
<1>8. Replaces(f, N, V, k, P, w, Q, u, n)
  BY <1>4, <1>6, <1>7 DEF Replaces
<1>9. PICK M : M = Heights(u)
  OBVIOUS
<1>10. Under(f, N, V, k, P, w, Q, u, n)
  BY <1>8, UnderIs, Zenon
<1>11. M[n + 1] = g /\ Agree(Heights(k), P, M, Q, n)
  <2>1. Agree(Heights(k), P, M, Q, n) /\ \A j \in 1 .. 1 : M[n + j] = w[1 + 1 - j]
    BY <1>4, <1>9, <1>10 DEF Under
  <2> QED BY <1>4, <2>1
<1>12. Sits(f, N, V, M, Q, n + 1)
  BY <1>2, <1>6, <1>11
<1>13. AllSit(f, N, V, w, Q, u, n)
  BY <1>4, <1>9, <1>12 DEF AllSit
<1>14. Placed(f, N, V, u, Q)
  BY <1>8, <1>13, SettleOn, Zenon
<1>15. Len(u) = n + 1
  <2>1. Puts(f, w, Tail(k), P, Q, u) /\ Len(Tail(k)) = n /\ Tail(k) \in Seq(Frames(f))
    BY <1>10 DEF Under, Placed
  <2>2. PutOn(f, w, Tail(k), P, Q, u)
    BY <2>1, PutsIs, Zenon
  <2>3. Len(u) = Len(w) + n
    BY <2>1, <2>2 DEF PutOn
  <2> QED BY <1>2, <1>4, <2>3
<1> QED BY <1>3, <1>6, <1>7, <1>14, <1>15 DEF At

(* A branch of if *)
LEMMA Branches ==
  ASSUME NEW f, NEW N, NEW V, Finished(f, N, V), NEW k, k # <<>>, NEW P, Placed(f, N, V, k, P),
         NEW n, n = Len(k) - 1, NEW s \in DOMAIN f.ast, Kind(f, s) = "if",
         NEW c, Joined(N, c.end, P[n]), Jumps(f, N, Heights(k), P, n + 1, s, c.break, c.continue),
         NEW i \in {2, 3}, NEW t, Stands(N, t, "forward"), Like(c, Parts(f, s)[i], t, c.end) \in V
  PROVE  At(f, N, V, <<Frame("run", Parts(f, s)[i])>> \o Tail(k), t)
<1>1. PICK p, g, d : p = Parts(f, s)[i] /\ g = Frame("run", p) /\ d = Like(c, p, t, c.end)
  OBVIOUS
<1>2. f \in Functions /\ Regular(f)
  BY DEF Finished
<1>3. p \in {0} \cup DOMAIN f.ast /\ Within(f, p) \subseteq Within(f, s)
  <2>1. /\ \A j \in 1 .. Len(Parts(f, s)) : Parts(f, s)[j] \in {0} \cup DOMAIN f.ast
        /\ Len(Parts(f, s)) = 3
    BY <1>2, PartsOk
  <2>2. /\ s # 0
        /\ \A j \in 1 .. Len(Parts(f, s)) : Parts(f, s)[j] # 0 =>
                f.ast[Parts(f, s)[j]].within \subseteq f.ast[s].within \cup Binds(Kind(f, s))
    BY <1>2, StmOk
  <2>3. Binds("if") = {}
    BY DEF Binds
  <2>4. i \in 1 .. Len(Parts(f, s))
    BY <2>1
  <2> QED BY <1>1, <2>1, <2>2, <2>3, <2>4 DEF Within
<1>4. g \in Frames(f) /\ g.at = "run" /\ g.stm = p
  BY <1>1, <1>3, FramesIs, FrameIs
<1>5. d \in V /\ d = Called("visit", p, t, c.end, c.break, c.continue) /\ d.break = c.break /\ d.continue = c.continue
  BY <1>1, CalledParts DEF Like
<1>6. Made(N, V, "visit", p, t, P[n], d)
  <2>1. Called("visit", p, t, c.end, c.break, c.continue) \in V /\ Joined(N, t, t)
    BY <1>5, Joining
  <2>2. Made(N, V, "visit", p, t, P[n], Called("visit", p, t, c.end, c.break, c.continue))
    BY <2>1, MadeIs, Zenon
  <2> QED BY <1>5, <2>2
<1>7. ASSUME NEW M, NEW Q, Agree(Heights(k), P, M, Q, n), Q[n] = P[n], Q[n + 1] = t, M[n + 1] = g, n \in Nat
      PROVE  Sits(f, N, V, M, Q, n + 1)
  <2>1. \A h \in n + 1 .. n : M[h].at \notin {"exit", "iter", "test"}
    BY <1>7
  <2>2. n <= n /\ (n + 1) - 1 = n
    BY <1>7
  <2>3. /\ \A b : Breaks(N, Heights(k), P, n + 1, b) => Breaks(N, M, Q, n + 1, b)
        /\ \A b : Continues(N, Heights(k), P, n + 1, b) => Continues(N, M, Q, n + 1, b)
    BY <1>7, <2>1, <2>2, JumpsKept
  <2>4. Jumps(f, N, M, Q, n + 1, p, d.break, d.continue)
    BY <1>3, <1>5, <2>3 DEF Jumps
  <2>5. Made(N, V, "visit", p, Q[n + 1], Q[(n + 1) - 1], d)
    BY <1>6, <1>7, <2>2
  <2> QED BY <1>4, <1>7, <2>4, <2>5, SitsIs
<1>8. At(f, N, V, <<g>> \o Tail(k), t)
  BY <1>4, <1>7, TopReplaced
<1> QED BY <1>1, <1>8

(* The condition of an if is shown by a node.                              *)
LEMMA ShowsIf ==
  ASSUME NEW f, NEW N, NEW V, Finished(f, N, V), NEW k, k # <<>>, NEW P, Placed(f, N, V, k, P),
         Head(k).at = "run", NEW s, s = Head(k).stm, Kind(f, s) = "if"
  PROVE  \E E : Shows(f, N, V, k, P[Len(k)], E)
<1>1. PICK n : n = Len(k) - 1
  OBVIOUS
<1>2. PICK c : /\ c.stm = s /\ Joined(N, P[n + 1], N[c.begin].t) /\ Joined(N, c.end, P[n])
               /\ Jumps(f, N, Heights(k), P, n + 1, s, c.break, c.continue)
               /\ LaidVisit(f, N, V, c)
  BY <1>1, RunTop
<1>3. s \in DOMAIN f.ast /\ n \in Nat /\ Len(k) = n + 1
  BY <1>1, RunTop
<1>4. LaidIf(f, N, V, c)
  BY <1>2 DEF LaidVisit
<1>5. PICK x, t, e :
    /\ Goes(N, c.begin, x) /\ Is(N, x, "cond", Parts(f, s)[1], t, e)
    /\ Stands(N, t, "forward") /\ Like(c, Parts(f, s)[2], t, c.end) \in V
    /\ Stands(N, e, "forward") /\ Like(c, Parts(f, s)[3], e, c.end) \in V
  BY <1>2, <1>4 DEF LaidIf
<1>6. /\ N[c.begin].t = x /\ x \in DOMAIN N /\ N[x].kind = "cond" /\ N[x].stm = Parts(f, s)[1]
      /\ N[x].t = t /\ N[x].f = e
  BY <1>5, NodeJoins
<1>7. Joined(N, P[Len(k)], x)
  BY <1>2, <1>3, <1>6
<1>8. Decided(f, k, TRUE) = <<Frame("run", Parts(f, s)[2])>> \o Tail(k)
  BY DEF Decided
<1>9. Decided(f, k, FALSE) = <<Frame("run", Parts(f, s)[3])>> \o Tail(k)
  BY DEF Decided
<1>10. At(f, N, V, <<Frame("run", Parts(f, s)[2])>> \o Tail(k), t)
  BY <1>1, <1>2, <1>3, <1>5, Branches
<1>11. At(f, N, V, <<Frame("run", Parts(f, s)[3])>> \o Tail(k), e)
  BY <1>1, <1>2, <1>3, <1>5, Branches
<1>12. Leads(f, N, V, Decided(f, k, TRUE), t) /\ Leads(f, N, V, Decided(f, k, FALSE), e)
  BY <1>8, <1>9, <1>10, <1>11, LeadsIs
<1>13. EventOf(f, k) = [kind |-> "cond", stm |-> Parts(f, s)[1]]
  BY DEF EventOf
<1> QED BY <1>6, <1>7, <1>12, <1>13, ShowsIs

(* The comparison with a label is shown by a node.                         *)
LEMMA ShowsPick ==
  ASSUME NEW f, NEW N, NEW V, Finished(f, N, V), NEW k, k # <<>>, NEW P, Placed(f, N, V, k, P),
         Head(k).at = "pick", ~IsSilent(f, k)
  PROVE  \E E : Shows(f, N, V, k, P[Len(k)], E)
<1>1. PICK s, m, i, n : s = Head(k).stm /\ m = Len(Parts(f, s)) /\ i = Head(k).i /\ n = Len(k) - 1
  OBVIOUS
<1>2. /\ Sits(f, N, V, Heights(k), P, Len(k)) /\ Heights(k)[Len(k)] = Head(k) /\ Head(k) \in Frames(f)
      /\ Len(k) \in Nat \ {0}
  BY TopFrame
<1>3. Kind(f, s) = "switch" /\ i \in 2 .. m + 1 /\ Len(k) > 1 /\ Heights(k)[Len(k) - 1].at = "exit"
  BY <1>1, <1>2 DEF Sits
<1>4. PICK d, a, r, out : Picks(f, N, V, Heights(k), P, Len(k), s, i, d, a, r, out)
  BY <1>1, <1>2 DEF Sits
<1>5. f \in Functions /\ Regular(f) /\ s \in {0} \cup DOMAIN f.ast
  BY <1>1, <1>2 DEF Finished, Frames
<1>6. m \in Nat /\ s \in DOMAIN f.ast
  BY <1>1, <1>3, <1>5, PartsOk
<1>7. /\ d.stm = s /\ Chain(f, N, V, d, a, r, out) /\ Joined(N, P[Len(k)], r[i])
      /\ Joined(N, out, P[Len(k) - 1])
      /\ "continue" \in Within(f, s) => Continues(N, Heights(k), P, Len(k), d.continue)
  BY <1>4 DEF Picks
<1>8. PICK j : j = NextRun(f, s, i)
  OBVIOUS
<1>9. j \in RunsLeft(f, s, i) /\ \A l \in RunsLeft(f, s, i) : j <= l
  <2>1. RunsLeft(f, s, i) # {}
    BY <1>1 DEF IsSilent
  <2>2. RunsLeft(f, s, i) \in SUBSET Nat
    BY DEF RunsLeft, RunStarts
  <2>3. \E o \in RunsLeft(f, s, i) : \A l \in RunsLeft(f, s, i) : o <= l
    BY <2>1, <2>2, Least
  <2> QED BY <1>8, <2>3 DEF NextRun
<1>10. Compared(f, s, j) /\ j \in 2 .. m /\ j \in i .. m /\ j \in i .. m + 1
  <2>1. Compared(f, s, j) /\ j >= i /\ j \in 2 .. m
    BY <1>1, <1>9, RunsLeftIs
  <2> QED BY <1>3, <1>6, <2>1
<1>11. Joined(N, P[Len(k)], r[j])
  <2>1. \A l \in i .. j - 1 : ~Compared(f, s, l)
    BY <1>3, <1>6, <1>9, <1>10, RunsLeftIs
  <2>2. Joined(N, r[i], r[j])
    BY <1>1, <1>3, <1>6, <1>7, <1>10, <2>1, ChainRuns
  <2> QED BY <1>7, <2>2, Joining
<1>12. Is(N, r[j], "cond", Parts(f, s)[j], a[j], r[j + 1])
  BY <1>1, <1>7, <1>10 DEF Chain
<1>13. /\ r[j] \in DOMAIN N /\ N[r[j]].kind = "cond" /\ N[r[j]].stm = Parts(f, s)[j]
       /\ N[r[j]].t = a[j] /\ N[r[j]].f = r[j + 1]
  BY <1>12, NodeJoins
<1>14. Leads(f, N, V, Decided(f, k, TRUE), a[j])
  <2>1. At(f, N, V, RunFrom(f, s, j) \o Tail(k), a[j])
    BY <1>1, <1>4, <1>10, PickRow
  <2>2. Decided(f, k, TRUE) = RunFrom(f, s, j) \o Tail(k)
    BY <1>1, <1>8 DEF Decided
  <2> QED BY <2>1, <2>2, LeadsIs
<1>15. PICK e : e = RunEnd(f, s, j)
  OBVIOUS
<1>16. /\ e \in j + 1 .. m + 1
       /\ \A l \in j .. e - 1 : Kind(f, Parts(f, s)[l]) \in Labels
  <2>1. Kind(f, Parts(f, s)[j]) \in Labels
    BY <1>10 DEF Compared, RunStarts
  <2>2. j \in 1 .. m
    BY <1>6, <1>10
  <2>3. /\ e \in j .. m + 1
        /\ \A l \in j .. e - 1 : Kind(f, Parts(f, s)[l]) \in Labels
        /\ e <= m => Kind(f, Parts(f, s)[e]) \notin Labels
    BY <1>1, <1>6, <1>15, <2>2, RunEndIs
  <2>4. e # j
    BY <1>6, <1>10, <2>1, <2>3
  <2> QED BY <1>6, <1>10, <2>3, <2>4
<1>17. Joined(N, r[j + 1], r[e])
  <2>1. ASSUME NEW l \in j + 1 .. e - 1 PROVE ~Compared(f, s, l)
    <3>1. l - 1 \in j .. e - 1 /\ l > 2
      BY <1>6, <1>10, <1>16
    <3> QED BY <1>16, <3>1 DEF Compared, RunStarts
  <2>2. j + 1 \in 2 .. m + 1
    BY <1>6, <1>10
  <2>3. PICK o : o = j + 1
    OBVIOUS
  <2>4. Joined(N, r[o], r[e])
    BY <1>1, <1>6, <1>7, <1>16, <2>1, <2>2, <2>3, ChainRuns
  <2> QED BY <2>3, <2>4
<1>18. PICK g : g = [Head(k) EXCEPT !.i = e]
  OBVIOUS
<1>19. g \in Frames(f) /\ g.at = "pick" /\ g.stm = s /\ g.i = e
  <2>1. e \in Nat
    BY <1>6, <1>10, <1>16
  <2> QED BY <1>1, <1>2, <1>18, <2>1 DEF Frames
<1>20. n \in Nat /\ Len(k) = n + 1 /\ (n + 1) - 1 = n /\ n + 1 > 1
  BY <1>1, <1>2, <1>3
<1>21. ASSUME NEW M, NEW Q, Agree(Heights(k), P, M, Q, n), Q[n] = P[n], Q[n + 1] = r[e], M[n + 1] = g, n \in Nat
       PROVE  Sits(f, N, V, M, Q, n + 1)
  <2>1. Joined(N, Q[n + 1], r[e]) /\ Joined(N, out, Q[(n + 1) - 1])
    BY <1>7, <1>20, <1>21, Joining
  <2>2. ASSUME "continue" \in Within(f, s) PROVE Continues(N, M, Q, n + 1, d.continue)
    <3>1. Continues(N, Heights(k), P, n + 1, d.continue)
      BY <1>7, <1>20, <2>2
    <3>2. n <= n /\ \A h \in n + 1 .. n : M[h].at \notin {"iter", "test"}
      BY <1>21
    <3> QED BY <1>21, <3>1, <3>2, ContinuesKept
  <2>3. Picks(f, N, V, M, Q, n + 1, s, M[n + 1].i, d, a, r, out)
    BY <1>7, <1>19, <1>21, <2>1, <2>2 DEF Picks
  <2>4. M[(n + 1) - 1].at = "exit" /\ n + 1 > 1
    <3>1. n \in 1 .. n
      BY <1>3, <1>20
    <3>2. Heights(k)[n].at = "exit"
      BY <1>3, <1>20
    <3> QED BY <1>20, <1>21, <3>1, <3>2 DEF Agree
  <2>5. M[n + 1].i \in 2 .. Len(Parts(f, s)) + 1
    BY <1>1, <1>6, <1>10, <1>16, <1>19, <1>21
  <2> QED BY <1>3, <1>19, <1>21, <2>3, <2>4, <2>5, SitsIs
<1>22. At(f, N, V, <<g>> \o Tail(k), r[e])
  BY <1>1, <1>19, <1>21, TopReplaced
<1>23. Leads(f, N, V, Decided(f, k, FALSE), r[j + 1])
  <2>1. Decided(f, k, FALSE) = <<g>> \o Tail(k)
    BY <1>1, <1>8, <1>15, <1>18 DEF Decided
  <2>2. PICK Q : Placed(f, N, V, Decided(f, k, FALSE), Q) /\ Q[Len(Decided(f, k, FALSE))] = r[e]
    BY <1>22, <2>1 DEF At
  <2> QED BY <1>17, <2>2, LeadsIs
<1>24. EventOf(f, k) = [kind |-> "cond", stm |-> Parts(f, s)[j]]
  BY <1>1, <1>3, <1>8 DEF EventOf
<1> QED BY <1>11, <1>13, <1>14, <1>23, <1>24, ShowsIs

(* At an event the place of the frames is joined to the node of the event. *)
LEMMA ShowsOk ==
  ASSUME NEW f, NEW N, NEW V, Finished(f, N, V), NEW k, NEW P, Placed(f, N, V, k, P),
         ~IsSilent(f, k)
  PROVE  \E E : Shows(f, N, V, k, P[Len(k)], E)
<1>1. CASE k = <<>>
  <2>1. P[Len(k)] = END
    BY <1>1 DEF Placed
  <2>2. END \in DOMAIN N /\ N[END] = Through("end", 0, 0)
    BY DEF Finished, Lays
  <2>3. N[END].kind = "end" /\ N[END].stm = 0
    BY <2>2, NodeParts DEF Through
  <2>4. EventOf(f, k).kind = "end" /\ EventOf(f, k).stm = 0
    BY <1>1 DEF EventOf
  <2>5. Joined(N, P[Len(k)], END)
    BY <2>1, Joining
  <2> QED BY <2>2, <2>3, <2>4, <2>5 DEF Shows
<1>2. CASE k # <<>>
  <2>1. Head(k) \in Frames(f)
    BY <1>2, TopFrame
  <2>2. PICK s : s = Head(k).stm
    OBVIOUS
  <2>3. Head(k).at \in {"run", "test", "iter", "pick", "exit", "close"}
    BY <2>1 DEF Frames
  <2>4. CASE Head(k).at \in {"exit", "close"}
    BY <1>2, <2>4 DEF IsSilent
  <2>5. CASE Head(k).at = "iter"
    BY <1>2, <2>5, ShowsIter
  <2>6. CASE Head(k).at = "test"
    BY <1>2, <2>6, ShowsTest
  <2>7. CASE Head(k).at = "pick"
    BY <1>2, <2>7, ShowsPick
  <2>8. CASE Head(k).at = "run"
    <3>1. Kind(f, s) \in Events
      BY <1>2, <2>2, <2>8 DEF IsSilent
    <3>2. CASE Kind(f, s) = "if"
      BY <1>2, <2>2, <2>8, <3>2, ShowsIf
    <3>3. CASE Kind(f, s) # "if"
      <4>1. Kind(f, s) \in {"expr", "decl", "return", "throw", "exit", "break", "continue"}
        BY <3>1, <3>3 DEF Events
      <4> QED BY <1>2, <2>2, <2>8, <4>1, ShowsSimple
    <3> QED BY <3>2, <3>3
  <2> QED BY <2>3, <2>4, <2>5, <2>6, <2>7, <2>8
<1> QED BY <1>1, <1>2

(* The elements of s at the places in I, each once *)
Picked(s, I, u) ==
  /\ \A n \in 1 .. Len(u) : \E i \in I : u[n] = s[i]
  /\ \A i \in I : \E n \in 1 .. Len(u) : u[n] = s[i]
  /\ \A m, n \in 1 .. Len(u) : m # n => \E i, j \in I : i # j /\ u[m] = s[i] /\ u[n] = s[j]

(* The items of a sequence at some of its places.                          *)
LEMMA OnlyIs ==
  ASSUME NEW S, NEW s \in Seq(S), NEW I \in SUBSET (1 .. Len(s))
  PROVE  Only(s, I) \in Seq(S) /\ Picked(s, I, Only(s, I))
<1> DEFINE C == Cardinality(I)
           Upto(i) == {j \in I : j <= i}
           R == [i \in I |-> Cardinality(Upto(i))]
           Place(n) == CHOOSE i \in I : Cardinality(Upto(i)) = n
<1>1. Len(s) \in Nat /\ \A i \in I : i \in Nat /\ s[i] \in S
  OBVIOUS
<1>2. IsFiniteSet(1 .. Len(s))
  BY <1>1, FS_Interval
<1>3. IsFiniteSet(I) /\ C \in Nat
  BY <1>2, FS_Subset, FS_CardinalityType
<1>4. \A i \in I : Upto(i) \in SUBSET I /\ i \in Upto(i)
  BY <1>1
<1>5. \A i \in I : IsFiniteSet(Upto(i)) /\ Cardinality(Upto(i)) \in Nat /\ Cardinality(Upto(i)) <= C
  <2> HIDE DEF Upto
  <2> QED BY <1>3, <1>4, FS_Subset, FS_CardinalityType
<1>6. \A i \in I : Cardinality(Upto(i)) \in 1 .. C
  <2> SUFFICES ASSUME NEW i \in I PROVE Cardinality(Upto(i)) \in 1 .. C
    OBVIOUS
  <2>1. Upto(i) # {}
    BY <1>4
  <2> HIDE DEF Upto
  <2>2. Cardinality(Upto(i)) # 0
    BY <1>5, <2>1, FS_EmptySet
  <2> QED BY <1>3, <1>5, <2>2
<1>7. \A i, j \in I : i < j => Cardinality(Upto(i)) # Cardinality(Upto(j))
  <2> SUFFICES ASSUME NEW i \in I, NEW j \in I, i < j PROVE Cardinality(Upto(i)) # Cardinality(Upto(j))
    OBVIOUS
  <2>1. Upto(i) \in SUBSET Upto(j)
    <3>1. \A l \in I : l <= i => l <= j
      BY <1>1
    <3> QED BY <3>1
  <2>2. j \in Upto(j) /\ j \notin Upto(i)
    BY <1>1
  <2> HIDE DEF Upto
  <2> QED BY <1>5, <2>1, <2>2, FS_Subset
<1>8. R \in Injection(I, 1 .. C)
  <2>1. R \in [I -> 1 .. C]
    BY <1>6
  <2>2. \A i, j \in I : R[i] = R[j] => i = j
    BY <1>1, <1>7
  <2> HIDE DEF R
  <2> QED BY <2>1, <2>2 DEF Injection, IsInjective
<1>9. IsFiniteSet(1 .. C) /\ Cardinality(1 .. C) = C
  BY <1>3, FS_Interval
<1>10. R \in Surjection(I, 1 .. C)
  <2> HIDE DEF R
  <2> QED BY <1>8, <1>9, FS_Injection
<1>11. \A n \in 1 .. C : \E i \in I : Cardinality(Upto(i)) = n
  BY <1>10 DEF Surjection
<1>12. \A n \in 1 .. C : Place(n) \in I /\ Cardinality(Upto(Place(n))) = n
  <2> HIDE DEF Upto
  <2> QED BY <1>11
<1>13. \A i \in I : Place(Cardinality(Upto(i))) = i
  <2> HIDE DEF Upto
  <2> SUFFICES ASSUME NEW i \in I PROVE Place(Cardinality(Upto(i))) = i
    OBVIOUS
  <2> DEFINE p == Place(Cardinality(Upto(i)))
  <2>1. p \in I /\ Cardinality(Upto(p)) = Cardinality(Upto(i))
    BY <1>6, <1>12
  <2> HIDE DEF p
  <2> QED BY <2>1, <1>1, <1>7
<1> DEFINE u == [n \in 1 .. C |-> s[Place(n)]]
<1>14. Only(s, I) = u
  BY DEF Only
<1>15. u \in Seq(S) /\ Len(u) = C
  <2>1. \A n \in 1 .. C : s[Place(n)] \in S
    <3> HIDE DEF Place
    <3> QED BY <1>1, <1>12
  <2> HIDE DEF Place
  <2> QED BY <1>3, <2>1
<1>16. \A n \in 1 .. Len(u) : \E i \in I : u[n] = s[i]
  <2> HIDE DEF Place
  <2> QED BY <1>12, <1>15
<1>17. \A i \in I : \E n \in 1 .. Len(u) : u[n] = s[i]
  <2> SUFFICES ASSUME NEW i \in I PROVE \E n \in 1 .. Len(u) : u[n] = s[i]
    OBVIOUS
  <2> DEFINE n == Cardinality(Upto(i))
  <2>1. n \in 1 .. C /\ Place(n) = i
    BY <1>6, <1>13
  <2> HIDE DEF Place, n
  <2> QED BY <2>1, <1>15
<1>18. \A m, n \in 1 .. Len(u) : m # n => \E i, j \in I : i # j /\ u[m] = s[i] /\ u[n] = s[j]
  <2> SUFFICES ASSUME NEW m \in 1 .. C, NEW n \in 1 .. C, m # n
               PROVE  \E i, j \in I : i # j /\ u[m] = s[i] /\ u[n] = s[j]
    <3> HIDE DEF u
    <3> QED BY <1>15
  <2>1. Place(m) \in I /\ Place(n) \in I /\ Place(m) # Place(n)
    <3> HIDE DEF Place, Upto
    <3> QED BY <1>12
  <2>2. u[m] = s[Place(m)] /\ u[n] = s[Place(n)]
    OBVIOUS
  <2> HIDE DEF Place, u
  <2> QED BY <2>1, <2>2
<1> HIDE DEF u
<1> QED BY <1>14, <1>15, <1>16, <1>17, <1>18 DEF Picked

-----------------------------------------------------------------------------
(* How many scopes the frames close *)
Closes(k) == {i \in 1 .. Len(k) : k[i].at = "close"}

(* The depth is the number of scopes the frames close.                     *)
LEMMA DepthIs ==
  ASSUME NEW S, NEW k \in Seq(S)
  PROVE  /\ Depth(k) = Cardinality(Closes(k)) /\ Depth(k) \in Nat
         /\ IsFiniteSet(Closes(k)) /\ Len(k) \in Nat
         /\ Closes(k) = {} => Depth(k) = 0
         /\ \A j : Closes(k) = {j} => Depth(k) = 1
<1>1. DOMAIN k = 1 .. Len(k) /\ Len(k) \in Nat
  OBVIOUS
<1>2. Depth(k) = Cardinality(Closes(k))
  BY <1>1 DEF Depth, Closes
<1>3. IsFiniteSet(1 .. Len(k)) /\ Closes(k) \in SUBSET (1 .. Len(k))
  BY <1>1, FS_Interval DEF Closes
<1>4. IsFiniteSet(Closes(k)) /\ Cardinality(Closes(k)) \in Nat
  BY <1>3, FS_Subset, FS_CardinalityType
<1> QED BY <1>1, <1>2, <1>4, FS_EmptySet, FS_Singleton

(* The depth of two lists of frames, one after the other, is the sum.      *)
LEMMA DepthConcat ==
  ASSUME NEW S, NEW w \in Seq(S), NEW u \in Seq(S), NEW v \in Seq(S), Strings(w, u, v)
  PROVE  Depth(v) = Depth(w) + Depth(u)
<1> DEFINE n == Len(w)
           U == {n + i : i \in Closes(u)}
           F == [i \in Closes(u) |-> n + i]
<1>1. n \in Nat /\ Len(u) \in Nat
  BY DEF Strings
<1>2. Closes(u) \subseteq Nat /\ Closes(w) \subseteq 1 .. n
  BY <1>1 DEF Closes
<1>3. F \in Bijection(Closes(u), U)
  <2>1. F \in [Closes(u) -> U]
    OBVIOUS
  <2>2. \A i, j \in Closes(u) : F[i] = F[j] => i = j
    BY <1>1, <1>2
  <2>3. \A y \in U : \E i \in Closes(u) : F[i] = y
    OBVIOUS
  <2> HIDE DEF F, U
  <2> QED BY <2>1, <2>2, <2>3 DEF Bijection, Injection, Surjection, IsInjective
<1>4. IsFiniteSet(U) /\ Cardinality(U) = Depth(u) /\ Depth(u) \in Nat
  <2>1. ExistsBijection(Closes(u), U)
    BY <1>3 DEF ExistsBijection
  <2> HIDE DEF U
  <2> QED BY <2>1, DepthIs, FS_Bijection
<1>5. Closes(v) = Closes(w) \cup U
  <2>1. \A i \in Closes(v) : i \in Closes(w) \cup U
    <3> SUFFICES ASSUME NEW i \in Closes(v), i \notin Closes(w) PROVE i \in U
      OBVIOUS
    <3>1. i \in 1 .. n + Len(u) /\ v[i].at = "close"
      BY DEF Closes, Strings
    <3>2. i \notin 1 .. n
      <4> SUFFICES ASSUME i \in 1 .. n PROVE FALSE
        OBVIOUS
      <4>1. v[i] = w[i]
        BY DEF Strings
      <4> QED BY <3>1, <4>1 DEF Closes
    <3>3. i - n \in 1 .. Len(u) /\ v[i] = u[i - n]
      BY <3>1, <3>2 DEF Strings
    <3>4. i - n \in Closes(u) /\ i = n + (i - n)
      BY <1>1, <3>1, <3>3 DEF Closes
    <3> QED BY <3>4
  <2>2. \A i \in Closes(w) : i \in Closes(v)
    BY <1>1 DEF Closes, Strings
  <2>3. \A i \in Closes(u) : n + i \in Closes(v)
    BY <1>1 DEF Closes, Strings
  <2> QED BY <2>1, <2>2, <2>3
<1>6. Closes(w) \cap U = {}
  BY <1>1, <1>2 DEF Closes
<1>7. Cardinality(Closes(w) \cap U) = 0
  BY <1>6, FS_EmptySet
<1>8. IsFiniteSet(Closes(w)) /\ Depth(w) = Cardinality(Closes(w)) /\ Depth(w) \in Nat
  BY DepthIs
<1>9. Depth(v) = Cardinality(Closes(v))
  BY DepthIs
<1>10. Cardinality(Closes(w) \cup U) = Cardinality(Closes(w)) + Cardinality(U) - Cardinality(Closes(w) \cap U)
  <2> HIDE DEF U
  <2> QED BY <1>4, <1>8, FS_Union
<1> HIDE DEF U
<1> QED BY <1>4, <1>5, <1>7, <1>8, <1>9, <1>10

(* The depth below the top frame.                                          *)
LEMMA DepthPop ==
  ASSUME NEW S, NEW k \in Seq(S), k # <<>>
  PROVE  /\ Depth(k) = Depth(Tail(k)) + (IF Head(k).at = "close" THEN 1 ELSE 0)
         /\ Depth(Tail(k)) \in Nat /\ Depth(k) \in Nat /\ Tail(k) \in Seq(S)
<1> DEFINE w == <<Head(k)>>
<1>1. Tail(k) \in Seq(S) /\ Head(k) \in S /\ Len(k) \in Nat \ {0} /\ Len(Tail(k)) = Len(k) - 1
  OBVIOUS
<1>2. w \in Seq(S) /\ Len(w) = 1 /\ w[1] = Head(k)
  BY <1>1
<1>3. Strings(w, Tail(k), k)
  <2>1. DOMAIN k = 1 .. Len(k) /\ DOMAIN w = 1 .. 1 /\ DOMAIN Tail(k) = 1 .. Len(k) - 1
    BY <1>1, <1>2
  <2>2. k[1] = Head(k) /\ \A j \in 1 .. Len(k) - 1 : k[1 + j] = Tail(k)[j]
    BY <1>1
  <2>3. \A i \in 1 .. Len(k) : i = 1 \/ (i - 1 \in 1 .. Len(k) - 1 /\ k[i] = Tail(k)[i - 1])
    BY <1>1, <2>2
  <2> HIDE DEF w
  <2> QED BY <1>1, <1>2, <2>1, <2>2, <2>3 DEF Strings
<1>4. Depth(w) = IF Head(k).at = "close" THEN 1 ELSE 0
  <2>1. Closes(w) = IF Head(k).at = "close" THEN {1} ELSE {}
    BY <1>2 DEF Closes
  <2> HIDE DEF w
  <2> QED BY <1>2, <2>1, DepthIs
<1>5. Depth(Tail(k)) \in Nat /\ Depth(k) \in Nat
  BY <1>1, DepthIs
<1> HIDE DEF w
<1>6. Depth(k) = Depth(w) + Depth(Tail(k))
  BY <1>1, <1>2, <1>3, DepthConcat, Zenon
<1> QED BY <1>1, <1>4, <1>5, <1>6

(* Dropping frames does not deepen.                                        *)
LEMMA DepthDrop ==
  ASSUME NEW S, NEW k \in Seq(S), NEW n \in 1 .. Len(k) + 1
  PROVE  /\ Depth(SubSeq(k, n, Len(k))) <= Depth(k)
         /\ Depth(SubSeq(k, n, Len(k))) \in Nat /\ Depth(k) \in Nat
<1> DEFINE w == SubSeq(k, 1, n - 1)
           u == SubSeq(k, n, Len(k))
<1>1. Len(k) \in Nat /\ n \in Nat
  OBVIOUS
<1>2. /\ w \in Seq(S) /\ Len(w) = n - 1 /\ \A i \in 1 .. n - 1 : w[i] = k[i]
      /\ DOMAIN w = 1 .. n - 1
  BY <1>1
<1>3. /\ u \in Seq(S) /\ Len(u) = Len(k) - n + 1 /\ \A i \in 1 .. Len(k) - n + 1 : u[i] = k[n + i - 1]
      /\ DOMAIN u = 1 .. Len(k) - n + 1
  BY <1>1
<1> HIDE DEF w, u
<1>4. Strings(w, u, k)
  <2>1. \A j \in 1 .. Len(u) : k[Len(w) + j] = u[j]
    <3> SUFFICES ASSUME NEW j \in 1 .. Len(u) PROVE k[Len(w) + j] = u[j]
      OBVIOUS
    <3>1. Len(w) + j = n + j - 1
      BY <1>1, <1>2
    <3> QED BY <1>3, <3>1
  <2>2. \A i \in 1 .. Len(k) : i \notin 1 .. n - 1 => i - Len(w) \in 1 .. Len(u) /\ k[i] = u[i - Len(w)]
    <3> SUFFICES ASSUME NEW i \in 1 .. Len(k), i \notin 1 .. n - 1
                 PROVE  i - Len(w) \in 1 .. Len(u) /\ k[i] = u[i - Len(w)]
      OBVIOUS
    <3>1. i - Len(w) \in 1 .. Len(u) /\ i = Len(w) + (i - Len(w))
      BY <1>1, <1>2, <1>3
    <3> QED BY <2>1, <3>1
  <2>3. Len(k) = Len(w) + Len(u) /\ DOMAIN k = 1 .. Len(k) /\ Len(w) \in Nat /\ Len(u) \in Nat
    BY <1>1, <1>2, <1>3
  <2> QED BY <1>2, <1>3, <2>1, <2>2, <2>3 DEF Strings
<1>5. Depth(w) \in Nat /\ Depth(u) \in Nat /\ Depth(k) \in Nat
  BY <1>2, <1>3, DepthIs
<1>6. Depth(k) = Depth(w) + Depth(u)
  BY <1>2, <1>3, <1>4, DepthConcat
<1>7. Depth(u) <= Depth(k)
  BY <1>5, <1>6
<1> QED BY <1>5, <1>7 DEF u

(* Putting frames on others adds their depth.                              *)
LEMMA DepthPush ==
  ASSUME NEW S, NEW w \in Seq(S), NEW k \in Seq(S)
  PROVE  Depth(w \o k) = Depth(w) + Depth(k) /\ Depth(w) \in Nat /\ Depth(k) \in Nat
<1>1. w \o k \in Seq(S) /\ Strings(w, k, w \o k)
  BY ConcatIs
<1>2. Depth(w \o k) = Depth(w) + Depth(k)
  BY <1>1, DepthConcat
<1> QED BY <1>2, DepthIs

(* Tuples of frames, of which the last alone may close a scope *)
LEMMA FewFrames ==
  ASSUME NEW S
  PROVE  /\ <<>> \in Seq(S) /\ Depth(<<>>) = 0
         /\ \A a \in S : a.at # "close" =>
              <<a>> \in Seq(S) /\ Depth(<<a>>) = 0
         /\ \A a, b \in S : a.at # "close" /\ b.at # "close" =>
              <<a, b>> \in Seq(S) /\ Depth(<<a, b>>) = 0
         /\ \A a, b, c \in S : a.at # "close" /\ b.at # "close" /\ c.at # "close" =>
              <<a, b, c>> \in Seq(S) /\ Depth(<<a, b, c>>) = 0
         /\ \A d \in S : d.at = "close" =>
              <<d>> \in Seq(S) /\ Depth(<<d>>) = 1
         /\ \A a, b, d \in S : a.at # "close" /\ b.at # "close" /\ d.at = "close" =>
              <<a, b, d>> \in Seq(S) /\ Depth(<<a, b, d>>) = 1
         /\ \A a, b, c, d \in S : a.at # "close" /\ b.at # "close" /\ c.at # "close" /\ d.at = "close" =>
              <<a, b, c, d>> \in Seq(S) /\ Depth(<<a, b, c, d>>) = 1
<1>1. <<>> \in Seq(S) /\ Depth(<<>>) = 0
  <2>1. <<>> \in Seq(S) /\ Closes(<<>>) = {}
    BY DEF Closes
  <2> QED BY <2>1, DepthIs
<1>2. ASSUME NEW a \in S, a.at # "close"
      PROVE  <<a>> \in Seq(S) /\ Depth(<<a>>) = 0
  <2>1. <<a>> \in Seq(S) /\ Closes(<<a>>) = {}
    BY <1>2 DEF Closes
  <2> QED BY <2>1, DepthIs
<1>3. ASSUME NEW a \in S, NEW b \in S, a.at # "close" /\ b.at # "close"
      PROVE  <<a, b>> \in Seq(S) /\ Depth(<<a, b>>) = 0
  <2>1. <<a, b>> \in Seq(S) /\ Closes(<<a, b>>) = {}
    BY <1>3 DEF Closes
  <2> QED BY <2>1, DepthIs
<1>4. ASSUME NEW a \in S, NEW b \in S, NEW c \in S, a.at # "close" /\ b.at # "close" /\ c.at # "close"
      PROVE  <<a, b, c>> \in Seq(S) /\ Depth(<<a, b, c>>) = 0
  <2>1. <<a, b, c>> \in Seq(S) /\ Closes(<<a, b, c>>) = {}
    BY <1>4 DEF Closes
  <2> QED BY <2>1, DepthIs
<1>5. ASSUME NEW d \in S, d.at = "close"
      PROVE  <<d>> \in Seq(S) /\ Depth(<<d>>) = 1
  <2>1. <<d>> \in Seq(S) /\ Closes(<<d>>) = {1}
    BY <1>5 DEF Closes
  <2> QED BY <2>1, DepthIs
<1>6. ASSUME NEW a \in S, NEW b \in S, NEW d \in S, a.at # "close" /\ b.at # "close" /\ d.at = "close"
      PROVE  <<a, b, d>> \in Seq(S) /\ Depth(<<a, b, d>>) = 1
  <2>1. <<a, b, d>> \in Seq(S) /\ Closes(<<a, b, d>>) = {3}
    BY <1>6 DEF Closes
  <2> QED BY <2>1, DepthIs
<1>7. ASSUME NEW a \in S, NEW b \in S, NEW c \in S, NEW d \in S, a.at # "close" /\ b.at # "close" /\ c.at # "close" /\ d.at = "close"
      PROVE  <<a, b, c, d>> \in Seq(S) /\ Depth(<<a, b, c, d>>) = 1
  <2>1. <<a, b, c, d>> \in Seq(S) /\ Closes(<<a, b, c, d>>) = {4}
    BY <1>7 DEF Closes
  <2> QED BY <2>1, DepthIs
<1> QED BY <1>1, <1>2, <1>3, <1>4, <1>5, <1>6, <1>7

(* Frames that run statements close no scope.                              *)
LEMMA DepthRuns ==
  ASSUME NEW f, NEW s, NEW i, Listed(f, s, i)
  PROVE  RunFrom(f, s, i) \in Seq(Frames(f)) /\ Depth(RunFrom(f, s, i)) = 0
<1>1. RunsAre(f, s, i, RunFrom(f, s, i))
  BY RunFromIs, Zenon
<1>2. Closes(RunFrom(f, s, i)) = {}
  BY <1>1, FrameIs DEF RunsAre, Closes
<1>3. RunFrom(f, s, i) \in Seq(Frames(f))
  BY <1>1 DEF RunsAre
<1> QED BY <1>2, <1>3, DepthIs

(* The frame a jump leads to is there. *)
LEMMA FirstThere ==
  ASSUME NEW f, NEW N, NEW V, Finished(f, N, V), NEW k, k # <<>>, NEW P, Placed(f, N, V, k, P),
         Head(k).at = "run", NEW s, s = Head(k).stm, Kind(f, s) \in {"break", "continue"}
  PROVE  First(k, IF Kind(f, s) = "break" THEN {"exit"} ELSE {"iter", "test"}) \in 1 .. Len(k)
<1> DEFINE A == IF Kind(f, s) = "break" THEN {"exit"} ELSE {"iter", "test"}
<1>1. PICK n : n = Len(k) - 1
  OBVIOUS
<1>2. PICK c : c.stm = s /\ Jumps(f, N, Heights(k), P, n + 1, s, c.break, c.continue)
  BY <1>1, RunTop
<1>3. s \in DOMAIN f.ast /\ n \in Nat /\ Len(k) = n + 1 /\ f \in Functions /\ Regular(f)
  BY <1>1, RunTop
<1>4. Heights(k)[Len(k)] = Head(k) /\ k \in Seq(Frames(f))
  BY TopFrame
<1>5. Kind(f, s) \in Within(f, s)
  BY <1>3, StmOk DEF Within
<1>6. PICK m \in 1 .. n : Heights(k)[m].at \in A /\ \A g \in m + 1 .. n : Heights(k)[g].at \notin A
  <2>1. (n + 1) - 1 = n
    BY <1>3
  <2>2. CASE Kind(f, s) = "break"
    <3>1. Breaks(N, Heights(k), P, n + 1, c.break)
      BY <1>2, <1>5, <2>2 DEF Jumps
    <3> QED BY <2>1, <2>2, <3>1 DEF Breaks
  <2>3. CASE Kind(f, s) = "continue"
    <3>1. Continues(N, Heights(k), P, n + 1, c.continue)
      BY <1>2, <1>5, <2>3 DEF Jumps
    <3> QED BY <2>1, <2>3, <3>1 DEF Continues
  <2> QED BY <2>2, <2>3
<1>7. \A g \in m + 1 .. Len(k) : Heights(k)[g].at \notin A
  <2>1. \A g \in m + 1 .. Len(k) : g \in m + 1 .. n \/ g = Len(k)
    BY <1>3
  <2>2. Head(k).at \notin A
    OBVIOUS
  <2> HIDE DEF A
  <2> QED BY <1>4, <1>6, <2>1, <2>2
<1>8. m \in 1 .. Len(k)
  BY <1>3, <1>6
<1>9. First(k, A) = Len(k) + 1 - m
  <2> HIDE DEF A
  <2> QED BY <1>4, <1>6, <1>7, <1>8, FirstIs
<1>10. First(k, A) \in 1 .. Len(k)
  <2> HIDE DEF A
  <2> QED BY <1>3, <1>8, <1>9
<1> QED BY <1>10 DEF A

(* Executing a statement never deepens: jumps leave scopes.                *)
LEMMA DepthExecuted ==
  ASSUME NEW f, NEW N, NEW V, Finished(f, N, V), NEW k, k # <<>>, NEW P, Placed(f, N, V, k, P),
         Head(k).at \in {"run", "iter"}
  PROVE  Depth(Executed(f, k)) <= Depth(k) /\ Depth(Executed(f, k)) \in Nat /\ Depth(k) \in Nat
<1>1. k \in Seq(Frames(f)) /\ Len(k) \in Nat
  BY TopFrame
<1>2. PICK s : s = Head(k).stm
  OBVIOUS
<1>3. Depth(Tail(k)) <= Depth(k) /\ Depth(Tail(k)) \in Nat /\ Depth(k) \in Nat
  BY <1>1, DepthPop
<1>4. CASE Head(k).at = "iter"
  <2>1. Kind(f, s) = "for"
    <3>1. Sits(f, N, V, Heights(k), P, Len(k)) /\ Heights(k)[Len(k)] = Head(k)
      BY TopFrame
    <3> QED BY <1>2, <1>4, <3>1 DEF Sits
  <2>2. Executed(f, k) = Tail(k)
    BY <1>2, <1>4, <2>1 DEF Executed
  <2> QED BY <1>3, <2>2
<1>5. CASE Head(k).at = "run"
  <2>1. CASE Kind(f, s) \in {"return", "throw", "exit"}
    <3>1. Executed(f, k) = <<>>
      BY <1>2, <1>5, <2>1 DEF Executed
    <3>2. Depth(<<>>) = 0
      <4>1. <<>> \in Seq({}) /\ Closes(<<>>) = {}
        BY DEF Closes
      <4> QED BY <4>1, DepthIs
    <3> QED BY <1>3, <3>1, <3>2
  <2>2. CASE Kind(f, s) = "break"
    <3>1. Executed(f, k) = SubSeq(k, First(k, {"exit"}) + 1, Len(k))
      BY <1>2, <1>5, <2>2 DEF Executed
    <3>2. First(k, {"exit"}) \in 1 .. Len(k)
      BY <1>2, <1>5, <2>2, FirstThere
    <3>3. PICK n : n = First(k, {"exit"}) + 1
      OBVIOUS
    <3>4. n \in 1 .. Len(k) + 1 /\ Executed(f, k) = SubSeq(k, n, Len(k))
      BY <1>1, <3>1, <3>2, <3>3
    <3> QED BY <1>1, <3>4, DepthDrop
  <2>3. CASE Kind(f, s) = "continue"
    <3>1. Executed(f, k) = SubSeq(k, First(k, {"iter", "test"}), Len(k))
      BY <1>2, <1>5, <2>3 DEF Executed
    <3>2. First(k, {"iter", "test"}) \in 1 .. Len(k)
      BY <1>2, <1>5, <2>3, FirstThere
    <3>3. PICK n : n = First(k, {"iter", "test"})
      OBVIOUS
    <3>4. n \in 1 .. Len(k) + 1 /\ Executed(f, k) = SubSeq(k, n, Len(k))
      BY <1>1, <3>1, <3>2, <3>3
    <3> QED BY <1>1, <3>4, DepthDrop
  <2>4. CASE Kind(f, s) \notin {"return", "throw", "exit", "break", "continue"}
    <3>1. Executed(f, k) = Tail(k)
      BY <1>2, <1>5, <2>4 DEF Executed
    <3> QED BY <1>3, <3>1
  <2> QED BY <2>1, <2>2, <2>3, <2>4
<1> QED BY <1>4, <1>5

(* Statements: what is entered *)
LEMMA LoopBodyDepth ==
  ASSUME NEW f \in Functions, Regular(f), NEW s \in {0} \cup DOMAIN f.ast,
         Kind(f, s) \in {"for", "while", "do"}
  PROVE  LoopBody(f, s) \in Seq(Frames(f)) /\ Depth(LoopBody(f, s)) = 0
<1>1. PICK p, q : p = Parts(f, s)[4] /\ q = Parts(f, s)[2]
  OBVIOUS
<1>2. /\ s \in DOMAIN f.ast /\ q \in {0} \cup DOMAIN f.ast
      /\ Kind(f, s) = "for" => p \in {0} \cup DOMAIN f.ast
  <2>1. /\ s \in DOMAIN f.ast
        /\ \A i \in 1 .. Len(Parts(f, s)) : Parts(f, s)[i] \in {0} \cup DOMAIN f.ast
        /\ Len(Parts(f, s)) = IF Kind(f, s) = "for" THEN 4 ELSE 2
    BY PartsOk
  <2>2. 2 \in 1 .. Len(Parts(f, s)) /\ Kind(f, s) = "for" => 4 \in 1 .. Len(Parts(f, s))
    BY <2>1
  <2>3. 2 \in 1 .. Len(Parts(f, s))
    BY <2>1
  <2> QED BY <1>1, <2>1, <2>2, <2>3
<1>3. Frame("run", q) \in Frames(f) /\ Frame("iter", s) \in Frames(f)
      /\ (Kind(f, s) = "for" => Frame("run", p) \in Frames(f))
  BY <1>2, FramesIs
<1>4. Frame("close", s) \in Frames(f)
  BY <1>2, FramesIs
<1>5. CASE Kind(f, s) = "for"
  <2>1. LoopBody(f, s) = <<Frame("run", p), Frame("iter", s)>>
    BY <1>1, <1>5 DEF LoopBody
  <2>2. Frame("run", p).at # "close" /\ Frame("iter", s).at # "close" /\ Frame("close", s).at = "close"
    BY FrameIs
  <2>3. PICK a, b, d : a = Frame("run", p) /\ b = Frame("iter", s) /\ d = Frame("close", s)
    OBVIOUS
  <2>4. /\ a \in Frames(f) /\ b \in Frames(f) /\ d \in Frames(f)
        /\ a.at # "close" /\ b.at # "close" /\ d.at = "close"
    BY <1>3, <1>4, <1>5, <2>2, <2>3
  <2>5. <<a, b>> \in Seq(Frames(f)) /\ Depth(<<a, b>>) = 0
    <3>1. \A x, y \in Frames(f) : x.at # "close" /\ y.at # "close" =>
             <<x, y>> \in Seq(Frames(f)) /\ Depth(<<x, y>>) = 0
      BY FewFrames, Zenon
    <3> QED BY <2>4, <3>1, Zenon
  <2> QED BY <2>1, <2>3, <2>5
<1>6. CASE Kind(f, s) # "for"
  <2>1. LoopBody(f, s) = <<Frame("run", q)>>
    BY <1>1, <1>6 DEF LoopBody
  <2>2. Frame("run", q).at # "close" /\ Frame("close", s).at = "close"
    BY FrameIs
  <2>3. PICK a, d : a = Frame("run", q) /\ d = Frame("close", s)
    OBVIOUS
  <2>4. a \in Frames(f) /\ d \in Frames(f) /\ a.at # "close" /\ d.at = "close"
    BY <1>3, <1>4, <2>2, <2>3
  <2>5. <<a>> \in Seq(Frames(f)) /\ Depth(<<a>>) = 0
    BY <2>4, FewFrames
  <2> QED BY <2>1, <2>3, <2>5
<1> QED BY <1>5, <1>6

(* The frames a statement is replaced by *)
LEMMA EnteredTuples ==
  ASSUME NEW f, NEW s \in {0} \cup DOMAIN f.ast, NEW p \in {0} \cup DOMAIN f.ast
  PROVE  /\ <<>> \in Seq(Frames(f)) /\ Depth(<<>>) = 0
         /\ <<Frame("run", p)>> \in Seq(Frames(f)) /\ Depth(<<Frame("run", p)>>) = 0
         /\ <<Frame("close", s)>> \in Seq(Frames(f)) /\ Depth(<<Frame("close", s)>>) = 1
         /\ LET w == <<Frame("test", s), Frame("exit", s)>>
            IN  w \in Seq(Frames(f)) /\ Depth(w) = 0
         /\ LET w == <<Frame("run", p), Frame("test", s), Frame("exit", s)>>
            IN  w \in Seq(Frames(f)) /\ Depth(w) = 0
         /\ LET w == <<[Frame("pick", s) EXCEPT !.i = 2], Frame("exit", s), Frame("close", s)>>
            IN  w \in Seq(Frames(f)) /\ Depth(w) = 1
         /\ LET w == <<Frame("run", p), Frame("test", s), Frame("exit", s), Frame("close", s)>>
            IN  w \in Seq(Frames(f)) /\ Depth(w) = 1
<1>1. PICK a, b, c, d, e :
        /\ a = Frame("run", p) /\ b = Frame("test", s) /\ c = Frame("exit", s)
        /\ d = Frame("close", s) /\ e = [Frame("pick", s) EXCEPT !.i = 2]
  OBVIOUS
<1>2. a \in Frames(f) /\ b \in Frames(f) /\ c \in Frames(f) /\ d \in Frames(f)
  BY <1>1, FramesIs
<1>3. e \in Frames(f) /\ e.at = "pick"
  BY <1>1 DEF Frame, Frames
<1>4. a.at # "close" /\ b.at # "close" /\ c.at # "close" /\ d.at = "close" /\ e.at # "close"
  BY <1>1, <1>3, FrameIs
<1>5. <<>> \in Seq(Frames(f)) /\ Depth(<<>>) = 0
  BY FewFrames, Zenon
<1>6. <<a>> \in Seq(Frames(f)) /\ Depth(<<a>>) = 0
  BY <1>2, <1>4, FewFrames, Zenon
<1>7. <<d>> \in Seq(Frames(f)) /\ Depth(<<d>>) = 1
  BY <1>2, <1>4, FewFrames, Zenon
<1>8. <<b, c>> \in Seq(Frames(f)) /\ Depth(<<b, c>>) = 0
  <2>1. \A x, y \in Frames(f) : x.at # "close" /\ y.at # "close" =>
           <<x, y>> \in Seq(Frames(f)) /\ Depth(<<x, y>>) = 0
    BY FewFrames, Zenon
  <2> QED BY <1>2, <1>4, <2>1, Zenon
<1>9. <<a, b, c>> \in Seq(Frames(f)) /\ Depth(<<a, b, c>>) = 0
  <2>1. \A x, y, z \in Frames(f) : x.at # "close" /\ y.at # "close" /\ z.at # "close" =>
           <<x, y, z>> \in Seq(Frames(f)) /\ Depth(<<x, y, z>>) = 0
    BY FewFrames, Zenon
  <2> QED BY <1>2, <1>4, <2>1, Zenon
<1>10. <<e, c, d>> \in Seq(Frames(f)) /\ Depth(<<e, c, d>>) = 1
  <2>1. \A x, y, z \in Frames(f) : x.at # "close" /\ y.at # "close" /\ z.at = "close" =>
           <<x, y, z>> \in Seq(Frames(f)) /\ Depth(<<x, y, z>>) = 1
    BY FewFrames, Zenon
  <2> QED BY <1>2, <1>3, <1>4, <2>1, Zenon
<1>11. <<a, b, c, d>> \in Seq(Frames(f)) /\ Depth(<<a, b, c, d>>) = 1
  <2>1. \A x, y, z, v \in Frames(f) : x.at # "close" /\ y.at # "close" /\ z.at # "close" /\ v.at = "close" =>
           <<x, y, z, v>> \in Seq(Frames(f)) /\ Depth(<<x, y, z, v>>) = 1
    BY FewFrames, Zenon
  <2> QED BY <1>2, <1>4, <2>1, Zenon
<1> QED BY <1>1, <1>5, <1>6, <1>7, <1>8, <1>9, <1>10, <1>11

Enters1(f, s) == \/ Kind(f, s) \in {"for", "switch"}
                 \/ Kind(f, s) = "block" /\ Parts(f, s) # <<>>

(* Entering a statement deepens by one where a scope opens.                *)
LEMMA EnteredDepth ==
  ASSUME NEW f \in Functions, Regular(f), NEW s \in {0} \cup DOMAIN f.ast,
         Kind(f, s) \notin Events
  PROVE  /\ Entered(f, s) \in Seq(Frames(f)) /\ Kind(f, s) # "goto"
         /\ Depth(Entered(f, s)) = IF Enters1(f, s) THEN 1 ELSE 0
<1>1. CASE Kind(f, s) = "null"
  <2>1. Entered(f, s) = <<>>
    BY <1>1 DEF Entered
  <2> QED BY <1>1, <2>1, EnteredTuples DEF Enters1
<1>2. CASE Kind(f, s) # "null"
  <2>1. /\ s \in DOMAIN f.ast /\ Len(Parts(f, s)) \in Nat
        /\ \A i \in 1 .. Len(Parts(f, s)) : Parts(f, s)[i] \in {0} \cup DOMAIN f.ast
        /\ Kind(f, s) = "for" => Len(Parts(f, s)) = 4
        /\ Kind(f, s) = "do" => Len(Parts(f, s)) = 2
        /\ Parts(f, s) \in Seq({0} \cup DOMAIN f.ast)
    BY <1>2, PartsOk
  <2>2. Kind(f, s) \in {"case", "default", "block", "for", "while", "do", "switch"}
    BY <1>2, <2>1, StmOk DEF Events, Plainly
  <2>3. CASE Kind(f, s) \in {"case", "default"}
    <3>1. Entered(f, s) = <<>>
      BY <2>3 DEF Entered
    <3> QED BY <2>3, <3>1, EnteredTuples DEF Enters1
  <2>4. CASE Kind(f, s) = "while"
    <3>1. Entered(f, s) = <<Frame("test", s), Frame("exit", s)>>
      BY <2>4 DEF Entered
    <3>2. LET w == <<Frame("test", s), Frame("exit", s)>> IN w \in Seq(Frames(f)) /\ Depth(w) = 0
      BY EnteredTuples, Zenon
    <3>3. ~Enters1(f, s)
      BY <2>4 DEF Enters1
    <3> QED BY <2>4, <3>1, <3>2, <3>3
  <2>5. CASE Kind(f, s) = "do"
    <3>1. PICK p : p = Parts(f, s)[2]
      OBVIOUS
    <3>2. p \in {0} \cup DOMAIN f.ast
      BY <2>1, <2>5, <3>1
    <3>3. Entered(f, s) = <<Frame("run", p), Frame("test", s), Frame("exit", s)>>
      BY <2>5, <3>1 DEF Entered
    <3>4. LET w == <<Frame("run", p), Frame("test", s), Frame("exit", s)>>
          IN  w \in Seq(Frames(f)) /\ Depth(w) = 0
      BY <3>2, EnteredTuples, Zenon
    <3>5. ~Enters1(f, s)
      BY <2>5 DEF Enters1
    <3> QED BY <2>5, <3>3, <3>4, <3>5
  <2>6. CASE Kind(f, s) = "for"
    <3>1. PICK p : p = Parts(f, s)[1]
      OBVIOUS
    <3>2. p \in {0} \cup DOMAIN f.ast
      <4>1. 1 \in 1 .. Len(Parts(f, s))
        BY <2>1, <2>6
      <4> QED BY <2>1, <3>1, <4>1
    <3>3. Entered(f, s) = <<Frame("run", p), Frame("test", s), Frame("exit", s), Frame("close", s)>>
      BY <2>6, <3>1 DEF Entered
    <3>4. LET w == <<Frame("run", p), Frame("test", s), Frame("exit", s), Frame("close", s)>>
          IN  w \in Seq(Frames(f)) /\ Depth(w) = 1
      BY <3>2, EnteredTuples, Zenon
    <3>5. Enters1(f, s)
      BY <2>6 DEF Enters1
    <3> QED BY <2>6, <3>3, <3>4, <3>5
  <2>7. CASE Kind(f, s) = "switch"
    <3>1. Entered(f, s) = <<[Frame("pick", s) EXCEPT !.i = 2], Frame("exit", s), Frame("close", s)>>
      BY <2>7 DEF Entered
    <3>2. LET w == <<[Frame("pick", s) EXCEPT !.i = 2], Frame("exit", s), Frame("close", s)>>
          IN  w \in Seq(Frames(f)) /\ Depth(w) = 1
      BY <2>1, EnteredTuples, Zenon
    <3>3. Enters1(f, s)
      BY <2>7 DEF Enters1
    <3> QED BY <2>7, <3>1, <3>2, <3>3
  <2>8. CASE Kind(f, s) = "block" /\ Parts(f, s) = <<>>
    <3>1. Entered(f, s) = <<>>
      BY <2>8 DEF Entered
    <3> QED BY <2>8, <3>1, EnteredTuples DEF Enters1
  <2>9. CASE Kind(f, s) = "block" /\ Parts(f, s) # <<>>
    <3>1. Entered(f, s) = RunFrom(f, s, 1) \o <<Frame("close", s)>>
      BY <2>9 DEF Entered
    <3>2. 1 \in 1 .. Len(Parts(f, s))
      BY <2>1, <2>9
    <3>3. Listed(f, s, 1)
      BY <2>1, <3>2 DEF Listed
    <3>4. RunFrom(f, s, 1) \in Seq(Frames(f)) /\ Depth(RunFrom(f, s, 1)) = 0
      BY <3>3, DepthRuns
    <3>5. <<Frame("close", s)>> \in Seq(Frames(f)) /\ Depth(<<Frame("close", s)>>) = 1
      BY EnteredTuples
    <3>6. PICK r, w : r = RunFrom(f, s, 1) /\ w = <<Frame("close", s)>>
      OBVIOUS
    <3>7. r \o w \in Seq(Frames(f)) /\ Depth(r \o w) = Depth(r) + Depth(w)
      <4>1. r \in Seq(Frames(f)) /\ w \in Seq(Frames(f))
        BY <3>4, <3>5, <3>6
      <4>2. Depth(r \o w) = Depth(r) + Depth(w)
        BY <4>1, DepthPush
      <4> QED BY <4>1, <4>2
    <3>8. Depth(r \o w) = 1
      BY <3>4, <3>5, <3>6, <3>7
    <3> QED BY <2>9, <3>1, <3>6, <3>7, <3>8 DEF Enters1
  <2> QED BY <2>2, <2>3, <2>4, <2>5, <2>6, <2>7, <2>8, <2>9
<1> QED BY <1>1, <1>2

(* Frames w in place of the top frame, or on it *)
LEMMA DepthReplace ==
  ASSUME NEW S, NEW k \in Seq(S), k # <<>>, NEW w \in Seq(S)
  PROVE  /\ Depth(w \o Tail(k)) = Depth(w) + Depth(k) - (IF Head(k).at = "close" THEN 1 ELSE 0)
         /\ Depth(w \o k) = Depth(w) + Depth(k)
         /\ Depth(Tail(k)) = Depth(k) - (IF Head(k).at = "close" THEN 1 ELSE 0)
         /\ Depth(w) \in Nat /\ Depth(k) \in Nat /\ Depth(Tail(k)) \in Nat
<1>1. /\ Depth(k) = Depth(Tail(k)) + (IF Head(k).at = "close" THEN 1 ELSE 0)
      /\ Depth(Tail(k)) \in Nat /\ Depth(k) \in Nat /\ Tail(k) \in Seq(S)
  BY DepthPop
<1>2. Depth(w \o Tail(k)) = Depth(w) + Depth(Tail(k)) /\ Depth(w) \in Nat
  BY <1>1, DepthPush
<1>3. Depth(w \o k) = Depth(w) + Depth(k)
  BY DepthPush
<1> QED BY <1>1, <1>2, <1>3

(* The frames of a place, and what a test and a pick are part of *)
LEMMA TopIs ==
  ASSUME NEW f, NEW N, NEW V, Finished(f, N, V), NEW k, k # <<>>, NEW P, Placed(f, N, V, k, P),
         NEW s, s = Head(k).stm
  PROVE  /\ k \in Seq(Frames(f)) /\ Len(k) \in Nat /\ Tail(k) \in Seq(Frames(f))
         /\ f \in Functions /\ Regular(f) /\ s \in {0} \cup DOMAIN f.ast
         /\ Head(k) \in Frames(f)
         /\ Head(k).at = "test" => Kind(f, s) \in {"for", "while", "do"}
         /\ Head(k).at = "pick" => Kind(f, s) = "switch"
         /\ Head(k).at = "iter" => Kind(f, s) = "for"
<1>1. /\ Sits(f, N, V, Heights(k), P, Len(k)) /\ Heights(k)[Len(k)] = Head(k) /\ Head(k) \in Frames(f)
      /\ Len(k) \in Nat /\ Tail(k) \in Seq(Frames(f)) /\ k \in Seq(Frames(f))
  BY TopFrame
<1>2. s \in {0} \cup DOMAIN f.ast
  BY <1>1 DEF Frames
<1>3. f \in Functions /\ Regular(f)
  BY DEF Finished
<1>4. /\ Head(k).at = "test" => Kind(f, s) \in {"for", "while", "do"}
      /\ Head(k).at = "pick" => Kind(f, s) = "switch"
      /\ Head(k).at = "iter" => Kind(f, s) = "for"
  BY <1>1 DEF Sits
<1> QED BY <1>1, <1>2, <1>3, <1>4

(* A silent step changes the depth as the scopes in the graph change the   *)
(* level.                                                                  *)
LEMMA DepthSilently ==
  ASSUME NEW f, NEW N, NEW V, Finished(f, N, V), NEW k, k # <<>>, NEW P, Placed(f, N, V, k, P),
         IsSilent(f, k)
  PROVE  /\ Depth(Silently(f, k)) = Depth(k) + RiseOf(f, k)
         /\ Depth(Silently(f, k)) \in Nat /\ Depth(k) \in Nat
<1>1. PICK s : s = Head(k).stm
  OBVIOUS
<1>2. /\ k \in Seq(Frames(f)) /\ Len(k) \in Nat /\ Tail(k) \in Seq(Frames(f))
      /\ f \in Functions /\ Regular(f) /\ s \in {0} \cup DOMAIN f.ast /\ Head(k) \in Frames(f)
      /\ Head(k).at = "test" => Kind(f, s) \in {"for", "while", "do"}
      /\ Head(k).at = "pick" => Kind(f, s) = "switch"
  BY <1>1, TopIs
<1>3. ASSUME NEW w \in Seq(Frames(f))
      PROVE  /\ Depth(w \o Tail(k)) = Depth(w) + Depth(k) - (IF Head(k).at = "close" THEN 1 ELSE 0)
             /\ Depth(w \o k) = Depth(w) + Depth(k)
             /\ Depth(Tail(k)) = Depth(k) - (IF Head(k).at = "close" THEN 1 ELSE 0)
             /\ Depth(w) \in Nat /\ Depth(k) \in Nat /\ Depth(Tail(k)) \in Nat
  BY <1>2, <1>3, DepthReplace
<1>4. /\ Depth(Tail(k)) = Depth(k) - (IF Head(k).at = "close" THEN 1 ELSE 0)
      /\ Depth(k) \in Nat /\ Depth(Tail(k)) \in Nat
  BY <1>2, <1>3
<1>5. Head(k).at \in {"run", "test", "iter", "pick", "exit", "close"}
  BY <1>2 DEF Frames
<1>6. CASE Head(k).at \in {"iter", "exit", "close"}
  <2>1. Silently(f, k) = Tail(k)
    BY <1>6 DEF Silently
  <2>2. RiseOf(f, k) = IF Head(k).at = "close" THEN -1 ELSE 0
    BY <1>6 DEF RiseOf
  <2> QED BY <1>4, <1>6, <2>1, <2>2
<1>7. CASE Head(k).at = "test"
  <2>1. Silently(f, k) = LoopBody(f, s) \o k
    BY <1>1, <1>7 DEF Silently
  <2>2. RiseOf(f, k) = 0
    BY <1>7 DEF RiseOf
  <2>3. LoopBody(f, s) \in Seq(Frames(f)) /\ Depth(LoopBody(f, s)) = 0
    BY <1>2, <1>7, LoopBodyDepth
  <2>4. Depth(LoopBody(f, s) \o k) = Depth(LoopBody(f, s)) + Depth(k)
    BY <1>3, <2>3
  <2> QED BY <1>4, <2>1, <2>2, <2>3, <2>4
<1>8. CASE Head(k).at = "pick"
  <2>1. RiseOf(f, k) = 0
    BY <1>8 DEF RiseOf
  <2>2. CASE Defaults(f, s) = {}
    <3>1. Silently(f, k) = Tail(k)
      BY <1>1, <1>8, <2>2 DEF Silently
    <3> QED BY <1>4, <1>8, <2>1, <3>1
  <2>3. CASE Defaults(f, s) # {}
    <3>1. PICK g : g = CHOOSE j \in Defaults(f, s) : TRUE
      OBVIOUS
    <3>2. g \in Defaults(f, s)
      BY <2>3, <3>1
    <3>3. /\ s \in DOMAIN f.ast /\ Len(Parts(f, s)) \in Nat
          /\ \A i \in 1 .. Len(Parts(f, s)) : Parts(f, s)[i] \in {0} \cup DOMAIN f.ast
      BY <1>2, <1>8, PartsOk
    <3>4. g \in 2 .. Len(Parts(f, s))
      BY <3>2, <3>3, DefaultIs
    <3>5. Listed(f, s, g)
      <4>1. g \in 1 .. Len(Parts(f, s)) /\ \A l \in g .. Len(Parts(f, s)) : l \in 1 .. Len(Parts(f, s))
        BY <3>3, <3>4
      <4> QED BY <3>3, <4>1 DEF Listed
    <3>6. RunFrom(f, s, g) \in Seq(Frames(f)) /\ Depth(RunFrom(f, s, g)) = 0
      BY <3>5, DepthRuns
    <3>7. Silently(f, k) = RunFrom(f, s, g) \o Tail(k)
      BY <1>1, <1>8, <2>3, <3>1 DEF Silently
    <3>8. Depth(RunFrom(f, s, g) \o Tail(k)) = Depth(RunFrom(f, s, g)) + Depth(k) - 0
      BY <1>3, <1>8, <3>6
    <3> QED BY <1>4, <2>1, <3>6, <3>7, <3>8
  <2> QED BY <2>2, <2>3
<1>9. CASE Head(k).at = "run"
  <2>1. Kind(f, s) \notin Events
    BY <1>1, <1>9 DEF IsSilent
  <2>2. /\ Entered(f, s) \in Seq(Frames(f)) /\ Kind(f, s) # "goto"
        /\ Depth(Entered(f, s)) = IF Enters1(f, s) THEN 1 ELSE 0
    BY <1>2, <2>1, EnteredDepth
  <2>3. Silently(f, k) = Entered(f, s) \o Tail(k)
    BY <1>1, <1>9, <2>2 DEF Silently
  <2>4. RiseOf(f, k) = IF Enters1(f, s) THEN 1 ELSE 0
    BY <1>1, <1>9 DEF RiseOf, Enters1
  <2>5. Depth(Entered(f, s) \o Tail(k)) = Depth(Entered(f, s)) + Depth(k) - 0
    BY <1>3, <1>9, <2>2
  <2> QED BY <1>4, <2>2, <2>3, <2>4, <2>5
<1> QED BY <1>5, <1>6, <1>7, <1>8, <1>9

(* The top frame decides a condition. *)
Deciding(f, k) == \/ Head(k).at \in {"test", "pick"}
                  \/ Head(k).at = "run" /\ Kind(f, Head(k).stm) = "if"

(* A decision keeps the depth.                                             *)
LEMMA DepthDecided ==
  ASSUME NEW f, NEW N, NEW V, Finished(f, N, V), NEW k, k # <<>>, NEW P, Placed(f, N, V, k, P),
         ~IsSilent(f, k),
         Deciding(f, k),
         NEW holds \in BOOLEAN
  PROVE  Depth(Decided(f, k, holds)) = Depth(k) /\ Depth(k) \in Nat
<1>1. PICK s : s = Head(k).stm
  OBVIOUS
<1>2. /\ k \in Seq(Frames(f)) /\ Len(k) \in Nat /\ Tail(k) \in Seq(Frames(f))
      /\ f \in Functions /\ Regular(f) /\ s \in {0} \cup DOMAIN f.ast /\ Head(k) \in Frames(f)
      /\ Head(k).at = "test" => Kind(f, s) \in {"for", "while", "do"}
      /\ Head(k).at = "pick" => Kind(f, s) = "switch"
  BY <1>1, TopIs
<1>3. ASSUME NEW w \in Seq(Frames(f))
      PROVE  Depth(w \o Tail(k)) = Depth(w) + Depth(k) /\ Depth(w \o k) = Depth(w) + Depth(k)
             /\ Depth(w) \in Nat /\ Depth(k) \in Nat
  <2>1. /\ Depth(w \o Tail(k)) = Depth(w) + Depth(k) - (IF Head(k).at = "close" THEN 1 ELSE 0)
        /\ Depth(w \o k) = Depth(w) + Depth(k) /\ Depth(w) \in Nat /\ Depth(k) \in Nat
    BY <1>2, <1>3, DepthReplace
  <2> QED BY <2>1 DEF Deciding
<1>4. Depth(Tail(k)) = Depth(k) /\ Depth(k) \in Nat
  <2>1. /\ Depth(k) = Depth(Tail(k)) + (IF Head(k).at = "close" THEN 1 ELSE 0)
        /\ Depth(Tail(k)) \in Nat /\ Depth(k) \in Nat
    BY <1>2, DepthPop
  <2> QED BY <2>1 DEF Deciding
<1>5. CASE Head(k).at = "test"
  <2>1. LoopBody(f, s) \in Seq(Frames(f)) /\ Depth(LoopBody(f, s)) = 0
    BY <1>2, <1>5, LoopBodyDepth
  <2>2. Depth(LoopBody(f, s) \o k) = Depth(k)
    BY <1>3, <1>4, <2>1
  <2>3. Decided(f, k, holds) = IF holds THEN LoopBody(f, s) \o k ELSE Tail(k)
    BY <1>1, <1>5 DEF Decided
  <2> QED BY <1>4, <2>2, <2>3
<1>6. CASE Head(k).at = "pick"
  <2>1. PICK m, g : m = Len(Parts(f, s)) /\ g = NextRun(f, s, Head(k).i)
    OBVIOUS
  <2>2. m \in Nat /\ \A i \in 1 .. m : Parts(f, s)[i] \in {0} \cup DOMAIN f.ast
    BY <1>2, <1>6, <2>1, PartsOk
  <2>3. g \in 2 .. m
    <3>1. RunsLeft(f, s, Head(k).i) # {}
      BY <1>1, <1>6 DEF IsSilent
    <3>2. RunsLeft(f, s, Head(k).i) \subseteq 2 .. m
      BY <2>1 DEF RunsLeft, RunStarts
    <3>3. RunsLeft(f, s, Head(k).i) \in SUBSET Nat
      BY <2>2, <3>2
    <3>4. \E j \in RunsLeft(f, s, Head(k).i) : \A l \in RunsLeft(f, s, Head(k).i) : j <= l
      BY <3>1, <3>3, Least
    <3>5. g \in RunsLeft(f, s, Head(k).i)
      BY <2>1, <3>4 DEF NextRun
    <3> QED BY <3>2, <3>5
  <2>4. Listed(f, s, g)
    <3>1. g \in 1 .. m /\ \A l \in g .. m : l \in 1 .. m
      BY <2>2, <2>3
    <3> QED BY <2>1, <2>2, <3>1 DEF Listed
  <2>5. RunFrom(f, s, g) \in Seq(Frames(f)) /\ Depth(RunFrom(f, s, g)) = 0
    BY <2>4, DepthRuns
  <2>6. Depth(RunFrom(f, s, g) \o Tail(k)) = Depth(k)
    BY <1>3, <1>4, <2>5
  <2>7. PICK e : e = [Head(k) EXCEPT !.i = RunEnd(f, s, g)]
    OBVIOUS
  <2>8. RunEnd(f, s, g) \in Nat
    <3>1. g \in 1 .. Len(Parts(f, s)) /\ Len(Parts(f, s)) \in Nat
      BY <2>1, <2>2, <2>3
    <3>2. RunEnd(f, s, g) \in g .. Len(Parts(f, s)) + 1
      BY <3>1, RunEndIs
    <3> QED BY <3>1, <3>2
  <2>9. e \in Frames(f) /\ e.at # "close"
    BY <1>2, <1>6, <2>7, <2>8 DEF Frames
  <2>10. <<e>> \in Seq(Frames(f)) /\ Depth(<<e>>) = 0
    BY <2>9, FewFrames, Zenon
  <2>11. Depth(<<e>> \o Tail(k)) = Depth(k)
    <3>1. PICK w : w = <<e>>
      OBVIOUS
    <3>2. w \in Seq(Frames(f)) /\ Depth(w) = 0
      BY <2>10, <3>1, Zenon
    <3>3. Depth(w \o Tail(k)) = Depth(k)
      BY <1>3, <1>4, <3>2
    <3> QED BY <3>1, <3>3, Zenon
  <2>12. Decided(f, k, holds) = IF holds THEN RunFrom(f, s, g) \o Tail(k) ELSE <<e>> \o Tail(k)
    BY <1>1, <1>6, <2>1, <2>7 DEF Decided
  <2> QED BY <1>4, <2>6, <2>11, <2>12
<1>7. CASE Head(k).at = "run" /\ Kind(f, s) = "if"
  <2>1. PICK p : p = Parts(f, s)[IF holds THEN 2 ELSE 3]
    OBVIOUS
  <2>2. p \in {0} \cup DOMAIN f.ast
    <3>1. /\ Len(Parts(f, s)) = 3
          /\ \A i \in 1 .. Len(Parts(f, s)) : Parts(f, s)[i] \in {0} \cup DOMAIN f.ast
      BY <1>2, <1>7, PartsOk
    <3>2. (IF holds THEN 2 ELSE 3) \in 1 .. Len(Parts(f, s))
      BY <3>1
    <3> QED BY <2>1, <3>1, <3>2
  <2>3. <<Frame("run", p)>> \in Seq(Frames(f)) /\ Depth(<<Frame("run", p)>>) = 0
    BY <1>2, <2>2, EnteredTuples, Zenon
  <2>4. Decided(f, k, holds) = <<Frame("run", p)>> \o Tail(k)
    BY <1>1, <1>7, <2>1 DEF Decided
  <2>5. PICK w : w = <<Frame("run", p)>>
    OBVIOUS
  <2>6. w \in Seq(Frames(f)) /\ Depth(w) = 0
    BY <2>3, <2>5, Zenon
  <2>7. Depth(w \o Tail(k)) = Depth(k)
    BY <1>3, <1>4, <2>6
  <2> QED BY <1>4, <2>4, <2>5, <2>7, Zenon
<1> QED BY <1>1, <1>5, <1>6, <1>7 DEF Deciding

(* Node x and place y are at the same point, whatever is passed between. *)
Meets(N, x, y) == \E floor, l, m \in Int : Same(N, floor, x, l, y, m)

Flags == {"begin", "open", "close", "mark"}

(* What joined places meet.                                                *)
LEMMA MeetsOf ==
  ASSUME NEW N, NEW x, NEW y
  PROVE  /\ Joined(N, x, y) => Meets(N, x, y)
         /\ \A z : Meets(N, x, y) /\ Joined(N, y, z) => Meets(N, x, z)
         /\ \A z : Joined(N, z, x) /\ Meets(N, x, y) => Meets(N, z, y)
<1>1. ASSUME Joined(N, x, y) PROVE Meets(N, x, y)
  <2>1. Same(N, 0, x, 0, y, 0)
    BY <1>1, JoinedSame
  <2> QED BY <2>1 DEF Meets
<1>2. ASSUME NEW z, Meets(N, x, y), Joined(N, y, z) PROVE Meets(N, x, z)
  <2>1. PICK floor, l, m \in Int : Same(N, floor, x, l, y, m)
    BY <1>2 DEF Meets
  <2>2. Same(N, floor, y, m, z, m)
    BY <1>2, JoinedSame
  <2>3. Same(N, floor, x, l, z, m)
    BY <2>1, <2>2, SameIs
  <2> QED BY <2>3 DEF Meets
<1>3. ASSUME NEW z, Meets(N, x, y), Joined(N, z, x) PROVE Meets(N, z, y)
  <2>1. PICK floor, l, m \in Int : Same(N, floor, x, l, y, m)
    BY <1>3 DEF Meets
  <2>2. Same(N, floor, z, l, x, l)
    BY <1>3, JoinedSame
  <2>3. Same(N, floor, z, l, y, m)
    BY <2>1, <2>2, SameIs
  <2> QED BY <2>3 DEF Meets
<1> QED BY <1>1, <1>2, <1>3

(* A flag is passed, on the path and by the execution. *)
LEMMA FlagSame ==
  ASSUME NEW N, NEW n \in DOMAIN N, N[n].kind \in Flags, NEW floor, NEW l \in Int,
         N[n].kind = "close" => l > floor
  PROVE  /\ Same(N, floor, n, l, N[n].t, l + Rise(N[n].kind))
         /\ Same(N, floor, N[n].t, l + Rise(N[n].kind), n, l)
         /\ l + Rise(N[n].kind) \in Int
<1>1. Passes(N, floor, n, l)
  BY DEF Passes, Flags
<1>2. Same(N, floor, n, l, N[n].t, l + Rise(N[n].kind))
  BY <1>1, SameIs
<1>3. l + Rise(N[n].kind) \in Int
  BY DEF Rise
<1> QED BY <1>2, <1>3, SameIs

(* What is met stays met when the walk passes a flag or scope node.        *)
LEMMA MeetsFlag ==
  ASSUME NEW N, NEW n \in DOMAIN N, N[n].kind \in Flags, NEW y
  PROVE  /\ Meets(N, n, y) => Meets(N, N[n].t, y)
         /\ Meets(N, y, n) => Meets(N, y, N[n].t)
<1>1. ASSUME NEW floor \in Int, NEW l \in Int
      PROVE  \E lower \in Int : lower <= floor /\ lower < l
  <2>1. CASE floor < l
    BY <2>1
  <2>2. CASE floor >= l
    <3>1. l - 1 \in Int /\ l - 1 <= floor /\ l - 1 < l
      BY <2>2
    <3> QED BY <3>1
  <2> QED BY <2>1, <2>2
<1>2. ASSUME Meets(N, n, y) PROVE Meets(N, N[n].t, y)
  <2>1. PICK floor, l, m \in Int : Same(N, floor, n, l, y, m)
    BY <1>2 DEF Meets
  <2>2. PICK lower \in Int : lower <= floor /\ lower < l
    BY <1>1
  <2>3. Same(N, lower, n, l, y, m)
    BY <2>1, <2>2, SameBelow
  <2>4. PICK i : i = l + Rise(N[n].kind)
    OBVIOUS
  <2>5. Same(N, lower, N[n].t, i, n, l) /\ i \in Int
    BY <2>2, <2>4, FlagSame
  <2>6. Same(N, lower, N[n].t, i, y, m)
    BY <2>3, <2>5, SameIs
  <2> QED BY <2>5, <2>6 DEF Meets
<1>3. ASSUME Meets(N, y, n) PROVE Meets(N, y, N[n].t)
  <2>1. PICK floor, l, m \in Int : Same(N, floor, y, l, n, m)
    BY <1>3 DEF Meets
  <2>2. PICK lower \in Int : lower <= floor /\ lower < m
    BY <1>1
  <2>3. Same(N, lower, y, l, n, m)
    BY <2>1, <2>2, SameBelow
  <2>4. PICK i : i = m + Rise(N[n].kind)
    OBVIOUS
  <2>5. Same(N, lower, n, m, N[n].t, i) /\ i \in Int
    BY <2>2, <2>4, FlagSame
  <2>6. \A x, a, u, b, z, c :
          Same(N, lower, x, a, u, b) /\ Same(N, lower, u, b, z, c) => Same(N, lower, x, a, z, c)
    BY SameIs, Zenon
  <2>7. Same(N, lower, n, m, N[n].t, i)
    BY <2>5
  <2>8. Same(N, lower, y, l, N[n].t, i)
    BY <2>3, <2>6, <2>7
  <2> QED BY <2>5, <2>8 DEF Meets
<1> QED BY <1>2, <1>3

(* It stays met when the frames settle.                                    *)
LEMMA MeetsFlow ==
  ASSUME NEW N, NEW x, NEW y, Meets(N, x, y), NEW z, NEW r, Flows(N, y, z, r)
  PROVE  Meets(N, x, z)
<1>1. ASSUME NEW o, Stands(N, o, "open") \/ Stands(N, o, "close"),
             Joined(N, y, o), Joined(N, N[o].t, z)
      PROVE  Meets(N, x, z)
  <2>1. Meets(N, x, o)
    BY <1>1, MeetsOf
  <2>2. o \in DOMAIN N /\ N[o].kind \in Flags
    BY <1>1 DEF Stands, Flags
  <2>3. Meets(N, x, N[o].t)
    BY <2>1, <2>2, MeetsFlag
  <2> QED BY <1>1, <2>3, MeetsOf
<1>2. Joined(N, y, z) => Meets(N, x, z)
  BY MeetsOf
<1> QED BY <1>1, <1>2 DEF Flows

(* At an event they are one node. *)
LEMMA MeetsStuck ==
  ASSUME NEW N, NEW x \in DOMAIN N, NEW y, Meets(N, x, y), NEW E \in DOMAIN N, Joined(N, y, E),
         N[x].kind \notin {"forward"} \cup Flags, N[E].kind \notin {"forward"} \cup Flags
  PROVE  x = E
<1>1. Meets(N, x, E)
  BY MeetsOf
<1>2. PICK floor, l, m \in Int : Same(N, floor, x, l, E, m)
  BY <1>1 DEF Meets
<1>3. ~Passes(N, floor, x, l) /\ ~Passes(N, floor, E, m)
  BY DEF Passes, Flags
<1> QED BY <1>2, <1>3, SameStuck

(* The entries of the table and the variables of the execution.  (The *)
(* provers do not know that "" is a string.)                           *)
Names      == STRING \cup {""}
Entries(T) == [name : Names, level : Int, val : T]

(* The walk is at x with scope level l; the same place is y, where the     *)
(* execution is, at level m, the depth of its blocks being d.  A variable  *)
(* in scope is found in the table, and no scope between the two closes the *)
(* level of the entry.                                                     *)
Holder(N, tab, v, x, l, y, m, d, j) ==
  /\ j \in DOMAIN tab /\ tab[j].name = v.name
  /\ Same(N, tab[j].level, x, l, y, m) /\ tab[j].level + d - v.level <= m
Tracks(N, tab, e, x, l, y, m, d) ==
  /\ l \in Int /\ m \in Int /\ m >= 1 + d
  /\ Same(N, 0, x, l, y, m)
  /\ \A j \in DOMAIN tab : tab[j].level <= l
  /\ \A i \in DOMAIN e : \E j : Holder(N, tab, e[i], x, l, y, m, d, j)

(* The elements that are left *)
LEMMA OnlyKeeps ==
  ASSUME NEW S, NEW s \in Seq(S), NEW I \in SUBSET (DOMAIN s), NEW u, u = Only(s, I)
  PROVE  /\ u \in Seq(S) /\ DOMAIN u = 1 .. Len(u) /\ DOMAIN s = 1 .. Len(s)
         /\ \A n \in DOMAIN u : \E i \in I : u[n] = s[i]
         /\ \A i \in I : \E n \in DOMAIN u : u[n] = s[i]
         /\ \A m, n \in DOMAIN u : m # n => \E i, j \in I : i # j /\ u[m] = s[i] /\ u[n] = s[j]
<1>1. DOMAIN s = 1 .. Len(s)
  OBVIOUS
<1>2. u \in Seq(S) /\ Picked(s, I, u)
  BY <1>1, OnlyIs
<1>3. DOMAIN u = 1 .. Len(u)
  BY <1>2
<1>4. \A n \in DOMAIN u : \E i \in I : u[n] = s[i]
  BY <1>2, <1>3 DEF Picked
<1>5. \A i \in I : \E n \in DOMAIN u : u[n] = s[i]
  BY <1>2, <1>3 DEF Picked
<1>6. \A m, n \in DOMAIN u : m # n => \E i, j \in I : i # j /\ u[m] = s[i] /\ u[n] = s[j]
  BY <1>2, <1>3 DEF Picked
<1> QED BY <1>1, <1>2, <1>3, <1>4, <1>5, <1>6

(* e are the variables among o that are of depth d at most. *)
Remain(o, d, e) ==
  /\ \A n \in DOMAIN e : \E i \in DOMAIN o : o[i].level <= d /\ e[n] = o[i]
  /\ \A m, n \in DOMAIN e : m # n => \E i, j \in DOMAIN o : i # j /\ e[m] = o[i] /\ e[n] = o[j]

(* The variables left in scope are those of at most the depth of the       *)
(* frames.                                                                 *)
LEMMA OuterIs ==
  ASSUME NEW T, NEW e \in Seq(Entries(T)), NEW k
  PROVE  Outer(e, k) \in Seq(Entries(T)) /\ Remain(e, Depth(k), Outer(e, k))
<1>1. PICK I : I = {i \in DOMAIN e : e[i].level <= Depth(k)}
  OBVIOUS
<1>2. PICK u : u = Outer(e, k)
  OBVIOUS
<1>3. u = Only(e, I) /\ I \in SUBSET (DOMAIN e)
  BY <1>1, <1>2 DEF Outer
<1>4. /\ u \in Seq(Entries(T))
      /\ \A n \in DOMAIN u : \E i \in I : u[n] = e[i]
      /\ \A m, n \in DOMAIN u : m # n => \E i, j \in I : i # j /\ u[m] = e[i] /\ u[n] = e[j]
  BY <1>3, OnlyKeeps
<1>5. /\ \A n \in DOMAIN u : \E i \in DOMAIN e : e[i].level <= Depth(k) /\ u[n] = e[i]
      /\ \A m, n \in DOMAIN u : m # n => \E i, j \in DOMAIN e : i # j /\ u[m] = e[i] /\ u[n] = e[j]
  <2>1. \A i \in I : i \in DOMAIN e /\ e[i].level <= Depth(k)
    BY <1>1
  <2> QED BY <1>4, <2>1
<1> QED BY <1>2, <1>4, <1>5 DEF Remain

(* deleteScopeLevelAt leaves the entries of the other levels.              *)
LEMMA deleteIs ==
  ASSUME NEW T, table \in Seq(Entries(T)), NEW l, NEW u, u = deleteScopeLevelAt(l)
  PROVE  /\ u \in Seq(Entries(T))
         /\ \A n \in DOMAIN u : \E i \in DOMAIN table : table[i].level # l /\ u[n] = table[i]
         /\ \A i \in DOMAIN table : table[i].level # l => \E n \in DOMAIN u : u[n] = table[i]
         /\ \A m, n \in DOMAIN u :
              m # n => \E i, j \in DOMAIN table : i # j /\ u[m] = table[i] /\ u[n] = table[j]
<1>1. PICK I : I = {i \in DOMAIN table : table[i].level # l}
  OBVIOUS
<1>2. u = Only(table, I) /\ I \in SUBSET (DOMAIN table)
  BY <1>1 DEF deleteScopeLevelAt
<1>3. /\ u \in Seq(Entries(T))
      /\ \A n \in DOMAIN u : \E i \in I : u[n] = table[i]
      /\ \A i \in I : \E n \in DOMAIN u : u[n] = table[i]
      /\ \A m, n \in DOMAIN u : m # n => \E i, j \in I : i # j /\ u[m] = table[i] /\ u[n] = table[j]
  BY <1>2, OnlyKeeps
<1>4. \A i : i \in I <=> i \in DOMAIN table /\ table[i].level # l
  BY <1>1
<1> QED BY <1>3, <1>4

-----------------------------------------------------------------------------
(* The execution goes on without an event: the variables of the scopes it  *)
(* leaves are gone.                                                        *)
LEMMA TracksFlow ==
  ASSUME NEW N, NEW T, NEW tab \in Seq(Entries(T)), NEW Q, NEW e \in Seq(Entries(Q)),
         NEW x, NEW l, NEW y, NEW m, NEW d \in Nat, Tracks(N, tab, e, x, l, y, m, d),
         NEW z, NEW r, Flows(N, y, z, r), NEW k, Depth(k) = d + r, Depth(k) \in Nat
  PROVE  \E i : Tracks(N, tab, Outer(e, k), x, l, z, i, Depth(k))
<1>1. l \in Int /\ m \in Int /\ m >= 1 + d /\ Same(N, 0, x, l, y, m)
  BY DEF Tracks
<1>2. r \in {-1, 0, 1}
  BY DEF Flows
<1>3. ASSUME NEW floor, floor < m \/ r # -1, Same(N, floor, x, l, y, m)
      PROVE  Same(N, floor, x, l, z, m + r)
  <2>1. CASE r = 0
    <3>1. Joined(N, y, z)
      BY <2>1 DEF Flows
    <3>2. Same(N, floor, y, m, z, m)
      BY <1>1, <3>1, JoinedSame, Zenon
    <3>3. Same(N, floor, x, l, z, m)
      BY <1>3, <3>2, SameIs, Zenon
    <3>4. m + r = m
      BY <1>1, <2>1
    <3> QED BY <3>3, <3>4
  <2>2. CASE r # 0
    <3>1. PICK o : /\ Joined(N, y, o) /\ Joined(N, N[o].t, z) /\ o \in DOMAIN N
                   /\ \/ r = 1 /\ N[o].kind = "open"
                      \/ r = -1 /\ N[o].kind = "close"
      BY <2>2 DEF Flows, Stands
    <3>2. N[o].kind \in Flags /\ r = Rise(N[o].kind) /\ (N[o].kind = "close" => m > floor)
      BY <1>1, <1>3, <3>1 DEF Flags, Rise
    <3>3. Same(N, floor, o, m, N[o].t, m + r) /\ m + r \in Int
      BY <1>1, <3>1, <3>2, FlagSame
    <3>4. Same(N, floor, y, m, o, m) /\ Same(N, floor, N[o].t, m + r, z, m + r)
      BY <1>1, <3>1, <3>3, JoinedSame
    <3>5. \A a, b, u, v, w, c :
            Same(N, floor, a, b, u, v) /\ Same(N, floor, u, v, w, c) => Same(N, floor, a, b, w, c)
      BY SameIs, Zenon
    <3> QED BY <1>3, <3>3, <3>4, <3>5
  <2> QED BY <2>1, <2>2
<1>4. m + r \in Int /\ m + r >= 1 + Depth(k)
  BY <1>1, <1>2
<1>5. Same(N, 0, x, l, z, m + r)
  <2>1. 0 < m
    BY <1>1
  <2> QED BY <1>1, <1>3, <2>1
<1>6. \A j \in DOMAIN tab : tab[j].level <= l
  BY DEF Tracks
<1>7. ASSUME NEW n \in DOMAIN Outer(e, k)
      PROVE  \E j : Holder(N, tab, Outer(e, k)[n], x, l, z, m + r, Depth(k), j)
  <2>0. \A w \in DOMAIN Outer(e, k) :
          \E i \in DOMAIN e : e[i].level <= Depth(k) /\ Outer(e, k)[w] = e[i]
    <3>1. Remain(e, Depth(k), Outer(e, k))
      BY OuterIs, Zenon
    <3> QED BY <3>1 DEF Remain
  <2>1. PICK i \in DOMAIN e : e[i].level <= Depth(k) /\ Outer(e, k)[n] = e[i]
    BY <1>7, <2>0
  <2>2. PICK j : Holder(N, tab, e[i], x, l, y, m, d, j)
    BY DEF Tracks
  <2>3. /\ j \in DOMAIN tab /\ tab[j].name = e[i].name
        /\ Same(N, tab[j].level, x, l, y, m) /\ tab[j].level + d - e[i].level <= m
    BY <2>2 DEF Holder
  <2>4. e[i].level \in Int /\ tab[j].level \in Int
    <3>1. e[i] \in Entries(Q) /\ tab[j] \in Entries(T)
      BY <2>1, <2>3
    <3> QED BY <3>1 DEF Entries
  <2>5. tab[j].level + Depth(k) - e[i].level <= m + r
    BY <1>1, <1>2, <2>3, <2>4
  <2>6. r = -1 => tab[j].level < m
    BY <1>1, <2>1, <2>3, <2>4
  <2>7. Same(N, tab[j].level, x, l, z, m + r)
    BY <1>2, <1>3, <2>3, <2>6
  <2>8. Holder(N, tab, e[i], x, l, z, m + r, Depth(k), j)
    BY <2>3, <2>5, <2>7 DEF Holder
  <2> QED BY <2>1, <2>8
<1>8. Tracks(N, tab, Outer(e, k), x, l, z, m + r, Depth(k))
  BY <1>1, <1>4, <1>5, <1>6, <1>7 DEF Tracks
<1> QED BY <1>8

(* A scope the execution is in is not closed on the path. *)
LEMMA CloseAbove ==
  ASSUME NEW N, NEW x \in DOMAIN N, N[x].kind = "close", NEW floor, NEW l \in Int,
         NEW y, NEW m \in Int, Same(N, floor, x, l, y, m),
         NEW E \in DOMAIN N, Joined(N, y, E), N[E].kind \notin {"forward"} \cup Flags
  PROVE  l > floor
<1>1. SUFFICES ASSUME ~(l > floor) PROVE FALSE
  OBVIOUS
<1>2. Same(N, floor, y, m, E, m)
  BY JoinedSame
<1>3. Same(N, floor, x, l, E, m)
  BY <1>2, SameIs
<1>4. ~Passes(N, floor, x, l)
  BY <1>1 DEF Passes
<1>5. ~Passes(N, floor, E, m)
  BY DEF Passes, Flags
<1>6. x = E
  BY <1>3, <1>4, <1>5, SameStuck
<1> QED BY <1>6 DEF Flags

(* The path passes a flag, the execution being at an event. *)
LEMMA TracksFlag ==
  ASSUME NEW N, NEW T, table \in Seq(Entries(T)), NEW e,
         NEW x \in DOMAIN N, N[x].kind \in Flags, NEW l, NEW y, NEW m, NEW d,
         Tracks(N, table, e, x, l, y, m, d),
         NEW E \in DOMAIN N, Joined(N, y, E), N[E].kind \notin {"forward"} \cup Flags,
         NEW z, Joined(N, N[x].t, z),
         NEW tab, tab = IF N[x].kind = "close" THEN deleteScopeLevelAt(l) ELSE table
  PROVE  Tracks(N, tab, e, z, l + Rise(N[x].kind), y, m, d) /\ tab \in Seq(Entries(T))
<1>1. PICK r : r = Rise(N[x].kind)
  OBVIOUS
<1>2. l \in Int /\ m \in Int /\ m >= 1 + d /\ Same(N, 0, x, l, y, m)
  BY DEF Tracks
<1>3. r \in {-1, 0, 1} /\ (N[x].kind = "close" => r = -1) /\ (N[x].kind # "close" => r >= 0) /\ l + r \in Int
  BY <1>1, <1>2 DEF Rise
<1>4. ASSUME NEW floor, Same(N, floor, x, l, y, m)
      PROVE  Same(N, floor, z, l + r, y, m) /\ (N[x].kind = "close" => l > floor)
  <2>1. N[x].kind = "close" => l > floor
    BY <1>2, <1>4, CloseAbove
  <2>2. Same(N, floor, N[x].t, l + r, x, l)
    BY <1>1, <1>2, <2>1, FlagSame
  <2>3. Joined(N, z, N[x].t)
    BY JoinedIs
  <2>4. Same(N, floor, z, l + r, N[x].t, l + r)
    BY <1>3, <2>3, JoinedSame
  <2>5. \A a, b, u, v, w, c :
          Same(N, floor, a, b, u, v) /\ Same(N, floor, u, v, w, c) => Same(N, floor, a, b, w, c)
    BY SameIs, Zenon
  <2>6. Same(N, floor, z, l + r, x, l)
    BY <2>2, <2>4, <2>5
  <2>7. Same(N, floor, z, l + r, y, m)
    BY <1>4, <2>5, <2>6
  <2> QED BY <2>1, <2>7
<1>5. Same(N, 0, z, l + r, y, m)
  BY <1>2, <1>4
<1>6. /\ tab \in Seq(Entries(T))
      /\ \A n \in DOMAIN tab : \E i \in DOMAIN table :
           tab[n] = table[i] /\ (N[x].kind = "close" => table[i].level # l)
      /\ \A i \in DOMAIN table : N[x].kind # "close" \/ table[i].level # l =>
           \E n \in DOMAIN tab : tab[n] = table[i]
  <2>1. CASE N[x].kind # "close"
    BY <2>1
  <2>2. CASE N[x].kind = "close"
    BY <2>2, deleteIs
  <2> QED BY <2>1, <2>2
<1>7. ASSUME NEW j \in DOMAIN tab PROVE tab[j].level <= l + r
  <2>1. PICK i \in DOMAIN table : tab[j] = table[i] /\ (N[x].kind = "close" => table[i].level # l)
    BY <1>6, <1>7
  <2>2. table[i] \in Entries(T)
    BY <2>1
  <2>3. table[i].level \in Int /\ table[i].level <= l
    BY <2>1, <2>2 DEF Tracks, Entries
  <2> QED BY <1>2, <1>3, <2>1, <2>3
<1>8. ASSUME NEW i \in DOMAIN e
      PROVE  \E j : Holder(N, tab, e[i], z, l + r, y, m, d, j)
  <2>1. PICK j : Holder(N, table, e[i], x, l, y, m, d, j)
    BY <1>8 DEF Tracks
  <2>2. /\ j \in DOMAIN table /\ table[j].name = e[i].name
        /\ Same(N, table[j].level, x, l, y, m) /\ table[j].level + d - e[i].level <= m
    BY <2>1 DEF Holder
  <2>3. Same(N, table[j].level, z, l + r, y, m) /\ (N[x].kind = "close" => l > table[j].level)
    BY <1>4, <2>2
  <2>4. N[x].kind # "close" \/ table[j].level # l
    BY <1>2, <2>3
  <2>5. PICK n \in DOMAIN tab : tab[n] = table[j]
    BY <1>6, <2>2, <2>4
  <2>6. Holder(N, tab, e[i], z, l + r, y, m, d, n)
    BY <2>2, <2>3, <2>5 DEF Holder
  <2> QED BY <2>6
<1>9. Tracks(N, tab, e, z, l + r, y, m, d)
  BY <1>2, <1>3, <1>5, <1>7, <1>8 DEF Tracks
<1> QED BY <1>1, <1>6, <1>9

(* At an event the levels are equal. *)
LEMMA TracksEvent ==
  ASSUME NEW N, NEW tab, NEW e, NEW l, NEW y, NEW m, NEW d,
         NEW E \in DOMAIN N, Joined(N, y, E), N[E].kind \notin {"forward"} \cup Flags,
         Tracks(N, tab, e, E, l, y, m, d)
  PROVE  l = m /\ l \in Int /\ l >= 1 + d
<1>1. l \in Int /\ m \in Int /\ m >= 1 + d /\ Same(N, 0, E, l, y, m)
  BY DEF Tracks
<1>2. Same(N, 0, y, m, E, m)
  BY <1>1, JoinedSame
<1>3. Same(N, 0, E, l, E, m)
  BY <1>1, <1>2, SameIs
<1>4. ~Passes(N, 0, E, l) /\ ~Passes(N, 0, E, m)
  BY DEF Passes, Flags
<1>5. l = m
  BY <1>1, <1>3, <1>4, SameStuck
<1> QED BY <1>1, <1>5

(* After it they are, if every variable in scope has an entry. *)
Covers(tab, e, l, D) ==
  /\ \A j \in DOMAIN tab : tab[j].level <= l
  /\ \A i \in DOMAIN e : \E j \in DOMAIN tab :
       tab[j].name = e[i].name /\ tab[j].level + D - e[i].level <= l

(* The table tracks the scopes at a node where every variable in scope has *)
(* an entry.                                                               *)
LEMMA TracksOn ==
  ASSUME NEW N, NEW tab, NEW e, NEW l \in Int, NEW D, l >= 1 + D, Covers(tab, e, l, D),
         NEW z, NEW w, Joined(N, z, w)
  PROVE  Tracks(N, tab, e, z, l, w, l, D)
<1>1. \A floor : Same(N, floor, z, l, w, l)
  BY JoinedSame
<1>2. ASSUME NEW i \in DOMAIN e PROVE \E j : Holder(N, tab, e[i], z, l, w, l, D, j)
  <2>1. PICK j \in DOMAIN tab : tab[j].name = e[i].name /\ tab[j].level + D - e[i].level <= l
    BY DEF Covers
  <2>2. Holder(N, tab, e[i], z, l, w, l, D, j)
    BY <1>1, <2>1 DEF Holder
  <2> QED BY <2>2
<1> QED BY <1>1, <1>2 DEF Tracks, Covers

(* While the table tracks the scopes every variable in scope has an entry. *)
LEMMA TracksCovers ==
  ASSUME NEW N, NEW tab, NEW e, NEW x, NEW l, NEW y, NEW d,
         Tracks(N, tab, e, x, l, y, l, d)
  PROVE  Covers(tab, e, l, d)
BY DEF Tracks, Covers, Holder

(* n is o but for the value v at a *)
Sets(o, n, a, v) ==
  /\ DOMAIN n = DOMAIN o
  /\ \A i \in DOMAIN o : /\ n[i].name = o[i].name /\ n[i].level = o[i].level
                         /\ n[i].val = IF i = a THEN v ELSE o[i].val

(* Setting a value leaves names, levels and the other values alone.        *)
LEMMA SetOne ==
  ASSUME NEW Q, NEW o \in Seq(Entries(Q)), NEW a, NEW v, NEW n, n = [o EXCEPT ![a].val = v],
         NEW R, Q \subseteq R, v \in R
  PROVE  n \in Seq(Entries(R)) /\ Sets(o, n, a, v)
<1>1. DOMAIN n = DOMAIN o /\ DOMAIN o = 1 .. Len(o) /\ Len(o) \in Nat
  OBVIOUS
<1>2. ASSUME NEW i \in DOMAIN o
      PROVE  /\ n[i].name = o[i].name /\ n[i].level = o[i].level
             /\ n[i].val = IF i = a THEN v ELSE o[i].val
             /\ n[i] \in Entries(R)
  <2>1. o[i] \in Entries(Q)
    BY <1>2
  <2>2. PICK r : r = o[i]
    OBVIOUS
  <2>3. n[i] = IF i = a THEN [r EXCEPT !.val = v] ELSE r
    BY <1>2, <2>2
  <2>4. r \in Entries(Q)
    BY <2>1, <2>2
  <2>5. r \in Entries(R)
    BY <2>4 DEF Entries
  <2>6. PICK q : q = [r EXCEPT !.val = v]
    OBVIOUS
  <2>7. q \in Entries(R) /\ q.name = r.name /\ q.level = r.level /\ q.val = v
    BY <2>5, <2>6 DEF Entries
  <2>8. n[i] = IF i = a THEN q ELSE r
    BY <2>3, <2>6
  <2> QED BY <2>2, <2>5, <2>7, <2>8
<1>3. n \in Seq(Entries(R))
  <2>1. n = [i \in 1 .. Len(o) |-> n[i]]
    BY <1>1
  <2>2. PICK m : m = Len(o)
    OBVIOUS
  <2>3. m \in Nat /\ n = [i \in 1 .. m |-> n[i]] /\ \A i \in 1 .. m : n[i] \in Entries(R)
    BY <1>1, <1>2, <2>1, <2>2
  <2> QED BY <2>3, SeqOf, Zenon
<1>4. Sets(o, n, a, v)
  BY <1>1, <1>2 DEF Sets
<1> QED BY <1>3, <1>4

(* The first and the last of some places *)
LEMMA FirstLast ==
  ASSUME NEW S \in SUBSET Nat
  PROVE  /\ S # {} => FirstOf(S) \in S
         /\ \A i : S = {i} => LastOf(S) = i
<1>1. S # {} => FirstOf(S) \in S
  BY LeastOk DEF FirstOf
<1>2. ASSUME NEW i, S = {i} PROVE LastOf(S) = i
  <2>1. i \in Nat /\ i \in S /\ \A j \in S : j = i
    BY <1>2
  <2>2. \E g \in S : \A j \in S : g >= j
    BY <2>1
  <2>3. LastOf(S) \in S
    BY <2>2 DEF LastOf
  <2> QED BY <2>1, <2>3
<1> QED BY <1>1, <1>2

(* Assigning sets the value of one entry of that name, if there is one.    *)
LEMMA AssignedIs ==
  ASSUME NEW T, NEW tab \in Seq(Entries(T)), NEW name, NEW v \in T, NEW new, new = Assigned(tab, name, v)
  PROVE  /\ new \in Seq(Entries(T))
         /\ \E a : /\ Sets(tab, new, a, v)
                   /\ a \in DOMAIN tab => tab[a].name = name
                   /\ a \notin DOMAIN tab => \A i \in DOMAIN tab : tab[i].name # name
<1>1. PICK S : S = {i \in DOMAIN tab : tab[i].name = name}
  OBVIOUS
<1>2. CASE S = {}
  <2>1. new = tab
    BY <1>1, <1>2 DEF Assigned
  <2>2. DOMAIN tab = 1 .. Len(tab) /\ Len(tab) \in Nat
    OBVIOUS
  <2>3. Sets(tab, new, 0, v) /\ 0 \notin DOMAIN tab
    BY <2>1, <2>2 DEF Sets
  <2>4. \A i \in DOMAIN tab : tab[i].name # name
    BY <1>1, <1>2
  <2> QED BY <2>1, <2>3, <2>4
<1>3. CASE S # {}
  <2>1. PICK a : a = FirstOf(S)
    OBVIOUS
  <2>2. a \in S
    <3>1. S \in SUBSET (DOMAIN tab) /\ DOMAIN tab = 1 .. Len(tab) /\ Len(tab) \in Nat
      BY <1>1
    <3>2. S \in SUBSET Nat
      BY <3>1
    <3> QED BY <1>3, <2>1, <3>2, FirstLast
  <2>3. new = [tab EXCEPT ![a].val = v]
    BY <1>1, <1>3, <2>1 DEF Assigned
  <2>4. new \in Seq(Entries(T)) /\ Sets(tab, new, a, v)
    BY <2>3, SetOne
  <2> QED BY <1>1, <2>2, <2>4
<1> QED BY <1>2, <1>3

Vals  == [in : Names, off : Int]
Zero  == [in |-> "", off |-> 0]

(* Adding a variable adds an entry unless there is one of that name.       *)
LEMMA AddedIs ==
  ASSUME table \in Seq(Entries(Vals)), NEW name \in Names, NEW l \in Int, NEW new, new = Added(name, l)
  PROVE  /\ new \in Seq(Entries(Vals)) /\ DOMAIN table \subseteq DOMAIN new
         /\ \A i \in DOMAIN table : new[i] = table[i]
         /\ \A i \in DOMAIN new :
              \/ i \in DOMAIN table
              \/ /\ new[i] = [name |-> name, level |-> l, val |-> Zero]
                 /\ i = Len(table) + 1 /\ \A j \in DOMAIN table : table[j].name # name
         /\ \E i \in DOMAIN new : new[i].name = name
<1>1. CASE Found(name) # {}
  <2>1. new = table
    BY <1>1 DEF Added
  <2> QED BY <1>1, <2>1 DEF Found
<1>2. CASE Found(name) = {}
  <2>1. PICK r : r = [name |-> name, level |-> l, val |-> Zero]
    OBVIOUS
  <2>2. new = Append(table, r)
    BY <1>2, <2>1 DEF Added, Zero
  <2>3. r \in Entries(Vals) /\ r.name = name
    <3>1. Zero \in Vals
      <4>1. PICK z : z = ""
        OBVIOUS
      <4>2. z \in Names
        BY <4>1 DEF Names
      <4>3. [in |-> z, off |-> 0] \in Vals
        BY <4>2 DEF Vals
      <4> QED BY <4>1, <4>3 DEF Zero
    <3> QED BY <2>1, <3>1 DEF Entries
  <2>4. /\ new \in Seq(Entries(Vals)) /\ Len(new) = Len(table) + 1 /\ Len(table) \in Nat
        /\ DOMAIN new = 1 .. Len(table) + 1 /\ DOMAIN table = 1 .. Len(table)
        /\ new[Len(table) + 1] = r /\ \A i \in DOMAIN table : new[i] = table[i]
    BY <2>2, <2>3
  <2>5. \A j \in DOMAIN table : table[j].name # name
    BY <1>2 DEF Found
  <2>6. \A i \in DOMAIN new : i \in DOMAIN table \/ i = Len(table) + 1
    BY <2>4
  <2>7. Len(table) + 1 \in DOMAIN new /\ DOMAIN table \subseteq DOMAIN new
    BY <2>4
  <2> QED BY <2>1, <2>3, <2>4, <2>5, <2>6, <2>7
<1> QED BY <1>1, <1>2

GraphInv == IInv /\ LaidOut

(* What has been built stays. *)
LEMMA BuiltStays ==
  ASSUME IInv, phase = "built"
  PROVE  ~CfgNext
<1>1. agenda = <<>>
  BY DEF IInv
<1>2. ~(VisitIf \/ VisitNothing \/ VisitBlock \/ VisitFor \/ Iterate \/ ForFails)
  BY DEF VisitIf, VisitNothing, VisitBlock, VisitFor, Iterate, ForFails, Visits
<1>3. ~(VisitWhile \/ VisitDo \/ VisitSwitch \/ VisitJump \/ VisitLabel \/ VisitTry \/ VisitCatch \/ VisitSimple)
  BY DEF VisitWhile, VisitDo, VisitSwitch, VisitJump, VisitLabel, VisitTry, VisitCatch, VisitSimple, Visits
<1>4. ~LinkStatement
  BY DEF LinkStatement, StartLink, LinkRoot, NextConcrete, FinishLink
<1> QED BY <1>2, <1>3, <1>4 DEF CfgNext, VisitStatement

(* The graph of a function that is executed as it stands *)
Walkable ==
  /\ stmList \subseteq DOMAIN nodes /\ BEGIN \in stmList /\ 0 \notin stmList
  /\ \A n \in stmList : /\ nodes[n].kind # "forward"
                        /\ nodes[n].kind # "end" => nodes[n].t \in stmList /\ nodes[n].f \in stmList
  /\ \E N, V : Finished(fn, N, V) /\ Reflects(N)

(* A graph that has been built for a Regular function can be walked.       *)
LEMMA WalkableOk ==
  ASSUME GraphInv, Regular(fn), phase = "built"
  PROVE  Walkable
<1>1. IInv /\ LaidOut /\ Shape /\ agenda = <<>>
  BY DEF GraphInv, IInv
<1>2. /\ DOMAIN nodes = 1 .. Len(nodes) /\ Len(nodes) \in Nat /\ stmList \subseteq 1 .. Len(nodes)
      /\ fn \in Functions /\ nodes[END].kind = "end"
      /\ DOMAIN labels = Stms
  BY <1>1 DEF Shape
<1>3. /\ \A s \in Stms : labels[s] = 0
      /\ ToReach(BEGIN) /\ \E N, V : Lays(fn, N, V, <<>>) /\ Reflects(N)
  BY <1>1 DEF LaidOut
<1>4. LabelsVisited
  BY <1>2, <1>3 DEF LabelsVisited
<1>5. \A n \in stmList : /\ nodes[n].kind # "forward"
                         /\ n # END => {nodes[n].t, nodes[n].f} \subseteq stmList
  BY <1>1, <1>4, ClosedOk DEF GraphClosed
<1>6. BEGIN \in stmList
  BY <1>1, <1>3 DEF ToReach, Items
<1>7. \E N, V : Finished(fn, N, V) /\ Reflects(N)
  BY <1>2, <1>3 DEF Finished
<1>8. 0 \notin stmList
  BY <1>2
<1> QED BY <1>2, <1>5, <1>6, <1>7, <1>8 DEF Walkable

-----------------------------------------------------------------------------
(* The execution with the frames k is at place y = P[Len(k)], where the    *)
(* path is that has reached node x.                                        *)
StandsAt(N, V, P, x, k) ==
  Finished(fn, N, V) /\ Reflects(N) /\ Placed(fn, N, V, k, P) /\ Meets(N, x, P[Len(k)])

(* The invariant of the walk: the execution stands where the path is, and  *)
(* while the table is in use it tracks the scopes.                         *)
WalkInv ==
  at # 0 /\ NoGoto(fn) =>
    /\ Regular(fn) /\ phase = "built" /\ at \in stmList
    /\ table \in Seq(Entries(Vals)) /\ \E T : env \in Seq(Entries(T))
    /\ \E N, V, P :
         /\ StandsAt(N, V, P, at, control)
         /\ Running => \E m : Tracks(N, table, env, at, scopeLevel, P[Len(control)], m, Depth(control))

(* Node x of the graph is where it was laid out. *)
LEMMA ReflectsIs ==
  ASSUME NEW N, Reflects(N), NEW x \in DOMAIN nodes
  PROVE  /\ x \in DOMAIN N /\ N[x].kind = nodes[x].kind /\ N[x].stm = nodes[x].stm
         /\ Joined(N, N[x].t, nodes[x].t) /\ Joined(N, N[x].f, nodes[x].f)
BY DEF Reflects

(* At an event the node reached is the one of the event. *)
LEMMA EventNode ==
  ASSUME GraphInv, Regular(fn), phase = "built", at \in stmList,
         NEW N, NEW V, NEW P, StandsAt(N, V, P, at, control), AtEvent
  PROVE  /\ Shows(fn, N, V, control, P[Len(control)], at) /\ Agrees
         /\ Joined(N, P[Len(control)], at)
         /\ at \in DOMAIN N /\ N[at].kind = nodes[at].kind /\ N[at].stm = nodes[at].stm
         /\ N[at].kind \notin {"forward"} \cup Flags
         /\ Joined(N, N[at].t, nodes[at].t) /\ Joined(N, N[at].f, nodes[at].f)
<1>1. Finished(fn, N, V) /\ Reflects(N) /\ Placed(fn, N, V, control, P) /\ Meets(N, at, P[Len(control)])
  BY DEF StandsAt
<1>2. ~IsSilent(fn, control) /\ nodes[at].kind \notin Flags
  BY DEF AtEvent, Flags
<1>3. PICK E : Shows(fn, N, V, control, P[Len(control)], E)
  BY <1>1, <1>2, ShowsOk
<1>4. Walkable
  BY WalkableOk
<1>5. at \in DOMAIN nodes /\ nodes[at].kind # "forward"
  BY <1>4 DEF Walkable
<1>6. /\ at \in DOMAIN N /\ N[at].kind = nodes[at].kind /\ N[at].stm = nodes[at].stm
      /\ Joined(N, N[at].t, nodes[at].t) /\ Joined(N, N[at].f, nodes[at].f)
  BY <1>1, <1>5, ReflectsIs
<1>7. /\ E \in DOMAIN N /\ Joined(N, P[Len(control)], E)
      /\ N[E].kind \notin {"forward"} \cup Flags
      /\ N[E].kind = EventOf(fn, control).kind /\ N[E].stm = EventOf(fn, control).stm
  BY <1>3 DEF Shows, Flags
<1>8. at = E
  BY <1>1, <1>2, <1>5, <1>6, <1>7, MeetsStuck
<1>9. Agrees
  <2>1. EventOf(fn, control) = [kind |-> EventOf(fn, control).kind, stm |-> EventOf(fn, control).stm]
    BY DEF EventOf
  <2> QED BY <1>6, <1>7, <1>8, <2>1 DEF Agrees
<1> QED BY <1>2, <1>3, <1>5, <1>6, <1>7, <1>8, <1>9

(* What has to be shown of a step of the walk *)
LEMMA WalkNext ==
  ASSUME UNCHANGED cfgVars, Regular(fn), phase = "built", at' \in stmList,
         table' \in Seq(Entries(Vals)), NEW T, env' \in Seq(Entries(T)),
         NEW N, NEW V, NEW P, StandsAt(N, V, P, at', control'),
         Running' => \E m : Tracks(N, table', env', at', scopeLevel', P[Len(control')], m, Depth(control'))
  PROVE  WalkInv'
<1>1. /\ fn' = fn /\ nodes' = nodes /\ agenda' = agenda /\ stmList' = stmList /\ phase' = phase
  BY DEF cfgVars
<1>2. Finished(fn, N, V) /\ Reflects(N) /\ Placed(fn, N, V, control', P) /\ Meets(N, at', P[Len(control')])
  BY DEF StandsAt
<1>3. Reflects(N)'
  BY <1>1, <1>2 DEF Reflects
<1>4. StandsAt(N, V, P, at, control)'
  BY <1>1, <1>2, <1>3 DEF StandsAt
<1> QED BY <1>1, <1>4 DEF WalkInv

(* The first entries are the parameters, each with its input.              *)
LEMMA ParametersOk ==
  ASSUME NEW f \in Functions
  PROVE  /\ Parameters(f) \in Seq(Entries(Vals)) /\ DOMAIN Parameters(f) = DOMAIN f.params
         /\ \A i \in DOMAIN f.params :
              /\ Parameters(f)[i].name = f.params[i] /\ Parameters(f)[i].level = 0
              /\ Parameters(f)[i].val = [in |-> f.params[i], off |-> 0]
<1>1. f.params \in Seq(STRING \ {""})
  BY DataAssumption
<1>2. /\ DOMAIN f.params = 1 .. Len(f.params) /\ Len(f.params) \in Nat
      /\ \A i \in 1 .. Len(f.params) : f.params[i] \in Names
  <2>1. ASSUME NEW S, NEW p \in Seq(S)
        PROVE  DOMAIN p = 1 .. Len(p) /\ Len(p) \in Nat /\ \A i \in 1 .. Len(p) : p[i] \in S
    BY <2>1
  <2>2. /\ DOMAIN f.params = 1 .. Len(f.params) /\ Len(f.params) \in Nat
        /\ \A i \in 1 .. Len(f.params) : f.params[i] \in STRING \ {""}
    BY <1>1, <2>1
  <2> QED BY <2>2 DEF Names
<1>3. PICK g : g = Parameters(f)
  OBVIOUS
<1>4. g = [i \in 1 .. Len(f.params) |-> [name |-> f.params[i], level |-> 0,
                                         val |-> [in |-> f.params[i], off |-> 0]]]
  BY <1>2, <1>3 DEF Parameters, GLOBAL_SCOPE
<1>5. ASSUME NEW i \in 1 .. Len(f.params)
      PROVE  g[i] \in Entries(Vals)
  <2>1. PICK s : s = f.params[i]
    OBVIOUS
  <2>2. s \in Names
    BY <1>2, <1>5, <2>1
  <2>3. PICK v : v = [in |-> s, off |-> 0]
    OBVIOUS
  <2>4. v \in Vals
    BY <2>2, <2>3 DEF Vals
  <2>5. [name |-> s, level |-> 0, val |-> v] \in Entries(Vals)
    BY <2>2, <2>4 DEF Entries
  <2>6. g[i] = [name |-> s, level |-> 0, val |-> v]
    BY <1>4, <1>5, <2>1, <2>3
  <2> QED BY <2>5, <2>6
<1>6. g \in Seq(Entries(Vals))
  <2>1. PICK m : m = Len(f.params)
    OBVIOUS
  <2>2. m \in Nat /\ g = [i \in 1 .. m |-> g[i]] /\ \A i \in 1 .. m : g[i] \in Entries(Vals)
    BY <1>2, <1>4, <1>5, <2>1
  <2> QED BY <2>2, SeqOf
<1>7. \A i \in DOMAIN f.params :
        /\ g[i].name = f.params[i] /\ g[i].level = 0 /\ g[i].val = [in |-> f.params[i], off |-> 0]
  BY <1>2, <1>4
<1>8. DOMAIN g = DOMAIN f.params
  BY <1>2, <1>4
<1> QED BY <1>3, <1>6, <1>7, <1>8

(* The start of the symbolic execution establishes the invariant of the    *)
(* walk.                                                                   *)
LEMMA WalkStart ==
  ASSUME GraphInv, NoGoto(fn), Start
  PROVE  WalkInv'
<1>1. /\ phase = "built" /\ Regular(fn) /\ at' = BEGIN /\ control' = <<Frame("run", fn.body)>>
      /\ env' = Parameters(fn) /\ table' = Parameters(fn) /\ scopeLevel' = 1
      /\ UNCHANGED cfgVars
  BY DEF Start, Regular
<1>2. Walkable
  BY <1>1, WalkableOk
<1>3. PICK N, V : Finished(fn, N, V) /\ Reflects(N)
  BY <1>2 DEF Walkable
<1>4. BEGIN \in stmList /\ BEGIN \in DOMAIN nodes
  BY <1>2 DEF Walkable
<1>5. /\ fn \in Functions /\ Root(fn) \in V /\ BEGIN \in DOMAIN N /\ N[BEGIN].kind = "begin"
  BY <1>3 DEF Finished, Lays
<1>6. WellFormed(fn)
  BY <1>5, FunctionsAssumption
<1>7. fn.body \in DOMAIN fn.ast /\ fn.ast[fn.body].within = {} /\ fn.body # 0
  <2>1. PICK S : S = 1 .. Len(fn.ast)
    OBVIOUS
  <2>2. DOMAIN fn.ast = S /\ fn.body \in S /\ fn.ast[fn.body].within = {}
    BY <1>6, <2>1, Zenon DEF WellFormed
  <2> QED BY <2>1, <2>2
<1>8. PICK P : P = [h \in Nat |-> IF h = 0 THEN END ELSE N[BEGIN].t]
  OBVIOUS
<1>9. P[0] = END /\ P[1] = N[BEGIN].t
  BY <1>8
<1>10. PICK k : k = <<Frame("run", fn.body)>>
  OBVIOUS
<1>11. k \in Seq(Frames(fn)) /\ Depth(k) = 0 /\ Len(k) = 1 /\ k[1] = Frame("run", fn.body)
  <2>1. <<Frame("run", fn.body)>> \in Seq(Frames(fn)) /\ Depth(<<Frame("run", fn.body)>>) = 0
    BY <1>7, EnteredTuples, Zenon
  <2>2. k \in Seq(Frames(fn)) /\ Depth(k) = 0
    BY <1>10, <2>1, Zenon
  <2> QED BY <1>10, <2>2
<1>12. PICK K : K = Heights(k)
  OBVIOUS
<1>13. K[1] = Frame("run", fn.body)
  BY <1>11, <1>12 DEF Heights
<1>14. Sits(fn, N, V, K, P, 1)
  <2>1. /\ Root(fn).do = "visit" /\ Root(fn).stm = fn.body /\ Root(fn).begin = BEGIN
        /\ Root(fn).end = END
    BY CalledParts DEF Root
  <2>2. Joined(N, P[1], N[BEGIN].t) /\ Joined(N, END, P[0])
    BY <1>9, JoinedIs
  <2>3. Made(N, V, "visit", fn.body, P[1], P[1 - 1], Root(fn))
    BY <1>5, <2>1, <2>2 DEF Made
  <2>4. Jumps(fn, N, K, P, 1, fn.body, Root(fn).break, Root(fn).continue)
    BY <1>7 DEF Jumps, Within
  <2>5. K[1].at = "run" /\ K[1].stm = fn.body
    BY <1>13, FrameIs
  <2> QED BY <2>3, <2>4, <2>5, SitsIs
<1>15. Placed(fn, N, V, k, P)
  <2>1. \A h \in 1 .. Len(k) : h = 1
    BY <1>11
  <2> QED BY <1>9, <1>11, <1>12, <1>14, <2>1 DEF Placed
<1>16. Meets(N, BEGIN, P[Len(k)])
  <2>1. Meets(N, BEGIN, BEGIN)
    BY JoinedIs, MeetsOf
  <2>2. N[BEGIN].kind \in Flags
    BY <1>5 DEF Flags
  <2>3. Meets(N, BEGIN, N[BEGIN].t)
    BY <1>5, <2>1, <2>2, MeetsFlag
  <2> QED BY <1>9, <1>11, <2>3
<1>17. StandsAt(N, V, P, BEGIN, k)
  BY <1>3, <1>15, <1>16 DEF StandsAt
<1>18. Tracks(N, Parameters(fn), Parameters(fn), BEGIN, 1, P[Len(k)], 1, 0)
  <2>1. ASSUME NEW floor PROVE Same(N, floor, BEGIN, 1, P[Len(k)], 1)
    <3>1. N[BEGIN].kind \in Flags /\ N[BEGIN].kind # "close" /\ 1 + Rise(N[BEGIN].kind) = 1
      BY <1>5 DEF Flags, Rise
    <3>2. Same(N, floor, BEGIN, 1, N[BEGIN].t, 1 + Rise(N[BEGIN].kind))
      BY <1>5, <3>1, FlagSame
    <3> QED BY <1>9, <1>11, <3>1, <3>2
  <2>2. PICK tab : tab = Parameters(fn)
    OBVIOUS
  <2>3. \A i \in DOMAIN tab : tab[i].level = 0
    BY <1>5, <2>2, ParametersOk
  <2>4. \A i \in DOMAIN tab : Holder(N, tab, tab[i], BEGIN, 1, P[Len(k)], 1, 0, i)
    BY <2>1, <2>3 DEF Holder
  <2>5. Tracks(N, tab, tab, BEGIN, 1, P[Len(k)], 1, 0)
    BY <2>1, <2>3, <2>4 DEF Tracks
  <2> QED BY <2>2, <2>5
<1>19. Parameters(fn) \in Seq(Entries(Vals))
  BY <1>5, ParametersOk
<1>20. StandsAt(N, V, P, at', control')
  BY <1>1, <1>10, <1>17
<1>21. Running' => \E m : Tracks(N, table', env', at', scopeLevel', P[Len(control')], m, Depth(control'))
  BY <1>1, <1>10, <1>11, <1>18
<1> QED BY <1>1, <1>4, <1>19, <1>20, <1>21, WalkNext

(* What WalkInv says of a state *)
LEMMA WalkIs ==
  ASSUME WalkInv, NoGoto(fn), at # 0
  PROVE  /\ Regular(fn) /\ phase = "built" /\ at \in stmList
         /\ table \in Seq(Entries(Vals)) /\ \E T : env \in Seq(Entries(T))
         /\ \E N, V, P :
              /\ StandsAt(N, V, P, at, control)
              /\ Running => \E m : Tracks(N, table, env, at, scopeLevel, P[Len(control)], m, Depth(control))
BY DEF WalkInv

(* A silent step of the execution preserves it.                            *)
LEMMA WalkSettle ==
  ASSUME GraphInv, WalkInv, NoGoto(fn), Settle
  PROVE  WalkInv'
<1>1. /\ at # 0 /\ IsSilent(fn, control) /\ control' = Silently(fn, control)
      /\ env' = Outer(env, control')
      /\ UNCHANGED cfgVars /\ at' = at /\ table' = table /\ scopeLevel' = scopeLevel
      /\ (Running' <=> Running)
  BY DEF Settle, Leave, seVars, Running
<1>2. /\ Regular(fn) /\ phase = "built" /\ at \in stmList /\ table \in Seq(Entries(Vals))
  BY <1>1, WalkIs
<1>3. PICK T : env \in Seq(Entries(T))
  BY <1>1, WalkIs
<1>4. PICK N, V, P :
        /\ StandsAt(N, V, P, at, control)
        /\ Running => \E m : Tracks(N, table, env, at, scopeLevel, P[Len(control)], m, Depth(control))
  BY <1>1, WalkIs
<1>5. /\ Finished(fn, N, V) /\ Reflects(N) /\ Placed(fn, N, V, control, P)
      /\ Meets(N, at, P[Len(control)]) /\ control # <<>>
  BY <1>1, <1>4 DEF StandsAt, IsSilent
<1>6. PICK k : k = Silently(fn, control)
  OBVIOUS
<1>7. PICK r : r = RiseOf(fn, control)
  OBVIOUS
<1>8. PICK Q : Placed(fn, N, V, k, Q) /\ Flows(N, P[Len(control)], Q[Len(k)], r)
  BY <1>1, <1>5, <1>6, <1>7, SettleOk DEF Settles
<1>9. Depth(k) = Depth(control) + r /\ Depth(k) \in Nat /\ Depth(control) \in Nat
  BY <1>1, <1>5, <1>6, <1>7, DepthSilently
<1>10. StandsAt(N, V, Q, at, k)
  <2>1. Meets(N, at, Q[Len(k)])
    BY <1>5, <1>8, MeetsFlow
  <2> QED BY <1>5, <1>8, <2>1 DEF StandsAt
<1>11. ASSUME Running
       PROVE  \E m : Tracks(N, table, Outer(env, k), at, scopeLevel, Q[Len(k)], m, Depth(k))
  <2>1. PICK m : Tracks(N, table, env, at, scopeLevel, P[Len(control)], m, Depth(control))
    BY <1>4, <1>11
  <2> QED BY <1>2, <1>3, <1>8, <1>9, <2>1, TracksFlow
<1>12. Outer(env, k) \in Seq(Entries(T))
  BY <1>3, OuterIs
<1>13. StandsAt(N, V, Q, at', control') /\ env' \in Seq(Entries(T))
  BY <1>1, <1>6, <1>10, <1>12
<1>14. Running' => \E m : Tracks(N, table', env', at', scopeLevel', Q[Len(control')], m, Depth(control'))
  BY <1>1, <1>6, <1>11
<1>15. at' \in stmList /\ table' \in Seq(Entries(Vals))
  BY <1>1, <1>2
<1> QED BY <1>1, <1>2, <1>13, <1>14, <1>15, WalkNext

(* Passing a flag or scope node preserves it.                              *)
LEMMA WalkFlag ==
  ASSUME GraphInv, WalkInv, NoGoto(fn), PassFlag
  PROVE  WalkInv'
<1>1. /\ at # 0 /\ ~IsSilent(fn, control) /\ nodes[at].kind \in Flags
      /\ at' = nodes[at].t /\ control' = control /\ env' = env /\ UNCHANGED cfgVars
      /\ (Running' <=> Running)
      /\ Running => /\ scopeLevel' = IF nodes[at].kind = "open" THEN scopeLevel + 1
                                     ELSE IF nodes[at].kind = "close" THEN scopeLevel - 1 ELSE scopeLevel
                    /\ table' = IF nodes[at].kind = "close" THEN deleteScopeLevelAt(scopeLevel) ELSE table
      /\ ~Running => table' = table
  BY DEF PassFlag, Flags, Running
<1>2. /\ Regular(fn) /\ phase = "built" /\ at \in stmList /\ table \in Seq(Entries(Vals))
  BY <1>1, WalkIs
<1>3. PICK T : env \in Seq(Entries(T))
  BY <1>1, WalkIs
<1>4. PICK N, V, P :
        /\ StandsAt(N, V, P, at, control)
        /\ Running => \E m : Tracks(N, table, env, at, scopeLevel, P[Len(control)], m, Depth(control))
  BY <1>1, WalkIs
<1>5. /\ Finished(fn, N, V) /\ Reflects(N) /\ Placed(fn, N, V, control, P)
      /\ Meets(N, at, P[Len(control)])
  BY <1>4 DEF StandsAt
<1>6. Walkable
  BY <1>2, WalkableOk
<1>7. at \in DOMAIN nodes /\ nodes[at].t \in stmList
  BY <1>1, <1>2, <1>6 DEF Walkable, Flags
<1>8. /\ at \in DOMAIN N /\ N[at].kind = nodes[at].kind /\ Joined(N, N[at].t, nodes[at].t)
  BY <1>5, <1>7, ReflectsIs
<1>9. PICK y : y = P[Len(control)]
  OBVIOUS
<1>10. PICK E : E \in DOMAIN N /\ Joined(N, y, E) /\ N[E].kind \notin {"forward"} \cup Flags
  <2>1. PICK E : Shows(fn, N, V, control, P[Len(control)], E)
    BY <1>1, <1>5, ShowsOk
  <2> QED BY <1>9, <2>1 DEF Shows, Flags
<1>11. StandsAt(N, V, P, nodes[at].t, control)
  <2>1. Meets(N, N[at].t, y)
    BY <1>1, <1>5, <1>8, <1>9, MeetsFlag
  <2>2. Meets(N, nodes[at].t, y)
    <3>1. Joined(N, nodes[at].t, N[at].t)
      BY <1>8, JoinedIs
    <3> QED BY <2>1, <3>1, MeetsOf
  <2> QED BY <1>5, <1>9, <2>2 DEF StandsAt
<1>12. ASSUME Running
       PROVE  /\ \E m : Tracks(N, table', env, nodes[at].t, scopeLevel', y, m, Depth(control))
              /\ table' \in Seq(Entries(Vals))
  <2>1. PICK m : Tracks(N, table, env, at, scopeLevel, y, m, Depth(control))
    BY <1>4, <1>9, <1>12
  <2>2. table' = IF N[at].kind = "close" THEN deleteScopeLevelAt(scopeLevel) ELSE table
    BY <1>1, <1>8, <1>12
  <2>3. PICK tab : tab = table'
    OBVIOUS
  <2>4. /\ Tracks(N, tab, env, nodes[at].t, scopeLevel + Rise(N[at].kind), y, m, Depth(control))
        /\ tab \in Seq(Entries(Vals))
    BY <1>1, <1>2, <1>8, <1>10, <2>1, <2>2, <2>3, TracksFlag
  <2>5. scopeLevel \in Int
    BY <2>1 DEF Tracks
  <2>6. scopeLevel' = scopeLevel + Rise(N[at].kind)
    BY <1>1, <1>8, <1>12, <2>5 DEF Rise
  <2> QED BY <2>3, <2>4, <2>6
<1>13. table' \in Seq(Entries(Vals))
  BY <1>1, <1>2, <1>12
<1>14. StandsAt(N, V, P, at', control') /\ env' \in Seq(Entries(T)) /\ at' \in stmList
  BY <1>1, <1>3, <1>7, <1>11
<1>15. Running' => \E m : Tracks(N, table', env', at', scopeLevel', P[Len(control')], m, Depth(control'))
  BY <1>1, <1>9, <1>12
<1> QED BY <1>1, <1>2, <1>13, <1>14, <1>15, WalkNext

(* The variables after statement stm has been executed at depth d, and the *)
(* table at level l *)
Assigns == {"expr", "decl"}
Named(e, name) == {i \in DOMAIN e : e[i].name = name}
Declared(stm, e, d, v) ==
  IF stm.kind = "decl" THEN Append(e, [name |-> stm.var, level |-> d, val |-> v]) ELSE e
Stored(stm, o, v) ==
  IF stm.kind \in Assigns THEN [o EXCEPT ![LastOf(Named(o, stm.var))].val = v] ELSE o
Tabled(stm, l) == IF stm.kind = "decl" THEN Added(stm.var, l) ELSE table

(* What executing a statement on both sides assigns.                       *)
LEMMA ExecuteIs ==
  ASSUME Execute, NEW stm, stm = fn.ast[nodes[at].stm], NEW v, v = Meant(stm),
         NEW o, o = Declared(stm, env, Depth(control), v)
  PROVE  /\ AtEvent /\ nodes[at].kind \notin {"cond", "end"} /\ UNCHANGED cfgVars
         /\ at' = nodes[at].t /\ control' = Executed(fn, control)
         /\ env' = Outer(Stored(stm, o, v), control')
         /\ scopeLevel' = scopeLevel /\ isAlwaysFalse' = isAlwaysFalse
         /\ constraints' = constraints /\ live' = live /\ answer' = answer
         /\ shadowed' = (shadowed \/ (/\ stm.kind = "decl"
                                       /\ \E i \in DOMAIN env : env[i].name = stm.var))
         /\ stopped' = (stopped \/ (Running /\ ~stm.ok))
         /\ table' = IF Running /\ stm.kind \in Assigns /\ stm.ok
                     THEN Assigned(Tabled(stm, scopeLevel), stm.var, Symbolic(stm)) ELSE table
<1>1. /\ AtEvent /\ nodes[at].kind \notin {"cond", "end"} /\ UNCHANGED cfgVars
      /\ at' = nodes[at].t /\ control' = Executed(fn, control)
      /\ scopeLevel' = scopeLevel /\ isAlwaysFalse' = isAlwaysFalse
      /\ constraints' = constraints /\ live' = live /\ answer' = answer
  BY DEF Execute
<1>2. /\ shadowed' = (shadowed \/ (/\ stm.kind = "decl"
                                    /\ \E i \in DOMAIN env : env[i].name = stm.var))
      /\ stopped' = (stopped \/ (Running /\ ~stm.ok))
  BY DEF Execute
<1>3. table' = IF Running /\ stm.kind \in Assigns /\ stm.ok
               THEN Assigned(Tabled(stm, scopeLevel), stm.var, Symbolic(stm)) ELSE table
  BY DEF Execute, Assigns, Tabled
<1>4. env' = Outer(Stored(stm, o, v), control')
  BY DEF Execute, Assigns, Stored, Declared, Named
<1> QED BY <1>1, <1>2, <1>3, <1>4

(* The entries o after a statement: e, and one more if it declares *)
Declares(T, e, stm, d, v, o) ==
  /\ o \in Seq(Entries(T)) /\ DOMAIN e \subseteq DOMAIN o
  /\ \A i \in DOMAIN e : o[i] = e[i]
  /\ \A i \in DOMAIN o :
       \/ i \in DOMAIN e
       \/ /\ stm.kind = "decl" /\ i = Len(e) + 1
          /\ o[i].name = stm.var /\ o[i].level = d /\ o[i].val = v
  /\ stm.kind = "decl" => Len(e) + 1 \in DOMAIN o /\ o[Len(e) + 1].name = stm.var
  /\ Len(e) + 1 \notin DOMAIN e

(* A declaration adds a variable to the execution.                         *)
LEMMA DeclaredIs ==
  ASSUME NEW T, NEW e \in Seq(Entries(T)), NEW stm, stm.var \in Names, NEW d \in Int, NEW v \in T,
         NEW o, o = Declared(stm, e, d, v)
  PROVE  Declares(T, e, stm, d, v, o)
<1>1. DOMAIN e = 1 .. Len(e) /\ Len(e) \in Nat
  OBVIOUS
<1>2. CASE stm.kind # "decl"
  <2>1. o = e
    BY <1>2 DEF Declared
  <2> QED BY <1>1, <1>2, <2>1 DEF Declares
<1>3. CASE stm.kind = "decl"
  <2>1. PICK r : r = [name |-> stm.var, level |-> d, val |-> v]
    OBVIOUS
  <2>2. r \in Entries(T) /\ r.name = stm.var /\ r.level = d /\ r.val = v
    BY <2>1 DEF Entries
  <2>3. o = Append(e, r)
    BY <1>3, <2>1 DEF Declared
  <2>4. /\ o \in Seq(Entries(T)) /\ Len(o) = Len(e) + 1 /\ DOMAIN o = 1 .. Len(e) + 1
        /\ o[Len(e) + 1] = r /\ \A i \in DOMAIN e : o[i] = e[i]
    BY <2>2, <2>3
  <2>5. \A i \in DOMAIN o : i \in DOMAIN e \/ i = Len(e) + 1
    BY <1>1, <2>4
  <2>6. Len(e) + 1 \in DOMAIN o /\ Len(e) + 1 \notin DOMAIN e /\ DOMAIN e \subseteq DOMAIN o
    BY <1>1, <2>4
  <2> QED BY <1>3, <2>2, <2>4, <2>5, <2>6 DEF Declares
<1> QED BY <1>2, <1>3

(* An assignment sets the last variable of that name.                      *)
LEMMA StoredIs ==
  ASSUME NEW T, NEW o \in Seq(Entries(T)), NEW stm, NEW v \in T, NEW n, n = Stored(stm, o, v)
  PROVE  /\ n \in Seq(Entries(T))
         /\ stm.kind \in Assigns => Sets(o, n, LastOf(Named(o, stm.var)), v)
         /\ stm.kind \notin Assigns => n = o
<1>1. CASE stm.kind \notin Assigns
  BY <1>1 DEF Stored
<1>2. CASE stm.kind \in Assigns
  <2>1. PICK a : a = LastOf(Named(o, stm.var))
    OBVIOUS
  <2>2. n = [o EXCEPT ![a].val = v]
    BY <1>2, <2>1 DEF Stored
  <2>3. n \in Seq(Entries(T)) /\ Sets(o, n, a, v)
    BY <2>2, SetOne
  <2> QED BY <1>2, <2>1, <2>3
<1> QED BY <1>1, <1>2

(* The symbolic value of an operand is a value.                            *)
LEMMA SymbolicOk ==
  ASSUME table \in Seq(Entries(Vals)), NEW stm, stm.from \in Names, stm.add \in Int
  PROVE  Symbolic(stm) \in Vals
<1>1. PICK v : v = IF stm.from = "" THEN [in |-> "", off |-> 0]
                   ELSE IF Found(stm.from) = {} THEN [in |-> stm.from, off |-> 0]
                   ELSE table[FirstOf(Found(stm.from))].val
  OBVIOUS
<1>2. v \in Vals
  <2>1. CASE stm.from = ""
    <3>1. v = [in |-> stm.from, off |-> 0]
      BY <1>1, <2>1
    <3> QED BY <3>1 DEF Vals
  <2>2. CASE stm.from # "" /\ Found(stm.from) = {}
    <3>1. v = [in |-> stm.from, off |-> 0]
      BY <1>1, <2>2
    <3> QED BY <3>1 DEF Vals
  <2>3. CASE stm.from # "" /\ Found(stm.from) # {}
    <3>1. PICK S : S = Found(stm.from)
      OBVIOUS
    <3>2. S \in SUBSET (DOMAIN table) /\ DOMAIN table = 1 .. Len(table) /\ Len(table) \in Nat
      BY <3>1 DEF Found
    <3>3. S \in SUBSET Nat /\ S # {}
      <4>1. \A i \in DOMAIN table : i \in Nat
        BY <3>2
      <4>2. S # {}
        BY <2>3, <3>1
      <4> QED BY <3>2, <4>1, <4>2
    <3>4. FirstOf(S) \in S
      BY <3>3, FirstLast
    <3>5. table[FirstOf(S)] \in Entries(Vals)
      BY <3>2, <3>4
    <3>6. v = table[FirstOf(S)].val
      BY <1>1, <2>3, <3>1
    <3> QED BY <3>5, <3>6 DEF Entries
  <2> QED BY <2>1, <2>2, <2>3
<1>3. Symbolic(stm) = [v EXCEPT !.off = @ + stm.add]
  BY <1>1 DEF Symbolic
<1> QED BY <1>2, <1>3 DEF Vals

(* The top frame at an event, and the statement or condition it shows *)

(* The event of the top frame is one of a statement.                       *)
LEMMA EventFrame ==
  ASSUME NEW f, NEW N, NEW V, Finished(f, N, V), NEW k, NEW P, Placed(f, N, V, k, P),
         ~IsSilent(f, k), EventOf(f, k).kind # "end"
  PROVE  /\ k # <<>> /\ EventOf(f, k).stm \in DOMAIN f.ast
         /\ EventOf(f, k).kind # "cond" => Head(k).at \in {"run", "iter"}
         /\ EventOf(f, k).kind = "cond" => Deciding(f, k)
<1>1. k # <<>>
  BY DEF EventOf
<1>2. PICK s : s = Head(k).stm
  OBVIOUS
<1>3. /\ f \in Functions /\ Regular(f) /\ s \in {0} \cup DOMAIN f.ast /\ Head(k) \in Frames(f)
      /\ Head(k).at = "test" => Kind(f, s) \in {"for", "while", "do"}
      /\ Head(k).at = "pick" => Kind(f, s) = "switch"
      /\ Head(k).at = "iter" => Kind(f, s) = "for"
  BY <1>1, <1>2, TopIs
<1>4. Head(k).at \in {"run", "test", "iter", "pick", "exit", "close"}
  BY <1>3 DEF Frames
<1>5. ASSUME NEW x \in {0} \cup DOMAIN f.ast, Kind(f, x) # "null" PROVE x \in DOMAIN f.ast
  BY <1>5 DEF Kind
<1>6. CASE Head(k).at \in {"exit", "close"}
  BY <1>1, <1>6 DEF IsSilent
<1>7. CASE Head(k).at = "iter"
  <2>1. EventOf(f, k) = [kind |-> "stm", stm |-> Parts(f, s)[3]]
    BY <1>1, <1>2, <1>3, <1>7 DEF EventOf
  <2>2. Kind(f, Parts(f, s)[3]) # "null"
    BY <1>1, <1>2, <1>7 DEF IsSilent
  <2>3. Parts(f, s)[3] \in {0} \cup DOMAIN f.ast
    <3>1. /\ Len(Parts(f, s)) = 4
          /\ \A i \in 1 .. Len(Parts(f, s)) : Parts(f, s)[i] \in {0} \cup DOMAIN f.ast
      BY <1>3, <1>7, PartsOk
    <3>2. 3 \in 1 .. Len(Parts(f, s))
      BY <3>1
    <3> QED BY <3>1, <3>2
  <2> QED BY <1>1, <1>5, <1>7, <2>1, <2>2, <2>3
<1>8. CASE Head(k).at = "test"
  <2>1. EventOf(f, k) = [kind |-> "cond", stm |-> LoopCondition(f, s)]
    BY <1>1, <1>2, <1>3, <1>8 DEF EventOf
  <2>2. Kind(f, LoopCondition(f, s)) # "null"
    BY <1>1, <1>2, <1>8 DEF IsSilent
  <2>3. LoopCondition(f, s) \in {0} \cup DOMAIN f.ast
    <3>1. /\ Kind(f, s) = "for" => Len(Parts(f, s)) = 4
          /\ Kind(f, s) # "for" => Len(Parts(f, s)) = 2
          /\ \A i \in 1 .. Len(Parts(f, s)) : Parts(f, s)[i] \in {0} \cup DOMAIN f.ast
      BY <1>3, <1>8, PartsOk
    <3>2. (IF Kind(f, s) = "for" THEN 2 ELSE 1) \in 1 .. Len(Parts(f, s))
      BY <3>1
    <3> QED BY <3>1, <3>2 DEF LoopCondition
  <2> QED BY <1>1, <1>5, <1>8, <2>1, <2>2, <2>3 DEF Deciding
<1>9. CASE Head(k).at = "pick"
  <2>1. PICK g : g = NextRun(f, s, Head(k).i)
    OBVIOUS
  <2>2. EventOf(f, k) = [kind |-> "cond", stm |-> Parts(f, s)[g]]
    BY <1>1, <1>2, <1>3, <1>9, <2>1 DEF EventOf
  <2>3. /\ Len(Parts(f, s)) \in Nat
        /\ \A i \in 1 .. Len(Parts(f, s)) : Parts(f, s)[i] \in {0} \cup DOMAIN f.ast
    BY <1>3, <1>9, PartsOk
  <2>4. g \in RunStarts(f, s)
    <3>1. RunsLeft(f, s, Head(k).i) # {}
      BY <1>1, <1>2, <1>9 DEF IsSilent
    <3>2. \A j \in RunsLeft(f, s, Head(k).i) : j \in RunStarts(f, s) /\ j \in Nat
      BY <2>3 DEF RunsLeft, RunStarts
    <3>3. RunsLeft(f, s, Head(k).i) \in SUBSET Nat
      BY <3>2
    <3>4. \E j \in RunsLeft(f, s, Head(k).i) : \A l \in RunsLeft(f, s, Head(k).i) : j <= l
      BY <3>1, <3>3, Least
    <3>5. g \in RunsLeft(f, s, Head(k).i)
      BY <2>1, <3>4 DEF NextRun
    <3> QED BY <3>2, <3>5
  <2>5. g \in 1 .. Len(Parts(f, s)) /\ Kind(f, Parts(f, s)[g]) \in Labels
    BY <2>3, <2>4 DEF RunStarts
  <2>6. Parts(f, s)[g] \in DOMAIN f.ast
    BY <1>5, <2>3, <2>5 DEF Labels
  <2> QED BY <1>1, <1>9, <2>2, <2>6 DEF Deciding
<1>10. CASE Head(k).at = "run"
  <2>1. Kind(f, s) \in Events
    BY <1>1, <1>2, <1>10 DEF IsSilent
  <2>2. CASE Kind(f, s) = "if"
    <3>1. EventOf(f, k) = [kind |-> "cond", stm |-> Parts(f, s)[1]]
      BY <1>1, <1>2, <1>10, <2>2 DEF EventOf
    <3>2. s \in DOMAIN f.ast /\ Kind(f, s) = f.ast[s].kind /\ Grammatical(f, s)
      <4>1. s \in DOMAIN f.ast
        BY <1>3, <1>5, <2>2
      <4> QED BY <1>3, <4>1, StmOk
    <3>3. PartKind(f, s, 1) # "null"
      BY <2>2, <3>2 DEF Grammatical
    <3>4. Kind(f, Parts(f, s)[1]) # "null"
      BY <3>3 DEF PartKind, Kind, Parts
    <3>5. Parts(f, s)[1] \in {0} \cup DOMAIN f.ast
      <4>1. /\ Len(Parts(f, s)) = 3
            /\ \A i \in 1 .. Len(Parts(f, s)) : Parts(f, s)[i] \in {0} \cup DOMAIN f.ast
        BY <1>3, <2>2, PartsOk
      <4>2. 1 \in 1 .. Len(Parts(f, s))
        BY <4>1
      <4> QED BY <4>1, <4>2
    <3> QED BY <1>1, <1>2, <1>5, <1>10, <2>2, <3>1, <3>4, <3>5 DEF Deciding
  <2>3. CASE Kind(f, s) # "if"
    <3>1. s \in DOMAIN f.ast
      BY <1>3, <1>5, <2>1 DEF Events
    <3>2. /\ EventOf(f, k).stm = s /\ EventOf(f, k).kind # "cond"
      BY <1>1, <1>2, <1>10, <2>1, <2>3 DEF EventOf, Events
    <3> QED BY <1>1, <1>10, <3>1, <3>2
  <2> QED BY <2>2, <2>3
<1> QED BY <1>4, <1>6, <1>7, <1>8, <1>9, <1>10

(* Where an event leads *)
LEMMA LeadsOn ==
  ASSUME NEW N, NEW V, Finished(fn, N, V), Reflects(N), NEW k, NEW y, Leads(fn, N, V, k, y),
         NEW x, Joined(N, y, x)
  PROVE  \E Q : StandsAt(N, V, Q, x, k) /\ Joined(N, x, Q[Len(k)])
<1>1. PICK Q : Placed(fn, N, V, k, Q) /\ Joined(N, y, Q[Len(k)])
  BY DEF Leads
<1>2. Joined(N, x, Q[Len(k)])
  BY <1>1, JoinedIs
<1>3. Meets(N, x, Q[Len(k)])
  BY <1>2, MeetsOf
<1> QED BY <1>1, <1>2, <1>3 DEF StandsAt

(* What DataAssumption says of a statement *)
LEMMA StmData ==
  ASSUME NEW f \in Functions, NEW s \in DOMAIN f.ast
  PROVE  f.ast[s].var \in Names /\ f.ast[s].from \in Names /\ f.ast[s].add \in Int
<1>1. {f.ast[s].var, f.ast[s].from} \subseteq STRING /\ f.ast[s].add \in Int
  BY DataAssumption
<1> QED BY <1>1 DEF Names

(* The table with more entries, of level l, and other values *)
Extends(tab, new, l) ==
  /\ DOMAIN tab \subseteq DOMAIN new
  /\ \A j \in DOMAIN tab : new[j].name = tab[j].name /\ new[j].level = tab[j].level
  /\ \A j \in DOMAIN new : j \in DOMAIN tab \/ new[j].level = l

(* What a statement does to the table.                                     *)
LEMMA TabledIs ==
  ASSUME table \in Seq(Entries(Vals)), NEW stm, stm.var \in Names, NEW l \in Int, NEW w \in Vals,
         NEW new, new = Assigned(Tabled(stm, l), stm.var, w)
  PROVE  /\ new \in Seq(Entries(Vals)) /\ Extends(table, new, l)
         /\ stm.kind = "decl" => \E j \in DOMAIN new : new[j].name = stm.var
<1>1. PICK tab : tab = Tabled(stm, l)
  OBVIOUS
<1>2. /\ tab \in Seq(Entries(Vals)) /\ Extends(table, tab, l)
      /\ stm.kind = "decl" => \E j \in DOMAIN tab : tab[j].name = stm.var
  <2>1. CASE stm.kind # "decl"
    <3>1. tab = table
      BY <1>1, <2>1 DEF Tabled
    <3> QED BY <2>1, <3>1 DEF Extends
  <2>2. CASE stm.kind = "decl"
    <3>1. tab = Added(stm.var, l)
      BY <1>1, <2>2 DEF Tabled
    <3>2. /\ tab \in Seq(Entries(Vals)) /\ DOMAIN table \subseteq DOMAIN tab
          /\ \A i \in DOMAIN table : tab[i] = table[i]
          /\ \A i \in DOMAIN tab :
               \/ i \in DOMAIN table
               \/ /\ tab[i] = [name |-> stm.var, level |-> l, val |-> Zero]
                  /\ i = Len(table) + 1 /\ \A j \in DOMAIN table : table[j].name # stm.var
          /\ \E i \in DOMAIN tab : tab[i].name = stm.var
      BY <3>1, AddedIs
    <3>3. \A i \in DOMAIN tab : i \in DOMAIN table \/ tab[i].level = l
      BY <3>2
    <3> QED BY <3>2, <3>3 DEF Extends
  <2> QED BY <2>1, <2>2
<1>3. PICK a : new \in Seq(Entries(Vals)) /\ Sets(tab, new, a, w)
  BY <1>1, <1>2, AssignedIs
<1>4. DOMAIN new = DOMAIN tab /\ \A i \in DOMAIN tab : new[i].name = tab[i].name /\ new[i].level = tab[i].level
  BY <1>3 DEF Sets
<1>5. Extends(table, new, l)
  BY <1>2, <1>4 DEF Extends
<1>6. ASSUME stm.kind = "decl" PROVE \E j \in DOMAIN new : new[j].name = stm.var
  BY <1>2, <1>4, <1>6
<1> QED BY <1>3, <1>5, <1>6

(* The variables o after a statement are those before, or new ones of the  *)
(* innermost scope that the table has got too. *)
Follows(e, o, new, d) ==
  \A i \in DOMAIN o :
    \/ i \in DOMAIN e /\ o[i].name = e[i].name /\ o[i].level = e[i].level
    \/ o[i].level = d /\ \E j \in DOMAIN new : new[j].name = o[i].name
Among(u, o) == \A n \in DOMAIN u : \E i \in DOMAIN o : u[n] = o[i]

(* The variables that are left are covered. *)
LEMMA CoversOn ==
  ASSUME NEW T, NEW tab \in Seq(Entries(T)), NEW new \in Seq(Entries(T)),
         NEW Q, NEW e \in Seq(Entries(Q)), NEW R, NEW o \in Seq(Entries(R)), NEW u,
         NEW l \in Int, NEW d \in Int, NEW D \in Int, D <= d, Covers(tab, e, l, d),
         Extends(tab, new, l), Follows(e, o, new, d), Among(u, o)
  PROVE  Covers(new, u, l, D)
<1>1. ASSUME NEW j \in DOMAIN new PROVE new[j].level <= l /\ new[j].level \in Int
  <2>1. new[j] \in Entries(T)
    BY <1>1
  <2>2. new[j].level <= l
    <3>1. \A i \in DOMAIN tab : tab[i].level <= l
      BY DEF Covers
    <3>2. \/ j \in DOMAIN tab /\ new[j].level = tab[j].level
          \/ new[j].level = l
      BY <1>1 DEF Extends
    <3> QED BY <3>1, <3>2
  <2> QED BY <2>1, <2>2 DEF Entries
<1>2. ASSUME NEW n \in DOMAIN u
      PROVE  \E j \in DOMAIN new : new[j].name = u[n].name /\ new[j].level + D - u[n].level <= l
  <2>1. PICK i \in DOMAIN o : u[n] = o[i]
    BY <1>2 DEF Among
  <2>2. o[i] \in Entries(R)
    BY <2>1
  <2>3. o[i].level \in Int
    BY <2>2 DEF Entries
  <2>4. CASE i \in DOMAIN e /\ o[i].name = e[i].name /\ o[i].level = e[i].level
    <3>1. PICK j \in DOMAIN tab : tab[j].name = e[i].name /\ tab[j].level + d - e[i].level <= l
      BY <2>4 DEF Covers
    <3>2. j \in DOMAIN new /\ new[j].name = tab[j].name /\ new[j].level = tab[j].level
      BY <3>1 DEF Extends
    <3>3. new[j].level \in Int
      BY <1>1, <3>2
    <3>4. new[j].level + D - o[i].level <= l
      BY <2>3, <2>4, <3>1, <3>2, <3>3
    <3> QED BY <2>1, <2>4, <3>1, <3>2, <3>4
  <2>5. CASE o[i].level = d /\ \E j \in DOMAIN new : new[j].name = o[i].name
    <3>1. PICK j \in DOMAIN new : new[j].name = o[i].name
      BY <2>5
    <3>2. new[j].level <= l /\ new[j].level \in Int
      BY <1>1
    <3>3. new[j].level + D - o[i].level <= l
      BY <2>3, <2>5, <3>2
    <3> QED BY <2>1, <3>1, <3>3
  <2> QED BY <2>1, <2>4, <2>5 DEF Follows
<1> QED BY <1>1, <1>2 DEF Covers

(* Entries with values of one set have values of a larger one.             *)
LEMMA Widen ==
  ASSUME NEW T, NEW R, T \subseteq R, NEW e \in Seq(Entries(T))
  PROVE  e \in Seq(Entries(R))
<1>1. Entries(T) \subseteq Entries(R)
  BY DEF Entries
<1>2. \A i \in 1 .. Len(e) : e[i] \in Entries(R)
  BY <1>1
<1>3. Len(e) \in Nat /\ e = [i \in 1 .. Len(e) |-> e[i]]
  OBVIOUS
<1> QED BY <1>2, <1>3, SeqOf

(* Executing a statement preserves the invariant of the walk.              *)
LEMMA WalkExecute ==
  ASSUME GraphInv, WalkInv, NoGoto(fn), Execute
  PROVE  WalkInv'
<1>1. PICK stm : stm = fn.ast[nodes[at].stm]
  OBVIOUS
<1>2. PICK v, w, d : v = Meant(stm) /\ w = Symbolic(stm) /\ d = Depth(control)
  OBVIOUS
<1>3. PICK o : o = Declared(stm, env, d, v)
  OBVIOUS
<1>4. PICK u : u = Stored(stm, o, v)
  OBVIOUS
<1>5. PICK k : k = Executed(fn, control)
  OBVIOUS
<1>6. /\ AtEvent /\ nodes[at].kind \notin {"cond", "end"} /\ UNCHANGED cfgVars
      /\ at' = nodes[at].t /\ control' = k /\ env' = Outer(u, k)
      /\ scopeLevel' = scopeLevel /\ isAlwaysFalse' = isAlwaysFalse
      /\ stopped' = (stopped \/ (Running /\ ~stm.ok))
      /\ table' = IF Running /\ stm.kind \in Assigns /\ stm.ok
                  THEN Assigned(Tabled(stm, scopeLevel), stm.var, w) ELSE table
  BY <1>1, <1>2, <1>3, <1>4, <1>5, ExecuteIs
<1>7. at # 0 /\ ~IsSilent(fn, control)
  BY <1>6 DEF AtEvent
<1>8. Regular(fn) /\ phase = "built" /\ at \in stmList /\ table \in Seq(Entries(Vals))
  BY <1>7, WalkIs
<1>9. PICK T : env \in Seq(Entries(T))
  BY <1>7, WalkIs
<1>10. PICK N, V, P :
         /\ StandsAt(N, V, P, at, control)
         /\ Running => \E m : Tracks(N, table, env, at, scopeLevel, P[Len(control)], m, d)
  BY <1>2, <1>7, WalkIs
<1>11. /\ Shows(fn, N, V, control, P[Len(control)], at) /\ Joined(N, P[Len(control)], at)
       /\ at \in DOMAIN N /\ N[at].kind = nodes[at].kind /\ N[at].stm = nodes[at].stm
       /\ N[at].kind \notin {"forward"} \cup Flags /\ Joined(N, N[at].t, nodes[at].t)
  BY <1>6, <1>8, <1>10, EventNode
<1>12. Finished(fn, N, V) /\ Reflects(N) /\ Placed(fn, N, V, control, P)
  BY <1>10 DEF StandsAt
<1>13. /\ EventOf(fn, control).kind \notin {"cond", "end"} /\ EventOf(fn, control).stm = nodes[at].stm
       /\ Leads(fn, N, V, k, N[at].t)
  BY <1>5, <1>6, <1>11 DEF Shows
<1>14. /\ control # <<>> /\ nodes[at].stm \in DOMAIN fn.ast /\ Head(control).at \in {"run", "iter"}
       /\ fn \in Functions
  BY <1>7, <1>12, <1>13, EventFrame DEF Finished
<1>15. stm.var \in Names /\ stm.from \in Names /\ stm.add \in Int
  BY <1>1, <1>14, StmData
<1>16. PICK Q : StandsAt(N, V, Q, nodes[at].t, k) /\ Joined(N, nodes[at].t, Q[Len(k)])
  BY <1>11, <1>12, <1>13, LeadsOn
<1>17. Depth(k) <= d /\ Depth(k) \in Nat /\ d \in Nat
  BY <1>2, <1>5, <1>12, <1>14, DepthExecuted
<1>18. nodes[at].t \in stmList
  <2>1. Walkable
    BY <1>8, WalkableOk
  <2> QED BY <1>6, <1>8, <2>1 DEF Walkable
<1>19. PICK R : R = T \cup {v}
  OBVIOUS
<1>20. env \in Seq(Entries(R)) /\ v \in R
  BY <1>9, <1>19, Widen
<1>21. /\ o \in Seq(Entries(R)) /\ DOMAIN env \subseteq DOMAIN o
       /\ \A i \in DOMAIN env : o[i] = env[i]
       /\ \A i \in DOMAIN o : \/ i \in DOMAIN env
                              \/ stm.kind = "decl" /\ o[i].name = stm.var /\ o[i].level = d
  <2>1. d \in Int
    BY <1>17
  <2>2. Declares(R, env, stm, d, v, o)
    BY <1>3, <1>15, <1>20, <2>1, DeclaredIs, Zenon
  <2> QED BY <2>2 DEF Declares
<1>22. /\ u \in Seq(Entries(R)) /\ DOMAIN u = DOMAIN o
       /\ \A i \in DOMAIN o : u[i].name = o[i].name /\ u[i].level = o[i].level
  <2>1. /\ u \in Seq(Entries(R))
        /\ stm.kind \in Assigns => Sets(o, u, LastOf(Named(o, stm.var)), v)
        /\ stm.kind \notin Assigns => u = o
    BY <1>4, <1>20, <1>21, StoredIs
  <2> QED BY <2>1 DEF Sets
<1>23. Outer(u, k) \in Seq(Entries(R)) /\ \A n \in DOMAIN Outer(u, k) : \E i \in DOMAIN u : Outer(u, k)[n] = u[i]
  <2>1. Outer(u, k) \in Seq(Entries(R)) /\ Remain(u, Depth(k), Outer(u, k))
    BY <1>22, OuterIs
  <2> QED BY <2>1 DEF Remain
<1>24. w \in Vals
  BY <1>2, <1>8, <1>15, SymbolicOk
<1>25. PICK tab : tab = table'
  OBVIOUS
<1>26. ASSUME scopeLevel \in Int, Running, Running'
       PROVE  /\ tab \in Seq(Entries(Vals)) /\ Extends(table, tab, scopeLevel)
              /\ stm.kind = "decl" => \E j \in DOMAIN tab : tab[j].name = stm.var
  <2>1. stm.ok
    BY <1>6, <1>26 DEF Running
  <2>2. CASE stm.kind \in Assigns
    <3>1. tab = Assigned(Tabled(stm, scopeLevel), stm.var, w)
      BY <1>6, <1>25, <1>26, <2>1, <2>2
    <3> QED BY <1>8, <1>15, <1>24, <1>26, <2>2, <3>1, TabledIs, Zenon
  <2>3. CASE stm.kind \notin Assigns
    <3>1. tab = table /\ stm.kind # "decl"
      BY <1>6, <1>25, <2>3 DEF Assigns
    <3> QED BY <1>8, <3>1 DEF Extends
  <2> QED BY <2>2, <2>3
<1>27. Running' => Running
  BY <1>6 DEF Running
<1>28. ASSUME Running
       PROVE  /\ scopeLevel \in Int /\ scopeLevel >= 1 + d
              /\ Covers(table, env, scopeLevel, d)
  <2>1. PICK m : Tracks(N, table, env, at, scopeLevel, P[Len(control)], m, d)
    BY <1>10, <1>28
  <2>2. scopeLevel = m /\ scopeLevel \in Int /\ scopeLevel >= 1 + d
    BY <1>11, <2>1, TracksEvent
  <2>3. Tracks(N, table, env, at, scopeLevel, P[Len(control)], scopeLevel, d)
    BY <2>1, <2>2
  <2> QED BY <2>2, <2>3, TracksCovers
<1>29. ASSUME Running'
       PROVE  Tracks(N, tab, Outer(u, k), nodes[at].t, scopeLevel, Q[Len(k)], scopeLevel, Depth(k))
  <2>1. Running /\ scopeLevel \in Int /\ scopeLevel >= 1 + d /\ Covers(table, env, scopeLevel, d)
    BY <1>27, <1>28, <1>29
  <2>2. /\ tab \in Seq(Entries(Vals)) /\ Extends(table, tab, scopeLevel)
        /\ stm.kind = "decl" => \E j \in DOMAIN tab : tab[j].name = stm.var
    BY <1>26, <1>29, <2>1
  <2>3. Follows(env, u, tab, d)
    BY <1>21, <1>22, <2>2 DEF Follows
  <2>4. Covers(tab, Outer(u, k), scopeLevel, Depth(k))
    <3>1. PICK b, D : b = Outer(u, k) /\ D = Depth(k)
      OBVIOUS
    <3>2. D \in Int /\ d \in Int /\ D <= d
      BY <1>17, <3>1
    <3>3. Among(b, u)
      BY <1>23, <3>1 DEF Among
    <3>4. table \in Seq(Entries(Vals)) /\ tab \in Seq(Entries(Vals)) /\ Extends(table, tab, scopeLevel)
      BY <1>8, <2>2
    <3>5. env \in Seq(Entries(T)) /\ u \in Seq(Entries(R)) /\ scopeLevel \in Int
      BY <1>9, <1>22, <2>1
    <3>6. Covers(tab, b, scopeLevel, D)
      BY <2>1, <2>3, <3>2, <3>3, <3>4, <3>5, CoversOn, Zenon
    <3> QED BY <3>1, <3>6
  <2>5. scopeLevel >= 1 + Depth(k)
    BY <1>17, <2>1
  <2> QED BY <1>16, <1>17, <2>1, <2>4, <2>5, TracksOn
<1>30. tab \in Seq(Entries(Vals))
  <2>1. CASE Running /\ stm.kind \in Assigns /\ stm.ok
    <3>1. tab = Assigned(Tabled(stm, scopeLevel), stm.var, w)
      BY <1>6, <1>25, <2>1
    <3>2. scopeLevel \in Int
      BY <1>28, <2>1
    <3> QED BY <1>8, <1>15, <1>24, <3>1, <3>2, TabledIs
  <2>2. CASE ~(Running /\ stm.kind \in Assigns /\ stm.ok)
    BY <1>6, <1>8, <1>25, <2>2
  <2> QED BY <2>1, <2>2
<1>31. /\ StandsAt(N, V, Q, at', control') /\ env' \in Seq(Entries(R)) /\ at' \in stmList
       /\ table' \in Seq(Entries(Vals))
  BY <1>6, <1>16, <1>18, <1>23, <1>25, <1>30
<1>32. Running' => \E m : Tracks(N, table', env', at', scopeLevel', Q[Len(control')], m, Depth(control'))
  BY <1>6, <1>25, <1>29
<1> QED BY <1>6, <1>8, <1>31, <1>32, WalkNext

(* A decision preserves it.                                                *)
LEMMA WalkDecide ==
  ASSUME GraphInv, WalkInv, NoGoto(fn), NEW holds \in BOOLEAN, Decide(holds)
  PROVE  WalkInv'
<1>1. PICK k, d : k = Decided(fn, control, holds) /\ d = Depth(control)
  OBVIOUS
<1>2. /\ AtEvent /\ nodes[at].kind = "cond" /\ UNCHANGED cfgVars
      /\ at' = Branch(at, holds) /\ control' = k /\ env' = Outer(env, k)
      /\ scopeLevel' = scopeLevel /\ table' = table
  BY <1>1 DEF Decide, Leave
<1>3. Running' => Running
  BY DEF Decide, Running, AddConstraint
<1>4. at # 0 /\ ~IsSilent(fn, control)
  BY <1>2 DEF AtEvent
<1>5. Regular(fn) /\ phase = "built" /\ at \in stmList /\ table \in Seq(Entries(Vals))
  BY <1>4, WalkIs
<1>6. PICK T : env \in Seq(Entries(T))
  BY <1>4, WalkIs
<1>7. PICK N, V, P :
        /\ StandsAt(N, V, P, at, control)
        /\ Running => \E m : Tracks(N, table, env, at, scopeLevel, P[Len(control)], m, d)
  BY <1>1, <1>4, WalkIs
<1>8. /\ Shows(fn, N, V, control, P[Len(control)], at) /\ Joined(N, P[Len(control)], at)
      /\ at \in DOMAIN N /\ N[at].kind = nodes[at].kind
      /\ N[at].kind \notin {"forward"} \cup Flags
      /\ Joined(N, N[at].t, nodes[at].t) /\ Joined(N, N[at].f, nodes[at].f)
  BY <1>2, <1>5, <1>7, EventNode
<1>9. Finished(fn, N, V) /\ Reflects(N) /\ Placed(fn, N, V, control, P)
  BY <1>7 DEF StandsAt
<1>10. /\ EventOf(fn, control).kind = "cond"
       /\ Leads(fn, N, V, k, IF holds THEN N[at].t ELSE N[at].f)
  BY <1>1, <1>2, <1>8 DEF Shows
<1>11. control # <<>> /\ Deciding(fn, control)
  BY <1>4, <1>9, <1>10, EventFrame
<1>12. PICK x, y : x = Branch(at, holds) /\ y = IF holds THEN N[at].t ELSE N[at].f
  OBVIOUS
<1>13. Joined(N, y, x)
  BY <1>8, <1>12 DEF Branch
<1>14. PICK Q : StandsAt(N, V, Q, x, k) /\ Joined(N, x, Q[Len(k)])
  BY <1>9, <1>10, <1>12, <1>13, LeadsOn
<1>15. Depth(k) = d /\ d \in Nat
  BY <1>1, <1>4, <1>9, <1>11, DepthDecided
<1>16. x \in stmList
  <2>1. Walkable
    BY <1>5, WalkableOk
  <2> QED BY <1>2, <1>5, <1>12, <2>1 DEF Walkable, Branch
<1>17. Outer(env, k) \in Seq(Entries(T)) /\ \A n \in DOMAIN Outer(env, k) : \E i \in DOMAIN env : Outer(env, k)[n] = env[i]
  <2>1. Outer(env, k) \in Seq(Entries(T)) /\ Remain(env, Depth(k), Outer(env, k))
    BY <1>6, OuterIs
  <2> QED BY <2>1 DEF Remain
<1>18. ASSUME Running
       PROVE  Tracks(N, table, Outer(env, k), x, scopeLevel, Q[Len(k)], scopeLevel, Depth(k))
  <2>1. PICK m : Tracks(N, table, env, at, scopeLevel, P[Len(control)], m, d)
    BY <1>7, <1>18
  <2>2. scopeLevel = m /\ scopeLevel \in Int /\ scopeLevel >= 1 + d
    BY <1>8, <2>1, TracksEvent
  <2>3. Tracks(N, table, env, at, scopeLevel, P[Len(control)], scopeLevel, d)
    BY <2>1, <2>2
  <2>4. Covers(table, env, scopeLevel, d)
    BY <2>3, TracksCovers
  <2>5. Covers(table, Outer(env, k), scopeLevel, d)
    BY <1>17, <2>4 DEF Covers
  <2> QED BY <1>14, <1>15, <2>2, <2>5, TracksOn
<1>19. /\ StandsAt(N, V, Q, at', control') /\ env' \in Seq(Entries(T)) /\ at' \in stmList
       /\ table' \in Seq(Entries(Vals))
  BY <1>2, <1>5, <1>12, <1>14, <1>16, <1>17
<1>20. Running' => \E m : Tracks(N, table', env', at', scopeLevel', Q[Len(control')], m, Depth(control'))
  BY <1>2, <1>3, <1>12, <1>18
<1> QED BY <1>2, <1>5, <1>19, <1>20, WalkNext

(* A step that changes nothing preserves it.                               *)
LEMMA WalkSame ==
  ASSUME WalkInv, UNCHANGED <<cfgVars, walkVars, seVars>>
  PROVE  WalkInv'
<1>1. /\ at' = at /\ control' = control /\ env' = env /\ fn' = fn /\ UNCHANGED cfgVars
      /\ table' = table /\ scopeLevel' = scopeLevel /\ (Running' <=> Running)
  BY DEF walkVars, seVars, cfgVars, Running
<1>2. CASE at = 0 \/ ~NoGoto(fn)
  BY <1>1, <1>2 DEF WalkInv
<1>3. CASE at # 0 /\ NoGoto(fn)
  <2>1. Regular(fn) /\ phase = "built" /\ at \in stmList /\ table \in Seq(Entries(Vals))
    BY <1>3, WalkIs
  <2>2. PICK T : env \in Seq(Entries(T))
    BY <1>3, WalkIs
  <2>3. PICK N, V, P :
          /\ StandsAt(N, V, P, at, control)
          /\ Running => \E m : Tracks(N, table, env, at, scopeLevel, P[Len(control)], m, Depth(control))
    BY <1>3, WalkIs
  <2>4. /\ StandsAt(N, V, P, at', control') /\ env' \in Seq(Entries(T)) /\ at' \in stmList
        /\ table' \in Seq(Entries(Vals))
    BY <1>1, <2>1, <2>2, <2>3
  <2>5. Running' => \E m : Tracks(N, table', env', at', scopeLevel', P[Len(control')], m, Depth(control'))
    BY <1>1, <2>3
  <2> QED BY <1>1, <2>1, <2>4, <2>5, WalkNext
<1> QED BY <1>2, <1>3

-----------------------------------------------------------------------------
(* The invariant of the walk holds before the walk.                        *)
LEMMA InitWalkInv == Init => GraphInv /\ WalkInv
<1> SUFFICES ASSUME Init PROVE GraphInv /\ WalkInv
  OBVIOUS
<1>1. CfgInit /\ at = 0
  BY DEF Init
<1> QED BY <1>1, InitIInv, InitLaidOut DEF GraphInv, WalkInv

(* Every step preserves what is known of the graph.                        *)
LEMMA StepGraphInv == GraphInv /\ [Next]_vars => GraphInv'
<1> SUFFICES ASSUME GraphInv, [Next]_vars PROVE GraphInv'
  OBVIOUS
<1>1. [CfgNext]_cfgVars
  BY WalkKeepsGraph DEF Next, vars
<1> QED BY <1>1, StepIInv, StepLaidOut DEF GraphInv

(* Every step preserves the invariant of the walk.                         *)
LEMMA StepWalkInv == GraphInv /\ WalkInv /\ [Next]_vars => WalkInv'
<1> SUFFICES ASSUME GraphInv, WalkInv, [Next]_vars PROVE WalkInv'
  OBVIOUS
<1>1. fn' = fn
  <2>1. [CfgNext]_cfgVars
    BY WalkKeepsGraph DEF Next, vars
  <2> QED BY <2>1, FnKept
<1>2. CASE ~NoGoto(fn)
  BY <1>1, <1>2 DEF WalkInv
<1>3. CASE NoGoto(fn)
  <2>1. CASE CfgNext /\ UNCHANGED <<walkVars, seVars, answer>>
    <3>1. at' = at
      BY <2>1 DEF walkVars
    <3>2. CASE at = 0
      BY <3>1, <3>2 DEF WalkInv
    <3>3. CASE at # 0
      <4>1. phase = "built"
        BY <1>3, <3>3, WalkIs
      <4> QED BY <2>1, <4>1, BuiltStays DEF GraphInv
    <3> QED BY <3>2, <3>3
  <2>2. CASE Start
    BY <1>3, <2>2, WalkStart
  <2>3. CASE Settle
    BY <1>3, <2>3, WalkSettle
  <2>4. CASE PassFlag
    BY <1>3, <2>4, WalkFlag
  <2>5. CASE Execute
    BY <1>3, <2>5, WalkExecute
  <2>6. ASSUME NEW holds \in BOOLEAN, Decide(holds) PROVE WalkInv'
    BY <1>3, <2>6, WalkDecide
  <2>7. CASE Solve
    <3>1. UNCHANGED <<cfgVars, walkVars, seVars>>
      BY <2>7 DEF Solve
    <3> QED BY <3>1, WalkSame
  <2>8. CASE UNCHANGED vars
    <3>1. UNCHANGED <<cfgVars, walkVars, seVars>>
      BY <2>8 DEF vars
    <3> QED BY <3>1, WalkSame
  <2> QED BY <2>1, <2>2, <2>3, <2>4, <2>5, <2>6, <2>7, <2>8 DEF Next, Walk
<1> QED BY <1>2, <1>3

(* The invariant of the walk holds in every reachable state.               *)
LEMMA WalkInvAlways == Spec => [](GraphInv /\ WalkInv)
<1>1. Init => GraphInv /\ WalkInv
  BY InitWalkInv
<1>2. GraphInv /\ WalkInv /\ [Next]_vars => (GraphInv /\ WalkInv)'
  BY StepGraphInv, StepWalkInv
<1> QED BY <1>1, <1>2, PTL DEF Spec

(* For every function without goto: a path of the graph is an execution of *)
(* the function.  At each node that shows something, the execution has come *)
(* to the same statement or condition.                                     *)
THEOREM PathsExecute == Spec => [](NoGoto(fn) => PathsAreExecutions)
<1>1. GraphInv /\ WalkInv => (NoGoto(fn) => PathsAreExecutions)
  <2> SUFFICES ASSUME GraphInv, WalkInv, NoGoto(fn), AtEvent PROVE Agrees
    BY DEF PathsAreExecutions
  <2>1. at # 0
    BY DEF AtEvent
  <2>2. Regular(fn) /\ phase = "built" /\ at \in stmList
    BY <2>1, WalkIs
  <2>3. PICK N, V, P : StandsAt(N, V, P, at, control)
    BY <2>1, WalkIs
  <2> QED BY <2>2, <2>3, EventNode
<1> QED BY <1>1, WalkInvAlways, PTL

(* For every function without goto: when a statement or a condition is     *)
(* reached, the scope level is above the depth of the blocks, and every    *)
(* variable in scope is in the table.                                      *)
THEOREM VariablesStay == Spec => [](NoGoto(fn) => VariablesKept)
<1>1. GraphInv /\ WalkInv => (NoGoto(fn) => VariablesKept)
  <2> SUFFICES ASSUME GraphInv, WalkInv, NoGoto(fn), AtEvent, Running
               PROVE  /\ scopeLevel >= 1 + Depth(control)
                      /\ \A i \in DOMAIN env : Found(env[i].name) # {}
    BY DEF VariablesKept
  <2>1. at # 0
    BY DEF AtEvent
  <2>2. Regular(fn) /\ phase = "built" /\ at \in stmList
    BY <2>1, WalkIs
  <2>3. PICK N, V, P :
          /\ StandsAt(N, V, P, at, control)
          /\ Running => \E m : Tracks(N, table, env, at, scopeLevel, P[Len(control)], m, Depth(control))
    BY <2>1, WalkIs
  <2>4. PICK m : Tracks(N, table, env, at, scopeLevel, P[Len(control)], m, Depth(control))
    BY <2>3
  <2>5. /\ Joined(N, P[Len(control)], at) /\ at \in DOMAIN N
        /\ N[at].kind \notin {"forward"} \cup Flags
    BY <2>2, <2>3, EventNode
  <2>6. scopeLevel >= 1 + Depth(control)
    BY <2>4, <2>5, TracksEvent
  <2>7. ASSUME NEW i \in DOMAIN env PROVE Found(env[i].name) # {}
    <3>1. PICK j : Holder(N, table, env[i], at, scopeLevel, P[Len(control)], m, Depth(control), j)
      BY <2>4 DEF Tracks
    <3> QED BY <3>1 DEF Holder, Found
  <2> QED BY <2>6, <2>7
<1> QED BY <1>1, WalkInvAlways, PTL

(* Every name once; the same name has the same value. *)
Unique(s) == \A i, j \in DOMAIN s : s[i].name = s[j].name => i = j
SameValues(e, tab) ==
  \A i \in DOMAIN e, j \in DOMAIN tab : e[i].name = tab[j].name => e[i].val = tab[j].val

(* The invariant of the values: while the table is in use and no name was  *)
(* shadowed, table and execution have the same values.                     *)
ValueInv ==
  at # 0 =>
    /\ Unique(table)
    /\ ~shadowed => Unique(env)
    /\ Running /\ ~shadowed => SameValues(env, table)

(* Elements of a sequence of its own *)
Fewer(o, e) ==
  /\ \A n \in DOMAIN e : \E i \in DOMAIN o : e[n] = o[i]
  /\ \A m, n \in DOMAIN e : m # n => \E i, j \in DOMAIN o : i # j /\ e[m] = o[i] /\ e[n] = o[j]

(* Fewer entries have unique names when all have.                          *)
LEMMA FewerUnique ==
  ASSUME NEW o, NEW e, Fewer(o, e), Unique(o)
  PROVE  Unique(e)
<1> SUFFICES ASSUME NEW m \in DOMAIN e, NEW n \in DOMAIN e, e[m].name = e[n].name, m # n PROVE FALSE
  BY DEF Unique
<1>1. PICK i \in DOMAIN o, j \in DOMAIN o : i # j /\ e[m] = o[i] /\ e[n] = o[j]
  BY DEF Fewer
<1>2. o[i].name = o[j].name
  BY <1>1
<1> QED BY <1>1, <1>2 DEF Unique

(* Fewer entries agree in their values when all do.                        *)
LEMMA FewerSame ==
  ASSUME NEW o, NEW e, Fewer(o, e), NEW p, NEW t, Fewer(p, t), SameValues(o, p)
  PROVE  SameValues(e, t)
<1> SUFFICES ASSUME NEW m \in DOMAIN e, NEW n \in DOMAIN t, e[m].name = t[n].name
             PROVE  e[m].val = t[n].val
  BY DEF SameValues
<1>1. PICK i \in DOMAIN o : e[m] = o[i]
  BY DEF Fewer
<1>2. PICK j \in DOMAIN p : t[n] = p[j]
  BY DEF Fewer
<1>3. o[i].name = p[j].name
  BY <1>1, <1>2
<1>4. o[i].val = p[j].val
  BY <1>3 DEF SameValues
<1> QED BY <1>1, <1>2, <1>4

(* All entries are among themselves.                                       *)
LEMMA FewerSelf ==
  ASSUME NEW o
  PROVE  Fewer(o, o)
BY DEF Fewer

(* The variables left in scope are among all.                              *)
LEMMA FewerOuter ==
  ASSUME NEW T, NEW e \in Seq(Entries(T)), NEW k
  PROVE  Fewer(e, Outer(e, k))
<1>1. PICK d, u : d = Depth(k) /\ u = Outer(e, k)
  OBVIOUS
<1>2. Remain(e, d, u)
  BY <1>1, OuterIs
<1>3. Fewer(e, u)
  BY <1>2 DEF Remain, Fewer
<1> QED BY <1>1, <1>3

(* The entries left by deleteScopeLevelAt are among all.                   *)
LEMMA FewerDeleted ==
  ASSUME NEW T, table \in Seq(Entries(T)), NEW l, NEW u, u = deleteScopeLevelAt(l)
  PROVE  Fewer(table, u)
<1>1. /\ \A n \in DOMAIN u : \E i \in DOMAIN table : table[i].level # l /\ u[n] = table[i]
      /\ \A m, n \in DOMAIN u :
           m # n => \E i, j \in DOMAIN table : i # j /\ u[m] = table[i] /\ u[n] = table[j]
  BY deleteIs
<1> QED BY <1>1 DEF Fewer
-----------------------------------------------------------------------------
(* What has to be shown of a step that only leaves variables and entries *)
LEMMA ValueFewer ==
  ASSUME ValueInv, at # 0, shadowed' = shadowed, Running' => Running,
         Fewer(env, env'), Fewer(table, table')
  PROVE  ValueInv'
<1>1. PICK e, t, b : e = env' /\ t = table' /\ b = shadowed'
  OBVIOUS
<1>2. Unique(t)
  BY <1>1, FewerUnique DEF ValueInv
<1>3. ~b => Unique(e)
  BY <1>1, FewerUnique DEF ValueInv
<1>4. Running' /\ ~b => SameValues(e, t)
  BY <1>1, FewerSame DEF ValueInv
<1>5. Unique(table)' <=> Unique(t)
  BY <1>1 DEF Unique
<1>6. Unique(env)' <=> Unique(e)
  BY <1>1 DEF Unique
<1>7. SameValues(env, table)' <=> SameValues(e, t)
  BY <1>1 DEF SameValues
<1> QED BY <1>1, <1>2, <1>3, <1>4, <1>5, <1>6, <1>7 DEF ValueInv

(* At an event every variable in scope is in the table. *)
LEMMA EventFound ==
  ASSUME GraphInv, WalkInv, NoGoto(fn), AtEvent, Running
  PROVE  \A i \in DOMAIN env : \E j \in DOMAIN table : table[j].name = env[i].name
<1>1. at # 0
  BY DEF AtEvent
<1>2. PICK N, V, P :
        /\ StandsAt(N, V, P, at, control)
        /\ Running => \E m : Tracks(N, table, env, at, scopeLevel, P[Len(control)], m, Depth(control))
  BY <1>1, WalkIs
<1>3. PICK m : Tracks(N, table, env, at, scopeLevel, P[Len(control)], m, Depth(control))
  BY <1>2
<1>4. ASSUME NEW i \in DOMAIN env PROVE \E j \in DOMAIN table : table[j].name = env[i].name
  <2>1. PICK j : Holder(N, table, env[i], at, scopeLevel, P[Len(control)], m, Depth(control), j)
    BY <1>3 DEF Tracks
  <2> QED BY <2>1 DEF Holder
<1> QED BY <1>4

(* A place that is the only one of its name is the last and the first. *)
LEMMA OnlyOne ==
  ASSUME NEW T, NEW e \in Seq(Entries(T)), Unique(e), NEW name, NEW i \in DOMAIN e, e[i].name = name
  PROVE  LastOf(Named(e, name)) = i /\ FirstOf(Named(e, name)) = i
<1>1. PICK S : S = Named(e, name)
  OBVIOUS
<1>2. S = {i}
  BY <1>1 DEF Named, Unique
<1>3. S \in SUBSET Nat
  BY <1>1 DEF Named
<1>4. FirstOf(S) \in S /\ LastOf(S) = i
  BY <1>2, <1>3, FirstLast
<1> QED BY <1>1, <1>2, <1>4

(* What is computed for a statement is what it means. *)
LEMMA MeantSymbolic ==
  ASSUME NEW T, env \in Seq(Entries(T)), table \in Seq(Entries(Vals)),
         Unique(env), Unique(table), SameValues(env, table),
         \A i \in DOMAIN env : \E j \in DOMAIN table : table[j].name = env[i].name,
         NEW stm, stm.from # "" => \E i \in DOMAIN env : env[i].name = stm.from
  PROVE  Meant(stm) = Symbolic(stm)
<1>1. CASE stm.from = ""
  BY <1>1 DEF Meant, Symbolic
<1>2. CASE stm.from # ""
  <2>1. PICK i \in DOMAIN env : env[i].name = stm.from
    BY <1>2
  <2>2. PICK j \in DOMAIN table : table[j].name = stm.from
    BY <2>1
  <2>3. LastOf(Named(env, stm.from)) = i
    BY <2>1, OnlyOne
  <2>4. FirstOf(Named(table, stm.from)) = j
    BY <2>2, OnlyOne
  <2>5. Found(stm.from) = Named(table, stm.from) /\ Found(stm.from) # {}
    BY <2>2 DEF Found, Named
  <2>6. LastOf({n \in DOMAIN env : env[n].name = stm.from}) = i
    BY <2>3 DEF Named
  <2>7. env[i].val = table[j].val
    BY <2>1, <2>2 DEF SameValues
  <2> QED BY <1>2, <2>4, <2>5, <2>6, <2>7 DEF Meant, Symbolic
<1> QED BY <1>1, <1>2

-----------------------------------------------------------------------------
(* The values agree at the start.                                          *)
LEMMA ValueStart ==
  ASSUME GraphInv, ValueInv, Start
  PROVE  ValueInv'
<1>1. fn \in Functions
  BY DEF GraphInv, IInv, Shape
<1>2. PICK p : p = Parameters(fn)
  OBVIOUS
<1>3. env' = p /\ table' = p
  BY <1>2 DEF Start
<1>4. /\ DOMAIN p = DOMAIN fn.params
      /\ \A i \in DOMAIN fn.params : p[i].name = fn.params[i]
  BY <1>1, <1>2, ParametersOk
<1>5. \A i, j \in DOMAIN fn.params : fn.params[i] = fn.params[j] => i = j
  BY <1>1, DataAssumption
<1>6. \A i, j \in DOMAIN p : p[i].name = p[j].name => i = j
  BY <1>4, <1>5
<1>7. Unique(table)' /\ Unique(env)' /\ SameValues(env, table)'
  BY <1>3, <1>6 DEF Unique, SameValues
<1> QED BY <1>7 DEF ValueInv

(* A silent step keeps the values in agreement.                            *)
LEMMA ValueSettle ==
  ASSUME GraphInv, WalkInv, ValueInv, NoGoto(fn), Settle
  PROVE  ValueInv'
<1>1. /\ at # 0 /\ env' = Outer(env, control') /\ shadowed' = shadowed /\ table' = table
      /\ (Running' <=> Running)
  BY DEF Settle, Leave, seVars, Running
<1>2. PICK T : env \in Seq(Entries(T))
  BY <1>1, WalkIs
<1>3. PICK k, e, t : k = control' /\ e = env' /\ t = table'
  OBVIOUS
<1>4. Fewer(env, e) /\ Fewer(table, t)
  BY <1>1, <1>2, <1>3, FewerOuter, FewerSelf
<1>5. Fewer(env, env') /\ Fewer(table, table')
  BY <1>3, <1>4
<1> QED BY <1>1, <1>5, ValueFewer

(* Passing a flag or scope node does.                                      *)
LEMMA ValueFlag ==
  ASSUME GraphInv, WalkInv, ValueInv, NoGoto(fn), PassFlag
  PROVE  ValueInv'
<1>1. /\ at # 0 /\ env' = env /\ shadowed' = shadowed /\ (Running' <=> Running)
      /\ table' = table \/ table' = deleteScopeLevelAt(scopeLevel)
  BY DEF PassFlag, Running
<1>2. table \in Seq(Entries(Vals))
  BY <1>1, WalkIs
<1>3. PICK e, t : e = env' /\ t = table'
  OBVIOUS
<1>4. Fewer(table, t)
  BY <1>1, <1>2, <1>3, FewerDeleted, FewerSelf
<1>5. Fewer(env, env') /\ Fewer(table, table')
  BY <1>1, <1>3, <1>4, FewerSelf
<1> QED BY <1>1, <1>5, ValueFewer

(* A decision does.                                                        *)
LEMMA ValueDecide ==
  ASSUME GraphInv, WalkInv, ValueInv, NoGoto(fn), NEW holds \in BOOLEAN, Decide(holds)
  PROVE  ValueInv'
<1>1. /\ at # 0 /\ env' = Outer(env, control') /\ shadowed' = shadowed /\ table' = table
      /\ (Running' => Running)
  BY DEF Decide, Leave, Running, AddConstraint, AtEvent
<1>2. PICK T : env \in Seq(Entries(T))
  BY <1>1, WalkIs
<1>3. PICK k, e, t : k = control' /\ e = env' /\ t = table'
  OBVIOUS
<1>4. Fewer(env, e) /\ Fewer(table, t)
  BY <1>1, <1>2, <1>3, FewerOuter, FewerSelf
<1>5. Fewer(env, env') /\ Fewer(table, table')
  BY <1>3, <1>4
<1> QED BY <1>1, <1>5, ValueFewer

(* The variables with the one named set to v *)
Sole(e, name, v, new) ==
  /\ \A i \in DOMAIN new : new[i].name = name => new[i].val = v
  /\ \A i \in DOMAIN new : new[i].name # name =>
       i \in DOMAIN e /\ new[i].name = e[i].name /\ new[i].val = e[i].val

(* Setting the same name to the same value on both sides does.             *)
LEMMA PutsSame ==
  ASSUME NEW e, NEW tab, SameValues(e, tab), NEW name, NEW v, NEW u, NEW t,
         Sole(e, name, v, u), Sole(tab, name, v, t)
  PROVE  SameValues(u, t)
<1> SUFFICES ASSUME NEW i \in DOMAIN u, NEW j \in DOMAIN t, u[i].name = t[j].name
             PROVE  u[i].val = t[j].val
  BY DEF SameValues
<1>1. CASE u[i].name = name
  BY <1>1 DEF Sole
<1>2. CASE u[i].name # name
  <2>1. i \in DOMAIN e /\ u[i].name = e[i].name /\ u[i].val = e[i].val
    BY <1>2 DEF Sole
  <2>2. j \in DOMAIN tab /\ t[j].name = tab[j].name /\ t[j].val = tab[j].val
    BY <1>2 DEF Sole
  <2> QED BY <2>1, <2>2 DEF SameValues
<1> QED BY <1>1, <1>2

(* One value is stored, in the one place of its name. *)
LEMMA SetsPuts ==
  ASSUME NEW T, NEW o \in Seq(Entries(T)), Unique(o), NEW name, NEW v, NEW a, NEW n, Sets(o, n, a, v),
         \A i \in DOMAIN o : o[i].name = name => i = a, a \in DOMAIN o => o[a].name = name
  PROVE  Sole(o, name, v, n) /\ Unique(n)
<1>1. Sole(o, name, v, n)
  BY DEF Sole, Sets
<1>2. Unique(n)
  <2> SUFFICES ASSUME NEW i \in DOMAIN n, NEW j \in DOMAIN n, n[i].name = n[j].name PROVE i = j
    BY DEF Unique
  <2>1. i \in DOMAIN o /\ j \in DOMAIN o /\ o[i].name = o[j].name
    BY DEF Sets
  <2> QED BY <2>1 DEF Unique
<1> QED BY <1>1, <1>2

(* The table after a statement that sets a variable *)
LEMMA TabledPuts ==
  ASSUME table \in Seq(Entries(Vals)), Unique(table), NEW stm, stm.var \in Names,
         NEW l \in Int, NEW w \in Vals, NEW new, new = Assigned(Tabled(stm, l), stm.var, w)
  PROVE  Sole(table, stm.var, w, new) /\ Unique(new)
<1>1. PICK old : old = Tabled(stm, l)
  OBVIOUS
<1>2. /\ old \in Seq(Entries(Vals)) /\ DOMAIN table \subseteq DOMAIN old /\ Unique(old)
      /\ \A i \in DOMAIN table : old[i] = table[i]
      /\ \A i \in DOMAIN old : i \in DOMAIN table \/ old[i].name = stm.var
  <2>1. CASE stm.kind = "decl"
    <3>1. old = Added(stm.var, l)
      BY <1>1, <2>1 DEF Tabled
    <3>2. /\ old \in Seq(Entries(Vals)) /\ DOMAIN table \subseteq DOMAIN old
          /\ \A i \in DOMAIN table : old[i] = table[i]
          /\ \A i \in DOMAIN old :
               \/ i \in DOMAIN table
               \/ /\ old[i] = [name |-> stm.var, level |-> l, val |-> Zero]
                  /\ i = Len(table) + 1 /\ \A j \in DOMAIN table : table[j].name # stm.var
      BY <3>1, AddedIs
    <3>3. \A i \in DOMAIN old : i \in DOMAIN table \/ old[i].name = stm.var
      BY <3>2
    <3>4. ASSUME NEW i \in DOMAIN old, NEW j \in DOMAIN old, old[i].name = old[j].name PROVE i = j
      <4>1. CASE i \in DOMAIN table /\ j \in DOMAIN table
        BY <3>2, <3>4, <4>1 DEF Unique
      <4>2. CASE i \notin DOMAIN table /\ j \notin DOMAIN table
        BY <3>2, <4>2
      <4>3. CASE i \in DOMAIN table /\ j \notin DOMAIN table
        <5>1. old[i].name = table[i].name /\ table[i].name # stm.var /\ old[j].name = stm.var
          BY <3>2, <3>3, <4>3
        <5> QED BY <3>4, <5>1
      <4>4. CASE i \notin DOMAIN table /\ j \in DOMAIN table
        <5>1. old[j].name = table[j].name /\ table[j].name # stm.var /\ old[i].name = stm.var
          BY <3>2, <3>3, <4>4
        <5> QED BY <3>4, <5>1
      <4> QED BY <4>1, <4>2, <4>3, <4>4
    <3>5. Unique(old)
      BY <3>4 DEF Unique
    <3> QED BY <3>2, <3>3, <3>5
  <2>2. CASE stm.kind # "decl"
    BY <1>1, <2>2 DEF Tabled
  <2> QED BY <2>1, <2>2
<1>3. new = Assigned(old, stm.var, w)
  BY <1>1
<1>4. PICK a : /\ Sets(old, new, a, w)
               /\ a \in DOMAIN old => old[a].name = stm.var
               /\ a \notin DOMAIN old => \A i \in DOMAIN old : old[i].name # stm.var
  BY <1>2, <1>3, AssignedIs
<1>5. \A i \in DOMAIN old : old[i].name = stm.var => i = a
  BY <1>2, <1>4 DEF Unique
<1>6. Sole(old, stm.var, w, new) /\ Unique(new)
  BY <1>2, <1>4, <1>5, SetsPuts
<1>7. Sole(table, stm.var, w, new)
  <2>1. \A i \in DOMAIN new : new[i].name = stm.var => new[i].val = w
    BY <1>6 DEF Sole
  <2>2. ASSUME NEW i \in DOMAIN new, new[i].name # stm.var
        PROVE  i \in DOMAIN table /\ new[i].name = table[i].name /\ new[i].val = table[i].val
    <3>1. i \in DOMAIN old /\ new[i].name = old[i].name /\ new[i].val = old[i].val
      BY <1>6, <2>2 DEF Sole
    <3>2. i \in DOMAIN table
      BY <1>2, <2>2, <3>1
    <3> QED BY <1>2, <3>1, <3>2
  <2> QED BY <2>1, <2>2 DEF Sole
<1> QED BY <1>6, <1>7

(* The variables after it.  A variable that is assigned is in scope. *)
LEMMA StoredPuts ==
  ASSUME NEW T, NEW e \in Seq(Entries(T)), Unique(e), NEW stm, stm.var \in Names, stm.kind \in Assigns,
         NEW d \in Int, NEW v \in T, NEW o, o = Declared(stm, e, d, v), NEW u, u = Stored(stm, o, v),
         stm.kind = "decl" => \A i \in DOMAIN e : e[i].name # stm.var,
         stm.kind = "expr" => \E i \in DOMAIN e : e[i].name = stm.var
  PROVE  Sole(e, stm.var, v, u) /\ Unique(u)
<1>1. /\ o \in Seq(Entries(T)) /\ DOMAIN e \subseteq DOMAIN o
      /\ \A i \in DOMAIN e : o[i] = e[i]
      /\ \A i \in DOMAIN o :
           \/ i \in DOMAIN e
           \/ stm.kind = "decl" /\ i = Len(e) + 1 /\ o[i].name = stm.var
      /\ stm.kind = "decl" => Len(e) + 1 \in DOMAIN o /\ o[Len(e) + 1].name = stm.var
  <2>1. Declares(T, e, stm, d, v, o)
    BY DeclaredIs, Zenon
  <2> QED BY <2>1 DEF Declares
<1>2. Unique(o)
  <2> SUFFICES ASSUME NEW i \in DOMAIN o, NEW j \in DOMAIN o, o[i].name = o[j].name PROVE i = j
    BY DEF Unique
  <2>1. CASE i \in DOMAIN e /\ j \in DOMAIN e
    BY <1>1, <2>1 DEF Unique
  <2>2. CASE i \notin DOMAIN e /\ j \notin DOMAIN e
    BY <1>1, <2>2
  <2>3. CASE i \in DOMAIN e /\ j \notin DOMAIN e
    BY <1>1, <2>3
  <2>4. CASE i \notin DOMAIN e /\ j \in DOMAIN e
    BY <1>1, <2>4
  <2> QED BY <2>1, <2>2, <2>3, <2>4
<1>3. \E i \in DOMAIN o : o[i].name = stm.var
  <2>1. CASE stm.kind = "decl"
    BY <1>1, <2>1
  <2>2. CASE stm.kind = "expr"
    BY <1>1, <2>2
  <2> QED BY <2>1, <2>2 DEF Assigns
<1>4. PICK i \in DOMAIN o : o[i].name = stm.var
  BY <1>3
<1>5. LastOf(Named(o, stm.var)) = i
  BY <1>1, <1>2, <1>4, OnlyOne
<1>6. Sets(o, u, i, v)
  <2>1. Sets(o, u, LastOf(Named(o, stm.var)), v)
    BY <1>1, StoredIs, Zenon
  <2> QED BY <1>5, <2>1
<1>7. \A j \in DOMAIN o : o[j].name = stm.var => j = i
  BY <1>2, <1>4 DEF Unique
<1>8. Sole(o, stm.var, v, u) /\ Unique(u)
  <2>1. i \in DOMAIN o => o[i].name = stm.var
    BY <1>4
  <2>2. o \in Seq(Entries(T))
    BY <1>1
  <2> QED BY <1>2, <1>6, <1>7, <2>1, <2>2, SetsPuts, Zenon
<1>9. Sole(e, stm.var, v, u)
  <2>1. \A j \in DOMAIN u : u[j].name = stm.var => u[j].val = v
    BY <1>8 DEF Sole
  <2>2. ASSUME NEW j \in DOMAIN u, u[j].name # stm.var
        PROVE  j \in DOMAIN e /\ u[j].name = e[j].name /\ u[j].val = e[j].val
    <3>1. j \in DOMAIN o /\ u[j].name = o[j].name /\ u[j].val = o[j].val
      BY <1>8, <2>2 DEF Sole
    <3>2. j \in DOMAIN e
      BY <1>1, <2>2, <3>1
    <3> QED BY <1>1, <3>1, <3>2
  <2> QED BY <2>1, <2>2 DEF Sole
<1> QED BY <1>8, <1>9

(* At an event the node of the graph and the frames are at the same        *)
(* statement.                                                              *)
LEMMA EventAgrees ==
  ASSUME GraphInv, WalkInv, NoGoto(fn), AtEvent
  PROVE  Agrees
<1>1. at # 0
  BY DEF AtEvent
<1>2. Regular(fn) /\ phase = "built" /\ at \in stmList
  BY <1>1, WalkIs
<1>3. PICK N, V, P : StandsAt(N, V, P, at, control)
  BY <1>1, WalkIs
<1> QED BY <1>2, <1>3, EventNode

(* What ExecuteIs needs: the statement executed is one of the function. *)
LEMMA EventStm ==
  ASSUME GraphInv, WalkInv, NoGoto(fn), AtEvent, nodes[at].kind # "end"
  PROVE  /\ nodes[at].stm \in DOMAIN fn.ast /\ fn \in Functions /\ Depth(control) \in Nat
         /\ nodes[at].stm = EventOf(fn, control).stm
<1>1. at # 0 /\ ~IsSilent(fn, control)
  BY DEF AtEvent
<1>2. Regular(fn) /\ phase = "built" /\ at \in stmList
  BY <1>1, WalkIs
<1>3. PICK N, V, P : StandsAt(N, V, P, at, control)
  BY <1>1, WalkIs
<1>4. Agrees /\ Finished(fn, N, V) /\ Placed(fn, N, V, control, P)
  BY <1>2, <1>3, EventNode DEF StandsAt
<1>5. EventOf(fn, control).kind = nodes[at].kind /\ EventOf(fn, control).stm = nodes[at].stm
  BY <1>4 DEF Agrees
<1>6. nodes[at].stm \in DOMAIN fn.ast /\ control # <<>>
  BY <1>1, <1>4, <1>5, EventFrame
<1>7. fn \in Functions
  BY DEF GraphInv, IInv, Shape
<1>8. Depth(control) \in Nat
  <2>1. CASE nodes[at].kind = "cond"
    BY <1>1, <1>4, <1>5, <1>6, <2>1, EventFrame, DepthDecided
  <2>2. CASE nodes[at].kind # "cond"
    BY <1>1, <1>4, <1>5, <1>6, <2>2, EventFrame, DepthExecuted
  <2> QED BY <2>1, <2>2
<1> QED BY <1>5, <1>6, <1>7, <1>8

(* Executing a statement keeps the values in agreement, if it uses names   *)
(* in scope only.                                                          *)
LEMMA ValueExecute ==
  ASSUME GraphInv, WalkInv, ValueInv, InScope, NoGoto(fn), Execute
  PROVE  ValueInv'
<1>1. PICK stm : stm = fn.ast[nodes[at].stm]
  OBVIOUS
<1>2. PICK v, w, d : v = Meant(stm) /\ w = Symbolic(stm) /\ d = Depth(control)
  OBVIOUS
<1>3. PICK o : o = Declared(stm, env, d, v)
  OBVIOUS
<1>4. PICK u : u = Stored(stm, o, v)
  OBVIOUS
<1>5. PICK k : k = control'
  OBVIOUS
<1>6. /\ AtEvent /\ nodes[at].kind \notin {"cond", "end"}
      /\ env' = Outer(u, k) /\ isAlwaysFalse' = isAlwaysFalse
      /\ shadowed' = (shadowed \/ (stm.kind = "decl" /\ \E i \in DOMAIN env : env[i].name = stm.var))
      /\ stopped' = (stopped \/ (Running /\ ~stm.ok))
      /\ table' = IF Running /\ stm.kind \in Assigns /\ stm.ok
                  THEN Assigned(Tabled(stm, scopeLevel), stm.var, w) ELSE table
  BY <1>1, <1>2, <1>3, <1>4, <1>5, ExecuteIs
<1>7. at # 0
  BY <1>6 DEF AtEvent
<1>8. table \in Seq(Entries(Vals)) /\ \E T : env \in Seq(Entries(T))
  BY <1>7, WalkIs
<1>9. PICK T : env \in Seq(Entries(T))
  BY <1>8
<1>10. Agrees /\ nodes[at].stm \in DOMAIN fn.ast /\ fn \in Functions /\ d \in Int
  <2>1. d \in Nat
    BY <1>2, <1>6, EventStm
  <2> QED BY <1>6, <2>1, EventAgrees, EventStm
<1>11. stm.var \in Names /\ stm.from \in Names /\ stm.add \in Int
  BY <1>1, <1>10, StmData
<1>12. /\ stm.from # "" => \E i \in DOMAIN env : env[i].name = stm.from
       /\ stm.kind = "expr" => \E i \in DOMAIN env : env[i].name = stm.var
  BY <1>1, <1>6, <1>10 DEF InScope, Evaluated, Known
<1>13. PICK R : R = T \cup {v}
  OBVIOUS
<1>14. env \in Seq(Entries(R)) /\ v \in R
  BY <1>9, <1>13, Widen
<1>15. /\ Unique(table)
       /\ ~shadowed => Unique(env)
       /\ Running /\ ~shadowed => SameValues(env, table)
  BY <1>7 DEF ValueInv
<1>16. w \in Vals
  BY <1>2, <1>8, <1>11, SymbolicOk
<1>17. ASSUME Running PROVE scopeLevel \in Int
  <2>1. PICK N, V, P :
          /\ StandsAt(N, V, P, at, control)
          /\ Running => \E m : Tracks(N, table, env, at, scopeLevel, P[Len(control)], m, Depth(control))
    BY <1>7, WalkIs
  <2> QED BY <1>17, <2>1 DEF Tracks
<1>18. PICK e, t, b : e = env' /\ t = table' /\ b = shadowed'
  OBVIOUS
<1>19. Unique(t)
  <2>1. CASE Running /\ stm.kind \in Assigns /\ stm.ok
    <3>1. t = Assigned(Tabled(stm, scopeLevel), stm.var, w) /\ scopeLevel \in Int
      BY <1>6, <1>17, <1>18, <2>1
    <3> QED BY <1>8, <1>11, <1>15, <1>16, <3>1, TabledPuts
  <2>2. CASE ~(Running /\ stm.kind \in Assigns /\ stm.ok)
    BY <1>6, <1>15, <1>18, <2>2
  <2> QED BY <2>1, <2>2
<1>20. o \in Seq(Entries(R))
  <2>1. Declares(R, env, stm, d, v, o)
    BY <1>3, <1>10, <1>11, <1>14, DeclaredIs, Zenon
  <2> QED BY <2>1 DEF Declares
<1>21. /\ u \in Seq(Entries(R))
       /\ stm.kind \notin Assigns => u = env
  <2>1. u \in Seq(Entries(R)) /\ (stm.kind \notin Assigns => u = o)
    BY <1>4, <1>14, <1>20, StoredIs
  <2>2. stm.kind \notin Assigns => o = env
    BY <1>3 DEF Declared, Assigns
  <2> QED BY <2>1, <2>2
<1>22. Fewer(u, e)
  BY <1>6, <1>18, <1>21, FewerOuter
<1>23. ASSUME ~b PROVE ~shadowed /\ Unique(env) /\ (stm.kind = "decl" => \A i \in DOMAIN env : env[i].name # stm.var)
  BY <1>6, <1>15, <1>18, <1>23
<1>24. ASSUME ~b, stm.kind \in Assigns PROVE Sole(env, stm.var, v, u) /\ Unique(u)
  <2>1. Unique(env) /\ (stm.kind = "decl" => \A i \in DOMAIN env : env[i].name # stm.var)
    BY <1>23, <1>24
  <2> QED BY <1>3, <1>4, <1>10, <1>11, <1>12, <1>14, <1>24, <2>1, StoredPuts
<1>25. ASSUME ~b PROVE Unique(e)
  <2>1. Unique(u)
    BY <1>21, <1>23, <1>24, <1>25
  <2> QED BY <1>22, <2>1, FewerUnique
<1>26. ASSUME ~b, Running' PROVE SameValues(e, t)
  <2>1. Running /\ stm.ok
    BY <1>6, <1>26 DEF Running
  <2>2. ~shadowed /\ Unique(env) /\ SameValues(env, table)
    BY <1>15, <1>23, <1>26, <2>1
  <2>3. SameValues(u, t)
    <3>1. CASE stm.kind \in Assigns
      <4>1. \A i \in DOMAIN env : \E j \in DOMAIN table : table[j].name = env[i].name
        BY <1>6, <2>1, EventFound
      <4>2. v = w
        BY <1>2, <1>8, <1>9, <1>12, <1>15, <2>2, <4>1, MeantSymbolic
      <4>3. t = Assigned(Tabled(stm, scopeLevel), stm.var, w) /\ scopeLevel \in Int
        BY <1>6, <1>17, <1>18, <2>1, <3>1
      <4>4. Sole(table, stm.var, w, t)
        BY <1>8, <1>11, <1>15, <1>16, <4>3, TabledPuts
      <4>5. Sole(env, stm.var, w, u)
        BY <1>24, <1>26, <3>1, <4>2
      <4> QED BY <2>2, <4>4, <4>5, PutsSame
    <3>2. CASE stm.kind \notin Assigns
      BY <1>6, <1>18, <1>21, <2>2, <3>2
    <3> QED BY <3>1, <3>2
  <2> QED BY <1>22, <2>3, FewerSelf, FewerSame
<1>27. Unique(table)' <=> Unique(t)
  BY <1>18 DEF Unique
<1>28. Unique(env)' <=> Unique(e)
  BY <1>18 DEF Unique
<1>29. SameValues(env, table)' <=> SameValues(e, t)
  BY <1>18 DEF SameValues
<1> QED BY <1>18, <1>19, <1>25, <1>26, <1>27, <1>28, <1>29 DEF ValueInv

(* A step that changes nothing does.                                       *)
LEMMA ValueSame ==
  ASSUME ValueInv, UNCHANGED <<cfgVars, walkVars, seVars>>
  PROVE  ValueInv'
<1>1. at' = at /\ env' = env /\ table' = table /\ shadowed' = shadowed /\ (Running' <=> Running)
  BY DEF walkVars, seVars, Running
<1>2. CASE at = 0
  BY <1>1, <1>2 DEF ValueInv
<1>3. CASE at # 0
  <2>1. PICK e, t : e = env' /\ t = table'
    OBVIOUS
  <2>2. Fewer(env, e) /\ Fewer(table, t)
    BY <1>1, <2>1, FewerSelf
  <2>3. Fewer(env, env') /\ Fewer(table, table')
    BY <2>1, <2>2
  <2> QED BY <1>1, <1>3, <2>3, ValueFewer
<1> QED BY <1>2, <1>3

(* Every step keeps the values in agreement.                               *)
LEMMA StepValueInv ==
  GraphInv /\ WalkInv /\ (NoGoto(fn) => ValueInv) /\ InScope /\ [Next]_vars => (NoGoto(fn) => ValueInv)'
<1> SUFFICES ASSUME GraphInv, WalkInv, NoGoto(fn) => ValueInv, InScope, [Next]_vars, NoGoto(fn)'
             PROVE  ValueInv'
  OBVIOUS
<1>1. NoGoto(fn)
  <2>1. [CfgNext]_cfgVars
    BY WalkKeepsGraph DEF Next, vars
  <2>2. fn' = fn
    BY <2>1, FnKept
  <2> QED BY <2>2
<1>2. ValueInv
  BY <1>1
<1>3. CASE CfgNext /\ UNCHANGED <<walkVars, seVars, answer>>
  <2>1. at' = at
    BY <1>3 DEF walkVars
  <2>2. CASE at = 0
    BY <2>1, <2>2 DEF ValueInv
  <2>3. CASE at # 0
    <3>1. phase = "built"
      BY <1>1, <2>3, WalkIs
    <3> QED BY <1>3, <3>1, BuiltStays DEF GraphInv
  <2> QED BY <2>2, <2>3
<1>4. CASE Start
  BY <1>2, <1>4, ValueStart
<1>5. CASE Settle
  BY <1>1, <1>2, <1>5, ValueSettle
<1>6. CASE PassFlag
  BY <1>1, <1>2, <1>6, ValueFlag
<1>7. CASE Execute
  BY <1>1, <1>2, <1>7, ValueExecute
<1>8. ASSUME NEW holds \in BOOLEAN, Decide(holds) PROVE ValueInv'
  BY <1>1, <1>2, <1>8, ValueDecide
<1>9. CASE Solve
  <2>1. UNCHANGED <<cfgVars, walkVars, seVars>>
    BY <1>9 DEF Solve
  <2> QED BY <1>2, <2>1, ValueSame
<1>10. CASE UNCHANGED vars
  <2>1. UNCHANGED <<cfgVars, walkVars, seVars>>
    BY <1>10 DEF vars
  <2> QED BY <1>2, <2>1, ValueSame
<1> QED BY <1>3, <1>4, <1>5, <1>6, <1>7, <1>8, <1>9, <1>10 DEF Next, Walk

(* The values agree in every reachable state.                              *)
LEMMA ValueInvAlways == Spec /\ []InScope => [](GraphInv /\ WalkInv /\ (NoGoto(fn) => ValueInv))
<1>1. Init => (NoGoto(fn) => ValueInv)
  BY DEF Init, ValueInv
<1> QED BY <1>1, WalkInvAlways, StepValueInv, PTL DEF Spec

(* For every function without goto that uses no name out of scope: as long *)
(* as no name is declared while another of that name is in scope, the      *)
(* table has, for every variable in scope, the value that the program has  *)
(* computed along the path, whatever the loops, the breaks and the         *)
(* declarations that are met again.                                        *)
THEOREM ValuesAgree == Spec /\ []InScope => [](NoGoto(fn) => ValuesExact)
<1>1. GraphInv /\ WalkInv /\ (NoGoto(fn) => ValueInv) => (NoGoto(fn) => ValuesExact)
  <2> SUFFICES ASSUME GraphInv, WalkInv, ValueInv, NoGoto(fn), AtEvent, Running, ~shadowed,
                      NEW i \in DOMAIN env
               PROVE  table[FirstOf(Found(env[i].name))].val = env[i].val
    BY DEF ValuesExact
  <2>1. at # 0
    BY DEF AtEvent
  <2>2. Unique(table) /\ SameValues(env, table)
    BY <2>1 DEF ValueInv
  <2>3. table \in Seq(Entries(Vals))
    BY <2>1, WalkIs
  <2>4. PICK j \in DOMAIN table : table[j].name = env[i].name
    BY EventFound
  <2>5. FirstOf(Named(table, env[i].name)) = j
    BY <2>2, <2>3, <2>4, OnlyOne
  <2>6. FirstOf(Found(env[i].name)) = j
    BY <2>5 DEF Found, Named
  <2> QED BY <2>2, <2>4, <2>6 DEF SameValues
<1> QED BY <1>1, ValueInvAlways, PTL

(* The condition of a node is about a variable or a constant; a name alone *)
(* holds for 1 and not for 0.                                              *)
LEMMA ConditionData ==
  ASSUME fn \in Functions, Regular(fn), NEW s \in DOMAIN fn.ast, NEW c, c = ConditionOf(s)
  PROVE  /\ c.from \in Names /\ c.add \in Int
         /\ c.bare => 1 \in c.in /\ 0 \notin c.in
         /\ (\A t \in DOMAIN fn.ast : ~fn.ast[t].bare) => ~c.bare
<1>1. \A t \in DOMAIN fn.ast :
        /\ fn.ast[t].from \in Names /\ fn.ast[t].add \in Int
        /\ fn.ast[t].bare => 1 \in fn.ast[t].in /\ 0 \notin fn.ast[t].in
        /\ fn.ast[t].kind = "switch" => ~fn.ast[fn.ast[t].kids[1]].bare
  BY DataAssumption, StmData
<1>2. CASE fn.ast[s].kind # "case"
  BY <1>1, <1>2 DEF ConditionOf
<1>3. CASE fn.ast[s].kind = "case"
  <2>1. PICK p, i : p = Parent(fn, s) /\ i = Index(fn, s)
    OBVIOUS
  <2>2. p \in DOMAIN fn.ast /\ Kind(fn, p) = "switch"
    BY <1>3, <2>1 DEF Regular, Comparable, Labels
  <2>3. /\ fn.ast[p].kind = "switch" /\ Parts(fn, p) \in Seq({0} \cup DOMAIN fn.ast)
        /\ HasParts(fn.ast[p]) /\ Grammatical(fn, p)
    BY <2>2, StmOk
  <2>4. PICK t : t = Parts(fn, p)[1]
    OBVIOUS
  <2>5. fn.ast[p].kids[1] = t /\ t \in DOMAIN fn.ast
    <3>1. fn.ast[p].kids = Parts(fn, p) /\ Len(Parts(fn, p)) >= 1
      BY <2>3 DEF HasParts, Parts
    <3>2. t \in {0} \cup DOMAIN fn.ast
      BY <2>3, <2>4, <3>1
    <3>3. t # 0
      BY <2>3, <2>4, <3>1 DEF Grammatical, PartKind
    <3> QED BY <2>4, <3>1, <3>2, <3>3
  <2>6. PICK I : I = UNION {fn.ast[Parts(fn, p)[j]].in : j \in i .. RunEnd(fn, p, i) - 1}
    OBVIOUS
  <2>7. c = [from |-> fn.ast[t].from, add |-> fn.ast[t].add, bare |-> fn.ast[t].bare,
             ok |-> fn.ast[t].ok, in |-> I]
    BY <1>3, <2>1, <2>4, <2>6 DEF ConditionOf
  <2>8. ~fn.ast[t].bare
    BY <1>1, <2>2, <2>3, <2>5
  <2>9. fn.ast[t].from \in Names /\ fn.ast[t].add \in Int
    BY <1>1, <2>5
  <2>10. c.from = fn.ast[t].from /\ c.add = fn.ast[t].add /\ c.bare = fn.ast[t].bare
    BY <2>7
  <2> QED BY <2>8, <2>9, <2>10
<1> QED BY <1>2, <1>3

-----------------------------------------------------------------------------
(* Input goes through the constraints. *)
Satisfies(cs, input) == \A i \in DOMAIN cs : Eval(cs[i].val, input) \in cs[i].in

(* The constraints with c added, unless it is constant *)
Kept(cs, c) == IF c.val.in = "" THEN cs ELSE Append(cs, c)

(* The inputs that satisfy one more constraint.                            *)
LEMMA AppendIs ==
  ASSUME NEW S, NEW cs \in Seq(S), NEW c, NEW new, new = Append(cs, c), NEW input
  PROVE  /\ new \in Seq(S \cup {c})
         /\ Satisfies(new, input) <=> Satisfies(cs, input) /\ Eval(c.val, input) \in c.in
<1>1. PICK R : R = S \cup {c}
  OBVIOUS
<1>2. cs \in Seq(R) /\ c \in R
  <2>1. \A i \in 1 .. Len(cs) : cs[i] \in R
    BY <1>1
  <2>2. Len(cs) \in Nat /\ cs = [i \in 1 .. Len(cs) |-> cs[i]]
    OBVIOUS
  <2> QED BY <1>1, <2>1, <2>2, SeqOf
<1>3. /\ new \in Seq(R) /\ DOMAIN new = 1 .. Len(cs) + 1 /\ DOMAIN cs = 1 .. Len(cs)
      /\ Len(cs) \in Nat /\ new[Len(cs) + 1] = c
      /\ \A i \in DOMAIN cs : new[i] = cs[i]
  BY <1>2
<1>4. /\ Len(cs) + 1 \in DOMAIN new /\ DOMAIN cs \subseteq DOMAIN new
      /\ \A i \in DOMAIN new : i \in DOMAIN cs \/ i = Len(cs) + 1
  BY <1>3
<1>5. Satisfies(new, input) <=> Satisfies(cs, input) /\ Eval(c.val, input) \in c.in
  BY <1>3, <1>4 DEF Satisfies
<1> QED BY <1>1, <1>3, <1>5

(* The inputs that satisfy the constraints when one about an input is      *)
(* kept.                                                                   *)
LEMMA KeptIs ==
  ASSUME NEW S, NEW cs \in Seq(S), NEW c, c.val.in # "", NEW new, new = Kept(cs, c), NEW input
  PROVE  /\ new \in Seq(S \cup {c})
         /\ Satisfies(new, input) <=> Satisfies(cs, input) /\ Eval(c.val, input) \in c.in
<1>1. new = Append(cs, c)
  BY DEF Kept
<1> QED BY <1>1, AppendIs, Zenon

(* A constant is the same for every input. *)
LEMMA MembersOf ==
  ASSUME NEW S, NEW p \in Seq(S)
  PROVE  \A i \in DOMAIN p : p[i] \in S
OBVIOUS

(* Zero is neutral.                                                        *)
LEMMA AndZero == \A x \in Int : x + 0 = x
OBVIOUS

(* A constant has its value on every input.                                *)
LEMMA ConstantEval ==
  ASSUME fn \in Functions, NEW input \in Inputs, NEW v, v.in = "", v.off \in Int
  PROVE  Eval(v, input) = v.off
<1>1. DOMAIN input = ParamsOf(fn)
  BY DEF Inputs
<1>2. "" \notin ParamsOf(fn)
  <2>1. fn.params \in Seq(STRING \ {""})
    BY DataAssumption
  <2>2. PICK S : S = STRING \ {""}
    OBVIOUS
  <2>3. \A i \in DOMAIN fn.params : fn.params[i] \in S
    BY <2>1, <2>2, MembersOf, Zenon
  <2> QED BY <2>2, <2>3 DEF ParamsOf
<1>3. v.in \notin DOMAIN input
  BY <1>1, <1>2, Zenon
<1>4. Eval(v, input) = v.off + 0
  BY <1>3, Zenon DEF Eval
<1> QED BY <1>4, AndZero, Zenon

(* Constraint r is constant and does not hold. *)
Refuted(r) == r.val.in = "" /\ r.val.off \notin r.in

(* The inputs that satisfy the constraints after one is kept or, being     *)
(* constant, dropped or refuted.                                           *)
LEMMA KeptOk ==
  ASSUME fn \in Functions, NEW S, NEW cs \in Seq(S), NEW r, r.val.off \in Int,
         NEW new, new = Kept(cs, r)
  PROVE  /\ \E T : new \in Seq(T)
         /\ \A input \in Inputs :
              /\ Refuted(r) => Eval(r.val, input) \notin r.in
              /\ Satisfies(new, input) => Satisfies(cs, input)
              /\ ~Refuted(r) =>
                   (Satisfies(new, input) <=> Satisfies(cs, input) /\ Eval(r.val, input) \in r.in)
<1>1. CASE r.val.in = ""
  <2>1. new = cs
    BY <1>1 DEF Kept
  <2>2. \A input \in Inputs : Eval(r.val, input) = r.val.off
    BY <1>1, ConstantEval
  <2> QED BY <1>1, <2>1, <2>2, Zenon DEF Refuted
<1>2. CASE r.val.in # ""
  <2>1. ~Refuted(r)
    BY <1>2 DEF Refuted
  <2>2. new \in Seq(S \cup {r})
    BY <1>2, KeptIs, Zenon
  <2>3. \A input : Satisfies(new, input) <=> Satisfies(cs, input) /\ Eval(r.val, input) \in r.in
    BY <1>2, KeptIs, Zenon
  <2> QED BY <2>1, <2>2, <2>3, Zenon
<1> QED BY <1>1, <1>2, Zenon

(* What a decision does *)
LEMMA DecideIs ==
  ASSUME NEW holds \in BOOLEAN, Decide(holds), NEW c, c = ConditionOf(nodes[at].stm),
         NEW set, set = NormalizedSet(c, nodes[at].t = Branch(at, holds)),
         NEW r, r = [val |-> Symbolic(c), in |-> set]
  PROVE  /\ AtEvent /\ nodes[at].kind = "cond" /\ UNCHANGED cfgVars
         /\ at' = Branch(at, holds)
         /\ shadowed' = shadowed /\ answer' = answer
         /\ stopped' = (stopped \/ (Running /\ ~c.ok))
         /\ constraints' = IF Running /\ c.ok THEN Kept(constraints, r) ELSE constraints
         /\ isAlwaysFalse' = IF Running /\ c.ok THEN (isAlwaysFalse \/ Refuted(r)) ELSE isAlwaysFalse
         /\ live' = {input \in live : Branch(at, Holds(c, input)) = Branch(at, holds)}
<1>1. /\ AtEvent /\ nodes[at].kind = "cond" /\ UNCHANGED cfgVars
      /\ at' = Branch(at, holds)
      /\ shadowed' = shadowed /\ answer' = answer
      /\ stopped' = (stopped \/ (Running /\ ~c.ok))
      /\ live' = {input \in live : Branch(at, Holds(c, input)) = Branch(at, holds)}
  BY DEF Decide
<1>2. r.val = Symbolic(c) /\ r.in = set
  OBVIOUS
<1>3. CASE Running /\ c.ok
  <2>1. AddConstraint(r)
    BY <1>3, Zenon DEF Decide
  <2>2. constraints' = Kept(constraints, r) /\ isAlwaysFalse' = (isAlwaysFalse \/ Refuted(r))
    BY <2>1, Zenon DEF AddConstraint, Kept, Refuted
  <2> QED BY <1>1, <1>3, <2>2, Zenon
<1>4. CASE ~(Running /\ c.ok)
  <2>1. constraints' = constraints /\ isAlwaysFalse' = isAlwaysFalse
    BY <1>4, Zenon DEF Decide
  <2> QED BY <1>1, <1>4, <2>1, Zenon
<1> QED BY <1>3, <1>4

(* The constraint of a condition holds of the inputs that take the branch. *)
LEMMA ConditionExact ==
  ASSUME GraphInv, WalkInv, ValueInv, InScope, NoGoto(fn), AtEvent, nodes[at].kind = "cond",
         Running, ~shadowed, NEW c, c = ConditionOf(nodes[at].stm)
  PROVE  /\ Meant(c) = Symbolic(c) /\ Symbolic(c).off \in Int /\ fn \in Functions
         /\ c.bare => 1 \in c.in /\ 0 \notin c.in
<1>1. at # 0
  BY DEF AtEvent
<1>2. /\ Regular(fn) /\ table \in Seq(Entries(Vals)) /\ \E T : env \in Seq(Entries(T))
  BY <1>1, WalkIs
<1>3. PICK T : env \in Seq(Entries(T))
  BY <1>2
<1>4. Agrees /\ nodes[at].stm \in DOMAIN fn.ast /\ fn \in Functions
  BY EventAgrees, EventStm
<1>5. c.from \in Names /\ c.add \in Int /\ (c.bare => 1 \in c.in /\ 0 \notin c.in)
  BY <1>2, <1>4, ConditionData
<1>6. c.from # "" => \E i \in DOMAIN env : env[i].name = c.from
  BY <1>4, Zenon DEF InScope, Evaluated, Known
<1>7. Unique(table) /\ Unique(env) /\ SameValues(env, table)
  BY <1>1 DEF ValueInv
<1>8. \A i \in DOMAIN env : \E j \in DOMAIN table : table[j].name = env[i].name
  BY EventFound
<1>9. Meant(c) = Symbolic(c)
  BY <1>2, <1>3, <1>6, <1>7, <1>8, MeantSymbolic
<1>10. Symbolic(c) \in Vals
  BY <1>2, <1>5, SymbolicOk
<1>11. Symbolic(c).off \in Int
  BY <1>10 DEF Vals
<1> QED BY <1>4, <1>5, <1>9, <1>11

(* An input satisfies the constraint of a branch only if it takes the      *)
(* branch, and if it takes it where the constraint is exact.               *)
LEMMA BranchTaken ==
  ASSUME GraphInv, WalkInv, ValueInv, InScope, NoGoto(fn), AtEvent, nodes[at].kind = "cond",
         Running, ~shadowed, NEW c, c = ConditionOf(nodes[at].stm), NEW holds \in BOOLEAN,
         NEW set, set = NormalizedSet(c, nodes[at].t = Branch(at, holds)), NEW input,
         NEW x, x = Eval(Symbolic(c), input)
  PROVE  /\ x \in set => Branch(at, Holds(c, input)) = Branch(at, holds)
         /\ /\ nodes[at].t # nodes[at].f /\ ~c.bare /\ x \in Value
            /\ Branch(at, Holds(c, input)) = Branch(at, holds)
            => x \in set
<1>1. PICK a, b : a = nodes[at].t /\ b = nodes[at].f
  OBVIOUS
<1>2. Holds(c, input) = (x \in c.in) /\ (c.bare => 1 \in c.in /\ 0 \notin c.in)
  BY ConditionExact DEF Holds
<1>3. /\ Branch(at, holds) = (IF holds THEN a ELSE b)
      /\ Branch(at, Holds(c, input)) = (IF x \in c.in THEN a ELSE b)
  BY <1>1, <1>2, Zenon DEF Branch
<1>4. PICK y : y = Branch(at, holds)
  OBVIOUS
<1>5. set = IF c.bare THEN {IF a = y THEN 1 ELSE 0}
            ELSE IF a = y THEN c.in ELSE Value \ c.in
  BY <1>1, <1>4, Zenon DEF NormalizedSet
<1>6. PICK p : p = Branch(at, Holds(c, input))
  OBVIOUS
<1>7. y = (IF holds THEN a ELSE b) /\ p = (IF x \in c.in THEN a ELSE b)
  BY <1>3, <1>4, <1>6, Zenon
<1>8. c.bare => 1 \in c.in /\ 0 \notin c.in
  BY <1>2
<1>9. x \in set => p = y
  <2>1. CASE c.bare
    BY <1>5, <1>7, <1>8, <2>1, Zenon
  <2>2. CASE ~c.bare
    BY <1>5, <1>7, <2>2, Zenon
  <2> QED BY <2>1, <2>2, Zenon
<1>10. a # b /\ ~c.bare /\ x \in Value /\ p = y => x \in set
  BY <1>5, <1>7, Zenon
<1> QED BY <1>1, <1>4, <1>6, <1>9, <1>10, Zenon

(* An input that goes through the constraints goes through the nodes of    *)
(* the path; what was answered, at the end, is said of the constraints.    *)
AtTheEnd == at # 0 /\ ~IsSilent(fn, control) /\ nodes[at].kind = "end"
AnswerIs ==
  /\ answer.kind # "none" => AtTheEnd
  /\ answer.kind = "solution" => answer.input \in Inputs /\ Satisfies(constraints, answer.input)
  /\ answer.kind = "NO_SOLUTION" => \A input \in Inputs : ~Satisfies(constraints, input)
DriveInv ==
  /\ \E S : constraints \in Seq(S)
  /\ live \subseteq Inputs
  /\ at = 0 => constraints = <<>> /\ ~isAlwaysFalse
  /\ AnswerIs
  /\ at # 0 /\ Running /\ ~shadowed =>
       \A input \in Inputs : Satisfies(constraints, input) => input \in live

(* The inputs that go through the nodes go through the constraints. *)
TightInv ==
  ~shadowed /\ Exact(fn) =>
    /\ \A input \in live : Satisfies(constraints, input)
    /\ isAlwaysFalse => live = {}

(* A step of the walk that neither decides nor answers *)
Calm ==
  /\ at # 0 /\ at' # 0 /\ UNCHANGED <<cfgVars, live, constraints, isAlwaysFalse, answer>>
  /\ shadowed => shadowed'
  /\ Running' => Running

(* A calm step keeps the solutions on the path.                            *)
LEMMA DriveCalm ==
  ASSUME DriveInv, Calm, answer.kind = "none"
  PROVE  DriveInv'
<1>1. /\ fn' = fn /\ live' = live /\ constraints' = constraints /\ isAlwaysFalse' = isAlwaysFalse
      /\ answer' = answer /\ at # 0 /\ at' # 0 /\ (~shadowed' => ~shadowed) /\ (Running' => Running)
  BY DEF Calm, cfgVars
<1>2. PICK I : I = Inputs
  OBVIOUS
<1>3. Inputs' = I
  BY <1>1, <1>2 DEF Inputs
<1>4. AnswerIs'
  BY <1>1 DEF AnswerIs
<1>5. /\ \E S : constraints \in Seq(S)
      /\ live \subseteq I
      /\ Running /\ ~shadowed => \A input \in I : Satisfies(constraints, input) => input \in live
  BY <1>1, <1>2 DEF DriveInv
<1>6. at' = 0 => constraints' = <<>> /\ ~isAlwaysFalse'
  BY <1>1
<1> QED BY <1>1, <1>3, <1>4, <1>5, <1>6, Zenon DEF DriveInv

(* A calm step keeps the inputs of the path among the solutions.           *)
LEMMA TightCalm ==
  ASSUME TightInv, Calm
  PROVE  TightInv'
<1>1. /\ fn' = fn /\ nodes' = nodes /\ stmList' = stmList
      /\ live' = live /\ constraints' = constraints /\ isAlwaysFalse' = isAlwaysFalse
      /\ (~shadowed' => ~shadowed)
  BY DEF Calm, cfgVars
<1>2. Exact(fn)' => Exact(fn)
  BY <1>1 DEF Exact
<1> QED BY <1>1, <1>2, Zenon DEF TightInv

(* Nothing is answered before the end. *)
LEMMA NotYet ==
  ASSUME DriveInv, ~AtTheEnd
  PROVE  answer.kind = "none"
BY DEF DriveInv, AnswerIs

(* Where the walk goes is a node. *)
LEMMA GoesOn ==
  ASSUME GraphInv, WalkInv, NoGoto(fn), at # 0, nodes[at].kind # "end"
  PROVE  nodes[at].t # 0 /\ nodes[at].f # 0
<1>1. Regular(fn) /\ phase = "built" /\ at \in stmList
  BY WalkIs
<1>2. Walkable
  BY <1>1, WalkableOk
<1> QED BY <1>1, <1>2 DEF Walkable

(* A silent step is calm.                                                  *)
LEMMA SettleCalm ==
  ASSUME DriveInv, Settle
  PROVE  Calm /\ answer.kind = "none"
<1>1. Calm /\ IsSilent(fn, control)
  BY DEF Settle, Calm, seVars, Running
<1>2. ~AtTheEnd
  BY <1>1 DEF AtTheEnd
<1> QED BY <1>1, <1>2, NotYet

(* Passing a flag or scope node is calm.                                   *)
LEMMA FlagCalm ==
  ASSUME GraphInv, WalkInv, NoGoto(fn), DriveInv, PassFlag
  PROVE  Calm /\ answer.kind = "none"
<1>1. at # 0 /\ nodes[at].kind # "end" /\ at' = nodes[at].t
  BY DEF PassFlag
<1>2. at' # 0
  BY <1>1, GoesOn
<1>3. /\ UNCHANGED <<cfgVars, live, constraints, isAlwaysFalse, stopped, answer, shadowed>>
  BY DEF PassFlag
<1>4. Calm
  BY <1>1, <1>2, <1>3 DEF Calm, Running
<1> QED BY <1>1, <1>4, NotYet DEF AtTheEnd

(* Executing a statement is calm.                                          *)
LEMMA ExecuteCalm ==
  ASSUME GraphInv, WalkInv, NoGoto(fn), DriveInv, Execute
  PROVE  Calm /\ answer.kind = "none"
<1>1. PICK stm : stm = fn.ast[nodes[at].stm]
  OBVIOUS
<1>2. /\ AtEvent /\ nodes[at].kind \notin {"cond", "end"} /\ UNCHANGED cfgVars
      /\ at' = nodes[at].t
      /\ isAlwaysFalse' = isAlwaysFalse
      /\ constraints' = constraints /\ live' = live /\ answer' = answer
      /\ shadowed' = (shadowed \/ (/\ stm.kind = "decl"
                                    /\ \E i \in DOMAIN env : env[i].name = stm.var))
      /\ stopped' = (stopped \/ (Running /\ ~stm.ok))
  BY <1>1, ExecuteIs
<1>3. at # 0 /\ nodes[at].kind # "end"
  BY <1>2 DEF AtEvent
<1>4. at' # 0
  BY <1>2, <1>3, GoesOn
<1>5. (shadowed => shadowed') /\ (Running' => Running)
  BY <1>2 DEF Running
<1>6. Calm
  BY <1>2, <1>3, <1>4, <1>5 DEF Calm
<1> QED BY <1>3, <1>6, NotYet DEF AtTheEnd

(* Every input satisfies no constraints.                                   *)
LEMMA NoConstraints == \A input : Satisfies(<<>>, input)
BY DEF Satisfies

(* At the start all inputs are on the path and satisfy the constraints.    *)
LEMMA DriveStart ==
  ASSUME DriveInv, Start
  PROVE  DriveInv' /\ (TightInv => TightInv')
<1>1. /\ at = 0 /\ at' # 0 /\ fn' = fn /\ live' = Inputs /\ constraints' = constraints
      /\ isAlwaysFalse' = isAlwaysFalse /\ answer' = answer
  BY DEF Start, cfgVars, BEGIN
<1>2. constraints = <<>> /\ ~isAlwaysFalse /\ answer.kind = "none"
  BY <1>1 DEF DriveInv, AnswerIs, AtTheEnd
<1>3. PICK I : I = Inputs
  OBVIOUS
<1>4. Inputs' = I
  BY <1>1, <1>3 DEF Inputs
<1>5. AnswerIs'
  BY <1>1, <1>2 DEF AnswerIs
<1>6. \E S : constraints \in Seq(S)
  BY DEF DriveInv
<1>7. DriveInv'
  BY <1>1, <1>3, <1>4, <1>5, <1>6, Zenon DEF DriveInv
<1>8. TightInv => TightInv'
  BY <1>1, <1>2, NoConstraints, Zenon DEF TightInv
<1> QED BY <1>7, <1>8

(* The answer of the solver leaves path and constraints alone.             *)
LEMMA DriveSolve ==
  ASSUME DriveInv, Solve
  PROVE  DriveInv' /\ (TightInv => TightInv')
<1>1. /\ UNCHANGED <<cfgVars, walkVars, seVars>> /\ AtEvent /\ nodes[at].kind = "end"
      /\ answer' \in Answers(constraints)
  BY DEF Solve
<1>2. /\ fn' = fn /\ nodes' = nodes /\ stmList' = stmList /\ at' = at /\ control' = control
      /\ live' = live /\ constraints' = constraints /\ isAlwaysFalse' = isAlwaysFalse
      /\ stopped' = stopped /\ shadowed' = shadowed
  BY <1>1 DEF cfgVars, walkVars, seVars
<1>3. PICK I : I = Inputs
  OBVIOUS
<1>4. Inputs' = I
  BY <1>2, <1>3 DEF Inputs
<1>5. AtTheEnd'
  BY <1>1, <1>2 DEF AtTheEnd, AtEvent
<1>6. PICK sols : sols = Solutions(constraints)
  OBVIOUS
<1>7. sols = {input \in I : Satisfies(constraints, input)}
  BY <1>3, <1>6 DEF Solutions, Satisfies
<1>8. PICK a : a = answer'
  OBVIOUS
<1>9. \/ a.kind = "random"
      \/ a.kind = "NO_SOLUTION" /\ sols = {}
      \/ a.kind = "solution" /\ a.input \in sols
  BY <1>1, <1>6, <1>8 DEF Answers
<1>10. /\ a.kind = "solution" => a.input \in I /\ Satisfies(constraints, a.input)
       /\ a.kind = "NO_SOLUTION" => \A input \in I : ~Satisfies(constraints, input)
  BY <1>7, <1>9
<1>11. AnswerIs'
  BY <1>2, <1>4, <1>5, <1>8, <1>10, Zenon DEF AnswerIs
<1>12. /\ \E S : constraints \in Seq(S)
       /\ live \subseteq I
       /\ at = 0 => constraints = <<>> /\ ~isAlwaysFalse
       /\ at # 0 /\ Running /\ ~shadowed => \A input \in I : Satisfies(constraints, input) => input \in live
  BY <1>3, Zenon DEF DriveInv
<1>13. DriveInv'
  BY <1>2, <1>4, <1>11, <1>12, Zenon DEF DriveInv, Running
<1>14. Exact(fn)' <=> Exact(fn)
  BY <1>2 DEF Exact
<1>15. TightInv => TightInv'
  BY <1>2, <1>14, Zenon DEF TightInv
<1> QED BY <1>13, <1>15

(* So does a step that changes nothing.                                    *)
LEMMA DriveSame ==
  ASSUME DriveInv, UNCHANGED vars
  PROVE  DriveInv' /\ (TightInv => TightInv')
<1>1. /\ fn' = fn /\ nodes' = nodes /\ stmList' = stmList /\ at' = at /\ control' = control
      /\ live' = live /\ constraints' = constraints /\ isAlwaysFalse' = isAlwaysFalse
      /\ stopped' = stopped /\ shadowed' = shadowed /\ answer' = answer
  BY DEF vars, cfgVars, walkVars, seVars
<1>2. Inputs' = Inputs
  BY <1>1 DEF Inputs
<1>3. Exact(fn)' <=> Exact(fn)
  BY <1>1 DEF Exact
<1>4. AnswerIs'
  BY <1>1, <1>2, Zenon DEF AnswerIs, DriveInv, AtTheEnd
<1>5. DriveInv'
  BY <1>1, <1>2, <1>4, Zenon DEF DriveInv, Running
<1>6. TightInv => TightInv'
  BY <1>1, <1>3, Zenon DEF TightInv
<1> QED BY <1>5, <1>6

(* The graph is made before anything is walked. *)
LEMMA DriveBuild ==
  ASSUME DriveInv, at = 0, CfgNext, UNCHANGED <<walkVars, seVars, answer>>
  PROVE  DriveInv' /\ (TightInv => TightInv')
<1>1. /\ at' = at /\ control' = control
      /\ live' = live /\ constraints' = constraints /\ isAlwaysFalse' = isAlwaysFalse
      /\ answer' = answer
  BY DEF walkVars, seVars
<1>2. fn' = fn
  BY FnKept
<1>3. Inputs' = Inputs
  BY <1>2 DEF Inputs
<1>4. answer.kind = "none" /\ constraints = <<>> /\ ~isAlwaysFalse
  BY DEF DriveInv, AnswerIs, AtTheEnd
<1>5. AnswerIs'
  BY <1>1, <1>4 DEF AnswerIs
<1>6. DriveInv'
  BY <1>1, <1>3, <1>5, Zenon DEF DriveInv
<1>7. TightInv => TightInv'
  BY <1>1, <1>4, NoConstraints, Zenon DEF TightInv
<1> QED BY <1>6, <1>7

(* A decision keeps the solutions on the path.                             *)
LEMMA DriveDecide ==
  ASSUME GraphInv, WalkInv, ValueInv, InScope, NoGoto(fn), DriveInv,
         NEW holds \in BOOLEAN, Decide(holds)
  PROVE  DriveInv'
<1>1. PICK c : c = ConditionOf(nodes[at].stm)
  OBVIOUS
<1>2. PICK set : set = NormalizedSet(c, nodes[at].t = Branch(at, holds))
  OBVIOUS
<1>3. PICK v : v = Symbolic(c)
  OBVIOUS
<1>4. PICK r : r = [val |-> v, in |-> set]
  OBVIOUS
<1>5. PICK cs, b, new : cs = constraints /\ b = Branch(at, holds) /\ new = constraints'
  OBVIOUS
<1>6. /\ AtEvent /\ nodes[at].kind = "cond" /\ UNCHANGED cfgVars
      /\ at' = b /\ shadowed' = shadowed /\ answer' = answer
      /\ stopped' = (stopped \/ (Running /\ ~c.ok))
      /\ new = IF Running /\ c.ok THEN Kept(cs, r) ELSE cs
      /\ isAlwaysFalse' = IF Running /\ c.ok THEN (isAlwaysFalse \/ Refuted(r)) ELSE isAlwaysFalse
      /\ live' = {input \in live : Branch(at, Holds(c, input)) = b}
  BY <1>1, <1>2, <1>3, <1>4, <1>5, DecideIs
<1>7. /\ at # 0 /\ nodes[at].kind # "end" /\ b # 0
  BY <1>5, <1>6, GoesOn DEF AtEvent, Branch
<1>8. answer.kind = "none" /\ AnswerIs'
  <2>1. answer.kind = "none"
    BY <1>7, NotYet DEF AtTheEnd
  <2> QED BY <1>6, <2>1 DEF AnswerIs
<1>9. PICK I : I = Inputs
  OBVIOUS
<1>10. Inputs' = I /\ fn \in Functions
  BY <1>6, <1>9 DEF Inputs, cfgVars, GraphInv, IInv, Shape
<1>11. (\E S : cs \in Seq(S)) /\ live \subseteq I
  BY <1>5, <1>9 DEF DriveInv
<1>12. PICK S : cs \in Seq(S)
  BY <1>11
<1>13. r.val = v /\ r.in = set
  BY <1>4
<1>14. ASSUME Running, ~shadowed
       PROVE  /\ v.off \in Int
              /\ \A input : Eval(v, input) \in set => Branch(at, Holds(c, input)) = b
  <2>1. v.off \in Int
    BY <1>1, <1>3, <1>6, <1>14, ConditionExact
  <2>2. ASSUME NEW input, Eval(v, input) \in set PROVE Branch(at, Holds(c, input)) = b
    BY <1>1, <1>2, <1>3, <1>5, <1>6, <1>14, <2>2, BranchTaken
  <2> QED BY <2>1, <2>2
<1>15. \E T : new \in Seq(T)
  <2>1. CASE Running /\ c.ok
    <3>1. new = IF r.val.in = "" THEN cs ELSE Append(cs, r)
      BY <1>6, <2>1, Zenon DEF Kept
    <3>2. Append(cs, r) \in Seq(S \cup {r})
      BY <1>12, AppendIs
    <3> QED BY <1>12, <3>1, <3>2, Zenon
  <2>2. CASE ~(Running /\ c.ok)
    BY <1>6, <1>12, <2>2, Zenon
  <2> QED BY <2>1, <2>2
<1>16. live' \subseteq I
  BY <1>6, <1>11
<1>17. ASSUME Running', ~shadowed', NEW input \in I, Satisfies(new, input)
       PROVE  input \in live'
  <2>1. Running /\ ~shadowed /\ c.ok /\ ~Refuted(r)
    BY <1>6, <1>17 DEF Running
  <2>2. new = Kept(cs, r)
    BY <1>6, <2>1
  <2>3. v.off \in Int /\ (Eval(v, input) \in set => Branch(at, Holds(c, input)) = b)
    BY <1>14, <2>1
  <2>4. Satisfies(cs, input) /\ Eval(r.val, input) \in r.in
    <3>1. r.val.off \in Int
      BY <1>13, <2>3
    <3> QED BY <1>9, <1>10, <1>12, <1>17, <2>1, <2>2, <3>1, KeptOk
  <2>5. input \in live
    BY <1>5, <1>7, <1>9, <1>17, <2>1, <2>4 DEF DriveInv
  <2> QED BY <1>6, <1>13, <2>3, <2>4, <2>5
<1> QED BY <1>5, <1>6, <1>7, <1>8, <1>10, <1>15, <1>16, <1>17, Zenon DEF DriveInv

(* A decision keeps the inputs of the path among the solutions, where      *)
(* comparisons stay among the values.                                      *)
LEMMA TightDecide ==
  ASSUME GraphInv, WalkInv, ValueInv, InScope, InRange, NoGoto(fn), DriveInv, TightInv,
         NEW holds \in BOOLEAN, Decide(holds)
  PROVE  TightInv'
<1>1. PICK c : c = ConditionOf(nodes[at].stm)
  OBVIOUS
<1>2. PICK set : set = NormalizedSet(c, nodes[at].t = Branch(at, holds))
  OBVIOUS
<1>3. PICK v : v = Symbolic(c)
  OBVIOUS
<1>4. PICK r : r = [val |-> v, in |-> set]
  OBVIOUS
<1>5. PICK cs, b, new : cs = constraints /\ b = Branch(at, holds) /\ new = constraints'
  OBVIOUS
<1>6. /\ AtEvent /\ nodes[at].kind = "cond" /\ UNCHANGED cfgVars
      /\ at' = b /\ shadowed' = shadowed /\ answer' = answer
      /\ stopped' = (stopped \/ (Running /\ ~c.ok))
      /\ new = IF Running /\ c.ok THEN Kept(cs, r) ELSE cs
      /\ isAlwaysFalse' = IF Running /\ c.ok THEN (isAlwaysFalse \/ Refuted(r)) ELSE isAlwaysFalse
      /\ live' = {input \in live : Branch(at, Holds(c, input)) = b}
  BY <1>1, <1>2, <1>3, <1>4, <1>5, DecideIs
<1>7. SUFFICES ASSUME ~shadowed', Exact(fn)'
               PROVE  /\ \A input \in live' : Satisfies(new, input)
                      /\ isAlwaysFalse' => live' = {}
  BY <1>5, Zenon DEF TightInv
<1>8. ~shadowed /\ Exact(fn)
  <2>1. fn' = fn /\ nodes' = nodes /\ stmList' = stmList
    BY <1>6 DEF cfgVars
  <2> QED BY <1>6, <1>7, <2>1 DEF Exact
<1>9. /\ \A input \in live : Satisfies(cs, input)
      /\ isAlwaysFalse => live = {}
  BY <1>5, <1>8 DEF TightInv
<1>10. CASE ~(Running /\ c.ok)
  <2>1. new = cs /\ isAlwaysFalse' = isAlwaysFalse /\ live' \subseteq live
    BY <1>6, <1>10
  <2> QED BY <1>9, <2>1
<1>11. CASE Running /\ c.ok
  <2>1. new = Kept(cs, r) /\ isAlwaysFalse' = (isAlwaysFalse \/ Refuted(r)) /\ live' \subseteq live
    BY <1>6, <1>11
  <2>2. Meant(c) = v /\ v.off \in Int /\ fn \in Functions
    BY <1>1, <1>3, <1>6, <1>8, <1>11, ConditionExact
  <2>3. r.val = v /\ r.in = set /\ r.val.off \in Int
    BY <1>4, <2>2
  <2>4. PICK S : cs \in Seq(S)
    BY <1>5 DEF DriveInv
  <2>5. at # 0
    BY <1>6 DEF AtEvent
  <2>6. nodes[at].t # nodes[at].f /\ ~c.bare
    <3>1. at \in stmList /\ Regular(fn)
      BY <2>5, WalkIs
    <3>2. nodes[at].stm \in DOMAIN fn.ast
      BY <1>6, EventStm
    <3>3. \A t \in DOMAIN fn.ast : ~fn.ast[t].bare
      BY <1>8 DEF Exact
    <3>4. ~c.bare
      BY <1>1, <2>2, <3>1, <3>2, <3>3, ConditionData
    <3> QED BY <1>6, <1>8, <3>1, <3>4 DEF Exact
  <2>7. ASSUME NEW input \in live' PROVE Eval(v, input) \in set /\ input \in live /\ input \in Inputs
    <3>1. input \in live /\ Branch(at, Holds(c, input)) = b
      BY <1>6, <2>7
    <3>2. Evaluated = c
      BY <1>1, <1>6 DEF Evaluated
    <3>3. Agrees
      BY <1>6, EventAgrees
    <3>4. \A i \in live : Eval(Meant(c), i) \in Value
      BY <1>6, <3>2, <3>3 DEF InRange
    <3>5. PICK x : x = Eval(v, input)
      OBVIOUS
    <3>6. x \in Value
      BY <2>2, <3>1, <3>4, <3>5
    <3>7. x \in set
      BY <1>1, <1>2, <1>3, <1>5, <1>6, <1>8, <1>11, <2>6, <3>1, <3>5, <3>6, BranchTaken
    <3>8. input \in Inputs
      BY <3>1 DEF DriveInv
    <3> QED BY <3>1, <3>5, <3>7, <3>8
  <2>8. ASSUME NEW input \in live' PROVE Satisfies(new, input) /\ ~Refuted(r)
    <3>1. Eval(r.val, input) \in r.in /\ input \in Inputs /\ Satisfies(cs, input)
      BY <1>9, <2>3, <2>7, <2>8
    <3> QED BY <2>1, <2>2, <2>3, <2>4, <3>1, KeptOk
  <2>9. isAlwaysFalse' => live' = {}
    BY <1>9, <2>1, <2>8
  <2> QED BY <2>8, <2>9
<1> QED BY <1>10, <1>11

(* What is known of the walk of a function without goto *)
Walked == GraphInv /\ WalkInv /\ (NoGoto(fn) => ValueInv)

(* No step changes whether the function has labels or gotos.               *)
LEMMA StillNoGoto == [Next]_vars => (NoGoto(fn)' <=> NoGoto(fn))
<1> SUFFICES ASSUME [Next]_vars PROVE NoGoto(fn)' <=> NoGoto(fn)
  OBVIOUS
<1>1. [CfgNext]_cfgVars
  BY WalkKeepsGraph DEF Next, vars
<1>2. fn' = fn
  BY <1>1, FnKept
<1> QED BY <1>2

(* While the graph is under construction nothing is walked.                *)
LEMMA NotWalked ==
  ASSUME GraphInv, WalkInv, NoGoto(fn), CfgNext
  PROVE  at = 0
<1>1. ~(phase = "built")
  BY BuiltStays DEF GraphInv
<1> QED BY <1>1, WalkIs

(* The steps but those that decide *)
LEMMA StepUndecided ==
  ASSUME GraphInv, WalkInv, NoGoto(fn), DriveInv, [Next]_vars,
         ~(\E holds \in BOOLEAN : Decide(holds))
  PROVE  DriveInv' /\ (TightInv => TightInv')
<1>1. CASE CfgNext /\ UNCHANGED <<walkVars, seVars, answer>>
  <2>1. at = 0
    BY <1>1, NotWalked
  <2> QED BY <1>1, <2>1, DriveBuild
<1>2. CASE Start
  BY <1>2, DriveStart
<1>3. CASE Settle
  BY <1>3, SettleCalm, DriveCalm, TightCalm
<1>4. CASE PassFlag
  BY <1>4, FlagCalm, DriveCalm, TightCalm
<1>5. CASE Execute
  BY <1>5, ExecuteCalm, DriveCalm, TightCalm
<1>6. CASE Solve
  BY <1>6, DriveSolve
<1>7. CASE UNCHANGED vars
  BY <1>7, DriveSame
<1> QED BY <1>1, <1>2, <1>3, <1>4, <1>5, <1>6, <1>7 DEF Next, Walk

(* Every step keeps the solutions on the path.                             *)
LEMMA StepDriveInv ==
  Walked /\ InScope /\ (NoGoto(fn) => DriveInv) /\ [Next]_vars => (NoGoto(fn) => DriveInv)'
<1> SUFFICES ASSUME Walked, InScope, NoGoto(fn) => DriveInv, [Next]_vars, NoGoto(fn)'
             PROVE  DriveInv'
  OBVIOUS
<1>1. GraphInv /\ WalkInv /\ NoGoto(fn) /\ ValueInv /\ DriveInv
  BY StillNoGoto DEF Walked
<1>2. ASSUME NEW holds \in BOOLEAN, Decide(holds) PROVE DriveInv'
  BY <1>1, <1>2, DriveDecide
<1> QED BY <1>1, <1>2, StepUndecided

(* Every step keeps the inputs of the path among the solutions.            *)
LEMMA StepTightInv ==
  Walked /\ InScope /\ InRange /\ (NoGoto(fn) => DriveInv /\ TightInv) /\ [Next]_vars
    => (NoGoto(fn) => TightInv)'
<1> SUFFICES ASSUME Walked, InScope, InRange, NoGoto(fn) => DriveInv /\ TightInv, [Next]_vars,
                    NoGoto(fn)'
             PROVE  TightInv'
  OBVIOUS
<1>1. GraphInv /\ WalkInv /\ NoGoto(fn) /\ ValueInv /\ DriveInv /\ TightInv
  BY StillNoGoto DEF Walked
<1>2. ASSUME NEW holds \in BOOLEAN, Decide(holds) PROVE TightInv'
  BY <1>1, <1>2, TightDecide
<1> QED BY <1>1, <1>2, StepUndecided

(* Both hold before the walk.                                              *)
LEMMA InitDriveInv == Init => DriveInv /\ TightInv
<1> SUFFICES ASSUME Init PROVE DriveInv /\ TightInv
  OBVIOUS
<1>1. /\ at = 0 /\ live = {} /\ constraints = <<>> /\ isAlwaysFalse = FALSE /\ answer.kind = "none"
  BY DEF Init
<1>2. <<>> \in Seq({})
  OBVIOUS
<1> QED BY <1>1, <1>2 DEF DriveInv, AnswerIs, TightInv

(* The solutions are on the path in every reachable state.                 *)
LEMMA DriveInvAlways == Spec /\ []InScope => [](Walked /\ (NoGoto(fn) => DriveInv))
<1>1. Init => (NoGoto(fn) => DriveInv)
  BY InitDriveInv
<1>2. GraphInv /\ WalkInv /\ (NoGoto(fn) => ValueInv) => Walked
  BY DEF Walked
<1> QED BY <1>1, <1>2, ValueInvAlways, StepDriveInv, PTL DEF Spec

(* For every function without goto that uses no name out of scope: a       *)
(* solution of the constraints drives the path they were collected on,     *)
(* unless a name was declared while another of that name was in scope, a   *)
(* statement was refused or the path was called always false.              *)
THEOREM SolutionDrives == Spec /\ []InScope => [](NoGoto(fn) => SolutionDrivesPath)
<1>1. Walked /\ (NoGoto(fn) => DriveInv) => (NoGoto(fn) => SolutionDrivesPath)
  <2> SUFFICES ASSUME DriveInv, answer.kind = "solution", ~shadowed, ~stopped, ~isAlwaysFalse
               PROVE  answer.input \in live
    BY DEF SolutionDrivesPath
  <2>1. answer.input \in Inputs /\ Satisfies(constraints, answer.input) /\ at # 0
    BY DEF DriveInv, AnswerIs, AtTheEnd
  <2>2. Running
    BY DEF Running
  <2> QED BY <2>1, <2>2 DEF DriveInv
<1> QED BY <1>1, DriveInvAlways, PTL

(* For every function without goto that uses no name out of scope and      *)
(* compares no value out of range: when the solver finds no solution, or a *)
(* constant condition does not hold, no input drives the path, unless a    *)
(* name was declared twice or a condition is a name alone or has an empty  *)
(* body.                                                                   *)
THEOREM NoSolutionInfeasible ==
  Spec /\ []InScope /\ []InRange => [](NoGoto(fn) => NoSolutionMeansInfeasible)
<1>1. Init => (NoGoto(fn) => TightInv)
  BY InitDriveInv
<1>2. (NoGoto(fn) => DriveInv) /\ (NoGoto(fn) => TightInv) => (NoGoto(fn) => NoSolutionMeansInfeasible)
  <2> SUFFICES ASSUME DriveInv, TightInv, answer.kind = "NO_SOLUTION" \/ isAlwaysFalse, ~shadowed,
                      Exact(fn)
               PROVE  live = {}
    BY DEF NoSolutionMeansInfeasible
  <2>1. /\ \A input \in live : Satisfies(constraints, input)
        /\ isAlwaysFalse => live = {}
    BY DEF TightInv
  <2>2. /\ live \subseteq Inputs
        /\ answer.kind = "NO_SOLUTION" => \A input \in Inputs : ~Satisfies(constraints, input)
    BY DEF DriveInv, AnswerIs
  <2> QED BY <2>1, <2>2
<1>3. Walked /\ InScope /\ InRange /\ (NoGoto(fn) => DriveInv) /\ (NoGoto(fn) => TightInv) /\ [Next]_vars
        => (NoGoto(fn) => TightInv)'
  BY StepTightInv
<1> QED BY <1>1, <1>2, <1>3, DriveInvAlways, PTL DEF Spec
===============================================================================
