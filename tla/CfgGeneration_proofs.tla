------------------------- MODULE CfgGeneration_proofs -------------------------
(***************************************************************************)
(* The construction of the graph, for all functions.  GraphClosed: no path *)
(* of a graph that is built ends before END, and every forwarding node has *)
(* been removed.  LaidOut: the graph of a function that StructuredExecution*)
(* can be compared with is laid out as its statements are nested.          *)
(***************************************************************************)
EXTENDS CfgGeneration, StructuredExecution, SequenceTheorems, WellFoundedInduction, TLAPS

Stms     == 1 .. Len(fn.ast)
Items(s) == {s[i] : i \in 1 .. Len(s)}

Stand       == {"begin", "end", "forward", "open", "close", "cond", "stm", "mark",
                "break", "continue", "throw", "return"}
NodeUpTo(m) == [kind : Stand, stm : {0} \cup Stms, t : 0 .. m, f : 0 .. m]
CallUpTo(m) == [do : {"visit", "iterate", "link", "next"}, stm : {0} \cup Stms,
                begin : 0 .. m, end : 0 .. m, break : 0 .. m, continue : 0 .. m, throw : 0 .. m]

Shape ==
  /\ fn \in Functions
  /\ nodes \in Seq(NodeUpTo(Len(nodes))) /\ Len(nodes) >= 2
  /\ nodes[BEGIN].kind = "begin" /\ nodes[END].kind = "end"
  /\ agenda \in Seq(CallUpTo(Len(nodes)))
  /\ labels \in [Stms -> 0 .. Len(nodes)]
  /\ \A l \in Stms : labels[l] # 0 => nodes[labels[l]].kind = "mark"
  /\ stmList \subseteq 1 .. Len(nodes)

(* A call under way knows where it starts and leads, and where the jumps   *)
(* that may stand in its statement lead.                                   *)
May(s) == IF s = 0 THEN {} ELSE fn.ast[s].within
Knows(e) ==
  /\ e.begin # 0 /\ e.end # 0 /\ e.throw # 0
  /\ "break" \in May(e.stm) => e.break # 0
  /\ "continue" \in May(e.stm) => e.continue # 0

(* Every node has its successors, but for END, for the labels, and for     *)
(* those that a call to come starts from.                                  *)
Tied(n)     == nodes[n].t # 0 /\ nodes[n].f # 0
Labelled(n) == \E l \in Stms : labels[l] = n
Pending(n)  == \E e \in Items(agenda) : e.begin = n
Started     == nodes[BEGIN].t = 0 => agenda # <<>> /\ Top.stm = fn.body /\ Top.begin = BEGIN

Visiting ==
  /\ \A e \in Items(agenda) : Knows(e)
  /\ \A n \in 1 .. Len(nodes) : n = END \/ Tied(n) \/ Labelled(n) \/ Pending(n)
  /\ Started
  /\ stmList = {}

-----------------------------------------------------------------------------
(* Sequences *)
LEMMA ItemsConcat ==
  ASSUME NEW S, NEW s \in Seq(S), NEW u \in Seq(S)
  PROVE  s \o u \in Seq(S) /\ Items(s \o u) = Items(s) \cup Items(u)
<1>1. /\ s \o u \in Seq(S) /\ Len(s \o u) = Len(s) + Len(u)
      /\ Len(s) \in Nat /\ Len(u) \in Nat
      /\ \A i \in 1 .. Len(s) + Len(u) :
           (s \o u)[i] = IF i <= Len(s) THEN s[i] ELSE u[i - Len(s)]
  BY ConcatProperties, LenProperties
<1>2. Items(s) \subseteq Items(s \o u)
  BY <1>1 DEF Items
<1>3. \A i \in 1 .. Len(u) : u[i] \in Items(s \o u)
  <2> TAKE i \in 1 .. Len(u)
  <2>1. Len(s) + i \in 1 .. Len(s \o u) /\ (s \o u)[Len(s) + i] = u[i]
    BY <1>1
  <2>2. QED
    BY <2>1 DEF Items
<1>4. \A i \in 1 .. Len(s \o u) : (s \o u)[i] \in Items(s) \cup Items(u)
  BY <1>1 DEF Items
<1>5. QED
  BY <1>1, <1>2, <1>3, <1>4 DEF Items

(* The items of a sequence are its head and those of its tail.             *)
LEMMA ItemsHead ==
  ASSUME NEW S, NEW s \in Seq(S), s # <<>>
  PROVE  /\ Head(s) \in S /\ Tail(s) \in Seq(S) /\ Head(s) = s[1]
         /\ Items(s) = {Head(s)} \cup Items(Tail(s))
<1>1. /\ Head(s) = s[1] /\ Tail(s) \in Seq(S) /\ Len(Tail(s)) = Len(s) - 1
      /\ \A i \in 1 .. Len(Tail(s)) : Tail(s)[i] = s[i + 1]
      /\ Len(s) \in Nat \ {0} /\ s[1] \in S
  BY HeadTailProperties, EmptySeq, LenProperties, ElementOfSeq
<1>2. \A i \in 1 .. Len(s) : s[i] = Head(s) \/ s[i] \in Items(Tail(s))
  <2> TAKE i \in 1 .. Len(s)
  <2>1. CASE i # 1
    <3>1. i - 1 \in 1 .. Len(Tail(s)) /\ Tail(s)[i - 1] = s[i]
      BY <1>1, <2>1
    <3>2. QED
      BY <3>1 DEF Items
  <2>2. QED
    BY <1>1, <2>1
<1>3. \A i \in 1 .. Len(Tail(s)) : Tail(s)[i] \in Items(s)
  BY <1>1 DEF Items
<1>4. Head(s) \in Items(s)
  BY <1>1 DEF Items
<1>5. QED
  BY <1>1, <1>2, <1>3, <1>4 DEF Items

(* A node that begins at the first of new nodes: types, and what the other *)
(* nodes are.                                                              *)
LEMMA BegunOk ==
  ASSUME Shape, NEW m \in Nat, NEW new \in Seq(NodeUpTo(m)), m = Len(nodes) + Len(new),
         NEW b \in 1 .. Len(nodes), NEW first \in 1 .. m
  PROVE  /\ Begun(b, first, new) \in Seq(NodeUpTo(m)) /\ Len(Begun(b, first, new)) = m
         /\ \A n \in 1 .. Len(nodes) :
              /\ Begun(b, first, new)[n].kind = nodes[n].kind
              /\ n # b => Begun(b, first, new)[n] = nodes[n]
              /\ n = b => Begun(b, first, new)[n].t = first /\ Begun(b, first, new)[n].f = first
         /\ \A j \in 1 .. Len(new) : Begun(b, first, new)[Len(nodes) + j] = new[j]
<1>0. PICK old : old = [nodes EXCEPT ![b].t = first, ![b].f = first]
  OBVIOUS
<1>1. Len(nodes) \in Nat /\ Len(new) \in Nat /\ DOMAIN nodes = 1 .. Len(nodes)
  BY LenProperties DEF Shape
<1>2. \A n \in 1 .. Len(nodes) : nodes[n] \in NodeUpTo(Len(nodes))
  BY ElementOfSeq DEF Shape
<1>3. \A n \in 1 .. Len(nodes) : nodes[n] \in NodeUpTo(m)
  BY <1>1, <1>2 DEF NodeUpTo
<1>4. \A n \in 1 .. Len(nodes) : old[n] =
              IF n = b THEN [nodes[n] EXCEPT !.t = first, !.f = first] ELSE nodes[n]
  BY <1>0, <1>1
<1>5. \A n \in 1 .. Len(nodes) : old[n] \in NodeUpTo(m)
  <2> TAKE n \in 1 .. Len(nodes)
  <2>1. first \in 0 .. m /\ nodes[n] \in NodeUpTo(m)
    BY <1>3
  <2>2. [nodes[n] EXCEPT !.t = first, !.f = first] \in NodeUpTo(m)
    BY <2>1 DEF NodeUpTo
  <2> QED BY <1>4, <2>1, <2>2
<1>6. old = [n \in 1 .. Len(nodes) |-> old[n]]
  BY <1>0, <1>1
<1>7. old \in Seq(NodeUpTo(m)) /\ Len(old) = Len(nodes)
  <2> QED BY <1>1, <1>5, <1>6
<1>8. /\ old \o new \in Seq(NodeUpTo(m)) /\ Len(old \o new) = Len(nodes) + Len(new)
      /\ \A i \in 1 .. Len(nodes) + Len(new) :
           (old \o new)[i] = IF i <= Len(nodes) THEN old[i] ELSE new[i - Len(nodes)]
  <2>1. new \in Seq(NodeUpTo(m))
    OBVIOUS
  <2>2. \A S : \A s, u \in Seq(S) :
          /\ s \o u \in Seq(S) /\ Len(s \o u) = Len(s) + Len(u)
          /\ \A i \in 1 .. Len(s) + Len(u) :
               (s \o u)[i] = IF i <= Len(s) THEN s[i] ELSE u[i - Len(s)]
    BY ConcatProperties, Zenon
  <2>3. /\ old \o new \in Seq(NodeUpTo(m)) /\ Len(old \o new) = Len(old) + Len(new)
        /\ \A i \in 1 .. Len(old) + Len(new) :
             (old \o new)[i] = IF i <= Len(old) THEN old[i] ELSE new[i - Len(old)]
    BY <1>7, <2>1, <2>2, Zenon
  <2> QED BY <1>7, <2>3, Zenon
<1>9. \A j \in 1 .. Len(new) : (old \o new)[Len(nodes) + j] = new[j]
  <2> TAKE j \in 1 .. Len(new)
  <2>1. Len(nodes) + j \in 1 .. Len(nodes) + Len(new) /\ ~ (Len(nodes) + j <= Len(nodes))
    BY <1>1
  <2>2. QED BY <1>1, <1>8, <2>1
<1>10. Begun(b, first, new) = old \o new
  BY <1>0 DEF Begun
<1>11. \A n \in 1 .. Len(nodes) : (old \o new)[n] = old[n]
  <2> QED BY <1>1, <1>8
<1>12. \A n \in 1 .. Len(nodes) : /\ old[n].kind = nodes[n].kind
                                  /\ n # b => old[n] = nodes[n]
                                  /\ n = b => old[n].t = first /\ old[n].f = first
  <2> QED BY <1>2, <1>4 DEF NodeUpTo
<1>13. QED
  <2>1. old \o new \in Seq(NodeUpTo(m)) /\ Len(old \o new) = m
    BY <1>8
  <2>2. \A n \in 1 .. Len(nodes) :
          /\ (old \o new)[n].kind = nodes[n].kind
          /\ n # b => (old \o new)[n] = nodes[n]
          /\ n = b => (old \o new)[n].t = first /\ (old \o new)[n].f = first
    <3> TAKE n \in 1 .. Len(nodes)
    <3>1. (old \o new)[n] = old[n]
      BY <1>11
    <3>2. /\ old[n].kind = nodes[n].kind
          /\ n # b => old[n] = nodes[n]
          /\ n = b => old[n].t = first /\ old[n].f = first
      BY <1>12
    <3> QED BY <3>1, <3>2, Zenon
  <2> QED BY <1>9, <1>10, <2>1, <2>2, Zenon

-----------------------------------------------------------------------------
(* The call under way, and what it knows *)
LEMMA TopOk ==
  ASSUME Shape, agenda # <<>>
  PROVE  /\ Top \in CallUpTo(Len(nodes)) /\ Top \in Items(agenda)
         /\ Top.stm \in {0} \cup Stms
         /\ Tail(agenda) \in Seq(CallUpTo(Len(nodes)))
         /\ Items(agenda) = {Top} \cup Items(Tail(agenda))
         /\ Len(nodes) \in Nat
         /\ Visiting => /\ Top.begin \in 1 .. Len(nodes) /\ Top.end \in 1 .. Len(nodes)
                        /\ Top.throw \in 1 .. Len(nodes) /\ Knows(Top)
<1>1. agenda \in Seq(CallUpTo(Len(nodes))) /\ Len(nodes) \in Nat
  BY LenProperties DEF Shape
<1>2. /\ Top \in CallUpTo(Len(nodes)) /\ Tail(agenda) \in Seq(CallUpTo(Len(nodes)))
      /\ Items(agenda) = {Top} \cup Items(Tail(agenda))
  BY <1>1, ItemsHead, Zenon DEF Top
<1>3. Visiting => Knows(Top)
  BY <1>2 DEF Visiting
<1>4. /\ Top.stm \in {0} \cup Stms /\ Top.begin \in 0 .. Len(nodes)
      /\ Top.end \in 0 .. Len(nodes) /\ Top.throw \in 0 .. Len(nodes)
  BY <1>2 DEF CallUpTo
<1>5. Visiting => Top.begin # 0 /\ Top.end # 0 /\ Top.throw # 0
  BY <1>3 DEF Knows
<1>6. QED
  BY <1>1, <1>2, <1>3, <1>4, <1>5

(* What FunctionsAssumption says of the parts of a statement *)
LEMMA KidsOk ==
  ASSUME Shape, agenda # <<>>, Top.stm # 0
  PROVE  /\ Top.stm \in Stms /\ HasParts(fn.ast[Top.stm])
         /\ fn.ast[Top.stm].kids \in Seq({0} \cup Stms)
         /\ KindOf(Top.stm) = fn.ast[Top.stm].kind
         /\ \A i \in 1 .. Len(fn.ast[Top.stm].kids) :
              /\ Kid(i) \in {0} \cup Stms /\ fn.ast[Top.stm].kids[i] = Kid(i)
              /\ May(Kid(i)) \subseteq May(Top.stm) \cup Binds(KindOf(Top.stm))
<1>1. Top.stm \in Stms
  BY TopOk
<1>2. WellFormed(fn)
  BY FunctionsAssumption DEF Shape
<1>3. /\ HasParts(fn.ast[Top.stm])
      /\ fn.ast[Top.stm].kids \in Seq({0} \cup Stms)
      /\ \A i \in 1 .. Len(fn.ast[Top.stm].kids) :
           fn.ast[Top.stm].kids[i] # 0 =>
             fn.ast[fn.ast[Top.stm].kids[i]].within
               \subseteq fn.ast[Top.stm].within \cup Binds(fn.ast[Top.stm].kind)
  BY <1>1, <1>2 DEF WellFormed, Stms
<1>4. \A i \in 1 .. Len(fn.ast[Top.stm].kids) : fn.ast[Top.stm].kids[i] \in {0} \cup Stms
  BY <1>3, ElementOfSeq
<1>5. \A i : Kid(i) = fn.ast[Top.stm].kids[i]
  BY DEF Kid, Top
<1>6. KindOf(Top.stm) = fn.ast[Top.stm].kind
  BY DEF KindOf
<1>7. QED
  BY <1>1, <1>3, <1>4, <1>5, <1>6 DEF May

(* A call like the one under way *)
LikeTop(v, m, s, b, e) ==
  /\ v \in CallUpTo(m) /\ v.begin = b /\ v.end = e /\ v.stm = s
  /\ v.break = Top.break /\ v.continue = Top.continue /\ v.throw = Top.throw

(* A call for a part has the type of a call and the targets of the call    *)
(* under way.                                                              *)
LEMMA VisitTyped ==
  ASSUME Shape, agenda # <<>>, NEW m \in Nat, m >= Len(nodes),
         NEW s \in {0} \cup Stms, NEW b \in 1 .. m, NEW e \in 1 .. m
  PROVE  LikeTop(Visit(s, b, e), m, s, b, e)
<1>1. Top \in CallUpTo(Len(nodes)) /\ Len(nodes) \in Nat
  BY TopOk
<1>2. Top \in CallUpTo(m)
  BY <1>1 DEF CallUpTo
<1>3. b \in 0 .. m /\ e \in 0 .. m
  OBVIOUS
<1>4. Visit(s, b, e) = [Top EXCEPT !.stm = s, !.begin = b, !.end = e]
  BY DEF Visit
<1>5. [Top EXCEPT !.stm = s, !.begin = b, !.end = e] \in CallUpTo(m)
  BY <1>2, <1>3 DEF CallUpTo
<1>6. QED
  BY <1>2, <1>4, <1>5 DEF CallUpTo, LikeTop

(* A call for a part knows where the jumps in it lead.                     *)
LEMMA VisitOk ==
  ASSUME Shape, Visiting, agenda # <<>>,
         NEW m \in Nat, m >= Len(nodes),
         NEW s \in {0} \cup Stms, May(s) \subseteq May(Top.stm),
         NEW b \in 1 .. m, NEW e \in 1 .. m
  PROVE  /\ Visit(s, b, e) \in CallUpTo(m) /\ Knows(Visit(s, b, e))
         /\ Visit(s, b, e).begin = b
<1>1. Knows(Top)
  BY TopOk
<1>2. LikeTop(Visit(s, b, e), m, s, b, e)
  BY VisitTyped
<1>3. QED
  BY <1>1, <1>2 DEF Knows, LikeTop

(* The body of a loop, a statement of a switch and a block that is tried:  *)
(* some jumps in it lead elsewhere.                                        *)
Inner(s, b, e, out, c) == [Visit(s, b, e) EXCEPT !.break = out, !.continue = c]

(* So does a call for the body of a loop, where break and continue lead to *)
(* the loop.                                                               *)
LEMMA InnerOk ==
  ASSUME Shape, Visiting, agenda # <<>>,
         NEW m \in Nat, m >= Len(nodes),
         NEW s \in {0} \cup Stms, May(s) \subseteq May(Top.stm) \cup {"break", "continue"},
         NEW b \in 1 .. m, NEW e \in 1 .. m, NEW out \in 1 .. m, NEW c \in 1 .. m
  PROVE  /\ Inner(s, b, e, out, c) \in CallUpTo(m) /\ Knows(Inner(s, b, e, out, c))
         /\ Inner(s, b, e, out, c).begin = b
<1>1. /\ Visit(s, b, e) \in CallUpTo(m) /\ Visit(s, b, e).begin = b
      /\ Visit(s, b, e).end = e /\ Visit(s, b, e).stm = s
      /\ Visit(s, b, e).break = Top.break /\ Visit(s, b, e).continue = Top.continue
      /\ Visit(s, b, e).throw = Top.throw
  <2>1. LikeTop(Visit(s, b, e), m, s, b, e)
    BY VisitTyped
  <2>2. QED
    BY <2>1 DEF LikeTop
<1>2. PICK v : v = Visit(s, b, e)
  OBVIOUS
<1>3. PICK w : w = [v EXCEPT !.break = out, !.continue = c]
  OBVIOUS
<1>4. w \in CallUpTo(m)
  <2>1. out \in 0 .. m /\ c \in 0 .. m /\ v \in CallUpTo(m)
    BY <1>1, <1>2
  <2> QED BY <1>3, <2>1 DEF CallUpTo
<1>5. /\ w.begin = b /\ w.end = e /\ w.stm = s
      /\ w.break = out /\ w.continue = c /\ w.throw = Top.throw
  BY <1>1, <1>2, <1>3 DEF CallUpTo
<1>6. Knows(w)
  <2>1. Knows(Top)
    BY TopOk
  <2> QED BY <1>5, <2>1 DEF Knows
<1>7. w = Inner(s, b, e, out, c)
  BY <1>2, <1>3, Zenon DEF Inner
<1>8. QED
  BY <1>4, <1>5, <1>6, <1>7

Switched(s, b, e, out) == [Visit(s, b, e) EXCEPT !.break = out]

(* So does a call for a part of a switch, where break leads out of the     *)
(* switch.                                                                 *)
LEMMA SwitchedOk ==
  ASSUME Shape, Visiting, agenda # <<>>,
         NEW m \in Nat, m >= Len(nodes),
         NEW s \in {0} \cup Stms, May(s) \subseteq May(Top.stm) \cup {"break"},
         NEW b \in 1 .. m, NEW e \in 1 .. m, NEW out \in 1 .. m
  PROVE  /\ Switched(s, b, e, out) \in CallUpTo(m) /\ Knows(Switched(s, b, e, out))
         /\ Switched(s, b, e, out).begin = b
<1>1. /\ Visit(s, b, e) \in CallUpTo(m) /\ Visit(s, b, e).begin = b
      /\ Visit(s, b, e).end = e /\ Visit(s, b, e).stm = s
      /\ Visit(s, b, e).break = Top.break /\ Visit(s, b, e).continue = Top.continue
      /\ Visit(s, b, e).throw = Top.throw
  <2>1. LikeTop(Visit(s, b, e), m, s, b, e)
    BY VisitTyped
  <2>2. QED
    BY <2>1 DEF LikeTop
<1>2. PICK v : v = Visit(s, b, e)
  OBVIOUS
<1>3. PICK w : w = [v EXCEPT !.break = out]
  OBVIOUS
<1>4. w \in CallUpTo(m)
  BY <1>1, <1>2, <1>3 DEF CallUpTo
<1>5. /\ w.begin = b /\ w.end = e /\ w.stm = s
      /\ w.break = out /\ w.continue = Top.continue /\ w.throw = Top.throw
  BY <1>1, <1>2, <1>3 DEF CallUpTo
<1>6. Knows(w)
  <2>1. Knows(Top)
    BY TopOk
  <2> QED BY <1>5, <2>1 DEF Knows
<1>7. w = Switched(s, b, e, out)
  BY <1>2, <1>3, Zenon DEF Switched
<1>8. QED
  BY <1>4, <1>5, <1>6, <1>7

Tried(s, b, e, out) == [Visit(s, b, e) EXCEPT !.throw = out]

(* So does a call for the block of a try, where throw leads to the         *)
(* handlers.                                                               *)
LEMMA TriedOk ==
  ASSUME Shape, Visiting, agenda # <<>>,
         NEW m \in Nat, m >= Len(nodes),
         NEW s \in {0} \cup Stms, May(s) \subseteq May(Top.stm),
         NEW b \in 1 .. m, NEW e \in 1 .. m, NEW out \in 1 .. m
  PROVE  /\ Tried(s, b, e, out) \in CallUpTo(m) /\ Knows(Tried(s, b, e, out))
         /\ Tried(s, b, e, out).begin = b
<1>1. /\ Visit(s, b, e) \in CallUpTo(m) /\ Visit(s, b, e).begin = b
      /\ Visit(s, b, e).end = e /\ Visit(s, b, e).stm = s
      /\ Visit(s, b, e).break = Top.break /\ Visit(s, b, e).continue = Top.continue
      /\ Visit(s, b, e).throw = Top.throw
  <2>1. LikeTop(Visit(s, b, e), m, s, b, e)
    BY VisitTyped
  <2>2. QED
    BY <2>1 DEF LikeTop
<1>2. PICK v : v = Visit(s, b, e)
  OBVIOUS
<1>3. PICK w : w = [v EXCEPT !.throw = out]
  OBVIOUS
<1>4. w \in CallUpTo(m)
  BY <1>1, <1>2, <1>3 DEF CallUpTo
<1>5. /\ w.begin = b /\ w.end = e /\ w.stm = s
      /\ w.break = Top.break /\ w.continue = Top.continue /\ w.throw = out
  BY <1>1, <1>2, <1>3 DEF CallUpTo
<1>6. Knows(w)
  <2>1. Knows(Top)
    BY TopOk
  <2> QED BY <1>5, <2>1 DEF Knows
<1>7. w = Tried(s, b, e, out)
  BY <1>2, <1>3, Zenon DEF Tried
<1>8. QED
  BY <1>4, <1>5, <1>6, <1>7

-----------------------------------------------------------------------------
(* A step of a visit: new nodes, and calls in the place of the one under   *)
(* way, that start from those of the new nodes that lead nowhere yet.      *)
LEMMA VisitStep ==
  ASSUME Shape, Visiting, agenda # <<>>,
         NEW m \in Nat, NEW new \in Seq(NodeUpTo(m)), m = Len(nodes) + Len(new),
         NEW first \in 1 .. m, NEW inner \in Seq(CallUpTo(m)),
         \A e \in Items(inner) : Knows(e),
         nodes' = Begun(Top.begin, first, new), Calls(inner), fn' = fn, stmList' = stmList,
         \/ labels' = labels
         \/ /\ labels' \in [Stms -> Nat]
            /\ \A l \in Stms : \/ labels'[l] = labels[l]
                               \/ labels[l] = 0 /\ \E j \in 1 .. Len(new) :
                                    labels'[l] = Len(nodes) + j /\ new[j].kind = "mark",
         \A j \in 1 .. Len(new) : \/ new[j].t # 0 /\ new[j].f # 0
                                  \/ \E e \in Items(inner) : e.begin = Len(nodes) + j
                                  \/ \E l \in Stms : labels'[l] = Len(nodes) + j
  PROVE  Shape' /\ Visiting'
<1> DEFINE k == Len(nodes)  b == Top.begin
<1>1. /\ b \in 1 .. k /\ k \in Nat /\ Len(new) \in Nat /\ k >= 2
      /\ Tail(agenda) \in Seq(CallUpTo(k))
      /\ Items(agenda) = {Top} \cup Items(Tail(agenda))
  BY TopOk, LenProperties DEF Shape
<1>2. /\ nodes' \in Seq(NodeUpTo(m)) /\ Len(nodes') = m
      /\ \A n \in 1 .. k :
           /\ nodes'[n].kind = nodes[n].kind
           /\ n # b => nodes'[n] = nodes[n]
           /\ n = b => nodes'[n].t = first /\ nodes'[n].f = first
      /\ \A j \in 1 .. Len(new) : nodes'[k + j] = new[j]
  <2>1. /\ Begun(b, first, new) \in Seq(NodeUpTo(m)) /\ Len(Begun(b, first, new)) = m
        /\ \A n \in 1 .. k :
             /\ Begun(b, first, new)[n].kind = nodes[n].kind
             /\ n # b => Begun(b, first, new)[n] = nodes[n]
             /\ n = b => Begun(b, first, new)[n].t = first /\ Begun(b, first, new)[n].f = first
        /\ \A j \in 1 .. Len(new) : Begun(b, first, new)[k + j] = new[j]
    <3>1. b \in 1 .. Len(nodes) /\ m = Len(nodes) + Len(new)
      BY <1>1
    <3> HIDE DEF b
    <3> QED BY <3>1, BegunOk
  <2>2. nodes' = Begun(b, first, new)
    OBVIOUS
  <2> QED BY <2>1, <2>2, Zenon
<1>4. \A n \in 1 .. k : /\ nodes'[n].kind = nodes[n].kind
                        /\ n # b => nodes'[n].t = nodes[n].t /\ nodes'[n].f = nodes[n].f
                        /\ n = b => nodes'[n].t = first /\ nodes'[n].f = first
  BY <1>2
<1>5. CallUpTo(k) \subseteq CallUpTo(m)
  <2>1. 0 .. k \subseteq 0 .. m
    BY <1>1
  <2> QED BY <2>1 DEF CallUpTo
<1>6. Tail(agenda) \in Seq(CallUpTo(m))
  BY <1>1, <1>5, SeqMonotonic
<1>7. agenda' \in Seq(CallUpTo(m)) /\ Items(agenda') = Items(inner) \cup Items(Tail(agenda))
  <2>1. inner \in Seq(CallUpTo(m)) /\ agenda' = inner \o Tail(agenda)
    BY DEF Calls
  <2>2. /\ inner \o Tail(agenda) \in Seq(CallUpTo(m))
        /\ Items(inner \o Tail(agenda)) = Items(inner) \cup Items(Tail(agenda))
    <3>1. \A S : \A s, u \in Seq(S) : s \o u \in Seq(S) /\ Items(s \o u) = Items(s) \cup Items(u)
      BY ItemsConcat, Zenon
    <3>2. \A s, u \in Seq(CallUpTo(m)) :
            s \o u \in Seq(CallUpTo(m)) /\ Items(s \o u) = Items(s) \cup Items(u)
      BY <3>1, Zenon
    <3>3. inner \in Seq(CallUpTo(m)) /\ Tail(agenda) \in Seq(CallUpTo(m))
      BY <1>6
    <3> QED BY <3>2, <3>3, Zenon
  <2> QED BY <2>1, <2>2
<1>8. /\ labels \in [Stms -> 0 .. k] /\ \A l \in Stms : labels[l] # 0 => nodes[labels[l]].kind = "mark"
  BY DEF Shape
<1>9. /\ labels' \in [Stms -> 0 .. m]
      /\ \A l \in Stms : labels[l] # 0 => labels'[l] = labels[l]
      /\ \A l \in Stms : labels'[l] # 0 => nodes'[labels'[l]].kind = "mark"
  <2>1. CASE labels' = labels
    <3>1. labels' \in [Stms -> 0 .. m]
      BY <1>1, <1>8, <2>1
    <3>2. \A l \in Stms : labels[l] # 0 => labels[l] \in 1 .. k
      BY <1>8
    <3> QED BY <1>4, <1>8, <2>1, <3>1, <3>2
  <2>2. CASE ~ (labels' = labels)
    <3>1. \A l \in Stms : \/ labels'[l] = labels[l]
                          \/ labels[l] = 0 /\ \E j \in 1 .. Len(new) :
                                    labels'[l] = Len(nodes) + j /\ new[j].kind = "mark"
      BY <2>2
    <3>2. \A l \in Stms : labels'[l] \in 0 .. m
      <4> TAKE l \in Stms
      <4>1. CASE labels'[l] = labels[l]
        BY <1>1, <1>8, <4>1
      <4>2. CASE \E j \in 1 .. Len(new) : labels'[l] = k + j
        BY <1>1, <4>2
      <4> QED BY <3>1, <4>1, <4>2
    <3>3. \A l \in Stms : labels'[l] # 0 => nodes'[labels'[l]].kind = "mark"
      <4> TAKE l \in Stms
      <4>1. CASE labels'[l] = labels[l]
        BY <1>4, <1>8, <4>1
      <4>2. CASE \E j \in 1 .. Len(new) : labels'[l] = k + j /\ new[j].kind = "mark"
        BY <1>2, <4>2
      <4> QED BY <3>1, <4>1, <4>2
    <3>4. labels' \in [Stms -> 0 .. m]
      BY <2>2, <3>2
    <3> QED BY <3>1, <3>3, <3>4
  <2> QED BY <2>1, <2>2
<1>10. Stms' = Stms
  BY DEF Stms
<1>11. Shape'
  <2>1. NodeUpTo(m)' = NodeUpTo(m) /\ CallUpTo(m)' = CallUpTo(m)
    BY <1>10 DEF NodeUpTo, CallUpTo
  <2>2. nodes' \in Seq(NodeUpTo(Len(nodes))') /\ agenda' \in Seq(CallUpTo(Len(nodes))')
    BY <1>2, <1>7, <1>10 DEF NodeUpTo, CallUpTo
  <2>3. nodes'[BEGIN].kind = "begin" /\ nodes'[END].kind = "end"
    BY <1>1, <1>4 DEF Shape, BEGIN, END
  <2>4. m >= 2 /\ stmList \subseteq 1 .. m
    BY <1>1 DEF Shape
  <2> QED BY <1>2, <1>9, <1>10, <2>2, <2>3, <2>4 DEF Shape
<1>12. \A e \in Items(agenda') : Knows(e)'
  <2>1. \A e : Knows(e)' <=> Knows(e)
    BY DEF Knows, May
  <2> QED BY <1>1, <1>7, <2>1 DEF Visiting
<1>13. \A n \in 1 .. m : n = END \/ Tied(n)' \/ Labelled(n)' \/ Pending(n)'
  <2> TAKE n \in 1 .. m
  <2>1. CASE n = b
    BY <1>1, <1>4, <2>1 DEF Tied
  <2>2. CASE n # b /\ n \in 1 .. k
    <3>1. n = END \/ Tied(n) \/ Labelled(n) \/ Pending(n)
      BY <2>2 DEF Visiting
    <3>2. Tied(n) => Tied(n)'
      BY <1>4, <2>2 DEF Tied
    <3>3. Labelled(n) => Labelled(n)'
      <4>1. n # 0
        BY <2>2
      <4> QED BY <1>9, <1>10, <4>1 DEF Labelled
    <3>4. Pending(n) => Pending(n)'
      BY <1>1, <1>7, <2>2 DEF Pending
    <3> QED BY <3>1, <3>2, <3>3, <3>4
  <2>3. CASE n \notin 1 .. k
    <3>1. PICK j \in 1 .. Len(new) : n = k + j
      <4>1. n - k \in 1 .. Len(new) /\ n = k + (n - k)
        BY <1>1, <2>3
      <4> QED BY <4>1
    <3>2. nodes'[n] = new[j]
      BY <1>2, <3>1
    <3>3. (new[j].t # 0 /\ new[j].f # 0) => Tied(n)'
      BY <3>2 DEF Tied
    <3>4. (\E e \in Items(inner) : e.begin = k + j) => Pending(n)'
      BY <1>7, <3>1 DEF Pending
    <3>5. (\E l \in Stms : labels'[l] = k + j) => Labelled(n)'
      BY <1>10, <3>1 DEF Labelled
    <3> QED BY <3>3, <3>4, <3>5
  <2> QED BY <2>1, <2>2, <2>3
<1>14. Started'
  <2>1. nodes'[BEGIN].t # 0
    <3>1. BEGIN \in 1 .. k
      BY <1>1 DEF BEGIN
    <3>2. nodes[BEGIN].t = 0 => b = BEGIN
      BY DEF Visiting, Started
    <3> QED BY <1>4, <3>1, <3>2
  <2> QED BY <2>1 DEF Started
<1>15. QED
  BY <1>2, <1>11, <1>12, <1>13, <1>14 DEF Visiting

-----------------------------------------------------------------------------
(* Short sequences, their items and lengths.                               *)
LEMMA TupleOk ==
  ASSUME NEW S, NEW x \in S, NEW y \in S, NEW z \in S
  PROVE  /\ <<>> \in Seq(S) /\ <<x>> \in Seq(S) /\ <<x, y>> \in Seq(S) /\ <<x, y, z>> \in Seq(S)
         /\ Items(<<>>) = {} /\ Items(<<x>>) = {x}
         /\ Items(<<x, y>>) = {x, y} /\ Items(<<x, y, z>>) = {x, y, z}
         /\ Len(<<x>>) = 1 /\ Len(<<x, y>>) = 2 /\ Len(<<x, y, z>>) = 3
BY DEF Items

(* A node made for a statement is a node.                                  *)
LEMMA NodeOk ==
  ASSUME NEW m \in Nat, NEW kind \in Stand, NEW s \in {0} \cup Stms,
         NEW t \in 0 .. m, NEW f \in 0 .. m
  PROVE  /\ Node(kind, s, t, f) \in NodeUpTo(m)
         /\ Node(kind, s, t, f).t = t /\ Node(kind, s, t, f).f = f
         /\ Node(kind, s, t, f).kind = kind
BY DEF Node, NodeUpTo

(* A forwarding node is a node.                                            *)
LEMMA ForwardOk ==
  ASSUME NEW m \in Nat
  PROVE  Forward \in NodeUpTo(m)
BY DEF Node, Through, Forward, NodeUpTo, Stand

(* Visiting an if preserves types, and every node has its successors or    *)
(* waits for a call.                                                       *)
LEMMA IfOk ==
  ASSUME Shape, Visiting, VisitIf
  PROVE  Shape' /\ Visiting'
<1> DEFINE k == Len(nodes)
<1> DEFINE m == k + 3
<1>1. agenda # <<>> /\ KindOf(Top.stm) = "if" /\ Top.stm # 0
  BY DEF VisitIf, Visits, NextIs, KindOf
<1>2. /\ k \in Nat /\ Top \in CallUpTo(k) /\ Knows(Top) /\ m \in Nat /\ m >= k
      /\ k + 1 \in 1 .. m /\ k + 2 \in 1 .. m /\ k + 3 \in 1 .. m
  BY <1>1, TopOk
<1>3. Top.end \in 1 .. m
  BY <1>2 DEF CallUpTo, Knows
<1>4. \A i \in 1 .. 3 : Kid(i) \in {0} \cup Stms /\ May(Kid(i)) \subseteq May(Top.stm)
  <2>1. Len(fn.ast[Top.stm].kids) = 3 /\ Binds("if") = {}
    BY <1>1, KidsOk DEF HasParts, Binds
  <2> QED BY <1>1, <2>1, KidsOk
<1>5. PICK cond : cond = Node("cond", Kid(1), k + 2, k + 3)
  OBVIOUS
<1>6. PICK yes : yes = Visit(Kid(2), k + 2, Top.end)
  OBVIOUS
<1>7. PICK no : no = Visit(Kid(3), k + 3, Top.end)
  OBVIOUS
<1>8. nodes' = Begun(Top.begin, k + 1, <<cond, Forward, Forward>>) /\ Calls(<<yes, no>>) /\ Unlabelled
  BY <1>5, <1>6, <1>7 DEF VisitIf, Last
<1> HIDE DEF m
<1>9. cond \in NodeUpTo(m) /\ cond.t # 0 /\ cond.f # 0 /\ Forward \in NodeUpTo(m)
  <2>1. Kid(1) \in {0} \cup Stms /\ k + 2 \in 0 .. m /\ k + 3 \in 0 .. m /\ "cond" \in Stand
    BY <1>2, <1>4 DEF Stand
  <2>2. m \in Nat
    BY <1>2
  <2>3. Forward \in NodeUpTo(m)
    BY <2>2, ForwardOk, Zenon
  <2>4. cond \in NodeUpTo(m)
    BY <1>5, <2>1, <2>2, NodeOk
  <2>5. cond.t = k + 2 /\ cond.f = k + 3
    BY <1>5 DEF Node
  <2> QED BY <1>2, <2>3, <2>4, <2>5
<1>10. yes \in CallUpTo(m) /\ Knows(yes) /\ yes.begin = k + 2
  <2>1. agenda # <<>> /\ m \in Nat /\ m >= Len(nodes) /\ k + 2 \in 1 .. m
    BY <1>1, <1>2
  <2>2. Kid(2) \in {0} \cup Stms /\ May(Kid(2)) \subseteq May(Top.stm)
    BY <1>4
  <2> HIDE DEF k
  <2> QED BY <1>3, <1>6, <2>1, <2>2, VisitOk
<1>11. no \in CallUpTo(m) /\ Knows(no) /\ no.begin = k + 3
  <2>1. agenda # <<>> /\ m \in Nat /\ m >= Len(nodes) /\ k + 3 \in 1 .. m
    BY <1>1, <1>2
  <2>2. Kid(3) \in {0} \cup Stms /\ May(Kid(3)) \subseteq May(Top.stm)
    BY <1>4
  <2> HIDE DEF k
  <2> QED BY <1>3, <1>7, <2>1, <2>2, VisitOk
<1>12. PICK new : new = <<cond, Forward, Forward>>
  OBVIOUS
<1>13. PICK inner : inner = <<yes, no>>
  OBVIOUS
<1>14. new \in Seq(NodeUpTo(m)) /\ Len(new) = 3 /\ m = k + Len(new)
  BY <1>2, <1>9, <1>12, TupleOk DEF m
<1>15. /\ inner \in Seq(CallUpTo(m)) /\ Items(inner) = {yes, no}
       /\ \A e \in Items(inner) : Knows(e)
  <2>1. inner \in Seq(CallUpTo(m)) /\ Items(inner) = {yes, no}
    BY <1>10, <1>11, <1>13, TupleOk
  <2> QED BY <1>10, <1>11, <2>1
<1>16. \A j \in 1 .. Len(new) : \/ new[j].t # 0 /\ new[j].f # 0
                                \/ \E e \in Items(inner) : e.begin = k + j
  BY <1>9, <1>10, <1>11, <1>12, <1>14, <1>15
<1>17. QED
  <2>1. agenda # <<>> /\ m \in Nat /\ m = Len(nodes) + Len(new) /\ k + 1 \in 1 .. m
    BY <1>1, <1>2, <1>14
  <2>2. /\ nodes' = Begun(Top.begin, k + 1, new) /\ Calls(inner)
        /\ fn' = fn /\ stmList' = stmList /\ labels' = labels
    BY <1>8, <1>12, <1>13 DEF Unlabelled
  <2> HIDE DEF k
  <2>3. \A j \in 1 .. Len(new) : \/ new[j].t # 0 /\ new[j].f # 0
                                 \/ \E e \in Items(inner) : e.begin = Len(nodes) + j
    BY <1>16 DEF k
  <2> QED BY <1>14, <1>15, <2>1, <2>2, <2>3, VisitStep

(* Without a node, the beginning leads to the end at once. *)
LEMMA NoNode ==
  ASSUME Shape, Visiting, agenda # <<>>,
         nodes' = Begun(Top.begin, Top.end, <<>>), Calls(<<>>), Unlabelled
  PROVE  Shape' /\ Visiting'
<1>1. Len(nodes) \in Nat /\ Top.end \in 1 .. Len(nodes)
  BY TopOk
<1>2. PICK new : new = <<>>
  OBVIOUS
<1>3. /\ new \in Seq(NodeUpTo(Len(nodes))) /\ Len(new) = 0
      /\ new \in Seq(CallUpTo(Len(nodes))) /\ Items(new) = {}
  BY <1>2 DEF Items
<1>4. nodes' = Begun(Top.begin, Top.end, new) /\ Calls(new)
  BY <1>2
<1>5. /\ Len(nodes) = Len(nodes) + Len(new)
      /\ \A j \in 1 .. Len(new) : \/ new[j].t # 0 /\ new[j].f # 0
                                  \/ \E e \in Items(new) : e.begin = Len(nodes) + j
  BY <1>1, <1>3
<1>6. fn' = fn /\ stmList' = stmList /\ labels' = labels
  BY DEF Unlabelled
<1>7. QED
  BY <1>1, <1>3, <1>4, <1>5, <1>6, VisitStep

(* So does visiting an absent statement or a label of a switch.            *)
LEMMA NothingOk ==
  ASSUME Shape, Visiting, VisitNothing
  PROVE  Shape' /\ Visiting'
BY NoNode DEF VisitNothing, Visits, NextIs

(* A jump and a simple statement make one node, and no call. *)
LEMMA OneNode ==
  ASSUME Shape, Visiting, agenda # <<>>,
         NEW node \in NodeUpTo(Len(nodes) + 1), node.t # 0, node.f # 0,
         nodes' = Begun(Top.begin, Len(nodes) + 1, <<node>>), Calls(<<>>), Unlabelled
  PROVE  Shape' /\ Visiting'
<1>1. Len(nodes) \in Nat
  BY TopOk
<1>2. PICK m : m = Len(nodes) + 1
  OBVIOUS
<1>3. PICK new : new = <<node>>
  OBVIOUS
<1>4. PICK inner : inner = <<>>
  OBVIOUS
<1>5. /\ new \in Seq(NodeUpTo(m)) /\ Len(new) = 1
      /\ inner \in Seq(CallUpTo(m)) /\ Items(inner) = {} /\ new[1] = node
  BY <1>2, <1>3, <1>4 DEF Items
<1>6. m \in Nat /\ m = Len(nodes) + Len(new) /\ m \in 1 .. m
  BY <1>1, <1>2, <1>5
<1>7. nodes' = Begun(Top.begin, m, new) /\ Calls(inner)
  BY <1>2, <1>3, <1>4
<1>8. fn' = fn /\ stmList' = stmList /\ labels' = labels
  BY DEF Unlabelled
<1>9. \A j \in 1 .. Len(new) : new[j].t # 0 /\ new[j].f # 0
  BY <1>5
<1>10. QED
  BY <1>5, <1>6, <1>7, <1>8, <1>9, VisitStep, ZenonT(60)

(* So does visiting break and continue.                                    *)
LEMMA JumpOk ==
  ASSUME Shape, Visiting, VisitJump
  PROVE  Shape' /\ Visiting'
<1>1. /\ agenda # <<>> /\ KindOf(Top.stm) \in {"break", "continue"} /\ Top.stm # 0
  BY DEF VisitJump, Visits, NextIs, KindOf
<1>2. Len(nodes) \in Nat /\ Top \in CallUpTo(Len(nodes)) /\ Knows(Top)
  BY <1>1, TopOk
<1>3. KindOf(Top.stm) \in May(Top.stm)
  <2>1. WellFormed(fn) /\ Top.stm \in Stms /\ KindOf(Top.stm) = fn.ast[Top.stm].kind
    BY <1>1, KidsOk, FunctionsAssumption DEF Shape
  <2> QED BY <1>1, <2>1 DEF WellFormed, Stms, May
<1>4. PICK out : out = IF KindOf(Top.stm) = "break" THEN Top.break ELSE Top.continue
  OBVIOUS
<1>5. out \in 1 .. Len(nodes)
  BY <1>1, <1>2, <1>3, <1>4 DEF Knows, CallUpTo
<1>6. PICK node : node = Through(KindOf(Top.stm), Top.stm, out)
  OBVIOUS
<1>7. node \in NodeUpTo(Len(nodes) + 1) /\ node.t # 0 /\ node.f # 0
  <2>1. /\ KindOf(Top.stm) \in Stand /\ Top.stm \in {0} \cup Stms
        /\ out \in 0 .. Len(nodes) + 1 /\ Len(nodes) + 1 \in Nat
    BY <1>1, <1>2, <1>5, TopOk DEF Stand
  <2>2. node = Node(KindOf(Top.stm), Top.stm, out, out)
    BY <1>6 DEF Through
  <2>3. node \in NodeUpTo(Len(nodes) + 1) /\ node.t = out /\ node.f = out
    BY <2>1, <2>2 DEF Node, NodeUpTo
  <2> QED BY <1>5, <2>3
<1>8. nodes' = Begun(Top.begin, Len(nodes) + 1, <<node>>) /\ Calls(<<>>) /\ Unlabelled
  BY <1>4, <1>6 DEF VisitJump, Last
<1>9. QED
  BY <1>1, <1>7, <1>8, OneNode

(* So does visiting a statement without parts.                             *)
LEMMA SimpleOk ==
  ASSUME Shape, Visiting, VisitSimple
  PROVE  Shape' /\ Visiting'
<1>1. /\ agenda # <<>> /\ KindOf(Top.stm) \in Simple \cup CaseLabel /\ Top.stm # 0
  BY DEF VisitSimple, Visits, NextIs, KindOf, Simple, CaseLabel
<1>2. /\ Len(nodes) \in Nat /\ Len(nodes) >= 2 /\ Top.stm \in {0} \cup Stms
      /\ Top.end \in 1 .. Len(nodes) /\ Top.throw \in 1 .. Len(nodes)
  BY <1>1, TopOk DEF Shape
<1>3. PICK start : start = nodes[BEGIN].t
  OBVIOUS
<1>4. start \in 1 .. Len(nodes)
  <2>1. fn.body \in Stms /\ fn.ast[fn.body].kind = "block"
    BY FunctionsAssumption DEF Shape, WellFormed, Stms
  <2>2. Top.stm # fn.body
    BY <1>1, <2>1 DEF KindOf, Simple, CaseLabel
  <2>3. start # 0
    BY <1>3, <2>2 DEF Visiting, Started
  <2>4. nodes[BEGIN] \in NodeUpTo(Len(nodes))
    BY <1>2, ElementOfSeq DEF Shape, BEGIN
  <2> QED BY <1>3, <2>3, <2>4 DEF NodeUpTo
<1>5. PICK node : node =
        CASE KindOf(Top.stm) = "throw"  -> Through("throw", Top.stm, Top.throw)
          [] KindOf(Top.stm) = "exit"   -> Through("stm", Top.stm, END)
          [] KindOf(Top.stm) = "return" ->
               Through("return", Top.stm, IF FoundRecursive(Top.stm) THEN start ELSE END)
          [] OTHER -> Node("stm", Top.stm, IF FoundRecursive(Top.stm) THEN start ELSE Top.end, Top.end)
  OBVIOUS
<1>6. \E kind \in {"throw", "stm", "return"}, t, f \in 1 .. Len(nodes) :
         node = Node(kind, Top.stm, t, f)
  <2>1. END \in 1 .. Len(nodes)
    BY <1>2 DEF END
  <2> QED BY <1>2, <1>4, <1>5, <2>1 DEF Through
<1>7. node \in NodeUpTo(Len(nodes) + 1) /\ node.t # 0 /\ node.f # 0
  <2>1. PICK kind \in {"throw", "stm", "return"}, t \in 1 .. Len(nodes), f \in 1 .. Len(nodes) :
          node = Node(kind, Top.stm, t, f)
    BY <1>6
  <2>2. /\ kind \in Stand /\ t \in 0 .. Len(nodes) + 1 /\ f \in 0 .. Len(nodes) + 1
        /\ Len(nodes) + 1 \in Nat
    BY <1>2 DEF Stand
  <2>3. node \in NodeUpTo(Len(nodes) + 1) /\ node.t = t /\ node.f = f
    BY <1>2, <2>1, <2>2 DEF Node, NodeUpTo
  <2> QED BY <2>3
<1>8. nodes' = Begun(Top.begin, Len(nodes) + 1, <<node>>) /\ Calls(<<>>) /\ Unlabelled
  BY <1>3, <1>5 DEF VisitSimple, Last
<1>9. QED
  BY <1>1, <1>7, <1>8, OneNode

(* while and do make three nodes, and a call for the body. *)
LEMMA LoopStep ==
  ASSUME Shape, Visiting, agenda # <<>>,
         NEW x \in NodeUpTo(Len(nodes) + 3), NEW y \in NodeUpTo(Len(nodes) + 3),
         NEW z \in NodeUpTo(Len(nodes) + 3), NEW call \in CallUpTo(Len(nodes) + 3), Knows(call),
         (x.t # 0 /\ x.f # 0) \/ call.begin = Len(nodes) + 1,
         (y.t # 0 /\ y.f # 0) \/ call.begin = Len(nodes) + 2,
         z.t # 0 /\ z.f # 0,
         nodes' = Begun(Top.begin, Len(nodes) + 1, <<x, y, z>>), Calls(<<call>>), Unlabelled
  PROVE  Shape' /\ Visiting'
<1>1. Len(nodes) \in Nat
  BY TopOk
<1>2. PICK m : m = Len(nodes) + 3
  OBVIOUS
<1>3. PICK new : new = <<x, y, z>>
  OBVIOUS
<1>4. PICK inner : inner = <<call>>
  OBVIOUS
<1>5. /\ new \in Seq(NodeUpTo(m)) /\ Len(new) = 3
      /\ new[1] = x /\ new[2] = y /\ new[3] = z
  BY <1>2, <1>3
<1>6. inner \in Seq(CallUpTo(m)) /\ Items(inner) = {call} /\ \A e \in Items(inner) : Knows(e)
  BY <1>2, <1>4 DEF Items
<1>7. /\ m \in Nat /\ m = Len(nodes) + Len(new) /\ Len(nodes) + 1 \in 1 .. m
  BY <1>1, <1>2, <1>5
<1>8. nodes' = Begun(Top.begin, Len(nodes) + 1, new) /\ Calls(inner)
  BY <1>3, <1>4
<1>9. fn' = fn /\ stmList' = stmList /\ labels' = labels
  BY DEF Unlabelled
<1>10. \A j \in 1 .. Len(new) : \/ new[j].t # 0 /\ new[j].f # 0
                                \/ \E e \in Items(inner) : e.begin = Len(nodes) + j
  <2> TAKE j \in 1 .. Len(new)
  <2>1. j \in {1, 2, 3}
    BY <1>5
  <2> QED BY <1>5, <1>6, <2>1
<1>11. QED
  BY <1>5, <1>6, <1>7, <1>8, <1>9, <1>10, VisitStep, ZenonT(60)

(* The kids of while and do *)
LEMMA LoopKids ==
  ASSUME Shape, Visiting, agenda # <<>>, KindOf(Top.stm) \in {"while", "do"}
  PROVE  /\ Kid(1) \in {0} \cup Stms /\ Kid(2) \in {0} \cup Stms
         /\ May(Kid(2)) \subseteq May(Top.stm) \cup {"break", "continue"}
         /\ Len(nodes) \in Nat /\ Top.end \in 1 .. Len(nodes)
<1>1. Top.stm # 0
  BY DEF KindOf
<1>2. Len(fn.ast[Top.stm].kids) = 2 /\ Binds(KindOf(Top.stm)) = {"break", "continue"}
  BY <1>1, KidsOk DEF HasParts, Binds
<1>3. \A i \in 1 .. 2 : /\ Kid(i) \in {0} \cup Stms
                        /\ May(Kid(i)) \subseteq May(Top.stm) \cup {"break", "continue"}
  BY <1>1, <1>2, KidsOk
<1>4. QED
  BY <1>3, TopOk

(* So does visiting a while.                                               *)
LEMMA WhileOk ==
  ASSUME Shape, Visiting, VisitWhile
  PROVE  Shape' /\ Visiting'
<1> DEFINE k == Len(nodes)
<1>1. agenda # <<>> /\ KindOf(Top.stm) = "while"
  BY DEF VisitWhile, Visits, NextIs
<1>2. /\ Kid(1) \in {0} \cup Stms /\ Kid(2) \in {0} \cup Stms
      /\ May(Kid(2)) \subseteq May(Top.stm) \cup {"break", "continue"}
      /\ k \in Nat /\ Top.end \in 1 .. k
  BY <1>1, LoopKids
<1>3. PICK x : x = Through("forward", 0, k + 3)
  OBVIOUS
<1>4. PICK z : z = Node("cond", Kid(1), k + 2, Top.end)
  OBVIOUS
<1>5. PICK call : call = [Visit(Kid(2), k + 2, k + 1) EXCEPT !.break = Top.end, !.continue = k + 1]
  OBVIOUS
<1>6. PICK y : y = Forward
  OBVIOUS
<1>7. x \in NodeUpTo(k + 3) /\ x.t # 0 /\ x.f # 0
  BY <1>2, <1>3 DEF Through, Node, NodeUpTo, Stand
<1>8. y \in NodeUpTo(k + 3)
  BY <1>2, <1>6 DEF Forward, Through, Node, NodeUpTo, Stand
<1>9. z \in NodeUpTo(k + 3) /\ z.t # 0 /\ z.f # 0
  BY <1>2, <1>4 DEF Node, NodeUpTo, Stand
<1>10. call \in CallUpTo(k + 3) /\ Knows(call) /\ call.begin = k + 2
  <2>1. PICK m : m = k + 3
    OBVIOUS
  <2>2. /\ m \in Nat /\ m >= Len(nodes)
        /\ k + 2 \in 1 .. m /\ k + 1 \in 1 .. m /\ Top.end \in 1 .. m
    BY <1>2, <2>1
  <2>3. call \in CallUpTo(m) /\ Knows(call) /\ call.begin = k + 2
    <3>1. Kid(2) \in {0} \cup Stms /\ May(Kid(2)) \subseteq May(Top.stm) \cup {"break", "continue"}
      BY <1>2
    <3>2. call = Inner(Kid(2), k + 2, k + 1, Top.end, k + 1)
      BY <1>5 DEF Inner
    <3> HIDE DEF k
    <3>3. \A b, e, out, c \in 1 .. m :
            /\ Inner(Kid(2), b, e, out, c) \in CallUpTo(m) /\ Knows(Inner(Kid(2), b, e, out, c))
            /\ Inner(Kid(2), b, e, out, c).begin = b
      BY <1>1, <2>2, <3>1, InnerOk
    <3> QED BY <2>2, <3>2, <3>3, Zenon
  <2> QED BY <2>1, <2>3
<1>11. nodes' = Begun(Top.begin, k + 1, <<x, y, z>>) /\ Calls(<<call>>) /\ Unlabelled
  BY <1>3, <1>4, <1>5, <1>6 DEF VisitWhile, Last
<1>12. QED
  BY <1>1, <1>7, <1>8, <1>9, <1>10, <1>11, LoopStep

(* So does visiting a do.                                                  *)
LEMMA DoOk ==
  ASSUME Shape, Visiting, VisitDo
  PROVE  Shape' /\ Visiting'
<1> DEFINE k == Len(nodes)
<1>1. agenda # <<>> /\ KindOf(Top.stm) = "do"
  BY DEF VisitDo, Visits, NextIs
<1>2. /\ Kid(1) \in {0} \cup Stms /\ Kid(2) \in {0} \cup Stms
      /\ May(Kid(2)) \subseteq May(Top.stm) \cup {"break", "continue"}
      /\ k \in Nat /\ Top.end \in 1 .. k
  BY <1>1, LoopKids
<1>3. PICK x : x = Forward
  OBVIOUS
<1>4. PICK z : z = Node("cond", Kid(1), k + 1, Top.end)
  OBVIOUS
<1>5. PICK call : call = [Visit(Kid(2), k + 1, k + 2) EXCEPT !.break = Top.end, !.continue = k + 2]
  OBVIOUS
<1>6. PICK y : y = Through("forward", 0, k + 3)
  OBVIOUS
<1>7. x \in NodeUpTo(k + 3)
  BY <1>2, <1>3 DEF Forward, Through, Node, NodeUpTo, Stand
<1>8. y \in NodeUpTo(k + 3) /\ y.t # 0 /\ y.f # 0
  BY <1>2, <1>6 DEF Through, Node, NodeUpTo, Stand
<1>9. z \in NodeUpTo(k + 3) /\ z.t # 0 /\ z.f # 0
  BY <1>2, <1>4 DEF Node, NodeUpTo, Stand
<1>10. call \in CallUpTo(k + 3) /\ Knows(call) /\ call.begin = k + 1
  <2>1. PICK m : m = k + 3
    OBVIOUS
  <2>2. /\ m \in Nat /\ m >= Len(nodes)
        /\ k + 2 \in 1 .. m /\ k + 1 \in 1 .. m /\ Top.end \in 1 .. m
    BY <1>2, <2>1
  <2>3. call \in CallUpTo(m) /\ Knows(call) /\ call.begin = k + 1
    <3>1. Kid(2) \in {0} \cup Stms /\ May(Kid(2)) \subseteq May(Top.stm) \cup {"break", "continue"}
      BY <1>2
    <3>2. call = Inner(Kid(2), k + 1, k + 2, Top.end, k + 2)
      BY <1>5 DEF Inner
    <3> HIDE DEF k
    <3>3. \A b, e, out, c \in 1 .. m :
            /\ Inner(Kid(2), b, e, out, c) \in CallUpTo(m) /\ Knows(Inner(Kid(2), b, e, out, c))
            /\ Inner(Kid(2), b, e, out, c).begin = b
      BY <1>1, <2>2, <3>1, InnerOk
    <3> QED BY <2>2, <3>2, <3>3, Zenon
  <2> QED BY <2>1, <2>3
<1>11. nodes' = Begun(Top.begin, k + 1, <<x, y, z>>) /\ Calls(<<call>>) /\ Unlabelled
  BY <1>3, <1>4, <1>5, <1>6 DEF VisitDo, Last
<1>12. QED
  BY <1>1, <1>7, <1>8, <1>9, <1>10, <1>11, LoopStep

(* The body of a handler is visited in its place. *)
LEMMA CatchOk ==
  ASSUME Shape, Visiting, VisitCatch
  PROVE  Shape' /\ Visiting'
<1> DEFINE k == Len(nodes)
<1>1. agenda # <<>> /\ KindOf(Top.stm) \in {"catch", "catchall"} /\ Top.stm # 0
  BY DEF VisitCatch, Visits, NextIs, KindOf
<1>2. /\ Top \in CallUpTo(k) /\ Knows(Top) /\ Tail(agenda) \in Seq(CallUpTo(k))
      /\ Items(agenda) = {Top} \cup Items(Tail(agenda)) /\ k \in Nat
  BY <1>1, TopOk
<1>3. Kid(1) \in {0} \cup Stms /\ May(Kid(1)) \subseteq May(Top.stm)
  <2>1. Len(fn.ast[Top.stm].kids) = 1 /\ Binds(KindOf(Top.stm)) = {}
    BY <1>1, KidsOk DEF HasParts, Binds
  <2> QED BY <1>1, <2>1, KidsOk
<1>4. PICK x : x = [Top EXCEPT !.stm = Kid(1)]
  OBVIOUS
<1>5. x \in CallUpTo(k) /\ Knows(x) /\ x.begin = Top.begin
  BY <1>2, <1>3, <1>4 DEF CallUpTo, Knows
<1>6. agenda' = <<x>> \o Tail(agenda) /\ nodes' = nodes /\ Unlabelled
  BY <1>4 DEF VisitCatch
<1>7. PICK inner : inner = <<x>>
  OBVIOUS
<1>8. inner \in Seq(CallUpTo(k)) /\ Items(inner) = {x}
  BY <1>5, <1>7 DEF Items
<1>9. /\ inner \o Tail(agenda) \in Seq(CallUpTo(k))
      /\ Items(inner \o Tail(agenda)) = Items(inner) \cup Items(Tail(agenda))
  <2>1. inner \in Seq(CallUpTo(k)) /\ Tail(agenda) \in Seq(CallUpTo(k))
    BY <1>2, <1>8
  <2>2. \A S : \A s, u \in Seq(S) : s \o u \in Seq(S) /\ Items(s \o u) = Items(s) \cup Items(u)
    BY ItemsConcat, Zenon
  <2>3. \A s, u \in Seq(CallUpTo(k)) :
          s \o u \in Seq(CallUpTo(k)) /\ Items(s \o u) = Items(s) \cup Items(u)
    BY <2>2
  <2> QED BY <2>1, <2>3
<1>10. agenda' \in Seq(CallUpTo(k)) /\ Items(agenda') = {x} \cup Items(Tail(agenda))
  BY <1>6, <1>7, <1>8, <1>9
<1>11. Stms' = Stms /\ fn' = fn /\ labels' = labels /\ stmList' = stmList
  BY <1>6 DEF Unlabelled, Stms
<1>12. Shape'
  BY <1>6, <1>10, <1>11 DEF Shape, NodeUpTo, CallUpTo
<1>13. \A e \in Items(agenda') : Knows(e)'
  <2>1. \A e : Knows(e)' <=> Knows(e)
    BY <1>11 DEF Knows, May
  <2> QED BY <1>2, <1>5, <1>10, <2>1 DEF Visiting
<1>14. \A n \in 1 .. k : n = END \/ Tied(n)' \/ Labelled(n)' \/ Pending(n)'
  <2>1. \A n \in 1 .. k : Pending(n) => Pending(n)'
    BY <1>2, <1>5, <1>10 DEF Pending
  <2> QED BY <1>6, <1>11, <2>1 DEF Visiting, Tied, Labelled
<1>15. Started'
  <2>1. fn.body \in Stms /\ fn.ast[fn.body].kind = "block"
    BY FunctionsAssumption DEF Shape, WellFormed, Stms
  <2>2. Top.stm # fn.body
    BY <1>1, <2>1 DEF KindOf
  <2> QED BY <1>6, <2>2 DEF Visiting, Started
<1>16. QED
  BY <1>6, <1>11, <1>12, <1>13, <1>14, <1>15 DEF Visiting

(* The iteration of a for *)
LEMMA IterateOk ==
  ASSUME Shape, Visiting, Iterate
  PROVE  Shape' /\ Visiting'
<1>1. agenda # <<>> /\ Calls(<<>>) /\ Unlabelled
  BY DEF Iterate, NextIs
<1>2. CASE KindOf(Top.stm) = "null"
  BY <1>1, <1>2, NoNode DEF Iterate
<1>3. CASE KindOf(Top.stm) # "null"
  <2>1. PICK node : node = Through("stm", Top.stm, Top.end)
    OBVIOUS
  <2>2. Len(nodes) \in Nat /\ Top.end \in 1 .. Len(nodes) /\ Top.stm \in {0} \cup Stms
    BY <1>1, TopOk
  <2>3. node \in NodeUpTo(Len(nodes) + 1) /\ node.t # 0 /\ node.f # 0
    BY <2>1, <2>2 DEF Through, Node, NodeUpTo, Stand
  <2>4. nodes' = Begun(Top.begin, Len(nodes) + 1, <<node>>)
    BY <1>3, <2>1 DEF Iterate, Last
  <2> QED BY <1>1, <2>3, <2>4, OneNode
<1>4. QED
  BY <1>2, <1>3

(* The failure on a for without condition and body preserves types.        *)
LEMMA ForFailsOk ==
  ASSUME Shape, ForFails
  PROVE  Shape'
<1>1. agenda' = <<>> /\ UNCHANGED <<fn, nodes, labels, stmList>>
  BY DEF ForFails
<1>2. agenda' \in Seq(CallUpTo(Len(nodes))')
  BY <1>1
<1>3. QED
  BY <1>1, <1>2 DEF Shape, NodeUpTo, CallUpTo, Stms

(* A label is entered in the table when its node is made. *)
LEMMA LabelOk ==
  ASSUME Shape, Visiting, VisitLabel
  PROVE  Shape' /\ Visiting'
<1> DEFINE k == Len(nodes)
<1>1. agenda # <<>> /\ KindOf(Top.stm) \in {"label", "goto"} /\ Top.stm # 0
  BY DEF VisitLabel, Visits, NextIs, KindOf
<1>2. k \in Nat /\ Top.end \in 1 .. k /\ Top.stm \in Stms
  BY <1>1, TopOk
<1>3. PICK label : label = IF KindOf(Top.stm) = "goto" THEN fn.ast[Top.stm].to ELSE Top.stm
  OBVIOUS
<1>4. label \in Stms
  <2>1. WellFormed(fn) /\ KindOf(Top.stm) = fn.ast[Top.stm].kind
    BY <1>1, KidsOk, FunctionsAssumption DEF Shape
  <2> QED BY <1>2, <1>3, <2>1 DEF WellFormed, Stms
<1>5. PICK ref : ref = IF labels[label] = 0 THEN k + 1 ELSE labels[label]
  OBVIOUS
<1>6. PICK new : new = IF labels[label] = 0 THEN <<Through("mark", label, 0)>> ELSE <<>>
  OBVIOUS
<1>7. PICK inner : inner = IF KindOf(Top.stm) = "label" THEN <<Visit(Kid(1), ref, Top.end)>> ELSE <<>>
  OBVIOUS
<1>8. /\ labels' = [labels EXCEPT ![label] = ref]
      /\ nodes' = Begun(Top.begin, ref, new) /\ Calls(inner)
      /\ fn' = fn /\ stmList' = stmList
  BY <1>3, <1>5, <1>6, <1>7 DEF VisitLabel, Last
<1>9. PICK m : m = k + Len(new)
  OBVIOUS
<1>10. labels \in [Stms -> 0 .. k]
  BY DEF Shape
<1>11. PICK mark : mark = Through("mark", label, 0)
  OBVIOUS
<1>12. /\ mark.kind = "mark"
       /\ \A n \in Nat : mark \in NodeUpTo(n)
  BY <1>4, <1>11 DEF Through, Node, NodeUpTo, Stand
<1>13. /\ new \in Seq(NodeUpTo(m)) /\ m \in Nat /\ m >= k
       /\ labels[label] = 0 => Len(new) = 1 /\ new[1].kind = "mark" /\ m = k + 1
       /\ labels[label] # 0 => Len(new) = 0
  <2>1. CASE labels[label] = 0
    <3>1. new = <<mark>>
      BY <1>6, <1>11, <2>1
    <3>2. Len(new) = 1 /\ new[1] = mark
      BY <3>1
    <3>3. m \in Nat /\ m = k + 1
      BY <1>2, <1>9, <3>2
    <3> QED BY <1>2, <1>12, <2>1, <3>1, <3>2, <3>3
  <2>2. CASE labels[label] # 0
    <3>1. new = <<>> /\ m = k
      BY <1>2, <1>6, <1>9, <2>2
    <3> QED BY <1>2, <2>2, <3>1
  <2> QED BY <2>1, <2>2
<1>14. ref \in 1 .. m
  BY <1>2, <1>4, <1>5, <1>10, <1>13
<1>15. inner \in Seq(CallUpTo(m)) /\ \A e \in Items(inner) : Knows(e)
  <2>1. CASE KindOf(Top.stm) = "label"
    <3>1. PICK call : call = Visit(Kid(1), ref, Top.end)
      OBVIOUS
    <3>2. Kid(1) \in {0} \cup Stms /\ May(Kid(1)) \subseteq May(Top.stm)
      <4>1. Len(fn.ast[Top.stm].kids) = 1 /\ Binds(KindOf(Top.stm)) = {}
        BY <1>1, <2>1, KidsOk DEF HasParts, Binds
      <4> QED BY <1>1, <4>1, KidsOk
    <3>3. m \in Nat /\ m >= Len(nodes) /\ Top.end \in 1 .. m
      BY <1>2, <1>13
    <3>4. call \in CallUpTo(m) /\ Knows(call)
      BY <1>1, <1>14, <3>1, <3>2, <3>3, VisitOk
    <3>5. inner = <<call>>
      BY <1>7, <2>1, <3>1
    <3> QED BY <3>4, <3>5 DEF Items
  <2>2. CASE KindOf(Top.stm) # "label"
    <3>1. inner = <<>>
      BY <1>7, <2>2
    <3> QED BY <3>1 DEF Items
  <2> QED BY <2>1, <2>2
<1>16. /\ labels' \in [Stms -> Nat]
       /\ labels'[label] = ref /\ \A l \in Stms : l # label => labels'[l] = labels[l]
  <2>1. ref \in Nat /\ labels \in [Stms -> Nat]
    BY <1>2, <1>10, <1>14
  <2> QED BY <1>4, <1>8, <2>1
<1>17. \A l \in Stms : \/ labels'[l] = labels[l]
                       \/ labels[l] = 0 /\ \E j \in 1 .. Len(new) :
                            labels'[l] = Len(nodes) + j /\ new[j].kind = "mark"
  <2>1. CASE labels[label] = 0
    <3>1. Len(new) = 1 /\ new[1].kind = "mark"
      BY <1>13, <2>1, Zenon
    <3>2. labels'[label] = Len(nodes) + 1
      BY <1>5, <1>16, <2>1
    <3> QED BY <1>16, <2>1, <3>1, <3>2
  <2>2. CASE labels[label] # 0
    BY <1>5, <1>16, <2>2
  <2> QED BY <2>1, <2>2
<1>18. \A j \in 1 .. Len(new) : \E l \in Stms : labels'[l] = Len(nodes) + j
  <2> TAKE j \in 1 .. Len(new)
  <2>1. labels[label] = 0 /\ j = 1
    <3>1. labels[label] # 0 => Len(new) = 0
      BY <1>13, Zenon
    <3>2. labels[label] = 0 => Len(new) = 1
      BY <1>13, Zenon
    <3>3. Len(new) # 0
      <4>1. j \in 1 .. Len(new)
        OBVIOUS
      <4> QED BY <4>1
    <3>4. labels[label] = 0
      BY <3>1, <3>3
    <3>5. Len(new) = 1
      BY <3>2, <3>4
    <3>6. j \in 1 .. Len(new)
      OBVIOUS
    <3> QED BY <3>4, <3>5, <3>6
  <2>2. labels'[label] = Len(nodes) + j
    BY <1>5, <1>16, <2>1
  <2> QED BY <1>4, <2>2
<1>19. m = Len(nodes) + Len(new)
  BY <1>9
<1>20. QED
  <2> HIDE DEF k
  <2> QED BY <1>1, <1>8, <1>13, <1>14, <1>15, <1>16, <1>17, <1>18, <1>19, VisitStep

(* Where the elements of a concatenation come from *)
LEMMA ConcatAt ==
  ASSUME NEW S, NEW s \in Seq(S), NEW u \in Seq(S)
  PROVE  /\ s \o u \in Seq(S) /\ Len(s \o u) = Len(s) + Len(u)
         /\ Len(s) \in Nat /\ Len(u) \in Nat
         /\ \A i \in 1 .. Len(s) : (s \o u)[i] = s[i]
         /\ \A i \in 1 .. Len(u) : (s \o u)[Len(s) + i] = u[i]
         /\ \A i \in 1 .. Len(s \o u) : i \in 1 .. Len(s) \/ i - Len(s) \in 1 .. Len(u)
<1>1. /\ s \o u \in Seq(S) /\ Len(s \o u) = Len(s) + Len(u)
      /\ Len(s) \in Nat /\ Len(u) \in Nat
      /\ \A i \in 1 .. Len(s) + Len(u) :
           (s \o u)[i] = IF i <= Len(s) THEN s[i] ELSE u[i - Len(s)]
  BY ConcatProperties, LenProperties
<1>2. \A i \in 1 .. Len(u) : (s \o u)[Len(s) + i] = u[i]
  <2> TAKE i \in 1 .. Len(u)
  <2>1. Len(s) + i \in 1 .. Len(s) + Len(u) /\ ~ (Len(s) + i <= Len(s)) /\ Len(s) + i - Len(s) = i
    BY <1>1
  <2> QED BY <1>1, <2>1
<1>3. QED
  BY <1>1, <1>2

(* A sequence given by its elements *)
LEMMA SeqOf ==
  ASSUME NEW S, NEW n \in Nat, NEW g, g = [i \in 1 .. n |-> g[i]], \A i \in 1 .. n : g[i] \in S
  PROVE  g \in Seq(S) /\ Len(g) = n /\ \A e \in Items(g) : \E i \in 1 .. n : e = g[i]
<1>1. g \in [1 .. n -> S]
  <2>1. [i \in 1 .. n |-> g[i]] \in [1 .. n -> S]
    OBVIOUS
  <2> QED BY <2>1
<1>2. g \in Seq(S) /\ Len(g) = n
  BY <1>1
<1>3. QED
  BY <1>2 DEF Items

(* Visiting a block preserves types and successors.                        *)
LEMMA BlockOk ==
  ASSUME Shape, Visiting, VisitBlock
  PROVE  Shape' /\ Visiting'
<1>1. /\ agenda # <<>> /\ KindOf(Top.stm) = "block" /\ Top.stm # 0 /\ Unlabelled
  BY DEF VisitBlock, Visits, NextIs, KindOf
<1>2. PICK k : k = Len(fn.ast[Top.stm].kids)
  OBVIOUS
<1>3. PICK l : l = Len(nodes)
  OBVIOUS
<1>4. k \in Nat /\ l \in Nat /\ Top.end \in 1 .. l
  BY <1>1, <1>2, <1>3, TopOk, KidsOk, LenProperties
<1>5. \A i \in 1 .. k : /\ Kid(i) \in {0} \cup Stms /\ fn.ast[Top.stm].kids[i] = Kid(i)
                        /\ May(Kid(i)) \subseteq May(Top.stm)
  <2>1. Binds(KindOf(Top.stm)) = {}
    BY <1>1 DEF Binds
  <2> QED BY <1>1, <1>2, <2>1, KidsOk
<1>6. CASE k = 0
  <2>1. nodes' = Begun(Top.begin, Top.end, <<>>) /\ Calls(<<>>)
    BY <1>2, <1>6 DEF VisitBlock
  <2> QED BY <1>1, <2>1, NoNode
<1>7. CASE k # 0
  <2> DEFINE point(i) == IF i = 0 THEN l + 1 ELSE IF i = k THEN l + 2 ELSE l + 2 + i
  <2>1. PICK ends : ends = <<Through("open", 0, 0), Through("close", 0, Top.end)>>
    OBVIOUS
  <2>2. PICK between : between = [i \in 1 .. k - 1 |-> Forward]
    OBVIOUS
  <2>3. PICK inner : inner = [i \in 1 .. k |-> Visit(fn.ast[Top.stm].kids[i], point(i - 1), point(i))]
    OBVIOUS
  <2>4. nodes' = Begun(Top.begin, l + 1, ends \o between) /\ Calls(inner)
    BY <1>2, <1>3, <1>7, <2>1, <2>2, <2>3 DEF VisitBlock, Last
  <2>5. PICK m : m = l + 1 + k
    OBVIOUS
  <2>6. m \in Nat /\ m >= Len(nodes) /\ l + 1 \in 1 .. m /\ k - 1 \in Nat /\ Top.end \in 1 .. m
    BY <1>3, <1>4, <1>7, <2>5
  <2>7. \A i \in 0 .. k : point(i) \in 1 .. m
    BY <1>4, <1>7, <2>5
  <2>8. \A i \in 1 .. k : inner[i] = Visit(Kid(i), point(i - 1), point(i))
    BY <1>5, <2>3
  <2>9. \A i \in 1 .. k : i - 1 \in 0 .. k /\ i \in 0 .. k
    BY <1>4
  <2> HIDE DEF point
  <2>10. \A i \in 1 .. k : inner[i] \in CallUpTo(m) /\ Knows(inner[i]) /\ inner[i].begin = point(i - 1)
    <3> TAKE i \in 1 .. k
    <3>1. /\ Kid(i) \in {0} \cup Stms /\ May(Kid(i)) \subseteq May(Top.stm)
          /\ point(i - 1) \in 1 .. m /\ point(i) \in 1 .. m
      BY <1>5, <2>7, <2>9
    <3>2. PICK call : call = Visit(Kid(i), point(i - 1), point(i))
      OBVIOUS
    <3>3. call \in CallUpTo(m) /\ Knows(call) /\ call.begin = point(i - 1)
      BY <1>1, <2>6, <3>1, <3>2, VisitOk
    <3> QED BY <2>8, <3>2, <3>3
  <2>11. inner = [i \in 1 .. k |-> inner[i]]
    BY <2>3
  <2>12. /\ inner \in Seq(CallUpTo(m)) /\ Len(inner) = k
         /\ \A e \in Items(inner) : \E i \in 1 .. k : e = inner[i]
    <3>1. \A i \in 1 .. k : inner[i] \in CallUpTo(m)
      BY <2>10
    <3> QED BY <1>4, <2>11, <3>1, SeqOf
  <2>13. \A e \in Items(inner) : Knows(e)
    BY <2>10, <2>12
  <2>14. \A i \in 1 .. k : \E e \in Items(inner) : e.begin = point(i - 1)
    BY <2>10, <2>12 DEF Items
  <2>15. /\ ends \in Seq(NodeUpTo(m)) /\ Len(ends) = 2
         /\ ends[2].t # 0 /\ ends[2].f # 0
    <3>1. PICK open : open = Through("open", 0, 0)
      OBVIOUS
    <3>2. PICK close : close = Through("close", 0, Top.end)
      OBVIOUS
    <3>3. open \in NodeUpTo(m) /\ close \in NodeUpTo(m) /\ close.t # 0 /\ close.f # 0
      BY <2>6, <3>1, <3>2 DEF Through, Node, NodeUpTo, Stand
    <3>4. ends = <<open, close>>
      BY <2>1, <3>1, <3>2
    <3> QED BY <3>3, <3>4
  <2>16. between \in Seq(NodeUpTo(m)) /\ Len(between) = k - 1
    <3>1. Forward \in NodeUpTo(m)
      BY <2>6, ForwardOk
    <3> QED BY <2>2, <2>6, <3>1
  <2>17. PICK new : new = ends \o between
    OBVIOUS
  <2>18. /\ new \in Seq(NodeUpTo(m)) /\ Len(new) = 2 + (k - 1)
         /\ \A i \in 1 .. 2 : new[i] = ends[i]
    <3>1. ends \in Seq(NodeUpTo(m)) /\ between \in Seq(NodeUpTo(m))
      BY <2>15, <2>16
    <3>2. /\ new \in Seq(NodeUpTo(m)) /\ Len(new) = Len(ends) + Len(between)
          /\ \A i \in 1 .. Len(ends) : new[i] = ends[i]
      BY <2>17, <3>1, ConcatAt
    <3> QED BY <2>15, <2>16, <3>2
  <2>19. \A j \in 1 .. Len(new) : \/ new[j].t # 0 /\ new[j].f # 0
                                  \/ \E e \in Items(inner) : e.begin = Len(nodes) + j
    <3> TAKE j \in 1 .. Len(new)
    <3>1. CASE j = 2
      BY <2>15, <2>18, <3>1
    <3>2. CASE j = 1
      <4>1. 1 \in 1 .. k /\ point(1 - 1) = l + j
        BY <1>4, <1>7, <3>2 DEF point
      <4> QED BY <1>3, <2>14, <4>1
    <3>3. CASE j > 2
      <4>1. j - 1 \in 1 .. k /\ point(j - 1 - 1) = l + j
        BY <1>4, <1>7, <2>18, <3>3 DEF point
      <4> QED BY <1>3, <2>14, <4>1
    <3> QED BY <3>1, <3>2, <3>3
  <2>20. m = Len(nodes) + Len(new)
    BY <1>3, <1>4, <2>5, <2>18
  <2>21. nodes' = Begun(Top.begin, l + 1, new) /\ fn' = fn /\ stmList' = stmList /\ labels' = labels
    BY <1>1, <2>4, <2>17 DEF Unlabelled
  <2>22. /\ agenda # <<>> /\ m \in Nat /\ l + 1 \in 1 .. m /\ Calls(inner)
         /\ new \in Seq(NodeUpTo(m)) /\ inner \in Seq(CallUpTo(m))
    BY <1>1, <2>4, <2>6, <2>12, <2>18
  <2> QED BY <2>13, <2>19, <2>20, <2>21, <2>22, VisitStep
<1>8. QED
  BY <1>6, <1>7

(* So does visiting a for.                                                 *)
LEMMA ForOk ==
  ASSUME Shape, Visiting, VisitFor
  PROVE  Shape' /\ Visiting'
<1>1. /\ agenda # <<>> /\ KindOf(Top.stm) = "for" /\ Top.stm # 0 /\ Unlabelled
  BY DEF VisitFor, Visits, NextIs, KindOf
<1>2. PICK l : l = Len(nodes)
  OBVIOUS
<1>3. l \in Nat /\ Top.end \in 1 .. l
  BY <1>1, <1>2, TopOk
<1>4. \A i \in 1 .. 4 : /\ Kid(i) \in {0} \cup Stms
                        /\ May(Kid(i)) \subseteq May(Top.stm) \cup {"break", "continue"}
  <2>1. Len(fn.ast[Top.stm].kids) = 4 /\ Binds(KindOf(Top.stm)) = {"break", "continue"}
    BY <1>1, KidsOk DEF HasParts, Binds
  <2> QED BY <1>1, <2>1, KidsOk
<1>5. PICK endless \in BOOLEAN : endless <=> KindOf(Kid(2)) = "null"
  OBVIOUS
<1>6. PICK init : init = Inner(Kid(1), l + 2, l + 3, l + 5, l + 6)
  OBVIOUS
<1>7. PICK body : body = Inner(Kid(4), l + 4, l + 6, l + 5, l + 6)
  OBVIOUS
<1>8. PICK iter : iter = Inner(Kid(3), l + 6, l + 3, l + 5, l + 6)
  OBVIOUS
<1>9. PICK six : six = <<Through("open", 0, l + 2), Forward,
                  Through("forward", 0, IF endless THEN l + 4 ELSE l + 7), Forward,
                  Through("close", 0, Top.end), Forward>>
  OBVIOUS
<1>10. PICK test : test = IF endless THEN <<>> ELSE <<Node("cond", Kid(2), l + 4, l + 5)>>
  OBVIOUS
<1>11. /\ nodes' = Begun(Top.begin, l + 1, six \o test)
       /\ Calls(<<init, body, [iter EXCEPT !.do = "iterate"]>>)
  <2>1. KindOf(Kid(2)) = "null" <=> endless
    BY <1>5
  <2>2. CASE endless
    <3>1. KindOf(Kid(2)) = "null"
      BY <2>1, <2>2
    <3> QED BY <1>2, <1>6, <1>7, <1>8, <1>9, <1>10, <2>2, <3>1 DEF VisitFor, Last, Inner
  <2>3. CASE ~ endless
    <3>1. KindOf(Kid(2)) # "null"
      BY <2>1, <2>3
    <3> QED BY <1>2, <1>6, <1>7, <1>8, <1>9, <1>10, <2>3, <3>1 DEF VisitFor, Last, Inner
  <2> QED BY <2>2, <2>3
<1>12. PICK m : m = IF endless THEN l + 6 ELSE l + 7
  OBVIOUS
<1>13. /\ m \in Nat /\ m >= Len(nodes) /\ Top.end \in 1 .. m
       /\ l + 1 \in 1 .. m /\ l + 2 \in 1 .. m /\ l + 3 \in 1 .. m
       /\ l + 4 \in 1 .. m /\ l + 5 \in 1 .. m /\ l + 6 \in 1 .. m
  BY <1>2, <1>3, <1>12
<1>14. \A i \in 1 .. 4 : \A b, e, out, c \in 1 .. m :
         /\ Inner(Kid(i), b, e, out, c) \in CallUpTo(m) /\ Knows(Inner(Kid(i), b, e, out, c))
         /\ Inner(Kid(i), b, e, out, c).begin = b
  <2>1. m \in Nat /\ m >= Len(nodes)
    BY <1>13
  <2> QED BY <1>1, <1>4, <2>1, InnerOk
<1>15. 1 \in 1 .. 4 /\ 2 \in 1 .. 4 /\ 3 \in 1 .. 4 /\ 4 \in 1 .. 4
  OBVIOUS
<1>16. init \in CallUpTo(m) /\ Knows(init) /\ init.begin = l + 2
  <2>1. \A b, e, out, c \in 1 .. m :
          /\ Inner(Kid(1), b, e, out, c) \in CallUpTo(m) /\ Knows(Inner(Kid(1), b, e, out, c))
          /\ Inner(Kid(1), b, e, out, c).begin = b
    BY <1>14, <1>15, Zenon
  <2>2. /\ l + 2 \in 1 .. m /\ l + 3 \in 1 .. m /\ l + 4 \in 1 .. m
        /\ l + 5 \in 1 .. m /\ l + 6 \in 1 .. m
    BY <1>13
  <2> QED BY <1>6, <2>1, <2>2, ZenonT(60)
<1>17. body \in CallUpTo(m) /\ Knows(body) /\ body.begin = l + 4
  <2>1. \A b, e, out, c \in 1 .. m :
          /\ Inner(Kid(4), b, e, out, c) \in CallUpTo(m) /\ Knows(Inner(Kid(4), b, e, out, c))
          /\ Inner(Kid(4), b, e, out, c).begin = b
    BY <1>14, <1>15, Zenon
  <2>2. /\ l + 2 \in 1 .. m /\ l + 3 \in 1 .. m /\ l + 4 \in 1 .. m
        /\ l + 5 \in 1 .. m /\ l + 6 \in 1 .. m
    BY <1>13
  <2>3. PICK b : b = l + 4
    OBVIOUS
  <2>4. PICK e : e = l + 6
    OBVIOUS
  <2>5. PICK out : out = l + 5
    OBVIOUS
  <2>6. PICK c : c = l + 6
    OBVIOUS
  <2>7. b \in 1 .. m /\ e \in 1 .. m /\ out \in 1 .. m /\ c \in 1 .. m
    BY <2>2, <2>3, <2>4, <2>5, <2>6
  <2> QED BY <1>7, <2>1, <2>3, <2>4, <2>5, <2>6, <2>7
<1>18. iter \in CallUpTo(m) /\ Knows(iter) /\ iter.begin = l + 6
  <2>1. \A b, e, out, c \in 1 .. m :
          /\ Inner(Kid(3), b, e, out, c) \in CallUpTo(m) /\ Knows(Inner(Kid(3), b, e, out, c))
          /\ Inner(Kid(3), b, e, out, c).begin = b
    BY <1>14, <1>15, Zenon
  <2>2. /\ l + 2 \in 1 .. m /\ l + 3 \in 1 .. m /\ l + 4 \in 1 .. m
        /\ l + 5 \in 1 .. m /\ l + 6 \in 1 .. m
    BY <1>13
  <2>3. PICK b : b = l + 6
    OBVIOUS
  <2>4. PICK e : e = l + 3
    OBVIOUS
  <2>5. PICK out : out = l + 5
    OBVIOUS
  <2>6. PICK c : c = l + 6
    OBVIOUS
  <2>7. b \in 1 .. m /\ e \in 1 .. m /\ out \in 1 .. m /\ c \in 1 .. m
    BY <2>2, <2>3, <2>4, <2>5, <2>6
  <2> QED BY <1>8, <2>1, <2>3, <2>4, <2>5, <2>6, <2>7
<1>19. PICK step : step = [iter EXCEPT !.do = "iterate"]
  OBVIOUS
<1>20. step \in CallUpTo(m) /\ Knows(step) /\ step.begin = l + 6
  BY <1>18, <1>19 DEF CallUpTo, Knows
<1>21. PICK inner : inner = <<init, body, step>>
  OBVIOUS
<1>22. /\ inner \in Seq(CallUpTo(m)) /\ Items(inner) = {init, body, step}
  <2>1. init \in CallUpTo(m) /\ body \in CallUpTo(m) /\ step \in CallUpTo(m)
    BY <1>16, <1>17, <1>20
  <2> QED BY <1>21, <2>1 DEF Items
<1>23. PICK open : open = Through("open", 0, l + 2)
  OBVIOUS
<1>24. PICK join : join = Through("forward", 0, IF endless THEN l + 4 ELSE l + 7)
  OBVIOUS
<1>25. PICK close : close = Through("close", 0, Top.end)
  OBVIOUS
<1>26. PICK cond : cond = Node("cond", Kid(2), l + 4, l + 5)
  OBVIOUS
<1>27. /\ open \in NodeUpTo(m) /\ open.t # 0 /\ open.f # 0
       /\ close \in NodeUpTo(m) /\ close.t # 0 /\ close.f # 0
  <2>1. open \in NodeUpTo(m) /\ open.t # 0 /\ open.f # 0
    BY <1>3, <1>13, <1>23 DEF Through, Node, NodeUpTo, Stand
  <2>2. close \in NodeUpTo(m) /\ close.t # 0 /\ close.f # 0
    <3>1. Top.end \in 0 .. m /\ Top.end # 0
      BY <1>3, <1>13
    <3> QED BY <1>25, <3>1 DEF Through, Node, NodeUpTo, Stand
  <2> QED BY <2>1, <2>2
<1>28. join \in NodeUpTo(m) /\ join.t # 0 /\ join.f # 0
  BY <1>3, <1>12, <1>24 DEF Through, Node, NodeUpTo, Stand
<1>29. cond \in NodeUpTo(m) /\ cond.t # 0 /\ cond.f # 0
  <2>1. Kid(2) \in {0} \cup Stms
    BY <1>4
  <2> QED BY <1>3, <1>13, <1>26, <2>1 DEF Node, NodeUpTo, Stand
<1>30. Forward \in NodeUpTo(m)
  BY <1>13, ForwardOk
<1>31. /\ six \in Seq(NodeUpTo(m)) /\ Len(six) = 6
       /\ six[1] = open /\ six[3] = join /\ six[5] = close
  <2>1. six = <<open, Forward, join, Forward, close, Forward>>
    BY <1>9, <1>23, <1>24, <1>25
  <2> QED BY <1>27, <1>28, <1>30, <2>1
<1>32. /\ test \in Seq(NodeUpTo(m)) /\ 6 + Len(test) = m - l
       /\ \A i \in 1 .. Len(test) : test[i] = cond
  <2>1. CASE endless
    <3>1. test = <<>> /\ m = l + 6
      BY <1>10, <1>12, <2>1
    <3> QED BY <1>3, <3>1
  <2>2. CASE ~ endless
    <3>1. test = <<cond>> /\ m = l + 7
      BY <1>10, <1>12, <1>26, <2>2
    <3> QED BY <1>3, <1>29, <3>1
  <2> QED BY <2>1, <2>2
<1>33. PICK new : new = six \o test
  OBVIOUS
<1>34. /\ new \in Seq(NodeUpTo(m)) /\ Len(new) = 6 + Len(test)
       /\ \A i \in 1 .. 6 : new[i] = six[i]
       /\ \A i \in 1 .. Len(test) : new[6 + i] = test[i]
       /\ \A i \in 1 .. Len(new) : i \in 1 .. 6 \/ i - 6 \in 1 .. Len(test)
  <2>1. six \in Seq(NodeUpTo(m)) /\ test \in Seq(NodeUpTo(m))
    BY <1>31, <1>32
  <2>2. /\ new \in Seq(NodeUpTo(m)) /\ Len(new) = Len(six) + Len(test)
        /\ \A i \in 1 .. Len(six) : new[i] = six[i]
        /\ \A i \in 1 .. Len(test) : new[Len(six) + i] = test[i]
        /\ \A i \in 1 .. Len(new) : i \in 1 .. Len(six) \/ i - Len(six) \in 1 .. Len(test)
    BY <1>33, <2>1, ConcatAt
  <2>3. Len(six) = 6
    BY <1>31
  <2> QED BY <2>2, <2>3
<1>35. \A j \in 1 .. Len(new) : \/ new[j].t # 0 /\ new[j].f # 0
                                \/ \E e \in Items(inner) : e.begin = Len(nodes) + j
  <2> TAKE j \in 1 .. Len(new)
  <2>1. CASE j \in {1, 3, 5}
    BY <1>27, <1>28, <1>31, <1>34, <2>1
  <2>2. CASE j \in {2, 4, 6}
    BY <1>2, <1>16, <1>17, <1>20, <1>22, <2>2
  <2>3. CASE j \notin 1 .. 6
    <3>1. j - 6 \in 1 .. Len(test) /\ j = 6 + (j - 6)
      BY <1>34, <2>3
    <3>2. new[j] = cond
      BY <1>32, <1>34, <3>1
    <3> QED BY <1>29, <3>2
  <2> QED BY <2>1, <2>2, <2>3
<1>36. m = Len(nodes) + Len(new)
  BY <1>2, <1>3, <1>13, <1>32, <1>34
<1>37. /\ agenda # <<>> /\ m \in Nat /\ l + 1 \in 1 .. m /\ Calls(inner)
       /\ new \in Seq(NodeUpTo(m)) /\ inner \in Seq(CallUpTo(m))
  BY <1>1, <1>11, <1>13, <1>19, <1>21, <1>22, <1>34
<1>38. \A e \in Items(inner) : Knows(e)
  BY <1>16, <1>17, <1>20, <1>22
<1>39. nodes' = Begun(Top.begin, l + 1, new) /\ fn' = fn /\ stmList' = stmList /\ labels' = labels
  BY <1>1, <1>11, <1>33 DEF Unlabelled
<1>40. QED
  BY <1>35, <1>36, <1>37, <1>38, <1>39, VisitStep

(* So does visiting a switch.                                              *)
LEMMA SwitchOk ==
  ASSUME Shape, Visiting, VisitSwitch
  PROVE  Shape' /\ Visiting'
<1>1. /\ agenda # <<>> /\ KindOf(Top.stm) = "switch" /\ Top.stm # 0 /\ Unlabelled
  BY DEF VisitSwitch, Visits, NextIs, KindOf
<1>2. PICK kids : kids = fn.ast[Top.stm].kids
  OBVIOUS
<1>3. PICK k : k = Len(kids)
  OBVIOUS
<1>4. PICK l : l = Len(nodes)
  OBVIOUS
<1>5. k \in Nat \ {0} /\ l \in Nat /\ Top.end \in 1 .. l
  <2>1. Len(kids) > 0 /\ Len(kids) \in Nat
    BY <1>1, <1>2, KidsOk, LenProperties DEF HasParts
  <2> QED BY <1>1, <1>3, <1>4, <2>1, TopOk
<1>6. \A i \in 1 .. k : /\ kids[i] \in {0} \cup Stms
                        /\ May(kids[i]) \subseteq May(Top.stm) \cup {"break"}
  <2>1. Binds(KindOf(Top.stm)) = {"break"}
    BY <1>1 DEF Binds
  <2> QED BY <1>1, <1>2, <1>3, <2>1, KidsOk
<1>7. PICK m : m = l + 2 + 2 * k
  OBVIOUS
<1>8. /\ m \in Nat /\ m >= l /\ Top.end \in 1 .. m /\ k - 1 \in Nat
      /\ l + 1 \in 1 .. m /\ l + 2 \in 1 .. m /\ l + k + 1 + 2 \in 1 .. m
      /\ \A i \in 1 .. k : l + 2 + i \in 1 .. m /\ l + 2 + k + i \in 1 .. m
      /\ \A i \in 1 .. k - 1 : i + 1 \in 1 .. k /\ l + 2 + i \in 1 .. m /\ l + 3 + i \in 1 .. m
  BY <1>5, <1>7
<1> DEFINE defaults == {i \in 2 .. k : KindOf(kids[i]) = "default"}
<1>9. PICK default : default = IF defaults = {} THEN l + 2 ELSE l + 1 + (CHOOSE i \in defaults : TRUE)
  OBVIOUS
<1>10. default \in 1 .. m
  <2>1. CASE defaults = {}
    BY <1>8, <1>9, <2>1
  <2>2. CASE defaults # {}
    <3>1. PICK d : d = CHOOSE i \in defaults : TRUE
      OBVIOUS
    <3>2. d \in defaults
      BY <2>2, <3>1
    <3>3. d \in 2 .. k
      BY <3>2
    <3>4. default = l + 1 + d
      BY <1>9, <2>2, <3>1
    <3> QED BY <1>5, <1>7, <3>3, <3>4
  <2> QED BY <2>1, <2>2
<1>11. PICK ends : ends = <<Through("open", 0, l + k + 1 + 2), Through("close", 0, Top.end)>>
  OBVIOUS
<1>12. PICK starts : starts = [i \in 1 .. k |-> IF i = k THEN Through("forward", 0, l + 2) ELSE Forward]
  OBVIOUS
<1>13. PICK tries : tries = [i \in 1 .. k |->
          IF i + 1 = k + 1 THEN Through("forward", 0, default)
          ELSE IF IsGroup(kids, i + 1)
          THEN Node("cond", kids[i + 1], l + 1 + (i + 1), l + k + 1 + (i + 1 + 1))
          ELSE Through("forward", 0, l + k + 1 + (i + 1 + 1))]
  OBVIOUS
<1>14. PICK inner : inner = [i \in 1 .. k - 1 |->
          Switched(kids[i + 1], l + 1 + (i + 1), l + 1 + (i + 2), l + 2)]
  OBVIOUS
<1>15. nodes' = Begun(Top.begin, l + 1, ends \o starts \o tries)
  BY <1>2, <1>3, <1>4, <1>9, <1>11, <1>12, <1>13 DEF VisitSwitch, Last
<1>16. Calls(inner)
  BY <1>2, <1>3, <1>4, <1>14 DEF VisitSwitch, Last, Switched
<1> HIDE DEF defaults
<1>17. \A i \in 1 .. k - 1 : inner[i] \in CallUpTo(m) /\ Knows(inner[i]) /\ inner[i].begin = l + 2 + i
  <2> TAKE i \in 1 .. k - 1
  <2>1. PICK b : b = l + 1 + (i + 1)
    OBVIOUS
  <2>2. PICK e : e = l + 1 + (i + 2)
    OBVIOUS
  <2>3. PICK out : out = l + 2
    OBVIOUS
  <2>4. PICK s : s = kids[i + 1]
    OBVIOUS
  <2>5. /\ b \in 1 .. m /\ e \in 1 .. m /\ out \in 1 .. m /\ m >= Len(nodes) /\ m \in Nat
        /\ b = l + 2 + i
    BY <1>4, <1>5, <1>7, <2>1, <2>2, <2>3
  <2>6. s \in {0} \cup Stms /\ May(s) \subseteq May(Top.stm) \cup {"break"}
    BY <1>6, <1>8, <2>4
  <2>7. Switched(s, b, e, out) \in CallUpTo(m) /\ Knows(Switched(s, b, e, out)) /\ Switched(s, b, e, out).begin = b
    BY <1>1, <2>5, <2>6, SwitchedOk, SMTT(30)
  <2>8. inner[i] = Switched(s, b, e, out)
    BY <1>14, <2>1, <2>2, <2>3, <2>4
  <2> QED BY <2>5, <2>7, <2>8
<1>18. /\ inner \in Seq(CallUpTo(m)) /\ Len(inner) = k - 1
       /\ \A e \in Items(inner) : \E i \in 1 .. k - 1 : e = inner[i]
  <2>1. inner = [i \in 1 .. k - 1 |-> inner[i]] /\ k - 1 \in Nat
    BY <1>8, <1>14
  <2>2. \A i \in 1 .. k - 1 : inner[i] \in CallUpTo(m)
    BY <1>17
  <2>3. PICK n : n = k - 1
    OBVIOUS
  <2> QED BY <2>1, <2>2, <2>3, SeqOf
<1>19. /\ \A e \in Items(inner) : Knows(e)
       /\ \A i \in 1 .. k - 1 : \E e \in Items(inner) : e.begin = l + 2 + i
  BY <1>17, <1>18 DEF Items
<1>20. /\ ends \in Seq(NodeUpTo(m)) /\ Len(ends) = 2
       /\ \A i \in 1 .. 2 : ends[i].t # 0 /\ ends[i].f # 0
  <2>1. PICK open : open = Through("open", 0, l + k + 1 + 2)
    OBVIOUS
  <2>2. PICK close : close = Through("close", 0, Top.end)
    OBVIOUS
  <2>3. open \in NodeUpTo(m) /\ open.t # 0 /\ open.f # 0
    <3>1. l + k + 1 + 2 \in 0 .. m /\ l + k + 1 + 2 # 0
      BY <1>8
    <3> QED BY <2>1, <3>1 DEF Through, Node, NodeUpTo, Stand
  <2>4. close \in NodeUpTo(m) /\ close.t # 0 /\ close.f # 0
    <3>1. Top.end \in 0 .. m /\ Top.end # 0
      BY <1>8
    <3> QED BY <2>2, <3>1 DEF Through, Node, NodeUpTo, Stand
  <2>5. ends = <<open, close>>
    BY <1>11, <2>1, <2>2
  <2> QED BY <2>3, <2>4, <2>5
<1>21. Forward \in NodeUpTo(m)
  BY <1>8, ForwardOk
<1>22. /\ starts \in Seq(NodeUpTo(m)) /\ Len(starts) = k
       /\ starts[k].t # 0 /\ starts[k].f # 0
  <2>1. PICK last : last = Through("forward", 0, l + 2)
    OBVIOUS
  <2>2. last \in NodeUpTo(m) /\ last.t # 0 /\ last.f # 0
    <3>1. l + 2 \in 0 .. m /\ l + 2 # 0
      BY <1>8
    <3> QED BY <2>1, <3>1 DEF Through, Node, NodeUpTo, Stand
  <2>3. \A i \in 1 .. k : starts[i] = IF i = k THEN last ELSE Forward
    BY <1>12, <2>1
  <2>4. starts = [i \in 1 .. k |-> starts[i]] /\ k \in Nat /\ k \in 1 .. k
    BY <1>5, <1>12
  <2>5. \A i \in 1 .. k : starts[i] \in NodeUpTo(m)
    BY <1>21, <2>2, <2>3
  <2>6. starts \in Seq(NodeUpTo(m)) /\ Len(starts) = k
    BY <2>4, <2>5, SeqOf
  <2> QED BY <2>2, <2>3, <2>4, <2>6
<1>23. \A i \in 1 .. k : tries[i] \in NodeUpTo(m) /\ tries[i].t # 0 /\ tries[i].f # 0
  <2> TAKE i \in 1 .. k
  <2>1. CASE i = k
    <3>1. tries[i] = Through("forward", 0, default)
      BY <1>13, <2>1
    <3>2. default \in 0 .. m /\ default # 0
      BY <1>10
    <3> QED BY <3>1, <3>2 DEF Through, Node, NodeUpTo, Stand
  <2>2. CASE i # k
    <3>1. PICK a : a = l + 1 + (i + 1)
      OBVIOUS
    <3>2. PICK n : n = l + k + 1 + (i + 1 + 1)
      OBVIOUS
    <3>3. a \in 0 .. m /\ a # 0 /\ n \in 0 .. m /\ n # 0 /\ i + 1 \in 1 .. k /\ i + 1 # k + 1
      BY <1>5, <1>7, <2>2, <3>1, <3>2
    <3>4. kids[i + 1] \in {0} \cup Stms
      BY <1>6, <3>3
    <3>5. tries[i] = Node("cond", kids[i + 1], a, n) \/ tries[i] = Through("forward", 0, n)
      BY <1>13, <3>1, <3>2, <3>3
    <3>6. CASE tries[i] = Node("cond", kids[i + 1], a, n)
      BY <3>3, <3>4, <3>6 DEF Node, NodeUpTo, Stand
    <3>7. CASE tries[i] = Through("forward", 0, n)
      BY <3>3, <3>7 DEF Through, Node, NodeUpTo, Stand
    <3> QED BY <3>5, <3>6, <3>7
  <2> QED BY <2>1, <2>2
<1>24. tries \in Seq(NodeUpTo(m)) /\ Len(tries) = k
  <2>1. tries = [i \in 1 .. k |-> tries[i]] /\ k \in Nat
    BY <1>5, <1>13
  <2>2. \A i \in 1 .. k : tries[i] \in NodeUpTo(m)
    BY <1>23
  <2> QED BY <2>1, <2>2, SeqOf
<1>25. PICK some : some = ends \o starts
  OBVIOUS
<1>26. /\ some \in Seq(NodeUpTo(m)) /\ Len(some) = 2 + k
       /\ \A i \in 1 .. 2 : some[i] = ends[i]
       /\ \A i \in 1 .. k : some[2 + i] = starts[i]
  <2>1. ends \in Seq(NodeUpTo(m)) /\ starts \in Seq(NodeUpTo(m))
    BY <1>20, <1>22
  <2>2. /\ some \in Seq(NodeUpTo(m)) /\ Len(some) = Len(ends) + Len(starts)
        /\ \A i \in 1 .. Len(ends) : some[i] = ends[i]
        /\ \A i \in 1 .. Len(starts) : some[Len(ends) + i] = starts[i]
    BY <1>25, <2>1, ConcatAt
  <2>3. Len(ends) = 2 /\ Len(starts) = k
    BY <1>20, <1>22
  <2> QED BY <2>2, <2>3
<1>27. PICK new : new = some \o tries
  OBVIOUS
<1>28. /\ new \in Seq(NodeUpTo(m)) /\ Len(new) = 2 + k + k
       /\ \A i \in 1 .. 2 + k : new[i] = some[i]
       /\ \A i \in 1 .. k : new[2 + k + i] = tries[i]
  <2>1. some \in Seq(NodeUpTo(m)) /\ tries \in Seq(NodeUpTo(m))
    BY <1>24, <1>26
  <2>2. /\ new \in Seq(NodeUpTo(m)) /\ Len(new) = Len(some) + Len(tries)
        /\ \A i \in 1 .. Len(some) : new[i] = some[i]
        /\ \A i \in 1 .. Len(tries) : new[Len(some) + i] = tries[i]
    BY <1>27, <2>1, ConcatAt
  <2>3. Len(some) = 2 + k /\ Len(tries) = k
    BY <1>24, <1>26
  <2> QED BY <2>2, <2>3
<1>29. \A j \in 1 .. Len(new) : \/ new[j].t # 0 /\ new[j].f # 0
                                \/ \E e \in Items(inner) : e.begin = Len(nodes) + j
  <2> TAKE j \in 1 .. Len(new)
  <2>1. CASE j \in 1 .. 2
    <3>1. new[j] = ends[j]
      BY <1>5, <1>26, <1>28, <2>1
    <3> QED BY <1>20, <2>1, <3>1
  <2>2. CASE j \in 3 .. 2 + k
    <3>1. PICK i \in 1 .. k : j = 2 + i
      <4>1. j - 2 \in 1 .. k /\ j = 2 + (j - 2)
        BY <1>5, <2>2
      <4> QED BY <4>1
    <3>2. CASE i = k
      <4>1. new[j] = starts[k]
        BY <1>26, <1>28, <2>2, <3>1, <3>2
      <4> QED BY <1>22, <4>1
    <3>3. CASE i # k
      <4>1. i \in 1 .. k - 1 /\ l + j = l + 2 + i
        BY <1>5, <3>1, <3>3
      <4> QED BY <1>4, <1>19, <4>1
    <3> QED BY <3>2, <3>3
  <2>3. CASE j > 2 + k
    <3>1. PICK i \in 1 .. k : j = 2 + k + i
      <4>1. j - 2 - k \in 1 .. k /\ j = 2 + k + (j - 2 - k)
        BY <1>5, <1>28, <2>3
      <4> QED BY <4>1
    <3>2. new[j] = tries[i]
      BY <1>28, <3>1
    <3> QED BY <1>23, <3>2
  <2>4. j \in 1 .. 2 \/ j \in 3 .. 2 + k \/ j > 2 + k
    BY <1>5
  <2> QED BY <2>1, <2>2, <2>3, <2>4
<1>30. m = Len(nodes) + Len(new)
  BY <1>4, <1>5, <1>7, <1>28
<1>31. /\ agenda # <<>> /\ m \in Nat /\ l + 1 \in 1 .. m /\ Calls(inner)
       /\ new \in Seq(NodeUpTo(m)) /\ inner \in Seq(CallUpTo(m))
  BY <1>1, <1>8, <1>16, <1>18, <1>28
<1>32. nodes' = Begun(Top.begin, l + 1, new) /\ fn' = fn /\ stmList' = stmList /\ labels' = labels
  BY <1>1, <1>15, <1>25, <1>27 DEF Unlabelled
<1>33. \A e \in Items(inner) : Knows(e)
  BY <1>19
<1>34. QED
  BY <1>29, <1>30, <1>31, <1>32, <1>33, VisitStep

(* A set of numbers that is not empty has a least one. *)
LEMMA LeastOk ==
  ASSUME NEW S \in SUBSET Nat, S # {}
  PROVE  (CHOOSE i \in S : \A j \in S : i <= j) \in S
<1>1. PICK n \in S : \A m \in S : ~ (<<m, n>> \in OpToRel(<, Nat))
  BY WFMin, NatLessThanWellFounded, Zenon
<1>2. \A m \in Nat : m < n => <<m, n>> \in OpToRel(<, Nat)
  BY DEF OpToRel
<1>3. \A m \in S : n <= m
  <2> TAKE m \in S
  <2>1. m \in Nat /\ n \in Nat /\ ~ (m < n)
    BY <1>1, <1>2
  <2> QED BY <2>1
<1>4. QED
  BY <1>3

(* So does visiting a try.                                                 *)
LEMMA TryOk ==
  ASSUME Shape, Visiting, VisitTry
  PROVE  Shape' /\ Visiting'
<1>1. /\ agenda # <<>> /\ KindOf(Top.stm) = "try" /\ Top.stm # 0 /\ Unlabelled
  BY DEF VisitTry, Visits, NextIs, KindOf
<1> DEFINE kids == fn.ast[Top.stm].kids
           l    == Len(nodes)
           all  == {i \in 2 .. Len(kids) : KindOf(kids[i]) = "catchall"}
           r    == IF all = {} THEN Len(kids) - 1
                   ELSE (CHOOSE i \in all : \A j \in all : i <= j) - 1
           entry(i) == l + 3 + 3 * i
           hand(j)  == (j + 2) \div 3
           mark(j)  == Node("mark", kids[hand(j) + 1], entry(hand(j) - 1) + 2,
                            IF KindOf(kids[hand(j) + 1]) = "catchall"
                            THEN entry(hand(j) - 1) + 2 ELSE entry(hand(j)))
           onward(j) == Through("forward", 0, IF hand(j) = r THEN Top.throw ELSE entry(hand(j)) + 1)
           three == <<Through("mark", Top.stm, 0), Through("mark", 0, Top.end),
                      Through("forward", 0, IF r = 0 THEN Top.throw ELSE entry(0) + 1)>>
           handlers == [j \in 1 .. 3 * r |-> CASE j % 3 = 1 -> mark(j)
                                               [] j % 3 = 2 -> Forward
                                               [] OTHER     -> onward(j)]
           tried  == Tried(kids[1], l + 1, entry(0), entry(0))
           bodies == [i \in 1 .. r |-> Visit(kids[i + 1], entry(i - 1) + 2, l + 2)]
<1>2. nodes' = Begun(Top.begin, l + 1, three \o handlers)
  BY Zenon DEF VisitTry, Last
<1>3. Calls(<<tried>> \o bodies)
  BY Zenon DEF VisitTry, Last, Tried
<1>4. /\ Len(kids) \in Nat \ {0} /\ l \in Nat /\ Top.end \in 1 .. l /\ Top.throw \in 1 .. l
      /\ Top.stm \in Stms
  <2>1. Len(fn.ast[Top.stm].kids) > 0 /\ Len(fn.ast[Top.stm].kids) \in Nat
    BY <1>1, KidsOk, LenProperties DEF HasParts
  <2> QED BY <1>1, <2>1, TopOk, KidsOk
<1>5. \A i \in 1 .. Len(kids) : kids[i] \in {0} \cup Stms /\ May(kids[i]) \subseteq May(Top.stm)
  <2>1. Binds(KindOf(Top.stm)) = {}
    BY <1>1 DEF Binds
  <2> QED BY <1>1, <2>1, KidsOk
<1>6. all \in SUBSET Nat /\ \A i \in all : i \in 2 .. Len(kids)
  OBVIOUS
<1> HIDE DEF kids, all
<1>7. r \in Nat /\ r <= Len(kids) - 1
  <2>1. CASE all = {}
    BY <1>4, <2>1
  <2>2. CASE all # {}
    <3>1. PICK d : d = CHOOSE i \in all : \A j \in all : i <= j
      OBVIOUS
    <3>2. d \in all
      BY <1>6, <2>2, <3>1, LeastOk
    <3>3. r = d - 1
      BY <2>2, <3>1
    <3> QED BY <1>4, <1>6, <3>2, <3>3
  <2> QED BY <2>1, <2>2
<1> HIDE DEF r, l
<1>8. PICK m : m = l + 3 + 3 * r
  OBVIOUS
<1>9. /\ m \in Nat /\ m >= Len(nodes) /\ l + 1 \in 1 .. m /\ l + 2 \in 1 .. m /\ entry(0) \in 1 .. m
      /\ Top.end \in 1 .. m /\ Top.throw \in 1 .. m /\ l = Len(nodes)
  BY <1>4, <1>7, <1>8 DEF l
<1>10. \A i \in 1 .. r : /\ i + 1 \in 1 .. Len(kids)
                         /\ entry(i - 1) + 2 \in 1 .. m /\ entry(i) \in 1 .. m
                         /\ i # r => entry(i) + 1 \in 1 .. m
  BY <1>4, <1>7, <1>8
<1>11. \A j \in 1 .. 3 * r : /\ hand(j) \in 1 .. r
                             /\ j % 3 = 1 => j = 3 * hand(j) - 2
                             /\ j % 3 = 2 => j = 3 * hand(j) - 1
                             /\ j % 3 = 0 => j = 3 * hand(j)
                             /\ j % 3 \in {0, 1, 2}
  BY <1>7
(* The calls: the block that is tried, and the handlers *)
<1>12. tried \in CallUpTo(m) /\ Knows(tried) /\ tried.begin = l + 1
  <2>1. PICK s : s = kids[1]
    OBVIOUS
  <2>2. PICK e : e = entry(0)
    OBVIOUS
  <2>3. PICK b : b = l + 1
    OBVIOUS
  <2>4. /\ s \in {0} \cup Stms /\ May(s) \subseteq May(Top.stm)
        /\ b \in 1 .. m /\ e \in 1 .. m /\ m \in Nat /\ m >= Len(nodes)
    BY <1>4, <1>5, <1>9, <2>1, <2>2, <2>3
  <2>5. /\ Tried(s, b, e, e) \in CallUpTo(m) /\ Knows(Tried(s, b, e, e))
        /\ Tried(s, b, e, e).begin = b
    BY <1>1, <2>4, TriedOk
  <2> QED BY <2>1, <2>2, <2>3, <2>5
<1>13. \A i \in 1 .. r : bodies[i] \in CallUpTo(m) /\ Knows(bodies[i]) /\ bodies[i].begin = entry(i - 1) + 2
  <2> TAKE i \in 1 .. r
  <2>1. PICK s : s = kids[i + 1]
    OBVIOUS
  <2>2. PICK b : b = entry(i - 1) + 2
    OBVIOUS
  <2>3. PICK e : e = l + 2
    OBVIOUS
  <2>4. /\ s \in {0} \cup Stms /\ May(s) \subseteq May(Top.stm)
        /\ b \in 1 .. m /\ e \in 1 .. m /\ m \in Nat /\ m >= Len(nodes)
    BY <1>5, <1>9, <1>10, <2>1, <2>2, <2>3
  <2>5. Visit(s, b, e) \in CallUpTo(m) /\ Knows(Visit(s, b, e)) /\ Visit(s, b, e).begin = b
    BY <1>1, <2>4, VisitOk
  <2>6. bodies[i] = Visit(s, b, e)
    BY <2>1, <2>2, <2>3
  <2> QED BY <2>2, <2>5, <2>6
<1>14. /\ bodies \in Seq(CallUpTo(m)) /\ Len(bodies) = r
       /\ \A e \in Items(bodies) : \E i \in 1 .. r : e = bodies[i]
  <2>1. bodies = [i \in 1 .. r |-> bodies[i]]
    OBVIOUS
  <2> HIDE DEF bodies
  <2>2. \A i \in 1 .. r : bodies[i] \in CallUpTo(m)
    BY <1>13
  <2> QED BY <1>7, <2>1, <2>2, SeqOf
<1> HIDE DEF tried, bodies
<1>15. PICK one : one = <<tried>>
  OBVIOUS
<1>16. PICK inner : inner = one \o bodies
  OBVIOUS
<1>17. inner \in Seq(CallUpTo(m)) /\ Items(inner) = {tried} \cup Items(bodies)
  <2>1. one \in Seq(CallUpTo(m)) /\ Items(one) = {tried}
    BY <1>12, <1>15 DEF Items
  <2>2. bodies \in Seq(CallUpTo(m))
    BY <1>14
  <2>3. inner \in Seq(CallUpTo(m)) /\ Items(inner) = Items(one) \cup Items(bodies)
    BY <1>16, <2>1, <2>2, ItemsConcat
  <2> QED BY <2>1, <2>3
<1>18. /\ \A e \in Items(inner) : Knows(e)
       /\ \E e \in Items(inner) : e.begin = l + 1
       /\ \A i \in 1 .. r : \E e \in Items(inner) : e.begin = entry(i - 1) + 2
  <2>1. \A i \in 1 .. r : bodies[i] \in Items(bodies)
    BY <1>14 DEF Items
  <2> QED BY <1>12, <1>13, <1>14, <1>17, <2>1
(* The nodes *)
<1>19. /\ three \in Seq(NodeUpTo(m)) /\ Len(three) = 3
       /\ three[2].t # 0 /\ three[2].f # 0 /\ three[3].t # 0 /\ three[3].f # 0
  <2>1. PICK start : start = Through("mark", Top.stm, 0)
    OBVIOUS
  <2>2. PICK done : done = Through("mark", 0, Top.end)
    OBVIOUS
  <2>3. PICK n : n = IF r = 0 THEN Top.throw ELSE entry(0) + 1
    OBVIOUS
  <2>4. PICK first : first = Through("forward", 0, n)
    OBVIOUS
  <2>5. n \in 0 .. m /\ n # 0
    BY <1>4, <1>7, <1>8, <1>9, <2>3
  <2>6. Top.end \in 0 .. m /\ Top.end # 0
    BY <1>9
  <2>7. start \in NodeUpTo(m)
    BY <1>4, <1>9, <2>1 DEF Through, Node, NodeUpTo, Stand
  <2>8. done \in NodeUpTo(m) /\ done.t # 0 /\ done.f # 0
    BY <2>2, <2>6 DEF Through, Node, NodeUpTo, Stand
  <2>9. first \in NodeUpTo(m) /\ first.t # 0 /\ first.f # 0
    BY <2>4, <2>5 DEF Through, Node, NodeUpTo, Stand
  <2>10. three = <<start, done, first>>
    BY <2>1, <2>2, <2>3, <2>4
  <2> HIDE DEF three
  <2> QED BY <2>7, <2>8, <2>9, <2>10
<1>20. Forward \in NodeUpTo(m)
  BY <1>9, ForwardOk
<1>21. \A j \in 1 .. 3 * r : /\ handlers[j] \in NodeUpTo(m)
                             /\ j % 3 # 2 => handlers[j].t # 0 /\ handlers[j].f # 0
  <2> TAKE j \in 1 .. 3 * r
  <2>1. PICK i : i = hand(j)
    OBVIOUS
  <2>2. i \in 1 .. r /\ j % 3 \in {0, 1, 2}
    BY <1>11, <2>1
  <2>3. CASE j % 3 = 1
    <3>1. PICK s : s = kids[i + 1]
      OBVIOUS
    <3>2. PICK t : t = entry(i - 1) + 2
      OBVIOUS
    <3>3. PICK f : f = IF KindOf(s) = "catchall" THEN t ELSE entry(i)
      OBVIOUS
    <3>4. /\ s \in {0} \cup Stms /\ t \in 0 .. m /\ t # 0 /\ f \in 0 .. m /\ f # 0
      BY <1>5, <1>10, <2>2, <3>1, <3>2, <3>3
    <3>5. handlers[j] = Node("mark", s, t, f)
      BY <2>1, <2>3, <3>1, <3>2, <3>3
    <3> HIDE DEF handlers
    <3> QED BY <3>4, <3>5 DEF Node, NodeUpTo, Stand
  <2>4. CASE j % 3 = 2
    BY <1>20, <2>4
  <2>5. CASE j % 3 = 0
    <3>1. PICK n : n = IF i = r THEN Top.throw ELSE entry(i) + 1
      OBVIOUS
    <3>2. n \in 0 .. m /\ n # 0
      BY <1>9, <1>10, <2>2, <3>1, SMTT(30)
    <3>3. handlers[j] = Through("forward", 0, n)
      BY <2>1, <2>5, <3>1
    <3> HIDE DEF handlers
    <3> QED BY <2>5, <3>2, <3>3 DEF Through, Node, NodeUpTo, Stand
  <2> QED BY <2>2, <2>3, <2>4, <2>5
<1>22. handlers \in Seq(NodeUpTo(m)) /\ Len(handlers) = 3 * r
  <2>1. handlers = [j \in 1 .. 3 * r |-> handlers[j]] /\ 3 * r \in Nat
    BY <1>7
  <2> HIDE DEF handlers
  <2>2. PICK n : n = 3 * r
    OBVIOUS
  <2>3. \A j \in 1 .. n : handlers[j] \in NodeUpTo(m)
    BY <1>21, <2>2
  <2> QED BY <2>1, <2>2, <2>3, SeqOf
<1> HIDE DEF three, handlers
<1>23. PICK new : new = three \o handlers
  OBVIOUS
<1>24. /\ new \in Seq(NodeUpTo(m)) /\ Len(new) = 3 + 3 * r
       /\ \A i \in 1 .. 3 : new[i] = three[i]
       /\ \A i \in 1 .. 3 * r : new[3 + i] = handlers[i]
  <2>1. three \in Seq(NodeUpTo(m)) /\ handlers \in Seq(NodeUpTo(m))
    BY <1>19, <1>22
  <2>2. /\ new \in Seq(NodeUpTo(m)) /\ Len(new) = Len(three) + Len(handlers)
        /\ \A i \in 1 .. Len(three) : new[i] = three[i]
        /\ \A i \in 1 .. Len(handlers) : new[Len(three) + i] = handlers[i]
    BY <1>23, <2>1, ConcatAt
  <2>3. Len(three) = 3 /\ Len(handlers) = 3 * r
    BY <1>19, <1>22
  <2> QED BY <2>2, <2>3
<1>25. \A j \in 1 .. Len(new) : \/ new[j].t # 0 /\ new[j].f # 0
                                \/ \E e \in Items(inner) : e.begin = Len(nodes) + j
  <2> TAKE j \in 1 .. Len(new)
  <2>1. CASE j = 1
    BY <1>9, <1>18, <2>1
  <2>2. CASE j \in {2, 3}
    BY <1>19, <1>24, <2>2
  <2>3. CASE j > 3
    <3>1. PICK i \in 1 .. 3 * r : j = 3 + i
      <4>1. j - 3 \in 1 .. 3 * r /\ j = 3 + (j - 3)
        BY <1>7, <1>24, <2>3
      <4> QED BY <4>1
    <3>2. CASE i % 3 = 2
      <4>1. hand(i) \in 1 .. r /\ i = 3 * hand(i) - 1
        BY <1>11, <3>2
      <4>2. PICK h \in 1 .. r : i = 3 * h - 1
        BY <4>1
      <4>3. entry(h - 1) + 2 = l + j
        BY <1>4, <1>7, <3>1, <4>2
      <4>4. \E e \in Items(inner) : e.begin = entry(h - 1) + 2
        BY <1>18, <4>2
      <4> QED BY <1>9, <4>3, <4>4
    <3>3. CASE i % 3 # 2
      BY <1>21, <1>24, <3>1, <3>3
    <3> QED BY <3>2, <3>3
  <2>4. j = 1 \/ j \in {2, 3} \/ j > 3
    BY <1>7, <1>24
  <2> QED BY <2>1, <2>2, <2>3, <2>4
<1>26. m = Len(nodes) + Len(new)
  BY <1>4, <1>7, <1>8, <1>9, <1>24
<1>27. /\ agenda # <<>> /\ m \in Nat /\ l + 1 \in 1 .. m /\ Calls(inner)
       /\ new \in Seq(NodeUpTo(m)) /\ inner \in Seq(CallUpTo(m))
  BY <1>1, <1>3, <1>9, <1>15, <1>16, <1>17, <1>24
<1>28. nodes' = Begun(Top.begin, l + 1, new) /\ fn' = fn /\ stmList' = stmList /\ labels' = labels
  BY <1>1, <1>2, <1>23 DEF Unlabelled
<1>29. \A e \in Items(inner) : Knows(e)
  BY <1>18
<1>30. QED
  BY <1>25, <1>26, <1>27, <1>28, <1>29, VisitStep

-----------------------------------------------------------------------------
(* linkStatement.  Its calls lead to nodes that do not only forward; a     *)
(* node that has been reached has its successors reached, or a call to     *)
(* come will reach them.                                                   *)
Concrete(x) == x # 0 => nodes[x].kind # "forward"
ToReach(x)  == x \in stmList \/ \E e \in Items(agenda) : e.do = "link" /\ e.begin = x
Reached(x)  == Concrete(x) /\ (x # 0 => ToReach(x))
Waits(n)    == \E e \in Items(agenda) : e.do = "next" /\ e.begin = n

LinkCall(e) ==
  /\ e.do \in {"link", "next"}
  /\ e.do = "link" => Concrete(e.begin)
  /\ e.do = "next" => /\ e.begin \in stmList
                      /\ e.begin = END \/ Labelled(e.begin) \/ (e.break # 0 /\ e.continue # 0)

Linked ==
  /\ \A e \in Items(agenda) : LinkCall(e)
  /\ \A n \in 1 .. Len(nodes) : n = END \/ Tied(n) \/ Labelled(n)
  /\ \A n \in stmList : /\ Concrete(n)
                        /\ Waits(n) \/ (Reached(nodes[n].t) /\ Reached(nodes[n].f))

(* The call under way is replaced by others. *)
LEMMA CallsOk ==
  ASSUME NEW S, agenda \in Seq(S), agenda # <<>>, NEW inner \in Seq(S), Calls(inner)
  PROVE  /\ agenda' \in Seq(S) /\ Items(agenda') = Items(inner) \cup Items(Tail(agenda))
         /\ Items(agenda) = {Top} \cup Items(Tail(agenda)) /\ Top \in S
<1>1. Tail(agenda) \in Seq(S) /\ Items(agenda) = {Top} \cup Items(Tail(agenda)) /\ Top \in S
  BY ItemsHead, Zenon DEF Top
<1>2. /\ inner \o Tail(agenda) \in Seq(S)
      /\ Items(inner \o Tail(agenda)) = Items(inner) \cup Items(Tail(agenda))
  <2>1. inner \in Seq(S) /\ Tail(agenda) \in Seq(S)
    BY <1>1
  <2> QED BY <2>1, ItemsConcat, ZenonT(40)
<1>3. agenda' = inner \o Tail(agenda)
  BY DEF Calls
<1>4. QED
  BY <1>1, <1>2, <1>3

(* The start of the linking finds every node with its successors.          *)
LEMMA StartLinkOk ==
  ASSUME Shape, Visiting, StartLink
  PROVE  Shape' /\ Linked'
<1>1. /\ agenda = <<>> /\ stmList = {}
      /\ fn' = fn /\ nodes' = nodes /\ labels' = labels /\ stmList' = stmList
  BY DEF StartLink, Visiting
<1>2. PICK e : e = [do |-> "link", stm |-> 0, begin |-> BEGIN, end |-> 0,
                    break |-> 0, continue |-> 0, throw |-> 0]
  OBVIOUS
<1>3. agenda' = <<e>>
  BY <1>2 DEF StartLink
<1>4. /\ e \in CallUpTo(Len(nodes)) /\ e.do = "link" /\ e.begin = BEGIN
  <2>1. Len(nodes) \in Nat /\ BEGIN \in 0 .. Len(nodes)
    BY LenProperties DEF Shape, BEGIN
  <2> QED BY <1>2, <2>1 DEF CallUpTo
<1>5. Items(agenda) = {} /\ Items(agenda') = {e} /\ agenda' \in Seq(CallUpTo(Len(nodes)))
  BY <1>1, <1>3, <1>4 DEF Items
<1>6. Shape'
  BY <1>1, <1>5 DEF Shape, NodeUpTo, CallUpTo, Stms
<1>7. LinkCall(e)'
  BY <1>1, <1>4 DEF LinkCall, Concrete, Shape
<1>8. \A n \in 1 .. Len(nodes) : n = END \/ Tied(n)' \/ Labelled(n)'
  <2>1. \A n \in 1 .. Len(nodes) : n = END \/ Tied(n) \/ Labelled(n)
    BY <1>5 DEF Visiting, Pending
  <2> QED BY <1>1, <2>1 DEF Tied, Labelled, Stms
<1>9. QED
  BY <1>1, <1>5, <1>6, <1>7, <1>8 DEF Linked

(* Linking from a node preserves what is known of the linking.             *)
LEMMA LinkRootOk ==
  ASSUME Shape, Linked, LinkRoot
  PROVE  Shape' /\ Linked'
<1>0. PICK root : root = Top.begin
  OBVIOUS
<1>1. /\ agenda # <<>> /\ Top.do = "link"
      /\ fn' = fn /\ nodes' = nodes /\ labels' = labels
  BY DEF LinkRoot, NextIs
<1>2. /\ Top \in CallUpTo(Len(nodes)) /\ Top \in Items(agenda)
      /\ Tail(agenda) \in Seq(CallUpTo(Len(nodes)))
      /\ Items(agenda) = {Top} \cup Items(Tail(agenda))
  BY <1>1, TopOk
<1>3. Concrete(root)
  BY <1>0, <1>1, <1>2 DEF Linked, LinkCall
<1>4. Stms' = Stms /\ \A n : (Tied(n)' <=> Tied(n)) /\ (Labelled(n)' <=> Labelled(n)) /\ (Concrete(n)' <=> Concrete(n))
  BY <1>1 DEF Stms, Tied, Labelled, Concrete
<1>5. CASE root = 0 \/ root \in stmList
  <2>1. agenda' = Tail(agenda) /\ stmList' = stmList
    BY <1>0, <1>5 DEF LinkRoot
  <2>2. Shape'
    BY <1>1, <1>2, <1>4, <2>1 DEF Shape, NodeUpTo, CallUpTo
  <2>3. \A e \in Items(agenda') : LinkCall(e)'
    BY <1>2, <1>4, <2>1 DEF Linked, LinkCall
  <2>4. \A n : Waits(n) => Waits(n)'
    BY <1>1, <1>2, <2>1 DEF Waits
  <2>5. \A x : Reached(x) => Reached(x)'
    BY <1>0, <1>1, <1>2, <1>4, <1>5, <2>1 DEF Reached, ToReach
  <2> QED BY <1>1, <1>4, <2>1, <2>2, <2>3, <2>4, <2>5 DEF Linked
<1>6. CASE root # 0 /\ root \notin stmList
  <2>1. PICK e : e = [Top EXCEPT !.do = "next", !.break = nodes[root].t, !.continue = nodes[root].f]
    OBVIOUS
  <2>2. PICK inner : inner = <<e>>
    OBVIOUS
  <2>3. Calls(inner) /\ stmList' = stmList \cup {root}
    BY <1>0, <1>6, <2>1, <2>2 DEF LinkRoot, Calls
  <2>4. root \in 1 .. Len(nodes) /\ nodes[root] \in NodeUpTo(Len(nodes))
    <3>1. root \in 1 .. Len(nodes)
      BY <1>0, <1>2, <1>6 DEF CallUpTo
    <3> QED BY <3>1, ElementOfSeq DEF Shape
  <2>5. /\ e \in CallUpTo(Len(nodes)) /\ e.do = "next" /\ e.begin = root
        /\ e.break = nodes[root].t /\ e.continue = nodes[root].f
    BY <1>0, <1>2, <2>1, <2>4 DEF CallUpTo, NodeUpTo
  <2>6. agenda' \in Seq(CallUpTo(Len(nodes))) /\ Items(agenda') = {e} \cup Items(Tail(agenda))
    <3>1. inner \in Seq(CallUpTo(Len(nodes))) /\ Items(inner) = {e}
      BY <2>2, <2>5 DEF Items
    <3>2. agenda \in Seq(CallUpTo(Len(nodes)))
      BY DEF Shape
    <3>3. /\ agenda' \in Seq(CallUpTo(Len(nodes)))
          /\ Items(agenda') = Items(inner) \cup Items(Tail(agenda))
      BY <1>1, <2>3, <3>1, <3>2, CallsOk
    <3> QED BY <3>1, <3>3
  <2>7. Shape'
    BY <1>1, <1>4, <2>3, <2>4, <2>6 DEF Shape, NodeUpTo, CallUpTo
  <2>8. LinkCall(e)'
    <3>1. root = END \/ Tied(root) \/ Labelled(root)
      BY <2>4 DEF Linked
    <3> QED BY <1>4, <2>3, <2>5, <3>1 DEF LinkCall, Tied
  <2>9. \A x \in Items(agenda') : LinkCall(x)'
    <3>1. \A x \in Items(Tail(agenda)) : LinkCall(x)
      BY <1>2 DEF Linked
    <3>2. \A x \in Items(Tail(agenda)) : LinkCall(x)'
      BY <1>4, <2>3, <3>1 DEF LinkCall
    <3> QED BY <2>6, <2>8, <3>2
  <2>10. \A n : Waits(n) => Waits(n)'
    BY <1>1, <1>2, <2>6 DEF Waits
  <2>11. Waits(root)'
    BY <2>5, <2>6 DEF Waits
  <2>12. \A x : Reached(x) => Reached(x)'
    BY <1>0, <1>1, <1>2, <1>4, <2>3, <2>6 DEF Reached, ToReach
  <2> QED BY <1>1, <1>3, <1>4, <2>3, <2>7, <2>9, <2>10, <2>11, <2>12 DEF Linked
<1>7. QED
  BY <1>5, <1>6

(* A node that only forwards has a successor. *)
LEMMA ForwardTied ==
  ASSUME Shape, Linked, NEW x \in 0 .. Len(nodes), IsForward(x)
  PROVE  /\ x \in 1 .. Len(nodes)
         /\ nodes[x].t \in 1 .. Len(nodes) /\ nodes[x].f \in 1 .. Len(nodes)
<1>1. x \in 1 .. Len(nodes) /\ nodes[x].kind = "forward"
  BY DEF IsForward
<1>2. x # END /\ ~ Labelled(x)
  BY <1>1 DEF Shape, Labelled
<1>3. Tied(x)
  BY <1>1, <1>2 DEF Linked
<1>4. nodes[x] \in NodeUpTo(Len(nodes))
  BY <1>1, ElementOfSeq DEF Shape
<1>5. QED
  BY <1>1, <1>3, <1>4 DEF Tied, NodeUpTo

(* A successor is skipped. *)
LEMMA SkipOk ==
  ASSUME Shape, Linked, agenda # <<>>, Top.do = "next",
         NEW e \in CallUpTo(Len(nodes)), e.do = "next", e.begin = Top.begin,
         Top.break # 0 /\ Top.continue # 0 => e.break # 0 /\ e.continue # 0,
         agenda' = <<e>> \o Tail(agenda), UNCHANGED <<fn, nodes, labels, stmList>>
  PROVE  Shape' /\ Linked'
<1>1. /\ Top \in Items(agenda) /\ Items(agenda) = {Top} \cup Items(Tail(agenda))
  BY TopOk
<1>2. PICK inner : inner = <<e>>
  OBVIOUS
<1>3. agenda' \in Seq(CallUpTo(Len(nodes))) /\ Items(agenda') = {e} \cup Items(Tail(agenda))
  <2>1. inner \in Seq(CallUpTo(Len(nodes))) /\ Items(inner) = {e}
    BY <1>2 DEF Items
  <2>2. agenda \in Seq(CallUpTo(Len(nodes))) /\ Calls(inner)
    BY <1>2 DEF Shape, Calls
  <2>3. /\ agenda' \in Seq(CallUpTo(Len(nodes)))
        /\ Items(agenda') = Items(inner) \cup Items(Tail(agenda))
    BY <2>1, <2>2, CallsOk
  <2> QED BY <2>1, <2>3
<1>4. Stms' = Stms /\ \A n : (Tied(n)' <=> Tied(n)) /\ (Labelled(n)' <=> Labelled(n)) /\ (Concrete(n)' <=> Concrete(n))
  BY DEF Stms, Tied, Labelled, Concrete
<1>5. Shape'
  BY <1>3, <1>4 DEF Shape, NodeUpTo, CallUpTo
<1>6. \A x \in Items(agenda') : LinkCall(x)'
  <2>1. \A x \in Items(agenda) : LinkCall(x)
    BY DEF Linked
  <2>2. \A x : LinkCall(x)' <=> LinkCall(x)
    BY <1>4 DEF LinkCall
  <2>3. LinkCall(Top) => LinkCall(e)
    BY DEF LinkCall
  <2> QED BY <1>1, <1>3, <2>1, <2>2, <2>3
<1>7. \A n : Waits(n) => Waits(n)'
  BY <1>1, <1>3 DEF Waits
<1>8. \A x : Reached(x) => Reached(x)'
  BY <1>1, <1>3, <1>4 DEF Reached, ToReach
<1>9. QED
  BY <1>4, <1>5, <1>6, <1>7, <1>8 DEF Linked

(* So does the step that redirects the edges of a node past forwarding     *)
(* nodes.                                                                  *)
LEMMA NextConcreteOk ==
  ASSUME Shape, Linked, NextConcrete
  PROVE  Shape' /\ Linked'
<1>1. PICK t : t = Top.break
  OBVIOUS
<1>2. PICK f : f = Top.continue
  OBVIOUS
<1>3. PICK b : b = Top.begin
  OBVIOUS
<1>4. /\ agenda # <<>> /\ Top.do = "next"
      /\ fn' = fn /\ labels' = labels /\ stmList' = stmList
  BY DEF NextConcrete, NextIs
<1>5. /\ Top \in CallUpTo(Len(nodes)) /\ Top \in Items(agenda)
      /\ Items(agenda) = {Top} \cup Items(Tail(agenda)) /\ Len(nodes) \in Nat
  BY <1>4, TopOk
<1>6. t \in 0 .. Len(nodes) /\ f \in 0 .. Len(nodes)
  BY <1>1, <1>2, <1>5 DEF CallUpTo
<1>7. b \in stmList /\ b \in 1 .. Len(nodes)
  <2>1. LinkCall(Top)
    BY <1>5 DEF Linked
  <2> QED BY <1>3, <1>4, <2>1 DEF LinkCall, Shape
<1>8. CASE IsForward(t)
  <2>1. PICK n : n = nodes[t].t
    OBVIOUS
  <2>2. n \in 1 .. Len(nodes)
    BY <1>6, <1>8, <2>1, ForwardTied
  <2>3. PICK e : e = [Top EXCEPT !.break = n]
    OBVIOUS
  <2>4. /\ e \in CallUpTo(Len(nodes)) /\ e.do = "next" /\ e.begin = Top.begin
        /\ e.break # 0 /\ e.continue = Top.continue
    BY <1>4, <1>5, <2>2, <2>3 DEF CallUpTo
  <2>5. agenda' = <<e>> \o Tail(agenda) /\ nodes' = nodes
    BY <1>1, <1>8, <2>1, <2>3 DEF NextConcrete
  <2> QED BY <1>4, <2>4, <2>5, SkipOk
<1>9. CASE ~ IsForward(t) /\ IsForward(f)
  <2>1. PICK n : n = nodes[f].t
    OBVIOUS
  <2>2. n \in 1 .. Len(nodes)
    BY <1>6, <1>9, <2>1, ForwardTied
  <2>3. PICK e : e = [Top EXCEPT !.continue = n]
    OBVIOUS
  <2>4. /\ e \in CallUpTo(Len(nodes)) /\ e.do = "next" /\ e.begin = Top.begin
        /\ e.continue # 0 /\ e.break = Top.break
    BY <1>4, <1>5, <2>2, <2>3 DEF CallUpTo
  <2>5. agenda' = <<e>> \o Tail(agenda) /\ nodes' = nodes
    BY <1>1, <1>2, <1>9, <2>1, <2>3 DEF NextConcrete
  <2> QED BY <1>4, <2>4, <2>5, SkipOk
<1>10. CASE ~ IsForward(t) /\ ~ IsForward(f)
  <2>1. nodes' = [nodes EXCEPT ![b].t = t, ![b].f = f] /\ Calls(<<Linking(t), Linking(f)>>)
    BY <1>1, <1>2, <1>3, <1>10 DEF NextConcrete
  <2>2. Concrete(t) /\ Concrete(f)
    BY <1>10 DEF IsForward, Concrete
  <2>3. \A n \in 1 .. Len(nodes) : nodes[n] \in NodeUpTo(Len(nodes))
    BY ElementOfSeq DEF Shape
  <2>4. /\ Len(nodes') = Len(nodes) /\ nodes' \in Seq(NodeUpTo(Len(nodes)))
        /\ \A n \in 1 .. Len(nodes) : n # b => nodes'[n] = nodes[n]
        /\ nodes'[b].kind = nodes[b].kind /\ nodes'[b].t = t /\ nodes'[b].f = f
    <3>1. PICK node : node = [nodes[b] EXCEPT !.t = t, !.f = f]
      OBVIOUS
    <3>2. /\ node \in NodeUpTo(Len(nodes)) /\ node.kind = nodes[b].kind
          /\ node.t = t /\ node.f = f
      BY <1>6, <1>7, <2>3, <3>1 DEF NodeUpTo
    <3>3. nodes' = [nodes EXCEPT ![b] = node]
      BY <1>7, <2>1, <3>1 DEF Shape
    <3>4. nodes \in Seq(NodeUpTo(Len(nodes)))
      BY DEF Shape
    <3>5. /\ nodes' \in Seq(NodeUpTo(Len(nodes))) /\ Len(nodes') = Len(nodes)
          /\ \A n \in 1 .. Len(nodes) : nodes'[n] = IF n = b THEN node ELSE nodes[n]
      BY <1>7, <3>2, <3>3, <3>4, ExceptSeq
    <3> QED BY <1>7, <3>2, <3>5
  <2>5. PICK yes : yes = Linking(t)
    OBVIOUS
  <2>6. PICK no : no = Linking(f)
    OBVIOUS
  <2>7. /\ yes \in CallUpTo(Len(nodes)) /\ yes.do = "link" /\ yes.begin = t
        /\ no \in CallUpTo(Len(nodes)) /\ no.do = "link" /\ no.begin = f
    BY <1>5, <1>6, <2>5, <2>6 DEF Linking, CallUpTo
  <2>8. agenda' \in Seq(CallUpTo(Len(nodes))) /\ Items(agenda') = {yes, no} \cup Items(Tail(agenda))
    <3>1. PICK inner : inner = <<yes, no>>
      OBVIOUS
    <3>2. inner \in Seq(CallUpTo(Len(nodes))) /\ Items(inner) = {yes, no}
      BY <2>7, <3>1 DEF Items
    <3>3. agenda \in Seq(CallUpTo(Len(nodes))) /\ Calls(inner)
      BY <2>1, <2>5, <2>6, <3>1 DEF Shape
    <3>4. /\ agenda' \in Seq(CallUpTo(Len(nodes)))
          /\ Items(agenda') = Items(inner) \cup Items(Tail(agenda))
      BY <1>4, <3>2, <3>3, CallsOk
    <3> QED BY <3>2, <3>4
  <2>9. /\ Stms' = Stms
        /\ \A n \in 1 .. Len(nodes) : nodes'[n].kind = nodes[n].kind
        /\ \A n : Labelled(n)' <=> Labelled(n)
    BY <1>4, <2>4 DEF Stms, Labelled
  <2>10. Shape'
    <3>1. NodeUpTo(Len(nodes))' = NodeUpTo(Len(nodes)) /\ CallUpTo(Len(nodes))' = CallUpTo(Len(nodes))
      BY <2>4, <2>9 DEF NodeUpTo, CallUpTo
    <3>2. \A l \in Stms : labels[l] # 0 => nodes'[labels[l]].kind = "mark"
      BY <2>9 DEF Shape
    <3>3. BEGIN \in 1 .. Len(nodes) /\ END \in 1 .. Len(nodes)
      BY <1>5 DEF Shape, BEGIN, END
    <3>4. nodes'[BEGIN].kind = "begin" /\ nodes'[END].kind = "end"
      BY <2>9, <3>3 DEF Shape
    <3> QED BY <1>4, <2>4, <2>8, <2>9, <3>1, <3>2, <3>4 DEF Shape
  <2>11. \A x \in 0 .. Len(nodes) : Concrete(x) => Concrete(x)'
    BY <2>9 DEF Concrete
  <2>12. \A x \in Items(agenda') : LinkCall(x)'
    <3>1. \A x \in Items(Tail(agenda)) : LinkCall(x) /\ x.begin \in 0 .. Len(nodes)
      <4>1. \A x \in Items(agenda) : x \in CallUpTo(Len(nodes))
        BY ElementOfSeq DEF Shape, Items
      <4> QED BY <1>5, <4>1 DEF Linked, CallUpTo
    <3>2. \A x \in Items(Tail(agenda)) : LinkCall(x)'
      BY <1>4, <2>9, <2>11, <3>1 DEF LinkCall
    <3>3. LinkCall(yes)' /\ LinkCall(no)'
      BY <1>6, <2>2, <2>7, <2>11 DEF LinkCall
    <3> QED BY <2>8, <3>2, <3>3
  <2>13. \A n \in 1 .. Len(nodes) : n = END \/ Tied(n)' \/ Labelled(n)'
    <3> TAKE n \in 1 .. Len(nodes)
    <3>1. CASE n = b
      <4>1. b = END \/ Labelled(b) \/ (t # 0 /\ f # 0)
        BY <1>1, <1>2, <1>3, <1>4, <1>5 DEF Linked, LinkCall
      <4> QED BY <2>4, <2>9, <3>1, <4>1 DEF Tied
    <3>2. CASE n # b
      BY <2>4, <2>9, <3>2 DEF Linked, Tied
    <3> QED BY <3>1, <3>2
  <2>14. \A x \in 0 .. Len(nodes) : Reached(x) => Reached(x)'
    BY <1>4, <1>5, <2>8, <2>11 DEF Reached, ToReach
  <2>15. Reached(t)' /\ Reached(f)'
    BY <1>6, <2>2, <2>7, <2>8, <2>11 DEF Reached, ToReach
  <2>16. \A n \in stmList : /\ Concrete(n)'
                            /\ Waits(n)' \/ (Reached(nodes[n].t)' /\ Reached(nodes[n].f)')
    <3> TAKE n \in stmList
    <3>1. n \in 1 .. Len(nodes) /\ n \in 0 .. Len(nodes)
      BY DEF Shape
    <3>2. Concrete(n)'
      BY <2>11, <3>1 DEF Linked
    <3>3. CASE n = b
      <4>1. nodes'[n].t = t /\ nodes'[n].f = f
        BY <2>4, <3>3
      <4> QED BY <2>15, <3>2, <4>1
    <3>4. CASE n # b
      <4>1. Waits(n) \/ (Reached(nodes[n].t) /\ Reached(nodes[n].f))
        BY DEF Linked
      <4>2. Waits(n) => Waits(n)'
        BY <1>3, <1>5, <2>8, <3>4 DEF Waits
      <4>3. nodes'[n] = nodes[n] /\ nodes[n].t \in 0 .. Len(nodes) /\ nodes[n].f \in 0 .. Len(nodes)
        BY <2>3, <2>4, <3>1, <3>4 DEF NodeUpTo
      <4> QED BY <2>14, <3>2, <4>1, <4>2, <4>3
    <3> QED BY <3>3, <3>4
  <2> QED BY <1>4, <2>4, <2>10, <2>12, <2>13, <2>16 DEF Linked
<1>11. QED
  BY <1>8, <1>9, <1>10

-----------------------------------------------------------------------------
IInv ==
  /\ Shape
  /\ phase \in {"visit", "link", "built", "failed"}
  /\ phase = "visit" => Visiting
  /\ phase \in {"link", "built"} => Linked
  /\ phase = "built" => agenda = <<>>

(* The inductive invariant holds initially.                                *)
LEMMA InitIInv == CfgInit => IInv
<1> SUFFICES ASSUME CfgInit PROVE IInv
  OBVIOUS
<1>1. WellFormed(fn) /\ fn \in Functions
  BY FunctionsAssumption DEF CfgInit
<1>2. fn.body \in Stms
  BY <1>1 DEF WellFormed, Stms
<1>3. PICK begin : begin = Through("begin", 0, 0)
  OBVIOUS
<1>4. PICK end : end = Through("end", 0, 0)
  OBVIOUS
<1>5. /\ begin \in NodeUpTo(2) /\ begin.kind = "begin" /\ begin.t = 0
      /\ end \in NodeUpTo(2) /\ end.kind = "end"
  BY <1>3, <1>4 DEF Through, Node, NodeUpTo, Stand
<1>6. nodes = <<begin, end>>
  BY <1>3, <1>4 DEF CfgInit
<1>7. /\ nodes \in Seq(NodeUpTo(2)) /\ Len(nodes) = 2
      /\ nodes[BEGIN] = begin /\ nodes[END] = end
  BY <1>5, <1>6 DEF BEGIN, END
<1>8. PICK e : e = [do |-> "visit", stm |-> fn.body, begin |-> BEGIN, end |-> END,
                    break |-> 0, continue |-> 0, throw |-> END]
  OBVIOUS
<1>9. e \in CallUpTo(2) /\ e.begin = BEGIN /\ e.stm = fn.body
  BY <1>2, <1>8 DEF CallUpTo, BEGIN, END
<1>10. Knows(e)
  <2>1. fn.ast[fn.body].within = {} /\ fn.body # 0
    BY <1>1, <1>2 DEF WellFormed, Stms
  <2> QED BY <1>8, <2>1 DEF Knows, May, BEGIN, END
<1>11. agenda = <<e>> /\ labels = [s \in Stms |-> 0] /\ stmList = {} /\ phase = "visit"
  BY <1>8 DEF CfgInit, Stms
<1>12. agenda \in Seq(CallUpTo(2)) /\ Items(agenda) = {e} /\ agenda # <<>> /\ Top = e
  BY <1>9, <1>11 DEF Items, Top
<1>13. Shape
  <2>1. labels \in [Stms -> 0 .. 2]
    BY <1>11
  <2> QED BY <1>1, <1>5, <1>7, <1>11, <1>12, <2>1 DEF Shape
<1>14. Visiting
  <2>1. \A n \in 1 .. Len(nodes) : n = END \/ n = BEGIN
    BY <1>7 DEF BEGIN, END
  <2>2. Pending(BEGIN)
    BY <1>9, <1>12 DEF Pending
  <2> QED BY <1>9, <1>10, <1>11, <1>12, <2>1, <2>2 DEF Visiting, Started
<1>15. QED
  BY <1>11, <1>13, <1>14 DEF IInv

(* Every step of the construction preserves the inductive invariant.       *)
LEMMA StepIInv == IInv /\ [CfgNext]_cfgVars => IInv'
<1> SUFFICES ASSUME IInv, [CfgNext]_cfgVars PROVE IInv'
  OBVIOUS
<1>1. Shape
  BY DEF IInv
<1>2. ASSUME phase = "visit", phase' = "visit", Visiting => Shape' /\ Visiting'
      PROVE  IInv'
  BY <1>2 DEF IInv
<1>3. CASE VisitIf
  BY <1>1, <1>2, <1>3, IfOk DEF VisitIf, Visits, Unlabelled
<1>4. CASE VisitNothing
  BY <1>1, <1>2, <1>4, NothingOk DEF VisitNothing, Visits, Unlabelled
<1>5. CASE VisitBlock
  BY <1>1, <1>2, <1>5, BlockOk DEF VisitBlock, Visits, Unlabelled
<1>6. CASE VisitFor
  BY <1>1, <1>2, <1>6, ForOk DEF VisitFor, Visits, Unlabelled
<1>7. CASE Iterate
  BY <1>1, <1>2, <1>7, IterateOk DEF Iterate, Unlabelled
<1>8. CASE ForFails
  BY <1>1, <1>8, ForFailsOk DEF ForFails, IInv
<1>9. CASE VisitWhile
  BY <1>1, <1>2, <1>9, WhileOk DEF VisitWhile, Visits, Unlabelled
<1>10. CASE VisitDo
  BY <1>1, <1>2, <1>10, DoOk DEF VisitDo, Visits, Unlabelled
<1>11. CASE VisitSwitch
  BY <1>1, <1>2, <1>11, SwitchOk DEF VisitSwitch, Visits, Unlabelled
<1>12. CASE VisitJump
  BY <1>1, <1>2, <1>12, JumpOk DEF VisitJump, Visits, Unlabelled
<1>13. CASE VisitLabel
  BY <1>1, <1>2, <1>13, LabelOk DEF VisitLabel, Visits
<1>14. CASE VisitTry
  BY <1>1, <1>2, <1>14, TryOk DEF VisitTry, Visits, Unlabelled
<1>15. CASE VisitCatch
  BY <1>1, <1>2, <1>15, CatchOk DEF VisitCatch, Visits, Unlabelled
<1>16. CASE VisitSimple
  BY <1>1, <1>2, <1>16, SimpleOk DEF VisitSimple, Visits, Unlabelled
<1>17. CASE StartLink
  BY <1>1, <1>17, StartLinkOk DEF StartLink, IInv
<1>18. CASE LinkRoot
  BY <1>1, <1>18, LinkRootOk DEF LinkRoot, IInv
<1>19. CASE NextConcrete
  BY <1>1, <1>19, NextConcreteOk DEF NextConcrete, IInv
<1>20. CASE FinishLink
  <2>1. Shape' /\ (Linked => Linked')
    BY <1>1, <1>20 DEF FinishLink, Shape, Stms, NodeUpTo, CallUpTo, Linked, LinkCall,
       Concrete, Labelled, Tied, Waits, Reached, ToReach
  <2> QED BY <1>20, <2>1 DEF FinishLink, IInv
<1>21. CASE UNCHANGED cfgVars
  <2>1. Shape' /\ (Visiting => Visiting')
    BY <1>1, <1>21 DEF cfgVars, Shape, Stms, NodeUpTo, CallUpTo, Visiting, Knows, May,
       Labelled, Tied, Pending, Started, Top
  <2>2. Linked => Linked'
    BY <1>21 DEF cfgVars, Stms, Linked, LinkCall, Concrete, Labelled, Tied, Waits, Reached, ToReach
  <2> QED BY <1>21, <2>1, <2>2 DEF cfgVars, IInv
<1>22. QED
  BY <1>3, <1>4, <1>5, <1>6, <1>7, <1>8, <1>9, <1>10, <1>11, <1>12, <1>13, <1>14, <1>15, <1>16,
     <1>17, <1>18, <1>19, <1>20, <1>21 DEF CfgNext, VisitStatement, LinkStatement

(* What is left to reach when no call is to come is reached. *)
LEMMA ClosedOk == IInv => GraphClosed
<1> SUFFICES ASSUME IInv, phase = "built", LabelsVisited, NEW n \in stmList
             PROVE  /\ nodes[n].kind # "forward"
                    /\ n # END => {nodes[n].t, nodes[n].f} \subseteq stmList
  BY DEF GraphClosed
<1>1. Shape /\ Linked /\ Items(agenda) = {}
  BY DEF IInv, Items
<1>2. n \in 1 .. Len(nodes)
  BY <1>1 DEF Shape
<1>3. Concrete(n) /\ Reached(nodes[n].t) /\ Reached(nodes[n].f)
  BY <1>1 DEF Linked, Waits
<1>4. ASSUME n # END PROVE Tied(n)
  <2>1. Labelled(n) => Tied(n)
    BY <1>1 DEF Labelled, LabelsVisited, Shape, Tied
  <2> QED BY <1>1, <1>2, <1>4, <2>1 DEF Linked
<1>5. QED
  BY <1>1, <1>2, <1>3, <1>4 DEF Concrete, Reached, ToReach, Tied

(* For every set of functions, in every graph that has been built, every   *)
(* node but END has two successors in the graph, and none only forwards,   *)
(* provided every label a goto names has been visited.                     *)
THEOREM Closed == CfgSpec => []GraphClosed
<1>1. CfgInit => IInv
  BY InitIInv
<1>2. IInv /\ [CfgNext]_cfgVars => IInv'
  BY StepIInv
<1>3. IInv => GraphClosed
  BY ClosedOk
<1>4. QED
  BY <1>1, <1>2, <1>3, PTL DEF CfgSpec

(* Two nodes are joined if nodes that only forward lead from them to the   *)
(* same: no set of nodes that these neither enter nor leave tells them     *)
(* apart.                                                                  *)
Joined(N, x, y) ==
  \A S : (\A n \in DOMAIN N : N[n].kind = "forward" => (n \in S <=> N[n].t \in S))
           => (x \in S <=> y \in S)

(* The nodes that symbolicTestpath passes without a statement, with the    *)
(* scope level; a closing scope is passed above a floor alone.             *)
Rise(kind) == IF kind = "open" THEN 1 ELSE IF kind = "close" THEN -1 ELSE 0
Passes(N, floor, n, l) ==
  \/ N[n].kind \in {"forward", "begin", "open", "mark"}
  \/ N[n].kind = "close" /\ l > floor
Same(N, floor, x, l, y, m) ==
  \A S : (\A n \in DOMAIN N, i \in Int :
            Passes(N, floor, n, i) =>
              (<<n, i>> \in S <=> <<N[n].t, i + Rise(N[n].kind)>> \in S))
           => (<<x, l>> \in S <=> <<y, m>> \in S)

(* Places are joined by forwarding nodes: an equivalence.                  *)
LEMMA JoinedIs ==
  ASSUME NEW N
  PROVE  /\ \A x : Joined(N, x, x)
         /\ \A x, y : Joined(N, x, y) => Joined(N, y, x)
         /\ \A x, y, z : Joined(N, x, y) /\ Joined(N, y, z) => Joined(N, x, z)
         /\ \A n \in DOMAIN N : N[n].kind = "forward" => Joined(N, n, N[n].t)
<1>1. \A x : Joined(N, x, x)
  BY Zenon DEF Joined
<1>2. \A x, y : Joined(N, x, y) => Joined(N, y, x)
  BY Zenon DEF Joined
<1>3. ASSUME NEW x, NEW y, NEW z, Joined(N, x, y), Joined(N, y, z) PROVE Joined(N, x, z)
  <2> SUFFICES ASSUME NEW S,
                      \A n \in DOMAIN N : N[n].kind = "forward" => (n \in S <=> N[n].t \in S)
               PROVE  x \in S <=> z \in S
    BY DEF Joined
  <2>1. x \in S <=> y \in S
    BY <1>3, Zenon DEF Joined
  <2>2. y \in S <=> z \in S
    BY <1>3, Zenon DEF Joined
  <2> QED BY <2>1, <2>2
<1>4. \A n \in DOMAIN N : N[n].kind = "forward" => Joined(N, n, N[n].t)
  BY Zenon DEF Joined
<1> QED BY <1>1, <1>2, <1>3, <1>4, Zenon

(* Points of a walk, with scope levels, are the same: an equivalence, kept *)
(* by the nodes that are passed.                                           *)
LEMMA SameIs ==
  ASSUME NEW N, NEW floor
  PROVE  /\ \A x, l : Same(N, floor, x, l, x, l)
         /\ \A x, l, y, m : Same(N, floor, x, l, y, m) => Same(N, floor, y, m, x, l)
         /\ \A x, l, y, m, z, k :
              Same(N, floor, x, l, y, m) /\ Same(N, floor, y, m, z, k) => Same(N, floor, x, l, z, k)
         /\ \A n \in DOMAIN N, l \in Int :
              Passes(N, floor, n, l) => Same(N, floor, n, l, N[n].t, l + Rise(N[n].kind))
<1>1. \A x, l : Same(N, floor, x, l, x, l)
  BY Zenon DEF Same
<1>2. \A x, l, y, m : Same(N, floor, x, l, y, m) => Same(N, floor, y, m, x, l)
  BY Zenon DEF Same
<1>3. ASSUME NEW x, NEW y, NEW z, NEW l, NEW m, NEW k,
             Same(N, floor, x, l, y, m), Same(N, floor, y, m, z, k)
      PROVE  Same(N, floor, x, l, z, k)
  <2> SUFFICES ASSUME NEW S,
                      \A n \in DOMAIN N, i \in Int :
                         Passes(N, floor, n, i) =>
                           (<<n, i>> \in S <=> <<N[n].t, i + Rise(N[n].kind)>> \in S)
               PROVE  <<x, l>> \in S <=> <<z, k>> \in S
    BY Zenon DEF Same
  <2>1. <<x, l>> \in S <=> <<y, m>> \in S
    BY <1>3, Zenon DEF Same
  <2>2. <<y, m>> \in S <=> <<z, k>> \in S
    BY <1>3, Zenon DEF Same
  <2> QED BY <2>1, <2>2, Zenon
<1>4. \A n \in DOMAIN N, l \in Int :
         Passes(N, floor, n, l) => Same(N, floor, n, l, N[n].t, l + Rise(N[n].kind))
  BY Zenon DEF Same
<1> QED BY <1>1, <1>2, <1>3, <1>4, Zenon

(* What forwarding nodes join is passed at the same level. *)
LEMMA JoinedSame ==
  ASSUME NEW N, NEW floor, NEW x, NEW y, Joined(N, x, y), NEW l \in Int
  PROVE  Same(N, floor, x, l, y, l)
<1> SUFFICES ASSUME NEW S,
                    \A n \in DOMAIN N, i \in Int :
                       Passes(N, floor, n, i) =>
                         (<<n, i>> \in S <=> <<N[n].t, i + Rise(N[n].kind)>> \in S)
             PROVE  <<x, l>> \in S <=> <<y, l>> \in S
  BY Zenon DEF Same
<1> DEFINE C == {x, y} \cup DOMAIN N \cup {N[n].t : n \in DOMAIN N}
<1> DEFINE T == {n \in C : <<n, l>> \in S}
<1>1. ASSUME NEW n \in DOMAIN N, N[n].kind = "forward" PROVE n \in T <=> N[n].t \in T
  <2>1. Passes(N, floor, n, l) /\ Rise(N[n].kind) = 0
    BY <1>1 DEF Passes, Rise
  <2>2. l + Rise(N[n].kind) = l
    BY <2>1
  <2>3. <<n, l>> \in S <=> <<N[n].t, l>> \in S
    BY <2>1, <2>2
  <2>4. n \in C /\ N[n].t \in C
    OBVIOUS
  <2> QED BY <2>3, <2>4
<1>2. x \in T <=> y \in T
  <2> HIDE DEF T
  <2> QED BY <1>1, Zenon DEF Joined
<1>3. x \in C /\ y \in C
  OBVIOUS
<1> QED BY <1>2, <1>3

(* Points that are the same above a floor are the same above a lower one.  *)
LEMMA SameBelow ==
  ASSUME NEW N, NEW floor \in Int, NEW lower \in Int, lower <= floor,
         NEW x, NEW l, NEW y, NEW m, Same(N, floor, x, l, y, m)
  PROVE  Same(N, lower, x, l, y, m)
<1>1. \A n \in DOMAIN N, i \in Int : Passes(N, floor, n, i) => Passes(N, lower, n, i)
  BY DEF Passes
<1> QED BY <1>1, Zenon DEF Same

(* What is not passed is reached from one place alone. *)
LEMMA SameStuck ==
  ASSUME NEW N, NEW floor, NEW x \in DOMAIN N, NEW y \in DOMAIN N, NEW l \in Int, NEW m \in Int,
         ~Passes(N, floor, x, l), ~Passes(N, floor, y, m), Same(N, floor, x, l, y, m)
  PROVE  x = y /\ l = m
<1> DEFINE U == {<<n, i>> : n \in DOMAIN N, i \in Int}
           To(n, i) == <<N[n].t, i + Rise(N[n].kind)>>
           Back(T) == \A n \in DOMAIN N, i \in Int :
                        Passes(N, floor, n, i) /\ To(n, i) \in T => <<n, i>> \in T
           B == {u \in U : \A T \in SUBSET U : <<x, l>> \in T /\ Back(T) => u \in T}
<1> SUFFICES ASSUME <<x, l>> # <<y, m>> PROVE FALSE
  OBVIOUS
<1>0. \A n \in DOMAIN N, i \in Int : <<n, i>> \in U
  OBVIOUS
<1>1. <<x, l>> \in B
  <2> HIDE DEF U, Back
  <2> QED BY <1>0
<1>2. B \subseteq U
  OBVIOUS
<1>3. \A T \in SUBSET U : <<x, l>> \in T /\ Back(T) => B \subseteq T
  OBVIOUS
<1>4. \A n \in DOMAIN N, i \in Int : Passes(N, floor, n, i) /\ To(n, i) \in B => <<n, i>> \in B
  <2> SUFFICES ASSUME NEW n \in DOMAIN N, NEW i \in Int, Passes(N, floor, n, i), To(n, i) \in B,
                      NEW T \in SUBSET U, <<x, l>> \in T, Back(T)
               PROVE  <<n, i>> \in T
    <3> HIDE DEF To, Back, U
    <3> QED BY <1>0, Zenon
  <2>1. To(n, i) \in T
    <3> HIDE DEF To, Back
    <3> QED BY <1>3
  <2> HIDE DEF To, B, U
  <2> QED BY <2>1
<1>5. ASSUME NEW n \in DOMAIN N, NEW i \in Int, Passes(N, floor, n, i), <<n, i>> \in B
      PROVE  To(n, i) \in B
  <2> SUFFICES ASSUME To(n, i) \notin B PROVE FALSE
    OBVIOUS
  <2> DEFINE T == B \ {<<n, i>>}
  <2>1. <<x, l>> \in T
    <3>1. <<n, i>> # <<x, l>>
      BY <1>5
    <3> HIDE DEF B
    <3> QED BY <1>1, <3>1
  <2>2. \A p \in DOMAIN N, j \in Int : Passes(N, floor, p, j) /\ To(p, j) \in T => <<p, j>> \in T
    <3> SUFFICES ASSUME NEW p \in DOMAIN N, NEW j \in Int, Passes(N, floor, p, j), To(p, j) \in T
                 PROVE  <<p, j>> \in T
      OBVIOUS
    <3>1. To(p, j) \in B
      <4> HIDE DEF B, To
      <4> QED OBVIOUS
    <3>2. <<p, j>> \in B
      <4> HIDE DEF B, To
      <4> QED BY <1>4, <3>1, Zenon
    <3>3. <<p, j>> # <<n, i>>
      <4> SUFFICES ASSUME <<p, j>> = <<n, i>> PROVE FALSE
        OBVIOUS
      <4>1. p = n /\ j = i
        OBVIOUS
      <4>2. To(n, i) \in B
        <5> HIDE DEF B, To
        <5> QED BY <3>1, <4>1, Zenon
      <4> HIDE DEF B, To, T
      <4> QED BY <4>2, <2>1
    <3> HIDE DEF B, To
    <3> QED BY <3>2, <3>3
  <2>3. T \in SUBSET U
    <3> HIDE DEF B, U
    <3> QED BY <1>2
  <2>4. B \subseteq T
    <3> HIDE DEF B, To, U, T
    <3> QED BY <1>3, <2>1, <2>2, <2>3
  <2> HIDE DEF B
  <2> QED BY <1>5, <2>4
<1>6. <<y, m>> \in B
  <2>1. \A n \in DOMAIN N, i \in Int :
            Passes(N, floor, n, i) =>
              (<<n, i>> \in B <=> <<N[n].t, i + Rise(N[n].kind)>> \in B)
    <3> HIDE DEF B
    <3> QED BY <1>4, <1>5
  <2> HIDE DEF B
  <2> QED BY <1>1, <2>1, Zenon DEF Same
<1>7. <<y, m>> \notin B
  <2> DEFINE T == B \ {<<y, m>>}
  <2>1. <<x, l>> \in T
    <3> HIDE DEF B
    <3> QED BY <1>1
  <2>2. \A p \in DOMAIN N, j \in Int : Passes(N, floor, p, j) /\ To(p, j) \in T => <<p, j>> \in T
    <3> SUFFICES ASSUME NEW p \in DOMAIN N, NEW j \in Int, Passes(N, floor, p, j), To(p, j) \in T
                 PROVE  <<p, j>> \in T
      OBVIOUS
    <3>1. To(p, j) \in B
      <4> HIDE DEF B, To
      <4> QED OBVIOUS
    <3>2. <<p, j>> \in B
      <4> HIDE DEF B, To
      <4> QED BY <1>4, <3>1, Zenon
    <3>3. <<p, j>> # <<y, m>>
      OBVIOUS
    <3> HIDE DEF B, To
    <3> QED BY <3>2, <3>3
  <2>3. T \in SUBSET U
    <3> HIDE DEF B, U
    <3> QED BY <1>2
  <2>4. B \subseteq T
    <3> HIDE DEF B, To, U, T
    <3> QED BY <1>3, <2>1, <2>2, <2>3
  <2> HIDE DEF B
  <2> QED BY <2>4
<1> HIDE DEF B
<1> QED BY <1>6, <1>7

(* The functions that are executed as they stand: without the labels and   *)
(* gotos that After follows, and as Comparable says without try.           *)
NoGoto(f)  == \A s \in DOMAIN f.ast : f.ast[s].kind \notin {"label", "goto"}
Regular(f) == Comparable(f) /\ NoGoto(f)

(* The nodes: one complete, one of a kind whose successor may be to come,  *)
(* one whose successor is set.                                             *)
Is(N, x, kind, s, t, f) == x \in DOMAIN N /\ N[x] = Node(kind, s, t, f) /\ t # 0
Stands(N, x, kind)      == x \in DOMAIN N /\ N[x].kind = kind
Goes(N, x, y)           == x \in DOMAIN N /\ N[x].t = y /\ y # 0

(* A call of visitStatement, where throw leads to the end *)
Called(do, s, b, e, out, next) ==
  [do |-> do, stm |-> s, begin |-> b, end |-> e, break |-> out, continue |-> next, throw |-> END]
Like(c, s, b, e) == Called("visit", s, b, e, c.break, c.continue)

(* The labels of switch s from i on are a condition. *)
Compared(f, s, i) == i \in RunStarts(f, s) /\ ~HasDefault(f, s, i)

-----------------------------------------------------------------------------
(* What the visit of a statement leaves behind, when the calls in V have   *)
(* been or will be made.                                                   *)
LaidIterate(f, N, c) ==
  IF Kind(f, c.stm) = "null" THEN Goes(N, c.begin, c.end)
  ELSE \E x : Goes(N, c.begin, x) /\ Is(N, x, "stm", c.stm, c.end, c.end)

LaidIf(f, N, V, c) ==
  \E x, t, e :
    /\ Goes(N, c.begin, x) /\ Is(N, x, "cond", Parts(f, c.stm)[1], t, e)
    /\ Stands(N, t, "forward") /\ Like(c, Parts(f, c.stm)[2], t, c.end) \in V
    /\ Stands(N, e, "forward") /\ Like(c, Parts(f, c.stm)[3], e, c.end) \in V

LaidBlock(f, N, V, c) ==
  LET k == Len(Parts(f, c.stm))
  IN  \E p : /\ Goes(N, c.begin, p[0]) /\ Stands(N, p[0], "open")
             /\ \A i \in 1 .. k - 1 : Stands(N, p[i], "forward")
             /\ Is(N, p[k], "close", 0, c.end, c.end)
             /\ \A i \in 1 .. k : Like(c, Parts(f, c.stm)[i], p[i - 1], p[i]) \in V

(* The initialisation leads from i to j, where the condition y is tried,   *)
(* the body from b to n, the iteration from there to j.                    *)
Ring(f, N, V, c, i, j, y, b, n, out) ==
  /\ Stands(N, i, "forward") /\ Is(N, j, "forward", 0, y, y)
  /\ Stands(N, b, "forward") /\ Stands(N, n, "forward")
  /\ Is(N, out, "close", 0, c.end, c.end)
  /\ IF Kind(f, Parts(f, c.stm)[2]) = "null" THEN y = b
     ELSE Is(N, y, "cond", Parts(f, c.stm)[2], b, out)
  /\ Called("visit", Parts(f, c.stm)[1], i, j, out, n) \in V
  /\ Called("visit", Parts(f, c.stm)[4], b, n, out, n) \in V
  /\ Called("iterate", Parts(f, c.stm)[3], n, j, out, n) \in V
LaidFor(f, N, V, c) ==
  \E x, i, j, y, b, n, out :
    Goes(N, c.begin, x) /\ Is(N, x, "open", 0, i, i) /\ Ring(f, N, V, c, i, j, y, b, n, out)

LaidWhile(f, N, V, c) ==
  \E x, b, y :
    /\ Goes(N, c.begin, x) /\ Is(N, x, "forward", 0, y, y) /\ Stands(N, b, "forward")
    /\ Is(N, y, "cond", Parts(f, c.stm)[1], b, c.end)
    /\ Called("visit", Parts(f, c.stm)[2], b, x, c.end, x) \in V

LaidDo(f, N, V, c) ==
  \E x, n, y :
    /\ Goes(N, c.begin, x) /\ Stands(N, x, "forward") /\ Is(N, n, "forward", 0, y, y)
    /\ Is(N, y, "cond", Parts(f, c.stm)[1], x, c.end)
    /\ Called("visit", Parts(f, c.stm)[2], x, n, c.end, n) \in V

(* a[i] is where statement i starts, r[i] where the labels from i on are   *)
(* tried.                                                                  *)
Chain(f, N, V, c, a, r, out) ==
  LET kids == Parts(f, c.stm)
      k    == Len(kids)
  IN  /\ Is(N, out, "close", 0, c.end, c.end)
      /\ Is(N, a[k + 1], "forward", 0, out, out)
      /\ \A i \in 2 .. k : /\ Stands(N, a[i], "forward")
                           /\ Called("visit", kids[i], a[i], a[i + 1], out, c.continue) \in V
      /\ \A i \in 2 .. k : IF Compared(f, c.stm, i)
                           THEN Is(N, r[i], "cond", kids[i], a[i], r[i + 1])
                           ELSE Is(N, r[i], "forward", 0, r[i + 1], r[i + 1])
      /\ LET defaults == {i \in 2 .. k : Kind(f, kids[i]) = "default"}
             d == IF defaults = {} THEN out ELSE a[CHOOSE i \in defaults : TRUE]
         IN  Is(N, r[k + 1], "forward", 0, d, d)
LaidSwitch(f, N, V, c) ==
  \E x, a, r, out :
    Goes(N, c.begin, x) /\ Is(N, x, "open", 0, r[2], r[2]) /\ Chain(f, N, V, c, a, r, out)

LaidOne(N, c, kind, next) == \E x : Goes(N, c.begin, x) /\ Is(N, x, kind, c.stm, next, next)

LaidVisit(f, N, V, c) ==
  LET kind == Kind(f, c.stm)
  IN  /\ kind \in {"null"} \cup Labels => Goes(N, c.begin, c.end)
      /\ kind = "if" => LaidIf(f, N, V, c)
      /\ kind = "block" => IF Parts(f, c.stm) = <<>> THEN Goes(N, c.begin, c.end)
                           ELSE LaidBlock(f, N, V, c)
      /\ kind = "for" => LaidFor(f, N, V, c)
      /\ kind = "while" => LaidWhile(f, N, V, c)
      /\ kind = "do" => LaidDo(f, N, V, c)
      /\ kind = "switch" => LaidSwitch(f, N, V, c)
      /\ kind = "break" => LaidOne(N, c, "break", c.break)
      /\ kind = "continue" => LaidOne(N, c, "continue", c.continue)
      /\ kind = "return" => LaidOne(N, c, "return", END)
      /\ kind = "throw" => LaidOne(N, c, "throw", END)
      /\ kind = "exit" => LaidOne(N, c, "stm", END)
      /\ kind \in {"expr", "decl"} => LaidOne(N, c, "stm", c.end)

(* From the end of an iteration two steps do not lead back to it. *)
Escapes(N, c) == \E y, z : Goes(N, c.end, y) /\ Goes(N, y, z) /\ z # c.begin

Laid(f, N, V, c) ==
  /\ c.do = "iterate" => LaidIterate(f, N, c) /\ Escapes(N, c)
  /\ c.do = "visit"   => LaidVisit(f, N, V, c)

CallOk(f, N, c) ==
  /\ c = Called(c.do, c.stm, c.begin, c.end, c.break, c.continue)
  /\ c.do \in {"visit", "iterate"} /\ c.stm \in {0} \cup DOMAIN f.ast
  /\ c.begin \in DOMAIN N /\ N[c.begin].kind \in {"begin", "open", "forward"}
  /\ c.end \in DOMAIN N

(* The iteration of a for whose body starts at b; that one is to come of A *)
(* when the body is not any more.                                          *)
IterationOf(f, N, V, c, it, b) ==
  /\ c.stm \in DOMAIN f.ast /\ Kind(f, c.stm) = "for"
  /\ \E i, j, y, n, out : /\ Ring(f, N, V, c, i, j, y, b, n, out)
                          /\ it = Called("iterate", Parts(f, c.stm)[3], n, j, out, n)
BodyFirst(f, N, V, A, i) ==
  \E c, b : IterationOf(f, N, V, c, A[i], b) /\ \A l \in i .. Len(A) : A[l].begin # b

(* The calls that have been made have left their nodes behind; those to    *)
(* come start each from a node of its own.                                 *)
Root(f) == Called("visit", f.body, BEGIN, END, 0, 0)
Lays(f, N, V, A) ==
  /\ \A c \in V : CallOk(f, N, c)
  /\ Root(f) \in V
  /\ BEGIN \in DOMAIN N /\ N[BEGIN].kind = "begin" /\ END \in DOMAIN N /\ N[END] = Through("end", 0, 0)
  /\ \A i \in 1 .. Len(A) : A[i] \in V /\ N[A[i].begin].t = 0
  /\ \A i, j \in 1 .. Len(A) : A[i].begin = A[j].begin => i = j
  /\ \A i \in 1 .. Len(A) : A[i].do = "iterate" => BodyFirst(f, N, V, A, i)
  /\ \A c \in V : Laid(f, N, V, c) \/ c \in Items(A)

-----------------------------------------------------------------------------
(* Nodes are added, and successors set that were not. *)
Grows(N, M) ==
  /\ DOMAIN N \subseteq DOMAIN M
  /\ \A n \in DOMAIN N : M[n].kind = N[n].kind /\ (N[n].t # 0 => M[n] = N[n])

(* What is known of nodes stays when nodes are added.                      *)
LEMMA NodesGrow ==
  ASSUME NEW N, NEW M, Grows(N, M)
  PROVE  /\ \A x, kind, s, t, e : Is(N, x, kind, s, t, e) => Is(M, x, kind, s, t, e)
         /\ \A x, kind : Stands(N, x, kind) => Stands(M, x, kind)
         /\ \A x, y : Goes(N, x, y) => Goes(M, x, y)
<1>1. ASSUME NEW x, NEW kind, NEW s, NEW t, NEW e, Is(N, x, kind, s, t, e)
      PROVE  Is(M, x, kind, s, t, e)
  <2>1. x \in DOMAIN N /\ N[x] = Node(kind, s, t, e) /\ t # 0
    BY <1>1 DEF Is
  <2>2. Node(kind, s, t, e).t = t
    BY DEF Node
  <2>3. M[x] = N[x] /\ x \in DOMAIN M
    BY <2>1, <2>2 DEF Grows
  <2> QED BY <2>1, <2>3, Zenon DEF Is
<1>2. \A x, kind : Stands(N, x, kind) => Stands(M, x, kind)
  BY DEF Stands, Grows
<1>3. \A x, y : Goes(N, x, y) => Goes(M, x, y)
  BY DEF Goes, Grows
<1> QED BY <1>1, <1>2, <1>3, Zenon

(* What is known of the nodes of a for stays when nodes are added.         *)
LEMMA RingGrows ==
  ASSUME NEW f, NEW N, NEW M, Grows(N, M), NEW V, NEW W, V \subseteq W, NEW c,
         NEW i, NEW j, NEW y, NEW b, NEW n, NEW out, Ring(f, N, V, c, i, j, y, b, n, out)
  PROVE  Ring(f, M, W, c, i, j, y, b, n, out)
<1>1. /\ \A x, kind, s, t, e : Is(N, x, kind, s, t, e) => Is(M, x, kind, s, t, e)
      /\ \A x, kind : Stands(N, x, kind) => Stands(M, x, kind)
      /\ \A d : d \in V => d \in W
  BY NodesGrow, Zenon
<1> QED BY <1>1, Zenon DEF Ring

(* What is known of the iteration of a for stays when nodes are added.     *)
LEMMA IterationGrows ==
  ASSUME NEW f, NEW N, NEW M, Grows(N, M), NEW V, NEW W, V \subseteq W, NEW c, NEW it, NEW b,
         IterationOf(f, N, V, c, it, b)
  PROVE  IterationOf(f, M, W, c, it, b)
<1>1. PICK i, j, y, n, out : /\ Ring(f, N, V, c, i, j, y, b, n, out)
                             /\ it = Called("iterate", Parts(f, c.stm)[3], n, j, out, n)
  BY Zenon DEF IterationOf
<1>2. Ring(f, M, W, c, i, j, y, b, n, out)
  BY <1>1, RingGrows, Zenon
<1> QED BY <1>1, <1>2, Zenon DEF IterationOf

(* What a call has laid stays when nodes are added.                        *)
LEMMA LaidGrows ==
  ASSUME NEW f, NEW N, NEW M, Grows(N, M), NEW V, NEW W, V \subseteq W, NEW c, Laid(f, N, V, c)
  PROVE  Laid(f, M, W, c)
<1>1. /\ \A x, kind, s, t, e : Is(N, x, kind, s, t, e) => Is(M, x, kind, s, t, e)
      /\ \A x, kind : Stands(N, x, kind) => Stands(M, x, kind)
      /\ \A x, y : Goes(N, x, y) => Goes(M, x, y)
      /\ \A d : d \in V => d \in W
  BY NodesGrow, Zenon
<1>2. LaidIterate(f, N, c) /\ Escapes(N, c) => LaidIterate(f, M, c) /\ Escapes(M, c)
  <2>1. LaidIterate(f, N, c) => LaidIterate(f, M, c)
    BY <1>1, Zenon DEF LaidIterate
  <2>2. Escapes(N, c) => Escapes(M, c)
    BY <1>1, Zenon DEF Escapes
  <2> QED BY <2>1, <2>2
<1>3. LaidIf(f, N, V, c) => LaidIf(f, M, W, c)
  BY <1>1, Zenon DEF LaidIf
<1>4. LaidBlock(f, N, V, c) => LaidBlock(f, M, W, c)
  BY <1>1, Zenon DEF LaidBlock
<1>5. LaidFor(f, N, V, c) => LaidFor(f, M, W, c)
  <2>1. ASSUME NEW i, NEW j, NEW y, NEW b, NEW n, NEW out, Ring(f, N, V, c, i, j, y, b, n, out)
        PROVE  Ring(f, M, W, c, i, j, y, b, n, out)
    BY <2>1, RingGrows, Zenon
  <2>2. ASSUME LaidFor(f, N, V, c) PROVE LaidFor(f, M, W, c)
    <3>1. PICK x, i, j, y, b, n, out :
      Goes(N, c.begin, x) /\ Is(N, x, "open", 0, i, i) /\ Ring(f, N, V, c, i, j, y, b, n, out)
      BY <2>2, Zenon DEF LaidFor
    <3>2. Goes(M, c.begin, x) /\ Is(M, x, "open", 0, i, i) /\ Ring(f, M, W, c, i, j, y, b, n, out)
      BY <1>1, <2>1, <3>1, Zenon
    <3> QED BY <3>2, Zenon DEF LaidFor
  <2> QED BY <2>2
<1>6. LaidWhile(f, N, V, c) => LaidWhile(f, M, W, c)
  BY <1>1, Zenon DEF LaidWhile
<1>7. LaidDo(f, N, V, c) => LaidDo(f, M, W, c)
  BY <1>1, Zenon DEF LaidDo
<1>8. ASSUME NEW a, NEW r, NEW out, Chain(f, N, V, c, a, r, out) PROVE Chain(f, M, W, c, a, r, out)
  BY <1>1, <1>8, Zenon DEF Chain
<1>9. ASSUME LaidSwitch(f, N, V, c) PROVE LaidSwitch(f, M, W, c)
  <2>1. PICK x, a, r, out :
    Goes(N, c.begin, x) /\ Is(N, x, "open", 0, r[2], r[2]) /\ Chain(f, N, V, c, a, r, out)
    BY <1>9, Zenon DEF LaidSwitch
  <2>2. Goes(M, c.begin, x) /\ Is(M, x, "open", 0, r[2], r[2]) /\ Chain(f, M, W, c, a, r, out)
    BY <1>1, <1>8, <2>1, Zenon
  <2> QED BY <2>2, Zenon DEF LaidSwitch
<1>10. \A kind, next : LaidOne(N, c, kind, next) => LaidOne(M, c, kind, next)
  BY <1>1, Zenon DEF LaidOne
<1>11. LaidVisit(f, N, V, c) => LaidVisit(f, M, W, c)
  <2>1. Goes(N, c.begin, c.end) => Goes(M, c.begin, c.end)
    BY <1>1
  <2> QED BY <2>1, <1>3, <1>4, <1>5, <1>6, <1>7, <1>9, <1>10 DEF LaidVisit
<1> QED BY <1>2, <1>11, Zenon DEF Laid

(* What is known of a statement of a regular function *)
Plainly == {"null", "case", "default", "if", "block", "for", "while", "do", "switch",
            "break", "continue", "return", "throw", "exit", "expr", "decl"}

(* What a Regular function says of each of its statements.                 *)
LEMMA StmOk ==
  ASSUME NEW f \in Functions, Regular(f), NEW s \in DOMAIN f.ast
  PROVE  /\ s # 0 /\ s \in 1 .. Len(f.ast) /\ DOMAIN f.ast = 1 .. Len(f.ast)
         /\ Kind(f, s) = f.ast[s].kind /\ Kind(f, s) \in Plainly
         /\ f.ast[s].callee = "none"
         /\ HasParts(f.ast[s]) /\ Parts(f, s) \in Seq({0} \cup DOMAIN f.ast)
         /\ Grammatical(f, s)
         /\ Kind(f, s) \in {"break", "continue"} => Kind(f, s) \in f.ast[s].within
         /\ \A i \in 1 .. Len(Parts(f, s)) :
              Parts(f, s)[i] # 0 =>
                f.ast[Parts(f, s)[i]].within \subseteq f.ast[s].within \cup Binds(Kind(f, s))
<1>1. WellFormed(f)
  BY FunctionsAssumption
<1>2. DOMAIN f.ast = 1 .. Len(f.ast)
  BY <1>1 DEF WellFormed
<1>3. s # 0 /\ s \in 1 .. Len(f.ast)
  <2>1. s \in 1 .. Len(f.ast)
    BY <1>2
  <2>2. 0 \notin 1 .. Len(f.ast)
    OBVIOUS
  <2> QED BY <2>1, <2>2
<1>4. Kind(f, s) = f.ast[s].kind
  BY <1>3 DEF Kind
<1>5. /\ f.ast[s].kind \in Kinds /\ f.ast[s].kids \in Seq({0} \cup (1 .. Len(f.ast)))
      /\ HasParts(f.ast[s]) /\ Grammatical(f, s)
      /\ f.ast[s].kind \in {"break", "continue"} => f.ast[s].kind \in f.ast[s].within
      /\ \A i \in 1 .. Len(f.ast[s].kids) :
           f.ast[s].kids[i] # 0 =>
             f.ast[f.ast[s].kids[i]].within \subseteq f.ast[s].within \cup Binds(f.ast[s].kind)
  BY <1>1, <1>3, Zenon DEF WellFormed
<1>6. /\ \A p \in 1 .. Len(f.ast) : f.ast[p].kind \notin {"try", "label", "goto"}
      /\ f.ast[s].callee = "none"
  BY <1>2, <1>3 DEF Regular, Comparable, NoGoto
<1>7. f.ast[s].kind \notin {"catch", "catchall"}
  BY <1>5, <1>6 DEF Grammatical
<1>8. f.ast[s].kind \in Plainly
  BY <1>3, <1>5, <1>6, <1>7 DEF Kinds, Simple, CaseLabel, Plainly
<1>9. Parts(f, s) = f.ast[s].kids
  BY DEF Parts
<1> QED BY <1>2, <1>3, <1>4, <1>5, <1>6, <1>8, <1>9

(* The elements of a concatenation *)
Strings(s, u, w) ==
  /\ Len(s) \in Nat /\ Len(u) \in Nat /\ Len(w) = Len(s) + Len(u)
  /\ DOMAIN s = 1 .. Len(s) /\ DOMAIN u = 1 .. Len(u) /\ DOMAIN w = 1 .. Len(s) + Len(u)
  /\ \A i \in 1 .. Len(s) : w[i] = s[i]
  /\ \A j \in 1 .. Len(u) : w[Len(s) + j] = u[j]
  /\ \A i \in 1 .. Len(s) + Len(u) :
       \/ i \in 1 .. Len(s) /\ w[i] = s[i]
       \/ i \notin 1 .. Len(s) /\ i - Len(s) \in 1 .. Len(u) /\ w[i] = u[i - Len(s)]

(* Two sequences, one after the other, item by item.                       *)
LEMMA ConcatIs ==
  ASSUME NEW S, NEW s \in Seq(S), NEW u \in Seq(S)
  PROVE  s \o u \in Seq(S) /\ Strings(s, u, s \o u)
<1>1. /\ s \o u \in Seq(S) /\ Len(s \o u) = Len(s) + Len(u)
      /\ Len(s) \in Nat /\ Len(u) \in Nat
      /\ \A i \in 1 .. Len(s) + Len(u) :
           (s \o u)[i] = IF i <= Len(s) THEN s[i] ELSE u[i - Len(s)]
  BY ConcatProperties, LenProperties
<1>2. PICK w : w = s \o u
  OBVIOUS
<1>3. DOMAIN w = 1 .. Len(s) + Len(u)
  BY <1>1, <1>2, LenProperties
<1>4. \A i \in 1 .. Len(s) : w[i] = s[i]
  BY <1>1, <1>2
<1>5. \A j \in 1 .. Len(u) : w[Len(s) + j] = u[j]
  BY <1>1, <1>2
<1>6. ASSUME NEW i \in 1 .. Len(s) + Len(u)
      PROVE  \/ i \in 1 .. Len(s) /\ w[i] = s[i]
             \/ i \notin 1 .. Len(s) /\ i - Len(s) \in 1 .. Len(u) /\ w[i] = u[i - Len(s)]
  <2>1. CASE i <= Len(s)
    <3>1. i \in 1 .. Len(s)
      BY <1>1, <2>1
    <3> QED BY <1>4, <3>1
  <2>2. CASE ~(i <= Len(s))
    <3>1. i \notin 1 .. Len(s) /\ i - Len(s) \in 1 .. Len(u)
      BY <1>1, <2>2
    <3>2. w[i] = u[i - Len(s)]
      BY <1>1, <1>2, <2>2
    <3> QED BY <3>1, <3>2
  <2> QED BY <2>1, <2>2
<1>7. DOMAIN s = 1 .. Len(s) /\ DOMAIN u = 1 .. Len(u)
  BY LenProperties
<1> HIDE DEF Strings
<1>8. Strings(s, u, w)
  BY <1>1, <1>2, <1>3, <1>4, <1>5, <1>6, <1>7 DEF Strings
<1> QED BY <1>1, <1>2, <1>8

(* The nodes after a step of a visit *)
Adds(N, b, first, new, M) ==
  /\ Len(N) \in Nat /\ Len(new) \in Nat
  /\ DOMAIN N = 1 .. Len(N) /\ DOMAIN M = 1 .. Len(N) + Len(new)
  /\ \A n \in 1 .. Len(N) : /\ M[n].kind = N[n].kind
                            /\ n # b => M[n] = N[n]
                            /\ n = b => M[n].t = first /\ M[n].f = first
  /\ \A j \in 1 .. Len(new) : M[Len(N) + j] = new[j]

(* A node that begins at the first of new nodes, node by node.             *)
LEMMA BegunIs ==
  ASSUME Shape, NEW R, NEW new \in Seq(R), NEW b \in 1 .. Len(nodes), NEW first,
         NEW M, M = Begun(b, first, new)
  PROVE  Adds(nodes, b, first, new, M)
<1> DEFINE old == [nodes EXCEPT ![b].t = first, ![b].f = first]
<1> DEFINE T == R \cup {old[n] : n \in 1 .. Len(nodes)}
<1>1. /\ Len(nodes) \in Nat /\ Len(new) \in Nat /\ DOMAIN nodes = 1 .. Len(nodes)
      /\ \A n \in 1 .. Len(nodes) : nodes[n] \in NodeUpTo(Len(nodes))
  BY LenProperties, ElementOfSeq DEF Shape
<1>2. /\ DOMAIN old = 1 .. Len(nodes)
      /\ \A n \in 1 .. Len(nodes) : old[n] =
              IF n = b THEN [nodes[n] EXCEPT !.t = first, !.f = first] ELSE nodes[n]
  BY <1>1
<1>3. \A n \in 1 .. Len(nodes) : /\ old[n].kind = nodes[n].kind
                                 /\ n # b => old[n] = nodes[n]
                                 /\ n = b => old[n].t = first /\ old[n].f = first
  BY <1>1, <1>2 DEF NodeUpTo
<1>4. old = [n \in 1 .. Len(nodes) |-> old[n]]
  BY <1>2
<1> HIDE DEF old
<1>5. old \in Seq(T) /\ Len(old) = Len(nodes)
  BY <1>1, <1>4
<1>6. new \in Seq(T)
  <2>1. R \subseteq T
    OBVIOUS
  <2> HIDE DEF T
  <2> QED BY <2>1, SeqMonotonic
<1>7. M = old \o new
  BY DEF Begun, old
<1> HIDE DEF T
<1>9. /\ DOMAIN M = 1 .. Len(nodes) + Len(new)
      /\ \A n \in 1 .. Len(nodes) : M[n] = old[n]
      /\ \A j \in 1 .. Len(new) : M[Len(nodes) + j] = new[j]
  <2>1. Strings(old, new, M)
    BY <1>5, <1>6, <1>7, ConcatIs, Zenon
  <2> QED BY <1>5, <2>1 DEF Strings
<1> QED BY <1>1, <1>3, <1>9, LenProperties DEF Adds

-----------------------------------------------------------------------------
(* The call under way is made: it leaves nodes behind and makes calls that *)
(* start from new ones.                                                    *)
Enters(f, N, M, W, inner) ==
  /\ \A i \in 1 .. Len(inner) : /\ CallOk(f, M, inner[i])
                                /\ inner[i].begin \notin DOMAIN N /\ M[inner[i].begin].t = 0
  /\ \A i, j \in 1 .. Len(inner) : inner[i].begin = inner[j].begin => i = j
  /\ \A i \in 1 .. Len(inner) : inner[i].do = "iterate" =>
       \E c, b : /\ IterationOf(f, M, W, c, inner[i], b) /\ b \notin DOMAIN N
                /\ \A l \in i .. Len(inner) : inner[l].begin # b

(* The call under way is laid, and calls for its parts take its place.     *)
LEMMA LayStep ==
  ASSUME NEW f, NEW N, NEW M, NEW V, NEW S, NEW A \in Seq(S), NEW inner \in Seq(S), A # <<>>,
         Lays(f, N, V, A), DOMAIN N \subseteq DOMAIN M,
         \A n \in DOMAIN N : M[n].kind = N[n].kind /\ (n # Head(A).begin => M[n] = N[n]),
         Enters(f, N, M, V \cup Items(inner), inner), Laid(f, M, V \cup Items(inner), Head(A))
  PROVE  Lays(f, M, V \cup Items(inner), inner \o Tail(A))
<1> DEFINE W == V \cup Items(inner)
           B == inner \o Tail(A)
           b == Head(A).begin
<1>0. /\ \A i \in 1 .. Len(inner) : /\ CallOk(f, M, inner[i])
                                    /\ inner[i].begin \notin DOMAIN N /\ M[inner[i].begin].t = 0
      /\ \A i, j \in 1 .. Len(inner) : inner[i].begin = inner[j].begin => i = j
  BY DEF Enters
<1>1. /\ Head(A) = A[1] /\ Tail(A) \in Seq(S) /\ Len(Tail(A)) = Len(A) - 1
      /\ \A i \in 1 .. Len(Tail(A)) : Tail(A)[i] = A[i + 1]
      /\ Len(A) \in Nat \ {0} /\ Len(inner) \in Nat
  BY HeadTailProperties, EmptySeq, LenProperties
<1>2. /\ Len(B) = Len(inner) + Len(A) - 1
      /\ \A i \in 1 .. Len(B) : \/ i \in 1 .. Len(inner) /\ B[i] = inner[i]
                                \/ /\ i - Len(inner) + 1 \in 2 .. Len(A)
                                   /\ B[i] = A[i - Len(inner) + 1]
      /\ \A i \in 1 .. Len(inner) : i \in 1 .. Len(B) /\ B[i] = inner[i]
      /\ \A i \in 2 .. Len(A) : /\ Len(inner) + (i - 1) \in 1 .. Len(B)
                                /\ B[Len(inner) + (i - 1)] = A[i]
  <2>1. /\ Len(B) = Len(inner) + Len(Tail(A))
        /\ \A i \in 1 .. Len(inner) : B[i] = inner[i]
        /\ \A j \in 1 .. Len(Tail(A)) : B[Len(inner) + j] = Tail(A)[j]
        /\ \A i \in 1 .. Len(inner) + Len(Tail(A)) :
              \/ i \in 1 .. Len(inner) /\ B[i] = inner[i]
              \/ i - Len(inner) \in 1 .. Len(Tail(A)) /\ B[i] = Tail(A)[i - Len(inner)]
    <3>1. Strings(inner, Tail(A), B)
      BY <1>1, ConcatIs, Zenon
    <3> HIDE DEF B
    <3> QED BY <3>1 DEF Strings
  <2> HIDE DEF B
  <2>2. ASSUME NEW i \in 1 .. Len(B) PROVE \/ i \in 1 .. Len(inner) /\ B[i] = inner[i]
                                \/ /\ i - Len(inner) + 1 \in 2 .. Len(A)
                                   /\ B[i] = A[i - Len(inner) + 1]
    <3>1. CASE i - Len(inner) \in 1 .. Len(Tail(A)) /\ B[i] = Tail(A)[i - Len(inner)]
      <4>1. i - Len(inner) + 1 \in 2 .. Len(A)
        BY <1>1, <3>1
      <4> QED BY <1>1, <3>1, <4>1
    <3> QED BY <2>1, <3>1
  <2>3. ASSUME NEW i \in 2 .. Len(A)
        PROVE  /\ Len(inner) + (i - 1) \in 1 .. Len(B)
               /\ B[Len(inner) + (i - 1)] = A[i]
    <3>1. i - 1 \in 1 .. Len(Tail(A)) /\ Len(inner) + (i - 1) \in 1 .. Len(B) /\ i - 1 + 1 = i
      BY <1>1, <2>1
    <3>2. B[Len(inner) + (i - 1)] = Tail(A)[i - 1]
      BY <2>1, <3>1
    <3>3. Tail(A)[i - 1] = A[i]
      BY <1>1, <3>1
    <3> QED BY <3>1, <3>2, <3>3
  <2>4. \A i \in 1 .. Len(inner) : i \in 1 .. Len(B)
    BY <1>1, <2>1
  <2> QED BY <1>1, <2>1, <2>2, <2>3, <2>4
<1>3. /\ \A c \in V : CallOk(f, N, c)
      /\ Root(f) \in V
      /\ BEGIN \in DOMAIN N /\ N[BEGIN].kind = "begin" /\ END \in DOMAIN N /\ N[END] = Through("end", 0, 0)
      /\ \A i \in 1 .. Len(A) : A[i] \in V /\ N[A[i].begin].t = 0
      /\ \A i, j \in 1 .. Len(A) : A[i].begin = A[j].begin => i = j
      /\ \A c \in V : Laid(f, N, V, c) \/ c \in Items(A)
  BY DEF Lays
<1>3a. \A i \in 1 .. Len(A) : A[i].do = "iterate" => BodyFirst(f, N, V, A, i)
  BY DEF Lays
<1>4. A[1] \in V /\ b = A[1].begin /\ N[b].t = 0 /\ b \in DOMAIN N /\ N[b].kind # "end"
  <2>1. 1 \in 1 .. Len(A)
    BY <1>1
  <2>2. A[1] \in V /\ b = A[1].begin /\ N[b].t = 0
    BY <1>1, <1>3, <2>1
  <2> QED BY <1>3, <2>2 DEF CallOk
<1>5. Grows(N, M)
  BY <1>4 DEF Grows
<1>6. \A c \in V : CallOk(f, M, c)
  BY <1>3, <1>5 DEF CallOk, Grows
<1>7. \A c \in W : CallOk(f, M, c)
  BY <1>0, <1>6 DEF Items
<1>8. M[END] = Through("end", 0, 0)
  <2>1. N[END].kind = "end"
    BY <1>3 DEF Through, Node
  <2> QED BY <1>3, <1>4, <2>1
<1>9. ASSUME NEW i \in 2 .. Len(A)
      PROVE  A[i] \in V /\ A[i].begin \in DOMAIN N /\ M[A[i].begin].t = 0
  <2>1. i \in 1 .. Len(A) /\ i # 1 /\ 1 \in 1 .. Len(A)
    BY <1>1
  <2>2. A[i] \in V /\ N[A[i].begin].t = 0 /\ A[i].begin # b
    BY <1>3, <1>4, <2>1
  <2>3. A[i].begin \in DOMAIN N
    BY <1>3, <2>2 DEF CallOk
  <2> QED BY <2>2, <2>3
<1>10. \A i \in 1 .. Len(B) : B[i] \in W /\ M[B[i].begin].t = 0
  <2> HIDE DEF B
  <2>1. \A i \in 1 .. Len(inner) : inner[i] \in W
    BY DEF Items
  <2>2. \A i \in 2 .. Len(A) : A[i] \in W
    BY <1>9
  <2> HIDE DEF W
  <2> TAKE i \in 1 .. Len(B)
  <2>3. CASE i \in 1 .. Len(inner) /\ B[i] = inner[i]
    BY <1>0, <2>1, <2>3
  <2>4. CASE i - Len(inner) + 1 \in 2 .. Len(A) /\ B[i] = A[i - Len(inner) + 1]
    <3> DEFINE p == i - Len(inner) + 1
    <3>1. p \in 2 .. Len(A) /\ B[i] = A[p]
      BY <2>4
    <3> HIDE DEF p
    <3> QED BY <1>9, <2>2, <3>1
  <2> QED BY <1>2, <2>3, <2>4
<1>11. \A i, j \in 1 .. Len(B) : B[i].begin = B[j].begin => i = j
  <2> HIDE DEF B
  <2> SUFFICES ASSUME NEW i \in 1 .. Len(B), NEW j \in 1 .. Len(B), B[i].begin = B[j].begin
               PROVE  i = j
    OBVIOUS
  <2> DEFINE p == i - Len(inner) + 1
             q == j - Len(inner) + 1
  <2>1. CASE i \in 1 .. Len(inner) /\ B[i] = inner[i] /\ j \in 1 .. Len(inner) /\ B[j] = inner[j]
    BY <1>0, <2>1
  <2>2. CASE i \in 1 .. Len(inner) /\ B[i] = inner[i] /\ q \in 2 .. Len(A) /\ B[j] = A[q]
    <3> HIDE DEF q
    <3> QED BY <1>0, <1>9, <2>2
  <2>3. CASE p \in 2 .. Len(A) /\ B[i] = A[p] /\ j \in 1 .. Len(inner) /\ B[j] = inner[j]
    <3> HIDE DEF p
    <3> QED BY <1>0, <1>9, <2>3
  <2>4. CASE p \in 2 .. Len(A) /\ B[i] = A[p] /\ q \in 2 .. Len(A) /\ B[j] = A[q]
    <3>1. p \in 1 .. Len(A) /\ q \in 1 .. Len(A)
      BY <2>4
    <3>2. p = q
      BY <1>3, <2>4, <3>1
    <3> QED BY <1>1, <3>2
  <2> QED BY <1>2, <2>1, <2>2, <2>3, <2>4
<1>12. \A c \in W : Laid(f, M, W, c) \/ c \in Items(B)
  <2> SUFFICES ASSUME NEW c \in W PROVE Laid(f, M, W, c) \/ c \in Items(B)
    OBVIOUS
  <2>0. \A i \in 1 .. Len(B) : B[i] \in Items(B)
    BY DEF Items
  <2>1. CASE c \in Items(inner)
    <3>1. PICK i \in 1 .. Len(inner) : c = inner[i]
      BY <2>1 DEF Items
    <3>2. i \in 1 .. Len(B) /\ B[i] = inner[i]
      BY <1>2
    <3> QED BY <2>0, <3>1, <3>2
  <2>2. CASE c \in V /\ Laid(f, N, V, c)
    <3>1. V \subseteq W
      OBVIOUS
    <3> HIDE DEF W
    <3> QED BY <1>5, <2>2, <3>1, LaidGrows
  <2>3. CASE c \in V /\ c \in Items(A)
    <3>1. PICK i \in 1 .. Len(A) : c = A[i]
      BY <2>3 DEF Items
    <3>2. CASE i = 1
      BY <1>1, <3>1, <3>2
    <3>3. CASE i # 1
      <4>1. i \in 2 .. Len(A)
        BY <1>1, <3>3
      <4>2. Len(inner) + (i - 1) \in 1 .. Len(B) /\ B[Len(inner) + (i - 1)] = A[i]
        BY <1>2, <4>1
      <4> HIDE DEF B
      <4> QED BY <2>0, <3>1, <4>2
    <3> QED BY <3>2, <3>3
  <2> QED BY <1>3, <2>1, <2>2, <2>3
<1>13. BEGIN \in DOMAIN M /\ M[BEGIN].kind = "begin" /\ END \in DOMAIN M /\ Root(f) \in W
  BY <1>3
<1>15. ASSUME NEW i \in 1 .. Len(B), B[i].do = "iterate" PROVE BodyFirst(f, M, W, B, i)
  <2> HIDE DEF B
  <2>1. CASE i \in 1 .. Len(inner) /\ B[i] = inner[i]
    <3>1. PICK c, d : /\ IterationOf(f, M, W, c, inner[i], d) /\ d \notin DOMAIN N
                      /\ \A l \in i .. Len(inner) : inner[l].begin # d
      <4> HIDE DEF W
      <4> QED BY <1>15, <2>1, Zenon DEF Enters, W
    <3>2. ASSUME NEW l \in i .. Len(B) PROVE B[l].begin # d
      <4>1. l \in 1 .. Len(B)
        BY <1>1, <1>2
      <4>2. CASE l \in 1 .. Len(inner) /\ B[l] = inner[l]
        <5>1. l \in i .. Len(inner)
          BY <1>1, <4>2
        <5> QED BY <3>1, <4>2, <5>1
      <4>3. CASE l - Len(inner) + 1 \in 2 .. Len(A) /\ B[l] = A[l - Len(inner) + 1]
        BY <1>9, <3>1, <4>3
      <4> QED BY <1>2, <4>1, <4>2, <4>3
    <3> HIDE DEF W
    <3> QED BY <2>1, <3>1, <3>2, Zenon DEF BodyFirst
  <2>2. CASE i - Len(inner) + 1 \in 2 .. Len(A) /\ B[i] = A[i - Len(inner) + 1]
    <3>1. PICK p : p = i - Len(inner) + 1
      OBVIOUS
    <3>2. p \in 1 .. Len(A) /\ p \in 2 .. Len(A) /\ B[i] = A[p]
      BY <2>2, <3>1
    <3>3. PICK c, d : IterationOf(f, N, V, c, A[p], d) /\ \A l \in p .. Len(A) : A[l].begin # d
      BY <1>3a, <1>15, <3>2, Zenon DEF BodyFirst
    <3>4. IterationOf(f, M, W, c, A[p], d)
      <4>1. V \subseteq W
        OBVIOUS
      <4> HIDE DEF W
      <4> QED BY <1>5, <3>3, <4>1, IterationGrows, Zenon
    <3>5. ASSUME NEW l \in i .. Len(B) PROVE B[l].begin # d
      <4>1. l \in 1 .. Len(B) /\ l \notin 1 .. Len(inner)
        BY <1>1, <1>2, <3>1, <3>2
      <4>2. PICK q : q = l - Len(inner) + 1
        OBVIOUS
      <4>3. q \in 2 .. Len(A) /\ B[l] = A[q]
        BY <1>2, <4>1, <4>2
      <4>4. q \in p .. Len(A)
        BY <1>1, <1>2, <3>1, <3>2, <4>2, <4>3
      <4> QED BY <3>3, <4>3, <4>4
    <3> HIDE DEF W
    <3> QED BY <3>2, <3>4, <3>5, Zenon DEF BodyFirst
  <2> QED BY <1>2, <2>1, <2>2
<1> HIDE DEF W, B
<1>14. Lays(f, M, W, B)
  BY <1>15, <1>7, <1>8, <1>10, <1>11, <1>12, <1>13 DEF Lays
<1> QED BY <1>14 DEF W, B

(* The calls of the call under way, as they are made in the code *)
LEMMA CalledIs ==
  ASSUME NEW c, c.throw = END,
         NEW D, NEW S, NEW B, NEW E, NEW O, NEW N,
         c \in [do : D, stm : S, begin : B, end : E, break : O, continue : N, throw : {END}]
  PROVE  c = Called(c.do, c.stm, c.begin, c.end, c.break, c.continue)
BY DEF Called

Repeated(s, b, e, out, c) == [Inner(s, b, e, out, c) EXCEPT !.do = "iterate"]

(* The calls made for a part, field by field.                              *)
LEMMA VisitIs ==
  ASSUME Top = Called("visit", Top.stm, Top.begin, Top.end, Top.break, Top.continue)
  PROVE  /\ \A s, b, e : Visit(s, b, e) = Like(Top, s, b, e)
         /\ \A s, b, e, out : Switched(s, b, e, out) = Called("visit", s, b, e, out, Top.continue)
         /\ \A s, b, e, out, n : Inner(s, b, e, out, n) = Called("visit", s, b, e, out, n)
         /\ \A s, b, e, out, n : Repeated(s, b, e, out, n) = Called("iterate", s, b, e, out, n)
<1>1. PICK o, i : o = Top.break /\ i = Top.continue
  OBVIOUS
<1>2. ASSUME NEW s, NEW b, NEW e PROVE Visit(s, b, e) = Called("visit", s, b, e, o, i)
  <2>1. PICK c : c = Top
    OBVIOUS
  <2>2. c \in [do : {"visit"}, stm : {c.stm, s}, begin : {c.begin, b}, end : {c.end, e},
               break : {o}, continue : {i}, throw : {END}]
    <3>1. c = Called("visit", c.stm, c.begin, c.end, o, i)
      BY <1>1, <2>1
    <3> QED BY <3>1 DEF Called
  <2>3. PICK w : w = [c EXCEPT !.stm = s, !.begin = b, !.end = e]
    OBVIOUS
  <2>4. w \in [do : {"visit"}, stm : {c.stm, s}, begin : {c.begin, b}, end : {c.end, e},
               break : {o}, continue : {i}, throw : {END}]
    BY <2>2, <2>3
  <2>5. w.stm = s /\ w.begin = b /\ w.end = e
    BY <2>2, <2>3
  <2>6. w = Called("visit", s, b, e, o, i)
    BY <2>4, <2>5 DEF Called
  <2> QED BY <2>1, <2>3, <2>6, Zenon DEF Visit
<1>3. ASSUME NEW s, NEW b, NEW e, NEW out, NEW n
      PROVE  /\ Switched(s, b, e, out) = Called("visit", s, b, e, out, i)
             /\ Inner(s, b, e, out, n) = Called("visit", s, b, e, out, n)
             /\ Repeated(s, b, e, out, n) = Called("iterate", s, b, e, out, n)
  <2>1. PICK c : c = Visit(s, b, e)
    OBVIOUS
  <2>2. c \in [do : {"visit"}, stm : {s}, begin : {b}, end : {e},
               break : {o, out}, continue : {i, n}, throw : {END}]
    BY <1>2, <2>1 DEF Called
  <2>3. PICK w : w = [c EXCEPT !.break = out]
    OBVIOUS
  <2>4. w = Called("visit", s, b, e, out, i)
    <3>1. w \in [do : {"visit"}, stm : {s}, begin : {b}, end : {e},
                 break : {o, out}, continue : {i, n}, throw : {END}]
      BY <2>2, <2>3
    <3>2. w.break = out /\ w.continue = i
      BY <1>2, <2>1, <2>2, <2>3 DEF Called
    <3> QED BY <3>1, <3>2 DEF Called
  <2>5. PICK x : x = [c EXCEPT !.break = out, !.continue = n]
    OBVIOUS
  <2>6. x = Called("visit", s, b, e, out, n)
    <3>1. x \in [do : {"visit"}, stm : {s}, begin : {b}, end : {e},
                 break : {o, out}, continue : {i, n}, throw : {END}]
      BY <2>2, <2>5
    <3>2. x.break = out /\ x.continue = n
      BY <2>2, <2>5
    <3> QED BY <3>1, <3>2 DEF Called
  <2>7. [x EXCEPT !.do = "iterate"] = Called("iterate", s, b, e, out, n)
    BY <2>6 DEF Called
  <2>8. w = Switched(s, b, e, out)
    BY <2>1, <2>3 DEF Switched
  <2>9. x = Inner(s, b, e, out, n)
    BY <2>1, <2>5 DEF Inner
  <2>10. [x EXCEPT !.do = "iterate"] = Repeated(s, b, e, out, n)
    BY <2>9 DEF Repeated
  <2> QED BY <2>4, <2>6, <2>7, <2>8, <2>9, <2>10
<1>4. \A s, b, e : Visit(s, b, e) = Like(Top, s, b, e)
  BY <1>1, <1>2, Zenon DEF Like
<1> QED BY <1>1, <1>3, <1>4

(* What is known of the call under way.                                    *)
LEMMA LayTop ==
  ASSUME Shape, Regular(fn), agenda # <<>>, NEW V, Lays(fn, nodes, V, agenda)
  PROVE  /\ fn \in Functions /\ Top \in V /\ CallOk(fn, nodes, Top) /\ Top = Head(agenda)
         /\ Top = Called(Top.do, Top.stm, Top.begin, Top.end, Top.break, Top.continue)
         /\ Len(nodes) \in Nat /\ Len(nodes) >= 2 /\ DOMAIN nodes = 1 .. Len(nodes)
         /\ Top.begin \in 1 .. Len(nodes) /\ Top.end \in 1 .. Len(nodes)
         /\ Top.stm \in {0} \cup DOMAIN fn.ast
         /\ KindOf(Top.stm) = Kind(fn, Top.stm)
         /\ \A i : Kid(i) = Parts(fn, Top.stm)[i]
<1>1. fn \in Functions /\ Len(nodes) \in Nat /\ Len(nodes) >= 2 /\ DOMAIN nodes = 1 .. Len(nodes)
  BY LenProperties DEF Shape
<1>2. Len(agenda) \in Nat \ {0} /\ Head(agenda) = agenda[1]
  BY EmptySeq, LenProperties, HeadTailProperties DEF Shape
<1>3. 1 \in 1 .. Len(agenda) /\ Top = agenda[1]
  BY <1>2 DEF Top
<1>4. Top \in V
  BY <1>3 DEF Lays
<1>5. CallOk(fn, nodes, Top)
  BY <1>4 DEF Lays
<1>6. KindOf(Top.stm) = Kind(fn, Top.stm)
  BY DEF KindOf, Kind
<1>7. \A i : Kid(i) = Parts(fn, Top.stm)[i]
  BY DEF Kid, Parts, Top
<1> QED BY <1>1, <1>4, <1>5, <1>6, <1>7 DEF CallOk, Top

(* An action that adds the nodes of the call under way, and the calls for  *)
(* its parts, keeps the layout.                                            *)
LEMMA LayVisit ==
  ASSUME Shape, Regular(fn), agenda # <<>>, NEW V, Lays(fn, nodes, V, agenda),
         NEW R, NEW new \in Seq(R), NEW first, NEW Q, NEW inner \in Seq(Q),
         nodes' = Begun(Top.begin, first, new), Calls(inner),
         Enters(fn, nodes, nodes', V \cup Items(inner), inner), Laid(fn, nodes', V \cup Items(inner), Top)
  PROVE  \E W : Lays(fn, nodes', W, agenda')
<1> DEFINE S == Q \cup CallUpTo(Len(nodes))
<1>1. agenda \in Seq(S) /\ inner \in Seq(S)
  <2>1. agenda \in Seq(CallUpTo(Len(nodes)))
    BY DEF Shape
  <2>2. Q \subseteq S /\ CallUpTo(Len(nodes)) \subseteq S
    OBVIOUS
  <2> HIDE DEF S
  <2> QED BY <2>1, <2>2, SeqMonotonic
<1>2. Top.begin \in 1 .. Len(nodes) /\ Top = Head(agenda)
  BY LayTop
<1>3. Adds(nodes, Top.begin, first, new, nodes')
  BY <1>2, BegunIs, Zenon
<1>4. DOMAIN nodes \subseteq DOMAIN nodes'
  BY <1>3 DEF Adds
<1>5. \A n \in DOMAIN nodes : /\ nodes'[n].kind = nodes[n].kind
                              /\ n # Head(agenda).begin => nodes'[n] = nodes[n]
  BY <1>2, <1>3 DEF Adds
<1>7. agenda' = inner \o Tail(agenda)
  BY DEF Calls
<1> HIDE DEF S
<1>8. Lays(fn, nodes', V \cup Items(inner), inner \o Tail(agenda))
  BY <1>1, <1>2, <1>4, <1>5, LayStep, Zenon
<1> QED BY <1>7, <1>8

(* The typing of a call *)
LEMMA CalledOk ==
  ASSUME NEW f, NEW N, NEW do \in {"visit", "iterate"}, NEW s \in {0} \cup DOMAIN f.ast,
         NEW b \in DOMAIN N, N[b].kind \in {"begin", "open", "forward"}, NEW e \in DOMAIN N,
         NEW out, NEW n
  PROVE  CallOk(f, N, Called(do, s, b, e, out, n)) /\ Called(do, s, b, e, out, n).begin = b
BY DEF CallOk, Called

(* The nodes made, field by field.                                         *)
LEMMA NodeParts ==
  /\ \A kind, s, t, f : /\ Node(kind, s, t, f).kind = kind /\ Node(kind, s, t, f).stm = s
                        /\ Node(kind, s, t, f).t = t /\ Node(kind, s, t, f).f = f
  /\ \A kind, s, t : Through(kind, s, t) = Node(kind, s, t, t)
  /\ Forward = Node("forward", 0, 0, 0)
BY DEF Node, Through, Forward

-----------------------------------------------------------------------------
(* No node and no call *)
LEMMA LayNone ==
  ASSUME Shape, Regular(fn), agenda # <<>>, NEW V, Lays(fn, nodes, V, agenda),
         nodes' = Begun(Top.begin, Top.end, <<>>), Calls(<<>>),
         ASSUME NEW W, Goes(nodes', Top.begin, Top.end) PROVE Laid(fn, nodes', W, Top)
  PROVE  \E W : Lays(fn, nodes', W, agenda')
<1>1. PICK new : new = <<>>
  OBVIOUS
<1>2. new \in Seq({0}) /\ Len(new) = 0
  BY <1>1
<1>3. nodes' = Begun(Top.begin, Top.end, new) /\ Calls(new)
  BY <1>1
<1>4. Top.begin \in 1 .. Len(nodes) /\ Top.end \in 1 .. Len(nodes)
  BY LayTop
<1>5. Goes(nodes', Top.begin, Top.end)
  <2>1. Adds(nodes, Top.begin, Top.end, new, nodes')
    BY <1>2, <1>3, <1>4, BegunIs, Zenon
  <2> QED BY <1>2, <1>4, <2>1 DEF Goes, Adds
<1>6. Laid(fn, nodes', V \cup Items(new), Top)
  BY <1>5
<1>7. Enters(fn, nodes, nodes', V \cup Items(new), new)
  BY <1>2 DEF Enters
<1> QED BY <1>2, <1>3, <1>6, <1>7, LayVisit, Zenon

(* Visiting an absent statement or a label of a switch keeps the layout.   *)
LEMMA LayNothing ==
  ASSUME Shape, Regular(fn), NEW V, Lays(fn, nodes, V, agenda), VisitNothing
  PROVE  \E W : Lays(fn, nodes', W, agenda')
<1>1. /\ agenda # <<>> /\ Top.do = "visit" /\ KindOf(Top.stm) \in {"null"} \cup CaseLabel
      /\ nodes' = Begun(Top.begin, Top.end, <<>>) /\ Calls(<<>>)
  BY DEF VisitNothing, Visits, NextIs
<1>2. Kind(fn, Top.stm) \in {"null", "case", "default"}
  BY <1>1, LayTop DEF CaseLabel
<1>3. ASSUME NEW W, Goes(nodes', Top.begin, Top.end) PROVE Laid(fn, nodes', W, Top)
  BY <1>1, <1>2, <1>3 DEF Laid, LaidVisit, Labels
<1> QED BY <1>1, <1>3, LayNone

(* One node and no call *)
LEMMA LayOne ==
  ASSUME Shape, Regular(fn), agenda # <<>>, NEW V, Lays(fn, nodes, V, agenda),
         NEW node, node.t # 0,
         nodes' = Begun(Top.begin, Len(nodes) + 1, <<node>>), Calls(<<>>),
         ASSUME NEW W, NEW x, Goes(nodes', Top.begin, x), x \in DOMAIN nodes', nodes'[x] = node
         PROVE  Laid(fn, nodes', W, Top)
  PROVE  \E W : Lays(fn, nodes', W, agenda')
<1>1. PICK new : new = <<node>>
  OBVIOUS
<1>2. new \in Seq({node}) /\ Len(new) = 1 /\ new[1] = node
  BY <1>1
<1>3. PICK inner : inner = <<>>
  OBVIOUS
<1>4. inner \in Seq({0}) /\ Len(inner) = 0
  BY <1>3
<1>5. nodes' = Begun(Top.begin, Len(nodes) + 1, new) /\ Calls(inner)
  BY <1>1, <1>3
<1>6. Top.begin \in 1 .. Len(nodes)
  BY LayTop
<1>7. Adds(nodes, Top.begin, Len(nodes) + 1, new, nodes')
  BY <1>2, <1>5, <1>6, BegunIs, Zenon
<1>8. /\ Goes(nodes', Top.begin, Len(nodes) + 1)
      /\ Len(nodes) + 1 \in DOMAIN nodes' /\ nodes'[Len(nodes) + 1] = node
  BY <1>2, <1>6, <1>7 DEF Goes, Adds
<1>9. Laid(fn, nodes', V \cup Items(inner), Top)
  BY <1>8
<1>10. Enters(fn, nodes, nodes', V \cup Items(inner), inner)
  BY <1>4 DEF Enters
<1> QED BY <1>2, <1>4, <1>5, <1>9, <1>10, LayVisit, Zenon

(* Visiting break or continue keeps the layout.                            *)
LEMMA LayJump ==
  ASSUME Shape, Visiting, Regular(fn), NEW V, Lays(fn, nodes, V, agenda), VisitJump
  PROVE  \E W : Lays(fn, nodes', W, agenda')
<1>1. /\ agenda # <<>> /\ Top.do = "visit" /\ KindOf(Top.stm) \in {"break", "continue"}
      /\ Top.stm # 0
  BY DEF VisitJump, Visits, NextIs, KindOf
<1>2. PICK out : out = IF KindOf(Top.stm) = "break" THEN Top.break ELSE Top.continue
  OBVIOUS
<1>3. Kind(fn, Top.stm) = KindOf(Top.stm) /\ Top.stm \in DOMAIN fn.ast /\ fn \in Functions
  BY <1>1, LayTop
<1>4. KindOf(Top.stm) \in May(Top.stm)
  BY <1>1, <1>3, StmOk DEF May
<1>5. out # 0
  <2>1. Knows(Top)
    BY <1>1, TopOk
  <2> QED BY <1>1, <1>2, <1>4, <2>1 DEF Knows
<1>6. PICK node : node = Node(KindOf(Top.stm), Top.stm, out, out)
  OBVIOUS
<1>7. node.t # 0 /\ node = Through(KindOf(Top.stm), Top.stm, out)
  BY <1>5, <1>6, NodeParts
<1>8. nodes' = Begun(Top.begin, Len(nodes) + 1, <<node>>) /\ Calls(<<>>)
  BY <1>2, <1>7 DEF VisitJump, Last
<1>9. ASSUME NEW W, NEW x, Goes(nodes', Top.begin, x), x \in DOMAIN nodes', nodes'[x] = node
      PROVE  Laid(fn, nodes', W, Top)
  <2>1. LaidOne(nodes', Top, KindOf(Top.stm), out)
    BY <1>5, <1>6, <1>9 DEF LaidOne, Is
  <2> QED BY <1>1, <1>2, <1>3, <2>1 DEF Laid, LaidVisit, Labels
<1> QED BY <1>1, <1>7, <1>8, <1>9, LayOne

(* A Regular function has no labels but those directly in a switch.        *)
LEMMA LabelOfSwitch ==
  ASSUME fn \in Functions, Regular(fn), NEW s \in DOMAIN fn.ast, Kind(fn, s) \in Labels
  PROVE  OfSwitch(s)
<1> DEFINE PartOf(q) == {r \in DOMAIN fn.ast : \E i \in 1 .. Len(fn.ast[r].kids) : fn.ast[r].kids[i] = q}
<1>1. WellFormed(fn) /\ Comparable(fn) /\ Kind(fn, s) = fn.ast[s].kind
  BY FunctionsAssumption, StmOk DEF Regular
<1>2. s # fn.body
  BY <1>1 DEF WellFormed, Labels
<1>3. PICK r \in DOMAIN fn.ast : PartOf(s) = {r}
  BY <1>1, <1>2 DEF WellFormed, IsTree
<1>4. \A q \in DOMAIN fn.ast : DOMAIN Parts(fn, q) = 1 .. Len(fn.ast[q].kids) /\ Parts(fn, q) = fn.ast[q].kids
  BY StmOk, LenProperties DEF Parts
<1>5. \E j \in DOMAIN Parts(fn, r) : Parts(fn, r)[j] = s
  BY <1>3, <1>4
<1>6. Parent(fn, s) \in DOMAIN fn.ast /\ \E j \in DOMAIN Parts(fn, Parent(fn, s)) : Parts(fn, Parent(fn, s))[j] = s
  BY <1>5, Zenon DEF Parent
<1>7. fn.ast[Parent(fn, s)].kind = "switch"
  <2>1. Kind(fn, Parent(fn, s)) = "switch"
    BY <1>1 DEF Comparable
  <2> QED BY <1>6, <2>1, StmOk
<1>8. PICK p : p = Parent(fn, s)
  OBVIOUS
<1>9. PICK i \in 1 .. Len(fn.ast[p].kids) : fn.ast[p].kids[i] = s
  BY <1>4, <1>6, <1>8
<1>10. i # 1
  <2>1. PartKind(fn, p, 1) = "expr"
    BY <1>6, <1>7, <1>8, StmOk DEF Grammatical
  <2>2. s # 0
    BY StmOk
  <2> QED BY <1>1, <1>9, <2>1, <2>2 DEF PartKind, Labels
<1>11. i \in 2 .. Len(fn.ast[p].kids)
  <2>1. Len(fn.ast[p].kids) \in Nat
    BY <1>6, <1>8, <1>4, StmOk, LenProperties
  <2> QED BY <1>9, <1>10, <2>1
<1> QED BY <1>6, <1>7, <1>8, <1>9, <1>11 DEF OfSwitch

(* Visiting a statement without parts keeps the layout.                    *)
LEMMA LaySimple ==
  ASSUME Shape, Regular(fn), NEW V, Lays(fn, nodes, V, agenda), VisitSimple
  PROVE  \E W : Lays(fn, nodes', W, agenda')
<1>1. /\ agenda # <<>> /\ Top.do = "visit" /\ KindOf(Top.stm) \in Simple /\ Top.stm # 0
  <2>1. /\ agenda # <<>> /\ Top.do = "visit" /\ KindOf(Top.stm) \in Simple \cup CaseLabel
        /\ Top.stm # 0 /\ (KindOf(Top.stm) \in CaseLabel => ~OfSwitch(Top.stm))
    BY DEF VisitSimple, Visits, NextIs, KindOf, Simple, CaseLabel
  <2>2. Kind(fn, Top.stm) = KindOf(Top.stm) /\ Top.stm \in DOMAIN fn.ast /\ fn \in Functions
    BY <2>1, LayTop
  <2>3. KindOf(Top.stm) \notin CaseLabel
    BY <2>1, <2>2, LabelOfSwitch DEF CaseLabel, Labels
  <2> QED BY <2>1, <2>3
<1>2. /\ Kind(fn, Top.stm) = KindOf(Top.stm) /\ Top.stm \in DOMAIN fn.ast /\ fn \in Functions
      /\ Top.end \in 1 .. Len(nodes) /\ Len(nodes) \in Nat
      /\ Top = Called(Top.do, Top.stm, Top.begin, Top.end, Top.break, Top.continue)
  BY <1>1, LayTop
<1>3. ~FoundRecursive(Top.stm) /\ Top.throw = END
  <2>1. fn.ast[Top.stm].callee = "none"
    BY <1>2, StmOk
  <2> QED BY <1>2, <2>1 DEF FoundRecursive, Called
<1>4. PICK kind, next :
        /\ kind = CASE KindOf(Top.stm) = "throw" -> "throw" [] KindOf(Top.stm) = "return" -> "return"
                    [] OTHER -> "stm"
        /\ next = IF KindOf(Top.stm) \in {"throw", "exit", "return"} THEN END ELSE Top.end
  OBVIOUS
<1>5. PICK node : node = Node(kind, Top.stm, next, next)
  OBVIOUS
<1>6. next # 0 /\ node.t # 0
  <2>1. next # 0
    BY <1>2, <1>4 DEF END
  <2> QED BY <1>5, <2>1, NodeParts
<1>7. nodes' = Begun(Top.begin, Len(nodes) + 1, <<node>>) /\ Calls(<<>>)
  <2>1. node = CASE KindOf(Top.stm) = "throw"  -> Through("throw", Top.stm, Top.throw)
          [] KindOf(Top.stm) = "exit"   -> Through("stm", Top.stm, END)
          [] KindOf(Top.stm) = "return" ->
               Through("return", Top.stm, IF FoundRecursive(Top.stm) THEN nodes[BEGIN].t ELSE END)
          [] OTHER -> Node("stm", Top.stm,
                           IF FoundRecursive(Top.stm) THEN nodes[BEGIN].t ELSE Top.end, Top.end)
    BY <1>1, <1>3, <1>4, <1>5 DEF Through, Simple
  <2> QED BY <2>1 DEF VisitSimple, Last
<1>8. ASSUME NEW W, NEW x, Goes(nodes', Top.begin, x), x \in DOMAIN nodes', nodes'[x] = node
      PROVE  Laid(fn, nodes', W, Top)
  <2>1. LaidOne(nodes', Top, kind, next)
    BY <1>5, <1>6, <1>8 DEF LaidOne, Is
  <2>2. Kind(fn, Top.stm) \in {"throw", "exit", "return", "expr", "decl"}
    BY <1>1, <1>2 DEF Simple
  <2> QED BY <1>1, <1>2, <1>4, <2>1, <2>2 DEF Laid, LaidVisit, Labels
<1> QED BY <1>1, <1>6, <1>7, <1>8, LayOne

(* The visit of a statement begins with a step from where it starts. *)
LEMMA LaidGoes ==
  ASSUME NEW f \in Functions, Regular(f), NEW N, NEW V, NEW c, c.stm \in {0} \cup DOMAIN f.ast,
         LaidVisit(f, N, V, c)
  PROVE  \E z : Goes(N, c.begin, z)
<1>1. Kind(f, c.stm) \in Plainly
  <2>1. CASE c.stm = 0
    BY <2>1 DEF Kind, Plainly
  <2>2. CASE c.stm # 0
    BY <2>2, StmOk
  <2> QED BY <2>1, <2>2
<1>2. CASE Kind(f, c.stm) \in {"null"} \cup Labels
  BY <1>2 DEF LaidVisit
<1>3. CASE Kind(f, c.stm) = "if"
  <2>1. LaidIf(f, N, V, c)
    BY <1>3 DEF LaidVisit
  <2> QED BY <2>1, Zenon DEF LaidIf
<1>4. CASE Kind(f, c.stm) = "block"
  <2>1. Goes(N, c.begin, c.end) \/ LaidBlock(f, N, V, c)
    BY <1>4 DEF LaidVisit
  <2> QED BY <2>1, Zenon DEF LaidBlock
<1>5. CASE Kind(f, c.stm) = "for"
  <2>1. LaidFor(f, N, V, c)
    BY <1>5 DEF LaidVisit
  <2> QED BY <2>1, Zenon DEF LaidFor
<1>6. CASE Kind(f, c.stm) \in {"while", "do"}
  <2>1. LaidWhile(f, N, V, c) \/ LaidDo(f, N, V, c)
    BY <1>6 DEF LaidVisit
  <2> QED BY <2>1, Zenon DEF LaidWhile, LaidDo
<1>7. CASE Kind(f, c.stm) = "switch"
  <2>1. LaidSwitch(f, N, V, c)
    BY <1>7 DEF LaidVisit
  <2> QED BY <2>1, Zenon DEF LaidSwitch
<1>8. CASE Kind(f, c.stm) \in {"break", "continue", "return", "throw", "exit", "expr", "decl"}
  <2>1. PICK kind, next : LaidOne(N, c, kind, next)
    BY <1>8 DEF LaidVisit
  <2> QED BY <2>1, Zenon DEF LaidOne
<1> QED BY <1>1, <1>2, <1>3, <1>4, <1>5, <1>6, <1>7, <1>8 DEF Plainly, Labels

(* The iteration of a for, when it is its turn: from its end a step leads  *)
(* to where the body or the condition starts, and another one on from it.  *)
LEMMA IterationTurn ==
  ASSUME Shape, Regular(fn), NEW V, Lays(fn, nodes, V, agenda), agenda # <<>>, Top.do = "iterate"
  PROVE  \E c, i, j, y, b, n, out :
           /\ c.stm \in DOMAIN fn.ast /\ Kind(fn, c.stm) = "for"
           /\ Ring(fn, nodes, V, c, i, j, y, b, n, out)
           /\ Top = Called("iterate", Parts(fn, c.stm)[3], n, j, out, n) /\ nodes[n].t = 0
           /\ Goes(nodes, j, y) /\ \E z : Goes(nodes, y, z)
           /\ LaidVisit(fn, nodes, V, Called("visit", Parts(fn, c.stm)[4], b, n, out, n))
<1>1. /\ 1 \in 1 .. Len(agenda) /\ Top = agenda[1] /\ fn \in Functions
      /\ \A l \in 1 .. Len(agenda) : l \in 1 .. Len(agenda)
  BY EmptySeq, LenProperties, HeadTailProperties, LayTop DEF Shape, Top
<1>2. /\ nodes[Top.begin].t = 0 /\ BodyFirst(fn, nodes, V, agenda, 1)
      /\ \A c \in V : CallOk(fn, nodes, c)
      /\ \A c \in V : Laid(fn, nodes, V, c) \/ c \in Items(agenda)
  BY <1>1 DEF Lays
<1>3. PICK c, b : /\ IterationOf(fn, nodes, V, c, Top, b)
                  /\ \A l \in 1 .. Len(agenda) : agenda[l].begin # b
  BY <1>1, <1>2, Zenon DEF BodyFirst
<1>4. PICK i, j, y, n, out : /\ Ring(fn, nodes, V, c, i, j, y, b, n, out)
                             /\ Top = Called("iterate", Parts(fn, c.stm)[3], n, j, out, n)
  BY <1>3, Zenon DEF IterationOf
<1>5. c.stm \in DOMAIN fn.ast /\ Kind(fn, c.stm) = "for"
  BY <1>3 DEF IterationOf
<1>6. PICK body : body = Called("visit", Parts(fn, c.stm)[4], b, n, out, n)
  OBVIOUS
<1>7. body.do = "visit" /\ body.begin = b /\ body \in V
  BY <1>4, <1>6 DEF Ring, Called
<1>8. body \notin Items(agenda)
  BY <1>3, <1>7 DEF Items
<1>9. LaidVisit(fn, nodes, V, body) /\ body.stm \in {0} \cup DOMAIN fn.ast
  BY <1>2, <1>7, <1>8 DEF Laid, CallOk
<1>10. PICK x : Goes(nodes, b, x)
  BY <1>1, <1>7, <1>9, LaidGoes
<1>11. Goes(nodes, j, y)
  <2>1. Is(nodes, j, "forward", 0, y, y)
    BY <1>4 DEF Ring
  <2> QED BY <2>1, NodeParts DEF Is, Goes
<1>12. \E z : Goes(nodes, y, z)
  <2>1. CASE Kind(fn, Parts(fn, c.stm)[2]) = "null"
    BY <1>4, <1>10, <2>1 DEF Ring
  <2>2. CASE Kind(fn, Parts(fn, c.stm)[2]) # "null"
    <3>1. Is(nodes, y, "cond", Parts(fn, c.stm)[2], b, out)
      BY <1>4, <2>2 DEF Ring
    <3>2. Goes(nodes, y, b)
      BY <3>1, NodeParts DEF Is, Goes
    <3> QED BY <3>2
  <2> QED BY <2>1, <2>2
<1>13. nodes[n].t = 0
  BY <1>2, <1>4 DEF Called
<1> QED BY <1>4, <1>5, <1>6, <1>9, <1>11, <1>12, <1>13, Zenon

(* Visiting the iteration of a for keeps the layout.                       *)
LEMMA LayIterate ==
  ASSUME Shape, Regular(fn), NEW V, Lays(fn, nodes, V, agenda), Iterate
  PROVE  \E W : Lays(fn, nodes', W, agenda')
<1>1. /\ agenda # <<>> /\ Top.do = "iterate"
      /\ nodes' = IF KindOf(Top.stm) = "null" THEN Begun(Top.begin, Top.end, <<>>)
                  ELSE Begun(Top.begin, Len(nodes) + 1, <<Through("stm", Top.stm, Top.end)>>)
      /\ Calls(<<>>)
  BY DEF Iterate, NextIs, Last
<1>2. /\ Kind(fn, Top.stm) = KindOf(Top.stm) /\ Top.end \in 1 .. Len(nodes) /\ Len(nodes) \in Nat
  BY <1>1, LayTop
<1>5. Escapes(nodes', Top)
  <2>1. PICK c, i, j, y, b, n, out :
           /\ c.stm \in DOMAIN fn.ast /\ Kind(fn, c.stm) = "for"
           /\ Ring(fn, nodes, V, c, i, j, y, b, n, out)
           /\ Top = Called("iterate", Parts(fn, c.stm)[3], n, j, out, n) /\ nodes[n].t = 0
           /\ Goes(nodes, j, y) /\ \E z : Goes(nodes, y, z)
           /\ LaidVisit(fn, nodes, V, Called("visit", Parts(fn, c.stm)[4], b, n, out, n))
    BY <1>1, IterationTurn, Zenon
  <2>2. PICK z : Goes(nodes, y, z)
    BY <2>1
  <2>3. Top.end = j /\ Top.begin = n
    BY <2>1 DEF Called
  <2>4. z # Top.begin
    BY <2>1, <2>2, <2>3 DEF Iterate, Endless, Goes
  <2>5. PICK R, first, new : nodes' = Begun(Top.begin, first, new) /\ new \in Seq(R)
    <3>1. CASE KindOf(Top.stm) = "null"
      <4>1. <<>> \in Seq({0})
        OBVIOUS
      <4> QED BY <1>1, <3>1, <4>1
    <3>2. CASE KindOf(Top.stm) # "null"
      <4>1. <<Through("stm", Top.stm, Top.end)>> \in Seq({Through("stm", Top.stm, Top.end)})
        OBVIOUS
      <4> QED BY <1>1, <3>2, <4>1
    <3> QED BY <3>1, <3>2
  <2>6. Top.begin \in 1 .. Len(nodes)
    BY <1>1, LayTop
  <2>7. Adds(nodes, Top.begin, first, new, nodes')
    BY <2>5, <2>6, BegunIs, Zenon
  <2>8. Grows(nodes, nodes')
    BY <2>1, <2>3, <2>6, <2>7 DEF Adds, Grows
  <2>9. Goes(nodes', j, y) /\ Goes(nodes', y, z)
    BY <2>1, <2>2, <2>8, NodesGrow, Zenon
  <2> QED BY <2>3, <2>4, <2>9, Zenon DEF Escapes
<1>3. CASE KindOf(Top.stm) = "null"
  <2>1. ASSUME NEW W, Goes(nodes', Top.begin, Top.end) PROVE Laid(fn, nodes', W, Top)
    BY <1>1, <1>2, <1>3, <1>5, <2>1 DEF Laid, LaidIterate
  <2> QED BY <1>1, <1>3, <2>1, LayNone
<1>4. CASE KindOf(Top.stm) # "null"
  <2>1. PICK node : node = Node("stm", Top.stm, Top.end, Top.end)
    OBVIOUS
  <2>2. node.t # 0 /\ node = Through("stm", Top.stm, Top.end)
    BY <1>2, <2>1, NodeParts
  <2>3. ASSUME NEW W, NEW x, Goes(nodes', Top.begin, x), x \in DOMAIN nodes', nodes'[x] = node
        PROVE  Laid(fn, nodes', W, Top)
    <3>1. Top.end # 0
      BY <1>2
    <3> QED BY <1>1, <1>2, <1>4, <1>5, <2>1, <2>3, <3>1 DEF Laid, LaidIterate, Is
  <2>4. nodes' = Begun(Top.begin, Len(nodes) + 1, <<node>>)
    BY <1>1, <1>4, <2>2
  <2> QED BY <1>1, <2>2, <2>3, <2>4, LayOne
<1> QED BY <1>3, <1>4

(* The parts of the statement of the call under way *)
LEMMA PartsOk ==
  ASSUME NEW f \in Functions, Regular(f), NEW s \in {0} \cup DOMAIN f.ast, Kind(f, s) # "null"
  PROVE  /\ s \in DOMAIN f.ast /\ s # 0 /\ Len(Parts(f, s)) \in Nat
         /\ Parts(f, s) \in Seq({0} \cup DOMAIN f.ast)
         /\ \A i \in 1 .. Len(Parts(f, s)) : Parts(f, s)[i] \in {0} \cup DOMAIN f.ast
         /\ Kind(f, s) = "if" => Len(Parts(f, s)) = 3
         /\ Kind(f, s) = "for" => Len(Parts(f, s)) = 4
         /\ Kind(f, s) \in {"while", "do"} => Len(Parts(f, s)) = 2
         /\ Kind(f, s) = "switch" => Len(Parts(f, s)) > 0
<1>1. s \in DOMAIN f.ast
  BY DEF Kind
<1>2. /\ s # 0 /\ Kind(f, s) = f.ast[s].kind /\ HasParts(f.ast[s])
      /\ Parts(f, s) \in Seq({0} \cup DOMAIN f.ast)
  BY <1>1, StmOk
<1>3. Len(Parts(f, s)) \in Nat /\ \A i \in 1 .. Len(Parts(f, s)) : Parts(f, s)[i] \in {0} \cup DOMAIN f.ast
  BY <1>2, LenProperties, ElementOfSeq
<1>4. Parts(f, s) = f.ast[s].kids
  BY DEF Parts
<1>5. /\ Kind(f, s) = "if" => Len(Parts(f, s)) = 3
      /\ Kind(f, s) = "for" => Len(Parts(f, s)) = 4
      /\ Kind(f, s) \in {"while", "do"} => Len(Parts(f, s)) = 2
      /\ Kind(f, s) = "switch" => Len(Parts(f, s)) > 0
  BY <1>2, <1>4 DEF HasParts
<1> QED BY <1>1, <1>2, <1>3, <1>5

(* Three nodes *)
LEMMA LayThree ==
  ASSUME Shape, Regular(fn), agenda # <<>>, NEW V, Lays(fn, nodes, V, agenda),
         NEW x, NEW y, NEW z,
         nodes' = Begun(Top.begin, Len(nodes) + 1, <<x, y, z>>)
  PROVE  /\ Len(nodes) \in Nat
         /\ Len(nodes) + 1 \in DOMAIN nodes' /\ nodes'[Len(nodes) + 1] = x
         /\ Len(nodes) + 2 \in DOMAIN nodes' /\ nodes'[Len(nodes) + 2] = y
         /\ Len(nodes) + 3 \in DOMAIN nodes' /\ nodes'[Len(nodes) + 3] = z
         /\ Goes(nodes', Top.begin, Len(nodes) + 1)
         /\ Top.end \in DOMAIN nodes' /\ Top.end # 0
         /\ DOMAIN nodes = 1 .. Len(nodes)
         /\ <<x, y, z>> \in Seq({x, y, z})
<1>1. PICK new : new = <<x, y, z>>
  OBVIOUS
<1>2. new \in Seq({x, y, z}) /\ Len(new) = 3 /\ new[1] = x /\ new[2] = y /\ new[3] = z
  BY <1>1
<1>3. Top.begin \in 1 .. Len(nodes) /\ Top.end \in 1 .. Len(nodes)
  BY LayTop
<1>4. nodes' = Begun(Top.begin, Len(nodes) + 1, new)
  BY <1>1
<1>5. Adds(nodes, Top.begin, Len(nodes) + 1, new, nodes')
  BY <1>2, <1>3, <1>4, BegunIs, Zenon
<1>6. /\ Len(nodes) \in Nat /\ DOMAIN nodes = 1 .. Len(nodes) /\ DOMAIN nodes' = 1 .. Len(nodes) + 3
      /\ \A j \in 1 .. 3 : nodes'[Len(nodes) + j] = new[j]
      /\ nodes'[Top.begin].t = Len(nodes) + 1
  BY <1>2, <1>3, <1>5 DEF Adds
<1>7. Goes(nodes', Top.begin, Len(nodes) + 1)
  BY <1>3, <1>6 DEF Goes
<1> QED BY <1>1, <1>2, <1>3, <1>6, <1>7

(* Visiting an if keeps the layout.                                        *)
LEMMA LayIf ==
  ASSUME Shape, Regular(fn), NEW V, Lays(fn, nodes, V, agenda), VisitIf
  PROVE  \E W : Lays(fn, nodes', W, agenda')
<1> DEFINE k == Len(nodes)
<1>1. /\ agenda # <<>> /\ Top.do = "visit" /\ KindOf(Top.stm) = "if" /\ Top.stm # 0
      /\ nodes' = Begun(Top.begin, k + 1, <<Node("cond", Kid(1), k + 2, k + 3), Forward, Forward>>)
      /\ Calls(<<Visit(Kid(2), k + 2, Top.end), Visit(Kid(3), k + 3, Top.end)>>)
  BY DEF VisitIf, Visits, NextIs, KindOf, Last
<1>2. /\ Kind(fn, Top.stm) = "if" /\ Top.stm \in {0} \cup DOMAIN fn.ast /\ fn \in Functions
      /\ Top = Called("visit", Top.stm, Top.begin, Top.end, Top.break, Top.continue)
      /\ \A i : Kid(i) = Parts(fn, Top.stm)[i]
  BY <1>1, LayTop
<1>3. \A i \in 1 .. 3 : Parts(fn, Top.stm)[i] \in {0} \cup DOMAIN fn.ast
  BY <1>2, PartsOk
<1>4. PICK c : c = Node("cond", Kid(1), k + 2, k + 3)
  OBVIOUS
<1>5. PICK yes, no : yes = Like(Top, Kid(2), k + 2, Top.end) /\ no = Like(Top, Kid(3), k + 3, Top.end)
  OBVIOUS
<1>6. yes = Visit(Kid(2), k + 2, Top.end) /\ no = Visit(Kid(3), k + 3, Top.end)
  BY <1>2, <1>5, VisitIs, Zenon
<1>7. /\ k \in Nat
      /\ k + 1 \in DOMAIN nodes' /\ nodes'[k + 1] = c
      /\ k + 2 \in DOMAIN nodes' /\ nodes'[k + 2] = Forward
      /\ k + 3 \in DOMAIN nodes' /\ nodes'[k + 3] = Forward
      /\ Goes(nodes', Top.begin, k + 1) /\ Top.end \in DOMAIN nodes'
      /\ DOMAIN nodes = 1 .. k /\ <<c, Forward, Forward>> \in Seq({c, Forward})
  <2>1. nodes' = Begun(Top.begin, k + 1, <<c, Forward, Forward>>)
    BY <1>1, <1>4
  <2>2. {c, Forward, Forward} = {c, Forward}
    OBVIOUS
  <2> QED BY <1>1, <2>1, <2>2, LayThree
<1>8. PICK inner : inner = <<yes, no>>
  OBVIOUS
<1>9. /\ inner \in Seq({yes, no}) /\ Len(inner) = 2 /\ inner[1] = yes /\ inner[2] = no
      /\ yes \in Items(inner) /\ no \in Items(inner)
  BY <1>8 DEF Items
<1>10. Forward.kind = "forward" /\ Forward.t = 0
  BY NodeParts
<1>11. /\ CallOk(fn, nodes', yes) /\ yes.begin = k + 2
       /\ CallOk(fn, nodes', no) /\ no.begin = k + 3
  <2>1. Kid(2) \in {0} \cup DOMAIN fn.ast /\ Kid(3) \in {0} \cup DOMAIN fn.ast
    BY <1>2, <1>3
  <2> HIDE DEF k
  <2>2. /\ nodes'[k + 2].kind \in {"begin", "open", "forward"}
        /\ nodes'[k + 3].kind \in {"begin", "open", "forward"}
        /\ "visit" \in {"visit", "iterate"}
    BY <1>7, <1>10
  <2>3. /\ CallOk(fn, nodes', Called("visit", Kid(2), k + 2, Top.end, Top.break, Top.continue))
        /\ CallOk(fn, nodes', Called("visit", Kid(3), k + 3, Top.end, Top.break, Top.continue))
    BY <1>7, <2>1, <2>2, CalledOk, Zenon
  <2>4. yes.begin = k + 2 /\ no.begin = k + 3
    BY <1>5 DEF Called, Like
  <2> QED BY <1>5, <2>3, <2>4, Zenon DEF Like
<1>12. Enters(fn, nodes, nodes', V \cup Items(inner), inner)
  <2>1. yes.do = "visit" /\ no.do = "visit"
    BY <1>5 DEF Called, Like
  <2> QED BY <1>7, <1>9, <1>10, <1>11, <2>1 DEF Enters
<1>13. Laid(fn, nodes', V \cup Items(inner), Top)
  <2>1. Is(nodes', k + 1, "cond", Parts(fn, Top.stm)[1], k + 2, k + 3)
    BY <1>2, <1>4, <1>7 DEF Is
  <2>2. Stands(nodes', k + 2, "forward") /\ Stands(nodes', k + 3, "forward")
    BY <1>7, <1>10 DEF Stands
  <2>3. /\ Like(Top, Parts(fn, Top.stm)[2], k + 2, Top.end) \in V \cup Items(inner)
        /\ Like(Top, Parts(fn, Top.stm)[3], k + 3, Top.end) \in V \cup Items(inner)
    BY <1>2, <1>5, <1>9
  <2> HIDE DEF k
  <2>4. LaidIf(fn, nodes', V \cup Items(inner), Top)
    BY <1>7, <2>1, <2>2, <2>3, Zenon DEF LaidIf
  <2> QED BY <1>1, <1>2, <2>4 DEF Laid, LaidVisit, Labels
<1>14. /\ nodes' = Begun(Top.begin, k + 1, <<c, Forward, Forward>>) /\ Calls(inner)
  BY <1>1, <1>4, <1>6, <1>8
<1> HIDE DEF k
<1> QED BY <1>1, <1>7, <1>9, <1>12, <1>13, <1>14, LayVisit, Zenon

(* Three nodes and a call: while and do *)
LEMMA LayLoop ==
  ASSUME Shape, Regular(fn), agenda # <<>>, NEW V, Lays(fn, nodes, V, agenda),
         NEW x, NEW y, NEW z, NEW call, CallOk(fn, nodes', call), call.do = "visit",
         call.begin \in {Len(nodes) + 1, Len(nodes) + 2}, nodes'[call.begin].t = 0,
         nodes' = Begun(Top.begin, Len(nodes) + 1, <<x, y, z>>), Calls(<<call>>),
         ASSUME NEW W, call \in W PROVE Laid(fn, nodes', W, Top)
  PROVE  \E W : Lays(fn, nodes', W, agenda')
<1>1. PICK inner : inner = <<call>>
  OBVIOUS
<1>2. inner \in Seq({call}) /\ Len(inner) = 1 /\ inner[1] = call /\ call \in Items(inner)
  BY <1>1 DEF Items
<1>3. Len(nodes) \in Nat /\ DOMAIN nodes = 1 .. Len(nodes) /\ <<x, y, z>> \in Seq({x, y, z})
  BY LayThree
<1>4. Enters(fn, nodes, nodes', V \cup Items(inner), inner)
  BY <1>2, <1>3 DEF Enters
<1>5. Laid(fn, nodes', V \cup Items(inner), Top)
  BY <1>2
<1>6. Calls(inner)
  BY <1>1
<1> QED BY <1>2, <1>3, <1>4, <1>5, <1>6, LayVisit, Zenon

(* Visiting a while keeps the layout.                                      *)
LEMMA LayWhile ==
  ASSUME Shape, Regular(fn), NEW V, Lays(fn, nodes, V, agenda), VisitWhile
  PROVE  \E W : Lays(fn, nodes', W, agenda')
<1> DEFINE k == Len(nodes)
<1>1. /\ agenda # <<>> /\ Top.do = "visit" /\ KindOf(Top.stm) = "while"
      /\ nodes' = Begun(Top.begin, k + 1,
           <<Through("forward", 0, k + 3), Forward, Node("cond", Kid(1), k + 2, Top.end)>>)
      /\ Calls(<<Inner(Kid(2), k + 2, k + 1, Top.end, k + 1)>>)
  BY DEF VisitWhile, Visits, NextIs, Last, Inner
<1>2. /\ Kind(fn, Top.stm) = "while" /\ Top.stm \in {0} \cup DOMAIN fn.ast /\ fn \in Functions
      /\ Top = Called("visit", Top.stm, Top.begin, Top.end, Top.break, Top.continue)
      /\ \A i : Kid(i) = Parts(fn, Top.stm)[i]
  BY <1>1, LayTop
<1>3. \A i \in 1 .. 2 : Parts(fn, Top.stm)[i] \in {0} \cup DOMAIN fn.ast
  BY <1>2, PartsOk
<1>4. PICK x, z : /\ x = Node("forward", 0, k + 3, k + 3)
                  /\ z = Node("cond", Parts(fn, Top.stm)[1], k + 2, Top.end)
  OBVIOUS
<1>5. PICK call : call = Called("visit", Parts(fn, Top.stm)[2], k + 2, k + 1, Top.end, k + 1)
  OBVIOUS
<1>6. /\ nodes' = Begun(Top.begin, k + 1, <<x, Forward, z>>) /\ Calls(<<call>>)
  <2>1. x = Through("forward", 0, k + 3) /\ z = Node("cond", Kid(1), k + 2, Top.end)
    BY <1>2, <1>4, NodeParts
  <2>2. call = Inner(Kid(2), k + 2, k + 1, Top.end, k + 1)
    BY <1>2, <1>5, VisitIs
  <2> QED BY <1>1, <2>1, <2>2
<1>7. /\ k \in Nat
      /\ k + 1 \in DOMAIN nodes' /\ nodes'[k + 1] = x
      /\ k + 2 \in DOMAIN nodes' /\ nodes'[k + 2] = Forward
      /\ k + 3 \in DOMAIN nodes' /\ nodes'[k + 3] = z
      /\ Goes(nodes', Top.begin, k + 1)
  BY <1>1, <1>6, LayThree
<1>8. Forward.kind = "forward" /\ Forward.t = 0
  BY NodeParts
<1>9. CallOk(fn, nodes', call) /\ call.do = "visit" /\ call.begin = k + 2
  <2>1. Parts(fn, Top.stm)[2] \in {0} \cup DOMAIN fn.ast
    BY <1>3
  <2> HIDE DEF k
  <2>2. /\ nodes'[k + 2].kind \in {"begin", "open", "forward"} /\ "visit" \in {"visit", "iterate"}
        /\ k + 2 \in DOMAIN nodes' /\ k + 1 \in DOMAIN nodes'
    BY <1>7, <1>8
  <2>3. CallOk(fn, nodes', Called("visit", Parts(fn, Top.stm)[2], k + 2, k + 1, Top.end, k + 1))
    BY <2>1, <2>2, SMT DEF CallOk, Called
  <2>4. call.do = "visit" /\ call.begin = k + 2
    BY <1>5 DEF Called
  <2> QED BY <1>5, <2>3, <2>4, Zenon
<1>10. ASSUME NEW W, call \in W PROVE Laid(fn, nodes', W, Top)
  <2>1. Is(nodes', k + 1, "forward", 0, k + 3, k + 3) /\ Is(nodes', k + 3, "cond", Parts(fn, Top.stm)[1], k + 2, Top.end)
    BY <1>4, <1>7 DEF Is
  <2>2. Stands(nodes', k + 2, "forward")
    BY <1>7, <1>8 DEF Stands
  <2>3. Called("visit", Parts(fn, Top.stm)[2], k + 2, k + 1, Top.end, k + 1) \in W
    BY <1>5, <1>10
  <2> HIDE DEF k
  <2>4. LaidWhile(fn, nodes', W, Top)
    BY <1>7, <2>1, <2>2, <2>3, Zenon DEF LaidWhile
  <2> QED BY <1>1, <1>2, <2>4 DEF Laid, LaidVisit, Labels
<1>11. call.begin \in {k + 1, k + 2} /\ nodes'[call.begin].t = 0
  BY <1>7, <1>8, <1>9
<1> HIDE DEF k
<1>12. k = Len(nodes)
  BY DEF k
<1> QED BY <1>1, <1>6, <1>9, <1>10, <1>11, <1>12, LayLoop

(* Visiting a do keeps the layout.                                         *)
LEMMA LayDo ==
  ASSUME Shape, Regular(fn), NEW V, Lays(fn, nodes, V, agenda), VisitDo
  PROVE  \E W : Lays(fn, nodes', W, agenda')
<1> DEFINE k == Len(nodes)
<1>1. /\ agenda # <<>> /\ Top.do = "visit" /\ KindOf(Top.stm) = "do"
      /\ nodes' = Begun(Top.begin, k + 1,
           <<Forward, Through("forward", 0, k + 3), Node("cond", Kid(1), k + 1, Top.end)>>)
      /\ Calls(<<Inner(Kid(2), k + 1, k + 2, Top.end, k + 2)>>)
  BY DEF VisitDo, Visits, NextIs, Last, Inner
<1>2. /\ Kind(fn, Top.stm) = "do" /\ Top.stm \in {0} \cup DOMAIN fn.ast /\ fn \in Functions
      /\ Top = Called("visit", Top.stm, Top.begin, Top.end, Top.break, Top.continue)
      /\ \A i : Kid(i) = Parts(fn, Top.stm)[i]
  BY <1>1, LayTop
<1>3. \A i \in 1 .. 2 : Parts(fn, Top.stm)[i] \in {0} \cup DOMAIN fn.ast
  BY <1>2, PartsOk
<1>4. PICK y, z : /\ y = Node("forward", 0, k + 3, k + 3)
                  /\ z = Node("cond", Parts(fn, Top.stm)[1], k + 1, Top.end)
  OBVIOUS
<1>5. PICK call : call = Called("visit", Parts(fn, Top.stm)[2], k + 1, k + 2, Top.end, k + 2)
  OBVIOUS
<1>6. /\ nodes' = Begun(Top.begin, k + 1, <<Forward, y, z>>) /\ Calls(<<call>>)
  <2>1. y = Through("forward", 0, k + 3) /\ z = Node("cond", Kid(1), k + 1, Top.end)
    BY <1>2, <1>4, NodeParts
  <2>2. call = Inner(Kid(2), k + 1, k + 2, Top.end, k + 2)
    BY <1>2, <1>5, VisitIs
  <2> QED BY <1>1, <2>1, <2>2
<1>7. /\ k \in Nat
      /\ k + 1 \in DOMAIN nodes' /\ nodes'[k + 1] = Forward
      /\ k + 2 \in DOMAIN nodes' /\ nodes'[k + 2] = y
      /\ k + 3 \in DOMAIN nodes' /\ nodes'[k + 3] = z
      /\ Goes(nodes', Top.begin, k + 1)
  BY <1>1, <1>6, LayThree
<1>8. Forward.kind = "forward" /\ Forward.t = 0
  BY NodeParts
<1>9. CallOk(fn, nodes', call) /\ call.do = "visit" /\ call.begin = k + 1
  <2>1. Parts(fn, Top.stm)[2] \in {0} \cup DOMAIN fn.ast
    BY <1>3
  <2> HIDE DEF k
  <2>2. /\ nodes'[k + 1].kind \in {"begin", "open", "forward"} /\ "visit" \in {"visit", "iterate"}
        /\ k + 1 \in DOMAIN nodes' /\ k + 2 \in DOMAIN nodes'
    BY <1>7, <1>8
  <2>3. CallOk(fn, nodes', Called("visit", Parts(fn, Top.stm)[2], k + 1, k + 2, Top.end, k + 2))
    BY <2>1, <2>2, CalledOk, Zenon
  <2>4. call.do = "visit" /\ call.begin = k + 1
    BY <1>5 DEF Called
  <2> QED BY <1>5, <2>3, <2>4, Zenon
<1>10. ASSUME NEW W, call \in W PROVE Laid(fn, nodes', W, Top)
  <2>1. Is(nodes', k + 2, "forward", 0, k + 3, k + 3) /\ Is(nodes', k + 3, "cond", Parts(fn, Top.stm)[1], k + 1, Top.end)
    BY <1>4, <1>7 DEF Is
  <2>2. Stands(nodes', k + 1, "forward")
    BY <1>7, <1>8 DEF Stands
  <2>3. Called("visit", Parts(fn, Top.stm)[2], k + 1, k + 2, Top.end, k + 2) \in W
    BY <1>5, <1>10
  <2> HIDE DEF k
  <2>4. LaidDo(fn, nodes', W, Top)
    BY <1>7, <2>1, <2>2, <2>3, Zenon DEF LaidDo
  <2> QED BY <1>1, <1>2, <2>4 DEF Laid, LaidVisit, Labels
<1>11. call.begin \in {k + 1, k + 2} /\ nodes'[call.begin].t = 0
  BY <1>7, <1>8, <1>9
<1> HIDE DEF k
<1>12. k = Len(nodes)
  BY DEF k
<1> QED BY <1>1, <1>6, <1>9, <1>10, <1>11, <1>12, LayLoop

(* The nodes that are new *)
LEMMA LayNew ==
  ASSUME Shape, Regular(fn), agenda # <<>>, NEW V, Lays(fn, nodes, V, agenda),
         NEW R, NEW new \in Seq(R), NEW first \in Nat \ {0}, nodes' = Begun(Top.begin, first, new)
  PROVE  /\ Len(nodes) \in Nat /\ DOMAIN nodes = 1 .. Len(nodes) /\ Len(new) \in Nat
         /\ DOMAIN nodes' = 1 .. Len(nodes) + Len(new)
         /\ \A j \in 1 .. Len(new) : nodes'[Len(nodes) + j] = new[j]
         /\ Goes(nodes', Top.begin, first)
         /\ Top.end \in DOMAIN nodes' /\ Top.end \in 1 .. Len(nodes) /\ Top.end # 0
<1>1. Top.begin \in 1 .. Len(nodes) /\ Top.end \in 1 .. Len(nodes)
  BY LayTop
<1>2. Adds(nodes, Top.begin, first, new, nodes')
  BY <1>1, BegunIs, Zenon
<1>3. /\ Len(nodes) \in Nat /\ DOMAIN nodes = 1 .. Len(nodes) /\ Len(new) \in Nat
      /\ DOMAIN nodes' = 1 .. Len(nodes) + Len(new)
      /\ \A j \in 1 .. Len(new) : nodes'[Len(nodes) + j] = new[j]
      /\ nodes'[Top.begin].t = first
  BY <1>1, <1>2 DEF Adds
<1>4. Goes(nodes', Top.begin, first)
  BY <1>1, <1>3 DEF Goes
<1> QED BY <1>1, <1>3, <1>4

(* Visiting a block keeps the layout.                                      *)
LEMMA LayBlock ==
  ASSUME Shape, Regular(fn), NEW V, Lays(fn, nodes, V, agenda), VisitBlock
  PROVE  \E W : Lays(fn, nodes', W, agenda')
<1>1. /\ agenda # <<>> /\ Top.do = "visit" /\ KindOf(Top.stm) = "block" /\ Top.stm # 0
  BY DEF VisitBlock, Visits, NextIs, KindOf
<1>2. /\ Kind(fn, Top.stm) = "block" /\ Top.stm \in {0} \cup DOMAIN fn.ast /\ fn \in Functions
      /\ Top = Called("visit", Top.stm, Top.begin, Top.end, Top.break, Top.continue)
      /\ \A i : Kid(i) = Parts(fn, Top.stm)[i]
  BY <1>1, LayTop
<1>3. PICK kids : kids = Parts(fn, Top.stm)
  OBVIOUS
<1>4. PICK k : k = Len(kids)
  OBVIOUS
<1>5. PICK l : l = Len(nodes)
  OBVIOUS
<1>6. /\ k \in Nat /\ kids \in Seq({0} \cup DOMAIN fn.ast)
      /\ \A i \in 1 .. k : kids[i] \in {0} \cup DOMAIN fn.ast
      /\ kids = fn.ast[Top.stm].kids
  BY <1>2, <1>3, <1>4, PartsOk DEF Parts
<1>7. CASE k = 0
  <2>1. nodes' = Begun(Top.begin, Top.end, <<>>) /\ Calls(<<>>)
    BY <1>4, <1>6, <1>7 DEF VisitBlock
  <2>2. kids = <<>>
    BY <1>4, <1>6, <1>7, EmptySeq
  <2>3. ASSUME NEW W, Goes(nodes', Top.begin, Top.end) PROVE Laid(fn, nodes', W, Top)
    BY <1>1, <1>2, <1>3, <2>2, <2>3 DEF Laid, LaidVisit, Labels
  <2> QED BY <1>1, <2>1, <2>3, LayNone
<1>8. CASE k # 0
  <2>1. PICK p : p = [i \in 0 .. k |-> IF i = 0 THEN l + 1 ELSE IF i = k THEN l + 2 ELSE l + 2 + i]
    OBVIOUS
  <2>2. PICK open, close : open = Through("open", 0, 0) /\ close = Through("close", 0, Top.end)
    OBVIOUS
  <2>3. PICK ends : ends = <<open, close>>
    OBVIOUS
  <2>4. PICK between : between = [i \in 1 .. k - 1 |-> Forward]
    OBVIOUS
  <2>5. PICK inner : inner = [i \in 1 .. k |-> Like(Top, kids[i], p[i - 1], p[i])]
    OBVIOUS
  <2>6. /\ nodes' = Begun(Top.begin, l + 1, ends \o between) /\ Calls(inner)
    <3> DEFINE point(i) == IF i = 0 THEN l + 1 ELSE IF i = k THEN l + 2 ELSE l + 2 + i
    <3>1. /\ nodes' = Begun(Top.begin, l + 1, ends \o between)
          /\ Calls([i \in 1 .. k |-> Visit(kids[i], point(i - 1), point(i))])
      BY <1>4, <1>5, <1>6, <1>8, <2>2, <2>3, <2>4 DEF VisitBlock, Last
    <3>2. \A i \in 1 .. k : point(i - 1) = p[i - 1] /\ point(i) = p[i]
      BY <1>6, <2>1
    <3> HIDE DEF point
    <3>3. \A i \in 1 .. k : Visit(kids[i], point(i - 1), point(i)) = Like(Top, kids[i], p[i - 1], p[i])
      BY <1>2, <3>2, VisitIs
    <3>4. [i \in 1 .. k |-> Visit(kids[i], point(i - 1), point(i))] = inner
      BY <2>5, <3>3
    <3> QED BY <3>1, <3>4
  <2>7. /\ \A i \in 0 .. k : p[i] \in Nat /\ p[i] > l /\ p[i] <= l + 1 + k
        /\ p[0] = l + 1 /\ p[k] = l + 2 /\ \A i \in 1 .. k - 1 : p[i] = l + 2 + i
        /\ l \in Nat
        /\ \A i, j \in 0 .. k : p[i] = p[j] => i = j
    <3>1. l \in Nat
      BY <1>5, <1>1, LayTop
    <3> QED BY <1>6, <1>8, <2>1, <3>1
  <2>8. ends \in Seq({open, close, Forward}) /\ Len(ends) = 2 /\ ends[1] = open /\ ends[2] = close
    BY <2>3
  <2>9. /\ between \in Seq({open, close, Forward}) /\ Len(between) = k - 1
        /\ \A i \in 1 .. k - 1 : between[i] = Forward
    <3>1. k - 1 \in Nat
      BY <1>6, <1>8
    <3> QED BY <2>4, <3>1
  <2>10. PICK new : new = ends \o between
    OBVIOUS
  <2>11. /\ new \in Seq({open, close, Forward}) /\ Len(new) = k + 1
         /\ new[1] = open /\ new[2] = close
         /\ \A i \in 1 .. k - 1 : new[2 + i] = Forward
    <3>1. new \in Seq({open, close, Forward}) /\ Strings(ends, between, new)
      BY <2>8, <2>9, <2>10, ConcatIs, Zenon
    <3>2. Len(new) = 2 + (k - 1) /\ new[1] = ends[1] /\ new[2] = ends[2]
      BY <2>8, <2>9, <3>1 DEF Strings
    <3>3. \A i \in 1 .. k - 1 : new[2 + i] = between[i]
      BY <2>8, <2>9, <3>1 DEF Strings
    <3>4. Len(new) = k + 1
      BY <1>6, <3>2
    <3>5. \A i \in 1 .. k - 1 : new[2 + i] = Forward
      BY <2>9, <3>3
    <3> QED BY <2>8, <3>1, <3>2, <3>4, <3>5
  <2>12. /\ DOMAIN nodes = 1 .. l /\ DOMAIN nodes' = 1 .. l + (k + 1)
         /\ nodes'[l + 1] = open /\ nodes'[l + 2] = close
         /\ \A i \in 1 .. k - 1 : nodes'[l + (2 + i)] = Forward
         /\ Goes(nodes', Top.begin, l + 1) /\ Top.end \in DOMAIN nodes' /\ Top.end # 0
    <3>1. nodes' = Begun(Top.begin, l + 1, new) /\ l + 1 \in Nat \ {0}
      BY <2>6, <2>7, <2>10
    <3>2. /\ DOMAIN nodes = 1 .. Len(nodes)
          /\ DOMAIN nodes' = 1 .. Len(nodes) + Len(new)
          /\ \A j \in 1 .. Len(new) : nodes'[Len(nodes) + j] = new[j]
          /\ Goes(nodes', Top.begin, l + 1)
          /\ Top.end \in DOMAIN nodes' /\ Top.end # 0
      BY <1>1, <2>11, <3>1, LayNew
    <3>3. 1 \in 1 .. k + 1 /\ 2 \in 1 .. k + 1 /\ \A i \in 1 .. k - 1 : 2 + i \in 1 .. k + 1
      BY <1>6, <1>8
    <3> QED BY <1>5, <2>11, <3>2, <3>3
  <2>13. /\ \A i \in 0 .. k : p[i] \in DOMAIN nodes' /\ p[i] \notin DOMAIN nodes
         /\ nodes'[p[0]] = open /\ nodes'[p[k]] = close
         /\ \A i \in 1 .. k - 1 : nodes'[p[i]] = Forward
    <3>1. \A i \in 1 .. k - 1 : p[i] = l + (2 + i)
      BY <2>7
    <3>2. \A i \in 0 .. k : p[i] \in DOMAIN nodes' /\ p[i] \notin DOMAIN nodes
      BY <1>6, <2>7, <2>12
    <3> QED BY <2>7, <2>12, <3>1, <3>2
  <2>14. /\ open.kind = "open" /\ open.t = 0 /\ close = Node("close", 0, Top.end, Top.end)
         /\ Forward.kind = "forward" /\ Forward.t = 0 /\ close.kind = "close"
    BY <2>2, NodeParts
  <2>15. inner \in Seq({inner[i] : i \in 1 .. k}) /\ Len(inner) = k
    <3>1. inner = [i \in 1 .. k |-> inner[i]]
      BY <2>5
    <3> QED BY <1>6, <3>1, SeqOf
  <2>16. ASSUME NEW i \in 1 .. k
         PROVE  /\ CallOk(fn, nodes', inner[i]) /\ inner[i].begin = p[i - 1] /\ inner[i].do = "visit"
                /\ p[i - 1] \notin DOMAIN nodes /\ nodes'[p[i - 1]].t = 0
    <3>1. i - 1 \in 0 .. k /\ i \in 0 .. k /\ (i - 1 = 0 \/ i - 1 \in 1 .. k - 1)
      BY <1>6
    <3>2. /\ nodes'[p[i - 1]].kind \in {"begin", "open", "forward"} /\ nodes'[p[i - 1]].t = 0
          /\ p[i - 1] \in DOMAIN nodes' /\ p[i] \in DOMAIN nodes' /\ p[i - 1] \notin DOMAIN nodes
      BY <2>13, <2>14, <3>1
    <3>3. "visit" \in {"visit", "iterate"} /\ kids[i] \in {0} \cup DOMAIN fn.ast
      BY <1>6
    <3>4. inner[i] = Called("visit", kids[i], p[i - 1], p[i], Top.break, Top.continue)
      BY <2>5 DEF Like
    <3>5. CallOk(fn, nodes', Called("visit", kids[i], p[i - 1], p[i], Top.break, Top.continue))
      BY <3>2, <3>3, CalledOk, Zenon
    <3>6. inner[i].begin = p[i - 1] /\ inner[i].do = "visit"
      BY <3>4 DEF Called
    <3> QED BY <3>2, <3>4, <3>5, <3>6, Zenon
  <2>17. Enters(fn, nodes, nodes', V \cup Items(inner), inner)
    <3>1. \A i, j \in 1 .. k : p[i - 1] = p[j - 1] => i = j
      <4>1. \A i \in 1 .. k : i - 1 \in 0 .. k
        BY <1>6
      <4>2. \A i, j \in 1 .. k : i - 1 = j - 1 => i = j
        BY <1>6
      <4> QED BY <2>7, <4>1, <4>2
    <3> QED BY <2>15, <2>16, <3>1 DEF Enters
  <2>18. Laid(fn, nodes', V \cup Items(inner), Top)
    <3>1. \A i \in 1 .. k : Like(Top, kids[i], p[i - 1], p[i]) \in V \cup Items(inner)
      BY <2>5, <2>15 DEF Items
    <3>2. /\ Goes(nodes', Top.begin, p[0]) /\ Stands(nodes', p[0], "open")
          /\ \A i \in 1 .. k - 1 : Stands(nodes', p[i], "forward")
          /\ Is(nodes', p[k], "close", 0, Top.end, Top.end)
      <4>1. 0 \in 0 .. k /\ k \in 0 .. k /\ \A i \in 1 .. k - 1 : i \in 0 .. k
        BY <1>6
      <4> QED BY <2>7, <2>12, <2>13, <2>14, <4>1 DEF Is, Stands
    <3>3. LaidBlock(fn, nodes', V \cup Items(inner), Top)
      BY <1>3, <1>4, <3>1, <3>2, Zenon DEF LaidBlock
    <3>4. kids # <<>>
      BY <1>4, <1>8
    <3> QED BY <1>1, <1>2, <1>3, <3>3, <3>4 DEF Laid, LaidVisit, Labels
  <2>19. nodes' = Begun(Top.begin, l + 1, new) /\ Calls(inner)
    BY <2>6, <2>10
  <2> QED BY <1>1, <2>11, <2>15, <2>17, <2>18, <2>19, LayVisit, Zenon
<1> QED BY <1>7, <1>8

(* Visiting a for keeps the layout.                                        *)
LEMMA LayFor ==
  ASSUME Shape, Regular(fn), NEW V, Lays(fn, nodes, V, agenda), VisitFor
  PROVE  \E W : Lays(fn, nodes', W, agenda')
<1>1. /\ agenda # <<>> /\ Top.do = "visit" /\ KindOf(Top.stm) = "for" /\ Top.stm # 0
  BY DEF VisitFor, Visits, NextIs, KindOf
<1>2. /\ Kind(fn, Top.stm) = "for" /\ Top.stm \in {0} \cup DOMAIN fn.ast /\ fn \in Functions
      /\ Top = Called("visit", Top.stm, Top.begin, Top.end, Top.break, Top.continue)
      /\ \A i : Kid(i) = Parts(fn, Top.stm)[i]
  BY <1>1, LayTop
<1>3. PICK l : l = Len(nodes)
  OBVIOUS
<1>4. \A i \in 1 .. 4 : Kid(i) \in {0} \cup DOMAIN fn.ast
  BY <1>2, PartsOk
<1>5. KindOf(Kid(2)) = Kind(fn, Kid(2))
  BY DEF KindOf, Kind
<1>6. PICK y : y = IF KindOf(Kid(2)) = "null" THEN l + 4 ELSE l + 7
  OBVIOUS
<1>7. PICK open, to, close :
        open = Through("open", 0, l + 2) /\ to = Through("forward", 0, y) /\ close = Through("close", 0, Top.end)
  OBVIOUS
<1>8. PICK six : six = <<open, Forward, to, Forward, close, Forward>>
  OBVIOUS
<1>9. PICK cond : cond = Node("cond", Kid(2), l + 4, l + 5)
  OBVIOUS
<1>10. PICK test : test = IF KindOf(Kid(2)) = "null" THEN <<>> ELSE <<cond>>
  OBVIOUS
<1>11. PICK init, body, iter :
         /\ init = Called("visit", Kid(1), l + 2, l + 3, l + 5, l + 6)
         /\ body = Called("visit", Kid(4), l + 4, l + 6, l + 5, l + 6)
         /\ iter = Called("iterate", Kid(3), l + 6, l + 3, l + 5, l + 6)
  OBVIOUS
<1>12. /\ nodes' = Begun(Top.begin, l + 1, six \o test)
       /\ Calls(<<init, body, iter>>)
  <2>1. /\ nodes' = Begun(Top.begin, l + 1, six \o test)
        /\ Calls(<<Inner(Kid(1), l + 2, l + 3, l + 5, l + 6), Inner(Kid(4), l + 4, l + 6, l + 5, l + 6),
                   Repeated(Kid(3), l + 6, l + 3, l + 5, l + 6)>>)
    <3>1. CASE KindOf(Kid(2)) = "null"
      BY <1>3, <1>6, <1>7, <1>8, <1>9, <1>10, <3>1 DEF VisitFor, Last, Inner, Repeated
    <3>2. CASE KindOf(Kid(2)) # "null"
      BY <1>3, <1>6, <1>7, <1>8, <1>9, <1>10, <3>2 DEF VisitFor, Last, Inner, Repeated
    <3> QED BY <3>1, <3>2
  <2>2. /\ \A s, b, e, out, n : Inner(s, b, e, out, n) = Called("visit", s, b, e, out, n)
        /\ \A s, b, e, out, n : Repeated(s, b, e, out, n) = Called("iterate", s, b, e, out, n)
    BY <1>2, VisitIs, Zenon
  <2>3. /\ Inner(Kid(1), l + 2, l + 3, l + 5, l + 6) = init
        /\ Inner(Kid(4), l + 4, l + 6, l + 5, l + 6) = body
        /\ Repeated(Kid(3), l + 6, l + 3, l + 5, l + 6) = iter
    BY <1>11, <2>2, Zenon
  <2> QED BY <2>1, <2>3
<1>13. PICK S : S = {open, Forward, to, close, cond}
  OBVIOUS
<1>14. /\ six \in Seq(S) /\ Len(six) = 6 /\ six[1] = open /\ six[2] = Forward /\ six[3] = to
       /\ six[4] = Forward /\ six[5] = close /\ six[6] = Forward
  <2>1. open \in S /\ Forward \in S /\ to \in S /\ close \in S
    BY <1>13
  <2> QED BY <1>8, <2>1
<1>15. test \in Seq(S)
  <2>1. cond \in S
    BY <1>13
  <2>2. CASE KindOf(Kid(2)) = "null"
    BY <1>10, <2>2
  <2>3. CASE KindOf(Kid(2)) # "null"
    BY <1>10, <2>1, <2>3
  <2> QED BY <2>2, <2>3
<1>16. PICK new : new = six \o test
  OBVIOUS
<1>17. /\ new \in Seq(S) /\ Len(new) \in Nat /\ Len(new) >= 6
       /\ new[1] = open /\ new[2] = Forward /\ new[3] = to
       /\ new[4] = Forward /\ new[5] = close /\ new[6] = Forward
       /\ KindOf(Kid(2)) # "null" => Len(new) = 7 /\ new[7] = cond
  <2>1. new \in Seq(S) /\ Strings(six, test, new)
    BY <1>14, <1>15, <1>16, ConcatIs, Zenon
  <2>2. /\ Len(new) \in Nat /\ Len(new) >= 6 /\ \A i \in 1 .. 6 : new[i] = six[i]
        /\ Len(new) = 6 + Len(test) /\ \A j \in 1 .. Len(test) : new[6 + j] = test[j]
    BY <1>14, <2>1 DEF Strings
  <2>3. /\ new[1] = six[1] /\ new[2] = six[2] /\ new[3] = six[3]
        /\ new[4] = six[4] /\ new[5] = six[5] /\ new[6] = six[6]
    BY <2>2
  <2>4. ASSUME KindOf(Kid(2)) # "null" PROVE Len(new) = 7 /\ new[7] = cond
    <3>1. Len(test) = 1 /\ test[1] = cond
      BY <1>10, <2>4
    <3>2. 1 \in 1 .. Len(test) /\ 6 + 1 = 7
      BY <3>1
    <3>3. new[6 + 1] = test[1]
      BY <2>2, <3>2
    <3> QED BY <2>2, <3>1, <3>2, <3>3
  <2> QED BY <1>14, <2>1, <2>2, <2>3, <2>4
<1>18. /\ l \in Nat /\ DOMAIN nodes = 1 .. l /\ Goes(nodes', Top.begin, l + 1)
       /\ Top.end \in DOMAIN nodes' /\ Top.end # 0 /\ Top.end \in 1 .. l
       /\ DOMAIN nodes' = 1 .. l + Len(new)
       /\ \A j \in 1 .. Len(new) : nodes'[l + j] = new[j]
  <2>1. l \in Nat
    BY <1>1, <1>3, LayTop
  <2>2. l + 1 \in Nat \ {0} /\ nodes' = Begun(Top.begin, l + 1, new)
    BY <1>12, <1>16, <2>1
  <2> QED BY <1>1, <1>3, <1>17, <2>2, LayNew
<1>19. /\ l + 1 \in DOMAIN nodes' /\ nodes'[l + 1] = open
       /\ l + 2 \in DOMAIN nodes' /\ nodes'[l + 2] = Forward
       /\ l + 3 \in DOMAIN nodes' /\ nodes'[l + 3] = to
       /\ l + 4 \in DOMAIN nodes' /\ nodes'[l + 4] = Forward
       /\ l + 5 \in DOMAIN nodes' /\ nodes'[l + 5] = close
       /\ l + 6 \in DOMAIN nodes' /\ nodes'[l + 6] = Forward
       /\ KindOf(Kid(2)) # "null" => l + 7 \in DOMAIN nodes' /\ nodes'[l + 7] = cond
  <2>1. /\ 1 \in 1 .. Len(new) /\ 2 \in 1 .. Len(new) /\ 3 \in 1 .. Len(new) /\ 4 \in 1 .. Len(new)
        /\ 5 \in 1 .. Len(new) /\ 6 \in 1 .. Len(new)
        /\ KindOf(Kid(2)) # "null" => 7 \in 1 .. Len(new)
    BY <1>17
  <2> DEFINE Put(j) == l + j \in DOMAIN nodes' /\ nodes'[l + j] = new[j]
  <2>2. \A j \in 1 .. Len(new) : Put(j)
    BY <1>17, <1>18
  <2> HIDE DEF Put
  <2>3. /\ Put(1) /\ Put(2) /\ Put(3) /\ Put(4) /\ Put(5) /\ Put(6)
        /\ KindOf(Kid(2)) # "null" => Put(7)
    BY <2>1, <2>2
  <2> QED BY <1>17, <2>3 DEF Put
<1>20. /\ open = Node("open", 0, l + 2, l + 2) /\ to = Node("forward", 0, y, y)
       /\ close = Node("close", 0, Top.end, Top.end)
       /\ to.kind = "forward" /\ Forward.kind = "forward" /\ Forward.t = 0
  BY <1>7, NodeParts
<1>21. /\ CallOk(fn, nodes', init) /\ init.begin = l + 2
       /\ CallOk(fn, nodes', body) /\ body.begin = l + 4
       /\ CallOk(fn, nodes', iter) /\ iter.begin = l + 6
  <2>1. /\ Kid(1) \in {0} \cup DOMAIN fn.ast /\ Kid(3) \in {0} \cup DOMAIN fn.ast
        /\ Kid(4) \in {0} \cup DOMAIN fn.ast
    BY <1>4
  <2>2. /\ nodes'[l + 2].kind = "forward" /\ nodes'[l + 4].kind = "forward" /\ nodes'[l + 6].kind = "forward"
    BY <1>19, <1>20
  <2> QED BY <1>11, <1>19, <2>1, <2>2 DEF CallOk, Called
<1>22. PICK inner : inner = <<init, body, iter>>
  OBVIOUS
<1>23. /\ inner \in Seq({init, body, iter}) /\ Len(inner) = 3
       /\ inner[1] = init /\ inner[2] = body /\ inner[3] = iter
       /\ init \in Items(inner) /\ body \in Items(inner) /\ iter \in Items(inner)
  BY <1>22 DEF Items
<1>27. Ring(fn, nodes', V \cup Items(inner), Top, l + 2, l + 3, y, l + 4, l + 6, l + 5)
  <2>2. /\ Stands(nodes', l + 2, "forward") /\ Is(nodes', l + 3, "forward", 0, y, y)
        /\ Stands(nodes', l + 4, "forward") /\ Stands(nodes', l + 6, "forward")
        /\ Is(nodes', l + 5, "close", 0, Top.end, Top.end)
    <3>1. y # 0
      BY <1>6, <1>18
    <3> QED BY <1>18, <1>19, <1>20, <3>1 DEF Is, Stands
  <2>3. IF Kind(fn, Parts(fn, Top.stm)[2]) = "null" THEN y = l + 4
        ELSE Is(nodes', y, "cond", Parts(fn, Top.stm)[2], l + 4, l + 5)
    <3>1. Kid(2) = Parts(fn, Top.stm)[2] /\ l + 4 # 0
      BY <1>2, <1>18
    <3> QED BY <1>5, <1>6, <1>9, <1>19, <3>1 DEF Is
  <2>4. /\ Called("visit", Parts(fn, Top.stm)[1], l + 2, l + 3, l + 5, l + 6) \in V \cup Items(inner)
        /\ Called("visit", Parts(fn, Top.stm)[4], l + 4, l + 6, l + 5, l + 6) \in V \cup Items(inner)
        /\ Called("iterate", Parts(fn, Top.stm)[3], l + 6, l + 3, l + 5, l + 6) \in V \cup Items(inner)
    BY <1>2, <1>11, <1>23
  <2> QED BY <2>2, <2>3, <2>4, Zenon DEF Ring
<1>24. Enters(fn, nodes, nodes', V \cup Items(inner), inner)
  <2>1. \A i \in 1 .. 3 : i = 1 \/ i = 2 \/ i = 3
    OBVIOUS
  <2>2. /\ l + 2 \notin DOMAIN nodes /\ l + 4 \notin DOMAIN nodes /\ l + 6 \notin DOMAIN nodes
        /\ l + 2 # l + 4 /\ l + 4 # l + 6 /\ l + 2 # l + 6
    BY <1>18
  <2>5. nodes'[l + 2].t = 0 /\ nodes'[l + 4].t = 0 /\ nodes'[l + 6].t = 0
    BY <1>19, <1>20
  <2>3. ASSUME NEW i \in 1 .. 3 PROVE /\ CallOk(fn, nodes', inner[i])
                                /\ inner[i].begin \notin DOMAIN nodes /\ nodes'[inner[i].begin].t = 0
    BY <1>21, <1>23, <2>1, <2>2, <2>5
  <2>4. ASSUME NEW i \in 1 .. 3, NEW j \in 1 .. 3, inner[i].begin = inner[j].begin PROVE i = j
    BY <1>21, <1>23, <2>1, <2>2, <2>4
  <2>6. init.do = "visit" /\ body.do = "visit"
    BY <1>11 DEF Called
  <2>7. IterationOf(fn, nodes', V \cup Items(inner), Top, iter, l + 4)
    <3>1. iter = Called("iterate", Parts(fn, Top.stm)[3], l + 6, l + 3, l + 5, l + 6)
      BY <1>2, <1>11
    <3>2. Top.stm \in DOMAIN fn.ast
      BY <1>1, <1>2
    <3> QED BY <1>2, <1>27, <3>1, <3>2, Zenon DEF IterationOf
  <2>8. \A k \in 3 .. 3 : inner[k].begin # l + 4
    BY <1>21, <1>23, <2>2
  <2>9. ASSUME NEW i \in 1 .. 3, inner[i].do = "iterate"
        PROVE  \E c, b : /\ IterationOf(fn, nodes', V \cup Items(inner), c, inner[i], b) /\ b \notin DOMAIN nodes
                         /\ \A k \in i .. Len(inner) : inner[k].begin # b
    <3>1. i = 3
      BY <1>23, <2>1, <2>6, <2>9
    <3>2. i .. Len(inner) = 3 .. 3
      BY <1>23, <3>1
    <3> QED BY <1>23, <2>2, <2>7, <2>8, <3>1, <3>2, Zenon
  <2>10. 1 .. Len(inner) = 1 .. 3
    BY <1>23
  <2>11. \A i \in 1 .. Len(inner) : /\ CallOk(fn, nodes', inner[i])
                                   /\ inner[i].begin \notin DOMAIN nodes /\ nodes'[inner[i].begin].t = 0
    BY <2>3, <2>10, Zenon
  <2>12. \A i, j \in 1 .. Len(inner) : inner[i].begin = inner[j].begin => i = j
    BY <2>4, <2>10, Zenon
  <2>13. \A i \in 1 .. Len(inner) : inner[i].do = "iterate" =>
           \E c, b : /\ IterationOf(fn, nodes', V \cup Items(inner), c, inner[i], b) /\ b \notin DOMAIN nodes
                    /\ \A k \in i .. Len(inner) : inner[k].begin # b
    BY <2>9, <2>10, Zenon
  <2> QED BY <2>11, <2>12, <2>13, Zenon DEF Enters
<1>25. Laid(fn, nodes', V \cup Items(inner), Top)
  <2>1. Is(nodes', l + 1, "open", 0, l + 2, l + 2)
    BY <1>18, <1>19, <1>20 DEF Is
  <2>2. LaidFor(fn, nodes', V \cup Items(inner), Top)
    BY <1>18, <2>1, <1>27, Zenon DEF LaidFor
  <2> QED BY <1>1, <1>2, <2>2 DEF Laid, LaidVisit, Labels
<1>26. nodes' = Begun(Top.begin, l + 1, new) /\ Calls(inner)
  BY <1>12, <1>16, <1>22
<1> QED BY <1>1, <1>17, <1>23, <1>24, <1>25, <1>26, LayVisit, Zenon

(* A set of numbers that is not empty has a least one.                     *)
LEMMA Least ==
  ASSUME NEW S \in SUBSET Nat, S # {}
  PROVE  \E n \in S : \A m \in S : n <= m
<1>1. PICK n \in S : \A m \in S : ~ (<<m, n>> \in OpToRel(<, Nat))
  BY WFMin, NatLessThanWellFounded, Zenon
<1>2. \A m \in Nat : m < n => <<m, n>> \in OpToRel(<, Nat)
  BY DEF OpToRel
<1>3. \A m \in S : n <= m
  <2> TAKE m \in S
  <2>1. m \in Nat /\ n \in Nat /\ ~ (m < n)
    BY <1>1, <1>2
  <2> QED BY <2>1
<1> QED BY <1>3

(* A run of labels ends at the first statement that is none. *)
LEMMA RunEndIs ==
  ASSUME NEW f, NEW s, Len(Parts(f, s)) \in Nat, NEW i \in 1 .. Len(Parts(f, s))
  PROVE  /\ RunEnd(f, s, i) \in i .. Len(Parts(f, s)) + 1
         /\ \A l \in i .. RunEnd(f, s, i) - 1 : Kind(f, Parts(f, s)[l]) \in Labels
         /\ RunEnd(f, s, i) <= Len(Parts(f, s)) => Kind(f, Parts(f, s)[RunEnd(f, s, i)]) \notin Labels
<1>1. PICK k : k = Len(Parts(f, s))
  OBVIOUS
<1> DEFINE Label(j) == Kind(f, Parts(f, s)[j]) \in Labels
           Ends(j) == (\A l \in i .. j - 1 : Label(l)) /\ (j <= k => ~Label(j))
           S == {j \in i .. k + 1 : j = k + 1 \/ ~Label(j)}
<1> HIDE DEF Label
<1>2. k \in Nat /\ i \in 1 .. k
  BY <1>1
<1>4. PICK m \in S : \A l \in S : m <= l
  <2>1. S \in SUBSET Nat /\ k + 1 \in S
    BY <1>2
  <2> HIDE DEF S
  <2> QED BY <2>1, Least
<1>5. m \in i .. k + 1 /\ Ends(m)
  <2>1. m \in i .. k + 1 /\ (m <= k => ~Label(m))
    BY <1>2, <1>4
  <2>2. ASSUME NEW l \in i .. m - 1 PROVE Label(l)
    <3>1. l \in i .. k + 1 /\ ~(m <= l) /\ l # k + 1
      BY <1>2, <2>1
    <3> QED BY <1>4, <3>1
  <2> QED BY <2>1, <2>2
<1>6. RunEnd(f, s, i) = CHOOSE j \in i .. k + 1 : Ends(j)
  BY <1>1 DEF RunEnd, Label
<1> HIDE DEF Ends
<1>7. RunEnd(f, s, i) \in i .. k + 1 /\ Ends(RunEnd(f, s, i))
  BY <1>5, <1>6
<1> QED BY <1>1, <1>7 DEF Ends, Label

(* The groups of labels that get a node are the runs that are compared. *)
LEMMA GroupIs ==
  ASSUME Comparable(fn), NEW s \in DOMAIN fn.ast, fn.ast[s].kind = "switch",
         Len(Parts(fn, s)) \in Nat, NEW i \in 2 .. Len(Parts(fn, s))
  PROVE  IsGroup(Parts(fn, s), i) <=> Compared(fn, s, i)
<1>1. PICK kids : kids = Parts(fn, s)
  OBVIOUS
<1>2. PICK k : k = Len(kids)
  OBVIOUS
<1>3. PICK e : e = RunEnd(fn, s, i)
  OBVIOUS
<1>4. k \in Nat /\ i \in 2 .. k /\ i \in 1 .. k
  BY <1>1, <1>2
<1>5. /\ e \in i .. k + 1
      /\ \A l \in i .. e - 1 : Kind(fn, kids[l]) \in Labels
      /\ e <= k => Kind(fn, kids[e]) \notin Labels
  BY <1>1, <1>2, <1>3, <1>4, RunEndIs
<1>6. \A x : KindOf(x) = Kind(fn, x)
  BY DEF KindOf, Kind
<1>7. IsGroup(kids, i) <=>
        /\ Kind(fn, kids[i]) = "case"
        /\ i > 2 => Kind(fn, kids[i - 1]) \notin Labels
        /\ \E j \in i .. k : /\ Kind(fn, kids[j]) \notin Labels
                             /\ \A l \in i .. j - 1 : Kind(fn, kids[l]) = "case"
  BY <1>2, <1>6 DEF IsGroup, CaseLabel, Labels
<1>8. Compared(fn, s, i) <=>
        /\ Kind(fn, kids[i]) \in Labels
        /\ i > 2 => Kind(fn, kids[i - 1]) \notin Labels
        /\ \A j \in i .. e - 1 : Kind(fn, kids[j]) # "default"
  BY <1>1, <1>3 DEF Compared, RunStarts, HasDefault
<1>9. ASSUME IsGroup(kids, i) PROVE Compared(fn, s, i)
  <2>1. PICK j \in i .. k : /\ Kind(fn, kids[j]) \notin Labels
                            /\ \A l \in i .. j - 1 : Kind(fn, kids[l]) = "case"
    BY <1>7, <1>9
  <2>2. e <= j
    BY <1>4, <1>5, <2>1
  <2>3. \A l \in i .. e - 1 : l \in i .. j - 1
    BY <1>4, <1>5, <2>1, <2>2
  <2>4. \A l \in i .. e - 1 : Kind(fn, kids[l]) # "default"
    BY <2>1, <2>3
  <2>5. Kind(fn, kids[i]) \in Labels /\ (i > 2 => Kind(fn, kids[i - 1]) \notin Labels)
    BY <1>7, <1>9 DEF Labels
  <2> QED BY <1>8, <2>4, <2>5
<1>10. ASSUME Compared(fn, s, i) PROVE IsGroup(kids, i)
  <2>1. /\ Kind(fn, kids[i]) \in Labels
        /\ i > 2 => Kind(fn, kids[i - 1]) \notin Labels
        /\ \A j \in i .. e - 1 : Kind(fn, kids[j]) # "default"
    BY <1>8, <1>10
  <2>2. i \in RunStarts(fn, s) /\ ~HasDefault(fn, s, i)
    BY <1>10 DEF Compared
  <2>3. e <= k
    BY <1>1, <1>2, <1>3, <2>2 DEF Comparable
  <2>4. Kind(fn, kids[e]) \notin Labels /\ e # i
    BY <1>5, <2>1, <2>3
  <2>5. e \in i .. k /\ i \in i .. e - 1
    BY <1>4, <1>5, <2>3, <2>4
  <2>6. \A l \in i .. e - 1 : Kind(fn, kids[l]) = "case"
    BY <1>5, <2>1 DEF Labels
  <2> QED BY <1>7, <2>1, <2>4, <2>5, <2>6
<1> QED BY <1>1, <1>9, <1>10

(* Visiting a switch keeps the layout.                                     *)
LEMMA LaySwitch ==
  ASSUME Shape, Regular(fn), NEW V, Lays(fn, nodes, V, agenda), VisitSwitch
  PROVE  \E W : Lays(fn, nodes', W, agenda')
<1>1. /\ agenda # <<>> /\ Top.do = "visit" /\ KindOf(Top.stm) = "switch" /\ Top.stm # 0
  BY DEF VisitSwitch, Visits, NextIs, KindOf
<1>2. /\ Kind(fn, Top.stm) = "switch" /\ Top.stm \in DOMAIN fn.ast /\ fn \in Functions
      /\ fn.ast[Top.stm].kind = "switch"
      /\ Top = Called("visit", Top.stm, Top.begin, Top.end, Top.break, Top.continue)
  <2>1. /\ Kind(fn, Top.stm) = "switch" /\ Top.stm \in DOMAIN fn.ast /\ fn \in Functions
        /\ Top = Called("visit", Top.stm, Top.begin, Top.end, Top.break, Top.continue)
    BY <1>1, LayTop
  <2> QED BY <1>1, <2>1 DEF Kind
<1>3. PICK kids : kids = Parts(fn, Top.stm)
  OBVIOUS
<1>4. PICK k : k = Len(kids)
  OBVIOUS
<1>5. PICK l : l = Len(nodes)
  OBVIOUS
<1>6. /\ k \in Nat \ {0} /\ \A i \in 1 .. k : kids[i] \in {0} \cup DOMAIN fn.ast
      /\ kids = fn.ast[Top.stm].kids /\ l \in Nat
  <2>1. Len(kids) \in Nat /\ Len(kids) > 0 /\ \A i \in 1 .. k : kids[i] \in {0} \cup DOMAIN fn.ast
    BY <1>2, <1>3, <1>4, PartsOk
  <2>2. l \in Nat
    BY <1>1, <1>5, LayTop
  <2> QED BY <1>3, <1>4, <2>1, <2>2 DEF Parts
<1>7. PICK a : a = [i \in 2 .. k + 1 |-> l + 1 + i]
  OBVIOUS
<1>8. PICK r : r = [i \in 2 .. k + 1 |-> l + k + 1 + i]
  OBVIOUS
<1>9. PICK out : out = l + 2
  OBVIOUS
<1> DEFINE defaults == {i \in 2 .. k : Kind(fn, kids[i]) = "default"}
<1>10. PICK d : d = IF defaults = {} THEN out ELSE a[CHOOSE i \in defaults : TRUE]
  OBVIOUS
<1>11. PICK open, close, last, rest :
         /\ open = Through("open", 0, r[2]) /\ close = Through("close", 0, Top.end)
         /\ last = Through("forward", 0, out) /\ rest = Through("forward", 0, d)
  OBVIOUS
<1>12. PICK link : link = [i \in 2 .. k |->
          IF Compared(fn, Top.stm, i) THEN Node("cond", kids[i], a[i], r[i + 1])
          ELSE Through("forward", 0, r[i + 1])]
  OBVIOUS
<1>13. PICK ends : ends = <<open, close>>
  OBVIOUS
<1>14. PICK starts : starts = [i \in 1 .. k |-> IF i = k THEN last ELSE Forward]
  OBVIOUS
<1>15. PICK tries : tries = [i \in 1 .. k |-> IF i = k THEN rest ELSE link[i + 1]]
  OBVIOUS
<1>16. PICK inner : inner = [i \in 1 .. k - 1 |->
          Called("visit", kids[i + 1], a[i + 1], a[i + 2], out, Top.continue)]
  OBVIOUS
<1>17. /\ \A i \in 2 .. k + 1 : a[i] = l + 1 + i /\ r[i] = l + k + 1 + i
       /\ 2 \in 2 .. k + 1 /\ \A i \in 1 .. k - 1 : i + 1 \in 2 .. k /\ i + 1 \in 2 .. k + 1 /\ i + 2 \in 2 .. k + 1
       /\ \A i \in 2 .. k : i \in 2 .. k + 1 /\ i + 1 \in 2 .. k + 1
  BY <1>6, <1>7, <1>8
<1>18. d = IF defaults = {} THEN l + 2 ELSE l + 1 + (CHOOSE i \in defaults : TRUE)
  <2>1. CASE defaults # {}
    <3>1. (CHOOSE i \in defaults : TRUE) \in defaults
      BY <2>1
    <3>2. (CHOOSE i \in defaults : TRUE) \in 2 .. k
      BY <3>1
    <3> HIDE DEF defaults
    <3> QED BY <1>10, <1>17, <2>1, <3>2
  <2> QED BY <1>9, <1>10, <2>1
<1>19. /\ nodes' = Begun(Top.begin, l + 1, ends \o starts \o tries)
       /\ Calls([i \in 1 .. k - 1 |-> Switched(kids[i + 1], l + 1 + (i + 1), l + 1 + (i + 2), l + 2)])
  <2> DEFINE code == [i \in 1 .. k |->
          IF i + 1 = k + 1 THEN Through("forward", 0, d)
          ELSE IF IsGroup(kids, i + 1)
          THEN Node("cond", kids[i + 1], l + 1 + (i + 1), l + k + 1 + (i + 1 + 1))
          ELSE Through("forward", 0, l + k + 1 + (i + 1 + 1))]
  <2>1. d = IF {i \in 2 .. k : KindOf(kids[i]) = "default"} = {} THEN l + 2
            ELSE l + 1 + (CHOOSE i \in {j \in 2 .. k : KindOf(kids[j]) = "default"} : TRUE)
    <3>1. \A x : KindOf(x) = Kind(fn, x)
      BY DEF KindOf, Kind
    <3>2. defaults = {i \in 2 .. k : KindOf(kids[i]) = "default"}
      BY <3>1
    <3> HIDE DEF defaults
    <3> QED BY <1>18, <3>2
  <2>2. /\ nodes' = Begun(Top.begin, l + 1,
              <<Through("open", 0, l + k + 1 + 2), Through("close", 0, Top.end)>>
              \o [i \in 1 .. k |-> IF i = k THEN Through("forward", 0, l + 2) ELSE Forward]
              \o code)
        /\ Calls([i \in 1 .. k - 1 |-> Switched(kids[i + 1], l + 1 + (i + 1), l + 1 + (i + 2), l + 2)])
    BY <1>4, <1>5, <1>6, <2>1 DEF VisitSwitch, Last, Switched
  <2>3. code = tries
    <3>1. ASSUME NEW i \in 1 .. k PROVE code[i] = tries[i]
      <4>1. CASE i = k
        BY <1>11, <1>15, <4>1
      <4>2. CASE i # k
        <5>1. i \in 1 .. k - 1 /\ i + 1 # k + 1
          BY <1>6, <4>2
        <5>2. /\ i + 1 \in 2 .. k /\ a[i + 1] = l + 1 + (i + 1)
              /\ i + 1 + 1 = i + 2 /\ r[i + 2] = l + k + 1 + (i + 2)
          BY <1>17, <5>1
        <5>3. tries[i] = IF Compared(fn, Top.stm, i + 1)
                         THEN Node("cond", kids[i + 1], l + 1 + (i + 1), l + k + 1 + (i + 2))
                         ELSE Through("forward", 0, l + k + 1 + (i + 2))
          BY <1>12, <1>15, <4>2, <5>2
        <5>4. IsGroup(kids, i + 1) <=> Compared(fn, Top.stm, i + 1)
          BY <1>2, <1>3, <1>4, <1>6, <5>2, GroupIs DEF Regular
        <5>5. code[i] = IF IsGroup(kids, i + 1)
                         THEN Node("cond", kids[i + 1], l + 1 + (i + 1), l + k + 1 + (i + 2))
                         ELSE Through("forward", 0, l + k + 1 + (i + 2))
          BY <5>1, <5>2
        <5> QED BY <5>3, <5>4, <5>5
      <4> QED BY <4>1, <4>2
    <3>2. code = [i \in 1 .. k |-> code[i]] /\ tries = [i \in 1 .. k |-> tries[i]]
      BY <1>15
    <3> HIDE DEF code
    <3> QED BY <3>1, <3>2
  <2>4. starts = [i \in 1 .. k |-> IF i = k THEN Through("forward", 0, l + 2) ELSE Forward]
    BY <1>9, <1>11, <1>14
  <2>5. ends = <<Through("open", 0, l + k + 1 + 2), Through("close", 0, Top.end)>>
    BY <1>11, <1>13, <1>17
  <2> HIDE DEF code
  <2> QED BY <2>2, <2>3, <2>4, <2>5
<1>20. Calls(inner)
  <2>1. \A i \in 1 .. k - 1 :
          Switched(kids[i + 1], l + 1 + (i + 1), l + 1 + (i + 2), l + 2) =
          Called("visit", kids[i + 1], a[i + 1], a[i + 2], out, Top.continue)
    <3>1. \A s, b, e, o : Switched(s, b, e, o) = Called("visit", s, b, e, o, Top.continue)
      BY <1>2, VisitIs, Zenon
    <3> QED BY <1>9, <1>17, <3>1
  <2>2. [i \in 1 .. k - 1 |-> Switched(kids[i + 1], l + 1 + (i + 1), l + 1 + (i + 2), l + 2)] = inner
    BY <1>16, <2>1
  <2> QED BY <1>19, <2>2
<1> DEFINE S == {open, close, last, rest, Forward} \cup {link[i] : i \in 2 .. k}
<1>21. ends \in Seq(S) /\ Len(ends) = 2 /\ ends[1] = open /\ ends[2] = close
  <2>1. open \in S /\ close \in S
    OBVIOUS
  <2> HIDE DEF S
  <2> QED BY <1>13, <2>1
<1>22. starts \in Seq(S) /\ Len(starts) = k /\ \A i \in 1 .. k : starts[i] = IF i = k THEN last ELSE Forward
  <2>1. last \in S /\ Forward \in S /\ k \in Nat
    BY <1>6
  <2> HIDE DEF S
  <2>2. starts = [i \in 1 .. k |-> starts[i]] /\ \A i \in 1 .. k : starts[i] \in S
    BY <1>14, <2>1
  <2>3. starts \in Seq(S) /\ Len(starts) = k
    BY <2>1, <2>2, SeqOf
  <2> QED BY <1>14, <2>3
<1>23. tries \in Seq(S) /\ Len(tries) = k /\ \A i \in 1 .. k : tries[i] = IF i = k THEN rest ELSE link[i + 1]
  <2>1. /\ rest \in S /\ k \in Nat /\ \A i \in 1 .. k : i # k => i + 1 \in 2 .. k
        /\ \A i \in 2 .. k : link[i] \in S
    BY <1>6
  <2> HIDE DEF S
  <2>2. tries = [i \in 1 .. k |-> tries[i]] /\ \A i \in 1 .. k : tries[i] \in S
    BY <1>15, <2>1
  <2>3. tries \in Seq(S) /\ Len(tries) = k
    BY <2>1, <2>2, SeqOf
  <2> QED BY <1>15, <2>3
<1> HIDE DEF S
<1>24. PICK some : some = ends \o starts
  OBVIOUS
<1>25. /\ some \in Seq(S) /\ Len(some) = 2 + k /\ some[1] = open /\ some[2] = close
       /\ \A i \in 1 .. k : some[2 + i] = starts[i]
       /\ \A i \in 1 .. 2 + k : i \in 1 .. Len(some)
  <2>1. some \in Seq(S) /\ Strings(ends, starts, some)
    BY <1>21, <1>22, <1>24, ConcatIs, Zenon
  <2>2. /\ Len(some) = 2 + k /\ \A i \in 1 .. 2 : some[i] = ends[i]
        /\ \A i \in 1 .. k : some[2 + i] = starts[i]
    BY <1>21, <1>22, <2>1 DEF Strings
  <2> QED BY <1>21, <2>1, <2>2
<1>26. PICK new : new = some \o tries
  OBVIOUS
<1>27. /\ new \in Seq(S) /\ Len(new) = 2 + k + k /\ new[1] = open /\ new[2] = close
       /\ \A i \in 1 .. k : new[2 + i] = starts[i]
       /\ \A i \in 1 .. k : new[2 + k + i] = tries[i]
  <2>1. new \in Seq(S) /\ Strings(some, tries, new)
    BY <1>23, <1>25, <1>26, ConcatIs, Zenon
  <2>2. /\ Len(new) = 2 + k + k /\ \A i \in 1 .. 2 + k : new[i] = some[i]
        /\ \A i \in 1 .. k : new[2 + k + i] = tries[i]
    BY <1>23, <1>25, <2>1 DEF Strings
  <2>3. 1 \in 1 .. 2 + k /\ 2 \in 1 .. 2 + k /\ \A i \in 1 .. k : 2 + i \in 1 .. 2 + k
    BY <1>6
  <2> QED BY <1>25, <2>1, <2>2, <2>3
<1>28. nodes' = Begun(Top.begin, l + 1, new)
  <2>1. (ends \o starts) \o tries = new
    BY <1>24, <1>26
  <2> QED BY <1>19, <2>1
<1>29. /\ DOMAIN nodes = 1 .. l /\ DOMAIN nodes' = 1 .. l + (2 + k + k)
       /\ nodes'[l + 1] = open /\ nodes'[l + 2] = close
       /\ \A i \in 1 .. k : nodes'[l + (2 + i)] = starts[i]
       /\ \A i \in 1 .. k : nodes'[l + (2 + k + i)] = tries[i]
       /\ Goes(nodes', Top.begin, l + 1) /\ Top.end \in DOMAIN nodes' /\ Top.end # 0
  <2>1. l + 1 \in Nat \ {0}
    BY <1>6
  <2>2. /\ DOMAIN nodes = 1 .. Len(nodes)
        /\ DOMAIN nodes' = 1 .. Len(nodes) + Len(new)
        /\ \A j \in 1 .. Len(new) : nodes'[Len(nodes) + j] = new[j]
        /\ Goes(nodes', Top.begin, l + 1)
        /\ Top.end \in DOMAIN nodes' /\ Top.end # 0
    BY <1>1, <1>27, <1>28, <2>1, LayNew
  <2>3. /\ 1 \in 1 .. 2 + k + k /\ 2 \in 1 .. 2 + k + k
        /\ \A i \in 1 .. k : 2 + i \in 1 .. 2 + k + k /\ 2 + k + i \in 1 .. 2 + k + k
    BY <1>6
  <2> QED BY <1>5, <1>27, <2>2, <2>3
<1>30. /\ open = Node("open", 0, r[2], r[2]) /\ close = Node("close", 0, Top.end, Top.end)
       /\ last = Node("forward", 0, out, out) /\ rest = Node("forward", 0, d, d)
       /\ Forward.kind = "forward" /\ Forward.t = 0 /\ last.kind = "forward"
  BY <1>11, NodeParts
<1>31. /\ \A i \in 2 .. k : a[i] \in DOMAIN nodes' /\ a[i] \notin DOMAIN nodes /\ nodes'[a[i]] = Forward
       /\ a[k + 1] \in DOMAIN nodes' /\ nodes'[a[k + 1]] = last
       /\ \A i \in 2 .. k + 1 : r[i] \in DOMAIN nodes' /\ a[i] \in DOMAIN nodes' /\ r[i] # 0 /\ a[i] # 0
       /\ \A i \in 2 .. k : nodes'[r[i]] = link[i]
       /\ nodes'[r[k + 1]] = rest
       /\ \A i, j \in 2 .. k : a[i] = a[j] => i = j
       /\ out \in DOMAIN nodes' /\ out # 0 /\ nodes'[out] = close
  <2>1. ASSUME NEW i \in 2 .. k + 1
        PROVE  /\ a[i] \in DOMAIN nodes' /\ a[i] \notin DOMAIN nodes /\ a[i] # 0
               /\ r[i] \in DOMAIN nodes' /\ r[i] # 0
               /\ nodes'[a[i]] = IF i = k + 1 THEN last ELSE Forward
               /\ nodes'[r[i]] = IF i = k + 1 THEN rest ELSE link[i]
    <3>1. PICK j : j = i - 1
      OBVIOUS
    <3>2. j \in 1 .. k /\ i = j + 1 /\ (j = k <=> i = k + 1)
      BY <1>6, <3>1
    <3>3. a[i] = l + (2 + j) /\ r[i] = l + (2 + k + j)
      BY <1>6, <1>17, <3>2
    <3>4. nodes'[a[i]] = starts[j] /\ nodes'[r[i]] = tries[j]
      BY <1>29, <3>2, <3>3
    <3>5. starts[j] = (IF i = k + 1 THEN last ELSE Forward) /\ tries[j] = (IF i = k + 1 THEN rest ELSE link[i])
      BY <1>22, <1>23, <3>2
    <3>6. /\ a[i] \in DOMAIN nodes' /\ a[i] \notin DOMAIN nodes /\ a[i] # 0
          /\ r[i] \in DOMAIN nodes' /\ r[i] # 0
      BY <1>6, <1>29, <3>2, <3>3
    <3> QED BY <3>4, <3>5, <3>6
  <2>2. k + 1 \in 2 .. k + 1 /\ \A i \in 2 .. k : i \in 2 .. k + 1 /\ i # k + 1
    BY <1>6
  <2>3. \A i, j \in 2 .. k : a[i] = a[j] => i = j
    BY <1>6, <1>17
  <2>4. out \in DOMAIN nodes' /\ out # 0 /\ nodes'[out] = close
    BY <1>6, <1>9, <1>29
  <2> QED BY <2>1, <2>2, <2>3, <2>4
<1>32. inner \in Seq({inner[i] : i \in 1 .. k - 1}) /\ Len(inner) = k - 1
  <2>1. inner = [i \in 1 .. k - 1 |-> inner[i]] /\ k - 1 \in Nat
    BY <1>6, <1>16
  <2>2. PICK n : n = k - 1
    OBVIOUS
  <2> QED BY <2>1, <2>2, SeqOf
<1>33. ASSUME NEW i \in 1 .. k - 1
       PROVE  /\ CallOk(fn, nodes', inner[i]) /\ inner[i].begin = a[i + 1] /\ inner[i].do = "visit"
              /\ a[i + 1] \notin DOMAIN nodes /\ nodes'[a[i + 1]].t = 0
  <2>1. i + 1 \in 2 .. k /\ i + 2 \in 2 .. k + 1
    BY <1>17
  <2>2. /\ nodes'[a[i + 1]].kind \in {"begin", "open", "forward"} /\ nodes'[a[i + 1]].t = 0
        /\ a[i + 1] \in DOMAIN nodes' /\ a[i + 2] \in DOMAIN nodes' /\ a[i + 1] \notin DOMAIN nodes
    BY <1>30, <1>31, <2>1
  <2>3. "visit" \in {"visit", "iterate"} /\ kids[i + 1] \in {0} \cup DOMAIN fn.ast
    BY <1>6, <2>1
  <2>4. inner[i] = Called("visit", kids[i + 1], a[i + 1], a[i + 2], out, Top.continue)
    BY <1>16
  <2>5. CallOk(fn, nodes', Called("visit", kids[i + 1], a[i + 1], a[i + 2], out, Top.continue))
    BY <2>2, <2>3, CalledOk, Zenon
  <2>6. inner[i].begin = a[i + 1] /\ inner[i].do = "visit"
    BY <2>4 DEF Called
  <2> QED BY <2>2, <2>4, <2>5, <2>6, Zenon
<1>34. Enters(fn, nodes, nodes', V \cup Items(inner), inner)
  <2>1. \A i, j \in 1 .. k - 1 : a[i + 1] = a[j + 1] => i = j
    <3>1. \A i \in 1 .. k - 1 : i + 1 \in 2 .. k
      BY <1>6
    <3>2. \A i, j \in 1 .. k - 1 : i + 1 = j + 1 => i = j
      BY <1>6
    <3> QED BY <1>31, <3>1, <3>2
  <2> QED BY <1>32, <1>33, <2>1 DEF Enters
<1>35. Laid(fn, nodes', V \cup Items(inner), Top)
  <2> DEFINE W == V \cup Items(inner)
  <2>1. ASSUME NEW i \in 2 .. k
        PROVE  /\ Stands(nodes', a[i], "forward")
               /\ Called("visit", kids[i], a[i], a[i + 1], out, Top.continue) \in W
    <3>1. i - 1 \in 1 .. k - 1 /\ i - 1 + 1 = i /\ i - 1 + 2 = i + 1
      BY <1>6
    <3>2. inner[i - 1] = Called("visit", kids[i], a[i], a[i + 1], out, Top.continue)
      BY <1>16, <3>1
    <3>3. inner[i - 1] \in Items(inner)
      BY <1>32, <3>1 DEF Items
    <3>4. Stands(nodes', a[i], "forward")
      BY <1>30, <1>31 DEF Stands
    <3> QED BY <3>2, <3>3, <3>4
  <2>2. ASSUME NEW i \in 2 .. k
        PROVE  IF Compared(fn, Top.stm, i)
               THEN Is(nodes', r[i], "cond", kids[i], a[i], r[i + 1])
               ELSE Is(nodes', r[i], "forward", 0, r[i + 1], r[i + 1])
    <3>1. i \in 2 .. k + 1 /\ i + 1 \in 2 .. k + 1
      BY <1>17
    <3>2. /\ r[i] \in DOMAIN nodes' /\ nodes'[r[i]] = link[i] /\ r[i + 1] # 0 /\ a[i] # 0
      BY <1>31, <3>1
    <3>3. link[i] = IF Compared(fn, Top.stm, i) THEN Node("cond", kids[i], a[i], r[i + 1])
                    ELSE Node("forward", 0, r[i + 1], r[i + 1])
      BY <1>12, NodeParts
    <3> QED BY <3>2, <3>3 DEF Is
  <2>3. /\ Is(nodes', out, "close", 0, Top.end, Top.end)
        /\ Is(nodes', a[k + 1], "forward", 0, out, out)
    BY <1>29, <1>30, <1>31 DEF Is
  <2>4. Is(nodes', r[k + 1], "forward", 0, d, d)
    <3>1. k + 1 \in 2 .. k + 1
      BY <1>6
    <3>2. d # 0
      <4>1. CASE defaults # {}
        <5>1. (CHOOSE i \in defaults : TRUE) \in defaults
          BY <4>1
        <5>2. (CHOOSE i \in defaults : TRUE) \in 2 .. k + 1
          BY <1>17, <5>1
        <5> HIDE DEF defaults
        <5> QED BY <1>10, <1>31, <4>1, <5>2
      <4> QED BY <1>10, <1>31, <4>1
    <3> QED BY <1>30, <1>31, <3>1, <3>2 DEF Is
  <2> HIDE DEF W
  <2>5. Chain(fn, nodes', W, Top, a, r, out)
    BY <1>3, <1>4, <1>10, <2>1, <2>2, <2>3, <2>4, Zenon DEF Chain
  <2>6. Goes(nodes', Top.begin, l + 1) /\ Is(nodes', l + 1, "open", 0, r[2], r[2])
    <3>1. l + 1 \in DOMAIN nodes'
      BY <1>6, <1>29
    <3> QED BY <1>17, <1>29, <1>30, <1>31, <3>1 DEF Is
  <2>7. LaidSwitch(fn, nodes', W, Top)
    BY <2>5, <2>6, Zenon DEF LaidSwitch
  <2>8. Laid(fn, nodes', W, Top)
    BY <1>1, <1>2, <2>7 DEF Laid, LaidVisit, Labels
  <2> QED BY <2>8 DEF W
<1> QED BY <1>1, <1>20, <1>27, <1>28, <1>32, <1>34, <1>35, LayVisit, Zenon

(* The statements of a regular function make the calls of LaidVisit. *)
LEMMA LayIrregular ==
  ASSUME Shape, Regular(fn), NEW V, Lays(fn, nodes, V, agenda),
         VisitLabel \/ VisitTry \/ VisitCatch
  PROVE  FALSE
<1>1. /\ agenda # <<>> /\ Top.stm # 0
      /\ KindOf(Top.stm) \in {"label", "goto", "try", "catch", "catchall"}
  BY DEF VisitLabel, VisitTry, VisitCatch, Visits, NextIs, KindOf
<1>2. /\ Kind(fn, Top.stm) = KindOf(Top.stm) /\ Top.stm \in DOMAIN fn.ast /\ fn \in Functions
  BY <1>1, LayTop
<1>3. Kind(fn, Top.stm) \in Plainly
  BY <1>2, StmOk
<1> QED BY <1>1, <1>2, <1>3 DEF Plainly

(* The construction starts with the call for the function.                 *)
LEMMA LayInit ==
  ASSUME CfgInit
  PROVE  Lays(fn, nodes, {Root(fn)}, agenda)
<1>1. WellFormed(fn)
  BY FunctionsAssumption DEF CfgInit
<1>2. fn.body \in DOMAIN fn.ast
  BY <1>1 DEF WellFormed
<1>3. agenda = <<Root(fn)>>
  BY DEF CfgInit, Root, Called
<1>4. PICK root : root = Root(fn)
  OBVIOUS
<1>5. Len(agenda) = 1 /\ agenda[1] = root /\ Items(agenda) = {root}
  BY <1>3, <1>4 DEF Items
<1>6. PICK begin, end : begin = Through("begin", 0, 0) /\ end = Through("end", 0, 0)
  OBVIOUS
<1>7. nodes = <<begin, end>>
  BY <1>6 DEF CfgInit
<1>8. /\ DOMAIN nodes = 1 .. 2 /\ nodes[1] = begin /\ nodes[2] = end
      /\ begin.kind = "begin" /\ begin.t = 0
  <2>1. begin.kind = "begin" /\ begin.t = 0
    BY <1>6, NodeParts
  <2> QED BY <1>7, <2>1
<1>9. CallOk(fn, nodes, root) /\ root.begin = BEGIN /\ root.do = "visit"
  BY <1>2, <1>4, <1>8 DEF Root, CallOk, Called, BEGIN, END
<1> QED BY <1>4, <1>5, <1>6, <1>8, <1>9 DEF Lays, BEGIN, END

-----------------------------------------------------------------------------
(* What IsTree says of a part of a statement *)
LEMMA PartIs ==
  ASSUME NEW f \in Functions, Regular(f), NEW p \in DOMAIN f.ast,
         NEW i \in 1 .. Len(Parts(f, p)), Parts(f, p)[i] # 0
  PROVE  /\ Parts(f, p)[i] \in DOMAIN f.ast
         /\ Kind(f, p) \notin Leaves
         /\ Kind(f, Parts(f, p)[i]) \in Labels => Kind(f, p) = "switch"
<1> DEFINE PartOf(s) == {q \in DOMAIN f.ast : \E j \in 1 .. Len(f.ast[q].kids) : f.ast[q].kids[j] = s}
<1>1. PICK s : s = Parts(f, p)[i]
  OBVIOUS
<1>2. WellFormed(f) /\ Comparable(f)
  BY FunctionsAssumption DEF Regular
<1>3. s # 0 /\ s \in DOMAIN f.ast
  <2>1. Parts(f, p) \in Seq({0} \cup DOMAIN f.ast)
    BY StmOk
  <2> QED BY <1>1, <2>1, ElementOfSeq
<1>4. \A q \in DOMAIN f.ast : /\ f.ast[q].kind \in Leaves => f.ast[q].kids = <<>>
                              /\ q # f.body => \E r \in DOMAIN f.ast : r < q /\ PartOf(q) = {r}
  BY <1>2 DEF WellFormed, IsTree
<1>5. Kind(f, p) \notin Leaves
  <2>1. Kind(f, p) = f.ast[p].kind
    BY StmOk
  <2>2. Parts(f, p) # <<>>
    OBVIOUS
  <2> QED BY <1>4, <2>1, <2>2 DEF Parts
<1>6. ASSUME Kind(f, s) \in Labels PROVE Kind(f, p) = "switch"
  <2>1. Kind(f, s) = f.ast[s].kind
    BY <1>3 DEF Kind
  <2>2. s # f.body
    BY <1>2, <1>6, <2>1 DEF WellFormed, Labels
  <2>3. PICK r \in DOMAIN f.ast : PartOf(s) = {r}
    BY <1>3, <1>4, <2>2
  <2>4. \E j \in DOMAIN Parts(f, p) : Parts(f, p)[j] = s
    <3>1. DOMAIN Parts(f, p) = 1 .. Len(Parts(f, p))
      BY StmOk, LenProperties
    <3> QED BY <1>1, <3>1
  <2>5. Parent(f, s) \in DOMAIN f.ast /\ \E j \in DOMAIN Parts(f, Parent(f, s)) : Parts(f, Parent(f, s))[j] = s
    BY <2>4, Zenon DEF Parent
  <2>6. \A q \in DOMAIN f.ast : (\E j \in DOMAIN Parts(f, q) : Parts(f, q)[j] = s) => q \in PartOf(s)
    <3>1. \A q \in DOMAIN f.ast : DOMAIN Parts(f, q) = 1 .. Len(Parts(f, q))
      BY StmOk, LenProperties
    <3> QED BY <3>1 DEF Parts
  <2>7. Parent(f, s) = p
    BY <2>3, <2>4, <2>5, <2>6
  <2>8. Kind(f, Parent(f, s)) = "switch"
    BY <1>2, <1>3, <1>6, <2>1 DEF Comparable
  <2> QED BY <2>7, <2>8
<1> QED BY <1>1, <1>3, <1>5, <1>6

(* A statement that leads at once to a node whose successor is to come has *)
(* nothing to do, or it is a do whose body starts there.                   *)
LEMMA LaidAtOnce ==
  ASSUME NEW f \in Functions, Regular(f), NEW N, NEW V, NEW c, c.stm \in {0} \cup DOMAIN f.ast,
         LaidVisit(f, N, V, c), NEW n, Goes(N, c.begin, n), N[n].kind = "forward", N[n].t = 0
  PROVE  \/ Kind(f, c.stm) \in {"null"} \cup Labels
         \/ Kind(f, c.stm) = "block" /\ Parts(f, c.stm) = <<>>
         \/ \E d \in V : d.do = "visit" /\ d.begin = n
<1>1. Kind(f, c.stm) \in Plainly
  <2>1. CASE c.stm = 0
    BY <2>1 DEF Kind, Plainly
  <2>2. CASE c.stm # 0
    BY <2>2, StmOk
  <2> QED BY <2>1, <2>2
<1>2. \A x : Goes(N, c.begin, x) => x = n
  BY DEF Goes
<1>3. \A kind, s, t, e : ~ Is(N, n, kind, s, t, e)
  BY NodeParts DEF Is
<1>4. ASSUME Kind(f, c.stm) = "if" PROVE FALSE
  BY <1>2, <1>3, <1>4, Zenon DEF LaidVisit, LaidIf
<1>5. ASSUME Kind(f, c.stm) = "block", Parts(f, c.stm) # <<>> PROVE FALSE
  <2>1. LaidBlock(f, N, V, c)
    BY <1>5 DEF LaidVisit
  <2>2. \E x : Goes(N, c.begin, x) /\ Stands(N, x, "open")
    BY <2>1 DEF LaidBlock
  <2> QED BY <1>2, <2>2 DEF Stands
<1>6. ASSUME Kind(f, c.stm) = "for" PROVE FALSE
  BY <1>2, <1>3, <1>6, Zenon DEF LaidVisit, LaidFor
<1>7. ASSUME Kind(f, c.stm) = "while" PROVE FALSE
  BY <1>2, <1>3, <1>7, Zenon DEF LaidVisit, LaidWhile
<1>8. ASSUME Kind(f, c.stm) = "do" PROVE \E d \in V : d.do = "visit" /\ d.begin = n
  <2>1. PICK m : Called("visit", Parts(f, c.stm)[2], n, m, c.end, m) \in V
    BY <1>2, <1>8, Zenon DEF LaidVisit, LaidDo
  <2> QED BY <2>1 DEF Called
<1>9. ASSUME Kind(f, c.stm) = "switch" PROVE FALSE
  BY <1>2, <1>3, <1>9, Zenon DEF LaidVisit, LaidSwitch
<1>10. \A kind, next : ~ LaidOne(N, c, kind, next)
  BY <1>2, <1>3, Zenon DEF LaidOne
<1>11. Kind(f, c.stm) \notin {"break", "continue", "return", "throw", "exit", "expr", "decl"}
  BY <1>10 DEF LaidVisit
<1> QED BY <1>1, <1>4, <1>5, <1>6, <1>7, <1>8, <1>9, <1>11 DEF Plainly, Labels

(* The construction fails on a for without condition and body.             *)
LEMMA ForFailsMeans ==
  ASSUME Shape, Regular(fn), NEW V, Lays(fn, nodes, V, agenda), ForFails
  PROVE  EndlessFor(fn)
<1>1. agenda # <<>> /\ Top.do = "iterate" /\ Endless(Top)
  BY DEF ForFails, NextIs
<1>2. PICK c, i, j, y, b, n, out :
           /\ c.stm \in DOMAIN fn.ast /\ Kind(fn, c.stm) = "for"
           /\ Ring(fn, nodes, V, c, i, j, y, b, n, out)
           /\ Top = Called("iterate", Parts(fn, c.stm)[3], n, j, out, n) /\ nodes[n].t = 0
           /\ Goes(nodes, j, y) /\ \E z : Goes(nodes, y, z)
           /\ LaidVisit(fn, nodes, V, Called("visit", Parts(fn, c.stm)[4], b, n, out, n))
  BY <1>1, IterationTurn
<1>3. fn \in Functions /\ Kind(fn, c.stm) # "null" /\ c.stm \in {0} \cup DOMAIN fn.ast
  BY <1>1, <1>2, LayTop
<1>4. Len(Parts(fn, c.stm)) = 4 /\ \A l \in 1 .. 4 : Parts(fn, c.stm)[l] \in {0} \cup DOMAIN fn.ast
  BY <1>2, <1>3, PartsOk
<1>5. PICK s : s = Parts(fn, c.stm)[4]
  OBVIOUS
<1>6. PICK body : body = Called("visit", s, b, n, out, n)
  OBVIOUS
<1>7. /\ body.stm = s /\ body.begin = b /\ s \in {0} \cup DOMAIN fn.ast
      /\ LaidVisit(fn, nodes, V, body)
  BY <1>2, <1>4, <1>5, <1>6 DEF Called
<1>8. Top.begin = n /\ Top.end = j
  BY <1>2 DEF Called
<1>9. Goes(nodes, y, n)
  BY <1>1, <1>2, <1>8 DEF Endless, Goes
<1>10. PICK z : Goes(nodes, b, z)
  BY <1>3, <1>7, LaidGoes
<1>11. b # n
  BY <1>2, <1>10 DEF Goes
<1>12. Kind(fn, Parts(fn, c.stm)[2]) = "null" /\ y = b
  <2>1. ASSUME Is(nodes, y, "cond", Parts(fn, c.stm)[2], b, out) PROVE FALSE
    BY <1>9, <1>11, <2>1, NodeParts DEF Is, Goes
  <2> QED BY <1>2, <2>1 DEF Ring
<1>13. nodes[n].kind = "forward"
  BY <1>2 DEF Ring, Stands
<1>14. \A d \in V : ~ (d.do = "visit" /\ d.begin = n)
  <2> SUFFICES ASSUME NEW d \in V, d.do = "visit", d.begin = n PROVE FALSE
    OBVIOUS
  <2>1. \A k \in 1 .. Len(agenda) : agenda[k].begin = Top.begin => agenda[k] = Top
    <3>1. 1 \in 1 .. Len(agenda) /\ Top = agenda[1]
      BY <1>1, EmptySeq, LenProperties, HeadTailProperties DEF Shape, Top
    <3> QED BY <3>1 DEF Lays
  <2>2. d \notin Items(agenda)
    BY <1>1, <1>8, <2>1 DEF Items
  <2>3. LaidVisit(fn, nodes, V, d) /\ d.stm \in {0} \cup DOMAIN fn.ast
    BY <2>2 DEF Lays, Laid, CallOk
  <2>4. \E x : Goes(nodes, d.begin, x)
    BY <1>3, <2>3, LaidGoes
  <2> QED BY <1>2, <2>4 DEF Goes
<1>15. \/ Kind(fn, s) \in {"null"} \cup Labels
       \/ Kind(fn, s) = "block" /\ Parts(fn, s) = <<>>
  <2>1. Goes(nodes, body.begin, n)
    BY <1>7, <1>9, <1>12
  <2> QED BY <1>2, <1>3, <1>7, <1>13, <1>14, <2>1, LaidAtOnce
<1>16. Kind(fn, s) \notin Labels
  <2>1. CASE s = 0
    BY <2>1 DEF Kind, Labels
  <2>2. CASE s # 0
    <3>1. 4 \in 1 .. Len(Parts(fn, c.stm))
      BY <1>4
    <3>2. Kind(fn, s) \in Labels => Kind(fn, c.stm) = "switch"
      BY <1>2, <1>3, <1>5, <2>2, <3>1, PartIs
    <3> QED BY <1>2, <3>2
  <2> QED BY <2>1, <2>2
<1>17. /\ PartKind(fn, c.stm, 2) = Kind(fn, Parts(fn, c.stm)[2])
       /\ PartKind(fn, c.stm, 4) = Kind(fn, s)
       /\ fn.ast[c.stm].kind = "for" /\ fn.ast[c.stm].kids[4] = s /\ Parts(fn, s) = fn.ast[s].kids
  <2>1. c.stm # 0
    BY <1>2 DEF Kind
  <2> QED BY <1>2, <1>5, <2>1 DEF PartKind, Kind, Parts
<1> QED BY <1>2, <1>12, <1>15, <1>16, <1>17 DEF EndlessFor

(* In the end every statement but expressions and what does nothing has    *)
(* been visited.                                                           *)
LEMMA PartsVisited ==
  ASSUME NEW f \in Functions, Regular(f), NEW N, NEW V, NEW c, c.stm \in DOMAIN f.ast,
         LaidVisit(f, N, V, c), NEW i \in 1 .. Len(Parts(f, c.stm)),
         Kind(f, Parts(f, c.stm)[i]) \notin {"expr", "null"}
  PROVE  \E d \in V : d.do = "visit" /\ d.stm = Parts(f, c.stm)[i]
<1>1. PICK k, s : k = Kind(f, c.stm) /\ s = Parts(f, c.stm)[i]
  OBVIOUS
<1>2. s # 0 /\ s \in DOMAIN f.ast /\ k \notin Leaves /\ k \in Plainly
  <2>1. s # 0
    BY <1>1 DEF Kind
  <2> QED BY <1>1, <2>1, PartIs, StmOk
<1>3. k \in {"if", "block", "for", "while", "do", "switch"}
  BY <1>2 DEF Plainly, Leaves, Simple, CaseLabel
<1>4. \A j : PartKind(f, c.stm, j) = Kind(f, Parts(f, c.stm)[j])
  BY DEF PartKind, Kind, Parts
<1>5. /\ k \in {"if", "while", "do", "switch"} => i # 1
      /\ k = "for" => i # 2 /\ i # 3
  <2>1. Grammatical(f, c.stm) /\ k = f.ast[c.stm].kind
    BY <1>1, StmOk
  <2> QED BY <1>1, <1>4, <2>1 DEF Grammatical
<1>6. \A b, e : Like(c, s, b, e).do = "visit" /\ Like(c, s, b, e).stm = s
  BY DEF Like, Called
<1>7. \A b, e, o, n : Called("visit", s, b, e, o, n).do = "visit" /\ Called("visit", s, b, e, o, n).stm = s
  BY DEF Called
<1>8. /\ k = "if" => Len(Parts(f, c.stm)) = 3
      /\ k = "for" => Len(Parts(f, c.stm)) = 4
      /\ k \in {"while", "do"} => Len(Parts(f, c.stm)) = 2
      /\ Len(Parts(f, c.stm)) \in Nat
  <2>1. k # "null"
    BY <1>3
  <2> QED BY <1>1, <2>1, PartsOk
<1>9. ASSUME k = "if" PROVE \E d \in V : d.do = "visit" /\ d.stm = s
  <2>1. LaidIf(f, N, V, c)
    BY <1>1, <1>9 DEF LaidVisit
  <2>2. i = 2 \/ i = 3
    BY <1>5, <1>8, <1>9
  <2>3. \E b, e : Like(c, s, b, e) \in V
    BY <1>1, <2>1, <2>2, Zenon DEF LaidIf
  <2> QED BY <1>6, <2>3
<1>10. ASSUME k = "block" PROVE \E d \in V : d.do = "visit" /\ d.stm = s
  <2>1. Parts(f, c.stm) # <<>>
    OBVIOUS
  <2>2. LaidBlock(f, N, V, c)
    BY <1>1, <1>10, <2>1 DEF LaidVisit
  <2>3. \E b, e : Like(c, s, b, e) \in V
    BY <1>1, <2>2, Zenon DEF LaidBlock
  <2> QED BY <1>6, <2>3
<1>11. ASSUME k = "for" PROVE \E d \in V : d.do = "visit" /\ d.stm = s
  <2>1. LaidFor(f, N, V, c)
    BY <1>1, <1>11 DEF LaidVisit
  <2>2. i = 1 \/ i = 4
    BY <1>5, <1>8, <1>11
  <2>3. PICK a, j, y, b, n, o : Ring(f, N, V, c, a, j, y, b, n, o)
    BY <2>1, Zenon DEF LaidFor
  <2>4. /\ Called("visit", Parts(f, c.stm)[1], a, j, o, n) \in V
        /\ Called("visit", Parts(f, c.stm)[4], b, n, o, n) \in V
    BY <2>3 DEF Ring
  <2>5. \E x, e : Called("visit", s, x, e, o, n) \in V
    BY <1>1, <2>2, <2>4
  <2> QED BY <1>7, <2>5
<1>12. ASSUME k \in {"while", "do"} PROVE \E d \in V : d.do = "visit" /\ d.stm = s
  <2>1. LaidWhile(f, N, V, c) \/ LaidDo(f, N, V, c)
    BY <1>1, <1>12 DEF LaidVisit
  <2>2. i = 2
    BY <1>5, <1>8, <1>12
  <2>3. \E b, e, o, n : Called("visit", s, b, e, o, n) \in V
    BY <1>1, <2>1, <2>2, Zenon DEF LaidWhile, LaidDo
  <2> QED BY <1>7, <2>3
<1>13. ASSUME k = "switch" PROVE \E d \in V : d.do = "visit" /\ d.stm = s
  <2>1. LaidSwitch(f, N, V, c)
    BY <1>1, <1>13 DEF LaidVisit
  <2>2. i \in 2 .. Len(Parts(f, c.stm))
    BY <1>5, <1>8, <1>13
  <2>3. PICK a, r, out : Chain(f, N, V, c, a, r, out)
    BY <2>1, Zenon DEF LaidSwitch
  <2>4. Called("visit", s, a[i], a[i + 1], out, c.continue) \in V
    BY <1>1, <2>2, <2>3, Zenon DEF Chain
  <2> QED BY <1>7, <2>4
<1> QED BY <1>1, <1>3, <1>9, <1>10, <1>11, <1>12, <1>13

(* When no call is left, every statement has been visited.                 *)
LEMMA AllVisited ==
  ASSUME NEW f \in Functions, Regular(f), NEW N, NEW V, Lays(f, N, V, <<>>),
         NEW t \in DOMAIN f.ast, Kind(f, t) \notin {"expr", "null"}
  PROVE  \E c \in V : c.do = "visit" /\ c.stm = t
<1> DEFINE Seen(s)  == \E c \in V : c.do = "visit" /\ c.stm = s
           Missed   == {s \in DOMAIN f.ast : Kind(f, s) \notin {"expr", "null"} /\ ~Seen(s)}
           PartOf(s) == {p \in DOMAIN f.ast : \E i \in 1 .. Len(f.ast[p].kids) : f.ast[p].kids[i] = s}
<1> SUFFICES ASSUME Missed # {} PROVE FALSE
  OBVIOUS
<1>1. WellFormed(f) /\ DOMAIN f.ast = 1 .. Len(f.ast)
  BY FunctionsAssumption DEF WellFormed
<1>2. PICK s \in Missed : \A m \in Missed : s <= m
  <2>1. Missed \in SUBSET Nat
    BY <1>1
  <2> HIDE DEF Missed
  <2> QED BY <2>1, Least
<1>3. s \in DOMAIN f.ast /\ Kind(f, s) \notin {"expr", "null"} /\ ~Seen(s)
  OBVIOUS
<1>4. s # f.body
  <2>1. Root(f) \in V /\ Root(f).do = "visit" /\ Root(f).stm = f.body
    BY DEF Lays, Root, Called
  <2> QED BY <1>3, <2>1
<1>5. PICK p \in DOMAIN f.ast : p < s /\ PartOf(s) = {p}
  BY <1>1, <1>3, <1>4 DEF WellFormed, IsTree
<1>6. PICK i \in 1 .. Len(Parts(f, p)) : Parts(f, p)[i] = s
  BY <1>5 DEF Parts
<1>7. Kind(f, p) \notin Leaves
  <2>1. s # 0
    BY <1>3, StmOk
  <2> QED BY <1>6, <2>1, PartIs
<1>8. Kind(f, p) \notin {"expr", "null"}
  BY <1>7 DEF Leaves, Simple
<1>9. p \notin Missed
  <2>1. ~ (s <= p)
    BY <1>1, <1>3, <1>5
  <2> HIDE DEF Missed
  <2> QED BY <1>2, <2>1
<1>10. PICK c \in V : c.do = "visit" /\ c.stm = p
  BY <1>8, <1>9
<1>11. Laid(f, N, V, c)
  BY <1>10 DEF Lays, Items
<1>12. LaidVisit(f, N, V, c)
  BY <1>10, <1>11 DEF Laid
<1>13. Seen(s)
  <2>1. Parts(f, c.stm) = Parts(f, p)
    BY <1>10
  <2> HIDE DEF Missed
  <2> QED BY <1>3, <1>6, <1>10, <1>12, <2>1, PartsVisited
<1> QED BY <1>3, <1>13

(* A function whose statements have all been laid out has no such loop. *)
LEMMA LaidNotEndless ==
  ASSUME NEW f \in Functions, Regular(f), NEW N, NEW V, Lays(f, N, V, <<>>)
  PROVE  ~EndlessFor(f)
<1> SUFFICES ASSUME EndlessFor(f) PROVE FALSE
  OBVIOUS
<1>1. PICK s \in DOMAIN f.ast :
         /\ f.ast[s].kind = "for" /\ PartKind(f, s, 2) = "null"
         /\ \/ PartKind(f, s, 4) = "null"
            \/ PartKind(f, s, 4) = "block" /\ f.ast[f.ast[s].kids[4]].kids = <<>>
  BY DEF EndlessFor
<1>2. Kind(f, s) = "for" /\ s # 0
  BY <1>1, StmOk
<1>3. PICK e : e = Parts(f, s)[4]
  OBVIOUS
<1>4. /\ Kind(f, Parts(f, s)[2]) = "null"
      /\ \/ Kind(f, e) = "null"
         \/ Kind(f, e) = "block" /\ Parts(f, e) = <<>>
  <2>1. \A l : PartKind(f, s, l) = Kind(f, Parts(f, s)[l])
    BY DEF PartKind, Kind, Parts
  <2>2. f.ast[f.ast[s].kids[4]].kids = Parts(f, e)
    BY <1>3 DEF Parts
  <2> QED BY <1>1, <1>3, <2>1, <2>2
<1>5. \A c \in V : Laid(f, N, V, c)
  BY DEF Lays, Items
<1>6. PICK c \in V : c.do = "visit" /\ c.stm = s
  BY <1>2, AllVisited
<1>7. LaidFor(f, N, V, c)
  BY <1>2, <1>5, <1>6 DEF Laid, LaidVisit
<1>8. PICK i, j, y, b, n, out : Ring(f, N, V, c, i, j, y, b, n, out)
  BY <1>7, Zenon DEF LaidFor
<1>9. PICK body, iter : /\ body = Called("visit", e, b, n, out, n)
                        /\ iter = Called("iterate", Parts(f, s)[3], n, j, out, n)
  OBVIOUS
<1>10. body \in V /\ iter \in V /\ Is(N, j, "forward", 0, y, y) /\ y = b
  BY <1>3, <1>4, <1>6, <1>8, <1>9 DEF Ring
<1>11. /\ body.do = "visit" /\ body.stm = e /\ body.begin = b /\ body.end = n
       /\ iter.do = "iterate" /\ iter.begin = n /\ iter.end = j
  BY <1>9 DEF Called
<1>12. Goes(N, b, n)
  BY <1>4, <1>5, <1>10, <1>11 DEF Laid, LaidVisit
<1>13. Goes(N, j, b)
  BY <1>10, NodeParts DEF Is, Goes
<1>14. Escapes(N, iter)
  BY <1>5, <1>10, <1>11 DEF Laid
<1> QED BY <1>11, <1>12, <1>13, <1>14 DEF Escapes, Goes

-----------------------------------------------------------------------------
(* Linking skips nodes that only forward: what was laid out is reflected. *)
Reflects(N) ==
  /\ DOMAIN nodes = DOMAIN N
  /\ \A n \in DOMAIN N :
       /\ nodes[n].kind = N[n].kind /\ nodes[n].stm = N[n].stm
       /\ N[n].kind = "forward" => nodes[n] = N[n]
       /\ Joined(N, N[n].t, nodes[n].t) /\ Joined(N, N[n].f, nodes[n].f)
  /\ \A e \in Items(agenda) :
       e.do = "next" => Joined(N, N[e.begin].t, e.break) /\ Joined(N, N[e.begin].f, e.continue)

LaidOut ==
  Regular(fn) =>
    /\ \A s \in Stms : labels[s] = 0
    /\ phase = "failed" => EndlessFor(fn)
    /\ phase = "visit" => \E V : Lays(fn, nodes, V, agenda)
    /\ phase \in {"link", "built"} =>
         ToReach(BEGIN) /\ \E N, V : Lays(fn, N, V, <<>>) /\ Reflects(N)

(* The linking starts from the nodes laid out.                             *)
LEMMA ReflectStart ==
  ASSUME Shape, Regular(fn), NEW V, Lays(fn, nodes, V, agenda), StartLink
  PROVE  Lays(fn, nodes, V, <<>>) /\ Reflects(nodes)' /\ ToReach(BEGIN)'
<1>1. agenda = <<>> /\ nodes' = nodes
  BY DEF StartLink
<1>2. PICK e : e = [do |-> "link", stm |-> 0, begin |-> BEGIN, end |-> 0,
                    break |-> 0, continue |-> 0, throw |-> 0]
  OBVIOUS
<1>3. agenda' = <<e>> /\ e.do = "link" /\ e.begin = BEGIN
  BY <1>2 DEF StartLink
<1>4. Items(agenda') = {e}
  BY <1>3 DEF Items
<1>5. \A N, x : Joined(N, x, x)
  BY JoinedIs
<1>6. Reflects(nodes)'
  BY <1>1, <1>3, <1>4, <1>5 DEF Reflects
<1> QED BY <1>1, <1>3, <1>4, <1>6 DEF ToReach

(* Linking from a node keeps the edges those of the layout, up to          *)
(* forwarding nodes.                                                       *)
LEMMA ReflectRoot ==
  ASSUME Shape, NEW N, Reflects(N), ToReach(BEGIN), LinkRoot
  PROVE  Reflects(N)' /\ ToReach(BEGIN)'
<1>0. PICK root : root = Top.begin
  OBVIOUS
<1>1. /\ agenda # <<>> /\ Top.do = "link" /\ nodes' = nodes
  BY DEF LinkRoot, NextIs
<1>2. /\ Top \in CallUpTo(Len(nodes))
      /\ Items(agenda) = {Top} \cup Items(Tail(agenda))
  BY <1>1, TopOk
<1>3. CASE root = 0 \/ root \in stmList
  <2>1. agenda' = Tail(agenda) /\ stmList' = stmList
    BY <1>0, <1>3 DEF LinkRoot
  <2>2. Reflects(N)'
    BY <1>1, <1>2, <2>1 DEF Reflects
  <2>3. ToReach(BEGIN)'
    BY <1>0, <1>2, <1>3, <2>1 DEF ToReach, BEGIN
  <2> QED BY <2>2, <2>3
<1>4. CASE root # 0 /\ root \notin stmList
  <2>1. PICK e : e = [Top EXCEPT !.do = "next", !.break = nodes[root].t, !.continue = nodes[root].f]
    OBVIOUS
  <2>2. PICK inner : inner = <<e>>
    OBVIOUS
  <2>3. Calls(inner) /\ stmList' = stmList \cup {root}
    BY <1>0, <1>4, <2>1, <2>2 DEF LinkRoot, Calls
  <2>4. root \in 1 .. Len(nodes) /\ nodes[root] \in NodeUpTo(Len(nodes)) /\ root \in DOMAIN nodes
    <3>1. root \in 1 .. Len(nodes)
      BY <1>0, <1>2, <1>4 DEF CallUpTo
    <3> QED BY <3>1, ElementOfSeq, LenProperties DEF Shape
  <2>5. /\ e \in CallUpTo(Len(nodes)) /\ e.do = "next" /\ e.begin = root
        /\ e.break = nodes[root].t /\ e.continue = nodes[root].f
    BY <1>0, <1>2, <2>1, <2>4 DEF CallUpTo, NodeUpTo
  <2>6. Items(agenda') = {e} \cup Items(Tail(agenda))
    <3>1. inner \in Seq(CallUpTo(Len(nodes))) /\ Items(inner) = {e}
      BY <2>2, <2>5 DEF Items
    <3>2. agenda \in Seq(CallUpTo(Len(nodes)))
      BY DEF Shape
    <3> QED BY <1>1, <2>3, <3>1, <3>2, CallsOk
  <2>7. Joined(N, N[e.begin].t, e.break) /\ Joined(N, N[e.begin].f, e.continue)
    BY <2>4, <2>5 DEF Reflects
  <2>8. \A x \in Items(agenda') : x.do = "next" =>
             Joined(N, N[x.begin].t, x.break) /\ Joined(N, N[x.begin].f, x.continue)
    BY <1>2, <2>6, <2>7 DEF Reflects
  <2>9. Reflects(N)'
    BY <1>1, <2>8 DEF Reflects
  <2>10. ToReach(BEGIN)'
    BY <1>0, <1>2, <2>3, <2>6 DEF ToReach
  <2> QED BY <2>9, <2>10
<1> QED BY <1>3, <1>4

(* The call is replaced by one that has skipped a node. *)
LEMMA ReflectSkip ==
  ASSUME Shape, NEW N, Reflects(N), ToReach(BEGIN), agenda # <<>>, Top.do = "next",
         NEW e \in CallUpTo(Len(nodes)), e.do = "next", e.begin = Top.begin,
         Joined(N, N[e.begin].t, e.break), Joined(N, N[e.begin].f, e.continue),
         agenda' = <<e>> \o Tail(agenda), nodes' = nodes, stmList' = stmList
  PROVE  Reflects(N)' /\ ToReach(BEGIN)'
<1>1. Items(agenda) = {Top} \cup Items(Tail(agenda)) /\ Items(agenda') = {e} \cup Items(Tail(agenda))
  <2>1. PICK inner : inner = <<e>>
    OBVIOUS
  <2>2. inner \in Seq(CallUpTo(Len(nodes))) /\ Items(inner) = {e}
    BY <2>1 DEF Items
  <2>3. agenda \in Seq(CallUpTo(Len(nodes))) /\ Calls(inner)
    BY <2>1 DEF Shape, Calls
  <2> QED BY <2>2, <2>3, CallsOk
<1>2. \A x \in Items(agenda') : x.do = "next" =>
             Joined(N, N[x.begin].t, x.break) /\ Joined(N, N[x.begin].f, x.continue)
  BY <1>1 DEF Reflects
<1>3. Reflects(N)'
  BY <1>2 DEF Reflects
<1>4. ToReach(BEGIN)'
  BY <1>1 DEF ToReach
<1> QED BY <1>3, <1>4

(* So does the step that redirects the edges of a node.                    *)
LEMMA ReflectNext ==
  ASSUME Shape, Linked, NEW N, Reflects(N), ToReach(BEGIN), NextConcrete
  PROVE  Reflects(N)' /\ ToReach(BEGIN)'
<1>1. PICK t, f, b : t = Top.break /\ f = Top.continue /\ b = Top.begin
  OBVIOUS
<1>2. agenda # <<>> /\ Top.do = "next" /\ stmList' = stmList
  BY DEF NextConcrete, NextIs
<1>3. /\ Top \in CallUpTo(Len(nodes)) /\ Top \in Items(agenda)
      /\ Items(agenda) = {Top} \cup Items(Tail(agenda)) /\ Len(nodes) \in Nat
  BY <1>2, TopOk
<1>4. t \in 0 .. Len(nodes) /\ f \in 0 .. Len(nodes)
  BY <1>1, <1>3 DEF CallUpTo
<1>5. b \in stmList /\ b \in 1 .. Len(nodes) /\ nodes[b].kind # "forward"
  <2>1. LinkCall(Top)
    BY <1>3 DEF Linked
  <2>2. b \in stmList /\ b \in 1 .. Len(nodes)
    BY <1>1, <1>2, <2>1 DEF LinkCall, Shape
  <2> QED BY <2>2 DEF Linked, Concrete
<1>6. Joined(N, N[b].t, t) /\ Joined(N, N[b].f, f)
  BY <1>1, <1>2, <1>3 DEF Reflects
<1>7. DOMAIN nodes = 1 .. Len(nodes) /\ DOMAIN N = 1 .. Len(nodes)
  BY LenProperties DEF Shape, Reflects
<1>8. ASSUME NEW x \in 0 .. Len(nodes), IsForward(x), NEW z, Joined(N, z, x)
      PROVE  nodes[x].t \in 1 .. Len(nodes) /\ Joined(N, z, nodes[x].t)
  <2>1. x \in 1 .. Len(nodes) /\ nodes[x].t \in 1 .. Len(nodes) /\ nodes[x].kind = "forward"
    BY <1>8, ForwardTied DEF IsForward
  <2>2. N[x].kind = "forward" /\ nodes[x] = N[x]
    BY <1>7, <2>1 DEF Reflects
  <2>3. Joined(N, x, nodes[x].t)
    BY <1>7, <2>1, <2>2, JoinedIs
  <2>4. Joined(N, z, nodes[x].t)
    BY <1>8, <2>3, JoinedIs, Zenon
  <2> QED BY <2>1, <2>4
<1>9. CASE IsForward(t)
  <2>1. PICK n : n = nodes[t].t
    OBVIOUS
  <2>2. n \in 1 .. Len(nodes) /\ Joined(N, N[b].t, n)
    BY <1>4, <1>6, <1>8, <1>9, <2>1
  <2>3. PICK e : e = [Top EXCEPT !.break = n]
    OBVIOUS
  <2>4. /\ e \in CallUpTo(Len(nodes)) /\ e.do = "next" /\ e.begin = Top.begin
        /\ e.break = n /\ e.continue = f
    BY <1>1, <1>2, <1>3, <2>2, <2>3 DEF CallUpTo
  <2>5. agenda' = <<e>> \o Tail(agenda) /\ nodes' = nodes
    BY <1>1, <1>9, <2>1, <2>3 DEF NextConcrete
  <2>6. Joined(N, N[e.begin].t, e.break) /\ Joined(N, N[e.begin].f, e.continue)
    BY <1>1, <1>6, <2>2, <2>4
  <2> QED BY <1>2, <2>4, <2>5, <2>6, ReflectSkip
<1>10. CASE ~ IsForward(t) /\ IsForward(f)
  <2>1. PICK n : n = nodes[f].t
    OBVIOUS
  <2>2. n \in 1 .. Len(nodes) /\ Joined(N, N[b].f, n)
    BY <1>4, <1>6, <1>8, <1>10, <2>1
  <2>3. PICK e : e = [Top EXCEPT !.continue = n]
    OBVIOUS
  <2>4. /\ e \in CallUpTo(Len(nodes)) /\ e.do = "next" /\ e.begin = Top.begin
        /\ e.break = t /\ e.continue = n
    BY <1>1, <1>2, <1>3, <2>2, <2>3 DEF CallUpTo
  <2>5. agenda' = <<e>> \o Tail(agenda) /\ nodes' = nodes
    BY <1>1, <1>10, <2>1, <2>3 DEF NextConcrete
  <2>6. Joined(N, N[e.begin].t, e.break) /\ Joined(N, N[e.begin].f, e.continue)
    BY <1>1, <1>6, <2>2, <2>4
  <2> QED BY <1>2, <2>4, <2>5, <2>6, ReflectSkip
<1>11. CASE ~ IsForward(t) /\ ~ IsForward(f)
  <2>1. nodes' = [nodes EXCEPT ![b].t = t, ![b].f = f] /\ Calls(<<Linking(t), Linking(f)>>)
    BY <1>1, <1>11 DEF NextConcrete
  <2>2. /\ DOMAIN nodes' = DOMAIN nodes
        /\ \A n \in 1 .. Len(nodes) : n # b => nodes'[n] = nodes[n]
        /\ nodes'[b].kind = nodes[b].kind /\ nodes'[b].stm = nodes[b].stm
        /\ nodes'[b].t = t /\ nodes'[b].f = f
    <3>1. nodes[b] \in NodeUpTo(Len(nodes))
      BY <1>5, ElementOfSeq DEF Shape
    <3> QED BY <1>5, <1>7, <2>1, <3>1 DEF NodeUpTo
  <2>3. PICK yes, no : yes = Linking(t) /\ no = Linking(f)
    OBVIOUS
  <2>4. /\ yes \in CallUpTo(Len(nodes)) /\ yes.do = "link" /\ no \in CallUpTo(Len(nodes)) /\ no.do = "link"
    BY <1>3, <1>4, <2>3 DEF Linking, CallUpTo
  <2>5. Items(agenda') = {yes, no} \cup Items(Tail(agenda))
    <3>1. PICK inner : inner = <<yes, no>>
      OBVIOUS
    <3>2. inner \in Seq(CallUpTo(Len(nodes))) /\ Items(inner) = {yes, no}
      BY <2>4, <3>1 DEF Items
    <3>3. agenda \in Seq(CallUpTo(Len(nodes))) /\ Calls(inner)
      BY <2>1, <2>3, <3>1 DEF Shape
    <3> QED BY <1>2, <3>2, <3>3, CallsOk
  <2>6. \A x \in Items(agenda') : x.do = "next" =>
             Joined(N, N[x.begin].t, x.break) /\ Joined(N, N[x.begin].f, x.continue)
    <3>1. \A x \in Items(agenda') : x.do = "next" => x \in Items(agenda)
      BY <1>3, <2>4, <2>5
    <3> QED BY <3>1 DEF Reflects
  <2>7. ASSUME NEW n \in DOMAIN N
        PROVE  /\ nodes'[n].kind = N[n].kind /\ nodes'[n].stm = N[n].stm
               /\ N[n].kind = "forward" => nodes'[n] = N[n]
               /\ Joined(N, N[n].t, nodes'[n].t) /\ Joined(N, N[n].f, nodes'[n].f)
    <3>1. /\ nodes[n].kind = N[n].kind /\ nodes[n].stm = N[n].stm
          /\ N[n].kind = "forward" => nodes[n] = N[n]
          /\ Joined(N, N[n].t, nodes[n].t) /\ Joined(N, N[n].f, nodes[n].f)
      BY DEF Reflects
    <3>2. CASE n = b
      BY <1>5, <1>6, <2>2, <3>1, <3>2
    <3>3. CASE n # b
      BY <1>7, <2>2, <3>1, <3>3
    <3> QED BY <3>2, <3>3
  <2>8. DOMAIN nodes' = DOMAIN N
    BY <2>2 DEF Reflects
  <2>9. Reflects(N)'
    BY <2>6, <2>7, <2>8 DEF Reflects
  <2>10. ToReach(BEGIN)'
    BY <1>2, <1>3, <2>5 DEF ToReach
  <2> QED BY <2>9, <2>10
<1> QED BY <1>9, <1>10, <1>11

(* The layout holds initially.                                             *)
LEMMA InitLaidOut == CfgInit => LaidOut
<1> SUFFICES ASSUME CfgInit PROVE LaidOut
  OBVIOUS
<1>1. phase = "visit" /\ labels = [s \in Stms |-> 0]
  BY DEF CfgInit, Stms
<1>2. \E V : Lays(fn, nodes, V, agenda)
  BY LayInit
<1> QED BY <1>1, <1>2 DEF LaidOut

(* The construction never changes the function.                            *)
LEMMA FnKept == [CfgNext]_cfgVars => fn' = fn
<1>1. VisitIf => fn' = fn
  BY DEF VisitIf, Unlabelled
<1>2. VisitNothing => fn' = fn
  BY DEF VisitNothing, Unlabelled
<1>3. VisitBlock => fn' = fn
  BY DEF VisitBlock, Unlabelled
<1>4. VisitFor => fn' = fn
  BY DEF VisitFor, Unlabelled
<1>5. Iterate => fn' = fn
  BY DEF Iterate, Unlabelled
<1>6. ForFails => fn' = fn
  BY DEF ForFails, Unlabelled
<1>7. VisitWhile => fn' = fn
  BY DEF VisitWhile, Unlabelled
<1>8. VisitDo => fn' = fn
  BY DEF VisitDo, Unlabelled
<1>9. VisitSwitch => fn' = fn
  BY DEF VisitSwitch, Unlabelled
<1>10. VisitJump => fn' = fn
  BY DEF VisitJump, Unlabelled
<1>11. VisitLabel => fn' = fn
  BY DEF VisitLabel, Unlabelled
<1>12. VisitTry => fn' = fn
  BY DEF VisitTry, Unlabelled
<1>13. VisitCatch => fn' = fn
  BY DEF VisitCatch, Unlabelled
<1>14. VisitSimple => fn' = fn
  BY DEF VisitSimple, Unlabelled
<1>15. LinkStatement => fn' = fn
  BY DEF LinkStatement, StartLink, LinkRoot, NextConcrete, FinishLink
<1> QED BY <1>1, <1>2, <1>3, <1>4, <1>5, <1>6, <1>7, <1>8, <1>9, <1>10, <1>11, <1>12, <1>13, <1>14, <1>15 DEF CfgNext, VisitStatement, cfgVars

(* Every step of the construction preserves the layout.                    *)
LEMMA StepLaidOut == IInv /\ LaidOut /\ [CfgNext]_cfgVars => LaidOut'
<1> SUFFICES ASSUME IInv, LaidOut, [CfgNext]_cfgVars, Regular(fn)
             PROVE  LaidOut'
  <2>1. [CfgNext]_cfgVars => fn' = fn
    BY FnKept
  <2>2. [CfgNext]_cfgVars /\ ~Regular(fn) => LaidOut'
    BY <2>1 DEF LaidOut
  <2> QED BY <2>2
<1>1. Shape /\ \A s \in Stms : labels[s] = 0
  BY DEF IInv, LaidOut
<1>2. ASSUME phase = "visit", NEW V, Lays(fn, nodes, V, agenda) => \E W : Lays(fn, nodes', W, agenda'), Unlabelled
      PROVE  Lays(fn, nodes, V, agenda) => LaidOut'
  BY <1>1, <1>2 DEF LaidOut, Unlabelled, Stms
<1>3. ASSUME VisitStatement PROVE LaidOut'
  <2>1. phase = "visit"
    BY <1>3 DEF VisitStatement, VisitIf, VisitNothing, VisitBlock,
           VisitFor, Iterate, ForFails, VisitWhile, VisitDo, VisitSwitch, VisitJump, VisitLabel, VisitTry,
           VisitCatch, VisitSimple, Visits
  <2>2. Visiting
    BY <2>1 DEF IInv
  <2>3. PICK V : Lays(fn, nodes, V, agenda)
    BY <2>1 DEF LaidOut
  <2>4. ASSUME \E W : Lays(fn, nodes', W, agenda'), Unlabelled PROVE LaidOut'
    BY <1>2, <2>1, <2>3, <2>4
  <2>5. CASE VisitIf
    BY <1>1, <2>3, <2>4, <2>5, LayIf DEF VisitIf
  <2>6. CASE VisitNothing
    BY <1>1, <2>3, <2>4, <2>6, LayNothing DEF VisitNothing
  <2>7. CASE VisitBlock
    BY <1>1, <2>3, <2>4, <2>7, LayBlock DEF VisitBlock
  <2>8. CASE VisitFor
    BY <1>1, <2>3, <2>4, <2>8, LayFor DEF VisitFor
  <2>9. CASE Iterate
    BY <1>1, <2>3, <2>4, <2>9, LayIterate DEF Iterate
  <2>10. CASE ForFails
    <3>1. EndlessFor(fn) /\ phase' = "failed" /\ fn' = fn /\ labels' = labels
      BY <1>1, <2>3, <2>10, ForFailsMeans DEF ForFails
    <3> QED BY <1>1, <3>1 DEF LaidOut, Stms
  <2>11. CASE VisitWhile
    BY <1>1, <2>3, <2>4, <2>11, LayWhile DEF VisitWhile
  <2>12. CASE VisitDo
    BY <1>1, <2>3, <2>4, <2>12, LayDo DEF VisitDo
  <2>13. CASE VisitSwitch
    BY <1>1, <2>3, <2>4, <2>13, LaySwitch DEF VisitSwitch
  <2>14. CASE VisitJump
    BY <1>1, <2>2, <2>3, <2>4, <2>14, LayJump DEF VisitJump
  <2>15. CASE VisitLabel \/ VisitTry \/ VisitCatch
    BY <1>1, <2>3, <2>15, LayIrregular
  <2>16. CASE VisitSimple
    BY <1>1, <2>3, <2>4, <2>16, LaySimple DEF VisitSimple
  <2> QED BY <1>3, <2>5, <2>6, <2>7, <2>8, <2>9, <2>10, <2>11, <2>12, <2>13, <2>14, <2>15, <2>16
          DEF VisitStatement
<1>4. CASE StartLink
  <2>1. PICK V : Lays(fn, nodes, V, agenda)
    BY <1>4 DEF StartLink, LaidOut
  <2>2. Lays(fn, nodes, V, <<>>) /\ Reflects(nodes)' /\ ToReach(BEGIN)'
    BY <1>1, <1>4, <2>1, ReflectStart
  <2>3. fn' = fn /\ nodes' = nodes /\ labels' = labels /\ phase' = "link"
    BY <1>4 DEF StartLink
  <2>4. PICK N : N = nodes
    OBVIOUS
  <2>5. Lays(fn, N, V, <<>>)' /\ Reflects(N)'
    BY <2>2, <2>3, <2>4
  <2> QED BY <1>1, <2>2, <2>3, <2>5 DEF LaidOut, Stms
<1>5. ASSUME LinkRoot \/ NextConcrete PROVE LaidOut'
  <2>1. phase = "link" /\ fn' = fn /\ labels' = labels /\ phase' = "link"
    BY <1>5 DEF LinkRoot, NextConcrete
  <2>2. PICK N, V : Lays(fn, N, V, <<>>) /\ Reflects(N) /\ ToReach(BEGIN)
    BY <2>1 DEF LaidOut
  <2>3. Linked
    BY <2>1 DEF IInv
  <2>4. Reflects(N)' /\ ToReach(BEGIN)'
    BY <1>1, <1>5, <2>2, <2>3, ReflectRoot, ReflectNext
  <2> QED BY <1>1, <2>1, <2>2, <2>4 DEF LaidOut, Stms
<1>6. CASE FinishLink
  <2>1. /\ phase = "link" /\ phase' = "built"
        /\ fn' = fn /\ labels' = labels /\ nodes' = nodes /\ agenda' = agenda /\ stmList' = stmList
    BY <1>6 DEF FinishLink
  <2>2. PICK N, V : Lays(fn, N, V, <<>>) /\ Reflects(N) /\ ToReach(BEGIN)
    BY <2>1 DEF LaidOut
  <2>3. Reflects(N)' /\ ToReach(BEGIN)'
    BY <2>1, <2>2 DEF Reflects, ToReach
  <2> QED BY <1>1, <2>1, <2>2, <2>3 DEF LaidOut, Stms
<1>7. CASE UNCHANGED cfgVars
  <2>1. /\ fn' = fn /\ labels' = labels /\ nodes' = nodes /\ agenda' = agenda /\ stmList' = stmList
        /\ phase' = phase
    BY <1>7 DEF cfgVars
  <2>2. (ToReach(BEGIN)' <=> ToReach(BEGIN)) /\ \A N : Reflects(N)' <=> Reflects(N)
    BY <2>1 DEF Reflects, ToReach
  <2> QED BY <1>1, <2>1, <2>2 DEF LaidOut, Stms
<1> QED BY <1>3, <1>4, <1>5, <1>6, <1>7 DEF CfgNext, LinkStatement

(* For every set of functions: the construction fails on a function only   *)
(* when it has an endless for without a body, and no graph is built of a   *)
(* function that has one ("This FOR statement is infinity").               *)
THEOREM EndlessRejected == CfgSpec => [](Regular(fn) => FailsOnEndlessFor)
<1>1. CfgInit => IInv /\ LaidOut
  BY InitIInv, InitLaidOut
<1>2. IInv /\ LaidOut /\ [CfgNext]_cfgVars => (IInv /\ LaidOut)'
  BY StepIInv, StepLaidOut
<1>3. IInv /\ LaidOut => (Regular(fn) => FailsOnEndlessFor)
  <2> SUFFICES ASSUME IInv, LaidOut, Regular(fn) PROVE FailsOnEndlessFor
    OBVIOUS
  <2>1. phase = "failed" => EndlessFor(fn)
    BY DEF LaidOut
  <2>2. ASSUME phase = "built" PROVE ~EndlessFor(fn)
    <3>1. PICK N, V : Lays(fn, N, V, <<>>)
      BY <2>2 DEF LaidOut
    <3>2. fn \in Functions
      BY DEF IInv, Shape
    <3> QED BY <3>1, <3>2, LaidNotEndless
  <2> QED BY <2>1, <2>2 DEF FailsOnEndlessFor
<1>4. QED
  BY <1>1, <1>2, <1>3, PTL DEF CfgSpec
===============================================================================
