----------------------- MODULE ExecutionMapping_proofs -----------------------
(***************************************************************************)
(* Theorems about the mapping of marks to nodes, for all functions and     *)
(* bounds: whatever is tried in vain, the nodes that count as visited are  *)
(* the ones executed, up to what a mark does not tell apart, and the path  *)
(* found is a walk that prints the marks of the execution.                 *)
(***************************************************************************)
EXTENDS ExecutionMapping, FiniteSetTheorems, SequenceTheorems, TLAPS

-----------------------------------------------------------------------------
(* The inductive invariant.  An activation has matched every mark before   *)
(* its index with a node of the list; the nodes it has yet to try match    *)
(* the mark at its index.                                                  *)
Frame == [node : Node, left : Nat]

Act == [index : Nat, candidates : SUBSET Node, previous : Node,
        branches : SUBSET (Node \X Node), points : Seq(Node), todo : Seq(Node),
        step : {"enter", "match", "fork", "return"}]

MarksMatched(q, w, S, k) == \A i \in 1 .. k : \E n \in S : q.label[n] = q.label[w[i]]

Good(q, w, S, a) ==
  /\ a.index <= Len(w) /\ IsFiniteSet(a.candidates)
  /\ MarksMatched(q, w, S, a.index)
  /\ a.step = "match" => a.index < Len(w)
  /\ a.step \in {"enter", "match"} => a.todo = <<>>
  /\ \A i \in 1 .. Len(a.todo) :
       a.index < Len(w) /\ q.label[a.todo[i]] = q.label[w[a.index + 1]]

Typed ==
  /\ p \in Programs /\ at \in Node /\ walk \in Seq(Node) /\ frames \in Seq(Frame)
  /\ pc \in {"run", "map", "done"}
  /\ activations \in Seq(Act)
  /\ statements \subseteq Node /\ branches \subseteq Node \X Node
  /\ found \in BOOLEAN /\ complete \in BOOLEAN

Resting == pc = "run" => activations = <<>> /\ statements = {} /\ ~ found

Searching == \A j \in 1 .. Len(activations) : Good(p, walk, statements, activations[j])

(* Every node of the list matches a mark. *)
NodesMatch == \A n \in statements : \E i \in 1 .. Len(walk) : p.label[n] = p.label[walk[i]]

PathFound == found => MarksMatched(p, walk, statements, Len(walk))

IInv == Typed /\ Resting /\ Searching /\ NodesMatch /\ PathFound

-----------------------------------------------------------------------------
(* The parts of a program are of their types.                              *)
LEMMA ProgramTyped ==
  ASSUME NEW q \in Programs
  PROVE  /\ q.first \in Node /\ q.end \in Node /\ q.cond \subseteq Node
         /\ q.true \in [Node -> Node] /\ q.false \in [Node -> Node]
         /\ q.next \in [Node -> SUBSET Node]
         /\ q.label \in [Node -> Label] /\ q.calls \in [Node -> SUBSET (0 .. 2)]
BY ProgramsAssumption DEF ProgramType

(* Taking off, and replacing, the last element of a sequence               *)
LEMMA TakenOff ==
  ASSUME NEW A, NEW s \in Seq(A), s # <<>>
  PROVE  /\ Front(s) \in Seq(A) /\ Len(Front(s)) = Len(s) - 1
         /\ Last(s) \in A /\ Last(s) = s[Len(s)]
         /\ \A j \in 1 .. Len(s) - 1 : Front(s)[j] = s[j]
<1>1. Len(s) \in Nat /\ Len(s) >= 1
  OBVIOUS
<1> DEFINE k == Len(s) - 1
<1>2. k \in Int /\ 1 \in Int /\ k >= 0 /\ \A i \in 1 .. k : s[i] \in A
  BY <1>1
<1>3. /\ SubSeq(s, 1, k) \in Seq(A)
      /\ Len(SubSeq(s, 1, k)) = IF 1 <= k THEN k - 1 + 1 ELSE 0
      /\ \A i \in 1 .. k - 1 + 1 : SubSeq(s, 1, k)[i] = s[1 + i - 1]
  BY <1>2, SubSeqProperties
<1>4. Front(s) = SubSeq(s, 1, k)
  BY DEF Front
<1>5. Last(s) = s[Len(s)] /\ s[Len(s)] \in A
  BY <1>1 DEF Last
<1>6. Len(s) - 1 = k
  OBVIOUS
<1> HIDE DEF k
<1>7. Len(Front(s)) = k /\ \A i \in 1 .. k : Front(s)[i] = s[i]
  BY <1>2, <1>3, <1>4
<1>8. QED
  BY <1>3, <1>4, <1>5, <1>6, <1>7

(* What replacing the last item of a sequence does.                        *)
LEMMA Replaced ==
  ASSUME NEW A, NEW s \in Seq(A), s # <<>>, NEW a \in A
  PROVE  /\ Append(Front(s), a) \in Seq(A) /\ Len(Append(Front(s), a)) = Len(s)
         /\ \A j \in 1 .. Len(s) :
              Append(Front(s), a)[j] = IF j = Len(s) THEN a ELSE s[j]
<1>1. Len(s) \in Nat /\ Len(s) >= 1
  OBVIOUS
<1>2. Front(s) \in Seq(A) /\ Len(Front(s)) = Len(s) - 1
      /\ \A j \in 1 .. Len(s) - 1 : Front(s)[j] = s[j]
  BY TakenOff
<1>3. QED
  BY <1>1, <1>2

(* A longer list of nodes keeps what the activations have matched.         *)
LEMMA MoreNodes ==
  ASSUME NEW q, NEW w, NEW S, NEW T, S \subseteq T, NEW a, Good(q, w, S, a)
  PROVE  Good(q, w, T, a)
BY DEF Good, MarksMatched

(* A set that matches k marks and contains a node for the next matches k + *)
(* 1.                                                                      *)
LEMMA OneMoreMark ==
  ASSUME NEW q, NEW w, NEW S, NEW k \in Nat, MarksMatched(q, w, S, k),
         NEW n \in S, q.label[n] = q.label[w[k + 1]]
  PROVE  MarksMatched(q, w, S, k + 1)
<1>1. SUFFICES ASSUME NEW i \in 1 .. k + 1
               PROVE  \E m \in S : q.label[m] = q.label[w[i]]
  BY DEF MarksMatched
<1>2. CASE i = k + 1
  BY <1>2
<1>3. CASE i \in 1 .. k
  BY <1>3 DEF MarksMatched
<1>4. QED
  BY <1>2, <1>3

(* What the search knows of the activation that runs *)
LEMMA TopTyped ==
  ASSUME IInv, activations # <<>>
  PROVE  /\ Top \in Act /\ Good(p, walk, statements, Top)
         /\ Front(activations) \in Seq(Act)
         /\ Len(walk) \in Nat
<1>1. Top \in Act /\ Top = activations[Len(activations)] /\ Front(activations) \in Seq(Act)
  BY TakenOff DEF IInv, Typed, Top
<1>2. Len(activations) \in 1 .. Len(activations)
  BY DEF IInv, Typed
<1>3. QED
  BY <1>1, <1>2 DEF IInv, Typed, Searching

(* The same search goes on with another activation on top, and a longer    *)
(* list of nodes, each of which matches the mark at the index of the top.  *)
LEMMA Goes ==
  ASSUME IInv, activations # <<>>, NEW a \in Act, NEW S \in SUBSET Node,
         statements \subseteq S, Good(p, walk, S, a),
         activations' = Append(Front(activations), a),
         p' = p, walk' = walk, statements' = S
  PROVE  activations' \in Seq(Act) /\ Searching'
<1>1. /\ activations' \in Seq(Act) /\ Len(activations') = Len(activations)
      /\ \A j \in 1 .. Len(activations) :
           activations'[j] = IF j = Len(activations) THEN a ELSE activations[j]
  BY Replaced DEF IInv, Typed
<1>2. ASSUME NEW j \in 1 .. Len(activations') PROVE Good(p, walk, S, activations'[j])
  <2>1. CASE j = Len(activations)
    BY <1>1, <2>1
  <2>2. CASE j # Len(activations)
    <3>1. activations'[j] = activations[j] /\ j \in 1 .. Len(activations)
      BY <1>1, <2>2
    <3>2. Good(p, walk, statements, activations[j])
      BY <3>1 DEF IInv, Searching
    <3>3. QED
      BY <3>1, <3>2, MoreNodes
  <2>3. QED
    BY <2>1, <2>2
<1>3. QED
  BY <1>1, <1>2 DEF Searching

(* A step that replaces the last activation by a good one and calls        *)
(* another good one keeps the search sound.                                *)
LEMMA GoesDeeper ==
  ASSUME IInv, activations # <<>>, NEW a \in Act, NEW b \in Act, NEW S \in SUBSET Node,
         statements \subseteq S, Good(p, walk, S, a), Good(p, walk, S, b),
         activations' = Append(Append(Front(activations), a), b),
         p' = p, walk' = walk, statements' = S
  PROVE  activations' \in Seq(Act) /\ Searching'
<1> DEFINE s == Append(Front(activations), a)
<1>1. /\ s \in Seq(Act) /\ Len(s) = Len(activations)
      /\ \A j \in 1 .. Len(activations) :
           s[j] = IF j = Len(activations) THEN a ELSE activations[j]
  BY Replaced DEF IInv, Typed
<1>2. activations' = Append(s, b)
  OBVIOUS
<1> HIDE DEF s
<1>3. /\ activations' \in Seq(Act) /\ Len(activations') = Len(s) + 1
      /\ activations'[Len(s) + 1] = b
      /\ \A j \in 1 .. Len(s) : activations'[j] = s[j]
  BY <1>1, <1>2
<1>4. ASSUME NEW j \in 1 .. Len(activations') PROVE Good(p, walk, S, activations'[j])
  <2>1. CASE j = Len(s) + 1
    BY <1>3, <2>1
  <2>2. CASE j = Len(activations)
    BY <1>1, <1>3, <2>2
  <2>3. CASE j \in 1 .. Len(activations) - 1
    <3>1. activations'[j] = activations[j] /\ j \in 1 .. Len(activations)
      BY <1>1, <1>3, <2>3
    <3>2. Good(p, walk, statements, activations[j])
      BY <3>1 DEF IInv, Searching
    <3>3. QED
      BY <3>1, <3>2, MoreNodes
  <2>4. QED
    BY <1>1, <1>3, <2>1, <2>2, <2>3
<1>5. QED
  BY <1>3, <1>4 DEF Searching

-----------------------------------------------------------------------------
(* Every node listed for a mark matches it.                                *)
LEMMA ListsMatch ==
  ASSUME IInv, Mapping("match"), NEW s \in MatchingLists
  PROVE  /\ s \in Seq(Node)
         /\ \A i \in 1 .. Len(s) : Matches(s[i])
<1>1. Top \in Act /\ Good(p, walk, statements, Top) /\ p \in Programs
  BY TopTyped DEF IInv, Typed, Mapping
<1> DEFINE M == {n \in Node : Matches(n)}
<1>2. s \in Seq(M)
  <2>1. CASE Popped
    <3> DEFINE F == p.false[Last(Top.points)]
    <3> DEFINE T == p.true[Last(Top.points)]
    <3>1. Top.points \in Seq(Node) /\ Top.points # <<>>
      BY <1>1, <2>1 DEF Popped, Act
    <3>2. Last(Top.points) \in Node
      BY <3>1, TakenOff
    <3>3. F \in Node /\ T \in Node
      BY <1>1, <3>2, ProgramTyped
    <3>4. s = IfMatching(F) \o IfMatching(T)
      BY <2>1 DEF MatchingLists
    <3> HIDE DEF F, T
    <3>5. ASSUME NEW x \in Node PROVE IfMatching(x) \in Seq(M)
      <4>1. CASE Matches(x)
        <5>1. x \in M
          BY <4>1
        <5> HIDE DEF M
        <5>2. QED
          BY <4>1, <5>1 DEF IfMatching
      <4>2. CASE ~ Matches(x)
        BY <4>2 DEF IfMatching
      <4>3. QED
        BY <4>1, <4>2
    <3> HIDE DEF M
    <3>6. QED
      BY <3>3, <3>4, <3>5
  <2>2. CASE ~ Popped
    <3>1. Candidates \subseteq M /\ IsFiniteSet(Candidates)
      BY <1>1, FS_Subset DEF Candidates, Good, Act
    <3>2. Cardinality(Candidates) \in Nat
      BY <3>1, FS_CardinalityType
    <3>3. s \in [1 .. Cardinality(Candidates) -> Candidates]
      BY <2>2 DEF MatchingLists
    <3> HIDE DEF M
    <3>4. s \in Seq(Candidates)
      BY <3>2, <3>3
    <3>5. QED
      BY <3>1, <3>4
  <2>3. QED
    BY <2>1, <2>2
<1>3. M \subseteq Node /\ \A n \in M : Matches(n)
  OBVIOUS
<1> HIDE DEF M
<1>4. s \in Seq(Node) /\ \A i \in 1 .. Len(s) : s[i] \in M
  BY <1>2, <1>3
<1>5. QED
  BY <1>3, <1>4

(* What the search goes on with behind a node that matches                 *)
LEMMA Behind ==
  ASSUME IInv, activations # <<>>, NEW n \in Node, NEW points \in Seq(Node)
  PROVE  /\ NextCandidates(n) \subseteq Node /\ IsFiniteSet(NextCandidates(n))
         /\ NextBranches(n) \subseteq Node \X Node
         /\ NextPoints(points, n) \in Seq(Node)
<1>1. Top \in Act /\ p \in Programs
  BY TopTyped DEF IInv, Typed
<1>2. NextCandidates(n) \subseteq Node
  BY <1>1, ProgramTyped DEF NextCandidates, Successors
<1>3. IsFiniteSet(NextCandidates(n))
  <2>1. IsFiniteSet({p.first}) /\ IsFiniteSet({p.true[n]} \cup {p.false[n]})
    BY FS_Singleton, FS_Union
  <2>2. Successors(n) = {p.true[n]} \cup {p.false[n]}
    BY DEF Successors
  <2>3. QED
    BY <2>1, <2>2 DEF NextCandidates
<1>4. NextBranches(n) \subseteq Node \X Node
  BY <1>1, ProgramTyped DEF NextBranches, Act
<1>5. NextPoints(points, n) \in Seq(Node)
  BY DEF NextPoints
<1>6. QED
  BY <1>2, <1>3, <1>4, <1>5

(* The points of the current activation are nodes.                         *)
LEMMA PointsTyped ==
  ASSUME IInv, activations # <<>>
  PROVE  Points \in Seq(Node)
<1>1. Top.points \in Seq(Node)
  BY TopTyped DEF Act
<1>2. QED
  BY <1>1, TakenOff DEF Points, Popped

(* A node that matches the mark at the index of the top is put into the    *)
(* list.                                                                   *)
LEMMA Listed ==
  ASSUME IInv, activations # <<>>, NEW n \in Node, Top.index < Len(walk), Matches(n),
         p' = p, walk' = walk, statements' = statements \cup {n}
  PROVE  /\ MarksMatched(p, walk, statements', Top.index + 1)
         /\ statements' \subseteq Node /\ NodesMatch'
         /\ found' = found => PathFound'
<1>1. Top \in Act /\ Good(p, walk, statements, Top) /\ Len(walk) \in Nat
  BY TopTyped
<1>2. Top.index \in Nat /\ Top.index + 1 \in 1 .. Len(walk)
  BY <1>1 DEF Act
<1>3. p.label[n] = p.label[walk[Top.index + 1]]
  BY DEF Matches, Marked
<1>4. MarksMatched(p, walk, statements', Top.index)
  BY <1>1 DEF Good, MarksMatched
<1>5. MarksMatched(p, walk, statements', Top.index + 1)
  BY <1>2, <1>3, <1>4, OneMoreMark
<1>6. NodesMatch'
  BY <1>2, <1>3 DEF IInv, NodesMatch
<1>7. found' = found => PathFound'
  BY DEF IInv, PathFound, MarksMatched
<1>8. QED
  BY <1>5, <1>6, <1>7 DEF IInv, Typed

-----------------------------------------------------------------------------
(* The inductive invariant holds initially.                                *)
LEMMA InitInv == Init => IInv
<1> SUFFICES ASSUME Init PROVE IInv
  OBVIOUS
<1>1. Typed
  <2>1. p \in Programs /\ at \in Node
    BY ProgramTyped DEF Init
  <2>2. walk \in Seq(Node) /\ frames \in Seq(Frame) /\ activations \in Seq(Act)
    BY DEF Init
  <2>3. QED
    BY <2>1, <2>2 DEF Init, Typed
<1>2. Resting /\ Searching /\ NodesMatch /\ PathFound
  BY DEF Init, Resting, Searching, NodesMatch, PathFound
<1>3. QED
  BY <1>1, <1>2 DEF IInv

(* The execution of a statement, or the return from a call, preserves the  *)
(* inductive invariant.                                                    *)
LEMMA RunInv ==
  ASSUME IInv, Run \/ ReturnFromCall
  PROVE  IInv'
<1>1. /\ p' = p /\ pc = "run" /\ pc' = pc /\ activations' = activations
      /\ statements' = statements /\ branches' = branches
      /\ found' = found /\ complete' = complete
  BY DEF Run, ReturnFromCall, mapVars
<1>2. activations = <<>> /\ statements = {} /\ ~ found
  BY <1>1 DEF IInv, Resting
<1>3. at' \in Node /\ walk' \in Seq(Node) /\ frames' \in Seq(Frame)
  <2>1. CASE Run
    <3>1. PICK k \in p.calls[at] :
            IF k = 0 THEN at' \in p.next[at] /\ UNCHANGED frames
            ELSE frames' = Append(frames, [node |-> at, left |-> k - 1]) /\ at' = p.first
      BY <2>1 DEF Run
    <3>2. at \in Node /\ p.next[at] \subseteq Node /\ p.first \in Node /\ k \in 0 .. 2
      BY ProgramTyped DEF IInv, Typed
    <3>3. walk' \in Seq(Node)
      BY <2>1, <3>2 DEF Run, IInv, Typed
    <3>4. k # 0 => [node |-> at, left |-> k - 1] \in Frame
      BY <3>2 DEF Frame
    <3>5. CASE k = 0
      BY <3>1, <3>2, <3>3, <3>5 DEF IInv, Typed
    <3>6. CASE k # 0
      <4>1. frames' = Append(frames, [node |-> at, left |-> k - 1]) /\ at' = p.first
        BY <3>1, <3>6
      <4>2. QED
        BY <3>2, <3>3, <3>4, <3>6, <4>1 DEF IInv, Typed
    <3>7. QED
      BY <3>5, <3>6
  <2>2. CASE ReturnFromCall
    <3> DEFINE fr == Last(frames)
    <3>1. /\ frames # <<>> /\ walk' = walk
          /\ IF fr.left = 0 THEN frames' = Front(frames) /\ at' \in p.next[fr.node]
             ELSE frames' = Append(Front(frames), [fr EXCEPT !.left = @ - 1]) /\ at' = p.first
      BY <2>2 DEF ReturnFromCall
    <3>2. fr \in Frame /\ Front(frames) \in Seq(Frame)
      BY <3>1, TakenOff DEF IInv, Typed
    <3> HIDE DEF fr
    <3>3. p.next[fr.node] \subseteq Node /\ p.first \in Node
      BY <3>2, ProgramTyped DEF IInv, Typed, Frame
    <3>4. fr.left # 0 => [fr EXCEPT !.left = @ - 1] \in Frame
      BY <3>2 DEF Frame
    <3>5. walk' \in Seq(Node)
      BY <3>1 DEF IInv, Typed
    <3>6. CASE fr.left = 0
      BY <3>1, <3>2, <3>3, <3>5, <3>6
    <3>7. CASE fr.left # 0
      <4>1. frames' = Append(Front(frames), [fr EXCEPT !.left = @ - 1]) /\ at' = p.first
        BY <3>1, <3>7
      <4>2. QED
        BY <3>2, <3>3, <3>4, <3>5, <3>7, <4>1
    <3>8. QED
      BY <3>6, <3>7
  <2>3. QED
    BY <2>1, <2>2
<1>4. Typed'
  BY <1>1, <1>3 DEF IInv, Typed
<1>5. QED
  BY <1>1, <1>2, <1>4 DEF IInv, Resting, Searching, NodesMatch, PathFound

(* The end of the execution, which starts the mapping, preserves it.       *)
LEMMA StopInv ==
  ASSUME IInv, Stop
  PROVE  IInv'
<1> DEFINE a == Activation(0, {p.first}, p.end, {}, <<>>)
<1>1. /\ p' = p /\ walk' = walk /\ at' = at /\ frames' = frames /\ pc = "run" /\ pc' = "map"
      /\ activations' = <<a>> /\ statements' = statements /\ branches' = branches
      /\ found' = found /\ complete' = complete
  BY DEF Stop, runVars
<1>2. p.first \in Node /\ p.end \in Node
  BY ProgramTyped DEF IInv, Typed
<1>3. a \in Act
  BY <1>2 DEF Act, Activation
<1>4. Good(p, walk, statements, a)
  <2>1. IsFiniteSet({p.first})
    BY FS_Singleton
  <2>2. a.index = 0 /\ a.candidates = {p.first} /\ a.todo = <<>> /\ a.step = "enter"
    BY DEF Activation
  <2>3. Len(walk) >= 0 /\ Len(walk) \in Nat
    BY DEF IInv, Typed
  <2> HIDE DEF a
  <2>4. QED
    BY <2>1, <2>2, <2>3 DEF Good, MarksMatched
<1> HIDE DEF a
<1>5. Typed'
  BY <1>1, <1>3 DEF IInv, Typed
<1>6. Searching'
  BY <1>1, <1>4 DEF Searching
<1>7. QED
  BY <1>1, <1>5, <1>6 DEF IInv, Resting, NodesMatch, PathFound

(* What the end of the search assigns is of the right type.                *)
LEMMA ReachEndTyped ==
  ASSUME IInv, NEW a \in Act, NEW S \in SUBSET Node, ReachEnd(a, S)
  PROVE  /\ found' \in BOOLEAN /\ branches' \subseteq Node \X Node /\ complete' \in BOOLEAN
BY DEF ReachEnd, Act, IInv, Typed

(* Entering an activation of the search preserves it.                      *)
LEMMA EnterInv ==
  ASSUME IInv, Enter \/ EnterFound
  PROVE  IInv'
<1>1. /\ p' = p /\ walk' = walk /\ at' = at /\ frames' = frames /\ pc' = pc /\ pc = "map"
      /\ statements' = statements /\ activations # <<>> /\ Top.step = "enter"
  BY DEF Enter, EnterFound, runVars, Mapping
<1>2. Top \in Act /\ Good(p, walk, statements, Top)
  BY <1>1, TopTyped
<1>3. ASSUME NEW st \in {"match", "return"}, Put([Top EXCEPT !.step = st]),
             st = "match" => Top.index < Len(walk)
      PROVE  activations' \in Seq(Act) /\ Searching'
  <2> DEFINE a == [Top EXCEPT !.step = st]
  <2>1. a \in Act
    BY <1>2 DEF Act
  <2>2. a.index = Top.index /\ a.candidates = Top.candidates /\ a.todo = Top.todo /\ a.step = st
    BY <1>2 DEF Act
  <2>3. activations' = Append(Front(activations), a)
    BY <1>3 DEF Put
  <2> HIDE DEF a
  <2>4. Good(p, walk, statements, a)
    BY <1>1, <1>2, <1>3, <2>2 DEF Good
  <2>5. QED
    BY <1>1, <2>1, <2>3, <2>4, Goes DEF IInv, Typed
<1>4. NodesMatch'
  BY <1>1 DEF IInv, NodesMatch
<1>5. CASE Enter /\ Top.index = Len(walk)
  <2>1. ReachEnd(Top, statements) /\ Put([Top EXCEPT !.step = "return"])
    BY <1>5 DEF Enter
  <2>2. MarksMatched(p, walk, statements, Len(walk))
    BY <1>2, <1>5 DEF Good
  <2>3. found' \in BOOLEAN /\ branches' \subseteq Node \X Node /\ complete' \in BOOLEAN
    BY <1>2, <2>1, ReachEndTyped DEF IInv, Typed
  <2>4. activations' \in Seq(Act) /\ Searching'
    BY <1>3, <2>1
  <2>5. Typed' /\ Resting'
    BY <1>1, <2>3, <2>4 DEF IInv, Typed, Resting
  <2>6. PathFound'
    BY <1>1, <2>2 DEF PathFound
  <2>7. QED
    BY <1>4, <2>4, <2>5, <2>6 DEF IInv
<1>6. CASE Enter /\ Top.index # Len(walk)
  <2>1. /\ Put([Top EXCEPT !.step = "match"])
        /\ found' = found /\ branches' = branches /\ complete' = complete
    BY <1>6 DEF Enter
  <2>2. Top.index < Len(walk)
    <3>1. Top.index \in Nat /\ Len(walk) \in Nat /\ Top.index <= Len(walk)
      BY <1>2 DEF Act, Good, IInv, Typed
    <3>2. QED
      BY <1>6, <3>1
  <2>3. activations' \in Seq(Act) /\ Searching'
    BY <1>3, <2>1, <2>2
  <2>4. Typed' /\ Resting' /\ PathFound'
    BY <1>1, <2>1, <2>3 DEF IInv, Typed, Resting, PathFound
  <2>5. QED
    BY <1>4, <2>3, <2>4 DEF IInv
<1>7. CASE EnterFound
  <2>1. /\ Put([Top EXCEPT !.step = "return"])
        /\ found' = found /\ branches' = branches /\ complete' = complete
    BY <1>7 DEF EnterFound
  <2>2. activations' \in Seq(Act) /\ Searching'
    BY <1>3, <2>1
  <2>3. Typed' /\ Resting' /\ PathFound'
    BY <1>1, <2>1, <2>2 DEF IInv, Typed, Resting, PathFound
  <2>4. QED
    BY <1>4, <2>2, <2>3 DEF IInv
<1>8. QED
  BY <1>5, <1>6, <1>7

(* A mark that no node or several nodes match preserves it.                *)
LEMMA MatchNoneOrSeveralInv ==
  ASSUME IInv, MappingFails \/ MatchSeveral
  PROVE  IInv'
<1>1. /\ p' = p /\ walk' = walk /\ at' = at /\ frames' = frames /\ pc' = pc /\ pc = "map"
      /\ statements' = statements /\ activations # <<>> /\ Mapping("match") /\ Top.step = "match"
      /\ found' = found /\ branches' = branches /\ complete' = complete
  BY DEF MappingFails, MatchSeveral, runVars, Mapping
<1>2. Top \in Act /\ Good(p, walk, statements, Top) /\ Points \in Seq(Node)
  BY <1>1, TopTyped, PointsTyped
<1>3. Top.index < Len(walk)
  BY <1>1, <1>2 DEF Good
<1>4. activations' \in Seq(Act) /\ Searching'
  <2>1. CASE MappingFails
    <3> DEFINE a == [Top EXCEPT !.step = "return", !.points = Points]
    <3>1. a \in Act
      BY <1>2 DEF Act
    <3>2. a.index = Top.index /\ a.candidates = Top.candidates /\ a.todo = Top.todo
          /\ a.step = "return"
      BY <1>2 DEF Act
    <3>3. activations' = Append(Front(activations), a)
      BY <2>1 DEF MappingFails, Put
    <3> HIDE DEF a
    <3>4. Good(p, walk, statements, a)
      BY <1>2, <3>2 DEF Good
    <3>5. QED
      BY <1>1, <3>1, <3>3, <3>4, Goes DEF IInv, Typed
  <2>2. CASE MatchSeveral
    <3>1. PICK s \in MatchingLists : Put([Top EXCEPT !.step = "fork", !.todo = s, !.points = Points])
      BY <2>2 DEF MatchSeveral
    <3>2. s \in Seq(Node) /\ \A i \in 1 .. Len(s) : Matches(s[i])
      BY <1>1, ListsMatch
    <3> DEFINE a == [Top EXCEPT !.step = "fork", !.todo = s, !.points = Points]
    <3>3. a \in Act
      BY <1>2, <3>2 DEF Act
    <3>4. a.index = Top.index /\ a.candidates = Top.candidates /\ a.todo = s /\ a.step = "fork"
      BY <1>2 DEF Act
    <3>5. activations' = Append(Front(activations), a)
      BY <3>1 DEF Put
    <3> HIDE DEF a
    <3>6. \A i \in 1 .. Len(s) : p.label[s[i]] = p.label[walk[Top.index + 1]]
      BY <3>2 DEF Matches, Marked
    <3>7. Good(p, walk, statements, a)
      BY <1>2, <1>3, <3>4, <3>6 DEF Good
    <3>8. QED
      BY <1>1, <3>3, <3>5, <3>7, Goes DEF IInv, Typed
  <2>3. QED
    BY <2>1, <2>2
<1>5. Typed' /\ Resting' /\ NodesMatch' /\ PathFound'
  BY <1>1, <1>4 DEF IInv, Typed, Resting, NodesMatch, PathFound
<1>6. QED
  BY <1>4, <1>5 DEF IInv

(* A node that is the only one to match                                    *)
LEMMA OnlyMatch ==
  ASSUME IInv, Mapping("match"), NEW n \in Node, <<n>> \in MatchingLists
  PROVE  /\ activations # <<>> /\ pc = "map" /\ Matches(n) /\ Top.index < Len(walk)
         /\ Top \in Act /\ Good(p, walk, statements, Top)
<1>1. activations # <<>> /\ pc = "map" /\ Top.step = "match"
  BY DEF Mapping
<1>2. Top \in Act /\ Good(p, walk, statements, Top)
  BY <1>1, TopTyped
<1>3. Matches(n)
  <2>1. \A i \in 1 .. Len(<<n>>) : Matches(<<n>>[i])
    BY ListsMatch
  <2>2. 1 \in 1 .. Len(<<n>>) /\ <<n>>[1] = n
    OBVIOUS
  <2>3. QED
    BY <2>1, <2>2
<1>4. QED
  BY <1>1, <1>2, <1>3 DEF Good

(* A mark that one node matches preserves it.                              *)
LEMMA MatchOneInv ==
  ASSUME IInv, NEW n \in Node, MatchOne(n)
  PROVE  IInv'
<1> DEFINE b == [Top EXCEPT !.index = @ + 1, !.candidates = NextCandidates(n),
                            !.previous = n, !.branches = NextBranches(n),
                            !.points = NextPoints(Points, n)]
<1> DEFINE r == [b EXCEPT !.step = "return"]
<1>1. /\ p' = p /\ walk' = walk /\ at' = at /\ frames' = frames /\ pc' = pc
      /\ Mapping("match") /\ <<n>> \in MatchingLists /\ statements' = statements \cup {n}
  BY DEF MatchOne, runVars
<1>2. \/ b.index = Len(walk) /\ ReachEnd(b, statements') /\ Put(r)
      \/ /\ b.index # Len(walk) /\ Put(b)
         /\ found' = found /\ branches' = branches /\ complete' = complete
  BY DEF MatchOne
<1>3. /\ activations # <<>> /\ pc = "map" /\ Matches(n) /\ Top.index < Len(walk)
      /\ Top \in Act /\ Good(p, walk, statements, Top) /\ Top.step = "match"
  BY <1>1, OnlyMatch DEF Mapping
<1>4. /\ NextCandidates(n) \subseteq Node /\ IsFiniteSet(NextCandidates(n))
      /\ NextBranches(n) \subseteq Node \X Node /\ NextPoints(Points, n) \in Seq(Node)
  BY <1>3, Behind, PointsTyped
<1>5. b \in Act
  <2>1. /\ NextCandidates(n) \in SUBSET Node /\ NextBranches(n) \in SUBSET (Node \X Node)
        /\ Top.index + 1 \in Nat
    BY <1>3, <1>4 DEF Act
  <2>2. QED
    BY <1>3, <1>4, <2>1 DEF Act
<1>6. /\ b.index = Top.index + 1 /\ b.candidates = NextCandidates(n) /\ b.todo = Top.todo
      /\ b.step = "match"
  BY <1>3 DEF Act
<1> HIDE DEF b
<1>7. /\ r \in Act /\ r.index = b.index /\ r.candidates = b.candidates /\ r.todo = b.todo
      /\ r.step = "return"
  BY <1>5 DEF Act
<1> HIDE DEF r
<1>8. Top.todo = <<>> /\ Top.index \in Nat /\ Len(walk) \in Nat
  BY <1>3 DEF Good, Act, IInv, Typed
<1>9. /\ MarksMatched(p, walk, statements', Top.index + 1)
      /\ statements' \in SUBSET Node /\ NodesMatch' /\ (found' = found => PathFound')
  BY <1>1, <1>3, Listed
<1>10. CASE b.index = Len(walk) /\ ReachEnd(b, statements') /\ Put(r)
  <2>1. activations' = Append(Front(activations), r)
    BY <1>10 DEF Put
  <2>2. Good(p, walk, statements', r)
    BY <1>4, <1>6, <1>7, <1>8, <1>9, <1>10 DEF Good
  <2>3. activations' \in Seq(Act) /\ Searching'
    BY <1>1, <1>3, <1>7, <1>9, <2>1, <2>2, Goes
  <2>4. found' \in BOOLEAN /\ branches' \subseteq Node \X Node /\ complete' \in BOOLEAN
    BY <1>5, <1>9, <1>10, ReachEndTyped
  <2>5. PathFound'
    BY <1>1, <1>6, <1>9, <1>10 DEF PathFound
  <2>6. Typed' /\ Resting'
    BY <1>1, <1>3, <1>9, <2>3, <2>4 DEF IInv, Typed, Resting
  <2>7. QED
    BY <1>9, <2>3, <2>5, <2>6 DEF IInv
<1>11. CASE /\ b.index # Len(walk) /\ Put(b)
            /\ found' = found /\ branches' = branches /\ complete' = complete
  <2>1. activations' = Append(Front(activations), b)
    BY <1>11 DEF Put
  <2>2. b.index < Len(walk)
    BY <1>3, <1>6, <1>8, <1>11
  <2>3. Good(p, walk, statements', b)
    BY <1>4, <1>6, <1>8, <1>9, <2>2 DEF Good
  <2>4. activations' \in Seq(Act) /\ Searching'
    BY <1>1, <1>3, <1>5, <1>9, <2>1, <2>3, Goes
  <2>5. Typed' /\ Resting'
    BY <1>1, <1>3, <1>9, <1>11, <2>4 DEF IInv, Typed, Resting
  <2>6. QED
    BY <1>9, <1>11, <2>4, <2>5 DEF IInv
<1>12. QED
  BY <1>2, <1>10, <1>11

(* The activation that is called for a node that matches                   *)
LEMMA Called ==
  ASSUME IInv, activations # <<>>, NEW n \in Node, Top.index < Len(walk), Matches(n),
         NEW points \in Seq(Node), p' = p, walk' = walk, statements' = statements \cup {n}
  PROVE  LET b == Activation(Top.index + 1, NextCandidates(n), n, NextBranches(n), points)
         IN b \in Act /\ Good(p, walk, statements', b)
<1> DEFINE b == Activation(Top.index + 1, NextCandidates(n), n, NextBranches(n), points)
<1>1. Top \in Act /\ Top.index \in Nat /\ Len(walk) \in Nat
  BY TopTyped DEF Act
<1>2. /\ NextCandidates(n) \in SUBSET Node /\ IsFiniteSet(NextCandidates(n))
      /\ NextBranches(n) \in SUBSET (Node \X Node)
  BY Behind
<1>3. MarksMatched(p, walk, statements', Top.index + 1)
  BY Listed
<1>4. b \in Act
  BY <1>1, <1>2 DEF Act, Activation
<1>5. /\ b.index = Top.index + 1 /\ b.candidates = NextCandidates(n)
      /\ b.todo = <<>> /\ b.step = "enter"
  BY DEF Activation
<1> HIDE DEF b
<1>6. Good(p, walk, statements', b)
  BY <1>1, <1>2, <1>3, <1>5 DEF Good
<1>7. QED
  BY <1>4, <1>6 DEF b

(* A mark that a call of the function itself matches preserves it.         *)
LEMMA MatchCallInv ==
  ASSUME IInv, NEW n \in Node, MatchCall(n)
  PROVE  IInv'
<1> DEFINE a == [Top EXCEPT !.step = "return"]
<1> DEFINE b == Activation(Top.index + 1, NextCandidates(n), n, NextBranches(n),
                           NextPoints(Points, n))
<1>1. /\ p' = p /\ walk' = walk /\ at' = at /\ frames' = frames /\ pc' = pc
      /\ Mapping("match") /\ <<n>> \in MatchingLists /\ statements' = statements \cup {n}
      /\ activations' = Append(Append(Front(activations), a), b)
      /\ branches' = branches /\ found' = found /\ complete' = complete
  BY DEF MatchCall, runVars
<1>2. /\ activations # <<>> /\ pc = "map" /\ Matches(n) /\ Top.index < Len(walk)
      /\ Top \in Act /\ Good(p, walk, statements, Top)
  BY <1>1, OnlyMatch
<1>3. b \in Act /\ Good(p, walk, statements', b)
  BY <1>1, <1>2, Called, Behind, PointsTyped
<1> HIDE DEF b
<1>4. a \in Act /\ a.index = Top.index /\ a.candidates = Top.candidates /\ a.todo = Top.todo
      /\ a.step = "return"
  BY <1>2 DEF Act
<1> HIDE DEF a
<1>5. Good(p, walk, statements', a)
  <2>1. Good(p, walk, statements, a)
    BY <1>2, <1>4 DEF Good
  <2>2. QED
    BY <1>1, <2>1, MoreNodes
<1>6. statements' \in SUBSET Node /\ NodesMatch' /\ PathFound'
  BY <1>1, <1>2, Listed
<1>7. activations' \in Seq(Act) /\ Searching'
  BY <1>1, <1>2, <1>3, <1>4, <1>5, <1>6, GoesDeeper
<1>8. Typed' /\ Resting'
  BY <1>1, <1>2, <1>6, <1>7 DEF IInv, Typed, Resting
<1>9. QED
  BY <1>6, <1>7, <1>8 DEF IInv

(* Trying the next of several nodes preserves it.                          *)
LEMMA ForkInv ==
  ASSUME IInv, Fork
  PROVE  IInv'
<1> DEFINE n == Head(Top.todo)
<1> DEFINE a == [Top EXCEPT !.todo = Tail(@), !.points = NextPoints(@, n)]
<1> DEFINE b == Activation(Top.index + 1, NextCandidates(n), n, NextBranches(n), a.points)
<1>1. /\ p' = p /\ walk' = walk /\ at' = at /\ frames' = frames /\ pc' = pc /\ pc = "map"
      /\ activations # <<>> /\ Top.step = "fork" /\ Top.todo # <<>>
      /\ statements' = statements \cup {n}
      /\ activations' = Append(Append(Front(activations), a), b)
      /\ branches' = branches /\ found' = found /\ complete' = complete
  BY DEF Fork, runVars, Mapping
<1>2. Top \in Act /\ Good(p, walk, statements, Top)
  BY <1>1, TopTyped
<1>3. /\ Top.todo \in Seq(Node) /\ n \in Node /\ n = Top.todo[1]
      /\ 1 \in 1 .. Len(Top.todo)
      /\ Tail(Top.todo) \in Seq(Node) /\ Len(Tail(Top.todo)) = Len(Top.todo) - 1
      /\ \A i \in 1 .. Len(Tail(Top.todo)) : Tail(Top.todo)[i] = Top.todo[i + 1]
  <2>1. Top.todo \in Seq(Node)
    BY <1>2 DEF Act
  <2>2. QED
    BY <1>1, <2>1, HeadTailProperties
<1>4. Top.index < Len(walk) /\ Matches(n)
  BY <1>2, <1>3 DEF Good, Matches, Marked
<1> HIDE DEF n
<1>5. NextPoints(Top.points, n) \in Seq(Node)
  BY <1>1, <1>2, <1>3, Behind DEF Act
<1>6. /\ a \in Act /\ a.index = Top.index /\ a.candidates = Top.candidates
      /\ a.todo = Tail(Top.todo) /\ a.step = "fork" /\ a.points \in Seq(Node)
  BY <1>1, <1>2, <1>3, <1>5 DEF Act
<1> HIDE DEF a
<1>7. b \in Act /\ Good(p, walk, statements', b)
  BY <1>1, <1>3, <1>4, <1>6, Called
<1> HIDE DEF b
<1>8. Good(p, walk, statements', a)
  <2>1. ASSUME NEW i \in 1 .. Len(a.todo)
        PROVE  a.index < Len(walk) /\ p.label[a.todo[i]] = p.label[walk[a.index + 1]]
    <3>1. a.todo[i] = Top.todo[i + 1] /\ i + 1 \in 1 .. Len(Top.todo)
      BY <1>3, <1>6
    <3>2. QED
      BY <1>2, <1>6, <3>1 DEF Good
  <2>2. Good(p, walk, statements, a)
    BY <1>2, <1>6, <2>1 DEF Good
  <2>3. QED
    BY <1>1, <2>2, MoreNodes
<1>9. statements' \in SUBSET Node /\ NodesMatch' /\ PathFound'
  BY <1>1, <1>3, <1>4, Listed
<1>10. activations' \in Seq(Act) /\ Searching'
  BY <1>1, <1>6, <1>7, <1>8, <1>9, GoesDeeper
<1>11. Typed' /\ Resting'
  BY <1>1, <1>9, <1>10 DEF IInv, Typed, Resting
<1>12. QED
  BY <1>9, <1>10, <1>11 DEF IInv

(* The return from an activation of the search preserves it.               *)
LEMMA ReturnInv ==
  ASSUME IInv, Return
  PROVE  IInv'
<1>1. /\ p' = p /\ walk' = walk /\ at' = at /\ frames' = frames /\ pc' = pc /\ pc = "map"
      /\ statements' = statements /\ activations # <<>>
      /\ activations' = Front(activations)
      /\ found' = found /\ branches' = branches /\ complete' = complete
  BY DEF Return, runVars, Mapping
<1>2. /\ activations' \in Seq(Act) /\ Len(activations') = Len(activations) - 1
      /\ \A j \in 1 .. Len(activations) - 1 : activations'[j] = activations[j]
      /\ Len(activations) \in Nat
  <2>1. activations \in Seq(Act) /\ activations # <<>>
    BY <1>1 DEF IInv, Typed
  <2>2. /\ Front(activations) \in Seq(Act) /\ Len(Front(activations)) = Len(activations) - 1
        /\ \A j \in 1 .. Len(activations) - 1 : Front(activations)[j] = activations[j]
    BY <2>1, TakenOff
  <2>3. Len(activations) \in Nat
    BY <2>1
  <2>4. QED
    BY <1>1, <2>2, <2>3
<1>3. Searching'
  <2>1. ASSUME NEW j \in 1 .. Len(activations') PROVE Good(p, walk, statements, activations'[j])
    <3>1. activations'[j] = activations[j] /\ j \in 1 .. Len(activations)
      BY <1>2
    <3>2. QED
      BY <3>1 DEF IInv, Searching
  <2>2. QED
    BY <1>1, <2>1 DEF Searching
<1>4. QED
  BY <1>1, <1>2, <1>3 DEF IInv, Typed, Resting, NodesMatch, PathFound

(* The update of the coverage, and steps that change nothing, preserve it. *)
LEMMA RestInv ==
  ASSUME IInv, Update \/ Terminated \/ UNCHANGED vars
  PROVE  IInv'
<1>1. /\ UNCHANGED <<runVars, mapVars>>
      /\ pc' = pc \/ pc' = "done"
  BY DEF Update, Terminated, vars, runVars, mapVars
<1>2. Typed' /\ Resting'
  BY <1>1 DEF IInv, Typed, Resting, runVars, mapVars
<1>3. Searching' /\ NodesMatch' /\ PathFound'
  BY <1>1 DEF IInv, Searching, NodesMatch, PathFound, runVars, mapVars
<1>4. QED
  BY <1>2, <1>3 DEF IInv

(* The inductive invariant holds in every reachable state: types, and no   *)
(* activation is ahead of the marks it has matched.                        *)
LEMMA Invariance == Spec => []IInv
<1>1. IInv /\ [Next]_vars => IInv'
  <2> SUFFICES ASSUME IInv, [Next]_vars PROVE IInv'
    OBVIOUS
  <2>1. CASE Run \/ ReturnFromCall
    BY <2>1, RunInv
  <2>2. CASE Stop
    BY <2>2, StopInv
  <2>3. CASE Enter \/ EnterFound
    BY <2>3, EnterInv
  <2>4. CASE MappingFails \/ MatchSeveral
    BY <2>4, MatchNoneOrSeveralInv
  <2>5. ASSUME NEW n \in Node, MatchOne(n) \/ MatchCall(n) PROVE IInv'
    BY <2>5, MatchOneInv, MatchCallInv
  <2>6. CASE Fork
    BY <2>6, ForkInv
  <2>7. CASE Return
    BY <2>7, ReturnInv
  <2>8. CASE Update \/ Terminated \/ UNCHANGED vars
    BY <2>8, RestInv
  <2>9. QED
    BY <2>1, <2>2, <2>3, <2>4, <2>5, <2>6, <2>7, <2>8 DEF Next, Map, Match
<1>2. QED
  BY <1>1, InitInv, PTL DEF Spec

(* Every reachable state of the execution and of its mapping is well       *)
(* typed; no activation is ahead of the marks.                             *)
THEOREM TypeCorrect == Spec => []TypeOK
<1>1. IInv => TypeOK
  <2> SUFFICES ASSUME IInv, NEW i \in 1 .. Len(activations)
               PROVE  LET a == activations[i] IN
                        /\ a.index \in 0 .. Len(walk)
                        /\ a.candidates \subseteq Node /\ a.points \in Seq(Node)
                        /\ a.todo \in Seq(Node)
                        /\ a.step \in {"enter", "match", "fork", "return"}
    BY DEF IInv, Typed, TypeOK
  <2>1. activations[i] \in Act /\ Good(p, walk, statements, activations[i])
        /\ Len(walk) \in Nat
    BY DEF IInv, Typed, Searching
  <2>2. QED
    BY <2>1 DEF Act, Good
<1>2. QED
  BY <1>1, Invariance, PTL

(* Whatever the search has tried in vain, the nodes that count as visited  *)
(* are, but for scopes, the nodes executed.                                *)
THEOREM VisitedExecuted == Spec => []StatementsExact
<1>1. IInv => StatementsExact
  <2> SUFFICES ASSUME IInv, found, Distinct
               PROVE  {n \in Visited : p.label[n] \notin Scope}
                        = {n \in Executed : p.label[n] \notin Scope}
    BY DEF StatementsExact
  <2>1. Visited = statements /\ statements \subseteq Node /\ walk \in Seq(Node)
    BY DEF Visited, IInv, Typed
  <2>2. ASSUME NEW n \in statements, p.label[n] \notin Scope PROVE n \in Executed
    <3>1. PICK i \in 1 .. Len(walk) : p.label[n] = p.label[walk[i]]
      BY DEF IInv, NodesMatch
    <3>2. walk[i] \in Node /\ n \in Node
      BY <2>1
    <3>3. n = walk[i]
      BY <2>2, <3>1, <3>2 DEF Distinct
    <3>4. QED
      BY <3>3 DEF Executed
  <2>3. ASSUME NEW n \in Executed, p.label[n] \notin Scope PROVE n \in statements
    <3>1. PICK i \in 1 .. Len(walk) : n = walk[i]
      BY DEF Executed
    <3>2. PICK m \in statements : p.label[m] = p.label[walk[i]]
      BY DEF IInv, PathFound, MarksMatched
    <3>3. m \in Node /\ n \in Node
      BY <2>1, <3>1
    <3>4. m = n
      BY <2>3, <3>1, <3>2, <3>3 DEF Distinct
    <3>5. QED
      BY <3>4
  <2>4. QED
    BY <2>1, <2>2, <2>3
<1>2. QED
  BY <1>1, Invariance, PTL

-----------------------------------------------------------------------------
(* TwinsVisited.  The options for a mark are the nodes that match it of    *)
(* those that may come after the node executed before.  Where the twin of  *)
(* a node leads to nothing that matches, the search leaves the execution   *)
(* for one mark at most, so that all the nodes it lists are options; and   *)
(* as every option of a mark is put into the list, also after a path is    *)
(* found, all the options are listed in the end.                           *)
Plain == Regular /\ Distinct /\ Shallow

(* The execution is a walk through the graph.                              *)
Walking ==
  Regular => /\ frames = <<>>
             /\ IsWalk(p, walk)
             /\ IF walk = <<>> THEN at = p.first ELSE at \in After(p, walk[Len(walk)])

(* An activation is at an option of the mark before its index, and has     *)
(* options yet to try.                                                     *)
OnTrack(q, w, a) ==
  /\ a.points = <<>>
  /\ a.step \in {"enter", "match"} =>
       IF a.index = 0 THEN a.candidates = {q.first}
       ELSE a.candidates = After(q, a.previous) /\ a.previous \in Options(q, w, a.index)
  /\ a.step # "fork" => a.todo = <<>>
  /\ \A i \in 1 .. Len(a.todo) : a.todo[i] \in Options(q, w, a.index + 1)

Tracked ==
  Plain => /\ \A j \in 1 .. Len(activations) : OnTrack(p, walk, activations[j])
           /\ \A n \in statements : \E i \in 1 .. Len(walk) : n \in Options(p, walk, i)

(* A node is listed, or there is an activation that is going to list it.   *)
Waits(a, n, i) == a.index + 1 = i /\ \E l \in 1 .. Len(a.todo) : a.todo[l] = n
Due(S, A, n, i) == n \in S \/ \E j \in 1 .. Len(A) : Waits(A[j], n, i)

DueTo(q, w, S, A, k) == \A i \in 1 .. k : \A n \in Options(q, w, i) : Due(S, A, n, i)

(* An activation that is going to try the node executed                    *)
Aims(q, w, S, A, a) ==
  /\ a.step = "fork" /\ a.index < Len(w)
  /\ \E l \in 1 .. Len(a.todo) : a.todo[l] = w[a.index + 1]
  /\ \A k, l \in 1 .. Len(a.todo) : a.todo[k] = a.todo[l] => k = l
  /\ DueTo(q, w, S, A, a.index + 1)

(* An activation that has matched what was executed                        *)
Follows(q, w, S, A, a) ==
  /\ a.step \in {"enter", "match"}
  /\ a.index # 0 => a.previous = w[a.index]
  /\ DueTo(q, w, S, A, a.index)

(* An activation that has taken the twin instead, for its caller           *)
Strays(q, w, S, A, b, a) ==
  /\ Aims(q, w, S, A, b)
  /\ a.step \in {"enter", "match", "return"}
  /\ a.index = b.index + 1 /\ a.previous # w[a.index]

InSight(q, w, S, A) ==
  /\ A # <<>>
  /\ \/ Follows(q, w, S, A, Last(A))
     \/ Aims(q, w, S, A, Last(A))
     \/ Len(A) >= 2 /\ Strays(q, w, S, A, A[Len(A) - 1], Last(A))

InTheEnd ==
  Plain /\ pc # "run" =>
    /\ walk # <<>>
    /\ IF found THEN DueTo(p, walk, statements, activations, Len(walk))
       ELSE pc = "map" /\ InSight(p, walk, statements, activations)

Emptied == pc = "done" => activations = <<>>

Complete == Walking /\ Tracked /\ InTheEnd /\ Emptied

(* A step that keeps the program keeps what is said of it.                 *)
LEMMA SameProgram ==
  ASSUME p' = p
  PROVE  /\ Plain' = Plain /\ Regular' = Regular
BY DEF Plain, Regular, Distinct, Shallow, Successors

(* The search is on the track before it starts.                            *)
LEMMA InitComplete == Init => Complete
BY DEF Init, Complete, Walking, IsWalk, Tracked, InTheEnd, Emptied

-----------------------------------------------------------------------------
(* While the function runs                                                 *)
LEMMA WalkGoesOn ==
  ASSUME IInv, Complete, Run \/ ReturnFromCall
  PROVE  Complete'
<1>1. /\ p' = p /\ pc = "run" /\ pc' = pc /\ activations' = activations
      /\ statements' = statements /\ activations = <<>> /\ statements = {}
  BY DEF Run, ReturnFromCall, mapVars, IInv, Resting
<1>2. Tracked' /\ InTheEnd' /\ Emptied'
  BY <1>1 DEF Tracked, InTheEnd, Emptied
<1>3. Walking'
  <2> SUFFICES ASSUME Regular
               PROVE  /\ frames' = <<>>
                      /\ IsWalk(p, walk')
                      /\ IF walk' = <<>> THEN at' = p.first
                         ELSE at' \in After(p, walk'[Len(walk')])
    BY <1>1, SameProgram DEF Walking
  <2>1. /\ frames = <<>> /\ IsWalk(p, walk)
        /\ IF walk = <<>> THEN at = p.first ELSE at \in After(p, walk[Len(walk)])
    BY DEF Complete, Walking
  <2>2. Run
    BY <2>1 DEF ReturnFromCall
  <2>3. at \in Node /\ p.calls[at] = {0} /\ p.next[at] = After(p, at) /\ walk \in Seq(Node)
    BY DEF Regular, IInv, Typed, After, Successors
  <2>4. walk' = Append(walk, at) /\ at' \in After(p, at) /\ frames' = frames
    BY <2>2, <2>3 DEF Run
  <2>5. /\ Len(walk') = Len(walk) + 1 /\ walk' # <<>> /\ walk'[Len(walk')] = at
        /\ \A i \in 1 .. Len(walk) : walk'[i] = walk[i]
        /\ Len(walk) \in Nat
    BY <2>3, <2>4
  <2>6. IsWalk(p, walk')
    <3> SUFFICES ASSUME NEW i \in 1 .. Len(walk') PROVE walk'[i] \in Options(p, walk', i)
      BY DEF IsWalk
    <3>1. CASE i \in 1 .. Len(walk)
      <4>1. walk[i] \in Options(p, walk, i)
        BY <2>1, <3>1 DEF IsWalk
      <4>2. i # 1 => i - 1 \in 1 .. Len(walk)
        BY <2>5, <3>1
      <4>3. walk'[i] = walk[i] /\ (i # 1 => walk'[i - 1] = walk[i - 1])
        BY <2>5, <3>1, <4>2
      <4>4. QED
        BY <4>1, <4>3 DEF Options
    <3>2. CASE i = Len(walk) + 1
      <4>1. walk'[i] = at
        BY <2>5, <3>2
      <4>2. CASE walk = <<>>
        BY <2>1, <2>3, <3>2, <4>1, <4>2 DEF Options
      <4>3. CASE walk # <<>>
        <5>1. Len(walk) >= 1 /\ i # 1 /\ walk'[i - 1] = walk[Len(walk)]
          BY <2>3, <2>5, <3>2, <4>3
        <5>2. QED
          BY <2>1, <2>3, <4>1, <4>3, <5>1 DEF Options
      <4>4. QED
        BY <4>2, <4>3
    <3>3. QED
      BY <2>5, <3>1, <3>2
  <2>7. QED
    BY <2>1, <2>4, <2>5, <2>6
<1>4. QED
  BY <1>2, <1>3 DEF Complete

(* The search begins on the track when the execution stops.                *)
LEMMA SearchBegins ==
  ASSUME IInv, Complete, Stop
  PROVE  Complete'
<1> DEFINE a == Activation(0, {p.first}, p.end, {}, <<>>)
<1>1. /\ p' = p /\ walk' = walk /\ at' = at /\ frames' = frames /\ pc = "run" /\ pc' = "map"
      /\ activations' = <<a>> /\ statements' = statements /\ walk # <<>> /\ found' = found
  BY DEF Stop, runVars
<1>2. statements = {} /\ ~ found
  BY <1>1 DEF IInv, Resting
<1>3. /\ a.index = 0 /\ a.candidates = {p.first} /\ a.points = <<>> /\ a.todo = <<>>
      /\ a.step = "enter"
  BY DEF Activation
<1> HIDE DEF a
<1>4. Walking'
  BY <1>1, SameProgram DEF Complete, Walking
<1>5. Tracked'
  BY <1>1, <1>2, <1>3 DEF Tracked, OnTrack
<1>6. InTheEnd'
  <2>1. <<a>> # <<>> /\ Last(<<a>>) = a
    BY DEF Last
  <2>2. Follows(p, walk, statements, <<a>>, a)
    BY <1>3 DEF Follows, DueTo
  <2>3. InSight(p, walk, statements, <<a>>)
    BY <2>1, <2>2 DEF InSight
  <2>4. QED
    BY <1>1, <1>2, <2>3 DEF InTheEnd
<1>7. QED
  BY <1>1, <1>4, <1>5, <1>6 DEF Complete, Emptied


-----------------------------------------------------------------------------
(* While the nodes are looked for                                          *)
LEMMA WalkStays ==
  ASSUME Complete, p' = p, walk' = walk, at' = at, frames' = frames
  PROVE  Walking'
BY SameProgram DEF Complete, Walking

(* Item by item, what replacing the last item of a sequence does.          *)
LEMMA Changed ==
  ASSUME NEW A, NEW s \in Seq(A), s # <<>>, NEW a \in A
  PROVE  LET t == Append(Front(s), a) IN
         /\ t \in Seq(A) /\ t # <<>> /\ Len(t) = Len(s) /\ Last(t) = a /\ t[Len(s)] = a
         /\ \A j \in 1 .. Len(s) - 1 : t[j] = s[j]
<1> DEFINE t == Append(Front(s), a)
<1>1. Len(s) \in Nat /\ Len(s) >= 1
  OBVIOUS
<1>2. /\ t \in Seq(A) /\ Len(t) = Len(s)
      /\ \A j \in 1 .. Len(s) : t[j] = IF j = Len(s) THEN a ELSE s[j]
  BY Replaced
<1> HIDE DEF t
<1>3. t # <<>> /\ t[Len(s)] = a /\ \A j \in 1 .. Len(s) - 1 : t[j] = s[j]
  BY <1>1, <1>2
<1>4. Last(t) = a
  BY <1>2, <1>3 DEF Last
<1>5. QED
  BY <1>2, <1>3, <1>4 DEF t

(* Item by item, what replacing the last item and appending another does.  *)
LEMMA Pushed ==
  ASSUME NEW A, NEW s \in Seq(A), s # <<>>, NEW a \in A, NEW b \in A
  PROVE  LET t == Append(Append(Front(s), a), b) IN
         /\ t \in Seq(A) /\ t # <<>> /\ Len(t) = Len(s) + 1 /\ Last(t) = b
         /\ t[Len(t) - 1] = a /\ t[Len(s)] = a /\ t[Len(s) + 1] = b
         /\ \A j \in 1 .. Len(s) - 1 : t[j] = s[j]
<1> DEFINE r == Append(Front(s), a)
           t == Append(r, b)
<1>1. /\ r \in Seq(A) /\ Len(r) = Len(s) /\ r[Len(s)] = a
      /\ \A j \in 1 .. Len(s) - 1 : r[j] = s[j]
  BY Changed
<1>2. Len(s) \in Nat /\ Len(s) >= 1
  OBVIOUS
<1> HIDE DEF r
<1>3. /\ t \in Seq(A) /\ t # <<>> /\ Len(t) = Len(s) + 1 /\ t[Len(s) + 1] = b
      /\ t[Len(s)] = a /\ \A j \in 1 .. Len(s) - 1 : t[j] = s[j]
  BY <1>1, <1>2
<1> HIDE DEF t
<1>4. Last(t) = b /\ t[Len(t) - 1] = a
  <2>1. Len(t) - 1 = Len(s)
    BY <1>2, <1>3
  <2>2. QED
    BY <1>3, <2>1 DEF Last
<1>5. QED
  BY <1>3, <1>4 DEF t, r

(* What is due is not forgotten.                                           *)
LEMMA DueStays ==
  ASSUME NEW q, NEW w, NEW S, NEW T, S \subseteq T,
         NEW A \in Seq(Act), A # <<>>, NEW B \in Seq(Act), Len(B) >= Len(A) - 1,
         \A j \in 1 .. Len(A) - 1 : B[j] = A[j],
         \A l \in 1 .. Len(Last(A).todo) : Due(T, B, Last(A).todo[l], Last(A).index + 1)
  PROVE  /\ \A k : DueTo(q, w, S, A, k) => DueTo(q, w, T, B, k)
         /\ \A b : Aims(q, w, S, A, b) => Aims(q, w, T, B, b)
<1>1. Len(A) \in Nat /\ Len(B) \in Nat /\ Last(A) = A[Len(A)]
  BY DEF Last
<1>2. ASSUME NEW n, NEW i, Due(S, A, n, i) PROVE Due(T, B, n, i)
  <2>1. CASE n \in S
    BY <2>1 DEF Due
  <2>2. CASE \E j \in 1 .. Len(A) : Waits(A[j], n, i)
    <3>1. PICK j \in 1 .. Len(A) : Waits(A[j], n, i)
      BY <2>2
    <3>2. CASE j # Len(A)
      <4>1. j \in 1 .. Len(A) - 1 /\ j \in 1 .. Len(B)
        BY <1>1, <3>2
      <4>2. Waits(B[j], n, i)
        BY <3>1, <4>1
      <4>3. QED
        BY <4>1, <4>2 DEF Due
    <3>3. CASE j = Len(A)
      <4>1. Waits(Last(A), n, i)
        BY <1>1, <3>1, <3>3
      <4>2. Last(A).index + 1 = i /\ \E l \in 1 .. Len(Last(A).todo) : Last(A).todo[l] = n
        BY <4>1 DEF Waits
      <4>3. QED
        BY <4>2
    <3>4. QED
      BY <3>2, <3>3
  <2>3. QED
    BY <1>2, <2>1, <2>2 DEF Due
<1>3. \A k : DueTo(q, w, S, A, k) => DueTo(q, w, T, B, k)
  BY <1>2 DEF DueTo
<1>4. QED
  BY <1>3 DEF Aims

(* The activation that runs, where the function is plain                   *)
LEMMA TopTracked ==
  ASSUME IInv, Complete, Plain, activations # <<>>
  PROVE  /\ OnTrack(p, walk, Top) /\ Top \in Act /\ Good(p, walk, statements, Top)
         /\ Top = Last(activations) /\ Top = activations[Len(activations)]
         /\ Top.index \in Nat /\ Len(walk) \in Nat /\ walk \in Seq(Node)
         /\ IsWalk(p, walk) /\ Regular
         /\ activations \in Seq(Act) /\ Len(activations) \in Nat /\ Len(activations) >= 1
<1>1. Top \in Act /\ Good(p, walk, statements, Top)
  BY TopTyped
<1>2. activations \in Seq(Act) /\ walk \in Seq(Node)
  BY DEF IInv, Typed
<1>3. Len(activations) \in Nat /\ Len(activations) >= 1 /\ Len(walk) \in Nat
  BY <1>2
<1>4. Top = Last(activations) /\ Top = activations[Len(activations)]
  BY DEF Top, Last
<1>5. Len(activations) \in 1 .. Len(activations)
  BY <1>3
<1>6. OnTrack(p, walk, Top)
  BY <1>4, <1>5 DEF Complete, Tracked
<1>7. Regular /\ IsWalk(p, walk)
  BY DEF Plain, Complete, Walking
<1>8. QED
  BY <1>1, <1>2, <1>3, <1>4, <1>6, <1>7 DEF Act

(* A step that replaces the last activation by one on the track keeps all  *)
(* of them on it.                                                          *)
LEMMA TrackGoes ==
  ASSUME IInv, Complete, Plain, activations # <<>>, NEW a \in Act, OnTrack(p, walk, a),
         activations' = Append(Front(activations), a), p' = p, walk' = walk,
         \A n \in statements' : n \in statements \/ \E i \in 1 .. Len(walk) : n \in Options(p, walk, i)
  PROVE  Tracked'
<1>1. /\ Len(activations') = Len(activations) /\ activations'[Len(activations)] = a
      /\ \A j \in 1 .. Len(activations) - 1 : activations'[j] = activations[j]
      /\ Len(activations) \in Nat
  BY Changed DEF IInv, Typed
<1>2. ASSUME NEW j \in 1 .. Len(activations') PROVE OnTrack(p, walk, activations'[j])
  <2>1. CASE j = Len(activations)
    BY <1>1, <2>1
  <2>2. CASE j # Len(activations)
    <3>1. j \in 1 .. Len(activations) - 1 /\ j \in 1 .. Len(activations)
      BY <1>1, <2>2
    <3>2. QED
      BY <1>1, <3>1 DEF Complete, Tracked
  <2>3. QED
    BY <2>1, <2>2
<1>3. \A n \in statements' : \E i \in 1 .. Len(walk) : n \in Options(p, walk, i)
  BY DEF Complete, Tracked
<1>4. QED
  BY <1>2, <1>3 DEF Tracked

(* So does a step that calls another activation that is on the track.      *)
LEMMA TrackGoesDeeper ==
  ASSUME IInv, Complete, Plain, activations # <<>>, NEW a \in Act, NEW b \in Act,
         OnTrack(p, walk, a), OnTrack(p, walk, b),
         activations' = Append(Append(Front(activations), a), b), p' = p, walk' = walk,
         \A n \in statements' : n \in statements \/ \E i \in 1 .. Len(walk) : n \in Options(p, walk, i)
  PROVE  Tracked'
<1>1. /\ Len(activations') = Len(activations) + 1 /\ activations'[Len(activations)] = a
      /\ activations'[Len(activations) + 1] = b
      /\ \A j \in 1 .. Len(activations) - 1 : activations'[j] = activations[j]
      /\ Len(activations) \in Nat
  BY Pushed DEF IInv, Typed
<1>2. ASSUME NEW j \in 1 .. Len(activations') PROVE OnTrack(p, walk, activations'[j])
  <2>1. CASE j = Len(activations) \/ j = Len(activations) + 1
    BY <1>1, <2>1
  <2>2. CASE j # Len(activations) /\ j # Len(activations) + 1
    <3>1. j \in 1 .. Len(activations) - 1 /\ j \in 1 .. Len(activations)
      BY <1>1, <2>2
    <3>2. QED
      BY <1>1, <3>1 DEF Complete, Tracked
  <2>3. QED
    BY <2>1, <2>2
<1>3. \A n \in statements' : \E i \in 1 .. Len(walk) : n \in Options(p, walk, i)
  BY DEF Complete, Tracked
<1>4. QED
  BY <1>2, <1>3 DEF Tracked

(* The options for a mark are the nodes after the last one that match it.  *)
LEMMA OptionsBehind ==
  ASSUME NEW q, NEW w, NEW i \in Nat, i # 0
  PROVE  \A n : n \in Options(q, w, i + 1) <=>
                  n \in Node /\ n \in After(q, w[i]) /\ q.label[n] = q.label[w[i + 1]]
<1>1. i + 1 # 1 /\ (i + 1) - 1 = i
  OBVIOUS
<1>2. Options(q, w, i + 1) =
        {n \in Node : n \in After(q, w[i]) /\ q.label[n] = q.label[w[i + 1]]}
  BY <1>1, Zenon DEF Options
<1>3. QED
  BY <1>2, Zenon

(* The nodes that match where a plain function is searched: all the        *)
(* options behind what was executed, and none behind its twin.             *)
LEMMA Matching ==
  ASSUME IInv, Complete, Plain, Mapping("match")
  PROVE  /\ activations # <<>> /\ pc = "map" /\ Top.step = "match" /\ Top.todo = <<>>
         /\ Top.index < Len(walk) /\ Top.index + 1 \in 1 .. Len(walk)
         /\ ~ Popped /\ Points = <<>>
         /\ \A n : NextCandidates(n) = After(p, n)
         /\ \A n : NextPoints(<<>>, n) = <<>>
         /\ Candidates \subseteq Options(p, walk, Top.index + 1)
         /\ walk[Top.index + 1] \in Options(p, walk, Top.index + 1)
         /\ (Top.index # 0 => Top.previous = walk[Top.index]) =>
              Candidates = Options(p, walk, Top.index + 1)
         /\ Top.index # 0 /\ Top.previous # walk[Top.index] => Candidates = {}
<1>1. activations # <<>> /\ pc = "map" /\ Top.step = "match"
  BY DEF Mapping
<1>2. /\ OnTrack(p, walk, Top) /\ Top \in Act /\ Good(p, walk, statements, Top)
      /\ Top.index \in Nat /\ Len(walk) \in Nat /\ walk \in Seq(Node) /\ IsWalk(p, walk)
  BY <1>1, TopTracked
<1>3. Top.index < Len(walk) /\ Top.index + 1 \in 1 .. Len(walk) /\ Top.todo = <<>>
  BY <1>1, <1>2 DEF Good
<1>4. ~ Popped /\ Points = <<>>
  BY <1>2 DEF Popped, Points, OnTrack
<1>5. ~ IsRecursive
  <2>1. Marked \in Node
    BY <1>2, <1>3 DEF Marked
  <2>2. QED
    BY <2>1 DEF IsRecursive, Plain, Regular
<1>6. (\A n : NextCandidates(n) = After(p, n)) /\ (\A n : NextPoints(<<>>, n) = <<>>)
  BY <1>5 DEF NextCandidates, NextPoints, After, Successors
<1>7. walk[Top.index + 1] \in Options(p, walk, Top.index + 1)
  BY <1>2, <1>3 DEF IsWalk
<1>8. \A n : Matches(n) <=> p.label[n] = p.label[walk[Top.index + 1]]
  BY DEF Matches, Marked
<1>9. Top.candidates \subseteq Node
  BY <1>2 DEF Act
<1>10. CASE Top.index = 0
  <2>1. Top.candidates = {p.first}
    BY <1>1, <1>2, <1>10 DEF OnTrack
  <2>2. Candidates = Options(p, walk, Top.index + 1)
    BY <1>8, <1>9, <1>10, <2>1 DEF Candidates, Options
  <2>3. QED
    BY <1>1, <1>3, <1>4, <1>6, <1>7, <1>10, <2>2
<1>11. CASE Top.index # 0
  <2> DEFINE m == Top.previous
             e == walk[Top.index]
  <2>1. Top.candidates = After(p, m) /\ m \in Options(p, walk, Top.index)
    BY <1>1, <1>2, <1>11 DEF OnTrack
  <2>2. Top.index \in 1 .. Len(walk) /\ e \in Options(p, walk, Top.index)
    BY <1>2, <1>3, <1>11 DEF IsWalk
  <2>4. \A n : n \in Options(p, walk, Top.index + 1) <=>
                 n \in Node /\ n \in After(p, e) /\ p.label[n] = p.label[walk[Top.index + 1]]
    <3> DEFINE k == Top.index
    <3>1. k \in Nat /\ k # 0
      BY <1>2, <1>11
    <3> HIDE DEF k
    <3>2. \A n : n \in Options(p, walk, k + 1) <=>
                   n \in Node /\ n \in After(p, walk[k]) /\ p.label[n] = p.label[walk[k + 1]]
      <4> DEFINE C(q, w, i) == \A n : n \in Options(q, w, i + 1) <=>
                  n \in Node /\ n \in After(q, w[i]) /\ q.label[n] = q.label[w[i + 1]]
      <4>1. \A q, w : \A i \in Nat : i # 0 => C(q, w, i)
        BY OptionsBehind
      <4> HIDE DEF C
      <4>2. C(p, walk, k)
        BY <3>1, <4>1
      <4>3. QED
        BY <4>2 DEF C
    <3>3. QED
      BY <3>2 DEF k
  <2>5. CASE m = e
    <3>1. Candidates = Options(p, walk, Top.index + 1)
      BY <1>8, <1>9, <2>1, <2>4, <2>5 DEF Candidates
    <3>2. QED
      BY <1>1, <1>3, <1>4, <1>6, <1>7, <2>5, <3>1
  <2>6. CASE m # e
    <3>1. m \in Node /\ e \in Node /\ p.label[m] = p.label[e]
      BY <2>1, <2>2 DEF Options
    <3>2. p.label[m] \in Scope
      BY <2>6, <3>1 DEF Plain, Distinct
    <3>3. Top.index # 1
      BY <2>1, <2>2, <2>6 DEF Options
    <3>4. Top.index - 1 \in 1 .. Len(walk)
      BY <1>2, <2>2, <3>3
    <3> DEFINE c == walk[Top.index - 1]
    <3>5. c \in Node /\ m \in After(p, c) /\ e \in After(p, c)
      BY <1>2, <2>1, <2>2, <3>3, <3>4 DEF Options
    <3>6. {m, e} = Successors(c)
      BY <2>6, <3>5 DEF After, Successors
    <3> HIDE DEF m, e, c
    <3>7. \A x \in Successors(m), y \in Successors(e) : p.label[x] # p.label[y]
      BY <2>6, <3>1, <3>2, <3>5, <3>6 DEF Plain, Shallow
    <3>8. walk[Top.index + 1] \in Successors(e)
      BY <1>7, <2>4 DEF After, Successors
    <3>9. Candidates = {}
      BY <1>8, <2>1, <3>7, <3>8 DEF Candidates, After, Successors
    <3>10. QED
      BY <1>1, <1>3, <1>4, <1>6, <1>7, <1>11, <2>6, <3>9 DEF m, e
  <2>7. QED
    BY <2>5, <2>6
<1>12. QED
  BY <1>10, <1>11

(* A list of the nodes that match has each of them, once.                  *)
LEMMA ListsAll ==
  ASSUME IInv, Mapping("match"), ~ Popped, NEW s \in MatchingLists
  PROVE  /\ s \in Seq(Node)
         /\ \A i \in 1 .. Len(s) : s[i] \in Candidates
         /\ \A n \in Candidates : \E i \in 1 .. Len(s) : s[i] = n
         /\ \A i, j \in 1 .. Len(s) : s[i] = s[j] => i = j
<1>1. ~ Popped /\ activations # <<>>
  BY DEF Mapping
<1>2. Top \in Act /\ Good(p, walk, statements, Top)
  BY <1>1, TopTyped
<1> DEFINE c == Cardinality(Candidates)
<1>3. IsFiniteSet(Candidates) /\ c \in Nat
  <2>1. IsFiniteSet(Candidates)
    BY <1>2, FS_Subset DEF Candidates, Good
  <2>2. QED
    BY <2>1, FS_CardinalityType
<1>4. s \in [1 .. c -> Candidates] /\ IsInjective(s)
  BY <1>1 DEF MatchingLists
<1>5. IsFiniteSet(1 .. c) /\ Cardinality(1 .. c) = c
  <2>1. 1 \in Int /\ c \in Int
    BY <1>3
  <2>2. IsFiniteSet(1 .. c) /\ Cardinality(1 .. c) = IF 1 > c THEN 0 ELSE c - 1 + 1
    BY <2>1, FS_Interval
  <2>3. QED
    BY <1>3, <2>2
<1>6. s \in Injection(1 .. c, Candidates)
  BY <1>4 DEF Injection
<1> HIDE DEF c
<1>7. s \in Surjection(1 .. c, Candidates)
  <2>1. Cardinality(1 .. c) = Cardinality(Candidates)
    BY <1>5 DEF c
  <2>2. QED
    BY <1>3, <1>6, <2>1, FS_Injection
<1>8. s \in Seq(Node) /\ Len(s) = c
  BY <1>3, <1>4, ListsMatch
<1>9. \A n \in Candidates : \E i \in 1 .. c : s[i] = n
  BY <1>7, Zenon DEF Surjection
<1>10. QED
  BY <1>4, <1>8, <1>9 DEF IsInjective


-----------------------------------------------------------------------------
(* One lemma for each step of the search                                   *)
Kept == p' = p /\ walk' = walk /\ at' = at /\ frames' = frames

(* Where the function is not plain, only the walk matters.                 *)
LEMMA NotPlain ==
  ASSUME Complete, Kept, pc = "map", pc' = pc, ~ Plain
  PROVE  Complete'
BY WalkStays, SameProgram DEF Kept, Complete, Tracked, InTheEnd, Emptied

(* Entering an activation, or finding a path, keeps the search on the      *)
(* track of the walk executed, and every option listed or due.             *)
LEMMA EnterComplete ==
  ASSUME IInv, IInv', Complete, Plain, Enter \/ EnterFound
  PROVE  Complete'
<1>1. /\ Kept /\ pc' = pc /\ pc = "map"
      /\ statements' = statements /\ activations # <<>> /\ Top.step = "enter"
  BY DEF Enter, EnterFound, runVars, Mapping, Kept
<1>2. /\ OnTrack(p, walk, Top) /\ Top \in Act /\ Good(p, walk, statements, Top)
      /\ Top = Last(activations) /\ Top.index \in Nat /\ Len(walk) \in Nat
      /\ activations \in Seq(Act) /\ Len(activations) \in Nat /\ Len(activations) >= 1
  BY <1>1, TopTracked
<1>3. Top.todo = <<>> /\ Top.index <= Len(walk)
  BY <1>1, <1>2 DEF Good
<1>4. PICK st \in {"match", "return"} :
         /\ Put([Top EXCEPT !.step = st])
         /\ \/ found /\ found'
            \/ ~ found /\ Top.index = Len(walk) /\ found' = (statements # {}) /\ st = "return"
            \/ ~ found /\ Top.index # Len(walk) /\ ~ found' /\ st = "match"
  BY DEF Enter, EnterFound, ReachEnd
<1> DEFINE a == [Top EXCEPT !.step = st]
<1>5. /\ a \in Act /\ a.index = Top.index /\ a.candidates = Top.candidates /\ a.step = st
      /\ a.todo = Top.todo /\ a.points = Top.points /\ a.previous = Top.previous
  BY <1>2 DEF Act
<1>6. activations' = Append(Front(activations), a)
  BY <1>4 DEF Put
<1> HIDE DEF a
<1>7. /\ activations' \in Seq(Act) /\ activations' # <<>>
      /\ Len(activations') = Len(activations) /\ Last(activations') = a
      /\ \A j \in 1 .. Len(activations) - 1 : activations'[j] = activations[j]
  BY <1>1, <1>2, <1>5, <1>6, Changed
<1>8. Tracked'
  <2>1. OnTrack(p, walk, a)
    BY <1>1, <1>2, <1>3, <1>5 DEF OnTrack
  <2>2. QED
    BY <1>1, <1>5, <1>6, <2>1, TrackGoes DEF Kept
<1> DEFINE A == activations
           B == activations'
<1>9. /\ \A k : DueTo(p, walk, statements, A, k) => DueTo(p, walk, statements, B, k)
      /\ \A b : Aims(p, walk, statements, A, b) => Aims(p, walk, statements, B, b)
  <2>1. \A l \in 1 .. Len(Last(A).todo) :
          Due(statements, B, Last(A).todo[l], Last(A).index + 1)
    BY <1>2, <1>3
  <2>2. Len(B) >= Len(A) - 1
    BY <1>2, <1>7
  <2>3. QED
    BY <1>1, <1>2, <1>7, <2>1, <2>2, DueStays
<1> DEFINE b == A[Len(A) - 1]
<1>10. ~ found => \/ Follows(p, walk, statements, A, Top)
                  \/ Len(A) >= 2 /\ Strays(p, walk, statements, A, b, Top)
  BY <1>1, <1>2 DEF Complete, InTheEnd, InSight, Aims
<1>11. walk # <<>> /\ (found => DueTo(p, walk, statements, A, Len(walk)))
  BY <1>1 DEF Complete, InTheEnd
<1>12. Len(A) >= 2 => B[Len(B) - 1] = b
  BY <1>2, <1>7
<1>13. InTheEnd'
  <2>1. CASE found /\ found'
    BY <1>1, <1>9, <1>11, <2>1, SameProgram DEF InTheEnd, Kept
  <2>2. CASE ~ found /\ Top.index = Len(walk) /\ found' = (statements # {})
    <3>1. statements # {}
      <4>1. 1 \in 1 .. Top.index
        BY <1>2, <1>11, <2>2 DEF IInv, Typed
      <4>2. QED
        BY <1>2, <4>1 DEF Good, MarksMatched
    <3>2. DueTo(p, walk, statements, A, Len(walk))
      BY <1>10, <2>2 DEF Follows, Strays, Aims
    <3>3. QED
      BY <1>1, <1>9, <1>11, <2>2, <3>1, <3>2, SameProgram DEF InTheEnd, Kept
  <2>3. CASE ~ found /\ ~ found' /\ st = "match"
    <3>1. CASE Follows(p, walk, statements, A, Top)
      <4>1. Follows(p, walk, statements, B, a)
        BY <1>5, <1>9, <2>3, <3>1 DEF Follows
      <4>2. InSight(p, walk, statements, B)
        BY <1>7, <4>1 DEF InSight
      <4>3. QED
        BY <1>1, <1>11, <2>3, <4>2, SameProgram DEF InTheEnd, Kept
    <3>2. CASE Len(A) >= 2 /\ Strays(p, walk, statements, A, b, Top)
      <4>1. Strays(p, walk, statements, B, b, a)
        BY <1>5, <1>9, <2>3, <3>2 DEF Strays
      <4>2. InSight(p, walk, statements, B)
        BY <1>7, <1>12, <3>2, <4>1 DEF InSight
      <4>3. QED
        BY <1>1, <1>11, <2>3, <4>2, SameProgram DEF InTheEnd, Kept
    <3>3. QED
      BY <1>10, <2>3, <3>1, <3>2
  <2>4. QED
    BY <1>4, <2>1, <2>2, <2>3
<1>14. QED
  BY <1>1, <1>8, <1>13, WalkStays DEF Complete, Emptied, Kept

(* No node matches: the search has left what was executed.                 *)
LEMMA MappingFailsComplete ==
  ASSUME IInv, Complete, Plain, MappingFails
  PROVE  Complete'
<1>1. /\ Kept /\ pc' = pc /\ found' = found /\ statements' = statements
      /\ Mapping("match") /\ <<>> \in MatchingLists
      /\ Put([Top EXCEPT !.step = "return", !.points = Points])
  BY DEF MappingFails, runVars, Kept
<1>2. /\ activations # <<>> /\ pc = "map" /\ Top.step = "match" /\ Top.todo = <<>>
      /\ Top.index < Len(walk) /\ Points = <<>>
      /\ walk[Top.index + 1] \in Options(p, walk, Top.index + 1)
      /\ (Top.index # 0 => Top.previous = walk[Top.index]) =>
           Candidates = Options(p, walk, Top.index + 1)
  BY <1>1, Matching
<1>3. Candidates = {}
  BY <1>1, Matching, ListsAll
<1>4. /\ OnTrack(p, walk, Top) /\ Top \in Act
      /\ Top = Last(activations) /\ Top.index \in Nat
      /\ activations \in Seq(Act) /\ Len(activations) \in Nat /\ Len(activations) >= 1
  BY <1>2, TopTracked
<1> DEFINE a == [Top EXCEPT !.step = "return", !.points = Points]
<1>5. /\ a \in Act /\ a.index = Top.index /\ a.step = "return"
      /\ a.todo = <<>> /\ a.points = <<>> /\ a.previous = Top.previous
  BY <1>2, <1>4 DEF Act
<1>6. activations' = Append(Front(activations), a)
  BY <1>1 DEF Put
<1> HIDE DEF a
<1>7. /\ activations' \in Seq(Act) /\ activations' # <<>>
      /\ Len(activations') = Len(activations) /\ Last(activations') = a
      /\ \A j \in 1 .. Len(activations) - 1 : activations'[j] = activations[j]
  BY <1>2, <1>4, <1>5, <1>6, Changed
<1>8. Tracked'
  <2>1. OnTrack(p, walk, a)
    BY <1>5 DEF OnTrack
  <2>2. QED
    BY <1>1, <1>2, <1>5, <1>6, <2>1, TrackGoes DEF Kept
<1> DEFINE A == activations
           B == activations'
<1>9. /\ \A k : DueTo(p, walk, statements, A, k) => DueTo(p, walk, statements, B, k)
      /\ \A b : Aims(p, walk, statements, A, b) => Aims(p, walk, statements, B, b)
  <2>1. \A l \in 1 .. Len(Last(A).todo) :
          Due(statements, B, Last(A).todo[l], Last(A).index + 1)
    BY <1>2, <1>4
  <2>2. Len(B) >= Len(A) - 1
    BY <1>4, <1>7
  <2>3. QED
    BY <1>2, <1>4, <1>7, <2>1, <2>2, DueStays
<1> DEFINE b == A[Len(A) - 1]
<1>10. ~ found => Len(A) >= 2 /\ Strays(p, walk, statements, A, b, Top)
  <2>1. ~ Follows(p, walk, statements, A, Top)
    BY <1>2, <1>3 DEF Follows
  <2>2. ~ Aims(p, walk, statements, A, Top)
    BY <1>2 DEF Aims
  <2>3. QED
    BY <1>2, <1>4, <2>1, <2>2 DEF Complete, InTheEnd, InSight
<1>11. walk # <<>> /\ (found => DueTo(p, walk, statements, A, Len(walk)))
  BY <1>2 DEF Complete, InTheEnd
<1>12. Len(A) >= 2 => B[Len(B) - 1] = b
  BY <1>4, <1>7
<1>13. InTheEnd'
  <2>1. CASE found
    BY <1>1, <1>9, <1>11, <2>1, SameProgram DEF InTheEnd, Kept
  <2>2. CASE ~ found
    <3>1. Strays(p, walk, statements, B, b, a)
      BY <1>5, <1>9, <1>10, <2>2 DEF Strays
    <3>2. InSight(p, walk, statements, B)
      BY <1>7, <1>10, <1>12, <2>2, <3>1 DEF InSight
    <3>3. QED
      BY <1>1, <1>2, <1>11, <2>2, <3>2, SameProgram DEF InTheEnd, Kept
  <2>3. QED
    BY <2>1, <2>2
<1>14. QED
  BY <1>1, <1>2, <1>8, <1>13, WalkStays DEF Complete, Emptied, Kept

(* A node matches: the search follows what was executed, unless it has     *)
(* found it before.                                                        *)
LEMMA StillFollows ==
  ASSUME IInv, Complete, Plain, Mapping("match"), NEW s \in MatchingLists, s # <<>>
  PROVE  /\ walk # <<>>
         /\ found => DueTo(p, walk, statements, activations, Len(walk))
         /\ ~ found =>
              /\ Top.index # 0 => Top.previous = walk[Top.index]
              /\ DueTo(p, walk, statements, activations, Top.index)
              /\ \A n \in Options(p, walk, Top.index + 1) : \E i \in 1 .. Len(s) : s[i] = n
              /\ \E i \in 1 .. Len(s) : s[i] = walk[Top.index + 1]
<1>1. /\ activations # <<>> /\ pc = "map" /\ Top.step = "match"
      /\ walk[Top.index + 1] \in Options(p, walk, Top.index + 1)
      /\ (Top.index # 0 => Top.previous = walk[Top.index]) =>
           Candidates = Options(p, walk, Top.index + 1)
      /\ Top.index # 0 /\ Top.previous # walk[Top.index] => Candidates = {}
  BY Matching
<1>2. /\ s \in Seq(Node) /\ \A i \in 1 .. Len(s) : s[i] \in Candidates
      /\ \A n \in Candidates : \E i \in 1 .. Len(s) : s[i] = n
  BY Matching, ListsAll
<1>3. Candidates # {}
  <2>1. 1 \in 1 .. Len(s)
    BY <1>2
  <2>2. QED
    BY <1>2, <2>1
<1>4. Top = Last(activations) /\ Top.index \in Nat
  BY <1>1, TopTracked
<1>5. walk # <<>> /\ (found => DueTo(p, walk, statements, activations, Len(walk)))
  BY <1>1 DEF Complete, InTheEnd
<1>6. CASE ~ found
  <2> DEFINE b == activations[Len(activations) - 1]
  <2>1. ~ Aims(p, walk, statements, activations, Top)
    BY <1>1 DEF Aims
  <2>2. ~ (Len(activations) >= 2 /\ Strays(p, walk, statements, activations, b, Top))
    <3> SUFFICES ASSUME Len(activations) >= 2, Strays(p, walk, statements, activations, b, Top)
                 PROVE  FALSE
      OBVIOUS
    <3>1. Top.index = b.index + 1 /\ Top.previous # walk[Top.index]
      BY DEF Strays
    <3>2. Top.index = 0
      BY <1>1, <1>3, <3>1
    <3>3. b \in Act
      BY DEF IInv, Typed
    <3>4. QED
      BY <3>1, <3>2, <3>3 DEF Act
  <2>3. Follows(p, walk, statements, activations, Top)
    BY <1>1, <1>4, <1>6, <2>1, <2>2 DEF Complete, InTheEnd, InSight
  <2>4. QED
    BY <1>1, <1>2, <1>5, <1>6, <2>3 DEF Follows
<1>7. QED
  BY <1>5, <1>6


(* So does a mark that several nodes match.                                *)
LEMMA MatchSeveralComplete ==
  ASSUME IInv, IInv', Complete, Plain, MatchSeveral
  PROVE  Complete'
<1>1. /\ Kept /\ pc' = pc /\ found' = found /\ statements' = statements /\ Mapping("match")
  BY DEF MatchSeveral, runVars, Kept
<1>2. PICK s \in MatchingLists :
        Len(s) > 1 /\ Put([Top EXCEPT !.step = "fork", !.todo = s, !.points = Points])
  BY DEF MatchSeveral
<1>3. /\ activations # <<>> /\ pc = "map" /\ Top.todo = <<>>
      /\ Top.index < Len(walk) /\ Points = <<>>
      /\ Candidates \subseteq Options(p, walk, Top.index + 1)
  BY <1>1, Matching
<1>4. /\ s \in Seq(Node) /\ \A i \in 1 .. Len(s) : s[i] \in Candidates
      /\ \A i, j \in 1 .. Len(s) : s[i] = s[j] => i = j
  BY <1>1, Matching, ListsAll
<1>5. /\ Top \in Act /\ Top = Last(activations) /\ Top.index \in Nat
      /\ activations \in Seq(Act) /\ Len(activations) \in Nat /\ Len(activations) >= 1
  BY <1>3, TopTracked
<1> DEFINE a == [Top EXCEPT !.step = "fork", !.todo = s, !.points = Points]
<1>6. /\ a \in Act /\ a.index = Top.index /\ a.step = "fork" /\ a.todo = s /\ a.points = <<>>
  BY <1>3, <1>4, <1>5 DEF Act
<1>7. activations' = Append(Front(activations), a)
  BY <1>2 DEF Put
<1> HIDE DEF a
<1>8. /\ activations' \in Seq(Act) /\ activations' # <<>>
      /\ Len(activations') = Len(activations) /\ Last(activations') = a
      /\ activations'[Len(activations)] = a
      /\ \A j \in 1 .. Len(activations) - 1 : activations'[j] = activations[j]
  BY <1>3, <1>5, <1>6, <1>7, Changed
<1>9. Tracked'
  <2>1. OnTrack(p, walk, a)
    BY <1>3, <1>4, <1>6 DEF OnTrack
  <2>2. QED
    BY <1>1, <1>3, <1>6, <1>7, <2>1, TrackGoes DEF Kept
<1> DEFINE A == activations
           B == activations'
<1>10. \A k : DueTo(p, walk, statements, A, k) => DueTo(p, walk, statements, B, k)
  <2>1. \A l \in 1 .. Len(Last(A).todo) :
          Due(statements, B, Last(A).todo[l], Last(A).index + 1)
    BY <1>3, <1>5
  <2>2. Len(B) >= Len(A) - 1
    BY <1>5, <1>8
  <2>3. QED
    BY <1>3, <1>5, <1>8, <2>1, <2>2, DueStays
<1>11. s # <<>>
  BY <1>2
<1>12. InTheEnd'
  <2>1. CASE found
    BY <1>1, <1>10, <1>11, <2>1, StillFollows, SameProgram DEF InTheEnd, Kept
  <2>2. CASE ~ found
    <3>1. /\ DueTo(p, walk, statements, B, Top.index)
          /\ \A n \in Options(p, walk, Top.index + 1) : \E i \in 1 .. Len(s) : s[i] = n
          /\ \E i \in 1 .. Len(s) : s[i] = walk[Top.index + 1]
          /\ walk # <<>>
      BY <1>1, <1>10, <1>11, <2>2, StillFollows
    <3>2. DueTo(p, walk, statements, B, a.index + 1)
      <4> SUFFICES ASSUME NEW i \in 1 .. Top.index + 1, NEW n \in Options(p, walk, i)
                   PROVE  Due(statements, B, n, i)
        BY <1>6 DEF DueTo
      <4>1. CASE i \in 1 .. Top.index
        BY <3>1, <4>1 DEF DueTo
      <4>2. CASE i = Top.index + 1
        <5>1. Waits(a, n, i)
          BY <1>6, <3>1, <4>2 DEF Waits
        <5>2. Len(A) \in 1 .. Len(B)
          BY <1>5, <1>8
        <5>3. QED
          BY <1>8, <5>1, <5>2 DEF Due
      <4>3. QED
        BY <1>5, <4>1, <4>2
    <3>3. Aims(p, walk, statements, B, a)
      BY <1>3, <1>4, <1>6, <3>1, <3>2 DEF Aims
    <3>4. InSight(p, walk, statements, B)
      BY <1>8, <3>3 DEF InSight
    <3>5. QED
      BY <1>1, <1>3, <2>2, <3>1, <3>4, SameProgram DEF InTheEnd, Kept
  <2>3. QED
    BY <2>1, <2>2
<1>13. QED
  BY <1>1, <1>3, <1>9, <1>12, WalkStays DEF Complete, Emptied, Kept

(* What is known when one node matches                                     *)
LEMMA OneMatches ==
  ASSUME IInv, Complete, Plain, Mapping("match"), NEW n \in Node, <<n>> \in MatchingLists,
         walk' = walk, NEW B, statements' = statements \cup {n},
         \A k : DueTo(p, walk, statements, activations, k) => DueTo(p, walk, statements', B, k)
  PROVE  /\ walk # <<>> /\ n \in Options(p, walk, Top.index + 1)
         /\ found => DueTo(p, walk, statements', B, Len(walk))
         /\ ~ found => n = walk[Top.index + 1] /\ DueTo(p, walk, statements', B, Top.index + 1)
<1> DEFINE s == <<n>>
<1>1. s # <<>> /\ Len(s) = 1 /\ s[1] = n /\ \A i \in 1 .. Len(s) : s[i] = n
  OBVIOUS
<1>2. n \in Options(p, walk, Top.index + 1) /\ Top.index \in Nat
  <2>1. ~ Popped
    BY Matching
  <2>2. n \in Candidates /\ 1 \in 1 .. Len(s)
    BY <1>1, <2>1, ListsAll
  <2>3. QED
    BY <2>2, Matching, TopTracked
<1>3. walk # <<>> /\ (found => DueTo(p, walk, statements', B, Len(walk)))
  BY <1>1, StillFollows
<1>4. CASE ~ found
  <2>1. /\ DueTo(p, walk, statements', B, Top.index)
        /\ \A m \in Options(p, walk, Top.index + 1) : \E i \in 1 .. Len(s) : s[i] = m
        /\ \E i \in 1 .. Len(s) : s[i] = walk[Top.index + 1]
    BY <1>1, <1>4, StillFollows
  <2>2. n = walk[Top.index + 1] /\ \A m \in Options(p, walk, Top.index + 1) : m = n
    BY <1>1, <2>1
  <2> SUFFICES ASSUME NEW i \in 1 .. Top.index + 1, NEW m \in Options(p, walk, i)
               PROVE  Due(statements', B, m, i)
    BY <1>2, <1>3, <1>4, <2>2 DEF DueTo
  <2>3. CASE i \in 1 .. Top.index
    BY <2>1, <2>3 DEF DueTo
  <2>4. CASE i = Top.index + 1
    BY <2>2, <2>4 DEF Due
  <2>5. QED
    BY <1>2, <2>3, <2>4
<1>5. QED
  BY <1>2, <1>3, <1>4

(* So does a mark that one node matches.                                   *)
LEMMA MatchOneComplete ==
  ASSUME IInv, IInv', Complete, Plain, NEW n \in Node, MatchOne(n)
  PROVE  Complete'
<1> DEFINE b == [Top EXCEPT !.index = @ + 1, !.candidates = NextCandidates(n),
                            !.previous = n, !.branches = NextBranches(n),
                            !.points = NextPoints(Points, n)]
<1>1. /\ Kept /\ pc' = pc /\ Mapping("match") /\ <<n>> \in MatchingLists
      /\ statements' = statements \cup {n}
  BY DEF MatchOne, runVars, Kept
<1>2. PICK st \in {"match", "return"} :
        /\ Put([b EXCEPT !.step = st])
        /\ \/ b.index = Len(walk) /\ found' /\ st = "return"
           \/ b.index # Len(walk) /\ found' = found /\ st = "match"
  <2>1. \/ b.index = Len(walk) /\ ReachEnd(b, statements') /\ Put([b EXCEPT !.step = "return"])
        \/ b.index # Len(walk) /\ Put(b) /\ found' = found
    BY DEF MatchOne
  <2>2. statements' # {}
    BY <1>1
  <2>3. Top \in Act /\ Top.step = "match"
    BY <1>1, Matching, TopTracked
  <2>4. [b EXCEPT !.step = "match"] = b
    <3>1. b.step = "match" /\ b = [b EXCEPT !.step = b.step]
      BY <2>3 DEF Act
    <3>2. QED
      BY <3>1
  <2>5. CASE b.index = Len(walk) /\ ReachEnd(b, statements') /\ Put([b EXCEPT !.step = "return"])
    BY <2>2, <2>5 DEF ReachEnd
  <2>6. CASE b.index # Len(walk) /\ Put(b) /\ found' = found
    <3>1. Put([b EXCEPT !.step = "match"])
      BY <2>4, <2>6
    <3>2. QED
      BY <2>6, <3>1
  <2>7. QED
    BY <2>1, <2>5, <2>6
<1>3. /\ activations # <<>> /\ pc = "map" /\ Top.todo = <<>>
      /\ Top.index < Len(walk) /\ Top.index + 1 \in 1 .. Len(walk) /\ Points = <<>>
      /\ NextCandidates(n) = After(p, n) /\ NextPoints(Points, n) = <<>>
  BY <1>1, Matching
<1>4. /\ Top \in Act /\ Top = Last(activations) /\ Top.index \in Nat /\ Len(walk) \in Nat
      /\ activations \in Seq(Act) /\ Len(activations) \in Nat /\ Len(activations) >= 1
  BY <1>3, TopTracked
<1>5. b \in Act
  <2>1. /\ NextCandidates(n) \in SUBSET Node /\ NextBranches(n) \in SUBSET (Node \X Node)
        /\ NextPoints(Points, n) \in Seq(Node) /\ Top.index + 1 \in Nat
    <3>1. Points \in Seq(Node)
      BY <1>3, PointsTyped
    <3>2. NextCandidates(n) \subseteq Node /\ NextBranches(n) \subseteq Node \X Node
      BY <1>3, <3>1, Behind
    <3>3. NextPoints(Points, n) \in Seq(Node)
      BY <1>3, <3>1, Behind
    <3>4. QED
      BY <1>4, <3>2, <3>3
  <2>2. QED
    BY <1>4, <2>1 DEF Act
<1>6. /\ b.index = Top.index + 1 /\ b.candidates = After(p, n) /\ b.todo = <<>>
      /\ b.previous = n /\ b.points = <<>>
  BY <1>3, <1>4 DEF Act
<1> HIDE DEF b
<1> DEFINE a == [b EXCEPT !.step = st]
<1>7. /\ a \in Act /\ a.index = Top.index + 1 /\ a.candidates = After(p, n) /\ a.todo = <<>>
      /\ a.previous = n /\ a.points = <<>> /\ a.step = st
  BY <1>5, <1>6 DEF Act
<1>8. activations' = Append(Front(activations), a)
  BY <1>2 DEF Put
<1> HIDE DEF a
<1>9. /\ activations' \in Seq(Act) /\ activations' # <<>>
      /\ Len(activations') = Len(activations) /\ Last(activations') = a
      /\ \A j \in 1 .. Len(activations) - 1 : activations'[j] = activations[j]
  BY <1>3, <1>4, <1>7, <1>8, Changed
<1> DEFINE A == activations
           B == activations'
<1>10. \A k : DueTo(p, walk, statements, A, k) => DueTo(p, walk, statements', B, k)
  <2>1. \A l \in 1 .. Len(Last(A).todo) :
          Due(statements', B, Last(A).todo[l], Last(A).index + 1)
    BY <1>3, <1>4
  <2>2. Len(B) >= Len(A) - 1 /\ statements \subseteq statements'
    BY <1>1, <1>4, <1>9
  <2>3. QED
    BY <1>3, <1>4, <1>9, <2>1, <2>2, DueStays
<1>11. /\ walk # <<>> /\ n \in Options(p, walk, Top.index + 1)
       /\ found => DueTo(p, walk, statements', B, Len(walk))
       /\ ~ found => n = walk[Top.index + 1] /\ DueTo(p, walk, statements', B, Top.index + 1)
  BY <1>1, <1>10, OneMatches DEF Kept
<1>12. Tracked'
  <2>1. OnTrack(p, walk, a)
    BY <1>4, <1>7, <1>11 DEF OnTrack
  <2>2. \A m \in statements' : m \in statements \/ \E i \in 1 .. Len(walk) : m \in Options(p, walk, i)
    BY <1>1, <1>3, <1>11
  <2>3. QED
    BY <1>1, <1>3, <1>7, <1>8, <2>1, <2>2, TrackGoes DEF Kept
<1>13. InTheEnd'
  <2>1. CASE found
    <3>1. found'
      BY <1>2, <2>1
    <3>2. QED
      BY <1>1, <1>11, <2>1, <3>1, SameProgram DEF InTheEnd, Kept
  <2>2. CASE ~ found /\ b.index = Len(walk) /\ found'
    <3>1. DueTo(p, walk, statements', B, Len(walk))
      BY <1>6, <1>11, <2>2
    <3>2. QED
      BY <1>1, <1>11, <2>2, <3>1, SameProgram DEF InTheEnd, Kept
  <2>3. CASE ~ found /\ b.index # Len(walk) /\ found' = found /\ st = "match"
    <3>1. Follows(p, walk, statements', B, a)
      BY <1>7, <1>11, <2>3 DEF Follows
    <3>2. InSight(p, walk, statements', B)
      BY <1>9, <3>1 DEF InSight
    <3>3. QED
      BY <1>1, <1>3, <1>11, <2>3, <3>2, SameProgram DEF InTheEnd, Kept
  <2>4. QED
    BY <1>2, <2>1, <2>2, <2>3
<1>14. QED
  BY <1>1, <1>3, <1>12, <1>13, WalkStays DEF Complete, Emptied, Kept

(* So does a mark that a call matches.                                     *)
LEMMA MatchCallComplete ==
  ASSUME IInv, IInv', Complete, Plain, NEW n \in Node, MatchCall(n)
  PROVE  Complete'
<1> DEFINE a == [Top EXCEPT !.step = "return"]
           b == Activation(Top.index + 1, NextCandidates(n), n, NextBranches(n),
                           NextPoints(Points, n))
<1>1. /\ Kept /\ pc' = pc /\ found' = found /\ Mapping("match") /\ <<n>> \in MatchingLists
      /\ statements' = statements \cup {n}
      /\ activations' = Append(Append(Front(activations), a), b)
  BY DEF MatchCall, runVars, Kept
<1>2. /\ activations # <<>> /\ pc = "map" /\ Top.todo = <<>> /\ Matches(n)
      /\ Top.index < Len(walk) /\ Top.index + 1 \in 1 .. Len(walk) /\ Points = <<>>
      /\ NextCandidates(n) = After(p, n) /\ NextPoints(Points, n) = <<>>
  BY <1>1, Matching, OnlyMatch
<1>3. /\ Top \in Act /\ Top = Last(activations) /\ Top.index \in Nat /\ Len(walk) \in Nat
      /\ activations \in Seq(Act) /\ Len(activations) \in Nat /\ Len(activations) >= 1
      /\ OnTrack(p, walk, Top)
  BY <1>2, TopTracked
<1>4. b \in Act
  BY <1>1, <1>2, Called, Behind, PointsTyped DEF Kept
<1>5. /\ b.index = Top.index + 1 /\ b.candidates = After(p, n) /\ b.todo = <<>>
      /\ b.previous = n /\ b.points = <<>> /\ b.step = "enter"
  BY <1>2 DEF Activation
<1>6. /\ a \in Act /\ a.todo = <<>> /\ a.step = "return" /\ a.points = Top.points
  BY <1>2, <1>3 DEF Act
<1> HIDE DEF a, b
<1>7. /\ activations' \in Seq(Act) /\ activations' # <<>> /\ Last(activations') = b
      /\ Len(activations') = Len(activations) + 1
      /\ \A j \in 1 .. Len(activations) - 1 : activations'[j] = activations[j]
  BY <1>1, <1>2, <1>3, <1>4, <1>6, Pushed
<1> DEFINE A == activations
           B == activations'
<1>8. \A k : DueTo(p, walk, statements, A, k) => DueTo(p, walk, statements', B, k)
  <2>1. \A l \in 1 .. Len(Last(A).todo) :
          Due(statements', B, Last(A).todo[l], Last(A).index + 1)
    BY <1>2, <1>3
  <2>2. Len(B) >= Len(A) - 1 /\ statements \subseteq statements'
    BY <1>1, <1>3, <1>7
  <2>3. QED
    BY <1>2, <1>3, <1>7, <2>1, <2>2, DueStays
<1>9. /\ walk # <<>> /\ n \in Options(p, walk, Top.index + 1)
      /\ found => DueTo(p, walk, statements', B, Len(walk))
      /\ ~ found => n = walk[Top.index + 1] /\ DueTo(p, walk, statements', B, Top.index + 1)
  BY <1>1, <1>8, OneMatches DEF Kept
<1>10. Tracked'
  <2>1. OnTrack(p, walk, a)
    BY <1>3, <1>6 DEF OnTrack
  <2>2. OnTrack(p, walk, b)
    BY <1>3, <1>5, <1>9 DEF OnTrack
  <2>3. \A m \in statements' : m \in statements \/ \E i \in 1 .. Len(walk) : m \in Options(p, walk, i)
    BY <1>1, <1>2, <1>9
  <2>4. QED
    BY <1>1, <1>2, <1>4, <1>6, <2>1, <2>2, <2>3, TrackGoesDeeper DEF Kept
<1>11. InTheEnd'
  <2>1. CASE found
    BY <1>1, <1>9, <2>1, SameProgram DEF InTheEnd, Kept
  <2>2. CASE ~ found
    <3>1. Follows(p, walk, statements', B, b)
      BY <1>5, <1>9, <2>2 DEF Follows
    <3>2. InSight(p, walk, statements', B)
      BY <1>7, <3>1 DEF InSight
    <3>3. QED
      BY <1>1, <1>2, <1>9, <2>2, <3>2, SameProgram DEF InTheEnd, Kept
  <2>3. QED
    BY <2>1, <2>2
<1>12. QED
  BY <1>1, <1>2, <1>10, <1>11, WalkStays DEF Complete, Emptied, Kept


(* Each node of a list is tried, also after a path is found.               *)
LEMMA ForkComplete ==
  ASSUME IInv, IInv', Complete, Plain, Fork
  PROVE  Complete'
<1> DEFINE n == Head(Top.todo)
           a == [Top EXCEPT !.todo = Tail(@), !.points = NextPoints(@, n)]
           b == Activation(Top.index + 1, NextCandidates(n), n, NextBranches(n), a.points)
<1>1. /\ Kept /\ pc' = pc /\ pc = "map" /\ found' = found
      /\ activations # <<>> /\ Top.step = "fork" /\ Top.todo # <<>>
      /\ statements' = statements \cup {n}
      /\ activations' = Append(Append(Front(activations), a), b)
  BY DEF Fork, runVars, Mapping, Kept
<1>2. /\ OnTrack(p, walk, Top) /\ Top \in Act /\ Good(p, walk, statements, Top)
      /\ Top = Last(activations) /\ Top.index \in Nat /\ Len(walk) \in Nat
      /\ activations \in Seq(Act) /\ Len(activations) \in Nat /\ Len(activations) >= 1
      /\ walk \in Seq(Node) /\ Regular
  BY <1>1, TopTracked
<1>3. /\ Top.todo \in Seq(Node) /\ n \in Node /\ n = Top.todo[1]
      /\ 1 \in 1 .. Len(Top.todo) /\ Len(Top.todo) \in Nat
      /\ Tail(Top.todo) \in Seq(Node) /\ Len(Tail(Top.todo)) = Len(Top.todo) - 1
      /\ \A i \in 1 .. Len(Tail(Top.todo)) : Tail(Top.todo)[i] = Top.todo[i + 1]
  <2>1. Top.todo \in Seq(Node)
    BY <1>2 DEF Act
  <2>2. QED
    BY <1>1, <2>1, HeadTailProperties
<1>4. Top.index < Len(walk) /\ Top.index + 1 \in 1 .. Len(walk) /\ Matches(n)
  BY <1>2, <1>3 DEF Good, Matches, Marked
<1>5. n \in Options(p, walk, Top.index + 1) /\ Top.points = <<>>
  BY <1>2, <1>3 DEF OnTrack
<1> HIDE DEF n
<1>6. NextCandidates(n) = After(p, n) /\ NextPoints(Top.points, n) = <<>>
  <2>1. Marked \in Node
    BY <1>2, <1>4 DEF Marked
  <2>2. ~ IsRecursive
    BY <1>2, <2>1 DEF IsRecursive, Regular
  <2>3. QED
    BY <1>5, <2>2 DEF NextCandidates, NextPoints, After, Successors
<1>7. /\ a \in Act /\ a.index = Top.index /\ a.step = "fork" /\ a.todo = Tail(Top.todo)
      /\ a.points = <<>>
  <2>1. <<>> \in Seq(Node)
    OBVIOUS
  <2>2. a = [Top EXCEPT !.todo = Tail(Top.todo), !.points = <<>>]
    BY <1>6
  <2>3. QED
    BY <1>1, <1>2, <1>3, <2>1, <2>2 DEF Act
<1> HIDE DEF a
<1>8. b \in Act
  <2>1. a.points \in Seq(Node)
    BY <1>7
  <2>2. QED
    BY <1>1, <1>3, <1>4, <2>1, Called DEF Kept
<1>9. /\ b.index = Top.index + 1 /\ b.candidates = After(p, n) /\ b.todo = <<>>
      /\ b.previous = n /\ b.points = <<>> /\ b.step = "enter"
  BY <1>6, <1>7 DEF Activation
<1> HIDE DEF b
<1>10. /\ activations' \in Seq(Act) /\ activations' # <<>> /\ Last(activations') = b
       /\ Len(activations') = Len(activations) + 1
       /\ activations'[Len(activations') - 1] = a /\ activations'[Len(activations)] = a
       /\ \A j \in 1 .. Len(activations) - 1 : activations'[j] = activations[j]
  BY <1>1, <1>2, <1>7, <1>8, Pushed
<1> DEFINE A == activations
           B == activations'
<1>11. \A k : DueTo(p, walk, statements, A, k) => DueTo(p, walk, statements', B, k)
  <2>1. ASSUME NEW l \in 1 .. Len(Last(A).todo)
        PROVE  Due(statements', B, Last(A).todo[l], Last(A).index + 1)
    <3>1. CASE l = 1
      <4>1. Last(A).todo[l] = n
        BY <1>2, <1>3, <3>1
      <4>2. QED
        BY <1>1, <4>1 DEF Due
    <3>2. CASE l # 1
      <4>1. l - 1 \in 1 .. Len(a.todo) /\ a.todo[l - 1] = Top.todo[l]
        BY <1>2, <1>3, <1>7, <3>2
      <4>2. Waits(a, Top.todo[l], Top.index + 1)
        BY <1>7, <4>1 DEF Waits
      <4>3. Len(A) \in 1 .. Len(B)
        BY <1>2, <1>10
      <4>4. QED
        BY <1>2, <1>10, <4>2, <4>3 DEF Due
    <3>3. QED
      BY <3>1, <3>2
  <2>2. Len(B) >= Len(A) - 1 /\ statements \subseteq statements'
    BY <1>1, <1>2, <1>10
  <2>3. QED
    BY <1>1, <1>2, <1>10, <2>1, <2>2, DueStays
<1>12. Tracked'
  <2>1. OnTrack(p, walk, a)
    <3>1. ASSUME NEW i \in 1 .. Len(a.todo) PROVE a.todo[i] \in Options(p, walk, a.index + 1)
      <4>1. a.todo[i] = Top.todo[i + 1] /\ i + 1 \in 1 .. Len(Top.todo)
        BY <1>3, <1>7
      <4>2. QED
        BY <1>2, <1>7, <4>1 DEF OnTrack
    <3>2. QED
      BY <1>7, <3>1 DEF OnTrack
  <2>2. OnTrack(p, walk, b)
    BY <1>2, <1>5, <1>9 DEF OnTrack
  <2>3. \A m \in statements' : m \in statements \/ \E i \in 1 .. Len(walk) : m \in Options(p, walk, i)
    BY <1>1, <1>4, <1>5
  <2>4. QED
    BY <1>1, <1>7, <1>8, <2>1, <2>2, <2>3, TrackGoesDeeper DEF Kept
<1>13. walk # <<>> /\ (found => DueTo(p, walk, statements, A, Len(walk)))
  BY <1>1 DEF Complete, InTheEnd
<1>14. InTheEnd'
  <2>1. CASE found
    BY <1>1, <1>11, <1>13, <2>1, SameProgram DEF InTheEnd, Kept
  <2>2. CASE ~ found
    <3>1. Aims(p, walk, statements, A, Top)
      BY <1>1, <1>2, <2>2 DEF Complete, InTheEnd, InSight, Follows, Strays
    <3>2. DueTo(p, walk, statements', B, Top.index + 1)
      BY <1>11, <3>1 DEF Aims
    <3>3. CASE n = walk[Top.index + 1]
      <4>1. Follows(p, walk, statements', B, b)
        BY <1>9, <3>2, <3>3 DEF Follows
      <4>2. InSight(p, walk, statements', B)
        BY <1>10, <4>1 DEF InSight
      <4>3. QED
        BY <1>1, <1>13, <2>2, <4>2, SameProgram DEF InTheEnd, Kept
    <3>4. CASE n # walk[Top.index + 1]
      <4>1. \E l \in 1 .. Len(a.todo) : a.todo[l] = walk[Top.index + 1]
        <5>1. PICK l \in 1 .. Len(Top.todo) : Top.todo[l] = walk[Top.index + 1]
          BY <3>1 DEF Aims
        <5>2. l # 1
          BY <1>3, <3>4, <5>1
        <5>3. l - 1 \in 1 .. Len(a.todo) /\ a.todo[l - 1] = Top.todo[l]
          BY <1>3, <1>7, <5>2
        <5>4. QED
          BY <5>1, <5>3
      <4>2. \A k, l \in 1 .. Len(a.todo) : a.todo[k] = a.todo[l] => k = l
        <5> TAKE k, l \in 1 .. Len(a.todo)
        <5>1. /\ a.todo[k] = Top.todo[k + 1] /\ k + 1 \in 1 .. Len(Top.todo)
              /\ a.todo[l] = Top.todo[l + 1] /\ l + 1 \in 1 .. Len(Top.todo)
          BY <1>3, <1>7
        <5>2. a.todo[k] = a.todo[l] => k + 1 = l + 1
          BY <3>1, <5>1 DEF Aims
        <5>3. QED
          BY <5>2
      <4>3. Aims(p, walk, statements', B, a)
        BY <1>4, <1>7, <3>2, <4>1, <4>2 DEF Aims
      <4>4. Strays(p, walk, statements', B, a, b)
        BY <1>7, <1>9, <3>4, <4>3 DEF Strays
      <4>5. Len(B) >= 2
        BY <1>2, <1>10
      <4>6. InSight(p, walk, statements', B)
        BY <1>10, <4>4, <4>5 DEF InSight
      <4>7. QED
        BY <1>1, <1>13, <2>2, <4>6, SameProgram DEF InTheEnd, Kept
    <3>5. QED
      BY <3>3, <3>4
  <2>3. QED
    BY <2>1, <2>2
<1>15. QED
  BY <1>1, <1>12, <1>14, WalkStays DEF Complete, Emptied, Kept

(* So does the return from an activation.                                  *)
LEMMA ReturnComplete ==
  ASSUME IInv, IInv', Complete, Plain, Return
  PROVE  Complete'
<1>1. /\ Kept /\ pc' = pc /\ pc = "map" /\ found' = found /\ statements' = statements
      /\ activations # <<>> /\ activations' = Front(activations)
      /\ Top.step = "return" \/ (Top.step = "fork" /\ Top.todo = <<>>)
  BY DEF Return, runVars, Mapping, Kept
<1>2. /\ OnTrack(p, walk, Top) /\ Top = Last(activations)
      /\ activations \in Seq(Act) /\ Len(activations) \in Nat /\ Len(activations) >= 1
  BY <1>1, TopTracked
<1>3. Top.todo = <<>>
  BY <1>1, <1>2 DEF OnTrack
<1>4. /\ activations' \in Seq(Act) /\ Len(activations') = Len(activations) - 1
      /\ \A j \in 1 .. Len(activations) - 1 : activations'[j] = activations[j]
  BY <1>1, <1>2, TakenOff
<1> DEFINE A == activations
           B == activations'
<1>5. /\ \A k : DueTo(p, walk, statements, A, k) => DueTo(p, walk, statements, B, k)
      /\ \A b : Aims(p, walk, statements, A, b) => Aims(p, walk, statements, B, b)
  <2>1. \A l \in 1 .. Len(Last(A).todo) :
          Due(statements, B, Last(A).todo[l], Last(A).index + 1)
    BY <1>2, <1>3
  <2>2. Len(B) >= Len(A) - 1
    BY <1>2, <1>4
  <2>3. QED
    BY <1>1, <1>2, <1>4, <2>1, <2>2, DueStays
<1>6. Tracked'
  <2>1. \A j \in 1 .. Len(B) : B[j] = A[j] /\ j \in 1 .. Len(A)
    BY <1>2, <1>4
  <2>2. QED
    BY <1>1, <2>1 DEF Complete, Tracked, Kept
<1>7. walk # <<>> /\ (found => DueTo(p, walk, statements, A, Len(walk)))
  BY <1>1 DEF Complete, InTheEnd
<1> DEFINE b == A[Len(A) - 1]
<1>8. InTheEnd'
  <2>1. CASE found
    BY <1>1, <1>5, <1>7, <2>1, SameProgram DEF InTheEnd, Kept
  <2>2. CASE ~ found
    <3>1. ~ Follows(p, walk, statements, A, Top)
      BY <1>1 DEF Follows
    <3>2. ~ Aims(p, walk, statements, A, Top)
      BY <1>3 DEF Aims
    <3>3. Len(A) >= 2 /\ Strays(p, walk, statements, A, b, Top)
      BY <1>1, <1>2, <2>2, <3>1, <3>2 DEF Complete, InTheEnd, InSight
    <3>4. Len(B) \in Nat /\ Len(B) >= 1 /\ B # <<>> /\ Last(B) = b
      <4>1. Len(B) = Len(A) - 1 /\ Len(A) - 1 \in 1 .. Len(A) - 1
        BY <1>2, <1>4, <3>3
      <4>2. Last(B) = B[Len(B)]
        BY DEF Last
      <4>3. QED
        BY <1>2, <1>4, <3>3, <4>1, <4>2
    <3>5. Aims(p, walk, statements, B, b)
      BY <1>5, <3>3 DEF Strays
    <3>6. InSight(p, walk, statements, B)
      BY <3>4, <3>5 DEF InSight
    <3>7. QED
      BY <1>1, <1>7, <2>2, <3>6, SameProgram DEF InTheEnd, Kept
  <2>3. QED
    BY <2>1, <2>2
<1>9. QED
  BY <1>1, <1>6, <1>8, WalkStays DEF Complete, Emptied, Kept

(* So do the other steps.                                                  *)
LEMMA RestComplete ==
  ASSUME Complete, Update \/ Terminated \/ UNCHANGED vars
  PROVE  Complete'
<1>1. /\ Kept /\ activations' = activations /\ statements' = statements /\ found' = found
      /\ pc' = pc \/ (pc = "map" /\ pc' = "done" /\ activations = <<>>)
  BY DEF Update, Terminated, vars, runVars, mapVars, Kept
<1>2. Tracked' /\ Emptied'
  BY <1>1, SameProgram DEF Complete, Tracked, Emptied, Kept
<1>3. InTheEnd'
  <2>1. CASE pc' = pc
    BY <1>1, <2>1, SameProgram DEF Complete, InTheEnd, Kept
  <2>2. CASE pc = "map" /\ activations = <<>>
    <3>1. Plain => walk # <<>> /\ found /\ DueTo(p, walk, statements, activations, Len(walk))
      BY <2>2 DEF Complete, InTheEnd, InSight
    <3>2. QED
      BY <1>1, <3>1, SameProgram DEF InTheEnd, Kept
  <2>3. QED
    BY <1>1, <2>1, <2>2
<1>4. QED
  BY <1>1, <1>2, <1>3, WalkStays DEF Complete, Kept

(* Every step keeps the search on the track.                               *)
LEMMA CompleteStep ==
  ASSUME IInv, IInv', Complete, [Next]_vars
  PROVE  Complete'
<1>1. CASE Run \/ ReturnFromCall
  BY <1>1, WalkGoesOn
<1>2. CASE Stop
  BY <1>2, SearchBegins
<1>3. CASE Update \/ Terminated \/ UNCHANGED vars
  BY <1>3, RestComplete
<1>4. CASE Enter \/ EnterFound \/ MappingFails \/ MatchSeveral \/ Fork \/ Return
  <2>1. CASE Plain
    BY <1>4, <2>1, EnterComplete, MappingFailsComplete, MatchSeveralComplete, ForkComplete,
       ReturnComplete
  <2>2. CASE ~ Plain
    <3>1. Kept /\ pc = "map" /\ pc' = pc
      BY <1>4 DEF Enter, EnterFound, MappingFails, MatchSeveral, Fork, Return, Mapping, Kept,
                  runVars
    <3>2. QED
      BY <2>2, <3>1, NotPlain
  <2>3. QED
    BY <2>1, <2>2
<1>5. ASSUME NEW n \in Node, MatchOne(n) \/ MatchCall(n)
      PROVE  Complete'
  <2>1. CASE Plain
    BY <1>5, <2>1, MatchOneComplete, MatchCallComplete
  <2>2. CASE ~ Plain
    <3>1. Kept /\ pc = "map" /\ pc' = pc
      BY <1>5 DEF MatchOne, MatchCall, Mapping, Kept, runVars
    <3>2. QED
      BY <2>2, <3>1, NotPlain
  <2>3. QED
    BY <2>1, <2>2
<1>6. QED
  BY <1>1, <1>2, <1>3, <1>4, <1>5 DEF Next, Map, Match

(* In every reachable state the search is on the track of the walk         *)
(* executed, and every option of a mark it has passed is listed or due.    *)
LEMMA Completeness == Spec => []Complete
<1>1. IInv /\ IInv' /\ Complete /\ [Next]_vars => Complete'
  BY CompleteStep
<1>2. QED
  BY <1>1, InitComplete, Invariance, PTL DEF Spec

(* Of a function without calls of itself whose twins lead to nothing that  *)
(* matches alike, the nodes executed and their twins count as visited,     *)
(* whatever the order in which the nodes are tried.                        *)
THEOREM TwinsToo == Spec => []TwinsVisited
<1>1. IInv /\ Complete => TwinsVisited
  <2> SUFFICES ASSUME IInv, Complete, pc = "done", Plain
               PROVE  Visited = Executed \cup Twins
    BY DEF TwinsVisited, Plain
  <2>1. /\ walk # <<>> /\ found /\ activations = <<>>
        /\ DueTo(p, walk, statements, activations, Len(walk))
    BY DEF Complete, InTheEnd, Emptied
  <2>2. /\ Visited = statements /\ walk \in Seq(Node) /\ Len(walk) \in Nat
        /\ statements \subseteq Node /\ IsWalk(p, walk)
    BY <2>1 DEF Visited, IInv, Typed, Complete, Walking, Plain
  <2>3. ASSUME NEW i \in 1 .. Len(walk), NEW n \in Options(p, walk, i) PROVE n \in statements
    BY <2>1 DEF DueTo, Due
  <2>4. Executed \subseteq statements
    BY <2>2, <2>3 DEF Executed, IsWalk
  <2>5. ASSUME NEW n \in Node, NEW i \in 1 .. Len(walk) - 1
        PROVE  /\ i + 1 \in 1 .. Len(walk)
               /\ n \in Options(p, walk, i + 1) <=>
                    n \in Successors(walk[i]) /\ p.label[n] = p.label[walk[i + 1]]
    <3>1. i \in Nat /\ i # 0 /\ i + 1 \in 1 .. Len(walk)
      BY <2>2, <2>5
    <3>2. \A m : m \in Options(p, walk, i + 1) <=>
                   m \in Node /\ m \in After(p, walk[i]) /\ p.label[m] = p.label[walk[i + 1]]
      <4> DEFINE C(q, w, k) == \A m : m \in Options(q, w, k + 1) <=>
                   m \in Node /\ m \in After(q, w[k]) /\ q.label[m] = q.label[w[k + 1]]
      <4>1. \A q, w : \A k \in Nat : k # 0 => C(q, w, k)
        BY OptionsBehind
      <4> HIDE DEF C
      <4>2. C(p, walk, i)
        BY <3>1, <4>1
      <4>3. QED
        BY <4>2 DEF C
    <3>3. QED
      BY <3>1, <3>2 DEF After, Successors
  <2>6. Twins \subseteq statements
    BY <2>3, <2>5 DEF Twins
  <2>7. ASSUME NEW n \in statements PROVE n \in Executed \cup Twins
    <3>1. PICK i \in 1 .. Len(walk) : n \in Options(p, walk, i)
      BY DEF Complete, Tracked
    <3>2. CASE i = 1
      <4>1. walk[1] \in Options(p, walk, 1)
        BY <2>2, <3>1, <3>2 DEF IsWalk
      <4>2. n = p.first /\ walk[1] = p.first
        BY <3>1, <3>2, <4>1 DEF Options
      <4>3. QED
        BY <3>1, <3>2, <4>2 DEF Executed
    <3>3. CASE i # 1
      <4> DEFINE k == i - 1
      <4>1. k \in 1 .. Len(walk) - 1 /\ i = k + 1
        BY <2>2, <3>1, <3>3
      <4> HIDE DEF k
      <4>2. n \in Successors(walk[k]) /\ p.label[n] = p.label[walk[k + 1]]
        BY <2>2, <2>5, <3>1, <4>1
      <4>3. QED
        BY <2>2, <4>1, <4>2 DEF Twins
    <3>4. QED
      BY <3>2, <3>3
  <2>8. QED
    BY <2>2, <2>4, <2>6, <2>7
<1>2. QED
  BY <1>1, Completeness, Invariance, PTL


-----------------------------------------------------------------------------
(* BranchesExact and ExecutionFound, for functions without calls of        *)
(* themselves and any number of twins.  Whatever the search has tried,     *)
(* what each activation holds is read from one walk through the graph that *)
(* prints the marks matched so far.  Until a path is found some activation *)
(* has the walk executed before it, so that one is found; after that no    *)
(* activation matches a mark, so that the branches are those of the path.  *)
Taken(q, v) == {<<v[i], v[i + 1]>> : i \in {i \in 1 .. Len(v) - 1 : v[i] \in q.cond}}

Onward(q, a) == IF a.index = 0 THEN {q.first} ELSE After(q, a.previous)

ReadFrom(q, w, a, v) ==
  /\ Len(v) = a.index /\ IsWalk(q, v)
  /\ \A i \in 1 .. Len(v) : q.label[v[i]] = q.label[w[i]]
  /\ a.previous = (IF a.index = 0 THEN q.end ELSE v[a.index])
  /\ a.branches = Taken(q, v)

Read(q, w, a) ==
  /\ \E v \in Seq(Node) : ReadFrom(q, w, a, v)
  /\ a.points = <<>> /\ a.candidates = Onward(q, a)
  /\ \A i \in 1 .. Len(a.todo) : a.todo[i] \in Onward(q, a)

(* An activation before which the walk executed lies                       *)
Sought(w, a) ==
  \/ a.step \in {"enter", "match"} /\ (a.index # 0 => a.previous = w[a.index])
  \/ /\ a.step = "fork" /\ a.index < Len(w)
     /\ \E l \in 1 .. Len(a.todo) : a.todo[l] = w[a.index + 1]

(* What is held of the walk v in the end                                   *)
Result(q, w, v, B, c) ==
  /\ v \in Seq(Node) /\ v # <<>> /\ IsWalk(q, v) /\ Alike(q, v, w)
  /\ B = Taken(q, v) /\ (c <=> Ends(q, v))

ReadAll == \A j \in 1 .. Len(activations) : Read(p, walk, activations[j])

OneRuns == \A j \in 1 .. Len(activations) - 1 : activations[j].step \in {"fork", "return"}

Seeking ==
  /\ ~ complete
  /\ pc # "run" => /\ pc = "map" /\ walk # <<>>
                   /\ \E j \in 1 .. Len(activations) : Sought(walk, activations[j])

Settled ==
  /\ activations # <<>> => Top.step # "match"
  /\ \E v : Result(p, walk, v, branches, complete)

Reading == Regular => ReadAll /\ OneRuns /\ IF found THEN Settled ELSE Seeking

(* No activation reads a mark before the search starts.                    *)
LEMMA InitReading == Init => Reading
BY DEF Init, Reading, ReadAll, OneRuns, Seeking

-----------------------------------------------------------------------------
(* The activation that runs                                                *)
LEMMA TopRead ==
  ASSUME IInv, Complete, Reading, Regular, activations # <<>>
  PROVE  /\ Top \in Act /\ Good(p, walk, statements, Top) /\ Read(p, walk, Top)
         /\ Top = Last(activations) /\ Top = activations[Len(activations)]
         /\ Top.index \in Nat /\ Len(walk) \in Nat /\ walk \in Seq(Node)
         /\ IsWalk(p, walk) /\ p \in Programs
         /\ activations \in Seq(Act) /\ Len(activations) \in Nat /\ Len(activations) >= 1
         /\ Top.todo \in Seq(Node) /\ Top.previous \in Node
<1>1. Top \in Act /\ Good(p, walk, statements, Top)
  BY TopTyped
<1>2. activations \in Seq(Act) /\ walk \in Seq(Node) /\ p \in Programs
  BY DEF IInv, Typed
<1>3. Len(activations) \in Nat /\ Len(activations) >= 1 /\ Len(walk) \in Nat
  BY <1>2
<1>4. Top = Last(activations) /\ Top = activations[Len(activations)]
  BY DEF Top, Last
<1>5. Len(activations) \in 1 .. Len(activations)
  BY <1>3
<1>6. Read(p, walk, Top)
  BY <1>4, <1>5 DEF Reading, ReadAll
<1>7. IsWalk(p, walk)
  BY DEF Complete, Walking
<1>8. QED
  BY <1>1, <1>2, <1>3, <1>4, <1>6, <1>7 DEF Act

(* The search goes on in the same activation, or in one more.              *)
LEMMA ReadGoes ==
  ASSUME IInv, Reading, Regular, activations # <<>>, Kept,
         NEW a \in Act, Read(p, walk, a), activations' = Append(Front(activations), a)
  PROVE  /\ ReadAll' /\ OneRuns' /\ Top' = a
         /\ \A j \in 1 .. Len(activations) - 1 :
              Sought(walk, activations[j]) =>
                \E i \in 1 .. Len(activations') : Sought(walk', activations'[i])
         /\ Sought(walk, a) => \E i \in 1 .. Len(activations') : Sought(walk', activations'[i])
<1>1. /\ Len(activations') = Len(activations) /\ activations'[Len(activations)] = a
      /\ \A j \in 1 .. Len(activations) - 1 : activations'[j] = activations[j]
      /\ Len(activations) \in Nat /\ Len(activations) >= 1 /\ Last(activations') = a
  BY Changed DEF IInv, Typed
<1>2. ASSUME NEW j \in 1 .. Len(activations') PROVE Read(p, walk, activations'[j])
  <2>1. CASE j = Len(activations)
    BY <1>1, <2>1
  <2>2. CASE j # Len(activations)
    <3>1. j \in 1 .. Len(activations) - 1 /\ j \in 1 .. Len(activations)
      BY <1>1, <2>2
    <3>2. QED
      BY <1>1, <3>1 DEF Reading, ReadAll
  <2>3. QED
    BY <2>1, <2>2
<1>3. \A j \in 1 .. Len(activations') - 1 : activations'[j].step \in {"fork", "return"}
  BY <1>1 DEF Reading, OneRuns
<1>4. \A j \in 1 .. Len(activations) - 1 : j \in 1 .. Len(activations')
  BY <1>1
<1>5. Len(activations) \in 1 .. Len(activations')
  BY <1>1
<1>6. QED
  BY <1>1, <1>2, <1>3, <1>4, <1>5 DEF ReadAll, OneRuns, Kept, Top

(* A call of another activation: both are read from walks, and where the   *)
(* walk executed is sought is kept.                                        *)
LEMMA ReadGoesDeeper ==
  ASSUME IInv, Reading, Regular, activations # <<>>, Kept,
         NEW a \in Act, NEW b \in Act, Read(p, walk, a), Read(p, walk, b),
         a.step \in {"fork", "return"},
         activations' = Append(Append(Front(activations), a), b)
  PROVE  /\ ReadAll' /\ OneRuns' /\ Top' = b
         /\ \A j \in 1 .. Len(activations) - 1 :
              Sought(walk, activations[j]) =>
                \E i \in 1 .. Len(activations') : Sought(walk', activations'[i])
         /\ Sought(walk, a) => \E i \in 1 .. Len(activations') : Sought(walk', activations'[i])
         /\ Sought(walk, b) => \E i \in 1 .. Len(activations') : Sought(walk', activations'[i])
<1>1. /\ Len(activations') = Len(activations) + 1 /\ activations'[Len(activations)] = a
      /\ activations'[Len(activations) + 1] = b /\ Last(activations') = b
      /\ \A j \in 1 .. Len(activations) - 1 : activations'[j] = activations[j]
      /\ Len(activations) \in Nat /\ Len(activations) >= 1
  BY Pushed DEF IInv, Typed
<1>2. ASSUME NEW j \in 1 .. Len(activations') PROVE Read(p, walk, activations'[j])
  <2>1. CASE j = Len(activations) \/ j = Len(activations) + 1
    BY <1>1, <2>1
  <2>2. CASE j # Len(activations) /\ j # Len(activations) + 1
    <3>1. j \in 1 .. Len(activations) - 1 /\ j \in 1 .. Len(activations)
      BY <1>1, <2>2
    <3>2. QED
      BY <1>1, <3>1 DEF Reading, ReadAll
  <2>3. QED
    BY <2>1, <2>2
<1>3. ASSUME NEW j \in 1 .. Len(activations') - 1
      PROVE  activations'[j].step \in {"fork", "return"}
  <2>1. CASE j = Len(activations)
    BY <1>1, <2>1
  <2>2. CASE j # Len(activations)
    <3>1. j \in 1 .. Len(activations) - 1
      BY <1>1, <2>2
    <3>2. QED
      BY <1>1, <3>1 DEF Reading, OneRuns
  <2>3. QED
    BY <2>1, <2>2
<1>4. \A j \in 1 .. Len(activations) - 1 : j \in 1 .. Len(activations')
  BY <1>1
<1>5. Len(activations) \in 1 .. Len(activations') /\ Len(activations) + 1 \in 1 .. Len(activations')
  BY <1>1
<1>6. QED
  BY <1>1, <1>2, <1>3, <1>4, <1>5 DEF ReadAll, OneRuns, Kept, Top


(* A node behind an activation goes on with the walk it was read from.     *)
LEMMA ReadOn ==
  ASSUME NEW q, NEW w, NEW a, a.index \in Nat, Read(q, w, a),
         NEW n \in Node, n \in Onward(q, a), q.label[n] = q.label[w[a.index + 1]],
         q.end \notin q.cond,
         NEW b, b.index = a.index + 1, b.previous = n, b.candidates = After(q, n),
         b.points = <<>>, b.todo = <<>>,
         b.branches = a.branches \cup (IF a.previous \in q.cond THEN {<<a.previous, n>>} ELSE {})
  PROVE  Read(q, w, b)
<1> DEFINE k == a.index
<1>1. PICK v \in Seq(Node) : ReadFrom(q, w, a, v)
  BY DEF Read
<1> DEFINE u == Append(v, n)
<1>2. /\ u \in Seq(Node) /\ Len(u) = k + 1 /\ u[k + 1] = n /\ Len(v) = k /\ k \in Nat
      /\ \A i \in 1 .. k : u[i] = v[i]
  BY <1>1 DEF ReadFrom
<1> HIDE DEF u
<1>3. \A i \in 1 .. k + 1 : q.label[u[i]] = q.label[w[i]]
  <2> SUFFICES ASSUME NEW i \in 1 .. k + 1 PROVE q.label[u[i]] = q.label[w[i]]
    OBVIOUS
  <2>1. CASE i = k + 1
    BY <1>2, <2>1
  <2>2. CASE i # k + 1
    <3>1. i \in 1 .. k
      BY <1>2, <2>2
    <3>2. QED
      BY <1>1, <1>2, <3>1 DEF ReadFrom
  <2>3. QED
    BY <2>1, <2>2
<1>4. IsWalk(q, u)
  <2> SUFFICES ASSUME NEW i \in 1 .. k + 1 PROVE u[i] \in Options(q, u, i)
    BY <1>2 DEF IsWalk
  <2>1. CASE i = k + 1
    <3>1. n \in IF i = 1 THEN {q.first} ELSE After(q, u[i - 1])
      <4>1. CASE k = 0
        BY <2>1, <4>1 DEF Onward
      <4>2. CASE k # 0
        <5>1. k \in 1 .. k /\ i # 1 /\ i - 1 = k
          BY <1>2, <2>1, <4>2
        <5>2. a.previous = u[k]
          BY <1>1, <1>2, <4>2, <5>1 DEF ReadFrom
        <5>3. QED
          BY <4>2, <5>1, <5>2 DEF Onward
      <4>3. QED
        BY <4>1, <4>2
    <3>2. QED
      BY <1>2, <2>1, <3>1 DEF Options
  <2>2. CASE i # k + 1
    <3>1. i \in 1 .. k /\ (i # 1 => i - 1 \in 1 .. k)
      BY <1>2, <2>2
    <3>2. v[i] \in Options(q, v, i)
      BY <1>1, <1>2, <3>1 DEF ReadFrom, IsWalk
    <3>3. u[i] = v[i] /\ (i # 1 => u[i - 1] = v[i - 1])
      BY <1>2, <3>1
    <3>4. QED
      BY <3>2, <3>3 DEF Options
  <2>3. QED
    BY <2>1, <2>2
<1>5. b.branches = Taken(q, u)
  <2>1. ASSUME NEW i \in 1 .. k, u[i] \in q.cond
        PROVE  <<u[i], u[i + 1]>> \in b.branches
    <3>1. CASE i = k
      <4>1. a.previous = u[k] /\ u[i + 1] = n
        BY <1>1, <1>2, <2>1, <3>1 DEF ReadFrom
      <4>2. QED
        BY <2>1, <3>1, <4>1
    <3>2. CASE i # k
      <4>1. i \in 1 .. Len(v) - 1 /\ i + 1 \in 1 .. k
        BY <1>2, <2>1, <3>2
      <4>2. v[i] = u[i] /\ v[i + 1] = u[i + 1]
        BY <1>2, <4>1
      <4>3. <<v[i], v[i + 1]>> \in Taken(q, v)
        BY <2>1, <4>1, <4>2 DEF Taken
      <4>4. QED
        BY <1>1, <4>2, <4>3 DEF ReadFrom
    <3>3. QED
      BY <3>1, <3>2
  <2>2. ASSUME NEW e \in a.branches PROVE e \in Taken(q, u)
    <3>1. PICK i \in 1 .. Len(v) - 1 : v[i] \in q.cond /\ e = <<v[i], v[i + 1]>>
      BY <1>1, <2>2 DEF ReadFrom, Taken
    <3>2. i \in 1 .. k /\ i + 1 \in 1 .. k /\ i \in 1 .. Len(u) - 1
      BY <1>2, <3>1
    <3>3. v[i] = u[i] /\ v[i + 1] = u[i + 1]
      BY <1>2, <3>2
    <3>4. QED
      BY <3>1, <3>2, <3>3 DEF Taken
  <2>3. ASSUME a.previous \in q.cond PROVE <<a.previous, n>> \in Taken(q, u)
    <3>1. k # 0 /\ a.previous = v[k]
      BY <1>1, <2>3 DEF ReadFrom
    <3>2. k \in 1 .. k /\ k \in 1 .. Len(u) - 1
      BY <1>2, <3>1
    <3>3. u[k] = a.previous /\ u[k + 1] = n
      BY <1>2, <3>1, <3>2
    <3>4. QED
      BY <2>3, <3>2, <3>3 DEF Taken
  <2>4. Taken(q, u) \subseteq b.branches
    BY <1>2, <2>1 DEF Taken
  <2>5. b.branches \subseteq Taken(q, u)
    BY <2>2, <2>3
  <2>6. QED
    BY <2>4, <2>5
<1>6. b.index # 0 /\ b.previous = u[b.index]
  BY <1>2
<1>7. ReadFrom(q, w, b, u)
  BY <1>2, <1>3, <1>4, <1>5, <1>6 DEF ReadFrom
<1>8. Onward(q, b) = After(q, n)
  BY <1>6 DEF Onward
<1>9. QED
  BY <1>2, <1>7, <1>8 DEF Read

(* The nodes an activation has yet to try are read from nothing.           *)
LEMMA ReadStays ==
  ASSUME NEW q, NEW w, NEW a, Read(q, w, a),
         NEW b, b.index = a.index, b.previous = a.previous, b.branches = a.branches,
         b.candidates = a.candidates, b.points = <<>>,
         \A i \in 1 .. Len(b.todo) : b.todo[i] \in Onward(q, a)
  PROVE  Read(q, w, b)
<1>1. \A v : ReadFrom(q, w, a, v) => ReadFrom(q, w, b, v)
  BY DEF ReadFrom
<1>2. Onward(q, b) = Onward(q, a)
  BY DEF Onward
<1>3. QED
  BY <1>1, <1>2 DEF Read

(* The walk an activation holds when it has matched all marks              *)
LEMMA Reached ==
  ASSUME NEW q, NEW w \in Seq(Node), w # <<>>, NEW a, a.index = Len(w), Read(q, w, a)
  PROVE  \E v : Result(q, w, v, a.branches, q.end \in After(q, a.previous))
<1>1. PICK v \in Seq(Node) : ReadFrom(q, w, a, v)
  BY DEF Read
<1>2. Len(w) \in Nat /\ Len(w) # 0 /\ Len(v) = Len(w) /\ v # <<>>
  BY <1>1 DEF ReadFrom
<1>3. a.previous = v[Len(v)] /\ IsWalk(q, v) /\ Alike(q, v, w) /\ a.branches = Taken(q, v)
  BY <1>1, <1>2 DEF ReadFrom, Alike
<1>4. Result(q, w, v, a.branches, q.end \in After(q, a.previous))
  BY <1>1, <1>2, <1>3 DEF Result, Ends
<1>5. QED
  BY <1>4

(* What matches where a walk is read: what is behind it, and among that    *)
(* the node executed if the walk is the one executed.                      *)
LEMMA MatchingRead ==
  ASSUME IInv, Complete, Reading, Regular, Mapping("match")
  PROVE  /\ activations # <<>> /\ pc = "map" /\ Top.step = "match" /\ Top.todo = <<>>
         /\ Top.index < Len(walk) /\ Top.index + 1 \in 1 .. Len(walk)
         /\ ~ Popped /\ Points = <<>>
         /\ \A n : NextCandidates(n) = After(p, n)
         /\ \A n : NextPoints(<<>>, n) = <<>>
         /\ \A n \in Candidates : n \in Node /\ n \in Onward(p, Top)
                                    /\ p.label[n] = p.label[walk[Top.index + 1]]
         /\ Sought(walk, Top) => walk[Top.index + 1] \in Candidates
         /\ ~ found /\ Seeking
<1>1. activations # <<>> /\ pc = "map" /\ Top.step = "match"
  BY DEF Mapping
<1>2. /\ Read(p, walk, Top) /\ Top \in Act /\ Good(p, walk, statements, Top)
      /\ Top.index \in Nat /\ Len(walk) \in Nat /\ walk \in Seq(Node) /\ IsWalk(p, walk)
  BY <1>1, TopRead
<1>3. Top.index < Len(walk) /\ Top.index + 1 \in 1 .. Len(walk) /\ Top.todo = <<>>
  BY <1>1, <1>2 DEF Good
<1>4. ~ Popped /\ Points = <<>>
  BY <1>2 DEF Popped, Points, Read
<1>5. ~ IsRecursive
  <2>1. Marked \in Node
    BY <1>2, <1>3 DEF Marked
  <2>2. QED
    BY <2>1 DEF IsRecursive, Regular
<1>6. (\A n : NextCandidates(n) = After(p, n)) /\ (\A n : NextPoints(<<>>, n) = <<>>)
  BY <1>5 DEF NextCandidates, NextPoints, After, Successors
<1>7. \A n : Matches(n) <=> p.label[n] = p.label[walk[Top.index + 1]]
  BY DEF Matches, Marked
<1>8. Top.candidates \subseteq Node /\ Top.candidates = Onward(p, Top)
  BY <1>2 DEF Act, Read
<1>9. ASSUME Sought(walk, Top) PROVE walk[Top.index + 1] \in Candidates
  <2> DEFINE k == Top.index
  <2>1. walk[k + 1] \in Options(p, walk, k + 1)
    BY <1>2, <1>3 DEF IsWalk
  <2>2. k # 0 => Top.previous = walk[k]
    BY <1>1, <1>9 DEF Sought
  <2>3. walk[k + 1] \in Onward(p, Top)
    <3>1. CASE k = 0
      BY <2>1, <3>1 DEF Onward, Options
    <3>2. CASE k # 0
      <4>1. k + 1 # 1 /\ (k + 1) - 1 = k
        BY <1>2, <3>2
      <4>2. QED
        BY <2>1, <2>2, <3>2, <4>1 DEF Onward, Options
    <3>3. QED
      BY <3>1, <3>2
  <2>4. QED
    BY <1>7, <1>8, <2>3 DEF Candidates
<1>10. ~ found /\ Seeking
  BY <1>1 DEF Reading, Settled
<1>11. \A n \in Candidates : n \in Node /\ n \in Onward(p, Top)
                               /\ p.label[n] = p.label[walk[Top.index + 1]]
  BY <1>7, <1>8 DEF Candidates
<1>12. QED
  BY <1>1, <1>3, <1>4, <1>6, <1>9, <1>10, <1>11

(* The end of a program is no condition.                                   *)
LEMMA EndOpen == ASSUME NEW q \in Programs PROVE q.end \notin q.cond
BY ProgramsAssumption


-----------------------------------------------------------------------------
(* One lemma for each step                                                 *)
LEMMA SearchBeginsReading ==
  ASSUME IInv, Reading, Regular, Stop
  PROVE  Reading'
<1> DEFINE a == Activation(0, {p.first}, p.end, {}, <<>>)
<1>1. /\ p' = p /\ walk' = walk /\ pc = "run" /\ pc' = "map" /\ walk # <<>>
      /\ activations' = <<a>> /\ found' = found /\ complete' = complete /\ ~ found
  BY DEF Stop, runVars, IInv, Resting
<1>2. /\ a.index = 0 /\ a.candidates = {p.first} /\ a.points = <<>> /\ a.todo = <<>>
      /\ a.step = "enter" /\ a.branches = {} /\ a.previous = p.end
  BY DEF Activation
<1> HIDE DEF a
<1>3. Read(p, walk, a)
  <2>1. <<>> \in Seq(Node) /\ Len(<<>>) = 0
    OBVIOUS
  <2>2. Taken(p, <<>>) = {}
    BY DEF Taken
  <2>3. ReadFrom(p, walk, a, <<>>)
    BY <1>2, <2>1, <2>2 DEF ReadFrom, IsWalk
  <2>4. \E v \in Seq(Node) : ReadFrom(p, walk, a, v)
    BY <2>1, <2>3
  <2>5. Len(a.todo) = 0 /\ Onward(p, a) = {p.first}
    BY <1>2 DEF Onward
  <2>6. QED
    BY <1>2, <2>4, <2>5 DEF Read
<1>4. Sought(walk, a)
  BY <1>2 DEF Sought
<1>5. Len(<<a>>) = 1 /\ <<a>>[1] = a
  OBVIOUS
<1>6. ReadAll' /\ OneRuns'
  BY <1>1, <1>3, <1>5 DEF ReadAll, OneRuns
<1>7. Seeking'
  BY <1>1, <1>4, <1>5 DEF Reading, Seeking
<1>8. QED
  BY <1>1, <1>6, <1>7 DEF Reading

(* All marks are matched: a path is found. *)
LEMMA ReachEndReading ==
  ASSUME IInv, Reading, Regular, ~ found, walk # <<>>, NEW a \in Act, a.index = Len(walk),
         Read(p, walk, a), NEW S, S # {}, ReachEnd(a, S), Kept
  PROVE  found' /\ \E v : Result(p', walk', v, branches', complete')
<1>1. walk \in Seq(Node)
  BY DEF IInv, Typed
<1>2. PICK v : Result(p, walk, v, a.branches, p.end \in After(p, a.previous))
  BY <1>1, Reached
<1>3. found' /\ branches' = a.branches
  BY DEF ReachEnd
<1>4. complete' <=> p.end \in After(p, a.previous)
  BY DEF ReachEnd, Reading, Seeking, After, Successors
<1>5. QED
  BY <1>2, <1>3, <1>4 DEF Result, Kept

(* Entering an activation, or finding a path, keeps every activation read  *)
(* from a walk that prints the marks, and the execution within reach.      *)
LEMMA EnterReading ==
  ASSUME IInv, Complete, Reading, Regular, Enter \/ EnterFound
  PROVE  Reading'
<1>1. /\ Kept /\ pc' = pc /\ pc = "map" /\ activations # <<>> /\ Top.step = "enter"
  BY DEF Enter, EnterFound, runVars, Mapping, Kept
<1>2. /\ Top \in Act /\ Good(p, walk, statements, Top) /\ Read(p, walk, Top)
      /\ Top = activations[Len(activations)] /\ Len(activations) \in Nat /\ Len(walk) \in Nat
      /\ walk \in Seq(Node)
  BY <1>1, TopRead
<1>3. ASSUME NEW st \in {"match", "return"}, Put([Top EXCEPT !.step = st])
      PROVE  /\ ReadAll' /\ OneRuns' /\ Top'.step = st
             /\ \A j \in 1 .. Len(activations) - 1 :
                  Sought(walk, activations[j]) =>
                    \E i \in 1 .. Len(activations') : Sought(walk', activations'[i])
             /\ st = "match" /\ Sought(walk, Top) =>
                  \E i \in 1 .. Len(activations') : Sought(walk', activations'[i])
  <2> DEFINE a == [Top EXCEPT !.step = st]
  <2>1. /\ a \in Act /\ a.index = Top.index /\ a.candidates = Top.candidates /\ a.step = st
        /\ a.todo = Top.todo /\ a.points = Top.points /\ a.previous = Top.previous
        /\ a.branches = Top.branches
    BY <1>2 DEF Act
  <2>2. activations' = Append(Front(activations), a)
    BY <1>3 DEF Put
  <2> HIDE DEF a
  <2>3. Read(p, walk, a)
    <3>1. a.points = <<>> /\ \A i \in 1 .. Len(a.todo) : a.todo[i] \in Onward(p, Top)
      BY <1>2, <2>1 DEF Read
    <3>2. Read(p, walk, Top)
      BY <1>2
    <3>3. QED
      BY <2>1, <3>1, <3>2, ReadStays
  <2>4. st = "match" /\ Sought(walk, Top) => Sought(walk, a)
    BY <1>1, <2>1 DEF Sought
  <2>5. QED
    BY <1>1, <2>1, <2>2, <2>3, <2>4, ReadGoes
<1>4. CASE EnterFound
  <2>1. /\ found /\ found' = found /\ branches' = branches /\ complete' = complete
        /\ Put([Top EXCEPT !.step = "return"])
    BY <1>4 DEF EnterFound
  <2>2. ReadAll' /\ OneRuns' /\ Top'.step = "return"
    BY <1>3, <2>1
  <2>3. Settled'
    BY <1>1, <2>1, <2>2 DEF Reading, Settled, Kept
  <2>4. QED
    BY <2>1, <2>2, <2>3 DEF Reading
<1>5. CASE Enter /\ Top.index = Len(walk)
  <2>1. ~ found /\ ReachEnd(Top, statements) /\ Put([Top EXCEPT !.step = "return"])
    BY <1>5 DEF Enter
  <2>2. walk # <<>>
    BY <1>1, <2>1 DEF Reading, Seeking
  <2>3. statements # {}
    <3>1. Top.index \in 1 .. Top.index
      BY <1>2, <1>5, <2>2
    <3>2. QED
      BY <1>2, <3>1 DEF Good, MarksMatched
  <2>4. found' /\ \E v : Result(p', walk', v, branches', complete')
    BY <1>1, <1>2, <1>5, <2>1, <2>2, <2>3, ReachEndReading
  <2>5. ReadAll' /\ OneRuns' /\ Top'.step = "return"
    BY <1>3, <2>1
  <2>6. QED
    BY <2>4, <2>5 DEF Reading, Settled
<1>6. CASE Enter /\ Top.index # Len(walk)
  <2>1. ~ found /\ found' = found /\ complete' = complete /\ Put([Top EXCEPT !.step = "match"])
    BY <1>6 DEF Enter
  <2>2. /\ ReadAll' /\ OneRuns'
        /\ \A j \in 1 .. Len(activations) - 1 :
             Sought(walk, activations[j]) =>
               \E i \in 1 .. Len(activations') : Sought(walk', activations'[i])
        /\ Sought(walk, Top) =>
             \E i \in 1 .. Len(activations') : Sought(walk', activations'[i])
    BY <1>3, <2>1
  <2>3. ~ complete /\ walk # <<>>
    BY <1>1, <2>1 DEF Reading, Seeking
  <2>4. PICK j \in 1 .. Len(activations) : Sought(walk, activations[j])
    BY <1>1, <2>1 DEF Reading, Seeking
  <2>5. j \in 1 .. Len(activations) - 1 \/ activations[j] = Top
    BY <1>2
  <2>6. \E i \in 1 .. Len(activations') : Sought(walk', activations'[i])
    BY <2>2, <2>4, <2>5
  <2>7. Seeking'
    BY <1>1, <2>1, <2>3, <2>6 DEF Seeking, Kept
  <2>8. QED
    BY <2>1, <2>2, <2>7 DEF Reading
<1>7. QED
  BY <1>4, <1>5, <1>6


(* So does a mark that no node matches.                                    *)
LEMMA MappingFailsReading ==
  ASSUME IInv, Complete, Reading, Regular, MappingFails
  PROVE  Reading'
<1>1. /\ Kept /\ pc' = pc /\ found' = found /\ complete' = complete
      /\ Mapping("match") /\ <<>> \in MatchingLists
      /\ Put([Top EXCEPT !.step = "return", !.points = Points])
  BY DEF MappingFails, runVars, Kept
<1>2. /\ activations # <<>> /\ pc = "map" /\ Top.todo = <<>> /\ Points = <<>> /\ ~ Popped
      /\ Sought(walk, Top) => walk[Top.index + 1] \in Candidates
      /\ ~ found /\ Seeking
  BY <1>1, MatchingRead
<1>3. Candidates = {}
  BY <1>1, <1>2, ListsAll
<1>4. /\ Top \in Act /\ Read(p, walk, Top)
      /\ Top = activations[Len(activations)] /\ Len(activations) \in Nat
  BY <1>2, TopRead
<1> DEFINE a == [Top EXCEPT !.step = "return", !.points = Points]
<1>5. /\ a \in Act /\ a.index = Top.index /\ a.candidates = Top.candidates
      /\ a.todo = Top.todo /\ a.points = <<>> /\ a.previous = Top.previous
      /\ a.branches = Top.branches
  BY <1>2, <1>4 DEF Act
<1>6. activations' = Append(Front(activations), a)
  BY <1>1 DEF Put
<1> HIDE DEF a
<1>7. Read(p, walk, a)
  <2>1. Read(p, walk, Top) /\ \A i \in 1 .. Len(a.todo) : a.todo[i] \in Onward(p, Top)
    BY <1>2, <1>4, <1>5
  <2>2. QED
    BY <1>5, <2>1, ReadStays
<1>8. /\ ReadAll' /\ OneRuns'
      /\ \A j \in 1 .. Len(activations) - 1 :
           Sought(walk, activations[j]) =>
             \E i \in 1 .. Len(activations') : Sought(walk', activations'[i])
  BY <1>1, <1>2, <1>5, <1>6, <1>7, ReadGoes
<1>9. PICK j \in 1 .. Len(activations) : Sought(walk, activations[j])
  BY <1>2 DEF Seeking
<1>10. j \in 1 .. Len(activations) - 1
  BY <1>2, <1>3, <1>4, <1>9
<1>11. Seeking'
  BY <1>1, <1>2, <1>8, <1>9, <1>10 DEF Seeking, Kept
<1>12. QED
  BY <1>1, <1>2, <1>8, <1>11 DEF Reading

(* So does a mark that several nodes match.                                *)
LEMMA MatchSeveralReading ==
  ASSUME IInv, Complete, Reading, Regular, MatchSeveral
  PROVE  Reading'
<1>1. /\ Kept /\ pc' = pc /\ found' = found /\ complete' = complete /\ Mapping("match")
  BY DEF MatchSeveral, runVars, Kept
<1>2. PICK s \in MatchingLists :
        Len(s) > 1 /\ Put([Top EXCEPT !.step = "fork", !.todo = s, !.points = Points])
  BY DEF MatchSeveral
<1>3. /\ activations # <<>> /\ pc = "map" /\ Points = <<>> /\ ~ Popped
      /\ Top.index < Len(walk)
      /\ \A n \in Candidates : n \in Onward(p, Top)
      /\ Sought(walk, Top) => walk[Top.index + 1] \in Candidates
      /\ ~ found /\ Seeking
  BY <1>1, MatchingRead
<1>4. /\ s \in Seq(Node) /\ \A i \in 1 .. Len(s) : s[i] \in Candidates
      /\ \A n \in Candidates : \E i \in 1 .. Len(s) : s[i] = n
  BY <1>1, <1>3, ListsAll
<1>5. /\ Top \in Act /\ Read(p, walk, Top)
      /\ Top = activations[Len(activations)] /\ Len(activations) \in Nat
  BY <1>3, TopRead
<1> DEFINE a == [Top EXCEPT !.step = "fork", !.todo = s, !.points = Points]
<1>6. /\ a \in Act /\ a.index = Top.index /\ a.candidates = Top.candidates /\ a.step = "fork"
      /\ a.todo = s /\ a.points = <<>> /\ a.previous = Top.previous
      /\ a.branches = Top.branches
  <2>1. a = [Top EXCEPT !.step = "fork", !.todo = s, !.points = <<>>] /\ <<>> \in Seq(Node)
    BY <1>3
  <2>2. QED
    BY <1>4, <1>5, <2>1 DEF Act
<1>7. activations' = Append(Front(activations), a)
  BY <1>2 DEF Put
<1> HIDE DEF a
<1>8. Read(p, walk, a)
  <2>1. Read(p, walk, Top) /\ \A i \in 1 .. Len(a.todo) : a.todo[i] \in Onward(p, Top)
    BY <1>3, <1>4, <1>5, <1>6
  <2>2. QED
    BY <1>6, <2>1, ReadStays
<1>9. Sought(walk, Top) => Sought(walk, a)
  BY <1>3, <1>4, <1>6 DEF Sought
<1>10. /\ ReadAll' /\ OneRuns'
       /\ \A j \in 1 .. Len(activations) - 1 :
            Sought(walk, activations[j]) =>
              \E i \in 1 .. Len(activations') : Sought(walk', activations'[i])
       /\ Sought(walk, a) =>
            \E i \in 1 .. Len(activations') : Sought(walk', activations'[i])
  BY <1>1, <1>3, <1>6, <1>7, <1>8, ReadGoes
<1>11. PICK j \in 1 .. Len(activations) : Sought(walk, activations[j])
  BY <1>3 DEF Seeking
<1>12. j \in 1 .. Len(activations) - 1 \/ activations[j] = Top
  BY <1>5
<1>13. Seeking'
  BY <1>1, <1>3, <1>9, <1>10, <1>11, <1>12 DEF Seeking, Kept
<1>14. QED
  BY <1>1, <1>3, <1>10, <1>13 DEF Reading

(* What is known when one node matches                                     *)
LEMMA OneRead ==
  ASSUME IInv, Complete, Reading, Regular, Mapping("match"),
         NEW n \in Node, <<n>> \in MatchingLists
  PROVE  /\ n \in Onward(p, Top) /\ p.label[n] = p.label[walk[Top.index + 1]]
         /\ Sought(walk, Top) => n = walk[Top.index + 1]
<1> DEFINE s == <<n>>
<1>1. Len(s) = 1 /\ s[1] = n /\ 1 \in 1 .. Len(s) /\ \A i \in 1 .. Len(s) : s[i] = n
  OBVIOUS
<1>2. ~ Popped /\ s \in MatchingLists
  BY MatchingRead
<1> HIDE DEF s
<1>3. /\ \A i \in 1 .. Len(s) : s[i] \in Candidates
      /\ \A m \in Candidates : \E i \in 1 .. Len(s) : s[i] = m
  BY <1>2, ListsAll
<1>4. n \in Candidates /\ \A m \in Candidates : m = n
  BY <1>1, <1>3
<1>5. QED
  BY <1>4, MatchingRead

(* So does a mark that one node matches.                                   *)
LEMMA MatchOneReading ==
  ASSUME IInv, Complete, Reading, Regular, NEW n \in Node, MatchOne(n)
  PROVE  Reading'
<1> DEFINE b == [Top EXCEPT !.index = @ + 1, !.candidates = NextCandidates(n),
                            !.previous = n, !.branches = NextBranches(n),
                            !.points = NextPoints(Points, n)]
           r == [b EXCEPT !.step = "return"]
<1>1. /\ Kept /\ pc' = pc /\ Mapping("match") /\ <<n>> \in MatchingLists
      /\ statements' = statements \cup {n}
      /\ IF b.index = Len(walk) THEN ReachEnd(b, statements') /\ Put(r)
         ELSE Put(b) /\ found' = found /\ complete' = complete
  BY DEF MatchOne, runVars, Kept
<1>2. /\ activations # <<>> /\ pc = "map" /\ Top.step = "match" /\ Top.todo = <<>>
      /\ Points = <<>>
      /\ NextCandidates(n) = After(p, n) /\ NextPoints(<<>>, n) = <<>>
      /\ ~ found /\ Seeking
  BY <1>1, MatchingRead
<1>3. /\ n \in Onward(p, Top) /\ p.label[n] = p.label[walk[Top.index + 1]]
      /\ Sought(walk, Top) => n = walk[Top.index + 1]
  BY <1>1, OneRead
<1>4. /\ Top \in Act /\ Read(p, walk, Top) /\ Top.index \in Nat /\ p \in Programs
      /\ Top = activations[Len(activations)] /\ Len(activations) \in Nat
  BY <1>2, TopRead
<1>5. /\ NextCandidates(n) \subseteq Node /\ NextBranches(n) \subseteq Node \X Node
      /\ <<>> \in Seq(Node)
  <2>1. <<>> \in Seq(Node)
    OBVIOUS
  <2>2. QED
    BY <1>2, <2>1, Behind
<1>6. /\ b \in Act /\ b.index = Top.index + 1 /\ b.candidates = After(p, n)
      /\ b.todo = <<>> /\ b.points = <<>> /\ b.previous = n
      /\ b.branches = NextBranches(n) /\ b.step = "match"
  <2>1. b = [Top EXCEPT !.index = Top.index + 1, !.candidates = NextCandidates(n),
                        !.previous = n, !.branches = NextBranches(n), !.points = <<>>]
    BY <1>2
  <2>2. /\ NextCandidates(n) \in SUBSET Node /\ NextBranches(n) \in SUBSET (Node \X Node)
        /\ Top.index + 1 \in Nat /\ <<>> \in Seq(Node)
    BY <1>4, <1>5
  <2>3. b \in Act
    BY <1>4, <2>1, <2>2 DEF Act
  <2>4. QED
    BY <1>2, <1>4, <2>1, <2>3 DEF Act
<1> HIDE DEF b
<1>7. /\ r \in Act /\ r.index = b.index /\ r.candidates = b.candidates
      /\ r.todo = <<>> /\ r.points = <<>> /\ r.previous = b.previous
      /\ r.branches = b.branches /\ r.step = "return"
  BY <1>6 DEF Act
<1> HIDE DEF r
<1>8. Read(p, walk, b)
  <2>1. p.end \notin p.cond
    BY <1>4, EndOpen
  <2>2. b.branches = Top.branches \cup (IF Top.previous \in p.cond THEN {<<Top.previous, n>>} ELSE {})
    BY <1>6 DEF NextBranches
  <2>3. QED
    BY <1>3, <1>4, <1>6, <2>1, <2>2, ReadOn
<1>9. Read(p, walk, r)
  BY <1>7, <1>8, ReadStays
<1>10. CASE b.index = Len(walk)
  <2>1. ReachEnd(b, statements') /\ Put(r)
    BY <1>1, <1>10
  <2>2. walk # <<>> /\ statements' # {}
    BY <1>1, <1>2 DEF Seeking
  <2>3. found' /\ \E v : Result(p', walk', v, branches', complete')
    BY <1>1, <1>2, <1>6, <1>8, <1>10, <2>1, <2>2, ReachEndReading
  <2>4. ReadAll' /\ OneRuns' /\ Top' = r
    BY <1>1, <1>2, <1>7, <1>9, <2>1, ReadGoes DEF Put
  <2>5. QED
    BY <1>7, <2>3, <2>4 DEF Reading, Settled
<1>11. CASE b.index # Len(walk)
  <2>1. Put(b) /\ found' = found /\ complete' = complete
    BY <1>1, <1>11
  <2>2. Sought(walk, Top) => Sought(walk, b)
    BY <1>3, <1>6 DEF Sought
  <2>3. /\ ReadAll' /\ OneRuns'
        /\ \A j \in 1 .. Len(activations) - 1 :
             Sought(walk, activations[j]) =>
               \E i \in 1 .. Len(activations') : Sought(walk', activations'[i])
        /\ Sought(walk, b) =>
             \E i \in 1 .. Len(activations') : Sought(walk', activations'[i])
    BY <1>1, <1>2, <1>6, <1>8, <2>1, ReadGoes DEF Put
  <2>4. PICK j \in 1 .. Len(activations) : Sought(walk, activations[j])
    BY <1>2 DEF Seeking
  <2>5. j \in 1 .. Len(activations) - 1 \/ activations[j] = Top
    BY <1>4
  <2>6. Seeking'
    BY <1>1, <1>2, <2>1, <2>2, <2>3, <2>4, <2>5 DEF Seeking, Kept
  <2>7. QED
    BY <1>2, <2>1, <2>3, <2>6 DEF Reading
<1>12. QED
  BY <1>10, <1>11


(* So does a mark that a call matches.                                     *)
LEMMA MatchCallReading ==
  ASSUME IInv, Complete, Reading, Regular, NEW n \in Node, MatchCall(n)
  PROVE  Reading'
<1> DEFINE a == [Top EXCEPT !.step = "return"]
           b == Activation(Top.index + 1, NextCandidates(n), n, NextBranches(n),
                           NextPoints(Points, n))
<1>1. /\ Kept /\ pc' = pc /\ Mapping("match") /\ <<n>> \in MatchingLists
      /\ found' = found /\ complete' = complete
      /\ activations' = Append(Append(Front(activations), a), b)
  BY DEF MatchCall, runVars, Kept
<1>2. /\ activations # <<>> /\ pc = "map" /\ Top.step = "match" /\ Top.todo = <<>>
      /\ Points = <<>>
      /\ NextCandidates(n) = After(p, n) /\ NextPoints(<<>>, n) = <<>>
      /\ ~ found /\ Seeking
  BY <1>1, MatchingRead
<1>3. /\ n \in Onward(p, Top) /\ p.label[n] = p.label[walk[Top.index + 1]]
      /\ Sought(walk, Top) => n = walk[Top.index + 1]
  BY <1>1, OneRead
<1>4. /\ Top \in Act /\ Read(p, walk, Top) /\ Top.index \in Nat /\ p \in Programs
      /\ Top = activations[Len(activations)] /\ Len(activations) \in Nat
  BY <1>2, TopRead
<1>5. /\ a \in Act /\ a.index = Top.index /\ a.candidates = Top.candidates
      /\ a.todo = <<>> /\ a.points = Top.points /\ a.previous = Top.previous
      /\ a.branches = Top.branches /\ a.step = "return"
  BY <1>2, <1>4 DEF Act
<1> HIDE DEF a
<1>6. /\ b.index = Top.index + 1 /\ b.candidates = After(p, n)
      /\ b.todo = <<>> /\ b.points = <<>> /\ b.previous = n
      /\ b.branches = NextBranches(n) /\ b.step = "enter"
  BY <1>2 DEF Activation
<1>7. b \in Act
  <2>1. Points \in Seq(Node) /\ Top.index + 1 \in Nat /\ <<>> \in Seq(Node)
    BY <1>2, <1>4
  <2>2. /\ NextCandidates(n) \in SUBSET Node /\ NextBranches(n) \in SUBSET (Node \X Node)
        /\ NextPoints(Points, n) \in Seq(Node)
    BY <1>2, <2>1, Behind
  <2>3. QED
    BY <2>1, <2>2 DEF Act, Activation
<1> HIDE DEF b
<1>8. Read(p, walk, a)
  <2>1. a.points = <<>> /\ \A i \in 1 .. Len(a.todo) : a.todo[i] \in Onward(p, Top)
    BY <1>4, <1>5 DEF Read
  <2>2. QED
    BY <1>4, <1>5, <2>1, ReadStays
<1>9. Read(p, walk, b)
  <2>1. p.end \notin p.cond
    BY <1>4, EndOpen
  <2>2. b.branches = Top.branches \cup (IF Top.previous \in p.cond THEN {<<Top.previous, n>>} ELSE {})
    BY <1>6 DEF NextBranches
  <2>3. QED
    BY <1>3, <1>4, <1>6, <2>1, <2>2, ReadOn
<1>10. Sought(walk, Top) => Sought(walk, b)
  BY <1>3, <1>6 DEF Sought
<1>11. /\ ReadAll' /\ OneRuns'
       /\ \A j \in 1 .. Len(activations) - 1 :
            Sought(walk, activations[j]) =>
              \E i \in 1 .. Len(activations') : Sought(walk', activations'[i])
       /\ Sought(walk, b) => \E i \in 1 .. Len(activations') : Sought(walk', activations'[i])
  BY <1>1, <1>2, <1>5, <1>7, <1>8, <1>9, ReadGoesDeeper
<1>12. PICK j \in 1 .. Len(activations) : Sought(walk, activations[j])
  BY <1>2 DEF Seeking
<1>13. j \in 1 .. Len(activations) - 1 \/ activations[j] = Top
  BY <1>4
<1>14. Seeking'
  BY <1>1, <1>2, <1>10, <1>11, <1>12, <1>13 DEF Seeking, Kept
<1>15. QED
  BY <1>1, <1>2, <1>11, <1>14 DEF Reading

(* So does trying the next of several nodes.                               *)
LEMMA ForkReading ==
  ASSUME IInv, Complete, Reading, Regular, Fork
  PROVE  Reading'
<1> DEFINE n == Head(Top.todo)
           a == [Top EXCEPT !.todo = Tail(@), !.points = NextPoints(@, n)]
           b == Activation(Top.index + 1, NextCandidates(n), n, NextBranches(n), a.points)
<1>1. /\ Kept /\ pc' = pc /\ pc = "map" /\ found' = found /\ branches' = branches
      /\ complete' = complete
      /\ activations # <<>> /\ Top.step = "fork" /\ Top.todo # <<>>
      /\ activations' = Append(Append(Front(activations), a), b)
  BY DEF Fork, runVars, Mapping, Kept
<1>2. /\ Read(p, walk, Top) /\ Top \in Act /\ Good(p, walk, statements, Top)
      /\ Top = activations[Len(activations)] /\ Top.index \in Nat /\ Len(walk) \in Nat
      /\ Len(activations) \in Nat /\ walk \in Seq(Node) /\ Top.todo \in Seq(Node)
      /\ p \in Programs
  BY <1>1, TopRead
<1>3. /\ n \in Node /\ n = Top.todo[1]
      /\ 1 \in 1 .. Len(Top.todo) /\ Len(Top.todo) \in Nat
      /\ Tail(Top.todo) \in Seq(Node) /\ Len(Tail(Top.todo)) = Len(Top.todo) - 1
      /\ \A i \in 1 .. Len(Tail(Top.todo)) : Tail(Top.todo)[i] = Top.todo[i + 1]
  BY <1>1, <1>2, HeadTailProperties
<1>4. /\ Top.index < Len(walk) /\ Top.index + 1 \in 1 .. Len(walk)
      /\ p.label[n] = p.label[walk[Top.index + 1]] /\ n \in Onward(p, Top)
  BY <1>2, <1>3 DEF Good, Read
<1>5. Top.points = <<>>
  BY <1>2 DEF Read
<1> HIDE DEF n
<1>6. NextCandidates(n) = After(p, n) /\ NextPoints(Top.points, n) = <<>>
  <2>1. Marked \in Node
    BY <1>2, <1>4 DEF Marked
  <2>2. ~ IsRecursive
    BY <1>2, <2>1 DEF IsRecursive, Regular
  <2>3. QED
    BY <1>5, <2>2 DEF NextCandidates, NextPoints, After, Successors
<1>7. /\ a \in Act /\ a.index = Top.index /\ a.step = "fork" /\ a.todo = Tail(Top.todo)
      /\ a.points = <<>> /\ a.previous = Top.previous /\ a.branches = Top.branches
      /\ a.candidates = Top.candidates
  <2>1. <<>> \in Seq(Node)
    OBVIOUS
  <2>2. a = [Top EXCEPT !.todo = Tail(Top.todo), !.points = <<>>]
    BY <1>6
  <2>3. QED
    BY <1>1, <1>2, <1>3, <2>1, <2>2 DEF Act
<1> HIDE DEF a
<1>8. b \in Act
  <2>1. a.points \in Seq(Node) /\ <<>> \in Seq(Node) /\ Top.index + 1 \in Nat
    BY <1>2, <1>7
  <2>2. NextCandidates(n) \in SUBSET Node /\ NextBranches(n) \in SUBSET (Node \X Node)
    BY <1>1, <1>3, <2>1, Behind
  <2>3. QED
    BY <1>3, <2>1, <2>2 DEF Act, Activation
<1>9. /\ b.index = Top.index + 1 /\ b.candidates = After(p, n) /\ b.todo = <<>>
      /\ b.previous = n /\ b.points = <<>> /\ b.step = "enter" /\ b.branches = NextBranches(n)
  BY <1>6, <1>7 DEF Activation
<1> HIDE DEF b
<1>10. Read(p, walk, a)
  <2>1. \A i \in 1 .. Len(a.todo) : a.todo[i] \in Onward(p, Top)
    <3> SUFFICES ASSUME NEW i \in 1 .. Len(a.todo) PROVE a.todo[i] \in Onward(p, Top)
      OBVIOUS
    <3>1. i + 1 \in 1 .. Len(Top.todo) /\ a.todo[i] = Top.todo[i + 1]
      BY <1>3, <1>7
    <3>2. QED
      BY <1>2, <3>1 DEF Read
  <2>2. QED
    BY <1>2, <1>7, <2>1, ReadStays
<1>11. Read(p, walk, b)
  <2>1. p.end \notin p.cond
    BY <1>2, EndOpen
  <2>2. b.branches = Top.branches \cup (IF Top.previous \in p.cond THEN {<<Top.previous, n>>} ELSE {})
    BY <1>9 DEF NextBranches
  <2>3. /\ Read(p, walk, Top) /\ Top.index \in Nat /\ n \in Node /\ n \in Onward(p, Top)
        /\ p.label[n] = p.label[walk[Top.index + 1]]
    BY <1>2, <1>3, <1>4
  <2>4. /\ b.index = Top.index + 1 /\ b.previous = n /\ b.candidates = After(p, n)
        /\ b.points = <<>> /\ b.todo = <<>>
    BY <1>9
  <2>5. QED
    BY <2>1, <2>2, <2>3, <2>4, ReadOn
<1>12. Sought(walk, Top) => Sought(walk, a) \/ Sought(walk, b)
  <2> SUFFICES ASSUME Sought(walk, Top) PROVE Sought(walk, a) \/ Sought(walk, b)
    OBVIOUS
  <2>1. PICK l \in 1 .. Len(Top.todo) : Top.todo[l] = walk[Top.index + 1]
    BY <1>1 DEF Sought
  <2>2. CASE l = 1
    BY <1>3, <1>9, <2>1, <2>2 DEF Sought
  <2>3. CASE l # 1
    <3>1. l - 1 \in 1 .. Len(a.todo) /\ a.todo[l - 1] = Top.todo[l]
      BY <1>3, <1>7, <2>3
    <3>2. QED
      BY <1>4, <1>7, <2>1, <3>1 DEF Sought
  <2>4. QED
    BY <2>2, <2>3
<1>13. /\ ReadAll' /\ OneRuns' /\ Top' = b
       /\ \A j \in 1 .. Len(activations) - 1 :
            Sought(walk, activations[j]) =>
              \E i \in 1 .. Len(activations') : Sought(walk', activations'[i])
       /\ Sought(walk, a) => \E i \in 1 .. Len(activations') : Sought(walk', activations'[i])
       /\ Sought(walk, b) => \E i \in 1 .. Len(activations') : Sought(walk', activations'[i])
  BY <1>1, <1>7, <1>8, <1>10, <1>11, ReadGoesDeeper
<1>14. CASE found
  <2>1. Settled'
    BY <1>1, <1>9, <1>13, <1>14 DEF Reading, Settled, Kept
  <2>2. QED
    BY <1>1, <1>13, <1>14, <2>1 DEF Reading
<1>15. CASE ~ found
  <2>1. PICK j \in 1 .. Len(activations) : Sought(walk, activations[j])
    BY <1>1, <1>15 DEF Reading, Seeking
  <2>2. j \in 1 .. Len(activations) - 1 \/ activations[j] = Top
    BY <1>2
  <2>3. \E i \in 1 .. Len(activations') : Sought(walk', activations'[i])
    BY <1>12, <1>13, <2>1, <2>2
  <2>4. Seeking'
    BY <1>1, <1>15, <2>3 DEF Reading, Seeking, Kept
  <2>5. QED
    BY <1>1, <1>13, <1>15, <2>4 DEF Reading
<1>16. QED
  BY <1>14, <1>15

(* So does the return from an activation of the search.                    *)
LEMMA ReturnReading ==
  ASSUME IInv, Complete, Reading, Regular, Return
  PROVE  Reading'
<1>1. /\ Kept /\ pc' = pc /\ pc = "map" /\ found' = found /\ branches' = branches
      /\ complete' = complete
      /\ activations # <<>>
      /\ Top.step = "return" \/ (Top.step = "fork" /\ Top.todo = <<>>)
      /\ activations' = Front(activations)
  BY DEF Return, runVars, Mapping, Kept
<1>2. /\ Top = activations[Len(activations)] /\ Len(activations) \in Nat
      /\ Len(activations) >= 1
  BY <1>1, TopRead
<1>3. /\ activations' \in Seq(Act) /\ Len(activations') = Len(activations) - 1
      /\ \A j \in 1 .. Len(activations) - 1 : activations'[j] = activations[j]
  BY <1>1, TakenOff DEF IInv, Typed
<1>4. ReadAll' /\ OneRuns'
  <2>1. \A j \in 1 .. Len(activations') :
          j \in 1 .. Len(activations) /\ activations'[j] = activations[j]
    BY <1>2, <1>3
  <2>2. \A j \in 1 .. Len(activations') - 1 :
          j \in 1 .. Len(activations) - 1 /\ activations'[j] = activations[j]
    BY <1>2, <1>3
  <2>3. QED
    BY <1>1, <2>1, <2>2 DEF Reading, ReadAll, OneRuns, Kept
<1>5. CASE found
  <2>1. ASSUME activations' # <<>> PROVE Top'.step # "match"
    <3>1. Len(activations') \in 1 .. Len(activations) - 1
      BY <1>2, <1>3, <2>1
    <3>2. Top' = activations[Len(activations')]
      BY <1>3, <3>1 DEF Top, Last
    <3>3. QED
      BY <3>1, <3>2 DEF Reading, OneRuns
  <2>2. Settled'
    BY <1>1, <1>5, <2>1 DEF Reading, Settled, Kept
  <2>3. QED
    BY <1>1, <1>4, <1>5, <2>2 DEF Reading
<1>6. CASE ~ found
  <2>1. PICK j \in 1 .. Len(activations) : Sought(walk, activations[j])
    BY <1>1, <1>6 DEF Reading, Seeking
  <2>2. ~ Sought(walk, Top)
    BY <1>1 DEF Sought
  <2>3. j \in 1 .. Len(activations) - 1 /\ j \in 1 .. Len(activations')
    BY <1>2, <1>3, <2>1, <2>2
  <2>4. Seeking'
    BY <1>1, <1>3, <1>6, <2>1, <2>3 DEF Reading, Seeking, Kept
  <2>5. QED
    BY <1>1, <1>4, <1>6, <2>4 DEF Reading
<1>7. QED
  BY <1>5, <1>6


(* So does the execution itself, before the search.                        *)
LEMMA RunReading ==
  ASSUME IInv, Reading, Regular, Run \/ ReturnFromCall
  PROVE  Reading'
<1>1. /\ p' = p /\ pc' = pc /\ pc = "run" /\ activations' = activations
      /\ found' = found /\ complete' = complete
  BY DEF Run, ReturnFromCall, mapVars
<1>2. activations = <<>> /\ ~ found
  BY <1>1 DEF IInv, Resting
<1>3. Len(activations') = 0
  BY <1>1, <1>2
<1>4. Seeking'
  BY <1>1, <1>2 DEF Reading, Seeking
<1>5. QED
  BY <1>1, <1>2, <1>3, <1>4 DEF Reading, ReadAll, OneRuns

(* So do the other steps.                                                  *)
LEMMA RestReading ==
  ASSUME Reading, Regular, Update \/ Terminated \/ UNCHANGED vars
  PROVE  Reading'
<1>1. /\ Kept /\ activations' = activations /\ branches' = branches
      /\ found' = found /\ complete' = complete
      /\ pc' = pc \/ (pc = "map" /\ pc' = "done" /\ activations = <<>>)
  BY DEF Update, Terminated, vars, runVars, mapVars, Kept
<1>2. ReadAll' /\ OneRuns' /\ (Settled => Settled')
  BY <1>1 DEF Reading, ReadAll, OneRuns, Settled, Top, Kept
<1>3. CASE pc' = pc
  <2>1. Seeking => Seeking'
    BY <1>1, <1>3 DEF Seeking, Kept
  <2>2. QED
    BY <1>1, <1>2, <2>1 DEF Reading
<1>4. CASE pc = "map" /\ activations = <<>>
  <2>1. ~ Seeking
    BY <1>4 DEF Seeking
  <2>2. QED
    BY <1>1, <1>2, <2>1 DEF Reading
<1>5. QED
  BY <1>1, <1>3, <1>4

(* Every step keeps what the activations hold read from walks.             *)
LEMMA ReadingStep ==
  ASSUME IInv, Complete, Reading, [Next]_vars
  PROVE  Reading'
<1>1. CASE Regular
  <2>1. CASE Run \/ ReturnFromCall
    BY <1>1, <2>1, RunReading
  <2>2. CASE Stop
    BY <1>1, <2>2, SearchBeginsReading
  <2>3. CASE Update \/ Terminated \/ UNCHANGED vars
    BY <1>1, <2>3, RestReading
  <2>4. CASE Enter \/ EnterFound
    BY <1>1, <2>4, EnterReading
  <2>5. CASE MappingFails \/ MatchSeveral
    BY <1>1, <2>5, MappingFailsReading, MatchSeveralReading
  <2>6. ASSUME NEW n \in Node, MatchOne(n) \/ MatchCall(n) PROVE Reading'
    BY <1>1, <2>6, MatchOneReading, MatchCallReading
  <2>7. CASE Fork \/ Return
    BY <1>1, <2>7, ForkReading, ReturnReading
  <2>8. QED
    BY <2>1, <2>2, <2>3, <2>4, <2>5, <2>6, <2>7 DEF Next, Map, Match
<1>2. CASE ~ Regular
  <2>1. p' = p
    BY DEF Next, Map, Match, Run, ReturnFromCall, Stop, Enter, EnterFound, MappingFails,
           MatchSeveral, MatchOne, MatchCall, Fork, Return, Update, Terminated, runVars, vars
  <2>2. QED
    BY <1>2, <2>1, SameProgram DEF Reading
<1>3. QED
  BY <1>1, <1>2

(* In every reachable state each activation is read from a walk that       *)
(* prints the marks, and the walk executed lies before one of them until a *)
(* path is found.                                                          *)
LEMMA ReadAlways == Spec => []Reading
<1>1. IInv /\ Complete /\ Reading /\ [Next]_vars => Reading'
  BY ReadingStep
<1>2. QED
  BY <1>1, InitReading, Completeness, Invariance, PTL DEF Spec

(* What is known in the end                                                *)
LEMMA InTheEndRead ==
  ASSUME IInv, Complete, Reading, Regular, pc = "done"
  PROVE  /\ found /\ frames = <<>>
         /\ walk # <<>> /\ walk \in Seq(Node) /\ IsWalk(p, walk)
         /\ at \in After(p, walk[Len(walk)])
         /\ \E v : Result(p, walk, v, branches, complete)
<1>1. found
  BY DEF Reading, Seeking
<1>2. \E v : Result(p, walk, v, branches, complete)
  BY <1>1 DEF Reading, Settled
<1>3. walk \in Seq(Node)
  BY DEF IInv, Typed
<1>4. walk # <<>>
  <2>1. PICK v : v \in Seq(Node) /\ v # <<>> /\ Len(v) = Len(walk)
    BY <1>2 DEF Result, Alike
  <2>2. QED
    BY <1>3, <2>1
<1>5. frames = <<>> /\ IsWalk(p, walk) /\ at \in After(p, walk[Len(walk)])
  BY <1>4 DEF Complete, Walking
<1>6. QED
  BY <1>1, <1>2, <1>3, <1>4, <1>5

(* Whatever nodes match the same marks, a path is found for each execution *)
(* of a function without calls of itself, and the branches are those of a  *)
(* walk through the graph that prints the same marks.                      *)
THEOREM MappedToWalk ==
  Spec => [](pc = "done" /\ Regular => found /\ \E v : Result(p, walk, v, branches, complete))
<1>1. IInv /\ Complete /\ Reading =>
        (pc = "done" /\ Regular => found /\ \E v : Result(p, walk, v, branches, complete))
  BY InTheEndRead
<1>2. QED
  BY <1>1, ReadAlways, Completeness, Invariance, PTL

(* The branches found are those executed, of every function in which an    *)
(* execution that ends prints marks that no other one prints.              *)
THEOREM BranchesFound == Spec => [](Unmistakable(p) => BranchesExact)
<1>1. IInv /\ Complete /\ Reading => (Unmistakable(p) => BranchesExact)
  <2> SUFFICES ASSUME IInv, Complete, Reading, Unmistakable(p), pc = "done", Regular, Ended
               PROVE  branches = Taken(p, walk)
    BY DEF BranchesExact, Taken
  <2>1. /\ walk # <<>> /\ walk \in Seq(Node) /\ IsWalk(p, walk)
        /\ at \in After(p, walk[Len(walk)])
        /\ \E v : Result(p, walk, v, branches, complete)
    BY InTheEndRead
  <2>2. PICK v : Result(p, walk, v, branches, complete)
    BY <2>1
  <2>3. Ends(p, walk)
    BY <2>1 DEF Ends, Ended
  <2>4. v \in Seq(Node) /\ IsWalk(p, v) /\ Alike(p, v, walk) /\ branches = Taken(p, v)
    BY <2>2 DEF Result
  <2>5. v = walk
    BY <2>1, <2>3, <2>4, Zenon DEF Unmistakable, ToldApart
  <2>6. QED
    BY <2>4, <2>5
<1>2. QED
  BY <1>1, ReadAlways, Completeness, Invariance, PTL

(* Every execution of a function without calls of itself is found, and it  *)
(* is complete exactly if the function has returned, if an execution that  *)
(* ends prints marks of its own and nothing but the end comes after the    *)
(* last statement.                                                         *)
THEOREM ExecutionMapped ==
  Spec => [](Regular /\ Unmistakable(p) /\ EndAlone(p) => ExecutionFound)
<1>1. IInv /\ Complete /\ Reading =>
        (Regular /\ Unmistakable(p) /\ EndAlone(p) => ExecutionFound)
  <2> SUFFICES ASSUME IInv, Complete, Reading, Unmistakable(p), EndAlone(p), pc = "done",
                      Regular
               PROVE  found /\ (Ended => complete) /\ (complete => Ended)
    BY DEF ExecutionFound
  <2>1. /\ found /\ frames = <<>>
        /\ walk # <<>> /\ walk \in Seq(Node) /\ IsWalk(p, walk)
        /\ at \in After(p, walk[Len(walk)])
        /\ \E v : Result(p, walk, v, branches, complete)
    BY InTheEndRead
  <2>2. PICK v : Result(p, walk, v, branches, complete)
    BY <2>1
  <2>3. /\ v \in Seq(Node) /\ IsWalk(p, v) /\ Alike(p, v, walk)
        /\ (complete <=> Ends(p, v))
    BY <2>2 DEF Result
  <2>4. ASSUME Ended PROVE complete
    <3>1. Ends(p, walk)
      BY <2>1, <2>4 DEF Ends, Ended
    <3>2. v = walk
      BY <2>1, <2>3, <3>1, Zenon DEF Unmistakable, ToldApart
    <3>3. QED
      BY <2>3, <3>1, <3>2
  <2>5. ASSUME complete PROVE Ended
    <3>1. Ends(p, v) /\ Alike(p, walk, v)
      BY <2>3, <2>5 DEF Alike
    <3>2. walk = v
      BY <2>1, <2>3, <3>1, Zenon DEF Unmistakable, ToldApart
    <3>3. walk[Len(walk)] \in Node
      BY <2>1
    <3>4. p.end \in After(p, walk[Len(walk)])
      BY <3>1, <3>2 DEF Ends
    <3>5. at = p.end
      BY <2>1, <3>3, <3>4 DEF EndAlone
    <3>6. QED
      BY <2>1, <3>5 DEF Ended
  <2>6. QED
    BY <2>1, <2>4, <2>5
<1>2. QED
  BY <1>1, ReadAlways, Completeness, Invariance, PTL

=============================================================================
