-------------------------- MODULE MCSymbolicExecution --------------------------
(***************************************************************************)
(* Small functions f(a, b), written as trees.                              *)
(***************************************************************************)
EXTENDS SymbolicExecution

(* A tree; 0 stands for an absent part. *)
Tree(kind, kids) ==
  [kind |-> kind, kids |-> kids, within |-> {}, to |-> 0, callee |-> "none", name |-> "",
   var |-> "", from |-> "", add |-> 0, in |-> {}, bare |-> FALSE, ok |-> TRUE]
None == [size |-> 0]

Set(x, y, n)  == [Tree("expr", <<>>) EXCEPT !.var = x, !.from = y, !.add = n]
Decl(x, y, n) == [Set(x, y, n) EXCEPT !.kind = "decl"]
Cond(x, S)    == [Tree("expr", <<>>) EXCEPT !.from = x, !.in = S]
Below(x, n)   == Cond(x, {v \in -9 .. 9 : v < n})
Bare(x)       == [Cond(x, (-9 .. 9) \ {0}) EXCEPT !.bare = TRUE]
Refused(t)    == [t EXCEPT !.ok = FALSE]
Call(kind, callee) == [Tree(kind, <<>>) EXCEPT !.callee = callee, !.var = "a", !.from = "a"]
Block(s)      == Tree("block", s)
If(c, s, t)   == Tree("if", <<c, s, t>>)
While(c, s)   == Tree("while", <<c, s>>)
Do(s, c)      == Tree("do", <<c, s>>)
For(i, c, n, s) == Tree("for", <<i, c, n, s>>)
Switch(x, s)  == Tree("switch", <<Cond(x, {})>> \o s)
Case(n)       == [Tree("case", <<>>) EXCEPT !.in = {n}]
Default       == Tree("default", <<>>)
Label(l, s)   == [Tree("label", <<s>>) EXCEPT !.name = l]
Goto(l)       == [Tree("goto", <<>>) EXCEPT !.name = l]
Break         == Tree("break", <<>>)
Continue      == Tree("continue", <<>>)
Return        == Tree("return", <<>>)
Throw         == Tree("throw", <<>>)
Null          == Tree("null", <<>>)

RECURSIVE Size(_), SizeOf(_), Flat(_, _, _), FlatOf(_, _, _)
SizeOf(ts) == IF ts = <<>> THEN 0 ELSE Size(Head(ts)) + SizeOf(Tail(ts))
Size(t)    == IF t = None THEN 0 ELSE 1 + SizeOf(t.kids)

(* The statements of a tree, numbered from n on: parts after their whole *)
FlatOf(ts, n, within) ==
  IF ts = <<>> THEN <<>>
  ELSE Flat(Head(ts), n, within) \o FlatOf(Tail(ts), n + Size(Head(ts)), within)
Flat(t, n, within) ==
  IF t = None THEN <<>>
  ELSE <<[t EXCEPT !.within = within,
                   !.kids = [i \in DOMAIN t.kids |->
             IF t.kids[i] = None THEN 0 ELSE n + 1 + SizeOf(SubSeq(t.kids, 1, i - 1))]]>>
       \o FlatOf(t.kids, n + 1, within \cup Binds(t.kind))

Function(s) ==
  LET ast == Flat(Block(s), 1, {})
  IN  [params |-> <<"a", "b">>, body |-> 1,
       ast |-> [i \in DOMAIN ast |->
                 [ast[i] EXCEPT !.to = IF ast[i].kind = "goto"
                    THEN CHOOSE j \in DOMAIN ast : ast[j].kind = "label" /\ ast[j].name = ast[i].name
                    ELSE 0]]]

(* What may stand in a loop or a switch, before or after another statement *)
Inner == {Set("a", "a", 1), Break, Continue, Return, Null, Block(<<>>),
          Block(<<Decl("y", "b", 1), Break>>), If(Below("b", 1), Break, Continue)}

Loops(s, t) ==
  {While(Below("a", 2), Block(<<Decl("x", "a", 1), If(Below("b", 1), s, t), Set("a", "x", 0)>>)),
   Do(Block(<<If(Below("b", 1), Block(<<Decl("x", "b", 1), s>>), t), Set("a", "a", 1)>>),
      Below("a", 2)),
   For(Decl("i", "", 0), Below("i", 1), Set("i", "i", 1),
       Block(<<Decl("x", "i", 1), If(Below("b", 1), s, t), Set("a", "x", 1)>>)),
   Switch("a", <<Case(0), s, Case(1), Case(2), t, Default, Set("b", "", 2)>>)}

InLoop == {Function(<<l, Decl("y", "a", 1), If(Below("y", 3), Return, None)>>) :
             l \in UNION {Loops(s, t) : s \in Inner, t \in Inner \ {Continue}}}

(* continue in a switch is one of the loop around it. *)
InLoopOnly == {f \in InLoop : \A s \in DOMAIN f.ast :
                 f.ast[s].kind = "continue" => \E l \in DOMAIN f.ast : f.ast[l].kind \in {"while", "do", "for"}}

Switches ==
  {Function(<<Switch("a", s), Set("b", "b", 1), If(Below("b", 2), Return, None)>>) : s \in
     {<<>>, <<Set("b", "", 0)>>, <<Case(1)>>, <<Default>>,
      <<Case(0), Case(1), Set("b", "", 1), Break, Case(2), Set("b", "", 2)>>,
      <<Case(0), Break, Default, Case(1), Set("b", "", 1), Case(2), Return>>,
      <<Case(2), Set("b", "", 1), Case(1), Default>>,
      <<Case(1), Set("b", "", 1), Case(2)>>,
      <<Case(1), Block(<<Decl("x", "a", 0), Break>>), Case(0), Default, Return>>}}
  \cup {Function(<<While(Below("b", 2),
          Switch("a", <<Case(0), Set("b", "b", 1), Continue, Default, Set("b", "", 2)>>))>>)}

Fors ==
  {Function(<<For(i, c, n, s), Return>>) :
     i \in {Null, Set("b", "", 0)}, c \in {None, Below("a", 2)},
     n \in {None, Set("a", "a", 1)},
     s \in {Null, Block(<<>>), Set("b", "b", 1), Block(<<Null>>), Break,
            Block(<<If(Below("b", 1), Continue, Break)>>),
            For(Null, None, None, Block(<<Break>>)), While(Below("b", 0), Null)}}

Jumps ==
  {Function(<<Label("l", Decl("x", "a", 0)), If(Below("b", 1), Goto("l"), Set("a", "", 1)), Return>>),
   Function(<<While(Below("a", 2), Block(<<Decl("x", "a", 1), If(Below("b", 1), Goto("out"), Null),
              Set("a", "x", 0)>>)), Label("out", Decl("x", "a", 0)), If(Below("x", 1), Return, None)>>),
   Function(<<Goto("e"), Set("a", "", 0), Label("e", Null)>>),
   Function(<<If(Below("a", 1), Throw, None), Set("b", "", 0)>>),
   Function(<<Tree("exit", <<>>), Set("b", "", 0)>>)}

(* A goto that leads back, into a block, a loop or a switch, and one that  *)
(* stays in its block.                                                     *)
Jumping ==
  {Function(<<Decl("x", "a", 0), If(Below("b", 1), Goto("in"), None), s,
              If(Below("x", 2), If(Below("x", 1), Return, None), None)>>) :
     s \in {Block(<<Set("b", "a", 1), Label("in", Set("a", "", 1))>>),
            While(Below("b", 2), Block(<<Label("in", Set("a", "", 1)), Set("b", "b", 1)>>)),
            For(Null, Below("b", 2), Set("b", "b", 1), Block(<<Label("in", Set("a", "", 1)), Break>>)),
            Switch("b", <<Case(0), Set("a", "a", 1), Label("in", Set("a", "", 1)), Default, Return>>)}}
  \cup {Function(<<Label("l", Set("a", "a", 1)), If(Below("a", 3), Goto("l"), None), Return>>),
        Function(<<While(Below("b", 2),
          Block(<<Label("l", Set("b", "b", 1)), If(Below("b", 2), Block(<<Goto("l")>>), None)>>))>>)}

Conditions ==
  {Function(<<s, If(c, Set("a", "", 3), None), If(d, t, u)>>) :
     s \in {Null, Set("a", "", 1), Set("a", "b", 1), Refused(Set("b", "a", 0)),
            Block(<<Decl("a", "", 0)>>), If(Below("b", 1), Block(<<Decl("b", "", 2)>>), None)},
     c \in {Below("a", 1), Bare("b"), Refused(Below("b", 1))},
     d \in {Below("a", 2), Below("b", 1), Bare("a"), Cond("", {}), Cond("", {0})},
     t \in {Return, Null}, u \in {None, Block(<<>>)}}

Others ==
  {Function(<<>>), Function(<<Block(<<>>), Null>>)}
  \cup {Function(<<If(Below("a", 1), Call(k, c), Null), Set("b", "", 0)>>) :
          k \in {"expr", "return"}, c \in {"self", "prefix"}}
  \cup {Function(<<Tree("try", <<Block(<<If(Below("a", 1), Throw, None), Set("b", "", 0)>>)>> \o h),
                   Return>>) :
          h \in {<<>>, <<Tree("catch", <<Block(<<Set("a", "", 0)>>)>>)>>,
                 <<Tree("catch", <<Block(<<Throw>>)>>), Tree("catchall", <<Block(<<Set("b", "", 1)>>)>>)>>,
                 <<Tree("catchall", <<Block(<<>>)>>), Tree("catch", <<Block(<<>>)>>)>>}}

(* A label inside another statement of its switch, and as a body *)
Nested ==
  {Function(<<Switch("a", <<Case(0), s, Default, Return>>), Set("b", "", 0)>>) :
     s \in {Block(<<Case(1), Set("b", "", 1)>>), If(Below("b", 1), Block(<<Default>>), Case(1)),
            While(Below("b", 1), Block(<<Case(1), Break>>)), For(Null, None, None, Case(1)),
            Switch("b", <<Case(0), Block(<<Case(1), Break>>)>>)}}

MCFunctions == InLoopOnly \cup Switches \cup Fors \cup Jumps \cup Jumping \cup Conditions \cup Others \cup Nested
MCValue == -9 .. 9
MCInput == 0 .. 2
================================================================================
