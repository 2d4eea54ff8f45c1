----------------------------- MODULE MCEngines -----------------------------
(* Templates for both engines, put together from small statements: every
   statement in every kind of block, and blocks in blocks.                   *)
EXTENDS Engines

(* The syntax tree, as Language and Interpreter describe it. *)
Name(x)         == [k |-> "id", name |-> x]
IntLit(n)       == [k |-> "int", n |-> n]
StrLit(x)       == [k |-> "str", text |-> <<x>>]
BoolLit(b)      == [k |-> "bool", b |-> b]
Infix(l, op, r) == [k |-> "infix", op |-> op, l |-> l, r |-> r]
Prefix(op, x)   == [k |-> "prefix", op |-> op, x |-> x]
AssignTo(x, e)  == [k |-> "assign", name |-> x, x |-> e]
ArrLit(xs)      == [k |-> "arr", els |-> xs]
HashLit(key, x) == [k |-> "hash", pairs |-> <<[key |-> key, x |-> x]>>]
At1(l, i)       == [k |-> "index", left |-> l, index |-> i]
SetAt1(l, i, x) == [k |-> "setindex", left |-> l, index |-> i, x |-> x]
Prop(x, f)      == [k |-> "prop", obj |-> Name(x), name |-> f]
NoElse          == [some |-> FALSE, body |-> <<>>]
Else(b)         == [some |-> TRUE, body |-> b]
Arm(c, b)       == [c |-> c, body |-> b]
If(c, b)        == [k |-> "if", arms |-> <<Arm(c, b)>>, orElse |-> NoElse]
IfElse(c, b, e) == [k |-> "if", arms |-> <<Arm(c, b)>>, orElse |-> Else(e)]
ForEach(x, iter, b) == [k |-> "for", key |-> "k", val |-> x, iter |-> iter, body |-> b]
ForIn(iter, b)  == ForEach("v", iter, b)
Func(ps, b)     == [k |-> "fn", params |-> ps, body |-> b]
Invoke(f, args) == [k |-> "call", f |-> Name(f), args |-> args, hasBlock |-> FALSE, block |-> <<>>]
Around(f, b)    == [k |-> "call", f |-> Name(f), args |-> <<>>, hasBlock |-> TRUE, block |-> b]

Expr(x)   == [s |-> "expr", x |-> x]
Emitted(x) == [s |-> "emit", x |-> x]
Return(x) == [s |-> "return", x |-> x]
Let(n, x) == [s |-> "let", name |-> n, x |-> x]
PunchHole == [s |-> "hole", input |-> "h"]
Plain(x)  == Expr([k |-> "html", text |-> <<x>>])
Break     == Expr([k |-> "break"])
Continue  == Expr([k |-> "continue"])

Increment == Expr(AssignTo("x", Infix(Name("x"), "+", IntLit(1))))
Two       == ArrLit(<<IntLit(1), IntLit(2)>>)
Is(x, n)  == Infix(Name(x), "==", IntLit(n))

-----------------------------------------------------------------------------
(* Every template starts with a variable and two functions, one of which reads
   and one of which assigns it, and ends by printing it.                     *)
Declares1 ==
  <<Let("x", IntLit(1)),
    Let("f", Func(<<"q">>, <<Return(Infix(Name("q"), "+", Name("x")))>>)),
    Let("g", Func(<<>>, <<Increment, Plain("t")>>))>>
Prints1 == <<Emitted(Name("x"))>>
Around1(body) == Declares1 \o body \o Prints1

Reads == {Emitted(Name("x")), Emitted(Name("v")), Emitted(Prop("o", "name")), Plain("t"),
          Emitted(StrLit("<")), Emitted(Infix(StrLit("a"), "+", Name("x"))),
          Emitted(Invoke("echo", <<Name("x")>>)),
          Expr(HashLit("a", Name("x"))), Emitted(If(Name("missing"), <<Plain("t")>>)),
          Emitted(If(Invoke("missing", <<Name("x")>>), <<Plain("t")>>)),
          Emitted(If(Infix(Is("x", 1), "&&", Prefix("!", Is("x", 2))), <<Plain("t")>>)),
          Emitted(If(Infix(Is("x", 2), "||", Infix(Name("x"), ">=", IntLit(1))), <<Plain("t")>>)),
          Let("y", Infix(Name("x"), "-", IntLit(1)))}
Writes == {Increment, Expr(AssignTo("v", IntLit(8))), Emitted(Invoke("g", <<>>))}
Jumps  == {Emitted(If(Is("v", 2), <<Break>>)), Emitted(If(Is("v", 1), <<Plain("t"), Continue>>))}
ByName == {Emitted(Invoke("peek", <<>>)), Emitted(Infix(IntLit(1), "+", At1(Two, IntLit(1)))),
           Emitted(Around("wrap", <<Emitted(Name("x")), Plain("t")>>))}
Failing == {Emitted(Name("missing")), Expr(Invoke("boom", <<>>)), Emitted(Invoke("f", <<>>)),
            Emitted(Invoke("echo", <<IntLit(1), IntLit(2)>>)), Emitted(Invoke("x", <<>>)),
            Expr(AssignTo("missing", IntLit(1))), Emitted(Prop("x", "name")),
            Emitted(Prefix("-", StrLit("a"))), Emitted(At1(Two, IntLit(7)))}

Loop(b)   == {Emitted(ForIn(Two, b)), Emitted(ForIn(HashLit("a", IntLit(2)), b))}
Branch(b) == {Emitted(IfElse(Infix(Name("x"), ">", IntLit(1)), b, <<Plain("e")>>)),
              Expr(IfElse(Is("x", 1), b, <<>>))}
Captured(b) == {Emitted(Around("wrap", b)), Emitted(Around("twice", b))}
Defined(b)  == {Let("h", Func(<<"v">>, b))}

Pairs(A, B) == {<<a>> : a \in A \cup B} \cup {<<a, b>> : a \in A, b \in B}

Counting ==
  LET inner == Pairs(Writes, Reads \cup Jumps)
  IN UNION {Loop(b) : b \in inner}
     \cup UNION {Branch(b) : b \in Pairs(Writes, Reads)}
     \cup UNION {Loop(<<Emitted(ForEach("w", Two, <<w, j, Plain("t")>>)), Emitted(Name("v"))>>)
               : w \in Writes, j \in Jumps}

Capturing ==
  LET inner == Pairs(ByName, Reads) \cup {<<r, Emitted(Invoke("f", <<IntLit(5)>>))>> : r \in Reads}
  IN UNION {Loop(b) \cup Branch(b) \cup Captured(b) : b \in inner}
     \cup UNION {Captured(<<b, PunchHole>>) : b \in UNION {Loop(<<PunchHole, r>>) : r \in Reads}}

(* Blocks in blocks, without assignments; what a block does last may be to end
   the iteration around it.                                                  *)
Inner(r) == {Emitted(ForEach("w", Two, <<r, Emitted(Name("w"))>>)), Emitted(If(Is("x", 1), <<r>>)),
             Emitted(Around("wrap", <<r>>))}
Nested ==
  LET last  == {Plain("t"), Emitted(Name("v")), Emitted(Invoke("peek", <<>>))}
      inner == UNION {Inner(r) : r \in last}
      holes == Inner(PunchHole)
  IN UNION {Loop(<<i, l>>) : i \in inner \cup holes, l \in last \cup Jumps}
     \cup UNION {Loop(<<PunchHole, l>>) : l \in inner \cup Jumps}
     \cup UNION {Branch(<<i, l>>) : i \in inner, l \in last}
     \cup UNION {Captured(<<l, i>>) : i \in inner \cup holes, l \in last}

Failures == UNION {Loop(<<f>>) \cup Branch(<<f>>) \cup Captured(<<f>>) : f \in Failing}

(* Functions that call themselves or make functions, blocks that assign what a
   function around them declares, data, an else if.                          *)
Elaborate ==
  {<<Let("h", Func(<<"n">>, <<Emitted(Name("n")), Emitted(If(Infix(Name("n"), ">", IntLit(0)),
       <<Emitted(Invoke("h", <<Infix(Name("n"), "-", IntLit(1))>>))>>))>>)),
     Emitted(Invoke("h", <<IntLit(2)>>))>>,
   <<Let("h", Func(<<"n">>, <<Emitted(ForIn(Two, <<Expr(AssignTo("n", Infix(Name("n"), "+", Name("v"))))>>)),
                              Emitted(Name("n"))>>)),
     Emitted(Invoke("h", <<IntLit(2)>>))>>,
   <<Let("h", Func(<<"n">>, <<Let("y", IntLit(3)), Emitted(Around("wrap",
       <<Expr(AssignTo("y", Infix(Name("y"), "+", Name("n")))), Emitted(ForIn(Two, <<Emitted(Name("y"))>>))>>)),
                              Emitted(Name("y"))>>)),
     Emitted(Invoke("h", <<IntLit(2)>>))>>,
   <<Let("y", Two), Expr(SetAt1(Name("y"), IntLit(0), IntLit(7))), Emitted(Name("y")),
     Emitted(At1(Name("y"), IntLit(0)))>>,
   <<Let("y", HashLit("a", IntLit(4))), Expr(SetAt1(Name("y"), StrLit("a"), Name("x"))),
     Emitted(At1(Name("y"), StrLit("a"))), Emitted(ForIn(Name("y"), <<Emitted(Name("k"))>>))>>,
   <<Let("y", Infix(Two, "+", IntLit(3))), Emitted(Name("y"))>>,
   <<Let("y", Name("o")), Emitted(Prop("y", "name")), Emitted(ForIn(Two, <<Emitted(Prop("y", "name"))>>))>>,
   <<Emitted([k |-> "if", arms |-> <<Arm(Is("x", 2), <<Plain("a")>>), Arm(Is("x", 1), <<Plain("b"), PunchHole>>)>>,
              orElse |-> Else(<<Plain("e")>>)]), PunchHole>>,
   <<PunchHole, Emitted(Around("twice", <<PunchHole, Emitted(ForIn(Two, <<PunchHole>>))>>)), PunchHole>>}

(* A helper's block has a hole and so has the loop around it: the markers are
   out of order.                                                             *)
HoleAfterBlock ==
  {Around1(<<b>>) : b \in Loop(<<Emitted(Around("wrap", <<PunchHole>>)), PunchHole>>)
                       \cup Loop(<<PunchHole, Emitted(ForEach("w", Two, <<PunchHole>>))>>)}

(* Templates with a fast plan: no functions and no holes.  What the helpers' blocks
   assign they do not declare, and no loop reads a variable nobody has.      *)
Declares2 == <<Let("x", IntLit(1)), Let("y", IntLit(1))>>
Prints2   == <<Emitted(Name("x")), Emitted(Name("y"))>>
Around2(body) == Declares2 \o body \o Prints2

Plans(b)   == Loop(b) \cup Branch(b) \cup {Expr(ForIn(Two, b))}
Declares   == {Let("x", IntLit(5)), Let("y", Name("x")), Let("z", Name("x"))}
Captures   == {Emitted(Around("wrap", <<w, r>>)) : w \in {Increment, Plain("t")}, r \in {Emitted(Name("x")), Emitted(ForIn(Two, <<Emitted(Name("v"))>>))}}
Ends(v)    == {Break, Continue, Return(Name(v))}
InBlock(b) == {Emitted(ForEach("w", Two, b)), Emitted(If(Is("x", 1), b)), Expr(If(Is("y", 1), b))}

PlannedBlocks ==
  UNION {Plans(b) : b \in Pairs({Increment} \cup Declares, Reads \ {Emitted(Name("v"))})}
  \cup UNION {Loop(b) : b \in Pairs(Writes \cup Declares, Jumps \cup Captures) \cup Pairs(Writes, Reads)}
  \cup UNION {Branch(b) : b \in Pairs({Plain("t")}, Captures)}
  \cup UNION {Captured(b) : b \in Pairs({Increment, Emitted(Invoke("peek", <<>>))}, {Emitted(Name("x")), Let("z", Name("x"))})}
PlannedNested ==
  UNION {{Emitted(ForIn(Two, <<i, r>>)), Emitted(ForIn(Two, <<r, i>>))} :
           i \in UNION {InBlock(<<w, e>>) : w \in {Increment, Let("x", Name("v")), Emitted(Name("v"))}, e \in Ends("v") \cup {Plain("t")}},
           r \in {Increment, Emitted(Name("x")), Emitted(Invoke("peek", <<>>)), Let("y", Name("x"))}}
PlannedFailures == UNION {Loop(<<f>>) \cup Branch(<<f>>) \cup Captured(<<f>>) : f \in Failing \ {Emitted(Name("missing"))}}

PlannedData ==
  {<<Let("z", d)>> \o b \o <<Emitted(At1(Name("z"), i)), Emitted(Name("z"))>> :
     d \in {Two, HashLit("a", IntLit(4)), Infix(Two, "+", IntLit(3)), Name("o"), StrLit("a")}, i \in {IntLit(0), StrLit("a")},
     b \in UNION {Pairs({e}, {Emitted(ForIn(Name("z"), <<e>>)), Emitted(ForIn(Two, <<e, Emitted(Prop("z", "name"))>>))}) :
                   e \in {Expr(SetAt1(Name("z"), i, Infix(Name("x"), "+", IntLit(1)))) : i \in {IntLit(0), StrLit("a")}}
                         \cup {Emitted(Invoke("echo", <<At1(Name("z"), IntLit(0))>>))}}}

(* A helper changes a variable of the context between two reads of it. *)
Touches ==
  LET reads == {Emitted(Name("n")), Let("z", Name("n")), Emitted(If(Is("n", 2), <<Plain("t")>>)),
                Expr(AssignTo("n", Infix(Name("n"), "+", IntLit(1)))), Emitted(Invoke("echo", <<Name("n")>>))}
      touch == {Expr(Invoke("touch", <<>>)), Emitted(Infix(Invoke("touch", <<>>), "==", BoolLit(TRUE)))}
  IN {<<r, t, q>> : r \in reads, t \in touch, q \in reads}

Planned ==
  {Around2(b) : b \in Touches} \cup UNION {{Around2(<<c>>) : c \in Branch(b)} : b \in Touches} \cup
  {Around2(<<b>>) : b \in PlannedBlocks \cup PlannedNested \cup PlannedFailures}
  \cup {Around2(b) : b \in PlannedData}

(* Numbers at the ends of their ranges: literals, and variables of Go's types that a
   signed word can and cannot hold.  Both are compared and computed with, in a
   fast plan and by the machine, and results computed with again.            *)
Edges   == {IntLit(0), IntLit(31), Prefix("-", IntLit(1)), Name("low"), Name("fits"), Name("above"), Name("top")}
Widest  == {Name("fits"), Name("above"), Name("top")}
Compared(l, r) == <<Emitted(Infix(l, "<", r)), Emitted(Infix(l, "<=", r)), Emitted(Infix(l, "==", r)),
                    Emitted(Infix(l, ">", r)), Emitted(Infix(l, ">=", r)), Emitted(Infix(l, "!=", r))>>
Calculated ==
  LET alone == {<<Emitted(Infix(l, op, r))>> : l \in Edges, op \in Operations, r \in Edges}
      again == {<<Let("y", Infix(l, op, r)), Emitted(Infix(Name("y"), then, c))>> :
                  l \in Widest, op \in {"+", "-"}, r \in Widest \cup {IntLit(1)},
                  then \in {"+", "-", ">"}, c \in {IntLit(31), Name("above"), Name("low")}}
      all   == {Compared(l, r) : l \in Edges, r \in Edges} \cup alone \cup again
  IN all \cup {Declares1 \o body : body \in all}

(* Partials: some run where they stand, some in a context of their own; they read,
   assign and pass on the variables of their caller, or those in their data.  *)
Partial(p)       == Invoke("partial", <<StrLit(p)>>)
PartialOf(p, y)  == Invoke("partial", <<StrLit(p), HashLit("y", y)>>)
LaidOut(p)       == Invoke("partial", <<StrLit(p), HashLit("layout", StrLit("frame"))>>)
Files ==
  [show   |-> <<Emitted(Name("x")), Emitted(Name("y"))>>,
   bump   |-> <<Increment, Emitted(Name("x"))>>,
   each   |-> <<Emitted(ForIn(Two, <<Emitted(Name("v")), Emitted(Name("y"))>>)), Plain("t")>>,
   choose |-> <<Emitted(IfElse(Is("y", 1), <<Increment>>, <<Emitted(Name("y"))>>))>>,
   call   |-> <<Emitted(Invoke("echo", <<Name("y")>>)), Increment>>,
   nest   |-> <<Emitted(Partial("bump")), Emitted(PartialOf("show", Name("x")))>>,
   frame  |-> <<Plain("["), Emitted(Name("yield")), Plain("]")>>,
   broken |-> <<Plain("t"), Emitted(Name("missing"))>>,
   lets   |-> <<Let("x", IntLit(5)), Let("z", IntLit(6)), Emitted(Name("z"))>>,
   assigns |-> <<Expr(AssignTo("y", Infix(Name("y"), "+", IntLit(1)))), Emitted(Name("y"))>>]

Includes ==
  LET own == {"show", "bump", "each", "choose", "call", "nest", "broken"} IN
  {Emitted(Partial(p)) : p \in own \cup {"nowhere"}} \cup {Emitted(LaidOut("show"))}
  \cup {Emitted(PartialOf(p, y)) : p \in own, y \in {Name("x"), IntLit(7)}}
Blocks(b) == Loop(b) \cup Branch(b) \cup Captured(b)
Partialled ==
  LET before == {<<p, Emitted(Name("x"))>> : p \in Includes}
                 \cup {<<Emitted(PartialOf(p, Name("v"))), Emitted(Name("x"))>> : p \in {"show", "call", "each"}}
      after  == {<<Increment, p>> : p \in Includes}
      pairs  == {<<Increment, p, q>> : p \in Includes, q \in {Emitted(Partial("bump")), Emitted(PartialOf("show", Name("x")))}}
      inside == {<<c>> : c \in UNION {Blocks(b) : b \in after}}
  IN {Around2(b) : b \in pairs \cup inside \cup {<<c>> : c \in UNION {Blocks(b) : b \in before}}}
     \cup {<<PunchHole>> \o Around2(b) : b \in pairs \cup inside}

Templates ==
  {Around1(t) : t \in Elaborate \cup Touches} \cup
  {Around1(<<Let("x", IntLit(5)), b>>) : b \in ByName \cup Reads} \cup
  {Around1(<<b>>) : b \in Counting \cup Capturing \cup Nested \cup Failures}
  \cup {Around1(<<b, Emitted(Invoke("h", <<IntLit(5)>>))>>) : b \in UNION {Defined(c) : c \in Pairs(Writes, Reads)}}
  \cup Planned \cup Partialled \cup Calculated

(* A partial declares variables, or assigns one that its data has.           *)
PartialScopes ==
  {Around2(<<p>>) : p \in {Emitted(Partial("lets")), Emitted(PartialOf("lets", IntLit(7))), Emitted(PartialOf("assigns", IntLit(7)))}}

(* Partial data is scoped to the partial's render (README.md): the caller, which
   sets x and y to 1 and leaves them alone, has them at 1 when it is done.   *)
PartialsKeepTheirScope == result.err = "" => \A name \in {"x", "y"} : s.scopes[1].vars[name] = Num(1)

Helpers == [echo |-> Native("echo"), wrap |-> Native("wrap"), twice |-> Native("twice"),
            peek |-> Native("peek"), skip |-> Native("skip"), boom |-> Native("boom"),
            touch |-> Native("touch"), partial |-> Native("partial"), n |-> Num(1),
            low |-> Num(-MaxInt - 1), fits |-> Uint(MaxInt), above |-> Uint(MaxInt + 1), top |-> Uint(MaxUint),
            o |-> Obj([name |-> Str(<<"n">>)])]
=============================================================================
