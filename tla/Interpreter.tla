---------------------------- MODULE Interpreter ----------------------------
(* The tree-walking engine (src/compiler.go): a template is a sequence of
   statements, Eval walks an expression in an engine state and gives a value
   or an error with the state it leaves.  The control is the code's, operation
   by operation; errors keep their kind and lose their wording, and Go's
   values keep what the templates of a run can tell apart.

   Statements  [k |-> "html" ..] as an expression, and
     [s |-> "expr", x], [s |-> "emit", x] (<%= x %>), [s |-> "return", x],
     [s |-> "let", name, x], [s |-> "hole", input].
   Expressions [k |-> ..]: the cases of Eval.                               *)
EXTENDS Language

RECURSIVE Eval(_, _), EvalInOrder(_, _, _), EvalBlock(_, _, _),
          ElseAndElseIf(_, _, _), ForItems(_, _, _, _, _), Write(_, _), Compile(_, _)

-----------------------------------------------------------------------------
(* write: the text of a value.  A value the code has no case for (nil, a break
   or continue that left its block) writes nothing.                          *)
WriteAll(items, s) ==
  FoldLeft(LAMBDA r, i : LET w == Write(i, r.s) IN [w EXCEPT !.v = r.v \o @],
           Ok(<<>>, s), items)

Write(i, s) ==
  CASE i.t = "hole"            -> Ok(<<MarkerName(Len(s.holes))>>,
                                     [s EXCEPT !.holes = Append(@, Marker(i.input, 0))])
    [] i.t \in {"str", "bool"} -> Ok(HTMLEscaper(Sprint(s, i)), s)
    [] i.t \in {"html", "int", "uint", "fn"} -> Ok(Sprint(s, i), s)
    [] i.t = "arr"             -> WriteAll(Elements(s, i), s)
    [] i.t = "return"          -> WriteAll(i.items, s)
    [] OTHER                   -> Ok(<<>>, s)

-----------------------------------------------------------------------------
(* Operators. *)
EvalNumericOperator(op, l, r, s) ==
  CASE op = "=="         -> Ok(Bool(CompareNumericEquality(l, r)), s)
    [] op = "!="         -> Ok(Bool(~CompareNumericEquality(l, r)), s)
    [] op \in Orders     -> Ok(Bool(CompareNumericOrdered(op, l, r)), s)
    [] op \in Operations -> OkNumber(NumericArithmetic(op, l, r), s)
    [] OTHER             -> Fail("fail", s)

BoolsOperator(op, l, r, s) ==
  CASE op = "+"  -> Ok(Bool(IsTruthy(l) /\ IsTruthy(r)), s)
    [] op = "==" -> Ok(Bool(IsTruthy(l) <=> IsTruthy(r)), s)
    [] op = "!=" -> Ok(Bool(~(IsTruthy(l) <=> IsTruthy(r))), s)
    [] OTHER     -> Fail("fail", s)

StringsOperator(op, l, r, s) ==
  CASE op = "+"  -> Ok(Str(l.text \o Sprint(s, r)), s)
    [] op = "==" -> Ok(Bool(l.text = Sprint(s, r)), s)
    [] op = "!=" -> Ok(Bool(l.text # Sprint(s, r)), s)
    [] OTHER     -> Fail("fail", s)

(* reflect.Append: within the capacity it writes the cell that every slice of
   this memory shares, else it moves to memory of twice the size.            *)
Capacity(n) == IF n = 0 THEN 0 ELSE CHOOSE c \in {1, 2, 4, 8, 16} : n <= c /\ c < 2 * n
Grown(items) == [i \in 1..Capacity(Len(items)) |-> IF i <= Len(items) THEN items[i] ELSE Nil]
NewSlice(items, s) == Ok(Arr(Len(s.cells) + 1, Len(items)), Alloc(s, Grown(items)))
ArrayOperator(op, l, r, s) ==
  CASE op # "+" -> Fail("fail", s)
    [] l.len < Len(s.cells[l.at]) ->
         Ok(Arr(l.at, l.len + 1), [s EXCEPT !.cells[l.at][l.len + 1] = r])
    [] OTHER -> NewSlice(Append(Elements(s, l), r), s)

NilsOperator(op, l, r, s) ==
  CASE op = "==" -> Ok(Bool(l.t = r.t), s)
    [] op = "!=" -> Ok(Bool(l.t # r.t), s)
    [] OTHER     -> Fail("fail", s)

Logical == {"&&", "||"}
ForgivesErrors(op) == op \in Logical \cup {"==", "!="}

EvalInfix(x, s) ==
  LET forgiven == IF ForgivesErrors(x.op) THEN {"unknown", "fail"} ELSE {}
  IN Then(Forgive(Eval(x.l, s), forgiven), LAMBDA l :
     IF x.op = "&&" /\ ~IsTruthy(l.v) THEN Ok(Bool(FALSE), l.s)
     ELSE IF x.op = "||" /\ IsTruthy(l.v) THEN Ok(Bool(TRUE), l.s)
     ELSE Then(Forgive(Eval(x.r, l.s), forgiven), LAMBDA r :
     CASE x.op \in Logical                   -> Ok(Bool(IsTruthy(r.v)), r.s)
       [] "nil" \in {l.v.t, r.v.t}           -> NilsOperator(x.op, l.v, r.v, r.s)
       [] IsNumber(l.v) /\ IsNumber(r.v)     -> EvalNumericOperator(x.op, l.v, r.v, r.s)
       [] l.v.t = "str"                      -> StringsOperator(x.op, l.v, r.v, r.s)
       [] l.v.t = "bool"                     -> BoolsOperator(x.op, l.v, r.v, r.s)
       [] l.v.t = "arr"                      -> ArrayOperator(x.op, l.v, r.v, r.s)
       [] OTHER                              -> Fail("fail", r.s)))

EvalPrefix(x, s) ==
  Then(Forgive(Eval(x.x, s), {"unknown"}), LAMBDA r :
    CASE x.op = "!"                     -> Ok(Bool(~IsTruthy(r.v)), r.s)
      [] x.op = "-" /\ r.v.t = "int"    -> Ok(Num(AsInt64(-r.v.n)), r.s)
      [] OTHER                          -> Fail("fail", r.s))

-----------------------------------------------------------------------------
(* Names and data. *)
EvalIdentifier(x, s) ==
  IF Has(s, x.name) THEN Ok(Value(s, x.name), s)
  ELSE IF x.name = "nil" THEN Ok(Nil, s) ELSE Fail("unknown", s)

EvalProperty(x, s) ==
  Then(Eval(x.obj, s), LAMBDA r :
    CASE r.v.t = "nil" -> Ok(Nil, r.s)
      [] r.v.t = "obj" /\ x.name \in DOMAIN r.v.fields -> Ok(r.v.fields[x.name], r.s)
      [] OTHER -> Fail("fail", r.s))

EvalAssign(x, s) ==
  Then(Eval(x.x, s), LAMBDA r :
    IF Has(r.s, x.name) THEN Ok(Nil, Update(r.s, x.name, r.v)) ELSE Fail("unknown", r.s))

EvalLet(x, s) == Then(Eval(x.x, s), LAMBDA r : Ok(Nil, Set(r.s, x.name, r.v)))

EvalInOrder(xs, vs, s) ==
  IF xs = <<>> THEN Ok(vs, s)
  ELSE Then(Eval(Head(xs), s), LAMBDA r : EvalInOrder(Tail(xs), Append(vs, r.v), r.s))

EvalArray(x, s) == Then(EvalInOrder(x.els, <<>>, s), LAMBDA r : NewSlice(r.v, r.s))

EvalHash(x, s) ==
  Then(EvalInOrder([i \in DOMAIN x.pairs |-> x.pairs[i].x], <<>>, s), LAMBDA r :
    LET keys == {x.pairs[i].key : i \in DOMAIN x.pairs}
        cell == [k \in keys |-> r.v[CHOOSE i \in DOMAIN x.pairs : x.pairs[i].key = k]]
    IN Ok(Map(Len(r.s.cells) + 1), Alloc(r.s, cell)))

(* A negative index passes the bounds check of the interpreter and panics. *)
InBounds(a, i) == i < a.len
UpdateIndex(left, index, v, s) ==
  CASE left.t = "map" /\ index.t = "str" ->
         Ok(Nil, [s EXCEPT !.cells[left.at] = (index.text[1] :> v) @@ @])
    [] left.t = "arr" /\ index.t = "int" /\ InBounds(left, index.n) ->
         IF index.n < 0 \/ v.t = "nil" THEN Fail("panic", s)
         ELSE Ok(Nil, [s EXCEPT !.cells[left.at][index.n + 1] = v])
    [] OTHER -> Fail("fail", s)

AccessIndex(left, index, s) ==
  CASE left.t = "map" /\ index.t = "str" ->
         LET cell == s.cells[left.at] IN
         Ok(IF index.text[1] \in DOMAIN cell THEN cell[index.text[1]] ELSE Nil, s)
    [] left.t = "arr" /\ index.t = "int" /\ InBounds(left, index.n) ->
         IF index.n < 0 THEN Fail("panic", s) ELSE Ok(s.cells[left.at][index.n + 1], s)
    [] OTHER -> Fail("fail", s)

EvalIndex(x, s) ==
  Then(Eval(x.index, s), LAMBDA i : Then(Eval(x.left, i.s), LAMBDA l :
    IF x.k = "index" THEN AccessIndex(l.v, i.v, l.s)
    ELSE Then(Eval(x.x, l.s), LAMBDA v : UpdateIndex(l.v, i.v, v.v, v.s))))

-----------------------------------------------------------------------------
(* Blocks.  The value of an expression statement is kept only when it is HTML
   or leaves the block.                                                      *)
EvalReturn(x, s) ==
  Then(Eval(x.x, s), LAMBDA r :
    IF x.s = "return" THEN Ok(Exit("return", <<r.v>>), r.s) ELSE r)

Silent(r, Shows(_)) == IF Shows(r.v) THEN r ELSE [r EXCEPT !.v = Nil]
EvalStatement(x, s) ==
  CASE x.s = "expr" -> Silent(Eval(x.x, s), LAMBDA v : v.t = "html" \/ IsExit(v))
    [] x.s = "let"  -> EvalLet(x, s)
    [] x.s = "hole" -> Ok(Hole(x.input), s)
    [] OTHER        -> EvalReturn(x, s)

EvalBlock(stmts, res, s) ==
  IF stmts = <<>> THEN NewSlice(res, s)
  ELSE Then(EvalStatement(Head(stmts), s), LAMBDA r :
    CASE r.v.t = "return" -> Ok(Exit("return", Append(res, r.v)), r.s)
      [] IsExit(r.v)      -> Ok(Exit(r.v.t, res \o r.v.items), r.s)
      [] r.v.t = "nil"    -> EvalBlock(Tail(stmts), res, r.s)
      [] OTHER            -> EvalBlock(Tail(stmts), Append(res, r.v), r.s))

(* The arms of an if share one context, conditions included. *)
ElseAndElseIf(arms, orElse, s) ==
  IF arms = <<>> THEN IF orElse.some THEN EvalBlock(orElse.body, <<>>, s) ELSE Ok(Nil, s)
  ELSE Then(Forgive(Eval(Head(arms).c, s), {"unknown"}), LAMBDA c :
    IF IsTruthy(c.v) THEN EvalBlock(Head(arms).body, <<>>, c.s)
    ELSE ElseAndElseIf(Tail(arms), orElse, c.s))
EvalIf(x, s) == Restore(ElseAndElseIf(x.arms, x.orElse, New(s)), s)

(* A loop: one context for all its iterations, the values of a break or a
   continue kept, those of a return kept too, without leaving the loop.      *)
ForItems(x, items, i, ret, s) ==
  IF i > Len(items) THEN NewSlice(ret, s)
  ELSE LET bound == Set(Set(s, x.key, items[i].key), x.val, items[i].val)
       IN Then(EvalBlock(x.body, <<>>, bound), LAMBDA r :
            LET kept == IF r.v.t \in {"break", "continue"}
                        THEN Append(ret, Exit("return", r.v.items)) ELSE Append(ret, r.v)
            IN IF r.v.t = "break" THEN NewSlice(kept, r.s)
               ELSE ForItems(x, items, i + 1, kept, r.s))

Pair(k, v) == [key |-> k, val |-> v]
Items(v, s) ==
  IF v.t = "arr" THEN [i \in 1..v.len |-> Pair(Num(i - 1), s.cells[v.at][i])]
  ELSE LET cell == s.cells[v.at]
           keys == SetToSeq(DOMAIN cell)
       IN [i \in DOMAIN keys |-> Pair(Str(<<keys[i]>>), cell[keys[i]])]

EvalFor(x, s) ==
  Restore(Then(Eval(x.iter, New(s)), LAMBDA it :
    CASE it.v.t \in {"arr", "map"} -> ForItems(x, Items(it.v, it.s), 1, <<>>, it.s)
      [] it.v.t = "nil"            -> Ok(Nil, it.s)
      [] OTHER                     -> [NewSlice(<<>>, it.s) EXCEPT !.err = "fail"]), s)

-----------------------------------------------------------------------------
(* Calls.  A function of the template runs in a child of its CALLER's context,
   where its arguments are evaluated one after the other, each already seeing
   the parameters before it.                                                 *)
EvalUserFunction(f, args, s) ==
  LET bind[i \in 0..Len(f.params)] ==
        IF i = 0 THEN Ok(Nil, New(s))
        ELSE Then(bind[i - 1], LAMBDA b :
               IF i > Len(args) THEN Fail("panic", b.s)
               ELSE Then(Eval(args[i], b.s), LAMBDA a : Ok(Nil, Set(a.s, f.params[i], a.v))))
  IN Restore(Then(bind[Len(f.params)], LAMBDA b : EvalBlock(f.body, <<>>, b.s)), s)

(* HelperContext.BlockWith: the block in a child of the given context, as text. *)
BlockWith(x, s) ==
  IF ~x.hasBlock THEN Fail("fail", s)
  ELSE Restore(Then(EvalBlock(x.block, <<>>, New(s)), LAMBDA r : Write(r.v, r.s)), s)

PartialHelper(args, s) == CallPartial(args, LAMBDA name, u : Compile(Partials[name], u), s)
CallHelper(f, args, x, s) ==
  IF f = "partial" THEN PartialHelper(args, s)
  ELSE HelperResult(f, args, LAMBDA u : BlockWith(x, u), s)

EvalCall(x, s) ==
  Then(Eval(x.f, s), LAMBDA f :
    CASE f.v.t = "fn" -> EvalUserFunction(f.v, x.args, f.s)
      [] f.v.t # "native" \/ Len(x.args) > HelperArity[f.v.name]
            + (IF TakesHelperContext(f.v.name) THEN 1 ELSE 0) -> Fail("fail", f.s)
      [] OTHER -> Then(EvalInOrder(x.args, <<>>, f.s), LAMBDA a :
                    IF Len(x.args) > HelperArity[f.v.name] THEN Fail("fail", a.s)
                    ELSE CallHelper(f.v.name, a.v, x, a.s)))

-----------------------------------------------------------------------------
Eval(x, s) ==
  CASE x.k = "html"     -> Ok(Html(x.text), s)
    [] x.k = "str"      -> Ok(Str(x.text), s)
    [] x.k = "int"      -> Ok(Num(x.n), s)
    [] x.k = "bool"     -> Ok(Bool(x.b), s)
    [] x.k = "infix"    -> EvalInfix(x, s)
    [] x.k = "hash"     -> EvalHash(x, s)
    [] x.k \in {"index", "setindex"} -> EvalIndex(x, s)
    [] x.k = "call"     -> EvalCall(x, s)
    [] x.k = "id"       -> EvalIdentifier(x, s)
    [] x.k = "prop"     -> EvalProperty(x, s)
    [] x.k = "arr"      -> EvalArray(x, s)
    [] x.k = "for"      -> EvalFor(x, s)
    [] x.k = "if"       -> EvalIf(x, s)
    [] x.k = "prefix"   -> EvalPrefix(x, s)
    [] x.k = "fn"       -> Ok(Fn(x.params, x.body), s)
    [] x.k = "assign"   -> EvalAssign(x, s)
    [] x.k \in {"break", "continue"} -> Ok(Exit(x.k, <<>>), s)

(* compile: the statements in order, the text of their values, the position of
   each top-level hole.  A hole inside a block gets its position at the end,
   from the first place where its marker stands (fixHolePositions).          *)
TopLevel(x, s) ==
  CASE x.s \in {"return", "emit"} -> EvalReturn(x, s)
    [] x.s = "let"  -> EvalLet(x, s)
    [] x.s = "hole" -> Ok(Hole(x.input), s)
    [] OTHER -> Silent(Eval(x.x, s), LAMBDA v : x.x.k = "html")

PlaceMarker(x, out, w) ==
  IF x.s = "hole" THEN [w EXCEPT !.s.holes[Len(w.s.holes)].start = Len(out) + 1] ELSE w

Compile(stmts, s0) ==
  LET run[i \in 0..Len(stmts)] ==
        IF i = 0 THEN Ok(<<>>, s0)
        ELSE Then(run[i - 1], LAMBDA r : Then(TopLevel(stmts[i], r.s), LAMBDA v :
               LET w == PlaceMarker(stmts[i], r.v, Write(v.v, v.s))
               IN Ok(r.v \o w.v, w.s)))
  IN run[Len(stmts)]

FixHolePositions(out, holes) ==
  [i \in DOMAIN holes |->
     IF holes[i].start # 0 THEN holes[i]
     ELSE [holes[i] EXCEPT !.start =
             IF Contains(out, MarkerName(i - 1))
             THEN SelectInSeq(out, LAMBDA a : a = MarkerName(i - 1)) ELSE -1]]
=============================================================================
