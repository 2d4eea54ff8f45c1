------------------------------ MODULE FastPlan ------------------------------
(* The fast render plan of a template (src/vm/compiler/fast_plan_ast.go): its
   statements as segments that the runtime renders without bytecode.  A shape the
   planner has no segment for makes the whole template go without a plan.

   Value plans   [p |-> "lit" | "name" | "path" | "index" | "call" | "prefix" |
     "infix" | "concat" | "array" | "hash" | "loopkey" ..]; soft is NullOnMissing.
   Segments      [g |-> "static" | "value" | "call" | "block" | "cond" | "loop" |
     "let" | "assign" | "setindex" | "return" | "partial" | "control" ..]; in a loop also
     "key" and "item", what the loop itself binds.                           *)
EXTENDS Bytecode

RECURSIVE ValuePlan(_, _, _), Segment(_, _, _), PlanOf(_), Names(_), SegmentNames(_),
          Assigned(_), SetsLocals(_), SetsOuter(_), HasCall(_), RunsAnywhere(_, _)

Unplanned   == [p |-> "none"]
NoSegment == [g |-> "none"]
Rejected  == "(rejected)"
NoLoop    == [key |-> "", val |-> "", outer |-> {}, some |-> FALSE]
Only(v, kinds)   == IF v.p \in kinds THEN v ELSE Unplanned
Except(v, kinds) == IF v.p \in kinds THEN Unplanned ELSE v
Collections      == {"array", "hash"}

-----------------------------------------------------------------------------
(* Values.  In a loop the names of the loop are not looked up. *)
InfixOperators == {"-", "*", "/", "==", "!=", "~=", "<", ">", "<=", ">=", "&&", "||"}

NamePlan(x, soft) == [p |-> "name", name |-> x, soft |-> soft \/ x = "nil"]
PathPlan(x, soft, bound, path) ==
  [p |-> "path", name |-> x, soft |-> soft, bound |-> bound, path |-> path]

IdentifierPlan(x, soft, loop) ==
  CASE loop.some /\ x = loop.key -> [p |-> "loopkey"]
    [] loop.some /\ x = loop.val -> PathPlan(x, FALSE, FALSE, <<>>)
    [] OTHER                     -> NamePlan(x, soft)

PropertyStep(name) == [at |-> "prop", name |-> name]
PropertyPlan(x, soft, loop) ==
  CASE loop.some /\ x.obj.name = loop.key -> Unplanned
    [] loop.some /\ x.obj.name = loop.val ->
         PathPlan(x.obj.name, FALSE, FALSE, <<PropertyStep(x.name)>>)
    [] OTHER -> PathPlan(x.obj.name, soft, TRUE, <<PropertyStep(x.name)>>)

IsIndexStep(x) == x.k \in {"int", "str"}
IndexStep(x) == IF x.k = "int" THEN [at |-> "int", n |-> x.n] ELSE [at |-> "str", text |-> x.text]
CanUsePath(v) == v.p \in {"name", "path", "index", "call"}
WithStep(v, step) ==
  IF v.p = "name" THEN PathPlan(v.name, v.soft, TRUE, <<step>>)
  ELSE [v EXCEPT !.path = Append(@, step)]

(* An index of the source text extends the path of what it is applied to; in a
   loop only a path that starts at the loop's value.                         *)
StartsAtItem(x, loop) ==
  CASE x.k = "id"    -> x.name = loop.val
    [] x.k = "prop"  -> x.obj.name = loop.val
    [] x.k = "index" -> TRUE
    [] OTHER         -> FALSE

DynamicIndexPlan(x, soft, loop) ==
  LET left == ValuePlan(x.left, soft, loop) IN
  [p |-> "index", soft |-> soft /\ ~loop.some, path |-> <<>>,
   l |-> IF loop.some THEN left ELSE Only(left, {"name", "path", "call", "index"} \cup Collections),
   r |-> Except(ValuePlan(x.index, soft /\ loop.some, loop), Collections)]

IndexPlan(x, soft, loop) ==
  LET left == ValuePlan(x.left, soft /\ ~loop.some, loop) IN
  IF IsIndexStep(x.index) /\ CanUsePath(left) /\ (loop.some => StartsAtItem(x.left, loop))
  THEN WithStep(left, IndexStep(x.index))
  ELSE DynamicIndexPlan(x, soft, loop)

ValuePlans(xs, soft, loop) == [i \in DOMAIN xs |-> ValuePlan(xs[i], soft, loop)]
CallPlan(x, soft, loop) ==
  IF x.hasBlock \/ x.f.name = "nil" THEN Unplanned
  ELSE [p |-> "call", name |-> x.f.name, args |-> ValuePlans(x.args, soft, loop), path |-> <<>>]

PrefixPlan(x, loop) == [p |-> "prefix", op |-> x.op, r |-> ValuePlan(x.x, TRUE, loop)]
ConcatPlan(x, loop) ==
  [p |-> "concat", l |-> ValuePlan(x.l, FALSE, loop), r |-> ValuePlan(x.r, FALSE, loop)]
InfixPlan(x, loop) ==
  CASE x.op = "+" -> ConcatPlan(x, loop)
    [] x.op \in InfixOperators ->
         [p |-> "infix", op |-> x.op, l |-> Except(ValuePlan(x.l, TRUE, loop), Collections),
                                      r |-> Except(ValuePlan(x.r, TRUE, loop), Collections)]
    [] OTHER -> Unplanned

ArrayPlan(x, loop) == [p |-> "array", els |-> ValuePlans(x.els, FALSE, loop)]
HashPlan(x, loop) ==
  [p |-> "hash", keys |-> [i \in DOMAIN x.pairs |-> x.pairs[i].key],
   els |-> [i \in DOMAIN x.pairs |-> ValuePlan(x.pairs[i].x, FALSE, loop)]]

LiteralPlan(x) ==
  [p |-> "lit", v |-> CASE x.k = "str" -> Str(x.text) [] x.k = "int" -> Num(x.n)
                        [] x.k = "bool" -> Bool(x.b)]

ValuePlan(x, soft, loop) ==
  CASE x.k \in {"str", "int", "bool"} -> LiteralPlan(x)
    [] x.k = "id"     -> IdentifierPlan(x.name, soft, loop)
    [] x.k = "prop"   -> PropertyPlan(x, soft, loop)
    [] x.k = "index"  -> IndexPlan(x, soft, loop)
    [] x.k = "call"   -> CallPlan(x, soft, loop)
    [] x.k = "prefix" -> PrefixPlan(x, loop)
    [] x.k = "infix"  -> InfixPlan(x, loop)
    [] x.k = "arr"    -> ArrayPlan(x, loop)
    [] x.k = "hash"   -> HashPlan(x, loop)
    [] OTHER          -> Unplanned

-----------------------------------------------------------------------------
(* Statements.  place says where: "top", "out" (in the block of an if), "silent"
   (in the block of an if without output) or "loop".                         *)
StaticSegment(text) == [g |-> "static", text |-> text]
ValueSegment(v)     == [g |-> "value", x |-> v]

AssignPlan(x, loop) ==
  [g |-> "assign", name |-> x.name, x |-> Except(ValuePlan(x.x, FALSE, loop), {"loopkey"})]

IndexAssignPlan(x, loop) ==
  [g |-> "setindex", l |-> ValuePlan(x.left, FALSE, loop),
   r |-> Except(ValuePlan(x.index, FALSE, loop), Collections),
   x |-> Except(ValuePlan(x.x, FALSE, loop), {"loopkey"})]

LetPlan(x, loop)    == [g |-> "let", name |-> x.name, x |-> ValuePlan(x.x, FALSE, loop)]
ReturnPlan(x, loop) == [g |-> "return", x |-> ValuePlan(x, FALSE, loop)]

SegmentsOf(stmts, place, loop) == [i \in DOMAIN stmts |-> Segment(stmts[i], place, loop)]

ConditionalPlan(x, silent, place, loop) ==
  [g |-> "cond", silent |-> silent, some |-> x.orElse.some,
   conds  |-> [i \in DOMAIN x.arms |-> Except(ValuePlan(x.arms[i].c, TRUE, loop), Collections)],
   bodies |-> [i \in DOMAIN x.arms |-> SegmentsOf(x.arms[i].body, place, loop)],
   orElse |-> SegmentsOf(x.orElse.body, place, loop)]

OuterNames(loop) == (loop.outer \cup {loop.key, loop.val}) \ {"", "_"}
LoopPlan(x, silent, outer) ==
  LET loop == [key |-> x.key, val |-> x.val, some |-> TRUE,
               outer |-> IF outer.some THEN OuterNames(outer) ELSE {}] IN
  [g |-> "loop", silent |-> silent, key |-> x.key, val |-> x.val,
   iter |-> Only(ValuePlan(x.iter, FALSE, NoLoop), {"name", "path", "call"} \cup Collections),
   parts |-> SegmentsOf(x.body, "loop", loop)]

(* A helper's block is compiled by itself, with a plan of its own. *)
CompileFastBlockCall(block) == PlanOf(block)
BlockCallPlan(x, silent, loop) ==
  [g |-> "block", name |-> x.f.name, silent |-> silent, args |-> ValuePlans(x.args, FALSE, loop),
   block |-> CompileFastBlockCall(x.block)]
CallSegment(x, silent, loop) ==
  IF x.hasBlock THEN BlockCallPlan(x, silent, loop)
  ELSE [g |-> "call", x |-> CallPlan(x, FALSE, loop), silent |-> silent]

(* A partial whose name and keys are literals, without a layout. *)
DataPairs(x) == IF Len(x.args) = 2 THEN x.args[2].pairs ELSE <<>>
PartialDataPlans(x) == [i \in DOMAIN DataPairs(x) |-> ValuePlan(DataPairs(x)[i].x, FALSE, NoLoop)]
IsPartial(x) ==
  /\ ~x.hasBlock /\ x.f.name = "partial" /\ Len(x.args) \in 1..2
  /\ x.args[1].k = "str"
  /\ Len(x.args) = 2 => x.args[2].k = "hash" /\ \A i \in DOMAIN DataPairs(x) : DataPairs(x)[i].key # "layout"
  /\ \A i \in DOMAIN DataPairs(x) : Rejected \notin Names(PartialDataPlans(x)[i])
PartialPlan(x) ==
  [g |-> "partial", name |-> x.args[1].text[1], vals |-> PartialDataPlans(x),
   keys |-> [i \in DOMAIN DataPairs(x) |-> DataPairs(x)[i].key]]

OutputSegment(x, loop) ==
  CASE x.k = "str"  -> StaticSegment(HTMLEscaper(x.text))
    [] x.k = "html" -> StaticSegment(x.text)
    [] x.k = "int"  -> StaticSegment(<<ToString(x.n)>>)
    [] x.k = "bool" -> StaticSegment(<<IF x.b THEN "true" ELSE "false">>)
    [] x.k = "for"  -> LoopPlan(x, FALSE, loop)
    [] x.k = "if"   -> ConditionalPlan(x, FALSE, IF loop.some THEN "loop" ELSE "out", loop)
    [] x.k = "call" -> IF IsPartial(x) THEN PartialPlan(x) ELSE CallSegment(x, FALSE, loop)
    [] x.k \in {"break", "continue"} -> NoSegment
    [] OTHER        -> ValueSegment(ValuePlan(x, FALSE, loop))

SilentSegment(x, loop) ==
  CASE x.k = "html"     -> StaticSegment(x.text)
    [] x.k = "assign"   -> AssignPlan(x, loop)
    [] x.k = "setindex" -> IndexAssignPlan(x, loop)
    [] x.k = "for"      -> LoopPlan(x, TRUE, loop)
    [] x.k = "if"       -> ConditionalPlan(x, TRUE, IF loop.some THEN "loop" ELSE "silent", loop)
    [] x.k = "call"     -> CallSegment(x, TRUE, loop)
    [] OTHER            -> NoSegment

(* The parts of a loop's body. *)
LoopOutputPart(x, loop) ==
  CASE x.k \in {"break", "continue"}       -> [g |-> "control", kind |-> x.k]
    [] x.k = "id" /\ x.name = loop.key      -> [g |-> "key"]
    [] x.k = "id" /\ x.name = loop.val      -> [g |-> "item"]
    [] OTHER                                -> OutputSegment(x, loop)
LoopPart(x, loop) ==
  CASE x.s = "emit"   -> LoopOutputPart(x.x, loop)
    [] x.s = "let"    -> LetPlan(x, loop)
    [] x.s = "return" -> ReturnPlan(x.x, loop)
    [] x.s = "expr" /\ x.x.k \in {"break", "continue"} -> LoopOutputPart(x.x, loop)
    [] x.s = "expr" /\ x.x.k = "assign" /\ x.x.name \in loop.outer -> NoSegment
    [] x.s = "expr"   -> SilentSegment(x.x, loop)
    [] x.s = "hole"   -> NoSegment

Segment(x, place, loop) ==
  CASE place = "loop"    -> LoopPart(x, loop)
    [] x.s = "emit"      -> OutputSegment(x.x, loop)
    [] x.s = "expr"      -> SilentSegment(x.x, loop)
    [] x.s = "let"       -> LetPlan(x, loop)
    [] x.s = "return"    -> IF place = "top" THEN ReturnPlan(x.x, loop) ELSE OutputSegment(x.x, loop)
    [] x.s = "hole"      -> NoSegment

-----------------------------------------------------------------------------
(* The names a plan binds (looks up, or keeps as locals), Rejected among them if
   some part has no plan.                                                    *)
NamesOfAll(vs) == UNION {Names(vs[i]) : i \in DOMAIN vs}
Names(v) ==
  CASE v.p = "none"   -> {Rejected}
    [] v.p = "name"   -> {v.name} \ {"nil"}
    [] v.p = "path"   -> IF v.bound THEN {v.name} ELSE {}
    [] v.p = "call"   -> {v.name} \cup NamesOfAll(v.args)
    [] v.p = "prefix" -> Names(v.r)
    [] v.p \in {"index", "infix", "concat"} -> Names(v.l) \cup Names(v.r)
    [] v.p \in Collections   -> NamesOfAll(v.els)
    [] OTHER          -> {}

SegmentsNames(segs) == UNION {SegmentNames(segs[i]) : i \in DOMAIN segs}
SegmentNames(g) ==
  CASE g.g = "none"     -> {Rejected}
    [] g.g \in {"value", "call", "return"} -> Names(g.x)
    [] g.g \in {"let", "assign"} -> {g.name} \cup Names(g.x)
    [] g.g = "setindex" -> Names(g.l) \cup Names(g.r) \cup Names(g.x)
    [] g.g = "block"    -> {g.name} \cup NamesOfAll(g.args)
    [] g.g = "partial"  -> NamesOfAll(g.vals)
    [] g.g = "loop"     -> Names(g.iter) \cup SegmentsNames(g.parts)
    [] g.g = "cond"     -> NamesOfAll(g.conds) \cup UNION {SegmentsNames(g.bodies[i]) : i \in DOMAIN g.bodies}
                           \cup SegmentsNames(g.orElse)
    [] OTHER            -> {}

NoPlan == [some |-> FALSE, segments |-> <<>>, names |-> {}]
NamedPlan(segments, names) ==
  IF Rejected \in names \/ segments = <<>> THEN NoPlan
  ELSE [some |-> TRUE, segments |-> segments, names |-> names]
CompiledPlan(segments) == NamedPlan(segments, SegmentsNames(segments))
PlanOf(stmts) == CompiledPlan(SegmentsOf(stmts, "top", NoLoop))

-----------------------------------------------------------------------------
(* What a block does to names (binding_sync.go): the names it assigns, except
   after a let of its own; the names it declares itself.                     *)
BlocksOf(g) == CASE g.g = "cond" -> Append(g.bodies, g.orElse)
                 [] g.g = "loop" -> <<g.parts>>
                 [] OTHER        -> <<>>
DeclaredIn(segs) == {segs[i].name : i \in {j \in DOMAIN segs : segs[j].g = "let"}}
DeclaredBefore(segs, i) == DeclaredIn(SubSeq(segs, 1, i - 1))
Assigned(segs) ==
  UNION {((IF segs[i].g = "assign" THEN {segs[i].name} ELSE {})
          \cup UNION {Assigned(BlocksOf(segs[i])[j]) : j \in DOMAIN BlocksOf(segs[i])})
         \ DeclaredBefore(segs, i) : i \in DOMAIN segs}

(* Whether a block, or the block of an if in it, declares or assigns. *)
Conditionals(segs) == {i \in DOMAIN segs : segs[i].g = "cond"}
InConditionals(segs, P(_)) == \E i \in Conditionals(segs) : \E j \in DOMAIN BlocksOf(segs[i]) : P(BlocksOf(segs[i])[j])
SetsLocals(segs) == DeclaredIn(segs) # {} \/ InConditionals(segs, SetsLocals)
SetsOuter(segs) ==
  (\E i \in DOMAIN segs : segs[i].g \in {"assign", "setindex"}) \/ InConditionals(segs, SetsOuter)

-----------------------------------------------------------------------------
(* Plans of partials that the runtime renders without a context of their own
   (partials.go): they call nothing, and name nothing that partials have a use for. *)
SpecialBindingNames == {"layout", "contentType", "partialFeeder"}
HasCall(v) ==
  CASE v.p = "call"   -> TRUE
    [] v.p = "prefix" -> HasCall(v.r)
    [] v.p \in {"index", "infix", "concat"} -> HasCall(v.l) \/ HasCall(v.r)
    [] v.p \in Collections -> \E i \in DOMAIN v.els : HasCall(v.els[i])
    [] OTHER          -> FALSE

RunsAnywhere(segs, inLoop) == \A i \in DOMAIN segs :
  LET g == segs[i] IN
  CASE g.g \in {"static", "key", "item", "control"}    -> TRUE
    [] g.g \in {"value", "let", "assign", "return"}     -> ~HasCall(g.x)
    [] g.g = "setindex" -> ~HasCall(g.x) /\ (inLoop => ~HasCall(g.l) /\ ~HasCall(g.r))
    [] g.g = "cond"     -> /\ \A j \in DOMAIN g.conds : ~HasCall(g.conds[j])
                           /\ \A j \in DOMAIN BlocksOf(g) : RunsAnywhere(BlocksOf(g)[j], inLoop)
    [] g.g = "loop"     -> ~HasCall(g.iter) /\ RunsAnywhere(g.parts, TRUE)
    [] OTHER            -> FALSE

DirectPartialCanRender(plan) ==
  plan.some /\ plan.names \cap SpecialBindingNames = {} /\ RunsAnywhere(plan.segments, FALSE)
=============================================================================
