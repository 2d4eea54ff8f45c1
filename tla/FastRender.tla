----------------------------- MODULE FastRender -----------------------------
(* Rendering a fast plan (src/vm/vm/fast_render.go, fast_loops.go, fast_calls.go,
   fast_values.go): the segments in order, values computed as they are needed.

   The bindings e of a plan are the names it may keep as locals, the memory of
   the locals (at: a cell, a record of those that are set; 0 before the first is
   set), what runs (mode: "top" for the plan itself, "cond" for the block of an
   if in it, "loop" for the body of a loop), the loop's own
   two variables, and the names a simple plan has looked up already (read).
   The code passes bindings by value: copies share the memory once it is there.

   Besides the errors of Language, "missing" is a value that has no value (ok is
   false in the code), "declined" a plan that gives up, "unmodelled" what no
   template of a run may reach.                                                         *)
EXTENDS FastPlan

I == INSTANCE Interpreter

RECURSIVE IsSimpleValue(_), EvalFastValue(_, _, _), RenderFastPart(_, _, _), WriteFastGoValue(_, _),
          RenderFastPlan(_, _), RenderFastPlanWithBindings(_, _, _)

Missing(s)  == Fail("missing", s)
OrNil(r)    == Forgive(r, {"missing"})
Required(r) == IF r.err = "missing" THEN [r EXCEPT !.err = "unknown"] ELSE r
Unmodelled(r) == IF r.err = "declined" THEN [r EXCEPT !.err = "unmodelled"] ELSE r
Erroneous(r)  == IF r.err = "declined" THEN [r EXCEPT !.err = "fail"] ELSE r

-----------------------------------------------------------------------------
(* Bindings. *)
NewFastRenderBindings(plan) ==
  [names |-> plan.names, at |-> 0, mode |-> "top", key |-> "", val |-> "", k |-> Nil, v |-> Nil,
   read |-> <<>>]

Locals(e, s) == IF e.at = 0 THEN <<>> ELSE s.cells[e.at]
BindingValue(e, s, x) ==
  CASE x \in DOMAIN e.read       -> IF e.read[x].some THEN Ok(e.read[x].v, s) ELSE Missing(s)
    [] x \in DOMAIN Locals(e, s) -> Ok(Locals(e, s)[x], s)
    [] Has(s, x)                 -> Ok(Value(s, x), s)
    [] OTHER                     -> Missing(s)

EnsureLocalCapacity(e, s) ==
  IF e.at # 0 THEN Ok(e, s) ELSE Ok([e EXCEPT !.at = Len(s.cells) + 1], Alloc(s, <<>>))
Keep(e, s, x, v) == Ok(e, [s EXCEPT !.cells[e.at] = (x :> v) @@ @])
SetFastLocal(e, s, x, v) ==
  IF x \notin e.names THEN Ok(e, s)
  ELSE Then(EnsureLocalCapacity(e, s), LAMBDA r : Keep(r.v, r.s, x, v))

(* A let keeps a local and declares it; an assignment updates the variable of the
   context, and keeps it.                                                    *)
SetLocalAndContext(e, s, x, v) == Then(SetFastLocal(e, s, x, v), LAMBDA r : Ok(r.v, Set(r.s, x, v)))
AssignExistingLocalAndContext(e, s, x, v) ==
  IF Has(s, x) THEN SetFastLocal(e, Update(s, x, v), x, v) ELSE Fail("unknown", s)

(* Locals follow the variables of a context: those named, or all that are set. *)
SyncFastAssignmentBindings(e, s, c, xs) ==
  IF e.at = 0 THEN s
  ELSE [s EXCEPT !.cells[e.at] =
          [x \in {y \in xs \cap e.names : Has(At(s, c), y)} |-> Value(At(s, c), x)] @@ @]
SyncLocalValuesFromContext(e, s, c) == SyncFastAssignmentBindings(e, s, c, DOMAIN Locals(e, s))

(* The undo of a block with lets: what it declared is what it was before. *)
CapturePlan(e, s, xs) == IF xs = {} THEN Ok(e, s) ELSE EnsureLocalCapacity(e, s)
RestoreLocals(e, s, xs, old) ==
  IF e.at = 0 THEN s
  ELSE [s EXCEPT !.cells[e.at] =
          [x \in (DOMAIN @ \ xs) \cup (DOMAIN old \cap xs) |-> IF x \in xs THEN old[x] ELSE @[x]]]

-----------------------------------------------------------------------------
(* Values. *)
FastPropertyValue(v, name, s) ==
  CASE v.t = "nil" -> Ok(Nil, s)
    [] v.t = "obj" /\ name \in DOMAIN v.fields -> Ok(v.fields[name], s)
    [] OTHER       -> Fail("fail", s)

InRange(a, i) == i \in 0..(a.len - 1)
FastIndexGoValue(left, index, s) ==
  CASE left.t = "nil" /\ index.t \in {"int", "str"} -> Ok(Nil, s)
    [] left.t = "map" /\ index.t = "str" ->
         Ok(IF index.text[1] \in DOMAIN s.cells[left.at] THEN s.cells[left.at][index.text[1]] ELSE Nil, s)
    [] left.t = "arr" /\ index.t = "int" /\ InRange(left, index.n) -> Ok(s.cells[left.at][index.n + 1], s)
    [] OTHER -> Fail("fail", s)

SetFastIndexGoValue(left, index, v, s) ==
  CASE left.t = "map" /\ index.t = "str" ->
         Ok(Nil, [s EXCEPT !.cells[left.at] = (index.text[1] :> v) @@ @])
    [] left.t = "arr" /\ index.t = "int" /\ InRange(left, index.n) ->
         Ok(Nil, [s EXCEPT !.cells[left.at][index.n + 1] = v])
    [] OTHER -> Fail("fail", s)

EvalFastPathStep(v, step, s) ==
  CASE step.at = "prop" -> FastPropertyValue(v, step.name, s)
    [] step.at = "int"  -> FastIndexGoValue(v, Num(step.n), s)
    [] step.at = "str"  -> FastIndexGoValue(v, Str(step.text), s)
EvalFastPathSteps(r, path) ==
  FoldLeft(LAMBDA u, step : Then(u, LAMBDA b : EvalFastPathStep(b.v, step, b.s)), r, path)

(* Operators. *)
EvalFastNumericArithmetic(op, l, r, s) ==
  IF IsNumber(l) /\ IsNumber(r) THEN OkNumber(NumericOperationObject(op, l, r), s) ELSE Fail("fail", s)
NegatedNumber(v, s) ==
  IF IsNumber(v) /\ IsInt64(v) THEN Ok(Num(AsInt64(-v.n)), s) ELSE Fail("fail", s)
EvalFastAddOperator(l, r, s) ==
  CASE l.t = "arr"               -> I!ArrayOperator("+", l, r, s)
    [] "str" \in {l.t, r.t}      -> Ok(Str(Sprint(s, l) \o Sprint(s, r)), s)
    [] "bool" \in {l.t, r.t}     -> Ok(Bool(IsTruthy(l) /\ IsTruthy(r)), s)
    [] OTHER                     -> EvalFastNumericArithmetic("+", l, r, s)

(* reflect.DeepEqual, for values of this depth. *)
DeepEqual(s, l, r) ==
  /\ l.t = r.t
  /\ CASE l.t = "arr" -> Elements(s, l) = Elements(s, r)
       [] l.t = "map" -> s.cells[l.at] = s.cells[r.at]
       [] OTHER       -> l = r
CompareFastEquality(l, r, s) ==
  CASE "nil" \in {l.t, r.t} -> Ok(l.t = r.t, s)
    [] l.t = "bool"         -> Ok(l.b <=> IsTruthy(r), s)
    [] l.t = "str"          -> Ok(l.text = Sprint(s, r), s)
    [] IsNumber(l) /\ IsNumber(r) -> Ok(CompareNumericEquality(l, r), s)
    [] IsNumber(l) \/ IsNumber(r) -> Fail("fail", s)
    [] OTHER                -> Ok(DeepEqual(s, l, r), s)
CompareFastOrdered(op, l, r, s) ==
  CASE IsNumber(l) /\ IsNumber(r) -> Ok(Bool(CompareNumericOrdered(op, l, r)), s)
    [] IsNumber(l) \/ IsNumber(r) -> Fail("fail", s)
    [] OTHER                      -> Fail("unmodelled", s)         \* the order of texts

Exchanged == ("<" :> ">") @@ ("<=" :> ">=")
EvalFastInfixOperator(op, l, r, s) ==
  CASE op \in {"==", "!="} -> Then(CompareFastEquality(l, r, s), LAMBDA c : Ok(Bool(c.v = (op = "==")), c.s))
    [] op \in {">", ">="} -> CompareFastOrdered(op, l, r, s)
    [] op \in {"<", "<="} -> CompareFastOrdered(Exchanged[op], r, l, s)
    [] OTHER -> EvalFastNumericArithmetic(op, l, r, s)

EvalFastLogicalInfixValue(p, e, s) ==
  Then(OrNil(EvalFastValue(p.l, e, s)), LAMBDA l :
    IF IsTruthy(l.v) = (p.op = "||") THEN Ok(Bool(p.op = "||"), l.s)
    ELSE Then(OrNil(EvalFastValue(p.r, e, l.s)), LAMBDA r : Ok(Bool(IsTruthy(r.v)), r.s)))

EvalFastInfixValue(p, e, s) ==
  IF p.op \in {"&&", "||"} THEN EvalFastLogicalInfixValue(p, e, s)
  ELSE Then(OrNil(EvalFastValue(p.l, e, s)), LAMBDA l : Then(OrNil(EvalFastValue(p.r, e, l.s)), LAMBDA r :
         EvalFastInfixOperator(p.op, l.v, r.v, r.s)))

EvalFastConcatValue(p, e, s) ==
  Then(EvalFastValue(p.l, e, s), LAMBDA l : Then(EvalFastValue(p.r, e, l.s), LAMBDA r :
    EvalFastAddOperator(l.v, r.v, r.s)))

EvalFastPrefixValue(p, e, s) ==
  Then(OrNil(EvalFastValue(p.r, e, s)), LAMBDA r :
    CASE p.op = "!"                  -> Ok(Bool(~IsTruthy(r.v)), r.s)
      [] OTHER                       -> NegatedNumber(r.v, r.s))

-----------------------------------------------------------------------------
(* Names, paths, data, calls. *)
IsSoft(p) == p.p \in {"name", "path", "index"} /\ p.soft
OrNilIfSoft(p, r) == IF IsSoft(p) THEN OrNil(r) ELSE r

EvalFastPathValue(p, e, s) ==
  LET base == IF p.bound THEN BindingValue(e, s, p.name) ELSE Ok(e.v, s)
  IN OrNilIfSoft(p, EvalFastPathSteps(base, p.path))

EvalFastIndexOf(left, p, e) ==
  IF left.err = "missing" THEN OrNilIfSoft(p, left)
  ELSE Then(left, LAMBDA l : Then(EvalFastValue(p.r, e, l.s), LAMBDA i :
         EvalFastPathSteps(FastIndexGoValue(l.v, i.v, i.s), p.path)))
EvalFastIndexPlanValue(p, e, s) == EvalFastIndexOf(EvalFastValue(p.l, e, s), p, e)

AllOf(ps, s, Each(_, _)) ==
  FoldLeft(LAMBDA r, p : Then(r, LAMBDA vs : Then(Each(p, vs.s), LAMBDA v : Ok(Append(vs.v, v.v), v.s))),
           Ok(<<>>, s), ps)
EvalFastValues(ps, e, s) == AllOf(ps, s, LAMBDA p, u : EvalFastValue(p, e, u))
EvalFastArgs(ps, e, s)   == AllOf(ps, s, LAMBDA p, u : OrNilIfSoft(p, EvalFastValue(p, e, u)))

EvalFastArrayValue(p, e, s) ==
  Then(EvalFastValues(p.els, e, s), LAMBDA r :
    Ok(Arr(Len(r.s.cells) + 1, Len(r.v)), Alloc(r.s, r.v)))

EvalFastHashValue(p, e, s) ==
  Then(EvalFastValues(p.els, e, s), LAMBDA r :
    LET last(key) == CHOOSE i \in DOMAIN p.keys : p.keys[i] = key /\ \A j \in DOMAIN p.keys : p.keys[j] = key => j <= i
    IN Ok(Map(Len(r.s.cells) + 1), Alloc(r.s, [key \in {p.keys[i] : i \in DOMAIN p.keys} |-> r.v[last(key)]])))

(* The function first, then its arguments; in a loop a missing argument is an
   error at once.                                                            *)
EvalFastCallArgs(ps, e, s) ==
  IF e.mode = "loop" THEN Required(EvalFastArgs(ps, e, s)) ELSE EvalFastArgs(ps, e, s)

(* A render is linked to the plans of the partials, compiled once. *)
PartialPlans == [name \in DOMAIN Partials |-> PlanOf(Partials[name])]
PartialPlanOf(name, s) == IF name \in DOMAIN Partials THEN s.plans[name] ELSE NoPlan
RenderLinkedPartial(name, s) ==
  IF PartialPlanOf(name, s).some THEN Unmodelled(RenderFastPlan(PartialPlanOf(name, s), s)) ELSE Fail("unmodelled", s)

(* The VM's own version of the helper partial renders the partial by its plan. *)
VmPartialHelper(args, s) == CallPartial(args, RenderLinkedPartial, s)
FastHelper(f, args, s, B(_)) ==
  CASE f.t # "native" -> Fail("fail", s)
    [] Len(args) > HelperArity[f.name] -> Fail("fail", s)
    [] f.name = "partial" -> VmPartialHelper(args, s)
    [] OTHER -> HelperResult(f.name, args, B, s)

NoBlock(s) == Fail("fail", s)
EvalFastCallValuePlan(p, e, s) ==
  Then(BindingValue(e, s, p.name), LAMBDA f : Then(EvalFastCallArgs(p.args, e, f.s), LAMBDA a :
    EvalFastPathSteps(FastHelper(f.v, a.v, a.s, NoBlock), p.path)))

EvalFastValue(p, e, s) ==
  CASE p.p = "lit"     -> Ok(p.v, s)
    [] p.p = "name"    -> IF p.name = "nil" THEN Ok(Nil, s) ELSE OrNilIfSoft(p, BindingValue(e, s, p.name))
    [] p.p = "loopkey" -> IF e.mode = "loop" THEN Ok(e.k, s) ELSE Missing(s)
    [] p.p = "path"    -> EvalFastPathValue(p, e, s)
    [] p.p = "index"   -> EvalFastIndexPlanValue(p, e, s)
    [] p.p = "call"    -> EvalFastCallValuePlan(p, e, s)
    [] p.p = "prefix"  -> EvalFastPrefixValue(p, e, s)
    [] p.p = "infix"   -> EvalFastInfixValue(p, e, s)
    [] p.p = "concat"  -> EvalFastConcatValue(p, e, s)
    [] p.p = "array"   -> EvalFastArrayValue(p, e, s)
    [] p.p = "hash"    -> EvalFastHashValue(p, e, s)

WriteFastGoValue(s, v) ==
  CASE v.t = "str"           -> HTMLEscaper(v.text)
    [] v.t = "html"          -> v.text
    [] v.t \in {"int", "uint", "bool"} -> Sprint(s, v)
    [] v.t = "arr"           -> FlattenSeq([i \in 1..v.len |-> WriteFastGoValue(s, s.cells[v.at][i])])
    [] OTHER                 -> <<>>

-----------------------------------------------------------------------------
(* What a segment or a part of a loop comes to: its text, the bindings after it,
   and what ends the list it is in: "skip" (the rest of the list), or a "return",
   "break" or "continue" of the iteration.                                   *)
Part(text, e, end) == [text |-> text, e |-> e, end |-> end]
Shown(r, e)        == Then(r, LAMBDA v : Ok(Part(WriteFastGoValue(v.s, v.v), e, ""), v.s))
Silently(silent, r) == IF silent THEN Then(r, LAMBDA o : Ok([o.v EXCEPT !.text = <<>>], o.s)) ELSE r
Nothing(e, s)      == Ok(Part(<<>>, e, ""), s)
Kept(r)            == Then(r, LAMBDA k : Nothing(k.v, k.s))

After(part, r) == [r.v EXCEPT !.text = part.text \o @]
RenderFastParts(parts, e, s) ==
  Then(FoldLeft(LAMBDA r, g : Then(r, LAMBDA p :
                  IF p.v.end # "" THEN p
                  ELSE Then(RenderFastPart(g, p.v.e, p.s), LAMBDA q : Ok(After(p.v, q), q.s))),
                Nothing(e, s), parts),
       LAMBDA r : Ok(IF r.v.end = "skip" THEN [r.v EXCEPT !.end = ""] ELSE r.v, r.s))

(* In a loop a value that is missing ends the block, without an error. *)
ShownOrSkipped(r, e, end) ==
  IF e.mode = "loop" /\ r.err = "missing" THEN Ok(Part(<<>>, e, end), r.s)
  ELSE Shown(Required(r), e)
RenderFastValue(g, e, s) == ShownOrSkipped(EvalFastValue(g.x, e, s), e, "skip")

RenderFastLet(g, e, s) ==
  Then(Required(EvalFastValue(g.x, e, s)), LAMBDA r : Kept(SetLocalAndContext(e, r.s, g.name, r.v)))

(* An assignment to a variable of the loop lasts until its block ends. *)
LoopNames(e) == {e.key, e.val} \ {"", "_"}
AssignFastLoopIterator(g, e, s) ==
  Then(Required(EvalFastValue(g.x, e, s)), LAMBDA r :
    Nothing(IF g.name = e.key THEN [e EXCEPT !.k = r.v] ELSE [e EXCEPT !.v = r.v], r.s))
AssignFastValue(g, e, s) ==
  Then(Required(BindingValue(e, s, g.name)), LAMBDA b : Then(Required(EvalFastValue(g.x, e, b.s)), LAMBDA r :
    Kept(AssignExistingLocalAndContext(e, r.s, g.name, r.v))))

AssignFastIndexValue(g, e, s) ==
  Then(Required(EvalFastValue(g.l, e, s)), LAMBDA l :
    Then(Required(EvalFastValue(g.r, e, l.s)), LAMBDA i :
      Then(Required(EvalFastValue(g.x, e, i.s)), LAMBDA v :
        Then(SetFastIndexGoValue(l.v, i.v, v.v, v.s), LAMBDA r : Nothing(e, r.s)))))

RenderFastReturn(g, e, s) ==
  Then(ShownOrSkipped(EvalFastValue(g.x, e, s), e, "return"), LAMBDA w :
    Ok(Part(w.v.text, e, IF e.mode = "loop" THEN "return" ELSE "skip"), w.s))

-----------------------------------------------------------------------------
(* Calls.  A helper's block sees the locals, and in a loop its variables, in a
   context of its own; what the block assigns comes back to the locals.      *)
FastBlockContext(e, s) ==
  LET scoped == DeclareAll(New(s), Locals(e, s)) IN
  IF e.mode = "loop" /\ LoopNames(e) # {} THEN Set(Set(New(scoped), e.key, e.k), e.val, e.v) ELSE scoped

WriteFastCall(g, e, s) ==
  Then(Required(BindingValue(e, s, g.x.name)), LAMBDA f :
    Then(Required(EvalFastCallArgs(g.x.args, e, f.s)), LAMBDA a :
      Shown(Restore(FastHelper(f.v, a.v, IF e.mode = "loop" THEN FastBlockContext(e, a.s) ELSE a.s,
                                 NoBlock), s), e)))

(* Simple plans: names, paths and comparisons only.  The names are looked up once,
   before anything is written, whatever the helpers in a comparison do to them. *)
AreSimpleValues(ps) == \A i \in DOMAIN ps : IsSimpleValue(ps[i])
IsSimpleValue(p) ==
  CASE p.p \in {"lit", "name", "path"} -> TRUE
    [] p.p \in {"infix", "concat"}     -> IsSimpleValue(p.l) /\ IsSimpleValue(p.r)
    [] p.p = "prefix"                  -> IsSimpleValue(p.r)
    [] p.p = "call"                    -> p.path = <<>> /\ AreSimpleValues(p.args)
    [] p.p \in Collections             -> AreSimpleValues(p.els)
    [] OTHER                           -> FALSE

IsSimplePlan(segs) ==
  /\ segs # <<>>
  /\ \A i \in DOMAIN segs :
       \/ segs[i].g = "static"
       \/ segs[i].g = "value" /\ segs[i].x.p \in {"name", "path", "infix"} /\ IsSimpleValue(segs[i].x)
IsSimpleBlock(segs) == segs = <<>> \/ IsSimplePlan(segs)
IsSimpleConditional(g) ==
  /\ ~g.silent /\ AreSimpleValues(g.conds) /\ IsSimpleBlock(g.orElse)
  /\ \A i \in DOMAIN g.bodies : IsSimpleBlock(g.bodies[i])

ReadNow(e, s, xs) ==
  [e EXCEPT !.read = [x \in xs |-> LET r == BindingValue([e EXCEPT !.read = <<>>], s, x)
                                   IN [some |-> r.err = "", v |-> r.v]]]
RenderFastSimplePlan(segs, e, s) ==
  Then(RenderFastParts(segs, ReadNow(e, s, SegmentsNames(segs)), s), LAMBDA r : Ok(Part(r.v.text, e, ""), r.s))

(* The size of the output is estimated first, from the iterables of the loops. *)
FastOutputGrowSize(plan, e, s) ==
  FoldLeft(LAMBDA u, g : IF g.g = "loop" THEN EvalFastValue(g.iter, e, u).s ELSE u, s, plan.segments)
RenderFastMixedPlan(plan, e, s) ==
  RenderFastParts(plan.segments,
                  IF IsSimplePlan(plan.segments) THEN ReadNow(e, s, SegmentsNames(plan.segments)) ELSE e, s)
RenderFastPlanWithBindings(plan, e, s) ==
  Then(RenderFastMixedPlan(plan, e, FastOutputGrowSize(plan, e, s)), LAMBDA r : Ok(r.v.text, r.s))
RenderFastPlan(plan, s) == RenderFastPlanWithBindings(plan, NewFastRenderBindings(plan), s)

RenderFastBlock(g, e, scoped, s) ==
  Then(IF g.block.some THEN Unmodelled(RenderFastPlan(g.block, scoped)) ELSE Fail("unmodelled", s), LAMBDA b :
    Ok(b.v, At(SyncLocalValuesFromContext(e, b.s, scoped.ctx), s.ctx)))

WriteFastBlockCall(g, e, s) ==
  IF e.mode = "cond" THEN Fail("declined", s)
  ELSE Then(Required(BindingValue(e, s, g.name)), LAMBDA f :
         Then(Required(EvalFastCallArgs(g.args, e, f.s)), LAMBDA a :
           Shown(FastHelper(f.v, a.v, a.s, LAMBDA u : RenderFastBlock(g, e, FastBlockContext(e, u), u)), e)))

-----------------------------------------------------------------------------
(* Partials.  One that calls nothing is rendered where it stands: in the caller's
   context, its data as locals of its own plan.  Another one gets a context over the
   caller's, which the data is set in.  What it assigned comes back to the locals.  *)
RenderOverlayPartial(name, overlay, s) ==
  IF name \notin DOMAIN Partials THEN Fail("fail", s)
  ELSE PartialError(Restore(RenderLinkedPartial(name, overlay), s))

RenderFastNoDataPartial(name, s) ==
  RenderOverlayPartial(name, IF DirectPartialCanRender(PartialPlanOf(name, s)) THEN s ELSE New(s), s)

(* The data is prepared only for a partial at the top of a plan, of simple values. *)
EvalPartialData(g, e, s) ==
  Then(AllOf(g.vals, s, LAMBDA p, u : Required(EvalFastValue(p, [e EXCEPT !.mode = "top"], u))), LAMBDA vs :
    Ok([key \in {g.keys[i] : i \in DOMAIN g.keys} |-> vs.v[CHOOSE i \in DOMAIN g.keys : g.keys[i] = key]], vs.s))
DataIsPrepared(g, e) == e.mode = "top" /\ AreSimpleValues(g.vals)

AttachPartialData(plan, data, s) ==
  LET e == NewFastRenderBindings(plan) IN
  IF plan.names = {} THEN Ok(e, s)
  ELSE Ok([e EXCEPT !.at = Len(s.cells) + 1], Alloc(s, [x \in DOMAIN data \cap plan.names |-> data[x]]))
RenderFastDataPartialDirect(g, data, s) ==
  Then(AttachPartialData(PartialPlanOf(g.name, s), data, s), LAMBDA b :
    PartialError(Unmodelled(RenderFastPlanWithBindings(PartialPlanOf(g.name, s), b.v, b.s))))

(* Prepared data is set in the overlay as it is; else a nil is left out. *)
SetOverlay(s, data) == [s EXCEPT !.scopes[s.ctx].vars = data]
RenderFastDataPartial(g, e, s) ==
  Then(EvalPartialData(g, e, s), LAMBDA d :
    CASE DataIsPrepared(g, e) /\ DirectPartialCanRender(PartialPlanOf(g.name, s)) -> RenderFastDataPartialDirect(g, d.v, d.s)
      [] DataIsPrepared(g, e) -> RenderOverlayPartial(g.name, SetOverlay(New(d.s), d.v), d.s)
      [] OTHER                -> RenderOverlayPartial(g.name, DeclareAll(New(d.s), d.v), d.s))

RenderFastPartialSegment(g, e, s) ==
  Then(IF g.vals # <<>> THEN RenderFastDataPartial(g, e, s) ELSE RenderFastNoDataPartial(g.name, s), LAMBDA r :
    Ok(Part(r.v, e, ""), SyncLocalValuesFromContext(e, r.s, s.ctx)))

(* In a loop the loop's variables are locals of the plan while the data is computed,
   and set in a context of their own.                                        *)
SetLoopLocals(e, s) ==
  Then(SetFastLocal(e, s, e.key, e.k), LAMBDA r : SetFastLocal(r.v, r.s, e.val, e.v))
RestoreLoopLocals(e, now, s) == RestoreLocals(e, now, LoopNames(e) \cap e.names, Locals(e, s))
LoopContext(e, s) ==
  DeclareAll(New(s), [x \in LoopNames(e) |-> IF x = e.val THEN e.v ELSE e.k])
RenderFastLoopPartialPart(g, e, s) ==
  Then(SetLoopLocals(e, s), LAMBDA b :
    Then(RenderFastPartialSegment(g, [b.v EXCEPT !.mode = "cond"], LoopContext(e, b.s)), LAMBDA r :
      LET left == At(RestoreLoopLocals(e, r.s, s), s.ctx)
      IN Ok(Part(r.v.text, e, ""), SyncLocalValuesFromContext(e, left, s.ctx))))

-----------------------------------------------------------------------------
(* Blocks: in a context of their own if they declare something. *)
LeaveFastBlock(parts, syncs, e, own, now, s) ==
  LET xs       == DeclaredIn(parts)
      synced   == IF syncs THEN SyncFastAssignmentBindings(e, now, own.s.ctx, Assigned(parts)) ELSE now
      restored == RestoreLocals(own.v, synced, xs, Locals(own.v, own.s))
  IN At(SyncFastAssignmentBindings(e, restored, s.ctx, Assigned(parts) \cap xs), s.ctx)
EnterFastBlock(parts, e, s) == CapturePlan(e, IF SetsLocals(parts) THEN New(s) ELSE s, DeclaredIn(parts))
WithinBlock(e) == [e EXCEPT !.mode = IF @ = "top" THEN "cond" ELSE @]

RenderFastScoped(parts, e, s) ==
  Then(EnterFastBlock(parts, WithinBlock(e), s), LAMBDA own : Then(RenderFastParts(parts, own.v, own.s), LAMBDA r :
    Ok([r.v EXCEPT !.e = e], LeaveFastBlock(parts, TRUE, WithinBlock(e), own, r.s, s))))

IsRead(g, e) == e.mode = "top" /\ IsSimpleConditional(g)
RenderFastBranch(g, parts, e, s) ==
  IF IsRead(g, e) THEN RenderFastSimplePlan(parts, e, s) ELSE RenderFastScoped(parts, e, s)
SelectFastBranch(g, e, s) ==
  FoldLeft(LAMBDA r, i : Then(r, LAMBDA b :
             IF b.v.chosen THEN b
             ELSE Then(OrNil(EvalFastValue(g.conds[i], e, b.s)), LAMBDA c :
                    IF IsTruthy(c.v) THEN Ok([chosen |-> TRUE, parts |-> g.bodies[i]], c.s) ELSE Ok(b.v, c.s))),
           Ok([chosen |-> FALSE, parts |-> g.orElse], s), [i \in DOMAIN g.conds |-> i])

(* The block of a silent if in a loop is written after all if it ends the iteration. *)
EvalFastConditions(g, e, s) ==
  SelectFastBranch(g, IF IsRead(g, e) THEN ReadNow(e, s, NamesOfAll(g.conds)) ELSE e, s)
RenderFastConditional(g, e, s) ==
  Then(Then(EvalFastConditions(g, e, s), LAMBDA b : RenderFastBranch(g, b.v.parts, e, b.s)),
       LAMBDA r : Silently(g.silent /\ r.v.end = "", r))

-----------------------------------------------------------------------------
(* Loops. *)
FastKeys(v, s) ==
  IF v.t = "arr" THEN [i \in 1..v.len |-> Num(i - 1)]
  ELSE LET keys == SetToSeq(DOMAIN s.cells[v.at]) IN [i \in DOMAIN keys |-> Str(<<keys[i]>>)]
FastItem(v, key, s) == IF v.t = "arr" THEN s.cells[v.at][key.n + 1] ELSE s.cells[v.at][key.text[1]]

RenderFastItems(g, v, keys, e, s) ==
  FoldLeft(LAMBDA r, key : Then(r, LAMBDA p :
             IF p.v.end = "break" THEN p
             ELSE Then(RenderFastParts(g.parts, [e EXCEPT !.k = key, !.v = FastItem(v, key, p.s)], p.s), LAMBDA q :
                    Ok(After(p.v, q), q.s))),
           Nothing(e, s), keys)

(* The iterable is not computed with the variables of a loop around. *)
IterateFast(g, e, s) ==
  Then(Required(EvalFastValue(g.iter, [e EXCEPT !.mode = "top"], s)), LAMBDA it :
    CASE it.v.t = "nil" -> Nothing(e, it.s)
      [] it.v.t \in {"arr", "map"} -> RenderFastItems(g, it.v, FastKeys(it.v, it.s),
           [e EXCEPT !.mode = "loop", !.key = g.key, !.val = g.val], it.s)
      [] OTHER -> Fail("declined", it.s))

RenderFastLoop(g, e, s) ==
  Then(EnterFastBlock(g.parts, e, s), LAMBDA own : Then(IterateFast(g, own.v, own.s), LAMBDA r :
    Silently(g.silent, Ok(Part(r.v.text, e, ""),
      LeaveFastBlock(g.parts, SetsLocals(g.parts) /\ SetsOuter(g.parts), e, own, r.s, s)))))

(* A loop in a loop sees the outer one's variables as locals for a while, those
   that the plan has names for.                                              *)
RenderFastNestedLoop(g, e, s) ==
  Then(SetLoopLocals(e, s), LAMBDA b : Then(Erroneous(RenderFastLoop(g, b.v, b.s)), LAMBDA n :
    Ok([n.v EXCEPT !.e = e],
       RestoreLoopLocals(e, SyncFastAssignmentBindings(e, n.s, s.ctx, Assigned(g.parts)), s))))

-----------------------------------------------------------------------------
RenderFastPart(g, e, s) ==
  CASE g.g = "static"   -> Ok(Part(g.text, e, ""), s)
    [] g.g = "key"      -> Shown(Ok(e.k, s), e)
    [] g.g = "item"     -> Shown(Ok(e.v, s), e)
    [] g.g = "value"    -> RenderFastValue(g, e, s)
    [] g.g = "call"     -> Silently(g.silent, WriteFastCall(g, e, s))
    [] g.g = "block"    -> Silently(g.silent, WriteFastBlockCall(g, e, s))
    [] g.g = "partial"  -> IF e.mode = "loop" THEN RenderFastLoopPartialPart(g, e, s)
                           ELSE RenderFastPartialSegment(g, e, s)
    [] g.g = "cond"     -> RenderFastConditional(g, e, s)
    [] g.g = "loop"     -> IF e.mode = "loop" THEN RenderFastNestedLoop(g, e, s) ELSE RenderFastLoop(g, e, s)
    [] g.g = "let"      -> RenderFastLet(g, e, s)
    [] g.g = "assign"   -> IF e.mode = "loop" /\ g.name \in {e.key, e.val} THEN AssignFastLoopIterator(g, e, s)
                           ELSE AssignFastValue(g, e, s)
    [] g.g = "setindex" -> AssignFastIndexValue(g, e, s)
    [] g.g = "return"   -> RenderFastReturn(g, e, s)
    [] g.g = "control"  -> Ok(Part(<<>>, e, g.kind), s)
=============================================================================
