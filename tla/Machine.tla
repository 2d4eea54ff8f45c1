------------------------------ MODULE Machine ------------------------------
(* The virtual machine (src/vm/vm): runs the bytecode of a template one
   instruction at a time.  A loop and the block of a helper run in a child
   machine; `acts` is the stack of what runs, innermost last:
     "vm"      a machine: its frames and operand stack, its context, halted;
     "loop"    a for with the iterations it still has to do;
     "helper"  a Go function called by the template, with its HelperContext.
   All machines of a render share the globals, the holes and (through
   pointers) arrays, hashes and the captured values of closures: engine state.
   A template that has a fast plan is rendered by it first ("fast" on acts); the
   machine renders what the plan declines.                                   *)
EXTENDS FastRender

CONSTANT Programs       \* the templates, as syntax trees
CONSTANT Context        \* the caller's variables: a record of values

VARIABLES program,      \* the template that is rendered
          code,         \* its bytecode, with its fast plan
          acts, s, result

vars == <<program, code, acts, s, result>>

Unset == [t |-> "unset"]                                  \* a Go nil in a slot
Closure(fn, at) == [t |-> "closure", fn |-> fn, at |-> at]
Control(kind, items) == [t |-> "control", kind |-> kind, items |-> items]
IsNull(v)  == v.t \in {"nil", "unset"}
Truthy(v)  == /\ ~IsNull(v)
              /\ v.t = "bool" => v.b
              /\ v.t = "str" => v.text # <<>>
NewArray(st, items) == Ok(Arr(Len(st.cells) + 1, Len(items)), Alloc(st, items))

FnOf(i) == IF i = 0 THEN code.main ELSE code.fns[i]
CodeOf(f) == FnOf(f.cl.fn).code
Free(st, cl) == st.cells[cl.at]

-----------------------------------------------------------------------------
(* Machines. *)
NewFrame(cl, base, writeReturn, calleeOnStack) ==
  [cl |-> cl, ip |-> 1, base |-> base, out |-> <<>>, hasOutput |-> FALSE,
   writeReturn |-> writeReturn, calleeOnStack |-> calleeOnStack]

Sized(slots, n) == slots \o [i \in 1..(n - Len(slots)) |-> Unset]
ResetChildAtOnce(cl, args, ctx, defer) ==
  [k |-> "vm", frames |-> <<NewFrame(cl, 0, FALSE, FALSE)>>, ctx |-> ctx,
   slots |-> Sized(args, FnOf(cl.fn).numLocals), sp |-> FnOf(cl.fn).numLocals,
   lastPopped |-> Unset, halted |-> FALSE, deferHolePositions |-> FALSE]
ResetChild(cl, args, ctx, defer) ==
  [k |-> "vm", frames |-> <<NewFrame(cl, 0, FALSE, FALSE)>>, ctx |-> ctx,
   slots |-> Sized(args, FnOf(cl.fn).numLocals), sp |-> FnOf(cl.fn).numLocals,
   lastPopped |-> Unset, halted |-> FALSE, deferHolePositions |-> defer]

Frame(m)      == Last(m.frames)
WithFrame(m, f) == [m EXCEPT !.frames[Len(m.frames)] = f]
Goto(m, pos)  == [m EXCEPT !.frames[Len(m.frames)].ip = pos]
StackBase(m)  == Frame(m).base + FnOf(Frame(m).cl.fn).numLocals
SetSlot(m, i, v) == [m EXCEPT !.slots = [Sized(@, i + 1) EXCEPT ![i + 1] = v]]
Push(m, v)    == [SetSlot(m, m.sp, IF v = Unset THEN Nil ELSE v) EXCEPT !.sp = @ + 1]
Pop(m)        == [m EXCEPT !.lastPopped = m.slots[m.sp], !.slots[m.sp] = Unset, !.sp = @ - 1]
Drop(m, n)    == [m EXCEPT !.sp = @ - n]            \* leaves the values in the slots
Peek(m, n)    == m.slots[m.sp - n]
TopN(m, n)    == SubSeq(m.slots, m.sp - n + 1, m.sp)
Discard(m)    == IF m.sp <= StackBase(m) THEN [m EXCEPT !.lastPopped = Nil] ELSE Pop(m)
Local(m, i)   == m.slots[Frame(m).base + i + 1]
SetLocal(m, i, v) == SetSlot(m, Frame(m).base + i, v)
LocalNames(m) == FnOf(Frame(m).cl.fn).names
Stopped(m)    == m.halted \/ Frame(m).ip > Len(CodeOf(Frame(m)))

-----------------------------------------------------------------------------
(* Values cross into a context as Go values and come back wrapped: an array is
   copied both ways, a hash on its way in.                                   *)
RECURSIVE ToGo(_, _), WriteObject(_, _, _, _)
CopyAll(st, vs) ==
  FoldLeft(LAMBDA r, v : LET g == ToGo(r.s, v) IN Ok(Append(r.v, g.v), g.s), Ok(<<>>, st), vs)
ToGo(st, v) ==
  CASE v.t = "arr" -> LET g == CopyAll(st, Elements(st, v)) IN NewArray(g.s, g.v)
    [] v.t = "map" -> Ok(Map(Len(st.cells) + 1), Alloc(st, st.cells[v.at]))
    [] v.t = "unset" -> Ok(Nil, st)
    [] OTHER -> Ok(v, st)
Wrap(st, v) == IF v.t = "map" THEN Ok(v, st) ELSE ToGo(st, Narrowed(v))

HasIn(st, c, x)   == Has(At(st, c), x)
ValueIn(st, c, x) == Value(At(st, c), x)
WrapIn(st, c, x)  == Wrap(st, ValueIn(st, c, x))
SetIn(st, c, x, v) == LET g == ToGo(st, v) IN Set(At(g.s, c), x, g.v)

(* The text of an object.  A closure or a loop control writes itself through
   writeGoValue and writeObject in turn, without end.                        *)
WriteObject(st, v, at, defer) ==
  CASE v.t = "arr" ->
         FoldLeft(LAMBDA r, e : Then(r, LAMBDA q : Then(
                    WriteObject(q.s, e, at + Len(q.v), defer), LAMBDA w : Ok(q.v \o w.v, w.s))),
                  Ok(<<>>, st), Elements(st, v))
    [] v.t = "str"             -> Ok(HTMLEscaper(v.text), st)
    [] v.t = "html"            -> Ok(v.text, st)
    [] v.t \in {"int", "uint", "bool"} -> Ok(Sprint(st, v), st)
    [] v.t = "hole" ->
         Ok(<<MarkerName(Len(st.holes))>>,
            [st EXCEPT !.holes = Append(@, Marker(v.input, IF defer THEN 0 ELSE at + 1))])
    [] v.t \in {"closure", "control"} -> Fail("panic", st)
    [] OTHER -> Ok(<<>>, st)

WriteFrameOutput(m, st, v) ==
  LET f == Frame(m) IN
  Then(WriteObject(st, v, Len(f.out), m.deferHolePositions), LAMBDA w :
    Ok(WithFrame(m, [f EXCEPT !.hasOutput = TRUE, !.out = @ \o w.v]), w.s))

FrameOutput(f) == IF f.hasOutput THEN Html(f.out) ELSE Nil
Rendered(m, st) ==
  IF m.halted /\ ~IsNull(m.lastPopped) THEN WriteObject(st, m.lastPopped, 0, m.deferHolePositions)
  ELSE Ok(m.frames[1].out, st)

-----------------------------------------------------------------------------
(* Names live twice, in slots (globals, locals, captured values) and in the
   contexts that helpers see; what follows copies one to the other.          *)
Known(cl) == SelectSeq([i \in DOMAIN FnOf(cl.fn).captured |-> i],
                       LAMBDA i : FnOf(cl.fn).captured[i].scope # "function")
Binding(cl, i) == FnOf(cl.fn).captured[i]

SeedCapturedBindings(st, c, cl) ==
  FoldLeft(LAMBDA u, i : SetIn(u, c, Binding(cl, i).name, Free(u, cl)[i]), st, Known(cl))

SyncCapturedBindingsFromContext(st, c, cl) ==
  FoldLeft(LAMBDA u, i : IF ~HasIn(u, c, Binding(cl, i).name) THEN u
             ELSE LET w == WrapIn(u, c, Binding(cl, i).name)
                  IN [w.s EXCEPT !.cells[cl.at][i] = w.v], st, Known(cl))

SyncFreeCapturedBindingsToContext(st, c, cl) ==
  FoldLeft(LAMBDA u, i : IF Binding(cl, i).scope # "free" THEN u
             ELSE SetIn(u, c, Binding(cl, i).name, Free(u, cl)[i]), st, Known(cl))

SyncCapturedBindingsNever(m, st, cl) == Ok(m, st)
SyncCapturedBindings(m, st, cl) ==
  FoldLeft(LAMBDA r, i : LET b == Binding(cl, i) IN
             IF b.scope = "local" THEN Ok(SetLocal(r.v, b.i, Free(r.s, cl)[i]), r.s)
             ELSE Ok(r.v, [r.s EXCEPT !.cells[Frame(m).cl.at][b.i + 1] = Free(r.s, cl)[i]]),
           Ok(m, st), Known(cl))

(* LocalNames is a Go map: it is walked in any order (here up or down). *)
Walk(names, order) ==
  LET n  == 1 + FoldSet(LAMBDA a, b : IF a > b THEN a ELSE b, 0, DOMAIN names)
      up == SelectSeq([i \in 1..n |-> i - 1], LAMBDA i : i \in DOMAIN names)
  IN IF order = "up" THEN up ELSE Reverse(up)

CopyFrameLocalsToContext(m, st, c, order) ==
  FoldLeft(LAMBDA u, i : SetIn(u, c, LocalNames(m)[i], Local(m, i)), st,
           Walk(LocalNames(m), order))

ScopedContext(m, st, order) ==
  LET n == New(At(st, m.ctx)) IN CopyFrameLocalsToContext(m, n, n.ctx, order)
ContextWithFrameLocals(m, st, order) ==
  IF LocalNames(m) = <<>> THEN At(st, m.ctx) ELSE ScopedContext(m, st, order)

NamesOf(f) == {f[i] : i \in DOMAIN f}
CapturedNames(cl) == IF cl = Unset THEN {} ELSE {Binding(cl, Known(cl)[i]).name : i \in DOMAIN Known(cl)}
SyncFrameBindingsFromContextExcept(m, st, c, captured) ==
  LET globals == SelectSeq(Walk(code.globalNames, "up"), LAMBDA i : HasIn(st, c, code.globalNames[i]))
      locals  == SelectSeq(Walk(LocalNames(m), "up"), LAMBDA i :
                   HasIn(st, c, LocalNames(m)[i]) /\ LocalNames(m)[i] \notin CapturedNames(captured))
      u == FoldLeft(LAMBDA t, i : LET w == WrapIn(t, c, code.globalNames[i])
                                  IN [w.s EXCEPT !.globals[i] = w.v], st, globals)
  IN FoldLeft(LAMBDA r, i : LET w == WrapIn(r.s, c, LocalNames(m)[i])
                            IN Ok(SetLocal(r.v, i, w.v), w.s), Ok(m, u), locals)

DynamicContextNames(m) ==
  {CodeOf(Frame(m))[i].name : i \in {j \in DOMAIN CodeOf(Frame(m)) : CodeOf(Frame(m))[j].op \in
     {"GetName", "GetNameOrNull", "GetNameOrJumpMissing", "AssignName", "WriteName",
      "WriteNameOrNull", "WriteNameCall"}}}
  \cup {CodeOf(Frame(m))[i].base : i \in {j \in DOMAIN CodeOf(Frame(m)) :
          CodeOf(Frame(m))[j].op = "WriteNameProperty"}}
SyncContextBinding(st, target, source, x) ==
  IF ~HasIn(st, source, x) THEN st
  ELSE IF HasIn(st, target, x) THEN Update(At(st, target), x, ValueIn(st, source, x))
  ELSE Set(At(st, target), x, ValueIn(st, source, x))
SyncContextBindingsFromContext(m, st, target, source) ==
  IF target = source THEN st
  ELSE FoldSet(LAMBDA x, u : SyncContextBinding(u, target, source, x), st,
               NamesOf(code.globalNames) \cup NamesOf(LocalNames(m)) \cup DynamicContextNames(m))

-----------------------------------------------------------------------------
(* Operators. *)
ExecuteNumericOperation(op, st, l, r) ==
  IF IsNumber(l) /\ IsNumber(r) THEN OkNumber(NumericOperationObject(op, l, r), st) ELSE Fail("fail", st)

ExecuteAdd(st, l, r) ==
  CASE l.t = "arr"              -> NewArray(st, Append(Elements(st, l), r))
    [] "str" \in {l.t, r.t}     -> Ok(Str(Sprint(st, l) \o Sprint(st, r)), st)
    [] "bool" \in {l.t, r.t}    -> Ok(Bool(Truthy(l) /\ Truthy(r)), st)
    [] OTHER                    -> ExecuteNumericOperation("+", st, l, r)

CompareEquality(st, l, r) ==
  CASE IsNull(l) \/ IsNull(r)     -> Ok(Bool(IsNull(l) /\ IsNull(r)), st)
    [] l.t = "bool"               -> Ok(Bool(l.b <=> Truthy(r)), st)
    [] l.t = "str"                -> Ok(Bool(l.text = Sprint(st, r)), st)
    [] IsNumber(l) /\ IsNumber(r) -> Ok(Bool(CompareNumericEquality(l, r)), st)
    [] IsNumber(l) \/ IsNumber(r) -> Fail("fail", st)
    [] l.t = "arr" /\ r.t = "arr" -> Ok(Bool(Elements(st, l) = Elements(st, r)), st)
    [] OTHER                      -> Ok(Bool(l = r), st)

(* The order of two different texts is left out: no template compares them. *)
CompareOrdered(op, st, l, r) ==
  CASE IsNumber(l) /\ IsNumber(r) -> Ok(Bool(CompareNumericOrdered(op, l, r)), st)
    [] IsNumber(l) \/ IsNumber(r) -> Fail("fail", st)
    [] Sprint(st, l) = Sprint(st, r) -> Ok(Bool(op = ">="), st)
    [] OTHER -> Fail("fail", st)

ExecuteBinary(op, st, l, r) ==
  CASE op = "+"  -> ExecuteAdd(st, l, r)
    [] op = "==" -> CompareEquality(st, l, r)
    [] op = "!=" -> Then(CompareEquality(st, l, r), LAMBDA e : Ok(Bool(~e.v.b), e.s))
    [] op \in {">", ">="} -> CompareOrdered(op, st, l, r)
    [] OTHER       -> ExecuteNumericOperation(op, st, l, r)

ExecuteIndex(st, l, i) ==
  CASE l.t = "arr" /\ i.t = "int" ->
         IF i.n \in 0..(l.len - 1) THEN Ok(st.cells[l.at][i.n + 1], st) ELSE Fail("fail", st)
    [] l.t = "map" /\ i.t \in {"str", "int", "bool"} ->
         LET cell == st.cells[l.at] IN
         Ok(IF i.t = "str" /\ i.text[1] \in DOMAIN cell THEN cell[i.text[1]] ELSE Nil, st)
    [] IsNull(l) -> Ok(Nil, st)
    [] OTHER     -> Fail("fail", st)

ExecuteSetIndex(st, l, i, v) ==
  CASE l.t = "arr" /\ i.t = "int" /\ i.n \in 0..(l.len - 1) ->
         Ok(Nil, [st EXCEPT !.cells[l.at][i.n + 1] = v])
    [] l.t = "map" /\ i.t = "str" ->
         Ok(Nil, [st EXCEPT !.cells[l.at] = (i.text[1] :> v) @@ @])
    [] OTHER -> Fail("fail", st)

PropertyValue(st, base, name) ==
  CASE base.t = "map" ->
         Ok(IF name \in DOMAIN st.cells[base.at] THEN st.cells[base.at][name] ELSE Nil, st)
    [] IsNull(base) -> Ok(Nil, st)
    [] base.t = "obj" /\ name \in DOMAIN base.fields -> Ok(base.fields[name], st)
    [] OTHER -> Fail("fail", st)

BuildHash(items) ==
  LET pairs == {i \in DOMAIN items : i % 2 = 1} IN
  [k \in {items[i].text[1] : i \in pairs} |->
     items[1 + FoldSet(LAMBDA a, b : IF a > b THEN a ELSE b, 0,
                       {i \in pairs : items[i].text[1] = k})]]

-----------------------------------------------------------------------------
(* What one instruction does to the machine m that runs it (whose ip is past it
   already) and to the engine state: Ok(machine, state) or an error.         *)
Pushed(r, m) == Then(r, LAMBDA q : Ok(Push(m, q.v), q.s))

PushEffect(ins, m, st) ==
  CASE ins.op \in {"Constant", "Bool"} -> Ok(Push(m, ins.v), st)
    [] ins.op = "Null"           -> Ok(Push(m, Nil), st)
    [] ins.op = "GetLocal"       -> Ok(Push(m, Local(m, ins.i)), st)
    [] ins.op = "GetFree"        -> Ok(Push(m, Free(st, Frame(m).cl)[ins.i + 1]), st)
    [] ins.op = "CurrentClosure" -> Ok(Push(m, Frame(m).cl), st)

GetGlobalEffect(ins, m, st) ==
  IF st.globals[ins.i] # Unset THEN Ok(Push(m, st.globals[ins.i]), st)
  ELSE Pushed(WrapIn(st, m.ctx, code.globalNames[ins.i]), m)

NameEffect(ins, m, st) ==
  CASE HasIn(st, m.ctx, ins.name)       -> Pushed(WrapIn(st, m.ctx, ins.name), m)
    [] ins.op = "GetNameOrNull"         -> Ok(Push(m, Nil), st)
    [] ins.op = "GetNameOrJumpMissing"  -> Ok(Goto(m, ins.to), st)
    [] OTHER                            -> Fail("unknown", st)

OperatorEffect(ins, m, st) ==
  CASE ins.op = "Bang"  -> Ok(Push(Pop(m), Bool(~Truthy(Peek(m, 0)))), st)
    [] ins.op = "Minus" -> Pushed(NegatedNumber(Peek(m, 0), st), Pop(m))
    [] OTHER -> Pushed(ExecuteBinary(ins.op, st, Peek(m, 1), Peek(m, 0)), Pop(Pop(m)))

DataEffect(ins, m, st) ==
  CASE ins.op = "Array" -> Pushed(NewArray(st, TopN(m, ins.n)), Drop(m, ins.n))
    [] ins.op = "Hash"  -> Ok(Push(Drop(m, ins.n), Map(Len(st.cells) + 1)),
                              Alloc(st, BuildHash(TopN(m, ins.n))))
    [] ins.op = "Index" -> Pushed(ExecuteIndex(st, Peek(m, 1), Peek(m, 0)), Pop(Pop(m)))
    [] ins.op = "SetIndex" ->
         Pushed(ExecuteSetIndex(st, Peek(m, 2), Peek(m, 1), Peek(m, 0)), Pop(Pop(Pop(m))))
    [] ins.op = "GetProperty" -> Pushed(PropertyValue(st, Peek(m, 0), ins.name), Pop(m))

JumpEffect(ins, m, st) ==
  CASE ins.op = "Jump"   -> Ok(Goto(m, ins.to), st)
    [] Truthy(Peek(m, 0)) -> Ok(Pop(m), st)
    [] OTHER             -> Ok(Goto(Pop(m), ins.to), st)

AssignName(m, st, x, v) ==
  LET cl   == Frame(m).cl
      mine == {i \in DOMAIN FnOf(cl.fn).captured :
                 Binding(cl, i).name = x /\ Binding(cl, i).scope # "function"}
      set  == [st EXCEPT !.cells[cl.at] = [i \in DOMAIN @ |-> IF i \in mine THEN v ELSE @[i]]]
      g    == ToGo(set, v)
  IN CASE HasIn(set, m.ctx, x) -> Ok(Push(m, Nil), Update(At(g.s, m.ctx), x, g.v))
       [] mine # {}            -> Ok(Push(m, Nil), set)
       [] OTHER                -> Fail("unknown", set)

StoreEffect(ins, m, st) ==
  LET v == Peek(m, 0) IN
  CASE ins.op = "SetGlobal" ->
         Ok(Pop(m), SetIn([st EXCEPT !.globals[ins.i] = v], m.ctx, code.globalNames[ins.i], v))
    [] ins.op = "SetLocal"   -> Ok(SetLocal(Pop(m), ins.i, v), st)
    [] ins.op = "AssignName" -> AssignName(Pop(m), st, ins.name, v)

(* closureFromStack: the captured values, dropped from the stack. *)
ClosureCell(m, st, n) == Alloc(st, TopN(m, n))
NewClosure(st, fn) == Closure(fn, Len(st.cells) + 1)
ClosureEffect(ins, m, st) ==
  Ok(Push(Drop(m, ins.n), NewClosure(st, ins.fn)), ClosureCell(m, st, ins.n))

Written(r, m) == Then(r, LAMBDA q : WriteFrameOutput(m, q.s, q.v))
WriteNameEffect(ins, m, st) ==
  CASE HasIn(st, m.ctx, ins.name) -> WriteFrameOutput(m, st, ValueIn(st, m.ctx, ins.name))
    [] ins.op = "WriteNameOrNull" -> Ok(m, st)
    [] OTHER                      -> Fail("unknown", st)

WriteGlobal(i, m, st, W(_)) ==
  CASE st.globals[i] # Unset -> W(st.globals[i])
    [] HasIn(st, m.ctx, code.globalNames[i]) -> W(ValueIn(st, m.ctx, code.globalNames[i]))
    [] OTHER -> Ok(m, st)
WriteEffect(ins, m, st) ==
  LET property(base) == Written(PropertyValue(st, base, ins.name), m) IN
  CASE ins.op = "Write"       -> WriteFrameOutput(Pop(m), st, Peek(m, 0))
    [] ins.op \in {"WriteConstant", "WriteString", "WriteHTML"} -> WriteFrameOutput(m, st, ins.v)
    [] ins.op = "WriteLocal"  -> WriteFrameOutput(m, st, Local(m, ins.i))
    [] ins.op = "WriteGlobal" -> WriteGlobal(ins.i, m, st, LAMBDA v : WriteFrameOutput(m, st, v))
    [] ins.op = "Hole"        -> WriteFrameOutput(m, st, Hole(ins.name))
    [] ins.op = "WriteLocalProperty"  -> property(Local(m, ins.i))
    [] ins.op = "WriteGlobalProperty" -> WriteGlobal(ins.i, m, st, property)
    [] ins.op = "WriteNameProperty"   ->
         IF HasIn(st, m.ctx, ins.base) THEN property(ValueIn(st, m.ctx, ins.base))
         ELSE Fail("unknown", st)
    [] OTHER -> WriteNameEffect(ins, m, st)

(* returnFromFrameValue: the machine ends with its first frame.  A call gives its
   stack back by moving sp: the slots keep what the function left in them.    *)
ReturnFromFrameTooFar(m, st, v) ==
  LET f == Frame(m)
      caller == [m EXCEPT !.frames = Front(@), !.sp = f.base - (IF f.calleeOnStack THEN 2 ELSE 1)]
  IN CASE Len(m.frames) = 1 -> Ok([m EXCEPT !.lastPopped = v, !.halted = TRUE], st)
       [] f.writeReturn     -> WriteFrameOutput(caller, st, v)
       [] OTHER             -> Ok(Push(caller, v), st)
ReturnFromFrame(m, st, v) ==
  LET f == Frame(m)
      caller == [m EXCEPT !.frames = Front(@), !.sp = f.base - (IF f.calleeOnStack THEN 1 ELSE 0)]
  IN CASE Len(m.frames) = 1 -> Ok([m EXCEPT !.lastPopped = v, !.halted = TRUE], st)
       [] f.writeReturn     -> WriteFrameOutput(caller, st, v)
       [] OTHER             -> Ok(Push(caller, v), st)

OutputValues(f) == IF f.hasOutput THEN <<Html(f.out)>> ELSE <<>>
ReturnEffect(ins, m, st) ==
  LET f == Frame(m)
      v == Peek(m, 0)
  IN CASE ins.op = "Return" -> ReturnFromFrame(m, st, FrameOutput(f))
       [] ins.op = "ReturnValue" /\ f.hasOutput ->
            LET c == NewArray(st, OutputValues(f) \o (IF IsNull(v) THEN <<>> ELSE <<v>>))
            IN ReturnFromFrame(Pop(m), c.s, c.v)
       [] ins.op = "ReturnValue" -> ReturnFromFrame(Pop(m), st, v)
       [] OTHER -> ReturnFromFrame(m, st, Control(ins.op, OutputValues(f)))

-----------------------------------------------------------------------------
(* Steps of the machine on top. *)
Top     == Last(acts)
Below(n) == acts[Len(acts) - n]
Running == result.err = "none" /\ Top.k = "vm" /\ ~Stopped(Top)
Ins     == CodeOf(Frame(Top))[Frame(Top).ip]
Stepped == Goto(Top, Frame(Top).ip + 1)

(* The n activations on top become r.v; an error ends the render. *)
Become(n, r) ==
  /\ s' = At(r.s, 1)
  /\ acts' = IF r.err = "" THEN SubSeq(acts, 1, Len(acts) - n) \o r.v ELSE acts
  /\ result' = IF r.err = "" THEN result ELSE [err |-> r.err, text |-> <<>>]
  /\ UNCHANGED <<program, code>>

(* How many operands an instruction takes; to take one from an empty stack is
   an index out of range.                                                    *)
Operands(ins) ==
  CASE ins.op \in {"+", "-", "*", "/", ">", ">=", "==", "!=", "Index"} -> 2
    [] ins.op = "SetIndex"                            -> 3
    [] ins.op \in {"Array", "Hash", "Closure"}        -> ins.n
    [] ins.op = "WriteNameCall"                       -> ins.n
    [] ins.op \in {"Call", "WriteCall"}               -> ins.n + 1
    [] ins.op = "CallBlock"                           -> ins.n + 1 + ins.free
    [] ins.op = "For"                                 -> 1 + ins.free
    [] ins.op \in {"Bang", "Minus", "GetProperty", "JumpNotTruthy", "SetGlobal", "SetLocal",
                   "AssignName", "Write", "ReturnValue"} -> 1
    [] OTHER -> 0

Execute(ops, effect(_, _, _)) ==
  /\ Running
  /\ Ins.op \in ops
  /\ Become(1, IF Top.sp < Operands(Ins) THEN Fail("panic", s)
               ELSE Then(effect(Ins, Stepped, s), LAMBDA r : Ok(<<r.v>>, r.s)))

PushOperand == Execute({"Constant", "Bool", "Null", "GetLocal", "GetFree", "CurrentClosure"}, PushEffect)
GetGlobal   == Execute({"GetGlobal"}, GetGlobalEffect)
GetName     == Execute({"GetName", "GetNameOrNull", "GetNameOrJumpMissing"}, NameEffect)
DiscardTop  == Execute({"Pop"}, LAMBDA ins, m, st : Ok(Discard(m), st))
Operator    == Execute({"+", "-", "*", "/", ">", ">=", "==", "!=", "Bang", "Minus"}, OperatorEffect)
Data        == Execute({"Array", "Hash", "Index", "SetIndex", "GetProperty"}, DataEffect)
Jump        == Execute({"Jump", "JumpNotTruthy"}, JumpEffect)
Assign      == Execute({"SetGlobal", "SetLocal", "AssignName"}, StoreEffect)
MakeClosure == Execute({"Closure"}, ClosureEffect)
WriteOutput == Execute({"Write", "WriteConstant", "WriteString", "WriteHTML", "WriteLocal",
                        "WriteGlobal", "Hole", "WriteLocalProperty", "WriteGlobalProperty",
                        "WriteNameProperty", "WriteName", "WriteNameOrNull"}, WriteEffect)
Leave       == Execute({"Return", "ReturnValue", "Break", "Continue"}, ReturnEffect)

-----------------------------------------------------------------------------
(* Calls.  Arguments are on the stack, below them the callee, except that
   WriteNameCall takes its callee from the context.                          *)
Calls       == {"Call", "CallBlock", "WriteCall", "WriteNameCall"}
CalleeOnStack == Ins.op # "WriteNameCall"
BlockFree   == IF Ins.op = "CallBlock" THEN Ins.free ELSE 0
Caller      == Drop(Stepped, BlockFree)
Callee      == CASE CalleeOnStack -> Peek(Caller, Ins.n)
                 [] HasIn(s, Top.ctx, Ins.name) -> ValueIn(s, Top.ctx, Ins.name)
                 [] OTHER -> Unset
Calling     == Running /\ Ins.op \in Calls

CallClosure ==
  /\ Calling /\ Callee.t = "closure"
  /\ LET fn    == FnOf(Callee.fn)
         frame == NewFrame(Callee, Caller.sp - Ins.n, Ins.op \in {"WriteCall", "WriteNameCall"},
                           CalleeOnStack)
         entered == [Caller EXCEPT !.frames = Append(@, frame), !.sp = frame.base + fn.numLocals,
                                   !.slots = Sized(@, frame.base + fn.numLocals)]
     IN Become(1, IF Ins.n # fn.numParameters THEN Fail("fail", s) ELSE Ok(<<entered>>, s))

(* callNativeValue: the helper may get a context of its own, a child with the
   locals of the frame when it has some.                                     *)
CallHelper ==
  /\ Calling /\ Callee.t = "native" /\ Callee.name # "partial"
  /\ \E order \in {"up", "down"} :
     LET f     == Callee.name
         block == IF Ins.op = "CallBlock" THEN NewClosure(s, Ins.fn) ELSE Unset
         held  == IF block = Unset THEN s ELSE ClosureCell(Stepped, s, BlockFree)
         own   == IF TakesHelperContext(f) THEN ContextWithFrameLocals(Caller, held, order) ELSE held
         seeded == IF block = Unset \/ ~TakesHelperContext(f) THEN own
                   ELSE SeedCapturedBindings(own, own.ctx, block)
         helper == [k |-> "helper", name |-> f, args |-> TopN(Caller, Ins.n), block |-> block,
                    ctx |-> IF TakesHelperContext(f) THEN own.ctx ELSE 0, texts |-> <<>>,
                    drop |-> Ins.n + (IF CalleeOnStack THEN 1 ELSE 0),
                    writes |-> Ins.op \in {"WriteCall", "WriteNameCall"}]
     IN Become(1, IF Ins.n > HelperArity[f] THEN Fail("fail", held)
                  ELSE Ok(<<Caller, helper>>, [seeded EXCEPT !.calls = @ + 1]))

(* A partial computes its text at once, in the locals' context or one over it.  The
   frame's names follow that context, the machine's own context does not.    *)
IsLiteralPartial == Ins.op = "WriteNameCall" /\ Ins.n = 1 /\ Peek(Caller, 0).t = "str"
RenderWherePossible(name, overlay, st) ==
  RenderLinkedPartial(name, IF IsLiteralPartial /\ DirectPartialCanRender(PartialPlanOf(name, st)) THEN st ELSE overlay)
PartialText(st) ==
  CASE Ins.op = "CallBlock" -> Fail("unmodelled", st)
    [] Ins.n > HelperArity["partial"] -> Fail("fail", st)
    [] OTHER -> Then(CallPartial(TopN(Caller, Ins.n), LAMBDA name, u : RenderWherePossible(name, u, st), st), LAMBDA h :
                  Ok(h.v.text, h.s))
CallVmPartial ==
  /\ Calling /\ Callee = Native("partial")
  /\ \E order \in {"up", "down"} :
     LET own == ContextWithFrameLocals(Caller, s, order) IN
     Become(1, Then(PartialText(own), LAMBDA text :
       LET synced == SyncFrameBindingsFromContextExcept(
                       Drop(Caller, Ins.n + (IF CalleeOnStack THEN 1 ELSE 0)), text.s, own.ctx, Unset)
       IN Then(IF Ins.op = "Call" THEN Ok(Push(synced.v, Html(text.v)), synced.s)
               ELSE WriteFrameOutput(synced.v, synced.s, Html(text.v)), LAMBDA m : Ok(<<m.v>>, m.s))))

CallNothing ==
  /\ Calling /\ Callee.t \notin {"closure", "native"}
  /\ Become(1, Fail(IF Callee = Unset THEN "unknown" ELSE "fail", s))

(* What the helpers of HelperArity do: run their block, look at a variable. *)
Helping == result.err = "none" /\ Top.k = "helper"

StartBlock ==
  /\ Helping /\ Len(Top.texts) < Runs(Top.name)
  /\ LET synced == SyncCapturedBindingsFromContext(s, Top.ctx, Top.block)
         child  == New(At(synced, Top.ctx))
     IN Become(0, IF Top.block = Unset THEN Fail("fail", s)
                  ELSE Ok(<<ResetChild(Top.block, <<>>, child.ctx, TRUE)>>, child))

EndBlock ==
  /\ result.err = "none" /\ Len(acts) > 1 /\ Top.k = "vm" /\ Stopped(Top) /\ Below(1).k = "helper"
  /\ LET helper == Below(1)
         out    == SyncContextBindingsFromContext(Below(2), s, helper.ctx, Top.ctx)
         frees  == SyncCapturedBindingsFromContext(out, Top.ctx, helper.block)
         slots  == SyncFrameBindingsFromContextExcept(Below(2), frees, Top.ctx, helper.block)
         done   == SyncCapturedBindings(slots.v, slots.s, helper.block)
     IN Become(3, Then(IF IsNull(Top.lastPopped) THEN Ok(Top.frames[1].out, done.s)
                       ELSE WriteObject(done.s, Top.lastPopped, 0, TRUE), LAMBDA w :
                  Ok(<<done.v, [helper EXCEPT !.texts = Append(@, w.v)]>>, w.s)))

Touched(h, st) == IF h.name = "touch" THEN SetIn(st, h.ctx, "n", Num(2)) ELSE st
HelperValue(h, st) ==
  CASE h.name = "echo"            -> Ok(IF h.args = <<>> THEN Nil ELSE h.args[1], st)
    [] h.name = "boom"            -> Fail("fail", st)
    [] h.name = "skip"            -> Ok(Nil, st)
    [] h.name = "peek"            -> WrapIn(st, h.ctx, "x")
    [] h.name = "touch"           -> Ok(Bool(TRUE), st)
    [] h.name = "wrap"            -> Ok(Html(<<"[">> \o h.texts[1] \o <<"]">>), st)
    [] h.name = "twice"           -> Ok(Html(h.texts[1] \o h.texts[2]), st)

ReturnFromHelper ==
  /\ Helping /\ Len(Top.texts) = Runs(Top.name)
  /\ LET h == Top
         back == IF h.ctx = 0 THEN Ok(Below(1), s)
                 ELSE SyncFrameBindingsFromContextExcept(Below(1),
                        SyncContextBindingsFromContext(Below(1), Touched(h, s), Below(1).ctx, h.ctx),
                        h.ctx, Unset)
     IN Become(2, Then(HelperValue(h, back.s), LAMBDA v :
          Then(IF h.writes THEN WriteFrameOutput(Drop(back.v, h.drop), v.s, v.v)
               ELSE Ok(Push(Drop(back.v, h.drop), v.v), v.s), LAMBDA m : Ok(<<m.v>>, m.s))))

-----------------------------------------------------------------------------
(* Loops.  A body that may reach the context (by name, through a call or a hole)
   makes the loop run in a context of its own.                               *)
NeedsContextWrites(fn) ==
  \E i \in DOMAIN fn.code : fn.code[i].op \in
    {"GetName", "GetNameOrNull", "GetNameOrJumpMissing", "AssignName", "WriteName",
     "WriteNameOrNull", "WriteNameProperty", "WriteGlobalProperty", "Call", "WriteCall",
     "WriteNameCall", "CallBlock", "Hole"}

LoopItem(key, v) == [key |-> key, val |-> v]
LoopItems(st, v) ==
  CASE IsNull(v)    -> Ok(<<>>, st)
    [] v.t = "arr"  -> LET c == CopyAll(st, Elements(st, v)) IN
                       Ok([i \in DOMAIN c.v |-> LoopItem(Num(i - 1), c.v[i])], c.s)
    [] v.t = "map"  -> LET keys == SetToSeq(DOMAIN st.cells[v.at]) IN
                       Ok([i \in DOMAIN keys |->
                             LoopItem(Str(<<keys[i]>>), st.cells[v.at][keys[i]])], st)
    [] OTHER        -> Fail("fail", st)

StartFor ==
  /\ Running /\ Ins.op = "For"
  /\ \E order \in {"up", "down"} :
     LET m      == Drop(Stepped, Ins.free)
         block  == NewClosure(s, Ins.fn)
         held   == ClosureCell(Stepped, s, Ins.free)
         writes == NeedsContextWrites(FnOf(Ins.fn))
         inner  == ScopedContext(Pop(m), held, order)
         own    == IF writes THEN SeedCapturedBindings(inner, inner.ctx, block) ELSE At(held, m.ctx)
         ctx    == IF writes THEN inner.ctx ELSE m.ctx
     IN Become(1, Then(LoopItems(own, Peek(m, 0)), LAMBDA items :
          Ok(<<[Pop(m) EXCEPT !.ctx = ctx],
               [k |-> "loop", block |-> block, items |-> items.v, ret |-> <<>>, writes |-> writes,
                ctx |-> ctx, oldCtx |-> m.ctx, key |-> Ins.key, val |-> Ins.val]>>, items.s)))

Looping == result.err = "none" /\ Top.k = "loop"

NextIteration ==
  /\ Looping /\ Top.items # <<>>
  /\ LET item  == Head(Top.items)
         bound == IF Top.writes
                  THEN SetIn(SetIn(s, Top.ctx, Top.key, item.key), Top.ctx, Top.val, item.val)
                  ELSE s
     IN Become(1, Ok(<<[Top EXCEPT !.items = Tail(@)],
                       ResetChild(Top.block, <<item.key, item.val>>, Top.ctx, TRUE)>>, bound))

EndIteration ==
  /\ result.err = "none" /\ Len(acts) > 1 /\ Top.k = "vm" /\ Stopped(Top) /\ Below(1).k = "loop"
  /\ LET v    == IF Top.lastPopped = Unset THEN FrameOutput(Top.frames[1]) ELSE Top.lastPopped
         more == CASE v.t = "control" -> v.items [] IsNull(v) -> <<>> [] OTHER -> <<v>>
         stop == v.t = "control" /\ v.kind = "Break"
     IN Become(2, Ok(<<[Below(1) EXCEPT !.ret = @ \o more,
                                        !.items = IF stop THEN <<>> ELSE @]>>, s))

EndFor ==
  /\ Looping /\ Top.items = <<>>
  /\ LET loop  == Top
         frees == SyncCapturedBindingsFromContext(s, loop.ctx, loop.block)
         slots == SyncFrameBindingsFromContextExcept(Below(1), frees, loop.ctx, loop.block)
         outer == SyncCapturedBindings(slots.v, slots.s, loop.block)
         done  == Ok(outer.v, SyncFreeCapturedBindingsToContext(outer.s, loop.oldCtx, loop.block))
         left  == IF loop.writes THEN done ELSE Ok(Below(1), s)
         ret   == NewArray(left.s, loop.ret)
     IN Become(2, Ok(<<Push([left.v EXCEPT !.ctx = loop.oldCtx], ret.v)>>, ret.s))

-----------------------------------------------------------------------------
Finish ==
  /\ result.err = "none" /\ Len(acts) = 1 /\ Top.k = "vm" /\ Stopped(Top)
  /\ LET r == Rendered(Top, s) IN
     /\ s' = [r.s EXCEPT !.ctx = 1]
     /\ result' = [err |-> r.err, text |-> r.v]
  /\ UNCHANGED <<program, code, acts>>

MainMachine == ResetChild(Closure(0, 1), <<>>, 1, FALSE)
UsePlanned(r) ==
  /\ s' = At(r.s, 1)
  /\ IF r.err = "declined" THEN acts' = <<MainMachine>> /\ UNCHANGED result
     ELSE result' = [err |-> r.err, text |-> r.v] /\ UNCHANGED acts
RenderFast ==
  /\ result.err = "none" /\ Top.k = "fast"
  /\ UsePlanned(RenderFastPlan(code.plan, s))
  /\ UNCHANGED <<program, code>>

Init ==
  /\ program \in Programs
  /\ code = [plan |-> PlanOf(program)] @@ CompileProgram(program)
  /\ s = [scopes |-> <<[vars |-> Context, outer |-> 0]>>, ctx |-> 1, cells |-> <<<<>>>>,
          plans |-> PartialPlans, holes |-> <<>>, calls |-> 0,
          globals |-> [i \in 0..(code.numGlobals - 1) |-> Unset]]
  /\ acts = <<IF code.plan.some THEN [k |-> "fast", ctx |-> 1] ELSE MainMachine>>
  /\ result = [err |-> "none", text |-> <<>>]

Next == \/ PushOperand \/ GetGlobal \/ GetName \/ DiscardTop \/ Operator \/ Data \/ Jump \/ Assign
        \/ MakeClosure \/ WriteOutput \/ Leave
        \/ CallClosure \/ CallHelper \/ CallVmPartial \/ CallNothing \/ StartBlock \/ EndBlock \/ ReturnFromHelper
        \/ StartFor \/ NextIteration \/ EndIteration \/ EndFor \/ Finish
        \/ RenderFast

Spec == Init /\ [][Next]_vars

-----------------------------------------------------------------------------
(* Type invariant: machines and what they wait for alternate on acts, every
   frame, slot and context that is referred to exists.                       *)
TypeOk ==
  /\ result.err \in {"none", "", "unknown", "fail", "panic"}
  /\ \A i \in DOMAIN acts :
       /\ acts[i].k \in (IF i % 2 = 1 THEN {"vm", "fast"} ELSE {"loop", "helper"})
       /\ acts[i].ctx \in 0..Len(s.scopes)
  /\ \A i \in {j \in DOMAIN acts : acts[j].k = "vm"} :
       LET m == acts[i] IN
       /\ m.frames # <<>> /\ m.sp \in 0..Len(m.slots)
       /\ \A j \in DOMAIN m.frames : m.frames[j].ip \in 1..(Len(CodeOf(m.frames[j])) + 1)
  /\ \A c \in DOMAIN s.scopes : s.scopes[c].outer \in 0..(c - 1)

(* The compiler and the machine keep the operand stack between them: whatever
   path a template takes, an instruction finds its operands above the locals of
   its frame, and a frame that ends leaves none of its own behind.           *)
OperandsAvailable ==
  Running => /\ StackBase(Top) + Operands(Ins) <= Top.sp
             /\ Ins.op \in {"Return", "Break", "Continue"} => StackBase(Top) = Top.sp

(* Why every render ends: no frame executes an instruction of its code twice (the
   compiler has no backward jump, a loop is a fresh machine per item), and a call
   or a loop that returns resumes its caller behind the instruction it was at. *)
Advances ==
  [][result'.err = "none" => \A i \in {j \in DOMAIN acts \cap DOMAIN acts' : acts[j].k = "vm"} :
       LET now == acts[i].frames   then == acts'[i].frames
       IN \A j \in DOMAIN now \cap DOMAIN then :
            /\ then[j].ip >= now[j].ip
            /\ Running /\ i = Len(acts) /\ j = Len(now) => then[j].ip > now[j].ip
    ]_vars
=============================================================================
