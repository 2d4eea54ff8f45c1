------------------------------ MODULE Language ------------------------------
(* What the two engines of plush share: the values a template computes with,
   the contexts (chains of scopes) that hold its variables, and the text a
   value writes.  A piece of text is a sequence of atoms; the one conversion
   that the engines perform on text, HTML escaping, acts on the atom "<".

   An engine state s has scopes (the contexts, each with the variables it
   declares and the number of its parent, 0 for a root), ctx (the current
   one), cells (the memory behind slices and maps, which values share), holes
   (the punch-hole markers written so far) and calls (how many of Go's helpers
   were called).                            *)
EXTENDS Numeric, Sequences, SequencesExt, TLC

CONSTANT Partials       \* the application's partials: their names and their statements

Nil         == [t |-> "nil"]
Bool(b)     == [t |-> "bool", b |-> b]
Str(x)      == [t |-> "str", text |-> x]
Html(x)     == [t |-> "html", text |-> x]
Arr(at, n)  == [t |-> "arr", at |-> at, len |-> n]
Map(at)     == [t |-> "map", at |-> at]
Obj(fs)     == [t |-> "obj", fields |-> fs]
Native(f)   == [t |-> "native", name |-> f]
Fn(ps, b)   == [t |-> "fn", params |-> ps, body |-> b]

(* What leaves a block before its end: a return, a break or a continue, with
   the values the block had collected.                                       *)
Exit(kind, items) == [t |-> kind, items |-> items]
IsExit(v) == v.t \in {"return", "break", "continue"}

(* An evaluation ends with a value or an error: "unknown" is the identifier
   error that conditions forgive, "fail" any other, "panic" a Go panic.      *)
Ok(v, s)      == [v |-> v, err |-> "", s |-> s]
Fail(kind, s) == [v |-> Nil, err |-> kind, s |-> s]
OkNumber(v, s) == IF v = NoNumber THEN Fail("fail", s) ELSE Ok(v, s)
Then(r, K(_)) == IF r.err = "" THEN K(r) ELSE r
Forgive(r, kinds) == IF r.err \in kinds THEN [r EXCEPT !.err = ""] ELSE r
Restore(r, s) == [r EXCEPT !.s.ctx = s.ctx]

IsTruthy(v) == /\ v.t # "nil"
               /\ v.t = "bool" => v.b
               /\ v.t \in {"str", "html"} => v.text # <<>>

-----------------------------------------------------------------------------
(* Contexts. *)
New(s) == [s EXCEPT !.scopes = Append(@, [vars |-> <<>>, outer |-> s.ctx]),
                    !.ctx = Len(s.scopes) + 1]

RECURSIVE Holder(_, _, _)
Holder(scopes, c, x) ==
  IF c = 0 \/ x \in DOMAIN scopes[c].vars THEN c
  ELSE Holder(scopes, scopes[c].outer, x)

At(s, c)    == [s EXCEPT !.ctx = c]
Has(s, x)   == Holder(s.scopes, s.ctx, x) # 0
Value(s, x) == LET c == Holder(s.scopes, s.ctx, x)
               IN IF c = 0 THEN Nil ELSE s.scopes[c].vars[x]

(* SymbolTable.Declare ignores nil: the name keeps the value it had. *)
Set(s, x, v) ==
  IF v.t = "nil" THEN s ELSE [s EXCEPT !.scopes[s.ctx].vars = (x :> v) @@ @]

DeclareAll(s, values) ==
  [s EXCEPT !.scopes[s.ctx].vars = [x \in {y \in DOMAIN values : values[y].t # "nil"} |-> values[x]] @@ @]

(* SymbolTable.Assign; only for a name some scope holds. *)
Update(s, x, v) == [s EXCEPT !.scopes[Holder(s.scopes, s.ctx, x)].vars[x] = v]

-----------------------------------------------------------------------------
(* Slices and maps. *)
Alloc(s, cell) == [s EXCEPT !.cells = Append(@, cell)]
Elements(s, a) == SubSeq(s.cells[a.at], 1, a.len)

-----------------------------------------------------------------------------
(* Text. *)
HTMLEscaper(x) == [i \in DOMAIN x |-> IF x[i] = "<" THEN "&lt;" ELSE x[i]]

(* fmt.Sprint, for the values that become operands of a string operator. *)
RECURSIVE Sprint(_, _)
Sprint(s, v) ==
  CASE v.t \in {"str", "html"} -> v.text
    [] IsNumber(v)             -> <<ToString(v.n)>>
    [] v.t = "bool"            -> <<IF v.b THEN "true" ELSE "false">>
    [] v.t = "nil"             -> <<"(nil)">>
    [] v.t = "arr"             -> <<"[">> \o FlattenSeq([i \in 1..v.len |->
                                    Sprint(s, s.cells[v.at][i]) \o <<" ">>]) \o <<"]">>
    [] OTHER                   -> <<v.t>>

(* One value of a hole statement inside a block, and the marker it becomes. *)
Hole(x) == [t |-> "hole", input |-> x]
MarkerName(i) == "hole" \o ToString(i)
Marker(x, start) == [input |-> x, start |-> start]

-----------------------------------------------------------------------------
(* The helpers a template calls are Go functions of its context: how many
   arguments one takes, whether it takes a HelperContext after them.         *)
HelperArity == [echo |-> 1, wrap |-> 0, twice |-> 0, skip |-> 0, boom |-> 0, peek |-> 0,
                touch |-> 0, partial |-> 2]
TakesHelperContext(f) == f \in {"wrap", "twice", "skip", "peek", "touch", "partial"}

(* How often one runs its block, and what it does: B runs the block, s counts the
   calls.                                                                    *)
Runs(f) == CASE f = "wrap" -> 1 [] f = "twice" -> 2 [] OTHER -> 0
RunBlock(f, B(_), s) ==
  FoldLeft(LAMBDA r, i : Then(r, LAMBDA a : Then(B(a.s), LAMBDA b : Ok(a.v \o b.v, b.s))),
           Ok(<<>>, s), [i \in 1..Runs(f) |-> i])
HelperResult(f, args, B(_), s) ==
  LET called == [s EXCEPT !.calls = @ + 1] IN
  CASE f = "echo"  -> Ok(IF args = <<>> THEN Nil ELSE args[1], called)
    [] f = "boom"  -> Fail("fail", called)
    [] f = "skip"  -> Ok(Nil, called)
    [] f = "peek"  -> Ok(Value(s, "x"), called)
    [] f = "touch" -> Ok(Bool(TRUE), Set(called, "n", Num(2)))
    [] OTHER       -> Then(RunBlock(f, B, called), LAMBDA b :
                        Ok(Html(IF f = "wrap" THEN <<"[">> \o b.v \o <<"]">> ELSE b.v), b.s))

-----------------------------------------------------------------------------
(* The helper partial, which plush brings along: the text of a template, computed in
   a child of the caller's context that has the data, then set into a layout if the
   data names one.  Its errors name the partial, so that conditions do not forgive
   them.  Render(name, s) renders the partial in the context of s.            *)
PartialError(r) == IF r.err = "unknown" THEN [r EXCEPT !.err = "fail"] ELSE r
RenderPartial(name, data, Render(_, _), s) ==
  LET child == DeclareAll(New(s), data) IN
  IF name \notin DOMAIN Partials THEN Fail("fail", child)
  ELSE PartialError(Then(Render(name, child), LAMBDA part : Ok(Html(part.v), At(part.s, child.ctx))))

HasLayout(data) == "layout" \in DOMAIN data /\ data["layout"].t = "str"
RenderInLayout(name, data, Render(_, _), s) ==
  Then(RenderPartial(name, data, Render, s), LAMBDA part :
    IF HasLayout(data) THEN RenderPartial(data["layout"].text[1], "yield" :> part.v, Render, part.s)
    ELSE part)

(* A call of it: the name and, if there is one, the map with the data. *)
ArePartialArgs(args) == args # <<>> /\ args[1].t = "str" /\ (Len(args) = 2 => args[2].t = "map")
PartialData(args, s) == IF Len(args) = 2 THEN s.cells[args[2].at] ELSE <<>>
CallPartial(args, Render(_, _), s) ==
  IF ~ArePartialArgs(args) THEN Fail("fail", s)
  ELSE Restore(RenderInLayout(args[1].text[1], PartialData(args, s), Render, s), s)
=============================================================================
