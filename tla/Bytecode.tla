------------------------------ MODULE Bytecode ------------------------------
(* The bytecode compiler (src/vm/compiler): a pure translation of a template
   into instructions.  A program position is the number of an instruction, not
   of a byte; an instruction is a record with its opcode and operands, `to`
   the target of a jump.  The compiler's state c has
     code   one instruction sequence per open compilation scope, innermost last;
     names  the local names recorded in each of them;
     tabs   all symbol tables made so far, tab the current one;
     fns    the compiled functions (the constants that are code);
     soft, suppress, blockReturn   softNames, suppressOutput and
                                   topLevelBlockReturnAsValue.               *)
EXTENDS Language

Op(op)            == [op |-> op]
OpName(op, x)     == [op |-> op, name |-> x]
OpIndexed(op, i)  == [op |-> op, i |-> i]
OpConstant(v)     == [op |-> "Constant", v |-> v]
OpJump(op)        == [op |-> op, to |-> 0]

-----------------------------------------------------------------------------
(* Symbol tables.  The block of an if has an inline table: its names take slots
   of the enclosing function, or, at the root, of the template.              *)
Symbol(x, scope, i) == [name |-> x, scope |-> scope, i |-> i]
NoSymbol == Symbol("", "none", 0)
SymbolTable(outer, inline) ==
  [outer |-> outer, inline |-> inline, store |-> <<>>, numDefinitions |-> 0,
   numInlineLocals |-> 0, inlineLocalSlots |-> <<>>, free |-> <<>>]

Store(c, t, x, sym) == [c EXCEPT !.tabs[t].store = (x :> sym) @@ @]

DefineFree(c, t, original) ==
  LET i   == Len(c.tabs[t].free)
      sym == Symbol(original.name, "free", i)
  IN [sym |-> sym,
      c   |-> Store([c EXCEPT !.tabs[t].free = Append(@, original)], t, original.name, sym)]

RECURSIVE Resolve(_, _, _), DefinitionOwner(_, _), ResolvedBefore(_, _, _, _)
Resolve(c, t, x) ==
  LET tab == c.tabs[t] IN
  IF x \in DOMAIN tab.store THEN [sym |-> tab.store[x], c |-> c]
  ELSE IF tab.outer = 0 THEN [sym |-> NoSymbol, c |-> c]
  ELSE LET r == Resolve(c, tab.outer, x) IN
       IF tab.inline \/ r.sym.scope \in {"none", "global"} THEN r
       ELSE DefineFree(r.c, t, r.sym)

DefinitionOwner(c, t) == IF c.tabs[t].inline THEN DefinitionOwner(c, c.tabs[t].outer) ELSE t
ResolvedBefore(c, t, stop, x) ==
  t # stop /\ (x \in DOMAIN c.tabs[t].store \/ ResolvedBefore(c, c.tabs[t].outer, stop, x))

(* defineRootInlineLocal: a name that no open block defines reuses the slot it
   had in an earlier block.                                                  *)
DefineRootInlineLocal(c, root, x) ==
  LET r == c.tabs[root] IN
  IF x \in DOMAIN r.inlineLocalSlots /\ ~ResolvedBefore(c, c.tab, root, x)
  THEN Store(c, c.tab, x, Symbol(x, "local", r.inlineLocalSlots[x]))
  ELSE Store([c EXCEPT !.tabs[root].numInlineLocals = @ + 1,
                       !.tabs[root].inlineLocalSlots = @ @@ (x :> r.numInlineLocals)],
             c.tab, x, Symbol(x, "local", r.numInlineLocals))

Define(c, x) ==
  LET owner == DefinitionOwner(c, c.tab)
      scope == IF c.tabs[c.tab].outer = 0 THEN "global" ELSE "local"
  IN IF c.tabs[c.tab].inline /\ c.tabs[owner].outer = 0 THEN DefineRootInlineLocal(c, owner, x)
     ELSE Store([c EXCEPT !.tabs[owner].numDefinitions = @ + 1], c.tab, x,
                Symbol(x, scope, c.tabs[owner].numDefinitions))

-----------------------------------------------------------------------------
(* Emitting. *)
Code(c)      == c.code[Len(c.code)]
ScopeIndex(c) == Len(c.code) - 1
Emit(c, ins) == [c EXCEPT !.code[Len(c.code)] = Append(@, ins)]
Here(c)      == Len(Code(c)) + 1
ChangeOperandEarly(c, pos, to) == [c EXCEPT !.code[Len(c.code)][pos].to = pos]
ChangeOperand(c, pos, to) == [c EXCEPT !.code[Len(c.code)][pos].to = to]
(* A jump that is emitted before its target is known, and the target. *)
Jumping(c, op, then(_, _)) == then(Emit(c, OpJump(op)), Here(c))
Land(c, pos)    == ChangeOperand(c, pos, Here(c))
LandAll(c, ats) == FoldLeft(Land, c, ats)
LastInstructionIs(c, ops) == Code(c) # <<>> /\ Last(Code(c)).op \in ops
ReplaceLast(c, ins) == [c EXCEPT !.code[Len(c.code)][Len(Code(c))] = ins]
RemoveLastPop(c)    == [c EXCEPT !.code[Len(c.code)] = Front(@)]

RecordLocalName(c, x) ==
  LET sym == c.tabs[c.tab].store[x] IN
  IF sym.scope # "local" THEN c
  ELSE [c EXCEPT !.names[Len(c.code)] = (sym.i :> x) @@ @]

LoadSymbol(c, sym) ==
  CASE sym.scope = "global"   -> Emit(c, OpIndexed("GetGlobal", sym.i))
    [] sym.scope = "local"    -> Emit(c, OpIndexed("GetLocal", sym.i))
    [] sym.scope = "free"     -> Emit(c, OpIndexed("GetFree", sym.i))
    [] sym.scope = "function" -> Emit(c, Op("CurrentClosure"))

(* Constant text that follows constant text is one instruction. *)
EmitWriteHTML(c, x) ==
  CASE LastInstructionIs(c, {"WriteHTML"}) ->
         ReplaceLast(c, [op |-> "WriteHTML", v |-> Html(Last(Code(c)).v.text \o x)])
    [] LastInstructionIs(c, {"WriteString"}) ->
         ReplaceLast(c, [op |-> "WriteHTML", v |-> Html(HTMLEscaper(Last(Code(c)).v.text) \o x)])
    [] OTHER -> Emit(c, [op |-> "WriteHTML", v |-> Html(x)])

EmitWriteString(c, x) ==
  CASE LastInstructionIs(c, {"WriteString"}) ->
         ReplaceLast(c, [op |-> "WriteString", v |-> Str(Last(Code(c)).v.text \o x)])
    [] LastInstructionIs(c, {"WriteHTML"}) ->
         ReplaceLast(c, [op |-> "WriteHTML", v |-> Html(Last(Code(c)).v.text \o HTMLEscaper(x))])
    [] OTHER -> Emit(c, [op |-> "WriteString", v |-> Str(x)])

-----------------------------------------------------------------------------
(* optimizeScope: a value and the write of it become one instruction, unless a
   jump leads to the write; a null and the pop of it become the pop.  Jumps
   move with the instruction they lead to, those to a removed pop to the pop
   that replaces it.                                                         *)
JumpTargets(code) == {code[i].to : i \in {j \in DOMAIN code :
                        code[j].op \in {"Jump", "JumpNotTruthy", "GetNameOrJumpMissing"}}}
WriteReplacement == [Constant |-> "WriteConstant", GetName |-> "WriteName",
                     GetNameOrNull |-> "WriteNameOrNull", GetLocal |-> "WriteLocal",
                     GetGlobal |-> "WriteGlobal", Call |-> "WriteCall"]

Fused(code, i) ==
  /\ i < Len(code)
  /\ \/ code[i].op = "Null" /\ code[i + 1].op = "Pop"
     \/ /\ code[i + 1].op = "Write" /\ (i + 1) \notin JumpTargets(code)
        /\ code[i].op \in DOMAIN WriteReplacement

Replacement(code, i) ==
  IF code[i].op = "Null" THEN Op("Pop")
  ELSE [code[i] EXCEPT !.op = WriteReplacement[@]]

OptimizeScope(code) ==
  LET remove == {i \in DOMAIN code : i > 1 /\ Fused(code, i - 1)}
      kept   == SelectSeq([i \in DOMAIN code |-> i], LAMBDA i : i \notin remove)
      mapTarget(p) == (IF p \in remove THEN p - 1 ELSE p) - Cardinality({r \in remove : r < p})
      moved(i) == IF Fused(code, i) THEN Replacement(code, i)
                  ELSE IF "to" \in DOMAIN code[i] THEN [code[i] EXCEPT !.to = mapTarget(@)]
                  ELSE code[i]
  IN [n \in DOMAIN kept |-> moved(kept[n])]

-----------------------------------------------------------------------------
(* Compilation scopes. *)
EnterScope(c) ==
  [c EXCEPT !.code = Append(@, <<>>), !.names = Append(@, <<>>),
            !.tabs = Append(@, SymbolTable(c.tab, FALSE)), !.tab = Len(c.tabs) + 1]

(* Close the innermost scope: its function becomes a constant, the symbols it
   captured are loaded, and `closure` makes the instruction that uses it.    *)
LeaveScope(c, numParameters, closure(_, _)) ==
  LET tab  == c.tabs[c.tab]
      fn   == [code |-> OptimizeScope(Code(c)), names |-> Last(c.names),
               numLocals |-> tab.numDefinitions, numParameters |-> numParameters,
               captured |-> tab.free]
      left == [c EXCEPT !.code = Front(@), !.names = Front(@), !.tab = tab.outer,
                        !.fns = Append(@, fn)]
  IN Emit(FoldLeft(LoadSymbol, left, tab.free), closure(Len(left.fns), Len(tab.free)))

DefineLocals(c, xs) == FoldLeft(LAMBDA d, x : RecordLocalName(Define(d, x), x), c, xs)

RECURSIVE CompileExp(_, _), CompileStatement(_, _), CompileArms(_, _, _, _)
CompileBlock(c, stmts) == FoldLeft(CompileStatement, c, stmts)

CompileSoft(c, x) == [CompileExp([c EXCEPT !.soft = @ + 1], x) EXCEPT !.soft = c.soft]
CompileHard(c, x) == [CompileExp([c EXCEPT !.soft = 0], x) EXCEPT !.soft = c.soft]
CompileCallArgument(c, x) ==
  [CompileExp([c EXCEPT !.soft = IF @ > 0 THEN @ + 1 ELSE 0], x) EXCEPT !.soft = c.soft]
CompileAll(c, xs) == FoldLeft(CompileExp, c, xs)
CompileArguments(c, xs) == FoldLeft(CompileCallArgument, c, xs)

(* The block of a for (params are its key and value) or of a helper call. *)
EndScope(c) == IF LastInstructionIs(c, {"ReturnValue"}) THEN c ELSE Emit(c, Op("Return"))
CompileBlockConstant(c, stmts, params, closure(_, _)) ==
  LeaveScope(EndScope(CompileBlock(DefineLocals(EnterScope(c), params), stmts)), Len(params), closure)

CompileOutputBlockConstant(c, stmts, closure(_, _)) ==
  [CompileBlockConstant([c EXCEPT !.suppress = 0], stmts, <<>>, closure)
     EXCEPT !.suppress = c.suppress]

(* A function knows its own name; its last expression is what it returns. *)
DefineFunctionName(c, name) ==
  IF name = "" THEN c ELSE Store(c, c.tab, name, Symbol(name, "function", 0))
ReturnLastExpression(c) ==
  IF LastInstructionIs(c, {"Pop"}) THEN ReplaceLast(c, Op("ReturnValue")) ELSE c
CompileFunctionLiteral(c, x, name) ==
  [LeaveScope(EndScope(ReturnLastExpression(CompileBlock(DefineLocals(
       DefineFunctionName([EnterScope(c) EXCEPT !.suppress = 0], name), x.params), x.body))),
     Len(x.params), LAMBDA fn, n : [op |-> "Closure", fn |-> fn, n |-> n])
   EXCEPT !.suppress = c.suppress]

-----------------------------------------------------------------------------
(* Expressions. *)
CompileIdentifier(c, x) ==
  LET r == Resolve(c, c.tab, x.name) IN
  CASE r.sym.scope # "none" -> LoadSymbol(r.c, r.sym)
    [] x.name = "nil"       -> Emit(r.c, Op("Null"))
    [] OTHER -> Emit(r.c, OpName(IF c.soft > 0 THEN "GetNameOrNull" ELSE "GetName", x.name))

(* < and <= are > and >= with the operands, and their evaluation, exchanged. *)
CompileOperator(c, x) ==
  CASE x.op \in {"<", "<="} -> Emit(CompileAll(c, <<x.r, x.l>>), Op(IF x.op = "<" THEN ">" ELSE ">="))
    [] x.op \in {"==", "!="} -> Emit(FoldLeft(CompileSoft, c, <<x.l, x.r>>), Op(x.op))
    [] OTHER                -> Emit(CompileAll(c, <<x.l, x.r>>), Op(x.op))

Booleanize(c) == Emit(Emit(c, Op("Bang")), Op("Bang"))
CompileLogicalAnd(c, x) ==
  Jumping(CompileSoft(c, x.l), "JumpNotTruthy", LAMBDA a, skip :
  Jumping(Booleanize(CompileSoft(a, x.r)), "Jump", LAMBDA b, end :
  Land(Emit(Land(b, skip), OpConstant(Bool(FALSE))), end)))
CompileLogicalOr(c, x) ==
  Jumping(CompileSoft(c, x.l), "JumpNotTruthy", LAMBDA a, skip :
  Jumping(Emit(a, OpConstant(Bool(TRUE))), "Jump", LAMBDA b, end :
  Land(Booleanize(CompileSoft(Land(b, skip), x.r)), end)))

(* Every branch of an if leaves one value. *)
NoValue == {"SetGlobal", "SetLocal", "AssignName", "Write", "WriteConstant", "WriteName",
            "WriteNameOrNull", "WriteLocal", "WriteGlobal", "WriteString", "WriteHTML",
            "WriteNameProperty", "WriteLocalProperty", "WriteGlobalProperty", "WriteCall",
            "WriteNameCall", "Hole", "Break", "Continue"}
EnsureBranchValueOfText(c, start) ==
  CASE Here(c) = start                  -> Emit(c, Op("Null"))
    [] LastInstructionIs(c, {"Pop"})    -> RemoveLastPop(c)
    [] OTHER                            -> c
EnsureBranchValue(c, start) ==
  CASE Here(c) = start                  -> Emit(c, Op("Null"))
    [] LastInstructionIs(c, {"Pop"})    -> RemoveLastPop(c)
    [] LastInstructionIs(c, NoValue)    -> Emit(c, Op("Null"))
    [] OTHER                            -> c

EnterBlock(c) ==
  [c EXCEPT !.tabs = Append(@, SymbolTable(c.tab, TRUE)), !.tab = Len(c.tabs) + 1,
            !.blockReturn = @ + (IF ScopeIndex(c) = 0 THEN 1 ELSE 0)]
CompileScopedBlock(c, stmts) ==
  EnsureBranchValue([CompileBlock(EnterBlock(c), stmts)
                       EXCEPT !.tab = c.tab, !.blockReturn = c.blockReturn], Here(c))

CompileArms(c, arms, orElse, ends) ==
  IF arms = <<>>
  THEN LandAll(IF orElse.some THEN CompileScopedBlock(c, orElse.body) ELSE Emit(c, Op("Null")), ends)
  ELSE Jumping(CompileSoft(c, Head(arms).c), "JumpNotTruthy", LAMBDA a, skip :
       Jumping(CompileScopedBlock(a, Head(arms).body), "Jump", LAMBDA b, end :
       CompileArms(Land(b, skip), Tail(arms), orElse, Append(ends, end))))

AssignResolved(r, x) ==
  CASE r.sym.scope = "global" -> Emit(Emit(r.c, OpIndexed("SetGlobal", r.sym.i)), Op("Null"))
    [] r.sym.scope = "local"  -> Emit(Emit(r.c, OpIndexed("SetLocal", r.sym.i)), Op("Null"))
    [] OTHER                  -> Emit(r.c, OpName("AssignName", x))
ResolveHere(c, x) == Resolve(c, c.tab, x)
CompileAssign(c, x) == AssignResolved(ResolveHere(CompileExp(c, x.x), x.name), x.name)

CompileHash(c, x) ==
  Emit(FoldLeft(LAMBDA d, p : CompileExp(Emit(d, OpConstant(Str(<<p.key>>))), p.x), c, x.pairs),
       [op |-> "Hash", n |-> 2 * Len(x.pairs)])

CompileIndex(c, x) ==
  IF x.k = "index" THEN Emit(CompileAll(c, <<x.left, x.index>>), Op("Index"))
  ELSE Emit(CompileAll(c, <<x.left, x.index, x.x>>), Op("SetIndex"))

CompileCallWithFunction(c, x) ==
  IF ~x.hasBlock THEN Emit(CompileArguments(c, x.args), [op |-> "Call", n |-> Len(x.args)])
  ELSE CompileOutputBlockConstant(CompileArguments(c, x.args), x.block,
         LAMBDA fn, n : [op |-> "CallBlock", n |-> Len(x.args), fn |-> fn, free |-> n])

(* In a condition, a call of a name nobody declared is null, arguments unread. *)
ShouldGuardMissingCall(c, x) ==
  /\ c.soft > 0 /\ x.f.k = "id" /\ x.f.name # "nil"
  /\ Resolve(c, c.tab, x.f.name).sym.scope = "none"
CompileCall(c, x) ==
  IF ~ShouldGuardMissingCall(c, x) THEN CompileCallWithFunction(CompileHard(c, x.f), x)
  ELSE Jumping(CompileCallWithFunction(Emit(c, [op |-> "GetNameOrJumpMissing", name |-> x.f.name,
                                                to |-> 0]), x), "Jump", LAMBDA b, end :
       Land(Emit(Land(b, Here(c)), Op("Null")), end))

CompileFor(c, x) ==
  CompileBlockConstant(CompileExp(c, x.iter), x.body, <<x.key, x.val>>,
    LAMBDA fn, n : [op |-> "For", fn |-> fn, free |-> n, key |-> x.key, val |-> x.val])

CompileExp(c, x) ==
  CASE x.k = "html"  -> Emit(c, OpConstant(Html(x.text)))
    [] x.k = "str"   -> Emit(c, OpConstant(Str(x.text)))
    [] x.k = "int"   -> Emit(c, OpConstant(Num(x.n)))
    [] x.k = "bool"  -> Emit(c, [op |-> "Bool", v |-> Bool(x.b)])
    [] x.k = "infix" -> IF x.op = "&&" THEN CompileLogicalAnd(c, x)
                        ELSE IF x.op = "||" THEN CompileLogicalOr(c, x)
                        ELSE CompileOperator(c, x)
    [] x.k = "prefix" -> IF x.op = "!" THEN Emit(CompileSoft(c, x.x), Op("Bang"))
                         ELSE Emit(CompileExp(c, x.x), Op("Minus"))
    [] x.k = "id"    -> CompileIdentifier(c, x)
    [] x.k = "prop"  -> Emit(CompileExp(c, x.obj), OpName("GetProperty", x.name))
    [] x.k = "arr"   -> Emit(CompileAll(c, x.els), [op |-> "Array", n |-> Len(x.els)])
    [] x.k = "hash"  -> CompileHash(c, x)
    [] x.k \in {"index", "setindex"} -> CompileIndex(c, x)
    [] x.k = "assign" -> CompileAssign(c, x)
    [] x.k = "fn"    -> CompileFunctionLiteral(c, x, "")
    [] x.k = "call"  -> CompileCall(c, x)
    [] x.k = "for"   -> CompileFor(c, x)
    [] x.k = "if"    -> CompileArms(c, x.arms, x.orElse, <<>>)
    [] x.k = "break" -> Emit(c, Op("Break"))
    [] x.k = "continue" -> Emit(c, Op("Continue"))

-----------------------------------------------------------------------------
(* Statements. *)
RECURSIVE HasLoopControl(_)
HasLoopControl(stmts) ==
  \E i \in DOMAIN stmts : stmts[i].s = "expr" /\
    LET x == stmts[i].x IN
    \/ x.k \in {"break", "continue"}
    \/ x.k = "if" /\ (\/ \E j \in DOMAIN x.arms : HasLoopControl(x.arms[j].body)
                      \/ HasLoopControl(x.orElse.body))

CompileExpressionStatement(c, x) ==
  CASE x.k = "html" -> IF c.suppress > 0 THEN c ELSE EmitWriteHTML(c, x.text)
    [] x.k \in {"break", "continue"} -> Emit(c, Op(IF x.k = "break" THEN "Break" ELSE "Continue"))
    [] OTHER ->
         LET loud == HasLoopControl(<<[s |-> "expr", x |-> x]>>)
         IN Emit([CompileExp([c EXCEPT !.suppress = @ + (IF loud THEN 0 ELSE 1)], x)
                    EXCEPT !.suppress = c.suppress], Op("Pop"))

(* <%= x %>: some expressions have an instruction that writes them. *)
CompileWriteIdentifier(c, x) ==
  LET r == Resolve(c, c.tab, x.name) IN
  CASE x.name = "nil"         -> c
    [] r.sym.scope = "none"   -> Emit(r.c, OpName("WriteName", x.name))
    [] r.sym.scope = "global" -> Emit(r.c, OpIndexed("WriteGlobal", r.sym.i))
    [] r.sym.scope = "local"  -> Emit(r.c, OpIndexed("WriteLocal", r.sym.i))
    [] OTHER                  -> Emit(CompileIdentifier(r.c, x), Op("Write"))

WriteProperty == [none |-> "WriteNameProperty", global |-> "WriteGlobalProperty",
                  local |-> "WriteLocalProperty"]
CompileWriteProperty(c, x) ==
  LET r == Resolve(c, c.tab, x.obj.name) IN
  IF r.sym.scope \in DOMAIN WriteProperty
  THEN Emit(r.c, [op |-> WriteProperty[r.sym.scope], base |-> x.obj.name, i |-> r.sym.i,
                  name |-> x.name])
  ELSE Emit(Emit(CompileIdentifier(r.c, x.obj), OpName("GetProperty", x.name)), Op("Write"))

WritesNameCall(c, x) ==
  x.f.k = "id" /\ ~x.hasBlock /\ Resolve(c, c.tab, x.f.name).sym.scope = "none"

CompileWrite(c, x) ==
  CASE x.k = "id"   -> CompileWriteIdentifier(c, x)
    [] x.k = "prop" -> CompileWriteProperty(c, x)
    [] x.k = "str"  -> EmitWriteString(c, x.text)
    [] x.k = "html" -> EmitWriteHTML(c, x.text)
    [] x.k = "call" /\ WritesNameCall(c, x) ->
         Emit(CompileArguments(c, x.args),
              [op |-> "WriteNameCall", name |-> x.f.name, n |-> Len(x.args)])
    [] OTHER        -> Emit(CompileExp(c, x), Op("Write"))

CompileReturn(c, x) ==
  LET returns == x.s = "return" /\ (ScopeIndex(c) > 0 \/ (c.blockReturn = 0 /\ c.suppress = 0))
  IN Emit(CompileExp(c, x.x), Op(IF returns THEN "ReturnValue" ELSE "Pop"))

SetDeclared(c, sym) ==
  Emit(c, OpIndexed(IF sym.scope = "global" THEN "SetGlobal" ELSE "SetLocal", sym.i))
SetHere(c, x) == SetDeclared(c, c.tabs[c.tab].store[x])
RecordGlobalName(c, x) ==
  IF c.tabs[c.tab].store[x].scope = "global"
  THEN [c EXCEPT !.globalNames = (c.tabs[c.tab].store[x].i :> x) @@ @] ELSE c
Declare(c, x) == RecordGlobalName(DefineLocals(c, <<x>>), x)
CompileLet(c, x) ==
  IF x.x.k = "fn"
  THEN SetHere(CompileFunctionLiteral(Declare(c, x.name), x.x, x.name), x.name)
  ELSE SetHere(Declare(CompileExp(c, x.x), x.name), x.name)

CompileStatement(c, x) ==
  CASE x.s = "expr" -> CompileExpressionStatement(c, x.x)
    [] x.s = "let"  -> CompileLet(c, x)
    [] x.s = "hole" -> Emit(c, OpName("Hole", x.input))
    [] x.s = "emit" /\ c.suppress = 0 -> CompileWrite(c, x.x)
    [] OTHER        -> CompileReturn(c, x)

NewCompiler ==
  [code |-> <<<<>>>>, names |-> <<<<>>>>, tabs |-> <<SymbolTable(0, FALSE)>>, tab |-> 1,
   fns |-> <<>>, globalNames |-> <<>>, soft |-> 0, suppress |-> 0, blockReturn |-> 0]

(* Bytecode(): the template, optimized, with the constants it refers to. *)
BytecodeOf(c) ==
  [main |-> [code |-> OptimizeScope(Code(c)), names |-> c.names[1],
             numLocals |-> c.tabs[1].numInlineLocals, numParameters |-> 0, captured |-> <<>>],
   fns |-> c.fns, globalNames |-> c.globalNames, numGlobals |-> c.tabs[1].numDefinitions]
CompileProgram(stmts) == BytecodeOf(CompileBlock(NewCompiler, stmts))
=============================================================================
