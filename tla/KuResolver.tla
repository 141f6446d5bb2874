------------------------------ MODULE KuResolver ------------------------------
(***************************************************************************)
(* Name resolution (kuai-sema/src/resolver.rs, symbol.rs): a walk over the *)
(* statements of a module that defines symbols in a stack of scopes and    *)
(* reports the uses of a name no scope defines and the definitions of a    *)
(* name its own scope defines already.                                     *)
(***************************************************************************)
EXTENDS KuSyntax

(***************************************************************************)
(* scopes is the chain from scope_stack to the global scope, innermost     *)
(* first; a scope maps the names it defines to the kind of their symbol.   *)
(* diags is the list of diagnostics: what is wrong and with which name.    *)
(***************************************************************************)
NewScope == [n \in {} |-> "Variable"]
NewResolver(global) == [scopes |-> <<global>>, diags |-> <<>>]

Report(r, what, name) == [r EXCEPT !.diags = Append(@, [what |-> what, name |-> name])]
PushScope(r) == [r EXCEPT !.scopes = <<NewScope>> \o @]
PopScope(r)  == [r EXCEPT !.scopes = Tail(@)]

\* Scope::resolve: the scope itself, then its parents.
IsDefined(r, name) == \E i \in DOMAIN r.scopes : name \in DOMAIN r.scopes[i]

\* Mutant of Define: the table is written before the old symbol is looked at.
DefineOver(r, name, kind) ==
  LET q == [r EXCEPT !.scopes[1] = [n \in DOMAIN @ \cup {name} |-> IF n = name THEN kind ELSE @[n]]]
  IN  IF name \in DOMAIN Head(r.scopes) THEN Report(q, "redefined", name) ELSE q

\* Scope::define and the callers' report: the first definition stays.
Define(r, name, kind) ==
  IF name \in DOMAIN Head(r.scopes) THEN Report(r, "redefined", name)
  ELSE [r EXCEPT !.scopes[1] = [n \in DOMAIN @ \cup {name} |-> IF n = name THEN kind ELSE @[n]]]

Use(r, name) == IF IsDefined(r, name) THEN r ELSE Report(r, "undefined", name)

RECURSIVE ResolveExpr(_, _), ResolveType(_, _), ResolveStmt(_, _)

ResolveExprs(r, es)  == FoldLeft(LAMBDA acc, e : ResolveExpr(acc, e), r, es)
ResolveTypes(r, ts)  == FoldLeft(LAMBDA acc, t : ResolveType(acc, t), r, ts)
ResolveBlock(r, ss)  == FoldLeft(LAMBDA acc, s : ResolveStmt(acc, s), r, ss)

\* The name of a member, of a namespace's member or of an argument is not looked
\* up, and an attribute given as an argument is not entered.
ResolveArgument(r, a) == IF a.k = "AttributeArg" THEN r ELSE ResolveExpr(r, a.value)

ResolveExpr(r, e) ==
  CASE e.k = "Variable"      -> Use(r, e.id)
    [] e.k = "Binary"        -> ResolveExpr(ResolveExpr(r, e.left), e.right)
    [] e.k \in {"MemberAccess", "NamespaceAccess"} -> ResolveExpr(r, e.target)
    [] e.k = "Call"          -> FoldLeft(ResolveArgument, ResolveTypes(ResolveExpr(r, e.func), e.generics), e.args)
    [] e.k = "Index"         -> ResolveExprs(ResolveExpr(r, e.target), e.indices)
    [] e.k = "VectorLiteral" -> ResolveExprs(r, e.elements)
    [] e.k \in {"Literal", "Error"} -> r

ResolveType(r, t) ==
  CASE t.k = "NamedType" -> ResolveTypes(IF t.name \in PrimitiveTypes THEN r ELSE Use(r, t.name), t.generics)
    [] t.k = "Tensor"    -> ResolveExprs(ResolveType(r, t.base), t.shape)
    [] t.k \in {"Primitive", "ErrorType"} -> r

ResolveDim(r, d) == Define(ResolveExprs(ResolveExprs(r, d.bound), d.value), d.name, "Dimension")

\* A parameter is visible to its own type and to those after it; the generic
\* parameters of a function or a struct are not defined at all.
ResolveParam(r, p) == ResolveType(Define(r, p.name, "Param"), p.type)

ResolveFunc(r, f) ==
  LET inner == PushScope(Define(r, f.proto.name, "Function"))
      proto == ResolveTypes(FoldLeft(ResolveParam, inner, f.proto.params), f.proto.return)
  IN  PopScope(ResolveBlock(proto, f.body))

ResolveStruct(r, s) ==
  ResolveTypes(Define(r, s.name, "Struct"), [i \in DOMAIN s.fields |-> s.fields[i].type])

\* The loop variable is defined before the range is resolved.
ResolveFor(r, s) ==
  LET inner == Define(PushScope(r), s.var, "Variable")
      range == ResolveExprs(inner, <<s.range.start, s.range.end>> \o s.range.step)
  IN  PopScope(ResolveBlock(range, s.body))

ResolveElse(r, e) ==
  IF e.k = "ElseIf" THEN ResolveStmt(r, e.stmt) ELSE PopScope(ResolveBlock(PushScope(r), e.block))

\* Mutant of ResolveIf: the block of an if has no scope of its own.
ResolveIfInPlace(r, s) ==
  FoldLeft(ResolveElse, ResolveBlock(ResolveExpr(r, s.condition), s.then), s.else)

ResolveIf(r, s) ==
  LET then == PopScope(ResolveBlock(PushScope(ResolveExpr(r, s.condition)), s.then))
  IN  FoldLeft(ResolveElse, then, s.else)

ResolveStmt(r, s) ==
  CASE s.k = "DimStmt"    -> FoldLeft(ResolveDim, r, s.dims)
    [] s.k = "VarDecl"    -> Define(ResolveExprs(ResolveTypes(r, s.type), s.init), s.name, "Variable")
    [] s.k = "Function"   -> ResolveFunc(r, s)
    [] s.k = "Struct"     -> ResolveStruct(r, s)
    [] s.k = "Assignment" -> ResolveExpr(ResolveExpr(r, s.target), s.value)
    [] s.k = "For"        -> ResolveFor(r, s)
    [] s.k = "If"         -> ResolveIf(r, s)
    [] s.k \in {"Return", "ExprStmt"} -> ResolveExpr(r, s.value)
    [] s.k \in {"Jump", "Import", "ErrorStmt"} -> r

Resolve(global, stmts) == ResolveBlock(NewResolver(global), stmts)

-----------------------------------------------------------------------------
(***************************************************************************)
(* Lexical scoping without a stack.  The definitions and the uses of a     *)
(* module, in the order the language gives them effect, each with the path *)
(* of the block it is in.  A use sees the earlier definitions of the       *)
(* blocks around it.                                                       *)
(***************************************************************************)
Event(what, name, block) == [what |-> what, name |-> name, block |-> block]

RECURSIVE NamesIn(_), Events(_, _, _)
NamesOf(nodes) == FlattenSeq([i \in DOMAIN nodes |-> NamesIn(nodes[i])])
NamesIn(n) ==
  CASE n.k = "Variable"      -> <<n.id>>
    [] n.k = "Binary"        -> NamesOf(<<n.left, n.right>>)
    [] n.k \in {"MemberAccess", "NamespaceAccess"} -> NamesIn(n.target)
    [] n.k = "Call"          -> NamesOf(<<n.func>> \o n.generics \o n.args)
    [] n.k = "Index"         -> NamesOf(<<n.target>> \o n.indices)
    [] n.k = "VectorLiteral" -> NamesOf(n.elements)
    [] n.k \in {"Positional", "Named"} -> NamesIn(n.value)
    [] n.k = "NamedType"     -> <<n.name>> \o NamesOf(n.generics)
    [] n.k = "Tensor"        -> NamesOf(<<n.base>> \o n.shape)
    [] OTHER                 -> <<>>

UsesOf(names, block) == [i \in DOMAIN names |-> Event("use", names[i], block)]
Uses(nodes, block) == UsesOf(NamesOf(nodes), block)
Declares(name, block) == <<Event("define", name, block)>>
EventsOf(stmts, block) == FlattenSeq([i \in DOMAIN stmts |-> Events(stmts[i], block, Append(block, i))])

\* The events of a statement of a block; inner is the path of the blocks inside.
Events(s, block, inner) ==
  CASE s.k = "DimStmt"  -> FlattenSeq([i \in DOMAIN s.dims |->
                             Uses(s.dims[i].bound \o s.dims[i].value, block) \o Declares(s.dims[i].name, block)])
    [] s.k = "VarDecl"  -> Uses(s.type \o s.init, block) \o Declares(s.name, block)
    [] s.k = "Function" -> Declares(s.proto.name, block)
                             \o FlattenSeq([i \in DOMAIN s.proto.params |->
                                  Declares(s.proto.params[i].name, inner) \o Uses(<<s.proto.params[i].type>>, inner)])
                             \o Uses(s.proto.return, inner) \o EventsOf(s.body, inner)
    [] s.k = "Struct"   -> Declares(s.name, block)
                             \o Uses([i \in DOMAIN s.fields |-> s.fields[i].type], block)
    [] s.k = "For"      -> Declares(s.var, inner) \o Uses(<<s.range.start, s.range.end>> \o s.range.step, inner)
                             \o EventsOf(s.body, inner)
    [] s.k = "If"       -> Uses(<<s.condition>>, block) \o EventsOf(s.then, Append(inner, 1))
                             \o FlattenSeq([i \in DOMAIN s.else |->
                                  IF s.else[i].k = "ElseIf" THEN Events(s.else[i].stmt, block, Append(inner, 2))
                                  ELSE EventsOf(s.else[i].block, Append(inner, 2))])
    [] s.k = "Assignment" -> Uses(<<s.target, s.value>>, block)
    [] s.k \in {"Return", "ExprStmt"} -> Uses(<<s.value>>, block)
    [] OTHER -> <<>>

\* The name of an event is defined by an earlier one in one of the blocks, or is
\* known before the first.
DefinedBefore(evs, i, known, blocks) ==
  \/ <<>> \in blocks /\ evs[i].name \in known
  \/ \E j \in 1..(i - 1) :
       evs[j].what = "define" /\ evs[j].name = evs[i].name /\ evs[j].block \in blocks

BlocksAround(block) == {SubSeq(block, 1, n) : n \in 0..Len(block)}

Wrong(evs, i, known) ==
  CASE evs[i].what = "use"    -> ~DefinedBefore(evs, i, known, BlocksAround(evs[i].block))
    [] evs[i].what = "define" -> DefinedBefore(evs, i, known, {evs[i].block})

WrongEvents(evs, known) ==
  FlattenSeq([i \in DOMAIN evs |->
    IF ~Wrong(evs, i, known) THEN <<>>
    ELSE <<[what |-> IF evs[i].what = "use" THEN "undefined" ELSE "redefined", name |-> evs[i].name]>>])

\* The diagnostics lexical scoping asks for, when known are the names that the
\* outermost block defines already, and the names it defines in the end.
ScopingErrors(known, stmts) == WrongEvents(EventsOf(stmts, <<>>), known)

Declared(evs) == {e.name : e \in {e \in ToSet(evs) : e.what = "define" /\ e.block = <<>>}}
Defined(known, stmts) == known \cup Declared(EventsOf(stmts, <<>>))
=============================================================================
