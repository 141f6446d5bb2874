------------------------------- MODULE KuPretty -------------------------------
(***************************************************************************)
(* print_ast (kuai-syntax/src/pretty.rs): the text the parser's tests      *)
(* compare with their snapshots.  The text is the sequence of its words;   *)
(* line breaks, indentation and spaces are left out.                       *)
(***************************************************************************)
EXTENDS KuSyntax

RECURSIVE Doc(_)

\* wrap_list: the items between two brackets, separated by commas.
Separated(items, sep) ==
  FlattenSeq([i \in DOMAIN items |-> IF i = 1 THEN Doc(items[i]) ELSE <<sep>> \o Doc(items[i])])
WrapList(open, items, close) == <<open>> \o Separated(items, ",") \o <<close>>
WrapNonEmpty(open, items, close) == IF items = <<>> THEN <<>> ELSE WrapList(open, items, close)

\* An optional part, introduced by a word of its own.
Optional(word, item) == IF item = <<>> THEN <<>> ELSE <<word>> \o Doc(item[1])

Lines(stmts) == FlattenSeq([i \in DOMAIN stmts |-> <<"\n">> \o Doc(stmts[i])])
BlockDoc(stmts) == <<"(<block>">> \o Lines(stmts) \o <<")">>

ProtoDoc(f) ==
  <<"(<proto>", f.name>> \o WrapNonEmpty("<", f.generics, ">") \o WrapList("(", f.params, ")")
    \o Optional("->", f.return) \o <<")">>

\* Mutant of RangeDoc: the step is not printed.
RangeWithoutStep(r) == <<"(<range>">> \o Doc(r.start) \o <<"..">> \o Doc(r.end) \o <<")">>

RangeDoc(r) == <<"(<range>">> \o Doc(r.start) \o <<"..">> \o Doc(r.end)
                 \o Optional("step", r.step) \o <<")">>

PathDoc(path) ==
  FlattenSeq([i \in DOMAIN path |-> IF i = 1 THEN <<path[i]>> ELSE <<"::", path[i]>>])

ExprDoc(e) ==
  CASE e.k = "Literal"  -> <<"(<literal>", e.v, ")">>
    [] e.k = "Variable" -> <<e.id>>
    [] e.k = "Binary"   -> <<"(", "<", e.op, ">">> \o Doc(e.left) \o <<",">> \o Doc(e.right) \o <<")">>
    [] e.k = "MemberAccess" -> <<"(<dot>">> \o Doc(e.target) \o <<",", e.member, ")">>
    [] e.k = "NamespaceAccess" -> <<"(<::>">> \o Doc(e.target) \o <<",", e.member, ")">>
    [] e.k = "Index"    -> <<"(<index>">> \o Doc(e.target) \o WrapList("[", e.indices, "]") \o <<")">>
    [] e.k = "VectorLiteral" -> WrapList("[", e.elements, "]")
    [] e.k = "Call"     -> <<"(<call>">> \o Doc(e.func) \o WrapNonEmpty("<", e.generics, ">")
                             \o WrapList("(", e.args, ")") \o <<")">>
    [] e.k = "Error"    -> <<"<error>">>

TypeDoc(t) ==
  CASE t.k = "Primitive" -> <<"<", t.type, ">">>
    [] t.k = "NamedType" -> <<"(<type>", t.name>> \o WrapNonEmpty("<", t.generics, ">") \o <<")">>
    [] t.k = "Tensor"    -> <<"(<tensor>">> \o Doc(t.base) \o WrapList("[", t.shape, "]") \o <<")">>
    [] t.k = "ErrorType" -> <<"<type_error>">>

ArgumentDoc(a) ==
  CASE a.k = "Positional"   -> Doc(a.value)
    [] a.k = "Named"        -> <<a.name, "=">> \o Doc(a.value)
    [] a.k = "AttributeArg" -> Doc(a.attribute)
    [] a.k = "Attribute"    -> <<a.name>> \o WrapNonEmpty("(", a.args, ")")

ParamDoc(n) ==
  CASE n.k = "Param"        -> <<"(<param>", n.name, ":">> \o Doc(n.type) \o <<")">>
    [] n.k = "GenericParam" -> <<"(<generic>", n.name>> \o Optional(":", n.bound)
                                 \o Optional("=", n.default) \o <<")">>

PartDoc(n) ==
  CASE n.k = "Field"        -> <<"(<field>", n.name, ":">> \o Doc(n.type) \o <<")">>
    [] n.k = "Dim"          -> <<"(<dim>", n.name>> \o Optional(":", n.bound)
                                 \o Optional("=", n.value) \o <<")">>
    [] n.k = "ElseBlock"    -> BlockDoc(n.block)
    [] n.k = "ElseIf"       -> Doc(n.stmt)

StructDoc(s) == <<s.name>> \o WrapNonEmpty("<", s.generics, ">") \o Lines(s.fields) \o <<")">>

\* Only functions, structs, ifs and fors print their attributes.
StmtDoc(s) ==
  LET attrs == WrapNonEmpty("[", s.attributes, "]")
  IN  CASE s.k = "Import"     -> <<"(<import>">> \o PathDoc(s.path) \o <<")">>
        [] s.k = "Function"   -> <<"(<func>">> \o attrs \o ProtoDoc(s.proto)
                                   \o BlockDoc(s.body) \o <<")">>
        [] s.k = "Struct"     -> <<"(<struct>">> \o attrs \o StructDoc(s)
        [] s.k = "ExprStmt"   -> Doc(s.value)
        [] s.k = "Return"     -> <<"(<return>">> \o Doc(s.value) \o <<")">>
        [] s.k = "DimStmt"    -> WrapList("(<dim_group>", s.dims, ")")
        [] s.k = "VarDecl"    -> <<"(<let>", s.name>> \o Optional(":", s.type)
                                   \o Optional("=", s.init) \o <<")">>
        [] s.k = "Assignment" -> <<"(<set>">> \o Doc(s.target) \o <<"=">> \o Doc(s.value) \o <<")">>
        [] s.k = "If"         -> <<"(<if>">> \o attrs \o Doc(s.condition) \o BlockDoc(s.then)
                                   \o Separated(s.else, "") \o <<")">>
        [] s.k = "For"        -> <<"(<for>">> \o attrs \o <<s.var>> \o RangeDoc(s.range)
                                   \o BlockDoc(s.body) \o <<")">>
        [] s.k = "Jump"       -> <<"<", s.word, ">">>
        [] s.k = "ErrorStmt"  -> <<"<stmt_error>">>

ExprKinds == {"Literal", "Variable", "Binary", "MemberAccess", "NamespaceAccess", "Index",
              "VectorLiteral", "Call", "Error"}
TypeKinds == {"Primitive", "NamedType", "Tensor", "ErrorType"}
ArgumentKinds == {"Positional", "Named", "AttributeArg", "Attribute"}
ParamKinds == {"Param", "GenericParam"}
PartKinds == {"Field", "Dim", "ElseBlock", "ElseIf"}

Doc(n) ==
  CASE n.k \in ExprKinds     -> ExprDoc(n)
    [] n.k \in TypeKinds     -> TypeDoc(n)
    [] n.k \in ArgumentKinds -> ArgumentDoc(n)
    [] n.k \in ParamKinds    -> ParamDoc(n)
    [] n.k \in PartKinds     -> PartDoc(n)
    [] OTHER                 -> StmtDoc(n)

PrintAst(stmts) == Lines(stmts)
=============================================================================
