------------------------------- MODULE KuSyntax -------------------------------
(***************************************************************************)
(* The vocabulary of the Kuai front end: the tokens of lexer.rs and the    *)
(* syntax trees of ast.rs.  A token is its own text, a string: a keyword   *)
(* or a symbol stands for itself, and the texts the scanner classifies by  *)
(* a regular expression are given by the constants.  A float, an integer   *)
(* and a string literal take the same path through the parser, so one      *)
(* class of literals stands for the three.  Spans are left out.            *)
(*                                                                         *)
(* A tree node is a record whose field k names its Rust variant; an        *)
(* Option is a sequence of at most one element and a Vec is a sequence.    *)
(***************************************************************************)
EXTENDS Naturals, Sequences, SequencesExt

CONSTANTS
  Names,      \* texts scanned as Token::Identifier
  Literals,   \* texts scanned as a literal
  TooLarge,   \* the integer literals among them that do not fit in an i64
  Tags,       \* texts scanned as Token::Attribute, such as "@kernel"
  Garbage     \* texts no rule of the scanner matches

PrimitiveTypes == {"bool", "char", "i8", "i16", "i32", "i64", "f32", "f64"}
BinaryOps == {"+", "-", "*", "/"}
Keywords == {"func", "struct", "import", "return", "let", "dim", "if", "else",
             "for", "in", "step", "break", "continue"}
Symbols == {".", "..", ",", ":", "::", ";", "=", "->", "(", ")", "[", "]",
            "{", "}", "==", "!=", "<", ">"} \cup BinaryOps

ASSUME TextClassesAreDisjoint ==
  /\ TooLarge \subseteq Literals
  /\ \A S \in {Names, Literals, Tags, Garbage} :
       S \cap (Keywords \cup Symbols \cup PrimitiveTypes) = {}
  /\ Names \cap Literals = {} /\ Names \cap Tags = {} /\ Names \cap Garbage = {}
  /\ Literals \cap Tags = {} /\ Literals \cap Garbage = {} /\ Tags \cap Garbage = {}

\* The variant of Token that a text is scanned as.
TokenKind(t) ==
  CASE t \in Names -> "Identifier"
    [] t \in Literals -> "Literal"
    [] t \in Tags -> "Attribute"
    [] t \in PrimitiveTypes -> "Type"
    [] OTHER -> t

\* lexer.rs, check_balanced: brackets and braces are counted, parentheses are
\* not, and a text with no token at all is not complete.
Depth(toks) ==
  LET count(S) == Len(SelectSeq(toks, LAMBDA t : t \in S))
  IN  [open |-> count({"[", "{"}), close |-> count({"]", "}"})]

CheckBalanced(toks) == toks # <<>> /\ Depth(toks).open <= Depth(toks).close
NegativeDepth(toks) == Depth(toks).open < Depth(toks).close

-----------------------------------------------------------------------------
(* Expressions, arguments and attributes.                                  *)

ErrorIdent == "<error_ident>"

Literal(v)               == [k |-> "Literal", v |-> v]
Variable(id)             == [k |-> "Variable", id |-> id]
Binary(l, op, r)         == [k |-> "Binary", left |-> l, op |-> op, right |-> r]
MemberAccess(e, m)       == [k |-> "MemberAccess", target |-> e, member |-> m]
NamespaceAccess(e, m)    == [k |-> "NamespaceAccess", target |-> e, member |-> m]
Index(e, is)             == [k |-> "Index", target |-> e, indices |-> is]
VectorLiteral(es)        == [k |-> "VectorLiteral", elements |-> es]
Call(f, gs, as)          == [k |-> "Call", func |-> f, generics |-> gs, args |-> as]
ErrorExpr                == [k |-> "Error"]

Positional(e)            == [k |-> "Positional", value |-> e]
Named(n, e)              == [k |-> "Named", name |-> n, value |-> e]
AttributeArg(a)          == [k |-> "AttributeArg", attribute |-> a]
Attribute(n, as)         == [k |-> "Attribute", name |-> n, args |-> as]

(* Types.                                                                  *)
Primitive(t)             == [k |-> "Primitive", type |-> t]
NamedType(n, gs)         == [k |-> "NamedType", name |-> n, generics |-> gs]
Tensor(b, sh)            == [k |-> "Tensor", base |-> b, shape |-> sh]
ErrorType                == [k |-> "ErrorType"]

(* Declarations.  A parameter never gets a default value in the parser.    *)
Param(n, ty)             == [k |-> "Param", name |-> n, type |-> ty]
GenericParam(n, b, d)    == [k |-> "GenericParam", name |-> n, bound |-> b, default |-> d]
FieldDecl(n, ty)         == [k |-> "Field", name |-> n, type |-> ty]
DimDecl(n, b, v)         == [k |-> "Dim", name |-> n, bound |-> b, value |-> v]
FuncProto(n, gs, ps, rt) == [name |-> n, generics |-> gs, params |-> ps, return |-> rt]
ForRange(s, e, st)       == [start |-> s, end |-> e, step |-> st]

(* Statements: the attributes and the variant of StmtImpl.  ErrorStmt is   *)
(* what the parser leaves where it gave up on a statement.                 *)
Import(path)             == [k |-> "Import", attributes |-> <<>>, path |-> path]
Function(as, pr, body)   == [k |-> "Function", attributes |-> as, proto |-> pr, body |-> body]
Struct(as, n, gs, fs)    == [k |-> "Struct", attributes |-> as, name |-> n,
                             generics |-> gs, fields |-> fs]
DimStmt(as, ds)          == [k |-> "DimStmt", attributes |-> as, dims |-> ds]
VarDecl(as, n, ty, init) == [k |-> "VarDecl", attributes |-> as, name |-> n,
                             type |-> ty, init |-> init]
Assignment(as, t, v)     == [k |-> "Assignment", attributes |-> as, target |-> t, value |-> v]
For(as, v, rg, body)     == [k |-> "For", attributes |-> as, var |-> v, range |-> rg,
                             body |-> body]
If(as, c, then, else)    == [k |-> "If", attributes |-> as, condition |-> c,
                             then |-> then, else |-> else]
Jump(as, w)              == [k |-> "Jump", attributes |-> as, word |-> w]
Return(as, e)            == [k |-> "Return", attributes |-> as, value |-> e]
ExprStmt(as, e)          == [k |-> "ExprStmt", attributes |-> as, value |-> e]
ErrorStmt(as)            == [k |-> "ErrorStmt", attributes |-> as]

\* ElseBranch: a block, or the statement of an "else if".
ElseBlock(b)             == [k |-> "ElseBlock", block |-> b]
ElseIf(s)                == [k |-> "ElseIf", stmt |-> s]

-----------------------------------------------------------------------------
(* The yield of a tree: the texts it was built from, in source order, for  *)
(* the tokens that carry meaning of their own.                             *)

IsLeaf(t) == \/ t \in Names \cup Literals \cup Tags
             \/ t \in PrimitiveTypes \cup BinaryOps
             \/ t \in {"break", "continue"}

RECURSIVE Yield(_)
Yields(nodes) == FlattenSeq([i \in DOMAIN nodes |-> Yield(nodes[i])])

Yield(n) ==
  CASE n.k = "Literal"         -> <<n.v>>
    [] n.k = "Variable"        -> <<n.id>>
    [] n.k = "Binary"          -> Yield(n.left) \o <<n.op>> \o Yield(n.right)
    [] n.k = "MemberAccess"    -> Append(Yield(n.target), n.member)
    [] n.k = "NamespaceAccess" -> Append(Yield(n.target), n.member)
    [] n.k = "Index"           -> Yield(n.target) \o Yields(n.indices)
    [] n.k = "VectorLiteral"   -> Yields(n.elements)
    [] n.k = "Call"            -> Yield(n.func) \o Yields(n.generics) \o Yields(n.args)
    [] n.k = "Positional"      -> Yield(n.value)
    [] n.k = "Named"           -> <<n.name>> \o Yield(n.value)
    [] n.k = "AttributeArg"    -> Yield(n.attribute)
    [] n.k = "Attribute"       -> <<n.name>> \o Yields(n.args)
    [] n.k = "Primitive"       -> <<n.type>>
    [] n.k = "NamedType"       -> <<n.name>> \o Yields(n.generics)
    [] n.k = "Tensor"          -> Yield(n.base) \o Yields(n.shape)
    [] n.k \in {"Param", "Field"} -> <<n.name>> \o Yield(n.type)
    [] n.k = "GenericParam"    -> <<n.name>> \o Yields(n.bound) \o Yields(n.default)
    [] n.k = "Dim"             -> <<n.name>> \o Yields(n.bound) \o Yields(n.value)
    [] n.k = "ElseBlock"       -> Yields(n.block)
    [] n.k = "ElseIf"          -> Yield(n.stmt)
    [] n.k \in {"Error", "ErrorType"} -> <<>>
    [] OTHER -> Yields(n.attributes) \o
         CASE n.k = "Import"     -> n.path
           [] n.k = "Function"   -> <<n.proto.name>> \o Yields(n.proto.generics)
                                    \o Yields(n.proto.params) \o Yields(n.proto.return)
                                    \o Yields(n.body)
           [] n.k = "Struct"     -> <<n.name>> \o Yields(n.generics) \o Yields(n.fields)
           [] n.k = "DimStmt"    -> Yields(n.dims)
           [] n.k = "VarDecl"    -> <<n.name>> \o Yields(n.type) \o Yields(n.init)
           [] n.k = "Assignment" -> Yield(n.target) \o Yield(n.value)
           [] n.k = "For"        -> <<n.var>> \o Yield(n.range.start) \o Yield(n.range.end)
                                    \o Yields(n.range.step) \o Yields(n.body)
           [] n.k = "If"         -> Yield(n.condition) \o Yields(n.then) \o Yields(n.else)
           [] n.k = "Jump"       -> <<n.word>>
           [] n.k = "Return"     -> Yield(n.value)
           [] n.k = "ExprStmt"   -> Yield(n.value)
           [] n.k = "ErrorStmt"  -> <<>>
=============================================================================
