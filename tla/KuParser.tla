------------------------------- MODULE KuParser -------------------------------
(***************************************************************************)
(* The parser of the Kuai language (kuai-syntax/src/parser.rs): recursive  *)
(* descent for statements and types, precedence climbing for expressions,  *)
(* and the recovery from errors.  Every method of Parser that takes        *)
(* "&mut self" is an operator from the parser's state to its result and    *)
(* the state it leaves.                                                    *)
(***************************************************************************)
EXTENDS KuSyntax

(***************************************************************************)
(* The state of a Parser.  toks is the whole input and at the index of the *)
(* current token, Len(toks) + 1 once the scanner has returned None.  errs  *)
(* counts the diagnostics; panicked says that the thread panicked in       *)
(* consume() or in an unwrap().  lost is a history variable: the parser    *)
(* has discarded a token of the input on purpose and with no diagnostic.   *)
(***************************************************************************)
NewParser(toks) == [toks |-> toks, at |-> 1, errs |-> 0, panicked |-> FALSE, lost |-> FALSE]
Result(v, p)    == [v |-> v, p |-> p]

\* The methods call one another in sequence: the rest of the method, Rest, gets
\* the value of the call and the state the call left.
Then(r, Rest(_, _)) == Rest(r.v, r.p)

\* A scanner error is turned into None by and_then(|r| r.ok()), exactly as the
\* end of the input is.
TokenAt(p, i) == IF i <= Len(p.toks) /\ p.toks[i] \notin Garbage THEN p.toks[i] ELSE "None"
Current(p)    == TokenAt(p, p.at)
CurrentKind(p) == TokenKind(Current(p))
Peek(p)       == TokenKind(TokenAt(p, p.at + 1))
AtEnd(p)      == Current(p) = "None"
Check(p, kind) == CurrentKind(p) = kind

Advance(p)     == [p EXCEPT !.at = IF @ <= Len(p.toks) THEN @ + 1 ELSE @]
ReportError(p) == [p EXCEPT !.errs = @ + 1]
Lose(p, b)     == [p EXCEPT !.lost = @ \/ b]

\* The first index from the current one whose token is in stops, or where the
\* current token would be None.
Stop(p, stops) ==
  CHOOSE i \in p.at..(Len(p.toks) + 1) :
    /\ TokenAt(p, i) \in stops \cup {"None"}
    /\ \A j \in p.at..(i - 1) : TokenAt(p, j) \notin stops \cup {"None"}

SynchronizeUntil(p, stops) == [p EXCEPT !.at = Stop(p, stops)]

Synchronize(p) ==
  LET q == SynchronizeUntil(p, {";", "}", "func", "struct", "import"})
  IN  IF Current(q) \in {";", "}"} THEN Advance(q) ELSE q

Expect(p, kind)       == IF Check(p, kind) THEN Advance(p) ELSE ReportError(p)
ExpectOrSync(p, kind) == IF Check(p, kind) THEN Advance(p) ELSE Synchronize(ReportError(p))

Panic(p) == [p EXCEPT !.panicked = TRUE]

\* consume(): a token that must be there, or the thread panics.
Consume(p, kind) == IF Check(p, kind) THEN Advance(p) ELSE Panic(p)

ParseIdentifier(p) ==
  IF Check(p, "Identifier") THEN Result(Current(p), Advance(p))
  ELSE Result(ErrorIdent, Advance(ReportError(p)))

\* What follows is skipped up to one of the stops, with no diagnostic.
SkipQuietly(p, stops) == Lose(SynchronizeUntil(p, stops), Current(p) \notin stops \cup {"None"})
\* Where there is no token, nothing is skipped.
SkipToken(p) == IF AtEnd(p) THEN p ELSE Advance(p)
SkipComma(p) == IF Check(p, ",") THEN Advance(p) ELSE p

\* The lists share their error path: an element that failed, <<>>, is left out and
\* the input skipped to a stop.
Element(r, stops) == Result(r.v, IF r.v = <<>> THEN SynchronizeUntil(r.p, stops) ELSE r.p)
Unless(r, failed) == Result(IF r.v = failed THEN <<>> ELSE <<r.v>>, r.p)

RECURSIVE ParseExpr(_, _), ParseInfix(_, _, _), ParseElements(_, _), ParseIndices(_, _),
          ParseArguments(_, _), ParseAttribute(_), ParseTypeExpr(_),
          ParseGenericArguments(_, _), ParseShape(_, _)

-----------------------------------------------------------------------------
(* Expressions.                                                            *)

\* Mutant of InfixBindingPower: the right power is not one more than the left one.
EqualBindingPowers(op) ==
  IF op \in {"+", "-"} THEN [left |-> 3, right |-> 3] ELSE [left |-> 5, right |-> 5]

\* infix_binding_power: the left power decides whether an operator belongs to
\* the expression being parsed, the right power bounds its right operand.
InfixBindingPower(op) ==
  IF op \in {"+", "-"} THEN [left |-> 3, right |-> 4] ELSE [left |-> 5, right |-> 6]

\* '[' elements ']': commas are optional, and trailing ones are accepted.
ParseElements(es, p) ==
  IF Check(p, "]") \/ AtEnd(p) THEN Result(es, p)
  ELSE Then(ParseExpr(p, 0), LAMBDA e, q : ParseElements(Append(es, e), SkipComma(q)))

ParseArrayLiteral(p) ==
  Then(ParseElements(<<>>, Expect(p, "[")), LAMBDA es, q :
    Result(VectorLiteral(es), Expect(q, "]")))

\* An index that is followed by neither ',' nor ']' makes the parser skip, with
\* no diagnostic, to the next one of them.
ParseIndices(is, p) ==
  IF Check(p, "]") \/ AtEnd(p) THEN Result(is, p)
  ELSE Then(ParseExpr(p, 0), LAMBDA e, q :
         ParseIndices(Append(is, e), SkipComma(SkipQuietly(q, {",", "]"}))))

ParseIndexAccess(target, p) ==
  Then(ParseIndices(<<>>, Expect(p, "[")), LAMBDA is, q :
    Result(Index(target, is), Consume(q, "]")))

ParsePositional(p) ==
  Then(Unless(ParseExpr(p, 0), ErrorExpr), LAMBDA e, q :
    Result([i \in DOMAIN e |-> Positional(e[i])], q))

\* The name of a named argument is dropped when its value is an attribute.
ParseArgument(p) ==
  LET named == Check(p, "Identifier") /\ Peek(p) = "="
      start == IF named THEN Advance(Advance(p)) ELSE p
  IN  CASE Check(start, "Attribute") ->
             Then(ParseAttribute(start), LAMBDA a, q : Result(<<AttributeArg(a)>>, Lose(q, named)))
        [] named /\ ~Check(start, "Attribute") ->
             Then(ParseExpr(start, 0), LAMBDA e, q : Result(<<Named(Current(p), e)>>, q))
        [] OTHER -> ParsePositional(p)

ParseArguments(as, p) ==
  IF Check(p, ")") \/ AtEnd(p) THEN Result(as, p)
  ELSE Then(Element(ParseArgument(p), {",", ")"}), LAMBDA a, q :
         IF Check(q, ",") THEN ParseArguments(as \o a, Advance(q)) ELSE Result(as \o a, q))

ParseArgumentList(p) ==
  IF ~Check(p, "(") THEN Result(<<>>, ReportError(p))
  ELSE Then(ParseArguments(<<>>, Advance(p)), LAMBDA as, q : Result(as, Expect(q, ")")))

ParseAttribute(p) ==
  LET args == IF Check(Advance(p), "(") THEN ParseArgumentList(Advance(p))
              ELSE Result(<<>>, Advance(p))
  IN  IF ~Check(p, "Attribute") THEN Result(Attribute(ErrorIdent, <<>>), ReportError(p))
      ELSE Then(args, LAMBDA as, q : Result(Attribute(Current(p), as), q))

\* The '::' of a generic call needs '<' generics '>' '(' arguments ')', or the
\* operand is given up and the expression ends.  Without '<' it is an access to a
\* namespace.
ParseGenericCall(left, p) ==
  Then(ParseGenericArguments(<<>>, Advance(p)), LAMBDA gs, q :
    LET r == Expect(q, ">")
    IN  IF Check(r, "(") THEN Then(ParseArgumentList(r), LAMBDA as, s : Result(Call(left, gs, as), s))
        ELSE Result(ErrorExpr, SkipToken(ReportError(r))))

\* The loop of parse_expr over what follows a complete operand.  A postfix
\* binds tighter than every operator, so its own test never stops the loop.
ParseInfix(left, p, minBp) ==
  LET q     == Advance(p)
      op    == Current(p)
      on(r) == Then(r, LAMBDA e, s : ParseInfix(e, s, minBp))
  IN  CASE op \in BinaryOps /\ InfixBindingPower(op).left >= minBp ->
             on(Then(ParseExpr(q, InfixBindingPower(op).right), LAMBDA e, s :
                  Result(Binary(left, op, e), s)))
        [] op = "." ->
             on(Then(ParseIdentifier(q), LAMBDA m, s : Result(MemberAccess(left, m), s)))
        [] op = "::" /\ Check(q, "<") ->
             Then(ParseGenericCall(left, q), LAMBDA e, s :
               IF e = ErrorExpr THEN Result(e, s) ELSE ParseInfix(e, s, minBp))
        [] op = "::" /\ ~Check(q, "<") ->
             on(Then(ParseIdentifier(q), LAMBDA m, s : Result(NamespaceAccess(left, m), s)))
        [] op = "(" ->
             on(Then(ParseArgumentList(p), LAMBDA as, s : Result(Call(left, <<>>, as), s)))
        [] op = "[" -> on(ParseIndexAccess(left, p))
        [] OTHER -> Result(left, p)

\* The text of a literal is converted with parse().unwrap().
ParseLiteral(p) ==
  Result(Literal(Current(p)), Advance(IF Current(p) \in TooLarge THEN Panic(p) ELSE p))

ParseParenthesized(p) ==
  Then(ParseExpr(Advance(p), 0), LAMBDA e, q : Result(e, Expect(q, ")")))

ParseOperand(p) ==
  CASE Check(p, "Literal")    -> ParseLiteral(p)
    [] Check(p, "Identifier") -> Result(Variable(Current(p)), Advance(p))
    [] Check(p, "[")          -> ParseArrayLiteral(p)
    [] Check(p, "(")          -> ParseParenthesized(p)

StartsExpr(p) == CurrentKind(p) \in {"Literal", "Identifier", "[", "("}

ParseExpr(p, minBp) ==
  IF StartsExpr(p) THEN Then(ParseOperand(p), LAMBDA e, q : ParseInfix(e, q, minBp))
  ELSE Result(ErrorExpr, Advance(ReportError(p)))

OptionalExpr(p, kind) ==
  IF ~Check(p, kind) THEN Result(<<>>, p)
  ELSE Then(ParseExpr(Advance(p), 0), LAMBDA e, q : Result(<<e>>, q))

-----------------------------------------------------------------------------
(* Types and generic parameters.                                           *)

\* Types between '<' and '>'; the caller has checked the '<'.
ParseGenericArguments(gs, p) ==
  IF Check(p, ">") \/ AtEnd(p) THEN Result(gs, p)
  ELSE Then(Element(Unless(ParseTypeExpr(p), ErrorType), {",", ">"}), LAMBDA ty, q :
         IF Check(q, ",") THEN ParseGenericArguments(gs \o ty, Advance(q)) ELSE Result(gs \o ty, q))

\* Dimensions between '[' and ']'.
ParseShape(es, p) ==
  IF Check(p, "]") \/ AtEnd(p) THEN Result(es, p)
  ELSE Then(Element(Unless(ParseExpr(p, 0), ErrorExpr), {",", "]"}), LAMBDA e, q :
         IF Check(q, ",") THEN ParseShape(es \o e, Advance(q)) ELSE Result(es \o e, q))

ParseNamedType(name, p) ==
  IF ~Check(p, "<") THEN Result(NamedType(name, <<>>), p)
  ELSE Then(ParseGenericArguments(<<>>, Advance(p)), LAMBDA gs, q :
         Result(NamedType(name, gs), Expect(q, ">")))

ParseBaseType(p) ==
  CASE Check(p, "Type")       -> Result(Primitive(Current(p)), Advance(p))
    [] Check(p, "Identifier") -> ParseNamedType(Current(p), Advance(p))
    [] OTHER -> Result(ErrorType, SkipToken(ReportError(p)))

ParseTypeExpr(p) ==
  Then(ParseBaseType(p), LAMBDA base, q :
    IF ~Check(q, "[") THEN Result(base, q)
    ELSE Then(ParseShape(<<>>, Advance(q)), LAMBDA es, s :
           Result(Tensor(base, es), Expect(s, "]"))))

OptionalType(p, kind) ==
  IF ~Check(p, kind) THEN Result(<<>>, p)
  ELSE Then(ParseTypeExpr(Advance(p)), LAMBDA ty, q : Result(<<ty>>, q))

\* A bound or a default, never both.
ParseGenericParam(p) ==
  Then(ParseIdentifier(p), LAMBDA n, q :
    IF Check(q, ":")
    THEN Then(OptionalType(q, ":"), LAMBDA ty, s : Result(GenericParam(n, ty, <<>>), s))
    ELSE Then(OptionalType(q, "="), LAMBDA ty, s : Result(GenericParam(n, <<>>, ty), s)))

RECURSIVE ParseGenericParams(_, _)
ParseGenericParams(gs, p) ==
  IF Check(p, ">") \/ AtEnd(p) THEN Result(gs, p)
  ELSE Then(ParseGenericParam(p), LAMBDA g, q :
         IF Check(q, ",") THEN ParseGenericParams(Append(gs, g), Advance(q))
         ELSE Result(Append(gs, g), q))

OptionalGenericParams(p) ==
  IF ~Check(p, "<") THEN Result(<<>>, p)
  ELSE Then(ParseGenericParams(<<>>, Advance(p)), LAMBDA gs, q : Result(gs, Expect(q, ">")))

-----------------------------------------------------------------------------
(* Declarations.                                                           *)

\* A parameter without ':' or without a type is left out of the list.
ParseParam(p) ==
  Then(ParseIdentifier(p), LAMBDA n, q :
    IF ~Check(q, ":") THEN Result(<<>>, ReportError(q))
    ELSE Then(ParseTypeExpr(Advance(q)), LAMBDA ty, s :
           Result(IF ty = ErrorType THEN <<>> ELSE <<Param(n, ty)>>, s)))

RECURSIVE ParseParams(_, _)
ParseParams(ps, p) ==
  IF Check(p, ")") \/ AtEnd(p) THEN Result(ps, p)
  ELSE Then(Element(ParseParam(p), {",", ")"}), LAMBDA a, q :
         IF Check(q, ",") THEN ParseParams(ps \o a, Advance(q)) ELSE Result(ps \o a, q))

ParseParamList(p) ==
  IF ~Check(p, "(") THEN Result(<<>>, ReportError(p))
  ELSE Then(ParseParams(<<>>, Advance(p)), LAMBDA ps, q : Result(ps, Expect(q, ")")))

ParseFuncProto(p) ==
  Then(ParseIdentifier(p), LAMBDA n, p1 :
  Then(OptionalGenericParams(p1), LAMBDA gs, p2 :
  Then(ParseParamList(p2), LAMBDA ps, p3 :
  Then(OptionalType(p3, "->"), LAMBDA rt, p4 :
    Result(FuncProto(n, gs, ps, rt), p4)))))

ParseFieldDecl(p) ==
  Then(ParseIdentifier(p), LAMBDA n, q :
  Then(ParseTypeExpr(ExpectOrSync(q, ":")), LAMBDA ty, s :
    Result(FieldDecl(n, ty), s)))

\* As in an index, what follows a field up to the next ',' or '}' is skipped
\* with no diagnostic.
RECURSIVE ParseFields(_, _)
ParseFields(fs, p) ==
  IF Check(p, "}") \/ AtEnd(p) THEN Result(fs, p)
  ELSE Then(ParseFieldDecl(p), LAMBDA f, q :
         ParseFields(Append(fs, f), SkipComma(SkipQuietly(q, {",", "}"}))))

ParseFieldList(p) ==
  Then(ParseFields(<<>>, ExpectOrSync(p, "{")), LAMBDA fs, q : Result(fs, Expect(q, "}")))

ParseStruct(attrs, p) ==
  Then(ParseIdentifier(Advance(p)), LAMBDA n, p1 :
  Then(OptionalGenericParams(p1), LAMBDA gs, p2 :
  Then(ParseFieldList(p2), LAMBDA fs, p3 :
    Result(Struct(attrs, n, gs, fs), p3))))

RECURSIVE ParseDims(_, _)
ParseDims(ds, p) ==
  Then(ParseIdentifier(p), LAMBDA n, p1 :
  Then(OptionalExpr(p1, ":"), LAMBDA bound, p2 :
  Then(OptionalExpr(p2, "="), LAMBDA value, p3 :
    LET es == Append(ds, DimDecl(n, bound, value))
    IN  IF Check(p3, ",") THEN ParseDims(es, Advance(p3)) ELSE Result(es, p3))))

\* The ';' after a dim declaration is reported when it is missing, and the
\* declarations are kept.
ParseDim(attrs, p) ==
  Then(ParseDims(<<>>, Advance(p)), LAMBDA ds, q : Result(DimStmt(attrs, ds), Expect(q, ";")))

RECURSIVE ParsePath(_, _)
ParsePath(path, p) ==
  Then(ParseIdentifier(p), LAMBDA n, q :
    IF Check(q, "::") THEN ParsePath(Append(path, n), Advance(q)) ELSE Result(Append(path, n), q))

-----------------------------------------------------------------------------
(* Statements.                                                             *)

\* Mutant of Terminated: the missing ';' is not reported.
TerminatedQuietly(stmt, p) ==
  IF Check(p, ";") THEN Result(stmt, Advance(p))
  ELSE Result(ErrorStmt(stmt.attributes), Synchronize(p))

\* The end of a simple statement: without its ';' the statement is replaced by
\* an error and the input is skipped to a place to go on from.
Terminated(stmt, p) ==
  IF Check(p, ";") THEN Result(stmt, Advance(p))
  ELSE Result(ErrorStmt(stmt.attributes), Synchronize(ReportError(p)))

\* An import has no attributes: those before it are dropped.
ParseImport(attrs, p) ==
  Then(ParsePath(<<>>, Advance(p)), LAMBDA path, q :
    Terminated(Import(path), Lose(q, attrs # <<>>)))

ParseLet(attrs, p) ==
  Then(ParseIdentifier(Advance(p)), LAMBDA n, p1 :
  Then(OptionalType(p1, ":"), LAMBDA ty, p2 :
  Then(OptionalExpr(p2, "="), LAMBDA init, p3 :
    Terminated(VarDecl(attrs, n, ty, init), p3))))

ParseJump(attrs, p) == Terminated(Jump(attrs, Current(p)), Advance(p))

ParseReturn(attrs, p) ==
  Then(ParseExpr(Advance(p), 0), LAMBDA e, q : Terminated(Return(attrs, e), q))

ParseExprStmt(attrs, p) ==
  Then(ParseExpr(p, 0), LAMBDA e, q :
  Then(OptionalExpr(q, "="), LAMBDA value, s :
    Terminated(IF value = <<>> THEN ExprStmt(attrs, e) ELSE Assignment(attrs, e, value[1]), s)))

RECURSIVE ParseStmt(_), ParseStmts(_, _, _), ParseIf(_, _)

\* Statements up to a closing token or the end; a bare ';' is skipped.
ParseStmts(ss, p, close) ==
  IF AtEnd(p) \/ Check(p, close) THEN Result(ss, p)
  ELSE IF Check(p, ";") THEN ParseStmts(ss, Advance(p), close)
  ELSE Then(ParseStmt(p), LAMBDA s, q : ParseStmts(Append(ss, s), q, close))

ParseBlock(p) ==
  IF ~Check(p, "{") THEN Result(<<>>, Synchronize(ReportError(p)))
  ELSE Then(ParseStmts(<<>>, Advance(p), "}"), LAMBDA ss, q : Result(ss, Expect(q, "}")))

ParseRange(p) ==
  Then(ParseExpr(p, 0), LAMBDA start, p1 :
  Then(ParseExpr(ExpectOrSync(p1, ".."), 0), LAMBDA end, p2 :
  Then(OptionalExpr(p2, "step"), LAMBDA step, p3 :
    Result(ForRange(start, end, step), p3))))

ParseFor(attrs, p) ==
  Then(ParseIdentifier(Advance(p)), LAMBDA v, p1 :
  Then(ParseRange(ExpectOrSync(p1, "in")), LAMBDA range, p2 :
  Then(ParseBlock(p2), LAMBDA body, p3 :
    Result(For(attrs, v, range, body), p3))))

ParseElse(p) ==
  CASE ~Check(p, "else") -> Result(<<>>, p)
    [] Check(p, "else") /\ Check(Advance(p), "if") ->
         Then(ParseIf(<<>>, Advance(p)), LAMBDA s, q : Result(<<ElseIf(s)>>, q))
    [] OTHER -> Then(ParseBlock(Advance(p)), LAMBDA b, q : Result(<<ElseBlock(b)>>, q))

ParseIf(attrs, p) ==
  Then(ParseExpr(Advance(p), 0), LAMBDA c, p1 :
  Then(ParseBlock(p1), LAMBDA then, p2 :
  Then(ParseElse(p2), LAMBDA else, p3 :
    Result(If(attrs, c, then, else), p3))))

ParseFunc(attrs, p) ==
  Then(ParseFuncProto(Advance(p)), LAMBDA proto, p1 :
  Then(ParseBlock(p1), LAMBDA body, p2 :
    Result(Function(attrs, proto, body), p2)))

RECURSIVE ParseAttributes(_, _)
ParseAttributes(as, p) ==
  IF ~Check(p, "Attribute") THEN Result(as, p)
  ELSE Then(ParseAttribute(p), LAMBDA a, q : ParseAttributes(Append(as, a), q))

ParseStmt(p) ==
  Then(ParseAttributes(<<>>, p), LAMBDA as, q :
    CASE Check(q, "func")   -> ParseFunc(as, q)
      [] Check(q, "struct") -> ParseStruct(as, q)
      [] Check(q, "import") -> ParseImport(as, q)
      [] Check(q, "dim")    -> ParseDim(as, q)
      [] Check(q, "let")    -> ParseLet(as, q)
      [] Check(q, "break") \/ Check(q, "continue") -> ParseJump(as, q)
      [] Check(q, "for")    -> ParseFor(as, q)
      [] Check(q, "if")     -> ParseIf(as, q)
      [] Check(q, "return") -> ParseReturn(as, q)
      [] OTHER              -> ParseExprStmt(as, q))

\* parse(): the statements of the module and the state the parser ends in.
Parse(toks) ==
  Then(ParseStmts(<<>>, NewParser(toks), "None"), LAMBDA ss, p : [stmts |-> ss, p |-> p])
=============================================================================
