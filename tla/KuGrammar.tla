------------------------------- MODULE KuGrammar -------------------------------
(***************************************************************************)
(* The expressions and the fields of GRAMMAR.ebnf, as the set of the trees *)
(* each production derives from a text.  A production splits the text      *)
(* wherever its symbols occur, so nothing here depends on the order in     *)
(* which a parser reads: this is the reference the parser is checked with. *)
(***************************************************************************)
EXTENDS KuSyntax

From(s, i) == SubSeq(s, i, Len(s))
UpTo(s, i) == SubSeq(s, 1, i)
At(s, texts) == {i \in DOMAIN s : s[i] \in texts}
Starts(s, t) == s # <<>> /\ s[1] = t
Ends(s, t)   == s # <<>> /\ s[Len(s)] = t
Inner(s)     == SubSeq(s, 2, Len(s) - 1)

RECURSIVE GExpr(_), GFactor(_), GPostfix(_), GExprs(_, _), GArguments(_), GType(_), GTypes(_)

\* A separated list: its last element, and the list before the separator.
GExprs(s, juxtaposed) ==
  {<<e>> : e \in GExpr(s)}
    \cup UNION {{Append(es, e) : es \in GExprs(UpTo(s, i - 1), juxtaposed), e \in GExpr(From(s, i + 1))} :
                  i \in At(s, {","})}
    \cup IF ~juxtaposed THEN {}
         ELSE UNION {{Append(es, e) : es \in GExprs(UpTo(s, i), juxtaposed), e \in GExpr(From(s, i + 1))} :
                       i \in 1..(Len(s) - 1)}

GArgument(s) ==
  {Positional(e) : e \in GExpr(s)}
    \cup IF Len(s) > 2 /\ s[1] \in Names /\ s[2] = "=" THEN {Named(s[1], e) : e \in GExpr(From(s, 3))}
         ELSE {}

GSomeArguments(s) ==
  {<<a>> : a \in GArgument(s)}
    \cup UNION {{Append(as, a) : as \in GArguments(UpTo(s, i - 1)), a \in GArgument(From(s, i + 1))} :
                  i \in At(s, {","}) \ {1}}
GArguments(s) == IF s = <<>> THEN {<<>>} ELSE GSomeArguments(s)

GTypes(s) ==
  {<<t>> : t \in GType(s)}
    \cup UNION {{Append(ts, t) : ts \in GTypes(UpTo(s, i - 1)), t \in GType(From(s, i + 1))} :
                  i \in At(s, {","})}

GBaseType(s) ==
  IF Len(s) = 1 THEN {Primitive(t) : t \in {s[1]} \cap PrimitiveTypes}
                       \cup {NamedType(n, <<>>) : n \in {s[1]} \cap Names}
  ELSE IF s # <<>> /\ s[1] \in Names /\ Ends(s, ">") /\ Starts(Tail(s), "<")
       THEN {NamedType(s[1], ts) : ts \in GTypes(Inner(Tail(s)))}
       ELSE {}

GType(s) ==
  GBaseType(s)
    \cup IF ~Ends(s, "]") THEN {}
         ELSE UNION {{Tensor(b, sh) : b \in GBaseType(UpTo(s, i - 1)), sh \in GExprs(Inner(From(s, i)), FALSE)} :
                       i \in At(s, {"["})}

GPrimary(s) ==
  IF Len(s) = 1 THEN {Literal(t) : t \in {s[1]} \cap Literals} \cup {Variable(t) : t \in {s[1]} \cap Names}
  ELSE CASE Starts(s, "(") /\ Ends(s, ")") -> GExpr(Inner(s))
         [] Starts(s, "[") /\ Ends(s, "]") -> {VectorLiteral(es) : es \in GExprs(Inner(s), TRUE)}
         [] OTHER -> {}

GMember(s, dot) ==
  IF Len(s) > 2 /\ s[Len(s)] \in Names /\ s[Len(s) - 1] = dot THEN GPostfix(UpTo(s, Len(s) - 2)) ELSE {}

\* The texts f '(' arguments ')' and f '::' '<' types '>' '(' arguments ')'.
GCall(s) ==
  IF ~Ends(s, ")") THEN {}
  ELSE UNION {{Call(f, <<>>, as) : f \in GPostfix(UpTo(s, i - 1)), as \in GArguments(Inner(From(s, i)))} :
                i \in At(s, {"("}) \ {1}}
       \cup UNION {{Call(f, ts, as) : f \in GPostfix(UpTo(s, i - 1)),
                                      ts \in GTypes(SubSeq(s, i + 2, j - 2)),
                                      as \in GArguments(Inner(From(s, j)))} :
                     i \in {i \in At(s, {"::"}) : Starts(From(s, i + 1), "<")},
                     j \in {j \in At(s, {"("}) : j > 2 /\ s[j - 1] = ">"}}

GIndex(s) ==
  IF ~Ends(s, "]") THEN {}
  ELSE UNION {{Index(e, is) : e \in GPostfix(UpTo(s, i - 1)), is \in GExprs(Inner(From(s, i)), FALSE)} :
                i \in At(s, {"["}) \ {1}}

GPostfix(s) ==
  GPrimary(s) \cup {MemberAccess(e, s[Len(s)]) : e \in GMember(s, ".")}
    \cup {NamespaceAccess(e, s[Len(s)]) : e \in GMember(s, "::")}
    \cup GCall(s) \cup GIndex(s)

\* Left association: the last operator of a level splits first.
GFactor(s) ==
  GPostfix(s) \cup UNION {{Binary(l, s[i], r) : l \in GFactor(UpTo(s, i - 1)), r \in GPostfix(From(s, i + 1))} :
                            i \in At(s, {"*", "/"})}
GExpr(s) ==
  GFactor(s) \cup UNION {{Binary(l, s[i], r) : l \in GExpr(UpTo(s, i - 1)), r \in GFactor(From(s, i + 1))} :
                           i \in At(s, {"+", "-"})}

\* The body of a struct: fields, each with a comma or without one.
RECURSIVE GFields(_)
GField(s) == IF Len(s) > 2 /\ s[1] \in Names /\ s[2] = ":" THEN {FieldDecl(s[1], t) : t \in GType(From(s, 3))}
             ELSE {}
GFields(s) ==
  IF s = <<>> THEN {<<>>}
  ELSE UNION {{Append(fs, f) : fs \in GFields(UpTo(s, i)),
                               f \in GField(IF Ends(s, ",") THEN SubSeq(s, i + 1, Len(s) - 1)
                                            ELSE From(s, i + 1))} : i \in 0..(Len(s) - 1)}
=============================================================================
