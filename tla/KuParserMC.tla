------------------------------ MODULE KuParserMC ------------------------------
(***************************************************************************)
(* The parser on every short text.  A frame puts the text where one        *)
(* construct of the language expects it, between the tokens before and     *)
(* the tokens after, and says which texts are worth trying there; the      *)
(* text grows one token at a time and its last token may be replaced, so   *)
(* that every step goes to a text that differs by one token.               *)
(***************************************************************************)
EXTENDS KuParser, KuPretty, KuGrammar

CONSTANTS
  Frames,     \* the constructs to try
  MaxLen      \* the longest text between a frame's tokens

FrameOf(name) ==
  CASE name = "sum"     -> [before |-> <<"1", "+">>, after |-> <<";">>,
                            texts |-> {"a", "-", "*", "(", ")", ".", "::"}]
    [] name = "product" -> [before |-> <<"a", "*">>, after |-> <<";">>,
                            texts |-> {"a", "+", "/", "(", ")", "["}]
    [] name = "index"   -> [before |-> <<"a", "[">>, after |-> <<"]", ";">>,
                            texts |-> {"a", "1", "-", "[", "]", ",", "("}]
    [] name = "unclosed" -> [before |-> <<"a", "=">>, after |-> <<>>,
                            texts |-> {"a", "[", "]", ";", "$", ","}]
    [] name = "call"    -> [before |-> <<"f", "(">>, after |-> <<")", ";">>,
                            texts |-> {"a", "=", "@k", ",", "(", ")"}]
    [] name = "generic" -> [before |-> <<"f", "::">>, after |-> <<">", "(", ")", ";">>,
                            texts |-> {"a", "i32", "<", ">", ",", "[", "]"}]
    [] name = "let"     -> [before |-> <<"let", "a">>, after |-> <<";", "b", ";">>,
                            texts |-> {"a", "99999999999999999999", ":", "=", "/", "i32", "$"}]
    [] name = "dim"     -> [before |-> <<"dim">>, after |-> <<";">>,
                            texts |-> {"a", "1", ":", "=", ",", "}"}]
    [] name = "struct"  -> [before |-> <<"struct", "a", "{", "a", ":">>, after |-> <<"}">>,
                            texts |-> {"a", "i32", ":", ",", ";", "}"}]
    [] name = "func"    -> [before |-> <<"func", "f">>, after |-> <<"{", "}">>,
                            texts |-> {"a", "i32", "(", ")", ":", "->", "<", ">"}]
    [] name = "params"  -> [before |-> <<"func", "f", "<">>, after |-> <<">", "(", "a", ":", "i32", ")", "{", "}">>,
                            texts |-> {"a", "i32", ":", "=", ",", ">"}]
    [] name = "block"   -> [before |-> <<"func", "f", "(", ")", "{">>, after |-> <<"}", "import", "a", ";">>,
                            texts |-> {"a", ";", "break", "return", "{", "}", "@k"}]
    [] name = "if"      -> [before |-> <<"if", "a">>, after |-> <<"{", "}">>,
                            texts |-> {"1", "{", "}", "else", "if", "@k"}]
    [] name = "for"     -> [before |-> <<"for", "a", "in", "a">>, after |-> <<"{", "break", ";", "}">>,
                            texts |-> {"a", "in", "..", "step", "+", "1"}]
    [] name = "import"  -> [before |-> <<"@k">>, after |-> <<";">>,
                            texts |-> {"a", "import", "::", "let", "struct", "="}]

VARIABLES
  frame,      \* the construct being tried
  text,       \* the tokens put into it
  result      \* what parse() makes of the whole

vars == <<frame, text, result>>

Input(f, t) == FrameOf(f).before \o t \o FrameOf(f).after

Init == /\ frame \in Frames
        /\ text = <<>>
        /\ result = Parse(Input(frame, <<>>))

Try(t) == /\ text' = t
          /\ result' = Parse(Input(frame, t))
          /\ UNCHANGED frame

Extend == /\ Len(text) < MaxLen
          /\ \E t \in FrameOf(frame).texts : Try(Append(text, t))

Replace == /\ text # <<>>
           /\ \E t \in FrameOf(frame).texts, i \in DOMAIN text : Try([text EXCEPT ![i] = t])

Next == Extend \/ Replace
Spec == Init /\ [][Next]_vars

-----------------------------------------------------------------------------
Accepted == result.p.errs = 0 /\ ~result.p.panicked
Leaves(toks) == SelectSeq(toks, IsLeaf)
Source == Input(frame, text)

\* When the parser has reported nothing, every name, literal, type, operator and
\* attribute of the source is in the tree, in source order, but for what it has
\* knowingly skipped and for what lies behind a text the scanner does not know.
NothingLost ==
  Accepted /\ ~result.p.lost =>
    Yields(result.stmts) = Leaves(UpTo(Source, result.p.at - 1))

\* An expression of GRAMMAR.ebnf is accepted, and its tree is one the grammar
\* derives: operators associate to the left, '*' binds tighter than '+', and
\* postfixes tighter than both.
ExpressionFrames == {"sum", "product", "index", "call", "generic"}
GrammarIsParsed ==
  LET trees == GExpr(Front(Source))
  IN  frame \in ExpressionFrames /\ trees # {} =>
        Accepted /\ \E e \in trees : result.stmts = <<ExprStmt(<<>>, e)>>

\* A statement, or one inside it, has attributes that print_ast leaves out.
RECURSIVE HidesAttributes(_)
HideAttributes(stmts) == \E i \in DOMAIN stmts : HidesAttributes(stmts[i])
HidesAttributes(s) ==
  CASE s.k \in {"Function", "For"} -> HideAttributes(s.body)
    [] s.k = "If"                 -> HideAttributes(s.then) \/ HideAttributes(s.else)
    [] s.k = "ElseBlock"          -> HideAttributes(s.block)
    [] s.k = "ElseIf"             -> HidesAttributes(s.stmt)
    [] s.k = "Struct"             -> FALSE
    [] OTHER                      -> s.attributes # <<>>

\* Two sources that differ by one token and that the parser takes for different
\* programs are printed differently, so a snapshot notices the difference, unless
\* one has attributes on a statement whose attributes are never printed.
SnapshotsTellApart ==
  [][ Accepted /\ Accepted' /\ result.stmts # result'.stmts
        /\ ~HideAttributes(result.stmts) /\ ~HideAttributes(result'.stmts)
      => PrintAst(result.stmts) # PrintAst(result'.stmts) ]_vars

\* The documented claim that the parser goes on and collects errors.
ParserReturns == ~result.p.panicked

\* The documented claim that a struct's fields need no commas between them.
FieldsNeedNoCommas ==
  LET trees == GFields(<<"a", ":">> \o text)
  IN  frame = "struct" /\ trees # {} =>
        Accepted /\ \E fs \in trees : result.stmts = <<Struct(<<>>, "a", <<>>, fs)>>
=============================================================================
