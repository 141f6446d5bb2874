------------------------------- MODULE KuSession -------------------------------
(***************************************************************************)
(* The interactive session (kuai/src/main.rs): the REPL on the main thread *)
(* and the TCP server on a thread of its own compile into one Context,     *)
(* whose names persist from one input to the next and which a Mutex        *)
(* guards.  The parser and the resolver are those of KuParser and          *)
(* KuResolver; no attribute handler can be registered, so the attribute    *)
(* stages of Compiler::compile return the statements they are given.       *)
(*                                                                         *)
(* A thread that panics while it holds the mutex poisons it, and lock()    *)
(* .unwrap() panics on a poisoned mutex.                                   *)
(***************************************************************************)
EXTENDS KuParser, KuResolver

CONSTANTS
  Lines,      \* the lines a user may type, as their tokens
  Messages,   \* the texts a client may send
  MaxInputs,  \* bound: how many texts are compiled
  MaxLines    \* bound: how many lines one input of the REPL has

VARIABLES
  repl,       \* "reading", "locking", "compiling", "ended" or "panicked"
  buffer,     \* the tokens typed since the prompt ">> "
  lines,      \* how many lines that is
  continued,  \* ~is_first_line: the prompt is ".. "
  tcp,        \* "accepting", "reading", "locking", "compiling" or "panicked"
  message,    \* what the client of the connection has sent
  holder,     \* who holds the mutex of the context: "none", "repl" or "tcp"
  poisoned,   \* the mutex is poisoned
  global,     \* ctx.global_scope
  inputs      \* history: how many texts have been compiled

replVars == <<repl, buffer, lines, continued>>
tcpVars  == <<tcp, message>>
ctxVars  == <<holder, poisoned, global, inputs>>
vars     == <<replVars, tcpVars, ctxVars>>

\* inject_builtins
Builtins == {"print", "exit", "help"}
FreshContext == [n \in Builtins |-> "BuiltinFunction"]

ASSUME SessionAssumption ==
  /\ Builtins \subseteq Names
  /\ MaxInputs \in Nat /\ MaxLines \in Nat
  /\ \A l \in Lines \cup Messages : l \in Seq(STRING)

Init ==
  /\ repl = "reading" /\ buffer = <<>> /\ lines = 0 /\ continued = FALSE
  /\ tcp = "accepting" /\ message = <<>>
  /\ holder = "none" /\ poisoned = FALSE /\ global = FreshContext
  /\ inputs = 0

\* main() returning, or panicking, ends the process and with it the TCP thread.
Running == repl \notin {"ended", "panicked"}

-----------------------------------------------------------------------------
(* compile_and_run.                                                        *)

\* The result of Compiler::compile on a text: the scope it leaves, what it says,
\* and whether the parser panicked instead.
Outcome(parsed, resolved) ==
  [panicked |-> parsed.p.panicked, stmts |-> parsed.stmts,
   global |-> resolved.scopes[1], diags |-> resolved.diags]
ResolveModule(parsed) == Outcome(parsed, Resolve(global, parsed.stmts))
Compile(toks) == ResolveModule(Parse(toks))

\* c is what Compile returned.
CompileAndRun(c) ==
  /\ holder' = "none"
  /\ poisoned' = c.panicked
  /\ inputs' = inputs + 1
  /\ global' = IF c.panicked THEN global ELSE c.global

\* shared_ctx.lock(): who gets the mutex, once it is free.
Lock(who) == holder = "none" /\ ~poisoned /\ holder' = who

-----------------------------------------------------------------------------
(* The REPL.                                                               *)

NewPrompt == buffer' = <<>> /\ lines' = 0 /\ continued' = FALSE

\* What happens to the buffer when the inner loop is left: an empty one goes back
\* to the prompt.
Submit(toks) ==
  IF toks = <<>> THEN repl' = "reading" /\ NewPrompt
  ELSE repl' = "locking" /\ buffer' = toks /\ UNCHANGED <<lines, continued>>

\* One line: an empty first line is ignored.  A line that leaves the text
\* balanced ends the input if it is the first one or an empty one, and one that
\* closes more than is open ends it at once.
ReadLine(line) ==
  LET text == buffer \o line
  IN  /\ repl = "reading" /\ inputs < MaxInputs /\ lines < MaxLines
      /\ CASE ~continued /\ line = <<>> -> Submit(buffer)
           [] CheckBalanced(text) /\ (~continued \/ line = <<>>) -> Submit(text)
           [] ~CheckBalanced(text) /\ NegativeDepth(text) -> Submit(text)
           [] OTHER -> /\ buffer' = text /\ lines' = lines + 1 /\ continued' = TRUE
                       /\ UNCHANGED repl
      /\ UNCHANGED <<tcpVars, ctxVars>>

\* CTRL-C and CTRL-D drop the buffer, or leave when there is none.
Interrupt ==
  /\ repl = "reading"
  /\ IF buffer = <<>> THEN repl' = "ended" /\ UNCHANGED <<buffer, lines, continued>>
     ELSE NewPrompt /\ UNCHANGED repl
  /\ UNCHANGED <<tcpVars, ctxVars>>

\* Any other error of readline submits what has been typed.
ReadError ==
  /\ repl = "reading" /\ inputs < MaxInputs
  /\ Submit(buffer)
  /\ UNCHANGED <<tcpVars, ctxVars>>

ReplLock ==
  /\ repl = "locking" /\ Lock("repl") /\ repl' = "compiling"
  /\ UNCHANGED <<buffer, lines, continued, tcpVars, poisoned, global, inputs>>

ReplLockPoisoned ==
  /\ repl = "locking" /\ holder = "none" /\ poisoned /\ repl' = "panicked"
  /\ UNCHANGED <<buffer, lines, continued, tcpVars, ctxVars>>

ReplCompile ==
  /\ repl = "compiling"
  /\ \E c \in {Compile(buffer)} :
       /\ CompileAndRun(c)
       /\ repl' = IF c.panicked THEN "panicked" ELSE "reading"
  /\ NewPrompt
  /\ UNCHANGED tcpVars

-----------------------------------------------------------------------------
(* The TCP server handles one connection at a time.                        *)

\* Mutant of Accept: the context is locked before the client has been read.
AcceptAndLock ==
  /\ Running /\ tcp = "accepting" /\ inputs < MaxInputs /\ Lock("tcp")
  /\ tcp' = "reading"
  /\ UNCHANGED <<replVars, message, poisoned, global, inputs>>

Accept ==
  /\ Running /\ tcp = "accepting" /\ inputs < MaxInputs
  /\ tcp' = "reading"
  /\ UNCHANGED <<replVars, message, ctxVars>>

\* read_to_string returns when the client closes its end, which it may never do.
ClientCloses(text) ==
  /\ Running /\ tcp = "reading"
  /\ tcp' = "locking" /\ message' = text
  /\ UNCHANGED <<replVars, ctxVars>>

\* A failed read, of a text that is not UTF-8 for one, is printed and dropped.
ReadFails ==
  /\ Running /\ tcp = "reading"
  /\ tcp' = "accepting"
  /\ UNCHANGED <<replVars, message, ctxVars>>

TcpLock ==
  /\ Running /\ tcp = "locking" /\ Lock("tcp") /\ tcp' = "compiling"
  /\ UNCHANGED <<replVars, message, poisoned, global, inputs>>

TcpCompile ==
  /\ Running /\ tcp = "compiling"
  /\ \E c \in {Compile(message)} :
       /\ CompileAndRun(c)
       /\ tcp' = IF c.panicked THEN "panicked" ELSE "accepting"
  /\ message' = <<>>
  /\ UNCHANGED replVars

-----------------------------------------------------------------------------
Next ==
  \/ \E line \in Lines : ReadLine(line)
  \/ Interrupt \/ ReadError
  \/ ReplLock \/ ReplLockPoisoned \/ ReplCompile
  \/ Accept \/ ReadFails \/ TcpLock \/ TcpCompile
  \/ \E text \in Messages : ClientCloses(text)

\* Both threads are scheduled, and a text is compiled in finite time; what a user
\* types and a client sends is up to them.
ReplReturns == repl = "compiling" /\ repl' \in {"reading", "panicked"}
TcpReturns  == Running /\ tcp = "compiling" /\ tcp' \in {"accepting", "panicked"}
Fairness ==
  /\ WF_vars(ReplLock) /\ WF_vars(ReplLockPoisoned) /\ WF_repl(ReplReturns)
  /\ WF_vars(TcpLock) /\ WF_tcp(TcpReturns)

Spec == Init /\ [][Next]_vars /\ Fairness

-----------------------------------------------------------------------------
\* Name resolution is lexical scoping on top of the names that the session knew:
\* the diagnostics of every text are those the definition of scoping asks for,
\* and the session then knows what that text declares outside of any block.
Compiling == IF repl = "compiling" THEN buffer ELSE message
ScopingIsLexical ==
  [][inputs' # inputs /\ ~poisoned' =>
       \E c \in {Compile(Compiling)} :
         /\ c.diags = ScopingErrors(DOMAIN global, c.stmts)
         /\ DOMAIN global' = Defined(DOMAIN global, c.stmts)]_vars

\* A name of the session keeps the meaning it was first given, whoever defines it
\* again and however wrong the text is in which that happens.
FirstDefinitionWins ==
  [][\A n \in DOMAIN global : n \in DOMAIN global' /\ global'[n] = global[n]]_vars

\* A submitted input is compiled, or the session ends: no client, however slow,
\* keeps the REPL from the context.
ReplAnswered == repl = "locking" ~> repl # "locking"
=============================================================================
