------------------------- MODULE OneShotCompletion -------------------------
(***************************************************************************)
(* What a completion promises (kuai_c/ku_completion.h): a one-shot result  *)
(* that every waiter eventually reads, and a single callback that is       *)
(* delivered exactly once with that result.  No mutex, no condition        *)
(* variable and no reference count appears here: KuCompletion is shown to  *)
(* implement this specification.                                           *)
(***************************************************************************)
CONSTANTS
  Clients,    (* threads that may wait or register                          *)
  Statuses,   (* the final statuses an operation may end with               *)
  Pending     (* stands for "no result yet"                                 *)

VARIABLES
  result,     (* the operation's status, or Pending                         *)
  waiting,    (* clients blocked in ku_completion_wait                      *)
  answer,     (* what each client's last wait returned                      *)
  registered, (* somebody's callback was accepted                           *)
  delivered   (* the status the callback was given, or Pending              *)

vars == <<result, waiting, answer, registered, delivered>>

Init ==
  /\ result = Pending
  /\ waiting = {}
  /\ answer = [c \in Clients |-> Pending]
  /\ registered = FALSE
  /\ delivered = Pending

Complete(s) ==
  /\ result = Pending
  /\ result' = s
  /\ UNCHANGED <<waiting, answer, registered, delivered>>

Block(c) ==
  /\ result = Pending
  /\ waiting' = waiting \cup {c}
  /\ UNCHANGED <<result, answer, registered, delivered>>

\* A wait that finds the result at once has no Block step.
Return(c) ==
  /\ result # Pending
  /\ waiting' = waiting \ {c}
  /\ answer' = [answer EXCEPT ![c] = result]
  /\ UNCHANGED <<result, registered, delivered>>

Register ==
  /\ ~registered
  /\ registered' = TRUE
  /\ UNCHANGED <<result, waiting, answer, delivered>>

Deliver ==
  /\ registered
  /\ result # Pending
  /\ delivered = Pending
  /\ delivered' = result
  /\ UNCHANGED <<result, waiting, answer, registered>>

Next ==
  \/ \E s \in Statuses : Complete(s)
  \/ \E c \in Clients : Block(c) \/ Return(c)
  \/ Register
  \/ Deliver

\* The operation ends, a blocked waiter comes back, the callback is delivered.
Fairness ==
  /\ WF_vars(\E s \in Statuses : Complete(s))
  /\ \A c \in Clients : WF_vars(c \in waiting /\ Return(c))
  /\ WF_vars(Deliver)

\* What it may do, apart from what it must do.
SafetySpec == Init /\ [][Next]_vars

Spec == SafetySpec /\ Fairness
=============================================================================
