---------------------------- MODULE TaskExecutor ----------------------------
(***************************************************************************)
(* The contract of ku_scheduler_t (kuai_c/ku_runtime.h) that the host      *)
(* transfer relies on: submit either refuses a task, which then never      *)
(* runs, or accepts it, and then runs it exactly once.                     *)
(***************************************************************************)
CONSTANT Tasks

VARIABLES
  fate,    (* per task: new, refused, accepted, running or done             *)
  closed   (* the executor is gone: nothing is accepted any more            *)

vars == <<fate, closed>>

Init == fate = [t \in Tasks |-> "new"] /\ closed = FALSE

Move(t, from, to) ==
  /\ fate[t] = from
  /\ fate' = [fate EXCEPT ![t] = to]
  /\ UNCHANGED closed

Refuse(t) == Move(t, "new", "refused")
Accept(t) == ~closed /\ Move(t, "new", "accepted")
Run(t)    == Move(t, "accepted", "running")
Finish(t) == Move(t, "running", "done")

\* The executor may disappear only when everything it accepted is done.
Close ==
  /\ \A t \in Tasks : fate[t] \in {"new", "refused", "done"}
  /\ closed' = TRUE
  /\ UNCHANGED fate

Next == Close \/ \E t \in Tasks : Refuse(t) \/ Accept(t) \/ Run(t) \/ Finish(t)

SafetySpec == Init /\ [][Next]_vars

Spec == SafetySpec /\ \A t \in Tasks : WF_vars(Run(t)) /\ WF_vars(Finish(t))
=============================================================================
