---------------------------- MODULE KuScheduler -----------------------------
(***************************************************************************)
(* KuDefaultScheduler (runtime/src/KuScheduler.cpp): a pool of workers on  *)
(* one queue, built by a constructor that may fail half-way, fed by any    *)
(* thread, and stopped by a destructor that drains the queue and joins.    *)
(*                                                                         *)
(* A critical section of m_mutex is one action; notify_one and notify_all  *)
(* run after the lock is released and are actions of their own.            *)
(***************************************************************************)
EXTENDS Naturals, Sequences, FiniteSets

CONSTANTS
  Workers,   (* the threads the constructor spawns (workerCount of them)    *)
  Tasks      (* each is submitted once, from outside or by a running task   *)

ASSUME WorkersAssumption == IsFiniteSet(Workers) /\ Workers # {}

VARIABLES
  queue,     (* m_tasks                                                     *)
  stopping,  (* m_stopping                                                  *)
  owner,     (* program counter of the constructing / destroying thread     *)
  worker,    (* program counter of each worker                              *)
  job,       (* the task a worker popped and runs                           *)
  caller,    (* progress of the call that submits each task                 *)
  parent,    (* the worker that makes the call, as a set; {}: another thread*)
  accepted,  (* history: tasks in the order submit accepted them            *)
  started,   (* history: tasks in the order workers popped them             *)
  finished   (* history: tasks whose run returned                           *)

vars == <<queue, stopping, owner, worker, job, caller, parent,
          accepted, started, finished>>
calls   == <<caller, parent>>
history == <<accepted, started, finished>>

OwnerStates  == {"spawning", "open", "notifying", "joining", "gone"}
WorkerStates == {"unborn", "testing", "asleep", "running", "exited"}
CallerStates == {"idle", "notifying", "accepted", "refused"}

Init ==
  /\ queue = <<>> /\ stopping = FALSE
  /\ owner = "spawning"
  /\ worker = [w \in Workers |-> "unborn"]
  /\ job = [w \in Workers |-> {}]
  /\ caller = [t \in Tasks |-> "idle"] /\ parent = [t \in Tasks |-> {}]
  /\ accepted = <<>> /\ started = <<>> /\ finished = {}

-----------------------------------------------------------------------------
(* Construction and destruction *)

Spawn(w) ==
  /\ owner = "spawning" /\ worker[w] = "unborn"
  /\ worker' = [worker EXCEPT ![w] = "testing"]
  /\ owner' = IF \A v \in Workers \ {w} : worker[v] # "unborn" THEN "open" ELSE owner
  /\ UNCHANGED <<queue, stopping, job, calls, history>>

\* stopAndJoin, critical section.  The constructor calls it when a thread could not be
\* spawned, the destructor otherwise; an object is destroyed when no other thread is
\* inside one of its methods, but its own workers may still be running and submitting.
StopAndJoin ==
  /\ owner \in {"spawning", "open"}
  /\ \A t \in Tasks : caller[t] = "notifying" => parent[t] # {}
  /\ stopping' = TRUE
  /\ owner' = "notifying"
  /\ UNCHANGED <<queue, worker, job, calls, history>>

\* Mutant of Wake: the notification reaches nobody.
WakeNobody(W) == worker

Wake(W) == [w \in Workers |-> IF w \in W /\ worker[w] = "asleep" THEN "testing" ELSE worker[w]]

NotifyAll ==
  /\ owner = "notifying"
  /\ worker' = Wake(Workers)
  /\ owner' = "joining"
  /\ UNCHANGED <<queue, stopping, job, calls, history>>

\* Every join has returned; the object is destroyed.
Joined ==
  /\ owner = "joining"
  /\ \A w \in Workers : worker[w] \in {"unborn", "exited"}
  /\ owner' = "gone"
  /\ UNCHANGED <<queue, stopping, worker, job, calls, history>>

-----------------------------------------------------------------------------
(* submit *)

\* A call that submits t: by a thread outside the pool, which may do so between
\* construction and destruction, or by the task that worker w runs, P being {w}.
Calls(t, P) ==
  /\ caller[t] = "idle"
  /\ IF P = {} THEN owner = "open" ELSE \A w \in P : worker[w] = "running"
  /\ parent' = [parent EXCEPT ![t] = P]

\* submit, critical section.
Submit(t, P) ==
  /\ Calls(t, P)
  /\ ~stopping
  /\ queue' = Append(queue, t)
  /\ accepted' = Append(accepted, t)
  /\ caller' = [caller EXCEPT ![t] = "notifying"]
  /\ UNCHANGED <<stopping, owner, worker, job, started, finished>>

\* The scheduler is stopping, or the queue could not grow.
Refuse(t, P) ==
  /\ Calls(t, P)
  /\ caller' = [caller EXCEPT ![t] = "refused"]
  /\ UNCHANGED <<queue, stopping, owner, worker, job, history>>

\* m_ready.notify_one: one sleeping worker, if there is any.
NotifyOne(t) ==
  /\ caller[t] = "notifying"
  /\ caller' = [caller EXCEPT ![t] = "accepted"]
  /\ LET sleeping == {w \in Workers : worker[w] = "asleep"} IN
       IF sleeping = {} THEN UNCHANGED worker
       ELSE \E w \in sleeping : worker' = Wake({w})
  /\ UNCHANGED <<queue, stopping, owner, job, parent, history>>

-----------------------------------------------------------------------------
(* workerLoop *)

Sleep(w) ==
  /\ worker[w] = "testing"
  /\ ~stopping /\ queue = <<>>
  /\ worker' = [worker EXCEPT ![w] = "asleep"]
  /\ UNCHANGED <<queue, stopping, owner, job, calls, history>>

SpuriousWakeup(w) ==
  /\ worker[w] = "asleep"
  /\ worker' = Wake({w})
  /\ UNCHANGED <<queue, stopping, owner, job, calls, history>>

\* Mutant of MayExit: a stopping worker leaves its queue behind.
ExitAtOnce == stopping

\* A stopping worker leaves only when nothing is queued.
MayExit == stopping /\ queue = <<>>

Exit(w) ==
  /\ worker[w] = "testing"
  /\ MayExit
  /\ worker' = [worker EXCEPT ![w] = "exited"]
  /\ UNCHANGED <<queue, stopping, owner, job, calls, history>>

\* Mutant of Pop: the condition variable is waited for without a predicate.
PopUnchecked(w) ==
  /\ worker[w] = "testing" /\ ~MayExit
  /\ queue' = SubSeq(queue, 2, Len(queue))
  /\ job' = [job EXCEPT ![w] = IF queue = <<>> THEN {} ELSE {Head(queue)}]
  /\ started' = IF queue = <<>> THEN started ELSE Append(started, Head(queue))
  /\ worker' = [worker EXCEPT ![w] = "running"]
  /\ UNCHANGED <<stopping, owner, calls, accepted, finished>>

\* Mutant of Pop: the task is not taken off the queue.
PopWithoutRemoval(w) ==
  /\ worker[w] = "testing"
  /\ queue # <<>> /\ ~MayExit
  /\ job' = [job EXCEPT ![w] = {Head(queue)}]
  /\ started' = Append(started, Head(queue))
  /\ worker' = [worker EXCEPT ![w] = "running"]
  /\ UNCHANGED <<queue, stopping, owner, calls, accepted, finished>>

Pop(w) ==
  /\ worker[w] = "testing"
  /\ queue # <<>> /\ ~MayExit
  /\ queue' = Tail(queue)
  /\ job' = [job EXCEPT ![w] = {Head(queue)}]
  /\ started' = Append(started, Head(queue))
  /\ worker' = [worker EXCEPT ![w] = "running"]
  /\ UNCHANGED <<stopping, owner, calls, accepted, finished>>

\* task.run(task.ctx) returns, and the loop begins again.
TaskReturns(w) ==
  /\ worker[w] = "running"
  /\ \A t \in Tasks : w \in parent[t] => caller[t] # "notifying"
  /\ finished' = finished \cup job[w]
  /\ job' = [job EXCEPT ![w] = {}]
  /\ worker' = [worker EXCEPT ![w] = "testing"]
  /\ UNCHANGED <<queue, stopping, owner, calls, accepted, started>>

Next ==
  \/ StopAndJoin \/ NotifyAll \/ Joined
  \/ \E w \in Workers : \/ Spawn(w) \/ Sleep(w) \/ SpuriousWakeup(w)
                        \/ Exit(w) \/ Pop(w) \/ TaskReturns(w)
  \/ \E t \in Tasks : \/ NotifyOne(t)
                      \/ \E P \in {{}} \cup {{w} : w \in Workers} : Submit(t, P) \/ Refuse(t, P)

\* Threads that can run do run, and every task returns.  Nobody is obliged to submit
\* or to destroy the scheduler.
Fairness ==
  /\ WF_vars(NotifyAll) /\ WF_vars(Joined)
  /\ \A w \in Workers : WF_vars(Sleep(w) \/ Exit(w) \/ Pop(w) \/ TaskReturns(w))
  /\ \A t \in Tasks : WF_vars(NotifyOne(t))

Spec == Init /\ [][Next]_vars /\ Fairness

-----------------------------------------------------------------------------
(* Properties *)

\* The tasks of a sequence.
InSeq(s) == {s[i] : i \in DOMAIN s}

\* Every variable holds a value of its kind, and a running worker has one task.
TypeOK ==
  /\ queue \in Seq(Tasks) /\ accepted \in Seq(Tasks) /\ started \in Seq(Tasks)
  /\ stopping \in BOOLEAN
  /\ owner \in OwnerStates
  /\ worker \in [Workers -> WorkerStates]
  /\ job \in [Workers -> SUBSET Tasks]
  /\ \A w \in Workers :
       IF worker[w] = "running" THEN \E t \in Tasks : job[w] = {t} ELSE job[w] = {}
  /\ caller \in [Tasks -> CallerStates]
  /\ parent \in [Tasks -> SUBSET Workers]
  /\ finished \in SUBSET Tasks

\* First in, first out, nothing lost and nothing run twice: what was accepted is, in
\* order, what workers took followed by what is still queued.
AcceptedInOrder == accepted = started \o queue

\* When the destructor (or the failed constructor) is through, every worker thread has
\* ended, every accepted task has run to its end and no thread is still inside submit,
\* between its push and its notification: nothing outlives the scheduler.
JoinDrains ==
  owner = "gone" =>
    /\ \A w \in Workers : worker[w] \in {"unborn", "exited"}
    /\ queue = <<>>
    /\ InSeq(accepted) \subseteq finished
    /\ \A t \in Tasks : caller[t] # "notifying"

\* A scheduler asked to stop is eventually joined, whatever was queued.
StopTerminates == stopping ~> owner = "gone"

\* The default scheduler keeps the contract of ku_scheduler_t: refused tasks never run,
\* accepted ones run exactly once, and do run.
Fate(t) ==
  CASE caller[t] = "idle"    -> "new"
    [] caller[t] = "refused" -> "refused"
    [] t \in finished        -> "done"
    [] \E w \in Workers : t \in job[w] -> "running"
    [] OTHER -> "accepted"

Contract == INSTANCE TaskExecutor WITH
  fate <- [t \in Tasks |-> Fate(t)], closed <- (owner = "gone")

ImplementsExecutor == Contract!Spec
=============================================================================
