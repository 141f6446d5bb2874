---------------------------- MODULE KuCompletion ----------------------------
(***************************************************************************)
(* One KuCompletion object: runtime/src/KuCompletion.cpp, the tail of the  *)
(* worker task that signals it (KuHostTransfer.cpp, runTask), the caller   *)
(* that creates it (KuTensorInterop.cpp) and the clients of the C handle.  *)
(*                                                                         *)
(* Each critical section of m_mutex is one action; the code between two    *)
(* critical sections (a notification, a reference-count change, a callback)*)
(* is an action of its own.  The condition variable m_ready is the set of  *)
(* threads in pc "asleep": a notification or a spurious wakeup moves a     *)
(* thread to "awake", where it tests the predicate again.                  *)
(***************************************************************************)
EXTENDS Naturals, Sequences, FiniteSets

CONSTANTS
  Clients,    (* threads that use the completion through a counted handle   *)
  Creator,    (* the client that started the copy and got the first handle  *)
  Statuses,   (* final statuses of the copy                                 *)
  Pending     (* m_status before completion                                 *)

ASSUME CreatorAssumption == Creator \in Clients
ASSUME StatusAssumption == Pending \notin Statuses /\ Statuses # {}
\* The holders of a reference that are no client, see Holders.
ASSUME HolderAssumption == Clients \cap {"task", "userdata", "dispatch"} = {}

VARIABLES
  accept,     (* m_acceptRetainedObject                                     *)
  completed,  (* m_completed                                                *)
  status,     (* m_status                                                   *)
  registered, (* m_callbackRegistered                                       *)
  callback,   (* the client whose callback m_callback holds, as a set       *)
  picked,     (* signal's local copy of m_callback                          *)
  owners,     (* who holds a counted reference to the completion            *)
  deleted,    (* the reference count reached zero: "delete this" ran        *)
  tensorRefs, (* who holds a counted reference to the uploaded tensor       *)
  worker,     (* program counter of the thread that runs the copy task      *)
  pc,         (* program counter of each client                             *)
  answer,     (* history: what each client's last wait() returned           *)
  calls       (* history: the statuses each client's callback was called with *)

vars == <<accept, completed, status, registered, callback, picked, owners,
          deleted, tensorRefs, worker, pc, answer, calls>>

retention == <<accept, tensorRefs>>
outcome   == <<completed, status>>
slot      == <<registered, callback>>
lifetime  == <<owners, deleted>>
history   == <<answer, calls>>

\* References that are not a client's: the Task's m_completion, the one that
\* user_data owns for the callback to drop, and the one ref() takes around a call.
Holders == Clients \cup {"task", "userdata", "dispatch"}

WorkerStates == {"copying", "releasing", "prepared", "notify", "dispatch",
                 "calling", "reset", "gone"}
ClientStates == {"absent", "retain", "idle", "asleep", "awake", "inline",
                 "calling", "gone"}

Init ==
  /\ accept = TRUE /\ completed = FALSE /\ status = Pending
  /\ registered = FALSE /\ callback = {} /\ picked = {}
  /\ owners = {"task", Creator} /\ deleted = FALSE
  /\ tensorRefs = {"caller"}
  /\ worker = "copying"
  /\ pc = [c \in Clients |-> IF c = Creator THEN "retain" ELSE "absent"]
  /\ answer = [c \in Clients |-> Pending]
  /\ calls = [c \in Clients |-> <<>>]

-----------------------------------------------------------------------------
(* Reference counting *)

\* KuRefCounted::ref
Ref(h) == owners' = owners \cup {h} /\ UNCHANGED deleted

\* KuRefCounted::deref: the last reference deletes the object.
Deref(h) ==
  /\ owners' = owners \ {h}
  /\ deleted' = (deleted \/ owners \subseteq {h})

-----------------------------------------------------------------------------
(* The worker: runTask after copy() *)

\* prepareToSignal, critical section: from here on nothing is retained, and what
\* was retained is owned by a local of this thread.
CloseRetention ==
  /\ accept' = FALSE
  /\ tensorRefs' = IF "completion" \in tensorRefs
                   THEN (tensorRefs \ {"completion"}) \cup {"worker"}
                   ELSE tensorRefs

PrepareToSignal ==
  /\ worker = "copying"
  /\ worker' = "releasing"
  /\ CloseRetention
  /\ UNCHANGED <<outcome, slot, picked, lifetime, pc, history>>

\* prepareToSignal, end of scope: the local reference goes, outside the lock.
ReleaseRetained ==
  /\ worker = "releasing"
  /\ worker' = "prepared"
  /\ tensorRefs' = tensorRefs \ {"worker"}
  /\ UNCHANGED <<accept, outcome, slot, picked, lifetime, pc, history>>

\* signal, critical section.  Its own prepareToSignal finds retention closed and
\* returns.  The callback, if any, is picked up here.
Signal(s) ==
  /\ worker = "prepared"
  /\ ~completed
  /\ completed' = TRUE
  /\ status' = s
  /\ picked' = callback
  /\ worker' = "notify"
  /\ UNCHANGED <<retention, slot, lifetime, pc, history>>

\* Mutant of Wake: the notification is missing.
WakeNobody == pc

\* m_ready.notify_all, after the lock is released.
Wake == [c \in Clients |-> IF pc[c] = "asleep" THEN "awake" ELSE pc[c]]

NotifyAll ==
  /\ worker = "notify"
  /\ pc' = Wake
  /\ worker' = IF picked = {} THEN "reset" ELSE "dispatch"
  /\ UNCHANGED <<retention, outcome, slot, picked, lifetime, history>>

\* Mutant of Invoke: the callback runs without a reference of its own.
InvokeUnprotected(c) ==
  /\ UNCHANGED lifetime
  /\ calls' = [calls EXCEPT ![c] = Append(@, status)]

\* The callback of c is invoked with the final status, under a reference of its own.
Invoke(c) ==
  /\ Ref("dispatch")
  /\ calls' = [calls EXCEPT ![c] = Append(@, status)]

DispatchCallback ==
  /\ worker = "dispatch"
  /\ \E c \in picked : Invoke(c)
  /\ worker' = "calling"
  /\ UNCHANGED <<retention, outcome, slot, picked, pc, answer>>

\* While it runs, the callback may drop the reference its user_data owns.
CallbackDropsHandle ==
  /\ "userdata" \in owners
  /\ worker = "calling" \/ \E c \in Clients : pc[c] = "calling"
  /\ Deref("userdata")
  /\ UNCHANGED <<retention, outcome, slot, picked, worker, pc, history>>

\* The callback returns and deref() ends the invocation's own reference.
WorkerCallbackReturns ==
  /\ worker = "calling"
  /\ Deref("dispatch")
  /\ worker' = "reset"
  /\ UNCHANGED <<retention, outcome, slot, picked, pc, history>>

\* task->m_completion.reset()
ResetTask ==
  /\ worker = "reset"
  /\ Deref("task")
  /\ worker' = "gone"
  /\ UNCHANGED <<retention, outcome, slot, picked, pc, history>>

WorkerStep ==
  \/ PrepareToSignal \/ ReleaseRetained \/ (\E s \in Statuses : Signal(s))
  \/ NotifyAll \/ DispatchCallback \/ WorkerCallbackReturns \/ ResetTask

-----------------------------------------------------------------------------
(* The creating call and the clients *)

\* Mutant of RetainUntilCompletion: the tensor is retained after retention was closed.
RetainAlways ==
  /\ pc[Creator] = "retain"
  /\ pc' = [pc EXCEPT ![Creator] = "idle"]
  /\ tensorRefs' = tensorRefs \cup {"completion"}
  /\ UNCHANGED <<accept, outcome, slot, picked, lifetime, worker, history>>

\* ku_tensor_create_from_host_async, after copyAsync succeeded: the completion keeps
\* the tensor unless the worker has already closed retention.
RetainUntilCompletion ==
  /\ pc[Creator] = "retain"
  /\ pc' = [pc EXCEPT ![Creator] = "idle"]
  /\ tensorRefs' = IF accept THEN tensorRefs \cup {"completion"} ELSE tensorRefs
  /\ UNCHANGED <<accept, outcome, slot, picked, lifetime, worker, history>>

\* The user releases the tensor handle, which it may do while the copy is running.
ReleaseTensor ==
  /\ pc[Creator] # "retain"
  /\ "caller" \in tensorRefs
  /\ tensorRefs' = tensorRefs \ {"caller"}
  /\ UNCHANGED <<accept, outcome, slot, picked, lifetime, worker, pc, history>>

\* ku_completion_retain on behalf of another thread.
Share(c, d) ==
  /\ pc[c] = "idle" /\ pc[d] = "absent"
  /\ Ref(d)
  /\ pc' = [pc EXCEPT ![d] = "idle"]
  /\ UNCHANGED <<retention, outcome, slot, picked, worker, history>>

\* ku_completion_release
Release(c) ==
  /\ pc[c] = "idle"
  /\ Deref(c)
  /\ pc' = [pc EXCEPT ![c] = "gone"]
  /\ UNCHANGED <<retention, outcome, slot, picked, worker, history>>

\* The predicate of m_ready.wait, tested under the lock: return m_status or sleep.
TestReady(c) ==
  /\ IF completed
     THEN /\ pc' = [pc EXCEPT ![c] = "idle"]
          /\ answer' = [answer EXCEPT ![c] = status]
     ELSE /\ pc' = [pc EXCEPT ![c] = "asleep"]
          /\ UNCHANGED answer
  /\ UNCHANGED <<retention, outcome, slot, picked, lifetime, worker, calls>>

Wait(c)    == pc[c] = "idle" /\ TestReady(c)
Recheck(c) == pc[c] = "awake" /\ TestReady(c)

SpuriousWakeup(c) ==
  /\ pc[c] = "asleep"
  /\ pc' = [pc EXCEPT ![c] = "awake"]
  /\ UNCHANGED <<retention, outcome, slot, picked, lifetime, worker, history>>

\* Before registering, a client may give user_data a reference: its own (and then it
\* may not use the handle again) or an additional one.
UserDataOwners(c) ==
  {owners, owners \cup {"userdata"}, (owners \ {c}) \cup {"userdata"}}

\* Mutant of AfterRegistration: m_completed is not consulted, the callback runs at once.
RunAtOnce(c, held) == "inline"

\* Mutant of AfterRegistration: a registration after completion never runs its callback.
LeaveToSignal(c, held) == IF c \in held THEN "idle" ELSE "gone"

\* What the client does next once its registration was accepted.
AfterRegistration(c, held) ==
  IF completed THEN "inline" ELSE IF c \in held THEN "idle" ELSE "gone"

\* onCompletion, critical section.  A null callback and a second registration return
\* an error and change nothing.
OnCompletion(c) ==
  /\ pc[c] = "idle"
  /\ ~registered
  /\ registered' = TRUE
  /\ callback' = IF completed THEN callback ELSE {c}
  /\ \E held \in UserDataOwners(c) :
       /\ owners' = held
       /\ pc' = [pc EXCEPT ![c] = AfterRegistration(c, held)]
  /\ UNCHANGED <<retention, outcome, picked, deleted, worker, history>>

\* onCompletion, invokeNow: the callback runs on the registering thread.
InvokeNow(c) ==
  /\ pc[c] = "inline"
  /\ Invoke(c)
  /\ pc' = [pc EXCEPT ![c] = "calling"]
  /\ UNCHANGED <<retention, outcome, slot, picked, worker, answer>>

InlineCallbackReturns(c) ==
  /\ pc[c] = "calling"
  /\ Deref("dispatch")
  /\ pc' = [pc EXCEPT ![c] = IF c \in owners THEN "idle" ELSE "gone"]
  /\ UNCHANGED <<retention, outcome, slot, picked, worker, history>>

ClientStep(c) ==
  \/ Wait(c) \/ Recheck(c) \/ SpuriousWakeup(c)
  \/ OnCompletion(c) \/ InvokeNow(c) \/ InlineCallbackReturns(c)
  \/ Release(c) \/ (\E d \in Clients : Share(c, d))

Next ==
  \/ WorkerStep
  \/ RetainUntilCompletion
  \/ ReleaseTensor
  \/ CallbackDropsHandle
  \/ \E c \in Clients : ClientStep(c)

\* The worker thread keeps running, a woken thread gets the mutex, a callback returns.
\* Nothing obliges a client to wait, register or release.
Fairness ==
  /\ WF_vars(WorkerStep)
  /\ \A c \in Clients :
       WF_vars(Recheck(c) \/ InvokeNow(c) \/ InlineCallbackReturns(c))

Spec == Init /\ [][Next]_vars /\ Fairness

-----------------------------------------------------------------------------
(* Properties *)

\* Every variable holds a value of its kind.
TypeOK ==
  /\ accept \in BOOLEAN /\ completed \in BOOLEAN /\ registered \in BOOLEAN
  /\ deleted \in BOOLEAN
  /\ status \in Statuses \cup {Pending}
  /\ callback \in SUBSET Clients /\ picked \in SUBSET Clients
  /\ owners \in SUBSET Holders
  /\ tensorRefs \in SUBSET {"caller", "completion", "worker"}
  /\ worker \in WorkerStates
  /\ pc \in [Clients -> ClientStates]
  /\ answer \in [Clients -> Statuses \cup {Pending}]
  /\ calls \in [Clients -> Seq(Statuses)]

\* No thread is inside a method of a deleted completion: not the worker between its
\* notification and the reset of its task, not a waiter that is about to read m_status,
\* not the thread that runs a callback which drops the last counted handle.
NoUseAfterDelete ==
  deleted => /\ worker = "gone"
             /\ \A c \in Clients : pc[c] \in {"absent", "gone"}

\* The uploaded tensor is alive while the worker writes to it, whatever the user has
\* released; and by the time the result can be observed the runtime's own reference is
\* gone, so that a user who drops the tensor after waiting really frees it.
TensorProtected ==
  /\ worker = "copying" => tensorRefs # {}
  /\ completed => tensorRefs \subseteq {"caller"}

\* Clients whose callback has run.
Called == {c \in Clients : calls[c] # <<>>}

\* The callback of at most one client runs, once, with the final status and not before
\* it is set; and when the worker is done a registered callback has run or is about to
\* run inside onCompletion: the registration is lost on neither side of the race.
CallbackExactlyOnce ==
  /\ Cardinality(Called) <= 1
  /\ \A c \in Called : completed /\ calls[c] = <<status>>
  /\ (registered /\ worker \in {"reset", "gone"})
       => \/ Called # {}
          \/ \E c \in Clients : pc[c] = "inline"

\* The status the callback was called with, once it was.
Delivered ==
  IF Called = {} THEN Pending ELSE calls[CHOOSE c \in Called : TRUE][1]

\* KuCompletion implements the one-shot completion: waiters return only the final
\* status, and do return; the callback is delivered once, and is delivered.
Abstract == INSTANCE OneShotCompletion WITH
  result <- status,
  waiting <- {c \in Clients : pc[c] \in {"asleep", "awake"}},
  delivered <- Delivered

ImplementsOneShot == Abstract!Spec
=============================================================================
