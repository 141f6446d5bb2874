------------------------ MODULE KuCompletion_proofs ------------------------
(***************************************************************************)
(* Proofs about KuCompletion for every set of clients and statuses: no     *)
(* method runs on a deleted completion, the tensor outlives the copy, a    *)
(* callback runs at most once and is not lost, every step is a step of the *)
(* one-shot completion or leaves it unchanged, the waiters agree on one    *)
(* result, and none of them sleeps through it.                             *)
(***************************************************************************)
EXTENDS KuCompletion, FiniteSetTheorems, TLAPS

\* Whoever may still use the completion holds a reference to it, or one is held on
\* its behalf: by user_data until the callback starts, by the invocation from then on.
OwnersInv ==
  /\ worker # "gone" => "task" \in owners
  /\ worker = "calling" => "dispatch" \in owners
  /\ \A c \in Clients :
       /\ pc[c] \in {"retain", "idle", "asleep", "awake"} => c \in owners
       /\ pc[c] = "inline" => c \in owners \/ "userdata" \in owners
       /\ pc[c] = "calling" => "dispatch" \in owners
  /\ deleted => owners = {}

\* The program counter of the worker decides what it has published.
StatusInv ==
  /\ completed <=> worker \in {"notify", "dispatch", "calling", "reset", "gone"}
  /\ accept <=> worker = "copying"
  /\ IF completed THEN status \in Statuses ELSE status = Pending

\* Who holds the tensor, by how far its creation and the copy have come.
TensorInv ==
  /\ pc[Creator] = "retain" => "caller" \in tensorRefs
  /\ pc[Creator] # "retain" /\ worker = "copying" => "completion" \in tensorRefs
  /\ "completion" \in tensorRefs => worker = "copying"
  /\ "worker" \in tensorRefs => worker = "releasing"
  /\ \A c \in Clients : pc[c] = "retain" => c = Creator

\* The registered callback is either stored, and then signal runs it, or about to run
\* on the thread that registered it; never both, and never on two threads.
SlotInv ==
  /\ IF completed THEN picked = callback ELSE picked = {}
  /\ \A c, d \in callback : c = d
  /\ callback # {} => registered
  /\ worker \in {"dispatch", "calling"} => callback # {}
  /\ \A c \in Clients :
       pc[c] \in {"inline", "calling"} => registered /\ completed /\ callback = {}
  /\ \A c, d \in Clients :
       pc[c] \in {"inline", "calling"} /\ pc[d] \in {"inline", "calling"} => c = d

\* How far the registered callback has come decides whether it has run.
CalledInv ==
  /\ ~registered => Called = {}
  /\ callback # {} => Called = IF worker \in {"calling", "reset", "gone"} THEN callback ELSE {}
  /\ \A c \in Clients : /\ pc[c] = "inline" => Called = {}
                        /\ pc[c] = "calling" => Called = {c}
  /\ registered /\ callback = {} => Called # {} \/ \E c \in Clients : pc[c] = "inline"
  /\ \A c, d \in Called : c = d
  /\ \A c \in Called : completed /\ calls[c] = <<status>>

Inv == TypeOK /\ OwnersInv /\ StatusInv /\ TensorInv /\ SlotInv /\ CalledInv

-----------------------------------------------------------------------------
(* One lemma per action: it preserves each part of the invariant.         *)

LEMMA PrepareToSignalStep ==
  ASSUME Inv, PrepareToSignal
  PROVE  Inv'
<1>1. TypeOK'
  BY DEF Inv, TypeOK, WorkerStates, PrepareToSignal, CloseRetention, outcome, slot, lifetime,
         history
<1>2. OwnersInv'
  BY DEF Inv, OwnersInv, PrepareToSignal, lifetime
<1>3. StatusInv'
  BY DEF Inv, StatusInv, PrepareToSignal, CloseRetention, outcome
<1>4. TensorInv'
  BY DEF Inv, TensorInv, PrepareToSignal, CloseRetention
<1>5. SlotInv'
  BY DEF Inv, SlotInv, PrepareToSignal, outcome, slot
<1>6. CalledInv'
  <2>1. Called' = Called
    BY DEF Called, PrepareToSignal, history
  <2> QED BY <2>1 DEF Inv, CalledInv, PrepareToSignal, outcome, slot, history
<1> QED BY <1>1, <1>2, <1>3, <1>4, <1>5, <1>6 DEF Inv

LEMMA ReleaseRetainedStep ==
  ASSUME Inv, ReleaseRetained
  PROVE  Inv'
<1>1. TypeOK'
  BY DEF Inv, TypeOK, WorkerStates, ReleaseRetained, outcome, slot, lifetime, history
<1>2. OwnersInv'
  BY DEF Inv, OwnersInv, ReleaseRetained, lifetime
<1>3. StatusInv'
  BY DEF Inv, StatusInv, ReleaseRetained, outcome
<1>4. TensorInv'
  BY DEF Inv, TensorInv, ReleaseRetained
<1>5. SlotInv'
  BY DEF Inv, SlotInv, ReleaseRetained, outcome, slot
<1>6. CalledInv'
  <2>1. Called' = Called
    BY DEF Called, ReleaseRetained, history
  <2> QED BY <2>1 DEF Inv, CalledInv, ReleaseRetained, outcome, slot, history
<1> QED BY <1>1, <1>2, <1>3, <1>4, <1>5, <1>6 DEF Inv

LEMMA SignalStep ==
  ASSUME Inv, NEW s \in Statuses, Signal(s)
  PROVE  Inv'
<1>1. TypeOK'
  BY DEF Inv, TypeOK, WorkerStates, Signal, retention, slot, lifetime, history
<1>2. OwnersInv'
  BY DEF Inv, OwnersInv, Signal, lifetime
<1>3. StatusInv'
  BY DEF Inv, StatusInv, Signal, retention
<1>4. TensorInv'
  BY DEF Inv, TensorInv, Signal, retention
<1>5. SlotInv'
  BY DEF Inv, SlotInv, Signal, slot
<1>6. CalledInv'
  <2>1. Called' = Called
    BY DEF Called, Signal, history
  <2> QED BY <2>1 DEF Inv, CalledInv, Signal, slot
<1> QED BY <1>1, <1>2, <1>3, <1>4, <1>5, <1>6 DEF Inv

LEMMA NotifyAllStep ==
  ASSUME Inv, NotifyAll
  PROVE  Inv'
<1>1. TypeOK'
  BY DEF Inv, TypeOK, WorkerStates, ClientStates, NotifyAll, Wake, retention, outcome, slot,
         lifetime, history
<1>2. OwnersInv'
  BY DEF Inv, OwnersInv, NotifyAll, Wake, lifetime
<1>3. StatusInv'
  BY DEF Inv, StatusInv, NotifyAll, retention, outcome
<1>4. TensorInv'
  BY CreatorAssumption DEF Inv, TensorInv, NotifyAll, Wake, retention
<1>5. SlotInv'
  BY DEF Inv, SlotInv, NotifyAll, Wake, outcome, slot
<1>6. CalledInv'
  <2>1. Called' = Called
    BY DEF Called, NotifyAll, history
  <2> QED
    BY <2>1 DEF Inv, StatusInv, SlotInv, CalledInv, NotifyAll, Wake, outcome, slot, history
<1> QED BY <1>1, <1>2, <1>3, <1>4, <1>5, <1>6 DEF Inv

LEMMA CallbackDropsHandleStep ==
  ASSUME Inv, CallbackDropsHandle
  PROVE  Inv'
<1>1. TypeOK'
  BY DEF Inv, TypeOK, CallbackDropsHandle, Deref, retention, outcome, slot, history
<1>2. OwnersInv'
  BY HolderAssumption DEF Inv, OwnersInv, SlotInv, CallbackDropsHandle, Deref
<1>3. StatusInv'
  BY DEF Inv, StatusInv, CallbackDropsHandle, retention, outcome
<1>4. TensorInv'
  BY DEF Inv, TensorInv, CallbackDropsHandle, retention
<1>5. SlotInv'
  BY DEF Inv, SlotInv, CallbackDropsHandle, outcome, slot
<1>6. CalledInv'
  <2>1. Called' = Called
    BY DEF Called, CallbackDropsHandle, history
  <2> QED BY <2>1 DEF Inv, CalledInv, CallbackDropsHandle, outcome, slot, history
<1> QED BY <1>1, <1>2, <1>3, <1>4, <1>5, <1>6 DEF Inv

LEMMA WorkerCallbackReturnsStep ==
  ASSUME Inv, WorkerCallbackReturns
  PROVE  Inv'
<1>1. TypeOK'
  BY DEF Inv, TypeOK, WorkerStates, WorkerCallbackReturns, Deref, retention, outcome, slot,
         history
<1>2. OwnersInv'
  BY HolderAssumption DEF Inv, OwnersInv, SlotInv, WorkerCallbackReturns, Deref
<1>3. StatusInv'
  BY DEF Inv, StatusInv, WorkerCallbackReturns, retention, outcome
<1>4. TensorInv'
  BY DEF Inv, TensorInv, WorkerCallbackReturns, retention
<1>5. SlotInv'
  BY DEF Inv, SlotInv, WorkerCallbackReturns, outcome, slot
<1>6. CalledInv'
  <2>1. Called' = Called
    BY DEF Called, WorkerCallbackReturns, history
  <2> QED BY <2>1 DEF Inv, CalledInv, WorkerCallbackReturns, outcome, slot, history
<1> QED BY <1>1, <1>2, <1>3, <1>4, <1>5, <1>6 DEF Inv

LEMMA ResetTaskStep ==
  ASSUME Inv, ResetTask
  PROVE  Inv'
<1>1. TypeOK'
  BY DEF Inv, TypeOK, WorkerStates, ResetTask, Deref, retention, outcome, slot, history
<1>2. OwnersInv'
  BY HolderAssumption DEF Inv, OwnersInv, ResetTask, Deref
<1>3. StatusInv'
  BY DEF Inv, StatusInv, ResetTask, retention, outcome
<1>4. TensorInv'
  BY DEF Inv, TensorInv, ResetTask, retention
<1>5. SlotInv'
  BY DEF Inv, SlotInv, ResetTask, outcome, slot
<1>6. CalledInv'
  <2>1. Called' = Called
    BY DEF Called, ResetTask, history
  <2> QED BY <2>1 DEF Inv, CalledInv, ResetTask, outcome, slot, history
<1> QED BY <1>1, <1>2, <1>3, <1>4, <1>5, <1>6 DEF Inv

LEMMA RetainUntilCompletionStep ==
  ASSUME Inv, RetainUntilCompletion
  PROVE  Inv'
<1>1. TypeOK'
  BY DEF Inv, TypeOK, StatusInv, Holders, ClientStates, RetainUntilCompletion, outcome, slot,
         lifetime, history
<1>2. OwnersInv'
  BY DEF Inv, OwnersInv, RetainUntilCompletion, lifetime
<1>3. StatusInv'
  BY DEF Inv, StatusInv, RetainUntilCompletion, outcome
<1>4. TensorInv'
  BY DEF Inv, StatusInv, TensorInv, RetainUntilCompletion
<1>5. SlotInv'
  BY DEF Inv, SlotInv, RetainUntilCompletion, outcome, slot
<1>6. CalledInv'
  <2>1. Called' = Called
    BY DEF Called, RetainUntilCompletion, history
  <2> QED BY <2>1 DEF Inv, CalledInv, RetainUntilCompletion, outcome, slot, history
<1> QED BY <1>1, <1>2, <1>3, <1>4, <1>5, <1>6 DEF Inv

LEMMA ReleaseTensorStep ==
  ASSUME Inv, ReleaseTensor
  PROVE  Inv'
<1>1. TypeOK'
  BY DEF Inv, TypeOK, ReleaseTensor, outcome, slot, lifetime, history
<1>2. OwnersInv'
  BY DEF Inv, OwnersInv, ReleaseTensor, lifetime
<1>3. StatusInv'
  BY DEF Inv, StatusInv, ReleaseTensor, outcome
<1>4. TensorInv'
  BY DEF Inv, TensorInv, ReleaseTensor
<1>5. SlotInv'
  BY DEF Inv, SlotInv, ReleaseTensor, outcome, slot
<1>6. CalledInv'
  <2>1. Called' = Called
    BY DEF Called, ReleaseTensor, history
  <2> QED BY <2>1 DEF Inv, CalledInv, ReleaseTensor, outcome, slot, history
<1> QED BY <1>1, <1>2, <1>3, <1>4, <1>5, <1>6 DEF Inv

LEMMA TestReadyStep ==
  ASSUME Inv, NEW c \in Clients, pc[c] \in {"idle", "awake"}, TestReady(c)
  PROVE  Inv'
<1>1. /\ pc \in [Clients -> ClientStates]
      /\ pc' = [pc EXCEPT ![c] = IF completed THEN "idle" ELSE "asleep"]
      /\ answer' = IF completed THEN [answer EXCEPT ![c] = status] ELSE answer
  BY DEF Inv, TypeOK, TestReady
<1>2. UNCHANGED <<accept, tensorRefs, completed, status, registered, callback, picked, owners,
                  deleted, worker, calls>>
  BY DEF TestReady, retention, outcome, slot, lifetime
<1>3. TypeOK'
  <2>1. answer' \in [Clients -> Statuses \cup {Pending}]
    BY <1>1 DEF Inv, TypeOK
  <2> QED BY <1>1, <1>2, <2>1 DEF Inv, TypeOK, ClientStates
<1>4. OwnersInv'
  BY <1>1, <1>2 DEF Inv, OwnersInv
<1>5. StatusInv'
  BY <1>2 DEF Inv, StatusInv
<1>6. TensorInv'
  BY <1>1, <1>2, CreatorAssumption DEF Inv, TensorInv
<1>7. SlotInv'
  BY <1>1, <1>2 DEF Inv, SlotInv
<1>8. CalledInv'
  <2>1. Called' = Called
    BY <1>2 DEF Called
  <2> QED BY <1>1, <1>2, <2>1 DEF Inv, CalledInv
<1> QED BY <1>3, <1>4, <1>5, <1>6, <1>7, <1>8 DEF Inv

LEMMA SpuriousWakeupStep ==
  ASSUME Inv, NEW c \in Clients, SpuriousWakeup(c)
  PROVE  Inv'
<1>1. TypeOK'
  BY DEF Inv, TypeOK, ClientStates, SpuriousWakeup, retention, outcome, slot, lifetime, history
<1>2. OwnersInv'
  BY DEF Inv, OwnersInv, SpuriousWakeup, lifetime
<1>3. StatusInv'
  BY DEF Inv, StatusInv, SpuriousWakeup, retention, outcome
<1>4. TensorInv'
  BY DEF Inv, TensorInv, SpuriousWakeup, retention
<1>5. SlotInv'
  BY DEF Inv, SlotInv, SpuriousWakeup, outcome, slot
<1>6. CalledInv'
  <2>1. Called' = Called
    BY DEF Called, SpuriousWakeup, history
  <2> QED BY <2>1 DEF Inv, CalledInv, SpuriousWakeup, outcome, slot, history
<1> QED BY <1>1, <1>2, <1>3, <1>4, <1>5, <1>6 DEF Inv

LEMMA ReleaseStep ==
  ASSUME Inv, NEW c \in Clients, Release(c)
  PROVE  Inv'
<1>1. TypeOK'
  BY DEF Inv, TypeOK, ClientStates, Release, Deref, retention, outcome, slot, history
<1>2. OwnersInv'
  BY HolderAssumption DEF Inv, TypeOK, OwnersInv, Release, Deref
<1>3. StatusInv'
  BY DEF Inv, StatusInv, Release, retention, outcome
<1>4. TensorInv'
  BY DEF Inv, TensorInv, Release, retention
<1>5. SlotInv'
  BY DEF Inv, SlotInv, Release, outcome, slot
<1>6. CalledInv'
  <2>1. Called' = Called
    BY DEF Called, Release, history
  <2> QED BY <2>1 DEF Inv, CalledInv, Release, outcome, slot, history
<1> QED BY <1>1, <1>2, <1>3, <1>4, <1>5, <1>6 DEF Inv

LEMMA ShareStep ==
  ASSUME Inv, NEW c \in Clients, NEW d \in Clients, Share(c, d)
  PROVE  Inv'
<1>1. TypeOK'
  BY DEF Inv, TypeOK, Holders, Share, Ref, retention, outcome, slot, history
<1>2. OwnersInv'
  BY DEF Inv, OwnersInv, Share, Ref
<1>3. StatusInv'
  BY DEF Inv, StatusInv, Share, retention, outcome
<1>4. TensorInv'
  BY DEF Inv, TensorInv, Share, retention
<1>5. SlotInv'
  BY DEF Inv, SlotInv, Share, outcome, slot
<1>6. CalledInv'
  <2>1. Called' = Called
    BY DEF Called, Share, history
  <2> QED BY <2>1 DEF Inv, CalledInv, Share, outcome, slot, history
<1> QED BY <1>1, <1>2, <1>3, <1>4, <1>5, <1>6 DEF Inv

LEMMA OnCompletionStep ==
  ASSUME Inv, NEW c \in Clients, OnCompletion(c)
  PROVE  Inv'
<1>1. TypeOK'
  BY DEF Inv, TypeOK, Holders, ClientStates, OnCompletion, UserDataOwners, AfterRegistration,
         retention, outcome, history
<1>2. OwnersInv'
  BY HolderAssumption
     DEF Inv, TypeOK, OwnersInv, OnCompletion, UserDataOwners, AfterRegistration
<1>3. StatusInv'
  BY DEF Inv, StatusInv, OnCompletion, retention, outcome
<1>4. TensorInv'
  BY DEF Inv, TensorInv, OnCompletion, AfterRegistration, retention
<1>5. SlotInv'
  BY DEF Inv, SlotInv, OnCompletion, AfterRegistration, outcome
<1>6. CalledInv'
  <2>1. Called' = Called /\ Called = {} /\ callback = {} /\ registered'
    BY DEF Called, OnCompletion, history, Inv, SlotInv, CalledInv
  <2>2. /\ UNCHANGED <<completed, status, worker>>
        /\ completed <=> worker \notin {"copying", "releasing", "prepared"}
    BY DEF OnCompletion, outcome, Inv, TypeOK, StatusInv, WorkerStates
  <2>3. callback' = (IF completed THEN {} ELSE {c}) /\ (completed => pc'[c] = "inline")
    BY <2>1 DEF OnCompletion, AfterRegistration, Inv, TypeOK
  <2>4. \A d \in Clients : pc'[d] \in {"inline", "calling"} => d = c /\ pc'[d] = "inline"
    BY DEF OnCompletion, AfterRegistration, Inv, TypeOK, SlotInv
  <2> QED BY <2>1, <2>2, <2>3, <2>4 DEF CalledInv
<1> QED BY <1>1, <1>2, <1>3, <1>4, <1>5, <1>6 DEF Inv

LEMMA InlineCallbackReturnsStep ==
  ASSUME Inv, NEW c \in Clients, InlineCallbackReturns(c)
  PROVE  Inv'
<1>1. TypeOK'
  BY DEF Inv, TypeOK, ClientStates, InlineCallbackReturns, Deref, retention, outcome, slot,
         history
<1>2. OwnersInv'
  BY HolderAssumption DEF Inv, TypeOK, OwnersInv, SlotInv, InlineCallbackReturns, Deref
<1>3. StatusInv'
  BY DEF Inv, StatusInv, InlineCallbackReturns, retention, outcome
<1>4. TensorInv'
  BY DEF Inv, TensorInv, InlineCallbackReturns, retention
<1>5. SlotInv'
  BY DEF Inv, SlotInv, InlineCallbackReturns, outcome, slot
<1>6. CalledInv'
  <2>1. Called' = Called
    BY DEF Called, InlineCallbackReturns, history
  <2> QED BY <2>1 DEF Inv, CalledInv, InlineCallbackReturns, outcome, slot, history
<1> QED BY <1>1, <1>2, <1>3, <1>4, <1>5, <1>6 DEF Inv
\* The callback of the client whose turn it is has not run; now it has, with the final
\* status, and under a reference of its own.
LEMMA InvokeEffect ==
  ASSUME Inv, completed, NEW c \in Clients, Called = {}, Invoke(c)
  PROVE  /\ Called' = {c} /\ calls'[c] = <<status>>
         /\ calls' \in [Clients -> Seq(Statuses)]
         /\ owners' = owners \cup {"dispatch"} /\ deleted' = deleted
<1>1. calls \in [Clients -> Seq(Statuses)] /\ \A d \in Clients : calls[d] = <<>>
  BY DEF Inv, TypeOK, Called
<1>2. status \in Statuses
  BY DEF Inv, StatusInv
<1>3. calls' = [calls EXCEPT ![c] = <<status>>]
  <2>1. Append(<<>>, status) = <<status>>
    OBVIOUS
  <2> QED BY <1>1, <2>1, Zenon DEF Invoke
<1>4. <<status>> \in Seq(Statuses) /\ <<status>> # <<>>
  BY <1>2
<1>5. /\ calls'[c] = <<status>> /\ calls' \in [Clients -> Seq(Statuses)]
      /\ \A d \in Clients : d # c => calls'[d] = <<>>
  BY <1>1, <1>3, <1>4
<1>6. Called' = {c}
  BY <1>4, <1>5, Zenon DEF Called
<1> QED BY <1>5, <1>6 DEF Invoke, Ref

LEMMA DispatchCallbackStep == ASSUME Inv, DispatchCallback PROVE Inv'
<1>1. PICK c \in picked : Invoke(c)
  BY DEF DispatchCallback
<1>2. completed /\ picked = callback /\ callback = {c} /\ c \in Clients /\ Called = {} /\ registered
  BY DEF Inv, TypeOK, SlotInv, CalledInv, DispatchCallback
<1>3. /\ worker = "dispatch" /\ worker' = "calling"
      /\ UNCHANGED <<accept, tensorRefs, completed, status, registered, callback, picked,
                      pc, answer>>
  BY DEF DispatchCallback, retention, outcome, slot
<1>4. /\ Called' = {c} /\ calls'[c] = <<status>> /\ calls' \in [Clients -> Seq(Statuses)]
      /\ owners' = owners \cup {"dispatch"} /\ deleted' = deleted
  BY <1>1, <1>2, InvokeEffect
<1>5. TypeOK'
  BY <1>3, <1>4 DEF Inv, TypeOK, Holders, WorkerStates
<1>6. OwnersInv'
  BY <1>3, <1>4 DEF Inv, OwnersInv
<1>7. StatusInv' /\ TensorInv'
  BY <1>3 DEF Inv, StatusInv, TensorInv
<1>8. SlotInv'
  BY <1>3 DEF Inv, SlotInv
<1>9. CalledInv'
  BY <1>3, <1>4 DEF Inv, SlotInv, CalledInv
<1> QED BY <1>5, <1>6, <1>7, <1>8, <1>9 DEF Inv

LEMMA InvokeNowStep == ASSUME Inv, NEW c \in Clients, InvokeNow(c) PROVE Inv'
<1>1. completed /\ registered /\ callback = {} /\ Called = {}
  BY DEF Inv, SlotInv, CalledInv, InvokeNow
<1>2. /\ pc[c] = "inline" /\ pc' = [pc EXCEPT ![c] = "calling"] /\ pc \in [Clients -> ClientStates]
      /\ UNCHANGED <<accept, tensorRefs, completed, status, registered, callback, picked,
                      worker, answer>>
  BY DEF InvokeNow, retention, outcome, slot, Inv, TypeOK
<1>3. /\ Called' = {c} /\ calls'[c] = <<status>> /\ calls' \in [Clients -> Seq(Statuses)]
      /\ owners' = owners \cup {"dispatch"} /\ deleted' = deleted
  BY <1>1, InvokeEffect DEF InvokeNow
<1>4. TypeOK'
  BY <1>2, <1>3 DEF Inv, TypeOK, Holders, ClientStates
<1>5. OwnersInv'
  BY <1>2, <1>3 DEF Inv, OwnersInv
<1>6. StatusInv' /\ TensorInv'
  BY <1>2 DEF Inv, StatusInv, TensorInv
<1>7. SlotInv'
  BY <1>2 DEF Inv, SlotInv
<1>8. CalledInv'
  BY <1>2, <1>3 DEF Inv, SlotInv, CalledInv
<1> QED BY <1>4, <1>5, <1>6, <1>7, <1>8 DEF Inv

-----------------------------------------------------------------------------
(* The invariant and what follows from it.                                 *)

LEMMA InitInv == Init => Inv
<1> SUFFICES ASSUME Init PROVE Inv
  OBVIOUS
<1>1. TypeOK
  <2>1. <<>> \in Seq(Statuses)
    OBVIOUS
  <2> QED BY <2>1, CreatorAssumption DEF Init, TypeOK, Holders, WorkerStates, ClientStates
<1>2. Called = {}
  BY DEF Init, Called
<1>3. OwnersInv /\ StatusInv /\ TensorInv
  BY CreatorAssumption DEF Init, OwnersInv, StatusInv, TensorInv
<1>4. SlotInv /\ CalledInv
  BY <1>2 DEF Init, SlotInv, CalledInv
<1> QED BY <1>1, <1>3, <1>4 DEF Inv

\* Every step preserves the invariant.
LEMMA StepInv == Inv /\ [Next]_vars => Inv'
<1> SUFFICES ASSUME Inv, [Next]_vars PROVE Inv'
  OBVIOUS
<1>1. CASE WorkerStep
  BY <1>1, PrepareToSignalStep, ReleaseRetainedStep, SignalStep, NotifyAllStep,
     DispatchCallbackStep, WorkerCallbackReturnsStep, ResetTaskStep DEF WorkerStep
<1>2. ASSUME NEW c \in Clients, ClientStep(c) PROVE Inv'
  <2>1. CASE Wait(c) \/ Recheck(c)
    BY <2>1, TestReadyStep DEF Wait, Recheck
  <2>2. CASE \E d \in Clients : Share(c, d)
    BY <2>2, ShareStep
  <2> QED
    BY <1>2, <2>1, <2>2, SpuriousWakeupStep, OnCompletionStep, InvokeNowStep,
       InlineCallbackReturnsStep, ReleaseStep DEF ClientStep
<1>3. CASE UNCHANGED vars
  <2>1. Called' = Called
    BY <1>3 DEF vars, Called
  <2> QED BY <1>3, <2>1 DEF vars, Inv, TypeOK, OwnersInv, StatusInv, TensorInv, SlotInv, CalledInv
<1> QED
  BY <1>1, <1>2, <1>3, RetainUntilCompletionStep, ReleaseTensorStep, CallbackDropsHandleStep
     DEF Next

LEMMA InvHolds == Spec => []Inv
  BY InitInv, StepInv, PTL DEF Spec

\* Every variable keeps a value of its kind.
THEOREM TypeCorrect == Spec => []TypeOK
<1>1. Inv => TypeOK
  BY DEF Inv
<1> QED BY <1>1, InvHolds, PTL

\* No thread runs a method of a completion whose last reference was dropped: neither the
\* worker up to the reset of its task, nor a waiter, nor the thread a callback runs on.
THEOREM NoMethodAfterDelete == Spec => []NoUseAfterDelete
<1>1. Inv => NoUseAfterDelete
  BY DEF Inv, TypeOK, ClientStates, OwnersInv, NoUseAfterDelete
<1> QED BY <1>1, InvHolds, PTL

\* The tensor is owned while the worker copies into it, and by the user alone when the
\* result is there.
THEOREM TensorOutlivesCopy == Spec => []TensorProtected
<1>1. Inv => TensorProtected
  BY DEF Inv, TypeOK, StatusInv, TensorInv, TensorProtected
<1> QED BY <1>1, InvHolds, PTL

\* One callback runs, once and with the final status, and signal and onCompletion do not
\* leave it to each other.
THEOREM CallbackRunsOnce == Spec => []CallbackExactlyOnce
<1>1. Inv => CallbackExactlyOnce
  <2> SUFFICES ASSUME Inv PROVE CallbackExactlyOnce
    OBVIOUS
  <2>1. Called = {} \/ \E c \in Called : Called = {c}
    BY DEF Inv, CalledInv
  <2>2. Cardinality(Called) <= 1
    BY <2>1, FS_EmptySet, FS_Singleton
  <2>3. (registered /\ worker \in {"reset", "gone"})
          => Called # {} \/ \E c \in Clients : pc[c] = "inline"
    BY DEF Inv, CalledInv
  <2> QED BY <2>2 DEF Inv, CalledInv, CallbackExactlyOnce
<1> QED BY <1>1, InvHolds, PTL

-----------------------------------------------------------------------------
(* KuCompletion implements OneShotCompletion: the worker's signal completes it, *)
(* an invocation delivers the callback, a test of the predicate blocks a waiter *)
(* or returns, and every other step is invisible.                               *)

\* What the history of the callback says to the abstract specification.
LEMMA DeliveredValue ==
  /\ Called = {} => Delivered = Pending
  /\ \A c : Called = {c} => Delivered = calls[c][1]
  BY DEF Delivered

\* The abstract variables depend on nothing else.
LEMMA Invisible ==
  ASSUME UNCHANGED <<status, answer, registered, calls>>,
         \A c \in Clients : pc'[c] \in {"asleep", "awake"} <=> pc[c] \in {"asleep", "awake"}
  PROVE  UNCHANGED Abstract!vars
<1>1. Called' = Called
  BY DEF Called
<1>2. Delivered' = Delivered
  BY <1>1 DEF Delivered
<1> QED BY <1>2 DEF Abstract!vars

LEMMA InvokeDelivers ==
  ASSUME Inv, registered, completed, Called = {}, NEW c \in Clients, Invoke(c),
         UNCHANGED <<status, answer, registered>>,
         \A d \in Clients : pc'[d] \in {"asleep", "awake"} <=> pc[d] \in {"asleep", "awake"}
  PROVE  Abstract!Deliver
<1>1. Called' = {c} /\ calls'[c] = <<status>>
  BY InvokeEffect
<1>2. Delivered = Pending /\ Delivered' = status
  <2>1. Delivered' = calls'[c][1]
    BY <1>1 DEF Delivered
  <2> QED BY <1>1, <2>1, DeliveredValue
<1>3. status # Pending
  BY StatusAssumption DEF Inv, StatusInv
<1> QED BY <1>2, <1>3 DEF Abstract!Deliver

\* A test of the predicate is a Return or a Block, whether the waiter has slept or not.
LEMMA TestReadyRefines ==
  ASSUME Inv, NEW c \in Clients, pc[c] \in {"idle", "awake"}, TestReady(c)
  PROVE  Abstract!Block(c) \/ Abstract!Return(c)
<1> DEFINE waiting == {d \in Clients : pc[d] \in {"asleep", "awake"}}
<1>1. pc \in [Clients -> ClientStates] /\ StatusInv
  BY DEF Inv, TypeOK
<1>2. UNCHANGED <<status, registered, calls>>
  BY DEF TestReady, outcome, slot
<1>3. Delivered' = Delivered
  BY <1>2 DEF Delivered, Called
<1>4. CASE completed
  <2>1. waiting' = waiting \ {c} /\ answer' = [answer EXCEPT ![c] = status]
    BY <1>1, <1>4 DEF TestReady
  <2>2. status # Pending
    BY <1>1, <1>4, StatusAssumption DEF StatusInv
  <2> QED BY <1>2, <1>3, <2>1, <2>2 DEF Abstract!Return
<1>5. CASE ~completed
  <2>1. waiting' = waiting \cup {c} /\ answer' = answer
    BY <1>1, <1>5 DEF TestReady
  <2>2. status = Pending
    BY <1>1, <1>5 DEF StatusInv
  <2> QED BY <1>2, <1>3, <2>1, <2>2 DEF Abstract!Block
<1> QED BY <1>4, <1>5

LEMMA WorkerRefines ==
  ASSUME Inv, WorkerStep
  PROVE  Abstract!Next \/ UNCHANGED Abstract!vars
<1>1. ASSUME NEW s \in Statuses, Signal(s) PROVE Abstract!Complete(s)
  <2>1. Called' = Called /\ pc' = pc /\ UNCHANGED <<answer, registered, calls>>
    BY <1>1 DEF Signal, history, slot, Called
  <2>2. status = Pending /\ status' = s
    BY <1>1 DEF Signal, Inv, StatusInv
  <2> QED BY <2>1, <2>2 DEF Abstract!Complete, Delivered
<1>2. CASE DispatchCallback
  <2>1. PICK c \in Clients : Invoke(c)
    BY <1>2 DEF DispatchCallback, Inv, TypeOK
  <2>2. registered /\ completed /\ Called = {}
    BY <1>2 DEF DispatchCallback, Inv, SlotInv, CalledInv
  <2>3. UNCHANGED <<status, answer, registered, pc>>
    BY <1>2 DEF DispatchCallback, outcome, slot
  <2> QED BY <2>1, <2>2, <2>3, InvokeDelivers DEF Abstract!Next
<1>3. CASE NotifyAll
  <2>1. \A c \in Clients : pc'[c] \in {"asleep", "awake"} <=> pc[c] \in {"asleep", "awake"}
    BY <1>3 DEF NotifyAll, Wake
  <2> QED BY <1>3, <2>1, Invisible DEF NotifyAll, outcome, slot, history
<1>4. CASE PrepareToSignal \/ ReleaseRetained \/ WorkerCallbackReturns \/ ResetTask
  BY <1>4, Invisible
     DEF PrepareToSignal, ReleaseRetained, WorkerCallbackReturns, ResetTask, outcome, slot, history
<1> QED BY <1>1, <1>2, <1>3, <1>4 DEF WorkerStep, Abstract!Next

LEMMA ClientRefines ==
  ASSUME Inv, NEW c \in Clients, ClientStep(c)
  PROVE  Abstract!Next \/ UNCHANGED Abstract!vars
<1>0. pc \in [Clients -> ClientStates]
  BY DEF Inv, TypeOK
<1>1. CASE Wait(c) \/ Recheck(c)
  BY <1>1, TestReadyRefines DEF Wait, Recheck, Abstract!Next
<1>2. CASE OnCompletion(c)
  <2>1. \A d \in Clients : pc'[d] \in {"asleep", "awake"} <=> pc[d] \in {"asleep", "awake"}
    BY <1>2 DEF OnCompletion, AfterRegistration
  <2>2. ~registered /\ registered' /\ UNCHANGED <<status, answer, calls>>
    BY <1>2 DEF OnCompletion, outcome, history
  <2>3. Delivered' = Delivered
    BY <2>2 DEF Delivered, Called
  <2> QED BY <2>1, <2>2, <2>3 DEF Abstract!Register, Abstract!Next
<1>3. CASE InvokeNow(c)
  <2>1. registered /\ completed /\ Called = {}
    BY <1>3 DEF InvokeNow, Inv, SlotInv, CalledInv
  <2>2. \A d \in Clients : pc'[d] \in {"asleep", "awake"} <=> pc[d] \in {"asleep", "awake"}
    BY <1>3 DEF InvokeNow
  <2>3. Invoke(c) /\ UNCHANGED <<status, answer, registered>>
    BY <1>3 DEF InvokeNow, outcome, slot
  <2> QED BY <2>1, <2>2, <2>3, InvokeDelivers DEF Abstract!Next
<1>4. CASE SpuriousWakeup(c) \/ InlineCallbackReturns(c) \/ Release(c)
           \/ \E d \in Clients : Share(c, d)
  <2>1. \A d \in Clients : pc'[d] \in {"asleep", "awake"} <=> pc[d] \in {"asleep", "awake"}
    BY <1>0, <1>4 DEF SpuriousWakeup, InlineCallbackReturns, Release, Share
  <2>2. UNCHANGED <<status, answer, registered, calls>>
    BY <1>4 DEF SpuriousWakeup, InlineCallbackReturns, Release, Share, outcome, slot, history
  <2> QED BY <2>1, <2>2, Invisible
<1> QED BY <1>1, <1>2, <1>3, <1>4 DEF ClientStep

\* A run of KuCompletion is a run of the one-shot completion: a waiter only ever returns
\* the one final status, and the callback is delivered at most once, with that status.
THEOREM SafetyRefinement == Spec => Abstract!SafetySpec
<1>1. Init => Abstract!Init
  <2> SUFFICES ASSUME Init PROVE Abstract!Init
    OBVIOUS
  <2>1. Called = {} /\ {c \in Clients : pc[c] \in {"asleep", "awake"}} = {}
    BY DEF Init, Called
  <2> QED BY <2>1, DeliveredValue DEF Init, Abstract!Init
<1>2. Inv /\ [Next]_vars => [Abstract!Next]_(Abstract!vars)
  <2> SUFFICES ASSUME Inv, [Next]_vars PROVE Abstract!Next \/ UNCHANGED Abstract!vars
    OBVIOUS
  <2>1. CASE RetainUntilCompletion \/ ReleaseTensor \/ CallbackDropsHandle
    <3>1. \A d \in Clients : pc'[d] \in {"asleep", "awake"} <=> pc[d] \in {"asleep", "awake"}
      BY <2>1 DEF RetainUntilCompletion, ReleaseTensor, CallbackDropsHandle, Inv, TypeOK
    <3> QED
      BY <2>1, <3>1, Invisible
         DEF RetainUntilCompletion, ReleaseTensor, CallbackDropsHandle, outcome, slot, history
  <2>2. CASE UNCHANGED vars
    BY <2>2, Invisible DEF vars
  <2> QED BY <2>1, <2>2, WorkerRefines, ClientRefines DEF Next
<1> QED BY <1>1, <1>2, InvHolds, PTL DEF Spec, Abstract!SafetySpec

-----------------------------------------------------------------------------
(* The wakeups of m_ready, and the result.  That a waiter returns under fairness rests on
   the first two facts below, which hold in every state. *)

\* A waiter that sleeps on a completed completion is still to be notified.
NoLostWakeup == \A c \in Clients : pc[c] = "asleep" /\ completed => worker = "notify"

\* Whatever wait returned is the result.
AnswersAgree == \A c \in Clients : answer[c] # Pending => completed /\ answer[c] = status

WaitInv == NoLostWakeup /\ AnswersAgree

\* What a test of the predicate under the lock does: it sleeps only before the result.
LEMMA TestKeepsWaitInv ==
  ASSUME Inv, WaitInv, NEW c \in Clients, TestReady(c) PROVE WaitInv'
<1>1. UNCHANGED <<completed, status, worker>>
  BY DEF TestReady, outcome
<1>2. CASE completed
  <2>1. pc' = [pc EXCEPT ![c] = "idle"] /\ answer' = [answer EXCEPT ![c] = status]
    BY <1>2 DEF TestReady
  <2> QED BY <1>1, <1>2, <2>1 DEF WaitInv, NoLostWakeup, AnswersAgree, Inv, TypeOK
<1>3. CASE ~completed
  <2>1. answer' = answer
    BY <1>3 DEF TestReady
  <2> QED BY <1>1, <1>3, <2>1 DEF WaitInv, NoLostWakeup, AnswersAgree
<1> QED BY <1>2, <1>3

\* Between the unlock of signal and its notify_all the waiters that sleep are the ones it
\* will wake; after that nobody goes to sleep again.
LEMMA WaitInductive == Spec => []WaitInv
<1>1. Init => WaitInv
  BY DEF Init, WaitInv, NoLostWakeup, AnswersAgree
<1>2. Inv /\ WaitInv /\ [Next]_vars => WaitInv'
  <2> SUFFICES ASSUME Inv, WaitInv, [Next]_vars PROVE WaitInv'
    OBVIOUS
  <2>1. ASSUME NEW s \in Statuses, Signal(s) PROVE WaitInv'
    BY <2>1 DEF Signal, history, WaitInv, NoLostWakeup, AnswersAgree
  <2>2. CASE NotifyAll
    <3>1. \A c \in Clients : pc'[c] # "asleep"
      BY <2>2 DEF NotifyAll, Wake
    <3> QED BY <2>2, <3>1 DEF NotifyAll, outcome, history, WaitInv, NoLostWakeup, AnswersAgree
  <2>3. ASSUME UNCHANGED <<completed, status, answer>>, worker' = worker \/ worker # "notify",
               \A c \in Clients : pc'[c] = "asleep" => pc[c] = "asleep"
        PROVE  WaitInv'
    BY <2>3 DEF WaitInv, NoLostWakeup, AnswersAgree
  <2>4. CASE \/ PrepareToSignal \/ ReleaseRetained \/ DispatchCallback
             \/ WorkerCallbackReturns \/ ResetTask
    <3>1. UNCHANGED <<completed, status, answer, pc>> /\ worker # "notify"
      BY <2>4 DEF PrepareToSignal, ReleaseRetained, DispatchCallback, WorkerCallbackReturns,
         ResetTask, outcome, history
    <3> QED BY <2>3, <3>1
  <2>5. CASE RetainUntilCompletion \/ ReleaseTensor \/ CallbackDropsHandle
    <3>1. UNCHANGED <<completed, status, answer, worker>>
      BY <2>5 DEF RetainUntilCompletion, ReleaseTensor, CallbackDropsHandle, outcome, history
    <3>2. \A c \in Clients : pc'[c] = "asleep" => pc[c] = "asleep"
      BY <2>5 DEF RetainUntilCompletion, ReleaseTensor, CallbackDropsHandle, Inv, TypeOK
    <3> QED BY <2>3, <3>1, <3>2
  <2>6. ASSUME NEW c \in Clients, Wait(c) \/ Recheck(c) PROVE WaitInv'
    BY <2>6, TestKeepsWaitInv DEF Wait, Recheck
  <2>7. ASSUME NEW c \in Clients,
               \/ SpuriousWakeup(c) \/ OnCompletion(c) \/ InvokeNow(c)
               \/ InlineCallbackReturns(c) \/ Release(c) \/ \E d \in Clients : Share(c, d)
        PROVE  WaitInv'
    <3>1. UNCHANGED <<completed, status, answer, worker>>
      BY <2>7 DEF SpuriousWakeup, OnCompletion, InvokeNow, InlineCallbackReturns, Release,
         Share, outcome, history
    <3>2. \E d \in Clients, there \in ClientStates \ {"asleep"} : pc' = [pc EXCEPT ![d] = there]
      BY <2>7 DEF SpuriousWakeup, OnCompletion, AfterRegistration, InvokeNow,
         InlineCallbackReturns, Release, Share, ClientStates
    <3>3. \A d \in Clients : pc'[d] = "asleep" => pc[d] = "asleep"
      BY <3>2 DEF Inv, TypeOK
    <3> QED BY <2>3, <3>1, <3>3
  <2>8. CASE UNCHANGED vars
    BY <2>8 DEF vars, WaitInv, NoLostWakeup, AnswersAgree
  <2> QED BY <2>1, <2>2, <2>4, <2>5, <2>6, <2>7, <2>8 DEF Next, WorkerStep, ClientStep
<1> QED BY <1>1, <1>2, InvHolds, PTL DEF Spec

\* wait and signal do not miss each other, although signal notifies after the unlock: a
\* thread asleep on m_ready with the result there finds the worker about to notify it.
THEOREM NoWakeupIsLost == Spec => []NoLostWakeup
BY WaitInductive, PTL DEF WaitInv

\* All waiters return the same status, the final one, however often and whenever they wait.
THEOREM WaitersAgree == Spec => []AnswersAgree
BY WaitInductive, PTL DEF WaitInv

\* The worker never stops half-way: it signals a completion that is still pending, and
\* dispatches a callback that is there; so a waiter asleep has a worker that goes on.
WorkerGoesOn ==
  /\ worker = "prepared" => ~completed
  /\ worker = "dispatch" => picked # {}
  /\ \A c \in Clients :
       pc[c] = "asleep" => worker \in {"copying", "releasing", "prepared", "notify"}

\* No state leaves a waiter asleep with nobody to wake it.
THEOREM WaitIsNeverStuck == Spec => []WorkerGoesOn
<1>1. Inv /\ WaitInv => WorkerGoesOn
  <2> SUFFICES ASSUME Inv, WaitInv PROVE WorkerGoesOn
    OBVIOUS
  <2>1. worker = "prepared" => ~completed
    BY DEF Inv, StatusInv
  <2>2. worker = "dispatch" => picked # {}
    BY DEF Inv, StatusInv, SlotInv
  <2>3. ASSUME NEW c \in Clients, pc[c] = "asleep"
        PROVE  worker \in {"copying", "releasing", "prepared", "notify"}
    BY <2>3 DEF Inv, TypeOK, WorkerStates, StatusInv, WaitInv, NoLostWakeup
  <2> QED BY <2>1, <2>2, <2>3 DEF WorkerGoesOn
<1> QED BY <1>1, InvHolds, WaitInductive, PTL

\* Once set, m_status and m_completed never change.
THEOREM ResultIsFinal == Spec => [][completed => UNCHANGED <<completed, status>>]_vars
<1>1. Inv /\ [Next]_vars => [completed => UNCHANGED <<completed, status>>]_vars
  <2> SUFFICES ASSUME Next, completed PROVE UNCHANGED <<completed, status>>
    OBVIOUS
  <2>1. \A s \in Statuses : ~Signal(s)
    BY DEF Signal
  <2> QED
    BY ZenonT(30), <2>1
    DEF Next, WorkerStep, ClientStep, PrepareToSignal, ReleaseRetained, NotifyAll,
        DispatchCallback, WorkerCallbackReturns, ResetTask, RetainUntilCompletion,
        ReleaseTensor, CallbackDropsHandle, Wait, Recheck, TestReady, SpuriousWakeup,
        OnCompletion, InvokeNow, InlineCallbackReturns, Release, Share, outcome
<1> QED BY <1>1, InvHolds, PTL DEF Spec
=============================================================================
