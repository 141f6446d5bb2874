---------------- MODULE KuHostTransferRefinement_proofs ------------------
(***************************************************************************)
(* KuHostTransfer keeps the promise of DeviceCopies: for any finite set of *)
(* requests, any set of flushing threads, any number of lanes and any      *)
(* number of chunks.  The mapping is the one that KuHostTransfer states    *)
(* under Promise.  On top of the invariants of KuHostTransfer_proofs it    *)
(* takes three more:                                                       *)
(*   ResultInv     a copy that has let its lane go, or failed before it    *)
(*                 had one, has a result;                                  *)
(*   LoanInv       a download never owns memory of the device;             *)
(*   FlushersGone  nobody is flushing a device that is being shut down.    *)
(***************************************************************************)
EXTENDS KuHostTransfer_proofs

-----------------------------------------------------------------------------
(* Three more invariants *)

Ending == {"release", "notify lane", "prepare"} \cup Released

ResultInv == \A r \in Requests : run[r] \in Ending => status[r] # "none"

\* Every way out of State::copy sets its result: the failure to select the device or to
\* synchronize the dependency stream, the failure of a chunk, and the last chunk.
LEMMA ResultInductive == Spec => []ResultInv
<1>1. Init => ResultInv
  BY DEF Init, ResultInv, Ending, Released, Finished
<1>2. PCInv /\ DataInv /\ ResultInv /\ [Next]_vars => ResultInv'
  <2> SUFFICES ASSUME PCInv, DataInv, ResultInv, [Next]_vars PROVE ResultInv'
    OBVIOUS
  <2>1. ASSUME NEW r \in Requests, NEW from, NEW to, Step(r, from, to), status' = status,
               from \in Ending \/ to \notin Ending
        PROVE  ResultInv'
    BY <2>1 DEF Step, ResultInv, PCInv
  <2>2. ASSUME NEW r \in Requests, NEW from, NEW to, Step(r, from, to),
               \E s \in {"SUCCESS", "DEVICE_ERROR"} : Outcome(r, s)
        PROVE  ResultInv'
    BY <2>2 DEF Step, Outcome, ResultInv, PCInv, DataInv
  <2>3. ASSUME NEW r \in Requests, StartCopy(r) \/ DependencySynced(r) PROVE ResultInv'
    <3>1. \/ \E from \in {"queued", "sync"}, to \in {"acquire", "sync"} :
               Step(r, from, to) /\ status' = status
          \/ \E from \in {"queued", "sync"} : Step(r, from, "prepare") /\ Outcome(r, "DEVICE_ERROR")
      BY <2>3 DEF StartCopy, DependencySynced
    <3>2. {"acquire", "sync"} \cap Ending = {}
      BY DEF Ending, Released, Finished
    <3> QED BY <3>1, <3>2, <2>1, <2>2
  <2>4. ASSUME NEW r \in Requests, DrainStaging(r) PROVE ResultInv'
    <3>1. CASE NextChunk(r) = Chunks
      BY <2>2, <2>4, <3>1 DEF DrainStaging
    <3>2. CASE NextChunk(r) # Chunks
      BY <2>1, <2>4, <3>2 DEF DrainStaging, Ending, Released, Finished
    <3> QED BY <3>1, <3>2
  <2>5. ASSUME NEW r \in Requests, ChunkFails(r) PROVE ResultInv'
    BY <2>2, <2>5 DEF ChunkFails
  <2>6. ASSUME NEW r \in Requests, AcquireLane(r) \/ SpuriousLaneWakeup(r) \/ FillStaging(r)
        PROVE  ResultInv'
    <3>1. \E from, to \in {"acquire", "asleep", "first half", "second half"} : Step(r, from, to)
      BY <2>6 DEF AcquireLane, SpuriousLaneWakeup, FillStaging
    <3>2. status' = status
      BY <2>6 DEF AcquireLane, SpuriousLaneWakeup, FillStaging, work
    <3>3. {"acquire", "asleep", "first half", "second half"} \cap Ending = {}
      BY DEF Ending, Released, Finished
    <3> QED BY <3>1, <3>2, <3>3, <2>1
  <2>7. ASSUME NEW r \in Requests,
               \/ ReleaseLane(r) \/ PrepareToSignal(r) \/ ReleaseRetained(r)
               \/ FinishTask(r) \/ NotifyIdle(r) \/ Signal(r)
        PROVE  ResultInv'
    <3>1. \E from \in Ending : \E to : Step(r, from, to)
      BY <2>7 DEF ReleaseLane, PrepareToSignal, ReleaseRetained, FinishTask, NotifyIdle, Signal,
         Ending, Released, Finished
    <3>2. status' = status
      BY <2>7 DEF ReleaseLane, PrepareToSignal, ReleaseRetained, FinishTask, NotifyIdle, Signal,
         work
    <3> QED BY <3>1, <3>2, <2>1
  <2>8. ASSUME NEW r \in Requests, NotifyLane(r) PROVE ResultInv'
    <3>1. \A q \in Requests : run'[q] \in {run[q], "acquire"} \/ (q = r /\ run[q] \in Ending)
      BY <2>8 DEF NotifyLane, LaneSleepers, PCInv, Ending
    <3>2. "acquire" \notin Ending /\ status' = status
      BY <2>8 DEF NotifyLane, work, Ending, Released, Finished
    <3> QED BY <3>1, <3>2 DEF ResultInv
  <2>9. ASSUME NEW r \in Requests, SchedulerAccepts(r) PROVE ResultInv'
    BY <2>9 DEF SchedulerAccepts, work, ResultInv, PCInv, Ending, Released, Finished
  <2>10. CASE UNCHANGED <<run, status>>
    BY <2>10 DEF ResultInv
  <2> QED
    BY ZenonT(60), <2>3, <2>4, <2>5, <2>6, <2>7, <2>8, <2>9, <2>10
    DEF Next, CallStep, RunStep, FlushStep, StopStep, vars, Execute, BuildTask, CannotBuild,
        Admit, SchedulerRefuses, UndoAdmission, UndoNotify, Fail, Retain, UserDrops, BeginFlush,
        FlushRetest, SpuriousFlushWakeup, FlushSynchronizes, FlushSucceeds, FlushFails, EndFlush,
        StopAndWait, StopRetest, SpuriousStopWakeup, ReleaseResources, ShutdownSynchronizes,
        AbandonResources, ShutdownSynced, DestroyPool, DestroyStream, work
<1> QED BY <1>1, <1>2, PCInductive, DataInductive, PTL DEF Spec, SafetySpec

LoanInv == \A r \in Requests \ Uploads : allocated[r] = 0

\* Only an upload allocates a tensor.
LEMMA LoanInductive == Spec => []LoanInv
<1>1. Init => LoanInv
  BY DEF Init, LoanInv
<1>2. LoanInv /\ StreamTypes /\ [Next]_vars => LoanInv'
  <2> SUFFICES ASSUME LoanInv, StreamTypes, [Next]_vars PROVE LoanInv'
    OBVIOUS
  <2>1. ASSUME NEW r \in Requests, BuildTask(r) PROVE LoanInv'
    BY <2>1 DEF BuildTask, LoanInv, StreamTypes
  <2>2. ASSUME NEW r \in Requests, NEW holder, DropTensor(r, holder) PROVE LoanInv'
    BY <2>2 DEF DropTensor, LoanInv
  <2>3. CASE UNCHANGED allocated
    BY <2>3 DEF LoanInv
  <2> QED
    BY ZenonT(60), <2>1, <2>2, <2>3
    DEF Next, CallStep, RunStep, FlushStep, StopStep, vars, Execute, CannotBuild, Admit,
        SchedulerAccepts, SchedulerRefuses, UndoAdmission, UndoNotify, Fail, Retain, UserDrops,
        StartCopy, DependencySynced, AcquireLane, SpuriousLaneWakeup, FillStaging, DrainStaging,
        ChunkFails, ReleaseLane, NotifyLane, PrepareToSignal, ReleaseRetained, FinishTask,
        NotifyIdle, Signal, BeginFlush, FlushRetest, SpuriousFlushWakeup, FlushSynchronizes,
        FlushSucceeds, FlushFails, EndFlush, StopAndWait, StopRetest, SpuriousStopWakeup,
        ReleaseResources, ShutdownSynchronizes, AbandonResources, ShutdownSynced, DestroyPool,
        DestroyStream, tensor
<1> QED BY <1>1, <1>2, StreamInductive, PTL DEF Spec, SafetySpec

FlushersGone == stop # "up" => \A f \in Flushers : flush[f] = "idle"

\* Shutdown begins with no flush under way, and none begins after that.
LEMMA FlushersInductive == Spec => []FlushersGone
<1>1. Init => FlushersGone
  BY DEF Init, FlushersGone
<1>2. FlushersGone /\ [Next]_vars => FlushersGone'
  <2> SUFFICES ASSUME FlushersGone, [Next]_vars PROVE FlushersGone'
    OBVIOUS
  <2>1. ASSUME NEW f \in Flushers, BeginFlush(f) \/ FlushStep(f) \/ SpuriousFlushWakeup(f)
        PROVE  FlushersGone'
    BY <2>1 DEF BeginFlush, FlushStep, FlushRetest, FlushSynchronizes, FlushSucceeds, FlushFails,
       EndFlush, SpuriousFlushWakeup, FlushersGone, teardown
  <2>2. CASE StopAndWait
    BY <2>2 DEF StopAndWait, FlushersGone, flushing
  <2>3. CASE StopStep \/ SpuriousStopWakeup
    BY <2>3 DEF StopStep, StopRetest, ReleaseResources, ShutdownSynchronizes, AbandonResources,
       ShutdownSynced, DestroyPool, DestroyStream, SpuriousStopWakeup, FlushersGone, flushing
  <2>4. ASSUME WakeIdle PROVE FlushersGone'
    BY <2>4 DEF WakeIdle, FlushersGone
  <2>5. CASE UNCHANGED <<flush, stop>>
    BY <2>5 DEF FlushersGone
  <2> QED
    BY ZenonT(60), <2>1, <2>2, <2>3, <2>4, <2>5
    DEF Next, CallStep, RunStep, vars, Execute, BuildTask, CannotBuild, Admit,
        SchedulerAccepts, SchedulerRefuses, UndoAdmission, UndoNotify, Fail, Retain, UserDrops,
        StartCopy, DependencySynced, AcquireLane, SpuriousLaneWakeup, FillStaging, DrainStaging,
        ChunkFails, ReleaseLane, NotifyLane, PrepareToSignal, ReleaseRetained, FinishTask,
        NotifyIdle, Signal, flushing, teardown
<1> QED BY <1>1, <1>2, PTL DEF Spec, SafetySpec

-----------------------------------------------------------------------------
(* The mapping *)

Refusal == {"undo", "undo notify", "rejected", "failed"}
Asking  == {"idle", "built", "admitted"}
Working == RunStates \ ({"none"} \cup Released)

\* The four phases of a request that the user can tell apart.
OutcomeInv ==
  /\ Outcomes = [r \in Requests |-> Outcomes[r]]
  /\ \A r \in Requests :
       /\ call[r] \in Refusal \cup Asking \/ run[r] \in Working \cup Released
       /\ call[r] \in Refusal => Outcomes[r] = "refused"
       /\ call[r] \in Asking => Outcomes[r] = "new"
       /\ run[r] \in Working => Outcomes[r] = "under way"
       /\ run[r] \in Released => Outcomes[r] = status[r]

\* As a request has a thread exactly when the scheduler accepted it, the phases exclude
\* each other.
LEMMA OutcomeValue == PCInv => OutcomeInv
<1> SUFFICES ASSUME PCInv PROVE OutcomeInv
  OBVIOUS
<1>1. ASSUME NEW r \in Requests
      PROVE  /\ call[r] \in Refusal \cup Asking \/ run[r] \in Working \cup Released
             /\ call[r] \in Refusal => Outcomes[r] = "refused"
             /\ call[r] \in Asking => Outcomes[r] = "new"
             /\ run[r] \in Working => Outcomes[r] = "under way"
             /\ run[r] \in Released => Outcomes[r] = status[r]
  <2>1. run[r] = "none" <=> call[r] \notin {"retain", "returned"}
    BY DEF PCInv
  <2>2. call[r] \in Refusal => Outcomes[r] = "refused"
    BY <2>1 DEF Outcomes, Refusal, Finished
  <2>3. call[r] \in Asking => Outcomes[r] = "new"
    BY <2>1 DEF Outcomes, Asking, Finished
  <2>4. run[r] \in Working => Outcomes[r] = "under way"
    BY <2>1 DEF Outcomes, Working, Released, PCInv, CallStates, Finished
  <2>5. run[r] \in Released => Outcomes[r] = status[r]
    BY <2>1 DEF Outcomes, Released, Finished
  <2>6. call[r] \in Refusal \cup Asking \/ run[r] \in Working \cup Released
    BY <2>1 DEF PCInv, CallStates, Refusal, Asking, Working
  <2> QED BY <2>2, <2>3, <2>4, <2>5, <2>6
<1>2. Outcomes = [r \in Requests |-> Outcomes[r]]
  BY DEF Outcomes
<1> QED BY <1>1, <1>2 DEF OutcomeInv

\* A step within a phase shows nothing.
LEMMA SamePhase ==
  ASSUME OutcomeInv, OutcomeInv', NEW r \in Requests, call'[r] = call[r],
         \/ run'[r] = run[r] /\ status'[r] = status[r]
         \/ run[r] \in Working /\ run'[r] \in Working
         \/ run[r] \in Released /\ run'[r] \in Released /\ status'[r] = status[r]
  PROVE  Outcomes'[r] = Outcomes[r]
<1>1. CASE run'[r] = run[r] /\ status'[r] = status[r]
  <2>1. CASE call[r] \in Refusal
    BY <1>1, <2>1 DEF OutcomeInv, Refusal
  <2>2. CASE call[r] \in Asking
    BY <1>1, <2>2 DEF OutcomeInv, Asking
  <2>3. CASE run[r] \in Working
    BY <1>1, <2>3 DEF OutcomeInv, Working
  <2>4. CASE run[r] \in Released
    BY <1>1, <2>4 DEF OutcomeInv, Released
  <2> QED BY <2>1, <2>2, <2>3, <2>4 DEF OutcomeInv
<1>2. CASE run[r] \in Working /\ run'[r] \in Working
  BY <1>2 DEF OutcomeInv, Working
<1>3. CASE run[r] \in Released /\ run'[r] \in Released /\ status'[r] = status[r]
  BY <1>3 DEF OutcomeInv
<1> QED BY <1>1, <1>2, <1>3

\* The variables of the promise depend on the program's request by request, thread by
\* thread.
LEMMA Frames ==
  /\ copied' = copied => Arrived' = Arrived
  /\ (\A q \in Requests : call'[q] = "returned" <=> call[q] = "returned")
       => HandedOut' = HandedOut
  /\ (\A q \in Requests : run'[q] = "done" <=> run[q] = "done") => Told' = Told
  /\ allocated' = allocated /\ freed' = freed => Memories' = Memories
  /\ (\A q \in Requests : "caller" \in refs'[q] <=> "caller" \in refs[q]) => Kept' = Kept
  /\ (\A f \in Flushers : flush'[f] = "idle" <=> flush[f] = "idle") => InFlush' = InFlush
  /\ (stop' \in {"up", "asleep", "test"} <=> stop \in {"up", "asleep", "test"})
       => UpOrDown' = UpOrDown
  /\ call' = call /\ run' = run /\ status' = status => Outcomes' = Outcomes
<1>1. copied' = copied => Arrived' = Arrived
  BY DEF Arrived, WholeRequest
<1>2. (\A q \in Requests : call'[q] = "returned" <=> call[q] = "returned")
        => HandedOut' = HandedOut
  BY DEF HandedOut
<1>3. (\A q \in Requests : run'[q] = "done" <=> run[q] = "done") => Told' = Told
  BY DEF Told
<1>4. allocated' = allocated /\ freed' = freed => Memories' = Memories
  BY DEF Memories
<1>5. (\A q \in Requests : "caller" \in refs'[q] <=> "caller" \in refs[q]) => Kept' = Kept
  BY DEF Kept
<1>6. (\A f \in Flushers : flush'[f] = "idle" <=> flush[f] = "idle") => InFlush' = InFlush
  BY DEF InFlush
<1>7. (stop' \in {"up", "asleep", "test"} <=> stop \in {"up", "asleep", "test"})
        => UpOrDown' = UpOrDown
  BY DEF UpOrDown
<1>8. call' = call /\ run' = run /\ status' = status => Outcomes' = Outcomes
  BY DEF Outcomes
<1> QED BY <1>1, <1>2, <1>3, <1>4, <1>5, <1>6, <1>7, <1>8

\* One request ends up with another outcome, and the others with theirs.
LEMMA OneOutcome ==
  ASSUME OutcomeInv, OutcomeInv', NEW r \in Requests, NEW o, Outcomes'[r] = o,
         \A q \in Requests \ {r} :
           call'[q] = call[q] /\ run'[q] = run[q] /\ status'[q] = status[q]
  PROVE  Outcomes' = [Outcomes EXCEPT ![r] = o]
<1>1. \A q \in Requests \ {r} : Outcomes'[q] = Outcomes[q]
  BY SamePhase
<1>2. /\ Outcomes = [q \in Requests |-> Outcomes[q]]
      /\ Outcomes' = [q \in Requests |-> Outcomes'[q]]
  BY DEF OutcomeInv
<1> QED BY <1>1, <1>2

\* Every request stays in its phase.
LEMMA SameOutcomes ==
  ASSUME OutcomeInv, OutcomeInv', \A q \in Requests : Outcomes'[q] = Outcomes[q]
  PROVE  Outcomes' = Outcomes
<1>1. /\ Outcomes = [q \in Requests |-> Outcomes[q]]
      /\ Outcomes' = [q \in Requests |-> Outcomes'[q]]
  BY DEF OutcomeInv
<1> QED BY <1>1

\* One tensor's memory changes hands.
LEMMA OneMemory ==
  ASSUME NEW r \in Requests, NEW m, Memories'[r] = m,
         \A q \in Requests \ {r} : allocated'[q] = allocated[q] /\ freed'[q] = freed[q]
  PROVE  Memories' = [Memories EXCEPT ![r] = m]
<1>1. \A q \in Requests \ {r} : Memories'[q] = Memories[q]
  BY DEF Memories
<1>2. /\ Memories = [q \in Requests |-> Memories[q]]
      /\ Memories' = [q \in Requests |-> Memories'[q]]
  BY DEF Memories
<1> QED BY <1>1, <1>2

-----------------------------------------------------------------------------
(* Steps that the user does not see *)

LEMMA Unseen ==
  ASSUME OutcomeInv, OutcomeInv', \A q \in Requests : Outcomes'[q] = Outcomes[q],
         UNCHANGED <<copied, allocated, freed, before, dropped>>,
         \A q \in Requests : call'[q] = "returned" <=> call[q] = "returned",
         \A q \in Requests : run'[q] = "done" <=> run[q] = "done",
         \A q \in Requests : "caller" \in refs'[q] <=> "caller" \in refs[q],
         \A f \in Flushers : flush'[f] = "idle" <=> flush[f] = "idle",
         stop' \in {"up", "asleep", "test"} <=> stop \in {"up", "asleep", "test"}
  PROVE  UNCHANGED Promise!vars
<1>1. Outcomes' = Outcomes
  BY SameOutcomes
<1> QED BY <1>1, Frames DEF Promise!vars

\* Waking the threads asleep on m_idle ends no flush and takes nothing down.
LEMMA WakeIdleUnseen ==
  ASSUME WakeIdle
  PROVE  /\ \A f \in Flushers : flush'[f] = "idle" <=> flush[f] = "idle"
         /\ stop' \in {"up", "asleep", "test"} <=> stop \in {"up", "asleep", "test"}
         /\ before' = before /\ dropped' = dropped
BY DEF WakeIdle

Internal == (Working \X Working) \cup ((Released \ {"done"}) \X (Released \ {"done"}))

\* A thread that goes on within a phase.
LEMMA UnseenRun ==
  ASSUME PCInv, OutcomeInv, OutcomeInv', NEW r \in Requests, NEW from, NEW to,
         Step(r, from, to), <<from, to>> \in Internal,
         \A q \in Requests : status'[q] = status[q] \/ (q = r /\ from \in Working),
         UNCHANGED <<call, copied, refs, allocated, freed, before, dropped>>,
         \A f \in Flushers : flush'[f] = "idle" <=> flush[f] = "idle",
         stop' \in {"up", "asleep", "test"} <=> stop \in {"up", "asleep", "test"}
  PROVE  UNCHANGED Promise!vars
<1>1. run[r] = from /\ run'[r] = to /\ \A q \in Requests \ {r} : run'[q] = run[q]
  BY DEF Step, PCInv
<1>2. \A q \in Requests : Outcomes'[q] = Outcomes[q]
  <2>1. Working \cap Released = {}
    BY DEF Working
  <2> QED BY <1>1, <2>1, SamePhase DEF Internal
<1>3. \A q \in Requests : run'[q] = "done" <=> run[q] = "done"
  <2>1. "done" \notin Working
    BY DEF Working, Released, Finished
  <2> QED BY <1>1, <2>1 DEF Internal
<1> QED BY <1>2, <1>3, Unseen

\* What copy does before it has a result, and taskFinished: no user sees it.
LEMMA RunUnseen ==
  ASSUME PCInv, DataInv, OutcomeInv, OutcomeInv', NEW r \in Requests,
         \/ StartCopy(r) \/ DependencySynced(r) \/ AcquireLane(r) \/ SpuriousLaneWakeup(r)
         \/ FillStaging(r) \/ ChunkFails(r) \/ ReleaseLane(r) \/ FinishTask(r) \/ NotifyIdle(r)
  PROVE  UNCHANGED Promise!vars
<1>0. /\ {"queued", "sync", "acquire", "asleep", "first half", "second half", "release",
          "notify lane", "prepare"} \subseteq Working
      /\ {"finish", "notify idle", "signal"} \subseteq Released \ {"done"}
  BY DEF Working, RunStates, Released, Finished
<1>2. CASE StartCopy(r) \/ DependencySynced(r)
  <2>1. \E from, to \in Working : Step(r, from, to)
    BY <1>0, <1>2 DEF StartCopy, DependencySynced
  <2>2. \A q \in Requests : status'[q] = status[q] \/ q = r
    BY <1>2 DEF StartCopy, DependencySynced, Outcome, DataInv
  <2>3. UNCHANGED <<call, copied, refs, allocated, freed, flush, before, dropped, stop>>
    BY <1>2 DEF StartCopy, DependencySynced, tensor, flushing, teardown
  <2> QED BY <2>1, <2>2, <2>3, UnseenRun DEF Internal
<1>3. CASE AcquireLane(r) \/ SpuriousLaneWakeup(r) \/ FillStaging(r) \/ ReleaseLane(r)
  <2>1. \E from, to \in Working : Step(r, from, to)
    BY <1>0, <1>3 DEF AcquireLane, SpuriousLaneWakeup, FillStaging, ReleaseLane
  <2>2. UNCHANGED <<status, call, copied, refs, allocated, freed, flush, before, dropped, stop>>
    BY <1>3 DEF AcquireLane, SpuriousLaneWakeup, FillStaging, ReleaseLane, work, tensor,
       flushing, teardown
  <2> QED BY <2>1, <2>2, UnseenRun DEF Internal
<1>4. CASE ChunkFails(r)
  <2>1. \E from, to \in Working : Step(r, from, to)
    BY <1>0, <1>4 DEF ChunkFails, DeviceHalf
  <2>2. \A q \in Requests : status'[q] = status[q] \/ q = r
    BY <1>4 DEF ChunkFails, Outcome, DataInv
  <2>3. UNCHANGED <<call, copied, refs, allocated, freed, flush, before, dropped, stop>>
    BY <1>4 DEF ChunkFails, tensor, flushing, teardown
  <2> QED BY <2>1, <2>2, <2>3, UnseenRun DEF Internal
<1>5. CASE FinishTask(r)
  <2>1. \E from, to \in Released \ {"done"} : Step(r, from, to)
    BY <1>0, <1>5 DEF FinishTask
  <2>2. UNCHANGED <<status, call, copied, refs, allocated, freed, flush, before, dropped, stop>>
    BY <1>5 DEF FinishTask, work, tensor, flushing, teardown
  <2> QED BY <2>1, <2>2, UnseenRun DEF Internal
<1>6. CASE NotifyIdle(r)
  <2>1. \E from, to \in Released \ {"done"} : Step(r, from, to)
    BY <1>0, <1>6 DEF NotifyIdle
  <2>2. UNCHANGED <<status, call, copied, refs, allocated, freed>>
    BY <1>6 DEF NotifyIdle, work, tensor
  <2>3. WakeIdle
    BY <1>6 DEF NotifyIdle
  <2> QED BY <2>1, <2>2, <2>3, WakeIdleUnseen, UnseenRun DEF Internal
<1> QED BY <1>2, <1>3, <1>4, <1>5, <1>6

\* notify_one moves two threads, neither of which leaves its phase.
LEMMA NotifyLaneUnseen ==
  ASSUME PCInv, OutcomeInv, OutcomeInv', NEW r \in Requests, NotifyLane(r)
  PROVE  UNCHANGED Promise!vars
<1>1. /\ "notify lane" \in Working /\ "prepare" \in Working
      /\ "asleep" \in Working /\ "acquire" \in Working /\ "done" \notin Working
  BY DEF Working, RunStates, Released, Finished
<1>2. \A q \in Requests : run'[q] = run[q] \/ (run[q] \in Working /\ run'[q] \in Working)
  <2>1. CASE LaneSleepers = {}
    <3>1. run[r] = "notify lane" /\ run' = [run EXCEPT ![r] = "prepare"]
      BY <2>1 DEF NotifyLane
    <3>2. \A q \in Requests : run'[q] = IF q = r THEN "prepare" ELSE run[q]
      BY <3>1 DEF PCInv
    <3> QED BY <1>1, <3>1, <3>2
  <2>2. CASE LaneSleepers # {}
    <3>1. PICK s \in LaneSleepers : run' = [run EXCEPT ![r] = "prepare", ![s] = "acquire"]
      BY <2>2 DEF NotifyLane
    <3>2. run[r] = "notify lane" /\ run[s] = "asleep" /\ r # s
      BY <3>1 DEF NotifyLane, LaneSleepers
    <3>3. \A q \in Requests : run'[q] = IF q = s THEN "acquire"
                                      ELSE IF q = r THEN "prepare" ELSE run[q]
      BY <3>1, <3>2 DEF PCInv, LaneSleepers
    <3> QED BY <1>1, <3>2, <3>3
  <2> QED BY <2>1, <2>2
<1>3. UNCHANGED <<call, status, copied, refs, allocated, freed, flush, before, dropped, stop>>
  BY DEF NotifyLane, work, tensor, flushing, teardown
<1>4. \A q \in Requests : Outcomes'[q] = Outcomes[q]
  BY <1>2, <1>3, SamePhase
<1> QED BY <1>1, <1>2, <1>3, <1>4, Unseen

\* Whatever leaves the requests and their tensors alone, and lets flush and shutdown go on
\* within what the user sees of them.
LEMMA ElseUnseen ==
  ASSUME OutcomeInv, OutcomeInv',
         UNCHANGED <<call, run, status, copied, refs, allocated, freed, before, dropped>>,
         \A f \in Flushers : flush'[f] = "idle" <=> flush[f] = "idle",
         stop' \in {"up", "asleep", "test"} <=> stop \in {"up", "asleep", "test"}
  PROVE  UNCHANGED Promise!vars
<1>1. \A q \in Requests : Outcomes'[q] = Outcomes[q]
  BY SamePhase
<1> QED BY <1>1, Unseen

-----------------------------------------------------------------------------
(* The submitting call *)

\* What a call does between its phases is not seen either.
LEMMA UnseenCall ==
  ASSUME PCInv, OutcomeInv, OutcomeInv', NEW r \in Requests, NEW there, Goto(r, there),
         \/ call[r] \in Asking /\ there \in Asking
         \/ call[r] \in Refusal /\ there \in Refusal,
         UNCHANGED <<run, status, copied, refs, allocated, freed, before, dropped>>,
         \A f \in Flushers : flush'[f] = "idle" <=> flush[f] = "idle",
         stop' \in {"up", "asleep", "test"} <=> stop \in {"up", "asleep", "test"}
  PROVE  UNCHANGED Promise!vars
<1>1. call'[r] = there /\ \A q \in Requests \ {r} : call'[q] = call[q]
  BY DEF Goto, PCInv
<1>2. Outcomes'[r] = Outcomes[r]
  <2>1. CASE call[r] \in Asking /\ there \in Asking
    BY <1>1, <2>1 DEF OutcomeInv, Asking
  <2>2. CASE call[r] \in Refusal /\ there \in Refusal
    BY <1>1, <2>2 DEF OutcomeInv, Refusal
  <2> QED BY <2>1, <2>2
<1>3. \A q \in Requests : Outcomes'[q] = Outcomes[q]
  BY <1>1, <1>2, SamePhase
<1>4. \A q \in Requests : call'[q] = "returned" <=> call[q] = "returned"
  BY <1>1 DEF Asking, Refusal
<1> QED BY <1>3, <1>4, Unseen

\* A call that fails before the scheduler has the task is a refusal.
LEMMA CallRefuses ==
  ASSUME PCInv, OutcomeInv, OutcomeInv', NEW r \in Requests, NEW there, Goto(r, there),
         call[r] \in Asking, there \in Refusal,
         UNCHANGED <<run, status, copied, refs, allocated, freed, flushing, stop>>
  PROVE  Promise!Refuse(r)
<1>1. call'[r] = there /\ \A q \in Requests \ {r} : call'[q] = call[q]
  BY DEF Goto, PCInv
<1>2. Outcomes[r] = "new"
  BY DEF OutcomeInv
<1>3. Outcomes' = [Outcomes EXCEPT ![r] = "refused"]
  <2>1. Outcomes'[r] = "refused"
    BY <1>1 DEF OutcomeInv, Refusal
  <2> QED BY <1>1, <2>1, OneOutcome
<1>4. \A q \in Requests : call'[q] = "returned" <=> call[q] = "returned"
  BY <1>1 DEF Asking, Refusal
<1> QED BY <1>2, <1>3, <1>4, Frames
        DEF Promise!Refuse, Promise!tensors, Promise!flushes, flushing

\* The refusals, and the steps of submit that end nothing.
LEMMA CallMaps ==
  ASSUME PCInv, OutcomeInv, OutcomeInv', NEW r \in Requests,
         \/ CannotBuild(r) \/ Admit(r) \/ SchedulerRefuses(r) \/ UndoAdmission(r)
         \/ UndoNotify(r)
  PROVE  Promise!Refuse(r) \/ UNCHANGED Promise!vars
<1>0. /\ "built" \in Asking /\ "admitted" \in Asking
      /\ "undo" \in Refusal /\ "undo notify" \in Refusal /\ "rejected" \in Refusal
  BY DEF Asking, Refusal
<1>1. CASE CannotBuild(r) \/ SchedulerRefuses(r)
  <2>1. /\ call[r] \in Asking /\ \E there \in Refusal : Goto(r, there)
        /\ UNCHANGED <<run, status, copied, refs, allocated, freed, flushing, stop>>
    BY <1>0, <1>1 DEF CannotBuild, SchedulerRefuses, work, tensor, teardown
  <2> QED BY <2>1, CallRefuses
<1>2. CASE Admit(r)
  <2>1. /\ call[r] \in Asking
        /\ UNCHANGED <<run, status, copied, refs, allocated, freed, flushing, stop>>
    BY <1>0, <1>2 DEF Admit, work, tensor, teardown
  <2>2. CASE accepting
    <3>1. Goto(r, "admitted")
      BY <1>2, <2>2 DEF Admit
    <3> QED BY <1>0, <2>1, <3>1, UnseenCall DEF flushing
  <2>3. CASE ~accepting
    <3>1. Goto(r, "rejected")
      BY <1>2, <2>3 DEF Admit
    <3> QED BY <1>0, <2>1, <3>1, CallRefuses
  <2> QED BY <2>2, <2>3
<1>3. CASE UndoAdmission(r)
  <2>1. /\ call[r] \in Refusal /\ \E there \in Refusal : Goto(r, there)
        /\ UNCHANGED <<run, status, copied, refs, allocated, freed, flushing, stop>>
    BY <1>0, <1>3 DEF UndoAdmission, work, tensor, teardown
  <2> QED BY <2>1, UnseenCall DEF flushing
<1>4. CASE UndoNotify(r)
  <2>1. /\ call[r] \in Refusal /\ Goto(r, "rejected") /\ WakeIdle
        /\ UNCHANGED <<run, status, copied, refs, allocated, freed>>
    BY <1>0, <1>4 DEF UndoNotify, work, tensor
  <2> QED BY <1>0, <2>1, WakeIdleUnseen, UnseenCall
<1> QED BY <1>1, <1>2, <1>3, <1>4

\* A tensor is created for an upload; a download brings nothing.
LEMMA BuildMaps ==
  ASSUME PCInv, DataInv, OutcomeInv, OutcomeInv', RefInv, StreamTypes, NEW r \in Requests,
         BuildTask(r)
  PROVE  Promise!Create(r) \/ UNCHANGED Promise!vars
<1>1. /\ call[r] = "idle" /\ stop = "up" /\ Goto(r, "built")
      /\ UNCHANGED <<run, status, copied, freed, flushing, stop>>
  BY DEF BuildTask, work, teardown
<1>2. "idle" \in Asking /\ "built" \in Asking
  BY DEF Asking
<1>3. CASE r \in Uploads
  <2>1. /\ allocated' = [allocated EXCEPT ![r] = issued + 1]
        /\ refs' = [refs EXCEPT ![r] = {"caller"}]
    BY <1>3 DEF BuildTask
  <2>2. call'[r] = "built" /\ \A q \in Requests \ {r} : call'[q] = call[q]
    BY <1>1 DEF Goto, PCInv
  <2>3. Outcomes[r] = "new" /\ Outcomes' = Outcomes
    <3>1. Outcomes[r] = "new"
      BY <1>1, <1>2 DEF OutcomeInv
    <3>2. Outcomes'[r] = "new"
      BY <2>2 DEF OutcomeInv, Asking
    <3>3. \A q \in Requests : Outcomes'[q] = Outcomes[q]
      BY <1>1, <2>2, <3>1, <3>2, SamePhase
    <3> QED BY <3>1, <3>3, SameOutcomes
  <2>4. Memories[r] = "none" /\ Memories' = [Memories EXCEPT ![r] = "held"]
    <3>1. allocated[r] = 0 /\ freed[r] = 0
      BY <1>1 DEF RefInv, RefOK
    <3>2. Memories[r] = "none"
      BY <3>1 DEF Memories
    <3>3. allocated'[r] # 0 /\ \A q \in Requests \ {r} : allocated'[q] = allocated[q]
      BY <2>1 DEF StreamTypes
    <3>4. freed'[r] = 0 /\ \A q \in Requests \ {r} : freed'[q] = freed[q]
      BY <1>1, <3>1
    <3>5. Memories'[r] = "held"
      BY <3>3, <3>4 DEF Memories
    <3> QED BY <3>2, <3>3, <3>4, <3>5, OneMemory
  <2>5. Kept' = Kept \cup {r}
    <3>1. \A q \in Requests : "caller" \in refs'[q] <=> q = r \/ "caller" \in refs[q]
      BY <2>1 DEF DataInv
    <3> QED BY <3>1 DEF Kept
  <2>6. \A q \in Requests : call'[q] = "returned" <=> call[q] = "returned"
    BY <1>1, <2>2
  <2>7. UpOrDown = "up"
    BY <1>1 DEF UpOrDown
  <2> QED BY <1>1, <2>3, <2>4, <2>5, <2>6, <2>7, Frames
          DEF Promise!Create, Promise!copying, Promise!flushes, flushing
<1>4. CASE r \notin Uploads
  <2>1. UNCHANGED <<refs, allocated>>
    BY <1>4 DEF BuildTask
  <2> QED BY <1>1, <1>2, <2>1, UnseenCall DEF flushing
<1> QED BY <1>3, <1>4

\* The scheduler takes the task: the device is up, as shutdown waits for counted requests.
LEMMA AcceptMaps ==
  ASSUME PCInv, OutcomeInv, OutcomeInv', SafeTeardown, DataInv,
         NEW r \in Requests, SchedulerAccepts(r)
  PROVE  Promise!Accept(r)
<1>1. /\ call[r] = "admitted" /\ Goto(r, IF r \in Uploads THEN "retain" ELSE "returned")
      /\ run' = [run EXCEPT ![r] = "queued"]
      /\ UNCHANGED <<status, copied, refs, allocated, freed, flushing, stop>>
  BY DEF SchedulerAccepts, work, tensor, teardown
<1>2. \A q \in Requests \ {r} : call'[q] = call[q] /\ run'[q] = run[q]
  BY <1>1 DEF Goto, PCInv
<1>3. Outcomes[r] = "new"
  BY <1>1 DEF OutcomeInv, Asking
<1>4. Outcomes' = [Outcomes EXCEPT ![r] = "under way"]
  <2>1. run'[r] \in Working
    BY <1>1 DEF PCInv, Working, RunStates, Released, Finished
  <2>2. Outcomes'[r] = "under way"
    BY <2>1 DEF OutcomeInv, Working
  <2> QED BY <1>1, <1>2, <2>2, OneOutcome
<1>5. UpOrDown = "up"
  <2>1. r \in Counted
    BY <1>1 DEF Counted
  <2> QED BY <2>1 DEF SafeTeardown, UpOrDown
<1>6. HandedOut' \in {HandedOut, HandedOut \cup {r}}
  <2>1. call'[r] \in {"retain", "returned"} /\ call[r] # "returned"
    BY <1>1 DEF Goto, PCInv
  <2>2. CASE call'[r] = "retain"
    <3>1. HandedOut' = HandedOut
      BY <1>2, <2>1, <2>2, Frames
    <3> QED BY <3>1
  <2>3. CASE call'[r] = "returned"
    <3>1. HandedOut' = HandedOut \cup {r}
      BY <1>2, <2>3 DEF HandedOut
    <3> QED BY <3>1
  <2> QED BY <2>1, <2>2, <2>3
<1>7. \A q \in Requests : run'[q] = "done" <=> run[q] = "done"
  BY <1>1, <1>2 DEF PCInv
<1> QED BY <1>1, <1>3, <1>4, <1>5, <1>6, <1>7, Frames
        DEF Promise!Accept, Promise!tensors, Promise!flushes, flushing

\* The call of an upload returns after the completion has been given the tensor to keep,
\* if the copy has not ended in between.
LEMMA RetainMaps ==
  ASSUME PCInv, OutcomeInv, OutcomeInv', DataInv, ResultInv, NEW r \in Requests, Retain(r)
  PROVE  Promise!HandOver(r)
<1>1. /\ call[r] = "retain" /\ Goto(r, "returned")
      /\ refs' = [refs EXCEPT ![r] = IF retaining[r] THEN @ \cup {"completion"} ELSE @]
      /\ UNCHANGED <<run, status, copied, allocated, freed, flushing, stop>>
  BY DEF Retain, work, teardown
<1>2. call'[r] = "returned" /\ \A q \in Requests \ {r} : call'[q] = call[q]
  BY <1>1 DEF Goto, PCInv
<1>3. run[r] \in Working \cup Released
  BY <1>1 DEF PCInv, Working
<1>4. Outcomes[r] \notin {"new", "refused"}
  <2>1. CASE run[r] \in Working
    BY <2>1 DEF OutcomeInv
  <2>2. CASE run[r] \in Released
    BY <2>2 DEF OutcomeInv, DataInv
  <2> QED BY <1>3, <2>1, <2>2
<1>5. Outcomes' = Outcomes
  <2>1. Outcomes'[r] = Outcomes[r]
    <3>1. CASE run[r] \in Working
      BY <1>1, <3>1 DEF OutcomeInv, Working
    <3>2. CASE run[r] \in Released
      BY <1>1, <3>2 DEF OutcomeInv, Released
    <3> QED BY <1>3, <3>1, <3>2
  <2>2. \A q \in Requests : Outcomes'[q] = Outcomes[q]
    BY <1>1, <1>2, <2>1, SamePhase
  <2> QED BY <2>2, SameOutcomes
<1>6. HandedOut' = HandedOut \cup {r}
  BY <1>2 DEF HandedOut
<1>7. \A q \in Requests : "caller" \in refs'[q] <=> "caller" \in refs[q]
  BY <1>1 DEF DataInv
<1> QED BY <1>1, <1>4, <1>5, <1>6, <1>7, Frames
        DEF Promise!HandOver, Promise!tensors, Promise!flushes, flushing

-----------------------------------------------------------------------------
(* References to tensors *)

\* A tensor that somebody refers to is in memory, and the last reference releases it.
LEMMA DropMaps ==
  ASSUME DataInv, RefInv, StreamTypes, NEW r \in Uploads, call[r] # "idle",
         NEW holder \in {"caller", "completion", "worker"}, DropTensor(r, holder)
  PROVE  IF refs[r] = {holder}
         THEN Memories[r] = "held" /\ Memories' = [Memories EXCEPT ![r] = "released"]
         ELSE UNCHANGED Memories
<1>1. RefOK(r) /\ r \in Requests
  BY DEF RefInv, Requests
<1>2. CASE refs[r] = {holder}
  <2>1. freed' = [freed EXCEPT ![r] = issued + 1] /\ allocated' = allocated
    BY <1>2 DEF DropTensor
  <2>2. allocated[r] # 0 /\ freed[r] = 0
    <3>1. allocated[r] # 0 /\ (refs[r] = {} <=> freed[r] # 0)
      BY <1>1 DEF RefOK
    <3>2. refs[r] # {}
      BY <1>2
    <3> QED BY <3>1, <3>2
  <2>3. Memories[r] = "held"
    BY <1>1, <2>2 DEF Memories
  <2>4. freed'[r] # 0 /\ \A q \in Requests \ {r} : freed'[q] = freed[q]
    BY <1>1, <2>1 DEF StreamTypes
  <2>5. Memories'[r] = "released"
    BY <1>1, <2>1, <2>2, <2>4 DEF Memories
  <2>6. Memories' = [Memories EXCEPT ![r] = "released"]
    BY <1>1, <2>1, <2>4, <2>5, OneMemory
  <2> QED BY <1>2, <2>3, <2>6
<1>3. CASE refs[r] # {holder}
  <2>1. UNCHANGED <<freed, allocated>>
    BY <1>3 DEF DropTensor
  <2> QED BY <1>3, <2>1, Frames
<1> QED BY <1>2, <1>3

\* Nothing is released for a download.
LEMMA DropNothing ==
  ASSUME DataInv, RefInv, NEW r \in Requests \ Uploads, NEW holder, DropTensor(r, holder)
  PROVE  UNCHANGED <<refs, allocated, freed>>
<1>1. refs[r] = {}
  BY DEF RefInv, RefOK
<1>2. UNCHANGED <<allocated, freed>>
  BY <1>1 DEF DropTensor
<1>3. refs' = [refs EXCEPT ![r] = @ \ {holder}]
  BY DEF DropTensor
<1>4. refs' = refs
  BY <1>1, <1>3 DEF DataInv
<1> QED BY <1>2, <1>4

\* A call that fails destroys the tensor it made.
LEMMA FailMaps ==
  ASSUME PCInv, DataInv, OutcomeInv, OutcomeInv', RefInv, StreamTypes,
         NEW r \in Requests, Fail(r)
  PROVE  Promise!GiveUp(r) \/ UNCHANGED Promise!vars
<1>1. /\ call[r] = "rejected" /\ Goto(r, "failed") /\ DropTensor(r, "caller")
      /\ UNCHANGED <<run, status, copied, flushing, stop>>
  BY DEF Fail, work, teardown
<1>2. "rejected" \in Refusal /\ "failed" \in Refusal
  BY DEF Refusal
<1>3. CASE r \in Uploads
  <2>1. call'[r] = "failed" /\ \A q \in Requests \ {r} : call'[q] = call[q]
    BY <1>1 DEF Goto, PCInv
  <2>2. Outcomes[r] = "refused" /\ Outcomes' = Outcomes
    <3>1. Outcomes[r] = "refused"
      BY <1>1, <1>2 DEF OutcomeInv
    <3>2. Outcomes'[r] = "refused"
      BY <2>1 DEF OutcomeInv, Refusal
    <3>3. \A q \in Requests : Outcomes'[q] = Outcomes[q]
      BY <1>1, <2>1, <3>1, <3>2, SamePhase
    <3> QED BY <3>1, <3>3, SameOutcomes
  <2>3. r \in Kept
    BY <1>1, <1>3 DEF Kept, RefInv, RefOK, InCall
  <2>4. Kept' = Kept \ {r}
    <3>1. refs' = [refs EXCEPT ![r] = @ \ {"caller"}]
      BY <1>1 DEF DropTensor
    <3>2. \A q \in Requests : "caller" \in refs'[q] <=> q # r /\ "caller" \in refs[q]
      BY <3>1 DEF DataInv
    <3> QED BY <3>2 DEF Kept
  <2>5. Promise!Free(r) \/ UNCHANGED Memories
    BY <1>1, <1>3, <2>2, DropMaps DEF Promise!Free
  <2>6. \A q \in Requests : call'[q] = "returned" <=> call[q] = "returned"
    BY <1>1, <2>1
  <2> QED BY <1>1, <2>2, <2>3, <2>4, <2>5, <2>6, Frames
          DEF Promise!GiveUp, Promise!copying, Promise!flushes, flushing
<1>4. CASE r \notin Uploads
  <2>1. UNCHANGED <<refs, allocated, freed>>
    BY <1>1, <1>4, DropNothing
  <2> QED BY <1>1, <1>2, <2>1, UnseenCall DEF flushing
<1> QED BY <1>3, <1>4

\* A copy that no longer keeps its tensor has ended.
LEMMA EndedValue ==
  ASSUME DataInv, OutcomeInv, ResultInv, NEW r \in Requests, run[r] \in Released
  PROVE  Outcomes[r] \in {"SUCCESS", "DEVICE_ERROR"}
<1>1. Outcomes[r] = status[r]
  BY DEF OutcomeInv
<1>2. status[r] # "none"
  BY DEF ResultInv, Ending
<1> QED BY <1>1, <1>2 DEF DataInv

\* The user gives a tensor up: it goes at once only when the copy has let go of it.
LEMMA UserDropsMaps ==
  ASSUME PCInv, DataInv, OutcomeInv, OutcomeInv', RefInv, StreamTypes, ResultInv,
         NEW r \in Requests, UserDrops(r)
  PROVE  Promise!GiveUp(r)
<1>1. /\ call[r] = "returned" /\ "caller" \in refs[r] /\ DropTensor(r, "caller")
      /\ UNCHANGED <<call, run, status, copied, flushing, stop>>
  BY DEF UserDrops, work, teardown
<1>2. r \in Uploads
  BY <1>1 DEF RefInv, RefOK
<1>3. r \in Kept /\ r \in HandedOut
  BY <1>1 DEF Kept, HandedOut
<1>4. Kept' = Kept \ {r}
  <2>1. refs' = [refs EXCEPT ![r] = @ \ {"caller"}]
    BY <1>1 DEF DropTensor
  <2>2. \A q \in Requests : "caller" \in refs'[q] <=> q # r /\ "caller" \in refs[q]
    BY <2>1 DEF DataInv
  <2> QED BY <2>2 DEF Kept
<1>5. Promise!Free(r) \/ UNCHANGED Memories
  <2>1. CASE refs[r] = {"caller"}
    <3>1. run[r] \in Released
      BY <1>1, <1>2, <2>1 DEF RefInv, RefOK
    <3> QED BY <1>1, <1>2, <2>1, <3>1, DropMaps, EndedValue DEF Promise!Free, Promise!Ended
  <2>2. CASE refs[r] # {"caller"}
    BY <1>1, <1>2, <2>2, DropMaps
  <2> QED BY <2>1, <2>2
<1> QED BY <1>1, <1>3, <1>4, <1>5, Frames
        DEF Promise!GiveUp, Promise!copying, Promise!flushes, flushing

-----------------------------------------------------------------------------
(* The end of a copy *)

\* A request whose copy is not complete has not arrived.
LEMMA NotArrived ==
  ASSUME NEW r \in Requests, Len(copied[r]) # Chunks PROVE r \notin Arrived
<1> SUFFICES ASSUME copied[r] = WholeRequest(r) PROVE FALSE
  BY DEF Arrived
<1>1. Len(WholeRequest(r)) = Chunks
  BY CountsAssumption DEF WholeRequest
<1> QED BY <1>1

\* The last chunk makes the copy arrive, in memory that is still there; the ones before
\* it show nothing.
LEMMA DrainMaps ==
  ASSUME PCInv, DataInv, OutcomeInv, OutcomeInv', CopyInv, CopyInv', CopyIsComplete',
         NoUseAfterFree, LoanInv, NEW r \in Requests, DrainStaging(r)
  PROVE  Promise!Arrive(r) \/ UNCHANGED Promise!vars
<1>1. /\ Step(r, "second half", IF NextChunk(r) = Chunks THEN "release" ELSE "first half")
      /\ \E piece : copied' = [copied EXCEPT ![r] = Append(@, piece)]
      /\ UNCHANGED <<call, refs, allocated, freed, flushing, stop>>
  BY DEF DrainStaging, tensor, teardown
<1>2. /\ run[r] = "second half" /\ run'[r] \in {"release", "first half"}
      /\ \A q \in Requests \ {r} : run'[q] = run[q]
  BY <1>1 DEF Step, PCInv
<1>3. \A q \in Requests \ {r} : copied'[q] = copied[q] /\ status'[q] = status[q]
  BY <1>1 DEF DrainStaging, Outcome, CopyInv, DataInv
<1>4. Outcomes[r] = "under way" /\ Outcomes' = Outcomes
  <2>1. run[r] \in Working /\ run'[r] \in Working
    BY <1>2 DEF Working, RunStates, Released, Finished
  <2>2. Outcomes[r] = "under way"
    BY <2>1 DEF OutcomeInv
  <2>3. \A q \in Requests : Outcomes'[q] = Outcomes[q]
    BY <1>1, <1>2, <1>3, <2>1, SamePhase
  <2> QED BY <2>2, <2>3, SameOutcomes
<1>5. \A q \in Requests : run'[q] = "done" <=> run[q] = "done"
  BY <1>2
<1>6. Len(copied[r]) < Chunks /\ Progress(r)
  BY <1>2 DEF CopyInv, Progress, Moving
<1>7. CASE NextChunk(r) = Chunks
  <2>1. status'[r] = "SUCCESS"
    BY <1>7 DEF DrainStaging, Outcome, DataInv
  <2>2. copied'[r] = WholeRequest(r)
    BY <2>1 DEF CopyIsComplete, WholeRequest
  <2>3. Arrived' = Arrived \cup {r}
    <3>1. \A q \in Requests \ {r} : copied'[q] = WholeRequest(q) <=> copied[q] = WholeRequest(q)
      BY <1>3
    <3>2. \A q \in Requests : q \in Arrived' <=> copied'[q] = WholeRequest(q)
      BY DEF Arrived, WholeRequest
    <3>3. \A q \in Requests : q \in Arrived <=> copied[q] = WholeRequest(q)
      BY DEF Arrived
    <3>4. Arrived' \subseteq Requests /\ Arrived \subseteq Requests
      BY DEF Arrived
    <3> QED BY <2>2, <3>1, <3>2, <3>3, <3>4
  <2>4. Memories[r] # "released"
    <3>1. CASE r \in Uploads
      BY <1>2, <3>1 DEF NoUseAfterFree, InUse, Memories
    <3>2. CASE r \notin Uploads
      BY <3>2 DEF LoanInv, Memories
    <3> QED BY <3>1, <3>2
  <2> QED BY <1>1, <1>4, <1>5, <2>3, <2>4, Frames
          DEF Promise!Arrive, Promise!tensors, Promise!flushes, flushing
<1>8. CASE NextChunk(r) # Chunks
  <2>1. run'[r] = "first half"
    BY <1>1, <1>8 DEF Step, PCInv
  <2>2. Len(copied'[r]) < Chunks
    BY <2>1 DEF CopyInv, Progress, Moving
  <2>3. Arrived' = Arrived
    <3>1. \A q \in Requests \ {r} : copied'[q] = WholeRequest(q) <=> copied[q] = WholeRequest(q)
      BY <1>3
    <3>2. copied[r] # WholeRequest(r) /\ copied'[r] # WholeRequest(r)
      <4>1. Len(WholeRequest(r)) = Chunks
        BY CountsAssumption DEF WholeRequest
      <4> QED BY <1>6, <2>2, <4>1
    <3>3. \A q \in Requests : q \in Arrived' <=> copied'[q] = WholeRequest(q)
      BY DEF Arrived, WholeRequest
    <3>4. \A q \in Requests : q \in Arrived <=> copied[q] = WholeRequest(q)
      BY DEF Arrived
    <3>5. Arrived' \subseteq Requests /\ Arrived \subseteq Requests
      BY DEF Arrived
    <3> QED BY <3>1, <3>2, <3>3, <3>4, <3>5
  <2> QED BY <1>1, <1>4, <1>5, <2>3, Frames DEF Promise!vars, flushing
<1> QED BY <1>7, <1>8

\* prepareToSignal is where a copy ends for its user: with SUCCESS only if it arrived.
LEMMA PrepareMaps ==
  ASSUME PCInv, DataInv, OutcomeInv, OutcomeInv', CopyIsComplete, ResultInv,
         NEW r \in Requests, PrepareToSignal(r)
  PROVE  Promise!End(r, status[r]) /\ status[r] \in {"SUCCESS", "DEVICE_ERROR"}
<1>1. /\ run[r] = "prepare" /\ run' = [run EXCEPT ![r] = "drop"]
      /\ refs' = [refs EXCEPT ![r] =
           IF "completion" \in @ THEN (@ \ {"completion"}) \cup {"worker"} ELSE @]
      /\ UNCHANGED <<call, status, copied, allocated, freed, flushing, stop>>
  BY DEF PrepareToSignal, Step, work, teardown
<1>2. run'[r] = "drop" /\ \A q \in Requests \ {r} : run'[q] = run[q]
  BY <1>1 DEF PCInv
<1>3. status[r] \in {"SUCCESS", "DEVICE_ERROR"}
  BY <1>1 DEF ResultInv, Ending, DataInv
<1>4. Outcomes[r] = "under way"
  <2>1. run[r] \in Working
    BY <1>1 DEF Working, RunStates, Released, Finished
  <2> QED BY <2>1 DEF OutcomeInv
<1>5. Outcomes' = [Outcomes EXCEPT ![r] = status[r]]
  <2>1. Outcomes'[r] = status[r]
    BY <1>1, <1>2 DEF OutcomeInv, Released
  <2> QED BY <1>1, <1>2, <2>1, OneOutcome
<1>6. status[r] = "SUCCESS" => r \in Arrived
  BY DEF CopyIsComplete, Arrived, WholeRequest
<1>7. \A q \in Requests : "caller" \in refs'[q] <=> "caller" \in refs[q]
  BY <1>1 DEF DataInv
<1>8. \A q \in Requests : run'[q] = "done" <=> run[q] = "done"
  BY <1>1, <1>2
<1> QED BY <1>1, <1>3, <1>4, <1>5, <1>6, <1>7, <1>8, Frames
        DEF Promise!End, Promise!tensors, Promise!flushes, flushing

\* The completion lets its tensor go: if nobody else refers to it, it is released.
LEMMA ReleaseMaps ==
  ASSUME PCInv, DataInv, OutcomeInv, OutcomeInv', RefInv, StreamTypes, ResultInv,
         NEW r \in Requests, ReleaseRetained(r)
  PROVE  Promise!FreeAbandoned(r) \/ UNCHANGED Promise!vars
<1>1. /\ Step(r, "drop", "finish") /\ DropTensor(r, "worker")
      /\ UNCHANGED <<call, status, copied, flushing, stop>>
  BY DEF ReleaseRetained, work, teardown
<1>2. run[r] = "drop" /\ run'[r] = "finish" /\ \A q \in Requests \ {r} : run'[q] = run[q]
  BY <1>1 DEF Step, PCInv
<1>3. Outcomes[r] \in {"SUCCESS", "DEVICE_ERROR"} /\ Outcomes' = Outcomes
  <2>1. run[r] \in Released /\ run'[r] \in Released
    BY <1>2 DEF Released
  <2>2. \A q \in Requests : Outcomes'[q] = Outcomes[q]
    BY <1>1, <1>2, <2>1, SamePhase
  <2> QED BY <2>1, <2>2, EndedValue, SameOutcomes
<1>4. \A q \in Requests : run'[q] = "done" <=> run[q] = "done"
  BY <1>2
<1>5. \A q \in Requests : "caller" \in refs'[q] <=> "caller" \in refs[q]
  BY <1>1 DEF DropTensor, DataInv
<1>6. CASE r \in Uploads /\ refs[r] = {"worker"}
  <2>1. call[r] # "idle"
    BY <1>6 DEF RefInv, RefOK
  <2>2. Memories[r] = "held" /\ Memories' = [Memories EXCEPT ![r] = "released"]
    BY <1>1, <1>6, <2>1, DropMaps
  <2>3. r \notin Kept
    BY <1>6 DEF Kept
  <2> QED BY <1>1, <1>3, <1>4, <1>5, <2>2, <2>3, Frames
          DEF Promise!FreeAbandoned, Promise!Free, Promise!Ended, Promise!copying,
              Promise!flushes, flushing
<1>7. CASE r \notin Uploads \/ refs[r] # {"worker"}
  <2>1. UNCHANGED <<allocated, freed>>
    <3>1. CASE r \notin Uploads
      BY <1>1, <3>1, DropNothing
    <3>2. CASE refs[r] # {"worker"}
      BY <1>1, <3>2 DEF DropTensor
    <3> QED BY <1>7, <3>1, <3>2
  <2> QED BY <1>1, <1>3, <1>4, <1>5, <2>1, Frames DEF Promise!vars, flushing
<1> QED BY <1>6, <1>7

\* signal: once, and after the end.
LEMMA SignalMaps ==
  ASSUME PCInv, DataInv, OutcomeInv, OutcomeInv', ResultInv, NEW r \in Requests, Signal(r)
  PROVE  Promise!Tell(r)
<1>1. /\ run[r] = "signal" /\ run' = [run EXCEPT ![r] = "done"]
      /\ UNCHANGED <<call, status, copied, refs, allocated, freed, flushing, stop>>
  BY DEF Signal, Step, work, tensor, teardown
<1>2. run'[r] = "done" /\ \A q \in Requests \ {r} : run'[q] = run[q]
  BY <1>1 DEF PCInv
<1>3. Outcomes[r] \in {"SUCCESS", "DEVICE_ERROR"} /\ Outcomes' = Outcomes
  <2>1. run[r] \in Released /\ run'[r] \in Released
    BY <1>1, <1>2 DEF Released, Finished
  <2>2. \A q \in Requests : Outcomes'[q] = Outcomes[q]
    BY <1>1, <1>2, <2>1, SamePhase
  <2> QED BY <2>1, <2>2, EndedValue, SameOutcomes
<1>4. r \notin Told /\ Told' = Told \cup {r}
  BY <1>1, <1>2 DEF Told
<1> QED BY <1>1, <1>3, <1>4, Frames
        DEF Promise!Tell, Promise!Ended, Promise!tensors, Promise!flushes, flushing

-----------------------------------------------------------------------------
(* Flush and shutdown *)

\* A flush begins: it will wait for what has been handed over and given up by now.
LEMMA BeginFlushMaps ==
  ASSUME PCInv, DataInv, OutcomeInv, OutcomeInv', RefInv, LoanInv,
         NEW f \in Flushers, BeginFlush(f)
  PROVE  Promise!BeginFlush(f)
<1>1. /\ flush[f] = "idle" /\ stop = "up"
      /\ \E there \in {"sync", "asleep"} : flush' = [flush EXCEPT ![f] = there]
      /\ UNCHANGED <<call, run, status, copied, refs, allocated, freed, stop>>
  BY DEF BeginFlush, TestIdle, FlushTo, work, tensor, teardown
<1>2. UpOrDown = "up"
  BY <1>1 DEF UpOrDown
<1>3. f \notin InFlush /\ InFlush' = InFlush \cup {f}
  <2>1. \A g \in Flushers : flush'[g] # "idle" <=> g = f \/ flush[g] # "idle"
    BY <1>1 DEF DataInv
  <2> QED BY <1>1, <2>1 DEF InFlush
<1>4. before' = [before EXCEPT ![f] = HandedOut]
  BY DEF BeginFlush, HandedOut
<1>5. dropped' = [dropped EXCEPT ![f] = {c \in HandedOut : Memories[c] # "none" /\ c \notin Kept}]
  <2>1. {c \in HandedOut : Memories[c] # "none" /\ c \notin Kept}
          = {r \in Uploads : call[r] = "returned" /\ "caller" \notin refs[r]}
    <3>1. ASSUME NEW c \in HandedOut PROVE Memories[c] # "none" <=> c \in Uploads
      <4>1. c \in Requests /\ call[c] = "returned"
        BY DEF HandedOut
      <4>2. c \in Uploads => allocated[c] # 0
        BY <4>1 DEF RefInv, RefOK
      <4>3. c \notin Uploads => allocated[c] = 0
        BY <4>1 DEF LoanInv
      <4>4. Memories[c] # "none" <=> allocated[c] # 0
        BY <4>1 DEF Memories
      <4> QED BY <4>2, <4>3, <4>4
    <3> QED BY <3>1 DEF HandedOut, Kept, Requests
  <2> QED BY <2>1 DEF BeginFlush
<1> QED BY <1>1, <1>2, <1>3, <1>4, <1>5, Frames
        DEF Promise!BeginFlush, Promise!copying, Promise!tensors

\* A flush ends, with success or not, when what it waits for is over.
LEMMA EndFlushMaps ==
  ASSUME PCInv, DataInv, OutcomeInv, OutcomeInv', RefInv, ResultInv, FlushInv,
         NEW f \in Flushers, FlushSucceeds(f) \/ FlushFails(f)
  PROVE  Promise!EndFlush(f)
<1>1. /\ flush[f] \in {"sync", "syncing"} /\ flush' = [flush EXCEPT ![f] = "idle"]
      /\ before' = [before EXCEPT ![f] = {}] /\ dropped' = [dropped EXCEPT ![f] = {}]
      /\ UNCHANGED <<call, run, status, copied, refs, allocated, freed, stop>>
  BY DEF FlushSucceeds, FlushFails, EndFlush, FlushTo, work, tensor, teardown
<1>2. f \in InFlush /\ InFlush' = InFlush \ {f}
  <2>1. \A g \in Flushers : flush'[g] # "idle" <=> g # f /\ flush[g] # "idle"
    BY <1>1 DEF DataInv
  <2> QED BY <1>1, <2>1 DEF InFlush
<1>3. FlushOK(f) /\ before[f] \subseteq Requests
  BY DEF FlushInv, DataInv
<1>4. ASSUME NEW c \in before[f] PROVE Outcomes[c] \in {"SUCCESS", "DEVICE_ERROR"}
  <2>1. c \in Requests /\ run[c] \in Released
    BY <1>1, <1>3 DEF FlushOK, Released
  <2> QED BY <2>1, EndedValue
<1>5. ASSUME NEW c \in dropped[f] PROVE Memories[c] = "released"
  <2>1. c \in Requests /\ c \in Uploads /\ call[c] = "returned" /\ refs[c] = {}
    BY <1>1, <1>3 DEF FlushOK
  <2>2. allocated[c] # 0 /\ freed[c] # 0
    BY <2>1 DEF RefInv, RefOK
  <2> QED BY <2>1, <2>2 DEF Memories
<1> QED BY <1>1, <1>2, <1>4, <1>5, Frames
        DEF Promise!EndFlush, Promise!Ended, Promise!copying, Promise!tensors

\* With no task active and the user gone, the device is at rest.
LEMMA RestValue ==
  ASSUME PCInv, DataInv, OutcomeInv, RefInv, TaskAccounting, LoanInv, activeTasks = 0,
         \A r \in Uploads : call[r] \in Over /\ "caller" \notin refs[r],
         NEW c \in Requests
  PROVE  Outcomes[c] # "under way" /\ Memories[c] # "held"
<1>1. Outcomes[c] # "under way"
  <2>1. run[c] \notin Working
    BY CountIsNatural DEF Counted, Working, Released
  <2>2. CASE call[c] \in Refusal \cup Asking
    BY <2>2 DEF OutcomeInv
  <2>3. CASE run[c] \in Released
    BY <2>3 DEF OutcomeInv, DataInv
  <2> QED BY <2>1, <2>2, <2>3 DEF OutcomeInv
<1>2. CASE c \in Uploads
  <2>1. refs[c] = {}
    <3>1. CASE call[c] = "returned"
      BY <1>2, <3>1, IdleMeansDone
    <3>2. CASE call[c] # "returned"
      <4>1. RefOK(c) /\ run[c] = "none"
        BY <1>2, <3>2 DEF RefInv, PCInv, Over
      <4> QED BY <1>2, <3>2, <4>1 DEF RefOK, DataInv
    <3> QED BY <3>1, <3>2
  <2>2. allocated[c] = 0 \/ freed[c] # 0
    BY <1>2, <2>1 DEF RefInv, RefOK
  <2> QED BY <1>1, <2>2 DEF Memories
<1>3. CASE c \notin Uploads
  BY <1>1, <1>3 DEF LoanInv, Memories
<1> QED BY <1>2, <1>3

\* stopAndWait either waits, which nobody sees, or takes the device down at rest.
LEMMA StopMaps ==
  ASSUME PCInv, DataInv, OutcomeInv, OutcomeInv', RefInv, TaskAccounting, LoanInv,
         CallersGone, FlushersGone, StopAndWait \/ StopRetest
  PROVE  Promise!GoDown \/ UNCHANGED Promise!vars
<1>1. /\ stop \in {"up", "test"} /\ TestDrained
      /\ UNCHANGED <<call, run, status, copied, refs, allocated, freed, flushing>>
  BY DEF StopAndWait, StopRetest, work, tensor
<1>2. \A r \in Uploads : call[r] \in Over /\ "caller" \notin refs[r]
  BY DEF StopAndWait, StopRetest, CallersGone, Over
<1>3. \A f \in Flushers : flush[f] = "idle"
  BY DEF StopAndWait, StopRetest, FlushersGone
<1>4. CASE activeTasks = 0
  <2>1. UpOrDown = "up" /\ UpOrDown' = "down"
    BY <1>1, <1>4 DEF TestDrained, StopTo, UpOrDown
  <2>2. InFlush = {}
    BY <1>3 DEF InFlush
  <2>3. \A c \in Requests : Outcomes[c] # "under way" /\ Memories[c] # "held"
    BY <1>2, <1>4, RestValue
  <2> QED BY <1>1, <2>1, <2>2, <2>3, Frames
          DEF Promise!GoDown, Promise!copying, Promise!tensors, Promise!flushes, flushing
<1>5. CASE activeTasks # 0
  BY <1>1, <1>5, ElseUnseen DEF TestDrained, StopTo, flushing
<1> QED BY <1>4, <1>5

\* The rest of flush and shutdown, and the stream.
LEMMA WaitersUnseen ==
  ASSUME DataInv, OutcomeInv, OutcomeInv',
         \/ Execute \/ SpuriousStopWakeup \/ ReleaseResources \/ ShutdownSynchronizes
         \/ AbandonResources \/ ShutdownSynced \/ DestroyPool \/ DestroyStream
         \/ \E f \in Flushers : FlushRetest(f) \/ SpuriousFlushWakeup(f) \/ FlushSynchronizes(f)
  PROVE  UNCHANGED Promise!vars
<1>1. CASE Execute
  BY <1>1, ElseUnseen DEF Execute, work, tensor, flushing, teardown
<1>2. CASE \/ SpuriousStopWakeup \/ ReleaseResources \/ ShutdownSynchronizes
           \/ AbandonResources \/ ShutdownSynced \/ DestroyPool \/ DestroyStream
  <2>1. UNCHANGED <<call, run, status, copied, refs, allocated, freed, flushing>>
    BY <1>2 DEF SpuriousStopWakeup, ReleaseResources, ShutdownSynchronizes, AbandonResources,
       ShutdownSynced, DestroyPool, DestroyStream, work, tensor
  <2>2. stop' \in {"up", "asleep", "test"} <=> stop \in {"up", "asleep", "test"}
    BY <1>2 DEF SpuriousStopWakeup, ReleaseResources, ShutdownSynchronizes, AbandonResources,
       ShutdownSynced, DestroyPool, DestroyStream, StopTo
  <2> QED BY <2>1, <2>2, ElseUnseen DEF flushing
<1>3. ASSUME NEW f \in Flushers,
             FlushRetest(f) \/ SpuriousFlushWakeup(f) \/ FlushSynchronizes(f)
      PROVE  UNCHANGED Promise!vars
  <2>1. UNCHANGED <<call, run, status, copied, refs, allocated, freed, before, dropped, stop>>
    BY <1>3 DEF FlushRetest, SpuriousFlushWakeup, FlushSynchronizes, work, tensor, teardown
  <2>2. flush[f] # "idle" /\ \E there \in FlushStates \ {"idle"} : FlushTo(f, there)
    BY <1>3 DEF FlushRetest, SpuriousFlushWakeup, FlushSynchronizes, TestIdle, FlushStates
  <2>3. \A g \in Flushers : flush'[g] = "idle" <=> flush[g] = "idle"
    BY <2>2 DEF FlushTo, DataInv
  <2> QED BY <2>1, <2>3, ElseUnseen
<1> QED BY <1>1, <1>2, <1>3

-----------------------------------------------------------------------------
(* The refinement *)

KnownNow ==
  /\ PCInv /\ DataInv /\ TaskAccounting /\ CopyInv /\ CopyIsComplete /\ StreamTypes /\ RefInv
  /\ CallersGone /\ NoUseAfterFree /\ SafeTeardown /\ FlushInv
  /\ ResultInv /\ LoanInv /\ FlushersGone /\ OutcomeInv

\* Lanes, scheduler threads, counters and condition variables are invisible: each step of
\* the program is a step of DeviceCopies or none.  So each accepted copy ends once, with
\* SUCCESS only if all of it arrived, an uploaded tensor's memory outlives the copy and
\* the user's interest in it and no more, a flush covers what was handed over before it,
\* and the device goes down at rest.
THEOREM PromiseKept == Spec => ImplementsPromise
<1>1. Init => Promise!Init
  <2> SUFFICES ASSUME Init PROVE Promise!Init
    OBVIOUS
  <2>1. Outcomes = [r \in Requests |-> "new"]
    <3>1. \A r \in Requests : Outcomes[r] = "new"
      BY DEF Init, Outcomes, Finished
    <3>2. Outcomes = [r \in Requests |-> Outcomes[r]]
      BY DEF Outcomes
    <3> QED BY <3>1, <3>2
  <2>2. Memories = [r \in Requests |-> "none"]
    BY DEF Init, Memories
  <2>3. Arrived = {}
    <3>1. \A r \in Requests : Len(copied[r]) # Chunks
      BY CountsAssumption DEF Init
    <3> QED BY <3>1, NotArrived DEF Arrived
  <2>4. HandedOut = {} /\ Told = {} /\ Kept = {} /\ InFlush = {} /\ UpOrDown = "up"
    BY DEF Init, HandedOut, Told, Kept, InFlush, UpOrDown
  <2> QED BY <2>1, <2>2, <2>3, <2>4 DEF Init, Promise!Init
<1>2. KnownNow /\ KnownNow' /\ [Next]_vars => [Promise!Next]_(Promise!vars)
  <2> SUFFICES ASSUME KnownNow, KnownNow', [Next]_vars PROVE [Promise!Next]_(Promise!vars)
    OBVIOUS
  <2> USE DEF KnownNow
  <2>1. ASSUME NEW r \in Requests, BuildTask(r) PROVE [Promise!Next]_(Promise!vars)
    BY <2>1, BuildMaps DEF Promise!Next
  <2>2. ASSUME NEW r \in Requests,
               \/ CannotBuild(r) \/ Admit(r) \/ SchedulerRefuses(r) \/ UndoAdmission(r)
               \/ UndoNotify(r)
        PROVE  [Promise!Next]_(Promise!vars)
    BY <2>2, CallMaps DEF Promise!Next
  <2>3. ASSUME NEW r \in Requests, SchedulerAccepts(r) PROVE [Promise!Next]_(Promise!vars)
    BY <2>3, AcceptMaps DEF Promise!Next
  <2>4. ASSUME NEW r \in Requests, Fail(r) PROVE [Promise!Next]_(Promise!vars)
    BY <2>4, FailMaps DEF Promise!Next
  <2>5. ASSUME NEW r \in Requests, Retain(r) PROVE [Promise!Next]_(Promise!vars)
    BY <2>5, RetainMaps DEF Promise!Next
  <2>6. ASSUME NEW r \in Requests, UserDrops(r) PROVE [Promise!Next]_(Promise!vars)
    BY <2>6, UserDropsMaps DEF Promise!Next
  <2>7. ASSUME NEW r \in Requests,
               \/ StartCopy(r) \/ DependencySynced(r) \/ AcquireLane(r)
               \/ SpuriousLaneWakeup(r) \/ FillStaging(r) \/ ChunkFails(r) \/ ReleaseLane(r)
               \/ FinishTask(r) \/ NotifyIdle(r)
        PROVE  [Promise!Next]_(Promise!vars)
    BY <2>7, RunUnseen
  <2>8. ASSUME NEW r \in Requests, NotifyLane(r) PROVE [Promise!Next]_(Promise!vars)
    BY <2>8, NotifyLaneUnseen
  <2>9. ASSUME NEW r \in Requests, DrainStaging(r) PROVE [Promise!Next]_(Promise!vars)
    BY <2>9, DrainMaps DEF Promise!Next
  <2>10. ASSUME NEW r \in Requests, PrepareToSignal(r) PROVE [Promise!Next]_(Promise!vars)
    BY <2>10, PrepareMaps DEF Promise!Next
  <2>11. ASSUME NEW r \in Requests, ReleaseRetained(r) PROVE [Promise!Next]_(Promise!vars)
    BY <2>11, ReleaseMaps DEF Promise!Next
  <2>12. ASSUME NEW r \in Requests, Signal(r) PROVE [Promise!Next]_(Promise!vars)
    BY <2>12, SignalMaps DEF Promise!Next
  <2>13. ASSUME NEW f \in Flushers, BeginFlush(f) PROVE [Promise!Next]_(Promise!vars)
    BY <2>13, BeginFlushMaps DEF Promise!Next
  <2>14. ASSUME NEW f \in Flushers, FlushSucceeds(f) \/ FlushFails(f)
         PROVE  [Promise!Next]_(Promise!vars)
    BY <2>14, EndFlushMaps DEF Promise!Next
  <2>15. CASE StopAndWait \/ StopRetest
    BY <2>15, StopMaps DEF Promise!Next
  <2>16. CASE \/ Execute \/ SpuriousStopWakeup \/ ReleaseResources \/ ShutdownSynchronizes
              \/ AbandonResources \/ ShutdownSynced \/ DestroyPool \/ DestroyStream
              \/ \E f \in Flushers :
                   FlushRetest(f) \/ SpuriousFlushWakeup(f) \/ FlushSynchronizes(f)
    BY <2>16, WaitersUnseen
  <2>17. CASE UNCHANGED vars
    BY <2>17, ElseUnseen DEF vars, work, tensor, flushing, teardown
  <2> QED
    BY ZenonT(60), <2>1, <2>2, <2>3, <2>4, <2>5, <2>6, <2>7, <2>8, <2>9, <2>10, <2>11, <2>12,
       <2>13, <2>14, <2>15, <2>16, <2>17
    DEF Next, CallStep, RunStep, FlushStep, StopStep
<1>3. PCInv => OutcomeInv
  BY OutcomeValue
<1>4. Spec => []KnownNow
  BY <1>3, PCInductive, DataInductive, ActiveTasksCounted, CopyInductive, SuccessMeansCopied,
     StreamInductive, RefInductive, GoneInductive, NothingUsedAfterFree, TeardownIsSafe,
     FlushInductive, ResultInductive, LoanInductive, FlushersInductive, PTL DEF KnownNow
<1> QED
  BY <1>1, <1>2, <1>4, PTL DEF Spec, SafetySpec, ImplementsPromise, Promise!Spec
=============================================================================
