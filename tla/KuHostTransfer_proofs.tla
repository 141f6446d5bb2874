----------------------- MODULE KuHostTransfer_proofs ------------------------
(***************************************************************************)
(* Every safety property of KuHostTransfer, for any finite set of          *)
(* requests, any set of flushing threads, any number of lanes and any      *)
(* number of chunks.  None of the properties is inductive alone.  The      *)
(* invariants below are proved one after the other, each using the ones    *)
(* before it:                                                              *)
(*   PCInv        a request has a thread iff the scheduler accepted it;    *)
(*   DataInv      the variables that range over small sets;                *)
(*   TaskAccounting   m_activeTasks is the number of counted requests;     *)
(*   StopInv      shutdown closes admission, and drains before going on;   *)
(*   PartInv      every lane is on the stack or with one thread;           *)
(*   CopyInv      how much of each request has been copied, and where;     *)
(*   StreamTypes  positions on the default stream;                         *)
(*   RefInv       who refers to each tensor, and when its release is       *)
(*                enqueued;                                                *)
(*   ReadyInv     a thread past the stream query is behind the allocation; *)
(*   CallersGone  the user has let go of the device when it shuts down;    *)
(*   EndInv       the pool is destroyed after the stream has run out;      *)
(*   FlushInv     what a flush waits for.                                  *)
(***************************************************************************)
EXTENDS KuHostTransfer, FiniteSetTheorems, SequenceTheorems, TLAPS

-----------------------------------------------------------------------------
(* Program counters and the other variables of finite type *)

\* A request has a scheduler thread exactly when the scheduler has accepted it.
PCInv ==
  /\ call \in [Requests -> CallStates] /\ run \in [Requests -> RunStates]
  /\ \A r \in Requests : run[r] = "none" <=> call[r] \notin {"retain", "returned"}

\* Program counters have their types, and a request has a scheduler thread exactly
\* when submit_fn accepted it: by induction on the steps, one case per action.
LEMMA PCInductive == Spec => []PCInv
<1>1. Init => PCInv
  BY DEF Init, PCInv, CallStates, RunStates
<1>2. PCInv /\ [Next]_vars => PCInv'
  <2> SUFFICES ASSUME PCInv, [Next]_vars PROVE PCInv'
    OBVIOUS
  <2>1. ASSUME NEW r \in Requests, BuildTask(r) PROVE PCInv'
    BY <2>1 DEF BuildTask, Goto, admission, laneState, work, flushing, teardown, PCInv,
       CallStates, RunStates
  <2>2. ASSUME NEW r \in Requests, CannotBuild(r) PROVE PCInv'
    BY <2>2 DEF CannotBuild, Goto, admission, laneState, work, tensor, stream, flushing,
       teardown, PCInv, CallStates, RunStates
  <2>3. ASSUME NEW r \in Requests, Admit(r) PROVE PCInv'
    BY <2>3 DEF Admit, Goto, laneState, work, tensor, stream, flushing, teardown, PCInv,
       CallStates, RunStates
  <2>4. ASSUME NEW r \in Requests, SchedulerAccepts(r) PROVE PCInv'
    BY <2>4 DEF SchedulerAccepts, Goto, admission, laneState, work, tensor, stream, flushing,
       teardown, PCInv, CallStates, RunStates
  <2>5. ASSUME NEW r \in Requests, SchedulerRefuses(r) PROVE PCInv'
    BY <2>5 DEF SchedulerRefuses, Goto, admission, laneState, work, tensor, stream, flushing,
       teardown, PCInv, CallStates, RunStates
  <2>6. ASSUME NEW r \in Requests, UndoAdmission(r) PROVE PCInv'
    BY <2>6 DEF UndoAdmission, Goto, laneState, work, tensor, stream, flushing, teardown, PCInv,
       CallStates, RunStates
  <2>7. ASSUME NEW r \in Requests, UndoNotify(r) PROVE PCInv'
    BY <2>7 DEF UndoNotify, Goto, admission, laneState, work, tensor, stream, PCInv, CallStates,
       RunStates
  <2>8. ASSUME NEW r \in Requests, Fail(r) PROVE PCInv'
    BY <2>8 DEF Fail, Goto, admission, laneState, work, flushing, teardown, PCInv, CallStates,
       RunStates
  <2>9. ASSUME NEW r \in Requests, Retain(r) PROVE PCInv'
    BY <2>9 DEF Retain, Goto, admission, laneState, work, stream, flushing, teardown, PCInv,
       CallStates, RunStates
  <2>10. ASSUME NEW r \in Requests, StartCopy(r) PROVE PCInv'
    BY <2>10 DEF StartCopy, Step, admission, laneState, tensor, stream, flushing, teardown, PCInv,
       CallStates, RunStates
  <2>11. ASSUME NEW r \in Requests, DependencySynced(r) PROVE PCInv'
    BY <2>11 DEF DependencySynced, Step, admission, laneState, tensor, flushing, teardown, PCInv,
       CallStates, RunStates
  <2>12. ASSUME NEW r \in Requests, AcquireLane(r) PROVE PCInv'
    BY <2>12 DEF AcquireLane, Step, admission, tensor, stream, flushing, teardown, PCInv,
       CallStates, RunStates
  <2>13. ASSUME NEW r \in Requests, SpuriousLaneWakeup(r) PROVE PCInv'
    BY <2>13 DEF SpuriousLaneWakeup, Step, admission, laneState, work, tensor, stream, flushing,
       teardown, PCInv, CallStates, RunStates
  <2>14. ASSUME NEW r \in Requests, FillStaging(r) PROVE PCInv'
    BY <2>14 DEF FillStaging, Step, admission, work, tensor, stream, flushing, teardown, PCInv,
       CallStates, RunStates
  <2>15. ASSUME NEW r \in Requests, DrainStaging(r) PROVE PCInv'
    BY <2>15 DEF DrainStaging, Step, admission, laneState, tensor, stream, flushing, teardown,
       PCInv, CallStates, RunStates
  <2>16. ASSUME NEW r \in Requests, ChunkFails(r) PROVE PCInv'
    <3>1. run' = [run EXCEPT ![r] = "release"] /\ call' = call /\ run[r] # "none"
      BY <2>16 DEF ChunkFails, Step, DeviceHalf
    <3> QED BY <3>1 DEF PCInv, CallStates, RunStates
  <2>17. ASSUME NEW r \in Requests, ReleaseLane(r) PROVE PCInv'
    BY <2>17 DEF ReleaseLane, Step, admission, tensor, stream, flushing, teardown, PCInv,
       CallStates, RunStates
  <2>18. ASSUME NEW r \in Requests, NotifyLane(r) PROVE PCInv'
    <3>1. PICK Q \in SUBSET LaneSleepers :
            run' = [q \in Requests |-> IF q = r THEN "prepare"
                                       ELSE IF q \in Q THEN "acquire" ELSE run[q]]
      <4>1. CASE LaneSleepers = {}
        BY <2>18, <4>1 DEF NotifyLane, PCInv
      <4>2. CASE LaneSleepers # {}
        <5>1. PICK q \in LaneSleepers : run' = [run EXCEPT ![r] = "prepare", ![q] = "acquire"]
          BY <2>18, <4>2 DEF NotifyLane
        <5>2. q # r
          BY <2>18, <5>1 DEF NotifyLane, LaneSleepers
        <5>3. run' = [x \in Requests |-> IF x = r THEN "prepare"
                                        ELSE IF x \in {q} THEN "acquire" ELSE run[x]]
          BY <5>1, <5>2 DEF PCInv
        <5> QED BY <5>3
      <4> QED BY <4>1, <4>2
    <3>2. call' = call /\ run[r] = "notify lane"
      BY <2>18 DEF NotifyLane
    <3> QED BY <3>1, <3>2 DEF PCInv, LaneSleepers, CallStates, RunStates
  <2>19. ASSUME NEW r \in Requests, PrepareToSignal(r) PROVE PCInv'
    BY <2>19 DEF PrepareToSignal, Step, admission, laneState, work, stream, flushing, teardown,
       PCInv, CallStates, RunStates
  <2>20. ASSUME NEW r \in Requests, ReleaseRetained(r) PROVE PCInv'
    BY <2>20 DEF ReleaseRetained, Step, admission, laneState, work, flushing, teardown, PCInv,
       CallStates, RunStates
  <2>21. ASSUME NEW r \in Requests, FinishTask(r) PROVE PCInv'
    BY <2>21 DEF FinishTask, Step, laneState, work, tensor, stream, flushing, teardown, PCInv,
       CallStates, RunStates
  <2>22. ASSUME NEW r \in Requests, NotifyIdle(r) PROVE PCInv'
    BY <2>22 DEF NotifyIdle, Step, admission, laneState, work, tensor, stream, PCInv, CallStates,
       RunStates
  <2>23. ASSUME NEW r \in Requests, Signal(r) PROVE PCInv'
    BY <2>23 DEF Signal, Step, admission, laneState, work, tensor, stream, flushing, teardown,
       PCInv, CallStates, RunStates
  <2>24. CASE UNCHANGED <<call, run>>
    BY <2>24 DEF PCInv, CallStates, RunStates
  <2> QED
    BY ZenonT(60), <2>1, <2>2, <2>3, <2>4, <2>5, <2>6, <2>7, <2>8, <2>9, <2>10, <2>11, <2>12, <2>13,
       <2>14, <2>15, <2>16, <2>17, <2>18, <2>19, <2>20, <2>21, <2>22, <2>23, <2>24
    DEF Next, CallStep, RunStep, FlushStep, StopStep, vars, UserDrops, BeginFlush,
        FlushRetest, SpuriousFlushWakeup, FlushSynchronizes, FlushSucceeds, FlushFails,
        Execute, StopAndWait, StopRetest, SpuriousStopWakeup, ReleaseResources,
        ShutdownSynchronizes, AbandonResources, ShutdownSynced, DestroyPool,
        DestroyStream, DropTensor, admission, laneState, work, flushing, teardown,
        TestIdle, tensor, stream, FlushTo, BeginSync, Synced, EndFlush, EndSync,
        TestDrained, StopTo
<1> QED BY <1>1, <1>2, PTL DEF Spec, SafetySpec

\* The variables whose values come from small sets.
DataInv ==
  /\ accepting \in BOOLEAN /\ activeTasks \in Int
  /\ status \in [Requests -> {"none", "SUCCESS", "DEVICE_ERROR"}]
  /\ retaining \in [Requests -> BOOLEAN]
  /\ refs \in [Requests -> SUBSET {"caller", "completion", "worker"}]
  /\ flush \in [Flushers -> FlushStates]
  /\ before \in [Flushers -> SUBSET Requests] /\ dropped \in [Flushers -> SUBSET Requests]
  /\ stop \in StopStates /\ pool \in {"live", "abandoned", "destroyed"}

\* Every action keeps the variables of DataInv within their types.
LEMMA DataInductive == Spec => []DataInv
<1>1. Init => DataInv
  BY DEF Init, DataInv, FlushStates, StopStates
<1>2. DataInv /\ [Next]_vars => DataInv'
  <2> SUFFICES ASSUME DataInv, [Next]_vars PROVE DataInv'
    OBVIOUS
  <2>1. ASSUME NEW r \in Requests, BuildTask(r) PROVE DataInv'
    BY <2>1 DEF BuildTask, admission, laneState, work, flushing, teardown, DataInv, FlushStates,
       StopStates
  <2>2. ASSUME NEW r \in Requests, Admit(r) PROVE DataInv'
    BY <2>2 DEF Admit, laneState, work, tensor, stream, flushing, teardown, DataInv, FlushStates,
       StopStates
  <2>3. ASSUME NEW r \in Requests, UndoAdmission(r) PROVE DataInv'
    <3>0. activeTasks' = activeTasks - 1
      BY <2>3 DEF UndoAdmission, TaskFinished
    <3>1. activeTasks' \in Int
      BY <3>0 DEF DataInv
    <3> QED BY <2>3, <3>1 DEF UndoAdmission, TaskFinished, DataInv, work, tensor, flushing, teardown
  <2>4. ASSUME NEW r \in Requests, UndoNotify(r) PROVE DataInv'
    BY <2>4 DEF UndoNotify, WakeIdle, admission, laneState, work, tensor, stream, DataInv,
       FlushStates, StopStates
  <2>5. ASSUME NEW r \in Requests, Fail(r) PROVE DataInv'
    BY <2>5 DEF Fail, DropTensor, admission, laneState, work, flushing, teardown, DataInv,
       FlushStates, StopStates
  <2>6. ASSUME NEW r \in Requests, Retain(r) PROVE DataInv'
    BY <2>6 DEF Retain, admission, laneState, work, stream, flushing, teardown, DataInv,
       FlushStates, StopStates
  <2>7. ASSUME NEW r \in Requests, UserDrops(r) PROVE DataInv'
    BY <2>7 DEF UserDrops, DropTensor, admission, laneState, work, flushing, teardown, DataInv,
       FlushStates, StopStates
  <2>8. ASSUME NEW r \in Requests, StartCopy(r) PROVE DataInv'
    BY <2>8 DEF StartCopy, Outcome, BeginSync, admission, laneState, tensor, stream, flushing,
       teardown, DataInv, FlushStates, StopStates
  <2>9. ASSUME NEW r \in Requests, DependencySynced(r) PROVE DataInv'
    BY <2>9 DEF DependencySynced, Outcome, EndSync, admission, laneState, tensor, flushing,
       teardown, DataInv, FlushStates, StopStates
  <2>10. ASSUME NEW r \in Requests, DrainStaging(r) PROVE DataInv'
    BY <2>10 DEF DrainStaging, Outcome, admission, laneState, tensor, stream, flushing, teardown,
       DataInv, FlushStates, StopStates
  <2>11. ASSUME NEW r \in Requests, ChunkFails(r) PROVE DataInv'
    BY <2>11 DEF ChunkFails, Outcome, admission, laneState, tensor, stream, flushing, teardown,
       DataInv, FlushStates, StopStates
  <2>12. ASSUME NEW r \in Requests, PrepareToSignal(r) PROVE DataInv'
    BY <2>12 DEF PrepareToSignal, admission, laneState, work, stream, flushing, teardown, DataInv,
       FlushStates, StopStates
  <2>13. ASSUME NEW r \in Requests, ReleaseRetained(r) PROVE DataInv'
    BY <2>13 DEF ReleaseRetained, DropTensor, admission, laneState, work, flushing, teardown,
       DataInv, FlushStates, StopStates
  <2>14. ASSUME NEW r \in Requests, FinishTask(r) PROVE DataInv'
    <3>0. activeTasks' = activeTasks - 1
      BY <2>14 DEF FinishTask, TaskFinished
    <3>1. activeTasks' \in Int
      BY <3>0 DEF DataInv
    <3> QED BY <2>14, <3>1 DEF FinishTask, TaskFinished, DataInv, work, tensor, flushing, teardown
  <2>15. ASSUME NEW r \in Requests, NotifyIdle(r) PROVE DataInv'
    BY <2>15 DEF NotifyIdle, WakeIdle, admission, laneState, work, tensor, stream, DataInv,
       FlushStates, StopStates
  <2>16. ASSUME NEW f \in Flushers, BeginFlush(f) PROVE DataInv'
    <3>1. {q \in Uploads : call[q] = "returned" /\ "caller" \notin refs[q]} \in SUBSET Requests
      BY DEF Requests
    <3> QED BY <2>16, <3>1 DEF BeginFlush, TestIdle, FlushTo, DataInv, FlushStates, StopStates,
              admission, tensor, teardown, work
  <2>17. ASSUME NEW f \in Flushers, FlushRetest(f) PROVE DataInv'
    BY <2>17 DEF FlushRetest, TestIdle, admission, laneState, work, tensor, stream, teardown,
       FlushTo, DataInv, FlushStates, StopStates
  <2>18. ASSUME NEW f \in Flushers, SpuriousFlushWakeup(f) PROVE DataInv'
    BY <2>18 DEF SpuriousFlushWakeup, FlushTo, admission, laneState, work, tensor, stream,
       teardown, DataInv, FlushStates, StopStates
  <2>19. ASSUME NEW f \in Flushers, FlushSynchronizes(f) PROVE DataInv'
    BY <2>19 DEF FlushSynchronizes, BeginSync, FlushTo, admission, laneState, work, tensor,
       teardown, DataInv, FlushStates, StopStates
  <2>20. ASSUME NEW f \in Flushers, FlushSucceeds(f) PROVE DataInv'
    BY <2>20 DEF FlushSucceeds, EndFlush, EndSync, FlushTo, admission, laneState, work, tensor,
       teardown, DataInv, FlushStates, StopStates
  <2>21. ASSUME NEW f \in Flushers, FlushFails(f) PROVE DataInv'
    BY <2>21 DEF FlushFails, EndFlush, EndSync, FlushTo, admission, laneState, work, tensor,
       teardown, DataInv, FlushStates, StopStates
  <2>22. CASE StopAndWait
    BY <2>22 DEF StopAndWait, TestDrained, laneState, work, tensor, stream, flushing, StopTo,
       DataInv, FlushStates, StopStates
  <2>23. CASE StopRetest
    BY <2>23 DEF StopRetest, TestDrained, admission, laneState, work, tensor, stream, flushing,
       StopTo, DataInv, FlushStates, StopStates
  <2>24. CASE SpuriousStopWakeup
    BY <2>24 DEF SpuriousStopWakeup, StopTo, admission, laneState, work, tensor, stream, flushing,
       DataInv, FlushStates, StopStates
  <2>25. CASE ReleaseResources
    BY <2>25 DEF ReleaseResources, StopTo, admission, work, tensor, stream, flushing, DataInv,
       FlushStates, StopStates
  <2>26. CASE ShutdownSynchronizes
    BY <2>26 DEF ShutdownSynchronizes, BeginSync, StopTo, admission, laneState, work, tensor,
       flushing, DataInv, FlushStates, StopStates
  <2>27. CASE AbandonResources
    BY <2>27 DEF AbandonResources, StopTo, admission, laneState, work, tensor, stream, flushing,
       DataInv, FlushStates, StopStates
  <2>28. CASE ShutdownSynced
    BY <2>28 DEF ShutdownSynced, StopTo, admission, laneState, work, tensor, stream, flushing,
       DataInv, FlushStates, StopStates
  <2>29. CASE DestroyPool
    BY <2>29 DEF DestroyPool, StopTo, admission, laneState, work, tensor, stream, flushing,
       DataInv, FlushStates, StopStates
  <2>30. CASE DestroyStream
    BY <2>30 DEF DestroyStream, StopTo, admission, laneState, work, tensor, stream, flushing,
       DataInv, FlushStates, StopStates
  <2>31. CASE UNCHANGED <<accepting, activeTasks, status, retaining, refs, flush, before, dropped, stop, pool>>
    BY <2>31 DEF DataInv, FlushStates, StopStates
  <2> QED
    BY ZenonT(60), <2>1, <2>2, <2>3, <2>4, <2>5, <2>6, <2>7, <2>8, <2>9, <2>10, <2>11, <2>12, <2>13,
       <2>14, <2>15, <2>16, <2>17, <2>18, <2>19, <2>20, <2>21, <2>22, <2>23, <2>24,
       <2>25, <2>26, <2>27, <2>28, <2>29, <2>30, <2>31
    DEF Next, CallStep, RunStep, FlushStep, StopStep, vars, CannotBuild,
        SchedulerAccepts, SchedulerRefuses, AcquireLane, SpuriousLaneWakeup,
        FillStaging, ReleaseLane, NotifyLane, Signal, Execute, Goto, admission,
        laneState, work, tensor, stream, flushing, teardown, Step, NextChunk,
        LaneSleepers
<1> QED BY <1>1, <1>2, PTL DEF Spec, SafetySpec

-----------------------------------------------------------------------------
(* m_activeTasks *)

\* One more request is counted, or one less, or nothing changes: m_activeTasks follows.
CountStep ==
  \/ Counted' = Counted /\ activeTasks' = activeTasks
  \/ \E r \in Requests \ Counted : Counted' = Counted \cup {r} /\ activeTasks' = activeTasks + 1
  \/ \E r \in Counted : Counted' = Counted \ {r} /\ activeTasks' = activeTasks - 1

\* Every step leaves the counter and the set of counted requests alone, or admits one
\* request, or counts one out: admission, refusal and completion always come in pairs.
LEMMA StepCounts == PCInv /\ [Next]_vars => CountStep
<1> SUFFICES ASSUME PCInv, [Next]_vars PROVE CountStep
  OBVIOUS
  <1>1. ASSUME NEW r \in Requests, BuildTask(r) PROVE CountStep
  <2>1. Counted' = Counted
    BY <1>1 DEF BuildTask, Goto, PCInv, RunStates, CallStates, Counted, Finished
  <2>2. activeTasks' = activeTasks
    BY <1>1 DEF BuildTask, admission
  <2> QED BY <2>1, <2>2 DEF CountStep
<1>2. ASSUME NEW r \in Requests, CannotBuild(r) PROVE CountStep
  <2>1. Counted' = Counted
    BY <1>2 DEF CannotBuild, Goto, PCInv, RunStates, CallStates, Counted, Finished
  <2>2. activeTasks' = activeTasks
    BY <1>2 DEF CannotBuild, admission
  <2> QED BY <2>1, <2>2 DEF CountStep
<1>3. ASSUME NEW r \in Requests, Admit(r) PROVE CountStep
  <2>1. CASE accepting
    <3>1. Counted' = Counted \cup {r} /\ r \notin Counted
      BY <1>3, <2>1 DEF Admit, Goto, PCInv, RunStates, CallStates, Counted, Finished
    <3> QED BY <1>3, <2>1, <3>1 DEF Admit, CountStep
  <2>2. CASE ~accepting
    <3>1. Counted' = Counted
      BY <1>3, <2>2 DEF Admit, Goto, PCInv, RunStates, CallStates, Counted, Finished
    <3> QED BY <1>3, <2>2, <3>1 DEF Admit, CountStep
  <2> QED BY <2>1, <2>2
<1>4. ASSUME NEW r \in Requests, SchedulerAccepts(r) PROVE CountStep
  <2>1. Counted' = Counted
    BY <1>4 DEF SchedulerAccepts, Goto, PCInv, RunStates, CallStates, Counted, Finished
  <2>2. activeTasks' = activeTasks
    BY <1>4 DEF SchedulerAccepts, admission
  <2> QED BY <2>1, <2>2 DEF CountStep
<1>5. ASSUME NEW r \in Requests, SchedulerRefuses(r) PROVE CountStep
  <2>1. Counted' = Counted
    BY <1>5 DEF SchedulerRefuses, Goto, PCInv, RunStates, CallStates, Counted, Finished
  <2>2. activeTasks' = activeTasks
    BY <1>5 DEF SchedulerRefuses, admission
  <2> QED BY <2>1, <2>2 DEF CountStep
<1>6. ASSUME NEW r \in Requests, UndoAdmission(r) PROVE CountStep
  <2>1. Counted' = Counted \ {r} /\ r \in Counted
    BY <1>6 DEF UndoAdmission, Goto, PCInv, RunStates, CallStates, Counted, Finished
  <2> QED BY <1>6, <2>1 DEF UndoAdmission, TaskFinished, CountStep
<1>7. ASSUME NEW r \in Requests, UndoNotify(r) PROVE CountStep
  <2>1. Counted' = Counted
    BY <1>7 DEF UndoNotify, Goto, PCInv, RunStates, CallStates, Counted, Finished
  <2>2. activeTasks' = activeTasks
    BY <1>7 DEF UndoNotify, admission
  <2> QED BY <2>1, <2>2 DEF CountStep
<1>8. ASSUME NEW r \in Requests, Fail(r) PROVE CountStep
  <2>1. Counted' = Counted
    BY <1>8 DEF Fail, Goto, PCInv, RunStates, CallStates, Counted, Finished
  <2>2. activeTasks' = activeTasks
    BY <1>8 DEF Fail, admission
  <2> QED BY <2>1, <2>2 DEF CountStep
<1>9. ASSUME NEW r \in Requests, Retain(r) PROVE CountStep
  <2>1. Counted' = Counted
    BY <1>9 DEF Retain, Goto, PCInv, RunStates, CallStates, Counted, Finished
  <2>2. activeTasks' = activeTasks
    BY <1>9 DEF Retain, admission
  <2> QED BY <2>1, <2>2 DEF CountStep
<1>10. ASSUME NEW r \in Requests, StartCopy(r) PROVE CountStep
  <2>1. Counted' = Counted
    BY <1>10 DEF StartCopy, Step, PCInv, RunStates, CallStates, Counted, Finished
  <2>2. activeTasks' = activeTasks
    BY <1>10 DEF StartCopy, admission
  <2> QED BY <2>1, <2>2 DEF CountStep
<1>11. ASSUME NEW r \in Requests, DependencySynced(r) PROVE CountStep
  <2>1. Counted' = Counted
    BY <1>11 DEF DependencySynced, Step, PCInv, RunStates, CallStates, Counted, Finished
  <2>2. activeTasks' = activeTasks
    BY <1>11 DEF DependencySynced, admission
  <2> QED BY <2>1, <2>2 DEF CountStep
<1>12. ASSUME NEW r \in Requests, AcquireLane(r) PROVE CountStep
  <2>1. Counted' = Counted
    BY <1>12 DEF AcquireLane, Step, PCInv, RunStates, CallStates, Counted, Finished
  <2>2. activeTasks' = activeTasks
    BY <1>12 DEF AcquireLane, admission
  <2> QED BY <2>1, <2>2 DEF CountStep
<1>13. ASSUME NEW r \in Requests, SpuriousLaneWakeup(r) PROVE CountStep
  <2>1. Counted' = Counted
    BY <1>13 DEF SpuriousLaneWakeup, Step, PCInv, RunStates, CallStates, Counted, Finished
  <2>2. activeTasks' = activeTasks
    BY <1>13 DEF SpuriousLaneWakeup, admission
  <2> QED BY <2>1, <2>2 DEF CountStep
<1>14. ASSUME NEW r \in Requests, FillStaging(r) PROVE CountStep
  <2>1. Counted' = Counted
    BY <1>14 DEF FillStaging, Step, PCInv, RunStates, CallStates, Counted, Finished
  <2>2. activeTasks' = activeTasks
    BY <1>14 DEF FillStaging, admission
  <2> QED BY <2>1, <2>2 DEF CountStep
<1>15. ASSUME NEW r \in Requests, DrainStaging(r) PROVE CountStep
  <2>1. Counted' = Counted
    BY <1>15 DEF DrainStaging, Step, PCInv, RunStates, CallStates, Counted, Finished
  <2>2. activeTasks' = activeTasks
    BY <1>15 DEF DrainStaging, admission
  <2> QED BY <2>1, <2>2 DEF CountStep
<1>16. ASSUME NEW r \in Requests, ChunkFails(r) PROVE CountStep
  <2>1. Counted' = Counted
    BY <1>16 DEF ChunkFails, Step, DeviceHalf, PCInv, RunStates, CallStates, Counted, Finished
  <2>2. activeTasks' = activeTasks
    BY <1>16 DEF ChunkFails, admission
  <2> QED BY <2>1, <2>2 DEF CountStep
<1>17. ASSUME NEW r \in Requests, ReleaseLane(r) PROVE CountStep
  <2>1. Counted' = Counted
    BY <1>17 DEF ReleaseLane, Step, PCInv, RunStates, CallStates, Counted, Finished
  <2>2. activeTasks' = activeTasks
    BY <1>17 DEF ReleaseLane, admission
  <2> QED BY <2>1, <2>2 DEF CountStep
<1>18. ASSUME NEW r \in Requests, NotifyLane(r) PROVE CountStep
  <2>1. Counted' = Counted
    <3>1. CASE LaneSleepers = {}
      BY <1>18, <3>1 DEF NotifyLane, PCInv, Counted, Finished
    <3>2. CASE LaneSleepers # {}
      <4>1. PICK s \in LaneSleepers : run' = [run EXCEPT ![r] = "prepare", ![s] = "acquire"]
        BY <1>18, <3>2 DEF NotifyLane
      <4>2. run[r] = "notify lane" /\ run[s] = "asleep" /\ call' = call
        BY <1>18 DEF NotifyLane, LaneSleepers, admission
      <4>3. ASSUME NEW q \in Requests
            PROVE  run'[q] \in {"none"} \cup Finished <=> run[q] \in {"none"} \cup Finished
        BY <4>1, <4>2 DEF PCInv, LaneSleepers, Finished
      <4> QED BY <4>2, <4>3 DEF Counted
    <3> QED BY <3>1, <3>2
  <2>2. activeTasks' = activeTasks
    BY <1>18 DEF NotifyLane, admission
  <2> QED BY <2>1, <2>2 DEF CountStep
<1>19. ASSUME NEW r \in Requests, PrepareToSignal(r) PROVE CountStep
  <2>1. Counted' = Counted
    BY <1>19 DEF PrepareToSignal, Step, PCInv, RunStates, CallStates, Counted, Finished
  <2>2. activeTasks' = activeTasks
    BY <1>19 DEF PrepareToSignal, admission
  <2> QED BY <2>1, <2>2 DEF CountStep
<1>20. ASSUME NEW r \in Requests, ReleaseRetained(r) PROVE CountStep
  <2>1. Counted' = Counted
    BY <1>20 DEF ReleaseRetained, Step, PCInv, RunStates, CallStates, Counted, Finished
  <2>2. activeTasks' = activeTasks
    BY <1>20 DEF ReleaseRetained, admission
  <2> QED BY <2>1, <2>2 DEF CountStep
<1>21. ASSUME NEW r \in Requests, FinishTask(r) PROVE CountStep
  <2>1. Counted' = Counted \ {r} /\ r \in Counted
    BY <1>21 DEF FinishTask, Step, PCInv, RunStates, CallStates, Counted, Finished
  <2> QED BY <1>21, <2>1 DEF FinishTask, TaskFinished, CountStep
<1>22. ASSUME NEW r \in Requests, NotifyIdle(r) PROVE CountStep
  <2>1. Counted' = Counted
    BY <1>22 DEF NotifyIdle, Step, PCInv, RunStates, CallStates, Counted, Finished
  <2>2. activeTasks' = activeTasks
    BY <1>22 DEF NotifyIdle, admission
  <2> QED BY <2>1, <2>2 DEF CountStep
<1>23. ASSUME NEW r \in Requests, Signal(r) PROVE CountStep
  <2>1. Counted' = Counted
    BY <1>23 DEF Signal, Step, PCInv, RunStates, CallStates, Counted, Finished
  <2>2. activeTasks' = activeTasks
    BY <1>23 DEF Signal, admission
  <2> QED BY <2>1, <2>2 DEF CountStep
<1>24. CASE UNCHANGED <<activeTasks, call, run>>
  BY <1>24 DEF CountStep, Counted
<1> QED
  BY ZenonT(60), <1>1, <1>2, <1>3, <1>4, <1>5, <1>6, <1>7, <1>8, <1>9, <1>10, <1>11, <1>12, <1>13,
     <1>14, <1>15, <1>16, <1>17, <1>18, <1>19, <1>20, <1>21, <1>22, <1>23, <1>24
  DEF Next, CallStep, RunStep, FlushStep, StopStep, vars, UserDrops, BeginFlush,
      FlushRetest, SpuriousFlushWakeup, FlushSynchronizes, FlushSucceeds, FlushFails,
      Execute, StopAndWait, StopRetest, SpuriousStopWakeup, ReleaseResources,
      ShutdownSynchronizes, AbandonResources, ShutdownSynced, DestroyPool,
      DestroyStream, DropTensor, admission, laneState, work, flushing, teardown,
      TestIdle, tensor, stream, FlushTo, BeginSync, Synced, EndFlush, EndSync,
      TestDrained, StopTo

\* m_activeTasks counts exactly the admitted requests whose work is still to come.
THEOREM ActiveTasksCounted == Spec => []TaskAccounting
<1> USE RequestsAssumption
<1>1. Init => TaskAccounting
  <2>1. Init => Counted = {}
    BY DEF Init, Counted
  <2> QED BY <2>1, FS_EmptySet DEF Init, TaskAccounting
<1>2. PCInv /\ TaskAccounting /\ [Next]_vars => TaskAccounting'
  <2> SUFFICES ASSUME PCInv, TaskAccounting, [Next]_vars PROVE TaskAccounting'
    OBVIOUS
  <2>1. IsFiniteSet(Counted)
    BY FS_Subset DEF Counted
  <2>2. CASE Counted' = Counted /\ activeTasks' = activeTasks
    BY <2>2 DEF TaskAccounting
  <2>3. ASSUME NEW r \in Requests \ Counted, Counted' = Counted \cup {r},
               activeTasks' = activeTasks + 1
        PROVE  TaskAccounting'
    BY <2>1, <2>3, FS_AddElement DEF TaskAccounting
  <2>4. ASSUME NEW r \in Counted, Counted' = Counted \ {r}, activeTasks' = activeTasks - 1
        PROVE  TaskAccounting'
    BY <2>1, <2>4, FS_RemoveElement DEF TaskAccounting
  <2> QED BY StepCounts, <2>2, <2>3, <2>4 DEF CountStep
<1> QED BY <1>1, <1>2, PCInductive, PTL DEF Spec, SafetySpec

\* An exact count is a natural number, and zero exactly when no request is active: what
\* waitIdle and stopAndWait read off m_activeTasks.
LEMMA CountIsNatural == TaskAccounting => activeTasks \in Nat /\ (activeTasks = 0 <=> Counted = {})
<1>1. IsFiniteSet(Counted)
  BY RequestsAssumption, FS_Subset DEF Counted
<1> QED BY <1>1, FS_CardinalityType, FS_EmptySet DEF TaskAccounting

-----------------------------------------------------------------------------
(* Shutdown *)

\* Nothing is admitted once shutdown has begun, nothing is left when it goes on.
StopInv ==
  /\ stop # "up" => ~accepting
  /\ stop \notin {"up", "asleep", "test"} => activeTasks = 0

\* stopAndWait closes m_accepting for good, and shutdown goes on only with no task active,
\* after which none can become active.
LEMMA StopInductive == Spec => []StopInv
<1>1. Init => StopInv
  BY DEF Init, StopInv
<1>2. DataInv /\ TaskAccounting /\ StopInv /\ [Next]_vars => StopInv'
  <2> SUFFICES ASSUME DataInv, TaskAccounting, StopInv, [Next]_vars PROVE StopInv'
    OBVIOUS
  <2>1. ASSUME NEW r \in Requests, Admit(r) PROVE StopInv'
    BY <2>1 DEF Admit, teardown, StopInv, DataInv, StopStates
  <2>2. ASSUME NEW r \in Requests, UndoAdmission(r) PROVE StopInv'
    <3>1. r \in Counted
      BY <2>2 DEF UndoAdmission, Counted, Finished
    <3>2. activeTasks # 0
      BY <3>1, CountIsNatural
    <3> QED BY <2>2, <3>2 DEF UndoAdmission, TaskFinished, StopInv, teardown
  <2>3. ASSUME NEW r \in Requests, UndoNotify(r) PROVE StopInv'
    BY <2>3 DEF UndoNotify, WakeIdle, admission, StopInv, DataInv, StopStates
  <2>4. ASSUME NEW r \in Requests, FinishTask(r) PROVE StopInv'
    <3>1. r \in Counted
      BY <2>4 DEF FinishTask, Step, Counted, Finished
    <3>2. activeTasks # 0
      BY <3>1, CountIsNatural
    <3> QED BY <2>4, <3>2 DEF FinishTask, TaskFinished, StopInv, teardown
  <2>5. ASSUME NEW r \in Requests, NotifyIdle(r) PROVE StopInv'
    BY <2>5 DEF NotifyIdle, WakeIdle, admission, StopInv, DataInv, StopStates
  <2>6. CASE StopAndWait
    BY <2>6 DEF StopAndWait, TestDrained, StopTo, StopInv, DataInv, StopStates
  <2>7. CASE StopRetest
    BY <2>7 DEF StopRetest, TestDrained, admission, StopTo, StopInv, DataInv, StopStates
  <2>8. CASE SpuriousStopWakeup
    BY <2>8 DEF SpuriousStopWakeup, StopTo, admission, StopInv, DataInv, StopStates
  <2>9. CASE ReleaseResources
    BY <2>9 DEF ReleaseResources, StopTo, admission, StopInv, DataInv, StopStates
  <2>10. CASE ShutdownSynchronizes
    BY <2>10 DEF ShutdownSynchronizes, StopTo, admission, StopInv, DataInv, StopStates
  <2>11. CASE AbandonResources
    BY <2>11 DEF AbandonResources, StopTo, admission, StopInv, DataInv, StopStates
  <2>12. CASE ShutdownSynced
    BY <2>12 DEF ShutdownSynced, StopTo, admission, StopInv, DataInv, StopStates
  <2>13. CASE DestroyPool
    BY <2>13 DEF DestroyPool, StopTo, admission, StopInv, DataInv, StopStates
  <2>14. CASE DestroyStream
    BY <2>14 DEF DestroyStream, StopTo, admission, StopInv, DataInv, StopStates
  <2>15. CASE UNCHANGED <<accepting, activeTasks, stop>>
    BY <2>15 DEF StopInv
  <2> QED
    BY ZenonT(60), <2>1, <2>2, <2>3, <2>4, <2>5, <2>6, <2>7, <2>8, <2>9, <2>10, <2>11, <2>12, <2>13,
       <2>14, <2>15
    DEF Next, CallStep, RunStep, FlushStep, StopStep, vars, BuildTask, CannotBuild,
        SchedulerAccepts, SchedulerRefuses, Fail, Retain, UserDrops, StartCopy,
        DependencySynced, AcquireLane, SpuriousLaneWakeup, FillStaging, DrainStaging,
        ChunkFails, ReleaseLane, NotifyLane, PrepareToSignal, ReleaseRetained, Signal,
        BeginFlush, FlushRetest, SpuriousFlushWakeup, FlushSynchronizes, FlushSucceeds,
        FlushFails, Execute, Goto, admission, laneState, work, flushing, teardown,
        tensor, stream, DropTensor, Step, Outcome, BeginSync, EndSync, Synced,
        NextChunk, DeviceHalf, LaneSleepers, TestIdle, FlushTo, EndFlush
<1> QED BY <1>1, <1>2, DataInductive, ActiveTasksCounted, PTL DEF Spec, SafetySpec

-----------------------------------------------------------------------------
(* The lane pool *)

\* The lane pool with the types its proof needs.
PartInv ==
  /\ availableLanes \in Seq(Lanes) /\ lanes \in SUBSET Lanes
  /\ lane \in [Requests -> SUBSET Lanes]
  /\ LanesPartitioned

\* Taking a lane, returning it and releasing them all keep the lane pool partitioned:
\* lanes are released only when no thread is counted, so none holds one.
LEMMA PartInductive == Spec => []PartInv
<1>1. Init => PartInv
  <2> SUFFICES ASSUME Init PROVE PartInv
    OBVIOUS
  <2>1. LaneCount \in Nat /\ availableLanes = [i \in 1 .. LaneCount |-> LaneCount - i]
    BY CountsAssumption DEF Init
  <2>2. availableLanes \in [1 .. LaneCount -> Lanes]
    BY <2>1 DEF Lanes
  <2>3. availableLanes \in Seq(Lanes)
    BY <2>1, <2>2, SeqDef
  <2>4. \A l \in Lanes : LaneCount - l \in DOMAIN availableLanes /\ availableLanes[LaneCount - l] = l
    BY <2>1 DEF Lanes
  <2>5. StackDistinct
    BY <2>1 DEF StackDistinct
  <2>6. lanes = Lanes /\ lane = [r \in Requests |-> {}] /\ run = [r \in Requests |-> "none"]
    BY DEF Init
  <2>7. StackExists /\ UsersHoldOne /\ StackNotHeld /\ HeldOnce /\ NoneLost
    BY <2>2, <2>4, <2>6 DEF StackExists, UsersHoldOne, StackNotHeld, HeldOnce, NoneLost, InUse
  <2> QED BY <2>3, <2>5, <2>6, <2>7 DEF PartInv, LanesPartitioned
<1>2. PCInv /\ TaskAccounting /\ StopInv /\ PartInv /\ [Next]_vars => PartInv'
  <2> SUFFICES ASSUME PCInv, TaskAccounting, StopInv, PartInv, [Next]_vars PROVE PartInv'
    OBVIOUS
  <2>1. ASSUME NEW r \in Requests, SchedulerAccepts(r) PROVE PartInv'
    <3>1. \A q \in Requests : run'[q] \in InUse <=> run[q] \in InUse
      BY <2>1 DEF SchedulerAccepts, Goto, InUse, PCInv
    <3>2. UNCHANGED <<availableLanes, lanes, lane>>
      BY <2>1 DEF SchedulerAccepts, laneState, work
    <3> QED BY <3>1, <3>2 DEF PartInv, LanesPartitioned, StackDistinct,
          StackExists, UsersHoldOne, StackNotHeld, HeldOnce, NoneLost
  <2>2. ASSUME NEW r \in Requests, StartCopy(r) PROVE PartInv'
    <3>1. \A q \in Requests : run'[q] \in InUse <=> run[q] \in InUse
      BY <2>2 DEF StartCopy, Step, InUse, PCInv
    <3>2. UNCHANGED <<availableLanes, lanes, lane>>
      BY <2>2 DEF StartCopy, laneState
    <3> QED BY <3>1, <3>2 DEF PartInv, LanesPartitioned, StackDistinct,
          StackExists, UsersHoldOne, StackNotHeld, HeldOnce, NoneLost
  <2>3. ASSUME NEW r \in Requests, DependencySynced(r) PROVE PartInv'
    <3>1. \A q \in Requests : run'[q] \in InUse <=> run[q] \in InUse
      BY <2>3 DEF DependencySynced, Step, InUse, PCInv
    <3>2. UNCHANGED <<availableLanes, lanes, lane>>
      BY <2>3 DEF DependencySynced, laneState
    <3> QED BY <3>1, <3>2 DEF PartInv, LanesPartitioned, StackDistinct,
          StackExists, UsersHoldOne, StackNotHeld, HeldOnce, NoneLost
  <2>4. ASSUME NEW r \in Requests, AcquireLane(r) PROVE PartInv'
    <3>1. CASE availableLanes = <<>>
      <4>1. \A q \in Requests : run'[q] \in InUse <=> run[q] \in InUse
        BY <2>4, <3>1 DEF AcquireLane, Step, InUse, PCInv
      <4>2. UNCHANGED <<availableLanes, lanes, lane>>
        BY <2>4, <3>1 DEF AcquireLane
      <4> QED BY <4>1, <4>2 DEF PartInv, LanesPartitioned, StackDistinct,
          StackExists, UsersHoldOne, StackNotHeld, HeldOnce, NoneLost
    <3>2. CASE availableLanes # <<>>
      <4> DEFINE top == Len(availableLanes)
      <4>1. top \in Nat \ {0} /\ DOMAIN availableLanes = 1 .. top
            /\ \A i \in 1 .. top : availableLanes[i] \in Lanes
        BY <3>2, EmptySeq, LenProperties, ElementOfSeq DEF PartInv
      <4>2. run' = [run EXCEPT ![r] = "first half"] /\ run[r] = "acquire"
            /\ lane' = [lane EXCEPT ![r] = {availableLanes[top]}]
            /\ availableLanes' = SubSeq(availableLanes, 1, top - 1) /\ lanes' = lanes
        BY <2>4, <3>2 DEF AcquireLane, Step
      <4> HIDE DEF top
      <4>3. availableLanes' \in Seq(Lanes) /\ DOMAIN availableLanes' = 1 .. (top - 1)
            /\ \A i \in 1 .. (top - 1) : availableLanes'[i] = availableLanes[i]
        <5>1. \A i \in 1 .. top - 1 : availableLanes[i] \in Lanes
          BY <4>1
        <5>2. /\ SubSeq(availableLanes, 1, top - 1) \in Seq(Lanes)
              /\ Len(SubSeq(availableLanes, 1, top - 1)) = top - 1
              /\ \A i \in 1 .. top - 1 :
                   SubSeq(availableLanes, 1, top - 1)[i] = availableLanes[i]
          BY <4>1, <5>1, SubSeqProperties
        <5> QED BY <5>2, <4>2, LenProperties
      <4>4. top \in DOMAIN availableLanes /\ availableLanes[top] \in lanes
            /\ availableLanes[top] \in Lanes /\ lane[r] = {}
        <5>1. top \in DOMAIN availableLanes
          BY <4>1
        <5>2. lane[r] = {}
          BY <4>2 DEF PartInv, LanesPartitioned, UsersHoldOne, InUse
        <5> QED BY <5>1, <5>2, <4>1 DEF PartInv, LanesPartitioned, StackExists
      <4>5. \A i \in 1 .. (top - 1) : i \in DOMAIN availableLanes /\ i # top
        BY <4>1
      <4>6. lane' \in [Requests -> SUBSET Lanes] /\ lanes' \in SUBSET Lanes
        BY <4>2, <4>4 DEF PartInv
      <4>7. StackDistinct'
        BY <4>3, <4>5 DEF PartInv, LanesPartitioned, StackDistinct
      <4>8. StackExists'
        BY <4>2, <4>3, <4>5 DEF PartInv, LanesPartitioned, StackExists
      <4>9. UsersHoldOne'
        BY <4>2, <4>4 DEF PartInv, LanesPartitioned, UsersHoldOne, PCInv, InUse
      <4>10. StackNotHeld'
        <5> SUFFICES ASSUME NEW q \in Requests, NEW i \in 1 .. (top - 1)
                     PROVE  availableLanes'[i] \notin lane'[q]
          BY <4>3 DEF StackNotHeld
        <5>1. availableLanes'[i] # availableLanes[top]
          BY <4>3, <4>4, <4>5 DEF PartInv, LanesPartitioned, StackDistinct
        <5>2. availableLanes'[i] \notin lane[q]
          BY <4>3, <4>5 DEF PartInv, LanesPartitioned, StackNotHeld
        <5> QED BY <5>1, <5>2, <4>2 DEF PartInv
      <4>11. HeldOnce'
        <5>1. \A q \in Requests : availableLanes[top] \notin lane[q]
          BY <4>4 DEF PartInv, LanesPartitioned, StackNotHeld
        <5>2. \A q \in Requests : lane'[q] = IF q = r THEN {availableLanes[top]} ELSE lane[q]
          BY <4>2 DEF PartInv
        <5>3. \A q, p \in Requests : q # p => lane[q] \cap lane[p] = {}
          BY DEF PartInv, LanesPartitioned, HeldOnce
        <5>4. ASSUME NEW q \in Requests, NEW p \in Requests, q # p
              PROVE  lane'[q] \cap lane'[p] = {}
          BY <5>1, <5>2, <5>3, <5>4
        <5> QED BY <5>4 DEF HeldOnce
      <4>12. NoneLost'
        <5> SUFFICES ASSUME NEW l \in lanes
                     PROVE  \/ \E i \in DOMAIN availableLanes' : availableLanes'[i] = l
                            \/ \E q \in Requests : l \in lane'[q]
          BY <4>2 DEF NoneLost
        <5>1. CASE l = availableLanes[top]
          BY <5>1, <4>2 DEF PartInv
        <5>2. ASSUME NEW i \in 1 .. (top - 1), availableLanes[i] = l
              PROVE  i \in DOMAIN availableLanes' /\ availableLanes'[i] = l
          BY <5>2, <4>3
        <5>3. ASSUME NEW q \in Requests, l \in lane[q] PROVE l \in lane'[q]
          BY <5>3, <4>2, <4>4 DEF PartInv
        <5>4. (\E i \in 1 .. top : availableLanes[i] = l) \/ \E q \in Requests : l \in lane[q]
          BY <4>1 DEF PartInv, LanesPartitioned, NoneLost
        <5>5. \A i \in 1 .. top : i = top \/ i \in 1 .. (top - 1)
          BY <4>1
        <5> QED BY <5>1, <5>2, <5>3, <5>4, <5>5
      <4> QED BY <4>3, <4>6, <4>7, <4>8, <4>9, <4>10, <4>11, <4>12 DEF PartInv, LanesPartitioned
    <3> QED BY <3>1, <3>2
  <2>5. ASSUME NEW r \in Requests, SpuriousLaneWakeup(r) PROVE PartInv'
    <3>1. \A q \in Requests : run'[q] \in InUse <=> run[q] \in InUse
      BY <2>5 DEF SpuriousLaneWakeup, Step, InUse, PCInv
    <3>2. UNCHANGED <<availableLanes, lanes, lane>>
      BY <2>5 DEF SpuriousLaneWakeup, laneState, work
    <3> QED BY <3>1, <3>2 DEF PartInv, LanesPartitioned, StackDistinct,
          StackExists, UsersHoldOne, StackNotHeld, HeldOnce, NoneLost
  <2>6. ASSUME NEW r \in Requests, FillStaging(r) PROVE PartInv'
    <3>1. \A q \in Requests : run'[q] \in InUse <=> run[q] \in InUse
      BY <2>6 DEF FillStaging, Step, InUse, PCInv
    <3>2. UNCHANGED <<availableLanes, lanes, lane>>
      BY <2>6 DEF FillStaging, work
    <3> QED BY <3>1, <3>2 DEF PartInv, LanesPartitioned, StackDistinct,
          StackExists, UsersHoldOne, StackNotHeld, HeldOnce, NoneLost
  <2>7. ASSUME NEW r \in Requests, DrainStaging(r) PROVE PartInv'
    <3>1. \A q \in Requests : run'[q] \in InUse <=> run[q] \in InUse
      BY <2>7 DEF DrainStaging, Step, InUse, PCInv
    <3>2. UNCHANGED <<availableLanes, lanes, lane>>
      BY <2>7 DEF DrainStaging, laneState
    <3> QED BY <3>1, <3>2 DEF PartInv, LanesPartitioned, StackDistinct,
          StackExists, UsersHoldOne, StackNotHeld, HeldOnce, NoneLost
  <2>8. ASSUME NEW r \in Requests, ChunkFails(r) PROVE PartInv'
    <3>1. \A q \in Requests : run'[q] \in InUse <=> run[q] \in InUse
      BY <2>8 DEF ChunkFails, Step, DeviceHalf, InUse, PCInv
    <3>2. UNCHANGED <<availableLanes, lanes, lane>>
      BY <2>8 DEF ChunkFails, laneState
    <3> QED BY <3>1, <3>2 DEF PartInv, LanesPartitioned, StackDistinct,
          StackExists, UsersHoldOne, StackNotHeld, HeldOnce, NoneLost
  <2>9. ASSUME NEW r \in Requests, ReleaseLane(r) PROVE PartInv'
    <3>1. PICK l \in lanes : lane[r] = {l}
      BY <2>9 DEF ReleaseLane, Step, PartInv, LanesPartitioned, UsersHoldOne, InUse
    <3>2. run' = [run EXCEPT ![r] = "notify lane"] /\ run[r] = "release"
          /\ lane' = [lane EXCEPT ![r] = {}] /\ lanes' = lanes
          /\ availableLanes' = Append(availableLanes, l) /\ l \in Lanes
      BY <2>9, <3>1 DEF ReleaseLane, Step, PartInv
    <3> DEFINE n == Len(availableLanes)
    <3>3. n \in Nat /\ DOMAIN availableLanes = 1 .. n
      BY LenProperties DEF PartInv
    <3>4. availableLanes' \in Seq(Lanes) /\ DOMAIN availableLanes' = 1 .. (n + 1)
          /\ availableLanes'[n + 1] = l
          /\ \A i \in 1 .. n : availableLanes'[i] = availableLanes[i]
      <4>1. availableLanes \in Seq(Lanes) /\ l \in Lanes
        BY <3>2 DEF PartInv
      <4>2. /\ Append(availableLanes, l) \in Seq(Lanes)
            /\ Len(Append(availableLanes, l)) = n + 1
            /\ \A i \in 1 .. n : Append(availableLanes, l)[i] = availableLanes[i]
            /\ Append(availableLanes, l)[n + 1] = l
        BY <4>1, AppendProperties
      <4>3. DOMAIN Append(availableLanes, l) = 1 .. (n + 1)
        BY <4>2, LenProperties
      <4> QED BY <4>2, <4>3, <3>2
    <3> HIDE DEF n
    <3>5. \A i \in 1 .. n : availableLanes[i] # l
      BY <3>1, <3>3 DEF PartInv, LanesPartitioned, StackNotHeld
    <3>6. lane' \in [Requests -> SUBSET Lanes] /\ lanes' \in SUBSET Lanes
      BY <3>2 DEF PartInv
    <3>7. \A i \in 1 .. (n + 1) : i = n + 1 \/ i \in 1 .. n
      BY <3>3
    <3>8. StackDistinct'
      BY <3>3, <3>4, <3>5, <3>7 DEF PartInv, LanesPartitioned, StackDistinct
    <3>9. StackExists'
      BY <3>2, <3>3, <3>4, <3>7 DEF PartInv, LanesPartitioned, StackExists
    <3>10. UsersHoldOne'
      BY <3>2 DEF PartInv, LanesPartitioned, UsersHoldOne, InUse, PCInv
    <3>11. StackNotHeld'
      <4> SUFFICES ASSUME NEW q \in Requests, NEW i \in 1 .. (n + 1)
                   PROVE  availableLanes'[i] \notin lane'[q]
        BY <3>4 DEF StackNotHeld
      <4>1. CASE i = n + 1
        <5>1. q # r => l \notin lane[q]
          BY <3>1 DEF PartInv, LanesPartitioned, HeldOnce
        <5> QED BY <4>1, <5>1, <3>2, <3>4 DEF PartInv
      <4>2. CASE i \in 1 .. n
        <5>1. availableLanes[i] \notin lane[q]
          BY <4>2, <3>3 DEF PartInv, LanesPartitioned, StackNotHeld
        <5> QED BY <4>2, <5>1, <3>2, <3>4 DEF PartInv
      <4> QED BY <4>1, <4>2, <3>7
    <3>12. HeldOnce'
      BY <3>2 DEF PartInv, LanesPartitioned, HeldOnce
    <3>13. NoneLost'
      <4> SUFFICES ASSUME NEW k \in lanes
                   PROVE  \/ \E i \in DOMAIN availableLanes' : availableLanes'[i] = k
                          \/ \E q \in Requests : k \in lane'[q]
        BY <3>2 DEF NoneLost
      <4>1. CASE k = l
        <5>1. n + 1 \in 1 .. (n + 1)
          BY <3>3
        <5> QED BY <4>1, <5>1, <3>4
      <4>2. CASE k # l
        <5>1. (\E i \in 1 .. n : availableLanes[i] = k) \/ \E q \in Requests : k \in lane[q]
          BY <3>3 DEF PartInv, LanesPartitioned, NoneLost
        <5>2. ASSUME NEW i \in 1 .. n, availableLanes[i] = k
              PROVE  i \in DOMAIN availableLanes' /\ availableLanes'[i] = k
          BY <5>2, <3>3, <3>4
        <5>3. ASSUME NEW q \in Requests, k \in lane[q] PROVE k \in lane'[q]
          BY <5>3, <4>2, <3>1, <3>2 DEF PartInv
        <5> QED BY <5>1, <5>2, <5>3
      <4> QED BY <4>1, <4>2
    <3> QED BY <3>4, <3>6, <3>8, <3>9, <3>10, <3>11, <3>12, <3>13 DEF PartInv, LanesPartitioned
  <2>10. ASSUME NEW r \in Requests, NotifyLane(r) PROVE PartInv'
    <3>1. \A q \in Requests : run'[q] \in InUse <=> run[q] \in InUse
      BY <2>10 DEF NotifyLane, LaneSleepers, InUse, PCInv
    <3>2. UNCHANGED <<availableLanes, lanes, lane>>
      BY <2>10 DEF NotifyLane, laneState, work
    <3> QED BY <3>1, <3>2 DEF PartInv, LanesPartitioned, StackDistinct,
          StackExists, UsersHoldOne, StackNotHeld, HeldOnce, NoneLost
  <2>11. ASSUME NEW r \in Requests, PrepareToSignal(r) PROVE PartInv'
    <3>1. \A q \in Requests : run'[q] \in InUse <=> run[q] \in InUse
      BY <2>11 DEF PrepareToSignal, Step, InUse, PCInv
    <3>2. UNCHANGED <<availableLanes, lanes, lane>>
      BY <2>11 DEF PrepareToSignal, laneState, work
    <3> QED BY <3>1, <3>2 DEF PartInv, LanesPartitioned, StackDistinct,
          StackExists, UsersHoldOne, StackNotHeld, HeldOnce, NoneLost
  <2>12. ASSUME NEW r \in Requests, ReleaseRetained(r) PROVE PartInv'
    <3>1. \A q \in Requests : run'[q] \in InUse <=> run[q] \in InUse
      BY <2>12 DEF ReleaseRetained, Step, InUse, PCInv
    <3>2. UNCHANGED <<availableLanes, lanes, lane>>
      BY <2>12 DEF ReleaseRetained, laneState, work
    <3> QED BY <3>1, <3>2 DEF PartInv, LanesPartitioned, StackDistinct,
          StackExists, UsersHoldOne, StackNotHeld, HeldOnce, NoneLost
  <2>13. ASSUME NEW r \in Requests, FinishTask(r) PROVE PartInv'
    <3>1. \A q \in Requests : run'[q] \in InUse <=> run[q] \in InUse
      BY <2>13 DEF FinishTask, Step, InUse, PCInv
    <3>2. UNCHANGED <<availableLanes, lanes, lane>>
      BY <2>13 DEF FinishTask, laneState, work
    <3> QED BY <3>1, <3>2 DEF PartInv, LanesPartitioned, StackDistinct,
          StackExists, UsersHoldOne, StackNotHeld, HeldOnce, NoneLost
  <2>14. ASSUME NEW r \in Requests, NotifyIdle(r) PROVE PartInv'
    <3>1. \A q \in Requests : run'[q] \in InUse <=> run[q] \in InUse
      BY <2>14 DEF NotifyIdle, Step, InUse, PCInv
    <3>2. UNCHANGED <<availableLanes, lanes, lane>>
      BY <2>14 DEF NotifyIdle, laneState, work
    <3> QED BY <3>1, <3>2 DEF PartInv, LanesPartitioned, StackDistinct,
          StackExists, UsersHoldOne, StackNotHeld, HeldOnce, NoneLost
  <2>15. ASSUME NEW r \in Requests, Signal(r) PROVE PartInv'
    <3>1. \A q \in Requests : run'[q] \in InUse <=> run[q] \in InUse
      BY <2>15 DEF Signal, Step, InUse, PCInv
    <3>2. UNCHANGED <<availableLanes, lanes, lane>>
      BY <2>15 DEF Signal, laneState, work
    <3> QED BY <3>1, <3>2 DEF PartInv, LanesPartitioned, StackDistinct,
          StackExists, UsersHoldOne, StackNotHeld, HeldOnce, NoneLost
  <2>16. CASE ReleaseResources
    <3>1. \A r \in Requests : run[r] \notin InUse
      <4>1. Counted = {}
        BY <2>16, CountIsNatural DEF ReleaseResources, StopInv
      <4> QED BY <4>1 DEF Counted, InUse, Finished
    <3>2. availableLanes' = <<>> /\ lanes' = {} /\ UNCHANGED <<run, lane>>
      BY <2>16 DEF ReleaseResources, work
    <3> QED BY <3>1, <3>2, EmptySeq DEF PartInv, LanesPartitioned, StackDistinct,
          StackExists, UsersHoldOne, StackNotHeld, HeldOnce, NoneLost
  <2>17. CASE UNCHANGED <<run, availableLanes, lanes, lane>>
    BY <2>17 DEF PartInv, LanesPartitioned, StackDistinct, StackExists, UsersHoldOne, StackNotHeld, HeldOnce, NoneLost, InUse
  <2> QED
    BY ZenonT(60), <2>1, <2>2, <2>3, <2>4, <2>5, <2>6, <2>7, <2>8, <2>9, <2>10, <2>11, <2>12, <2>13,
       <2>14, <2>15, <2>16, <2>17
    DEF Next, CallStep, RunStep, FlushStep, StopStep, vars, BuildTask, CannotBuild,
        Admit, SchedulerRefuses, UndoAdmission, UndoNotify, Fail, Retain, UserDrops,
        BeginFlush, FlushRetest, SpuriousFlushWakeup, FlushSynchronizes, FlushSucceeds,
        FlushFails, Execute, StopAndWait, StopRetest, SpuriousStopWakeup,
        ShutdownSynchronizes, AbandonResources, ShutdownSynced, DestroyPool,
        DestroyStream, Goto, admission, laneState, work, flushing, teardown, tensor,
        stream, TaskFinished, WakeIdle, DropTensor, TestIdle, FlushTo, BeginSync,
        Synced, EndFlush, EndSync, TestDrained, StopTo
<1> QED BY <1>1, <1>2, PCInductive, ActiveTasksCounted, StopInductive, PTL DEF Spec, SafetySpec

-----------------------------------------------------------------------------
(* The copies *)

Early  == {"none", "queued", "sync", "acquire", "asleep"}
Moving == {"first half", "second half"}

\* How far the copy of r is, by its program counter.
Progress(r) ==
  /\ \A i \in DOMAIN copied[r] : copied[r][i] = <<r, i>>
  /\ run[r] \in Early => Len(copied[r]) = 0
  /\ run[r] \in Early \cup Moving => status[r] = "none"
  /\ run[r] \in Moving => Len(copied[r]) < Chunks
  /\ run[r] = "second half" => \A l \in lane[r] : staging[l] = <<r, Len(copied[r]) + 1>>
  /\ status[r] = "SUCCESS" => Len(copied[r]) = Chunks

CopyInv ==
  /\ staging \in [Lanes -> {<<>>} \cup Pieces]
  /\ copied \in [Requests -> Seq(Pieces)]
  /\ \A r \in Requests : Progress(r)

\* A step that moves no data: its thread gets no further back, and does not end well.
LEMMA StepKeeps ==
  ASSUME PCInv, DataInv, CopyInv, NEW r \in Requests, NEW from, NEW to, Step(r, from, to),
         to \in Early => from \in Early, to \notin Moving,
         UNCHANGED <<staging, copied>>,
         \A q \in Requests \ {r} : lane'[q] = lane[q],
         \/ UNCHANGED status
         \/ to \notin Early /\ status' = [status EXCEPT ![r] = "DEVICE_ERROR"]
  PROVE  CopyInv'
<1>1. ASSUME NEW q \in Requests PROVE Progress(q)'
  <2>1. Progress(q)
    BY DEF CopyInv
  <2>2. CASE q = r
    <3>1. run'[q] = to /\ run[q] = from
      BY <2>2 DEF Step, PCInv
    <3>2. status'[q] = status[q] \/ (to \notin Early /\ status'[q] = "DEVICE_ERROR")
      BY <2>2 DEF DataInv
    <3>3. "second half" \in Moving
      BY DEF Moving
    <3> QED BY <2>1, <3>1, <3>2, <3>3 DEF Progress
  <2>3. CASE q # r
    <3>1. run'[q] = run[q] /\ lane'[q] = lane[q] /\ status'[q] = status[q]
      BY <2>3 DEF Step, PCInv, DataInv
    <3> QED BY <2>1, <3>1 DEF Progress
  <2> QED BY <2>2, <2>3
<1> QED BY <1>1 DEF CopyInv

\* Each half of a chunk moves the request's own next piece: the lane's staging buffer
\* holds it in between because no other thread has the lane.
LEMMA CopyInductive == Spec => []CopyInv
<1>1. Init => CopyInv
  <2> SUFFICES ASSUME Init PROVE CopyInv
    OBVIOUS
  <2>1. staging \in [Lanes -> {<<>>} \cup Pieces] /\ copied \in [Requests -> Seq(Pieces)]
    BY EmptySeq DEF Init
  <2>2. ASSUME NEW r \in Requests PROVE Progress(r)
    <3>1. copied[r] = <<>> /\ run[r] = "none" /\ status[r] = "none"
      BY DEF Init
    <3> QED BY <3>1, EmptySeq DEF Progress, Early, Moving
  <2> QED BY <2>1, <2>2 DEF CopyInv
<1>2. PCInv /\ DataInv /\ PartInv /\ CopyInv /\ [Next]_vars => CopyInv'
  <2> SUFFICES ASSUME PCInv, DataInv, PartInv, CopyInv, [Next]_vars PROVE CopyInv'
    OBVIOUS
  <2>1. ASSUME NEW r \in Requests, SchedulerAccepts(r) PROVE CopyInv'
    <3>1. run' = [run EXCEPT ![r] = "queued"] /\ UNCHANGED <<staging, copied, status, lane>>
      BY <2>1 DEF SchedulerAccepts, laneState, work
    <3>2. run[r] = "none"
      BY <2>1 DEF SchedulerAccepts, PCInv
    <3> QED BY <3>1, <3>2, StepKeeps DEF Step, Early, Moving
  <2>2. ASSUME NEW r \in Requests, StartCopy(r) PROVE CopyInv'
    <3>1. UNCHANGED <<staging, copied, lane>>
      BY <2>2 DEF StartCopy, laneState
    <3>2. CASE Step(r, "queued", "acquire") /\ UNCHANGED status
      BY <3>1, <3>2, StepKeeps DEF Early, Moving
    <3>3. CASE Step(r, "queued", "sync") /\ UNCHANGED status
      BY <3>1, <3>3, StepKeeps DEF Early, Moving
    <3>4. CASE Step(r, "queued", "prepare") /\ Outcome(r, "DEVICE_ERROR")
      BY <3>1, <3>4, StepKeeps DEF Early, Moving, Outcome
    <3> QED BY <2>2, <3>2, <3>3, <3>4 DEF StartCopy
  <2>3. ASSUME NEW r \in Requests, DependencySynced(r) PROVE CopyInv'
    <3>1. UNCHANGED <<staging, copied, lane>>
      BY <2>3 DEF DependencySynced, laneState
    <3>2. CASE Step(r, "sync", "acquire") /\ UNCHANGED status
      BY <3>1, <3>2, StepKeeps DEF Early, Moving
    <3>3. CASE Step(r, "sync", "prepare") /\ Outcome(r, "DEVICE_ERROR")
      BY <3>1, <3>3, StepKeeps DEF Early, Moving, Outcome
    <3> QED BY <2>3, <3>2, <3>3 DEF DependencySynced
  <2>4. ASSUME NEW r \in Requests, AcquireLane(r) PROVE CopyInv'
    <3>1. \A q \in Requests : run'[q] # run[q] =>
            q = r /\ run[q] = "acquire" /\ run'[q] \in {"asleep", "first half"}
      BY <2>4 DEF AcquireLane, Step, PCInv
    <3>2. UNCHANGED <<staging, copied, status>> /\ \A q \in Requests : q # r => lane'[q] = lane[q]
      BY <2>4 DEF AcquireLane, PartInv
    <3>3. ASSUME NEW q \in Requests PROVE Progress(q)'
      <4>1. Progress(q)
        BY DEF CopyInv
      <4>2. Chunks \in Nat \ {0}
        BY CountsAssumption
      <4>3. CASE q = r
        <5>1. run[r] = "acquire" /\ run'[r] \in {"asleep", "first half"}
          BY <2>4, <3>1 DEF AcquireLane, Step, PCInv
        <5>2. status'[q] = "none" /\ Len(copied'[q]) = 0
          BY <4>1, <4>3, <5>1, <3>2 DEF Progress, Early
        <5>3. Len(copied'[q]) < Chunks /\ run'[q] # "second half" /\ status'[q] # "SUCCESS"
          <6>1. 0 < Chunks
            BY <4>2
          <6>2. Len(copied'[q]) < Chunks
            BY <6>1, <5>2
          <6>3. run'[q] # "second half" /\ status'[q] # "SUCCESS"
            BY <4>3, <5>1, <5>2
          <6> QED BY <6>2, <6>3
        <5>4. \A i \in DOMAIN copied'[q] : copied'[q][i] = <<q, i>>
          BY <3>2, <4>1 DEF Progress
        <5> QED BY <5>2, <5>3, <5>4 DEF Progress
      <4>4. CASE q # r
        <5>1. run'[q] = run[q] /\ lane'[q] = lane[q]
          BY <3>1, <3>2, <4>4
        <5> QED BY <3>2, <4>1, <5>1 DEF Progress
      <4> QED BY <4>3, <4>4
    <3> QED BY <3>2, <3>3 DEF CopyInv
  <2>5. ASSUME NEW r \in Requests, SpuriousLaneWakeup(r) PROVE CopyInv'
    BY <2>5, StepKeeps DEF SpuriousLaneWakeup, laneState, work, Early, Moving
  <2>6. ASSUME NEW r \in Requests, FillStaging(r) PROVE CopyInv'
    <3>1. run[r] = "first half" /\ run' = [run EXCEPT ![r] = "second half"]
          /\ staging' = [l \in Lanes |-> IF l \in lane[r] THEN <<r, NextChunk(r)>> ELSE staging[l]]
          /\ UNCHANGED <<copied, status, lane>>
      BY <2>6 DEF FillStaging, Step, work
    <3>2. Len(copied[r]) \in Nat /\ NextChunk(r) \in 1 .. Chunks
      <4>1. Len(copied[r]) \in Nat
        BY LenProperties DEF CopyInv
      <4>2. Len(copied[r]) < Chunks
        BY <3>1 DEF CopyInv, Progress, Moving
      <4> QED BY <4>1, <4>2, CountsAssumption DEF NextChunk
    <3>3. staging' \in [Lanes -> {<<>>} \cup Pieces]
      BY <3>1, <3>2 DEF CopyInv, Pieces
    <3>4. ASSUME NEW q \in Requests PROVE Progress(q)'
      <4>1. Progress(q)
        BY DEF CopyInv
      <4>2. CASE q = r
        BY <4>1, <4>2, <3>1 DEF Progress, Early, Moving, PCInv, PartInv, NextChunk
      <4>3. CASE q # r
        <5>1. run'[q] = run[q] /\ lane'[q] = lane[q] /\ lane[q] \subseteq Lanes
          BY <4>3, <3>1 DEF PCInv, PartInv
        <5>2. \A l \in lane[q] : staging'[l] = staging[l]
          BY <4>3, <5>1, <3>1 DEF PartInv, LanesPartitioned, HeldOnce
        <5> QED BY <4>1, <5>1, <5>2, <3>1 DEF Progress
      <4> QED BY <4>2, <4>3
    <3> QED BY <3>1, <3>3, <3>4 DEF CopyInv
  <2>7. ASSUME NEW r \in Requests, DrainStaging(r) PROVE CopyInv'
    <3>1. PICK l \in lane[r] : copied' = [copied EXCEPT ![r] = Append(@, staging[l])]
      BY <2>7 DEF DrainStaging
    <3> DEFINE n == Len(copied[r])
    <3>2. run[r] = "second half" /\ staging[l] = <<r, n + 1>> /\ n < Chunks
          /\ status[r] = "none" /\ \A i \in DOMAIN copied[r] : copied[r][i] = <<r, i>>
      BY <2>7, <3>1 DEF DrainStaging, Step, CopyInv, Progress, Moving
    <3>3. n \in Nat /\ DOMAIN copied[r] = 1 .. n /\ copied[r] \in Seq(Pieces)
      BY LenProperties DEF CopyInv
    <3>4. staging[l] \in Pieces
      <4>1. n \in Nat /\ n < Chunks /\ Chunks \in Nat /\ staging[l] = <<r, n + 1>>
        BY <3>2, <3>3, CountsAssumption
      <4> HIDE DEF n
      <4>2. n + 1 \in 1 .. Chunks
        BY <4>1
      <4> QED BY <4>1, <4>2 DEF Pieces
    <3>5. /\ copied'[r] \in Seq(Pieces) /\ Len(copied'[r]) = n + 1
          /\ DOMAIN copied'[r] = 1 .. (n + 1)
          /\ copied'[r][n + 1] = <<r, n + 1>>
          /\ \A i \in 1 .. n : copied'[r][i] = copied[r][i]
      <4>1. copied'[r] = Append(copied[r], staging[l])
        BY <3>1 DEF CopyInv
      <4>2. /\ Append(copied[r], staging[l]) \in Seq(Pieces)
            /\ Len(Append(copied[r], staging[l])) = n + 1
            /\ \A i \in 1 .. n : Append(copied[r], staging[l])[i] = copied[r][i]
            /\ Append(copied[r], staging[l])[n + 1] = staging[l]
        BY <3>3, <3>4, AppendProperties
      <4> QED BY <4>1, <4>2, <3>2, LenProperties
    <3>6. /\ UNCHANGED <<staging, lane>>
          /\ IF n + 1 = Chunks
             THEN run' = [run EXCEPT ![r] = "release"] /\ status' = [status EXCEPT ![r] = "SUCCESS"]
             ELSE run' = [run EXCEPT ![r] = "first half"] /\ UNCHANGED status
      BY <2>7 DEF DrainStaging, Step, Outcome, NextChunk, laneState
    <3>7. copied' \in [Requests -> Seq(Pieces)]
      BY <3>1, <3>5 DEF CopyInv
    <3> HIDE DEF n
    <3>8. ASSUME NEW q \in Requests PROVE Progress(q)'
      <4>1. Progress(q)
        BY DEF CopyInv
      <4>2. CASE q = r
        <5>1. \A i \in 1 .. (n + 1) : i = n + 1 \/ i \in 1 .. n
          BY <3>3
        <5>2. \A i \in DOMAIN copied'[r] : copied'[r][i] = <<r, i>>
          BY <5>1, <3>2, <3>3, <3>5
        <5>3. CASE n + 1 = Chunks
          <6>1. run'[r] = "release" /\ status'[r] = "SUCCESS"
            BY <5>3, <3>6 DEF PCInv, DataInv
          <6> QED BY <4>2, <5>2, <5>3, <6>1, <3>5 DEF Progress, Early, Moving
        <5>4. CASE n + 1 # Chunks
          <6>1. run'[r] = "first half" /\ status'[r] = "none"
            BY <5>4, <3>2, <3>6 DEF PCInv
          <6>2. n + 1 < Chunks
            <7>1. n < Chunks /\ Chunks \in Nat
              BY <3>2, CountsAssumption DEF n
            <7> QED BY <7>1, <5>4, <3>3
          <6> QED BY <4>2, <5>2, <6>1, <6>2, <3>5 DEF Progress, Early, Moving
        <5> QED BY <5>3, <5>4
      <4>3. CASE q # r
        <5>1. /\ run'[q] = run[q] /\ status'[q] = status[q] /\ copied'[q] = copied[q]
              /\ lane' = lane /\ staging' = staging
          BY <4>3, <3>1, <3>6 DEF PCInv, DataInv, CopyInv
        <5> QED BY <4>1, <5>1 DEF Progress
      <4> QED BY <4>2, <4>3
    <3> QED BY <3>6, <3>7, <3>8 DEF CopyInv
  <2>8. ASSUME NEW r \in Requests, ChunkFails(r) PROVE CopyInv'
    BY <2>8, StepKeeps DEF ChunkFails, Outcome, DeviceHalf, laneState, Early, Moving
  <2>9. ASSUME NEW r \in Requests, ReleaseLane(r) PROVE CopyInv'
    <3>1. Step(r, "release", "notify lane") /\ UNCHANGED <<staging, copied, status>>
          /\ lane' = [lane EXCEPT ![r] = {}]
      BY <2>9 DEF ReleaseLane
    <3>2. \A q \in Requests \ {r} : lane'[q] = lane[q]
      BY <3>1 DEF PartInv
    <3> QED BY <3>1, <3>2, StepKeeps DEF Early, Moving
  <2>10. ASSUME NEW r \in Requests, NotifyLane(r) PROVE CopyInv'
    <3>1. UNCHANGED <<staging, copied, status, lane>>
      BY <2>10 DEF NotifyLane, laneState, work
    <3>2. ASSUME NEW q \in Requests
          PROVE  \/ run'[q] = run[q]
                 \/ run[q] = "asleep" /\ run'[q] = "acquire"
                 \/ run'[q] = "prepare"
      BY <2>10 DEF NotifyLane, LaneSleepers, PCInv
    <3>3. ASSUME NEW q \in Requests PROVE Progress(q)'
      <4>1. Progress(q)
        BY DEF CopyInv
      <4> QED BY <3>1, <3>2, <4>1 DEF Progress, Early, Moving
    <3> QED BY <3>1, <3>3 DEF CopyInv
  <2>11. ASSUME NEW r \in Requests, PrepareToSignal(r) PROVE CopyInv'
    BY <2>11, StepKeeps DEF PrepareToSignal, laneState, work, Early, Moving
  <2>12. ASSUME NEW r \in Requests, ReleaseRetained(r) PROVE CopyInv'
    BY <2>12, StepKeeps DEF ReleaseRetained, laneState, work, Early, Moving
  <2>13. ASSUME NEW r \in Requests, FinishTask(r) PROVE CopyInv'
    BY <2>13, StepKeeps DEF FinishTask, laneState, work, Early, Moving
  <2>14. ASSUME NEW r \in Requests, NotifyIdle(r) PROVE CopyInv'
    BY <2>14, StepKeeps DEF NotifyIdle, laneState, work, Early, Moving
  <2>15. ASSUME NEW r \in Requests, Signal(r) PROVE CopyInv'
    BY <2>15, StepKeeps DEF Signal, laneState, work, Early, Moving
  <2>16. CASE UNCHANGED <<run, lane, staging, copied, status>>
    BY <2>16 DEF CopyInv, Progress
  <2> QED
    BY ZenonT(60), <2>1, <2>2, <2>3, <2>4, <2>5, <2>6, <2>7, <2>8, <2>9, <2>10, <2>11, <2>12, <2>13,
       <2>14, <2>15, <2>16
    DEF Next, CallStep, RunStep, FlushStep, StopStep, vars, BuildTask, CannotBuild,
        Admit, SchedulerRefuses, UndoAdmission, UndoNotify, Fail, Retain, UserDrops,
        BeginFlush, FlushRetest, SpuriousFlushWakeup, FlushSynchronizes, FlushSucceeds,
        FlushFails, Execute, StopAndWait, StopRetest, SpuriousStopWakeup,
        ReleaseResources, ShutdownSynchronizes, AbandonResources, ShutdownSynced,
        DestroyPool, DestroyStream, Goto, admission, laneState, work, flushing,
        teardown, tensor, stream, TaskFinished, WakeIdle, DropTensor, TestIdle, FlushTo,
        BeginSync, Synced, EndFlush, EndSync, TestDrained, StopTo
<1> QED BY <1>1, <1>2, PCInductive, DataInductive, PartInductive, PTL DEF Spec, SafetySpec

\* No lane is lost, on the stack twice, or used by two copies at once.
THEOREM LanesNeverShared == Spec => []LanesPartitioned
BY PartInductive, PTL DEF PartInv

\* A copy that reports SUCCESS has delivered its own chunks, all and in order.
THEOREM SuccessMeansCopied == Spec => []CopyIsComplete
<1>1. CopyInv => CopyIsComplete
  <2> SUFFICES ASSUME CopyInv, NEW r \in Requests, status[r] = "SUCCESS"
               PROVE  copied[r] = [k \in 1 .. Chunks |-> <<r, k>>]
    BY DEF CopyIsComplete
  <2>1. Progress(r) /\ copied[r] \in Seq(Pieces)
    BY DEF CopyInv
  <2>2. Len(copied[r]) = Chunks /\ \A i \in DOMAIN copied[r] : copied[r][i] = <<r, i>>
    BY <2>1 DEF Progress
  <2>3. copied[r] \in [1 .. Chunks -> Pieces]
    BY <2>1, <2>2, LenProperties
  <2> QED BY <2>2, <2>3
<1> QED BY <1>1, CopyInductive, PTL

-----------------------------------------------------------------------------
(* The default stream *)

\* An operation is enqueued, and somebody notes its position.
LEMMA Grows ==
  ASSUME StreamTypes, issued' = issued + 1, UNCHANGED <<executed, target>>,
         \/ UNCHANGED freed /\ \E r \in Requests : allocated' = [allocated EXCEPT ![r] = issued + 1]
         \/ UNCHANGED allocated /\ \E r \in Requests : freed' = [freed EXCEPT ![r] = issued + 1]
  PROVE  StreamTypes'
<1>1. issued' \in Nat /\ issued + 1 \in 0 .. issued' /\ \A x \in 0 .. issued : x \in 0 .. issued'
  BY DEF StreamTypes
<1>2. executed' \in 0 .. issued' /\ target' \in [Requests \cup Flushers \cup {Stop} -> 0 .. issued']
  BY <1>1 DEF StreamTypes
<1>3. allocated' \in [Requests -> 0 .. issued'] /\ freed' \in [Requests -> 0 .. issued']
  BY <1>1 DEF StreamTypes
<1> QED BY <1>1, <1>2, <1>3 DEF StreamTypes

\* Dropping a reference enqueues at most one release.
LEMMA DropKeepsTypes ==
  ASSUME StreamTypes, NEW r \in Requests, NEW holder, DropTensor(r, holder)
  PROVE  StreamTypes'
<1>1. CASE refs[r] = {holder}
  BY <1>1, Grows DEF DropTensor
<1>2. CASE refs[r] # {holder}
  BY <1>2 DEF DropTensor, StreamTypes
<1> QED BY <1>1, <1>2

\* Positions on the default stream stay between 0 and issued, and executed behind issued.
LEMMA StreamInductive == Spec => []StreamTypes
<1>1. Init => StreamTypes
  BY DEF Init, StreamTypes
<1>2. StreamTypes /\ [Next]_vars => StreamTypes'
  <2> SUFFICES ASSUME StreamTypes, [Next]_vars PROVE StreamTypes'
    OBVIOUS
  <2>1. CASE Execute
    BY <2>1 DEF Execute, tensor, StreamTypes
  <2>2. ASSUME NEW r \in Requests, BuildTask(r) PROVE StreamTypes'
    <3>1. UNCHANGED <<executed, target, freed>>
      BY <2>2 DEF BuildTask
    <3>2. CASE r \in Uploads
      <4>1. issued' = issued + 1 /\ allocated' = [allocated EXCEPT ![r] = issued + 1]
        BY <2>2, <3>2 DEF BuildTask
      <4> QED BY <3>1, <4>1, Grows
    <3>3. CASE r \notin Uploads
      BY <2>2, <3>1, <3>3 DEF BuildTask, StreamTypes
    <3> QED BY <3>2, <3>3
  <2>3. ASSUME NEW r \in Requests, Fail(r) PROVE StreamTypes'
    <3>1. DropTensor(r, "caller")
      BY <2>3 DEF Fail
    <3> QED BY <3>1, DropKeepsTypes
  <2>4. ASSUME NEW r \in Requests, UserDrops(r) PROVE StreamTypes'
    <3>1. DropTensor(r, "caller")
      BY <2>4 DEF UserDrops
    <3> QED BY <3>1, DropKeepsTypes
  <2>5. ASSUME NEW r \in Requests, StartCopy(r) PROVE StreamTypes'
    BY <2>5 DEF StartCopy, BeginSync, tensor, stream, StreamTypes
  <2>6. ASSUME NEW r \in Requests, DependencySynced(r) PROVE StreamTypes'
    BY <2>6 DEF DependencySynced, EndSync, tensor, StreamTypes
  <2>7. ASSUME NEW r \in Requests, ReleaseRetained(r) PROVE StreamTypes'
    <3>1. DropTensor(r, "worker")
      BY <2>7 DEF ReleaseRetained
    <3> QED BY <3>1, DropKeepsTypes
  <2>8. ASSUME NEW f \in Flushers, FlushSynchronizes(f) PROVE StreamTypes'
    BY <2>8 DEF FlushSynchronizes, BeginSync, tensor, StreamTypes
  <2>9. ASSUME NEW f \in Flushers, FlushSucceeds(f) PROVE StreamTypes'
    BY <2>9 DEF FlushSucceeds, EndFlush, EndSync, tensor, StreamTypes
  <2>10. ASSUME NEW f \in Flushers, FlushFails(f) PROVE StreamTypes'
    BY <2>10 DEF FlushFails, EndFlush, EndSync, tensor, StreamTypes
  <2>11. CASE ShutdownSynchronizes
    BY <2>11 DEF ShutdownSynchronizes, BeginSync, tensor, StreamTypes
  <2>12. CASE UNCHANGED <<allocated, freed, issued, executed, target>>
    BY <2>12 DEF StreamTypes
  <2> QED
    BY ZenonT(60), <2>1, <2>2, <2>3, <2>4, <2>5, <2>6, <2>7, <2>8, <2>9, <2>10, <2>11, <2>12
    DEF Next, CallStep, RunStep, FlushStep, StopStep, vars, CannotBuild, Admit,
        SchedulerAccepts, SchedulerRefuses, UndoAdmission, UndoNotify, Retain,
        AcquireLane, SpuriousLaneWakeup, FillStaging, DrainStaging, ChunkFails,
        ReleaseLane, NotifyLane, PrepareToSignal, FinishTask, NotifyIdle, Signal,
        BeginFlush, FlushRetest, SpuriousFlushWakeup, StopAndWait, StopRetest,
        SpuriousStopWakeup, ReleaseResources, AbandonResources, ShutdownSynced,
        DestroyPool, DestroyStream, Goto, admission, laneState, work, tensor, stream,
        flushing, teardown, TaskFinished, WakeIdle, Step, NextChunk, Outcome,
        DeviceHalf, LaneSleepers, TestIdle, FlushTo, TestDrained, StopTo, Synced
<1> QED BY <1>1, <1>2, PTL DEF Spec, SafetySpec

-----------------------------------------------------------------------------
(* References to tensors *)

InCall   == {"built", "admitted", "undo", "undo notify", "rejected", "retain"}
Released == {"drop", "finish"} \cup Finished

\* Who refers to the tensor of r, by the progress of its call and of its thread.
RefOK(r) ==
  /\ r \notin Uploads => refs[r] = {}
  /\ call[r] = "retain" => r \in Uploads
  /\ call[r] = "idle" => refs[r] = {} /\ allocated[r] = 0 /\ freed[r] = 0
  /\ r \in Uploads /\ call[r] \in InCall => "caller" \in refs[r]
  /\ "caller" \in refs[r] => call[r] \in InCall \cup {"returned"}
  /\ r \in Uploads /\ call[r] # "idle" =>
       allocated[r] # 0 /\ (refs[r] = {} <=> freed[r] # 0)
  /\ retaining[r] <=> run[r] \notin Released
  /\ "completion" \in refs[r] => retaining[r] /\ call[r] = "returned"
  /\ "worker" \in refs[r] => run[r] = "drop"
  /\ r \in Uploads /\ call[r] = "returned" /\ retaining[r] => "completion" \in refs[r]

RefInv == \A r \in Requests : RefOK(r)

SameRefs(q) ==
  /\ call'[q] = call[q] /\ run'[q] = run[q] /\ retaining'[q] = retaining[q]
  /\ refs'[q] = refs[q] /\ allocated'[q] = allocated[q] /\ freed'[q] = freed[q]

\* A step of a copy's thread that neither closes retention nor releases the tensor
\* leaves the references as they are.
LEMMA RunKeepsRefs ==
  ASSUME PCInv, RefInv, NEW r \in Requests, NEW from, NEW to, Step(r, from, to),
         from # "drop", from \in Released <=> to \in Released,
         UNCHANGED <<call, retaining, refs, allocated, freed>>
  PROVE  RefInv'
<1>1. ASSUME NEW q \in Requests PROVE RefOK(q)'
  <2>1. RefOK(q)
    BY DEF RefInv
  <2>2. run'[q] = run[q] \/ (run[q] = from /\ run'[q] = to)
    BY DEF Step, PCInv
  <2> QED BY <2>1, <2>2 DEF RefOK
<1> QED BY <1>1 DEF RefInv

\* A step of a submitting call before its tensor is retained leaves them as well.
LEMMA CallKeepsRefs ==
  ASSUME PCInv, RefInv, NEW r \in Requests, NEW there, Goto(r, there),
         call[r] \in InCall, there \in InCall \ {"retain"},
         UNCHANGED <<run, retaining, refs, allocated, freed>>
  PROVE  RefInv'
<1>1. ASSUME NEW q \in Requests PROVE RefOK(q)'
  <2>1. RefOK(q)
    BY DEF RefInv
  <2>2. call'[q] = call[q] \/ (call[q] \in InCall /\ call'[q] \in InCall \ {"retain"})
    BY DEF Goto, PCInv
  <2> QED BY <2>1, <2>2 DEF RefOK, InCall
<1> QED BY <1>1 DEF RefInv

\* The tensor of an upload is referred to by its caller, by the completion until
\* prepareToSignal, and by the worker until it releases it; its memory is released with
\* the last of them.  retainUntilCompletion may come before or after prepareToSignal.
LEMMA RefInductive == Spec => []RefInv
<1>1. Init => RefInv
  BY DEF Init, RefInv, RefOK, InCall, Released, Finished
<1>2. PCInv /\ DataInv /\ StreamTypes /\ RefInv /\ [Next]_vars => RefInv'
  <2> SUFFICES ASSUME PCInv, DataInv, StreamTypes, RefInv, [Next]_vars PROVE RefInv'
    OBVIOUS
  <2>1. ASSUME NEW r \in Requests, BuildTask(r) PROVE RefInv'
    <3>1. ASSUME NEW q \in Requests PROVE RefOK(q)'
      <4>1. RefOK(q)
        BY DEF RefInv
      <4>2. CASE q = r
        <5>1. call[q] = "idle" /\ call'[q] = "built" /\ UNCHANGED <<run, retaining>>
          BY <2>1, <4>2 DEF BuildTask, Goto, PCInv, tensor
        <5>2. CASE r \in Uploads
          <6>1. refs'[q] = {"caller"} /\ allocated'[q] = issued + 1 /\ freed'[q] = freed[q]
            BY <2>1, <4>2, <5>2 DEF BuildTask, DataInv, StreamTypes
          <6>2. issued + 1 # 0
            BY DEF StreamTypes
          <6> QED BY <4>1, <4>2, <5>1, <5>2, <6>1, <6>2 DEF RefOK, InCall
        <5>3. CASE r \notin Uploads
          <6>1. refs'[q] = refs[q] /\ allocated'[q] = allocated[q] /\ freed'[q] = freed[q]
            BY <2>1, <5>3 DEF BuildTask
          <6> QED BY <4>1, <4>2, <5>1, <5>3, <6>1 DEF RefOK, InCall
        <5> QED BY <5>2, <5>3
      <4>3. CASE q # r
        <5>1. SameRefs(q)
          BY <2>1, <4>3 DEF BuildTask, Goto, SameRefs, PCInv, DataInv, StreamTypes
        <5> QED BY <4>1, <5>1 DEF RefOK, SameRefs
      <4> QED BY <4>2, <4>3
    <3> QED BY <3>1 DEF RefInv
  <2>2. ASSUME NEW r \in Requests, CannotBuild(r) PROVE RefInv'
    BY <2>2, CallKeepsRefs DEF CannotBuild, tensor, InCall
  <2>3. ASSUME NEW r \in Requests, Admit(r) PROVE RefInv'
    BY <2>3, CallKeepsRefs DEF Admit, tensor, InCall
  <2>4. ASSUME NEW r \in Requests, SchedulerAccepts(r) PROVE RefInv'
    <3>1. ASSUME NEW q \in Requests PROVE RefOK(q)'
      <4>1. RefOK(q)
        BY DEF RefInv
      <4>2. CASE q = r
        BY <2>4, <4>1, <4>2 DEF SchedulerAccepts, Goto, tensor, RefOK, InCall, Released,
           Finished, PCInv, DataInv, StreamTypes
      <4>3. CASE q # r
        <5>1. SameRefs(q)
          BY <2>4, <4>3 DEF SchedulerAccepts, Goto, tensor, SameRefs, PCInv, DataInv, StreamTypes
        <5> QED BY <4>1, <5>1 DEF RefOK, SameRefs
      <4> QED BY <4>2, <4>3
    <3> QED BY <3>1 DEF RefInv
  <2>5. ASSUME NEW r \in Requests, SchedulerRefuses(r) PROVE RefInv'
    BY <2>5, CallKeepsRefs DEF SchedulerRefuses, tensor, InCall
  <2>6. ASSUME NEW r \in Requests, UndoAdmission(r) PROVE RefInv'
    BY <2>6, CallKeepsRefs DEF UndoAdmission, tensor, InCall
  <2>7. ASSUME NEW r \in Requests, UndoNotify(r) PROVE RefInv'
    BY <2>7, CallKeepsRefs DEF UndoNotify, tensor, InCall
  <2>8. ASSUME NEW r \in Requests, Fail(r) PROVE RefInv'
    <3>1. ASSUME NEW q \in Requests PROVE RefOK(q)'
      <4>1. RefOK(q)
        BY DEF RefInv
      <4>2. CASE q = r
        <5>1. /\ refs'[q] = refs[q] \ {"caller"}
              /\ IF refs[q] = {"caller"} THEN freed'[q] # 0 ELSE freed'[q] = freed[q]
              /\ allocated'[q] = allocated[q] /\ retaining'[q] = retaining[q]
          BY <2>8, <4>2 DEF Fail, DropTensor, DataInv, StreamTypes
        <5>2. refs[q] # {} /\ refs[q] # {"caller"} => refs'[q] # {}
          BY <5>1 DEF DataInv
        <5> QED BY <2>8, <4>1, <4>2, <5>1, <5>2 DEF Fail, Goto, RefOK, InCall,
                  Released, Finished, PCInv
      <4>3. CASE q # r
        <5>1. SameRefs(q)
          BY <2>8, <4>3 DEF Fail, Goto, DropTensor, SameRefs, PCInv, DataInv, StreamTypes
        <5> QED BY <4>1, <5>1 DEF RefOK, SameRefs
      <4> QED BY <4>2, <4>3
    <3> QED BY <3>1 DEF RefInv
  <2>9. ASSUME NEW r \in Requests, Retain(r) PROVE RefInv'
    <3>1. ASSUME NEW q \in Requests PROVE RefOK(q)'
      <4>1. RefOK(q)
        BY DEF RefInv
      <4>2. CASE q = r
        <5>1. call[q] = "retain" /\ call'[q] = "returned"
              /\ UNCHANGED <<run, retaining, allocated, freed>>
          BY <2>9, <4>2 DEF Retain, Goto, PCInv
        <5>2. refs'[q] = IF retaining[q] THEN refs[q] \cup {"completion"} ELSE refs[q]
          BY <2>9, <4>2 DEF Retain, DataInv
        <5>3. r \in Uploads
          BY <4>1, <4>2, <5>1 DEF RefOK
        <5>4. refs[q] # {} /\ refs'[q] # {}
          BY <4>1, <4>2, <5>1, <5>2, <5>3 DEF RefOK, InCall
        <5> QED BY <4>1, <4>2, <5>1, <5>2, <5>3, <5>4 DEF RefOK, InCall
      <4>3. CASE q # r
        <5>1. SameRefs(q)
          BY <2>9, <4>3 DEF Retain, Goto, SameRefs, PCInv, DataInv, StreamTypes
        <5> QED BY <4>1, <5>1 DEF RefOK, SameRefs
      <4> QED BY <4>2, <4>3
    <3> QED BY <3>1 DEF RefInv
  <2>10. ASSUME NEW r \in Requests, UserDrops(r) PROVE RefInv'
    <3>1. ASSUME NEW q \in Requests PROVE RefOK(q)'
      <4>1. RefOK(q)
        BY DEF RefInv
      <4>2. CASE q = r
        <5>1. /\ refs'[q] = refs[q] \ {"caller"}
              /\ IF refs[q] = {"caller"} THEN freed'[q] # 0 ELSE freed'[q] = freed[q]
              /\ allocated'[q] = allocated[q] /\ retaining'[q] = retaining[q]
          BY <2>10, <4>2 DEF UserDrops, DropTensor, DataInv, StreamTypes
        <5>2. refs[q] # {} /\ refs[q] # {"caller"} => refs'[q] # {}
          BY <5>1 DEF DataInv
        <5> QED BY <2>10, <4>1, <4>2, <5>1, <5>2 DEF UserDrops, RefOK, InCall,
                  Released, Finished, PCInv
      <4>3. CASE q # r
        <5>1. SameRefs(q)
          BY <2>10, <4>3 DEF UserDrops, DropTensor, SameRefs, PCInv, DataInv, StreamTypes
        <5> QED BY <4>1, <5>1 DEF RefOK, SameRefs
      <4> QED BY <4>2, <4>3
    <3> QED BY <3>1 DEF RefInv
  <2>11. ASSUME NEW r \in Requests, StartCopy(r) PROVE RefInv'
    <3>1. UNCHANGED <<call, retaining, refs, allocated, freed>>
      BY <2>11 DEF StartCopy, tensor
    <3>2. \E to \in {"acquire", "sync", "prepare"} : Step(r, "queued", to)
      BY <2>11 DEF StartCopy
    <3> QED BY <3>1, <3>2, RunKeepsRefs DEF Released, Finished
  <2>12. ASSUME NEW r \in Requests, DependencySynced(r) PROVE RefInv'
    <3>1. UNCHANGED <<call, retaining, refs, allocated, freed>>
      BY <2>12 DEF DependencySynced, tensor
    <3>2. \E to \in {"acquire", "prepare"} : Step(r, "sync", to)
      BY <2>12 DEF DependencySynced
    <3> QED BY <3>1, <3>2, RunKeepsRefs DEF Released, Finished
  <2>13. ASSUME NEW r \in Requests, AcquireLane(r) PROVE RefInv'
    BY <2>13, RunKeepsRefs DEF AcquireLane, tensor, Released, Finished
  <2>14. ASSUME NEW r \in Requests, SpuriousLaneWakeup(r) PROVE RefInv'
    BY <2>14, RunKeepsRefs DEF SpuriousLaneWakeup, tensor, Released, Finished
  <2>15. ASSUME NEW r \in Requests, FillStaging(r) PROVE RefInv'
    BY <2>15, RunKeepsRefs DEF FillStaging, tensor, Released, Finished
  <2>16. ASSUME NEW r \in Requests, DrainStaging(r) PROVE RefInv'
    BY <2>16, RunKeepsRefs DEF DrainStaging, tensor, Released, Finished
  <2>17. ASSUME NEW r \in Requests, ChunkFails(r) PROVE RefInv'
    BY <2>17, RunKeepsRefs DEF ChunkFails, DeviceHalf, tensor, Released, Finished
  <2>18. ASSUME NEW r \in Requests, ReleaseLane(r) PROVE RefInv'
    BY <2>18, RunKeepsRefs DEF ReleaseLane, tensor, Released, Finished
  <2>19. ASSUME NEW r \in Requests, NotifyLane(r) PROVE RefInv'
    <3>1. UNCHANGED <<call, retaining, refs, allocated, freed>>
      BY <2>19 DEF NotifyLane, tensor
    <3>2. ASSUME NEW q \in Requests
          PROVE  \/ run'[q] = run[q]
                 \/ run[q] = "asleep" /\ run'[q] = "acquire"
                 \/ run[q] = "notify lane" /\ run'[q] = "prepare"
      BY <2>19 DEF NotifyLane, LaneSleepers, PCInv
    <3>3. ASSUME NEW q \in Requests PROVE RefOK(q)'
      <4>1. RefOK(q)
        BY DEF RefInv
      <4> QED BY <3>1, <3>2, <4>1 DEF RefOK, Released, Finished
    <3> QED BY <3>3 DEF RefInv
  <2>20. ASSUME NEW r \in Requests, PrepareToSignal(r) PROVE RefInv'
    <3>1. ASSUME NEW q \in Requests PROVE RefOK(q)'
      <4>1. RefOK(q)
        BY DEF RefInv
      <4>2. CASE q = r
        BY <2>20, <4>1, <4>2 DEF PrepareToSignal, Step, RefOK, InCall, Released,
           Finished, PCInv, DataInv, StreamTypes
      <4>3. CASE q # r
        <5>1. SameRefs(q)
          BY <2>20, <4>3 DEF PrepareToSignal, Step, SameRefs, PCInv, DataInv, StreamTypes
        <5> QED BY <4>1, <5>1 DEF RefOK, SameRefs
      <4> QED BY <4>2, <4>3
    <3> QED BY <3>1 DEF RefInv
  <2>21. ASSUME NEW r \in Requests, ReleaseRetained(r) PROVE RefInv'
    <3>1. ASSUME NEW q \in Requests PROVE RefOK(q)'
      <4>1. RefOK(q)
        BY DEF RefInv
      <4>2. CASE q = r
        <5>1. /\ refs'[q] = refs[q] \ {"worker"}
              /\ IF refs[q] = {"worker"} THEN freed'[q] # 0 ELSE freed'[q] = freed[q]
              /\ allocated'[q] = allocated[q] /\ retaining'[q] = retaining[q]
          BY <2>21, <4>2 DEF ReleaseRetained, DropTensor, DataInv, StreamTypes
        <5>2. refs[q] # {} /\ refs[q] # {"worker"} => refs'[q] # {}
          BY <5>1 DEF DataInv
        <5> QED BY <2>21, <4>1, <4>2, <5>1, <5>2 DEF ReleaseRetained, Step, RefOK, InCall,
                  Released, Finished, PCInv
      <4>3. CASE q # r
        <5>1. SameRefs(q)
          BY <2>21, <4>3 DEF ReleaseRetained, Step, DropTensor, SameRefs, PCInv, DataInv, StreamTypes
        <5> QED BY <4>1, <5>1 DEF RefOK, SameRefs
      <4> QED BY <4>2, <4>3
    <3> QED BY <3>1 DEF RefInv
  <2>22. ASSUME NEW r \in Requests, FinishTask(r) PROVE RefInv'
    BY <2>22, RunKeepsRefs DEF FinishTask, tensor, Released, Finished
  <2>23. ASSUME NEW r \in Requests, NotifyIdle(r) PROVE RefInv'
    BY <2>23, RunKeepsRefs DEF NotifyIdle, tensor, Released, Finished
  <2>24. ASSUME NEW r \in Requests, Signal(r) PROVE RefInv'
    BY <2>24, RunKeepsRefs DEF Signal, tensor, Released, Finished
  <2>25. CASE UNCHANGED <<call, run, retaining, refs, allocated, freed>>
    BY <2>25 DEF RefInv, RefOK
  <2> QED
    BY ZenonT(60), <2>1, <2>2, <2>3, <2>4, <2>5, <2>6, <2>7, <2>8, <2>9, <2>10, <2>11, <2>12, <2>13,
       <2>14, <2>15, <2>16, <2>17, <2>18, <2>19, <2>20, <2>21, <2>22, <2>23, <2>24,
       <2>25
    DEF Next, CallStep, RunStep, FlushStep, StopStep, vars, BeginFlush, FlushRetest,
        SpuriousFlushWakeup, FlushSynchronizes, FlushSucceeds, FlushFails, Execute,
        StopAndWait, StopRetest, SpuriousStopWakeup, ReleaseResources,
        ShutdownSynchronizes, AbandonResources, ShutdownSynced, DestroyPool,
        DestroyStream, TestIdle, admission, laneState, work, tensor, stream, teardown,
        FlushTo, BeginSync, Synced, EndFlush, EndSync, flushing, TestDrained, StopTo
<1> QED BY <1>1, <1>2, PCInductive, DataInductive, StreamInductive, PTL DEF Spec, SafetySpec

-----------------------------------------------------------------------------
(* Stream order: nobody moves data before the stream has allocated the tensor *)

Ready == {"acquire", "asleep"} \cup InUse

\* A thread waits for a point behind its tensor's allocation, and moves data after it.
ReadyOK(r) ==
  /\ run[r] = "sync" => allocated[r] <= target[r]
  /\ run[r] \in Ready => allocated[r] <= executed

ReadyInv == \A r \in Uploads : ReadyOK(r)

\* A step that does not pass the dependency stream keeps the order.
LEMMA RunKeepsReady ==
  ASSUME PCInv, ReadyInv, NEW r \in Requests, NEW from, NEW to, Step(r, from, to),
         to # "sync", to \in Ready => from \in Ready,
         UNCHANGED <<allocated, executed, target>>
  PROVE  ReadyInv'
<1>1. ASSUME NEW q \in Uploads PROVE ReadyOK(q)'
  <2>1. ReadyOK(q)
    BY DEF ReadyInv
  <2>2. run'[q] = run[q] \/ (run[q] = from /\ run'[q] = to)
    BY DEF Step, PCInv, Requests
  <2> QED BY <2>1, <2>2 DEF ReadyOK
<1> QED BY <1>1 DEF ReadyInv

\* stream_query and stream_synchronize order the copy after the allocation.
LEMMA ReadyInductive == Spec => []ReadyInv
<1>1. Init => ReadyInv
  BY DEF Init, ReadyInv, ReadyOK, Ready, InUse, Requests
<1>2. PCInv /\ StreamTypes /\ ReadyInv /\ [Next]_vars => ReadyInv'
  <2> SUFFICES ASSUME PCInv, StreamTypes, ReadyInv, [Next]_vars PROVE ReadyInv'
    OBVIOUS
  <2>1. CASE Execute
    <3>1. executed' = executed + 1 /\ executed \in Nat /\ UNCHANGED <<allocated, target, run>>
      BY <2>1 DEF Execute, tensor, StreamTypes
    <3>2. ASSUME NEW q \in Uploads PROVE ReadyOK(q)'
      <4>1. ReadyOK(q) /\ allocated[q] \in Nat
        BY DEF ReadyInv, Requests, StreamTypes
      <4> QED BY <3>1, <4>1 DEF ReadyOK
    <3> QED BY <3>2 DEF ReadyInv
  <2>2. ASSUME NEW r \in Requests, BuildTask(r) PROVE ReadyInv'
    <3>1. UNCHANGED <<executed, target, run>> /\ run[r] = "none"
      BY <2>2 DEF BuildTask, PCInv
    <3>2. \A q \in Requests \ {r} : allocated'[q] = allocated[q]
      BY <2>2 DEF BuildTask, StreamTypes
    <3>3. ASSUME NEW q \in Uploads PROVE ReadyOK(q)'
      <4>1. ReadyOK(q) /\ q \in Requests
        BY DEF ReadyInv, Requests
      <4> QED BY <3>1, <3>2, <4>1 DEF ReadyOK, Ready, InUse
    <3> QED BY <3>3 DEF ReadyInv
  <2>3. ASSUME NEW r \in Requests, SchedulerAccepts(r) PROVE ReadyInv'
    <3>1. UNCHANGED <<executed, allocated, target>> /\ run' = [run EXCEPT ![r] = "queued"]
      BY <2>3 DEF SchedulerAccepts, tensor, stream
    <3>2. ASSUME NEW q \in Uploads PROVE ReadyOK(q)'
      <4>1. ReadyOK(q) /\ (run'[q] = run[q] \/ run'[q] = "queued")
        BY <3>1 DEF ReadyInv, Requests, PCInv
      <4> QED BY <3>1, <4>1 DEF ReadyOK, Ready, InUse
    <3> QED BY <3>2 DEF ReadyInv
  <2>4. ASSUME NEW r \in Requests, StartCopy(r) PROVE ReadyInv'
    <3>1. UNCHANGED <<executed, allocated>>
      BY <2>4 DEF StartCopy, tensor, stream, BeginSync
    <3>2. allocated[r] \in 0 .. issued /\ executed \in 0 .. issued
      BY DEF StreamTypes
    <3>3. ASSUME NEW q \in Uploads PROVE ReadyOK(q)'
      <4>1. ReadyOK(q) /\ q \in Requests
        BY DEF ReadyInv, Requests
      <4>2. CASE q # r
        <5>1. run'[q] = run[q] /\ target'[q] = target[q]
          BY <2>4, <4>1, <4>2 DEF StartCopy, Step, BeginSync, stream, PCInv, StreamTypes
        <5> QED BY <3>1, <4>1, <5>1 DEF ReadyOK
      <4>3. CASE q = r
        <5>1. CASE run'[q] = "prepare"
          BY <5>1 DEF ReadyOK, Ready, InUse
        <5>2. CASE run'[q] = "acquire"
          <6>1. executed = issued
            BY <2>4, <4>1, <4>3, <5>2 DEF StartCopy, Step, PCInv
          <6>2. allocated'[q] <= executed'
            BY <3>1, <3>2, <4>3, <6>1
          <6> QED BY <5>2, <6>2 DEF ReadyOK
        <5>3. CASE run'[q] = "sync"
          <6>1. target' = [target EXCEPT ![r] = issued]
            BY <2>4, <4>1, <4>3, <5>3 DEF StartCopy, Step, BeginSync, PCInv
          <6>2. target'[q] = issued
            BY <4>1, <4>3, <6>1 DEF StreamTypes
          <6>3. allocated'[q] <= target'[q]
            BY <3>1, <3>2, <4>3, <6>2
          <6> QED BY <5>3, <6>3 DEF ReadyOK, Ready, InUse
        <5> QED BY <2>4, <4>1, <4>3, <5>1, <5>2, <5>3 DEF StartCopy, Step, PCInv
      <4> QED BY <4>2, <4>3
    <3> QED BY <3>3 DEF ReadyInv
  <2>5. ASSUME NEW r \in Requests, DependencySynced(r) PROVE ReadyInv'
    <3>1. UNCHANGED <<executed, allocated>> /\ executed \in Nat /\ target[r] \in Nat
          /\ allocated[r] \in Nat
      BY <2>5 DEF DependencySynced, tensor, EndSync, StreamTypes
    <3>2. ASSUME NEW q \in Uploads PROVE ReadyOK(q)'
      <4>1. ReadyOK(q) /\ q \in Requests
        BY DEF ReadyInv, Requests
      <4>2. CASE q # r
        <5>1. run'[q] = run[q] /\ target'[q] = target[q]
          BY <2>5, <4>1, <4>2 DEF DependencySynced, Step, EndSync, PCInv, StreamTypes
        <5> QED BY <3>1, <4>1, <5>1 DEF ReadyOK
      <4>3. CASE q = r
        <5>1. run[q] = "sync" /\ (run'[q] = "prepare" \/ (run'[q] = "acquire" /\ executed >= target[q]))
          BY <2>5, <4>1, <4>3 DEF DependencySynced, Step, Synced, PCInv
        <5>2. allocated[q] <= target[q]
          BY <4>1, <5>1 DEF ReadyOK
        <5>3. CASE run'[q] = "prepare"
          BY <5>3 DEF ReadyOK, Ready, InUse
        <5>4. CASE run'[q] = "acquire" /\ executed >= target[q]
          <6>1. allocated'[q] <= executed'
            BY <3>1, <4>3, <5>2, <5>4
          <6> QED BY <5>4, <6>1 DEF ReadyOK
        <5> QED BY <5>1, <5>3, <5>4
      <4> QED BY <4>2, <4>3
    <3> QED BY <3>2 DEF ReadyInv
  <2>6. ASSUME NEW r \in Requests, AcquireLane(r) PROVE ReadyInv'
    BY <2>6, RunKeepsReady DEF AcquireLane, tensor, stream, Ready, InUse
  <2>7. ASSUME NEW r \in Requests, SpuriousLaneWakeup(r) PROVE ReadyInv'
    BY <2>7, RunKeepsReady DEF SpuriousLaneWakeup, tensor, stream, Ready, InUse
  <2>8. ASSUME NEW r \in Requests, FillStaging(r) PROVE ReadyInv'
    BY <2>8, RunKeepsReady DEF FillStaging, tensor, stream, Ready, InUse
  <2>9. ASSUME NEW r \in Requests, DrainStaging(r) PROVE ReadyInv'
    BY <2>9, RunKeepsReady DEF DrainStaging, tensor, stream, Ready, InUse
  <2>10. ASSUME NEW r \in Requests, ChunkFails(r) PROVE ReadyInv'
    BY <2>10, RunKeepsReady DEF ChunkFails, DeviceHalf, tensor, stream, Ready, InUse
  <2>11. ASSUME NEW r \in Requests, ReleaseLane(r) PROVE ReadyInv'
    BY <2>11, RunKeepsReady DEF ReleaseLane, tensor, stream, Ready, InUse
  <2>12. ASSUME NEW r \in Requests, NotifyLane(r) PROVE ReadyInv'
    <3>1. UNCHANGED <<executed, allocated, target>>
      BY <2>12 DEF NotifyLane, tensor, stream
    <3>2. ASSUME NEW q \in Requests
          PROVE  \/ run'[q] = run[q]
                 \/ run[q] = "asleep" /\ run'[q] = "acquire"
                 \/ run[q] = "notify lane" /\ run'[q] = "prepare"
      BY <2>12 DEF NotifyLane, LaneSleepers, PCInv
    <3>3. ASSUME NEW q \in Uploads PROVE ReadyOK(q)'
      <4>1. ReadyOK(q) /\ q \in Requests
        BY DEF ReadyInv, Requests
      <4> QED BY <3>1, <3>2, <4>1 DEF ReadyOK, Ready, InUse
    <3> QED BY <3>3 DEF ReadyInv
  <2>13. ASSUME NEW r \in Requests, PrepareToSignal(r) PROVE ReadyInv'
    BY <2>13, RunKeepsReady DEF PrepareToSignal, stream, Ready, InUse
  <2>14. ASSUME NEW r \in Requests, ReleaseRetained(r) PROVE ReadyInv'
    BY <2>14, RunKeepsReady DEF ReleaseRetained, DropTensor, Ready, InUse
  <2>15. ASSUME NEW r \in Requests, FinishTask(r) PROVE ReadyInv'
    BY <2>15, RunKeepsReady DEF FinishTask, tensor, stream, Ready, InUse
  <2>16. ASSUME NEW r \in Requests, NotifyIdle(r) PROVE ReadyInv'
    BY <2>16, RunKeepsReady DEF NotifyIdle, tensor, stream, Ready, InUse
  <2>17. ASSUME NEW r \in Requests, Signal(r) PROVE ReadyInv'
    BY <2>17, RunKeepsReady DEF Signal, tensor, stream, Ready, InUse
  <2>18. ASSUME NEW f \in Flushers, FlushSynchronizes(f) PROVE ReadyInv'
    <3>1. UNCHANGED <<executed, allocated, run>>
      BY <2>18 DEF FlushSynchronizes, BeginSync, tensor
    <3>2. \A q \in Requests : target'[q] = target[q]
      BY <2>18, ThreadsAssumption DEF FlushSynchronizes, BeginSync, StreamTypes
    <3> QED BY <3>1, <3>2 DEF ReadyInv, ReadyOK, Requests
  <2>19. ASSUME NEW f \in Flushers, FlushSucceeds(f) PROVE ReadyInv'
    <3>1. UNCHANGED <<executed, allocated, run>>
      BY <2>19 DEF FlushSucceeds, EndFlush, EndSync, tensor
    <3>2. \A q \in Requests : target'[q] = target[q]
      BY <2>19, ThreadsAssumption DEF FlushSucceeds, EndFlush, EndSync, StreamTypes
    <3> QED BY <3>1, <3>2 DEF ReadyInv, ReadyOK, Requests
  <2>20. ASSUME NEW f \in Flushers, FlushFails(f) PROVE ReadyInv'
    <3>1. UNCHANGED <<executed, allocated, run>>
      BY <2>20 DEF FlushFails, EndFlush, EndSync, tensor
    <3>2. \A q \in Requests : target'[q] = target[q]
      BY <2>20, ThreadsAssumption DEF FlushFails, EndFlush, EndSync, StreamTypes
    <3> QED BY <3>1, <3>2 DEF ReadyInv, ReadyOK, Requests
  <2>21. CASE ShutdownSynchronizes
    <3>1. UNCHANGED <<executed, allocated, run>>
      BY <2>21 DEF ShutdownSynchronizes, BeginSync, tensor
    <3>2. \A q \in Requests : target'[q] = target[q]
      BY <2>21, ThreadsAssumption DEF ShutdownSynchronizes, BeginSync, StreamTypes
    <3> QED BY <3>1, <3>2 DEF ReadyInv, ReadyOK, Requests
  <2>22. CASE UNCHANGED <<run, allocated, executed, target>>
    BY <2>22 DEF ReadyInv, ReadyOK
  <2> QED
    BY ZenonT(60), <2>1, <2>2, <2>3, <2>4, <2>5, <2>6, <2>7, <2>8, <2>9, <2>10, <2>11, <2>12, <2>13,
       <2>14, <2>15, <2>16, <2>17, <2>18, <2>19, <2>20, <2>21, <2>22
    DEF Next, CallStep, RunStep, FlushStep, StopStep, vars, CannotBuild, Admit,
        SchedulerRefuses, UndoAdmission, UndoNotify, Fail, Retain, UserDrops,
        BeginFlush, FlushRetest, SpuriousFlushWakeup, StopAndWait, StopRetest,
        SpuriousStopWakeup, ReleaseResources, AbandonResources, ShutdownSynced,
        DestroyPool, DestroyStream, Goto, admission, laneState, work, tensor, stream,
        flushing, teardown, TaskFinished, WakeIdle, DropTensor, TestIdle, FlushTo,
        TestDrained, StopTo, Synced
<1> QED BY <1>1, <1>2, PCInductive, StreamInductive, PTL DEF Spec, SafetySpec

\* A thread that uses a lane finds its lane and its tensor in place.
THEOREM NothingUsedAfterFree == Spec => []NoUseAfterFree
<1>1. PCInv /\ PartInv /\ StreamTypes /\ RefInv /\ ReadyInv => NoUseAfterFree
  <2> SUFFICES ASSUME PCInv, PartInv, StreamTypes, RefInv, ReadyInv,
                      NEW r \in Requests, run[r] \in InUse
               PROVE  /\ lane[r] \subseteq lanes
                      /\ r \in Uploads => /\ refs[r] # {} /\ freed[r] = 0
                                          /\ allocated[r] \in 1 .. executed
    BY DEF NoUseAfterFree
  <2>1. lane[r] \subseteq lanes
    BY DEF PartInv, LanesPartitioned, UsersHoldOne
  <2>2. ASSUME r \in Uploads
        PROVE  refs[r] # {} /\ freed[r] = 0 /\ allocated[r] \in 1 .. executed
    <3>1. RefOK(r) /\ ReadyOK(r)
      BY <2>2 DEF RefInv, ReadyInv
    <3>2. call[r] \in {"retain", "returned"} /\ run[r] \notin Released
      BY DEF PCInv, InUse, Released, Finished
    <3>3. refs[r] # {} /\ freed[r] = 0 /\ allocated[r] # 0
      BY <2>2, <3>1, <3>2 DEF RefOK, InCall
    <3>4. allocated[r] <= executed /\ allocated[r] \in Nat /\ executed \in Nat
      BY <3>1 DEF ReadyOK, Ready, StreamTypes
    <3> QED BY <3>3, <3>4
  <2> QED BY <2>1, <2>2
<1> QED BY <1>1, PCInductive, PartInductive, StreamInductive, RefInductive, ReadyInductive, PTL

-----------------------------------------------------------------------------
(* The end of shutdown: the device is quiet and its stream has run out *)

Over == {"idle", "returned", "failed"}

\* Shutdown begins when the user has let go of the device, and the user stays away.
CallersGone ==
  stop # "up" => \A r \in Uploads : call[r] \in Over /\ "caller" \notin refs[r]

\* A call that is under way takes a step only while the device is up.
LEMMA CallKeepsGone ==
  ASSUME PCInv, CallersGone, NEW r \in Requests, NEW there, Goto(r, there),
         call[r] \notin Over, UNCHANGED refs, stop = "up" => stop' = "up"
  PROVE  CallersGone'
<1>1. ASSUME stop' # "up", NEW q \in Uploads
      PROVE  call'[q] \in Over /\ "caller" \notin refs'[q]
  <2>1. call[q] \in Over /\ "caller" \notin refs[q]
    BY <1>1 DEF CallersGone
  <2>2. q # r /\ call'[q] = call[q]
    BY <2>1 DEF Goto, PCInv, Requests
  <2> QED BY <2>1, <2>2
<1> QED BY <1>1 DEF CallersGone

\* A reference that goes, or moves to the worker, is not the caller's coming back.
LEMMA FewerRefsKeepGone ==
  ASSUME CallersGone, UNCHANGED <<call, stop>>,
         \A q \in Requests : "caller" \in refs'[q] => "caller" \in refs[q]
  PROVE  CallersGone'
BY DEF CallersGone, Requests

\* Nothing of the user's comes back once shutdown has begun.
LEMMA GoneInductive == Spec => []CallersGone
<1>1. Init => CallersGone
  BY DEF Init, CallersGone
<1>2. PCInv /\ DataInv /\ CallersGone /\ [Next]_vars => CallersGone'
  <2> SUFFICES ASSUME PCInv, DataInv, CallersGone, [Next]_vars PROVE CallersGone'
    OBVIOUS
  <2>1. ASSUME NEW r \in Requests, BuildTask(r) PROVE CallersGone'
    BY <2>1 DEF BuildTask, teardown, CallersGone
  <2>2. ASSUME NEW r \in Requests, CannotBuild(r) PROVE CallersGone'
    BY <2>2, CallKeepsGone DEF CannotBuild, Over, tensor, teardown
  <2>3. ASSUME NEW r \in Requests, Admit(r) PROVE CallersGone'
    BY <2>3, CallKeepsGone DEF Admit, Over, tensor, teardown
  <2>4. ASSUME NEW r \in Requests, SchedulerAccepts(r) PROVE CallersGone'
    BY <2>4, CallKeepsGone DEF SchedulerAccepts, Over, tensor, teardown
  <2>5. ASSUME NEW r \in Requests, SchedulerRefuses(r) PROVE CallersGone'
    BY <2>5, CallKeepsGone DEF SchedulerRefuses, Over, tensor, teardown
  <2>6. ASSUME NEW r \in Requests, UndoAdmission(r) PROVE CallersGone'
    BY <2>6, CallKeepsGone DEF UndoAdmission, Over, tensor, teardown
  <2>7. ASSUME NEW r \in Requests, UndoNotify(r) PROVE CallersGone'
    BY <2>7, CallKeepsGone DEF UndoNotify, WakeIdle, Over, tensor
  <2>8. ASSUME NEW r \in Requests, Fail(r) PROVE CallersGone'
    <3>1. CASE r \in Uploads
      BY <2>8, <3>1 DEF Fail, teardown, CallersGone, Over
    <3>2. CASE r \notin Uploads
      <4>1. ASSUME NEW q \in Uploads PROVE call'[q] = call[q] /\ refs'[q] = refs[q]
        BY <2>8, <3>2 DEF Fail, Goto, DropTensor, PCInv, DataInv, Requests
      <4> QED BY <2>8, <4>1 DEF Fail, teardown, CallersGone
    <3> QED BY <3>1, <3>2
  <2>9. ASSUME NEW r \in Requests, Retain(r) PROVE CallersGone'
    <3>1. CASE r \in Uploads
      BY <2>9, <3>1 DEF Retain, teardown, CallersGone, Over
    <3>2. CASE r \notin Uploads
      <4>1. ASSUME NEW q \in Uploads PROVE call'[q] = call[q] /\ refs'[q] = refs[q]
        BY <2>9, <3>2 DEF Retain, Goto, PCInv, DataInv, Requests
      <4> QED BY <2>9, <4>1 DEF Retain, teardown, CallersGone
    <3> QED BY <3>1, <3>2
  <2>10. ASSUME NEW r \in Requests, UserDrops(r) PROVE CallersGone'
    BY <2>10, FewerRefsKeepGone DEF UserDrops, DropTensor, DataInv, teardown
  <2>11. ASSUME NEW r \in Requests, PrepareToSignal(r) PROVE CallersGone'
    BY <2>11, FewerRefsKeepGone DEF PrepareToSignal, DataInv, teardown
  <2>12. ASSUME NEW r \in Requests, ReleaseRetained(r) PROVE CallersGone'
    BY <2>12, FewerRefsKeepGone DEF ReleaseRetained, DropTensor, DataInv, teardown
  <2>13. ASSUME NEW r \in Requests, NotifyIdle(r) PROVE CallersGone'
    BY <2>13 DEF NotifyIdle, WakeIdle, tensor, CallersGone
  <2>14. CASE StopAndWait
    BY <2>14 DEF StopAndWait, Over, tensor, CallersGone
  <2>15. CASE StopStep \/ SpuriousStopWakeup
    <3>1. stop # "up" /\ UNCHANGED <<call, refs>>
      BY <2>15 DEF StopStep, StopRetest, SpuriousStopWakeup, ReleaseResources,
         ShutdownSynchronizes, AbandonResources, ShutdownSynced, DestroyPool,
         DestroyStream, tensor
    <3> QED BY <3>1 DEF CallersGone
  <2>16. CASE UNCHANGED <<call, refs, stop>>
    BY <2>16 DEF CallersGone
  <2> QED
    BY ZenonT(60), <2>1, <2>2, <2>3, <2>4, <2>5, <2>6, <2>7, <2>8, <2>9, <2>10, <2>11, <2>12,
       <2>13, <2>14, <2>15, <2>16
    DEF Next, CallStep, RunStep, FlushStep, vars, StartCopy, DependencySynced,
        AcquireLane, SpuriousLaneWakeup, FillStaging, DrainStaging, ChunkFails,
        ReleaseLane, NotifyLane, FinishTask, Signal, BeginFlush, FlushRetest,
        SpuriousFlushWakeup, FlushSynchronizes, FlushSucceeds, FlushFails,
        Execute, Step, Outcome, NextChunk, DeviceHalf, LaneSleepers,
        TaskFinished, TestIdle, FlushTo, EndFlush, BeginSync, Synced, EndSync,
        admission, laneState, work, tensor, stream, flushing, teardown
<1> QED BY <1>1, <1>2, PCInductive, DataInductive, PTL DEF Spec, SafetySpec

\* The part of shutdown that follows stopAndWait.
Past == StopStates \ {"up", "asleep", "test"}

\* Once shutdown has drained, nobody refers to any tensor.
LEMMA Quiet ==
  ASSUME PCInv, DataInv, TaskAccounting, StopInv, RefInv, CallersGone, stop \in Past
  PROVE  Counted = {} /\ \A r \in Requests : refs[r] = {}
<1>1. Counted = {}
  BY CountIsNatural DEF StopInv, Past
<1>2. ASSUME NEW r \in Requests PROVE refs[r] = {}
  <2>1. RefOK(r)
    BY DEF RefInv
  <2>2. run[r] \in {"none"} \cup Finished
    BY <1>1 DEF Counted
  <2>3. ASSUME r \in Uploads PROVE refs[r] = {}
    <3>1. "caller" \notin refs[r]
      BY <2>3 DEF CallersGone, Past
    <3>2. "worker" \notin refs[r]
      BY <2>1, <2>2 DEF RefOK, Finished
    <3>3. "completion" \notin refs[r]
      BY <2>1, <2>2 DEF RefOK, PCInv, Released, Finished
    <3> QED BY <3>1, <3>2, <3>3 DEF DataInv
  <2> QED BY <2>1, <2>3 DEF RefOK
<1> QED BY <1>1, <1>2

\* From then on nothing is enqueued on the default stream.
LEMMA StreamFrozen ==
  ASSUME \A r \in Requests : refs[r] = {}, stop # "up", [Next]_vars
  PROVE  issued' = issued
<1>1. \A r \in Requests : \A holder : DropTensor(r, holder) => issued' = issued
  BY DEF DropTensor
<1>2. \A r \in Requests : ~BuildTask(r)
  BY DEF BuildTask
<1> QED
  BY ZenonT(60), <1>1, <1>2
  DEF Next, CallStep, RunStep, FlushStep, StopStep, vars, CannotBuild, Admit,
      SchedulerAccepts, SchedulerRefuses, UndoAdmission, UndoNotify, Fail,
      Retain, UserDrops, StartCopy, DependencySynced, AcquireLane,
      SpuriousLaneWakeup, FillStaging, DrainStaging, ChunkFails, ReleaseLane,
      NotifyLane, PrepareToSignal, ReleaseRetained, FinishTask, NotifyIdle,
      Signal, BeginFlush, FlushRetest, SpuriousFlushWakeup, FlushSynchronizes,
      FlushSucceeds, FlushFails, Execute, StopAndWait, StopRetest,
      SpuriousStopWakeup, ReleaseResources, ShutdownSynchronizes,
      AbandonResources, ShutdownSynced, DestroyPool, DestroyStream, Goto,
      Step, Outcome, NextChunk, DeviceHalf, LaneSleepers, TaskFinished,
      WakeIdle, TestIdle, FlushTo, EndFlush, BeginSync, Synced, EndSync,
      TestDrained, StopTo, admission, laneState, work, tensor, stream,
      flushing, teardown

\* The thread that shuts down is the only one to move its synchronization point.
LEMMA StopTarget ==
  ASSUME StreamTypes, [Next]_vars, ~ShutdownSynchronizes PROVE target'[Stop] = target[Stop]
<1>1. \A x \in Requests \cup Flushers : BeginSync(x) \/ EndSync(x) => target'[Stop] = target[Stop]
  BY ThreadsAssumption DEF BeginSync, EndSync, StreamTypes
<1>2. \A r \in Requests : \A holder : DropTensor(r, holder) => target' = target
  BY DEF DropTensor
<1>3. \A f \in Flushers : EndFlush(f) \/ FlushSynchronizes(f) => target'[Stop] = target[Stop]
  BY <1>1 DEF EndFlush, FlushSynchronizes
<1>4. \A r \in Requests : StartCopy(r) \/ DependencySynced(r) => target'[Stop] = target[Stop]
  BY <1>1 DEF StartCopy, DependencySynced, stream
<1> QED
  BY ZenonT(60), <1>1, <1>2, <1>3, <1>4
  DEF Next, CallStep, RunStep, FlushStep, StopStep, vars, BuildTask,
      CannotBuild, Admit, SchedulerAccepts, SchedulerRefuses, UndoAdmission,
      UndoNotify, Fail, Retain, UserDrops, AcquireLane, SpuriousLaneWakeup,
      FillStaging, DrainStaging, ChunkFails, ReleaseLane, NotifyLane,
      PrepareToSignal, ReleaseRetained, FinishTask, NotifyIdle, Signal,
      BeginFlush, FlushRetest, SpuriousFlushWakeup, FlushSucceeds, FlushFails,
      Execute, StopAndWait, StopRetest, SpuriousStopWakeup, ReleaseResources,
      AbandonResources, ShutdownSynced, DestroyPool, DestroyStream, Goto,
      Step, Outcome, NextChunk, DeviceHalf, LaneSleepers, TaskFinished,
      WakeIdle, TestIdle, FlushTo, Synced, TestDrained, StopTo, admission,
      laneState, work, tensor, stream, flushing, teardown

\* Shutdown synchronizes with all there is, and destroys the pool after that.
EndInv ==
  /\ stop = "syncing" => target[Stop] = issued
  /\ stop \in {"pool", "stream"} => executed = issued
  /\ pool = "destroyed" => stop \in {"stream", "down"} /\ executed = issued

\* The last synchronization covers all there is, as nothing is enqueued after the drain.
LEMMA EndInductive == Spec => []EndInv
<1>1. Init => EndInv
  BY DEF Init, EndInv
<1> DEFINE Known == PCInv /\ DataInv /\ TaskAccounting /\ StopInv /\ StreamTypes /\ RefInv
                   /\ CallersGone
<1>2. Known /\ EndInv /\ [Next]_vars => EndInv'
  <2> SUFFICES ASSUME Known, EndInv, [Next]_vars PROVE EndInv'
    OBVIOUS
  <2>1. stop \in Past => issued' = issued
    BY Quiet, StreamFrozen DEF Past
  <2>2. executed \in Nat /\ issued \in Nat /\ executed <= issued
    BY DEF StreamTypes
  <2>3. CASE Execute
    <3>1. executed < issued /\ UNCHANGED <<issued, target, stop, pool>>
      BY <2>3 DEF Execute, teardown
    <3>2. executed # issued
      BY <2>2, <3>1
    <3> QED BY <3>1, <3>2 DEF EndInv
  <2>4. CASE StopStep
    <3>1. UNCHANGED executed
      BY <2>4 DEF StopStep, StopRetest, ReleaseResources, ShutdownSynchronizes, AbandonResources,
         ShutdownSynced, DestroyPool, DestroyStream, stream, BeginSync
    <3>2. CASE StopRetest
      BY <3>2 DEF StopRetest, TestDrained, StopTo, EndInv
    <3>3. CASE ReleaseResources
      BY <3>3 DEF ReleaseResources, StopTo, EndInv
    <3>4. CASE ShutdownSynchronizes
      BY <3>4 DEF ShutdownSynchronizes, StopTo, BeginSync, EndInv, StreamTypes
    <3>5. CASE AbandonResources
      BY <3>5 DEF AbandonResources, StopTo, EndInv
    <3>6. CASE ShutdownSynced
      <4>1. executed = issued
        BY <2>2, <3>6 DEF ShutdownSynced, Synced, EndInv
      <4> QED BY <3>6, <4>1 DEF ShutdownSynced, StopTo, stream, EndInv
    <3>7. CASE DestroyPool
      BY <3>7 DEF DestroyPool, StopTo, stream, EndInv
    <3>8. CASE DestroyStream
      BY <3>8 DEF DestroyStream, StopTo, stream, EndInv
    <3> QED BY <2>4, <3>2, <3>3, <3>4, <3>5, <3>6, <3>7, <3>8 DEF StopStep
  <2>5. CASE stop' \in {"up", "asleep", "test", "release"} /\ pool' = pool
             /\ stop \in {"up", "asleep", "test"}
    BY <2>5 DEF EndInv
  <2>6. CASE UNCHANGED <<executed, stop, pool>> /\ target'[Stop] = target[Stop]
    BY <2>1, <2>6 DEF EndInv, Past, StopStates
  <2>7. ASSUME ~Execute, ~StopStep PROVE executed' = executed /\ target'[Stop] = target[Stop]
    <3>1. target'[Stop] = target[Stop]
      BY <2>7, StopTarget DEF StopStep
    <3> QED
      BY ZenonT(60), <2>7, <3>1
      DEF Next, CallStep, RunStep, FlushStep, vars, BuildTask, CannotBuild, Admit,
          SchedulerAccepts, SchedulerRefuses, UndoAdmission, UndoNotify, Fail,
          Retain, UserDrops, StartCopy, DependencySynced, AcquireLane,
          SpuriousLaneWakeup, FillStaging, DrainStaging, ChunkFails, ReleaseLane,
          NotifyLane, PrepareToSignal, ReleaseRetained, FinishTask, NotifyIdle,
          Signal, BeginFlush, FlushRetest, SpuriousFlushWakeup, FlushSynchronizes,
          FlushSucceeds, FlushFails, StopAndWait, SpuriousStopWakeup, Goto, Step,
          Outcome, NextChunk, DeviceHalf, LaneSleepers, TaskFinished, WakeIdle,
          DropTensor, TestIdle, FlushTo, EndFlush, BeginSync, Synced, EndSync,
          TestDrained, StopTo, admission, laneState, work, tensor, stream,
          flushing, teardown
  <2>8. ASSUME ~Execute, ~StopStep
        PROVE  pool' = pool /\ \/ stop' = stop
                               \/ /\ stop' \in {"up", "asleep", "test", "release"}
                                  /\ stop \in {"up", "asleep", "test"}
    BY ZenonT(60), <2>8
    DEF Next, CallStep, RunStep, FlushStep, vars, BuildTask, CannotBuild, Admit,
        SchedulerAccepts, SchedulerRefuses, UndoAdmission, UndoNotify, Fail,
        Retain, UserDrops, StartCopy, DependencySynced, AcquireLane,
        SpuriousLaneWakeup, FillStaging, DrainStaging, ChunkFails, ReleaseLane,
        NotifyLane, PrepareToSignal, ReleaseRetained, FinishTask, NotifyIdle,
        Signal, BeginFlush, FlushRetest, SpuriousFlushWakeup, FlushSynchronizes,
        FlushSucceeds, FlushFails, StopAndWait, SpuriousStopWakeup, Goto, Step,
        Outcome, NextChunk, DeviceHalf, LaneSleepers, TaskFinished, WakeIdle,
        DropTensor, TestIdle, FlushTo, EndFlush, BeginSync, Synced, EndSync,
        TestDrained, StopTo, admission, laneState, work, tensor, stream,
        flushing, teardown
  <2> QED BY <2>3, <2>4, <2>5, <2>6, <2>7, <2>8
<1> QED BY <1>1, <1>2, PCInductive, DataInductive, ActiveTasksCounted, StopInductive,
           StreamInductive, RefInductive, GoneInductive, PTL DEF Spec, SafetySpec

\* Lanes, pool and stream go when nothing that needs them is left: whatever the
\* interleaving of submit, runTask and shutdown, however many requests there are.
THEOREM TeardownIsSafe == Spec => []SafeTeardown
<1>1. PCInv /\ DataInv /\ TaskAccounting /\ StopInv /\ StreamTypes /\ RefInv /\ CallersGone
      /\ EndInv => SafeTeardown
  <2> SUFFICES ASSUME PCInv, DataInv, TaskAccounting, StopInv, StreamTypes, RefInv, CallersGone,
                      EndInv
               PROVE  SafeTeardown
    OBVIOUS
  <2>1. stop \in Past => ~accepting /\ Counted = {} /\ \A r \in Requests : refs[r] = {}
    BY Quiet DEF StopInv, Past
  <2>2. ASSUME pool = "destroyed"
        PROVE  executed = issued /\ stop \in Past
    BY <2>2 DEF EndInv, Past, StopStates
  <2>3. ASSUME NEW r \in Uploads, refs[r] = {}, allocated[r] # 0 PROVE freed[r] # 0
    BY <2>3 DEF RefInv, RefOK, Requests
  <2>4. stop \notin {"up", "asleep", "test"} => stop \in Past
    BY DEF DataInv, Past
  <2> QED BY <2>1, <2>2, <2>3, <2>4 DEF SafeTeardown, Requests
<1> QED BY <1>1, PCInductive, DataInductive, ActiveTasksCounted, StopInductive,
           StreamInductive, RefInductive, GoneInductive, EndInductive, PTL

-----------------------------------------------------------------------------
(* Flush *)

\* What has come to its end for a request whose call has returned does not come back.
LEMMA Settled ==
  ASSUME PCInv, DataInv, StreamTypes, RefInv, [Next]_vars,
         NEW r \in Requests, call[r] = "returned"
  PROVE  /\ call'[r] = "returned"
         /\ run[r] \in Finished => run'[r] \in Finished
         /\ "caller" \notin refs[r] => "caller" \notin refs'[r]
         /\ refs[r] = {} => refs'[r] = {} /\ freed'[r] = freed[r]
<1>1. call'[r] = "returned"
  <2>1. ASSUME NEW q \in Requests, NEW there, Goto(q, there), call[q] # "returned"
        PROVE  call'[r] = call[r]
    BY <2>1 DEF Goto, PCInv
  <2> QED
    BY ZenonT(60), <2>1
    DEF Next, CallStep, RunStep, FlushStep, StopStep, vars, BuildTask, CannotBuild,
        Admit, SchedulerAccepts, SchedulerRefuses, UndoAdmission, UndoNotify, Fail,
        Retain, UserDrops, StartCopy, DependencySynced, AcquireLane,
        SpuriousLaneWakeup, FillStaging, DrainStaging, ChunkFails, ReleaseLane,
        NotifyLane, PrepareToSignal, ReleaseRetained, FinishTask, NotifyIdle, Signal,
        BeginFlush, FlushRetest, SpuriousFlushWakeup, FlushSynchronizes,
        FlushSucceeds, FlushFails, Execute, StopAndWait, StopRetest,
        SpuriousStopWakeup, ReleaseResources, ShutdownSynchronizes, AbandonResources,
        ShutdownSynced, DestroyPool, DestroyStream, Step, Outcome, NextChunk,
        DeviceHalf, LaneSleepers, TaskFinished, WakeIdle, DropTensor, TestIdle,
        FlushTo, EndFlush, BeginSync, Synced, EndSync, TestDrained, StopTo, admission,
        laneState, work, tensor, stream, flushing, teardown
<1>2. ASSUME run[r] \in Finished PROVE run'[r] \in Finished
  <2>1. ASSUME NEW q \in Requests, NEW from, NEW to, Step(q, from, to),
               from \notin Finished \/ to \in Finished
        PROVE  run'[r] \in Finished
    BY <1>2, <2>1 DEF Step, PCInv
  <2>2. ASSUME NEW q \in Requests, NotifyLane(q) PROVE run'[r] = run[r]
    BY <1>2, <2>2 DEF NotifyLane, LaneSleepers, Finished, PCInv
  <2>3. ASSUME NEW q \in Requests, SchedulerAccepts(q) PROVE run'[r] = run[r]
    BY <2>3 DEF SchedulerAccepts, PCInv
  <2>4. ASSUME NEW q \in Requests, RunStep(q) PROVE run'[r] \in Finished
    <3>1. "queued" \notin Finished /\ "sync" \notin Finished /\ "acquire" \notin Finished
          /\ "first half" \notin Finished /\ "second half" \notin Finished
          /\ "release" \notin Finished /\ "prepare" \notin Finished /\ "drop" \notin Finished
          /\ "finish" \notin Finished /\ "signal" \in Finished /\ "done" \in Finished
      BY DEF Finished
    <3> QED BY <1>2, <2>1, <2>2, <2>4, <3>1 DEF RunStep, StartCopy, DependencySynced, AcquireLane,
               FillStaging, DrainStaging, ChunkFails, DeviceHalf, ReleaseLane, PrepareToSignal,
               ReleaseRetained, FinishTask, NotifyIdle, Signal
  <2>5. ASSUME NEW q \in Requests, SpuriousLaneWakeup(q) PROVE run'[r] \in Finished
    BY <2>1, <2>5 DEF SpuriousLaneWakeup, Finished
  <2> QED
    BY ZenonT(60), <1>2, <2>3, <2>4, <2>5
    DEF Next, CallStep, FlushStep, StopStep, vars, BuildTask, CannotBuild, Admit,
        SchedulerRefuses, UndoAdmission, UndoNotify, Fail, Retain, UserDrops,
        BeginFlush, FlushRetest, SpuriousFlushWakeup, FlushSynchronizes,
        FlushSucceeds, FlushFails, Execute, StopAndWait, StopRetest,
        SpuriousStopWakeup, ReleaseResources, ShutdownSynchronizes, AbandonResources,
        ShutdownSynced, DestroyPool, DestroyStream, Goto, TaskFinished, WakeIdle,
        DropTensor, TestIdle, FlushTo, EndFlush, BeginSync, Synced, EndSync,
        TestDrained, StopTo, admission, laneState, work, tensor, stream, flushing,
        teardown
<1>3. /\ "caller" \notin refs[r] => "caller" \notin refs'[r]
      /\ refs[r] = {} => refs'[r] = {} /\ freed'[r] = freed[r]
  <2>1. ASSUME NEW q \in Requests, NEW holder, DropTensor(q, holder)
        PROVE  refs'[r] \subseteq refs[r] /\ (refs[r] = {} => freed'[r] = freed[r])
    BY <2>1 DEF DropTensor, DataInv, StreamTypes
  <2>2. ASSUME NEW q \in Requests, BuildTask(q)
        PROVE  refs'[r] = refs[r] /\ freed'[r] = freed[r]
    BY <2>2 DEF BuildTask, DataInv
  <2>3. ASSUME NEW q \in Requests, Retain(q)
        PROVE  refs'[r] = refs[r] /\ freed'[r] = freed[r]
    BY <2>3 DEF Retain, DataInv
  <2>4. ASSUME NEW q \in Requests, PrepareToSignal(q)
        PROVE  /\ "caller" \notin refs[r] => "caller" \notin refs'[r]
               /\ refs[r] = {} => refs'[r] = {}
               /\ freed'[r] = freed[r]
    BY <2>4 DEF PrepareToSignal, DataInv
  <2> QED
    BY ZenonT(60), <2>1, <2>2, <2>3, <2>4
    DEF Next, CallStep, RunStep, FlushStep, StopStep, vars, CannotBuild, Admit,
        SchedulerAccepts, SchedulerRefuses, UndoAdmission, UndoNotify, Fail,
        UserDrops, StartCopy, DependencySynced, AcquireLane, SpuriousLaneWakeup,
        FillStaging, DrainStaging, ChunkFails, ReleaseLane, NotifyLane,
        ReleaseRetained, FinishTask, NotifyIdle, Signal, BeginFlush, FlushRetest,
        SpuriousFlushWakeup, FlushSynchronizes, FlushSucceeds, FlushFails, Execute,
        StopAndWait, StopRetest, SpuriousStopWakeup, ReleaseResources,
        ShutdownSynchronizes, AbandonResources, ShutdownSynced, DestroyPool,
        DestroyStream, Goto, Step, Outcome, NextChunk, DeviceHalf, LaneSleepers,
        TaskFinished, WakeIdle, TestIdle, FlushTo, EndFlush, BeginSync, Synced,
        EndSync, TestDrained, StopTo, admission, laneState, work, tensor, stream,
        flushing, teardown
<1> QED BY <1>1, <1>2, <1>3

\* The steps of the others leave a flushing thread where it is, or wake it.
LEMMA FlushUndisturbed ==
  ASSUME DataInv, StreamTypes, [Next]_vars, NEW f \in Flushers,
         ~BeginFlush(f), ~FlushStep(f), ~SpuriousFlushWakeup(f)
  PROVE  /\ before'[f] = before[f] /\ dropped'[f] = dropped[f] /\ target'[f] = target[f]
         /\ flush'[f] = flush[f] \/ (flush[f] = "asleep" /\ flush'[f] = "test")
<1>1. ASSUME NEW x \in Requests \cup (Flushers \ {f}) \cup {Stop}, BeginSync(x) \/ EndSync(x)
      PROVE  target'[f] = target[f]
  BY <1>1, ThreadsAssumption DEF BeginSync, EndSync, StreamTypes
<1>2. ASSUME NEW g \in Flushers \ {f},
             BeginFlush(g) \/ FlushStep(g) \/ SpuriousFlushWakeup(g)
      PROVE  /\ before'[f] = before[f] /\ dropped'[f] = dropped[f]
             /\ flush'[f] = flush[f] /\ target'[f] = target[f]
  <2>1. before'[f] = before[f] /\ dropped'[f] = dropped[f] /\ flush'[f] = flush[f]
    BY <1>2 DEF BeginFlush, FlushStep, SpuriousFlushWakeup, FlushRetest, FlushSynchronizes,
       FlushSucceeds, FlushFails, EndFlush, FlushTo, TestIdle, DataInv
  <2>2. target'[f] = target[f]
    BY <1>1, <1>2 DEF BeginFlush, FlushStep, SpuriousFlushWakeup, FlushRetest,
       FlushSynchronizes, FlushSucceeds, FlushFails, EndFlush, stream
  <2> QED BY <2>1, <2>2
<1>3. WakeIdle => /\ UNCHANGED <<before, dropped>>
                  /\ flush'[f] = flush[f] \/ (flush[f] = "asleep" /\ flush'[f] = "test")
  BY DEF WakeIdle, DataInv
<1>4. ASSUME NEW q \in Requests, NEW holder, DropTensor(q, holder) PROVE target' = target
  BY <1>4 DEF DropTensor
<1> QED
  BY ZenonT(60), <1>1, <1>2, <1>3, <1>4
  DEF Next, CallStep, RunStep, StopStep, vars, BuildTask, CannotBuild, Admit,
      SchedulerAccepts, SchedulerRefuses, UndoAdmission, UndoNotify, Fail, Retain,
      UserDrops, StartCopy, DependencySynced, AcquireLane, SpuriousLaneWakeup,
      FillStaging, DrainStaging, ChunkFails, ReleaseLane, NotifyLane, PrepareToSignal,
      ReleaseRetained, FinishTask, NotifyIdle, Signal, Execute, StopAndWait,
      StopRetest, SpuriousStopWakeup, ReleaseResources, ShutdownSynchronizes,
      AbandonResources, ShutdownSynced, DestroyPool, DestroyStream, Goto, Step,
      Outcome, NextChunk, DeviceHalf, LaneSleepers, TaskFinished, Synced, TestDrained,
      StopTo, admission, laneState, work, tensor, stream, flushing, teardown

\* What a flush remembers is about calls that had returned and tensors given up.
FlushOK(f) ==
  /\ \A r \in before[f] : call[r] = "returned"
  /\ \A r \in dropped[f] : r \in before[f] /\ r \in Uploads /\ "caller" \notin refs[r]
  /\ flush[f] \in {"sync", "syncing"} =>
       /\ \A r \in before[f] : run[r] \in Finished
       /\ \A r \in dropped[f] : refs[r] = {}
  /\ flush[f] = "syncing" => \A r \in dropped[f] : freed[r] \in 1 .. target[f]

FlushInv == \A f \in Flushers : FlushOK(f)

\* With no task active, whatever was handed over is finished and given up tensors are free.
LEMMA IdleMeansDone ==
  ASSUME PCInv, DataInv, RefInv, TaskAccounting, activeTasks = 0,
         NEW r \in Requests, call[r] = "returned"
  PROVE  run[r] \in Finished /\ ("caller" \notin refs[r] => refs[r] = {})
<1>1. run[r] \in Finished
  BY CountIsNatural DEF Counted, PCInv
<1>2. RefOK(r)
  BY DEF RefInv
<1>3. ASSUME "caller" \notin refs[r] PROVE refs[r] = {}
  BY <1>1, <1>2, <1>3 DEF RefOK, Released, Finished, DataInv
<1> QED BY <1>1, <1>3

\* waitIdle lets a flush go on only with no task active; by Settled what was finished
\* then stays finished.
LEMMA FlushInductive == Spec => []FlushInv
<1>1. Init => FlushInv
  BY DEF Init, FlushInv, FlushOK
<1> DEFINE Known == PCInv /\ DataInv /\ TaskAccounting /\ StreamTypes /\ RefInv
<1>2. Known /\ FlushInv /\ [Next]_vars => FlushInv'
  <2> SUFFICES ASSUME Known, FlushInv, [Next]_vars, NEW f \in Flushers PROVE FlushOK(f)'
    BY DEF FlushInv
  <2>1. FlushOK(f) /\ before[f] \subseteq Requests /\ dropped[f] \subseteq Requests
    BY DEF FlushInv, DataInv
  <2>2. ASSUME NEW r \in Requests, call[r] = "returned"
        PROVE  /\ call'[r] = "returned"
               /\ run[r] \in Finished => run'[r] \in Finished
               /\ "caller" \notin refs[r] => "caller" \notin refs'[r]
               /\ refs[r] = {} => refs'[r] = {} /\ freed'[r] = freed[r]
    BY <2>2, Settled
  <2>3. CASE BeginFlush(f)
    <3>1. /\ before'[f] = {r \in Requests : call[r] = "returned"}
          /\ dropped'[f] = {r \in Uploads : call[r] = "returned" /\ "caller" \notin refs[r]}
          /\ UNCHANGED <<call, run, refs, activeTasks>>
      BY <2>3 DEF BeginFlush, DataInv, tensor, admission
    <3>2. flush'[f] \in {"sync", "asleep"} /\ (flush'[f] = "sync" => activeTasks = 0)
      BY <2>3 DEF BeginFlush, TestIdle, FlushTo, DataInv
    <3> QED BY <3>1, <3>2, IdleMeansDone DEF FlushOK, Requests
  <2>4. CASE FlushRetest(f)
    <3>1. UNCHANGED <<before, dropped, call, run, refs, activeTasks>>
      BY <2>4 DEF FlushRetest, tensor, admission
    <3>2. flush'[f] \in {"sync", "asleep"} /\ (flush'[f] = "sync" => activeTasks = 0)
      BY <2>4 DEF FlushRetest, TestIdle, FlushTo, DataInv
    <3> QED BY <2>1, <3>1, <3>2, IdleMeansDone DEF FlushOK
  <2>5. CASE SpuriousFlushWakeup(f)
    <3>1. UNCHANGED <<before, dropped, call, run, refs>> /\ flush'[f] = "test"
      BY <2>5 DEF SpuriousFlushWakeup, FlushTo, tensor, DataInv
    <3> QED BY <2>1, <3>1 DEF FlushOK
  <2>6. CASE FlushSynchronizes(f)
    <3>1. UNCHANGED <<before, dropped, call, run, refs, freed>> /\ flush[f] = "sync"
          /\ flush'[f] = "syncing"
      BY <2>6 DEF FlushSynchronizes, FlushTo, tensor, DataInv
    <3>2. target'[f] = issued
      BY <2>6 DEF FlushSynchronizes, BeginSync, StreamTypes
    <3>3. ASSUME NEW r \in dropped[f] PROVE freed[r] \in 1 .. issued
      <4>1. RefOK(r) /\ freed[r] \in 0 .. issued
        BY <2>1 DEF RefInv, StreamTypes
      <4>2. refs[r] = {} /\ r \in Uploads /\ call[r] = "returned"
        BY <2>1, <3>1, <3>3 DEF FlushOK
      <4>3. freed[r] # 0
        BY <4>1, <4>2 DEF RefOK
      <4> QED BY <4>1, <4>3 DEF StreamTypes
    <3> QED BY <2>1, <3>1, <3>2, <3>3 DEF FlushOK
  <2>7. CASE FlushSucceeds(f) \/ FlushFails(f)
    <3>1. before'[f] = {} /\ dropped'[f] = {}
      BY <2>7 DEF FlushSucceeds, FlushFails, EndFlush, DataInv
    <3> QED BY <3>1 DEF FlushOK
  <2>8. CASE ~BeginFlush(f) /\ ~FlushStep(f) /\ ~SpuriousFlushWakeup(f)
    <3>1. /\ before'[f] = before[f] /\ dropped'[f] = dropped[f] /\ target'[f] = target[f]
          /\ flush'[f] = flush[f] \/ (flush[f] = "asleep" /\ flush'[f] = "test")
      BY <2>8, FlushUndisturbed
    <3>2. flush'[f] \in {"sync", "syncing"} => flush'[f] = flush[f]
      BY <3>1
    <3> QED BY <2>1, <2>2, <3>1, <3>2 DEF FlushOK
  <2> QED BY <2>3, <2>4, <2>5, <2>6, <2>7, <2>8 DEF FlushStep
<1> QED BY <1>1, <1>2, PCInductive, DataInductive, ActiveTasksCounted, StreamInductive,
           RefInductive, PTL DEF Spec, SafetySpec

\* KuDevice::flush goes on from waitIdle only when every copy handed over before it is
\* finished and every tensor given up before it is released, and it waits for the
\* stream to run those releases.
THEOREM FlushWaitsForWork == Spec => []FlushDrains
<1>1. FlushInv => FlushDrains
  BY DEF FlushInv, FlushOK, FlushDrains
<1> QED BY <1>1, FlushInductive, PTL

-----------------------------------------------------------------------------
\* Every variable keeps its type; m_activeTasks never wraps below zero.
THEOREM TypeCorrect == Spec => []TypeOK
<1>1. PCInv /\ DataInv => ControlTypes
  BY DEF PCInv, DataInv, ControlTypes
<1>2. PartInv /\ CopyInv => LaneTypes
  BY DEF PartInv, CopyInv, LaneTypes
<1>3. PCInv /\ DataInv /\ PartInv /\ CopyInv /\ StreamTypes /\ TaskAccounting => TypeOK
  BY <1>1, <1>2, CountIsNatural DEF TypeOK
<1> QED BY <1>3, PCInductive, DataInductive, PartInductive, CopyInductive, StreamInductive,
           ActiveTasksCounted, PTL
=============================================================================
