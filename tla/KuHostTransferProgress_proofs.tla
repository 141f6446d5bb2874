-------------------- MODULE KuHostTransferProgress_proofs --------------------
(***************************************************************************)
(* Why nothing in KuHostTransfer waits for ever, for any number of         *)
(* requests, lanes and flushing threads: no wakeup of m_laneReady or of    *)
(* m_idle is lost, and whenever somebody waits there is a thread that can  *)
(* take a step towards what is waited for.  These are the invariants that  *)
(* the liveness properties CopiesComplete and WaitersReturn rest on; the   *)
(* step from here to there is fairness, and stays with TLC.                *)
(***************************************************************************)
EXTENDS KuHostTransfer_proofs

-----------------------------------------------------------------------------
(* m_laneReady *)

\* The threads that will look at the stack of lanes, or tell one that sleeps to look.
Coming == {r \in Requests : run[r] \in {"notify lane", "acquire"}}

\* While a thread sleeps for a lane, every lane on the stack has somebody coming for it:
\* notify_one after each release suffices.
NoLostLaneWakeup == LaneSleepers # {} => Len(availableLanes) <= Cardinality(Coming)

\* Requests are finitely many, so that any of them can be counted.
LEMMA ComingIsFinite == IsFiniteSet(Coming) /\ Cardinality(Coming) \in Nat
<1>1. IsFiniteSet(Coming)
  BY RequestsAssumption, FS_Subset DEF Coming
<1> QED BY <1>1, FS_CardinalityType

\* A step that leaves the stack alone, puts nobody to sleep and turns nobody away keeps
\* the invariant.
LEMMA LaneWakeupsUndisturbed ==
  ASSUME PartInv, NoLostLaneWakeup, availableLanes' = availableLanes,
         LaneSleepers' \subseteq LaneSleepers, Coming \subseteq Coming'
  PROVE  NoLostLaneWakeup'
<1>1. IsFiniteSet(Coming') /\ Cardinality(Coming') \in Nat
  BY RequestsAssumption, FS_Subset, FS_CardinalityType DEF Coming
<1>2. Cardinality(Coming) <= Cardinality(Coming') /\ Cardinality(Coming) \in Nat
  BY <1>1, FS_Subset, ComingIsFinite
<1>3. Len(availableLanes) \in Nat
  BY LenProperties DEF PartInv
<1> QED BY <1>1, <1>2, <1>3 DEF NoLostLaneWakeup

\* No wakeup of m_laneReady is lost, with any number of lanes released and acquired and
\* any number of threads asleep.
LEMMA LaneWakeupsInductive == Spec => []NoLostLaneWakeup
<1>1. Init => NoLostLaneWakeup
  BY DEF Init, NoLostLaneWakeup, LaneSleepers
<1>2. PCInv /\ PartInv /\ NoLostLaneWakeup /\ [Next]_vars => NoLostLaneWakeup'
  <2> SUFFICES ASSUME PCInv, PartInv, NoLostLaneWakeup, [Next]_vars PROVE NoLostLaneWakeup'
    OBVIOUS
  <2>1. ASSUME NEW r \in Requests, NEW from, NEW to, Step(r, from, to),
               from \notin {"notify lane", "acquire"}, to # "asleep",
               availableLanes' = availableLanes
        PROVE  NoLostLaneWakeup'
    <3>1. \A q \in Requests : run'[q] = IF q = r THEN to ELSE run[q]
      BY <2>1 DEF Step, PCInv
    <3>2. LaneSleepers' \subseteq LaneSleepers /\ Coming \subseteq Coming'
      BY <2>1, <3>1 DEF Step, LaneSleepers, Coming
    <3> QED BY <2>1, <3>2, LaneWakeupsUndisturbed
  <2>2. ASSUME NEW r \in Requests, SchedulerAccepts(r) PROVE NoLostLaneWakeup'
    <3>1. run[r] = "none"
      BY <2>2 DEF SchedulerAccepts, PCInv
    <3>2. Step(r, "none", "queued") /\ availableLanes' = availableLanes
      BY <2>2, <3>1 DEF SchedulerAccepts, Step, laneState
    <3> QED BY <2>1, <3>2
  <2>3. ASSUME NEW r \in Requests, StartCopy(r) PROVE NoLostLaneWakeup'
    BY <2>1, <2>3 DEF StartCopy, laneState
  <2>4. ASSUME NEW r \in Requests, DependencySynced(r) PROVE NoLostLaneWakeup'
    BY <2>1, <2>4 DEF DependencySynced, laneState
  <2>5. ASSUME NEW r \in Requests, AcquireLane(r) PROVE NoLostLaneWakeup'
    <3>1. CASE availableLanes = <<>>
      <4>1. Len(availableLanes') = 0
        BY <2>5, <3>1 DEF AcquireLane
      <4>2. IsFiniteSet(Coming') /\ Cardinality(Coming') \in Nat
        BY RequestsAssumption, FS_Subset, FS_CardinalityType DEF Coming
      <4> QED BY <4>1, <4>2 DEF NoLostLaneWakeup
    <3>2. CASE availableLanes # <<>>
      <4>1. /\ run[r] = "acquire"
            /\ \A q \in Requests : run'[q] = IF q = r THEN "first half" ELSE run[q]
        BY <2>5, <3>2 DEF AcquireLane, Step, PCInv
      <4>2. LaneSleepers' = LaneSleepers /\ Coming' = Coming \ {r} /\ r \in Coming
        BY <4>1 DEF LaneSleepers, Coming
      <4>3. Cardinality(Coming') = Cardinality(Coming) - 1
        BY <4>2, ComingIsFinite, FS_RemoveElement
      <4>4. Len(availableLanes) \in Nat \ {0}
        BY <3>2, EmptySeq, LenProperties DEF PartInv
      <4>5. availableLanes' = SubSeq(availableLanes, 1, Len(availableLanes) - 1)
        BY <2>5, <3>2 DEF AcquireLane
      <4>6. Len(availableLanes') = Len(availableLanes) - 1
        <5> DEFINE left == Len(availableLanes) - 1
        <5>1. left \in Int /\ 1 \in Int /\ \A i \in 1 .. left : availableLanes[i] \in Lanes
          BY <4>4, LenProperties DEF PartInv
        <5>2. availableLanes' = SubSeq(availableLanes, 1, left) /\ left \in Nat
          BY <4>4, <4>5
        <5> HIDE DEF left
        <5>3. Len(SubSeq(availableLanes, 1, left)) = IF 1 <= left THEN left - 1 + 1 ELSE 0
          BY <5>1, SubSeqProperties
        <5>4. Len(availableLanes') = left
          BY <5>2, <5>3
        <5> QED BY <5>4 DEF left
      <4> QED BY <4>2, <4>3, <4>4, <4>6, ComingIsFinite DEF NoLostLaneWakeup
    <3> QED BY <3>1, <3>2
  <2>6. ASSUME NEW r \in Requests, SpuriousLaneWakeup(r) PROVE NoLostLaneWakeup'
    BY <2>1, <2>6 DEF SpuriousLaneWakeup, laneState
  <2>7. ASSUME NEW r \in Requests, FillStaging(r) PROVE NoLostLaneWakeup'
    BY <2>1, <2>7 DEF FillStaging
  <2>8. ASSUME NEW r \in Requests, DrainStaging(r) \/ ChunkFails(r) PROVE NoLostLaneWakeup'
    BY <2>1, <2>8 DEF DrainStaging, ChunkFails, DeviceHalf, laneState
  <2>9. ASSUME NEW r \in Requests, ReleaseLane(r) PROVE NoLostLaneWakeup'
    <3>1. /\ run[r] = "release"
          /\ \A q \in Requests : run'[q] = IF q = r THEN "notify lane" ELSE run[q]
      BY <2>9 DEF ReleaseLane, Step, PCInv
    <3>2. LaneSleepers' = LaneSleepers /\ Coming' = Coming \cup {r} /\ r \notin Coming
      BY <3>1 DEF LaneSleepers, Coming
    <3>3. Cardinality(Coming') = Cardinality(Coming) + 1
      BY <3>2, ComingIsFinite, FS_AddElement
    <3>4. PICK l \in lane[r] : availableLanes' = Append(availableLanes, l)
      BY <2>9 DEF ReleaseLane
    <3>5. l \in Lanes /\ Len(availableLanes) \in Nat
      BY LenProperties DEF PartInv
    <3>6. Len(availableLanes') = Len(availableLanes) + 1
      BY <3>4, <3>5, AppendProperties DEF PartInv
    <3> QED BY <3>2, <3>3, <3>5, <3>6, ComingIsFinite DEF NoLostLaneWakeup
  <2>10. ASSUME NEW r \in Requests, NotifyLane(r) PROVE NoLostLaneWakeup'
    <3>1. CASE LaneSleepers = {}
      <4>1. \A q \in Requests : run'[q] = IF q = r THEN "prepare" ELSE run[q]
        BY <2>10, <3>1 DEF NotifyLane, PCInv
      <4>2. LaneSleepers' = {}
        BY <3>1, <4>1 DEF LaneSleepers
      <4> QED BY <4>2 DEF NoLostLaneWakeup
    <3>2. CASE LaneSleepers # {}
      <4>1. PICK q \in LaneSleepers : run' = [run EXCEPT ![r] = "prepare", ![q] = "acquire"]
        BY <2>10, <3>2 DEF NotifyLane
      <4>2. /\ run[r] = "notify lane" /\ run[q] = "asleep" /\ q # r /\ q \in Requests
            /\ availableLanes' = availableLanes
        BY <2>10, <4>1 DEF NotifyLane, LaneSleepers, laneState
      <4>3. \A p \in Requests :
              run'[p] = IF p = r THEN "prepare" ELSE IF p = q THEN "acquire" ELSE run[p]
        BY <4>1, <4>2 DEF PCInv
      <4>4. /\ r \in Coming /\ q \notin Coming \ {r}
            /\ Coming' = (Coming \ {r}) \cup {q}
        BY <4>2, <4>3 DEF Coming
      <4>5. /\ IsFiniteSet(Coming \ {r}) /\ Cardinality(Coming \ {r}) = Cardinality(Coming) - 1
        BY <4>4, ComingIsFinite, FS_RemoveElement
      <4>6. Cardinality(Coming') = Cardinality(Coming \ {r}) + 1
        BY <4>4, <4>5, FS_AddElement
      <4>7. Cardinality(Coming') = Cardinality(Coming)
        BY <4>5, <4>6, ComingIsFinite
      <4> QED BY <3>2, <4>2, <4>7 DEF NoLostLaneWakeup
    <3> QED BY <3>1, <3>2
  <2>11. ASSUME NEW r \in Requests,
                \/ PrepareToSignal(r) \/ ReleaseRetained(r) \/ FinishTask(r)
                \/ NotifyIdle(r) \/ Signal(r)
         PROVE  NoLostLaneWakeup'
    BY <2>1, <2>11 DEF PrepareToSignal, ReleaseRetained, FinishTask, NotifyIdle, Signal,
       laneState
  <2>12. CASE ReleaseResources
    <3>1. Len(availableLanes') = 0
      BY <2>12 DEF ReleaseResources
    <3>2. IsFiniteSet(Coming') /\ Cardinality(Coming') \in Nat
      BY RequestsAssumption, FS_Subset, FS_CardinalityType DEF Coming
    <3> QED BY <3>1, <3>2 DEF NoLostLaneWakeup
  <2>13. CASE UNCHANGED <<run, availableLanes>>
    <3>1. LaneSleepers' = LaneSleepers /\ Coming' = Coming
      BY <2>13 DEF LaneSleepers, Coming
    <3> QED BY <2>13, <3>1, LaneWakeupsUndisturbed
  <2> QED
    BY ZenonT(60), <2>2, <2>3, <2>4, <2>5, <2>6, <2>7, <2>8, <2>9, <2>10, <2>11, <2>12, <2>13
    DEF Next, CallStep, RunStep, FlushStep, StopStep, vars, BuildTask, CannotBuild, Admit,
        SchedulerRefuses, UndoAdmission, UndoNotify, Fail, Retain, UserDrops, BeginFlush,
        FlushRetest, SpuriousFlushWakeup, FlushSynchronizes, FlushSucceeds, FlushFails,
        EndFlush, Execute, StopAndWait, StopRetest, SpuriousStopWakeup,
        ShutdownSynchronizes, AbandonResources, ShutdownSynced, DestroyPool, DestroyStream,
        laneState
<1> QED BY <1>1, <1>2, PCInductive, PartInductive, PTL DEF Spec, SafetySpec

-----------------------------------------------------------------------------
(* m_idle *)

\* The threads in waitIdle or stopAndWait that are not awake, and those that have seen the
\* count reach zero and have not told them yet.
SleepsIdle == stop = "asleep" \/ \E f \in Flushers : flush[f] = "asleep"
Telling == {r \in Requests : run[r] = "notify idle" \/ call[r] = "undo notify"}

\* Nobody sleeps on m_idle without a reason: a task is counted, or the thread that counted
\* out the last one is about to tell.
NoLostIdleWakeup == SleepsIdle => activeTasks # 0 \/ Telling # {}

\* A step that puts nobody to sleep, does not change the count and leaves those who are
\* about to tell where they are keeps the invariant.
LEMMA IdleWakeupsUndisturbed ==
  ASSUME NoLostIdleWakeup, activeTasks' = activeTasks, Telling \subseteq Telling',
         SleepsIdle' => SleepsIdle
  PROVE  NoLostIdleWakeup'
  BY DEF NoLostIdleWakeup

\* No wakeup of m_idle is lost: not when a refused admission is taken back, not when the
\* last task finishes while a flush or the shutdown tests its predicate.
LEMMA IdleWakeupsInductive == Spec => []NoLostIdleWakeup
<1>1. Init => NoLostIdleWakeup
  BY DEF Init, NoLostIdleWakeup, SleepsIdle
<1>2. /\ PCInv /\ DataInv /\ TaskAccounting /\ NoLostIdleWakeup /\ [Next]_vars
      => NoLostIdleWakeup'
  <2> SUFFICES ASSUME PCInv, DataInv, TaskAccounting, NoLostIdleWakeup, [Next]_vars
               PROVE  NoLostIdleWakeup'
    OBVIOUS
  <2>0. activeTasks \in Nat
    BY CountIsNatural
  <2>1. ASSUME NEW r \in Requests, NEW from, NEW to, Step(r, from, to), from # "notify idle",
               call' = call, activeTasks' = activeTasks, flush' = flush, stop' = stop
        PROVE  NoLostIdleWakeup'
    <3>1. \A q \in Requests : q # r => run'[q] = run[q]
      BY <2>1 DEF Step, PCInv
    <3>2. Telling \subseteq Telling' /\ (SleepsIdle' => SleepsIdle)
      BY <2>1, <3>1 DEF Step, Telling, SleepsIdle
    <3> QED BY <2>1, <3>2, IdleWakeupsUndisturbed
  <2>2. ASSUME NEW r \in Requests, NEW there, call[r] # "undo notify", Goto(r, there),
               run' = run \/ SchedulerAccepts(r),
               activeTasks' = activeTasks, flush' = flush, stop' = stop
        PROVE  NoLostIdleWakeup'
    <3>1. \A q \in Requests : q # r => call'[q] = call[q] /\ run'[q] = run[q]
      BY <2>2 DEF Goto, SchedulerAccepts, PCInv
    <3>2. run[r] = "notify idle" => run'[r] = "notify idle"
      BY <2>2 DEF SchedulerAccepts, PCInv
    <3>3. Telling \subseteq Telling' /\ (SleepsIdle' => SleepsIdle)
      BY <2>2, <3>1, <3>2 DEF Telling, SleepsIdle
    <3> QED BY <2>2, <3>3, IdleWakeupsUndisturbed
  <2>3. CASE UNCHANGED <<call, run, activeTasks>> /\ (SleepsIdle' => SleepsIdle)
    <3>1. Telling' = Telling
      BY <2>3 DEF Telling
    <3> QED BY <2>3, <3>1, IdleWakeupsUndisturbed
  <2>4. CASE activeTasks' \in Nat \ {0}
    BY <2>4 DEF NoLostIdleWakeup
  <2>5. CASE WakeIdle
    <3>1. ~SleepsIdle'
      BY <2>5 DEF WakeIdle, SleepsIdle, DataInv, FlushStates, StopStates
    <3> QED BY <3>1 DEF NoLostIdleWakeup
  <2>6. CASE \E r \in Requests : Telling' = Telling \cup {r}
    BY <2>6 DEF NoLostIdleWakeup
  <2>7. ASSUME NEW r \in Requests,
               \/ BuildTask(r) \/ CannotBuild(r) \/ SchedulerAccepts(r) \/ SchedulerRefuses(r)
               \/ Fail(r) \/ Retain(r)
        PROVE  NoLostIdleWakeup'
    <3>1. UNCHANGED <<activeTasks, flush, stop>>
      BY <2>7 DEF BuildTask, CannotBuild, SchedulerAccepts, SchedulerRefuses, Fail, Retain,
         admission, flushing, teardown
    <3>2. call[r] # "undo notify" /\ (run' = run \/ SchedulerAccepts(r))
      BY <2>7 DEF BuildTask, CannotBuild, SchedulerAccepts, SchedulerRefuses, Fail, Retain
    <3>3. \E there : Goto(r, there)
      BY <2>7 DEF BuildTask, CannotBuild, SchedulerAccepts, SchedulerRefuses, Fail, Retain
    <3> QED BY <2>2, <3>1, <3>2, <3>3
  <2>8. ASSUME NEW r \in Requests, Admit(r) PROVE NoLostIdleWakeup'
    <3>1. CASE accepting
      BY <2>0, <2>4, <2>8, <3>1 DEF Admit
    <3>2. CASE ~accepting
      BY <2>2, <2>8, <3>2 DEF Admit, flushing, teardown
    <3> QED BY <3>1, <3>2
  <2>9. ASSUME NEW r \in Requests, UndoAdmission(r) PROVE NoLostIdleWakeup'
    <3>1. CASE activeTasks = 1
      <4>1. call' = [call EXCEPT ![r] = "undo notify"]
        BY <2>9, <3>1 DEF UndoAdmission, Goto
      <4>2. r \in Telling'
        BY <4>1 DEF Telling, PCInv
      <4> QED BY <4>2 DEF NoLostIdleWakeup
    <3>2. CASE activeTasks # 1
      <4>1. r \in Counted
        BY <2>9 DEF UndoAdmission, Counted
      <4>2. activeTasks' \in Nat \ {0}
        BY <2>0, <2>9, <3>2, <4>1, CountIsNatural DEF UndoAdmission, TaskFinished
      <4> QED BY <2>4, <4>2
    <3> QED BY <3>1, <3>2
  <2>10. ASSUME NEW r \in Requests, FinishTask(r) PROVE NoLostIdleWakeup'
    <3>1. CASE activeTasks = 1
      <4>1. run' = [run EXCEPT ![r] = "notify idle"]
        BY <2>10, <3>1 DEF FinishTask, Step
      <4>2. r \in Telling'
        BY <4>1 DEF Telling, PCInv
      <4> QED BY <4>2 DEF NoLostIdleWakeup
    <3>2. CASE activeTasks # 1
      <4>1. r \in Counted
        BY <2>10 DEF FinishTask, Step, Counted, Finished
      <4>2. activeTasks' \in Nat \ {0}
        BY <2>0, <2>10, <3>2, <4>1, CountIsNatural DEF FinishTask, TaskFinished
      <4> QED BY <2>4, <4>2
    <3> QED BY <3>1, <3>2
  <2>11. ASSUME NEW r \in Requests, UndoNotify(r) \/ NotifyIdle(r) PROVE NoLostIdleWakeup'
    BY <2>5, <2>11 DEF UndoNotify, NotifyIdle
  <2>12. ASSUME NEW r \in Requests,
                \/ StartCopy(r) \/ DependencySynced(r) \/ AcquireLane(r) \/ SpuriousLaneWakeup(r)
                \/ FillStaging(r) \/ DrainStaging(r) \/ ChunkFails(r) \/ ReleaseLane(r)
                \/ PrepareToSignal(r) \/ ReleaseRetained(r) \/ Signal(r)
         PROVE  NoLostIdleWakeup'
    <3>1. UNCHANGED <<call, activeTasks, flush, stop>>
      BY <2>12 DEF StartCopy, DependencySynced, AcquireLane, SpuriousLaneWakeup, FillStaging,
         DrainStaging, ChunkFails, ReleaseLane, PrepareToSignal, ReleaseRetained, Signal,
         admission, flushing, teardown
    <3>2. \E from, to : from # "notify idle" /\ Step(r, from, to)
      BY <2>12 DEF StartCopy, DependencySynced, AcquireLane, SpuriousLaneWakeup, FillStaging,
         DrainStaging, ChunkFails, DeviceHalf, ReleaseLane, PrepareToSignal, ReleaseRetained,
         Signal
    <3> QED BY <2>1, <3>1, <3>2
  <2>13. ASSUME NEW r \in Requests, NotifyLane(r) PROVE NoLostIdleWakeup'
    <3>1. \A q \in Requests : run[q] = "notify idle" => run'[q] = "notify idle"
      BY <2>13 DEF NotifyLane, LaneSleepers, PCInv
    <3>2. UNCHANGED <<call, activeTasks, flush, stop>>
      BY <2>13 DEF NotifyLane, admission, flushing, teardown
    <3>3. Telling \subseteq Telling' /\ (SleepsIdle' => SleepsIdle)
      BY <3>1, <3>2 DEF Telling, SleepsIdle
    <3> QED BY <3>2, <3>3, IdleWakeupsUndisturbed
  <2>14. ASSUME NEW f \in Flushers, BeginFlush(f) \/ FlushRetest(f) PROVE NoLostIdleWakeup'
    <3>1. TestIdle(f) /\ UNCHANGED <<call, run, activeTasks, stop>>
      BY <2>14 DEF BeginFlush, FlushRetest, admission, teardown
    <3>2. CASE activeTasks = 0
      <4>1. SleepsIdle' => SleepsIdle
        BY <3>1, <3>2 DEF TestIdle, FlushTo, SleepsIdle, DataInv
      <4> QED BY <2>3, <3>1, <4>1
    <3>3. CASE activeTasks # 0
      BY <2>0, <2>4, <3>1, <3>3
    <3> QED BY <3>2, <3>3
  <2>15. ASSUME NEW f \in Flushers,
                \/ SpuriousFlushWakeup(f) \/ FlushSynchronizes(f) \/ FlushSucceeds(f)
                \/ FlushFails(f)
         PROVE  NoLostIdleWakeup'
    <3>1. \E there \in {"test", "syncing", "idle"} : FlushTo(f, there)
      BY <2>15 DEF SpuriousFlushWakeup, FlushSynchronizes, FlushSucceeds, FlushFails, EndFlush
    <3>2. UNCHANGED <<call, run, activeTasks, stop>>
      BY <2>15 DEF SpuriousFlushWakeup, FlushSynchronizes, FlushSucceeds, FlushFails, EndFlush,
         admission, teardown
    <3>3. SleepsIdle' => SleepsIdle
      BY <3>1, <3>2 DEF FlushTo, SleepsIdle, DataInv
    <3> QED BY <2>3, <3>2, <3>3
  <2>16. CASE StopAndWait \/ StopRetest
    <3>1. TestDrained /\ UNCHANGED <<call, run, activeTasks, flush>>
      BY <2>16 DEF StopAndWait, StopRetest, admission, flushing
    <3>2. CASE activeTasks = 0
      <4>1. SleepsIdle' => SleepsIdle
        BY <3>1, <3>2 DEF TestDrained, StopTo, SleepsIdle
      <4> QED BY <2>3, <3>1, <4>1
    <3>3. CASE activeTasks # 0
      BY <2>0, <2>4, <3>1, <3>3
    <3> QED BY <3>2, <3>3
  <2>17. CASE \/ SpuriousStopWakeup \/ ReleaseResources \/ ShutdownSynchronizes
              \/ AbandonResources \/ ShutdownSynced \/ DestroyPool \/ DestroyStream
    <3>1. UNCHANGED <<call, run, activeTasks, flush>> /\ stop' # "asleep"
      BY <2>17 DEF SpuriousStopWakeup, ReleaseResources, ShutdownSynchronizes, AbandonResources,
         ShutdownSynced, DestroyPool, DestroyStream, StopTo, admission, flushing
    <3> QED BY <2>3, <3>1 DEF SleepsIdle
  <2>18. CASE UNCHANGED <<call, run, activeTasks, flush, stop>>
    BY <2>3, <2>18 DEF SleepsIdle
  <2> QED
    BY ZenonT(60), <2>7, <2>8, <2>9, <2>10, <2>11, <2>12, <2>13, <2>14, <2>15, <2>16, <2>17,
       <2>18
    DEF Next, CallStep, RunStep, FlushStep, StopStep, vars, UserDrops, Execute, admission,
        flushing, teardown
<1> QED BY <1>1, <1>2, PCInductive, DataInductive, ActiveTasksCounted, PTL DEF Spec, SafetySpec

\* Neither condition variable of the transfer loses a wakeup: what CopiesComplete and
\* WaitersReturn would fail for if a notification were missing, or tested too early.
NoLostWakeup == NoLostLaneWakeup /\ NoLostIdleWakeup

THEOREM NoWakeupIsLost == Spec => []NoLostWakeup
  BY LaneWakeupsInductive, IdleWakeupsInductive, PTL DEF NoLostWakeup

-----------------------------------------------------------------------------
(* Somebody can always go on *)

\* The lanes exist until shutdown releases them.
LanesStand == stop \in {"up", "asleep", "test", "release"} => lanes = Lanes

\* Only ReleaseResources takes lanes away, and it is behind the drain.
LEMMA LanesInductive == Spec => []LanesStand
<1>1. Init => LanesStand
  BY DEF Init, LanesStand
<1>2. LanesStand /\ [Next]_vars => LanesStand'
  <2> SUFFICES ASSUME LanesStand, [Next]_vars PROVE LanesStand'
    OBVIOUS
  <2>1. CASE UNCHANGED <<lanes, stop>>
    BY <2>1 DEF LanesStand
  <2>2. ASSUME NEW r \in Requests, UndoNotify(r) \/ NotifyIdle(r) PROVE LanesStand'
    BY <2>2 DEF UndoNotify, NotifyIdle, WakeIdle, laneState, LanesStand
  <2>3. CASE StopAndWait \/ StopRetest \/ SpuriousStopWakeup
    BY <2>3 DEF StopAndWait, StopRetest, SpuriousStopWakeup, TestDrained, StopTo, laneState,
       LanesStand
  <2>4. CASE \/ ReleaseResources \/ ShutdownSynchronizes \/ AbandonResources
             \/ ShutdownSynced \/ DestroyPool \/ DestroyStream
    BY <2>4 DEF ReleaseResources, ShutdownSynchronizes, AbandonResources, ShutdownSynced,
       DestroyPool, DestroyStream, StopTo, LanesStand
  <2> QED
    BY ZenonT(60), <2>1, <2>2, <2>3, <2>4
    DEF Next, CallStep, RunStep, FlushStep, StopStep, vars, BuildTask, CannotBuild, Admit,
        SchedulerAccepts, SchedulerRefuses, UndoAdmission, Fail, Retain, UserDrops, StartCopy,
        DependencySynced, AcquireLane, SpuriousLaneWakeup, FillStaging, DrainStaging,
        ChunkFails, ReleaseLane, NotifyLane, PrepareToSignal, ReleaseRetained, FinishTask,
        Signal, BeginFlush, FlushRetest, SpuriousFlushWakeup, FlushSynchronizes,
        FlushSucceeds, FlushFails, EndFlush, Execute, laneState, teardown
<1> QED BY <1>1, <1>2, PTL DEF Spec, SafetySpec

\* The guard of a step of the thread that runs r, other than an error or a spurious
\* wakeup: it sleeps for no lane, a stream it waits for has run or can run, and a lane it
\* is to use or give back is there.
RunCanGoOn(r) ==
  /\ run[r] \notin {"none", "asleep", "done"}
  /\ run[r] = "sync" => Synced(r) \/ executed < issued
  /\ run[r] \in {"second half", "release"} => lane[r] # {}

\* The guard of a step of the call that submits r.
CallCanGoOn(r) == call[r] \notin {"idle", "returned", "failed"}

\* A copy that has not been signalled does not hang: its own thread can go on, or it
\* sleeps and another thread that can go on uses a lane or is coming for one.
CopiesGoOn ==
  \A r \in Requests : run[r] \notin {"none", "done"} =>
    \/ RunCanGoOn(r)
    \/ \E q \in Coming \cup {p \in Requests : run[p] \in InUse} : RunCanGoOn(q)

\* A thread that waits on m_idle does not hang: a call or a copy can go on that is
\* counted, or one that is about to tell.
IdleWaitersGoOn ==
  SleepsIdle => \E r \in Counted \cup Telling : CallCanGoOn(r) \/ RunCanGoOn(r)

\* Everything that waits in the transfer waits for a step that some thread can take: there
\* is no deadlock between copies, flushes and the shutdown, for any number of each.
THEOREM TransferIsNeverStuck == Spec => [](CopiesGoOn /\ IdleWaitersGoOn)
<1> DEFINE Inv == /\ PCInv /\ DataInv /\ TaskAccounting /\ StopInv /\ PartInv /\ StreamTypes
                  /\ LanesStand /\ NoLostWakeup
<1>1. ASSUME Inv, NEW r \in Requests, run[r] \notin {"none", "asleep", "done"}
      PROVE  RunCanGoOn(r)
  <2>1. run[r] = "sync" => Synced(r) \/ executed < issued
    <3>1. /\ r \in Requests \cup Flushers \cup {Stop}
          /\ target \in [Requests \cup Flushers \cup {Stop} -> 0 .. issued]
          /\ issued \in Nat /\ executed \in 0 .. issued
      BY <1>1 DEF StreamTypes
    <3>2. target[r] \in 0 .. issued
      BY <3>1
    <3> QED BY <3>1, <3>2 DEF Synced
  <2>2. run[r] \in {"second half", "release"} => lane[r] # {}
    BY <1>1 DEF PartInv, LanesPartitioned, UsersHoldOne, InUse
  <2> QED BY <1>1, <2>1, <2>2 DEF RunCanGoOn
<1>2. ASSUME Inv, NEW r \in Requests, run[r] = "asleep"
      PROVE  \E q \in Coming \cup {p \in Requests : run[p] \in InUse} : RunCanGoOn(q)
  <2>1. lanes = Lanes
    <3>1. r \in Counted
      BY <1>2 DEF Counted, Finished
    <3>2. activeTasks # 0
      BY <1>2, <3>1, CountIsNatural
    <3> QED BY <1>2, <3>2 DEF StopInv, LanesStand
  <2>2. 0 \in lanes
    BY <2>1, CountsAssumption DEF Lanes
  <2>3. CASE \E i \in DOMAIN availableLanes : availableLanes[i] = 0
    <3>1. Len(availableLanes) \in Nat \ {0}
      BY <1>2, <2>3, LenProperties DEF PartInv
    <3>2. Len(availableLanes) <= Cardinality(Coming)
      BY <1>2 DEF NoLostWakeup, NoLostLaneWakeup, LaneSleepers
    <3>3. Coming # {}
      BY <3>1, <3>2, FS_EmptySet
    <3>4. PICK q \in Coming : TRUE
      BY <3>3
    <3>5. q \in Requests /\ run[q] \notin {"none", "asleep", "done"}
      BY <3>4 DEF Coming
    <3> QED BY <1>1, <1>2, <3>4, <3>5
  <2>4. CASE \E q \in Requests : 0 \in lane[q]
    <3>1. PICK q \in Requests : 0 \in lane[q]
      BY <2>4
    <3>2. run[q] \in InUse
      BY <1>2, <3>1 DEF PartInv, LanesPartitioned, UsersHoldOne
    <3>3. RunCanGoOn(q)
      BY <1>1, <1>2, <3>2 DEF InUse
    <3> QED BY <3>2, <3>3
  <2> QED BY <1>2, <2>2, <2>3, <2>4 DEF PartInv, LanesPartitioned, NoneLost
<1>3. Inv => CopiesGoOn
  BY <1>1, <1>2 DEF CopiesGoOn
<1>4. ASSUME Inv, SleepsIdle
      PROVE  \E r \in Counted \cup Telling : CallCanGoOn(r) \/ RunCanGoOn(r)
  <2>1. ASSUME NEW r \in Telling PROVE CallCanGoOn(r) \/ RunCanGoOn(r)
    BY <1>1, <1>4, <2>1 DEF Telling, CallCanGoOn
  <2>2. ASSUME NEW r \in Counted, run[r] # "asleep" PROVE CallCanGoOn(r) \/ RunCanGoOn(r)
    BY <1>1, <1>4, <2>2 DEF Counted, Finished, CallCanGoOn
  <2>3. ASSUME NEW r \in Counted, run[r] = "asleep"
        PROVE  \E q \in Counted : RunCanGoOn(q)
    <3>1. r \in Requests
      BY DEF Counted
    <3>2. PICK q \in Coming \cup {p \in Requests : run[p] \in InUse} : RunCanGoOn(q)
      BY <1>2, <1>4, <2>3, <3>1
    <3>3. q \in Counted
      BY <3>2 DEF Coming, InUse, Counted, Finished
    <3> QED BY <3>2, <3>3
  <2>4. CASE Telling # {}
    BY <2>1, <2>4
  <2>5. CASE activeTasks # 0
    <3>1. Counted # {}
      BY <1>4, <2>5, CountIsNatural
    <3> QED BY <2>2, <2>3, <3>1
  <2> QED BY <1>4, <2>4, <2>5 DEF NoLostWakeup, NoLostIdleWakeup
<1>5. Inv => IdleWaitersGoOn
  BY <1>4 DEF IdleWaitersGoOn
<1> QED
  BY <1>3, <1>5, PCInductive, DataInductive, ActiveTasksCounted, StopInductive, PartInductive,
     StreamInductive, LanesInductive, NoWakeupIsLost, PTL
=============================================================================
