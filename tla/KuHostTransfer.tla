--------------------------- MODULE KuHostTransfer ---------------------------
(***************************************************************************)
(* The native host transfer of one device (runtime/src/KuHostTransfer.cpp) *)
(* between the calls that submit copies, the scheduler threads that run    *)
(* them, the threads that flush the device, and the thread that tears it   *)
(* down (core/src/KuDevice.cpp, shutdown).                                 *)
(*                                                                         *)
(* A request is an upload, made by ku_tensor_create_from_host_async, which *)
(* allocates a tensor on the default stream and lets the completion keep   *)
(* it, or a download, made by ku_device_copy_async.  The scheduler may be  *)
(* any that keeps the contract of TaskExecutor, so each accepted request   *)
(* runs as a thread of its own, whenever it likes.                         *)
(*                                                                         *)
(* A critical section of State::m_mutex is one action; a notification      *)
(* after the unlock is another.  The default stream is a queue of which    *)
(* only the length matters: operations 1..executed have run, the ones up   *)
(* to issued are waiting.                                                  *)
(***************************************************************************)
EXTENDS Naturals, Sequences, FiniteSets

CONSTANTS
  Uploads,     (* requests that create a tensor and write to it             *)
  Downloads,   (* requests that read device memory the user keeps alive     *)
  Flushers,    (* threads that may call KuDevice::flush                     *)
  LaneCount,   (* m_parallelism                                             *)
  Chunks       (* staging buffers a request is cut into                     *)

Requests == Uploads \cup Downloads
Lanes    == 0 .. LaneCount - 1

Stop     == "stop"   \* names the thread that shuts the device down

ASSUME RequestsAssumption == IsFiniteSet(Requests) /\ Uploads \cap Downloads = {}
ASSUME ThreadsAssumption == Requests \cap Flushers = {} /\ Stop \notin Requests \cup Flushers
ASSUME CountsAssumption == LaneCount \in Nat \ {0} /\ Chunks \in Nat \ {0}

VARIABLES
  accepting,      (* m_accepting                                            *)
  activeTasks,    (* m_activeTasks                                          *)
  availableLanes, (* m_availableLanes, a stack                              *)
  lanes,          (* the lanes that m_lanes still owns                      *)
  staging,        (* what each lane's staging buffer holds                  *)
  call,           (* progress of the call that submits each request         *)
  run,            (* progress of the scheduler thread that runs the request *)
  lane,           (* the lane it holds, as a set                            *)
  status,         (* the result of State::copy                              *)
  copied,         (* history: what reached the destination, chunk by chunk  *)
  retaining,      (* m_acceptRetainedObject of the request's completion     *)
  refs,           (* who holds a counted reference to the upload's tensor   *)
  allocated,      (* position of the tensor's allocation on the stream, or 0*)
  freed,          (* position of its release, or 0                          *)
  issued,         (* operations enqueued on the default stream              *)
  executed,       (* operations of it that the device has run               *)
  target,         (* what a pending stream_synchronize waits for; 0: none    *)
  flush,          (* progress of each flushing thread                       *)
  before,         (* history: requests handed over before a flush began     *)
  dropped,        (* history: tensors the user had given up by then         *)
  stop,           (* progress of KuDevice::shutdown                         *)
  pool            (* the device's memory pool                               *)

admission == <<accepting, activeTasks>>
laneState == <<availableLanes, lanes, staging>>
work      == <<lane, status, copied>>
tensor    == <<retaining, refs, allocated, freed>>
stream    == <<issued, executed, target>>
flushing  == <<flush, before, dropped>>
teardown  == <<stop, pool>>
vars == <<admission, laneState, call, run, work, tensor, stream, flushing, teardown>>

CallStates  == {"idle", "built", "admitted", "undo", "undo notify", "rejected",
                "retain", "returned", "failed"}
RunStates   == {"none", "queued", "sync", "acquire", "asleep", "first half",
                "second half", "release", "notify lane", "prepare", "drop",
                "finish", "notify idle", "signal", "done"}
FlushStates == {"idle", "asleep", "test", "sync", "syncing"}
StopStates  == {"up", "asleep", "test", "release", "sync", "syncing", "pool",
                "stream", "down"}

Init ==
  /\ accepting = TRUE /\ activeTasks = 0
  /\ availableLanes = [i \in 1 .. LaneCount |-> LaneCount - i]
  /\ lanes = Lanes /\ staging = [l \in Lanes |-> <<>>]
  /\ call = [r \in Requests |-> "idle"] /\ run = [r \in Requests |-> "none"]
  /\ lane = [r \in Requests |-> {}] /\ status = [r \in Requests |-> "none"]
  /\ copied = [r \in Requests |-> <<>>]
  /\ retaining = [r \in Requests |-> TRUE] /\ refs = [r \in Requests |-> {}]
  /\ allocated = [r \in Requests |-> 0] /\ freed = [r \in Requests |-> 0]
  /\ issued = 0 /\ executed = 0
  /\ target = [x \in Requests \cup Flushers \cup {Stop} |-> 0]
  /\ flush = [f \in Flushers |-> "idle"]
  /\ before = [f \in Flushers |-> {}] /\ dropped = [f \in Flushers |-> {}]
  /\ stop = "up" /\ pool = "live"

-----------------------------------------------------------------------------
(* The default stream *)

Execute ==
  /\ executed < issued
  /\ executed' = executed + 1
  /\ UNCHANGED <<admission, laneState, call, run, work, tensor, issued, target,
                 flushing, teardown>>

\* stream_synchronize waits for what was enqueued when it was called.
BeginSync(x) == target' = [target EXCEPT ![x] = issued] /\ UNCHANGED <<issued, executed>>
Synced(x)    == executed >= target[x]
EndSync(x)   == target' = [target EXCEPT ![x] = 0] /\ UNCHANGED <<issued, executed>>

\* One reference to the tensor goes; the last one enqueues the release of its memory.
DropTensor(r, holder) ==
  /\ refs' = [refs EXCEPT ![r] = @ \ {holder}]
  /\ IF refs[r] = {holder}
     THEN issued' = issued + 1 /\ freed' = [freed EXCEPT ![r] = issued + 1]
     ELSE UNCHANGED <<issued, freed>>
  /\ UNCHANGED <<retaining, allocated, executed, target>>

-----------------------------------------------------------------------------
(* The submitting call *)

Goto(r, there) == call' = [call EXCEPT ![r] = there]

\* Up to the construction of the Task, which keeps State alive from here on; an upload
\* has created its tensor by then.
BuildTask(r) ==
  /\ call[r] = "idle" /\ stop = "up"
  /\ Goto(r, "built")
  /\ IF r \in Uploads
     THEN /\ issued' = issued + 1
          /\ allocated' = [allocated EXCEPT ![r] = issued + 1]
          /\ refs' = [refs EXCEPT ![r] = {"caller"}]
     ELSE UNCHANGED <<issued, allocated, refs>>
  /\ UNCHANGED <<admission, laneState, run, work, retaining, freed, executed, target,
                 flushing, teardown>>

\* The upload has the wrong size, or the completion or the Task cannot be allocated.
CannotBuild(r) ==
  /\ call[r] = "built"
  /\ Goto(r, "rejected")
  /\ UNCHANGED <<admission, laneState, run, work, tensor, stream, flushing, teardown>>

\* Mutant of Admit: a request is admitted without being counted.
AdmitUncounted(r) ==
  /\ call[r] = "built"
  /\ Goto(r, IF accepting THEN "admitted" ELSE "rejected")
  /\ UNCHANGED <<admission, laneState, run, work, tensor, stream, flushing, teardown>>

\* Mutant of Admit: m_accepting is not consulted.
AdmitAlways(r) ==
  /\ call[r] = "built"
  /\ Goto(r, "admitted") /\ activeTasks' = activeTasks + 1
  /\ UNCHANGED <<accepting, laneState, run, work, tensor, stream, flushing, teardown>>

\* submit, critical section.
Admit(r) ==
  /\ call[r] = "built"
  /\ IF accepting
     THEN Goto(r, "admitted") /\ activeTasks' = activeTasks + 1
     ELSE Goto(r, "rejected") /\ UNCHANGED activeTasks
  /\ UNCHANGED <<accepting, laneState, run, work, tensor, stream, flushing, teardown>>

SchedulerAccepts(r) ==
  /\ call[r] = "admitted"
  /\ Goto(r, IF r \in Uploads THEN "retain" ELSE "returned")
  /\ run' = [run EXCEPT ![r] = "queued"]
  /\ UNCHANGED <<admission, laneState, work, tensor, stream, flushing, teardown>>

SchedulerRefuses(r) ==
  /\ call[r] = "admitted"
  /\ Goto(r, "undo")
  /\ UNCHANGED <<admission, laneState, run, work, tensor, stream, flushing, teardown>>

\* taskFinished, critical section.
TaskFinished ==
  /\ activeTasks' = activeTasks - 1
  /\ UNCHANGED accepting

\* The threads asleep on m_idle test their predicate again.
WakeIdle ==
  /\ flush' = [f \in Flushers |-> IF flush[f] = "asleep" THEN "test" ELSE flush[f]]
  /\ stop' = IF stop = "asleep" THEN "test" ELSE stop
  /\ UNCHANGED <<before, dropped, pool>>

\* Mutant of UndoAdmission: a refused request stays counted.
UndoNothing(r) ==
  /\ call[r] = "undo"
  /\ Goto(r, "rejected")
  /\ UNCHANGED <<admission, laneState, run, work, tensor, stream, flushing, teardown>>

\* Mutant of UndoAdmission: the count reaches zero and nobody is told.
UndoSilently(r) ==
  /\ call[r] = "undo"
  /\ TaskFinished
  /\ Goto(r, "rejected")
  /\ UNCHANGED <<laneState, run, work, tensor, stream, flushing, teardown>>

UndoAdmission(r) ==
  /\ call[r] = "undo"
  /\ TaskFinished
  /\ Goto(r, IF activeTasks = 1 THEN "undo notify" ELSE "rejected")
  /\ UNCHANGED <<laneState, run, work, tensor, stream, flushing, teardown>>

UndoNotify(r) ==
  /\ call[r] = "undo notify"
  /\ WakeIdle
  /\ Goto(r, "rejected")
  /\ UNCHANGED <<admission, laneState, run, work, tensor, stream>>

\* The call returns an error and destroys its tensor.
Fail(r) ==
  /\ call[r] = "rejected"
  /\ Goto(r, "failed")
  /\ DropTensor(r, "caller")
  /\ UNCHANGED <<admission, laneState, run, work, flushing, teardown>>

\* Mutant of Retain: the tensor is retained after retention was closed.
RetainAlways(r) ==
  /\ call[r] = "retain"
  /\ Goto(r, "returned")
  /\ refs' = [refs EXCEPT ![r] = @ \cup {"completion"}]
  /\ UNCHANGED <<admission, laneState, run, work, retaining, allocated, freed, stream,
                 flushing, teardown>>

\* retainUntilCompletion, after which the upload's call returns.
Retain(r) ==
  /\ call[r] = "retain"
  /\ Goto(r, "returned")
  /\ refs' = [refs EXCEPT ![r] = IF retaining[r] THEN @ \cup {"completion"} ELSE @]
  /\ UNCHANGED <<admission, laneState, run, work, retaining, allocated, freed, stream,
                 flushing, teardown>>

\* The user releases the tensor, before or after the copy is done.
UserDrops(r) ==
  /\ call[r] = "returned" /\ "caller" \in refs[r]
  /\ DropTensor(r, "caller")
  /\ UNCHANGED <<admission, laneState, call, run, work, flushing, teardown>>

-----------------------------------------------------------------------------
(* runTask *)

Step(r, from, to) == run[r] = from /\ run' = [run EXCEPT ![r] = to]

Outcome(r, s) == status' = [status EXCEPT ![r] = s]

\* Mutant of StartCopy: NOT_READY is taken for success.
StartWithoutSync(r) ==
  /\ Step(r, "queued", "acquire")
  /\ UNCHANGED <<admission, laneState, call, work, tensor, stream, flushing, teardown>>

\* copy: the device is selected and the dependency stream queried.
StartCopy(r) ==
  /\ \/ /\ executed = issued
        /\ Step(r, "queued", "acquire")
        /\ UNCHANGED <<status, stream>>
     \/ /\ executed < issued
        /\ Step(r, "queued", "sync")
        /\ BeginSync(r)
        /\ UNCHANGED status
     \/ /\ Step(r, "queued", "prepare")
        /\ Outcome(r, "DEVICE_ERROR")
        /\ UNCHANGED stream
  /\ UNCHANGED <<admission, laneState, call, lane, copied, tensor, flushing, teardown>>

DependencySynced(r) ==
  /\ \/ /\ Synced(r)
        /\ Step(r, "sync", "acquire")
        /\ UNCHANGED status
     \/ /\ Step(r, "sync", "prepare")
        /\ Outcome(r, "DEVICE_ERROR")
  /\ EndSync(r)
  /\ UNCHANGED <<admission, laneState, call, lane, copied, tensor, flushing, teardown>>

\* Mutant of AcquireLane: back() without pop_back().
AcquireWithoutPop(r) ==
  /\ IF availableLanes = <<>>
     THEN Step(r, "acquire", "asleep") /\ UNCHANGED lane
     ELSE /\ Step(r, "acquire", "first half")
          /\ lane' = [lane EXCEPT ![r] = {availableLanes[Len(availableLanes)]}]
  /\ UNCHANGED <<admission, laneState, call, status, copied, tensor, stream, flushing,
                 teardown>>

\* acquireLane: the predicate of m_laneReady is tested under the lock.
AcquireLane(r) ==
  /\ IF availableLanes = <<>>
     THEN Step(r, "acquire", "asleep") /\ UNCHANGED <<availableLanes, lane>>
     ELSE LET top == Len(availableLanes) IN
          /\ Step(r, "acquire", "first half")
          /\ lane' = [lane EXCEPT ![r] = {availableLanes[top]}]
          /\ availableLanes' = SubSeq(availableLanes, 1, top - 1)
  /\ UNCHANGED <<admission, lanes, staging, call, status, copied, tensor, stream, flushing,
                 teardown>>

SpuriousLaneWakeup(r) ==
  /\ Step(r, "asleep", "acquire")
  /\ UNCHANGED <<admission, laneState, call, work, tensor, stream, flushing, teardown>>

\* copyWithLane.  The next chunk of r enters the staging buffer and then leaves it.
NextChunk(r) == Len(copied[r]) + 1

FillStaging(r) ==
  /\ Step(r, "first half", "second half")
  /\ staging' = [l \in Lanes |-> IF l \in lane[r] THEN <<r, NextChunk(r)>> ELSE staging[l]]
  /\ UNCHANGED <<admission, availableLanes, lanes, call, work, tensor, stream, flushing,
                 teardown>>

\* Mutant of DrainStaging: the loop ends one chunk early.
DrainOneLess(r) ==
  /\ Step(r, "second half", IF NextChunk(r) + 1 >= Chunks THEN "release" ELSE "first half")
  /\ \E l \in lane[r] : copied' = [copied EXCEPT ![r] = Append(@, staging[l])]
  /\ IF NextChunk(r) + 1 >= Chunks THEN Outcome(r, "SUCCESS") ELSE UNCHANGED status
  /\ UNCHANGED <<admission, laneState, call, lane, tensor, stream, flushing, teardown>>

DrainStaging(r) ==
  /\ Step(r, "second half", IF NextChunk(r) = Chunks THEN "release" ELSE "first half")
  /\ \E l \in lane[r] : copied' = [copied EXCEPT ![r] = Append(@, staging[l])]
  /\ IF NextChunk(r) = Chunks THEN Outcome(r, "SUCCESS") ELSE UNCHANGED status
  /\ UNCHANGED <<admission, laneState, call, lane, tensor, stream, flushing, teardown>>

\* The device half of a chunk is the second of an upload and the first of a download;
\* either its launch or its synchronization may fail.
DeviceHalf(r) == IF r \in Uploads THEN "second half" ELSE "first half"

ChunkFails(r) ==
  /\ Step(r, DeviceHalf(r), "release")
  /\ Outcome(r, "DEVICE_ERROR")
  /\ UNCHANGED <<admission, laneState, call, lane, copied, tensor, stream, flushing, teardown>>

\* releaseLane, critical section.
ReleaseLane(r) ==
  /\ Step(r, "release", "notify lane")
  /\ \E l \in lane[r] : availableLanes' = Append(availableLanes, l)
  /\ lane' = [lane EXCEPT ![r] = {}]
  /\ UNCHANGED <<admission, lanes, staging, call, status, copied, tensor, stream, flushing,
                 teardown>>

LaneSleepers == {q \in Requests : run[q] = "asleep"}

\* Mutant of NotifyLane: the notification is missing.
NotifyNoLane(r) ==
  /\ Step(r, "notify lane", "prepare")
  /\ UNCHANGED <<admission, laneState, call, work, tensor, stream, flushing, teardown>>

\* m_laneReady.notify_one
NotifyLane(r) ==
  /\ run[r] = "notify lane"
  /\ IF LaneSleepers = {} THEN run' = [run EXCEPT ![r] = "prepare"]
     ELSE \E q \in LaneSleepers : run' = [run EXCEPT ![r] = "prepare", ![q] = "acquire"]
  /\ UNCHANGED <<admission, laneState, call, work, tensor, stream, flushing, teardown>>

\* prepareToSignal: what the completion retained moves to a local of this thread ...
PrepareToSignal(r) ==
  /\ Step(r, "prepare", "drop")
  /\ retaining' = [retaining EXCEPT ![r] = FALSE]
  /\ refs' = [refs EXCEPT ![r] =
       IF "completion" \in @ THEN (@ \ {"completion"}) \cup {"worker"} ELSE @]
  /\ UNCHANGED <<admission, laneState, call, work, allocated, freed, stream, flushing,
                 teardown>>

\* ... and is released at the end of its scope.
ReleaseRetained(r) ==
  /\ Step(r, "drop", "finish")
  /\ DropTensor(r, "worker")
  /\ UNCHANGED <<admission, laneState, call, work, flushing, teardown>>

FinishTask(r) ==
  /\ Step(r, "finish", IF activeTasks = 1 THEN "notify idle" ELSE "signal")
  /\ TaskFinished
  /\ UNCHANGED <<laneState, call, work, tensor, stream, flushing, teardown>>

NotifyIdle(r) ==
  /\ Step(r, "notify idle", "signal")
  /\ WakeIdle
  /\ UNCHANGED <<admission, laneState, call, work, tensor, stream>>

\* signal(status); the task's references to the completion and to State go.
Signal(r) ==
  /\ Step(r, "signal", "done")
  /\ UNCHANGED <<admission, laneState, call, work, tensor, stream, flushing, teardown>>

-----------------------------------------------------------------------------
(* KuDevice::flush *)

FlushTo(f, there) == flush' = [flush EXCEPT ![f] = there]

\* waitIdle, the test of the predicate of m_idle under the lock.
TestIdle(f) == FlushTo(f, IF activeTasks = 0 THEN "sync" ELSE "asleep")

BeginFlush(f) ==
  /\ flush[f] = "idle" /\ stop = "up"
  /\ TestIdle(f)
  /\ before' = [before EXCEPT ![f] = {r \in Requests : call[r] = "returned"}]
  /\ dropped' = [dropped EXCEPT ![f] =
       {r \in Uploads : call[r] = "returned" /\ "caller" \notin refs[r]}]
  /\ UNCHANGED <<admission, laneState, call, run, work, tensor, stream, teardown>>

FlushRetest(f) ==
  /\ flush[f] = "test"
  /\ TestIdle(f)
  /\ UNCHANGED <<admission, laneState, call, run, work, tensor, stream, before, dropped,
                 teardown>>

SpuriousFlushWakeup(f) ==
  /\ flush[f] = "asleep"
  /\ FlushTo(f, "test")
  /\ UNCHANGED <<admission, laneState, call, run, work, tensor, stream, before, dropped,
                 teardown>>

FlushSynchronizes(f) ==
  /\ flush[f] = "sync"
  /\ FlushTo(f, "syncing")
  /\ BeginSync(f)
  /\ UNCHANGED <<admission, laneState, call, run, work, tensor, before, dropped, teardown>>

EndFlush(f) ==
  /\ FlushTo(f, "idle")
  /\ before' = [before EXCEPT ![f] = {}] /\ dropped' = [dropped EXCEPT ![f] = {}]
  /\ EndSync(f)
  /\ UNCHANGED <<admission, laneState, call, run, work, tensor, teardown>>

FlushSucceeds(f) == flush[f] = "syncing" /\ Synced(f) /\ EndFlush(f)

\* The device cannot be selected, or its synchronization reports an error.
FlushFails(f) == flush[f] \in {"sync", "syncing"} /\ EndFlush(f)

-----------------------------------------------------------------------------
(* KuDevice::shutdown *)

StopTo(there) == stop' = there

\* Mutant of TestDrained: shutdown does not wait for active tasks.
DoNotDrain == StopTo("release")

TestDrained == StopTo(IF activeTasks = 0 THEN "release" ELSE "asleep")

\* ku_instance_destroy invalidates the device handle: the user has no tensor of the
\* device, no flush and no upload under way.  A download may still be inside submit;
\* its Task keeps State alive, and m_accepting decides its fate.
StopAndWait ==
  /\ stop = "up"
  /\ \A f \in Flushers : flush[f] = "idle"
  /\ \A r \in Uploads : call[r] \in {"idle", "returned", "failed"} /\ "caller" \notin refs[r]
  /\ accepting' = FALSE
  /\ TestDrained
  /\ UNCHANGED <<activeTasks, laneState, call, run, work, tensor, stream, flushing, pool>>

StopRetest ==
  /\ stop = "test"
  /\ TestDrained
  /\ UNCHANGED <<admission, laneState, call, run, work, tensor, stream, flushing, pool>>

SpuriousStopWakeup ==
  /\ stop = "asleep"
  /\ StopTo("test")
  /\ UNCHANGED <<admission, laneState, call, run, work, tensor, stream, flushing, pool>>

\* releaseResources and the end of ~KuNativeHostTransfer.
ReleaseResources ==
  /\ stop = "release"
  /\ availableLanes' = <<>>
  /\ lanes' = {}
  /\ StopTo("sync")
  /\ UNCHANGED <<admission, staging, call, run, work, tensor, stream, flushing, pool>>

ShutdownSynchronizes ==
  /\ stop = "sync"
  /\ StopTo("syncing")
  /\ BeginSync(Stop)
  /\ UNCHANGED <<admission, laneState, call, run, work, tensor, flushing, pool>>

\* Selection or synchronization failed: pool and stream are abandoned.
AbandonResources ==
  /\ stop \in {"sync", "syncing"}
  /\ StopTo("down")
  /\ pool' = "abandoned"
  /\ UNCHANGED <<admission, laneState, call, run, work, tensor, stream, flushing>>

ShutdownSynced ==
  /\ stop = "syncing" /\ Synced(Stop)
  /\ StopTo("pool")
  /\ UNCHANGED <<admission, laneState, call, run, work, tensor, stream, flushing, pool>>

\* do_shutdown of the memory resource, and its destruction.
DestroyPool ==
  /\ stop = "pool"
  /\ StopTo("stream")
  /\ pool' = "destroyed"
  /\ UNCHANGED <<admission, laneState, call, run, work, tensor, stream, flushing>>

DestroyStream ==
  /\ stop = "stream"
  /\ StopTo("down")
  /\ UNCHANGED <<admission, laneState, call, run, work, tensor, stream, flushing, pool>>

-----------------------------------------------------------------------------
\* What a submitting call does once it is under way.
CallStep(r) ==
  \/ CannotBuild(r) \/ Admit(r) \/ SchedulerAccepts(r) \/ SchedulerRefuses(r)
  \/ UndoAdmission(r) \/ UndoNotify(r) \/ Fail(r) \/ Retain(r)

RunStep(r) ==
  \/ StartCopy(r) \/ DependencySynced(r) \/ AcquireLane(r)
  \/ FillStaging(r) \/ DrainStaging(r) \/ ChunkFails(r)
  \/ ReleaseLane(r) \/ NotifyLane(r)
  \/ PrepareToSignal(r) \/ ReleaseRetained(r)
  \/ FinishTask(r) \/ NotifyIdle(r) \/ Signal(r)

FlushStep(f) == FlushRetest(f) \/ FlushSynchronizes(f) \/ FlushSucceeds(f) \/ FlushFails(f)

StopStep ==
  \/ StopRetest \/ ReleaseResources \/ ShutdownSynchronizes \/ AbandonResources
  \/ ShutdownSynced \/ DestroyPool \/ DestroyStream

Next ==
  \/ Execute
  \/ \E r \in Requests : \/ BuildTask(r) \/ CallStep(r) \/ UserDrops(r)
                         \/ RunStep(r) \/ SpuriousLaneWakeup(r)
  \/ \E f \in Flushers : BeginFlush(f) \/ FlushStep(f) \/ SpuriousFlushWakeup(f)
  \/ StopAndWait \/ StopStep \/ SpuriousStopWakeup

\* The device executes its stream; the scheduler runs what it accepted; a call, a flush
\* and a shutdown go on once begun.  Nobody is obliged to begin one.
Fairness ==
  /\ WF_vars(Execute) /\ WF_vars(StopStep)
  /\ \A r \in Requests : WF_vars(CallStep(r)) /\ WF_vars(RunStep(r))
  /\ \A f \in Flushers : WF_vars(FlushStep(f))

SafetySpec == Init /\ [][Next]_vars

Spec == SafetySpec /\ Fairness

-----------------------------------------------------------------------------
(* Properties *)

ControlTypes ==
  /\ accepting \in BOOLEAN
  /\ call \in [Requests -> CallStates] /\ run \in [Requests -> RunStates]
  /\ status \in [Requests -> {"none", "SUCCESS", "DEVICE_ERROR"}]
  /\ retaining \in [Requests -> BOOLEAN]
  /\ refs \in [Requests -> SUBSET {"caller", "completion", "worker"}]
  /\ flush \in [Flushers -> FlushStates]
  /\ before \in [Flushers -> SUBSET Requests] /\ dropped \in [Flushers -> SUBSET Requests]
  /\ stop \in StopStates /\ pool \in {"live", "abandoned", "destroyed"}

Pieces == Requests \X (1 .. Chunks)

LaneTypes ==
  /\ availableLanes \in Seq(Lanes) /\ lanes \in SUBSET Lanes
  /\ staging \in [Lanes -> {<<>>} \cup Pieces]
  /\ lane \in [Requests -> SUBSET Lanes]
  /\ copied \in [Requests -> Seq(Pieces)]

StreamTypes ==
  /\ issued \in Nat /\ executed \in 0 .. issued
  /\ allocated \in [Requests -> 0 .. issued] /\ freed \in [Requests -> 0 .. issued]
  /\ target \in [Requests \cup Flushers \cup {Stop} -> 0 .. issued]

\* Every variable holds a value of its kind; m_activeTasks does not wrap below zero.
TypeOK == ControlTypes /\ LaneTypes /\ StreamTypes /\ activeTasks \in Nat

Finished == {"notify idle", "signal", "done"}
InUse    == {"first half", "second half", "release"}

\* Requests that were admitted and have not yet been counted out again.
Counted ==
  {r \in Requests : \/ call[r] \in {"admitted", "undo"}
                    \/ run[r] \notin {"none"} \cup Finished}

\* m_activeTasks counts exactly the admitted requests whose copy, and whose release of
\* the retained tensor, is still to come: it can neither wrap below zero nor leave a
\* waiter behind, on the path where the scheduler refuses the task as well.
TaskAccounting == activeTasks = Cardinality(Counted)

StackDistinct ==
  \A i, j \in DOMAIN availableLanes : availableLanes[i] = availableLanes[j] => i = j
StackExists == \A i \in DOMAIN availableLanes : availableLanes[i] \in lanes
UsersHoldOne ==
  \A r \in Requests : IF run[r] \in InUse THEN \E l \in lanes : lane[r] = {l} ELSE lane[r] = {}
StackNotHeld ==
  \A r \in Requests : \A i \in DOMAIN availableLanes : availableLanes[i] \notin lane[r]
HeldOnce == \A q, r \in Requests : q # r => lane[q] \cap lane[r] = {}
NoneLost ==
  \A l \in lanes : \/ \E i \in DOMAIN availableLanes : availableLanes[i] = l
                   \/ \E r \in Requests : l \in lane[r]

\* The lanes on the stack and the ones that threads hold are distinct, and together all
\* there are: a lane is never lost, listed twice, or used by two copies at once.
LanesPartitioned ==
  StackDistinct /\ StackExists /\ UsersHoldOne /\ StackNotHeld /\ HeldOnce /\ NoneLost

\* SUCCESS means that exactly the request's own chunks arrived, in order, whoever else
\* used the staging buffer in between.
CopyIsComplete ==
  \A r \in Requests :
    status[r] = "SUCCESS" => copied[r] = [k \in 1 .. Chunks |-> <<r, k>>]

\* While a thread uses a lane, the lane exists, the tensor it writes to is referenced
\* and its memory has been allocated in stream order, and has not been released.
NoUseAfterFree ==
  \A r \in Requests : run[r] \in InUse =>
    /\ lane[r] \subseteq lanes
    /\ r \in Uploads => /\ refs[r] # {} /\ freed[r] = 0
                        /\ allocated[r] \in 1 .. executed

\* Teardown happens below everything that needs it: once shutdown releases lanes, no
\* admitted request is left that could touch them, the stream or the pool; and the pool
\* is destroyed only after every tensor was released and the stream ran the release.
SafeTeardown ==
  /\ stop \notin {"up", "asleep", "test"} => ~accepting /\ Counted = {}
  /\ pool = "destroyed" =>
       /\ executed = issued
       /\ \A r \in Uploads : refs[r] = {} /\ (allocated[r] # 0 => freed[r] # 0)

\* When waitIdle lets a flush go on, the copies handed over before the flush are done
\* and the tensors given up before it are released; so that when the flush returns
\* their memory is back in the pool.
FlushDrains ==
  \A f \in Flushers :
    /\ flush[f] \in {"sync", "syncing"} =>
         /\ \A r \in before[f] : run[r] \in Finished
         /\ \A r \in dropped[f] : refs[r] = {}
    /\ flush[f] = "syncing" => \A r \in dropped[f] : freed[r] \in 1 .. target[f]

\* Every copy that a caller was given a completion for is signalled.
CopiesComplete == \A r \in Requests : call[r] \in {"retain", "returned"} ~> run[r] = "done"

\* A flush returns, and a shutdown ends, whatever was in flight.
WaitersReturn ==
  /\ \A f \in Flushers : flush[f] # "idle" ~> flush[f] = "idle"
  /\ stop # "up" ~> stop = "down"

-----------------------------------------------------------------------------
(* What the user of the device sees *)

\* A request is under way from the moment the scheduler has it until its completion lets
\* go of what it retains.
Outcomes == [r \in Requests |->
  CASE call[r] \in {"undo", "undo notify", "rejected", "failed"} -> "refused"
    [] call[r] \in {"idle", "built", "admitted"} -> "new"
    [] run[r] \in {"drop", "finish"} \cup Finished -> status[r]
    [] OTHER -> "under way"]

Memories == [r \in Requests |->
  IF allocated[r] = 0 THEN "none" ELSE IF freed[r] = 0 THEN "held" ELSE "released"]

WholeRequest(r) == [k \in 1 .. Chunks |-> <<r, k>>]

Arrived   == {r \in Requests : copied[r] = WholeRequest(r)}
HandedOut == {r \in Requests : call[r] = "returned"}
Told      == {r \in Requests : run[r] = "done"}
Kept      == {r \in Requests : "caller" \in refs[r]}
InFlush   == {f \in Flushers : flush[f] # "idle"}
UpOrDown  == IF stop \in {"up", "asleep", "test"} THEN "up" ELSE "down"

Promise == INSTANCE DeviceCopies WITH
  Copies <- Requests, outcome <- Outcomes, arrived <- Arrived, handed <- HandedOut,
  told <- Told, memory <- Memories, kept <- Kept, flushing <- InFlush, owed <- before,
  due <- dropped, device <- UpOrDown

\* Whatever lanes, scheduler threads and condition variables do, a user sees copies that
\* end once and with the result they deserve, tensors that live as long as they must and
\* no longer, flushes that flush and a device that goes down at rest.
ImplementsPromise == Promise!Spec
=============================================================================
