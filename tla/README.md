# TLA+ models of Kuai

This directory specifies the concurrent core of Kuai's native runtime
(`src/kurt-cpp`), the ownership rules of its Rust binding (`src/crates/kurt`) and
the front end of the language (`src/crates/kuai-*`, `src/kuai`), checks them with
TLC on small instances and proves the main safety properties of the runtime and the
binding with TLAPS for all instances. Run the tools in this directory:

    tlc -workers 2 -config KuHostTransfer.cfg KuHostTransfer
    tlapm KuHostTransfer_proofs.tla

## 1. The system

Kuai is a language (`crates/kuai-*`, `kuai`) over a runtime for typed tensors
(`kurt-cpp`, called from Rust through `crates/kurt` and `crates/kurt-sys`). The
runtime is where threads meet: an *instance* per vendor backend owns *devices*;
each device owns a default stream, a memory pool and a *host transfer*, which
copies between host and device on threads of a *scheduler*; a *completion* tells
the outcome of a copy to whoever waits for it.

    application threads                scheduler threads
      | ku_instance_*                    | task.run
      v                                  v
    KuInstanceRegistry              KuNativeHostTransfer::runTask
      | slot, module mutexes             | lanes, staging buffers, native streams
      v                                  |
    KuInstance -> KuDevice -> KuNativeHostTransfer -> scheduler.submit
                    | shutdown, flush        |
                    v                        v
             default stream, pool       KuCompletion -> waiters, one callback

### Components

| component | state | operations | what makes it correct |
|---|---|---|---|
| `KuCompletion` | completed, status, callback, retained object, reference count | wait, onCompletion, retainUntilCompletion, prepareToSignal, signal, retain, release | one result; every waiter gets it; the callback runs once; nobody is inside a deleted object; the tensor lives as long as the copy and not longer |
| `KuDefaultScheduler` | queue, stopping, worker threads | construct, submit, workerLoop, stopAndJoin | accepted tasks run once, in order, before the join ends; the join ends |
| `KuNativeHostTransfer` | accepting, active tasks, lanes and the stack of free ones, tasks | copyAsync/submit, runTask, waitIdle, stopAndWait, releaseResources | lanes are never shared; SUCCESS means copied; teardown and flush wait for what they must, and for no more |
| `KuDevice` | default stream, memory resource, host transfer | initialize, flush, synchronize, copyAsync, createTensor, shutdown | stream order: allocate, write, free, destroy the pool; abandon rather than free after a failure |
| `KuNativeMemoryResource`, `KuDeviceBuffer` | pool, allocations | allocate, deallocate, shutdown | sizes do not wrap; release in stream order |
| `KuInstanceRegistry` | slots by vendor, handles, two global mutexes and one per slot | init, flush, destroy | one instance per vendor; a handle is a token; calls appear to happen one at a time; no deadlock |
| `KuInstance` | devices, capabilities, vendor module | create, flush, shutdown, accessors | all devices or none; the first failure is reported and stops nothing |
| `KuModuleManager` | cache of libraries, without a lock | loadLibrary | one user at a time |
| `KuDeviceGuard` | previous device | construct, destroy | nested guards restore the device |
| `KuTensor`, `KuTensorBuilder` | shape, storage | create, wrap, clone | counts and sizes do not overflow |
| `KuSmallBuffer`, `KuArray`, frame context | inline or heap storage; call frame | append, copy, move | contents survive growth |
| vendor templates: `KuHandlePool`, `KuModule`, `KuOverload`, views, reduce and scan | pool of library handles; tables of overloads | acquire; dispatch; index arithmetic | every handle destroyed once; one overload is chosen; views stay in range |
| `kurt`: `KuInstance`, `KuArc`, views | the strong count of the instance, a native reference per owner, the lifetime each owner borrows | new, clone, close, drop, create, retain, get, convert, upload, download | the instance outlives what depends on it and goes with its last owner; references balance; no copy outlives its buffers |
| `kurt`: `KuCCall` | result slots, decoded values | call, flush, retry, decode | nothing is released before the device has been waited for, everything once after it; no results while it works; the call returns |
| `kuai-syntax` | the scanner's position, diagnostics | parse, recover, print | the documented grammar is parsed; nothing is lost without a diagnostic; the printed tree tells programs apart |
| `kuai-sema` | the chain of scopes, diagnostics | resolve, define, push, pop | names resolve to the visible declaration; the first definition stays |
| `kuai-driver`, `kuai` | the context of a session and its mutex | read a line, accept a client, compile | both threads see one context; neither blocks the other for ever |
| CPU and CUDA backends, `kurt-sys`, `xtask`, CMake | none of interest | | |

### Interactions and hard behaviour

* The thread that starts a copy and the thread that runs it race from the first
  moment: the copy may be over before `retainUntilCompletion` is reached.
* Every condition variable is notified *after* its mutex is released.
* `runTask` finishes in the order *release the tensor, count the task out, signal*;
  a flush or a shutdown may overtake the signal.
* The scheduler may be the application's: it may refuse a task, run more tasks at
  once than there are lanes, and run them in any order.
* The last reference to a completion or tensor may go on any thread, also inside a
  callback.
* Any backend call may fail, during shutdown too.
* The registry takes a slot mutex, then the module mutex or the registry mutex;
  between finding a slot and locking it, the instance may be gone, and another may
  have been built at its address.

* The borrow checker is the only thing that keeps a Rust owner of an object from outliving
  the instance; every `unsafe` conversion states a lifetime by hand.
* A callee may fail, report too few slots or leave references behind while the device is
  still at work for it.
* The parser recovers from errors by skipping tokens, and takes a text the scanner does not
  know for the end.
* A panic while the context of a session is locked poisons it for the other thread.

`PROJECT.json` lists these behaviours under `hazards`, each at its line, with the
properties that cover it.

## 2. The modules

| module | models | checked by | proved in |
|---|---|---|---|
| `OneShotCompletion` | what `ku_completion.h` promises | as a property of `KuCompletion` | its implementation, in `KuCompletion_proofs` |
| `KuCompletion` | `KuCompletion.cpp`, the tail of `runTask`, the clients | run `completion` | `KuCompletion_proofs` |
| `TaskExecutor` | the contract of `ku_scheduler_t` | as a property of `KuScheduler` | its implementation, in `KuScheduler_proofs` |
| `KuScheduler` | `KuDefaultScheduler` | run `scheduler` | `KuScheduler_proofs` |
| `DeviceCopies` | what the asynchronous copies of a device promise to the one who makes them | as a property of `KuHostTransfer` | its implementation, in `KuHostTransferRefinement_proofs` |
| `KuHostTransfer` | `KuHostTransfer.cpp` with `KuDevice::flush` and `shutdown` and the life of tensors | runs `host_transfer`, `host_transfer_lanes` | `KuHostTransfer_proofs`, `KuHostTransferProgress_proofs` |
| `InstanceTokens` | what `ku_runtime.h` promises of instances | as a property of `KuInstanceRegistry` | its implementation, in `KuInstanceRegistry_proofs` |
| `KuInstanceRegistry` | `KuInstanceRegistry.cpp`, with construction and teardown of `KuInstance` and the module manager | run `instance_registry` | `KuInstanceRegistry_proofs` |
| `KuOwners` | `ku_instance.rs`, `ku_arc.rs`, `ku_object.rs`, `ku_array.rs`, the transfers of `ku_tensor.rs` | runs `owners`, `owners_close` | `KuOwners_proofs` |
| `KuCall` | `ku_c_call.rs` | run `call` | `KuCall_proofs` |
| `KuSyntax` | `lexer.rs`, `ast.rs` | with the parser | |
| `KuParser` | `parser.rs` | runs `parser`, `parser_panic`, `parser_fields` | |
| `KuPretty` | `pretty.rs` | run `parser` | |
| `KuGrammar` | the expressions and struct fields of `GRAMMAR.ebnf`, as the reference the parser is compared with | run `parser` | |
| `KuParserMC` | nothing of the code: it puts short texts into the constructs of the language | | |
| `KuResolver` | `resolver.rs`, `symbol.rs`, and lexical scoping without a stack as the reference | run `session` | |
| `KuSession` | `main.rs` and `Compiler::compile`, composed of `KuParser` and `KuResolver` | run `session`, with the texts of `KuSessionMC` | |

Conventions. One critical section of a mutex is one action; what the code does
between two critical sections (a notification, a change of a reference count, a
callback, a call of the backend) is an action of its own. A condition variable is
a set of sleeping threads: a notification moves one or all of them to the state in
which they test their predicate again, and a spurious wakeup may do so at any
time. A program counter is a string naming the point that a thread has reached.
Variables marked *history* exist only for properties. Operators named "Mutant of
..." are plausible bugs, used to see that each property can fail; no specification
refers to them.

### KuCompletion

A worker (`PrepareToSignal` ... `ResetTask`) runs what `runTask` does after the
copy; `Clients` hold counted handles and may wait, share, release and register a
callback whose `user_data` may own a reference which the callback drops. `owners`
is the reference count as the set of its holders: the same number, with names. A
temporary reference around a callback (`ref()` / `deref()`) is the holder
`"dispatch"`. A null callback and a second registration change nothing and are left out.
So is the completion of an upload of no bytes, which is signalled on the calling
thread before anybody else knows it.

### KuScheduler

The constructor spawns workers one at a time and may stop half-way, in which case
it runs `stopAndJoin` itself. A task is submitted by an outside thread, which may do
so until the destructor starts, or by a task that runs on a worker, which may do so
during the drain as well and is then refused. `std::thread::join` is the guard of
`Joined`. As for any C++ object, the destructor does not overlap an outside call.

### KuHostTransfer

`Uploads` are `ku_tensor_create_from_host_async` calls, which allocate a tensor on the default
stream and let the completion retain it; `Downloads` are `ku_device_copy_async` calls
on memory that the user keeps. The scheduler is any that keeps `TaskExecutor`: an
accepted request becomes a thread of its own. The default stream is two counters,
operations issued and executed; `allocated` and `freed` are positions on it, and
`stream_synchronize` waits for the position that was last when it was called. A
staging buffer holds a chunk, named by request and number, so that a lane shared by
two copies shows as a wrong chunk at the destination. `stop` walks through
`KuDevice::shutdown`. The user ends uploads and flushes and gives up the tensors of
a device before destroying its instance (the header: destruction invalidates every
derived handle), but a download may still be inside `submit`.

`DeviceCopies` has neither scheduler nor lane, counter, stream or condition variable: only the
outcome of each copy, whether all of it has arrived, the memory of the tensors, what each flush
owes its caller, and whether the device is up. The mapping (`Promise`) computes these from the
points that the threads have reached: a copy is under way from the moment the scheduler has it
until `prepareToSignal`, and a refused one never is; its memory is *held* from the allocation to the release. An upload
whose caller has not come back from `submit` is not yet *handed over*, which is why a flush that
overlaps it owes nothing for it.

### KuInstanceRegistry

Every call is a record: operation, point reached, slot's vendor, instance, loop
index and outcome. A critical section of the registry mutex is one action; the slot
and module mutexes are held across many and have owners. Devices are created,
flushed, shut down and destroyed one per action, and creation, `dlopen`, the entry
point and publication may fail. Addresses are reused. A handle is lent by its owner
to flush and given up to destroy; a flush may overlap the destruction.

One thing the refinement brought to light: a flush that was asked while the instance
lived, and found the slot after it was destroyed, compares its handle with an instance
that may have been built at the same address. It then flushes the new instance, or
reports INVALID_ARGUMENT because the address has moved to another vendor.
`InstanceTokens` allows both (`stale`), because the call overlaps the destruction; a flush
that does not overlap one is always performed.

### KuOwners

`handle` follows the `KuInstance` values, `strong` the count of `Arc<InstanceInner>`, and
`alive` the native instance. An owner (`KuArc` or `OwnedRaw`) has the object it counts on
in `owned` and the instance values that its lifetime borrows in `borrows`. The
borrow checker becomes a guard: nobody drops or closes a `KuInstance` that is `Borrowed`,
nobody moves a `KuArc` that is not `Movable`. What Rust infers is written down as each
function's signature has it: an array borrows what its items borrow, an element what its
array borrows, a converted scalar nothing. The native side is external: an object has a
kind, a count and items; the release of the last reference destroys the object and then
the items, one step at a time, before the call returns. `close` is two steps, because
`try_unwrap` gives the `Arc` back before it is dropped.

### KuCall

One call at a time of a callee that may report success, a shortage of slots or an error,
with any count, and may leave references in any slot, except that one which reports a
shortage has not run (`vendor/include/kuai/bind/KuBind.h` checks the capacity first). A
successful callee may report more results than there are slots, which the code refuses. A shortage with a count that is not above the slots there are is
an error like any other. Objects of a kind that `KuObjectKind` does not know stop the decoding.

`work` is what the device is at work on, of this call and of those before it; the device may be
done with any of it at any time (`WorkEnds`). A flush that succeeds has waited for all of it. One
that fails may have waited for nothing: `KuDevice::synchronize` returns before it synchronizes
when the device cannot be selected, and `KuDevice::shutdown` takes it that work may then go on.
So a failed `Flush` leaves `work` as it is, and the history variable `left`, which no guard
reads, records it. `call_unchecked` then returns the error and releases its references all the
same, and `WorkOutlived` says what is promised in spite of that: whatever is not in `left` is
kept while the device works on it, whether the callee succeeded or not; between the flush and
the next run of a callee there is no work but that in `left`; and results are decoded only when
there is none at all.

### KuSyntax, KuParser, KuPretty

A token is its text; the texts a regular expression recognizes are constants. Every
method of `Parser` that takes `&mut self` is an operator from a state to its result and the
state it leaves, `synchronize`, `expect` and `consume` included, so that the recovery is the
code's own. `Then` passes the result of one
method and the state it leaves to the rest of its caller. A panic is a mark on the state. `lost` marks tokens that the parser skips without
a diagnostic: in `parse_field_list` and `parse_index_access`, the name of an argument whose
value is an attribute, and the attributes of an import. The tree of a module is compared with its source by its *yield*, the
meaningful tokens in order; the printed text is the sequence of its words.

### KuResolver, KuSession

The scopes are the chain from `scope_stack` to the global one, innermost first, as a sequence of functions from
names to kinds. `ScopingErrors` is the reference: definitions and uses in the order they take effect, each
with the path of its block; a use sees the earlier definitions of the blocks around it. The
session has two threads. `CompileAndRun` is one step under the mutex, because nobody else can
look at the context meanwhile; the waits for the mutex, for the user and for the client are
steps of their own. A client may never close its end. When `main` returns or panics the TCP thread
ends with it. Whatever the parser panics on leaves the context as it was, but poisoned.

## 3. What is checked

| run | instance | distinct states | shows |
|---|---|---|---|
| `completion` | 3 clients, 2 statuses | 57,929 | no use after delete; tensor protected; callback exactly once; implements `OneShotCompletion`, liveness included |
| `scheduler` | 2 workers, 3 tasks | 20,720 | FIFO without loss or duplication; the join leaves nothing; a stop terminates; implements `TaskExecutor`, liveness included |
| `host_transfer` | 1 upload, 1 download, 1 flusher, 1 lane, 2 chunks | 103,395 | the accounting of tasks, lifetimes, teardown and flush; copies complete; waiters return; implements `DeviceCopies` |
| `host_transfer_lanes` | 1 upload, 2 downloads, 2 lanes, 2 chunks | 1,930,402 | lanes and copies when lanes are fewer than copies and come back in another order |
| `instance_registry` | 2 threads, 3 calls each, 2 vendors, 2 devices, 2 addresses | 285,886 | one instance per vendor; no use after destroy; no deadlock; implements `InstanceTokens` |
| `owners` | 2 instance values, 3 owners, 2 objects, arrays of up to 2 | 61,385 | the instance lives as long as its values; nothing dangles; references balance; given up is destroyed |
| `call` | 2 objects, one of an unknown kind, 1 argument, counts up to 3 | 30,026 | no leak and no double release on any path; nothing released under the device but what a failed flush left; no results while it works; the call returns |
| `parser` | 15 constructs, texts of up to 4 tokens | 32,681 | nothing is lost silently; the grammar's trees; printed text tells programs apart |
| `session` | 8 lines, 3 messages, 2 texts compiled, 3 lines each | 43,375 | scoping is lexical; first definitions stay; the REPL is answered |

Three runs look for a counterexample and find it; section 5 says what they show:
`parser_panic` (`ParserReturns`), `parser_fields` (`FieldsNeedNoCommas`) and `owners_close` (`LastCloserIsTold`).

**Bounds.** Three clients let one register, one wait and one share at the same time. Two
workers and three tasks let a worker sleep while another runs and a task is queued, and
let a task submit a task. One lane and two requests make a request wait for a lane;
three requests on two lanes make lanes return in another order than they left. Two
chunks distinguish the first, the last and the order. Two threads and two vendors
give contention for each of the mutexes, three calls give init, destroy and init
again at a reused address, and two addresses are as many as can live at once.
Two instance values are an owner and another one; three owners let an element outlive
its array and the source of its items. Arrays hold leaves, tensors or one array, so that
the destruction of an object reaches another one. In a call, three slots let a shortage be followed
by another one. Four tokens, inside the tokens of a construct, reach every branch of the
parser: two operators and their operands, a nested bracket, an error and what follows it.
Two texts let one see what the other has defined, and let one panic before the other.

Bounds that guards enforce: `MaxCalls` (registry), `MaxItems` (owners), `MaxResults`, `MaxRefs`,
`MaxArgs` (call), `MaxLen` (parser), `MaxInputs`, `MaxLines` (session). `MaxInputs` also carries
an assumption: `std::sync::Mutex` is not fair, so a REPL could starve under an endless
stream of clients; `ReplAnswered` says that a finite one cannot block it.

**Deadlock** checking is off in the runs whose system may come to rest (all copies made, all
calls returned, a session ended). That nobody rests half-way is what `StopTerminates`,
`CopiesComplete`, `WaitersReturn`, `CallsReturn`, `CallReturns`, `GivenUpIsDestroyed`, `ReplAnswered` and the fairness of the abstract
specifications say.

**Fairness.** Only weak fairness, of steps that a thread takes by itself once it is
running: the operating system schedules runnable threads, the device executes its
stream, a task and a callback return. Nobody is obliged to call, register, release,
flush or destroy. A notification wakes whom it wakes: no waiter is favoured. No strong
fairness of a mutex is assumed: the number of calls and requests is finite, so each
mutex is free in the end. A flush may wait as long as others keep submitting; that
it returns is checked for finitely many requests only. A callee returns and a text is compiled in
finite time; nobody is obliged to drop an owner, type a line or close a connection.

**Mutants.** Each property is violated by a mutation of one definition, such as a missing
notification, an admission that is not undone, `back()` without `pop_back()`, or a lock
not taken. `PROJECT.json` lists them.

## 4. What is proved

Eight modules prove theorems for all values of the constants. They state every invariant that the
runs of these components check, the safety half of the refinements that promise liveness and all of the
other two. Beyond the runs, they state for the native runtime, where threads share mutexes and condition
variables, that no wakeup is lost and that whoever waits, waits for somebody who can go on.

| module | theorems | of the property |
|---|---|---|
| `KuCompletion_proofs` | `TypeCorrect`, `NoMethodAfterDelete`, `TensorOutlivesCopy`, `CallbackRunsOnce` | `TypeOK`, `NoUseAfterDelete`, `TensorProtected`, `CallbackExactlyOnce` |
| | `SafetyRefinement` | the safety part of `ImplementsOneShot` |
| | `NoWakeupIsLost`, `WaitIsNeverStuck`, `WaitersAgree`, `ResultIsFinal` | the waiters get the final result, and none sleeps through it |
| `KuScheduler_proofs` | `TypeCorrect`, `FirstInFirstOut`, `JoinLeavesNothing` | `TypeOK`, `AcceptedInOrder`, `JoinDrains` |
| | `SafetyRefinement` | the safety part of `ImplementsExecutor` |
| | `NoWakeupIsLost`, `QueueIsServed`, `StopIsNeverStuck` | what `StopTerminates` rests on besides fairness |
| `KuHostTransfer_proofs` | `TypeCorrect`, `ActiveTasksCounted`, `LanesNeverShared`, `SuccessMeansCopied`, `NothingUsedAfterFree`, `TeardownIsSafe`, `FlushWaitsForWork` | `TypeOK`, `TaskAccounting`, `LanesPartitioned`, `CopyIsComplete`, `NoUseAfterFree`, `SafeTeardown`, `FlushDrains` |
| `KuHostTransferProgress_proofs` | `NoWakeupIsLost`, `TransferIsNeverStuck` | what `CopiesComplete` and `WaitersReturn` rest on besides fairness |
| `KuHostTransferRefinement_proofs` | `PromiseKept` | `ImplementsPromise`, all of it |
| `KuInstanceRegistry_proofs` | `TypeCorrect`, `RegistryStaysConsistent`, `UsesLiveInstance`, `ModulesSerialized`, `OneInstance` | `TypeOK`, `RegistryConsistent`, `NoUseAfterDestroy`, `ModuleManagerSerialized`, `OneInstancePerVendor` |
| | `RegistryRefinement` | `ImplementsTokens`, all of it |
| | `MutexesAreReturned`, `NoDeadlock` | what `CallsReturn` rests on besides fairness |
| `KuOwners_proofs` | `InstanceOwnership`, `CountsAreExact`, `OwnersAreSafe` | `HandlesKeepInstance`, `ReferencesAccounted`, `NothingDangles` |
| `KuCall_proofs` | `CallOwnsReferences`, `CallOutlivesWork` | `ReferencesOwned`, `WorkOutlived` |

The assumptions are named in the modules, and TLC evaluates them on each run. Sets whose elements are
counted are finite; names that share a set are distinct: uploads and downloads, a status and an
instance as the outcome of a call, a client and the other holders of a reference
(`HolderAssumption`, `OutcomeAssumption`); there is at least one lane, chunk and device. No
assumption is about behaviour.

Each proof has one invariant that is inductive, a lemma per action, and the theorems as
consequences. None of the properties is inductive by itself; what each needs in addition follows.

*Completion.* `OwnersInv` says on whose behalf a reference is held at each point of each thread: the
task's until its reset, `user_data`'s until the callback starts, the invocation's from then on.
`StatusInv` and `TensorInv` tie the result and the tensor to the worker's position. `SlotInv` is
the reason why `signal` and `onCompletion` do not leave a callback to each other: a registered one is
either stored, and then `signal` runs it, or with the thread that registered it, and then the
slot is empty for good. `CalledInv` says how often it has run at each of these points.
The refinement maps each step to a step of `OneShotCompletion` or to none.
`WaitInv` adds the waiters: one that sleeps on a completed completion finds the worker between its unlock
and its `notify_all`, and what wait has returned is the status. With `StatusInv` this gives
`WaitIsNeverStuck`; `ResultIsFinal`, a property of steps, needs that the worker signals a
completion that nobody has signalled.

*Scheduler.* `TypeCorrect` is inductive. `FirstInFirstOut` is an equation of sequences,
`accepted = started \o queue`, kept by each push and pop. `JoinLeavesNothing` needs more
than the property says: a worker ends only with an empty queue after the stop; once
`stopping` is set nothing is accepted; a task that was started has finished or is some
worker's job; and a call in flight belongs to a running worker. For the refinement, `FateInv` gives every
task one fate: a task is in the queue or in a worker's hands at most once and not in
both, and in either only if its submission was accepted. `MoveMaps` is the one lemma for
a step that moves one task and leaves the fates of the others.
`NoLostWakeup` is an inequality: while a worker sleeps, the queue is no longer than the
submissions that have still to call `notify_one` and the workers that are about to test the
predicate, together; and nobody sleeps after the stop but until `notify_all`. A push adds one on each side; a
worker that is woken, or goes to sleep, or takes a task, leaves the inequality true. This is why one `notify_one` for
each task suffices, although a notification may wake nobody. It needs that calls under way are
finitely many (`CallsFinite`), which follows from the behaviour and not from an assumption on `Tasks`.

*Host transfer.* The proof is a chain of invariants, each inductive relative to those before it.

1. `PCInv` relates the call and the run of a request: it runs only if it was accepted.
2. `DataInv` types the tensors, `TaskAccounting` equates the counter with the cardinality of
   a set; each step adds or removes one element, or none.
3. `StopInv` says that once shutdown has seen zero it stays zero, because nothing is accepted.
4. `PartInv` is `LanesPartitioned`; `CopyInv` says that what has arrived is a prefix of the
   request's chunks and that the staging buffer of a lane in use holds the next one.
5. `StreamTypes`, `RefInv` and `ReadyInv` say who refers to a tensor at which point, and that its
   allocation has been executed when a lane is in use.
6. `CallersGone`, `EndInv` and `FlushInv` tie teardown and flush to these.

The progress of the transfer is two more invariants, one for each condition variable. While a thread sleeps
for a lane, the stack of lanes is no longer than the threads that are coming for one or about to tell
(`NoLostLaneWakeup`); while a flush or the shutdown sleeps, a task is counted or somebody who saw zero is about to
tell (`NoLostIdleWakeup`). From these, `TransferIsNeverStuck`: if all lanes are taken, one of those who have them
can go on, because lanes are held by copies only, and a copy with a lane waits for no other copy.

`PromiseKept` maps each action to a step of `DeviceCopies` or to none, a lemma for each kind of action. It needs three
invariants that none of the properties does: a copy that has let its lane go has a
result (`ResultInv`), a download never owns memory of the device (`LoanInv`), and nobody is flushing a device that
is going down (`FlushersGone`).

*Registry.* `ThreadOK` says of a thread what it may rely on while it holds a mutex: which points belong to
which call and when its outcome is decided (`GoodCall`), that it owns the mutexes it
should (`MutexOK`), what it has found in its slot (`SlotOK`), how far a loop over the devices has
come (`DeviceOK`), and that the slot it has looked up is still the right one unless a
destruction has overtaken it (`LookupOK`). `InstanceInv` and `DeviceInv` place every instance
in one slot or with one thread; `TokenInv` says that a handle has one owner: the program, an init about
to return it or a destroy about to end it. That one is needed because a second destroy of
an address, reused meanwhile, would otherwise be conceivable. In the refinement, a call takes effect when it
decides its outcome under the slot mutex; `RegistryRefinement` walks through the actions
once more, with a lemma for those that do not decide anything.
`HeldInv` is the converse of `MutexOK`: who owns a mutex is between its lock and its unlock. Both
together give `NoDeadlock`: the owner of the module mutex waits for nothing, and the owner of a slot for the
module mutex at most, so that no chain of waiting calls is longer than two and none closes.
`CanGoOn` spells the guards of `Step` out, because the prover does not reason about `ENABLED`.

*Owners.* Three invariants, one per theorem. `HandleInv` says that `strong` is the number of values that
hold an `Arc`, the refused ones included, and that `alive` is `strong > 0`: a step looks at the count
and not at the values. `RefInv` counts the owners of an object and the slots of arrays that refer to
it, as cardinalities of sets, and says that whoever destroys an object does so alone; `AcyclicInv`
says that among any objects there is one that no array of them contains, which stands for
acyclicity without a rank. `BindInv` adds that what is borrowed is held, and `LightInv`: some
set of objects holds all that owners without a borrow refer to, no tensor, and with
each array its elements. `TensorsKeepInstance` then needs no induction: among the objects outside of
that set, tensors included, `AcyclicInv` finds one that is in no array, so that somebody owns it
or is destroying it; that owner borrows a `KuInstance`, which is held.

*Call.* `CallOwnsReferences` and `CallOutlivesWork` follow from `CallInv`: types and lengths, the
equation of the counts, that an argument has an owner outside of the call while the call runs, that slots
hold only what is counted, that what the device works on is an argument or in a slot unless a failed flush left it behind,
that nothing else is worked on except between the callee and the flush, and nothing at all after a flush that succeeded. The
steps of `Resize`, `Decode` and `Fail` need lemmas on the number of occurrences in a sequence after an update and an append.

**Only model-checked:** liveness (`StopTerminates`, `CopiesComplete`, `WaitersReturn`,
`CallsReturn`, `CallReturns`, `GivenUpIsDestroyed`, `ReplAnswered`), which is beyond the prover. What is
proved of the first four is their safety core: somebody can always take a step that is waited for. That these
steps come to an end, by fairness and because work is finite, is left to the runs. So is the fairness
that `OneShotCompletion` and `TaskExecutor` promise: of `ImplementsOneShot` and `ImplementsExecutor` the
theorems state `SafetySpec`, the runs all. `InstanceTokens` and `DeviceCopies` promise safety only, so nothing of them is left to the runs.
The front end (`NothingLost`, `GrammarIsParsed`, `SnapshotsTellApart`, `ScopingIsLexical`,
`FirstDefinitionWins`) is recursive over its data, which is beyond the prover too:
`KuParser`, `KuPretty` and `KuResolver` are compared with their references over all bounded inputs.

## 5. What the models found

* **An unclosed index panics** (`parser_panic`). `parse_index_access` reads the closing bracket with
  `consume()`, which panics; every other bracket is read with `expect()`, which reports, and the comment in
  `report_error` says "Remove panic - let parser continue collecting errors". In a session the panic
  poisons the context, and the other thread panics when it locks it.
* **Fields without commas vanish** (`parser_fields`). `GRAMMAR.ebnf` makes the comma after a field optional;
  the parser skips from one field to the next comma or brace, without a diagnostic.
* **Two closers, no status** (`owners_close`). When the last two owners of an instance close it at the same time, both
  may be told `ResourcesInUse`; the later of the two drops destroys the instance and discards the status
  that `close` promises to report.

Seen on the way, and allowed by the models: `call_unchecked` says that it "waits for the context's
default stream before returning results or releasing inputs". Of results that is true. When the flush
fails because the device cannot be selected, the error is returned, outputs are released and the
borrows of the inputs end although the device may be at work on them; `KuDevice::shutdown` abandons
its stream and pool in the same situation. `KuCall` has this behaviour (drop `\ left` from
`WorkOutlived`, and TLC shows a call whose flush fails and whose result goes under the device).

Also seen: an integer literal beyond `i64` panics as well; a redefinition is
reported at the span of the first definition, which in a session may belong to another text;
the generic parameters of a function or struct are never defined, so that their uses are reported; attributes are printed
only for functions, structs, `if` and `for`.

## 6. What is not modelled

* A transfer that goes on after its lane's synchronization has failed: whether the device
  still writes is up to the driver.
* What becomes of the memory of an object that `KuCall` releases while the device is at work on it,
  after a failed flush: `KuNativeMemoryResource` frees a buffer of the device in the order of a stream
  (`free_async`), which may save it; the model only says that it was released.
* Which of several failures `flush` and `destroy` report.
* `KU_ASSERT`, which does nothing in a release build. `KU_VERIFY` is taken to succeed, so
  that releasing a tensor or destroying a lane never fails to select its device.
* A callback that destroys the instance it runs under, or calls `init` for its vendor while
  the instance is being destroyed: see the plan.
* Element types and numerics of kernels; formatting, logging and build scripts.
* The attribute pipeline of `kuai-driver`: `AttributeRegistry` has no operation that adds a handler, so
  every stage returns the statements it is given.
* Command-line options that compile one text and exit; the history and the editor of the REPL.
* In the Rust binding: copyable views (`KuDevice`, `KuInstanceRef`), which own nothing; the checks of shapes
  and sizes; the conversion of scalars, strings and slices; arguments that are refused before anything
  happens (another instance's callable, an unknown kind of callable). Arrays of arrays of arrays
  are within the model but need more objects than the run has.
* `kurt-sys`, which declares the C interface.
* Spans, the wording of diagnostics, the layout of printed trees, and the difference between the
  kinds of literals.
* Device guard, tensor layout, small buffers, handle pool, overloads and vendor templates, so far.

## 7. Plan

Next theorems: with `KuRuntimeStack`, that `DeviceCopies` is still kept when the scheduler is `KuScheduler`, and the
contract of callbacks under which `NoDeadlock`, `StopIsNeverStuck` and `TransferIsNeverStuck` hold together;
with `KuTensorLayout`, the absence of wrap-around for every width.

Next modules:

1. `KuRuntimeStack` composes the scheduler, the transfer and the registry where they can block
   each other: a callback on a worker while `destroy` joins the scheduler with the slot
   locked, a flush from a callback on a scheduler of one worker. Expected: the contract for callbacks
   under which no deadlock remains, as a named assumption.
2. `KuTensorLayout`: pure operators, counts and sizes with the width of `size_t` as a constant,
   against exact arithmetic; theorems on the absence of wrap-around for every width.
3. `KuDeviceGuard` and `KuHandlePool`: nesting and restoration; creation, failure and destruction
   of handles. `KuOverload`: the choice of an overload.
