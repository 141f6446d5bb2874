------------------------- MODULE KuInstanceRegistry -------------------------
(***************************************************************************)
(* The process-wide registry of instances                                  *)
(* (runtime/src/KuInstanceRegistry.cpp) under concurrent init, flush and   *)
(* destroy, with the parts of KuInstance.cpp and KuModuleManager.cpp that  *)
(* they run: a slot mutex for each vendor, one mutex for the maps of slots *)
(* and handles, and one for the module manager, which has none itself.     *)
(*                                                                         *)
(* A critical section of m_registryMutex is one action.  The slot and      *)
(* module mutexes are held across several, so their owners are explicit.   *)
(* Addresses are reused: an instance may be built where a destroyed one    *)
(* was.  KU_ASSERT is taken as in a release build, where it does nothing.  *)
(***************************************************************************)
EXTENDS Naturals, FiniteSets

CONSTANTS
  Threads,
  Vendors,
  Instances,    (* addresses of KuInstance objects                          *)
  DeviceCount,  (* devices in the list that every init asks for             *)
  MaxCalls,     (* bound on the calls that one thread makes                 *)
  Nothing       (* a null pointer, a free mutex, no outcome yet             *)

Devices == 1 .. DeviceCount

\* What a call may answer besides the instance it made.
Outcomes == {"INVALID_ARGUMENT", "ALREADY_INITIALIZED", "FAILED", "PERFORMED"}

ASSUME NullAssumption == Nothing \notin Threads \cup Vendors \cup Instances \cup Outcomes
ASSUME OutcomeAssumption == Instances \cap Outcomes = {}
ASSUME BoundsAssumption == DeviceCount \in Nat \ {0} /\ MaxCalls \in Nat

VARIABLES
  slots,         (* keys of m_instances                                     *)
  slotInstance,  (* m_instance of each slot                                 *)
  slotMutex,     (* owner of each slot's m_mutex                            *)
  handles,       (* m_handles: the vendor whose slot each handle leads to   *)
  moduleMutex,   (* owner of m_moduleMutex                                  *)
  libraries,     (* m_libraries of the module manager                       *)
  allocated,     (* KuInstance objects in memory                            *)
  device,        (* each instance's devices                                 *)
  tokens,        (* handles that their owners hold                          *)
  call,          (* what each thread is doing                               *)
  calls,         (* how many calls it has made                              *)
  stale          (* history: flushes whose instance was destroyed meanwhile *)

registry == <<slots, slotInstance, handles>>
mutexes  == <<slotMutex, moduleMutex>>
objects  == <<allocated, device>>
history  == <<tokens, calls, stale>>
vars == <<registry, mutexes, libraries, objects, call, history>>

\* at: the point reached; next: the device a loop has come to; outcome: decided result.
NoCall == [op |-> "none", at |-> "idle", vendor |-> Nothing, instance |-> Nothing,
           next |-> 1, outcome |-> Nothing]

Init ==
  /\ slots = {} /\ libraries = {} /\ allocated = {} /\ tokens = {} /\ stale = {}
  /\ slotInstance = [v \in Vendors |-> Nothing] /\ slotMutex = [v \in Vendors |-> Nothing]
  /\ handles = [i \in Instances |-> Nothing] /\ moduleMutex = Nothing
  /\ device = [i \in Instances |-> [d \in Devices |-> "none"]]
  /\ call = [t \in Threads |-> NoCall] /\ calls = [t \in Threads |-> 0]

At(t, op, place) == call[t].op = op /\ call[t].at = place
Goto(t, place)   == call' = [call EXCEPT ![t].at = place]
End(t, place, outcome) == call' = [call EXCEPT ![t].at = place, ![t].outcome = outcome]

Begin(t, new) ==
  /\ call[t] = NoCall /\ calls[t] < MaxCalls
  /\ call' = [call EXCEPT ![t] = new]
  /\ calls' = [calls EXCEPT ![t] = @ + 1]
  /\ UNCHANGED <<registry, mutexes, libraries, objects, stale>>

-----------------------------------------------------------------------------
(* Slots *)

CallInit(t) ==
  /\ \E v \in Vendors : Begin(t, [NoCall EXCEPT !.op = "init", !.at = "check", !.vendor = v])
  /\ UNCHANGED tokens

\* The vendor tag, the capabilities or the default device are not valid, or there is no
\* memory to copy the tag: nothing was touched.
RejectArguments(t) ==
  /\ At(t, "init", "check")
  /\ End(t, "return", "INVALID_ARGUMENT")
  /\ UNCHANGED <<registry, mutexes, libraries, objects, history>>

GetOrCreateSlot(t) ==
  /\ At(t, "init", "check")
  /\ slots' = slots \cup {call[t].vendor}
  /\ Goto(t, "lock")
  /\ UNCHANGED <<slotInstance, handles, mutexes, libraries, objects, history>>

\* Handles are lent by their owner to flush, and given up by the owner to destroy.
CallFlush(t) ==
  /\ \E i \in tokens : Begin(t, [NoCall EXCEPT !.op = "flush", !.at = "find", !.instance = i])
  /\ UNCHANGED tokens

CallDestroy(t) ==
  \E i \in tokens :
    /\ Begin(t, [NoCall EXCEPT !.op = "destroy", !.at = "find", !.instance = i])
    /\ tokens' = tokens \ {i}

FindSlot(t) ==
  /\ call[t].at = "find"
  /\ LET v == handles[call[t].instance] IN
     IF v = Nothing THEN End(t, "return", "INVALID_ARGUMENT")
     ELSE call' = [call EXCEPT ![t].at = "lock", ![t].vendor = v]
  /\ UNCHANGED <<registry, mutexes, libraries, objects, history>>

TakeSlot(t) ==
  /\ slotMutex[call[t].vendor] = Nothing
  /\ slotMutex' = [slotMutex EXCEPT ![call[t].vendor] = t]

\* Mutant of LockForInit: the slot is not looked at again under its mutex.
InitWithoutCheck(t) ==
  /\ At(t, "init", "lock")
  /\ TakeSlot(t)
  /\ Goto(t, "lock module")
  /\ UNCHANGED <<registry, moduleMutex, libraries, objects, history>>

LockForInit(t) ==
  /\ At(t, "init", "lock")
  /\ TakeSlot(t)
  /\ IF slotInstance[call[t].vendor] # Nothing THEN End(t, "unlock", "ALREADY_INITIALIZED")
     ELSE Goto(t, "lock module")
  /\ UNCHANGED <<registry, moduleMutex, libraries, objects, history>>

\* Mutant of LockForFlush: the slot's instance is not compared with the handle.
FlushWithoutCheck(t) ==
  /\ At(t, "flush", "lock")
  /\ TakeSlot(t)
  /\ End(t, "flush", "PERFORMED")
  /\ UNCHANGED <<registry, moduleMutex, libraries, objects, history>>

\* Whether the slot still has the instance is tested with its mutex held.
LockForFlush(t) ==
  /\ At(t, "flush", "lock")
  /\ TakeSlot(t)
  /\ IF slotInstance[call[t].vendor] # call[t].instance THEN End(t, "unlock", "INVALID_ARGUMENT")
     ELSE End(t, "flush", "PERFORMED")
  /\ UNCHANGED <<registry, moduleMutex, libraries, objects, history>>

LockForDestroy(t) ==
  /\ At(t, "destroy", "lock")
  /\ TakeSlot(t)
  /\ IF slotInstance[call[t].vendor] # call[t].instance THEN End(t, "unlock", "INVALID_ARGUMENT")
     ELSE Goto(t, "erase")
  /\ UNCHANGED <<registry, moduleMutex, libraries, objects, history>>

\* Mutant of UnlockSlot: a return path that leaves the slot locked.
LeaveLocked(t) ==
  /\ call[t].at = "unlock"
  /\ slotMutex' = IF call[t].outcome = "ALREADY_INITIALIZED" THEN slotMutex
                  ELSE [slotMutex EXCEPT ![call[t].vendor] = Nothing]
  /\ Goto(t, "return")
  /\ UNCHANGED <<registry, moduleMutex, libraries, objects, history>>

UnlockSlot(t) ==
  /\ call[t].at = "unlock"
  /\ slotMutex' = [slotMutex EXCEPT ![call[t].vendor] = Nothing]
  /\ Goto(t, "return")
  /\ UNCHANGED <<registry, moduleMutex, libraries, objects, history>>

\* A successful init hands the handle to its caller.
Return(t) ==
  /\ call[t].at = "return"
  /\ tokens' = tokens \cup ({call[t].outcome} \cap Instances)
  /\ stale' = stale \ {t}
  /\ call' = [call EXCEPT ![t] = NoCall]
  /\ UNCHANGED <<registry, mutexes, libraries, objects, calls>>

-----------------------------------------------------------------------------
(* loadVendorModule *)

\* Mutant of LockModule: init goes to the module manager without m_moduleMutex.
LoadUnlocked(t) ==
  /\ At(t, "init", "lock module")
  /\ Goto(t, "find library")
  /\ UNCHANGED <<registry, mutexes, libraries, objects, history>>

LockModule(t) ==
  /\ At(t, "init", "lock module")
  /\ moduleMutex = Nothing /\ moduleMutex' = t
  /\ Goto(t, "find library")
  /\ UNCHANGED <<registry, slotMutex, libraries, objects, history>>

FindLibrary(t) ==
  /\ At(t, "init", "find library")
  /\ Goto(t, IF call[t].vendor \in libraries THEN "call entry" ELSE "open library")
  /\ UNCHANGED <<registry, mutexes, libraries, objects, history>>

OpenLibrary(t) ==
  /\ At(t, "init", "open library")
  /\ \/ libraries' = libraries \cup {call[t].vendor} /\ Goto(t, "call entry")
     \/ UNCHANGED libraries /\ End(t, "unlock module", "FAILED")
  /\ UNCHANGED <<registry, mutexes, objects, history>>

\* The entry point may be missing, or return no module.
CallEntry(t) ==
  /\ At(t, "init", "call entry")
  /\ Goto(t, "unlock module") \/ End(t, "unlock module", "FAILED")
  /\ UNCHANGED <<registry, mutexes, libraries, objects, history>>

UnlockModule(t) ==
  /\ At(t, "init", "unlock module")
  /\ moduleMutex' = Nothing
  /\ Goto(t, IF call[t].outcome = Nothing THEN "create" ELSE "unlock")
  /\ UNCHANGED <<registry, slotMutex, libraries, objects, history>>

-----------------------------------------------------------------------------
(* The life of an instance *)

\* KuInstanceCapabilityState::create and KuInstance::create, up to the constructor.
CreateInstance(t) ==
  /\ At(t, "init", "create")
  /\ \/ \E i \in Instances \ allocated :
          /\ allocated' = allocated \cup {i}
          /\ call' = [call EXCEPT ![t].at = "devices", ![t].instance = i]
     \/ End(t, "unlock", "FAILED") /\ UNCHANGED allocated
  /\ UNCHANGED <<registry, mutexes, libraries, device, history>>

\* Mutant of Loop: one device too many.
LoopPastEnd(t, after) ==
  IF call[t].next <= DeviceCount THEN call' = [call EXCEPT ![t].next = @ + 1]
  ELSE call' = [call EXCEPT ![t].at = after, ![t].next = 1]

Loop(t, after) ==
  IF call[t].next < DeviceCount THEN call' = [call EXCEPT ![t].next = @ + 1]
  ELSE call' = [call EXCEPT ![t].at = after, ![t].next = 1]

SetDevice(t, state) == device' = [device EXCEPT ![call[t].instance][call[t].next] = state]

\* Mutant of CreateDevice: initializeDevices gives up without clearDevices.
GiveUpInPlace(t) ==
  /\ At(t, "init", "devices")
  /\ \/ SetDevice(t, "up") /\ Loop(t, "publish") /\ UNCHANGED allocated
     \/ /\ End(t, "unlock", "FAILED")
        /\ allocated' = allocated \ {call[t].instance} /\ UNCHANGED device
  /\ UNCHANGED <<registry, mutexes, libraries, history>>

\* initializeDevices, one device with its host transfer; a failure clears those before it.
CreateDevice(t) ==
  /\ At(t, "init", "devices")
  /\ \/ SetDevice(t, "up") /\ Loop(t, "publish")
     \/ /\ call' = [call EXCEPT ![t].at = "clear", ![t].next = 1, ![t].outcome = "FAILED"]
        /\ UNCHANGED device
  /\ UNCHANGED <<registry, mutexes, libraries, allocated, history>>

\* The handle is entered, which may run out of memory, and the slot gets the instance.
Publish(t) ==
  /\ At(t, "init", "publish")
  /\ \/ /\ handles' = [handles EXCEPT ![call[t].instance] = call[t].vendor]
        /\ slotInstance' = [slotInstance EXCEPT ![call[t].vendor] = call[t].instance]
        /\ End(t, "unlock", call[t].instance)
     \/ End(t, "clear", "FAILED") /\ UNCHANGED <<slotInstance, handles>>
  /\ UNCHANGED <<slots, mutexes, libraries, objects, history>>

\* KuInstance::flush visits every device, whatever the ones before reported.
FlushDevice(t) ==
  /\ call[t].at = "flush"
  /\ Loop(t, IF call[t].op = "flush" THEN "unlock" ELSE "shutdown")
  /\ UNCHANGED <<registry, mutexes, libraries, objects, history>>

\* Mutant of EraseHandle: the handle stays in the map.
KeepHandle(t) ==
  /\ At(t, "destroy", "erase")
  /\ End(t, "take out", "PERFORMED")
  /\ UNCHANGED <<registry, mutexes, libraries, objects, history>>

EraseHandle(t) ==
  /\ At(t, "destroy", "erase")
  /\ handles' = [handles EXCEPT ![call[t].instance] = Nothing]
  /\ stale' = stale \cup {u \in Threads : /\ call[u].op = "flush" /\ call[u].outcome = Nothing
                                         /\ call[u].instance = call[t].instance}
  /\ End(t, "take out", "PERFORMED")
  /\ UNCHANGED <<slots, slotInstance, mutexes, libraries, objects, tokens, calls>>

TakeOut(t) ==
  /\ At(t, "destroy", "take out")
  /\ slotInstance' = [slotInstance EXCEPT ![call[t].vendor] = Nothing]
  /\ Goto(t, "flush")
  /\ UNCHANGED <<slots, handles, mutexes, libraries, objects, history>>

\* KuInstance::shutdown, which goes on after a device that fails.
ShutdownDevice(t) ==
  /\ At(t, "destroy", "shutdown")
  /\ SetDevice(t, "down")
  /\ Loop(t, "clear")
  /\ UNCHANGED <<registry, mutexes, libraries, allocated, history>>

\* The destructor of a device shuts it down first, if that has not been done.
DestroyDevice(t) ==
  /\ call[t].at = "clear"
  /\ SetDevice(t, "none")
  /\ Loop(t, "delete")
  /\ UNCHANGED <<registry, mutexes, libraries, allocated, history>>

DeleteInstance(t) ==
  /\ call[t].at = "delete"
  /\ allocated' = allocated \ {call[t].instance}
  /\ Goto(t, "unlock")
  /\ UNCHANGED <<registry, mutexes, libraries, device, history>>

-----------------------------------------------------------------------------
InitStep(t) ==
  \/ RejectArguments(t) \/ GetOrCreateSlot(t) \/ LockForInit(t)
  \/ LockModule(t) \/ FindLibrary(t) \/ OpenLibrary(t) \/ CallEntry(t) \/ UnlockModule(t)
  \/ CreateInstance(t) \/ CreateDevice(t) \/ Publish(t)

UseStep(t) ==
  \/ FindSlot(t) \/ LockForFlush(t) \/ LockForDestroy(t) \/ FlushDevice(t)
  \/ EraseHandle(t) \/ TakeOut(t) \/ ShutdownDevice(t)

Step(t) ==
  \/ InitStep(t) \/ UseStep(t) \/ DestroyDevice(t) \/ DeleteInstance(t)
  \/ UnlockSlot(t) \/ Return(t)

Next == \E t \in Threads : CallInit(t) \/ CallFlush(t) \/ CallDestroy(t) \/ Step(t)

\* A call goes on once begun.  With finitely many calls every mutex is free in the end, so
\* nothing is asked of std::mutex about the order in which it admits waiters.
Fairness == \A t \in Threads : WF_vars(Step(t))

Spec == Init /\ [][Next]_vars /\ Fairness

-----------------------------------------------------------------------------
(* Properties *)

Places == {"idle", "check", "find", "lock", "lock module", "find library", "open library",
           "call entry", "unlock module", "create", "devices", "publish", "flush", "erase",
           "take out", "shutdown", "clear", "delete", "unlock", "return"}

\* Every variable holds a value of its kind.
TypeOK ==
  /\ slots \in SUBSET Vendors /\ libraries \in SUBSET Vendors
  /\ allocated \in SUBSET Instances /\ tokens \in SUBSET Instances
  /\ slotInstance \in [Vendors -> Instances \cup {Nothing}]
  /\ slotMutex \in [Vendors -> Threads \cup {Nothing}]
  /\ moduleMutex \in Threads \cup {Nothing}
  /\ handles \in [Instances -> Vendors \cup {Nothing}]
  /\ device \in [Instances -> [Devices -> {"none", "up", "down"}]]
  /\ call \in [Threads -> [op : {"none", "init", "flush", "destroy"}, at : Places,
                           vendor : Vendors \cup {Nothing},
                           instance : Instances \cup {Nothing}, next : Devices,
                           outcome : Outcomes \cup Instances \cup {Nothing}]]
  /\ calls \in [Threads -> 0 .. MaxCalls] /\ stale \in SUBSET Threads

Handling(t, v) == call[t].vendor = v /\ slotMutex[v] = t

\* m_handles and the slots agree: a handle leads to the slot that owns its instance, and
\* an instance in a slot has its handle, but for the moment between erasing one and
\* moving the other, when the destroying thread holds the slot.
RegistryConsistent ==
  /\ \A i \in Instances : handles[i] # Nothing =>
       handles[i] \in slots /\ slotInstance[handles[i]] = i
  /\ \A v \in Vendors : slotInstance[v] # Nothing =>
       \/ handles[slotInstance[v]] = v
       \/ \E t \in Threads : At(t, "destroy", "take out") /\ Handling(t, v)

\* The instances that a vendor has: the one in its slot, and those that a thread is
\* building or tearing down while it holds the slot.
InstancesOf(v) ==
  ({slotInstance[v]} \cap Instances)
    \cup {call[t].instance : t \in {u \in Threads :
           Handling(u, v) /\ call[u].at \in {"devices", "publish", "take out", "flush",
                                             "shutdown", "clear", "delete"}}}

\* Each vendor has at most one instance, construction and teardown included, so that a
\* new one never overlaps the native state of an old one; and nothing is left over: an
\* instance in memory is some vendor's, and devices are those of an instance.
OneInstancePerVendor ==
  /\ \A v \in Vendors : Cardinality(InstancesOf(v)) <= 1
  /\ allocated = UNION {InstancesOf(v) : v \in Vendors}
  /\ \A i \in Instances \ allocated : \A d \in Devices : device[i][d] = "none"

\* Whoever flushes or shuts down an instance finds it in memory and the device it visits
\* up, although others may have destroyed it, and built another at the same address, since
\* the handle was looked up.
NoUseAfterDestroy ==
  \A t \in Threads : call[t].at \in {"flush", "shutdown"} =>
    /\ call[t].instance \in allocated
    /\ device[call[t].instance][call[t].next] = "up"
    /\ call[t].op = "flush" => slotInstance[call[t].vendor] = call[t].instance

\* The module manager's map, which has no lock of its own, has one user at a time.
ModuleManagerSerialized ==
  \A t, u \in Threads :
    /\ call[t].at \in {"find library", "open library"}
    /\ call[u].at \in {"find library", "open library"}
    => t = u

\* Every call returns: no order of taking the mutexes leaves threads waiting for each other.
CallsReturn == \A t \in Threads : call[t].at # "idle" ~> call[t].at = "idle"

Tokens == INSTANCE InstanceTokens WITH
  active  <- [v \in Vendors |-> IF slotInstance[v] # Nothing /\ handles[slotInstance[v]] = v
                                THEN slotInstance[v] ELSE Nothing],
  request <- [t \in Threads |-> <<call[t].op, IF call[t].op = "init" THEN call[t].vendor
                                              ELSE call[t].instance>>],
  outcome <- [t \in Threads |-> call[t].outcome]

\* Calls take effect one at a time, as InstanceTokens promises: init finds the vendor free
\* or is told ALREADY_INITIALIZED, destroy by the owner never misses its instance.
ImplementsTokens == Tokens!Spec
=============================================================================
