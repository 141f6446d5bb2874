--------------------- MODULE KuInstanceRegistry_proofs ---------------------
(***************************************************************************)
(* Proofs about KuInstanceRegistry for every set of threads, vendors and   *)
(* addresses and every number of devices and calls: the invariants of the  *)
(* registry, that its calls take effect one at a time as InstanceTokens    *)
(* promises, and that its mutexes leave nobody stuck.                      *)
(***************************************************************************)
EXTENDS KuInstanceRegistry, FiniteSetTheorems, TLAPS

ModulePlaces == {"find library", "open library", "call entry", "unlock module"}

\* Where a call is before it has locked its slot, and after it has unlocked it.
Outside == {"idle", "check", "find", "lock", "return"}

InitPlaces == {"check", "lock", "lock module", "create", "devices", "publish", "clear",
               "delete", "unlock", "return"} \cup ModulePlaces
FlushPlaces == {"find", "lock", "flush", "unlock", "return"}
DestroyPlaces == {"find", "lock", "erase", "take out", "flush", "shutdown", "clear",
                  "delete", "unlock", "return"}

\* Before its outcome is decided, but for the places where it may be either.
Undecided == {"check", "find", "lock", "lock module", "find library", "open library",
              "call entry", "create", "devices", "publish", "erase"}

\* The thread alone knows the instance: it is not in a slot yet, or no longer.
Private(t) ==
  \/ call[t].op = "init" /\ call[t].at \in {"devices", "publish", "clear", "delete"}
  \/ call[t].op = "destroy" /\ call[t].at \in {"flush", "shutdown", "clear", "delete"}

\* What the record of a call may be: which places belong to which call, and when its
\* outcome is decided.  A destroy has only one.
GoodCall(c) ==
  /\ c.op = "none" => c.at = "idle" /\ c.instance = Nothing /\ c.outcome = Nothing
  /\ c.op = "init" => c.at \in InitPlaces /\ c.vendor \in Vendors
  /\ c.op = "init" /\ c.at \in {"devices", "publish", "clear", "delete"} => c.instance \in Instances
  /\ c.op = "flush" => c.at \in FlushPlaces /\ c.instance \in Instances
  /\ c.op = "destroy" => c.at \in DestroyPlaces /\ c.instance \in Instances
  /\ c.at \notin {"devices", "flush", "shutdown", "clear"} => c.next = 1
  /\ c.at \in Undecided => c.outcome = Nothing
  /\ c.at = "unlock module" => c.outcome \in {Nothing, "FAILED"}
  /\ c.at \in {"unlock", "return"} => c.outcome # Nothing
  /\ c.op = "init" /\ c.at \in {"clear", "delete"} => c.outcome = "FAILED"
  /\ c.op = "flush" /\ c.at = "flush" => c.outcome = "PERFORMED"
  /\ c.op = "destroy" => c.outcome = IF c.at \in Undecided THEN Nothing ELSE "PERFORMED"
  /\ c.outcome \in Instances => c.op = "init" /\ c.at \in {"unlock", "return"}

\* A thread between locking and unlocking owns the mutex, and the slot it locks exists.
MutexOK(t) ==
  /\ call[t].at \notin Outside => slotMutex[call[t].vendor] = t
  /\ call[t].at \in ModulePlaces => moduleMutex = t
  /\ call[t].at \notin {"idle", "check", "find", "return"} => call[t].vendor \in slots

\* What the thread that holds a slot has found in it, or put there.
SlotOK(t) ==
  /\ call[t].op = "init" /\ call[t].at \notin Outside \cup {"unlock"}
       => slotInstance[call[t].vendor] = Nothing
  /\ call[t].op = "flush" /\ call[t].at = "flush"
       => slotInstance[call[t].vendor] = call[t].instance
  /\ call[t].op = "destroy" /\ call[t].at \in {"erase", "take out"}
       => slotInstance[call[t].vendor] = call[t].instance
  /\ call[t].op = "destroy" /\ Private(t) => slotInstance[call[t].vendor] = Nothing

\* The devices of an instance come up in order while it is built, and go down and then
\* away in order while it is destroyed.
DeviceOK(t) ==
  \A d \in Devices :
    /\ call[t].at = "devices" =>
         device[call[t].instance][d] = IF d < call[t].next THEN "up" ELSE "none"
    /\ call[t].at = "publish" => device[call[t].instance][d] = "up"
    /\ call[t].op = "destroy" /\ call[t].at = "flush" => device[call[t].instance][d] = "up"
    /\ call[t].at = "shutdown" =>
         device[call[t].instance][d] = IF d < call[t].next THEN "down" ELSE "up"
    /\ call[t].at = "clear" /\ d < call[t].next => device[call[t].instance][d] = "none"
    /\ call[t].at = "delete" => device[call[t].instance][d] = "none"

\* A call that has looked its handle up has the right slot, unless it is a flush that
\* the destruction of its instance has overtaken.
LookupOK(t) ==
  /\ call[t].op = "flush" /\ call[t].outcome = Nothing /\ t \notin stale
       => handles[call[t].instance] # Nothing
  /\ call[t].op = "flush" /\ call[t].at = "lock" /\ t \notin stale
       => handles[call[t].instance] = call[t].vendor
  /\ call[t].op = "destroy" /\ call[t].at \in {"lock", "erase"}
       => handles[call[t].instance] = call[t].vendor

ThreadOK(t) == GoodCall(call[t]) /\ MutexOK(t) /\ SlotOK(t) /\ DeviceOK(t) /\ LookupOK(t)

\* An instance in memory is in one slot, or known to one thread alone.
InstanceInv ==
  /\ \A v \in Vendors : slotInstance[v] # Nothing => slotInstance[v] \in allocated
  /\ \A v, w \in Vendors : slotInstance[v] = slotInstance[w] /\ slotInstance[v] # Nothing => v = w
  /\ \A t \in Threads : Private(t) =>
       /\ call[t].instance \in allocated
       /\ \A v \in Vendors : slotInstance[v] # call[t].instance
       /\ \A u \in Threads : Private(u) /\ call[u].instance = call[t].instance => u = t
  /\ \A i \in allocated :
       \/ \E v \in Vendors : slotInstance[v] = i
       \/ \E t \in Threads : Private(t) /\ call[t].instance = i

\* The devices of an instance are up while it is in a slot, and there are none elsewhere.
DeviceInv ==
  /\ \A i \in Instances \ allocated : \A d \in Devices : device[i][d] = "none"
  /\ \A v \in Vendors : slotInstance[v] # Nothing =>
       \A d \in Devices : device[slotInstance[v]][d] = "up"

TakingOut(t) == At(t, "destroy", "take out")

HandleInv ==
  /\ RegistryConsistent
  /\ \A t \in Threads : TakingOut(t) => handles[call[t].instance] = Nothing

\* Who will be given the handle of an instance, or has given it up to destroy it.
Owner(t, i) ==
  \/ call[t].op = "init" /\ call[t].outcome = i
  \/ call[t].op = "destroy" /\ call[t].outcome = Nothing /\ call[t].instance = i

\* A handle that has an owner is in the map, and has one owner.
TokenInv ==
  \A i \in Instances :
    /\ i \in tokens => handles[i] # Nothing /\ \A t \in Threads : ~Owner(t, i)
    /\ \A t \in Threads : Owner(t, i) =>
         handles[i] # Nothing /\ \A u \in Threads : Owner(u, i) => u = t

Inv ==
  /\ TypeOK
  /\ \A t \in Threads : ThreadOK(t)
  /\ InstanceInv /\ DeviceInv /\ HandleInv /\ TokenInv

-----------------------------------------------------------------------------
(* How the steps change the record of a call.                              *)

CallType == [op : {"none", "init", "flush", "destroy"}, at : Places,
             vendor : Vendors \cup {Nothing}, instance : Instances \cup {Nothing},
             next : Devices, outcome : Outcomes \cup Instances \cup {Nothing}]

\* Thread t goes on with the same request, to a place and with an outcome.
Moved(t, place, outcome) ==
  /\ call' \in [Threads -> CallType]
  /\ \A u \in Threads \ {t} : call'[u] = call[u]
  /\ call'[t].op = call[t].op
  /\ call'[t].at = place /\ call'[t].outcome = outcome

\* The same, and nothing else of its record changes.
Went(t, place, outcome) ==
  /\ Moved(t, place, outcome)
  /\ UNCHANGED <<call[t].vendor, call[t].instance, call[t].next>>

\* There is a device to begin a loop with.
LEMMA FirstDevice == 1 \in Devices
  BY BoundsAssumption DEF Devices

\* What Goto, End and Loop do to the record of the thread.
LEMMA GotoEffect ==
  ASSUME TypeOK, NEW t \in Threads, NEW place \in Places, Goto(t, place)
  PROVE  Went(t, place, call[t].outcome)
<1>1. call \in [Threads -> CallType] /\ call' = [call EXCEPT ![t] = [call[t] EXCEPT !.at = place]]
  BY DEF TypeOK, CallType, Goto
<1> QED BY <1>1 DEF Went, Moved, CallType

LEMMA EndEffect ==
  ASSUME TypeOK, NEW t \in Threads, NEW place \in Places,
         NEW outcome \in Outcomes \cup Instances \cup {Nothing}, End(t, place, outcome)
  PROVE  Went(t, place, outcome)
<1>1. /\ call \in [Threads -> CallType]
      /\ call' = [call EXCEPT ![t] = [call[t] EXCEPT !.at = place, !.outcome = outcome]]
  BY DEF TypeOK, CallType, End
<1> QED BY <1>1 DEF Went, Moved, CallType

\* A loop visits the next device, or starts at the first for the next loop.
LEMMA LoopEffect ==
  ASSUME TypeOK, NEW t \in Threads, NEW after \in Places, Loop(t, after)
  PROVE  /\ Moved(t, IF call[t].next < DeviceCount THEN call[t].at ELSE after, call[t].outcome)
         /\ UNCHANGED <<call[t].vendor, call[t].instance>>
         /\ call'[t].next = IF call[t].next < DeviceCount THEN call[t].next + 1 ELSE 1
         /\ call[t].next < DeviceCount \/ call[t].next = DeviceCount
<1>1. /\ call \in [Threads -> CallType] /\ call[t].next \in Devices
      /\ DeviceCount \in Nat \ {0}
  BY BoundsAssumption DEF TypeOK, CallType
<1>2. CASE call[t].next < DeviceCount
  <2>1. call' = [call EXCEPT ![t] = [call[t] EXCEPT !.next = @ + 1]]
    BY <1>2 DEF Loop
  <2>2. call[t].next + 1 \in Devices
    BY <1>1, <1>2 DEF Devices
  <2> QED BY <1>1, <1>2, <2>1, <2>2 DEF Moved, CallType
<1>3. CASE ~(call[t].next < DeviceCount)
  <2>1. call' = [call EXCEPT ![t] = [call[t] EXCEPT !.at = after, !.next = 1]]
    BY <1>3 DEF Loop
  <2>2. 1 \in Devices /\ call[t].next = DeviceCount
    BY <1>1, <1>3 DEF Devices
  <2> QED BY <1>1, <1>3, <2>1, <2>2 DEF Moved, CallType
<1> QED BY <1>2, <1>3

-----------------------------------------------------------------------------
(* What a step of one thread leaves alone.                                 *)

\* Only thread t takes a step.
Others(t) == \A u \in Threads \ {t} : call'[u] = call[u]

\* The mutexes of other threads stay theirs.
MutexesKept(t) ==
  /\ \A v \in Vendors : slotMutex[v] \notin {t, Nothing} => slotMutex'[v] = slotMutex[v]
  /\ moduleMutex \notin {t, Nothing} => moduleMutex' = moduleMutex
  /\ slots \subseteq slots'

\* The vendor of a thread that has a slot is a vendor.
LEMMA HasVendor ==
  ASSUME Inv, NEW t \in Threads, call[t].at \notin {"idle", "check", "find", "return"}
  PROVE  call[t].vendor \in Vendors
  BY DEF Inv, TypeOK, ThreadOK, MutexOK

\* Two threads inside a slot are inside different ones.
LEMMA SlotExclusive ==
  ASSUME Inv, NEW t \in Threads, NEW u \in Threads,
         call[t].at \notin Outside, call[u].at \notin Outside, call[t].vendor = call[u].vendor
  PROVE  t = u
  BY DEF Inv, ThreadOK, MutexOK

\* An instance that one thread alone knows has no handle.
LEMMA PrivateFacts ==
  ASSUME Inv, NEW t \in Threads, Private(t)
  PROVE  /\ call[t].instance \in Instances /\ call[t].at \notin Outside
         /\ call[t].vendor \in Vendors /\ slotMutex[call[t].vendor] = t
         /\ call[t].instance \in allocated /\ handles[call[t].instance] = Nothing
<1>1. call[t].at \notin Outside /\ call[t].at \notin {"idle", "check", "find", "return"}
  BY DEF Private, Outside
<1>2. call[t].vendor \in Vendors /\ slotMutex[call[t].vendor] = t
  BY <1>1, HasVendor DEF Inv, ThreadOK, MutexOK
<1>3. call[t].instance \in Instances
  BY DEF Private, Inv, ThreadOK, GoodCall
<1>4. call[t].instance \in allocated /\ \A v \in Vendors : slotInstance[v] # call[t].instance
  BY DEF Inv, InstanceInv
<1>5. handles[call[t].instance] = Nothing
  BY <1>4 DEF Inv, TypeOK, HandleInv, RegistryConsistent
<1> QED BY <1>1, <1>2, <1>3, <1>4, <1>5

\* The parts of the invariant that speak of another thread, or of none.
LEMMA MutexFrame ==
  ASSUME Inv, NEW t \in Threads, NEW u \in Threads \ {t}, Others(t), MutexesKept(t)
  PROVE  MutexOK(u)'
<1>1. call'[u] = call[u] /\ u # Nothing
  BY NullAssumption DEF Others
<1>2. call[u].at \notin Outside => call[u].vendor \in Vendors
  BY HasVendor DEF Outside
<1> QED BY <1>1, <1>2 DEF Inv, ThreadOK, MutexOK, MutexesKept

LEMMA SlotFrame ==
  ASSUME Inv, NEW t \in Threads, NEW u \in Threads \ {t}, Others(t),
         \A v \in Vendors : slotInstance'[v] # slotInstance[v] => slotMutex[v] = t
  PROVE  SlotOK(u)'
<1>1. call'[u] = call[u]
  BY DEF Others
<1>2. call[u].at \notin Outside => slotInstance'[call[u].vendor] = slotInstance[call[u].vendor]
  <2>1. call[u].at \notin Outside => call[u].vendor \in Vendors /\ slotMutex[call[u].vendor] = u
    BY HasVendor DEF Inv, ThreadOK, MutexOK, Outside
  <2> QED BY <2>1
<1>3. Private(u)' <=> Private(u)
  BY <1>1 DEF Private
<1>4. Private(u) \/ call[u].at \in {"flush", "erase", "take out"} => call[u].at \notin Outside
  BY DEF Private, Outside
<1>5. SlotOK(u)
  BY DEF Inv, ThreadOK
<1> QED BY <1>1, <1>2, <1>3, <1>4, <1>5 DEF SlotOK

LEMMA DeviceFrame ==
  ASSUME Inv, NEW t \in Threads, NEW u \in Threads \ {t}, Others(t),
         \A i \in Instances : device'[i] # device[i] => Private(t) /\ i = call[t].instance
  PROVE  DeviceOK(u)'
<1>1. call'[u] = call[u] /\ DeviceOK(u)
  BY DEF Others, Inv, ThreadOK
<1>2. CASE Private(u)
  <2>1. device'[call[u].instance] = device[call[u].instance]
    BY <1>2, PrivateFacts DEF Inv, InstanceInv
  <2> QED BY <1>1, <2>1 DEF DeviceOK
<1>3. CASE ~Private(u)
  <2>1. call[u].at \notin {"devices", "publish", "shutdown", "clear", "delete"}
        /\ ~(call[u].op = "destroy" /\ call[u].at = "flush")
    BY <1>3 DEF Private, Inv, TypeOK, ThreadOK, GoodCall, InitPlaces, FlushPlaces, DestroyPlaces,
                ModulePlaces
  <2> QED BY <1>1, <2>1 DEF DeviceOK
<1> QED BY <1>2, <1>3

LEMMA LookupFrame ==
  ASSUME Inv, NEW t \in Threads, NEW u \in Threads \ {t}, Others(t),
         UNCHANGED handles, u \in stale => u \in stale', u \in stale' => u \in stale
  PROVE  LookupOK(u)'
  BY DEF Others, Inv, ThreadOK, LookupOK

LEMMA InstanceFrame ==
  ASSUME Inv, UNCHANGED <<slotInstance, allocated>>,
         \A t \in Threads : /\ Private(t)' <=> Private(t)
                            /\ Private(t) => call'[t].instance = call[t].instance
  PROVE  InstanceInv'
  BY DEF Inv, InstanceInv

LEMMA TokenFrame ==
  ASSUME Inv, NEW t \in Threads, Others(t), UNCHANGED <<tokens, handles>>,
         \A i \in Instances : Owner(t, i)' <=> Owner(t, i)
  PROVE  TokenInv'
<1>1. \A u \in Threads : \A i \in Instances : Owner(u, i)' <=> Owner(u, i)
  BY DEF Others, Owner
<1> QED BY <1>1 DEF Inv, TokenInv

\* Unless the map of handles or an instance of a slot changes, whoever takes an instance
\* out of its slot goes on doing so.
LEMMA HandleFrame ==
  ASSUME Inv, NEW t \in Threads, Others(t), MutexesKept(t), UNCHANGED <<slotInstance, handles>>,
         ~TakingOut(t), ~TakingOut(t)'
  PROVE  HandleInv'
<1>1. \A i \in Instances : handles[i] # Nothing =>
        handles[i] \in slots' /\ slotInstance[handles[i]] = i
  BY DEF Inv, HandleInv, RegistryConsistent, MutexesKept
<1>2. \A u \in Threads : /\ TakingOut(u) => TakingOut(u)' /\ call'[u] = call[u]
                         /\ TakingOut(u)' => TakingOut(u) /\ call'[u] = call[u]
  <2> SUFFICES ASSUME NEW u \in Threads
               PROVE  /\ TakingOut(u) => TakingOut(u)' /\ call'[u] = call[u]
                      /\ TakingOut(u)' => TakingOut(u) /\ call'[u] = call[u]
    OBVIOUS
  <2>1. CASE u = t
    BY <2>1
  <2>2. CASE u # t
    BY <2>2 DEF Others, TakingOut, At
  <2> QED BY <2>2
<1>3. \A v \in Vendors : \A u \in Threads : TakingOut(u) /\ Handling(u, v) => Handling(u, v)'
  BY <1>2, NullAssumption DEF MutexesKept, Handling
<1>4. \A v \in Vendors : slotInstance[v] # Nothing =>
        handles[slotInstance[v]] = v \/ \E u \in Threads : TakingOut(u)' /\ Handling(u, v)'
  BY <1>2, <1>3 DEF Inv, HandleInv, RegistryConsistent, TakingOut
<1>5. \A u \in Threads : TakingOut(u)' => handles[call'[u].instance] = Nothing
  BY <1>2 DEF Inv, HandleInv
<1> QED BY <1>1, <1>4, <1>5 DEF HandleInv, RegistryConsistent, TakingOut

\* What thread t does at its slot, to its instance or in its mutexes does not concern a
\* thread that finds its own handle where it was.
LEMMA OthersOK ==
  ASSUME Inv, NEW t \in Threads, NEW u \in Threads \ {t}, Others(t), MutexesKept(t),
         \A v \in Vendors : slotInstance'[v] # slotInstance[v] => slotMutex[v] = t,
         \A i \in Instances : device'[i] # device[i] => Private(t) /\ i = call[t].instance,
         LookupOK(u)'
  PROVE  ThreadOK(u)'
<1>1. GoodCall(call'[u])
  BY DEF Others, Inv, ThreadOK
<1> QED BY <1>1, MutexFrame, SlotFrame, DeviceFrame DEF ThreadOK

\* A step that changes nothing but what belongs to its thread: its place, its mutexes, the
\* devices of an instance that it alone knows.  What is left to show is about that thread.
Local(t) ==
  /\ call' \in [Threads -> CallType] /\ Others(t)
  /\ Private(t)' <=> Private(t)
  /\ Private(t) => call'[t].instance = call[t].instance
  /\ ~TakingOut(t) /\ ~TakingOut(t)'
  /\ UNCHANGED <<slotInstance, handles, allocated>>
  /\ slots' \subseteq Vendors /\ libraries' \subseteq Vendors
  /\ slotMutex' \in [Vendors -> Threads \cup {Nothing}]
  /\ moduleMutex' \in Threads \cup {Nothing}
  /\ MutexesKept(t)
  /\ device' \in [Instances -> [Devices -> {"none", "up", "down"}]]
  /\ \A i \in Instances : device'[i] # device[i] => Private(t) /\ i = call[t].instance
  /\ tokens' \subseteq Instances /\ calls' \in [Threads -> 0 .. MaxCalls]
  /\ stale' \subseteq Threads /\ \A u \in Threads \ {t} : u \in stale' <=> u \in stale

\* A step that changes no slot, handle or instance has to keep what holds for its thread.
LEMMA LocalStep ==
  ASSUME Inv, NEW t \in Threads, Local(t), ThreadOK(t)', TokenInv'
  PROVE  Inv'
<1>1. TypeOK'
  BY DEF Inv, TypeOK, Local, CallType
<1>2. ASSUME NEW u \in Threads PROVE ThreadOK(u)'
  <2>1. CASE u = t
    BY <2>1
  <2>2. CASE u # t
    <3>1. LookupOK(u)'
      BY <2>2, LookupFrame DEF Local
    <3> QED BY <3>1, OthersOK DEF Local
  <2> QED BY <2>2
<1>3. InstanceInv'
  <2>1. \A u \in Threads : /\ Private(u)' <=> Private(u)
                           /\ Private(u) => call'[u].instance = call[u].instance
    BY DEF Local, Others, Private
  <2> QED BY <2>1, InstanceFrame DEF Local
<1>4. DeviceInv'
  <2>1. \A i \in Instances : i \notin allocated => device'[i] = device[i]
    BY PrivateFacts DEF Local
  <2>2. \A v \in Vendors : slotInstance[v] # Nothing =>
          device'[slotInstance[v]] = device[slotInstance[v]]
    BY DEF Local, Inv, TypeOK, InstanceInv
  <2> QED BY <2>1, <2>2 DEF Local, Inv, DeviceInv
<1>5. HandleInv'
  BY HandleFrame DEF Local
<1> QED BY <1>1, <1>2, <1>3, <1>4, <1>5 DEF Inv

-----------------------------------------------------------------------------
(* The steps that only move a thread, by action.                           *)

\* init answers wrong arguments at once.
LEMMA RejectArgumentsStep == ASSUME Inv, NEW t \in Threads, RejectArguments(t) PROVE Inv'
<1>1. Went(t, "return", "INVALID_ARGUMENT")
  BY EndEffect DEF RejectArguments, Inv, Places, Outcomes
<1>2. GoodCall(call[t]) /\ MutexOK(t) /\ SlotOK(t) /\ LookupOK(t) /\ call[t] \in CallType
  BY DEF Inv, TypeOK, ThreadOK, CallType
<1>3. Others(t) /\ call' \in [Threads -> CallType]
  BY <1>1 DEF Went, Moved, Others
<1>4. Local(t)
  <2>1. /\ MutexesKept(t) /\ slots' \subseteq Vendors /\ libraries' \subseteq Vendors
        /\ slotMutex' \in [Vendors -> Threads \cup {Nothing}]
        /\ moduleMutex' \in Threads \cup {Nothing}
    BY DEF RejectArguments, registry, mutexes, MutexesKept, Inv, TypeOK
  <2>2. /\ Private(t)' <=> Private(t)
        /\ Private(t) => call'[t].instance = call[t].instance
        /\ ~TakingOut(t) /\ ~TakingOut(t)'
    BY <1>1 DEF RejectArguments, At, TakingOut, Private, Went, Moved
  <2> QED BY <1>3, <2>1, <2>2 DEF Local, RejectArguments, registry, objects, history, Inv, TypeOK
<1>5. TokenInv'
  <2>1. \A i \in Instances : Owner(t, i)' <=> Owner(t, i)
    BY <1>1, <1>2, OutcomeAssumption
       DEF RejectArguments, At, Owner, Went, Moved, GoodCall, Outcomes
  <2> QED BY <1>3, <2>1, TokenFrame DEF RejectArguments, registry, history
<1>6. GoodCall(call'[t])
  BY <1>1, <1>2, NullAssumption
     DEF RejectArguments, At, GoodCall, Went, Moved, Outcomes, Undecided, InitPlaces
<1>7. MutexOK(t)'
  BY <1>1 DEF MutexOK, Went, Moved, Outside, ModulePlaces
<1>8. SlotOK(t)' /\ DeviceOK(t)'
  BY <1>1 DEF RejectArguments, At, SlotOK, DeviceOK, Went, Moved, Outside
<1>9. LookupOK(t)'
  BY <1>1 DEF RejectArguments, At, LookupOK, Went, Moved
<1> QED BY <1>4, <1>5, <1>6, <1>7, <1>8, <1>9, LocalStep DEF ThreadOK

\* The slot of a vendor is there from its first init on.
LEMMA GetOrCreateSlotStep == ASSUME Inv, NEW t \in Threads, GetOrCreateSlot(t) PROVE Inv'
<1>1. Went(t, "lock", call[t].outcome)
  BY GotoEffect DEF GetOrCreateSlot, Inv, Places, Outcomes
<1>2. GoodCall(call[t]) /\ MutexOK(t) /\ SlotOK(t) /\ LookupOK(t) /\ call[t] \in CallType
  BY DEF Inv, TypeOK, ThreadOK, CallType
<1>3. Others(t) /\ call' \in [Threads -> CallType]
  BY <1>1 DEF Went, Moved, Others
<1>4. Local(t)
  <2>1. /\ MutexesKept(t) /\ slots' \subseteq Vendors /\ libraries' \subseteq Vendors
        /\ slotMutex' \in [Vendors -> Threads \cup {Nothing}]
        /\ moduleMutex' \in Threads \cup {Nothing}
    BY <1>2 DEF GetOrCreateSlot, At, mutexes, MutexesKept, Inv, TypeOK, GoodCall
  <2>2. /\ Private(t)' <=> Private(t)
        /\ Private(t) => call'[t].instance = call[t].instance
        /\ ~TakingOut(t) /\ ~TakingOut(t)'
    BY <1>1 DEF GetOrCreateSlot, At, TakingOut, Private, Went, Moved
  <2> QED BY <1>3, <2>1, <2>2 DEF Local, GetOrCreateSlot, objects, history, Inv, TypeOK
<1>5. TokenInv'
  <2>1. \A i \in Instances : Owner(t, i)' <=> Owner(t, i)
    BY <1>1 DEF Owner, Went, Moved
  <2> QED BY <1>3, <2>1, TokenFrame DEF GetOrCreateSlot, history
<1>6. GoodCall(call'[t])
  BY <1>1, <1>2 DEF GetOrCreateSlot, At, GoodCall, Went, Moved, Undecided, InitPlaces
<1>7. MutexOK(t)'
  BY <1>1 DEF GetOrCreateSlot, MutexOK, Went, Moved, Outside, ModulePlaces
<1>8. SlotOK(t)' /\ DeviceOK(t)'
  BY <1>1 DEF GetOrCreateSlot, At, SlotOK, DeviceOK, Went, Moved, Outside
<1>9. LookupOK(t)'
  BY <1>1 DEF GetOrCreateSlot, At, LookupOK, Went, Moved
<1> QED BY <1>4, <1>5, <1>6, <1>7, <1>8, <1>9, LocalStep DEF ThreadOK

\* init locks the slot and looks whether it has an instance.
LEMMA LockForInitStep == ASSUME Inv, NEW t \in Threads, LockForInit(t) PROVE Inv'
<1>1. \/ slotInstance[call[t].vendor] # Nothing /\ Went(t, "unlock", "ALREADY_INITIALIZED")
      \/ slotInstance[call[t].vendor] = Nothing /\ Went(t, "lock module", call[t].outcome)
  <2>1. CASE slotInstance[call[t].vendor] # Nothing
    <3>1. End(t, "unlock", "ALREADY_INITIALIZED")
      BY <2>1 DEF LockForInit
    <3>2. Went(t, "unlock", "ALREADY_INITIALIZED")
      BY <3>1, EndEffect DEF Inv, Places, Outcomes
    <3> QED BY <2>1, <3>2
  <2>2. CASE ~(slotInstance[call[t].vendor] # Nothing)
    <3>1. Goto(t, "lock module")
      BY <2>2 DEF LockForInit
    <3>2. Went(t, "lock module", call[t].outcome)
      BY <3>1, GotoEffect DEF Inv, Places, Outcomes
    <3> QED BY <2>2, <3>2
  <2> QED BY <2>1, <2>2
<1>2. GoodCall(call[t]) /\ MutexOK(t) /\ SlotOK(t) /\ LookupOK(t) /\ call[t] \in CallType
  BY DEF Inv, TypeOK, ThreadOK, CallType
<1>3. Others(t) /\ call' \in [Threads -> CallType]
  BY <1>1 DEF Went, Moved, Others
<1>4. Local(t)
  <2>1. /\ MutexesKept(t) /\ slots' \subseteq Vendors /\ libraries' \subseteq Vendors
        /\ slotMutex' \in [Vendors -> Threads \cup {Nothing}]
        /\ moduleMutex' \in Threads \cup {Nothing}
    BY DEF LockForInit, TakeSlot, registry, MutexesKept, Inv, TypeOK
  <2>2. /\ Private(t)' <=> Private(t)
        /\ Private(t) => call'[t].instance = call[t].instance
        /\ ~TakingOut(t) /\ ~TakingOut(t)'
    BY <1>1 DEF LockForInit, At, TakingOut, Private, Went, Moved
  <2> QED BY <1>3, <2>1, <2>2 DEF Local, LockForInit, registry, objects, history, Inv, TypeOK
<1>5. TokenInv'
  <2>1. \A i \in Instances : Owner(t, i)' <=> Owner(t, i)
    BY <1>1, <1>2, OutcomeAssumption DEF LockForInit, At, Owner, Went, Moved, GoodCall, Outcomes
  <2> QED BY <1>3, <2>1, TokenFrame DEF LockForInit, registry, history
<1>6. GoodCall(call'[t])
  BY <1>1, <1>2, NullAssumption
     DEF LockForInit, At, GoodCall, Went, Moved, Outcomes, Undecided, InitPlaces
<1>7. MutexOK(t)'
  BY <1>1, <1>2
     DEF LockForInit, TakeSlot, At, registry, MutexOK, Went, Moved, ModulePlaces, Inv, TypeOK
<1>8. SlotOK(t)' /\ DeviceOK(t)'
  BY <1>1 DEF LockForInit, registry, SlotOK, DeviceOK, Went, Moved, Private
<1>9. LookupOK(t)'
  BY <1>1 DEF LockForInit, At, LookupOK, Went, Moved
<1> QED BY <1>4, <1>5, <1>6, <1>7, <1>8, <1>9, LocalStep DEF ThreadOK

\* flush locks the slot and goes on only if the instance is still in it.
LEMMA LockForFlushStep == ASSUME Inv, NEW t \in Threads, LockForFlush(t) PROVE Inv'
<1>1. \/ Went(t, "unlock", "INVALID_ARGUMENT")
      \/ slotInstance[call[t].vendor] = call[t].instance /\ Went(t, "flush", "PERFORMED")
  <2>1. CASE slotInstance[call[t].vendor] # call[t].instance
    <3>1. End(t, "unlock", "INVALID_ARGUMENT")
      BY <2>1 DEF LockForFlush
    <3>2. Went(t, "unlock", "INVALID_ARGUMENT")
      BY <3>1, EndEffect DEF Inv, Places, Outcomes
    <3> QED BY <3>2
  <2>2. CASE ~(slotInstance[call[t].vendor] # call[t].instance)
    <3>1. End(t, "flush", "PERFORMED")
      BY <2>2 DEF LockForFlush
    <3>2. Went(t, "flush", "PERFORMED")
      BY <3>1, EndEffect DEF Inv, Places, Outcomes
    <3> QED BY <2>2, <3>2
  <2> QED BY <2>1, <2>2
<1>2. GoodCall(call[t]) /\ MutexOK(t) /\ SlotOK(t) /\ LookupOK(t) /\ call[t] \in CallType
  BY DEF Inv, TypeOK, ThreadOK, CallType
<1>3. Others(t) /\ call' \in [Threads -> CallType]
  BY <1>1 DEF Went, Moved, Others
<1>4. Local(t)
  <2>1. /\ MutexesKept(t) /\ slots' \subseteq Vendors /\ libraries' \subseteq Vendors
        /\ slotMutex' \in [Vendors -> Threads \cup {Nothing}]
        /\ moduleMutex' \in Threads \cup {Nothing}
    BY DEF LockForFlush, TakeSlot, registry, MutexesKept, Inv, TypeOK
  <2>2. /\ Private(t)' <=> Private(t)
        /\ Private(t) => call'[t].instance = call[t].instance
        /\ ~TakingOut(t) /\ ~TakingOut(t)'
    BY <1>1 DEF LockForFlush, At, TakingOut, Private, Went, Moved
  <2> QED BY <1>3, <2>1, <2>2 DEF Local, LockForFlush, registry, objects, history, Inv, TypeOK
<1>5. TokenInv'
  <2>1. \A i \in Instances : Owner(t, i)' <=> Owner(t, i)
    BY <1>1 DEF LockForFlush, At, Owner, Went, Moved
  <2> QED BY <1>3, <2>1, TokenFrame DEF LockForFlush, registry, history
<1>6. GoodCall(call'[t])
  BY <1>1, <1>2, NullAssumption, OutcomeAssumption
     DEF LockForFlush, At, GoodCall, Went, Moved, Outcomes, Undecided, FlushPlaces
<1>7. MutexOK(t)'
  BY <1>1, <1>2
     DEF LockForFlush, TakeSlot, At, registry, MutexOK, Went, Moved, ModulePlaces, Inv, TypeOK
<1>8. SlotOK(t)' /\ DeviceOK(t)'
  BY <1>1 DEF LockForFlush, At, registry, SlotOK, DeviceOK, Went, Moved
<1>9. LookupOK(t)'
  BY <1>1, <1>2
     DEF LockForFlush, At, registry, history, LookupOK, GoodCall, Went, Moved, Undecided
<1> QED BY <1>4, <1>5, <1>6, <1>7, <1>8, <1>9, LocalStep DEF ThreadOK

\* destroy locks the slot and finds the instance it owns the handle of.
LEMMA LockForDestroyStep == ASSUME Inv, NEW t \in Threads, LockForDestroy(t) PROVE Inv'
<1>1. slotInstance[call[t].vendor] = call[t].instance /\ Went(t, "erase", call[t].outcome)
  <2>1. call[t].vendor \in Vendors
    BY HasVendor DEF LockForDestroy, At
  <2>2. call[t].instance \in Instances /\ handles[call[t].instance] = call[t].vendor
    BY DEF LockForDestroy, At, Inv, ThreadOK, GoodCall, LookupOK
  <2>3. slotInstance[call[t].vendor] = call[t].instance
    BY <2>1, <2>2, NullAssumption DEF Inv, HandleInv, RegistryConsistent
  <2>4. Goto(t, "erase")
    BY <2>3 DEF LockForDestroy
  <2> QED BY <2>3, <2>4, GotoEffect DEF Inv, Places
<1>2. GoodCall(call[t]) /\ MutexOK(t) /\ SlotOK(t) /\ LookupOK(t) /\ call[t] \in CallType
  BY DEF Inv, TypeOK, ThreadOK, CallType
<1>3. Others(t) /\ call' \in [Threads -> CallType]
  BY <1>1 DEF Went, Moved, Others
<1>4. Local(t)
  <2>1. /\ MutexesKept(t) /\ slots' \subseteq Vendors /\ libraries' \subseteq Vendors
        /\ slotMutex' \in [Vendors -> Threads \cup {Nothing}]
        /\ moduleMutex' \in Threads \cup {Nothing}
    BY DEF LockForDestroy, TakeSlot, registry, MutexesKept, Inv, TypeOK
  <2>2. /\ Private(t)' <=> Private(t)
        /\ Private(t) => call'[t].instance = call[t].instance
        /\ ~TakingOut(t) /\ ~TakingOut(t)'
    BY <1>1 DEF LockForDestroy, At, TakingOut, Private, Went, Moved
  <2> QED BY <1>3, <2>1, <2>2 DEF Local, LockForDestroy, registry, objects, history, Inv, TypeOK
<1>5. TokenInv'
  <2>1. \A i \in Instances : Owner(t, i)' <=> Owner(t, i)
    BY <1>1 DEF Owner, Went, Moved
  <2> QED BY <1>3, <2>1, TokenFrame DEF LockForDestroy, registry, history
<1>6. GoodCall(call'[t])
  BY <1>1, <1>2 DEF LockForDestroy, At, GoodCall, Went, Moved, Undecided, DestroyPlaces
<1>7. MutexOK(t)'
  BY <1>1, <1>2
     DEF LockForDestroy, TakeSlot, At, registry, MutexOK, Went, Moved, ModulePlaces, Inv, TypeOK
<1>8. SlotOK(t)' /\ DeviceOK(t)'
  BY <1>1 DEF LockForDestroy, At, registry, SlotOK, DeviceOK, Went, Moved, Private
<1>9. LookupOK(t)'
  BY <1>1, <1>2 DEF LockForDestroy, At, registry, LookupOK, Went, Moved
<1> QED BY <1>4, <1>5, <1>6, <1>7, <1>8, <1>9, LocalStep DEF ThreadOK

\* The slot is left to others.
LEMMA UnlockSlotStep == ASSUME Inv, NEW t \in Threads, UnlockSlot(t) PROVE Inv'
<1>1. Went(t, "return", call[t].outcome)
  BY GotoEffect DEF UnlockSlot, Inv, Places, Outcomes
<1>2. GoodCall(call[t]) /\ MutexOK(t) /\ SlotOK(t) /\ LookupOK(t) /\ call[t] \in CallType
  BY DEF Inv, TypeOK, ThreadOK, CallType
<1>3. Others(t) /\ call' \in [Threads -> CallType]
  BY <1>1 DEF Went, Moved, Others
<1>4. Local(t)
  <2>1. /\ MutexesKept(t) /\ slots' \subseteq Vendors /\ libraries' \subseteq Vendors
        /\ slotMutex' \in [Vendors -> Threads \cup {Nothing}]
        /\ moduleMutex' \in Threads \cup {Nothing}
    BY <1>2 DEF UnlockSlot, registry, MutexesKept, Inv, TypeOK, MutexOK, Outside
  <2>2. /\ Private(t)' <=> Private(t)
        /\ Private(t) => call'[t].instance = call[t].instance
        /\ ~TakingOut(t) /\ ~TakingOut(t)'
    BY <1>1 DEF UnlockSlot, At, TakingOut, Private, Went, Moved
  <2> QED BY <1>3, <2>1, <2>2 DEF Local, UnlockSlot, registry, objects, history, Inv, TypeOK
<1>5. TokenInv'
  <2>1. \A i \in Instances : Owner(t, i)' <=> Owner(t, i)
    BY <1>1 DEF UnlockSlot, Owner, Went, Moved
  <2> QED BY <1>3, <2>1, TokenFrame DEF UnlockSlot, registry, history
<1>6. GoodCall(call'[t])
  BY <1>1, <1>2
     DEF UnlockSlot, GoodCall, Went, Moved, Undecided, InitPlaces, FlushPlaces, DestroyPlaces
<1>7. MutexOK(t)'
  BY <1>1 DEF MutexOK, Went, Moved, Outside, ModulePlaces
<1>8. SlotOK(t)' /\ DeviceOK(t)'
  BY <1>1 DEF SlotOK, DeviceOK, Went, Moved, Outside, Private
<1>9. LookupOK(t)'
  BY <1>1, <1>2 DEF UnlockSlot, LookupOK, GoodCall, Went, Moved
<1> QED BY <1>4, <1>5, <1>6, <1>7, <1>8, <1>9, LocalStep DEF ThreadOK

\* init locks the module manager.
LEMMA LockModuleStep == ASSUME Inv, NEW t \in Threads, LockModule(t) PROVE Inv'
<1>1. Went(t, "find library", call[t].outcome)
  BY GotoEffect DEF LockModule, Inv, Places, Outcomes
<1>2. GoodCall(call[t]) /\ MutexOK(t) /\ SlotOK(t) /\ LookupOK(t) /\ call[t] \in CallType
  BY DEF Inv, TypeOK, ThreadOK, CallType
<1>3. Others(t) /\ call' \in [Threads -> CallType]
  BY <1>1 DEF Went, Moved, Others
<1>4. Local(t)
  <2>1. /\ MutexesKept(t) /\ slots' \subseteq Vendors /\ libraries' \subseteq Vendors
        /\ slotMutex' \in [Vendors -> Threads \cup {Nothing}]
        /\ moduleMutex' \in Threads \cup {Nothing}
    BY DEF LockModule, registry, MutexesKept, Inv, TypeOK
  <2>2. /\ Private(t)' <=> Private(t)
        /\ Private(t) => call'[t].instance = call[t].instance
        /\ ~TakingOut(t) /\ ~TakingOut(t)'
    BY <1>1 DEF LockModule, At, TakingOut, Private, Went, Moved
  <2> QED BY <1>3, <2>1, <2>2 DEF Local, LockModule, registry, objects, history, Inv, TypeOK
<1>5. TokenInv'
  <2>1. \A i \in Instances : Owner(t, i)' <=> Owner(t, i)
    BY <1>1 DEF Owner, Went, Moved
  <2> QED BY <1>3, <2>1, TokenFrame DEF LockModule, registry, history
<1>6. GoodCall(call'[t])
  BY <1>1, <1>2 DEF LockModule, At, GoodCall, Went, Moved, Undecided, InitPlaces, ModulePlaces
<1>7. MutexOK(t)'
  BY <1>1, <1>2 DEF LockModule, At, registry, MutexOK, Went, Outside
<1>8. SlotOK(t)' /\ DeviceOK(t)'
  BY <1>1, <1>2 DEF LockModule, At, registry, SlotOK, DeviceOK, Went, Moved, Outside
<1>9. LookupOK(t)'
  BY <1>1, <1>2 DEF LockModule, registry, history, LookupOK, Went, Moved
<1> QED BY <1>4, <1>5, <1>6, <1>7, <1>8, <1>9, LocalStep DEF ThreadOK

\* The module manager looks for the library of the vendor.
LEMMA FindLibraryStep == ASSUME Inv, NEW t \in Threads, FindLibrary(t) PROVE Inv'
<1>1. \/ Went(t, "call entry", call[t].outcome)
      \/ Went(t, "open library", call[t].outcome)
  BY GotoEffect DEF FindLibrary, Inv, Places, Outcomes
<1>2. GoodCall(call[t]) /\ MutexOK(t) /\ SlotOK(t) /\ LookupOK(t) /\ call[t] \in CallType
  BY DEF Inv, TypeOK, ThreadOK, CallType
<1>3. Others(t) /\ call' \in [Threads -> CallType]
  BY <1>1 DEF Went, Moved, Others
<1>4. Local(t)
  <2>1. /\ MutexesKept(t) /\ slots' \subseteq Vendors /\ libraries' \subseteq Vendors
        /\ slotMutex' \in [Vendors -> Threads \cup {Nothing}]
        /\ moduleMutex' \in Threads \cup {Nothing}
    BY DEF FindLibrary, registry, mutexes, MutexesKept, Inv, TypeOK
  <2>2. /\ Private(t)' <=> Private(t)
        /\ Private(t) => call'[t].instance = call[t].instance
        /\ ~TakingOut(t) /\ ~TakingOut(t)'
    BY <1>1 DEF FindLibrary, At, TakingOut, Private, Went, Moved
  <2> QED BY <1>3, <2>1, <2>2 DEF Local, FindLibrary, registry, objects, history, Inv, TypeOK
<1>5. TokenInv'
  <2>1. \A i \in Instances : Owner(t, i)' <=> Owner(t, i)
    BY <1>1 DEF Owner, Went, Moved
  <2> QED BY <1>3, <2>1, TokenFrame DEF FindLibrary, registry, history
<1>6. GoodCall(call'[t])
  BY <1>1, <1>2 DEF FindLibrary, At, GoodCall, Went, Moved, Undecided, InitPlaces, ModulePlaces
<1>7. MutexOK(t)'
  BY <1>1, <1>2 DEF FindLibrary, At, registry, mutexes, MutexOK, Went, Outside, ModulePlaces
<1>8. SlotOK(t)' /\ DeviceOK(t)'
  BY <1>1, <1>2 DEF FindLibrary, At, registry, SlotOK, DeviceOK, Went, Moved, Outside
<1>9. LookupOK(t)'
  BY <1>1, <1>2 DEF FindLibrary, registry, history, LookupOK, Went, Moved
<1> QED BY <1>4, <1>5, <1>6, <1>7, <1>8, <1>9, LocalStep DEF ThreadOK

\* The library is opened, or is not there.
LEMMA OpenLibraryStep == ASSUME Inv, NEW t \in Threads, OpenLibrary(t) PROVE Inv'
<1>1. \/ Went(t, "call entry", call[t].outcome)
      \/ Went(t, "unlock module", "FAILED")
  BY GotoEffect, EndEffect DEF OpenLibrary, Inv, Places, Outcomes
<1>2. GoodCall(call[t]) /\ MutexOK(t) /\ SlotOK(t) /\ LookupOK(t) /\ call[t] \in CallType
  BY DEF Inv, TypeOK, ThreadOK, CallType
<1>3. Others(t) /\ call' \in [Threads -> CallType]
  BY <1>1 DEF Went, Moved, Others
<1>4. Local(t)
  <2>1. /\ MutexesKept(t) /\ slots' \subseteq Vendors /\ libraries' \subseteq Vendors
        /\ slotMutex' \in [Vendors -> Threads \cup {Nothing}]
        /\ moduleMutex' \in Threads \cup {Nothing}
    BY <1>2 DEF OpenLibrary, At, registry, mutexes, MutexesKept, Inv, TypeOK, GoodCall
  <2>2. /\ Private(t)' <=> Private(t)
        /\ Private(t) => call'[t].instance = call[t].instance
        /\ ~TakingOut(t) /\ ~TakingOut(t)'
    BY <1>1 DEF OpenLibrary, At, TakingOut, Private, Went, Moved
  <2> QED BY <1>3, <2>1, <2>2 DEF Local, OpenLibrary, registry, objects, history, Inv, TypeOK
<1>5. TokenInv'
  <2>1. \A i \in Instances : Owner(t, i)' <=> Owner(t, i)
    BY <1>1, <1>2, OutcomeAssumption DEF OpenLibrary, At, Owner, Went, Moved, GoodCall, Outcomes
  <2> QED BY <1>3, <2>1, TokenFrame DEF OpenLibrary, registry, history
<1>6. GoodCall(call'[t])
  BY <1>1, <1>2, OutcomeAssumption
     DEF OpenLibrary, At, GoodCall, Went, Moved, Outcomes, Undecided, InitPlaces, ModulePlaces
<1>7. MutexOK(t)'
  BY <1>1, <1>2 DEF OpenLibrary, At, registry, mutexes, MutexOK, Went, Outside, ModulePlaces
<1>8. SlotOK(t)' /\ DeviceOK(t)'
  BY <1>1, <1>2 DEF OpenLibrary, At, registry, SlotOK, DeviceOK, Went, Moved, Outside
<1>9. LookupOK(t)'
  BY <1>1 DEF OpenLibrary, At, LookupOK, Went, Moved
<1> QED BY <1>4, <1>5, <1>6, <1>7, <1>8, <1>9, LocalStep DEF ThreadOK

\* The entry point of the library is called, or is missing.
LEMMA CallEntryStep == ASSUME Inv, NEW t \in Threads, CallEntry(t) PROVE Inv'
<1>1. \/ Went(t, "unlock module", call[t].outcome)
      \/ Went(t, "unlock module", "FAILED")
  BY GotoEffect, EndEffect DEF CallEntry, Inv, Places, Outcomes
<1>2. GoodCall(call[t]) /\ MutexOK(t) /\ SlotOK(t) /\ LookupOK(t) /\ call[t] \in CallType
  BY DEF Inv, TypeOK, ThreadOK, CallType
<1>3. Others(t) /\ call' \in [Threads -> CallType]
  BY <1>1 DEF Went, Moved, Others
<1>4. Local(t)
  <2>1. /\ MutexesKept(t) /\ slots' \subseteq Vendors /\ libraries' \subseteq Vendors
        /\ slotMutex' \in [Vendors -> Threads \cup {Nothing}]
        /\ moduleMutex' \in Threads \cup {Nothing}
    BY DEF CallEntry, registry, mutexes, MutexesKept, Inv, TypeOK
  <2>2. /\ Private(t)' <=> Private(t)
        /\ Private(t) => call'[t].instance = call[t].instance
        /\ ~TakingOut(t) /\ ~TakingOut(t)'
    BY <1>1 DEF CallEntry, At, TakingOut, Private, Went, Moved
  <2> QED BY <1>3, <2>1, <2>2 DEF Local, CallEntry, registry, objects, history, Inv, TypeOK
<1>5. TokenInv'
  <2>1. \A i \in Instances : Owner(t, i)' <=> Owner(t, i)
    BY <1>1, <1>2, OutcomeAssumption DEF CallEntry, At, Owner, Went, Moved, GoodCall, Outcomes
  <2> QED BY <1>3, <2>1, TokenFrame DEF CallEntry, registry, history
<1>6. GoodCall(call'[t])
  BY <1>1, <1>2, OutcomeAssumption
     DEF CallEntry, At, GoodCall, Went, Moved, Outcomes, Undecided, InitPlaces, ModulePlaces
<1>7. MutexOK(t)'
  BY <1>1, <1>2 DEF CallEntry, At, registry, mutexes, MutexOK, Went, Outside, ModulePlaces
<1>8. SlotOK(t)' /\ DeviceOK(t)'
  BY <1>1, <1>2 DEF CallEntry, At, registry, SlotOK, DeviceOK, Went, Moved, Outside
<1>9. LookupOK(t)'
  BY <1>1 DEF CallEntry, At, LookupOK, Went, Moved
<1> QED BY <1>4, <1>5, <1>6, <1>7, <1>8, <1>9, LocalStep DEF ThreadOK

\* The module manager is left to others.
LEMMA UnlockModuleStep == ASSUME Inv, NEW t \in Threads, UnlockModule(t) PROVE Inv'
<1>1. \/ call[t].outcome = Nothing /\ Went(t, "create", call[t].outcome)
      \/ call[t].outcome # Nothing /\ Went(t, "unlock", call[t].outcome)
  <2>1. CASE call[t].outcome = Nothing
    <3>1. Goto(t, "create")
      BY <2>1 DEF UnlockModule
    <3>2. Went(t, "create", call[t].outcome)
      BY <3>1, GotoEffect DEF Inv, Places, Outcomes
    <3> QED BY <2>1, <3>2
  <2>2. CASE ~(call[t].outcome = Nothing)
    <3>1. Goto(t, "unlock")
      BY <2>2 DEF UnlockModule
    <3>2. Went(t, "unlock", call[t].outcome)
      BY <3>1, GotoEffect DEF Inv, Places, Outcomes
    <3> QED BY <2>2, <3>2
  <2> QED BY <2>1, <2>2
<1>2. GoodCall(call[t]) /\ MutexOK(t) /\ SlotOK(t) /\ LookupOK(t) /\ call[t] \in CallType
  BY DEF Inv, TypeOK, ThreadOK, CallType
<1>3. Others(t) /\ call' \in [Threads -> CallType]
  BY <1>1 DEF Went, Moved, Others
<1>4. Local(t)
  <2>1. /\ MutexesKept(t) /\ slots' \subseteq Vendors /\ libraries' \subseteq Vendors
        /\ slotMutex' \in [Vendors -> Threads \cup {Nothing}]
        /\ moduleMutex' \in Threads \cup {Nothing}
    BY <1>2 DEF UnlockModule, At, registry, MutexesKept, Inv, TypeOK, MutexOK, ModulePlaces
  <2>2. /\ Private(t)' <=> Private(t)
        /\ Private(t) => call'[t].instance = call[t].instance
        /\ ~TakingOut(t) /\ ~TakingOut(t)'
    BY <1>1 DEF UnlockModule, At, TakingOut, Private, Went, Moved
  <2> QED BY <1>3, <2>1, <2>2 DEF Local, UnlockModule, registry, objects, history, Inv, TypeOK
<1>5. TokenInv'
  <2>1. \A i \in Instances : Owner(t, i)' <=> Owner(t, i)
    BY <1>1 DEF Owner, Went, Moved
  <2> QED BY <1>3, <2>1, TokenFrame DEF UnlockModule, registry, history
<1>6. GoodCall(call'[t])
  BY <1>1, <1>2 DEF UnlockModule, At, GoodCall, Went, Moved, Undecided, InitPlaces
<1>7. MutexOK(t)'
  BY <1>1, <1>2 DEF UnlockModule, At, registry, MutexOK, Went, Moved, Outside, ModulePlaces
<1>8. SlotOK(t)' /\ DeviceOK(t)'
  BY <1>1, <1>2 DEF UnlockModule, At, registry, SlotOK, DeviceOK, Went, Moved, Outside
<1>9. LookupOK(t)'
  BY <1>1, <1>2 DEF UnlockModule, registry, history, LookupOK, Went, Moved
<1> QED BY <1>4, <1>5, <1>6, <1>7, <1>8, <1>9, LocalStep DEF ThreadOK

\* The slot of a handle is looked up.
LEMMA FindSlotStep == ASSUME Inv, NEW t \in Threads, FindSlot(t) PROVE Inv'
<1> DEFINE v == handles[call[t].instance]
<1>1. GoodCall(call[t]) /\ call[t] \in CallType /\ call \in [Threads -> CallType]
        /\ call[t].at = "find"
  BY DEF FindSlot, Inv, TypeOK, ThreadOK, CallType
<1>2. /\ call[t].op \in {"flush", "destroy"} /\ call[t].instance \in Instances
      /\ call[t].outcome = Nothing
  BY <1>1 DEF GoodCall, CallType, Undecided, InitPlaces, ModulePlaces
<1>3. call[t].op = "destroy" => v # Nothing
  BY <1>2 DEF Inv, TokenInv, Owner
<1>4. v # Nothing => v \in slots
  BY <1>2 DEF Inv, HandleInv, RegistryConsistent
<1>5. /\ call' \in [Threads -> CallType] /\ Others(t)
      /\ call'[t].op = call[t].op /\ call'[t].instance = call[t].instance
      /\ call'[t].next = call[t].next
      /\ IF v = Nothing THEN call'[t].at = "return" /\ call'[t].outcome = "INVALID_ARGUMENT"
         ELSE call'[t].at = "lock" /\ call'[t].outcome = Nothing /\ call'[t].vendor = v
  <2>1. CASE v = Nothing
    <3>1. End(t, "return", "INVALID_ARGUMENT")
      BY <2>1 DEF FindSlot
    <3>2. Went(t, "return", "INVALID_ARGUMENT")
      BY <3>1, EndEffect DEF Inv, Places, Outcomes
    <3> QED BY <2>1, <3>2 DEF Went, Moved, Others
  <2>2. CASE v # Nothing
    <3>1. call' = [call EXCEPT ![t] = [call[t] EXCEPT !.at = "lock", !.vendor = v]]
      BY <2>2 DEF FindSlot
    <3>2. v \in Vendors
      BY <1>4, <2>2 DEF Inv, TypeOK
    <3> QED BY <1>1, <1>2, <2>2, <3>1, <3>2 DEF CallType, Places, Others
  <2> QED BY <2>1, <2>2
<1>6. Local(t)
  <2>1. MutexesKept(t)
    BY DEF FindSlot, registry, mutexes, MutexesKept
  <2>2. ~Private(t) /\ ~Private(t)' /\ ~TakingOut(t) /\ ~TakingOut(t)'
    BY <1>1, <1>5 DEF Private, TakingOut, At
  <2> QED BY <1>5, <2>1, <2>2 DEF Local, FindSlot, registry, mutexes, objects, history, Inv, TypeOK
<1>7. TokenInv'
  <2>1. \A i \in Instances : Owner(t, i)' <=> Owner(t, i)
    BY <1>2, <1>3, <1>5 DEF Owner
  <2> QED BY <1>5, <2>1, TokenFrame DEF FindSlot, registry, history
<1>8. GoodCall(call'[t])
  BY <1>1, <1>2, <1>3, <1>5, NullAssumption, OutcomeAssumption
     DEF GoodCall, Outcomes, Undecided, FlushPlaces, DestroyPlaces
<1>9. MutexOK(t)' /\ SlotOK(t)' /\ DeviceOK(t)'
  BY <1>4, <1>5
     DEF MutexOK, SlotOK, DeviceOK, Outside, ModulePlaces, Private, FindSlot, registry
<1>10. LookupOK(t)'
  BY <1>5, NullAssumption DEF LookupOK, FindSlot, registry, Outcomes
<1> QED BY <1>6, <1>7, <1>8, <1>9, <1>10, LocalStep DEF ThreadOK

\* A step of one of the loops over the devices of an instance.
LEMMA LoopStep ==
  ASSUME Inv, NEW t \in Threads, NEW after \in Places, Loop(t, after),
         UNCHANGED <<registry, mutexes, libraries, allocated, history>>,
         device' \in [Instances -> [Devices -> {"none", "up", "down"}]],
         \A i \in Instances : device'[i] # device[i] => Private(t) /\ i = call[t].instance,
         Private(t)' <=> Private(t), call[t].at \notin Outside,
         ~TakingOut(t), ~TakingOut(t)', GoodCall(call'[t]),
           call'[t].at \notin Outside \cup ModulePlaces,
         SlotOK(t)', DeviceOK(t)', call[t].op = "init" \/ call[t].outcome # Nothing,
         call'[t].at \notin {"lock", "erase"}
  PROVE  Inv'
<1>1. /\ call' \in [Threads -> CallType] /\ Others(t)
      /\ call'[t].op = call[t].op /\ call'[t].outcome = call[t].outcome
      /\ call'[t].vendor = call[t].vendor /\ call'[t].instance = call[t].instance
  BY LoopEffect DEF Moved, Others, Inv
<1>2. Local(t)
  BY <1>1 DEF Local, MutexesKept, registry, mutexes, history, Inv, TypeOK
<1>3. TokenInv'
  <2>1. \A i \in Instances : Owner(t, i)' <=> Owner(t, i)
    BY <1>1 DEF Owner
  <2> QED BY <1>1, <2>1, TokenFrame DEF registry, history
<1>4. MutexOK(t)'
  BY <1>1 DEF Inv, ThreadOK, MutexOK, registry, mutexes, Outside
<1>5. LookupOK(t)'
  BY <1>1 DEF LookupOK
<1> QED BY <1>2, <1>3, <1>4, <1>5, LocalStep DEF ThreadOK

\* KuInstance::flush goes from one device to the next.
LEMMA FlushDeviceStep == ASSUME Inv, NEW t \in Threads, FlushDevice(t) PROVE Inv'
<1> DEFINE after == IF call[t].op = "flush" THEN "unlock" ELSE "shutdown"
<1>1. /\ GoodCall(call[t]) /\ SlotOK(t) /\ DeviceOK(t) /\ call[t] \in CallType
      /\ call[t].at = "flush" /\ call[t].op \in {"flush", "destroy"}
  BY DEF FlushDevice, Inv, TypeOK, ThreadOK, CallType, GoodCall, InitPlaces, ModulePlaces
<1>2. Loop(t, after) /\ after \in Places
        /\ UNCHANGED <<registry, mutexes, libraries, objects, history>>
  BY DEF FlushDevice, Places
<1>3. /\ call'[t].op = call[t].op /\ call'[t].outcome = call[t].outcome
      /\ call'[t].vendor = call[t].vendor /\ call'[t].instance = call[t].instance
      /\ call'[t].at = "flush" \/ (call'[t].at = after /\ call'[t].next = 1)
  BY <1>1, <1>2, LoopEffect DEF Moved, Inv
<1>4. GoodCall(call'[t])
  BY <1>1, <1>3, NullAssumption, OutcomeAssumption
     DEF GoodCall, Outcomes, Undecided, FlushPlaces, DestroyPlaces
<1>5. SlotOK(t)' /\ (Private(t)' <=> Private(t))
  BY <1>1, <1>2, <1>3 DEF SlotOK, Private, registry
<1>6. DeviceOK(t)'
  BY <1>1, <1>2, <1>3 DEF DeviceOK, objects, Devices
<1> HIDE DEF after
<1>7. call[t].outcome # Nothing
  BY <1>1, NullAssumption DEF GoodCall, Outcomes, Undecided
<1>8. call'[t].at \in {"flush", "unlock", "shutdown"}
  BY <1>3 DEF after
<1> QED
  BY <1>1, <1>2, <1>4, <1>5, <1>6, <1>7, <1>8, LoopStep
     DEF objects, Outside, ModulePlaces, TakingOut, At, Inv, TypeOK

\* One device of a private instance changes.
LEMMA SetDeviceEffect ==
  ASSUME Inv, NEW t \in Threads, Private(t), NEW state \in {"none", "up", "down"}, SetDevice(t,
         state)
  PROVE  /\ device' \in [Instances -> [Devices -> {"none", "up", "down"}]]
         /\ \A i \in Instances : device'[i] # device[i] => Private(t) /\ i = call[t].instance
         /\ \A d \in Devices : device'[call[t].instance][d] =
              IF d = call[t].next THEN state ELSE device[call[t].instance][d]
<1> DEFINE i == call[t].instance
<1>1. /\ device \in [Instances -> [Devices -> {"none", "up", "down"}]]
      /\ i \in Instances /\ call[t].next \in Devices
  BY PrivateFacts DEF Inv, TypeOK
<1>2. device' = [device EXCEPT ![i] = [device[i] EXCEPT ![call[t].next] = state]]
  BY DEF SetDevice
<1> QED BY <1>1, <1>2

\* initializeDevices builds one device, or gives up.
LEMMA CreateDeviceStep == ASSUME Inv, NEW t \in Threads, CreateDevice(t) PROVE Inv'
<1>1. /\ GoodCall(call[t]) /\ SlotOK(t) /\ DeviceOK(t) /\ MutexOK(t) /\ call[t] \in CallType
      /\ call[t].at = "devices" /\ call[t].op = "init" /\ Private(t)
      /\ call[t].outcome = Nothing
  BY DEF CreateDevice, At, Inv, TypeOK, ThreadOK, CallType, GoodCall, Private, Undecided
<1>2. CASE SetDevice(t, "up") /\ Loop(t, "publish")
  <2>1. /\ call'[t].op = "init" /\ call'[t].outcome = Nothing
        /\ call'[t].vendor = call[t].vendor /\ call'[t].instance = call[t].instance
        /\ \/ call'[t].at = "devices" /\ call'[t].next = call[t].next + 1
           \/ call'[t].at = "publish" /\ call'[t].next = 1 /\ call[t].next = DeviceCount
    BY <1>1, <1>2, LoopEffect DEF Moved, Inv, Places
  <2>2. GoodCall(call'[t])
    BY <1>1, <2>1 DEF GoodCall, InitPlaces
  <2>3. SlotOK(t)' /\ Private(t)'
    BY <1>1, <2>1 DEF SlotOK, Private, Outside, CreateDevice, registry
  <2>4. DeviceOK(t)'
    <3>1. \A d \in Devices : device'[call[t].instance][d] =
            IF d = call[t].next THEN "up" ELSE device[call[t].instance][d]
      BY <1>1, <1>2, SetDeviceEffect
    <3>2. call[t].next \in Nat /\ DeviceCount \in Nat /\ \A d \in Devices :
            d \in Nat /\ d <= DeviceCount
      BY <1>1, BoundsAssumption DEF CallType, Devices
    <3> QED BY <1>1, <2>1, <3>1, <3>2 DEF DeviceOK
  <2>5. /\ device' \in [Instances -> [Devices -> {"none", "up", "down"}]]
        /\ \A i \in Instances : device'[i] # device[i] => Private(t) /\ i = call[t].instance
    BY <1>1, <1>2, SetDeviceEffect
  <2>6. UNCHANGED <<registry, mutexes, libraries, allocated, history>> /\ "publish" \in Places
    BY DEF CreateDevice, Places
  <2> QED
    BY <1>1, <1>2, <2>1, <2>2, <2>3, <2>4, <2>5, <2>6, LoopStep
    DEF Outside, ModulePlaces, TakingOut, At
<1>3. CASE ~(SetDevice(t, "up") /\ Loop(t, "publish"))
  <2>1. call \in [Threads -> CallType]
          /\ call' = [call EXCEPT ![t] = [call[t] EXCEPT !.at = "clear", !.next = 1,
               !.outcome = "FAILED"]]
    BY <1>3 DEF CreateDevice, Inv, TypeOK, CallType
  <2>2. /\ call' \in [Threads -> CallType] /\ Others(t)
        /\ call'[t].op = "init" /\ call'[t].at = "clear" /\ call'[t].next = 1
             /\ call'[t].outcome = "FAILED"
        /\ call'[t].vendor = call[t].vendor /\ call'[t].instance = call[t].instance
    <3>1. 1 \in Devices /\ "clear" \in Places /\ "FAILED" \in Outcomes
      BY BoundsAssumption DEF Devices, Places, Outcomes
    <3> QED BY <1>1, <2>1, <3>1 DEF CallType, Others
  <2>3. UNCHANGED <<registry, mutexes, libraries, objects, history>>
    BY <1>3 DEF CreateDevice, objects
  <2>4. Private(t)'
    BY <2>2 DEF Private
  <2>5. Local(t)
    BY <1>1, <2>2, <2>3, <2>4
       DEF Local, TakingOut, At, MutexesKept, registry, mutexes, objects, history, Inv, TypeOK
  <2>6. TokenInv'
    <3>1. \A i \in Instances : Owner(t, i)' <=> Owner(t, i)
      BY <1>1, <2>2, NullAssumption, OutcomeAssumption DEF Owner, Outcomes
    <3> QED BY <2>2, <2>3, <3>1, TokenFrame DEF registry, history
  <2>7. GoodCall(call'[t])
    BY <1>1, <2>2, OutcomeAssumption DEF GoodCall, Undecided, InitPlaces, Outcomes
  <2>8. MutexOK(t)' /\ SlotOK(t)' /\ LookupOK(t)'
    BY <1>1, <2>2, <2>3 DEF MutexOK, SlotOK, LookupOK, Outside, ModulePlaces, registry, mutexes
  <2>9. DeviceOK(t)'
    BY <2>2 DEF DeviceOK, Devices
  <2> QED BY <2>5, <2>6, <2>7, <2>8, <2>9, LocalStep DEF ThreadOK
<1> QED BY <1>2, <1>3

\* KuInstance::shutdown goes from one device to the next.
LEMMA ShutdownDeviceStep == ASSUME Inv, NEW t \in Threads, ShutdownDevice(t) PROVE Inv'
<1>1. /\ GoodCall(call[t]) /\ SlotOK(t) /\ DeviceOK(t) /\ call[t] \in CallType
      /\ call[t].at = "shutdown" /\ call[t].op = "destroy" /\ Private(t)
      /\ call[t].outcome = "PERFORMED"
  BY DEF ShutdownDevice, At, Inv, TypeOK, ThreadOK, CallType, GoodCall, Private, Undecided
<1>2. /\ SetDevice(t, "down") /\ Loop(t, "clear")
      /\ UNCHANGED <<registry, mutexes, libraries, allocated, history>> /\ "clear" \in Places
  BY DEF ShutdownDevice, Places
<1>3. /\ call'[t].op = "destroy" /\ call'[t].outcome = "PERFORMED"
      /\ call'[t].vendor = call[t].vendor /\ call'[t].instance = call[t].instance
      /\ \/ call'[t].at = "shutdown" /\ call'[t].next = call[t].next + 1
         \/ call'[t].at = "clear" /\ call'[t].next = 1
  BY <1>1, <1>2, LoopEffect DEF Moved, Inv
<1>4. GoodCall(call'[t])
  BY <1>1, <1>3 DEF GoodCall, Undecided, DestroyPlaces
<1>5. SlotOK(t)' /\ Private(t)'
  BY <1>1, <1>2, <1>3 DEF SlotOK, Private, registry
<1>6. /\ device' \in [Instances -> [Devices -> {"none", "up", "down"}]]
      /\ \A i \in Instances : device'[i] # device[i] => Private(t) /\ i = call[t].instance
      /\ \A d \in Devices : device'[call[t].instance][d] =
           IF d = call[t].next THEN "down" ELSE device[call[t].instance][d]
  BY <1>1, <1>2, SetDeviceEffect
<1>7. DeviceOK(t)'
  <2>1. call[t].next \in Nat /\ \A d \in Devices : d \in Nat /\ d >= 1
    BY <1>1 DEF CallType, Devices
  <2>2. \A d \in Devices :
          device[call[t].instance][d] = IF d < call[t].next THEN "down" ELSE "up"
    BY <1>1 DEF DeviceOK
  <2>3. CASE call'[t].at = "clear" /\ call'[t].next = 1
    BY <1>3, <2>1, <2>3 DEF DeviceOK
  <2>4. CASE call'[t].at = "shutdown" /\ call'[t].next = call[t].next + 1
    <3>1. ASSUME NEW d \in Devices
          PROVE  device'[call'[t].instance][d] = IF d < call'[t].next THEN "down" ELSE "up"
      <4>1. device'[call'[t].instance][d] =
              IF d = call[t].next THEN "down" ELSE device[call[t].instance][d]
        BY <1>3, <1>6
      <4> QED BY <2>1, <2>2, <2>4, <4>1
    <3> QED BY <2>4, <3>1 DEF DeviceOK
  <2> QED BY <1>3, <2>3, <2>4
<1>8. call[t].outcome # Nothing
  BY <1>1, NullAssumption DEF Outcomes
<1> QED
  BY <1>1, <1>2, <1>3, <1>4, <1>5, <1>6, <1>7, <1>8, LoopStep
  DEF Outside, ModulePlaces, TakingOut, At

\* clearDevices destroys one device after the other.
LEMMA DestroyDeviceStep == ASSUME Inv, NEW t \in Threads, DestroyDevice(t) PROVE Inv'
<1>1. /\ GoodCall(call[t]) /\ SlotOK(t) /\ DeviceOK(t) /\ call[t] \in CallType
      /\ call[t].at = "clear" /\ call[t].op \in {"init", "destroy"} /\ Private(t)
      /\ call[t].outcome \in {"FAILED", "PERFORMED"}
  <2>1. GoodCall(call[t]) /\ SlotOK(t) /\ DeviceOK(t) /\ call[t] \in CallType
    BY DEF Inv, TypeOK, ThreadOK, CallType
  <2>2. call[t].at = "clear" /\ call[t].op \in {"none", "init", "flush", "destroy"}
    BY <2>1 DEF DestroyDevice, CallType
  <2> QED BY <2>1, <2>2 DEF GoodCall, Private, Undecided, FlushPlaces
<1>2. /\ SetDevice(t, "none") /\ Loop(t, "delete")
      /\ UNCHANGED <<registry, mutexes, libraries, allocated, history>> /\ "delete" \in Places
  BY DEF DestroyDevice, Places
<1>3. /\ call'[t].op = call[t].op /\ call'[t].outcome = call[t].outcome
      /\ call'[t].vendor = call[t].vendor /\ call'[t].instance = call[t].instance
      /\ \/ call'[t].at = "clear" /\ call'[t].next = call[t].next + 1
         \/ call'[t].at = "delete" /\ call'[t].next = 1 /\ call[t].next = DeviceCount
  BY <1>1, <1>2, LoopEffect DEF Moved, Inv
<1>4. GoodCall(call'[t])
  BY <1>1, <1>3 DEF GoodCall, Undecided, InitPlaces, DestroyPlaces
<1>5. SlotOK(t)' /\ Private(t)'
  BY <1>1, <1>2, <1>3 DEF SlotOK, Private, Outside, registry
<1>6. /\ device' \in [Instances -> [Devices -> {"none", "up", "down"}]]
      /\ \A i \in Instances : device'[i] # device[i] => Private(t) /\ i = call[t].instance
      /\ \A d \in Devices : device'[call[t].instance][d] =
           IF d = call[t].next THEN "none" ELSE device[call[t].instance][d]
  BY <1>1, <1>2, SetDeviceEffect
<1>7. DeviceOK(t)'
  <2>1. call[t].next \in Nat /\ DeviceCount \in Nat /\ \A d \in Devices :
          d \in Nat /\ d <= DeviceCount
    BY <1>1, BoundsAssumption DEF CallType, Devices
  <2>2. \A d \in Devices : d < call[t].next => device[call[t].instance][d] = "none"
    BY <1>1 DEF DeviceOK
  <2>3. \A d \in Devices : d <= call[t].next => device'[call'[t].instance][d] = "none"
    <3> TAKE d \in Devices
    <3>1. device'[call'[t].instance][d] =
            IF d = call[t].next THEN "none" ELSE device[call[t].instance][d]
      BY <1>3, <1>6
    <3> QED BY <2>1, <2>2, <3>1
  <2>4. CASE call'[t].at = "clear" /\ call'[t].next = call[t].next + 1
    <3>1. \A d \in Devices : d < call'[t].next => d <= call[t].next
      BY <2>1, <2>4
    <3> QED BY <2>3, <2>4, <3>1 DEF DeviceOK
  <2>5. CASE call'[t].at = "delete" /\ call[t].next = DeviceCount
    <3>1. \A d \in Devices : device'[call'[t].instance][d] = "none"
      BY <2>1, <2>3, <2>5
    <3> QED BY <2>5, <3>1 DEF DeviceOK
  <2> QED BY <1>3, <2>4, <2>5
<1>8. call[t].outcome # Nothing
  BY <1>1, NullAssumption DEF Outcomes
<1> QED
  BY <1>1, <1>2, <1>3, <1>4, <1>5, <1>6, <1>7, <1>8, LoopStep
  DEF Outside, ModulePlaces, TakingOut, At

\* A call begins with nothing decided and no mutex.
LEMMA BeginStep ==
  ASSUME Inv, NEW t \in Threads, NEW new \in CallType, Begin(t, new), GoodCall(new),
         new.at \in {"check", "find"}, tokens' \subseteq Instances, LookupOK(t)', TokenInv'
  PROVE  Inv'
<1>1. /\ call[t] = NoCall /\ call \in [Threads -> CallType] /\ calls \in [Threads -> 0 .. MaxCalls]
      /\ calls[t] < MaxCalls /\ call' = [call EXCEPT ![t] = new]
           /\ calls' = [calls EXCEPT ![t] = @ + 1]
      /\ UNCHANGED <<registry, mutexes, libraries, objects, stale>>
  BY DEF Begin, Inv, TypeOK, CallType
<1>2. call' \in [Threads -> CallType] /\ Others(t) /\ call'[t] = new
  BY <1>1 DEF Others
<1>3. calls' \in [Threads -> 0 .. MaxCalls]
  <2>1. calls[t] + 1 \in 0 .. MaxCalls
    BY <1>1, BoundsAssumption
  <2> QED BY <1>1, <2>1
<1>4. ~Private(t) /\ ~Private(t)' /\ ~TakingOut(t) /\ ~TakingOut(t)'
  <2>1. call[t].at = "idle" /\ call'[t].at \in {"check", "find"}
    BY <1>1 DEF NoCall
  <2> QED BY <2>1 DEF Private, TakingOut, At
<1>5. Local(t)
  BY <1>1, <1>2, <1>3, <1>4 DEF Local, MutexesKept, registry, mutexes, objects, Inv, TypeOK
<1>6. MutexOK(t)' /\ SlotOK(t)' /\ DeviceOK(t)'
  BY <1>2, <1>4 DEF MutexOK, SlotOK, DeviceOK, Outside, ModulePlaces
<1> QED BY <1>2, <1>5, <1>6, LocalStep DEF ThreadOK

\* A thread calls init.
LEMMA CallInitStep == ASSUME Inv, NEW t \in Threads, CallInit(t) PROVE Inv'
<1>1. PICK v \in Vendors : Begin(t, [NoCall EXCEPT !.op = "init", !.at = "check", !.vendor = v])
  BY DEF CallInit
<1> DEFINE new == [NoCall EXCEPT !.op = "init", !.at = "check", !.vendor = v]
<1>2. /\ new.op = "init" /\ new.at = "check" /\ new.vendor = v
      /\ new.instance = Nothing /\ new.next = 1 /\ new.outcome = Nothing
  BY DEF NoCall
<1>3. new \in CallType /\ GoodCall(new)
  <2>1. "check" \in Places
    BY DEF Places
  <2>3. new \in CallType
    BY <2>1, FirstDevice DEF CallType, NoCall
  <2> QED BY <1>2, <2>3, NullAssumption DEF GoodCall, InitPlaces
<1>4. call'[t] = new /\ call[t] = NoCall /\ Others(t) /\ UNCHANGED <<tokens, handles>>
  BY <1>1 DEF Begin, CallInit, registry, Others, Inv, TypeOK
<1>5. LookupOK(t)'
  BY <1>4 DEF LookupOK
<1>6. TokenInv'
  <2>1. \A i \in Instances : ~Owner(t, i) /\ ~Owner(t, i)'
    BY <1>2, <1>4, NullAssumption DEF Owner
  <2> QED BY <1>4, <2>1, TokenFrame
<1> HIDE DEF new
<1>7. Begin(t, new)
  BY <1>1 DEF new
<1> QED BY <1>2, <1>3, <1>4, <1>5, <1>6, <1>7, BeginStep DEF Inv, TypeOK

\* A handle is lent to a flush.
LEMMA CallFlushStep == ASSUME Inv, NEW t \in Threads, CallFlush(t) PROVE Inv'
<1>1. PICK i \in tokens : Begin(t, [NoCall EXCEPT !.op = "flush", !.at = "find", !.instance = i])
  BY DEF CallFlush
<1> DEFINE new == [NoCall EXCEPT !.op = "flush", !.at = "find", !.instance = i]
<1>2. /\ new.op = "flush" /\ new.at = "find" /\ new.vendor = Nothing
      /\ new.instance = i /\ new.next = 1 /\ new.outcome = Nothing
  BY DEF NoCall
<1>3. new \in CallType /\ GoodCall(new)
  <2>1. "find" \in Places
    BY DEF Places
  <2>2. i \in Instances
    BY DEF Inv, TypeOK
  <2>3. new \in CallType
    BY <2>1, <2>2, FirstDevice DEF CallType, NoCall
  <2> QED BY <1>2, <2>2, <2>3, NullAssumption DEF GoodCall, FlushPlaces
<1>4. call'[t] = new /\ call[t] = NoCall /\ Others(t) /\ UNCHANGED <<tokens, handles>>
  BY <1>1 DEF Begin, CallFlush, registry, Others, Inv, TypeOK
<1>5. LookupOK(t)'
  <2>1. i \in Instances /\ handles[i] # Nothing
    BY DEF Inv, TypeOK, TokenInv
  <2> QED BY <1>4, <2>1 DEF LookupOK
<1>6. TokenInv'
  <2>1. \A j \in Instances : ~Owner(t, j) /\ ~Owner(t, j)'
    BY <1>4 DEF Owner, NoCall
  <2> QED BY <1>4, <2>1, TokenFrame
<1> HIDE DEF new
<1>7. Begin(t, new)
  BY <1>1 DEF new
<1> QED BY <1>2, <1>3, <1>4, <1>5, <1>6, <1>7, BeginStep DEF Inv, TypeOK

\* The owner gives the handle up.
LEMMA CallDestroyStep == ASSUME Inv, NEW t \in Threads, CallDestroy(t) PROVE Inv'
<1>1. PICK i \in tokens :
        /\ Begin(t, [NoCall EXCEPT !.op = "destroy", !.at = "find", !.instance = i])
                          /\ tokens' = tokens \ {i}
  BY DEF CallDestroy
<1> DEFINE new == [NoCall EXCEPT !.op = "destroy", !.at = "find", !.instance = i]
<1>2. /\ new.op = "destroy" /\ new.at = "find" /\ new.vendor = Nothing
      /\ new.instance = i /\ new.next = 1 /\ new.outcome = Nothing
  BY DEF NoCall
<1>3. new \in CallType /\ GoodCall(new)
  <2>1. "find" \in Places
    BY DEF Places
  <2>2. i \in Instances
    BY DEF Inv, TypeOK
  <2>3. new \in CallType
    BY <2>1, <2>2, FirstDevice DEF CallType, NoCall
  <2> QED BY <1>2, <2>2, <2>3, NullAssumption DEF GoodCall, DestroyPlaces, Undecided
<1>4. call'[t] = new /\ call[t] = NoCall /\ Others(t) /\ UNCHANGED handles
  BY <1>1 DEF Begin, registry, Others, Inv, TypeOK
<1>5. LookupOK(t)'
  BY <1>4 DEF LookupOK
<1>6. TokenInv'
  <2>1. \A j \in Instances : ~Owner(t, j) /\ (Owner(t, j)' <=> j = i)
    BY <1>4 DEF Owner, NoCall
  <2>2. \A u \in Threads \ {t} : \A j \in Instances : Owner(u, j)' <=> Owner(u, j)
    BY <1>4 DEF Owner, Others
  <2> QED BY <1>1, <1>4, <2>1, <2>2 DEF Inv, TokenInv
<1> HIDE DEF new
<1>7. Begin(t, new) /\ tokens' \subseteq Instances
  BY <1>1 DEF new, Inv, TypeOK
<1> QED BY <1>2, <1>3, <1>5, <1>6, <1>7, BeginStep

\* A successful init becomes the owner of the handle.
LEMMA ReturnStep == ASSUME Inv, NEW t \in Threads, Return(t) PROVE Inv'
<1>1. /\ GoodCall(call[t]) /\ call[t] \in CallType /\ call \in [Threads -> CallType]
      /\ call[t].at = "return" /\ call[t].outcome # Nothing
  BY DEF Return, Inv, TypeOK, ThreadOK, CallType, GoodCall
<1>2. NoCall \in CallType /\ GoodCall(NoCall)
  <2>1. 1 \in Devices /\ "idle" \in Places
    BY BoundsAssumption DEF Devices, Places
  <2> QED BY <2>1, NullAssumption DEF CallType, GoodCall, NoCall
<1>3. /\ call' \in [Threads -> CallType] /\ Others(t) /\ call'[t] = NoCall
      /\ UNCHANGED <<registry, mutexes, libraries, objects, calls>>
      /\ stale' = stale \ {t} /\ tokens' = tokens \cup ({call[t].outcome} \cap Instances)
  BY <1>1, <1>2 DEF Return, Others
<1>4. ~Private(t) /\ ~Private(t)' /\ ~TakingOut(t) /\ ~TakingOut(t)'
  BY <1>1, <1>3 DEF Private, TakingOut, At, NoCall
<1>5. Local(t)
  BY <1>3, <1>4 DEF Local, MutexesKept, registry, mutexes, objects, Inv, TypeOK
<1>6. TokenInv'
  <2>1. \A j \in Instances : ~Owner(t, j)' /\ (Owner(t, j) <=> j = call[t].outcome)
    BY <1>1, <1>3 DEF Owner, NoCall, GoodCall
  <2>2. \A u \in Threads \ {t} : \A j \in Instances : Owner(u, j)' <=> Owner(u, j)
    BY <1>3 DEF Owner, Others
  <2> QED BY <1>3, <2>1, <2>2 DEF Inv, TokenInv, registry
<1>7. MutexOK(t)' /\ SlotOK(t)' /\ DeviceOK(t)' /\ LookupOK(t)'
  BY <1>3 DEF MutexOK, SlotOK, DeviceOK, LookupOK, Outside, ModulePlaces, NoCall
<1> QED BY <1>2, <1>3, <1>5, <1>6, <1>7, LocalStep DEF ThreadOK

-----------------------------------------------------------------------------
(* The steps by which an instance comes and goes.                          *)

\* An address becomes an instance, which its thread alone knows.
LEMMA CreateInstanceStep == ASSUME Inv, NEW t \in Threads, CreateInstance(t) PROVE Inv'
<1>1. /\ GoodCall(call[t]) /\ SlotOK(t) /\ MutexOK(t) /\ call[t] \in CallType
      /\ call \in [Threads -> CallType]
      /\ call[t].at = "create" /\ call[t].op = "init" /\ call[t].outcome = Nothing
      /\ call[t].next = 1 /\ ~Private(t) /\ ~TakingOut(t)
  BY
  DEF CreateInstance, At, Inv, TypeOK, ThreadOK, CallType, GoodCall, Undecided, Private, TakingOut
<1>2. CASE \E i \in Instances \ allocated :
             /\ allocated' = allocated \cup {i}
             /\ call' = [call EXCEPT ![t].at = "devices", ![t].instance = i]
  <2>1. PICK i \in Instances \ allocated :
          /\ allocated' = allocated \cup {i}
          /\ call' = [call EXCEPT ![t] = [call[t] EXCEPT !.at = "devices", !.instance = i]]
    BY <1>1, <1>2
  <2>2. /\ call' \in [Threads -> CallType] /\ Others(t)
        /\ call'[t].op = "init" /\ call'[t].at = "devices" /\ call'[t].next = 1
        /\ call'[t].outcome = Nothing /\ call'[t].vendor = call[t].vendor /\ call'[t].instance = i
    <3>1. "devices" \in Places
      BY DEF Places
    <3> QED BY <1>1, <2>1, <3>1 DEF CallType, Others
  <2>3. UNCHANGED <<registry, mutexes, libraries, device, history>>
    BY DEF CreateInstance
  <2>4. TypeOK'
    BY <2>1, <2>2, <2>3 DEF Inv, TypeOK, CallType, registry, mutexes, history
  <2>5. Private(t)' /\ ~TakingOut(t)' /\ MutexesKept(t)
    BY <2>2, <2>3 DEF Private, TakingOut, At, MutexesKept, registry, mutexes
  <2>6. ThreadOK(t)'
    <3>1. GoodCall(call'[t])
      BY <1>1, <2>2 DEF GoodCall, InitPlaces
    <3>2. MutexOK(t)' /\ SlotOK(t)' /\ LookupOK(t)'
      BY <1>1, <2>2, <2>3
         DEF MutexOK, SlotOK, LookupOK, Outside, ModulePlaces, registry, mutexes
    <3>3. DeviceOK(t)'
      <4>1. \A d \in Devices : device[i][d] = "none" /\ ~(d < 1)
        BY DEF Inv, DeviceInv, Devices
      <4> QED BY <2>2, <2>3, <4>1 DEF DeviceOK
    <3> QED BY <3>1, <3>2, <3>3 DEF ThreadOK
  <2>7. ASSUME NEW u \in Threads \ {t} PROVE ThreadOK(u)'
    <3>1. LookupOK(u)'
      BY <2>2, <2>3, LookupFrame DEF registry, history
    <3> QED BY <2>2, <2>3, <2>5, <3>1, OthersOK DEF registry
  <2>8. InstanceInv'
    <3>1. \A v \in Vendors : slotInstance[v] # i
      BY NullAssumption DEF Inv, InstanceInv
    <3>2. \A u \in Threads : Private(u) => call[u].instance # i
      BY DEF Inv, InstanceInv
    <3>3. \A u \in Threads \ {t} : call'[u] = call[u] /\ (Private(u)' <=> Private(u))
      BY <2>2 DEF Others, Private
    <3> QED BY <1>1, <2>1, <2>3, <2>5, <3>1, <3>3 DEF Inv, InstanceInv, registry
  <2>9. DeviceInv'
    BY <2>1, <2>3 DEF Inv, DeviceInv, registry
  <2>10. HandleInv'
    BY <1>1, <2>2, <2>3, <2>5, HandleFrame DEF registry
  <2>11. TokenInv'
    <3>1. \A j \in Instances : Owner(t, j)' <=> Owner(t, j)
      BY <1>1, <2>2 DEF Owner
    <3> QED BY <2>2, <2>3, <3>1, TokenFrame DEF registry, history
  <2> QED BY <2>4, <2>6, <2>7, <2>8, <2>9, <2>10, <2>11 DEF Inv
<1>3. CASE End(t, "unlock", "FAILED") /\ UNCHANGED allocated
  <2>1. Went(t, "unlock", "FAILED")
    BY <1>3, EndEffect DEF Inv, Places, Outcomes
  <2>2. Others(t) /\ call' \in [Threads -> CallType]
          /\ UNCHANGED <<registry, mutexes, libraries, device, history>>
    BY <2>1 DEF Went, Moved, Others, CreateInstance
  <2>3. Local(t)
    BY <1>1, <1>3, <2>1, <2>2
       DEF Local, Went, Moved, Private, TakingOut, At, MutexesKept, registry, mutexes, history,
         Inv, TypeOK
  <2>4. TokenInv'
    <3>1. \A i \in Instances : Owner(t, i)' <=> Owner(t, i)
      BY <1>1, <2>1, NullAssumption, OutcomeAssumption DEF Owner, Went, Moved, Outcomes
    <3> QED BY <2>2, <3>1, TokenFrame DEF registry, history
  <2>5. GoodCall(call'[t])
    BY <1>1, <2>1, NullAssumption DEF GoodCall, Went, Moved, Undecided, InitPlaces, Outcomes
  <2>6. MutexOK(t)' /\ SlotOK(t)' /\ DeviceOK(t)' /\ LookupOK(t)'
    BY <1>1, <2>1, <2>2
       DEF Went, Moved, MutexOK, SlotOK, DeviceOK, LookupOK, Outside, ModulePlaces, registry,
           mutexes
  <2> QED BY <2>3, <2>4, <2>5, <2>6, LocalStep DEF ThreadOK
<1> QED BY <1>2, <1>3 DEF CreateInstance

\* An instance without devices is deleted, and its address is free.
LEMMA DeleteInstanceStep == ASSUME Inv, NEW t \in Threads, DeleteInstance(t) PROVE Inv'
<1> DEFINE i == call[t].instance
<1>1. /\ GoodCall(call[t]) /\ SlotOK(t) /\ MutexOK(t) /\ DeviceOK(t) /\ call[t] \in CallType
      /\ call[t].at = "delete" /\ call[t].op \in {"init", "destroy"}
      /\ call[t].next = 1 /\ Private(t) /\ ~TakingOut(t)
      /\ call[t].outcome = IF call[t].op = "init" THEN "FAILED" ELSE "PERFORMED"
  <2>1. GoodCall(call[t]) /\ SlotOK(t) /\ MutexOK(t) /\ DeviceOK(t) /\ call[t] \in CallType
    BY DEF Inv, TypeOK, ThreadOK, CallType
  <2>2. call[t].at = "delete" /\ call[t].op \in {"none", "init", "flush", "destroy"}
    BY <2>1 DEF DeleteInstance, CallType
  <2> QED BY <2>1, <2>2 DEF GoodCall, Undecided, Private, TakingOut, At, FlushPlaces
<1>2. /\ Others(t) /\ call' \in [Threads -> CallType]
      /\ call'[t].op = call[t].op /\ call'[t].at = "unlock" /\ call'[t].next = 1
      /\ call'[t].vendor = call[t].vendor /\ call'[t].instance = i
      /\ call'[t].outcome = call[t].outcome
  <2>1. Went(t, "unlock", call[t].outcome)
    BY GotoEffect DEF DeleteInstance, Inv, Places
  <2> QED BY <1>1, <2>1 DEF Went, Moved, Others
<1>3. allocated' = allocated \ {i} /\ UNCHANGED <<registry, mutexes, libraries, device, history>>
  BY DEF DeleteInstance
<1>4. ~Private(t)' /\ ~TakingOut(t)' /\ MutexesKept(t)
  BY <1>2, <1>3 DEF Private, TakingOut, At, MutexesKept, registry, mutexes
<1>5. TypeOK'
  BY <1>2, <1>3 DEF Inv, TypeOK, CallType, registry, mutexes, history
<1>6. ThreadOK(t)'
  <2>1. GoodCall(call'[t])
    BY <1>1, <1>2, NullAssumption DEF GoodCall, InitPlaces, DestroyPlaces, Undecided, Outcomes
  <2>2. MutexOK(t)' /\ SlotOK(t)' /\ DeviceOK(t)' /\ LookupOK(t)'
    BY <1>1, <1>2, <1>3
       DEF MutexOK, SlotOK, DeviceOK, LookupOK, Outside, ModulePlaces, registry, mutexes
  <2> QED BY <2>1, <2>2 DEF ThreadOK
<1>7. ASSUME NEW u \in Threads \ {t} PROVE ThreadOK(u)'
  <2>1. LookupOK(u)'
    BY <1>2, <1>3, LookupFrame DEF registry, history
  <2> QED BY <1>2, <1>3, <1>4, <2>1, OthersOK DEF registry
<1>8. InstanceInv'
  <2>1. \A u \in Threads \ {t} : call'[u] = call[u] /\ (Private(u)' <=> Private(u))
    BY <1>2 DEF Others, Private
  <2> QED BY <1>1, <1>3, <1>4, <2>1 DEF Inv, InstanceInv, registry
<1>9. DeviceInv'
  <2>1. \A d \in Devices : device[i][d] = "none"
    BY <1>1 DEF DeviceOK
  <2> QED BY <1>3, <2>1 DEF Inv, DeviceInv, registry
<1>10. HandleInv'
  BY <1>1, <1>2, <1>3, <1>4, HandleFrame DEF registry
<1>11. TokenInv'
  <2>1. \A j \in Instances : Owner(t, j)' <=> Owner(t, j)
    BY <1>2 DEF Owner
  <2> QED BY <1>2, <1>3, <2>1, TokenFrame DEF registry, history
<1> QED BY <1>5, <1>6, <1>7, <1>8, <1>9, <1>10, <1>11 DEF Inv

\* A slot gets its instance and the map its handle, in one step.
LEMMA PublishStep == ASSUME Inv, NEW t \in Threads, Publish(t) PROVE Inv'
<1> DEFINE i == call[t].instance
           v == call[t].vendor
<1>1. /\ GoodCall(call[t]) /\ SlotOK(t) /\ MutexOK(t) /\ DeviceOK(t) /\ call[t] \in CallType
      /\ call[t].at = "publish" /\ call[t].op = "init" /\ call[t].outcome = Nothing
      /\ call[t].next = 1 /\ Private(t) /\ ~TakingOut(t)
  BY DEF Publish, At, Inv, TypeOK, ThreadOK, CallType, GoodCall, Undecided, Private, TakingOut
<1>2. /\ i \in Instances /\ v \in Vendors /\ slotMutex[v] = t /\ i \in allocated
      /\ handles[i] = Nothing /\ slotInstance[v] = Nothing /\ v \in slots
      /\ i # Nothing /\ v # Nothing /\ \A w \in Vendors : slotInstance[w] # i
  BY <1>1, PrivateFacts, NullAssumption DEF SlotOK, MutexOK, Inv, InstanceInv
<1>3. CASE /\ handles' = [handles EXCEPT ![i] = v] /\ slotInstance' = [slotInstance EXCEPT ![v] = i]
           /\ End(t, "unlock", i)
  <2>1. /\ Others(t) /\ call' \in [Threads -> CallType]
        /\ call'[t].op = "init" /\ call'[t].at = "unlock" /\ call'[t].next = 1
        /\ call'[t].vendor = v /\ call'[t].instance = i /\ call'[t].outcome = i
    <3>1. Went(t, "unlock", i)
      BY <1>2, <1>3, EndEffect DEF Inv, Places
    <3> QED BY <1>1, <3>1 DEF Went, Moved, Others
  <2>2. /\ UNCHANGED <<slots, mutexes, libraries, objects, history>>
        /\ \A j \in Instances : handles'[j] = IF j = i THEN v ELSE handles[j]
        /\ \A w \in Vendors : slotInstance'[w] = IF w = v THEN i ELSE slotInstance[w]
        /\ handles' \in [Instances -> Vendors \cup {Nothing}]
        /\ slotInstance' \in [Vendors -> Instances \cup {Nothing}]
    BY <1>3 DEF Publish, Inv, TypeOK
  <2>3. ~Private(t)' /\ ~TakingOut(t)' /\ MutexesKept(t)
    BY <2>1, <2>2 DEF Private, TakingOut, At, MutexesKept, mutexes
  <2>4. TypeOK'
    BY <2>1, <2>2 DEF Inv, TypeOK, CallType, mutexes, objects, history
  <2>5. ThreadOK(t)'
    <3>1. GoodCall(call'[t])
      BY <1>2, <2>1 DEF GoodCall, InitPlaces, Undecided
    <3>2. MutexOK(t)' /\ SlotOK(t)' /\ DeviceOK(t)' /\ LookupOK(t)'
      BY <1>2, <2>1, <2>2 DEF MutexOK, SlotOK, DeviceOK, LookupOK, ModulePlaces, mutexes
    <3> QED BY <3>1, <3>2 DEF ThreadOK
  <2>6. ASSUME NEW u \in Threads \ {t} PROVE ThreadOK(u)'
    <3>1. call'[u] = call[u] /\ GoodCall(call[u]) /\ LookupOK(u) /\ (u \in stale' <=> u \in stale)
      BY <2>1, <2>2 DEF Others, Inv, ThreadOK, history
    <3>2. LookupOK(u)'
      <4>1. /\ call[u].op = "flush" /\ call[u].at = "lock" => call[u].outcome = Nothing
            /\ call[u].op \in {"flush", "destroy"} => call[u].instance \in Instances
        BY <3>1 DEF GoodCall, Undecided
      <4>2. call[u].at \in {"lock", "erase"} => call[u].vendor \in Vendors
        BY HasVendor
      <4>3. call[u].op = "destroy" /\ call[u].at \in {"lock", "erase"} => call[u].instance # i
        BY <1>2, <3>1, <4>2, NullAssumption DEF LookupOK
      <4>4. call[u].op = "flush" /\ call[u].outcome = Nothing /\ u \notin stale =>
              call[u].instance # i
        BY <1>2, <3>1 DEF LookupOK
      <4> QED BY <2>2, <3>1, <4>1, <4>3, <4>4 DEF LookupOK
    <3> QED BY <1>2, <2>1, <2>2, <2>3, <3>2, OthersOK DEF objects
  <2>7. InstanceInv'
    <3>1. \A u \in Threads \ {t} : call'[u] = call[u] /\ (Private(u)' <=> Private(u))
      BY <2>1 DEF Others, Private
    <3>2. \A u \in Threads \ {t} : Private(u) => call[u].instance # i
      BY <1>1 DEF Inv, InstanceInv
    <3>3. \A j \in allocated : j = i \/ (\E w \in Vendors : w # v /\ slotInstance[w] = j)
                                \/ \E u \in Threads \ {t} : Private(u) /\ call[u].instance = j
      BY <1>2, NullAssumption DEF Inv, InstanceInv, TypeOK
    <3> QED BY <1>2, <2>2, <2>3, <3>1, <3>2, <3>3 DEF Inv, InstanceInv, objects
  <2>8. DeviceInv'
    BY <1>1, <2>2 DEF DeviceOK, Inv, DeviceInv, objects
  <2>9. HandleInv'
    <3>1. ASSUME NEW j \in Instances, handles'[j] # Nothing
          PROVE  handles'[j] \in slots' /\ slotInstance'[handles'[j]] = j
      <4>1. CASE j = i
        BY <1>2, <2>2, <4>1
      <4>2. CASE j # i
        <5>1. handles'[j] = handles[j] /\ handles[j] \in Vendors
          BY <2>2, <3>1, <4>2
        <5>2. handles[j] \in slots /\ slotInstance[handles[j]] = j
          BY <3>1, <5>1 DEF Inv, HandleInv, RegistryConsistent
        <5>3. handles[j] # v
          BY <1>2, <5>2, NullAssumption
        <5> QED BY <2>2, <5>1, <5>2, <5>3
      <4> QED BY <4>1, <4>2
    <3>2. \A w \in Vendors : slotInstance'[w] # Nothing =>
            handles'[slotInstance'[w]] = w \/ \E u \in Threads : TakingOut(u)' /\ Handling(u, w)'
      <4> SUFFICES ASSUME NEW w \in Vendors, w # v, slotInstance[w] # Nothing,
                          handles[slotInstance[w]] # w
                   PROVE  \E u \in Threads : TakingOut(u)' /\ Handling(u, w)'
        BY <1>2, <2>2
      <4>1. PICK u \in Threads : TakingOut(u) /\ Handling(u, w)
        BY DEF Inv, HandleInv, RegistryConsistent, TakingOut
      <4>2. u # t
        BY <1>1, <4>1
      <4> QED BY <2>1, <2>2, <4>1, <4>2 DEF Others, TakingOut, At, Handling, mutexes
    <3>3. ASSUME NEW u \in Threads, TakingOut(u)' PROVE handles'[call'[u].instance] = Nothing
      <4>1. u # t /\ call'[u] = call[u] /\ TakingOut(u)
        BY <2>1, <3>3 DEF Others, TakingOut, At
      <4>2. handles[call[u].instance] = Nothing /\ call[u].instance \in Instances
        BY <4>1 DEF Inv, HandleInv, TakingOut, At, ThreadOK, GoodCall
      <4>3. slotInstance[call[u].vendor] = call[u].instance /\ call[u].vendor \in Vendors
        BY <4>1, HasVendor DEF Inv, ThreadOK, SlotOK, TakingOut, At
      <4> QED BY <1>2, <2>2, <4>1, <4>2, <4>3
    <3> QED BY <3>1, <3>2, <3>3 DEF HandleInv, RegistryConsistent, TakingOut
  <2>10. TokenInv'
    <3>1. \A j \in Instances : ~Owner(t, j) /\ (Owner(t, j)' <=> j = i)
      BY <1>1, <2>1, NullAssumption DEF Owner
    <3>2. \A u \in Threads \ {t} : \A j \in Instances : Owner(u, j)' <=> Owner(u, j)
      BY <2>1 DEF Owner, Others
    <3>3. i \notin tokens /\ \A u \in Threads : ~Owner(u, i)
      BY <1>2 DEF Inv, TokenInv
    <3> QED BY <1>2, <2>2, <3>1, <3>2 DEF Inv, TokenInv, history
  <2> QED BY <2>4, <2>5, <2>6, <2>7, <2>8, <2>9, <2>10 DEF Inv
<1>4. CASE End(t, "clear", "FAILED") /\ UNCHANGED <<slotInstance, handles>>
  <2>1. Went(t, "clear", "FAILED")
    BY <1>4, EndEffect DEF Inv, Places, Outcomes
  <2>2. /\ Others(t) /\ call' \in [Threads -> CallType]
        /\ UNCHANGED <<slots, slotInstance, handles, mutexes, libraries, objects, history>>
    BY <1>4, <2>1 DEF Went, Moved, Others, Publish
  <2>3. Private(t)' /\ ~TakingOut(t)'
    BY <1>1, <2>1 DEF Went, Moved, Private, TakingOut, At
  <2>4. Local(t)
    BY <1>1, <2>1, <2>2, <2>3
       DEF Local, Went, MutexesKept, mutexes, objects, history, Inv, TypeOK
  <2>5. TokenInv'
    <3>1. \A j \in Instances : Owner(t, j)' <=> Owner(t, j)
      BY <1>1, <2>1, NullAssumption, OutcomeAssumption DEF Owner, Went, Moved, Outcomes
    <3> QED BY <2>2, <3>1, TokenFrame DEF history
  <2>6. GoodCall(call'[t])
    BY <1>1, <2>1, OutcomeAssumption DEF GoodCall, Went, Moved, Undecided, InitPlaces, Outcomes
  <2>7. MutexOK(t)' /\ SlotOK(t)' /\ LookupOK(t)'
    BY <1>1, <2>1, <2>2
       DEF Went, Moved, MutexOK, SlotOK, LookupOK, Outside, ModulePlaces, mutexes
  <2>8. DeviceOK(t)'
    BY <1>1, <2>1 DEF Went, Moved, DeviceOK, Devices
  <2> QED BY <2>4, <2>5, <2>6, <2>7, <2>8, LocalStep DEF ThreadOK
<1> QED BY <1>3, <1>4 DEF Publish

\* Its owner takes the handle out of the map; flushes that still go by it are overtaken.
LEMMA EraseHandleStep == ASSUME Inv, NEW t \in Threads, EraseHandle(t) PROVE Inv'
<1> DEFINE i == call[t].instance
           v == call[t].vendor
<1>1. /\ GoodCall(call[t]) /\ SlotOK(t) /\ MutexOK(t) /\ LookupOK(t) /\ call[t] \in CallType
      /\ call[t].at = "erase" /\ call[t].op = "destroy" /\ call[t].outcome = Nothing
      /\ call[t].next = 1 /\ ~Private(t) /\ ~TakingOut(t)
  BY DEF EraseHandle, At, Inv, TypeOK, ThreadOK, CallType, GoodCall, Undecided, Private, TakingOut
<1>2. /\ i \in Instances /\ v \in Vendors /\ slotMutex[v] = t
      /\ handles[i] = v /\ slotInstance[v] = i /\ v \in slots /\ v # Nothing
  BY <1>1, HasVendor, NullAssumption DEF GoodCall, SlotOK, MutexOK, LookupOK, Outside
<1>3. /\ Others(t) /\ call' \in [Threads -> CallType]
      /\ call'[t].op = "destroy" /\ call'[t].at = "take out" /\ call'[t].next = 1
      /\ call'[t].vendor = v /\ call'[t].instance = i /\ call'[t].outcome = "PERFORMED"
  <2>1. Went(t, "take out", "PERFORMED")
    BY EndEffect DEF EraseHandle, Inv, Places, Outcomes
  <2> QED BY <1>1, <2>1 DEF Went, Moved, Others
<1>4. /\ UNCHANGED <<slots, slotInstance, mutexes, libraries, objects, tokens, calls>>
      /\ \A j \in Instances : handles'[j] = IF j = i THEN Nothing ELSE handles[j]
      /\ handles' \in [Instances -> Vendors \cup {Nothing}]
      /\ stale' = stale \cup {u \in Threads : /\ call[u].op = "flush" /\ call[u].outcome = Nothing
                                              /\ call[u].instance = i}
  BY <1>2 DEF EraseHandle, Inv, TypeOK
<1>5. ~Private(t)' /\ TakingOut(t)' /\ MutexesKept(t)
  BY <1>3, <1>4 DEF Private, TakingOut, At, MutexesKept, mutexes
<1>6. TypeOK'
  BY <1>3, <1>4 DEF Inv, TypeOK, CallType, mutexes, objects
<1>7. ThreadOK(t)'
  <2>1. GoodCall(call'[t])
    BY <1>2, <1>3, OutcomeAssumption DEF GoodCall, DestroyPlaces, Undecided, Outcomes
  <2>2. MutexOK(t)' /\ SlotOK(t)' /\ DeviceOK(t)' /\ LookupOK(t)'
    BY <1>2, <1>3, <1>4, <1>5 DEF MutexOK, SlotOK, DeviceOK, LookupOK, ModulePlaces, mutexes
  <2> QED BY <2>1, <2>2 DEF ThreadOK
<1>8. Owner(t, i) /\ i \notin tokens /\ \A u \in Threads \ {t} : ~Owner(u, i)
  BY <1>1, <1>2 DEF Owner, Inv, TokenInv
<1>9. ASSUME NEW u \in Threads \ {t} PROVE ThreadOK(u)'
  <2>1. call'[u] = call[u] /\ GoodCall(call[u]) /\ LookupOK(u)
    BY <1>3 DEF Others, Inv, ThreadOK
  <2>2. /\ call[u].at \in {"lock", "erase"} => call[u].outcome = Nothing
        /\ call[u].op \in {"flush", "destroy"} => call[u].instance \in Instances
    BY <2>1 DEF GoodCall, Undecided
  <2>3. call[u].op = "destroy" /\ call[u].at \in {"lock", "erase"} => call[u].instance # i
    BY <1>8, <2>2 DEF Owner
  <2>4. LookupOK(u)'
    BY <1>4, <2>1, <2>2, <2>3 DEF LookupOK
  <2> QED BY <1>3, <1>4, <1>5, <2>4, OthersOK DEF objects
<1>10. \A u \in Threads \ {t} : call'[u] = call[u] /\ (Private(u)' <=> Private(u))
  BY <1>3 DEF Others, Private
<1>11. InstanceInv' /\ DeviceInv'
  <2>1. InstanceInv'
    BY <1>1, <1>4, <1>5, <1>10, InstanceFrame DEF objects
  <2> QED BY <1>4, <2>1 DEF Inv, DeviceInv, objects
<1>12. HandleInv'
  <2>1. \A j \in Instances : handles'[j] # Nothing =>
          handles'[j] \in slots' /\ slotInstance'[handles'[j]] = j
    BY <1>4 DEF Inv, HandleInv, RegistryConsistent
  <2>2. \A w \in Vendors : slotInstance'[w] # Nothing =>
          handles'[slotInstance'[w]] = w \/ \E u \in Threads : TakingOut(u)' /\ Handling(u, w)'
    <3> SUFFICES ASSUME NEW w \in Vendors, slotInstance[w] # Nothing, handles'[slotInstance[w]] # w
                 PROVE  \E u \in Threads : TakingOut(u)' /\ Handling(u, w)'
      BY <1>4
    <3>1. CASE w = v
      BY <1>2, <1>3, <1>4, <1>5, <3>1 DEF Handling, mutexes
    <3>2. CASE w # v
      <4>1. slotInstance[w] # i /\ slotInstance[w] \in Instances
        BY <1>2, <3>2 DEF Inv, TypeOK, InstanceInv
      <4>2. PICK u \in Threads : TakingOut(u) /\ Handling(u, w)
        BY <1>4, <4>1 DEF Inv, HandleInv, RegistryConsistent, TakingOut
      <4> QED BY <1>1, <1>3, <1>4, <4>2 DEF Others, TakingOut, At, Handling, mutexes
    <3> QED BY <3>1, <3>2
  <2>3. ASSUME NEW u \in Threads, TakingOut(u)' PROVE handles'[call'[u].instance] = Nothing
    <3>1. CASE u = t
      BY <1>2, <1>3, <1>4, <3>1
    <3>2. CASE u # t
      <4>1. call'[u] = call[u] /\ TakingOut(u)
        BY <1>3, <2>3, <3>2 DEF Others, TakingOut, At
      <4>2. handles[call[u].instance] = Nothing /\ call[u].instance \in Instances
        BY <4>1 DEF Inv, HandleInv, TakingOut, At, ThreadOK, GoodCall
      <4> QED BY <1>4, <4>1, <4>2
    <3> QED BY <3>1, <3>2
  <2> QED BY <2>1, <2>2, <2>3 DEF HandleInv, RegistryConsistent, TakingOut
<1>13. TokenInv'
  <2>1. \A j \in Instances : ~Owner(t, j)'
    BY <1>3, NullAssumption DEF Owner, Outcomes
  <2>2. \A u \in Threads \ {t} : \A j \in Instances : Owner(u, j)' <=> Owner(u, j)
    BY <1>3 DEF Owner, Others
  <2> QED BY <1>4, <1>8, <2>1, <2>2 DEF Inv, TokenInv
<1> QED BY <1>6, <1>7, <1>9, <1>11, <1>12, <1>13 DEF Inv

\* The slot loses the instance, which the destroying thread alone now knows.
LEMMA TakeOutStep == ASSUME Inv, NEW t \in Threads, TakeOut(t) PROVE Inv'
<1> DEFINE i == call[t].instance
           v == call[t].vendor
<1>1. /\ GoodCall(call[t]) /\ SlotOK(t) /\ MutexOK(t) /\ call[t] \in CallType
      /\ call[t].at = "take out" /\ call[t].op = "destroy" /\ call[t].outcome = "PERFORMED"
      /\ call[t].next = 1 /\ ~Private(t) /\ TakingOut(t)
  BY DEF TakeOut, At, Inv, TypeOK, ThreadOK, CallType, GoodCall, Undecided, Private, TakingOut
<1>2. /\ i \in Instances /\ v \in Vendors /\ slotMutex[v] = t /\ handles[i] = Nothing
      /\ slotInstance[v] = i /\ i # Nothing
  BY <1>1, HasVendor, NullAssumption DEF GoodCall, SlotOK, MutexOK, Outside, Inv, HandleInv
<1>3. /\ Others(t) /\ call' \in [Threads -> CallType]
      /\ call'[t].op = "destroy" /\ call'[t].at = "flush" /\ call'[t].next = 1
      /\ call'[t].vendor = v /\ call'[t].instance = i /\ call'[t].outcome = "PERFORMED"
  <2>1. Went(t, "flush", call[t].outcome)
    BY GotoEffect DEF TakeOut, Inv, Places
  <2> QED BY <1>1, <2>1 DEF Went, Moved, Others
<1>4. /\ UNCHANGED <<slots, handles, mutexes, libraries, objects, history>>
      /\ \A w \in Vendors : slotInstance'[w] = IF w = v THEN Nothing ELSE slotInstance[w]
      /\ slotInstance' \in [Vendors -> Instances \cup {Nothing}]
  BY <1>2 DEF TakeOut, Inv, TypeOK
<1>5. Private(t)' /\ ~TakingOut(t)' /\ MutexesKept(t)
  BY <1>3, <1>4 DEF Private, TakingOut, At, MutexesKept, mutexes
<1>6. TypeOK'
  BY <1>3, <1>4 DEF Inv, TypeOK, CallType, mutexes, objects, history
<1>7. ThreadOK(t)'
  <2>1. GoodCall(call'[t])
    BY <1>2, <1>3, OutcomeAssumption DEF GoodCall, DestroyPlaces, Undecided, Outcomes
  <2>2. MutexOK(t)' /\ SlotOK(t)' /\ LookupOK(t)'
    BY <1>1, <1>2, <1>3, <1>4 DEF MutexOK, SlotOK, LookupOK, ModulePlaces, mutexes
  <2>3. DeviceOK(t)'
    BY <1>2, <1>3, <1>4 DEF DeviceOK, Inv, DeviceInv, objects
  <2> QED BY <2>1, <2>2, <2>3 DEF ThreadOK
<1>8. ASSUME NEW u \in Threads \ {t} PROVE ThreadOK(u)'
  <2>1. LookupOK(u)'
    BY <1>3, <1>4, LookupFrame DEF history
  <2> QED BY <1>2, <1>3, <1>4, <1>5, <2>1, OthersOK DEF objects
<1>9. \A u \in Threads \ {t} : call'[u] = call[u] /\ (Private(u)' <=> Private(u))
  BY <1>3 DEF Others, Private
<1>10. InstanceInv'
  <2>1. i \in allocated /\ \A w \in Vendors : w # v => slotInstance[w] # i
    BY <1>2 DEF Inv, InstanceInv
  <2>2. \A u \in Threads : Private(u) => call[u].instance # i
    BY <1>2 DEF Inv, InstanceInv
  <2>3. \A j \in allocated : j = i \/ (\E w \in Vendors : w # v /\ slotInstance[w] = j)
                              \/ \E u \in Threads \ {t} : Private(u) /\ call[u].instance = j
    BY <1>1, <1>2 DEF Inv, InstanceInv
  <2>4. \A w \in Vendors : slotInstance'[w] # i
    BY <1>2, <1>4, <2>1
  <2>5. \A w \in Vendors : slotInstance'[w] # Nothing => slotInstance'[w] \in allocated
    BY <1>4 DEF Inv, InstanceInv
  <2>6. \A w, x \in Vendors : slotInstance'[w] = slotInstance'[x] /\ slotInstance'[w] # Nothing =>
          w = x
    BY <1>4 DEF Inv, InstanceInv
  <2>7. ASSUME NEW u \in Threads, Private(u)'
        PROVE  /\ call'[u].instance \in allocated
               /\ \A w \in Vendors : slotInstance'[w] # call'[u].instance
               /\ \A x \in Threads : Private(x)' /\ call'[x].instance = call'[u].instance => x = u
    <3>1. CASE u = t
      BY <1>3, <1>9, <2>1, <2>2, <2>4, <3>1
    <3>2. CASE u # t
      <4>1. call'[u] = call[u] /\ Private(u) /\ call[u].instance # i
              /\ call[u].instance \in allocated
        BY <1>9, <2>2, <2>7, <3>2 DEF Inv, InstanceInv
      <4>2. \A w \in Vendors : slotInstance'[w] # call[u].instance
        <5>1. call[u].instance # Nothing
          BY <4>1, PrivateFacts, NullAssumption
        <5> QED BY <1>4, <4>1, <5>1 DEF Inv, InstanceInv
      <4>3. ASSUME NEW x \in Threads, Private(x)', call'[x].instance = call'[u].instance PROVE x = u
        <5>1. x # t
          BY <1>3, <4>1, <4>3
        <5>2. Private(x) /\ call[x].instance = call[u].instance
          BY <1>9, <4>1, <4>3, <5>1
        <5> QED BY <4>1, <5>2 DEF Inv, InstanceInv
      <4> QED BY <4>1, <4>2, <4>3
    <3> QED BY <3>1, <3>2
  <2>8. ASSUME NEW j \in allocated
        PROVE  (\E w \in Vendors : slotInstance'[w] = j) \/ \E u \in Threads :
          Private(u)' /\ call'[u].instance = j
    BY <1>3, <1>4, <1>5, <1>9, <2>3
  <2> QED BY <1>4, <2>5, <2>6, <2>7, <2>8 DEF InstanceInv, objects
<1>11. DeviceInv'
  BY <1>4 DEF Inv, DeviceInv, objects
<1>12. HandleInv'
  <2>1. ASSUME NEW j \in Instances, handles[j] # Nothing
        PROVE  handles[j] \in slots /\ slotInstance'[handles[j]] = j
    <3>1. handles[j] \in Vendors /\ handles[j] \in slots /\ slotInstance[handles[j]] = j
      BY <2>1 DEF Inv, TypeOK, HandleInv, RegistryConsistent
    <3>2. handles[j] # v
      BY <1>2, <2>1, <3>1
    <3> QED BY <1>4, <3>1, <3>2
  <2>2. ASSUME NEW w \in Vendors, slotInstance'[w] # Nothing, handles[slotInstance'[w]] # w
        PROVE  \E u \in Threads : TakingOut(u)' /\ Handling(u, w)'
    <3>1. w # v /\ slotInstance'[w] = slotInstance[w]
      BY <1>4, <2>2
    <3>2. PICK u \in Threads : TakingOut(u) /\ Handling(u, w)
      BY <2>2, <3>1 DEF Inv, HandleInv, RegistryConsistent, TakingOut
    <3>3. u # t
      BY <3>1, <3>2 DEF Handling
    <3> QED BY <1>3, <1>4, <3>2, <3>3 DEF Others, TakingOut, At, Handling, mutexes
  <2>3. \A u \in Threads : TakingOut(u)' => handles[call'[u].instance] = Nothing
    BY <1>3 DEF Others, TakingOut, At, Inv, HandleInv
  <2> QED BY <1>4, <2>1, <2>2, <2>3 DEF HandleInv, RegistryConsistent, TakingOut
<1>13. TokenInv'
  <2>1. \A j \in Instances : Owner(t, j)' <=> Owner(t, j)
    BY <1>1, <1>3 DEF Owner
  <2> QED BY <1>3, <1>4, <2>1, TokenFrame DEF history
<1> QED BY <1>6, <1>7, <1>8, <1>10, <1>11, <1>12, <1>13 DEF Inv

-----------------------------------------------------------------------------
(* The invariant holds, and what follows from it.                          *)

\* Initially nobody calls, and there is nothing in the registry.
LEMMA InitInv == Init => Inv
<1> SUFFICES ASSUME Init PROVE Inv
  OBVIOUS
<1>1. NoCall \in CallType /\ GoodCall(NoCall)
  BY FirstDevice, NullAssumption DEF NoCall, CallType, GoodCall, Places
<1>2. \A t \in Threads : call[t] = NoCall
  BY DEF Init
<1>3. TypeOK
  <2>1. call \in [Threads -> CallType]
    BY <1>1 DEF Init
  <2>2. calls \in [Threads -> 0 .. MaxCalls]
    BY BoundsAssumption DEF Init
  <2> QED BY <2>1, <2>2 DEF Init, TypeOK, CallType
<1>4. ASSUME NEW t \in Threads PROVE ThreadOK(t) /\ ~Private(t) /\ ~TakingOut(t)
  <2>1. call[t].at = "idle" /\ call[t].op = "none"
    BY <1>2 DEF NoCall
  <2> QED
    BY <1>1, <1>2, <2>1
       DEF ThreadOK, MutexOK, SlotOK, DeviceOK, LookupOK, Private, TakingOut, At, Outside,
         ModulePlaces
<1>5. InstanceInv /\ DeviceInv /\ HandleInv
  BY <1>4 DEF Init, InstanceInv, DeviceInv, HandleInv, RegistryConsistent
<1>6. TokenInv
  <2>1. \A t \in Threads, i \in Instances : ~Owner(t, i)
    BY <1>2 DEF NoCall, Owner
  <2> QED BY <2>1 DEF Init, TokenInv
<1> QED BY <1>3, <1>4, <1>5, <1>6 DEF Inv

\* Every step of the registry preserves the invariant.
LEMMA StepInv == Inv /\ [Next]_vars => Inv'
<1> SUFFICES ASSUME Inv, [Next]_vars PROVE Inv'
  OBVIOUS
<1>1. CASE UNCHANGED vars
  <2>1. /\ \A t \in Threads : ThreadOK(t)' <=> ThreadOK(t)
        /\ \A t \in Threads : (Private(t)' <=> Private(t)) /\ (TakingOut(t)' <=> TakingOut(t))
        /\ \A t \in Threads, v \in Vendors : Handling(t, v)' <=> Handling(t, v)
        /\ \A t \in Threads, i \in Instances : Owner(t, i)' <=> Owner(t, i)
    BY <1>1 DEF vars, registry, mutexes, objects, history, ThreadOK, MutexOK, SlotOK, DeviceOK,
                LookupOK, Private, TakingOut, At, Handling, Owner
  <2>2. TypeOK' /\ DeviceInv'
    BY <1>1 DEF vars, registry, mutexes, objects, history, Inv, TypeOK, DeviceInv
  <2>3. InstanceInv'
    BY <1>1, <2>1, InstanceFrame DEF vars, registry, objects
  <2>4. HandleInv' /\ TokenInv'
    BY <1>1, <2>1
    DEF vars, registry, history, Inv, HandleInv, RegistryConsistent, TokenInv, TakingOut
  <2> QED BY <2>1, <2>2, <2>3, <2>4 DEF Inv
<1>2. ASSUME NEW t \in Threads, CallInit(t) \/ CallFlush(t) \/ CallDestroy(t) PROVE Inv'
  BY <1>2, CallInitStep, CallFlushStep, CallDestroyStep
<1>3. ASSUME NEW t \in Threads, InitStep(t) PROVE Inv'
  BY <1>3, RejectArgumentsStep, GetOrCreateSlotStep, LockForInitStep, LockModuleStep,
     FindLibraryStep, OpenLibraryStep, CallEntryStep, UnlockModuleStep, CreateInstanceStep,
     CreateDeviceStep, PublishStep DEF InitStep
<1>4. ASSUME NEW t \in Threads, UseStep(t) PROVE Inv'
  BY <1>4, FindSlotStep, LockForFlushStep, LockForDestroyStep, FlushDeviceStep, EraseHandleStep,
     TakeOutStep, ShutdownDeviceStep DEF UseStep
<1>5. ASSUME NEW t \in Threads,
             DestroyDevice(t) \/ DeleteInstance(t) \/ UnlockSlot(t) \/ Return(t)
      PROVE  Inv'
  BY <1>5, DestroyDeviceStep, DeleteInstanceStep, UnlockSlotStep, ReturnStep
<1> QED BY <1>1, <1>2, <1>3, <1>4, <1>5 DEF Next, Step

\* In every state that init, flush and destroy of all threads can reach.
THEOREM InvHolds == Spec => []Inv
  BY InitInv, StepInv, PTL DEF Spec

\* The types of the registry's variables, for any number of threads, vendors and addresses.
THEOREM TypeCorrect == Spec => []TypeOK
<1>1. Inv => TypeOK
  BY DEF Inv
<1> QED BY <1>1, InvHolds, PTL

\* m_handles and the slots agree, but for the moment in which destroy, holding the slot,
\* has erased the handle and not yet moved the instance out.
THEOREM RegistryStaysConsistent == Spec => []RegistryConsistent
<1>1. Inv => RegistryConsistent
  BY DEF Inv, HandleInv
<1> QED BY <1>1, InvHolds, PTL

\* KuInstance::flush and shutdown are run on an instance in memory whose devices are up,
\* whatever other threads did after the handle was looked up.
THEOREM UsesLiveInstance == Spec => []NoUseAfterDestroy
<1>1. Inv => NoUseAfterDestroy
  <2> SUFFICES ASSUME Inv, NEW t \in Threads, call[t].at \in {"flush", "shutdown"}
               PROVE  /\ call[t].instance \in allocated
                      /\ device[call[t].instance][call[t].next] = "up"
                      /\ call[t].op = "flush" => slotInstance[call[t].vendor] = call[t].instance
    BY DEF NoUseAfterDestroy
  <2>1. /\ GoodCall(call[t]) /\ SlotOK(t) /\ DeviceOK(t) /\ call[t].next \in Devices
        /\ call[t].vendor \in Vendors
    BY HasVendor DEF Inv, ThreadOK, TypeOK
  <2>2. CASE call[t].op = "flush" /\ call[t].at = "flush"
    <3>1. slotInstance[call[t].vendor] = call[t].instance /\ call[t].instance # Nothing
      BY <2>1, <2>2, NullAssumption DEF SlotOK, GoodCall
    <3> QED BY <2>1, <3>1 DEF Inv, InstanceInv, DeviceInv
  <2>3. CASE call[t].op = "destroy"
    <3>1. Private(t)
      BY <2>3 DEF Private
    <3>2. ~(call[t].next < call[t].next)
      BY <2>1 DEF Devices
    <3> QED BY <2>1, <2>3, <3>1, <3>2 DEF DeviceOK, Inv, InstanceInv
  <2> QED BY <2>1, <2>2, <2>3
     DEF GoodCall, InitPlaces, FlushPlaces, ModulePlaces, Inv, TypeOK
<1> QED BY <1>1, InvHolds, PTL

\* The map of the module manager is read and written by the owner of m_moduleMutex alone.
THEOREM ModulesSerialized == Spec => []ModuleManagerSerialized
<1>1. Inv => ModuleManagerSerialized
  BY DEF Inv, ThreadOK, MutexOK, ModulePlaces, ModuleManagerSerialized
<1> QED BY <1>1, InvHolds, PTL

\* An instance a thread has in hand inside its vendor's slot is private to it, or is the
\* slot's: the places OneInstancePerVendor names.
LEMMA InHand ==
  ASSUME Inv, NEW t \in Threads,
         call[t].at \in {"devices", "publish", "take out", "flush", "shutdown", "clear", "delete"}
  PROVE  /\ call[t].vendor \in Vendors /\ slotMutex[call[t].vendor] = t
         /\ call[t].instance \in allocated
         /\ \/ Private(t) /\ slotInstance[call[t].vendor] = Nothing
            \/ ~Private(t) /\ slotInstance[call[t].vendor] = call[t].instance
<1>1. /\ GoodCall(call[t]) /\ SlotOK(t) /\ call[t].at \notin Outside /\ call[t].vendor \in Vendors
      /\ slotMutex[call[t].vendor] = t
  BY HasVendor DEF Inv, ThreadOK, MutexOK, Outside
<1>2. Private(t) => call[t].instance \in allocated /\ slotInstance[call[t].vendor] = Nothing
  BY <1>1 DEF Inv, InstanceInv, SlotOK, Private
<1>3. ~Private(t) => /\ slotInstance[call[t].vendor] = call[t].instance
                     /\ call[t].instance \in Instances
  BY <1>1
  DEF SlotOK, Private, GoodCall, InitPlaces, FlushPlaces, DestroyPlaces, ModulePlaces, Inv, TypeOK
<1> QED BY <1>1, <1>2, <1>3, NullAssumption DEF Inv, InstanceInv

\* A vendor has one instance at a time, those being built and torn down included, and no
\* instance is left over.
THEOREM OneInstance == Spec => []OneInstancePerVendor
<1>1. Inv => OneInstancePerVendor
  <2> SUFFICES ASSUME Inv PROVE OneInstancePerVendor
    OBVIOUS
  <2> DEFINE InHandPlaces == {"devices", "publish", "take out", "flush", "shutdown", "clear",
        "delete"}
  <2>1. \A v \in Vendors : \A i \in InstancesOf(v) :
          \/ slotInstance[v] = i /\ i \in Instances
          \/ \E t \in Threads :
               Handling(t, v) /\ call[t].at \in InHandPlaces /\ call[t].instance = i
    BY DEF InstancesOf
  <2>2. ASSUME NEW v \in Vendors, NEW i \in InstancesOf(v) PROVE i \in allocated
    <3>1. CASE slotInstance[v] = i /\ i \in Instances
      BY <3>1, NullAssumption DEF Inv, InstanceInv
    <3>2. CASE \E t \in Threads :
            Handling(t, v) /\ call[t].at \in InHandPlaces /\ call[t].instance = i
      BY <3>2, InHand
    <3> QED BY <2>1, <3>1, <3>2
  <2>3. ASSUME NEW v \in Vendors, NEW i \in InstancesOf(v), NEW j \in InstancesOf(v) PROVE i = j
    <3>1. ASSUME NEW k \in InstancesOf(v), slotInstance[v] # k
          PROVE  \E t \in Threads : /\ slotMutex[v] = t /\ call[t].instance = k
                                    /\ slotInstance[v] = Nothing
      <4>1. PICK t \in Threads :
              Handling(t, v) /\ call[t].at \in InHandPlaces /\ call[t].instance = k
        BY <2>1, <3>1
      <4>2. slotInstance[v] = Nothing
        BY <3>1, <4>1, InHand DEF Handling
      <4> QED BY <4>1, <4>2 DEF Handling
    <3>2. i \in Instances /\ j \in Instances
      BY <2>2 DEF Inv, TypeOK
    <3> QED BY <3>1, <3>2, NullAssumption
  <2>4. ASSUME NEW v \in Vendors PROVE Cardinality(InstancesOf(v)) <= 1
    <3>1. InstancesOf(v) = {} \/ \E i \in InstancesOf(v) : InstancesOf(v) = {i}
      BY <2>3
    <3>2. CASE InstancesOf(v) = {}
      BY <3>2, FS_EmptySet
    <3>3. ASSUME NEW i, InstancesOf(v) = {i} PROVE Cardinality(InstancesOf(v)) <= 1
      <4>1. Cardinality({i}) = 1
        BY FS_Singleton
      <4> QED BY <3>3, <4>1
    <3> QED BY <3>1, <3>2, <3>3
  <2>5. ASSUME NEW i \in allocated PROVE \E v \in Vendors : i \in InstancesOf(v)
    <3>1. CASE \E v \in Vendors : slotInstance[v] = i
      BY <3>1 DEF InstancesOf, Inv, TypeOK
    <3>2. CASE \E t \in Threads : Private(t) /\ call[t].instance = i
      <4>1. PICK t \in Threads : Private(t) /\ call[t].instance = i
        BY <3>2
      <4>2. call[t].at \in InHandPlaces
        BY <4>1 DEF Private
      <4>3. Handling(t, call[t].vendor) /\ call[t].vendor \in Vendors
        BY <4>2, InHand DEF Handling
      <4> QED BY <4>1, <4>2, <4>3 DEF InstancesOf
    <3> QED BY <3>1, <3>2 DEF Inv, InstanceInv
  <2>6. allocated = UNION {InstancesOf(v) : v \in Vendors}
    BY <2>2, <2>5
  <2> QED BY <2>4, <2>6 DEF OneInstancePerVendor, Inv, DeviceInv
<1> QED BY <1>1, InvHolds, PTL

-----------------------------------------------------------------------------
(* The registry implements InstanceTokens.                                 *)

\* The values that stand for the variables of InstanceTokens.
ActiveOf(h, s) == [v \in Vendors |-> IF s[v] # Nothing /\ h[s[v]] = v THEN s[v] ELSE Nothing]
Asked(c) == <<c.op, IF c.op = "init" THEN c.vendor ELSE c.instance>>
Active  == ActiveOf(handles, slotInstance)
Request == [t \in Threads |-> Asked(call[t])]
Outcome == [t \in Threads |-> call[t].outcome]

\* While handles lead to the slots of their instances, they alone say what is active.
LEMMA ActiveByHandle ==
  ASSUME NEW h \in [Instances -> Vendors \cup {Nothing}],
         NEW s \in [Vendors -> Instances \cup {Nothing}],
         \A i \in Instances : h[i] # Nothing => s[h[i]] = i
  PROVE  /\ ActiveOf(h, s) \in [Vendors -> Instances \cup {Nothing}]
         /\ \A v \in Vendors, i \in Instances : ActiveOf(h, s)[v] = i <=> h[i] = v
  BY NullAssumption DEF ActiveOf

\* In a state of the registry and in the one after a step.
LEMMA ActiveNow == ASSUME Inv
  PROVE  /\ Active \in [Vendors -> Instances \cup {Nothing}]
         /\ \A v \in Vendors, i \in Instances : Active[v] = i <=> handles[i] = v
<1>1. /\ handles \in [Instances -> Vendors \cup {Nothing}]
      /\ slotInstance \in [Vendors -> Instances \cup {Nothing}]
      /\ \A i \in Instances : handles[i] # Nothing => slotInstance[handles[i]] = i
  BY DEF Inv, TypeOK, HandleInv, RegistryConsistent
<1> QED BY <1>1, ActiveByHandle DEF Active

\* ?
LEMMA ActiveThen == ASSUME Inv'
  PROVE  /\ Active' \in [Vendors -> Instances \cup {Nothing}]
         /\ \A v \in Vendors, i \in Instances : Active'[v] = i <=> handles'[i] = v
<1>1. /\ handles' \in [Instances -> Vendors \cup {Nothing}]
      /\ slotInstance' \in [Vendors -> Instances \cup {Nothing}]
      /\ \A i \in Instances : handles'[i] # Nothing => slotInstance'[handles'[i]] = i
  BY DEF Inv, TypeOK, HandleInv, RegistryConsistent
<1> QED BY <1>1, ActiveByHandle DEF Active

\* What is active changes with the map of handles only.
LEMMA ActiveKept == ASSUME Inv, Inv', UNCHANGED handles PROVE Active' = Active
<1>1. ASSUME NEW v \in Vendors PROVE Active'[v] = Active[v]
  <2>1. Active[v] \in Instances \cup {Nothing} /\ Active'[v] \in Instances \cup {Nothing}
    BY ActiveNow, ActiveThen
  <2>2. \A i \in Instances : Active'[v] = i <=> Active[v] = i
    BY ActiveNow, ActiveThen
  <2> QED BY <2>1, <2>2
<1>2. Active \in [Vendors -> Instances \cup {Nothing}]
        /\ Active' \in [Vendors -> Instances \cup {Nothing}]
  BY ActiveNow, ActiveThen
<1> QED BY <1>1, <1>2

\* The vendor of a free slot has the instance in its slot active.
LEMMA ActiveInSlot ==
  ASSUME Inv, NEW v \in Vendors, slotMutex[v] = Nothing
  PROVE  Active[v] = slotInstance[v]
<1>1. \A u \in Threads : ~Handling(u, v)
  BY NullAssumption DEF Handling
<1> QED BY <1>1 DEF Active, ActiveOf, Inv, HandleInv, RegistryConsistent

\* A step of one thread that decides what it will be answered, or nothing at all.
Decides(t, what) ==
  /\ Others(t) /\ call'[t].op = call[t].op /\ Asked(call'[t]) = Asked(call[t])
  /\ call'[t].outcome = what /\ UNCHANGED <<handles, tokens, stale>>

\* What such a step changes in InstanceTokens.
LEMMA DecisionMaps ==
  ASSUME Inv, Inv', NEW t \in Threads, NEW what, Decides(t, what)
  PROVE  /\ UNCHANGED <<Active, tokens, Request, stale>>
         /\ Outcome' = [Outcome EXCEPT ![t] = what]
<1>1. Active' = Active
  BY ActiveKept DEF Decides
<1>2. Request' = Request
  BY DEF Decides, Others, Request
<1>3. Outcome' = [Outcome EXCEPT ![t] = what]
  BY DEF Decides, Others, Outcome
<1> QED BY <1>1, <1>2, <1>3 DEF Decides

\* A step that decides nothing is none of InstanceTokens.
LEMMA SilentMaps ==
  ASSUME Inv, Inv', NEW t \in Threads, Decides(t, call[t].outcome)
  PROVE  UNCHANGED Tokens!vars
<1>1. Outcome' = Outcome
  BY DecisionMaps DEF Outcome
<1> QED BY <1>1, DecisionMaps DEF Tokens!vars, Active, ActiveOf, Request, Asked, Outcome

\* init with wrong arguments, or whose backend failed while the vendor's slot was empty.
LEMMA FailureMaps ==
  ASSUME Inv, Inv', NEW t \in Threads, NEW what, Decides(t, what),
         call[t].op = "init", call[t].outcome = Nothing,
         \/ what = "INVALID_ARGUMENT"
         \/ /\ what = "FAILED" /\ call[t].vendor \in Vendors
            /\ slotInstance[call[t].vendor] = Nothing
  PROVE  Tokens!InitFails(t)
<1>1. Tokens!Asks(t, "init") /\ Request[t][2] = call[t].vendor
  BY DEF Tokens!Asks, Request, Asked
<1>2. Tokens!Decide(t, what) /\ Active' = Active /\ stale' = stale
  BY DecisionMaps DEF Tokens!Decide, Request, Asked, Outcome
<1>3. what = "INVALID_ARGUMENT" \/ (what = "FAILED" /\ Active[Request[t][2]] = Nothing)
  BY <1>1 DEF Active, ActiveOf
<1> QED BY <1>1, <1>2 DEF Tokens!InitFails, Active, ActiveOf

\* A call begins with a request for a vendor, or for an instance whose handle it was given.
LEMMA AskMaps ==
  ASSUME Inv, Inv', NEW t \in Threads, NEW new, NEW req \in Tokens!Requests, Begin(t, new),
         new.outcome = Nothing, Asked(new) = req, req[1] # "init" => req[2] \in tokens,
         tokens' = IF req[1] = "destroy" THEN tokens \ {req[2]} ELSE tokens
  PROVE  Tokens!Ask(t)
<1>1. /\ call[t] = NoCall /\ call'[t] = new /\ \A u \in Threads \ {t} : call'[u] = call[u]
  BY DEF Begin, Inv, TypeOK
<1>2. Request[t] = Tokens!Idle
  BY <1>1 DEF Request, Asked, NoCall, Tokens!Idle
<1>3. Request' = [Request EXCEPT ![t] = req]
  BY <1>1 DEF Request
<1>4. Active' = Active /\ Outcome' = Outcome /\ stale' = stale
  BY ActiveKept DEF Begin, NoCall, registry, Outcome
<1> QED BY <1>2, <1>3, <1>4 DEF Tokens!Ask, Active, ActiveOf, Request, Asked, Outcome

\* Each call begins with its request.
LEMMA CallMaps ==
  ASSUME Inv, Inv', NEW t \in Threads, CallInit(t) \/ CallFlush(t) \/ CallDestroy(t)
  PROVE  Tokens!Ask(t)
<1>1. CASE CallInit(t)
  <2>1. PICK v \in Vendors : Begin(t, [NoCall EXCEPT !.op = "init", !.at = "check", !.vendor = v])
    BY <1>1 DEF CallInit
  <2> DEFINE new == [NoCall EXCEPT !.op = "init", !.at = "check", !.vendor = v]
  <2>2. new.outcome = Nothing /\ Asked(new) = <<"init", v>> /\ <<"init", v>> \in Tokens!Requests
    BY DEF NoCall, Asked, Tokens!Requests
  <2> HIDE DEF new
  <2> QED BY <1>1, <2>1, <2>2, AskMaps DEF CallInit, new
<1>2. CASE CallFlush(t)
  <2>1. PICK i \in tokens : Begin(t, [NoCall EXCEPT !.op = "flush", !.at = "find", !.instance = i])
    BY <1>2 DEF CallFlush
  <2> DEFINE new == [NoCall EXCEPT !.op = "flush", !.at = "find", !.instance = i]
  <2>2. new.outcome = Nothing /\ Asked(new) = <<"flush", i>> /\ <<"flush", i>> \in Tokens!Requests
    BY DEF NoCall, Asked, Tokens!Requests, Inv, TypeOK
  <2> HIDE DEF new
  <2> QED BY <1>2, <2>1, <2>2, AskMaps DEF CallFlush, new
<1>3. CASE CallDestroy(t)
  <2>1. PICK i \in tokens :
          /\ Begin(t, [NoCall EXCEPT !.op = "destroy", !.at = "find", !.instance = i])
                            /\ tokens' = tokens \ {i}
    BY <1>3 DEF CallDestroy
  <2> DEFINE new == [NoCall EXCEPT !.op = "destroy", !.at = "find", !.instance = i]
  <2>2. /\ new.outcome = Nothing /\ Asked(new) = <<"destroy", i>>
        /\ <<"destroy", i>> \in Tokens!Requests
    BY DEF NoCall, Asked, Tokens!Requests, Inv, TypeOK
  <2> HIDE DEF new
  <2> QED BY <2>1, <2>2, AskMaps DEF new
<1> QED BY <1>1, <1>2, <1>3

\* The caller is given the answer, and becomes the owner of the instance it asked for.
LEMMA ReturnMaps ==
  ASSUME Inv, Inv', NEW t \in Threads, Return(t) PROVE Tokens!Answer(t)
<1>1. call[t].outcome # Nothing
  BY DEF Return, Inv, ThreadOK, GoodCall
<1>2. /\ Request' = [Request EXCEPT ![t] = Tokens!Idle]
      /\ Outcome' = [Outcome EXCEPT ![t] = Nothing] /\ Outcome[t] = call[t].outcome
  BY DEF Return, Request, Asked, Outcome, NoCall, Tokens!Idle, Inv, TypeOK
<1>3. Active' = Active
  BY ActiveKept DEF Return, registry
<1> QED BY <1>1, <1>2, <1>3 DEF Return, Tokens!Answer, Active, ActiveOf, Request, Asked, Outcome

\* An answer that init gives before it has an instance, or a step on the way to one.
LEMMA InitMaps ==
  ASSUME Inv, Inv', NEW t \in Threads, InitStep(t), ~LockForInit(t), ~Publish(t)
  PROVE  Tokens!InitFails(t) \/ UNCHANGED Tokens!vars
<1>1. /\ call[t].op = "init" /\ GoodCall(call[t]) /\ SlotOK(t)
      /\ call[t].at \notin {"unlock module", "clear", "delete", "unlock", "return"} =>
           call[t].outcome = Nothing
  BY
  DEF InitStep, At, RejectArguments, GetOrCreateSlot, LockModule, FindLibrary, OpenLibrary,
    CallEntry,
         UnlockModule, CreateInstance, CreateDevice, Inv, ThreadOK, GoodCall, Undecided, InitPlaces,
         ModulePlaces
<1>2. CASE RejectArguments(t)
  <2>1. Decides(t, "INVALID_ARGUMENT")
    <3>1. Went(t, "return", "INVALID_ARGUMENT")
      BY <1>2, EndEffect DEF RejectArguments, Inv, Places, Outcomes
    <3> QED BY <1>2, <3>1
            DEF RejectArguments, Went, Moved, Decides, Others, Asked, registry, history
  <2>2. call[t].outcome = Nothing
    BY <1>1, <1>2 DEF RejectArguments, At
  <2> QED BY <1>1, <2>1, <2>2, FailureMaps
<1>3. CASE GetOrCreateSlot(t) \/ LockModule(t) \/ FindLibrary(t) \/ UnlockModule(t)
  <2>1. PICK place \in Places : Went(t, place, call[t].outcome)
    <3>1. \E place \in Places : Goto(t, place)
      BY <1>3 DEF GetOrCreateSlot, LockModule, FindLibrary, UnlockModule, Places
    <3> QED BY <3>1, GotoEffect DEF Inv
  <2>2. Decides(t, call[t].outcome)
    BY <1>3, <2>1
    DEF GetOrCreateSlot, LockModule, FindLibrary, UnlockModule, Went, Moved, Decides, Others,
                      Asked, registry, history
  <2> QED BY <2>2, SilentMaps
<1>4. CASE OpenLibrary(t) \/ CallEntry(t)
  <2>1. /\ call[t].vendor \in Vendors /\ slotInstance[call[t].vendor] = Nothing
        /\ call[t].outcome = Nothing
    BY <1>1, <1>4, HasVendor DEF OpenLibrary, CallEntry, At, SlotOK, Outside
  <2>2. \/ Went(t, "call entry", call[t].outcome) \/ Went(t, "unlock module", call[t].outcome)
        \/ Went(t, "unlock module", "FAILED")
    BY <1>4, GotoEffect, EndEffect DEF OpenLibrary, CallEntry, Inv, Places, Outcomes
  <2>3. Decides(t, call[t].outcome) \/ Decides(t, "FAILED")
    BY <1>4, <2>2 DEF OpenLibrary, CallEntry, Went, Moved, Decides, Others, Asked, registry, history
  <2> QED BY <1>1, <2>1, <2>3, SilentMaps, FailureMaps
<1>5. CASE CreateInstance(t)
  <2>1. /\ call[t].vendor \in Vendors /\ slotInstance[call[t].vendor] = Nothing
        /\ call[t].outcome = Nothing /\ call \in [Threads -> CallType]
    BY <1>1, <1>5, HasVendor DEF CreateInstance, At, SlotOK, Outside, Inv, TypeOK, CallType
  <2>2. CASE \E i \in Instances : call' = [call EXCEPT ![t].at = "devices", ![t].instance = i]
    <3>1. PICK i \in Instances :
            call' = [call EXCEPT ![t] = [call[t] EXCEPT !.at = "devices", !.instance = i]]
      BY <2>1, <2>2 DEF CallType
    <3>2. Decides(t, call[t].outcome)
      BY <1>1, <1>5, <2>1, <3>1
      DEF CreateInstance, CallType, Decides, Others, Asked, registry, history
    <3> QED BY <3>2, SilentMaps
  <2>3. CASE End(t, "unlock", "FAILED")
    <3>1. Went(t, "unlock", "FAILED")
      BY <2>3, EndEffect DEF Inv, Places, Outcomes
    <3>2. Decides(t, "FAILED")
      BY <1>5, <3>1 DEF CreateInstance, Went, Moved, Decides, Others, Asked, registry, history
    <3> QED BY <1>1, <2>1, <3>2, FailureMaps
  <2> QED BY <1>5, <2>2, <2>3 DEF CreateInstance
<1>6. CASE CreateDevice(t)
  <2>1. /\ call[t].vendor \in Vendors /\ slotInstance[call[t].vendor] = Nothing
        /\ call[t].outcome = Nothing /\ call \in [Threads -> CallType]
    BY <1>1, <1>6, HasVendor DEF CreateDevice, At, SlotOK, Outside, Inv, TypeOK, CallType
  <2>2. CASE Loop(t, "publish")
    <3>1. /\ Others(t) /\ call'[t].op = call[t].op /\ call'[t].vendor = call[t].vendor
          /\ call'[t].instance = call[t].instance /\ call'[t].outcome = call[t].outcome
      BY <2>2, LoopEffect DEF Moved, Others, Inv, Places
    <3>2. Decides(t, call[t].outcome)
      BY <1>6, <3>1 DEF CreateDevice, Decides, Asked, registry, history
    <3> QED BY <3>2, SilentMaps
  <2>3. CASE call' = [call EXCEPT ![t].at = "clear", ![t].next = 1, ![t].outcome = "FAILED"]
    <3>1. call' = [call EXCEPT ![t] = [call[t] EXCEPT !.at = "clear", !.next = 1,
            !.outcome = "FAILED"]]
      BY <2>3
    <3>2. Decides(t, "FAILED")
      BY <1>6, <2>1, <3>1 DEF CreateDevice, Decides, Others, Asked, registry, history
    <3> QED BY <1>1, <2>1, <3>2, FailureMaps
  <2> QED BY <1>6, <2>2, <2>3 DEF CreateDevice
<1> QED BY <1>2, <1>3, <1>4, <1>5, <1>6 DEF InitStep

\* An init that finds an instance in the slot finds its vendor active, since nobody holds
\* the slot and so nobody is taking the instance out.
LEMMA LockForInitMaps ==
  ASSUME Inv, Inv', NEW t \in Threads, LockForInit(t)
  PROVE  Tokens!AlreadyInitialized(t) \/ UNCHANGED Tokens!vars
<1>1. /\ call[t].op = "init" /\ call[t].outcome = Nothing /\ call[t].vendor \in Vendors
      /\ slotMutex[call[t].vendor] = Nothing
  BY DEF LockForInit, TakeSlot, At, Inv, ThreadOK, GoodCall, Undecided
<1>2. Active[call[t].vendor] = slotInstance[call[t].vendor]
  BY <1>1, ActiveInSlot
<1>3. \/ Went(t, "unlock", "ALREADY_INITIALIZED") /\ slotInstance[call[t].vendor] # Nothing
      \/ Went(t, "lock module", call[t].outcome)
  BY GotoEffect, EndEffect DEF LockForInit, Inv, Places, Outcomes
<1>4. CASE Went(t, "lock module", call[t].outcome)
  <2>1. Decides(t, call[t].outcome)
    BY <1>4 DEF LockForInit, Went, Moved, Decides, Others, Asked, registry, history
  <2> QED BY <2>1, SilentMaps
<1>5. CASE Went(t, "unlock", "ALREADY_INITIALIZED") /\ slotInstance[call[t].vendor] # Nothing
  <2>1. Decides(t, "ALREADY_INITIALIZED")
    BY <1>5 DEF LockForInit, Went, Moved, Decides, Others, Asked, registry, history
  <2>2. Tokens!Asks(t, "init") /\ Request[t][2] = call[t].vendor /\ Active[Request[t][2]] # Nothing
    BY <1>1, <1>2, <1>5 DEF Tokens!Asks, Request, Asked
  <2>3. Tokens!Decide(t, "ALREADY_INITIALIZED") /\ Active' = Active /\ stale' = stale
    BY <2>1, DecisionMaps DEF Tokens!Decide, Request, Asked, Outcome
  <2> QED BY <2>2, <2>3 DEF Tokens!AlreadyInitialized, Active, ActiveOf, Request, Asked
<1> QED BY <1>3, <1>4, <1>5

\* The one answer a flush is given: it was performed on an active instance, or the
\* instance was not active, or its destruction overtook the flush.
LEMMA FlushMaps ==
  ASSUME Inv, Inv', NEW t \in Threads, NEW what, Decides(t, what),
         call[t].op = "flush", call[t].outcome = Nothing, call[t].instance \in Instances,
         \/ what = "PERFORMED" /\ \E v \in Vendors : Active[v] = call[t].instance
         \/ what = "INVALID_ARGUMENT" /\ \A v \in Vendors : Active[v] # call[t].instance
         \/ what = "INVALID_ARGUMENT" /\ t \in stale
  PROVE  Tokens!Flush(t)
<1>1. Tokens!Asks(t, "flush") /\ Request[t][2] = call[t].instance
  BY DEF Tokens!Asks, Request, Asked
<1>2. Tokens!IsActive(Request[t][2]) <=> \E v \in Vendors : Active[v] = call[t].instance
  BY <1>1 DEF Tokens!IsActive, Active, ActiveOf
<1>3. Tokens!Decide(t, what) /\ Active' = Active /\ stale' = stale
  BY DecisionMaps DEF Tokens!Decide, Request, Asked, Outcome
<1> QED BY <1>1, <1>2, <1>3 DEF Tokens!Flush, Active, ActiveOf

\* A flush whose handle leads nowhere is told so; a destroy always finds its slot.
LEMMA FindSlotMaps ==
  ASSUME Inv, Inv', NEW t \in Threads, FindSlot(t)
  PROVE  Tokens!Flush(t) \/ UNCHANGED Tokens!vars
<1>1. /\ GoodCall(call[t]) /\ call[t].at = "find" /\ call[t].op \in {"flush", "destroy"}
      /\ call[t].instance \in Instances /\ call[t].outcome = Nothing
      /\ call \in [Threads -> CallType]
  <2>1. GoodCall(call[t]) /\ call \in [Threads -> CallType]
    BY DEF Inv, ThreadOK, TypeOK, CallType
  <2>2. call[t].at = "find" /\ call[t].op \in {"none", "init", "flush", "destroy"}
    BY <2>1 DEF FindSlot, CallType
  <2> QED BY <2>1, <2>2 DEF GoodCall, Undecided, InitPlaces, ModulePlaces
<1>2. CASE handles[call[t].instance] = Nothing
  <2>1. Went(t, "return", "INVALID_ARGUMENT")
    BY <1>2, EndEffect DEF FindSlot, Inv, Places, Outcomes
  <2>2. Decides(t, "INVALID_ARGUMENT")
    BY <2>1 DEF FindSlot, Went, Moved, Decides, Others, Asked, registry, history
  <2>3. call[t].op = "flush"
    BY <1>1, <1>2 DEF Owner, Inv, TokenInv
  <2>4. \A v \in Vendors : Active[v] # call[t].instance
    BY <1>1, <1>2, ActiveNow, NullAssumption
  <2> QED BY <1>1, <2>2, <2>3, <2>4, FlushMaps
<1>3. CASE handles[call[t].instance] # Nothing
  <2>1. call' = [call EXCEPT ![t] = [call[t] EXCEPT !.at = "lock",
          !.vendor = handles[call[t].instance]]]
    BY <1>1, <1>3 DEF FindSlot, CallType
  <2>2. Decides(t, call[t].outcome)
    BY <1>1, <2>1 DEF FindSlot, Decides, Others, Asked, registry, history
  <2> QED BY <2>2, SilentMaps
<1> QED BY <1>2, <1>3

\* A flush takes effect when it has locked the slot.
LEMMA LockForFlushMaps ==
  ASSUME Inv, Inv', NEW t \in Threads, LockForFlush(t) PROVE Tokens!Flush(t)
<1>1. /\ call[t].op = "flush" /\ call[t].outcome = Nothing /\ call[t].vendor \in Vendors
      /\ slotMutex[call[t].vendor] = Nothing /\ call[t].instance \in Instances
      /\ LookupOK(t) /\ call[t].at = "lock"
  BY HasVendor DEF LockForFlush, TakeSlot, At, Inv, ThreadOK, GoodCall, Undecided
<1>2. Active[call[t].vendor] = slotInstance[call[t].vendor]
  BY <1>1, ActiveInSlot
<1>3. CASE slotInstance[call[t].vendor] = call[t].instance
  <2>1. Went(t, "flush", "PERFORMED")
    BY <1>3, EndEffect DEF LockForFlush, Inv, Places, Outcomes
  <2>2. Decides(t, "PERFORMED")
    BY <2>1 DEF LockForFlush, Went, Moved, Decides, Others, Asked, registry, history
  <2> QED BY <1>1, <1>2, <1>3, <2>2, FlushMaps
<1>4. CASE slotInstance[call[t].vendor] # call[t].instance
  <2>1. Went(t, "unlock", "INVALID_ARGUMENT")
    BY <1>4, EndEffect DEF LockForFlush, Inv, Places, Outcomes
  <2>2. Decides(t, "INVALID_ARGUMENT")
    BY <2>1 DEF LockForFlush, Went, Moved, Decides, Others, Asked, registry, history
  <2>3. t \in stale
    BY <1>1, <1>2, <1>4, ActiveNow DEF LookupOK
  <2> QED BY <1>1, <2>2, <2>3, FlushMaps
<1> QED BY <1>3, <1>4

\* init takes effect when the slot gets its instance, or gives it up for want of memory.
LEMMA PublishMaps ==
  ASSUME Inv, Inv', NEW t \in Threads, Publish(t)
  PROVE  Tokens!Activate(t) \/ Tokens!InitFails(t)
<1> DEFINE i == call[t].instance
           v == call[t].vendor
<1>1. /\ call[t].op = "init" /\ call[t].outcome = Nothing /\ v \in Vendors /\ Private(t)
      /\ slotInstance[v] = Nothing
  BY DEF Publish, At, Inv, ThreadOK, GoodCall, Undecided, SlotOK, Private, Outside
<1>2. i \in Instances /\ handles[i] = Nothing
  BY <1>1, PrivateFacts
<1>3. Tokens!Asks(t, "init") /\ Request[t][2] = v /\ Active[v] = Nothing
  BY <1>1 DEF Tokens!Asks, Request, Asked, Active, ActiveOf
<1>4. CASE /\ handles' = [handles EXCEPT ![i] = v] /\ slotInstance' = [slotInstance EXCEPT ![v] = i]
           /\ End(t, "unlock", i)
  <2>1. Went(t, "unlock", i)
    BY <1>2, <1>4, EndEffect DEF Inv, Places
  <2>2. Request' = Request /\ Outcome' = [Outcome EXCEPT ![t] = i]
    BY <2>1 DEF Went, Moved, Request, Asked, Outcome
  <2>3. Active' = [Active EXCEPT ![v] = i]
    <3>1. ASSUME NEW w \in Vendors PROVE Active'[w] = [Active EXCEPT ![v] = i][w]
      <4>1. Active[w] \in Instances \cup {Nothing} /\ Active'[w] \in Instances \cup {Nothing}
        BY ActiveNow, ActiveThen
      <4>2. \A j \in Instances : j # i => handles'[j] = handles[j]
        BY <1>4
      <4>3. handles'[i] = v
        BY <1>4 DEF Inv, TypeOK
      <4>4. Active'[v] = i
        BY <1>1, <1>2, <4>3, ActiveThen
      <4>5. CASE w # v
        <5>1. \A j \in Instances : Active'[w] = j <=> Active[w] = j
          BY <1>2, <4>2, <4>3, <4>5, ActiveNow, ActiveThen, NullAssumption
        <5> QED BY <4>1, <4>5, <5>1
      <4> QED BY <4>4, <4>5, ActiveNow
    <3> QED BY <3>1, ActiveNow, ActiveThen
  <2>4. ~Tokens!IsActive(i)
    <3>1. \A w \in Vendors : Active[w] # i
      BY <1>2, ActiveNow, NullAssumption
    <3> QED BY <3>1 DEF Tokens!IsActive, Active, ActiveOf
  <2>5. PICK j \in Instances : j = i
    BY <1>2
  <2>6. ~Tokens!IsActive(j) /\ Active' = [Active EXCEPT ![Request[t][2]] = j]
    BY <1>3, <2>3, <2>4, <2>5
  <2>7. Tokens!Decide(t, j) /\ stale' = stale
    BY <2>2, <2>5 DEF Publish, Tokens!Decide, Request, Asked, Outcome, history
  <2>8. Active[Request[t][2]] = Nothing
    BY <1>3
  <2> QED BY <1>3, <2>6, <2>7 DEF Tokens!Activate, Active, ActiveOf, Request, Asked
<1>5. CASE End(t, "clear", "FAILED") /\ UNCHANGED <<slotInstance, handles>>
  <2>1. Went(t, "clear", "FAILED")
    BY <1>5, EndEffect DEF Inv, Places, Outcomes
  <2>2. Decides(t, "FAILED")
    BY <1>5, <2>1 DEF Publish, Went, Moved, Decides, Others, Asked, history
  <2> QED BY <1>1, <2>2, FailureMaps
<1> QED BY <1>4, <1>5 DEF Publish

\* destroy takes effect when the handle is erased.
LEMMA EraseHandleMaps ==
  ASSUME Inv, Inv', NEW t \in Threads, EraseHandle(t) PROVE Tokens!Destroy(t)
<1> DEFINE i == call[t].instance
           v == call[t].vendor
<1>1. /\ call[t].op = "destroy" /\ call[t].outcome = Nothing /\ v \in Vendors /\ i \in Instances
      /\ handles[i] = v
  BY HasVendor DEF EraseHandle, At, Inv, ThreadOK, GoodCall, Undecided, LookupOK
<1>2. Tokens!Asks(t, "destroy") /\ Request[t][2] = i
  BY <1>1 DEF Tokens!Asks, Request, Asked
<1>3. Active[v] = i
  BY <1>1, ActiveNow
<1>4. Tokens!IsActive(i)
  BY <1>1, <1>3 DEF Tokens!IsActive, Active, ActiveOf
<1>5. Went(t, "take out", "PERFORMED")
  BY EndEffect DEF EraseHandle, Inv, Places, Outcomes
<1>6. Request' = Request /\ Outcome' = [Outcome EXCEPT ![t] = "PERFORMED"]
  BY <1>5 DEF Went, Moved, Request, Asked, Outcome
<1>7. Active' = [w \in Vendors |-> IF Active[w] = i THEN Nothing ELSE Active[w]]
  <2>1. ASSUME NEW w \in Vendors PROVE Active'[w] = IF Active[w] = i THEN Nothing ELSE Active[w]
    <3>1. Active[w] \in Instances \cup {Nothing} /\ Active'[w] \in Instances \cup {Nothing}
      BY ActiveNow, ActiveThen
    <3>2. \A j \in Instances : handles'[j] = IF j = i THEN Nothing ELSE handles[j]
      BY <1>1 DEF EraseHandle, Inv, TypeOK
    <3>3. \A j \in Instances : Active'[w] = j <=> (j # i /\ Active[w] = j)
      BY <3>2, ActiveNow, ActiveThen, NullAssumption
    <3> QED BY <3>1, <3>3
  <2> QED BY <2>1, ActiveThen
<1>8. {u \in Threads : Tokens!Asks(u, "flush") /\ Request[u][2] = i}
        = {u \in Threads :
          call[u].op = "flush" /\ call[u].outcome = Nothing /\ call[u].instance = i}
  BY DEF Tokens!Asks, Request, Asked
<1>9. stale' = stale \cup {u \in Threads : Tokens!Asks(u, "flush") /\ Request[u][2] = i}
  BY <1>8 DEF EraseHandle
<1>10. Tokens!Decide(t, "PERFORMED")
  BY <1>6 DEF EraseHandle, Tokens!Decide, Request, Asked, Outcome
<1> QED BY <1>2, <1>4, <1>7, <1>9, <1>10 DEF Tokens!Destroy, Active, ActiveOf, Request, Asked

\* The other steps change nothing that a caller can tell.
LEMMA OtherMaps ==
  ASSUME Inv, Inv', NEW t \in Threads,
         \/ LockForDestroy(t) \/ FlushDevice(t) \/ TakeOut(t) \/ ShutdownDevice(t)
         \/ DestroyDevice(t) \/ DeleteInstance(t) \/ UnlockSlot(t)
  PROVE  UNCHANGED Tokens!vars
<1>1. CASE LockForDestroy(t)
  <2>1. /\ call[t].op = "destroy" /\ call[t].vendor \in Vendors /\ call[t].instance \in Instances
        /\ slotMutex[call[t].vendor] = Nothing /\ handles[call[t].instance] = call[t].vendor
    BY <1>1, HasVendor DEF LockForDestroy, TakeSlot, At, Inv, ThreadOK, GoodCall, LookupOK
  <2>2. slotInstance[call[t].vendor] = call[t].instance
    BY <2>1, ActiveNow, ActiveInSlot
  <2>3. Went(t, "erase", call[t].outcome)
    BY <1>1, <2>2, GotoEffect DEF LockForDestroy, Inv, Places
  <2>4. Decides(t, call[t].outcome)
    BY <1>1, <2>3 DEF LockForDestroy, Went, Moved, Decides, Others, Asked, registry, history
  <2> QED BY <2>4, SilentMaps
<1>2. CASE TakeOut(t) \/ DeleteInstance(t) \/ UnlockSlot(t)
  <2>1. PICK place \in Places : Went(t, place, call[t].outcome)
    <3>1. \E place \in Places : Goto(t, place)
      BY <1>2 DEF TakeOut, DeleteInstance, UnlockSlot, Places
    <3> QED BY <3>1, GotoEffect DEF Inv
  <2>2. Decides(t, call[t].outcome)
    BY <1>2, <2>1
       DEF TakeOut, DeleteInstance, UnlockSlot, Went, Moved, Decides, Others, Asked, registry,
         history
  <2> QED BY <2>2, SilentMaps
<1>3. CASE FlushDevice(t) \/ ShutdownDevice(t) \/ DestroyDevice(t)
  <2>1. \E after \in Places : Loop(t, after)
    BY <1>3 DEF FlushDevice, ShutdownDevice, DestroyDevice, Places
  <2>2. /\ Others(t) /\ call'[t].op = call[t].op /\ call'[t].vendor = call[t].vendor
        /\ call'[t].instance = call[t].instance /\ call'[t].outcome = call[t].outcome
    BY <2>1, LoopEffect DEF Moved, Others, Inv
  <2>3. Decides(t, call[t].outcome)
    BY <1>3, <2>2 DEF FlushDevice, ShutdownDevice, DestroyDevice, Decides, Asked, registry, history
  <2> QED BY <2>3, SilentMaps
<1> QED BY <1>1, <1>2, <1>3

\* Every call takes effect in one step between being asked and being answered, as
\* InstanceTokens promises, and in no other step does anything change for the callers.
THEOREM RegistryRefinement == Spec => ImplementsTokens
<1>1. Init => Tokens!Init
  BY DEF Init, NoCall, Tokens!Init, Tokens!Idle
<1>2. Inv /\ Inv' /\ [Next]_vars => [Tokens!Next]_(Tokens!vars)
  <2> SUFFICES ASSUME Inv, Inv', [Next]_vars PROVE Tokens!Next \/ UNCHANGED Tokens!vars
    OBVIOUS
  <2>1. CASE UNCHANGED vars
    BY <2>1 DEF vars, registry, history, Tokens!vars
  <2>2. ASSUME NEW t \in Threads, CallInit(t) \/ CallFlush(t) \/ CallDestroy(t) PROVE Tokens!Next
    BY <2>2, CallMaps DEF Tokens!Next
  <2>3. ASSUME NEW t \in Threads, InitStep(t) PROVE Tokens!Next \/ UNCHANGED Tokens!vars
    BY <2>3, InitMaps, LockForInitMaps, PublishMaps DEF Tokens!Next
  <2>4. ASSUME NEW t \in Threads, UseStep(t) PROVE Tokens!Next \/ UNCHANGED Tokens!vars
    BY <2>4, FindSlotMaps, LockForFlushMaps, EraseHandleMaps, OtherMaps DEF UseStep, Tokens!Next
  <2>5. ASSUME NEW t \in Threads,
               DestroyDevice(t) \/ DeleteInstance(t) \/ UnlockSlot(t) \/ Return(t)
        PROVE  Tokens!Next \/ UNCHANGED Tokens!vars
    BY <2>5, OtherMaps, ReturnMaps DEF Tokens!Next
  <2> QED BY <2>1, <2>2, <2>3, <2>4, <2>5 DEF Next, Step
<1> QED BY <1>1, <1>2, InvHolds, PTL DEF Spec, ImplementsTokens, Tokens!Spec

-----------------------------------------------------------------------------
(* The mutexes.  That every call returns rests, besides fairness, on the fact that no
   state leaves a call waiting for one that cannot go on. *)

\* A mutex has an owner only between its lock and its unlock in one call.
HeldInv ==
  /\ \A v \in Vendors : slotMutex[v] # Nothing =>
       call[slotMutex[v]].at \notin Outside /\ call[slotMutex[v]].vendor = v
  /\ moduleMutex # Nothing => call[moduleMutex].at \in ModulePlaces

\* A step within the critical parts of a call, or outside all of them.
LEMMA HeldFrame ==
  ASSUME Inv, HeldInv, NEW t \in Threads, Others(t), UNCHANGED mutexes,
         call[t].at \notin Outside =>
           call'[t].at \notin Outside /\ call'[t].vendor = call[t].vendor,
         call[t].at \in ModulePlaces => call'[t].at \in ModulePlaces
  PROVE  HeldInv'
<1>1. slotMutex' = slotMutex /\ moduleMutex' = moduleMutex
  BY DEF mutexes
<1>2. ASSUME NEW v \in Vendors, slotMutex[v] # Nothing
      PROVE  call'[slotMutex[v]].at \notin Outside /\ call'[slotMutex[v]].vendor = v
  <2>1. /\ slotMutex[v] \in Threads
        /\ call[slotMutex[v]].at \notin Outside /\ call[slotMutex[v]].vendor = v
    BY <1>2 DEF Inv, TypeOK, HeldInv
  <2>2. CASE slotMutex[v] = t
    BY <2>1, <2>2
  <2>3. CASE slotMutex[v] # t
    BY <2>1, <2>3 DEF Others
  <2> QED BY <2>2, <2>3
<1>3. ASSUME moduleMutex # Nothing PROVE call'[moduleMutex].at \in ModulePlaces
  <2>1. moduleMutex \in Threads /\ call[moduleMutex].at \in ModulePlaces
    BY <1>3 DEF Inv, TypeOK, HeldInv
  <2> QED BY <2>1 DEF Others
<1> QED BY <1>1, <1>2, <1>3 DEF HeldInv

\* Every lock is followed by an unlock on each path of init, flush and destroy, the ones
\* of an error included.
LEMMA HeldInductive == Spec => []HeldInv
<1>1. Init => HeldInv
  BY DEF Init, HeldInv
<1>2. Inv /\ HeldInv /\ [Next]_vars => HeldInv'
  <2> SUFFICES ASSUME Inv, HeldInv, [Next]_vars PROVE HeldInv'
    OBVIOUS
  <2>0. ASSUME NEW t \in Threads, NEW place,
               Goto(t, place) \/ \E outcome : End(t, place, outcome)
        PROVE  Others(t) /\ call'[t].at = place /\ call'[t].vendor = call[t].vendor
    <3>1. CASE Goto(t, place)
      BY <3>1 DEF Goto, Others, Inv, TypeOK
    <3>2. CASE \E outcome : End(t, place, outcome)
      BY <3>2 DEF End, Others, Inv, TypeOK
    <3> QED BY <2>0, <3>1, <3>2
  <2>1. ASSUME NEW t \in Threads, NEW place,
               Goto(t, place) \/ \E outcome : End(t, place, outcome),
               UNCHANGED mutexes, call[t].at \notin Outside => place \notin Outside,
               call[t].at \in ModulePlaces => place \in ModulePlaces
        PROVE  HeldInv'
    <3>1. Others(t) /\ call'[t].at = place /\ call'[t].vendor = call[t].vendor
      BY <2>1, <2>0
    <3> QED BY <2>1, <3>1, HeldFrame
  <2>2. ASSUME NEW t \in Threads, CallInit(t) \/ CallFlush(t) \/ CallDestroy(t) PROVE HeldInv'
    <3>1. \E new : Begin(t, new)
      BY <2>2 DEF CallInit, CallFlush, CallDestroy
    <3>2. call[t].at = "idle" /\ Others(t) /\ UNCHANGED mutexes
      BY <3>1 DEF Begin, NoCall, Others, Inv, TypeOK
    <3> QED BY <3>2, HeldFrame DEF Outside, ModulePlaces
  <2>3. ASSUME NEW t \in Threads, RejectArguments(t) \/ GetOrCreateSlot(t) PROVE HeldInv'
    <3>1. Goto(t, "lock") \/ \E outcome : End(t, "return", outcome)
      BY <2>3 DEF RejectArguments, GetOrCreateSlot
    <3>2. call[t].at = "check" /\ UNCHANGED mutexes
      BY <2>3 DEF RejectArguments, GetOrCreateSlot, At
    <3> QED BY <2>1, <3>1, <3>2 DEF Outside, ModulePlaces
  <2>4. ASSUME NEW t \in Threads, FindSlot(t) PROVE HeldInv'
    <3>1. call[t].at = "find" /\ UNCHANGED mutexes /\ Others(t)
      BY <2>4 DEF FindSlot, End, Others, Inv, TypeOK
    <3> QED BY <3>1, HeldFrame DEF Outside, ModulePlaces
  <2>5. ASSUME NEW t \in Threads, LockForInit(t) \/ LockForFlush(t) \/ LockForDestroy(t)
        PROVE  HeldInv'
    <3>1. call[t].at = "lock" /\ TakeSlot(t) /\ moduleMutex' = moduleMutex
      BY <2>5 DEF LockForInit, LockForFlush, LockForDestroy, At
    <3>2. \/ Goto(t, "lock module") \/ Goto(t, "erase")
          \/ (\E outcome : End(t, "unlock", outcome)) \/ (\E outcome : End(t, "flush", outcome))
      BY <2>5 DEF LockForInit, LockForFlush, LockForDestroy
    <3>3. Others(t) /\ call'[t].at \notin Outside /\ call'[t].vendor = call[t].vendor
      <4>1. CASE Goto(t, "lock module")
        <5>1. Others(t) /\ call'[t].at = "lock module" /\ call'[t].vendor = call[t].vendor
          BY <4>1, <2>0
        <5> QED BY <5>1 DEF Outside
      <4>2. CASE Goto(t, "erase")
        BY <4>2, <2>0 DEF Outside
      <4>3. CASE \E outcome : End(t, "unlock", outcome)
        BY <4>3, <2>0 DEF Outside
      <4>4. CASE \E outcome : End(t, "flush", outcome)
        BY <4>4, <2>0 DEF Outside
      <4> QED BY <3>2, <4>1, <4>2, <4>3, <4>4
    <3>4. call[t].vendor \in Vendors
      BY <3>1, HasVendor
    <3>5. \A v \in Vendors : slotMutex[v] # t
      BY <3>1, NullAssumption DEF HeldInv, Outside
    <3>6. ASSUME NEW v \in Vendors, slotMutex'[v] # Nothing
          PROVE  call'[slotMutex'[v]].at \notin Outside /\ call'[slotMutex'[v]].vendor = v
      <4>1. CASE v = call[t].vendor
        <5>1. slotMutex'[v] = t
          BY <3>1, <3>4, <4>1 DEF TakeSlot, Inv, TypeOK
        <5> QED BY <3>3, <4>1, <5>1
      <4>2. CASE v # call[t].vendor
        <5>1. slotMutex'[v] = slotMutex[v]
          BY <3>1, <4>2 DEF TakeSlot, Inv, TypeOK
        <5>2. slotMutex[v] \in Threads \ {t}
          BY <3>5, <3>6, <5>1 DEF Inv, TypeOK
        <5>3. call[slotMutex[v]].at \notin Outside /\ call[slotMutex[v]].vendor = v
          BY <3>6, <5>1 DEF HeldInv
        <5> QED BY <3>3, <5>1, <5>2, <5>3 DEF Others
      <4> QED BY <4>1, <4>2
    <3>7. ASSUME moduleMutex # Nothing PROVE call'[moduleMutex].at \in ModulePlaces
      <4>1. moduleMutex \in Threads /\ call[moduleMutex].at \in ModulePlaces
        BY <3>7 DEF Inv, TypeOK, HeldInv
      <4>2. moduleMutex # t
        BY <3>1, <4>1 DEF ModulePlaces
      <4> QED BY <3>3, <4>1, <4>2 DEF Others
    <3> QED BY <3>1, <3>6, <3>7 DEF HeldInv
  <2>6. ASSUME NEW t \in Threads, UnlockSlot(t) PROVE HeldInv'
    <3>1. /\ call[t].at = "unlock" /\ moduleMutex' = moduleMutex
          /\ slotMutex' = [slotMutex EXCEPT ![call[t].vendor] = Nothing]
      BY <2>6 DEF UnlockSlot
    <3>2. Others(t)
      BY <2>0, <2>6 DEF UnlockSlot
    <3>3. ASSUME NEW v \in Vendors, slotMutex'[v] # Nothing
          PROVE  call'[slotMutex'[v]].at \notin Outside /\ call'[slotMutex'[v]].vendor = v
      <4>1. slotMutex'[v] = slotMutex[v] /\ v # call[t].vendor
        BY <3>1, <3>3 DEF Inv, TypeOK
      <4>2. /\ slotMutex[v] \in Threads
            /\ call[slotMutex[v]].at \notin Outside /\ call[slotMutex[v]].vendor = v
        BY <3>3, <4>1 DEF Inv, TypeOK, HeldInv
      <4>3. slotMutex[v] # t
        BY <4>1, <4>2
      <4> QED BY <3>2, <4>1, <4>2, <4>3 DEF Others
    <3>4. ASSUME moduleMutex # Nothing PROVE call'[moduleMutex].at \in ModulePlaces
      <4>1. moduleMutex \in Threads /\ call[moduleMutex].at \in ModulePlaces
        BY <3>4 DEF Inv, TypeOK, HeldInv
      <4>2. moduleMutex # t
        BY <3>1, <4>1 DEF ModulePlaces
      <4> QED BY <3>2, <4>1, <4>2 DEF Others
    <3> QED BY <3>1, <3>3, <3>4 DEF HeldInv
  <2>7. ASSUME NEW t \in Threads, LockModule(t) \/ UnlockModule(t) PROVE HeldInv'
    <3>1. /\ call[t].at \in {"lock module", "unlock module"} /\ slotMutex' = slotMutex
          /\ \/ moduleMutex' = t /\ Goto(t, "find library")
             \/ /\ moduleMutex' = Nothing
                /\ \E place \in {"create", "unlock"} : Goto(t, place)
      BY <2>7 DEF LockModule, UnlockModule, At
    <3>2. /\ Others(t) /\ call'[t].at \notin Outside /\ call'[t].vendor = call[t].vendor
          /\ moduleMutex' = Nothing \/ (moduleMutex' = t /\ call'[t].at \in ModulePlaces)
      BY <2>0, <3>1 DEF Outside, ModulePlaces
    <3>3. ASSUME NEW v \in Vendors, slotMutex[v] # Nothing
          PROVE  call'[slotMutex[v]].at \notin Outside /\ call'[slotMutex[v]].vendor = v
      <4>1. /\ slotMutex[v] \in Threads
            /\ call[slotMutex[v]].at \notin Outside /\ call[slotMutex[v]].vendor = v
        BY <3>3 DEF Inv, TypeOK, HeldInv
      <4>2. CASE slotMutex[v] = t
        BY <3>2, <4>1, <4>2
      <4>3. CASE slotMutex[v] # t
        BY <3>2, <4>1, <4>3 DEF Others
      <4> QED BY <4>2, <4>3
    <3> QED BY <3>1, <3>2, <3>3 DEF HeldInv
  <2>8. ASSUME NEW t \in Threads, FindLibrary(t) \/ OpenLibrary(t) \/ CallEntry(t)
        PROVE  HeldInv'
    <3>1. \E place \in ModulePlaces : Goto(t, place) \/ \E outcome : End(t, place, outcome)
      <4>1. CASE FindLibrary(t)
        BY <4>1 DEF FindLibrary, ModulePlaces
      <4>2. CASE OpenLibrary(t)
        BY <4>2 DEF OpenLibrary, ModulePlaces
      <4>3. CASE CallEntry(t)
        BY <4>3 DEF CallEntry, ModulePlaces
      <4> QED BY <2>8, <4>1, <4>2, <4>3
    <3>2. UNCHANGED mutexes
      BY <2>8 DEF FindLibrary, OpenLibrary, CallEntry
    <3> QED BY <2>1, <3>1, <3>2 DEF ModulePlaces, Outside
  <2>9. ASSUME NEW t \in Threads, Others(t), UNCHANGED mutexes,
               call[t].at \notin ModulePlaces, call'[t].at \notin Outside,
               call'[t].vendor = call[t].vendor
        PROVE  HeldInv'
    BY <2>9, HeldFrame
  <2>10. ASSUME NEW t \in Threads,
                CreateInstance(t) \/ Publish(t) \/ EraseHandle(t) \/ TakeOut(t) \/ DeleteInstance(t)
         PROVE  HeldInv'
    <3>1. /\ call[t].at \in {"create", "publish", "erase", "take out", "delete"}
          /\ UNCHANGED mutexes
      BY <2>10 DEF CreateInstance, Publish, EraseHandle, TakeOut, DeleteInstance, At, mutexes
    <3>2. \/ \E place \in {"unlock", "clear", "take out", "flush"} :
               Goto(t, place) \/ \E outcome : End(t, place, outcome)
          \/ \E i \in Instances : call' = [call EXCEPT ![t].at = "devices", ![t].instance = i]
      <4>1. CASE CreateInstance(t)
        BY <4>1 DEF CreateInstance
      <4>2. CASE Publish(t)
        BY <4>2 DEF Publish
      <4>3. CASE EraseHandle(t)
        BY <4>3 DEF EraseHandle
      <4>4. CASE TakeOut(t) \/ DeleteInstance(t)
        BY <4>4 DEF TakeOut, DeleteInstance
      <4> QED BY <2>10, <4>1, <4>2, <4>3, <4>4
    <3>3. /\ Others(t) /\ call'[t].vendor = call[t].vendor
          /\ call'[t].at \in {"unlock", "devices", "clear", "take out", "flush"}
      <4>1. ASSUME NEW i, call' = [call EXCEPT ![t].at = "devices", ![t].instance = i]
            PROVE  /\ Others(t) /\ call'[t].vendor = call[t].vendor
                   /\ call'[t].at = "devices"
        BY <4>1 DEF Others, Inv, TypeOK
      <4> QED BY <3>2, <4>1, <2>0
    <3> QED BY <2>9, <3>1, <3>3 DEF Outside, ModulePlaces
  <2>11. ASSUME NEW t \in Threads,
                CreateDevice(t) \/ FlushDevice(t) \/ ShutdownDevice(t) \/ DestroyDevice(t)
         PROVE  HeldInv'
    <3>1. call[t].at \in {"devices", "flush", "shutdown", "clear"} /\ UNCHANGED mutexes
      BY <2>11 DEF CreateDevice, FlushDevice, ShutdownDevice, DestroyDevice, At
    <3>2. \/ \E after \in {"publish", "unlock", "shutdown", "clear", "delete"} : Loop(t, after)
          \/ call' = [call EXCEPT ![t].at = "clear", ![t].next = 1, ![t].outcome = "FAILED"]
      BY <2>11 DEF CreateDevice, FlushDevice, ShutdownDevice, DestroyDevice
    <3>3. CASE \E after \in {"publish", "unlock", "shutdown", "clear", "delete"} : Loop(t, after)
      <4>1. PICK after \in {"publish", "unlock", "shutdown", "clear", "delete"} : Loop(t, after)
        BY <3>3
      <4>2. /\ Others(t) /\ call'[t].vendor = call[t].vendor
            /\ call'[t].at \in {call[t].at, after}
        BY <4>1, LoopEffect DEF Inv, Moved, Others, Places
      <4> QED BY <2>9, <3>1, <4>2 DEF Outside, ModulePlaces
    <3>4. CASE call' = [call EXCEPT ![t].at = "clear", ![t].next = 1, ![t].outcome = "FAILED"]
      <4>1. /\ Others(t) /\ call'[t].vendor = call[t].vendor /\ call'[t].at = "clear"
        BY <3>4 DEF Others, Inv, TypeOK
      <4> QED BY <2>9, <3>1, <4>1 DEF Outside, ModulePlaces
    <3> QED BY <3>2, <3>3, <3>4
  <2>12. ASSUME NEW t \in Threads, Return(t) PROVE HeldInv'
    <3>1. call[t].at = "return" /\ UNCHANGED mutexes /\ Others(t)
      BY <2>12 DEF Return, Others, Inv, TypeOK
    <3> QED BY <3>1, HeldFrame DEF Outside, ModulePlaces
  <2>13. CASE UNCHANGED vars
    BY <2>13 DEF vars, mutexes, HeldInv
  <2> QED
    BY <2>2, <2>3, <2>4, <2>5, <2>6, <2>7, <2>8, <2>10, <2>11, <2>12, <2>13
    DEF Next, Step, InitStep, UseStep
<1> QED BY <1>1, <1>2, InvHolds, PTL DEF Spec

\* The guards of Step(t): thread t has a step to take in its call.
CanGoOn(t) ==
  \/ call[t].at \in {"find", "flush", "clear", "delete", "unlock", "return"}
  \/ call[t].op = "init" /\ call[t].at \in {"check", "find library", "open library",
       "call entry", "unlock module", "create", "devices", "publish"}
  \/ call[t].op = "destroy" /\ call[t].at \in {"erase", "take out", "shutdown"}
  \/ call[t].at = "lock" /\ call[t].op # "none" /\ slotMutex[call[t].vendor] = Nothing
  \/ At(t, "init", "lock module") /\ moduleMutex = Nothing

\* The owner of the mutex that a thread waits for.
Holder(t) == IF call[t].at = "lock" THEN slotMutex[call[t].vendor] ELSE moduleMutex

\* A call goes on, or waits for another that goes on, or for one that waits for a third,
\* which goes on: a slot's owner may be waiting for the module manager, but nobody who
\* has that waits for a slot.  There are no longer chains, and no cycles.
NobodyIsStuck ==
  \A t \in Threads : call[t].at = "idle" \/ CanGoOn(t) \/
    \E u \in Threads \ {t} :
      /\ Holder(t) = u
      /\ CanGoOn(u) \/ \E w \in Threads \ {t, u} : Holder(u) = w /\ CanGoOn(w)

\* Where a call that cannot go on may be.
LEMMA WaitsForMutex ==
  ASSUME Inv, NEW t \in Threads, call[t].at # "idle", ~ CanGoOn(t)
  PROVE  \/ /\ call[t].at = "lock" /\ call[t].vendor \in Vendors
            /\ slotMutex[call[t].vendor] \in Threads
         \/ call[t].at = "lock module" /\ moduleMutex \in Threads
<1>1. GoodCall(call[t]) /\ TypeOK /\ call[t].op \in {"none", "init", "flush", "destroy"}
  BY DEF Inv, ThreadOK, TypeOK
<1>2. CASE call[t].op = "init"
  <2>1. call[t].at \in {"lock", "lock module"}
    BY <1>1, <1>2 DEF GoodCall, InitPlaces, ModulePlaces, CanGoOn
  <2>2. CASE call[t].at = "lock"
    BY <1>1, <1>2, <2>2 DEF GoodCall, CanGoOn, TypeOK
  <2>3. CASE call[t].at = "lock module"
    BY <1>1, <1>2, <2>3 DEF CanGoOn, TypeOK, At
  <2> QED BY <2>1, <2>2, <2>3
<1>3. CASE call[t].op \in {"flush", "destroy"}
  <2>1. call[t].at = "lock"
    BY <1>1, <1>3 DEF GoodCall, FlushPlaces, DestroyPlaces, CanGoOn
  <2>2. call[t].vendor \in Vendors
    BY <2>1, HasVendor
  <2> QED BY <1>1, <1>3, <2>1, <2>2 DEF CanGoOn, TypeOK
<1>4. CASE call[t].op = "none"
  BY <1>1, <1>4 DEF GoodCall
<1> QED BY <1>1, <1>2, <1>3, <1>4

\* Who has the module manager, loads a library and asks for nothing else.
LEMMA ModuleOwnerGoesOn ==
  ASSUME Inv, HeldInv, moduleMutex \in Threads
  PROVE  CanGoOn(moduleMutex) /\ call[moduleMutex].at \in ModulePlaces
<1>1. call[moduleMutex].at \in ModulePlaces
  BY NullAssumption DEF HeldInv
<1>2. GoodCall(call[moduleMutex]) /\ call[moduleMutex].op \in {"none", "init", "flush", "destroy"}
  BY DEF Inv, ThreadOK, TypeOK
<1>3. call[moduleMutex].op = "init"
  BY <1>1, <1>2 DEF GoodCall, ModulePlaces, FlushPlaces, DestroyPlaces
<1> QED BY <1>1, <1>3 DEF CanGoOn, ModulePlaces

\* Who has a slot is past the lock.
LEMMA SlotOwnerIsInside ==
  ASSUME Inv, HeldInv, NEW v \in Vendors, slotMutex[v] \in Threads
  PROVE  call[slotMutex[v]].at \notin Outside
BY NullAssumption DEF HeldInv

LEMMA NobodyIsStuckNow == Inv /\ HeldInv => NobodyIsStuck
<1> SUFFICES ASSUME Inv, HeldInv, NEW t \in Threads, call[t].at # "idle", ~ CanGoOn(t)
             PROVE  \E u \in Threads \ {t} :
                      /\ Holder(t) = u
                      /\ CanGoOn(u) \/ \E w \in Threads \ {t, u} : Holder(u) = w /\ CanGoOn(w)
  BY DEF NobodyIsStuck
<1>1. CASE call[t].at = "lock module"
  <2>1. moduleMutex \in Threads /\ Holder(t) = moduleMutex
    BY <1>1, WaitsForMutex DEF Holder
  <2>2. CanGoOn(moduleMutex)
    BY <2>1, ModuleOwnerGoesOn
  <2> QED BY <2>1, <2>2
<1>2. CASE call[t].at = "lock"
  <2>1. /\ call[t].vendor \in Vendors /\ slotMutex[call[t].vendor] \in Threads
        /\ Holder(t) = slotMutex[call[t].vendor]
    BY <1>2, WaitsForMutex DEF Holder
  <2>2. PICK u \in Threads : u = slotMutex[call[t].vendor]
    BY <2>1
  <2>3. call[u].at \notin Outside
    BY <2>1, <2>2, SlotOwnerIsInside
  <2>4. u # t
    BY <1>2, <2>3 DEF Outside
  <2>5. CASE ~ CanGoOn(u)
    <3>1. call[u].at = "lock module" /\ moduleMutex \in Threads
      BY <2>3, <2>5, WaitsForMutex DEF Outside
    <3>2. CanGoOn(moduleMutex) /\ call[moduleMutex].at \in ModulePlaces
      BY <3>1, ModuleOwnerGoesOn
    <3>3. moduleMutex \in Threads \ {t, u} /\ Holder(u) = moduleMutex
      BY <1>2, <3>1, <3>2 DEF ModulePlaces, Holder
    <3> QED BY <2>1, <2>2, <2>4, <3>2, <3>3
  <2> QED BY <2>1, <2>2, <2>4, <2>5
<1> QED BY <1>1, <1>2, WaitsForMutex

\* Whoever owns a slot's mutex, or the module manager's, is a call that is between locking
\* and unlocking it: no path of init, flush and destroy, none of those that end in an error,
\* leaves one locked behind.
THEOREM MutexesAreReturned == Spec => []HeldInv
  BY HeldInductive

\* No order in which threads call init, flush and destroy leaves some of them waiting for
\* each other: the slot mutexes come before that of the module manager, a call takes one
\* slot, and the registry's own mutex is never held while another is asked for.  With the
\* scheduler's fairness this is why every call returns (CallsReturn, which TLC checks).
THEOREM NoDeadlock == Spec => []NobodyIsStuck
  BY InvHolds, HeldInductive, NobodyIsStuckNow, PTL
=============================================================================
