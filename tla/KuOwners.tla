-------------------------------- MODULE KuOwners --------------------------------
(***************************************************************************)
(* The owners of the Rust binding (kurt/src: ku_instance.rs, ku_arc.rs,    *)
(* ku_object.rs, ku_array.rs, ku_tensor.rs).  A KuInstance shares the      *)
(* native instance through an Arc.  A KuArc owns one intrusive reference   *)
(* of a native object and borrows, for the lifetime in its type, the       *)
(* KuInstance values that the object depends on.  The borrow checker is    *)
(* the guard ~Borrowed of whatever consumes a KuInstance, and Movable of   *)
(* whatever consumes a KuArc.                                              *)
(***************************************************************************)
EXTENDS Naturals, FiniteSets, Sequences

CONSTANTS
  Handles,   \* KuInstance values; each is used once
  Owners,    \* KuArc and OwnedRaw values
  Objects,   \* native objects
  Null,
  MaxItems   \* bound: the length of an array

ASSUME OwnersAssumption ==
  /\ IsFiniteSet(Handles) /\ IsFiniteSet(Owners) /\ IsFiniteSet(Objects)
  /\ Null \notin Objects /\ MaxItems \in Nat

VARIABLES
  alive,     \* ku_instance_init has succeeded and ku_instance_destroy not been called
  strong,    \* the strong count of Arc<InstanceInner>
  handle,    \* "none", "held", "refused" (close() found another owner) or how it ended
  kind,      \* what a native object is, "none" while there is none
  rc,        \* its intrusive reference count
  items,     \* the elements an array retains
  owned,     \* the object an owner holds a reference of, or Null
  borrows,   \* the KuInstance values that its lifetime borrows
  doomed,    \* the objects its drop has yet to destroy
  transfer,  \* "upload" or "download" while tensor_from_slice or to_vec runs
  task       \* the native copy of that call: "running", "done" or "failed"

instVars  == <<alive, strong, handle>>
objVars   == <<kind, rc, items>>
ownVars   == <<owned, borrows, doomed>>
callVars  == <<transfer, task>>
vars      == <<instVars, objVars, ownVars, callVars>>

Ended == {"Ok", "Error", "ResourcesInUse", "dropped"}

Init ==
  /\ alive = FALSE /\ strong = 0 /\ handle = [h \in Handles |-> "none"]
  /\ kind = [o \in Objects |-> "none"] /\ rc = [o \in Objects |-> 0]
  /\ items = [o \in Objects |-> <<>>]
  /\ owned = [r \in Owners |-> Null] /\ borrows = [r \in Owners |-> {}]
  /\ doomed = [r \in Owners |-> {}]
  /\ transfer = [r \in Owners |-> "none"] /\ task = [r \in Owners |-> "none"]

Borrowed(h) == \E r \in Owners : h \in borrows[r]
Unused(r)   == owned[r] = Null /\ doomed[r] = {}
Usable(r)   == owned[r] # Null /\ transfer[r] # "upload"
Movable(r)  == owned[r] # Null /\ transfer[r] = "none"

-----------------------------------------------------------------------------
(* KuInstance.                                                             *)

\* with_options: one instance of a vendor at a time.  When a later step fails,
\* the guard destroys the instance again, which leaves things as they were.
New(h) ==
  /\ handle[h] = "none" /\ ~alive
  /\ alive' = TRUE /\ strong' = 1 /\ handle' = [handle EXCEPT ![h] = "held"]
  /\ UNCHANGED <<objVars, ownVars, callVars>>

CloneHandle(h, k) ==
  /\ handle[h] = "held" /\ handle[k] = "none"
  /\ strong' = strong + 1 /\ handle' = [handle EXCEPT ![k] = "held"]
  /\ UNCHANGED <<alive, objVars, ownVars, callVars>>

\* Dropping the Arc of h: the last one runs InstanceInner::drop.
DropArc(h, how) ==
  /\ strong' = strong - 1
  /\ alive' = (alive /\ strong # 1)
  /\ handle' = [handle EXCEPT ![h] = how]

DropHandle(h) ==
  /\ handle[h] = "held" /\ ~Borrowed(h)
  /\ DropArc(h, "dropped")
  /\ UNCHANGED <<objVars, ownVars, callVars>>

\* close: Arc::try_unwrap succeeds for the only owner, who destroys the instance
\* and gets the status of that ...
CloseLast(h) ==
  /\ handle[h] = "held" /\ ~Borrowed(h) /\ strong = 1
  /\ \E status \in {"Ok", "Error"} : DropArc(h, status)
  /\ UNCHANGED <<objVars, ownVars, callVars>>

\* ... and gives the Arc back to anyone else ...
CloseRefused(h) ==
  /\ handle[h] = "held" /\ ~Borrowed(h) /\ strong # 1
  /\ handle' = [handle EXCEPT ![h] = "refused"]
  /\ UNCHANGED <<alive, strong, objVars, ownVars, callVars>>

\* Mutant of DropRefused: the Arc that try_unwrap gave back is forgotten.
ForgetRefused(h) ==
  /\ handle[h] = "refused"
  /\ handle' = [handle EXCEPT ![h] = "ResourcesInUse"]
  /\ UNCHANGED <<alive, strong, objVars, ownVars, callVars>>

\* ... who drops it afterwards.
DropRefused(h) ==
  /\ handle[h] = "refused"
  /\ DropArc(h, "ResourcesInUse")
  /\ UNCHANGED <<objVars, ownVars, callVars>>

-----------------------------------------------------------------------------
(* Native objects and their owners.                                        *)

Occurrences(s, o) == Cardinality({i \in DOMAIN s : s[i] = o})

Own(r, o, by) ==
  /\ owned' = [owned EXCEPT ![r] = o]
  /\ borrows' = [borrows EXCEPT ![r] = by]
  /\ UNCHANGED doomed

Create(o, what, elements) ==
  /\ kind[o] = "none"
  /\ kind' = [kind EXCEPT ![o] = what]
  /\ items' = [items EXCEPT ![o] = elements]
  /\ rc' = [x \in Objects |-> IF x = o THEN 1 ELSE rc[x] + Occurrences(elements, x)]

\* KuArc::<KuScalar>::new and those of strings and slices need no instance.
CreateLeaf(r, o) ==
  /\ Unused(r) /\ Create(o, "leaf", <<>>) /\ Own(r, o, {})
  /\ UNCHANGED <<instVars, callVars>>

\* KuArc::<KuArray>::new: one lifetime for the array and all its items.
CreateArray(r, o, sources) ==
  /\ Unused(r) /\ \A i \in DOMAIN sources : Usable(sources[i])
  /\ Create(o, "array", [i \in DOMAIN sources |-> owned[sources[i]]])
  /\ Own(r, o, UNION {borrows[sources[i]] : i \in DOMAIN sources})
  /\ UNCHANGED <<instVars, callVars>>

\* Mutant of GetElement: the element comes back with an unbounded lifetime.
GetStaticElement(r, q, i) ==
  /\ Usable(r) /\ Unused(q) /\ i \in DOMAIN items[owned[r]]
  /\ LET o == items[owned[r]][i]
     IN  rc' = [rc EXCEPT ![o] = @ + 1] /\ Own(q, o, {})
  /\ UNCHANGED <<kind, items, instVars, callVars>>

\* KuArray::get: the element borrows what the array borrows, not the array.
GetElement(r, q, i) ==
  /\ Usable(r) /\ Unused(q) /\ i \in DOMAIN items[owned[r]]
  /\ LET o == items[owned[r]][i]
     IN  rc' = [rc EXCEPT ![o] = @ + 1] /\ Own(q, o, borrows[r])
  /\ UNCHANGED <<kind, items, instVars, callVars>>

\* Mutant of Clone: the view is copied and nothing retained.
CopyView(r, q) ==
  /\ Usable(r) /\ Unused(q)
  /\ Own(q, owned[r], borrows[r])
  /\ UNCHANGED <<objVars, instVars, callVars>>

\* KuArc::retain.
Clone(r, q) ==
  /\ Usable(r) /\ Unused(q)
  /\ rc' = [rc EXCEPT ![owned[r]] = @ + 1] /\ Own(q, owned[r], borrows[r])
  /\ UNCHANGED <<kind, items, instVars, callVars>>

\* TryFrom<KuArc<KuObject>>: only a value with no dependency on the runtime sheds
\* its lifetime; the other conversions hand the reference on as it is.
Downcast(r) ==
  /\ Movable(r) /\ kind[owned[r]] = "leaf"
  /\ borrows' = [borrows EXCEPT ![r] = {}]
  /\ UNCHANGED <<owned, doomed, objVars, instVars, callVars>>

\* ku_object_release of the reference of r: the last one destroys the object
\* before the call returns, so that the borrow lasts until then.
Release(r) ==
  LET o == owned[r]
  IN  /\ rc' = [rc EXCEPT ![o] = @ - 1]
      /\ owned' = [owned EXCEPT ![r] = Null]
      /\ doomed' = [doomed EXCEPT ![r] = IF rc[o] = 1 THEN {o} ELSE {}]
      /\ borrows' = [borrows EXCEPT ![r] = IF rc[o] = 1 THEN @ ELSE {}]
      /\ UNCHANGED <<kind, items>>

\* A drop, the failed TryFrom's included.
Drop(r) == Movable(r) /\ Release(r) /\ UNCHANGED <<instVars, callVars>>

\* The destruction of an object releases its elements.
Reclaim(r, o) ==
  /\ o \in doomed[r]
  /\ rc' = [x \in Objects |-> rc[x] - Occurrences(items[o], x)]
  /\ kind' = [kind EXCEPT ![o] = "none"]
  /\ items' = [items EXCEPT ![o] = <<>>]
  /\ LET left == (doomed[r] \ {o}) \cup {x \in Objects : rc[x] > 0 /\ rc'[x] = 0}
     IN  /\ doomed' = [doomed EXCEPT ![r] = left]
         /\ borrows' = [borrows EXCEPT ![r] = IF left = {} THEN {} ELSE @]
  /\ UNCHANGED <<owned, instVars, callVars>>

-----------------------------------------------------------------------------
(* Transfers with a host buffer, each guarded by a TransferWait.           *)

Submit(r, what) ==
  /\ transfer' = [transfer EXCEPT ![r] = what]
  /\ task' = [task EXCEPT ![r] = "running"]

Return(r) ==
  /\ transfer' = [transfer EXCEPT ![r] = "none"]
  /\ task' = [task EXCEPT ![r] = "none"]

\* tensor_from_slice, when ku_tensor_create_from_host_async accepts it.  The
\* tensor has an owner that is not published yet.
Upload(r, o, h) ==
  /\ Unused(r) /\ handle[h] = "held"
  /\ Create(o, "tensor", <<>>) /\ Own(r, o, {h}) /\ Submit(r, "upload")
  /\ UNCHANGED instVars

\* to_vec: the tensor and its device are borrowed until the call returns.
Download(r) ==
  /\ Movable(r) /\ kind[owned[r]] = "tensor"
  /\ Submit(r, "download")
  /\ UNCHANGED <<instVars, objVars, ownVars>>

\* The native side ends the copy.
TaskEnds(r) ==
  /\ task[r] = "running"
  /\ \E end \in {"done", "failed"} : task' = [task EXCEPT ![r] = end]
  /\ UNCHANGED <<transfer, instVars, objVars, ownVars>>

\* TransferWait::wait returns once the copy has ended.  A tensor whose upload
\* failed is released, any other result is handed to the caller.
Waited(r) ==
  /\ task[r] \in {"done", "failed"} /\ Return(r)
  /\ IF transfer[r] = "upload" /\ task[r] = "failed" THEN Release(r)
     ELSE UNCHANGED <<objVars, ownVars>>
  /\ UNCHANGED instVars

-----------------------------------------------------------------------------
HandleStep ==
  \E h \in Handles :
    \/ New(h) \/ DropHandle(h) \/ CloseLast(h) \/ CloseRefused(h) \/ DropRefused(h)
    \/ \E k \in Handles : CloneHandle(h, k)

ObjectStep ==
  \E r \in Owners :
    \/ Downcast(r) \/ Drop(r)
    \/ \E o \in Objects : CreateLeaf(r, o) \/ Reclaim(r, o)
    \/ \E o \in Objects, n \in 0..MaxItems : \E sources \in [1..n -> Owners] : CreateArray(r, o, sources)
    \/ \E q \in Owners : Clone(r, q) \/ \E i \in 1..MaxItems : GetElement(r, q, i)

TransferStep ==
  \E r \in Owners :
    \/ Download(r) \/ TaskEnds(r) \/ Waited(r)
    \/ \E o \in Objects, h \in Handles : Upload(r, o, h)

Next == HandleStep \/ ObjectStep \/ TransferStep

\* A call that has begun goes on; the program that holds the values may stop.
Fairness ==
  /\ \A h \in Handles : WF_vars(DropRefused(h))
  /\ \A r \in Owners : WF_vars(TaskEnds(r)) /\ WF_vars(Waited(r))
  /\ \A r \in Owners, o \in Objects : WF_vars(Reclaim(r, o))

Spec == Init /\ [][Next]_vars /\ Fairness

-----------------------------------------------------------------------------
\* The instance lives exactly as long as somebody has a KuInstance, the refused
\* close() that has not let go of its own included, and so is destroyed once.
HandlesKeepInstance == alive <=> \E h \in Handles : handle[h] \in {"held", "refused"}

\* Nothing outlives what it needs: no tensor the instance, no reference its
\* object, no copy the tensor it reads or fills.
NothingDangles ==
  /\ \A o \in Objects : kind[o] = "tensor" => alive
  /\ \A r \in Owners : owned[r] # Null => kind[owned[r]] # "none"
  /\ \A o \in Objects : \A i \in DOMAIN items[o] : kind[items[o][i]] # "none"
  /\ \A r \in Owners : task[r] = "running" => owned[r] # Null /\ kind[owned[r]] = "tensor"

\* An object has as many references as owners and arrays that count on it, and
\* one without any is being destroyed, by one thread.
ReferencesAccounted ==
  \A o \in Objects :
    /\ rc[o] = Cardinality({r \in Owners : owned[r] = o})
               + Cardinality({e \in Objects \X (1..MaxItems) :
                                e[2] \in DOMAIN items[e[1]] /\ items[e[1]][e[2]] = o})
    /\ Cardinality({r \in Owners : o \in doomed[r]}) = IF kind[o] # "none" /\ rc[o] = 0 THEN 1 ELSE 0

\* Once nobody holds a KuInstance any more, the instance is destroyed.
GivenUpIsDestroyed ==
  (\A h \in Handles : handle[h] # "held") ~> (~alive \/ \E h \in Handles : handle[h] = "held")

\* close() "Explicitly closes the last instance owner and reports shutdown errors":
\* when every KuInstance was closed, one of the callers has the status of the
\* shutdown.
LastCloserIsTold ==
  ~alive /\ (\A h \in Handles : handle[h] # "dropped")
    => \/ \A h \in Handles : handle[h] = "none"
       \/ \E h \in Handles : handle[h] \in {"Ok", "Error"}
=============================================================================
