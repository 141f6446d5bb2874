--------------------------------- MODULE KuCall ---------------------------------
(***************************************************************************)
(* A call of a builtin from Rust (kurt/src/ku_c_call.rs): the frame, the   *)
(* slots the callee stores its results in, the retry with more of them,    *)
(* the flush before anything is released, and the decoding of the results. *)
(* The callee is external: it reports success, a shortage of slots or an   *)
(* error, with any count and, unless it found the slots too few before it  *)
(* ran, with references in any of them.  The device is external too: it    *)
(* works on arguments and results until it is done, which a flush waits    *)
(* for unless it fails.                                                    *)
(***************************************************************************)
EXTENDS Naturals, FiniteSets, Sequences

CONSTANTS
  Objects,     \* native objects
  Unknown,     \* those of a kind that KuObjectKind does not have
  Null,
  MaxResults,  \* bound: the count a callee reports
  MaxRefs,     \* bound: the owners of an object when a call begins
  MaxArgs      \* bound: the arguments of a call

ASSUME CallAssumption ==
  /\ IsFiniteSet(Objects) /\ Unknown \subseteq Objects /\ Null \notin Objects
  /\ MaxResults \in Nat \ {0} /\ MaxRefs \in Nat \ {0} /\ MaxArgs \in Nat

VARIABLES
  pc,       \* "idle", "frame" (built), "returned", "flushed" or "decoding"
  args,     \* argv: objects and Null
  slots,    \* outputs.raw
  decoded,  \* the values decoded so far
  frame,    \* what the callee reported: status and result_count
  flush,    \* what the flush said: "none", "ok" or "failed"
  work,     \* the objects that the device works on for this call and those before it
  left,     \* history: those of them that a failed flush has not waited for
  rc,       \* the references of each object
  held      \* how many of them the program owns outside of the call

vars == <<pc, args, slots, decoded, frame, flush, work, left, rc, held>>

NoFrame == [status |-> "none", count |-> 0]
Statuses == {"ok", "small", "error"}
Idle == /\ pc' = "idle" /\ args' = <<>> /\ slots' = <<>> /\ decoded' = <<>>
        /\ frame' = NoFrame /\ flush' = "none"

Init ==
  /\ pc = "idle" /\ args = <<>> /\ slots = <<>> /\ decoded = <<>>
  /\ frame = NoFrame /\ flush = "none" /\ work = {} /\ left = {}
  /\ rc = [o \in Objects |-> 0] /\ held = [o \in Objects |-> 0]

InSeq(s, o) == Cardinality({i \in DOMAIN s : s[i] = o})
ObjectsIn(s) == {o \in Objects : \E i \in DOMAIN s : s[i] = o}

\* The program creates an object or clones an owner, and drops one: not the owner
\* that an argument borrows.
Acquire(o) ==
  /\ held[o] < MaxRefs
  /\ rc' = [rc EXCEPT ![o] = @ + 1] /\ held' = [held EXCEPT ![o] = @ + 1]
  /\ UNCHANGED <<pc, args, slots, decoded, frame, flush, work, left>>

DropOwner(o) ==
  /\ held[o] > (IF o \in ObjectsIn(args) THEN 1 ELSE 0)
  /\ rc' = [rc EXCEPT ![o] = @ - 1] /\ held' = [held EXCEPT ![o] = @ - 1]
  /\ UNCHANGED <<pc, args, slots, decoded, frame, flush, work, left>>

\* call_unchecked of a context of the same instance, which begins with one slot.
\* A callable of another instance, or of an unknown kind, is refused before any
\* slot is filled.
Call(arguments) ==
  /\ pc = "idle" /\ \A o \in Objects : held[o] <= MaxRefs
  /\ \A o \in ObjectsIn(arguments) : held[o] > 0
  /\ pc' = "frame" /\ args' = arguments /\ slots' = <<Null>>
  /\ UNCHANGED <<decoded, frame, flush, work, left, rc, held>>

\* The callee.  It owns none of its arguments: what it stores it retains first.
Callee(status, count, stored) ==
  /\ pc = "frame" /\ pc' = "returned"
  /\ frame' = [status |-> status, count |-> count]
  /\ IF status = "small" THEN UNCHANGED <<slots, rc, work, left>>
     ELSE /\ slots' = stored
          /\ rc' = [o \in Objects |-> rc[o] + InSeq(stored, o)]
          /\ work' = work \cup ObjectsIn(args) \cup ObjectsIn(stored)
          /\ left' = left \ (ObjectsIn(args) \cup ObjectsIn(stored))
  /\ UNCHANGED <<args, decoded, flush, held>>

\* The device is done with an object, waited for or not.
WorkEnds(o) ==
  /\ o \in work /\ work' = work \ {o} /\ left' = left \ {o}
  /\ UNCHANGED <<pc, args, slots, decoded, frame, flush, rc, held>>

\* Mutant of Flush: an error of the callee is returned without waiting.
FlushAfterSuccess ==
  /\ pc = "returned" /\ pc' = "flushed"
  /\ \/ flush' = "ok" /\ work' = (IF frame.status = "error" THEN work ELSE {}) /\ left' = {}
     \/ flush' = "failed" /\ left' = work /\ UNCHANGED work
  /\ UNCHANGED <<args, slots, decoded, frame, rc, held>>

\* context.device.flush(), after a failure of the callee too.  KuDevice::synchronize may
\* fail before it waits, when the device cannot be selected: what the device was doing
\* may then go on, which is why KuDevice::shutdown abandons its stream and pool.
Flush ==
  /\ pc = "returned" /\ pc' = "flushed"
  /\ \/ flush' = "ok" /\ work' = {} /\ left' = {}
     \/ flush' = "failed" /\ left' = work /\ UNCHANGED work
  /\ UNCHANGED <<args, slots, decoded, frame, rc, held>>

\* The references that Outputs and decoded own go when the call returns an error.
Fail ==
  /\ rc' = [o \in Objects |-> rc[o] - InSeq(slots, o) - InSeq(decoded, o)]
  /\ Idle /\ UNCHANGED <<work, left, held>>

\* Mutant of TooFewSlots: the count is not compared with the slots there are.
AnyShortage == frame.status = "small"

TooFewSlots == frame.status = "small" /\ frame.count > Len(slots)

\* Vec::resize keeps what is in the first slots.
Resize(s, n) == [i \in 1..n |-> IF i \in DOMAIN s THEN s[i] ELSE Null]

Retry ==
  /\ pc = "flushed" /\ TooFewSlots /\ flush = "ok"
  /\ pc' = "frame" /\ slots' = Resize(slots, frame.count)
  /\ frame' = NoFrame /\ flush' = "none"
  /\ UNCHANGED <<args, decoded, work, left, rc, held>>

Reject ==
  /\ pc = "flushed"
  /\ \/ flush = "failed"
     \/ frame.status # "ok" /\ ~TooFewSlots
     \/ frame.status = "ok" /\ frame.count > Len(slots)
  /\ Fail

Accept ==
  /\ pc = "flushed" /\ flush = "ok" /\ frame.status = "ok" /\ frame.count <= Len(slots)
  /\ pc' = "decoding"
  /\ UNCHANGED <<args, slots, decoded, frame, flush, work, left, rc, held>>

NextSlot == Len(decoded) + 1

\* Mutant of Decode: the slot keeps the reference that the value now owns.
DecodeCopy ==
  /\ pc = "decoding" /\ NextSlot <= frame.count /\ slots[NextSlot] \notin Unknown
  /\ decoded' = Append(decoded, slots[NextSlot])
  /\ UNCHANGED <<pc, args, slots, frame, flush, work, left, rc, held>>

\* One result: its slot gives the reference up before it is classified.
Decode ==
  /\ pc = "decoding" /\ NextSlot <= frame.count /\ slots[NextSlot] \notin Unknown
  /\ slots' = [slots EXCEPT ![NextSlot] = Null]
  /\ decoded' = Append(decoded, slots[NextSlot])
  /\ UNCHANGED <<pc, args, frame, flush, work, left, rc, held>>

\* Error::TypeMismatch: OwnedRaw releases this one, decoded those before it and
\* Outputs the rest.
DecodeFails ==
  /\ pc = "decoding" /\ NextSlot <= frame.count /\ slots[NextSlot] \in Unknown
  /\ Fail

\* The caller gets the decoded values; Outputs releases what was stored beyond
\* the count.
Finish ==
  /\ pc = "decoding" /\ NextSlot > frame.count
  /\ held' = [o \in Objects |-> held[o] + InSeq(decoded, o)]
  /\ rc' = [o \in Objects |-> rc[o] - InSeq(slots, o)]
  /\ Idle /\ UNCHANGED <<work, left>>

Arguments == UNION {[1..n -> Objects \cup {Null}] : n \in 0..MaxArgs}

CalleeReturns ==
  \E status \in Statuses, count \in 0..MaxResults :
    \E stored \in [DOMAIN slots -> Objects \cup {Null}] : Callee(status, count, stored)

Next ==
  \/ \E o \in Objects : Acquire(o) \/ DropOwner(o) \/ WorkEnds(o)
  \/ \E arguments \in Arguments : Call(arguments)
  \/ CalleeReturns \/ Flush \/ Retry \/ Reject \/ Accept \/ Decode \/ DecodeFails \/ Finish

\* A callee returns, and so does the flush.  The device need not be done with anything.
Fairness ==
  /\ WF_vars(CalleeReturns) /\ WF_vars(Flush) /\ WF_vars(Retry) /\ WF_vars(Reject)
  /\ WF_vars(Accept) /\ WF_vars(Decode) /\ WF_vars(DecodeFails) /\ WF_vars(Finish)

Spec == Init /\ [][Next]_vars /\ Fairness

-----------------------------------------------------------------------------
\* Every reference has one owner: the program, a slot or a decoded value.  None
\* leaks and none is released twice, whichever way the call ends.
ReferencesOwned ==
  \A o \in Objects : rc[o] = held[o] + InSeq(slots, o) + InSeq(decoded, o)

\* The device is never at work on an object that has been released, an argument or a
\* result, and not at all once the call has been flushed: but for what a failed flush
\* has not waited for, which the call reports as an error and releases all the same.
\* Results are handed out only when the device has finished that, too.
WorkOutlived ==
  /\ \A o \in work \ left : rc[o] > 0
  /\ pc # "returned" => work \subseteq left
  /\ pc = "decoding" => work = {}

\* A call returns, however often the callee asks for more slots.
CallReturns == pc = "frame" ~> pc = "idle"
=============================================================================
