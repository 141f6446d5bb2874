------------------------------ MODULE KuCall_proofs ------------------------------
(***************************************************************************)
(* Proofs about KuCall for every set of objects and every bound: a call    *)
(* neither leaks nor over-releases a reference, however it ends, and       *)
(* releases nothing the device is at work on, unless the flush failed.     *)
(***************************************************************************)
EXTENDS KuCall, FiniteSetTheorems, SequenceTheorems, TLAPS

Values == Objects \cup {Null}

CallTypes ==
  /\ pc \in {"idle", "frame", "returned", "flushed", "decoding"}
  /\ args \in Seq(Values) /\ slots \in Seq(Values) /\ decoded \in Seq(Values)
  /\ frame \in [status : Statuses \cup {"none"}, count : Nat]
  /\ work \in SUBSET Objects /\ left \in SUBSET Objects
  /\ rc \in [Objects -> Int] /\ held \in [Objects -> Nat]

\* Where each variable is empty; above all, the slots hold no reference when a
\* callee starts, which is what lets it overwrite them.
Phases ==
  /\ pc = "idle" => args = <<>> /\ slots = <<>>
  /\ pc # "decoding" => decoded = <<>>
  /\ pc # "returned" => work \subseteq left
  /\ pc = "decoding" \/ (pc = "flushed" /\ flush = "ok") => work = {}
  /\ pc = "frame" \/ frame.status = "small" => \A i \in DOMAIN slots : slots[i] = Null
  /\ pc = "decoding" => frame.status = "ok" /\ frame.count <= Len(slots)

\* What a failed flush has not left behind is work on arguments, which the program
\* owns, and on stored results.
WorkIsOwned ==
  /\ \A o \in work \ left : o \in ObjectsIn(args) \/ o \in ObjectsIn(slots)
  /\ \A o \in ObjectsIn(args) : held[o] > 0

CallInv == CallTypes /\ Phases /\ WorkIsOwned /\ ReferencesOwned

-----------------------------------------------------------------------------
(* Counting an object in a sequence.                                       *)

\* The positions of an object in a sequence are finitely many.
LEMMA InSeqNat ==
  ASSUME NEW s \in Seq(Values), NEW o
  PROVE  IsFiniteSet({i \in DOMAIN s : s[i] = o}) /\ InSeq(s, o) \in Nat
<1>1. IsFiniteSet(1..Len(s)) /\ DOMAIN s = 1..Len(s)
  BY FS_Interval
<1>2. {i \in DOMAIN s : s[i] = o} \subseteq DOMAIN s
  OBVIOUS
<1> QED BY <1>1, <1>2, FS_Subset, FS_CardinalityType DEF InSeq

\* An object is counted exactly where it occurs.
LEMMA InSeqPositive ==
  ASSUME NEW s \in Seq(Values), NEW o \in Objects
  PROVE  InSeq(s, o) > 0 <=> o \in ObjectsIn(s)
<1>1. InSeq(s, o) \in Nat /\ IsFiniteSet({i \in DOMAIN s : s[i] = o})
  BY InSeqNat
<1>2. InSeq(s, o) = 0 <=> {i \in DOMAIN s : s[i] = o} = {}
  BY <1>1, FS_EmptySet DEF InSeq
<1>3. {i \in DOMAIN s : s[i] = o} = {} <=> o \notin ObjectsIn(s)
  BY DEF ObjectsIn
<1>4. InSeq(s, o) > 0 <=> InSeq(s, o) # 0
  BY <1>1
<1> QED BY <1>2, <1>3, <1>4

\* The empty sequence and one of Null have no object.
LEMMA InSeqNone ==
  ASSUME NEW s \in Seq(Values), \A i \in DOMAIN s : s[i] = Null, NEW o \in Objects
  PROVE  InSeq(s, o) = 0
<1>1. o # Null
  BY CallAssumption
<1>2. {i \in DOMAIN s : s[i] = o} = {}
  BY <1>1
<1> QED BY <1>2, FS_EmptySet DEF InSeq

\* The empty sequence has none.
LEMMA InSeqEmpty == \A o \in Objects : InSeq(<<>>, o) = 0
<1>1. <<>> \in Seq(Values) /\ \A i \in DOMAIN <<>> : <<>>[i] = Null
  BY EmptySeq
<1> QED BY <1>1, InSeqNone

\* Emptying a slot takes its object out of the count.
LEMMA InSeqClear ==
  ASSUME NEW s \in Seq(Values), NEW k \in DOMAIN s, NEW o \in Objects
  PROVE  InSeq([s EXCEPT ![k] = Null], o) = IF s[k] = o THEN InSeq(s, o) - 1 ELSE InSeq(s, o)
<1> DEFINE At(q) == {i \in DOMAIN q : q[i] = o}
<1>1. IsFiniteSet(At(s))
  BY InSeqNat
<1>2. o # Null
  BY CallAssumption
<1>3. At([s EXCEPT ![k] = Null]) = At(s) \ {k}
  BY <1>2
<1>4. Cardinality(At(s) \ {k}) = IF k \in At(s) THEN Cardinality(At(s)) - 1 ELSE Cardinality(At(s))
  BY <1>1, FS_RemoveElement
<1>5. k \in At(s) <=> s[k] = o
  OBVIOUS
<1> HIDE DEF At
<1>6. Cardinality(At([s EXCEPT ![k] = Null])) = IF s[k] = o THEN Cardinality(At(s)) - 1 ELSE Cardinality(At(s))
  BY <1>3, <1>4, <1>5
<1> QED BY <1>6 DEF InSeq, At

\* Appending a value counts it.
LEMMA InSeqAppend ==
  ASSUME NEW d \in Seq(Values), NEW v \in Values, NEW o \in Objects
  PROVE  InSeq(Append(d, v), o) = IF v = o THEN InSeq(d, o) + 1 ELSE InSeq(d, o)
<1> DEFINE At(q) == {i \in DOMAIN q : q[i] = o}
           n == Len(d) + 1
<1>1. IsFiniteSet(At(d))
  BY InSeqNat
<1>2. /\ DOMAIN Append(d, v) = DOMAIN d \cup {n} /\ n \notin DOMAIN d
      /\ Append(d, v)[n] = v /\ \A i \in DOMAIN d : Append(d, v)[i] = d[i]
  BY AppendProperties
<1>3. At(Append(d, v)) = IF v = o THEN At(d) \cup {n} ELSE At(d)
  BY <1>2
<1>4. n \notin At(d)
  BY <1>2
<1>5. Cardinality(At(d) \cup {n}) = Cardinality(At(d)) + 1
  BY <1>1, <1>4, FS_AddElement
<1> HIDE DEF At, n
<1>6. Cardinality(At(Append(d, v))) = IF v = o THEN Cardinality(At(d)) + 1 ELSE Cardinality(At(d))
  BY <1>3, <1>5
<1> QED BY <1>6 DEF InSeq, At

\* Taking the value of a slot moves its reference to the end of another sequence.
LEMMA InSeqTake ==
  ASSUME NEW s \in Seq(Values), NEW d \in Seq(Values), NEW k \in DOMAIN s, NEW o \in Objects
  PROVE  InSeq([s EXCEPT ![k] = Null], o) + InSeq(Append(d, s[k]), o) = InSeq(s, o) + InSeq(d, o)
<1>1. s[k] \in Values
  OBVIOUS
<1>2. InSeq([s EXCEPT ![k] = Null], o) = IF s[k] = o THEN InSeq(s, o) - 1 ELSE InSeq(s, o)
  BY InSeqClear
<1>3. InSeq(Append(d, s[k]), o) = IF s[k] = o THEN InSeq(d, o) + 1 ELSE InSeq(d, o)
  BY <1>1, InSeqAppend
<1>4. InSeq(s, o) \in Nat /\ InSeq(d, o) \in Nat
  BY InSeqNat
<1> QED BY <1>2, <1>3, <1>4

-----------------------------------------------------------------------------
(* The steps.                                                              *)

\* A call that ends with an error gives every reference of its own back.
LEMMA FailStep == ASSUME CallInv, Fail, pc # "returned" PROVE CallInv'
<1>1. \A o \in Objects : rc[o] \in Int /\ held[o] \in Nat /\ InSeq(slots, o) \in Nat /\ InSeq(decoded, o) \in Nat
  BY InSeqNat DEF CallInv, CallTypes
<1>2. \A o \in Objects : InSeq(<<>>, o) = 0
  BY InSeqEmpty
<1>3. ReferencesOwned'
  <2> SUFFICES ASSUME NEW o \in Objects
               PROVE  rc'[o] = held'[o] + InSeq(slots', o) + InSeq(decoded', o)
    BY DEF ReferencesOwned, InSeq
  <2>1. rc'[o] = rc[o] - InSeq(slots, o) - InSeq(decoded, o) /\ held'[o] = held[o]
    BY DEF Fail
  <2>2. InSeq(slots', o) = 0 /\ InSeq(decoded', o) = 0
    BY <1>2 DEF Fail, Idle
  <2>3. rc[o] = held[o] + InSeq(slots, o) + InSeq(decoded, o)
    BY DEF CallInv, ReferencesOwned
  <2> QED BY <1>1, <2>1, <2>2, <2>3
<1>4. CallTypes'
  BY <1>1, EmptySeq DEF CallInv, CallTypes, Fail, Idle, NoFrame
<1>5. Phases' /\ WorkIsOwned'
  <2>1. /\ args' = <<>> /\ slots' = <<>> /\ decoded' = <<>> /\ pc' = "idle"
        /\ frame'.status = "none"
    BY DEF Fail, Idle, NoFrame
  <2>2. work' \subseteq left'
    BY DEF CallInv, Phases, Fail
  <2> QED BY <2>1, <2>2 DEF Phases, WorkIsOwned, ObjectsIn
<1> QED BY <1>3, <1>4, <1>5 DEF CallInv

\* The program only drops an owner that no argument borrows.
LEMMA ProgramStep ==
  ASSUME CallInv, NEW o \in Objects, Acquire(o) \/ DropOwner(o)
  PROVE  CallInv'
<1>1. \A x \in Objects : InSeq(slots, x) \in Nat /\ InSeq(decoded, x) \in Nat
  BY InSeqNat DEF CallInv, CallTypes
<1>2. /\ held[o] \in Nat /\ rc[o] \in Int /\ \A x \in Objects : rc[x] \in Int /\ held[x] \in Nat
      /\ rc \in [Objects -> Int] /\ held \in [Objects -> Nat]
      /\ \A x \in Objects : rc[x] = held[x] + InSeq(slots, x) + InSeq(decoded, x)
      /\ \A x \in ObjectsIn(args) : held[x] > 0
  BY DEF CallInv, CallTypes, WorkIsOwned, ReferencesOwned
<1>3. PICK d \in Int :
        /\ rc' = [rc EXCEPT ![o] = @ + d] /\ held' = [held EXCEPT ![o] = @ + d]
        /\ held[o] + d \in Nat /\ (o \in ObjectsIn(args) => held[o] + d > 0)
  <2>1. CASE Acquire(o)
    <3>1. held[o] + 1 \in Nat /\ held[o] + 1 > 0
      BY <1>2
    <3>2. rc' = [rc EXCEPT ![o] = @ + 1] /\ held' = [held EXCEPT ![o] = @ + 1]
      BY <2>1 DEF Acquire
    <3> WITNESS 1 \in Int
    <3> QED BY <3>1, <3>2
  <2>2. CASE DropOwner(o)
    <3>1. held[o] + (-1) \in Nat /\ (o \in ObjectsIn(args) => held[o] + (-1) > 0)
      BY <1>2, <2>2 DEF DropOwner
    <3>2. rc[o] - 1 = rc[o] + (-1) /\ held[o] - 1 = held[o] + (-1)
      BY <1>2
    <3>3. rc' = [rc EXCEPT ![o] = @ + (-1)] /\ held' = [held EXCEPT ![o] = @ + (-1)]
      BY <2>2, <3>2, Zenon DEF DropOwner
    <3> WITNESS -1 \in Int
    <3> QED BY <3>1, <3>3
  <2> QED BY <2>1, <2>2
<1>4. UNCHANGED <<pc, args, slots, decoded, frame, flush, work, left>>
  BY DEF Acquire, DropOwner
<1>5. \A x \in Objects : /\ rc'[x] \in Int /\ held'[x] \in Nat
                         /\ rc'[x] - held'[x] = rc[x] - held[x]
                         /\ x \in ObjectsIn(args) => held'[x] > 0
  <2> SUFFICES ASSUME NEW x \in Objects
               PROVE  /\ rc'[x] \in Int /\ held'[x] \in Nat /\ rc'[x] - held'[x] = rc[x] - held[x]
                      /\ x \in ObjectsIn(args) => held'[x] > 0
    OBVIOUS
  <2>1. CASE x = o
    <3>1. rc'[x] = rc[o] + d /\ held'[x] = held[o] + d
      BY <1>2, <1>3, <2>1
    <3> QED BY <1>2, <1>3, <2>1, <3>1
  <2>2. CASE x # o
    <3>1. rc'[x] = rc[x] /\ held'[x] = held[x]
      BY <1>2, <1>3, <2>2
    <3> QED BY <1>2, <3>1
  <2> QED BY <2>1, <2>2
<1>6. CallTypes'
  <2>1. rc' \in [Objects -> Int] /\ held' \in [Objects -> Nat]
    BY <1>2, <1>3, <1>5
  <2> QED BY <1>4, <2>1 DEF CallInv, CallTypes
<1>7. ReferencesOwned'
  <2> SUFFICES ASSUME NEW x \in Objects
               PROVE  rc'[x] = held'[x] + InSeq(slots, x) + InSeq(decoded, x)
    BY <1>4 DEF ReferencesOwned, InSeq
  <2> QED BY <1>1, <1>2, <1>5
<1>8. Phases'
  BY <1>4 DEF CallInv, Phases
<1>9. WorkIsOwned'
  BY <1>4, <1>5 DEF CallInv, WorkIsOwned, ObjectsIn
<1> QED BY <1>6, <1>7, <1>8, <1>9 DEF CallInv

\* The device ends work of any call.
LEMMA WorkStep == ASSUME CallInv, NEW o \in Objects, WorkEnds(o) PROVE CallInv'
<1>1. /\ work' = work \ {o} /\ left' = left \ {o}
      /\ UNCHANGED <<pc, args, slots, decoded, frame, flush, rc, held>>
  BY DEF WorkEnds
<1>2. CallTypes' /\ Phases'
  BY <1>1 DEF CallInv, CallTypes, Phases
<1>3. WorkIsOwned' /\ ReferencesOwned'
  BY <1>1 DEF CallInv, WorkIsOwned, ReferencesOwned, ObjectsIn, InSeq
<1> QED BY <1>2, <1>3 DEF CallInv

\* The frame starts with one empty slot.
LEMMA CallStep == ASSUME CallInv, NEW arguments \in Arguments, Call(arguments) PROVE CallInv'
<1>1. arguments \in Seq(Values) /\ <<Null>> \in Seq(Values)
  BY CallAssumption DEF Arguments, Values
<1>2. \A o \in Objects : InSeq(<<Null>>, o) = 0 /\ InSeq(<<>>, o) = 0
  <2>1. \A i \in DOMAIN <<Null>> : <<Null>>[i] = Null
    OBVIOUS
  <2> QED BY <1>1, <2>1, InSeqNone, InSeqEmpty
<1>3. CallTypes'
  BY <1>1 DEF CallInv, CallTypes, Call
<1>4. ReferencesOwned'
  BY <1>2 DEF CallInv, Phases, ReferencesOwned, Call
<1>5. Phases' /\ WorkIsOwned'
  BY DEF CallInv, Phases, WorkIsOwned, ObjectsIn, Call
<1> QED BY <1>3, <1>4, <1>5 DEF CallInv

\* The slots are empty when the callee stores its results in them.
LEMMA CalleeStep ==
  ASSUME CallInv, NEW status \in Statuses, NEW count \in 0..MaxResults,
         NEW stored \in [DOMAIN slots -> Values], Callee(status, count, stored)
  PROVE  CallInv'
<1>1. stored \in Seq(Values) /\ frame' \in [status : Statuses \cup {"none"}, count : Nat]
  <2>1. DOMAIN slots = 1..Len(slots) /\ Len(slots) \in Nat
    BY DEF CallInv, CallTypes
  <2> QED BY <2>1 DEF Callee
<1>2. \A o \in Objects : InSeq(slots, o) = 0 /\ InSeq(stored, o) \in Nat
  BY <1>1, InSeqNone, InSeqNat DEF CallInv, CallTypes, Phases, Callee
<1>3. \A o \in Objects : InSeq(decoded, o) = 0
  BY InSeqEmpty DEF CallInv, Phases, Callee
<1>4. CallTypes'
  BY <1>1, <1>2 DEF CallInv, CallTypes, Callee, ObjectsIn
<1>5. ReferencesOwned'
  BY <1>2, <1>3 DEF CallInv, CallTypes, ReferencesOwned, Callee
<1>6. Phases'
  BY DEF CallInv, CallTypes, Phases, Callee
<1>7. WorkIsOwned'
  BY DEF CallInv, Phases, WorkIsOwned, ObjectsIn, Callee
<1> QED BY <1>4, <1>5, <1>6, <1>7 DEF CallInv

\* A retry finds only empty slots and adds more.
LEMMA RetryStep == ASSUME CallInv, Retry PROVE CallInv'
<1>1. frame.count \in Nat /\ slots \in Seq(Values) /\ \A i \in DOMAIN slots : slots[i] = Null
  BY DEF CallInv, CallTypes, Phases, Retry, TooFewSlots
<1>2. slots' \in Seq(Values) /\ \A i \in DOMAIN slots' : slots'[i] = Null
  BY <1>1 DEF Retry, Resize, Values
<1>3. \A o \in Objects : InSeq(slots, o) = 0 /\ InSeq(slots', o) = 0
  BY <1>1, <1>2, InSeqNone
<1>4. CallTypes'
  BY <1>2 DEF CallInv, CallTypes, Retry, NoFrame
<1>5. ReferencesOwned'
  BY <1>3 DEF CallInv, ReferencesOwned, Retry
<1>6. Phases'
  BY <1>2 DEF CallInv, Phases, Retry, NoFrame
<1>7. WorkIsOwned'
  BY DEF CallInv, Phases, WorkIsOwned, ObjectsIn, Retry
<1> QED BY <1>4, <1>5, <1>6, <1>7 DEF CallInv

\* Decoding moves a reference from its slot to the decoded values.
LEMMA DecodeStep == ASSUME CallInv, Decode PROVE CallInv'
<1>1. NextSlot \in DOMAIN slots /\ slots[NextSlot] \in Values
  BY DEF CallInv, CallTypes, Phases, Decode, NextSlot
<1>2. \A o \in Objects : InSeq(slots', o) + InSeq(decoded', o) = InSeq(slots, o) + InSeq(decoded, o)
  <2> TAKE o \in Objects
  <2>1. slots \in Seq(Values) /\ decoded \in Seq(Values)
    BY DEF CallInv, CallTypes
  <2>2. slots' = [slots EXCEPT ![NextSlot] = Null] /\ decoded' = Append(decoded, slots[NextSlot])
    BY DEF Decode
  <2> HIDE DEF NextSlot
  <2>3. InSeq([slots EXCEPT ![NextSlot] = Null], o) + InSeq(Append(decoded, slots[NextSlot]), o)
          = InSeq(slots, o) + InSeq(decoded, o)
    BY <1>1, <2>1, InSeqTake
  <2> QED BY <2>2, <2>3
<1>3. slots' \in Seq(Values) /\ Len(slots') = Len(slots)
  BY <1>1, ExceptSeq DEF CallInv, CallTypes, Decode, Values
<1>4. decoded' \in Seq(Values)
  BY <1>1, AppendProperties DEF CallInv, CallTypes, Decode
<1>5. CallTypes'
  BY <1>3, <1>4 DEF CallInv, CallTypes, Decode
<1>6. ReferencesOwned'
  <2> SUFFICES ASSUME NEW o \in Objects
               PROVE  rc'[o] = held'[o] + InSeq(slots', o) + InSeq(decoded', o)
    BY DEF ReferencesOwned, InSeq
  <2>1. /\ InSeq(slots, o) \in Nat /\ InSeq(decoded, o) \in Nat
        /\ InSeq(slots', o) \in Nat /\ InSeq(decoded', o) \in Nat
    BY <1>3, <1>4, InSeqNat DEF CallInv, CallTypes
  <2>2. rc'[o] = rc[o] /\ held'[o] = held[o] /\ held[o] \in Nat
        /\ rc[o] = held[o] + InSeq(slots, o) + InSeq(decoded, o)
    BY DEF CallInv, CallTypes, ReferencesOwned, Decode
  <2> QED BY <1>2, <2>1, <2>2
<1>7. Phases'
  BY <1>3 DEF CallInv, CallTypes, Phases, Decode
<1>8. WorkIsOwned'
  BY DEF CallInv, Phases, WorkIsOwned, ObjectsIn, Decode
<1> QED BY <1>5, <1>6, <1>7, <1>8 DEF CallInv

\* The decoded values become the program's, what is left in the slots goes.
LEMMA FinishStep == ASSUME CallInv, Finish PROVE CallInv'
<1>1. \A o \in Objects : InSeq(slots, o) \in Nat /\ InSeq(decoded, o) \in Nat
  BY InSeqNat DEF CallInv, CallTypes
<1>2. \A o \in Objects : InSeq(<<>>, o) = 0
  BY InSeqEmpty
<1>3. CallTypes'
  BY <1>1, EmptySeq DEF CallInv, CallTypes, Finish, Idle, NoFrame
<1>4. ReferencesOwned'
  BY <1>1, <1>2 DEF CallInv, CallTypes, ReferencesOwned, Finish, Idle
<1>5. Phases' /\ WorkIsOwned'
  BY DEF CallInv, Phases, WorkIsOwned, ObjectsIn, Finish, Idle, NoFrame
<1> QED BY <1>3, <1>4, <1>5 DEF CallInv

\* The invariant is inductive.
LEMMA CallInvStep == CallInv /\ [Next]_vars => CallInv'
<1> SUFFICES ASSUME CallInv, [Next]_vars PROVE CallInv'
  OBVIOUS
<1>1. CASE CalleeReturns
  BY <1>1, CalleeStep DEF CalleeReturns, Values
<1>2. CASE Flush
  <2>1. CallTypes' /\ Phases' /\ WorkIsOwned'
    BY <1>2 DEF CallInv, CallTypes, Phases, WorkIsOwned, ObjectsIn, Flush
  <2> QED BY <1>2, <2>1 DEF CallInv, ReferencesOwned, Flush
<1>3. CASE Reject \/ DecodeFails
  BY <1>3, FailStep DEF Reject, DecodeFails, CallInv, Phases
<1>4. CASE Accept
  <2>1. CallTypes' /\ Phases' /\ WorkIsOwned'
    BY <1>4 DEF CallInv, CallTypes, Phases, WorkIsOwned, ObjectsIn, Accept
  <2> QED BY <1>4, <2>1 DEF CallInv, ReferencesOwned, Accept
<1>5. CASE UNCHANGED vars
  <2>1. CallTypes' /\ Phases' /\ WorkIsOwned'
    BY <1>5 DEF CallInv, CallTypes, Phases, WorkIsOwned, ObjectsIn, vars
  <2>2. ReferencesOwned'
    BY <1>5 DEF CallInv, ReferencesOwned, InSeq, vars
  <2> QED BY <2>1, <2>2 DEF CallInv
<1> QED BY <1>1, <1>2, <1>3, <1>4, <1>5, ProgramStep, WorkStep, CallStep, RetryStep, DecodeStep, FinishStep DEF Next

\* A program begins without objects and without a call.
LEMMA CallInvInit == Init => CallInv
<1> SUFFICES ASSUME Init PROVE CallInv
  OBVIOUS
<1>1. \A o \in Objects : InSeq(<<>>, o) = 0
  BY InSeqEmpty
<1>2. CallTypes
  BY EmptySeq DEF Init, CallTypes, NoFrame
<1>3. Phases /\ WorkIsOwned
  BY DEF Init, Phases, WorkIsOwned, ObjectsIn, NoFrame
<1>4. ReferencesOwned
  BY <1>1 DEF Init, ReferencesOwned
<1> QED BY <1>2, <1>3, <1>4 DEF CallInv

-----------------------------------------------------------------------------
\* Every reference has exactly one owner, whatever the callee reports and stores,
\* however often the call is retried and whichever way it ends.
THEOREM CallOwnsReferences == Spec => []ReferencesOwned
<1>1. CallInv => ReferencesOwned
  BY DEF CallInv
<1> QED BY <1>1, CallInvInit, CallInvStep, PTL DEF Spec

\* The device never works on a released object, nor after the flush, but for what a
\* failed flush has left it at work on; and results are decoded only when it is idle.
THEOREM CallOutlivesWork == Spec => []WorkOutlived
<1>1. CallInv => WorkOutlived
  <2> SUFFICES ASSUME CallInv PROVE WorkOutlived
    OBVIOUS
  <2>1. ASSUME NEW o \in work \ left PROVE rc[o] > 0
    <3>1. o \in Objects
      BY <2>1 DEF CallInv, CallTypes
    <3>2. /\ InSeq(slots, o) \in Nat /\ InSeq(decoded, o) \in Nat /\ held[o] \in Nat
          /\ rc[o] = held[o] + InSeq(slots, o) + InSeq(decoded, o)
      BY <3>1, InSeqNat DEF CallInv, CallTypes, ReferencesOwned
    <3>3. held[o] > 0 \/ InSeq(slots, o) > 0
      BY <2>1, <3>1, InSeqPositive DEF CallInv, CallTypes, WorkIsOwned
    <3> QED BY <3>2, <3>3
  <2> QED BY <2>1 DEF CallInv, Phases, WorkOutlived
<1> QED BY <1>1, CallInvInit, CallInvStep, PTL DEF Spec
=============================================================================
