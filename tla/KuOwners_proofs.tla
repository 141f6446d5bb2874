----------------------------- MODULE KuOwners_proofs -----------------------------
(***************************************************************************)
(* Proofs about KuOwners for every set of KuInstance values, owners and    *)
(* objects: the native instance lives exactly as long as somebody has a    *)
(* KuInstance (InstanceOwnership), reference counts are exact whatever the *)
(* nesting of arrays (CountsAreExact), and nothing outlives what it needs  *)
(* (OwnersAreSafe), which rests on the lifetimes alone.                    *)
(***************************************************************************)
EXTENDS KuOwners, FiniteSetTheorems, TLAPS

\* The KuInstance values whose Arc has not been dropped.
Counted == {h \in Handles : handle[h] \in {"held", "refused"}}

\* The strong count is how many there are, and InstanceInner::drop runs at zero.
HandleInv ==
  /\ handle \in [Handles -> {"none", "held", "refused"} \cup Ended]
  /\ alive \in BOOLEAN
  /\ strong = Cardinality(Counted)
  /\ alive <=> strong # 0

\* Counted is a finite set, so that its cardinality is a number.
LEMMA CountedFinite ==
  /\ IsFiniteSet(Counted)
  /\ Cardinality(Counted) \in Nat
  BY FS_Subset, FS_CardinalityType, OwnersAssumption DEF Counted

\* Whichever way an Arc is dropped, the count goes down by one and the last one
\* destroys the instance.
LEMMA DropKeepsCount ==
  ASSUME HandleInv, NEW h \in Counted, NEW how \in Ended, DropArc(h, how)
  PROVE  HandleInv'
<1>1. Counted' = Counted \ {h}
  BY DEF HandleInv, Counted, DropArc, Ended
<1>2. Cardinality(Counted') = Cardinality(Counted) - 1
  BY <1>1, CountedFinite, FS_RemoveElement
<1>3. handle' \in [Handles -> {"none", "held", "refused"} \cup Ended]
  BY DEF HandleInv, DropArc
<1>4. strong' = Cardinality(Counted')
  BY <1>2 DEF HandleInv, DropArc
<1>5. strong \in Nat /\ strong # 0
  BY CountedFinite, FS_EmptySet DEF HandleInv
<1>6. strong' # 0 <=> strong # 1
  BY <1>5 DEF DropArc
<1>7. alive' <=> strong # 1
  BY <1>5, Zenon DEF HandleInv, DropArc
<1>8. alive' \in BOOLEAN
  BY Zenon DEF DropArc
<1> QED BY <1>3, <1>4, <1>6, <1>7, <1>8, Zenon DEF HandleInv

\* A KuInstance that comes into being is one more.
LEMMA HoldAddsOne ==
  ASSUME HandleInv, NEW h \in Handles, handle[h] = "none",
         handle' = [handle EXCEPT ![h] = "held"]
  PROVE  Cardinality(Counted') = Cardinality(Counted) + 1
<1>1. Counted' = Counted \cup {h} /\ h \notin Counted
  BY DEF HandleInv, Counted
<1> QED BY <1>1, CountedFinite, FS_AddElement

\* The invariant is inductive.
LEMMA HandleInvStep == HandleInv /\ [Next]_vars => HandleInv'
<1> SUFFICES ASSUME HandleInv, [Next]_vars PROVE HandleInv'
  OBVIOUS
<1>1. ASSUME UNCHANGED instVars PROVE HandleInv'
  BY <1>1 DEF HandleInv, Counted, instVars
<1>2. ASSUME NEW h \in Handles, New(h) PROVE HandleInv'
  <2>1. Cardinality(Counted') = Cardinality(Counted) + 1
    BY <1>2, HoldAddsOne DEF New
  <2> QED BY <1>2, <2>1, CountedFinite DEF HandleInv, New
<1>3. ASSUME NEW h \in Handles, NEW k \in Handles, CloneHandle(h, k) PROVE HandleInv'
  <2>1. Cardinality(Counted') = Cardinality(Counted) + 1
    BY <1>3, HoldAddsOne DEF CloneHandle
  <2>2. strong # 0
    <3>1. h \in Counted
      BY <1>3 DEF CloneHandle, Counted
    <3> QED BY <3>1, CountedFinite, FS_EmptySet DEF HandleInv
  <2> QED BY <1>3, <2>1, <2>2, CountedFinite DEF HandleInv, CloneHandle
<1>4. ASSUME NEW h \in Handles, DropHandle(h) PROVE HandleInv'
  BY <1>4, DropKeepsCount DEF DropHandle, Counted, Ended
<1>5. ASSUME NEW h \in Handles, CloseLast(h) PROVE HandleInv'
  BY <1>5, DropKeepsCount DEF CloseLast, Counted, Ended
<1>6. ASSUME NEW h \in Handles, DropRefused(h) PROVE HandleInv'
  BY <1>6, DropKeepsCount DEF DropRefused, Counted, Ended
<1>7. ASSUME NEW h \in Handles, CloseRefused(h) PROVE HandleInv'
  <2>1. Counted' = Counted
    BY <1>7 DEF CloseRefused, HandleInv, Counted
  <2> QED BY <1>7, <2>1 DEF CloseRefused, HandleInv
<1>8. CASE ObjectStep
  BY <1>1, <1>8 DEF ObjectStep, Downcast, Drop, CreateLeaf, Reclaim, CreateArray, Clone, GetElement
<1>9. CASE TransferStep
  BY <1>1, <1>9 DEF TransferStep, Download, TaskEnds, Waited, Upload
<1>10. CASE UNCHANGED vars
  BY <1>1, <1>10 DEF vars
<1> QED BY <1>2, <1>3, <1>4, <1>5, <1>6, <1>7, <1>8, <1>9, <1>10 DEF Next, HandleStep

LEMMA HandleInvInit == Init => HandleInv
<1> SUFFICES ASSUME Init PROVE HandleInv
  OBVIOUS
<1>1. Counted = {}
  BY DEF Init, Counted
<1> QED BY <1>1, FS_EmptySet DEF Init, HandleInv

\* The instance is destroyed when the last KuInstance goes and not before, for any
\* number of them and any order of close, refused close and drop.
THEOREM InstanceOwnership == Spec => []HandlesKeepInstance
<1>1. HandleInv => HandlesKeepInstance
  BY CountedFinite, FS_EmptySet DEF HandleInv, HandlesKeepInstance, Counted
<1> QED BY <1>1, HandleInvInit, HandleInvStep, PTL DEF Spec

-----------------------------------------------------------------------------
(* The references of the native objects.                                   *)

Kinds     == {"leaf", "array", "tensor"}
ItemLists == UNION {[1..n -> Objects] : n \in 0..MaxItems}

ObjectsType ==
  /\ kind \in [Objects -> Kinds \cup {"none"}]
  /\ rc \in [Objects -> Nat]
  /\ items \in [Objects -> ItemLists]
  /\ owned \in [Owners -> Objects \cup {Null}]
  /\ borrows \in [Owners -> SUBSET Handles]
  /\ doomed \in [Owners -> SUBSET Objects]

\* Who counts on an object: owners, and slots of arrays.
Holders(o) == {r \in Owners : owned[r] = o}
Slots(o)   == {e \in Objects \X (1..MaxItems) :
                 e[2] \in DOMAIN items[e[1]] /\ items[e[1]][e[2]] = o}

\* The slots that an object o with the elements s has for x.
SlotsIn(o, s, x) == {e \in Objects \X (1..MaxItems) : e[1] = o /\ e[2] \in DOMAIN s /\ s[e[2]] = x}

CountInv == \A o \in Objects : rc[o] = Cardinality(Holders(o)) + Cardinality(Slots(o))

\* Where there is no object, nothing is left of the one that was there.
GoneInv ==
  \A o \in Objects : /\ kind[o] = "none" => rc[o] = 0
                     /\ kind[o] # "array" => items[o] = <<>>

\* An object without references is in the hands of the one thread that destroys it.
DoomInv ==
  /\ \A r \in Owners : \A o \in doomed[r] : kind[o] # "none" /\ rc[o] = 0
  /\ \A o \in Objects : kind[o] # "none" /\ rc[o] = 0 => \E r \in Owners : o \in doomed[r]
  /\ \A r, q \in Owners : doomed[r] \cap doomed[q] # {} => r = q
  /\ \A r \in Owners : owned[r] # Null => doomed[r] = {}

\* No array contains itself: among any objects there is one that none of them has
\* as an element.
AcyclicInv ==
  \A T \in (SUBSET Objects) \ {{}} :
    \E a \in T : \A b \in T : \A i \in DOMAIN items[b] : items[b][i] # a

RefInv == ObjectsType /\ CountInv /\ GoneInv /\ DoomInv /\ AcyclicInv

\* Every set whose size is counted is finite.
LEMMA CountsAreNumbers ==
  ASSUME ObjectsType, NEW o \in Objects
  PROVE  /\ IsFiniteSet(Holders(o)) /\ Cardinality(Holders(o)) \in Nat
         /\ IsFiniteSet(Slots(o)) /\ Cardinality(Slots(o)) \in Nat
<1>1. IsFiniteSet(1..MaxItems)
  BY FS_Interval, OwnersAssumption
<1>2. IsFiniteSet(Objects \X (1..MaxItems))
  BY <1>1, FS_Product, OwnersAssumption
<1>3. Holders(o) \in SUBSET Owners /\ Slots(o) \in SUBSET (Objects \X (1..MaxItems))
  BY DEF Holders, Slots
<1>4. IsFiniteSet(Holders(o)) /\ IsFiniteSet(Slots(o))
  BY <1>2, <1>3, FS_Subset, OwnersAssumption
<1> QED BY <1>4, FS_CardinalityType

\* What a list of elements looks like.
LEMMA ItemListShape ==
  ASSUME NEW s \in ItemLists
  PROVE  /\ DOMAIN s \subseteq 1..MaxItems
         /\ \A i \in DOMAIN s : s[i] \in Objects
<1>1. PICK n \in 0..MaxItems : s \in [1..n -> Objects]
  BY DEF ItemLists
<1> QED BY <1>1, OwnersAssumption

LEMMA EmptyList == <<>> \in ItemLists /\ DOMAIN <<>> = {}
<1>1. <<>> \in [1..0 -> Objects]
  OBVIOUS
<1>2. 0 \in 0..MaxItems
  BY OwnersAssumption
<1> QED BY <1>1, <1>2 DEF ItemLists

\* An array has as many slots for x as x occurs among its elements.
LEMMA OccurrencesAreSlots ==
  ASSUME NEW s \in ItemLists, NEW o \in Objects, NEW x \in Objects
  PROVE  /\ IsFiniteSet(SlotsIn(o, s, x))
         /\ Cardinality(SlotsIn(o, s, x)) = Occurrences(s, x)
         /\ Occurrences(s, x) \in Nat
<1> DEFINE I == {i \in DOMAIN s : s[i] = x}
<1>1. IsFiniteSet(1..MaxItems) /\ I \in SUBSET (1..MaxItems)
  BY FS_Interval, ItemListShape, OwnersAssumption
<1>2. IsFiniteSet(I)
  BY <1>1, FS_Subset
<1>3. Cardinality(I) \in Nat
  BY <1>2, FS_CardinalityType
<1>4. SlotsIn(o, s, x) = {o} \X I
  BY ItemListShape DEF SlotsIn
<1>5. IsFiniteSet({o}) /\ Cardinality({o}) = 1
  BY FS_Singleton
<1>6. IsFiniteSet({o} \X I) /\ Cardinality({o} \X I) = 1 * Cardinality(I)
  BY <1>2, <1>5, FS_Product
<1> QED BY <1>3, <1>4, <1>6 DEF Occurrences

\* No reference, no owner and no slot.
LEMMA Unreferenced ==
  ASSUME RefInv, NEW o \in Objects, rc[o] = 0
  PROVE  Holders(o) = {} /\ Slots(o) = {}
<1>1. Cardinality(Holders(o)) = 0 /\ Cardinality(Slots(o)) = 0
  BY CountsAreNumbers DEF RefInv, CountInv
<1> QED BY <1>1, CountsAreNumbers, FS_EmptySet DEF RefInv

\* Whatever an owner or an array counts on is there.
LEMMA ReferencedExists ==
  ASSUME RefInv
  PROVE  /\ \A r \in Owners : owned[r] # Null =>
              owned[r] \in Objects /\ rc[owned[r]] # 0 /\ kind[owned[r]] # "none"
         /\ \A a \in Objects : \A i \in DOMAIN items[a] :
              items[a][i] \in Objects /\ rc[items[a][i]] # 0 /\ kind[items[a][i]] # "none"
<1>1. ASSUME NEW r \in Owners, owned[r] # Null
      PROVE  owned[r] \in Objects /\ rc[owned[r]] # 0 /\ kind[owned[r]] # "none"
  <2>1. PICK o \in Objects : o = owned[r]
    BY <1>1 DEF RefInv, ObjectsType
  <2>2. r \in Holders(o)
    BY <2>1 DEF Holders
  <2> QED BY <2>1, <2>2, Unreferenced DEF RefInv, GoneInv
<1>2. ASSUME NEW a \in Objects, NEW i \in DOMAIN items[a]
      PROVE  items[a][i] \in Objects /\ rc[items[a][i]] # 0 /\ kind[items[a][i]] # "none"
  <2>1. items[a] \in ItemLists
    BY DEF RefInv, ObjectsType
  <2>2. i \in 1..MaxItems /\ items[a][i] \in Objects
    BY <2>1, ItemListShape
  <2>3. PICK o \in Objects : o = items[a][i]
    BY <2>2
  <2>4. <<a, i>> \in Slots(o)
    BY <2>2, <2>3 DEF Slots
  <2> QED BY <2>3, <2>4, Unreferenced DEF RefInv, GoneInv
<1> QED BY <1>1, <1>2


\* A new object has one owner; the elements it was given, if it is an array, have
\* one more slot each.
LEMMA CreateKeepsRefs ==
  ASSUME RefInv, NEW r \in Owners, NEW o \in Objects, NEW what \in Kinds,
         NEW s \in ItemLists, NEW by \in SUBSET Handles,
         what # "array" => s = <<>>,
         \A i \in DOMAIN s : rc[s[i]] # 0,
         Unused(r), Create(o, what, s), Own(r, o, by)
  PROVE  RefInv'
<1>1. /\ kind[o] = "none" /\ rc[o] = 0 /\ items[o] = <<>>
      /\ Holders(o) = {} /\ Slots(o) = {}
  BY Unreferenced DEF Create, RefInv, GoneInv
<1>2. \A i \in DOMAIN s : s[i] \in Objects \ {o}
  BY <1>1, ItemListShape
<1>3. \A x \in Objects : items'[x] = IF x = o THEN s ELSE items[x]
  BY DEF Create, RefInv, ObjectsType
<1>4. \A q \in Owners : owned'[q] = IF q = r THEN o ELSE owned[q]
  BY DEF Own, RefInv, ObjectsType
<1>5. \A x \in Objects : rc'[x] = IF x = o THEN 1 ELSE rc[x] + Occurrences(s, x)
  BY DEF Create
<1>6. \A x \in Objects : Occurrences(s, x) \in Nat
  BY OccurrencesAreSlots
<1>7. ObjectsType'
  BY <1>5, <1>6 DEF Create, Own, RefInv, ObjectsType
<1>8. ASSUME NEW x \in Objects, x # o
      PROVE  rc'[x] = Cardinality(Holders(x)') + Cardinality(Slots(x)')
  <2>1. Holders(x)' = Holders(x)
    BY <1>4, <1>8, OwnersAssumption DEF Holders, Unused
  <2>2. Slots(x)' = Slots(x) \cup SlotsIn(o, s, x)
    BY <1>1, <1>3, EmptyList DEF Slots, SlotsIn
  <2>3. Slots(x) \cap SlotsIn(o, s, x) = {}
    BY <1>1, EmptyList DEF Slots, SlotsIn
  <2>4. Cardinality(Slots(x)') = Cardinality(Slots(x)) + Occurrences(s, x)
    <3>1. /\ IsFiniteSet(Slots(x)) /\ Cardinality(Slots(x)) \in Nat
          /\ IsFiniteSet(SlotsIn(o, s, x))
          /\ Cardinality(SlotsIn(o, s, x)) = Occurrences(s, x)
      BY CountsAreNumbers, OccurrencesAreSlots DEF RefInv
    <3>2. Cardinality(Slots(x) \cup SlotsIn(o, s, x))
            = Cardinality(Slots(x)) + Occurrences(s, x) - Cardinality({})
      BY <2>3, <3>1, FS_Union
    <3> QED BY <1>6, <2>2, <3>1, <3>2, FS_EmptySet
  <2>5. rc[x] = Cardinality(Holders(x)) + Cardinality(Slots(x))
    BY DEF RefInv, CountInv
  <2>6. Cardinality(Holders(x)) \in Nat /\ Cardinality(Slots(x)) \in Nat
    BY CountsAreNumbers DEF RefInv
  <2> QED BY <1>5, <1>6, <1>8, <2>1, <2>4, <2>5, <2>6
<1>9. rc'[o] = Cardinality(Holders(o)') + Cardinality(Slots(o)')
  <2>1. Holders(o)' = {r}
    BY <1>1, <1>4 DEF Holders
  <2>2. Slots(o)' = {}
    BY <1>1, <1>2, <1>3 DEF Slots
  <2>3. Cardinality({r}) = 1 /\ Cardinality({}) = 0
    BY FS_EmptySet, FS_Singleton
  <2> QED BY <1>5, <2>1, <2>2, <2>3
<1>10. CountInv'
  BY <1>8, <1>9 DEF CountInv
<1>11. \A x \in Objects : kind'[x] = IF x = o THEN what ELSE kind[x]
  BY DEF Create, RefInv, ObjectsType
<1>12. ASSUME NEW x \in Objects, x # o PROVE rc'[x] = 0 <=> rc[x] = 0
  <2>1. ASSUME rc[x] = 0 PROVE Occurrences(s, x) = 0
    <3>1. {i \in DOMAIN s : s[i] = x} = {}
      BY <2>1
    <3> QED BY <3>1, FS_EmptySet DEF Occurrences
  <2>2. rc[x] \in Nat
    BY DEF RefInv, ObjectsType
  <2> QED BY <1>5, <1>6, <1>12, <2>1, <2>2
<1>13. GoneInv'
  <2>1. ASSUME NEW x \in Objects
        PROVE  (kind[x] = "none" => rc[x] = 0) /\ (kind[x] # "array" => items[x] = <<>>)
    BY DEF RefInv, GoneInv
  <2> QED BY <1>3, <1>11, <1>12, <2>1 DEF GoneInv, Kinds
<1>14. DoomInv'
  <2>1. doomed' = doomed
    BY DEF Own
  <2>2. rc'[o] = 1 /\ kind'[o] # "none"
    BY <1>5, <1>11 DEF Kinds
  <2>3. \A q \in Owners : doomed[q] \subseteq Objects \ {o}
    BY <1>1 DEF RefInv, DoomInv, ObjectsType
  <2>4. \A q \in Owners : \A x \in doomed'[q] : kind'[x] # "none" /\ rc'[x] = 0
    BY <1>11, <1>12, <2>1, <2>3 DEF RefInv, DoomInv
  <2>5. \A x \in Objects : kind'[x] # "none" /\ rc'[x] = 0 => \E q \in Owners : x \in doomed'[q]
    BY <1>11, <1>12, <2>1, <2>2 DEF RefInv, DoomInv
  <2>6. \A q \in Owners : owned'[q] # Null => doomed'[q] = {}
    BY <1>4, <2>1 DEF RefInv, DoomInv, Unused
  <2> QED BY <2>1, <2>4, <2>5, <2>6 DEF RefInv, DoomInv
<1>15. AcyclicInv'
  <2> SUFFICES ASSUME NEW T \in (SUBSET Objects) \ {{}}
               PROVE  \E a \in T : \A b \in T : \A i \in DOMAIN items'[b] : items'[b][i] # a
    BY DEF AcyclicInv
  <2>1. CASE o \in T
    <3>1. ASSUME NEW b \in T, NEW i \in DOMAIN items'[b] PROVE items'[b][i] # o
      <4>1. CASE b = o
        BY <1>2, <1>3, <4>1
      <4>2. CASE b # o
        BY <1>3, <3>1, <4>2, <1>1, ReferencedExists
      <4> QED BY <4>1, <4>2
    <3> QED BY <2>1, <3>1
  <2>2. CASE o \notin T
    <3>1. PICK a \in T : \A b \in T : \A i \in DOMAIN items[b] : items[b][i] # a
      BY DEF RefInv, AcyclicInv
    <3>2. \A b \in T : items'[b] = items[b]
      BY <1>3, <2>2
    <3> QED BY <3>1, <3>2
  <2> QED BY <2>1, <2>2
<1> QED BY <1>7, <1>10, <1>13, <1>14, <1>15 DEF RefInv


\* What does not touch an array, or only lets elements go, keeps arrays acyclic.
LEMMA FewerElements ==
  ASSUME AcyclicInv,
         \A b \in Objects : \A i \in DOMAIN items'[b] :
           i \in DOMAIN items[b] /\ items'[b][i] = items[b][i]
  PROVE  AcyclicInv'
<1> SUFFICES ASSUME NEW T \in (SUBSET Objects) \ {{}}
             PROVE  \E a \in T : \A b \in T : \A i \in DOMAIN items'[b] : items'[b][i] # a
  BY DEF AcyclicInv
<1>1. PICK a \in T : \A b \in T : \A i \in DOMAIN items[b] : items[b][i] # a
  BY DEF AcyclicInv
<1> QED BY <1>1

\* A second owner of an object is one reference more.
LEMMA RetainKeepsRefs ==
  ASSUME RefInv, NEW q \in Owners, NEW o \in Objects, NEW by \in SUBSET Handles,
         rc[o] # 0, Unused(q),
         rc' = [rc EXCEPT ![o] = @ + 1], Own(q, o, by), UNCHANGED <<kind, items>>
  PROVE  RefInv'
<1>1. \A p \in Owners : owned'[p] = IF p = q THEN o ELSE owned[p]
  BY DEF Own, RefInv, ObjectsType
<1>2. \A x \in Objects : rc[x] \in Nat /\ rc'[x] = IF x = o THEN rc[x] + 1 ELSE rc[x]
  BY DEF RefInv, ObjectsType
<1>3. ObjectsType'
  BY DEF Own, RefInv, ObjectsType
<1>4. ASSUME NEW x \in Objects
      PROVE  rc'[x] = Cardinality(Holders(x)') + Cardinality(Slots(x)')
  <2>1. Slots(x)' = Slots(x)
    BY DEF Slots
  <2>2. Holders(x)' = IF x = o THEN Holders(x) \cup {q} ELSE Holders(x)
    BY <1>1, OwnersAssumption DEF Holders, Unused
  <2>3. q \notin Holders(x)
    BY OwnersAssumption DEF Holders, Unused
  <2>4. /\ IsFiniteSet(Holders(x)) /\ Cardinality(Holders(x)) \in Nat
        /\ Cardinality(Slots(x)) \in Nat
    BY CountsAreNumbers DEF RefInv
  <2>5. Cardinality(Holders(x) \cup {q}) = Cardinality(Holders(x)) + 1
    BY <2>3, <2>4, FS_AddElement
  <2>6. rc[x] = Cardinality(Holders(x)) + Cardinality(Slots(x))
    BY DEF RefInv, CountInv
  <2> QED BY <1>2, <2>1, <2>2, <2>4, <2>5, <2>6
<1>5. \A x \in Objects : rc'[x] = 0 <=> rc[x] = 0
  BY <1>2
<1>6. GoneInv'
  BY <1>5 DEF RefInv, GoneInv
<1>7. DoomInv'
  <2>1. doomed' = doomed /\ kind' = kind
    BY DEF Own
  <2>2. \A p \in Owners : doomed[p] \subseteq Objects
    BY DEF RefInv, ObjectsType
  <2>3. \A p \in Owners : owned'[p] # Null => doomed'[p] = {}
    BY <1>1, <2>1 DEF RefInv, DoomInv, Unused
  <2> QED BY <1>5, <2>1, <2>2, <2>3 DEF RefInv, DoomInv
<1>8. AcyclicInv'
  BY FewerElements DEF RefInv
<1> QED BY <1>3, <1>4, <1>6, <1>7, <1>8 DEF RefInv, CountInv

\* An owner that lets go is one reference less, and destroys the object of which it
\* held the last.
LEMMA ReleaseKeepsRefs ==
  ASSUME RefInv, NEW r \in Owners, owned[r] # Null, Release(r)
  PROVE  RefInv'
<1>1. PICK o \in Objects : o = owned[r]
  BY DEF RefInv, ObjectsType
<1>2. rc[o] # 0 /\ kind[o] # "none" /\ doomed[r] = {}
  BY <1>1, ReferencedExists DEF RefInv, DoomInv
<1>3. \A p \in Owners : owned'[p] = IF p = r THEN Null ELSE owned[p]
  BY DEF Release, RefInv, ObjectsType
<1>4. \A x \in Objects : rc[x] \in Nat /\ rc'[x] = IF x = o THEN rc[x] - 1 ELSE rc[x]
  BY <1>1 DEF Release, RefInv, ObjectsType
<1>5. \A p \in Owners : doomed'[p] = IF p = r /\ rc[o] = 1 THEN {o} ELSE doomed[p]
  BY <1>1, <1>2 DEF Release, RefInv, ObjectsType
<1>6. kind' = kind /\ items' = items
  BY DEF Release
<1>7. ObjectsType'
  <2>1. rc' \in [Objects -> Nat]
    BY <1>1, <1>2, <1>4 DEF Release, RefInv, ObjectsType
  <2>2. borrows' \in [Owners -> SUBSET Handles]
    BY DEF Release, RefInv, ObjectsType
  <2>3. owned' \in [Owners -> Objects \cup {Null}] /\ doomed' \in [Owners -> SUBSET Objects]
    BY <1>1 DEF Release, RefInv, ObjectsType
  <2> QED BY <1>6, <2>1, <2>2, <2>3 DEF RefInv, ObjectsType
<1>8. ASSUME NEW x \in Objects
      PROVE  rc'[x] = Cardinality(Holders(x)') + Cardinality(Slots(x)')
  <2>1. Slots(x)' = Slots(x)
    BY <1>6 DEF Slots
  <2>2. Holders(x)' = IF x = o THEN Holders(x) \ {r} ELSE Holders(x)
    BY <1>1, <1>3, OwnersAssumption DEF Holders
  <2>3. /\ IsFiniteSet(Holders(x)) /\ Cardinality(Holders(x)) \in Nat
        /\ Cardinality(Slots(x)) \in Nat
    BY CountsAreNumbers DEF RefInv
  <2>4. x = o => Cardinality(Holders(x) \ {r}) = Cardinality(Holders(x)) - 1
    <3>1. x = o => r \in Holders(x)
      BY <1>1 DEF Holders
    <3> QED BY <2>3, <3>1, FS_RemoveElement
  <2>5. rc[x] = Cardinality(Holders(x)) + Cardinality(Slots(x))
    BY DEF RefInv, CountInv
  <2> QED BY <1>4, <2>1, <2>2, <2>3, <2>4, <2>5
<1>9. GoneInv'
  BY <1>2, <1>4, <1>6 DEF RefInv, GoneInv
<1>10. DoomInv'
  <2>1. \A p \in Owners : o \notin doomed[p] /\ doomed[p] \subseteq Objects
    BY <1>2 DEF RefInv, DoomInv, ObjectsType
  <2>2. \A p \in Owners : \A x \in doomed'[p] : kind'[x] # "none" /\ rc'[x] = 0
    BY <1>2, <1>4, <1>5, <1>6, <2>1 DEF RefInv, DoomInv
  <2>3. ASSUME NEW x \in Objects, kind'[x] # "none", rc'[x] = 0
        PROVE  \E p \in Owners : x \in doomed'[p]
    <3>1. CASE x = o
      BY <1>2, <1>4, <1>5, <2>3, <3>1
    <3>2. CASE x # o
      <4>1. PICK p \in Owners : x \in doomed[p]
        BY <1>4, <1>6, <2>3, <3>2 DEF RefInv, DoomInv
      <4> QED BY <1>2, <1>5, <4>1
    <3> QED BY <3>1, <3>2
  <2>4. \A p, q \in Owners : doomed'[p] \cap doomed'[q] # {} => p = q
    BY <1>5, <2>1 DEF RefInv, DoomInv
  <2>5. \A p \in Owners : owned'[p] # Null => doomed'[p] = {}
    BY <1>3, <1>5 DEF RefInv, DoomInv
  <2> QED BY <2>2, <2>3, <2>4, <2>5 DEF DoomInv
<1>11. AcyclicInv'
  BY <1>6, FewerElements DEF RefInv
<1> QED BY <1>7, <1>8, <1>9, <1>10, <1>11 DEF RefInv, CountInv


\* An object that is destroyed releases its elements; those of which it had the last
\* reference are destroyed next, by the same thread.
LEMMA ReclaimKeepsRefs ==
  ASSUME RefInv, NEW r \in Owners, NEW o \in Objects, Reclaim(r, o)
  PROVE  RefInv'
<1>1. /\ o \in doomed[r] /\ owned[r] = Null /\ kind[o] # "none" /\ rc[o] = 0
      /\ Holders(o) = {} /\ Slots(o) = {}
  BY Unreferenced DEF Reclaim, RefInv, DoomInv
<1>2. PICK s \in ItemLists : s = items[o]
  BY DEF RefInv, ObjectsType
<1>3. \A x \in Objects : Occurrences(s, x) \in Nat /\ rc[x] \in Nat
  BY OccurrencesAreSlots DEF RefInv, ObjectsType
<1>4. \A x \in Objects : rc'[x] = rc[x] - Occurrences(s, x)
  BY <1>2 DEF Reclaim
<1>5. \A x \in Objects : items'[x] = IF x = o THEN <<>> ELSE items[x]
  BY DEF Reclaim, RefInv, ObjectsType
<1>6. \A x \in Objects : kind'[x] = IF x = o THEN "none" ELSE kind[x]
  BY DEF Reclaim, RefInv, ObjectsType
<1>7. /\ \A p \in Owners : p # r => doomed'[p] = doomed[p]
      /\ \A x \in Objects :
           x \in doomed'[r] <=> (x \in doomed[r] /\ x # o) \/ (rc[x] # 0 /\ rc'[x] = 0)
  <2>1. \A p \in Owners :
          doomed'[p] = IF p = r THEN (doomed[r] \ {o})
                                         \cup {x \in Objects : rc[x] > 0 /\ rc'[x] = 0}
                       ELSE doomed[p]
    BY DEF Reclaim, RefInv, ObjectsType
  <2>2. {x \in Objects : rc[x] > 0 /\ rc'[x] = 0} = {x \in Objects : rc[x] # 0 /\ rc'[x] = 0}
    BY <1>3
  <2> QED BY <2>1, <2>2
<1>8. ASSUME NEW x \in Objects
      PROVE  /\ rc'[x] = Cardinality(Holders(x)') + Cardinality(Slots(x)')
             /\ rc'[x] \in Nat
  <2>1. Holders(x)' = Holders(x)
    BY DEF Reclaim, Holders
  <2>2. Slots(x)' = Slots(x) \ SlotsIn(o, s, x)
    BY <1>2, <1>5, EmptyList DEF Slots, SlotsIn
  <2>3. Slots(x) \cap SlotsIn(o, s, x) = SlotsIn(o, s, x)
    BY <1>2 DEF Slots, SlotsIn
  <2>4. /\ IsFiniteSet(Holders(x)) /\ Cardinality(Holders(x)) \in Nat
        /\ IsFiniteSet(Slots(x)) /\ Cardinality(Slots(x)) \in Nat
        /\ Cardinality(SlotsIn(o, s, x)) = Occurrences(s, x)
    BY CountsAreNumbers, OccurrencesAreSlots DEF RefInv
  <2>5. /\ Cardinality(Slots(x)') = Cardinality(Slots(x)) - Occurrences(s, x)
        /\ IsFiniteSet(Slots(x)')
    <3>1. /\ IsFiniteSet(Slots(x) \ SlotsIn(o, s, x))
          /\ Cardinality(Slots(x) \ SlotsIn(o, s, x))
               = Cardinality(Slots(x)) - Cardinality(Slots(x) \cap SlotsIn(o, s, x))
      BY <2>4, FS_Difference
    <3> QED BY <2>2, <2>3, <2>4, <3>1
  <2>6. Cardinality(Slots(x)') \in Nat
    BY <2>5, FS_CardinalityType
  <2>7. rc[x] = Cardinality(Holders(x)) + Cardinality(Slots(x))
    BY DEF RefInv, CountInv
  <2> QED BY <1>3, <1>4, <2>1, <2>4, <2>5, <2>6, <2>7
<1>9. ObjectsType'
  <2>1. rc' \in [Objects -> Nat]
    BY <1>8 DEF Reclaim
  <2>2. kind' \in [Objects -> Kinds \cup {"none"}] /\ items' \in [Objects -> ItemLists]
    BY EmptyList DEF Reclaim, RefInv, ObjectsType
  <2>3. owned' \in [Owners -> Objects \cup {Null}] /\ borrows' \in [Owners -> SUBSET Handles]
    BY DEF Reclaim, RefInv, ObjectsType
  <2>4. doomed' \in [Owners -> SUBSET Objects]
    BY DEF Reclaim, RefInv, ObjectsType
  <2> QED BY <2>1, <2>2, <2>3, <2>4 DEF ObjectsType
<1>10. \A x \in Objects : rc[x] = 0 => rc'[x] = 0
  BY <1>3, <1>4, <1>8
<1>11. GoneInv'
  BY <1>5, <1>6, <1>10, <1>1 DEF RefInv, GoneInv
<1>12. DoomInv'
  <2>1. \A p \in Owners : doomed[p] \subseteq Objects /\ (p # r => o \notin doomed[p])
    BY <1>1 DEF RefInv, DoomInv, ObjectsType
  <2>2. ASSUME NEW p \in Owners, NEW x \in Objects, x \in doomed'[p]
        PROVE  kind'[x] # "none" /\ rc'[x] = 0
    <3>1. CASE x \in doomed[p]
      <4>1. x # o
        BY <1>1, <1>7, <2>1, <2>2, <3>1
      <4>2. kind[x] # "none" /\ rc[x] = 0
        BY <3>1 DEF RefInv, DoomInv
      <4> QED BY <1>6, <1>10, <4>1, <4>2
    <3>2. CASE x \notin doomed[p]
      <4>1. rc[x] # 0 /\ rc'[x] = 0
        BY <1>7, <2>2, <3>2
      <4>2. x # o /\ kind[x] # "none"
        BY <1>1, <4>1 DEF RefInv, GoneInv
      <4> QED BY <1>6, <4>1, <4>2
    <3> QED BY <3>1, <3>2
  <2>3. ASSUME NEW x \in Objects, kind'[x] # "none", rc'[x] = 0
        PROVE  \E p \in Owners : x \in doomed'[p]
    <3>1. x # o /\ kind[x] # "none"
      BY <1>6, <2>3
    <3>2. CASE rc[x] = 0
      <4>1. PICK p \in Owners : x \in doomed[p]
        BY <3>1, <3>2 DEF RefInv, DoomInv
      <4>2. x \in doomed'[p]
        BY <1>7, <3>1, <4>1
      <4> QED BY <4>2
    <3>3. CASE rc[x] # 0
      BY <1>7, <2>3, <3>3
    <3> QED BY <3>2, <3>3
  <2>4. ASSUME NEW p \in Owners, NEW q \in Owners, p # q
        PROVE  doomed'[p] \cap doomed'[q] = {}
    <3>1. doomed[p] \cap doomed[q] = {}
      BY <2>4 DEF RefInv, DoomInv
    <3>2. \A x \in doomed[p] \cup doomed[q] : rc[x] = 0
      BY DEF RefInv, DoomInv
    <3>3. doomed'[p] \subseteq Objects
      BY <1>9 DEF ObjectsType
    <3>4. ASSUME NEW x \in Objects, x \in doomed'[p], x \in doomed'[q] PROVE FALSE
      BY <1>7, <2>4, <3>1, <3>2, <3>4
    <3> QED BY <3>3, <3>4
  <2>5. \A p \in Owners : owned'[p] # Null => doomed'[p] = {}
    BY <1>1, <1>7, <1>9 DEF Reclaim, RefInv, DoomInv, ObjectsType
  <2> QED BY <1>9, <2>2, <2>3, <2>4, <2>5 DEF DoomInv, ObjectsType
<1>13. AcyclicInv'
  BY <1>5, EmptyList, FewerElements DEF RefInv
<1> QED BY <1>8, <1>9, <1>11, <1>12, <1>13 DEF RefInv, CountInv


-----------------------------------------------------------------------------
(* What each step does to the references.                                  *)

\* The objects and their owners are as they were, except for what the owners borrow.
RefsUnchanged == UNCHANGED <<objVars, owned, doomed>> /\ borrows' \in [Owners -> SUBSET Handles]

LEMMA RefsUnchangedKeepsRefs == ASSUME RefInv, RefsUnchanged PROVE RefInv'
<1>1. ObjectsType' /\ GoneInv' /\ DoomInv' /\ AcyclicInv'
  BY DEF RefInv, RefsUnchanged, objVars, ObjectsType, GoneInv, DoomInv, AcyclicInv
<1>2. CountInv'
  BY DEF RefInv, RefsUnchanged, objVars, CountInv, Holders, Slots
<1> QED BY <1>1, <1>2 DEF RefInv

\* What a call that runs a copy knows of its tensor.
CallInv ==
  /\ transfer \in [Owners -> {"none", "upload", "download"}]
  /\ task \in [Owners -> {"none", "running", "done", "failed"}]
  /\ \A r \in Owners : /\ transfer[r] = "none" <=> task[r] = "none"
                       /\ transfer[r] # "none" => owned[r] # Null /\ kind[owned[r]] = "tensor"

ObjInv == RefInv /\ CallInv

\* A call's tensor is there, and no other step of an owner can take it away.
LEMMA CallInvFrame ==
  ASSUME ObjInv, UNCHANGED callVars,
         \A r \in Owners : transfer[r] # "none" =>
           owned'[r] = owned[r] /\ kind'[owned[r]] = kind[owned[r]]
  PROVE  CallInv'
  BY DEF ObjInv, CallInv, callVars

\* Creating an object, in the terms of the three actions that do.
LEMMA CreateKeepsCalls ==
  ASSUME ObjInv, NEW r \in Owners, NEW o \in Objects, NEW what \in Kinds, NEW s, NEW by,
         Unused(r), Create(o, what, s), Own(r, o, by)
  PROVE  /\ transfer[r] = "none"
         /\ \A q \in Owners : transfer[q] # "none" =>
              owned'[q] = owned[q] /\ kind'[owned[q]] = kind[owned[q]]
<1>1. transfer[r] = "none"
  BY DEF ObjInv, CallInv, Unused
<1>2. \A q \in Owners : q # r => owned'[q] = owned[q]
  BY DEF Own, ObjInv, RefInv, ObjectsType
<1>3. \A x \in Objects : x # o => kind'[x] = kind[x]
  BY DEF Create, ObjInv, RefInv, ObjectsType
<1>4. \A q \in Owners : transfer[q] # "none" => owned[q] \in Objects /\ owned[q] # o
  BY DEF ObjInv, RefInv, ObjectsType, CallInv, Create
<1> QED BY <1>1, <1>2, <1>3, <1>4

LEMMA CreateLeafStep ==
  ASSUME ObjInv, NEW r \in Owners, NEW o \in Objects, CreateLeaf(r, o)
  PROVE  ObjInv'
<1>1. Unused(r) /\ Create(o, "leaf", <<>>) /\ Own(r, o, {}) /\ UNCHANGED callVars
  BY DEF CreateLeaf
<1>2. RefInv'
  BY <1>1, EmptyList, CreateKeepsRefs DEF ObjInv, Kinds
<1>3. CallInv'
  BY <1>1, CreateKeepsCalls, CallInvFrame DEF Kinds
<1> QED BY <1>2, <1>3 DEF ObjInv

\* The elements of a new array, and what it borrows, as values.
LEMMA ArrayValues ==
  ASSUME RefInv, NEW r \in Owners, NEW o \in Objects, NEW n \in 0..MaxItems,
         NEW sources \in [1..n -> Owners], CreateArray(r, o, sources)
  PROVE  \E s \in ItemLists, by \in SUBSET Handles :
           /\ DOMAIN s = 1..n
           /\ \A i \in 1..n : s[i] = owned[sources[i]] /\ borrows[sources[i]] \subseteq by
           /\ Create(o, "array", s) /\ Own(r, o, by)
           /\ \A i \in DOMAIN s : rc[s[i]] # 0
<1>1. PICK s : s = [i \in DOMAIN sources |-> owned[sources[i]]]
  OBVIOUS
<1>2. PICK by : by = UNION {borrows[sources[i]] : i \in DOMAIN sources}
  OBVIOUS
<1>3. \A i \in 1..n :
        owned[sources[i]] # Null /\ owned[sources[i]] \in Objects /\ rc[owned[sources[i]]] # 0
  BY ReferencedExists DEF CreateArray, Usable
<1>4. s \in [1..n -> Objects]
  BY <1>1, <1>3
<1>5. by \in SUBSET Handles
  BY <1>2 DEF RefInv, ObjectsType
<1>6. Create(o, "array", s)
  BY <1>1 DEF CreateArray, Create
<1>7. Own(r, o, by)
  BY <1>2 DEF CreateArray, Own
<1>8. \A i \in DOMAIN s : rc[s[i]] # 0
  BY <1>1, <1>3
<1>9. s \in ItemLists /\ DOMAIN s = 1..n
  BY <1>4 DEF ItemLists
<1>10. \A i \in 1..n : s[i] = owned[sources[i]] /\ borrows[sources[i]] \subseteq by
  BY <1>1, <1>2
<1> QED BY <1>5, <1>6, <1>7, <1>8, <1>9, <1>10

LEMMA CreateArrayStep ==
  ASSUME ObjInv, NEW r \in Owners, NEW o \in Objects, NEW n \in 0..MaxItems,
         NEW sources \in [1..n -> Owners], CreateArray(r, o, sources)
  PROVE  ObjInv'
<1>0. RefInv
  BY DEF ObjInv
<1>1. PICK s \in ItemLists, by \in SUBSET Handles :
        /\ DOMAIN s = 1..n
        /\ \A i \in 1..n : s[i] = owned[sources[i]] /\ borrows[sources[i]] \subseteq by
        /\ Create(o, "array", s) /\ Own(r, o, by)
        /\ \A i \in DOMAIN s : rc[s[i]] # 0
  BY <1>0, ArrayValues
<1>2. Unused(r) /\ UNCHANGED callVars
  BY DEF CreateArray
<1>3. RefInv'
  BY <1>1, <1>2, CreateKeepsRefs DEF ObjInv, Kinds
<1>4. CallInv'
  BY <1>1, <1>2, CreateKeepsCalls, CallInvFrame DEF Kinds
<1> QED BY <1>3, <1>4 DEF ObjInv

LEMMA UploadStep ==
  ASSUME ObjInv, NEW r \in Owners, NEW o \in Objects, NEW h \in Handles, Upload(r, o, h)
  PROVE  ObjInv'
<1>1. Unused(r) /\ Create(o, "tensor", <<>>) /\ Own(r, o, {h})
  BY DEF Upload
<1>2. RefInv'
  BY <1>1, EmptyList, CreateKeepsRefs DEF ObjInv, Kinds
<1>3. \A q \in Owners : transfer[q] # "none" =>
        owned'[q] = owned[q] /\ kind'[owned[q]] = kind[owned[q]]
  BY <1>1, CreateKeepsCalls DEF Kinds
<1>4. owned'[r] = o /\ kind'[o] = "tensor"
  BY <1>1 DEF Own, Create, ObjInv, RefInv, ObjectsType
<1>5. CallInv'
  BY <1>3, <1>4, OwnersAssumption DEF Upload, Submit, ObjInv, CallInv
<1> QED BY <1>2, <1>5 DEF ObjInv


LEMMA CloneStep ==
  ASSUME ObjInv, NEW r \in Owners, NEW q \in Owners, Clone(r, q)
  PROVE  ObjInv'
<1>1. PICK o \in Objects : o = owned[r] /\ rc[o] # 0
  BY ReferencedExists DEF Clone, Usable, ObjInv
<1>2. PICK by \in SUBSET Handles : by = borrows[r]
  BY DEF ObjInv, RefInv, ObjectsType
<1>3. Unused(q) /\ rc' = [rc EXCEPT ![o] = @ + 1] /\ Own(q, o, by)
        /\ UNCHANGED <<kind, items, callVars>>
  BY <1>1, <1>2 DEF Clone, Own
<1>4. RefInv'
  BY <1>1, <1>3, RetainKeepsRefs DEF ObjInv
<1>5. CallInv'
  BY <1>3, CallInvFrame DEF Own, Unused, ObjInv, RefInv, ObjectsType, CallInv
<1> QED BY <1>4, <1>5 DEF ObjInv

LEMMA GetElementStep ==
  ASSUME ObjInv, NEW r \in Owners, NEW q \in Owners, NEW i \in 1..MaxItems, GetElement(r, q, i)
  PROVE  ObjInv'
<1>1. owned[r] \in Objects /\ i \in DOMAIN items[owned[r]]
  BY DEF GetElement, Usable, ObjInv, RefInv, ObjectsType
<1>2. PICK o \in Objects : o = items[owned[r]][i] /\ rc[o] # 0
  BY <1>1, ReferencedExists DEF ObjInv
<1>3. PICK by \in SUBSET Handles : by = borrows[r]
  BY DEF ObjInv, RefInv, ObjectsType
<1>4. Unused(q) /\ rc' = [rc EXCEPT ![o] = @ + 1] /\ Own(q, o, by)
        /\ UNCHANGED <<kind, items, callVars>>
  BY <1>2, <1>3 DEF GetElement, Own
<1>5. RefInv'
  BY <1>2, <1>4, RetainKeepsRefs DEF ObjInv
<1>6. CallInv'
  BY <1>4, CallInvFrame DEF Own, Unused, ObjInv, RefInv, ObjectsType, CallInv
<1> QED BY <1>5, <1>6 DEF ObjInv

LEMMA DropStep ==
  ASSUME ObjInv, NEW r \in Owners, Drop(r)
  PROVE  ObjInv'
<1>1. owned[r] # Null /\ transfer[r] = "none" /\ Release(r) /\ UNCHANGED callVars
  BY DEF Drop, Movable
<1>2. RefInv'
  BY <1>1, ReleaseKeepsRefs DEF ObjInv
<1>3. CallInv'
  BY <1>1, CallInvFrame DEF Release, ObjInv, RefInv, ObjectsType
<1> QED BY <1>2, <1>3 DEF ObjInv

LEMMA ReclaimStep ==
  ASSUME ObjInv, NEW r \in Owners, NEW o \in Objects, Reclaim(r, o)
  PROVE  ObjInv'
<1>1. RefInv'
  BY ReclaimKeepsRefs DEF ObjInv
<1>2. rc[o] = 0
  BY DEF Reclaim, ObjInv, RefInv, DoomInv
<1>3. \A q \in Owners : owned[q] # Null => owned[q] # o /\ kind'[owned[q]] = kind[owned[q]]
  BY <1>2, ReferencedExists DEF Reclaim, ObjInv, RefInv, ObjectsType
<1>4. CallInv'
  BY <1>3, CallInvFrame DEF Reclaim, ObjInv, CallInv
<1> QED BY <1>1, <1>4 DEF ObjInv

LEMMA WaitedStep ==
  ASSUME ObjInv, NEW r \in Owners, Waited(r)
  PROVE  ObjInv'
<1>1. owned[r] # Null
  BY DEF Waited, ObjInv, CallInv
<1>2. RefInv'
  <2>1. CASE Release(r)
    BY <1>1, <2>1, ReleaseKeepsRefs DEF ObjInv
  <2>2. CASE UNCHANGED <<objVars, ownVars>>
    BY <2>2, RefsUnchangedKeepsRefs DEF RefsUnchanged, ownVars, ObjInv, RefInv, ObjectsType
  <2> QED BY <2>1, <2>2 DEF Waited
<1>3. kind' = kind /\ \A q \in Owners : q # r => owned'[q] = owned[q]
  BY DEF Waited, Release, objVars, ownVars, ObjInv, RefInv, ObjectsType
<1>4. CallInv'
  BY <1>3 DEF Waited, Return, ObjInv, CallInv
<1> QED BY <1>2, <1>4 DEF ObjInv

\* The steps that leave objects and owners alone.
LEMMA OtherSteps ==
  ASSUME ObjInv, UNCHANGED <<objVars, owned, doomed>>, borrows' \in [Owners -> SUBSET Handles],
         \/ UNCHANGED callVars
         \/ \E r \in Owners : Download(r) \/ TaskEnds(r)
  PROVE  ObjInv'
<1>1. RefInv'
  BY RefsUnchangedKeepsRefs DEF RefsUnchanged, ObjInv
<1>2. CASE UNCHANGED callVars
  BY <1>2, CallInvFrame, <1>1 DEF ObjInv, objVars
<1>3. ASSUME NEW r \in Owners, Download(r) PROVE CallInv'
  BY <1>3 DEF Download, Movable, Submit, objVars, ownVars, ObjInv, CallInv
<1>4. ASSUME NEW r \in Owners, TaskEnds(r) PROVE CallInv'
  BY <1>4 DEF TaskEnds, objVars, ownVars, ObjInv, CallInv
<1> QED BY <1>1, <1>2, <1>3, <1>4 DEF ObjInv

\* The references are right initially, and every step keeps them right.
LEMMA ObjInvInit == Init => ObjInv
<1> SUFFICES ASSUME Init PROVE ObjInv
  OBVIOUS
<1>1. ObjectsType
  BY EmptyList DEF Init, ObjectsType
<1>2. CountInv
  <2>1. \A o \in Objects : Holders(o) = {} /\ Slots(o) = {}
    BY EmptyList, OwnersAssumption DEF Init, Holders, Slots
  <2>2. Cardinality({}) = 0
    BY FS_EmptySet
  <2>3. \A o \in Objects : rc[o] = 0
    BY DEF Init
  <2> QED BY <2>1, <2>2, <2>3 DEF CountInv
<1>3. GoneInv /\ DoomInv
  BY DEF Init, GoneInv, DoomInv
<1>4. AcyclicInv
  <2> SUFFICES ASSUME NEW T \in (SUBSET Objects) \ {{}}
               PROVE  \E a \in T : \A b \in T : \A i \in DOMAIN items[b] : items[b][i] # a
    BY DEF AcyclicInv
  <2>1. PICK a \in T : TRUE
    OBVIOUS
  <2>2. \A b \in T : DOMAIN items[b] = {}
    BY EmptyList DEF Init
  <2> QED BY <2>1, <2>2
<1>5. CallInv
  BY DEF Init, CallInv
<1> QED BY <1>1, <1>2, <1>3, <1>4, <1>5 DEF ObjInv, RefInv

LEMMA ObjInvStep == ObjInv /\ [Next]_vars => ObjInv'
<1> SUFFICES ASSUME ObjInv, [Next]_vars PROVE ObjInv'
  OBVIOUS
<1>1. borrows \in [Owners -> SUBSET Handles]
  BY DEF ObjInv, RefInv, ObjectsType
<1>2. CASE UNCHANGED vars
  BY <1>1, <1>2, OtherSteps DEF vars, objVars, ownVars
<1>3. CASE HandleStep
  <2>1. UNCHANGED <<objVars, ownVars, callVars>>
    BY <1>3 DEF HandleStep, New, DropHandle, CloseLast, CloseRefused, DropRefused, CloneHandle
  <2> QED BY <1>1, <2>1, OtherSteps DEF ownVars
<1>4. CASE ObjectStep
  <2>1. ASSUME NEW r \in Owners, Downcast(r) PROVE ObjInv'
    BY <1>1, <2>1, OtherSteps DEF Downcast
  <2> QED BY <1>4, <2>1, DropStep, CreateLeafStep, ReclaimStep, CreateArrayStep, CloneStep,
             GetElementStep
          DEF ObjectStep
<1>5. CASE TransferStep
  <2>1. ASSUME NEW r \in Owners, Download(r) \/ TaskEnds(r) PROVE ObjInv'
    BY <1>1, <2>1, OtherSteps DEF Download, TaskEnds, ownVars
  <2> QED BY <1>5, <2>1, WaitedStep, UploadStep DEF TransferStep
<1> QED BY <1>2, <1>3, <1>4, <1>5 DEF Next

\* The reference count of every object is the number of owners and array slots that
\* count on it, and exactly one thread destroys an object without references, for
\* any number of owners, objects and elements and any order of clones, drops and
\* nested destructions.
THEOREM CountsAreExact == Spec => []ReferencesAccounted
<1>1. ObjInv => ReferencesAccounted
  <2> SUFFICES ASSUME ObjInv, NEW o \in Objects
               PROVE  /\ rc[o] = Cardinality(Holders(o)) + Cardinality(Slots(o))
                      /\ Cardinality({r \in Owners : o \in doomed[r]})
                           = IF kind[o] # "none" /\ rc[o] = 0 THEN 1 ELSE 0
    BY DEF ReferencesAccounted, Holders, Slots
  <2>1. rc[o] = Cardinality(Holders(o)) + Cardinality(Slots(o))
    BY DEF ObjInv, RefInv, CountInv
  <2>2. CASE kind[o] # "none" /\ rc[o] = 0
    <3>1. PICK r \in Owners : o \in doomed[r]
      BY <2>2 DEF ObjInv, RefInv, DoomInv
    <3>2. {q \in Owners : o \in doomed[q]} = {r}
      BY <3>1 DEF ObjInv, RefInv, DoomInv
    <3> QED BY <2>1, <2>2, <3>2, FS_Singleton
  <2>3. CASE ~(kind[o] # "none" /\ rc[o] = 0)
    <3>1. {q \in Owners : o \in doomed[q]} = {}
      BY <2>3 DEF ObjInv, RefInv, DoomInv
    <3> QED BY <2>1, <2>3, <3>1, FS_EmptySet
  <2> QED BY <2>2, <2>3
<1> QED BY <1>1, ObjInvInit, ObjInvStep, PTL DEF Spec


-----------------------------------------------------------------------------
(* What the owners borrow.                                                 *)

\* A KuInstance that is borrowed is still held: the borrow checker's guarantee.
BorrowInv == \A r \in Owners : \A h \in borrows[r] : handle[h] = "held"

\* The objects that owners without a borrow can reach lie in a set that no tensor
\* is in and that no array of it leads out of.
Light(L) ==
  /\ \A o \in L : kind[o] \notin {"none", "tensor"} /\ \A i \in DOMAIN items[o] : items[o][i] \in L
  /\ \A r \in Owners : borrows[r] = {} =>
       (owned[r] # Null => owned[r] \in L) /\ doomed[r] \subseteq L

LightInv == \E L \in SUBSET Objects : Light(L)

BindInv == HandleInv /\ ObjInv /\ BorrowInv /\ LightInv

\* A tensor keeps the instance alive.  Among the objects outside a light set there
\* is one in no array of such an object, hence in no array at all: somebody owns it
\* or is destroying it, borrows a KuInstance, and that one is held.
LEMMA TensorsKeepInstance ==
  ASSUME BindInv, NEW o \in Objects, kind[o] = "tensor"
  PROVE  alive
<1>1. PICK L \in SUBSET Objects : Light(L)
  BY DEF BindInv, LightInv
<1> DEFINE H == {x \in Objects : kind[x] # "none" /\ x \notin L}
<1>2. o \in H
  BY <1>1 DEF Light
<1>3. PICK a \in H : \A b \in H : \A i \in DOMAIN items[b] : items[b][i] # a
  <2>1. H \in (SUBSET Objects) \ {{}}
    BY <1>2
  <2> HIDE DEF H
  <2> QED BY <2>1 DEF BindInv, ObjInv, RefInv, AcyclicInv
<1>4. Slots(a) = {}
  <2>1. ASSUME NEW e \in Slots(a) PROVE FALSE
    <3>1. PICK b \in Objects : \E i \in DOMAIN items[b] : items[b][i] = a
      BY <2>1 DEF Slots
    <3>2. kind[b] # "none"
      BY <3>1, EmptyList DEF BindInv, ObjInv, RefInv, GoneInv
    <3>3. b \notin L
      BY <1>1, <1>3, <3>1 DEF Light
    <3> QED BY <1>3, <3>1, <3>2, <3>3
  <2> QED BY <2>1
<1>5. PICK r \in Owners : owned[r] = a \/ a \in doomed[r]
  <2>1. CASE rc[a] = 0
    BY <1>3, <2>1 DEF BindInv, ObjInv, RefInv, DoomInv
  <2>2. CASE rc[a] # 0
    <3>1. rc[a] = Cardinality(Holders(a)) + Cardinality(Slots(a)) /\ rc[a] \in Nat
      BY <1>3 DEF BindInv, ObjInv, RefInv, CountInv, ObjectsType
    <3>2. Cardinality(Slots(a)) = 0
      BY <1>4, FS_EmptySet
    <3>3. Cardinality(Holders(a)) \in Nat
      BY <1>3, CountsAreNumbers DEF BindInv, ObjInv, RefInv
    <3>4. Cardinality(Holders(a)) # 0
      BY <2>2, <3>1, <3>2, <3>3
    <3>5. Holders(a) # {}
      BY <3>4, FS_EmptySet
    <3> QED BY <3>5 DEF Holders
  <2> QED BY <2>1, <2>2
<1>6. borrows[r] # {}
  BY <1>1, <1>3, <1>5, OwnersAssumption DEF Light
<1>7. PICK h \in Handles : handle[h] = "held"
  BY <1>6 DEF BindInv, BorrowInv, ObjInv, RefInv, ObjectsType
<1>8. Counted # {}
  BY <1>7 DEF Counted
<1> QED BY <1>8, CountedFinite, FS_EmptySet DEF BindInv, HandleInv

\* A step that leaves objects, owners and borrows alone keeps the same light set.
LEMMA LightFrame ==
  ASSUME LightInv, UNCHANGED <<objVars, ownVars>>
  PROVE  LightInv'
<1>1. PICK L \in SUBSET Objects : Light(L)
  BY DEF LightInv
<1>2. Light(L)'
  BY <1>1 DEF Light, objVars, ownVars
<1> QED BY <1>2 DEF LightInv

\* A new object is light when it borrows nothing and its elements are light.
LEMMA CreateKeepsLight ==
  ASSUME ObjInv, LightInv, NEW r \in Owners, NEW o \in Objects, NEW what \in Kinds,
         NEW s \in ItemLists, NEW by \in SUBSET Handles,
         Unused(r), Create(o, what, s), Own(r, o, by),
         \A i \in DOMAIN s : rc[s[i]] # 0,
         what = "tensor" => by # {},
         ASSUME by = {}, NEW L \in SUBSET Objects, Light(L)
         PROVE  \A i \in DOMAIN s : s[i] \in L
  PROVE  LightInv'
<1>1. PICK L \in SUBSET Objects : Light(L)
  BY DEF LightInv
<1>2. \A x \in Objects : /\ items'[x] = IF x = o THEN s ELSE items[x]
                         /\ kind'[x] = IF x = o THEN what ELSE kind[x]
  BY DEF Create, ObjInv, RefInv, ObjectsType
<1>3. \A q \in Owners : /\ owned'[q] = IF q = r THEN o ELSE owned[q]
                        /\ borrows'[q] = IF q = r THEN by ELSE borrows[q]
                        /\ doomed'[q] = doomed[q]
  BY DEF Own, ObjInv, RefInv, ObjectsType
<1>4. o \notin L
  BY <1>1 DEF Create, Light
<1>5. CASE by = {}
  <2>1. \A i \in DOMAIN s : s[i] \in L
    BY <1>1, <1>5
  <2>2. \A x \in L \cup {o} : kind'[x] \notin {"none", "tensor"}
    BY <1>1, <1>2, <1>4, <1>5 DEF Light, Kinds
  <2>3. \A x \in L \cup {o} : \A i \in DOMAIN items'[x] : items'[x][i] \in L \cup {o}
    BY <1>1, <1>2, <1>4, <2>1 DEF Light
  <2>4. \A q \in Owners : borrows'[q] = {} =>
          (owned'[q] # Null => owned'[q] \in L \cup {o}) /\ doomed'[q] \subseteq L \cup {o}
    BY <1>1, <1>3 DEF Light, Unused
  <2>5. Light(L \cup {o})'
    BY <2>2, <2>3, <2>4 DEF Light
  <2> QED BY <2>5 DEF LightInv
<1>6. CASE by # {}
  <2>1. Light(L)'
    BY <1>1, <1>2, <1>3, <1>4, <1>6 DEF Light
  <2> QED BY <2>1 DEF LightInv
<1> QED BY <1>5, <1>6

\* A second owner of a light object needs no borrow.
LEMMA RetainKeepsLight ==
  ASSUME ObjInv, LightInv, NEW q \in Owners, NEW o \in Objects, NEW by \in SUBSET Handles,
         Unused(q), Own(q, o, by), UNCHANGED <<kind, items>>,
         ASSUME by = {}, NEW L \in SUBSET Objects, Light(L)
         PROVE  o \in L
  PROVE  LightInv'
<1>1. PICK L \in SUBSET Objects : Light(L)
  BY DEF LightInv
<1>2. \A p \in Owners : /\ owned'[p] = IF p = q THEN o ELSE owned[p]
                        /\ borrows'[p] = IF p = q THEN by ELSE borrows[p]
                        /\ doomed'[p] = doomed[p]
  BY DEF Own, ObjInv, RefInv, ObjectsType
<1>3. by = {} => o \in L
  BY <1>1
<1>4. Light(L)'
  BY <1>1, <1>2, <1>3 DEF Light, Unused
<1> QED BY <1>4 DEF LightInv

LEMMA ReleaseKeepsLight ==
  ASSUME ObjInv, LightInv, NEW r \in Owners, owned[r] # Null, Release(r)
  PROVE  LightInv'
<1>1. PICK L \in SUBSET Objects : Light(L)
  BY DEF LightInv
<1>2. PICK o \in Objects : o = owned[r]
  BY DEF ObjInv, RefInv, ObjectsType
<1>3. \A p \in Owners : p # r =>
        owned'[p] = owned[p] /\ borrows'[p] = borrows[p] /\ doomed'[p] = doomed[p]
  BY DEF Release, ObjInv, RefInv, ObjectsType
<1>4. /\ owned'[r] = Null
      /\ doomed'[r] = IF rc[o] = 1 THEN {o} ELSE {}
      /\ rc[o] = 1 => borrows'[r] = borrows[r]
  BY <1>2 DEF Release, ObjInv, RefInv, ObjectsType
<1>5. borrows'[r] = {} => doomed'[r] \subseteq L
  BY <1>1, <1>2, <1>4 DEF Light
<1>6. Light(L)'
  BY <1>1, <1>3, <1>4, <1>5 DEF Light, Release
<1> QED BY <1>6 DEF LightInv

\* What a light object leads to is light, so what its destruction dooms is, too.
LEMMA ReclaimKeepsLight ==
  ASSUME ObjInv, LightInv, NEW r \in Owners, NEW o \in Objects, Reclaim(r, o)
  PROVE  LightInv'
<1>1. PICK L \in SUBSET Objects : Light(L)
  BY DEF LightInv
<1>2. rc[o] = 0 /\ o \in doomed[r] /\ (\A q \in Owners : q # r => o \notin doomed[q])
  BY DEF Reclaim, ObjInv, RefInv, DoomInv
<1>3. /\ \A x \in Objects : \A i \in DOMAIN items[x] : items[x][i] # o
      /\ \A q \in Owners : owned[q] # o
  BY <1>2, ReferencedExists, OwnersAssumption DEF ObjInv
<1>4. \A x \in Objects : x # o => items'[x] = items[x] /\ kind'[x] = kind[x]
  BY DEF Reclaim, ObjInv, RefInv, ObjectsType
<1>5. \A q \in Owners : q # r => borrows'[q] = borrows[q] /\ doomed'[q] = doomed[q]
  BY DEF Reclaim, ObjInv, RefInv, ObjectsType
<1>6. \/ doomed'[r] = {}
      \/ /\ borrows'[r] = borrows[r]
         /\ doomed'[r] = (doomed[r] \ {o}) \cup {x \in Objects : rc[x] > 0 /\ rc'[x] = 0}
  BY DEF Reclaim, ObjInv, RefInv, ObjectsType
<1>7. \A x \in Objects : rc[x] > 0 /\ rc'[x] = 0 => \E i \in DOMAIN items[o] : items[o][i] = x
  <2> SUFFICES ASSUME NEW x \in Objects, rc[x] > 0, ~ \E i \in DOMAIN items[o] : items[o][i] = x
               PROVE  rc'[x] # 0
    OBVIOUS
  <2>1. {i \in DOMAIN items[o] : items[o][i] = x} = {}
    OBVIOUS
  <2>2. Occurrences(items[o], x) = 0
    BY <2>1, FS_EmptySet DEF Occurrences
  <2>3. rc'[x] = rc[x] - Occurrences(items[o], x) /\ rc[x] \in Nat
    BY DEF Reclaim, ObjInv, RefInv, ObjectsType
  <2> QED BY <2>2, <2>3
<1>8. borrows'[r] = {} => doomed'[r] \subseteq L \ {o}
  <2>1. ASSUME borrows[r] = {}, NEW x \in Objects, rc[x] > 0, rc'[x] = 0 PROVE x \in L \ {o}
    <3>1. o \in L
      BY <1>1, <1>2, <2>1 DEF Light
    <3>2. x # o
      BY <1>2, <2>1
    <3> QED BY <1>1, <1>7, <2>1, <3>1, <3>2 DEF Light
  <2>2. borrows[r] = {} => doomed[r] \subseteq L
    BY <1>1 DEF Light
  <2> QED BY <1>6, <2>1, <2>2
<1>9. \A q \in Owners : borrows'[q] = {} =>
        (owned'[q] # Null => owned'[q] \in L \ {o}) /\ doomed'[q] \subseteq L \ {o}
  <2>1. owned' = owned /\ owned[r] = Null
    BY <1>2 DEF Reclaim, ObjInv, RefInv, DoomInv
  <2> QED BY <1>1, <1>2, <1>3, <1>5, <1>8, <2>1 DEF Light
<1>10. \A x \in L \ {o} : /\ kind'[x] \notin {"none", "tensor"}
                          /\ \A i \in DOMAIN items'[x] : items'[x][i] \in L \ {o}
  BY <1>1, <1>3, <1>4 DEF Light
<1>11. Light(L \ {o})'
  BY <1>9, <1>10 DEF Light
<1> QED BY <1>11 DEF LightInv


LEMMA LightStep == BindInv /\ [Next]_vars => LightInv'
<1> SUFFICES ASSUME BindInv, [Next]_vars PROVE LightInv'
  OBVIOUS
<1>1. ObjInv /\ LightInv
  BY DEF BindInv
<1>2. ASSUME UNCHANGED <<objVars, ownVars>> PROVE LightInv'
  BY <1>1, <1>2, LightFrame
<1>3. CASE UNCHANGED vars \/ HandleStep
  BY <1>2, <1>3
  DEF vars, HandleStep, New, DropHandle, CloseLast, CloseRefused, DropRefused, CloneHandle
<1>4. ASSUME NEW r \in Owners, NEW o \in Objects, CreateLeaf(r, o) PROVE LightInv'
  <2>1. Unused(r) /\ Create(o, "leaf", <<>>) /\ Own(r, o, {})
    BY <1>4 DEF CreateLeaf
  <2> QED BY <1>1, <2>1, EmptyList, CreateKeepsLight DEF Kinds
<1>5. ASSUME NEW r \in Owners, NEW o \in Objects, NEW h \in Handles, Upload(r, o, h) PROVE LightInv'
  <2>1. Unused(r) /\ Create(o, "tensor", <<>>) /\ Own(r, o, {h}) /\ {h} # {}
    BY <1>5 DEF Upload
  <2> QED BY <1>1, <2>1, EmptyList, CreateKeepsLight DEF Kinds
<1>6. ASSUME NEW r \in Owners, NEW o \in Objects, NEW n \in 0..MaxItems,
             NEW sources \in [1..n -> Owners], CreateArray(r, o, sources)
      PROVE  LightInv'
  <2>1. PICK s \in ItemLists, by \in SUBSET Handles :
          /\ DOMAIN s = 1..n
          /\ \A i \in 1..n : s[i] = owned[sources[i]] /\ borrows[sources[i]] \subseteq by
          /\ Create(o, "array", s) /\ Own(r, o, by)
          /\ \A i \in DOMAIN s : rc[s[i]] # 0
    BY <1>1, <1>6, ArrayValues DEF ObjInv
  <2>2. ASSUME by = {}, NEW L \in SUBSET Objects, Light(L)
        PROVE  \A i \in DOMAIN s : s[i] \in L
    <3> SUFFICES ASSUME NEW i \in 1..n PROVE owned[sources[i]] \in L
      BY <2>1
    <3>1. borrows[sources[i]] = {}
      BY <2>1, <2>2
    <3>2. owned[sources[i]] # Null
      BY <1>6 DEF CreateArray, Usable
    <3> QED BY <2>2, <3>1, <3>2 DEF Light
  <2>3. Unused(r)
    BY <1>6 DEF CreateArray
  <2> QED BY <1>1, <2>1, <2>2, <2>3, CreateKeepsLight DEF Kinds
<1>7. ASSUME NEW r \in Owners, NEW q \in Owners, Clone(r, q) PROVE LightInv'
  <2>1. PICK o \in Objects, by \in SUBSET Handles : o = owned[r] /\ by = borrows[r]
    BY <1>1, <1>7 DEF Clone, Usable, ObjInv, RefInv, ObjectsType
  <2>2. Unused(q) /\ Own(q, o, by) /\ UNCHANGED <<kind, items>>
    BY <1>7, <2>1 DEF Clone, Own
  <2>3. ASSUME by = {}, NEW L \in SUBSET Objects, Light(L) PROVE o \in L
    BY <1>7, <2>1, <2>3 DEF Clone, Usable, Light
  <2> QED BY <1>1, <2>2, <2>3, RetainKeepsLight
<1>8. ASSUME NEW r \in Owners, NEW q \in Owners, NEW i \in 1..MaxItems, GetElement(r, q, i)
      PROVE  LightInv'
  <2>1. owned[r] # Null /\ owned[r] \in Objects /\ i \in DOMAIN items[owned[r]]
    BY <1>1, <1>8 DEF GetElement, Usable, ObjInv, RefInv, ObjectsType
  <2>2. PICK o \in Objects : o = items[owned[r]][i]
    BY <1>1, <2>1, ReferencedExists DEF ObjInv
  <2>3. PICK by \in SUBSET Handles : by = borrows[r]
    BY <1>1 DEF ObjInv, RefInv, ObjectsType
  <2>4. Unused(q) /\ Own(q, o, by) /\ UNCHANGED <<kind, items>>
    BY <1>8, <2>2, <2>3 DEF GetElement, Own
  <2>5. ASSUME by = {}, NEW L \in SUBSET Objects, Light(L) PROVE o \in L
    BY <2>1, <2>2, <2>3, <2>5 DEF Light
  <2> QED BY <1>1, <2>4, <2>5, RetainKeepsLight
<1>9. ASSUME NEW r \in Owners, Downcast(r) PROVE LightInv'
  <2>1. PICK L \in SUBSET Objects : Light(L)
    BY <1>1 DEF LightInv
  <2>2. PICK o \in Objects : o = owned[r] /\ kind[o] = "leaf" /\ items[o] = <<>>
    BY <1>1, <1>9 DEF Downcast, Movable, ObjInv, RefInv, ObjectsType, GoneInv
  <2>3. \A q \in Owners : q # r => borrows'[q] = borrows[q]
    BY <1>1, <1>9 DEF Downcast, ObjInv, RefInv, ObjectsType
  <2>4. doomed[r] = {}
    BY <1>1, <1>9 DEF Downcast, Movable, ObjInv, RefInv, DoomInv
  <2>5. \A q \in Owners : borrows'[q] = {} =>
          (owned[q] # Null => owned[q] \in L \cup {o}) /\ doomed[q] \subseteq L \cup {o}
    BY <2>1, <2>2, <2>3, <2>4 DEF Light
  <2>6. \A x \in L \cup {o} : /\ kind[x] \notin {"none", "tensor"}
                              /\ \A i \in DOMAIN items[x] : items[x][i] \in L \cup {o}
    BY <2>1, <2>2, EmptyList DEF Light
  <2>7. Light(L \cup {o})'
    BY <1>9, <2>5, <2>6 DEF Downcast, objVars, Light
  <2> QED BY <2>7 DEF LightInv
<1>10. ASSUME NEW r \in Owners, Drop(r) PROVE LightInv'
  BY <1>1, <1>10, ReleaseKeepsLight DEF Drop, Movable
<1>11. ASSUME NEW r \in Owners, NEW o \in Objects, Reclaim(r, o) PROVE LightInv'
  BY <1>1, <1>11, ReclaimKeepsLight
<1>12. ASSUME NEW r \in Owners, Waited(r) PROVE LightInv'
  <2>1. owned[r] # Null
    BY <1>1, <1>12 DEF Waited, ObjInv, CallInv
  <2> QED BY <1>1, <1>2, <1>12, <2>1, ReleaseKeepsLight DEF Waited
<1>13. CASE ObjectStep
  BY <1>4, <1>6, <1>7, <1>8, <1>9, <1>10, <1>11, <1>13 DEF ObjectStep
<1>14. ASSUME NEW r \in Owners, Download(r) \/ TaskEnds(r) PROVE LightInv'
  BY <1>2, <1>14 DEF Download, TaskEnds
<1>15. CASE TransferStep
  BY <1>5, <1>12, <1>14, <1>15 DEF TransferStep
<1> QED BY <1>3, <1>13, <1>15 DEF Next

\* What an owner borrows is held, and so never consumed: an owner only gets the
\* borrows of another one, of the arrays' sources, or of a KuInstance in hand.
LEMMA BorrowStep == BindInv /\ [Next]_vars => BorrowInv'
<1> SUFFICES ASSUME BindInv, [Next]_vars PROVE BorrowInv'
  OBVIOUS
<1>1. /\ \A r \in Owners : borrows[r] \subseteq Handles /\ \A h \in borrows[r] : handle[h] = "held"
      /\ DOMAIN borrows = Owners /\ DOMAIN handle = Handles
  BY DEF BindInv, BorrowInv, ObjInv, RefInv, ObjectsType, HandleInv
<1>2. CASE HandleStep
  <2>1. borrows' = borrows
    BY <1>2
    DEF HandleStep, New, DropHandle, CloseLast, CloseRefused, DropRefused, CloneHandle, ownVars
  <2>2. ASSUME NEW h \in Handles, handle[h] = "held", Borrowed(h) PROVE handle'[h] = "held"
    BY <1>1, <1>2, <2>2
    DEF HandleStep, New, DropHandle, CloseLast, CloseRefused, DropRefused, CloneHandle, DropArc
  <2> QED BY <1>1, <2>1, <2>2 DEF BorrowInv, Borrowed
<1>3. ASSUME handle' = handle,
             \A r \in Owners : \A h \in borrows'[r] : handle[h] = "held"
      PROVE  BorrowInv'
  BY <1>3 DEF BorrowInv
<1>4. ASSUME handle' = handle,
             NEW q \in Owners,
             \A r \in Owners : r # q => borrows'[r] = borrows[r],
             \A h \in borrows'[q] : handle[h] = "held"
      PROVE  BorrowInv'
  BY <1>1, <1>3, <1>4
<1>5. ASSUME UNCHANGED <<instVars, ownVars>> PROVE BorrowInv'
  BY <1>1, <1>3, <1>5 DEF instVars, ownVars
<1>6. ASSUME NEW r \in Owners, NEW o \in Objects, CreateLeaf(r, o) PROVE BorrowInv'
  BY <1>1, <1>4, <1>6 DEF CreateLeaf, Own, instVars
<1>7. ASSUME NEW r \in Owners, NEW o \in Objects, NEW h \in Handles, Upload(r, o, h)
      PROVE  BorrowInv'
  BY <1>1, <1>4, <1>7 DEF Upload, Own, instVars
<1>8. ASSUME NEW r \in Owners, NEW o \in Objects, NEW n \in 0..MaxItems,
             NEW sources \in [1..n -> Owners], CreateArray(r, o, sources)
      PROVE  BorrowInv'
  <2>1. borrows'[r] = UNION {borrows[sources[i]] : i \in DOMAIN sources}
    BY <1>1, <1>8 DEF CreateArray, Own
  <2>2. \A h \in borrows'[r] : handle[h] = "held"
    BY <1>1, <2>1
  <2>3. handle' = handle /\ \A q \in Owners : q # r => borrows'[q] = borrows[q]
    BY <1>1, <1>8 DEF CreateArray, Own, instVars
  <2> QED BY <1>4, <2>2, <2>3
<1>9. ASSUME NEW r \in Owners, NEW q \in Owners, Clone(r, q) PROVE BorrowInv'
  BY <1>1, <1>4, <1>9 DEF Clone, Own, instVars
<1>10. ASSUME NEW r \in Owners, NEW q \in Owners, NEW i \in 1..MaxItems, GetElement(r, q, i)
       PROVE  BorrowInv'
  BY <1>1, <1>4, <1>10 DEF GetElement, Own, instVars
<1>11. ASSUME NEW r \in Owners, Downcast(r) PROVE BorrowInv'
  BY <1>1, <1>4, <1>11 DEF Downcast, instVars
<1>12. ASSUME NEW r \in Owners, Release(r), handle' = handle PROVE BorrowInv'
  BY <1>1, <1>4, <1>12 DEF Release
<1>13. ASSUME NEW r \in Owners, NEW o \in Objects, Reclaim(r, o) PROVE BorrowInv'
  BY <1>1, <1>4, <1>13 DEF Reclaim, instVars
<1>14. ASSUME NEW r \in Owners, Drop(r) PROVE BorrowInv'
  BY <1>12, <1>14 DEF Drop, instVars
<1>15. ASSUME NEW r \in Owners, Download(r) \/ TaskEnds(r) \/ Waited(r) PROVE BorrowInv'
  BY <1>5, <1>12, <1>15 DEF Download, TaskEnds, Waited, instVars
<1>16. CASE ObjectStep
  BY <1>6, <1>8, <1>9, <1>10, <1>11, <1>13, <1>14, <1>16 DEF ObjectStep
<1>17. CASE TransferStep
  BY <1>7, <1>15, <1>17 DEF TransferStep
<1>18. CASE UNCHANGED vars
  BY <1>5, <1>18 DEF vars
<1> QED BY <1>2, <1>16, <1>17, <1>18 DEF Next

\* Nothing outlives what it needs, for any number of KuInstance values, owners and
\* objects and any nesting of arrays: a tensor in an array keeps the instance alive
\* however its owners were cloned, converted and taken out of the array again.
THEOREM OwnersAreSafe == Spec => []NothingDangles
<1>1. Init => BindInv
  <2> SUFFICES ASSUME Init PROVE BindInv
    OBVIOUS
  <2>1. BorrowInv
    BY DEF Init, BorrowInv
  <2>2. Light({})
    BY DEF Init, Light
  <2> QED BY <2>1, <2>2, HandleInvInit, ObjInvInit DEF BindInv, LightInv
<1>2. BindInv /\ [Next]_vars => BindInv'
  BY HandleInvStep, ObjInvStep, LightStep, BorrowStep DEF BindInv
<1>3. BindInv => NothingDangles
  <2> SUFFICES ASSUME BindInv PROVE NothingDangles
    OBVIOUS
  <2>1. ObjInv /\ RefInv
    BY DEF BindInv, ObjInv
  <2>2. \A o \in Objects : kind[o] = "tensor" => alive
    BY TensorsKeepInstance
  <2>3. \A r \in Owners : task[r] = "running" => owned[r] # Null /\ kind[owned[r]] = "tensor"
    BY <2>1 DEF ObjInv, CallInv
  <2> QED BY <2>1, <2>2, <2>3, ReferencedExists DEF NothingDangles
<1> QED BY <1>1, <1>2, <1>3, PTL DEF Spec
=============================================================================
