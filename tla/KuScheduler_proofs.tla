------------------------- MODULE KuScheduler_proofs -------------------------
(***************************************************************************)
(* Proofs about KuScheduler for every set of workers and of tasks: types,  *)
(* queue order, what the destructor leaves behind, and that neither the    *)
(* workers nor the destructor sleep through what they wait for.            *)
(***************************************************************************)
EXTENDS KuScheduler, FiniteSetTheorems, SequenceTheorems, TLAPS

-----------------------------------------------------------------------------
(* Types *)

\* Every variable keeps its type, and a task is with one worker at a time.
THEOREM TypeCorrect == Spec => []TypeOK
<1>1. Init => TypeOK
  BY EmptySeq DEF Init, TypeOK, OwnerStates, WorkerStates, CallerStates
<1>2. TypeOK /\ [Next]_vars => TypeOK'
  <2> SUFFICES ASSUME TypeOK, [Next]_vars PROVE TypeOK'
    OBVIOUS
  <2> USE DEF OwnerStates, WorkerStates, CallerStates
  <2>1. CASE StopAndJoin
    BY <2>1 DEF TypeOK, StopAndJoin, calls, history
  <2>2. CASE NotifyAll
    BY <2>2 DEF TypeOK, NotifyAll, Wake, calls, history
  <2>3. CASE Joined
    BY <2>3 DEF TypeOK, Joined, calls, history
  <2>4. ASSUME NEW w \in Workers, Spawn(w) PROVE TypeOK'
    BY <2>4 DEF TypeOK, Spawn, calls, history
  <2>5. ASSUME NEW w \in Workers, Sleep(w) PROVE TypeOK'
    BY <2>5 DEF TypeOK, Sleep, calls, history
  <2>6. ASSUME NEW w \in Workers, SpuriousWakeup(w) PROVE TypeOK'
    BY <2>6 DEF TypeOK, SpuriousWakeup, Wake, calls, history
  <2>7. ASSUME NEW w \in Workers, Exit(w) PROVE TypeOK'
    BY <2>7 DEF TypeOK, Exit, calls, history
  <2>8. ASSUME NEW w \in Workers, Pop(w) PROVE TypeOK'
    <3>1. Head(queue) \in Tasks /\ Tail(queue) \in Seq(Tasks)
      BY <2>8, HeadTailProperties DEF TypeOK, Pop
    <3>2. started' \in Seq(Tasks)
      BY <2>8, <3>1, AppendProperties DEF TypeOK, Pop
    <3> QED BY <2>8, <3>1, <3>2 DEF TypeOK, Pop, calls, history
  <2>9. ASSUME NEW w \in Workers, TaskReturns(w) PROVE TypeOK'
    BY <2>9 DEF TypeOK, TaskReturns, calls, history
  <2>10. ASSUME NEW t \in Tasks, NotifyOne(t) PROVE TypeOK'
    BY <2>10 DEF TypeOK, NotifyOne, Wake, calls, history
  <2>11. ASSUME NEW t \in Tasks, NEW P \in {{}} \cup {{w} : w \in Workers}, Submit(t, P)
         PROVE  TypeOK'
    <3>1. queue' \in Seq(Tasks) /\ accepted' \in Seq(Tasks)
      BY <2>11, AppendProperties DEF TypeOK, Submit
    <3> QED BY <2>11, <3>1 DEF TypeOK, Submit, Calls
  <2>12. ASSUME NEW t \in Tasks, NEW P \in {{}} \cup {{w} : w \in Workers}, Refuse(t, P)
         PROVE  TypeOK'
    BY <2>12 DEF TypeOK, Refuse, Calls, history
  <2>13. CASE UNCHANGED vars
    BY <2>13 DEF TypeOK, vars
  <2> QED BY <2>1, <2>2, <2>3, <2>4, <2>5, <2>6, <2>7, <2>8, <2>9, <2>10, <2>11, <2>12,
             <2>13 DEF Next
<1> QED BY <1>1, <1>2, PTL DEF Spec

-----------------------------------------------------------------------------
(* First in, first out *)

\* pop_front moves the oldest queued task behind those already taken.
LEMMA TakeHead ==
  ASSUME NEW s \in Seq(Tasks), NEW q \in Seq(Tasks), q # <<>>
  PROVE  Append(s, Head(q)) \o Tail(q) = s \o q
  OBVIOUS

\* push_back appends to the whole history of accepted tasks.
LEMMA PutLast ==
  ASSUME NEW s \in Seq(Tasks), NEW q \in Seq(Tasks), NEW t \in Tasks
  PROVE  s \o Append(q, t) = Append(s \o q, t)
  OBVIOUS

\* What submit accepted is, in order, what workers took followed by what is queued.
THEOREM FirstInFirstOut == Spec => []AcceptedInOrder
<1>1. Init => AcceptedInOrder
  BY EmptySeq DEF Init, AcceptedInOrder
<1>2. TypeOK /\ AcceptedInOrder /\ [Next]_vars => AcceptedInOrder'
  <2> SUFFICES ASSUME TypeOK, AcceptedInOrder, [Next]_vars PROVE AcceptedInOrder'
    OBVIOUS
  <2>1. ASSUME NEW w \in Workers, Pop(w) PROVE AcceptedInOrder'
    BY <2>1, TakeHead DEF Pop, TypeOK, AcceptedInOrder
  <2>2. ASSUME NEW t \in Tasks, NEW P \in {{}} \cup {{w} : w \in Workers}, Submit(t, P)
        PROVE  AcceptedInOrder'
    BY <2>2, PutLast DEF Submit, TypeOK, AcceptedInOrder
  <2>3. CASE UNCHANGED <<queue, accepted, started>>
    BY <2>3 DEF AcceptedInOrder
  <2> QED
    BY <2>1, <2>2, <2>3 DEF Next, vars, history, StopAndJoin, NotifyAll, Joined, Spawn,
       Sleep, SpuriousWakeup, Exit, TaskReturns, NotifyOne, Refuse
<1> QED BY <1>1, <1>2, TypeCorrect, PTL DEF Spec

-----------------------------------------------------------------------------
(* What the destructor leaves behind.  JoinDrains speaks of owner = "gone" only; the
   induction needs to know why a queue cannot be left behind on the way there. *)

Stopped == owner \in {"notifying", "joining", "gone"}

\* A worker leaves when the scheduler is stopping and nothing is queued, and nothing is
\* queued afterwards; while the scheduler accepts, every worker has been spawned and
\* none has left.
WorkersOutlastQueue ==
  /\ stopping <=> Stopped
  /\ owner = "open" => \A w \in Workers : worker[w] # "unborn"
  /\ \A w \in Workers : worker[w] = "exited" => stopping /\ queue = <<>>
  /\ queue # <<>> => \E w \in Workers : worker[w] \notin {"unborn", "exited"}

\* A call to submit that is still under way after the stop is made by a running task.
CallersAreWorkers ==
  \A t \in Tasks : caller[t] = "notifying" =>
    /\ \A w \in parent[t] : worker[w] = "running"
    /\ stopping => parent[t] # {}

\* A task that a worker took is in that worker's hands or done.
StartedTasksRun ==
  \A i \in DOMAIN started :
    started[i] \in finished \/ \E w \in Workers : started[i] \in job[w]

AllJoined == owner = "gone" => \A w \in Workers : worker[w] \in {"unborn", "exited"}

DrainInv == WorkersOutlastQueue /\ CallersAreWorkers /\ StartedTasksRun /\ AllJoined

\* Workers leave only with an empty queue, and are joined only after they left: the
\* strengthening from which JoinDrains follows.
LEMMA DrainInductive == Spec => []DrainInv
<1> USE WorkersAssumption
<1>1. Init => DrainInv
  BY DEF Init, DrainInv, WorkersOutlastQueue, CallersAreWorkers, StartedTasksRun, AllJoined,
         Stopped
<1>2. TypeOK /\ DrainInv /\ [Next]_vars => DrainInv'
  <2> SUFFICES ASSUME TypeOK, DrainInv, [Next]_vars PROVE DrainInv'
    OBVIOUS
  <2> USE DEF TypeOK, OwnerStates, WorkerStates, CallerStates, DrainInv, Stopped,
              WorkersOutlastQueue, CallersAreWorkers, StartedTasksRun, AllJoined
  <2>1. CASE StopAndJoin
    BY <2>1 DEF StopAndJoin, calls, history
  <2>2. CASE NotifyAll
    BY <2>2 DEF NotifyAll, Wake, calls, history
  <2>3. CASE Joined
    BY <2>3 DEF Joined, calls, history
  <2>4. ASSUME NEW w \in Workers, Spawn(w) PROVE DrainInv'
    BY <2>4 DEF Spawn, calls, history
  <2>5. ASSUME NEW w \in Workers, Sleep(w) PROVE DrainInv'
    BY <2>5 DEF Sleep, calls, history
  <2>6. ASSUME NEW w \in Workers, SpuriousWakeup(w) PROVE DrainInv'
    BY <2>6 DEF SpuriousWakeup, Wake, calls, history
  <2>7. ASSUME NEW w \in Workers, Exit(w) PROVE DrainInv'
    BY <2>7 DEF Exit, MayExit, calls, history
  <2>8. ASSUME NEW w \in Workers, Pop(w) PROVE DrainInv'
    <3>1. Head(queue) \in Tasks /\ Tail(queue) \in Seq(Tasks) /\ job[w] = {}
      BY <2>8, HeadTailProperties DEF Pop
    <3>2. StartedTasksRun'
      <4>1. \A i \in DOMAIN started : started'[i] = started[i]
        BY <2>8, <3>1, AppendProperties DEF Pop
      <4>2. started'[Len(started) + 1] = Head(queue) /\ DOMAIN started' = 1 .. Len(started) + 1
        BY <2>8, <3>1, AppendProperties DEF Pop
      <4>3. \A v \in Workers : job[v] \subseteq job'[v]
        BY <2>8, <3>1 DEF Pop
      <4>4. Head(queue) \in job'[w] /\ finished' = finished
        BY <2>8 DEF Pop
      <4>5. \A i \in DOMAIN started' : i \in DOMAIN started \/ i = Len(started) + 1
        BY <4>2, LenProperties
      <4>6. ASSUME NEW i \in DOMAIN started
            PROVE  started'[i] \in finished' \/ \E v \in Workers : started'[i] \in job'[v]
        <5>1. started[i] \in finished \/ \E v \in Workers : started[i] \in job[v]
          OBVIOUS
        <5> QED BY <5>1, <4>1, <4>3, <4>4
      <4>7. ASSUME NEW i \in DOMAIN started'
            PROVE  started'[i] \in finished' \/ \E v \in Workers : started'[i] \in job'[v]
        <5>1. CASE i \in DOMAIN started
          BY <5>1, <4>6
        <5>2. CASE i = Len(started) + 1
          BY <5>2, <4>2, <4>4
        <5> QED BY <5>1, <5>2, <4>5
      <4> QED BY <4>7
    <3>3. WorkersOutlastQueue'
      BY <2>8 DEF Pop, MayExit
    <3>4. CallersAreWorkers'
      BY <2>8 DEF Pop, calls
    <3>5. AllJoined'
      BY <2>8 DEF Pop
    <3> QED BY <3>2, <3>3, <3>4, <3>5
  <2>9. ASSUME NEW w \in Workers, TaskReturns(w) PROVE DrainInv'
    BY <2>9 DEF TaskReturns, calls
  <2>10. ASSUME NEW t \in Tasks, NotifyOne(t) PROVE DrainInv'
    BY <2>10 DEF NotifyOne, Wake, history
  <2>11. ASSUME NEW t \in Tasks, NEW P \in {{}} \cup {{w} : w \in Workers}, Submit(t, P)
         PROVE  DrainInv'
    BY <2>11 DEF Submit, Calls
  <2>12. ASSUME NEW t \in Tasks, NEW P \in {{}} \cup {{w} : w \in Workers}, Refuse(t, P)
         PROVE  DrainInv'
    BY <2>12 DEF Refuse, Calls, history
  <2>13. CASE UNCHANGED vars
    BY <2>13 DEF vars
  <2> QED BY <2>1, <2>2, <2>3, <2>4, <2>5, <2>6, <2>7, <2>8, <2>9, <2>10, <2>11, <2>12,
             <2>13 DEF Next
<1> QED BY <1>1, <1>2, TypeCorrect, PTL DEF Spec

\* Once the destructor is through, no worker, no task and no call is left.
THEOREM JoinLeavesNothing == Spec => []JoinDrains
<1>1. TypeOK /\ AcceptedInOrder /\ DrainInv => JoinDrains
  <2> SUFFICES ASSUME TypeOK, AcceptedInOrder, DrainInv, owner = "gone"
               PROVE  /\ \A w \in Workers : worker[w] \in {"unborn", "exited"}
                      /\ queue = <<>>
                      /\ InSeq(accepted) \subseteq finished
                      /\ \A t \in Tasks : caller[t] # "notifying"
    BY DEF JoinDrains
  <2>1. \A w \in Workers : worker[w] \in {"unborn", "exited"}
    BY DEF DrainInv, AllJoined
  <2>2. queue = <<>>
    BY <2>1 DEF DrainInv, WorkersOutlastQueue
  <2>3. accepted = started
    BY <2>2, ConcatEmptySeq DEF AcceptedInOrder, TypeOK
  <2>4. \A w \in Workers : job[w] = {}
    BY <2>1 DEF TypeOK
  <2>5. InSeq(accepted) \subseteq finished
    BY <2>3, <2>4 DEF InSeq, DrainInv, StartedTasksRun
  <2>6. \A t \in Tasks : caller[t] # "notifying"
    BY <2>1 DEF DrainInv, CallersAreWorkers, WorkersOutlastQueue, Stopped, TypeOK
  <2> QED BY <2>1, <2>2, <2>5, <2>6
<1> QED BY <1>1, TypeCorrect, FirstInFirstOut, DrainInductive, PTL

-----------------------------------------------------------------------------
(* The contract of ku_scheduler_t                                          *)

\* A task that was accepted is queued, in the hands of one worker, or done, one of these
\* at a time, and no other task is.
Queued(t)  == t \in InSeq(queue)
InHands(t) == \E w \in Workers : t \in job[w]

FateInv ==
  /\ \A t \in Tasks :
        Queued(t) \/ InHands(t) \/ t \in finished <=> caller[t] \in {"notifying", "accepted"}
  /\ \A t \in Tasks : Queued(t) => ~InHands(t)
  /\ \A t \in finished : ~Queued(t) /\ ~InHands(t)
  /\ \A i, j \in DOMAIN queue : queue[i] = queue[j] => i = j
  /\ \A v, w \in Workers : job[v] \cap job[w] # {} => v = w

\* What push_back and pop_front do to the tasks of the queue.
LEMMA PutTask ==
  ASSUME NEW q \in Seq(Tasks), NEW t \in Tasks
  PROVE  /\ InSeq(Append(q, t)) = InSeq(q) \cup {t}
         /\ t \notin InSeq(q) /\ (\A i, j \in DOMAIN q : q[i] = q[j] => i = j)
            => \A i, j \in DOMAIN Append(q, t) : Append(q, t)[i] = Append(q, t)[j] => i = j
<1>1. /\ DOMAIN q = 1 .. Len(q) /\ Len(q) \in Nat /\ DOMAIN Append(q, t) = 1 .. Len(q) + 1
      /\ \A i \in 1 .. Len(q) : Append(q, t)[i] = q[i]
      /\ Append(q, t)[Len(q) + 1] = t
  BY AppendProperties, LenProperties
<1>2. InSeq(Append(q, t)) = InSeq(q) \cup {t}
  BY <1>1 DEF InSeq
<1>3. ASSUME t \notin InSeq(q), \A i, j \in DOMAIN q : q[i] = q[j] => i = j,
             NEW i \in DOMAIN Append(q, t), NEW j \in DOMAIN Append(q, t),
             Append(q, t)[i] = Append(q, t)[j]
      PROVE  i = j
  BY <1>1, <1>3 DEF InSeq
<1> QED BY <1>2, <1>3

LEMMA TakeTask ==
  ASSUME NEW q \in Seq(Tasks), q # <<>>, \A i, j \in DOMAIN q : q[i] = q[j] => i = j
  PROVE  /\ InSeq(Tail(q)) = InSeq(q) \ {Head(q)} /\ Head(q) \in InSeq(q)
         /\ \A i, j \in DOMAIN Tail(q) : Tail(q)[i] = Tail(q)[j] => i = j
<1>1. /\ DOMAIN q = 1 .. Len(q) /\ Len(q) \in Nat \ {0} /\ Head(q) = q[1]
      /\ DOMAIN Tail(q) = 1 .. Len(q) - 1 /\ \A i \in 1 .. Len(q) - 1 : Tail(q)[i] = q[i + 1]
  BY HeadTailProperties, LenProperties, EmptySeq
<1>2. InSeq(Tail(q)) \subseteq InSeq(q) /\ Head(q) \in InSeq(q) /\ Head(q) \notin InSeq(Tail(q))
  BY <1>1 DEF InSeq
<1>3. ASSUME NEW i \in DOMAIN q, q[i] # Head(q) PROVE q[i] \in InSeq(Tail(q))
  <2>1. i - 1 \in 1 .. Len(q) - 1 /\ q[i] = Tail(q)[i - 1]
    BY <1>1, <1>3
  <2> QED BY <1>1, <2>1 DEF InSeq
<1>4. \A i, j \in DOMAIN Tail(q) : Tail(q)[i] = Tail(q)[j] => i = j
  BY <1>1
<1> QED BY <1>2, <1>3, <1>4 DEF InSeq

\* No task is lost between submit and its end, and none is with two workers.
LEMMA FateInductive == Spec => []FateInv
<1>1. Init => FateInv
  BY DEF Init, FateInv, Queued, InHands, InSeq
<1>2. TypeOK /\ FateInv /\ [Next]_vars => FateInv'
  <2> SUFFICES ASSUME TypeOK, FateInv, [Next]_vars PROVE FateInv'
    OBVIOUS
  <2>1. CASE UNCHANGED <<queue, job, finished, caller>>
    BY <2>1 DEF FateInv, Queued, InHands
  <2>2. ASSUME NEW w \in Workers, Pop(w) PROVE FateInv'
    <3> DEFINE h == Head(queue)
    <3>1. /\ InSeq(queue') = InSeq(queue) \ {h} /\ h \in InSeq(queue) /\ h \in Tasks
          /\ \A i, j \in DOMAIN queue' : queue'[i] = queue'[j] => i = j
      BY <2>2, TakeTask, HeadTailProperties DEF Pop, FateInv, TypeOK
    <3>2. \A v \in Workers : job'[v] = IF v = w THEN {h} ELSE job[v]
      BY <2>2 DEF Pop, TypeOK
    <3>3. job[w] = {} /\ finished' = finished /\ caller' = caller
      BY <2>2 DEF Pop, TypeOK, calls
    <3>4. \A t \in Tasks : InHands(t)' <=> InHands(t) \/ t = h
      BY <3>2, <3>3 DEF InHands
    <3>5. Queued(h) /\ ~InHands(h)
      BY <3>1 DEF Queued, FateInv
    <3>6. ASSUME NEW u \in Workers, NEW v \in Workers, job'[u] \cap job'[v] # {} PROVE u = v
      BY <3>2, <3>5, <3>6 DEF FateInv, InHands
    <3>7. \A t \in finished : t # h
      BY <3>5 DEF FateInv
    <3>8. \A t \in Tasks : Queued(t)' <=> Queued(t) /\ t # h
      BY <3>1 DEF Queued
    <3> HIDE DEF h
    <3> QED BY <3>1, <3>3, <3>4, <3>5, <3>6, <3>7, <3>8 DEF FateInv, TypeOK
  <2>3. ASSUME NEW w \in Workers, TaskReturns(w) PROVE FateInv'
    <3>1. PICK t \in Tasks : job[w] = {t}
      BY <2>3 DEF TaskReturns, TypeOK
    <3>2. /\ finished' = finished \cup {t} /\ queue' = queue /\ caller' = caller
          /\ \A v \in Workers : job'[v] = IF v = w THEN {} ELSE job[v]
      BY <2>3, <3>1 DEF TaskReturns, TypeOK, calls
    <3>3. \A u \in Tasks : InHands(u)' <=> InHands(u) /\ u # t
      BY <3>1, <3>2 DEF InHands, FateInv
    <3>4. \A u \in Tasks : Queued(u)' <=> Queued(u)
      BY <3>2 DEF Queued
    <3>5. InHands(t)
      BY <3>1 DEF InHands
    <3> QED BY <3>2, <3>3, <3>4, <3>5 DEF FateInv, TypeOK
  <2>4. ASSUME NEW t \in Tasks, NotifyOne(t) PROVE FateInv'
    <3>1. \A u \in Tasks : caller'[u] = IF u = t THEN "accepted" ELSE caller[u]
      BY <2>4 DEF NotifyOne, TypeOK
    <3>2. caller[t] = "notifying" /\ UNCHANGED <<queue, job, finished>>
      BY <2>4 DEF NotifyOne, history
    <3> QED BY <3>1, <3>2 DEF FateInv, Queued, InHands
  <2>5. ASSUME NEW t \in Tasks, NEW P \in {{}} \cup {{w} : w \in Workers}, Submit(t, P)
        PROVE  FateInv'
    <3>1. ~Queued(t) /\ ~InHands(t) /\ t \notin finished
      BY <2>5 DEF Submit, Calls, FateInv
    <3>2. /\ InSeq(queue') = InSeq(queue) \cup {t}
          /\ \A i, j \in DOMAIN queue' : queue'[i] = queue'[j] => i = j
      BY <2>5, <3>1, PutTask DEF Submit, FateInv, Queued, TypeOK
    <3>3. /\ job' = job /\ finished' = finished
          /\ \A u \in Tasks : caller'[u] = IF u = t THEN "notifying" ELSE caller[u]
      BY <2>5 DEF Submit, TypeOK
    <3> QED BY <3>1, <3>2, <3>3 DEF FateInv, Queued, InHands
  <2>6. ASSUME NEW t \in Tasks, NEW P \in {{}} \cup {{w} : w \in Workers}, Refuse(t, P)
        PROVE  FateInv'
    <3>1. /\ caller[t] = "idle" /\ UNCHANGED <<queue, job, finished>>
          /\ \A u \in Tasks : caller'[u] = IF u = t THEN "refused" ELSE caller[u]
      BY <2>6 DEF Refuse, Calls, history, TypeOK
    <3> QED BY <3>1 DEF FateInv, Queued, InHands
  <2> QED
    BY <2>1, <2>2, <2>3, <2>4, <2>5, <2>6 DEF Next, vars, calls, history, StopAndJoin, NotifyAll,
       Joined, Spawn, Sleep, SpuriousWakeup, Exit
<1> QED BY <1>1, <1>2, TypeCorrect, PTL DEF Spec

\* The fate of a task, in terms of where it is; no two of the cases are met at once.
LEMMA FateValue ==
  ASSUME TypeOK, FateInv, NEW t \in Tasks
  PROVE  /\ caller[t] = "idle" => Fate(t) = "new"
         /\ caller[t] = "refused" => Fate(t) = "refused"
         /\ t \in finished => Fate(t) = "done"
         /\ InHands(t) => Fate(t) = "running"
         /\ Queued(t) => Fate(t) = "accepted"
<1>1. /\ Queued(t) \/ InHands(t) \/ t \in finished <=> caller[t] \notin {"idle", "refused"}
      /\ t \in finished => ~InHands(t)
      /\ Queued(t) => ~InHands(t) /\ t \notin finished
  BY DEF FateInv, TypeOK, CallerStates
<1> QED BY <1>1 DEF Fate, InHands

\* Where every task is.
LEMMA Somewhere ==
  ASSUME TypeOK, FateInv, NEW t \in Tasks
  PROVE  caller[t] \in {"idle", "refused"} \/ t \in finished \/ InHands(t) \/ Queued(t)
  BY DEF FateInv, TypeOK, CallerStates

\* A step that leaves tasks where they are leaves their fates.
LEMMA FateKept ==
  ASSUME TypeOK, FateInv, UNCHANGED <<job, finished>>,
         \A t \in Tasks : \/ caller'[t] = caller[t]
                          \/ caller[t] = "notifying" /\ caller'[t] = "accepted"
  PROVE  \A t \in Tasks : Fate(t)' = Fate(t)
<1> SUFFICES ASSUME NEW t \in Tasks PROVE Fate(t)' = Fate(t)
  OBVIOUS
<1>1. CASE caller'[t] = caller[t]
  BY <1>1 DEF Fate
<1>2. CASE caller[t] = "notifying" /\ caller'[t] = "accepted"
  BY <1>2 DEF Fate
<1> QED BY <1>1, <1>2

Fates == [t \in Tasks |-> Fate(t)]

\* One task goes on, and the others stay where they are.
LEMMA MoveMaps ==
  ASSUME NEW t \in Tasks, NEW from, NEW to, Fate(t) = from, Fate(t)' = to,
         \A u \in Tasks \ {t} : Fate(u)' = Fate(u), owner # "gone", owner' # "gone"
  PROVE  Contract!Move(t, from, to)
<1>1. Fates' = [Fates EXCEPT ![t] = to] /\ Fates[t] = from
  BY DEF Fates
<1> QED BY <1>1 DEF Contract!Move, Fates

\* No task submitted is lost or run twice, a task that was refused never runs, and the
\* scheduler is gone only when everything it accepted is done: the safety of the contract
\* of ku_scheduler_t.
THEOREM SafetyRefinement == Spec => Contract!SafetySpec
<1>1. Init => Contract!Init
  <2> SUFFICES ASSUME Init PROVE Contract!Init
    OBVIOUS
  <2>1. \A t \in Tasks : Fate(t) = "new"
    BY DEF Init, Fate
  <2> QED BY <2>1 DEF Init, Contract!Init
<1>2. ASSUME TypeOK, TypeOK', DrainInv, FateInv, FateInv', [Next]_vars
      PROVE  Contract!Next \/ UNCHANGED Contract!vars
  <2>1. ASSUME UNCHANGED <<job, finished>>, owner = "gone" <=> owner' = "gone",
               \A t \in Tasks : \/ caller'[t] = caller[t]
                                \/ caller[t] = "notifying" /\ caller'[t] = "accepted"
        PROVE  UNCHANGED Contract!vars
    <3>1. Fates' = Fates
      BY <1>2, <2>1, FateKept DEF Fates
    <3> QED BY <2>1, <3>1 DEF Contract!vars, Fates
  <2>2. CASE UNCHANGED vars
    BY <2>1, <2>2 DEF vars, history, calls
  <2>3. CASE StopAndJoin \/ NotifyAll
    BY <2>1, <2>3 DEF StopAndJoin, NotifyAll, history, calls
  <2>4. ASSUME NEW w \in Workers, Spawn(w) \/ Sleep(w) \/ SpuriousWakeup(w) \/ Exit(w)
        PROVE  UNCHANGED Contract!vars
    BY <2>1, <2>4 DEF Spawn, Sleep, SpuriousWakeup, Exit, history, calls
  <2>5. ASSUME NEW t \in Tasks, NotifyOne(t) PROVE UNCHANGED Contract!vars
    <3>1. \A u \in Tasks : \/ caller'[u] = caller[u]
                           \/ caller[u] = "notifying" /\ caller'[u] = "accepted"
      BY <1>2, <2>5 DEF NotifyOne, TypeOK
    <3> QED BY <2>1, <2>5, <3>1 DEF NotifyOne, history
  <2>6. CASE Joined
    <3>1. \A w \in Workers : worker[w] \in {"unborn", "exited"} /\ job[w] = {}
      BY <1>2, <2>6 DEF Joined, TypeOK
    <3>2. queue = <<>>
      BY <1>2, <3>1 DEF DrainInv, WorkersOutlastQueue
    <3>3. \A t \in Tasks : ~Queued(t) /\ ~InHands(t)
      BY <3>1, <3>2 DEF Queued, InHands, InSeq
    <3>4. \A t \in Tasks : Fate(t) \in {"new", "refused", "done"}
      BY <1>2, <3>3, FateValue, Somewhere
    <3>5. Fates' = Fates
      BY <1>2, <2>6, FateKept DEF Joined, history, calls, Fates
    <3> QED BY <2>6, <3>4, <3>5 DEF Joined, Contract!Next, Contract!Close, Fates
  <2>7. ASSUME NEW w \in Workers, Pop(w) PROVE Contract!Next
    <3>1. PICK h \in Tasks : h = Head(queue)
      BY <1>2, <2>7, HeadTailProperties DEF Pop, TypeOK
    <3>2. Queued(h)
      BY <1>2, <2>7, <3>1, TakeTask DEF Pop, FateInv, TypeOK, Queued
    <3>3. \A v \in Workers : job'[v] = IF v = w THEN {h} ELSE job[v]
      BY <1>2, <2>7, <3>1 DEF Pop, TypeOK
    <3>4. Fate(h) = "accepted" /\ Fate(h)' = "running"
      <4>1. h \notin finished /\ caller[h] \notin {"idle", "refused"}
        BY <1>2, <3>2 DEF FateInv
      <4>2. h \in job'[w]
        BY <3>3
      <4>3. h \notin finished' /\ caller'[h] \notin {"idle", "refused"}
        BY <2>7, <4>1 DEF Pop, calls
      <4> QED BY <1>2, <3>2, <4>1, <4>2, <4>3, FateValue DEF Fate, InHands, FateInv
    <3>5. ASSUME NEW u \in Tasks \ {h} PROVE Fate(u)' = Fate(u)
      BY <1>2, <2>7, <3>3 DEF Pop, Fate, TypeOK, calls
    <3>6. owner # "gone" /\ owner' # "gone"
      BY <1>2, <2>7 DEF Pop, DrainInv, AllJoined
    <3> QED BY <3>4, <3>5, <3>6, MoveMaps DEF Contract!Next, Contract!Run
  <2>8. ASSUME NEW w \in Workers, TaskReturns(w) PROVE Contract!Next
    <3>1. PICK t \in Tasks : job[w] = {t}
      BY <1>2, <2>8 DEF TaskReturns, TypeOK
    <3>2. Fate(t) = "running" /\ Fate(t)' = "done"
      BY <1>2, <2>8, <3>1, FateValue DEF TaskReturns, Fate, InHands, FateInv
    <3>3. ASSUME NEW u \in Tasks \ {t} PROVE Fate(u)' = Fate(u)
      BY <1>2, <2>8, <3>1 DEF TaskReturns, Fate, TypeOK, calls
    <3>4. owner # "gone" /\ owner' # "gone"
      BY <1>2, <2>8 DEF TaskReturns, DrainInv, AllJoined
    <3> QED BY <3>2, <3>3, <3>4, MoveMaps DEF Contract!Next, Contract!Finish
  <2>9. ASSUME NEW t \in Tasks, NEW P \in {{}} \cup {{w} : w \in Workers}, Submit(t, P)
        PROVE  Contract!Next
    <3>1. owner # "gone" /\ owner' # "gone"
      BY <1>2, <2>9 DEF Submit, Calls, DrainInv, AllJoined
    <3>2. Fate(t) = "new" /\ Fate(t)' = "accepted"
      BY <1>2, <2>9, FateValue DEF Submit, Calls, Fate, FateInv, TypeOK, InHands
    <3>3. ASSUME NEW u \in Tasks \ {t} PROVE Fate(u)' = Fate(u)
      BY <1>2, <2>9 DEF Submit, Fate, TypeOK
    <3> QED BY <3>1, <3>2, <3>3, MoveMaps DEF Contract!Next, Contract!Accept
  <2>10. ASSUME NEW t \in Tasks, NEW P \in {{}} \cup {{w} : w \in Workers}, Refuse(t, P)
         PROVE  Contract!Next
    <3>1. owner # "gone" /\ owner' # "gone"
      BY <1>2, <2>10 DEF Refuse, Calls, DrainInv, AllJoined
    <3>2. Fate(t) = "new" /\ Fate(t)' = "refused"
      BY <1>2, <2>10, FateValue DEF Refuse, Calls, Fate, FateInv, TypeOK, InHands, history
    <3>3. ASSUME NEW u \in Tasks \ {t} PROVE Fate(u)' = Fate(u)
      BY <1>2, <2>10 DEF Refuse, Fate, TypeOK, history
    <3> QED BY <3>1, <3>2, <3>3, MoveMaps DEF Contract!Next, Contract!Refuse
  <2> QED BY <1>2, <2>2, <2>3, <2>4, <2>5, <2>6, <2>7, <2>8, <2>9, <2>10 DEF Next
<1>3. TypeOK /\ TypeOK' /\ DrainInv /\ FateInv /\ FateInv' /\ [Next]_vars
        => [Contract!Next]_(Contract!vars)
  BY <1>2
<1> QED
  BY <1>1, <1>3, TypeCorrect, DrainInductive, FateInductive, PTL DEF Spec, Contract!SafetySpec

-----------------------------------------------------------------------------
(* The wakeups of m_ready.  Whether a stop is eventually joined, and whether an accepted
   task is eventually run, rests on two facts about the condition variable that hold in
   every state. *)

Testing   == {w \in Workers : worker[w] = "testing"}
Asleep    == {w \in Workers : worker[w] = "asleep"}
Notifying == {t \in Tasks : caller[t] = "notifying"}

\* As long as a worker sleeps, each queued task has a wakeup of its own: a submission
\* between its push and its notify_one, or a worker that will test the predicate; and a
\* worker sleeps after the stop only until notify_all.
NoLostWakeup ==
  Asleep # {} =>
    /\ Len(queue) <= Cardinality(Testing) + Cardinality(Notifying)
    /\ stopping => owner = "notifying"

\* Finitely many calls are under way, so that they can be counted.
CallsFinite == IsFiniteSet(Notifying)

\* A wakeup taken from one set or given to another changes its cardinality by one.
LEMMA CountAdded ==
  ASSUME NEW S, IsFiniteSet(S), NEW x, x \notin S
  PROVE  /\ IsFiniteSet(S \cup {x}) /\ Cardinality(S) \in Nat
         /\ Cardinality(S \cup {x}) = Cardinality(S) + 1
  BY FS_AddElement, FS_CardinalityType

LEMMA CountRemoved ==
  ASSUME NEW S, IsFiniteSet(S), NEW x \in S
  PROVE  /\ IsFiniteSet(S \ {x}) /\ Cardinality(S) \in Nat \ {0}
         /\ Cardinality(S \ {x}) = Cardinality(S) - 1
<1>1. /\ IsFiniteSet(S \ {x}) /\ Cardinality(S \ {x}) = Cardinality(S) - 1
      /\ Cardinality(S) \in Nat /\ Cardinality(S \ {x}) \in Nat
  BY FS_RemoveElement, FS_CardinalityType
<1> QED BY <1>1

\* At most finitely many submissions are between push and notification.
LEMMA CallsStayFinite == Spec => []CallsFinite
<1>1. Init => CallsFinite
  <2>1. Init => Notifying = {}
    BY DEF Init, Notifying
  <2> QED BY <2>1, FS_EmptySet DEF CallsFinite
<1>2. CallsFinite /\ [Next]_vars => CallsFinite'
  <2> SUFFICES ASSUME CallsFinite, [Next]_vars PROVE CallsFinite'
    OBVIOUS
  <2>1. ASSUME NEW t \in Tasks, Notifying' \subseteq Notifying \cup {t} PROVE CallsFinite'
    <3>1. IsFiniteSet(Notifying \cup {t})
      BY FS_AddElement DEF CallsFinite
    <3> QED BY <2>1, <3>1, FS_Subset DEF CallsFinite
  <2>2. CASE caller' = caller
    BY <2>2 DEF CallsFinite, Notifying
  <2>3. ASSUME NEW t \in Tasks, NEW P \in {{}} \cup {{w} : w \in Workers}, Submit(t, P)
        PROVE  CallsFinite'
    <3>1. Notifying' \subseteq Notifying \cup {t}
      BY <2>3 DEF Submit, Notifying
    <3> QED BY <2>1, <3>1
  <2>4. ASSUME NEW t \in Tasks, NEW P \in {{}} \cup {{w} : w \in Workers}, Refuse(t, P)
        PROVE  CallsFinite'
    <3>1. Notifying' \subseteq Notifying \cup {t}
      BY <2>4 DEF Refuse, Notifying
    <3> QED BY <2>1, <3>1
  <2>5. ASSUME NEW t \in Tasks, NotifyOne(t) PROVE CallsFinite'
    <3>1. Notifying' \subseteq Notifying \cup {t}
      BY <2>5 DEF NotifyOne, Notifying
    <3> QED BY <2>1, <3>1
  <2> QED
    BY <2>2, <2>3, <2>4, <2>5 DEF Next, vars, calls, StopAndJoin, NotifyAll, Joined, Spawn,
       Sleep, SpuriousWakeup, Exit, Pop, TaskReturns
<1> QED BY <1>1, <1>2, PTL DEF Spec

\* A step that leaves the queue and the notifications alone and lets no testing worker go
\* disturbs nothing, unless it puts a worker to sleep or stops.
LEMMA WakeupsUndisturbed ==
  ASSUME TypeOK, CallsFinite, NoLostWakeup,
         queue' = queue, Notifying' = Notifying, stopping' = stopping,
         owner' = owner \/ owner # "notifying",
         Asleep' \subseteq Asleep, Testing \subseteq Testing'
  PROVE  NoLostWakeup'
<1>1. IsFiniteSet(Testing) /\ IsFiniteSet(Testing')
  BY FS_Subset, WorkersAssumption DEF Testing
<1>2. Cardinality(Testing) <= Cardinality(Testing')
  BY <1>1, FS_Subset
<1>3. /\ Cardinality(Testing) \in Nat /\ Cardinality(Testing') \in Nat
      /\ Cardinality(Notifying) \in Nat /\ Len(queue) \in Nat
  BY <1>1, FS_CardinalityType, LenProperties DEF CallsFinite, TypeOK
<1> QED BY <1>2, <1>3 DEF NoLostWakeup

\* No wakeup of m_ready is lost, between submissions, the stop and workers that go to
\* sleep, for any number of workers: the reason why StopTerminates holds.
THEOREM NoWakeupIsLost == Spec => []NoLostWakeup
<1> USE WorkersAssumption
<1>1. Init => NoLostWakeup
  BY DEF Init, NoLostWakeup, Asleep
<1>2. TypeOK /\ DrainInv /\ CallsFinite /\ NoLostWakeup /\ [Next]_vars => NoLostWakeup'
  <2> SUFFICES ASSUME TypeOK, DrainInv, CallsFinite, NoLostWakeup, [Next]_vars
               PROVE  NoLostWakeup'
    OBVIOUS
  <2>0. /\ IsFiniteSet(Testing) /\ Cardinality(Testing) \in Nat
        /\ Cardinality(Notifying) \in Nat /\ Len(queue) \in Nat
    BY FS_Subset, FS_CardinalityType, LenProperties DEF Testing, CallsFinite, TypeOK
  <2>1. CASE StopAndJoin
    <3>1. Asleep' = Asleep /\ Testing' = Testing /\ Notifying' = Notifying
      BY <2>1 DEF StopAndJoin, calls, Asleep, Testing, Notifying
    <3> QED BY <2>1, <3>1 DEF StopAndJoin, NoLostWakeup
  <2>2. CASE NotifyAll
    <3>1. Asleep' = {}
      BY <2>2 DEF NotifyAll, Wake, Asleep
    <3> QED BY <3>1 DEF NoLostWakeup
  <2>3. CASE Joined
    <3>1. Asleep = {} /\ Asleep' = {}
      BY <2>3 DEF Joined, Asleep
    <3> QED BY <3>1 DEF NoLostWakeup
  <2>4. ASSUME NEW w \in Workers, Spawn(w) PROVE NoLostWakeup'
    <3>1. \A v \in Workers : worker'[v] = IF v = w THEN "testing" ELSE worker[v]
      BY <2>4 DEF Spawn, TypeOK
    <3>2. /\ Notifying' = Notifying /\ queue' = queue /\ stopping' = stopping
          /\ owner # "notifying" /\ Asleep' \subseteq Asleep /\ Testing \subseteq Testing'
      BY <2>4, <3>1 DEF Spawn, calls, Asleep, Testing, Notifying
    <3> QED BY <3>2, WakeupsUndisturbed
  <2>5. ASSUME NEW w \in Workers, Sleep(w) PROVE NoLostWakeup'
    <3>1. IsFiniteSet(Testing') /\ Notifying' = Notifying
      BY <2>5, FS_Subset DEF Sleep, calls, Testing, Notifying
    <3>2. Len(queue') = 0 /\ ~stopping'
      BY <2>5 DEF Sleep
    <3>3. Cardinality(Testing') \in Nat /\ Cardinality(Notifying') \in Nat
      BY <3>1, <2>0, FS_CardinalityType
    <3> QED BY <3>2, <3>3 DEF NoLostWakeup
  <2>6. ASSUME NEW w \in Workers, SpuriousWakeup(w) PROVE NoLostWakeup'
    <3>1. /\ Notifying' = Notifying /\ queue' = queue /\ stopping' = stopping /\ owner' = owner
          /\ Asleep' \subseteq Asleep /\ Testing \subseteq Testing'
      BY <2>6 DEF SpuriousWakeup, Wake, calls, Asleep, Testing, Notifying
    <3> QED BY <3>1, WakeupsUndisturbed
  <2>7. ASSUME NEW w \in Workers, Exit(w) PROVE NoLostWakeup'
    <3>1. IsFiniteSet(Testing') /\ Notifying' = Notifying
      BY <2>7, FS_Subset DEF Exit, calls, Testing, Notifying
    <3>2. Cardinality(Testing') \in Nat /\ Cardinality(Notifying') \in Nat
      BY <3>1, <2>0, FS_CardinalityType
    <3>3. Len(queue') = 0 /\ owner' = owner /\ stopping' = stopping
      BY <2>7 DEF Exit, MayExit
    <3>4. Asleep' = Asleep
      BY <2>7 DEF Exit, Asleep, TypeOK
    <3> QED BY <3>2, <3>3, <3>4 DEF NoLostWakeup
  <2>8. ASSUME NEW w \in Workers, Pop(w) PROVE NoLostWakeup'
    <3>1. \A v \in Workers : worker'[v] = IF v = w THEN "running" ELSE worker[v]
      BY <2>8 DEF Pop, TypeOK
    <3>2. /\ Asleep' = Asleep /\ Testing' = Testing \ {w} /\ w \in Testing
          /\ Notifying' = Notifying
      BY <2>8, <3>1 DEF Pop, calls, Asleep, Testing, Notifying
    <3>3. Cardinality(Testing') = Cardinality(Testing) - 1
      BY <2>0, <3>2, CountRemoved
    <3>4. Len(queue') = Len(queue) - 1
      BY <2>8, HeadTailProperties DEF Pop, TypeOK
    <3>5. stopping' = stopping /\ owner' = owner
      BY <2>8 DEF Pop
    <3> QED BY <2>0, <3>2, <3>3, <3>4, <3>5 DEF NoLostWakeup
  <2>9. ASSUME NEW w \in Workers, TaskReturns(w) PROVE NoLostWakeup'
    <3>1. \A v \in Workers : worker'[v] = IF v = w THEN "testing" ELSE worker[v]
      BY <2>9 DEF TaskReturns, TypeOK
    <3>2. /\ Notifying' = Notifying /\ queue' = queue /\ stopping' = stopping /\ owner' = owner
          /\ Asleep' \subseteq Asleep /\ Testing \subseteq Testing'
      BY <2>9, <3>1 DEF TaskReturns, calls, Asleep, Testing, Notifying
    <3> QED BY <3>2, WakeupsUndisturbed
  <2>10. ASSUME NEW t \in Tasks, NotifyOne(t) PROVE NoLostWakeup'
    <3>1. /\ \A u \in Tasks : caller'[u] = IF u = t THEN "accepted" ELSE caller[u]
          /\ UNCHANGED <<queue, stopping, owner>>
      BY <2>10 DEF NotifyOne, TypeOK
    <3>2. Notifying' = Notifying \ {t} /\ t \in Notifying
      BY <2>10, <3>1 DEF NotifyOne, Notifying
    <3>3. Cardinality(Notifying') = Cardinality(Notifying) - 1
      BY <3>2, CountRemoved DEF CallsFinite
    <3>4. CASE Asleep = {}
      <4>1. Asleep' = {}
        BY <2>10, <3>4 DEF NotifyOne, Wake, Asleep
      <4> QED BY <4>1 DEF NoLostWakeup
    <3>5. CASE Asleep # {}
      <4>1. PICK w \in Asleep : worker' = Wake({w})
        BY <2>10, <3>5 DEF NotifyOne, Asleep
      <4>2. Testing' = Testing \cup {w} /\ w \notin Testing
        BY <4>1 DEF Wake, Testing, Asleep
      <4>3. Cardinality(Testing') = Cardinality(Testing) + 1
        BY <2>0, <4>2, CountAdded
      <4> QED BY <2>0, <3>1, <3>3, <3>5, <4>3 DEF NoLostWakeup
    <3> QED BY <3>4, <3>5
  <2>11. ASSUME NEW t \in Tasks, NEW P \in {{}} \cup {{w} : w \in Workers}, Submit(t, P)
         PROVE  NoLostWakeup'
    <3>1. /\ \A u \in Tasks : caller'[u] = IF u = t THEN "notifying" ELSE caller[u]
          /\ caller[t] = "idle" /\ UNCHANGED <<stopping, owner, worker>>
      BY <2>11 DEF Submit, Calls, TypeOK
    <3>2. Notifying' = Notifying \cup {t} /\ t \notin Notifying
      BY <3>1 DEF Notifying
    <3>3. Cardinality(Notifying') = Cardinality(Notifying) + 1
      BY <3>2, CountAdded DEF CallsFinite
    <3>4. Len(queue') = Len(queue) + 1
      BY <2>11, AppendProperties DEF Submit, TypeOK
    <3>5. Asleep' = Asleep /\ Testing' = Testing
      BY <3>1 DEF Asleep, Testing
    <3> QED BY <2>0, <3>1, <3>3, <3>4, <3>5 DEF NoLostWakeup
  <2>12. ASSUME NEW t \in Tasks, NEW P \in {{}} \cup {{w} : w \in Workers}, Refuse(t, P)
         PROVE  NoLostWakeup'
    <3>1. /\ \A u \in Tasks : caller'[u] = IF u = t THEN "refused" ELSE caller[u]
          /\ caller[t] = "idle" /\ UNCHANGED <<queue, stopping, owner, worker>>
      BY <2>12 DEF Refuse, Calls, TypeOK
    <3>2. Notifying' = Notifying /\ Asleep' = Asleep /\ Testing' = Testing
      BY <3>1 DEF Notifying, Asleep, Testing
    <3> QED BY <3>1, <3>2, WakeupsUndisturbed
  <2>13. CASE UNCHANGED vars
    <3>1. /\ Notifying' = Notifying /\ Asleep' = Asleep /\ Testing' = Testing
          /\ UNCHANGED <<queue, stopping, owner>>
      BY <2>13 DEF vars, Notifying, Asleep, Testing
    <3> QED BY <3>1, WakeupsUndisturbed
  <2> QED BY <2>1, <2>2, <2>3, <2>4, <2>5, <2>6, <2>7, <2>8, <2>9, <2>10, <2>11, <2>12,
             <2>13 DEF Next
<1> QED BY <1>1, <1>2, TypeCorrect, DrainInductive, CallsStayFinite, PTL DEF Spec

\* The guards of the steps that the destructor waits for: notify_all, a return from join
\* for each thread, a notify_one, a test of the predicate, a task that returns.
StopCanGoOn ==
  \/ owner = "notifying"
  \/ \A w \in Workers : worker[w] \in {"unborn", "exited"}
  \/ Notifying # {} \/ Testing # {}
  \/ \E w \in Workers : /\ worker[w] = "running"
                        /\ \A t \in Tasks : w \in parent[t] => caller[t] # "notifying"

\* A destructor never hangs: from the stop until the scheduler is gone, one of the steps it
\* waits for can be taken, so that no worker is left asleep behind join.
THEOREM StopIsNeverStuck == Spec => [](stopping /\ owner # "gone" => StopCanGoOn)
<1>1. TypeOK /\ NoLostWakeup => (stopping /\ owner # "gone" => StopCanGoOn)
  <2> SUFFICES ASSUME TypeOK, NoLostWakeup, stopping, owner # "notifying",
                      NEW w \in Workers, worker[w] \notin {"unborn", "exited"}, Testing = {},
                      Notifying = {}
               PROVE  /\ worker[w] = "running"
                      /\ \A t \in Tasks : w \in parent[t] => caller[t] # "notifying"
    BY DEF StopCanGoOn
  <2>1. worker[w] # "asleep"
    BY DEF NoLostWakeup, Asleep
  <2> QED BY <2>1 DEF TypeOK, WorkerStates, Testing, Notifying
<1> QED BY <1>1, TypeCorrect, NoWakeupIsLost, PTL

\* A queued task is never stranded: some worker is about to test the predicate, or runs
\* another task and will test it then, or a notification is about to wake one.
THEOREM QueueIsServed ==
  Spec => [](queue # <<>> => \/ Testing # {} \/ Notifying # {}
                             \/ \E w \in Workers : worker[w] = "running")
<1>1. ASSUME TypeOK, DrainInv, CallsFinite, NoLostWakeup, queue # <<>>
      PROVE  \/ Testing # {} \/ Notifying # {}
             \/ \E w \in Workers : worker[w] = "running"
  <2>1. PICK w \in Workers : worker[w] \notin {"unborn", "exited"}
    BY <1>1 DEF DrainInv, WorkersOutlastQueue
  <2>2. CASE worker[w] = "asleep"
    <3>1. Len(queue) <= Cardinality(Testing) + Cardinality(Notifying)
      BY <1>1, <2>2 DEF NoLostWakeup, Asleep
    <3>2. Len(queue) \in Nat \ {0}
      BY <1>1, EmptySeq, LenProperties DEF TypeOK
    <3>3. ASSUME Testing = {}, Notifying = {} PROVE FALSE
      <4>1. Cardinality(Testing) = 0 /\ Cardinality(Notifying) = 0
        BY <3>3, FS_EmptySet
      <4> QED BY <3>1, <3>2, <4>1
    <3> QED BY <3>3
  <2> QED BY <1>1, <2>1, <2>2 DEF TypeOK, WorkerStates, Testing
<1> QED BY <1>1, TypeCorrect, DrainInductive, CallsStayFinite, NoWakeupIsLost, PTL
=============================================================================
