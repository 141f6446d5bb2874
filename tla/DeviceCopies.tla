---------------------------- MODULE DeviceCopies ----------------------------
(***************************************************************************)
(* What the asynchronous copies of a device promise to the one who makes   *)
(* them (ku_tensor_create_from_host_async, ku_device_copy_async,           *)
(* KuDevice::flush and shutdown): each accepted copy ends once, with       *)
(* SUCCESS only if all of it arrived; the memory of an uploaded tensor     *)
(* stays until the copy has ended and the user has given the tensor up; a  *)
(* flush waits for what was handed over before it; and the device goes     *)
(* down with no copy under way and no tensor left.  No scheduler, no lane, *)
(* no counter and no condition variable appears here: KuHostTransfer is    *)
(* shown to implement this specification.                                  *)
(***************************************************************************)
CONSTANTS
  Copies,     (* the requests, uploads and downloads                        *)
  Flushers    (* threads that may flush the device                          *)

VARIABLES
  outcome,    (* per copy: new, refused, under way, SUCCESS or DEVICE_ERROR *)
  arrived,    (* copies all of whose data reached the destination           *)
  handed,     (* copies whose completion the caller has been given          *)
  told,       (* copies whose completion has been signalled                 *)
  memory,     (* per copy, its tensor's memory: none, held or released      *)
  kept,       (* copies whose tensor the user refers to                     *)
  flushing,   (* threads inside flush                                       *)
  owed,       (* per thread, the copies that its flush waits for            *)
  due,        (* per thread, the tensors that its flush sees released       *)
  device      (* up or down                                                 *)

vars == <<outcome, arrived, handed, told, memory, kept, flushing, owed, due, device>>
copying == <<outcome, arrived, handed, told>>
tensors == <<memory, kept>>
flushes == <<flushing, owed, due>>

Init ==
  /\ outcome = [c \in Copies |-> "new"] /\ arrived = {} /\ handed = {} /\ told = {}
  /\ memory = [c \in Copies |-> "none"] /\ kept = {}
  /\ flushing = {}
  /\ owed = [f \in Flushers |-> {}] /\ due = [f \in Flushers |-> {}]
  /\ device = "up"

Ended(c) == outcome[c] \in {"SUCCESS", "DEVICE_ERROR"}

\* An upload begins with a tensor.
Create(c) ==
  /\ device = "up" /\ outcome[c] = "new" /\ memory[c] = "none"
  /\ memory' = [memory EXCEPT ![c] = "held"] /\ kept' = kept \cup {c}
  /\ UNCHANGED <<copying, flushes, device>>

Refuse(c) ==
  /\ outcome[c] = "new"
  /\ outcome' = [outcome EXCEPT ![c] = "refused"]
  /\ UNCHANGED <<arrived, handed, told, tensors, flushes, device>>

\* The caller gets its completion at once or, an upload, a little later.
Accept(c) ==
  /\ device = "up" /\ outcome[c] = "new"
  /\ outcome' = [outcome EXCEPT ![c] = "under way"]
  /\ handed' \in {handed, handed \cup {c}}
  /\ UNCHANGED <<arrived, told, tensors, flushes, device>>

HandOver(c) ==
  /\ outcome[c] \notin {"new", "refused"}
  /\ handed' = handed \cup {c}
  /\ UNCHANGED <<outcome, arrived, told, tensors, flushes, device>>

\* Its memory is there while data moves.
Arrive(c) ==
  /\ outcome[c] = "under way" /\ memory[c] # "released"
  /\ arrived' = arrived \cup {c}
  /\ UNCHANGED <<outcome, handed, told, tensors, flushes, device>>

End(c, s) ==
  /\ outcome[c] = "under way" /\ (s = "SUCCESS" => c \in arrived)
  /\ outcome' = [outcome EXCEPT ![c] = s]
  /\ UNCHANGED <<arrived, handed, told, tensors, flushes, device>>

\* The completion is signalled once, with a copy that has ended.
Tell(c) ==
  /\ Ended(c) /\ c \notin told
  /\ told' = told \cup {c}
  /\ UNCHANGED <<outcome, arrived, handed, tensors, flushes, device>>

\* The user gives the tensor up, or the failed call does, and is then rid of it unless the
\* copy is still under way or just ending.
Free(c) ==
  /\ memory[c] = "held" /\ (Ended(c) \/ outcome[c] = "refused")
  /\ memory' = [memory EXCEPT ![c] = "released"]

GiveUp(c) ==
  /\ c \in kept /\ (c \in handed \/ outcome[c] = "refused")
  /\ kept' = kept \ {c}
  /\ Free(c) \/ UNCHANGED memory
  /\ UNCHANGED <<copying, flushes, device>>

\* The end of the copy releases what the user has given up.
FreeAbandoned(c) ==
  /\ c \notin kept /\ Free(c)
  /\ UNCHANGED <<copying, kept, flushes, device>>

\* A flush waits for the copies handed over before, and for the tensors given up before.
BeginFlush(f) ==
  /\ device = "up" /\ f \notin flushing
  /\ flushing' = flushing \cup {f}
  /\ owed' = [owed EXCEPT ![f] = handed]
  /\ due' = [due EXCEPT ![f] = {c \in handed : memory[c] # "none" /\ c \notin kept}]
  /\ UNCHANGED <<copying, tensors, device>>

EndFlush(f) ==
  /\ f \in flushing
  /\ \A c \in owed[f] : Ended(c)
  /\ \A c \in due[f] : memory[c] = "released"
  /\ flushing' = flushing \ {f}
  /\ owed' = [owed EXCEPT ![f] = {}] /\ due' = [due EXCEPT ![f] = {}]
  /\ UNCHANGED <<copying, tensors, device>>

\* The device goes down with nothing under way, no tensor in memory and nobody flushing.
GoDown ==
  /\ device = "up" /\ flushing = {}
  /\ \A c \in Copies : outcome[c] # "under way" /\ memory[c] # "held"
  /\ device' = "down"
  /\ UNCHANGED <<copying, tensors, flushes>>

Next ==
  \/ \E c \in Copies : \/ Create(c) \/ Refuse(c) \/ Accept(c) \/ HandOver(c) \/ Arrive(c)
                       \/ (\E s \in {"SUCCESS", "DEVICE_ERROR"} : End(c, s)) \/ Tell(c)
                       \/ GiveUp(c) \/ FreeAbandoned(c)
  \/ \E f \in Flushers : BeginFlush(f) \/ EndFlush(f)
  \/ GoDown

Spec == Init /\ [][Next]_vars
=============================================================================
