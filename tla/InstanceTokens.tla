--------------------------- MODULE InstanceTokens ---------------------------
(***************************************************************************)
(* What the instance calls of the C interface promise (ku_runtime.h): one  *)
(* instance may be active for each vendor; a handle is a uniquely owned    *)
(* token; destroying it always invalidates the instance, after which the   *)
(* vendor may be initialized again.  Each call takes effect at one moment  *)
(* between being asked and being answered, so threads see one order.       *)
(***************************************************************************)
CONSTANTS
  Threads, Vendors,
  Instances,   (* addresses an instance may have                            *)
  Nothing      (* no instance, or no answer yet                             *)

VARIABLES
  active,      (* the active instance of each vendor, or Nothing            *)
  tokens,      (* the handles that their owners hold                        *)
  request,     (* what each thread asks for                                 *)
  outcome,     (* what it will be answered                                  *)
  stale        (* those that flush an instance destroyed since they asked   *)

vars == <<active, tokens, request, outcome, stale>>

Idle == <<"none", Nothing>>

Requests == ({"init"} \X Vendors) \cup ({"flush", "destroy"} \X Instances)

Init ==
  /\ active = [v \in Vendors |-> Nothing] /\ tokens = {}
  /\ request = [t \in Threads |-> Idle] /\ outcome = [t \in Threads |-> Nothing]
  /\ stale = {}

IsActive(i) == \E v \in Vendors : active[v] = i

Asks(t, op)     == request[t][1] = op /\ outcome[t] = Nothing
Decide(t, what) == outcome' = [outcome EXCEPT ![t] = what] /\ UNCHANGED <<tokens, request>>

\* A handle is used by those its owner lends it to, and destroyed by the owner.
Ask(t) ==
  /\ request[t] = Idle
  /\ \E req \in Requests :
       /\ req[1] # "init" => req[2] \in tokens
       /\ request' = [request EXCEPT ![t] = req]
       /\ tokens' = IF req[1] = "destroy" THEN tokens \ {req[2]} ELSE tokens
  /\ UNCHANGED <<active, outcome, stale>>

Activate(t) ==
  /\ Asks(t, "init") /\ active[request[t][2]] = Nothing
  /\ \E i \in Instances :
       /\ ~IsActive(i)
       /\ active' = [active EXCEPT ![request[t][2]] = i]
       /\ Decide(t, i)
  /\ UNCHANGED stale

AlreadyInitialized(t) ==
  /\ Asks(t, "init") /\ active[request[t][2]] # Nothing
  /\ Decide(t, "ALREADY_INITIALIZED") /\ UNCHANGED <<active, stale>>

\* Arguments may be wrong at any time; the backend fails only where it is needed.
InitFails(t) ==
  /\ Asks(t, "init")
  /\ \/ Decide(t, "INVALID_ARGUMENT")
     \/ active[request[t][2]] = Nothing /\ Decide(t, "FAILED")
  /\ UNCHANGED <<active, stale>>

\* A flush that overlaps the destruction of its instance may come too late, even though
\* an instance lives at the same address again.
Flush(t) ==
  /\ Asks(t, "flush")
  /\ \/ IsActive(request[t][2]) /\ Decide(t, "PERFORMED")
     \/ ~IsActive(request[t][2]) /\ Decide(t, "INVALID_ARGUMENT")
     \/ t \in stale /\ Decide(t, "INVALID_ARGUMENT")
  /\ UNCHANGED <<active, stale>>

Destroy(t) ==
  /\ Asks(t, "destroy") /\ IsActive(request[t][2])
  /\ active' = [v \in Vendors |-> IF active[v] = request[t][2] THEN Nothing ELSE active[v]]
  /\ stale' = stale \cup {u \in Threads : Asks(u, "flush") /\ request[u][2] = request[t][2]}
  /\ Decide(t, "PERFORMED")

Answer(t) ==
  /\ outcome[t] # Nothing
  /\ request' = [request EXCEPT ![t] = Idle] /\ outcome' = [outcome EXCEPT ![t] = Nothing]
  /\ tokens' = tokens \cup ({outcome[t]} \cap Instances)
  /\ stale' = stale \ {t}
  /\ UNCHANGED active

Next ==
  \E t \in Threads :
    Ask(t) \/ Activate(t) \/ AlreadyInitialized(t) \/ InitFails(t) \/ Flush(t) \/ Destroy(t)
    \/ Answer(t)

Spec == Init /\ [][Next]_vars
=============================================================================
