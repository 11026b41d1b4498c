---------------------------- MODULE WatchHandles ----------------------------
(***************************************************************************)
(* The contract both watch engines promise for their Watch Handles and    *)
(* for themselves (spec.md sections 3 and 4).                               *)
(*                                                                         *)
(* A handle is "pending" while register blocks; the event-loop thread      *)
(* decides its outcome and, on success, puts it in the registry (active). *)
(* register returns the outcome the thread decided.  unregister blocks     *)
(* until the thread has taken the handle out of the registry.  A handle   *)
(* may become permanently invalid at any time after register began.       *)
(* The engine starts its thread, opens (or fails to, StartupError), and   *)
(* on close stops the thread, which empties the registry, before close    *)
(* returns.  A RuntimeFault stops the thread at any time after open and   *)
(* invalidates every registered handle.  Notifications are not part of   *)
(* this contract: their order is what the detailed modules check.         *)
(***************************************************************************)
CONSTANT Handles

VARIABLES
    engine,     \* "starting", "open", "closing", "closed"
    serving,    \* the event-loop thread runs
    handle,     \* "none", "pending", "registered", "unregistering", "unregistered", "failed"
    outcome,    \* the thread's decision on a pending register: "none", "ok", "fail"
    active,     \* the handle is in the thread's registry
    valid       \* the handle is not in its error state

vars == <<engine, serving, handle, outcome, active, valid>>

HandleStates == {"none", "pending", "registered", "unregistering", "unregistered", "failed"}

TypeOK ==
    /\ engine \in {"starting", "open", "closing", "closed"}
    /\ serving \in BOOLEAN
    /\ handle \in [Handles -> HandleStates]
    /\ outcome \in [Handles -> {"none", "ok", "fail"}]
    /\ active \in [Handles -> BOOLEAN]
    /\ valid \in [Handles -> BOOLEAN]

Init ==
    /\ \/ engine = "starting" /\ ~serving
       \/ engine = "open" /\ serving
    /\ handle = [h \in Handles |-> "none"]
    /\ outcome = [h \in Handles |-> "none"]
    /\ active = [h \in Handles |-> FALSE]
    /\ valid = [h \in Handles |-> TRUE]

(* The event-loop thread comes up, then open returns: the engine if the   *)
(* thread is up, a StartupError otherwise.                                 *)
Start ==
    /\ engine = "starting"
    /\ ~serving
    /\ serving' = TRUE
    /\ UNCHANGED <<engine, handle, outcome, active, valid>>

Open ==
    /\ engine = "starting"
    /\ engine' = IF serving THEN "open" ELSE "closed"
    /\ UNCHANGED <<serving, handle, outcome, active, valid>>

Register(h) ==
    /\ engine \in {"open", "closing"}
    /\ handle[h] = "none"
    /\ handle' = [handle EXCEPT ![h] = "pending"]
    /\ UNCHANGED <<engine, serving, outcome, active, valid>>

(* register fails with a ResourceError on the calling thread, before the  *)
(* command reaches the event-loop thread (section 4.3: resource limits).   *)
RegisterRefused(h) ==
    /\ engine \in {"open", "closing"}
    /\ handle[h] = "none"
    /\ handle' = [handle EXCEPT ![h] = "failed"]
    /\ UNCHANGED <<engine, serving, outcome, active, valid>>

(* The thread decides a pending register; success enters the registry.   *)
Accept(h) ==
    /\ serving
    /\ handle[h] = "pending"
    /\ outcome[h] = "none"
    /\ \/ /\ outcome' = [outcome EXCEPT ![h] = "ok"]
          /\ active' = [active EXCEPT ![h] = TRUE]
       \/ /\ outcome' = [outcome EXCEPT ![h] = "fail"]
          /\ UNCHANGED active
    /\ UNCHANGED <<engine, serving, handle, valid>>

(* register returns what the thread decided; once the engine is closed a  *)
(* register the thread never decided returns a failure.                   *)
RegisterReturn(h) ==
    /\ handle[h] = "pending"
    /\ \/ outcome[h] = "ok" /\ handle' = [handle EXCEPT ![h] = "registered"]
       \/ outcome[h] = "fail" /\ handle' = [handle EXCEPT ![h] = "failed"]
       \/ /\ outcome[h] = "none"
          /\ engine = "closed"
          /\ handle' = [handle EXCEPT ![h] = "failed"]
    /\ outcome' = [outcome EXCEPT ![h] = "none"]
    /\ UNCHANGED <<engine, serving, active, valid>>

Unregister(h) ==
    /\ engine \in {"open", "closing"}
    /\ handle[h] = "registered"
    /\ handle' = [handle EXCEPT ![h] = "unregistering"]
    /\ UNCHANGED <<engine, serving, outcome, active, valid>>

Deactivate(h) ==
    /\ handle[h] = "unregistering"
    /\ active[h]
    /\ active' = [active EXCEPT ![h] = FALSE]
    /\ UNCHANGED <<engine, serving, handle, outcome, valid>>

UnregisterReturn(h) ==
    /\ handle[h] = "unregistering"
    /\ ~active[h]
    /\ handle' = [handle EXCEPT ![h] = "unregistered"]
    /\ UNCHANGED <<engine, serving, outcome, active, valid>>

Invalidate(h) ==
    /\ valid[h]
    /\ handle[h] \notin {"none", "failed"}
    /\ valid' = [valid EXCEPT ![h] = FALSE]
    /\ UNCHANGED <<engine, serving, handle, outcome, active>>

CloseBegin ==
    /\ engine = "open"
    /\ engine' = "closing"
    /\ UNCHANGED <<serving, handle, outcome, active, valid>>

(* The thread stops during close and the registry is emptied.           *)
EngineStop ==
    /\ engine = "closing"
    /\ serving
    /\ serving' = FALSE
    /\ active' = [h \in Handles |-> FALSE]
    /\ UNCHANGED <<engine, handle, outcome, valid>>

(* RuntimeFault: the OS event facility fails, at any time after open;    *)
(* every handle in the registry becomes invalid and the thread exits.     *)
(* The engine stays unusable until it is closed.                          *)
RuntimeFault ==
    /\ engine \in {"open", "closing"}
    /\ serving
    /\ serving' = FALSE
    /\ active' = [h \in Handles |-> FALSE]
    /\ valid' = [h \in Handles |-> valid[h] /\ ~active[h]]
    /\ UNCHANGED <<engine, handle, outcome>>

CloseEnd ==
    /\ engine = "closing"
    /\ ~serving
    /\ engine' = "closed"
    /\ UNCHANGED <<serving, handle, outcome, active, valid>>

Next ==
    \/ Start \/ Open \/ CloseBegin \/ EngineStop \/ RuntimeFault \/ CloseEnd
    \/ \E h \in Handles :
         \/ Register(h) \/ RegisterRefused(h) \/ Accept(h) \/ RegisterReturn(h)
         \/ Unregister(h) \/ Deactivate(h) \/ UnregisterReturn(h)
         \/ Invalidate(h)

Spec == Init /\ [][Next]_vars
=============================================================================
