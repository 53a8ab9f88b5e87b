--------------------------- MODULE WorkflowService ---------------------------
(***************************************************************************)
(* What RThreadManager promises (RThreadManager.hpp:118-135, 225): every    *)
(* workflow it accepts is answered once, never while a task still owes it  *)
(* a completion callback, and all of them before the manager has stopped.  *)
(***************************************************************************)
CONSTANTS Workflows, Tasks

VARIABLES
    stage,    \* how far each workflow is
    owing,    \* the tasks that owe each workflow a callback
    service   \* "up", "stopping" or "stopped"

vars == <<stage, owing, service>>

Init ==
    /\ stage = [w \in Workflows |-> "new"]
    /\ owing = [w \in Workflows |-> {}]
    /\ service = "up"

Accept(w) ==
    /\ service = "up"
    /\ stage[w] = "new"
    /\ stage' = [stage EXCEPT ![w] = "queued"]
    /\ UNCHANGED <<owing, service>>

Start(w) ==
    /\ stage[w] = "queued"
    /\ stage' = [stage EXCEPT ![w] = "running"]
    /\ UNCHANGED <<owing, service>>

Ask(w, s) ==
    /\ stage[w] = "running"
    /\ \A v \in Workflows : s \notin owing[v]
    /\ owing' = [owing EXCEPT ![w] = @ \cup {s}]
    /\ UNCHANGED <<stage, service>>

CallBack(w, s) ==
    /\ stage[w] = "running"
    /\ s \in owing[w]
    /\ owing' = [owing EXCEPT ![w] = @ \ {s}]
    /\ UNCHANGED <<stage, service>>

Answer(w) ==
    /\ stage[w] = "running"
    /\ owing[w] = {}
    /\ stage' = [stage EXCEPT ![w] = "answered"]
    /\ UNCHANGED <<owing, service>>

\* A workflow that never started is answered only to make the manager stop.
Refuse(w) ==
    /\ service = "stopping"
    /\ stage[w] = "queued"
    /\ stage' = [stage EXCEPT ![w] = "answered"]
    /\ UNCHANGED <<owing, service>>

Stop ==
    /\ service = "up"
    /\ service' = "stopping"
    /\ UNCHANGED <<stage, owing>>

Stopped ==
    /\ service = "stopping"
    /\ \A w \in Workflows : stage[w] \in {"new", "answered"}
    /\ service' = "stopped"
    /\ UNCHANGED <<stage, owing>>

Next ==
    \/ \E w \in Workflows : Accept(w) \/ Start(w) \/ Answer(w) \/ Refuse(w)
    \/ \E w \in Workflows, s \in Tasks : Ask(w, s) \/ CallBack(w, s)
    \/ Stop
    \/ Stopped

Spec == Init /\ [][Next]_vars

=============================================================================
