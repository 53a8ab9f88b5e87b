---------------------------- MODULE WorkflowHandle ----------------------------
(***************************************************************************)
(* RWorkflowHandle (cpp/solvcon/pilot/app/RThreadManager.cpp:201-250), the  *)
(* owner's view of one workflow: the events that reach it on the Qt thread, *)
(* and the owner's callbacks, which may register callbacks, run an event    *)
(* loop of their own or destroy the owner while the handle is calling them. *)
(*                                                                         *)
(* A callback is one std::function, registered once.  The memory of a      *)
(* handle keeps its values after the handle is destroyed.                  *)
(***************************************************************************)
EXTENDS Naturals, Sequences

CONSTANTS
    StateCallbacks,   \* the callbacks the owner may pass to onStateChanged()
    FinishCallbacks,  \* the callbacks it may pass to onFinished()
    None

ASSUME CallbacksAssumption ==
    /\ StateCallbacks \cap FinishCallbacks = {}
    /\ None \notin StateCallbacks \cup FinishCallbacks

VARIABLES
    alive,       \* the handle was not destroyed
    state,       \* m_state
    answered,    \* m_result has a value
    onState,     \* m_on_state_changed
    onFinished,  \* m_on_finished
    fresh,       \* the callbacks the owner has not registered yet
    posted,      \* the events the workflow thread has posted
    events,      \* those that wait on the Qt thread
    frames,      \* the callbacks that are running on the Qt thread, outermost first
    calls        \* how often each callback of FinishCallbacks was called

handleVars == <<alive, state, answered, onState, onFinished>>
workflowVars == <<posted, events>>
vars == <<handleVars, fresh, workflowVars, frames, calls>>

\* A callback that runs, and whether deliver() goes on after it.
Frame == [callback : StateCallbacks \cup FinishCallbacks, delivering : BOOLEAN]
Events == {"running", "finished"}

TypeOK ==
    /\ alive \in BOOLEAN
    /\ state \in {"queued", "running", "finished"}
    /\ answered \in BOOLEAN
    /\ onState \in StateCallbacks \cup {None}
    /\ onFinished \in FinishCallbacks \cup {None}
    /\ fresh \subseteq StateCallbacks \cup FinishCallbacks
    /\ posted \in Seq(Events)
    /\ events \in Seq(Events)
    /\ frames \in Seq(Frame)
    /\ calls \in [FinishCallbacks -> Nat]

Init ==
    /\ alive = TRUE
    /\ state = "queued"
    /\ answered = FALSE
    /\ onState = None
    /\ onFinished = None
    /\ fresh = StateCallbacks \cup FinishCallbacks
    /\ posted = <<>>
    /\ events = <<>>
    /\ frames = <<>>
    /\ calls = [c \in FinishCallbacks |-> 0]

-----------------------------------------------------------------------------
(* The workflow thread posts Running when the workflow starts, and the      *)
(* result once; a workflow that is cancelled before it starts has only that. *)

PostEvent(e) ==
    /\ "finished" \notin {posted[i] : i \in DOMAIN posted}
    /\ e = "running" => posted = <<>>
    /\ posted' = Append(posted, e)
    /\ events' = Append(events, e)
    /\ UNCHANGED <<handleVars, fresh, frames, calls>>

-----------------------------------------------------------------------------
(* The Qt thread, in the handle.                                           *)

Call(c, delivering) ==
    frames' = Append(frames, [callback |-> c, delivering |-> delivering])

\* Mutant: the callback stays registered while it runs.
FlushKeeps(below, callback, result) ==
    IF result /\ callback # None
    THEN /\ frames' = Append(below, [callback |-> callback, delivering |-> FALSE])
         /\ onFinished' = callback
         /\ calls' = [calls EXCEPT ![callback] = @ + 1]
    ELSE frames' = below /\ onFinished' = callback /\ UNCHANGED calls

\* flush(), above the frames below: it takes the callback out before it calls it.
Flush(below, callback, result) ==
    IF result /\ callback # None
    THEN /\ frames' = Append(below, [callback |-> callback, delivering |-> FALSE])
         /\ onFinished' = None
         /\ calls' = [calls EXCEPT ![callback] = @ + 1]
    ELSE frames' = below /\ onFinished' = callback /\ UNCHANGED calls

\* setState(Running).
HandleRunning ==
    /\ alive
    /\ events # <<>> /\ Head(events) = "running"
    /\ events' = Tail(events)
    /\ state' = "running"
    /\ IF onState = None THEN UNCHANGED frames ELSE Call(onState, FALSE)
    /\ UNCHANGED <<alive, answered, onState, onFinished, fresh, posted, calls>>

\* deliver(), up to its end or to the state callback.
Deliver ==
    /\ alive
    /\ events # <<>> /\ Head(events) = "finished"
    /\ events' = Tail(events)
    /\ answered' = TRUE
    /\ state' = "finished"
    /\ IF onState = None
       THEN Flush(frames, onFinished, TRUE)
       ELSE Call(onState, TRUE) /\ UNCHANGED <<onFinished, calls>>
    /\ UNCHANGED <<alive, onState, fresh, posted>>

\* An event for a handle that is gone.
DropEvent ==
    /\ ~alive
    /\ events # <<>>
    /\ events' = Tail(events)
    /\ UNCHANGED <<handleVars, fresh, posted, frames, calls>>

\* Mutant: deliver() goes on without looking at its guard.
FlushUnguarded(frame) == frame.delivering

\* deliver() flushes after its state callback only if the handle survived it.
FlushAfter(frame) == frame.delivering /\ alive

\* The innermost callback returns.
Return ==
    /\ frames # <<>>
    /\ LET below == SubSeq(frames, 1, Len(frames) - 1) IN
       IF FlushAfter(frames[Len(frames)])
       THEN Flush(below, onFinished, answered)
       ELSE frames' = below /\ UNCHANGED <<onFinished, calls>>
    /\ UNCHANGED <<alive, state, answered, onState, fresh, workflowVars>>

-----------------------------------------------------------------------------
(* The owner, on the Qt thread: from the event loop or from a callback.     *)

OnStateChanged(c) ==
    /\ alive
    /\ c \in fresh
    /\ onState' = c
    /\ fresh' = fresh \ {c}
    /\ UNCHANGED <<alive, state, answered, onFinished, workflowVars, frames, calls>>

\* Mutant: a callback waits for the event, which may have come.
OnFinishedWaits(c) ==
    /\ alive
    /\ c \in fresh
    /\ fresh' = fresh \ {c}
    /\ onFinished' = c
    /\ UNCHANGED <<alive, state, answered, onState, workflowVars, frames, calls>>

OnFinished(c) ==
    /\ alive
    /\ c \in fresh
    /\ fresh' = fresh \ {c}
    /\ Flush(frames, c, answered)
    /\ UNCHANGED <<alive, state, answered, onState, workflowVars>>

Destroy ==
    /\ alive
    /\ alive' = FALSE
    /\ UNCHANGED <<state, answered, onState, onFinished, fresh, workflowVars, frames, calls>>

Owner ==
    \/ \E c \in StateCallbacks : OnStateChanged(c)
    \/ \E c \in FinishCallbacks : OnFinished(c)
    \/ Destroy

Handle == HandleRunning \/ Deliver \/ DropEvent \/ Return

Next ==
    \/ \E e \in Events : PostEvent(e)
    \/ Handle
    \/ Owner

\* Callbacks return and the Qt thread runs its events; nobody has to register,
\* finish or destroy anything.
Spec == Init /\ [][Next]_vars /\ WF_vars(Handle)

-----------------------------------------------------------------------------
(* What makes it correct.                                                  *)

Delivering == \E i \in DOMAIN frames : frames[i].delivering

\* onFinished() "runs once with the terminal result, also when registered after
\* the result arrived", and flush() consumes the callback "so a reentrant
\* registration cannot run it twice" (RThreadManager.hpp:178, 187): no callback
\* runs twice, none runs before the owner could see Finished, and none is left
\* waiting unless deliver() is still to flush.
RunsOnce ==
    /\ \A c \in FinishCallbacks : calls[c] <= 1
    /\ (\E c \in FinishCallbacks : calls[c] > 0) => answered /\ state = "finished"
    /\ alive /\ answered /\ onFinished # None => Delivering

\* The invariant of the handle: what it may hold, and what it may have called.
HandleInv == TypeOK /\ RunsOnce

\* A destroyed handle calls nobody.
NothingAfterDestroy == [][~alive => Len(frames') <= Len(frames) /\ UNCHANGED calls]_vars

\* The last callback the owner registered hears of the result, unless the owner
\* replaced it or goes away.
ResultArrives ==
    \A c \in FinishCallbacks :
        "finished" \in {posted[i] : i \in DOMAIN posted} /\ onFinished = c
            ~> calls[c] = 1 \/ onFinished # c \/ ~alive

=============================================================================
