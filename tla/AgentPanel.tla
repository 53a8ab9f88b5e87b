------------------------------ MODULE AgentPanel ------------------------------
(***************************************************************************)
(* The Agent Console (solvcon/pilot/agent/_agent_gui.py): one session, one *)
(* worker thread at a time, and the three signals by which the thread      *)
(* comes back to the Qt thread.  Meanwhile the user goes on with the       *)
(* canvases.  A canvas stands for itself and its world.  The commands of   *)
(* an answer run against whatever canvas is active then                    *)
(* (_agent_control.py), and may open, activate and close canvases.         *)
(***************************************************************************)
EXTENDS Application, AgentSession

CONSTANTS
    Canvases,      \* the canvases that can be opened
    NoCanvas,
    MaxPrompts     \* bound: how many prompts the user submits

ASSUME AgentAssumption == NoCanvas \notin Canvases /\ MaxPrompts \in Nat \ {0}

VARIABLES
    transcript, world,   \* the session: its turns and the world it is bound to
    thread,     \* the worker thread, for every prompt that got one
    mine,       \* _worker: the prompt whose worker the panel holds, or 0
    busy,       \* the prompt box is locked
    inbox,      \* signals of the threads that the Qt thread has not handled
    prompts,    \* how many prompts were submitted
    lost,       \* prompts the guard of _on_submitted() has dropped
    history,    \* what the worker of each prompt replays
    opened, active

agentVars == <<transcript, world, thread, mine, busy, inbox, prompts, lost,
               history, opened, active>>
Session == <<transcript, world>>
Desk == <<opened, active>>

ThreadStates == {"none", "sending", "answered", "over"}
Kinds == {"succeeded", "failed", "finished"}

AgentInit ==
    /\ transcript = <<>> /\ world = NoCanvas
    /\ thread = [k \in 1 .. MaxPrompts |-> "none"]
    /\ mine = 0 /\ busy = FALSE
    /\ inbox = <<>>
    /\ prompts = 0 /\ lost = {}
    /\ history = [k \in 1 .. MaxPrompts |-> <<>>]
    /\ opened = {} /\ active = NoCanvas

-----------------------------------------------------------------------------
(* The prompt. *)

\* What _on_submitted() does with the session, for the current canvas.
Recorded(prompt) ==
    /\ world' = active
    /\ transcript' = Prompted(Bound(transcript, world, active), prompt, active)

\* _on_submitted().  Without a backend the prompt is recorded and that is
\* all; with a worker around it is dropped.
Submit(backend) ==
    /\ app = "running" /\ ~ busy
    /\ prompts < MaxPrompts
    /\ prompts' = prompts + 1
    /\ IF mine # 0
       THEN /\ lost' = lost \cup {prompts'}
            /\ UNCHANGED <<Session, thread, mine, busy, history>>
       ELSE /\ Recorded(prompts')
            /\ IF backend
               THEN /\ mine' = prompts'
                    /\ busy' = TRUE
                    /\ thread' = [thread EXCEPT ![prompts'] = "sending"]
                    /\ history' = [history EXCEPT ![prompts'] = History(transcript', 0)]
               ELSE UNCHANGED <<thread, mine, busy, history>>
            /\ UNCHANGED lost
    /\ UNCHANGED <<app, inbox, Desk>>

-----------------------------------------------------------------------------
(* The worker thread: run() emits its answer, then the thread ends.  Slots  *)
(* belong to the Qt thread, so a signal waits in the inbox.                 *)

Answer(k, kind) ==
    /\ kind \in {"succeeded", "failed"}
    /\ thread[k] = "sending"
    /\ thread' = [thread EXCEPT ![k] = "answered"]
    /\ inbox' = Append(inbox, <<kind, k>>)
    /\ UNCHANGED <<app, Session, mine, busy, prompts, lost, history, Desk>>

ThreadEnds(k) ==
    /\ thread[k] = "answered"
    /\ thread' = [thread EXCEPT ![k] = "over"]
    /\ inbox' = Append(inbox, <<"finished", k>>)
    /\ UNCHANGED <<app, Session, mine, busy, prompts, lost, history, Desk>>

-----------------------------------------------------------------------------
(* The signals. *)

Handling(kind) == /\ app = "running"
                  /\ inbox # <<>> /\ Head(inbox)[1] = kind
                  /\ inbox' = Tail(inbox)

\* The canvases that commands can leave behind, and the one on top.
Rearranged == /\ opened' \in SUBSET Canvases
              /\ active' \in opened' \cup {NoCanvas}
              /\ active' = NoCanvas <=> opened' = {}

\* Mutant: only the prompt box is given back with the answer.
SucceededUnlocks ==
    /\ Handling("succeeded")
    /\ transcript' = Replied(transcript, Head(inbox)[2], active)
    /\ busy' = FALSE
    /\ Rearranged
    /\ UNCHANGED <<app, world, thread, mine, prompts, lost, history>>

\* _on_backend_succeeded(): complete_turn() runs the commands on the canvas
\* that is active now, and records the turn.
Succeeded ==
    /\ Handling("succeeded")
    /\ transcript' = Replied(transcript, Head(inbox)[2], active)
    /\ Rearranged
    /\ UNCHANGED <<app, world, thread, mine, busy, prompts, lost, history>>

\* _on_backend_failed().
Failed ==
    /\ Handling("failed")
    /\ transcript' = Replied(transcript, Head(inbox)[2], active)
    /\ UNCHANGED <<app, world, thread, mine, busy, prompts, lost, history, Desk>>

\* _on_worker_finished().
WorkerFinished ==
    /\ Handling("finished")
    /\ mine' = 0
    /\ busy' = FALSE
    /\ UNCHANGED <<app, Session, thread, prompts, lost, history, Desk>>

\* The user opens, activates and closes canvases.
Arrange ==
    /\ app = "running"
    /\ Rearranged
    /\ Desk' # Desk
    /\ UNCHANGED <<app, Session, thread, mine, busy, inbox, prompts, lost, history>>

\* _join_worker() has returned.
Joined == mine # 0 => thread[mine] = "over"

\* The event loop is left: aboutToQuit, and the end of the process.
LeaveLoop ==
    /\ app = "left" /\ Joined
    /\ app' = "gone"
    /\ UNCHANGED agentVars

AgentNext ==
    \/ \E backend \in BOOLEAN : Submit(backend)
    \/ \E k \in 1 .. MaxPrompts, kind \in Kinds : Answer(k, kind)
    \/ \E k \in 1 .. MaxPrompts : ThreadEnds(k)
    \/ Succeeded \/ Failed \/ WorkerFinished
    \/ Arrange
    \/ LeaveLoop

\* A backend answers or gives up in the end (_backends_impl.py gives every
\* call a timeout), and the event loop delivers signals.
AgentFairness ==
    /\ \A k \in 1 .. MaxPrompts :
        WF_agentVars(\E kind \in Kinds : Answer(k, kind)) /\ WF_agentVars(ThreadEnds(k))
    /\ WF_agentVars(Succeeded) /\ WF_agentVars(Failed) /\ WF_agentVars(WorkerFinished)
    /\ WF_<<app, agentVars>>(LeaveLoop)

-----------------------------------------------------------------------------
(* Properties. *)

Turns == [role : Roles, prompt : 0 .. MaxPrompts, world : Canvases \cup {NoCanvas}]

AgentTypeOK ==
    /\ transcript \in Seq(Turns) /\ world \in Canvases \cup {NoCanvas}
    /\ thread \in [1 .. MaxPrompts -> ThreadStates]
    /\ mine \in 0 .. MaxPrompts /\ busy \in BOOLEAN
    /\ inbox \in Seq(Kinds \X (1 .. MaxPrompts))
    /\ prompts \in 0 .. MaxPrompts /\ lost \subseteq 1 .. prompts
    /\ history \in [1 .. MaxPrompts -> Seq(Turns)]
    /\ opened \subseteq Canvases /\ active \in opened \cup {NoCanvas}

\* The prompt box is locked exactly while a worker is held, so whatever the
\* order in which answer and end of a thread are handled, no prompt that the
\* user could type is dropped.
NothingDropped == (busy <=> mine # 0) /\ lost = {}

IsTurn(k, role, prompt) == transcript[k].role = role /\ transcript[k].prompt = prompt

\* When the panel is free again, each prompt that had a worker has exactly
\* one reply, which comes after it and before any later prompt.
OneReply ==
    \A p \in 1 .. prompts :
        LET asked == {k \in DOMAIN transcript : IsTurn(k, "user", p)}
            replies == {k \in DOMAIN transcript : IsTurn(k, "agent", p)}
            later == {k \in DOMAIN transcript :
                        transcript[k].role = "user" /\ transcript[k].prompt > p}
        IN  /\ Cardinality(replies) <= 1
            /\ thread[p] # "none" /\ mine # p => Cardinality(replies) = 1
            /\ \A r \in replies : \A a \in asked : a < r
            /\ \A r \in replies : \A n \in later : r < n

\* Prompts about different worlds are separated by a marker, so that no
\* backend reads the shape ids of one canvas as those of another
\* (bind_world's comment), however often the user switched in between.
SwitchesMarked ==
    \A i, j \in DOMAIN transcript :
        /\ i < j /\ transcript[i].role = "user" /\ transcript[j].role = "user"
        /\ transcript[i].world # transcript[j].world
        => \E k \in i .. j : transcript[k].role = "marker"

\* What a worker replays is what was said before its prompt: never the
\* prompt itself, and every reply given until then.
HistoryBefore ==
    \A p \in 1 .. prompts :
        thread[p] # "none" =>
            /\ \A k \in DOMAIN history[p] : history[p][k].prompt < p
            /\ \A r \in DOMAIN transcript :
                transcript[r].role = "agent" /\ transcript[r].prompt < p
                    => Contains(history[p], transcript[r])

\* No backend call outlives the application.
NoThreadLeft == app = "gone" => \A p \in 1 .. prompts : thread[p] \in {"none", "over"}

\* A prompt gets the panel back, whatever became of the backend, unless the
\* pilot quits first.
PanelReturns == mine # 0 ~> ~ busy \/ app # "running"

\* The transcript of a session is a conversation: everything that was typed is
\* in it and answered once, worlds are kept apart, and every backend was told
\* what came before.  (Whether the shapes an answer names are still there is not
\* part of it: the code does not look, see TODO #966 in _on_backend_succeeded.)
Conversation == NothingDropped /\ OneReply /\ SwitchesMarked /\ HistoryBefore
=============================================================================
