---------------------------- MODULE ThreadManager ----------------------------
(***************************************************************************)
(* RThreadManager (cpp/solvcon/pilot/app/RThreadManager.cpp): the Qt       *)
(* thread that submits workflows and shuts the manager down, the workflow  *)
(* thread that runs their callbacks, the task threads, the jobs that go    *)
(* from one to another and the events that go back to the Qt thread.       *)
(*                                                                         *)
(* Module Scheduler shows that a thread serves its queue as JobQueue says, *)
(* so a critical section of m_mutex is one step here.  A job is named by   *)
(* what it is about: a workflow stands for its StartWorkflowJob, a task in *)
(* the queue of a task thread for its TaskJob and a task in the queue of   *)
(* the workflow thread for its CompletionJob.                              *)
(***************************************************************************)
EXTENDS Naturals, Sequences, FiniteSets

CONSTANTS
    Workflows,       \* the workflows ever submitted
    Tasks,           \* the tasks that can be on their way at a time
    TaskThreads,     \* the names task threads may be registered under
    WorkflowThread,  \* m_workflow_thread
    Retriers,        \* workflows that submit again after a task failed them
    LateSubmitters,  \* workflows that submit from cancel() or close()
    None

Results == {"succeeded", "failed", "cancelled"}

ASSUME NamesAssumption ==
    /\ Workflows \cap Tasks = {}
    /\ None \notin Workflows \cup Tasks \cup Results
    /\ WorkflowThread \notin TaskThreads
    /\ None \notin TaskThreads \cup {WorkflowThread}
    /\ {"free", "asked"} \cap (TaskThreads \cup {WorkflowThread}) = {}

ASSUME TasksAssumption == IsFiniteSet(Tasks)

Threads == TaskThreads \cup {WorkflowThread}

VARIABLES
    phase,        \* of each thread: registered, serving, m_exited or joinable
    stopping,     \* m_stopping of each thread
    queue,        \* m_queue of each thread
    hand,         \* the job each thread took from its queue
    cancelling,   \* loop()'s copy of m_stopping, made when it took the job
    entry,        \* where the WorkflowEntry of each workflow is
    result,       \* the result in the context of each workflow
    submissions,  \* the submissions in the context of each workflow
    pending,      \* pending_callbacks of each workflow
    at,           \* where each task is: free, asked for, or on a thread
    owner,        \* the workflow that submitted each task
    target,       \* the thread each task was submitted to
    outcome,      \* what each task was completed with
    step,         \* what the workflow thread is doing
    current,      \* the workflow it does that for
    strays,       \* tasks whose callback ran off the workflow thread
    handle,       \* the state each RWorkflowHandle shows
    events,       \* the events posted to the Qt thread
    qt,           \* what the Qt thread is doing
    joining       \* the thread that shutdown() joins

threadVars == <<phase, stopping, queue, hand, cancelling>>
contextVars == <<entry, result, submissions, pending>>
taskVars == <<at, owner, target, outcome>>
stepVars == <<step, current>>
qtVars == <<handle, events, qt, joining>>
vars == <<threadVars, contextVars, taskVars, stepVars, strays, qtVars>>

Event == [to : Workflows, state : {"running", "finished"}]

TypeOK ==
    /\ phase \in [Threads -> {"absent", "serving", "exited", "ended"}]
    /\ stopping \in [Threads -> BOOLEAN]
    /\ queue \in [Threads -> Seq(Workflows \cup Tasks)]
    /\ hand \in [Threads -> Workflows \cup Tasks \cup {None}]
    /\ cancelling \in [Threads -> BOOLEAN]
    /\ entry \in [Workflows -> {"none", "queued", "starting", "open", "closed"}]
    /\ result \in [Workflows -> Results \cup {None}]
    /\ submissions \in [Workflows -> Seq(Tasks)]
    /\ pending \in [Workflows -> Nat]
    /\ at \in [Tasks -> Threads \cup {"free", "asked"}]
    /\ owner \in [Tasks -> Workflows \cup {None}]
    /\ target \in [Tasks -> TaskThreads \cup {None}]
    /\ outcome \in [Tasks -> Results \cup {None}]
    /\ step \in {"idle", "user", "dispatch", "closing"}
    /\ current \in Workflows \cup {None}
    /\ strays \subseteq Tasks
    /\ handle \in [Workflows -> {"none", "queued", "running", "finished", "gone"}]
    /\ events \in Seq(Event)
    /\ qt \in {"serving", "stopping", "stopped", "gone"}
    /\ joining \in Threads \cup {None}

Init ==
    /\ phase = [t \in Threads |-> IF t = WorkflowThread THEN "serving" ELSE "absent"]
    /\ stopping = [t \in Threads |-> FALSE]
    /\ queue = [t \in Threads |-> <<>>]
    /\ hand = [t \in Threads |-> None]
    /\ cancelling = [t \in Threads |-> FALSE]
    /\ entry = [w \in Workflows |-> "none"]
    /\ result = [w \in Workflows |-> None]
    /\ submissions = [w \in Workflows |-> <<>>]
    /\ pending = [w \in Workflows |-> 0]
    /\ at = [s \in Tasks |-> "free"]
    /\ owner = [s \in Tasks |-> None]
    /\ target = [s \in Tasks |-> None]
    /\ outcome = [s \in Tasks |-> None]
    /\ step = "idle"
    /\ current = None
    /\ strays = {}
    /\ handle = [w \in Workflows |-> "none"]
    /\ events = <<>>
    /\ qt = "serving"
    /\ joining = None

Exited(t) == phase[t] \in {"exited", "ended"}

\* The thread is between two jobs, with nothing of the last one left to do.
Waiting(t) ==
    /\ hand[t] = None
    /\ t = WorkflowThread => step = "idle"

\* The job of thread t is over, and with it loop()'s locals.
DropJob(t) ==
    /\ hand' = [hand EXCEPT ![t] = None]
    /\ cancelling' = [cancelling EXCEPT ![t] = FALSE]

\* The completion callback of task s is over.
Forget(s) ==
    /\ at' = [at EXCEPT ![s] = "free"]
    /\ owner' = [owner EXCEPT ![s] = None]
    /\ outcome' = [outcome EXCEPT ![s] = None]

\* post(): a queued call on the Qt thread.
Post(w, state) == events' = Append(events, [to |-> w, state |-> state])

-----------------------------------------------------------------------------
(* The Qt thread.                                                          *)

RegisterThread(t) ==
    /\ qt = "serving"
    /\ phase[t] = "absent"
    /\ phase' = [phase EXCEPT ![t] = "serving"]
    /\ UNCHANGED <<stopping, queue, hand, cancelling, contextVars, taskVars,
                   stepVars, strays, qtVars>>

\* The workflow thread has not exited: only shutdown() stops it.
Submit(w) ==
    /\ qt = "serving"
    /\ handle[w] = "none"
    /\ handle' = [handle EXCEPT ![w] = "queued"]
    /\ entry' = [entry EXCEPT ![w] = "queued"]
    /\ queue' = [queue EXCEPT ![WorkflowThread] = Append(@, w)]
    /\ UNCHANGED <<phase, stopping, hand, cancelling, result, submissions, pending,
                   taskVars, stepVars, strays, events, qt, joining>>

\* The event loop runs the oldest event; one for a destroyed handle is dropped.
HandleEvent ==
    /\ qt = "serving"
    /\ events # <<>>
    /\ events' = Tail(events)
    /\ LET e == Head(events) IN
       handle' = IF handle[e.to] = "gone" THEN handle
                 ELSE [handle EXCEPT ![e.to] = e.state]
    /\ UNCHANGED <<threadVars, contextVars, taskVars, stepVars, strays, qt, joining>>

\* Qt destroys the handle with its owner.
DestroyOwner(w) ==
    /\ qt = "serving"
    /\ handle[w] \notin {"none", "gone"}
    /\ handle' = [handle EXCEPT ![w] = "gone"]
    /\ UNCHANGED <<threadVars, contextVars, taskVars, stepVars, strays, events, qt, joining>>

\* shutdown() sets m_stopped; from here on the Qt thread runs no event.
BeginShutdown ==
    /\ qt = "serving"
    /\ qt' = "stopping"
    /\ UNCHANGED <<threadVars, contextVars, taskVars, stepVars, strays, handle, events, joining>>

\* Mutant: the threads are stopped in any order.
InTurnAlways(t) == TRUE

\* The workflow thread is the last to be stopped.
InTurn(t) == t = WorkflowThread => \A u \in TaskThreads : phase[u] # "absent" => stopping[u]

StopThread(t) ==
    /\ qt = "stopping"
    /\ joining = None
    /\ phase[t] # "absent"
    /\ ~stopping[t]
    /\ InTurn(t)
    /\ stopping' = [stopping EXCEPT ![t] = TRUE]
    /\ joining' = t
    /\ UNCHANGED <<phase, queue, hand, cancelling, contextVars, taskVars, stepVars,
                   strays, handle, events, qt>>

\* The join returns; after the last one shutdown() emits stopped().
Joined ==
    /\ joining # None
    /\ phase[joining] = "ended"
    /\ qt' = IF joining = WorkflowThread THEN "stopped" ELSE qt
    /\ joining' = None
    /\ UNCHANGED <<threadVars, contextVars, taskVars, stepVars, strays, handle, events>>

\* RManager::reset() deletes the manager, and Qt drops the events posted to it.
DeleteManager ==
    /\ qt = "stopped"
    /\ qt' = "gone"
    /\ events' = <<>>
    /\ UNCHANGED <<threadVars, contextVars, taskVars, stepVars, strays, handle, joining>>

-----------------------------------------------------------------------------
(* Every thread: loop().                                                   *)

Take(t) ==
    /\ phase[t] = "serving"
    /\ Waiting(t)
    /\ queue[t] # <<>>
    /\ hand' = [hand EXCEPT ![t] = Head(queue[t])]
    /\ queue' = [queue EXCEPT ![t] = Tail(@)]
    /\ cancelling' = [cancelling EXCEPT ![t] = stopping[t]]
    /\ UNCHANGED <<phase, stopping, contextVars, taskVars, stepVars, strays, qtVars>>

\* Mutant: the workflow thread stays for the workflows that are open.
ExitWhenClosed(t) ==
    /\ phase[t] = "serving"
    /\ Waiting(t)
    /\ queue[t] = <<>>
    /\ stopping[t]
    /\ t = WorkflowThread => \A w \in Workflows : entry[w] # "open"
    /\ phase' = [phase EXCEPT ![t] = "exited"]
    /\ UNCHANGED <<stopping, queue, hand, cancelling, contextVars, taskVars, stepVars,
                   strays, qtVars>>

Exit(t) ==
    /\ phase[t] = "serving"
    /\ Waiting(t)
    /\ queue[t] = <<>>
    /\ stopping[t]
    /\ phase' = [phase EXCEPT ![t] = "exited"]
    /\ UNCHANGED <<stopping, queue, hand, cancelling, contextVars, taskVars, stepVars,
                   strays, qtVars>>

\* The thread closed its state; the workflow thread also closed every workflow.
End(t) ==
    /\ phase[t] = "exited"
    /\ t = WorkflowThread =>
        /\ step = "idle"
        /\ \A w \in Workflows : entry[w] # "open"
    /\ phase' = [phase EXCEPT ![t] = "ended"]
    /\ UNCHANGED <<stopping, queue, hand, cancelling, contextVars, taskVars, stepVars,
                   strays, qtVars>>

-----------------------------------------------------------------------------
(* A task thread.                                                          *)

\* TaskJob::run() or cancel(), and complete_task(): the completion goes to the
\* workflow thread, or runs here when that thread has exited.
CompleteTask(t) ==
    /\ hand[t] # None
    /\ LET s == hand[t] IN
       IF Exited(WorkflowThread)
       THEN /\ strays' = strays \cup {s}
            /\ Forget(s)
            /\ UNCHANGED queue
       ELSE /\ queue' = [queue EXCEPT ![WorkflowThread] = Append(@, s)]
            /\ at' = [at EXCEPT ![s] = WorkflowThread]
            /\ \E r \in IF cancelling[t] THEN {"cancelled"} ELSE {"succeeded", "failed"} :
                 outcome' = [outcome EXCEPT ![s] = r]
            /\ UNCHANGED <<owner, strays>>
    /\ DropJob(t)
    /\ UNCHANGED <<phase, stopping, contextVars, target, stepVars, qtVars>>

-----------------------------------------------------------------------------
(* The workflow thread.                                                    *)

job == hand[WorkflowThread]

\* StartWorkflowJob::cancel().
CancelStart ==
    /\ step = "idle"
    /\ job \in Workflows
    /\ cancelling[WorkflowThread]
    /\ result' = [result EXCEPT ![job] = "cancelled"]
    /\ entry' = [entry EXCEPT ![job] = "closed"]
    /\ Post(job, "finished")
    /\ DropJob(WorkflowThread)
    /\ UNCHANGED <<phase, stopping, queue, submissions, pending, taskVars, stepVars,
                   strays, handle, qt, joining>>

\* StartWorkflowJob::run() up to the call of start().
BeginStart ==
    /\ step = "idle"
    /\ job \in Workflows
    /\ ~cancelling[WorkflowThread]
    /\ Post(job, "running")
    /\ entry' = [entry EXCEPT ![job] = "starting"]
    /\ step' = "user"
    /\ current' = job
    /\ UNCHANGED <<threadVars, result, submissions, pending, taskVars, strays, handle, qt, joining>>

\* A CompletionJob up to the call of on_completed(); cancelled or not, it runs.
\* One whose workflow is not open any more is dropped.
BeginCallback ==
    /\ step = "idle"
    /\ job \in Tasks
    /\ IF entry[owner[job]] = "open"
       THEN /\ step' = "user"
            /\ current' = owner[job]
            /\ UNCHANGED <<hand, cancelling, at, owner, outcome>>
       ELSE /\ Forget(job)
            /\ DropJob(WorkflowThread)
            /\ UNCHANGED stepVars
    /\ UNCHANGED <<phase, stopping, queue, contextVars, target, strays, qtVars>>

\* WorkflowContext::submit().
Ask(s, t) ==
    /\ at[s] = "free"
    /\ at' = [at EXCEPT ![s] = "asked"]
    /\ owner' = [owner EXCEPT ![s] = current]
    /\ target' = [target EXCEPT ![s] = t]
    /\ submissions' = [submissions EXCEPT ![current] = Append(@, s)]
    /\ UNCHANGED <<threadVars, entry, result, pending, outcome, stepVars, strays, qtVars>>

\* start() and on_completed() submit tasks.  A callback that learns that its
\* task did not succeed submits another one only in a workflow that retries.
ContextSubmit(s, t) ==
    /\ step = "user"
    /\ job \in Tasks /\ outcome[job] # "succeeded" => current \in Retriers
    /\ Ask(s, t)

\* Mutant: finish() already tells the owner.
ContextFinishDelivers ==
    /\ step = "user"
    /\ result[current] = None
    /\ result' = [result EXCEPT ![current] = "succeeded"]
    /\ Post(current, "finished")
    /\ UNCHANGED <<threadVars, entry, submissions, pending, taskVars, stepVars, strays,
                   handle, qt, joining>>

\* WorkflowContext::finish(): the first result stays.
ContextFinish ==
    /\ step = "user"
    /\ result[current] = None
    /\ result' = [result EXCEPT ![current] = "succeeded"]
    /\ UNCHANGED <<threadVars, entry, submissions, pending, taskVars, stepVars, strays, qtVars>>

\* start() or on_completed() returns or throws; an exception is the result
\* unless there is one.
UserReturn ==
    /\ step = "user"
    /\ \E threw \in BOOLEAN :
        result' = IF threw /\ result[current] = None
                  THEN [result EXCEPT ![current] = "failed"] ELSE result
    /\ step' = "dispatch"
    /\ DropJob(WorkflowThread)
    /\ UNCHANGED <<phase, stopping, queue, submissions, target, current, strays, qtVars>>

\* Then a workflow that started goes to m_open_workflows, ...
StartReturn ==
    /\ job \in Workflows
    /\ UserReturn
    /\ entry' = [entry EXCEPT ![current] = "open"]
    /\ UNCHANGED <<pending, at, owner, outcome>>

\* Mutant: a callback that returned is still waited for.
CallbackReturnUncounted ==
    /\ job \in Tasks
    /\ UserReturn
    /\ Forget(job)
    /\ UNCHANGED <<entry, pending>>

\* ... and a task that called back is not waited for any more.
CallbackReturn ==
    /\ job \in Tasks
    /\ UserReturn
    /\ pending' = [pending EXCEPT ![current] = @ - 1]
    /\ Forget(job)
    /\ UNCHANGED entry

\* Mutant: push() queues the job of a thread that exited.
ReceiverUnchecked(t) == IF phase[t] = "absent" THEN WorkflowThread ELSE t

\* A name nobody registered, and a thread that exited and so cancels the job in
\* push(), complete the task at once: its completion is what gets queued.
Receiver(t) == IF phase[t] = "serving" THEN t ELSE WorkflowThread

OutcomeAtOnce(t) ==
    CASE phase[t] = "absent" -> "failed"
      [] Exited(t) -> "cancelled"
      [] OTHER -> None

\* Mutant: the task counts only once its thread was found.
CountedIfFound(t) == IF phase[t] = "absent" THEN 0 ELSE 1

\* What dispatch() adds to pending_callbacks for a task, whatever its thread.
Counted(t) == 1

\* One iteration of dispatch().
Dispatch ==
    /\ step = "dispatch"
    /\ submissions[current] # <<>>
    /\ submissions' = [submissions EXCEPT ![current] = Tail(@)]
    /\ LET s == Head(submissions[current])
           t == target[s] IN
       /\ pending' = [pending EXCEPT ![current] = @ + Counted(t)]
       /\ queue' = [queue EXCEPT ![Receiver(t)] = Append(@, s)]
       /\ at' = [at EXCEPT ![s] = Receiver(t)]
       /\ target' = [target EXCEPT ![s] = None]
       /\ outcome' = [outcome EXCEPT ![s] = OutcomeAtOnce(t)]
    /\ UNCHANGED <<phase, stopping, hand, cancelling, entry, result, owner,
                   stepVars, strays, qtVars>>

\* Mutant: a result alone closes the workflow.
FinishedOnly(w) == result[w] # None

\* The workflow has a result and no task can still call back.
FinishedAndQuiet(w) == result[w] # None /\ pending[w] = 0

\* close_if_done() after dispatch().
CloseIfDone ==
    /\ step = "dispatch"
    /\ submissions[current] = <<>>
    /\ IF FinishedAndQuiet(current)
       THEN step' = "closing" /\ UNCHANGED current
       ELSE step' = "idle" /\ current' = None
    /\ UNCHANGED <<threadVars, contextVars, taskVars, strays, qtVars>>

\* cancel_open_workflows(): finish one workflow, cancel() it and go on to close it.
CancelOpen(w) ==
    /\ phase[WorkflowThread] = "exited"
    /\ step = "idle"
    /\ entry[w] = "open"
    /\ result' = IF result[w] = None THEN [result EXCEPT ![w] = "cancelled"] ELSE result
    /\ step' = "closing"
    /\ current' = w
    /\ UNCHANGED <<threadVars, entry, submissions, pending, taskVars, strays, qtVars>>

\* cancel() and close() can submit through a context they kept.
LateSubmit(s, t) ==
    /\ step = "closing"
    /\ current \in LateSubmitters
    /\ Ask(s, t)

\* close(): Workflow::close() returned, and the result goes to the owner.
Close ==
    /\ step = "closing"
    /\ entry' = [entry EXCEPT ![current] = "closed"]
    /\ Post(current, "finished")
    /\ step' = "idle"
    /\ current' = None
    /\ UNCHANGED <<threadVars, result, submissions, pending, taskVars, strays,
                   handle, qt, joining>>

-----------------------------------------------------------------------------
\* The manager is gone, and with it every thread.
Terminated == qt = "gone" /\ UNCHANGED vars

TaskThread(t) == Take(t) \/ CompleteTask(t) \/ Exit(t) \/ End(t)

WorkflowThreadStep ==
    \/ Take(WorkflowThread) \/ Exit(WorkflowThread) \/ End(WorkflowThread)
    \/ CancelStart \/ BeginStart \/ BeginCallback
    \/ ContextFinish \/ StartReturn \/ CallbackReturn \/ Dispatch \/ CloseIfDone \/ Close
    \/ \E w \in Workflows : CancelOpen(w)

Submitting == \E s \in Tasks, t \in TaskThreads : ContextSubmit(s, t) \/ LateSubmit(s, t)

Shutdown == Joined \/ DeleteManager \/ \E t \in Threads : StopThread(t)

Next ==
    \/ \E t \in TaskThreads : RegisterThread(t) \/ TaskThread(t)
    \/ \E w \in Workflows : Submit(w) \/ DestroyOwner(w)
    \/ WorkflowThreadStep
    \/ Submitting
    \/ HandleEvent
    \/ BeginShutdown
    \/ Shutdown
    \/ Terminated

\* Every thread runs, and the code of tasks and workflows returns.  Nobody
\* has to register, submit, finish a workflow or shut the manager down.
Fairness ==
    /\ \A t \in TaskThreads : WF_vars(TaskThread(t))
    /\ WF_vars(WorkflowThreadStep)
    /\ WF_vars(Shutdown)
    /\ WF_vars(HandleEvent)

Spec == Init /\ [][Next]_vars /\ Fairness

-----------------------------------------------------------------------------
(* What makes it correct.                                                  *)

OnTheWay(w) == {s \in Tasks : owner[s] = w /\ at[s] \in Threads}

\* pending_callbacks counts the dispatched tasks of a workflow whose callback
\* has not returned, whichever thread has them and however they ended.  It is
\* all close_if_done() knows about the tasks.
PendingCounts == \A w \in Workflows : pending[w] = Cardinality(OnTheWay(w))

\* A task that a thread has, or that is on its way back, finds its workflow in
\* m_open_workflows, so the early return of complete_task()'s callback never
\* swallows a promised callback; and no callback runs off the workflow thread,
\* since that thread outlives the task threads.
CallbacksComeHome ==
    /\ strays = {}
    /\ \A s \in Tasks : at[s] \in Threads => entry[owner[s]] = "open"

\* Once the workflow thread declared itself exited no task is anywhere and the
\* workflows it then cancels wait for nothing (cancel_open_workflows() does not
\* look at pending_callbacks).
QuietAfterExit ==
    Exited(WorkflowThread) =>
        /\ \A t \in TaskThreads : phase[t] \in {"absent", "ended"}
        /\ \A s \in Tasks : at[s] \notin Threads
        /\ \A w \in Workflows : pending[w] = 0 /\ (entry[w] = "open" => result[w] = None \/ current = w)

\* The terminal result is posted once, after the Running state: what the owner
\* has seen and what is still to come add up to one history.
Finishes(w) == {i \in 1 .. Len(events) : events[i] = [to |-> w, state |-> "finished"]}
Starts(w) == {i \in 1 .. Len(events) : events[i] = [to |-> w, state |-> "running"]}

OneHistoryPerOwner ==
    \A w \in Workflows :
        /\ Cardinality(Finishes(w)) <= 1
        /\ \A i \in Starts(w) : \A j \in Finishes(w) : i < j
        /\ handle[w] = "finished" => Starts(w) \cup Finishes(w) = {} /\ entry[w] = "closed"
        /\ handle[w] = "running" => Starts(w) = {}
        /\ qt # "gone" /\ handle[w] \in {"queued", "running"} /\ entry[w] = "closed"
                => Finishes(w) # {}

\* The manager implements WorkflowService.
Stage(w) ==
    CASE entry[w] = "none" -> "new"
      [] entry[w] = "queued" -> "queued"
      [] entry[w] \in {"starting", "open"} -> "running"
      [] entry[w] = "closed" -> "answered"

Service == INSTANCE WorkflowService WITH
    stage <- [w \in Workflows |-> Stage(w)],
    owing <- [w \in Workflows |-> {s \in Tasks : owner[s] = w}],
    service <- IF qt = "serving" THEN "up" ELSE IF qt = "stopping" THEN "stopping" ELSE "stopped"

ImplementsWorkflowService == Service!Spec

\* "on_completed runs exactly once" (RThreadManager.hpp:129): a task that was
\* submitted is called back, whether it ran, was cancelled or had no thread.
TasksCallBack == \A s \in Tasks : at[s] # "free" ~> at[s] = "free"

\* shutdown() completes everything, joins every thread and returns
\* (RThreadManager.hpp:225).
ShutdownReturns == qt = "stopping" ~> qt = "gone"

\* While the manager serves, the owner of a workflow that closed hears of it.
OwnersHear ==
    \A w \in Workflows :
        entry[w] = "closed" ~> handle[w] \in {"finished", "gone"} \/ qt # "serving"

\* The code that counts on the manager is called back: tasks through
\* on_completed, owners through their handles.
EverybodyHears == TasksCallBack /\ OwnersHear
=============================================================================
