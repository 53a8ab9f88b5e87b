------------------------------ MODULE Scheduler ------------------------------
(***************************************************************************)
(* RThreadManager::Scheduler (cpp/solvcon/pilot/app/RThreadManager.cpp) at  *)
(* the grain of its locks: the loop thread, the threads that push jobs, the *)
(* thread that stops it, m_mutex, m_condition and Python's GIL.             *)
(*                                                                         *)
(* A step is what one thread does between two points where it can be made  *)
(* to wait.  A thread that finds m_mutex free runs its whole critical      *)
(* section in that step, because nothing in it blocks; the one exception   *)
(* is the end of an iteration of loop(), which destroys the job it served  *)
(* after it took m_mutex again and so may wait for the GIL inside.         *)
(***************************************************************************)
EXTENDS Naturals, Sequences

CONSTANTS
    Jobs,           \* the jobs ever pushed, each of them once
    Clients,        \* the threads that push
    PythonClients,  \* those that run Python code, so push with the GIL held
    Stopper,        \* the client that calls stop(): the Qt thread
    None

ASSUME ClientsAssumption ==
    /\ PythonClients \subseteq Clients
    /\ Stopper \in Clients
    /\ None \notin Jobs
    /\ Clients \cap {"free", "loop"} = {}

VARIABLES
    queue,       \* m_queue
    stopping,    \* m_stopping
    exited,      \* m_exited
    mutex,       \* who holds m_mutex
    gil,         \* who holds the GIL
    loopAt,      \* where the loop thread is
    job,         \* the job loop() took from the queue
    cancelling,  \* loop()'s copy of m_stopping, made when it took the job
    clientAt,    \* where each client is
    pushing,     \* the job each client is pushing
    fate         \* what became of each job

vars == <<queue, stopping, exited, mutex, gil, loopAt, job, cancelling,
          clientAt, pushing, fate>>

loopVars == <<loopAt, job, cancelling>>
clientVars == <<clientAt, pushing>>

LoopPoints == {"opening", "locking", "checking", "asleep", "working",
               "relocking", "dropping", "closing", "ended"}
ClientPoints == {"idle", "locking", "notifying", "refused", "stopping", "joining"}
Fates == {"new", "waiting", "run", "cancelled"}

TypeOK ==
    /\ queue \in Seq(Jobs)
    /\ stopping \in BOOLEAN
    /\ exited \in BOOLEAN
    /\ mutex \in {"free", "loop"}
    /\ gil \in {"free"} \cup Clients
    /\ loopAt \in LoopPoints
    /\ job \in Jobs \cup {None}
    /\ cancelling \in BOOLEAN
    /\ clientAt \in [Clients -> ClientPoints]
    /\ pushing \in [Clients -> Jobs \cup {None}]
    /\ fate \in [Jobs -> Fates]

Init ==
    /\ queue = <<>>
    /\ stopping = FALSE
    /\ exited = FALSE
    /\ mutex = "free"
    /\ gil = "free"
    /\ loopAt = "opening"
    /\ job = None
    /\ cancelling = FALSE
    /\ clientAt = [c \in Clients |-> "idle"]
    /\ pushing = [c \in Clients |-> None]
    /\ fate = [j \in Jobs |-> "new"]

-----------------------------------------------------------------------------
(* m_condition.notify_one(): the loop thread is the only one that waits.   *)

Notify ==
    loopAt' = IF loopAt = "asleep" THEN "locking" ELSE loopAt

-----------------------------------------------------------------------------
(* push() by a client.                                                     *)

NotBeingPushed(j) == \A c \in Clients : pushing[c] # j

\* A client calls push(); one that runs Python has the GIL and keeps it.
Push(c, j) ==
    /\ clientAt[c] = "idle"
    /\ fate[j] = "new"
    /\ NotBeingPushed(j)
    /\ c \in PythonClients => gil = "free"
    /\ gil' = IF c \in PythonClients THEN c ELSE gil
    /\ clientAt' = [clientAt EXCEPT ![c] = "locking"]
    /\ pushing' = [pushing EXCEPT ![c] = j]
    /\ UNCHANGED <<queue, stopping, exited, mutex, loopVars, fate>>

\* Mutant: push() does not look at m_exited.
PushLockedAlways(c) ==
    /\ clientAt[c] = "locking"
    /\ mutex = "free"
    /\ clientAt' = [clientAt EXCEPT ![c] = "notifying"]
    /\ queue' = Append(queue, pushing[c])
    /\ fate' = [fate EXCEPT ![pushing[c]] = "waiting"]
    /\ pushing' = [pushing EXCEPT ![c] = None]
    /\ UNCHANGED <<stopping, exited, mutex, gil, loopVars>>

\* The critical section of push(): a scheduler that exited takes nothing.
PushLocked(c) ==
    /\ clientAt[c] = "locking"
    /\ mutex = "free"
    /\ IF exited
       THEN /\ clientAt' = [clientAt EXCEPT ![c] = "refused"]
            /\ UNCHANGED <<queue, fate, pushing>>
       ELSE /\ clientAt' = [clientAt EXCEPT ![c] = "notifying"]
            /\ queue' = Append(queue, pushing[c])
            /\ fate' = [fate EXCEPT ![pushing[c]] = "waiting"]
            /\ pushing' = [pushing EXCEPT ![c] = None]
    /\ UNCHANGED <<stopping, exited, mutex, gil, loopVars>>

ReleaseGil(c) == gil' = IF gil = c THEN "free" ELSE gil

\* Mutant: push() leaves the notification out.
PushNotifySilent(c) ==
    /\ clientAt[c] = "notifying"
    /\ clientAt' = [clientAt EXCEPT ![c] = "idle"]
    /\ ReleaseGil(c)
    /\ UNCHANGED <<queue, stopping, exited, mutex, loopVars, pushing, fate>>

PushNotify(c) ==
    /\ clientAt[c] = "notifying"
    /\ clientAt' = [clientAt EXCEPT ![c] = "idle"]
    /\ ReleaseGil(c)
    /\ Notify
    /\ UNCHANGED <<queue, stopping, exited, mutex, job, cancelling, pushing, fate>>

\* The pushing thread cancels, itself, the job the scheduler refused.
CancelRefused(c) ==
    /\ clientAt[c] = "refused"
    /\ fate' = [fate EXCEPT ![pushing[c]] = "cancelled"]
    /\ clientAt' = [clientAt EXCEPT ![c] = "idle"]
    /\ pushing' = [pushing EXCEPT ![c] = None]
    /\ ReleaseGil(c)
    /\ UNCHANGED <<queue, stopping, exited, mutex, loopVars>>

-----------------------------------------------------------------------------
(* stop().  RManager::reset releases the GIL around it.                    *)

Stop ==
    /\ clientAt[Stopper] = "idle"
    /\ ~stopping
    /\ mutex = "free"
    /\ stopping' = TRUE
    /\ clientAt' = [clientAt EXCEPT ![Stopper] = "stopping"]
    /\ UNCHANGED <<queue, exited, mutex, gil, loopVars, pushing, fate>>

StopNotify ==
    /\ clientAt[Stopper] = "stopping"
    /\ clientAt' = [clientAt EXCEPT ![Stopper] = "joining"]
    /\ Notify
    /\ UNCHANGED <<queue, stopping, exited, mutex, gil, job, cancelling, pushing, fate>>

Join ==
    /\ clientAt[Stopper] = "joining"
    /\ loopAt = "ended"
    /\ clientAt' = [clientAt EXCEPT ![Stopper] = "idle"]
    /\ UNCHANGED <<queue, stopping, exited, mutex, gil, loopVars, pushing, fate>>

-----------------------------------------------------------------------------
(* loop().                                                                 *)

\* open_state(): the state opens or the error is reported; both go on.
OpenState ==
    /\ loopAt = "opening"
    /\ gil = "free"
    /\ loopAt' = "locking"
    /\ UNCHANGED <<queue, stopping, exited, mutex, gil, job, cancelling, clientVars, fate>>

Lock ==
    /\ loopAt \in {"locking", "relocking"}
    /\ mutex = "free"
    /\ mutex' = "loop"
    /\ loopAt' = IF loopAt = "relocking" THEN "dropping" ELSE "checking"
    /\ UNCHANGED <<queue, stopping, exited, gil, job, cancelling, clientVars, fate>>

\* m_condition.wait() gives m_mutex up when there is nothing to do.
Sleep ==
    /\ loopAt = "checking"
    /\ ~stopping
    /\ queue = <<>>
    /\ mutex' = "free"
    /\ loopAt' = "asleep"
    /\ UNCHANGED <<queue, stopping, exited, gil, job, cancelling, clientVars, fate>>

\* A condition variable may wake without a notification.
SpuriousWakeup ==
    /\ loopAt = "asleep"
    /\ loopAt' = "locking"
    /\ UNCHANGED <<queue, stopping, exited, mutex, gil, job, cancelling, clientVars, fate>>

\* Mutant: the newest job is served first.
TakeNewest ==
    /\ loopAt = "checking"
    /\ queue # <<>>
    /\ job' = queue[Len(queue)]
    /\ queue' = SubSeq(queue, 1, Len(queue) - 1)
    /\ cancelling' = stopping
    /\ fate' = [fate EXCEPT ![job'] = IF stopping THEN "cancelled" ELSE "run"]
    /\ mutex' = "free"
    /\ loopAt' = "working"
    /\ UNCHANGED <<stopping, exited, gil, clientVars>>

Take ==
    /\ loopAt = "checking"
    /\ queue # <<>>
    /\ job' = Head(queue)
    /\ queue' = Tail(queue)
    /\ cancelling' = stopping
    /\ fate' = [fate EXCEPT ![Head(queue)] = IF stopping THEN "cancelled" ELSE "run"]
    /\ mutex' = "free"
    /\ loopAt' = "working"
    /\ UNCHANGED <<stopping, exited, gil, clientVars>>

\* run() or cancel() of the job, under the GIL for as long as it runs Python.
Work ==
    /\ loopAt = "working"
    /\ gil = "free"
    /\ loopAt' = "relocking"
    /\ UNCHANGED <<queue, stopping, exited, mutex, gil, job, cancelling, clientVars, fate>>

\* A job of the workflow thread pushes to its own scheduler.
PushFromJob(j) ==
    /\ loopAt = "working"
    /\ fate[j] = "new"
    /\ NotBeingPushed(j)
    /\ mutex = "free"
    /\ queue' = Append(queue, j)
    /\ fate' = [fate EXCEPT ![j] = "waiting"]
    /\ UNCHANGED <<stopping, exited, mutex, gil, loopVars, clientVars>>

\* The job goes out of scope with m_mutex held, and its destructor takes the GIL.
Drop ==
    /\ loopAt = "dropping"
    /\ gil = "free"
    /\ job' = None
    /\ loopAt' = "checking"
    /\ UNCHANGED <<queue, stopping, exited, mutex, gil, cancelling, clientVars, fate>>

\* Mutant: the loop ends as soon as it is asked to stop.
ExitEarly ==
    /\ loopAt = "checking"
    /\ stopping
    /\ exited' = TRUE
    /\ mutex' = "free"
    /\ loopAt' = "closing"
    /\ UNCHANGED <<queue, stopping, gil, job, cancelling, clientVars, fate>>

Exit ==
    /\ loopAt = "checking"
    /\ stopping
    /\ queue = <<>>
    /\ exited' = TRUE
    /\ mutex' = "free"
    /\ loopAt' = "closing"
    /\ UNCHANGED <<queue, stopping, gil, job, cancelling, clientVars, fate>>

\* m_state->close() and m_on_stopped(), both without m_mutex.
CloseState ==
    /\ loopAt = "closing"
    /\ gil = "free"
    /\ loopAt' = "ended"
    /\ UNCHANGED <<queue, stopping, exited, mutex, gil, job, cancelling, clientVars, fate>>

-----------------------------------------------------------------------------
\* Nothing is left to do once the thread was joined and every push returned.
Finished ==
    /\ loopAt = "ended"
    /\ \A c \in Clients : clientAt[c] = "idle"
    /\ \A j \in Jobs : fate[j] # "new"
    /\ UNCHANGED vars

Client(c) ==
    \/ PushLocked(c)
    \/ PushNotify(c)
    \/ CancelRefused(c)

Stopping == StopNotify \/ Join

Loop ==
    \/ OpenState \/ Lock \/ Sleep \/ Take \/ Work \/ Drop \/ Exit \/ CloseState

Next ==
    \/ \E c \in Clients, j \in Jobs : Push(c, j)
    \/ \E c \in Clients : Client(c)
    \/ Stop
    \/ Stopping
    \/ Loop
    \/ SpuriousWakeup
    \/ \E j \in Jobs : PushFromJob(j)
    \/ Finished

\* The operating system runs every thread that can run.  No client has to
\* call push() or stop(), and no wakeup has to be spurious.
Fairness ==
    /\ \A c \in Clients : SF_vars(Client(c))
    /\ WF_vars(Stopping)
    /\ SF_vars(Loop)

Spec == Init /\ [][Next]_vars /\ Fairness

-----------------------------------------------------------------------------
(* What makes it correct.                                                  *)

\* The loop thread never sleeps through work: while it waits on m_condition
\* with a job in the queue or a stop asked for, the thread that brought the
\* news still has its notify_one() to call.  push() and stop() notify after
\* they gave m_mutex back, so this is where a wakeup could be lost.
NoLostWakeup ==
    loopAt = "asleep" /\ (queue # <<>> \/ stopping)
        => \E c \in Clients : clientAt[c] \in {"notifying", "stopping"}

\* Once loop() declared itself exited nobody will look at the queue again, so
\* it must be empty and stay so, and only a thread that found it exited may
\* cancel a job by itself.
NothingLeftBehind ==
    /\ exited => stopping /\ queue = <<>> /\ loopAt \in {"closing", "ended"}
    /\ \A c \in Clients : clientAt[c] = "refused" => exited

\* The scheduler implements its promise: one FIFO line, every job served once,
\* run before the stop and cancelled after it.
Promise == INSTANCE JobQueue WITH line <- queue, closing <- stopping

ImplementsJobQueue == Promise!Spec

\* The loop thread waits for the GIL with m_mutex held, to destroy the job it
\* served, while the thread that has the GIL waits in push() for m_mutex.
GilDeadlock ==
    /\ loopAt = "dropping"
    /\ \E c \in PythonClients : gil = c /\ clientAt[c] = "locking"

Settled(j) == fate[j] \in {"run", "cancelled"}

\* Every job somebody began to push is run or cancelled in the end, unless the
\* threads deadlock on m_mutex and the GIL: there is no other way to get stuck.
SettledOrGilDeadlock ==
    \A j \in Jobs : ~NotBeingPushed(j) \/ fate[j] = "waiting" ~> Settled(j) \/ GilDeadlock

\* stop() joins the thread, whatever else is pushed meanwhile, unless the
\* threads deadlock on m_mutex and the GIL.
StopReturns ==
    clientAt[Stopper] \in {"stopping", "joining"}
        ~> (clientAt[Stopper] = "idle" /\ loopAt = "ended") \/ GilDeadlock

\* Nobody stays stuck: the pushers' jobs are settled and the stop comes back,
\* whatever the threads do to each other's locks short of the GIL deadlock.
NobodyStuck == SettledOrGilDeadlock /\ StopReturns

\* RThreadManager.hpp says of a Python task, result or workflow that "any
\* thread may drop it": a thread that drops a job gets done with it.
AnyThreadMayDrop == loopAt = "dropping" ~> loopAt # "dropping"

=============================================================================
