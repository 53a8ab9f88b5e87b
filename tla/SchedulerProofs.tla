--------------------------- MODULE SchedulerProofs ---------------------------
(***************************************************************************)
(* What holds of the scheduler for every set of jobs and of clients: its   *)
(* invariants, and that it implements the FIFO promise of JobQueue.        *)
(***************************************************************************)
EXTENDS Scheduler, TLAPS

\* m_mutex is held exactly where loop() holds it between two steps.
MutexInv == mutex = "loop" <=> loopAt \in {"checking", "dropping"}

\* A client that is inside push() with a job holds a job of its own, which
\* nobody else pushes and which is not in the queue.
PushInv ==
    /\ \A c \in Clients :
        clientAt[c] \in {"locking", "refused"} => pushing[c] \in Jobs /\ fate[pushing[c]] = "new"
    /\ \A c, d \in Clients : pushing[c] = pushing[d] /\ pushing[c] # None => c = d

QueueInv == \A i \in 1 .. Len(queue) : fate[queue[i]] # "new"

IInv == TypeOK /\ MutexInv /\ PushInv /\ QueueInv /\ NothingLeftBehind

\* Taking the head of a sequence of jobs leaves a sequence of the others.
LEMMA TailFacts ==
    ASSUME NEW q \in Seq(Jobs), q # <<>>
    PROVE /\ Head(q) \in Jobs
          /\ Tail(q) \in Seq(Jobs)
          /\ Head(q) = q[1]
          /\ \A i \in 1 .. Len(Tail(q)) : i + 1 \in 1 .. Len(q) /\ Tail(q)[i] = q[i + 1]
  OBVIOUS

\* Adding a job at the end keeps the others where they were.
LEMMA AppendFacts ==
    ASSUME NEW q \in Seq(Jobs), NEW j \in Jobs
    PROVE /\ Append(q, j) \in Seq(Jobs)
          /\ Append(q, j) # <<>>
          /\ \A i \in 1 .. Len(Append(q, j)) :
                \/ i \in 1 .. Len(q) /\ Append(q, j)[i] = q[i]
                \/ Append(q, j)[i] = j
  OBVIOUS

\* The scheduler starts in the invariant.
LEMMA InitIInv == Init => IInv
<1> SUFFICES ASSUME Init PROVE IInv
  OBVIOUS
<1> USE DEF Init
<1>1. TypeOK
  <2>1. queue \in Seq(Jobs)
    OBVIOUS
  <2>2. pushing \in [Clients -> Jobs \cup {None}] /\ clientAt \in [Clients -> ClientPoints]
    BY DEF ClientPoints
  <2>3. fate \in [Jobs -> Fates]
    BY DEF Fates
  <2>4. stopping \in BOOLEAN /\ exited \in BOOLEAN /\ cancelling \in BOOLEAN
    OBVIOUS
  <2> QED BY <2>1, <2>2, <2>3, <2>4 DEF TypeOK, LoopPoints
<1>2. MutexInv /\ QueueInv /\ NothingLeftBehind
  BY DEF MutexInv, QueueInv, NothingLeftBehind
<1>3. PushInv
  <2>1. \A c \in Clients : clientAt[c] = "idle" /\ pushing[c] = None
    OBVIOUS
  <2>2. ASSUME NEW c \in Clients, NEW d \in Clients, pushing[c] # None PROVE c = d
    BY <2>1, <2>2
  <2> QED BY <2>1, <2>2 DEF PushInv
<1> QED BY <1>1, <1>2, <1>3 DEF IInv

\* Every step keeps the invariant, one case per action.
LEMMA NextIInv == IInv /\ [Next]_vars => IInv'
<1> SUFFICES ASSUME IInv, [Next]_vars PROVE IInv'
  OBVIOUS
<1> USE ClientsAssumption DEF IInv, LoopPoints, ClientPoints, Fates
<1>1. CASE UNCHANGED vars
  BY <1>1 DEF vars, loopVars, clientVars, TypeOK, MutexInv, PushInv, QueueInv, NothingLeftBehind
<1>2. ASSUME NEW c \in Clients, NEW j \in Jobs, Push(c, j) PROVE IInv'
  <2> USE <1>2 DEF Push, loopVars, NotBeingPushed
  <2>1. TypeOK'
    BY DEF TypeOK
  <2>2. MutexInv' /\ QueueInv' /\ NothingLeftBehind'
    BY DEF TypeOK, MutexInv, QueueInv, NothingLeftBehind
  <2>3. PushInv'
    BY DEF TypeOK, PushInv
  <2> QED BY <2>1, <2>2, <2>3
<1>3. ASSUME NEW c \in Clients, PushLocked(c) PROVE IInv'
  <2> DEFINE j == pushing[c]
  <2>1. j \in Jobs /\ fate[j] = "new" /\ clientAt[c] = "locking" /\ mutex = "free"
    BY <1>3 DEF PushLocked, PushInv
  <2>2. CASE exited
    BY <1>3, <2>1, <2>2 DEF PushLocked, loopVars, TypeOK, MutexInv, PushInv, QueueInv, NothingLeftBehind
  <2>3. CASE ~exited
    <3>1. /\ queue' = Append(queue, j)
          /\ fate' = [fate EXCEPT ![j] = "waiting"]
          /\ pushing' = [pushing EXCEPT ![c] = None]
          /\ clientAt' = [clientAt EXCEPT ![c] = "notifying"]
          /\ UNCHANGED <<stopping, exited, mutex, gil, loopVars>>
      BY <1>3, <2>3 DEF PushLocked
    <3>2. TypeOK'
      BY <2>1, <3>1, AppendFacts DEF TypeOK, loopVars
    <3>3. MutexInv' /\ NothingLeftBehind'
      BY <2>1, <2>3, <3>1 DEF TypeOK, MutexInv, NothingLeftBehind, loopVars
    <3>4. PushInv'
      BY <2>1, <3>1 DEF TypeOK, PushInv
    <3>5. QueueInv'
      <4> SUFFICES ASSUME NEW i \in 1 .. Len(queue') PROVE fate'[queue'[i]] # "new"
        BY DEF QueueInv
      <4>1. \/ i \in 1 .. Len(queue) /\ queue'[i] = queue[i]
            \/ queue'[i] = j
        BY <2>1, <3>1, AppendFacts DEF TypeOK
      <4> QED BY <2>1, <3>1, <4>1 DEF TypeOK, QueueInv
    <3> QED BY <3>2, <3>3, <3>4, <3>5
  <2> QED BY <2>2, <2>3
<1>4. ASSUME NEW c \in Clients, PushNotify(c) PROVE IInv'
  BY <1>4 DEF PushNotify, ReleaseGil, Notify, TypeOK, MutexInv, PushInv, QueueInv, NothingLeftBehind
<1>5. ASSUME NEW c \in Clients, CancelRefused(c) PROVE IInv'
  <2> USE <1>5 DEF CancelRefused, ReleaseGil, loopVars
  <2>1. TypeOK' /\ MutexInv'
    BY DEF TypeOK, MutexInv
  <2>2. PushInv'
    BY DEF TypeOK, PushInv
  <2>3. QueueInv' /\ NothingLeftBehind'
    BY DEF TypeOK, PushInv, QueueInv, NothingLeftBehind
  <2> QED BY <2>1, <2>2, <2>3
<1>6. CASE Stop
  BY <1>6 DEF Stop, loopVars, TypeOK, MutexInv, PushInv, QueueInv, NothingLeftBehind
<1>7. CASE StopNotify
  BY <1>7 DEF StopNotify, Notify, TypeOK, MutexInv, PushInv, QueueInv, NothingLeftBehind
<1>8. CASE Join
  BY <1>8 DEF Join, loopVars, TypeOK, MutexInv, PushInv, QueueInv, NothingLeftBehind
<1>9. CASE OpenState
  BY <1>9 DEF OpenState, clientVars, TypeOK, MutexInv, PushInv, QueueInv, NothingLeftBehind
<1>10. CASE Lock
  BY <1>10 DEF Lock, clientVars, TypeOK, MutexInv, PushInv, QueueInv, NothingLeftBehind
<1>11. CASE Sleep
  BY <1>11 DEF Sleep, clientVars, TypeOK, MutexInv, PushInv, QueueInv, NothingLeftBehind
<1>12. CASE SpuriousWakeup
  BY <1>12 DEF SpuriousWakeup, clientVars, TypeOK, MutexInv, PushInv, QueueInv, NothingLeftBehind
<1>13. CASE Take
  <2> USE <1>13 DEF Take, clientVars
  <2>0. /\ Head(queue) \in Jobs
        /\ Tail(queue) \in Seq(Jobs)
        /\ Head(queue) = queue[1]
        /\ 1 \in 1 .. Len(queue)
        /\ \A i \in 1 .. Len(Tail(queue)) :
              i + 1 \in 1 .. Len(queue) /\ Tail(queue)[i] = queue[i + 1]
    BY TailFacts DEF TypeOK
  <2>1. TypeOK' /\ MutexInv' /\ NothingLeftBehind'
    BY <2>0 DEF TypeOK, MutexInv, NothingLeftBehind
  <2>2. fate[Head(queue)] # "new"
    BY <2>0 DEF QueueInv
  <2>3. PushInv'
    BY <2>0, <2>2 DEF TypeOK, PushInv
  <2>4. QueueInv'
    BY <2>0 DEF TypeOK, QueueInv
  <2> QED BY <2>1, <2>3, <2>4
<1>14. CASE Work
  BY <1>14 DEF Work, clientVars, TypeOK, MutexInv, PushInv, QueueInv, NothingLeftBehind
<1>15. ASSUME NEW j \in Jobs, PushFromJob(j) PROVE IInv'
  <2> USE <1>15 DEF PushFromJob, clientVars, loopVars, NotBeingPushed
  <2>1. TypeOK'
    BY AppendFacts DEF TypeOK
  <2>2. MutexInv' /\ NothingLeftBehind'
    BY DEF TypeOK, MutexInv, NothingLeftBehind
  <2>3. PushInv'
    BY DEF TypeOK, PushInv
  <2>4. QueueInv'
    <3> SUFFICES ASSUME NEW i \in 1 .. Len(queue') PROVE fate'[queue'[i]] # "new"
      BY DEF QueueInv
    <3>1. \/ i \in 1 .. Len(queue) /\ queue'[i] = queue[i]
          \/ queue'[i] = j
      BY AppendFacts DEF TypeOK
    <3> QED BY <3>1 DEF TypeOK, QueueInv
  <2> QED BY <2>1, <2>2, <2>3, <2>4
<1>16. CASE Drop
  BY <1>16 DEF Drop, clientVars, TypeOK, MutexInv, PushInv, QueueInv, NothingLeftBehind
<1>17. CASE Exit
  BY <1>17 DEF Exit, clientVars, TypeOK, MutexInv, PushInv, QueueInv, NothingLeftBehind
<1>18. CASE CloseState
  BY <1>18 DEF CloseState, clientVars, TypeOK, MutexInv, PushInv, QueueInv, NothingLeftBehind
<1> QED
  BY <1>1, <1>2, <1>3, <1>4, <1>5, <1>6, <1>7, <1>8, <1>9, <1>10, <1>11, <1>12,
     <1>13, <1>14, <1>15, <1>16, <1>17, <1>18
     DEF Next, Client, Stopping, Loop, Finished

\* The invariant holds in every state of every behaviour.
LEMMA SpecIInv == Spec => []IInv
<1>1. Init => IInv
  BY InitIInv
<1>2. IInv /\ [Next]_vars => IInv'
  BY NextIInv
<1> QED BY <1>1, <1>2, PTL DEF Spec

-----------------------------------------------------------------------------
\* The state of the scheduler is always of its type.
THEOREM TypeCorrect == Spec => []TypeOK
<1>1. IInv => TypeOK
  BY DEF IInv
<1> QED BY <1>1, SpecIInv, PTL

\* A thread that exited left no job behind, and only its exit makes a pushing
\* thread cancel a job by itself: RThreadManager::Scheduler::loop and push.
THEOREM NobodyLeftBehind == Spec => []NothingLeftBehind
<1>1. IInv => NothingLeftBehind
  BY DEF IInv
<1> QED BY <1>1, SpecIInv, PTL

\* No wakeup of m_condition is lost, although push() and stop() notify after
\* they released m_mutex.
THEOREM WakeupsArrive == Spec => []NoLostWakeup
<1>1. Init => NoLostWakeup
  BY DEF Init, NoLostWakeup
<1>2. TypeOK /\ NoLostWakeup /\ [Next]_vars => NoLostWakeup'
  <2> SUFFICES ASSUME TypeOK, NoLostWakeup, [Next]_vars,
                      loopAt' = "asleep", queue' # <<>> \/ stopping'
               PROVE \E c \in Clients : clientAt'[c] \in {"notifying", "stopping"}
    BY DEF NoLostWakeup
  <2> USE ClientsAssumption DEF TypeOK, NoLostWakeup, loopVars, clientVars
  <2>1. CASE UNCHANGED vars
    BY <2>1 DEF vars
  <2>2. ASSUME NEW c \in Clients, NEW j \in Jobs, Push(c, j) PROVE \E d \in Clients : clientAt'[d] \in {"notifying", "stopping"}
    BY <2>2 DEF Push
  <2>3. ASSUME NEW c \in Clients, PushLocked(c) PROVE \E d \in Clients : clientAt'[d] \in {"notifying", "stopping"}
    BY <2>3 DEF PushLocked
  <2>4. ASSUME NEW c \in Clients, PushNotify(c) \/ CancelRefused(c) PROVE \E d \in Clients : clientAt'[d] \in {"notifying", "stopping"}
    BY <2>4 DEF PushNotify, Notify, CancelRefused
  <2>5. CASE Stop
    BY <2>5 DEF Stop
  <2>6. CASE Stopping
    BY <2>6 DEF Stopping, StopNotify, Join, Notify
  <2>7. CASE Loop
    BY <2>7 DEF Loop, OpenState, Lock, Sleep, Take, Work, Drop, Exit, CloseState
  <2>8. CASE SpuriousWakeup
    BY <2>8 DEF SpuriousWakeup
  <2>9. ASSUME NEW j \in Jobs, PushFromJob(j) PROVE \E d \in Clients : clientAt'[d] \in {"notifying", "stopping"}
    BY <2>9 DEF PushFromJob
  <2>10. CASE Finished
    BY <2>10 DEF Finished, vars
  <2> QED BY <2>1, <2>2, <2>3, <2>4, <2>5, <2>6, <2>7, <2>8, <2>9, <2>10 DEF Next, Client
<1> QED BY <1>1, <1>2, TypeCorrect, PTL DEF Spec

-----------------------------------------------------------------------------
\* An empty scheduler is an empty queue.
LEMMA InitRefines == Init => Promise!Init
  BY DEF Init, Promise!Init

\* Every step of the scheduler is a step of the promise or leaves it alone.
LEMMA StepRefines == IInv /\ [Next]_vars => [Promise!Next]_(Promise!vars)
<1> SUFFICES ASSUME IInv, [Next]_vars PROVE [Promise!Next]_(Promise!vars)
  OBVIOUS
<1> USE DEF Promise!vars
<1>1. CASE UNCHANGED vars
  BY <1>1 DEF vars
<1>2. ASSUME NEW c \in Clients, NEW j \in Jobs, Push(c, j) PROVE UNCHANGED Promise!vars
  BY <1>2 DEF Push
<1>3. ASSUME NEW c \in Clients, PushLocked(c) PROVE [Promise!Next]_(Promise!vars)
  <2>1. pushing[c] \in Jobs /\ fate[pushing[c]] = "new"
    BY <1>3 DEF PushLocked, IInv, PushInv
  <2>2. CASE exited
    BY <1>3, <2>2 DEF PushLocked
  <2>3. CASE ~exited
    <3>1. Promise!Accept(pushing[c])
      BY <1>3, <2>1, <2>3 DEF PushLocked, Promise!Accept
    <3> QED BY <2>1, <3>1 DEF Promise!Next
  <2> QED BY <2>2, <2>3
<1>4. ASSUME NEW c \in Clients, PushNotify(c) PROVE UNCHANGED Promise!vars
  BY <1>4 DEF PushNotify
<1>5. ASSUME NEW c \in Clients, CancelRefused(c) PROVE [Promise!Next]_(Promise!vars)
  <2>1. pushing[c] \in Jobs /\ fate[pushing[c]] = "new"
    BY <1>5 DEF CancelRefused, IInv, PushInv
  <2>2. exited /\ stopping /\ queue = <<>>
    BY <1>5 DEF CancelRefused, IInv, NothingLeftBehind
  <2>3. Promise!TurnAway(pushing[c])
    BY <1>5, <2>1, <2>2 DEF CancelRefused, Promise!TurnAway
  <2> QED BY <2>1, <2>3 DEF Promise!Next
<1>6. CASE Stop
  BY <1>6 DEF Stop, Promise!Next, Promise!Close
<1>7. CASE Stopping
  BY <1>7 DEF Stopping, StopNotify, Join
<1>8. CASE Take
  BY <1>8 DEF Take, Promise!Next, Promise!Serve
<1>9. CASE OpenState \/ Lock \/ Sleep \/ Work \/ Drop \/ Exit \/ CloseState \/ SpuriousWakeup
  BY <1>9 DEF OpenState, Lock, Sleep, Work, Drop, Exit, CloseState, SpuriousWakeup
<1>10. ASSUME NEW j \in Jobs, PushFromJob(j) PROVE [Promise!Next]_(Promise!vars)
  BY <1>10 DEF PushFromJob, Promise!Next, Promise!Accept
<1>11. CASE Finished
  BY <1>11 DEF Finished, vars
<1> QED
  BY <1>1, <1>2, <1>3, <1>4, <1>5, <1>6, <1>7, <1>8, <1>9, <1>10, <1>11
     DEF Next, Client, Loop

\* The scheduler keeps its promise: one FIFO line, every job served once, run
\* before the stop and cancelled after it (RThreadManager.cpp:239-246).
THEOREM KeepsThePromise == Spec => ImplementsJobQueue
<1>1. Init => Promise!Init
  BY InitRefines
<1>2. IInv /\ [Next]_vars => [Promise!Next]_(Promise!vars)
  BY StepRefines
<1> QED BY <1>1, <1>2, SpecIInv, PTL DEF Spec, ImplementsJobQueue, Promise!Spec

=============================================================================
