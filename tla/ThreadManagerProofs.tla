------------------------- MODULE ThreadManagerProofs -------------------------
(***************************************************************************)
(* What holds of the thread manager for every number of workflows, tasks   *)
(* and task threads.                                                       *)
(***************************************************************************)
EXTENDS ThreadManager, FiniteSetTheorems, TLAPS

InSeq(x, q) == \E i \in 1 .. Len(q) : q[i] = x
NoDup(q) == \A i, j \in 1 .. Len(q) : q[i] = q[j] => i = j

\* The order of a shutdown: who is stopped is joined before the next one is, and
\* a thread that exited, or was never registered, has no job.
Order ==
    /\ phase[WorkflowThread] # "absent"
    /\ \A t \in Threads :
        /\ Exited(t) => stopping[t] /\ queue[t] = <<>> /\ hand[t] = None
        /\ phase[t] = "absent" => ~stopping[t] /\ queue[t] = <<>> /\ hand[t] = None
        /\ stopping[t] => qt # "serving"
        /\ stopping[t] /\ joining # t => phase[t] = "ended"
    /\ stopping[WorkflowThread] => \A t \in TaskThreads : phase[t] \in {"absent", "ended"}
    /\ joining # None => stopping[joining] /\ qt = "stopping"
    /\ qt \in {"stopped", "gone"} => phase[WorkflowThread] = "ended"

\* A task is in the queue or the hand of the thread it is at, once, and nowhere else.
Placement ==
    \A t \in Threads :
        /\ NoDup(queue[t])
        /\ ~InSeq(hand[t], queue[t])
        /\ \A s \in Tasks : at[s] = t <=> hand[t] = s \/ InSeq(s, queue[t])
        /\ t # WorkflowThread => queue[t] \in Seq(Tasks) /\ hand[t] \in Tasks \cup {None}

\* What the workflow thread is doing fits the job it has and the workflow it is for.
Steps ==
    /\ step = "idle" <=> current = None
    /\ step = "user" =>
        /\ hand[WorkflowThread] # None
        /\ current = IF hand[WorkflowThread] \in Tasks THEN owner[hand[WorkflowThread]]
                     ELSE hand[WorkflowThread]
    /\ step \in {"dispatch", "closing"} => hand[WorkflowThread] = None /\ entry[current] = "open"
    /\ step \in {"user", "dispatch"} => phase[WorkflowThread] = "serving"
    /\ step = "closing" => phase[WorkflowThread] # "ended" /\ result[current] # None /\ pending[current] = 0

\* Where a workflow is in its life tells where its entry is.
Entries ==
    \A w \in Workflows :
        /\ entry[w] = "none" <=> handle[w] = "none"
        /\ hand[WorkflowThread] = w \/ InSeq(w, queue[WorkflowThread])
                <=> entry[w] \in {"queued", "starting"}
        /\ entry[w] = "starting" <=> step = "user" /\ hand[WorkflowThread] = w
        /\ phase[WorkflowThread] = "ended" => entry[w] # "open"
        /\ entry[w] = "open" /\ result[w] # None /\ current # w => pending[w] # 0

\* A task that was asked for is in the context of its workflow, once.
Asked ==
    /\ \A s \in Tasks :
        /\ at[s] = "free" <=> owner[s] = None
        /\ at[s] = "asked" => target[s] \in TaskThreads
        /\ at[s] = "asked" /\ LateSubmitters = {} => owner[s] = current /\ step \in {"user", "dispatch"}
    /\ \A w \in Workflows :
        /\ NoDup(submissions[w])
        /\ \A s \in Tasks : at[s] = "asked" /\ owner[s] = w <=> InSeq(s, submissions[w])

\* An event is for a workflow that was submitted.
Posted == \A i \in 1 .. Len(events) : handle[events[i].to] # "none"

IInv ==
    /\ TypeOK
    /\ Order
    /\ Placement
    /\ Steps
    /\ Entries
    /\ Asked
    /\ CallbacksComeHome
    /\ PendingCounts
    /\ Posted

-----------------------------------------------------------------------------
(* Queues without repetition.                                              *)

\* Nothing is in the empty queue.
LEMMA EmptySeq == \A x : ~InSeq(x, <<>>) /\ NoDup(<<>>)
  BY DEF InSeq, NoDup

\* What is in a queue after an element joined it at the end.
LEMMA AppendSeq ==
    ASSUME NEW S, NEW q \in Seq(S), NEW x \in S
    PROVE /\ Append(q, x) \in Seq(S)
          /\ Append(q, x) # <<>>
          /\ \A y : InSeq(y, Append(q, x)) <=> InSeq(y, q) \/ y = x
          /\ NoDup(q) /\ ~InSeq(x, q) => NoDup(Append(q, x))
<1> DEFINE p == Append(q, x)
<1>1. /\ p \in Seq(S) /\ p # <<>> /\ Len(p) = Len(q) + 1 /\ Len(q) \in Nat
      /\ p[Len(q) + 1] = x
      /\ \A i \in 1 .. Len(q) : p[i] = q[i]
  OBVIOUS
<1> HIDE DEF p
<1>2. \A i \in 1 .. Len(p) : i \in 1 .. Len(q) \/ i = Len(q) + 1
  BY <1>1
<1>3. \A y : InSeq(y, p) <=> InSeq(y, q) \/ y = x
  BY <1>1, <1>2 DEF InSeq
<1>4. ASSUME NoDup(q), ~InSeq(x, q) PROVE NoDup(p)
  <2> SUFFICES ASSUME NEW i \in 1 .. Len(p), NEW j \in 1 .. Len(p), p[i] = p[j] PROVE i = j
    BY DEF NoDup
  <2> QED BY <1>1, <1>2, <1>4 DEF NoDup, InSeq
<1> QED BY <1>1, <1>3, <1>4 DEF p

\* What is left in a queue after its first element was taken.
LEMMA TailSeq ==
    ASSUME NEW S, NEW q \in Seq(S), q # <<>>, NoDup(q)
    PROVE /\ Head(q) \in S
          /\ Tail(q) \in Seq(S)
          /\ InSeq(Head(q), q)
          /\ NoDup(Tail(q))
          /\ \A y : InSeq(y, Tail(q)) <=> InSeq(y, q) /\ y # Head(q)
<1> DEFINE p == Tail(q)
<1>1. /\ p \in Seq(S) /\ Len(p) = Len(q) - 1 /\ Len(q) \in Nat /\ Len(q) >= 1
      /\ Head(q) = q[1] /\ q[1] \in S
      /\ \A i \in 1 .. Len(p) : p[i] = q[i + 1] /\ i + 1 \in 1 .. Len(q)
  OBVIOUS
<1> HIDE DEF p
<1>2. NoDup(p)
  BY <1>1 DEF NoDup
<1>3. InSeq(Head(q), q)
  BY <1>1 DEF InSeq
<1>4. ASSUME NEW y, InSeq(y, q), y # Head(q) PROVE InSeq(y, p)
  <2>1. PICK i \in 1 .. Len(q) : q[i] = y
    BY <1>4 DEF InSeq
  <2>2. i # 1 /\ i - 1 \in 1 .. Len(p) /\ p[i - 1] = y
    BY <1>1, <1>4, <2>1
  <2> QED BY <2>2 DEF InSeq
<1>5. ASSUME NEW y, InSeq(y, p) PROVE InSeq(y, q) /\ y # Head(q)
  <2>1. PICK i \in 1 .. Len(p) : p[i] = y
    BY <1>5 DEF InSeq
  <2>2. i + 1 \in 1 .. Len(q) /\ q[i + 1] = y /\ i + 1 # 1
    BY <1>1, <2>1
  <2>3. 1 \in 1 .. Len(q)
    BY <1>1
  <2> QED BY <1>1, <2>2, <2>3 DEF InSeq, NoDup
<1> QED BY <1>1, <1>2, <1>3, <1>4, <1>5 DEF p

\* An element of a queue is of the queue's type.
LEMMA InSeqType ==
    ASSUME NEW S, NEW q \in Seq(S), NEW x, InSeq(x, q) PROVE x \in S
  BY DEF InSeq

-----------------------------------------------------------------------------
(* Tasks on the way.                                                       *)

\* A workflow has finitely many tasks on their way.
LEMMA OnTheWayFinite == ASSUME NEW w PROVE IsFiniteSet(OnTheWay(w)) /\ Cardinality(OnTheWay(w)) \in Nat
  BY TasksAssumption, FS_Subset, FS_CardinalityType DEF OnTheWay

\* Nothing about the counts changes in a step that moves no task on or off.
LEMMA SameCounts ==
    ASSUME PendingCounts, UNCHANGED pending,
           \A w \in Workflows : OnTheWay(w)' = OnTheWay(w)
    PROVE PendingCounts'
  BY DEF PendingCounts

-----------------------------------------------------------------------------
(* The invariant holds at first.                                           *)

\* The manager starts in the invariant.
LEMMA InitIInv == Init => IInv
<1> SUFFICES ASSUME Init PROVE IInv
  OBVIOUS
<1> USE NamesAssumption DEF Init
<1>1. TypeOK
  <2>1. /\ queue \in [Threads -> Seq(Workflows \cup Tasks)]
        /\ submissions \in [Workflows -> Seq(Tasks)]
        /\ events \in Seq(Event)
    OBVIOUS
  <2>2. /\ phase \in [Threads -> {"absent", "serving", "exited", "ended"}]
        /\ stopping \in [Threads -> BOOLEAN]
        /\ hand \in [Threads -> Workflows \cup Tasks \cup {None}]
        /\ cancelling \in [Threads -> BOOLEAN]
    OBVIOUS
  <2>3. /\ entry \in [Workflows -> {"none", "queued", "starting", "open", "closed"}]
        /\ result \in [Workflows -> Results \cup {None}]
        /\ pending \in [Workflows -> Nat]
        /\ handle \in [Workflows -> {"none", "queued", "running", "finished", "gone"}]
    OBVIOUS
  <2>4. /\ at \in [Tasks -> Threads \cup {"free", "asked"}]
        /\ owner \in [Tasks -> Workflows \cup {None}]
        /\ target \in [Tasks -> TaskThreads \cup {None}]
        /\ outcome \in [Tasks -> Results \cup {None}]
    OBVIOUS
  <2> QED BY <2>1, <2>2, <2>3, <2>4 DEF TypeOK
<1>2. Order
  BY DEF Order, Threads, Exited
<1>3. Placement
  <2>1. \A t \in Threads : queue[t] = <<>> /\ hand[t] = None
    OBVIOUS
  <2>2. \A s \in Tasks : at[s] \notin Threads
    BY DEF Threads
  <2> QED BY <2>1, <2>2, EmptySeq DEF Placement, Threads
<1>4. Steps
  BY DEF Steps
<1>5. Entries
  BY EmptySeq DEF Entries, Threads
<1>6. Asked
  BY EmptySeq DEF Asked
<1>7. CallbacksComeHome
  BY DEF CallbacksComeHome, Threads
<1>8. PendingCounts
  <2>1. ASSUME NEW w \in Workflows PROVE OnTheWay(w) = {}
    BY DEF OnTheWay, Threads
  <2> QED BY <2>1, FS_EmptySet DEF PendingCounts
<1>9. Posted
  BY DEF Posted
<1> QED BY <1>1, <1>2, <1>3, <1>4, <1>5, <1>6, <1>7, <1>8, <1>9 DEF IInv

-----------------------------------------------------------------------------
(* The Qt thread keeps it.                                                 *)

\* A task thread registers: no queue and no workflow is touched.
LEMMA RegisterThreadIInv ==
    ASSUME IInv, NEW t \in TaskThreads, RegisterThread(t) PROVE IInv'
<1> USE DEF IInv, RegisterThread, contextVars, taskVars, stepVars, qtVars, Threads
<1>1. TypeOK'
  BY DEF TypeOK
<1>2. Order'
  BY NamesAssumption DEF Order, TypeOK, Exited
<1>3. Placement' /\ Asked' /\ CallbacksComeHome'
  BY DEF Placement, Asked, CallbacksComeHome
<1>4. Steps' /\ Entries'
  BY NamesAssumption DEF Steps, Entries, TypeOK
<1>5. PendingCounts' /\ Posted'
  BY DEF PendingCounts, OnTheWay, Posted
<1> QED BY <1>1, <1>2, <1>3, <1>4, <1>5

\* A submission puts a workflow that was nowhere before into the queue of its thread.
LEMMA SubmitIInv ==
    ASSUME IInv, NEW w \in Workflows, Submit(w) PROVE IInv'
<1> USE DEF IInv, Submit, taskVars, stepVars, Threads
<1> DEFINE q == queue[WorkflowThread]
<1>1. /\ q \in Seq(Workflows \cup Tasks)
      /\ entry[w] = "none"
      /\ queue'[WorkflowThread] = Append(q, w)
      /\ \A t \in TaskThreads : queue'[t] = queue[t]
      /\ phase[WorkflowThread] = "serving"
  BY NamesAssumption DEF TypeOK, Entries, Order, Exited
<1>2. /\ Append(q, w) \in Seq(Workflows \cup Tasks)
      /\ \A y : InSeq(y, Append(q, w)) <=> InSeq(y, q) \/ y = w
      /\ NoDup(q) /\ ~InSeq(w, q) => NoDup(Append(q, w))
  BY <1>1, AppendSeq
<1>3. hand[WorkflowThread] # w /\ ~InSeq(w, q)
  BY <1>1 DEF Entries
<1>4. TypeOK'
  BY <1>2 DEF TypeOK
<1>5. Order'
  BY <1>1 DEF Order, Exited
<1>6. Placement'
  BY <1>1, <1>2, <1>3, NamesAssumption DEF Placement
<1>7. Steps'
  BY <1>1, <1>3, NamesAssumption DEF Steps, TypeOK
<1>8. Entries'
  BY <1>1, <1>2, <1>3, NamesAssumption DEF Entries, TypeOK
<1>9. Asked'
  BY DEF Asked
<1>10. CallbacksComeHome'
  BY <1>1, NamesAssumption DEF CallbacksComeHome, TypeOK, Asked
<1>11. PendingCounts'
  BY DEF PendingCounts, OnTheWay
<1>12. Posted'
  BY DEF Posted, TypeOK, Event
<1> QED BY <1>4, <1>5, <1>6, <1>7, <1>8, <1>9, <1>10, <1>11, <1>12

\* The UI thread takes an event: what the owner has seen grows by what it lost.
LEMMA HandleEventIInv == ASSUME IInv, HandleEvent PROVE IInv'
<1> USE DEF IInv, HandleEvent, threadVars, contextVars, taskVars, stepVars, Threads
<1>1. Head(events) \in Event /\ Tail(events) \in Seq(Event)
  BY DEF TypeOK
<1>2. TypeOK'
  BY <1>1 DEF TypeOK, Event
<1>3. Order' /\ Placement' /\ Steps' /\ Asked' /\ CallbacksComeHome'
  BY DEF Order, Exited, Placement, Steps, Asked, CallbacksComeHome
<1>4. PendingCounts'
  BY DEF PendingCounts, OnTheWay
<1>5. /\ handle[Head(events).to] # "none"
      /\ Head(events).state \in {"running", "finished"}
      /\ Head(events).to \in Workflows
  BY <1>1 DEF Posted, TypeOK, Event
<1>6. Entries'
  BY <1>1, <1>5 DEF Entries, TypeOK
<1>7. \A i \in 1 .. Len(events') :
          events'[i] \in Event /\ \E j \in 1 .. Len(events) : events'[i] = events[j]
  BY <1>1 DEF TypeOK
<1>8. \A w \in Workflows : handle[w] # "none" => handle'[w] # "none"
  BY <1>5 DEF TypeOK
<1>9. Posted'
  BY <1>7, <1>8 DEF Posted, Event
<1> QED BY <1>2, <1>3, <1>4, <1>6, <1>9

\* A handle goes with its owner; the events for it stay in the queue.
LEMMA DestroyOwnerIInv ==
    ASSUME IInv, NEW w \in Workflows, DestroyOwner(w) PROVE IInv'
<1> USE DEF IInv, DestroyOwner, threadVars, contextVars, taskVars, stepVars, Threads
<1>1. TypeOK'
  BY DEF TypeOK
<1>2. Order' /\ Placement' /\ Steps' /\ Asked' /\ CallbacksComeHome'
  BY DEF Order, Exited, Placement, Steps, Asked, CallbacksComeHome
<1>3. Entries'
  BY DEF Entries, TypeOK
<1>4. PendingCounts'
  BY DEF PendingCounts, OnTheWay
<1>5. Posted'
  BY DEF Posted, TypeOK, Event
<1> QED BY <1>1, <1>2, <1>3, <1>4, <1>5

\* From the start of the shutdown no event is handled.
LEMMA BeginShutdownIInv == ASSUME IInv, BeginShutdown PROVE IInv'
<1> USE DEF IInv, BeginShutdown, threadVars, contextVars, taskVars, stepVars, Threads
<1>1. TypeOK'
  BY DEF TypeOK
<1>2. Order'
  BY DEF Order, Exited
<1>3. Placement' /\ Steps' /\ Entries' /\ Asked' /\ CallbacksComeHome'
  BY DEF Placement, Steps, Entries, Asked, CallbacksComeHome
<1>4. PendingCounts' /\ Posted'
  BY DEF PendingCounts, OnTheWay, Posted
<1> QED BY <1>1, <1>2, <1>3, <1>4

\* A thread is told to stop, the workflow thread last.
LEMMA StopThreadIInv ==
    ASSUME IInv, NEW t \in Threads, StopThread(t) PROVE IInv'
<1> USE DEF IInv, StopThread, contextVars, taskVars, stepVars
<1>1. TypeOK'
  BY DEF TypeOK, Threads
<1>2. Order'
  BY NamesAssumption DEF Order, Exited, InTurn, TypeOK, Threads
<1>3. Placement' /\ Steps' /\ Entries' /\ Asked' /\ CallbacksComeHome'
  BY DEF Placement, Steps, Entries, Asked, CallbacksComeHome
<1>4. PendingCounts' /\ Posted'
  BY DEF PendingCounts, OnTheWay, Posted
<1> QED BY <1>1, <1>2, <1>3, <1>4

\* A thread is joined once it has exited.
LEMMA JoinedIInv == ASSUME IInv, Joined PROVE IInv'
<1> USE DEF IInv, Joined, threadVars, contextVars, taskVars, stepVars
<1>1. TypeOK'
  BY DEF TypeOK
<1>2. Order'
  BY NamesAssumption DEF Order, Exited, TypeOK, Threads
<1>3. Placement' /\ Steps' /\ Entries' /\ Asked' /\ CallbacksComeHome'
  BY DEF Placement, Steps, Entries, Asked, CallbacksComeHome
<1>4. PendingCounts' /\ Posted'
  BY DEF PendingCounts, OnTheWay, Posted
<1> QED BY <1>1, <1>2, <1>3, <1>4

\* The manager is freed once every thread is joined.
LEMMA DeleteManagerIInv == ASSUME IInv, DeleteManager PROVE IInv'
<1> USE DEF IInv, DeleteManager, threadVars, contextVars, taskVars, stepVars
<1>1. TypeOK'
  BY DEF TypeOK
<1>2. Order'
  BY DEF Order, Exited
<1>3. Placement' /\ Steps' /\ Entries' /\ Asked' /\ CallbacksComeHome'
  BY DEF Placement, Steps, Entries, Asked, CallbacksComeHome
<1>4. PendingCounts' /\ Posted'
  BY DEF PendingCounts, OnTheWay, Posted
<1> QED BY <1>1, <1>2, <1>3, <1>4

-----------------------------------------------------------------------------
(* loop() keeps it, on every thread.                                       *)

\* A thread takes the first job of its queue.
LEMMA TakeIInv == ASSUME IInv, NEW t \in Threads, Take(t) PROVE IInv'
<1> USE DEF IInv, Take, Waiting, contextVars, taskVars, stepVars, qtVars
<1> DEFINE q == queue[t]
<1>1. /\ q \in Seq(Workflows \cup Tasks) /\ q # <<>> /\ NoDup(q)
      /\ hand[t] = None
      /\ phase[t] = "serving"
  BY DEF TypeOK, Placement
<1>2. /\ Head(q) \in Workflows \cup Tasks
      /\ Tail(q) \in Seq(Workflows \cup Tasks)
      /\ InSeq(Head(q), q)
      /\ NoDup(Tail(q))
      /\ \A y : InSeq(y, Tail(q)) <=> InSeq(y, q) /\ y # Head(q)
  BY <1>1, TailSeq
<1>3. /\ hand'[t] = Head(q) /\ queue'[t] = Tail(q)
      /\ \A u \in Threads : u # t => hand'[u] = hand[u] /\ queue'[u] = queue[u]
  BY DEF TypeOK
<1>4. Head(q) # None
  BY <1>2, NamesAssumption
<1>5. TypeOK'
  BY <1>2 DEF TypeOK
<1>6. Order'
  BY <1>1, <1>3 DEF Order, Exited
<1>7. Placement'
  <2> SUFFICES ASSUME NEW u \in Threads
               PROVE /\ NoDup(queue'[u])
                     /\ ~InSeq(hand'[u], queue'[u])
                     /\ \A s \in Tasks : at'[s] = u <=> hand'[u] = s \/ InSeq(s, queue'[u])
                     /\ u # WorkflowThread => queue'[u] \in Seq(Tasks) /\ hand'[u] \in Tasks \cup {None}
    BY DEF Placement
  <2>1. CASE u # t
    BY <1>3, <2>1 DEF Placement
  <2>2. CASE u = t
    <3>1. NoDup(queue'[t]) /\ ~InSeq(hand'[t], queue'[t])
      BY <1>2, <1>3
    <3>2. \A s \in Tasks : at'[s] = t <=> hand'[t] = s \/ InSeq(s, queue'[t])
      BY <1>1, <1>2, <1>3, NamesAssumption DEF Placement
    <3>3. ASSUME t # WorkflowThread PROVE queue'[t] \in Seq(Tasks) /\ hand'[t] \in Tasks
      <4>1. q \in Seq(Tasks)
        BY <3>3 DEF Placement
      <4> QED BY <1>1, <1>3, <4>1
    <3> QED BY <2>2, <3>1, <3>2, <3>3
  <2> QED BY <2>1, <2>2
<1>8. Steps'
  BY <1>1, <1>3 DEF Steps, Threads
<1>9. Entries'
  <2>1. CASE t = WorkflowThread
    BY <1>1, <1>2, <1>3, <2>1, NamesAssumption DEF Entries
  <2>2. CASE t # WorkflowThread
    BY <1>3, <2>2 DEF Entries, Threads
  <2> QED BY <2>1, <2>2
<1>10. Asked' /\ CallbacksComeHome' /\ PendingCounts' /\ Posted'
  BY DEF Asked, CallbacksComeHome, PendingCounts, OnTheWay, Posted
<1> QED BY <1>5, <1>6, <1>7, <1>8, <1>9, <1>10

\* A thread exits, told to stop and with nothing queued.
LEMMA ExitIInv == ASSUME IInv, NEW t \in Threads, Exit(t) PROVE IInv'
<1> USE DEF IInv, Exit, Waiting, contextVars, taskVars, stepVars, qtVars, Threads
<1>1. TypeOK'
  BY DEF TypeOK
<1>2. Order'
  BY NamesAssumption DEF Order, Exited, TypeOK
<1>3. Placement' /\ Asked' /\ CallbacksComeHome' /\ PendingCounts' /\ Posted'
  BY DEF Placement, Asked, CallbacksComeHome, PendingCounts, OnTheWay, Posted
<1>4. Steps' /\ Entries'
  BY NamesAssumption DEF Steps, Entries, TypeOK
<1> QED BY <1>1, <1>2, <1>3, <1>4

\* A thread ends; on the workflow thread no workflow is left open.
LEMMA EndIInv == ASSUME IInv, NEW t \in Threads, End(t) PROVE IInv'
<1> USE DEF IInv, End, contextVars, taskVars, stepVars, qtVars, Threads
<1>1. TypeOK'
  BY DEF TypeOK
<1>2. Order'
  BY NamesAssumption DEF Order, Exited, TypeOK
<1>3. Placement' /\ Asked' /\ CallbacksComeHome' /\ PendingCounts' /\ Posted'
  BY DEF Placement, Asked, CallbacksComeHome, PendingCounts, OnTheWay, Posted
<1>4. Steps' /\ Entries'
  BY NamesAssumption DEF Steps, Entries, TypeOK
<1> QED BY <1>1, <1>2, <1>3, <1>4

\* The workflow thread outlives every task thread that has a job, so the
\* completion always goes to its queue.
LEMMA CompleteTaskHome ==
    ASSUME IInv, NEW t \in TaskThreads, CompleteTask(t)
    PROVE /\ hand[t] \in Tasks /\ at[hand[t]] = t
          /\ ~Exited(WorkflowThread) /\ phase[WorkflowThread] # "absent"
<1> USE DEF IInv, Threads
<1>1. hand[t] \in Tasks /\ at[hand[t]] = t
  BY NamesAssumption DEF CompleteTask, Placement
<1>2. ~Exited(WorkflowThread)
  BY DEF CompleteTask, Order, Exited
<1> QED BY <1>1, <1>2 DEF Order

\* A task thread posts the completion of its task to the workflow thread.
LEMMA CompleteTaskIInv ==
    ASSUME IInv, NEW t \in TaskThreads, CompleteTask(t) PROVE IInv'
<1> USE DEF IInv, Threads
<1> DEFINE s == hand[t]
           q == queue[WorkflowThread]
<1>1. /\ s \in Tasks /\ at[s] = t /\ t # WorkflowThread
      /\ ~Exited(WorkflowThread) /\ phase[WorkflowThread] # "absent"
  BY CompleteTaskHome, NamesAssumption
<1>2. /\ queue' = [queue EXCEPT ![WorkflowThread] = Append(q, s)]
      /\ at' = [at EXCEPT ![s] = WorkflowThread]
      /\ hand' = [hand EXCEPT ![t] = None]
      /\ cancelling' = [cancelling EXCEPT ![t] = FALSE]
      /\ UNCHANGED <<phase, stopping, contextVars, owner, target, stepVars, strays, qtVars>>
  BY <1>1 DEF CompleteTask, DropJob
<1>3. outcome' \in [Tasks -> Results \cup {None}]
  BY <1>1 DEF CompleteTask, TypeOK, Results
<1>4. q \in Seq(Workflows \cup Tasks) /\ NoDup(q) /\ ~InSeq(s, q) /\ s # hand[WorkflowThread]
  BY <1>1 DEF TypeOK, Placement
<1>5. /\ Append(q, s) \in Seq(Workflows \cup Tasks)
      /\ NoDup(Append(q, s))
      /\ \A y : InSeq(y, Append(q, s)) <=> InSeq(y, q) \/ y = s
  BY <1>1, <1>4, AppendSeq
<1>6. /\ queue'[WorkflowThread] = Append(q, s) /\ hand'[WorkflowThread] = hand[WorkflowThread]
      /\ hand'[t] = None
      /\ \A u \in TaskThreads : queue'[u] = queue[u] /\ (u # t => hand'[u] = hand[u])
  BY <1>1, <1>2, NamesAssumption DEF TypeOK
<1>7. TypeOK'
  BY <1>1, <1>2, <1>3, <1>5 DEF TypeOK, contextVars, stepVars, qtVars
<1>8. Order'
  BY <1>1, <1>2, <1>6 DEF Order, Exited, qtVars
<1>9. Placement'
  <2> SUFFICES ASSUME NEW u \in Threads
               PROVE /\ NoDup(queue'[u])
                     /\ ~InSeq(hand'[u], queue'[u])
                     /\ \A r \in Tasks : at'[r] = u <=> hand'[u] = r \/ InSeq(r, queue'[u])
                     /\ u # WorkflowThread => queue'[u] \in Seq(Tasks) /\ hand'[u] \in Tasks \cup {None}
    BY DEF Placement
  <2>1. CASE u = WorkflowThread
    BY <1>1, <1>2, <1>4, <1>5, <1>6, <2>1 DEF Placement, TypeOK
  <2>2. CASE u = t
    <3>1. ~InSeq(None, queue[t])
      BY InSeqType, NamesAssumption, <1>1 DEF Placement
    <3> QED BY <1>1, <1>2, <1>6, <2>2, <3>1, NamesAssumption DEF Placement, TypeOK
  <2>3. CASE u \in TaskThreads /\ u # t
    BY <1>1, <1>2, <1>6, <2>3, NamesAssumption DEF Placement, TypeOK
  <2> QED BY <2>1, <2>2, <2>3
<1>10. Steps'
  BY <1>2, <1>6 DEF Steps, contextVars, stepVars
<1>11. Entries'
  BY <1>1, <1>2, <1>5, <1>6, NamesAssumption DEF Entries, contextVars, stepVars, qtVars
<1>12. Asked'
  BY <1>1, <1>2, NamesAssumption DEF Asked, TypeOK, contextVars, stepVars
<1>13. CallbacksComeHome'
  BY <1>1, <1>2 DEF CallbacksComeHome, TypeOK, contextVars
<1>14. PendingCounts'
  <2>1. \A w \in Workflows : OnTheWay(w)' = OnTheWay(w)
    BY <1>1, <1>2 DEF OnTheWay, TypeOK
  <2> QED BY <1>2, <2>1, SameCounts DEF contextVars
<1>15. Posted'
  BY <1>2 DEF Posted, qtVars
<1> QED BY <1>7, <1>8, <1>9, <1>10, <1>11, <1>12, <1>13, <1>14, <1>15

-----------------------------------------------------------------------------
(* The workflow thread keeps it.                                           *)

\* An event for a workflow that was submitted is a proper event.
LEMMA PostFacts ==
    ASSUME IInv, NEW w \in Workflows, entry[w] # "none",
           NEW state \in {"running", "finished"}, Post(w, state), UNCHANGED handle
    PROVE events' \in Seq(Event) /\ Posted'
<1> DEFINE e == [to |-> w, state |-> state]
<1> USE DEF IInv
<1>1. e \in Event /\ events \in Seq(Event) /\ events' = Append(events, e)
  BY DEF Event, Post, TypeOK
<1>2. events' \in Seq(Event)
  BY <1>1
<1>3. \A i \in 1 .. Len(events') : (i \in 1 .. Len(events) /\ events'[i] = events[i]) \/ events'[i] = e
  BY <1>1
<1>4. handle[w] # "none"
  BY DEF Entries
<1>5. Posted'
  BY <1>3, <1>4 DEF Posted
<1> QED BY <1>2, <1>5

\* A workflow that was cancelled before its start never opens.
LEMMA CancelStartIInv == ASSUME IInv, CancelStart PROVE IInv'
<1> USE DEF IInv, CancelStart, DropJob, job, taskVars, stepVars, Threads
<1> DEFINE w == hand[WorkflowThread]
<1>1. /\ w \in Workflows /\ w \notin Tasks /\ w # None
      /\ entry[w] = "queued"
      /\ ~InSeq(w, queue[WorkflowThread])
      /\ phase[WorkflowThread] = "serving"
  BY NamesAssumption DEF Entries, Placement, Order, Exited, TypeOK
<1>2. /\ hand'[WorkflowThread] = None
      /\ \A t \in TaskThreads : hand'[t] = hand[t]
      /\ entry'[w] = "closed"
      /\ \A v \in Workflows : v # w => entry'[v] = entry[v] /\ result'[v] = result[v]
  BY <1>1, NamesAssumption DEF TypeOK
<1>3. events' \in Seq(Event) /\ Posted'
  BY <1>1, PostFacts
<1>4. TypeOK'
  BY <1>1, <1>3 DEF TypeOK, Results
<1>5. Order'
  BY <1>2 DEF Order, Exited
<1>6. Placement'
  <2>1. ~InSeq(None, queue[WorkflowThread])
    BY InSeqType, NamesAssumption DEF TypeOK
  <2> QED BY <1>1, <1>2, <2>1, NamesAssumption DEF Placement
<1>7. Steps'
  BY <1>1, <1>2 DEF Steps
<1>8. Entries'
  BY <1>1, <1>2, NamesAssumption DEF Entries
<1>9. Asked'
  BY DEF Asked
<1>10. CallbacksComeHome'
  BY <1>1, <1>2, NamesAssumption DEF CallbacksComeHome, Asked, TypeOK
<1>11. PendingCounts'
  BY DEF PendingCounts, OnTheWay
<1> QED BY <1>3, <1>4, <1>5, <1>6, <1>7, <1>8, <1>9, <1>10, <1>11

\* start() of a workflow is called and its Running event is posted.
LEMMA BeginStartIInv == ASSUME IInv, BeginStart PROVE IInv'
<1> USE DEF IInv, BeginStart, job, threadVars, taskVars, Threads
<1> DEFINE w == hand[WorkflowThread]
<1>1. /\ w \in Workflows /\ w \notin Tasks /\ w # None
      /\ entry[w] = "queued"
      /\ phase[WorkflowThread] = "serving"
  BY NamesAssumption DEF Entries, Order, Exited, TypeOK
<1>2. /\ entry'[w] = "starting"
      /\ \A v \in Workflows : v # w => entry'[v] = entry[v]
  BY <1>1 DEF TypeOK
<1>3. events' \in Seq(Event) /\ Posted'
  BY <1>1, PostFacts
<1>4. TypeOK'
  BY <1>1, <1>3 DEF TypeOK
<1>5. Order' /\ Placement'
  BY DEF Order, Exited, Placement
<1>6. Steps'
  BY <1>1, <1>2 DEF Steps
<1>7. Entries'
  BY <1>1, <1>2, NamesAssumption DEF Entries, Steps
<1>8. Asked'
  <2>1. \A s \in Tasks : at[s] = "asked" => LateSubmitters # {}
    BY DEF Asked
  <2> QED BY <2>1 DEF Asked
<1>9. CallbacksComeHome'
  BY <1>1, <1>2, NamesAssumption DEF CallbacksComeHome, Asked, TypeOK
<1>10. PendingCounts'
  BY DEF PendingCounts, OnTheWay
<1> QED BY <1>3, <1>4, <1>5, <1>6, <1>7, <1>8, <1>9, <1>10

\* A completion finds its workflow in m_open_workflows.
LEMMA JobIsOpen ==
    ASSUME IInv, job \in Tasks
    PROVE /\ at[job] = WorkflowThread /\ owner[job] \in Workflows
          /\ entry[owner[job]] = "open" /\ phase[WorkflowThread] = "serving"
<1> USE DEF IInv, job, Threads
<1>1. at[job] = WorkflowThread
  BY DEF Placement
<1>2. owner[job] \in Workflows
  BY <1>1, NamesAssumption DEF Asked, TypeOK
<1>3. phase[WorkflowThread] = "serving"
  BY NamesAssumption DEF Order, Exited, TypeOK
<1> QED BY <1>1, <1>2, <1>3 DEF CallbacksComeHome

\* The completion of a task finds its workflow open.
LEMMA BeginCallbackIInv == ASSUME IInv, BeginCallback PROVE IInv'
<1> DEFINE w == owner[job]
<1>1. /\ at[job] = WorkflowThread /\ w \in Workflows /\ w # None
      /\ entry[w] = "open" /\ phase[WorkflowThread] = "serving"
  BY JobIsOpen, NamesAssumption DEF BeginCallback
<1>2. /\ step' = "user" /\ current' = w /\ step = "idle"
      /\ UNCHANGED <<threadVars, contextVars, taskVars, strays, qtVars>>
  BY <1>1 DEF BeginCallback, threadVars, taskVars
<1> USE DEF IInv, threadVars, contextVars, taskVars, qtVars
<1>3. TypeOK'
  BY <1>1, <1>2 DEF TypeOK
<1>4. Order' /\ Placement' /\ CallbacksComeHome' /\ Posted'
  BY <1>2 DEF Order, Exited, Placement, CallbacksComeHome, Posted
<1>5. Steps'
  BY <1>1, <1>2, NamesAssumption DEF Steps, job, BeginCallback
<1>6. Entries'
  BY <1>1, <1>2, NamesAssumption DEF Entries, job, BeginCallback, Steps
<1>7. Asked'
  <2>1. \A s \in Tasks : at[s] = "asked" => LateSubmitters # {}
    BY <1>2 DEF Asked
  <2> QED BY <1>2, <2>1 DEF Asked
<1>8. PendingCounts'
  BY <1>2 DEF PendingCounts, OnTheWay
<1> QED BY <1>3, <1>4, <1>5, <1>6, <1>7, <1>8

\* A task that nobody has yet is asked for.
LEMMA AskIInv ==
    ASSUME IInv, NEW s \in Tasks, NEW t \in TaskThreads, Ask(s, t), step # "idle",
           LateSubmitters = {} => step = "user"
    PROVE IInv'
<1> USE DEF IInv, Ask, threadVars, stepVars, qtVars, Threads
<1>1. current \in Workflows
  BY DEF Steps, TypeOK
<1> DEFINE q == submissions[current]
<1>2. q \in Seq(Tasks) /\ NoDup(q) /\ ~InSeq(s, q) /\ owner[s] = None /\ None \notin Workflows
  BY <1>1, NamesAssumption DEF TypeOK, Asked
<1>3. /\ Append(q, s) \in Seq(Tasks)
      /\ NoDup(Append(q, s))
      /\ \A y : InSeq(y, Append(q, s)) <=> InSeq(y, q) \/ y = s
  BY <1>2, AppendSeq
<1>4. /\ at'[s] = "asked" /\ owner'[s] = current /\ target'[s] = t
      /\ \A r \in Tasks : r # s => at'[r] = at[r] /\ owner'[r] = owner[r] /\ target'[r] = target[r]
      /\ submissions'[current] = Append(q, s)
      /\ \A w \in Workflows : w # current => submissions'[w] = submissions[w]
  BY <1>1 DEF TypeOK
<1>5. TypeOK'
  BY <1>1, <1>3 DEF TypeOK
<1>6. Order' /\ Posted'
  BY DEF Order, Exited, Posted
<1>7. Placement'
  <2>1. at[s] \notin Threads /\ at'[s] \notin Threads
    BY <1>4, NamesAssumption
  <2> QED BY <1>4, <2>1 DEF Placement
<1>8. Steps'
  <2>1. hand[WorkflowThread] \in Tasks => hand[WorkflowThread] # s
    BY NamesAssumption DEF Placement
  <2> QED BY <1>4, <2>1 DEF Steps
<1>9. Entries'
  BY DEF Entries
<1>10. Asked'
  BY <1>1, <1>2, <1>3, <1>4 DEF Asked
<1>11. CallbacksComeHome'
  BY <1>4, NamesAssumption DEF CallbacksComeHome
<1>12. PendingCounts'
  <2>1. \A w \in Workflows : OnTheWay(w)' = OnTheWay(w)
    BY <1>4, NamesAssumption DEF OnTheWay
  <2> QED BY <2>1, SameCounts
<1> QED BY <1>5, <1>6, <1>7, <1>8, <1>9, <1>10, <1>11, <1>12

\* A workflow sets its result.
LEMMA ContextFinishIInv == ASSUME IInv, ContextFinish PROVE IInv'
<1> USE DEF IInv, ContextFinish, threadVars, taskVars, stepVars, qtVars
<1>1. current \in Workflows
  BY DEF Steps, TypeOK
<1>2. TypeOK'
  BY <1>1 DEF TypeOK, Results
<1>3. Order' /\ Placement' /\ Asked' /\ CallbacksComeHome' /\ Posted'
  BY DEF Order, Exited, Placement, Asked, CallbacksComeHome, Posted
<1>4. Steps'
  BY DEF Steps
<1>5. Entries'
  BY <1>1 DEF Entries, TypeOK
<1>6. PendingCounts'
  BY DEF PendingCounts, OnTheWay
<1> QED BY <1>2, <1>3, <1>4, <1>5, <1>6

\* What start() and on_completed() leave in the context when they return.
LEMMA UserReturnFacts ==
    ASSUME IInv, UserReturn
    PROVE /\ current \in Workflows /\ phase[WorkflowThread] = "serving"
          /\ result' \in [Workflows -> Results \cup {None}]
          /\ \A w \in Workflows : w # current => result'[w] = result[w]
          /\ hand'[WorkflowThread] = None
          /\ \A t \in TaskThreads : hand'[t] = hand[t]
          /\ hand' \in [Threads -> Workflows \cup Tasks \cup {None}]
          /\ cancelling' \in [Threads -> BOOLEAN]
          /\ ~InSeq(None, queue[WorkflowThread])
<1> USE DEF IInv, UserReturn, DropJob, Threads
<1>1. current \in Workflows /\ phase[WorkflowThread] = "serving"
  BY DEF Steps, TypeOK
<1>2. /\ result' \in [Workflows -> Results \cup {None}]
      /\ \A w \in Workflows : w # current => result'[w] = result[w]
  BY <1>1 DEF TypeOK, Results
<1>3. /\ hand'[WorkflowThread] = None
      /\ \A t \in TaskThreads : hand'[t] = hand[t]
      /\ hand' \in [Threads -> Workflows \cup Tasks \cup {None}]
      /\ cancelling' \in [Threads -> BOOLEAN]
  BY NamesAssumption DEF TypeOK
<1>4. ~InSeq(None, queue[WorkflowThread])
  BY InSeqType, NamesAssumption DEF TypeOK
<1> QED BY <1>1, <1>2, <1>3, <1>4

\* start() returns and its workflow is open.
LEMMA StartReturnIInv == ASSUME IInv, StartReturn PROVE IInv'
<1> USE DEF IInv, StartReturn, UserReturn, job, Threads
<1> DEFINE w == hand[WorkflowThread]
<1>1. /\ w \in Workflows /\ w \notin Tasks /\ current = w /\ entry[w] = "starting"
      /\ ~InSeq(w, queue[WorkflowThread]) /\ w # None
  BY NamesAssumption DEF Steps, Entries, Placement
<1>2. /\ entry'[w] = "open"
      /\ \A v \in Workflows : v # w => entry'[v] = entry[v]
  BY <1>1 DEF TypeOK
<1>3. TypeOK'
  BY <1>1, UserReturnFacts DEF TypeOK, qtVars
<1>4. Order'
  BY UserReturnFacts DEF Order, Exited, qtVars
<1>5. Placement'
  BY <1>1, UserReturnFacts, NamesAssumption DEF Placement
<1>6. Steps'
  BY <1>1, <1>2, UserReturnFacts, NamesAssumption DEF Steps
<1>7. Entries'
  BY <1>1, <1>2, UserReturnFacts, NamesAssumption DEF Entries, qtVars
<1>8. Asked'
  BY DEF Asked
<1>9. CallbacksComeHome'
  BY <1>1, <1>2, NamesAssumption DEF CallbacksComeHome, Asked, TypeOK
<1>10. PendingCounts'
  BY DEF PendingCounts, OnTheWay
<1>11. Posted'
  BY DEF Posted, qtVars
<1> QED BY <1>3, <1>4, <1>5, <1>6, <1>7, <1>8, <1>9, <1>10, <1>11

\* A callback returns and its task is not waited for any more.
LEMMA CallbackReturnIInv == ASSUME IInv, CallbackReturn PROVE IInv'
<1> USE DEF IInv, CallbackReturn, UserReturn, job, Threads
<1> DEFINE s == hand[WorkflowThread]
           w == current
<1>1. /\ s \in Tasks /\ s \notin Workflows /\ s # None
      /\ at[s] = WorkflowThread /\ owner[s] = w /\ w \in Workflows /\ entry[w] = "open"
      /\ ~InSeq(s, queue[WorkflowThread])
  BY JobIsOpen, NamesAssumption DEF Steps, Placement
<1>2. /\ at'[s] = "free" /\ owner'[s] = None
      /\ \A r \in Tasks : r # s => at'[r] = at[r] /\ owner'[r] = owner[r]
      /\ \A v \in Workflows : v # w => pending'[v] = pending[v]
      /\ pending'[w] = pending[w] - 1
      /\ at' \in [Tasks -> Threads \cup {"free", "asked"}]
      /\ owner' \in [Tasks -> Workflows \cup {None}]
      /\ outcome' \in [Tasks -> Results \cup {None}]
  BY <1>1 DEF Forget, TypeOK
<1>3. /\ OnTheWay(w)' = OnTheWay(w) \ {s} /\ s \in OnTheWay(w)
      /\ \A v \in Workflows : v # w => OnTheWay(v)' = OnTheWay(v)
  BY <1>1, <1>2, NamesAssumption DEF OnTheWay
<1>4. /\ pending[w] = Cardinality(OnTheWay(w))
      /\ Cardinality(OnTheWay(w)') = Cardinality(OnTheWay(w)) - 1
      /\ Cardinality(OnTheWay(w)') \in Nat
  <2>1. IsFiniteSet(OnTheWay(w)) /\ Cardinality(OnTheWay(w)) \in Nat
    BY OnTheWayFinite
  <2>2. Cardinality(OnTheWay(w) \ {s}) = Cardinality(OnTheWay(w)) - 1 /\ IsFiniteSet(OnTheWay(w) \ {s})
    BY <1>3, <2>1, FS_RemoveElement
  <2>3. Cardinality(OnTheWay(w) \ {s}) \in Nat
    BY <2>2, FS_CardinalityType
  <2> QED BY <1>1, <1>3, <2>2, <2>3 DEF PendingCounts
<1>5. TypeOK'
  BY <1>1, <1>2, <1>4, UserReturnFacts DEF TypeOK, qtVars
<1>6. Order'
  BY UserReturnFacts DEF Order, Exited, qtVars
<1>7. Placement'
  <2> SUFFICES ASSUME NEW u \in Threads
               PROVE /\ NoDup(queue'[u])
                     /\ ~InSeq(hand'[u], queue'[u])
                     /\ \A r \in Tasks : at'[r] = u <=> hand'[u] = r \/ InSeq(r, queue'[u])
                     /\ u # WorkflowThread => queue'[u] \in Seq(Tasks) /\ hand'[u] \in Tasks \cup {None}
    BY DEF Placement
  <2>1. CASE u = WorkflowThread
    BY <1>1, <1>2, <2>1, UserReturnFacts, NamesAssumption DEF Placement
  <2>2. CASE u \in TaskThreads
    BY <1>1, <1>2, <2>2, UserReturnFacts, NamesAssumption DEF Placement
  <2> QED BY <2>1, <2>2
<1>8. Steps'
  BY <1>1, UserReturnFacts DEF Steps
<1>9. Entries'
  BY <1>1, <1>2, UserReturnFacts, NamesAssumption DEF Entries, qtVars
<1>10. Asked'
  BY <1>1, <1>2, NamesAssumption DEF Asked
<1>11. CallbacksComeHome'
  BY <1>1, <1>2, NamesAssumption DEF CallbacksComeHome
<1>12. PendingCounts'
  BY <1>2, <1>3, <1>4 DEF PendingCounts
<1>13. Posted'
  BY DEF Posted, qtVars
<1> QED BY <1>5, <1>6, <1>7, <1>8, <1>9, <1>10, <1>11, <1>12, <1>13

\* A task is counted and goes to its thread, or straight back as a completion.
LEMMA DispatchIInv == ASSUME IInv, Dispatch PROVE IInv'
<1> USE DEF IInv, Threads
<1> DEFINE w == current
           q == submissions[w]
           s == Head(q)
           t == target[s]
           u == Receiver(t)
           p == queue[u]
<1>1. /\ step = "dispatch" /\ w \in Workflows /\ entry[w] = "open" /\ hand[WorkflowThread] = None
      /\ phase[WorkflowThread] = "serving"
      /\ q \in Seq(Tasks) /\ q # <<>> /\ NoDup(q)
  BY DEF Dispatch, Steps, TypeOK, Asked
<1>2. /\ s \in Tasks /\ s \notin Workflows /\ s # None
      /\ Tail(q) \in Seq(Tasks)
      /\ NoDup(Tail(q))
      /\ InSeq(s, q)
      /\ \A y : InSeq(y, Tail(q)) <=> InSeq(y, q) /\ y # s
  BY <1>1, TailSeq, NamesAssumption
<1>3. at[s] = "asked" /\ owner[s] = w /\ t \in TaskThreads
  BY <1>1, <1>2 DEF Asked
<1>4. u \in Threads /\ phase[u] = "serving" /\ p \in Seq(Workflows \cup Tasks)
  BY <1>1, <1>3 DEF Receiver, TypeOK
<1>5. NoDup(p) /\ ~InSeq(s, p) /\ hand[u] # s
  BY <1>2, <1>3, <1>4, NamesAssumption DEF Placement
<1>6. /\ Append(p, s) \in Seq(Workflows \cup Tasks)
      /\ NoDup(Append(p, s))
      /\ \A y : InSeq(y, Append(p, s)) <=> InSeq(y, p) \/ y = s
  BY <1>2, <1>4, <1>5, AppendSeq
<1>7. /\ submissions' = [submissions EXCEPT ![w] = Tail(q)]
      /\ pending' = [pending EXCEPT ![w] = pending[w] + 1]
      /\ queue' = [queue EXCEPT ![u] = Append(p, s)]
      /\ at' = [at EXCEPT ![s] = u]
      /\ target' = [target EXCEPT ![s] = None]
      /\ outcome' = [outcome EXCEPT ![s] = OutcomeAtOnce(t)]
      /\ UNCHANGED <<phase, stopping, hand, cancelling, entry, result, owner, stepVars, strays, qtVars>>
  BY <1>1 DEF Dispatch, Counted, TypeOK
<1>0. p = queue[u] /\ q = submissions[w] /\ w = current /\ w' = w
  BY <1>7 DEF stepVars
<1> HIDE DEF u, t, s, p, q, w
<1>8. /\ queue'[u] = Append(p, s)
      /\ \A v \in Threads : v # u => queue'[v] = queue[v]
      /\ at'[s] = u
      /\ \A r \in Tasks : r # s => at'[r] = at[r] /\ target'[r] = target[r]
      /\ submissions'[w] = Tail(q)
      /\ \A v \in Workflows : v # w => submissions'[v] = submissions[v] /\ pending'[v] = pending[v]
      /\ pending'[w] = pending[w] + 1
  BY <1>1, <1>2, <1>4, <1>7 DEF TypeOK
<1>9. TypeOK'
  <2>1. OutcomeAtOnce(t) \in Results \cup {None}
    BY DEF OutcomeAtOnce, Results
  <2>2. pending[w] \in Nat
    BY <1>1 DEF TypeOK
  <2> QED BY SMTT(30), <1>1, <1>2, <1>4, <1>6, <1>7, <2>1, <2>2 DEF TypeOK, stepVars, qtVars
<1>10. Order'
  BY <1>4, <1>7, <1>8 DEF Order, Exited, qtVars
<1>11. Placement'
  <2> SUFFICES ASSUME NEW v \in Threads
               PROVE /\ NoDup(queue'[v])
                     /\ ~InSeq(hand'[v], queue'[v])
                     /\ \A r \in Tasks : at'[r] = v <=> hand'[v] = r \/ InSeq(r, queue'[v])
                     /\ v # WorkflowThread => queue'[v] \in Seq(Tasks) /\ hand'[v] \in Tasks \cup {None}
    BY DEF Placement
  <2>1. CASE v = u
    <3>1. ~InSeq(hand'[v], queue'[v])
      BY <1>0, <1>5, <1>6, <1>7, <1>8, <2>1 DEF Placement
    <3>2. \A r \in Tasks : at'[r] = v <=> hand'[v] = r \/ InSeq(r, queue'[v])
      BY <1>0, <1>2, <1>3, <1>4, <1>6, <1>7, <1>8, <2>1 DEF Placement
    <3>3. v # WorkflowThread => queue'[v] \in Seq(Tasks) /\ hand'[v] \in Tasks \cup {None}
      <4>1. ASSUME u # WorkflowThread PROVE Append(p, s) \in Seq(Tasks)
        BY <1>0, <1>2, <1>4, <4>1, AppendSeq DEF Placement
      <4> QED BY <1>4, <1>7, <1>8, <2>1, <4>1 DEF Placement
    <3> QED BY <1>6, <1>8, <2>1, <3>1, <3>2, <3>3
  <2>2. CASE v # u
    BY <1>2, <1>3, <1>7, <1>8, <2>2, NamesAssumption DEF Placement
  <2> QED BY <2>1, <2>2
<1>12. Steps'
  BY <1>1, <1>7 DEF Steps, stepVars
<1>13. Entries'
  <2>1. \A v \in Workflows : InSeq(v, queue'[WorkflowThread]) <=> InSeq(v, queue[WorkflowThread])
    BY ZenonT(60), <1>2, <1>6, <1>8, NamesAssumption DEF p
  <2> QED BY <1>7, <1>8, <2>1 DEF Entries, stepVars, qtVars, w
<1>14. Asked'
  <2>1. at'[s] \notin {"free", "asked"}
    BY <1>4, <1>8, NamesAssumption
  <2>2. \A r \in Tasks :
        /\ at'[r] = "free" <=> owner'[r] = None
        /\ at'[r] = "asked" => target'[r] \in TaskThreads
        /\ at'[r] = "asked" /\ LateSubmitters = {} => owner'[r] = current' /\ step' \in {"user", "dispatch"}
    BY <1>1, <1>3, <1>7, <1>8, <2>1, NamesAssumption DEF Asked, stepVars
  <2>3. ASSUME NEW v \in Workflows
        PROVE /\ NoDup(submissions'[v])
              /\ \A r \in Tasks : at'[r] = "asked" /\ owner'[r] = v <=> InSeq(r, submissions'[v])
    <3>1. CASE v = w
      BY <1>2, <1>7, <1>8, <2>1, <3>1 DEF Asked, q
    <3>2. CASE v # w
      BY <1>2, <1>3, <1>7, <1>8, <2>1, <3>2 DEF Asked
    <3> QED BY <3>1, <3>2
  <2> QED BY <2>2, <2>3 DEF Asked
<1>15. CallbacksComeHome'
  BY <1>1, <1>3, <1>7, <1>8 DEF CallbacksComeHome
<1>16. PendingCounts'
  <2>1. /\ OnTheWay(w)' = OnTheWay(w) \cup {s} /\ s \notin OnTheWay(w)
        /\ \A v \in Workflows : v # w => OnTheWay(v)' = OnTheWay(v)
    BY <1>0, <1>2, <1>3, <1>4, <1>7, <1>8, NamesAssumption DEF OnTheWay
  <2>2. IsFiniteSet(OnTheWay(w)) /\ Cardinality(OnTheWay(w)) \in Nat
    BY OnTheWayFinite
  <2>3. Cardinality(OnTheWay(w) \cup {s}) = Cardinality(OnTheWay(w)) + 1
    BY <2>1, <2>2, FS_AddElement
  <2>4. pending'[w] = Cardinality(OnTheWay(w) \cup {s})
    BY <1>1, <1>8, <2>3 DEF PendingCounts
  <2>5. ASSUME NEW v \in Workflows PROVE pending'[v] = Cardinality(OnTheWay(v)')
    <3>1. CASE v = w
      <4>1. OnTheWay(v)' = OnTheWay(w) \cup {s}
        BY <1>0, <2>1, <3>1 DEF OnTheWay
      <4> QED BY <2>4, <3>1, <4>1
    <3>2. CASE v # w
      BY <1>8, <2>1, <3>2 DEF PendingCounts
    <3> QED BY <3>1, <3>2
  <2> QED BY <2>5 DEF PendingCounts, OnTheWay
<1>17. Posted'
  BY <1>7 DEF Posted, qtVars
<1> QED BY <1>9, <1>10, <1>11, <1>12, <1>13, <1>14, <1>15, <1>16, <1>17

\* After dispatch() a workflow closes, or the thread is idle again.
LEMMA CloseIfDoneIInv == ASSUME IInv, CloseIfDone PROVE IInv'
<1> USE DEF IInv, CloseIfDone, FinishedAndQuiet, threadVars, contextVars, taskVars, qtVars
<1>1. current \in Workflows /\ None \notin Workflows
  BY NamesAssumption DEF Steps, TypeOK
<1>2. TypeOK'
  BY DEF TypeOK
<1>3. Order' /\ Placement' /\ CallbacksComeHome' /\ Posted'
  BY DEF Order, Exited, Placement, CallbacksComeHome, Posted
<1>4. Steps'
  BY <1>1 DEF Steps
<1>5. Entries'
  BY <1>1 DEF Entries
<1>6. Asked'
  <2>1. \A s \in Tasks : at[s] = "asked" => LateSubmitters # {}
    BY <1>1, EmptySeq DEF Asked
  <2> QED BY <2>1 DEF Asked
<1>7. PendingCounts'
  BY DEF PendingCounts, OnTheWay
<1> QED BY <1>2, <1>3, <1>4, <1>5, <1>6, <1>7

\* After the workflow thread exited no thread has a task and nobody waits for one.
LEMMA NothingOnTheWay ==
    ASSUME IInv, Exited(WorkflowThread)
    PROVE /\ \A t \in TaskThreads : phase[t] \in {"absent", "ended"}
          /\ \A s \in Tasks : at[s] \notin Threads
          /\ \A w \in Workflows : OnTheWay(w) = {} /\ pending[w] = 0
<1> USE DEF IInv, Threads
<1>1. \A t \in TaskThreads : phase[t] \in {"absent", "ended"}
  BY DEF Order
<1>2. \A t \in Threads : queue[t] = <<>> /\ hand[t] = None
  BY <1>1 DEF Order, Exited
<1>3. \A s \in Tasks : at[s] \notin Threads
  BY <1>2, EmptySeq, NamesAssumption DEF Placement
<1>4. \A w \in Workflows : OnTheWay(w) = {}
  BY <1>3 DEF OnTheWay
<1>5. \A w \in Workflows : pending[w] = 0
  BY <1>4, FS_EmptySet DEF PendingCounts
<1> QED BY <1>1, <1>3, <1>4, <1>5

\* Shutdown cancels a workflow that is open.
LEMMA CancelOpenIInv == ASSUME IInv, NEW w \in Workflows, CancelOpen(w) PROVE IInv'
<1> USE DEF IInv, CancelOpen, threadVars, taskVars, qtVars, Threads
<1>1. pending[w] = 0 /\ hand[WorkflowThread] = None
  BY NothingOnTheWay DEF Exited, Order
<1>2. result'[w] # None /\ \A v \in Workflows : v # w => result'[v] = result[v]
  BY NamesAssumption DEF TypeOK, Results
<1>3. TypeOK'
  BY DEF TypeOK, Results
<1>4. Order' /\ Placement' /\ CallbacksComeHome' /\ Posted'
  BY DEF Order, Exited, Placement, CallbacksComeHome, Posted
<1>5. Steps'
  BY <1>1, <1>2, NamesAssumption DEF Steps
<1>6. Entries'
  BY <1>1, <1>2, NamesAssumption DEF Entries, Steps
<1>7. Asked'
  <2>1. \A s \in Tasks : at[s] = "asked" => LateSubmitters # {}
    BY DEF Asked
  <2> QED BY <2>1 DEF Asked
<1>8. PendingCounts'
  BY DEF PendingCounts, OnTheWay
<1> QED BY <1>3, <1>4, <1>5, <1>6, <1>7, <1>8

\* close() posts the one answer.
LEMMA CloseIInv == ASSUME IInv, Close PROVE IInv'
<1> USE DEF IInv, Close, threadVars, taskVars, Threads
<1>1. current \in Workflows /\ entry[current] = "open" /\ pending[current] = 0
      /\ hand[WorkflowThread] = None /\ None \notin Workflows
  BY NamesAssumption DEF Steps, TypeOK
<1>2. entry'[current] = "closed" /\ \A v \in Workflows : v # current => entry'[v] = entry[v]
  BY <1>1 DEF TypeOK
<1>3. OnTheWay(current) = {}
  BY <1>1, OnTheWayFinite, FS_EmptySet DEF PendingCounts
<1>4. events' \in Seq(Event) /\ Posted'
  BY <1>1, PostFacts
<1>5. TypeOK'
  BY <1>4 DEF TypeOK
<1>6. Order' /\ Placement'
  BY DEF Order, Exited, Placement
<1>7. Steps'
  BY DEF Steps
<1>8. Entries'
  BY <1>1, <1>2 DEF Entries, Steps
<1>9. Asked'
  <2>1. \A s \in Tasks : at[s] = "asked" => LateSubmitters # {}
    BY DEF Asked
  <2> QED BY <2>1 DEF Asked
<1>10. CallbacksComeHome'
  <2>1. \A s \in Tasks : at[s] \in Threads => owner[s] # current
    BY <1>3 DEF OnTheWay
  <2>2. \A s \in Tasks : at[s] \in Threads => owner[s] \in Workflows
    BY NamesAssumption DEF Asked, TypeOK
  <2> QED BY <1>2, <2>1, <2>2 DEF CallbacksComeHome
<1>11. PendingCounts'
  BY DEF PendingCounts, OnTheWay
<1> QED BY <1>4, <1>5, <1>6, <1>7, <1>8, <1>9, <1>10, <1>11

\* Every step keeps the invariant, one case per action.
LEMMA NextIInv == IInv /\ [Next]_vars => IInv'
<1> SUFFICES ASSUME IInv, [Next]_vars PROVE IInv'
  OBVIOUS
<1>1. CASE UNCHANGED vars
  BY <1>1 DEF vars, threadVars, contextVars, taskVars, stepVars, qtVars, IInv, TypeOK, Order,
              Exited, Placement, Steps, Entries, Asked, CallbacksComeHome, PendingCounts,
              OnTheWay, Posted
<1>2. ASSUME NEW t \in TaskThreads, RegisterThread(t) \/ TaskThread(t) PROVE IInv'
  BY <1>2, RegisterThreadIInv, TakeIInv, CompleteTaskIInv, ExitIInv, EndIInv DEF TaskThread, Threads
<1>3. ASSUME NEW w \in Workflows, Submit(w) \/ DestroyOwner(w) PROVE IInv'
  BY <1>3, SubmitIInv, DestroyOwnerIInv
<1>4. CASE WorkflowThreadStep
  <2>1. WorkflowThread \in Threads
    BY DEF Threads
  <2> QED BY <1>4, <2>1, TakeIInv, ExitIInv, EndIInv, CancelStartIInv, BeginStartIInv,
             BeginCallbackIInv, ContextFinishIInv, StartReturnIInv, CallbackReturnIInv,
             DispatchIInv, CloseIfDoneIInv, CloseIInv, CancelOpenIInv DEF WorkflowThreadStep
<1>5. CASE Submitting
  <2>1. ASSUME NEW s \in Tasks, NEW t \in TaskThreads, ContextSubmit(s, t) PROVE IInv'
    BY <2>1, AskIInv DEF ContextSubmit
  <2>2. ASSUME NEW s \in Tasks, NEW t \in TaskThreads, LateSubmit(s, t) PROVE IInv'
    BY <2>2, AskIInv DEF LateSubmit
  <2> QED BY <1>5, <2>1, <2>2 DEF Submitting
<1>6. CASE HandleEvent \/ BeginShutdown
  BY <1>6, HandleEventIInv, BeginShutdownIInv
<1>7. CASE Shutdown
  BY <1>7, JoinedIInv, DeleteManagerIInv, StopThreadIInv DEF Shutdown
<1>8. CASE Terminated
  BY <1>1, <1>8 DEF Terminated
<1> QED BY <1>1, <1>2, <1>3, <1>4, <1>5, <1>6, <1>7, <1>8 DEF Next

\* The invariant holds in every state of every behaviour.
LEMMA SpecIInv == Spec => []IInv
  BY InitIInv, NextIInv, PTL DEF Spec

-----------------------------------------------------------------------------
\* Every variable keeps its type, in particular pending_callbacks never goes
\* below zero (RThreadManager.cpp:537).
THEOREM TypeCorrect == Spec => []TypeOK
  BY SpecIInv, PTL DEF IInv

\* pending_callbacks is the number of dispatched tasks that still owe their
\* workflow a callback (RThreadManager.cpp:537-587).
THEOREM CountsAreRight == Spec => []PendingCounts
  BY SpecIInv, PTL DEF IInv

\* Every completion finds its workflow open and runs on the workflow thread.
THEOREM NoCallbackIsSwallowed == Spec => []CallbacksComeHome
  BY SpecIInv, PTL DEF IInv

\* cancel_open_workflows() need not look at pending_callbacks: when it runs, no
\* task is left anywhere.
THEOREM ExitIsQuiet == Spec => []QuietAfterExit
<1>1. IInv => QuietAfterExit
  <2> SUFFICES ASSUME IInv, Exited(WorkflowThread) PROVE QuietAfterExit
    BY DEF QuietAfterExit
  <2>1. /\ \A t \in TaskThreads : phase[t] \in {"absent", "ended"}
        /\ \A s \in Tasks : at[s] \notin Threads
        /\ \A w \in Workflows : pending[w] = 0
    BY NothingOnTheWay
  <2>2. \A w \in Workflows : entry[w] = "open" => result[w] = None \/ current = w
    BY <2>1 DEF IInv, Entries
  <2> QED BY <2>1, <2>2 DEF QuietAfterExit
<1> QED BY <1>1, SpecIInv, PTL

-----------------------------------------------------------------------------
(* The events of a workflow.                                               *)

Places(q, w, state) == {i \in 1 .. Len(q) : q[i] = [to |-> w, state |-> state]}

\* A workflow posts each of its two events once, running first, and by the time
\* it posts one its entry is where such a workflow has it; a handle that has seen
\* an event is not to see it again.
History(w) ==
    /\ \A i, j \in Starts(w) : i = j
    /\ \A i, j \in Finishes(w) : i = j
    /\ \A i \in Starts(w), j \in Finishes(w) : i < j
    /\ Starts(w) # {} => handle[w] \in {"queued", "gone"} /\ entry[w] \in {"starting", "open", "closed"}
    /\ Finishes(w) # {} => handle[w] # "finished" /\ entry[w] = "closed"
    /\ handle[w] = "running" => entry[w] \in {"starting", "open", "closed"}
    /\ handle[w] = "finished" => entry[w] = "closed"
    /\ qt # "gone" /\ handle[w] \in {"queued", "running"} /\ entry[w] = "closed" => Finishes(w) # {}

Histories == \A w \in Workflows : History(w)

\* A posted event has its place behind those that wait.
LEMMA AppendPlaces ==
    ASSUME NEW q \in Seq(Event), NEW e \in Event, NEW w, NEW state
    PROVE /\ e = [to |-> w, state |-> state]
                => Places(Append(q, e), w, state) = Places(q, w, state) \cup {Len(q) + 1}
          /\ e # [to |-> w, state |-> state]
                => Places(Append(q, e), w, state) = Places(q, w, state)
          /\ \A i \in Places(q, w, state) : i < Len(q) + 1
<1> DEFINE p == Append(q, e)
<1>1. /\ Len(p) = Len(q) + 1 /\ Len(q) \in Nat /\ p[Len(q) + 1] = e
      /\ \A i \in 1 .. Len(q) : p[i] = q[i]
  OBVIOUS
<1> HIDE DEF p
<1>2. \A i : i \in 1 .. Len(p) <=> i \in 1 .. Len(q) \/ i = Len(q) + 1
  BY <1>1
<1>3. ~ (Len(q) + 1 \in 1 .. Len(q))
  BY <1>1
<1>4. /\ e = [to |-> w, state |-> state] => Places(p, w, state) = Places(q, w, state) \cup {Len(q) + 1}
      /\ e # [to |-> w, state |-> state] => Places(p, w, state) = Places(q, w, state)
  BY <1>1, <1>2, <1>3 DEF Places
<1>5. \A i \in Places(q, w, state) : i < Len(q) + 1
  BY <1>1 DEF Places
<1> QED BY <1>4, <1>5 DEF p

\* When the oldest event is taken the others move up.
LEMMA TailPlaces ==
    ASSUME NEW q \in Seq(Event), q # <<>>, NEW w, NEW state
    PROVE /\ Places(Tail(q), w, state) \subseteq Nat
          /\ \A i \in Places(Tail(q), w, state) : i + 1 \in Places(q, w, state) /\ i + 1 # 1
          /\ \A i \in Places(q, w, state) : i \in Nat /\ i >= 1 /\ (i # 1 => i - 1 \in Places(Tail(q), w, state))
          /\ 1 \in Places(q, w, state) <=> Head(q) = [to |-> w, state |-> state]
<1> DEFINE p == Tail(q)
<1>1. /\ Len(p) = Len(q) - 1 /\ Len(q) \in Nat /\ Len(q) >= 1 /\ Head(q) = q[1]
      /\ \A i \in 1 .. Len(p) : p[i] = q[i + 1] /\ i + 1 \in 1 .. Len(q)
  OBVIOUS
<1> HIDE DEF p
<1>2. \A i \in 1 .. Len(q) : i # 1 => i - 1 \in 1 .. Len(p) /\ p[i - 1] = q[i]
  BY <1>1
<1>3. \A i \in Places(p, w, state) : i \in Nat /\ i >= 1 /\ i + 1 \in Places(q, w, state)
  BY <1>1 DEF Places
<1>4. \A i \in Places(q, w, state) : i \in Nat /\ i >= 1 /\ (i # 1 => i - 1 \in Places(p, w, state))
  BY <1>1, <1>2 DEF Places
<1>5. 1 \in Places(q, w, state) <=> Head(q) = [to |-> w, state |-> state]
  BY <1>1 DEF Places
<1> QED BY <1>3, <1>4, <1>5 DEF p

\* Where the events of a workflow are does not change with what else does.
LEMMA HistoryStays ==
    ASSUME Histories, UNCHANGED <<events, handle>>, qt = "gone" => qt' = "gone",
           NEW w \in Workflows,
           \/ entry'[w] = entry[w]
           \/ entry[w] \in {"starting", "open"} /\ entry'[w] \in {"starting", "open"}
    PROVE History(w)'
<1>1. Starts(w)' = Starts(w) /\ Finishes(w)' = Finishes(w)
  BY DEF Starts, Finishes
<1>2. History(w)
  BY DEF Histories
<1>3. CASE entry'[w] = entry[w]
  BY <1>1, <1>2, <1>3 DEF History
<1>4. CASE entry[w] \in {"starting", "open"} /\ entry'[w] \in {"starting", "open"}
  BY <1>1, <1>2, <1>4 DEF History
<1> QED BY <1>3, <1>4

\* A workflow that posts its running state has posted nothing, and one that posts
\* its result no result.
LEMMA PostHistory ==
    ASSUME IInv, Histories, NEW w \in Workflows, NEW state \in {"running", "finished"}, Post(w, state),
           UNCHANGED <<handle, qt>>,
           \A v \in Workflows : v # w => entry'[v] = entry[v],
           entry[w] \notin {"none", "closed"},
           state = "running" => entry[w] = "queued" /\ entry'[w] = "starting",
           state = "finished" => entry'[w] = "closed"
    PROVE Histories'
<1> DEFINE e == [to |-> w, state |-> state]
<1>1. e \in Event /\ events \in Seq(Event) /\ events' = Append(events, e)
  BY DEF Event, Post, IInv, TypeOK
<1>2. ASSUME NEW v, NEW s
      PROVE /\ e = [to |-> v, state |-> s] => Places(events', v, s) = Places(events, v, s) \cup {Len(events) + 1}
            /\ e # [to |-> v, state |-> s] => Places(events', v, s) = Places(events, v, s)
            /\ \A i \in Places(events, v, s) : i < Len(events) + 1
  BY <1>1, AppendPlaces
<1>3. \A v : /\ Starts(v) = Places(events, v, "running") /\ Starts(v)' = Places(events', v, "running")
             /\ Finishes(v) = Places(events, v, "finished") /\ Finishes(v)' = Places(events', v, "finished")
  BY DEF Starts, Finishes, Places
<1>4. ASSUME NEW v \in Workflows, v # w PROVE History(v)'
  <2>1. e # [to |-> v, state |-> "running"] /\ e # [to |-> v, state |-> "finished"]
    BY <1>4
  <2>2. Starts(v)' = Starts(v) /\ Finishes(v)' = Finishes(v)
    <3>1. /\ Places(events', v, "running") = Places(events, v, "running")
          /\ Places(events', v, "finished") = Places(events, v, "finished")
      BY <1>2, <2>1
    <3> QED BY <1>3, <3>1
  <2> QED BY <1>4, <2>2 DEF Histories, History
<1>5. handle[w] # "none" /\ handle[w] # "finished" /\ handle[w] \in {"none", "queued", "running", "finished", "gone"}
  BY DEF IInv, Entries, TypeOK, Histories, History
<1>6. Finishes(w) = {}
  BY DEF Histories, History
<1>7. CASE state = "running"
  <2>1. Starts(w) = {}
    BY <1>7 DEF Histories, History
  <2>2. handle[w] \in {"queued", "gone"}
    BY <1>5, <1>7 DEF Histories, History
  <2>3. e = [to |-> w, state |-> "running"] /\ e # [to |-> w, state |-> "finished"]
    BY <1>7
  <2>4. Starts(w)' = {Len(events) + 1} /\ Finishes(w)' = {}
    BY <1>2, <1>3, <1>6, <2>1, <2>3
  <2>5. History(w)'
    BY <1>7, <2>2, <2>4 DEF History
  <2> QED BY <1>4, <2>5 DEF Histories
<1>8. CASE state = "finished"
  <2>1. e = [to |-> w, state |-> "finished"] /\ e # [to |-> w, state |-> "running"]
    BY <1>8
  <2>2. Starts(w)' = Starts(w) /\ Finishes(w)' = {Len(events) + 1}
    BY <1>2, <1>3, <1>6, <2>1
  <2>3. \A i \in Starts(w) : i < Len(events) + 1
    BY <1>2, <1>3
  <2>4. History(w)'
    BY <1>5, <1>8, <2>2, <2>3 DEF Histories, History
  <2> QED BY <1>4, <2>4 DEF Histories
<1> QED BY <1>7, <1>8

\* The owner sees the oldest event, which for its workflow is the first.
LEMMA HandleEventHistory == ASSUME IInv, Histories, HandleEvent PROVE Histories'
<1> DEFINE e == Head(events)
<1>1. events \in Seq(Event) /\ events # <<>> /\ events' = Tail(events) /\ e \in Event
  BY DEF HandleEvent, IInv, TypeOK
<1>2. ASSUME NEW v, NEW s
      PROVE /\ Places(events', v, s) \subseteq Nat
            /\ \A i \in Places(events', v, s) : i + 1 \in Places(events, v, s) /\ i + 1 # 1
            /\ \A i \in Places(events, v, s) :
                  i \in Nat /\ i >= 1 /\ (i # 1 => i - 1 \in Places(events', v, s))
            /\ 1 \in Places(events, v, s) <=> e = [to |-> v, state |-> s]
  BY <1>1, TailPlaces
<1>3. \A v : /\ Starts(v) = Places(events, v, "running") /\ Starts(v)' = Places(events', v, "running")
             /\ Finishes(v) = Places(events, v, "finished") /\ Finishes(v)' = Places(events', v, "finished")
  BY DEF Starts, Finishes, Places
<1>4. e.to \in Workflows /\ e.state \in {"running", "finished"} /\ e = [to |-> e.to, state |-> e.state]
  BY <1>1 DEF Event
<1>5. /\ UNCHANGED <<entry, qt>> /\ qt = "serving"
      /\ handle' = IF handle[e.to] = "gone" THEN handle ELSE [handle EXCEPT ![e.to] = e.state]
  BY DEF HandleEvent, contextVars
<1> HIDE DEF e
<1>6. handle \in [Workflows -> {"none", "queued", "running", "finished", "gone"}]
  BY DEF IInv, TypeOK
<1>7. ASSUME NEW v \in Workflows
      PROVE /\ \A i \in Starts(v)' : i \in Nat /\ i + 1 \in Starts(v) /\ i + 1 # 1
            /\ \A i \in Finishes(v)' : i \in Nat /\ i + 1 \in Finishes(v) /\ i + 1 # 1
            /\ \A i \in Finishes(v) : i \in Nat /\ i >= 1 /\ (i # 1 => i - 1 \in Finishes(v)')
            /\ \A i \in Starts(v) : i \in Nat /\ i >= 1
            /\ 1 \in Starts(v) <=> e = [to |-> v, state |-> "running"]
            /\ 1 \in Finishes(v) <=> e = [to |-> v, state |-> "finished"]
  BY <1>2, <1>3
<1>8. ASSUME NEW v \in Workflows
      PROVE /\ \A i, j \in Starts(v)' : i = j
            /\ \A i, j \in Finishes(v)' : i = j
            /\ \A i \in Starts(v)', j \in Finishes(v)' : i < j
            /\ Starts(v)' # {} => Starts(v) # {}
            /\ Finishes(v)' # {} => Finishes(v) # {}
            /\ 1 \in Starts(v) => Starts(v)' = {}
            /\ 1 \in Finishes(v) => Starts(v) = {} /\ Finishes(v)' = {}
            /\ 1 \notin Finishes(v) /\ Finishes(v) # {} => Finishes(v)' # {}
  <2>1. History(v)
    BY DEF Histories
  <2>2. /\ \A i, j \in Starts(v)' : i = j
        /\ \A i, j \in Finishes(v)' : i = j
    BY <1>7, <2>1 DEF History
  <2>3. \A i \in Starts(v)', j \in Finishes(v)' : i < j
    BY <1>7, <2>1 DEF History
  <2>4. 1 \in Starts(v) => Starts(v)' = {}
    BY <1>7, <2>1 DEF History
  <2>5. 1 \in Finishes(v) => Starts(v) = {} /\ Finishes(v)' = {}
    BY <1>7, <2>1 DEF History
  <2>6. 1 \notin Finishes(v) /\ Finishes(v) # {} => Finishes(v)' # {}
    BY <1>7
  <2> QED BY <1>7, <2>2, <2>3, <2>4, <2>5, <2>6
<1>9. ASSUME NEW v \in Workflows PROVE History(v)'
  <2>1. CASE v # e.to
    <3>1. handle'[v] = handle[v]
      BY <1>4, <1>5, <1>6, <2>1
    <3>2. 1 \notin Finishes(v)
      BY <1>7, <2>1
    <3> QED BY <1>5, <1>8, <3>1, <3>2 DEF Histories, History
  <2>2. CASE v = e.to /\ handle[v] = "gone"
    BY <1>5, <1>8, <2>2 DEF Histories, History
  <2>3. CASE v = e.to /\ handle[v] # "gone" /\ e.state = "running"
    <3>1. handle'[v] = "running" /\ 1 \in Starts(v) /\ 1 \notin Finishes(v)
      BY <1>4, <1>5, <1>6, <1>7, <2>3
    <3>2. Starts(v)' = {} /\ entry[v] \in {"starting", "open", "closed"} /\ handle[v] = "queued"
      BY <1>8, <2>3, <3>1 DEF Histories, History
    <3> QED BY <1>5, <1>8, <3>1, <3>2 DEF Histories, History
  <2>4. CASE v = e.to /\ handle[v] # "gone" /\ e.state = "finished"
    <3>1. handle'[v] = "finished" /\ 1 \in Finishes(v)
      BY <1>4, <1>5, <1>6, <1>7, <2>4
    <3>2. Starts(v)' = {} /\ Finishes(v)' = {} /\ entry[v] = "closed"
      BY <1>8, <3>1 DEF Histories, History
    <3> QED BY <1>5, <3>1, <3>2 DEF History
  <2> QED BY <1>4, <2>1, <2>2, <2>3, <2>4
<1> QED BY <1>9 DEF Histories

\* The invariant of the events is inductive beside that of the manager.
LEMMA NextHistories == IInv /\ Histories /\ [Next]_vars => Histories'
<1> SUFFICES ASSUME IInv, Histories, [Next]_vars PROVE Histories'
  OBVIOUS
<1> USE DEF threadVars, contextVars, taskVars, stepVars, qtVars
<1>1. ASSUME UNCHANGED <<events, handle, entry>>, qt = "gone" => qt' = "gone" PROVE Histories'
  BY <1>1, HistoryStays DEF Histories
<1>2. CASE UNCHANGED vars
  BY <1>1, <1>2 DEF vars
<1>3. ASSUME NEW t \in TaskThreads, RegisterThread(t) \/ TaskThread(t) PROVE Histories'
  BY <1>1, <1>3 DEF RegisterThread, TaskThread, Take, CompleteTask, Exit, End
<1>4. ASSUME NEW w \in Workflows, Submit(w) PROVE Histories'
  <2>1. handle[w] = "none" /\ handle'[w] = "queued" /\ entry'[w] = "queued"
        /\ \A v \in Workflows : v # w => handle'[v] = handle[v] /\ entry'[v] = entry[v]
    BY <1>4 DEF Submit, IInv, TypeOK
  <2>2. UNCHANGED <<events, qt>>
    BY <1>4 DEF Submit
  <2>3. entry[w] = "none"
    BY <2>1 DEF IInv, Entries
  <2>4. \A v \in Workflows : Starts(v)' = Starts(v) /\ Finishes(v)' = Finishes(v)
    BY <2>2 DEF Starts, Finishes
  <2>5. Starts(w) = {} /\ Finishes(w) = {} /\ History(w)'
    BY <2>1, <2>2, <2>3, <2>4 DEF Histories, History
  <2>6. \A v \in Workflows : v # w => History(v)'
    BY <2>1, <2>2, <2>4 DEF Histories, History
  <2> QED BY <2>5, <2>6 DEF Histories
<1>5. ASSUME NEW w \in Workflows, DestroyOwner(w) PROVE Histories'
  <2>1. handle'[w] = "gone" /\ \A v \in Workflows : v # w => handle'[v] = handle[v]
    BY <1>5 DEF DestroyOwner, IInv, TypeOK
  <2>2. UNCHANGED <<events, entry, qt>>
    BY <1>5 DEF DestroyOwner
  <2>3. \A v \in Workflows : Starts(v)' = Starts(v) /\ Finishes(v)' = Finishes(v)
    BY <2>2 DEF Starts, Finishes
  <2>4. History(w)'
    BY <2>1, <2>2, <2>3 DEF Histories, History
  <2>5. \A v \in Workflows : v # w => History(v)'
    BY <2>1, <2>2, <2>3 DEF Histories, History
  <2> QED BY <2>4, <2>5 DEF Histories
<1>6. CASE CancelStart
  <2>1. /\ job \in Workflows /\ entry[job] = "queued"
        /\ entry'[job] = "closed" /\ \A v \in Workflows : v # job => entry'[v] = entry[v]
    BY <1>6 DEF CancelStart, IInv, Entries, TypeOK, job
  <2>2. Post(job, "finished") /\ UNCHANGED <<handle, qt>>
    BY <1>6 DEF CancelStart
  <2> QED BY <2>1, <2>2, PostHistory
<1>7. CASE BeginStart
  <2>1. /\ job \in Workflows /\ entry[job] = "queued"
        /\ entry'[job] = "starting" /\ \A v \in Workflows : v # job => entry'[v] = entry[v]
    BY <1>7 DEF BeginStart, IInv, Entries, TypeOK, job
  <2>2. Post(job, "running") /\ UNCHANGED <<handle, qt>>
    BY <1>7 DEF BeginStart
  <2> QED BY <2>1, <2>2, PostHistory
<1>8. CASE Close
  <2>1. /\ current \in Workflows /\ entry[current] = "open"
        /\ entry'[current] = "closed" /\ \A v \in Workflows : v # current => entry'[v] = entry[v]
    BY <1>8 DEF Close, IInv, Steps, TypeOK
  <2>2. Post(current, "finished") /\ UNCHANGED <<handle, qt>>
    BY <1>8 DEF Close
  <2> QED BY <2>1, <2>2, PostHistory
<1>9. CASE StartReturn
  <2>1. entry[current] = "starting" /\ current \in Workflows
    BY <1>9, NamesAssumption DEF StartReturn, UserReturn, IInv, Steps, Entries, TypeOK, job
  <2>2. entry'[current] = "open" /\ \A v \in Workflows : v # current => entry'[v] = entry[v]
    BY <1>9, <2>1 DEF StartReturn, IInv, TypeOK
  <2>3. UNCHANGED <<events, handle, qt>>
    BY <1>9 DEF StartReturn, UserReturn
  <2>4. \A v \in Workflows : \/ entry'[v] = entry[v]
                             \/ entry[v] \in {"starting", "open"} /\ entry'[v] \in {"starting", "open"}
    BY <2>1, <2>2
  <2> QED BY <2>3, <2>4, HistoryStays DEF Histories
<1>10. ASSUME \/ Take(WorkflowThread) \/ Exit(WorkflowThread) \/ End(WorkflowThread)
              \/ BeginCallback \/ ContextFinish \/ CallbackReturn \/ Dispatch \/ CloseIfDone
              \/ \E w \in Workflows : CancelOpen(w)
       PROVE Histories'
  BY <1>1, <1>10 DEF Take, Exit, End, BeginCallback, ContextFinish, CallbackReturn, UserReturn, Dispatch,
                     CloseIfDone, CancelOpen
<1>11. CASE Submitting
  BY <1>1, <1>11 DEF Submitting, ContextSubmit, LateSubmit, Ask
<1>12. CASE DeleteManager
  <2>1. events' = <<>> /\ qt' = "gone" /\ UNCHANGED <<handle, entry>>
    BY <1>12 DEF DeleteManager
  <2>2. \A w \in Workflows : Starts(w)' = {} /\ Finishes(w)' = {}
    BY <2>1 DEF Starts, Finishes
  <2> QED BY <2>1, <2>2 DEF Histories, History
<1>13. ASSUME BeginShutdown \/ Joined \/ \E t \in Threads : StopThread(t) PROVE Histories'
  <2>1. UNCHANGED <<events, handle, entry>>
    BY <1>13 DEF BeginShutdown, Joined, StopThread
  <2>2. qt # "gone"
    BY <1>13 DEF BeginShutdown, Joined, StopThread, IInv, Order
  <2> QED BY <1>1, <2>1, <2>2
<1>14. CASE Terminated
  BY <1>2, <1>14 DEF Terminated
<1>15. CASE WorkflowThreadStep
  BY <1>6, <1>7, <1>8, <1>9, <1>10, <1>15 DEF WorkflowThreadStep
<1>16. CASE Shutdown
  BY <1>12, <1>13, <1>16 DEF Shutdown
<1>17. CASE HandleEvent
  BY <1>17, HandleEventHistory
<1>18. CASE BeginShutdown
  BY <1>13, <1>18
<1> QED BY <1>2, <1>3, <1>4, <1>5, <1>11, <1>14, <1>15, <1>16, <1>17, <1>18 DEF Next

\* The terminal result is posted once, after the running state, and what an owner
\* has seen and what still waits for it add up to that one history; while the
\* manager is there the owner of a closed workflow has seen the result, has it
\* coming, or is gone.
THEOREM OwnersHaveOneHistory == Spec => []OneHistoryPerOwner
<1>1. Init => Histories
  <2> SUFFICES ASSUME Init, NEW w \in Workflows PROVE History(w)
    BY DEF Histories
  <2>1. Starts(w) = {} /\ Finishes(w) = {}
    BY DEF Init, Starts, Finishes
  <2> QED BY <2>1 DEF Init, History
<1>2. Histories => OneHistoryPerOwner
  <2> SUFFICES ASSUME Histories, NEW w \in Workflows
               PROVE /\ Cardinality(Finishes(w)) <= 1
                     /\ \A i \in Starts(w) : \A j \in Finishes(w) : i < j
                     /\ handle[w] = "finished" => Starts(w) \cup Finishes(w) = {} /\ entry[w] = "closed"
                     /\ handle[w] = "running" => Starts(w) = {}
                     /\ qt # "gone" /\ handle[w] \in {"queued", "running"} /\ entry[w] = "closed"
                            => Finishes(w) # {}
    BY DEF OneHistoryPerOwner
  <2>1. History(w)
    BY DEF Histories
  <2>2. Finishes(w) = {} \/ \E i : Finishes(w) = {i}
    BY ZenonT(60), <2>1 DEF History
  <2>3. Cardinality(Finishes(w)) <= 1
    <3>1. CASE Finishes(w) = {}
      BY <3>1, FS_EmptySet
    <3>2. ASSUME NEW i, Finishes(w) = {i} PROVE Cardinality(Finishes(w)) <= 1
      <4>1. Cardinality({i}) = 1
        BY FS_Singleton
      <4> QED BY <3>2, <4>1
    <3> QED BY <2>2, <3>1, <3>2
  <2> QED BY <2>1, <2>3 DEF History
<1> QED BY <1>1, <1>2, NextHistories, SpecIInv, PTL DEF Spec

-----------------------------------------------------------------------------
(***************************************************************************)
(* The thread manager implements WorkflowService, whatever the numbers of  *)
(* workflows, tasks and task threads, as long as no workflow submits from  *)
(* cancel() or close(): what it asks for there is dropped.                 *)
(***************************************************************************)

\* A job is cancelled only by a thread that shutdown() stopped.
CancelledByStop == \A t \in Threads : cancelling[t] => stopping[t]

\* A job is cancelled by a thread that was told to stop, in every behaviour.
LEMMA SpecCancelledByStop == Spec => []CancelledByStop
<1>1. Init => CancelledByStop
  BY DEF Init, CancelledByStop
<1>2. IInv /\ CancelledByStop /\ [Next]_vars => CancelledByStop'
  <2> SUFFICES ASSUME IInv, CancelledByStop, [Next]_vars PROVE CancelledByStop'
    OBVIOUS
  <2> USE DEF CancelledByStop, IInv, TypeOK, threadVars
  <2>1. CASE UNCHANGED <<stopping, cancelling>>
    BY <2>1
  <2>2. ASSUME NEW t \in Threads, StopThread(t) PROVE CancelledByStop'
    BY <2>2 DEF StopThread
  <2>3. ASSUME NEW t \in Threads, Take(t) PROVE CancelledByStop'
    BY <2>3 DEF Take
  <2>4. ASSUME NEW t \in Threads, DropJob(t), UNCHANGED stopping PROVE CancelledByStop'
    BY <2>4 DEF DropJob
  <2>5. ASSUME NEW t \in TaskThreads, RegisterThread(t) \/ TaskThread(t) PROVE CancelledByStop'
    BY <2>1, <2>3, <2>4, <2>5
       DEF RegisterThread, TaskThread, CompleteTask, Exit, End, Threads, Take
  <2>6. CASE WorkflowThreadStep
    <3>1. WorkflowThread \in Threads
      BY DEF Threads
    <3>2. CASE BeginCallback
      BY <2>1, <2>4, <3>1, <3>2 DEF BeginCallback
    <3>3. CASE CancelStart \/ StartReturn \/ CallbackReturn
      BY <2>4, <3>1, <3>3 DEF CancelStart, StartReturn, CallbackReturn, UserReturn
    <3>4. CASE Take(WorkflowThread)
      BY <2>3, <3>1, <3>4
    <3>5. CASE \/ Exit(WorkflowThread) \/ End(WorkflowThread) \/ BeginStart \/ ContextFinish
               \/ Dispatch \/ CloseIfDone \/ Close \/ \E w \in Workflows : CancelOpen(w)
      BY <2>1, <3>5 DEF Exit, End, BeginStart, ContextFinish, Dispatch, CloseIfDone, Close, CancelOpen
    <3> QED BY <2>6, <3>2, <3>3, <3>4, <3>5 DEF WorkflowThreadStep
  <2>7. CASE Shutdown
    BY <2>1, <2>2, <2>7 DEF Shutdown, Joined, DeleteManager
  <2>8. CASE \/ \E w \in Workflows : Submit(w) \/ DestroyOwner(w)
             \/ Submitting \/ HandleEvent \/ BeginShutdown \/ Terminated \/ UNCHANGED vars
    BY <2>1, <2>8 DEF Submit, DestroyOwner, Submitting, ContextSubmit, LateSubmit, Ask,
                      HandleEvent, BeginShutdown, Terminated, vars
  <2> QED BY <2>5, <2>6, <2>7, <2>8 DEF Next
<1> QED BY <1>1, <1>2, SpecIInv, PTL DEF Spec

-----------------------------------------------------------------------------
(* The service, as the manager's variables show it.                        *)

Stages == [w \in Workflows |-> Stage(w)]
Owing == [w \in Workflows |-> {s \in Tasks : owner[s] = w}]
Level == IF qt = "serving" THEN "up" ELSE IF qt = "stopping" THEN "stopping" ELSE "stopped"

\* A step that keeps the entries, the owners and the level of the manager does
\* not show in the service.
LEMMA Hidden ==
    ASSUME UNCHANGED <<Stages, Owing, Level>> PROVE UNCHANGED Service!vars
  BY DEF Service!vars, Stages, Owing, Level

\* A manager that is up has accepted nothing.
LEMMA InitRefines == Init => Service!Init
  BY NamesAssumption DEF Init, Service!Init, Stage

-----------------------------------------------------------------------------
(* Every step is a step of the service or does not show in it.             *)

\* A step that moves the entry of one workflow moves the stage of no other.
LEMMA StageMoves ==
    ASSUME NEW w \in Workflows, \A v \in Workflows : v # w => entry'[v] = entry[v]
    PROVE Stages' = [Stages EXCEPT ![w] = Stage(w)'] /\ Stages[w] = Stage(w)
<1>1. \A v \in Workflows : v # w => Stage(v)' = Stage(v)
  BY DEF Stage
<1> QED BY <1>1 DEF Stages

\* A task that gets an owner is owed to that workflow.
LEMMA OwingMoves ==
    ASSUME NEW s \in Tasks, NEW w \in Workflows, owner[s] = None, owner'[s] = w,
           \A r \in Tasks : r # s => owner'[r] = owner[r]
    PROVE Owing' = [Owing EXCEPT ![w] = @ \cup {s}]
<1>1. \A v \in Workflows : v # w =>
        {r \in Tasks : owner'[r] = v} = {r \in Tasks : owner[r] = v}
  BY NamesAssumption
<1>2. {r \in Tasks : owner'[r] = w} = {r \in Tasks : owner[r] = w} \cup {s}
  OBVIOUS
<1>3. Owing = [v \in Workflows |-> {r \in Tasks : owner[r] = v}]
  BY Zenon DEF Owing
<1>4. Owing' = [v \in Workflows |-> {r \in Tasks : owner'[r] = v}]
  BY Zenon DEF Owing
<1>5. \A v \in Workflows :
        {r \in Tasks : owner'[r] = v} = IF v = w THEN Owing[w] \cup {s} ELSE Owing[v]
  BY <1>1, <1>2, <1>3
<1>6. Owing' = [v \in Workflows |-> IF v = w THEN Owing[w] \cup {s} ELSE Owing[v]]
  BY <1>4, <1>5, Zenon
<1>7. [Owing EXCEPT ![w] = Owing[w] \cup {s}]
          = [v \in Workflows |-> IF v = w THEN Owing[w] \cup {s} ELSE Owing[v]]
  <2>1. DOMAIN Owing = Workflows
    BY <1>3, Zenon
  <2> QED BY <2>1, Zenon
<1> QED BY <1>6, <1>7, Zenon

\* A task that loses its owner is owed no more.
LEMMA OwingSettled ==
    ASSUME NEW s \in Tasks, NEW w \in Workflows, owner[s] = w, owner'[s] = None,
           \A r \in Tasks : r # s => owner'[r] = owner[r]
    PROVE Owing' = [Owing EXCEPT ![w] = @ \ {s}] /\ s \in Owing[w]
<1>1. \A v \in Workflows : v # w =>
        {r \in Tasks : owner'[r] = v} = {r \in Tasks : owner[r] = v}
  BY NamesAssumption
<1>2. {r \in Tasks : owner'[r] = w} = {r \in Tasks : owner[r] = w} \ {s}
  BY NamesAssumption
<1>3. Owing = [v \in Workflows |-> {r \in Tasks : owner[r] = v}]
  BY Zenon DEF Owing
<1>4. Owing' = [v \in Workflows |-> {r \in Tasks : owner'[r] = v}]
  BY Zenon DEF Owing
<1>5. s \in Owing[w]
  BY <1>3
<1>6. \A v \in Workflows :
        {r \in Tasks : owner'[r] = v} = IF v = w THEN Owing[w] \ {s} ELSE Owing[v]
  BY <1>1, <1>2, <1>3
<1>7. Owing' = [v \in Workflows |-> IF v = w THEN Owing[w] \ {s} ELSE Owing[v]]
  BY <1>4, <1>6, Zenon
<1>8. [Owing EXCEPT ![w] = Owing[w] \ {s}]
          = [v \in Workflows |-> IF v = w THEN Owing[w] \ {s} ELSE Owing[v]]
  <2>1. DOMAIN Owing = Workflows
    BY <1>3, Zenon
  <2> QED BY <2>1, Zenon
<1> QED BY <1>5, <1>7, <1>8, Zenon

\* A submission is accepted by the service.
LEMMA SubmitAccepts ==
    ASSUME IInv, NEW w \in Workflows, Submit(w) PROVE Service!Accept(w)
<1>1. entry[w] = "none" /\ entry'[w] = "queued" /\ \A v \in Workflows : v # w => entry'[v] = entry[v]
  BY DEF Submit, IInv, Entries, TypeOK
<1>2. Stage(w) = "new" /\ Stage(w)' = "queued"
  BY <1>1 DEF Stage
<1>3. Stages' = [Stages EXCEPT ![w] = "queued"] /\ Stages[w] = "new"
  BY <1>1, <1>2, StageMoves
<1> QED BY <1>3 DEF Submit, Service!Accept, Stages, taskVars

\* A workflow that is cancelled before its start is refused by the service.
LEMMA CancelRefuses ==
    ASSUME IInv, CancelledByStop, CancelStart, NEW w \in Workflows, w = job
    PROVE Service!Refuse(w)
<1> USE DEF IInv, CancelStart, Threads
<1>1. entry[w] = "queued" /\ entry'[w] = "closed"
      /\ \A v \in Workflows : v # w => entry'[v] = entry[v]
  BY NamesAssumption DEF Entries, job, TypeOK
<1>2. phase[WorkflowThread] = "serving" /\ stopping[WorkflowThread]
  BY <1>1, NamesAssumption DEF CancelledByStop, Order, Exited, job, TypeOK
<1>3. qt = "stopping"
  BY <1>2 DEF Order, TypeOK
<1>4. Stage(w) = "queued" /\ Stage(w)' = "answered"
  BY <1>1 DEF Stage
<1>5. Stages' = [Stages EXCEPT ![w] = "answered"] /\ Stages[w] = "queued"
  BY <1>1, <1>4, StageMoves
<1> QED BY <1>3, <1>5 DEF Service!Refuse, Stages, taskVars

\* Calling start() starts the workflow of the service.
LEMMA BeginStartStarts ==
    ASSUME IInv, BeginStart, NEW w \in Workflows, w = job PROVE Service!Start(w)
<1> USE DEF IInv, BeginStart, Threads
<1>1. entry[w] = "queued" /\ entry'[w] = "starting"
      /\ \A v \in Workflows : v # w => entry'[v] = entry[v]
  BY NamesAssumption DEF Entries, job, TypeOK
<1>2. Stage(w) = "queued" /\ Stage(w)' = "running"
  BY <1>1 DEF Stage
<1>3. Stages' = [Stages EXCEPT ![w] = "running"] /\ Stages[w] = "queued"
  BY <1>1, <1>2, StageMoves
<1> QED BY <1>3 DEF Service!Start, Stages, taskVars

\* A task asked for in the manager is asked for in the service.
LEMMA AskAsks ==
    ASSUME IInv, NEW s \in Tasks, NEW t \in TaskThreads, ContextSubmit(s, t),
           NEW w \in Workflows, w = current
    PROVE Service!Ask(w, s)
<1> USE DEF IInv, ContextSubmit, Ask, Threads
<1>1. None \notin Workflows /\ owner[s] = None /\ step = "user"
  BY NamesAssumption DEF Asked, TypeOK
<1>2. entry[w] \in {"starting", "open"}
  <2>1. CASE hand[WorkflowThread] \in Tasks
    BY <1>1, <2>1, JobIsOpen DEF Steps, job
  <2>2. CASE hand[WorkflowThread] \notin Tasks
    BY <1>1, <2>2 DEF Steps, Entries
  <2> QED BY <2>1, <2>2
<1>3. owner'[s] = w /\ \A r \in Tasks : r # s => owner'[r] = owner[r]
  BY <1>1 DEF TypeOK
<1>4. Owing' = [Owing EXCEPT ![w] = @ \cup {s}]
  BY <1>1, <1>3, OwingMoves
<1>5. Stages[w] = "running" /\ \A v \in Workflows : s \notin Owing[v]
  BY <1>1, <1>2 DEF Stages, Stage, Owing
<1>6. UNCHANGED <<Stages, Level>>
  BY DEF Stages, Stage, Level, qtVars
<1> QED BY <1>4, <1>5, <1>6 DEF Service!Ask, Stages, Owing, Level

\* A callback that returns settles one task.
LEMMA ReturnCallsBack ==
    ASSUME IInv, CallbackReturn, NEW w \in Workflows, w = current,
           NEW s \in Tasks, s = job
    PROVE Service!CallBack(w, s)
<1> USE DEF IInv, CallbackReturn, UserReturn, Forget, Threads
<1>1. w = owner[s] /\ entry[w] = "open"
  BY JobIsOpen DEF Steps, job
<1>2. owner'[s] = None /\ \A r \in Tasks : r # s => owner'[r] = owner[r]
  BY DEF TypeOK
<1>3. Owing' = [Owing EXCEPT ![w] = @ \ {s}] /\ s \in Owing[w]
  BY <1>1, <1>2, OwingSettled
<1>4. Stages[w] = "running"
  BY <1>1 DEF Stages, Stage
<1>5. UNCHANGED <<Stages, Level>>
  BY DEF Stages, Stage, Level, qtVars
<1> QED BY <1>3, <1>4, <1>5 DEF Service!CallBack, Stages, Owing, Level

\* close() is the answer of the service.
LEMMA CloseAnswers ==
    ASSUME IInv, LateSubmitters = {}, Close, NEW w \in Workflows, w = current
    PROVE Service!Answer(w)
<1> USE DEF IInv, Close, Threads
<1>1. entry[w] = "open" /\ pending[w] = 0 /\ None \notin Workflows
  BY NamesAssumption DEF Steps, TypeOK
<1>2. entry'[w] = "closed" /\ \A v \in Workflows : v # w => entry'[v] = entry[v]
  BY DEF TypeOK
<1>3. Stage(w) = "running" /\ Stage(w)' = "answered"
  BY <1>1, <1>2 DEF Stage
<1>4. Stages' = [Stages EXCEPT ![w] = "answered"] /\ Stages[w] = "running"
  BY <1>2, <1>3, StageMoves
<1>5. OnTheWay(w) = {}
  BY <1>1, OnTheWayFinite, FS_EmptySet DEF PendingCounts
<1>6. ASSUME NEW s \in Tasks, owner[s] = w PROVE FALSE
  <2>1. at[s] # "free" /\ at[s] # "asked"
    BY <1>1, <1>6 DEF Asked
  <2> QED BY <1>5, <1>6, <2>1 DEF OnTheWay, TypeOK
<1>7. Owing[w] = {}
  BY <1>6 DEF Owing
<1> QED BY <1>4, <1>7 DEF Service!Answer, Stages, Owing, taskVars

\* The last join ends the service.
LEMMA LastJoinStops ==
    ASSUME IInv, Joined, joining = WorkflowThread PROVE Service!Stopped
<1> USE DEF IInv, Joined, Threads
<1>0. joining # None
  BY NamesAssumption
<1>1. phase[WorkflowThread] = "ended" /\ qt = "stopping" /\ qt' = "stopped"
  BY <1>0 DEF Order
<1>2. queue[WorkflowThread] = <<>> /\ hand[WorkflowThread] = None
  BY <1>1 DEF Order, Exited
<1>3. \A w \in Workflows : entry[w] \in {"none", "closed"}
  <2> SUFFICES ASSUME NEW w \in Workflows PROVE entry[w] \in {"none", "closed"}
    OBVIOUS
  <2>1. ~InSeq(w, queue[WorkflowThread]) /\ hand[WorkflowThread] # w
    BY <1>2, EmptySeq, NamesAssumption
  <2>2. entry[w] \notin {"queued", "starting", "open"}
    BY <1>1, <2>1 DEF Entries
  <2> QED BY <2>2 DEF TypeOK
<1>4. \A w \in Workflows : Stage(w) \in {"new", "answered"}
  BY <1>3 DEF Stage
<1>5. UNCHANGED <<Stages, Owing>> /\ Level = "stopping" /\ Level' = "stopped"
  BY <1>1 DEF Stages, Stage, Owing, Level, contextVars, taskVars
<1> QED BY <1>4, <1>5 DEF Service!Stopped, Stages, Owing, Level

\* Every step is a step of the service or leaves it alone.
LEMMA StepRefines ==
    LateSubmitters = {} =>
        (IInv /\ CancelledByStop /\ [Next]_vars => [Service!Next]_(Service!vars))
<1> SUFFICES ASSUME LateSubmitters = {}, IInv, CancelledByStop, [Next]_vars
             PROVE [Service!Next]_(Service!vars)
  OBVIOUS
<1> DEFINE Shows == [Service!Next]_(Service!vars)
<1>0. ASSUME UNCHANGED <<entry, owner, qt>> PROVE Shows
  <2>1. UNCHANGED <<Stages, Owing, Level>>
    BY <1>0 DEF Stages, Stage, Owing, Level
  <2> QED BY <2>1, Hidden
<1>1. ASSUME NEW t \in Threads, Take(t) \/ Exit(t) \/ End(t) \/ StopThread(t) PROVE Shows
  BY <1>0, <1>1 DEF Take, Exit, End, StopThread, contextVars, taskVars, qtVars
<1>2. ASSUME NEW t \in TaskThreads, RegisterThread(t) \/ CompleteTask(t) PROVE Shows
  BY <1>0, <1>2, CompleteTaskHome DEF RegisterThread, CompleteTask, contextVars, taskVars, qtVars
<1>3. ASSUME NEW w \in Workflows, Submit(w) \/ DestroyOwner(w) \/ CancelOpen(w) PROVE Shows
  BY <1>0, <1>3, SubmitAccepts DEF DestroyOwner, CancelOpen, contextVars, taskVars, qtVars, Service!Next
<1>4. CASE CancelStart \/ BeginStart
  <2>1. PICK w \in Workflows : w = job
    BY <1>4 DEF CancelStart, BeginStart
  <2> QED BY <1>4, <2>1, CancelRefuses, BeginStartStarts DEF Service!Next
<1>5. CASE BeginCallback
  <2>1. entry[owner[job]] = "open"
    BY <1>5, JobIsOpen DEF BeginCallback
  <2> QED BY <1>0, <1>5, <2>1 DEF BeginCallback, contextVars, qtVars
<1>6. CASE CallbackReturn
  <2>1. PICK s \in Tasks : s = job
    BY <1>6 DEF CallbackReturn
  <2>2. PICK w \in Workflows : w = current
    BY <1>6, UserReturnFacts DEF CallbackReturn
  <2> QED BY <1>6, <2>1, <2>2, ReturnCallsBack DEF Service!Next
<1>7. CASE StartReturn
  <2>1. current \in Workflows /\ entry[current] = "starting"
    BY <1>7, UserReturnFacts, NamesAssumption
       DEF StartReturn, UserReturn, job, IInv, Steps, Entries
  <2>2. PICK w \in Workflows : w = current
    BY <2>1
  <2>3. Stage(w) = "running" /\ Stage(w)' = "running" /\ \A v \in Workflows : v # w => entry'[v] = entry[v]
    BY <1>7, <2>1, <2>2 DEF StartReturn, Stage, IInv, TypeOK
  <2>4. Stages' = Stages
    BY <2>2, <2>3, StageMoves DEF Stages
  <2>5. UNCHANGED <<Owing, Level>>
    BY <1>7 DEF StartReturn, UserReturn, Owing, Level, qtVars
  <2> QED BY <2>4, <2>5, Hidden
<1>8. CASE ContextFinish \/ Dispatch \/ CloseIfDone
  BY <1>0, <1>8 DEF ContextFinish, Dispatch, CloseIfDone, contextVars, taskVars, qtVars
<1>9. CASE Close
  <2>1. PICK w \in Workflows : w = current
    BY <1>9 DEF Close, IInv, Steps, TypeOK
  <2> QED BY <1>9, <2>1, CloseAnswers DEF Service!Next
<1>10. ASSUME NEW s \in Tasks, NEW t \in TaskThreads, ContextSubmit(s, t) PROVE Shows
  <2>1. PICK w \in Workflows : w = current
    BY <1>10 DEF ContextSubmit, IInv, Steps, TypeOK
  <2> QED BY <1>10, <2>1, AskAsks DEF Service!Next
<1>11. ASSUME NEW s \in Tasks, NEW t \in TaskThreads, LateSubmit(s, t) PROVE Shows
  BY <1>11 DEF LateSubmit
<1>12. CASE HandleEvent \/ BeginShutdown
  <2>1. CASE HandleEvent
    BY <1>0, <2>1 DEF HandleEvent, contextVars, taskVars
  <2>2. CASE BeginShutdown
    <3>1. UNCHANGED <<Stages, Owing>> /\ Level = "up" /\ Level' = "stopping"
      BY <2>2 DEF BeginShutdown, Stages, Stage, Owing, Level, contextVars, taskVars
    <3> QED BY <3>1 DEF Service!Next, Service!Stop, Stages, Owing, Level
  <2> QED BY <1>12, <2>1, <2>2
<1>13. CASE Joined
  <2>1. CASE joining = WorkflowThread
    BY <1>13, <2>1, LastJoinStops DEF Service!Next
  <2>2. CASE joining # WorkflowThread
    BY <1>0, <1>13, <2>2 DEF Joined, contextVars, taskVars
  <2> QED BY <2>1, <2>2
<1>14. CASE DeleteManager
  <2>1. UNCHANGED <<Stages, Owing, Level>>
    BY <1>14 DEF DeleteManager, Stages, Stage, Owing, Level, contextVars, taskVars
  <2> QED BY <2>1, Hidden
<1>15. CASE UNCHANGED vars
  BY <1>0, <1>15 DEF vars, contextVars, taskVars, qtVars
<1>16. WorkflowThread \in Threads /\ \A t \in TaskThreads : t \in Threads
  BY DEF Threads
<1>17. CASE WorkflowThreadStep
  BY <1>1, <1>3, <1>4, <1>5, <1>6, <1>7, <1>8, <1>9, <1>16, <1>17 DEF WorkflowThreadStep
<1>18. CASE Submitting \/ Shutdown \/ Terminated
  BY <1>1, <1>10, <1>11, <1>13, <1>14, <1>15, <1>18 DEF Submitting, Shutdown, Terminated
<1>19. ASSUME NEW t \in TaskThreads, RegisterThread(t) \/ TaskThread(t) PROVE Shows
  BY <1>1, <1>2, <1>16, <1>19 DEF TaskThread
<1> QED BY <1>3, <1>12, <1>15, <1>17, <1>18, <1>19 DEF Next

\* The manager keeps what it promises: a workflow is answered once, never while
\* a task owes it a callback, and all are answered before stopped() is emitted.
THEOREM KeepsTheService ==
    ASSUME LateSubmitters = {} PROVE Spec => ImplementsWorkflowService
<1>1. Init => Service!Init
  BY InitRefines
<1>2. IInv /\ CancelledByStop /\ [Next]_vars => [Service!Next]_(Service!vars)
  BY StepRefines
<1> QED BY <1>1, <1>2, SpecIInv, SpecCancelledByStop, PTL
        DEF Spec, ImplementsWorkflowService, Service!Spec

=============================================================================
