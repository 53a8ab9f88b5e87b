------------------------- MODULE WorkflowHandleProofs -------------------------
(***************************************************************************)
(* What holds of a workflow handle for every set of callbacks, however     *)
(* they call the handle back, run an event loop or destroy it.             *)
(***************************************************************************)
EXTENDS WorkflowHandle, SequenceTheorems, TLAPS

\* What the workflow thread has posted, and the end of it that still waits:
\* the result is the last event, and comes once.
History ==
    \/ posted = <<>> /\ events = <<>>
    \/ posted = <<"running">> /\ events \in {posted, <<>>}
    \/ posted = <<"finished">> /\ events \in {posted, <<>>}
    \/ posted = <<"running", "finished">> /\ events \in {posted, <<"finished">>, <<>>}

\* Nothing waits behind the result, and nothing can be posted any more.
Answer ==
    /\ answered => state = "finished" /\ events = <<>>
    /\ answered => posted \in {<<"finished">>, <<"running", "finished">>}

\* A completion callback is with the owner, in the handle, or was called: one
\* place at a time.
Custody ==
    \A c \in FinishCallbacks :
        /\ calls[c] <= 1
        /\ calls[c] = 1 => c \notin fresh /\ onFinished # c /\ answered
        /\ onFinished = c => c \notin fresh

\* Who is registered after the result waits for deliver() to flush.
Waits == alive /\ answered /\ onFinished # None => Delivering

IInv == TypeOK /\ History /\ Answer /\ Custody /\ Waits

-----------------------------------------------------------------------------
(* The queue of events.                                                    *)

\* A sequence of one, and one more.
LEMMA AppendToOne ==
    ASSUME NEW S, NEW x \in S, NEW y \in S PROVE Append(<<x>>, y) = <<x, y>>
<1> DEFINE q == Append(<<x>>, y)
<1>1. <<x>> \in Seq(S) /\ Len(<<x>>) = 1 /\ <<x>>[1] = x
  OBVIOUS
<1>2. q \in Seq(S) /\ Len(q) = 2 /\ q[1] = x /\ q[2] = y
  BY <1>1
<1> DEFINE r == <<x, y>>
<1>3. r \in Seq(S) /\ Len(r) = 2 /\ r[1] = x /\ r[2] = y
  OBVIOUS
<1> HIDE DEF q, r
<1>4. \A i \in 1 .. Len(q) : q[i] = r[i]
  BY <1>2, <1>3
<1>5. q = r
  BY <1>2, <1>3, <1>4, SeqEqual
<1> QED BY <1>5 DEF q, r

\* Posting the running state or the result keeps the history one of the few
\* it can be, and the result is posted only once.
LEMMA PostEventIInv ==
    ASSUME IInv, NEW e \in Events, PostEvent(e) PROVE IInv'
<1> USE DEF IInv, PostEvent, handleVars
<1>1. "finished" \notin {posted[i] : i \in DOMAIN posted}
  OBVIOUS
<1>2. posted \in {<<>>, <<"running">>}
  <2>1. <<"finished">>[1] = "finished" /\ 1 \in DOMAIN <<"finished">>
    OBVIOUS
  <2>2. <<"running", "finished">>[2] = "finished" /\ 2 \in DOMAIN <<"running", "finished">>
    OBVIOUS
  <2> QED BY <1>1, <2>1, <2>2 DEF History
<1>3. ~answered /\ ~answered'
  <2>1. <<"running">> # <<"finished">> /\ <<"running">> # <<"running", "finished">>
        /\ <<>> # <<"finished">> /\ <<>> # <<"running", "finished">>
    OBVIOUS
  <2> QED BY <1>2, <2>1 DEF Answer
<1>4. History'
  <2>1. CASE posted = <<>>
    BY <1>2, <2>1 DEF History, Events
  <2>2. CASE posted = <<"running">>
    <3>1. e = "finished" /\ events \in {posted, <<>>}
      BY <2>2 DEF History, Events
    <3>2. /\ Append(<<"running">>, "finished") = <<"running", "finished">>
          /\ Append(<<>>, "finished") = <<"finished">>
      <4>1. "running" \in Events /\ "finished" \in Events
        BY DEF Events
      <4> HIDE DEF Events
      <4>2. Append(<<"running">>, "finished") = <<"running", "finished">>
        BY <4>1, AppendToOne
      <4>3. Append(<<>>, "finished") = <<"finished">>
        OBVIOUS
      <4> QED BY <4>2, <4>3
    <3>3. /\ posted' = <<"running", "finished">>
          /\ events' \in {<<"running", "finished">>, <<"finished">>}
      BY <2>2, <3>1, <3>2
    <3> QED BY <3>3 DEF History
  <2> QED BY <1>2, <2>1, <2>2
<1>5. TypeOK'
  BY DEF TypeOK
<1> QED BY <1>3, <1>4, <1>5 DEF Answer, Custody, Waits, Delivering

\* Taking the oldest event off the queue leaves the end of the history, and
\* the result is the last of it.
LEMMA TakeEvent ==
    ASSUME TypeOK, History, events # <<>>, events' = Tail(events), UNCHANGED posted
    PROVE /\ History' /\ events' \in Seq(Events)
          /\ Head(events) = "finished" =>
                /\ events' = <<>>
                /\ posted \in {<<"finished">>, <<"running", "finished">>}
<1>1. events' \in Seq(Events)
  BY DEF TypeOK
<1>2. CASE posted = <<"running">> /\ events = <<"running">>
  BY <1>1, <1>2 DEF History
<1>3. CASE posted = <<"finished">> /\ events = <<"finished">>
  BY <1>1, <1>3 DEF History
<1>4. CASE posted = <<"running", "finished">> /\ events = <<"finished">>
  BY <1>1, <1>4 DEF History
<1>5. CASE posted = <<"running", "finished">> /\ events = <<"running", "finished">>
  BY <1>1, <1>5 DEF History
<1> QED BY <1>2, <1>3, <1>4, <1>5 DEF History

-----------------------------------------------------------------------------
(* The stack of callbacks.                                                 *)

\* A callback that begins goes on top of those that are running.
LEMMA PushFrame ==
    ASSUME NEW below \in Seq(Frame), NEW frame \in Frame
    PROVE /\ Append(below, frame) \in Seq(Frame)
          /\ \A i \in DOMAIN below : i \in DOMAIN Append(below, frame) /\ Append(below, frame)[i] = below[i]
          /\ \E i \in DOMAIN Append(below, frame) : Append(below, frame)[i] = frame
          /\ Len(Append(below, frame)) = Len(below) + 1
<1> DEFINE q == Append(below, frame)
<1>1. /\ q \in Seq(Frame) /\ Len(q) = Len(below) + 1 /\ Len(below) \in Nat
      /\ DOMAIN q = 1 .. Len(q) /\ DOMAIN below = 1 .. Len(below)
      /\ q[Len(below) + 1] = frame
      /\ \A i \in 1 .. Len(below) : q[i] = below[i]
  OBVIOUS
<1> HIDE DEF q
<1>2. Len(below) + 1 \in DOMAIN q
  BY <1>1
<1>3. \A i \in DOMAIN below : i \in DOMAIN q
  BY <1>1
<1> QED BY <1>1, <1>2, <1>3 DEF q

\* The callback that returns is the top of the stack.
LEMMA PopFrame ==
    ASSUME frames \in Seq(Frame), frames # <<>>
    PROVE LET below == SubSeq(frames, 1, Len(frames) - 1) IN
          /\ below \in Seq(Frame)
          /\ Len(frames) \in DOMAIN frames
          /\ Len(below) = Len(frames) - 1
          /\ \A i \in DOMAIN frames : i # Len(frames) => i \in DOMAIN below /\ below[i] = frames[i]
<1> DEFINE n == Len(frames) - 1
           below == SubSeq(frames, 1, n)
<1>1. /\ Len(frames) \in Nat /\ n \in Nat /\ Len(frames) = n + 1
      /\ DOMAIN frames = 1 .. Len(frames)
      /\ \A i \in 1 .. Len(frames) : frames[i] \in Frame
  OBVIOUS
<1> HIDE DEF n
<1>2. \A i \in 1 .. n : frames[i] \in Frame
  BY <1>1
<1>3. /\ below \in Seq(Frame)
      /\ Len(below) = IF 1 <= n THEN n - 1 + 1 ELSE 0
      /\ \A i \in 1 .. n - 1 + 1 : below[i] = frames[1 + i - 1]
  BY <1>1, <1>2, SubSeqProperties
<1> HIDE DEF below
<1>4. Len(below) = n
  BY <1>1, <1>3
<1>5. DOMAIN below = 1 .. n
  BY <1>3, <1>4
<1>6. \A i \in 1 .. n : below[i] = frames[i]
  BY <1>1, <1>3
<1>7. \A i \in DOMAIN frames : i # Len(frames) => i \in DOMAIN below
  BY <1>1, <1>5
<1> QED BY <1>1, <1>3, <1>4, <1>5, <1>6, <1>7 DEF below, n

\* Flushing takes the callback from the handle and calls it, once.
LEMMA FlushFacts ==
    ASSUME TypeOK, Custody,
           NEW below \in Seq(Frame), NEW callback \in FinishCallbacks \cup {None}, NEW result \in BOOLEAN,
           Flush(below, callback, result),
           callback # None => calls[callback] = 0
    PROVE /\ frames' \in Seq(Frame)
          /\ onFinished' \in {callback, None}
          /\ calls' \in [FinishCallbacks -> Nat]
          /\ result => onFinished' = None
          /\ ~result => onFinished' = callback /\ UNCHANGED calls
          /\ \A c \in FinishCallbacks :
                calls'[c] = IF result /\ c = callback THEN 1 ELSE calls[c]
          /\ \A i \in DOMAIN below : i \in DOMAIN frames' /\ frames'[i] = below[i]
<1>1. CASE result /\ callback # None
  <2> DEFINE frame == [callback |-> callback, delivering |-> FALSE]
  <2>1. frame \in Frame /\ callback \in FinishCallbacks
    BY <1>1 DEF Frame
  <2>2. frames' = Append(below, frame) /\ onFinished' = None
        /\ calls' = [calls EXCEPT ![callback] = @ + 1]
    BY <1>1 DEF Flush
  <2> HIDE DEF frame
  <2>3. calls' \in [FinishCallbacks -> Nat]
        /\ \A c \in FinishCallbacks : calls'[c] = IF c = callback THEN 1 ELSE calls[c]
    BY <1>1, <2>1, <2>2 DEF TypeOK
  <2> QED BY <1>1, <2>1, <2>2, <2>3, PushFrame
<1>2. CASE ~(result /\ callback # None)
  BY <1>2, CallbacksAssumption DEF Flush, TypeOK
<1> QED BY <1>1, <1>2

-----------------------------------------------------------------------------
(* The inductive invariant, action by action.                              *)

\* A new handle owes nothing and is owed nothing.
LEMMA InitIInv == Init => IInv
<1> SUFFICES ASSUME Init PROVE IInv
  OBVIOUS
<1>1. TypeOK
  <2>1. <<>> \in Seq(Events) /\ <<>> \in Seq(Frame)
    OBVIOUS
  <2>2. calls \in [FinishCallbacks -> Nat]
    BY DEF Init
  <2> QED BY <2>1, <2>2 DEF Init, TypeOK
<1>2. Custody
  BY CallbacksAssumption DEF Init, Custody
<1> QED BY <1>1, <1>2 DEF Init, IInv, History, Answer, Waits

\* The running state comes before the result.
LEMMA HandleRunningIInv == ASSUME IInv, HandleRunning PROVE IInv'
<1> USE DEF IInv
<1>1. History' /\ events' \in Seq(Events)
  BY TakeEvent DEF HandleRunning
<1>2. ~answered
  BY DEF HandleRunning, Answer
<1>3. frames' \in Seq(Frame)
  <2>1. CASE onState = None
    BY <2>1 DEF HandleRunning, TypeOK
  <2>2. CASE onState # None
    <3>1. [callback |-> onState, delivering |-> FALSE] \in Frame
      BY <2>2 DEF TypeOK, Frame
    <3> QED BY ZenonT(60), <2>2, <3>1, PushFrame DEF HandleRunning, Call, TypeOK
  <2> QED BY <2>1, <2>2
<1>4. TypeOK'
  BY <1>1, <1>3 DEF HandleRunning, TypeOK
<1> QED BY <1>1, <1>2, <1>4 DEF HandleRunning, Answer, Custody, Waits

\* deliver() flushes at once, or leaves its frame to do it.
LEMMA DeliverIInv == ASSUME IInv, Deliver PROVE IInv'
<1> USE DEF IInv
<1>1. /\ History' /\ events' \in Seq(Events) /\ events' = <<>>
      /\ posted' \in {<<"finished">>, <<"running", "finished">>}
  BY TakeEvent DEF Deliver
<1>2. ~answered
  BY DEF Deliver, Answer
<1>3. \A c \in FinishCallbacks : calls[c] = 0
  BY <1>2 DEF Custody, TypeOK
<1>4. CASE onState = None
  <2>1. Flush(frames, onFinished, TRUE)
    BY <1>4 DEF Deliver
  <2>2. /\ frames' \in Seq(Frame) /\ onFinished' = None
        /\ calls' \in [FinishCallbacks -> Nat]
        /\ \A c \in FinishCallbacks : calls'[c] = IF c = onFinished THEN 1 ELSE 0
    BY ZenonT(60), <1>3, <2>1, FlushFacts DEF TypeOK
  <2>3. TypeOK'
    BY <1>1, <2>2 DEF Deliver, TypeOK
  <2>4. Custody'
    BY <2>2, CallbacksAssumption DEF Deliver, Custody
  <2> QED BY <1>1, <2>2, <2>3, <2>4 DEF Deliver, Answer, Waits
<1>5. CASE onState # None
  <2> DEFINE frame == [callback |-> onState, delivering |-> TRUE]
  <2>1. frame \in Frame /\ frame.delivering
    BY <1>5 DEF TypeOK, Frame
  <2>2. frames' = Append(frames, frame) /\ UNCHANGED <<onFinished, calls>>
    BY <1>5 DEF Deliver, Call
  <2> HIDE DEF frame
  <2>3. frames' \in Seq(Frame) /\ Delivering'
    BY <2>1, <2>2, PushFrame DEF Delivering, TypeOK
  <2>4. TypeOK'
    BY <1>1, <2>2, <2>3 DEF Deliver, TypeOK
  <2> QED BY <1>1, <1>3, <2>2, <2>3, <2>4 DEF Deliver, Answer, Custody, Waits
<1> QED BY <1>4, <1>5

\* An event that finds no handle changes nothing else.
LEMMA DropEventIInv == ASSUME IInv, DropEvent PROVE IInv'
<1> USE DEF IInv
<1>1. /\ History' /\ events' \in Seq(Events)
      /\ answered => FALSE
  BY TakeEvent DEF DropEvent, Answer
<1> QED BY <1>1 DEF DropEvent, handleVars, TypeOK, Answer, Custody, Waits

\* A callback that returns leaves the others where they were; if it was the
\* state callback of deliver(), what is registered now is called.
LEMMA ReturnIInv == ASSUME IInv, Return PROVE IInv'
<1> USE DEF IInv
<1> DEFINE top == frames[Len(frames)]
           below == SubSeq(frames, 1, Len(frames) - 1)
<1>1. /\ below \in Seq(Frame) /\ Len(frames) \in DOMAIN frames
      /\ \A i \in DOMAIN frames : i # Len(frames) => i \in DOMAIN below /\ below[i] = frames[i]
  BY PopFrame DEF Return, TypeOK
<1>2. CASE FlushAfter(top)
  <2>1. Flush(below, onFinished, answered)
    BY <1>2 DEF Return
  <2>2. onFinished # None => calls[onFinished] = 0
    BY DEF Custody, TypeOK
  <2> HIDE DEF below, top
  <2>3. /\ frames' \in Seq(Frame) /\ onFinished' \in {onFinished, None}
        /\ calls' \in [FinishCallbacks -> Nat]
        /\ answered => onFinished' = None
        /\ ~answered => onFinished' = onFinished /\ UNCHANGED calls
        /\ \A c \in FinishCallbacks : calls'[c] = IF answered /\ c = onFinished THEN 1 ELSE calls[c]
    BY <1>1, <2>1, <2>2, FlushFacts DEF TypeOK
  <2>4. TypeOK'
    BY <2>3 DEF Return, workflowVars, TypeOK
  <2>5. Custody'
    BY <2>3, CallbacksAssumption DEF Return, Custody
  <2> QED BY <2>3, <2>4, <2>5 DEF Return, workflowVars, History, Answer, Waits
<1>3. CASE ~FlushAfter(top)
  <2>1. frames' = below /\ UNCHANGED <<onFinished, calls>>
    BY <1>3 DEF Return
  <2>2. alive /\ Delivering => Delivering'
    <3> SUFFICES ASSUME alive, NEW i \in DOMAIN frames, frames[i].delivering PROVE Delivering'
      BY DEF Delivering
    <3>1. i # Len(frames)
      BY <1>3 DEF FlushAfter
    <3> QED BY <1>1, <2>1, <3>1 DEF Delivering
  <2> HIDE DEF below, top
  <2>3. TypeOK'
    BY <1>1, <2>1 DEF Return, workflowVars, TypeOK
  <2> QED BY <2>1, <2>2, <2>3 DEF Return, workflowVars, History, Answer, Custody, Waits
<1> QED BY <1>2, <1>3

\* Registering a callback that was registered before is not an action, so it
\* was not called either; one that comes after the result is called at once.
LEMMA OnFinishedIInv ==
    ASSUME IInv, NEW c \in FinishCallbacks, OnFinished(c) PROVE IInv'
<1> USE DEF IInv
<1>1. calls[c] = 0 /\ Flush(frames, c, answered) /\ c # None
  BY CallbacksAssumption DEF OnFinished, Custody, TypeOK
<1>2. /\ frames' \in Seq(Frame) /\ onFinished' \in {c, None}
      /\ calls' \in [FinishCallbacks -> Nat]
      /\ answered => onFinished' = None
      /\ ~answered => onFinished' = c /\ UNCHANGED calls
      /\ \A d \in FinishCallbacks : calls'[d] = IF answered /\ d = c THEN 1 ELSE calls[d]
  BY <1>1, FlushFacts DEF TypeOK
<1>3. TypeOK'
  BY <1>2 DEF OnFinished, workflowVars, TypeOK
<1>4. Custody'
  BY <1>2, CallbacksAssumption DEF OnFinished, Custody
<1> QED BY <1>2, <1>3, <1>4 DEF OnFinished, workflowVars, History, Answer, Waits

\* Every step of the owner keeps the invariant.
LEMMA OwnerIInv == ASSUME IInv, Owner PROVE IInv'
<1>1. ASSUME NEW c \in StateCallbacks, OnStateChanged(c) PROVE IInv'
  BY <1>1, CallbacksAssumption
  DEF IInv, OnStateChanged, workflowVars, TypeOK, History, Answer, Custody, Waits, Delivering
<1>2. CASE Destroy
  BY <1>2 DEF IInv, Destroy, workflowVars, TypeOK, History, Answer, Custody, Waits, Delivering
<1> QED BY <1>1, <1>2, OnFinishedIInv DEF Owner

\* The invariant is inductive.
LEMMA NextIInv == IInv /\ [Next]_vars => IInv'
<1> SUFFICES ASSUME IInv, [Next]_vars PROVE IInv'
  OBVIOUS
<1>1. CASE UNCHANGED vars
  BY <1>1 DEF IInv, vars, handleVars, workflowVars, TypeOK, History, Answer, Custody, Waits, Delivering
<1> QED BY <1>1, PostEventIInv, HandleRunningIInv, DeliverIInv, DropEventIInv, ReturnIInv, OwnerIInv
     DEF Next, Handle

\* The invariant holds throughout.
LEMMA SpecIInv == Spec => []IInv
  BY InitIInv, NextIInv, PTL DEF Spec

-----------------------------------------------------------------------------
(* The results.                                                            *)

\* However callbacks register callbacks, run event loops and return, a
\* completion callback is called once at most, never before the result was
\* there to be seen, and none is left registered with a result but by a
\* deliver() that is still to flush it.
THEOREM CallbacksRunOnce == Spec => []HandleInv
<1>1. IInv => HandleInv
  <2> SUFFICES ASSUME IInv PROVE HandleInv
    OBVIOUS
  <2>1. \A c \in FinishCallbacks : calls[c] \in Nat /\ calls[c] <= 1
    BY DEF IInv, TypeOK, Custody
  <2>2. ASSUME NEW c \in FinishCallbacks, calls[c] > 0 PROVE answered /\ state = "finished"
    BY <2>1, <2>2 DEF IInv, Custody, Answer
  <2> QED BY <2>1, <2>2 DEF HandleInv, IInv, RunsOnce, Waits
<1> QED BY <1>1, SpecIInv, PTL

\* Once it is destroyed, from whichever callback, the handle calls nobody: the
\* stack of callbacks only shrinks and no count moves.
THEOREM DestroyedIsSilent == Spec => NothingAfterDestroy
<1>1. IInv /\ [Next]_vars => [~alive => Len(frames') <= Len(frames) /\ UNCHANGED calls]_vars
  <2> SUFFICES ASSUME IInv, Next, ~alive PROVE Len(frames') <= Len(frames) /\ UNCHANGED calls
    OBVIOUS
  <2>0. Len(frames) \in Nat
    BY DEF IInv, TypeOK
  <2>1. ASSUME NEW e \in Events, PostEvent(e) PROVE UNCHANGED <<frames, calls>>
    BY <2>1 DEF PostEvent
  <2>2. CASE DropEvent
    BY <2>0, <2>2 DEF DropEvent
  <2>3. CASE Return
    <3>1. frames' = SubSeq(frames, 1, Len(frames) - 1) /\ UNCHANGED calls
      BY <2>3 DEF Return, FlushAfter
    <3>2. Len(frames') = Len(frames) - 1
      BY <2>3, <3>1, PopFrame DEF Return, IInv, TypeOK
    <3> QED BY <2>0, <3>1, <3>2
  <2>4. ~HandleRunning /\ ~Deliver /\ ~Owner
    BY DEF HandleRunning, Deliver, Owner, OnStateChanged, OnFinished, Destroy
  <2> QED BY <2>0, <2>1, <2>2, <2>3, <2>4 DEF Next, Handle
<1> QED BY <1>1, SpecIInv, PTL DEF Spec, NothingAfterDestroy

=============================================================================
