----------------------------- MODULE PilotProofs -----------------------------
(* What Pilot promises of its two panels, proved for any canvases and any    *)
(* number of prompts, runs and lines.                                        *)
EXTENDS Pilot, SequenceTheorems, FiniteSetTheorems, WellFoundedInduction, TLAPS

-----------------------------------------------------------------------------
(* The inductive invariant of the Benchmark Inspector. *)

Flags == {"running", "cancelled", "error", "result", "killed", "armed",
          "open", "closing", "editable", "saveable"}
Uis == [running : BOOLEAN, cancelled : BOOLEAN, error : BOOLEAN,
        result : BOOLEAN, killed : BOOLEAN, armed : BOOLEAN,
        open : BOOLEAN, closing : BOOLEAN, editable : BOOLEAN,
        saveable : BOOLEAN, shown : NoRun .. MaxRuns, started : 0 .. MaxRuns,
        outcomes : Seq(Outcomes)]

BenchTypes ==
    /\ app \in AppStates
    /\ ui \in Uis
    /\ proc \in {"none", "starting", "running", "dead"}
    /\ worker \in WorkerStates
    /\ lines \in Seq(Lines) /\ Len(lines) <= MaxLines
    /\ artifact \in NoRun .. MaxRuns

\* What the flags of a panel say together: a run is ended by its child or by
\* the timer and never by both, and only a run holds a closing inspector open.
Steady(u, child) ==
    /\ u.running <=> child # "none" \/ u.armed
    /\ ~ (child # "none" /\ u.armed)
    /\ u.editable <=> ~ u.running
    /\ u.running => ~ u.saveable
    /\ u.closing => u.running /\ u.open

\* The file and the pipe: what a worker has written is its own, and half a
\* line is the last one.
Sound ==
    /\ SaveIsShown
    /\ worker \in {"written", "reported"} => artifact = ui.started
    /\ \A k \in DOMAIN lines : IsPartial(lines[k]) => k = Len(lines)
    /\ app \in {"left", "gone"} => proc = "none"

BenchInv == BenchTypes /\ Steady(ui, proc) /\ Sound

-----------------------------------------------------------------------------
(* The inductive invariant of the Agent Console. *)

\* A thread that is not the panel's own is done and its signals are handled;
\* of the panel's own, these are the signals still to come.
Pending(m) ==
    CASE thread[m] = "sending"  -> inbox = <<>>
      [] thread[m] = "answered" ->
            \/ inbox = <<>>
            \/ \E kind \in {"succeeded", "failed"} : inbox = <<<<kind, m>>>>
      [] thread[m] = "over"     ->
            \/ inbox = <<<<"finished", m>>>>
            \/ \E kind \in {"succeeded", "failed"} :
                inbox = <<<<kind, m>>, <<"finished", m>>>>
      [] OTHER                  -> FALSE

\* One worker at a time, of the latest prompt.
Custody ==
    /\ busy <=> mine # 0
    /\ lost = {}
    /\ mine = 0 => inbox = <<>>
    /\ mine # 0 => mine = prompts /\ Pending(mine)
    /\ \A p \in 1 .. MaxPrompts : p # mine => thread[p] \in {"none", "over"}
    /\ \A p \in 1 .. MaxPrompts : thread[p] # "none" => p <= prompts
    /\ app = "gone" => \A p \in 1 .. MaxPrompts : thread[p] \in {"none", "over"}

\* The reply of the panel's own worker is still to come.
Awaited == \/ thread[mine] = "sending"
           \/ inbox # <<>> /\ Head(inbox)[1] \in {"succeeded", "failed"}

\* The places of a prompt's turns and of its replies in the transcript.
Answers ==
    /\ \A k \in DOMAIN transcript : transcript[k].prompt <= prompts
    /\ \A j, k \in DOMAIN transcript :
        /\ transcript[j].role = "agent" /\ transcript[k].role = "agent"
        /\ transcript[j].prompt = transcript[k].prompt
        => j = k
    /\ \A r, k \in DOMAIN transcript :
        /\ transcript[r].role = "agent" /\ transcript[k].role = "user"
        => IF transcript[k].prompt > transcript[r].prompt THEN r < k
           ELSE transcript[k].prompt = transcript[r].prompt => k < r
    /\ \A p \in 1 .. MaxPrompts :
        (\E r \in DOMAIN transcript : IsTurn(r, "agent", p))
            <=> thread[p] # "none" /\ (p = mine => ~ Awaited)

\* A prompt about a world that is no longer the session's has a marker behind it.
Marks ==
    \A i \in DOMAIN transcript :
        transcript[i].role = "user" /\ transcript[i].world # world
            => \E k \in DOMAIN transcript : i < k /\ transcript[k].role = "marker"

Replays ==
    \A p \in 1 .. MaxPrompts :
        thread[p] # "none" =>
            /\ \A k \in DOMAIN history[p] : history[p][k].prompt < p
            /\ \A r \in DOMAIN transcript :
                transcript[r].role = "agent" /\ transcript[r].prompt < p
                    => \E k \in DOMAIN history[p] : history[p][k] = transcript[r]

AgentInv == /\ AgentTypeOK /\ Custody /\ Answers
            /\ Marks /\ SwitchesMarked /\ Replays

IInv == BenchInv /\ AgentInv

-----------------------------------------------------------------------------
(* What the slots of the RunPanel do to its flags. *)

\* Killing the child and noting the first error touches nothing else.
LEMMA FailFacts ==
    ASSUME NEW u \in Uis
    PROVE  /\ Fail(u) \in Uis
           /\ \A f \in DOMAIN u \ {"error", "killed"} : Fail(u)[f] = u[f]
           /\ Fail(u).error
  BY DEF Fail, Uis

\* Reading the pipe of a panel changes what is known of the result, and no
\* more; and a panel that is content after it read nothing but progress and a
\* report.
LEMMA ReadFacts ==
    ASSUME NEW u \in Uis, NEW ls \in Seq(Lines)
    PROVE  /\ ReadStdout(u, ls) \in Uis
           /\ \A f \in DOMAIN u \ {"error", "killed", "result"} : ReadStdout(u, ls)[f] = u[f]
           /\ ~ u.cancelled /\ ~ ReadStdout(u, ls).error
                => \A k \in DOMAIN ls : ls[k] \in {"progress", "result", "partial"}
<1> DEFINE r == Reported(u, ls)
           read == [u EXCEPT !.result = r]
<1>1. r \in BOOLEAN
  BY DEF Reported, Uis
<1>2. read \in Uis
  BY <1>1 DEF Uis
<1>3. \A f \in DOMAIN u \ {"result"} : read[f] = u[f]
  OBVIOUS
<1>4. DOMAIN read = DOMAIN u
  OBVIOUS
<1>5. ReadStdout(u, ls) = IF u.cancelled \/ u.error THEN u
                          ELSE IF Offending(u, ls) = {} THEN read ELSE Fail(read)
  BY DEF ReadStdout
<1> HIDE DEF read, r
<1>6. /\ Fail(read) \in Uis /\ Fail(read).error
      /\ \A f \in DOMAIN read \ {"error", "killed"} : Fail(read)[f] = read[f]
  BY <1>2, FailFacts
<1>7. ReadStdout(u, ls) \in Uis
  BY <1>2, <1>5, <1>6
<1>8. \A f \in DOMAIN u \ {"error", "killed", "result"} : ReadStdout(u, ls)[f] = u[f]
  BY <1>3, <1>4, <1>5, <1>6
<1>9. ASSUME ~ u.cancelled, ~ ReadStdout(u, ls).error, NEW k \in DOMAIN ls
      PROVE  ls[k] \in {"progress", "result", "partial"}
  <2>1. Offending(u, ls) = {}
    BY <1>5, <1>6, <1>9
  <2>2. ls[k] \in Lines
    BY ElementOfSeq, LenProperties
  <2> QED
    BY <2>1, <2>2 DEF Offending, Whole, IsPartial, Lines
<1> QED
  BY <1>7, <1>8, <1>9

\* What is left of the pipe is at most its last line.
LEMMA UnreadFacts ==
    ASSUME NEW ls \in Seq(Lines)
    PROVE  /\ Unread(ls) \in Seq(Lines) /\ Len(Unread(ls)) <= 1
           /\ Unread(ls) = <<>> => ls = <<>> \/ ~ IsPartial(ls[Len(ls)])
<1>1. CASE ls = <<>>
  BY <1>1 DEF Unread
<1>2. CASE ls # <<>>
  <2>1. Last(ls) \in Lines /\ Last(ls) = ls[Len(ls)]
    BY <1>2, ElementOfSeq, LenProperties DEF Last
  <2> HIDE DEF Last
  <2>2. /\ <<>> \in Seq(Lines) /\ <<Last(ls)>> \in Seq(Lines)
        /\ Len(<<>>) = 0 /\ Len(<<Last(ls)>>) = 1 /\ <<Last(ls)>> # <<>>
    BY <2>1
  <2>3. CASE IsPartial(Last(ls))
    BY <1>2, <2>2, <2>3 DEF Unread
  <2>4. CASE ~ IsPartial(Last(ls))
    BY <1>2, <2>1, <2>2, <2>4 DEF Unread
  <2> QED
    BY <2>3, <2>4
<1> QED
  BY <1>1, <1>2

\* A stop marks a running panel and kills its child.
LEMMA StopFacts ==
    ASSUME NEW u \in Uis
    PROVE  /\ Stop(u) \in Uis
           /\ \A f \in DOMAIN u \ {"cancelled", "killed"} : Stop(u)[f] = u[f]
  BY DEF Stop, Uis

\* Closing the inspector hides it, or is put off by the run.
LEMMA CloseFacts ==
    ASSUME NEW u \in Uis
    PROVE  /\ Close(u) \in Uis
           /\ \A f \in DOMAIN u \ {"cancelled", "killed", "closing", "open"} : Close(u)[f] = u[f]
           /\ u.running => Close(u).closing /\ Close(u).open = u.open
           /\ ~ u.running => ~ Close(u).closing /\ ~ Close(u).open
<1>1. CASE u.running
  <2>1. /\ Stop(u) \in Uis
        /\ \A f \in DOMAIN u \ {"cancelled", "killed"} : Stop(u)[f] = u[f]
    BY StopFacts
  <2> QED
    BY <1>1, <2>1 DEF Close, Uis
<1>2. CASE ~ u.running
  BY <1>2 DEF Close, Uis
<1> QED
  BY <1>1, <1>2

\* The terminal signal is recorded, unlocks the inputs and closes an inspector
\* that was waiting for it.
LEMMA EmitFacts ==
    ASSUME NEW u \in Uis, ~ u.running, u.closing => u.open, ~ u.saveable,
           NEW outcome \in Outcomes, NEW loads \in BOOLEAN,
           artifact \in NoRun .. MaxRuns
    PROVE  /\ Emit(u, outcome, loads) \in Uis
           /\ Emit(u, outcome, loads).outcomes = Append(u.outcomes, outcome)
           /\ Emit(u, outcome, loads).editable
           /\ ~ Emit(u, outcome, loads).closing
           /\ Emit(u, outcome, loads).saveable => Emit(u, outcome, loads).shown = artifact
           /\ \A f \in {"running", "armed", "started"} : Emit(u, outcome, loads)[f] = u[f]
<1> DEFINE finished == [u EXCEPT !.outcomes = Append(@, outcome), !.editable = TRUE]
           closed == IF finished.closing THEN Close(finished) ELSE finished
           shown == [closed EXCEPT !.saveable = TRUE, !.shown = artifact]
           hidden == [closed EXCEPT !.saveable = FALSE]
<1>1. /\ finished \in Uis /\ DOMAIN finished = DOMAIN u
      /\ finished.outcomes = Append(u.outcomes, outcome)
      /\ finished.editable
      /\ \A f \in DOMAIN u \ {"outcomes", "editable"} : finished[f] = u[f]
  <2>1. Append(u.outcomes, outcome) \in Seq(Outcomes)
    BY AppendProperties DEF Uis
  <2> QED
    BY <2>1 DEF Uis
<1>2. DOMAIN u = Flags \cup {"shown", "started", "outcomes"}
  BY DEF Uis, Flags
<1> HIDE DEF finished
<1>3. /\ Close(finished) \in Uis
      /\ \A f \in DOMAIN finished \ {"cancelled", "killed", "closing", "open"} :
            Close(finished)[f] = finished[f]
      /\ ~ finished.running => ~ Close(finished).closing
  BY <1>1, CloseFacts
<1>4. ~ finished.running
  BY <1>1, <1>2 DEF Flags
<1>5. /\ closed \in Uis
      /\ closed.outcomes = Append(u.outcomes, outcome)
      /\ closed.editable /\ ~ closed.closing /\ ~ closed.saveable
      /\ \A f \in {"running", "armed", "started"} : closed[f] = u[f]
  <2>1. CASE finished.closing
    BY <1>1, <1>2, <1>3, <1>4, <2>1 DEF Flags
  <2>2. CASE ~ finished.closing
    BY <1>1, <1>2, <2>2 DEF Flags
  <2> QED
    BY <2>1, <2>2
<1>6. Emit(u, outcome, loads) = IF outcome # "completed" THEN closed
                                ELSE IF loads THEN shown ELSE hidden
  BY DEF Emit, finished
<1> HIDE DEF closed
<1>7. shown \in Uis /\ hidden \in Uis
  BY <1>5 DEF Uis
<1>8. shown.shown = artifact
  BY <1>5 DEF Uis
<1>9. \A f \in DOMAIN u \ {"saveable", "shown"} : shown[f] = closed[f] /\ hidden[f] = closed[f]
  BY <1>2, <1>5 DEF Uis, Flags
<1>10. ~ hidden.saveable
  BY <1>5 DEF Uis
<1> HIDE DEF shown, hidden
<1>11. CASE outcome # "completed"
  BY <1>5, <1>6, <1>11
<1>12. CASE outcome = "completed" /\ loads
  BY <1>2, <1>5, <1>6, <1>7, <1>8, <1>9, <1>12 DEF Flags
<1>13. CASE outcome = "completed" /\ ~ loads
  BY <1>2, <1>5, <1>6, <1>7, <1>9, <1>10, <1>13 DEF Flags
<1> QED
  BY <1>11, <1>12, <1>13

\* The end of a run: one outcome, which is "stopped" if the user had asked for
\* that, and "completed" only for a clean exit after a report and nothing else.
LEMMA FinishFacts ==
    ASSUME NEW u \in Uis, NEW ls \in Seq(Lines), u.running, ~ u.saveable, u.closing => u.open,
           NEW clean \in BOOLEAN, NEW loads \in BOOLEAN,
           artifact \in NoRun .. MaxRuns
    PROVE  LET v == Finish(u, ls, clean, loads)
           IN  /\ v \in Uis
               /\ ~ v.running /\ v.editable /\ ~ v.closing
               /\ v.armed = u.armed /\ v.started = u.started
               /\ v.saveable => v.shown = artifact
               /\ \E outcome \in Outcomes :
                    /\ v.outcomes = Append(u.outcomes, outcome)
                    /\ u.cancelled => outcome = "stopped"
                    /\ outcome = "completed" =>
                         /\ ~ u.cancelled /\ ~ u.error
                         /\ clean /\ Unread(ls) = <<>>
<1> DEFINE read == ReadStdout(u, ls)
           done == [read EXCEPT
                      !.error = @ \/ Unread(ls) # <<>> \/ ~ clean \/ ~ read.result,
                      !.running = FALSE]
<1>1. DOMAIN u = Flags \cup {"shown", "started", "outcomes"}
  BY DEF Uis, Flags
<1>2. /\ read \in Uis
      /\ \A f \in DOMAIN u \ {"error", "killed", "result"} : read[f] = u[f]
      /\ u.error => read.error
  <2>1. u.error => read.error
    BY DEF ReadStdout
  <2> QED
    BY <2>1, ReadFacts
<1> HIDE DEF read
<1>3. /\ done \in Uis
      /\ ~ done.running
      /\ done.error <=> read.error \/ Unread(ls) # <<>> \/ ~ clean \/ ~ read.result
      /\ \A f \in DOMAIN u \ {"error", "running"} : done[f] = read[f]
  BY <1>1, <1>2 DEF Uis, Flags
<1>4. Finish(u, ls, clean, loads) = Emit(done, Verdict(done), loads)
  BY DEF Finish, read
<1> HIDE DEF done
<1>5. /\ Verdict(done) \in Outcomes
      /\ u.cancelled => Verdict(done) = "stopped"
      /\ Verdict(done) = "completed" => ~ u.cancelled /\ ~ done.error
  BY <1>1, <1>2, <1>3 DEF Verdict, Outcomes, Flags
<1>6. done.closing => done.open
  BY <1>1, <1>2, <1>3 DEF Flags
<1>7. ~ done.saveable
  BY <1>1, <1>2, <1>3 DEF Flags
<1>8. done.armed = u.armed /\ done.started = u.started /\ done.outcomes = u.outcomes
  BY <1>1, <1>2, <1>3 DEF Flags
<1> DEFINE v == Emit(done, Verdict(done), loads)
<1>9. /\ v \in Uis /\ v.outcomes = Append(done.outcomes, Verdict(done))
      /\ v.editable /\ ~ v.closing
      /\ v.saveable => v.shown = artifact
      /\ v.running = done.running /\ v.armed = done.armed /\ v.started = done.started
  BY <1>3, <1>5, <1>6, <1>7, EmitFacts
<1> HIDE DEF v
<1> QED
  BY <1>2, <1>3, <1>4, <1>5, <1>8, <1>9 DEF v

-----------------------------------------------------------------------------
(* The Benchmark Inspector keeps its invariant. *)

\* The inspector starts unlocked, with nothing to save.
LEMMA BenchInitInv == AppInit /\ BenchInit => BenchInv
<1> SUFFICES ASSUME AppInit, BenchInit PROVE BenchInv
  OBVIOUS
<1> USE DEF AppInit, BenchInit
<1>1. BenchTypes
  <2>1. <<>> \in Seq(Lines) /\ <<>> \in Seq(Outcomes) /\ Len(<<>>) = 0
    OBVIOUS
  <2>2. ui \in Uis
    BY <2>1, BoundsAssumption DEF Uis, NoRun
  <2> QED
    BY <2>1, <2>2, BoundsAssumption DEF BenchTypes, AppStates, WorkerStates, NoRun
<1>2. Steady(ui, proc)
  BY DEF Steady
<1>3. Sound
  BY DEF Sound, SaveIsShown
<1> QED
  BY <1>1, <1>2, <1>3 DEF BenchInv

\* A run that starts locks the inputs and takes the last result off the shelf,
\* whether its child starts or not.
LEMMA RunInv == BenchInv /\ Run => BenchInv'
<1> SUFFICES ASSUME BenchInv, Run PROVE BenchInv'
  OBVIOUS
<1> USE DEF BenchInv
<1> DEFINE fresh == [ui EXCEPT !.running = TRUE, !.cancelled = FALSE,
                        !.error = FALSE, !.result = FALSE, !.killed = FALSE,
                        !.started = @ + 1]
           failed == ProcessError(fresh, TRUE)
<1>1. /\ fresh \in Uis /\ fresh.running /\ fresh.armed = ui.armed
      /\ fresh.closing = ui.closing /\ fresh.open = ui.open
  <2>1. ui \in Uis /\ ui.started + 1 \in 0 .. MaxRuns
    BY BoundsAssumption DEF Run, BenchTypes, Uis
  <2> QED
    BY <2>1 DEF Uis
<1>2. \/ ui' = Locked(fresh) /\ proc' = "starting"
      \/ ui' = Locked(failed) /\ proc' = "none"
  BY DEF Run
<1> HIDE DEF fresh
<1>3. /\ failed \in Uis /\ failed.running /\ failed.armed
      /\ failed.closing = ui.closing /\ failed.open = ui.open
  <2>1. /\ Fail(fresh) \in Uis
        /\ \A f \in DOMAIN fresh \ {"error", "killed"} : Fail(fresh)[f] = fresh[f]
    BY <1>1, FailFacts
  <2> QED
    BY <1>1, <2>1 DEF ProcessError, Uis
<1> HIDE DEF failed
<1>4. ~ ui.running /\ ~ ui.armed /\ ~ ui.closing /\ proc = "none"
  BY DEF Run, Steady, BenchTypes, Uis
<1>5. ui' \in Uis /\ Steady(ui', proc') /\ ~ ui'.saveable
  <2>1. CASE ui' = Locked(fresh) /\ proc' = "starting"
    BY <1>1, <1>4, <2>1 DEF Locked, Steady, Uis
  <2>2. CASE ui' = Locked(failed) /\ proc' = "none"
    BY <1>3, <1>4, <2>2 DEF Locked, Steady, Uis
  <2> QED
    BY <1>2, <2>1, <2>2
<1>6. lines' = <<>> /\ worker' = "unasked" /\ UNCHANGED <<app, artifact>>
      /\ proc' \in {"none", "starting"} /\ app = "running"
  BY DEF Run, User
<1>7. BenchTypes'
  <2>1. <<>> \in Seq(Lines) /\ Len(<<>>) = 0
    OBVIOUS
  <2> QED
    BY <1>5, <1>6, <2>1, BoundsAssumption DEF BenchTypes, WorkerStates
<1>8. Sound'
  BY <1>5, <1>6 DEF Sound, SaveIsShown
<1> QED
  BY <1>5, <1>7, <1>8

\* The buttons: stopping a run, closing and showing the inspector.
LEMMA ButtonsInv == BenchInv /\ (StopRun \/ CloseInspector \/ OpenInspector) => BenchInv'
<1> SUFFICES ASSUME BenchInv, StopRun \/ CloseInspector \/ OpenInspector PROVE BenchInv'
  OBVIOUS
<1> USE DEF BenchInv
<1>1. ui \in Uis /\ UNCHANGED <<app, Child, artifact>>
  BY DEF BenchTypes, StopRun, CloseInspector, OpenInspector
<1>2. /\ ui' \in Uis
      /\ \A f \in DOMAIN ui \ {"cancelled", "killed", "closing", "open"} : ui'[f] = ui[f]
      /\ ui'.closing => ui'.running /\ ui'.open
  <2>1. CASE StopRun
    BY <1>1, <2>1, StopFacts DEF StopRun, Steady, Uis
  <2>2. CASE CloseInspector
    <3>1. ui' = Close(ui) /\ ui.open
      BY <2>2 DEF CloseInspector, User
    <3> QED
      BY <1>1, <3>1, CloseFacts DEF Steady, Uis
  <2>3. CASE OpenInspector
    BY <1>1, <2>3 DEF OpenInspector, Steady, Uis
  <2> QED
    BY <2>1, <2>2, <2>3
<1>3. /\ ui'.running = ui.running /\ ui'.armed = ui.armed /\ ui'.editable = ui.editable
      /\ ui'.saveable = ui.saveable /\ ui'.shown = ui.shown /\ ui'.started = ui.started
  BY <1>1, <1>2 DEF Uis
<1>4. BenchTypes'
  BY <1>1, <1>2 DEF BenchTypes, Child
<1>5. Steady(ui', proc')
  BY <1>1, <1>2, <1>3 DEF Steady, Child
<1>6. Sound'
  BY <1>1, <1>3 DEF Sound, SaveIsShown, Child, IsPartial
<1> QED
  BY <1>4, <1>5, <1>6

\* The child starts, fails to start, is sent its request, breaks its pipe or
\* writes: only its flags and what is known of its result change.
LEMMA ChildInv == BenchInv /\ (FailToStart \/ SendRequest \/ ReadyRead \/ StreamError) => BenchInv'
<1> SUFFICES ASSUME BenchInv, FailToStart \/ SendRequest \/ ReadyRead \/ StreamError
             PROVE  BenchInv'
  OBVIOUS
<1> USE DEF BenchInv
<1>1. ui \in Uis /\ lines \in Seq(Lines) /\ UNCHANGED <<app, artifact>>
  BY DEF BenchTypes, FailToStart, SendRequest, ReadyRead, StreamError
<1>2. /\ Fail(ui) \in Uis
      /\ \A f \in DOMAIN ui \ {"error", "killed"} : Fail(ui)[f] = ui[f]
  BY <1>1, FailFacts
<1>3. /\ ui' \in Uis
      /\ \A f \in DOMAIN ui \ {"error", "killed", "result", "armed"} : ui'[f] = ui[f]
      /\ ui'.armed = (ui.armed \/ (proc = "starting" /\ proc' = "none"))
      /\ proc' = proc \/ (proc = "starting" /\ proc' \in {"none", "running"})
      /\ worker' \in WorkerStates
      /\ worker' \in {"written", "reported"} => worker' = worker
      /\ \/ lines' = lines
         \/ lines' = Unread(lines)
  <2>1. CASE FailToStart
    BY <1>1, <1>2, <2>1 DEF FailToStart, ProcessError, Uis, BenchTypes
  <2>2. CASE SendRequest
    BY <1>1, <2>2 DEF SendRequest, Uis, WorkerStates, Steady
  <2>3. CASE ReadyRead
    <3>1. ui' = ReadStdout(ui, lines) /\ UNCHANGED <<proc, worker>>
      BY <2>3 DEF ReadyRead
    <3>2. /\ ReadStdout(ui, lines) \in Uis
          /\ \A f \in DOMAIN ui \ {"error", "killed", "result"} : ReadStdout(ui, lines)[f] = ui[f]
      BY <1>1, ReadFacts
    <3>3. ui'.armed = ui.armed
      BY <1>1, <3>1, <3>2 DEF Uis
    <3>4. ui'.armed = (ui.armed \/ (proc = "starting" /\ proc' = "none"))
      BY <1>1, <3>1, <3>3 DEF Uis
    <3> QED
      BY <2>3, <3>1, <3>2, <3>4 DEF ReadyRead, BenchTypes
  <2>4. CASE StreamError
    BY <1>1, <1>2, <2>4 DEF StreamError, ProcessError, Child, Uis, BenchTypes
  <2> QED
    BY <2>1, <2>2, <2>3, <2>4
<1>4. /\ ui'.running = ui.running /\ ui'.editable = ui.editable /\ ui'.closing = ui.closing
      /\ ui'.open = ui.open /\ ui'.saveable = ui.saveable /\ ui'.shown = ui.shown
      /\ ui'.started = ui.started
  BY ZenonT(60), <1>1, <1>3 DEF Uis
<1>5. lines' \in Seq(Lines) /\ Len(lines') <= MaxLines
      /\ \A k \in DOMAIN lines' : IsPartial(lines'[k]) => k = Len(lines')
  <2>1. CASE lines' = lines
    BY <2>1 DEF BenchTypes, Sound
  <2>2. CASE lines' = Unread(lines)
    <3>1. lines' \in Seq(Lines) /\ Len(lines') <= 1
      BY <1>1, <2>2, UnreadFacts
    <3>2. Len(lines') \in Nat /\ DOMAIN lines' = 1 .. Len(lines')
      BY <3>1, LenProperties
    <3> QED
      BY <3>1, <3>2, BoundsAssumption
  <2> QED
    BY <1>3, <2>1, <2>2
<1>6. BenchTypes'
  BY <1>1, <1>3, <1>5 DEF BenchTypes
<1>7. Steady(ui', proc')
  BY <1>3, <1>4 DEF Steady
<1>8. Sound'
  BY <1>1, <1>3, <1>4, <1>5 DEF Sound, SaveIsShown
<1> QED
  BY <1>6, <1>7, <1>8

\* The end of the child: the run ends with it.
LEMMA FinishedInv == BenchInv /\ Finished => BenchInv'
<1> SUFFICES ASSUME BenchInv, Finished PROVE BenchInv'
  OBVIOUS
<1> USE DEF BenchInv
<1> DEFINE read == ReadStdout(ui, lines)
           told == IF worker = "crashed" THEN ProcessError(read, FALSE) ELSE read
           clean == worker = "reported"
<1>1. PICK loads \in BOOLEAN : ui' = Finish(told, Unread(lines), clean, loads)
  BY DEF Finished
<1>2. /\ ui \in Uis /\ lines \in Seq(Lines) /\ artifact \in NoRun .. MaxRuns
      /\ proc = "dead" /\ proc' = "none" /\ lines' = <<>>
      /\ UNCHANGED <<app, worker, artifact>>
  BY DEF Finished, BenchTypes
<1>3. /\ ui.running /\ ~ ui.armed /\ ~ ui.saveable /\ (ui.closing => ui.open)
  BY <1>2 DEF Steady
<1>4. /\ told \in Uis
      /\ told.running /\ ~ told.armed /\ ~ told.saveable /\ (told.closing => told.open)
      /\ told.started = ui.started
  <2>1. /\ read \in Uis
        /\ \A f \in DOMAIN ui \ {"error", "killed", "result"} : read[f] = ui[f]
    BY <1>2, ReadFacts
  <2>2. DOMAIN ui = Flags \cup {"shown", "started", "outcomes"}
    BY <1>2 DEF Uis, Flags
  <2>3. DOMAIN read = DOMAIN ui
    BY <1>2, <2>1 DEF Uis
  <2> HIDE DEF read
  <2>4. /\ Fail(read) \in Uis
        /\ \A f \in DOMAIN read \ {"error", "killed"} : Fail(read)[f] = read[f]
    BY <2>1, FailFacts
  <2>5. CASE worker = "crashed"
    <3>1. told = Fail(read)
      BY <2>4, <2>5 DEF ProcessError, Uis
    <3> QED
      BY <1>3, <2>1, <2>2, <2>3, <2>4, <3>1 DEF Flags
  <2>6. CASE worker # "crashed"
    BY <1>3, <2>1, <2>2, <2>6 DEF Flags
  <2> QED
    BY <2>5, <2>6
<1>5. Unread(lines) \in Seq(Lines) /\ clean \in BOOLEAN
  BY <1>2, UnreadFacts
<1> HIDE DEF told, clean
<1>6. /\ ui' \in Uis
      /\ ~ ui'.running /\ ui'.editable /\ ~ ui'.closing
      /\ ui'.armed = told.armed /\ ui'.started = told.started
      /\ ui'.saveable => ui'.shown = artifact
  BY <1>1, <1>2, <1>4, <1>5, FinishFacts
<1>7. BenchTypes'
  BY <1>2, <1>6, BoundsAssumption DEF BenchTypes
<1>8. Steady(ui', proc')
  BY <1>2, <1>4, <1>6 DEF Steady
<1>9. Sound'
  BY <1>2, <1>4, <1>6 DEF Sound, SaveIsShown
<1> QED
  BY <1>7, <1>8, <1>9

\* The timer of a child that did not start ends the run, and only that run.
LEMMA TimerInv == BenchInv /\ TimerFires => BenchInv'
<1> SUFFICES ASSUME BenchInv, TimerFires PROVE BenchInv'
  OBVIOUS
<1> USE DEF BenchInv
<1>1. /\ ui \in Uis /\ lines \in Seq(Lines) /\ artifact \in NoRun .. MaxRuns
      /\ UNCHANGED <<app, Child, artifact>>
  BY DEF TimerFires, BenchTypes
<1>2. /\ ui.running /\ ui.armed /\ proc = "none" /\ ~ ui.saveable /\ (ui.closing => ui.open)
  BY <1>1 DEF TimerFires, Steady
<1> DEFINE ended == Finish(ui, lines, FALSE, TRUE)
<1>3. /\ ended \in Uis
      /\ ~ ended.running /\ ended.editable /\ ~ ended.closing
      /\ ended.started = ui.started
      /\ ended.saveable => ended.shown = artifact
  BY <1>1, <1>2, FinishFacts
<1> HIDE DEF ended
<1>4. ui' = [ended EXCEPT !.armed = FALSE]
  BY DEF TimerFires, ended
<1>5. /\ ui' \in Uis
      /\ ~ ui'.running /\ ui'.editable /\ ~ ui'.closing /\ ~ ui'.armed
      /\ ui'.started = ui.started
      /\ ui'.saveable => ui'.shown = artifact
  BY <1>3, <1>4 DEF Uis
<1>6. BenchTypes'
  BY <1>1, <1>5 DEF BenchTypes, Child
<1>7. Steady(ui', proc')
  BY <1>1, <1>2, <1>5 DEF Steady, Child
<1>8. Sound'
  BY <1>1, <1>5 DEF Sound, SaveIsShown, Child
<1> QED
  BY <1>6, <1>7, <1>8

\* The Quit event stops what runs, and the windows close once the child is gone.
LEMMA QuitInv == BenchInv /\ (Quit \/ QuitOn) => BenchInv'
<1> SUFFICES ASSUME BenchInv, Quit \/ QuitOn PROVE BenchInv'
  OBVIOUS
<1> USE DEF BenchInv
<1>1. ui \in Uis /\ UNCHANGED <<Child, artifact>>
  BY DEF BenchTypes, Quit, QuitOn
<1>2. /\ ui' \in Uis
      /\ \A f \in DOMAIN ui \ {"cancelled", "killed", "closing", "open"} : ui'[f] = ui[f]
      /\ ui'.closing => ui'.running /\ ui'.open
      /\ app' \in AppStates
      /\ app' \in {"left", "gone"} => proc = "none"
  <2>1. CASE Quit
    BY <1>1, <2>1, StopFacts DEF Quit, Steady, Uis, AppStates
  <2>2. CASE QuitOn /\ ui.open
    <3>1. ui' = Close(ui) /\ proc = "none" /\ app' \in {"running", "left"}
      BY <2>2 DEF QuitOn, Waited
    <3> QED
      BY <1>1, <2>2, <3>1, CloseFacts DEF Steady, Uis, AppStates
  <2>3. CASE QuitOn /\ ~ ui.open
    <3>1. ui' = ui /\ proc = "none" /\ app' \in {"running", "left"}
      BY <2>3 DEF QuitOn, Waited
    <3> QED
      BY <1>1, <2>3, <3>1 DEF Steady, AppStates
  <2> QED
    BY <2>1, <2>2, <2>3
<1>3. /\ ui'.running = ui.running /\ ui'.armed = ui.armed /\ ui'.editable = ui.editable
      /\ ui'.saveable = ui.saveable /\ ui'.shown = ui.shown /\ ui'.started = ui.started
  BY <1>1, <1>2 DEF Uis
<1>4. BenchTypes'
  BY <1>1, <1>2 DEF BenchTypes, Child
<1>5. Steady(ui', proc')
  BY <1>1, <1>2, <1>3 DEF Steady, Child
<1>6. Sound'
  BY <1>1, <1>2, <1>3 DEF Sound, SaveIsShown, Child, IsPartial
<1> QED
  BY <1>4, <1>5, <1>6

\* The worker writes its artifact only while a run is on its way, when nothing
\* is on offer, and goes on with a line only behind whole ones.
LEMMA WorkInv == BenchInv /\ Work => BenchInv'
<1> SUFFICES ASSUME BenchInv, Work PROVE BenchInv'
  OBVIOUS
<1> USE DEF BenchInv
<1>1. proc = "running" /\ UNCHANGED <<app, ui>> /\ ui.running /\ ~ ui.saveable
      /\ app \notin {"left", "gone"} /\ ui \in Uis
  BY DEF Work, Steady, Sound, BenchTypes
<1>2. \/ /\ \E line \in Lines : Write(line)
         /\ proc' = proc /\ artifact' = artifact
         /\ worker' = worker \/ (worker = "written" /\ worker' = "reported")
                             \/ worker' = "erred"
      \/ WriteArtifact
      \/ /\ proc' = "dead" /\ lines' = lines /\ artifact' = artifact
         /\ worker' \in {worker, "crashed"}
  BY DEF Work, Stray, Progress, Report, ReportError, Exit, Die, Lines
<1>3. BenchTypes' /\ Steady(ui', proc') /\ Sound'
  <2>1. ASSUME NEW line \in Lines, Write(line), proc' = proc, artifact' = artifact,
               worker' = worker \/ (worker = "written" /\ worker' = "reported")
                               \/ worker' = "erred"
        PROVE  BenchTypes' /\ Steady(ui', proc') /\ Sound'
    <3>1. /\ lines \in Seq(Lines) /\ lines' = Append(lines, line) /\ Len(lines) < MaxLines
          /\ \A k \in DOMAIN lines : ~ IsPartial(lines[k])
      BY <2>1 DEF Write, BenchTypes
    <3>2. /\ lines' \in Seq(Lines) /\ Len(lines') = Len(lines) + 1
          /\ \A k \in 1 .. Len(lines) : lines'[k] = lines[k]
          /\ DOMAIN lines' = 1 .. Len(lines')
      BY <3>1, AppendProperties, LenProperties
    <3>3. Len(lines) \in Nat /\ DOMAIN lines = 1 .. Len(lines)
      BY <3>1, LenProperties
    <3>4. \A k \in DOMAIN lines' : IsPartial(lines'[k]) => k = Len(lines')
      BY <3>1, <3>2, <3>3
    <3>5. Len(lines') <= MaxLines
      BY <3>1, <3>2, <3>3, BoundsAssumption
    <3>6. BenchTypes'
      BY <1>1, <2>1, <3>2, <3>5 DEF BenchTypes, WorkerStates
    <3>7. Steady(ui', proc')
      BY <1>1, <2>1
    <3>8. Sound'
      BY <1>1, <2>1, <3>4 DEF Sound, SaveIsShown
    <3> QED
      BY <3>6, <3>7, <3>8
  <2>2. CASE WriteArtifact
    <3>1. ui.started \in NoRun .. MaxRuns
      BY <1>1 DEF Uis, NoRun
    <3> QED
      BY <1>1, <2>2, <3>1 DEF WriteArtifact, BenchTypes, Steady, Sound, SaveIsShown, WorkerStates, IsPartial
  <2>3. CASE /\ proc' = "dead" /\ lines' = lines /\ artifact' = artifact
             /\ worker' \in {worker, "crashed"}
    BY <1>1, <2>3 DEF BenchTypes, Steady, Sound, SaveIsShown, WorkerStates, IsPartial
  <2> QED
    BY <1>2, <2>1, <2>2, <2>3
<1> QED
  BY <1>3

\* Every step of the inspector, its child and the quit of the pilot.
LEMMA BenchNextInv == BenchInv /\ BenchNext => BenchInv'
  BY RunInv, ButtonsInv, ChildInv, FinishedInv, TimerInv, QuitInv, WorkInv DEF BenchNext

-----------------------------------------------------------------------------
(* The transcript. *)

\* A bounded set of numbers has a greatest one, which Max() finds.
LEMMA MaxOfBounded ==
    ASSUME NEW S \in SUBSET Nat, NEW n \in Nat, S # {}, \A x \in S : x <= n
    PROVE  Max(S) \in S /\ \A y \in S : y <= Max(S)
<1> DEFINE T == {n - x : x \in S}
<1>0. \A x \in S : x \in Nat /\ n - x \in Nat
  OBVIOUS
<1>1. T \subseteq Nat /\ T # {}
  BY <1>0
<1>2. \E d \in T : \A e \in T : ~ (<<e, d>> \in OpToRel(<, Nat))
  <2> HIDE DEF T
  <2> QED
    BY <1>1, NatLessThanWellFounded, WFMin
<1>3. PICK d \in T : \A e \in T : ~ (e < d)
  BY <1>1, <1>2 DEF OpToRel
<1>4. PICK x \in S : d = n - x
  BY <1>3
<1>5. \A y \in S : x >= y
  <2> TAKE y \in S
  <2>1. n - y \in T
    OBVIOUS
  <2>2. ~ (n - y < n - x)
    BY <1>3, <1>4, <2>1
  <2> QED
    BY <1>0, <2>2
<1> HIDE DEF T
<1> QED
  BY <1>0, <1>5 DEF Max

\* What a backend is given is the transcript up to its last turn that is no
\* prompt.
LEMMA SettledFacts ==
    ASSUME NEW t \in Seq(Turns)
    PROVE  /\ Settled(t) \in Seq(Turns)
           /\ Len(Settled(t)) <= Len(t)
           /\ \A k \in 1 .. Len(Settled(t)) : Settled(t)[k] = t[k]
           /\ \A r \in 1 .. Len(t) : t[r].role # "user" => r <= Len(Settled(t))
           /\ t # <<>> /\ t[Len(t)].role = "user" => Len(Settled(t)) < Len(t)
<1> DEFINE ends == {0} \cup {n \in DOMAIN t : t[n].role # "user"}
<1>1. Len(t) \in Nat /\ DOMAIN t = 1 .. Len(t)
  BY LenProperties
<1>2. ends \in SUBSET Nat /\ ends # {} /\ \A x \in ends : x <= Len(t)
  BY <1>1
<1>3. Max(ends) \in ends /\ \A y \in ends : y <= Max(ends)
  <2> HIDE DEF ends
  <2> QED
    BY <1>1, <1>2, MaxOfBounded
<1>4. Max(ends) \in 0 .. Len(t)
  BY <1>1, <1>2, <1>3
<1>5. Settled(t) = SubSeq(t, 1, Max(ends))
  BY DEF Settled
<1> DEFINE m == Max(ends)
<1>6. /\ SubSeq(t, 1, m) \in Seq(Turns)
      /\ Len(SubSeq(t, 1, m)) = m
      /\ \A k \in 1 .. m : SubSeq(t, 1, m)[k] = t[k]
  <2>1. \A k \in 1 .. m : k \in 1 .. Len(t)
    BY <1>1, <1>4
  <2>2. m \in 0 .. Len(t)
    BY <1>4
  <2> HIDE DEF m, ends
  <2> QED
    BY <1>1, <2>1, <2>2, SubSeqProperties
<1>7. t # <<>> /\ t[Len(t)].role = "user" => Max(ends) # Len(t)
  <2>1. t # <<>> => Len(t) # 0
    BY <1>1
  <2> QED
    BY <1>3, <2>1
<1>8. \A r \in 1 .. Len(t) : t[r].role # "user" => r <= m
  BY <1>1, <1>3
<1> HIDE DEF m, ends
<1> QED
  BY <1>1, <1>4, <1>5, <1>6, <1>7, <1>8 DEF m

\* Binding the session to a world adds at most a marker, and there is one at the
\* end if anything was said about another world.
LEMMA BoundFacts ==
    ASSUME NEW t \in Seq(Turns), NEW from, NEW to \in Canvases \cup {NoCanvas}
    PROVE  LET b == Bound(t, from, to)
           IN  /\ b \in Seq(Turns)
               /\ Len(b) \in {Len(t), Len(t) + 1}
               /\ \A k \in 1 .. Len(t) : b[k] = t[k]
               /\ Len(b) = Len(t) + 1 => b[Len(b)].role = "marker" /\ b[Len(b)].prompt = 0
               /\ from # to /\ t # <<>> => b[Len(b)].role = "marker"
<1> DEFINE mark == Turn("marker", 0, to)
<1>1. mark \in Turns /\ mark.role = "marker" /\ mark.prompt = 0
  BY AgentAssumption DEF Turn, Turns, Roles
<1> HIDE DEF mark
<1>2. Len(t) \in Nat
  BY LenProperties
<1>3. /\ Append(t, mark) \in Seq(Turns) /\ Len(Append(t, mark)) = Len(t) + 1
      /\ \A k \in 1 .. Len(t) : Append(t, mark)[k] = t[k]
      /\ Append(t, mark)[Len(t) + 1] = mark
  BY <1>1, AppendProperties
<1>4. CASE from = to \/ t = <<>>
  BY <1>2, <1>4 DEF Bound
<1>5. CASE from # to /\ t # <<>> /\ Last(t).role = "marker"
  BY <1>2, <1>5 DEF Bound, Marked, Last
<1>6. CASE from # to /\ t # <<>> /\ Last(t).role # "marker"
  BY <1>1, <1>2, <1>3, <1>6 DEF Bound, Marked, mark
<1> QED
  BY <1>4, <1>5, <1>6

\* A submitted prompt leaves the transcript as it was, then perhaps a marker, then
\* itself.
LEMMA RecordedFacts ==
    ASSUME transcript \in Seq(Turns), active \in Canvases \cup {NoCanvas},
           NEW p \in 1 .. MaxPrompts, Recorded(p)
    PROVE  /\ transcript' \in Seq(Turns)
           /\ Len(transcript') \in {Len(transcript) + 1, Len(transcript) + 2}
           /\ \A k \in 1 .. Len(transcript) : transcript'[k] = transcript[k]
           /\ transcript'[Len(transcript')] = Turn("user", p, active)
           /\ Len(transcript') = Len(transcript) + 2 =>
                transcript'[Len(transcript) + 1].role = "marker"
                /\ transcript'[Len(transcript) + 1].prompt = 0
           /\ world # active /\ transcript # <<>> =>
                transcript'[Len(transcript') - 1].role = "marker"
<1> DEFINE b == Bound(transcript, world, active)
           u == Turn("user", p, active)
<1>1. u \in Turns
  BY AgentAssumption DEF Turn, Turns, Roles
<1>2. Len(transcript) \in Nat
  BY LenProperties
<1>3. /\ b \in Seq(Turns)
      /\ Len(b) \in {Len(transcript), Len(transcript) + 1}
      /\ \A k \in 1 .. Len(transcript) : b[k] = transcript[k]
      /\ Len(b) = Len(transcript) + 1 => b[Len(b)].role = "marker" /\ b[Len(b)].prompt = 0
      /\ world # active /\ transcript # <<>> => b[Len(b)].role = "marker"
  BY BoundFacts
<1>4. transcript' = Append(b, u)
  BY DEF Recorded, Prompted
<1> HIDE DEF b, u
<1>5. /\ Append(b, u) \in Seq(Turns) /\ Len(Append(b, u)) = Len(b) + 1
      /\ \A k \in 1 .. Len(b) : Append(b, u)[k] = b[k]
      /\ Append(b, u)[Len(b) + 1] = u
  BY <1>1, <1>3, AppendProperties
<1>6. transcript # <<>> => Len(transcript) > 0
  BY <1>2, EmptySeq
<1> QED
  BY <1>2, <1>3, <1>4, <1>5, <1>6 DEF u

-----------------------------------------------------------------------------
(* The Agent Console keeps its invariant. *)

\* The console starts with nothing said and nobody at work.
LEMMA AgentInitInv == AppInit /\ AgentInit => AgentInv
<1> SUFFICES ASSUME AppInit, AgentInit PROVE AgentInv
  OBVIOUS
<1> USE DEF AppInit, AgentInit
<1>1. <<>> \in Seq(Turns) /\ <<>> \in Seq(Kinds \X (1 .. MaxPrompts)) /\ DOMAIN <<>> = {}
  OBVIOUS
<1>2. AgentTypeOK
  <2>1. history \in [1 .. MaxPrompts -> Seq(Turns)]
    BY <1>1
  <2> QED
    <3>1. thread \in [1 .. MaxPrompts -> ThreadStates]
      BY DEF ThreadStates
    <3>2. mine \in 0 .. MaxPrompts /\ prompts \in 0 .. MaxPrompts
      BY AgentAssumption
    <3> QED
      BY <1>1, <2>1, <3>1, <3>2 DEF AgentTypeOK
<1>3. Custody
  BY DEF Custody
<1>4. Answers
  BY <1>1 DEF Answers
<1>5. Marks /\ SwitchesMarked
  BY <1>1 DEF Marks, SwitchesMarked
<1>6. Replays
  BY DEF Replays
<1> QED
  BY <1>2, <1>3, <1>4, <1>5, <1>6 DEF AgentInv

\* A prompt that the console takes: its turn is the last, and a worker that it
\* gets is given what was said before.
LEMMA SubmitInv ==
    ASSUME AgentInv, NEW backend \in BOOLEAN, Submit(backend)
    PROVE  AgentInv'
<1> USE DEF AgentInv
<1> DEFINE n == Len(transcript)
           p == prompts + 1
<1>1. /\ transcript \in Seq(Turns) /\ active \in Canvases \cup {NoCanvas}
      /\ n \in Nat /\ DOMAIN transcript = 1 .. n
      /\ p \in 1 .. MaxPrompts /\ prompts' = p
      /\ app = "running" /\ UNCHANGED <<app, inbox, Desk>>
  <2>1. transcript \in Seq(Turns) /\ active \in Canvases \cup {NoCanvas}
    BY DEF AgentTypeOK
  <2>2. n \in Nat /\ DOMAIN transcript = 1 .. n
    BY <2>1, LenProperties
  <2>3. app = "running" /\ UNCHANGED <<app, inbox, Desk>> /\ prompts' = p /\ prompts < MaxPrompts
    BY DEF Submit
  <2>4. prompts \in 0 .. MaxPrompts
    BY DEF AgentTypeOK
  <2>5. p \in 1 .. MaxPrompts
    BY <2>3, <2>4, AgentAssumption
  <2> QED
    BY <2>1, <2>2, <2>3, <2>5
<1>2. /\ mine = 0 /\ inbox = <<>> /\ ~ busy
      /\ \A q \in 1 .. MaxPrompts : thread[q] \in {"none", "over"}
      /\ thread[p] = "none"
  <2>1. mine = 0 /\ ~ busy
    BY DEF Submit, Custody
  <2> QED
    BY <1>1, <2>1 DEF Custody, AgentTypeOK
<1>3. /\ Recorded(p) /\ lost' = lost /\ world' = active
      /\ \/ UNCHANGED <<thread, mine, busy, history>>
         \/ /\ mine' = p /\ busy' = TRUE
            /\ thread' = [thread EXCEPT ![p] = "sending"]
            /\ history' = [history EXCEPT ![p] = Settled(transcript')]
  <2>1. Recorded(p) /\ lost' = lost /\ world' = active
    BY <1>1, <1>2 DEF Submit, Recorded
  <2>2. transcript' \in Seq(Turns)
    BY <1>1, <2>1, RecordedFacts
  <2>3. History(transcript', 0) = Settled(transcript')
    <3>1. Settled(transcript') \in Seq(Turns)
      BY <2>2, SettledFacts
    <3>2. 0 \notin DOMAIN Settled(transcript')
      BY <3>1, LenProperties
    <3> QED
      BY <3>2 DEF History
  <2> QED
    BY <1>1, <1>2, <2>1, <2>3 DEF Submit
<1>4. /\ transcript' \in Seq(Turns)
      /\ Len(transcript') \in {n + 1, n + 2}
      /\ \A k \in 1 .. n : transcript'[k] = transcript[k]
      /\ transcript'[Len(transcript')] = Turn("user", p, active)
      /\ Len(transcript') = n + 2 =>
            transcript'[n + 1].role = "marker" /\ transcript'[n + 1].prompt = 0
      /\ world # active /\ transcript # <<>> => transcript'[Len(transcript') - 1].role = "marker"
  BY <1>1, <1>3, RecordedFacts
<1> DEFINE l == Len(transcript')
<1>5. /\ l \in {n + 1, n + 2} /\ DOMAIN transcript' = 1 .. l
      /\ transcript'[l].role = "user" /\ transcript'[l].prompt = p /\ transcript'[l].world = active
      /\ \A k \in DOMAIN transcript' :
            \/ k \in DOMAIN transcript /\ transcript'[k] = transcript[k]
            \/ k = l
            \/ /\ k \notin DOMAIN transcript /\ k < l
               /\ transcript'[k].role = "marker" /\ transcript'[k].prompt = 0
      /\ \A k \in DOMAIN transcript :
            k \in DOMAIN transcript' /\ transcript'[k] = transcript[k] /\ k < l
      /\ l \in DOMAIN transcript' /\ l \notin DOMAIN transcript
  BY <1>1, <1>4, LenProperties DEF Turn
<1>6. \A k \in DOMAIN transcript' : transcript'[k].role = "agent" =>
            k \in DOMAIN transcript /\ transcript'[k] = transcript[k]
  BY <1>5
<1>7. /\ thread' \in [1 .. MaxPrompts -> ThreadStates]
      /\ thread'[p] \in {"none", "sending"}
      /\ \A q \in 1 .. MaxPrompts : q # p => thread'[q] = thread[q] /\ history'[q] = history[q]
      /\ thread'[p] # "none" => mine' = p /\ thread'[p] = "sending"
      /\ thread'[p] = "none" => mine' = 0 /\ ~ busy'
      /\ mine' \in {0, p} /\ (busy' <=> mine' # 0) /\ busy' \in BOOLEAN
  <2>1. thread \in [1 .. MaxPrompts -> ThreadStates] /\ DOMAIN history = 1 .. MaxPrompts
    BY DEF AgentTypeOK
  <2>2. p # 0
    BY <1>1
  <2>3. CASE UNCHANGED <<thread, mine, busy, history>>
    <3>1. busy' = FALSE /\ mine' = 0 /\ thread' = thread /\ history' = history
      BY <1>2, <2>3 DEF AgentTypeOK
    <3>2. thread'[p] = "none"
      BY <1>2, <3>1
    <3> HIDE DEF p
    <3> QED
      BY <2>1, <3>1, <3>2
  <2>4. CASE /\ mine' = p /\ busy' = TRUE
             /\ thread' = [thread EXCEPT ![p] = "sending"]
             /\ history' = [history EXCEPT ![p] = Settled(transcript')]
    <3>1. thread' \in [1 .. MaxPrompts -> ThreadStates]
      BY <2>1, <2>4 DEF ThreadStates
    <3>2. thread'[p] = "sending"
      BY <1>1, <2>1, <2>4
    <3>3. \A q \in 1 .. MaxPrompts : q # p => thread'[q] = thread[q] /\ history'[q] = history[q]
      BY <2>1, <2>4
    <3> QED
      BY <2>2, <2>4, <3>1, <3>2, <3>3
  <2> QED
    BY <1>3, <2>3, <2>4
<1>14. /\ n \in Nat /\ l \in Nat /\ l > n
       /\ \A k \in DOMAIN transcript' : k \in Nat /\ k <= l
       /\ \A k \in Nat : 1 <= k /\ k <= l => k \in DOMAIN transcript'
       /\ \A k \in DOMAIN transcript' : k # l => k < l
  <2>1. n \in Nat /\ l \in {n + 1, n + 2} /\ DOMAIN transcript' = 1 .. l
    BY <1>1, <1>5
  <2> HIDE DEF n, l
  <2> QED
    BY <2>1
<1>15. p \in Nat /\ p > prompts /\ prompts \in Nat
  BY <1>1 DEF AgentTypeOK
<1>16. transcript' # <<>>
  BY <1>4, <1>14
<1> HIDE DEF l, n, p
<1>8. AgentTypeOK'
  <2>1. history' \in [1 .. MaxPrompts -> Seq(Turns)]
    BY <1>1, <1>3, <1>4, SettledFacts DEF AgentTypeOK
  <2>2. mine' \in 0 .. MaxPrompts /\ prompts' \in 0 .. MaxPrompts
    BY <1>1, <1>7, AgentAssumption
  <2>3. lost' \subseteq 1 .. prompts'
    BY <1>3 DEF Custody
  <2>4. /\ inbox' \in Seq(Kinds \X (1 .. MaxPrompts)) /\ world' \in Canvases \cup {NoCanvas}
        /\ opened' \subseteq Canvases /\ active' \in opened' \cup {NoCanvas}
    BY <1>1, <1>3 DEF AgentTypeOK, Desk
  <2> QED
    BY <1>4, <1>7, <2>1, <2>2, <2>3, <2>4 DEF AgentTypeOK
<1>9. Custody'
  <2>1. mine' # 0 => Pending(mine)'
    BY <1>1, <1>2, <1>7 DEF Pending
  <2>2. \A q \in 1 .. MaxPrompts : q # mine' => thread'[q] \in {"none", "over"}
    BY <1>2, <1>7
  <2>3. \A q \in 1 .. MaxPrompts : thread'[q] # "none" => q <= prompts'
    BY <1>1, <1>2, <1>7, <1>15 DEF Custody
  <2> QED
    BY <1>1, <1>2, <1>3, <1>7, <2>1, <2>2, <2>3 DEF Custody
<1>10. Answers'
  <2>1. \A k \in DOMAIN transcript' : transcript'[k].prompt <= prompts'
    <3> TAKE k \in DOMAIN transcript'
    <3>1. CASE k \in DOMAIN transcript /\ transcript'[k] = transcript[k]
      <4>1. transcript[k] \in Turns /\ transcript[k].prompt <= prompts
        BY <1>1, <3>1, ElementOfSeq DEF Answers
      <4>2. transcript[k].prompt \in Int
        BY <4>1 DEF Turns
      <4> QED
        BY <1>1, <1>15, <3>1, <4>1, <4>2
    <3>2. CASE transcript'[k].prompt \in {0, p}
      BY <1>1, <1>15, <3>2
    <3> QED
      BY <1>5, <3>1, <3>2
  <2>2. \A j, k \in DOMAIN transcript' :
            /\ transcript'[j].role = "agent" /\ transcript'[k].role = "agent"
            /\ transcript'[j].prompt = transcript'[k].prompt
            => j = k
    BY <1>6 DEF Answers
  <2>3. \A r, k \in DOMAIN transcript' :
            /\ transcript'[r].role = "agent" /\ transcript'[k].role = "user"
            => IF transcript'[k].prompt > transcript'[r].prompt THEN r < k
               ELSE transcript'[k].prompt = transcript'[r].prompt => k < r
    <3> SUFFICES ASSUME NEW r \in DOMAIN transcript', NEW k \in DOMAIN transcript',
                        transcript'[r].role = "agent", transcript'[k].role = "user"
                 PROVE  IF transcript'[k].prompt > transcript'[r].prompt THEN r < k
                        ELSE transcript'[k].prompt = transcript'[r].prompt => k < r
      OBVIOUS
    <3>1. r \in DOMAIN transcript /\ transcript'[r] = transcript[r]
      BY <1>6
    <3>2. CASE k = l
      <4>1. transcript[r] \in Turns
        BY <1>1, <3>1, ElementOfSeq
      <4>2. transcript[r].prompt <= prompts
        BY <3>1 DEF Answers
      <4>3. transcript'[k].prompt > transcript'[r].prompt
        <5>1. transcript[r].prompt \in Int
          BY <4>1 DEF Turns
        <5> QED
          BY <1>5, <1>15, <3>1, <3>2, <4>2, <5>1
      <4> QED
        BY <1>5, <3>1, <3>2, <4>3
    <3>3. CASE k # l
      <4>1. k \in DOMAIN transcript /\ transcript'[k] = transcript[k]
        BY <1>5, <3>3
      <4> QED
        BY <3>1, <4>1 DEF Answers
    <3> QED
      BY <3>2, <3>3
  <2>4. \A q \in 1 .. MaxPrompts :
            (\E r \in DOMAIN transcript' : IsTurn(r, "agent", q)')
                <=> thread'[q] # "none" /\ (q = mine' => ~ Awaited')
    <3> TAKE q \in 1 .. MaxPrompts
    <3>1. (\E r \in DOMAIN transcript' : IsTurn(r, "agent", q)')
            <=> \E r \in DOMAIN transcript : IsTurn(r, "agent", q)
      BY <1>5, <1>6 DEF IsTurn
    <3>2. CASE q # p
      <4>1. q # mine /\ q # mine' /\ thread'[q] = thread[q]
        BY <1>2, <1>7, <3>2
      <4> QED
        BY <3>1, <4>1 DEF Answers
    <3>3. CASE q = p
      <4>1. ~ \E r \in DOMAIN transcript : IsTurn(r, "agent", q)
        BY <1>1, <1>2, <3>3 DEF Answers
      <4>2. thread'[q] # "none" => q = mine' /\ Awaited'
        BY <1>7, <3>3 DEF Awaited
      <4> QED
        BY <3>1, <4>1, <4>2
    <3> QED
      BY <3>2, <3>3
  <2> QED
    BY <2>1, <2>2, <2>3, <2>4 DEF Answers
<1>11. Marks'
  <2> SUFFICES ASSUME NEW i \in DOMAIN transcript', transcript'[i].role = "user",
                      transcript'[i].world # active
               PROVE  \E k \in DOMAIN transcript' : i < k /\ transcript'[k].role = "marker"
    BY <1>3 DEF Marks
  <2>1. i \in DOMAIN transcript /\ transcript'[i] = transcript[i]
    BY <1>5
  <2>2. CASE transcript[i].world # world
    <3>1. PICK k \in DOMAIN transcript : i < k /\ transcript[k].role = "marker"
      BY <2>1, <2>2 DEF Marks
    <3> QED
      BY <1>5, <3>1
  <2>3. CASE transcript[i].world = world
    <3>1. transcript # <<>>
      BY <1>1, <2>1
    <3>2. transcript'[l - 1].role = "marker"
      BY <1>4, <2>1, <2>3, <3>1 DEF l
    <3>3. i \in Nat /\ 1 <= i /\ i < l /\ i # l - 1
      BY <1>1, <1>5, <2>1, <3>2
    <3>4. l - 1 \in DOMAIN transcript' /\ i < l - 1
      BY <1>14, <3>3
    <3> QED
      BY <3>2, <3>4
  <2> QED
    BY <2>2, <2>3
<1>12. SwitchesMarked'
  <2> SUFFICES ASSUME NEW i \in DOMAIN transcript', NEW j \in DOMAIN transcript', i < j,
                      transcript'[i].role = "user", transcript'[j].role = "user",
                      transcript'[i].world # transcript'[j].world
               PROVE  \E k \in i .. j : transcript'[k].role = "marker"
    BY DEF SwitchesMarked
  <2>1. CASE j = l
    <3>1. PICK k \in DOMAIN transcript' : i < k /\ transcript'[k].role = "marker"
      BY <1>3, <1>5, <1>11, <2>1 DEF Marks
    <3>2. k \in i .. j
      BY <1>14, <2>1, <3>1
    <3> QED
      BY <3>1, <3>2
  <2>2. CASE j # l
    <3>1. /\ i \in DOMAIN transcript /\ transcript'[i] = transcript[i]
          /\ j \in DOMAIN transcript /\ transcript'[j] = transcript[j]
      <4>1. i # l
        BY <1>14
      <4> QED
        BY <1>5, <2>2, <4>1
    <3>2. PICK k \in i .. j : transcript[k].role = "marker"
      BY <3>1 DEF SwitchesMarked
    <3>3. k \in DOMAIN transcript
      BY <1>1, <3>1
    <3> QED
      BY <1>5, <3>2, <3>3
  <2> QED
    BY <2>1, <2>2
<1>13. Replays'
  <2> SUFFICES ASSUME NEW q \in 1 .. MaxPrompts, thread'[q] # "none"
               PROVE  /\ \A k \in DOMAIN history'[q] : history'[q][k].prompt < q
                      /\ \A r \in DOMAIN transcript' :
                            transcript'[r].role = "agent" /\ transcript'[r].prompt < q
                                => \E k \in DOMAIN history'[q] : history'[q][k] = transcript'[r]
    BY DEF Replays
  <2>1. CASE q # p
    BY <1>6, <1>7, <2>1 DEF Replays
  <2>2. CASE q = p
    <3> DEFINE h == Settled(transcript')
    <3>1. history'[q] = h
      BY <1>2, <1>3, <2>2 DEF AgentTypeOK
    <3>2. /\ h \in Seq(Turns) /\ Len(h) < l
          /\ \A k \in 1 .. Len(h) : h[k] = transcript'[k]
          /\ \A r \in 1 .. l : transcript'[r].role # "user" => r <= Len(h)
      BY <1>4, <1>5, <1>16, SettledFacts DEF l
    <3> HIDE DEF h
    <3>3. Len(h) \in Nat /\ DOMAIN h = 1 .. Len(h)
      BY <3>2, LenProperties
    <3>4. ASSUME NEW k \in DOMAIN h PROVE h[k].prompt < q
      <4>1. k \in DOMAIN transcript' /\ k # l /\ h[k] = transcript'[k]
        BY <1>14, <3>2, <3>3, <3>4
      <4>2. CASE k \in DOMAIN transcript /\ transcript'[k] = transcript[k]
        <5>1. transcript[k] \in Turns
          BY <1>1, <4>2, ElementOfSeq
        <5>2. transcript[k].prompt \in Int /\ transcript[k].prompt <= prompts
          BY <4>2, <5>1 DEF Answers, Turns
        <5> QED
          BY <1>15, <2>2, <4>1, <4>2, <5>2
      <4>3. CASE transcript'[k].prompt = 0
        BY <1>15, <2>2, <4>1, <4>3
      <4> QED
        BY <1>5, <4>1, <4>2, <4>3
    <3>5. ASSUME NEW r \in DOMAIN transcript', transcript'[r].role = "agent"
          PROVE  \E k \in DOMAIN h : h[k] = transcript'[r]
      <4>1. r \in 1 .. l /\ r <= Len(h)
        BY <1>5, <3>2, <3>5
      <4>2. r \in DOMAIN h
        BY <3>3, <4>1
      <4> QED
        BY <3>2, <3>3, <4>2
    <3> QED
      BY <3>1, <3>4, <3>5
  <2> QED
    BY <2>1, <2>2
<1> QED
  BY <1>8, <1>9, <1>10, <1>11, <1>12, <1>13

\* What is said is only disturbed by what says something: a step that leaves the
\* transcript alone and brings no reply nearer keeps what holds of it.
LEMMA NothingSaid ==
    ASSUME Answers, Marks, SwitchesMarked, Replays,
           UNCHANGED <<Session, prompts, history>>,
           \A p \in 1 .. MaxPrompts : thread'[p] # "none" <=> thread[p] # "none",
           \A p \in 1 .. MaxPrompts : thread[p] # "none" =>
                ((p = mine /\ Awaited) <=> (p = mine' /\ Awaited'))
    PROVE  Answers' /\ Marks' /\ SwitchesMarked' /\ Replays'
<1>1. transcript' = transcript /\ world' = world /\ prompts' = prompts /\ history' = history
  BY DEF Session
<1>2. Answers'
  <2>1. \A p \in 1 .. MaxPrompts :
            (\E r \in DOMAIN transcript' : IsTurn(r, "agent", p)')
                <=> thread'[p] # "none" /\ (p = mine' => ~ Awaited')
    <3> TAKE p \in 1 .. MaxPrompts
    <3>1. (\E r \in DOMAIN transcript' : IsTurn(r, "agent", p)')
            <=> \E r \in DOMAIN transcript : IsTurn(r, "agent", p)
      BY <1>1 DEF IsTurn
    <3>2. (\E r \in DOMAIN transcript : IsTurn(r, "agent", p))
            <=> thread[p] # "none" /\ (p = mine => ~ Awaited)
      BY DEF Answers
    <3> QED
      BY <3>1, <3>2
  <2> QED
    BY <1>1, <2>1 DEF Answers
<1>3. Marks' /\ SwitchesMarked'
  BY <1>1 DEF Marks, SwitchesMarked
<1>4. Replays'
  BY <1>1 DEF Replays
<1> QED
  BY <1>2, <1>3, <1>4

\* Sequences of one and two signals.
LEMMA InboxFacts ==
    ASSUME NEW S, NEW a \in S, NEW b \in S
    PROVE  /\ <<a>> \in Seq(S) /\ Head(<<a>>) = a /\ Tail(<<a>>) = <<>> /\ <<a>> # <<>>
           /\ <<a, b>> \in Seq(S) /\ Head(<<a, b>>) = a /\ Tail(<<a, b>>) = <<b>> /\ <<a, b>> # <<>>
           /\ Append(<<>>, a) = <<a>> /\ Append(<<a>>, b) = <<a, b>>
<1>1. <<a>> \in Seq(S) /\ Head(<<a>>) = a /\ <<a>> # <<>>
  OBVIOUS
<1>2. <<a, b>> \in Seq(S) /\ Head(<<a, b>>) = a /\ <<a, b>> # <<>>
  OBVIOUS
<1>3. Tail(<<a>>) = <<>>
  OBVIOUS
<1>4. Append(<<>>, a) = <<a>>
  OBVIOUS
<1>5. Tail(<<a, b>>) = <<b>>
  <2>1. /\ Tail(<<a, b>>) \in Seq(S) /\ Len(Tail(<<a, b>>)) = 1
        /\ Tail(<<a, b>>)[1] = b
    BY <1>2
  <2>2. <<b>> \in Seq(S) /\ Len(<<b>>) = 1 /\ <<b>>[1] = b
    OBVIOUS
  <2> QED
    BY <2>1, <2>2, SeqEqual
<1>6. Append(<<a>>, b) = <<a, b>>
  <2>1. /\ Append(<<a>>, b) \in Seq(S) /\ Len(Append(<<a>>, b)) = 2
        /\ Append(<<a>>, b)[1] = a /\ Append(<<a>>, b)[2] = b
    BY <1>1, AppendProperties
  <2>2. Len(<<a, b>>) = 2 /\ <<a, b>>[1] = a /\ <<a, b>>[2] = b
    OBVIOUS
  <2> DEFINE q == Append(<<a>>, b)
             r == <<a, b>>
  <2>3. q \in Seq(S) /\ r \in Seq(S) /\ Len(q) = 2 /\ Len(r) = 2 /\ q[1] = r[1] /\ q[2] = r[2]
    BY <1>2, <2>1, <2>2
  <2> HIDE DEF q, r
  <2>4. \A i \in 1 .. Len(q) : q[i] = r[i]
    BY <2>3
  <2>5. q = r
    BY <2>3, <2>4, SeqEqual
  <2> QED
    BY <2>5 DEF q, r
<1> QED
  BY <1>1, <1>2, <1>3, <1>4, <1>5, <1>6

\* The signals that one worker can leave in the inbox.
LEMMA SignalFacts ==
    ASSUME NEW m \in 1 .. MaxPrompts, NEW kind \in Kinds
    PROVE  LET answer == <<kind, m>>
               end == <<"finished", m>>
           IN  /\ answer \in Kinds \X (1 .. MaxPrompts)
               /\ <<answer>> \in Seq(Kinds \X (1 .. MaxPrompts))
               /\ Head(<<answer>>) = answer /\ Tail(<<answer>>) = <<>> /\ <<answer>> # <<>>
               /\ <<answer, end>> \in Seq(Kinds \X (1 .. MaxPrompts)) /\ <<answer, end>> # <<>>
               /\ Head(<<answer, end>>) = answer /\ Tail(<<answer, end>>) = <<end>>
               /\ Append(<<>>, answer) = <<answer>> /\ Append(<<answer>>, end) = <<answer, end>>
<1> DEFINE S == Kinds \X (1 .. MaxPrompts)
           answer == <<kind, m>>
           end == <<"finished", m>>
<1>1. answer \in S /\ end \in S
  BY DEF Kinds
<1> HIDE DEF S, answer, end
<1>2. /\ <<answer>> \in Seq(S) /\ Head(<<answer>>) = answer /\ Tail(<<answer>>) = <<>> /\ <<answer>> # <<>>
      /\ <<answer, end>> \in Seq(S) /\ Head(<<answer, end>>) = answer
      /\ Tail(<<answer, end>>) = <<end>> /\ <<answer, end>> # <<>>
      /\ Append(<<>>, answer) = <<answer>> /\ Append(<<answer>>, end) = <<answer, end>>
  BY <1>1, InboxFacts
<1> QED
  BY <1>1, <1>2 DEF S, answer, end

\* The backend's answer is on its way.
LEMMA AnswerInv ==
    ASSUME AgentInv, NEW k \in 1 .. MaxPrompts, NEW kind \in Kinds, Answer(k, kind)
    PROVE  AgentInv'
<1> USE DEF AgentInv
<1>1. /\ kind \in {"succeeded", "failed"} /\ thread[k] = "sending"
      /\ thread' = [thread EXCEPT ![k] = "answered"]
      /\ inbox' = Append(inbox, <<kind, k>>)
      /\ UNCHANGED <<app, Session, mine, busy, prompts, lost, history, Desk>>
      /\ thread \in [1 .. MaxPrompts -> ThreadStates]
  BY DEF Answer, AgentTypeOK
<1>2. k = mine /\ mine # 0 /\ inbox = <<>>
  <2>1. k = mine
    BY <1>1 DEF Custody
  <2>2. k # 0
    OBVIOUS
  <2> QED
    BY <1>1, <2>1, <2>2 DEF Custody, Pending
<1>3. /\ inbox' = <<<<kind, mine>>>> /\ inbox' \in Seq(Kinds \X (1 .. MaxPrompts))
      /\ inbox' # <<>> /\ Head(inbox') = <<kind, mine>>
  BY <1>1, <1>2, InboxFacts
<1>4. /\ thread' \in [1 .. MaxPrompts -> ThreadStates] /\ thread'[mine] = "answered"
      /\ \A p \in 1 .. MaxPrompts : p # mine => thread'[p] = thread[p]
      /\ \A p \in 1 .. MaxPrompts : thread'[p] # "none" <=> thread[p] # "none"
  BY <1>1, <1>2 DEF ThreadStates
<1>5. AgentTypeOK'
  BY <1>1, <1>3, <1>4 DEF AgentTypeOK, Session, Desk
<1>6. Custody'
  <2>1. Pending(mine)'
    BY <1>1, <1>3, <1>4 DEF Pending
  <2>2. app' # "gone"
    BY <1>1 DEF Custody
  <2> QED
    BY <1>1, <1>2, <1>4, <2>1, <2>2 DEF Custody, Session, Desk
<1>7. Awaited /\ Awaited'
  BY <1>1, <1>2, <1>3 DEF Awaited
<1> QED
  BY <1>1, <1>4, <1>5, <1>6, <1>7, NothingSaid

\* The thread that has answered ends.
LEMMA ThreadEndsInv ==
    ASSUME AgentInv, NEW k \in 1 .. MaxPrompts, ThreadEnds(k)
    PROVE  AgentInv'
<1> USE DEF AgentInv
<1>1. /\ thread[k] = "answered"
      /\ thread' = [thread EXCEPT ![k] = "over"]
      /\ inbox' = Append(inbox, <<"finished", k>>)
      /\ UNCHANGED <<app, Session, mine, busy, prompts, lost, history, Desk>>
      /\ thread \in [1 .. MaxPrompts -> ThreadStates]
  BY DEF ThreadEnds, AgentTypeOK
<1>2. k = mine /\ mine # 0
  <2>1. k = mine
    BY <1>1 DEF Custody
  <2>2. k # 0
    OBVIOUS
  <2> QED
    BY <2>1, <2>2
<1>3. \/ inbox = <<>>
      \/ \E kind \in {"succeeded", "failed"} : inbox = <<<<kind, mine>>>>
  BY <1>1, <1>2 DEF Custody, Pending
<1>4. ASSUME inbox = <<>>
      PROVE  /\ inbox' = <<<<"finished", mine>>>> /\ inbox' # <<>>
             /\ Head(inbox') = <<"finished", mine>>
             /\ inbox' \in Seq(Kinds \X (1 .. MaxPrompts))
  <2>1. "finished" \in Kinds
    BY DEF Kinds
  <2> QED
    BY <1>1, <1>2, <1>4, <2>1, SignalFacts
<1>5. ASSUME NEW kind \in {"succeeded", "failed"}, inbox = <<<<kind, mine>>>>
      PROVE  /\ inbox' = <<<<kind, mine>>, <<"finished", mine>>>>
             /\ inbox # <<>> /\ Head(inbox) = <<kind, mine>>
             /\ inbox' # <<>> /\ Head(inbox') = <<kind, mine>>
             /\ inbox' \in Seq(Kinds \X (1 .. MaxPrompts))
  <2>1. kind \in Kinds /\ mine \in 1 .. MaxPrompts
    BY <1>2 DEF Kinds
  <2>2. /\ <<<<kind, mine>>>> # <<>> /\ Head(<<<<kind, mine>>>>) = <<kind, mine>>
        /\ <<<<kind, mine>>, <<"finished", mine>>>> # <<>>
        /\ Head(<<<<kind, mine>>, <<"finished", mine>>>>) = <<kind, mine>>
        /\ <<<<kind, mine>>, <<"finished", mine>>>> \in Seq(Kinds \X (1 .. MaxPrompts))
        /\ Append(<<<<kind, mine>>>>, <<"finished", mine>>) = <<<<kind, mine>>, <<"finished", mine>>>>
    BY <2>1, SignalFacts
  <2>3. inbox' = <<<<kind, mine>>, <<"finished", mine>>>>
    BY <1>1, <1>2, <1>5, <2>2
  <2> QED
    BY <1>5, <2>2, <2>3
<1>6. /\ thread' \in [1 .. MaxPrompts -> ThreadStates] /\ thread'[mine] = "over"
      /\ \A p \in 1 .. MaxPrompts : p # mine => thread'[p] = thread[p]
      /\ \A p \in 1 .. MaxPrompts : thread'[p] # "none" <=> thread[p] # "none"
  BY <1>1, <1>2 DEF ThreadStates
<1>7. AgentTypeOK'
  BY <1>1, <1>3, <1>4, <1>5, <1>6 DEF AgentTypeOK, Session, Desk
<1>8. Custody'
  <2>1. \/ inbox' = <<<<"finished", mine>>>>
        \/ \E kind \in {"succeeded", "failed"} : inbox' = <<<<kind, mine>>, <<"finished", mine>>>>
    BY <1>3, <1>4, <1>5
  <2>3. thread'[mine'] = "over" /\ mine' = mine
    BY <1>1, <1>6
  <2>4. Pending(mine)'
    BY <2>1, <2>3 DEF Pending
  <2>2. app' # "gone"
    BY <1>1 DEF Custody
  <2> QED
    BY <1>1, <1>2, <1>6, <2>2, <2>4 DEF Custody, Session, Desk
<1>9. Awaited <=> Awaited'
  <2>1. CASE inbox = <<>>
    BY <1>1, <1>2, <1>4, <1>6, <2>1 DEF Awaited
  <2>2. ASSUME NEW kind \in {"succeeded", "failed"}, inbox = <<<<kind, mine>>>>
        PROVE  Awaited /\ Awaited'
    BY <1>5, <2>2 DEF Awaited
  <2> QED
    BY <1>3, <2>1, <2>2
<1> QED
  BY <1>1, <1>6, <1>7, <1>8, <1>9, NothingSaid

\* What the Qt thread finds at the head of the inbox tells how far the worker is.
LEMMA HeadFacts ==
    ASSUME AgentTypeOK, Custody, inbox # <<>>
    PROVE  /\ mine \in 1 .. MaxPrompts /\ mine = prompts /\ Head(inbox)[2] = mine
           /\ Head(inbox)[1] = "finished" => Tail(inbox) = <<>> /\ thread[mine] = "over"
           /\ Head(inbox)[1] # "finished" =>
                /\ Head(inbox)[1] \in {"succeeded", "failed"}
                /\ \/ Tail(inbox) = <<>> /\ thread[mine] = "answered"
                   \/ Tail(inbox) = <<<<"finished", mine>>>> /\ thread[mine] = "over"
<1>1. mine \in 1 .. MaxPrompts /\ mine = prompts /\ Pending(mine)
  BY AgentAssumption DEF AgentTypeOK, Custody
<1>2. ASSUME NEW kind \in {"succeeded", "failed"}, inbox = <<<<kind, mine>>>>
      PROVE  Head(inbox) = <<kind, mine>> /\ Tail(inbox) = <<>>
  BY <1>1, <1>2, SignalFacts DEF Kinds
<1>3. ASSUME NEW kind \in {"succeeded", "failed"}, inbox = <<<<kind, mine>>, <<"finished", mine>>>>
      PROVE  Head(inbox) = <<kind, mine>> /\ Tail(inbox) = <<<<"finished", mine>>>>
  <2>1. kind \in Kinds
    BY DEF Kinds
  <2> QED
    BY <1>1, <1>3, <2>1, SignalFacts
<1>4. ASSUME inbox = <<<<"finished", mine>>>>
      PROVE  Head(inbox) = <<"finished", mine>> /\ Tail(inbox) = <<>>
  <2>1. "finished" \in Kinds
    BY DEF Kinds
  <2> QED
    BY <1>1, <1>4, <2>1, SignalFacts
<1>5. CASE thread[mine] = "answered"
  <2>1. PICK kind \in {"succeeded", "failed"} : inbox = <<<<kind, mine>>>>
    BY <1>1, <1>5 DEF Pending
  <2>2. Head(inbox) = <<kind, mine>> /\ Tail(inbox) = <<>>
    BY <1>2, <2>1
  <2> QED
    BY <1>1, <1>5, <2>2
<1>6. CASE thread[mine] = "over" /\ inbox = <<<<"finished", mine>>>>
  BY <1>1, <1>4, <1>6
<1>7. CASE thread[mine] = "over" /\ inbox # <<<<"finished", mine>>>>
  <2>1. PICK kind \in {"succeeded", "failed"} : inbox = <<<<kind, mine>>, <<"finished", mine>>>>
    BY <1>1, <1>7 DEF Pending
  <2>2. Head(inbox) = <<kind, mine>> /\ Tail(inbox) = <<<<"finished", mine>>>>
    BY <1>3, <2>1
  <2> QED
    BY <1>1, <1>7, <2>2
<1>8. thread[mine] \in {"answered", "over"}
  BY <1>1 DEF Pending
<1> QED
  BY <1>5, <1>6, <1>7, <1>8

\* The answer is recorded, with whatever its commands did to the canvases.
LEMMA ReplyInv == AgentInv /\ (Succeeded \/ Failed) => AgentInv'
<1> SUFFICES ASSUME AgentInv, Succeeded \/ Failed PROVE AgentInv'
  OBVIOUS
<1> USE DEF AgentInv
<1> DEFINE n == Len(transcript)
           reply == Turn("agent", mine, active)
<1>1. /\ inbox # <<>> /\ Head(inbox)[1] \in {"succeeded", "failed"} /\ inbox' = Tail(inbox)
      /\ app = "running"
      /\ transcript' = Append(transcript, Turn("agent", Head(inbox)[2], active))
      /\ opened' \subseteq Canvases /\ active' \in opened' \cup {NoCanvas}
      /\ UNCHANGED <<app, world, thread, mine, busy, prompts, lost, history>>
  BY DEF Succeeded, Failed, Handling, Rearranged, Replied, Desk, AgentTypeOK
<1>2. /\ mine \in 1 .. MaxPrompts /\ mine = prompts /\ Head(inbox)[2] = mine
      /\ \/ inbox' = <<>> /\ thread[mine] = "answered"
         \/ inbox' = <<<<"finished", mine>>>> /\ thread[mine] = "over"
  BY <1>1, HeadFacts
<1>3. Awaited /\ mine # 0
  BY <1>1, <1>2 DEF Awaited
<1>4. inbox' \in Seq(Kinds \X (1 .. MaxPrompts)) /\ ~ Awaited'
  <2>1. "finished" \in Kinds
    BY DEF Kinds
  <2>2. CASE inbox' = <<>>
    <3>1. <<>> \in Seq(Kinds \X (1 .. MaxPrompts)) /\ thread'[mine'] = "answered"
      BY <1>1, <1>2, <2>2
    <3> QED
      BY <2>2, <3>1 DEF Awaited
  <2>3. CASE inbox' = <<<<"finished", mine>>>> /\ thread[mine] = "over"
    <3>1. Head(inbox') = <<"finished", mine>> /\ inbox' \in Seq(Kinds \X (1 .. MaxPrompts))
      BY <1>2, <2>1, <2>3, SignalFacts
    <3> QED
      BY <1>1, <2>3, <3>1 DEF Awaited
  <2> QED
    BY <1>2, <2>2, <2>3
<1>5. /\ reply \in Turns /\ reply.role = "agent" /\ reply.prompt = mine
      /\ transcript' = Append(transcript, reply)
  BY <1>1, <1>2 DEF Turn, Turns, Roles, AgentTypeOK
<1>6. /\ n \in Nat /\ transcript \in Seq(Turns) /\ DOMAIN transcript = 1 .. n
      /\ transcript' \in Seq(Turns) /\ Len(transcript') = n + 1 /\ DOMAIN transcript' = 1 .. n + 1
      /\ \A k \in 1 .. n : transcript'[k] = transcript[k]
      /\ transcript'[n + 1] = reply
  <2>1. transcript \in Seq(Turns)
    BY DEF AgentTypeOK
  <2> HIDE DEF reply
  <2>2. /\ transcript' \in Seq(Turns) /\ Len(transcript') = n + 1
        /\ \A k \in 1 .. n : transcript'[k] = transcript[k]
        /\ transcript'[n + 1] = reply
    BY <1>5, <2>1, AppendProperties
  <2> QED
    BY <2>1, <2>2, LenProperties
<1> HIDE DEF n, reply
<1>7. /\ \A k \in DOMAIN transcript' :
            \/ k \in DOMAIN transcript /\ transcript'[k] = transcript[k]
            \/ k = n + 1
      /\ \A k \in DOMAIN transcript :
            k \in DOMAIN transcript' /\ transcript'[k] = transcript[k] /\ k < n + 1
      /\ n + 1 \in DOMAIN transcript'
      /\ transcript'[n + 1].role = "agent" /\ transcript'[n + 1].prompt = mine
  BY <1>5, <1>6
<1>8. \A k \in DOMAIN transcript :
        /\ transcript[k].prompt \in Nat /\ transcript[k].prompt <= mine
        /\ transcript[k].role = "agent" => transcript[k].prompt # mine
  <2> TAKE k \in DOMAIN transcript
  <2>1. transcript[k] \in Turns
    BY <1>6, ElementOfSeq
  <2>2. transcript[k].prompt <= mine
    BY <1>2 DEF Answers
  <2>3. ~ \E r \in DOMAIN transcript : IsTurn(r, "agent", mine)
    BY <1>2, <1>3 DEF Answers
  <2> QED
    BY <2>1, <2>2, <2>3 DEF IsTurn, Turns
<1>9. AgentTypeOK'
  BY <1>1, <1>4, <1>6 DEF AgentTypeOK
<1>10. Custody'
  <2>1. Pending(mine)'
    BY <1>1, <1>2 DEF Pending
  <2> QED
    BY <1>1, <1>3, <2>1 DEF Custody
<1>11. Answers'
  <2>1. \A k \in DOMAIN transcript' : transcript'[k].prompt <= prompts'
    <3> TAKE k \in DOMAIN transcript'
    <3>1. mine <= mine
      BY <1>2
    <3> QED
      BY <1>1, <1>2, <1>7, <1>8, <3>1
  <2>2. \A j, k \in DOMAIN transcript' :
            /\ transcript'[j].role = "agent" /\ transcript'[k].role = "agent"
            /\ transcript'[j].prompt = transcript'[k].prompt
            => j = k
    BY <1>7, <1>8 DEF Answers
  <2>3. \A r, k \in DOMAIN transcript' :
            /\ transcript'[r].role = "agent" /\ transcript'[k].role = "user"
            => IF transcript'[k].prompt > transcript'[r].prompt THEN r < k
               ELSE transcript'[k].prompt = transcript'[r].prompt => k < r
    <3> SUFFICES ASSUME NEW r \in DOMAIN transcript', NEW k \in DOMAIN transcript',
                        transcript'[r].role = "agent", transcript'[k].role = "user"
                 PROVE  IF transcript'[k].prompt > transcript'[r].prompt THEN r < k
                        ELSE transcript'[k].prompt = transcript'[r].prompt => k < r
      OBVIOUS
    <3>1. k \in DOMAIN transcript /\ transcript'[k] = transcript[k]
      BY <1>7
    <3>2. CASE r = n + 1
      <4>1. transcript'[r].prompt = mine /\ mine \in Nat
        BY <1>2, <1>7, <3>2
      <4>2. ~ (transcript'[k].prompt > transcript'[r].prompt)
        BY <1>8, <3>1, <4>1
      <4> QED
        BY <1>7, <3>1, <3>2, <4>2
    <3>3. CASE r # n + 1
      <4>1. r \in DOMAIN transcript /\ transcript'[r] = transcript[r]
        BY <1>7, <3>3
      <4> QED
        BY <3>1, <4>1 DEF Answers
    <3> QED
      BY <3>2, <3>3
  <2>4. \A q \in 1 .. MaxPrompts :
            (\E r \in DOMAIN transcript' : IsTurn(r, "agent", q)')
                <=> thread'[q] # "none" /\ (q = mine' => ~ Awaited')
    <3> TAKE q \in 1 .. MaxPrompts
    <3>1. CASE q = mine
      <4>1. transcript'[n + 1].role = "agent" /\ transcript'[n + 1].prompt = q
        BY <1>7, <3>1
      <4>2. thread'[q] # "none"
        BY <1>1, <1>2, <3>1
      <4> QED
        BY <1>4, <1>7, <4>1, <4>2 DEF IsTurn
    <3>2. CASE q # mine
      <4>1. (\E r \in DOMAIN transcript' : IsTurn(r, "agent", q)')
              <=> \E r \in DOMAIN transcript : IsTurn(r, "agent", q)
        <5>1. ASSUME NEW r \in DOMAIN transcript', IsTurn(r, "agent", q)'
              PROVE  r \in DOMAIN transcript /\ IsTurn(r, "agent", q)
          BY <1>7, <3>2, <5>1 DEF IsTurn
        <5>2. ASSUME NEW r \in DOMAIN transcript, IsTurn(r, "agent", q)
              PROVE  r \in DOMAIN transcript' /\ IsTurn(r, "agent", q)'
          BY <1>7, <5>2 DEF IsTurn
        <5> QED
          BY <5>1, <5>2
      <4> QED
        BY <1>1, <3>2, <4>1 DEF Answers
    <3> QED
      BY <3>1, <3>2
  <2> QED
    BY <2>1, <2>2, <2>3, <2>4 DEF Answers
<1>12. Marks'
  <2> SUFFICES ASSUME NEW i \in DOMAIN transcript', transcript'[i].role = "user",
                      transcript'[i].world # world
               PROVE  \E k \in DOMAIN transcript' : i < k /\ transcript'[k].role = "marker"
    BY <1>1 DEF Marks
  <2>1. i \in DOMAIN transcript /\ transcript'[i] = transcript[i]
    BY <1>7
  <2>2. PICK k \in DOMAIN transcript : i < k /\ transcript[k].role = "marker"
    BY <2>1 DEF Marks
  <2> QED
    BY <1>7, <2>2
<1>13. SwitchesMarked'
  <2> SUFFICES ASSUME NEW i \in DOMAIN transcript', NEW j \in DOMAIN transcript', i < j,
                      transcript'[i].role = "user", transcript'[j].role = "user",
                      transcript'[i].world # transcript'[j].world
               PROVE  \E k \in i .. j : transcript'[k].role = "marker"
    BY DEF SwitchesMarked
  <2>1. /\ i \in DOMAIN transcript /\ transcript'[i] = transcript[i]
        /\ j \in DOMAIN transcript /\ transcript'[j] = transcript[j]
    BY <1>7
  <2>2. PICK k \in i .. j : transcript[k].role = "marker"
    BY <2>1 DEF SwitchesMarked
  <2>3. k \in DOMAIN transcript
    BY <1>6, <2>1
  <2> QED
    BY <1>7, <2>2, <2>3
<1>14. Replays'
  <2> SUFFICES ASSUME NEW q \in 1 .. MaxPrompts, thread[q] # "none"
               PROVE  /\ \A k \in DOMAIN history[q] : history[q][k].prompt < q
                      /\ \A r \in DOMAIN transcript' :
                            transcript'[r].role = "agent" /\ transcript'[r].prompt < q
                                => \E k \in DOMAIN history[q] : history[q][k] = transcript'[r]
    BY <1>1 DEF Replays
  <2>1. ~ (mine < q)
    BY <1>2 DEF Custody
  <2> QED
    BY <1>7, <2>1 DEF Replays
<1> QED
  BY <1>9, <1>10, <1>11, <1>12, <1>13, <1>14

\* The worker is let go: its answer has been handled before.
LEMMA WorkerFinishedInv == AgentInv /\ WorkerFinished => AgentInv'
<1> SUFFICES ASSUME AgentInv, WorkerFinished PROVE AgentInv'
  OBVIOUS
<1> USE DEF AgentInv
<1>1. /\ app = "running" /\ inbox # <<>> /\ Head(inbox)[1] = "finished" /\ inbox' = Tail(inbox)
      /\ mine' = 0 /\ busy' = FALSE
      /\ UNCHANGED <<app, Session, thread, prompts, lost, history, Desk>>
  BY DEF WorkerFinished, Handling
<1>2. /\ mine \in 1 .. MaxPrompts /\ mine = prompts /\ inbox' = <<>> /\ thread[mine] = "over"
  BY <1>1, HeadFacts
<1>3. ~ Awaited
  BY <1>1, <1>2 DEF Awaited
<1>4. AgentTypeOK'
  <2>1. <<>> \in Seq(Kinds \X (1 .. MaxPrompts))
    OBVIOUS
  <2>2. 0 \in 0 .. MaxPrompts
    BY AgentAssumption
  <2> QED
    BY <1>1, <1>2, <2>1, <2>2 DEF AgentTypeOK, Session, Desk
<1>5. Custody'
  BY <1>1, <1>2 DEF Custody
<1>6. \A p \in 1 .. MaxPrompts : p # mine'
  BY <1>1
<1> QED
  BY <1>1, <1>3, <1>4, <1>5, <1>6, NothingSaid

\* What the console does not take part in: the user's canvases, and what the
\* application and the inspector do.
LEMMA BystanderInv ==
    ASSUME AgentInv,
           UNCHANGED <<transcript, world, thread, mine, busy, inbox, prompts, lost, history>>,
           opened' \subseteq Canvases, active' \in opened' \cup {NoCanvas},
           app' = "gone" => app = "gone" \/ Joined
    PROVE  AgentInv'
<1> USE DEF AgentInv
<1>1. AgentTypeOK'
  BY DEF AgentTypeOK
<1>2. Custody'
  <2>1. mine' # 0 => mine' = prompts' /\ Pending(mine)'
    BY DEF Custody, Pending
  <2>2. app' = "gone" => \A p \in 1 .. MaxPrompts : thread'[p] \in {"none", "over"}
    <3> SUFFICES ASSUME app' = "gone", NEW p \in 1 .. MaxPrompts
                 PROVE  thread'[p] \in {"none", "over"}
      OBVIOUS
    <3>1. p # 0
      OBVIOUS
    <3> QED
      BY <3>1 DEF Custody, Joined
  <2> QED
    BY <2>1, <2>2 DEF Custody
<1>3. Awaited' <=> Awaited
  BY DEF Awaited
<1> QED
  BY <1>1, <1>2, <1>3, NothingSaid DEF Session

\* Every step of the console.
LEMMA AgentNextInv == AgentInv /\ AgentNext => AgentInv'
<1> SUFFICES ASSUME AgentInv, AgentNext PROVE AgentInv'
  OBVIOUS
<1>1. CASE \E backend \in BOOLEAN : Submit(backend)
  BY <1>1, SubmitInv
<1>2. CASE \E k \in 1 .. MaxPrompts, kind \in Kinds : Answer(k, kind)
  BY <1>2, AnswerInv
<1>3. CASE \E k \in 1 .. MaxPrompts : ThreadEnds(k)
  BY <1>3, ThreadEndsInv
<1>4. CASE Succeeded \/ Failed
  BY <1>4, ReplyInv
<1>5. CASE WorkerFinished
  BY <1>5, WorkerFinishedInv
<1>6. CASE Arrange
  BY <1>6, BystanderInv DEF Arrange, Rearranged, Session
<1>7. CASE LeaveLoop
  <2>1. AgentTypeOK
    BY DEF AgentInv
  <2> QED
    BY <1>7, <2>1, BystanderInv DEF LeaveLoop, agentVars, AgentTypeOK
<1> QED
  BY <1>1, <1>2, <1>3, <1>4, <1>5, <1>6, <1>7 DEF AgentNext

-----------------------------------------------------------------------------
(* The two together. *)

\* Both invariants hold from the start.
LEMMA InitIInv == Init => IInv
  BY BenchInitInv, AgentInitInv DEF Init, IInv

\* A step of one panel is none of the other, except that the application they
\* share is left by the one and gone by the other.
LEMMA NextIInv == IInv /\ [Next]_vars => IInv'
<1> SUFFICES ASSUME IInv, [Next]_vars PROVE IInv'
  OBVIOUS
<1> USE DEF IInv
<1>1. CASE BenchNext /\ UNCHANGED agentVars
  <2>1. BenchInv'
    BY <1>1, BenchNextInv
  <2>2. app' = "gone" => app = "gone"
    BY <1>1 DEF BenchNext, Run, StopRun, CloseInspector, OpenInspector, FailToStart, SendRequest,
                ReadyRead, StreamError, Finished, TimerFires, Quit, QuitOn, Work
  <2>3. AgentTypeOK
    BY DEF AgentInv
  <2>4. AgentInv'
    BY <1>1, <2>2, <2>3, BystanderInv DEF agentVars, AgentTypeOK
  <2> QED
    BY <2>1, <2>4
<1>2. CASE AgentNext /\ UNCHANGED benchVars
  <2>1. AgentInv'
    BY <1>2, AgentNextInv
  <2>2. app' = app \/ (app = "left" /\ app' = "gone")
    BY <1>2 DEF AgentNext, Submit, Answer, ThreadEnds, Succeeded, Failed, WorkerFinished,
                Handling, Arrange, LeaveLoop
  <2>3. BenchInv'
    <3>1. BenchTypes'
      BY <1>2, <2>2 DEF BenchInv, BenchTypes, benchVars, AppStates
    <3>2. Steady(ui', proc')
      BY <1>2 DEF BenchInv, benchVars
    <3>3. Sound'
      BY <1>2, <2>2 DEF BenchInv, Sound, SaveIsShown, benchVars, IsPartial
    <3> QED
      BY <3>1, <3>2, <3>3 DEF BenchInv
  <2> QED
    BY <2>1, <2>3
<1>3. CASE UNCHANGED vars
  <2>1. UNCHANGED <<app, benchVars, agentVars>>
    BY <1>3 DEF vars
  <2>2. BenchInv'
    BY <2>1 DEF BenchInv, BenchTypes, Steady, Sound, SaveIsShown, benchVars, IsPartial
  <2>3. AgentTypeOK /\ Custody
    BY DEF AgentInv
  <2>4. AgentInv'
    BY <2>1, <2>3, BystanderInv DEF agentVars, AgentTypeOK
  <2> QED
    BY <2>2, <2>4
<1> QED
  BY <1>1, <1>2, <1>3 DEF Next

\* The invariant of both panels, always.
LEMMA AlwaysIInv == Spec => []IInv
  BY InitIInv, NextIInv, PTL DEF Spec

\* The panels show what their workers are doing: a result on offer is the one on
\* display, the inputs are locked exactly while something is left that will end
\* the run, and when the process is gone neither a child nor a backend call is
\* left behind.
THEOREM PanelsShowTheirWork == Spec => []PanelsInStep
<1>1. IInv => PanelsInStep
  <2> SUFFICES ASSUME IInv PROVE PanelsInStep
    OBVIOUS
  <2> USE DEF IInv, BenchInv
  <2>1. TypeOK
    <3>1. BenchTypeOK
      <4>1. \A f \in Flags : ui[f] \in BOOLEAN
        BY DEF BenchTypes, Uis, Flags
      <4>2. ui.shown \in NoRun .. MaxRuns /\ ui.outcomes \in Seq(Outcomes) /\ ui.started \in 0 .. MaxRuns
        BY DEF BenchTypes, Uis
      <4> QED
        BY <4>1, <4>2 DEF BenchTypeOK, BenchTypes, Flags
    <3> QED
      BY <3>1 DEF TypeOK, BenchTypes, AgentInv
  <2>2. SaveIsShown
    BY DEF Sound
  <2>3. LockedWhileRunning
    BY DEF LockedWhileRunning, Steady
  <2>4. NobodyLeft
    <3>1. app = "gone" => proc = "none"
      BY DEF Sound
    <3>2. \A p \in 1 .. prompts : p \in 1 .. MaxPrompts
      <4>1. prompts \in 0 .. MaxPrompts
        BY DEF AgentInv, AgentTypeOK
      <4> QED
        BY <4>1, AgentAssumption
    <3> QED
      BY <3>1, <3>2 DEF NobodyLeft, NoThreadLeft, AgentInv, Custody
  <2> QED
    BY <2>1, <2>2, <2>3, <2>4 DEF PanelsInStep
<1> QED
  BY <1>1, AlwaysIInv, PTL

\* The transcript is a conversation: no prompt is dropped, each is answered once
\* and in its place, prompts about different worlds have a marker between them,
\* and a backend is told all that was answered before its prompt and nothing of
\* it or after it.
THEOREM ConversationIsKept == Spec => []Conversation
<1>1. IInv => Conversation
  <2> SUFFICES ASSUME IInv PROVE Conversation
    OBVIOUS
  <2> USE DEF IInv, AgentInv
  <2>1. NothingDropped
    BY DEF NothingDropped, Custody
  <2>2. /\ \A p \in 1 .. prompts : p \in 1 .. MaxPrompts
        /\ \A k \in DOMAIN transcript : k \in Nat /\ transcript[k].prompt \in Nat
    <3>1. prompts \in 0 .. MaxPrompts /\ transcript \in Seq(Turns)
      BY DEF AgentTypeOK
    <3>2. \A k \in DOMAIN transcript : k \in Nat /\ transcript[k] \in Turns
      BY <3>1, ElementOfSeq, LenProperties
    <3> QED
      BY <3>1, <3>2, AgentAssumption DEF Turns
  <2>3. OneReply
    <3> SUFFICES ASSUME NEW p \in 1 .. prompts
                 PROVE  LET asked == {k \in DOMAIN transcript : IsTurn(k, "user", p)}
                            replies == {k \in DOMAIN transcript : IsTurn(k, "agent", p)}
                            later == {k \in DOMAIN transcript :
                                        transcript[k].role = "user" /\ transcript[k].prompt > p}
                        IN  /\ Cardinality(replies) <= 1
                            /\ thread[p] # "none" /\ mine # p => Cardinality(replies) = 1
                            /\ \A r \in replies : \A a \in asked : a < r
                            /\ \A r \in replies : \A n \in later : r < n
      BY DEF OneReply
    <3> DEFINE asked == {k \in DOMAIN transcript : IsTurn(k, "user", p)}
               replies == {k \in DOMAIN transcript : IsTurn(k, "agent", p)}
               later == {k \in DOMAIN transcript :
                            transcript[k].role = "user" /\ transcript[k].prompt > p}
    <3>1. \A j, k \in replies : j = k
      BY DEF Answers, IsTurn
    <3>2. \A r \in replies : \A a \in asked : a < r
      <4> TAKE r \in replies
      <4> TAKE a \in asked
      <4>1. /\ transcript[r].role = "agent" /\ transcript[r].prompt = p
            /\ transcript[a].role = "user" /\ transcript[a].prompt = p
        BY DEF IsTurn
      <4>2. ~ (p > p)
        BY <2>2
      <4> QED
        BY <4>1, <4>2 DEF Answers
    <3>3. \A r \in replies : \A n \in later : r < n
      BY DEF Answers, IsTurn
    <3>4. thread[p] # "none" /\ mine # p => replies # {}
      BY <2>2 DEF Answers
    <3> HIDE DEF replies
    <3>5. CASE replies = {}
      <4>1. Cardinality(replies) = 0
        BY <3>5, FS_EmptySet
      <4> QED
        BY <3>2, <3>3, <3>4, <3>5, <4>1 DEF replies
    <3>6. CASE replies # {}
      <4>1. PICK r : replies = {r}
        BY <3>1, <3>6
      <4>2. Cardinality(replies) = 1
        BY <4>1, FS_Singleton
      <4> QED
        BY <3>2, <3>3, <4>2 DEF replies
    <3> QED
      BY <3>5, <3>6
  <2>4. HistoryBefore
    BY <2>2 DEF HistoryBefore, Replays, Contains
  <2> QED
    BY <2>1, <2>3, <2>4 DEF Conversation
<1> QED
  BY <1>1, AlwaysIInv, PTL

-----------------------------------------------------------------------------
(* How a run ends. *)

\* Only the end of the child and the timer end a run and record an outcome.
LEMMA WhatEndsARun ==
    ASSUME BenchInv, BenchNext
    PROVE  \/ Finished \/ TimerFires
           \/ ui'.outcomes = ui.outcomes /\ (ui.running => ui'.running)
<1>1. ui \in Uis /\ lines \in Seq(Lines)
  BY DEF BenchInv, BenchTypes
<1>2. /\ \A f \in DOMAIN ui \ {"cancelled", "killed"} : Stop(ui)[f] = ui[f]
      /\ \A f \in DOMAIN ui \ {"cancelled", "killed", "closing", "open"} : Close(ui)[f] = ui[f]
      /\ \A f \in DOMAIN ui \ {"error", "killed"} : Fail(ui)[f] = ui[f]
      /\ \A f \in DOMAIN ui \ {"error", "killed", "result"} : ReadStdout(ui, lines)[f] = ui[f]
      /\ Fail(ui) \in Uis
  BY <1>1, StopFacts, CloseFacts, FailFacts, ReadFacts
<1>3. "running" \in DOMAIN ui /\ "outcomes" \in DOMAIN ui
  BY <1>1 DEF Uis
<1>4. CASE Run
  <2> DEFINE fresh == [ui EXCEPT !.running = TRUE, !.cancelled = FALSE,
                          !.error = FALSE, !.result = FALSE, !.killed = FALSE,
                          !.started = @ + 1]
  <2>1. ui' = Locked(fresh) \/ ui' = Locked(ProcessError(fresh, TRUE))
    BY <1>4 DEF Run
  <2>2. Locked(fresh).outcomes = ui.outcomes /\ Locked(ProcessError(fresh, TRUE)).outcomes = ui.outcomes
    BY <1>1 DEF Locked, ProcessError, Fail, Uis
  <2>3. ~ ui.running
    BY <1>4 DEF Run
  <2> QED
    BY <2>1, <2>2, <2>3
<1>5. CASE StopRun \/ Quit
  BY <1>2, <1>3, <1>5 DEF StopRun, Quit
<1>6. CASE CloseInspector \/ QuitOn
  BY <1>2, <1>3, <1>6 DEF CloseInspector, QuitOn
<1>7. CASE OpenInspector \/ SendRequest
  BY <1>1, <1>7 DEF OpenInspector, SendRequest, Uis
<1>8. CASE FailToStart \/ StreamError
  <2>1. PICK failedToStart \in BOOLEAN : ui' = [Fail(ui) EXCEPT !.armed = @ \/ failedToStart]
    BY <1>8 DEF FailToStart, StreamError, ProcessError
  <2>2. ui'.running = Fail(ui).running /\ ui'.outcomes = Fail(ui).outcomes
    BY <1>2, <2>1 DEF Uis
  <2> QED
    BY <1>2, <1>3, <2>2
<1>9. CASE ReadyRead
  BY <1>2, <1>3, <1>9 DEF ReadyRead
<1>10. CASE Work
  BY <1>10 DEF Work
<1> QED
  BY <1>4, <1>5, <1>6, <1>7, <1>8, <1>9, <1>10 DEF BenchNext

\* The last element of a sequence is the one appended.
LEMMA LastOfAppend ==
    ASSUME NEW S, NEW s \in Seq(S), NEW x \in S
    PROVE  Last(Append(s, x)) = x
<1>1. Append(s, x) \in Seq(S) /\ Len(Append(s, x)) = Len(s) + 1 /\ Append(s, x)[Len(s) + 1] = x
  BY AppendProperties
<1> QED
  BY <1>1 DEF Last

\* One outcome ends a run: "stopped" if the user had asked for it, "completed" only
\* after a clean exit of a worker that reported its own artifact.
LEMMA EndingFacts ==
    ASSUME BenchInv, Finished \/ TimerFires
    PROVE  \E outcome \in Outcomes :
                /\ ui'.outcomes = Append(ui.outcomes, outcome)
                /\ ui.cancelled => outcome = "stopped"
                /\ outcome = "completed" =>
                     /\ worker = "reported" /\ proc = "dead" /\ artifact = ui.started
                     /\ \A k \in DOMAIN lines : lines[k] \in {"progress", "result"}
<1> USE DEF BenchInv
<1>1. /\ ui \in Uis /\ lines \in Seq(Lines) /\ artifact \in NoRun .. MaxRuns
      /\ ui.running /\ ~ ui.saveable /\ (ui.closing => ui.open)
  BY DEF BenchTypes, Steady, Finished, TimerFires
<1>2. DOMAIN ui = Flags \cup {"shown", "started", "outcomes"}
  BY <1>1 DEF Uis, Flags
<1>3. CASE TimerFires
  <2> DEFINE ended == Finish(ui, lines, FALSE, TRUE)
  <2>1. /\ ended \in Uis
        /\ \E outcome \in Outcomes :
             /\ ended.outcomes = Append(ui.outcomes, outcome)
             /\ ui.cancelled => outcome = "stopped"
             /\ outcome # "completed"
    BY <1>1, FinishFacts
  <2>2. ui' = [ended EXCEPT !.armed = FALSE]
    BY <1>3 DEF TimerFires
  <2> HIDE DEF ended
  <2>3. ui'.outcomes = ended.outcomes
    BY <2>1, <2>2 DEF Uis
  <2> QED
    BY <2>1, <2>3
<1>4. CASE Finished
  <2> DEFINE read == ReadStdout(ui, lines)
             told == IF worker = "crashed" THEN ProcessError(read, FALSE) ELSE read
             clean == worker = "reported"
             left == Unread(lines)
  <2>1. PICK loads \in BOOLEAN : ui' = Finish(told, left, clean, loads)
    BY <1>4 DEF Finished
  <2>2. /\ read \in Uis
        /\ \A f \in DOMAIN ui \ {"error", "killed", "result"} : read[f] = ui[f]
        /\ ~ ui.cancelled /\ ~ read.error
             => \A k \in DOMAIN lines : lines[k] \in {"progress", "result", "partial"}
    BY <1>1, ReadFacts
  <2>3. DOMAIN read = DOMAIN ui
    BY <1>1, <2>2 DEF Uis
  <2> HIDE DEF read
  <2>4. /\ told \in Uis
        /\ told.running /\ ~ told.saveable /\ (told.closing => told.open)
        /\ told.cancelled = ui.cancelled /\ told.outcomes = ui.outcomes
        /\ ~ told.error => ~ read.error
    <3>1. /\ Fail(read) \in Uis /\ Fail(read).error
          /\ \A f \in DOMAIN read \ {"error", "killed"} : Fail(read)[f] = read[f]
      BY <2>2, FailFacts
    <3>2. CASE worker = "crashed"
      <4>1. told = Fail(read)
        BY <3>1, <3>2 DEF ProcessError, Uis
      <4> QED
        BY <1>1, <1>2, <2>2, <2>3, <3>1, <4>1 DEF Flags
    <3>3. CASE worker # "crashed"
      BY <1>1, <1>2, <2>2, <3>3 DEF Flags
    <3> QED
      BY <3>2, <3>3
  <2>5. left \in Seq(Lines) /\ (left = <<>> => lines = <<>> \/ ~ IsPartial(lines[Len(lines)]))
    BY <1>1, UnreadFacts
  <2>6. Unread(left) = <<>> => left = <<>>
    <3>1. CASE lines = <<>>
      BY <3>1 DEF Unread
    <3>2. CASE lines # <<>>
      <4> DEFINE x == Last(lines)
      <4>1. x \in Lines
        BY <1>1, <3>2, ElementOfSeq, LenProperties DEF Last
      <4> HIDE DEF x
      <4>2. <<x>> # <<>> /\ Last(<<x>>) = x
        BY DEF Last
      <4>3. left = IF IsPartial(x) THEN <<x>> ELSE <<>>
        BY <3>2 DEF Unread, x
      <4> HIDE DEF left
      <4> QED
        BY <4>2, <4>3 DEF Unread
    <3> QED
      BY <3>1, <3>2
  <2>7. clean \in BOOLEAN /\ (clean <=> worker = "reported")
    OBVIOUS
  <2> HIDE DEF told, left, clean
  <2>8. PICK outcome \in Outcomes :
            /\ ui'.outcomes = Append(told.outcomes, outcome)
            /\ told.cancelled => outcome = "stopped"
            /\ outcome = "completed" =>
                 /\ ~ told.cancelled /\ ~ told.error
                 /\ clean /\ Unread(left) = <<>>
    BY SMTT(30), <1>1, <2>1, <2>4, <2>5, <2>7, FinishFacts
  <2>9. ASSUME outcome = "completed"
        PROVE  /\ worker = "reported" /\ proc = "dead" /\ artifact = ui.started
               /\ \A k \in DOMAIN lines : lines[k] \in {"progress", "result"}
    <3>1. worker = "reported" /\ proc = "dead" /\ artifact = ui.started
      BY <1>4, <2>7, <2>8, <2>9 DEF Finished, Sound
    <3>2. \A k \in DOMAIN lines : lines[k] \in {"progress", "result", "partial"}
      BY <2>2, <2>4, <2>8, <2>9
    <3>3. lines = <<>> \/ ~ IsPartial(lines[Len(lines)])
      BY <2>5, <2>6, <2>8, <2>9
    <3>4. \A k \in DOMAIN lines : ~ IsPartial(lines[k])
      BY <3>3 DEF Sound
    <3> QED
      BY <3>1, <3>2, <3>4 DEF IsPartial
  <2> QED
    BY <2>4, <2>8, <2>9
<1> QED
  BY <1>3, <1>4

\* How a run ends is the truth about it: a stopped run neither completes nor
\* fails, a completed one is a clean one, and a quit is taken back only for a child
\* that failed to start and whose timer has not fired.
THEOREM EndingsAreTruthful == Spec => TruthfulEnding
<1>1. IInv /\ [Next]_vars =>
        [ui.running /\ ui.cancelled /\ ~ ui'.running => Last(ui'.outcomes) = "stopped"]_benchVars
  <2> SUFFICES ASSUME IInv, [Next]_vars, ~ UNCHANGED benchVars,
                      ui.running, ui.cancelled, ~ ui'.running
               PROVE  Last(ui'.outcomes) = "stopped"
    OBVIOUS
  <2>1. BenchInv /\ BenchNext
    BY DEF IInv, Next, vars
  <2>2. ui'.outcomes = Append(ui.outcomes, "stopped")
    BY <2>1, WhatEndsARun, EndingFacts
  <2>3. ui.outcomes \in Seq(Outcomes) /\ "stopped" \in Outcomes
    BY <2>1 DEF BenchInv, BenchTypes, Uis, Outcomes
  <2> QED
    BY <2>2, <2>3, LastOfAppend
<1>2. IInv /\ [Next]_vars =>
        [Len(ui'.outcomes) > Len(ui.outcomes) /\ Last(ui'.outcomes) = "completed"
          => /\ worker = "reported" /\ proc = "dead"
             /\ artifact = ui.started
             /\ \A k \in DOMAIN lines : lines[k] \in {"progress", "result"}]_benchVars
  <2> SUFFICES ASSUME IInv, [Next]_vars, ~ UNCHANGED benchVars,
                      Len(ui'.outcomes) > Len(ui.outcomes), Last(ui'.outcomes) = "completed"
               PROVE  /\ worker = "reported" /\ proc = "dead"
                      /\ artifact = ui.started
                      /\ \A k \in DOMAIN lines : lines[k] \in {"progress", "result"}
    OBVIOUS
  <2>1. BenchInv /\ BenchNext
    BY DEF IInv, Next, vars
  <2>2. ui.outcomes \in Seq(Outcomes)
    BY <2>1 DEF BenchInv, BenchTypes, Uis
  <2>3. ui'.outcomes # ui.outcomes
    BY <2>2, LenProperties
  <2>4. PICK outcome \in Outcomes :
            /\ ui'.outcomes = Append(ui.outcomes, outcome)
            /\ outcome = "completed" =>
                 /\ worker = "reported" /\ proc = "dead" /\ artifact = ui.started
                 /\ \A k \in DOMAIN lines : lines[k] \in {"progress", "result"}
    BY <2>1, <2>3, WhatEndsARun, EndingFacts
  <2>5. Last(ui'.outcomes) = outcome
    BY <2>2, <2>4, LastOfAppend
  <2> QED
    BY <2>4, <2>5
<1>3. IInv /\ [Next]_vars => [app = "quitting" /\ app' = "running" => ui.armed]_<<app, ui>>
  <2> SUFFICES ASSUME IInv, [Next]_vars, app = "quitting", app' = "running" PROVE ui.armed
    OBVIOUS
  <2>1. QuitOn
    BY DEF vars, Next, BenchNext, Run, StopRun, CloseInspector, OpenInspector, FailToStart,
           SendRequest, ReadyRead, StreamError, Finished, TimerFires, Quit, Work,
           AgentNext, Submit, Answer, ThreadEnds, Succeeded, Failed, WorkerFinished,
           Handling, Arrange, LeaveLoop
  <2>2. ui \in Uis /\ proc = "none" /\ ui'.closing
    BY <2>1 DEF IInv, BenchInv, BenchTypes, QuitOn, Waited
  <2>3. ui.running
    <3>1. CASE ui.open
      BY <2>1, <2>2, <3>1, CloseFacts DEF QuitOn
    <3>2. CASE ~ ui.open
      BY <2>1, <2>2, <3>2 DEF QuitOn, IInv, BenchInv, Steady
    <3> QED
      BY <3>1, <3>2
  <2> QED
    BY <2>2, <2>3 DEF IInv, BenchInv, Steady
<1> QED
  BY <1>1, <1>2, <1>3, AlwaysIInv, PTL DEF Spec, TruthfulEnding, StoppedStays, CompletedIsClean, QuitHonoured
=============================================================================
