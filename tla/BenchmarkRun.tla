----------------------------- MODULE BenchmarkRun -----------------------------
(***************************************************************************)
(* The Benchmark Inspector of the pilot (solvcon/pilot/benchmark): its     *)
(* RunPanel, which controls one worker through QProcess, the worker        *)
(* (solvcon/benchmark/worker.py), and the inspector's controls and saved   *)
(* artifact.  QProcess is external: it starts a child or reports           *)
(* FailedToStart, buffers the child's lines, and announces its death once, *)
(* after what was written before it and after errorOccurred if it crashed. *)
(* A step is one slot on the Qt thread or one step of the worker.          *)
(***************************************************************************)
EXTENDS Application, Integers, SequencesExt

CONSTANTS
    MaxRuns,    \* bound: how many runs a behaviour starts
    MaxLines    \* bound: how many unread lines the worker leaves

ASSUME BoundsAssumption == MaxRuns \in Nat \ {0} /\ MaxLines \in Nat \ {0}

VARIABLES
    ui,         \* the RunPanel and the inspector
    proc,       \* the child: "none", "starting", "running", "dead" (Qt has not seen it)
    worker,     \* what the child has done: see WorkerStates
    lines,      \* what it wrote and Qt has not given to a slot
    artifact    \* the run whose result the file at the inspector's path holds

benchVars == <<ui, proc, worker, lines, artifact>>

NoRun == 0
WorkerStates == {"unasked", "computing", "written", "reported", "erred", "crashed"}
Lines == {"progress", "result", "error", "bad", "partial"}
Outcomes == {"stopped", "failed", "completed"}

Child == <<proc, worker, lines>>

-----------------------------------------------------------------------------
(* The slots, as functions of ui. *)

\* _fail() keeps the first error and kills the child.
Fail(u) == [u EXCEPT !.error = TRUE, !.killed = TRUE]

IsPartial(line) == line = "partial"
Whole(ls) == {k \in DOMAIN ls : ~ IsPartial(ls[k])}
Unread(ls) == IF ls # <<>> /\ IsPartial(Last(ls)) THEN <<Last(ls)>> ELSE <<>>

\* The lines that _handle_event() fails on, or raises ValueError on: an error,
\* what is no event ("bad"), and whatever follows a result.
Offending(u, ls) ==
    {k \in Whole(ls) : \/ ls[k] \in {"error", "bad"}
                       \/ u.result
                       \/ \E j \in Whole(ls) : j < k /\ ls[j] = "result"}

\* A result counts if nothing failed before it.
Reported(u, ls) ==
    u.result \/ \E k \in Whole(ls) : /\ ls[k] = "result"
                                     /\ \A j \in Offending(u, ls) : k < j

\* _read_stdout(): the first failure or a stop makes it skip what follows.
ReadStdout(u, ls) ==
    IF u.cancelled \/ u.error THEN u
    ELSE LET read == [u EXCEPT !.result = Reported(u, ls)]
         IN  IF Offending(u, ls) = {} THEN read ELSE Fail(read)

\* Mutant: the child is not killed.
StopPolitely(u) == IF u.running THEN [u EXCEPT !.cancelled = TRUE] ELSE u

\* stop() and the Stop button.
Stop(u) == IF u.running THEN [u EXCEPT !.cancelled = TRUE, !.killed = TRUE] ELSE u

\* The inspector's closeEvent(): a running control defers it.
Close(u) == IF u.running THEN [Stop(u) EXCEPT !.closing = TRUE]
            ELSE [u EXCEPT !.closing = FALSE, !.open = FALSE]

\* The terminal signal, and what the inspector does on it: _finished()
\* first, then _completed(), which loads the artifact (or cannot).
Emit(u, outcome, loads) ==
    LET finished == [u EXCEPT !.outcomes = Append(@, outcome), !.editable = TRUE]
        closed == IF finished.closing THEN Close(finished) ELSE finished
    IN  IF outcome # "completed" THEN closed
        ELSE IF loads THEN [closed EXCEPT !.saveable = TRUE, !.shown = artifact]
        ELSE [closed EXCEPT !.saveable = FALSE]

\* Mutant: a run that was stopped after its result counts as completed.
VerdictLate(u) == IF u.result THEN "completed"
                  ELSE IF u.cancelled THEN "stopped" ELSE "failed"

Verdict(u) == IF u.cancelled THEN "stopped"
              ELSE IF u.error THEN "failed" ELSE "completed"

\* _finish(): what is left of the output, the reason the run ended, and one
\* signal.
Finish(u, ls, clean, loads) ==
    IF ~ u.running THEN u
    ELSE LET read == ReadStdout(u, ls)
             done == [read EXCEPT
                        !.error = @ \/ Unread(ls) # <<>> \/ ~ clean \/ ~ read.result,
                        !.running = FALSE]
         IN  Emit(done, Verdict(done), loads)

\* _process_error(): after FailedToStart a timer of zero ends the run.
ProcessError(u, failedToStart) ==
    [Fail(u) EXCEPT !.armed = @ \/ failedToStart]

-----------------------------------------------------------------------------
BenchInit ==
    /\ ui = [running |-> FALSE, cancelled |-> FALSE, error |-> FALSE,
             result |-> FALSE, killed |-> FALSE, armed |-> FALSE,
             open |-> TRUE, closing |-> FALSE, editable |-> TRUE,
             saveable |-> FALSE, shown |-> NoRun, started |-> 0,
             outcomes |-> <<>>]
    /\ proc = "none"
    /\ worker = "unasked"
    /\ lines = <<>>
    /\ artifact = NoRun

\* Slots run while the event loop does; waitForFinished() runs those of
\* QProcess during a Quit event as well.
User == app = "running" /\ ui.open
QtProcess == app \in {"running", "quitting"}

\* Mutant: the previous result stays on offer while the next run works.
LockedSavable(u) == [u EXCEPT !.editable = FALSE]

\* The inspector once the control has started.
Locked(u) == [u EXCEPT !.saveable = FALSE, !.editable = FALSE]

\* _run() and start().  The fork itself may fail, inside of start().
Run ==
    /\ User /\ ~ ui.running
    /\ ui.started < MaxRuns
    /\ LET fresh == [ui EXCEPT !.running = TRUE, !.cancelled = FALSE,
                        !.error = FALSE, !.result = FALSE, !.killed = FALSE,
                        !.started = @ + 1]
       IN  \/ /\ ui' = Locked(fresh)
              /\ proc' = "starting"
           \/ /\ ui' = Locked(ProcessError(fresh, TRUE))
              /\ proc' = "none"
    /\ worker' = "unasked"
    /\ lines' = <<>>
    /\ UNCHANGED <<app, artifact>>

StopRun ==
    /\ User /\ ui.running /\ ~ ui.cancelled
    /\ ui' = Stop(ui)
    /\ UNCHANGED <<app, Child, artifact>>

CloseInspector ==
    /\ User
    /\ ui' = Close(ui)
    /\ UNCHANGED <<app, Child, artifact>>

\* The menu shows the inspector again; it was hidden, not destroyed.
OpenInspector ==
    /\ app = "running" /\ ~ ui.open
    /\ ui' = [ui EXCEPT !.open = TRUE]
    /\ UNCHANGED <<app, Child, artifact>>

\* exec() failed in the child.
FailToStart ==
    /\ QtProcess /\ proc = "starting" /\ ~ ui.killed
    /\ proc' = "none"
    /\ ui' = ProcessError(ui, TRUE)
    /\ UNCHANGED <<app, worker, lines, artifact>>

\* started: _send_request().
SendRequest ==
    /\ QtProcess /\ proc = "starting"
    /\ proc' = "running"
    /\ ui' = IF ui.cancelled THEN [ui EXCEPT !.killed = TRUE] ELSE ui
    /\ worker' = IF ui.cancelled THEN "unasked" ELSE "computing"
    /\ UNCHANGED <<app, lines, artifact>>

ReadyRead ==
    /\ QtProcess /\ lines # Unread(lines)
    /\ ui' = ReadStdout(ui, lines)
    /\ lines' = Unread(lines)
    /\ UNCHANGED <<app, proc, worker, artifact>>

\* errorOccurred for a broken pipe while the child runs.
StreamError ==
    /\ QtProcess /\ proc = "running" /\ ~ ui.error
    /\ ui' = ProcessError(ui, FALSE)
    /\ UNCHANGED <<app, Child, artifact>>

\* QProcess gives out what it buffered, reports a crash, and finishes.
Finished ==
    /\ QtProcess /\ proc = "dead"
    /\ \E loads \in BOOLEAN :
        LET read == ReadStdout(ui, lines)
            told == IF worker = "crashed" THEN ProcessError(read, FALSE) ELSE read
        IN  ui' = Finish(told, Unread(lines), worker = "reported", loads)
    /\ proc' = "none"
    /\ lines' = <<>>
    /\ UNCHANGED <<app, worker, artifact>>

\* The timer of zero that _process_error() started.
TimerFires ==
    /\ app = "running" /\ ui.armed
    /\ ui' = [Finish(ui, lines, FALSE, TRUE) EXCEPT !.armed = FALSE]
    /\ UNCHANGED <<app, Child, artifact>>

\* A Quit event reaches the application: the filter of a running control
\* stops it and waits for the child.
Quit ==
    /\ app = "running"
    /\ app' = "quitting"
    /\ ui' = Stop(ui)
    /\ UNCHANGED <<Child, artifact>>

Waited == proc = "none"

\* waitForFinished() returned: the application closes its windows and
\* leaves, unless one of them ignores its close event.
QuitOn ==
    /\ app = "quitting" /\ Waited
    /\ ui' = IF ui.open THEN Close(ui) ELSE ui
    /\ app' = IF ui'.closing THEN "running" ELSE "left"
    /\ UNCHANGED <<Child, artifact>>

-----------------------------------------------------------------------------
(* The worker. *)

Write(line) == /\ Len(lines) < MaxLines
               /\ ~ \E k \in DOMAIN lines : IsPartial(lines[k])
               /\ lines' = Append(lines, line)

\* A stray print, or the first half of a line that is never completed.
Stray == /\ worker # "unasked"
         /\ \E line \in {"bad", "partial"} : Write(line)
         /\ UNCHANGED <<proc, worker, artifact>>
Progress == /\ worker = "computing" /\ Write("progress")
            /\ UNCHANGED <<proc, worker, artifact>>
WriteArtifact == /\ worker = "computing"
                 /\ worker' = "written"
                 /\ artifact' = ui.started
                 /\ UNCHANGED <<proc, lines>>
Report == /\ worker = "written" /\ Write("result")
          /\ worker' = "reported"
          /\ UNCHANGED <<proc, artifact>>
ReportError == /\ worker = "computing" /\ Write("error")
               /\ worker' = "erred"
               /\ UNCHANGED <<proc, artifact>>
Exit == /\ worker \in {"reported", "erred"}
        /\ proc' = "dead"
        /\ UNCHANGED <<worker, lines, artifact>>

\* A crash of native code, or the end of a child that was killed; until
\* then it may go on.
Die == /\ proc' = "dead"
       /\ worker' = "crashed"
       /\ UNCHANGED <<lines, artifact>>

Work ==
    /\ proc = "running"
    /\ Stray \/ Progress \/ WriteArtifact \/ Report \/ ReportError \/ Exit \/ Die
    /\ UNCHANGED <<app, ui>>

DieKilled == ui.killed /\ proc = "running" /\ Die /\ UNCHANGED <<app, ui>>

BenchNext ==
    \/ Run \/ StopRun \/ CloseInspector \/ OpenInspector
    \/ FailToStart \/ SendRequest \/ ReadyRead \/ StreamError
    \/ Finished \/ TimerFires
    \/ Quit \/ QuitOn
    \/ Work

\* The event loop delivers what is pending, a timer that is due fires even
\* if quit events keep coming, and a child that was killed dies.
BenchFairness ==
    /\ WF_benchVars(SendRequest) /\ WF_benchVars(Finished)
    /\ WF_<<app, benchVars>>(QuitOn)
    /\ SF_benchVars(TimerFires)
    /\ WF_benchVars(DieKilled)

-----------------------------------------------------------------------------
(* Properties. *)

BenchTypeOK ==
    /\ proc \in {"none", "starting", "running", "dead"}
    /\ worker \in WorkerStates
    /\ lines \in Seq(Lines) /\ Len(lines) <= MaxLines
    /\ artifact \in NoRun .. MaxRuns /\ ui.shown \in NoRun .. MaxRuns
    /\ ui.outcomes \in Seq(Outcomes) /\ ui.started \in 0 .. MaxRuns
    /\ \A f \in {"running", "cancelled", "error", "result", "killed", "armed",
                 "open", "closing", "editable", "saveable"} : ui[f] \in BOOLEAN

\* What Save exports is the result on display: no run that was stopped or
\* failed since has left its own artifact in the file.
SaveIsShown == ui.saveable => artifact = ui.shown

\* The inputs are locked exactly while a run is on its way, and while it is,
\* something is left that will end it, a child or the timer; no child
\* outlives the signal of its run.
LockedWhileRunning ==
    /\ ui.editable <=> ~ ui.running
    /\ ui.running <=> proc # "none" \/ ui.armed

\* A run that was stopped does not complete or fail, even when its result
\* had been read before or is read afterwards.
StoppedStays ==
    [][ui.running /\ ui.cancelled /\ ~ ui'.running
        => Last(ui'.outcomes) = "stopped"]_benchVars

\* A run completes only when its own worker wrote the artifact, reported it,
\* left nothing but progress beside the report, and exited.
CompletedIsClean ==
    [][Len(ui'.outcomes) > Len(ui.outcomes) /\ Last(ui'.outcomes) = "completed"
        => /\ worker = "reported" /\ proc = "dead"
           /\ artifact = ui.started
           /\ \A k \in DOMAIN lines : lines[k] \in {"progress", "result"}]_benchVars

\* eventFilter()'s comment: a running control is stopped before its close
\* event can defer, and so cancel, the quit.  The one way to lose a quit is
\* a child that failed to start and whose timer has not fired yet.
QuitHonoured ==
    [][app = "quitting" /\ app' = "running" => ui.armed]_<<app, ui>>

\* Stopping a run ends it, and an inspector closed during a run closes.
StopEnds == ui.cancelled /\ ui.running ~> ~ ui.running \/ app # "running"
CloseEnds == ui.closing ~> ~ ui.open \/ app # "running"

\* How a run ends is the truth about it, and a quit in the middle stays one.
TruthfulEnding == StoppedStays /\ CompletedIsClean /\ QuitHonoured
=============================================================================
