-------------------------------- MODULE Pilot --------------------------------
(* The Agent Console and the Benchmark Inspector on the Qt thread of one     *)
(* pilot.  They meet when it quits: the inspector's Quit filter kills its    *)
(* worker process and waits for it inside the event, the console joins its   *)
(* worker thread after the event loop, and an event that one of them had     *)
(* pending is delivered in between or never.                                 *)
EXTENDS BenchmarkRun, AgentPanel

CONSTANT MaxRequests   \* bound: prompts and runs of a behaviour, together

ASSUME MaxRequestsAssumption == MaxRequests \in Nat \ {0}

vars == <<app, benchVars, agentVars>>

Init == AppInit /\ BenchInit /\ AgentInit

Next == /\ \/ BenchNext /\ UNCHANGED agentVars
           \/ AgentNext /\ UNCHANGED benchVars
        /\ ui'.started + prompts' <= MaxRequests

Fairness == BenchFairness /\ AgentFairness

Spec == Init /\ [][Next]_vars /\ Fairness

TypeOK == app \in AppStates /\ BenchTypeOK /\ AgentTypeOK

\* A quit that was not taken back ends the process, with neither a worker
\* process nor a backend call left running.
QuitEnds == app = "quitting" ~> app = "gone" \/ app = "running"
NobodyLeft == app = "gone" => proc = "none" /\ NoThreadLeft

\* What the panels show is what their worker is doing, and nobody is left
\* working for them.
PanelsInStep == TypeOK /\ SaveIsShown /\ LockedWhileRunning /\ NobodyLeft

\* Whatever the user began comes to an end: a stop, a closing, a prompt, and
\* the quit of the pilot with any of them under way.
EverythingEnds == StopEnds /\ CloseEnds /\ PanelReturns /\ QuitEnds
=============================================================================
