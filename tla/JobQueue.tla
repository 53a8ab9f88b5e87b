------------------------------ MODULE JobQueue ------------------------------
(***************************************************************************)
(* What RThreadManager::Scheduler promises about the jobs it is given      *)
(* (the class comment at RThreadManager.cpp:239-246): one thread serves    *)
(* one FIFO line, a job is run while the scheduler works and cancelled     *)
(* once it stops, and no job that was pushed is forgotten.                 *)
(***************************************************************************)
EXTENDS Sequences

CONSTANT Jobs

VARIABLES
    line,     \* the jobs that wait, oldest first
    fate,     \* what became of each job
    closing   \* the scheduler was told to stop

vars == <<line, fate, closing>>

Fates == {"new", "waiting", "run", "cancelled"}

Init ==
    /\ line = <<>>
    /\ fate = [j \in Jobs |-> "new"]
    /\ closing = FALSE

Accept(j) ==
    /\ fate[j] = "new"
    /\ line' = Append(line, j)
    /\ fate' = [fate EXCEPT ![j] = "waiting"]
    /\ UNCHANGED closing

\* Only a scheduler that stopped and has nobody in line turns a job away.
TurnAway(j) ==
    /\ closing
    /\ line = <<>>
    /\ fate[j] = "new"
    /\ fate' = [fate EXCEPT ![j] = "cancelled"]
    /\ UNCHANGED <<line, closing>>

Serve ==
    /\ line # <<>>
    /\ line' = Tail(line)
    /\ fate' = [fate EXCEPT ![Head(line)] = IF closing THEN "cancelled" ELSE "run"]
    /\ UNCHANGED closing

Close ==
    /\ closing' = TRUE
    /\ UNCHANGED <<line, fate>>

Next ==
    \/ \E j \in Jobs : Accept(j) \/ TurnAway(j)
    \/ Serve
    \/ Close

Spec == Init /\ [][Next]_vars

=============================================================================
