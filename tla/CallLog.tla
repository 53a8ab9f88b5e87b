------------------------------- MODULE CallLog -------------------------------
(***************************************************************************)
(* What the call profiler promises: the calls that returned are counted by *)
(* the path of callers they returned from, a withdrawn call is not, and    *)
(* the counts are published whenever an outermost call returns.            *)
(***************************************************************************)
EXTENDS Naturals, SequencesExt

CONSTANT Names

VARIABLES
    open,       \* the callers running now, the outermost first
    total,      \* how often each path of callers returned
    shown       \* the counts a snapshot reports

logVars == <<open, total, shown>>

LogInit == open = <<>> /\ total = <<>> /\ shown = <<>>

Call(n) ==
    /\ open' = Append(open, n)
    /\ UNCHANGED <<total, shown>>

Counted(t, p) ==
    [q \in DOMAIN t \cup {p} |->
        (IF q \in DOMAIN t THEN t[q] ELSE 0) + (IF q = p THEN 1 ELSE 0)]

Return ==
    /\ open # <<>>
    /\ total' = Counted(total, open)
    /\ open' = Front(open)
    /\ shown' = IF Len(open) = 1 THEN total' ELSE shown

Withdraw ==
    /\ open # <<>>
    /\ open' = Front(open)
    /\ UNCHANGED <<total, shown>>

Forget == open' = <<>> /\ total' = <<>> /\ shown' = <<>>

LogNext == (\E n \in Names : Call(n)) \/ Return \/ Withdraw \/ Forget

LogSpec == LogInit /\ [][LogNext]_logVars
==============================================================================
