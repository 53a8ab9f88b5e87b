------------------------------- MODULE MCPilot -------------------------------
(* Constants for TLC, and the loop of _read_stdout() as a reference for the  *)
(* sets by which BenchmarkRun describes what it does.                        *)
EXTENDS Pilot

\* One turn of the loop, and what _handle_event() makes of the line.
Handle(u, line) ==
    CASE u.cancelled \/ u.error              -> u
      [] u.result \/ line \in {"error", "bad"} -> Fail(u)
      [] line = "progress"                   -> u
      [] line = "result"                     -> [u EXCEPT !.result = TRUE]

\* ReadStdout() is that loop over the whole lines, for every batch of up to
\* four of them and every state of the flags it depends on.
ASSUME ReadsLineByLine ==
    \A u \in [cancelled : BOOLEAN, error : BOOLEAN, result : BOOLEAN, killed : BOOLEAN] :
        \A n \in 0 .. 4 : \A whole \in [1 .. n -> Lines \ {"partial"}] :
            \A ls \in {whole, Append(whole, "partial")} :
                /\ ReadStdout(u, ls) = FoldLeft(Handle, u, whole)
                /\ Unread(ls) = SelectSeq(ls, IsPartial)
=============================================================================
