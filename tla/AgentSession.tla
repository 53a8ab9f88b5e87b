----------------------------- MODULE AgentSession -----------------------------
(***************************************************************************)
(* The transcript of an agent session (solvcon/agent/_core.py) as a        *)
(* sequence of turns, and the operations that the panel and the turn loop  *)
(* share.  A turn is kept to its role, the prompt it belongs to and the    *)
(* world it was recorded for; what was said is not modelled.               *)
(***************************************************************************)
EXTENDS Integers, SequencesExt, FiniteSetsExt

Roles == {"user", "agent", "marker"}
Turn(role, prompt, world) == [role |-> role, prompt |-> prompt, world |-> world]

\* mark(): a marker does not follow a marker.
Marked(transcript, world) ==
    IF transcript # <<>> /\ Last(transcript).role = "marker" THEN transcript
    ELSE Append(transcript, Turn("marker", 0, world))

\* bind_world(): a switch is marked once something has been recorded.
Bound(transcript, from, to) ==
    IF from # to /\ transcript # <<>> THEN Marked(transcript, to) ELSE transcript

\* record_prompt(), complete_turn() and fail_turn().
Prompted(transcript, prompt, world) ==
    Append(transcript, Turn("user", prompt, world))
Replied(transcript, prompt, world) ==
    Append(transcript, Turn("agent", prompt, world))

\* The transcript without the prompts at its end.
Settled(transcript) ==
    LET ends == {0} \cup {n \in DOMAIN transcript : transcript[n].role # "user"}
    IN  SubSeq(transcript, 1, Max(ends))

\* history(skip); 0 skips nothing.
History(transcript, skip) ==
    LET turns == Settled(transcript)
    IN  IF skip \in DOMAIN turns THEN RemoveAt(turns, skip) ELSE turns
=============================================================================
