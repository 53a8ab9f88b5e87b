------------------------------ MODULE Timeline ------------------------------
(* What World (cpp/solvcon/universe/World.hpp) promises about undo and redo. *)
(* The user sees a picture, the draft; the undo history is a line of earlier *)
(* pictures, the redo history a line of undone ones.  Undo and redo walk     *)
(* along the line and never show a picture that was not there before.        *)
EXTENDS Sequences, SequencesExt

CONSTANTS Pictures,   \* everything a canvas can show
          Blank       \* the picture of an empty world

VARIABLES past,      \* pictures undo returns to, the latest last
          present,   \* the picture the latest undo step ended with
          draft,     \* the picture on the canvas
          future     \* pictures redo returns to, the next one last

vars == <<past, present, draft, future>>

TypeOK == /\ past \in Seq(Pictures)
          /\ present \in Pictures
          /\ draft \in Pictures
          /\ future \in Seq(Pictures)

Init == /\ past = <<>>
        /\ present = Blank
        /\ draft = Blank
        /\ future = <<>>

(* A gesture under way changes the canvas and nothing of the history. *)
Sketch == /\ draft' \in Pictures
          /\ UNCHANGED <<present, past, future>>

(* An undo step is finished: what the canvas showed becomes the present, and *)
(* what had been undone is forgotten.  The change that finished the step may *)
(* already be the first of the next one.                                     *)
Commit == /\ present' = draft
          /\ past' = Append(past, present)
          /\ draft' \in Pictures
          /\ future' = <<>>

(* A change outside of a gesture is an undo step by itself. *)
Change == /\ draft = present
          /\ draft' \in Pictures
          /\ present' = draft'
          /\ past' = Append(past, present)
          /\ future' = <<>>

Undo == /\ draft = present
        /\ past # <<>>
        /\ draft' = present'
        /\ past' = Front(past)
        /\ present' = Last(past)
        /\ future' = Append(future, present)

Redo == /\ draft = present
        /\ future # <<>>
        /\ draft' = present'
        /\ future' = Front(future)
        /\ present' = Last(future)
        /\ past' = Append(past, present)

Clear == /\ present' = Blank
         /\ draft' = Blank
         /\ past' = <<>>
         /\ future' = <<>>

Next == Sketch \/ Commit \/ Change \/ Undo \/ Redo \/ Clear

Spec == Init /\ [][Next]_vars
=============================================================================
