------------------------------ MODULE MCCanvas ------------------------------
(* Lines drawn by hand, a path of one segment and a path of one curve added  *)
(* by a script; everything moves by one to the right or not at all, and undo  *)
(* brings it back; the knob turns by a quarter.                              *)
EXTENDS Canvas

Line == [type |-> "line", points |-> <<<<-1, 0>>, <<0, 0>>>>]
Segment == [type |-> "path", points |-> <<<<-1, 0>>, <<1, 0>>>>]
Curve == [type |-> "path", points |-> <<<<-1, 0>>, <<0, 0>>, <<-1, 0>>, <<0, 0>>>>]

MCForms == {Line, Segment, Curve}
MCScripted == <<Segment, Curve>>
MCSteps == {<<1, 0>>, <<0, 0>>}
MCNudges == MCSteps
MCTurns == {1}
=============================================================================
