------------------------------ MODULE MCWorld -------------------------------
(* Small canvases: lines of two end points that move by one to the left and  *)
(* to the right, turn by a quarter about either of two pivots, and lose or   *)
(* regain their length when one end point moves.                             *)
EXTENDS World

MCForms == {[type |-> "line", points |-> <<<<0, 0>>, <<1, 0>>>>]}
MCSteps == {<<1, 0>>, <<-1, 0>>}
MCTurns == {1}
MCPivots == {<<0, 0>>, <<1, 0>>}
MCRefs == {<<1>>, <<2>>}
=============================================================================
