---------------------------- MODULE MCFlappyBird ----------------------------
(***************************************************************************)
(* A coarse screen, upright and turned: a frame may take no time, half a   *)
(* clamped frame, a whole one, or the minute after a pause.                *)
(***************************************************************************)
EXTENDS FlappyBird

MCScreens == {[width |-> 18, height |-> 19], [width |-> 19, height |-> 18]}
=============================================================================
