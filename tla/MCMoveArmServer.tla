--------------------------- MODULE MCMoveArmServer --------------------------
(***************************************************************************)
(* MoveArmServer with a motion of four grid points, or one that begins at  *)
(* its target.                                                             *)
(***************************************************************************)
EXTENDS MoveArmServer

MCHome == [j \in Joints |-> 0]
MCTargets == {[j \in Joints |-> 0], [j \in Joints |-> 4]}
=============================================================================
