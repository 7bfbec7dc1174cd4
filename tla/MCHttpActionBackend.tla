------------------------ MODULE MCHttpActionBackend -------------------------
(***************************************************************************)
(* HttpActionBackend with interchangeable goals of each device.            *)
(***************************************************************************)
EXTENDS HttpActionBackend, TLC

HttpSymmetry == Permutations(ArmGoals) \cup Permutations(HandGoals)
=============================================================================
