--------------------------- MODULE MCControlPlane ---------------------------
(* Instances of ControlPlane for TLC. *)
EXTENDS ControlPlane, TLC

Symmetry == Permutations(Processes) \cup Permutations(Keys) \cup Permutations(Bodies)
=============================================================================
