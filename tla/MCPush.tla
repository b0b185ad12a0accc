------------------------------- MODULE MCPush -------------------------------
(* Model-checking instances of DistributorPush. *)
EXTENDS DistributorPush, TLC

(* The ingesters are interchangeable: no definition tells them apart. *)
Symmetry == Permutations(Ingesters)
=============================================================================
