---------------------------- MODULE MCLifecycle ----------------------------
(* IngesterLifecycle with interchangeable ingesters and data.              *)
EXTENDS IngesterLifecycle

Symmetry == Permutations(Ids) \cup Permutations(Data)
====
