------------------------------- MODULE MCRing -------------------------------
(* RingLookup with interchangeable ingesters.                              *)
EXTENDS RingLookup

Symmetry == Permutations(Ids)
====
