------------------------------ MODULE MCLinkage ------------------------------
(* Instances of Linkage for TLC.                                              *)
EXTENDS Linkage, TLC

Alike == Permutations(Worker) \cup Permutations(Facility) \cup Permutations(Reservoir)
=============================================================================
