---------------------------- MODULE MCPublication ----------------------------
(* Publication on small instances.                                         *)
EXTENDS Publication, TLC

(* Findings are interchangeable.                                           *)
Symmetry == Permutations(Findings)
=============================================================================
