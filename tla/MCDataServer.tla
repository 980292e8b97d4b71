---------------------------- MODULE MCDataServer ----------------------------
(* Instances of DataServer for TLC.                                         *)
EXTENDS DataServer, TLC

CONSTANTS f1, f2, m1, m2

Symmetry == Permutations({m1, m2})
=============================================================================
