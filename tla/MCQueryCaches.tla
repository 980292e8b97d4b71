---------------------------- MODULE MCQueryCaches ----------------------------
(* Instances of QueryCaches for TLC.                                        *)
EXTENDS QueryCaches

CONSTANTS l1, l2

Symmetry == Permutations({l1, l2})
=============================================================================
