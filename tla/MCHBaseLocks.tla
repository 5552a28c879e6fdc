---------------------------- MODULE MCHBaseLocks ----------------------------
(* Instances of HBaseLocks for TLC: one row, two operations.               *)
EXTENDS HBaseLocks, TLC

CONSTANTS o1, o2, r1

MCOps    == {o1, o2}
MCRows   == {r1}
Symmetry == Permutations(MCOps)
=============================================================================
