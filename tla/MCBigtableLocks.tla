-------------------------- MODULE MCBigtableLocks --------------------------
(* Instances of BigtableLocks for TLC: one row, two operations.            *)
EXTENDS BigtableLocks, TLC

CONSTANTS o1, o2, r1

MCOps      == {o1, o2}
MCRows     == {r1}
AllPrompt  == RenewCalls \cup UnlockCalls
Symmetry   == Permutations(MCOps)
=============================================================================
