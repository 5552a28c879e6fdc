------------------------------ MODULE MCIdGen ------------------------------
(* An instance of IdGen for TLC: two clients, a chunk that is plain or a    *)
(* root chunk with two counters, and the operation ids.                     *)
EXTENDS IdGen, TLC

CONSTANTS c1, c2, chunk1

MCClients == {c1, c2}
Symmetry  == Permutations(MCClients)
=============================================================================
