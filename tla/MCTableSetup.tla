---------------------------- MODULE MCTableSetup ----------------------------
(* Instances of TableSetup for TLC: two clients, two families of the table *)
(* and two new ones, which a meta has that a client is made with.          *)
EXTENDS TableSetup, TLC

CONSTANTS c1, c2, f1, f2, g1, g2

MCClients  == {c1, c2}
MCBackends == {"bigtable", "hbase", "vast"}
MCHBase    == {"hbase"}
MCDefaults == <<f1, f2>>
MCNew      == {g1, g2}
MCGiven    == {MCNew}
Symmetry   == Permutations(MCClients) \cup Permutations(MCNew)
=============================================================================
