---------------------------- MODULE MCLockRoots ----------------------------
(* Instances of LockRoots for TLC: two operations, two roots.              *)
EXTENDS LockRoots, TLC

CONSTANTS o1, o2, r1, r2

MCOps    == {o1, o2}
MCRoots  == {r1, r2}
Symmetry == Permutations(MCOps) \cup Permutations(MCRoots)

\* Every call is about all the roots.  Roots are released one by one, and so a
\* call still meets roots of which the other operation has one.
MCAllRoots == {MCRoots}
\* The other calls are about the root that was replaced.
MCAllOrReplaced == {MCRoots, {r1}}

\* No root was replaced.
MCUnreplaced == {[r \in MCRoots |-> {}]}

\* No root was replaced; r1 was replaced by r2.
MCFutureMaps == {[r \in MCRoots |-> {}], r1 :> {r2}}
=============================================================================
