---------------------------- MODULE MCRootReads ----------------------------
(* An instance of RootReads for TLC: a supervoxel a below m1 and the root   *)
(* r1, a node m2 below r2, and b without a parent.  The first edit moves a  *)
(* to m2 and replaces r1, the second one replaces r2.                       *)
EXTENDS RootReads

CONSTANTS a, b, m1, m2, r1, r2, r3

Mutation(row, col, val) == [row |-> row, col |-> col, val |-> val]

MCNodes   == {a, b, m1, m2, r1, r2, r3}
MCInitial == {Mutation(a, "Parent", m1), Mutation(m1, "Parent", r1),
              Mutation(m2, "Parent", r2)}
MCEdits   == << << Mutation(a, "Parent", m2), Mutation(r1, "NewParent", r2) >>,
                << Mutation(m2, "Parent", r3), Mutation(r2, "NewParent", r3) >> >>
MCLayer   == [n \in MCNodes \cup {NoNode} |->
                CASE n = NoNode       -> 0
                  [] n \in {a, b}     -> 1
                  [] n \in {m1, m2}   -> 2
                  [] n \in {r1, r2, r3} -> 3]
MCQueries == [method \in Methods |->
                CASE method = "read_nodes" -> {{a, m2}}
                  [] method = "is_latest_roots" -> {{r1, r2}}
                  [] OTHER -> {{a, b}}]

\* From the beginning, and from half a millisecond after the first edit; before
\* the middle of a millisecond and up to it, before a whole one and up to it.
MCRanges  == {<<0, 3, FALSE>>, <<0, 3, TRUE>>, <<3, 4, FALSE>>, <<0, 4, TRUE>>}

\* The edits of this instance replace roots as RootIsLatest needs it.
ASSUME MCEditsReplaceRoots == EditsReplaceRoots
============================================================================
