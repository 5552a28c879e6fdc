---------------------------- MODULE AtomicStore ----------------------------
(***************************************************************************)
(* What write promises of the cells of one worker's edits, without         *)
(* requests, rows, blocks, attempts or backends: an edit takes place at    *)
(* once, with one time stamp for all its cells, a whole millisecond later  *)
(* than all the cells before it, and its cells stay.                       *)
(***************************************************************************)
EXTENDS Naturals, Sequences

CONSTANTS
    Edits,    \* the edits: sequences of mutations [row, col, val]
    Initial,  \* the mutations of the first cells
    MaxTime   \* the last time there is, in half milliseconds

VARIABLES
    stored,   \* the cells that are stored for good
    edit      \* the next edit

vars == <<edit, stored>>

Stamped(mutations, ts) ==
    {[row |-> m.row, col |-> m.col, val |-> m.val, ts |-> ts] : m \in mutations}

Init ==
    /\ stored = Stamped(Initial, 0)
    /\ edit = 1

TakePlace ==
    /\ edit <= Len(Edits)
    /\ edit' = edit + 1
    /\ \E ts \in 0..MaxTime :
         /\ ts % 2 = 0
         /\ \A c \in stored : c.ts < ts
         /\ stored' = stored \cup Stamped({Edits[edit][i] : i \in DOMAIN Edits[edit]}, ts)

Spec == Init /\ [][TakePlace]_vars
============================================================================
