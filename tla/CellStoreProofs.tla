--------------------------- MODULE CellStoreProofs ---------------------------
(***************************************************************************)
(* Proofs about CellStore, for all edits, backends, block sizes, numbers   *)
(* of attempts and times.                                                  *)
(***************************************************************************)
EXTENDS CellStore, TLAPS

-----------------------------------------------------------------------------
(* What delete_cells names.                                                 *)

\* delete_cells, given a whole millisecond, removes the version of that
\* millisecond only, with the range of Bigtable, the URL of HBase and the predicate of
\* VAST (bigtable/client.py:525, hbase/client.py:541, vast/client.py:426).
THEOREM DeleteIsExact ==
    ASSUME NEW c, c.ts \in Nat, Gap(c.ts) = 0, \A x \in cells : x.ts \in Nat /\ Gap(x.ts) = 0,
           backend \in {"bigtable", "hbase", "vast"}
    PROVE  Named(c) = {x \in cells : Place(x) = Place(c)}
<1>1. ASSUME NEW x \in cells
      PROVE  /\ x.ts >= c.ts /\ x.ts < c.ts + 2 <=> x.ts = c.ts
             /\ x.ts = c.ts - Gap(c.ts) <=> x.ts = c.ts
             /\ x.ts >= c.ts - Gap(c.ts) /\ x.ts <= c.ts - Gap(c.ts) <=> x.ts = c.ts
  <2>1. x.ts \in Nat /\ c.ts \in Nat /\ Gap(x.ts) = 0 /\ Gap(c.ts) = 0
    OBVIOUS
  <2>2. x.ts # c.ts + 1
    BY <2>1 DEF Gap
  <2> QED
    BY <2>1, <2>2
<1>2. \A x \in cells : Place(x) = Place(c) <=> x.row = c.row /\ x.col = c.col /\ x.ts = c.ts
  BY DEF Place
<1>3. CASE backend = "bigtable"
  BY <1>1, <1>2, <1>3 DEF Named
<1>4. CASE backend = "hbase"
  BY <1>1, <1>2, <1>4 DEF Named
<1>5. CASE backend = "vast"
  BY <1>1, <1>2, <1>5 DEF Named, get_vast_compatible_time_stamp
<1> QED
  BY <1>3, <1>4, <1>5

-----------------------------------------------------------------------------
(* The invariant: times are whole milliseconds in the table, in the call    *)
(* under way and in the requests that are still to be handled.              *)

Whole(S) == \A c \in S : c.ts \in Nat /\ Gap(c.ts) = 0

\* A running call has the fields of a started one.
CallShape ==
    Running => call = [op |-> call.op, block |-> call.block, todo |-> call.todo,
                       attempt |-> call.attempt, missed |-> call.missed]

WholeInv ==
    /\ backend \in {"bigtable", "hbase", "vast"}
    /\ last \in Nat /\ AcceptsTimeStamp(last)
    /\ Whole(cells)
    /\ \A r \in late : Whole(r.cells)
    /\ CallShape
    /\ Running => Whole(call.todo)

\* mutate_row makes whole milliseconds of the times that the server accepts.
LEMMA MutateRowWhole ==
    ASSUME NEW t \in Nat, AcceptsTimeStamp(t), backend \in {"bigtable", "hbase", "vast"}
    PROVE  mutate_row(t) \in Nat /\ Gap(mutate_row(t)) = 0
  BY DEF mutate_row, AcceptsTimeStamp, get_vast_compatible_time_stamp, Gap

\* So are the cells of an edit, in whatever block.
LEMMA BlockWhole ==
    ASSUME WholeInv, NEW op, NEW b
    PROVE  Whole(Block(op, b))
<1>1. mutate_row(last) \in Nat /\ Gap(mutate_row(last)) = 0
  BY MutateRowWhole DEF WholeInv
<1> QED
  BY <1>1 DEF Whole, Block, CellOf

\* Handling a request stores no cells but its own.
LEMMA ApplyWhole ==
    ASSUME Whole(cells), NEW op, NEW S, Whole(S)
    PROVE  Whole(Apply(op, S))
  BY DEF Whole, Apply, PutCells, DeleteCells

\* What is left of a request was in it.
LEMMA GiveUpWhole ==
    ASSUME WholeInv, Running, GiveUp
    PROVE  \A r \in late' : Whole(r.cells)
<1>1. \A number : \A r \in LeftOver(call.op, call.todo, number) : Whole(r.cells)
  BY DEF WholeInv, LeftOver, Whole
<1> QED
  BY <1>1 DEF WholeInv, GiveUp

-----------------------------------------------------------------------------
(* The steps of the worker and the servers.                                 *)

\* A new edit: its time stamp is one the server accepts, and its cells get it whole.
LEMMA StepWrite == WholeInv /\ Write => WholeInv'
<1> SUFFICES ASSUME WholeInv, Write PROVE WholeInv'
  OBVIOUS
<1>1. PICK t \in Times : AcceptsTimeStamp(t) /\ last' = t
  BY DEF Write
<1>2. last' \in Nat /\ backend' = backend /\ cells' = cells /\ late' = late
  BY <1>1, CellStoreConstants DEF Write, Times
<1>3. AcceptsTimeStamp(last)'
  BY <1>1, <1>2 DEF AcceptsTimeStamp
<1>4. Whole(Block("put", 1))'
  <2>1. mutate_row(last') \in Nat /\ Gap(mutate_row(last')) = 0
    <3>1. AcceptsTimeStamp(last')
      BY <1>1
    <3> QED
      BY <1>2, <3>1, MutateRowWhole DEF WholeInv
  <2>2. mutate_row(last)' = mutate_row(last')
    BY <1>2 DEF mutate_row
  <2> QED
    BY <2>1, <2>2 DEF Whole, Block, CellOf
<1>5. call' = [op |-> "put", block |-> 1, todo |-> Block("put", 1)', attempt |-> 1,
               missed |-> {}]
  BY DEF Write, Started
<1>6. CallShape' /\ (Running => Whole(call.todo))'
  BY <1>4, <1>5 DEF CallShape, Running
<1> QED
  BY <1>2, <1>3, <1>6 DEF WholeInv

\* A call that starts over with the time stamp it had.
LEMMA StepStarted ==
    ASSUME WholeInv, NEW op \in {"put", "delete"}, NEW missed, call' = Started(op, missed),
           UNCHANGED <<backend, cells, late, edit, last>>
    PROVE  WholeInv'
<1>1. call' = [op |-> op, block |-> 1, todo |-> Block(op, 1), attempt |-> 1,
               missed |-> missed]
  BY DEF Started
<1>2. Whole(Block(op, 1))
  BY BlockWhole
<1>3. CallShape' /\ (Running => Whole(call.todo))'
  BY <1>1, <1>2 DEF CallShape, Running, Whole
<1> QED
  BY <1>3 DEF WholeInv, AcceptsTimeStamp, Whole

\* A step of a running call that leaves part of its cells to do, or takes new
\* ones of the edit, whatever else it changes in the call.
LEMMA StepRunning ==
    ASSUME WholeInv, Running, NEW todo, NEW block, NEW attempt, NEW missed, Whole(todo),
           call' = [op |-> call.op, block |-> block, todo |-> todo, attempt |-> attempt,
                    missed |-> missed],
           Whole(cells'), \A r \in late' : Whole(r.cells), UNCHANGED <<backend, last>>
    PROVE  WholeInv'
<1>1. CallShape' /\ (Running => Whole(call.todo))'
  BY DEF CallShape, Running, Whole
<1> QED
  BY <1>1 DEF WholeInv, AcceptsTimeStamp, Whole

\* A step after which no call runs.
LEMMA StepStopped ==
    ASSUME WholeInv, ~Running', UNCHANGED <<backend, cells, last>>,
           \A r \in late' : Whole(r.cells)
    PROVE  WholeInv'
  BY DEF WholeInv, AcceptsTimeStamp, Whole, CallShape

\* Every step of the worker and the servers keeps the invariant.
LEMMA StepStore == WholeInv /\ StoreNext => WholeInv'
<1> SUFFICES ASSUME WholeInv, StoreNext PROVE WholeInv'
  OBVIOUS
<1> DEFINE Shape == [op |-> call.op, block |-> call.block, todo |-> call.todo,
                     attempt |-> call.attempt, missed |-> call.missed]
<1>0. Running => call = Shape /\ Whole(call.todo)
  BY DEF WholeInv, CallShape
<1>1. CASE Write
  BY <1>1, StepWrite
<1>2. CASE WriteAgain
  BY <1>2, StepStarted DEF WriteAgain
<1>3. CASE UndoWrite
  BY <1>3, StepStarted DEF UndoWrite
<1>4. CASE ServeRow
  <2>1. PICK c \in call.todo : /\ cells' = Apply(call.op, {c})
                              /\ call' = [call EXCEPT !.todo = @ \ {c}]
    BY <1>4 DEF ServeRow, Handle
  <2>2. Whole({c}) /\ Whole(call.todo \ {c})
    BY <1>0, <1>4 DEF ServeRow, Whole
  <2>3. Whole(cells')
    BY <2>1, <2>2, ApplyWhole DEF WholeInv
  <2>4. call' = [Shape EXCEPT !.todo = call.todo \ {c}]
    BY <1>0, <1>4, <2>1 DEF ServeRow
  <2> QED
    BY <1>4, <2>2, <2>3, <2>4, StepRunning DEF ServeRow, WholeInv
<1>5. CASE ServeTransaction
  <2>1. Whole(cells')
    BY <1>0, <1>5, ApplyWhole DEF ServeTransaction, Handle, WholeInv
  <2>2. call' = [Shape EXCEPT !.todo = {}]
    BY <1>0, <1>5 DEF ServeTransaction
  <2>3. Whole({})
    BY DEF Whole
  <2> QED
    BY <1>5, <2>1, <2>2, <2>3, StepRunning DEF ServeTransaction, WholeInv
<1>6. CASE DeleteIgnoresError
  <2>1. PICK c \in call.todo :
          call' = [call EXCEPT !.todo = @ \ {c}, !.missed = @ \cup {Place(c)}]
    BY <1>6 DEF DeleteIgnoresError
  <2>2. Running
    BY <1>6 DEF DeleteIgnoresError, Running
  <2>3. Whole(call.todo \ {c})
    BY <1>0, <2>2 DEF Whole
  <2>4. call' = [op |-> call.op, block |-> call.block, todo |-> call.todo \ {c},
                 attempt |-> call.attempt, missed |-> call.missed \cup {Place(c)}]
    BY <1>0, <2>1, <2>2
  <2>5. Whole(cells')
    BY <1>6 DEF DeleteIgnoresError, WholeInv
  <2> QED
    BY <1>6, <2>2, <2>3, <2>4, <2>5, StepRunning DEF DeleteIgnoresError, WholeInv
<1>7. CASE NextBlock
  <2>1. Whole(Block(call.op, call.block + 1))
    BY BlockWhole
  <2>2. call' = [op |-> call.op, block |-> call.block + 1,
                 todo |-> Block(call.op, call.block + 1), attempt |-> 1,
                 missed |-> call.missed]
    BY <1>0, <1>7 DEF NextBlock
  <2>3. Whole(cells')
    BY <1>7 DEF NextBlock, WholeInv
  <2> QED
    BY <1>7, <2>1, <2>2, <2>3, StepRunning DEF NextBlock, WholeInv
<1>8. CASE Retry
  <2>1. Whole(Block(call.op, call.block))
    BY BlockWhole
  <2>2. call' = [op |-> call.op, block |-> call.block, todo |-> Block(call.op, call.block),
                 attempt |-> call.attempt + 1, missed |-> call.missed]
    BY <1>0, <1>8 DEF Retry
  <2>3. Whole(cells') /\ \A r \in late' : Whole(r.cells)
    BY <1>8, GiveUpWhole DEF Retry, WholeInv
  <2> QED
    BY <1>8, <2>1, <2>2, <2>3, StepRunning DEF Retry
<1>9. CASE Raise
  <2>1. \A r \in late' : Whole(r.cells)
    BY <1>9, GiveUpWhole DEF Raise
  <2>2. ~Running'
    BY <1>9 DEF Raise, Running, Failed, Undo
  <2> QED
    BY <1>9, <2>1, <2>2, StepStopped DEF Raise
<1>10. CASE ServeLate
  <2>1. PICK r \in late : cells' = Apply(r.op, r.cells) /\ late' = late \ {r}
    BY <1>10 DEF ServeLate, Handle
  <2>2. Whole(cells')
    BY <2>1, ApplyWhole DEF WholeInv
  <2> QED
    BY <1>10, <2>1, <2>2 DEF ServeLate, WholeInv, CallShape, Running, AcceptsTimeStamp, Whole
<1>11. CASE ReturnWrite
  <2>1. ~Running'
    BY <1>11 DEF ReturnWrite, Running, Idle
  <2> QED
    BY <1>11, <2>1, StepStopped DEF ReturnWrite, WholeInv
<1>12. CASE ReturnDelete
  <2>1. ~Running'
    BY <1>12 DEF ReturnDelete, Running, Idle
  <2> QED
    BY <1>12, <2>1, StepStopped DEF ReturnDelete, WholeInv
<1> QED
  BY <1>1, <1>2, <1>3, <1>4, <1>5, <1>6, <1>7, <1>8, <1>9, <1>10, <1>11, <1>12 DEF StoreNext

LEMMA StoreInitWhole == StoreInit => WholeInv
<1> SUFFICES ASSUME StoreInit PROVE WholeInv
  OBVIOUS
<1>1. Whole(cells)
  BY DEF StoreInit, Whole, CellOf, Gap
<1>2. ~Running
  BY DEF StoreInit, Running, Idle
<1> QED
  BY <1>1, <1>2 DEF StoreInit, WholeInv, AcceptsTimeStamp, Gap, CallShape

LEMMA StepStoreBox == WholeInv /\ [StoreNext]_storeVars => WholeInv'
<1>1. WholeInv /\ UNCHANGED storeVars => WholeInv'
  BY DEF storeVars, WholeInv, Whole, AcceptsTimeStamp, CallShape, Running
<1> QED
  BY <1>1, StepStore

\* At all times, whatever is written, repeated, undone, lost or late: stored
\* cells have whole milliseconds, as do those that are still on their way.
THEOREM WholeMilliseconds == StoreSpec => []WholeInv
  BY StoreInitWhole, StepStoreBox, PTL DEF StoreSpec

\* At all times delete_cells, asked for a stored cell, removes its version only.
DeletesByTime ==
    \A c \in cells : Named(c) = {x \in cells : Place(x) = Place(c)}

THEOREM DeletesAlwaysExact == StoreSpec => []DeletesByTime
<1>1. WholeInv => DeletesByTime
  BY DeleteIsExact DEF WholeInv, Whole, DeletesByTime
<1> QED
  BY <1>1, WholeMilliseconds, PTL

-----------------------------------------------------------------------------
(* The edit, its blocks and the shapes of the calls.                        *)

\* The time stamp of the edit's cells.
Stamp == mutate_row(last)

LEMMA MutateRowIs ==
    ASSUME NEW t \in Nat, AcceptsTimeStamp(t), backend \in {"bigtable", "hbase", "vast"}
    PROVE  mutate_row(t) = t - Gap(t)
<1>1. backend = "bigtable" => mutate_row(t) = t /\ Gap(t) = 0
  BY DEF mutate_row, AcceptsTimeStamp
<1>2. backend = "hbase" => mutate_row(t) = t - Gap(t)
  BY DEF mutate_row
<1>3. backend = "vast" => mutate_row(t) = t - Gap(t)
  BY DEF mutate_row, get_vast_compatible_time_stamp
<1> QED
  BY <1>1, <1>2, <1>3

\* There is an edit to write, and the times are whole.
Scope == WholeInv /\ last \in Times /\ edit \in 1..Len(Edits)

LEMMA StampIs ==
    ASSUME WholeInv
    PROVE  Stamp = last - Gap(last) /\ Stamp \in Nat /\ Gap(Stamp) = 0 /\ Stamp <= last
<1>1. Stamp = last - Gap(last)
  BY MutateRowIs DEF Stamp, WholeInv
<1>2. Stamp \in Nat /\ Gap(Stamp) = 0
  BY MutateRowWhole DEF Stamp, WholeInv
<1>3. Gap(last) \in Nat
  BY DEF WholeInv, Gap
<1> QED
  BY <1>1, <1>2, <1>3 DEF WholeInv

\* The cells of an edit have its time stamp, and each place once.
LEMMA EditFacts ==
    ASSUME Scope
    PROVE  /\ edit \in DOMAIN Edits /\ Len(Edits[edit]) \in Nat \ {0}
           /\ DOMAIN Edits[edit] = 1..Len(Edits[edit])
           /\ EditCells \subseteq Cells /\ EditCells # {}
           /\ \A c \in EditCells : c.ts = Stamp
           /\ \A c, d \in EditCells : Place(c) = Place(d) => c = d
<1> DEFINE e == Edits[edit]
<1>1. edit \in DOMAIN Edits /\ e \in Seq(Mutations) /\ e # << >>
      /\ NamesOnce({e[j] : j \in DOMAIN e})
  <2>1. Edits \in Seq(Seq(Mutations))
    BY CellStoreConstants
  <2>2. edit \in DOMAIN Edits /\ e \in Seq(Mutations)
    BY <2>1 DEF Scope
  <2> QED
    BY <2>2, CellStoreConstants
<1>2. Len(e) \in Nat \ {0} /\ DOMAIN e = 1..Len(e) /\ \A i \in DOMAIN e : e[i] \in Mutations
  BY <1>1
<1>3. Stamp \in Times
  BY StampIs, CellStoreConstants DEF Scope, Times
<1>4. EditCells = {CellOf(e[i], Stamp) : i \in DOMAIN e}
  BY DEF EditCells, Stamp
<1> HIDE DEF e
<1>5. \A i \in DOMAIN e : CellOf(e[i], Stamp) \in Cells /\ CellOf(e[i], Stamp).ts = Stamp
  BY <1>2, <1>3 DEF CellOf, Mutations, Cells
<1>6. \A i, j \in DOMAIN e : Place(CellOf(e[i], Stamp)) = Place(CellOf(e[j], Stamp))
                                => CellOf(e[i], Stamp) = CellOf(e[j], Stamp)
  <2> SUFFICES ASSUME NEW i \in DOMAIN e, NEW j \in DOMAIN e,
                      Place(CellOf(e[i], Stamp)) = Place(CellOf(e[j], Stamp))
               PROVE  CellOf(e[i], Stamp) = CellOf(e[j], Stamp)
    OBVIOUS
  <2>1. e[i].row = e[j].row /\ e[i].col = e[j].col
    BY DEF Place, CellOf
  <2>2. e[i] = e[j]
    BY <1>1, <2>1 DEF NamesOnce, e
  <2> QED
    BY <2>2
<1>7. EditCells # {}
  BY <1>2, <1>4
<1> QED
  BY <1>1, <1>2, <1>4, <1>5, <1>6, <1>7 DEF e

LEMMA BlockLengthFacts ==
    ASSUME Scope, NEW op \in {"put", "delete"}
    PROVE  /\ BlockLength(op) \in Nat \ {0}
           /\ backend = "vast" => BlockLength(op) = Len(Edits[edit])
<1>1. Len(Edits[edit]) \in Nat \ {0} /\ BlockSize \in Nat \ {0}
  BY EditFacts, CellStoreConstants
<1> QED
  BY <1>1 DEF BlockLength

\* Of n things in blocks of b, the i-th one is in one of the blocks.
LEMMA InSomeBlock ==
    ASSUME NEW n \in Nat \ {0}, NEW b \in Nat \ {0}, NEW i \in 1..n
    PROVE  (i - 1) \div b + 1 \in 1..((n + b - 1) \div b)
<1> DEFINE q == (i - 1) \div b
           r == (i - 1) % b
           Q == (n + b - 1) \div b
           R == (n + b - 1) % b
<1>1. q \in Int /\ r \in 0..(b - 1) /\ i - 1 = b * q + r
  OBVIOUS
<1>2. Q \in Int /\ R \in 0..(b - 1) /\ n + b - 1 = b * Q + R
  OBVIOUS
<1> HIDE DEF q, r, Q, R
<1>3. q >= 0
  <2> SUFFICES ASSUME q <= -1 PROVE FALSE
    BY <1>1
  <2>1. b * q <= b * (-1)
    BY <1>1
  <2> QED
    BY <1>1, <2>1
<1>4. q < Q
  <2> SUFFICES ASSUME Q <= q PROVE FALSE
    BY <1>1, <1>2
  <2>1. b * Q <= b * q
    BY <1>1, <1>2
  <2> QED
    BY <1>1, <1>2, <2>1
<1> QED
  BY <1>1, <1>2, <1>3, <1>4 DEF q, Q

\* The blocks of a call hold the cells of the edit, and no others.
LEMMA BlockFacts ==
    ASSUME Scope, NEW op \in {"put", "delete"}
    PROVE  /\ \A b : Block(op, b) \subseteq EditCells
           /\ Blocks(op) \in Nat \ {0}
           /\ \A c \in EditCells : \E b \in 1..Blocks(op) : c \in Block(op, b)
           /\ backend = "vast" => Blocks(op) = 1 /\ Block(op, 1) = EditCells
<1> DEFINE e == Edits[edit]
           n == Len(Edits[edit])
           l == BlockLength(op)
<1>1. n \in Nat \ {0} /\ DOMAIN e = 1..n /\ l \in Nat \ {0} /\ (backend = "vast" => l = n)
  BY EditFacts, BlockLengthFacts
<1>2. \A b : Block(op, b) \subseteq EditCells
  BY DEF Block, EditCells
<1>3. Blocks(op) = (n + l - 1) \div l
  BY DEF Blocks
<1> HIDE DEF n, l
<1>4. \A i \in 1..n : (i - 1) \div l + 1 \in 1..Blocks(op)
  BY <1>1, <1>3, InSomeBlock
<1>5. Blocks(op) \in Nat \ {0}
  <2>1. Blocks(op) \in Int
    BY <1>1, <1>3
  <2> QED
    BY <1>1, <1>4, <2>1
<1>6. ASSUME NEW c \in EditCells PROVE \E b \in 1..Blocks(op) : c \in Block(op, b)
  <2>1. PICK i \in 1..n : c = CellOf(e[i], mutate_row(last))
    BY <1>1 DEF EditCells
  <2> DEFINE b == (i - 1) \div l + 1
  <2>2. b \in 1..Blocks(op) /\ (i - 1) \div l \in Int
    BY <1>1, <1>4
  <2>3. (i - 1) \div l = b - 1
    BY <2>2
  <2>4. c \in Block(op, b)
    BY <1>1, <2>1, <2>3 DEF Block, l
  <2> QED
    BY <2>2, <2>4
<1>7. ASSUME backend = "vast" PROVE Blocks(op) = 1 /\ Block(op, 1) = EditCells
  <2>1. \A i \in 1..n : (i - 1) \div n = 0
    BY <1>1
  <2>2. (n + n - 1) \div n = 1
    BY <1>1
  <2>3. \A i \in DOMAIN e : (i - 1) \div l = 1 - 1
    BY <1>1, <1>7, <2>1
  <2>4. Block(op, 1) = EditCells
    BY <2>3 DEF Block, EditCells, l
  <2> QED
    BY <1>1, <1>3, <1>7, <2>2, <2>4
<1> QED
  BY <1>2, <1>5, <1>6, <1>7

\* What the proofs use of the edit, now and after a step.
EditSound ==
    /\ Stamp \in Times /\ Stamp = last - Gap(last) /\ Gap(Stamp) = 0
    /\ EditCells \subseteq Cells /\ EditCells # {}
    /\ \A c \in EditCells : c.ts = Stamp
    /\ \A c, d \in EditCells : Place(c) = Place(d) => c = d
    /\ \A op \in {"put", "delete"} :
          /\ \A b : Block(op, b) \subseteq EditCells
          /\ Blocks(op) \in Nat \ {0}
          /\ \A c \in EditCells : \E b \in 1..Blocks(op) : c \in Block(op, b)
          /\ backend = "vast" => Blocks(op) = 1 /\ Block(op, 1) = EditCells

LEMMA EditIsSound == Scope => EditSound
<1> SUFFICES ASSUME Scope PROVE EditSound
  OBVIOUS
<1>1. Stamp \in Times /\ Stamp = last - Gap(last) /\ Gap(Stamp) = 0
  BY StampIs, CellStoreConstants DEF Scope, Times
<1>2. \A op \in {"put", "delete"} :
          /\ \A b : Block(op, b) \subseteq EditCells
          /\ Blocks(op) \in Nat \ {0}
          /\ \A c \in EditCells : \E b \in 1..Blocks(op) : c \in Block(op, b)
          /\ backend = "vast" => Blocks(op) = 1 /\ Block(op, 1) = EditCells
  BY BlockFacts
<1> QED
  BY <1>1, <1>2, EditFacts DEF EditSound

LEMMA EditIsSoundNext == Scope' => EditSound'
  BY EditIsSound, PTL

LEMMA SameStamp ==
    ASSUME UNCHANGED <<backend, last>>
    PROVE  mutate_row(last)' = mutate_row(last) /\ Stamp' = Stamp
<1>1. mutate_row(last)' = mutate_row(last)
  BY Zenon DEF mutate_row, get_vast_compatible_time_stamp, Gap
<1> QED
  BY <1>1 DEF Stamp

\* The same edit, with the same time stamp, has the same cells in the same blocks.
LEMMA SameCells ==
    ASSUME UNCHANGED <<backend, edit, last>>
    PROVE  /\ Stamp' = Stamp /\ EditCells' = EditCells
           /\ \A op, b : Block(op, b)' = Block(op, b)
           /\ \A op : Blocks(op)' = Blocks(op)
<1>1. mutate_row(last)' = mutate_row(last)
  BY SameStamp
<1>2. \A op : BlockLength(op)' = BlockLength(op)
  BY DEF BlockLength
<1>3. \A op, b : Block(op, b)' = Block(op, b)
  BY <1>1, <1>2 DEF Block
<1>4. \A op : Blocks(op)' = Blocks(op)
  BY <1>2 DEF Blocks
<1> QED
  BY <1>1, <1>3, <1>4 DEF Stamp, EditCells

-----------------------------------------------------------------------------
(* The forms of the steps.                                                  *)

Calls == [op : {"put", "delete"}, block : Nat \ {0}, todo : SUBSET Cells,
          attempt : 1..MaxAttempts, missed : SUBSET AllPlaces]

\* A running call after a request or an answer.
Becomes(todo, block, attempt, missed) ==
    call' = [op |-> call.op, block |-> block, todo |-> todo, attempt |-> attempt,
             missed |-> missed]

\* What the steps of a call leave alone: the edit is the same one.
SameEdit == UNCHANGED <<backend, edit, last, truth>>

Writes ==
    /\ call = Idle /\ edit <= Len(Edits)
    /\ \E t \in Times : t - Gap(t) > last - Gap(last) /\ AcceptsTimeStamp(t) /\ last' = t
    /\ UNCHANGED <<backend, cells, several, late, edit, truth, repeated>>
    /\ call' = Started("put", {})'
    /\ doubt' = doubt \cup Places(EditCells)'
Begins(op, missed) ==
    /\ call \in {Failed, Undo} /\ (op = "put" => call = Failed)
    /\ op = "delete" => \A r \in late : r.op = "put" => Places(r.cells) \subseteq missed
    /\ call' = Started(op, missed)
    /\ repeated' = IF backend = "vast" /\ op = "put" THEN repeated \cup Places(EditCells)
                                                    ELSE repeated
    /\ SameEdit /\ UNCHANGED <<cells, several, late, doubt>>
Serves(S) ==
    /\ Running /\ S \subseteq call.todo /\ S # {}
    /\ backend = "vast" => S = call.todo
    /\ Handle(call.op, S)
    /\ Becomes(call.todo \ S, call.block, call.attempt, call.missed)
    /\ SameEdit /\ UNCHANGED <<late, doubt, repeated>>
Skips(c) ==
    /\ call.op = "delete" /\ c \in call.todo /\ backend = "hbase"
    /\ Becomes(call.todo \ {c}, call.block, call.attempt, call.missed \cup {Place(c)})
    /\ SameEdit /\ UNCHANGED <<cells, several, late, doubt, repeated>>
GoesOn ==
    /\ Running /\ call.todo = {} /\ call.block < Blocks(call.op)
    /\ Becomes(Block(call.op, call.block + 1), call.block + 1, 1, call.missed)
    /\ SameEdit /\ UNCHANGED <<cells, several, late, doubt, repeated>>
Resends ==
    /\ Running /\ call.attempt < MaxAttempts /\ backend # "vast"
    /\ GiveUp
    /\ Becomes(Block(call.op, call.block), call.block, call.attempt + 1, call.missed)
    /\ SameEdit /\ UNCHANGED <<cells, several, doubt, repeated>>
Raises ==
    /\ Running /\ GiveUp
    /\ call' = IF call.op = "put" THEN Failed ELSE Undo
    /\ SameEdit /\ UNCHANGED <<cells, several, doubt, repeated>>
ServesLate(r) ==
    /\ r \in late /\ Handle(r.op, r.cells) /\ late' = late \ {r}
    /\ SameEdit /\ UNCHANGED <<call, doubt, repeated>>

LEMMA CallForms ==
    ASSUME TypeOK
    PROVE  /\ call \in {Idle, Failed, Undo} \cup Calls
           /\ Running <=> call \in Calls
           /\ Running => /\ call.op \in {"put", "delete"} /\ call.block \in Nat \ {0}
                         /\ call.todo \subseteq Cells /\ call.attempt \in 1..MaxAttempts
                         /\ call.missed \subseteq AllPlaces
           /\ call = Idle <=> call.op = "none"
           /\ call = Failed <=> call.op = "failed"
           /\ call = Undo <=> call.op = "undo"
<1>1. call \in {Idle, Failed, Undo} \cup Calls
  BY DEF TypeOK, Calls
<1>2. CASE call \in {Idle, Failed, Undo}
  BY <1>2 DEF Idle, Failed, Undo, Running, Calls
<1>3. CASE call \in Calls
  BY <1>3 DEF Idle, Failed, Undo, Running, Calls
<1> QED
  BY <1>1, <1>2, <1>3

\* The updates of a running call.
LEMMA CallUpdates ==
    ASSUME TypeOK, Running
    PROVE  /\ \A S : call' = [call EXCEPT !.todo = @ \ S]
                     => Becomes(call.todo \ S, call.block, call.attempt, call.missed)
           /\ call' = [call EXCEPT !.todo = {}]
                     => Becomes({}, call.block, call.attempt, call.missed)
           /\ \A c : call' = [call EXCEPT !.todo = @ \ {c}, !.missed = @ \cup {Place(c)}]
                     => Becomes(call.todo \ {c}, call.block, call.attempt,
                                call.missed \cup {Place(c)})
           /\ \A S : call' = [call EXCEPT !.block = @ + 1, !.todo = S, !.attempt = 1]
                     => Becomes(S, call.block + 1, 1, call.missed)
           /\ \A S : call' = [call EXCEPT !.attempt = @ + 1, !.todo = S]
                     => Becomes(S, call.block, call.attempt + 1, call.missed)
<1>1. call \in Calls
  BY CallForms
<1> QED
  BY <1>1 DEF Calls, Becomes

LEMMA StepForms ==
    ASSUME TypeOK, StoreNext
    PROVE  \/ Writes \/ (\E op \in {"put", "delete"}, missed \in SUBSET AllPlaces : Begins(op, missed))
           \/ (\E S : Serves(S)) \/ (\E c : Skips(c)) \/ GoesOn \/ Resends \/ Raises
           \/ (\E r \in late : ServesLate(r)) \/ ReturnWrite \/ ReturnDelete
<1> USE DEF SameEdit
<1>1. CASE Write
  BY <1>1 DEF Write, Writes
<1>2. CASE WriteAgain
  <2>1. Begins("put", {})
    BY <1>2 DEF WriteAgain, Begins
  <2> QED
    BY <2>1
<1>3. CASE UndoWrite
  <2> DEFINE missed == UNION {Places(r.cells) : r \in {q \in late : q.op = "put"}}
  <2>1. \A r \in late : Places(r.cells) \subseteq AllPlaces
    BY DEF TypeOK, Requests, Cells, AllPlaces, Places, Place
  <2>2. missed \in SUBSET AllPlaces
    BY <2>1
  <2>3. \A r \in late : r.op = "put" => Places(r.cells) \subseteq missed
    OBVIOUS
  <2>4. call \in {Failed, Undo} /\ call' = Started("delete", missed)
        /\ UNCHANGED <<backend, edit, last, truth, cells, several, late, doubt, repeated>>
    BY <1>3 DEF UndoWrite
  <2> HIDE DEF missed
  <2>5. Begins("delete", missed)
    BY <2>3, <2>4 DEF Begins
  <2> QED
    BY <2>2, <2>5
<1>4. CASE ServeRow
  <2>1. PICK c \in call.todo : /\ Handle(call.op, {c})
                              /\ call' = [call EXCEPT !.todo = @ \ {c}]
    BY <1>4 DEF ServeRow
  <2>2. Becomes(call.todo \ {c}, call.block, call.attempt, call.missed)
    BY <1>4, <2>1, CallUpdates DEF ServeRow
  <2>3. Serves({c})
    BY <1>4, <2>1, <2>2 DEF ServeRow, Serves
  <2> QED
    BY <2>3
<1>5. CASE ServeTransaction
  <2>1. Becomes(call.todo \ call.todo, call.block, call.attempt, call.missed)
    BY <1>5, CallUpdates DEF ServeTransaction
  <2>2. Serves(call.todo)
    BY <1>5, <2>1 DEF ServeTransaction, Serves
  <2> QED
    BY <2>2
<1>6. CASE DeleteIgnoresError
  <2>1. PICK c \in call.todo :
          call' = [call EXCEPT !.todo = @ \ {c}, !.missed = @ \cup {Place(c)}]
    BY <1>6 DEF DeleteIgnoresError
  <2>2. Running
    BY <1>6 DEF DeleteIgnoresError, Running
  <2>3. Becomes(call.todo \ {c}, call.block, call.attempt, call.missed \cup {Place(c)})
    BY <2>1, <2>2, CallUpdates
  <2>4. Skips(c)
    BY <1>6, <2>1, <2>3 DEF DeleteIgnoresError, Skips
  <2> QED
    BY <2>4
<1>7. CASE NextBlock
  BY <1>7, CallUpdates DEF NextBlock, GoesOn
<1>8. CASE Retry
  BY <1>8, CallUpdates DEF Retry, Resends
<1>9. CASE Raise
  BY <1>9 DEF Raise, Raises
<1>10. CASE ServeLate
  BY <1>10 DEF ServeLate, ServesLate
<1>11. CASE ReturnWrite \/ ReturnDelete
  BY <1>11
<1> QED
  BY <1>1, <1>2, <1>3, <1>4, <1>5, <1>6, <1>7, <1>8, <1>9, <1>10, <1>11 DEF StoreNext

-----------------------------------------------------------------------------
(* Types: a call under way works on a block of the edit.                    *)

InBlock ==
    \A op \in {"put", "delete"} : call.op = op =>
        /\ call.block \in 1..Blocks(op)
        /\ \A b \in Nat \ {0} : call.block = b => call.todo \subseteq Block(op, b)

TypeInv ==
    /\ TypeOK /\ WholeInv
    /\ call # Idle => edit <= Len(Edits)
    /\ InBlock
    /\ backend # "vast" => several = {}

LEMMA ScopeOf ==
    ASSUME TypeInv, call # Idle \/ edit <= Len(Edits)
    PROVE  Scope /\ EditSound
<1>1. Scope
  BY DEF TypeInv, TypeOK, Scope
<1> QED
  BY <1>1, EditIsSound

\* A request stores cells, or takes cells away.
LEMMA ApplyType ==
    ASSUME cells \subseteq Cells, NEW op, NEW S, S \subseteq Cells
    PROVE  Apply(op, S) \subseteq Cells
  BY DEF Apply, PutCells, DeleteCells

\* There are several rows of stored cells only, and only in VAST.
LEMMA HandleType ==
    ASSUME several \subseteq cells, backend # "vast" => several = {},
           NEW op, NEW S, Handle(op, S)
    PROVE  several' \subseteq cells' /\ (backend # "vast" => several' = {})
  BY DEF Handle, Apply, PutCells, DeleteCells, Doubled

LEMMA GiveUpType ==
    ASSUME TypeOK, Running, GiveUp
    PROVE  late' \subseteq Requests
<1>1. call.op \in {"put", "delete"} /\ call.todo \subseteq Cells
  BY CallForms
<1>2. \A number \in 0..MaxLate : LeftOver(call.op, call.todo, number) \subseteq Requests
  BY <1>1 DEF LeftOver, Requests
<1> QED
  BY <1>2 DEF GiveUp, TypeOK

\* The running call after a step that keeps the edit.
LEMMA BecomesType ==
    ASSUME TypeInv, Running, SameEdit,
           NEW todo, NEW block \in 1..Blocks(call.op), NEW attempt \in 1..MaxAttempts,
           NEW missed \in SUBSET AllPlaces, todo \subseteq Block(call.op, block),
           Becomes(todo, block, attempt, missed)
    PROVE  call' \in Calls /\ call'.op = call.op /\ InBlock' /\ Running' /\ call' # Idle
<1>1. call.op \in {"put", "delete"} /\ call # Idle
  BY CallForms DEF TypeInv
<1>2. EditSound
  BY <1>1, ScopeOf
<1>3. todo \subseteq Cells /\ block \in Nat \ {0}
  BY <1>1, <1>2 DEF EditSound
<1>4. call' = [op |-> call.op, block |-> block, todo |-> todo, attempt |-> attempt,
               missed |-> missed]
  BY DEF Becomes
<1>5. call' \in Calls /\ Running' /\ call' # Idle
  BY <1>1, <1>3, <1>4 DEF Calls, Running, Idle
<1>6. \A op, b : Block(op, b)' = Block(op, b)
  BY SameCells DEF SameEdit
<1>7. \A op : Blocks(op)' = Blocks(op)
  BY SameCells DEF SameEdit
<1>8. InBlock'
  BY <1>4, <1>6, <1>7 DEF InBlock
<1> QED
  BY <1>4, <1>5, <1>8

\* What is left of the type invariant when WholeInv is kept by every step.
LEMMA TypeParts ==
    ASSUME TypeInv, WholeInv', SameEdit, cells' \subseteq Cells, late' \subseteq Requests,
           doubt' \subseteq AllPlaces, repeated' \subseteq AllPlaces,
           several' \subseteq cells', backend # "vast" => several' = {},
           call # Idle, call' \in {Failed, Undo} \cup Calls, InBlock'
    PROVE  TypeInv'
  BY DEF TypeInv, TypeOK, SameEdit, Calls

LEMMA NoBlock ==
    ASSUME call' \in {Idle, Failed, Undo}
    PROVE  InBlock' /\ ~Running'
  BY DEF InBlock, Idle, Failed, Undo, Running

LEMMA TypeWrites == TypeInv /\ WholeInv' /\ Writes => TypeInv'
<1> SUFFICES ASSUME TypeInv, WholeInv', Writes PROVE TypeInv'
  OBVIOUS
<1>1. Scope'
  BY DEF Writes, TypeInv, TypeOK, Scope
<1>2. EditSound'
  BY <1>1, EditIsSoundNext
<1>3. call' = [op |-> "put", block |-> 1, todo |-> Block("put", 1)', attempt |-> 1,
               missed |-> {}]
  BY DEF Writes, Started
<1>4. Block("put", 1)' \subseteq Cells /\ Blocks("put")' \in Nat \ {0}
  BY <1>2 DEF EditSound
<1>5. call' \in Calls
  BY <1>3, <1>4, CellStoreConstants DEF Calls
<1>6. InBlock'
  BY <1>3, <1>4 DEF InBlock
<1>7. doubt' \subseteq AllPlaces
  <2>1. \A c \in Cells : Place(c) \in AllPlaces
    BY DEF Cells, AllPlaces, Place
  <2>2. EditCells' \subseteq Cells
    BY <1>2 DEF EditSound
  <2> QED
    BY <2>1, <2>2 DEF Writes, TypeInv, TypeOK, Places
<1> QED
  BY <1>1, <1>5, <1>6, <1>7 DEF Writes, TypeInv, TypeOK, Calls, Scope

LEMMA TypeBegins ==
    ASSUME TypeInv, WholeInv', NEW op \in {"put", "delete"}, NEW missed \in SUBSET AllPlaces,
           Begins(op, missed)
    PROVE  TypeInv'
<1>1. EditSound /\ call # Idle
  BY ScopeOf DEF Begins, Idle, Failed, Undo
<1>2. call' = [op |-> op, block |-> 1, todo |-> Block(op, 1), attempt |-> 1,
               missed |-> missed]
  BY DEF Begins, Started
<1>3. Block(op, 1) \subseteq Cells /\ Blocks(op) \in Nat \ {0}
  BY <1>1 DEF EditSound
<1>4. call' \in Calls
  BY <1>2, <1>3, CellStoreConstants DEF Calls
<1>5. \A o, b : Block(o, b)' = Block(o, b)
  BY SameCells DEF SameEdit, Begins
<1>6. \A o : Blocks(o)' = Blocks(o)
  BY SameCells DEF SameEdit, Begins
<1>7. InBlock'
  BY <1>2, <1>3, <1>5, <1>6 DEF InBlock
<1>8. repeated' \subseteq AllPlaces
  <2>1. \A c \in EditCells : Place(c) \in AllPlaces
    BY <1>1 DEF EditSound, Cells, AllPlaces, Place
  <2> QED
    BY <2>1 DEF Begins, TypeInv, TypeOK, Places
<1> QED
  BY <1>1, <1>4, <1>7, <1>8, TypeParts DEF Begins, TypeInv, TypeOK

LEMMA TypeNext == TypeInv /\ StoreNext => TypeInv'
<1> SUFFICES ASSUME TypeInv, StoreNext PROVE TypeInv'
  OBVIOUS
<1>0. TypeOK /\ WholeInv' /\ cells \subseteq Cells /\ late \subseteq Requests
      /\ doubt \subseteq AllPlaces /\ truth \subseteq Cells /\ repeated \subseteq AllPlaces
      /\ several \subseteq cells /\ (backend # "vast" => several = {})
  BY StepStore DEF TypeInv, TypeOK
<1>a. Running => /\ call # Idle /\ EditSound
                 /\ call.op \in {"put", "delete"} /\ call.block \in 1..Blocks(call.op)
                 /\ call.todo \subseteq Block(call.op, call.block) /\ call.todo \subseteq Cells
                 /\ call.attempt \in 1..MaxAttempts /\ call.missed \in SUBSET AllPlaces
                 /\ Blocks(call.op) \in Nat \ {0}
  <2> SUFFICES ASSUME Running
               PROVE  /\ call # Idle /\ EditSound
                      /\ call.op \in {"put", "delete"} /\ call.block \in 1..Blocks(call.op)
                      /\ call.todo \subseteq Block(call.op, call.block)
                      /\ call.todo \subseteq Cells
                      /\ call.attempt \in 1..MaxAttempts /\ call.missed \in SUBSET AllPlaces
                      /\ Blocks(call.op) \in Nat \ {0}
    OBVIOUS
  <2>1. /\ call # Idle /\ call.op \in {"put", "delete"} /\ call.block \in Nat \ {0}
        /\ call.todo \subseteq Cells
        /\ call.attempt \in 1..MaxAttempts /\ call.missed \in SUBSET AllPlaces
    BY <1>0, CallForms
  <2>2. EditSound
    BY <2>1, ScopeOf
  <2> QED
    BY <2>1, <2>2 DEF TypeInv, InBlock, EditSound
<1>1. CASE Writes
  BY <1>0, <1>1, TypeWrites
<1>2. CASE \E op \in {"put", "delete"}, missed \in SUBSET AllPlaces : Begins(op, missed)
  BY <1>0, <1>2, TypeBegins
<1>3. ASSUME NEW S, Serves(S) PROVE TypeInv'
  <2>1. Running /\ S \subseteq call.todo /\ SameEdit
    BY <1>3 DEF Serves
  <2>2. cells' \subseteq Cells
    BY <1>0, <1>3, <1>a, <2>1, ApplyType DEF Serves, Handle
  <2>3. call' \in Calls /\ InBlock'
    BY <1>3, <1>a, <2>1, BecomesType DEF Serves
  <2>4. several' \subseteq cells' /\ (backend # "vast" => several' = {})
    BY <1>0, <1>3, HandleType DEF Serves
  <2> QED
    BY <1>0, <1>3, <1>a, <2>1, <2>2, <2>3, <2>4, TypeParts DEF Serves
<1>4. ASSUME NEW c, Skips(c) PROVE TypeInv'
  <2>1. Running /\ c \in call.todo /\ SameEdit
    BY <1>4 DEF Skips, Running
  <2>2. call.missed \cup {Place(c)} \in SUBSET AllPlaces
    BY <1>a, <2>1 DEF Cells, AllPlaces, Place
  <2>3. call' \in Calls /\ InBlock'
    BY <1>4, <1>a, <2>1, <2>2, BecomesType DEF Skips
  <2> QED
    BY <1>0, <1>4, <1>a, <2>1, <2>3, TypeParts DEF Skips
<1>5. CASE GoesOn
  <2>1. Running /\ SameEdit /\ call.block + 1 \in 1..Blocks(call.op) /\ 1 \in 1..MaxAttempts
    BY <1>5, <1>a, CellStoreConstants DEF GoesOn
  <2>2. call' \in Calls /\ InBlock'
    BY <1>5, <1>a, <2>1, BecomesType DEF GoesOn
  <2> QED
    BY <1>0, <1>5, <1>a, <2>1, <2>2, TypeParts DEF GoesOn
<1>6. CASE Resends
  <2>1. Running /\ SameEdit /\ call.attempt + 1 \in 1..MaxAttempts
    BY <1>6, <1>a, CellStoreConstants DEF Resends
  <2>2. call' \in Calls /\ InBlock'
    BY <1>6, <1>a, <2>1, BecomesType DEF Resends
  <2>3. late' \subseteq Requests
    BY <1>0, <1>6, GiveUpType DEF Resends
  <2> QED
    BY <1>0, <1>6, <1>a, <2>1, <2>2, <2>3, TypeParts DEF Resends
<1>7. CASE Raises
  <2>1. late' \subseteq Requests
    BY <1>0, <1>7, GiveUpType DEF Raises
  <2>2. call' \in {Failed, Undo}
    BY <1>7 DEF Raises
  <2> QED
    BY <1>0, <1>7, <1>a, <2>1, <2>2, NoBlock, TypeParts DEF Raises
<1>8. ASSUME NEW r \in late, ServesLate(r) PROVE TypeInv'
  <2>1. r.cells \subseteq Cells
    BY <1>0 DEF Requests
  <2>2. cells' \subseteq Cells
    BY <1>0, <1>8, <2>1, ApplyType DEF ServesLate, Handle
  <2>3. \A o, b : Block(o, b)' = Block(o, b)
    BY <1>8, SameCells DEF SameEdit, ServesLate
  <2>4. \A o : Blocks(o)' = Blocks(o)
    BY <1>8, SameCells DEF SameEdit, ServesLate
  <2>5. InBlock'
    BY <1>8, <2>3, <2>4 DEF InBlock, TypeInv, ServesLate
  <2>6. late' \subseteq Requests
    BY <1>0, <1>8 DEF ServesLate
  <2>7. several' \subseteq cells' /\ (backend # "vast" => several' = {})
    BY <1>0, <1>8, HandleType DEF ServesLate
  <2> QED
    BY <1>0, <1>8, <2>2, <2>5, <2>6, <2>7 DEF ServesLate, TypeInv, TypeOK, SameEdit
<1>9. CASE ReturnWrite
  <2>1. Running
    BY <1>9 DEF ReturnWrite, Running
  <2>2. edit' \in 1..(Len(Edits) + 1)
    BY <1>9, <1>a, <2>1, CellStoreConstants DEF ReturnWrite, TypeInv, TypeOK
  <2>3. truth' \subseteq Cells
    BY <1>0, <1>9, <1>a, <2>1 DEF ReturnWrite, EditSound
  <2> QED
    BY <1>0, <1>9, <2>2, <2>3, NoBlock DEF ReturnWrite, TypeInv, TypeOK
<1>10. CASE ReturnDelete
  BY <1>0, <1>10, NoBlock DEF ReturnDelete, TypeInv, TypeOK
<1> QED
  BY <1>0, <1>1, <1>2, <1>3, <1>4, <1>5, <1>6, <1>7, <1>8, <1>9, <1>10, StepForms

LEMMA StoreInitTypes == StoreInit => TypeInv
<1> SUFFICES ASSUME StoreInit PROVE TypeInv
  OBVIOUS
<1>1. WholeInv
  BY StoreInitWhole
<1>2. \A m \in Mutations : CellOf(m, 0) \in Cells
  BY CellStoreConstants DEF CellOf, Cells, Times, Mutations
<1>3. cells \subseteq Cells /\ truth \subseteq Cells
  BY <1>2, CellStoreConstants DEF StoreInit
<1>4. edit \in 1..(Len(Edits) + 1) /\ last \in Times
  BY CellStoreConstants DEF StoreInit, Times
<1> QED
  BY <1>1, <1>3, <1>4 DEF StoreInit, TypeInv, TypeOK, InBlock, Idle

LEMMA TypeNextBox == TypeInv /\ [StoreNext]_storeVars => TypeInv'
<1>1. ASSUME TypeInv, UNCHANGED storeVars PROVE TypeInv'
  <2>1. WholeInv'
    BY <1>1, StepStoreBox DEF TypeInv
  <2>2. \A o, b : Block(o, b)' = Block(o, b)
    BY <1>1, SameCells DEF storeVars
  <2>3. \A o : Blocks(o)' = Blocks(o)
    BY <1>1, SameCells DEF storeVars
  <2> QED
    BY <1>1, <2>1, <2>2, <2>3 DEF storeVars, TypeInv, TypeOK, InBlock
<1> QED
  BY <1>1, TypeNext

\* The variables have their types, and a call works on its edit, block by block.
THEOREM StoreTypes == StoreSpec => []TypeInv
  BY StoreInitTypes, TypeNextBox, PTL DEF StoreSpec

\* The variables have their types.
THEOREM TypeCorrect == StoreSpec => []TypeOK
<1>1. TypeInv => TypeOK
  BY DEF TypeInv
<1> QED
  BY <1>1, StoreTypes, PTL

-----------------------------------------------------------------------------
(* What the requests do to the table.                                       *)

LEMMA PutStores ==
    ASSUME NEW S, cells' = Apply("put", S)
    PROVE  \A x : x \in cells' <=>
                x \in S \/ (x \in cells /\ (backend = "vast" \/ \A s \in S : Place(s) # Place(x)))
  BY DEF Apply, PutCells, Places

LEMMA DeleteTakes ==
    ASSUME WholeInv, NEW S, Whole(S), cells' = Apply("delete", S)
    PROVE  \A x : x \in cells' <=> x \in cells /\ \A s \in S : Place(s) # Place(x)
<1>1. \A s \in S : Named(s) = {x \in cells : Place(x) = Place(s)}
  BY DeleteIsExact DEF WholeInv, Whole
<1>2. cells' = cells \ UNION {Named(s) : s \in S}
  BY DEF Apply, DeleteCells
<1> QED
  BY <1>1, <1>2

\* Whatever the request, only its own cells are new.
LEMMA ApplyAdds ==
    ASSUME NEW op, NEW S, cells' = Apply(op, S)
    PROVE  \A x \in cells' : x \in cells \/ x \in S
  BY DEF Apply, PutCells, DeleteCells

\* What the client gave up on is part of what was left to do.
LEMMA GivenUp ==
    ASSUME GiveUp
    PROVE  \A r \in late' : \/ r \in late
                            \/ /\ r.op = call.op /\ r.cells \subseteq call.todo
                               /\ backend = "vast" => r.cells = call.todo
  BY DEF GiveUp, LeftOver

\* Of a transaction of VAST it is one request.
LEMMA GivenUpOnce ==
    ASSUME GiveUp, backend = "vast"
    PROVE  \E number : \A r \in late' :
              r \in late \/ r = [op |-> call.op, cells |-> call.todo, number |-> number]
  BY DEF GiveUp, LeftOver

-----------------------------------------------------------------------------
(* Time stamps: they are whole, none is later than that of the edit, and    *)
(* only cells of the edit have its own.                                     *)

StampInv ==
    /\ Whole(truth)
    /\ \A c \in cells \cup truth : c.ts <= Stamp
    /\ \A r \in late : \A c \in r.cells : c.ts <= Stamp
    /\ call # Idle =>
          /\ \A c \in truth : c.ts < Stamp
          /\ \A c \in cells : c.ts = Stamp => c \in EditCells
          /\ \A r \in late : \A c \in r.cells : c.ts = Stamp => c \in EditCells

LEMMA RunningFacts ==
    ASSUME TypeInv, Running
    PROVE  /\ call # Idle /\ EditSound
           /\ call.op \in {"put", "delete"} /\ call.block \in 1..Blocks(call.op)
           /\ call.todo \subseteq Block(call.op, call.block) /\ call.todo \subseteq EditCells
           /\ call.todo \subseteq Cells
           /\ call.block \in Nat \ {0} /\ Blocks(call.op) \in Nat \ {0}
           /\ call.missed \subseteq AllPlaces
<1>1. /\ call # Idle /\ call.op \in {"put", "delete"} /\ call.block \in Nat \ {0}
      /\ call.todo \subseteq Cells /\ call.missed \subseteq AllPlaces
  BY CallForms DEF TypeInv
<1>2. EditSound
  BY <1>1, ScopeOf
<1>3. call.block \in 1..Blocks(call.op) /\ call.todo \subseteq Block(call.op, call.block)
  BY <1>1 DEF TypeInv, InBlock
<1>4. call.todo \subseteq EditCells /\ Blocks(call.op) \in Nat \ {0}
  BY <1>1, <1>2, <1>3 DEF EditSound
<1> QED
  BY <1>1, <1>2, <1>3, <1>4

\* A step that adds no cells but those of the edit, or of a late request.
LEMMA StampKept ==
    ASSUME TypeInv, StampInv, SameEdit, call' # Idle => call # Idle,
           \A c \in cells' : \/ c \in cells \/ (call # Idle /\ c \in EditCells)
                             \/ \E r \in late : c \in r.cells,
           \A r \in late' : r \in late \/ (call # Idle /\ r.cells \subseteq EditCells)
    PROVE  StampInv'
<1>1. Stamp' = Stamp /\ EditCells' = EditCells
  BY SameCells DEF SameEdit
<1>2. Stamp \in Nat
  BY StampIs DEF TypeInv
<1>3. call # Idle => \A c \in EditCells : c.ts = Stamp
  BY ScopeOf DEF EditSound
<1>4. Whole(truth)'
  BY DEF StampInv, Whole, SameEdit
<1> QED
  BY <1>1, <1>2, <1>3, <1>4 DEF StampInv, SameEdit

LEMMA StampNext == TypeInv /\ TypeInv' /\ StampInv /\ StoreNext => StampInv'
<1> SUFFICES ASSUME TypeInv, TypeInv', StampInv, StoreNext PROVE StampInv'
  OBVIOUS
<1>0. TypeOK /\ Stamp \in Nat /\ truth \subseteq Cells /\ cells \subseteq Cells
      /\ late \subseteq Requests
  BY StampIs DEF TypeInv, TypeOK
<1>1. CASE Writes
  <2>1. EditSound
    BY <1>1, ScopeOf DEF Writes
  <2>2. call' # Idle
    BY <1>1 DEF Writes, Started, Idle
  <2>3. Scope'
    BY <2>2 DEF TypeInv, TypeOK, Scope
  <2>4. EditSound'
    BY <2>3, EditIsSoundNext
  <2>5. Stamp' > Stamp
    BY <1>1, <2>1, <2>4 DEF Writes, EditSound, Gap
  <2>6. Stamp' \in Nat
    BY <2>4, CellStoreConstants DEF EditSound, Times
  <2>7. \A c \in Cells : c.ts \in Nat
    BY CellStoreConstants DEF Cells, Times
  <2>8. \A r \in late : r.cells \subseteq Cells
    BY <1>0 DEF Requests
  <2>9. UNCHANGED <<cells, truth, late>>
    BY <1>1 DEF Writes
  <2>10. /\ \A c \in cells \cup truth : c.ts < Stamp'
         /\ \A r \in late : \A c \in r.cells : c.ts < Stamp'
    BY <1>0, <2>5, <2>6, <2>7, <2>8 DEF StampInv
  <2>11. /\ \A c \in cells \cup truth : c.ts \in Nat
         /\ \A r \in late : \A c \in r.cells : c.ts \in Nat
    BY <1>0, <2>7, <2>8
  <2>12. Whole(truth)'
    BY <2>9 DEF StampInv, Whole
  <2> QED
    BY <2>6, <2>9, <2>10, <2>11, <2>12 DEF StampInv
<1>2. CASE \E op \in {"put", "delete"}, missed \in SUBSET AllPlaces : Begins(op, missed)
  <2>1. call # Idle
    BY <1>2 DEF Begins, Idle, Failed, Undo
  <2> QED
    BY <1>2, <2>1, StampKept DEF Begins
<1>3. ASSUME NEW S, Serves(S) PROVE StampInv'
  <2>1. call # Idle /\ S \subseteq EditCells
    BY <1>3, RunningFacts DEF Serves
  <2>2. \A x \in cells' : x \in cells \/ x \in S
    BY <1>3, ApplyAdds DEF Serves, Handle
  <2> QED
    BY <1>3, <2>1, <2>2, StampKept DEF Serves
<1>4. ASSUME NEW c, Skips(c) PROVE StampInv'
  <2>1. call # Idle
    BY <1>4, RunningFacts DEF Skips, Running
  <2> QED
    BY <1>4, <2>1, StampKept DEF Skips
<1>5. CASE GoesOn
  <2>1. call # Idle
    BY <1>5, RunningFacts DEF GoesOn
  <2> QED
    BY <1>5, <2>1, StampKept DEF GoesOn
<1>6. CASE Resends \/ Raises
  <2>1. Running /\ GiveUp /\ SameEdit /\ cells' = cells
    BY <1>6 DEF Resends, Raises
  <2>2. call # Idle /\ call.todo \subseteq EditCells
    BY <2>1, RunningFacts
  <2>3. \A r \in late' : r \in late \/ r.cells \subseteq EditCells
    BY <2>1, <2>2, GivenUp
  <2> QED
    BY <2>1, <2>2, <2>3, StampKept
<1>7. ASSUME NEW r \in late, ServesLate(r) PROVE StampInv'
  <2>1. \A x \in cells' : x \in cells \/ x \in r.cells
    BY <1>7, ApplyAdds DEF ServesLate, Handle
  <2> QED
    BY <1>7, <2>1, StampKept DEF ServesLate
<1>8. CASE ReturnWrite
  <2>1. call # Idle /\ EditSound
    BY <1>8, RunningFacts DEF ReturnWrite, Running
  <2>2. Stamp' = Stamp
    BY <1>8, SameStamp DEF ReturnWrite
  <2>3. \A c \in truth' : c.ts <= Stamp
    BY <1>0, <1>8, <2>1 DEF ReturnWrite, EditSound, StampInv
  <2>4. call' = Idle /\ UNCHANGED <<cells, late>>
    BY <1>8 DEF ReturnWrite
  <2>5. Whole(truth)'
    BY <1>0, <1>8, <2>1 DEF ReturnWrite, EditSound, StampInv, Whole
  <2> QED
    BY <2>2, <2>3, <2>4, <2>5 DEF StampInv
<1>9. CASE ReturnDelete
  <2>1. call' = Idle /\ SameEdit /\ UNCHANGED <<cells, late>>
    BY <1>9 DEF ReturnDelete, SameEdit
  <2> QED
    BY <2>1, StampKept
<1> QED
  BY <1>0, <1>1, <1>2, <1>3, <1>4, <1>5, <1>6, <1>7, <1>8, <1>9, StepForms

-----------------------------------------------------------------------------
(* What calls returned as written is stored.                                *)

\* The cells of the blocks that the call is done with, and of its block those
\* that are no longer to do.
Done(op) ==
    {c \in EditCells : \E b \in 1..call.block :
        c \in Block(op, b) /\ (b = call.block => c \notin call.todo)}

CallInv ==
    /\ call # Idle => \A c \in EditCells : Place(c) \in doubt
    /\ call.op = "put" => Done("put") \subseteq cells
    /\ call.op = "delete" =>
          \A c \in Done("delete") : \A x \in cells : Place(x) = Place(c) => Place(c) \in call.missed

\* A late put writes what is stored, or in doubt; a delete under way knows of
\* it.  A late delete takes nothing that was returned, nor what is now written.
LateInv ==
    \A r \in late :
        /\ r.op = "put" => \A c \in r.cells :
              /\ c \in truth \/ Place(c) \in doubt
              /\ call.op = "delete" => Place(c) \in call.missed
        /\ r.op = "delete" => \A c \in r.cells :
              /\ \A t \in truth : Place(t) # Place(c)
              /\ call.op \in {"put", "failed"} => c.ts < Stamp

TruthInv == \A c, d \in truth : Place(c) = Place(d) => c = d

Returned == \A c \in cells \cup truth : Place(c) \notin doubt => c \in cells /\ c \in truth

LEMMA ReturnedIs == Returned <=> Certain = {c \in truth : Place(c) \notin doubt}
  BY DEF Returned, Certain

ReturnInv == CallInv /\ LateInv /\ TruthInv /\ Returned

\* The blocks that are done make up the edit when the last one is.
LEMMA AllDone ==
    ASSUME TypeInv, NEW op \in {"put", "delete"}, call.op = op, call.todo = {},
           call.block = Blocks(op)
    PROVE  EditCells \subseteq Done(op)
<1>1. EditSound
  BY RunningFacts DEF Running
<1> QED
  BY <1>1 DEF EditSound, Done

\* A call's cells of its edit: what a step of the call adds to what is done.
LEMMA DoneGrows ==
    ASSUME TypeInv, Running, SameEdit, NEW S, NEW missed,
           Becomes(call.todo \ S, call.block, call.attempt, missed)
    PROVE  /\ call.op = "put" => Done("put")' \subseteq Done("put") \cup S
           /\ call.op = "delete" => Done("delete")' \subseteq Done("delete") \cup S
<1>1. EditCells' = EditCells
  BY SameCells DEF SameEdit
<1>2. \A op, b : Block(op, b)' = Block(op, b)
  BY SameCells DEF SameEdit
<1>3. call'.block = call.block /\ call'.todo = call.todo \ S /\ call'.op = call.op
  BY DEF Becomes
<1> QED
  BY <1>1, <1>2, <1>3 DEF Done

\* A block begun, or begun again, adds nothing.
LEMMA DoneStays ==
    ASSUME TypeInv, Running, SameEdit, NEW attempt,
           \/ Becomes(Block(call.op, call.block), call.block, attempt, call.missed)
           \/ /\ call.todo = {}
              /\ Becomes(Block(call.op, call.block + 1), call.block + 1, attempt, call.missed)
    PROVE  /\ call.op = "put" => Done("put")' \subseteq Done("put")
           /\ call.op = "delete" => Done("delete")' \subseteq Done("delete")
<1>1. EditCells' = EditCells
  BY SameCells DEF SameEdit
<1>2. \A op, b : Block(op, b)' = Block(op, b)
  BY SameCells DEF SameEdit
<1>3. call.block \in Nat \ {0}
  BY RunningFacts
<1>4. CASE Becomes(Block(call.op, call.block), call.block, attempt, call.missed)
  <2>1. call'.block = call.block /\ call'.todo = Block(call.op, call.block)
        /\ call'.op = call.op
    BY <1>4 DEF Becomes
  <2> QED
    BY <1>1, <1>2, <1>3, <2>1 DEF Done
<1>5. CASE /\ call.todo = {}
           /\ Becomes(Block(call.op, call.block + 1), call.block + 1, attempt, call.missed)
  <2>1. call'.block = call.block + 1 /\ call'.todo = Block(call.op, call.block + 1)
        /\ call'.op = call.op
    BY <1>5 DEF Becomes
  <2> QED
    BY <1>1, <1>2, <1>3, <1>5, <2>1 DEF Done
<1> QED
  BY <1>4, <1>5

\* No cell of the edit under way has the place of a cell that was returned.
LEMMA Apart ==
    ASSUME TypeInv, StampInv, call # Idle
    PROVE  \A t \in truth, c \in EditCells : Place(t) # Place(c)
<1>1. EditSound
  BY ScopeOf
<1>2. \A t \in truth, c \in EditCells : t.ts < Stamp /\ c.ts = Stamp
  BY <1>1 DEF StampInv, EditSound
<1>3. Stamp \in Nat /\ truth \subseteq Cells
  BY StampIs DEF TypeInv, TypeOK
<1>4. \A t \in truth : t.ts \in Nat
  BY <1>3, CellStoreConstants DEF Cells, Times
<1>5. \A t \in truth, c \in EditCells : t.ts # c.ts
  BY <1>2, <1>3, <1>4
<1> QED
  BY <1>5 DEF Place

SetApart == \A t \in truth, c \in EditCells : Place(t) # Place(c)

LEMMA ApartNext ==
    TypeInv' /\ StampInv' /\ call' # Idle => \A t \in truth', c \in EditCells' : Place(t) # Place(c)
<1>1. TypeInv /\ StampInv /\ call # Idle => SetApart
  BY Apart DEF SetApart
<1>2. TypeInv' /\ StampInv' /\ (call # Idle)' => SetApart'
  BY <1>1, PTL
<1> QED
  BY <1>2 DEF SetApart, Idle

\* The steps of a running call that leave the table as it is.
LEMMA ReturnedCallOnly ==
    ASSUME TypeInv, StampInv, ReturnInv, Running, SameEdit, UNCHANGED <<cells, doubt>>,
           call'.op = call.op, call' # Idle, call.missed \subseteq call'.missed,
           call.op = "put" => Done("put")' \subseteq Done("put"),
           call.op = "delete" => \A c \in Done("delete")' :
                                    c \in Done("delete") \/ Place(c) \in call'.missed,
           \A r \in late' : r \in late \/ (r.op = call.op /\ r.cells \subseteq call.todo)
    PROVE  ReturnInv'
<1>1. EditCells' = EditCells /\ Stamp' = Stamp
  BY SameCells DEF SameEdit
<1>2. call # Idle /\ EditSound /\ call.todo \subseteq EditCells /\ call.op \in {"put", "delete"}
  BY RunningFacts
<1>3. CallInv'
  BY <1>1, <1>2 DEF ReturnInv, CallInv
<1>4. \A t \in truth, c \in EditCells : Place(t) # Place(c)
  BY <1>2, Apart
<1>5. LateInv'
  <2> SUFFICES ASSUME NEW r \in late'
               PROVE  /\ r.op = "put" => \A c \in r.cells :
                           /\ c \in truth' \/ Place(c) \in doubt'
                           /\ call'.op = "delete" => Place(c) \in call'.missed
                      /\ r.op = "delete" => \A c \in r.cells :
                           /\ \A t \in truth' : Place(t) # Place(c)
                           /\ call'.op \in {"put", "failed"} => c.ts < Stamp'
    BY DEF LateInv
  <2>1. CASE r \in late
    BY <1>1, <2>1 DEF ReturnInv, LateInv, SameEdit
  <2>2. CASE r.op = call.op /\ r.cells \subseteq call.todo
    <3>1. \A c \in r.cells : Place(c) \in doubt
      BY <1>2, <2>2 DEF ReturnInv, CallInv
    <3>2. r.op = "put" => call'.op # "delete"
      BY <2>2
    <3>3. r.op = "delete" => call'.op \notin {"put", "failed"}
      BY <2>2
    <3>4. \A c \in r.cells : \A t \in truth : Place(t) # Place(c)
      BY <1>2, <1>4, <2>2
    <3> QED
      BY <3>1, <3>2, <3>3, <3>4 DEF SameEdit
  <2> QED
    BY <2>1, <2>2
<1>6. TruthInv' /\ Returned'
  BY DEF ReturnInv, TruthInv, Returned, SameEdit
<1> QED
  BY <1>3, <1>5, <1>6 DEF ReturnInv

LEMMA ReturnedServes ==
    ASSUME TypeInv, StampInv, ReturnInv, NEW S, Serves(S)
    PROVE  ReturnInv'
<1>1. /\ Running /\ SameEdit /\ UNCHANGED <<late, doubt>> /\ S \subseteq call.todo
      /\ cells' = Apply(call.op, S)
      /\ Becomes(call.todo \ S, call.block, call.attempt, call.missed)
  BY DEF Serves, Handle
<1>2. /\ call # Idle /\ EditSound /\ S \subseteq EditCells /\ call.op \in {"put", "delete"}
      /\ WholeInv /\ Whole(S)
  BY <1>1, RunningFacts DEF TypeInv, WholeInv, Whole
<1>3. call'.op = call.op /\ call'.missed = call.missed /\ call' # Idle
  BY <1>1, <1>2 DEF Becomes, Idle
<1>4. EditCells' = EditCells /\ Stamp' = Stamp
  BY <1>1, SameCells DEF SameEdit
<1>5. /\ call.op = "put" => Done("put")' \subseteq Done("put") \cup S
      /\ call.op = "delete" => Done("delete")' \subseteq Done("delete") \cup S
  BY <1>1, DoneGrows
<1>6. \A s \in S : Place(s) \in doubt
  BY <1>2 DEF ReturnInv, CallInv
<1>7. LateInv'
  BY <1>1, <1>3, <1>4 DEF ReturnInv, LateInv, SameEdit
<1>8. TruthInv'
  BY <1>1 DEF ReturnInv, TruthInv, SameEdit
<1>9. CASE call.op = "put"
  <2>1. \A x : x \in cells' <=>
            x \in S \/ (x \in cells /\ (backend = "vast" \/ \A s \in S : Place(s) # Place(x)))
    BY <1>1, <1>9, PutStores
  <2>2. Done("put")' \subseteq cells'
    <3> SUFFICES ASSUME NEW x, x \in Done("put") \cup S PROVE x \in cells'
      BY <1>5, <1>9
    <3>1. CASE x \in S
      BY <2>1, <3>1
    <3>2. CASE x \in Done("put")
      <4>1. x \in EditCells /\ x \in cells
        BY <1>9, <3>2 DEF Done, ReturnInv, CallInv
      <4>2. \A s \in S : Place(s) = Place(x) => s = x
        BY <1>2, <4>1 DEF EditSound
      <4> QED
        BY <2>1, <4>1, <4>2
    <3> QED
      BY <3>1, <3>2
  <2>3. Returned'
    BY <1>1, <1>6, <2>1 DEF ReturnInv, Returned, SameEdit
  <2>4. CallInv'
    BY <1>1, <1>2, <1>3, <1>4, <1>9, <2>2 DEF ReturnInv, CallInv
  <2> QED
    BY <1>7, <1>8, <2>3, <2>4 DEF ReturnInv
<1>10. CASE call.op = "delete"
  <2>1. \A x : x \in cells' <=> x \in cells /\ \A s \in S : Place(s) # Place(x)
    BY <1>1, <1>2, <1>10, DeleteTakes
  <2>2. \A c \in Done("delete")' : \A x \in cells' : Place(x) = Place(c)
                                                        => Place(c) \in call'.missed
    BY <1>3, <1>5, <1>10, <2>1 DEF ReturnInv, CallInv
  <2>3. Returned'
    BY <1>1, <1>6, <2>1 DEF ReturnInv, Returned, SameEdit
  <2>4. CallInv'
    BY <1>1, <1>2, <1>3, <1>4, <1>10, <2>2 DEF ReturnInv, CallInv
  <2> QED
    BY <1>7, <1>8, <2>3, <2>4 DEF ReturnInv
<1> QED
  BY <1>2, <1>9, <1>10

LEMMA ReturnedServesLate ==
    ASSUME TypeInv, StampInv, ReturnInv, NEW r \in late, ServesLate(r)
    PROVE  ReturnInv'
<1>1. /\ SameEdit /\ UNCHANGED <<call, doubt>> /\ cells' = Apply(r.op, r.cells)
      /\ late' = late \ {r}
  BY DEF ServesLate, Handle
<1>2. WholeInv /\ Whole(r.cells) /\ r.op \in {"put", "delete"}
  BY DEF TypeInv, TypeOK, Requests, WholeInv
<1>3. EditCells' = EditCells /\ Stamp' = Stamp /\ \A op, b : Block(op, b)' = Block(op, b)
  BY <1>1, SameCells DEF SameEdit
<1>4. Done("put")' = Done("put") /\ Done("delete")' = Done("delete")
  BY <1>1, <1>3 DEF Done
<1>5. LateInv' /\ TruthInv'
  BY <1>1, <1>3 DEF ReturnInv, LateInv, TruthInv, SameEdit
<1>6. call # Idle => \A c \in EditCells : Place(c) \in doubt
  BY DEF ReturnInv, CallInv
<1>7. call.op = "put" => /\ Done("put") \subseteq cells /\ call # Idle /\ EditSound
                         /\ Done("put") \subseteq EditCells
  BY RunningFacts DEF ReturnInv, CallInv, Done, Running
<1>8. CASE r.op = "put"
  <2>1. \A x : x \in cells' <=> x \in r.cells
            \/ (x \in cells /\ (backend = "vast" \/ \A s \in r.cells : Place(s) # Place(x)))
    BY <1>1, <1>8, PutStores
  <2>2. \A c \in r.cells : /\ c \in truth \/ Place(c) \in doubt
                           /\ call.op = "delete" => Place(c) \in call.missed
    BY <1>8 DEF ReturnInv, LateInv
  <2>3. Returned'
    <3>1. \A x \in truth : \A s \in r.cells : Place(s) = Place(x) /\ Place(x) \notin doubt => s = x
      BY <2>2 DEF ReturnInv, TruthInv
    <3> QED
      BY <1>1, <2>1, <2>2, <3>1 DEF ReturnInv, Returned, SameEdit
  <2>4. call.op = "put" => Done("put") \subseteq cells'
    <3> SUFFICES ASSUME call.op = "put", NEW x \in Done("put") PROVE x \in cells'
      OBVIOUS
    <3>1. x \in cells /\ x \in EditCells /\ x.ts = Stamp /\ call # Idle /\ EditSound
      BY <1>7 DEF EditSound
    <3>2. \A s \in r.cells : Place(s) = Place(x) => s = x
      <4> SUFFICES ASSUME NEW s \in r.cells, Place(s) = Place(x) PROVE s = x
        OBVIOUS
      <4>1. s.ts = Stamp
        BY <3>1 DEF Place
      <4>2. s \in EditCells
        BY <3>1, <4>1 DEF StampInv
      <4> QED
        BY <3>1, <4>2 DEF EditSound
    <3> QED
      BY <2>1, <3>1, <3>2
  <2>5. call.op = "delete" =>
          \A c \in Done("delete") : \A x \in cells' : Place(x) = Place(c)
                                                        => Place(c) \in call.missed
    BY <2>1, <2>2 DEF ReturnInv, CallInv
  <2>6. CallInv'
    BY <1>1, <1>3, <1>4, <1>6, <2>4, <2>5 DEF CallInv
  <2> QED
    BY <1>5, <2>3, <2>6 DEF ReturnInv
<1>9. CASE r.op = "delete"
  <2>1. \A x : x \in cells' <=> x \in cells /\ \A s \in r.cells : Place(s) # Place(x)
    BY <1>1, <1>2, <1>9, DeleteTakes
  <2>2. \A c \in r.cells : /\ \A t \in truth : Place(t) # Place(c)
                           /\ call.op \in {"put", "failed"} => c.ts < Stamp
    BY <1>9 DEF ReturnInv, LateInv
  <2>3. Returned'
    BY <1>1, <2>1, <2>2 DEF ReturnInv, Returned, SameEdit
  <2>4. call.op = "put" => Done("put") \subseteq cells'
    <3> SUFFICES ASSUME call.op = "put", NEW x \in Done("put") PROVE x \in cells'
      OBVIOUS
    <3>1. x \in cells /\ x \in EditCells /\ x.ts = Stamp
      BY <1>7 DEF EditSound
    <3>2. Stamp \in Nat
      BY StampIs DEF TypeInv
    <3>3. \A s \in r.cells : s.ts # x.ts
      BY <2>2, <3>1, <3>2
    <3>4. \A s \in r.cells : Place(s) # Place(x)
      BY <3>3 DEF Place
    <3> QED
      BY <2>1, <3>1, <3>4
  <2>5. call.op = "delete" =>
          \A c \in Done("delete") : \A x \in cells' : Place(x) = Place(c)
                                                        => Place(c) \in call.missed
    BY <2>1 DEF ReturnInv, CallInv
  <2>6. CallInv'
    BY <1>1, <1>3, <1>4, <1>6, <2>4, <2>5 DEF CallInv
  <2> QED
    BY <1>5, <2>3, <2>6 DEF ReturnInv
<1> QED
  BY <1>2, <1>8, <1>9

LEMMA ReturnedBegins ==
    ASSUME TypeInv, StampInv, ReturnInv, NEW op \in {"put", "delete"},
           NEW missed \in SUBSET AllPlaces, Begins(op, missed)
    PROVE  ReturnInv'
<1>1. /\ SameEdit /\ UNCHANGED <<cells, late, doubt>>
      /\ op = "put" => call.op = "failed"
      /\ op = "delete" => \A r \in late : r.op = "put" => Places(r.cells) \subseteq missed
      /\ call # Idle
      /\ call' = [op |-> op, block |-> 1, todo |-> Block(op, 1), attempt |-> 1,
                  missed |-> missed]
  BY DEF Begins, Started, Failed, Undo, Idle
<1>2. EditCells' = EditCells /\ Stamp' = Stamp /\ \A o, b : Block(o, b)' = Block(o, b)
  BY <1>1, SameCells DEF SameEdit
<1>3. call'.op = op /\ call'.block = 1 /\ call'.todo = Block(op, 1) /\ call'.missed = missed
  BY <1>1
<1>4. /\ op = "put" => Done("put")' = {}
      /\ op = "delete" => Done("delete")' = {}
  BY <1>2, <1>3 DEF Done
<1>5. CallInv'
  BY <1>1, <1>2, <1>3, <1>4 DEF ReturnInv, CallInv
<1>6. LateInv'
  BY <1>1, <1>2, <1>3 DEF ReturnInv, LateInv, Places, SameEdit
<1> QED
  BY <1>1, <1>5, <1>6 DEF ReturnInv, TruthInv, Returned, SameEdit

\* A new edit puts places in doubt that no stored cell has.
LEMMA ReturnedWrites ==
    ASSUME TypeInv, TypeInv', StampInv, ReturnInv, Writes
    PROVE  ReturnInv'
<1>1. UNCHANGED <<backend, cells, late, edit, truth>>
  BY DEF Writes
<1>2. call' = [op |-> "put", block |-> 1, todo |-> Block("put", 1)', attempt |-> 1,
               missed |-> {}]
  BY DEF Writes, Started
<1>3. call'.op = "put" /\ call'.block = 1 /\ call'.todo = Block("put", 1)' /\ call' # Idle
  BY <1>2 DEF Idle
<1>4. Scope' /\ Scope
  BY <1>3, ScopeOf DEF Writes, TypeInv, TypeOK, Scope
<1>5. EditSound' /\ EditSound
  BY <1>4, EditIsSound, EditIsSoundNext
<1>6. Stamp' > Stamp /\ Stamp' \in Nat /\ Stamp \in Nat
  BY <1>5, CellStoreConstants DEF Writes, EditSound, Gap, Times
<1>7. /\ \A c \in cells \cup truth : c.ts \in Nat
      /\ \A r \in late : \A c \in r.cells : c.ts \in Nat
  <2>1. \A c \in Cells : c.ts \in Nat
    BY CellStoreConstants DEF Cells, Times
  <2> QED
    BY <2>1 DEF TypeInv, TypeOK, Requests
<1>8. /\ \A c \in cells \cup truth : c.ts < Stamp'
      /\ \A r \in late : \A c \in r.cells : c.ts < Stamp'
  BY <1>6, <1>7 DEF StampInv
<1>9. \A x : Place(x) \in doubt' <=> Place(x) \in doubt \/ \E c \in EditCells' : Place(c) = Place(x)
  BY DEF Writes, Places
<1>10. \A x \in cells \cup truth : Place(x) \in doubt' <=> Place(x) \in doubt
  <2> SUFFICES ASSUME NEW x \in cells \cup truth, NEW c \in EditCells', Place(c) = Place(x)
               PROVE  FALSE
    BY <1>9
  <2>1. c.ts = x.ts
    BY DEF Place
  <2>2. c.ts = Stamp'
    BY <1>5 DEF EditSound
  <2>3. x.ts < Stamp' /\ x.ts \in Nat
    BY <1>7, <1>8
  <2>4. x.ts # Stamp'
    BY <1>6, <2>3
  <2> QED
    BY <2>1, <2>2, <2>4
<1>11. Done("put")' = {}
  BY <1>3 DEF Done
<1>12. CallInv'
  BY <1>3, <1>9, <1>11 DEF CallInv
<1>13. LateInv'
  BY <1>1, <1>3, <1>8, <1>9 DEF ReturnInv, LateInv
<1>14. TruthInv' /\ Returned'
  BY <1>1, <1>10 DEF ReturnInv, TruthInv, Returned
<1> QED
  BY <1>12, <1>13, <1>14 DEF ReturnInv

\* A call that raised: its request may still be handled, and its cells stay in doubt.
LEMMA ReturnedRaises ==
    ASSUME TypeInv, StampInv, ReturnInv, Raises
    PROVE  ReturnInv'
<1>1. SameEdit /\ UNCHANGED <<cells, doubt>> /\ Running /\ GiveUp
  BY DEF Raises
<1>2. /\ call # Idle /\ EditSound /\ call.todo \subseteq EditCells
      /\ call.op \in {"put", "delete"}
  BY <1>1, RunningFacts
<1>3. call.op = "put" => call'.op = "failed"
  BY DEF Raises, Failed
<1>4. call.op = "delete" => call'.op = "undo"
  BY <1>2 DEF Raises, Undo
<1>5. EditCells' = EditCells /\ Stamp' = Stamp
  BY <1>1, SameCells DEF SameEdit
<1>6. CallInv'
  BY <1>1, <1>2, <1>3, <1>4, <1>5 DEF ReturnInv, CallInv
<1>7. \A r \in late' : r \in late \/ (r.op = call.op /\ r.cells \subseteq EditCells)
  BY <1>1, <1>2, GivenUp
<1>8. \A c \in EditCells : Place(c) \in doubt /\ \A t \in truth : Place(t) # Place(c)
  BY <1>2, Apart DEF ReturnInv, CallInv
<1>9. LateInv'
  <2> SUFFICES ASSUME NEW r \in late'
               PROVE  /\ r.op = "put" => \A c \in r.cells :
                           /\ c \in truth' \/ Place(c) \in doubt'
                           /\ call'.op = "delete" => Place(c) \in call'.missed
                      /\ r.op = "delete" => \A c \in r.cells :
                           /\ \A t \in truth' : Place(t) # Place(c)
                           /\ call'.op \in {"put", "failed"} => c.ts < Stamp'
    BY DEF LateInv
  <2>1. CASE r \in late
    BY <1>1, <1>2, <1>3, <1>4, <1>5, <2>1 DEF ReturnInv, LateInv, SameEdit
  <2>2. CASE r.op = call.op /\ r.cells \subseteq EditCells
    BY <1>1, <1>2, <1>3, <1>4, <1>8, <2>2 DEF SameEdit
  <2> QED
    BY <1>7, <2>1, <2>2
<1> QED
  BY <1>1, <1>6, <1>9 DEF ReturnInv, TruthInv, Returned, SameEdit

\* A write that returns: all of its cells are stored.
LEMMA ReturnedReturnWrite ==
    ASSUME TypeInv, StampInv, ReturnInv, ReturnWrite
    PROVE  ReturnInv' /\ EditCells \subseteq cells
<1>1. /\ call.op = "put" /\ call.todo = {} /\ call.block = Blocks("put")
      /\ truth' = truth \cup EditCells /\ doubt' = doubt \ Places(EditCells)
      /\ call' = Idle /\ UNCHANGED <<cells, late>>
  BY DEF ReturnWrite
<1>2. call # Idle /\ EditSound
  BY <1>1, RunningFacts DEF Running
<1>3. EditCells \subseteq cells
  BY <1>1, AllDone DEF ReturnInv, CallInv
<1>4. \A t \in truth, c \in EditCells : Place(t) # Place(c)
  BY <1>2, Apart
<1>5. \A x : Place(x) \in doubt' <=> Place(x) \in doubt /\ \A c \in EditCells : Place(c) # Place(x)
  BY <1>1 DEF Places
<1>6. \A x \in Cells : \A c \in EditCells : Place(c) = Place(x) => x.ts = Stamp
  BY <1>2 DEF EditSound, Place
<1>7. TruthInv'
  BY <1>1, <1>2, <1>4 DEF ReturnInv, TruthInv, EditSound
<1>8. Returned'
  <2> SUFFICES ASSUME NEW x \in cells \cup truth \cup EditCells, Place(x) \notin doubt'
               PROVE  x \in cells /\ x \in truth \cup EditCells
    BY <1>1 DEF Returned
  <2>1. CASE x \in EditCells
    BY <1>3, <2>1
  <2>2. CASE Place(x) \notin doubt
    BY <1>3, <2>2 DEF ReturnInv, Returned
  <2>3. CASE x \in cells /\ \E c \in EditCells : Place(c) = Place(x)
    <3>1. x.ts = Stamp
      BY <1>6, <2>3 DEF TypeInv, TypeOK
    <3> QED
      BY <1>2, <2>3, <3>1 DEF StampInv
  <2>4. CASE x \in truth /\ Place(x) \in doubt
    BY <1>4, <1>5, <2>4
  <2> QED
    BY <1>5, <2>1, <2>2, <2>3, <2>4
<1>9. LateInv'
  <2> SUFFICES ASSUME NEW r \in late, NEW c \in r.cells
               PROVE  /\ r.op = "put" => c \in truth' \/ Place(c) \in doubt'
                      /\ r.op = "delete" => \A t \in truth' : Place(t) # Place(c)
    BY <1>1 DEF LateInv, Idle
  <2>1. c \in Cells
    BY DEF TypeInv, TypeOK, Requests
  <2>2. (\E d \in EditCells : Place(d) = Place(c)) => c \in EditCells
    BY <1>2, <1>6, <2>1 DEF StampInv
  <2>3. r.op = "put" => c \in truth' \/ Place(c) \in doubt'
    BY <1>1, <1>5, <2>2 DEF ReturnInv, LateInv
  <2>4. ASSUME r.op = "delete" PROVE \A t \in truth' : Place(t) # Place(c)
    <3>1. c.ts < Stamp /\ \A t \in truth : Place(t) # Place(c)
      BY <1>1, <2>4 DEF ReturnInv, LateInv
    <3>2. Stamp \in Nat
      BY StampIs DEF TypeInv
    <3>3. \A d \in EditCells : Place(d) # Place(c)
      BY <1>6, <2>1, <3>1, <3>2
    <3> QED
      BY <1>1, <3>1, <3>3
  <2> QED
    BY <2>3, <2>4
<1>10. CallInv'
  BY <1>1 DEF CallInv, Idle
<1> QED
  BY <1>3, <1>7, <1>8, <1>9, <1>10 DEF ReturnInv

\* A delete that returns: what it is sure of is not stored.
LEMMA ReturnedReturnDelete ==
    ASSUME TypeInv, StampInv, ReturnInv, ReturnDelete
    PROVE  ReturnInv'
<1>1. /\ call.op = "delete" /\ call.todo = {} /\ call.block = Blocks("delete")
      /\ doubt' = doubt \ (Places(EditCells) \ call.missed)
      /\ call' = Idle /\ UNCHANGED <<cells, late, truth, last, backend, edit>>
  BY DEF ReturnDelete
<1>2. call # Idle /\ EditSound
  BY <1>1, RunningFacts DEF Running
<1>3. EditCells \subseteq Done("delete")
  BY <1>1, AllDone
<1>4. \A t \in truth, c \in EditCells : Place(t) # Place(c)
  BY <1>2, Apart
<1>5. \A x : Place(x) \in doubt /\ Place(x) \notin doubt' =>
              Place(x) \notin call.missed /\ \E c \in EditCells : Place(c) = Place(x)
  BY <1>1 DEF Places
<1>6. \A x : Place(x) \in doubt' => Place(x) \in doubt
  BY <1>1
<1>7. \A x \in cells, c \in EditCells : Place(x) = Place(c) => Place(x) \in call.missed
  BY <1>1, <1>3 DEF ReturnInv, CallInv
<1>8. Returned'
  BY <1>1, <1>4, <1>5, <1>7 DEF ReturnInv, Returned
<1>9. LateInv'
  BY <1>1, <1>5 DEF ReturnInv, LateInv, Idle
<1>10. CallInv' /\ TruthInv'
  BY <1>1 DEF ReturnInv, CallInv, TruthInv, Idle
<1> QED
  BY <1>8, <1>9, <1>10 DEF ReturnInv

LEMMA ReturnedNext == TypeInv /\ TypeInv' /\ StampInv /\ ReturnInv /\ StoreNext => ReturnInv'
<1> SUFFICES ASSUME TypeInv, TypeInv', StampInv, ReturnInv, StoreNext PROVE ReturnInv'
  OBVIOUS
<1>0. TypeOK
  BY DEF TypeInv
<1>1. CASE Writes
  BY <1>1, ReturnedWrites
<1>2. CASE \E op \in {"put", "delete"}, missed \in SUBSET AllPlaces : Begins(op, missed)
  BY <1>2, ReturnedBegins
<1>3. ASSUME NEW S, Serves(S) PROVE ReturnInv'
  BY <1>3, ReturnedServes
<1>4. ASSUME NEW c, Skips(c) PROVE ReturnInv'
  <2>1. /\ Running /\ SameEdit /\ UNCHANGED <<cells, late, doubt>> /\ call.op = "delete"
        /\ Becomes(call.todo \ {c}, call.block, call.attempt, call.missed \cup {Place(c)})
    BY <1>4 DEF Skips, Running
  <2>2. call'.op = call.op /\ call' # Idle /\ call'.missed = call.missed \cup {Place(c)}
    BY <2>1 DEF Becomes, Idle
  <2>3. Done("delete")' \subseteq Done("delete") \cup {c}
    BY <2>1, DoneGrows
  <2> QED
    BY <2>1, <2>2, <2>3, ReturnedCallOnly
<1>5. CASE GoesOn
  <2>1. /\ Running /\ SameEdit /\ UNCHANGED <<cells, late, doubt>> /\ call.todo = {}
        /\ Becomes(Block(call.op, call.block + 1), call.block + 1, 1, call.missed)
    BY <1>5 DEF GoesOn
  <2>2. call'.op = call.op /\ call'.missed = call.missed /\ call' # Idle
    BY <2>1, RunningFacts DEF Becomes, Idle
  <2>3. /\ call.op = "put" => Done("put")' \subseteq Done("put")
        /\ call.op = "delete" => Done("delete")' \subseteq Done("delete")
    BY <2>1, DoneStays
  <2> QED
    BY <2>1, <2>2, <2>3, ReturnedCallOnly
<1>6. CASE Resends
  <2>1. /\ Running /\ SameEdit /\ UNCHANGED <<cells, doubt>> /\ GiveUp
        /\ Becomes(Block(call.op, call.block), call.block, call.attempt + 1, call.missed)
    BY <1>6 DEF Resends
  <2>2. call'.op = call.op /\ call'.missed = call.missed /\ call' # Idle
    BY <2>1, RunningFacts DEF Becomes, Idle
  <2>3. /\ call.op = "put" => Done("put")' \subseteq Done("put")
        /\ call.op = "delete" => Done("delete")' \subseteq Done("delete")
    BY <2>1, DoneStays
  <2>4. \A r \in late' : r \in late \/ (r.op = call.op /\ r.cells \subseteq call.todo)
    BY <2>1, GivenUp
  <2> QED
    BY <2>1, <2>2, <2>3, <2>4, ReturnedCallOnly
<1>7. CASE Raises
  BY <1>7, ReturnedRaises
<1>8. ASSUME NEW r \in late, ServesLate(r) PROVE ReturnInv'
  BY <1>8, ReturnedServesLate
<1>9. CASE ReturnWrite
  BY <1>9, ReturnedReturnWrite
<1>10. CASE ReturnDelete
  BY <1>10, ReturnedReturnDelete
<1> QED
  BY <1>0, <1>1, <1>2, <1>3, <1>4, <1>5, <1>6, <1>7, <1>8, <1>9, <1>10, StepForms

-----------------------------------------------------------------------------
(* One version of a cell, in one row.                                       *)

\* The cells that are stored or in a request left over.
StoredOrLate == cells \cup UNION {r.cells : r \in late}

UniqueInv == \A c, d \in StoredOrLate : Place(c) = Place(d) => c = d

\* The cells of the edit have its time stamp, and nothing else has.
LEMMA UniqueKept ==
    ASSUME TypeInv, StampInv, UniqueInv,
           \A x \in StoredOrLate' : x \in StoredOrLate \/ (call # Idle /\ x \in EditCells)
    PROVE  UniqueInv'
<1>1. ASSUME NEW c \in StoredOrLate \cup EditCells, NEW d \in EditCells, call # Idle,
             Place(c) = Place(d)
      PROVE  c = d
  <2>1. EditSound
    BY <1>1, ScopeOf
  <2>2. c.ts = Stamp
    BY <1>1, <2>1 DEF EditSound, Place
  <2>3. c \in EditCells
    BY <1>1, <2>2 DEF StampInv, StoredOrLate
  <2> QED
    BY <1>1, <2>1, <2>3 DEF EditSound
<1>2. ASSUME NEW c \in StoredOrLate', NEW d \in StoredOrLate', Place(c) = Place(d)
      PROVE  c = d
  <2>1. CASE c \in StoredOrLate /\ d \in StoredOrLate
    BY <1>2, <2>1 DEF UniqueInv
  <2>2. CASE call # Idle /\ d \in EditCells
    BY <1>1, <1>2, <2>2
  <2>3. CASE call # Idle /\ c \in EditCells
    BY <1>1, <1>2, <2>3
  <2> QED
    BY <1>2, <2>1, <2>2, <2>3
<1> QED
  BY <1>2 DEF UniqueInv

LEMMA UniqueNext == TypeInv /\ StampInv /\ UniqueInv /\ StoreNext => UniqueInv'
<1> SUFFICES ASSUME TypeInv, StampInv, UniqueInv, StoreNext PROVE UniqueInv'
  OBVIOUS
<1>0. TypeOK
  BY DEF TypeInv
<1>1. CASE UNCHANGED <<cells, late>>
  BY <1>1, UniqueKept DEF StoredOrLate
<1>2. ASSUME NEW S, Serves(S) PROVE UniqueInv'
  <2>1. call # Idle /\ S \subseteq EditCells
    BY <1>2, RunningFacts DEF Serves
  <2>2. \A x \in cells' : x \in cells \/ x \in S
    BY <1>2, ApplyAdds DEF Serves, Handle
  <2> QED
    BY <1>2, <2>1, <2>2, UniqueKept DEF Serves, StoredOrLate
<1>3. CASE Resends \/ Raises
  <2>1. Running /\ GiveUp /\ cells' = cells
    BY <1>3 DEF Resends, Raises
  <2>2. call # Idle /\ call.todo \subseteq EditCells
    BY <2>1, RunningFacts
  <2>3. \A r \in late' : r \in late \/ r.cells \subseteq EditCells
    BY <2>1, <2>2, GivenUp
  <2> QED
    BY <2>1, <2>2, <2>3, UniqueKept DEF StoredOrLate
<1>4. ASSUME NEW r \in late, ServesLate(r) PROVE UniqueInv'
  <2>1. \A x \in cells' : x \in cells \/ x \in r.cells
    BY <1>4, ApplyAdds DEF ServesLate, Handle
  <2> QED
    BY <1>4, <2>1, UniqueKept DEF ServesLate, StoredOrLate
<1> QED
  BY <1>0, <1>1, <1>2, <1>3, <1>4, StepForms
  DEF Writes, Begins, Skips, GoesOn, ReturnWrite, ReturnDelete

\* A cell of VAST whose write was called once is in one row, in one request
\* left over, or still to do.
CopyInv ==
    /\ \A c \in several : backend = "vast" /\ Place(c) \in repeated
    /\ backend = "vast" =>
          /\ \A r \in late : r.op = "put" =>
                \A c \in r.cells : Place(c) \notin repeated =>
                   c \notin cells /\ \A q \in late : q.op = "put" /\ c \in q.cells => q = r
          /\ call.op = "put" =>
                \A c \in call.todo : Place(c) \notin repeated =>
                   c \notin cells /\ \A q \in late : q.op = "put" => c \notin q.cells

\* A step of VAST after which no cell is to do that was not before.
LEMMA CopyKept ==
    ASSUME CopyInv, backend = "vast", backend' = "vast", repeated \subseteq repeated',
           several' \subseteq several, cells' \subseteq cells, late' \subseteq late,
           call'.op = "put" => \/ call.op = "put" /\ call'.todo \subseteq call.todo
                               \/ \A c \in call'.todo : Place(c) \in repeated'
    PROVE  CopyInv'
  BY DEF CopyInv

\* A new edit's cells are stored nowhere and on no way.
LEMMA CopyWrites ==
    ASSUME TypeInv, TypeInv', StampInv, CopyInv, Writes, backend = "vast"
    PROVE  CopyInv'
<1>1. UNCHANGED <<backend, cells, several, late, repeated>>
  BY DEF Writes
<1>2. call' = [op |-> "put", block |-> 1, todo |-> Block("put", 1)', attempt |-> 1,
               missed |-> {}]
  BY DEF Writes, Started
<1>3. Scope' /\ Scope
  BY <1>2, ScopeOf DEF Writes, TypeInv, TypeOK, Scope, Idle
<1>4. EditSound' /\ EditSound
  BY <1>3, EditIsSound, EditIsSoundNext
<1>5. Stamp' > Stamp /\ Stamp' \in Nat /\ Stamp \in Nat
  BY <1>4, CellStoreConstants DEF Writes, EditSound, Gap, Times
<1>6. /\ \A c \in cells : c.ts \in Nat
      /\ \A r \in late : \A c \in r.cells : c.ts \in Nat
  <2>1. \A c \in Cells : c.ts \in Nat
    BY CellStoreConstants DEF Cells, Times
  <2> QED
    BY <2>1 DEF TypeInv, TypeOK, Requests
<1>7. /\ \A c \in cells : c.ts # Stamp'
      /\ \A r \in late : \A c \in r.cells : c.ts # Stamp'
  BY <1>5, <1>6 DEF StampInv
<1>8. \A c \in call'.todo : c.ts = Stamp'
  BY <1>2, <1>4 DEF EditSound
<1> QED
  BY <1>1, <1>7, <1>8 DEF CopyInv

LEMMA CopyServes ==
    ASSUME TypeInv, CopyInv, backend = "vast", NEW S, Serves(S)
    PROVE  CopyInv'
<1>1. /\ S = call.todo /\ Handle(call.op, S) /\ call'.op = call.op /\ call'.todo = {}
      /\ UNCHANGED <<backend, late, repeated>>
  BY DEF Serves, Becomes, SameEdit
<1>2. CASE call.op = "put"
  <2>1. cells' = cells \cup S /\ several' = several \cup (cells \cap S)
    BY <1>1, <1>2 DEF Handle, Apply, PutCells, Doubled
  <2>2. \A c \in several' : Place(c) \in repeated
    BY <1>1, <1>2, <2>1 DEF CopyInv
  <2>3. \A r \in late : r.op = "put" =>
           \A c \in r.cells : Place(c) \notin repeated => c \notin cells /\ c \notin S
    BY <1>1, <1>2 DEF CopyInv
  <2> QED
    BY <1>1, <2>1, <2>2, <2>3 DEF CopyInv
<1>3. CASE call.op # "put"
  <2>1. cells' \subseteq cells /\ several' \subseteq several
    BY <1>1, <1>3 DEF Handle, Apply, DeleteCells
  <2> QED
    BY <1>1, <1>3, <2>1, CopyKept
<1> QED
  BY <1>2, <1>3

\* A request left over is of cells that nothing else will store.
LEMMA CopyRaises ==
    ASSUME TypeInv, CopyInv, backend = "vast", Raises
    PROVE  CopyInv'
<1>1. GiveUp /\ UNCHANGED <<backend, cells, several, repeated>> /\ call'.op # "put"
  BY DEF Raises, SameEdit, Failed, Undo
<1>2. PICK number : \A r \in late' :
          r \in late \/ r = [op |-> call.op, cells |-> call.todo, number |-> number]
  BY <1>1, GivenUpOnce
<1> DEFINE new == [op |-> call.op, cells |-> call.todo, number |-> number]
<1>3. new.op = call.op /\ new.cells = call.todo
  OBVIOUS
<1>4. \A r \in late' : r \in late \/ r = new
  BY <1>2
<1> HIDE DEF new
<1>5. ASSUME NEW r \in late', r.op = "put", NEW c \in r.cells, Place(c) \notin repeated
      PROVE  c \notin cells /\ \A q \in late' : q.op = "put" /\ c \in q.cells => q = r
  <2>1. CASE r \in late
    BY <1>3, <1>4, <1>5, <2>1 DEF CopyInv
  <2>2. CASE r = new
    BY <1>3, <1>4, <1>5, <2>2 DEF CopyInv
  <2> QED
    BY <1>4, <2>1, <2>2
<1> QED
  BY <1>1, <1>5 DEF CopyInv

LEMMA CopyServesLate ==
    ASSUME TypeInv, CopyInv, backend = "vast", NEW r \in late, ServesLate(r)
    PROVE  CopyInv'
<1>1. /\ Handle(r.op, r.cells) /\ late' = late \ {r}
      /\ UNCHANGED <<backend, call, repeated>>
  BY DEF ServesLate, SameEdit
<1>2. CASE r.op = "put"
  <2>1. cells' = cells \cup r.cells /\ several' = several \cup (cells \cap r.cells)
    BY <1>1, <1>2 DEF Handle, Apply, PutCells, Doubled
  <2>2. \A c \in several' : Place(c) \in repeated
    BY <1>2, <2>1 DEF CopyInv
  <2>3. \A q \in late' : q.op = "put" =>
           \A c \in q.cells : Place(c) \notin repeated => c \notin cells /\ c \notin r.cells
    BY <1>1, <1>2 DEF CopyInv
  <2>4. call.op = "put" =>
           \A c \in call.todo : Place(c) \notin repeated => c \notin cells /\ c \notin r.cells
    BY <1>2 DEF CopyInv
  <2> QED
    BY <1>1, <2>1, <2>2, <2>3, <2>4 DEF CopyInv
<1>3. CASE r.op # "put"
  <2>1. cells' \subseteq cells /\ several' \subseteq several
    BY <1>1, <1>3 DEF Handle, Apply, DeleteCells
  <2> QED
    BY <1>1, <2>1, CopyKept
<1> QED
  BY <1>2, <1>3

LEMMA CopyNext ==
    TypeInv /\ TypeInv' /\ StampInv /\ CopyInv /\ StoreNext => CopyInv'
<1> SUFFICES ASSUME TypeInv, TypeInv', StampInv, CopyInv, StoreNext PROVE CopyInv'
  OBVIOUS
<1>0. TypeOK /\ backend' = backend
  <2>1. TypeOK
    BY DEF TypeInv
  <2> QED
    BY <2>1, StepForms DEF Writes, Begins, Serves, Skips, GoesOn, Resends, Raises, ServesLate,
                           SameEdit, ReturnWrite, ReturnDelete
<1>1. CASE backend # "vast"
  BY <1>0, <1>1 DEF CopyInv, TypeInv
<1>2. CASE backend = "vast"
  <2>1. CASE Writes
    BY <1>2, <2>1, CopyWrites
  <2>2. ASSUME NEW op \in {"put", "delete"}, NEW missed, Begins(op, missed) PROVE CopyInv'
    <3>1. /\ UNCHANGED <<cells, several, late>> /\ repeated \subseteq repeated'
          /\ op = "put" => repeated' = repeated \cup Places(EditCells)
          /\ call' = [op |-> op, block |-> 1, todo |-> Block(op, 1), attempt |-> 1,
                      missed |-> missed]
      BY <1>2, <2>2 DEF Begins, Started
    <3>2. EditSound
      BY <2>2, ScopeOf DEF Begins, Failed, Undo, Idle
    <3>3. op = "put" => \A c \in call'.todo : Place(c) \in repeated'
      BY <3>1, <3>2 DEF EditSound, Places
    <3> QED
      BY <1>0, <1>2, <3>1, <3>3, CopyKept
  <2>3. ASSUME NEW S, Serves(S) PROVE CopyInv'
    BY <1>2, <2>3, CopyServes
  <2>4. CASE GoesOn
    <3>1. Running /\ call.block < Blocks(call.op)
      BY <2>4 DEF GoesOn
    <3>2. call.op \in {"put", "delete"} /\ EditSound /\ call.block \in Nat \ {0}
      BY <3>1, RunningFacts
    <3>3. Blocks(call.op) = 1
      BY <1>2, <3>2 DEF EditSound
    <3> QED
      BY <3>1, <3>2, <3>3
  <2>5. CASE Raises
    BY <1>2, <2>5, CopyRaises
  <2>6. ASSUME NEW r \in late, ServesLate(r) PROVE CopyInv'
    BY <1>2, <2>6, CopyServesLate
  <2>7. CASE ReturnWrite \/ ReturnDelete
    <3>1. UNCHANGED <<cells, several, late, repeated>> /\ call'.op # "put"
      BY <2>7 DEF ReturnWrite, ReturnDelete, Idle
    <3> QED
      BY <1>0, <1>2, <3>1, CopyKept
  <2> QED
    BY <1>0, <1>2, <2>1, <2>2, <2>3, <2>4, <2>5, <2>6, <2>7, StepForms DEF Skips, Resends
<1> QED
  BY <1>1, <1>2

StoreInv == TypeInv /\ StampInv /\ ReturnInv /\ UniqueInv /\ CopyInv

LEMMA StoreInitInv == StoreInit => StoreInv
<1> SUFFICES ASSUME StoreInit PROVE StoreInv
  OBVIOUS
<1>1. TypeInv
  BY StoreInitTypes
<1>2. Stamp \in Nat
  BY <1>1, StampIs DEF TypeInv
<1>3. \A c \in cells : c.ts = 0
  BY DEF StoreInit, CellOf
<1>4. StampInv
  BY <1>2, <1>3 DEF StoreInit, StampInv, Whole, Gap
<1>5. TruthInv
  BY CellStoreConstants DEF StoreInit, TruthInv, NamesOnce, CellOf, Place
<1>6. CallInv /\ LateInv /\ Returned
  BY DEF StoreInit, CallInv, LateInv, Returned, Idle
<1>7. UniqueInv
  BY <1>5 DEF StoreInit, UniqueInv, TruthInv, StoredOrLate
<1>8. CopyInv
  BY DEF StoreInit, CopyInv, Idle
<1> QED
  BY <1>1, <1>4, <1>5, <1>6, <1>7, <1>8 DEF StoreInv, ReturnInv

LEMMA StoreNextInv == StoreInv /\ [StoreNext]_storeVars => StoreInv'
<1> SUFFICES ASSUME StoreInv, [StoreNext]_storeVars PROVE StoreInv'
  OBVIOUS
<1>1. TypeInv'
  BY TypeNextBox DEF StoreInv
<1>2. CASE StoreNext
  BY <1>1, <1>2, StampNext, ReturnedNext, UniqueNext, CopyNext DEF StoreInv
<1>3. CASE UNCHANGED storeVars
  <2>1. UNCHANGED <<backend, cells, several, late, edit, last, call, truth, doubt, repeated>>
    BY <1>3 DEF storeVars
  <2>2. EditCells' = EditCells /\ Stamp' = Stamp /\ \A o, b : Block(o, b)' = Block(o, b)
    BY <2>1, SameCells
  <2>3. Done("put")' = Done("put") /\ Done("delete")' = Done("delete")
    BY <2>1, <2>2 DEF Done
  <2>4. Whole(truth)' = Whole(truth)
    BY <2>1 DEF Whole
  <2> QED
    BY <1>1, <2>1, <2>2, <2>3, <2>4
    DEF StoreInv, StampInv, ReturnInv, CallInv, LateInv, TruthInv, Returned, UniqueInv,
        StoredOrLate, CopyInv
<1> QED
  BY <1>2, <1>3

LEMMA StoreAlways == StoreSpec => []StoreInv
  BY StoreInitInv, StoreNextInv, PTL DEF StoreSpec

\* Cells are returned as written that were in doubt, with whole milliseconds,
\* and none is ever taken back.
LEMMA TruthGrows ==
    ASSUME StoreInv, [StoreNext]_storeVars
    PROVE  /\ backend' = backend /\ truth \subseteq truth'
           /\ \A c \in truth' : c \in truth \/ (Place(c) \in doubt /\ c.ts \in Nat /\ Gap(c.ts) = 0)
<1>1. TypeInv /\ TypeOK /\ CallInv
  BY DEF StoreInv, TypeInv, ReturnInv
<1>2. CASE ReturnWrite
  <2>1. call # Idle /\ EditSound
    BY <1>1, <1>2, RunningFacts DEF ReturnWrite, Running
  <2>2. Stamp \in Nat
    BY <1>1, StampIs DEF TypeInv
  <2> QED
    BY <1>1, <1>2, <2>1, <2>2 DEF ReturnWrite, EditSound, CallInv
<1>3. CASE UNCHANGED <<backend, truth>>
  BY <1>3
<1>4. ReturnWrite \/ UNCHANGED <<backend, truth>>
  <2>1. StoreNext => ReturnWrite \/ UNCHANGED <<backend, truth>>
    BY <1>1, StepForms DEF Writes, SameEdit, Begins, Serves, Skips, GoesOn, Resends, Raises,
                           ServesLate, ReturnDelete
  <2> QED
    BY <2>1 DEF storeVars
<1> QED
  BY <1>2, <1>3, <1>4

LEMMA StoreReturns == StoreInv => StoredAsReturned
  BY ReturnedIs DEF StoreInv, ReturnInv, UniqueInv, StoredOrLate, CopyInv, StoredAsReturned

\* However often a request is sent, lost or late: what calls returned as
\* written is stored, and nothing else, outside of what is in doubt; a cell has
\* one version, and several rows only in VAST, whose write was called again.
THEOREM ReturnedIsStored == StoreSpec => []StoredAsReturned
  BY StoreReturns, StoreAlways, PTL

-----------------------------------------------------------------------------
(* A write to VAST is whole.                                                *)

VastInv ==
    backend = "vast" =>
        /\ call.op = "put" => call.todo \in {{}, EditCells}
        /\ call.op \in {"put", "failed"} =>
              /\ EditCells \subseteq cells \/ \A c \in EditCells : c \notin cells
              /\ \A r \in late : r.op = "put" /\ (\E c \in r.cells : c.ts = Stamp)
                                    => r.cells = EditCells

LEMMA VastNext == TypeInv /\ TypeInv' /\ StampInv /\ ReturnInv /\ VastInv /\ StoreNext => VastInv'
<1> SUFFICES ASSUME TypeInv, TypeInv', StampInv, ReturnInv, VastInv, StoreNext,
                    backend' = "vast", call'.op \in {"put", "failed"}
             PROVE  /\ call'.op = "put" => call'.todo \in {{}, EditCells'}
                    /\ EditCells' \subseteq cells' \/ \A c \in EditCells' : c \notin cells'
                    /\ \A r \in late' : r.op = "put" /\ (\E c \in r.cells : c.ts = Stamp')
                                          => r.cells = EditCells'
  BY DEF VastInv
<1> DEFINE Goal == /\ call'.op = "put" => call'.todo \in {{}, EditCells'}
                   /\ EditCells' \subseteq cells' \/ \A c \in EditCells' : c \notin cells'
                   /\ \A r \in late' : r.op = "put" /\ (\E c \in r.cells : c.ts = Stamp')
                                          => r.cells = EditCells'
<1>0. TypeOK /\ Stamp \in Nat
  BY StampIs DEF TypeInv
<1>1. CASE Writes
  <2>1. call' = [op |-> "put", block |-> 1, todo |-> Block("put", 1)', attempt |-> 1,
                 missed |-> {}]
    BY <1>1 DEF Writes, Started
  <2>2. Scope' /\ Scope
    BY <1>1, <2>1, ScopeOf DEF Writes, TypeInv, TypeOK, Scope, Idle
  <2>3. EditSound' /\ EditSound
    BY <2>2, EditIsSound, EditIsSoundNext
  <2>4. Stamp' > Stamp /\ Stamp' \in Nat
    BY <1>1, <2>3, CellStoreConstants DEF Writes, EditSound, Gap, Times
  <2>5. call'.todo = EditCells'
    BY <2>1, <2>3 DEF EditSound
  <2>6. /\ \A c \in cells : c.ts \in Nat
        /\ \A r \in late : \A c \in r.cells : c.ts \in Nat
    <3>1. \A c \in Cells : c.ts \in Nat
      BY CellStoreConstants DEF Cells, Times
    <3> QED
      BY <3>1 DEF TypeInv, TypeOK, Requests
  <2>7. /\ \A c \in cells : c.ts # Stamp'
        /\ \A r \in late : \A c \in r.cells : c.ts # Stamp'
    BY <1>0, <2>4, <2>6 DEF StampInv
  <2>8. \A c \in EditCells' : c \notin cells
    BY <2>3, <2>7 DEF EditSound
  <2> QED
    BY <1>1, <2>5, <2>7, <2>8 DEF Writes
<1>2. ASSUME SameEdit
      PROVE  EditCells' = EditCells /\ Stamp' = Stamp /\ backend = "vast"
  BY <1>2, SameCells DEF SameEdit
<1>3. ASSUME NEW op \in {"put", "delete"}, NEW missed \in SUBSET AllPlaces, Begins(op, missed)
      PROVE  Goal
  <2>1. /\ SameEdit /\ UNCHANGED <<cells, late>> /\ call # Idle
        /\ op = "put" => call.op = "failed"
        /\ call' = [op |-> op, block |-> 1, todo |-> Block(op, 1), attempt |-> 1,
                    missed |-> missed]
    BY <1>3 DEF Begins, Started, Failed, Undo, Idle
  <2>2. op = "put" /\ call.op = "failed" /\ EditSound
    BY <2>1, ScopeOf
  <2>3. call'.todo = EditCells
    BY <1>2, <2>1, <2>2 DEF EditSound
  <2> QED
    BY <1>2, <2>1, <2>2, <2>3 DEF VastInv
<1>4. ASSUME NEW S, Serves(S) PROVE Goal
  <2>1. /\ Running /\ SameEdit /\ late' = late /\ S \subseteq call.todo /\ S # {}
        /\ backend = "vast" => S = call.todo
        /\ cells' = Apply(call.op, S)
        /\ call'.op = call.op /\ call'.todo = call.todo \ S
    BY <1>4 DEF Serves, Handle, Becomes
  <2>2. call.op = "put"
    BY <2>1, RunningFacts
  <2>3. S = EditCells
    BY <1>2, <2>1, <2>2 DEF VastInv
  <2>4. EditCells \subseteq cells'
    BY <2>1, <2>2, <2>3, PutStores
  <2> QED
    BY <1>2, <2>1, <2>2, <2>3, <2>4 DEF VastInv
<1>5. ASSUME NEW c, Skips(c) PROVE Goal
  BY <1>5 DEF Skips, Becomes
<1>6. CASE GoesOn
  <2>1. Running /\ SameEdit /\ call.block < Blocks(call.op)
    BY <1>6 DEF GoesOn
  <2>2. call.op \in {"put", "delete"} /\ EditSound /\ call.block \in Nat \ {0}
    BY <2>1, RunningFacts
  <2>3. Blocks(call.op) = 1
    BY <1>2, <2>1, <2>2 DEF EditSound
  <2> QED
    BY <2>1, <2>2, <2>3
<1>7. CASE Resends
  BY <1>2, <1>7 DEF Resends
<1>8. CASE Raises
  <2>1. Running /\ GiveUp /\ SameEdit /\ cells' = cells
    BY <1>8 DEF Raises
  <2>2. call.op = "put" /\ call'.op = "failed"
    BY <1>8 DEF Raises, Failed, Undo
  <2>3. \A r \in late' : r \in late \/ r.cells \in {{}, EditCells}
    BY <1>2, <2>1, <2>2, GivenUp DEF VastInv
  <2> QED
    BY <1>2, <2>1, <2>2, <2>3 DEF VastInv
<1>9. ASSUME NEW r \in late, ServesLate(r) PROVE Goal
  <2>1. /\ SameEdit /\ call' = call /\ late' = late \ {r} /\ cells' = Apply(r.op, r.cells)
    BY <1>9 DEF ServesLate, Handle
  <2>2. call # Idle /\ EditSound
    BY <2>1, ScopeOf DEF Idle
  <2>3. WholeInv /\ Whole(r.cells) /\ r.op \in {"put", "delete"}
    BY <1>0 DEF TypeInv, TypeOK, Requests, WholeInv
  <2>4. CASE r.op = "put"
    <3>1. \A x : x \in cells' <=> x \in r.cells
              \/ (x \in cells /\ (backend = "vast" \/ \A s \in r.cells : Place(s) # Place(x)))
      BY <2>1, <2>4, PutStores
    <3>2. r.cells = EditCells \/ \A c \in EditCells : c \notin r.cells
      BY <1>2, <2>1, <2>2, <2>4 DEF VastInv, EditSound
    <3> QED
      BY <1>2, <2>1, <3>1, <3>2 DEF VastInv
  <2>5. CASE r.op = "delete"
    <3>1. \A x : x \in cells' <=> x \in cells /\ \A s \in r.cells : Place(s) # Place(x)
      BY <2>1, <2>3, <2>5, DeleteTakes
    <3>2. \A s \in r.cells : s.ts < Stamp
      BY <2>1, <2>5 DEF ReturnInv, LateInv
    <3>3. \A s \in r.cells, x \in EditCells : s.ts # x.ts
      BY <1>0, <2>2, <3>2 DEF EditSound
    <3>4. \A s \in r.cells, x \in EditCells : Place(s) # Place(x)
      BY <3>3 DEF Place
    <3> QED
      BY <1>2, <2>1, <3>1, <3>4 DEF VastInv
  <2> QED
    BY <2>3, <2>4, <2>5
<1>10. CASE ReturnWrite \/ ReturnDelete
  BY <1>10 DEF ReturnWrite, ReturnDelete, Idle
<1> QED
  BY <1>0, <1>1, <1>3, <1>4, <1>5, <1>6, <1>7, <1>8, <1>9, <1>10, StepForms

\* A write to VAST stores all the cells of its edit or none, also when its
\* transaction is handled after the client gave up on it and wrote again.
THEOREM VastAlwaysWhole == StoreSpec => []VastWritesWhole
<1>1. StoreInit => VastInv
  BY DEF StoreInit, VastInv, Idle
<1>2. StoreInv /\ StoreInv' /\ VastInv /\ [StoreNext]_storeVars => VastInv'
  <2> SUFFICES ASSUME StoreInv, StoreInv', VastInv, [StoreNext]_storeVars PROVE VastInv'
    OBVIOUS
  <2>1. CASE StoreNext
    BY <2>1, VastNext DEF StoreInv
  <2>2. CASE UNCHANGED storeVars
    <3>1. EditCells' = EditCells /\ Stamp' = Stamp
      BY <2>2, SameCells DEF storeVars
    <3> QED
      BY <2>2, <3>1 DEF storeVars, VastInv
  <2> QED
    BY <2>1, <2>2
<1>3. VastInv => VastWritesWhole
  BY DEF VastInv, VastWritesWhole
<1> QED
  BY <1>1, <1>2, <1>3, StoreAlways, PTL DEF StoreSpec

-----------------------------------------------------------------------------
(* The requests of an edit implement its taking place at once.              *)

LEMMA CertainIs ==
    ASSUME StoreInv, StoreInv'
    PROVE  /\ Certain = {c \in truth : Place(c) \notin doubt}
           /\ Certain' = {c \in truth' : Place(c) \notin doubt'}
<1>1. StoredAsReturned
  BY StoreReturns
<1>2. StoreInv' => StoredAsReturned'
  BY StoreReturns, PTL
<1> QED
  BY <1>1, <1>2 DEF StoredAsReturned

\* A write that returns makes all of its edit certain.
LEMMA ReturnTakesPlace ==
    ASSUME StoreInv, StoreInv', ReturnWrite
    PROVE  Atomic!TakePlace
<1>1. /\ call.op = "put" /\ truth' = truth \cup EditCells
      /\ doubt' = doubt \ Places(EditCells) /\ edit' = edit + 1
  BY DEF ReturnWrite
<1>2. call # Idle /\ EditSound /\ TypeInv /\ StampInv
  BY <1>1, RunningFacts DEF Running, StoreInv
<1>3. edit <= Len(Edits)
  BY <1>2 DEF TypeInv
<1>4. Stamp \in 0..MaxTime /\ Stamp % 2 = 0
  BY <1>2 DEF EditSound, Times, Gap
<1>5. EditCells = Atomic!Stamped({Edits[edit][i] : i \in DOMAIN Edits[edit]}, Stamp)
  BY DEF EditCells, CellOf, Stamp, Atomic!Stamped
<1>6. \A t \in truth, c \in EditCells : Place(t) # Place(c)
  BY <1>2, Apart
<1>7. /\ Certain = {c \in truth : Place(c) \notin doubt}
      /\ Certain' = {c \in truth' : Place(c) \notin doubt'}
  BY CertainIs
<1>8. \A x : Place(x) \in doubt' <=> Place(x) \in doubt /\ \A c \in EditCells : Place(c) # Place(x)
  BY <1>1 DEF Places
<1>9. Certain' = Certain \cup EditCells
  BY <1>1, <1>6, <1>7, <1>8
<1>10. \A c \in Certain : c.ts < Stamp
  BY <1>2, <1>7 DEF StampInv
<1> QED
  BY <1>1, <1>3, <1>4, <1>5, <1>9, <1>10 DEF Atomic!TakePlace

\* No other step makes a cell certain, or takes a certain one away.
LEMMA OthersStutter ==
    ASSUME StoreInv, StoreInv', StoreNext, ~ReturnWrite
    PROVE  UNCHANGED Atomic!vars
<1>1. TypeInv /\ TypeOK /\ StampInv
  BY DEF StoreInv, TypeInv
<1>2. edit' = edit /\ truth' = truth /\ \A x \in truth : Place(x) \in doubt' <=> Place(x) \in doubt
  <2>1. CASE Writes
    <3>1. UNCHANGED <<edit, truth>> /\ doubt' = doubt \cup Places(EditCells')
      BY <2>1 DEF Writes, Places
    <3>2. call' # Idle
      BY <2>1 DEF Writes, Started, Idle
    <3>3. \A t \in truth', c \in EditCells' : Place(t) # Place(c)
      BY <3>2, ApartNext DEF StoreInv
    <3> QED
      BY <3>1, <3>3 DEF Places
  <2>2. CASE ReturnDelete
    <3>1. /\ UNCHANGED <<edit, truth>> /\ call.op = "delete"
          /\ doubt' = doubt \ (Places(EditCells) \ call.missed)
      BY <2>2 DEF ReturnDelete
    <3>2. \A t \in truth, c \in EditCells : Place(t) # Place(c)
      BY <1>1, <3>1, Apart DEF Idle
    <3> QED
      BY <3>1, <3>2 DEF Places
  <2>3. CASE SameEdit /\ doubt' = doubt
    BY <2>3 DEF SameEdit
  <2>4. Writes \/ ReturnDelete \/ (SameEdit /\ doubt' = doubt)
    BY <1>1, StepForms DEF Begins, Serves, Skips, GoesOn, Resends, Raises, ServesLate
  <2> QED
    BY <2>1, <2>2, <2>3, <2>4
<1>3. /\ Certain = {c \in truth : Place(c) \notin doubt}
      /\ Certain' = {c \in truth' : Place(c) \notin doubt'}
  BY CertainIs
<1>4. Certain' = Certain
  BY <1>2, <1>3
<1> QED
  BY <1>2, <1>4 DEF Atomic!vars

\* An edit becomes certain all at once, when its write returns, and no later
\* request, retry or undo changes what is certain.
THEOREM StoreIsAtomic == StoreSpec => ImplementsAtomic
<1>1. StoreInit => Atomic!Init
  BY DEF StoreInit, Atomic!Init, Atomic!Stamped, Certain, CellOf
<1>2. StoreInv /\ StoreInv' /\ [StoreNext]_storeVars => [Atomic!TakePlace]_(Atomic!vars)
  <2> SUFFICES ASSUME StoreInv, StoreInv', [StoreNext]_storeVars
               PROVE  [Atomic!TakePlace]_(Atomic!vars)
    OBVIOUS
  <2>1. CASE ReturnWrite
    BY <2>1, ReturnTakesPlace
  <2>2. CASE StoreNext /\ ~ReturnWrite
    BY <2>2, OthersStutter
  <2>3. CASE UNCHANGED storeVars
    BY <2>3 DEF storeVars, Atomic!vars, Certain
  <2> QED
    BY <2>1, <2>2, <2>3
<1> QED
  BY <1>1, <1>2, StoreAlways, PTL DEF StoreSpec, ImplementsAtomic, Atomic!Spec
=============================================================================
