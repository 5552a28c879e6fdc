----------------------------- MODULE CellStore -----------------------------
(***************************************************************************)
(* Bulk writes and deletes of versioned cells, as the Bigtable, the HBase  *)
(* and the VAST client send them to their servers: _write_rows and         *)
(* delete_cells, with the retries, the lost answers and the requests that  *)
(* the server still handles after the client gave up on them.              *)
(*                                                                         *)
(* One worker, which holds the locks of what it edits, applies a sequence  *)
(* of edits.  An edit writes several rows with one time stamp; when the    *)
(* call fails the worker may write the same cells again, or delete them    *)
(* and begin the edit anew.  Time is in half milliseconds, so that time    *)
(* stamps are both exact to the millisecond and not.  There is no clock:   *)
(* nothing here waits or expires, and a time stamp is any later than the   *)
(* last one, as the clocks of different machines give it.                  *)
(***************************************************************************)
EXTENDS Integers, Sequences, FiniteSets

CONSTANTS
    Nodes,       \* row keys and the ids stored as values
    Edits,       \* the edits: sequences of mutations [row, col, val]
    Initial,     \* the mutations of the table's first cells, written at time 0
    BlockSize,   \* block_size of _write_rows, 2000 in the code
    MaxAttempts, \* attempts of a request, 5 in the code for HBase
    MaxLate,     \* requests left over at a time: a bound for TLC
    MaxTime      \* the last time there is: a bound for TLC

Columns   == {"Parent", "NewParent"}
Mutations == [row : Nodes, col : Columns, val : Nodes]

\* The val_dict of mutate_row has a column once, and the rows of a write are
\* different ones.
NamesOnce(S) == \A m, n \in S : m.row = n.row /\ m.col = n.col => m = n

ASSUME CellStoreConstants ==
    /\ Edits \in Seq(Seq(Mutations))
    /\ \A i \in DOMAIN Edits :
          /\ Edits[i] # << >>
          /\ NamesOnce({Edits[i][j] : j \in DOMAIN Edits[i]})
    /\ Initial \subseteq Mutations /\ NamesOnce(Initial)
    /\ BlockSize \in Nat \ {0}
    /\ MaxAttempts \in Nat \ {0}
    /\ MaxLate \in Nat
    /\ MaxTime \in Nat

VARIABLES
    backend, \* which of the three clients and servers
    cells,   \* the cells on the server
    several, \* those of which it holds several rows
    late,    \* requests the client gave up on and the server may still handle
    edit,    \* the edit in progress, or the next one
    last,    \* the time stamp of the last edit that began
    call,    \* the worker's call in progress
    truth,   \* history: the cells that calls returned as written
    doubt,   \* history: places of cells of calls that have not returned, or
             \* that failed, or whose undo proves nothing
    repeated \* history: places of VAST cells whose write was called again

storeVars == <<backend, cells, several, late, edit, last, call, truth, doubt, repeated>>

Times == 0..MaxTime
Cells == [row : Nodes, col : Columns, val : Nodes, ts : Times]
AllPlaces == [row : Nodes, col : Columns, ts : Times]
Place(c)  == [row |-> c.row, col |-> c.col, ts |-> c.ts]
Places(S) == {Place(c) : c \in S}

Gap(t) == t % 2

\* Definitions marked "Wrong:" are faults the checks must notice; nothing uses them.
\* Wrong: the gap is compared with timedelta(0), and so a whole millisecond stays.
CompatibleTimeStampKept(t, round_up) ==
    IF round_up /\ Gap(t) # 0 THEN t + 2 - Gap(t) ELSE t - Gap(t)

\* Rounding to milliseconds.  In get_compatible_time_stamp the gap is a
\* timedelta and never equals 0, so that a whole millisecond is rounded up to
\* the next one; the other two have a branch for it that does the same.
get_compatible_time_stamp(t, round_up) ==
    IF round_up THEN t + 2 - Gap(t) ELSE t - Gap(t)

get_hbase_compatible_time_stamp(t, round_up) ==
    IF Gap(t) = 0 THEN (IF round_up THEN t + 2 ELSE t)
                  ELSE (IF round_up THEN t + 2 - Gap(t) ELSE t - Gap(t))
get_vast_compatible_time_stamp(t) == t - Gap(t)

\* The time stamp a mutation made by mutate_row(..., time_stamp) stores.  The
\* Bigtable client passes it on as it is; its server takes whole milliseconds.
mutate_row(time_stamp) ==
    CASE backend = "bigtable" -> time_stamp
      [] backend = "hbase"    -> time_stamp - Gap(time_stamp)
      [] backend = "vast"     -> get_vast_compatible_time_stamp(time_stamp)
AcceptsTimeStamp(time_stamp) == backend = "bigtable" => Gap(time_stamp) = 0

CellOf(m, ts) == [row |-> m.row, col |-> m.col, val |-> m.val, ts |-> ts]
EditCells     == {CellOf(Edits[edit][i], mutate_row(last)) : i \in DOMAIN Edits[edit]}

-----------------------------------------------------------------------------
(* What the servers do with a request.                                      *)

\* A put replaces the version of the same place; VAST inserts rows, which a
\* read returns as so many Cells, equal ones too.
PutCells(S) ==
    IF backend = "vast" THEN cells \cup S
    ELSE {c \in cells : Place(c) \notin Places(S)} \cup S
Doubled(S) == IF backend = "vast" THEN cells \cap S ELSE {}

\* Wrong: the time stamp is left out, and the whole column goes.
NamedColumn(c) == {x \in cells : x.row = c.row /\ x.col = c.col}

\* The versions that delete_cells names by c's row, column and time stamp.
Named(c) ==
    {x \in cells :
        /\ x.row = c.row /\ x.col = c.col
        /\ CASE backend = "bigtable" -> x.ts >= c.ts /\ x.ts < c.ts + 2
             [] backend = "hbase"    -> x.ts = c.ts - Gap(c.ts)
             [] backend = "vast"     -> /\ x.ts >= get_vast_compatible_time_stamp(c.ts)
                                        /\ x.ts <= get_vast_compatible_time_stamp(c.ts)}
DeleteCells(S) == cells \ UNION {Named(c) : c \in S}

Apply(op, S) == IF op = "put" THEN PutCells(S) ELSE DeleteCells(S)

\* The server handles a request; a delete takes all the rows of a cell.
Handle(op, S) ==
    /\ cells' = Apply(op, S)
    /\ several' = IF op = "put" THEN several \cup Doubled(S) ELSE several \cap DeleteCells(S)

\* The number tells requests apart that are equal otherwise.
Requests == [op : {"put", "delete"}, cells : SUBSET Cells, number : 0..MaxLate]

\* What is left of a call's request in the server when the client gives up:
\* rows are handled one by one, a VAST transaction as a whole.
LeftOver(op, S, number) ==
    IF S = {} THEN {}
    ELSE IF backend = "vast" THEN {[op |-> op, cells |-> S, number |-> number]}
    ELSE {[op |-> op, cells |-> {c}, number |-> number] : c \in S}

\* The lowest number that no request left over has.
IsFree(number) ==
    /\ \A r \in late : r.number # number
    /\ \A n \in 0..(number - 1) : \E r \in late : r.number = n

\* The client gives up on the request: any part of what is left is lost.
GiveUp ==
    \E number \in {n \in 0..MaxLate : IsFree(n)} :
        \E R \in SUBSET LeftOver(call.op, call.todo, number) :
            /\ late' = late \cup R
            /\ Cardinality(late') <= MaxLate

-----------------------------------------------------------------------------
(* The calls.                                                               *)

\* The cells of a call go out in blocks, one request after the other: HBase
\* writes block_size rows in each and deletes one cell in each.  The batch of
\* Bigtable is one request here, its rows being handled one by one anyway, and
\* the chunks of VAST are inserts of one transaction.
BlockLength(op) ==
    IF backend # "hbase" THEN Len(Edits[edit]) ELSE IF op = "put" THEN BlockSize ELSE 1
Blocks(op) == (Len(Edits[edit]) + BlockLength(op) - 1) \div BlockLength(op)
Block(op, b) ==
    {CellOf(Edits[edit][i], mutate_row(last)) :
        i \in {j \in DOMAIN Edits[edit] : (j - 1) \div BlockLength(op) = b - 1}}

Idle   == [op |-> "none"]
Failed == [op |-> "failed"]   \* a write raised
Undo   == [op |-> "undo"]     \* a delete raised
Started(op, missed) ==
    [op |-> op, block |-> 1, todo |-> Block(op, 1), attempt |-> 1, missed |-> missed]
Running == call.op \in {"put", "delete"}

TypeOK ==
    /\ backend \in {"bigtable", "hbase", "vast"}
    /\ cells \subseteq Cells /\ several \subseteq cells
    /\ late \subseteq Requests
    /\ edit \in 1..(Len(Edits) + 1)
    /\ last \in Times
    /\ call \in {Idle, Failed, Undo}
         \cup [op : {"put", "delete"}, block : Nat \ {0}, todo : SUBSET Cells,
               attempt : 1..MaxAttempts, missed : SUBSET AllPlaces]
    /\ truth \subseteq Cells
    /\ doubt \subseteq AllPlaces /\ repeated \subseteq AllPlaces

StoreInit ==
    /\ backend \in {"bigtable", "hbase", "vast"}
    /\ cells = {CellOf(m, 0) : m \in Initial}
    /\ several = {}
    /\ late  = {}
    /\ edit  = 1
    /\ last  = 0
    /\ call  = Idle
    /\ truth = cells
    /\ doubt = {}
    /\ repeated = {}

\* write(rows of the next edit).  Two edits of one graph never fall into a
\* millisecond, an edit being several requests long.
Write ==
    /\ call = Idle /\ edit <= Len(Edits)
    /\ \E t \in Times :
         /\ t - Gap(t) > last - Gap(last)
         /\ AcceptsTimeStamp(t)
         /\ last' = t
    /\ UNCHANGED <<backend, cells, several, late, edit, truth, repeated>>
    /\ call'  = Started("put", {})'
    /\ doubt' = doubt \cup Places(EditCells)'

\* The same write once more after it failed, with the time stamp it had.
WriteAgain ==
    /\ call = Failed
    /\ call' = Started("put", {})
    /\ repeated' = IF backend = "vast" THEN repeated \cup Places(EditCells) ELSE repeated
    /\ UNCHANGED <<backend, cells, several, late, edit, last, truth, doubt>>

\* delete_cells(the versions that the failed write may have left).  Puts that
\* the server has yet to handle are not undone by it.
UndoWrite ==
    /\ call \in {Failed, Undo}
    /\ call' = Started("delete", UNION {Places(r.cells) : r \in {q \in late : q.op = "put"}})
    /\ UNCHANGED <<backend, cells, several, late, edit, last, truth, doubt, repeated>>

\* The server handles a row of the request, or the transaction of VAST.
ServeRow ==
    /\ Running /\ backend # "vast"
    /\ \E c \in call.todo :
         /\ Handle(call.op, {c})
         /\ call'  = [call EXCEPT !.todo = @ \ {c}]
    /\ UNCHANGED <<backend, late, edit, last, truth, doubt, repeated>>

\* Wrong: each chunk of rows is a transaction of its own.
ServeChunk ==
    /\ Running /\ backend = "vast" /\ call.todo # {}
    /\ \E c \in call.todo :
         /\ Handle(call.op, {c})
         /\ call'  = [call EXCEPT !.todo = @ \ {c}]
    /\ UNCHANGED <<backend, late, edit, last, truth, doubt, repeated>>

ServeTransaction ==
    /\ Running /\ backend = "vast" /\ call.todo # {}
    /\ Handle(call.op, call.todo)
    /\ call'  = [call EXCEPT !.todo = {}]
    /\ UNCHANGED <<backend, late, edit, last, truth, doubt, repeated>>

\* Wrong: the status of a PUT is not looked at either.
IgnoresError ==
    /\ backend = "hbase" /\ call.op \in {"put", "delete"}
    /\ \E c \in call.todo :
         call' = [call EXCEPT !.todo = @ \ {c}, !.missed = @ \cup {Place(c)}]
    /\ UNCHANGED <<backend, cells, several, late, edit, last, truth, doubt, repeated>>

\* The HBase server answers a DELETE with an error and delete_cells, which
\* does not look at the answer, goes on.
DeleteIgnoresError ==
    /\ backend = "hbase" /\ call.op = "delete"
    /\ \E c \in call.todo :
         call' = [call EXCEPT !.todo = @ \ {c}, !.missed = @ \cup {Place(c)}]
    /\ UNCHANGED <<backend, cells, several, late, edit, last, truth, doubt, repeated>>

\* The answer of a block, and the next request.
NextBlock ==
    /\ Running /\ call.todo = {} /\ call.block < Blocks(call.op)
    /\ call' = [call EXCEPT !.block = @ + 1, !.todo = Block(call.op, call.block + 1),
                            !.attempt = 1]
    /\ UNCHANGED <<backend, cells, several, late, edit, last, truth, doubt, repeated>>

\* Wrong: VAST's transactions are sent again too, as if they were puts of HBase.
RetryAll ==
    /\ Running /\ call.attempt < MaxAttempts
    /\ \/ backend = "bigtable"
       \/ backend # "bigtable" /\ call.op = "put"
    /\ GiveUp
    /\ call' = [call EXCEPT !.attempt = @ + 1, !.todo = Block(call.op, call.block)]
    /\ UNCHANGED <<backend, cells, several, edit, last, truth, doubt, repeated>>

\* Wrong: the attempts are counted one too far.
RetryOnceMore ==
    /\ Running /\ call.attempt <= MaxAttempts
    /\ \/ backend = "bigtable"
       \/ backend = "hbase" /\ call.op = "put"
    /\ GiveUp
    /\ call' = [call EXCEPT !.attempt = @ + 1, !.todo = Block(call.op, call.block)]
    /\ UNCHANGED <<backend, cells, several, edit, last, truth, doubt, repeated>>

\* An attempt times out or loses its connection and the request goes out
\* again: the puts of HBase, and all that the Bigtable library sends.
Retry ==
    /\ Running /\ call.attempt < MaxAttempts
    /\ \/ backend = "bigtable"
       \/ backend = "hbase" /\ call.op = "put"
    /\ GiveUp
    /\ call' = [call EXCEPT !.attempt = @ + 1, !.todo = Block(call.op, call.block)]
    /\ UNCHANGED <<backend, cells, several, edit, last, truth, doubt, repeated>>

\* The call raises: the last attempt failed, the server refused a row, the
\* connection broke, before or after the server handled the request.
Raise ==
    /\ Running
    /\ GiveUp
    /\ call' = IF call.op = "put" THEN Failed ELSE Undo
    /\ UNCHANGED <<backend, cells, several, edit, last, truth, doubt, repeated>>

ServeLate ==
    /\ \E r \in late :
         /\ Handle(r.op, r.cells)
         /\ late'  = late \ {r}
    /\ UNCHANGED <<backend, edit, last, call, truth, doubt, repeated>>

ReturnWrite ==
    /\ call.op = "put" /\ call.todo = {} /\ call.block = Blocks("put")
    /\ truth' = truth \cup EditCells
    /\ doubt' = doubt \ Places(EditCells)
    /\ call'  = Idle
    /\ edit'  = edit + 1
    /\ UNCHANGED <<backend, cells, several, late, last, repeated>>

ReturnDelete ==
    /\ call.op = "delete" /\ call.todo = {} /\ call.block = Blocks("delete")
    /\ doubt' = doubt \ (Places(EditCells) \ call.missed)
    /\ call'  = Idle
    /\ UNCHANGED <<backend, cells, several, late, edit, last, truth, repeated>>

StoreNext ==
    \/ Write \/ WriteAgain \/ UndoWrite
    \/ ServeRow \/ ServeTransaction \/ DeleteIgnoresError
    \/ NextBlock \/ Retry \/ Raise \/ ServeLate
    \/ ReturnWrite \/ ReturnDelete

StoreSpec == StoreInit /\ [][StoreNext]_storeVars

-----------------------------------------------------------------------------
(* Properties.                                                              *)

\* The cells that no call leaves in doubt.
Certain == {c \in cells : Place(c) \notin doubt}

\* What calls returned as written is stored, and nothing else but what is in
\* doubt, and an undo took away exactly the versions it named (base.py:209).  A cell
\* has one version in one row, however often a request was sent and however late it is
\* handled; in VAST, whose inserts append and are never sent again by the client
\* (vast/client.py:239), it has more rows only if the caller called a write again that
\* raised (vast/utils.py:245 then returns equal Cells).
StoredAsReturned ==
    /\ Certain = {c \in truth : Place(c) \notin doubt}
    /\ \A c, d \in cells : Place(c) = Place(d) => c = d
    /\ \A c \in several : backend = "vast" /\ Place(c) \in repeated

\* The requests of an edit, in blocks and rows, sent again, late or undone, are
\* an AtomicStore outside of what is in doubt: cells become certain only
\* all of an edit at once, when its write returns, and no later call, undo or
\* late request takes them away or changes them (base.py:112, 209).
Atomic == INSTANCE AtomicStore WITH stored <- Certain
ImplementsAtomic == Atomic!Spec

\* A write to VAST is one transaction: while no delete has begun, all the
\* cells of the edit in progress are stored or none is (vast/client.py:239).
VastWritesWhole ==
    backend = "vast" /\ edit <= Len(Edits) /\ call.op \in {"put", "failed"} =>
        EditCells \subseteq cells \/ EditCells \cap cells = {}

=============================================================================
