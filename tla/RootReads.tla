----------------------------- MODULE RootReads -----------------------------
(***************************************************************************)
(* Reads at a time, while the worker of CellStore writes: read_node and    *)
(* read_nodes of src/kvdbclient/base.py over the three clients, and the    *)
(* RootExtension of src/kvdbclient/extensions.py, whose get_root and       *)
(* get_roots climb from layer to layer with one read after the other.      *)
(*                                                                         *)
(* A request reads its rows one by one and other requests get in between;  *)
(* only a VAST request, a transaction, reads all its rows at once.  What   *)
(* makes the rows of a call fit together is the time stamp alone, which is *)
(* resolved once and bounds all its reads.                                 *)
(***************************************************************************)
EXTENDS CellStore, FiniteSetsExt

CONSTANTS
    Readers,
    NoNode,     \* the id 0, and the parent that was not found
    Layer,      \* id -> the layer in its first bits
    LayerCount, \* _layer_count
    MaxRowKeys, \* max_row_key_count, 1000 in the code
    Ranges,     \* the ranges of time, <<start, end, inclusive>>, that callers of
                \* read_nodes ask for: a bound for TLC
    TimeStamps, \* the time stamps of calls of get_root, get_roots, is_latest_roots: a
                \* bound for TLC
    StopLayers, \* the values of stop_layer that callers climb to: a bound for TLC
    Queries     \* what callers ask for: sets of nodes, by method: a bound for TLC

Methods == {"read_nodes", "get_root", "get_roots", "is_latest_roots"}

ASSUME RootReadsConstants ==
    /\ NoNode \notin Nodes
    /\ LayerCount \in Nat \ {0}
    /\ Layer \in [Nodes \cup {NoNode} -> 0..LayerCount]
    /\ Layer[NoNode] = 0
    /\ MaxRowKeys \in Nat \ {0}
    /\ TimeStamps \subseteq Times
    /\ StopLayers \subseteq 1..LayerCount
    /\ Ranges \subseteq Times \X Times \X BOOLEAN
    /\ Queries \in [Methods -> SUBSET ((SUBSET Nodes) \ {{}})]

\* What the code counts on: a parent is on a higher layer, so that stop_layer + 1
\* turns take a climb to its end (extensions.py:171).
ASSUME ParentsAbove ==
    \A m \in Initial \cup UNION {{Edits[i][j] : j \in DOMAIN Edits[i]} : i \in DOMAIN Edits} :
        m.col = "Parent" => Layer[m.row] < Layer[m.val]

VARIABLES
    read, \* reader -> the call in progress, or the last one
    clean \* history: reader -> no cell in doubt was in the call's time since
          \* it began

vars == <<storeVars, read, clean>>

Ids == Nodes \cup {NoNode}

-----------------------------------------------------------------------------
(* What one read of a row returns.                                          *)

\* Time stamps below an end_time, or up to its millisecond: Bigtable and HBase
\* know only exclusive ends, and so the end is rounded up for the latter.
_get_time_range_filter(ts, end_time, inclusive) ==
    ts < get_compatible_time_stamp(end_time, inclusive)

_fetch_rows_by_range(ts, end_time, inclusive) ==
    ts < get_hbase_compatible_time_stamp(end_time, inclusive)

time_predicate(ts, end_time, inclusive) ==
    LET vast_end == get_vast_compatible_time_stamp(end_time)
    IN  IF inclusive THEN ts <= vast_end ELSE ts < vast_end

InTime(ts, end_time, inclusive) ==
    CASE backend = "bigtable" -> _get_time_range_filter(ts, end_time, inclusive)
      [] backend = "hbase"    -> _fetch_rows_by_range(ts, end_time, inclusive)
      [] backend = "vast"     -> time_predicate(ts, end_time, inclusive)

\* Wrong: the start is rounded up.
NotBeforeRoundedUp(ts, start_time) == ts >= get_hbase_compatible_time_stamp(start_time, TRUE)

\* Time stamps from the millisecond of start_time on; 0 stands for no start_time.
NotBefore(ts, start_time) ==
    CASE backend = "bigtable" -> ts >= get_compatible_time_stamp(start_time, FALSE)
      [] backend = "hbase"    -> ts >= get_hbase_compatible_time_stamp(start_time, FALSE)
      [] backend = "vast"     -> ts >= get_vast_compatible_time_stamp(start_time)

\* The first of the versions of a column, the newest one coming first.
First(S) ==
    IF S = {} THEN {NoNode}
    ELSE {c.val : c \in {x \in S : \A y \in S : y.ts <= x.ts}}

ReadRow(row, col, start_time, end_time, inclusive) ==
    First({c \in cells : /\ c.row = row /\ c.col = col
                         /\ NotBefore(c.ts, start_time)
                         /\ InTime(c.ts, end_time, inclusive)})

-----------------------------------------------------------------------------
(* The calls.                                                               *)

\* start and time are start_time and end_time of the reads; stop is stop_layer,
\* which is the layer count when it is left out; zero is fail_to_zero;
\* at tells for each node asked for where its climb has come to.
IsCall(r) ==
    /\ DOMAIN r = {"pc", "method", "start", "time", "inclusive", "stop", "zero", "at",
                   "todo", "got", "round"}
    /\ r.pc \in {"idle", "reading", "done", "failed"} /\ r.method \in Methods
    /\ r.start \in Times /\ r.time \in Times /\ r.inclusive \in BOOLEAN
    /\ r.stop \in 1..LayerCount /\ r.zero \in BOOLEAN
    /\ r.todo \subseteq Ids /\ r.round \in 0..LayerCount
    /\ DOMAIN r.at \subseteq Nodes  /\ \A n \in DOMAIN r.at  : r.at[n] \in Ids
    /\ DOMAIN r.got \subseteq Ids   /\ \A n \in DOMAIN r.got : r.got[n] \in Ids

IdleCall ==
    [pc |-> "idle", method |-> "read_nodes", start |-> 0, time |-> 0, inclusive |-> FALSE,
     stop |-> LayerCount, zero |-> FALSE, at |-> [n \in {} |-> NoNode], todo |-> {},
     got |-> [n \in {} |-> NoNode], round |-> 0]

\* No cell in doubt is in the time of the call.
Settled(r) == \A p \in doubt : ~InTime(p.ts, r.time, r.inclusive)

Init ==
    /\ StoreInit
    /\ read  = [d \in Readers |-> IdleCall]
    /\ clean = [d \in Readers |-> TRUE]

\* The time asked for, or that of the clock, in milliseconds.
get_valid_timestamp(time_stamp) == get_compatible_time_stamp(time_stamp, FALSE)

\* The nodes whose climb goes on.
Climbing(at, stop_layer) == {n \in DOMAIN at : Layer[at[n]] < stop_layer}

Start(d, r) ==
    /\ read'  = [read EXCEPT ![d] = r]
    /\ clean' = [clean EXCEPT ![d] = Settled(r)]
    /\ UNCHANGED storeVars

Reading(method, Q, start_time, end_time, inclusive) ==
    [pc |-> "reading", method |-> method, start |-> start_time, time |-> end_time,
     inclusive |-> inclusive, stop |-> LayerCount, zero |-> FALSE,
     at |-> [n \in Q |-> n], todo |-> Q, got |-> [n \in {} |-> NoNode], round |-> 0]

\* A call that reads the parents of those nodes only that are below stop_layer.
Climb(r, stop_layer, fail_to_zero) ==
    LET todo == Climbing(r.at, stop_layer)
    IN  [r EXCEPT !.stop = stop_layer, !.zero = fail_to_zero, !.todo = todo,
                  !.pc = IF todo = {} THEN "done" ELSE "reading"]

\* read_node, and read_nodes for a range of ids; for a set of ids it reads them as
\* get_roots does.
read_nodes(d) ==
    \E Q \in Queries["read_nodes"], t \in Ranges :
        Start(d, Reading("read_nodes", Q, t[1], t[2], t[3]))

\* Wrong: the reads stop before the time stamp.
GetRootExclusive(d) ==
    \E n \in UNION Queries["get_root"], time_stamp \in TimeStamps, stop_layer \in StopLayers :
        Start(d, Climb(Reading("get_root", {n}, 0, get_valid_timestamp(time_stamp), FALSE),
                       stop_layer, FALSE))

get_root(d) ==
    \E n \in UNION Queries["get_root"], time_stamp \in TimeStamps, stop_layer \in StopLayers :
        Start(d, Climb(Reading("get_root", {n}, 0, get_valid_timestamp(time_stamp), TRUE),
                       stop_layer, FALSE))

get_roots(d) ==
    \E Q \in Queries["get_roots"], time_stamp \in TimeStamps, stop_layer \in StopLayers,
       fail_to_zero \in BOOLEAN :
        Start(d, Climb(Reading("get_roots", Q, 0, get_valid_timestamp(time_stamp), TRUE),
                       stop_layer, fail_to_zero))

is_latest_roots(d) ==
    \E Q \in Queries["is_latest_roots"], time_stamp \in TimeStamps :
        Start(d, Reading("is_latest_roots", Q, 0, get_valid_timestamp(time_stamp), TRUE))

Begin(d) ==
    /\ read[d].pc = "idle"
    /\ read_nodes(d) \/ get_root(d) \/ get_roots(d) \/ is_latest_roots(d)

Finish(r, at, pc) == [r EXCEPT !.at = at, !.pc = pc, !.got = IdleCall.got, !.round = 0]

\* get_parents, and a turn of the loop of get_roots: nodes not found become 0
\* or raise KeyError.  A 0 stays in the loop, which ends by its number of turns.
RootsTurn(r) ==
    LET found   == [n \in DOMAIN r.at |->
                      IF n \in Climbing(r.at, r.stop) THEN r.got[r.at[n]] ELSE r.at[n]]
        missing == \E n \in Climbing(r.at, r.stop) : r.got[r.at[n]] = NoNode
        next    == Climbing(found, r.stop)
    IN  IF missing /\ ~r.zero THEN Finish(r, r.at, "failed")
        ELSE IF next = {} \/ r.round = r.stop
        THEN Finish(r, found,
                    IF \E n \in next : found[n] # NoNode THEN "failed" ELSE "done")
        ELSE [r EXCEPT !.at = found, !.todo = {found[n] : n \in next},
                       !.got = IdleCall.got, !.round = @ + 1]

\* A turn of the loop of get_root, which ends where no parent is found.
RootTurn(r) ==
    LET n      == CHOOSE m \in DOMAIN r.at : TRUE
        parent == r.got[r.at[n]]
    IN  IF parent = NoNode THEN Finish(r, r.at, "done")
        ELSE IF Layer[parent] >= r.stop THEN Finish(r, [r.at EXCEPT ![n] = parent], "done")
        ELSE [r EXCEPT !.at = [@ EXCEPT ![n] = parent], !.todo = {parent},
                       !.got = IdleCall.got]

\* What the client does when all rows of a read have come.
Turn(r) ==
    IF r.todo # {} THEN r
    ELSE CASE r.method = "get_root"  -> RootTurn(r)
           [] r.method = "get_roots" -> RootsTurn(r)
           [] OTHER -> Finish(r, [n \in DOMAIN r.at |-> r.got[n]], "done")

ColumnOf(method) == IF method = "is_latest_roots" THEN "NewParent" ELSE "Parent"

\* Wrong: above the first layer the time is resolved anew.
EndTimeAnew(r) ==
    IF \E n \in DOMAIN r.at : r.at[n] # n THEN get_valid_timestamp(MaxTime) ELSE r.time

EndTime(r) == r.time

\* The rows S of a call's read, at this moment; the last ones end the turn.
_read_byte_rows(d, S) ==
    LET r == read[d] IN
    /\ \E f \in [S -> Ids] :
         /\ \A n \in S : f[n] \in ReadRow(n, ColumnOf(r.method), r.start, EndTime(r), r.inclusive)
         /\ read' = [read EXCEPT ![d] =
               Turn([r EXCEPT !.todo = @ \ S,
                              !.got  = [n \in DOMAIN @ \cup S |->
                                          IF n \in S THEN f[n] ELSE @[n]]])]
    /\ UNCHANGED <<storeVars, clean>>

\* The answer of Bigtable is a stream of rows, that of HBase a scan.
_read(d) ==
    backend = "bigtable" /\ \E n \in read[d].todo : _read_byte_rows(d, {n})

_fetch_rows_by_keys(d) ==
    backend = "hbase" /\ \E n \in read[d].todo : _read_byte_rows(d, {n})

\* A VAST transaction for a range of ids, or for each chunk of keys.
_select_rows_once(d) ==
    LET todo == read[d].todo
        size == IF read[d].method = "read_nodes" THEN Cardinality(todo)
                ELSE Min({MaxRowKeys, Cardinality(todo)})
    IN  /\ backend = "vast" /\ todo # {}
        /\ \E S \in kSubset(size, todo) : _read_byte_rows(d, S)

Read(d) == read[d].pc = "reading" /\ (_read(d) \/ _fetch_rows_by_keys(d) \/ _select_rows_once(d))

\* The caller has its answer.
Return(d) ==
    /\ read[d].pc \in {"done", "failed"}
    /\ read'  = [read EXCEPT ![d] = IdleCall]
    /\ clean' = [clean EXCEPT ![d] = TRUE]
    /\ UNCHANGED storeVars

\* A step of the worker or the servers, which finds no answers: they are for the
\* caller alone.
Store ==
    /\ StoreNext
    /\ read'  = [d \in Readers |-> IF read[d].pc = "reading" THEN read[d] ELSE IdleCall]
    /\ clean' = [d \in Readers |-> read[d].pc = "reading" => clean[d] /\ Settled(read[d])']

Next == Store \/ \E d \in Readers : Begin(d) \/ Read(d) \/ Return(d)
Spec == Init /\ [][Next]_vars

-----------------------------------------------------------------------------
(* Properties.                                                              *)

ReadTypeOK ==
    /\ TypeOK
    /\ DOMAIN read = Readers
    /\ \A d \in Readers : IsCall(read[d])
    /\ clean \in [Readers -> BOOLEAN]

\* What the table holds at a time: the newest version of what was returned as
\* written with a time stamp up to it; and of that, from some time on.
AsOfBetween(row, col, from, time) ==
    First({c \in truth : c.row = row /\ c.col = col /\ from <= c.ts /\ c.ts <= time})
AsOf(row, col, time) == AsOfBetween(row, col, 0, time)

\* The end of the climb from n to a layer at a time; it stays where no parent is
\* found, or goes to NoNode.
RootAsOf(n, time, stop, stays) ==
    LET up[k \in 0..LayerCount] ==
          IF k = 0 THEN n
          ELSE LET below  == up[k - 1]
                   parent == CHOOSE p \in AsOf(below, "Parent", time) : TRUE
               IN IF Layer[below] >= stop \/ (parent = NoNode /\ stays)
                  THEN below ELSE parent
    IN  up[LayerCount]

Answered(d, method) == read[d].pc \in {"done", "failed"} /\ read[d].method = method /\ clean[d]

\* read_node and read_nodes return the newest version from the millisecond of
\* start_time on and up to that of end_time, or before it, whatever the backend and
\* whatever its rounding; and read_nodes the versions of one moment, though it
\* reads row after row (base.py:269, 324).
ReadAsOf ==
    \A d \in Readers : Answered(d, "read_nodes") =>
        LET r == read[d]
            from == r.start - Gap(r.start)
            upTo == r.time - Gap(r.time) - (IF r.inclusive THEN 0 ELSE 1)
        IN  \A n \in DOMAIN r.at : r.at[n] \in AsOfBetween(n, "Parent", from, upTo)

\* get_root and get_roots return the roots of one moment, though they read layer
\* after layer while later edits move the nodes; get_roots raises when a
\* node has none, or returns 0 if told so (extensions.py:137, 157).
RootsAsOf ==
    \A d \in Readers :
        LET r == read[d] IN
        /\ Answered(d, "get_root") =>
              /\ r.pc = "done"
              /\ \A n \in DOMAIN r.at : r.at[n] = RootAsOf(n, r.time, r.stop, TRUE)
        /\ Answered(d, "get_roots") =>
              IF \E n \in DOMAIN r.at : RootAsOf(n, r.time, r.stop, FALSE) = NoNode /\ ~r.zero
              THEN r.pc = "failed"
              ELSE /\ r.pc = "done"
                   /\ \A n \in DOMAIN r.at : r.at[n] = RootAsOf(n, r.time, r.stop, FALSE)

\* is_latest_roots tells of each root whether an edit up to that moment had
\* replaced it (extensions.py:191).
LatestAsOf ==
    \A d \in Readers : Answered(d, "is_latest_roots") =>
        \A n \in DOMAIN read[d].at : read[d].at[n] \in AsOf(n, "NewParent", read[d].time)

\* What RootIsLatest needs of the application, which chooses what an edit writes:
\* after each edit there are nodes in use, with those that callers climb from, and
\* their parents; and none of them was replaced.
CellsAfter(count) ==
    {CellOf(m, 0) : m \in Initial}
        \cup UNION {{CellOf(Edits[i][k], i) : k \in DOMAIN Edits[i]} : i \in 1..count}
ValueAfter(count, row, col) == First({c \in CellsAfter(count) : c.row = row /\ c.col = col})

Asked == {n \in UNION (Queries["get_root"] \cup Queries["get_roots"]) : Layer[n] < LayerCount}

InUse(S, count) ==
    /\ Asked \subseteq S
    /\ \A n \in S : /\ ValueAfter(count, n, "Parent") \subseteq S \cup {NoNode}
                    /\ ValueAfter(count, n, "NewParent") = {NoNode}
EditsReplaceRoots == \A count \in 0..Len(Edits) : \E S \in SUBSET Nodes : InUse(S, count)

\* The two agree: a root that get_root or get_roots climbed to is one that
\* is_latest_roots calls the latest at the same moment.
RootIsLatest ==
    \A d \in Readers : Answered(d, "get_root") \/ Answered(d, "get_roots") =>
        \A n \in DOMAIN read[d].at :
            Layer[n] < LayerCount /\ Layer[read[d].at[n]] = LayerCount =>
                ReadRow(read[d].at[n], "NewParent", 0, read[d].time, TRUE) = {NoNode}

=============================================================================
