------------------------------- MODULE IdGen -------------------------------
(***************************************************************************)
(* Ids from counters: ClientWithIDGen of src/kvdbclient/base.py over the   *)
(* increments of the Bigtable and the HBase client.                        *)
(*                                                                         *)
(* An increment is one atomic request; its answer may get lost, and then   *)
(* the ids of its range are nobody's.  The ids of a plain chunk come from  *)
(* one counter, those of a root chunk from one of NCounters counters that  *)
(* is drawn at random.  An id is the OR of a chunk id and a segment number *)
(* made from the counter; the code trusts that the number fits the bits    *)
(* below the chunk's, and so an id is here the pair of the two.            *)
(***************************************************************************)
EXTENDS Integers

CONSTANTS
    Clients,       \* threads and processes that call
    Chunks,        \* chunk ids
    OperationLogs, \* the row of the operation ids
    NCounters,     \* n_counters, 256 in the code
    Sizes,         \* sizes and segment numbers that callers pass: a bound for TLC
    MaxCounter     \* where a counter stops: a bound for TLC

ASSUME IdGenConstants ==
    /\ OperationLogs \notin Chunks
    /\ NCounters \in Nat \ {0}
    /\ Sizes \subseteq Nat
    /\ MaxCounter \in Nat

VARIABLES
    rootChunks, \* chunks whose callers pass root_chunk=True, all of them, always
    counter,  \* row -> the value in its Counter column
    call,     \* client -> the call in progress
    issued,   \* history: chunk -> segment numbers of the ids that calls returned
    known     \* history: chunk -> a segment number that a call returned as an
              \* id or as the maximum, or set as the maximum: the largest one

vars == <<rootChunks, counter, call, issued, known>>

\* The row of a counter; that of a plain chunk has no number in its key.
NumbersOf(chunk) == IF chunk \in rootChunks THEN 0..(NCounters - 1) ELSE {0}

\* What has ids, and the rows of counters.
Spaces == Chunks \cup {OperationLogs}
Rows   == Spaces \X (0..(NCounters - 1))

Idle == [pc |-> "idle"]
Call == {Idle}
   \cup [pc : {"create", "created", "set", "done"}, \* a request, or its answer
         row : Rows, size : Nat,
         high : Nat,                                 \* the answer
         floor : Nat]                                \* known, when the call began
   \cup [pc : {"get"}, chunk : Spaces,
         next : 0..NCounters, max : Nat,             \* counter, max_value
         seen : SUBSET Nat]                          \* issued, when the call began

Init ==
    /\ rootChunks \in SUBSET Chunks
    /\ counter = [row \in Rows |-> 0]
    /\ call    = [c \in Clients |-> Idle]
    /\ issued  = [chunk \in Spaces |-> {}]
    /\ known   = [chunk \in Spaces |-> 0]

Larger(a, b) == IF a < b THEN b ELSE a

Begin(c, new) ==
    /\ call[c].pc = "idle"
    /\ call' = [call EXCEPT ![c] = new]
    /\ UNCHANGED <<rootChunks, counter, issued, known>>

End(c) == call' = [call EXCEPT ![c] = Idle]

Know(chunk, n) == known' = [known EXCEPT ![chunk] = Larger(@, n)]

-----------------------------------------------------------------------------
(* Creating ids.                                                           *)

Increment(pc, row, size, floor) ==
    [pc |-> pc, row |-> row, size |-> size, high |-> 0, floor |-> floor]

\* create_node_ids, create_node_id, and, with size 1, create_operation_id.
create_node_ids(c, chunk, size) ==
    /\ chunk = OperationLogs => size = 1
    /\ \E i \in NumbersOf(chunk) :
          Begin(c, Increment("create", <<chunk, i>>, size, known[chunk]))

\* Definitions marked "Wrong:" are faults the checks must notice; nothing uses them.
\* Wrong: the counter stops one short of the node.
SetMaxOffByOne(c, chunk, seg) == Begin(c, Increment("set", <<chunk, 0>>, seg - 1, seg))

\* The counter is incremented by chunk_id ^ node_id, the segment number of the
\* node.  There is no root_chunk argument.
set_max_node_id(c, chunk, seg) == Begin(c, Increment("set", <<chunk, 0>>, seg, seg))

\* Wrong: the size of the range is not passed on.
IncrementByOne(c) ==
    LET row  == call[c].row
        high == counter[row] + 1
    IN  /\ call[c].pc \in {"create", "set"}
        /\ high <= MaxCounter
        /\ counter' = [counter EXCEPT ![row] = high]
        /\ call' = [call EXCEPT ![c].pc = IF @ = "create" THEN "created" ELSE "done",
                                ![c].high = high]
        /\ UNCHANGED <<rootChunks, issued, known>>

\* The increment; its answer is the new value of the counter.
_get_ids_range(c) ==
    LET row  == call[c].row
        high == counter[row] + call[c].size
    IN  /\ call[c].pc \in {"create", "set"}
        /\ high <= MaxCounter
        /\ counter' = [counter EXCEPT ![row] = high]
        /\ call' = [call EXCEPT ![c].pc = IF @ = "create" THEN "created" ELSE "done",
                                ![c].high = high]
        /\ UNCHANGED <<rootChunks, issued, known>>

\* The n-th segment number of a counter: those of a root chunk take turns.
Segment(row, n) == IF row[1] \in rootChunks THEN n * NCounters + row[2] ELSE n

\* Wrong: the range begins with the old value of the counter.
SegmentsFromOld(c) ==
    {Segment(call[c].row, n) : n \in (call[c].high - call[c].size)..call[c].high}

\* The segment numbers of the new ids.
Segments(c) ==
    {Segment(call[c].row, n) : n \in (call[c].high + 1 - call[c].size)..call[c].high}

EndCreate(c) ==
    LET chunk == call[c].row[1]
    IN  /\ call[c].pc = "created"
        /\ issued' = [issued EXCEPT ![chunk] = @ \cup Segments(c)]
        /\ Know(chunk, IF call[c].size = 0 THEN 0 ELSE Segment(call[c].row, call[c].high))
        /\ End(c)
        /\ UNCHANGED <<rootChunks, counter>>

EndSetMax(c) ==
    /\ call[c].pc = "done"
    /\ Know(call[c].row[1], call[c].floor)
    /\ End(c)
    /\ UNCHANGED <<rootChunks, counter, issued>>

\* The call raises, or the client dies: before the increment or after it.
Raise(c) ==
    /\ call[c].pc # "idle"
    /\ End(c)
    /\ UNCHANGED <<rootChunks, counter, issued, known>>

-----------------------------------------------------------------------------
(* Reading the maximum.                                                    *)

\* get_max_node_id and get_max_operation_id.
get_max_node_id(c, chunk) ==
    Begin(c, [pc |-> "get", chunk |-> chunk, next |-> 0, max |-> 0, seen |-> issued[chunk]])

Unread(c) == call[c].next \in NumbersOf(call[c].chunk)

\* Wrong: the number of the counter is left out.
ReadCounterUnnumbered(c) ==
    LET row == <<call[c].chunk, call[c].next>>
    IN  /\ call[c].pc = "get" /\ Unread(c)
        /\ call' = [call EXCEPT ![c].next = @ + 1,
                                ![c].max = Larger(@, Segment(row, counter[row]) - call[c].next)]
        /\ UNCHANGED <<rootChunks, counter, issued, known>>

\* The counters of a root chunk are read one after the other.
ReadCounter(c) ==
    LET row == <<call[c].chunk, call[c].next>>
    IN  /\ call[c].pc = "get" /\ Unread(c)
        /\ call' = [call EXCEPT ![c].next = @ + 1,
                                ![c].max = Larger(@, Segment(row, counter[row]))]
        /\ UNCHANGED <<rootChunks, counter, issued, known>>

EndGetMax(c) ==
    /\ call[c].pc = "get" /\ ~Unread(c)
    /\ Know(call[c].chunk, call[c].max)
    /\ End(c)
    /\ UNCHANGED <<rootChunks, counter, issued>>

Next ==
    \E c \in Clients :
        \/ \E chunk \in Spaces, size \in Sizes : create_node_ids(c, chunk, size)
        \/ \E chunk \in Chunks \ rootChunks, seg \in Sizes : set_max_node_id(c, chunk, seg)
        \/ \E chunk \in Spaces : get_max_node_id(c, chunk)
        \/ _get_ids_range(c) \/ EndCreate(c) \/ EndSetMax(c)
        \/ ReadCounter(c) \/ EndGetMax(c) \/ Raise(c)

Spec == Init /\ [][Next]_vars

-----------------------------------------------------------------------------
(* What the ids are good for.                                              *)

\* Every variable has its type.
TypeOK ==
    /\ rootChunks \subseteq Chunks
    /\ counter \in [Rows -> Nat]
    /\ call \in [Clients -> Call]
    /\ issued \in [Spaces -> SUBSET Nat]
    /\ known \in [Spaces -> Nat]

Created(c) == call[c].pc = "created"
ChunkOf(c) == call[c].row[1]

\* No id is created twice: not from one counter by two clients, not from two
\* counters of a root chunk, and not from a range whose answer got lost.
UniqueIds ==
    \A c \in Clients : Created(c) =>
        /\ Segments(c) \cap issued[ChunkOf(c)] = {}
        /\ \A d \in Clients \ {c} :
              Created(d) /\ ChunkOf(d) = ChunkOf(c) => Segments(c) \cap Segments(d) = {}

\* The maximum is not below an id that was returned before it was asked for,
\* though the counters are read while others increment them.
MaxCoversIssued ==
    \A c \in Clients : call[c].pc = "get" /\ ~Unread(c) =>
        \A n \in call[c].seen : n <= call[c].max

\* In a plain chunk an id is above all that was returned before it was asked
\* for, the maximum and a maximum that was set included.
IdsIncrease ==
    \A c \in Clients : Created(c) /\ ChunkOf(c) \notin rootChunks =>
        \A n \in Segments(c) : n > call[c].floor
=============================================================================
