---------------------------- MODULE IdGenProofs ----------------------------
(***************************************************************************)
(* Proofs about IdGen, for every number of clients, chunks and counters.   *)
(***************************************************************************)
EXTENDS IdGen, TLAPS

-----------------------------------------------------------------------------
(* Segment numbers.                                                        *)

\* The counters of a root chunk take turns and never meet.
LEMMA TurnsDiffer ==
    ASSUME NEW N \in Nat \ {0}, NEW i \in 0..(N - 1), NEW j \in 0..(N - 1),
           NEW k \in Nat, NEW l \in Nat, k * N + i = l * N + j
    PROVE  k = l /\ i = j
<1>1. ASSUME NEW a \in Nat, NEW b \in Nat, a < b
      PROVE  a * N + N <= b * N
  <2>1. PICK d \in Nat : b = a + 1 + d
    <3>1. b - a - 1 \in Nat /\ b = a + 1 + (b - a - 1)
      BY <1>1
    <3> QED BY <3>1
  <2>2. b * N = a * N + N + d * N
    BY <2>1
  <2>3. d * N \in Nat /\ a * N \in Nat
    OBVIOUS
  <2> QED BY <2>2, <2>3
<1>2. k * N \in Nat /\ l * N \in Nat
  OBVIOUS
<1>3. ~(k < l)
  BY <1>1, <1>2
<1>4. ~(l < k)
  BY <1>1, <1>2
<1>5. k = l
  BY <1>3, <1>4
<1> QED BY <1>2, <1>5

\* A larger count gives a larger number.
LEMMA TurnsIncrease ==
    ASSUME NEW N \in Nat, NEW i \in Nat, NEW k \in Nat, NEW l \in Nat, k <= l
    PROVE  k * N + i <= l * N + i /\ k * N + i \in Nat
<1>1. PICK d \in Nat : l = k + d
  <2>1. l - k \in Nat /\ l = k + (l - k)
    OBVIOUS
  <2> QED BY <2>1
<1>2. l * N = k * N + d * N
  BY <1>1
<1>3. d * N \in Nat /\ k * N \in Nat
  OBVIOUS
<1> QED BY <1>2, <1>3

\* Two counts of a space give one number only if they are the same count.
LEMMA SegmentsDiffer ==
    ASSUME TypeOK, NEW s \in Spaces, NEW i \in NumbersOf(s), NEW j \in NumbersOf(s),
           NEW k \in Nat, NEW l \in Nat, Segment(<<s, i>>, k) = Segment(<<s, j>>, l)
    PROVE  i = j /\ k = l
<1>1. CASE s \in rootChunks
  <2>1. i \in 0..(NCounters - 1) /\ j \in 0..(NCounters - 1)
    BY <1>1 DEF NumbersOf
  <2>2. k * NCounters + i = l * NCounters + j
    BY <1>1 DEF Segment
  <2> QED BY <2>1, <2>2, TurnsDiffer, IdGenConstants
<1>2. CASE s \notin rootChunks
  BY <1>2 DEF NumbersOf, Segment
<1> QED BY <1>1, <1>2

\* Of two counts of one counter the larger one gives the larger number.
LEMMA SegmentsIncrease ==
    ASSUME TypeOK, NEW s \in Spaces, NEW i \in NumbersOf(s),
           NEW k \in Nat, NEW l \in Nat, k <= l
    PROVE  /\ Segment(<<s, i>>, k) <= Segment(<<s, i>>, l)
           /\ Segment(<<s, i>>, k) \in Nat
<1>1. CASE s \in rootChunks
  <2>1. i \in Nat
    BY <1>1, IdGenConstants DEF NumbersOf
  <2> QED BY <1>1, <2>1, TurnsIncrease, IdGenConstants DEF Segment
<1>2. CASE s \notin rootChunks
  BY <1>2 DEF Segment
<1> QED BY <1>1, <1>2

-----------------------------------------------------------------------------
(* The inductive invariant.                                                *)

Counting(c) == call[c].pc \in {"create", "created", "set", "done"}

\* An answer is within its counter, at the end of the range it stands for.
RangeInv(c) ==
    /\ Counting(c) => call[c].row[2] \in NumbersOf(call[c].row[1])
    /\ call[c].pc \in {"created", "done"} =>
           call[c].size <= call[c].high /\ call[c].high <= counter[call[c].row]

\* In a plain chunk all that is known is at most the counter, and at most the
\* begin of a range that was asked for later.
FloorInv(c) ==
    /\ call[c].pc \in {"set", "done"} =>
           call[c].row[1] \notin rootChunks /\ call[c].floor = call[c].size
    /\ call[c].pc = "create" /\ call[c].row[1] \notin rootChunks =>
           call[c].floor <= counter[call[c].row]
    /\ call[c].pc = "created" /\ call[c].row[1] \notin rootChunks =>
           call[c].floor <= call[c].high - call[c].size
    /\ call[c].pc = "get" /\ call[c].chunk \notin rootChunks =>
           call[c].max <= counter[<<call[c].chunk, 0>>]

\* m comes from one of the counters from number next on.
FromCounter(s, next, m) ==
    \E i \in NumbersOf(s) : \E k \in Nat :
        next <= i /\ k <= counter[<<s, i>>] /\ m = Segment(<<s, i>>, k)

\* An id that was issued is covered, or its counter is still to be read.
SeenInv(c) ==
    call[c].pc = "get" =>
        \A m \in call[c].seen : m <= call[c].max \/ FromCounter(call[c].chunk, call[c].next, m)

ClientInv(c) == RangeInv(c) /\ FloorInv(c) /\ SeenInv(c)

\* Issued ids come from the counters.
SpaceInv(s) ==
    /\ \A m \in issued[s] : FromCounter(s, 0, m)
    /\ s \notin rootChunks => known[s] <= counter[<<s, 0>>]

IdInv ==
    /\ TypeOK
    /\ \A c \in Clients : ClientInv(c)
    /\ \A s \in Spaces : SpaceInv(s)
    /\ UniqueIds

-----------------------------------------------------------------------------
(* Types.                                                                  *)

\* The fields of a call.
LEMMA CountingType ==
    ASSUME TypeOK, NEW c \in Clients, Counting(c)
    PROVE  /\ call[c].row \in Rows /\ call[c].size \in Nat /\ call[c].high \in Nat
           /\ call[c].floor \in Nat
           /\ call[c].row[1] \in Spaces /\ call[c].row[2] \in 0..(NCounters - 1)
           /\ call[c].row = <<call[c].row[1], call[c].row[2]>>
           /\ call[c] \in [pc : {"create", "created", "set", "done"}, row : Rows, size : Nat,
                           high : Nat, floor : Nat]
<1>1. call[c] \in [pc : {"create", "created", "set", "done"}, row : Rows, size : Nat,
                   high : Nat, floor : Nat]
  BY DEF TypeOK, Call, Idle, Counting
<1> QED BY <1>1 DEF Rows

LEMMA GetType ==
    ASSUME TypeOK, NEW c \in Clients, call[c].pc = "get"
    PROVE  /\ call[c].chunk \in Spaces /\ call[c].next \in 0..NCounters
           /\ call[c].max \in Nat /\ call[c].seen \in SUBSET Nat
           /\ call[c] \in [pc : {"get"}, chunk : Spaces, next : 0..NCounters, max : Nat,
                           seen : SUBSET Nat]
<1>1. call[c] \in [pc : {"get"}, chunk : Spaces, next : 0..NCounters, max : Nat,
                   seen : SUBSET Nat]
  BY DEF TypeOK, Call, Idle
<1> QED BY <1>1

\* The counters of a space have rows.
LEMMA RowType ==
    ASSUME TypeOK, NEW s \in Spaces, NEW i \in NumbersOf(s)
    PROVE  i \in 0..(NCounters - 1) /\ <<s, i>> \in Rows /\ counter[<<s, i>>] \in Nat
<1>1. i \in 0..(NCounters - 1)
  BY IdGenConstants DEF NumbersOf
<1>2. <<s, i>> \in Rows
  BY <1>1 DEF Rows
<1> QED BY <1>1, <1>2 DEF TypeOK

LEMMA LargerType ==
    ASSUME NEW a \in Nat, NEW b \in Nat
    PROVE  Larger(a, b) \in Nat /\ a <= Larger(a, b) /\ b <= Larger(a, b)
           /\ Larger(a, b) \in {a, b}
BY DEF Larger

-----------------------------------------------------------------------------
(* What the steps do.                                                      *)

LEMMA IdleIsCall == Idle \in Call
BY DEF Call

LEMMA BeginForm ==
    ASSUME TypeOK, NEW c \in Clients, NEW new \in Call, Begin(c, new)
    PROVE  /\ TypeOK'
           /\ call[c].pc = "idle" /\ call'[c] = new
           /\ \A d \in Clients \ {c} : call'[d] = call[d]
           /\ UNCHANGED <<rootChunks, counter, issued, known>>
<1>1. call' \in [Clients -> Call]
  BY DEF TypeOK, Begin
<1> QED BY <1>1 DEF TypeOK, Begin

LEMMA EndForm ==
    ASSUME TypeOK, NEW c \in Clients, End(c)
    PROVE  /\ call' \in [Clients -> Call]
           /\ call'[c].pc = "idle"
           /\ \A d \in Clients \ {c} : call'[d] = call[d]
BY IdleIsCall DEF TypeOK, End, Idle

LEMMA KnowForm ==
    ASSUME TypeOK, NEW s \in Spaces, NEW n \in Nat, Know(s, n)
    PROVE  /\ known' \in [Spaces -> Nat]
           /\ known'[s] = Larger(known[s], n)
           /\ \A t \in Spaces \ {s} : known'[t] = known[t]
<1>1. Larger(known[s], n) \in Nat
  BY LargerType DEF TypeOK
<1> QED BY <1>1 DEF TypeOK, Know

LEMMA IncrementType ==
    ASSUME NEW pc \in {"create", "set"}, NEW row \in Rows, NEW size \in Nat, NEW floor \in Nat
    PROVE  Increment(pc, row, size, floor) \in Call
BY DEF Increment, Call

\* The increment of a counter.
LEMMA RangeForm ==
    ASSUME TypeOK, NEW c \in Clients, _get_ids_range(c)
    PROVE  /\ TypeOK' /\ Counting(c)
           /\ UNCHANGED <<rootChunks, issued, known>>
           /\ counter'[call[c].row] = counter[call[c].row] + call[c].size
           /\ \A row \in Rows \ {call[c].row} : counter'[row] = counter[row]
           /\ \A row \in Rows : counter[row] <= counter'[row]
           /\ \A d \in Clients \ {c} : call'[d] = call[d]
           /\ call'[c].row = call[c].row /\ call'[c].size = call[c].size
           /\ call'[c].floor = call[c].floor
           /\ call'[c].high = counter[call[c].row] + call[c].size
           /\ call'[c].pc = IF call[c].pc = "create" THEN "created" ELSE "done"
<1>1. Counting(c) /\ call[c].pc \in {"create", "set"}
  BY DEF _get_ids_range, Counting
<1> DEFINE row  == call[c].row
           high == counter[row] + call[c].size
           new  == [call[c] EXCEPT !.pc = IF @ = "create" THEN "created" ELSE "done",
                                   !.high = high]
<1>2. /\ call[c].row \in Rows /\ call[c].size \in Nat
      /\ call[c] \in [pc : {"create", "created", "set", "done"}, row : Rows, size : Nat,
                      high : Nat, floor : Nat]
  BY <1>1, CountingType
<1>3. counter \in [Rows -> Nat] /\ counter[row] \in Nat /\ high \in Nat
  BY <1>2 DEF TypeOK
<1>4. counter' = [counter EXCEPT ![row] = high]
  BY DEF _get_ids_range
<1>5. call' = [call EXCEPT ![c] = new] /\ call \in [Clients -> Call]
  BY DEF _get_ids_range, TypeOK
<1>6. /\ new \in [pc : {"created", "done"}, row : Rows, size : Nat, high : Nat, floor : Nat]
      /\ new.row = call[c].row /\ new.size = call[c].size /\ new.floor = call[c].floor
      /\ new.high = high /\ new.pc = IF call[c].pc = "create" THEN "created" ELSE "done"
  <2> HIDE DEF high
  <2> QED BY <1>2, <1>3
<1>7. new \in Call
  BY <1>6 DEF Call
<1> HIDE DEF new
<1>8. /\ counter' \in [Rows -> Nat]
      /\ counter'[row] = high
      /\ \A r \in Rows \ {row} : counter'[r] = counter[r]
      /\ \A r \in Rows : counter[r] <= counter'[r]
  BY <1>2, <1>3, <1>4
<1>9. /\ call' \in [Clients -> Call] /\ call'[c] = new
      /\ \A d \in Clients \ {c} : call'[d] = call[d]
  BY <1>5, <1>7
<1>10. UNCHANGED <<rootChunks, issued, known>>
  BY DEF _get_ids_range
<1>11. TypeOK'
  BY <1>8, <1>9, <1>10 DEF TypeOK, Rows, Spaces
<1> QED BY <1>1, <1>6, <1>8, <1>9, <1>10, <1>11

\* The read of one counter.
LEMMA ReadForm ==
    ASSUME TypeOK, NEW c \in Clients, ReadCounter(c)
    PROVE  /\ TypeOK' /\ call[c].pc = "get"
           /\ call[c].next \in NumbersOf(call[c].chunk)
           /\ UNCHANGED <<rootChunks, counter, issued, known>>
           /\ \A d \in Clients \ {c} : call'[d] = call[d]
           /\ call'[c].pc = "get" /\ call'[c].chunk = call[c].chunk
           /\ call'[c].seen = call[c].seen /\ call'[c].next = call[c].next + 1
           /\ call'[c].max =
                 Larger(call[c].max, Segment(<<call[c].chunk, call[c].next>>,
                                             counter[<<call[c].chunk, call[c].next>>]))
<1> DEFINE row == <<call[c].chunk, call[c].next>>
           max == Larger(call[c].max, Segment(row, counter[row]))
           new == [call[c] EXCEPT !.next = @ + 1, !.max = max]
<1>1. /\ call[c].pc = "get" /\ call[c].next \in NumbersOf(call[c].chunk)
      /\ UNCHANGED <<rootChunks, counter, issued, known>>
  BY DEF ReadCounter, Unread
<1>2. /\ call[c].chunk \in Spaces /\ call[c].max \in Nat
      /\ call[c] \in [pc : {"get"}, chunk : Spaces, next : 0..NCounters, max : Nat,
                      seen : SUBSET Nat]
  BY <1>1, GetType
<1>3. call[c].next \in 0..(NCounters - 1) /\ counter[row] \in Nat
  BY <1>1, <1>2, RowType
<1>4. max \in Nat
  <2>1. Segment(row, counter[row]) \in Nat
    BY <1>1, <1>2, <1>3, SegmentsIncrease
  <2> QED BY <1>2, <2>1, LargerType
<1>5. call' = [call EXCEPT ![c] = new] /\ call \in [Clients -> Call]
  BY DEF ReadCounter, TypeOK
<1>6. /\ new \in [pc : {"get"}, chunk : Spaces, next : 0..NCounters, max : Nat,
                  seen : SUBSET Nat]
      /\ new.pc = "get" /\ new.chunk = call[c].chunk /\ new.seen = call[c].seen
      /\ new.next = call[c].next + 1 /\ new.max = max
  <2> HIDE DEF max
  <2>1. call[c].next + 1 \in 0..NCounters
    BY <1>3, IdGenConstants
  <2> QED BY <1>2, <1>4, <2>1
<1>7. new \in Call
  BY <1>6 DEF Call
<1> HIDE DEF new
<1>8. /\ call' \in [Clients -> Call] /\ call'[c] = new
      /\ \A d \in Clients \ {c} : call'[d] = call[d]
  BY <1>5, <1>7
<1>9. TypeOK'
  BY <1>1, <1>8 DEF TypeOK, Rows, Spaces
<1> QED BY <1>1, <1>6, <1>8, <1>9

-----------------------------------------------------------------------------
(* What the steps leave alone.                                             *)

\* The counters only grow.
Grows == rootChunks' = rootChunks /\ \A row \in Rows : counter[row] <= counter'[row]

LEMMA FromCounterKept ==
    ASSUME TypeOK, TypeOK', Grows, NEW s \in Spaces, NEW next \in Nat, NEW m,
           FromCounter(s, next, m)
    PROVE  FromCounter(s, next, m)'
<1>1. PICK i \in NumbersOf(s), k \in Nat :
         next <= i /\ k <= counter[<<s, i>>] /\ m = Segment(<<s, i>>, k)
  BY DEF FromCounter
<1>2. NumbersOf(s)' = NumbersOf(s) /\ Segment(<<s, i>>, k)' = Segment(<<s, i>>, k)
  BY DEF Grows, NumbersOf, Segment
<1>3. k <= counter'[<<s, i>>]
  <2>1. /\ <<s, i>> \in Rows /\ counter[<<s, i>>] \in Nat
        /\ counter'[<<s, i>>] \in Nat
    BY RowType DEF TypeOK, Rows
  <2> QED BY <1>1, <2>1 DEF Grows
<1> QED BY <1>1, <1>2, <1>3 DEF FromCounter

\* A call that takes no step keeps its invariant.
LEMMA ClientKept ==
    ASSUME TypeOK, TypeOK', Grows, NEW d \in Clients, call'[d] = call[d], ClientInv(d)
    PROVE  ClientInv(d)'
<1>1. Counting(d)' = Counting(d)
  BY DEF Counting
<1>2. RangeInv(d)' /\ FloorInv(d)'
  <2>1. ASSUME Counting(d)
        PROVE  /\ counter[call[d].row] <= counter'[call[d].row]
               /\ counter[call[d].row] \in Nat /\ counter'[call[d].row] \in Nat
               /\ call[d].high \in Nat /\ call[d].floor \in Nat
               /\ NumbersOf(call[d].row[1])' = NumbersOf(call[d].row[1])
    BY <2>1, CountingType DEF Grows, TypeOK, Rows, NumbersOf
  <2>2. ASSUME call[d].pc = "get"
        PROVE  /\ counter[<<call[d].chunk, 0>>] <= counter'[<<call[d].chunk, 0>>]
               /\ counter[<<call[d].chunk, 0>>] \in Nat
               /\ counter'[<<call[d].chunk, 0>>] \in Nat
               /\ call[d].max \in Nat
    <3>1. call[d].chunk \in Spaces /\ 0 \in 0..(NCounters - 1) /\ call[d].max \in Nat
      BY <2>2, GetType, IdGenConstants
    <3> QED BY <3>1 DEF Grows, TypeOK, Rows
  <2>3. RangeInv(d)'
    BY <1>1, <2>1 DEF ClientInv, RangeInv, Counting
  <2>4. FloorInv(d)'
    BY <2>1, <2>2 DEF ClientInv, FloorInv, Counting, Grows
  <2> QED BY <2>3, <2>4
<1>3. SeenInv(d)'
  <2> SUFFICES ASSUME call[d].pc = "get", NEW m \in call[d].seen, ~(m <= call[d].max)
               PROVE  FromCounter(call[d].chunk, call[d].next, m)'
    BY DEF SeenInv
  <2>1. FromCounter(call[d].chunk, call[d].next, m)
    BY DEF ClientInv, SeenInv
  <2>2. call[d].chunk \in Spaces /\ call[d].next \in Nat
    BY GetType, IdGenConstants
  <2>3. PICK s \in Spaces, next \in Nat : s = call[d].chunk /\ next = call[d].next
    BY <2>2
  <2>4. FromCounter(s, next, m)'
    BY <2>1, <2>3, FromCounterKept
  <2> QED BY <2>3, <2>4
<1> QED BY <1>2, <1>3 DEF ClientInv

\* So does a space in which no id is issued and nothing becomes known.
LEMMA SpaceKept ==
    ASSUME TypeOK, TypeOK', Grows, NEW s \in Spaces,
           issued'[s] = issued[s], known'[s] = known[s], SpaceInv(s)
    PROVE  SpaceInv(s)'
<1>1. ASSUME NEW m \in issued[s]
      PROVE  FromCounter(s, 0, m)'
  BY FromCounterKept DEF SpaceInv
<1>2. ASSUME s \notin rootChunks
      PROVE  known[s] <= counter'[<<s, 0>>]
  <2>1. 0 \in 0..(NCounters - 1)
    BY IdGenConstants
  <2>2. /\ <<s, 0>> \in Rows /\ known[s] \in Nat
        /\ counter[<<s, 0>>] \in Nat /\ counter'[<<s, 0>>] \in Nat
    BY <2>1 DEF TypeOK, Rows
  <2> QED BY <1>2, <2>2 DEF SpaceInv, Grows
<1> QED BY <1>1, <1>2 DEF SpaceInv, Grows

\* The ids of a call that takes no step.
LEMMA SegmentsKept ==
    ASSUME rootChunks' = rootChunks, NEW d \in Clients, call'[d] = call[d]
    PROVE  Segments(d)' = Segments(d)
BY DEF Segments, Segment

\* Ids stay unique if no call has new ones and none is issued.
LEMMA UniqueKept ==
    ASSUME UniqueIds, rootChunks' = rootChunks, issued' = issued,
           \A d \in Clients : call'[d] = call[d] \/ call'[d].pc # "created"
    PROVE  UniqueIds'
<1> SUFFICES ASSUME NEW c \in Clients, Created(c)'
             PROVE  /\ Segments(c)' \cap issued'[ChunkOf(c)'] = {}
                    /\ \A d \in Clients \ {c} :
                          Created(d)' /\ ChunkOf(d)' = ChunkOf(c)' =>
                              Segments(c)' \cap Segments(d)' = {}
  BY DEF UniqueIds
<1>1. \A d \in Clients : Created(d)' =>
          call'[d] = call[d] /\ Segments(d)' = Segments(d)
          /\ Created(d) /\ ChunkOf(d)' = ChunkOf(d)
  BY SegmentsKept DEF Created, ChunkOf
<1> QED BY <1>1 DEF UniqueIds

-----------------------------------------------------------------------------
(* The invariant is inductive.                                             *)

\* A step of c that neither creates nor issues ids.
LEMMA QuietStep ==
    ASSUME IdInv, TypeOK', NEW c \in Clients, Grows,
           \A d \in Clients \ {c} : call'[d] = call[d],
           call'[c].pc # "created", UNCHANGED <<issued, known>>, ClientInv(c)'
    PROVE  IdInv'
<1>1. ASSUME NEW d \in Clients
      PROVE  ClientInv(d)'
  BY ClientKept DEF IdInv
<1>2. ASSUME NEW s \in Spaces
      PROVE  SpaceInv(s)'
  BY SpaceKept DEF IdInv
<1>3. UniqueIds'
  <2>1. \A d \in Clients : call'[d] = call[d] \/ call'[d].pc # "created"
    OBVIOUS
  <2> QED BY <2>1, UniqueKept DEF IdInv, Grows
<1> QED BY <1>1, <1>2, <1>3 DEF IdInv, Spaces

LEMMA BeginStep ==
    ASSUME IdInv, NEW c \in Clients, NEW new \in Call, new.pc # "created", Begin(c, new),
           ClientInv(c)'
    PROVE  IdInv'
<1>1. /\ TypeOK' /\ call'[c] = new
      /\ \A d \in Clients \ {c} : call'[d] = call[d]
      /\ UNCHANGED <<rootChunks, counter, issued, known>>
  BY BeginForm DEF IdInv
<1>2. Grows
  BY <1>1 DEF Grows, IdInv, TypeOK
<1> QED BY <1>1, <1>2, QuietStep

\* An idle call has nothing to keep.
LEMMA IdleInv ==
    ASSUME NEW c \in Clients, call[c].pc = "idle"
    PROVE  ClientInv(c)
BY DEF ClientInv, RangeInv, FloorInv, SeenInv, Counting

LEMMA CreateStep ==
    ASSUME IdInv, NEW c \in Clients, NEW s \in Spaces, NEW size \in Nat,
           create_node_ids(c, s, size)
    PROVE  IdInv'
<1>1. PICK i \in NumbersOf(s) : Begin(c, Increment("create", <<s, i>>, size, known[s]))
  BY DEF create_node_ids
<1> DEFINE new == Increment("create", <<s, i>>, size, known[s])
<1>2. <<s, i>> \in Rows /\ known[s] \in Nat
  BY RowType DEF IdInv, TypeOK
<1>3. new \in Call
  BY <1>2, IncrementType
<1>4. /\ new.pc = "create" /\ new.row = <<s, i>> /\ new.floor = known[s]
  BY DEF Increment
<1> HIDE DEF new
<1>5. call'[c] = new /\ UNCHANGED <<rootChunks, counter>>
  BY <1>1, <1>3, BeginForm DEF IdInv, new
<1>6. ClientInv(c)'
  <2>1. RangeInv(c)'
    <3>1. new.row[1] = s /\ new.row[2] = i /\ NumbersOf(s)' = NumbersOf(s)
      BY <1>4, <1>5 DEF NumbersOf
    <3> QED BY <1>4, <1>5, <3>1 DEF RangeInv
  <2>2. FloorInv(c)'
    <3>1. s \notin rootChunks => i = 0 /\ known[s] <= counter[<<s, 0>>]
      BY DEF IdInv, SpaceInv, NumbersOf
    <3> QED BY <1>4, <1>5, <3>1 DEF FloorInv
  <2>3. SeenInv(c)'
    BY <1>4, <1>5 DEF SeenInv
  <2> QED BY <2>1, <2>2, <2>3 DEF ClientInv
<1> QED BY <1>1, <1>3, <1>4, <1>6, BeginStep DEF new

LEMMA SetMaxStep ==
    ASSUME IdInv, NEW c \in Clients, NEW s \in Chunks \ rootChunks, NEW seg \in Nat,
           set_max_node_id(c, s, seg)
    PROVE  IdInv'
<1> DEFINE new == Increment("set", <<s, 0>>, seg, seg)
<1>1. Begin(c, new)
  BY DEF set_max_node_id
<1>2. 0 \in NumbersOf(s) /\ s \in Spaces
  BY DEF NumbersOf, Spaces
<1>3. new \in Call
  BY <1>2, RowType, IncrementType DEF IdInv
<1>4. /\ new.pc = "set" /\ new.row = <<s, 0>> /\ new.floor = seg /\ new.size = seg
  BY DEF Increment
<1> HIDE DEF new
<1>5. call'[c] = new /\ UNCHANGED <<rootChunks, counter>>
  BY <1>1, <1>3, BeginForm DEF IdInv
<1>6. ClientInv(c)'
  <2>1. RangeInv(c)'
    BY <1>2, <1>4, <1>5 DEF RangeInv, NumbersOf
  <2>2. FloorInv(c)'
    BY <1>4, <1>5 DEF FloorInv
  <2>3. SeenInv(c)'
    BY <1>4, <1>5 DEF SeenInv
  <2> QED BY <2>1, <2>2, <2>3 DEF ClientInv
<1> QED BY <1>1, <1>3, <1>4, <1>6, BeginStep

LEMMA GetMaxStep ==
    ASSUME IdInv, NEW c \in Clients, NEW s \in Spaces, get_max_node_id(c, s)
    PROVE  IdInv'
<1> DEFINE new == [pc |-> "get", chunk |-> s, next |-> 0, max |-> 0, seen |-> issued[s]]
<1>1. Begin(c, new)
  BY DEF get_max_node_id
<1>2. 0 \in 0..NCounters /\ issued[s] \in SUBSET Nat
  BY IdGenConstants DEF IdInv, TypeOK
<1>3. new \in Call
  BY <1>2 DEF Call
<1>4. /\ new.pc = "get" /\ new.chunk = s /\ new.next = 0 /\ new.max = 0
      /\ new.seen = issued[s]
  OBVIOUS
<1> HIDE DEF new
<1>5. call'[c] = new /\ UNCHANGED <<rootChunks, counter>>
  BY <1>1, <1>3, BeginForm DEF IdInv
<1>6. ClientInv(c)'
  <2>1. RangeInv(c)'
    BY <1>4, <1>5 DEF RangeInv, Counting
  <2>2. FloorInv(c)'
    <3>1. 0 \in 0..(NCounters - 1)
      BY IdGenConstants
    <3>2. counter[<<s, 0>>] \in Nat
      BY <3>1 DEF IdInv, TypeOK, Rows
    <3> QED BY <1>4, <1>5, <3>2 DEF FloorInv
  <2>3. SeenInv(c)'
    <3>1. \A m \in issued[s] : FromCounter(s, 0, m)
      BY DEF IdInv, SpaceInv
    <3> QED BY <1>4, <1>5, <3>1 DEF SeenInv, FromCounter, NumbersOf, Segment
  <2> QED BY <2>1, <2>2, <2>3 DEF ClientInv
<1> QED BY <1>1, <1>3, <1>4, <1>6, BeginStep

LEMMA RaiseStep ==
    ASSUME IdInv, NEW c \in Clients, Raise(c)
    PROVE  IdInv'
<1>1. UNCHANGED <<rootChunks, counter, issued, known>> /\ End(c)
  BY DEF Raise
<1>2. /\ call' \in [Clients -> Call] /\ call'[c].pc = "idle"
      /\ \A d \in Clients \ {c} : call'[d] = call[d]
  BY <1>1, EndForm DEF IdInv
<1>3. TypeOK' /\ Grows
  BY <1>1, <1>2 DEF IdInv, TypeOK, Grows, Rows, Spaces
<1>4. ClientInv(c)'
  BY <1>2, IdleInv DEF ClientInv, RangeInv, FloorInv, SeenInv, Counting
<1> QED BY <1>1, <1>2, <1>3, <1>4, QuietStep

\* The new ids of a range are the numbers of counts beyond the old counter.
LEMMA NewSegments ==
    ASSUME IdInv, NEW c \in Clients, _get_ids_range(c), NEW m \in Segments(c)'
    PROVE  \E k \in Nat : counter[call[c].row] < k /\ m = Segment(call[c].row, k)
<1> DEFINE row == call[c].row
           old == counter[row]
           size == call[c].size
<1>1. /\ Counting(c) /\ rootChunks' = rootChunks
      /\ call'[c].row = row /\ call'[c].size = size /\ call'[c].high = old + size
  BY RangeForm DEF IdInv
<1>2. row \in Rows /\ size \in Nat /\ old \in Nat
  BY <1>1, CountingType DEF IdInv, TypeOK
<1> HIDE DEF old, size
<1>3. PICK k \in (old + size + 1 - size)..(old + size) : m = Segment(row, k)
  BY <1>1 DEF Segments, Segment
<1>4. k \in Nat /\ old < k
  BY <1>2, <1>3
<1> QED BY <1>3, <1>4 DEF old

\* The ids of a range that is already there come from counts up to the counter.
LEMMA OldSegments ==
    ASSUME IdInv, NEW d \in Clients, Created(d), NEW m \in Segments(d)
    PROVE  FromCounter(ChunkOf(d), 0, m)
<1> DEFINE row == call[d].row
<1>1. Counting(d)
  BY DEF Created, Counting
<1>2. /\ row \in Rows /\ call[d].size \in Nat /\ call[d].high \in Nat
      /\ row = <<row[1], row[2]>> /\ row[1] \in Spaces
      /\ row[2] \in NumbersOf(row[1]) /\ row[2] \in 0..(NCounters - 1)
      /\ call[d].size <= call[d].high /\ call[d].high <= counter[row]
  BY <1>1, CountingType DEF IdInv, ClientInv, RangeInv, Created
<1>3. counter[row] \in Nat
  BY <1>2 DEF IdInv, TypeOK
<1>4. PICK k \in (call[d].high + 1 - call[d].size)..call[d].high : m = Segment(row, k)
  BY DEF Segments
<1>5. k \in Nat /\ k <= counter[row]
  BY <1>2, <1>3, <1>4
<1>6. 0 <= row[2]
  BY <1>2, IdGenConstants
<1> QED BY <1>2, <1>4, <1>5, <1>6 DEF FromCounter, ChunkOf

\* And so the two do not meet.
LEMMA NewAreNew ==
    ASSUME IdInv, NEW c \in Clients, _get_ids_range(c), NEW m \in Segments(c)',
           FromCounter(ChunkOf(c), 0, m)
    PROVE  FALSE
<1>1. PICK k \in Nat : counter[call[c].row] < k /\ m = Segment(call[c].row, k)
  BY NewSegments
<1>2. PICK j \in NumbersOf(ChunkOf(c)), l \in Nat :
         l <= counter[<<ChunkOf(c), j>>] /\ m = Segment(<<ChunkOf(c), j>>, l)
  BY DEF FromCounter
<1>3. Counting(c)
  BY RangeForm DEF IdInv
<1>4. PICK s \in Spaces : \E i \in NumbersOf(s) : call[c].row = <<s, i>> /\ ChunkOf(c) = s
  <2>1. /\ call[c].row[1] \in Spaces
        /\ call[c].row = <<call[c].row[1], call[c].row[2]>>
    BY <1>3, CountingType DEF IdInv
  <2>2. call[c].row[2] \in NumbersOf(call[c].row[1])
    BY <1>3 DEF IdInv, ClientInv, RangeInv
  <2> QED BY <2>1, <2>2, Zenon DEF ChunkOf
<1>5. PICK i \in NumbersOf(s) : call[c].row = <<s, i>> /\ ChunkOf(c) = s
  BY <1>4
<1>6. i = j /\ k = l
  <2>1. /\ TypeOK /\ j \in NumbersOf(s) /\ i \in NumbersOf(s)
        /\ Segment(<<s, i>>, k) = Segment(<<s, j>>, l)
    BY <1>1, <1>2, <1>5 DEF IdInv
  <2> QED BY <2>1, SegmentsDiffer
<1>7. counter[<<s, i>>] \in Nat
  BY RowType DEF IdInv
<1> QED BY <1>1, <1>2, <1>5, <1>6, <1>7

LEMMA RangeStep ==
    ASSUME IdInv, NEW c \in Clients, _get_ids_range(c)
    PROVE  IdInv'
<1>1. /\ TypeOK /\ TypeOK' /\ Counting(c)
      /\ UNCHANGED <<rootChunks, issued, known>>
      /\ counter'[call[c].row] = counter[call[c].row] + call[c].size
      /\ \A d \in Clients \ {c} : call'[d] = call[d]
      /\ call'[c].row = call[c].row /\ call'[c].size = call[c].size
      /\ call'[c].floor = call[c].floor
      /\ call'[c].high = counter[call[c].row] + call[c].size
      /\ call'[c].pc = IF call[c].pc = "create" THEN "created" ELSE "done"
  BY RangeForm DEF IdInv
<1>2. Grows
  BY RangeForm DEF IdInv, Grows
<1>3. /\ call[c].row \in Rows /\ call[c].size \in Nat /\ call[c].floor \in Nat
      /\ counter[call[c].row] \in Nat /\ call[c].pc \in {"create", "set"}
  BY <1>1, CountingType DEF IdInv, TypeOK, _get_ids_range
<1>4. ClientInv(c)'
  <2>1. RangeInv(c)'
    <3>1. call[c].row[2] \in NumbersOf(call[c].row[1])
      BY <1>1 DEF IdInv, ClientInv, RangeInv
    <3>2. (call[c].row[2] \in NumbersOf(call[c].row[1]))'
      BY <1>1, <3>1 DEF NumbersOf
    <3>3. call'[c].size <= call'[c].high /\ call'[c].high <= counter'[call'[c].row]
      BY <1>1, <1>3
    <3> QED BY <3>2, <3>3 DEF RangeInv
  <2>2. FloorInv(c)'
    <3>1. FloorInv(c)
      BY DEF IdInv, ClientInv
    <3>2. CASE call[c].pc = "create"
      BY <1>1, <1>3, <3>1, <3>2 DEF FloorInv
    <3>3. CASE call[c].pc = "set"
      BY <1>1, <1>3, <3>1, <3>3 DEF FloorInv
    <3> QED BY <1>3, <3>2, <3>3
  <2>3. SeenInv(c)'
    BY <1>1 DEF SeenInv
  <2> QED BY <2>1, <2>2, <2>3 DEF ClientInv
<1>5. ASSUME NEW d \in Clients
      PROVE  ClientInv(d)'
  BY <1>1, <1>2, <1>4, ClientKept DEF IdInv
<1>6. ASSUME NEW s \in Spaces
      PROVE  SpaceInv(s)'
  BY <1>1, <1>2, SpaceKept DEF IdInv
<1>7. ASSUME NEW d \in Clients \ {c}, Created(d)'
      PROVE  /\ Created(d) /\ ChunkOf(d)' = ChunkOf(d) /\ Segments(d)' = Segments(d)
             /\ ChunkOf(d) = ChunkOf(c) => Segments(c)' \cap Segments(d) = {}
  <2>1. Created(d) /\ ChunkOf(d)' = ChunkOf(d) /\ Segments(d)' = Segments(d)
    BY <1>1, <1>7, SegmentsKept DEF Created, ChunkOf
  <2>2. ASSUME NEW m \in Segments(c)', m \in Segments(d), ChunkOf(d) = ChunkOf(c)
        PROVE  FALSE
    BY <2>1, <2>2, OldSegments, NewAreNew
  <2> QED BY <2>1, <2>2
<1>8. Segments(c)' \cap issued[ChunkOf(c)] = {}
  <2>1. ChunkOf(c) \in Spaces
    BY <1>1, CountingType DEF ChunkOf
  <2>2. ASSUME NEW m \in Segments(c)', m \in issued[ChunkOf(c)]
        PROVE  FALSE
    BY <2>1, <2>2, NewAreNew DEF IdInv, SpaceInv
  <2> QED BY <2>2
<1>9. UniqueIds'
  <2>1. ChunkOf(c)' = ChunkOf(c) /\ issued' = issued
    BY <1>1 DEF ChunkOf
  <2> SUFFICES ASSUME NEW a \in Clients, Created(a)'
               PROVE  /\ Segments(a)' \cap issued[ChunkOf(a)'] = {}
                      /\ \A b \in Clients \ {a} :
                            Created(b)' /\ ChunkOf(b)' = ChunkOf(a)' =>
                                Segments(a)' \cap Segments(b)' = {}
    BY <2>1 DEF UniqueIds
  <2>2. CASE a = c
    BY <1>7, <1>8, <2>1, <2>2
  <2>3. CASE a # c
    <3>1. Segments(a)' \cap issued[ChunkOf(a)'] = {}
      BY <1>7, <2>3 DEF IdInv, UniqueIds
    <3>2. ASSUME NEW b \in Clients \ {a}, Created(b)', ChunkOf(b)' = ChunkOf(a)'
          PROVE  Segments(a)' \cap Segments(b)' = {}
      <4>1. CASE b = c
        BY <1>7, <2>1, <2>3, <3>2, <4>1
      <4>2. CASE b # c
        BY <1>7, <2>3, <3>2, <4>2 DEF IdInv, UniqueIds
      <4> QED BY <4>1, <4>2
    <3> QED BY <3>1, <3>2
  <2> QED BY <2>2, <2>3
<1> QED BY <1>1, <1>5, <1>6, <1>9 DEF IdInv, Spaces

LEMMA EndCreateStep ==
    ASSUME IdInv, NEW c \in Clients, EndCreate(c)
    PROVE  IdInv'
<1>0. PICK s \in Spaces : s = call[c].row[1]
  BY CountingType DEF IdInv, EndCreate, Counting
<1> DEFINE row == call[c].row
           n == IF call[c].size = 0 THEN 0 ELSE Segment(row, call[c].high)
<1>1. /\ Created(c) /\ Counting(c) /\ End(c) /\ Know(s, n)
      /\ issued' = [issued EXCEPT ![s] = @ \cup Segments(c)]
      /\ UNCHANGED <<rootChunks, counter>>
  BY <1>0 DEF EndCreate, Created, Counting
<1>2. /\ TypeOK /\ s = row[1] /\ row = <<s, row[2]>> /\ row[2] \in NumbersOf(s)
      /\ call[c].size \in Nat /\ call[c].high \in Nat
      /\ call[c].high <= counter[row] /\ counter[row] \in Nat
      /\ known[s] \in Nat /\ issued \in [Spaces -> SUBSET Nat]
  BY <1>0, <1>1, CountingType DEF IdInv, ClientInv, RangeInv, Created, TypeOK
<1>3. n \in Nat
  BY <1>2, SegmentsIncrease
<1>4. s \notin rootChunks => n <= counter[<<s, 0>>]
  <2>1. ASSUME s \notin rootChunks
        PROVE  row = <<s, 0>> /\ Segment(row, call[c].high) = call[c].high
    BY <1>2, <2>1 DEF NumbersOf, Segment
  <2> QED BY <1>2, <2>1
<1>5. /\ call' \in [Clients -> Call] /\ call'[c].pc = "idle"
      /\ \A d \in Clients \ {c} : call'[d] = call[d]
  BY <1>1, <1>2, EndForm
<1> HIDE DEF n
<1>6. /\ known' \in [Spaces -> Nat] /\ known'[s] = Larger(known[s], n)
      /\ \A t \in Spaces \ {s} : known'[t] = known[t]
  BY <1>1, <1>2, <1>3, KnowForm
<1>7. \A m \in Segments(c) : FromCounter(s, 0, m) /\ m \in Nat
  <2> SUFFICES ASSUME NEW m \in Segments(c)
               PROVE  FromCounter(s, 0, m) /\ m \in Nat
    OBVIOUS
  <2>1. FromCounter(s, 0, m)
    BY <1>0, <1>1, OldSegments DEF ChunkOf
  <2>2. m \in Nat
    BY <1>2, <2>1, SegmentsIncrease DEF FromCounter
  <2> QED BY <2>1, <2>2
<1>8. /\ issued' \in [Spaces -> SUBSET Nat]
      /\ issued'[s] = issued[s] \cup Segments(c)
      /\ \A t \in Spaces \ {s} : issued'[t] = issued[t]
  BY <1>1, <1>2, <1>7
<1>9. TypeOK' /\ Grows
  BY <1>1, <1>2, <1>5, <1>6, <1>8 DEF TypeOK, Grows, Rows, Spaces
<1>10. ASSUME NEW d \in Clients
       PROVE  ClientInv(d)'
  <2>1. CASE d = c
    BY <1>5, <2>1 DEF ClientInv, RangeInv, FloorInv, SeenInv, Counting
  <2>2. CASE d # c
    BY <1>2, <1>5, <1>9, <2>2, ClientKept DEF IdInv
  <2> QED BY <2>1, <2>2
<1>11. ASSUME NEW t \in Spaces
       PROVE  SpaceInv(t)'
  <2>1. CASE t = s
    <3>1. ASSUME NEW m \in issued'[s]
          PROVE  FromCounter(s, 0, m)'
      <4>1. FromCounter(s, 0, m)
        BY <1>2, <1>7, <1>8, <3>1 DEF IdInv, SpaceInv
      <4> QED BY <1>2, <1>9, <4>1, FromCounterKept
    <3>2. ASSUME s \notin rootChunks
          PROVE  known'[s] <= counter[<<s, 0>>]
      <4>1. known[s] <= counter[<<s, 0>>]
        BY <3>2 DEF IdInv, SpaceInv
      <4>2. known'[s] \in {known[s], n}
        BY <1>2, <1>3, <1>6, LargerType
      <4> QED BY <1>4, <3>2, <4>1, <4>2
    <3> QED BY <1>1, <2>1, <3>1, <3>2 DEF SpaceInv
  <2>2. CASE t # s
    BY <1>2, <1>6, <1>8, <1>9, <2>2, SpaceKept DEF IdInv
  <2> QED BY <2>1, <2>2
<1>12. UniqueIds'
  <2> SUFFICES ASSUME NEW a \in Clients, Created(a)'
               PROVE  /\ Segments(a)' \cap issued'[ChunkOf(a)'] = {}
                      /\ \A b \in Clients \ {a} :
                            Created(b)' /\ ChunkOf(b)' = ChunkOf(a)' =>
                                Segments(a)' \cap Segments(b)' = {}
    BY DEF UniqueIds
  <2>1. \A d \in Clients : Created(d)' =>
            d # c /\ Created(d) /\ ChunkOf(d)' = ChunkOf(d) /\ Segments(d)' = Segments(d)
    BY <1>1, <1>5, SegmentsKept DEF Created, ChunkOf
  <2>2. ChunkOf(a) \in Spaces
    BY <1>2, <2>1, CountingType DEF Created, Counting, ChunkOf
  <2>3. Segments(a) \cap issued'[ChunkOf(a)] = {}
    <3>1. Segments(a) \cap issued[ChunkOf(a)] = {}
      BY <2>1 DEF IdInv, UniqueIds
    <3>2. ChunkOf(a) = s => Segments(a) \cap Segments(c) = {}
      BY <1>0, <1>1, <2>1 DEF IdInv, UniqueIds, ChunkOf
    <3> QED BY <1>8, <2>2, <3>1, <3>2
  <2>4. ASSUME NEW b \in Clients \ {a}, Created(b)', ChunkOf(b)' = ChunkOf(a)'
        PROVE  Segments(a)' \cap Segments(b)' = {}
    BY <2>1, <2>4 DEF IdInv, UniqueIds
  <2> QED BY <2>1, <2>3, <2>4
<1> QED BY <1>9, <1>10, <1>11, <1>12 DEF IdInv, Spaces

\* A step of c that makes n known of s.
LEMMA KnowStep ==
    ASSUME IdInv, NEW c \in Clients, End(c), NEW s \in Spaces, NEW n \in Nat, Know(s, n),
           UNCHANGED <<rootChunks, counter, issued>>,
           s \notin rootChunks => n <= counter[<<s, 0>>]
    PROVE  IdInv'
<1>1. /\ call' \in [Clients -> Call] /\ call'[c].pc = "idle"
      /\ \A d \in Clients \ {c} : call'[d] = call[d]
  BY EndForm DEF IdInv
<1>2. /\ known' \in [Spaces -> Nat] /\ known'[s] = Larger(known[s], n)
      /\ \A t \in Spaces \ {s} : known'[t] = known[t]
  BY KnowForm DEF IdInv
<1>3. TypeOK' /\ Grows
  BY <1>1, <1>2 DEF IdInv, TypeOK, Grows, Rows, Spaces
<1>4. ASSUME NEW d \in Clients
      PROVE  ClientInv(d)'
  <2>1. CASE d = c
    BY <1>1, <2>1 DEF ClientInv, RangeInv, FloorInv, SeenInv, Counting
  <2>2. CASE d # c
    BY <1>1, <1>3, <2>2, ClientKept DEF IdInv
  <2> QED BY <2>1, <2>2
<1>5. ASSUME NEW t \in Spaces
      PROVE  SpaceInv(t)'
  <2>1. CASE t = s
    <3>1. ASSUME NEW m \in issued[s]
          PROVE  FromCounter(s, 0, m)'
      <4>1. FromCounter(s, 0, m)
        BY DEF IdInv, SpaceInv
      <4> QED BY <1>3, <4>1, FromCounterKept DEF IdInv
    <3>2. ASSUME s \notin rootChunks
          PROVE  known'[s] <= counter[<<s, 0>>]
      <4>1. known[s] <= counter[<<s, 0>>] /\ known[s] \in Nat
        BY <3>2 DEF IdInv, SpaceInv, TypeOK
      <4>2. known'[s] \in {known[s], n}
        BY <1>2, <4>1, LargerType
      <4> QED BY <3>2, <4>1, <4>2
    <3> QED BY <1>3, <2>1, <3>1, <3>2 DEF SpaceInv, Grows
  <2>2. CASE t # s
    BY <1>2, <1>3, <2>2, SpaceKept DEF IdInv
  <2> QED BY <2>1, <2>2
<1>6. UniqueIds'
  <2>1. \A d \in Clients : call'[d] = call[d] \/ call'[d].pc # "created"
    BY <1>1
  <2> QED BY <2>1, UniqueKept DEF IdInv
<1> QED BY <1>3, <1>4, <1>5, <1>6 DEF IdInv, Spaces

LEMMA EndSetMaxStep ==
    ASSUME IdInv, NEW c \in Clients, EndSetMax(c)
    PROVE  IdInv'
<1>1. /\ call[c].pc = "done" /\ Counting(c) /\ End(c)
      /\ UNCHANGED <<rootChunks, counter, issued>>
  BY DEF EndSetMax, Counting
<1>2. PICK s \in Spaces, n \in Nat : s = call[c].row[1] /\ n = call[c].floor
  BY <1>1, CountingType DEF IdInv
<1>3. Know(s, n)
  BY <1>2 DEF EndSetMax
<1>4. n <= counter[<<s, 0>>]
  <2>1. /\ call[c].row = <<s, call[c].row[2]>> /\ call[c].row[2] \in NumbersOf(s)
        /\ s \notin rootChunks /\ n = call[c].size /\ call[c].size <= call[c].high
        /\ call[c].high <= counter[call[c].row]
    BY <1>1, <1>2, CountingType DEF IdInv, ClientInv, RangeInv, FloorInv
  <2>2. call[c].row = <<s, 0>>
    BY <2>1 DEF NumbersOf
  <2>3. counter[call[c].row] \in Nat /\ call[c].high \in Nat
    BY <1>1, CountingType DEF IdInv, TypeOK
  <2> QED BY <2>1, <2>2, <2>3
<1> QED BY <1>1, <1>3, <1>4, KnowStep

LEMMA EndGetMaxStep ==
    ASSUME IdInv, NEW c \in Clients, EndGetMax(c)
    PROVE  IdInv'
<1>1. /\ call[c].pc = "get" /\ End(c)
      /\ UNCHANGED <<rootChunks, counter, issued>>
  BY DEF EndGetMax
<1>2. PICK s \in Spaces, n \in Nat : s = call[c].chunk /\ n = call[c].max
  BY <1>1, GetType DEF IdInv
<1>3. Know(s, n)
  BY <1>2 DEF EndGetMax
<1>4. s \notin rootChunks => n <= counter[<<s, 0>>]
  BY <1>1, <1>2 DEF IdInv, ClientInv, FloorInv
<1> QED BY <1>1, <1>3, <1>4, KnowStep

LEMMA ReadStep ==
    ASSUME IdInv, NEW c \in Clients, ReadCounter(c)
    PROVE  IdInv'
<1>1. /\ TypeOK' /\ call[c].pc = "get"
      /\ call[c].next \in NumbersOf(call[c].chunk)
      /\ UNCHANGED <<rootChunks, counter, issued, known>>
      /\ \A d \in Clients \ {c} : call'[d] = call[d]
      /\ call'[c].pc = "get" /\ call'[c].chunk = call[c].chunk
      /\ call'[c].seen = call[c].seen /\ call'[c].next = call[c].next + 1
      /\ call'[c].max =
            Larger(call[c].max, Segment(<<call[c].chunk, call[c].next>>,
                                        counter[<<call[c].chunk, call[c].next>>]))
  BY ReadForm DEF IdInv
<1>2. PICK s \in Spaces : s = call[c].chunk
  BY <1>1, GetType DEF IdInv
<1>3. PICK next \in NumbersOf(s) : next = call[c].next
  BY <1>1, <1>2
<1> DEFINE count == counter[<<s, next>>]
           read  == Segment(<<s, next>>, count)
<1>4. /\ next \in Nat /\ count \in Nat /\ call[c].max \in Nat /\ call[c].seen \in SUBSET Nat
  BY <1>1, <1>3, RowType, GetType, IdGenConstants DEF IdInv
<1>5. read \in Nat
  BY <1>4, SegmentsIncrease DEF IdInv
<1>6. /\ call'[c].max \in Nat /\ call[c].max <= call'[c].max /\ read <= call'[c].max
      /\ call'[c].max \in {call[c].max, read}
  <2>1. call'[c].max = Larger(call[c].max, read)
    BY <1>1, <1>2, <1>3
  <2> HIDE DEF read
  <2> QED BY <1>4, <1>5, <2>1, LargerType
<1>7. Grows
  BY <1>1 DEF Grows, IdInv, TypeOK
<1>8. RangeInv(c)'
  BY <1>1 DEF RangeInv, Counting
<1>9. FloorInv(c)'
  <2>1. ASSUME s \notin rootChunks
        PROVE  call'[c].max <= counter[<<s, 0>>]
    <3>1. next = 0 /\ read = counter[<<s, 0>>]
      BY <2>1 DEF NumbersOf, Segment
    <3>2. call[c].max <= counter[<<s, 0>>]
      BY <1>1, <1>2, <2>1 DEF IdInv, ClientInv, FloorInv
    <3> QED BY <1>4, <1>6, <3>1, <3>2
  <2> QED BY <1>1, <1>2, <2>1 DEF FloorInv
<1>10. SeenInv(c)'
  <2> SUFFICES ASSUME NEW m \in call[c].seen
               PROVE  m <= call'[c].max \/ FromCounter(s, next + 1, m)
    BY <1>1, <1>2, <1>3 DEF SeenInv, FromCounter, NumbersOf, Segment
  <2>1. m \in Nat
    BY <1>4
  <2>2. CASE m <= call[c].max
    BY <1>4, <1>6, <2>1, <2>2
  <2>3. CASE FromCounter(s, next, m)
    <3>1. PICK i \in NumbersOf(s), k \in Nat :
             next <= i /\ k <= counter[<<s, i>>] /\ m = Segment(<<s, i>>, k)
      BY <2>3 DEF FromCounter
    <3>2. CASE i = next
      <4>1. m <= read
        BY <1>4, <3>1, <3>2, SegmentsIncrease DEF IdInv
      <4> QED BY <1>5, <1>6, <2>1, <4>1
    <3>3. CASE i # next
      <4>1. next + 1 <= i
        BY <1>4, <3>1, <3>3, RowType, IdGenConstants DEF IdInv
      <4> QED BY <3>1, <4>1 DEF FromCounter
    <3> QED BY <3>2, <3>3
  <2> QED BY <1>1, <1>2, <1>3, <2>2, <2>3 DEF IdInv, ClientInv, SeenInv
<1>11. ClientInv(c)'
  BY <1>8, <1>9, <1>10 DEF ClientInv
<1> QED BY <1>1, <1>7, <1>11, QuietStep

LEMMA InvStep ==
    ASSUME IdInv, [Next]_vars
    PROVE  IdInv'
<1>1. ASSUME NEW c \in Clients, NEW s \in Spaces, NEW size \in Sizes, create_node_ids(c, s, size)
      PROVE  IdInv'
  BY <1>1, CreateStep, IdGenConstants
<1>2. ASSUME NEW c \in Clients, NEW s \in Chunks \ rootChunks, NEW seg \in Sizes,
             set_max_node_id(c, s, seg)
      PROVE  IdInv'
  BY <1>2, SetMaxStep, IdGenConstants
<1>3. ASSUME NEW c \in Clients, NEW s \in Spaces, get_max_node_id(c, s)
      PROVE  IdInv'
  BY <1>3, GetMaxStep
<1>4. ASSUME NEW c \in Clients,
             \/ _get_ids_range(c) \/ EndCreate(c) \/ EndSetMax(c)
             \/ ReadCounter(c) \/ EndGetMax(c) \/ Raise(c)
      PROVE  IdInv'
  BY <1>4, RangeStep, EndCreateStep, EndSetMaxStep, ReadStep, EndGetMaxStep, RaiseStep
<1>5. CASE UNCHANGED vars
  <2>1. TypeOK' /\ Grows
    BY <1>5 DEF vars, IdInv, TypeOK, Rows, Spaces, Grows
  <2>2. \A d \in Clients : ClientInv(d)'
    BY <1>5, <2>1, ClientKept DEF vars, IdInv
  <2>3. \A s \in Spaces : SpaceInv(s)'
    BY <1>5, <2>1, SpaceKept DEF vars, IdInv
  <2>4. UniqueIds'
    BY <1>5, UniqueKept DEF vars, IdInv
  <2> QED BY <2>1, <2>2, <2>3, <2>4 DEF IdInv, Spaces
<1> QED BY <1>1, <1>2, <1>3, <1>4, <1>5 DEF Next

LEMMA InvInit == Init => IdInv
<1> SUFFICES ASSUME Init PROVE IdInv
  OBVIOUS
<1>1. TypeOK
  BY IdleIsCall DEF Init, TypeOK
<1>2. ASSUME NEW c \in Clients
      PROVE  ClientInv(c) /\ ~Created(c)
  BY DEF Init, Idle, ClientInv, RangeInv, FloorInv, SeenInv, Counting, Created
<1>3. ASSUME NEW s \in Spaces
      PROVE  SpaceInv(s)
  <2>1. <<s, 0>> \in Rows
    BY IdGenConstants DEF Rows
  <2> QED BY <2>1 DEF Init, SpaceInv
<1> QED BY <1>1, <1>2, <1>3 DEF IdInv, UniqueIds

\* IdInv is an invariant.
LEMMA Invariant == Spec => []IdInv
BY InvInit, InvStep, PTL DEF Spec

-----------------------------------------------------------------------------
(* The theorems.                                                           *)

\* TypeOK holds for every number of clients, chunks and counters.
THEOREM TypeCorrect == Spec => []TypeOK
<1>1. IdInv => TypeOK
  BY DEF IdInv
<1> QED BY <1>1, Invariant, PTL

\* No id is created twice, whichever counters the clients draw and whichever
\* answers get lost.
THEOREM IdsAreUnique == Spec => []UniqueIds
<1>1. IdInv => UniqueIds
  BY DEF IdInv
<1> QED BY <1>1, Invariant, PTL

\* The maximum of a chunk covers the ids that were returned before it was
\* asked for, though its counters are read one by one.
THEOREM MaxIsAbove == Spec => []MaxCoversIssued
<1>1. ASSUME IdInv, NEW c \in Clients, call[c].pc = "get", ~Unread(c), NEW m \in call[c].seen
      PROVE  m <= call[c].max
  <2>1. /\ call[c].chunk \in Spaces /\ call[c].next \in 0..NCounters
    BY <1>1, GetType DEF IdInv
  <2>2. \A i \in NumbersOf(call[c].chunk) : ~(call[c].next <= i)
    BY <1>1, <2>1, IdGenConstants DEF Unread, NumbersOf
  <2>3. ~FromCounter(call[c].chunk, call[c].next, m)
    BY <2>2 DEF FromCounter
  <2> QED BY <1>1, <2>3 DEF IdInv, ClientInv, SeenInv
<1>2. IdInv => MaxCoversIssued
  BY <1>1 DEF MaxCoversIssued
<1> QED BY <1>2, Invariant, PTL

\* In a plain chunk later ids are larger.
THEOREM IdsGoUp == Spec => []IdsIncrease
<1>1. ASSUME IdInv, NEW c \in Clients, Created(c), ChunkOf(c) \notin rootChunks,
             NEW m \in Segments(c)
      PROVE  m > call[c].floor
  <2>1. /\ call[c].size \in Nat /\ call[c].high \in Nat /\ call[c].floor \in Nat
        /\ call[c].floor <= call[c].high - call[c].size
    BY <1>1, CountingType DEF IdInv, ClientInv, FloorInv, Created, Counting, ChunkOf
  <2>2. m \in (call[c].high + 1 - call[c].size)..call[c].high
    BY <1>1 DEF Segments, Segment, ChunkOf
  <2> QED BY <2>1, <2>2
<1>2. IdInv => IdsIncrease
  BY <1>1 DEF IdsIncrease
<1> QED BY <1>2, Invariant, PTL
=============================================================================
