-------------------------- MODULE RootReadsProofs --------------------------
(***************************************************************************)
(* Proofs about RootReads, for all tables, edits, backends and times.  The *)
(* ranges of time of the three clients, the rounding of two and the        *)
(* comparison of the third, come to the same, because what is stored has   *)
(* whole milliseconds; and what a call reads row by row is the state of    *)
(* the table at its one time stamp, because what is written later, or only *)
(* then returned, was in doubt when the call began.                        *)
(***************************************************************************)
EXTENDS RootReads, CellStoreProofs, WellFoundedInduction

\* Rounding down to a millisecond, which the filters are measured by.
Millisecond(t) == t - Gap(t)

\* The roundings of utils.py, hbase/utils.py and vast/utils.py agree for every time.
LEMMA RoundingsAgree ==
    ASSUME NEW t \in Nat, NEW round_up \in BOOLEAN
    PROVE  /\ get_compatible_time_stamp(t, round_up) = get_hbase_compatible_time_stamp(t, round_up)
           /\ get_compatible_time_stamp(t, FALSE) = get_vast_compatible_time_stamp(t)
<1>1. Gap(t) \in {0, 1}
  BY DEF Gap
<1> QED
  BY <1>1 DEF get_compatible_time_stamp, get_hbase_compatible_time_stamp,
              get_vast_compatible_time_stamp

\* A cell, whose time stamp is a whole millisecond, is in the range up to an
\* end_time exactly if it is not later than the millisecond of end_time, or,
\* when the end is exclusive, if it is earlier; the same on all three
\* backends, though two of them know only exclusive ends (bigtable/utils.py:87,
\* hbase/client.py:492, vast/utils.py:171).
THEOREM RangesAgree ==
    ASSUME NEW ts \in Nat, Gap(ts) = 0, NEW end_time \in Nat, NEW inclusive \in BOOLEAN,
           backend \in {"bigtable", "hbase", "vast"}
    PROVE  InTime(ts, end_time, inclusive) <=>
             IF inclusive THEN ts <= Millisecond(end_time) ELSE ts < Millisecond(end_time)
<1>1. Gap(end_time) \in {0, 1} /\ ts % 2 = 0 /\ Gap(end_time) = end_time % 2
  BY DEF Gap
<1>2. ts < get_compatible_time_stamp(end_time, inclusive) <=>
        IF inclusive THEN ts <= Millisecond(end_time) ELSE ts < Millisecond(end_time)
  <2>1. CASE inclusive
    <3>1. get_compatible_time_stamp(end_time, inclusive) = Millisecond(end_time) + 2
      BY <1>1, <2>1 DEF get_compatible_time_stamp, Millisecond
    <3>2. Millisecond(end_time) \in Int /\ Millisecond(end_time) % 2 = 0
      BY <1>1 DEF Millisecond
    <3>3. ts # Millisecond(end_time) + 1
      BY <1>1, <3>2
    <3>4. ts < Millisecond(end_time) + 2 <=> ts <= Millisecond(end_time)
      BY <3>2, <3>3
    <3> QED
      BY <2>1, <3>1, <3>4, Zenon
  <2>2. CASE ~inclusive
    BY <2>2 DEF get_compatible_time_stamp, Millisecond
  <2> QED
    BY <2>1, <2>2
<1>3. CASE backend = "bigtable"
  BY <1>2, <1>3 DEF InTime, _get_time_range_filter
<1>4. CASE backend = "hbase"
  BY <1>2, <1>4, RoundingsAgree DEF InTime, _fetch_rows_by_range
<1>5. CASE backend = "vast"
  BY <1>5 DEF InTime, time_predicate, get_vast_compatible_time_stamp, Millisecond
<1> QED
  BY <1>3, <1>4, <1>5

\* It is in the range from a start_time exactly if it is not earlier than the
\* millisecond of start_time, which all three round down (bigtable/utils.py:95,
\* hbase/client.py:506, vast/utils.py:180).
THEOREM StartsAgree ==
    ASSUME NEW ts \in Nat, NEW start_time \in Nat,
           backend \in {"bigtable", "hbase", "vast"}
    PROVE  NotBefore(ts, start_time) <=> ts >= Millisecond(start_time)
<1>1. get_compatible_time_stamp(start_time, FALSE) = Millisecond(start_time)
  BY DEF get_compatible_time_stamp, Millisecond
<1>2. CASE backend = "bigtable"
  BY <1>1, <1>2 DEF NotBefore
<1>3. CASE backend = "hbase"
  BY <1>1, <1>3, RoundingsAgree DEF NotBefore
<1>4. CASE backend = "vast"
  BY <1>1, <1>4, RoundingsAgree DEF NotBefore
<1> QED
  BY <1>2, <1>3, <1>4

-----------------------------------------------------------------------------
(* The store under the reads.                                               *)

LEMMA ReadersLeaveStore ==
    ASSUME NEW d, Begin(d) \/ Read(d) \/ Return(d)
    PROVE  UNCHANGED storeVars
<1>1. CASE Begin(d)
  BY <1>1 DEF Begin, read_nodes, get_root, get_roots, is_latest_roots, Start
<1>2. CASE Read(d)
  BY <1>2 DEF Read, _read, _fetch_rows_by_keys, _select_rows_once, _read_byte_rows
<1>3. CASE Return(d)
  BY <1>3 DEF Return
<1> QED
  BY <1>1, <1>2, <1>3

\* Reads do not write: what holds of the store holds of it under the reads.
LEMMA ReadsOverStore == Spec => StoreSpec
<1>1. Init => StoreInit
  BY DEF Init
<1>2. [Next]_vars => [StoreNext]_storeVars
  BY ReadersLeaveStore DEF Next, Store, vars
<1> QED
  BY <1>1, <1>2, PTL DEF Spec, StoreSpec

\* Under the reads of any readers, too, what was returned as written is stored,
\* a write to VAST is whole, and an edit takes place at once.
THEOREM StoreUnderReads == Spec => [](StoredAsReturned /\ VastWritesWhole) /\ ImplementsAtomic
  BY ReadsOverStore, ReturnedIsStored, VastAlwaysWhole, StoreIsAtomic, PTL

\* At all times a read returns the stored cells from the millisecond of start_time
\* on and up to that of end_time, or before it, on each of the backends.
ReadsByTime ==
    \A c \in cells, start_time \in Nat, end_time \in Nat, inclusive \in BOOLEAN :
        NotBefore(c.ts, start_time) /\ InTime(c.ts, end_time, inclusive) <=>
            /\ Millisecond(start_time) <= c.ts
            /\ IF inclusive THEN c.ts <= Millisecond(end_time) ELSE c.ts < Millisecond(end_time)

THEOREM ReadsAlwaysByTime == Spec => []ReadsByTime
<1>1. WholeInv => ReadsByTime
  <2> SUFFICES ASSUME WholeInv, NEW c \in cells, NEW start_time \in Nat,
                      NEW end_time \in Nat, NEW inclusive \in BOOLEAN
               PROVE  NotBefore(c.ts, start_time) /\ InTime(c.ts, end_time, inclusive) <=>
                        /\ Millisecond(start_time) <= c.ts
                        /\ IF inclusive THEN c.ts <= Millisecond(end_time)
                           ELSE c.ts < Millisecond(end_time)
    BY DEF ReadsByTime
  <2>1. c.ts \in Nat /\ Gap(c.ts) = 0 /\ backend \in {"bigtable", "hbase", "vast"}
    BY DEF WholeInv, Whole
  <2>2. InTime(c.ts, end_time, inclusive) <=>
          IF inclusive THEN c.ts <= Millisecond(end_time) ELSE c.ts < Millisecond(end_time)
    BY <2>1, RangesAgree
  <2>3. NotBefore(c.ts, start_time) <=> Millisecond(start_time) <= c.ts
    <3>1. NotBefore(c.ts, start_time) <=> c.ts >= Millisecond(start_time)
      BY <2>1, StartsAgree
    <3>2. Millisecond(start_time) \in Int
      BY DEF Millisecond, Gap
    <3> QED
      BY <2>1, <3>1, <3>2
  <2> QED
    BY <2>2, <2>3, Zenon
<1> QED
  BY <1>1, WholeMilliseconds, ReadsOverStore, PTL

-----------------------------------------------------------------------------
(* Calls, turn by turn.                                                     *)

Climbs(r) == r.method \in {"get_root", "get_roots"}

\* All but read_nodes read from the beginning up to a whole millisecond.
Timed(r) == r.method # "read_nodes" => r.start = 0 /\ r.inclusive = TRUE /\ Gap(r.time) = 0

\* A call that reads has read, or has still to read, the rows it needs to go on.
ReadInv(r) ==
    /\ IsCall(r)
    /\ Timed(r)
    /\ r.pc = "reading" =>
          /\ r.round <= r.stop
          /\ ~Climbs(r) => \A n \in DOMAIN r.at : r.at[n] = n /\ n \in r.todo \cup DOMAIN r.got
          /\ Climbs(r) => \A n \in Climbing(r.at, r.stop) : r.at[n] \in r.todo \cup DOMAIN r.got
          /\ r.method = "get_root" =>
                \E n : DOMAIN r.at = {n} /\ n \in Climbing(r.at, r.stop)

\* A call with the rows S, as far as they are read.
WithRows(r, S, f) ==
    [r EXCEPT !.todo = @ \ S,
              !.got  = [n \in DOMAIN @ \cup S |-> IF n \in S THEN f[n] ELSE @[n]]]

LEMMA NoneGot == IdleCall.got = [n \in {} |-> NoNode] /\ DOMAIN IdleCall.got = {}
  BY DEF IdleCall

LEMMA FinishIs ==
    ASSUME NEW r, IsCall(r), NEW at, NEW pc
    PROVE  /\ DOMAIN Finish(r, at, pc) = DOMAIN r
           /\ Finish(r, at, pc).pc = pc /\ Finish(r, at, pc).at = at
           /\ Finish(r, at, pc).got = IdleCall.got /\ Finish(r, at, pc).round = 0
           /\ Finish(r, at, pc).method = r.method /\ Finish(r, at, pc).start = r.start
           /\ Finish(r, at, pc).time = r.time /\ Finish(r, at, pc).inclusive = r.inclusive
           /\ Finish(r, at, pc).stop = r.stop /\ Finish(r, at, pc).zero = r.zero
           /\ Finish(r, at, pc).todo = r.todo
  BY DEF IsCall, Finish

\* The call q is r with the rows S.
Taken(r, S, f, q) ==
    /\ DOMAIN q = DOMAIN r
    /\ q.todo = r.todo \ S
    /\ q.got = [n \in DOMAIN r.got \cup S |-> IF n \in S THEN f[n] ELSE r.got[n]]
    /\ q.pc = r.pc /\ q.method = r.method /\ q.start = r.start /\ q.time = r.time
    /\ q.inclusive = r.inclusive /\ q.stop = r.stop /\ q.zero = r.zero
    /\ q.at = r.at /\ q.round = r.round

LEMMA WithRowsIs ==
    ASSUME NEW r, IsCall(r), NEW S, NEW f
    PROVE  Taken(r, S, f, WithRows(r, S, f))
  BY DEF IsCall, WithRows, Taken

\* A finished call is well formed when its answer is.
LEMMA FinishInv ==
    ASSUME NEW r, IsCall(r), Timed(r), NEW at, NEW pc \in {"done", "failed"},
           DOMAIN at \subseteq Nodes, \A n \in DOMAIN at : at[n] \in Ids
    PROVE  ReadInv(Finish(r, at, pc))
<1> DEFINE q == Finish(r, at, pc)
<1>1. /\ DOMAIN q = DOMAIN r /\ q.pc = pc /\ q.at = at /\ q.got = IdleCall.got /\ q.round = 0
      /\ q.method = r.method /\ q.start = r.start /\ q.time = r.time
      /\ q.inclusive = r.inclusive /\ q.stop = r.stop /\ q.zero = r.zero /\ q.todo = r.todo
  BY FinishIs
<1> HIDE DEF q
<1>2. IsCall(q)
  BY <1>1, NoneGot, RootReadsConstants DEF IsCall
<1> QED
  BY <1>1, <1>2 DEF ReadInv, Timed, q

LEMMA WithRowsInv ==
    ASSUME NEW r, ReadInv(r), r.pc = "reading", NEW S \in SUBSET r.todo, NEW f \in [S -> Ids]
    PROVE  ReadInv(WithRows(r, S, f)) /\ WithRows(r, S, f).pc = "reading"
<1> DEFINE q == WithRows(r, S, f)
<1>0. IsCall(r) /\ Timed(r)
  BY DEF ReadInv
<1>1. Taken(r, S, f, q)
  BY <1>0, WithRowsIs
<1> HIDE DEF q
<1>2. DOMAIN q.got = DOMAIN r.got \cup S /\ \A n \in DOMAIN q.got : q.got[n] \in Ids
  BY <1>0, <1>1 DEF IsCall, Taken
<1>3. S \subseteq Ids /\ r.todo \subseteq Ids /\ DOMAIN r.got \subseteq Ids
  BY <1>0 DEF IsCall
<1>4. IsCall(q)
  BY <1>0, <1>1, <1>2, <1>3 DEF IsCall, Taken
<1>5. r.todo \cup DOMAIN r.got = q.todo \cup DOMAIN q.got
  BY <1>1, <1>2 DEF Taken
<1> QED
  BY <1>1, <1>4, <1>5 DEF ReadInv, Timed, Climbs, Taken, q

LEMMA TurnForms ==
    ASSUME NEW r
    PROVE  /\ r.todo # {} => Turn(r) = r
           /\ r.todo = {} /\ r.method = "get_root" => Turn(r) = RootTurn(r)
           /\ r.todo = {} /\ r.method = "get_roots" => Turn(r) = RootsTurn(r)
           /\ r.todo = {} /\ ~Climbs(r) =>
                 Turn(r) = Finish(r, [n \in DOMAIN r.at |-> r.got[n]], "done")
<1>1. r.todo # {} => Turn(r) = r
  BY Zenon DEF Turn
<1>2. r.todo = {} /\ r.method = "get_root" => Turn(r) = RootTurn(r)
  BY Zenon DEF Turn
<1>3. "get_root" # "get_roots"
  OBVIOUS
<1>4. r.todo = {} /\ r.method = "get_roots" => Turn(r) = RootsTurn(r)
  BY <1>3, Zenon DEF Turn
<1>5. r.method \notin {"get_root", "get_roots"} => r.method # "get_root" /\ r.method # "get_roots"
  OBVIOUS
<1>6. r.todo = {} /\ ~Climbs(r) =>
                 Turn(r) = Finish(r, [n \in DOMAIN r.at |-> r.got[n]], "done")
  BY <1>5, Zenon DEF Turn, Climbs
<1> QED
  BY <1>1, <1>2, <1>4, <1>6

\* A turn of get_root: it ends, or has come a layer higher.
LEMMA RootTurnInv ==
    ASSUME NEW r, ReadInv(r), r.pc = "reading", r.todo = {}, r.method = "get_root"
    PROVE  ReadInv(RootTurn(r))
<1> DEFINE n == CHOOSE m \in DOMAIN r.at : TRUE
           parent == r.got[r.at[n]]
           q == [r EXCEPT !.at = [@ EXCEPT ![n] = parent], !.todo = {parent},
                          !.got = IdleCall.got]
<1>0. IsCall(r) /\ Timed(r) /\ Climbs(r)
  BY DEF ReadInv, Climbs
<1>1. PICK m : DOMAIN r.at = {m} /\ m \in Climbing(r.at, r.stop)
  BY DEF ReadInv
<1>2. n = m
  BY <1>1
<1> HIDE DEF n
<1>3. r.at[n] \in DOMAIN r.got
  BY <1>0, <1>1, <1>2 DEF ReadInv
<1>4. parent \in Ids /\ n \in Nodes
  BY <1>0, <1>1, <1>2, <1>3 DEF IsCall
<1>5. RootTurn(r) = IF parent = NoNode THEN Finish(r, r.at, "done")
                    ELSE IF Layer[parent] >= r.stop
                    THEN Finish(r, [r.at EXCEPT ![n] = parent], "done")
                    ELSE q
  BY DEF RootTurn, n
<1> HIDE DEF parent
<1>6. ReadInv(Finish(r, r.at, "done"))
  BY <1>0, FinishInv DEF IsCall
<1>7. ReadInv(Finish(r, [r.at EXCEPT ![n] = parent], "done"))
  <2> DEFINE at == [r.at EXCEPT ![n] = parent]
  <2>1. DOMAIN at \subseteq Nodes /\ \A k \in DOMAIN at : at[k] \in Ids
    BY <1>0, <1>4 DEF IsCall
  <2> HIDE DEF at
  <2>2. ReadInv(Finish(r, at, "done"))
    BY <1>0, <2>1, FinishInv
  <2> QED
    BY <2>2 DEF at
<1>8. ASSUME ~(Layer[parent] >= r.stop) PROVE ReadInv(q)
  <2> DEFINE at == [r.at EXCEPT ![n] = parent]
  <2>1. DOMAIN at = {n} /\ at[n] = parent
    BY <1>1, <1>2
  <2>2. /\ DOMAIN q = DOMAIN r /\ q.at = at /\ q.todo = {parent} /\ q.got = IdleCall.got
        /\ q.pc = r.pc /\ q.method = r.method /\ q.start = r.start /\ q.time = r.time
        /\ q.inclusive = r.inclusive /\ q.stop = r.stop /\ q.zero = r.zero
        /\ q.round = r.round
    BY <1>0 DEF IsCall
  <2> HIDE DEF q, at
  <2>3. IsCall(q)
    BY <1>0, <1>4, <2>1, <2>2, NoneGot DEF IsCall
  <2>4. Layer[parent] < r.stop
    BY <1>0, <1>4, <1>8, RootReadsConstants DEF IsCall, Ids
  <2>5. Climbing(q.at, q.stop) = {n}
    BY <2>1, <2>2, <2>4 DEF Climbing
  <2> QED
    BY <1>0, <2>1, <2>2, <2>3, <2>5 DEF ReadInv, Timed, Climbs
<1> QED
  BY <1>5, <1>6, <1>7, <1>8

\* A turn of get_roots.
LEMMA RootsTurnInv ==
    ASSUME NEW r, ReadInv(r), r.pc = "reading", r.todo = {}, r.method = "get_roots"
    PROVE  ReadInv(RootsTurn(r))
<1> DEFINE found == [n \in DOMAIN r.at |->
                       IF n \in Climbing(r.at, r.stop) THEN r.got[r.at[n]] ELSE r.at[n]]
           missing == \E n \in Climbing(r.at, r.stop) : r.got[r.at[n]] = NoNode
           next == Climbing(found, r.stop)
           result == IF \E n \in next : found[n] # NoNode THEN "failed" ELSE "done"
           q == [r EXCEPT !.at = found, !.todo = {found[n] : n \in next},
                          !.got = IdleCall.got, !.round = @ + 1]
<1>0. IsCall(r) /\ Timed(r) /\ Climbs(r)
  BY DEF ReadInv, Climbs
<1>1. \A n \in Climbing(r.at, r.stop) : n \in DOMAIN r.at /\ r.at[n] \in DOMAIN r.got
  BY <1>0 DEF ReadInv, Climbing
<1>2. DOMAIN found = DOMAIN r.at /\ \A n \in DOMAIN found : found[n] \in Ids
  BY <1>0, <1>1 DEF IsCall
<1>3. RootsTurn(r) = IF missing /\ ~r.zero THEN Finish(r, r.at, "failed")
                     ELSE IF next = {} \/ r.round = r.stop THEN Finish(r, found, result)
                     ELSE q
  BY DEF RootsTurn
<1>4. result \in {"done", "failed"}
  OBVIOUS
<1>5. next \subseteq DOMAIN found
  BY DEF Climbing
<1> HIDE DEF found, missing, next, result
<1>6. ReadInv(Finish(r, r.at, "failed"))
  BY <1>0, FinishInv DEF IsCall
<1>7. ReadInv(Finish(r, found, result))
  <2>1. DOMAIN found \subseteq Nodes
    BY <1>0, <1>2 DEF IsCall
  <2> QED
    BY <1>0, <1>2, <1>4, <2>1, FinishInv
<1>8. ASSUME r.round # r.stop PROVE ReadInv(q)
  <2>1. /\ DOMAIN q = DOMAIN r /\ q.at = found /\ q.todo = {found[n] : n \in next}
        /\ q.got = IdleCall.got /\ q.round = r.round + 1
        /\ q.pc = r.pc /\ q.method = r.method /\ q.start = r.start /\ q.time = r.time
        /\ q.inclusive = r.inclusive /\ q.stop = r.stop /\ q.zero = r.zero
    BY <1>0 DEF IsCall
  <2> HIDE DEF q
  <2>2. r.round + 1 <= r.stop /\ r.round + 1 \in 0..LayerCount
    BY <1>0, <1>8, RootReadsConstants DEF ReadInv, IsCall
  <2>3. q.todo \subseteq Ids
    BY <1>2, <1>5, <2>1
  <2>4. IsCall(q)
    BY <1>0, <1>2, <2>1, <2>2, <2>3, NoneGot DEF IsCall
  <2>5. Climbing(q.at, q.stop) = next
    BY <2>1 DEF next
  <2>6. \A n \in Climbing(q.at, q.stop) : q.at[n] \in q.todo
    BY <2>1, <2>5
  <2> QED
    BY <1>0, <2>1, <2>2, <2>4, <2>6 DEF ReadInv, Timed, Climbs
<1> QED
  BY <1>3, <1>6, <1>7, <1>8

LEMMA TurnInv ==
    ASSUME NEW r, ReadInv(r), r.pc = "reading"
    PROVE  ReadInv(Turn(r))
<1>0. IsCall(r) /\ Timed(r)
  BY DEF ReadInv
<1>1. CASE r.todo # {}
  BY <1>1, TurnForms
<1>2. CASE r.todo = {} /\ r.method = "get_root"
  BY <1>2, TurnForms, RootTurnInv
<1>3. CASE r.todo = {} /\ r.method = "get_roots"
  BY <1>3, TurnForms, RootsTurnInv
<1>4. CASE r.todo = {} /\ ~Climbs(r)
  <2> DEFINE at == [n \in DOMAIN r.at |-> r.got[n]]
  <2>1. Turn(r) = Finish(r, at, "done")
    BY <1>4, TurnForms
  <2>2. DOMAIN at \subseteq Nodes /\ \A n \in DOMAIN at : at[n] \in Ids
    BY <1>0, <1>4 DEF ReadInv, IsCall
  <2> HIDE DEF at
  <2> QED
    BY <1>0, <2>1, <2>2, FinishInv
<1> QED
  BY <1>1, <1>2, <1>3, <1>4 DEF Climbs

\* A turn changes neither what is asked for nor the time; it forgets the rows.
LEMMA TurnKeeps ==
    ASSUME NEW r, ReadInv(r), r.pc = "reading"
    PROVE  /\ Turn(r).method = r.method /\ Turn(r).start = r.start /\ Turn(r).time = r.time
           /\ Turn(r).inclusive = r.inclusive
           /\ r.todo = {} => DOMAIN Turn(r).got = {}
           /\ r.todo = {} /\ ~Climbs(r) =>
                 Turn(r).pc = "done" /\ Turn(r).at = [n \in DOMAIN r.at |-> r.got[n]]
<1>0. IsCall(r)
  BY DEF ReadInv
<1> DEFINE Keeps(q) == /\ q.method = r.method /\ q.start = r.start /\ q.time = r.time
                       /\ q.inclusive = r.inclusive
                       /\ r.todo = {} => DOMAIN q.got = {}
<1>1. \A at, pc : Keeps(Finish(r, at, pc)) /\ Finish(r, at, pc).at = at
                  /\ Finish(r, at, pc).pc = pc
  BY <1>0, FinishIs, NoneGot
<1>2. CASE r.todo # {}
  BY <1>2, TurnForms
<1>3. CASE r.todo = {} /\ r.method = "get_root"
  <2> DEFINE n == CHOOSE m \in DOMAIN r.at : TRUE
             parent == r.got[r.at[n]]
             at == [r.at EXCEPT ![n] = parent]
             q == [r EXCEPT !.at = [@ EXCEPT ![n] = parent], !.todo = {parent},
                            !.got = IdleCall.got]
  <2>1. RootTurn(r) \in {Finish(r, r.at, "done"), Finish(r, at, "done"), q}
    BY DEF RootTurn
  <2> HIDE DEF n, at
  <2>2. Keeps(q)
    BY <1>0, NoneGot DEF IsCall
  <2> HIDE DEF parent, q, Keeps
  <2>3. Keeps(RootTurn(r))
    BY <1>1, <2>1, <2>2
  <2> QED
    BY <1>3, <2>3, TurnForms DEF Climbs, Keeps
<1>4. CASE r.todo = {} /\ r.method = "get_roots"
  <2> DEFINE found == [n \in DOMAIN r.at |->
                         IF n \in Climbing(r.at, r.stop) THEN r.got[r.at[n]] ELSE r.at[n]]
             missing == \E n \in Climbing(r.at, r.stop) : r.got[r.at[n]] = NoNode
             next == Climbing(found, r.stop)
             result == IF \E n \in next : found[n] # NoNode THEN "failed" ELSE "done"
             todo == {found[n] : n \in next}
             q == [r EXCEPT !.at = found, !.todo = todo,
                            !.got = IdleCall.got, !.round = @ + 1]
  <2>1. RootsTurn(r) \in {Finish(r, r.at, "failed"), Finish(r, found, result), q}
    BY DEF RootsTurn
  <2> HIDE DEF found, missing, next, result, todo
  <2>2. Keeps(q)
    BY <1>0, NoneGot DEF IsCall
  <2> HIDE DEF q, Keeps
  <2>3. Keeps(RootsTurn(r))
    BY <1>1, <2>1, <2>2
  <2> QED
    BY <1>4, <2>3, TurnForms DEF Climbs, Keeps
<1>5. CASE r.todo = {} /\ ~Climbs(r)
  <2> DEFINE at == [n \in DOMAIN r.at |-> r.got[n]]
  <2>1. Turn(r) = Finish(r, at, "done")
    BY <1>5, TurnForms
  <2> HIDE DEF at
  <2>2. Keeps(Turn(r)) /\ Turn(r).at = at /\ Turn(r).pc = "done"
    BY <1>1, <2>1
  <2> QED
    BY <2>2 DEF at
<1> QED
  BY <1>2, <1>3, <1>4, <1>5 DEF Climbs

-----------------------------------------------------------------------------
(* How calls begin.                                                         *)

LEMMA MillisecondInTimes ==
    ASSUME NEW t \in Times
    PROVE  /\ get_valid_timestamp(t) \in Times /\ Gap(get_valid_timestamp(t)) = 0
           /\ Millisecond(t) \in Nat /\ Millisecond(t) <= t /\ t <= Millisecond(t) + 1
           /\ Gap(Millisecond(t)) = 0
<1>1. t \in Nat /\ MaxTime \in Nat /\ t <= MaxTime
  BY CellStoreConstants DEF Times
<1>2. get_valid_timestamp(t) = t - (t % 2)
  BY DEF get_valid_timestamp, get_compatible_time_stamp, Gap
<1>3. t % 2 \in {0, 1} /\ t - (t % 2) \in Nat /\ (t - (t % 2)) % 2 = 0
  BY <1>1
<1> QED
  BY <1>1, <1>2, <1>3 DEF Times, Gap, Millisecond

\* A call that has just begun to read the rows Q.
Begun(r, method, Q, start_time, end_time, inclusive) ==
    /\ IsCall(r) /\ Timed(r) /\ DOMAIN r.at = Q /\ DOMAIN r.got = {} /\ r.todo = Q
    /\ r.method = method /\ r.pc = "reading" /\ r.round = 0
    /\ r.start = start_time /\ r.time = end_time /\ r.inclusive = inclusive
    /\ \A n \in Q : r.at[n] = n
    /\ ~Climbs(r) => ReadInv(r)

LEMMA ReadingInv ==
    ASSUME NEW method \in Methods, NEW Q \in SUBSET Nodes, NEW start_time \in Times,
           NEW end_time \in Times, NEW inclusive \in BOOLEAN,
           method # "read_nodes" => start_time = 0 /\ inclusive = TRUE /\ Gap(end_time) = 0
    PROVE  Begun(Reading(method, Q, start_time, end_time, inclusive),
                 method, Q, start_time, end_time, inclusive)
<1> DEFINE r == Reading(method, Q, start_time, end_time, inclusive)
           at == [n \in Q |-> n]
           got == [n \in {} |-> NoNode]
<1>1. /\ DOMAIN r = {"pc", "method", "start", "time", "inclusive", "stop", "zero", "at",
                     "todo", "got", "round"}
      /\ r.pc = "reading" /\ r.method = method /\ r.start = start_time /\ r.time = end_time
      /\ r.inclusive = inclusive /\ r.stop = LayerCount /\ r.zero = FALSE /\ r.at = at
      /\ r.todo = Q /\ r.got = got /\ r.round = 0
  BY DEF Reading
<1>2. DOMAIN at = Q /\ (\A n \in Q : at[n] = n) /\ DOMAIN got = {} /\ got = IdleCall.got
  BY DEF IdleCall
<1> HIDE DEF r, at, got
<1>3. LayerCount \in 1..LayerCount /\ 0 \in 0..LayerCount /\ Q \subseteq Ids
  BY RootReadsConstants DEF Ids
<1>4. IsCall(r)
  BY <1>1, <1>2, <1>3 DEF IsCall, Ids
<1>5. Timed(r)
  BY <1>1 DEF Timed
<1>6. ~Climbs(r) => ReadInv(r)
  BY <1>1, <1>2, <1>3, <1>4, <1>5 DEF ReadInv, Climbs
<1> QED
  BY <1>1, <1>2, <1>4, <1>5, <1>6 DEF Begun, r

\* A call that has read nothing; a climb that is at its end before the first read
\* is done.
Fresh(r) ==
    /\ ReadInv(r) /\ DOMAIN r.got = {}
    /\ ~Climbs(r) => r.pc = "reading"
    /\ Climbs(r) => /\ r.round = 0 /\ \A n \in DOMAIN r.at : r.at[n] = n
                    /\ r.pc = IF Climbing(r.at, r.stop) = {} THEN "done" ELSE "reading"

LEMMA ClimbInv ==
    ASSUME NEW method \in {"get_root", "get_roots"}, NEW Q \in SUBSET Nodes,
           method = "get_root" => \E n : Q = {n},
           NEW time \in Times, Gap(time) = 0, NEW stop_layer \in StopLayers,
           NEW fail_to_zero \in BOOLEAN,
           NEW r, r = Climb(Reading(method, Q, 0, time, TRUE), stop_layer, fail_to_zero)
    PROVE  Fresh(r)
<1> DEFINE r0 == Reading(method, Q, 0, time, TRUE)
           todo == Climbing(r0.at, stop_layer)
<1>1. Begun(r0, method, Q, 0, time, TRUE)
  <2>1. method \in Methods /\ 0 \in Times
    BY CellStoreConstants DEF Methods, Times
  <2> QED
    BY <2>1, ReadingInv
<1> HIDE DEF r0
<1>2. /\ DOMAIN r = DOMAIN r0 /\ r.pc = (IF todo = {} THEN "done" ELSE "reading")
      /\ r.method = method /\ r.start = 0 /\ r.time = time /\ r.inclusive = TRUE
      /\ r.stop = stop_layer /\ r.zero = fail_to_zero /\ r.at = r0.at /\ r.todo = todo
      /\ r.got = r0.got /\ r.round = 0
  <2>1. r = Climb(r0, stop_layer, fail_to_zero)
    BY DEF r0
  <2> QED
    BY <1>1, <2>1, ZenonT(60) DEF Climb, IsCall, Begun
<1>3. todo \subseteq Q /\ \A n \in todo : r0.at[n] = n
  BY <1>1 DEF Climbing, Begun
<1>4. stop_layer \in 1..LayerCount /\ 0 <= stop_layer
  BY RootReadsConstants
<1>5. Climbing(r.at, r.stop) = todo
  BY <1>2
<1> HIDE DEF todo
<1>6. IsCall(r)
  <2>1. IsCall(r0) /\ DOMAIN r0.at = Q /\ r0.start = 0 /\ DOMAIN r0.got = {}
    BY <1>1 DEF Begun
  <2>2. r.pc \in {"idle", "reading", "done", "failed"} /\ r.method \in Methods
    BY <1>2 DEF Methods
  <2>3. 0 \in Times /\ 0 \in 0..LayerCount /\ TRUE \in BOOLEAN
    BY CellStoreConstants, RootReadsConstants DEF Times
  <2>4. todo \subseteq Ids
    BY <1>3 DEF Ids
  <2> QED
    BY <1>2, <1>4, <2>1, <2>2, <2>3, <2>4 DEF IsCall
<1>7. Climbs(r) /\ Timed(r)
  BY <1>2 DEF Climbs, Timed
<1>8. r.pc = "reading" /\ method = "get_root" => \E n : DOMAIN r.at = {n} /\ n \in todo
  <2> SUFFICES ASSUME r.pc = "reading", method = "get_root"
               PROVE  \E n : DOMAIN r.at = {n} /\ n \in todo
    OBVIOUS
  <2>1. PICK n : Q = {n}
    OBVIOUS
  <2>2. todo # {}
    BY <1>2
  <2>3. DOMAIN r.at = {n} /\ n \in todo
    BY <1>1, <1>2, <1>3, <2>1, <2>2, ZenonT(60) DEF Begun
  <2> QED
    BY <2>3
<1>9. \A n \in todo : r.at[n] \in r.todo
  BY <1>2, <1>3, ZenonT(60)
<1> QED
  <2>1. ReadInv(r)
    BY <1>1, <1>2, <1>4, <1>5, <1>6, <1>7, <1>8, <1>9 DEF ReadInv, Begun
  <2>2. r.got = r0.got /\ r.at = r0.at /\ r.round = 0
    BY <1>2
  <2>3. DOMAIN r0.got = {} /\ \A n \in DOMAIN r0.at : r0.at[n] = n
    BY <1>1 DEF Begun
  <2> QED
    BY <1>2, <1>5, <1>7, <2>1, <2>2, <2>3 DEF Fresh

\* A call begins with nothing read.
LEMMA BeginForms ==
    ASSUME NEW d, Begin(d)
    PROVE  \E r : Start(d, r) /\ Fresh(r)
<1>1. CASE read_nodes(d)
  <2>1. PICK Q \in Queries["read_nodes"], t \in Ranges :
          Start(d, Reading("read_nodes", Q, t[1], t[2], t[3]))
    BY <1>1 DEF read_nodes
  <2>2. Q \in SUBSET Nodes /\ t[1] \in Times /\ t[2] \in Times /\ t[3] \in BOOLEAN
    <3>1. Queries["read_nodes"] \subseteq SUBSET Nodes
      BY RootReadsConstants DEF Methods
    <3>2. t \in Times \X Times \X BOOLEAN
      BY RootReadsConstants
    <3> QED
      BY <3>1, <3>2
  <2> DEFINE r == Reading("read_nodes", Q, t[1], t[2], t[3])
  <2>3. Begun(r, "read_nodes", Q, t[1], t[2], t[3])
    <3>1. "read_nodes" \in Methods
      BY DEF Methods
    <3> QED
      BY <2>2, <3>1, ReadingInv
  <2> HIDE DEF r
  <2>4. Fresh(r)
    BY <2>3 DEF Climbs, Begun, Fresh
  <2> QED
    BY <2>1, <2>4 DEF r
<1>2. CASE get_root(d)
  <2>1. PICK n \in UNION Queries["get_root"], time_stamp \in TimeStamps,
             stop_layer \in StopLayers :
          Start(d, Climb(Reading("get_root", {n}, 0, get_valid_timestamp(time_stamp), TRUE),
                         stop_layer, FALSE))
    BY <1>2 DEF get_root
  <2>2. {n} \in SUBSET Nodes /\ time_stamp \in Times
    BY RootReadsConstants DEF Methods
  <2>3. get_valid_timestamp(time_stamp) \in Times /\ Gap(get_valid_timestamp(time_stamp)) = 0
    BY <2>2, MillisecondInTimes
  <2> DEFINE r == Climb(Reading("get_root", {n}, 0, get_valid_timestamp(time_stamp), TRUE),
                        stop_layer, FALSE)
  <2>4. Fresh(r)
    BY <2>2, <2>3, ClimbInv
  <2> QED
    BY <2>1, <2>4
<1>3. CASE get_roots(d)
  <2>1. PICK Q \in Queries["get_roots"], time_stamp \in TimeStamps,
             stop_layer \in StopLayers, fail_to_zero \in BOOLEAN :
          Start(d, Climb(Reading("get_roots", Q, 0, get_valid_timestamp(time_stamp), TRUE),
                         stop_layer, fail_to_zero))
    BY <1>3 DEF get_roots
  <2>2. Q \in SUBSET Nodes /\ time_stamp \in Times
    BY RootReadsConstants DEF Methods
  <2>3. get_valid_timestamp(time_stamp) \in Times /\ Gap(get_valid_timestamp(time_stamp)) = 0
    BY <2>2, MillisecondInTimes
  <2> DEFINE r == Climb(Reading("get_roots", Q, 0, get_valid_timestamp(time_stamp), TRUE),
                        stop_layer, fail_to_zero)
  <2>4. Fresh(r)
    BY <2>2, <2>3, ClimbInv
  <2> QED
    BY <2>1, <2>4
<1>4. CASE is_latest_roots(d)
  <2>1. PICK Q \in Queries["is_latest_roots"], time_stamp \in TimeStamps :
          Start(d, Reading("is_latest_roots", Q, 0, get_valid_timestamp(time_stamp), TRUE))
    BY <1>4 DEF is_latest_roots
  <2>2. Q \in SUBSET Nodes /\ time_stamp \in Times /\ 0 \in Times
    BY RootReadsConstants, CellStoreConstants DEF Methods, Times
  <2>3. get_valid_timestamp(time_stamp) \in Times /\ Gap(get_valid_timestamp(time_stamp)) = 0
    BY <2>2, MillisecondInTimes
  <2> DEFINE r == Reading("is_latest_roots", Q, 0, get_valid_timestamp(time_stamp), TRUE)
  <2>4. Begun(r, "is_latest_roots", Q, 0, get_valid_timestamp(time_stamp), TRUE)
    <3>1. "is_latest_roots" \in Methods
      BY DEF Methods
    <3> QED
      BY <2>2, <2>3, <3>1, ReadingInv
  <2> HIDE DEF r
  <2>5. Fresh(r)
    BY <2>4 DEF Climbs, Begun, Fresh
  <2> QED
    BY <2>1, <2>5 DEF r
<1> QED
  BY <1>1, <1>2, <1>3, <1>4 DEF Begin

-----------------------------------------------------------------------------
(* Types.                                                                   *)

ReadsInv ==
    /\ DOMAIN read = Readers
    /\ \A d \in Readers : ReadInv(read[d])
    /\ clean \in [Readers -> BOOLEAN]

\* The step of a reader, as its calls see it.
Takes(d, r, S, f) ==
    /\ read[d].pc = "reading" /\ S \subseteq read[d].todo /\ f \in [S -> Ids] /\ r = read[d]
    /\ \A n \in S : f[n] \in ReadRow(n, ColumnOf(r.method), r.start, r.time, r.inclusive)
    /\ read' = [read EXCEPT ![d] = Turn(WithRows(r, S, f))]
    /\ UNCHANGED <<storeVars, clean>>

LEMMA ReadForms ==
    ASSUME NEW d, Read(d)
    PROVE  \E r, S, f : Takes(d, r, S, f)
<1>1. read[d].pc = "reading" /\ \E S : S \subseteq read[d].todo /\ _read_byte_rows(d, S)
  <2>1. CASE _read(d) \/ _fetch_rows_by_keys(d)
    BY <2>1, ZenonT(60) DEF Read, _read, _fetch_rows_by_keys
  <2>2. CASE _select_rows_once(d)
    <3>1. PICK S : _read_byte_rows(d, S) /\ \E k : S \in kSubset(k, read[d].todo)
      BY <2>2 DEF _select_rows_once
    <3>2. S \subseteq read[d].todo
      BY <3>1 DEF kSubset
    <3> QED
      BY <3>1, <3>2 DEF Read
  <2> QED
    BY <2>1, <2>2 DEF Read
<1>2. PICK S : S \subseteq read[d].todo /\ _read_byte_rows(d, S)
  BY <1>1
<1>3. PICK f \in [S -> Ids] :
        /\ \A n \in S : f[n] \in ReadRow(n, ColumnOf(read[d].method), read[d].start,
                                         EndTime(read[d]), read[d].inclusive)
        /\ read' = [read EXCEPT ![d] = Turn(WithRows(read[d], S, f))]
  BY <1>2 DEF _read_byte_rows, WithRows
<1>4. UNCHANGED <<storeVars, clean>>
  BY <1>2 DEF _read_byte_rows
<1>5. Takes(d, read[d], S, f)
  BY <1>1, <1>2, <1>3, <1>4 DEF Takes, EndTime
<1> QED
  BY <1>5

LEMMA IdleInv == ReadInv(IdleCall) /\ IdleCall.pc = "idle"
<1>1. LayerCount \in 1..LayerCount /\ 0 \in 0..LayerCount /\ 0 \in Times
  BY RootReadsConstants, CellStoreConstants DEF Times
<1> QED
  BY <1>1 DEF IdleCall, ReadInv, IsCall, Timed, Methods

LEMMA ReadsNext == ReadsInv /\ [Next]_vars => ReadsInv'
<1> SUFFICES ASSUME ReadsInv, [Next]_vars PROVE ReadsInv'
  OBVIOUS
<1>1. ASSUME NEW d \in Readers, Begin(d) PROVE ReadsInv'
  <2>1. PICK r : Start(d, r) /\ ReadInv(r)
    BY <1>1, BeginForms DEF Fresh
  <2>2. Settled(r) \in BOOLEAN
    BY DEF Settled
  <2> QED
    BY <2>1, <2>2 DEF Start, ReadsInv
<1>2. ASSUME NEW d \in Readers, Read(d) PROVE ReadsInv'
  <2>1. PICK r, S, f : Takes(d, r, S, f)
    BY <1>2, ReadForms
  <2>2. ReadInv(r) /\ r.pc = "reading" /\ S \in SUBSET r.todo /\ f \in [S -> Ids]
    BY <2>1 DEF Takes, ReadsInv
  <2>3. ReadInv(WithRows(r, S, f)) /\ WithRows(r, S, f).pc = "reading"
    BY <2>2, WithRowsInv
  <2>4. ReadInv(Turn(WithRows(r, S, f)))
    BY <2>3, TurnInv
  <2> QED
    BY <2>1, <2>4 DEF Takes, ReadsInv
<1>3. ASSUME NEW d \in Readers, Return(d) PROVE ReadsInv'
  BY <1>3, IdleInv DEF Return, ReadsInv
<1>4. CASE Store
  <2>1. /\ read' = [d \in Readers |-> IF read[d].pc = "reading" THEN read[d] ELSE IdleCall]
        /\ clean' = [d \in Readers |-> read[d].pc = "reading" => clean[d] /\ Settled(read[d])']
    BY <1>4 DEF Store
  <2>2. DOMAIN read' = Readers /\ \A d \in Readers : ReadInv(read'[d])
    BY <2>1, IdleInv DEF ReadsInv
  <2>3. clean' \in [Readers -> BOOLEAN]
    BY <2>1
  <2> QED
    BY <2>2, <2>3 DEF ReadsInv
<1>5. CASE UNCHANGED vars
  BY <1>5 DEF vars, ReadsInv
<1> QED
  BY <1>1, <1>2, <1>3, <1>4, <1>5 DEF Next

LEMMA ReadsInit == Init => ReadsInv
  BY IdleInv DEF Init, ReadsInv

\* The variables have their types: what is read, found and answered are ids, and
\* rounds are as many as there are layers at most.
THEOREM ReadTypesCorrect == Spec => []ReadTypeOK
<1>1. Spec => []ReadsInv
  BY ReadsInit, ReadsNext, PTL DEF Spec
<1>2. ReadsInv /\ TypeOK => ReadTypeOK
  BY DEF ReadsInv, ReadInv, ReadTypeOK
<1> QED
  BY <1>1, <1>2, TypeCorrect, ReadsOverStore, PTL

-----------------------------------------------------------------------------
(* Reads of one moment.                                                     *)

\* The last time stamp that a call reads, and the values that it is to find.
UpTo(r) == Millisecond(r.time) - (IF r.inclusive THEN 0 ELSE 1)
ValuesOf(r, n) == AsOfBetween(n, ColumnOf(r.method), Millisecond(r.start), UpTo(r))

\* What a call reads of the cells with whole milliseconds.
LEMMA RangeIs ==
    ASSUME NEW r, IsCall(r), NEW c, c.ts \in Nat, Gap(c.ts) = 0,
           backend \in {"bigtable", "hbase", "vast"}
    PROVE  /\ NotBefore(c.ts, r.start) <=> Millisecond(r.start) <= c.ts
           /\ InTime(c.ts, r.time, r.inclusive) <=> c.ts <= UpTo(r)
<1>1. /\ r.start \in Times /\ r.time \in Times /\ r.inclusive \in BOOLEAN
      /\ \A t \in Times : t \in Nat
  BY CellStoreConstants DEF IsCall, Times
<1>2. /\ Millisecond(r.start) \in Nat /\ Millisecond(r.time) \in Nat
  BY <1>1, MillisecondInTimes
<1>3. NotBefore(c.ts, r.start) <=> c.ts >= Millisecond(r.start)
  BY <1>1, StartsAgree
<1>4. InTime(c.ts, r.time, r.inclusive) <=>
         IF r.inclusive THEN c.ts <= Millisecond(r.time) ELSE c.ts < Millisecond(r.time)
  BY <1>1, RangesAgree
<1>5. UpTo(r) = IF r.inclusive THEN Millisecond(r.time) ELSE Millisecond(r.time) - 1
  BY <1>2 DEF UpTo
<1>6. CASE r.inclusive
  BY <1>2, <1>3, <1>4, <1>5, <1>6
<1>7. CASE ~r.inclusive
  BY <1>2, <1>3, <1>4, <1>5, <1>7
<1> QED
  BY <1>6, <1>7

\* When nothing in the time of a call is in doubt, a row read is what was
\* returned as written.
LEMMA SettledReads ==
    ASSUME StoreInv, NEW r, IsCall(r), Settled(r), NEW row, NEW col
    PROVE  ReadRow(row, col, r.start, r.time, r.inclusive)
             = AsOfBetween(row, col, Millisecond(r.start), UpTo(r))
<1>1. WholeInv /\ Whole(truth) /\ Returned
  BY DEF StoreInv, TypeInv, StampInv, ReturnInv
<1>2. \A c \in cells \cup truth :
         /\ NotBefore(c.ts, r.start) <=> Millisecond(r.start) <= c.ts
         /\ InTime(c.ts, r.time, r.inclusive) <=> c.ts <= UpTo(r)
  BY <1>1, RangeIs DEF WholeInv, Whole
<1>3. \A c \in cells \cup truth : InTime(c.ts, r.time, r.inclusive) => c \in cells /\ c \in truth
  <2> SUFFICES ASSUME NEW c \in cells \cup truth, InTime(c.ts, r.time, r.inclusive)
               PROVE  c \in cells /\ c \in truth
    OBVIOUS
  <2>1. Place(c).ts = c.ts
    BY DEF Place
  <2>2. Place(c) \notin doubt
    BY <2>1 DEF Settled
  <2> QED
    BY <1>1, <2>2 DEF Returned
<1> DEFINE A == {c \in cells : /\ c.row = row /\ c.col = col
                               /\ NotBefore(c.ts, r.start)
                               /\ InTime(c.ts, r.time, r.inclusive)}
           B == {c \in truth : /\ c.row = row /\ c.col = col
                               /\ Millisecond(r.start) <= c.ts /\ c.ts <= UpTo(r)}
<1>4. A = B
  BY <1>2, <1>3
<1> HIDE DEF A, B
<1>5. First(A) = First(B)
  BY <1>4
<1> QED
  BY <1>5 DEF ReadRow, AsOfBetween, A, B

\* What is returned as written later on does not change what such a call is to find.
LEMMA SameMoment ==
    ASSUME StoreInv, [StoreNext]_storeVars, NEW r, IsCall(r), Settled(r), NEW row, NEW col
    PROVE  AsOfBetween(row, col, Millisecond(r.start), UpTo(r))'
             = AsOfBetween(row, col, Millisecond(r.start), UpTo(r))
<1>1. /\ truth \subseteq truth'
      /\ \A c \in truth' : c \in truth \/ (Place(c) \in doubt /\ c.ts \in Nat /\ Gap(c.ts) = 0)
  BY TruthGrows
<1>2. backend \in {"bigtable", "hbase", "vast"}
  BY DEF StoreInv, TypeInv, WholeInv
<1>3. ASSUME NEW c \in truth', c.ts <= UpTo(r) PROVE c \in truth
  <2> SUFFICES ASSUME Place(c) \in doubt, c.ts \in Nat, Gap(c.ts) = 0 PROVE FALSE
    BY <1>1
  <2>1. InTime(c.ts, r.time, r.inclusive)
    BY <1>2, <1>3, RangeIs
  <2>2. Place(c).ts = c.ts
    BY DEF Place
  <2> QED
    BY <2>1, <2>2 DEF Settled
<1> DEFINE A == {c \in truth' : /\ c.row = row /\ c.col = col
                                /\ Millisecond(r.start) <= c.ts /\ c.ts <= UpTo(r)}
           B == {c \in truth : /\ c.row = row /\ c.col = col
                               /\ Millisecond(r.start) <= c.ts /\ c.ts <= UpTo(r)}
<1>4. A = B
  BY <1>1, <1>3
<1> HIDE DEF A, B
<1>5. First(A) = First(B)
  BY <1>4
<1> QED
  BY <1>5 DEF AsOfBetween, First, A, B

LEMMA SettledStays ==
    ASSUME UNCHANGED storeVars, NEW r
    PROVE  /\ Settled(r)' <=> Settled(r)
           /\ \A n : ValuesOf(r, n)' = ValuesOf(r, n)
<1>1. backend' = backend /\ doubt' = doubt /\ truth' = truth
  BY DEF storeVars
<1> QED
  BY <1>1, Zenon DEF Settled, InTime, _get_time_range_filter, _fetch_rows_by_range,
        time_predicate, ValuesOf, AsOfBetween, First, UpTo, ColumnOf, Millisecond

\* A call without doubt has the values of its time in the rows it has read, and
\* in its answer.
Finds(r) ==
    /\ r.pc = "reading" => Settled(r) /\ \A n \in DOMAIN r.got : r.got[n] \in ValuesOf(r, n)
    /\ r.pc \in {"done", "failed"} /\ ~Climbs(r) =>
          \A n \in DOMAIN r.at : r.at[n] \in ValuesOf(r, n)

AnswerInv == \A d \in Readers : clean[d] => Finds(read[d])

\* The rows of a read, taken into a call that is without doubt.
LEMMA RowsFound ==
    ASSUME StoreInv, NEW r, ReadInv(r), r.pc = "reading", Finds(r), NEW S \in SUBSET r.todo,
           NEW f \in [S -> Ids],
           \A n \in S : f[n] \in ReadRow(n, ColumnOf(r.method), r.start, r.time, r.inclusive),
           NEW q, q = WithRows(r, S, f)
    PROVE  Finds(q)
<1>0. IsCall(r) /\ Settled(r) /\ \A n \in DOMAIN r.got : r.got[n] \in ValuesOf(r, n)
  BY DEF ReadInv, Finds
<1>1. Taken(r, S, f, q)
  BY <1>0, WithRowsIs
<1>2. \A n \in S : f[n] \in ValuesOf(r, n)
  <2> SUFFICES ASSUME NEW n \in S PROVE f[n] \in ValuesOf(r, n)
    OBVIOUS
  <2>1. ReadRow(n, ColumnOf(r.method), r.start, r.time, r.inclusive)
           = AsOfBetween(n, ColumnOf(r.method), Millisecond(r.start), UpTo(r))
    BY <1>0, SettledReads
  <2> QED
    BY <2>1 DEF ValuesOf
<1>3. \A n \in DOMAIN q.got : q.got[n] \in ValuesOf(r, n)
  BY <1>0, <1>1, <1>2 DEF Taken
<1>4. \A n : ValuesOf(q, n) = ValuesOf(r, n)
  BY <1>1 DEF ValuesOf, UpTo, Taken
<1>5. Settled(q)
  BY <1>0, <1>1 DEF Settled, Taken
<1>6. q.pc = "reading"
  BY <1>1 DEF Taken
<1> QED
  BY <1>3, <1>4, <1>5, <1>6 DEF Finds

\* And with the turn that the last rows end.
LEMMA TurnFinds ==
    ASSUME NEW q, ReadInv(q), q.pc = "reading", Finds(q), NEW t, t = Turn(q)
    PROVE  Finds(t)
<1>0. Settled(q) /\ \A n \in DOMAIN q.got : q.got[n] \in ValuesOf(q, n)
  BY DEF Finds
<1>1. /\ t.method = q.method /\ t.start = q.start /\ t.time = q.time
      /\ t.inclusive = q.inclusive
      /\ q.todo = {} => DOMAIN t.got = {}
      /\ q.todo = {} /\ ~Climbs(q) => t.pc = "done" /\ t.at = [n \in DOMAIN q.at |-> q.got[n]]
  BY TurnKeeps
<1>2. q.todo # {} => t = q
  BY TurnForms
<1>3. \A n : ValuesOf(t, n) = ValuesOf(q, n)
  BY <1>1 DEF ValuesOf, UpTo
<1>4. Settled(t)
  BY <1>0, <1>1 DEF Settled
<1>5. Climbs(t) <=> Climbs(q)
  BY <1>1 DEF Climbs
<1>6. CASE q.todo # {}
  BY <1>2, <1>6
<1>7. CASE q.todo = {} /\ Climbs(q)
  BY <1>1, <1>4, <1>5, <1>7 DEF Finds
<1>8. CASE q.todo = {} /\ ~Climbs(q)
  <2>1. \A n \in DOMAIN q.at : n \in DOMAIN q.got
    BY <1>8 DEF ReadInv
  <2>2. t.pc = "done" /\ \A n \in DOMAIN t.at : t.at[n] \in ValuesOf(t, n)
    BY <1>0, <1>1, <1>3, <1>8, <2>1
  <2> QED
    BY <2>2 DEF Finds
<1> QED
  BY <1>6, <1>7, <1>8

LEMMA AnswerInit == Init => AnswerInv
  BY DEF Init, AnswerInv, Finds, IdleCall

\* A call without doubt stays so while the store takes a step, or loses its mark.
LEMMA StoreKeepsFound ==
    ASSUME StoreInv, [StoreNext]_storeVars, NEW r, IsCall(r), r.pc = "reading", Finds(r),
           Settled(r)'
    PROVE  Finds(r)'
<1>1. Settled(r)
  BY DEF Finds
<1>2. \A n : ValuesOf(r, n)' = ValuesOf(r, n)
  BY <1>1, SameMoment DEF ValuesOf, ColumnOf, UpTo, Millisecond
<1> QED
  BY <1>2 DEF Finds

LEMMA NothingFound ==
    ASSUME NEW r, Settled(r), DOMAIN r.got = {}, ~Climbs(r) => r.pc = "reading"
    PROVE  Finds(r)
  BY DEF Finds

LEMMA UnchangedFinds ==
    ASSUME UNCHANGED storeVars, NEW r
    PROVE  Finds(r)' <=> Finds(r)
<1>1. /\ Settled(r)' <=> Settled(r)
      /\ \A n : ValuesOf(r, n)' = ValuesOf(r, n)
  BY SettledStays
<1> QED
  BY <1>1 DEF Finds, Climbs

LEMMA IdleFinds == Finds(IdleCall)
  BY DEF Finds, IdleCall

LEMMA AnswerNext == StoreInv /\ ReadsInv /\ AnswerInv /\ [Next]_vars => AnswerInv'
<1> SUFFICES ASSUME StoreInv, ReadsInv, AnswerInv, [Next]_vars,
                    NEW d \in Readers, clean'[d], NEW r, r = read'[d]
             PROVE  Finds(r)'
  BY DEF AnswerInv
<1>1. ASSUME NEW e \in Readers, Begin(e) PROVE Finds(r)'
  <2>1. PICK q : Start(e, q) /\ DOMAIN q.got = {} /\ (~Climbs(q) => q.pc = "reading")
    BY <1>1, BeginForms DEF Fresh
  <2>2. CASE d = e
    <3>1. r = q /\ Settled(q)
      BY <2>1, <2>2 DEF Start, ReadsInv
    <3>2. Finds(r)
      BY <2>1, <3>1, NothingFound
    <3> QED
      BY <2>1, <3>2, UnchangedFinds DEF Start
  <2>3. CASE d # e
    <3>1. r = read[d] /\ clean[d]
      BY <2>1, <2>3 DEF Start, ReadsInv
    <3>2. Finds(r)
      BY <3>1 DEF AnswerInv
    <3> QED
      BY <2>1, <3>2, UnchangedFinds DEF Start
  <2> QED
    BY <2>2, <2>3
<1>2. ASSUME NEW e \in Readers, Read(e) PROVE Finds(r)'
  <2>1. PICK q, S, f : Takes(e, q, S, f)
    BY <1>2, ReadForms
  <2>2. UNCHANGED storeVars /\ clean[d]
    BY <2>1 DEF Takes
  <2>3. CASE d = e
    <3>1. r = Turn(WithRows(q, S, f)) /\ q = read[d]
      BY <2>1, <2>3 DEF Takes, ReadsInv
    <3>2. Finds(q) /\ ReadInv(q)
      BY <2>2, <3>1 DEF AnswerInv, ReadsInv
    <3> DEFINE t == WithRows(q, S, f)
    <3>3. Finds(t)
      BY <2>1, <2>3, <3>1, <3>2, RowsFound DEF Takes
    <3>4. ReadInv(t) /\ t.pc = "reading"
      BY <2>1, <2>3, <3>1, <3>2, WithRowsInv DEF Takes
    <3>5. r = Turn(t)
      BY <3>1
    <3> HIDE DEF t
    <3>6. Finds(r)
      BY <3>3, <3>4, <3>5, TurnFinds
    <3> QED
      BY <2>2, <3>6, UnchangedFinds
  <2>4. CASE d # e
    <3>1. r = read[d]
      BY <2>1, <2>4 DEF Takes, ReadsInv
    <3>2. Finds(r)
      BY <2>2, <3>1 DEF AnswerInv
    <3> QED
      BY <2>2, <3>2, UnchangedFinds
  <2> QED
    BY <2>3, <2>4
<1>3. ASSUME NEW e \in Readers, Return(e) PROVE Finds(r)'
  <2>1. UNCHANGED storeVars /\ (r = IdleCall \/ (r = read[d] /\ clean[d]))
    BY <1>3 DEF Return, ReadsInv
  <2>2. Finds(r)
    BY <2>1, IdleFinds DEF AnswerInv
  <2> QED
    BY <2>1, <2>2, UnchangedFinds
<1>4. CASE Store
  <2>1. /\ StoreNext
        /\ r = IF read[d].pc = "reading" THEN read[d] ELSE IdleCall
        /\ read[d].pc = "reading" => clean[d] /\ Settled(read[d])'
    BY <1>4 DEF Store
  <2>2. CASE read[d].pc = "reading"
    <3>1. r = read[d] /\ clean[d] /\ Finds(r) /\ IsCall(r)
      BY <2>1, <2>2 DEF AnswerInv, ReadsInv, ReadInv
    <3>2. Settled(r)'
      <4>1. clean'[d] => Settled(read[d])'
        BY <2>1, <2>2
      <4> QED
        BY <1>4, <2>2, <3>1 DEF Store, Settled
    <3> QED
      BY <2>1, <2>2, <3>1, <3>2, StoreKeepsFound
  <2>3. CASE read[d].pc # "reading"
    BY <2>1, <2>3 DEF Finds, IdleCall
  <2> QED
    BY <2>2, <2>3
<1>5. CASE UNCHANGED vars
  <2>1. UNCHANGED storeVars /\ r = read[d] /\ clean[d]
    BY <1>5 DEF vars
  <2>2. Finds(r)
    BY <2>1 DEF AnswerInv
  <2> QED
    BY <2>1, <2>2, UnchangedFinds
<1> QED
  BY <1>1, <1>2, <1>3, <1>4, <1>5 DEF Next

LEMMA ReadsAlways == Spec => []ReadsInv
  BY ReadsInit, ReadsNext, PTL DEF Spec

LEMMA AnswersAlways == Spec => []AnswerInv
<1>1. Spec => []StoreInv
  BY StoreAlways, ReadsOverStore, PTL
<1> QED
  BY <1>1, AnswerInit, AnswerNext, ReadsAlways, PTL DEF Spec

\* read_node and read_nodes return the versions of one moment: the newest ones from
\* the millisecond of start_time on and up to that of end_time, or before it,
\* though other requests get in between the rows, on each backend.
THEOREM ReadsOfOneMoment == Spec => []ReadAsOf
<1>1. ReadsInv /\ AnswerInv => ReadAsOf
  <2> SUFFICES ASSUME ReadsInv, AnswerInv, NEW d \in Readers, Answered(d, "read_nodes"),
                      NEW n \in DOMAIN read[d].at
               PROVE  read[d].at[n] \in
                        AsOfBetween(n, "Parent", read[d].start - Gap(read[d].start),
                                    read[d].time - Gap(read[d].time)
                                      - (IF read[d].inclusive THEN 0 ELSE 1))
    BY DEF ReadAsOf
  <2>1. read[d].at[n] \in ValuesOf(read[d], n)
    BY DEF Answered, AnswerInv, Finds, Climbs
  <2>2. read[d].method = "read_nodes"
    BY DEF Answered
  <2> QED
    BY <2>1, <2>2 DEF ValuesOf, UpTo, ColumnOf, Millisecond
<1> QED
  BY <1>1, ReadsAlways, AnswersAlways, PTL

\* is_latest_roots tells of each root whether an edit up to the time stamp had
\* replaced it.
THEOREM LatestOfOneMoment == Spec => []LatestAsOf
<1>1. ReadsInv /\ AnswerInv => LatestAsOf
  <2> SUFFICES ASSUME ReadsInv, AnswerInv, NEW d \in Readers, Answered(d, "is_latest_roots"),
                      NEW n \in DOMAIN read[d].at
               PROVE  read[d].at[n] \in AsOf(n, "NewParent", read[d].time)
    BY DEF LatestAsOf
  <2>1. read[d].at[n] \in ValuesOf(read[d], n) /\ read[d].method = "is_latest_roots"
    BY DEF Answered, AnswerInv, Finds, Climbs
  <2>2. /\ read[d].start = 0 /\ read[d].inclusive = TRUE /\ Gap(read[d].time) = 0
        /\ read[d].time \in Nat
    BY <2>1, CellStoreConstants DEF ReadsInv, ReadInv, IsCall, Timed, Times
  <2>3. Millisecond(read[d].start) = 0 /\ UpTo(read[d]) = read[d].time
    BY <2>2 DEF Millisecond, UpTo, Gap
  <2> QED
    BY <2>1, <2>3 DEF ValuesOf, AsOf, ColumnOf
<1> QED
  BY <1>1, ReadsAlways, AnswersAlways, PTL

-----------------------------------------------------------------------------
(* The way up.  RootAsOf is a recursive function; the way from n at a time   *)
(* is its value, a function on the layers, and the least layer at which two  *)
(* ways would differ, or one would not exist, is what an induction needs.    *)

LEMMA Least ==
    ASSUME NEW T, T \subseteq Nat, T # {}
    PROVE  \E k \in T : \A j \in T : k <= j
<1>1. PICK k \in T : \A j \in T : <<j, k>> \notin OpToRel(<, Nat)
  BY NatLessThanWellFounded, WFMin
<1>2. \A j \in T : ~(j < k)
  BY <1>1 DEF OpToRel
<1> QED
  BY <1>2

ParentAsOf(m, time) == CHOOSE p \in AsOf(m, "Parent", time) : TRUE

Up(m, time, stop, stays) ==
    IF Layer[m] >= stop \/ (ParentAsOf(m, time) = NoNode /\ stays)
    THEN m ELSE ParentAsOf(m, time)

IsWay(w, top, n, time, stop, stays) ==
    w = [k \in 0..top |-> IF k = 0 THEN n ELSE Up(w[k - 1], time, stop, stays)]

\* A way from n ends at v; and it comes by v, not later than at the layer of v.
EndsAt(n, time, stop, stays, v) ==
    \E w : IsWay(w, LayerCount, n, time, stop, stays) /\ w[LayerCount] = v

ComesBy(n, time, stop, stays, v) ==
    \E w : /\ IsWay(w, LayerCount, n, time, stop, stays)
           /\ \E k \in 0..LayerCount : w[k] = v /\ (v = NoNode \/ k <= Layer[v])

LEMMA WayExists ==
    ASSUME NEW n, NEW time, NEW stop, NEW stays, NEW top \in Nat
    PROVE  \E w : IsWay(w, top, n, time, stop, stays)
<1> DEFINE Is(w, j) == IsWay(w, j, n, time, stop, stays)
           None == {j \in Nat : \A w : ~Is(w, j)}
<1> SUFFICES ASSUME top \in None PROVE FALSE
  OBVIOUS
<1>1. PICK k \in None : \A j \in None : k <= j
  <2>1. None # {} /\ None \subseteq Nat
    OBVIOUS
  <2> HIDE DEF None
  <2> QED
    BY <2>1, Least
<1>2. k # 0
  <2> SUFFICES ASSUME k = 0 PROVE FALSE
    OBVIOUS
  <2> DEFINE w == [i \in {0} |-> n]
  <2>1. Is(w, 0)
    BY DEF IsWay
  <2> HIDE DEF w, Is
  <2> QED
    BY <1>1, <2>1
<1>3. PICK w : Is(w, k - 1)
  <2>1. k - 1 \in Nat /\ k - 1 \notin None
    BY <1>1, <1>2
  <2> HIDE DEF Is
  <2> QED
    BY <2>1
<1> DEFINE v == [i \in 0..k |-> IF i = 0 THEN n ELSE Up(w[i - 1], time, stop, stays)]
<1>4. \A i \in 0..(k - 1) : v[i] = w[i]
  BY <1>2, <1>3 DEF IsWay
<1>5. \A i \in 0..k : i # 0 => i - 1 \in 0..(k - 1)
  BY <1>2
<1>6. \A i \in 0..k : i # 0 => v[i - 1] = w[i - 1]
  BY <1>4, <1>5
<1>7. Is(v, k)
  BY <1>6 DEF IsWay
<1> HIDE DEF v, Is
<1> QED
  BY <1>1, <1>7

LEMMA OneWay ==
    ASSUME NEW n, NEW time, NEW stop, NEW stays, NEW v, NEW w,
           IsWay(v, LayerCount, n, time, stop, stays),
           IsWay(w, LayerCount, n, time, stop, stays)
    PROVE  \A k \in 0..LayerCount : v[k] = w[k]
<1>0. LayerCount \in Nat
  BY RootReadsConstants
<1> DEFINE Differ == {k \in 0..LayerCount : v[k] # w[k]}
<1> SUFFICES ASSUME Differ # {} PROVE FALSE
  OBVIOUS
<1>1. PICK k \in Differ : \A j \in Differ : k <= j
  <2>1. Differ \subseteq Nat
    BY <1>0
  <2> HIDE DEF Differ
  <2> QED
    BY <2>1, Least
<1>2. k # 0
  BY <1>0, <1>1 DEF IsWay
<1>3. k - 1 \in 0..LayerCount /\ v[k - 1] = w[k - 1]
  BY <1>0, <1>1, <1>2
<1>4. v[k] = Up(v[k - 1], time, stop, stays) /\ w[k] = Up(w[k - 1], time, stop, stays)
  BY <1>0, <1>1, <1>2 DEF IsWay
<1> QED
  BY <1>1, <1>3, <1>4

\* RootAsOf is where the way ends.
LEMMA RootIsEnd ==
    ASSUME NEW n, NEW time, NEW stop, NEW stays, NEW v, EndsAt(n, time, stop, stays, v)
    PROVE  RootAsOf(n, time, stop, stays) = v
<1>0. LayerCount \in Nat /\ LayerCount \in 0..LayerCount
  BY RootReadsConstants
<1> DEFINE u == CHOOSE w : IsWay(w, LayerCount, n, time, stop, stays)
<1>1. IsWay(u, LayerCount, n, time, stop, stays)
  BY <1>0, WayExists
<1>2. RootAsOf(n, time, stop, stays) = u[LayerCount]
  BY DEF RootAsOf, IsWay, Up, ParentAsOf
<1> HIDE DEF u
<1>3. PICK w : IsWay(w, LayerCount, n, time, stop, stays) /\ w[LayerCount] = v
  BY DEF EndsAt
<1>4. u[LayerCount] = w[LayerCount]
  BY <1>0, <1>1, <1>3, OneWay
<1> QED
  BY <1>2, <1>3, <1>4

\* A way that does not go on from a node ends there.
LEMMA WayStays ==
    ASSUME NEW n, NEW time, NEW stop, NEW stays, NEW w, NEW k \in 0..LayerCount,
           IsWay(w, LayerCount, n, time, stop, stays), Up(w[k], time, stop, stays) = w[k]
    PROVE  EndsAt(n, time, stop, stays, w[k])
<1>0. LayerCount \in Nat
  BY RootReadsConstants
<1> DEFINE Left == {j \in 0..LayerCount : k <= j /\ w[j] # w[k]}
<1> SUFFICES ASSUME Left # {} PROVE FALSE
  BY <1>0 DEF EndsAt
<1>1. PICK j \in Left : \A i \in Left : j <= i
  <2>1. Left \subseteq Nat
    BY <1>0
  <2> HIDE DEF Left
  <2> QED
    BY <2>1, Least
<1>2. j # k
  BY <1>1
<1>3. j - 1 \in 0..LayerCount /\ k <= j - 1 /\ w[j - 1] = w[k]
  BY <1>0, <1>1, <1>2
<1>4. w[j] = Up(w[j - 1], time, stop, stays)
  BY <1>0, <1>1, <1>2 DEF IsWay
<1> QED
  BY <1>1, <1>3, <1>4

-----------------------------------------------------------------------------
(* What climbs by layer.                                                    *)

\* The parents that were returned as written are on higher layers, as in the edits.
UpInv == \A c \in truth : c.col = "Parent" => Layer[c.row] < Layer[c.val]

LEMMA UpInit == StoreInit => UpInv
  BY ParentsAbove DEF StoreInit, UpInv, CellOf

LEMMA UpNext == StoreInv /\ UpInv /\ [StoreNext]_storeVars => UpInv'
<1> SUFFICES ASSUME StoreInv, UpInv, [StoreNext]_storeVars PROVE UpInv'
  OBVIOUS
<1>1. TypeInv /\ TypeOK
  BY DEF StoreInv, TypeInv
<1>2. CASE ReturnWrite
  <2>1. call # Idle /\ EditSound
    BY <1>1, <1>2, RunningFacts DEF ReturnWrite, Running
  <2>2. edit \in DOMAIN Edits
    <3>1. edit \in 1..Len(Edits)
      BY <1>1, <2>1, ScopeOf DEF Scope
    <3> QED
      BY <3>1, CellStoreConstants
  <2>3. \A c \in EditCells : c.col = "Parent" => Layer[c.row] < Layer[c.val]
    BY <2>2, ParentsAbove DEF EditCells, CellOf
  <2> QED
    BY <1>2, <2>3 DEF ReturnWrite, UpInv
<1>3. CASE UNCHANGED truth
  BY <1>3 DEF UpInv
<1>4. ReturnWrite \/ UNCHANGED truth
  <2>1. StoreNext => ReturnWrite \/ UNCHANGED truth
    BY <1>1, StepForms DEF Writes, SameEdit, Begins, Serves, Skips, GoesOn, Resends, Raises,
                           ServesLate, ReturnDelete
  <2> QED
    BY <2>1 DEF storeVars
<1> QED
  BY <1>2, <1>3, <1>4

\* A place has one version, and 0 has none.
LEMMA OneValue ==
    ASSUME StoreInv, NEW m, NEW col, NEW time, NEW v \in AsOf(m, col, time)
    PROVE  /\ v \in Ids
           /\ \A w \in AsOf(m, col, time) : w = v
           /\ m = NoNode => v = NoNode
           /\ v # NoNode => \E c \in truth : c.row = m /\ c.col = col /\ c.val = v
<1> DEFINE S == {c \in truth : c.row = m /\ c.col = col /\ 0 <= c.ts /\ c.ts <= time}
<1>0. AsOf(m, col, time) = First(S)
  BY DEF AsOf, AsOfBetween
<1>1. S \subseteq truth /\ \A c \in S : c.row = m /\ c.col = col
  OBVIOUS
<1>2. TruthInv /\ truth \subseteq Cells /\ \A c \in truth : c.ts \in Nat
  BY DEF StoreInv, TypeInv, TypeOK, ReturnInv, StampInv, Whole
<1> HIDE DEF S
<1>3. CASE S = {}
  BY <1>0, <1>3 DEF First, Ids
<1>4. CASE S # {}
  <2>1. First(S) = {c.val : c \in {x \in S : \A y \in S : y.ts <= x.ts}}
    BY <1>4 DEF First
  <2>2. PICK c \in S : v = c.val /\ \A y \in S : y.ts <= c.ts
    BY <1>0, <2>1
  <2>3. ASSUME NEW w \in AsOf(m, col, time) PROVE w = v
    <3>1. PICK d \in S : w = d.val /\ \A y \in S : y.ts <= d.ts
      BY <1>0, <2>1
    <3>2. c.ts = d.ts
      BY <1>1, <1>2, <2>2, <3>1
    <3>3. Place(c) = Place(d)
      BY <1>1, <3>2 DEF Place
    <3> QED
      BY <1>1, <1>2, <2>2, <3>1, <3>3 DEF TruthInv
  <2>4. c \in truth /\ c.row = m /\ c.col = col
    BY <1>1
  <2>5. c.val \in Nodes /\ c.row \in Nodes
    BY <1>2, <2>4 DEF Cells
  <2>6. m # NoNode
    BY <2>4, <2>5, RootReadsConstants
  <2> QED
    BY <2>2, <2>3, <2>4, <2>5, <2>6 DEF Ids
<1> QED
  BY <1>3, <1>4

\* A step up from where a way has come to.
StepsUp(n, time, stop, stays, m, v) ==
    /\ v = NoNode /\ stays => EndsAt(n, time, stop, stays, m)
    /\ v = NoNode /\ ~stays => /\ ComesBy(n, time, stop, stays, v)
                               /\ EndsAt(n, time, stop, stays, v)
    /\ v # NoNode => /\ ComesBy(n, time, stop, stays, v)
                     /\ m # NoNode /\ Layer[m] < Layer[v]

LEMMA StepUp ==
    ASSUME StoreInv, UpInv, NEW n, NEW time, NEW stop \in 1..LayerCount, NEW stays \in BOOLEAN,
           NEW m \in Ids, ComesBy(n, time, stop, stays, m), Layer[m] < stop,
           NEW v \in AsOf(m, "Parent", time)
    PROVE  StepsUp(n, time, stop, stays, m, v)
<1>0. LayerCount \in Nat /\ Layer[m] \in 0..LayerCount /\ Layer[NoNode] = 0
  BY RootReadsConstants DEF Ids
<1>1. PICK w : /\ IsWay(w, LayerCount, n, time, stop, stays)
               /\ \E k \in 0..LayerCount : w[k] = m /\ (m = NoNode \/ k <= Layer[m])
  BY DEF ComesBy
<1>2. PICK k \in 0..LayerCount : w[k] = m /\ (m = NoNode \/ k <= Layer[m])
  BY <1>1
<1>3. v \in Ids /\ ParentAsOf(m, time) = v /\ (m = NoNode => v = NoNode)
  BY OneValue DEF ParentAsOf
<1>4. ~(Layer[m] >= stop)
  BY <1>0
<1>5. Up(m, time, stop, stays) = IF v = NoNode /\ stays THEN m ELSE v
  BY <1>3, <1>4 DEF Up
<1>6. CASE v = NoNode /\ stays
  BY <1>1, <1>2, <1>5, <1>6, WayStays DEF StepsUp
<1>7. CASE m = NoNode /\ ~stays
  BY <1>1, <1>2, <1>3, <1>5, <1>7, WayStays DEF ComesBy, StepsUp
<1>8. ASSUME m # NoNode, ~(v = NoNode /\ stays)
      PROVE  /\ k + 1 \in 0..LayerCount /\ w[k + 1] = v
             /\ v # NoNode => Layer[m] < Layer[v] /\ k + 1 <= Layer[v]
             /\ ComesBy(n, time, stop, stays, v)
  <2>1. k + 1 \in 0..LayerCount
    BY <1>0, <1>2, <1>8
  <2>2. w[k + 1] = v
    BY <1>0, <1>1, <1>2, <1>5, <1>8, <2>1 DEF IsWay
  <2>3. v # NoNode => Layer[m] < Layer[v] /\ k + 1 <= Layer[v]
    <3> SUFFICES ASSUME v # NoNode PROVE Layer[m] < Layer[v] /\ k + 1 <= Layer[v]
      OBVIOUS
    <3>1. Layer[m] < Layer[v]
      BY OneValue DEF UpInv
    <3>2. Layer[v] \in 0..LayerCount
      BY <1>3, RootReadsConstants DEF Ids
    <3> QED
      BY <1>0, <1>2, <1>8, <3>1, <3>2
  <2> QED
    BY <1>1, <2>1, <2>2, <2>3 DEF ComesBy
<1>9. ASSUME m # NoNode, v = NoNode, ~stays PROVE EndsAt(n, time, stop, stays, v)
  <2>1. k + 1 \in 0..LayerCount /\ w[k + 1] = v
    BY <1>8, <1>9
  <2>2. Up(v, time, stop, stays) = v
    <3>1. AsOf(v, "Parent", time) # {} => ParentAsOf(v, time) = v
      BY <1>9, OneValue DEF ParentAsOf
    <3>2. AsOf(v, "Parent", time) = {NoNode}
      <4>1. \A c \in truth : c.row # NoNode
        BY RootReadsConstants DEF StoreInv, TypeInv, TypeOK, Cells
      <4> QED
        BY <1>9, <4>1 DEF AsOf, AsOfBetween, First
    <3> QED
      BY <3>1, <3>2 DEF Up
  <2> QED
    BY <1>1, <2>1, <2>2, WayStays
<1> QED
  BY <1>3, <1>6, <1>7, <1>8, <1>9 DEF StepsUp

\* At its last layer a climb is at its end.
LEMMA ClimbEnds ==
    ASSUME NEW n, NEW time, NEW stop, NEW stays, NEW v, ComesBy(n, time, stop, stays, v),
           Layer[v] >= stop
    PROVE  EndsAt(n, time, stop, stays, v)
<1>1. PICK w : /\ IsWay(w, LayerCount, n, time, stop, stays)
               /\ \E k \in 0..LayerCount : w[k] = v
  BY DEF ComesBy
<1>2. PICK k \in 0..LayerCount : w[k] = v
  BY <1>1
<1>3. Up(w[k], time, stop, stays) = w[k]
  BY <1>2 DEF Up
<1>4. EndsAt(n, time, stop, stays, w[k])
  BY <1>1, <1>3, WayStays
<1> QED
  BY <1>2, <1>4

\* Every climb begins at its node.
LEMMA ClimbBegins ==
    ASSUME NEW n \in Ids, NEW time, NEW stop, NEW stays
    PROVE  ComesBy(n, time, stop, stays, n)
<1>1. LayerCount \in Nat /\ Layer[n] \in Nat /\ 0 \in 0..LayerCount /\ 0 <= Layer[n]
  BY RootReadsConstants DEF Ids
<1>2. PICK w : IsWay(w, LayerCount, n, time, stop, stays)
  BY <1>1, WayExists
<1>3. w[0] = n
  BY <1>1, <1>2 DEF IsWay
<1> QED
  BY <1>1, <1>2, <1>3 DEF ComesBy

-----------------------------------------------------------------------------
(* Climbs of one moment.                                                    *)

Stays(r) == r.method = "get_root"

\* All nodes that a call climbs from have come by where they are; a round of
\* get_roots, which counts them, is not above a node that still climbs.
OnWay(r, at, round) ==
    \A n \in DOMAIN at :
        /\ Stays(r) => ComesBy(n, r.time, r.stop, TRUE, at[n])
        /\ ~Stays(r) => ComesBy(n, r.time, r.stop, FALSE, at[n])
        /\ Layer[at[n]] >= r.stop \/ at[n] = NoNode \/ round <= Layer[at[n]]

\* An answer of get_root or get_roots.
IsAnswer(r, at, pc) ==
    /\ Stays(r) => pc = "done" /\ \A n \in DOMAIN at : EndsAt(n, r.time, r.stop, TRUE, at[n])
    /\ ~Stays(r) =>
          \/ /\ pc = "failed" /\ ~r.zero
             /\ \E n \in DOMAIN at : EndsAt(n, r.time, r.stop, FALSE, NoNode)
          \/ /\ pc = "done"
             /\ \A n \in DOMAIN at : EndsAt(n, r.time, r.stop, FALSE, at[n])
             /\ ~r.zero => \A n \in DOMAIN at : at[n] # NoNode

Climbed(r) ==
    Climbs(r) =>
        /\ r.pc = "reading" => OnWay(r, r.at, IF Stays(r) THEN 0 ELSE r.round)
        /\ r.pc \in {"done", "failed"} => IsAnswer(r, r.at, r.pc)

\* What a climb is to find is the parent at its time stamp.
LEMMA ClimbValues ==
    ASSUME NEW r, ReadInv(r), Climbs(r), NEW m
    PROVE  ValuesOf(r, m) = AsOf(m, "Parent", r.time)
<1>1. /\ r.start = 0 /\ r.inclusive = TRUE /\ Gap(r.time) = 0 /\ r.time \in Nat
      /\ r.method # "is_latest_roots"
  BY CellStoreConstants DEF ReadInv, IsCall, Timed, Times, Climbs
<1>2. Millisecond(r.start) = 0 /\ UpTo(r) = r.time
  BY <1>1 DEF Millisecond, UpTo, Gap
<1> QED
  BY <1>1, <1>2 DEF ValuesOf, AsOf, ColumnOf

LEMMA RootTurnClimbs ==
    ASSUME StoreInv, UpInv, NEW r, ReadInv(r), r.pc = "reading", r.todo = {},
           r.method = "get_root", Finds(r), Climbed(r), NEW t, t = RootTurn(r)
    PROVE  Climbed(t)
<1> DEFINE n == CHOOSE m \in DOMAIN r.at : TRUE
           parent == r.got[r.at[n]]
           at == [r.at EXCEPT ![n] = parent]
           q == [r EXCEPT !.at = [@ EXCEPT ![n] = parent], !.todo = {parent},
                          !.got = IdleCall.got]
<1>0. IsCall(r) /\ Climbs(r) /\ Stays(r) /\ r.stop \in 1..LayerCount
  BY DEF ReadInv, Climbs, Stays, IsCall
<1>1. PICK m : DOMAIN r.at = {m} /\ m \in Climbing(r.at, r.stop)
  BY DEF ReadInv
<1>2. n = m
  BY <1>1
<1> HIDE DEF n
<1>3. r.at[n] \in DOMAIN r.got /\ r.at[n] \in Ids /\ Layer[r.at[n]] < r.stop
  BY <1>0, <1>1, <1>2 DEF ReadInv, Climbing, IsCall
<1>4. parent \in AsOf(r.at[n], "Parent", r.time)
  BY <1>0, <1>3, ClimbValues DEF Finds
<1>5. t = IF parent = NoNode THEN Finish(r, r.at, "done")
          ELSE IF Layer[parent] >= r.stop THEN Finish(r, at, "done") ELSE q
  BY DEF RootTurn, n
<1>6. DOMAIN at = {n} /\ at[n] = parent /\ DOMAIN r.at = {n}
  BY <1>1, <1>2
<1>7. /\ q.pc = "reading" /\ q.at = at /\ q.method = r.method /\ q.time = r.time
      /\ q.stop = r.stop
  BY <1>0 DEF IsCall
<1> HIDE DEF parent, at, q
<1>8. ComesBy(n, r.time, r.stop, TRUE, r.at[n])
  BY <1>0, <1>6 DEF Climbed, OnWay
<1>9. /\ parent = NoNode => EndsAt(n, r.time, r.stop, TRUE, r.at[n])
      /\ parent # NoNode => ComesBy(n, r.time, r.stop, TRUE, parent)
  <2>1. StepsUp(n, r.time, r.stop, TRUE, r.at[n], parent)
    BY <1>0, <1>3, <1>4, <1>8, StepUp
  <2> QED
    BY <2>1 DEF StepsUp
<1>10. parent \in Ids
  BY <1>4, OneValue
<1>11. CASE parent = NoNode
  <2>1. /\ t.pc = "done" /\ t.at = r.at /\ t.method = r.method /\ t.time = r.time
        /\ t.stop = r.stop
    BY <1>0, <1>5, <1>11, FinishIs
  <2>2. Stays(t)
    BY <1>0, <2>1 DEF Stays
  <2> QED
    BY <1>6, <1>9, <1>11, <2>1, <2>2 DEF Climbed, IsAnswer
<1>12. CASE parent # NoNode /\ Layer[parent] >= r.stop
  <2>1. /\ t.pc = "done" /\ t.at = at /\ t.method = r.method /\ t.time = r.time
        /\ t.stop = r.stop
    BY <1>0, <1>5, <1>12, FinishIs
  <2>2. Stays(t)
    BY <1>0, <2>1 DEF Stays
  <2>3. EndsAt(n, r.time, r.stop, TRUE, parent)
    BY <1>9, <1>12, ClimbEnds
  <2> QED
    BY <1>6, <2>1, <2>2, <2>3 DEF Climbed, IsAnswer
<1>13. CASE parent # NoNode /\ ~(Layer[parent] >= r.stop)
  <2>1. t = q /\ Stays(q) /\ Climbs(q)
    BY <1>0, <1>5, <1>7, <1>13 DEF Stays, Climbs
  <2>2. 0 <= Layer[parent]
    BY <1>10, RootReadsConstants DEF Ids
  <2>3. OnWay(q, q.at, 0)
    BY <1>6, <1>7, <1>9, <1>13, <2>1, <2>2 DEF OnWay
  <2> QED
    BY <1>7, <2>1, <2>3 DEF Climbed
<1> QED
  BY <1>11, <1>12, <1>13

LEMMA RootsTurnClimbs ==
    ASSUME StoreInv, UpInv, NEW r, ReadInv(r), r.pc = "reading", r.todo = {},
           r.method = "get_roots", Finds(r), Climbed(r), NEW t, t = RootsTurn(r)
    PROVE  Climbed(t)
<1> DEFINE found == [n \in DOMAIN r.at |->
                       IF n \in Climbing(r.at, r.stop) THEN r.got[r.at[n]] ELSE r.at[n]]
           missing == \E n \in Climbing(r.at, r.stop) : r.got[r.at[n]] = NoNode
           next == Climbing(found, r.stop)
           result == IF \E n \in next : found[n] # NoNode THEN "failed" ELSE "done"
           q == [r EXCEPT !.at = found, !.todo = {found[n] : n \in next},
                          !.got = IdleCall.got, !.round = @ + 1]
           End(n, v) == EndsAt(n, r.time, r.stop, FALSE, v)
           By(n, v) == ComesBy(n, r.time, r.stop, FALSE, v)
<1>0. /\ IsCall(r) /\ Climbs(r) /\ ~Stays(r) /\ r.stop \in 1..LayerCount
      /\ r.round \in 0..LayerCount /\ LayerCount \in Nat
  BY RootReadsConstants DEF ReadInv, Climbs, Stays, IsCall
<1>1. t = IF missing /\ ~r.zero THEN Finish(r, r.at, "failed")
          ELSE IF next = {} \/ r.round = r.stop THEN Finish(r, found, result)
          ELSE q
  BY DEF RootsTurn
<1>2. /\ q.pc = "reading" /\ q.at = found /\ q.method = r.method /\ q.time = r.time
      /\ q.stop = r.stop /\ q.round = r.round + 1
  BY <1>0 DEF IsCall
<1>3. DOMAIN found = DOMAIN r.at
  BY SMTT(30)
<1>4. ASSUME NEW n \in DOMAIN r.at
      PROVE  /\ By(n, found[n]) /\ found[n] \in Ids
             /\ n \in next <=> Layer[found[n]] < r.stop
             /\ n \notin next => End(n, found[n]) /\ found[n] # NoNode
             /\ Layer[found[n]] >= r.stop \/ found[n] = NoNode \/ r.round + 1 <= Layer[found[n]]
             /\ found[n] = NoNode => End(n, NoNode) /\ n \in Climbing(r.at, r.stop)
                                     /\ r.got[r.at[n]] = NoNode
  <2> DEFINE m == r.at[n]
  <2>1. m \in Ids /\ By(n, m) /\ (Layer[m] >= r.stop \/ m = NoNode \/ r.round <= Layer[m])
    BY <1>0, <1>4 DEF Climbed, OnWay, IsCall
  <2>2. \A i \in Ids : Layer[i] \in 0..LayerCount
    BY RootReadsConstants DEF Ids
  <2>3. Layer[NoNode] = 0
    BY RootReadsConstants
  <2>4. n \in Climbing(r.at, r.stop) <=> Layer[m] < r.stop
    BY <1>4 DEF Climbing
  <2>5. n \in next <=> Layer[found[n]] < r.stop
    BY <1>3, <1>4 DEF Climbing
  <2>6. CASE n \in Climbing(r.at, r.stop)
    <3> DEFINE v == r.got[m]
    <3>1. found[n] = v
      BY <1>4, <2>6
    <3>2. m \in DOMAIN r.got
      BY <1>0, <2>6 DEF ReadInv
    <3>3. v \in AsOf(m, "Parent", r.time)
      BY <1>0, <3>2, ClimbValues DEF Finds
    <3>4. v \in Ids
      BY <3>3, OneValue
    <3> HIDE DEF v, m, found, next
    <3>5. /\ v = NoNode => By(n, v) /\ End(n, v)
          /\ v # NoNode => By(n, v) /\ m # NoNode /\ Layer[m] < Layer[v]
      <4>1. StepsUp(n, r.time, r.stop, FALSE, m, v)
        BY <1>0, <2>1, <2>4, <2>6, <3>3, StepUp
      <4> QED
        BY <4>1 DEF StepsUp
    <3>6. ~(Layer[m] >= r.stop)
      BY <1>0, <2>1, <2>2, <2>4, <2>6
    <3>7. v # NoNode => r.round + 1 <= Layer[v]
      BY <1>0, <2>1, <2>2, <3>4, <3>5, <3>6
    <3>8. n \notin next => End(n, v) /\ v # NoNode
      <4> SUFFICES ASSUME n \notin next PROVE End(n, v) /\ v # NoNode
        OBVIOUS
      <4>1. Layer[v] >= r.stop
        BY <1>0, <2>2, <2>5, <3>1, <3>4
      <4>2. By(n, v)
        BY <3>5
      <4>3. End(n, v)
        BY <4>1, <4>2, ClimbEnds
      <4>4. v # NoNode
        BY <1>0, <2>3, <4>1
      <4> QED
        BY <4>3, <4>4
    <3> QED
      BY <2>5, <2>6, <3>1, <3>4, <3>5, <3>7, <3>8 DEF v, m
  <2>7. CASE n \notin Climbing(r.at, r.stop)
    <3>1. found[n] = m
      BY <1>4, <2>7
    <3> HIDE DEF m, found, next
    <3>2. Layer[m] >= r.stop
      BY <1>0, <2>1, <2>2, <2>4, <2>7
    <3>3. End(n, m)
      BY <2>1, <3>2, ClimbEnds
    <3>4. m # NoNode
      BY <1>0, <2>3, <3>2
    <3> QED
      BY <2>1, <2>5, <3>1, <3>2, <3>3, <3>4
  <2> QED
    BY <2>6, <2>7
<1>5. next \subseteq DOMAIN r.at /\ Climbing(r.at, r.stop) \subseteq DOMAIN r.at
  BY DEF Climbing
<1>6. \A n \in Climbing(r.at, r.stop) : found[n] = r.got[r.at[n]]
  BY <1>5
<1>7. \A n \in next : Layer[found[n]] < r.stop
  BY DEF Climbing
<1>8. /\ (\A n \in next : found[n] = NoNode) => result = "done"
      /\ missing <=> \E n \in Climbing(r.at, r.stop) : r.got[r.at[n]] = NoNode
  OBVIOUS
<1> HIDE DEF found, missing, next, result, q, End, By
<1>9. CASE missing /\ ~r.zero
  <2>1. /\ t.pc = "failed" /\ t.at = r.at /\ t.method = r.method /\ t.time = r.time
        /\ t.stop = r.stop /\ t.zero = r.zero
    BY <1>0, <1>1, <1>9, FinishIs
  <2>2. PICK n \in DOMAIN r.at : End(n, NoNode)
    BY <1>4, <1>5, <1>6, <1>8, <1>9
  <2>3. ~Stays(t)
    BY <1>0, <2>1 DEF Stays
  <2> QED
    BY <1>9, <2>1, <2>2, <2>3 DEF Climbed, IsAnswer, End
<1>10. CASE ~(missing /\ ~r.zero) /\ (next = {} \/ r.round = r.stop)
  <2>1. /\ t.pc = result /\ t.at = found /\ t.method = r.method /\ t.time = r.time
        /\ t.stop = r.stop /\ t.zero = r.zero
    BY <1>0, <1>1, <1>10, FinishIs
  <2>2. ASSUME NEW n \in next PROVE found[n] = NoNode
    <3>1. found[n] \in Ids /\ (Layer[found[n]] >= r.stop \/ found[n] = NoNode
                               \/ r.round + 1 <= Layer[found[n]])
      BY <1>4, <1>5
    <3>2. Layer[found[n]] \in 0..LayerCount
      BY <3>1, RootReadsConstants DEF Ids
    <3> QED
      BY <1>0, <1>7, <1>10, <3>1, <3>2
  <2>3. result = "done"
    BY <1>8, <2>2
  <2>4. \A n \in DOMAIN found : End(n, found[n])
    BY <1>3, <1>4, <2>2
  <2>5. ~r.zero => \A n \in DOMAIN found : found[n] # NoNode
    BY <1>3, <1>4, <1>8, <1>10
  <2>6. ~Stays(t)
    BY <1>0, <2>1 DEF Stays
  <2> QED
    BY <2>1, <2>3, <2>4, <2>5, <2>6 DEF Climbed, IsAnswer, End
<1>11. CASE ~(missing /\ ~r.zero) /\ ~(next = {} \/ r.round = r.stop)
  <2>1. t = q /\ ~Stays(q) /\ Climbs(q)
    BY <1>0, <1>1, <1>2, <1>11 DEF Stays, Climbs
  <2>2. OnWay(q, found, r.round + 1)
    BY <1>2, <1>3, <1>4, <2>1 DEF OnWay, By
  <2> QED
    BY <1>2, <2>1, <2>2 DEF Climbed
<1> QED
  BY <1>9, <1>10, <1>11

LEMMA TurnClimbs ==
    ASSUME StoreInv, UpInv, NEW q, ReadInv(q), q.pc = "reading", Finds(q), Climbed(q),
           NEW t, t = Turn(q)
    PROVE  Climbed(t)
<1>1. CASE q.todo # {}
  BY <1>1, TurnForms
<1>2. CASE q.todo = {} /\ q.method = "get_root"
  BY <1>2, TurnForms, RootTurnClimbs
<1>3. CASE q.todo = {} /\ q.method = "get_roots"
  BY <1>3, TurnForms, RootsTurnClimbs
<1>4. CASE q.todo = {} /\ ~Climbs(q)
  <2>1. t.method = q.method
    BY TurnKeeps
  <2> QED
    BY <1>4, <2>1 DEF Climbs, Climbed
<1> QED
  BY <1>1, <1>2, <1>3, <1>4 DEF Climbs

LEMMA RowsClimb ==
    ASSUME NEW r, NEW S, NEW f, NEW q, Taken(r, S, f, q), Climbed(r)
    PROVE  Climbed(q)
<1>1. /\ q.pc = r.pc /\ q.method = r.method /\ q.time = r.time /\ q.stop = r.stop
      /\ q.zero = r.zero /\ q.at = r.at /\ q.round = r.round
  BY DEF Taken
<1>2. (Climbs(q) <=> Climbs(r)) /\ (Stays(q) <=> Stays(r))
  BY <1>1 DEF Climbs, Stays
<1> QED
  BY <1>1, <1>2 DEF Climbed, OnWay, IsAnswer

LEMMA FreshClimbs ==
    ASSUME NEW r, Fresh(r)
    PROVE  Climbed(r)
<1> SUFFICES ASSUME Climbs(r) PROVE Climbed(r)
  BY DEF Climbed
<1>1. /\ IsCall(r) /\ r.round = 0 /\ \A n \in DOMAIN r.at : r.at[n] = n
      /\ r.pc = IF Climbing(r.at, r.stop) = {} THEN "done" ELSE "reading"
  BY DEF Fresh, ReadInv
<1>2. /\ \A n \in DOMAIN r.at : n \in Ids /\ Layer[n] \in 0..LayerCount /\ n # NoNode
      /\ r.stop \in 1..LayerCount /\ LayerCount \in Nat
  BY <1>1, RootReadsConstants DEF IsCall, Ids
<1>3. \A n \in DOMAIN r.at : /\ ComesBy(n, r.time, r.stop, TRUE, n)
                            /\ ComesBy(n, r.time, r.stop, FALSE, n)
  BY <1>2, ClimbBegins
<1>4. CASE r.pc = "reading"
  <2>1. \A n \in DOMAIN r.at : 0 <= Layer[n]
    BY <1>2
  <2>2. OnWay(r, r.at, 0)
    BY <1>1, <1>3, <2>1 DEF OnWay
  <2> QED
    BY <1>1, <1>4, <2>2 DEF Climbed
<1>5. CASE r.pc = "done"
  <2>1. Climbing(r.at, r.stop) = {}
    BY <1>1, <1>5
  <2>2. \A n \in DOMAIN r.at : Layer[n] >= r.stop
    BY <1>1, <1>2, <2>1 DEF Climbing
  <2>3. \A n \in DOMAIN r.at : EndsAt(n, r.time, r.stop, TRUE, n)
    BY <1>3, <2>2, ClimbEnds
  <2>4. \A n \in DOMAIN r.at : EndsAt(n, r.time, r.stop, FALSE, n)
    BY <1>3, <2>2, ClimbEnds
  <2>5. IsAnswer(r, r.at, "done")
    BY <1>1, <1>2, <2>3, <2>4 DEF IsAnswer
  <2> QED
    BY <1>5, <2>5 DEF Climbed
<1> QED
  BY <1>1, <1>4, <1>5

\* Ways are made of parents at their time: while these stay, the ways do.
SameParents(time) == \A m : AsOf(m, "Parent", time)' = AsOf(m, "Parent", time)

LEMMA WaysStay ==
    ASSUME NEW n, NEW time, NEW stop, NEW stays, NEW v, SameParents(time)
    PROVE  /\ ComesBy(n, time, stop, stays, v)' <=> ComesBy(n, time, stop, stays, v)
           /\ EndsAt(n, time, stop, stays, v)' <=> EndsAt(n, time, stop, stays, v)
<1>1. \A m : ParentAsOf(m, time)' = ParentAsOf(m, time)
  BY DEF SameParents, ParentAsOf
<1>2. \A m : Up(m, time, stop, stays)' = Up(m, time, stop, stays)
  BY <1>1 DEF Up
<1>3. \A w : IsWay(w, LayerCount, n, time, stop, stays)'
               <=> IsWay(w, LayerCount, n, time, stop, stays)
  BY <1>2 DEF IsWay
<1> QED
  BY <1>3 DEF ComesBy, EndsAt

LEMMA ClimbStays ==
    ASSUME NEW r, SameParents(r.time)
    PROVE  Climbed(r)' <=> Climbed(r)
<1> DEFINE time == r.time
           stop == r.stop
<1>1. \A n, v : ComesBy(n, time, stop, TRUE, v)' <=> ComesBy(n, time, stop, TRUE, v)
  BY WaysStay
<1>2. \A n, v : ComesBy(n, time, stop, FALSE, v)' <=> ComesBy(n, time, stop, FALSE, v)
  BY WaysStay
<1>3. \A n, v : EndsAt(n, time, stop, TRUE, v)' <=> EndsAt(n, time, stop, TRUE, v)
  BY WaysStay
<1>4. \A n, v : EndsAt(n, time, stop, FALSE, v)' <=> EndsAt(n, time, stop, FALSE, v)
  BY WaysStay
<1> QED
  BY <1>1, <1>2, <1>3, <1>4 DEF Climbed, Climbs, Stays, OnWay, IsAnswer

LEMMA ClimbUnchanged ==
    ASSUME UNCHANGED storeVars, NEW r
    PROVE  Climbed(r)' <=> Climbed(r)
<1>1. SameParents(r.time)
  BY DEF storeVars, SameParents, AsOf, AsOfBetween, First
<1> QED
  BY <1>1, ClimbStays

LEMMA StoreKeepsParents ==
    ASSUME StoreInv, [StoreNext]_storeVars, NEW r, ReadInv(r), Settled(r), Climbs(r)
    PROVE  SameParents(r.time)
<1>1. \A m : ValuesOf(r, m)' = ValuesOf(r, m)
  BY SameMoment DEF ReadInv, ValuesOf, ColumnOf, UpTo, Millisecond
<1>2. \A m : ValuesOf(r, m) = AsOf(m, "Parent", r.time)
  BY ClimbValues
<1>3. \A m : ValuesOf(r, m)' = AsOf(m, "Parent", r.time)'
  <2>1. /\ Millisecond(r.start) = 0 /\ UpTo(r) = r.time /\ ColumnOf(r.method) = "Parent"
    <3>1. /\ r.start = 0 /\ r.inclusive = TRUE /\ Gap(r.time) = 0 /\ r.time \in Nat
          /\ r.method # "is_latest_roots"
      BY CellStoreConstants DEF ReadInv, IsCall, Timed, Times, Climbs
    <3> QED
      BY <3>1 DEF Millisecond, UpTo, Gap, ColumnOf
  <2> QED
    BY <2>1 DEF ValuesOf, AsOf, Millisecond, UpTo, ColumnOf
<1> QED
  BY <1>1, <1>2, <1>3 DEF SameParents

LEMMA StoreKeepsClimb ==
    ASSUME StoreInv, [StoreNext]_storeVars, NEW r, ReadInv(r), Settled(r), Climbed(r)
    PROVE  Climbed(r)'
<1>1. CASE Climbs(r)
  BY <1>1, StoreKeepsParents, ClimbStays
<1>2. CASE ~Climbs(r)
  BY <1>2 DEF Climbed, Climbs
<1> QED
  BY <1>1, <1>2

ClimbedInv == \A d \in Readers : clean[d] => Climbed(read[d])

LEMMA ClimbInit == Init => ClimbedInv
  BY DEF Init, ClimbedInv, Climbed, Climbs, IdleCall

LEMMA ClimbNext ==
    StoreInv /\ UpInv /\ ReadsInv /\ AnswerInv /\ ClimbedInv /\ [Next]_vars => ClimbedInv'
<1> SUFFICES ASSUME StoreInv, UpInv, ReadsInv, AnswerInv, ClimbedInv, [Next]_vars,
                    NEW d \in Readers, clean'[d], NEW r, r = read'[d]
             PROVE  Climbed(r)'
  BY DEF ClimbedInv
<1>0. ASSUME UNCHANGED storeVars, r = read[d], clean[d] PROVE Climbed(r)'
  BY <1>0, ClimbUnchanged DEF ClimbedInv
<1>1. ASSUME NEW e \in Readers, Begin(e) PROVE Climbed(r)'
  <2>1. PICK q : Start(e, q) /\ Fresh(q)
    BY <1>1, BeginForms
  <2>2. CASE d = e
    <3>1. r = q
      BY <2>1, <2>2 DEF Start, ReadsInv
    <3>2. Climbed(r)
      BY <2>1, <3>1, FreshClimbs
    <3> QED
      BY <2>1, <3>2, ClimbUnchanged DEF Start
  <2>3. CASE d # e
    BY <1>0, <2>1, <2>3 DEF Start, ReadsInv
  <2> QED
    BY <2>2, <2>3
<1>2. ASSUME NEW e \in Readers, Read(e) PROVE Climbed(r)'
  <2>1. PICK q, S, f : Takes(e, q, S, f)
    BY <1>2, ReadForms
  <2>2. UNCHANGED storeVars /\ clean[d]
    BY <2>1 DEF Takes
  <2>3. CASE d = e
    <3> DEFINE t == WithRows(q, S, f)
    <3>1. r = Turn(t) /\ q = read[d]
      BY <2>1, <2>3 DEF Takes, ReadsInv
    <3>2. Finds(q) /\ Climbed(q) /\ ReadInv(q)
      BY <2>2, <3>1 DEF AnswerInv, ClimbedInv, ReadsInv
    <3>3. Finds(t)
      BY <2>1, <2>3, <3>1, <3>2, RowsFound DEF Takes
    <3>4. ReadInv(t) /\ t.pc = "reading"
      BY <2>1, <2>3, <3>1, <3>2, WithRowsInv DEF Takes
    <3>5. Taken(q, S, f, t)
      BY <3>2, WithRowsIs DEF ReadInv
    <3> HIDE DEF t
    <3>6. Climbed(t)
      BY <3>2, <3>5, RowsClimb
    <3>7. Climbed(r)
      BY <3>1, <3>3, <3>4, <3>6, TurnClimbs
    <3> QED
      BY <2>2, <3>7, ClimbUnchanged
  <2>4. CASE d # e
    BY <1>0, <2>1, <2>2, <2>4 DEF Takes, ReadsInv
  <2> QED
    BY <2>3, <2>4
<1>3. ASSUME NEW e \in Readers, Return(e) PROVE Climbed(r)'
  <2>1. UNCHANGED storeVars /\ (r = IdleCall \/ (r = read[d] /\ clean[d]))
    BY <1>3 DEF Return, ReadsInv
  <2>2. Climbed(IdleCall)
    BY DEF Climbed, Climbs, IdleCall
  <2> QED
    BY <1>0, <2>1, <2>2, ClimbUnchanged
<1>4. CASE Store
  <2>1. /\ StoreNext
        /\ r = IF read[d].pc = "reading" THEN read[d] ELSE IdleCall
        /\ read[d].pc = "reading" => clean[d]
    BY <1>4 DEF Store
  <2>2. CASE read[d].pc = "reading"
    <3>1. r = read[d] /\ Climbed(r) /\ ReadInv(r) /\ Settled(r)
      BY <2>1, <2>2 DEF ClimbedInv, AnswerInv, ReadsInv, Finds
    <3> QED
      BY <2>1, <3>1, StoreKeepsClimb
  <2>3. CASE read[d].pc # "reading"
    BY <2>1, <2>3 DEF Climbed, Climbs, IdleCall
  <2> QED
    BY <2>2, <2>3
<1>5. CASE UNCHANGED vars
  BY <1>0, <1>5 DEF vars
<1> QED
  BY <1>1, <1>2, <1>3, <1>4, <1>5 DEF Next

\* get_root and get_roots return the roots of one moment, that of their time stamp,
\* though they read layer after layer, and row after row, while edits write new
\* parents; get_roots raises exactly when a node has no root then, and it was not
\* told to return 0.
THEOREM RootsOfOneMoment == Spec => []RootsAsOf
<1>1. ReadsInv /\ ClimbedInv => RootsAsOf
  <2> SUFFICES ASSUME ReadsInv, ClimbedInv, NEW d \in Readers, NEW r, r = read[d]
               PROVE  /\ Answered(d, "get_root") =>
                            /\ r.pc = "done"
                            /\ \A n \in DOMAIN r.at :
                                  r.at[n] = RootAsOf(n, r.time, r.stop, TRUE)
                      /\ Answered(d, "get_roots") =>
                            IF \E n \in DOMAIN r.at :
                                  RootAsOf(n, r.time, r.stop, FALSE) = NoNode /\ ~r.zero
                            THEN r.pc = "failed"
                            ELSE /\ r.pc = "done"
                                 /\ \A n \in DOMAIN r.at :
                                       r.at[n] = RootAsOf(n, r.time, r.stop, FALSE)
    BY DEF RootsAsOf
  <2>1. ASSUME Answered(d, "get_root")
        PROVE  r.pc = "done" /\ \A n \in DOMAIN r.at : r.at[n] = RootAsOf(n, r.time, r.stop, TRUE)
    <3>1. IsAnswer(r, r.at, r.pc) /\ Stays(r)
      BY <2>1 DEF Answered, ClimbedInv, Climbed, Climbs, Stays
    <3>2. r.pc = "done" /\ \A n \in DOMAIN r.at : EndsAt(n, r.time, r.stop, TRUE, r.at[n])
      BY <3>1 DEF IsAnswer
    <3>3. \A n, v : EndsAt(n, r.time, r.stop, TRUE, v) => RootAsOf(n, r.time, r.stop, TRUE) = v
      BY RootIsEnd
    <3> QED
      BY <3>2, <3>3
  <2>2. ASSUME Answered(d, "get_roots")
        PROVE  \/ /\ r.pc = "failed" /\ ~r.zero
                  /\ \E n \in DOMAIN r.at : RootAsOf(n, r.time, r.stop, FALSE) = NoNode
               \/ /\ r.pc = "done"
                  /\ \A n \in DOMAIN r.at : r.at[n] = RootAsOf(n, r.time, r.stop, FALSE)
                  /\ ~r.zero => \A n \in DOMAIN r.at : r.at[n] # NoNode
    <3>1. IsAnswer(r, r.at, r.pc) /\ ~Stays(r)
      BY <2>2 DEF Answered, ClimbedInv, Climbed, Climbs, Stays
    <3>2. \A n, v : EndsAt(n, r.time, r.stop, FALSE, v) => RootAsOf(n, r.time, r.stop, FALSE) = v
      BY RootIsEnd
    <3> QED
      BY <3>1, <3>2 DEF IsAnswer
  <2> QED
    BY <2>1, <2>2
<1>2. Spec => []StoreInv /\ []UpInv
  <2>1. Init => UpInv
    BY UpInit DEF Init
  <2> QED
    BY StoreAlways, ReadsOverStore, UpInit, UpNext, PTL DEF StoreSpec
<1> QED
  BY <1>1, <1>2, ClimbInit, ClimbNext, ReadsAlways, AnswersAlways, PTL DEF Spec

-----------------------------------------------------------------------------
(* The roots that climbs come to are the latest ones.  What was returned as  *)
(* written up to a time is what some number of whole edits leaves behind, and *)
(* a climb from a node in use stays among the nodes in use.                  *)

\* Of cells of which some are later than all the others, the first ones are among these.
LEMMA FirstOfLater ==
    ASSUME NEW A, NEW B, NEW s \in Nat, \A c \in A : c.ts \in Nat /\ c.ts < s,
           \A c \in B : c.ts = s
    PROVE  First(A \cup B) = IF B = {} THEN First(A) ELSE {c.val : c \in B}
<1>1. CASE B = {}
  <2>1. A \cup B = A
    BY <1>1
  <2> QED
    BY <1>1, <2>1
<1>2. CASE B # {}
  <2>1. {x \in A \cup B : \A y \in A \cup B : y.ts <= x.ts} = B
    BY <1>2
  <2>2. A \cup B # {}
    BY <1>2
  <2> QED
    BY <1>2, <2>1, <2>2 DEF First
<1> QED
  BY <1>1, <1>2

\* The table at a time is the one that the first edits leave behind, all of them if
\* the time is not before any cell's.
Looks(count, time) == \A row, col : AsOf(row, col, time) = ValueAfter(count, row, col)

EditsUpTo(time, count) ==
    /\ count \in 0..(edit - 1) /\ Looks(count, time)
    /\ (\A c \in truth : c.ts <= time) => count = edit - 1

HistoryInv == \A time \in Times : \E count : EditsUpTo(time, count)

LEMMA HistoryInit == StoreInit => HistoryInv
<1> SUFFICES ASSUME StoreInit, NEW time \in Times PROVE EditsUpTo(time, 0)
  BY DEF HistoryInv
<1>1. edit = 1 /\ truth = {CellOf(m, 0) : m \in Initial}
  BY DEF StoreInit
<1>2. \A c \in truth : 0 <= c.ts /\ c.ts <= time
  BY <1>1, CellStoreConstants DEF Times, CellOf
<1>3. CellsAfter(0) = truth
  BY <1>1 DEF CellsAfter
<1>4. ASSUME NEW row, NEW col PROVE AsOf(row, col, time) = ValueAfter(0, row, col)
  <2>1. {c \in truth : c.row = row /\ c.col = col /\ 0 <= c.ts /\ c.ts <= time}
          = {c \in CellsAfter(0) : c.row = row /\ c.col = col}
    BY <1>2, <1>3
  <2> QED
    BY <2>1 DEF AsOf, AsOfBetween, ValueAfter
<1> QED
  BY <1>1, <1>4 DEF EditsUpTo, Looks

\* An edit that returns comes after all that was returned before it.
LEMMA HistoryReturns == StoreInv /\ HistoryInv /\ ReturnWrite => HistoryInv'
<1> SUFFICES ASSUME StoreInv, HistoryInv, ReturnWrite, NEW time \in Times
             PROVE  \E count : EditsUpTo(time, count)'
  BY DEF HistoryInv
<1>1. /\ TypeInv /\ StampInv /\ call # Idle /\ EditSound
  BY RunningFacts DEF ReturnWrite, Running, StoreInv
<1>2. Scope
  BY <1>1, ScopeOf
<1>3. /\ truth' = truth \cup EditCells /\ edit' = edit + 1 /\ edit \in 1..Len(Edits)
      /\ \A c \in truth : c.ts \in Nat /\ c.ts < Stamp
      /\ \A c \in EditCells : c.ts = Stamp
      /\ Stamp \in Nat /\ time \in Nat
  BY <1>1, <1>2, StampIs, CellStoreConstants
  DEF ReturnWrite, StampInv, Whole, EditSound, Scope, TypeInv, Times
<1>4. EditCells # {}
  BY <1>1 DEF EditSound
<1>5. PICK count : EditsUpTo(time, count)
  BY DEF HistoryInv
<1>6. CASE time < Stamp
  <2>1. ASSUME NEW row, NEW col PROVE AsOf(row, col, time)' = AsOf(row, col, time)
    <3>1. {c \in truth' : c.row = row /\ c.col = col /\ 0 <= c.ts /\ c.ts <= time}
            = {c \in truth : c.row = row /\ c.col = col /\ 0 <= c.ts /\ c.ts <= time}
      BY <1>3, <1>6
    <3> QED
      BY <3>1 DEF AsOf, AsOfBetween, First
  <2>2. ~ \A c \in truth' : c.ts <= time
    BY <1>3, <1>4, <1>6
  <2>3. Looks(count, time)'
    BY <1>5, <2>1 DEF EditsUpTo, Looks, ValueAfter, CellsAfter, First
  <2>4. count \in 0..(edit' - 1)
    BY <1>3, <1>5 DEF EditsUpTo
  <2>5. EditsUpTo(time, count)'
    BY <2>2, <2>3, <2>4 DEF EditsUpTo
  <2> QED
    BY <2>5
<1>7. CASE ~(time < Stamp)
  <2>0. PICK n \in Nat : n = edit /\ n - 1 \in Nat
    BY <1>3
  <2>1. \A c \in truth : c.ts <= time
    BY <1>3, <1>7
  <2>2. Looks(n - 1, time)
    BY <1>5, <2>0, <2>1 DEF EditsUpTo
  <2>3. ASSUME NEW row, NEW col PROVE AsOf(row, col, time)' = ValueAfter(n, row, col)
    <3> DEFINE here(c) == c.row = row /\ c.col = col
               now == {CellOf(Edits[n][k], n) : k \in DOMAIN Edits[n]}
               A == {c \in truth : here(c) /\ 0 <= c.ts /\ c.ts <= time}
               B == {c \in EditCells : here(c)}
               C == {c \in CellsAfter(n - 1) : here(c)}
               D == {c \in now : here(c)}
    <3>1. AsOf(row, col, time)' = First(A \cup B)
      <4>1. {c \in truth' : c.row = row /\ c.col = col /\ 0 <= c.ts /\ c.ts <= time} = A \cup B
        BY <1>3, <1>7
      <4> HIDE DEF A, B
      <4> QED
        BY <4>1 DEF AsOf, AsOfBetween, First
    <3>2. ValueAfter(n, row, col) = First(C \cup D)
      <4>1. CellsAfter(n) = CellsAfter(n - 1) \cup now
        <5>1. 1..n = 1..(n - 1) \cup {n}
          BY <2>0
        <5> QED
          BY <5>1 DEF CellsAfter
      <4> HIDE DEF now
      <4>2. {c \in CellsAfter(n) : c.row = row /\ c.col = col} = C \cup D
        BY <4>1
      <4> QED
        BY <4>2 DEF ValueAfter
    <3>3. First(A) = First(C)
      <4>1. AsOf(row, col, time) = First(A)
        BY DEF AsOf, AsOfBetween
      <4>2. ValueAfter(n - 1, row, col) = First(C)
        BY DEF ValueAfter
      <4> QED
        BY <2>2, <4>1, <4>2 DEF Looks
    <3>4. First(A \cup B) = IF B = {} THEN First(A) ELSE {c.val : c \in B}
      <4>1. /\ \A c \in A : c.ts \in Nat /\ c.ts < Stamp
            /\ \A c \in B : c.ts = Stamp
        BY <1>3
      <4> HIDE DEF A, B
      <4> QED
        BY <1>3, <4>1, FirstOfLater
    <3>5. First(C \cup D) = IF D = {} THEN First(C) ELSE {c.val : c \in D}
      <4>1. /\ \A c \in C : c.ts \in Nat /\ c.ts < n
            /\ \A c \in D : c.ts = n
        BY <2>0 DEF CellsAfter, CellOf
      <4> HIDE DEF C, D
      <4> QED
        BY <4>1, FirstOfLater
    <3>6. {c.val : c \in B} = {c.val : c \in D}
      <4> DEFINE K == {k \in DOMAIN Edits[n] : Edits[n][k].row = row /\ Edits[n][k].col = col}
      <4>1. B = {CellOf(Edits[n][k], mutate_row(last)) : k \in K}
        <5>1. \A m, ts : CellOf(m, ts).row = m.row /\ CellOf(m, ts).col = m.col
          BY DEF CellOf
        <5> QED
          BY <2>0, <5>1 DEF EditCells
      <4>2. D = {CellOf(Edits[n][k], n) : k \in K}
        <5>1. \A m, ts : CellOf(m, ts).row = m.row /\ CellOf(m, ts).col = m.col
          BY DEF CellOf
        <5> QED
          BY <5>1
      <4>3. \A m, ts : CellOf(m, ts).val = m.val
        BY DEF CellOf
      <4> HIDE DEF B, D, K
      <4> QED
        BY <4>1, <4>2, <4>3
    <3>7. B = {} <=> D = {}
      BY <3>6
    <3> HIDE DEF A, B, C, D
    <3> QED
      BY <3>1, <3>2, <3>3, <3>4, <3>5, <3>6, <3>7
  <2>4. Looks(n, time)'
    BY <2>3 DEF Looks, ValueAfter, CellsAfter, First
  <2>5. n \in 0..(edit' - 1) /\ n = edit' - 1
    BY <1>3, <2>0
  <2>6. EditsUpTo(time, n)'
    BY <2>4, <2>5 DEF EditsUpTo
  <2> QED
    BY <2>6
<1> QED
  BY <1>6, <1>7

LEMMA HistoryNext == StoreInv /\ HistoryInv /\ [StoreNext]_storeVars => HistoryInv'
<1> SUFFICES ASSUME StoreInv, HistoryInv, [StoreNext]_storeVars, ~ReturnWrite PROVE HistoryInv'
  BY HistoryReturns
<1>1. UNCHANGED <<edit, truth>>
  <2>1. TypeOK
    BY DEF StoreInv, TypeInv
  <2>2. StoreNext => UNCHANGED <<edit, truth>>
    BY <2>1, StepForms DEF Writes, SameEdit, Begins, Serves, Skips, GoesOn, Resends, Raises,
                           ServesLate, ReturnDelete
  <2> QED
    BY <2>2 DEF storeVars
<1>2. \A time, count : EditsUpTo(time, count)' <=> EditsUpTo(time, count)
  BY <1>1 DEF EditsUpTo, Looks, AsOf, AsOfBetween, ValueAfter, CellsAfter, First
<1> QED
  BY <1>2 DEF HistoryInv

\* What an edit returned as written leaves of the edits before it: at each time the
\* table is what the first so many whole edits make of it, and never parts of edits.
THEOREM HistoryOfEdits == Spec => []HistoryInv
  BY HistoryInit, HistoryNext, StoreAlways, ReadsOverStore, PTL DEF StoreSpec

\* A read of several rows from the beginning of time on shows whole edits: all its rows
\* are as the first so many edits left them, never some as of before an edit
\* and others as of after it, though the rows are read one by one.
WholeEditsRead ==
    \A d \in Readers :
        LET r == read[d] IN
        /\ Answered(d, "read_nodes") \/ Answered(d, "is_latest_roots")
        /\ r.start = 0 /\ UpTo(r) >= 0
        => \E count \in 0..(edit - 1) :
              \A n \in DOMAIN r.at : r.at[n] \in ValueAfter(count, n, ColumnOf(r.method))

\* And so it is for every interleaving, on each backend.
THEOREM ReadsSeeWholeEdits == Spec => []WholeEditsRead
<1>1. ReadsInv /\ AnswerInv /\ HistoryInv => WholeEditsRead
  <2> SUFFICES ASSUME ReadsInv, AnswerInv, HistoryInv, NEW d \in Readers, NEW r, r = read[d],
                      Answered(d, "read_nodes") \/ Answered(d, "is_latest_roots"),
                      r.start = 0, UpTo(r) >= 0
               PROVE  \E count \in 0..(edit - 1) :
                         \A n \in DOMAIN r.at : r.at[n] \in ValueAfter(count, n, ColumnOf(r.method))
    BY DEF WholeEditsRead
  <2>1. \A n \in DOMAIN r.at : r.at[n] \in ValuesOf(r, n)
    BY DEF Answered, AnswerInv, Finds, Climbs
  <2>2. Millisecond(r.start) = 0
    BY DEF Millisecond, Gap
  <2>3. \A n : ValuesOf(r, n) = AsOf(n, ColumnOf(r.method), UpTo(r))
    BY <2>2 DEF ValuesOf, AsOf
  <2>4. UpTo(r) \in Times
    <3>1. IsCall(r) /\ MaxTime \in Nat
      BY CellStoreConstants DEF ReadsInv, ReadInv
    <3>2. r.time \in Times /\ r.inclusive \in BOOLEAN
      BY <3>1 DEF IsCall
    <3>3. r.time \in Nat /\ Millisecond(r.time) \in Times
      BY <3>1, <3>2, MillisecondInTimes DEF Times
    <3> QED
      BY <3>1, <3>3 DEF UpTo, Times
  <2>5. PICK count : EditsUpTo(UpTo(r), count)
    BY <2>4 DEF HistoryInv
  <2>6. \A n \in DOMAIN r.at : r.at[n] \in ValueAfter(count, n, ColumnOf(r.method))
    BY <2>1, <2>3, <2>5 DEF EditsUpTo, Looks
  <2> QED
    BY <2>5, <2>6 DEF EditsUpTo
<1>2. Spec => []StoreInv
  BY StoreAlways, ReadsOverStore, PTL
<1> QED
  BY <1>1, <1>2, HistoryOfEdits, ReadsAlways, AnswersAlways, PTL

\* The nodes S hold the climbs at a time.
Holds(S, time) ==
    Asked \subseteq S /\ \A n \in S : AsOf(n, "Parent", time) \subseteq S \cup {NoNode}

\* No cell in doubt is in the time of a climb, and it has not left such nodes.
Inside(at, S) == \A n \in DOMAIN at : Layer[n] < LayerCount => at[n] \in S \cup {NoNode}
Within(r) ==
    Climbs(r) /\ r.pc # "idle" =>
        Settled(r) /\ \A S : Holds(S, r.time) => Inside(r.at, S)

WithinInv == \A d \in Readers : clean[d] => Within(read[d])

\* Climbs begin at nodes that callers asked for.
LEMMA BeginAsks ==
    ASSUME NEW d \in Readers, ReadsInv, Begin(d), NEW r, r = read'[d], Climbs(r)
    PROVE  \A n \in DOMAIN r.at : n \in UNION (Queries["get_root"] \cup Queries["get_roots"])
<1> DEFINE A == UNION (Queries["get_root"] \cup Queries["get_roots"])
<1>0. \A q : Start(d, q) => r = q
  BY DEF Start, ReadsInv
<1>1. CASE get_root(d)
  <2>1. PICK n, time, stop :
          /\ n \in UNION Queries["get_root"]
          /\ r = Climb(Reading("get_root", {n}, 0, time, TRUE), stop, FALSE)
    BY <1>0, <1>1 DEF get_root
  <2>2. DOMAIN r.at = {n}
    BY <2>1 DEF Climb, Reading
  <2> QED
    BY <2>1, <2>2
<1>2. CASE get_roots(d)
  <2>1. PICK Q, time, stop, zero :
          /\ Q \in Queries["get_roots"]
          /\ r = Climb(Reading("get_roots", Q, 0, time, TRUE), stop, zero)
    BY <1>0, <1>2 DEF get_roots
  <2>2. DOMAIN r.at = Q
    BY <2>1 DEF Climb, Reading
  <2> QED
    BY <2>1, <2>2
<1>3. ~read_nodes(d)
  <2> SUFFICES ASSUME read_nodes(d) PROVE FALSE
    OBVIOUS
  <2>1. PICK Q, from, time, inclusive : r = Reading("read_nodes", Q, from, time, inclusive)
    BY <1>0 DEF read_nodes
  <2> QED
    BY <2>1 DEF Climbs, Reading
<1>4. ~is_latest_roots(d)
  <2> SUFFICES ASSUME is_latest_roots(d) PROVE FALSE
    OBVIOUS
  <2>1. PICK Q, time : r = Reading("is_latest_roots", Q, 0, time, TRUE)
    BY <1>0 DEF is_latest_roots
  <2> QED
    BY <2>1 DEF Climbs, Reading
<1> QED
  BY <1>1, <1>2, <1>3, <1>4 DEF Begin

\* A turn leaves a node where it is or takes it to the parent that was read.
LEMMA TurnMoves ==
    ASSUME NEW q, ReadInv(q), q.pc = "reading", Climbs(q), Finds(q), NEW t, t = Turn(q)
    PROVE  /\ DOMAIN t.at = DOMAIN q.at
           /\ \A n \in DOMAIN q.at :
                 t.at[n] = q.at[n] \/ t.at[n] \in AsOf(q.at[n], "Parent", q.time)
<1>0. IsCall(q) /\ \A m \in DOMAIN q.got : q.got[m] \in AsOf(m, "Parent", q.time)
  BY ClimbValues DEF ReadInv, Finds
<1>1. CASE q.todo # {}
  BY <1>1, TurnForms
<1>2. CASE q.todo = {} /\ q.method = "get_root"
  <2> DEFINE n == CHOOSE m \in DOMAIN q.at : TRUE
             parent == q.got[q.at[n]]
             at == [q.at EXCEPT ![n] = parent]
             on == [q EXCEPT !.at = [@ EXCEPT ![n] = parent], !.todo = {parent},
                             !.got = IdleCall.got]
  <2>1. PICK m : DOMAIN q.at = {m} /\ m \in Climbing(q.at, q.stop)
    BY <1>2 DEF ReadInv
  <2>2. n = m
    BY <2>1
  <2>3. q.at[n] \in DOMAIN q.got
    BY <1>2, <2>1, <2>2, SMTT(30) DEF ReadInv, Climbs
  <2>4. t \in {Finish(q, q.at, "done"), Finish(q, at, "done"), on}
    BY <1>2, TurnForms DEF RootTurn
  <2>5. on.at = at
    BY <1>0 DEF IsCall
  <2> HIDE DEF n, parent, on
  <2>6. t.at \in {q.at, at}
    BY <1>0, <2>4, <2>5, FinishIs
  <2>7. parent \in AsOf(q.at[n], "Parent", q.time)
    BY <1>0, <2>3 DEF parent
  <2> QED
    BY <2>1, <2>2, <2>6, <2>7
<1>3. CASE q.todo = {} /\ q.method = "get_roots"
  <2> DEFINE found == [n \in DOMAIN q.at |->
                         IF n \in Climbing(q.at, q.stop) THEN q.got[q.at[n]] ELSE q.at[n]]
             missing == \E n \in Climbing(q.at, q.stop) : q.got[q.at[n]] = NoNode
             next == Climbing(found, q.stop)
             result == IF \E n \in next : found[n] # NoNode THEN "failed" ELSE "done"
             todo == {found[n] : n \in next}
             on == [q EXCEPT !.at = found, !.todo = todo, !.got = IdleCall.got, !.round = @ + 1]
  <2>1. t \in {Finish(q, q.at, "failed"), Finish(q, found, result), on}
    BY <1>3, TurnForms DEF RootsTurn
  <2> HIDE DEF found, missing, next, result, todo
  <2>2. on.at = found
    BY <1>0 DEF IsCall
  <2> HIDE DEF on
  <2>3. t.at \in {q.at, found}
    BY <1>0, <2>1, <2>2, FinishIs
  <2>4. \A n \in Climbing(q.at, q.stop) : q.at[n] \in DOMAIN q.got
    BY <1>3 DEF ReadInv, Climbs
  <2>5. DOMAIN found = DOMAIN q.at /\ \A n \in DOMAIN q.at :
          found[n] = q.at[n] \/ found[n] \in AsOf(q.at[n], "Parent", q.time)
    BY <1>0, <2>4 DEF found
  <2> QED
    BY <2>3, <2>5, SMTT(30)
<1> QED
  BY <1>1, <1>2, <1>3 DEF Climbs

LEMMA TurnWithin ==
    ASSUME StoreInv, NEW q, ReadInv(q), q.pc = "reading", Finds(q), Within(q),
           NEW t, t = Turn(q)
    PROVE  Within(t)
<1> SUFFICES ASSUME Climbs(t) PROVE Within(t)
  BY DEF Within
<1>1. /\ t.method = q.method /\ t.time = q.time /\ t.inclusive = q.inclusive
  BY TurnKeeps
<1>2. Climbs(q) /\ Settled(t)
  BY <1>1 DEF Climbs, Finds, Settled
<1>3. ASSUME NEW S, Holds(S, q.time) PROVE Inside(t.at, S)
  <2> SUFFICES ASSUME NEW n \in DOMAIN t.at, Layer[n] < LayerCount
               PROVE  t.at[n] \in S \cup {NoNode}
    BY DEF Inside
  <2>1. /\ n \in DOMAIN q.at
        /\ t.at[n] = q.at[n] \/ t.at[n] \in AsOf(q.at[n], "Parent", q.time)
    BY <1>2, TurnMoves
  <2>2. q.at[n] \in S \cup {NoNode}
    BY <1>2, <1>3, <2>1 DEF Within, Inside
  <2>3. \A v \in AsOf(NoNode, "Parent", q.time) : v = NoNode
    BY OneValue
  <2> QED
    BY <1>3, <2>1, <2>2, <2>3 DEF Holds
<1> QED
  BY <1>1, <1>2, <1>3 DEF Within

LEMMA WithinUnchanged ==
    ASSUME UNCHANGED storeVars, NEW r
    PROVE  Within(r)' <=> Within(r)
<1>1. Settled(r)' <=> Settled(r)
  BY SettledStays
<1>2. \A S : Holds(S, r.time)' <=> Holds(S, r.time)
  BY DEF storeVars, Holds, Asked, AsOf, AsOfBetween, First
<1> QED
  BY <1>1, <1>2 DEF Within, Climbs, Inside

LEMMA StoreKeepsWithin ==
    ASSUME StoreInv, [StoreNext]_storeVars, NEW r, ReadInv(r), Within(r), Settled(r), Settled(r)'
    PROVE  Within(r)'
<1> SUFFICES ASSUME Climbs(r), r.pc # "idle" PROVE Within(r)'
  BY DEF Within, Climbs
<1>1. SameParents(r.time)
  BY StoreKeepsParents
<1>2. \A S : Holds(S, r.time)' <=> Holds(S, r.time)
  BY <1>1 DEF SameParents, Holds, Asked
<1> QED
  BY <1>2 DEF Within, Climbs, Inside

LEMMA WithinInit == Init => WithinInv
  BY DEF Init, WithinInv, Within, Climbs, IdleCall

LEMMA WithinNext ==
    StoreInv /\ ReadsInv /\ AnswerInv /\ WithinInv /\ [Next]_vars => WithinInv'
<1> SUFFICES ASSUME StoreInv, ReadsInv, AnswerInv, WithinInv, [Next]_vars,
                    NEW d \in Readers, clean'[d], NEW r, r = read'[d]
             PROVE  Within(r)'
  BY DEF WithinInv
<1>0. ASSUME UNCHANGED storeVars, r = read[d], clean[d] PROVE Within(r)'
  BY <1>0, WithinUnchanged DEF WithinInv
<1>1. ASSUME NEW e \in Readers, Begin(e) PROVE Within(r)'
  <2>1. PICK q : Start(e, q) /\ Fresh(q)
    BY <1>1, BeginForms
  <2>2. CASE d = e
    <3>1. r = q /\ Settled(q)
      BY <2>1, <2>2 DEF Start, ReadsInv
    <3>2. ASSUME Climbs(r), NEW S, Holds(S, r.time) PROVE Inside(r.at, S)
      <4>1. \A n \in DOMAIN r.at : r.at[n] = n
        BY <2>1, <3>1, <3>2 DEF Fresh
      <4>2. \A n \in DOMAIN r.at : Layer[n] < LayerCount => n \in Asked
        BY <1>1, <2>2, <3>2, BeginAsks DEF Asked
      <4> QED
        BY <3>2, <4>1, <4>2 DEF Holds, Inside
    <3>3. Within(r)
      BY <3>1, <3>2 DEF Within
    <3> QED
      BY <2>1, <3>3, WithinUnchanged DEF Start
  <2>3. CASE d # e
    BY <1>0, <2>1, <2>3 DEF Start, ReadsInv
  <2> QED
    BY <2>2, <2>3
<1>2. ASSUME NEW e \in Readers, Read(e) PROVE Within(r)'
  <2>1. PICK q, S, f : Takes(e, q, S, f)
    BY <1>2, ReadForms
  <2>2. UNCHANGED storeVars /\ clean[d]
    BY <2>1 DEF Takes
  <2>3. CASE d = e
    <3> DEFINE t == WithRows(q, S, f)
    <3>1. r = Turn(t) /\ q = read[d]
      BY <2>1, <2>3 DEF Takes, ReadsInv
    <3>2. Finds(q) /\ Within(q) /\ ReadInv(q)
      BY <2>2, <3>1 DEF AnswerInv, WithinInv, ReadsInv
    <3>3. Finds(t)
      BY <2>1, <2>3, <3>1, <3>2, RowsFound DEF Takes
    <3>4. ReadInv(t) /\ t.pc = "reading"
      BY <2>1, <2>3, <3>1, <3>2, WithRowsInv DEF Takes
    <3>5. Taken(q, S, f, t)
      BY <3>2, WithRowsIs DEF ReadInv
    <3> HIDE DEF t
    <3>6. Within(t)
      BY <3>2, <3>5 DEF Taken, Within, Climbs, Settled
    <3>7. Within(r)
      BY <3>1, <3>3, <3>4, <3>6, TurnWithin
    <3> QED
      BY <2>2, <3>7, WithinUnchanged
  <2>4. CASE d # e
    BY <1>0, <2>1, <2>2, <2>4 DEF Takes, ReadsInv
  <2> QED
    BY <2>3, <2>4
<1>3. ASSUME NEW e \in Readers, Return(e) PROVE Within(r)'
  <2>1. UNCHANGED storeVars /\ (r = IdleCall \/ (r = read[d] /\ clean[d]))
    BY <1>3 DEF Return, ReadsInv
  <2>2. Within(IdleCall)
    BY DEF Within, Climbs, IdleCall
  <2> QED
    BY <1>0, <2>1, <2>2, WithinUnchanged
<1>4. CASE Store
  <2>1. /\ StoreNext
        /\ r = IF read[d].pc = "reading" THEN read[d] ELSE IdleCall
        /\ read[d].pc = "reading" => clean[d] /\ Settled(read[d])'
    BY <1>4 DEF Store
  <2>2. CASE read[d].pc = "reading"
    <3>1. r = read[d] /\ clean[d] /\ Within(r) /\ ReadInv(r) /\ Settled(r)
      BY <2>1, <2>2 DEF WithinInv, AnswerInv, ReadsInv, Finds
    <3>2. Settled(r)'
      <4>1. clean'[d] => Settled(read[d])'
        BY <2>1, <2>2
      <4> QED
        BY <1>4, <2>2, <3>1 DEF Store, Settled
    <3> QED
      BY <2>1, <3>1, <3>2, StoreKeepsWithin
  <2>3. CASE read[d].pc # "reading"
    BY <2>1, <2>3 DEF Within, Climbs, IdleCall
  <2> QED
    BY <2>2, <2>3
<1>5. CASE UNCHANGED vars
  BY <1>0, <1>5 DEF vars
<1> QED
  BY <1>1, <1>2, <1>3, <1>4, <1>5 DEF Next

\* A root that get_root or get_roots climbed to is one that is_latest_roots calls the
\* latest at the same moment, whatever the interleaving of reads and writes, of an
\* application whose edits leave no node in use below a root that they replace.
THEOREM RootsAreLatest == EditsReplaceRoots /\ Spec => []RootIsLatest
<1> SUFFICES ASSUME EditsReplaceRoots PROVE Spec => []RootIsLatest
  OBVIOUS
<1>1. StoreInv /\ ReadsInv /\ HistoryInv /\ WithinInv => RootIsLatest
  <2> SUFFICES ASSUME StoreInv, ReadsInv, HistoryInv, WithinInv,
                      NEW d \in Readers, Answered(d, "get_root") \/ Answered(d, "get_roots"),
                      NEW r, r = read[d], NEW n \in DOMAIN r.at, Layer[n] < LayerCount,
                      NEW root, root = r.at[n], Layer[root] = LayerCount
               PROVE  ReadRow(root, "NewParent", 0, r.time, TRUE) = {NoNode}
    BY DEF RootIsLatest
  <2>1. Climbs(r) /\ ReadInv(r) /\ Within(r) /\ r.pc # "idle"
    BY DEF Answered, Climbs, ReadsInv, WithinInv
  <2>2. /\ IsCall(r) /\ r.start = 0 /\ r.inclusive = TRUE /\ Gap(r.time) = 0
        /\ r.time \in Times /\ r.time \in Nat
    BY <2>1, CellStoreConstants DEF ReadInv, Timed, Climbs, IsCall, Times
  <2>3. PICK count : EditsUpTo(r.time, count)
    BY <2>2 DEF HistoryInv
  <2>4. count \in 0..Len(Edits) /\ Looks(count, r.time)
    <3>1. edit \in 1..(Len(Edits) + 1) /\ Len(Edits) \in Nat
      BY CellStoreConstants DEF StoreInv, TypeInv, TypeOK
    <3> QED
      BY <2>3, <3>1 DEF EditsUpTo
  <2>5. PICK S : InUse(S, count)
    BY <2>4 DEF EditsReplaceRoots
  <2>6. Holds(S, r.time)
    BY <2>4, <2>5 DEF InUse, Looks, Holds
  <2>7. root \in S
    <3>1. root # NoNode
      BY RootReadsConstants
    <3> QED
      BY <2>1, <2>6, <3>1 DEF Within, Inside
  <2>8. AsOf(root, "NewParent", r.time) = {NoNode}
    BY <2>4, <2>5, <2>7 DEF InUse, Looks
  <2>9. ReadRow(root, "NewParent", r.start, r.time, r.inclusive)
          = AsOfBetween(root, "NewParent", Millisecond(r.start), UpTo(r))
    BY <2>1, <2>2, SettledReads DEF Within
  <2>10. Millisecond(r.start) = 0 /\ UpTo(r) = r.time
    BY <2>2 DEF Millisecond, UpTo, Gap
  <2> QED
    BY <2>2, <2>8, <2>9, <2>10 DEF AsOf
<1>2. Spec => []StoreInv
  BY StoreAlways, ReadsOverStore, PTL
<1>3. Spec => []WithinInv
  BY <1>2, WithinInit, WithinNext, ReadsAlways, AnswersAlways, PTL DEF Spec
<1> QED
  BY <1>1, <1>2, <1>3, HistoryOfEdits, ReadsAlways, PTL
=============================================================================
