# Verification of kvdbclient

TLA+ specifications of `src/kvdbclient`, their TLC instances, and TLAPS proofs.
kvdbclient is a client library over Google Bigtable, Apache HBase and VAST that
stores the nodes of a chunked graph. Several worker processes use one table
at the same time and coordinate only through it: by locks that are cells of the
locked rows, and by ids that come from counter cells. That coordination is the
core of what is modelled here, with the reads and writes that the time stamps of cells hold together, and the setup of the table itself.

Line numbers below are those of `src/kvdbclient/`; `PROJECT.json` maps every
definition to its lines and lists the hazards, the runs, the mutants and the theorems.

## 1. The system

| Component | State | Operations | Hard behaviour | Correct when |
|---|---|---|---|---|
| **Bigtable row locks** `bigtable/client.py` 230-400, `bigtable/utils.py` 87-250 | columns `Lock` (versioned cells, stamped by the client), `IndefiniteLock`, `NewParent` of a row | 11 lock / renew / unlock methods, each one `check_and_mutate_row` | the expiry cutoff and the stamp are client clock readings taken before the request; expired versions are never collected; a request may raise after it was applied; workers die | one holder per row; a lock goes away only by its owner or by time; an indefinite lock belongs to one operation; a superseded root is not locked |
| **HBase row locks** `hbase/client.py` 201-376, 553-620 | the same columns | the same methods, but as several REST requests: check-and-put, read, unconditional delete, check-and-delete | takeover of an expired cell and the rollback after the `IndefiniteLock` check are not atomic; no request has a deadline | the same |
| **Multi-root locking, guarded writes** `base.py` 112-121, 401-525 | locals of a call: roots, `lock_acquired`, try counter; the rows' locks | `lock_roots`, `lock_roots_indefinitely`, `renew_locks`, `write` | one thread per root, answers in any order, exceptions swallowed on unlock, tries, replaced roots | all roots or none; nothing left behind; another operation's lock survives a failed try; calls return |
| **Id generation** `base.py` 582-654, `_get_ids_range` of both clients | `Counter` cells: one per chunk, 256 per root chunk, one for operation ids | `create_node_ids`, `create_node_id`, `create_operation_id`, `set_max_node_id`, `get_max_node_id`, `get_max_operation_id` | a random counter per call; lost answers; counters read one by one; `set_max` adds | no id twice; the maximum covers what was issued; ids of a plain chunk increase |
| **Table setup** `base.py` 101-103, 203-267, `create_table`, `create_column_family`, `_delete_meta` of the three clients | the table, its families (VAST: a part of the meta), version row, meta row; `_table_meta` of each client, which its constructor may be given | `create_table`, `add_table_version`, `update_table_meta`, `create_column_family`, `read_table_meta` | several requests without a transaction; a second client, an exception or a crash in between; rows without a time stamp, stamped by clocks that differ; a put that is sent again | a table that was created has families, version and meta, and those of one creator; the meta survives an update; a call that nothing overlaps with takes effect |
| **Cell store** `base.py` 269-400, the reads, writes and deletes of the three clients | versioned cells | `mutate_row`, `write`, `read_node(s)`, `delete_cells`, `delete_meta` | retried puts, late requests, writes that fail half way, time ranges and their rounding, scanner batches, row version order of VAST | what was returned as written is stored, each cell as one version; a read at a time sees the newest version up to that time |
| **VAST backend** `vast/` | one SQL table per client table | the cell store; locks and ids raise `NotImplementedError` | writes as one transaction that appends rows, so that a repeated write leaves equal cells; read-modify-write of the list of families, if the meta is a dict | as the cell store; a write is stored whole or not |
| **Root extension** `extensions.py` | none; reads `Hierarchy.Parent` | `get_root(s)`, `is_latest_roots`, ... | many reads while edits write new parents | the roots are those of the time asked for |
| **Attributes, serializers, basetypes** | none | names and byte formats | - | round trips |
| **Client selection, configuration** `__init__.py`, ... | environment | - | - | - |

How they interact: an edit calls `lock_roots` on the roots it changes, which calls
`lock_root` / `unlock_root` of the backend from a thread pool; then `create_operation_id`
and `create_node_ids`; then `write(rows, root_ids, operation_id)`, which renews all
the locks and mutates the rows, among them the `NewParent` cell that
supersedes a root and that the lock filters look at. `lock_roots_indefinitely` guards the
write phase against a worker that dies in the middle. Nothing else is shared: there are
no callbacks and no messages between workers.

## 2. Modules

    RowLocks                 locks of rows without a clock
      ^ implemented by                  ^ implemented by, request by request
    LeaseLock                abstract   LockRoots    the multi-root calls
      ^ implemented by       lock
    BigtableLocks            the Bigtable requests

    HBaseLocks               the HBase requests           IdGen        ids and counters

    AtomicStore              abstract store of edits
      ^ implemented by
    CellStore                writes and deletes of cells, on the three backends
      ^ extended by
    RootReads                reads at a time and the root extension

    TableSetup               table, families, version and meta, on the three backends

    MC*.tla                  model values for TLC         *Proofs.tla  TLAPS proofs

### LeaseLock
The promise of a row lock without cells: `owner`, `until`, `indefOwner`, `superseded`.
Only the owner extends or releases in its time; anyone acquires when it is free.

### RowLocks
The same without the clock: a lock is `live` until it is released or runs out, at a time nobody knows; an owner whose lock ran out may still extend it as long as nobody else acquired the row.
`LeaseLock` implements it (and so do the Bigtable rows), and `LockRoots`, whose requests do exactly its actions (section 6). It is not what HBase keeps: there an unconditional delete takes a lock from its owner.

### BigtableLocks
`lockCells[r]` is the set of versions of the `Lock` column: nothing in the repository
gives the column family a garbage collection rule that would remove them, so expired ones
stay. The row filters of `bigtable/utils.py` are operators of the same names. A method is
three steps: the client's call (reads the clock: `at`), the server's
`check_and_mutate_row` (`Serve...`: filter and mutation at once), and `Return`, or
`Raise` at any time. `Raise` before the server's step is a lost request, after it a lost
answer. `Crash` forgets what the operation was granted and leaves its cells.
`WriteNewParent` is the application's edit. `lease` and `heldIndef` are what the client
was told; `Holds` is what it may believe: granted, and not older than the expiry by the
clock reading it made the request with.

Rows in `RootRows` use the `..root..` methods and their filters with `NewParent`, the others the
`..row_key..` methods; rows in `BareRows` have no cells but locks, which matters to the inverted filter
of `renew_lock`.

Assumptions, each a constant or a guard:
- *Clocks.* `now` is the fastest clock; another one is at most `Skew` behind; times are
  integers, in the unit of a Bigtable timestamp (both the cutoff and the stamp are truncated to it).
- *Requests end.* A request is applied or given up within `Lag` of its clock reading
  (`operation_timeout=30.0`), `Skew <= Lag <= Expiry`. A request given up is not applied later.
- *`InTime`.* For the methods in `PromptCalls`, a renewal or an unlock reaches the server while the
  caller's own lock has not expired. No code ensures it. The two violation runs
  drop it, once for renewals and once for unlocks, and two documented promises break (section 5).
- One operation has one request in flight per row.

### HBaseLocks
Each REST request is one action, and so is the client's expiry test between two of them;
`step[o][r].pc` says where a call is. `_acquire_lock_cell` is `put -> read -> expired ->
delete -> call -> put`. A cell that was deleted is gone for a later check, as with the
tombstone of the column the code deletes. An error status other than an exception is what the code makes of it:
a put counts as refused, a delete is ignored. Row-key and root methods
are the same requests here; the two families share their definitions. Clients and server have one clock.
A request is handled before its method raises or its worker dies, or never.
`usurped` and `upgraded` are history.

### LockRoots
The four calls over all roots. `Try` starts one thread per root, `Answered` collects an answer,
`EndLock` looks at all of them. A lock request of `BigtableLocks` is here one atomic step
with three outcomes: granted and answered, granted but raised, not granted (refused
or raised); what such a step does to a row is an action of `RowLocks`. The clock is replaced by `Expire`, which ends a temporal lock at any moment. `held` and
`heldIndef` are what the callers know they have, `stray` what they cannot know of. Bounds and simplifications:
`roots # {}`; `future_root_ids_d` is one of `FutureMaps`; a root that is no key of it is a
`KeyError`, which on the first try changes nothing and on a later one ends the call after the unlocks;
`Methods` limits which calls an instance makes. A caller that calls `lock_roots` with a root
it already holds is refused, and the unlock after the failed try releases that lock too: the
model does the same, and `held` drops it.

### IdGen
A counter is a row `<<chunk, i>>`; `_get_ids_range` is one atomic increment, and its answer a later step,
so answers come in any order or not at all (`Raise`). An id is the pair of its chunk and a
segment number; the code ORs the two and trusts that the number fits its bits, the model assumes it.
A chunk is always used with the same `root_chunk` argument (`rootChunks`). The 256 counters
of a root chunk are `NCounters`; which one a call uses is any of them.
`get_max_node_id` reads them one by one. `issued` and `known` are history.

### AtomicStore
What `write` promises: an edit takes place at once, all its cells with one time stamp that is later than all before, and they stay. In `CellStore` the cells outside
of `doubt` are its `stored`: when the write of an edit returns, its places leave `doubt` and all its cells are there; all the other steps, a retried row, a late request,
an undo, change nothing of `stored`.

### CellStore
One worker, which holds the locks of what it edits, applies `Edits` by `write`. `backend` is chosen in `Init` and never
changes: the clients share the calls, and differ in `mutate_row` (what time stamp is stored), `PutCells` (VAST inserts rows and replaces none),
`Named` (which versions a delete names), `BlockLength` (how many rows a request has; only HBase sends more than one) and the steps that only some of them can take.
`call` is the call under way: its block, the cells the server has not handled yet, the attempt.
`ServeRow` and `ServeTransaction` are the server. `Retry` and `Raise` give up on a request, and any part of
it that was not handled goes to `late`, from where `ServeLate` may take it at any later moment, or never; that is what a timeout
on the client leaves behind. A failed write is repeated (`WriteAgain`) or undone (`UndoWrite`), as the callers of
`write` and `delete_cells` can do. `DeleteIgnoresError` is the HBase `DELETE` whose status nobody looks at.

A VAST table has no key, and an insert of a cell that is there adds a second row, which a read returns as a second `Cell` with the same time stamp (`vast/utils.py` 245-257); a
delete takes all rows of a cell (408-415). `several` is the set of cells with more than one row; how many more no property tells apart. What the client may send twice, what is still to be handled when the worker repeats a write,
and what an undo misses, decides which cells get there. Requests left over have a number, so that two equal ones are two.

Time is in half milliseconds (`Gap(t)` is 1 for a time that is no whole millisecond), because the roundings of the three clients are about
whether a time is a whole millisecond, and nothing else. There is no clock: time stamps are given, an edit's being in a later millisecond than the
last one's. `truth` (what calls returned as written) and `doubt` (places where a call has not returned, failed, or could not
undo) are history.

### RootReads
Extends CellStore with readers: `read_nodes`, of which `read_node` is the case of one row, `get_root(s)` and `is_latest_roots`. A call resolves its times once; then each row is read in a step of its own (Bigtable streams rows, HBase scans),
or `MaxRowKeys` rows at once (a VAST transaction for a chunk of keys; one for a whole range of ids), and all steps of CellStore get in between. `Turn` is what the
client does when the last row of a read has come: `get_roots` and `get_root` go up a layer, until `stop_layer`. `ReadRow` is the time range filter, the
scanner's range or the SQL predicate, whichever `backend` has (`NotBefore` its start, `InTime` its end), and the newest version in it. `clean` is history: no cell in `doubt` was in the time of
the call while it ran. Reads of cells in doubt are possible and unconstrained; a write under way has no
promise to its readers.

### TableSetup
A call of a client is a program whose counter is `call[c].pc`: `create_table` is `exists -> create -> families -> check -> version -> meta`
in Bigtable, `exists -> create -> check -> ...` in HBase, whose one PUT has all the families, and `create -> check -> ...` in VAST, where the
existence is looked at in the transaction that creates. An overwriting `update_table_meta` is `delete -> meta`, another one `meta`;
`add_table_version` `check -> version` or `version`; `create_column_family` is one request, and in VAST a read followed by `delete -> meta`.
An action is one request handled by the server with its answer (`Goto`, `Return`) or without it (`Stop`); `Raise` is a request that was not handled, `Crash` the
end of a process; the next one has a new client, and with it a `_table_meta` of its own. `TimeOut` is an attempt of `_put_rows_with_retry` of HBase that timed
out: the put goes to `late`, from where `ServeLate` takes it at any time, and the call sends it again or gives up. A request of Bigtable or
VAST that raised is not handled afterwards.

A version and a meta are named by the call that wrote them (`Values`); of the content only the families matter, since VAST keeps them there, and whether it is a dict (`dict`), since VAST keeps them in no other: `create_column_family` returns having done nothing
when the meta is an object of the application or missing (`vast/client.py` 188). (`FamiliesNow`: where two metas have the newest stamp, a reader
gets either, and a family is there if both name it). `metas` has the
cells of the meta row with their stamps. HBase stamps a cell when it arrives; Bigtable's and VAST's clients stamp it, later than their own earlier cells and
with no relation to those of others. Of the version row only the presence and the origin matter. HBase is as the mock server of
the tests has it: a PUT to `/schema` replaces the schema and keeps the rows, and any status but 200 says that there is no table.
A client starts with the `table_meta` its constructor is given (`base.py` 79): none, or any meta, from wherever the caller has it (`Given`, `TableMetas`). `cached` is its `_table_meta`.
`created`, `stored`, `torn` and `lone` are history; `lone` is the last call, when no other one overlapped with it.
Calls other than `create_table` are made on a table that exists; `fail_if_exists` of VAST is not told apart, since an existing table ends the call either way.

## 3. Runs

The instances have two operations (or clients) of one symmetry set, `root_reads` one worker and one reader; every hazard in this code is between two
actors that meet on one row, and a third one has nothing to do that one of the two cannot.
The counts are TLC's distinct states.

| Run | Instance | Shows | States |
|---|---|---|---|
| `bt_root` | one root row, `Expiry` 2, `Lag` 1, `MaxTime` 4: a lock is granted, expires, is taken over and renewed | all Bigtable invariants, the action properties, and that the cells implement `LeaseLock` | 617 029 |
| `bt_key` | one row addressed by key, bare, with `Skew` 1 | what differs for the row-key methods and for clocks that disagree: their filters, and the refinement, which implies mutual exclusion | 773 973 |
| `bt_late_renew` | `bt_root` without `InTime` for renewals | *violation* of `MutualExclusion` | |
| `bt_late_unlock` | a row-key row without `InTime` for unlocks | *violation* of `OnlyOwnerUnlocks` | |
| `hb_locks` | one row, `Expiry` 1, `MaxTime` 3: a lock expires and there is time for a takeover and a slow client | what HBase keeps in spite of the stale deletes | 2 274 431 |
| `hb_stale_delete` | `MaxTime` 4 | *violation* of `MutualExclusion` | |
| `lr_all` | two roots, one try, no root replaced; `lock_roots`, `lock_roots_indefinitely` and `write`, each about both roots | the multi-root invariants for all the calls next to each other | 1 093 171 |
| `lr_live` | two roots, two tries, `r1` replaced by `r2` or nothing replaced; `lock_roots` of both roots or of `r1`, no symmetry, fairness | every call returns, and nothing is left over the tries | 220 680 |
| `id_gen` | one chunk (root or plain), two counters, sizes 0..2, counters up to 2, operation ids | the id properties | 1 191 965 |
| `root_reads` | seven nodes in three layers, two edits of two rows, one reader; blocks of one row, two attempts, one late request; each backend | the requests make an atomic store; what was returned is stored, in VAST in several rows only after a repeated write; reads, roots and latest roots are those of the time asked for | 717 284 |
| `ts_setup` | two clients, made without a meta or with one of two families, in VAST a dict or not; three calls, two families and two new ones, two time stamps, one late put; each backend | what creating and updating a table keeps, whoever else does so and wherever it stops | 1 209 462 |
| `ts_families` | the same, HBase alone | *violation* of `NewFamilyKeepsOthers` | |

Time bounds: with `MaxTime` at twice `Expiry` (Bigtable) a lock can expire by the
strict comparison, its row be taken over, and the new lock be renewed in one behaviour; the violating
traces take 11 to 16 states, the complete graphs are 29 to 40 deep. `MaxCounter` 2 leaves room for two
ranges of one or one of two in each of the counters.
In `root_reads` `MaxTime` 4 is two milliseconds after the initial cells with the halves between, one for each edit, and reads of ranges that end before, between and after both; the `Ranges` begin at the start or in the middle of a millisecond, and end, inclusive or not, at or within one; the time stamp of
the climbs lies between the two edits, or before both, if the first one takes the last millisecond: what comes later must not be seen; `StopLayers` are the last layer and the one below;
`BlockSize` 1 makes a write of two rows two requests of HBase, `MaxRowKeys` 1 a layer of two nodes two transactions of VAST.
One late request at a time is enough for a late put to meet a repeated write, an undo and the next edit; a second reader would share
nothing with the first one.
In `ts_setup` three calls are a `create_table` and two calls that overlap with it or with each other; two time stamps let the clock of
one client be behind the other's, which is when an overwrite that forgets its delete loses. A second default family is what leaves a Bigtable table with a part of them.
In `lr_all` calls are about both roots (`RootSets`): roots are released one by one, by their callers or by time, so a call still meets an operation that has one of them.
No run disables the deadlock check.

**Fairness.** Only `lr_live` needs it: `FairSpec` is weak fairness of each operation's
`Progress`. Every request ends, by an answer or by `operation_timeout`, and the thread that waits for it
goes on; a worker that dies takes the `Crash` step, which ends its call too. Nothing is
assumed of the callers, of expiry, or of which outcome a request has.

## 4. Properties

Besides a `TypeOK` each:
- **Bigtable** `MutualExclusion`, `HolderFindsLock` (the newest cell is the holder's, at least as new as its
  grant, so `get_lock_timestamp` finds it), `IndefiniteExclusive`, `SupersededNotLocked`, `IndefiniteBlocks`,
  `OnlyOwnerUnlocks`, `ImplementsLease`.
- **HBase** `HolderKeepsCell` (an unexpired lock is lost only through an unconditional delete),
  `IndefiniteExclusive`, `UpgradeExclusive` (a lock upgraded to indefinite by its holder stays exclusive after the holder's
  worker is gone).
- **Multi-root** `HeldIsOwned`, `AllOrNothing`, `NothingLeftBehind`, `CallsReturn`.
- **Ids** `UniqueIds`, `MaxCoversIssued`, `IdsIncrease`.
- **Cells** `ImplementsAtomic` (edits take place at once and for good, outside of what is in doubt), `StoredAsReturned` (outside of what is in doubt, the table is exactly what calls returned as written, in spite of
  retries, late requests and undos; a place has one version, and a cell several rows only in VAST, after the caller repeated a write that raised), `VastWritesWhole`.
- **Table setup** `CreatedComplete` (a `create_table` that returned left a version, a meta and, in Bigtable, all families), `OneCreator` (versions and metas of
  `create_table` calls come from one call, in Bigtable and VAST), `MetaSurvives` (a meta is missing only between the two requests of an overwrite, or after one that stopped
  there), `LoneCallTakesEffect` (a call that no other one overlapped with did what it is for, whatever the clocks), `MetaTakenOver` (a client takes a meta over only from the
  table, from its constructor, or from an own call that has nothing but the put of the meta left: the table is there with the version of its `create_table`, the old metas are gone; a refused
  `create_table` leaves the client the meta it had). `LoneCallTakesEffect` speaks of `create_column_family` of VAST when the meta is a dict.
- **Reads** `ReadAsOf` (the newest version in the range of milliseconds asked for, of one moment for all rows, whatever the backend rounds), `RootsAsOf` (a climb of many reads gives the roots of one moment), `LatestAsOf`, and `RootIsLatest` (`get_root` and
  `is_latest_roots` agree at one moment, if the edits of the application are as `EditsReplaceRoots` says; the edits of `MCRootReads` are, and TLC evaluates it there).

Each property of each passing run has a mutant in `PROJECT.json`: a plausible fault in the modelled code, defined
next to the definition it replaces and marked `Wrong:`, that makes TLC find the property violated.

## 5. Findings

1. `bt_late_renew` - `get_row_key_renew_lock_filter` (`bigtable/utils.py` 203-215) matches every version of the
   lock column. After a lock expired and another operation took the row, the old version is still there, so a
   late renewal is applied and answered `True`: two holders.
2. `bt_late_unlock` - `get_unlock_root_filter` (233-243) computes its cutoff before the request and the mutation deletes all
   versions: a late unlock deletes the new holder's cell, which `base.py` 179-182 says cannot happen.
3. `hb_stale_delete` - `_acquire_lock_cell` (`hbase/client.py` 226) deletes the column by name after an earlier read
   found it expired: two clients that both saw the expired cell both get the lock.
   The rollback of `lock_root` (266) and `lock_by_row_key_with_indefinite` deletes by name as well, with the same effect when a slow client's own cell has expired.
4. `ts_families` - `create_column_family` of HBase (`hbase/client.py` 161) PUTs a schema of the new family alone, which replaces the one the
   table has: its other families are gone.

## 6. Proofs

For all values of the constants that satisfy the modules' assumptions (`LockConstants`, `LockRootsConstants`,
`IdGenConstants`, `HBaseConstants`, `TableConstants`, `CellStoreConstants`, `RootReadsConstants`, `ParentsAbove`): any number of rows, operations, clients, counters, tries, any expiry, any edits.

**BigtableLocksProofs.** `TypeCorrect`, `MutuallyExclusive`, `HolderFinds`, `IndefinitelyExclusive`,
`SupersededNeverLocked`, `IndefiniteBlocksLock`, `OnlyOwnersUnlock`, and `RefinesLease`, which is
`Spec => Lease!Spec`. Those that rest on timing assume that all renewals and unlocks are in `PromptCalls`.
The inductive invariant `LockInv` adds three parts to `TypeOK`: `ReqInv` (a request is not older than `Lag`, so a cutoff lags
the clock by at most that much), `CellInv` (stamps are not in the future; of two versions by different operations the older one has expired, since an
acquire needs every version to be older than the cutoff), and `ClaimInv` (a lease that has not expired, and a granted request on its way back, has
the cell with its stamp). Mutual exclusion alone is not inductive: it says nothing of answers in flight.
`IndefInv` and `RouteInv` (a root method is only used on root rows) serve the properties without timing. `RefinesRowLocks` adds that what is left without the clock is `RowLocks`, by
`LeaseIsRowLock` of **LeaseLockProofs**: a `Tick` is the step in which the locks of some rows run out at once, and `Lag <= Expiry` makes a grant live when it arrives.

**LockRootsProofs.** `TypeCorrect`, `HeldOwned`, `AllRootsOrNone`, `NothingIsLeft`. `LockRootsInv` is `TypeOK` with
`HeldInv` (locks and grants agree), `CallInv` (in every phase, an answered root of a call whose answers are all good is held or lapsed) and `LeftInv`
(a cell of an operation is held, stray, or on a root that its call will still unlock).

`LocksAreRowLocks` is `Spec => RowLock!Spec`, and `RequestsAreLockSteps` says that each action of `RowLocks` is what one request may do to a row, and the reverse. So the locks that the multi-root calls
are modelled over leave out nothing that the Bigtable rows do (`RefinesRowLocks`), save the clock, and add nothing to it but a renewal of a lock that ran out, which the Bigtable filters let
through as well.

`CallsAdvance` is the part of `CallsReturn` that needs no fairness: a step of a call gives it one answer more, or, all its answers there, the next phase, the next try or the end; nothing that another operation does, and no lock that runs
out, takes it back. Answers, phases and tries (`MaxTries`) are finite, so what is left to fairness is that there is a next step.

**IdGenProofs.** `TypeCorrect`, `IdsAreUnique`, `MaxIsAbove`, `IdsGoUp`. `IdInv` says that an answer's
range ends within its counter (`RangeInv`), that in a plain chunk whatever is known is at most the counter and at most the begin of
ranges asked for later (`FloorInv`), that each issued id comes from one count of one counter (`SpaceInv`, `FromCounter`), and that
an id seen by `get_max_node_id` is below its maximum so far or comes from a counter still to be read (`SeenInv`).
`TurnsDiffer` is the arithmetic: `k * N + i` with `i < N` determines `k` and `i`.

**HBaseLocksProofs.** `TypeCorrect`, `HolderKeeps`, `OneHolder`, `IndefIsExclusive`, `UpgradeIsExclusive`. `LockInv` is `TypeOK` with `ClaimInv`, which follows a lock
through the requests of a call: a lease that has not expired, and a lock that was put and whose call still has to read the `IndefiniteLock`, has its cell; a client that found
an expired cell saw one that is not older than any lease of its own; and a client that is about to delete by name, or has just put a cell, holds a lock only where one was deleted already.
`HolderKeepsCell` alone says nothing of locks on their way. `hb_stale_delete` shows that mutual exclusion does not hold; `OneHolder` says what is left of it: it holds of a row as long as
no unexpired lock of the row was deleted by name. `IndefInv` needs no timing.

**TableSetupProofs.** `TypeCorrect`, `MetaSurvivesAlways`, `MetaIsTakenOver`, `CreatedIsComplete`, `OneCreatorOnly`, `LoneCallEffective`, for any number of clients, calls, families and time stamps.
`SetupInv` says what each program counter means (`Program`). `CompleteInv` adds what a `create_table` has done before the request it is at;
`CreatorInv` that all values of the `create_table` calls that the server let through, those in flight too, are one (`Creations`); `FamilyInv` that a client which is about to add a family has a table;
`LoneInv` that, while a call is alone, there is no late put but its own, no meta hides the one it is going to write, and the families it has to keep are in the table or in that meta.
The attempt to prove `LoneCallTakesEffect` found a flaw of the model that three calls are too few to show: a family that only one of two newest metas of VAST named counted as there.
`FamiliesNow` now counts those that every reader finds.

**CellStoreProofs.** `TypeCorrect`, `WholeMilliseconds`, `DeletesAlwaysExact` (with `DeleteIsExact`), `ReturnedIsStored`, `VastAlwaysWhole`, and the refinement `StoreIsAtomic`, which is
`StoreSpec => Atomic!Spec`. `StoreInv` has five parts. `TypeInv` adds to the types that cells in the table, in the call and in late requests have whole milliseconds (`WholeInv`: the HBase and VAST clients
round, the Bigtable server refuses others), and that what a call still has to do is of its block. `StampInv`: no time stamp is later than the edit's own, and only cells of
the edit have that one; so a late request of an earlier edit cannot reach the present one. `ReturnInv`: what a call has done is stored (`CallInv`), a late put writes what is stored or in doubt and
a delete under way knows of it, a late delete takes nothing that was returned (`LateInv`), a place has one value (`TruthInv`), and `Returned` itself. `UniqueInv`: of the
cells that are stored or on their way no two have one place. `CopyInv`: a cell of VAST whose write was called once is in one row, in one request left over, or still to do. `StoredAsReturned` is not inductive without `LateInv`, nor that without `StampInv`.
`VastInv` says that a late put of VAST is the whole edit. The refinement then has one step to map: `ReturnWrite` is the step of `AtomicStore`, all the others stutter.

**RootReadsProofs.** `StoreUnderReads`: reads write nothing, so `Spec => StoreSpec`, and all of the above holds under them. `RangesAgree` shows that the rounded exclusive ends of two clients and the comparison of the
third are one range for cells with whole milliseconds, `StartsAgree` that they begin alike, `ReadsAlwaysByTime` joins them for all times. `ReadTypesCorrect` rests on `ReadsInv`: a call that
reads has read, or has still to read, the rows it needs to go on.

`ReadsOfOneMoment` and `LatestOfOneMoment` rest on `AnswerInv`: as long as nothing in doubt is in the time of a call, every row it has read is what was returned as written
with a time stamp up to its own (`SettledReads`, from `Returned`), and stays so, because whatever returns later was in doubt when it was written (`TruthGrows`, `SameMoment`).

`RootsOfOneMoment` is the same for the climbs, which read from row to row. `ClimbedInv` says that each node of a call is on the way that its time stamp gives (`ComesBy`), not later than at its
own layer, and an answer at the end of that way (`EndsAt`, which is `RootAsOf`). `RootAsOf` is a recursive function; that a way exists (`WayExists`), that there is one only (`OneWay`) and that it stays where it
does not go on (`WayStays`) are inductions over the layers, each made by looking at the least layer where it would fail (`Least`, from `WFMin`). That the number of turns suffices
needs one assumption on what the table holds, `ParentsAbove`: a parent is on a higher layer. The loop of `get_roots`, `range(stop_layer + 1)` (`extensions.py` 171), counts on it, and that of `get_root` would not end without it.

`HistoryOfEdits` looks at the table as a whole: at each time, what was returned as written up to it is what some number of whole edits makes of the initial cells (`CellsAfter`), all the edits so far if the time is not before any cell.
`HistoryInv` is inductive with `StoreInv` alone, since an edit that returns is later than all that returned before it. With `AnswerInv` it gives `ReadsSeeWholeEdits`: all rows of a read from the beginning of time on are as the same
edits left them, never some as of before an edit and others as of after it.

`RootsAreLatest` is `EditsReplaceRoots /\ Spec => []RootIsLatest`. What an edit writes is the application's, so what it has to do is a hypothesis, and a constant formula: after each number of edits there is a set of nodes in use (`InUse`), with those that
callers climb from and the parents of its nodes, and no node of it was replaced. `WithinInv` says that a climb does not leave a set that holds all its parents at its time (`Holds`); by `HistoryInv` the table
at that time is what some edits left, so the nodes in use then are such a set, and a root in it has no `NewParent`. Without the hypothesis the property is false: an edit that replaces a root and leaves a node below it breaks it.

**Only model-checked.** `CallsReturn`: liveness under fairness is beyond the prover; `CallsAdvance` is what is proved of it.

**Assumptions of the proofs** are those of the modules and nothing else; TLC evaluates each on the runs. Beside the ranges of the constants they say that an edit has a cell and names a cell once
(`NamesOnce`: the keys of a dictionary), and `ParentsAbove`. Two hypotheses are not ensured by the code: `AllPrompt` for the Bigtable
theorems with timing, and `EditsReplaceRoots` for `RootsAreLatest`.
`LeaseIsRowLock` asks of the constants what `LockConstants` says of them.

## 7. Not modelled, and the plan

Left out for good: byte formats (`serializers.py`), column declarations (`attributes.py`), configuration, logging, authentication, the
scripts: no state that changes. A counter that overflows its segment bits: the widths belong to the application. Garbage collection rules, and the checks
of the columns and the sorting of a VAST table, which refuse a table of someone else's. Liveness of the HBase locks: `_acquire_lock_cell` calls itself without a bound while its
delete has no effect, and Python's recursion limit ends that.
The layer count that `root_ext` computes once, from the meta its client has at that moment (`extensions.py` 33-62): `RootReads` takes it as a constant, and which meta a client may have is what
`MetaTakenOver` says. How many equal Cells of VAST a read returns: `RootReads` reads sets, and which cells have several rows is part of `StoredAsReturned`.

Of the cell store these are not modelled: `delete_row`, which nothing in `src/kvdbclient/` calls but the meta deletion of VAST (that is in `TableSetup`), and the user filter with the
operation logs. That filter differs between the clients: HBase ignores `user_id`, Bigtable applies it to the columns that were asked for (`bigtable/utils.py` 110-121), and VAST looks
for the user's rows in a transaction before the one that reads them; no document says which one is meant.

The plan is done. What would come next, if the code grows: ids as bit fields, once the widths of a segment are the library's own; the user filter of the operation logs, once a document says which of the
three meanings is the right one; and a lock of HBase that checks the value it deletes, which `HBaseLocks` could then show to implement `LeaseLock`.
