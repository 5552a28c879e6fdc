----------------------------- MODULE HBaseLocks -----------------------------
(***************************************************************************)
(* The row locks of src/kvdbclient/hbase/client.py.                        *)
(*                                                                         *)
(* HBase has no conditional mutation over several columns and no expiry,   *)
(* so a temporal lock is taken in several requests: check-and-put on the   *)
(* Lock column, and when that finds a cell, a read, a look at the client's *)
(* clock, an unconditional delete of the column and another try; lock_root *)
(* and lock_by_row_key_with_indefinite then read the IndefiniteLock column *)
(* and, if it has a cell, delete the Lock column again.  Unlocks and       *)
(* renewals are single requests that check the column's value.             *)
(*                                                                         *)
(* An action is one request handled by the server and answered, or one     *)
(* step of the client between two requests; each call of one operation on  *)
(* one row is a small program with a program counter.  The requests have   *)
(* no deadline, so any of them may be handled arbitrarily late.            *)
(***************************************************************************)
EXTENDS Integers

CONSTANTS
    Rows,      \* the rows that are locked
    Ops,       \* operation ids
    NoOp,      \* not an operation id
    Expiry,    \* _lock_expiry
    MaxTime    \* bound on the clock

ASSUME HBaseConstants == NoOp \notin Ops /\ Expiry \in Nat /\ MaxTime \in Nat

VARIABLES
    now,        \* the clock of clients and server
    lockCell,   \* row -> the newest cell of the Lock column, or NoCell
    indefCell,  \* row -> the operation in the IndefiniteLock column, or NoOp
    step,       \* op -> row -> the call in progress
    lease,      \* op -> row -> stamp of the lock the client was granted
    checked,    \* op -> row -> granted by a call that checks the indefinite column,
                \*              and held without a break since then
    heldIndef,  \* op -> row -> the client was granted the indefinite lock
    usurped,    \* history: row -> an unexpired lock of another operation was deleted
    upgraded    \* history: row -> the indefinite cell was put by the holder of the row

client  == <<lease, checked, heldIndef>>
history == <<usurped, upgraded>>
vars    == <<now, lockCell, indefCell, step, client, history>>

NoLease == -1
NoCell  == [op |-> NoOp, ts |-> 0]
Cell    == [op : Ops, ts : Nat]
Idle    == [pc |-> "idle", guarded |-> FALSE, at |-> 0, seen |-> 0]
PCs     == {"idle", "call", "put", "read", "expired", "delete", "readIndef",
            "rollback", "putIndef", "renew", "unlock", "unlockIndef"}
Step    == [pc : PCs,
            guarded : BOOLEAN,   \* does the call check the indefinite column
            at : Nat,            \* the clock when the request was made
            seen : Nat]          \* the timestamp of the cell that was read

Init ==
    /\ now = 0
    /\ lockCell  = [r \in Rows |-> NoCell]
    /\ indefCell = [r \in Rows |-> NoOp]
    /\ step      = [o \in Ops |-> [r \in Rows |-> Idle]]
    /\ lease     = [o \in Ops |-> [r \in Rows |-> NoLease]]
    /\ checked   = [o \in Ops |-> [r \in Rows |-> FALSE]]
    /\ heldIndef = [o \in Ops |-> [r \in Rows |-> FALSE]]
    /\ usurped   = [r \in Rows |-> FALSE]
    /\ upgraded  = [r \in Rows |-> FALSE]

Holds(o, r) == lease[o][r] # NoLease /\ now <= lease[o][r] + Expiry

At(o, r, pc) == step[o][r].pc = pc
Goto(o, r, pc) == step' = [step EXCEPT ![o][r].pc = pc]
Return(o, r) == step' = [step EXCEPT ![o][r] = Idle]

-----------------------------------------------------------------------------
(* Calls.                                                                  *)

Call(o, r, pc, guarded) ==
    /\ step[o][r] = Idle
    /\ step' = [step EXCEPT ![o][r] = [pc |-> pc, guarded |-> guarded, at |-> now, seen |-> 0]]
    /\ UNCHANGED <<now, lockCell, indefCell, history>>

\* The client no longer relies on the temporal lock.
DropLease(o, r) ==
    /\ lease'   = [lease EXCEPT ![o][r] = NoLease]
    /\ checked' = [checked EXCEPT ![o][r] = FALSE]
    /\ UNCHANGED heldIndef

lock_root(o, r)       == Call(o, r, "put", TRUE)  /\ UNCHANGED client
lock_by_row_key(o, r) == Call(o, r, "put", FALSE) /\ UNCHANGED client
lock_by_row_key_with_indefinite(o, r) == lock_root(o, r)

lock_root_indefinitely(o, r) == Call(o, r, "putIndef", FALSE) /\ UNCHANGED client
lock_by_row_key_indefinitely(o, r) == lock_root_indefinitely(o, r)

renew_lock(o, r) == Call(o, r, "renew", FALSE) /\ UNCHANGED client
renew_lock_by_row_key(o, r) == renew_lock(o, r)

unlock_root(o, r) == Call(o, r, "unlock", FALSE) /\ DropLease(o, r)
unlock_by_row_key(o, r) == unlock_root(o, r)

unlock_indefinitely_locked_root(o, r) ==
    /\ Call(o, r, "unlockIndef", FALSE)
    /\ heldIndef' = [heldIndef EXCEPT ![o][r] = FALSE]
    /\ UNCHANGED <<lease, checked>>
unlock_indefinitely_locked_by_row_key(o, r) == unlock_indefinitely_locked_root(o, r)

ClientCall(o, r) ==
    \/ lock_root(o, r) \/ lock_by_row_key_with_indefinite(o, r) \/ lock_by_row_key(o, r)
    \/ lock_root_indefinitely(o, r) \/ lock_by_row_key_indefinitely(o, r)
    \/ renew_lock(o, r) \/ renew_lock_by_row_key(o, r)
    \/ unlock_root(o, r) \/ unlock_by_row_key(o, r)
    \/ unlock_indefinitely_locked_root(o, r) \/ unlock_indefinitely_locked_by_row_key(o, r)

-----------------------------------------------------------------------------
(* _acquire_lock_cell.                                                     *)

Grant(o, r, stamp, guarded) ==
    /\ lease' = [lease EXCEPT ![o][r] = stamp]
    /\ checked' = [checked EXCEPT ![o][r] = guarded]
    /\ UNCHANGED heldIndef

\* check-and-put on the absent Lock column succeeds.  An answer other than
\* status 200 makes the client go on as if the cell had been there.
AcquirePut(o, r) ==
    LET s == step[o][r] IN
    /\ At(o, r, "put")
    /\ lockCell[r] = NoCell
    /\ lockCell' = [lockCell EXCEPT ![r] = [op |-> o, ts |-> s.at]]
    /\ \/ s.guarded  /\ Goto(o, r, "readIndef") /\ UNCHANGED client
       \/ ~s.guarded /\ Return(o, r) /\ Grant(o, r, s.at, FALSE)
       \/ Goto(o, r, "read") /\ UNCHANGED client
    /\ UNCHANGED <<now, indefCell, history>>

\* It finds a cell, or it fails with an error status.
AcquireRefused(o, r) ==
    /\ At(o, r, "put")
    /\ Goto(o, r, "read")
    /\ UNCHANGED <<now, lockCell, indefCell, client, history>>

AcquireRead(o, r) ==
    /\ At(o, r, "read")
    /\ IF lockCell[r] = NoCell
       THEN Return(o, r)
       ELSE step' = [step EXCEPT ![o][r].pc = "expired", ![o][r].seen = lockCell[r].ts]
    /\ UNCHANGED <<now, lockCell, indefCell, client, history>>

\* The client compares the timestamp it read with its clock.
CheckExpired(o, r) ==
    /\ At(o, r, "expired")
    /\ IF now - step[o][r].seen > Expiry THEN Goto(o, r, "delete") ELSE Return(o, r)
    /\ UNCHANGED <<now, lockCell, indefCell, client, history>>

\* _delete_cell: whatever the Lock column holds by now is deleted.
DeleteColumn(o, r) ==
    /\ lockCell' = [lockCell EXCEPT ![r] = NoCell]
    /\ usurped' = [usurped EXCEPT ![r] =
           @ \/ (lockCell[r].op \in Ops \ {o} /\ now <= lockCell[r].ts + Expiry)]

\* An error status of the delete is ignored.
AcquireDelete(o, r) ==
    /\ At(o, r, "delete")
    /\ Goto(o, r, "call")
    /\ DeleteColumn(o, r) \/ UNCHANGED <<lockCell, usurped>>
    /\ UNCHANGED <<now, indefCell, client, upgraded>>

\* _acquire_lock_cell calls itself.
AcquireAgain(o, r) ==
    /\ At(o, r, "call")
    /\ step' = [step EXCEPT ![o][r].pc = "put", ![o][r].at = now]
    /\ UNCHANGED <<now, lockCell, indefCell, client, history>>

acquire_lock_cell(o, r) ==
    \/ AcquirePut(o, r)   \/ AcquireRefused(o, r) \/ AcquireRead(o, r)
    \/ CheckExpired(o, r) \/ AcquireDelete(o, r)  \/ AcquireAgain(o, r)

-----------------------------------------------------------------------------
(* The guard of lock_root and lock_by_row_key_with_indefinite.             *)

\* Wrong: a row with an indefinite cell is granted all the same.
ReadIndefiniteIgnored(o, r) ==
    /\ At(o, r, "readIndef")
    /\ Return(o, r)
    /\ Grant(o, r, step[o][r].at, TRUE)
    /\ UNCHANGED <<now, lockCell, indefCell, history>>

ReadIndefinite(o, r) ==
    /\ At(o, r, "readIndef")
    /\ IF indefCell[r] # NoOp
       THEN Goto(o, r, "rollback") /\ UNCHANGED client
       ELSE Return(o, r) /\ Grant(o, r, step[o][r].at, TRUE)
    /\ UNCHANGED <<now, lockCell, indefCell, history>>

Rollback(o, r) ==
    /\ At(o, r, "rollback")
    /\ Return(o, r)
    /\ DeleteColumn(o, r) \/ UNCHANGED <<lockCell, usurped>>
    /\ UNCHANGED <<now, indefCell, client, upgraded>>

-----------------------------------------------------------------------------
(* The calls that are one request.                                         *)

\* Wrong: plain deletes, the value is not compared with operation_id.
release_lock_cell_any_value(o, r) ==
    /\ At(o, r, "unlock")
    /\ Return(o, r)
    /\ lockCell' = [lockCell EXCEPT ![r] = NoCell]
    /\ UNCHANGED <<now, indefCell, client, history>>

ReleaseIndefiniteAnyValue(o, r) ==
    /\ At(o, r, "unlockIndef")
    /\ Return(o, r)
    /\ indefCell' = [indefCell EXCEPT ![r] = NoOp]
    /\ UNCHANGED <<now, lockCell, client, history>>

\* check-and-delete: deletes the column if its newest value is operation_id.
release_lock_cell(o, r) ==
    /\ At(o, r, "unlock")
    /\ Return(o, r)
    /\ lockCell' = IF lockCell[r].op = o THEN [lockCell EXCEPT ![r] = NoCell] ELSE lockCell
    /\ UNCHANGED <<now, indefCell, client, history>>

ReleaseIndefinite(o, r) ==
    /\ At(o, r, "unlockIndef")
    /\ Return(o, r)
    /\ indefCell' = IF indefCell[r] = o THEN [indefCell EXCEPT ![r] = NoOp] ELSE indefCell
    /\ UNCHANGED <<now, lockCell, client, history>>

\* Wrong: renews whatever cell the row has.
RenewAppliedWithoutCell(o, r) ==
    /\ At(o, r, "renew")
    /\ Return(o, r)
    /\ lockCell' = [lockCell EXCEPT ![r].ts = now]
    /\ Grant(o, r, step[o][r].at, checked[o][r])
    /\ UNCHANGED <<now, indefCell, history>>

\* check-and-put on the client's own value; the server stamps the new cell,
\* and the newest cell of the column is the one with the greatest timestamp.
\* The client counts its lease from when it asked.
RenewApplied(o, r) ==
    /\ At(o, r, "renew")
    /\ lockCell[r].op = o
    /\ Return(o, r)
    /\ lockCell' = [lockCell EXCEPT ![r].ts = IF @ > now THEN @ ELSE now]
    /\ \/ Grant(o, r, step[o][r].at, checked[o][r] /\ Holds(o, r))
       \/ UNCHANGED client                        \* the answer is lost
    /\ UNCHANGED <<now, indefCell, history>>

RenewRefused(o, r) ==
    /\ At(o, r, "renew")
    /\ lockCell[r].op # o
    /\ Return(o, r)
    /\ DropLease(o, r)
    /\ UNCHANGED <<now, lockCell, indefCell, history>>

renew_lock_cell(o, r) == RenewApplied(o, r) \/ RenewRefused(o, r)

\* check-and-put on the absent IndefiniteLock column.
PutIndefinite(o, r) ==
    /\ At(o, r, "putIndef")
    /\ Return(o, r)
    /\ IF indefCell[r] = NoOp
       THEN /\ indefCell' = [indefCell EXCEPT ![r] = o]
            /\ upgraded' = [upgraded EXCEPT ![r] = Holds(o, r)]
            /\ \/ heldIndef' = [heldIndef EXCEPT ![o][r] = TRUE]
               \/ UNCHANGED heldIndef             \* the answer is lost
       ELSE UNCHANGED <<indefCell, upgraded, heldIndef>>
    /\ UNCHANGED <<now, lockCell, lease, checked, usurped>>

-----------------------------------------------------------------------------
\* A request raises without having been applied, or its answer is lost.
Raise(o, r) ==
    /\ step[o][r] # Idle
    /\ Return(o, r)
    /\ UNCHANGED <<now, lockCell, indefCell, client, history>>

\* The worker process of the operation dies.  Its cells stay.
Crash(o) ==
    /\ step'      = [step EXCEPT ![o] = [r \in Rows |-> Idle]]
    /\ lease'     = [lease EXCEPT ![o] = [r \in Rows |-> NoLease]]
    /\ checked'   = [checked EXCEPT ![o] = [r \in Rows |-> FALSE]]
    /\ heldIndef' = [heldIndef EXCEPT ![o] = [r \in Rows |-> FALSE]]
    /\ UNCHANGED <<now, lockCell, indefCell, history>>

Tick ==
    /\ now < MaxTime
    /\ now' = now + 1
    /\ UNCHANGED <<lockCell, indefCell, step, client, history>>

Next ==
    \/ \E o \in Ops, r \in Rows :
          \/ ClientCall(o, r) \/ acquire_lock_cell(o, r)
          \/ ReadIndefinite(o, r) \/ Rollback(o, r)
          \/ release_lock_cell(o, r) \/ ReleaseIndefinite(o, r)
          \/ renew_lock_cell(o, r) \/ PutIndefinite(o, r)
          \/ Raise(o, r)
    \/ \E o \in Ops : Crash(o)
    \/ Tick

Spec == Init /\ [][Next]_vars

-----------------------------------------------------------------------------
(* What the locks promise.                                                 *)

\* Every variable has its type.
TypeOK ==
    /\ now \in Nat
    /\ lockCell \in [Rows -> Cell \cup {NoCell}]
    /\ indefCell \in [Rows -> Ops \cup {NoOp}]
    /\ step \in [Ops -> [Rows -> Step]]
    /\ lease \in [Ops -> [Rows -> Nat \cup {NoLease}]]
    /\ checked \in [Ops -> [Rows -> BOOLEAN]]
    /\ heldIndef \in [Ops -> [Rows -> BOOLEAN]]
    /\ usurped \in [Rows -> BOOLEAN]
    /\ upgraded \in [Rows -> BOOLEAN]

\* At most one operation believes that it holds the temporal lock of a row
\* (base.py: lock_root "to prevent race conditions").
MutualExclusion ==
    \A r \in Rows : \A o, p \in Ops : Holds(o, r) /\ Holds(p, r) => o = p

\* Until some _delete_cell removes an unexpired lock of another operation, the
\* holder's cell stays on the row, at least as new as its grant, so that no
\* other operation can be granted the row: the unconditional deletes of
\* _acquire_lock_cell and of the rollback are the only way to lose a lock.
HolderKeepsCell ==
    \A r \in Rows, o \in Ops :
        Holds(o, r) /\ ~usurped[r] => lockCell[r].op = o /\ lockCell[r].ts >= lease[o][r]

\* An indefinite lock belongs to one operation, and its cell stays until that
\* operation's own unlock, whatever the others and the clock do.
IndefiniteExclusive ==
    \A r \in Rows, o \in Ops : heldIndef[o][r] => indefCell[r] = o

\* A lock upgraded to indefinite by its holder stays exclusive when the holder's
\* worker is gone and its temporal lock has expired: no call that checks the
\* indefinite column has granted the row to another operation.
UpgradeExclusive ==
    \A r \in Rows, o, p \in Ops :
        /\ indefCell[r] = o /\ upgraded[r] /\ ~usurped[r]
        /\ Holds(p, r) /\ checked[p][r]
        => p = o
=============================================================================
