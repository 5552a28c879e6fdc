--------------------------- MODULE BigtableLocks ---------------------------
(***************************************************************************)
(* The row locks of src/kvdbclient/bigtable/client.py.                     *)
(*                                                                         *)
(* A lock is a cell of the locked row: a temporal lock is a cell of the    *)
(* Lock column, stamped with the clock of the client that set it and held  *)
(* for Expiry; an indefinite lock is a cell of the IndefiniteLock column   *)
(* and never expires.  Every lock method is one check_and_mutate_row       *)
(* request: the client reads its clock (the expiry cutoff of the filter,   *)
(* the timestamp of the new cell), the server later evaluates the filter   *)
(* and runs the mutation in one atomic step, and the boolean it answers    *)
(* reaches the client, or an exception does.                               *)
(*                                                                         *)
(* An operation (Ops) is one operation_id.  It has at most one request in  *)
(* flight per row; requests for different rows overlap freely, as in the   *)
(* thread pools of lock_roots and renew_locks.                             *)
(*                                                                         *)
(* Time is an integer.  `now' is the fastest of the clients' clocks; a     *)
(* client's clock is at most Skew behind it, and a request is applied or   *)
(* given up at most Lag after the clock was read (operation_timeout=30.0   *)
(* on every request).                                                      *)
(***************************************************************************)
EXTENDS Integers

CONSTANTS
    Rows,         \* the rows that are locked
    RootRows,     \* those addressed by root id; the others by an arbitrary key
    BareRows,     \* rows without any cell besides locks and NewParent
    Ops,          \* operation ids
    NoOp,         \* not an operation id
    Expiry,       \* _lock_expiry
    Lag,          \* clock skew plus operation_timeout
    Skew,         \* how far a client's clock may be behind
    MaxTime,      \* bound on the clock
    PromptCalls   \* calls assumed to reach the server in time, see InTime

LockCalls   == {"lock_root", "lock_by_row_key",
                "lock_by_row_key_with_indefinite"}
RenewCalls  == {"renew_lock", "renew_lock_by_row_key"}
UnlockCalls == {"unlock_root", "unlock_by_row_key"}
IndefLockCalls   == {"lock_root_indefinitely", "lock_by_row_key_indefinitely"}
IndefUnlockCalls == {"unlock_indefinitely_locked_root",
                     "unlock_indefinitely_locked_by_row_key"}
Calls == LockCalls \cup RenewCalls \cup UnlockCalls
                   \cup IndefLockCalls \cup IndefUnlockCalls

ASSUME LockConstants ==
    /\ RootRows \subseteq Rows
    /\ BareRows \subseteq Rows
    /\ NoOp \notin Ops
    /\ Expiry \in Nat /\ Lag \in Nat /\ Skew \in Nat /\ MaxTime \in Nat
    /\ Skew <= Lag
    /\ Lag <= Expiry

VARIABLES
    now,          \* the fastest client clock
    lockCells,    \* row -> the versions of its Lock column
    indefCells,   \* row -> the operations in its IndefiniteLock column
    newParent,    \* row -> has a Hierarchy.NewParent cell
    req,          \* op -> row -> the request in flight
    lease,        \* op -> row -> stamp of the lock the client was granted
    heldIndef     \* op -> row -> the client was granted the indefinite lock

cells  == <<lockCells, indefCells>>
client == <<lease, heldIndef>>
vars   == <<now, lockCells, indefCells, newParent, req, lease, heldIndef>>

Cell    == [op : Ops, ts : Nat]
Reply   == {"none", "applied", "refused"}
Request == [call : Calls \cup {"idle"}, at : Nat, reply : Reply]
Idle    == [call |-> "idle", at |-> 0, reply |-> "none"]
NoLease == -1

Init ==
    /\ now = 0
    /\ lockCells  = [r \in Rows |-> {}]
    /\ indefCells = [r \in Rows |-> {}]
    /\ newParent  = [r \in Rows |-> FALSE]
    /\ req        = [o \in Ops |-> [r \in Rows |-> Idle]]
    /\ lease      = [o \in Ops |-> [r \in Rows |-> NoLease]]
    /\ heldIndef  = [o \in Ops |-> [r \in Rows |-> FALSE]]

-----------------------------------------------------------------------------
(* The row filters of bigtable/utils.py.  Each is TRUE when the filtered   *)
(* row has a cell left.  `at' is the clock reading of the caller; none of  *)
(* the lock columns is garbage collected, so expired versions stay.        *)

\* Definitions marked "Wrong:" are faults the checks must notice; nothing uses them.
\* Wrong: the range starts one tick after the cutoff.
row_key_lock_filter_off_by_one(r, at) == \E c \in lockCells[r] : c.ts > at - Expiry

row_key_lock_filter(r, at) == \E c \in lockCells[r] : c.ts >= at - Expiry

\* Wrong: only the Lock column is looked at.
row_key_lock_filter_temporal_only(r, at) == row_key_lock_filter(r, at)

row_key_lock_filter_with_indefinite(r, at) ==
    indefCells[r] # {} \/ row_key_lock_filter(r, at)

\* Wrong: a superseded root can be locked.
root_lock_filter_without_new_parent(r, at) == row_key_lock_filter_with_indefinite(r, at)

\* PassAll on a row with a lock cell leaves that cell; otherwise the
\* NewParent column is what is left.
root_lock_filter(r, at) ==
    row_key_lock_filter_with_indefinite(r, at) \/ newParent[r]

indefinite_row_key_lock_filter(r) == indefCells[r] # {}

indefinite_root_lock_filter(r) ==
    indefinite_row_key_lock_filter(r) \/ newParent[r]

\* Wrong: the value is not compared with operation_id.
row_key_renew_lock_filter_any_value(o, r) == lockCells[r] # {}

row_key_renew_lock_filter(o, r) == \E c \in lockCells[r] : c.op = o

\* PassAll leaves a cell exactly when the row has one.
RowHasCells(r) ==
    r \notin BareRows \/ newParent[r] \/ lockCells[r] # {} \/ indefCells[r] # {}

\* Wrong: a superseded root can be renewed.
renew_lock_filter_without_new_parent(o, r) ==
    ~row_key_renew_lock_filter(o, r) /\ RowHasCells(r)

renew_lock_filter(o, r) ==
    IF row_key_renew_lock_filter(o, r) THEN newParent[r] ELSE RowHasCells(r)

\* Wrong: the value is not compared with operation_id.
unlock_root_filter_any_value(o, r, at) == row_key_lock_filter(r, at)

unlock_root_filter(o, r, at) ==
    \E c \in lockCells[r] : c.op = o /\ c.ts >= at - Expiry

\* Wrong: the value is not compared with operation_id.
indefinite_unlock_root_filter_any_value(o, r) == indefCells[r] # {}

indefinite_unlock_root_filter(o, r) == o \in indefCells[r]

-----------------------------------------------------------------------------
(* The client sends a request.                                             *)

Send(o, r, call) ==
    /\ req[o][r] = Idle
    /\ \E at \in {t \in 0..now : now <= t + Skew} :
         req' = [req EXCEPT ![o][r] = [call |-> call, at |-> at, reply |-> "none"]]
    /\ UNCHANGED <<now, cells, newParent>>

\* A client that releases a lock no longer relies on it.
DropLease(o, r) == lease' = [lease EXCEPT ![o][r] = NoLease] /\ UNCHANGED heldIndef
DropIndef(o, r) == heldIndef' = [heldIndef EXCEPT ![o][r] = FALSE] /\ UNCHANGED lease

lock_root(o, r) ==
    r \in RootRows /\ Send(o, r, "lock_root") /\ UNCHANGED client
lock_root_indefinitely(o, r) ==
    r \in RootRows /\ Send(o, r, "lock_root_indefinitely") /\ UNCHANGED client
renew_lock(o, r) ==
    r \in RootRows /\ Send(o, r, "renew_lock") /\ UNCHANGED client
unlock_root(o, r) ==
    r \in RootRows /\ Send(o, r, "unlock_root") /\ DropLease(o, r)
unlock_indefinitely_locked_root(o, r) ==
    r \in RootRows /\ Send(o, r, "unlock_indefinitely_locked_root") /\ DropIndef(o, r)

lock_by_row_key(o, r) ==
    r \notin RootRows /\ Send(o, r, "lock_by_row_key") /\ UNCHANGED client
lock_by_row_key_with_indefinite(o, r) ==
    r \notin RootRows /\ Send(o, r, "lock_by_row_key_with_indefinite") /\ UNCHANGED client
lock_by_row_key_indefinitely(o, r) ==
    r \notin RootRows /\ Send(o, r, "lock_by_row_key_indefinitely") /\ UNCHANGED client
renew_lock_by_row_key(o, r) ==
    r \notin RootRows /\ Send(o, r, "renew_lock_by_row_key") /\ UNCHANGED client
unlock_by_row_key(o, r) ==
    r \notin RootRows /\ Send(o, r, "unlock_by_row_key") /\ DropLease(o, r)
unlock_indefinitely_locked_by_row_key(o, r) ==
    r \notin RootRows /\ Send(o, r, "unlock_indefinitely_locked_by_row_key") /\ DropIndef(o, r)

ClientCall(o, r) ==
    \/ lock_root(o, r)       \/ lock_root_indefinitely(o, r)
    \/ unlock_root(o, r)     \/ unlock_indefinitely_locked_root(o, r)
    \/ renew_lock(o, r)
    \/ lock_by_row_key(o, r) \/ lock_by_row_key_with_indefinite(o, r)
    \/ unlock_by_row_key(o, r)
    \/ lock_by_row_key_indefinitely(o, r)
    \/ unlock_indefinitely_locked_by_row_key(o, r)
    \/ renew_lock_by_row_key(o, r)

-----------------------------------------------------------------------------
(* The server runs check_and_mutate_row: one atomic step per request.      *)

Pending(o, r, call) == req[o][r].call = call /\ req[o][r].reply = "none"

Answer(o, r, applied) ==
    req' = [req EXCEPT ![o][r].reply = IF applied THEN "applied" ELSE "refused"]

\* Wrong: the cell is stamped with the cutoff of the filter.
set_lock_mutation_at_cutoff(column, o, at) ==
    {c \in column : c.ts # at - Expiry} \cup {[op |-> o, ts |-> at - Expiry]}

\* SetCell adds a version to the column; it replaces the one with its timestamp.
set_lock_mutation(column, o, at) == {c \in column : c.ts # at} \cup {[op |-> o, ts |-> at]}

SetLockIf(o, r, condition) ==
    /\ Answer(o, r, condition)
    /\ lockCells' = IF condition
                    THEN [lockCells EXCEPT ![r] = set_lock_mutation(@, o, req[o][r].at)]
                    ELSE lockCells
    /\ UNCHANGED <<now, indefCells, newParent, client>>

SetIndefIf(o, r, condition) ==
    /\ Answer(o, r, condition)
    /\ indefCells' = IF condition THEN [indefCells EXCEPT ![r] = @ \cup {o}] ELSE indefCells
    /\ UNCHANGED <<now, lockCells, newParent, client>>

\* Wrong: the mutation runs whether or not the filter matched.
DeleteLockAlways(o, r, condition) ==
    /\ Answer(o, r, condition)
    /\ lockCells' = [lockCells EXCEPT ![r] = {}]
    /\ UNCHANGED <<now, indefCells, newParent, client>>

\* DeleteRangeFromColumn without a range deletes every version.
DeleteLockIf(o, r, condition) ==
    /\ Answer(o, r, condition)
    /\ lockCells' = IF condition THEN [lockCells EXCEPT ![r] = {}] ELSE lockCells
    /\ UNCHANGED <<now, indefCells, newParent, client>>

DeleteIndefIf(o, r, condition) ==
    /\ Answer(o, r, condition)
    /\ indefCells' = IF condition THEN [indefCells EXCEPT ![r] = {}] ELSE indefCells
    /\ UNCHANGED <<now, lockCells, newParent, client>>

(* Assumption on the callers, for the calls in PromptCalls: such a request *)
(* reaches the server while its caller's lock cell, if there is one, has   *)
(* not expired.  No code of the client ensures it, and no filter checks it.*)
InTime(o, r, call) ==
    \/ call \notin PromptCalls
    \/ \A c \in lockCells[r] : c.op # o
    \/ \E c \in lockCells[r] : c.op = o /\ now <= c.ts + Expiry

ServeLock(o, r) ==
    LET at == req[o][r].at IN
    \/ Pending(o, r, "lock_root") /\ SetLockIf(o, r, ~root_lock_filter(r, at))
    \/ Pending(o, r, "lock_by_row_key") /\ SetLockIf(o, r, ~row_key_lock_filter(r, at))
    \/ /\ Pending(o, r, "lock_by_row_key_with_indefinite")
       /\ SetLockIf(o, r, ~row_key_lock_filter_with_indefinite(r, at))

ServeRenew(o, r) ==
    \/ /\ Pending(o, r, "renew_lock")
       /\ InTime(o, r, "renew_lock")
       /\ SetLockIf(o, r, ~renew_lock_filter(o, r))
    \/ /\ Pending(o, r, "renew_lock_by_row_key")
       /\ InTime(o, r, "renew_lock_by_row_key")
       /\ SetLockIf(o, r, row_key_renew_lock_filter(o, r))

ServeUnlock(o, r) ==
    \E call \in UnlockCalls :
        /\ Pending(o, r, call)
        /\ InTime(o, r, call)
        /\ DeleteLockIf(o, r, unlock_root_filter(o, r, req[o][r].at))

ServeIndefLock(o, r) ==
    \/ /\ Pending(o, r, "lock_root_indefinitely")
       /\ SetIndefIf(o, r, ~indefinite_root_lock_filter(r))
    \/ /\ Pending(o, r, "lock_by_row_key_indefinitely")
       /\ SetIndefIf(o, r, ~indefinite_row_key_lock_filter(r))

ServeIndefUnlock(o, r) ==
    \E call \in IndefUnlockCalls :
        /\ Pending(o, r, call)
        /\ DeleteIndefIf(o, r, indefinite_unlock_root_filter(o, r))

check_and_mutate_row(o, r) ==
    \/ ServeLock(o, r)      \/ ServeRenew(o, r)  \/ ServeUnlock(o, r)
    \/ ServeIndefLock(o, r) \/ ServeIndefUnlock(o, r)

-----------------------------------------------------------------------------
(* The request ends.                                                       *)

Done(o, r) == req' = [req EXCEPT ![o][r] = Idle] /\ UNCHANGED <<now, cells, newParent>>

\* The method returns whether its mutation ran.
Return(o, r) ==
    LET q == req[o][r] IN
    /\ q.reply # "none"
    /\ Done(o, r)
    /\ lease' = [lease EXCEPT ![o][r] =
           CASE q.call \in LockCalls \cup RenewCalls /\ q.reply = "applied" -> q.at
             [] q.call \in RenewCalls /\ q.reply = "refused" -> NoLease
             [] OTHER -> @]
    /\ heldIndef' = [heldIndef EXCEPT ![o][r] =
           @ \/ (q.call \in IndefLockCalls /\ q.reply = "applied")]

\* The method raises: the request or the answer is lost, or the deadline passes.
Raise(o, r) ==
    /\ req[o][r] # Idle
    /\ Done(o, r)
    /\ UNCHANGED client

\* The worker process of the operation dies.  Its cells stay.
Crash(o) ==
    /\ req' = [req EXCEPT ![o] = [r \in Rows |-> Idle]]
    /\ lease' = [lease EXCEPT ![o] = [r \in Rows |-> NoLease]]
    /\ heldIndef' = [heldIndef EXCEPT ![o] = [r \in Rows |-> FALSE]]
    /\ UNCHANGED <<now, cells, newParent>>

\* An edit writes the NewParent column of a root it replaces.
WriteNewParent(r) ==
    /\ r \in RootRows
    /\ newParent' = [newParent EXCEPT ![r] = TRUE]
    /\ UNCHANGED <<now, cells, req, client>>

\* No request outlives its deadline.
Tick ==
    /\ now < MaxTime
    /\ \A o \in Ops, r \in Rows : req[o][r] # Idle => now < req[o][r].at + Lag
    /\ now' = now + 1
    /\ UNCHANGED <<cells, newParent, req, client>>

Next ==
    \/ \E o \in Ops, r \in Rows :
          ClientCall(o, r) \/ check_and_mutate_row(o, r) \/ Return(o, r) \/ Raise(o, r)
    \/ \E o \in Ops : Crash(o)
    \/ \E r \in Rows : WriteNewParent(r)
    \/ Tick

Spec == Init /\ [][Next]_vars

-----------------------------------------------------------------------------
(* What the locks promise.                                                 *)

\* Every variable has its type.
TypeOK ==
    /\ now \in Nat
    /\ lockCells \in [Rows -> SUBSET Cell]
    /\ indefCells \in [Rows -> SUBSET Ops]
    /\ newParent \in [Rows -> BOOLEAN]
    /\ req \in [Ops -> [Rows -> Request]]
    /\ lease \in [Ops -> [Rows -> Nat \cup {NoLease}]]
    /\ heldIndef \in [Ops -> [Rows -> BOOLEAN]]

\* o may believe that it holds the temporal lock of r.
Holds(o, r) == lease[o][r] # NoLease /\ now <= lease[o][r] + Expiry

\* At most one operation believes that it holds the temporal lock of a row:
\* the purpose of every lock method (base.py: "to prevent race conditions").
MutualExclusion ==
    \A r \in Rows : \A o, p \in Ops : Holds(o, r) /\ Holds(p, r) => o = p

\* get_lock_timestamp: the newest version decides whose lock a row has.
Newest(r) == CHOOSE c \in lockCells[r] : \A d \in lockCells[r] : d.ts <= c.ts
get_lock_timestamp(o, r) ==
    IF lockCells[r] # {} /\ Newest(r).op = o THEN Newest(r).ts ELSE NoLease

\* While an operation holds a row, the newest lock cell of the row is its own
\* and at least as new as the grant: nobody overwrote or removed it, and
\* get_lock_timestamp finds it.
HolderFindsLock ==
    \A r \in Rows, o \in Ops :
        Holds(o, r) => get_lock_timestamp(o, r) >= lease[o][r]

\* An indefinite lock belongs to one operation, and its cell stays until that
\* operation's own unlock, whatever the others and the clock do.
IndefiniteExclusive ==
    \A r \in Rows, o \in Ops : heldIndef[o][r] => indefCells[r] = {o}

\* A root that has a NewParent gains no lock, temporal or indefinite
\* (get_root_lock_filter: "a superseded root cannot be acquired").
SupersededNotLocked ==
    [][\A r \in RootRows : newParent[r] =>
          /\ lockCells'[r] \subseteq lockCells[r]
          /\ indefCells'[r] \subseteq indefCells[r]]_vars

\* An operation without a lock cell on a row gains none while another
\* operation's indefinite cell is there, even one left by a crashed worker.
\* lock_by_row_key is the documented exception.
IndefiniteBlocks ==
    [][\A r \in Rows, o \in Ops :
          /\ ~ \E c \in lockCells[r] : c.op = o
          /\ indefCells[r] \ {o} # {}
          /\ req[o][r].call # "lock_by_row_key"
          => ~ \E c \in lockCells'[r] : c.op = o]_vars

\* A row loses an unexpired lock cell only to its own operation.
OnlyOwnerUnlocks ==
    [][\A r \in Rows : \A c \in lockCells[r] \ lockCells'[r] :
          now <= c.ts + Expiry =>
              /\ req[c.op][r].call \in UnlockCalls
              /\ req'[c.op][r].reply # req[c.op][r].reply]_vars

-----------------------------------------------------------------------------
(* The abstract lock: its owner is the operation of the newest lock cell.  *)

OwnerOf(r)      == IF lockCells[r] = {} THEN NoOp ELSE Newest(r).op
UntilOf(r)      == IF lockCells[r] = {} THEN 0 ELSE Newest(r).ts + Expiry
IndefOwnerOf(r) == IF indefCells[r] = {} THEN NoOp ELSE CHOOSE o \in indefCells[r] : TRUE

Lease == INSTANCE LeaseLock WITH
    owner      <- [r \in Rows |-> OwnerOf(r)],
    until      <- [r \in Rows |-> UntilOf(r)],
    indefOwner <- [r \in Rows |-> IndefOwnerOf(r)],
    superseded <- newParent

\* With renewals and unlocks in time, the cells and filters implement the
\* abstract lock: a request granted, renewed or released is a grant, an
\* extension or a release by the owner, and every other step changes nothing.
ImplementsLease == Lease!Spec
=============================================================================
