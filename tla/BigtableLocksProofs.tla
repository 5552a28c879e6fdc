------------------------ MODULE BigtableLocksProofs ------------------------
(***************************************************************************)
(* Proofs about BigtableLocks, for every set of rows and operations and    *)
(* every value of the times.                                               *)
(***************************************************************************)
EXTENDS BigtableLocks, TLAPS

-----------------------------------------------------------------------------
(* The inductive invariant.                                                *)

\* A request in flight is within its deadline.
ReqInv ==
    \A o \in Ops, r \in Rows :
        req[o][r] # Idle => req[o][r].at <= now /\ now <= req[o][r].at + Lag

\* Cells are not from the future; cells of two operations have different
\* timestamps and the older one has expired; a nonempty column has a newest cell.
CellInv ==
    \A r \in Rows :
        /\ \A c \in lockCells[r] : c.ts <= now
        /\ \A c, d \in lockCells[r] :
              c.op # d.op => c.ts # d.ts /\ (c.ts < d.ts => c.ts + Expiry < now)
        /\ lockCells[r] # {} => \E c \in lockCells[r] : \A d \in lockCells[r] : d.ts <= c.ts

\* A lock that is believed, or about to be, has its cell.
ClaimInv ==
    \A o \in Ops, r \in Rows :
        /\ Holds(o, r) => [op |-> o, ts |-> lease[o][r]] \in lockCells[r]
        /\ /\ req[o][r].call \in LockCalls \cup RenewCalls
           /\ req[o][r].reply = "applied"
           => [op |-> o, ts |-> req[o][r].at] \in lockCells[r]
        /\ req[o][r].call \in UnlockCalls => lease[o][r] = NoLease

LockInv == TypeOK /\ ReqInv /\ CellInv /\ ClaimInv

\* The indefinite column has at most one operation; a lock that is believed,
\* or about to be, has its cell.
IndefInv ==
    \A o \in Ops, r \in Rows :
        /\ \A p, q \in indefCells[r] : p = q
        /\ heldIndef[o][r] => o \in indefCells[r]
        /\ req[o][r].call \in IndefLockCalls /\ req[o][r].reply = "applied"
           => o \in indefCells[r]
        /\ req[o][r].call \in IndefUnlockCalls => ~heldIndef[o][r]

-----------------------------------------------------------------------------
(* What the actions have in common.                                        *)

\* A client call sends one request and drops the belief it is about to undo.
LEMMA CallForm ==
    ASSUME NEW o \in Ops, NEW r \in Rows, ClientCall(o, r)
    PROVE  \E call \in Calls :
              /\ Send(o, r, call)
              /\ IF call \in UnlockCalls THEN DropLease(o, r)
                 ELSE IF call \in IndefUnlockCalls THEN DropIndef(o, r)
                 ELSE UNCHANGED client
BY DEF ClientCall, lock_root, lock_root_indefinitely, unlock_root,
       unlock_indefinitely_locked_root, renew_lock, lock_by_row_key,
       lock_by_row_key_with_indefinite, unlock_by_row_key,
       lock_by_row_key_indefinitely, unlock_indefinitely_locked_by_row_key,
       renew_lock_by_row_key, Calls, LockCalls, RenewCalls, UnlockCalls,
       IndefLockCalls, IndefUnlockCalls

\* A served request is refused, or it runs one of the four mutations.
Served(o, r, reply) ==
    req[o][r].reply = "none" /\ req' = [req EXCEPT ![o][r].reply = reply]

Refuse(o, r) ==
    Served(o, r, "refused") /\ UNCHANGED <<now, cells, newParent, client>>
SetLock(o, r) ==
    /\ Served(o, r, "applied")
    /\ lockCells' = [lockCells EXCEPT ![r] = set_lock_mutation(@, o, req[o][r].at)]
    /\ UNCHANGED <<now, indefCells, newParent, client>>
DeleteLock(o, r) ==
    /\ Served(o, r, "applied")
    /\ lockCells' = [lockCells EXCEPT ![r] = {}]
    /\ UNCHANGED <<now, indefCells, newParent, client>>
SetIndef(o, r) ==
    /\ Served(o, r, "applied")
    /\ indefCells' = [indefCells EXCEPT ![r] = @ \cup {o}]
    /\ UNCHANGED <<now, lockCells, newParent, client>>
DeleteIndef(o, r) ==
    /\ Served(o, r, "applied")
    /\ indefCells' = [indefCells EXCEPT ![r] = {}]
    /\ UNCHANGED <<now, lockCells, newParent, client>>

\* An acquire sets its cell only when no unexpired lock cell is there.
LEMMA ServeLockForm ==
    ASSUME NEW o \in Ops, NEW r \in Rows, ServeLock(o, r)
    PROVE  /\ req[o][r].call \in LockCalls
           /\ \/ Refuse(o, r)
              \/ /\ SetLock(o, r)
                 /\ ~row_key_lock_filter(r, req[o][r].at)
                 /\ req[o][r].call # "lock_by_row_key" => indefCells[r] = {}
                 /\ req[o][r].call = "lock_root" => ~newParent[r]
<1>1. CASE /\ Pending(o, r, "lock_root")
           /\ SetLockIf(o, r, ~root_lock_filter(r, req[o][r].at))
  BY <1>1 DEF Pending, LockCalls, root_lock_filter, row_key_lock_filter_with_indefinite,
              SetLockIf, Answer, Served, Refuse, SetLock, cells
<1>2. CASE /\ Pending(o, r, "lock_by_row_key")
           /\ SetLockIf(o, r, ~row_key_lock_filter(r, req[o][r].at))
  BY <1>2 DEF Pending, LockCalls, SetLockIf, Answer, Served, Refuse, SetLock, cells
<1>3. CASE /\ Pending(o, r, "lock_by_row_key_with_indefinite")
           /\ SetLockIf(o, r, ~row_key_lock_filter_with_indefinite(r, req[o][r].at))
  BY <1>3 DEF Pending, LockCalls, row_key_lock_filter_with_indefinite,
              SetLockIf, Answer, Served, Refuse, SetLock, cells
<1> QED BY <1>1, <1>2, <1>3 DEF ServeLock

\* A renewal sets its cell only on a cell of its own, or on an empty row.
LEMMA ServeRenewForm ==
    ASSUME NEW o \in Ops, NEW r \in Rows, ServeRenew(o, r)
    PROVE  /\ req[o][r].call \in RenewCalls
           /\ InTime(o, r, req[o][r].call)
           /\ \/ Refuse(o, r)
              \/ /\ SetLock(o, r)
                 /\ \/ \E c \in lockCells[r] : c.op = o
                    \/ lockCells[r] = {} /\ indefCells[r] = {}
                 /\ req[o][r].call = "renew_lock" => ~newParent[r]
<1>1. CASE /\ Pending(o, r, "renew_lock")
           /\ InTime(o, r, "renew_lock")
           /\ SetLockIf(o, r, ~renew_lock_filter(o, r))
  BY <1>1 DEF Pending, RenewCalls, renew_lock_filter, row_key_renew_lock_filter, RowHasCells,
              SetLockIf, Answer, Served, Refuse, SetLock, cells
<1>2. CASE /\ Pending(o, r, "renew_lock_by_row_key")
           /\ InTime(o, r, "renew_lock_by_row_key")
           /\ SetLockIf(o, r, row_key_renew_lock_filter(o, r))
  BY <1>2 DEF Pending, RenewCalls, row_key_renew_lock_filter,
              SetLockIf, Answer, Served, Refuse, SetLock, cells
<1> QED BY <1>1, <1>2 DEF ServeRenew

\* An unlock deletes the column only when it finds a cell of its own.
LEMMA ServeUnlockForm ==
    ASSUME NEW o \in Ops, NEW r \in Rows, ServeUnlock(o, r)
    PROVE  /\ req[o][r].call \in UnlockCalls
           /\ InTime(o, r, req[o][r].call)
           /\ \/ Refuse(o, r)
              \/ DeleteLock(o, r) /\ \E c \in lockCells[r] : c.op = o
<1> PICK call \in UnlockCalls :
        /\ Pending(o, r, call) /\ InTime(o, r, call)
        /\ DeleteLockIf(o, r, unlock_root_filter(o, r, req[o][r].at))
  BY DEF ServeUnlock
<1> QED BY DEF Pending, unlock_root_filter, DeleteLockIf, Answer, Served, Refuse,
               DeleteLock, cells

\* An indefinite lock is set only in an empty column, and not on a superseded root.
LEMMA ServeIndefLockForm ==
    ASSUME NEW o \in Ops, NEW r \in Rows, ServeIndefLock(o, r)
    PROVE  /\ req[o][r].call \in IndefLockCalls
           /\ \/ Refuse(o, r)
              \/ /\ SetIndef(o, r)
                 /\ indefCells[r] = {}
                 /\ req[o][r].call = "lock_root_indefinitely" => ~newParent[r]
<1>1. CASE /\ Pending(o, r, "lock_root_indefinitely")
           /\ SetIndefIf(o, r, ~indefinite_root_lock_filter(r))
  BY <1>1 DEF Pending, IndefLockCalls, indefinite_root_lock_filter,
              indefinite_row_key_lock_filter, SetIndefIf, Answer, Served, Refuse, SetIndef, cells
<1>2. CASE /\ Pending(o, r, "lock_by_row_key_indefinitely")
           /\ SetIndefIf(o, r, ~indefinite_row_key_lock_filter(r))
  BY <1>2 DEF Pending, IndefLockCalls, indefinite_row_key_lock_filter,
              SetIndefIf, Answer, Served, Refuse, SetIndef, cells
<1> QED BY <1>1, <1>2 DEF ServeIndefLock

\* An indefinite unlock deletes the column only when it holds its own cell.
LEMMA ServeIndefUnlockForm ==
    ASSUME NEW o \in Ops, NEW r \in Rows, ServeIndefUnlock(o, r)
    PROVE  /\ req[o][r].call \in IndefUnlockCalls
           /\ \/ Refuse(o, r)
              \/ DeleteIndef(o, r) /\ o \in indefCells[r]
<1> PICK call \in IndefUnlockCalls :
        /\ Pending(o, r, call)
        /\ DeleteIndefIf(o, r, indefinite_unlock_root_filter(o, r))
  BY DEF ServeIndefUnlock
<1> QED BY DEF Pending, indefinite_unlock_root_filter, DeleteIndefIf, Answer, Served,
               Refuse, DeleteIndef, cells

-----------------------------------------------------------------------------
(* Type correctness.                                                       *)

LEMMA IdleIsRequest == Idle \in Request
BY DEF Idle, Request, Reply

LEMMA SendType ==
    ASSUME TypeOK, NEW o \in Ops, NEW r \in Rows, NEW call \in Calls, Send(o, r, call)
    PROVE  req' \in [Ops -> [Rows -> Request]]
<1> PICK at \in {t \in 0..now : now <= t + Skew} :
         req' = [req EXCEPT ![o][r] = [call |-> call, at |-> at, reply |-> "none"]]
  BY DEF Send
<1>1. at \in Nat
  BY DEF TypeOK
<1>2. [call |-> call, at |-> at, reply |-> "none"] \in Request
  BY <1>1 DEF Request, Reply
<1> QED BY <1>2 DEF TypeOK

LEMMA ServedType ==
    ASSUME TypeOK, NEW o \in Ops, NEW r \in Rows, NEW reply \in Reply, Served(o, r, reply)
    PROVE  req' \in [Ops -> [Rows -> Request]]
<1> DEFINE q == req[o][r]
<1>1. q \in Request
  BY DEF TypeOK
<1>2. [q EXCEPT !.reply = reply] \in Request
  <2> HIDE DEF q
  <2> QED BY <1>1 DEF Request
<1> QED BY <1>2 DEF TypeOK, Served

LEMMA SetLockType ==
    ASSUME TypeOK, NEW o \in Ops, NEW r \in Rows, SetLock(o, r)
    PROVE  lockCells' \in [Rows -> SUBSET Cell]
<1>1. req[o][r].at \in Nat
  BY DEF TypeOK, Request
<1>2. [op |-> o, ts |-> req[o][r].at] \in Cell
  BY <1>1 DEF Cell
<1>3. set_lock_mutation(lockCells[r], o, req[o][r].at) \in SUBSET Cell
  BY <1>2 DEF TypeOK, set_lock_mutation
<1> QED BY <1>3 DEF TypeOK, SetLock

\* The steps that change req only, or req and one column.
LEMMA ServeType ==
    ASSUME TypeOK, NEW o \in Ops, NEW r \in Rows,
           \/ Refuse(o, r) \/ SetLock(o, r) \/ DeleteLock(o, r)
           \/ SetIndef(o, r) \/ DeleteIndef(o, r)
    PROVE  TypeOK'
<1> "applied" \in Reply /\ "refused" \in Reply
  BY DEF Reply
<1>1. CASE Refuse(o, r)
  BY <1>1, ServedType DEF Refuse, TypeOK, cells, client
<1>2. CASE SetLock(o, r)
  BY <1>2, ServedType, SetLockType DEF SetLock, TypeOK, client
<1>3. CASE DeleteLock(o, r)
  BY <1>3, ServedType DEF DeleteLock, TypeOK, client
<1>4. CASE SetIndef(o, r)
  BY <1>4, ServedType DEF SetIndef, TypeOK, client
<1>5. CASE DeleteIndef(o, r)
  BY <1>5, ServedType DEF DeleteIndef, TypeOK, client
<1> QED BY <1>1, <1>2, <1>3, <1>4, <1>5

LEMMA ReturnType ==
    ASSUME TypeOK, NEW o \in Ops, NEW r \in Rows, Return(o, r)
    PROVE  TypeOK'
<1>1. req' \in [Ops -> [Rows -> Request]]
  BY IdleIsRequest DEF Return, Done, TypeOK
<1>2. req[o][r].at \in Nat
  BY DEF TypeOK, Request
<1>3. lease' \in [Ops -> [Rows -> Nat \cup {NoLease}]]
  <2>1. PICK stamp \in {req[o][r].at, NoLease, lease[o][r]} :
           lease' = [lease EXCEPT ![o][r] = stamp]
    BY DEF Return
  <2> QED BY <1>2, <2>1 DEF TypeOK
<1>4. heldIndef' \in [Ops -> [Rows -> BOOLEAN]]
  <2>1. PICK held \in BOOLEAN : heldIndef' = [heldIndef EXCEPT ![o][r] = held]
    BY Zenon DEF Return, TypeOK
  <2> QED BY <2>1 DEF TypeOK
<1> QED BY <1>1, <1>3, <1>4 DEF Return, Done, TypeOK, cells

\* A call names no value that the variables cannot hold.
LEMMA CallType ==
    ASSUME TypeOK, NEW o \in Ops, NEW r \in Rows, ClientCall(o, r)
    PROVE  TypeOK'
<1> PICK call \in Calls :
        /\ Send(o, r, call)
        /\ IF call \in UnlockCalls THEN DropLease(o, r)
           ELSE IF call \in IndefUnlockCalls THEN DropIndef(o, r)
           ELSE UNCHANGED client
  BY CallForm
<1>1. req' \in [Ops -> [Rows -> Request]]
  BY SendType
<1>2. UNCHANGED <<now, cells, newParent>>
  BY DEF Send
<1>a. DropLease(o, r) \/ DropIndef(o, r) \/ UNCHANGED client
  OBVIOUS
<1>3. /\ lease' \in [Ops -> [Rows -> Nat \cup {NoLease}]]
      /\ heldIndef' \in [Ops -> [Rows -> BOOLEAN]]
  <2>1. CASE DropLease(o, r)
    BY <2>1 DEF DropLease, TypeOK
  <2>2. CASE DropIndef(o, r)
    BY <2>2 DEF DropIndef, TypeOK
  <2>3. CASE UNCHANGED client
    BY <2>3 DEF client, TypeOK
  <2> QED BY <1>a, <2>1, <2>2, <2>3
<1> QED BY <1>1, <1>2, <1>3 DEF TypeOK, cells

\* A served request is one of the forms above.
LEMMA ServeForms ==
    ASSUME NEW o \in Ops, NEW r \in Rows, check_and_mutate_row(o, r)
    PROVE  \/ Refuse(o, r) \/ SetLock(o, r) \/ DeleteLock(o, r)
           \/ SetIndef(o, r) \/ DeleteIndef(o, r)
BY ServeLockForm, ServeRenewForm, ServeUnlockForm, ServeIndefLockForm, ServeIndefUnlockForm
   DEF check_and_mutate_row

LEMMA TypeInit == Init => TypeOK
BY IdleIsRequest DEF Init, TypeOK, NoLease

LEMMA TypeNext == TypeOK /\ [Next]_vars => TypeOK'
<1> SUFFICES ASSUME TypeOK, [Next]_vars PROVE TypeOK'
  OBVIOUS
<1>1. ASSUME NEW o \in Ops, NEW r \in Rows, ClientCall(o, r) PROVE TypeOK'
  BY <1>1, CallType
<1>2. ASSUME NEW o \in Ops, NEW r \in Rows, check_and_mutate_row(o, r) PROVE TypeOK'
  BY <1>2, ServeForms, ServeType
<1>3. ASSUME NEW o \in Ops, NEW r \in Rows, Return(o, r) PROVE TypeOK'
  BY <1>3, ReturnType
<1>4. ASSUME NEW o \in Ops, NEW r \in Rows, Raise(o, r) PROVE TypeOK'
  BY <1>4, IdleIsRequest DEF Raise, Done, TypeOK, cells, client
<1>5. ASSUME NEW o \in Ops, Crash(o) PROVE TypeOK'
  BY <1>5, IdleIsRequest DEF Crash, TypeOK, cells
<1>6. ASSUME NEW r \in Rows, WriteNewParent(r) PROVE TypeOK'
  BY <1>6 DEF WriteNewParent, TypeOK, cells, client
<1>7. CASE Tick
  BY <1>7 DEF Tick, TypeOK, cells, client
<1>8. CASE UNCHANGED vars
  BY <1>8 DEF vars, TypeOK
<1> QED BY <1>1, <1>2, <1>3, <1>4, <1>5, <1>6, <1>7, <1>8 DEF Next

\* Every variable keeps its type.
THEOREM TypeCorrect == Spec => []TypeOK
BY TypeInit, TypeNext, PTL DEF Spec

-----------------------------------------------------------------------------
(* Mutual exclusion.                                                       *)

\* With renewals and unlocks in time, a mutation of the Lock column finds
\* every cell of the other operations expired.
Clear(o, r) == \A c \in lockCells[r] : c.op # o => c.ts + Expiry < now /\ c.ts < req[o][r].at

AllPrompt == RenewCalls \cup UnlockCalls \subseteq PromptCalls

LEMMA ReqOfPending ==
    ASSUME TypeOK, ReqInv, NEW o \in Ops, NEW r \in Rows, req[o][r].call # "idle"
    PROVE  /\ req[o][r].at \in Nat
           /\ req[o][r].at <= now /\ now <= req[o][r].at + Lag
<1>1. req[o][r] # Idle
  BY DEF Idle
<1> QED BY <1>1 DEF TypeOK, Request, ReqInv

LEMMA AcquireClear ==
    ASSUME TypeOK, ReqInv, NEW o \in Ops, NEW r \in Rows, req[o][r].call # "idle",
           ~row_key_lock_filter(r, req[o][r].at)
    PROVE  Clear(o, r) /\ \A c \in lockCells[r] : c.ts < req[o][r].at
<1> SUFFICES ASSUME NEW c \in lockCells[r]
             PROVE  c.ts + Expiry < now /\ c.ts < req[o][r].at
  BY DEF Clear
<1>1. c.ts \in Nat
  BY DEF TypeOK, Cell
<1>2. ~(c.ts >= req[o][r].at - Expiry)
  BY DEF row_key_lock_filter
<1> QED BY <1>1, <1>2, ReqOfPending, LockConstants DEF TypeOK

\* A live cell of its own shows an operation that nobody else's is live.
LEMMA OwnCellClear ==
    ASSUME TypeOK, ReqInv, CellInv, AllPrompt, NEW o \in Ops, NEW r \in Rows,
           req[o][r].call \in RenewCalls \cup UnlockCalls,
           InTime(o, r, req[o][r].call),
           \E c \in lockCells[r] : c.op = o
    PROVE  Clear(o, r)
<1>1. PICK own \in lockCells[r] : own.op = o /\ now <= own.ts + Expiry
  BY DEF InTime, AllPrompt
<1> SUFFICES ASSUME NEW c \in lockCells[r], c.op # o
             PROVE  c.ts + Expiry < now /\ c.ts < req[o][r].at
  BY DEF Clear
<1>2. c.ts \in Nat /\ own.ts \in Nat
  BY DEF TypeOK, Cell
<1>3. c.ts # own.ts /\ (c.ts < own.ts => c.ts + Expiry < now)
                    /\ (own.ts < c.ts => own.ts + Expiry < now)
  BY <1>1 DEF CellInv
<1>4. req[o][r].call # "idle"
  BY DEF RenewCalls, UnlockCalls
<1>5. now \in Nat /\ Expiry \in Nat /\ Lag \in Nat /\ Lag <= Expiry
  BY LockConstants DEF TypeOK
<1>6. c.ts + Expiry < now
  BY <1>1, <1>2, <1>3, <1>5
<1>7. req[o][r].at \in Nat /\ now <= req[o][r].at + Lag
  BY <1>4, ReqOfPending
<1> QED BY <1>2, <1>5, <1>6, <1>7

\* What another operation may still rely on is not a clear row's business.
LEMMA ClearNoClaim ==
    ASSUME TypeOK, ReqInv, ClaimInv, NEW o \in Ops, NEW p \in Ops, NEW r \in Rows,
           Clear(o, r), p # o
    PROVE  /\ ~Holds(p, r)
           /\ ~(req[p][r].call \in LockCalls \cup RenewCalls /\ req[p][r].reply = "applied")
<1>1. ASSUME Holds(p, r) PROVE FALSE
  <2>1. [op |-> p, ts |-> lease[p][r]] \in lockCells[r]
    BY <1>1 DEF ClaimInv
  <2>2. lease[p][r] + Expiry < now
    BY <2>1 DEF Clear
  <2>3. lease[p][r] \in Nat
    BY <1>1 DEF Holds, TypeOK
  <2> QED BY <1>1, <2>2, <2>3, LockConstants DEF Holds, TypeOK
<1>2. ASSUME req[p][r].call \in LockCalls \cup RenewCalls, req[p][r].reply = "applied"
      PROVE  FALSE
  <2>1. [op |-> p, ts |-> req[p][r].at] \in lockCells[r]
    BY <1>2 DEF ClaimInv
  <2>2. req[p][r].at + Expiry < now
    BY <2>1 DEF Clear
  <2>3. req[p][r].call # "idle"
    BY <1>2 DEF LockCalls, RenewCalls
  <2> QED BY <2>2, <2>3, ReqOfPending, LockConstants DEF TypeOK
<1> QED BY <1>1, <1>2

LEMMA SetLockInv ==
    ASSUME LockInv, NEW o \in Ops, NEW r \in Rows, SetLock(o, r), Clear(o, r),
           req[o][r].call \in LockCalls \cup RenewCalls
    PROVE  (ReqInv /\ CellInv /\ ClaimInv)'
<1> DEFINE at  == req[o][r].at
           new == [op |-> o, ts |-> at]
<1> USE DEF LockInv
<1>1. req[o][r].call # "idle"
  BY DEF LockCalls, RenewCalls
<1>2. at \in Nat /\ at <= now /\ now <= at + Lag
  BY <1>1, ReqOfPending
<1>3. /\ lockCells'[r] = {c \in lockCells[r] : c.ts # at} \cup {new}
      /\ \A s \in Rows : s # r => lockCells'[s] = lockCells[s]
  BY DEF SetLock, set_lock_mutation, TypeOK
<1>4. /\ req'[o][r].call = req[o][r].call /\ req'[o][r].at = at
      /\ req'[o][r].reply = "applied"
      /\ \A p \in Ops, s \in Rows : p # o \/ s # r => req'[p][s] = req[p][s]
  BY DEF SetLock, Served, TypeOK, Request
<1>5. now' = now /\ lease' = lease /\ now \in Nat
  BY DEF SetLock, client, TypeOK
<1>6. ReqInv'
  BY <1>1, <1>2, <1>4, <1>5 DEF ReqInv, Idle
<1>7. CellInv'
  <2> SUFFICES ASSUME NEW s \in Rows
      PROVE  /\ \A c \in lockCells'[s] : c.ts <= now
             /\ \A c, d \in lockCells'[s] :
                   c.op # d.op => c.ts # d.ts /\ (c.ts < d.ts => c.ts + Expiry < now)
             /\ lockCells'[s] # {} =>
                   \E c \in lockCells'[s] : \A d \in lockCells'[s] : d.ts <= c.ts
    BY <1>5 DEF CellInv
  <2>1. CASE s # r
    BY <1>3, <2>1 DEF CellInv
  <2>2. CASE s = r
    <3>1. \A c \in lockCells[r] : c.ts \in Nat /\ c.ts <= now
      BY DEF TypeOK, Cell, CellInv
    <3>2. new.op = o /\ new.ts = at
      OBVIOUS
    <3>3. \A c \in lockCells'[r] : c.ts \in Nat /\ c.ts <= now
      BY <1>2, <1>3, <3>1, <3>2
    <3>4. ASSUME NEW c \in lockCells'[r], NEW d \in lockCells'[r], c.op # d.op
          PROVE  c.ts # d.ts /\ (c.ts < d.ts => c.ts + Expiry < now)
      <4>1. CASE c \in lockCells[r] /\ d \in lockCells[r]
        BY <3>4, <4>1 DEF CellInv
      <4>2. CASE c \in lockCells[r] /\ d = new
        BY <1>2, <3>1, <3>2, <3>4, <4>2 DEF Clear
      <4>3. CASE c = new /\ d \in lockCells[r]
        <5>1. d.ts < at
          BY <3>2, <3>4, <4>3 DEF Clear
        <5> QED BY <1>2, <3>1, <3>2, <4>3, <5>1
      <4> QED BY <1>3, <3>4, <4>1, <4>2, <4>3
    <3>5. \E c \in lockCells'[r] : \A d \in lockCells'[r] : d.ts <= c.ts
      <4>1. CASE \A d \in lockCells[r] : d.ts <= at
        <5>1. new \in lockCells'[r] /\ at <= at
          BY <1>2, <1>3
        <5>2. \A d \in lockCells'[r] : d.ts <= new.ts
          BY <1>3, <3>2, <4>1, <5>1
        <5> QED BY <5>1, <5>2
      <4>2. CASE \E d \in lockCells[r] : ~(d.ts <= at)
        <5>1. PICK m \in lockCells[r] : \A d \in lockCells[r] : d.ts <= m.ts
          BY <4>2 DEF CellInv
        <5>2. at < m.ts
          BY <1>2, <3>1, <4>2, <5>1
        <5>3. m \in lockCells'[r]
          BY <1>2, <1>3, <3>1, <5>2
        <5> QED BY <1>2, <1>3, <3>1, <3>2, <5>1, <5>2, <5>3
      <4> QED BY <4>1, <4>2
    <3> QED BY <2>2, <3>3, <3>4, <3>5
  <2> QED BY <2>1, <2>2
<1>8. ClaimInv'
  <2> SUFFICES ASSUME NEW p \in Ops, NEW s \in Rows
      PROVE  /\ Holds(p, s) => [op |-> p, ts |-> lease[p][s]] \in lockCells'[s]
             /\ /\ req'[p][s].call \in LockCalls \cup RenewCalls
                /\ req'[p][s].reply = "applied"
                => [op |-> p, ts |-> req'[p][s].at] \in lockCells'[s]
             /\ req'[p][s].call \in UnlockCalls => lease[p][s] = NoLease
    BY <1>5 DEF ClaimInv, Holds
  <2>1. CASE s # r
    BY <1>3, <1>4, <2>1 DEF ClaimInv
  <2>2. CASE s = r /\ p # o
    <3>1. req'[p][r] = req[p][r]
      BY <1>4, <2>2
    <3>2. /\ ~Holds(p, r)
          /\ ~(req[p][r].call \in LockCalls \cup RenewCalls /\ req[p][r].reply = "applied")
      BY <2>2, ClearNoClaim
    <3>3. req[p][r].call \in UnlockCalls => lease[p][r] = NoLease
      BY DEF ClaimInv
    <3> QED BY <2>2, <3>1, <3>2, <3>3, Zenon
  <2>3. CASE s = r /\ p = o
    <3>1. Holds(o, r) => [op |-> o, ts |-> lease[o][r]] \in lockCells'[r]
      BY <1>3 DEF ClaimInv
    <3> QED BY <1>3, <1>4, <2>3, <3>1 DEF ClaimInv
  <2> QED BY <2>1, <2>2, <2>3
<1> QED BY <1>6, <1>7, <1>8

LEMMA DeleteLockInv ==
    ASSUME LockInv, NEW o \in Ops, NEW r \in Rows, DeleteLock(o, r), Clear(o, r),
           req[o][r].call \in UnlockCalls
    PROVE  (ReqInv /\ CellInv /\ ClaimInv)'
<1> USE DEF LockInv
<1>1. req[o][r].call # "idle" /\ req[o][r].call \notin LockCalls \cup RenewCalls
  BY DEF UnlockCalls, LockCalls, RenewCalls
<1>2. lockCells'[r] = {} /\ \A s \in Rows : s # r => lockCells'[s] = lockCells[s]
  BY DEF DeleteLock, TypeOK
<1>3. /\ req'[o][r].call = req[o][r].call /\ req'[o][r].at = req[o][r].at
      /\ \A p \in Ops, s \in Rows : p # o \/ s # r => req'[p][s] = req[p][s]
  BY DEF DeleteLock, Served, TypeOK, Request
<1>4. now' = now /\ lease' = lease
  BY DEF DeleteLock, client
<1>5. ReqInv'
  BY <1>1, <1>3, <1>4, ReqOfPending DEF ReqInv
<1>6. CellInv'
  BY <1>2, <1>4 DEF CellInv
<1>7. ClaimInv'
  <2> SUFFICES ASSUME NEW p \in Ops, NEW s \in Rows
      PROVE  /\ Holds(p, s) => [op |-> p, ts |-> lease[p][s]] \in lockCells'[s]
             /\ /\ req'[p][s].call \in LockCalls \cup RenewCalls
                /\ req'[p][s].reply = "applied"
                => [op |-> p, ts |-> req'[p][s].at] \in lockCells'[s]
             /\ req'[p][s].call \in UnlockCalls => lease[p][s] = NoLease
    BY <1>4 DEF ClaimInv, Holds
  <2>1. CASE s # r
    BY <1>2, <1>3, <2>1 DEF ClaimInv
  <2>2. CASE s = r /\ p # o
    <3>1. req'[p][r] = req[p][r]
      BY <1>3, <2>2
    <3>2. /\ ~Holds(p, r)
          /\ ~(req[p][r].call \in LockCalls \cup RenewCalls /\ req[p][r].reply = "applied")
      BY <2>2, ClearNoClaim
    <3>3. req[p][r].call \in UnlockCalls => lease[p][r] = NoLease
      BY DEF ClaimInv
    <3> QED BY <2>2, <3>1, <3>2, <3>3, Zenon
  <2>3. CASE s = r /\ p = o
    BY <1>1, <1>3, <2>3 DEF ClaimInv, Holds
  <2> QED BY <2>1, <2>2, <2>3
<1> QED BY <1>5, <1>6, <1>7

\* A step that leaves the clock and the Lock columns alone keeps the invariant
\* when every request is as before, over, new, or answered without a grant,
\* and every belief is as before, dropped, or the one just granted.
SameOrQuietReq(p, s) ==
    \/ req'[p][s] = Idle
    \/ req'[p][s] = req[p][s]
    \/ /\ req[p][s].call # "idle"
       /\ req'[p][s].call = req[p][s].call /\ req'[p][s].at = req[p][s].at
       /\ req[p][s].call \in LockCalls \cup RenewCalls => req'[p][s].reply # "applied"
    \/ req'[p][s].reply = "none" /\ req'[p][s].at <= now /\ now <= req'[p][s].at + Lag

SameOrQuietLease(p, s) ==
    \/ lease'[p][s] = NoLease
    \/ lease'[p][s] = lease[p][s]
       /\ (req'[p][s].call \in UnlockCalls => req[p][s].call \in UnlockCalls)
    \/ /\ req[p][s].call \in LockCalls \cup RenewCalls /\ req[p][s].reply = "applied"
       /\ lease'[p][s] = req[p][s].at
       /\ req'[p][s] = Idle

LEMMA QuietInv ==
    ASSUME LockInv, UNCHANGED <<now, lockCells>>,
           \A p \in Ops, s \in Rows : SameOrQuietReq(p, s) /\ SameOrQuietLease(p, s)
    PROVE  (ReqInv /\ CellInv /\ ClaimInv)'
<1> USE DEF LockInv
<1>1. ReqInv'
  <2> SUFFICES ASSUME NEW p \in Ops, NEW s \in Rows, req'[p][s] # Idle
               PROVE  req'[p][s].at <= now /\ now <= req'[p][s].at + Lag
    BY DEF ReqInv
  <2> QED BY ReqOfPending DEF ReqInv, SameOrQuietReq
<1>2. CellInv'
  BY DEF CellInv
<1>3. ClaimInv'
  <2> SUFFICES ASSUME NEW p \in Ops, NEW s \in Rows
      PROVE  /\ Holds(p, s)' => [op |-> p, ts |-> lease'[p][s]] \in lockCells[s]
             /\ /\ req'[p][s].call \in LockCalls \cup RenewCalls
                /\ req'[p][s].reply = "applied"
                => [op |-> p, ts |-> req'[p][s].at] \in lockCells[s]
             /\ req'[p][s].call \in UnlockCalls => lease'[p][s] = NoLease
    BY DEF ClaimInv
  <2> "idle" \notin LockCalls \cup RenewCalls \cup UnlockCalls /\ Idle.call = "idle"
    BY DEF LockCalls, RenewCalls, UnlockCalls, Idle
  <2>1. Holds(p, s)' => [op |-> p, ts |-> lease'[p][s]] \in lockCells[s]
    <3>1. CASE lease'[p][s] = NoLease
      BY <3>1 DEF Holds
    <3>2. CASE lease'[p][s] = lease[p][s]
      BY <3>2 DEF Holds, ClaimInv
    <3>3. CASE /\ req[p][s].call \in LockCalls \cup RenewCalls
               /\ req[p][s].reply = "applied" /\ lease'[p][s] = req[p][s].at
      BY <3>3 DEF ClaimInv
    <3> QED BY <3>1, <3>2, <3>3 DEF SameOrQuietLease
  <2>2. /\ req'[p][s].call \in LockCalls \cup RenewCalls
        /\ req'[p][s].reply = "applied"
        => [op |-> p, ts |-> req'[p][s].at] \in lockCells[s]
    BY DEF SameOrQuietReq, ClaimInv
  <2>3. req'[p][s].call \in UnlockCalls => lease'[p][s] = NoLease
    BY DEF SameOrQuietLease, ClaimInv
  <2> QED BY <2>1, <2>2, <2>3
<1> QED BY <1>1, <1>2, <1>3

LEMMA CallLockInv ==
    ASSUME LockInv, NEW o \in Ops, NEW r \in Rows, ClientCall(o, r)
    PROVE  (ReqInv /\ CellInv /\ ClaimInv)'
<1> USE DEF LockInv
<1> PICK call \in Calls :
        /\ Send(o, r, call)
        /\ IF call \in UnlockCalls THEN DropLease(o, r)
           ELSE IF call \in IndefUnlockCalls THEN DropIndef(o, r)
           ELSE UNCHANGED client
  BY CallForm
<1> PICK at \in {t \in 0..now : now <= t + Skew} :
         req' = [req EXCEPT ![o][r] = [call |-> call, at |-> at, reply |-> "none"]]
  BY DEF Send
<1>1. at <= now /\ now <= at + Lag
  BY LockConstants DEF TypeOK
<1>2. UNCHANGED <<now, lockCells>>
  BY DEF Send, cells
<1>3. /\ req'[o][r] = [call |-> call, at |-> at, reply |-> "none"]
      /\ \A p \in Ops, s \in Rows : p # o \/ s # r => req'[p][s] = req[p][s]
  BY DEF TypeOK
<1>4. /\ call \in UnlockCalls => lease'[o][r] = NoLease
      /\ call \notin UnlockCalls => lease'[o][r] = lease[o][r]
      /\ \A p \in Ops, s \in Rows : p # o \/ s # r => lease'[p][s] = lease[p][s]
  <2>1. CASE call \in UnlockCalls
    BY <2>1 DEF DropLease, TypeOK
  <2>2. CASE call \notin UnlockCalls
    BY <2>2 DEF DropIndef, client
  <2> QED BY <2>1, <2>2
<1>5. \A p \in Ops, s \in Rows : SameOrQuietReq(p, s) /\ SameOrQuietLease(p, s)
  BY <1>1, <1>3, <1>4 DEF SameOrQuietReq, SameOrQuietLease
<1> QED BY <1>2, <1>5, QuietInv

\* Answers that set no lock cell: refusals, and the indefinite column.
LEMMA AnswerLockInv ==
    ASSUME LockInv, NEW o \in Ops, NEW r \in Rows, NEW reply \in Reply, Served(o, r, reply),
           UNCHANGED <<now, lockCells, client>>, req[o][r].call # "idle",
           req[o][r].call \in LockCalls \cup RenewCalls => reply # "applied"
    PROVE  (ReqInv /\ CellInv /\ ClaimInv)'
<1> USE DEF LockInv
<1>1. /\ req'[o][r].call = req[o][r].call /\ req'[o][r].at = req[o][r].at
      /\ req'[o][r].reply = reply
      /\ \A p \in Ops, s \in Rows : p # o \/ s # r => req'[p][s] = req[p][s]
  BY DEF Served, TypeOK, Request
<1>2. \A p \in Ops, s \in Rows : SameOrQuietReq(p, s) /\ SameOrQuietLease(p, s)
  BY <1>1 DEF SameOrQuietReq, SameOrQuietLease, client
<1> QED BY <1>2, QuietInv

LEMMA ServeLockInv ==
    ASSUME LockInv, AllPrompt, NEW o \in Ops, NEW r \in Rows, check_and_mutate_row(o, r)
    PROVE  (ReqInv /\ CellInv /\ ClaimInv)'
<1> USE DEF LockInv
<1> "applied" \in Reply /\ "refused" \in Reply
  BY DEF Reply
<1> /\ "idle" \notin LockCalls \cup RenewCalls \cup UnlockCalls
    /\ "idle" \notin IndefLockCalls \cup IndefUnlockCalls
    /\ (LockCalls \cup RenewCalls) \cap (IndefLockCalls \cup IndefUnlockCalls) = {}
  BY DEF LockCalls, RenewCalls, UnlockCalls, IndefLockCalls, IndefUnlockCalls
<1>1. ASSUME Refuse(o, r), req[o][r].call # "idle" PROVE (ReqInv /\ CellInv /\ ClaimInv)'
  BY <1>1, AnswerLockInv DEF Refuse, cells
<1>2. CASE ServeLock(o, r)
  BY <1>1, <1>2, ServeLockForm, AcquireClear, SetLockInv
<1>3. CASE ServeRenew(o, r)
  <2>1. CASE lockCells[r] = {} /\ SetLock(o, r)
    BY <1>3, <2>1, ServeRenewForm, SetLockInv DEF Clear
  <2>2. CASE (\E c \in lockCells[r] : c.op = o) /\ SetLock(o, r)
    BY <1>3, <2>2, ServeRenewForm, OwnCellClear, SetLockInv
  <2> QED BY <1>1, <1>3, <2>1, <2>2, ServeRenewForm
<1>4. CASE ServeUnlock(o, r)
  BY <1>1, <1>4, ServeUnlockForm, OwnCellClear, DeleteLockInv
<1>5. CASE ServeIndefLock(o, r)
  <2>1. CASE SetIndef(o, r)
    BY <1>5, <2>1, ServeIndefLockForm, AnswerLockInv DEF SetIndef
  <2> QED BY <1>1, <1>5, <2>1, ServeIndefLockForm
<1>6. CASE ServeIndefUnlock(o, r)
  <2>1. CASE DeleteIndef(o, r)
    BY <1>6, <2>1, ServeIndefUnlockForm, AnswerLockInv DEF DeleteIndef
  <2> QED BY <1>1, <1>6, <2>1, ServeIndefUnlockForm
<1> QED BY <1>2, <1>3, <1>4, <1>5, <1>6 DEF check_and_mutate_row

LEMMA ReturnLockInv ==
    ASSUME LockInv, NEW o \in Ops, NEW r \in Rows, Return(o, r)
    PROVE  (ReqInv /\ CellInv /\ ClaimInv)'
<1> USE DEF LockInv
<1>1. UNCHANGED <<now, lockCells>>
  BY DEF Return, Done, cells
<1>2. /\ req'[o][r] = Idle
      /\ \A p \in Ops, s \in Rows : p # o \/ s # r => req'[p][s] = req[p][s]
  BY DEF Return, Done, TypeOK
<1>3. \A p \in Ops, s \in Rows : p # o \/ s # r => lease'[p][s] = lease[p][s]
  BY DEF Return, TypeOK
<1>4. \/ lease'[o][r] = NoLease
      \/ lease'[o][r] = lease[o][r]
      \/ /\ req[o][r].call \in LockCalls \cup RenewCalls /\ req[o][r].reply = "applied"
         /\ lease'[o][r] = req[o][r].at
  BY DEF Return, TypeOK
<1>5. Idle.call \notin UnlockCalls
  BY DEF Idle, UnlockCalls
<1>6. \A p \in Ops, s \in Rows : SameOrQuietReq(p, s) /\ SameOrQuietLease(p, s)
  BY <1>2, <1>3, <1>4, <1>5 DEF SameOrQuietReq, SameOrQuietLease
<1> QED BY <1>1, <1>6, QuietInv

LEMMA TickLockInv ==
    ASSUME LockInv, Tick
    PROVE  (ReqInv /\ CellInv /\ ClaimInv)'
<1> USE DEF LockInv
<1>1. now' = now + 1 /\ now \in Nat /\ UNCHANGED <<lockCells, req, lease>>
  BY DEF Tick, TypeOK, cells, client
<1>2. ReqInv'
  <2> SUFFICES ASSUME NEW p \in Ops, NEW s \in Rows, req[p][s] # Idle
               PROVE  req[p][s].at <= now + 1 /\ now + 1 <= req[p][s].at + Lag
    BY <1>1 DEF ReqInv
  <2>1. req[p][s].at \in Nat
    BY DEF TypeOK, Request
  <2> QED BY <1>1, <2>1, LockConstants DEF ReqInv, Tick
<1>3. CellInv'
  <2>1. \A r \in Rows : \A c \in lockCells[r] : c.ts \in Nat
    BY DEF TypeOK, Cell
  <2> QED BY <1>1, <2>1, LockConstants DEF CellInv
<1>4. ClaimInv'
  <2>1. \A p \in Ops, s \in Rows : Holds(p, s)' => Holds(p, s)
    BY <1>1, LockConstants DEF Holds, TypeOK
  <2> QED BY <1>1, <2>1 DEF ClaimInv
<1> QED BY <1>2, <1>3, <1>4

LEMMA LockInit == Init => LockInv
<1> SUFFICES ASSUME Init PROVE LockInv
  OBVIOUS
<1>1. TypeOK
  BY TypeInit
<1>2. ReqInv /\ CellInv
  BY DEF Init, ReqInv, CellInv
<1>3. ClaimInv
  BY DEF Init, ClaimInv, Holds, Idle, LockCalls, RenewCalls, UnlockCalls
<1> QED BY <1>1, <1>2, <1>3 DEF LockInv

LEMMA LockNext == AllPrompt /\ LockInv /\ [Next]_vars => LockInv'
<1> SUFFICES ASSUME AllPrompt, LockInv, [Next]_vars PROVE (ReqInv /\ CellInv /\ ClaimInv)'
  BY TypeNext DEF LockInv
<1> "idle" \notin UnlockCalls /\ Idle.call = "idle"
  BY DEF UnlockCalls, Idle
<1>1. ASSUME NEW o \in Ops, NEW r \in Rows, ClientCall(o, r)
      PROVE  (ReqInv /\ CellInv /\ ClaimInv)'
  BY <1>1, CallLockInv
<1>2. ASSUME NEW o \in Ops, NEW r \in Rows, check_and_mutate_row(o, r)
      PROVE  (ReqInv /\ CellInv /\ ClaimInv)'
  BY <1>2, ServeLockInv
<1>3. ASSUME NEW o \in Ops, NEW r \in Rows, Return(o, r)
      PROVE  (ReqInv /\ CellInv /\ ClaimInv)'
  BY <1>3, ReturnLockInv
<1>4. ASSUME NEW o \in Ops, NEW r \in Rows, Raise(o, r)
      PROVE  (ReqInv /\ CellInv /\ ClaimInv)'
  <2>1. \A p \in Ops, s \in Rows : SameOrQuietReq(p, s) /\ SameOrQuietLease(p, s)
    BY <1>4 DEF Raise, Done, client, SameOrQuietReq, SameOrQuietLease, LockInv, TypeOK
  <2> QED BY <1>4, <2>1, QuietInv DEF Raise, Done, cells
<1>5. ASSUME NEW o \in Ops, Crash(o)
      PROVE  (ReqInv /\ CellInv /\ ClaimInv)'
  <2>1. \A p \in Ops, s \in Rows : SameOrQuietReq(p, s) /\ SameOrQuietLease(p, s)
    BY <1>5 DEF Crash, SameOrQuietReq, SameOrQuietLease, LockInv, TypeOK
  <2> QED BY <1>5, <2>1, QuietInv DEF Crash, cells
<1>6. ASSUME NEW r \in Rows, WriteNewParent(r)
      PROVE  (ReqInv /\ CellInv /\ ClaimInv)'
  BY <1>6, QuietInv DEF WriteNewParent, cells, client, SameOrQuietReq, SameOrQuietLease
<1>7. CASE Tick
  BY <1>7, TickLockInv
<1>8. CASE UNCHANGED vars
  BY <1>8, QuietInv DEF vars, SameOrQuietReq, SameOrQuietLease
<1> QED BY <1>1, <1>2, <1>3, <1>4, <1>5, <1>6, <1>7, <1>8 DEF Next

LEMMA LockInvariant == ASSUME AllPrompt PROVE Spec => []LockInv
BY LockInit, LockNext, PTL DEF Spec

LEMMA NewestIsNewest ==
    ASSUME CellInv, NEW r \in Rows, lockCells[r] # {}
    PROVE  Newest(r) \in lockCells[r] /\ \A d \in lockCells[r] : d.ts <= Newest(r).ts
BY DEF CellInv, Newest

\* Two believers would both have a cell, and one of the cells would have expired.
LEMMA LockInvExcludes == LockInv => MutualExclusion /\ HolderFindsLock
<1> SUFFICES ASSUME LockInv PROVE MutualExclusion /\ HolderFindsLock
  OBVIOUS
<1> USE DEF LockInv
<1>1. ASSUME NEW o \in Ops, NEW r \in Rows, Holds(o, r)
      PROVE  /\ [op |-> o, ts |-> lease[o][r]] \in lockCells[r]
             /\ lease[o][r] \in Nat /\ now <= lease[o][r] + Expiry
  <2>1. lease[o][r] \in Nat /\ now <= lease[o][r] + Expiry
    BY <1>1 DEF Holds, TypeOK
  <2>2. [op |-> o, ts |-> lease[o][r]] \in lockCells[r]
    BY <1>1 DEF ClaimInv
  <2> QED BY <2>1, <2>2
<1> now \in Nat /\ Expiry \in Nat
  BY LockConstants DEF TypeOK
<1>2. MutualExclusion
  <2> SUFFICES ASSUME NEW r \in Rows, NEW o \in Ops, NEW p \in Ops,
                      Holds(o, r), Holds(p, r), o # p
               PROVE  FALSE
    BY DEF MutualExclusion
  <2> DEFINE c == [op |-> o, ts |-> lease[o][r]]
             d == [op |-> p, ts |-> lease[p][r]]
  <2>1. c \in lockCells[r] /\ d \in lockCells[r] /\ c.op # d.op
    BY <1>1
  <2>2. /\ c.ts # d.ts
        /\ c.ts < d.ts => c.ts + Expiry < now
        /\ d.ts < c.ts => d.ts + Expiry < now
    BY <2>1 DEF CellInv
  <2>3. /\ c.ts \in Nat /\ now <= c.ts + Expiry
        /\ d.ts \in Nat /\ now <= d.ts + Expiry
    BY <1>1
  <2> QED
    <3> HIDE DEF c, d
    <3> QED BY <2>2, <2>3
<1>3. HolderFindsLock
  <2> SUFFICES ASSUME NEW r \in Rows, NEW o \in Ops, Holds(o, r)
               PROVE  get_lock_timestamp(o, r) >= lease[o][r]
    BY DEF HolderFindsLock
  <2> DEFINE c == [op |-> o, ts |-> lease[o][r]]
             n == Newest(r)
  <2>1. c \in lockCells[r] /\ n \in lockCells[r] /\ c.ts <= n.ts
    BY <1>1, NewestIsNewest
  <2>2. c.op # n.op => c.ts # n.ts /\ (c.ts < n.ts => c.ts + Expiry < now)
    BY <2>1 DEF CellInv
  <2>3. n.ts \in Nat
    BY <2>1 DEF TypeOK, Cell
  <2>4. n.op = o
    <3>1. c.op = o /\ c.ts \in Nat /\ now <= c.ts + Expiry
      BY <1>1
    <3> HIDE DEF c, n
    <3> QED BY <2>1, <2>2, <2>3, <3>1
  <2> QED BY <2>1, <2>3, <2>4, <1>1 DEF get_lock_timestamp
<1> QED BY <1>2, <1>3

\* If renewals and unlocks reach the server in time, no two operations ever
\* believe that they hold the temporal lock of one row.
THEOREM MutuallyExclusive == ASSUME AllPrompt PROVE Spec => []MutualExclusion
BY LockInvariant, LockInvExcludes, PTL

\* Under the same assumption the holder's own cell is the newest of its row.
THEOREM HolderFinds == ASSUME AllPrompt PROVE Spec => []HolderFindsLock
BY LockInvariant, LockInvExcludes, PTL

-----------------------------------------------------------------------------
(* The indefinite lock: no assumption on the callers.                      *)

LEMMA IndefInit == Init => IndefInv
<1> SUFFICES ASSUME Init, NEW o \in Ops, NEW r \in Rows
    PROVE  /\ indefCells[r] = {}
           /\ heldIndef[o][r] = FALSE
           /\ req[o][r].call \notin IndefLockCalls \cup IndefUnlockCalls
  BY DEF IndefInv
<1> QED BY DEF Init, Idle, IndefLockCalls, IndefUnlockCalls

\* Steps that leave the IndefiniteLock columns alone.
LEMMA IndefQuiet ==
    ASSUME IndefInv, UNCHANGED indefCells,
           \A p \in Ops, s \in Rows :
              /\ heldIndef'[p][s] =>
                    \/ heldIndef[p][s] /\ (req'[p][s].call \in IndefUnlockCalls
                                              => req[p][s].call \in IndefUnlockCalls)
                    \/ /\ req[p][s].call \in IndefLockCalls /\ req[p][s].reply = "applied"
                       /\ req'[p][s].call \notin IndefUnlockCalls
              /\ req'[p][s].call \in IndefLockCalls /\ req'[p][s].reply = "applied"
                    => req'[p][s] = req[p][s]
    PROVE  IndefInv'
<1> SUFFICES ASSUME NEW p \in Ops, NEW s \in Rows
    PROVE  /\ \A q, t \in indefCells[s] : q = t
           /\ heldIndef'[p][s] => p \in indefCells[s]
           /\ req'[p][s].call \in IndefLockCalls /\ req'[p][s].reply = "applied"
              => p \in indefCells[s]
           /\ req'[p][s].call \in IndefUnlockCalls => ~heldIndef'[p][s]
  BY DEF IndefInv
<1>1. heldIndef'[p][s] => p \in indefCells[s]
  BY DEF IndefInv
<1>2. req'[p][s].call \in IndefUnlockCalls => ~heldIndef'[p][s]
  BY DEF IndefInv
<1>3. req'[p][s].call \in IndefLockCalls /\ req'[p][s].reply = "applied" => p \in indefCells[s]
  BY DEF IndefInv
<1>4. \A q, t \in indefCells[s] : q = t
  BY DEF IndefInv
<1> QED BY <1>1, <1>2, <1>3, <1>4

\* A served request keeps its call and changes no other request.
LEMMA ServedReq ==
    ASSUME TypeOK, NEW o \in Ops, NEW r \in Rows, NEW reply \in Reply, Served(o, r, reply)
    PROVE  /\ req'[o][r].call = req[o][r].call
           /\ req'[o][r].reply = reply
           /\ \A p \in Ops, s \in Rows : p # o \/ s # r => req'[p][s] = req[p][s]
BY DEF Served, TypeOK, Request

LEMMA SetIndefInv ==
    ASSUME TypeOK, IndefInv, NEW o \in Ops, NEW r \in Rows, SetIndef(o, r),
           indefCells[r] = {}, req[o][r].call \in IndefLockCalls
    PROVE  IndefInv'
<1>1. /\ req'[o][r].call = req[o][r].call
      /\ \A p \in Ops, s \in Rows : p # o \/ s # r => req'[p][s] = req[p][s]
  BY ServedReq DEF SetIndef, Reply
<1>2. indefCells'[r] = {o} /\ \A s \in Rows : s # r => indefCells'[s] = indefCells[s]
  BY DEF SetIndef, TypeOK
<1>3. heldIndef' = heldIndef
  BY DEF SetIndef, client
<1>4. req[o][r].call \notin IndefUnlockCalls
  BY DEF IndefLockCalls, IndefUnlockCalls
<1> SUFFICES ASSUME NEW p \in Ops, NEW s \in Rows
    PROVE  /\ \A q, t \in indefCells'[s] : q = t
           /\ heldIndef[p][s] => p \in indefCells'[s]
           /\ req'[p][s].call \in IndefLockCalls /\ req'[p][s].reply = "applied"
              => p \in indefCells'[s]
           /\ req'[p][s].call \in IndefUnlockCalls => ~heldIndef[p][s]
  BY <1>3 DEF IndefInv
<1>5. CASE s # r
  BY <1>1, <1>2, <1>5 DEF IndefInv
<1>6. CASE s = r
  BY <1>1, <1>2, <1>4, <1>6 DEF IndefInv
<1> QED BY <1>5, <1>6

LEMMA DeleteIndefInv ==
    ASSUME TypeOK, IndefInv, NEW o \in Ops, NEW r \in Rows, DeleteIndef(o, r),
           o \in indefCells[r], req[o][r].call \in IndefUnlockCalls
    PROVE  IndefInv'
<1>1. /\ req'[o][r].call = req[o][r].call
      /\ \A p \in Ops, s \in Rows : p # o \/ s # r => req'[p][s] = req[p][s]
  BY ServedReq DEF DeleteIndef, Reply
<1>2. indefCells'[r] = {} /\ \A s \in Rows : s # r => indefCells'[s] = indefCells[s]
  BY DEF DeleteIndef, TypeOK
<1>3. heldIndef' = heldIndef
  BY DEF DeleteIndef, client
<1>4. req[o][r].call \notin IndefLockCalls
  BY DEF IndefLockCalls, IndefUnlockCalls
<1> SUFFICES ASSUME NEW p \in Ops, NEW s \in Rows
    PROVE  /\ \A q, t \in indefCells'[s] : q = t
           /\ heldIndef[p][s] => p \in indefCells'[s]
           /\ req'[p][s].call \in IndefLockCalls /\ req'[p][s].reply = "applied"
              => p \in indefCells'[s]
           /\ req'[p][s].call \in IndefUnlockCalls => ~heldIndef[p][s]
  BY <1>3 DEF IndefInv
<1>5. CASE s # r
  BY <1>1, <1>2, <1>5 DEF IndefInv
<1>6. CASE s = r /\ p = o
  BY <1>1, <1>2, <1>4, <1>6 DEF IndefInv
<1>7. CASE s = r /\ p # o
  BY <1>1, <1>2, <1>7 DEF IndefInv
<1> QED BY <1>5, <1>6, <1>7

LEMMA ServeIndefInv ==
    ASSUME TypeOK, IndefInv, NEW o \in Ops, NEW r \in Rows, check_and_mutate_row(o, r)
    PROVE  IndefInv'
<1> "applied" \in Reply /\ "refused" \in Reply
  BY DEF Reply
<1> (LockCalls \cup RenewCalls \cup UnlockCalls) \cap (IndefLockCalls \cup IndefUnlockCalls) = {}
  BY DEF LockCalls, RenewCalls, UnlockCalls, IndefLockCalls, IndefUnlockCalls
<1>1. ASSUME NEW reply \in Reply, Served(o, r, reply), UNCHANGED <<indefCells, client>>,
             reply = "applied" => req[o][r].call \notin IndefLockCalls
      PROVE  IndefInv'
  <2>1. /\ req'[o][r].call = req[o][r].call
        /\ req'[o][r].reply = reply
        /\ \A p \in Ops, s \in Rows : p # o \/ s # r => req'[p][s] = req[p][s]
    BY <1>1, ServedReq
  <2>2. heldIndef' = heldIndef
    BY <1>1 DEF client
  <2> QED BY <1>1, <2>1, <2>2, IndefQuiet
<1>2. CASE Refuse(o, r)
  BY <1>1, <1>2 DEF Refuse, cells
<1>3. CASE SetLock(o, r) /\ req[o][r].call \in LockCalls \cup RenewCalls
  BY <1>1, <1>3 DEF SetLock
<1>4. CASE DeleteLock(o, r) /\ req[o][r].call \in UnlockCalls
  BY <1>1, <1>4 DEF DeleteLock
<1>5. CASE ServeIndefLock(o, r)
  BY <1>2, <1>5, ServeIndefLockForm, SetIndefInv
<1>6. CASE ServeIndefUnlock(o, r)
  BY <1>2, <1>6, ServeIndefUnlockForm, DeleteIndefInv
<1> QED BY <1>2, <1>3, <1>4, <1>5, <1>6, ServeLockForm, ServeRenewForm, ServeUnlockForm
        DEF check_and_mutate_row

LEMMA CallIndefInv ==
    ASSUME TypeOK, IndefInv, NEW o \in Ops, NEW r \in Rows, ClientCall(o, r)
    PROVE  IndefInv'
<1> PICK call \in Calls :
        /\ Send(o, r, call)
        /\ IF call \in UnlockCalls THEN DropLease(o, r)
           ELSE IF call \in IndefUnlockCalls THEN DropIndef(o, r)
           ELSE UNCHANGED client
  BY CallForm
<1>1. /\ req'[o][r].call = call /\ req'[o][r].reply = "none"
      /\ \A p \in Ops, s \in Rows : p # o \/ s # r => req'[p][s] = req[p][s]
  BY DEF Send, TypeOK
<1>2. UNCHANGED indefCells
  BY DEF Send, cells
<1>3. CASE call \in IndefUnlockCalls
  <2>1. call \notin UnlockCalls
    BY <1>3 DEF UnlockCalls, IndefUnlockCalls
  <2>2. heldIndef' = [heldIndef EXCEPT ![o][r] = FALSE]
    BY <1>3, <2>1 DEF DropIndef
  <2>3. /\ ~heldIndef'[o][r]
        /\ \A p \in Ops, s \in Rows : p # o \/ s # r => heldIndef'[p][s] = heldIndef[p][s]
    BY <2>2 DEF TypeOK
  <2> QED BY <1>1, <1>2, <2>3, IndefQuiet
<1>4. CASE call \notin IndefUnlockCalls
  <2>1. heldIndef' = heldIndef
    BY <1>4 DEF DropLease, client
  <2> QED BY <1>1, <1>2, <1>4, <2>1, IndefQuiet
<1> QED BY <1>3, <1>4

LEMMA ReturnIndefInv ==
    ASSUME TypeOK, IndefInv, NEW o \in Ops, NEW r \in Rows, Return(o, r)
    PROVE  IndefInv'
<1>1. /\ req'[o][r] = Idle
      /\ \A p \in Ops, s \in Rows : p # o \/ s # r => req'[p][s] = req[p][s]
  BY DEF Return, Done, TypeOK
<1>2. Idle.call \notin IndefUnlockCalls \cup IndefLockCalls
  BY DEF Idle, IndefLockCalls, IndefUnlockCalls
<1>3. UNCHANGED indefCells
  BY DEF Return, Done, cells
<1>4. \A p \in Ops, s \in Rows : p # o \/ s # r => heldIndef'[p][s] = heldIndef[p][s]
  BY DEF Return, TypeOK
<1>5. heldIndef'[o][r] = (heldIndef[o][r] \/
         (req[o][r].call \in IndefLockCalls /\ req[o][r].reply = "applied"))
  BY Zenon DEF Return, TypeOK
<1> QED BY <1>1, <1>2, <1>3, <1>4, <1>5, IndefQuiet

LEMMA IndefNext == TypeOK /\ IndefInv /\ [Next]_vars => IndefInv'
<1> SUFFICES ASSUME TypeOK, IndefInv, [Next]_vars PROVE IndefInv'
  OBVIOUS
<1> Idle.call \notin IndefUnlockCalls \cup IndefLockCalls
  BY DEF Idle, IndefLockCalls, IndefUnlockCalls
<1>1. ASSUME NEW o \in Ops, NEW r \in Rows, ClientCall(o, r) PROVE IndefInv'
  BY <1>1, CallIndefInv
<1>2. ASSUME NEW o \in Ops, NEW r \in Rows, check_and_mutate_row(o, r) PROVE IndefInv'
  BY <1>2, ServeIndefInv
<1>3. ASSUME NEW o \in Ops, NEW r \in Rows, Return(o, r) PROVE IndefInv'
  BY <1>3, ReturnIndefInv
<1>4. ASSUME NEW o \in Ops, NEW r \in Rows, Raise(o, r) PROVE IndefInv'
  <2>1. /\ req'[o][r] = Idle
        /\ \A p \in Ops, s \in Rows : p # o \/ s # r => req'[p][s] = req[p][s]
        /\ UNCHANGED <<indefCells, heldIndef>>
    BY <1>4 DEF Raise, Done, cells, client, TypeOK
  <2> QED BY <2>1, IndefQuiet
<1>5. ASSUME NEW o \in Ops, Crash(o) PROVE IndefInv'
  <2>1. \A s \in Rows : req'[o][s] = Idle /\ ~heldIndef'[o][s]
    BY <1>5 DEF Crash, TypeOK
  <2>2. \A p \in Ops, s \in Rows :
           p # o => req'[p][s] = req[p][s] /\ heldIndef'[p][s] = heldIndef[p][s]
    BY <1>5 DEF Crash, TypeOK
  <2>3. UNCHANGED indefCells
    BY <1>5 DEF Crash, cells
  <2> QED BY <2>1, <2>2, <2>3, IndefQuiet
<1>6. ASSUME NEW r \in Rows, WriteNewParent(r) PROVE IndefInv'
  BY <1>6 DEF WriteNewParent, cells, client, IndefInv
<1>7. CASE Tick
  BY <1>7 DEF Tick, cells, client, IndefInv
<1>8. CASE UNCHANGED vars
  BY <1>8 DEF vars, IndefInv
<1> QED BY <1>1, <1>2, <1>3, <1>4, <1>5, <1>6, <1>7, <1>8 DEF Next

LEMMA IndefInvExcludes == TypeOK /\ IndefInv => IndefiniteExclusive
BY DEF IndefInv, IndefiniteExclusive, TypeOK

\* An indefinite lock has one holder and its cell stays until the holder's
\* own unlock, with no assumption on clocks or callers.
THEOREM IndefinitelyExclusive == Spec => []IndefiniteExclusive
<1>1. Init => TypeOK /\ IndefInv
  BY TypeInit, IndefInit
<1>2. TypeOK /\ IndefInv /\ [Next]_vars => (TypeOK /\ IndefInv)'
  BY TypeNext, IndefNext
<1> QED BY <1>1, <1>2, IndefInvExcludes, PTL DEF Spec

-----------------------------------------------------------------------------
(* The action properties.                                                  *)

RowKeyCalls == {"lock_by_row_key", "lock_by_row_key_with_indefinite",
                "lock_by_row_key_indefinitely", "unlock_by_row_key",
                "unlock_indefinitely_locked_by_row_key", "renew_lock_by_row_key"}

\* Roots are addressed by the root methods only.
RouteInv == \A o \in Ops, r \in RootRows : req[o][r].call \notin RowKeyCalls

LEMMA RouteInit == Init => RouteInv
<1> SUFFICES ASSUME Init, NEW o \in Ops, NEW r \in RootRows
             PROVE  req[o][r].call \notin RowKeyCalls
  BY DEF RouteInv
<1>1. req[o][r] = Idle
  BY LockConstants DEF Init
<1> QED BY <1>1 DEF Idle, RowKeyCalls

LEMMA RouteNext == TypeOK /\ RouteInv /\ [Next]_vars => RouteInv'
<1> SUFFICES ASSUME TypeOK, RouteInv, [Next]_vars, NEW p \in Ops, NEW s \in RootRows
             PROVE  req'[p][s].call \notin RowKeyCalls
  BY DEF RouteInv
<1> s \in Rows
  BY LockConstants
<1> Idle.call \notin RowKeyCalls /\ req[p][s].call \notin RowKeyCalls
  BY DEF Idle, RowKeyCalls, RouteInv
<1> "applied" \in Reply /\ "refused" \in Reply
  BY DEF Reply
<1>1. ASSUME NEW o \in Ops, NEW r \in Rows, ClientCall(o, r)
      PROVE  req'[p][s].call \notin RowKeyCalls
  <2>1. PICK call \in Calls : Send(o, r, call)
    BY <1>1, CallForm
  <2>2. CASE r \in RootRows
    <3>1. PICK c \in Calls : Send(o, r, c) /\ c \notin RowKeyCalls
      BY <1>1, <2>2 DEF ClientCall, lock_root, lock_root_indefinitely, unlock_root,
         unlock_indefinitely_locked_root, renew_lock, lock_by_row_key,
         lock_by_row_key_with_indefinite, unlock_by_row_key,
         lock_by_row_key_indefinitely, unlock_indefinitely_locked_by_row_key,
         renew_lock_by_row_key, Calls, LockCalls, RenewCalls, UnlockCalls,
         IndefLockCalls, IndefUnlockCalls, RowKeyCalls
    <3> QED BY <3>1 DEF Send, TypeOK
  <2>3. CASE r \notin RootRows
    BY <2>1, <2>3 DEF Send, TypeOK
  <2> QED BY <2>2, <2>3
<1>2. ASSUME NEW o \in Ops, NEW r \in Rows, check_and_mutate_row(o, r)
      PROVE  req'[p][s].call \notin RowKeyCalls
  <2>1. PICK reply \in Reply : Served(o, r, reply)
    BY <1>2, ServeForms DEF Refuse, SetLock, DeleteLock, SetIndef, DeleteIndef
  <2> QED BY <2>1, ServedReq
<1>3. ASSUME NEW o \in Ops, NEW r \in Rows, Return(o, r) \/ Raise(o, r)
      PROVE  req'[p][s].call \notin RowKeyCalls
  <2>1. Done(o, r)
    BY <1>3 DEF Return, Raise
  <2> QED BY <2>1 DEF Done, TypeOK
<1>4. ASSUME NEW o \in Ops, Crash(o) PROVE req'[p][s].call \notin RowKeyCalls
  BY <1>4 DEF Crash, TypeOK
<1>5. CASE UNCHANGED req
  BY <1>5
<1> QED BY <1>1, <1>2, <1>3, <1>4, <1>5 DEF Next, WriteNewParent, Tick, vars, client

LEMMA RouteInvariant == Spec => [](TypeOK /\ RouteInv)
<1>1. Init => TypeOK /\ RouteInv
  BY TypeInit, RouteInit
<1>2. TypeOK /\ RouteInv /\ [Next]_vars => (TypeOK /\ RouteInv)'
  BY TypeNext, RouteNext
<1> QED BY <1>1, <1>2, PTL DEF Spec

\* A request that ran its mutation was not refused.
LEMMA NotRefused ==
    ASSUME TypeOK, NEW o \in Ops, NEW r \in Rows, Refuse(o, r),
           SetLock(o, r) \/ DeleteLock(o, r) \/ SetIndef(o, r) \/ DeleteIndef(o, r)
    PROVE  FALSE
<1>1. "refused" \in Reply /\ "applied" \in Reply
  BY DEF Reply
<1>2. Served(o, r, "refused") /\ Served(o, r, "applied")
  BY DEF Refuse, SetLock, DeleteLock, SetIndef, DeleteIndef
<1> QED BY <1>1, <1>2, ServedReq

\* Which step changes a column, and how.
LEMMA ColumnSteps ==
    ASSUME TypeOK, RouteInv, [Next]_vars, NEW r \in Rows
    PROVE  /\ \/ lockCells'[r] = lockCells[r]
              \/ \E o \in Ops : SetLock(o, r) /\ (ServeLock(o, r) \/ ServeRenew(o, r))
              \/ \E o \in Ops : DeleteLock(o, r) /\ ServeUnlock(o, r)
           /\ \/ indefCells'[r] = indefCells[r]
              \/ \E o \in Ops : SetIndef(o, r) /\ ServeIndefLock(o, r)
              \/ \E o \in Ops : DeleteIndef(o, r) /\ ServeIndefUnlock(o, r)
<1>1. ASSUME NEW o \in Ops, NEW s \in Rows, check_and_mutate_row(o, s), s # r
      PROVE  lockCells'[r] = lockCells[r] /\ indefCells'[r] = indefCells[r]
  BY <1>1, ServeForms DEF Refuse, SetLock, DeleteLock, SetIndef, DeleteIndef, TypeOK, cells
<1>2. ASSUME NEW o \in Ops, check_and_mutate_row(o, r)
      PROVE  /\ \/ lockCells'[r] = lockCells[r]
                \/ SetLock(o, r) /\ (ServeLock(o, r) \/ ServeRenew(o, r))
                \/ DeleteLock(o, r) /\ ServeUnlock(o, r)
             /\ \/ indefCells'[r] = indefCells[r]
                \/ SetIndef(o, r) /\ ServeIndefLock(o, r)
                \/ DeleteIndef(o, r) /\ ServeIndefUnlock(o, r)
  <2>1. CASE ServeLock(o, r)
    BY <2>1, ServeLockForm DEF SetLock, Refuse, cells
  <2>2. CASE ServeRenew(o, r)
    BY <2>2, ServeRenewForm DEF SetLock, Refuse, cells
  <2>3. CASE ServeUnlock(o, r)
    BY <2>3, ServeUnlockForm DEF DeleteLock, Refuse, cells
  <2>4. CASE ServeIndefLock(o, r)
    BY <2>4, ServeIndefLockForm DEF SetIndef, Refuse, cells
  <2>5. CASE ServeIndefUnlock(o, r)
    BY <2>5, ServeIndefUnlockForm DEF DeleteIndef, Refuse, cells
  <2> QED BY <1>2, <2>1, <2>2, <2>3, <2>4, <2>5 DEF check_and_mutate_row
<1>3. ASSUME NEW o \in Ops, NEW s \in Rows, ClientCall(o, s) PROVE UNCHANGED cells
  BY <1>3, CallForm DEF Send, cells
<1>4. CASE UNCHANGED cells
  BY <1>4 DEF cells
<1> QED BY <1>1, <1>2, <1>3, <1>4 DEF Next, Return, Raise, Done, Crash, WriteNewParent, Tick, vars, cells

\* A superseded root gains no cell.
THEOREM SupersededNeverLocked == Spec => SupersededNotLocked
<1> DEFINE A == \A r \in RootRows : newParent[r] =>
                    /\ lockCells'[r] \subseteq lockCells[r]
                    /\ indefCells'[r] \subseteq indefCells[r]
<1>1. ASSUME TypeOK, RouteInv, [Next]_vars PROVE A
  <2> SUFFICES ASSUME NEW r \in RootRows, newParent[r]
               PROVE  /\ lockCells'[r] \subseteq lockCells[r]
                      /\ indefCells'[r] \subseteq indefCells[r]
    OBVIOUS
  <2> r \in Rows
    BY LockConstants
  <2>1. ASSUME NEW o \in Ops, SetLock(o, r), ServeLock(o, r) PROVE FALSE
    BY <1>1, <2>1, ServeLockForm, NotRefused DEF RouteInv, RowKeyCalls, LockCalls
  <2>2. ASSUME NEW o \in Ops, SetLock(o, r), ServeRenew(o, r) PROVE FALSE
    BY <1>1, <2>2, ServeRenewForm, NotRefused DEF RouteInv, RowKeyCalls, RenewCalls
  <2>3. ASSUME NEW o \in Ops, DeleteLock(o, r) PROVE lockCells'[r] = {}
    BY <1>1, <2>3 DEF DeleteLock, TypeOK
  <2>4. ASSUME NEW o \in Ops, SetIndef(o, r), ServeIndefLock(o, r) PROVE FALSE
    BY <1>1, <2>4, ServeIndefLockForm, NotRefused DEF RouteInv, RowKeyCalls, IndefLockCalls
  <2>5. ASSUME NEW o \in Ops, DeleteIndef(o, r) PROVE indefCells'[r] = {}
    BY <1>1, <2>5 DEF DeleteIndef, TypeOK
  <2> QED BY <1>1, <2>1, <2>2, <2>3, <2>4, <2>5, ColumnSteps
<1>2. [](TypeOK /\ RouteInv) /\ [][Next]_vars => [][A]_vars
  BY <1>1, PTL
<1> QED BY <1>2, RouteInvariant, PTL DEF Spec, SupersededNotLocked

\* Another operation's indefinite cell keeps an operation without a lock cell
\* from gaining one.
THEOREM IndefiniteBlocksLock == Spec => IndefiniteBlocks
<1> DEFINE A == \A r \in Rows, o \in Ops :
                  /\ ~ \E c \in lockCells[r] : c.op = o
                  /\ indefCells[r] \ {o} # {}
                  /\ req[o][r].call # "lock_by_row_key"
                  => ~ \E c \in lockCells'[r] : c.op = o
<1>1. ASSUME TypeOK, RouteInv, [Next]_vars PROVE A
  <2> SUFFICES ASSUME NEW r \in Rows, NEW o \in Ops,
                      ~ \E c \in lockCells[r] : c.op = o,
                      indefCells[r] \ {o} # {},
                      req[o][r].call # "lock_by_row_key",
                      NEW c \in lockCells'[r], c.op = o
               PROVE  FALSE
    OBVIOUS
  <2>1. ASSUME NEW p \in Ops, SetLock(p, r), ServeLock(p, r) \/ ServeRenew(p, r) PROVE FALSE
    <3>1. lockCells'[r] = set_lock_mutation(lockCells[r], p, req[p][r].at)
      BY <1>1, <2>1 DEF SetLock, TypeOK
    <3>2. p = o
      BY <3>1 DEF set_lock_mutation
    <3> QED BY <1>1, <2>1, <3>2, ServeLockForm, ServeRenewForm, NotRefused
  <2>2. ASSUME NEW p \in Ops, DeleteLock(p, r) PROVE FALSE
    BY <1>1, <2>2 DEF DeleteLock, TypeOK
  <2> QED BY <1>1, <2>1, <2>2, ColumnSteps
<1>2. [](TypeOK /\ RouteInv) /\ [][Next]_vars => [][A]_vars
  BY <1>1, PTL
<1> QED BY <1>2, RouteInvariant, PTL DEF Spec, IndefiniteBlocks

\* With renewals and unlocks in time, only its owner removes an unexpired cell.
THEOREM OnlyOwnersUnlock == ASSUME AllPrompt PROVE Spec => OnlyOwnerUnlocks
<1> DEFINE A == \A r \in Rows : \A c \in lockCells[r] \ lockCells'[r] :
                  now <= c.ts + Expiry =>
                      /\ req[c.op][r].call \in UnlockCalls
                      /\ req'[c.op][r].reply # req[c.op][r].reply
<1>1. ASSUME LockInv, RouteInv, [Next]_vars PROVE A
  <2> USE <1>1 DEF LockInv
  <2> SUFFICES ASSUME NEW r \in Rows, NEW c \in lockCells[r], c \notin lockCells'[r],
                      now <= c.ts + Expiry
               PROVE  /\ req[c.op][r].call \in UnlockCalls
                      /\ req'[c.op][r].reply # req[c.op][r].reply
    OBVIOUS
  <2>1. c \in Cell /\ c.ts \in Nat /\ c.op \in Ops /\ now \in Nat /\ Expiry \in Nat
    BY LockConstants DEF TypeOK, Cell
  <2>2. ASSUME NEW o \in Ops, SetLock(o, r), ServeLock(o, r) \/ ServeRenew(o, r) PROVE FALSE
    <3>1. c.ts = req[o][r].at /\ c # [op |-> o, ts |-> req[o][r].at]
      BY <2>2 DEF SetLock, set_lock_mutation, TypeOK
    <3>2. c.op # o
      BY <2>1, <3>1 DEF Cell
    <3>3. CASE ServeLock(o, r)
      <4>1. req[o][r].call # "idle" /\ ~row_key_lock_filter(r, req[o][r].at)
        BY <2>2, <3>3, ServeLockForm, NotRefused DEF LockCalls
      <4> QED BY <3>1, <4>1, <2>1, AcquireClear
    <3>4. CASE ServeRenew(o, r)
      <4>1. /\ req[o][r].call \in RenewCalls /\ InTime(o, r, req[o][r].call)
            /\ \E d \in lockCells[r] : d.op = o
        BY <2>2, <3>4, ServeRenewForm, NotRefused
      <4>2. Clear(o, r)
        BY <4>1, OwnCellClear
      <4> QED BY <2>1, <3>1, <3>2, <4>2 DEF Clear
    <3> QED BY <2>2, <3>3, <3>4
  <2>3. ASSUME NEW o \in Ops, DeleteLock(o, r), ServeUnlock(o, r)
        PROVE  /\ req[c.op][r].call \in UnlockCalls
               /\ req'[c.op][r].reply # req[c.op][r].reply
    <3>1. /\ req[o][r].call \in UnlockCalls /\ InTime(o, r, req[o][r].call)
          /\ \E d \in lockCells[r] : d.op = o
      BY <2>3, ServeUnlockForm, NotRefused
    <3>2. Clear(o, r)
      BY <3>1, OwnCellClear
    <3>3. c.op = o
      BY <2>1, <3>2 DEF Clear
    <3>4. req[o][r].reply = "none" /\ req'[o][r].reply = "applied"
      BY <2>3, ServedReq DEF DeleteLock, Served, Reply
    <3> QED BY <3>1, <3>3, <3>4
  <2> QED BY <2>2, <2>3, ColumnSteps
<1>2. [](LockInv /\ RouteInv) /\ [][Next]_vars => [][A]_vars
  BY <1>1, PTL
<1> QED BY <1>2, RouteInvariant, LockInvariant, PTL DEF Spec, OnlyOwnerUnlocks

-----------------------------------------------------------------------------
(* The locks implement LeaseLock.                                          *)

\* The newest cell is unique, so CHOOSE returns it.
LEMMA NewestUnique ==
    ASSUME NEW S \in SUBSET Cell,
           \A c, d \in S : c.op # d.op => c.ts # d.ts,
           NEW x \in S, \A d \in S : d.ts <= x.ts
    PROVE  (CHOOSE c \in S : \A d \in S : d.ts <= c.ts) = x
<1> DEFINE n == CHOOSE c \in S : \A d \in S : d.ts <= c.ts
<1>1. n \in S /\ \A d \in S : d.ts <= n.ts
  OBVIOUS
<1>2. n \in Cell /\ x \in Cell /\ n.ts \in Nat /\ x.ts \in Nat
  BY <1>1 DEF Cell
<1>3. n.ts <= x.ts /\ x.ts <= n.ts
  BY <1>1
<1> HIDE DEF n
<1>4. n.ts = x.ts
  BY <1>2, <1>3
<1>5. n.op = x.op
  BY <1>1, <1>4
<1>6. n = x
  BY <1>2, <1>4, <1>5 DEF Cell
<1> QED BY <1>6 DEF n

LEMMA OwnerIsNewest ==
    ASSUME TypeOK, CellInv, NEW r \in Rows, NEW x \in lockCells[r],
           \A d \in lockCells[r] : d.ts <= x.ts
    PROVE  OwnerOf(r) = x.op /\ UntilOf(r) = x.ts + Expiry
<1>1. lockCells[r] \in SUBSET Cell
  BY DEF TypeOK
<1>2. \A c, d \in lockCells[r] : c.op # d.op => c.ts # d.ts
  BY DEF CellInv
<1>3. Newest(r) = x
  BY <1>1, <1>2, NewestUnique DEF Newest
<1> QED BY <1>3 DEF OwnerOf, UntilOf

LEMMA SameRowSameOwner ==
    ASSUME NEW r \in Rows, lockCells'[r] = lockCells[r]
    PROVE  OwnerOf(r)' = OwnerOf(r) /\ UntilOf(r)' = UntilOf(r)
BY DEF OwnerOf, UntilOf, Newest

LEMMA SameRowSameIndef ==
    ASSUME NEW r \in Rows, indefCells'[r] = indefCells[r]
    PROVE  IndefOwnerOf(r)' = IndefOwnerOf(r)
BY DEF IndefOwnerOf

LEMMA SameCellsSameLease ==
    ASSUME UNCHANGED <<now, lockCells, indefCells, newParent>>
    PROVE  UNCHANGED Lease!vars
<1>1. \A r \in Rows : /\ OwnerOf(r)' = OwnerOf(r) /\ UntilOf(r)' = UntilOf(r)
                      /\ IndefOwnerOf(r)' = IndefOwnerOf(r)
  BY SameRowSameOwner, SameRowSameIndef
<1> QED BY <1>1 DEF Lease!vars

\* The abstract view of a step that changes the Lock column of one row.
LEMMA OneRowChanges ==
    ASSUME NEW r \in Rows, UNCHANGED <<now, indefCells, newParent>>,
           \A s \in Rows : s # r => lockCells'[s] = lockCells[s]
    PROVE  /\ [s \in Rows |-> OwnerOf(s)]' = [[s \in Rows |-> OwnerOf(s)] EXCEPT ![r] = OwnerOf(r)']
           /\ [s \in Rows |-> UntilOf(s)]' = [[s \in Rows |-> UntilOf(s)] EXCEPT ![r] = UntilOf(r)']
           /\ [s \in Rows |-> IndefOwnerOf(s)]' = [s \in Rows |-> IndefOwnerOf(s)]
<1>1. \A s \in Rows : s # r => OwnerOf(s)' = OwnerOf(s) /\ UntilOf(s)' = UntilOf(s)
  BY SameRowSameOwner
<1>2. \A s \in Rows : IndefOwnerOf(s)' = IndefOwnerOf(s)
  BY SameRowSameIndef
<1> QED BY <1>1, <1>2

\* An acquire, or a renewal on an empty row, takes a free row.
LEMMA GrantRefines ==
    ASSUME LockInv, LockInv', NEW o \in Ops, NEW r \in Rows, SetLock(o, r),
           req[o][r].call # "idle",
           \A c \in lockCells[r] : c.ts + Expiry < now /\ c.ts < req[o][r].at,
           r \in RootRows => ~newParent[r] /\ indefCells[r] = {}
    PROVE  Lease!Acquire(o, r)
<1> USE DEF LockInv
<1> DEFINE at  == req[o][r].at
           new == [op |-> o, ts |-> at]
<1>1. at \in Nat /\ at <= now /\ now <= at + Lag /\ now \in Nat
  BY ReqOfPending DEF TypeOK
<1>2. /\ lockCells'[r] = {c \in lockCells[r] : c.ts # at} \cup {new}
      /\ \A s \in Rows : s # r => lockCells'[s] = lockCells[s]
      /\ UNCHANGED <<now, indefCells, newParent>>
  BY DEF SetLock, set_lock_mutation, TypeOK
<1>3. new \in lockCells'[r] /\ \A d \in lockCells'[r] : d.ts <= new.ts
  <2>1. \A c \in lockCells[r] : c.ts \in Nat
    BY DEF TypeOK, Cell
  <2> QED BY <1>1, <1>2, <2>1
<1>4. OwnerOf(r)' = o /\ UntilOf(r)' = at + Expiry
  <2>1. lockCells'[r] \in SUBSET Cell
    BY DEF TypeOK
  <2>2. \A c, d \in lockCells'[r] : c.op # d.op => c.ts # d.ts
    BY DEF CellInv
  <2>3. Newest(r)' = new
    BY <1>3, <2>1, <2>2, NewestUnique DEF Newest
  <2> QED BY <1>3, <2>3 DEF OwnerOf, UntilOf
<1>5. OwnerOf(r) = NoOp \/ UntilOf(r) < now
  <2>1. CASE lockCells[r] = {}
    BY <2>1 DEF OwnerOf
  <2>2. CASE lockCells[r] # {}
    <3>1. Newest(r) \in lockCells[r]
      BY <2>2, NewestIsNewest
    <3> QED BY <2>2, <3>1 DEF UntilOf
  <2> QED BY <2>1, <2>2
<1>6. at + Expiry \in (now + Expiry - Lag)..(now + Expiry)
  BY <1>1, LockConstants
<1>7. r \in RootRows => IndefOwnerOf(r) = NoOp
  BY DEF IndefOwnerOf
<1>8. /\ [s \in Rows |-> OwnerOf(s)]' = [[s \in Rows |-> OwnerOf(s)] EXCEPT ![r] = o]
      /\ [s \in Rows |-> UntilOf(s)]' = [[s \in Rows |-> UntilOf(s)] EXCEPT ![r] = at + Expiry]
      /\ [s \in Rows |-> IndefOwnerOf(s)]' = [s \in Rows |-> IndefOwnerOf(s)]
  BY <1>2, <1>4, OneRowChanges
<1> QED BY <1>2, <1>5, <1>6, <1>7, <1>8 DEF Lease!Acquire, Lease!Free

\* The facts about the row of an operation that has a live cell there.
LEMMA LiveOwner ==
    ASSUME LockInv, AllPrompt, NEW o \in Ops, NEW r \in Rows,
           req[o][r].call \in RenewCalls \cup UnlockCalls,
           InTime(o, r, req[o][r].call),
           \E c \in lockCells[r] : c.op = o
    PROVE  /\ Newest(r) \in lockCells[r] /\ \A d \in lockCells[r] : d.ts <= Newest(r).ts
           /\ OwnerOf(r) = o /\ Newest(r).op = o
           /\ UntilOf(r) = Newest(r).ts + Expiry /\ now <= UntilOf(r)
<1> USE DEF LockInv
<1> DEFINE n == Newest(r)
<1>1. n \in lockCells[r] /\ \A d \in lockCells[r] : d.ts <= n.ts
  BY NewestIsNewest
<1>2. PICK own \in lockCells[r] : own.op = o /\ now <= own.ts + Expiry
  BY DEF InTime, AllPrompt
<1>3. n.ts \in Nat /\ own.ts \in Nat /\ own.ts <= n.ts /\ now \in Nat /\ Expiry \in Nat
  BY <1>1, LockConstants DEF TypeOK, Cell
<1>4. n.op # own.op => n.ts # own.ts /\ (own.ts < n.ts => own.ts + Expiry < now)
  BY <1>1 DEF CellInv
<1> OwnerOf(r) = n.op /\ UntilOf(r) = n.ts + Expiry
  BY <1>1, OwnerIsNewest
<1> HIDE DEF n
<1>5. n.op = o
  BY <1>2, <1>3, <1>4
<1>6. now <= n.ts + Expiry
  BY <1>2, <1>3
<1> QED BY <1>1, <1>5, <1>6 DEF n

\* A renewal by the owner extends its time, or leaves it when the renewal
\* carries an older stamp than the lock.
LEMMA RenewRefines ==
    ASSUME LockInv, LockInv', AllPrompt, NEW o \in Ops, NEW r \in Rows, SetLock(o, r),
           req[o][r].call \in RenewCalls, InTime(o, r, req[o][r].call),
           \E c \in lockCells[r] : c.op = o,
           r \in RootRows => ~newParent[r]
    PROVE  Lease!Extend(o, r)
<1> USE DEF LockInv
<1> DEFINE at  == req[o][r].at
           new == [op |-> o, ts |-> at]
           n   == Newest(r)
<1>1. at \in Nat /\ at <= now /\ now \in Nat /\ Expiry \in Nat
  BY ReqOfPending, LockConstants DEF TypeOK, RenewCalls
<1>2. /\ lockCells'[r] = {c \in lockCells[r] : c.ts # at} \cup {new}
      /\ \A s \in Rows : s # r => lockCells'[s] = lockCells[s]
      /\ UNCHANGED <<now, indefCells, newParent>>
  BY DEF SetLock, set_lock_mutation, TypeOK
<1>3. /\ n \in lockCells[r] /\ \A d \in lockCells[r] : d.ts <= n.ts
      /\ OwnerOf(r) = o /\ n.op = o
      /\ UntilOf(r) = n.ts + Expiry /\ now <= UntilOf(r)
  BY LiveOwner
<1>4. \A d \in lockCells[r] : d.ts \in Nat /\ d.ts <= now
  BY DEF TypeOK, Cell, CellInv
<1>5. \E u \in UntilOf(r)..(now + Expiry) : OwnerOf(r)' = o /\ UntilOf(r)' = u
  <2>1. lockCells'[r] \in SUBSET Cell
    BY DEF TypeOK
  <2>2. \A c, d \in lockCells'[r] : c.op # d.op => c.ts # d.ts
    BY DEF CellInv
  <2> HIDE DEF n
  <2>3. CASE n.ts <= at
    <3>1. new \in lockCells'[r] /\ new.op = o /\ new.ts = at
      BY <1>2
    <3>2. \A d \in lockCells'[r] : d.ts <= new.ts
      BY <1>1, <1>2, <1>3, <1>4, <2>3, <3>1
    <3>3. Newest(r)' = new
      BY <2>1, <2>2, <3>1, <3>2, NewestUnique DEF Newest
    <3>4. OwnerOf(r)' = o /\ UntilOf(r)' = at + Expiry
      BY <3>1, <3>3 DEF OwnerOf, UntilOf
    <3>5. at + Expiry \in UntilOf(r)..(now + Expiry)
      BY <1>1, <1>3, <1>4, <2>3
    <3> QED BY <3>4, <3>5
  <2>4. CASE at < n.ts
    <3>1. n \in lockCells'[r]
      BY <1>1, <1>2, <1>3, <1>4, <2>4
    <3>2. \A d \in lockCells'[r] : d.ts <= n.ts
      BY <1>1, <1>2, <1>3, <1>4, <2>4
    <3>3. Newest(r)' = n
      BY <2>1, <2>2, <3>1, <3>2, NewestUnique DEF Newest
    <3>4. OwnerOf(r)' = o /\ UntilOf(r)' = n.ts + Expiry
      BY <1>3, <3>1, <3>3 DEF OwnerOf, UntilOf
    <3>5. n.ts + Expiry \in UntilOf(r)..(now + Expiry)
      BY <1>1, <1>3, <1>4
    <3> QED BY <3>4, <3>5
  <2> QED BY <1>1, <1>3, <1>4, <2>3, <2>4
<1>6. PICK u \in UntilOf(r)..(now + Expiry) : OwnerOf(r)' = o /\ UntilOf(r)' = u
  BY <1>5
<1>7. /\ [s \in Rows |-> OwnerOf(s)]' = [[s \in Rows |-> OwnerOf(s)] EXCEPT ![r] = o]
      /\ [s \in Rows |-> UntilOf(s)]' = [[s \in Rows |-> UntilOf(s)] EXCEPT ![r] = u]
      /\ [s \in Rows |-> IndefOwnerOf(s)]' = [s \in Rows |-> IndefOwnerOf(s)]
  BY <1>2, <1>6, OneRowChanges
<1>8. [s \in Rows |-> OwnerOf(s)]' = [s \in Rows |-> OwnerOf(s)]
  BY <1>3, <1>7
<1> QED BY <1>2, <1>3, <1>7, <1>8 DEF Lease!Extend

\* An unlock that deletes the column is the owner's release.
LEMMA UnlockRefines ==
    ASSUME LockInv, AllPrompt, NEW o \in Ops, NEW r \in Rows, DeleteLock(o, r),
           req[o][r].call \in UnlockCalls, InTime(o, r, req[o][r].call),
           \E c \in lockCells[r] : c.op = o
    PROVE  Lease!Release(o, r)
<1>1. OwnerOf(r) = o /\ now <= UntilOf(r)
  BY LiveOwner
<1>2. /\ lockCells'[r] = {}
      /\ \A s \in Rows : s # r => lockCells'[s] = lockCells[s]
      /\ UNCHANGED <<now, indefCells, newParent>>
  BY DEF DeleteLock, LockInv, TypeOK
<1>3. OwnerOf(r)' = NoOp /\ UntilOf(r)' = 0
  BY <1>2 DEF OwnerOf, UntilOf
<1>4. /\ [s \in Rows |-> OwnerOf(s)]' = [[s \in Rows |-> OwnerOf(s)] EXCEPT ![r] = NoOp]
      /\ [s \in Rows |-> UntilOf(s)]' = [[s \in Rows |-> UntilOf(s)] EXCEPT ![r] = 0]
      /\ [s \in Rows |-> IndefOwnerOf(s)]' = [s \in Rows |-> IndefOwnerOf(s)]
  BY <1>2, <1>3, OneRowChanges
<1> QED BY <1>1, <1>2, <1>4 DEF Lease!Release

\* The abstract view of a step that changes the indefinite column of one row.
LEMMA OneIndefChanges ==
    ASSUME NEW r \in Rows, UNCHANGED <<now, lockCells, newParent>>,
           \A s \in Rows : s # r => indefCells'[s] = indefCells[s]
    PROVE  /\ [s \in Rows |-> OwnerOf(s)]' = [s \in Rows |-> OwnerOf(s)]
           /\ [s \in Rows |-> UntilOf(s)]' = [s \in Rows |-> UntilOf(s)]
           /\ [s \in Rows |-> IndefOwnerOf(s)]'
                 = [[s \in Rows |-> IndefOwnerOf(s)] EXCEPT ![r] = IndefOwnerOf(r)']
<1>1. \A s \in Rows : OwnerOf(s)' = OwnerOf(s) /\ UntilOf(s)' = UntilOf(s)
  BY SameRowSameOwner
<1>2. \A s \in Rows : s # r => IndefOwnerOf(s)' = IndefOwnerOf(s)
  BY SameRowSameIndef
<1> QED BY <1>1, <1>2

LEMMA IndefRefines ==
    ASSUME TypeOK, IndefInv, NEW o \in Ops, NEW r \in Rows
    PROVE  /\ /\ SetIndef(o, r) /\ indefCells[r] = {}
              /\ r \in RootRows => ~newParent[r]
              => Lease!AcquireIndefinite(o, r)
           /\ DeleteIndef(o, r) /\ o \in indefCells[r] => Lease!ReleaseIndefinite(o, r)
<1>1. ASSUME SetIndef(o, r), indefCells[r] = {}, r \in RootRows => ~newParent[r]
      PROVE  Lease!AcquireIndefinite(o, r)
  <2>1. /\ indefCells'[r] = {o}
        /\ \A s \in Rows : s # r => indefCells'[s] = indefCells[s]
        /\ UNCHANGED <<now, lockCells, newParent>>
    BY <1>1 DEF SetIndef, TypeOK
  <2>2. IndefOwnerOf(r) = NoOp /\ IndefOwnerOf(r)' = o
    BY <1>1, <2>1 DEF IndefOwnerOf
  <2> QED BY <1>1, <2>1, <2>2, OneIndefChanges DEF Lease!AcquireIndefinite
<1>2. ASSUME DeleteIndef(o, r), o \in indefCells[r]
      PROVE  Lease!ReleaseIndefinite(o, r)
  <2>1. /\ indefCells'[r] = {}
        /\ \A s \in Rows : s # r => indefCells'[s] = indefCells[s]
        /\ UNCHANGED <<now, lockCells, newParent>>
    BY <1>2 DEF DeleteIndef, TypeOK
  <2>2. indefCells[r] = {o}
    BY <1>2 DEF IndefInv
  <2>3. IndefOwnerOf(r) = o /\ IndefOwnerOf(r)' = NoOp
    BY <2>1, <2>2 DEF IndefOwnerOf
  <2> QED BY <1>2, <2>1, <2>3, OneIndefChanges DEF Lease!ReleaseIndefinite
<1> QED BY <1>1, <1>2

LEMMA ServeRefines ==
    ASSUME LockInv, LockInv', RouteInv, IndefInv, AllPrompt,
           NEW o \in Ops, NEW r \in Rows, check_and_mutate_row(o, r)
    PROVE  [Lease!Next]_(Lease!vars)
<1> USE DEF LockInv
<1> "idle" \notin LockCalls \cup RenewCalls
  BY DEF LockCalls, RenewCalls
<1>1. CASE Refuse(o, r)
  BY <1>1, SameCellsSameLease DEF Refuse, cells
<1>2. CASE SetLock(o, r) /\ ServeLock(o, r)
  <2>1. /\ req[o][r].call \in LockCalls
        /\ ~row_key_lock_filter(r, req[o][r].at)
        /\ req[o][r].call # "lock_by_row_key" => indefCells[r] = {}
        /\ req[o][r].call = "lock_root" => ~newParent[r]
    BY <1>2, ServeLockForm, NotRefused
  <2>2. \A c \in lockCells[r] : c.ts + Expiry < now /\ c.ts < req[o][r].at
    <3> SUFFICES ASSUME NEW c \in lockCells[r] PROVE c.ts + Expiry < now /\ c.ts < req[o][r].at
      OBVIOUS
    <3>0. c.ts \in Nat
      BY DEF TypeOK, Cell
    <3>1. c.ts < req[o][r].at /\ ~(c.ts >= req[o][r].at - Expiry)
      BY <2>1, AcquireClear DEF row_key_lock_filter
    <3>2. req[o][r].at \in Nat /\ req[o][r].at <= now /\ now \in Nat
      BY <2>1, ReqOfPending DEF TypeOK
    <3> QED BY <3>0, <3>1, <3>2, LockConstants
  <2>3. r \in RootRows => ~newParent[r] /\ indefCells[r] = {}
    BY <2>1 DEF RouteInv, RowKeyCalls, LockCalls
  <2>4. Lease!Acquire(o, r)
    BY <1>2, <2>1, <2>2, <2>3, GrantRefines
  <2> QED BY <2>4 DEF Lease!Next
<1>3. CASE SetLock(o, r) /\ ServeRenew(o, r)
  <2>1. /\ req[o][r].call \in RenewCalls
        /\ InTime(o, r, req[o][r].call)
        /\ \/ \E c \in lockCells[r] : c.op = o
           \/ lockCells[r] = {} /\ indefCells[r] = {}
        /\ req[o][r].call = "renew_lock" => ~newParent[r]
    BY <1>3, ServeRenewForm, NotRefused
  <2>2. r \in RootRows => ~newParent[r]
    BY <2>1 DEF RouteInv, RowKeyCalls, RenewCalls
  <2>3. CASE \E c \in lockCells[r] : c.op = o
    <3>1. Lease!Extend(o, r)
      BY <1>3, <2>1, <2>2, <2>3, RenewRefines
    <3> QED BY <3>1 DEF Lease!Next
  <2>4. CASE lockCells[r] = {} /\ indefCells[r] = {}
    <3>1. Lease!Acquire(o, r)
      BY <1>3, <2>1, <2>2, <2>4, GrantRefines
    <3> QED BY <3>1 DEF Lease!Next
  <2> QED BY <2>1, <2>3, <2>4
<1>4. CASE DeleteLock(o, r) /\ ServeUnlock(o, r)
  <2>1. Lease!Release(o, r)
    BY <1>4, ServeUnlockForm, NotRefused, UnlockRefines
  <2> QED BY <2>1 DEF Lease!Next
<1>5. CASE SetIndef(o, r) /\ ServeIndefLock(o, r)
  <2>1. indefCells[r] = {} /\ (r \in RootRows => ~newParent[r])
    BY <1>5, ServeIndefLockForm, NotRefused DEF RouteInv, RowKeyCalls, IndefLockCalls
  <2>2. Lease!AcquireIndefinite(o, r)
    BY <1>5, <2>1, IndefRefines
  <2> QED BY <2>2 DEF Lease!Next
<1>6. CASE DeleteIndef(o, r) /\ ServeIndefUnlock(o, r)
  <2>1. Lease!ReleaseIndefinite(o, r)
    BY <1>6, ServeIndefUnlockForm, NotRefused, IndefRefines
  <2> QED BY <2>1 DEF Lease!Next
<1> QED BY <1>1, <1>2, <1>3, <1>4, <1>5, <1>6, ServeLockForm, ServeRenewForm,
           ServeUnlockForm, ServeIndefLockForm, ServeIndefUnlockForm
        DEF check_and_mutate_row

LEMMA RefinesInit == Init => Lease!Init
BY DEF Init, Lease!Init, OwnerOf, UntilOf, IndefOwnerOf

LEMMA RefinesNext ==
    ASSUME LockInv, LockInv', RouteInv, IndefInv, AllPrompt, [Next]_vars
    PROVE  [Lease!Next]_(Lease!vars)
<1>1. ASSUME NEW o \in Ops, NEW r \in Rows, ClientCall(o, r)
      PROVE  UNCHANGED Lease!vars
  BY <1>1, CallForm, SameCellsSameLease DEF Send, cells
<1>2. ASSUME NEW o \in Ops, NEW r \in Rows, check_and_mutate_row(o, r)
      PROVE  [Lease!Next]_(Lease!vars)
  BY <1>2, ServeRefines
<1>3. ASSUME NEW o \in Ops, NEW r \in Rows, Return(o, r) \/ Raise(o, r)
      PROVE  UNCHANGED Lease!vars
  BY <1>3, SameCellsSameLease DEF Return, Raise, Done, cells
<1>4. ASSUME NEW o \in Ops, Crash(o) PROVE UNCHANGED Lease!vars
  BY <1>4, SameCellsSameLease DEF Crash, cells
<1>5. ASSUME NEW r \in Rows, WriteNewParent(r) PROVE Lease!Next
  <2>1. \A s \in Rows : /\ OwnerOf(s)' = OwnerOf(s) /\ UntilOf(s)' = UntilOf(s)
                        /\ IndefOwnerOf(s)' = IndefOwnerOf(s)
    BY <1>5, SameRowSameOwner, SameRowSameIndef DEF WriteNewParent, cells
  <2>2. Lease!Supersede(r)
    BY <1>5, <2>1 DEF WriteNewParent, Lease!Supersede
  <2> QED BY <2>2 DEF Lease!Next
<1>6. CASE Tick
  <2>1. \A s \in Rows : /\ OwnerOf(s)' = OwnerOf(s) /\ UntilOf(s)' = UntilOf(s)
                        /\ IndefOwnerOf(s)' = IndefOwnerOf(s)
    BY <1>6, SameRowSameOwner, SameRowSameIndef DEF Tick, cells
  <2>2. Lease!Tick
    BY <1>6, <2>1 DEF Tick, Lease!Tick
  <2> QED BY <2>2 DEF Lease!Next
<1>7. CASE UNCHANGED vars
  BY <1>7, SameCellsSameLease DEF vars
<1> QED BY <1>1, <1>2, <1>3, <1>4, <1>5, <1>6, <1>7 DEF Next

\* With renewals and unlocks in time, the locks implement the abstract lock:
\* its owner changes only by grant of a free row and by the owner's release.
THEOREM RefinesLease == ASSUME AllPrompt PROVE Spec => ImplementsLease
<1>1. Init => TypeOK /\ IndefInv
  BY TypeInit, IndefInit
<1>2. TypeOK /\ IndefInv /\ [Next]_vars => (TypeOK /\ IndefInv)'
  BY TypeNext, IndefNext
<1>3. Spec => []IndefInv
  BY <1>1, <1>2, PTL DEF Spec
<1>4. LockInv /\ LockInv' /\ RouteInv /\ IndefInv /\ [Next]_vars => [Lease!Next]_(Lease!vars)
  BY RefinesNext
<1> QED BY <1>3, <1>4, LockInvariant, RouteInvariant, RefinesInit, PTL
        DEF Spec, ImplementsLease, Lease!Spec

-----------------------------------------------------------------------------
(* And so they implement RowLocks, which is what LockRoots takes them for. *)

Facts == INSTANCE LeaseLockProofs WITH
    owner      <- [r \in Rows |-> OwnerOf(r)],
    until      <- [r \in Rows |-> UntilOf(r)],
    indefOwner <- [r \in Rows |-> IndefOwnerOf(r)],
    superseded <- newParent

\* With renewals and unlocks in time, who sees no clock sees the locks of RowLocks on the
\* rows of Bigtable, whatever is in flight: they do no more than LockRoots reckons with.
THEOREM RefinesRowLocks == ASSUME AllPrompt PROVE Spec => Lease!ImplementsRowLocks
<1>1. Facts!LeaseConstants
  BY LockConstants DEF Facts!LeaseConstants
<1>2. Facts!Spec => Facts!ImplementsRowLocks
  BY <1>1, Facts!LeaseIsRowLock
<1>3. Spec => Lease!Spec
  BY RefinesLease DEF ImplementsLease
<1>4. Lease!Init => Facts!Init
  BY DEF Lease!Init, Facts!Init
<1>5. Lease!vars = Facts!vars /\ Lease!vars' = Facts!vars'
  BY DEF Lease!vars, Facts!vars
<1>6. Lease!Next => Facts!Next
  BY Zenon
  DEF Lease!Next, Lease!Acquire, Lease!Free, Lease!Extend, Lease!Release, Lease!AcquireIndefinite,
      Lease!ReleaseIndefinite, Lease!Supersede, Lease!Tick,
      Facts!Next, Facts!Acquire, Facts!Free, Facts!Extend, Facts!Release, Facts!AcquireIndefinite,
      Facts!ReleaseIndefinite, Facts!Supersede, Facts!Tick
<1>7. [Lease!Next]_(Lease!vars) => [Facts!Next]_(Facts!vars)
  BY <1>5, <1>6
<1>8. Lease!Spec => Facts!Spec
  BY <1>4, <1>7, PTL DEF Lease!Spec, Facts!Spec
<1>9. Facts!ImplementsRowLocks => Lease!ImplementsRowLocks
  <2>1. Facts!Untimed!Init => Lease!Untimed!Init
    BY DEF Facts!Untimed!Init, Lease!Untimed!Init
  <2>2. Facts!Untimed!vars = Lease!Untimed!vars /\ Facts!Untimed!vars' = Lease!Untimed!vars'
    BY DEF Facts!Untimed!vars, Lease!Untimed!vars
  <2>3. Facts!Untimed!Next => Lease!Untimed!Next
    BY Zenon
    DEF Facts!Untimed!Next, Facts!Untimed!Acquire, Facts!Untimed!Extend, Facts!Untimed!Release,
        Facts!Untimed!AcquireIndefinite, Facts!Untimed!ReleaseIndefinite, Facts!Untimed!Expire,
        Lease!Untimed!Next, Lease!Untimed!Acquire, Lease!Untimed!Extend, Lease!Untimed!Release,
        Lease!Untimed!AcquireIndefinite, Lease!Untimed!ReleaseIndefinite, Lease!Untimed!Expire
  <2>4. [Facts!Untimed!Next]_(Facts!Untimed!vars) => [Lease!Untimed!Next]_(Lease!Untimed!vars)
    BY <2>2, <2>3
  <2> QED
    BY <2>1, <2>4, PTL DEF Facts!ImplementsRowLocks, Lease!ImplementsRowLocks,
       Facts!Untimed!Spec, Lease!Untimed!Spec
<1> QED BY <1>2, <1>3, <1>8, <1>9, PTL
=============================================================================
