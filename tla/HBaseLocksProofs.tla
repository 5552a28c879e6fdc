-------------------------- MODULE HBaseLocksProofs --------------------------
(***************************************************************************)
(* Proofs about HBaseLocks, for every set of rows and operations and every *)
(* value of the times.                                                     *)
(***************************************************************************)
EXTENDS HBaseLocks, TLAPS

-----------------------------------------------------------------------------
(* The inductive invariant.                                                *)

\* A lock stamped t, still unexpired, of a row where no unexpired lock was
\* deleted has its cell.
Backed(o, r, t) ==
    ~usurped[r] /\ now <= t + Expiry => lockCell[r].op = o /\ lockCell[r].ts >= t

\* A lock that is believed, or about to be, has its cell; a client that is about
\* to delete the column, or has just put a cell, believes in no lock of the row
\* that still has its cell; and a client that unlocks has stopped believing.
Claims(o, r) ==
    /\ lease[o][r] # NoLease => Backed(o, r, lease[o][r])
    /\ At(o, r, "readIndef") => Backed(o, r, step[o][r].at)
    /\ At(o, r, "expired") /\ Holds(o, r) /\ ~usurped[r] => step[o][r].seen >= lease[o][r]
    /\ step[o][r].pc \in {"delete", "readIndef", "rollback"} /\ Holds(o, r) => usurped[r]
    /\ At(o, r, "unlock") => lease[o][r] = NoLease
    /\ step[o][r].at <= now

ClaimInv == \A o \in Ops, r \in Rows : Claims(o, r)

\* An indefinite lock that is believed has its cell.
HeldIndef(o, r) ==
    /\ heldIndef[o][r] => indefCell[r] = o
    /\ At(o, r, "unlockIndef") => ~heldIndef[o][r]

IndefInv == \A o \in Ops, r \in Rows : HeldIndef(o, r)

LockInv == TypeOK /\ ClaimInv

-----------------------------------------------------------------------------
(* What the steps of an operation o on a row r have in common.             *)

\* Nothing of the other operations and of the other rows changes.
Frame(o, r) ==
    /\ now' = now
    /\ \A p \in Ops, q \in Rows : p # o \/ q # r =>
          /\ step'[p][q] = step[p][q]
          /\ lease'[p][q] = lease[p][q]
          /\ checked'[p][q] = checked[p][q]
          /\ heldIndef'[p][q] = heldIndef[p][q]
    /\ \A q \in Rows \ {r} :
          /\ lockCell'[q] = lockCell[q] /\ indefCell'[q] = indefCell[q]
          /\ usurped'[q] = usurped[q] /\ upgraded'[q] = upgraded[q]

\* What a request does to the Lock column: nothing, an unconditional delete, a
\* put into the empty column, a delete or a renewal of the operation's own cell.
KeepLock(r) == lockCell'[r] = lockCell[r] /\ usurped'[r] = usurped[r]
WipeLock(o, r) ==
    /\ lockCell'[r] = NoCell
    /\ usurped'[r] = (usurped[r] \/ (lockCell[r].op \in Ops \ {o}
                                     /\ now <= lockCell[r].ts + Expiry))
PutLock(o, r, t) ==
    /\ lockCell[r] = NoCell
    /\ lockCell'[r] = [op |-> o, ts |-> t]
    /\ usurped'[r] = usurped[r]
OwnLock(o, r) ==
    /\ lockCell[r].op = o
    /\ lockCell'[r] = NoCell \/ (lockCell'[r].op = o /\ lockCell'[r].ts >= lockCell[r].ts)
    /\ usurped'[r] = usurped[r]

LockStep(o, r) ==
    KeepLock(r) \/ WipeLock(o, r) \/ (\E t \in Nat : PutLock(o, r, t)) \/ OwnLock(o, r)

\* What a request does to the IndefiniteLock column.
KeepIndef(r) == indefCell'[r] = indefCell[r] /\ upgraded'[r] = upgraded[r]
PutIndef(o, r) ==
    /\ indefCell[r] = NoOp /\ indefCell'[r] = o
    /\ upgraded'[r] = Holds(o, r)
OwnIndef(o, r) ==
    indefCell[r] = o /\ indefCell'[r] = NoOp /\ upgraded'[r] = upgraded[r]

IndefStep(o, r) == KeepIndef(r) \/ PutIndef(o, r) \/ OwnIndef(o, r)

DropIndef(o, r) ==
    heldIndef' = [heldIndef EXCEPT ![o][r] = FALSE] /\ UNCHANGED <<lease, checked>>

\* A client call starts a program at its first request and drops the belief that
\* the call is about to undo.
LEMMA CallForm ==
    ASSUME NEW o \in Ops, NEW r \in Rows, ClientCall(o, r)
    PROVE  \E pc \in {"put", "putIndef", "renew", "unlock", "unlockIndef"}, guarded \in BOOLEAN :
              /\ Call(o, r, pc, guarded)
              /\ \/ pc = "unlock" /\ DropLease(o, r)
                 \/ pc = "unlockIndef" /\ DropIndef(o, r)
                 \/ pc \in {"put", "putIndef", "renew"} /\ UNCHANGED client
<1>1. CASE lock_root(o, r)
  BY <1>1 DEF lock_root
<1>2. CASE lock_by_row_key(o, r)
  BY <1>2 DEF lock_by_row_key
<1>3. CASE lock_root_indefinitely(o, r)
  BY <1>3 DEF lock_root_indefinitely
<1>4. CASE renew_lock(o, r)
  BY <1>4 DEF renew_lock
<1>5. CASE unlock_root(o, r)
  BY <1>5 DEF unlock_root
<1>6. CASE unlock_indefinitely_locked_root(o, r)
  BY <1>6 DEF unlock_indefinitely_locked_root, DropIndef
<1> QED
  BY <1>1, <1>2, <1>3, <1>4, <1>5, <1>6
     DEF ClientCall, lock_by_row_key_with_indefinite, lock_by_row_key_indefinitely,
         renew_lock_by_row_key, unlock_by_row_key, unlock_indefinitely_locked_by_row_key

-----------------------------------------------------------------------------
(* Type correctness.                                                       *)

LEMMA IdleIsStep == Idle \in Step
BY DEF Idle, Step, PCs

LEMMA StepFields ==
    ASSUME TypeOK, NEW o \in Ops, NEW r \in Rows
    PROVE  /\ step[o][r] \in Step
           /\ step[o][r].at \in Nat /\ step[o][r].seen \in Nat
           /\ step[o][r].pc \in PCs /\ step[o][r].guarded \in BOOLEAN
<1>1. step[o][r] \in Step
  BY DEF TypeOK
<1> QED BY <1>1 DEF Step

LEMMA CellFields ==
    ASSUME TypeOK, NEW r \in Rows
    PROVE  /\ lockCell[r] \in Cell \cup {NoCell}
           /\ lockCell[r].op \in Ops \cup {NoOp} /\ lockCell[r].ts \in Nat
           /\ lockCell[r].op = NoOp <=> lockCell[r] = NoCell
<1>1. lockCell[r] \in Cell \cup {NoCell}
  BY DEF TypeOK
<1> QED BY <1>1, HBaseConstants DEF Cell, NoCell

\* The assignments to step, one lemma each.
LEMMA ReturnType ==
    ASSUME TypeOK, NEW o \in Ops, NEW r \in Rows, Return(o, r)
    PROVE  step' \in [Ops -> [Rows -> Step]]
BY IdleIsStep DEF TypeOK, Return

LEMMA GotoType ==
    ASSUME TypeOK, NEW o \in Ops, NEW r \in Rows, NEW pc \in PCs, Goto(o, r, pc)
    PROVE  step' \in [Ops -> [Rows -> Step]]
<1> DEFINE s == step[o][r]
<1>1. [s EXCEPT !.pc = pc] \in Step
  <2>1. s \in Step
    BY StepFields
  <2> HIDE DEF s
  <2> QED BY <2>1 DEF Step
<1> QED BY <1>1 DEF TypeOK, Goto

LEMMA GrantType ==
    ASSUME TypeOK, NEW o \in Ops, NEW r \in Rows, NEW t \in Nat, NEW g \in BOOLEAN,
           Grant(o, r, t, g)
    PROVE  /\ lease' \in [Ops -> [Rows -> Nat \cup {NoLease}]]
           /\ checked' \in [Ops -> [Rows -> BOOLEAN]]
           /\ heldIndef' \in [Ops -> [Rows -> BOOLEAN]]
<1>1. lease' \in [Ops -> [Rows -> Nat \cup {NoLease}]]
  BY DEF TypeOK, Grant
<1>2. checked' \in [Ops -> [Rows -> BOOLEAN]]
  BY Zenon DEF TypeOK, Grant
<1> QED BY <1>1, <1>2 DEF TypeOK, Grant

LEMMA DropType ==
    ASSUME TypeOK, NEW o \in Ops, NEW r \in Rows, DropLease(o, r)
    PROVE  /\ lease' \in [Ops -> [Rows -> Nat \cup {NoLease}]]
           /\ checked' \in [Ops -> [Rows -> BOOLEAN]]
           /\ heldIndef' \in [Ops -> [Rows -> BOOLEAN]]
BY DEF TypeOK, DropLease

LEMMA DeleteColumnType ==
    ASSUME TypeOK, NEW o \in Ops, NEW r \in Rows, DeleteColumn(o, r)
    PROVE  /\ lockCell' \in [Rows -> Cell \cup {NoCell}]
           /\ usurped' \in [Rows -> BOOLEAN]
<1>1. lockCell' \in [Rows -> Cell \cup {NoCell}]
  BY DEF TypeOK, DeleteColumn
<1>2. usurped' \in [Rows -> BOOLEAN]
  BY Zenon DEF TypeOK, DeleteColumn
<1> QED BY <1>1, <1>2

LEMMA CallType ==
    ASSUME TypeOK, NEW o \in Ops, NEW r \in Rows, ClientCall(o, r)
    PROVE  TypeOK'
<1> PICK pc \in {"put", "putIndef", "renew", "unlock", "unlockIndef"}, guarded \in BOOLEAN :
        /\ Call(o, r, pc, guarded)
        /\ \/ pc = "unlock" /\ DropLease(o, r)
           \/ pc = "unlockIndef" /\ DropIndef(o, r)
           \/ pc \in {"put", "putIndef", "renew"} /\ UNCHANGED client
  BY CallForm
<1>1. step' \in [Ops -> [Rows -> Step]]
  <2>1. [pc |-> pc, guarded |-> guarded, at |-> now, seen |-> 0] \in Step
    BY DEF TypeOK, Step, PCs
  <2> QED BY <2>1 DEF TypeOK, Call
<1>2. /\ lease' \in [Ops -> [Rows -> Nat \cup {NoLease}]]
      /\ checked' \in [Ops -> [Rows -> BOOLEAN]]
      /\ heldIndef' \in [Ops -> [Rows -> BOOLEAN]]
  <2>1. CASE DropLease(o, r)
    BY <2>1, DropType
  <2>2. CASE DropIndef(o, r)
    BY <2>2 DEF TypeOK, DropIndef
  <2>3. CASE UNCHANGED client
    BY <2>3 DEF TypeOK, client
  <2> QED BY <2>1, <2>2, <2>3
<1> QED BY <1>1, <1>2 DEF TypeOK, Call, history

LEMMA AcquireType ==
    ASSUME TypeOK, NEW o \in Ops, NEW r \in Rows, acquire_lock_cell(o, r)
    PROVE  TypeOK'
<1> USE StepFields
<1>1. CASE AcquirePut(o, r)
  <2>1. lockCell' \in [Rows -> Cell \cup {NoCell}]
    BY <1>1 DEF AcquirePut, TypeOK, Cell
  <2>2. CASE Goto(o, r, "readIndef") /\ UNCHANGED client
    BY <1>1, <2>1, <2>2, GotoType DEF AcquirePut, TypeOK, client, history, PCs
  <2>3. CASE Return(o, r) /\ Grant(o, r, step[o][r].at, FALSE)
    BY <1>1, <2>1, <2>3, ReturnType, GrantType DEF AcquirePut, TypeOK, history
  <2>4. CASE Goto(o, r, "read") /\ UNCHANGED client
    BY <1>1, <2>1, <2>4, GotoType DEF AcquirePut, TypeOK, client, history, PCs
  <2> QED BY <1>1, <2>2, <2>3, <2>4 DEF AcquirePut
<1>2. CASE AcquireRefused(o, r)
  BY <1>2, GotoType DEF AcquireRefused, TypeOK, client, history, PCs
<1>3. CASE AcquireRead(o, r)
  <2>1. step' \in [Ops -> [Rows -> Step]]
    <3>1. CASE lockCell[r] = NoCell
      BY <1>3, <3>1, ReturnType DEF AcquireRead
    <3>2. CASE lockCell[r] # NoCell
      <4> DEFINE s == step[o][r]
                 t == lockCell[r].ts
      <4>1. [s EXCEPT !.pc = "expired", !.seen = t] \in Step
        <5>1. s \in Step /\ t \in Nat
          BY CellFields
        <5> HIDE DEF s, t
        <5> QED BY <5>1 DEF Step, PCs
      <4>2. step' = [step EXCEPT ![o][r] = [s EXCEPT !.pc = "expired", !.seen = t]]
        <5>1. step' = [step EXCEPT ![o][r].pc = "expired", ![o][r].seen = t]
          BY <1>3, <3>2, Zenon DEF AcquireRead
        <5> HIDE DEF t
        <5> QED BY <5>1 DEF TypeOK
      <4> HIDE DEF s, t
      <4> QED BY <4>1, <4>2 DEF TypeOK
    <3> QED BY <3>1, <3>2
  <2> QED BY <1>3, <2>1 DEF AcquireRead, TypeOK, client, history
<1>4. CASE CheckExpired(o, r)
  <2>1. Goto(o, r, "delete") \/ Return(o, r)
    BY <1>4 DEF CheckExpired
  <2> QED BY <1>4, <2>1, GotoType, ReturnType DEF CheckExpired, TypeOK, client, history, PCs
<1>5. CASE AcquireDelete(o, r)
  <2>1. step' \in [Ops -> [Rows -> Step]]
    BY <1>5, GotoType DEF AcquireDelete, PCs
  <2>2. lockCell' \in [Rows -> Cell \cup {NoCell}] /\ usurped' \in [Rows -> BOOLEAN]
    BY <1>5, DeleteColumnType DEF AcquireDelete, TypeOK
  <2> QED BY <1>5, <2>1, <2>2 DEF AcquireDelete, TypeOK, client
<1>6. CASE AcquireAgain(o, r)
  <2>1. step' \in [Ops -> [Rows -> Step]]
    <3> DEFINE s == step[o][r]
    <3>1. [s EXCEPT !.pc = "put", !.at = now] \in Step
      <4>1. s \in Step /\ now \in Nat
        BY DEF TypeOK
      <4> HIDE DEF s
      <4> QED BY <4>1 DEF Step, PCs
    <3>2. step' = [step EXCEPT ![o][r] = [s EXCEPT !.pc = "put", !.at = now]]
      BY <1>6 DEF AcquireAgain, TypeOK
    <3> HIDE DEF s
    <3> QED BY <3>1, <3>2 DEF TypeOK
  <2> QED BY <1>6, <2>1 DEF AcquireAgain, TypeOK, client, history
<1> QED BY <1>1, <1>2, <1>3, <1>4, <1>5, <1>6 DEF acquire_lock_cell

LEMMA GuardType ==
    ASSUME TypeOK, NEW o \in Ops, NEW r \in Rows, ReadIndefinite(o, r) \/ Rollback(o, r)
    PROVE  TypeOK'
<1> USE StepFields
<1>1. CASE ReadIndefinite(o, r) /\ indefCell[r] # NoOp
  BY <1>1, GotoType DEF ReadIndefinite, TypeOK, client, history, PCs
<1>2. CASE ReadIndefinite(o, r) /\ indefCell[r] = NoOp
  BY <1>2, ReturnType, GrantType DEF ReadIndefinite, TypeOK, history
<1>3. CASE Rollback(o, r)
  <2>1. lockCell' \in [Rows -> Cell \cup {NoCell}] /\ usurped' \in [Rows -> BOOLEAN]
    BY <1>3, DeleteColumnType DEF Rollback, TypeOK
  <2> QED BY <1>3, <2>1, ReturnType DEF Rollback, TypeOK, client
<1> QED BY <1>1, <1>2, <1>3

LEMMA SingleType ==
    ASSUME TypeOK, NEW o \in Ops, NEW r \in Rows,
           \/ release_lock_cell(o, r) \/ ReleaseIndefinite(o, r)
           \/ renew_lock_cell(o, r) \/ PutIndefinite(o, r) \/ Raise(o, r)
    PROVE  TypeOK'
<1>1. CASE release_lock_cell(o, r)
  BY <1>1, ReturnType DEF release_lock_cell, TypeOK, client, history
<1>2. CASE ReleaseIndefinite(o, r)
  BY <1>2, ReturnType DEF ReleaseIndefinite, TypeOK, client, history
<1>3. CASE RenewApplied(o, r)
  <2>1. lockCell' \in [Rows -> Cell \cup {NoCell}]
    <3> DEFINE c == lockCell[r]
               t == IF c.ts > now THEN c.ts ELSE now
    <3>1. [c EXCEPT !.ts = t] \in Cell
      <4>1. c \in Cell /\ t \in Nat
        BY <1>3, CellFields, HBaseConstants DEF RenewApplied, NoCell, TypeOK
      <4> HIDE DEF c, t
      <4> QED BY <4>1 DEF Cell
    <3>2. lockCell' = [lockCell EXCEPT ![r] = [c EXCEPT !.ts = t]]
      BY <1>3 DEF RenewApplied, TypeOK
    <3> HIDE DEF c, t
    <3> QED BY <3>1, <3>2 DEF TypeOK
  <2>2. CASE Grant(o, r, step[o][r].at, checked[o][r] /\ Holds(o, r))
    <3>1. (checked[o][r] /\ Holds(o, r)) \in BOOLEAN
      BY Zenon DEF TypeOK
    <3> QED BY <1>3, <2>1, <2>2, <3>1, ReturnType, GrantType, StepFields
            DEF RenewApplied, TypeOK, history
  <2>3. CASE UNCHANGED client
    BY <1>3, <2>1, <2>3, ReturnType DEF RenewApplied, TypeOK, client, history
  <2> QED BY <1>3, <2>2, <2>3 DEF RenewApplied
<1>4. CASE RenewRefused(o, r)
  BY <1>4, ReturnType, DropType DEF RenewRefused, TypeOK, history
<1>5. CASE PutIndefinite(o, r)
  <2>1. step' \in [Ops -> [Rows -> Step]]
    BY <1>5, ReturnType DEF PutIndefinite
  <2>2. /\ indefCell' \in [Rows -> Ops \cup {NoOp}]
        /\ heldIndef' \in [Ops -> [Rows -> BOOLEAN]]
    <3>1. CASE indefCell[r] = NoOp
      <4>1. /\ indefCell' = [indefCell EXCEPT ![r] = o]
            /\ heldIndef' = [heldIndef EXCEPT ![o][r] = TRUE] \/ UNCHANGED heldIndef
        BY <1>5, <3>1 DEF PutIndefinite
      <4>2. CASE heldIndef' = [heldIndef EXCEPT ![o][r] = TRUE]
        BY <4>1, <4>2 DEF TypeOK
      <4>3. CASE UNCHANGED heldIndef
        BY <4>1, <4>3 DEF TypeOK
      <4> QED BY <4>1, <4>2, <4>3
    <3>2. CASE indefCell[r] # NoOp
      BY <1>5, <3>2 DEF PutIndefinite, TypeOK
    <3> QED BY <3>1, <3>2
  <2>3. upgraded' \in [Rows -> BOOLEAN]
    BY <1>5, Zenon DEF PutIndefinite, TypeOK, Holds
  <2> QED BY <1>5, <2>1, <2>2, <2>3 DEF PutIndefinite, TypeOK
<1>6. CASE Raise(o, r)
  BY <1>6, ReturnType DEF Raise, TypeOK, client, history
<1> QED BY <1>1, <1>2, <1>3, <1>4, <1>5, <1>6 DEF renew_lock_cell

LEMMA TypeInit == Init => TypeOK
BY IdleIsStep DEF Init, TypeOK, NoLease

LEMMA TypeNext == TypeOK /\ [Next]_vars => TypeOK'
<1> SUFFICES ASSUME TypeOK, [Next]_vars PROVE TypeOK'
  OBVIOUS
<1>1. ASSUME NEW o \in Ops, NEW r \in Rows, ClientCall(o, r) PROVE TypeOK'
  BY <1>1, CallType
<1>2. ASSUME NEW o \in Ops, NEW r \in Rows, acquire_lock_cell(o, r) PROVE TypeOK'
  BY <1>2, AcquireType
<1>3. ASSUME NEW o \in Ops, NEW r \in Rows, ReadIndefinite(o, r) \/ Rollback(o, r) PROVE TypeOK'
  BY <1>3, GuardType
<1>4. ASSUME NEW o \in Ops, NEW r \in Rows,
             \/ release_lock_cell(o, r) \/ ReleaseIndefinite(o, r)
             \/ renew_lock_cell(o, r) \/ PutIndefinite(o, r) \/ Raise(o, r)
      PROVE TypeOK'
  BY <1>4, SingleType
<1>5. ASSUME NEW o \in Ops, Crash(o) PROVE TypeOK'
  BY <1>5, IdleIsStep DEF Crash, TypeOK, history
<1>6. CASE Tick
  BY <1>6 DEF Tick, TypeOK, client, history
<1>7. CASE UNCHANGED vars
  BY <1>7 DEF vars, TypeOK, client, history
<1> QED BY <1>1, <1>2, <1>3, <1>4, <1>5, <1>6, <1>7 DEF Next

\* Every variable of the HBase lock model keeps its type.
THEOREM TypeCorrect == Spec => []TypeOK
BY TypeInit, TypeNext, PTL DEF Spec

-----------------------------------------------------------------------------
(* The form of each step.                                                  *)

LEMMA DropEffect ==
    ASSUME TypeOK, NEW o \in Ops, NEW r \in Rows, DropLease(o, r)
    PROVE  /\ lease'[o][r] = NoLease /\ checked'[o][r] = FALSE /\ heldIndef' = heldIndef
           /\ \A p \in Ops, q \in Rows : p # o \/ q # r =>
                 lease'[p][q] = lease[p][q] /\ checked'[p][q] = checked[p][q]
<1>1. /\ lease'[o][r] = NoLease /\ heldIndef' = heldIndef
      /\ \A p \in Ops, q \in Rows : p # o \/ q # r => lease'[p][q] = lease[p][q]
  BY DEF DropLease, TypeOK
<1>2. /\ checked'[o][r] = FALSE
      /\ \A p \in Ops, q \in Rows : p # o \/ q # r => checked'[p][q] = checked[p][q]
  BY DEF DropLease, TypeOK
<1> QED BY <1>1, <1>2

LEMMA DropIndefEffect ==
    ASSUME TypeOK, NEW o \in Ops, NEW r \in Rows, DropIndef(o, r)
    PROVE  /\ heldIndef'[o][r] = FALSE /\ lease' = lease /\ checked' = checked
           /\ \A p \in Ops, q \in Rows : p # o \/ q # r => heldIndef'[p][q] = heldIndef[p][q]
BY DEF DropIndef, TypeOK

LEMMA CallEffect ==
    ASSUME TypeOK, NEW o \in Ops, NEW r \in Rows, ClientCall(o, r)
    PROVE  /\ Frame(o, r) /\ KeepLock(r) /\ KeepIndef(r)
           /\ step'[o][r].pc \in {"put", "putIndef", "renew", "unlock", "unlockIndef"}
           /\ step'[o][r].at = now
           /\ \/ lease'[o][r] = NoLease /\ ~checked'[o][r]
              \/ /\ step'[o][r].pc # "unlock"
                 /\ lease'[o][r] = lease[o][r] /\ checked'[o][r] = checked[o][r]
           /\ \/ ~heldIndef'[o][r]
              \/ step'[o][r].pc # "unlockIndef" /\ heldIndef'[o][r] = heldIndef[o][r]
<1> PICK pc \in {"put", "putIndef", "renew", "unlock", "unlockIndef"}, guarded \in BOOLEAN :
        /\ Call(o, r, pc, guarded)
        /\ \/ pc = "unlock" /\ DropLease(o, r)
           \/ pc = "unlockIndef" /\ DropIndef(o, r)
           \/ pc \in {"put", "putIndef", "renew"} /\ UNCHANGED client
  BY CallForm
<1>1. /\ step'[o][r] = [pc |-> pc, guarded |-> guarded, at |-> now, seen |-> 0]
      /\ \A p \in Ops, q \in Rows : p # o \/ q # r => step'[p][q] = step[p][q]
  BY DEF Call, TypeOK
<1>2. now' = now /\ UNCHANGED <<lockCell, indefCell, usurped, upgraded>>
  BY DEF Call, history
<1>3. CASE pc = "unlock" /\ DropLease(o, r)
  <2>1. /\ lease'[o][r] = NoLease /\ checked'[o][r] = FALSE /\ heldIndef' = heldIndef
        /\ \A p \in Ops, q \in Rows : p # o \/ q # r =>
              lease'[p][q] = lease[p][q] /\ checked'[p][q] = checked[p][q]
    BY <1>3, DropEffect
  <2> QED BY <1>1, <1>2, <1>3, <2>1 DEF Frame, KeepLock, KeepIndef
<1>4. CASE pc = "unlockIndef" /\ DropIndef(o, r)
  <2>1. /\ heldIndef'[o][r] = FALSE /\ lease' = lease /\ checked' = checked
        /\ \A p \in Ops, q \in Rows : p # o \/ q # r => heldIndef'[p][q] = heldIndef[p][q]
    BY <1>4, DropIndefEffect
  <2> QED BY <1>1, <1>2, <1>4, <2>1 DEF Frame, KeepLock, KeepIndef
<1>5. CASE pc \in {"put", "putIndef", "renew"} /\ UNCHANGED client
  BY <1>1, <1>2, <1>5 DEF client, TypeOK, Frame, KeepLock, KeepIndef
<1> QED BY <1>3, <1>4, <1>5

\* Where an assignment to step leaves the operation's own call, and the others'.
LEMMA ReturnEffect ==
    ASSUME TypeOK, NEW o \in Ops, NEW r \in Rows, Return(o, r)
    PROVE  /\ step'[o][r] = Idle
           /\ \A p \in Ops, q \in Rows : p # o \/ q # r => step'[p][q] = step[p][q]
BY DEF Return, TypeOK

LEMMA GotoEffect ==
    ASSUME TypeOK, NEW o \in Ops, NEW r \in Rows, NEW pc \in PCs, Goto(o, r, pc)
    PROVE  /\ step'[o][r].pc = pc
           /\ step'[o][r].at = step[o][r].at /\ step'[o][r].seen = step[o][r].seen
           /\ \A p \in Ops, q \in Rows : p # o \/ q # r => step'[p][q] = step[p][q]
<1>1. step'[o][r] = [step[o][r] EXCEPT !.pc = pc]
  BY DEF Goto, TypeOK
<1>2. step[o][r] \in Step
  BY StepFields
<1>3. \A p \in Ops, q \in Rows : p # o \/ q # r => step'[p][q] = step[p][q]
  BY DEF Goto, TypeOK
<1> QED BY <1>1, <1>2, <1>3 DEF Step

LEMMA GrantEffect ==
    ASSUME TypeOK, NEW o \in Ops, NEW r \in Rows, NEW t, NEW g, Grant(o, r, t, g)
    PROVE  /\ lease'[o][r] = t /\ checked'[o][r] = g /\ heldIndef' = heldIndef
           /\ \A p \in Ops, q \in Rows : p # o \/ q # r =>
                 lease'[p][q] = lease[p][q] /\ checked'[p][q] = checked[p][q]
<1>1. /\ lease'[o][r] = t /\ heldIndef' = heldIndef
      /\ \A p \in Ops, q \in Rows : p # o \/ q # r => lease'[p][q] = lease[p][q]
  BY DEF Grant, TypeOK
<1>2. /\ checked'[o][r] = g
      /\ \A p \in Ops, q \in Rows : p # o \/ q # r => checked'[p][q] = checked[p][q]
  BY Zenon DEF Grant, TypeOK
<1> QED BY <1>1, <1>2

LEMMA WipeEffect ==
    ASSUME TypeOK, NEW o \in Ops, NEW r \in Rows, DeleteColumn(o, r)
    PROVE  /\ WipeLock(o, r)
           /\ \A q \in Rows \ {r} : lockCell'[q] = lockCell[q] /\ usurped'[q] = usurped[q]
<1>1. lockCell'[r] = NoCell /\ \A q \in Rows \ {r} : lockCell'[q] = lockCell[q]
  BY DEF DeleteColumn, TypeOK
<1>2. /\ usurped'[r] = (usurped[r] \/ (lockCell[r].op \in Ops \ {o}
                                       /\ now <= lockCell[r].ts + Expiry))
      /\ \A q \in Rows \ {r} : usurped'[q] = usurped[q]
  BY Zenon DEF DeleteColumn, TypeOK
<1> QED BY <1>1, <1>2 DEF WipeLock

\* Nothing but the program counter of the call changes.
Moves(o, r) ==
    /\ Frame(o, r) /\ KeepLock(r) /\ KeepIndef(r)
    /\ lease'[o][r] = lease[o][r] /\ checked'[o][r] = checked[o][r]
    /\ heldIndef'[o][r] = heldIndef[o][r]

LEMMA AcquirePutEffect ==
    ASSUME TypeOK, NEW o \in Ops, NEW r \in Rows, AcquirePut(o, r)
    PROVE  /\ Frame(o, r) /\ PutLock(o, r, step[o][r].at) /\ KeepIndef(r)
           /\ heldIndef'[o][r] = heldIndef[o][r]
           /\ \/ /\ step'[o][r].pc \in {"readIndef", "read"}
                 /\ step'[o][r].at = step[o][r].at
                 /\ lease'[o][r] = lease[o][r] /\ checked'[o][r] = checked[o][r]
              \/ /\ step'[o][r] = Idle
                 /\ lease'[o][r] = step[o][r].at /\ ~checked'[o][r]
<1>1. /\ lockCell[r] = NoCell /\ lockCell'[r] = [op |-> o, ts |-> step[o][r].at]
      /\ \A q \in Rows \ {r} : lockCell'[q] = lockCell[q]
      /\ now' = now /\ indefCell' = indefCell
      /\ usurped' = usurped /\ upgraded' = upgraded
  BY DEF AcquirePut, TypeOK, history
<1>2. ASSUME NEW pc \in {"readIndef", "read"}, Goto(o, r, pc), UNCHANGED client
      PROVE  Frame(o, r) /\ PutLock(o, r, step[o][r].at) /\ KeepIndef(r)
             /\ heldIndef'[o][r] = heldIndef[o][r]
             /\ step'[o][r].pc = pc /\ step'[o][r].at = step[o][r].at
             /\ lease'[o][r] = lease[o][r] /\ checked'[o][r] = checked[o][r]
  <2>1. pc \in PCs
    BY DEF PCs
  <2> QED BY <1>1, <1>2, <2>1, GotoEffect DEF Frame, PutLock, KeepIndef, client
<1>3. CASE Return(o, r) /\ Grant(o, r, step[o][r].at, FALSE)
  <2>1. /\ step'[o][r] = Idle
        /\ \A p \in Ops, q \in Rows : p # o \/ q # r => step'[p][q] = step[p][q]
    BY <1>3, ReturnEffect
  <2>2. /\ lease'[o][r] = step[o][r].at /\ checked'[o][r] = FALSE /\ heldIndef' = heldIndef
        /\ \A p \in Ops, q \in Rows : p # o \/ q # r =>
              lease'[p][q] = lease[p][q] /\ checked'[p][q] = checked[p][q]
    BY <1>3, GrantEffect, ZenonT(60)
  <2> QED BY <1>1, <2>1, <2>2 DEF Frame, PutLock, KeepIndef
<1> QED BY <1>2, <1>3 DEF AcquirePut

\* The steps of the client and the reads that find nothing to change.
LEMMA MoveEffect ==
    ASSUME TypeOK, NEW o \in Ops, NEW r \in Rows,
           \/ AcquireRefused(o, r) \/ AcquireRead(o, r) \/ CheckExpired(o, r)
           \/ AcquireAgain(o, r) \/ Raise(o, r)
           \/ ReadIndefinite(o, r) /\ indefCell[r] # NoOp
    PROVE  /\ Moves(o, r)
           /\ \/ step'[o][r] = Idle
              \/ step'[o][r].pc = "read" /\ step'[o][r].at = step[o][r].at
              \/ step'[o][r].pc = "put" /\ step'[o][r].at = now
              \/ /\ step'[o][r].pc = "expired" /\ step'[o][r].at = step[o][r].at
                 /\ step'[o][r].seen = lockCell[r].ts
              \/ /\ step'[o][r].pc = "delete" /\ step'[o][r].at = step[o][r].at
                 /\ At(o, r, "expired") /\ now - step[o][r].seen > Expiry
              \/ /\ step'[o][r].pc = "rollback" /\ step'[o][r].at = step[o][r].at
                 /\ At(o, r, "readIndef")
<1> USE DEF Moves, Frame, KeepLock, KeepIndef, client, history
<1> "read" \in PCs /\ "delete" \in PCs /\ "rollback" \in PCs
  BY DEF PCs
<1>1. CASE AcquireRefused(o, r)
  BY <1>1, GotoEffect DEF AcquireRefused
<1>2. CASE AcquireRead(o, r)
  <2>1. CASE lockCell[r] = NoCell
    BY <1>2, <2>1, ReturnEffect DEF AcquireRead
  <2>2. CASE lockCell[r] # NoCell
    <3> DEFINE s == step[o][r]
               t == lockCell[r].ts
    <3>1. /\ step'[o][r] = [s EXCEPT !.pc = "expired", !.seen = t]
          /\ \A p \in Ops, q \in Rows : p # o \/ q # r => step'[p][q] = step[p][q]
      <4>1. step' = [step EXCEPT ![o][r].pc = "expired", ![o][r].seen = t]
        BY <1>2, <2>2, Zenon DEF AcquireRead
      <4> HIDE DEF t
      <4> QED BY <4>1 DEF TypeOK
    <3>2. step'[o][r].pc = "expired" /\ step'[o][r].at = s.at /\ step'[o][r].seen = t
      <4>1. s \in Step
        BY StepFields
      <4> HIDE DEF s, t
      <4> QED BY <3>1, <4>1 DEF Step
    <3>3. UNCHANGED <<now, lockCell, indefCell, client, history>>
      BY <1>2 DEF AcquireRead
    <3> HIDE DEF s
    <3> QED BY <3>1, <3>2, <3>3 DEF s
  <2> QED BY <2>1, <2>2
<1>3. CASE CheckExpired(o, r)
  <2>1. CASE now - step[o][r].seen > Expiry
    BY <1>3, <2>1, GotoEffect DEF CheckExpired
  <2>2. CASE ~(now - step[o][r].seen > Expiry)
    BY <1>3, <2>2, ReturnEffect DEF CheckExpired
  <2> QED BY <2>1, <2>2
<1>4. CASE AcquireAgain(o, r)
  <2> DEFINE s == step[o][r]
  <2>1. /\ step'[o][r] = [s EXCEPT !.pc = "put", !.at = now]
        /\ \A p \in Ops, q \in Rows : p # o \/ q # r => step'[p][q] = step[p][q]
    BY <1>4 DEF AcquireAgain, TypeOK
  <2>2. step'[o][r].pc = "put" /\ step'[o][r].at = now
    <3>1. s \in Step
      BY StepFields
    <3> HIDE DEF s
    <3> QED BY <2>1, <3>1 DEF Step
  <2> HIDE DEF s
  <2> QED BY <1>4, <2>1, <2>2 DEF AcquireAgain
<1>5. CASE Raise(o, r)
  BY <1>5, ReturnEffect DEF Raise
<1>6. CASE ReadIndefinite(o, r) /\ indefCell[r] # NoOp
  BY <1>6, GotoEffect DEF ReadIndefinite
<1> QED BY <1>1, <1>2, <1>3, <1>4, <1>5, <1>6

\* The two unconditional deletes, which may also fail.
LEMMA DeleteEffect ==
    ASSUME TypeOK, NEW o \in Ops, NEW r \in Rows, AcquireDelete(o, r) \/ Rollback(o, r)
    PROVE  /\ Frame(o, r) /\ KeepIndef(r)
           /\ WipeLock(o, r) \/ KeepLock(r)
           /\ step[o][r].pc \in {"delete", "rollback"}
           /\ \/ step'[o][r] = Idle
              \/ step'[o][r].pc = "call" /\ step'[o][r].at = step[o][r].at
           /\ lease'[o][r] = lease[o][r] /\ checked'[o][r] = checked[o][r]
           /\ heldIndef'[o][r] = heldIndef[o][r]
<1>1. /\ \/ step'[o][r] = Idle
         \/ step'[o][r].pc = "call" /\ step'[o][r].at = step[o][r].at
      /\ \A p \in Ops, q \in Rows : p # o \/ q # r => step'[p][q] = step[p][q]
      /\ step[o][r].pc \in {"delete", "rollback"}
  BY ReturnEffect, GotoEffect DEF AcquireDelete, Rollback, PCs, At
<1>2. DeleteColumn(o, r) \/ UNCHANGED <<lockCell, usurped>>
  BY DEF AcquireDelete, Rollback
<1>3. UNCHANGED <<now, indefCell, client, upgraded>>
  BY DEF AcquireDelete, Rollback
<1>4. /\ WipeLock(o, r) \/ KeepLock(r)
      /\ \A q \in Rows \ {r} : lockCell'[q] = lockCell[q] /\ usurped'[q] = usurped[q]
  BY <1>2, WipeEffect DEF KeepLock
<1> QED BY <1>1, <1>3, <1>4 DEF Frame, KeepIndef, client

LEMMA GrantRowEffect ==
    ASSUME TypeOK, NEW o \in Ops, NEW r \in Rows, ReadIndefinite(o, r), indefCell[r] = NoOp
    PROVE  /\ Frame(o, r) /\ KeepLock(r) /\ KeepIndef(r)
           /\ step[o][r].pc = "readIndef" /\ step'[o][r] = Idle
           /\ lease'[o][r] = step[o][r].at /\ checked'[o][r]
           /\ heldIndef'[o][r] = heldIndef[o][r]
<1>1. /\ Return(o, r) /\ Grant(o, r, step[o][r].at, TRUE)
      /\ step[o][r].pc = "readIndef"
      /\ UNCHANGED <<now, lockCell, indefCell, usurped, upgraded>>
  BY DEF ReadIndefinite, At, history
<1>2. /\ step'[o][r] = Idle
      /\ \A p \in Ops, q \in Rows : p # o \/ q # r => step'[p][q] = step[p][q]
  BY <1>1, ReturnEffect
<1>3. /\ lease'[o][r] = step[o][r].at /\ checked'[o][r] = TRUE /\ heldIndef' = heldIndef
      /\ \A p \in Ops, q \in Rows : p # o \/ q # r =>
            lease'[p][q] = lease[p][q] /\ checked'[p][q] = checked[p][q]
  BY <1>1, GrantEffect, ZenonT(60)
<1> QED BY <1>1, <1>2, <1>3 DEF Frame, KeepLock, KeepIndef

LEMMA ReleaseEffect ==
    ASSUME TypeOK, NEW o \in Ops, NEW r \in Rows, release_lock_cell(o, r)
    PROVE  /\ Frame(o, r) /\ KeepIndef(r)
           /\ OwnLock(o, r) \/ KeepLock(r)
           /\ step[o][r].pc = "unlock" /\ step'[o][r] = Idle
           /\ lease'[o][r] = lease[o][r] /\ checked'[o][r] = checked[o][r]
           /\ heldIndef'[o][r] = heldIndef[o][r]
<1>1. CASE lockCell[r].op = o
  BY <1>1, ReturnEffect
     DEF release_lock_cell, At, Frame, OwnLock, KeepIndef, client, history, TypeOK
<1>2. CASE lockCell[r].op # o
  BY <1>2, ReturnEffect
     DEF release_lock_cell, At, Frame, KeepLock, KeepIndef, client, history, TypeOK
<1> QED BY <1>1, <1>2

LEMMA ReleaseIndefiniteEffect ==
    ASSUME TypeOK, NEW o \in Ops, NEW r \in Rows, ReleaseIndefinite(o, r)
    PROVE  /\ Frame(o, r) /\ KeepLock(r)
           /\ OwnIndef(o, r) \/ (KeepIndef(r) /\ indefCell[r] # o)
           /\ step[o][r].pc = "unlockIndef" /\ step'[o][r] = Idle
           /\ lease'[o][r] = lease[o][r] /\ checked'[o][r] = checked[o][r]
           /\ heldIndef'[o][r] = heldIndef[o][r]
<1>1. CASE indefCell[r] = o
  BY <1>1, ReturnEffect
     DEF ReleaseIndefinite, At, Frame, KeepLock, OwnIndef, client, history, TypeOK
<1>2. CASE indefCell[r] # o
  BY <1>2, ReturnEffect
     DEF ReleaseIndefinite, At, Frame, KeepLock, KeepIndef, client, history, TypeOK
<1> QED BY <1>1, <1>2

LEMMA RenewAppliedEffect ==
    ASSUME TypeOK, NEW o \in Ops, NEW r \in Rows, RenewApplied(o, r)
    PROVE  /\ Frame(o, r) /\ KeepIndef(r)
           /\ OwnLock(o, r) /\ lockCell'[r].op = o /\ lockCell'[r].ts >= now
           /\ step'[o][r] = Idle
           /\ \/ /\ lease'[o][r] = step[o][r].at
                 /\ checked'[o][r] = (checked[o][r] /\ Holds(o, r))
              \/ lease'[o][r] = lease[o][r] /\ checked'[o][r] = checked[o][r]
           /\ heldIndef'[o][r] = heldIndef[o][r]
<1>1. /\ OwnLock(o, r) /\ lockCell'[r].op = o /\ lockCell'[r].ts >= now
      /\ \A q \in Rows \ {r} : lockCell'[q] = lockCell[q]
  <2> DEFINE c == lockCell[r]
             t == IF c.ts > now THEN c.ts ELSE now
  <2>1. c.op = o /\ usurped' = usurped
    BY DEF RenewApplied, history
  <2>2. lockCell' = [lockCell EXCEPT ![r].ts = t]
    BY DEF RenewApplied
  <2>3. c \in Cell /\ c.ts \in Nat /\ t \in Nat /\ now \in Nat /\ t >= c.ts /\ t >= now
    BY <2>1, CellFields, HBaseConstants DEF NoCell, TypeOK
  <2>4. lockCell'[r] = [c EXCEPT !.ts = t] /\ \A q \in Rows \ {r} : lockCell'[q] = lockCell[q]
    <3> HIDE DEF t
    <3> QED BY <2>2 DEF TypeOK
  <2>5. lockCell'[r].op = o /\ lockCell'[r].ts = t
    <3> HIDE DEF c, t
    <3> QED BY <2>1, <2>3, <2>4 DEF Cell
  <2> HIDE DEF t
  <2> QED BY <2>1, <2>3, <2>4, <2>5 DEF OwnLock
<1>2. UNCHANGED <<now, indefCell, history>> /\ Return(o, r)
  BY DEF RenewApplied
<1>3. CASE Grant(o, r, step[o][r].at, checked[o][r] /\ Holds(o, r))
  BY <1>1, <1>2, <1>3, ReturnEffect, GrantEffect DEF Frame, KeepIndef, history
<1>4. CASE UNCHANGED client
  BY <1>1, <1>2, <1>4, ReturnEffect DEF Frame, KeepIndef, history, client
<1> QED BY <1>3, <1>4 DEF RenewApplied

LEMMA RenewRefusedEffect ==
    ASSUME TypeOK, NEW o \in Ops, NEW r \in Rows, RenewRefused(o, r)
    PROVE  /\ Frame(o, r) /\ KeepLock(r) /\ KeepIndef(r)
           /\ step'[o][r] = Idle
           /\ lease'[o][r] = NoLease /\ ~checked'[o][r]
           /\ heldIndef'[o][r] = heldIndef[o][r]
<1>1. /\ Return(o, r) /\ DropLease(o, r)
      /\ UNCHANGED <<now, lockCell, indefCell, usurped, upgraded>>
  BY DEF RenewRefused, history
<1>2. /\ step'[o][r] = Idle
      /\ \A p \in Ops, q \in Rows : p # o \/ q # r => step'[p][q] = step[p][q]
  BY <1>1, ReturnEffect
<1>3. /\ lease'[o][r] = NoLease /\ checked'[o][r] = FALSE /\ heldIndef' = heldIndef
      /\ \A p \in Ops, q \in Rows : p # o \/ q # r =>
            lease'[p][q] = lease[p][q] /\ checked'[p][q] = checked[p][q]
  BY <1>1, DropEffect
<1> QED BY <1>1, <1>2, <1>3 DEF Frame, KeepLock, KeepIndef

LEMMA PutIndefiniteEffect ==
    ASSUME TypeOK, NEW o \in Ops, NEW r \in Rows, PutIndefinite(o, r)
    PROVE  /\ Frame(o, r) /\ KeepLock(r)
           /\ \/ PutIndef(o, r)
              \/ KeepIndef(r) /\ heldIndef'[o][r] = heldIndef[o][r]
           /\ step'[o][r] = Idle
           /\ lease'[o][r] = lease[o][r] /\ checked'[o][r] = checked[o][r]
<1>1. Return(o, r) /\ UNCHANGED <<now, lockCell, lease, checked, usurped>>
  BY DEF PutIndefinite
<1>2. CASE indefCell[r] = NoOp
  <2>1. /\ indefCell' = [indefCell EXCEPT ![r] = o]
        /\ heldIndef' = [heldIndef EXCEPT ![o][r] = TRUE] \/ UNCHANGED heldIndef
    BY <1>2, Zenon DEF PutIndefinite
  <2>2. \A p \in Ops, q \in Rows : p # o \/ q # r => heldIndef'[p][q] = heldIndef[p][q]
    BY <2>1 DEF TypeOK
  <2>3. indefCell'[r] = o /\ \A q \in Rows \ {r} : indefCell'[q] = indefCell[q]
    BY <2>1 DEF TypeOK
  <2>4. upgraded'[r] = Holds(o, r) /\ \A q \in Rows \ {r} : upgraded'[q] = upgraded[q]
    BY <1>2, Zenon DEF PutIndefinite, TypeOK
  <2>5. PutIndef(o, r)
    BY <1>2, <2>3, <2>4, Zenon DEF PutIndef
  <2> QED BY <1>1, <2>2, <2>3, <2>4, <2>5, ReturnEffect DEF Frame, KeepLock
<1>3. CASE indefCell[r] # NoOp
  BY <1>1, <1>3, ReturnEffect DEF PutIndefinite, Frame, KeepLock, KeepIndef
<1> QED BY <1>2, <1>3

\* The step of an operation on a row, and its form.
OpStep(o, r) ==
    \/ ClientCall(o, r) \/ acquire_lock_cell(o, r)
    \/ ReadIndefinite(o, r) \/ Rollback(o, r)
    \/ release_lock_cell(o, r) \/ ReleaseIndefinite(o, r)
    \/ renew_lock_cell(o, r) \/ PutIndefinite(o, r)
    \/ Raise(o, r)

\* Every step of an operation is one of these.
LEMMA OpStepCases ==
    ASSUME NEW o \in Ops, NEW r \in Rows, OpStep(o, r)
    PROVE  \/ ClientCall(o, r)
           \/ AcquirePut(o, r)
           \/ \/ AcquireRefused(o, r) \/ AcquireRead(o, r) \/ CheckExpired(o, r)
              \/ AcquireAgain(o, r) \/ Raise(o, r)
              \/ ReadIndefinite(o, r) /\ indefCell[r] # NoOp
           \/ AcquireDelete(o, r) \/ Rollback(o, r)
           \/ ReadIndefinite(o, r) /\ indefCell[r] = NoOp
           \/ release_lock_cell(o, r)
           \/ ReleaseIndefinite(o, r)
           \/ RenewApplied(o, r)
           \/ RenewRefused(o, r)
           \/ PutIndefinite(o, r)
BY DEF OpStep, acquire_lock_cell, renew_lock_cell

LEMMA OpStepForm ==
    ASSUME TypeOK, NEW o \in Ops, NEW r \in Rows, OpStep(o, r)
    PROVE  Frame(o, r) /\ LockStep(o, r) /\ IndefStep(o, r)
<1> USE DEF LockStep, IndefStep
<1>1. CASE ClientCall(o, r)
  BY <1>1, CallEffect
<1>2. CASE AcquirePut(o, r)
  BY <1>2, AcquirePutEffect, StepFields
<1>3. CASE \/ AcquireRefused(o, r) \/ AcquireRead(o, r) \/ CheckExpired(o, r)
           \/ AcquireAgain(o, r) \/ Raise(o, r)
           \/ ReadIndefinite(o, r) /\ indefCell[r] # NoOp
  <2>1. Moves(o, r)
    BY <1>3, MoveEffect
  <2> QED BY <2>1 DEF Moves
<1>4. CASE AcquireDelete(o, r) \/ Rollback(o, r)
  BY <1>4, DeleteEffect
<1>5. CASE ReadIndefinite(o, r) /\ indefCell[r] = NoOp
  BY <1>5, GrantRowEffect
<1>6. CASE release_lock_cell(o, r)
  BY <1>6, ReleaseEffect
<1>7. CASE ReleaseIndefinite(o, r)
  BY <1>7, ReleaseIndefiniteEffect
<1>8. CASE RenewApplied(o, r)
  BY <1>8, RenewAppliedEffect
<1>9. CASE RenewRefused(o, r)
  BY <1>9, RenewRefusedEffect
<1>10. CASE PutIndefinite(o, r)
  BY <1>10, PutIndefiniteEffect
<1> QED BY <1>1, <1>2, <1>3, <1>4, <1>5, <1>6, <1>7, <1>8, <1>9, <1>10, OpStepCases

-----------------------------------------------------------------------------
(* The holder keeps its cell.                                              *)

\* What backs a lock of one operation survives the requests of the others: a put
\* needs an empty column, the checked requests leave a foreign cell alone, and
\* an unconditional delete of an unexpired cell is recorded.
LEMMA BackedStable ==
    ASSUME TypeOK, NEW o \in Ops, NEW r \in Rows, Frame(o, r), LockStep(o, r),
           NEW p \in Ops, NEW q \in Rows, p # o \/ q # r,
           NEW t \in Nat, Backed(p, q, t)
    PROVE  /\ ~usurped'[q] /\ now' <= t + Expiry => lockCell'[q].op = p /\ lockCell'[q].ts >= t
           /\ usurped[q] => usurped'[q]
<1>1. CASE q # r
  BY <1>1 DEF Frame, Backed
<1>2. CASE q = r
  <2>0. now' = now /\ now \in Nat /\ p # o /\ p # NoOp
    BY <1>2, HBaseConstants DEF Frame, TypeOK
  <2>1. CASE KeepLock(r)
    BY <1>2, <2>0, <2>1 DEF KeepLock, Backed
  <2>2. CASE WipeLock(o, r)
    <3>1. /\ lockCell[r].op \in Ops \ {o} /\ now <= lockCell[r].ts + Expiry => usurped'[r]
          /\ usurped[r] => usurped'[r]
      BY <2>2, Zenon DEF WipeLock
    <3>2. lockCell[r].ts \in Nat
      BY CellFields
    <3> QED BY <1>2, <2>0, <3>1, <3>2, HBaseConstants DEF Backed
  <2>3. CASE \E u \in Nat : PutLock(o, r, u)
    BY <1>2, <2>0, <2>3 DEF PutLock, Backed, NoCell
  <2>4. CASE OwnLock(o, r)
    BY <1>2, <2>0, <2>4 DEF OwnLock, Backed
  <2> QED BY <2>1, <2>2, <2>3, <2>4 DEF LockStep
<1> QED BY <1>1, <1>2

LEMMA UsurpedStays ==
    ASSUME NEW o \in Ops, NEW r \in Rows, Frame(o, r), LockStep(o, r), NEW q \in Rows, usurped[q]
    PROVE  usurped'[q]
BY Zenon DEF Frame, LockStep, KeepLock, WipeLock, PutLock, OwnLock

LEMMA OthersClaim ==
    ASSUME TypeOK, NEW o \in Ops, NEW r \in Rows, Frame(o, r), LockStep(o, r),
           NEW p \in Ops, NEW q \in Rows, p # o \/ q # r, Claims(p, q)
    PROVE  Claims(p, q)'
<1>1. /\ now' = now /\ step'[p][q] = step[p][q] /\ lease'[p][q] = lease[p][q]
      /\ now \in Nat /\ lease[p][q] \in Nat \cup {NoLease}
  BY DEF Frame, TypeOK
<1>2. usurped[q] => usurped'[q]
  BY UsurpedStays
<1>3. step[p][q].at \in Nat /\ step[p][q].seen \in Nat
  BY StepFields
<1>4. (lease[p][q] # NoLease => Backed(p, q, lease[p][q]))'
  BY <1>1, BackedStable DEF Claims, Backed
<1>5. (At(p, q, "readIndef") => Backed(p, q, step[p][q].at))'
  BY <1>1, <1>3, BackedStable DEF Claims, Backed, At
<1> QED BY <1>1, <1>2, <1>4, <1>5 DEF Claims, At, Holds

\* A lock that is held has its cell, or was usurped: the empty column has no holder.
LEMMA HolderOfCell ==
    ASSUME TypeOK, NEW o \in Ops, NEW r \in Rows, Claims(o, r), Holds(o, r), ~usurped[r]
    PROVE  lockCell[r].op = o /\ lockCell[r].ts >= lease[o][r] /\ lockCell[r] # NoCell
BY HBaseConstants DEF Claims, Holds, Backed, NoCell, TypeOK

LEMMA OwnClaim ==
    ASSUME TypeOK, TypeOK', NEW o \in Ops, NEW r \in Rows, OpStep(o, r), Claims(o, r)
    PROVE  Claims(o, r)'
<1>t. /\ now' = now /\ now \in Nat
      /\ lease[o][r] \in Nat \cup {NoLease} /\ step[o][r].at \in Nat /\ step[o][r].at <= now
      /\ step[o][r].seen \in Nat /\ lockCell[r].ts \in Nat
      /\ usurped[r] => usurped'[r]
  <2>1. Frame(o, r) /\ LockStep(o, r)
    BY OpStepForm
  <2>2. usurped[r] => usurped'[r]
    BY <2>1, UsurpedStays
  <2>3. step[o][r].at \in Nat /\ step[o][r].seen \in Nat /\ lockCell[r].ts \in Nat
    BY StepFields, CellFields
  <2>4. now \in Nat /\ lease[o][r] \in Nat \cup {NoLease}
    BY DEF TypeOK
  <2> QED BY <2>1, <2>2, <2>3, <2>4 DEF Frame, Claims
<1> USE HBaseConstants DEF NoLease
<1>1. CASE ClientCall(o, r)
  BY <1>1, <1>t, CallEffect DEF Claims, At, Holds, Backed, KeepLock
<1>2. CASE AcquirePut(o, r)
  <2>1. Holds(o, r) => usurped[r]
    BY <1>2, HolderOfCell DEF AcquirePut
  <2>2. /\ lockCell'[r] = [op |-> o, ts |-> step[o][r].at]
        /\ usurped'[r] = usurped[r]
    BY <1>2, AcquirePutEffect DEF PutLock
  <2>3. CASE /\ step'[o][r].pc \in {"readIndef", "read"} /\ step'[o][r].at = step[o][r].at
             /\ lease'[o][r] = lease[o][r]
    BY <1>t, <2>1, <2>2, <2>3 DEF Claims, At, Holds, Backed
  <2>4. CASE step'[o][r] = Idle /\ lease'[o][r] = step[o][r].at
    BY <1>t, <2>2, <2>4 DEF Claims, At, Holds, Backed, Idle
  <2> QED BY <1>2, <2>3, <2>4, AcquirePutEffect
<1>3. CASE \/ AcquireRefused(o, r) \/ AcquireRead(o, r) \/ CheckExpired(o, r)
           \/ AcquireAgain(o, r) \/ Raise(o, r)
           \/ ReadIndefinite(o, r) /\ indefCell[r] # NoOp
  <2>1. /\ lockCell'[r] = lockCell[r] /\ usurped'[r] = usurped[r]
        /\ lease'[o][r] = lease[o][r]
    BY <1>3, MoveEffect DEF Moves, KeepLock
  <2>2. \/ step'[o][r] = Idle
        \/ step'[o][r].pc = "read" /\ step'[o][r].at = step[o][r].at
        \/ step'[o][r].pc = "put" /\ step'[o][r].at = now
        \/ /\ step'[o][r].pc = "expired" /\ step'[o][r].at = step[o][r].at
           /\ step'[o][r].seen = lockCell[r].ts
        \/ /\ step'[o][r].pc = "delete" /\ step'[o][r].at = step[o][r].at
           /\ At(o, r, "expired") /\ now - step[o][r].seen > Expiry
        \/ /\ step'[o][r].pc = "rollback" /\ step'[o][r].at = step[o][r].at
           /\ At(o, r, "readIndef")
    BY <1>3, MoveEffect
  <2> QED BY <1>t, <2>1, <2>2 DEF Claims, At, Holds, Backed, Idle
<1>4. CASE AcquireDelete(o, r) \/ Rollback(o, r)
  <2>1. /\ lease'[o][r] = lease[o][r]
        /\ \/ step'[o][r] = Idle
           \/ step'[o][r].pc = "call" /\ step'[o][r].at = step[o][r].at
        /\ step[o][r].pc \in {"delete", "rollback"}
    BY <1>4, DeleteEffect
  <2>2. Holds(o, r) => usurped[r]
    BY <2>1 DEF Claims
  <2> QED BY <1>t, <2>1, <2>2 DEF Claims, At, Holds, Backed, Idle
<1>5. CASE ReadIndefinite(o, r) /\ indefCell[r] = NoOp
  BY <1>5, <1>t, GrantRowEffect DEF Claims, At, Holds, Backed, KeepLock, Idle
<1>6. CASE release_lock_cell(o, r)
  BY <1>6, <1>t, ReleaseEffect DEF Claims, At, Holds, Backed, Idle
<1>7. CASE ReleaseIndefinite(o, r)
  BY <1>7, <1>t, ReleaseIndefiniteEffect DEF Claims, At, Holds, Backed, KeepLock, Idle
<1>8. CASE RenewApplied(o, r)
  <2>1. /\ usurped'[r] = usurped[r] /\ lockCell[r].op = o /\ lockCell'[r].op = o
        /\ lockCell'[r].ts >= now /\ step'[o][r] = Idle
        /\ lockCell'[r].ts >= lockCell[r].ts
        /\ lease'[o][r] \in {lease[o][r], step[o][r].at}
    BY <1>8, RenewAppliedEffect, HBaseConstants DEF OwnLock, NoCell
  <2>2. lockCell'[r].ts \in Nat
    BY CellFields DEF TypeOK, Cell, NoCell
  <2> QED BY <1>t, <2>1, <2>2 DEF Claims, At, Holds, Backed, Idle
<1>9. CASE RenewRefused(o, r)
  BY <1>9, <1>t, RenewRefusedEffect DEF Claims, At, Holds, Backed, KeepLock, Idle
<1>10. CASE PutIndefinite(o, r)
  BY <1>10, <1>t, PutIndefiniteEffect DEF Claims, At, Holds, Backed, KeepLock, Idle
<1> QED BY <1>1, <1>2, <1>3, <1>4, <1>5, <1>6, <1>7, <1>8, <1>9, <1>10, OpStepCases

LEMMA LockInit == Init => LockInv
<1> SUFFICES ASSUME Init PROVE ClaimInv
  BY TypeInit DEF LockInv
<1> SUFFICES ASSUME NEW o \in Ops, NEW r \in Rows PROVE Claims(o, r)
  BY DEF ClaimInv
<1>1. now = 0 /\ step[o][r] = Idle /\ lease[o][r] = NoLease
  BY DEF Init
<1> QED BY <1>1 DEF Claims, At, Holds, Idle

\* A dead client believes in nothing, and time only ends locks.
LEMMA CrashClaims ==
    ASSUME TypeOK, ClaimInv, NEW o \in Ops, Crash(o)
    PROVE  ClaimInv'
<1> SUFFICES ASSUME NEW p \in Ops, NEW q \in Rows PROVE Claims(p, q)'
  BY DEF ClaimInv
<1>1. CASE p = o
  BY <1>1 DEF Crash, TypeOK, Claims, At, Holds, Idle
<1>2. CASE p # o
  <2>1. /\ step'[p] = step[p] /\ lease'[p] = lease[p] /\ now' = now
        /\ lockCell' = lockCell /\ usurped' = usurped
    BY <1>2 DEF Crash, TypeOK, history
  <2>2. Claims(p, q)
    BY DEF ClaimInv
  <2> QED BY <2>1, <2>2 DEF Claims, At, Holds, Backed
<1> QED BY <1>1, <1>2

LEMMA TickClaims ==
    ASSUME TypeOK, ClaimInv, Tick
    PROVE  ClaimInv'
<1> SUFFICES ASSUME NEW p \in Ops, NEW q \in Rows PROVE Claims(p, q)'
  BY DEF ClaimInv
<1>1. /\ now' = now + 1 /\ step' = step /\ lease' = lease
      /\ lockCell' = lockCell /\ usurped' = usurped
  BY DEF Tick, client, history
<1>2. /\ now \in Nat /\ lease[p][q] \in Nat \cup {NoLease}
      /\ step[p][q].at \in Nat
  BY StepFields DEF TypeOK
<1>3. Claims(p, q)
  BY DEF ClaimInv
<1> QED BY <1>1, <1>2, <1>3, HBaseConstants DEF Claims, At, Holds, Backed, NoLease

LEMMA LockNext == LockInv /\ [Next]_vars => LockInv'
<1> SUFFICES ASSUME LockInv, [Next]_vars PROVE LockInv'
  OBVIOUS
<1>0. TypeOK /\ ClaimInv /\ TypeOK'
  BY TypeNext DEF LockInv
<1>1. ASSUME NEW o \in Ops, NEW r \in Rows, OpStep(o, r) PROVE ClaimInv'
  <2> SUFFICES ASSUME NEW p \in Ops, NEW q \in Rows PROVE Claims(p, q)'
    BY DEF ClaimInv
  <2>1. Claims(p, q)
    BY <1>0 DEF ClaimInv
  <2>2. CASE p = o /\ q = r
    BY <1>0, <1>1, <2>1, <2>2, OwnClaim
  <2>3. CASE p # o \/ q # r
    BY <1>0, <1>1, <2>1, <2>3, OpStepForm, OthersClaim
  <2> QED BY <2>2, <2>3
<1>2. ASSUME NEW o \in Ops, Crash(o) PROVE ClaimInv'
  BY <1>0, <1>2, CrashClaims
<1>3. ASSUME Tick PROVE ClaimInv'
  BY <1>0, <1>3, TickClaims
<1>4. ASSUME UNCHANGED vars PROVE ClaimInv'
  BY <1>0, <1>4 DEF vars, client, history, ClaimInv, Claims, At, Holds, Backed
<1> QED BY <1>0, <1>1, <1>2, <1>3, <1>4 DEF Next, OpStep, LockInv

LEMMA LockInvariant == Spec => []LockInv
BY LockInit, LockNext, PTL DEF Spec

LEMMA HolderOfInv == LockInv => HolderKeepsCell
BY HolderOfCell DEF LockInv, ClaimInv, HolderKeepsCell

\* Until some _delete_cell removes an unexpired lock of another operation, the
\* holder of a temporal lock keeps its cell on the row, at least as new as its
\* grant, however late the requests of all the calls are handled.
THEOREM HolderKeeps == Spec => []HolderKeepsCell
BY LockInvariant, HolderOfInv, PTL

\* Mutual exclusion as base.py promises it, which a deletion by name breaks: on a
\* row where no unexpired lock was deleted, at most one operation believes that it
\* holds the lock, whatever else is late, repeated by its caller or crashes.
ExclusiveUnlessUsurped ==
    \A r \in Rows : ~usurped[r] =>
        \A o, p \in Ops : Holds(o, r) /\ Holds(p, r) => o = p

THEOREM OneHolder == Spec => []ExclusiveUnlessUsurped
<1>1. HolderKeepsCell => ExclusiveUnlessUsurped
  BY DEF HolderKeepsCell, ExclusiveUnlessUsurped
<1> QED BY <1>1, HolderKeeps, PTL

-----------------------------------------------------------------------------
(* The indefinite lock.                                                    *)

LEMMA IndefOthers ==
    ASSUME NEW o \in Ops, NEW r \in Rows, Frame(o, r), IndefStep(o, r),
           NEW p \in Ops, NEW q \in Rows, p # o \/ q # r, HeldIndef(p, q)
    PROVE  HeldIndef(p, q)'
<1>1. heldIndef'[p][q] = heldIndef[p][q] /\ step'[p][q] = step[p][q]
  BY DEF Frame
<1>2. heldIndef[p][q] => indefCell'[q] = p
  <2>1. CASE q # r
    BY <2>1 DEF Frame, HeldIndef
  <2>2. CASE q = r
    BY <2>2, HBaseConstants DEF IndefStep, KeepIndef, PutIndef, OwnIndef, HeldIndef
  <2> QED BY <2>1, <2>2
<1> QED BY <1>1, <1>2 DEF HeldIndef, At

LEMMA IndefOwn ==
    ASSUME TypeOK, NEW o \in Ops, NEW r \in Rows, OpStep(o, r), HeldIndef(o, r)
    PROVE  HeldIndef(o, r)'
<1> USE DEF HeldIndef, At, KeepIndef, Idle
<1>1. CASE ClientCall(o, r)
  BY <1>1, CallEffect
<1>2. CASE AcquirePut(o, r)
  BY <1>2, AcquirePutEffect
<1>3. CASE \/ AcquireRefused(o, r) \/ AcquireRead(o, r) \/ CheckExpired(o, r)
           \/ AcquireAgain(o, r) \/ Raise(o, r)
           \/ ReadIndefinite(o, r) /\ indefCell[r] # NoOp
  <2>1. indefCell'[r] = indefCell[r] /\ heldIndef'[o][r] = heldIndef[o][r]
    BY <1>3, MoveEffect DEF Moves
  <2>2. step'[o][r].pc # "unlockIndef"
    BY <1>3, MoveEffect
  <2> QED BY <2>1, <2>2
<1>4. CASE AcquireDelete(o, r) \/ Rollback(o, r)
  BY <1>4, DeleteEffect
<1>5. CASE ReadIndefinite(o, r) /\ indefCell[r] = NoOp
  BY <1>5, GrantRowEffect
<1>6. CASE release_lock_cell(o, r)
  BY <1>6, ReleaseEffect
<1>7. CASE ReleaseIndefinite(o, r)
  BY <1>7, ReleaseIndefiniteEffect
<1>8. CASE RenewApplied(o, r)
  BY <1>8, RenewAppliedEffect
<1>9. CASE RenewRefused(o, r)
  BY <1>9, RenewRefusedEffect
<1>10. CASE PutIndefinite(o, r)
  BY <1>10, PutIndefiniteEffect DEF PutIndef
<1> QED BY <1>1, <1>2, <1>3, <1>4, <1>5, <1>6, <1>7, <1>8, <1>9, <1>10, OpStepCases

LEMMA IndefNext == TypeOK /\ IndefInv /\ [Next]_vars => IndefInv'
<1> SUFFICES ASSUME TypeOK, IndefInv, [Next]_vars,
                    NEW p \in Ops, NEW q \in Rows
             PROVE  HeldIndef(p, q)'
  BY DEF IndefInv
<1>0. HeldIndef(p, q)
  BY DEF IndefInv
<1>1. ASSUME NEW o \in Ops, NEW r \in Rows, OpStep(o, r) PROVE HeldIndef(p, q)'
  <2>1. CASE p = o /\ q = r
    BY <1>0, <1>1, <2>1, IndefOwn
  <2>2. CASE p # o \/ q # r
    BY <1>0, <1>1, <2>2, OpStepForm, IndefOthers
  <2> QED BY <2>1, <2>2
<1>2. ASSUME NEW o \in Ops, Crash(o) PROVE HeldIndef(p, q)'
  <2>1. CASE p = o
    BY <1>2, <2>1 DEF Crash, TypeOK, HeldIndef, At, Idle
  <2>2. CASE p # o
    BY <1>0, <1>2, <2>2 DEF Crash, TypeOK, HeldIndef, At
  <2> QED BY <2>1, <2>2
<1>3. ASSUME Tick PROVE HeldIndef(p, q)'
  BY <1>0, <1>3 DEF Tick, client, HeldIndef, At
<1>4. ASSUME UNCHANGED vars PROVE HeldIndef(p, q)'
  BY <1>0, <1>4 DEF vars, client, HeldIndef, At
<1> QED BY <1>1, <1>2, <1>3, <1>4 DEF Next, OpStep

\* An indefinite lock belongs to one operation, and its cell stays until that
\* operation's own unlock, whatever the others, the clock and the crashes do.
THEOREM IndefIsExclusive == Spec => []IndefiniteExclusive
<1>1. Init => IndefInv
  BY DEF Init, IndefInv, HeldIndef, At, Idle
<1>2. IndefInv => IndefiniteExclusive
  BY DEF IndefInv, HeldIndef, IndefiniteExclusive
<1> QED BY <1>1, <1>2, IndefNext, TypeCorrect, PTL DEF Spec

-----------------------------------------------------------------------------
(* The upgrade from the temporal to the indefinite lock.                   *)

\* Only a call that found the indefinite column empty begins a checked lock; a
\* renewal keeps one going only when it has not lapsed.
LEMMA CheckedEffect ==
    ASSUME TypeOK, NEW o \in Ops, NEW r \in Rows, OpStep(o, r),
           Holds(o, r)', checked'[o][r]
    PROVE  (Holds(o, r) /\ checked[o][r]) \/ (KeepIndef(r) /\ indefCell[r] = NoOp)
<1>0. now' = now
  BY OpStepForm DEF Frame
<1> USE DEF Holds
<1>1. CASE ClientCall(o, r)
  BY <1>0, <1>1, CallEffect
<1>2. CASE AcquirePut(o, r)
  BY <1>0, <1>2, AcquirePutEffect
<1>3. CASE \/ AcquireRefused(o, r) \/ AcquireRead(o, r) \/ CheckExpired(o, r)
           \/ AcquireAgain(o, r) \/ Raise(o, r)
           \/ ReadIndefinite(o, r) /\ indefCell[r] # NoOp
  <2>1. lease'[o][r] = lease[o][r] /\ checked'[o][r] = checked[o][r]
    BY <1>3, MoveEffect DEF Moves
  <2> QED BY <1>0, <2>1
<1>4. CASE AcquireDelete(o, r) \/ Rollback(o, r)
  BY <1>0, <1>4, DeleteEffect
<1>5. CASE ReadIndefinite(o, r) /\ indefCell[r] = NoOp
  BY <1>5, GrantRowEffect
<1>6. CASE release_lock_cell(o, r)
  BY <1>0, <1>6, ReleaseEffect
<1>7. CASE ReleaseIndefinite(o, r)
  BY <1>0, <1>7, ReleaseIndefiniteEffect
<1>8. CASE RenewApplied(o, r)
  <2>1. \/ checked'[o][r] = (checked[o][r] /\ Holds(o, r))
        \/ lease'[o][r] = lease[o][r] /\ checked'[o][r] = checked[o][r]
    BY <1>8, RenewAppliedEffect
  <2>2. CASE checked'[o][r] = (checked[o][r] /\ Holds(o, r))
    BY <2>2, Zenon
  <2>3. CASE lease'[o][r] = lease[o][r] /\ checked'[o][r] = checked[o][r]
    BY <1>0, <2>3
  <2> QED BY <2>1, <2>2, <2>3
<1>9. CASE RenewRefused(o, r)
  BY <1>0, <1>9, RenewRefusedEffect
<1>10. CASE PutIndefinite(o, r)
  BY <1>0, <1>10, PutIndefiniteEffect
<1> QED BY <1>1, <1>2, <1>3, <1>4, <1>5, <1>6, <1>7, <1>8, <1>9, <1>10, OpStepCases

LEMMA UpgradeOpStep ==
    ASSUME LockInv, UpgradeExclusive, NEW o \in Ops, NEW r \in Rows, OpStep(o, r)
    PROVE  UpgradeExclusive'
<1> SUFFICES ASSUME NEW q \in Rows, NEW x \in Ops, NEW p \in Ops,
                    indefCell'[q] = x, upgraded'[q], ~usurped'[q],
                    Holds(p, q)', checked'[p][q]
             PROVE  p = x
  BY DEF UpgradeExclusive
<1>0. TypeOK /\ Frame(o, r) /\ LockStep(o, r) /\ IndefStep(o, r)
  BY OpStepForm DEF LockInv
<1>1. ~usurped[q]
  BY <1>0, UsurpedStays
<1>2. p # o \/ q # r => Holds(p, q) /\ checked[p][q]
  BY <1>0 DEF Frame, Holds
<1>3. CASE q # r
  BY <1>0, <1>1, <1>2, <1>3 DEF Frame, UpgradeExclusive
<1>4. CASE q = r
  <2>1. CASE KeepIndef(r)
    <3>1. indefCell[r] = x /\ x # NoOp /\ upgraded[r]
      BY <1>4, <2>1, HBaseConstants DEF KeepIndef
    <3>2. Holds(p, r) /\ checked[p][r]
      BY <1>0, <1>2, <1>4, <3>1, CheckedEffect
    <3> QED BY <1>1, <1>4, <3>1, <3>2 DEF UpgradeExclusive
  <2>2. CASE PutIndef(o, r)
    <3>1. x = o /\ Holds(o, r)
      BY <1>4, <2>2, Zenon DEF PutIndef
    <3>2. lockCell[r].op = o
      BY <1>0, <1>1, <1>4, <3>1, HolderOfCell DEF LockInv, ClaimInv
    <3>3. CASE p # o
      BY <1>0, <1>1, <1>2, <1>4, <3>2, <3>3, HolderOfCell DEF LockInv, ClaimInv
    <3> QED BY <3>1, <3>3
  <2>3. CASE OwnIndef(o, r)
    BY <1>4, <2>3, HBaseConstants DEF OwnIndef
  <2> QED BY <1>0, <2>1, <2>2, <2>3 DEF IndefStep
<1> QED BY <1>3, <1>4

LEMMA UpgradeNext == LockInv /\ UpgradeExclusive /\ [Next]_vars => UpgradeExclusive'
<1> SUFFICES ASSUME LockInv, UpgradeExclusive, [Next]_vars PROVE UpgradeExclusive'
  OBVIOUS
<1>1. ASSUME NEW o \in Ops, NEW r \in Rows, OpStep(o, r) PROVE UpgradeExclusive'
  BY <1>1, UpgradeOpStep
<1>2. ASSUME NEW o \in Ops, Crash(o) PROVE UpgradeExclusive'
  <2> SUFFICES ASSUME NEW q \in Rows, NEW p \in Ops, Holds(p, q)', checked'[p][q]
               PROVE  Holds(p, q) /\ checked[p][q]
    BY <1>2 DEF Crash, history, UpgradeExclusive
  <2>1. p # o
    BY <1>2 DEF Crash, TypeOK, LockInv, Holds
  <2> QED BY <1>2, <2>1 DEF Crash, TypeOK, LockInv, Holds
<1>3. ASSUME Tick PROVE UpgradeExclusive'
  <2> SUFFICES ASSUME NEW q \in Rows, NEW p \in Ops, Holds(p, q)'
               PROVE  Holds(p, q)
    BY <1>3 DEF Tick, client, history, UpgradeExclusive
  <2>1. now \in Nat /\ now' = now + 1 /\ lease' = lease
        /\ lease[p][q] \in Nat \cup {NoLease}
    BY <1>3 DEF Tick, client, LockInv, TypeOK
  <2> QED BY <2>1, HBaseConstants DEF Holds, NoLease
<1>4. ASSUME UNCHANGED vars PROVE UpgradeExclusive'
  BY <1>4 DEF vars, client, history, UpgradeExclusive, Holds
<1> QED BY <1>1, <1>2, <1>3, <1>4 DEF Next, OpStep

\* A row whose holder put the indefinite cell is granted to no other operation
\* by the calls that check the indefinite column, also after the holder's
\* worker is gone and its temporal lock has expired, unless an unexpired lock
\* of the row was deleted.
THEOREM UpgradeIsExclusive == Spec => []UpgradeExclusive
<1>1. Init => UpgradeExclusive
  BY DEF Init, UpgradeExclusive
<1> QED BY <1>1, UpgradeNext, LockInvariant, PTL DEF Spec
=============================================================================
