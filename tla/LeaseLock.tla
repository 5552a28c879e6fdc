----------------------------- MODULE LeaseLock -----------------------------
(***************************************************************************)
(* What the row locks of kvdbclient promise, without requests, cells or    *)
(* versions: a row has at most one owner; the owner has it until a time    *)
(* that only the owner extends; another operation becomes the owner only   *)
(* after the owner let it go or that time has passed.  Independently a row *)
(* has at most one indefinite owner, who stays until it lets go.  A root   *)
(* that was superseded, or that has an indefinite owner, gets no new       *)
(* owner.                                                                  *)
(***************************************************************************)
EXTENDS Integers

CONSTANTS
    Rows, RootRows, Ops, NoOp,
    Expiry,     \* how long a grant lasts
    Lag,        \* how much of it may already have passed when it is granted
    MaxTime

VARIABLES
    now,
    owner,       \* row -> the operation that has the temporal lock, or NoOp
    until,       \* row -> when the owner's time ends
    indefOwner,  \* row -> the operation that has the indefinite lock, or NoOp
    superseded   \* row -> the root was replaced

vars == <<now, owner, until, indefOwner, superseded>>

Init ==
    /\ now = 0
    /\ owner      = [r \in Rows |-> NoOp]
    /\ until      = [r \in Rows |-> 0]
    /\ indefOwner = [r \in Rows |-> NoOp]
    /\ superseded = [r \in Rows |-> FALSE]

Free(r)  == owner[r] = NoOp \/ until[r] < now

Acquire(o, r) ==
    /\ Free(r)
    /\ r \in RootRows => ~superseded[r] /\ indefOwner[r] = NoOp
    /\ owner' = [owner EXCEPT ![r] = o]
    /\ \E u \in (now + Expiry - Lag)..(now + Expiry) : until' = [until EXCEPT ![r] = u]
    /\ UNCHANGED <<now, indefOwner, superseded>>

Extend(o, r) ==
    /\ owner[r] = o
    /\ now <= until[r]
    /\ r \in RootRows => ~superseded[r]
    /\ \E u \in until[r]..(now + Expiry) : until' = [until EXCEPT ![r] = u]
    /\ UNCHANGED <<now, owner, indefOwner, superseded>>

Release(o, r) ==
    /\ owner[r] = o
    /\ now <= until[r]
    /\ owner' = [owner EXCEPT ![r] = NoOp]
    /\ until' = [until EXCEPT ![r] = 0]
    /\ UNCHANGED <<now, indefOwner, superseded>>

AcquireIndefinite(o, r) ==
    /\ indefOwner[r] = NoOp
    /\ r \in RootRows => ~superseded[r]
    /\ indefOwner' = [indefOwner EXCEPT ![r] = o]
    /\ UNCHANGED <<now, owner, until, superseded>>

ReleaseIndefinite(o, r) ==
    /\ indefOwner[r] = o
    /\ indefOwner' = [indefOwner EXCEPT ![r] = NoOp]
    /\ UNCHANGED <<now, owner, until, superseded>>

Supersede(r) ==
    /\ r \in RootRows
    /\ superseded' = [superseded EXCEPT ![r] = TRUE]
    /\ UNCHANGED <<now, owner, until, indefOwner>>

Tick ==
    /\ now < MaxTime
    /\ now' = now + 1
    /\ UNCHANGED <<owner, until, indefOwner, superseded>>

Next ==
    \/ \E o \in Ops, r \in Rows :
          \/ Acquire(o, r) \/ Extend(o, r) \/ Release(o, r)
          \/ AcquireIndefinite(o, r) \/ ReleaseIndefinite(o, r)
    \/ \E r \in Rows : Supersede(r)
    \/ Tick

Spec == Init /\ [][Next]_vars

-----------------------------------------------------------------------------
(* Without the clock: a lock is live until its time has passed.            *)

Untimed == INSTANCE RowLocks WITH
    live <- [r \in Rows |-> owner[r] # NoOp /\ now <= until[r]]

\* A grant arrives before its time has passed.
LeaseConstants == NoOp \notin Ops /\ Expiry \in Nat /\ Lag \in Nat /\ Lag <= Expiry

\* Whoever sees no clock sees the locks of RowLocks.
ImplementsRowLocks == Untimed!Spec
=============================================================================
