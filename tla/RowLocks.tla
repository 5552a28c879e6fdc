----------------------------- MODULE RowLocks ------------------------------
(***************************************************************************)
(* LeaseLock without its clock: a temporal lock runs out at some time, and *)
(* nobody knows when.  It is what LockRoots takes for a row's locks.  An   *)
(* owner whose lock ran out stays the owner until another operation        *)
(* acquires the row, so that it may still extend its lock.                 *)
(***************************************************************************)
CONSTANTS Rows, RootRows, Ops, NoOp

VARIABLES
    owner,      \* row -> the operation that acquired it last, or NoOp
    live,       \* row -> the lock of its owner has not run out
    indefOwner  \* row -> the operation that has the indefinite lock, or NoOp

vars == <<owner, live, indefOwner>>

Init ==
    /\ owner      = [r \in Rows |-> NoOp]
    /\ live       = [r \in Rows |-> FALSE]
    /\ indefOwner = [r \in Rows |-> NoOp]

Acquire(o, r) ==
    /\ ~live[r]
    /\ r \in RootRows => indefOwner[r] = NoOp
    /\ owner' = [owner EXCEPT ![r] = o]
    /\ live'  = [live EXCEPT ![r] = TRUE]
    /\ UNCHANGED indefOwner

Extend(o, r) ==
    /\ owner[r] = o
    /\ live' = [live EXCEPT ![r] = TRUE]
    /\ UNCHANGED <<owner, indefOwner>>

Release(o, r) ==
    /\ owner[r] = o /\ live[r]
    /\ owner' = [owner EXCEPT ![r] = NoOp]
    /\ live'  = [live EXCEPT ![r] = FALSE]
    /\ UNCHANGED indefOwner

AcquireIndefinite(o, r) ==
    /\ indefOwner[r] = NoOp
    /\ indefOwner' = [indefOwner EXCEPT ![r] = o]
    /\ UNCHANGED <<owner, live>>

ReleaseIndefinite(o, r) ==
    /\ indefOwner[r] = o
    /\ indefOwner' = [indefOwner EXCEPT ![r] = NoOp]
    /\ UNCHANGED <<owner, live>>

\* The locks of some rows run out.
Expire(S) ==
    /\ live' = [r \in Rows |-> live[r] /\ r \notin S]
    /\ UNCHANGED <<owner, indefOwner>>

Next ==
    \/ \E o \in Ops, r \in Rows :
          \/ Acquire(o, r) \/ Extend(o, r) \/ Release(o, r)
          \/ AcquireIndefinite(o, r) \/ ReleaseIndefinite(o, r)
    \/ \E S \in SUBSET Rows : Expire(S)

Spec == Init /\ [][Next]_vars
=============================================================================
