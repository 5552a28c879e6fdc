-------------------------- MODULE LeaseLockProofs --------------------------
(***************************************************************************)
(* LeaseLock implements RowLocks: what LockRoots takes for the locks of a  *)
(* row is what is left of the abstract lock without its clock.             *)
(***************************************************************************)
EXTENDS LeaseLock, TLAPS

LeaseTypeOK ==
    /\ now \in Int
    /\ owner \in [Rows -> Ops \cup {NoOp}]
    /\ until \in [Rows -> Int]

Live(r) == owner[r] # NoOp /\ now <= until[r]

LEMMA LeaseTypes == ASSUME LeaseConstants PROVE Spec => []LeaseTypeOK
<1>1. Init => LeaseTypeOK
  BY DEF Init, LeaseTypeOK
<1>2. ASSUME LeaseTypeOK, [Next]_vars PROVE LeaseTypeOK'
  <2>1. ASSUME NEW o \in Ops, NEW r \in Rows, Acquire(o, r) PROVE LeaseTypeOK'
    BY <1>2, <2>1 DEF LeaseTypeOK, Acquire, LeaseConstants
  <2>2. ASSUME NEW o \in Ops, NEW r \in Rows, Extend(o, r) PROVE LeaseTypeOK'
    BY <1>2, <2>2 DEF LeaseTypeOK, Extend, LeaseConstants
  <2>3. ASSUME NEW o \in Ops, NEW r \in Rows, Release(o, r) PROVE LeaseTypeOK'
    BY <1>2, <2>3 DEF LeaseTypeOK, Release
  <2>4. ASSUME NEW o \in Ops, NEW r \in Rows,
               AcquireIndefinite(o, r) \/ ReleaseIndefinite(o, r)
        PROVE  LeaseTypeOK'
    BY <1>2, <2>4 DEF LeaseTypeOK, AcquireIndefinite, ReleaseIndefinite
  <2>5. ASSUME Tick PROVE LeaseTypeOK'
    BY <1>2, <2>5 DEF LeaseTypeOK, Tick
  <2>6. CASE UNCHANGED vars
    BY <1>2, <2>6 DEF LeaseTypeOK, vars
  <2>7. ASSUME NEW r \in Rows, Supersede(r) PROVE LeaseTypeOK'
    BY <1>2, <2>7 DEF LeaseTypeOK, Supersede
  <2> QED BY <1>2, <2>1, <2>2, <2>3, <2>4, <2>5, <2>6, <2>7 DEF Next
<1> QED BY <1>1, <1>2, PTL DEF Spec

\* What runs out from one moment to the next.
LEMMA TickExpires == ASSUME LeaseConstants, LeaseTypeOK, Tick PROVE Untimed!Next
<1>1. now' = now + 1 /\ UNCHANGED <<owner, until, indefOwner>>
  BY DEF Tick
<1>2. PICK S \in SUBSET Rows : \A r \in Rows : r \in S <=> until[r] < now + 1
  <2>1. {r \in Rows : until[r] < now + 1} \in SUBSET Rows
    OBVIOUS
  <2> QED BY <2>1
<1>3. \A r \in Rows : Live(r)' = (Live(r) /\ r \notin S)
  <2>1. \A r \in Rows : Live(r)' <=> Live(r) /\ r \notin S
    BY <1>1, <1>2 DEF LeaseTypeOK, Live
  <2> QED BY <2>1 DEF Live
<1>4. [r \in Rows |-> Live(r)'] = [r \in Rows |-> [q \in Rows |-> Live(q)][r] /\ r \notin S]
  BY <1>3, Zenon
<1>5. Untimed!Expire(S)
  BY <1>1, <1>4 DEF Live, Untimed!Expire
<1> QED BY <1>5 DEF Untimed!Next

\* One row's owner and time change: the lock is live then or not.
LEMMA RowChanges ==
    ASSUME LeaseTypeOK, now' = now, NEW r \in Rows, NEW live,
           \A s \in Rows : s # r => owner'[s] = owner[s] /\ until'[s] = until[s],
           (owner'[r] # NoOp /\ now <= until'[r]) = live
    PROVE  [s \in Rows |-> owner'[s] # NoOp /\ now' <= until'[s]]
             = [[s \in Rows |-> owner[s] # NoOp /\ now <= until[s]] EXCEPT ![r] = live]
BY Zenon

LEMMA AcquireRefines ==
    ASSUME LeaseConstants, LeaseTypeOK, NEW o \in Ops, NEW r \in Rows, Acquire(o, r)
    PROVE  Untimed!Acquire(o, r)
<1>1. PICK u \in (now + Expiry - Lag)..(now + Expiry) : until' = [until EXCEPT ![r] = u]
  BY DEF Acquire
<1>2. owner' = [owner EXCEPT ![r] = o] /\ UNCHANGED <<now, indefOwner>>
  BY DEF Acquire
<1>3. owner'[r] = o /\ until'[r] = u /\ now <= u
  BY <1>1, <1>2 DEF LeaseTypeOK, LeaseConstants
<1>4. \A s \in Rows : s # r => owner'[s] = owner[s] /\ until'[s] = until[s]
  BY <1>1, <1>2 DEF LeaseTypeOK
<1>5. (owner'[r] # NoOp /\ now <= until'[r]) = TRUE
  BY <1>3 DEF LeaseConstants
<1>6. [s \in Rows |-> owner'[s] # NoOp /\ now' <= until'[s]]
        = [[s \in Rows |-> owner[s] # NoOp /\ now <= until[s]] EXCEPT ![r] = TRUE]
  BY <1>2, <1>4, <1>5, RowChanges
<1>7. ~(owner[r] # NoOp /\ now <= until[r]) /\ (r \in RootRows => indefOwner[r] = NoOp)
  BY DEF Acquire, Free, LeaseTypeOK
<1> QED BY <1>2, <1>6, <1>7 DEF Untimed!Acquire

LEMMA ExtendRefines ==
    ASSUME LeaseConstants, LeaseTypeOK, NEW o \in Ops, NEW r \in Rows, Extend(o, r)
    PROVE  Untimed!Extend(o, r)
<1>1. PICK u \in until[r]..(now + Expiry) : until' = [until EXCEPT ![r] = u]
  BY DEF Extend
<1>2. owner[r] = o /\ now <= until[r] /\ UNCHANGED <<now, owner, indefOwner>>
  BY DEF Extend
<1>3. until'[r] = u /\ now <= u
  BY <1>1, <1>2 DEF LeaseTypeOK, LeaseConstants
<1>4. \A s \in Rows : s # r => owner'[s] = owner[s] /\ until'[s] = until[s]
  BY <1>1, <1>2 DEF LeaseTypeOK
<1>5. (owner'[r] # NoOp /\ now <= until'[r]) = TRUE
  BY <1>2, <1>3 DEF LeaseConstants
<1>6. [s \in Rows |-> owner'[s] # NoOp /\ now' <= until'[s]]
        = [[s \in Rows |-> owner[s] # NoOp /\ now <= until[s]] EXCEPT ![r] = TRUE]
  BY <1>2, <1>4, <1>5, RowChanges
<1> QED BY <1>2, <1>6 DEF Untimed!Extend

LEMMA ReleaseRefines ==
    ASSUME LeaseConstants, LeaseTypeOK, NEW o \in Ops, NEW r \in Rows, Release(o, r)
    PROVE  Untimed!Release(o, r)
<1>1. /\ owner[r] = o /\ now <= until[r] /\ UNCHANGED <<now, indefOwner>>
      /\ owner' = [owner EXCEPT ![r] = NoOp] /\ until' = [until EXCEPT ![r] = 0]
  BY DEF Release
<1>2. \A s \in Rows : s # r => owner'[s] = owner[s] /\ until'[s] = until[s]
  BY <1>1 DEF LeaseTypeOK
<1>3. (owner'[r] # NoOp /\ now <= until'[r]) = FALSE
  BY <1>1 DEF LeaseTypeOK
<1>4. [s \in Rows |-> owner'[s] # NoOp /\ now' <= until'[s]]
        = [[s \in Rows |-> owner[s] # NoOp /\ now <= until[s]] EXCEPT ![r] = FALSE]
  BY <1>1, <1>2, <1>3, RowChanges
<1>5. owner[r] # NoOp /\ now <= until[r]
  BY <1>1 DEF LeaseConstants
<1> QED BY <1>1, <1>4, <1>5 DEF Untimed!Release

LEMMA UntimedNext ==
    ASSUME LeaseConstants, LeaseTypeOK, [Next]_vars
    PROVE  [Untimed!Next]_(Untimed!vars)
<1>1. ASSUME NEW o \in Ops, NEW r \in Rows, Acquire(o, r) \/ Extend(o, r) \/ Release(o, r)
      PROVE  Untimed!Next
  BY <1>1, AcquireRefines, ExtendRefines, ReleaseRefines DEF Untimed!Next
<1>2. ASSUME NEW o \in Ops, NEW r \in Rows, AcquireIndefinite(o, r)
      PROVE  Untimed!Next
  <2>1. Untimed!AcquireIndefinite(o, r)
    BY <1>2 DEF AcquireIndefinite, Untimed!AcquireIndefinite
  <2> QED BY <2>1 DEF Untimed!Next
<1>3. ASSUME NEW o \in Ops, NEW r \in Rows, ReleaseIndefinite(o, r)
      PROVE  Untimed!Next
  <2>1. Untimed!ReleaseIndefinite(o, r)
    BY <1>3 DEF ReleaseIndefinite, Untimed!ReleaseIndefinite
  <2> QED BY <2>1 DEF Untimed!Next
<1>4. ASSUME NEW r \in Rows, Supersede(r) PROVE UNCHANGED Untimed!vars
  BY <1>4 DEF Supersede, Untimed!vars
<1>5. CASE UNCHANGED vars
  BY <1>5 DEF vars, Untimed!vars
<1> QED BY <1>1, <1>2, <1>3, <1>4, <1>5, TickExpires DEF Next

\* Without its clock, the abstract lock is that of RowLocks: an owner loses its lock by
\* its own release or when time has passed, and nobody acquires the row before that.
THEOREM LeaseIsRowLock == ASSUME LeaseConstants PROVE Spec => ImplementsRowLocks
<1>1. Init => Untimed!Init
  BY DEF Init, Untimed!Init
<1>2. LeaseTypeOK /\ [Next]_vars => [Untimed!Next]_(Untimed!vars)
  BY UntimedNext
<1> QED BY <1>1, <1>2, LeaseTypes, PTL DEF Spec, ImplementsRowLocks, Untimed!Spec
=============================================================================
