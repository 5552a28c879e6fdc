----------------------------- MODULE LockRoots -----------------------------
(***************************************************************************)
(* Locking several roots at once: lock_roots, lock_roots_indefinitely,     *)
(* renew_locks and write of src/kvdbclient/base.py.                        *)
(*                                                                         *)
(* Each of them sends one request per root from a pool of threads, so the  *)
(* requests of a call are handled in any order and between those of other  *)
(* operations, waits for all the answers and then goes on.  The locks are  *)
(* those of RowLocks, which LeaseLock and so BigtableLocks implement: here *)
(* a request is one step, and the clock is left out -- a temporal lock may *)
(* run out at any moment, and its cell is still there afterwards.          *)
(*                                                                         *)
(* A request that raises was applied or was not; in both cases the client  *)
(* only sees the exception.  A request that is refused because the root    *)
(* has a NewParent is one of those that are not applied.                   *)
(***************************************************************************)
EXTENDS Naturals

CONSTANTS
    Roots,        \* root ids
    Ops, NoOp,    \* operation ids, and a value that is none
    Methods,      \* the methods that callers use: a bound for TLC
    RootSets,     \* the sets of roots that callers ask for: a bound for TLC
    FutureMaps,   \* the future_root_ids_d that callers pass
    MaxTries      \* max_tries of lock_roots

ASSUME LockRootsConstants ==
    /\ NoOp \notin Ops
    /\ MaxTries \in Nat \ {0}
    /\ RootSets \subseteq SUBSET Roots
    /\ \A future \in FutureMaps :
          DOMAIN future \subseteq Roots /\ \A r \in DOMAIN future : future[r] \subseteq Roots

VARIABLES
    temporal,    \* root -> the newest cell of its Lock column
    indefinite,  \* root -> the operation in its IndefiniteLock column, or NoOp
    call,        \* op -> the call in progress
    held,        \* op -> roots with a temporal lock it was granted, not run out
    heldIndef,   \* op -> roots it was granted the indefinite lock of
    lapsed,      \* history: op -> roots whose lock ran out during the call
    stray,       \* history: op -> roots where it has a temporal lock that it
                 \* failed to remove or does not know of
    strayIndef   \* history: the same for indefinite locks

locks   == <<temporal, indefinite>>
history == <<lapsed, stray, strayIndef>>
vars    == <<locks, call, held, heldIndef, history>>

NoCell == [op |-> NoOp, live |-> FALSE]
Cell   == [op : Ops, live : BOOLEAN]
Idle   == [pc |-> "idle", roots |-> {}, todo |-> {}, ok |-> TRUE, tries |-> 0, future |-> <<>>]
PCs    == {"idle", "lock", "unlock", "lockIndef", "unlockIndef", "renew", "write"}
Call   == [pc : PCs,
           roots : SUBSET Roots,           \* the roots the call is about
           todo : SUBSET Roots,            \* those without an answer yet
           ok : BOOLEAN,                   \* all answers so far are good
           tries : 0..(MaxTries - 1),      \* i_try
           future : FutureMaps \cup {<<>>}] \* future_root_ids_d

Init ==
    /\ temporal   = [r \in Roots |-> NoCell]
    /\ indefinite = [r \in Roots |-> NoOp]
    /\ call       = [o \in Ops |-> Idle]
    /\ held       = [o \in Ops |-> {}]
    /\ heldIndef  = [o \in Ops |-> {}]
    /\ lapsed     = [o \in Ops |-> {}]
    /\ stray      = [o \in Ops |-> {}]
    /\ strayIndef = [o \in Ops |-> {}]

OwnTemporal(o)   == {r \in Roots : temporal[r] = [op |-> o, live |-> TRUE]}
OwnIndefinite(o) == {r \in Roots : indefinite[r] = o}

-----------------------------------------------------------------------------
(* The threads of a call.                                                  *)

At(o, pc) == call[o].pc = pc

\* Start one request for each root.
Submit(o, pc, roots, tries, future) ==
    call' = [call EXCEPT ![o] = [pc |-> pc, roots |-> roots, todo |-> roots, ok |-> TRUE,
                                 tries |-> tries, future |-> future]]

\* Definitions marked "Wrong:" are faults the checks must notice; nothing uses them.
\* Wrong: the last answer decides.
AnsweredLast(o, r, good) == call' = [call EXCEPT ![o].todo = @ \ {r}, ![o].ok = good]

\* One more answer; the call has succeeded if all of them are good.
Answered(o, r, good) ==
    call' = [call EXCEPT ![o].todo = @ \ {r}, ![o].ok = @ /\ good]

AllAnswered(o, pc) == At(o, pc) /\ call[o].todo = {}

Goto(o, pc) == call' = [call EXCEPT ![o].pc = pc, ![o].todo = call[o].roots, ![o].ok = TRUE]

Return(o) ==
    /\ call' = [call EXCEPT ![o] = Idle]
    /\ lapsed' = [lapsed EXCEPT ![o] = {}]

-----------------------------------------------------------------------------
(* lock_roots.                                                             *)

\* Each root is replaced by its future roots; np.unique makes it a set.
NewRootIds(roots, future) ==
    UNION {IF future[r] = {} THEN {r} ELSE future[r] : r \in roots}

\* One round; a root that is no key of future_root_ids_d is a KeyError.
Try(o, roots, tries, future) ==
    IF roots \subseteq DOMAIN future
    THEN Submit(o, "lock", NewRootIds(roots, future), tries, future)
    ELSE call' = [call EXCEPT ![o] = Idle]

lock_roots(o, roots, future) ==
    /\ "lock_roots" \in Methods
    /\ At(o, "idle")
    /\ roots # {}
    /\ roots \subseteq DOMAIN future
    /\ Try(o, roots, 0, future)
    /\ UNCHANGED <<locks, held, heldIndef, history>>

Locked(r) == temporal[r].live \/ indefinite[r] # NoOp

Granted(o, r) ==
    /\ ~Locked(r)
    /\ temporal' = [temporal EXCEPT ![r] = [op |-> o, live |-> TRUE]]

lock_root(o, r) ==
    /\ At(o, "lock") /\ r \in call[o].todo
    /\ \/ Granted(o, r) /\ Answered(o, r, TRUE) /\ held' = [held EXCEPT ![o] = @ \cup {r}]
       \/ Granted(o, r) /\ Answered(o, r, FALSE) /\ UNCHANGED held
       \/ Answered(o, r, FALSE) /\ UNCHANGED <<temporal, held>>
    /\ UNCHANGED <<indefinite, heldIndef, history>>

\* Wrong: only the roots that the call knows it locked are unlocked.
EndLockKnownOnly(o) ==
    /\ AllAnswered(o, "lock")
    /\ IF call[o].ok
       THEN Return(o) /\ UNCHANGED held
       ELSE /\ call' = [call EXCEPT ![o].pc = "unlock", ![o].ok = TRUE,
                                    ![o].todo = call[o].roots \cap held[o]]
            /\ held' = [held EXCEPT ![o] = @ \ call[o].roots]
            /\ UNCHANGED lapsed
    /\ UNCHANGED <<locks, heldIndef, stray, strayIndef>>

\* All the roots or none: every root is unlocked, also those whose answer
\* was an exception and those that this call did not lock.
EndLock(o) ==
    /\ AllAnswered(o, "lock")
    /\ IF call[o].ok
       THEN Return(o) /\ UNCHANGED held
       ELSE /\ Goto(o, "unlock")
            /\ held' = [held EXCEPT ![o] = @ \ call[o].roots]
            /\ UNCHANGED lapsed
    /\ UNCHANGED <<locks, heldIndef, stray, strayIndef>>

\* Wrong: removes the lock of whoever has it.
UnlockAnyValue(o, r) ==
    /\ temporal' = [temporal EXCEPT ![r] = NoCell]
    /\ stray' = [stray EXCEPT ![o] = @ \ {r}]
    /\ UNCHANGED <<indefinite, heldIndef, lapsed, strayIndef>>

\* The cell is removed, or an exception is raised without that.
Unlock(o, r) ==
    /\ \/ /\ temporal' = IF temporal[r] = [op |-> o, live |-> TRUE]
                         THEN [temporal EXCEPT ![r] = NoCell] ELSE temporal
          /\ stray' = [stray EXCEPT ![o] = @ \ {r}]
       \/ /\ stray' = [stray EXCEPT ![o] = @ \cup (OwnTemporal(o) \cap {r})]
          /\ UNCHANGED temporal
    /\ UNCHANGED <<indefinite, heldIndef, lapsed, strayIndef>>

\* An exception is logged and dropped.
unlock_root(o, r) ==
    /\ At(o, "unlock") /\ r \in call[o].todo
    /\ Answered(o, r, TRUE)
    /\ Unlock(o, r)
    /\ UNCHANGED held

\* The caller is done with a root that it locked.
Release(o, r) ==
    /\ At(o, "idle") /\ r \in held[o]
    /\ held' = [held EXCEPT ![o] = @ \ {r}]
    /\ Unlock(o, r)
    /\ UNCHANGED call

\* Wrong: one try too many; tries that are not counted.
NextTryOffByOne(o) ==
    /\ AllAnswered(o, "unlock")
    /\ IF call[o].tries < MaxTries
       THEN Try(o, call[o].roots, call[o].tries + 1, call[o].future)
       ELSE call' = [call EXCEPT ![o] = Idle]
    /\ lapsed' = [lapsed EXCEPT ![o] = {}]
    /\ UNCHANGED <<locks, held, heldIndef, stray, strayIndef>>

NextTryUncounted(o) ==
    /\ AllAnswered(o, "unlock")
    /\ Try(o, call[o].roots, call[o].tries, call[o].future)
    /\ lapsed' = [lapsed EXCEPT ![o] = {}]
    /\ UNCHANGED <<locks, held, heldIndef, stray, strayIndef>>

\* After waittime_s the next try starts from the roots of the last one.
NextTry(o) ==
    /\ AllAnswered(o, "unlock")
    /\ IF call[o].tries + 1 < MaxTries
       THEN Try(o, call[o].roots, call[o].tries + 1, call[o].future)
       ELSE call' = [call EXCEPT ![o] = Idle]
    /\ lapsed' = [lapsed EXCEPT ![o] = {}]
    /\ UNCHANGED <<locks, held, heldIndef, stray, strayIndef>>

-----------------------------------------------------------------------------
(* lock_roots_indefinitely.                                                *)

lock_roots_indefinitely(o, roots, future) ==
    /\ "lock_roots_indefinitely" \in Methods
    /\ At(o, "idle")
    /\ roots # {}
    /\ roots \subseteq DOMAIN future
    /\ Submit(o, "lockIndef", NewRootIds(roots, future), 0, <<>>)
    /\ UNCHANGED <<locks, held, heldIndef, history>>

GrantedIndefinitely(o, r) ==
    /\ indefinite[r] = NoOp
    /\ indefinite' = [indefinite EXCEPT ![r] = o]

lock_root_indefinitely(o, r) ==
    /\ At(o, "lockIndef") /\ r \in call[o].todo
    /\ \/ /\ GrantedIndefinitely(o, r) /\ Answered(o, r, TRUE)
          /\ heldIndef' = [heldIndef EXCEPT ![o] = @ \cup {r}]
       \/ GrantedIndefinitely(o, r) /\ Answered(o, r, FALSE) /\ UNCHANGED heldIndef
       \/ Answered(o, r, FALSE) /\ UNCHANGED <<indefinite, heldIndef>>
    /\ UNCHANGED <<temporal, held, history>>

\* Wrong: returns without unlocking anything.
EndLockIndefinitelyKeeping(o) ==
    /\ AllAnswered(o, "lockIndef")
    /\ Return(o)
    /\ heldIndef' = [heldIndef EXCEPT ![o] =
           IF call[o].ok THEN @ ELSE @ \ call[o].roots]
    /\ UNCHANGED <<locks, held, stray, strayIndef>>

EndLockIndefinitely(o) ==
    /\ AllAnswered(o, "lockIndef")
    /\ IF call[o].ok
       THEN Return(o) /\ UNCHANGED heldIndef
       ELSE /\ Goto(o, "unlockIndef")
            /\ heldIndef' = [heldIndef EXCEPT ![o] = @ \ call[o].roots]
            /\ UNCHANGED lapsed
    /\ UNCHANGED <<locks, held, stray, strayIndef>>

UnlockIndefinitely(o, r) ==
    /\ \/ /\ indefinite' = IF indefinite[r] = o
                           THEN [indefinite EXCEPT ![r] = NoOp] ELSE indefinite
          /\ strayIndef' = [strayIndef EXCEPT ![o] = @ \ {r}]
       \/ /\ strayIndef' = [strayIndef EXCEPT ![o] = @ \cup (OwnIndefinite(o) \cap {r})]
          /\ UNCHANGED indefinite
    /\ UNCHANGED <<temporal, held, lapsed, stray>>

unlock_indefinitely_locked_root(o, r) ==
    /\ At(o, "unlockIndef") /\ r \in call[o].todo
    /\ Answered(o, r, TRUE)
    /\ UnlockIndefinitely(o, r)
    /\ UNCHANGED heldIndef

ReleaseIndefinite(o, r) ==
    /\ At(o, "idle") /\ r \in heldIndef[o]
    /\ heldIndef' = [heldIndef EXCEPT ![o] = @ \ {r}]
    /\ UnlockIndefinitely(o, r)
    /\ UNCHANGED call

EndUnlockIndefinitely(o) ==
    /\ AllAnswered(o, "unlockIndef")
    /\ Return(o)
    /\ UNCHANGED <<locks, held, heldIndef, stray, strayIndef>>

-----------------------------------------------------------------------------
(* write with root_ids: renew_locks, then _write_rows.                     *)

write(o, roots) ==
    /\ "write" \in Methods
    /\ At(o, "idle")
    /\ roots # {}
    /\ Submit(o, "renew", roots, 0, <<>>)
    /\ UNCHANGED <<locks, held, heldIndef, history>>

\* The row has other cells than locks, and the renewal comes before another
\* operation took the root over (see BigtableLocks).
Renewed(o, r) ==
    /\ temporal[r].op = o
    /\ temporal' = [temporal EXCEPT ![r] = [op |-> o, live |-> TRUE]]

renew_lock(o, r) ==
    /\ At(o, "renew") /\ r \in call[o].todo
    /\ \/ /\ Renewed(o, r) /\ Answered(o, r, TRUE)
          /\ held'  = [held EXCEPT ![o] = @ \cup {r}]
          /\ stray' = [stray EXCEPT ![o] = @ \ {r}]
       \/ /\ Renewed(o, r) /\ Answered(o, r, FALSE)
          /\ stray' = [stray EXCEPT ![o] = @ \cup {r}]
          /\ UNCHANGED held
       \/ Answered(o, r, FALSE) /\ UNCHANGED <<temporal, held, stray>>
    /\ UNCHANGED <<indefinite, heldIndef, lapsed, strayIndef>>

\* renew_locks returns False at the first bad answer, but leaving the pool
\* waits for the others.  write raises LockingError then.
EndRenew(o) ==
    /\ AllAnswered(o, "renew")
    /\ IF call[o].ok
       THEN Goto(o, "write") /\ UNCHANGED lapsed
       ELSE Return(o)
    /\ UNCHANGED <<locks, held, heldIndef, stray, strayIndef>>

write_rows(o) ==
    /\ At(o, "write")
    /\ Return(o)
    /\ UNCHANGED <<locks, held, heldIndef, stray, strayIndef>>

-----------------------------------------------------------------------------
(* The rest of the world.                                                  *)

\* A temporal lock runs out; its operation counts on it no longer.
Expire(r) ==
    /\ temporal[r].live
    /\ temporal' = [temporal EXCEPT ![r].live = FALSE]
    /\ held'   = [o \in Ops |-> held[o] \ {r}]
    /\ lapsed' = [o \in Ops |-> IF r \in held[o] \cap call[o].roots
                                THEN lapsed[o] \cup {r} ELSE lapsed[o]]
    /\ stray'  = [o \in Ops |-> stray[o] \ {r}]
    /\ UNCHANGED <<indefinite, call, heldIndef, strayIndef>>

\* The worker dies; its cells stay.
Crash(o) ==
    /\ call'       = [call EXCEPT ![o] = Idle]
    /\ held'       = [held EXCEPT ![o] = {}]
    /\ heldIndef'  = [heldIndef EXCEPT ![o] = {}]
    /\ lapsed'     = [lapsed EXCEPT ![o] = {}]
    /\ stray'      = [stray EXCEPT ![o] = OwnTemporal(o)]
    /\ strayIndef' = [strayIndef EXCEPT ![o] = OwnIndefinite(o)]
    /\ UNCHANGED locks

Start(o) ==
    \/ \E future \in FutureMaps : \E roots \in RootSets :
          lock_roots(o, roots, future) \/ lock_roots_indefinitely(o, roots, future)
    \/ \E roots \in RootSets : write(o, roots)
    \/ \E r \in Roots : Release(o, r) \/ ReleaseIndefinite(o, r)

Progress(o) ==
    \/ \E r \in Roots :
          \/ lock_root(o, r) \/ unlock_root(o, r) \/ renew_lock(o, r)
          \/ lock_root_indefinitely(o, r) \/ unlock_indefinitely_locked_root(o, r)
    \/ EndLock(o) \/ NextTry(o) \/ EndRenew(o) \/ write_rows(o)
    \/ EndLockIndefinitely(o) \/ EndUnlockIndefinitely(o)

Next ==
    \/ \E o \in Ops : Start(o) \/ Progress(o) \/ Crash(o)
    \/ \E r \in Roots : Expire(r)

Spec == Init /\ [][Next]_vars

\* Every request is answered or raises (operation_timeout), and a worker that
\* has not died takes its next step.
FairSpec == Spec /\ \A o \in Ops : WF_vars(Progress(o))

-----------------------------------------------------------------------------
(* What the calls promise.                                                 *)

\* Every variable has its type.
TypeOK ==
    /\ temporal \in [Roots -> Cell \cup {NoCell}]
    /\ indefinite \in [Roots -> Ops \cup {NoOp}]
    /\ call \in [Ops -> Call]
    /\ held \in [Ops -> SUBSET Roots]
    /\ heldIndef \in [Ops -> SUBSET Roots]
    /\ lapsed \in [Ops -> SUBSET Roots]
    /\ stray \in [Ops -> SUBSET Roots]
    /\ strayIndef \in [Ops -> SUBSET Roots]

\* What an operation was granted is on the row, and nobody else was granted it:
\* neither a failed try of another operation nor its own unlocks took it away.
HeldIsOwned ==
    \A o \in Ops :
        /\ \A r \in held[o] : temporal[r] = [op |-> o, live |-> TRUE]
        /\ \A r \in heldIndef[o] : indefinite[r] = o

\* lock_roots and lock_roots_indefinitely return True, and renew_locks lets
\* write go on, only with every one of the roots, save those whose lock ran
\* out during the call.
AllOrNothing ==
    \A o \in Ops :
        /\ AllAnswered(o, "lock") /\ call[o].ok => call[o].roots \subseteq held[o] \cup lapsed[o]
        /\ AllAnswered(o, "lockIndef") /\ call[o].ok => call[o].roots \subseteq heldIndef[o]
        /\ At(o, "write") => call[o].roots \subseteq held[o] \cup lapsed[o]

\* Between calls an operation has no lock cell that it does not know of, save
\* where an unlock or a renewal raised or its worker died: a failed call undoes
\* also the locks whose answers were lost.
NothingLeftBehind ==
    \A o \in Ops : At(o, "idle") =>
        /\ OwnTemporal(o) \subseteq held[o] \cup stray[o]
        /\ OwnIndefinite(o) \subseteq heldIndef[o] \cup strayIndef[o]

\* Whatever the threads of the calls do, what they leave on a row is a lock of
\* RowLocks: each request is one step of it for its own operation, and nothing
\* between the requests touches a row.
RowLock == INSTANCE RowLocks WITH
    Rows <- Roots, RootRows <- Roots,
    owner      <- [r \in Roots |-> temporal[r].op],
    live       <- [r \in Roots |-> temporal[r].live],
    indefOwner <- indefinite
ImplementsRowLocks == RowLock!Spec

\* Every call of a living worker comes to an end, whatever the other
\* operations lock: nobody waits for a lock, and the tries are counted.
CallsReturn == \A o \in Ops : ~At(o, "idle") ~> At(o, "idle")
=============================================================================
