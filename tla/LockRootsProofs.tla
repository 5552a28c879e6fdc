-------------------------- MODULE LockRootsProofs --------------------------
(***************************************************************************)
(* Proofs about LockRoots, for every set of roots and operations, every    *)
(* future_root_ids_d and every number of tries.                            *)
(***************************************************************************)
EXTENDS LockRoots, TLAPS

-----------------------------------------------------------------------------
(* The inductive invariant.                                                *)

\* What an operation was granted is on the row.
HeldInv(o) == held[o] \subseteq OwnTemporal(o) /\ heldIndef[o] \subseteq OwnIndefinite(o)

\* What a call in progress knows: its requests are for its own roots, a good
\* call has every root that was answered, a call that unlocks holds none.
CallInv(o) ==
    /\ call[o].todo \subseteq call[o].roots
    /\ At(o, "lock") /\ call[o].ok =>
           call[o].roots \ call[o].todo \subseteq held[o] \cup lapsed[o]
    /\ At(o, "renew") /\ call[o].ok =>
           call[o].roots \ call[o].todo \subseteq held[o] \cup lapsed[o]
    /\ At(o, "lockIndef") /\ call[o].ok =>
           call[o].roots \ call[o].todo \subseteq heldIndef[o]
    /\ At(o, "write") => call[o].roots \subseteq held[o] \cup lapsed[o]
    /\ At(o, "unlock") => held[o] \cap call[o].roots = {}
    /\ At(o, "unlockIndef") => heldIndef[o] \cap call[o].roots = {}

\* The roots whose cells a call will still remove, or at least try to.
ToUnlock(o) ==
    IF At(o, "lock") /\ ~call[o].ok THEN call[o].roots
    ELSE IF At(o, "unlock") THEN call[o].todo ELSE {}

ToUnlockIndef(o) ==
    IF At(o, "lockIndef") /\ ~call[o].ok THEN call[o].roots
    ELSE IF At(o, "unlockIndef") THEN call[o].todo ELSE {}

\* An operation's cell is known to it, written off, or about to be removed.
LeftInv(o) ==
    /\ OwnTemporal(o) \subseteq held[o] \cup stray[o] \cup ToUnlock(o)
    /\ OwnIndefinite(o) \subseteq heldIndef[o] \cup strayIndef[o] \cup ToUnlockIndef(o)

OpInv(o) == HeldInv(o) /\ CallInv(o) /\ LeftInv(o)

LockRootsInv == TypeOK /\ \A o \in Ops : OpInv(o)

-----------------------------------------------------------------------------
(* Types.                                                                  *)

\* Replacing roots by future roots leads to roots.
LEMMA NewRootIdsAreRoots ==
    ASSUME NEW future \in FutureMaps \cup {<<>>}, NEW roots \in SUBSET Roots,
           roots \subseteq DOMAIN future
    PROVE  NewRootIds(roots, future) \in SUBSET Roots
<1>1. CASE future \in FutureMaps
  BY <1>1, LockRootsConstants DEF NewRootIds
<1>2. CASE future = <<>>
  <2>1. roots = {}
    BY <1>2
  <2> QED BY <2>1 DEF NewRootIds
<1> QED BY <1>1, <1>2

\* A request that is submitted is a call.
LEMMA SubmitType ==
    ASSUME call \in [Ops -> Call], NEW o \in Ops, NEW pc \in PCs,
           NEW roots \in SUBSET Roots, NEW tries \in 0..(MaxTries - 1),
           NEW future \in FutureMaps \cup {<<>>}, Submit(o, pc, roots, tries, future)
    PROVE  call' \in [Ops -> Call]
BY DEF Submit, Call

\* So are the idle call and the ones that go on.
LEMMA IdleType == Idle \in Call
BY LockRootsConstants DEF Idle, Call, PCs

LEMMA IdleStepType ==
    ASSUME call \in [Ops -> Call], NEW o \in Ops, call' = [call EXCEPT ![o] = Idle]
    PROVE  call' \in [Ops -> Call]
BY IdleType

LEMMA GotoType ==
    ASSUME call \in [Ops -> Call], NEW o \in Ops, NEW pc \in PCs, Goto(o, pc)
    PROVE  call' \in [Ops -> Call]
<1>1. [call[o] EXCEPT !.pc = pc, !.todo = call[o].roots, !.ok = TRUE] \in Call
  BY DEF Call
<1>2. call' = [call EXCEPT ![o] =
                 [call[o] EXCEPT !.pc = pc, !.todo = call[o].roots, !.ok = TRUE]]
  BY DEF Goto
<1> QED BY <1>1, <1>2

LEMMA AnsweredType ==
    ASSUME call \in [Ops -> Call], NEW o \in Ops, NEW r \in Roots, NEW good \in BOOLEAN,
           Answered(o, r, good)
    PROVE  call' \in [Ops -> Call]
<1>1. [call[o] EXCEPT !.todo = @ \ {r}, !.ok = @ /\ good] \in Call
  BY DEF Call
<1>2. call' = [call EXCEPT ![o] = [call[o] EXCEPT !.todo = @ \ {r}, !.ok = @ /\ good]]
  BY DEF Answered
<1> QED BY <1>1, <1>2

LEMMA TryType ==
    ASSUME call \in [Ops -> Call], NEW o \in Ops, NEW roots \in SUBSET Roots,
           NEW tries \in 0..(MaxTries - 1), NEW future \in FutureMaps \cup {<<>>},
           Try(o, roots, tries, future)
    PROVE  call' \in [Ops -> Call]
<1>1. CASE roots \subseteq DOMAIN future
  BY <1>1, NewRootIdsAreRoots, SubmitType DEF Try, PCs
<1>2. CASE ~(roots \subseteq DOMAIN future)
  BY <1>2, IdleStepType DEF Try
<1> QED BY <1>1, <1>2

\* Every step keeps the types.
LEMMA TypeStep ==
    ASSUME TypeOK, [Next]_vars
    PROVE  TypeOK'
<1> USE DEF OwnTemporal, OwnIndefinite, locks, history
<1>0. /\ call \in [Ops -> Call]
      /\ "lock" \in PCs /\ "unlock" \in PCs /\ "lockIndef" \in PCs /\ "unlockIndef" \in PCs
      /\ "renew" \in PCs /\ "write" \in PCs
      /\ 0 \in 0..(MaxTries - 1)
  BY LockRootsConstants DEF TypeOK, PCs
<1>1. ASSUME NEW o \in Ops, NEW future \in FutureMaps, NEW roots \in SUBSET Roots, lock_roots(o, roots, future)
      PROVE  TypeOK'
  <2>1. call' \in [Ops -> Call]
    BY <1>0, <1>1, TryType DEF lock_roots
  <2> QED BY <1>1, <2>1 DEF TypeOK, lock_roots
<1>2. ASSUME NEW o \in Ops, NEW future \in FutureMaps, NEW roots \in SUBSET Roots,
             lock_roots_indefinitely(o, roots, future)
      PROVE  TypeOK'
  <2>1. call' \in [Ops -> Call]
    BY <1>0, <1>2, NewRootIdsAreRoots, SubmitType DEF lock_roots_indefinitely
  <2> QED BY <1>2, <2>1 DEF TypeOK, lock_roots_indefinitely
<1>3. ASSUME NEW o \in Ops, NEW roots \in SUBSET Roots, write(o, roots)
      PROVE  TypeOK'
  <2>1. call' \in [Ops -> Call]
    BY <1>0, <1>3, SubmitType DEF write
  <2> QED BY <1>3, <2>1 DEF TypeOK, write
<1>4. ASSUME NEW o \in Ops, NEW r \in Roots, Release(o, r)
      PROVE  TypeOK'
  BY <1>4 DEF TypeOK, Release, Unlock, Cell, NoCell
<1>5. ASSUME NEW o \in Ops, NEW r \in Roots, ReleaseIndefinite(o, r)
      PROVE  TypeOK'
  BY <1>5 DEF TypeOK, ReleaseIndefinite, UnlockIndefinitely
<1>6. ASSUME NEW o \in Ops, NEW r \in Roots, lock_root(o, r)
      PROVE  TypeOK'
  <2>1. call' \in [Ops -> Call]
    BY <1>0, <1>6, AnsweredType DEF lock_root
  <2>2. temporal' \in [Roots -> Cell \cup {NoCell}]
    <3>1. [op |-> o, live |-> TRUE] \in Cell
      BY DEF Cell
    <3> QED BY <1>6, <3>1 DEF TypeOK, lock_root, Granted
  <2>3. held' \in [Ops -> SUBSET Roots]
    <3>1. held' = held \/ held' = [held EXCEPT ![o] = @ \cup {r}]
      BY <1>6, Zenon DEF lock_root
    <3> QED BY <1>6, <3>1 DEF TypeOK
  <2> QED BY <1>6, <2>1, <2>2, <2>3 DEF TypeOK, lock_root
<1>7. ASSUME NEW o \in Ops, NEW r \in Roots, unlock_root(o, r)
      PROVE  TypeOK'
  <2>1. call' \in [Ops -> Call]
    BY <1>0, <1>7, AnsweredType DEF unlock_root, Unlock, Cell, NoCell
  <2>2. temporal' \in [Roots -> Cell \cup {NoCell}] /\ stray' \in [Ops -> SUBSET Roots]
    BY <1>7 DEF TypeOK, unlock_root, Unlock
  <2> QED BY <1>7, <2>1, <2>2 DEF TypeOK, unlock_root, Unlock
<1>8. ASSUME NEW o \in Ops, NEW r \in Roots, renew_lock(o, r)
      PROVE  TypeOK'
  <2>1. call' \in [Ops -> Call]
    BY <1>0, <1>8, AnsweredType DEF renew_lock
  <2>2. temporal' \in [Roots -> Cell \cup {NoCell}]
    <3>1. CASE UNCHANGED temporal
      BY <3>1 DEF TypeOK
    <3>2. CASE Renewed(o, r)
      <4>1. [op |-> o, live |-> TRUE] \in Cell
        BY DEF Cell
      <4> QED BY <3>2, <4>1 DEF TypeOK, Renewed
    <3> QED BY <1>8, <3>1, <3>2 DEF renew_lock
  <2>3. held' \in [Ops -> SUBSET Roots] /\ stray' \in [Ops -> SUBSET Roots]
    <3>1. held' = held \/ held' = [held EXCEPT ![o] = @ \cup {r}]
      BY <1>8, Zenon DEF renew_lock
    <3>2. \/ stray' = stray \/ stray' = [stray EXCEPT ![o] = @ \ {r}]
          \/ stray' = [stray EXCEPT ![o] = @ \cup {r}]
      BY <1>8, Zenon DEF renew_lock
    <3> QED BY <1>8, <3>1, <3>2 DEF TypeOK
  <2> QED BY <1>8, <2>1, <2>2, <2>3 DEF TypeOK, renew_lock
<1>9. ASSUME NEW o \in Ops, NEW r \in Roots, lock_root_indefinitely(o, r)
      PROVE  TypeOK'
  <2>1. call' \in [Ops -> Call]
    BY <1>0, <1>9, AnsweredType DEF lock_root_indefinitely
  <2>2. indefinite' \in [Roots -> Ops \cup {NoOp}]
    BY <1>9 DEF TypeOK, lock_root_indefinitely, GrantedIndefinitely
  <2>3. heldIndef' \in [Ops -> SUBSET Roots]
    <3>1. heldIndef' = heldIndef \/ heldIndef' = [heldIndef EXCEPT ![o] = @ \cup {r}]
      BY <1>9, Zenon DEF lock_root_indefinitely
    <3> QED BY <1>9, <3>1 DEF TypeOK
  <2> QED BY <1>9, <2>1, <2>2, <2>3 DEF TypeOK, lock_root_indefinitely
<1>10. ASSUME NEW o \in Ops, NEW r \in Roots, unlock_indefinitely_locked_root(o, r)
      PROVE  TypeOK'
  <2>1. call' \in [Ops -> Call]
    BY <1>0, <1>10, AnsweredType DEF unlock_indefinitely_locked_root, UnlockIndefinitely
  <2> QED BY <1>10, <2>1 DEF TypeOK, unlock_indefinitely_locked_root, UnlockIndefinitely
<1>11. ASSUME NEW o \in Ops, EndLock(o)
      PROVE  TypeOK'
  <2>1. call' \in [Ops -> Call]
    BY <1>0, <1>11, IdleStepType, GotoType DEF EndLock, Return
  <2> QED BY <1>11, <2>1 DEF TypeOK, EndLock, Return
<1>12. ASSUME NEW o \in Ops, NextTry(o)
      PROVE  TypeOK'
  <2>1. call[o] \in Call
    BY <1>0
  <2>2. CASE call[o].tries + 1 < MaxTries
    <3>1. /\ call[o].tries + 1 \in 0..(MaxTries - 1)
          /\ call[o].roots \in SUBSET Roots
          /\ call[o].future \in FutureMaps \cup {<<>>}
      BY <2>1, <2>2, LockRootsConstants DEF Call
    <3>2. Try(o, call[o].roots, call[o].tries + 1, call[o].future)
      BY <1>12, <2>2 DEF NextTry
    <3>3. call' \in [Ops -> Call]
      BY <1>0, <3>1, <3>2, TryType
    <3> QED BY <1>12, <3>3 DEF TypeOK, NextTry
  <2>3. CASE ~(call[o].tries + 1 < MaxTries)
    <3>1. call' \in [Ops -> Call]
      BY <1>0, <1>12, <2>3, IdleStepType DEF NextTry
    <3> QED BY <1>12, <3>1 DEF TypeOK, NextTry
  <2> QED BY <2>2, <2>3
<1>13. ASSUME NEW o \in Ops, EndRenew(o)
      PROVE  TypeOK'
  <2>1. call' \in [Ops -> Call]
    BY <1>0, <1>13, IdleStepType, GotoType DEF EndRenew, Return
  <2> QED BY <1>13, <2>1 DEF TypeOK, EndRenew, Return
<1>14. ASSUME NEW o \in Ops, write_rows(o)
      PROVE  TypeOK'
  <2>1. call' \in [Ops -> Call]
    BY <1>0, <1>14, IdleStepType DEF write_rows, Return
  <2> QED BY <1>14, <2>1 DEF TypeOK, write_rows, Return
<1>15. ASSUME NEW o \in Ops, EndLockIndefinitely(o)
      PROVE  TypeOK'
  <2>1. call' \in [Ops -> Call]
    BY <1>0, <1>15, IdleStepType, GotoType DEF EndLockIndefinitely, Return
  <2> QED BY <1>15, <2>1 DEF TypeOK, EndLockIndefinitely, Return
<1>16. ASSUME NEW o \in Ops, EndUnlockIndefinitely(o)
      PROVE  TypeOK'
  <2>1. call' \in [Ops -> Call]
    BY <1>0, <1>16, IdleStepType DEF EndUnlockIndefinitely, Return
  <2> QED BY <1>16, <2>1 DEF TypeOK, EndUnlockIndefinitely, Return
<1>17. ASSUME NEW o \in Ops, Crash(o)
      PROVE  TypeOK'
  <2>1. call' \in [Ops -> Call]
    BY <1>0, <1>17, IdleStepType DEF Crash
  <2> QED BY <1>17, <2>1 DEF TypeOK, Crash
<1>18. ASSUME NEW r \in Roots, Expire(r)
      PROVE  TypeOK'
  <2>1. temporal[r] \in Cell
    BY <1>18, LockRootsConstants DEF TypeOK, Expire, NoCell
  <2>2. [temporal[r] EXCEPT !.live = FALSE] \in Cell
    BY <2>1 DEF Cell
  <2>3. temporal' \in [Roots -> Cell \cup {NoCell}]
    BY <1>18, <2>2 DEF TypeOK, Expire
  <2>4. lapsed' \in [Ops -> SUBSET Roots]
    BY <1>18 DEF TypeOK, Expire
  <2> QED BY <1>18, <2>3, <2>4 DEF TypeOK, Expire
<1>19. CASE UNCHANGED vars
  BY <1>19 DEF TypeOK, vars
<1> QED
  BY LockRootsConstants, <1>1, <1>2, <1>3, <1>4, <1>5, <1>6, <1>7, <1>8, <1>9, <1>10, <1>11, <1>12, <1>13, <1>14, <1>15, <1>16, <1>17, <1>18, <1>19
  DEF Next, Start, Progress

\* TypeOK holds for every number of roots, operations and tries.
THEOREM TypeCorrect == Spec => []TypeOK
<1>1. Init => TypeOK
  BY IdleType DEF Init, TypeOK, Call
<1>2. TypeOK /\ [Next]_vars => TypeOK'
  BY TypeStep
<1> QED BY <1>1, <1>2, PTL DEF Spec
-----------------------------------------------------------------------------
(* What a step does to the call of its operation.                          *)

LEMMA AnsweredGood ==
    ASSUME call \in [Ops -> Call], NEW o \in Ops, NEW r \in Roots, Answered(o, r, TRUE)
    PROVE  /\ call'[o].pc = call[o].pc /\ call'[o].roots = call[o].roots
           /\ call'[o].todo = call[o].todo \ {r} /\ call'[o].ok = call[o].ok
<1>1. call[o] \in Call
  OBVIOUS
<1> QED BY <1>1 DEF Answered, Call

LEMMA AnsweredBad ==
    ASSUME call \in [Ops -> Call], NEW o \in Ops, NEW r \in Roots, Answered(o, r, FALSE)
    PROVE  /\ call'[o].pc = call[o].pc /\ call'[o].roots = call[o].roots
           /\ call'[o].todo = call[o].todo \ {r} /\ call'[o].ok = FALSE
<1>1. call[o] \in Call
  OBVIOUS
<1> QED BY <1>1 DEF Answered, Call

LEMMA GotoForm ==
    ASSUME call \in [Ops -> Call], NEW o \in Ops, NEW pc, Goto(o, pc)
    PROVE  /\ call'[o].pc = pc /\ call'[o].roots = call[o].roots
           /\ call'[o].todo = call[o].roots /\ call'[o].ok = TRUE
<1>1. call[o] \in Call
  OBVIOUS
<1> QED BY <1>1 DEF Goto, Call

LEMMA IdleForm ==
    ASSUME call \in [Ops -> Call], NEW o \in Ops, call' = [call EXCEPT ![o] = Idle]
    PROVE  /\ call'[o].pc = "idle" /\ call'[o].roots = {} /\ call'[o].todo = {}
           /\ call'[o].ok = TRUE
BY DEF Idle

LEMMA SubmitForm ==
    ASSUME call \in [Ops -> Call], NEW o \in Ops, NEW pc, NEW roots, NEW tries, NEW future,
           Submit(o, pc, roots, tries, future)
    PROVE  /\ call'[o].pc = pc /\ call'[o].roots = roots
           /\ call'[o].todo = roots /\ call'[o].ok = TRUE
BY DEF Submit

\* A try starts with all its roots to lock, or there is no call.
LEMMA TryForm ==
    ASSUME call \in [Ops -> Call], NEW o \in Ops, NEW roots, NEW tries, NEW future,
           Try(o, roots, tries, future)
    PROVE  /\ call'[o].todo = call'[o].roots
           /\ call'[o].pc \in {"idle", "lock"}
           /\ call'[o].ok = TRUE
<1>1. CASE roots \subseteq DOMAIN future
  BY <1>1, SubmitForm DEF Try
<1>2. CASE ~(roots \subseteq DOMAIN future)
  BY <1>2, IdleForm DEF Try
<1> QED BY <1>1, <1>2

-----------------------------------------------------------------------------
(* The other operations are left alone.                                    *)

LEMMA UnlockForm ==
    ASSUME TypeOK, NEW o \in Ops, NEW r \in Roots, Unlock(o, r)
    PROVE  /\ \A p \in Ops \ {o} : OwnTemporal(p)' = OwnTemporal(p) /\ stray'[p] = stray[p]
           /\ \/ OwnTemporal(o)' = OwnTemporal(o) \ {r} /\ stray'[o] = stray[o] \ {r}
              \/ /\ OwnTemporal(o)' = OwnTemporal(o)
                 /\ stray'[o] = stray[o] \cup (OwnTemporal(o) \cap {r})
           /\ UNCHANGED <<indefinite, heldIndef, lapsed, strayIndef>>
<1>1. CASE /\ temporal' = IF temporal[r] = [op |-> o, live |-> TRUE]
                          THEN [temporal EXCEPT ![r] = NoCell] ELSE temporal
           /\ stray' = [stray EXCEPT ![o] = @ \ {r}]
  <2>1. CASE temporal[r] = [op |-> o, live |-> TRUE]
    BY <1>1, <2>1, LockRootsConstants DEF TypeOK, OwnTemporal, Unlock, NoCell
  <2>2. CASE temporal[r] # [op |-> o, live |-> TRUE]
    BY <1>1, <2>2 DEF TypeOK, OwnTemporal, Unlock
  <2> QED BY <2>1, <2>2
<1>2. CASE /\ stray' = [stray EXCEPT ![o] = @ \cup (OwnTemporal(o) \cap {r})]
           /\ UNCHANGED temporal
  BY <1>2 DEF TypeOK, OwnTemporal, Unlock
<1> QED BY <1>1, <1>2 DEF Unlock

LEMMA UnlockIndefForm ==
    ASSUME TypeOK, NEW o \in Ops, NEW r \in Roots, UnlockIndefinitely(o, r)
    PROVE  /\ \A p \in Ops \ {o} :
                 OwnIndefinite(p)' = OwnIndefinite(p) /\ strayIndef'[p] = strayIndef[p]
           /\ \/ OwnIndefinite(o)' = OwnIndefinite(o) \ {r} /\ strayIndef'[o] = strayIndef[o] \ {r}
              \/ /\ OwnIndefinite(o)' = OwnIndefinite(o)
                 /\ strayIndef'[o] = strayIndef[o] \cup (OwnIndefinite(o) \cap {r})
           /\ UNCHANGED <<temporal, held, lapsed, stray>>
<1>1. CASE /\ indefinite' = IF indefinite[r] = o
                            THEN [indefinite EXCEPT ![r] = NoOp] ELSE indefinite
           /\ strayIndef' = [strayIndef EXCEPT ![o] = @ \ {r}]
  <2>1. CASE indefinite[r] = o
    BY <1>1, <2>1, LockRootsConstants DEF TypeOK, OwnIndefinite, UnlockIndefinitely
  <2>2. CASE indefinite[r] # o
    BY <1>1, <2>2 DEF TypeOK, OwnIndefinite, UnlockIndefinitely
  <2> QED BY <2>1, <2>2
<1>2. CASE /\ strayIndef' = [strayIndef EXCEPT ![o] = @ \cup (OwnIndefinite(o) \cap {r})]
           /\ UNCHANGED indefinite
  BY <1>2 DEF TypeOK, OwnIndefinite, UnlockIndefinitely
<1> QED BY <1>1, <1>2 DEF UnlockIndefinitely

\* A granted or renewed lock is added to the operation's own cells.
LEMMA GrantedForm ==
    ASSUME TypeOK, NEW o \in Ops, NEW r \in Roots, Granted(o, r) \/ Renewed(o, r)
    PROVE  /\ OwnTemporal(o)' = OwnTemporal(o) \cup {r}
           /\ \A p \in Ops \ {o} : OwnTemporal(p)' = OwnTemporal(p)
<1>1. temporal' = [temporal EXCEPT ![r] = [op |-> o, live |-> TRUE]]
  BY DEF Granted, Renewed
<1>2. \A p \in Ops \ {o} : temporal[r] # [op |-> p, live |-> TRUE]
  BY LockRootsConstants DEF Granted, Locked, Renewed
<1> QED BY <1>1, <1>2 DEF TypeOK, OwnTemporal

LEMMA GrantedIndefForm ==
    ASSUME TypeOK, NEW o \in Ops, NEW r \in Roots, GrantedIndefinitely(o, r)
    PROVE  /\ OwnIndefinite(o)' = OwnIndefinite(o) \cup {r}
           /\ \A p \in Ops \ {o} : OwnIndefinite(p)' = OwnIndefinite(p)
BY LockRootsConstants DEF TypeOK, GrantedIndefinitely, OwnIndefinite

\* The step of an operation changes nothing of another one.
Same(p) ==
    /\ call'[p] = call[p] /\ held'[p] = held[p] /\ heldIndef'[p] = heldIndef[p]
    /\ lapsed'[p] = lapsed[p] /\ stray'[p] = stray[p] /\ strayIndef'[p] = strayIndef[p]
    /\ OwnTemporal(p)' = OwnTemporal(p) /\ OwnIndefinite(p)' = OwnIndefinite(p)

LEMMA OthersStep ==
    ASSUME TypeOK, NEW o \in Ops, NEW p \in Ops, p # o,
           Start(o) \/ Progress(o) \/ Crash(o)
    PROVE  Same(p)
<1> USE DEF locks, history
<1>0. /\ call \in [Ops -> Call] /\ held \in [Ops -> SUBSET Roots]
      /\ heldIndef \in [Ops -> SUBSET Roots] /\ lapsed \in [Ops -> SUBSET Roots]
      /\ stray \in [Ops -> SUBSET Roots] /\ strayIndef \in [Ops -> SUBSET Roots]
  BY DEF TypeOK
<1>1. ASSUME UNCHANGED locks
      PROVE  OwnTemporal(p)' = OwnTemporal(p) /\ OwnIndefinite(p)' = OwnIndefinite(p)
  BY <1>1 DEF OwnTemporal, OwnIndefinite
<1>2. ASSUME NEW future \in FutureMaps, NEW roots \in SUBSET Roots, lock_roots(o, roots, future)
      PROVE  Same(p)
  BY <1>0, <1>2, <1>1 DEF Same, lock_roots, Try, Submit
<1>3. ASSUME NEW future \in FutureMaps, NEW roots \in SUBSET Roots,
             lock_roots_indefinitely(o, roots, future)
      PROVE  Same(p)
  BY <1>0, <1>3, <1>1 DEF Same, lock_roots_indefinitely, Submit
<1>4. ASSUME NEW roots \in SUBSET Roots, write(o, roots)
      PROVE  Same(p)
  BY <1>0, <1>4, <1>1 DEF Same, write, Submit
<1>5. ASSUME NEW r \in Roots, Release(o, r)
      PROVE  Same(p)
  BY <1>0, <1>5, UnlockForm DEF Same, Release, OwnIndefinite
<1>6. ASSUME NEW r \in Roots, ReleaseIndefinite(o, r)
      PROVE  Same(p)
  BY <1>0, <1>6, UnlockIndefForm DEF Same, ReleaseIndefinite, OwnTemporal
<1>7. ASSUME NEW r \in Roots, lock_root(o, r)
      PROVE  Same(p)
  <2>1. OwnTemporal(p)' = OwnTemporal(p)
    <3>1. CASE Granted(o, r)
      BY <3>1, GrantedForm
    <3>2. CASE UNCHANGED temporal
      BY <3>2 DEF OwnTemporal
    <3> QED BY <1>7, <3>1, <3>2, Zenon DEF lock_root
  <2> QED BY <1>0, <1>7, <2>1 DEF Same, lock_root, Answered, OwnIndefinite
<1>8. ASSUME NEW r \in Roots, unlock_root(o, r)
      PROVE  Same(p)
  BY <1>0, <1>8, UnlockForm DEF Same, unlock_root, Answered, OwnIndefinite
<1>9. ASSUME NEW r \in Roots, renew_lock(o, r)
      PROVE  Same(p)
  <2>1. OwnTemporal(p)' = OwnTemporal(p)
    <3>1. CASE Renewed(o, r)
      BY <3>1, GrantedForm
    <3>2. CASE UNCHANGED temporal
      BY <3>2 DEF OwnTemporal
    <3> QED BY <1>9, <3>1, <3>2, Zenon DEF renew_lock
  <2> QED BY <1>0, <1>9, <2>1 DEF Same, renew_lock, Answered, OwnIndefinite
<1>10. ASSUME NEW r \in Roots, lock_root_indefinitely(o, r)
      PROVE  Same(p)
  <2>1. OwnIndefinite(p)' = OwnIndefinite(p)
    <3>1. CASE GrantedIndefinitely(o, r)
      BY <3>1, GrantedIndefForm
    <3>2. CASE UNCHANGED indefinite
      BY <3>2 DEF OwnIndefinite
    <3> QED BY <1>10, <3>1, <3>2, Zenon DEF lock_root_indefinitely
  <2> QED BY <1>0, <1>10, <2>1 DEF Same, lock_root_indefinitely, Answered, OwnTemporal
<1>11. ASSUME NEW r \in Roots, unlock_indefinitely_locked_root(o, r)
      PROVE  Same(p)
  BY <1>0, <1>11, UnlockIndefForm DEF Same, unlock_indefinitely_locked_root, Answered, OwnTemporal
<1>12. ASSUME EndLock(o)
      PROVE  Same(p)
  BY <1>0, <1>12, <1>1 DEF Same, EndLock, Return, Goto
<1>13. ASSUME NextTry(o)
      PROVE  Same(p)
  BY <1>0, <1>13, <1>1 DEF Same, NextTry, Try, Submit
<1>14. ASSUME EndRenew(o)
      PROVE  Same(p)
  BY <1>0, <1>14, <1>1 DEF Same, EndRenew, Return, Goto
<1>15. ASSUME write_rows(o)
      PROVE  Same(p)
  BY <1>0, <1>15, <1>1 DEF Same, write_rows, Return
<1>16. ASSUME EndLockIndefinitely(o)
      PROVE  Same(p)
  BY <1>0, <1>16, <1>1 DEF Same, EndLockIndefinitely, Return, Goto
<1>17. ASSUME EndUnlockIndefinitely(o)
      PROVE  Same(p)
  BY <1>0, <1>17, <1>1, SMTT(30) DEF Same, EndUnlockIndefinitely, Return
<1>18. ASSUME Crash(o)
      PROVE  Same(p)
  BY <1>0, <1>18, <1>1, SMTT(30) DEF Same, Crash
<1> QED
  BY LockRootsConstants, <1>2, <1>3, <1>4, <1>5, <1>6, <1>7, <1>8, <1>9, <1>10, <1>11, <1>12, <1>13, <1>14, <1>15, <1>16, <1>17, <1>18
  DEF Start, Progress

-----------------------------------------------------------------------------
(* The operation itself.                                                   *)

LEMMA OwnStep ==
    ASSUME TypeOK, NEW o \in Ops, OpInv(o), Start(o) \/ Progress(o) \/ Crash(o)
    PROVE  OpInv(o)'
<1> USE DEF locks, history, OpInv, HeldInv, CallInv, LeftInv, ToUnlock, ToUnlockIndef, At
<1>0. /\ call \in [Ops -> Call] /\ held \in [Ops -> SUBSET Roots]
      /\ heldIndef \in [Ops -> SUBSET Roots] /\ lapsed \in [Ops -> SUBSET Roots]
      /\ stray \in [Ops -> SUBSET Roots] /\ strayIndef \in [Ops -> SUBSET Roots]
  BY DEF TypeOK
<1>1. ASSUME UNCHANGED locks
      PROVE  OwnTemporal(o)' = OwnTemporal(o) /\ OwnIndefinite(o)' = OwnIndefinite(o)
  BY <1>1 DEF OwnTemporal, OwnIndefinite
<1>2. ASSUME NEW future \in FutureMaps, NEW roots \in SUBSET Roots, lock_roots(o, roots, future)
      PROVE  OpInv(o)'
  <2>1. OwnTemporal(o)' = OwnTemporal(o) /\ OwnIndefinite(o)' = OwnIndefinite(o)
    BY <1>1, <1>2 DEF lock_roots
  <2>2. /\ call'[o].todo = call'[o].roots
        /\ call'[o].pc \in {"idle", "lock"}
        /\ call'[o].ok = TRUE
    BY <1>0, <1>2, TryForm DEF lock_roots
  <2>3. call[o].pc = "idle" /\ UNCHANGED <<held, heldIndef, history>>
    BY <1>2 DEF lock_roots
  <2> QED BY <2>1, <2>2, <2>3
<1>3. ASSUME NEW future \in FutureMaps, NEW roots \in SUBSET Roots,
             lock_roots_indefinitely(o, roots, future)
      PROVE  OpInv(o)'
  <2>1. OwnTemporal(o)' = OwnTemporal(o) /\ OwnIndefinite(o)' = OwnIndefinite(o)
    BY <1>1, <1>3 DEF lock_roots_indefinitely
  <2>2. /\ call'[o].pc = "lockIndef" /\ call'[o].todo = call'[o].roots /\ call'[o].ok = TRUE
    BY <1>0, <1>3 DEF lock_roots_indefinitely, Submit
  <2>3. call[o].pc = "idle" /\ UNCHANGED <<held, heldIndef, history>>
    BY <1>3 DEF lock_roots_indefinitely
  <2> QED BY <2>1, <2>2, <2>3
<1>4. ASSUME NEW roots \in SUBSET Roots, write(o, roots)
      PROVE  OpInv(o)'
  <2>1. OwnTemporal(o)' = OwnTemporal(o) /\ OwnIndefinite(o)' = OwnIndefinite(o)
    BY <1>1, <1>4 DEF write
  <2>2. /\ call'[o].pc = "renew" /\ call'[o].todo = call'[o].roots /\ call'[o].ok = TRUE
    BY <1>0, <1>4 DEF write, Submit
  <2>3. call[o].pc = "idle" /\ UNCHANGED <<held, heldIndef, history>>
    BY <1>4 DEF write
  <2> QED BY <2>1, <2>2, <2>3
<1>5. ASSUME NEW r \in Roots, Release(o, r)
      PROVE  OpInv(o)'
  <2>1. OwnIndefinite(o)' = OwnIndefinite(o)
    BY <1>5, UnlockForm DEF Release, OwnIndefinite
  <2>2. /\ held'[o] = held[o] \ {r} /\ call[o].pc = "idle"
        /\ UNCHANGED <<call, heldIndef, lapsed, strayIndef>>
    BY <1>0, <1>5 DEF Release, Unlock
  <2>3. \/ OwnTemporal(o)' = OwnTemporal(o) \ {r} /\ stray'[o] = stray[o] \ {r}
        \/ /\ OwnTemporal(o)' = OwnTemporal(o)
           /\ stray'[o] = stray[o] \cup (OwnTemporal(o) \cap {r})
    BY <1>5, UnlockForm DEF Release
  <2> QED BY <2>1, <2>2, <2>3
<1>6. ASSUME NEW r \in Roots, ReleaseIndefinite(o, r)
      PROVE  OpInv(o)'
  <2>1. OwnTemporal(o)' = OwnTemporal(o)
    BY <1>6, UnlockIndefForm DEF ReleaseIndefinite, OwnTemporal
  <2>2. /\ heldIndef'[o] = heldIndef[o] \ {r} /\ call[o].pc = "idle"
        /\ UNCHANGED <<call, held, lapsed, stray>>
    BY <1>0, <1>6 DEF ReleaseIndefinite, UnlockIndefinitely
  <2>3. \/ OwnIndefinite(o)' = OwnIndefinite(o) \ {r} /\ strayIndef'[o] = strayIndef[o] \ {r}
        \/ /\ OwnIndefinite(o)' = OwnIndefinite(o)
           /\ strayIndef'[o] = strayIndef[o] \cup (OwnIndefinite(o) \cap {r})
    BY <1>6, UnlockIndefForm DEF ReleaseIndefinite
  <2> QED BY <2>1, <2>2, <2>3
<1>7. ASSUME NEW r \in Roots, lock_root(o, r)
      PROVE  OpInv(o)'
  <2>1. /\ call[o].pc = "lock" /\ r \in call[o].todo
        /\ heldIndef'[o] = heldIndef[o] /\ lapsed'[o] = lapsed[o]
        /\ stray'[o] = stray[o] /\ strayIndef'[o] = strayIndef[o]
        /\ OwnIndefinite(o)' = OwnIndefinite(o)
    BY <1>7 DEF lock_root, OwnIndefinite
  <2>2. CASE /\ Granted(o, r) /\ Answered(o, r, TRUE)
             /\ held' = [held EXCEPT ![o] = @ \cup {r}]
    <3>1. held'[o] = held[o] \cup {r}
      BY <1>0, <2>2
    <3>2. OwnTemporal(o)' = OwnTemporal(o) \cup {r}
      BY <2>2, GrantedForm
    <3>3. /\ call'[o].pc = "lock" /\ call'[o].roots = call[o].roots
          /\ call'[o].todo = call[o].todo \ {r} /\ call'[o].ok = call[o].ok
      BY <1>0, <2>1, <2>2, AnsweredGood
    <3> QED BY <2>1, <3>1, <3>2, <3>3
  <2>3. CASE Granted(o, r) /\ Answered(o, r, FALSE) /\ UNCHANGED held
    <3>1. held'[o] = held[o]
      BY <2>3
    <3>2. OwnTemporal(o)' = OwnTemporal(o) \cup {r}
      BY <2>3, GrantedForm
    <3>3. /\ call'[o].pc = "lock" /\ call'[o].roots = call[o].roots
          /\ call'[o].todo = call[o].todo \ {r} /\ call'[o].ok = FALSE
      BY <1>0, <2>1, <2>3, AnsweredBad
    <3> QED BY <2>1, <3>1, <3>2, <3>3
  <2>4. CASE Answered(o, r, FALSE) /\ UNCHANGED <<temporal, held>>
    <3>1. OwnTemporal(o)' = OwnTemporal(o) /\ held'[o] = held[o]
      BY <2>4 DEF OwnTemporal
    <3>2. /\ call'[o].pc = "lock" /\ call'[o].roots = call[o].roots
          /\ call'[o].todo = call[o].todo \ {r} /\ call'[o].ok = FALSE
      BY <1>0, <2>1, <2>4, AnsweredBad
    <3> QED BY <2>1, <3>1, <3>2
  <2> QED BY <1>7, <2>2, <2>3, <2>4, Zenon DEF lock_root
<1>8. ASSUME NEW r \in Roots, unlock_root(o, r)
      PROVE  OpInv(o)'
  <2>1. OwnIndefinite(o)' = OwnIndefinite(o)
    BY <1>8, UnlockForm DEF unlock_root, OwnIndefinite
  <2>2. call[o].pc = "unlock" /\ UNCHANGED <<held, heldIndef, lapsed, strayIndef>>
    BY <1>8 DEF unlock_root, Unlock
  <2>3. /\ call'[o].pc = "unlock" /\ call'[o].roots = call[o].roots
        /\ call'[o].todo = call[o].todo \ {r}
    BY <1>0, <1>8, <2>2, AnsweredGood DEF unlock_root
  <2>4. \/ OwnTemporal(o)' = OwnTemporal(o) \ {r} /\ stray'[o] = stray[o] \ {r}
        \/ /\ OwnTemporal(o)' = OwnTemporal(o)
           /\ stray'[o] = stray[o] \cup (OwnTemporal(o) \cap {r})
    BY <1>8, UnlockForm DEF unlock_root
  <2>5. HeldInv(o)' /\ CallInv(o)'
    <3>1. r \in call[o].todo
      BY <1>8 DEF unlock_root
    <3> QED BY <2>1, <2>2, <2>3, <2>4, <3>1
  <2>6. LeftInv(o)'
    BY <2>1, <2>2, <2>3, <2>4
  <2> QED BY <2>5, <2>6
<1>9. ASSUME NEW r \in Roots, renew_lock(o, r)
      PROVE  OpInv(o)'
  <2>1. /\ call[o].pc = "renew" /\ r \in call[o].todo
        /\ heldIndef'[o] = heldIndef[o] /\ lapsed'[o] = lapsed[o]
        /\ strayIndef'[o] = strayIndef[o]
        /\ OwnIndefinite(o)' = OwnIndefinite(o)
    BY <1>9 DEF renew_lock, OwnIndefinite
  <2>2. CASE /\ Renewed(o, r) /\ Answered(o, r, TRUE)
             /\ held' = [held EXCEPT ![o] = @ \cup {r}]
             /\ stray' = [stray EXCEPT ![o] = @ \ {r}]
    <3>1. held'[o] = held[o] \cup {r} /\ stray'[o] = stray[o] \ {r}
      BY <1>0, <2>2
    <3>2. OwnTemporal(o)' = OwnTemporal(o) \cup {r}
      BY <2>2, GrantedForm
    <3>3. /\ call'[o].pc = "renew" /\ call'[o].roots = call[o].roots
          /\ call'[o].todo = call[o].todo \ {r} /\ call'[o].ok = call[o].ok
      BY <1>0, <2>1, <2>2, AnsweredGood
    <3> QED BY <2>1, <3>1, <3>2, <3>3
  <2>3. CASE /\ Renewed(o, r) /\ Answered(o, r, FALSE)
             /\ stray' = [stray EXCEPT ![o] = @ \cup {r}]
             /\ UNCHANGED held
    <3>1. held'[o] = held[o] /\ stray'[o] = stray[o] \cup {r}
      BY <1>0, <2>3
    <3>2. OwnTemporal(o)' = OwnTemporal(o) \cup {r}
      BY <2>3, GrantedForm
    <3>3. /\ call'[o].pc = "renew" /\ call'[o].roots = call[o].roots
          /\ call'[o].todo = call[o].todo \ {r} /\ call'[o].ok = FALSE
      BY <1>0, <2>1, <2>3, AnsweredBad
    <3> QED BY <2>1, <3>1, <3>2, <3>3
  <2>4. CASE Answered(o, r, FALSE) /\ UNCHANGED <<temporal, held, stray>>
    <3>1. OwnTemporal(o)' = OwnTemporal(o) /\ held'[o] = held[o] /\ stray'[o] = stray[o]
      BY <2>4 DEF OwnTemporal
    <3>2. /\ call'[o].pc = "renew" /\ call'[o].roots = call[o].roots
          /\ call'[o].todo = call[o].todo \ {r} /\ call'[o].ok = FALSE
      BY <1>0, <2>1, <2>4, AnsweredBad
    <3> QED BY <2>1, <3>1, <3>2
  <2> QED BY <1>9, <2>2, <2>3, <2>4, Zenon DEF renew_lock
<1>10. ASSUME NEW r \in Roots, lock_root_indefinitely(o, r)
      PROVE  OpInv(o)'
  <2>1. /\ call[o].pc = "lockIndef" /\ r \in call[o].todo
        /\ held'[o] = held[o] /\ lapsed'[o] = lapsed[o]
        /\ stray'[o] = stray[o] /\ strayIndef'[o] = strayIndef[o]
        /\ OwnTemporal(o)' = OwnTemporal(o)
    BY <1>10 DEF lock_root_indefinitely, OwnTemporal
  <2>2. CASE /\ GrantedIndefinitely(o, r) /\ Answered(o, r, TRUE)
             /\ heldIndef' = [heldIndef EXCEPT ![o] = @ \cup {r}]
    <3>1. heldIndef'[o] = heldIndef[o] \cup {r}
      BY <1>0, <2>2
    <3>2. OwnIndefinite(o)' = OwnIndefinite(o) \cup {r}
      BY <2>2, GrantedIndefForm
    <3>3. /\ call'[o].pc = "lockIndef" /\ call'[o].roots = call[o].roots
          /\ call'[o].todo = call[o].todo \ {r} /\ call'[o].ok = call[o].ok
      BY <1>0, <2>1, <2>2, AnsweredGood
    <3> QED BY <2>1, <3>1, <3>2, <3>3
  <2>3. CASE GrantedIndefinitely(o, r) /\ Answered(o, r, FALSE) /\ UNCHANGED heldIndef
    <3>1. heldIndef'[o] = heldIndef[o]
      BY <2>3
    <3>2. OwnIndefinite(o)' = OwnIndefinite(o) \cup {r}
      BY <2>3, GrantedIndefForm
    <3>3. /\ call'[o].pc = "lockIndef" /\ call'[o].roots = call[o].roots
          /\ call'[o].todo = call[o].todo \ {r} /\ call'[o].ok = FALSE
      BY <1>0, <2>1, <2>3, AnsweredBad
    <3> QED BY <2>1, <3>1, <3>2, <3>3
  <2>4. CASE Answered(o, r, FALSE) /\ UNCHANGED <<indefinite, heldIndef>>
    <3>1. OwnIndefinite(o)' = OwnIndefinite(o) /\ heldIndef'[o] = heldIndef[o]
      BY <2>4 DEF OwnIndefinite
    <3>2. /\ call'[o].pc = "lockIndef" /\ call'[o].roots = call[o].roots
          /\ call'[o].todo = call[o].todo \ {r} /\ call'[o].ok = FALSE
      BY <1>0, <2>1, <2>4, AnsweredBad
    <3> QED BY <2>1, <3>1, <3>2
  <2> QED BY <1>10, <2>2, <2>3, <2>4, Zenon DEF lock_root_indefinitely
<1>11. ASSUME NEW r \in Roots, unlock_indefinitely_locked_root(o, r)
      PROVE  OpInv(o)'
  <2>1. OwnTemporal(o)' = OwnTemporal(o)
    BY <1>11, UnlockIndefForm DEF unlock_indefinitely_locked_root, OwnTemporal
  <2>2. call[o].pc = "unlockIndef" /\ UNCHANGED <<held, heldIndef, lapsed, stray>>
    BY <1>11 DEF unlock_indefinitely_locked_root, UnlockIndefinitely
  <2>3. /\ call'[o].pc = "unlockIndef" /\ call'[o].roots = call[o].roots
        /\ call'[o].todo = call[o].todo \ {r}
    BY <1>0, <1>11, <2>2, AnsweredGood DEF unlock_indefinitely_locked_root
  <2>4. \/ OwnIndefinite(o)' = OwnIndefinite(o) \ {r} /\ strayIndef'[o] = strayIndef[o] \ {r}
        \/ /\ OwnIndefinite(o)' = OwnIndefinite(o)
           /\ strayIndef'[o] = strayIndef[o] \cup (OwnIndefinite(o) \cap {r})
    BY <1>11, UnlockIndefForm DEF unlock_indefinitely_locked_root
  <2>5. HeldInv(o)' /\ CallInv(o)'
    <3>1. r \in call[o].todo
      BY <1>11 DEF unlock_indefinitely_locked_root
    <3> QED BY <2>1, <2>2, <2>3, <2>4, <3>1
  <2>6. LeftInv(o)'
    BY <2>1, <2>2, <2>3, <2>4
  <2> QED BY <2>5, <2>6
<1>12. ASSUME EndLock(o)
      PROVE  OpInv(o)'
  <2>1. /\ OwnTemporal(o)' = OwnTemporal(o) /\ OwnIndefinite(o)' = OwnIndefinite(o)
        /\ call[o].pc = "lock" /\ call[o].todo = {}
        /\ UNCHANGED <<heldIndef, stray, strayIndef>>
    BY <1>1, <1>12 DEF EndLock, AllAnswered
  <2>2. CASE call[o].ok
    <3>1. /\ call'[o].pc = "idle" /\ call'[o].roots = {} /\ call'[o].todo = {}
          /\ UNCHANGED held
      BY <1>0, <1>12, <2>2, IdleForm DEF EndLock, Return
    <3> QED BY <2>1, <2>2, <3>1
  <2>3. CASE ~call[o].ok
    <3>1. held'[o] = held[o] \ call[o].roots /\ UNCHANGED lapsed
      BY <1>0, <1>12, <2>3 DEF EndLock
    <3>2. Goto(o, "unlock")
      BY <1>12, <2>3, Zenon DEF EndLock
    <3>3. /\ call'[o].pc = "unlock" /\ call'[o].roots = call[o].roots
          /\ call'[o].todo = call[o].roots
      BY <1>0, <3>2, GotoForm
    <3> QED BY <2>1, <2>3, <3>1, <3>3
  <2> QED BY <2>2, <2>3
<1>13. ASSUME NextTry(o)
      PROVE  OpInv(o)'
  <2>1. /\ OwnTemporal(o)' = OwnTemporal(o) /\ OwnIndefinite(o)' = OwnIndefinite(o)
        /\ call[o].pc = "unlock" /\ call[o].todo = {}
        /\ UNCHANGED <<held, heldIndef, stray, strayIndef>>
    BY <1>1, <1>13 DEF NextTry, AllAnswered
  <2>2. /\ call'[o].todo = call'[o].roots
        /\ call'[o].pc \in {"idle", "lock"}
        /\ call'[o].ok = TRUE
    <3>1. CASE call[o].tries + 1 < MaxTries
      BY <1>0, <1>13, <3>1, TryForm DEF NextTry
    <3>2. CASE ~(call[o].tries + 1 < MaxTries)
      BY <1>0, <1>13, <3>2, IdleForm DEF NextTry
    <3> QED BY <3>1, <3>2
  <2> QED BY <2>1, <2>2
<1>14. ASSUME EndRenew(o)
      PROVE  OpInv(o)'
  <2>1. /\ OwnTemporal(o)' = OwnTemporal(o) /\ OwnIndefinite(o)' = OwnIndefinite(o)
        /\ call[o].pc = "renew" /\ call[o].todo = {}
        /\ UNCHANGED <<held, heldIndef, stray, strayIndef>>
    BY <1>1, <1>14 DEF EndRenew, AllAnswered
  <2>2. CASE call[o].ok
    <3>1. Goto(o, "write")
      BY <1>14, <2>2, Zenon DEF EndRenew
    <3>2. lapsed' = lapsed
      BY <1>14, <2>2, Zenon DEF EndRenew
    <3>3. call[o] \in Call
      BY <1>0
    <3>4. /\ call'[o].pc = "write" /\ call'[o].roots = call[o].roots
          /\ call'[o].todo = call[o].roots
      BY <1>0, <3>1, <3>3 DEF Goto, Call
    <3> QED BY <2>1, <2>2, <3>2, <3>4
  <2>3. CASE ~call[o].ok
    <3>1. call'[o].pc = "idle" /\ call'[o].roots = {} /\ call'[o].todo = {}
      BY <1>0, <1>14, <2>3, IdleForm DEF EndRenew, Return
    <3> QED BY <2>1, <3>1
  <2> QED BY <2>2, <2>3
<1>15. ASSUME write_rows(o)
      PROVE  OpInv(o)'
  <2>1. /\ OwnTemporal(o)' = OwnTemporal(o) /\ OwnIndefinite(o)' = OwnIndefinite(o)
        /\ call[o].pc = "write"
        /\ UNCHANGED <<held, heldIndef, stray, strayIndef>>
    BY <1>1, <1>15 DEF write_rows
  <2>2. call'[o].pc = "idle" /\ call'[o].roots = {} /\ call'[o].todo = {}
    BY <1>0, <1>15, IdleForm DEF write_rows, Return
  <2> QED BY <2>1, <2>2
<1>16. ASSUME EndLockIndefinitely(o)
      PROVE  OpInv(o)'
  <2>1. /\ OwnTemporal(o)' = OwnTemporal(o) /\ OwnIndefinite(o)' = OwnIndefinite(o)
        /\ call[o].pc = "lockIndef" /\ call[o].todo = {}
        /\ UNCHANGED <<held, stray, strayIndef>>
    BY <1>1, <1>16 DEF EndLockIndefinitely, AllAnswered
  <2>2. CASE call[o].ok
    <3>1. /\ call'[o].pc = "idle" /\ call'[o].roots = {} /\ call'[o].todo = {}
          /\ UNCHANGED heldIndef
      BY <1>0, <1>16, <2>2, IdleForm DEF EndLockIndefinitely, Return
    <3> QED BY <2>1, <2>2, <3>1
  <2>3. CASE ~call[o].ok
    <3>1. heldIndef'[o] = heldIndef[o] \ call[o].roots /\ UNCHANGED lapsed
      BY <1>0, <1>16, <2>3 DEF EndLockIndefinitely
    <3>2. Goto(o, "unlockIndef")
      BY <1>16, <2>3, Zenon DEF EndLockIndefinitely
    <3>3. /\ call'[o].pc = "unlockIndef" /\ call'[o].roots = call[o].roots
          /\ call'[o].todo = call[o].roots
      BY <1>0, <3>2, GotoForm
    <3> QED BY <2>1, <2>3, <3>1, <3>3
  <2> QED BY <2>2, <2>3
<1>17. ASSUME EndUnlockIndefinitely(o)
      PROVE  OpInv(o)'
  <2>1. /\ OwnTemporal(o)' = OwnTemporal(o) /\ OwnIndefinite(o)' = OwnIndefinite(o)
        /\ call[o].pc = "unlockIndef" /\ call[o].todo = {}
        /\ UNCHANGED <<held, heldIndef, stray, strayIndef>>
    BY <1>1, <1>17 DEF EndUnlockIndefinitely, AllAnswered
  <2>2. call'[o].pc = "idle" /\ call'[o].roots = {} /\ call'[o].todo = {}
    BY <1>0, <1>17, IdleForm DEF EndUnlockIndefinitely, Return
  <2> QED BY <2>1, <2>2
<1>18. ASSUME Crash(o)
      PROVE  OpInv(o)'
  <2>1. OwnTemporal(o)' = OwnTemporal(o) /\ OwnIndefinite(o)' = OwnIndefinite(o)
    BY <1>1, <1>18 DEF Crash
  <2>2. /\ held'[o] = {} /\ heldIndef'[o] = {}
        /\ stray'[o] = OwnTemporal(o) /\ strayIndef'[o] = OwnIndefinite(o)
    BY <1>0, <1>18 DEF Crash
  <2>3. call'[o].pc = "idle" /\ call'[o].roots = {} /\ call'[o].todo = {}
    BY <1>0, <1>18, IdleForm DEF Crash
  <2> QED BY <2>1, <2>2, <2>3
<1> QED
  BY LockRootsConstants, <1>2, <1>3, <1>4, <1>5, <1>6, <1>7, <1>8, <1>9, <1>10, <1>11, <1>12, <1>13, <1>14,
     <1>15, <1>16, <1>17, <1>18
  DEF Start, Progress

\* When a lock runs out, every operation forgets it.
LEMMA ExpireStep ==
    ASSUME TypeOK, NEW r \in Roots, NEW p \in Ops, OpInv(p), Expire(r)
    PROVE  OpInv(p)'
<1>1. /\ held'[p] = held[p] \ {r} /\ stray'[p] = stray[p] \ {r}
      /\ lapsed'[p] = IF r \in held[p] \cap call[p].roots THEN lapsed[p] \cup {r} ELSE lapsed[p]
      /\ UNCHANGED <<indefinite, call, heldIndef, strayIndef>>
  BY DEF Expire
<1>2. OwnTemporal(p)' = OwnTemporal(p) \ {r}
  BY DEF TypeOK, Expire, OwnTemporal
<1>3. OwnIndefinite(p)' = OwnIndefinite(p)
  BY <1>1 DEF OwnIndefinite
<1> QED BY <1>1, <1>2, <1>3
        DEF TypeOK, OpInv, HeldInv, CallInv, LeftInv, ToUnlock, ToUnlockIndef, At

LEMMA InvStep ==
    ASSUME LockRootsInv, [Next]_vars
    PROVE  LockRootsInv'
<1>1. TypeOK'
  BY TypeStep DEF LockRootsInv
<1> SUFFICES ASSUME NEW p \in Ops
             PROVE  OpInv(p)'
  BY <1>1 DEF LockRootsInv
<1>0. TypeOK /\ OpInv(p)
  BY DEF LockRootsInv
<1>2. ASSUME NEW o \in Ops, Start(o) \/ Progress(o) \/ Crash(o)
      PROVE  OpInv(p)'
  <2>1. CASE o = p
    BY <1>0, <1>2, <2>1, OwnStep
  <2>2. CASE o # p
    BY <1>0, <1>2, <2>2, OthersStep
       DEF Same, OpInv, HeldInv, CallInv, LeftInv, ToUnlock, ToUnlockIndef, At
  <2> QED BY <2>1, <2>2
<1>3. ASSUME NEW r \in Roots, Expire(r)
      PROVE  OpInv(p)'
  BY <1>0, <1>3, ExpireStep
<1>4. CASE UNCHANGED vars
  BY <1>0, <1>4 DEF vars, locks, history, OpInv, HeldInv, CallInv, LeftInv, ToUnlock,
                    ToUnlockIndef, At, OwnTemporal, OwnIndefinite
<1> QED BY <1>2, <1>3, <1>4 DEF Next

LEMMA InvInit == Init => LockRootsInv
<1> SUFFICES ASSUME Init PROVE LockRootsInv
  OBVIOUS
<1>1. TypeOK
  BY IdleType DEF Init, TypeOK
<1>2. ASSUME NEW o \in Ops
      PROVE  OpInv(o)
  BY LockRootsConstants
  DEF Init, OpInv, HeldInv, CallInv, LeftInv, ToUnlock, ToUnlockIndef, At, OwnTemporal,
      OwnIndefinite, Idle, NoCell
<1> QED BY <1>1, <1>2 DEF LockRootsInv

\* LockRootsInv is an invariant.
LEMMA Invariant == Spec => []LockRootsInv
BY InvInit, InvStep, PTL DEF Spec

-----------------------------------------------------------------------------
(* The theorems.                                                           *)

\* Every lock an operation counts on is its own on the row, in every
\* interleaving of the threads of all the operations.
THEOREM HeldOwned == Spec => []HeldIsOwned
<1>1. LockRootsInv => HeldIsOwned
  BY DEF LockRootsInv, OpInv, HeldInv, HeldIsOwned, OwnTemporal, OwnIndefinite
<1> QED BY <1>1, Invariant, PTL

\* A call that succeeds has all of its roots.
THEOREM AllRootsOrNone == Spec => []AllOrNothing
<1>1. LockRootsInv => AllOrNothing
  BY DEF LockRootsInv, OpInv, CallInv, AllOrNothing, AllAnswered
<1> QED BY <1>1, Invariant, PTL

\* A call that fails leaves no lock that its operation does not know of, save
\* where an unlock raised or the worker died.
THEOREM NothingIsLeft == Spec => []NothingLeftBehind
<1>1. LockRootsInv => NothingLeftBehind
  BY DEF LockRootsInv, OpInv, LeftInv, NothingLeftBehind, ToUnlock, ToUnlockIndef, At
<1> QED BY <1>1, Invariant, PTL

-----------------------------------------------------------------------------
(* Calls advance.  CallsReturn itself needs fairness and stays with TLC; what *)
(* it rests on is that each step of a call takes it nearer to its end, and    *)
(* that no step of anyone takes it back.                                     *)

\* The phases of a try, or of another call.
FollowsOn == {<<"lock", "unlock">>, <<"lockIndef", "unlockIndef">>, <<"renew", "write">>}

\* A call in progress stays as it is, ends, goes to the next of its tries, of which
\* there are MaxTries, or to the next phase of a try with the same roots, or has one
\* answer more.  It leaves no request behind: it ends, or goes on, with all answers.
Advances(o) ==
    LET now == call[o]  next == call'[o] IN
    ~At(o, "idle") =>
        \/ next = now
        \/ next.pc = "idle" /\ (now.todo = {} \/ now.pc = "write" \/ Crash(o))
        \/ /\ now.pc = "unlock" /\ next.pc = "lock" /\ now.todo = {}
           /\ next.tries = now.tries + 1
        \/ /\ <<now.pc, next.pc>> \in FollowsOn /\ now.todo = {}
           /\ next.tries = now.tries /\ next.roots = now.roots
        \/ /\ next.pc = now.pc /\ next.tries = now.tries /\ next.roots = now.roots
           /\ \E r \in now.todo : next.todo = now.todo \ {r}

\* What the helpers do to the call.
LEMMA AnswerAdvances ==
    ASSUME call \in [Ops -> Call], NEW o \in Ops, NEW r \in Roots, NEW good \in BOOLEAN,
           r \in call[o].todo, Answered(o, r, good)
    PROVE  Advances(o)
<1>1. call[o] \in Call
  OBVIOUS
<1>2. /\ call'[o].pc = call[o].pc /\ call'[o].tries = call[o].tries
      /\ call'[o].roots = call[o].roots /\ call'[o].todo = call[o].todo \ {r}
  BY <1>1 DEF Answered, Call
<1> QED
  BY <1>2 DEF Advances

LEMMA IdleAdvances ==
    ASSUME call \in [Ops -> Call], NEW o \in Ops, call' = [call EXCEPT ![o] = Idle],
           call[o].todo = {} \/ call[o].pc = "write" \/ Crash(o)
    PROVE  Advances(o)
BY IdleForm DEF Advances

LEMMA GotoAdvances ==
    ASSUME call \in [Ops -> Call], NEW o \in Ops, NEW pc, Goto(o, pc),
           <<call[o].pc, pc>> \in FollowsOn, call[o].todo = {}
    PROVE  Advances(o)
<1>1. call[o] \in Call
  OBVIOUS
<1>2. /\ call'[o].pc = pc /\ call'[o].tries = call[o].tries
      /\ call'[o].roots = call[o].roots
  BY <1>1 DEF Goto, Call
<1> QED
  BY <1>2 DEF Advances

LEMMA OwnAdvances ==
    ASSUME TypeOK, NEW o \in Ops, Start(o) \/ Progress(o) \/ Crash(o)
    PROVE  Advances(o)
<1>0. call \in [Ops -> Call]
  BY DEF TypeOK
<1>1. ASSUME Start(o) PROVE Advances(o)
  <2>1. At(o, "idle")
    BY <1>1 DEF Start, lock_roots, lock_roots_indefinitely, write, Release, ReleaseIndefinite
  <2> QED
    BY <2>1 DEF Advances
<1>2. ASSUME NEW r \in Roots, lock_root(o, r) PROVE Advances(o)
  <2>1. r \in call[o].todo /\ (Answered(o, r, TRUE) \/ Answered(o, r, FALSE))
    BY <1>2 DEF lock_root
  <2> QED
    BY <1>0, <2>1, AnswerAdvances
<1>3. ASSUME NEW r \in Roots, unlock_root(o, r) PROVE Advances(o)
  BY <1>0, <1>3, AnswerAdvances DEF unlock_root
<1>4. ASSUME NEW r \in Roots, renew_lock(o, r) PROVE Advances(o)
  <2>1. r \in call[o].todo /\ (Answered(o, r, TRUE) \/ Answered(o, r, FALSE))
    BY <1>4 DEF renew_lock
  <2> QED
    BY <1>0, <2>1, AnswerAdvances
<1>5. ASSUME NEW r \in Roots, lock_root_indefinitely(o, r) PROVE Advances(o)
  <2>1. r \in call[o].todo /\ (Answered(o, r, TRUE) \/ Answered(o, r, FALSE))
    BY <1>5 DEF lock_root_indefinitely
  <2> QED
    BY <1>0, <2>1, AnswerAdvances
<1>6. ASSUME NEW r \in Roots, unlock_indefinitely_locked_root(o, r) PROVE Advances(o)
  BY <1>0, <1>6, AnswerAdvances DEF unlock_indefinitely_locked_root
<1>7. ASSUME EndLock(o) PROVE Advances(o)
  <2>1. AllAnswered(o, "lock") /\ (Return(o) \/ Goto(o, "unlock"))
    BY <1>7 DEF EndLock
  <2> QED
    BY <1>0, <2>1, IdleAdvances, GotoAdvances DEF Return, AllAnswered, At, FollowsOn
<1>8. ASSUME NextTry(o) PROVE Advances(o)
  <2>1. call[o].pc = "unlock" /\ call[o].todo = {}
    BY <1>8 DEF NextTry, AllAnswered, At
  <2>2. CASE call' = [call EXCEPT ![o] = Idle]
    BY <1>0, <2>1, <2>2, IdleAdvances
  <2>3. CASE Submit(o, "lock", NewRootIds(call[o].roots, call[o].future), call[o].tries + 1,
                    call[o].future)
    <3>1. call'[o].pc = "lock" /\ call'[o].tries = call[o].tries + 1
      BY <1>0, <2>3 DEF Submit
    <3> QED
      BY <2>1, <3>1 DEF Advances
  <2> QED
    BY <1>8, <2>2, <2>3 DEF NextTry, Try
<1>9. ASSUME EndRenew(o) PROVE Advances(o)
  <2>1. AllAnswered(o, "renew") /\ (Return(o) \/ Goto(o, "write"))
    BY <1>9 DEF EndRenew
  <2> QED
    BY <1>0, <2>1, IdleAdvances, GotoAdvances DEF Return, AllAnswered, At, FollowsOn
<1>10. ASSUME EndLockIndefinitely(o) PROVE Advances(o)
  <2>1. AllAnswered(o, "lockIndef") /\ (Return(o) \/ Goto(o, "unlockIndef"))
    BY <1>10 DEF EndLockIndefinitely
  <2> QED
    BY <1>0, <2>1, IdleAdvances, GotoAdvances DEF Return, AllAnswered, At, FollowsOn
<1>11. ASSUME write_rows(o) \/ EndUnlockIndefinitely(o) \/ Crash(o) PROVE Advances(o)
  <2>1. call' = [call EXCEPT ![o] = Idle]
    BY <1>11 DEF write_rows, EndUnlockIndefinitely, Crash, Return
  <2>2. call[o].todo = {} \/ call[o].pc = "write" \/ Crash(o)
    BY <1>11 DEF write_rows, EndUnlockIndefinitely, AllAnswered, At
  <2> QED
    BY <1>0, <2>1, <2>2, IdleAdvances
<1> QED
  BY <1>1, <1>2, <1>3, <1>4, <1>5, <1>6, <1>7, <1>8, <1>9, <1>10, <1>11 DEF Progress

\* Each step of a call takes it nearer to its end, whatever the other operations lock
\* and whatever runs out or raises: no answer is asked for twice in a phase, no phase
\* twice in a try, tries are counted, and none but a crash leaves an answer out.
THEOREM CallsAdvance == Spec => [][\A o \in Ops : Advances(o)]_vars
<1>1. ASSUME TypeOK, [Next]_vars, NEW p \in Ops PROVE Advances(p)
  <2>1. ASSUME NEW o \in Ops, Start(o) \/ Progress(o) \/ Crash(o) PROVE Advances(p)
    <3>1. CASE o = p
      BY <1>1, <2>1, <3>1, OwnAdvances
    <3>2. CASE o # p
      BY <1>1, <2>1, <3>2, OthersStep DEF Same, Advances
    <3> QED BY <3>1, <3>2
  <2>2. ASSUME call' = call PROVE Advances(p)
    BY <2>2 DEF Advances
  <2>3. CASE \E r \in Roots : Expire(r)
    BY <2>2, <2>3 DEF Expire
  <2>4. CASE UNCHANGED vars
    BY <2>2, <2>4 DEF vars
  <2> QED BY <1>1, <2>1, <2>3, <2>4 DEF Next
<1>2. TypeOK /\ [Next]_vars => [\A o \in Ops : Advances(o)]_vars
  BY <1>1
<1> QED BY <1>2, TypeCorrect, PTL DEF Spec

-----------------------------------------------------------------------------
(* The locks are those of RowLocks.                                        *)

\* One temporal cell is replaced.
LEMMA CellChanges ==
    ASSUME TypeOK, NEW r \in Roots, NEW p, NEW live,
           temporal' = [temporal EXCEPT ![r] = [op |-> p, live |-> live]]
    PROVE  /\ [s \in Roots |-> temporal'[s].op]
                = [[s \in Roots |-> temporal[s].op] EXCEPT ![r] = p]
           /\ [s \in Roots |-> temporal'[s].live]
                = [[s \in Roots |-> temporal[s].live] EXCEPT ![r] = live]
BY DEF TypeOK

LEMMA CellsStay ==
    ASSUME UNCHANGED locks
    PROVE  UNCHANGED RowLock!vars
BY DEF locks, RowLock!vars

\* A cell is its two parts.
LEMMA CellParts ==
    ASSUME NEW c \in Cell \cup {NoCell}
    PROVE  c = [op |-> c.op, live |-> c.live] /\ c.live \in BOOLEAN
<1>1. CASE c \in Cell
  BY <1>1 DEF Cell
<1>2. CASE c = NoCell
  BY <1>2 DEF NoCell
<1> QED BY <1>1, <1>2

\* What RowLocks sees of the cells is all there is to them.
LEMMA PartsDecide ==
    ASSUME TypeOK, TypeOK', NEW r \in Roots, NEW p, NEW live,
           [s \in Roots |-> temporal'[s].op]
              = [[s \in Roots |-> temporal[s].op] EXCEPT ![r] = p],
           [s \in Roots |-> temporal'[s].live]
              = [[s \in Roots |-> temporal[s].live] EXCEPT ![r] = live]
    PROVE  temporal' = [temporal EXCEPT ![r] = [op |-> p, live |-> live]]
<1>1. \A s \in Roots : /\ temporal[s] = [op |-> temporal[s].op, live |-> temporal[s].live]
                       /\ temporal'[s] = [op |-> temporal'[s].op, live |-> temporal'[s].live]
  BY CellParts DEF TypeOK
<1>2. \A s \in Roots : /\ temporal'[s].op = IF s = r THEN p ELSE temporal[s].op
                       /\ temporal'[s].live = IF s = r THEN live ELSE temporal[s].live
  <2> DEFINE newOp == [s \in Roots |-> temporal'[s].op]
             newLive == [s \in Roots |-> temporal'[s].live]
  <2>1. \A s \in Roots : newOp[s] = temporal'[s].op /\ newLive[s] = temporal'[s].live
    OBVIOUS
  <2>2. \A s \in Roots : /\ newOp[s] = IF s = r THEN p ELSE temporal[s].op
                         /\ newLive[s] = IF s = r THEN live ELSE temporal[s].live
    OBVIOUS
  <2> HIDE DEF newOp, newLive
  <2> QED BY <2>1, <2>2
<1>3. \A s \in Roots : temporal'[s] = IF s = r THEN [op |-> p, live |-> live] ELSE temporal[s]
  BY <1>1, <1>2
<1> QED BY <1>3 DEF TypeOK

LEMMA PartsStay ==
    ASSUME TypeOK, TypeOK',
           [s \in Roots |-> temporal'[s].op] = [s \in Roots |-> temporal[s].op],
           [s \in Roots |-> temporal'[s].live] = [s \in Roots |-> temporal[s].live]
    PROVE  temporal' = temporal
<1>1. \A s \in Roots : /\ temporal[s] = [op |-> temporal[s].op, live |-> temporal[s].live]
                       /\ temporal'[s] = [op |-> temporal'[s].op, live |-> temporal'[s].live]
  BY CellParts DEF TypeOK
<1>2. \A s \in Roots : temporal'[s].op = temporal[s].op /\ temporal'[s].live = temporal[s].live
  <2>1. \A s \in Roots : /\ [q \in Roots |-> temporal'[q].op][s] = [q \in Roots |-> temporal[q].op][s]
                         /\ [q \in Roots |-> temporal'[q].live][s] = [q \in Roots |-> temporal[q].live][s]
    BY Zenon
  <2> QED BY <2>1, Zenon
<1>3. \A s \in Roots : temporal'[s] = temporal[s]
  BY <1>1, <1>2, Zenon
<1> QED BY <1>3 DEF TypeOK

\* What a served request does to a row is one action of RowLocks, and the reverse.
LEMMA GrantIsAcquire ==
    ASSUME TypeOK, TypeOK', NEW o \in Ops, NEW r \in Roots
    PROVE  Granted(o, r) /\ UNCHANGED indefinite <=> RowLock!Acquire(o, r)
<1>1. ASSUME Granted(o, r), UNCHANGED indefinite PROVE RowLock!Acquire(o, r)
  <2>1. /\ [s \in Roots |-> temporal'[s].op]
             = [[s \in Roots |-> temporal[s].op] EXCEPT ![r] = o]
        /\ [s \in Roots |-> temporal'[s].live]
             = [[s \in Roots |-> temporal[s].live] EXCEPT ![r] = TRUE]
    BY <1>1, CellChanges DEF Granted
  <2> QED BY <1>1, <2>1 DEF Granted, Locked, RowLock!Acquire
<1>2. ASSUME RowLock!Acquire(o, r) PROVE Granted(o, r) /\ UNCHANGED indefinite
  <2>1. temporal' = [temporal EXCEPT ![r] = [op |-> o, live |-> TRUE]]
    BY <1>2, PartsDecide DEF RowLock!Acquire
  <2> QED BY <1>2, <2>1 DEF Granted, Locked, RowLock!Acquire
<1> QED BY <1>1, <1>2

LEMMA RenewalIsExtend ==
    ASSUME TypeOK, TypeOK', NEW o \in Ops, NEW r \in Roots
    PROVE  Renewed(o, r) /\ UNCHANGED indefinite <=> RowLock!Extend(o, r)
<1>1. ASSUME Renewed(o, r), UNCHANGED indefinite PROVE RowLock!Extend(o, r)
  <2>1. /\ [s \in Roots |-> temporal'[s].op]
             = [[s \in Roots |-> temporal[s].op] EXCEPT ![r] = o]
        /\ [s \in Roots |-> temporal'[s].live]
             = [[s \in Roots |-> temporal[s].live] EXCEPT ![r] = TRUE]
    BY <1>1, CellChanges DEF Renewed
  <2>2. [s \in Roots |-> temporal'[s].op] = [s \in Roots |-> temporal[s].op]
    BY <1>1, <2>1 DEF Renewed
  <2> QED BY <1>1, <2>1, <2>2 DEF Renewed, RowLock!Extend
<1>2. ASSUME RowLock!Extend(o, r) PROVE Renewed(o, r) /\ UNCHANGED indefinite
  <2>1. temporal[r].op = o /\ UNCHANGED indefinite
    BY <1>2 DEF RowLock!Extend
  <2>2. [s \in Roots |-> temporal'[s].op] = [[s \in Roots |-> temporal[s].op] EXCEPT ![r] = o]
    BY <1>2, <2>1 DEF RowLock!Extend
  <2>3. temporal' = [temporal EXCEPT ![r] = [op |-> o, live |-> TRUE]]
    BY <1>2, <2>2, PartsDecide DEF RowLock!Extend
  <2> QED BY <2>1, <2>3 DEF Renewed
<1> QED BY <1>1, <1>2

\* The cell is removed.
Removed(o, r) ==
    /\ temporal[r] = [op |-> o, live |-> TRUE]
    /\ temporal' = [temporal EXCEPT ![r] = NoCell]

LEMMA RemovalIsRelease ==
    ASSUME TypeOK, TypeOK', NEW o \in Ops, NEW r \in Roots
    PROVE  Removed(o, r) /\ UNCHANGED indefinite <=> RowLock!Release(o, r)
<1>1. ASSUME Removed(o, r), UNCHANGED indefinite PROVE RowLock!Release(o, r)
  <2>1. /\ [s \in Roots |-> temporal'[s].op]
             = [[s \in Roots |-> temporal[s].op] EXCEPT ![r] = NoOp]
        /\ [s \in Roots |-> temporal'[s].live]
             = [[s \in Roots |-> temporal[s].live] EXCEPT ![r] = FALSE]
    BY <1>1, CellChanges DEF Removed, NoCell
  <2> QED BY <1>1, <2>1 DEF Removed, RowLock!Release
<1>2. ASSUME RowLock!Release(o, r) PROVE Removed(o, r) /\ UNCHANGED indefinite
  <2>1. temporal[r].op = o /\ temporal[r].live /\ UNCHANGED indefinite
    BY <1>2 DEF RowLock!Release
  <2>2. temporal[r] = [op |-> o, live |-> TRUE]
    <3>1. /\ temporal[r] = [op |-> temporal[r].op, live |-> temporal[r].live]
          /\ temporal[r].live \in BOOLEAN
      BY CellParts DEF TypeOK
    <3>2. temporal[r].live = TRUE
      BY <2>1, <3>1
    <3> QED BY <2>1, <3>1, <3>2, Zenon
  <2>3. temporal' = [temporal EXCEPT ![r] = NoCell]
    BY <1>2, PartsDecide DEF RowLock!Release, NoCell
  <2> QED BY <2>1, <2>2, <2>3 DEF Removed
<1> QED BY <1>1, <1>2

LEMMA IndefiniteGrantIsAcquire ==
    ASSUME TypeOK, TypeOK', NEW o \in Ops, NEW r \in Roots
    PROVE  GrantedIndefinitely(o, r) /\ UNCHANGED temporal <=> RowLock!AcquireIndefinite(o, r)
BY PartsStay DEF GrantedIndefinitely, RowLock!AcquireIndefinite

\* The indefinite cell is removed.
RemovedIndefinite(o, r) ==
    /\ indefinite[r] = o
    /\ indefinite' = [indefinite EXCEPT ![r] = NoOp]

LEMMA IndefiniteRemovalIsRelease ==
    ASSUME TypeOK, TypeOK', NEW o \in Ops, NEW r \in Roots
    PROVE  RemovedIndefinite(o, r) /\ UNCHANGED temporal <=> RowLock!ReleaseIndefinite(o, r)
BY PartsStay DEF RemovedIndefinite, RowLock!ReleaseIndefinite

\* What RowLocks lets an operation do to a row is what one of its requests may do, no
\* more and no less: a lock granted, renewed or removed, temporal or indefinite.
THEOREM RequestsAreLockSteps ==
    ASSUME TypeOK, TypeOK', NEW o \in Ops, NEW r \in Roots
    PROVE  /\ RowLock!Acquire(o, r) <=> Granted(o, r) /\ UNCHANGED indefinite
           /\ RowLock!Extend(o, r) <=> Renewed(o, r) /\ UNCHANGED indefinite
           /\ RowLock!Release(o, r) <=> Removed(o, r) /\ UNCHANGED indefinite
           /\ RowLock!AcquireIndefinite(o, r) <=> GrantedIndefinitely(o, r) /\ UNCHANGED temporal
           /\ RowLock!ReleaseIndefinite(o, r) <=> RemovedIndefinite(o, r) /\ UNCHANGED temporal
BY GrantIsAcquire, RenewalIsExtend, RemovalIsRelease, IndefiniteGrantIsAcquire,
   IndefiniteRemovalIsRelease

LEMMA RowSteps ==
    ASSUME TypeOK, TypeOK', NEW o \in Ops, NEW r \in Roots,
           \/ UNCHANGED indefinite /\ (Granted(o, r) \/ Renewed(o, r) \/ Unlock(o, r))
           \/ UNCHANGED temporal /\ (GrantedIndefinitely(o, r) \/ UnlockIndefinitely(o, r))
           \/ UNCHANGED locks
    PROVE  [RowLock!Next]_(RowLock!vars)
<1>1. CASE UNCHANGED locks
  BY <1>1, CellsStay
<1>2. CASE UNCHANGED indefinite /\ (Granted(o, r) \/ Renewed(o, r) \/ Removed(o, r))
  BY <1>2, GrantIsAcquire, RenewalIsExtend, RemovalIsRelease DEF RowLock!Next
<1>3. CASE UNCHANGED temporal /\ (GrantedIndefinitely(o, r) \/ RemovedIndefinite(o, r))
  BY <1>3, IndefiniteGrantIsAcquire, IndefiniteRemovalIsRelease DEF RowLock!Next
<1>4. Unlock(o, r) => Removed(o, r) \/ UNCHANGED temporal
  BY DEF Unlock, Removed
<1>5. UnlockIndefinitely(o, r) => RemovedIndefinite(o, r) \/ UNCHANGED indefinite
  BY DEF UnlockIndefinitely, RemovedIndefinite
<1> QED BY <1>1, <1>2, <1>3, <1>4, <1>5 DEF locks

LEMMA RunsOut ==
    ASSUME TypeOK, NEW r \in Roots, Expire(r)
    PROVE  RowLock!Next
<1>1. \A s \in Roots : s # r => temporal'[s] = temporal[s]
  BY DEF TypeOK, Expire
<1>2. temporal'[r].op = temporal[r].op /\ temporal'[r].live = FALSE
  <2>1. temporal[r] \in Cell
    BY DEF TypeOK, Expire, NoCell
  <2>2. PICK p \in Ops, live \in BOOLEAN : temporal[r] = [op |-> p, live |-> live]
    BY <2>1 DEF Cell
  <2>3. temporal'[r] = [temporal[r] EXCEPT !.live = FALSE]
    BY DEF TypeOK, Expire
  <2> QED BY <2>2, <2>3
<1>3. \A s \in Roots : temporal[s].live \in BOOLEAN
  <2> SUFFICES ASSUME NEW s \in Roots PROVE temporal[s].live \in BOOLEAN
    OBVIOUS
  <2>1. CASE temporal[s] \in Cell
    BY <2>1 DEF Cell
  <2>2. CASE temporal[s] = NoCell
    BY <2>2 DEF NoCell
  <2> QED BY <2>1, <2>2 DEF TypeOK
<1>4. \A s \in Roots : /\ temporal'[s].op = temporal[s].op
                       /\ temporal'[s].live = (temporal[s].live /\ s \notin {r})
  BY <1>1, <1>2, <1>3, Zenon
<1>5. [s \in Roots |-> temporal'[s].op] = [s \in Roots |-> temporal[s].op]
  BY <1>4, Zenon
<1>6. [s \in Roots |-> temporal'[s].live]
        = [s \in Roots |-> [q \in Roots |-> temporal[q].live][s] /\ s \notin {r}]
  BY <1>4, Zenon
<1>7. RowLock!Expire({r})
  BY <1>5, <1>6, Zenon DEF Expire, RowLock!Expire
<1> QED BY <1>7 DEF RowLock!Next

\* The calls' steps that send no request leave the rows alone.
LEMMA RequestFree ==
    ASSUME NEW o \in Ops,
           \/ \E future \in FutureMaps : \E roots \in RootSets :
                 lock_roots(o, roots, future) \/ lock_roots_indefinitely(o, roots, future)
           \/ \E roots \in RootSets : write(o, roots)
           \/ EndLock(o) \/ NextTry(o) \/ EndRenew(o) \/ write_rows(o)
           \/ EndLockIndefinitely(o) \/ EndUnlockIndefinitely(o) \/ Crash(o)
    PROVE  UNCHANGED locks
BY DEF lock_roots, lock_roots_indefinitely, write, EndLock, NextTry, EndRenew, write_rows,
       EndLockIndefinitely, EndUnlockIndefinitely, Crash, locks

LEMMA RowLockNext ==
    ASSUME TypeOK, TypeOK', [Next]_vars
    PROVE  [RowLock!Next]_(RowLock!vars)
<1>1. ASSUME NEW o \in Ops, NEW r \in Roots,
             \/ lock_root(o, r) \/ renew_lock(o, r) \/ unlock_root(o, r) \/ Release(o, r)
      PROVE  [RowLock!Next]_(RowLock!vars)
  <2>1. UNCHANGED indefinite
    BY <1>1 DEF lock_root, renew_lock, unlock_root, Release, Unlock
  <2>2. Granted(o, r) \/ Renewed(o, r) \/ Unlock(o, r) \/ UNCHANGED temporal
    BY <1>1, Zenon DEF lock_root, renew_lock, unlock_root, Release
  <2> QED BY <2>1, <2>2, RowSteps DEF locks
<1>2. ASSUME NEW o \in Ops, NEW r \in Roots,
             \/ lock_root_indefinitely(o, r) \/ unlock_indefinitely_locked_root(o, r)
             \/ ReleaseIndefinite(o, r)
      PROVE  [RowLock!Next]_(RowLock!vars)
  <2>1. UNCHANGED temporal
    BY <1>2 DEF lock_root_indefinitely, unlock_indefinitely_locked_root, ReleaseIndefinite,
                UnlockIndefinitely
  <2>2. GrantedIndefinitely(o, r) \/ UnlockIndefinitely(o, r) \/ UNCHANGED indefinite
    BY <1>2, Zenon DEF lock_root_indefinitely, unlock_indefinitely_locked_root, ReleaseIndefinite
  <2> QED BY <2>1, <2>2, RowSteps DEF locks
<1>3. CASE UNCHANGED locks
  BY <1>3, CellsStay
<1>4. CASE UNCHANGED vars
  BY <1>3, <1>4 DEF vars
<1> QED BY <1>1, <1>2, <1>3, <1>4, RequestFree, RunsOut DEF Next, Start, Progress

\* Whatever the threads of the calls do, what they leave on the rows is what RowLocks
\* allows: each request is one step of it, for its own operation and one root; that
\* a call is about several roots adds no step and takes none away.
THEOREM LocksAreRowLocks == Spec => ImplementsRowLocks
<1>1. Init => RowLock!Init
  BY DEF Init, RowLock!Init, NoCell
<1>2. TypeOK /\ TypeOK' /\ [Next]_vars => [RowLock!Next]_(RowLock!vars)
  BY RowLockNext
<1> QED BY <1>1, <1>2, TypeCorrect, PTL DEF Spec, ImplementsRowLocks, RowLock!Spec
=============================================================================
