--------------------------- MODULE LockFileProofs ---------------------------
(***************************************************************************)
(* Proofs about the lock protocol for any set of processes, any number of  *)
(* faults, and with or without reuse of recorded process numbers.          *)
(***************************************************************************)
EXTENDS LockFile, TLAPS

\* Every initial state satisfies the inductive invariant.
LEMMA InitInv == Init => LockInv
  BY LockFileAssumption DEF Init, LockInv, TypeOK, OwnersAreRecorded,
     RemoversJudgedTheDead, Owning, PC

\* A step of the protocol preserves the inductive invariant.
LEMMA StepInv == LockInv /\ [Next]_vars => LockInv'
  <1> SUFFICES ASSUME LockInv, [Next]_vars PROVE LockInv'
    OBVIOUS
  <1> USE LockFileAssumption
  <1> USE DEF LockInv, TypeOK, PC, OwnersAreRecorded, RemoversJudgedTheDead,
              Owning, Alive, Losers, Goto, Forget, files, lock_owner_pid
  <1>1. ASSUME NEW p \in Proc, Begin(p) PROVE LockInv'
    BY <1>1 DEF Begin
  <1>2. ASSUME NEW p \in Proc, Link(p, "link", "verify", "owner") PROVE LockInv'
    BY <1>2 DEF Link
  <1>3. ASSUME NEW p \in Proc, Verify(p, "verify", "owner") PROVE LockInv'
    BY <1>3 DEF Verify
  <1>4. ASSUME NEW p \in Proc, ReadOwner(p) PROVE LockInv'
    BY <1>4 DEF ReadOwner
  <1>5. ASSUME NEW p \in Proc, CheckOwner(p) PROVE LockInv'
    BY <1>5 DEF CheckOwner
  <1>6. ASSUME NEW p \in Proc, ReadGuard(p) PROVE LockInv'
    BY <1>6 DEF ReadGuard
  <1>7. ASSUME NEW p \in Proc, CheckGuard(p) PROVE LockInv'
    BY <1>7 DEF CheckGuard
  <1>8. ASSUME NEW p \in Proc, RemoveGuard(p) PROVE LockInv'
    BY <1>8 DEF RemoveGuard
  <1>9. ASSUME NEW p \in Proc, LinkGuard(p) PROVE LockInv'
    BY <1>9 DEF LinkGuard
  <1>10. ASSUME NEW p \in Proc, VerifyGuard(p) PROVE LockInv'
    BY <1>10 DEF VerifyGuard
  <1>11. ASSUME NEW p \in Proc, ReadOwnerGuarded(p) PROVE LockInv'
    BY <1>11 DEF ReadOwnerGuarded
  <1>12. ASSUME NEW p \in Proc, CheckOwnerGuarded(p) PROVE LockInv'
    BY <1>12 DEF CheckOwnerGuarded
  <1>13. ASSUME NEW p \in Proc, Remove(p) PROVE LockInv'
    BY <1>13 DEF Remove
  <1>14. ASSUME NEW p \in Proc, RemoveDir(p) PROVE LockInv'
    BY <1>14 DEF RemoveDir
  <1>15. ASSUME NEW p \in Proc, Unguard(p) PROVE LockInv'
    BY <1>15 DEF Unguard
  <1>16. ASSUME NEW p \in Proc, Link(p, "relink", "reverify", "idle") PROVE LockInv'
    BY <1>16 DEF Link
  <1>17. ASSUME NEW p \in Proc, Verify(p, "reverify", "idle") PROVE LockInv'
    BY <1>17 DEF Verify
  <1>18. ASSUME NEW p \in Proc, Release(p) PROVE LockInv'
    BY <1>18 DEF Release
  <1>19. ASSUME NEW p \in Proc, LegacyRelease(p) PROVE LockInv'
    BY <1>19 DEF LegacyRelease
  <1>20. ASSUME NEW p \in Proc, Die(p) PROVE LockInv'
    BY <1>20 DEF Die
  <1>21. ASSUME NEW p \in Proc, Spawn(p) PROVE LockInv'
    BY <1>21 DEF Spawn
  <1>22. ASSUME NEW p \in Proc, CannotWrite(p) PROVE LockInv'
    BY <1>22 DEF CannotWrite
  <1>23. ASSUME NEW p \in Proc, IsDir(p) \/ RemovePid(p) PROVE LockInv'
    BY <1>23 DEF IsDir, RemovePid
  <1>24. CASE UNCHANGED vars
    BY <1>24 DEF vars
  <1>25. QED
    BY <1>1, <1>2, <1>3, <1>4, <1>5, <1>6, <1>7, <1>8, <1>9, <1>10, <1>11,
       <1>12, <1>13, <1>14, <1>15, <1>16, <1>17, <1>18, <1>19, <1>20, <1>21,
       <1>22, <1>23, <1>24 DEF Next, Acquire

\* The inductive invariant holds always.
LEMMA LockInvariant == Spec => []LockInv
  BY InitInv, StepInv, PTL DEF Spec

\* A lock file names a process or nobody, and every contender is at one of the
\* calls of lock_try_acquire_or_reclaim, whatever dies or cannot be written.
THEOREM TypeCorrect == Spec => []TypeOK
  BY LockInvariant, PTL DEF LockInv

\* Whatever the number of contenders and faults, two simultaneous owners imply
\* that one of them had its lock file removed by another process
\* (lock_reclaim_if_stale or lock_release); `ln' never admits a second owner.
THEOREM ExclusionUnlessEviction == Spec => []ExclusiveUnlessEvicted
  <1>1. LockInv => ExclusiveUnlessEvicted
    BY DEF LockInv, ExclusiveUnlessEvicted, OwnersAreRecorded, Owning
  <1>2. QED
    BY <1>1, LockInvariant, PTL

\* A live owner is only ever evicted by a reclaimer whose observation named
\* another process or nobody, or by the release of an already evicted owner.
THEOREM EvictionIsStale == Spec => EvictionNeedsStaleObservation
  <1> DEFINE Evicting == \A p \in evicted' \ evicted :
                            \E q \in Proc : \/ pc[q] = "remove" /\ seen[q] # p
                                            \/ pc[q] = "held" /\ q \in evicted
  <1>1. LockInv /\ [Next]_vars => [Evicting]_vars
    <2> SUFFICES ASSUME LockInv, Next, NEW p \in evicted', p \notin evicted
                 PROVE \E q \in Proc : \/ pc[q] = "remove" /\ seen[q] # p
                                       \/ pc[q] = "held" /\ q \in evicted
      BY DEF vars
    <2>0. PICK q \in Proc : Remove(q) \/ Release(q)
      BY DEF Next, Acquire, Begin, Link, Verify, ReadOwner, CheckOwner,
         ReadGuard, CheckGuard, RemoveGuard, LinkGuard, VerifyGuard,
         ReadOwnerGuarded, CheckOwnerGuarded, IsDir, RemovePid, RemoveDir, Unguard,
         LegacyRelease, CannotWrite, Die, Spawn
    <2>1. p \in Losers(q)
      BY <2>0 DEF Remove, Release
    <2>2. p \in Proc \ {q} /\ Owning(p) /\ lockPid = p
      BY <2>1 DEF Losers
    <2>3. CASE Remove(q)
      <3>1. ~Alive(seen[q])
        BY <2>3 DEF Remove, LockInv, RemoversJudgedTheDead
      <3>2. Alive(p)
        BY <2>2 DEF Alive, Owning
      <3>3. QED
        BY <2>3, <3>1, <3>2 DEF Remove
    <2>4. CASE Release(q)
      <3>1. q \in evicted
        BY <2>2, <2>4 DEF Release, LockInv, OwnersAreRecorded, Owning
      <3>2. QED
        BY <2>4, <3>1 DEF Release
    <2>5. QED
      BY <2>0, <2>3, <2>4
  <1>2. QED
    BY <1>1, LockInvariant, PTL DEF Spec, EvictionNeedsStaleObservation
=============================================================================
