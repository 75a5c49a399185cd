------------------------------ MODULE LockFile ------------------------------
(***************************************************************************)
(* The file-lock protocol every package of the suite implements: a regular *)
(* file whose first line is the owner's PID, published by `ln', with a     *)
(* second file `<lock>.reclaim' that serialises the removal of a lock left *)
(* by a dead owner.  Every action below is one file-system or kill(2) call *)
(* of the shell code, so contenders interleave exactly where they really   *)
(* can.  SIGKILL may strike a process at any point, and a process number   *)
(* may be given to a new process.                                          *)
(***************************************************************************)
EXTENDS Naturals

CONSTANTS
    Proc,      \* process numbers that may contend for the lock
    NoPid,     \* "no PID": the file is absent, or holds no usable number
    ReuseRecorded, \* may a new process get a number some lock file still records?
    MaxFaults  \* bound on deaths and failed writes in a behaviour

ASSUME LockFileAssumption ==
    /\ NoPid \notin Proc
    /\ ReuseRecorded \in BOOLEAN
    /\ MaxFaults \in Nat

VARIABLES
    lockKind,  \* "none", "file", or "dir" (the 0.10.0 representation)
    lockPid,   \* the owner recorded in the lock
    guard,     \* the owner recorded in <lock>.reclaim, NoPid when absent
    pc,        \* where each process is in lock_try_acquire_or_reclaim
    seen,      \* the PID a process last read from a lock or guard file
    reclaimed, \* reclaim_result = 0: the process removed the old lock
    evicted,   \* history: owners whose lock file another process removed
    faults     \* deaths and failed writes so far

vars == <<lockKind, lockPid, guard, pc, seen, reclaimed, evicted, faults>>

files == <<lockKind, lockPid, guard>>

PC == {"dead", "legacy", "idle", "link", "verify", "owner", "kill0",
       "guardRead", "guardKill0", "guardRemove", "guardLink", "guardVerify",
       "ownerRead", "ownerKill0", "isDir", "rmPid", "rmdir", "remove", "unguard",
       "relink", "reverify", "held"}

\* process_is_alive: kill -0 succeeds.
Alive(p) == p \in Proc /\ pc[p] # "dead"

\* p has linked its file and not yet been refused or released.
Owning(p) == pc[p] \in {"verify", "reverify", "held"}

\* Owners that lose their file when process q removes it.
Losers(q) == {p \in Proc \ {q} : Owning(p) /\ lockKind = "file" /\ lockPid = p}

Init ==
    /\ guard = NoPid
    /\ seen = [p \in Proc |-> NoPid]
    /\ reclaimed = [p \in Proc |-> FALSE]
    /\ evicted = {}
    /\ faults = 0
    /\ \/ /\ lockKind = "none"
          /\ lockPid = NoPid
          /\ pc = [p \in Proc |-> "idle"]
       \* An owner that was killed before this boot of the model.
       \/ \E d \in Proc :
            /\ lockKind \in {"file", "dir"}
            /\ lockPid = d
            /\ pc = [p \in Proc |-> IF p = d THEN "dead" ELSE "idle"]
       \* A 0.10.0 process still holding its directory lock across the upgrade.
       \/ \E d \in Proc :
            /\ lockKind = "dir"
            /\ lockPid = d
            /\ pc = [p \in Proc |-> IF p = d THEN "legacy" ELSE "idle"]
-----------------------------------------------------------------------------
(* Mutated forms: plausible mistakes in the protocol, one per property.    *)

\* lock_owner_pid passing an absent file's owner on as PID 0.
OwnerUnchecked == IF lockKind = "none" THEN 0 ELSE lockPid

\* `mv -f' in place of `ln': publication that overwrites.
LinkOverwrites(p, from, ok, refused) ==
    /\ pc[p] = from
    /\ lockKind' = "file"
    /\ lockPid' = p
    /\ pc' = [pc EXCEPT ![p] = ok]
    /\ UNCHANGED <<guard, seen, reclaimed, evicted, faults>>

\* Removal under the guard without judging the owner again.
TrustFirstLook(p) ==
    /\ pc[p] = "ownerKill0"
    /\ pc' = [pc EXCEPT ![p] = "isDir"]
    /\ UNCHANGED <<files, seen, reclaimed, evicted, faults>>

\* A dead reclaimer's guard is never removed.
RespectAnyGuard(p) ==
    /\ pc[p] = "guardKill0"
    /\ pc' = [pc EXCEPT ![p] = "guardLink"]
    /\ seen' = [seen EXCEPT ![p] = NoPid]
    /\ UNCHANGED <<files, reclaimed, evicted, faults>>
-----------------------------------------------------------------------------
Goto(p, l) == pc' = [pc EXCEPT ![p] = l]

\* The shell variable holding the PID is not read again.
Forget(p) == seen' = [seen EXCEPT ![p] = NoPid]

\* lock_owner_pid: the recorded number; an absent or malformed file has none.
lock_owner_pid == lockPid

\* The caller starts lock_try_acquire_or_reclaim.
Begin(p) ==
    /\ pc[p] = "idle"
    /\ Goto(p, "link")
    /\ UNCHANGED <<files, seen, reclaimed, evicted, faults>>

\* lock_try_acquire: the directory test, then `ln tmp lock'.
Link(p, from, ok, refused) ==
    /\ pc[p] = from
    /\ IF lockKind = "none"
         THEN /\ lockKind' = "file"
              /\ lockPid' = p
              /\ Goto(p, ok)
         ELSE /\ Goto(p, refused)
              /\ UNCHANGED <<lockKind, lockPid>>
    /\ UNCHANGED <<guard, seen, reclaimed, evicted, faults>>

\* lock_try_acquire: the file must still record this process.
Verify(p, from, refused) ==
    /\ pc[p] = from
    /\ IF lockKind = "file" /\ lockPid = p
         THEN Goto(p, "held") /\ UNCHANGED evicted
         ELSE Goto(p, refused) /\ evicted' = evicted \ {p}
    /\ UNCHANGED <<files, seen, reclaimed, faults>>

\* attempt_owner="$(lock_owner_pid ...)".
ReadOwner(p) ==
    /\ pc[p] = "owner"
    /\ seen' = [seen EXCEPT ![p] = lock_owner_pid]
    /\ Goto(p, "kill0")
    /\ UNCHANGED <<files, reclaimed, evicted, faults>>

\* A live owner ends the attempt with status 3; anything else is reclaimed.
CheckOwner(p) ==
    /\ pc[p] = "kill0"
    /\ Goto(p, IF Alive(seen[p]) THEN "idle" ELSE "guardRead")
    /\ Forget(p)
    /\ UNCHANGED <<files, reclaimed, evicted, faults>>

\* lock_reclaim_if_stale: who holds the reclaim guard?
ReadGuard(p) ==
    /\ pc[p] = "guardRead"
    /\ seen' = [seen EXCEPT ![p] = guard]
    /\ Goto(p, "guardKill0")
    /\ UNCHANGED <<files, reclaimed, evicted, faults>>

CheckGuard(p) ==
    /\ pc[p] = "guardKill0"
    /\ Goto(p, IF seen[p] # NoPid /\ ~Alive(seen[p]) THEN "guardRemove" ELSE "guardLink")
    /\ Forget(p)
    /\ UNCHANGED <<files, reclaimed, evicted, faults>>

\* rm -f "$reclaim_guard": whatever guard is there now.
RemoveGuard(p) ==
    /\ pc[p] = "guardRemove"
    /\ guard' = NoPid
    /\ Goto(p, "guardLink")
    /\ UNCHANGED <<lockKind, lockPid, seen, reclaimed, evicted, faults>>

LinkGuard(p) ==
    /\ pc[p] = "guardLink"
    /\ IF guard = NoPid
         THEN guard' = p /\ Goto(p, "guardVerify")
         ELSE Goto(p, "idle") /\ UNCHANGED guard
    /\ UNCHANGED <<lockKind, lockPid, seen, reclaimed, evicted, faults>>

VerifyGuard(p) ==
    /\ pc[p] = "guardVerify"
    /\ Goto(p, IF guard = p THEN "ownerRead" ELSE "idle")
    /\ UNCHANGED <<files, seen, reclaimed, evicted, faults>>

\* reclaim_owner="$(lock_owner_pid ...)", read again under the guard.
ReadOwnerGuarded(p) ==
    /\ pc[p] = "ownerRead"
    /\ seen' = [seen EXCEPT ![p] = lock_owner_pid]
    /\ Goto(p, "ownerKill0")
    /\ UNCHANGED <<files, reclaimed, evicted, faults>>

CheckOwnerGuarded(p) ==
    /\ pc[p] = "ownerKill0"
    /\ Goto(p, IF Alive(seen[p]) THEN "unguard" ELSE "isDir")
    /\ UNCHANGED <<files, seen, reclaimed, evicted, faults>>

\* elif [ -d "$reclaim_path" ]: the 0.10.0 representation goes in two calls.
IsDir(p) ==
    /\ pc[p] = "isDir"
    /\ Goto(p, IF lockKind = "dir" THEN "rmPid" ELSE "remove")
    /\ UNCHANGED <<files, seen, reclaimed, evicted, faults>>

\* rm -f "$reclaim_path/pid".
RemovePid(p) ==
    /\ pc[p] = "rmPid"
    /\ lockPid' = IF lockKind = "dir" THEN NoPid ELSE lockPid
    /\ Goto(p, "rmdir")
    /\ UNCHANGED <<lockKind, guard, seen, reclaimed, evicted, faults>>

\* rm -f "$reclaim_path": the owner was judged three calls ago; the file removed
\* is the one there now (a directory is not).
Remove(p) ==
    /\ pc[p] = "remove"
    /\ IF lockKind = "dir"
         THEN UNCHANGED <<lockKind, lockPid, reclaimed>>
         ELSE /\ lockKind' = "none"
              /\ lockPid' = NoPid
              /\ reclaimed' = [reclaimed EXCEPT ![p] = TRUE]
    /\ Goto(p, "unguard")
    /\ evicted' = evicted \cup Losers(p)
    /\ UNCHANGED <<guard, seen, faults>>

\* rmdir succeeds only on a directory that is still there, and empty.
RemoveDir(p) ==
    /\ pc[p] = "rmdir"
    /\ lockKind' = IF lockKind = "dir" THEN "none" ELSE lockKind
    /\ reclaimed' = [reclaimed EXCEPT ![p] = lockKind = "dir"]
    /\ Goto(p, "unguard")
    /\ UNCHANGED <<lockPid, guard, seen, evicted, faults>>

\* rm -f "$reclaim_guard", then the second lock_try_acquire or status 3.
Unguard(p) ==
    /\ pc[p] = "unguard"
    /\ guard' = NoPid
    /\ Goto(p, IF reclaimed[p] THEN "relink" ELSE "idle")
    /\ reclaimed' = [reclaimed EXCEPT ![p] = FALSE]
    /\ Forget(p)
    /\ UNCHANGED <<lockKind, lockPid, evicted, faults>>

\* lock_release: rm -f, without looking at the recorded owner.
Release(p) ==
    /\ pc[p] = "held"
    /\ IF lockKind = "file"
         THEN lockKind' = "none" /\ lockPid' = NoPid
         ELSE UNCHANGED <<lockKind, lockPid>>
    /\ evicted' = (evicted \cup Losers(p)) \ {p}
    /\ Goto(p, "idle")
    /\ UNCHANGED <<guard, seen, reclaimed, faults>>

\* A 0.10.0 owner finishes: it removes its own directory.
LegacyRelease(p) ==
    /\ pc[p] = "legacy"
    /\ lockKind = "dir"
    /\ lockKind' = "none"
    /\ lockPid' = NoPid
    /\ Goto(p, "idle")
    /\ UNCHANGED <<guard, seen, reclaimed, evicted, faults>>

\* SIGKILL, or an ordinary exit: whatever files the process left stay.
Die(p) ==
    /\ pc[p] # "dead"
    /\ faults < MaxFaults
    /\ faults' = faults + 1
    /\ evicted' = evicted \ {p}
    /\ Goto(p, "dead")
    /\ Forget(p)
    /\ reclaimed' = [reclaimed EXCEPT ![p] = FALSE]
    /\ UNCHANGED files

\* lock_try_acquire: the temporary file cannot be written (status 1), for the
\* lock or for its guard.
CannotWrite(p) ==
    /\ pc[p] \in {"link", "guardLink", "relink"}
    /\ faults < MaxFaults
    /\ faults' = faults + 1
    /\ Goto(p, "idle")
    /\ UNCHANGED <<files, seen, reclaimed, evicted>>

\* A new process is given the number p.  Numbers are handed out in order, so
\* one comes round again long after a contender's short-lived observation of
\* it, though a lock or guard file may still record it (ReuseRecorded).
Spawn(p) ==
    /\ pc[p] = "dead"
    /\ ReuseRecorded \/ p \notin {lockPid, guard}
    /\ \A q \in Proc : seen[q] # p
    /\ Goto(p, "idle")
    /\ UNCHANGED <<files, seen, reclaimed, evicted, faults>>

Acquire(p) ==
    \/ Begin(p)
    \/ Link(p, "link", "verify", "owner") \/ Verify(p, "verify", "owner")
    \/ ReadOwner(p) \/ CheckOwner(p)
    \/ ReadGuard(p) \/ CheckGuard(p) \/ RemoveGuard(p)
    \/ LinkGuard(p) \/ VerifyGuard(p)
    \/ ReadOwnerGuarded(p) \/ CheckOwnerGuarded(p)
    \/ IsDir(p) \/ RemovePid(p) \/ RemoveDir(p) \/ Remove(p) \/ Unguard(p)
    \/ Link(p, "relink", "reverify", "idle") \/ Verify(p, "reverify", "idle")

Next == \E p \in Proc :
    Acquire(p) \/ Release(p) \/ LegacyRelease(p) \/ CannotWrite(p) \/ Die(p) \/ Spawn(p)

Spec == Init /\ [][Next]_vars

\* Running processes keep running, callers retry (lock_acquire_waiting, the
\* boot service) and an owner finishes its bounded operation.
Fairness == \A p \in Proc : WF_vars(Acquire(p)) /\ WF_vars(Release(p))

FairSpec == Spec /\ Fairness
-----------------------------------------------------------------------------
(* Properties *)

TypeOK ==
    /\ lockKind \in {"none", "file", "dir"}
    /\ lockPid \in Proc \cup {NoPid}
    /\ guard \in Proc \cup {NoPid}
    /\ pc \in [Proc -> PC]
    /\ seen \in [Proc -> Proc \cup {NoPid}]
    /\ reclaimed \in [Proc -> BOOLEAN]
    /\ evicted \subseteq Proc
    /\ faults \in 0..MaxFaults

\* Two simultaneous owners are only ever the result of one of them having had
\* its file removed by another process; publication by `ln' alone never lets
\* a second owner in.
ExclusiveUnlessEvicted ==
    \A p, q \in Proc :
        pc[p] = "held" /\ pc[q] = "held" /\ p # q => p \in evicted \/ q \in evicted

\* A live owner loses its file only to a reclaimer acting on an observation
\* that named someone else (or nobody), or to the release of an owner that had
\* itself been evicted before: judging an owner dead never harms that owner.
EvictionNeedsStaleObservation ==
    [][\A p \in evicted' \ evicted :
          \E q \in Proc : \/ pc[q] = "remove" /\ seen[q] # p
                          \/ pc[q] = "held" /\ q \in evicted]_vars

\* What makes it inductive: an owner not evicted is the one recorded, and a
\* reclaimer about to remove the lock judged a PID that is no live process.
OwnersAreRecorded ==
    \A p \in Proc : Owning(p) /\ p \notin evicted => lockKind = "file" /\ lockPid = p

RemoversJudgedTheDead == \A q \in Proc : pc[q] \in {"isDir", "remove"} => ~Alive(seen[q])

LockInv == TypeOK /\ OwnersAreRecorded /\ RemoversJudgedTheDead

\* A lock whose recorded owner is dead does not stay recorded for ever, even
\* when reclaimers die at any point of the protocol, the guard included.  It
\* is checked without reuse of recorded numbers: kill -0 cannot tell a new
\* process from the dead owner whose number it was given.
StaleLockIsReclaimed ==
    \A p \in Proc :
        (lockPid = p /\ ~Alive(p)) ~> (lockPid # p \/ Alive(p))
=============================================================================
