-------------------------- MODULE ApnEngineProofs ---------------------------
(***************************************************************************)
(* Proofs about the engine's operations, for any processes, SIMs, database *)
(* and backend, and with any number of interruptions.                      *)
(*                                                                         *)
(* Typed says what a process's position and variables must be, Keeps what  *)
(* most steps leave alone of them.  A step that is Quiet moves one process *)
(* along its script under those two and touches neither the section, the   *)
(* baseline nor the lock; the few steps that are not are treated one by    *)
(* one.                                                                    *)
(***************************************************************************)
EXTENDS ApnEngine, SequenceTheorems, TLAPS

Status == {0, 1, 2, 3, 143}

Typed(l, r) == l \in PC /\ r \in Locals /\ LocalOK(l, r)

Keeps(r, s) ==
    s.locked = r.locked /\ s.borrowed = r.borrowed /\ s.rollback = r.rollback

\* From position k to position l without leaving a protected stretch.
Follows(k, l) ==
    /\ k # "idle" /\ l # "idle"
    /\ l \notin BeforeLock \cup Exiting => k \notin BeforeLock \cup Exiting
    /\ k \in Trial \cup Exiting => l \in Trial \cup Exiting
    /\ l \in Trial => k \in Trial
    /\ l \in Restored => k \in Restored

\* The step moves p to a typed position; and it does so quietly.
Moves(p, l, r) == To(p, l, r) /\ Typed(l, r)

Quiet(p) ==
    /\ \E l, r : Moves(p, l, r) /\ Keeps(loc[p], r) /\ Follows(pc[p], l)
    /\ UNCHANGED <<cfg, baseline, origin, lock, coord, child>>
    /\ UNCHANGED <<hist.orphaned, hist.disturbed>>
    /\ StoreOK'
-----------------------------------------------------------------------------
(* Positions and variables *)

\* A typed state gives every process a position its variables allow.
LEMMA TypedNow ==
    ASSUME TypeOK, NEW p \in Proc
    PROVE  Typed(pc[p], loc[p])
  BY DEF Typed, TypeOK

\* A process that moves to an allowed position leaves the others where they are.
LEMMA TypedMove ==
    ASSUME TypeOK, NEW p \in Proc, NEW l, NEW r, Moves(p, l, r)
    PROVE  /\ pc' \in [Proc -> PC] /\ loc' \in [Proc -> Locals]
           /\ \A q \in Proc : LocalOK(pc'[q], loc'[q])
           /\ pc'[p] = l /\ loc'[p] = r
           /\ \A q \in Proc \ {p} : pc'[q] = pc[q] /\ loc'[q] = loc[q]
  <1>1. /\ pc \in [Proc -> PC] /\ loc \in [Proc -> Locals]
        /\ \A q \in Proc : LocalOK(pc[q], loc[q])
    BY DEF TypeOK
  <1>2. pc' \in [Proc -> PC] /\ loc' \in [Proc -> Locals]
    BY <1>1 DEF Moves, To, Typed
  <1>3. pc'[p] = l /\ loc'[p] = r /\ \A q \in Proc \ {p} : pc'[q] = pc[q] /\ loc'[q] = loc[q]
    BY <1>1 DEF Moves, To
  <1>4. QED
    BY <1>1, <1>2, <1>3 DEF Moves, Typed

\* Moving on with the same variables.
LEMMA TypedGo ==
    ASSUME NEW l, NEW r, Typed(l, r), NEW m \in PC,
           m \in Applying \cup {"readSim", "lock"} => l \in Applying /\ m \in Applying
    PROVE  Typed(m, r) /\ Keeps(r, r)
  BY DEF Typed, Keeps, LocalOK, PC, Applying, Trial

\* Moving on with other variables than the ones a position depends on.
LEMMA TypedAs ==
    ASSUME NEW l, NEW r, Typed(l, r), NEW m \in PC,
           m \in Applying \cup {"readSim", "lock"} => l \in Applying /\ m \in Applying,
           NEW t \in Locals, Keeps(r, t),
           t.cmd = r.cmd, t.arg = r.arg, t.iccid = r.iccid, t.old = r.old
    PROVE  Typed(m, t) /\ Keeps(r, t)
  <1>1. LocalOK(m, t)
    BY DEF Typed, Keeps, LocalOK, PC, Applying, Trial
  <1>2. QED
    BY <1>1 DEF Typed

\* The turns that are left of a wait.
LEMMA TypedCount ==
    ASSUME NEW l, NEW r, Typed(l, r), NEW m \in PC, NEW n \in Nat,
           m \in Applying \cup {"readSim", "lock"} => l \in Applying /\ m \in Applying,
           NEW t, t = [r EXCEPT !.remaining = n]
    PROVE  Typed(m, t) /\ Keeps(r, t)
  <1>1. r \in Locals
    BY DEF Typed
  <1>2. t \in Locals
    BY <1>1, ZenonT(60) DEF Locals
  <1>3. /\ t.cmd = r.cmd /\ t.arg = r.arg /\ t.iccid = r.iccid /\ t.old = r.old
        /\ Keeps(r, t)
    BY <1>1 DEF Locals, Keeps
  <1>4. QED
    BY <1>2, <1>3, TypedAs

\* Registration and one more variable.
LEMMA TypedPending ==
    ASSUME NEW r, Typed("preflight", r), NEW g \in Registration, NEW b \in BOOLEAN,
           NEW t, t = [r EXCEPT !.reg = g, !.started = b]
    PROVE  Typed("turn", t) /\ Keeps(r, t)
  <1>1. r \in Locals
    BY DEF Typed
  <1>2. t \in Locals
    <2>1. [r EXCEPT !.reg = g] \in Locals
      BY <1>1, ZenonT(60) DEF Locals
    <2>2. [[r EXCEPT !.reg = g] EXCEPT !.started = b] \in Locals
      BY <2>1, ZenonT(60) DEF Locals
    <2>3. QED
      BY <2>2
  <1>3. /\ t.cmd = r.cmd /\ t.arg = r.arg /\ t.iccid = r.iccid /\ t.old = r.old
        /\ Keeps(r, t)
    BY <1>1 DEF Locals, Keeps
  <1>4. "turn" \in PC /\ {"turn", "preflight"} \subseteq Applying
    BY DEF PC, Applying
  <1>5. QED
    BY <1>2, <1>3, <1>4, TypedAs

LEMMA TypedBlocked ==
    ASSUME NEW r, Typed("preflight", r), NEW u \in BOOLEAN,
           NEW t, t = [r EXCEPT !.reg = "roaming", !.unstopped = u]
    PROVE  Typed("preflight", t) /\ Keeps(r, t)
  <1>1. r \in Locals
    BY DEF Typed
  <1>2. t \in Locals
    <2>1. [r EXCEPT !.reg = "roaming"] \in Locals
      BY <1>1, ZenonT(60) DEF Locals, Registration
    <2>2. [[r EXCEPT !.reg = "roaming"] EXCEPT !.unstopped = u] \in Locals
      BY <2>1, ZenonT(60) DEF Locals
    <2>3. QED
      BY <2>2
  <1>3. /\ t.cmd = r.cmd /\ t.arg = r.arg /\ t.iccid = r.iccid /\ t.old = r.old
        /\ Keeps(r, t)
    BY <1>1 DEF Locals, Keeps
  <1>4. "preflight" \in PC /\ "preflight" \in Applying
    BY DEF PC, Applying
  <1>5. QED
    BY <1>2, <1>3, <1>4, TypedAs

\* The policy has been read.
LEMMA TypedPolicy ==
    ASSUME NEW r, Typed("policy", r), NEW b \in BOOLEAN, NEW n \in Nat,
           NEW t, t = [r EXCEPT !.allowed = b, !.remaining = n]
    PROVE  Typed("preflight", t) /\ Keeps(r, t)
  <1>1. r \in Locals
    BY DEF Typed
  <1>2. t \in Locals
    <2>1. [r EXCEPT !.allowed = b] \in Locals
      BY <1>1, ZenonT(60) DEF Locals
    <2>2. [[r EXCEPT !.allowed = b] EXCEPT !.remaining = n] \in Locals
      BY <2>1, ZenonT(60) DEF Locals
    <2>3. QED
      BY <2>2
  <1>3. /\ t.cmd = r.cmd /\ t.arg = r.arg /\ t.iccid = r.iccid /\ t.old = r.old
        /\ Keeps(r, t)
    BY <1>1 DEF Locals, Keeps
  <1>4. "preflight" \in PC /\ {"preflight", "policy"} \subseteq Applying
    BY DEF PC, Applying
  <1>5. QED
    BY <1>2, <1>3, <1>4, TypedAs

\* The active record was not written.
LEMMA TypedUnrecorded ==
    ASSUME NEW r, Typed("saveActive", r), NEW t, t = [r EXCEPT !.unrecorded = TRUE]
    PROVE  Typed("success", t) /\ Keeps(r, t)
  <1>1. r \in Locals
    BY DEF Typed
  <1>2. t \in Locals
    BY <1>1, ZenonT(60) DEF Locals
  <1>3. /\ t.cmd = r.cmd /\ t.arg = r.arg /\ t.iccid = r.iccid /\ t.old = r.old
        /\ Keeps(r, t)
    BY <1>1 DEF Locals, Keeps
  <1>4. "success" \in PC /\ {"success", "saveActive"} \subseteq Applying
    BY DEF PC, Applying, Trial
  <1>5. QED
    BY <1>2, <1>3, <1>4, TypedAs

\* on_exit knows whether the interface is down.
LEMMA TypedStopped ==
    ASSUME NEW r, Typed("xDown", r), NEW u \in BOOLEAN, NEW t, t = [r EXCEPT !.unstopped = u]
    PROVE  Typed("xLock", t) /\ Keeps(r, t)
  <1>1. r \in Locals
    BY DEF Typed
  <1>2. t \in Locals
    BY <1>1, ZenonT(60) DEF Locals
  <1>3. /\ t.cmd = r.cmd /\ t.arg = r.arg /\ t.iccid = r.iccid /\ t.old = r.old
        /\ Keeps(r, t)
    BY <1>1 DEF Locals, Keeps
  <1>4. "xLock" \in PC /\ "xLock" \notin Applying \cup {"readSim", "lock"}
    BY DEF PC, Applying, Trial
  <1>5. QED
    BY <1>2, <1>3, <1>4, TypedAs

\* exit: only the status changes.
LEMMA TypedExit ==
    ASSUME NEW l, NEW r, Typed(l, r), NEW c \in Status
    PROVE  Typed("xPower", [r EXCEPT !.status = c]) /\ Keeps(r, [r EXCEPT !.status = c])
  <1>. DEFINE t == [r EXCEPT !.status = c]
  <1>1. r \in Locals /\ l \in PC /\ LocalOK(l, r)
    BY DEF Typed
  <1>2. t \in Locals
    BY <1>1, ZenonT(60) DEF Locals, Status
  <1>3. /\ t.cmd = r.cmd /\ t.arg = r.arg /\ t.iccid = r.iccid
        /\ t.old = r.old /\ t.rollback = r.rollback
        /\ Keeps(r, t)
    BY <1>1 DEF Locals, Keeps
  <1>. HIDE DEF t
  <1>4. LocalOK("xPower", t) /\ "xPower" \in PC
    BY <1>1, <1>3 DEF LocalOK, PC, Applying, Trial
  <1>5. Typed("xPower", t) /\ Keeps(r, t)
    BY <1>2, <1>3, <1>4 DEF Typed
  <1>6. QED
    BY <1>5 DEF t

\* return: to the modem reset that called, or to the exit trap.
LEMMA TypedReturn ==
    ASSUME NEW l, NEW r, Typed(l, r), NEW c \in Status
    PROVE  /\ Typed(IF r.resetting THEN "mrAfter" ELSE "xPower", [r EXCEPT !.status = c])
           /\ Keeps(r, [r EXCEPT !.status = c])
  <1>. DEFINE t == [r EXCEPT !.status = c]
  <1>1. r \in Locals /\ l \in PC /\ LocalOK(l, r)
    BY DEF Typed
  <1>2. t \in Locals
    BY <1>1, ZenonT(60) DEF Locals, Status
  <1>3. /\ t.cmd = r.cmd /\ t.arg = r.arg /\ t.iccid = r.iccid
        /\ t.old = r.old /\ t.rollback = r.rollback
        /\ Keeps(r, t)
    BY <1>1 DEF Locals, Keeps
  <1>. HIDE DEF t
  <1>4. \A m \in {"mrAfter", "xPower"} : LocalOK(m, t) /\ m \in PC
    BY <1>1, <1>3 DEF LocalOK, PC, Applying, Trial
  <1>5. /\ Typed(IF r.resetting THEN "mrAfter" ELSE "xPower", t)
        /\ Keeps(r, t)
    BY <1>2, <1>3, <1>4 DEF Typed
  <1>6. QED
    BY <1>5 DEF t

\* Registration read again.
LEMMA TypedReg ==
    ASSUME NEW l, NEW r, Typed(l, r), NEW g \in Registration
    PROVE  Typed(l, [r EXCEPT !.reg = g]) /\ Keeps(r, [r EXCEPT !.reg = g])
  <1>. DEFINE t == [r EXCEPT !.reg = g]
  <1>1. r \in Locals /\ l \in PC /\ LocalOK(l, r)
    BY DEF Typed
  <1>2. t \in Locals
    BY <1>1, ZenonT(60) DEF Locals
  <1>3. /\ t.cmd = r.cmd /\ t.arg = r.arg /\ t.iccid = r.iccid
        /\ t.old = r.old /\ t.rollback = r.rollback
        /\ Keeps(r, t)
    BY <1>1 DEF Locals, Keeps
  <1>. HIDE DEF t
  <1>4. LocalOK(l, t)
    BY <1>1, <1>3 DEF LocalOK
  <1>5. Typed(l, t) /\ Keeps(r, t)
    BY <1>1, <1>2, <1>3, <1>4 DEF Typed
  <1>6. QED
    BY <1>5 DEF t

\* read_sim learns the identity.
LEMMA TypedReadSim ==
    ASSUME NEW r, Typed("readSim", r), NEW s \in Sim, NEW g \in Registration,
           NEW t, t = [r EXCEPT !.iccid = s, !.reg = g]
    PROVE  Typed("lock", t) /\ Keeps(r, t)
  <1>0. LocalOK("readSim", r)
    BY DEF Typed
  <1>1. r \in Locals
    BY DEF Typed
  <1>2. t \in Locals
    <2>1. [r EXCEPT !.iccid = s] \in Locals
      BY <1>1, ZenonT(60) DEF Locals
    <2>2. [[r EXCEPT !.iccid = s] EXCEPT !.reg = g] \in Locals
      BY <2>1, ZenonT(60) DEF Locals
    <2>3. QED
      BY <2>2
  <1>3. /\ t.cmd = r.cmd /\ t.arg = r.arg /\ t.old = r.old
        /\ t.rollback = r.rollback /\ t.iccid = s
        /\ Keeps(r, t)
    BY <1>1 DEF Locals, Keeps
  <1>4. "lock" \in PC
    BY DEF PC
  <1>5. LocalOK("lock", t)
    BY <1>0, <1>3 DEF LocalOK, Applying, Trial, Applies
  <1>6. QED
    BY <1>2, <1>3, <1>4, <1>5 DEF Typed

\* The preflight is passed.
LEMMA TypedCheck ==
    ASSUME NEW r, Typed("preflight", r), NEW g \in Registration, NEW m \in {"check", "capture"},
           NEW t, t = [r EXCEPT !.reg = g, !.started = FALSE, !.remaining = 0]
    PROVE  Typed(m, t) /\ Keeps(r, t)
  <1>0. LocalOK("preflight", r)
    BY DEF Typed
  <1>1. r \in Locals
    BY DEF Typed
  <1>2. t \in Locals
    <2>1. [r EXCEPT !.reg = g] \in Locals
      BY <1>1, ZenonT(60) DEF Locals
    <2>2. [[r EXCEPT !.reg = g] EXCEPT !.started = FALSE] \in Locals
      BY <2>1, ZenonT(60) DEF Locals
    <2>3. [[[r EXCEPT !.reg = g] EXCEPT !.started = FALSE] EXCEPT !.remaining = 0] \in Locals
      BY <2>2, ZenonT(60) DEF Locals
    <2>4. QED
      BY <2>3
  <1>3. /\ t.cmd = r.cmd /\ t.arg = r.arg /\ t.iccid = r.iccid
        /\ t.old = r.old /\ t.rollback = r.rollback
        /\ Keeps(r, t)
    BY <1>1 DEF Locals, Keeps
  <1>4. m \in PC
    BY DEF PC
  <1>5. LocalOK(m, t)
    BY <1>0, <1>3 DEF LocalOK, Applying, Trial
  <1>6. QED
    BY <1>2, <1>3, <1>4, <1>5 DEF Typed

\* reconcile_cmd goes on as apply_cmd.
LEMMA TypedReapply ==
    ASSUME NEW r, Typed("check", r),
           NEW t, t = [r EXCEPT !.cmd = "apply"]
    PROVE  Typed("readSim", t) /\ Keeps(r, t)
  <1>0. LocalOK("check", r)
    BY DEF Typed
  <1>1. r \in Locals
    BY DEF Typed
  <1>2. t \in Locals
    BY <1>1, ZenonT(60) DEF Locals, Applies
  <1>3. /\ t.arg = r.arg /\ t.iccid = r.iccid /\ t.old = r.old
        /\ t.rollback = r.rollback /\ t.cmd = "apply"
        /\ Keeps(r, t)
    BY <1>1 DEF Locals, Keeps
  <1>4. "readSim" \in PC
    BY DEF PC
  <1>5. LocalOK("readSim", t)
    BY <1>0, <1>3 DEF LocalOK, Applying, Trial, Applies
  <1>6. QED
    BY <1>2, <1>3, <1>4, <1>5 DEF Typed

Turned(r, c, f, q) == [r EXCEPT !.cands = c, !.seen = f, !.plan = q]

\* The next candidate with its plan of attempts.
LEMMA TypedNext ==
    ASSUME NEW r, Typed("candidate", r), NEW f \in SUBSET Profile,
           NEW c \in Seq(Profile), NEW q \in Seq(Profile), NEW m \in {"candidate", "attempt"},
           NEW t, t = Turned(r, c, f, q)
    PROVE  Typed(m, t) /\ Keeps(r, t)
  <1>0. LocalOK("candidate", r)
    BY DEF Typed
  <1>1. r \in Locals
    BY DEF Typed
  <1>2. t \in Locals
    <2>1. [r EXCEPT !.cands = c] \in Locals
      BY <1>1, ZenonT(60) DEF Locals
    <2>2. [[r EXCEPT !.cands = c] EXCEPT !.seen = f] \in Locals
      BY <2>1, ZenonT(60) DEF Locals
    <2>3. [[[r EXCEPT !.cands = c] EXCEPT !.seen = f] EXCEPT !.plan = q] \in Locals
      BY <2>2, ZenonT(60) DEF Locals
    <2>4. QED
      BY <2>3 DEF Turned
  <1>3. /\ t.cmd = r.cmd /\ t.arg = r.arg /\ t.iccid = r.iccid
        /\ t.old = r.old /\ t.rollback = r.rollback
        /\ Keeps(r, t)
    BY <1>1 DEF Locals, Keeps, Turned
  <1>4. m \in PC
    BY DEF PC
  <1>5. LocalOK(m, t)
    BY <1>0, <1>3 DEF LocalOK, Applying, Trial
  <1>6. QED
    BY <1>2, <1>3, <1>4, <1>5 DEF Typed

\* An attempt taken off the plan.
LEMMA TypedAttempt ==
    ASSUME NEW r, Typed("attempt", r), NEW q \in Seq(Profile), NEW f \in Profile,
           NEW t, t = [r EXCEPT !.plan = q, !.cur = f]
    PROVE  Typed("ifdown", t) /\ Keeps(r, t)
  <1>0. LocalOK("attempt", r)
    BY DEF Typed
  <1>1. r \in Locals
    BY DEF Typed
  <1>2. t \in Locals
    <2>1. [r EXCEPT !.plan = q] \in Locals
      BY <1>1, ZenonT(60) DEF Locals
    <2>2. [[r EXCEPT !.plan = q] EXCEPT !.cur = f] \in Locals
      BY <2>1, ZenonT(60) DEF Locals
    <2>3. QED
      BY <2>2
  <1>3. /\ t.cmd = r.cmd /\ t.arg = r.arg /\ t.iccid = r.iccid
        /\ t.old = r.old /\ t.rollback = r.rollback
        /\ Keeps(r, t)
    BY <1>1 DEF Locals, Keeps
  <1>4. "ifdown" \in PC
    BY DEF PC
  <1>5. LocalOK("ifdown", t)
    BY <1>0, <1>3 DEF LocalOK, Applying, Trial, Applies
  <1>6. QED
    BY <1>2, <1>3, <1>4, <1>5 DEF Typed

\* The plan given up.
LEMMA TypedOver ==
    ASSUME NEW r, Typed("attempt", r), NEW q \in Seq(Profile),
           NEW t, t = [r EXCEPT !.plan = q]
    PROVE  Typed("noBearer", t) /\ Keeps(r, t)
  <1>0. LocalOK("attempt", r)
    BY DEF Typed
  <1>1. r \in Locals
    BY DEF Typed
  <1>2. t \in Locals
    BY <1>1, ZenonT(60) DEF Locals
  <1>3. /\ t.cmd = r.cmd /\ t.arg = r.arg /\ t.iccid = r.iccid
        /\ t.old = r.old /\ t.rollback = r.rollback
        /\ Keeps(r, t)
    BY <1>1 DEF Locals, Keeps
  <1>4. "noBearer" \in PC
    BY DEF PC
  <1>5. LocalOK("noBearer", t)
    BY <1>0, <1>3 DEF LocalOK, Applying, Trial, Applies
  <1>6. QED
    BY <1>2, <1>3, <1>4, <1>5 DEF Typed

Rechecked(r, g, b) == [r EXCEPT !.reg = g, !.saw = b]

\* Registration read again after a candidate.
LEMMA TypedRecheck ==
    ASSUME NEW l \in {"noBearer", "bearerUp"}, NEW r, Typed(l, r), NEW g \in Registration,
           NEW b \in BOOLEAN, NEW m \in {"probe", "candidate"},
           NEW t, t = Rechecked(r, g, b)
    PROVE  Typed(m, t) /\ Keeps(r, t)
  <1>0. LocalOK(l, r)
    BY DEF Typed
  <1>1. r \in Locals
    BY DEF Typed
  <1>2. t \in Locals
    <2>1. [r EXCEPT !.reg = g] \in Locals
      BY <1>1, ZenonT(60) DEF Locals
    <2>2. [[r EXCEPT !.reg = g] EXCEPT !.saw = b] \in Locals
      BY <2>1, ZenonT(60) DEF Locals
    <2>3. QED
      BY <2>2 DEF Rechecked
  <1>3. /\ t.cmd = r.cmd /\ t.arg = r.arg /\ t.iccid = r.iccid
        /\ t.old = r.old /\ t.rollback = r.rollback
        /\ Keeps(r, t)
    BY <1>1 DEF Locals, Keeps, Rechecked
  <1>4. m \in PC
    BY DEF PC
  <1>5. LocalOK(m, t)
    BY <1>0, <1>3 DEF LocalOK, Applying, Trial
  <1>6. QED
    BY <1>2, <1>3, <1>4, <1>5 DEF Typed

\* roaming-policy-set has read the interface and the registration.
LEMMA TypedObserve ==
    ASSUME NEW r, Typed("rpSet", r), NEW u \in BOOLEAN, NEW g \in Registration,
           NEW t, t = [r EXCEPT !.wasUp = u, !.reg = g]
    PROVE  Typed("rpWrite", t) /\ Keeps(r, t)
  <1>0. LocalOK("rpSet", r)
    BY DEF Typed
  <1>1. r \in Locals
    BY DEF Typed
  <1>2. t \in Locals
    <2>1. [r EXCEPT !.wasUp = u] \in Locals
      BY <1>1, ZenonT(60) DEF Locals
    <2>2. [[r EXCEPT !.wasUp = u] EXCEPT !.reg = g] \in Locals
      BY <2>1, ZenonT(60) DEF Locals
    <2>3. QED
      BY <2>2
  <1>3. /\ t.cmd = r.cmd /\ t.arg = r.arg /\ t.iccid = r.iccid
        /\ t.old = r.old /\ t.rollback = r.rollback
        /\ Keeps(r, t)
    BY <1>1 DEF Locals, Keeps
  <1>4. "rpWrite" \in PC
    BY DEF PC
  <1>5. LocalOK("rpWrite", t)
    BY <1>0, <1>3 DEF LocalOK, Applying, Trial, Applies
  <1>6. QED
    BY <1>2, <1>3, <1>4, <1>5 DEF Typed

\* roaming-policy-set goes on as a reconcile.
LEMMA TypedEnforce ==
    ASSUME NEW r, Typed("rpWait", r),
           NEW t, t = [r EXCEPT !.cmd = "reconcile", !.remaining = 0]
    PROVE  Typed("readSim", t) /\ Keeps(r, t)
  <1>0. LocalOK("rpWait", r)
    BY DEF Typed
  <1>1. r \in Locals
    BY DEF Typed
  <1>2. t \in Locals
    <2>1. [r EXCEPT !.cmd = "reconcile"] \in Locals
      BY <1>1, ZenonT(60) DEF Locals, Applies
    <2>2. [[r EXCEPT !.cmd = "reconcile"] EXCEPT !.remaining = 0] \in Locals
      BY <2>1, ZenonT(60) DEF Locals
    <2>3. QED
      BY <2>2
  <1>3. /\ t.arg = r.arg /\ t.iccid = r.iccid /\ t.old = r.old
        /\ t.rollback = r.rollback /\ t.cmd = "reconcile"
        /\ Keeps(r, t)
    BY <1>1 DEF Locals, Keeps
  <1>4. "readSim" \in PC
    BY DEF PC
  <1>5. LocalOK("readSim", t)
    BY <1>0, <1>3 DEF LocalOK, Applying, Trial, Applies
  <1>6. QED
    BY <1>2, <1>3, <1>4, <1>5 DEF Typed

\* The modem reset has stopped the interface.
LEMMA TypedDown ==
    ASSUME NEW r, Typed("mrDown", r),
           NEW t, t = [r EXCEPT !.restoreIf = TRUE]
    PROVE  Typed("mrOff", t) /\ Keeps(r, t)
  <1>0. LocalOK("mrDown", r)
    BY DEF Typed
  <1>1. r \in Locals
    BY DEF Typed
  <1>2. t \in Locals
    BY <1>1, ZenonT(60) DEF Locals
  <1>3. /\ t.cmd = r.cmd /\ t.arg = r.arg /\ t.iccid = r.iccid
        /\ t.old = r.old /\ t.rollback = r.rollback
        /\ Keeps(r, t)
    BY <1>1 DEF Locals, Keeps
  <1>4. "mrOff" \in PC
    BY DEF PC
  <1>5. LocalOK("mrOff", t)
    BY <1>0, <1>3 DEF LocalOK, Applying, Trial, Applies
  <1>6. QED
    BY <1>2, <1>3, <1>4, <1>5 DEF Typed

\* Power is off, and its restoration armed.
LEMMA TypedOff ==
    ASSUME NEW r, Typed("mrOff", r),
           NEW t, t = [r EXCEPT !.powerOff = TRUE]
    PROVE  Typed("mrOn", t) /\ Keeps(r, t)
  <1>0. LocalOK("mrOff", r)
    BY DEF Typed
  <1>1. r \in Locals
    BY DEF Typed
  <1>2. t \in Locals
    BY <1>1, ZenonT(60) DEF Locals
  <1>3. /\ t.cmd = r.cmd /\ t.arg = r.arg /\ t.iccid = r.iccid
        /\ t.old = r.old /\ t.rollback = r.rollback
        /\ Keeps(r, t)
    BY <1>1 DEF Locals, Keeps
  <1>4. "mrOn" \in PC
    BY DEF PC
  <1>5. LocalOK("mrOn", t)
    BY <1>0, <1>3 DEF LocalOK, Applying, Trial, Applies
  <1>6. QED
    BY <1>2, <1>3, <1>4, <1>5 DEF Typed

\* Power could not be switched off.
LEMMA TypedOffFailed ==
    ASSUME NEW r, Typed("mrOff", r),
           NEW t, t = [r EXCEPT !.powerOff = TRUE, !.status = 1]
    PROVE  Typed("xPower", t) /\ Keeps(r, t)
  <1>0. LocalOK("mrOff", r)
    BY DEF Typed
  <1>1. r \in Locals
    BY DEF Typed
  <1>2. t \in Locals
    <2>1. [r EXCEPT !.powerOff = TRUE] \in Locals
      BY <1>1, ZenonT(60) DEF Locals
    <2>2. [[r EXCEPT !.powerOff = TRUE] EXCEPT !.status = 1] \in Locals
      BY <2>1, ZenonT(60) DEF Locals
    <2>3. QED
      BY <2>2
  <1>3. /\ t.cmd = r.cmd /\ t.arg = r.arg /\ t.iccid = r.iccid
        /\ t.old = r.old /\ t.rollback = r.rollback
        /\ Keeps(r, t)
    BY <1>1 DEF Locals, Keeps
  <1>4. "xPower" \in PC
    BY DEF PC
  <1>5. LocalOK("xPower", t)
    BY <1>0, <1>3 DEF LocalOK, Applying, Trial, Applies
  <1>6. QED
    BY <1>2, <1>3, <1>4, <1>5 DEF Typed

\* Power is on again.
LEMMA TypedOn ==
    ASSUME NEW r, Typed("mrOn", r), NEW u \in BOOLEAN, NEW n \in Nat,
           NEW t, t = [r EXCEPT !.powerOff = u, !.remaining = n]
    PROVE  Typed("mrWait", t) /\ Keeps(r, t)
  <1>0. LocalOK("mrOn", r)
    BY DEF Typed
  <1>1. r \in Locals
    BY DEF Typed
  <1>2. t \in Locals
    <2>1. [r EXCEPT !.powerOff = u] \in Locals
      BY <1>1, ZenonT(60) DEF Locals
    <2>2. [[r EXCEPT !.powerOff = u] EXCEPT !.remaining = n] \in Locals
      BY <2>1, ZenonT(60) DEF Locals
    <2>3. QED
      BY <2>2
  <1>3. /\ t.cmd = r.cmd /\ t.arg = r.arg /\ t.iccid = r.iccid
        /\ t.old = r.old /\ t.rollback = r.rollback
        /\ Keeps(r, t)
    BY <1>1 DEF Locals, Keeps
  <1>4. "mrWait" \in PC
    BY DEF PC
  <1>5. LocalOK("mrWait", t)
    BY <1>0, <1>3 DEF LocalOK, Applying, Trial, Applies
  <1>6. QED
    BY <1>2, <1>3, <1>4, <1>5 DEF Typed

Resumed(r) == [r EXCEPT !.cmd = "reconcile", !.resetting = TRUE, !.remaining = 0]

\* The modem is back: the reset goes on as a reconcile,
LEMMA TypedReturned ==
    ASSUME NEW l \in {"mrWait", "mrData"}, NEW r, Typed(l, r), NEW t, t = Resumed(r)
    PROVE  Typed("readSim", t) /\ Keeps(r, t)
  <1>0. LocalOK(l, r)
    BY DEF Typed
  <1>1. r \in Locals
    BY DEF Typed
  <1>2. t \in Locals
    <2>1. [r EXCEPT !.cmd = "reconcile"] \in Locals
      BY <1>1, ZenonT(60) DEF Locals, Applies
    <2>2. [[r EXCEPT !.cmd = "reconcile"] EXCEPT !.resetting = TRUE] \in Locals
      BY <2>1, ZenonT(60) DEF Locals
    <2>3. [[[r EXCEPT !.cmd = "reconcile"] EXCEPT !.resetting = TRUE]
             EXCEPT !.remaining = 0] \in Locals
      BY <2>2, ZenonT(60) DEF Locals
    <2>4. QED
      BY <2>3 DEF Resumed
  <1>3. /\ t.arg = r.arg /\ t.iccid = r.iccid /\ t.old = r.old
        /\ t.rollback = r.rollback /\ t.cmd = "reconcile"
        /\ Keeps(r, t)
    BY <1>1 DEF Locals, Keeps, Resumed
  <1>4. "readSim" \in PC
    BY DEF PC
  <1>5. LocalOK("readSim", t)
    BY <1>0, <1>3 DEF LocalOK, Applying, Trial, Applies
  <1>6. QED
    BY <1>2, <1>3, <1>4, <1>5 DEF Typed

\* and for qmi with the interface already started.
LEMMA TypedReturnedUp ==
    ASSUME NEW r, Typed("mrData", r), NEW t, t = [Resumed(r) EXCEPT !.restoreIf = FALSE]
    PROVE  Typed("readSim", t) /\ Keeps(r, t)
  <1> DEFINE s == Resumed(r)
  <1>1. Typed("readSim", s) /\ Keeps(r, s)
    BY TypedReturned
  <1>2. s \in Locals
    BY <1>1 DEF Typed
  <1> HIDE DEF s
  <1>3. [s EXCEPT !.restoreIf = FALSE] \in Locals
    BY <1>2, ZenonT(60) DEF Locals
  <1>4. t = [s EXCEPT !.restoreIf = FALSE]
    BY DEF s
  <1>5. /\ t.cmd = s.cmd /\ t.arg = s.arg /\ t.old = s.old /\ t.rollback = s.rollback
        /\ Keeps(s, t)
    BY <1>2, <1>4 DEF Locals, Keeps
  <1>6. LocalOK("readSim", t)
    BY <1>1, <1>5 DEF Typed, LocalOK, Applying, Trial
  <1>7. QED
    BY <1>1, <1>3, <1>4, <1>5, <1>6 DEF Typed, Keeps

\* The reset knows whether the interface is still to be started.
LEMMA TypedReconciled ==
    ASSUME NEW r, Typed("mrAfter", r), NEW u \in BOOLEAN,
           NEW t, t = [r EXCEPT !.restoreIf = u]
    PROVE  Typed("xPower", t) /\ Keeps(r, t)
  <1>0. LocalOK("mrAfter", r)
    BY DEF Typed
  <1>1. r \in Locals
    BY DEF Typed
  <1>2. t \in Locals
    BY <1>1, ZenonT(60) DEF Locals
  <1>3. /\ t.cmd = r.cmd /\ t.arg = r.arg /\ t.iccid = r.iccid
        /\ t.old = r.old /\ t.rollback = r.rollback
        /\ Keeps(r, t)
    BY <1>1 DEF Locals, Keeps
  <1>4. "xPower" \in PC
    BY DEF PC
  <1>5. LocalOK("xPower", t)
    BY <1>0, <1>3 DEF LocalOK, Applying, Trial, Applies
  <1>6. QED
    BY <1>2, <1>3, <1>4, <1>5 DEF Typed

\* on_exit has seen to the power.
LEMMA TypedPower ==
    ASSUME NEW r, Typed("xPower", r), NEW u \in BOOLEAN,
           NEW t, t = [r EXCEPT !.powerOff = u]
    PROVE  Typed("xRestore", t) /\ Keeps(r, t)
  <1>0. LocalOK("xPower", r)
    BY DEF Typed
  <1>1. r \in Locals
    BY DEF Typed
  <1>2. t \in Locals
    BY <1>1, ZenonT(60) DEF Locals
  <1>3. /\ t.cmd = r.cmd /\ t.arg = r.arg /\ t.iccid = r.iccid
        /\ t.old = r.old /\ t.rollback = r.rollback
        /\ Keeps(r, t)
    BY <1>1 DEF Locals, Keeps
  <1>4. "xRestore" \in PC
    BY DEF PC
  <1>5. LocalOK("xRestore", t)
    BY <1>0, <1>3 DEF LocalOK, Applying, Trial, Applies
  <1>6. QED
    BY <1>2, <1>3, <1>4, <1>5 DEF Typed

\* on_exit could not write the old profile.
LEMMA TypedUnwritten ==
    ASSUME NEW r, Typed("xRestore", r),
           NEW t, t = [r EXCEPT !.unwritten = TRUE]
    PROVE  Typed("xLock", t) /\ Keeps(r, t)
  <1>0. LocalOK("xRestore", r)
    BY DEF Typed
  <1>1. r \in Locals
    BY DEF Typed
  <1>2. t \in Locals
    BY <1>1, ZenonT(60) DEF Locals
  <1>3. /\ t.cmd = r.cmd /\ t.arg = r.arg /\ t.iccid = r.iccid
        /\ t.old = r.old /\ t.rollback = r.rollback
        /\ Keeps(r, t)
    BY <1>1 DEF Locals, Keeps
  <1>4. "xLock" \in PC
    BY DEF PC
  <1>5. LocalOK("xLock", t)
    BY <1>0, <1>3 DEF LocalOK, Applying, Trial, Applies
  <1>6. QED
    BY <1>2, <1>3, <1>4, <1>5 DEF Typed

\* The status and the down mark of a trial that registration ends.
LEMMA TypedRecheckDown ==
    ASSUME NEW m, NEW r, Typed(m, r), NEW c \in Status
    PROVE  /\ Typed("xPower", [r EXCEPT !.leaveDown = TRUE, !.status = c])
           /\ Keeps(r, [r EXCEPT !.leaveDown = TRUE, !.status = c])
  <1> DEFINE t == [r EXCEPT !.leaveDown = TRUE]
  <1>1. r \in Locals /\ LocalOK(m, r) /\ m \in PC
    BY DEF Typed
  <1>2. t \in Locals
    BY <1>1, ZenonT(60) DEF Locals
  <1>3. /\ t.cmd = r.cmd /\ t.arg = r.arg /\ t.iccid = r.iccid
        /\ t.old = r.old /\ t.rollback = r.rollback
        /\ Keeps(r, t)
    BY <1>1 DEF Locals, Keeps
  <1>4. Typed(m, t)
    <2> HIDE DEF t
    <2>1. QED
      BY <1>1, <1>2, <1>3 DEF Typed, LocalOK
  <1>5. QED
    BY <1>3, <1>4, TypedExit DEF Keeps

\* The process that is started, and the one that has ended.
LEMMA TypedStart ==
    ASSUME NEW c \in Commands, NEW f \in Profile \cup {NoProfile}, NEW b \in BOOLEAN,
           NEW w \in {"default", "allow", "block"}, c = "apply-manual" => f \in Profile,
           NEW t, t = [NoLocals EXCEPT !.cmd = c, !.arg = f, !.want = w]
    PROVE  /\ Typed(FirstStep(c), t) /\ FirstStep(c) \in BeforeLock \ {"idle"}
           /\ Keeps(NoLocals, t)
  <1>0. c \in Applies \cup {"none", "reset", "roaming-policy-set", "modem-reset"} /\ c # "none"
    BY EngineAssumption DEF Applies
  <1>1. NoLocals \in Locals
    BY DEF NoLocals, Locals, Registration
  <1>2. t \in Locals
    <2>1. [NoLocals EXCEPT !.cmd = c] \in Locals
      BY <1>0, <1>1, ZenonT(60) DEF Locals
    <2>2. [[NoLocals EXCEPT !.cmd = c] EXCEPT !.arg = f] \in Locals
      BY <2>1, ZenonT(60) DEF Locals
    <2>3. [[[NoLocals EXCEPT !.cmd = c] EXCEPT !.arg = f] EXCEPT !.want = w] \in Locals
      BY <2>2, ZenonT(60) DEF Locals
    <2>4. QED
      BY <2>3
  <1>3. /\ t.cmd = c /\ t.arg = f /\ ~t.rollback
        /\ Keeps(NoLocals, t)
    BY DEF NoLocals, Keeps
  <1>4. QED
    BY <1>0, <1>2, <1>3 DEF Typed, LocalOK, FirstStep, BeforeLock, PC, Applying, Trial, Applies

\* The child of a Coordinator.
LEMMA TypedChild ==
    ASSUME NEW t, t = [NoLocals EXCEPT !.cmd = "reconcile", !.borrowed = TRUE]
    PROVE  Typed("readSim", t) /\ ~t.locked /\ t.borrowed /\ ~t.rollback
  <1>1. t \in Locals
    <2>1. NoLocals \in Locals
      BY DEF NoLocals, Locals, Registration
    <2>2. [NoLocals EXCEPT !.cmd = "reconcile"] \in Locals
      BY <2>1, ZenonT(60) DEF Locals, Applies
    <2>3. [[NoLocals EXCEPT !.cmd = "reconcile"] EXCEPT !.borrowed = TRUE] \in Locals
      BY <2>2, ZenonT(60) DEF Locals
    <2>4. QED
      BY <2>3
  <1>2. t.cmd = "reconcile" /\ ~t.rollback /\ ~t.locked /\ t.borrowed
    BY DEF NoLocals
  <1>3. QED
    BY <1>1, <1>2 DEF Typed, LocalOK, PC, Applying, Trial, Applies

\* A process that has ended.
LEMMA TypedEnd ==
    Typed("idle", NoLocals) /\ ~NoLocals.locked /\ ~NoLocals.borrowed /\ ~NoLocals.rollback
  BY DEF Typed, LocalOK, NoLocals, Locals, Registration, PC, Applying, Trial, Applies

\* The lock is granted: the command goes on.
LEMMA TypedGranted ==
    ASSUME NEW r, Typed("lock", r),
           NEW t, t = [r EXCEPT !.locked = TRUE]
    PROVE  /\ Typed(AfterLock(r.cmd), t)
           /\ AfterLock(r.cmd) \in {"policy", "rsRestore", "rpSet", "mrDown"}
           /\ t.locked /\ t.borrowed = r.borrowed /\ t.rollback = r.rollback
  <1>0. LocalOK("lock", r)
    BY DEF Typed
  <1>1. r \in Locals
    BY DEF Typed
  <1>2. t \in Locals
    BY <1>1, ZenonT(60) DEF Locals
  <1>3. /\ t.cmd = r.cmd /\ t.arg = r.arg /\ t.iccid = r.iccid
        /\ t.old = r.old /\ t.rollback = r.rollback /\ t.borrowed = r.borrowed /\ t.locked
    BY <1>1 DEF Locals
  <1>4. r.cmd \in Applies \cup {"reset", "roaming-policy-set", "modem-reset"}
    <2>1. r.cmd \in Applies \cup {"none", "reset", "roaming-policy-set", "modem-reset"}
      BY <1>1 DEF Locals
    <2>2. QED
      BY <1>0, <2>1 DEF LocalOK
  <1>5. CASE r.cmd \in Applies
    BY <1>0, <1>2, <1>3, <1>5 DEF AfterLock, Typed, LocalOK, PC, Applying, Trial, Applies
  <1>6. CASE r.cmd \in {"reset", "roaming-policy-set", "modem-reset"}
    BY <1>0, <1>2, <1>3, <1>6 DEF AfterLock, Typed, LocalOK, PC, Applying, Trial
  <1>7. QED
    BY <1>4, <1>5, <1>6

Captured(r, c, q) == [r EXCEPT !.old = c, !.rollback = TRUE, !.cands = q]

\* The trial begins: the profile found is kept, the rollback armed.
LEMMA TypedCapture ==
    ASSUME NEW r, Typed("capture", r), NEW c \in Config, NEW q \in Seq(Profile),
           NEW t, t = Captured(r, c, q)
    PROVE  /\ Typed("candidate", t) /\ t.rollback
           /\ t.locked = r.locked /\ t.borrowed = r.borrowed
  <1>0. LocalOK("capture", r)
    BY DEF Typed
  <1>1. r \in Locals
    BY DEF Typed
  <1>2. t \in Locals
    <2>1. [r EXCEPT !.old = c] \in Locals
      BY <1>1, ZenonT(60) DEF Locals
    <2>2. [[r EXCEPT !.old = c] EXCEPT !.rollback = TRUE] \in Locals
      BY <2>1, ZenonT(60) DEF Locals
    <2>3. [[[r EXCEPT !.old = c] EXCEPT !.rollback = TRUE] EXCEPT !.cands = q] \in Locals
      BY <2>2, ZenonT(60) DEF Locals
    <2>4. QED
      BY <2>3 DEF Captured
  <1>3. /\ t.cmd = r.cmd /\ t.arg = r.arg /\ t.iccid = r.iccid
        /\ t.old = c /\ t.rollback /\ t.locked = r.locked /\ t.borrowed = r.borrowed
    BY <1>1 DEF Locals, Captured
  <1>4. QED
    BY <1>0, <1>2, <1>3 DEF Typed, LocalOK, PC, Applying, Trial

\* The trial has succeeded: the rollback is disarmed.
LEMMA TypedDisarm ==
    ASSUME NEW r, Typed("disarm", r),
           NEW t, t = [r EXCEPT !.rollback = FALSE]
    PROVE  /\ Typed("disarm", t) /\ ~t.rollback
           /\ t.locked = r.locked /\ t.borrowed = r.borrowed
  <1>0. LocalOK("disarm", r)
    BY DEF Typed
  <1>1. r \in Locals
    BY DEF Typed
  <1>2. [r EXCEPT !.rollback = FALSE] \in Locals
    BY <1>1, ZenonT(60) DEF Locals
  <1>3. /\ t.cmd = r.cmd /\ t.arg = r.arg /\ t.iccid = r.iccid
        /\ t.old = r.old /\ ~t.rollback /\ t.locked = r.locked /\ t.borrowed = r.borrowed
    BY <1>1 DEF Locals
  <1>4. QED
    BY <1>0, <1>2, <1>3 DEF Typed, LocalOK, PC, Applying, Trial

-----------------------------------------------------------------------------
(* Profiles *)

\* Every backend writes a profile the section can hold.
LEMMA ConfigType ==
    ASSUME NEW f \in Profile
    PROVE  set_profile(f) \in Config
  BY DEF Profile, Config, Auth, IpType, set_profile, ConfiguredAuth, ConfiguredIp

\* Every attempt of a plan is a profile.
LEMMA PlanType ==
    ASSUME NEW f \in Profile
    PROVE  backend_attempt_plan(f) \in Seq(Profile)
  <1> DEFINE ips == PlanIps(f)
             auths == PlanAuths(f)
             n == Len(auths)
             at(k) == [apn |-> f.apn, ip |-> ips[((k - 1) \div n) + 1],
                       auth |-> auths[((k - 1) % n) + 1]]
  <1>a. f.ip \in IpType /\ f.auth \in Auth /\ f.apn \in Apn
    BY DEF Profile
  <1>b. {"ipv4", "ipv4v6"} \subseteq IpType /\ {"chap", "pap", "none"} \subseteq Auth
    BY DEF IpType, Auth
  <1>1. ips \in Seq(IpType) /\ Len(ips) \in {0, 1, 2}
    <2>1. ips \in {<<>>, <<"ipv4">>, <<"ipv4v6", "ipv4">>, <<f.ip>>}
      BY DEF PlanIps
    <2> HIDE DEF ips
    <2>2. /\ <<"ipv4">> \in Seq(IpType) /\ Len(<<"ipv4">>) = 1
          /\ <<"ipv4v6", "ipv4">> \in Seq(IpType) /\ Len(<<"ipv4v6", "ipv4">>) = 2
          /\ <<f.ip>> \in Seq(IpType) /\ Len(<<f.ip>>) = 1
      BY <1>a, <1>b
    <2>3. <<>> \in Seq(IpType) /\ Len(<<>>) = 0
      OBVIOUS
    <2>4. QED
      BY <2>1, <2>2, <2>3
  <1>2. auths \in Seq(Auth) /\ n \in {1, 2}
    <2>1. auths \in {<<"chap", "pap">>, <<"none">>, <<f.auth>>}
      BY DEF PlanAuths
    <2> HIDE DEF auths
    <2>2. /\ <<"chap", "pap">> \in Seq(Auth) /\ Len(<<"chap", "pap">>) = 2
          /\ <<"none">> \in Seq(Auth) /\ Len(<<"none">>) = 1
          /\ <<f.auth>> \in Seq(Auth) /\ Len(<<f.auth>>) = 1
      BY <1>a, <1>b
    <2>3. QED
      BY <2>1, <2>2
  <1> HIDE DEF ips, auths
  <1>3. ASSUME NEW k \in 1..(Len(ips) * n)
        PROVE  at(k) \in Profile
    <2>1. ((k - 1) \div n) + 1 \in 1..Len(ips)
      <3>1. CASE n = 1 BY <1>1, <1>3, <3>1
      <3>2. CASE n = 2 BY <1>1, <1>3, <3>2
      <3>3. QED BY <1>2, <3>1, <3>2
    <2>2. ((k - 1) % n) + 1 \in 1..n
      <3>1. CASE n = 1 BY <1>1, <1>3, <3>1
      <3>2. CASE n = 2 BY <1>1, <1>3, <3>2
      <3>3. QED BY <1>2, <3>1, <3>2
    <2>3. ips[((k - 1) \div n) + 1] \in IpType /\ auths[((k - 1) % n) + 1] \in Auth
      BY <1>1, <1>2, <2>1, <2>2
    <2>4. QED
      BY <1>a, <2>3 DEF Profile
  <1>4. Len(ips) * n \in Nat
    BY <1>1, <1>2
  <1>5. [k \in 1..(Len(ips) * n) |-> at(k)] \in Seq(Profile)
    BY <1>3, <1>4
  <1>6. QED
    BY <1>5 DEF backend_attempt_plan, ips, auths

\* Every candidate is a profile.
LEMMA CandidatesType ==
    ASSUME TypeOK, NEW p \in Proc, pc[p] = "capture"
    PROVE  Candidates(p) \in Seq(Profile)
  <1>1. LocalOK("capture", loc[p])
    BY DEF TypeOK
  <1>2. loc[p].cmd = "apply-manual" => <<loc[p].arg>> \in Seq(Profile)
    BY <1>1 DEF LocalOK
  <1>3. loc[p].iccid \in Sim
    BY <1>1 DEF LocalOK, Applying
  <1>4. build_apply_candidates(loc[p].iccid) \in Seq(Profile)
    <2>1. Database[loc[p].iccid] \in Seq(Profile)
      BY <1>3, EngineAssumption
    <2>2. cache[loc[p].iccid] \in Profile \cup {NoProfile}
      BY <1>3 DEF TypeOK, StoreOK
    <2>3. QED
      BY <2>1, <2>2 DEF build_apply_candidates
  <1>5. QED
    BY <1>2, <1>4 DEF Candidates

-----------------------------------------------------------------------------
(* Steps that are quiet *)

Plain == {"policy", "preflight", "turn", "check", "capture",
          "rsRestore", "rpSet", "rpWrite", "rpEnforce", "rpWait",
          "mrDown", "mrOff", "mrOn", "mrWait", "mrUp", "mrData", "mrStop", "mrAfter"}

\* How positions may follow each other.
LEMMA Positions ==
    /\ \A k, l \in Trial : Follows(k, l)
    /\ \A k, l \in Exiting : Follows(k, l)
    /\ \A k, l \in Restored : Follows(k, l)
    /\ \A k, l \in Plain : Follows(k, l)
    /\ \A k \in PC \ {"idle"} : Follows(k, "xPower")
    /\ \A k \in Plain \cup {"readSim"}, l \in {"readSim", "lock"} : Follows(k, l)
  BY DEF Plain, Trial, Exiting, Restored, BeforeLock, PC, Follows

\* Only xPower and, in a reset, mrAfter follow a return.
LEMMA ReturnIsQuiet ==
    ASSUME TypeOK, NEW p \in Proc, pc[p] \in Plain, NEW c \in Status,
           NEW r, Typed(pc[p], r), Keeps(loc[p], r), Return(p, c, r)
    PROVE  \E l, s : Moves(p, l, s) /\ Keeps(loc[p], s) /\ Follows(pc[p], l)
  <1> DEFINE l == IF r.resetting THEN "mrAfter" ELSE "xPower"
             s == [r EXCEPT !.status = c]
  <1>1. Typed(l, s) /\ Keeps(r, s)
    BY TypedReturn
  <1>2. Follows(pc[p], l)
    <2>1. Follows(pc[p], "mrAfter")
      BY Positions DEF Plain
    <2>2. Follows(pc[p], "xPower")
      BY Positions DEF Plain, PC
    <2>3. QED
      BY <2>1, <2>2
  <1>3. To(p, l, s)
    BY DEF Return
  <1> HIDE DEF l, s
  <1>4. QED
    BY <1>1, <1>2, <1>3 DEF Moves, Keeps

\* exit is quiet from anywhere,
LEMMA ExitIsQuiet ==
    ASSUME TypeOK, NEW p \in Proc, pc[p] # "idle", NEW c \in Status, Exit(p, c)
    PROVE  \E l, s : Moves(p, l, s) /\ Keeps(loc[p], s) /\ Follows(pc[p], l)
  <1> DEFINE s == [loc[p] EXCEPT !.status = c]
  <1>1. Typed("xPower", s) /\ Keeps(loc[p], s)
    BY TypedNow, TypedExit
  <1>2. Follows(pc[p], "xPower")
    BY Positions DEF TypeOK
  <1>3. To(p, "xPower", s)
    BY DEF Exit
  <1> HIDE DEF s
  <1>4. QED
    BY <1>1, <1>2, <1>3 DEF Moves

\* and so is a plain move along the script.
LEMMA GoIsQuiet ==
    ASSUME TypeOK, NEW p \in Proc, NEW m \in PC, Follows(pc[p], m), Go(p, m),
           m \in Applying \cup {"readSim", "lock"} => pc[p] \in Applying /\ m \in Applying
    PROVE  \E l, s : Moves(p, l, s) /\ Keeps(loc[p], s) /\ Follows(pc[p], l)
  <1>1. Typed(m, loc[p]) /\ Keeps(loc[p], loc[p])
    BY TypedNow, TypedGo
  <1>2. QED
    BY <1>1 DEF Moves, Go

\* The steps that touch neither the section, the baseline nor the lock.
LEMMA QuietSteps ==
    ASSUME TypeOK, NEW p \in Proc,
           \/ ReadSim(p) \/ AwaitTurn(p) \/ ReadPolicy(p)
           \/ PreflightPending(p) \/ PreflightRefused(p) \/ PreflightPassed(p)
           \/ AlreadyReconciled(p) \/ NotReconciled(p) \/ NextCandidate(p) \/ Exhausted(p)
           \/ AttemptsOver(p) \/ IfDown(p) \/ IfUp(p)
           \/ BearerReady(p) \/ BearerLate(p) \/ Recheck(p) \/ Probe(p)
           \/ SaveCache(p) \/ SaveActive(p) \/ RecordSuccess(p)
           \/ ResetNothing(p) \/ ResetDown(p) \/ ResetUp(p) \/ ResetCache(p) \/ ResetActive(p)
           \/ PolicyObserve(p) \/ PolicyWrite(p) \/ PolicyEnforce(p) \/ PolicyWaited(p)
           \/ ModemDown(p) \/ ModemOff(p) \/ ModemOn(p)
           \/ ModemReturned(p) \/ ModemReady(p) \/ ModemLate(p) \/ ModemReconciled(p)
           \/ ExitPower(p) \/ ExitKeep(p) \/ ExitDown(p) \/ ExitUp(p) \/ Term(p)
    PROVE  Quiet(p)
  <1> DEFINE Silent == \E l, s : Moves(p, l, s) /\ Keeps(loc[p], s) /\ Follows(pc[p], l)
             Same == UNCHANGED <<cfg, baseline, origin, lock, coord, child>>
                     /\ UNCHANGED <<hist.orphaned, hist.disturbed>>
  <1>0. Typed(pc[p], loc[p]) /\ StoreOK
    BY TypedNow DEF TypeOK
  <1>1. CASE ReadSim(p)
    <2>1. pc[p] = "readSim" /\ Typed("readSim", loc[p])
      BY <1>1, <1>0 DEF ReadSim
    <2>2. sim \in Sim /\ reg \in Registration
      BY <1>0 DEF StoreOK
    <2>3. Follows("readSim", "lock")
      BY Positions DEF Plain
    <2>4. Silent
      BY <1>1, <2>1, <2>2, <2>3, TypedReadSim, ExitIsQuiet DEF ReadSim, Moves, Status
    <2>5. Same /\ StoreOK'
      BY <1>1, <1>0 DEF ReadSim, StoreOK, section, files, world, holders
    <2>6. QED
      BY <2>4, <2>5 DEF Quiet
  <1>2. CASE PreflightPending(p)
    <2>1. pc[p] = "preflight" /\ Typed("preflight", loc[p])
      BY <1>2, <1>0 DEF PreflightPending
    <2>2. Follows("preflight", "turn")
      BY Positions DEF Plain
    <2>3. refresh_modem_status(p) \subseteq Registration
      BY <1>0 DEF refresh_modem_status, StoreOK, Registration, Typed, Locals
    <2>4. PICK g \in Registration, b \in BOOLEAN :
             To(p, "turn", [loc[p] EXCEPT !.reg = g, !.started = b])
      <3>1. PICK g \in refresh_modem_status(p), up \in interface_is_up :
               To(p, "turn", [loc[p] EXCEPT !.reg = g,
                                            !.started = @ \/ (~loc[p].started /\ ~up)])
        BY <1>2 DEF PreflightPending
      <3>2. (loc[p].started \/ (~loc[p].started /\ ~up)) \in BOOLEAN
        OBVIOUS
      <3>3. QED
        BY <2>3, <3>1, <3>2
    <2>5. Silent
      BY <2>1, <2>2, <2>4, TypedPending DEF Moves
    <2>6. iface' \in {"up", "down"}
      BY <1>2, <1>0 DEF PreflightPending, StartInterface, StoreOK
    <2>7. UNCHANGED <<section, files, power, sim, reg, holders, hist>>
      BY <1>2 DEF PreflightPending
    <2>8. Same /\ StoreOK'
      BY <2>6, <2>7, <1>0 DEF StoreOK, section, files, holders
    <2>9. QED
      BY <2>5, <2>8 DEF Quiet
  <1>3. CASE PreflightRefused(p)
    <2>1. pc[p] \in {"preflight", "turn"} /\ Typed(pc[p], loc[p]) /\ pc[p] \in Plain
      BY <1>3, <1>0 DEF PreflightRefused, Plain
    <2>2. Silent
      <3>1. CASE Return(p, 3, loc[p])
        BY <2>1, <3>1, ReturnIsQuiet DEF Status, Keeps
      <3>2. CASE pc[p] = "preflight" /\ Return(p, 1, [loc[p] EXCEPT !.reg = "denied"])
        BY <2>1, <3>2, TypedReg, ReturnIsQuiet DEF Status, Registration
      <3>3. ASSUME NEW u \in BOOLEAN, pc[p] = "preflight",
                   Return(p, 2, [loc[p] EXCEPT !.reg = "roaming", !.unstopped = u])
            PROVE  Silent
        BY <2>1, <3>3, TypedBlocked, ReturnIsQuiet DEF Status
      <3>4. (iface' = "up") \in BOOLEAN
        OBVIOUS
      <3>5. QED
        BY <1>3, <3>1, <3>2, <3>3, <3>4 DEF PreflightRefused
    <2>3. iface' \in {"up", "down"}
      BY <1>3, <1>0 DEF PreflightRefused, StopInterface, StoreOK
    <2>4. UNCHANGED <<section, baseline, active, cache, power, sim, reg, holders, hist>>
      BY <1>3 DEF PreflightRefused
    <2>5. Same /\ StoreOK'
      BY <2>3, <2>4, <1>0 DEF StoreOK, section, holders
    <2>6. QED
      BY <2>2, <2>5 DEF Quiet
  <1>4. CASE PreflightPassed(p)
    <2>1. pc[p] = "preflight" /\ Typed("preflight", loc[p])
      BY <1>4, <1>0 DEF PreflightPassed
    <2>2. refresh_modem_status(p) \subseteq Registration
      BY <1>0 DEF refresh_modem_status, StoreOK, Registration, Typed, Locals
    <2>3. Follows("preflight", "check") /\ Follows("preflight", "capture")
      BY Positions DEF Plain
    <2>4. PICK g \in Registration, m \in {"check", "capture"} :
             To(p, m, [loc[p] EXCEPT !.reg = g, !.started = FALSE, !.remaining = 0])
      BY <1>4, <2>2 DEF PreflightPassed
    <2>5. Silent
      BY <2>1, <2>3, <2>4, TypedCheck, ZenonT(60) DEF Moves
    <2>6. Same /\ StoreOK'
      BY <1>4, <1>0, ZenonT(60) DEF PreflightPassed, StoreOK, section, files, world, holders
    <2>7. QED
      BY <2>5, <2>6 DEF Quiet
  <1>5. CASE AlreadyReconciled(p)
    <2>1. pc[p] = "check" /\ Typed("check", loc[p])
      BY <1>5, <1>0 DEF AlreadyReconciled
    <2>2. pc[p] \in Plain
      BY <2>1 DEF Plain
    <2>3. Keeps(loc[p], loc[p])
      BY DEF Keeps
    <2>4. Silent
      BY <1>5, <2>1, <2>2, <2>3, ReturnIsQuiet DEF AlreadyReconciled, Status
    <2>5. Same /\ StoreOK'
      BY <1>5, <1>0 DEF AlreadyReconciled, StoreOK, section, files, world, holders
    <2>6. QED
      BY <2>4, <2>5 DEF Quiet
  <1>6. CASE NotReconciled(p)
    <2>1. pc[p] = "check" /\ Typed("check", loc[p])
      BY <1>6, <1>0 DEF NotReconciled
    <2>2. Follows("check", "readSim")
      BY Positions DEF Plain
    <2>3. Silent
      BY <1>6, <2>1, <2>2, TypedReapply DEF NotReconciled, Moves
    <2>4. Same /\ StoreOK'
      BY <1>6, <1>0 DEF NotReconciled, StoreOK, section, files, world, holders
    <2>5. QED
      BY <2>3, <2>4 DEF Quiet
  <1>7. CASE NextCandidate(p)
    <2>1. pc[p] = "candidate" /\ Typed("candidate", loc[p])
      BY <1>7, <1>0 DEF NextCandidate
    <2>2. loc[p].cands \in Seq(Profile) /\ loc[p].seen \subseteq Profile /\ loc[p].cands # <<>>
      BY <1>7, <2>1 DEF NextCandidate, Typed, Locals
    <2> DEFINE f == Head(loc[p].cands)
               q == IF f \in loc[p].seen THEN <<>> ELSE backend_attempt_plan(f)
               m == IF q = <<>> THEN "candidate" ELSE "attempt"
    <2>3. f \in Profile /\ Tail(loc[p].cands) \in Seq(Profile)
      BY <2>2
    <2>4. q \in Seq(Profile)
      BY <2>3, PlanType
    <2>5. To(p, m, [loc[p] EXCEPT !.cands = Tail(loc[p].cands),
                                  !.seen = loc[p].seen \cup {f}, !.plan = q])
      BY <1>7 DEF NextCandidate
    <2>6. m \in {"candidate", "attempt"} /\ loc[p].seen \cup {f} \in SUBSET Profile
      BY <2>2, <2>3
    <2>7. Follows("candidate", "candidate") /\ Follows("candidate", "attempt")
      BY Positions DEF Trial
    <2> DEFINE c == Tail(loc[p].cands)
               seen == loc[p].seen \cup {f}
               t == Turned(loc[p], c, seen, q)
    <2>8. Silent
      <3>1. c \in Seq(Profile) /\ seen \in SUBSET Profile
        BY <2>3, <2>6
      <3>2. To(p, m, t)
        BY <2>5 DEF Turned
      <3> HIDE DEF f, q, m, c, seen
      <3>3. Typed(m, t) /\ Keeps(loc[p], t)
        BY <2>1, <2>4, <2>6, <3>1, TypedNext
      <3> HIDE DEF t
      <3>4. QED
        BY <2>1, <2>6, <2>7, <3>2, <3>3 DEF Moves
    <2>9. Same /\ StoreOK'
      BY <1>7, <1>0 DEF NextCandidate, StoreOK, section, files, world, holders
    <2>10. QED
      BY <2>8, <2>9 DEF Quiet
  <1>8. CASE Exhausted(p)
    <2>1. pc[p] = "candidate" /\ Typed("candidate", loc[p])
      BY <1>8, <1>0 DEF Exhausted
    <2>2. Silent
      BY <1>8, <2>1, GoIsQuiet, ExitIsQuiet DEF Exhausted, Applying, Trial, Status
    <2>3. Same /\ StoreOK'
      BY <1>8, <1>0 DEF Exhausted, StoreOK, section, files, world, holders
    <2>4. QED
      BY <2>2, <2>3 DEF Quiet
  <1>9. CASE AttemptsOver(p)
    <2>1. pc[p] = "attempt" /\ Typed("attempt", loc[p])
      BY <1>9, <1>0 DEF AttemptsOver
    <2>2. <<>> \in Seq(Profile)
      OBVIOUS
    <2>3. Follows("attempt", "noBearer")
      BY Positions DEF Trial
    <2>4. Silent
      BY <1>9, <2>1, <2>2, <2>3, TypedOver DEF AttemptsOver, Moves
    <2>5. Same /\ StoreOK'
      BY <1>9, <1>0 DEF AttemptsOver, StoreOK, section, files, world, holders
    <2>6. QED
      BY <2>4, <2>5 DEF Quiet
  <1>10. CASE IfDown(p)
    <2>1. pc[p] = "ifdown" /\ Typed("ifdown", loc[p])
      BY <1>10, <1>0 DEF IfDown
    <2>2. Follows("ifdown", "ifup") /\ "ifup" \in PC
      BY Positions DEF Trial, PC
    <2>3. Silent
      BY <1>10, <2>1, <2>2, GoIsQuiet, ExitIsQuiet DEF IfDown, Applying, Trial, Status
    <2>4. Same /\ StoreOK'
      BY <1>10, <1>0 DEF IfDown, StopInterface, StoreOK, section, files, world, holders
    <2>5. QED
      BY <2>3, <2>4 DEF Quiet
  <1>11. CASE IfUp(p)
    <2>1. pc[p] = "ifup" /\ Typed("ifup", loc[p])
      BY <1>11, <1>0 DEF IfUp
    <2>2. Follows("ifup", "bearer") /\ "bearer" \in PC /\ "bearer" \in Applying
      BY Positions DEF Trial, PC, Applying
    <2>3. Follows("ifup", "attempt") /\ "attempt" \in PC /\ "attempt" \in Applying
      BY Positions DEF Trial, PC, Applying
    <2>4. "ifup" \in Applying
      BY DEF Trial, Applying
    <2>5. Silent
      <3>1. CASE To(p, "bearer", [loc[p] EXCEPT !.remaining = InterfaceWait])
        BY <2>1, <2>2, <2>4, <3>1, TypedCount, EngineAssumption DEF Moves
      <3>2. CASE Go(p, "attempt")
        BY <2>1, <2>3, <2>4, <3>2, GoIsQuiet
      <3>3. QED
        BY <1>11, <3>1, <3>2 DEF IfUp
    <2>6. Same /\ StoreOK'
      BY <1>11, <1>0 DEF IfUp, StartInterface, StoreOK, section, files, world, holders
    <2>7. QED
      BY <2>5, <2>6 DEF Quiet
  <1>12. CASE BearerReady(p)
    <2>1. pc[p] \in {"bearer", "address"} /\ Typed(pc[p], loc[p]) /\ pc[p] \in Applying
      BY <1>12, <1>0 DEF BearerReady, Applying, Trial
    <2>2. \A m \in {"address", "bearerUp"} : Follows(pc[p], m) /\ m \in PC /\ m \in Applying
      BY <2>1, Positions DEF Trial, PC, Applying
    <2>3. PICK m \in {"address", "bearerUp"}, n \in Nat :
             To(p, m, [loc[p] EXCEPT !.remaining = n])
      BY <1>12, EngineAssumption DEF BearerReady
    <2>4. Silent
      BY <2>1, <2>2, <2>3, TypedCount DEF Moves
    <2>5. Same /\ StoreOK'
      BY <1>12, <1>0 DEF BearerReady, StoreOK, section, files, world, holders
    <2>6. QED
      BY <2>4, <2>5 DEF Quiet
  <1>37. CASE BearerLate(p)
    <2>1. pc[p] \in {"bearer", "address"} /\ Typed(pc[p], loc[p])
      BY <1>37, <1>0 DEF BearerLate
    <2>2. Follows(pc[p], "attempt") /\ "attempt" \in PC
      BY <2>1, Positions DEF Trial, PC
    <2>3. Silent
      BY <1>37, <2>1, <2>2, GoIsQuiet DEF BearerLate, Applying, Trial
    <2>4. Same /\ StoreOK'
      BY <1>37, <1>0 DEF BearerLate, StoreOK, section, files, world, holders
    <2>5. QED
      BY <2>3, <2>4 DEF Quiet
  <1>38. CASE AwaitTurn(p)
    <2>1. pc[p] \in Waiting /\ Typed(pc[p], loc[p])
      BY <1>38, <1>0 DEF AwaitTurn
    <2> DEFINE m == IF pc[p] = "turn" THEN "preflight" ELSE pc[p]
               n == loc[p].remaining - 1
    <2>2. n \in Nat
      BY <1>38, <2>1 DEF AwaitTurn, Typed, Locals
    <2>3. m \in PC /\ Follows(pc[p], m)
      BY <2>1, Positions DEF Waiting, PC, Trial, Plain
    <2>4. m \in Applying \cup {"readSim", "lock"} => pc[p] \in Applying /\ m \in Applying
      BY <2>1 DEF Waiting, Applying, Trial
    <2>5. To(p, m, [loc[p] EXCEPT !.remaining = n])
      BY <1>38 DEF AwaitTurn
    <2> HIDE DEF m, n
    <2>6. Silent
      BY <2>1, <2>2, <2>3, <2>4, <2>5, TypedCount DEF Moves
    <2>7. Same /\ StoreOK'
      BY <1>38, <1>0 DEF AwaitTurn, StoreOK, section, files, world, holders
    <2>8. QED
      BY <2>6, <2>7 DEF Quiet
  <1>39. CASE ReadPolicy(p)
    <2>1. pc[p] = "policy" /\ Typed("policy", loc[p]) /\ pc[p] \in Plain
      BY <1>39, <1>0 DEF ReadPolicy, Plain
    <2>2. Follows("policy", "preflight")
      BY Positions DEF Plain
    <2>3. Silent
      <3>1. CASE Return(p, 1, loc[p])
        BY <2>1, <3>1, ReturnIsQuiet DEF Status, Keeps
      <3>2. CASE To(p, "preflight", [loc[p] EXCEPT !.allowed = RoamingAllowed,
                                                   !.remaining = RegistrationWait])
        <4>1. RoamingAllowed \in BOOLEAN
          BY DEF RoamingAllowed
        <4>2. RegistrationWait \in Nat
          BY EngineAssumption
        <4>3. QED
          BY <2>1, <2>2, <3>2, <4>1, <4>2, TypedPolicy DEF Moves
      <3>3. QED
        BY <1>39, <3>1, <3>2 DEF ReadPolicy
    <2>4. Same /\ StoreOK'
      BY <1>39, <1>0 DEF ReadPolicy, StoreOK, section, world, holders
    <2>5. QED
      BY <2>3, <2>4 DEF Quiet
  <1>13. CASE Recheck(p)
    <2>1. pc[p] \in {"noBearer", "bearerUp"} /\ Typed(pc[p], loc[p])
      BY <1>13, <1>0 DEF Recheck
    <2>2. loc[p].saw \in BOOLEAN /\ loc[p].reg \in Registration
      BY <1>0 DEF Typed, Locals
    <2>3. refresh_modem_status(p) \subseteq Registration
      BY <1>0, <2>2, SMTT(30) DEF refresh_modem_status, StoreOK, Registration
    <2> DEFINE up == pc[p] = "bearerUp"
               b == loc[p].saw \/ up
               s(g) == Rechecked(loc[p], g, b)
               m == IF up THEN "probe" ELSE "candidate"
    <2>4. PICK g \in Registration :
             \/ To(p, "xPower", [s(g) EXCEPT !.leaveDown = TRUE, !.status = 2])
             \/ To(p, "xPower", [s(g) EXCEPT !.status = 1])
             \/ To(p, m, s(g))
      BY <1>13, <2>3 DEF Recheck, Rechecked
    <2>5. m \in {"probe", "candidate"}
      OBVIOUS
    <2>6. Follows(pc[p], "probe") /\ Follows(pc[p], "candidate")
      BY <2>1, Positions DEF Trial
    <2>7. Follows(pc[p], "xPower")
      BY <2>1, Positions DEF PC
    <2>8. b \in BOOLEAN
      BY <2>2, SMTT(30)
    <2>9. Same /\ StoreOK'
      BY <1>13, <1>0, ZenonT(60) DEF Recheck, StoreOK, section, files, world, holders
    <2> HIDE DEF up, b, m
    <2>10. Typed(m, s(g)) /\ Keeps(loc[p], s(g))
      BY <2>1, <2>5, <2>8, TypedRecheck
    <2> HIDE DEF s
    <2>11. Silent
      <3>1. CASE To(p, "xPower", [s(g) EXCEPT !.leaveDown = TRUE, !.status = 2])
        BY <2>7, <2>10, <3>1, TypedRecheckDown, ZenonT(60) DEF Moves, Keeps, Status
      <3>2. CASE To(p, "xPower", [s(g) EXCEPT !.status = 1])
        BY <2>7, <2>10, <3>2, TypedExit, ZenonT(60) DEF Moves, Keeps, Status
      <3>3. CASE To(p, m, s(g))
        BY <2>5, <2>6, <2>10, <3>3 DEF Moves
      <3>4. QED
        BY <2>4, <3>1, <3>2, <3>3
    <2>12. QED
      BY <2>9, <2>11, SMTT(30) DEF Quiet
  <1>14. CASE Probe(p)
    <2>1. pc[p] = "probe" /\ Typed("probe", loc[p])
      BY <1>14, <1>0 DEF Probe
    <2>2. Follows("probe", "saveCache") /\ "saveCache" \in PC
      BY Positions DEF Trial, PC
    <2>3. Follows("probe", "candidate") /\ "candidate" \in PC
      BY Positions DEF Trial, PC
    <2>4. Silent
      BY <1>14, <2>1, <2>2, <2>3, GoIsQuiet, ExitIsQuiet DEF Probe, Applying, Trial, Status
    <2>5. Same /\ StoreOK'
      BY <1>14, <1>0, <1>0 DEF Probe, StoreOK, section, files, world, holders, Typed, Locals
    <2>6. QED
      BY <2>4, <2>5 DEF Quiet
  <1>15. CASE SaveCache(p)
    <2>1. pc[p] = "saveCache" /\ Typed("saveCache", loc[p])
      BY <1>15, <1>0 DEF SaveCache
    <2>2. Follows("saveCache", "saveActive") /\ "saveActive" \in PC
      BY Positions DEF Trial, PC
    <2>3. loc[p].iccid \in Sim /\ loc[p].cur \in Profile \cup {NoProfile}
      BY <2>1 DEF Typed, LocalOK, Applying, Trial, Locals
    <2>4. Silent
      BY <1>15, <2>1, <2>2, <2>3, GoIsQuiet DEF SaveCache, Applying, Trial
    <2>5. Same /\ StoreOK'
      BY <1>15, <1>0, <2>3 DEF SaveCache, StoreOK, section, files, world, holders
    <2>6. QED
      BY <2>4, <2>5 DEF Quiet
  <1>16. CASE SaveActive(p)
    <2>1. pc[p] = "saveActive" /\ Typed("saveActive", loc[p])
      BY <1>16, <1>0 DEF SaveActive
    <2>2. Follows("saveActive", "success") /\ "success" \in PC
      BY Positions DEF Trial, PC
    <2>3. Silent
      <3>1. CASE Go(p, "success")
        BY <2>1, <2>2, <3>1, GoIsQuiet DEF Applying, Trial
      <3>2. CASE To(p, "success", [loc[p] EXCEPT !.unrecorded = TRUE])
        BY <2>1, <2>2, <3>2, TypedUnrecorded DEF Moves
      <3>3. QED
        BY <1>16, <3>1, <3>2 DEF SaveActive
    <2>4. Same /\ StoreOK'
      BY <1>16, <1>0 DEF SaveActive, StoreOK, section, files, world, holders
    <2>5. QED
      BY <2>3, <2>4 DEF Quiet
  <1>17. CASE RecordSuccess(p)
    <2>1. pc[p] = "success" /\ Typed("success", loc[p])
      BY <1>17, <1>0 DEF RecordSuccess
    <2>2. Follows("success", "disarm") /\ "disarm" \in PC
      BY Positions DEF Trial, PC
    <2>3. Silent
      BY <1>17, <2>1, <2>2, GoIsQuiet, ExitIsQuiet DEF RecordSuccess, Applying, Trial, Status
    <2>4. Same /\ StoreOK'
      BY <1>17, <1>0 DEF RecordSuccess, StoreOK, section, files, world, holders
    <2>5. QED
      BY <2>3, <2>4 DEF Quiet
  <1>18. CASE ResetNothing(p)
    <2>1. pc[p] = "rsRestore" /\ Typed("rsRestore", loc[p])
      BY <1>18, <1>0 DEF ResetNothing
    <2>2. Silent
      BY <1>18, <2>1, GoIsQuiet, ExitIsQuiet DEF ResetNothing, Applying, Trial, Status
    <2>3. Same /\ StoreOK'
      BY <1>18, <1>0 DEF ResetNothing, StoreOK, section, files, world, holders
    <2>4. QED
      BY <2>2, <2>3 DEF Quiet
  <1>19. CASE ResetDown(p)
    <2>1. pc[p] = "rsDown" /\ Typed("rsDown", loc[p])
      BY <1>19, <1>0 DEF ResetDown
    <2>2. Follows("rsDown", "rsUp") /\ "rsUp" \in PC
      BY Positions DEF Restored, PC
    <2>3. Silent
      BY <1>19, <2>1, <2>2, GoIsQuiet, ExitIsQuiet DEF ResetDown, Applying, Trial, Status
    <2>4. Same /\ StoreOK'
      BY <1>19, <1>0 DEF ResetDown, StopInterface, StoreOK, section, files, world, holders
    <2>5. QED
      BY <2>3, <2>4 DEF Quiet
  <1>20. CASE ResetUp(p)
    <2>1. pc[p] = "rsUp" /\ Typed("rsUp", loc[p])
      BY <1>20, <1>0 DEF ResetUp
    <2>2. Follows("rsUp", "rsCache") /\ "rsCache" \in PC
      BY Positions DEF Restored, PC
    <2>3. Silent
      BY <1>20, <2>1, <2>2, GoIsQuiet, ExitIsQuiet DEF ResetUp, Applying, Trial, Status
    <2>4. Same /\ StoreOK'
      BY <1>20, <1>0 DEF ResetUp, StartInterface, StoreOK, section, files, world, holders
    <2>5. QED
      BY <2>3, <2>4 DEF Quiet
  <1>21. CASE ResetCache(p)
    <2>1. pc[p] = "rsCache" /\ Typed("rsCache", loc[p])
      BY <1>21, <1>0 DEF ResetCache
    <2>2. Follows("rsCache", "rsActive") /\ "rsActive" \in PC
      BY Positions DEF Restored, PC
    <2>3. Silent
      BY <1>21, <2>1, <2>2, GoIsQuiet, ExitIsQuiet DEF ResetCache, Applying, Trial, Status
    <2>4. Same /\ StoreOK'
      BY <1>21, <1>0 DEF ResetCache, StoreOK, section, files, world, holders
    <2>5. QED
      BY <2>3, <2>4 DEF Quiet
  <1>22. CASE ResetActive(p)
    <2>1. pc[p] = "rsActive" /\ Typed("rsActive", loc[p])
      BY <1>22, <1>0 DEF ResetActive
    <2>2. Follows("rsActive", "rsDrop") /\ "rsDrop" \in PC
      BY Positions DEF Restored, PC
    <2>3. Silent
      BY <1>22, <2>1, <2>2, GoIsQuiet, ExitIsQuiet DEF ResetActive, Applying, Trial, Status
    <2>4. Same /\ StoreOK'
      BY <1>22, <1>0 DEF ResetActive, StoreOK, section, files, world, holders
    <2>5. QED
      BY <2>3, <2>4 DEF Quiet
  <1>23. CASE PolicyObserve(p)
    <2>1. pc[p] = "rpSet" /\ Typed("rpSet", loc[p])
      BY <1>23, <1>0 DEF PolicyObserve
    <2>2. refresh_modem_status(p) \subseteq Registration
      BY <1>0 DEF refresh_modem_status, StoreOK, Registration, Typed, Locals
    <2>3. Follows("rpSet", "rpWrite")
      BY Positions DEF Plain
    <2>4. Silent
      <3>1. interface_is_up \subseteq BOOLEAN
        BY DEF interface_is_up
      <3>2. PICK up \in BOOLEAN, r \in Registration :
               To(p, "rpWrite", [loc[p] EXCEPT !.wasUp = up, !.reg = r])
        BY <1>23, <2>2, <3>1 DEF PolicyObserve
      <3>3. QED
        BY <2>1, <2>3, <3>2, TypedObserve DEF Moves
    <2>5. Same /\ StoreOK'
      BY <1>23, <1>0, ZenonT(60) DEF PolicyObserve, StoreOK, section, files, world, holders
    <2>6. QED
      BY <2>4, <2>5 DEF Quiet
  <1>24. CASE PolicyWrite(p)
    <2>1. pc[p] = "rpWrite" /\ Typed("rpWrite", loc[p])
      BY <1>24, <1>0 DEF PolicyWrite
    <2>2. Follows("rpWrite", "rpEnforce") /\ "rpEnforce" \in PC
      BY Positions DEF Plain, PC
    <2>3. Silent
      BY <1>24, <2>1, <2>2, GoIsQuiet, ExitIsQuiet DEF PolicyWrite, Applying, Trial, Status
    <2>4. Same /\ StoreOK'
      BY <1>24, <1>0 DEF PolicyWrite, StoreOK, section, files, world, holders, Typed, Locals
    <2>5. QED
      BY <2>3, <2>4 DEF Quiet
  <1>25. CASE PolicyEnforce(p)
    <2>1. pc[p] = "rpEnforce" /\ Typed("rpEnforce", loc[p])
      BY <1>25, <1>0 DEF PolicyEnforce
    <2>2. Follows("rpEnforce", "rpWait") /\ "rpWait" \in PC
      BY Positions DEF Plain, PC
    <2>3. Silent
      <3>1. \/ Exit(p, 0) \/ Exit(p, 1)
            \/ To(p, "rpWait", [loc[p] EXCEPT !.remaining = InterfaceWait])
        BY <1>25 DEF PolicyEnforce
      <3>2. CASE Exit(p, 0) \/ Exit(p, 1)
        BY <2>1, <3>2, ExitIsQuiet DEF Status
      <3> DEFINE t == [loc[p] EXCEPT !.remaining = InterfaceWait]
      <3>3. Typed("rpWait", t) /\ Keeps(loc[p], t)
        <4>1. "rpWait" \notin Applying \cup {"readSim", "lock"} /\ InterfaceWait \in Nat
          BY EngineAssumption DEF Applying, Trial
        <4>2. QED
          BY <2>1, <2>2, <4>1, TypedCount
      <3>4. CASE To(p, "rpWait", t)
        BY <2>1, <2>2, <3>3, <3>4 DEF Moves
      <3>5. QED
        BY <3>1, <3>2, <3>4
    <2>4. /\ iface' \in {"up", "down"}
          /\ UNCHANGED <<cfg, origin, policy, baseline, active, cache, power, sim, reg,
                         lock, coord, child, hist>>
      BY <1>25, <1>0 DEF PolicyEnforce, StopInterface, StartInterface,
                         StoreOK, section, files, world, holders
    <2>5. Same /\ StoreOK'
      BY <2>4, <1>0 DEF StoreOK
    <2>6. QED
      BY <2>3, <2>5 DEF Quiet
  <1>40. CASE PolicyWaited(p)
    <2>1. pc[p] = "rpWait" /\ Typed("rpWait", loc[p])
      BY <1>40, <1>0 DEF PolicyWaited
    <2>2. Follows("rpWait", "readSim")
      BY Positions DEF Plain
    <2>3. Silent
      BY <1>40, <2>1, <2>2, TypedEnforce DEF PolicyWaited, Moves
    <2>4. Same /\ StoreOK'
      BY <1>40, <1>0 DEF PolicyWaited, StoreOK, section, files, world, holders
    <2>5. QED
      BY <2>3, <2>4 DEF Quiet
  <1>26. CASE ModemDown(p)
    <2>1. pc[p] = "mrDown" /\ Typed("mrDown", loc[p])
      BY <1>26, <1>0 DEF ModemDown
    <2>2. Follows("mrDown", "mrOff")
      BY Positions DEF Plain
    <2>3. Silent
      BY <1>26, <2>1, <2>2, TypedDown DEF ModemDown, Moves
    <2>4. Same /\ StoreOK'
      BY <1>26, <1>0 DEF ModemDown, StopInterface, StoreOK, section, files, world, holders
    <2>5. QED
      BY <2>3, <2>4 DEF Quiet
  <1>27. CASE ModemOff(p)
    <2>1. pc[p] = "mrOff" /\ Typed("mrOff", loc[p])
      BY <1>27, <1>0 DEF ModemOff
    <2>2. Follows("mrOff", "xPower")
      BY Positions DEF Plain, PC
    <2>3. Follows("mrOff", "mrOn")
      BY Positions DEF Plain
    <2>4. Silent
      BY <1>27, <2>1, <2>2, <2>3, TypedOff, TypedOffFailed DEF ModemOff, Moves
    <2>5. Same /\ StoreOK'
      BY <1>27, <1>0 DEF ModemOff, StoreOK, section, files, world, holders
    <2>6. QED
      BY <2>4, <2>5 DEF Quiet
  <1>28. CASE ModemOn(p)
    <2>1. pc[p] = "mrOn" /\ Typed("mrOn", loc[p])
      BY <1>28, <1>0 DEF ModemOn
    <2>2. Follows("mrOn", "mrWait")
      BY Positions DEF Plain
    <2>3. Silent
      BY <1>28, <2>1, <2>2, TypedOn, ExitIsQuiet, EngineAssumption DEF ModemOn, Moves, Status
    <2>4. Same /\ StoreOK'
      BY <1>28, <1>0 DEF ModemOn, StoreOK, section, files, world, holders
    <2>5. QED
      BY <2>3, <2>4 DEF Quiet
  <1>29. CASE ModemReturned(p)
    <2>1. pc[p] = "mrWait" /\ Typed("mrWait", loc[p])
      BY <1>29, <1>0 DEF ModemReturned
    <2>2. /\ Follows("mrWait", "readSim") /\ Follows("mrWait", "mrUp") /\ Follows("mrWait", "mrStop")
          /\ "mrUp" \in PC /\ "mrStop" \in PC
      BY Positions DEF Plain, PC
    <2>3. Silent
      <3>1. \/ Exit(p, 1) \/ Go(p, "mrStop")
            \/ To(p, "readSim", Resumed(loc[p]))
            \/ To(p, "mrUp", [loc[p] EXCEPT !.remaining = InterfaceWait])
        BY <1>29 DEF ModemReturned, Reconciling, Resumed
      <3>2. CASE Exit(p, 1)
        BY <2>1, <3>2, ExitIsQuiet DEF Status
      <3>3. CASE Go(p, "mrStop")
        BY <2>1, <2>2, <3>3, GoIsQuiet DEF Applying, Trial
      <3>4. CASE To(p, "readSim", Resumed(loc[p]))
        BY <2>1, <2>2, <3>4, TypedReturned DEF Moves
      <3>5. CASE To(p, "mrUp", [loc[p] EXCEPT !.remaining = InterfaceWait])
        BY <2>1, <2>2, <3>5, TypedCount, EngineAssumption DEF Moves, Applying, Trial
      <3>6. QED
        BY <3>1, <3>2, <3>3, <3>4, <3>5
    <2>4. Same /\ StoreOK'
      BY <1>29, <1>0 DEF ModemReturned, StartInterface, StoreOK, section, files, world, holders
    <2>5. QED
      BY <2>3, <2>4 DEF Quiet
  <1>41. CASE ModemReady(p)
    <2>1. pc[p] \in {"mrUp", "mrData"} /\ Typed(pc[p], loc[p])
      BY <1>41, <1>0 DEF ModemReady
    <2>2. Follows("mrUp", "mrData") /\ "mrData" \in PC /\ Follows("mrData", "readSim")
      BY Positions DEF Plain, PC
    <2>3. CASE pc[p] = "mrUp" /\ To(p, "mrData", [loc[p] EXCEPT !.remaining = InterfaceWait])
      <3>1. Silent
        BY <2>1, <2>2, <2>3, TypedCount, EngineAssumption DEF Moves, Applying, Trial
      <3>2. Same /\ StoreOK'
        BY <1>41, <1>0 DEF ModemReady, StoreOK, section, files, world, holders
      <3>3. QED
        BY <3>1, <3>2 DEF Quiet
    <2>4. CASE pc[p] = "mrData" /\ To(p, "readSim", [Resumed(loc[p]) EXCEPT !.restoreIf = FALSE])
      <3>1. Silent
        BY <2>1, <2>2, <2>4, TypedReturnedUp DEF Moves
      <3>2. Same /\ StoreOK'
        BY <1>41, <1>0 DEF ModemReady, StoreOK, section, files, world, holders
      <3>3. QED
        BY <3>1, <3>2 DEF Quiet
    <2>5. QED
      BY <1>41, <2>1, <2>3, <2>4 DEF ModemReady, Reconciling, Resumed
  <1>42. CASE ModemLate(p)
    <2>1. pc[p] # "idle"
      BY <1>42 DEF ModemLate
    <2>2. Silent
      BY <1>42, <2>1, ExitIsQuiet DEF ModemLate, Status
    <2>3. Same /\ StoreOK'
      BY <1>42, <1>0 DEF ModemLate, StopInterface, StoreOK, section, files, world, holders
    <2>4. QED
      BY <2>2, <2>3 DEF Quiet
  <1>30. CASE ModemReconciled(p)
    <2>1. pc[p] = "mrAfter" /\ Typed("mrAfter", loc[p])
      BY <1>30, <1>0 DEF ModemReconciled
    <2>2. Follows("mrAfter", "xPower")
      BY Positions DEF Plain, PC
    <2>3. Silent
      BY <1>30, <2>1, <2>2, TypedReconciled DEF ModemReconciled, Moves
    <2>4. Same /\ StoreOK'
      BY <1>30, <1>0 DEF ModemReconciled, StoreOK, section, files, world, holders
    <2>5. QED
      BY <2>3, <2>4 DEF Quiet
  <1>31. CASE ExitPower(p)
    <2>1. pc[p] = "xPower" /\ Typed("xPower", loc[p])
      BY <1>31, <1>0 DEF ExitPower
    <2>2. Follows("xPower", "xRestore")
      BY Positions DEF Exiting
    <2>3. Silent
      BY <1>31, <2>1, <2>2, TypedPower DEF ExitPower, Moves
    <2>4. Same /\ StoreOK'
      BY <1>31, <2>1, <1>0 DEF ExitPower, StoreOK, section, files, world, holders, Typed, Locals
    <2>5. QED
      BY <2>3, <2>4 DEF Quiet
  <1>32. CASE ExitKeep(p)
    <2>1. pc[p] = "xRestore" /\ Typed("xRestore", loc[p])
      BY <1>32, <1>0 DEF ExitKeep
    <2>2. Follows("xRestore", "xLock") /\ "xLock" \in PC
      BY Positions DEF Exiting, PC
    <2>3. Silent
      BY <1>32, <2>1, <2>2, GoIsQuiet, ExitIsQuiet DEF ExitKeep, Applying, Trial, Status
    <2>4. Same /\ StoreOK'
      BY <1>32, <1>0 DEF ExitKeep, StartInterface, StoreOK, section, files, world, holders
    <2>5. QED
      BY <2>3, <2>4 DEF Quiet
  <1>33. CASE ExitDown(p)
    <2>1. pc[p] = "xDown" /\ Typed("xDown", loc[p])
      BY <1>33, <1>0 DEF ExitDown
    <2>2. Follows("xDown", "xLock") /\ Follows("xDown", "xUp") /\ "xUp" \in PC
      BY Positions DEF Exiting, PC
    <2>3. Silent
      <3>1. CASE Go(p, "xUp")
        BY <2>1, <2>2, <3>1, GoIsQuiet DEF Applying, Trial
      <3>2. ASSUME NEW u \in BOOLEAN, To(p, "xLock", [loc[p] EXCEPT !.unstopped = u])
            PROVE  Silent
        BY <2>1, <2>2, <3>2, TypedStopped DEF Moves
      <3>3. (iface' = "up") \in BOOLEAN
        OBVIOUS
      <3>4. QED
        BY <1>33, <3>1, <3>2, <3>3 DEF ExitDown
    <2>4. Same /\ StoreOK'
      BY <1>33, <1>0 DEF ExitDown, StopInterface, StoreOK, section, files, world, holders
    <2>5. QED
      BY <2>3, <2>4 DEF Quiet
  <1>34. CASE ExitUp(p)
    <2>1. pc[p] = "xUp" /\ Typed("xUp", loc[p])
      BY <1>34, <1>0 DEF ExitUp
    <2>2. Follows("xUp", "xLock") /\ "xLock" \in PC
      BY Positions DEF Exiting, PC
    <2>3. Silent
      BY <1>34, <2>1, <2>2, GoIsQuiet, ExitIsQuiet DEF ExitUp, Applying, Trial, Status
    <2>4. Same /\ StoreOK'
      BY <1>34, <1>0 DEF ExitUp, StartInterface, StoreOK, section, files, world, holders
    <2>5. QED
      BY <2>3, <2>4 DEF Quiet
  <1>35. CASE Term(p)
    <2>1. pc[p] # "idle"
      BY <1>35 DEF Term, Running
    <2>2. Silent
      BY <1>35, <2>1, ExitIsQuiet DEF Term, Status
    <2>3. Same /\ StoreOK'
      BY <1>35, <1>0 DEF Term, StoreOK, section, files, world, holders
    <2>4. QED
      BY <2>2, <2>3 DEF Quiet
  <1>36. QED
    BY <1>1, <1>2, <1>3, <1>4, <1>5, <1>6, <1>7, <1>8, <1>9, <1>10, <1>11, <1>12,
       <1>13, <1>14, <1>15, <1>16, <1>17, <1>18, <1>19, <1>20, <1>21, <1>22, <1>23, <1>24,
       <1>25, <1>26, <1>27, <1>28, <1>29, <1>30, <1>31, <1>32, <1>33, <1>34, <1>35,
       <1>37, <1>38, <1>39, <1>40, <1>41, <1>42

-----------------------------------------------------------------------------
(* The other steps: what they do to the process, the section and the lock  *)

Granted(p) ==
    loc[p].locked \/ (IF loc[p].borrowed THEN lock = Coordinator ELSE lock \in {NoOwner, DeadOwner})

\* Every step of one process that is not quiet: what it does to the process
\* that moves to l with variables r, to the section and to the lock.
Starts(p, l, r) ==
    /\ Start(p) /\ pc[p] = "idle"
    /\ l \in BeforeLock \ {"idle"} /\ Keeps(NoLocals, r)
    /\ UNCHANGED <<cfg, baseline, origin, lock, child>>

Locks(p, l, r) ==
    /\ AcquireLock(p) /\ pc[p] = "lock" /\ Granted(p)
    /\ l \in {"policy", "rsRestore", "rpSet", "mrDown"}
    /\ r.locked /\ r.borrowed = loc[p].borrowed /\ r.rollback = loc[p].rollback
    /\ lock' = IF ~loc[p].locked /\ ~loc[p].borrowed THEN p ELSE lock
    /\ UNCHANGED <<cfg, baseline, origin, child>>

Captures(p, l, r) ==
    /\ Capture(p) /\ pc[p] = "capture" /\ l = "candidate"
    /\ r.rollback /\ r.locked = loc[p].locked /\ r.borrowed = loc[p].borrowed
    /\ baseline' = IF baseline = NoProfile THEN cfg ELSE baseline
    /\ UNCHANGED <<cfg, origin, lock, child>>

Attempts(p, l, r) ==
    /\ Attempt(p) /\ pc[p] = "attempt" /\ l = "ifdown" /\ Keeps(loc[p], r)
    /\ UNCHANGED <<baseline, origin, lock, child>>

Disarms(p, l, r) ==
    /\ Disarm(p) /\ pc[p] = "disarm" /\ l \in {"mrAfter", "xPower"}
    /\ ~r.rollback /\ r.locked = loc[p].locked /\ r.borrowed = loc[p].borrowed
    /\ UNCHANGED <<cfg, baseline, origin, lock, child>>

Restores(p, l, r) ==
    /\ ResetRestore(p) /\ pc[p] = "rsRestore" /\ l = "rsDown" /\ Keeps(loc[p], r)
    /\ baseline # NoProfile /\ cfg' = baseline
    /\ UNCHANGED <<baseline, origin, lock, child>>

Drops(p, l, r) ==
    /\ ResetDrop(p) /\ pc[p] = "rsDrop" /\ l = "xPower" /\ Keeps(loc[p], r)
    /\ baseline' = NoProfile
    /\ UNCHANGED <<cfg, origin, lock, child>>

RollsBack(p, l, r) ==
    /\ ExitRollback(p) /\ pc[p] = "xRestore" /\ l = "xDown" /\ Keeps(loc[p], r)
    /\ loc[p].rollback
    /\ UNCHANGED <<baseline, origin, lock, child>>

Unlocks(p, l, r) ==
    /\ ExitUnlock(p) /\ pc[p] = "xLock" /\ l = "idle" /\ r = NoLocals
    /\ lock' = IF loc[p].locked /\ ~loc[p].borrowed THEN NoOwner ELSE lock
    /\ UNCHANGED <<cfg, baseline, origin, child>>

Dies(p, l, r) ==
    /\ Kill(p) /\ l = "idle" /\ r = NoLocals
    /\ lock' = IF lock = p THEN DeadOwner ELSE lock
    /\ UNCHANGED <<cfg, baseline, origin, child>>

Loud(p) ==
    \E l, r :
        /\ Moves(p, l, r)
        /\ StoreOK'
        /\ UNCHANGED <<hist.orphaned, hist.disturbed>> /\ UNCHANGED coord
        /\ \/ Starts(p, l, r) \/ Locks(p, l, r) \/ Captures(p, l, r) \/ Attempts(p, l, r)
           \/ Disarms(p, l, r) \/ Restores(p, l, r) \/ Drops(p, l, r)
           \/ RollsBack(p, l, r) \/ Unlocks(p, l, r) \/ Dies(p, l, r)

\* Every step of a process is quiet or loud.
LEMMA LoudSteps ==
    ASSUME TypeOK, NEW p \in Proc,
           \/ Start(p) \/ AcquireLock(p) \/ Capture(p) \/ Attempt(p) \/ Disarm(p)
           \/ ResetRestore(p) \/ ResetDrop(p) \/ ExitRollback(p) \/ ExitUnlock(p) \/ Kill(p)
    PROVE  Quiet(p) \/ Loud(p)
  <1> DEFINE Silent == \E l, s : Moves(p, l, s) /\ Keeps(loc[p], s) /\ Follows(pc[p], l)
             Same == UNCHANGED <<cfg, baseline, origin, lock, coord, child>>
                     /\ UNCHANGED <<hist.orphaned, hist.disturbed>>
  <1>0. Typed(pc[p], loc[p]) /\ StoreOK
    BY TypedNow DEF TypeOK
  <1> USE DEF section, files, world, holders
  <1>1. CASE Start(p)
    <2>1. PICK c \in Commands, f \in Profile \cup {NoProfile}, w \in {"default", "allow", "block"} :
             /\ c = "apply-manual" => f \in Profile
             /\ To(p, FirstStep(c), [NoLocals EXCEPT !.cmd = c, !.arg = f, !.want = w])
      <3>1. PICK c \in Commands, f \in Manual, w \in {"default", "allow", "block"} :
               To(p, FirstStep(c),
                  [NoLocals EXCEPT !.cmd = c,
                                   !.arg = IF c = "apply-manual" THEN f ELSE NoProfile,
                                   !.want = IF c = "roaming-policy-set" THEN w ELSE "default"])
        BY <1>1 DEF Start
      <3>2. f \in Profile
        BY EngineAssumption
      <3>3. (IF c = "roaming-policy-set" THEN w ELSE "default") \in {"default", "allow", "block"}
        OBVIOUS
      <3>4. CASE c = "apply-manual"
        BY <3>1, <3>2, <3>3, <3>4
      <3>5. CASE c # "apply-manual"
        BY <3>1, <3>2, <3>3, <3>5
      <3>6. QED
        BY <3>4, <3>5
    <2> DEFINE t == [NoLocals EXCEPT !.cmd = c, !.arg = f, !.want = w]
    <2>2. Typed(FirstStep(c), t) /\ FirstStep(c) \in BeforeLock \ {"idle"} /\ Keeps(NoLocals, t)
      BY <2>1, TypedStart
    <2>3. To(p, FirstStep(c), t)
      BY <2>1
    <2>4. /\ pc[p] = "idle" /\ StoreOK' /\ UNCHANGED <<hist.orphaned, hist.disturbed>>
          /\ UNCHANGED <<cfg, baseline, origin, lock, coord, child>>
      BY <1>0, <1>1, ZenonT(60) DEF Start, StoreOK
    <2> HIDE DEF t
    <2>5. QED
      BY <1>1, <2>2, <2>3, <2>4, SMTT(30) DEF Loud, Moves, Starts
  <1>2. CASE AcquireLock(p)
    <2> DEFINE t == [loc[p] EXCEPT !.locked = TRUE]
    <2>1. pc[p] = "lock" /\ Typed("lock", loc[p])
      BY <1>0, <1>2 DEF AcquireLock
    <2>2. /\ StoreOK' /\ UNCHANGED <<hist.orphaned, hist.disturbed>>
          /\ UNCHANGED <<cfg, baseline, origin, coord, child>>
      BY <1>0, <1>2 DEF AcquireLock, StoreOK
    <2>3. CASE Granted(p)
      <3>1. /\ Typed(AfterLock(loc[p].cmd), t)
            /\ AfterLock(loc[p].cmd) \in {"policy", "rsRestore", "rpSet", "mrDown"}
            /\ t.locked /\ t.borrowed = loc[p].borrowed /\ t.rollback = loc[p].rollback
        BY <2>1, TypedGranted
      <3>2. /\ To(p, AfterLock(loc[p].cmd), t)
            /\ lock' = IF ~loc[p].locked /\ ~loc[p].borrowed THEN p ELSE lock
        BY <1>2, <2>3 DEF AcquireLock, Granted
      <3> HIDE DEF t
      <3>3. QED
        BY <1>2, <2>1, <2>2, <2>3, <3>1, <3>2 DEF Loud, Moves, Locks
    <2>4. CASE ~Granted(p)
      <3>1. Silent
        BY <1>2, <2>1, <2>4, ExitIsQuiet DEF AcquireLock, Granted, Status
      <3>2. lock' = lock
        BY <1>2, <2>4 DEF AcquireLock, Granted
      <3>3. QED
        BY <2>2, <3>1, <3>2 DEF Quiet
    <2>5. QED
      BY <2>3, <2>4
  <1>3. CASE Capture(p)
    <2>1. pc[p] = "capture" /\ Typed("capture", loc[p]) /\ cfg \in Config
      BY <1>0, <1>3 DEF Capture, StoreOK
    <2>2. Candidates(p) \in Seq(Profile)
      BY <2>1, CandidatesType
    <2>3. CASE Exit(p, 1) /\ UNCHANGED baseline
      <3>1. Silent
        BY <2>1, <2>3, ExitIsQuiet DEF Status
      <3>2. Same /\ StoreOK'
        BY <1>0, <1>3, <2>3 DEF Capture, StoreOK
      <3>3. QED
        BY <3>1, <3>2 DEF Quiet
    <2> DEFINE q == Candidates(p)
               t == Captured(loc[p], cfg, q)
    <2>4. CASE /\ To(p, "candidate", t)
               /\ baseline' = IF baseline = NoProfile THEN cfg ELSE baseline
      <3>1. /\ StoreOK' /\ UNCHANGED <<hist.orphaned, hist.disturbed>>
            /\ UNCHANGED <<cfg, origin, lock, coord, child>>
        BY <1>0, <1>3, <2>4 DEF Capture, StoreOK
      <3>2. q \in Seq(Profile)
        BY <2>2
      <3> HIDE DEF q
      <3>3. /\ Typed("candidate", t) /\ t.rollback
            /\ t.locked = loc[p].locked /\ t.borrowed = loc[p].borrowed
        BY <2>1, <3>2, TypedCapture
      <3> HIDE DEF t
      <3>4. QED
        BY <1>3, <2>1, <2>4, <3>1, <3>3 DEF Loud, Moves, Captures
    <2>5. QED
      BY <1>3, <2>3, <2>4 DEF Capture, Captured
  <1>4. CASE Attempt(p)
    <2>1. pc[p] = "attempt" /\ Typed("attempt", loc[p])
      BY <1>0, <1>4 DEF Attempt
    <2>2. loc[p].plan \in Seq(Profile) /\ loc[p].plan # <<>>
      BY <1>4, <2>1 DEF Attempt, Typed, Locals
    <2> DEFINE f == Head(loc[p].plan)
               q == Tail(loc[p].plan)
               t == [loc[p] EXCEPT !.plan = q, !.cur = f]
    <2>3. f \in Profile /\ q \in Seq(Profile)
      BY <2>2
    <2>4. set_profile(f) \in Config
      BY <2>3, ConfigType
    <2>5. To(p, "ifdown", t)
      BY <1>4 DEF Attempt
    <2>6. cfg' \in Config
      BY <1>4, <2>4 DEF Attempt
    <2>7. /\ StoreOK' /\ UNCHANGED <<hist.orphaned, hist.disturbed>>
          /\ UNCHANGED <<baseline, origin, lock, coord, child>>
      BY <1>0, <1>4, <2>6 DEF Attempt, StoreOK
    <2> HIDE DEF f, q
    <2>8. Typed("ifdown", t) /\ Keeps(loc[p], t)
      BY <2>1, <2>3, TypedAttempt
    <2> HIDE DEF t
    <2>9. QED
      BY <1>4, <2>1, <2>5, <2>7, <2>8 DEF Loud, Moves, Attempts
  <1>5. CASE Disarm(p)
    <2> DEFINE t == [loc[p] EXCEPT !.rollback = FALSE]
    <2>1. pc[p] = "disarm" /\ Typed("disarm", loc[p]) /\ Return(p, 0, t)
      BY <1>0, <1>5 DEF Disarm
    <2>2. /\ Typed("disarm", t) /\ ~t.rollback
          /\ t.locked = loc[p].locked /\ t.borrowed = loc[p].borrowed
      BY <2>1, TypedDisarm
    <2>3. /\ StoreOK' /\ UNCHANGED <<hist.orphaned, hist.disturbed>>
          /\ UNCHANGED <<cfg, baseline, origin, lock, coord, child>>
      BY <1>0, <1>5 DEF Disarm, StoreOK
    <2> HIDE DEF t
    <2> DEFINE l == IF t.resetting THEN "mrAfter" ELSE "xPower"
               s == [t EXCEPT !.status = 0]
    <2>4. Typed(l, s) /\ Keeps(t, s)
      BY <2>2, TypedReturn DEF Status
    <2>5. To(p, l, s) /\ l \in {"mrAfter", "xPower"}
      BY <2>1 DEF Return
    <2>6. ~s.rollback /\ s.locked = loc[p].locked /\ s.borrowed = loc[p].borrowed
      BY <2>2, <2>4 DEF Keeps
    <2> HIDE DEF l, s
    <2>7. QED
      BY <1>5, <2>1, <2>3, <2>4, <2>5, <2>6 DEF Loud, Moves, Disarms
  <1>6. CASE ResetRestore(p)
    <2>1. pc[p] = "rsRestore" /\ Typed("rsRestore", loc[p]) /\ baseline # NoProfile
      BY <1>0, <1>6 DEF ResetRestore
    <2>2. Typed("rsDown", loc[p]) /\ Keeps(loc[p], loc[p])
      BY <2>1, TypedGo DEF PC, Applying, Trial
    <2>3. /\ StoreOK' /\ UNCHANGED <<hist.orphaned, hist.disturbed>>
          /\ UNCHANGED <<baseline, origin, lock, coord, child>>
      BY <1>0, <1>6 DEF ResetRestore, StoreOK
    <2>4. CASE cfg' = baseline /\ Go(p, "rsDown")
      BY <1>6, <2>1, <2>2, <2>3, <2>4 DEF Loud, Moves, Restores, Go
    <2>5. CASE Exit(p, 1) /\ UNCHANGED cfg
      BY <2>1, <2>3, <2>5, ExitIsQuiet DEF Quiet, Status
    <2>6. QED
      BY <1>6, <2>4, <2>5 DEF ResetRestore
  <1>7. CASE ResetDrop(p)
    <2> DEFINE t == [loc[p] EXCEPT !.status = 0]
    <2>1. pc[p] = "rsDrop" /\ To(p, "xPower", t)
      BY <1>7 DEF ResetDrop, Exit
    <2>2. Typed("xPower", t) /\ Keeps(loc[p], t)
      BY <1>0, TypedExit DEF Status
    <2>3. /\ StoreOK' /\ UNCHANGED <<hist.orphaned, hist.disturbed>> /\ baseline' = NoProfile
          /\ UNCHANGED <<cfg, origin, lock, coord, child>>
      BY <1>0, <1>7 DEF ResetDrop, StoreOK
    <2> HIDE DEF t
    <2>4. QED
      BY <1>7, <2>1, <2>2, <2>3 DEF Loud, Moves, Drops
  <1>8. CASE ExitRollback(p)
    <2>1. /\ pc[p] = "xRestore" /\ Typed("xRestore", loc[p])
          /\ loc[p].rollback /\ loc[p].old \in Config
      BY <1>0, <1>8 DEF ExitRollback, Typed, LocalOK
    <2>2. Typed("xDown", loc[p]) /\ Keeps(loc[p], loc[p])
      BY <2>1, TypedGo DEF PC, Applying, Trial
    <2>3. /\ StoreOK' /\ UNCHANGED <<hist.orphaned, hist.disturbed>>
          /\ UNCHANGED <<baseline, origin, lock, coord, child>>
      BY <1>0, <1>8, <2>1 DEF ExitRollback, StoreOK
    <2>4. CASE Go(p, "xDown")
      BY <1>8, <2>1, <2>2, <2>3, <2>4 DEF Loud, Moves, RollsBack, Go
    <2>5. CASE To(p, "xLock", [loc[p] EXCEPT !.unwritten = TRUE]) /\ UNCHANGED cfg
      <3>1. Follows("xRestore", "xLock")
        BY Positions DEF Exiting
      <3>2. QED
        BY <2>1, <2>3, <2>5, <3>1, TypedUnwritten DEF Quiet, Moves
    <2>6. QED
      BY <1>8, <2>4, <2>5 DEF ExitRollback
  <1>9. CASE ExitUnlock(p)
    <2>1. /\ StoreOK' /\ UNCHANGED <<hist.orphaned, hist.disturbed>>
          /\ lock' = IF loc[p].locked /\ ~loc[p].borrowed THEN NoOwner ELSE lock
          /\ UNCHANGED <<cfg, baseline, origin, coord, child>>
      BY <1>0, <1>9 DEF ExitUnlock, StoreOK
    <2>2. QED
      BY <1>9, <2>1, TypedEnd DEF ExitUnlock, Loud, Moves, Unlocks
  <1>10. CASE Kill(p)
    <2>1. /\ UNCHANGED <<hist.orphaned, hist.disturbed>>
          /\ hist' \in [verified : SUBSET (Sim \X (Profile \cup {NoProfile})),
                        powerLost : BOOLEAN, orphaned : BOOLEAN, disturbed : BOOLEAN]
      BY <1>0, <1>10 DEF Kill, StoreOK, Typed, Locals
    <2>2. /\ StoreOK'
          /\ lock' = IF lock = p THEN DeadOwner ELSE lock
          /\ UNCHANGED <<cfg, baseline, origin, coord, child>>
      BY <1>0, <1>10, <2>1 DEF Kill, StoreOK
    <2>3. QED
      BY <1>10, <2>1, <2>2, TypedEnd DEF Kill, Loud, Moves, Dies
  <1>11. QED
    BY <1>1, <1>2, <1>3, <1>4, <1>5, <1>6, <1>7, <1>8, <1>9, <1>10

-----------------------------------------------------------------------------
(* Type correctness *)

\* A typed move over typed files keeps the type.
LEMMA MoveTypes ==
    ASSUME TypeOK, NEW p \in Proc, NEW l, NEW r, Moves(p, l, r), StoreOK'
    PROVE  TypeOK'
  BY TypedMove DEF TypeOK

Around ==
    \/ CoordAcquire \/ CoordSwitch \/ CoordReap \/ CoordRelease \/ CoordKill
    \/ RegistrationChanges \/ UserEdit

\* Every step is a process's, the Coordinator's start of a child, or around them.
LEMMA Steps ==
    ASSUME TypeOK, Next
    PROVE  (\E p \in Proc : Quiet(p) \/ Loud(p) \/ CoordReconcile(p)) \/ Around
  <1>1. ASSUME NEW p \in Proc, Step(p)
        PROVE  Quiet(p) \/ Loud(p)
    BY <1>1, QuietSteps, LoudSteps DEF Step
  <1>2. ASSUME NEW p \in Proc, Start(p) \/ Term(p) \/ Kill(p)
        PROVE  Quiet(p) \/ Loud(p)
    BY <1>2, QuietSteps, LoudSteps
  <1>3. QED
    BY <1>1, <1>2 DEF Next, Coordinate, Around

\* The initial state is typed,
LEMMA InitType == Init => TypeOK
  <1> SUFFICES ASSUME Init PROVE TypeOK
    OBVIOUS
  <1>1. cfg \in Config
    <2>1. PICK a \in Apn : cfg = [apn |-> a, auth |-> "-", ip |-> "-"]
      BY DEF Init
    <2>2. QED
      BY <2>1 DEF Config, Auth, IpType
  <1>2. hist \in [verified : SUBSET (Sim \X (Profile \cup {NoProfile})),
                  powerLost : BOOLEAN, orphaned : BOOLEAN, disturbed : BOOLEAN]
    BY DEF Init
  <1>3. StoreOK
    BY <1>1, <1>2 DEF Init, StoreOK, Registration
  <1>4. Typed("idle", NoLocals)
    BY TypedEnd
  <1>5. QED
    BY <1>3, <1>4 DEF Init, TypeOK, Typed

\* and every step keeps it so.
LEMMA TypeStep == TypeOK /\ [Next]_vars => TypeOK'
  <1> SUFFICES ASSUME TypeOK, [Next]_vars PROVE TypeOK'
    OBVIOUS
  <1> USE DEF section, files, world, holders
  <1>1. ASSUME NEW p \in Proc, Quiet(p) PROVE TypeOK'
    BY <1>1, MoveTypes DEF Quiet
  <1>2. ASSUME NEW p \in Proc, Loud(p) PROVE TypeOK'
    BY <1>2, MoveTypes DEF Loud
  <1>3. ASSUME NEW p \in Proc, CoordReconcile(p) PROVE TypeOK'
    <2> DEFINE t == [NoLocals EXCEPT !.cmd = "reconcile", !.borrowed = TRUE]
    <2>1. Moves(p, "readSim", t)
      BY <1>3, TypedChild DEF CoordReconcile, Moves
    <2>2. StoreOK'
      BY <1>3 DEF CoordReconcile, TypeOK, StoreOK
    <2>3. QED
      BY <2>1, <2>2, MoveTypes
  <1>4. ASSUME Around PROVE TypeOK'
    <2>1. UNCHANGED <<pc, loc>>
      BY <1>4 DEF Around, CoordAcquire, CoordSwitch, CoordReap, CoordRelease, CoordKill,
                  RegistrationChanges, UserEdit
    <2>2. StoreOK'
      <3>1. CASE CoordAcquire \/ CoordSwitch \/ CoordReap \/ CoordRelease \/ RegistrationChanges
        BY <3>1 DEF CoordAcquire, CoordSwitch, CoordReap, CoordRelease, RegistrationChanges,
                    TypeOK, StoreOK
      <3>2. CASE CoordKill
        <4>1. hist' \in [verified : SUBSET (Sim \X (Profile \cup {NoProfile})),
                         powerLost : BOOLEAN, orphaned : BOOLEAN, disturbed : BOOLEAN]
          BY <3>2 DEF CoordKill, TypeOK, StoreOK
        <4>2. QED
          BY <3>2, <4>1 DEF CoordKill, TypeOK, StoreOK
      <3>3. CASE UserEdit
        <4>1. cfg' \in Config /\ origin' \in Config
          <5>1. CASE UNCHANGED <<cfg, origin>>
            BY <5>1 DEF TypeOK, StoreOK
          <5>2. CASE \E a \in Apn : cfg' = [apn |-> a, auth |-> "none", ip |-> "-"]
            <6>1. PICK a \in Apn : cfg' = [apn |-> a, auth |-> "none", ip |-> "-"]
              BY <5>2
            <6>2. cfg' \in Config
              BY <6>1 DEF Config, Auth, IpType
            <6>3. origin' = (IF baseline = NoProfile THEN cfg' ELSE origin) \/ origin' = origin
              BY <3>3 DEF UserEdit
            <6>4. QED
              BY <6>2, <6>3 DEF TypeOK, StoreOK
          <5>3. QED
            BY <3>3, <5>1, <5>2 DEF UserEdit
        <4>2. policy' \in {"default", "allow", "block", "invalid"}
          BY <3>3 DEF UserEdit, TypeOK, StoreOK
        <4>3. QED
          BY <3>3, <4>1, <4>2 DEF UserEdit, TypeOK, StoreOK
      <3>4. QED
        BY <1>4, <3>1, <3>2, <3>3 DEF Around
    <2>3. QED
      BY <2>1, <2>2 DEF TypeOK
  <1>5. CASE UNCHANGED vars
    BY <1>5 DEF vars, TypeOK, StoreOK
  <1>6. QED
    BY <1>1, <1>2, <1>3, <1>4, <1>5, Steps

\* The engine's state keeps its shape, in every configuration: what a process
\* in a given position may hold, and a rollback always with a profile.
THEOREM TypeCorrect == Spec => []TypeOK
  <1>1. QED
    BY InitType, TypeStep, PTL DEF Spec
-----------------------------------------------------------------------------
(* The lock, the trial and the baseline *)

Recoverable == hist.disturbed \/ Origin!OriginRecoverable

Safe == HolderInv /\ TrialInv /\ Recoverable

\* The lock and its lending single out one process.
LEMMA SafeAlone ==
    ASSUME HolderInv, NEW p \in Proc, NEW q \in Proc, loc[p].locked, loc[q].locked
    PROVE  p = q
  BY EngineAssumption DEF HolderInv

\* A quiet step keeps the strengthened invariant;
LEMMA QuietSafe ==
    ASSUME TypeOK, Safe, NEW p \in Proc, Quiet(p)
    PROVE  Safe'
  <1>1. PICK l, r : Moves(p, l, r) /\ Keeps(loc[p], r) /\ Follows(pc[p], l)
    BY DEF Quiet
  <1>2. /\ pc'[p] = l /\ loc'[p] = r
        /\ \A q \in Proc \ {p} : pc'[q] = pc[q] /\ loc'[q] = loc[q]
    BY <1>1, TypedMove
  <1>3. /\ UNCHANGED <<cfg, baseline, origin, lock, coord, child>>
        /\ hist'.disturbed = hist.disturbed
    BY DEF Quiet
  <1>4. HolderInv'
    BY <1>1, <1>2, <1>3 DEF Safe, HolderInv, Keeps, Follows
  <1>5. TrialInv'
    <2> SUFFICES ASSUME NEW q \in Proc
                 PROVE  /\ pc'[q] \notin BeforeLock \cup Exiting => loc'[q].locked
                        /\ pc'[q] \in Trial => loc'[q].rollback
                        /\ loc'[q].rollback => loc'[q].locked /\ pc'[q] \in Trial \cup Exiting
                                               /\ baseline' # NoProfile
                        /\ pc'[q] \in Restored => baseline' # NoProfile /\ (hist'.disturbed \/ cfg' = baseline')
      BY DEF TrialInv
    <2>1. CASE q = p
      BY <1>1, <1>2, <1>3, <2>1 DEF Safe, TrialInv, Keeps, Follows
    <2>2. CASE q # p
      BY <1>2, <1>3, <2>2 DEF Safe, TrialInv
    <2>3. QED
      BY <2>1, <2>2
  <1>6. Recoverable'
    BY <1>3 DEF Safe, Recoverable, Origin!OriginRecoverable
  <1>7. QED
    BY <1>4, <1>5, <1>6 DEF Safe

\* so does a loud one: the others hold no lock while it changes the section;
LEMMA LoudSafe ==
    ASSUME TypeOK, Safe, NEW p \in Proc, Loud(p)
    PROVE  Safe'
  <1>1. PICK l, r :
           /\ Moves(p, l, r) /\ UNCHANGED coord
           /\ \/ Starts(p, l, r) \/ Locks(p, l, r) \/ Captures(p, l, r) \/ Attempts(p, l, r)
              \/ Disarms(p, l, r) \/ Restores(p, l, r) \/ Drops(p, l, r)
              \/ RollsBack(p, l, r) \/ Unlocks(p, l, r) \/ Dies(p, l, r)
    BY DEF Loud
  <1>2. /\ pc'[p] = l /\ loc'[p] = r
        /\ \A q \in Proc \ {p} : pc'[q] = pc[q] /\ loc'[q] = loc[q]
    BY <1>1, TypedMove
  <1>3. \A q \in Proc : loc[p].locked /\ loc[q].locked => p = q
    BY SafeAlone DEF Safe
  <1>4. cfg # NoProfile /\ p \notin {Coordinator, NoOwner, DeadOwner}
        /\ Coordinator \notin {NoOwner, DeadOwner}
    BY EngineAssumption DEF TypeOK, StoreOK
  <1>5. ~NoLocals.locked /\ ~NoLocals.borrowed /\ ~NoLocals.rollback
    BY TypedEnd
  <1>6. HolderInv /\ TrialInv
    BY DEF Safe
  <1>d. hist'.disturbed = hist.disturbed
    BY DEF Loud
  \* The lock: only Locks, Unlocks and Dies touch it.
  <1>7. HolderInv'
    <2>1. CASE Locks(p, l, r)
      <3>1. /\ l # "idle" /\ r.locked /\ r.borrowed = loc[p].borrowed /\ child' = child
            /\ lock' = IF ~loc[p].locked /\ ~loc[p].borrowed THEN p ELSE lock
        BY <2>1 DEF Locks
      <3>2. CASE loc[p].locked \/ loc[p].borrowed
        BY <1>1, <1>2, <1>6, <3>1, <3>2 DEF HolderInv
      <3>3. CASE ~loc[p].locked /\ ~loc[p].borrowed
        <4>1. lock \in {NoOwner, DeadOwner} /\ lock' = p
          BY <2>1, <3>1, <3>3 DEF Locks, Granted
        <4>2. \A q \in Proc : q \notin {NoOwner, DeadOwner}
          BY EngineAssumption
        <4>3. \A q \in Proc : ~(loc[q].locked /\ ~loc[q].borrowed)
          BY <1>6, <4>1, <4>2 DEF HolderInv
        <4>4. coord' \notin {"holding", "waiting"} /\ lock' # Coordinator
          BY <1>1, <1>4, <1>6, <4>1 DEF HolderInv
        <4>5. QED
          BY <1>1, <1>2, <1>6, <3>1, <3>3, <4>1, <4>3, <4>4 DEF HolderInv
      <3>4. QED
        BY <3>2, <3>3
    <2>2. CASE Unlocks(p, l, r)
      BY <1>1, <1>2, <1>4, <1>5, <1>6, <2>2 DEF Unlocks, HolderInv
    <2>3. CASE Dies(p, l, r)
      BY <1>1, <1>2, <1>4, <1>5, <1>6, <2>3 DEF Dies, HolderInv
    <2>4. CASE Starts(p, l, r)
      BY <1>1, <1>2, <1>5, <1>6, <2>4 DEF Starts, Keeps, HolderInv, BeforeLock
    <2>5. ASSUME \/ Captures(p, l, r) \/ Attempts(p, l, r) \/ Disarms(p, l, r)
                 \/ Restores(p, l, r) \/ Drops(p, l, r) \/ RollsBack(p, l, r)
          PROVE  HolderInv'
      <3>1. l # "idle" /\ r.locked = loc[p].locked /\ r.borrowed = loc[p].borrowed
        BY <2>5 DEF Captures, Attempts, Disarms, Restores, Drops, RollsBack, Keeps
      <3>2. UNCHANGED <<lock, child>>
        BY <2>5 DEF Captures, Attempts, Disarms, Restores, Drops, RollsBack
      <3>3. QED
        BY <1>1, <1>2, <1>6, <3>1, <3>2 DEF HolderInv
    <2>6. QED
      BY <1>1, <2>1, <2>2, <2>3, <2>4, <2>5
  \* The process that moves keeps its own part; the others hold no lock while
  \* the section or the baseline changes.
  <1> DEFINE Part(q) ==
                 /\ pc[q] \notin BeforeLock \cup Exiting => loc[q].locked
                 /\ pc[q] \in Trial => loc[q].rollback
                 /\ loc[q].rollback => loc[q].locked /\ pc[q] \in Trial \cup Exiting
                                       /\ baseline # NoProfile
                 /\ pc[q] \in Restored => baseline # NoProfile /\ (hist.disturbed \/ cfg = baseline)
  <1>8. Part(p)'
    <2>1. Part(p)
      BY <1>6 DEF TrialInv
    <2>2. CASE Starts(p, l, r)
      BY <1>2, <1>5, <2>2 DEF Starts, Keeps, BeforeLock, Trial, Restored
    <2>3. CASE Locks(p, l, r)
      BY <1>2, <1>d, <2>1, <2>3 DEF Locks, BeforeLock, Trial, Exiting, Restored
    <2>4. CASE Captures(p, l, r)
      BY <1>2, <1>4, <1>d, <2>1, <2>4 DEF Captures, BeforeLock, Trial, Exiting, Restored
    <2>5. CASE Attempts(p, l, r)
      BY <1>2, <1>d, <2>1, <2>5 DEF Attempts, Keeps, BeforeLock, Trial, Exiting, Restored
    <2>6. CASE Disarms(p, l, r)
      BY <1>2, <1>d, <2>1, <2>6 DEF Disarms, BeforeLock, Trial, Exiting, Restored
    <2>7. CASE Restores(p, l, r)
      BY <1>2, <1>d, <2>1, <2>7 DEF Restores, Keeps, BeforeLock, Trial, Exiting, Restored
    <2>8. CASE Drops(p, l, r)
      BY <1>2, <1>d, <2>1, <2>8 DEF Drops, Keeps, BeforeLock, Trial, Exiting, Restored
    <2>9. CASE RollsBack(p, l, r)
      BY <1>2, <1>d, <2>1, <2>9 DEF RollsBack, Keeps, BeforeLock, Trial, Exiting, Restored
    <2>10. CASE Unlocks(p, l, r) \/ Dies(p, l, r)
      BY <1>2, <1>5, <2>10 DEF Unlocks, Dies, BeforeLock, Trial, Exiting, Restored
    <2>11. QED
      BY <1>1, <2>2, <2>3, <2>4, <2>5, <2>6, <2>7, <2>8, <2>9, <2>10
  <1>9. ASSUME NEW q \in Proc, q # p PROVE Part(q)'
    <2>1. Part(q) /\ pc'[q] = pc[q] /\ loc'[q] = loc[q] /\ hist'.disturbed = hist.disturbed
      BY <1>2, <1>d, <1>6, <1>9 DEF TrialInv
    <2>2. CASE UNCHANGED <<cfg, baseline>>
      BY <2>1, <2>2
    <2>3. CASE Captures(p, l, r)
      BY <2>1, <2>3 DEF Captures
    <2>4. ASSUME loc[p].locked PROVE Part(q)'
      <3>1. ~loc[q].locked
        BY <1>3, <1>9, <2>4
      <3>2. pc[q] \in BeforeLock \cup Exiting /\ ~loc[q].rollback /\ pc[q] \notin Trial
        BY <2>1, <3>1
      <3>3. pc[q] \notin Restored
        BY <3>2 DEF BeforeLock, Exiting, Restored
      <3>4. QED
        BY <2>1, <3>2, <3>3
    <2>5. ASSUME Attempts(p, l, r) \/ Restores(p, l, r) \/ Drops(p, l, r) \/ RollsBack(p, l, r)
          PROVE  loc[p].locked
      BY <1>6, <2>5 DEF Attempts, Restores, Drops, RollsBack, TrialInv, BeforeLock, Exiting
    <2>6. CASE \/ Starts(p, l, r) \/ Locks(p, l, r) \/ Disarms(p, l, r)
               \/ Unlocks(p, l, r) \/ Dies(p, l, r)
      BY <2>2, <2>6 DEF Starts, Locks, Disarms, Unlocks, Dies
    <2>7. QED
      BY <1>1, <2>3, <2>4, <2>5, <2>6
  <1>10. TrialInv'
    BY <1>8, <1>9 DEF TrialInv
  <1>11. Recoverable'
    <2> SUFFICES ASSUME ~hist.disturbed PROVE (Origin!OriginRecoverable)'
      BY <1>d DEF Recoverable
    <2>0. Origin!OriginRecoverable
      BY DEF Safe, Recoverable
    <2>1. CASE Captures(p, l, r)
      BY <1>4, <2>0, <2>1 DEF Captures, Origin!OriginRecoverable
    <2>2. CASE Attempts(p, l, r) \/ RollsBack(p, l, r)
      <3>1. loc[p].rollback
        BY <1>6, <2>2 DEF Attempts, RollsBack, TrialInv, Trial
      <3>2. baseline # NoProfile
        BY <1>6, <3>1 DEF TrialInv
      <3>3. QED
        BY <2>0, <2>2, <3>2 DEF Attempts, RollsBack, Origin!OriginRecoverable
    <2>3. CASE Restores(p, l, r)
      BY <2>0, <2>3 DEF Restores, Origin!OriginRecoverable
    <2>4. CASE Drops(p, l, r)
      <3>1. baseline # NoProfile /\ cfg = baseline
        BY <1>6, <2>4 DEF Drops, TrialInv, Restored
      <3>2. QED
        BY <2>0, <2>4, <3>1 DEF Drops, Origin!OriginRecoverable
    <2>5. CASE \/ Starts(p, l, r) \/ Locks(p, l, r) \/ Disarms(p, l, r)
               \/ Unlocks(p, l, r) \/ Dies(p, l, r)
      BY <2>0, <2>5 DEF Starts, Locks, Disarms, Unlocks, Dies, Origin!OriginRecoverable
    <2>6. QED
      BY <1>1, <2>1, <2>2, <2>3, <2>4, <2>5
  <1>12. QED
    BY <1>7, <1>10, <1>11 DEF Safe

\* so does what happens around the processes, until a Coordinator is killed
\* over its child;
LEMMA AroundSafe ==
    ASSUME TypeOK, Safe, Around
    PROVE  Safe' \/ hist'.orphaned
  <1> USE DEF section, files, world, holders
  <1>0. HolderInv /\ TrialInv /\ Recoverable
    BY DEF Safe
  <1>1. /\ \A q \in Proc : q \notin {Coordinator, NoOwner, DeadOwner}
        /\ Coordinator \notin {NoOwner, DeadOwner}
    BY EngineAssumption
  <1>2. UNCHANGED <<pc, loc>>
    BY DEF Around, CoordAcquire, CoordSwitch, CoordReap, CoordRelease, CoordKill,
           RegistrationChanges, UserEdit
  <1>3. CASE CoordAcquire \/ CoordReap \/ CoordRelease
    <2>1. UNCHANGED <<cfg, baseline, origin, hist>>
      BY <1>3 DEF CoordAcquire, CoordReap, CoordRelease
    <2>2. HolderInv'
      <3>1. CASE CoordAcquire
        <4>1. \A q \in Proc : ~(loc[q].locked /\ ~loc[q].borrowed)
          BY <1>0, <1>1, <3>1 DEF CoordAcquire, HolderInv
        <4>2. QED
          BY <1>0, <1>2, <3>1, <4>1 DEF CoordAcquire, HolderInv
      <3>2. CASE CoordReap
        <4>1. \A q \in Proc : ~loc[q].borrowed
          BY <1>0, <3>2 DEF CoordReap, HolderInv
        <4>2. QED
          BY <1>0, <1>2, <3>2, <4>1 DEF CoordReap, HolderInv
      <3>3. CASE CoordRelease
        <4>1. lock = Coordinator /\ child = NoOwner
          BY <1>0, <3>3 DEF CoordRelease, HolderInv
        <4>2. \A q \in Proc : ~loc[q].borrowed /\ ~loc[q].locked
          BY <1>0, <1>1, <4>1 DEF HolderInv
        <4>3. QED
          BY <1>0, <1>1, <1>2, <3>3, <4>1, <4>2 DEF CoordRelease, HolderInv
      <3>4. QED
        BY <1>3, <3>1, <3>2, <3>3
    <2>3. TrialInv' /\ Recoverable'
      BY <1>0, <1>2, <2>1 DEF TrialInv, Recoverable, Origin!OriginRecoverable
    <2>4. QED
      BY <2>2, <2>3 DEF Safe
  <1>4. CASE CoordSwitch \/ RegistrationChanges
    <2>1. UNCHANGED <<cfg, baseline, origin, lock, coord, child, hist>>
      BY <1>4 DEF CoordSwitch, RegistrationChanges
    <2>2. QED
      BY <1>0, <1>2, <2>1 DEF Safe, HolderInv, TrialInv, Recoverable, Origin!OriginRecoverable
  <1>5. CASE CoordKill
    <2>1. CASE coord = "waiting"
      BY <1>5, <2>1 DEF CoordKill, TypeOK, StoreOK
    <2>2. CASE coord # "waiting"
      <3>1. coord = "holding" /\ coord' = "idle" /\ child' = NoOwner /\ lock' = DeadOwner
            /\ UNCHANGED <<cfg, baseline, origin>> /\ hist'.disturbed = hist.disturbed
        BY <1>5, <2>2 DEF CoordKill, TypeOK, StoreOK
      <3>2. HolderInv'
        <4>1. lock = Coordinator /\ child = NoOwner
          BY <1>0, <3>1 DEF HolderInv
        <4>2. \A q \in Proc : ~loc[q].borrowed /\ ~loc[q].locked
          BY <1>0, <1>1, <4>1 DEF HolderInv
        <4>3. DeadOwner # Coordinator
          BY EngineAssumption
        <4>4. QED
          BY <1>2, <3>1, <4>2, <4>3 DEF HolderInv
      <3>3. TrialInv' /\ Recoverable'
        BY <1>0, <1>2, <3>1 DEF TrialInv, Recoverable, Origin!OriginRecoverable
      <3>4. QED
        BY <3>2, <3>3 DEF Safe
    <2>3. QED
      BY <2>1, <2>2
  \* An edit under an operation is remembered; any other meets no trial.
  <1>6. CASE UserEdit
    <2>1. UNCHANGED <<baseline, lock, coord, child>> /\ (hist.disturbed => hist'.disturbed)
      BY <1>6 DEF UserEdit, TypeOK, StoreOK
    <2>2. HolderInv'
      BY <1>0, <1>2, <2>1 DEF HolderInv
    <2>3. TrialInv'
      <3>1. UNCHANGED cfg \/ hist'.disturbed \/ \A q \in Proc : ~loc[q].locked
        BY <1>6 DEF UserEdit, TypeOK, StoreOK
      <3>2. (\A q \in Proc : ~loc[q].locked) => \A q \in Proc : pc[q] \notin Restored
        BY <1>0 DEF TrialInv, BeforeLock, Exiting, Restored
      <3>3. QED
        BY <1>0, <1>2, <2>1, <3>1, <3>2 DEF TrialInv
    <2>4. Recoverable'
      <3>1. \/ UNCHANGED <<cfg, origin>>
            \/ origin' = IF baseline = NoProfile THEN cfg' ELSE origin
        BY <1>6 DEF UserEdit
      <3>2. QED
        BY <1>0, <2>1, <3>1 DEF Recoverable, Origin!OriginRecoverable
    <2>5. QED
      BY <2>2, <2>3, <2>4 DEF Safe
  <1>7. QED
    BY <1>3, <1>4, <1>5, <1>6 DEF Around

\* and so does the start of a child.
LEMMA ChildSafe ==
    ASSUME TypeOK, Safe, NEW p \in Proc, CoordReconcile(p)
    PROVE  Safe'
  <1> USE DEF section, files, world, holders
  <1> DEFINE t == [NoLocals EXCEPT !.cmd = "reconcile", !.borrowed = TRUE]
  <1>0. HolderInv /\ TrialInv /\ Recoverable
    BY DEF Safe
  <1>1. Moves(p, "readSim", t) /\ ~t.locked /\ t.borrowed /\ ~t.rollback
    BY TypedChild DEF CoordReconcile, Moves
  <1> HIDE DEF t
  <1>2. /\ pc'[p] = "readSim" /\ loc'[p] = t
        /\ \A q \in Proc \ {p} : pc'[q] = pc[q] /\ loc'[q] = loc[q]
    BY <1>1, TypedMove
  <1>3. /\ coord = "holding" /\ coord' = "waiting" /\ child' = p
        /\ UNCHANGED <<cfg, baseline, origin, lock, hist>>
    BY DEF CoordReconcile
  <1>4. \A q \in Proc : ~loc[q].borrowed
    BY <1>0, <1>3, EngineAssumption DEF HolderInv
  <1>5. HolderInv'
    BY <1>0, <1>1, <1>2, <1>3, <1>4 DEF HolderInv
  <1>6. TrialInv'
    BY <1>0, <1>1, <1>2, <1>3 DEF TrialInv, BeforeLock, Trial, Restored
  <1>7. Recoverable'
    BY <1>0, <1>3 DEF Recoverable, Origin!OriginRecoverable
  <1>8. QED
    BY <1>5, <1>6, <1>7 DEF Safe

-----------------------------------------------------------------------------
(* Theorems *)

\* The killing of a Coordinator is remembered.
LEMMA OrphanedStays ==
    ASSUME TypeOK, Next, hist.orphaned
    PROVE  hist'.orphaned
  <1>1. ASSUME NEW p \in Proc, Quiet(p) \/ Loud(p) \/ CoordReconcile(p) PROVE hist'.orphaned
    BY <1>1 DEF Quiet, Loud, CoordReconcile
  <1>2. ASSUME Around PROVE hist'.orphaned
    BY <1>2 DEF Around, CoordAcquire, CoordSwitch, CoordReap, CoordRelease, CoordKill,
                RegistrationChanges, UserEdit, TypeOK, StoreOK
  <1>3. QED
    BY <1>1, <1>2, Steps

\* The invariant holds at first,
LEMMA EngineInit == Init => EngineInv
  <1> SUFFICES ASSUME Init PROVE EngineInv
    OBVIOUS
  <1>1. TypeOK
    BY InitType
  <1>2. \A p \in Proc : pc[p] = "idle" /\ loc[p] = NoLocals
    BY DEF Init
  <1>3. HolderInv
    BY <1>2, TypedEnd, EngineAssumption DEF Init, HolderInv
  <1>4. TrialInv
    BY <1>2, TypedEnd DEF TrialInv, BeforeLock, Trial, Restored
  <1>5. Origin!OriginRecoverable
    BY DEF Init, Origin!OriginRecoverable
  <1>6. QED
    BY <1>1, <1>3, <1>4, <1>5 DEF EngineInv

\* and every step keeps it.
LEMMA EngineStep == EngineInv /\ [Next]_vars => EngineInv'
  <1> SUFFICES ASSUME EngineInv, [Next]_vars PROVE EngineInv'
    OBVIOUS
  <1>1. TypeOK /\ TypeOK'
    BY TypeStep DEF EngineInv
  <1>2. CASE UNCHANGED vars
    <2>1. UNCHANGED <<cfg, baseline, origin, lock, coord, child, pc, loc, hist>>
      BY <1>2 DEF vars, files, holders
    <2>2. QED
      BY <1>1, <2>1 DEF EngineInv, HolderInv, TrialInv, Origin!OriginRecoverable
  <1>3. CASE Next /\ hist.orphaned
    BY <1>1, <1>3, OrphanedStays DEF EngineInv
  <1>4. CASE Next /\ ~hist.orphaned
    <2>1. Safe
      BY <1>4 DEF EngineInv, Safe, Recoverable
    <2>2. Safe' \/ hist'.orphaned
      BY <1>1, <1>4, <2>1, Steps, QuietSafe, LoudSafe, ChildSafe, AroundSafe
    <2>3. QED
      BY <1>1, <2>2 DEF EngineInv, Safe, Recoverable
  <1>5. QED
    BY <1>2, <1>3, <1>4

\* The strengthened invariant holds always.
THEOREM EngineInvariant == Spec => []EngineInv
  <1>1. QED
    BY EngineInit, EngineStep, PTL DEF Spec

\* acquire_lock, cleanup_files and the lending of the lock to a child together
\* never let two operations work on the target at once.
THEOREM OperationsAreExclusive == Spec => []OneOperation
  <1>1. EngineInv => OneOperation
    BY SafeAlone DEF EngineInv, OneOperation
  <1>2. QED
    BY <1>1, EngineInvariant, PTL

\* Whatever is killed, interrupted or retried, the profile the user had before
\* the first trial is still configured or still saved, unless somebody edited the
\* section under an operation.
THEOREM OriginIsRecoverable == Spec => []OriginRecoverable
  <1>1. EngineInv => OriginRecoverable
    BY DEF EngineInv, OriginRecoverable
  <1>2. QED
    BY <1>1, EngineInvariant, PTL

\* Each step is one the contract of module Baseline allows, unless somebody edited
\* the section under an operation.
LEMMA BaselineStep ==
    ASSUME TypeOK, TypeOK', Safe, ~hist.disturbed, [Next]_vars
    PROVE  [Origin!Next]_(Origin!bvars)
  <1> USE DEF section, files, world, holders
  <1>0. HolderInv /\ TrialInv /\ cfg \in Config /\ cfg' \in Config
    BY DEF Safe, TypeOK, StoreOK
  <1>1. ASSUME UNCHANGED <<cfg, baseline, origin>> PROVE [Origin!Next]_(Origin!bvars)
    BY <1>1 DEF Origin!bvars
  <1>2. ASSUME NEW p \in Proc, Loud(p) PROVE [Origin!Next]_(Origin!bvars)
    <2>1. PICK l, r :
             \/ Starts(p, l, r) \/ Locks(p, l, r) \/ Captures(p, l, r) \/ Attempts(p, l, r)
             \/ Disarms(p, l, r) \/ Restores(p, l, r) \/ Drops(p, l, r)
             \/ RollsBack(p, l, r) \/ Unlocks(p, l, r) \/ Dies(p, l, r)
      BY <1>2 DEF Loud
    <2>2. CASE Captures(p, l, r)
      BY <2>2 DEF Captures, Origin!bvars, Origin!Next, Origin!Save
    <2>3. CASE Attempts(p, l, r) \/ RollsBack(p, l, r)
      <3>1. loc[p].rollback
        BY <1>0, <2>3 DEF Attempts, RollsBack, TrialInv, Trial
      <3>2. baseline # NoProfile
        BY <1>0, <3>1 DEF TrialInv
      <3>3. Origin!Write(cfg')
        BY <2>3, <3>2 DEF Attempts, RollsBack, Origin!Write
      <3>4. QED
        BY <1>0, <3>3 DEF Origin!Next
    <2>4. CASE Restores(p, l, r)
      <3>1. Origin!Write(cfg')
        BY <2>4 DEF Restores, Origin!Write
      <3>2. QED
        BY <1>0, <3>1 DEF Origin!Next
    <2>5. CASE Drops(p, l, r)
      <3>1. baseline # NoProfile /\ cfg = baseline
        BY <1>0, <2>5 DEF Drops, TrialInv, Restored
      <3>2. Origin!Drop
        BY <2>5, <3>1 DEF Drops, Origin!Drop
      <3>3. QED
        BY <3>2 DEF Origin!Next
    <2>6. CASE \/ Starts(p, l, r) \/ Locks(p, l, r) \/ Disarms(p, l, r)
               \/ Unlocks(p, l, r) \/ Dies(p, l, r)
      BY <1>1, <2>6 DEF Starts, Locks, Disarms, Unlocks, Dies
    <2>7. QED
      BY <2>1, <2>2, <2>3, <2>4, <2>5, <2>6
  <1>3. ASSUME Around PROVE [Origin!Next]_(Origin!bvars)
    <2>1. CASE UserEdit
      <3>1. UNCHANGED <<cfg, baseline, origin>> \/ Origin!Edit(cfg')
        BY <2>1 DEF UserEdit, Origin!Edit
      <3>2. QED
        BY <1>0, <1>1, <3>1 DEF Origin!Next
    <2>2. CASE ~UserEdit
      BY <1>1, <1>3, <2>2 DEF Around, CoordAcquire, CoordSwitch, CoordReap, CoordRelease,
                              CoordKill, RegistrationChanges
    <2>3. QED
      BY <2>1, <2>2
  <1>4. ASSUME NEW p \in Proc, Quiet(p) \/ CoordReconcile(p)
        PROVE  [Origin!Next]_(Origin!bvars)
    BY <1>1, <1>4 DEF Quiet, CoordReconcile
  <1>5. CASE UNCHANGED vars
    BY <1>1, <1>5 DEF vars
  <1>6. QED
    BY <1>2, <1>3, <1>4, <1>5, Steps

\* No operation is orphaned where no Coordinator is killed.
NoneOrphaned == ~hist.orphaned

LEMMA NoOrphan ==
    ASSUME ~CoordMayDie
    PROVE  Spec => []NoneOrphaned
  <1>1. Init => NoneOrphaned
    BY DEF Init, NoneOrphaned
  <1>2. TypeOK /\ NoneOrphaned /\ [Next]_vars => NoneOrphaned'
    <2> SUFFICES ASSUME TypeOK, ~hist.orphaned, [Next]_vars PROVE ~hist'.orphaned
      BY DEF NoneOrphaned
    <2>1. ASSUME NEW p \in Proc, Quiet(p) \/ Loud(p) \/ CoordReconcile(p)
          PROVE  ~hist'.orphaned
      BY <2>1 DEF Quiet, Loud, CoordReconcile
    <2>2. ASSUME Around PROVE ~hist'.orphaned
      BY <2>2 DEF Around, CoordAcquire, CoordSwitch, CoordReap, CoordRelease, CoordKill,
                  RegistrationChanges, UserEdit, TypeOK, StoreOK
    <2>3. CASE UNCHANGED vars
      BY <2>3 DEF vars
    <2>4. QED
      BY <2>1, <2>2, <2>3, Steps
  <1>3. QED
    BY <1>1, <1>2, TypeCorrect, PTL DEF Spec

\* Nobody edits the section under an operation.
Undisturbed == ~hist.disturbed

\* The engine implements the Baseline contract as long as no modem or eSIM
\* operation is killed over a working child, and nobody edits the section under
\* an operation.
THEOREM EngineKeepsBaseline ==
    ASSUME ~CoordMayDie
    PROVE  Spec /\ []Undisturbed => KeepsBaseline
  <1>1. Init => Origin!Init
    BY InitType DEF Init, Origin!Init, TypeOK, StoreOK
  <1>2. /\ EngineInv /\ EngineInv' /\ NoneOrphaned /\ Undisturbed
        /\ [Next]_vars
        => [Origin!Next]_(Origin!bvars)
    BY BaselineStep DEF EngineInv, Safe, Recoverable, NoneOrphaned, Undisturbed
  <1>3. QED
    BY <1>1, <1>2, NoOrphan, EngineInvariant, PTL DEF Spec, KeepsBaseline, Origin!Spec
=============================================================================
