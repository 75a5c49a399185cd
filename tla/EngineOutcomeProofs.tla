------------------------ MODULE EngineOutcomeProofs -------------------------
(***************************************************************************)
(* Proofs of what an operation of the engine leaves behind when it ends:   *)
(* the profile it found, a roaming block, a modem that has power, a cache  *)
(* filed under the right SIM, and a section that matches the active record.*)
(*                                                                         *)
(* Sound says what holds of one process in a given position.  Its first    *)
(* half, Own, speaks of the process's own variables; its second half,      *)
(* Shared, of the section, the records, the interface and the SIM, and is  *)
(* claimed only of the process that holds the lock: no other changes them  *)
(* meanwhile.                                                              *)
(***************************************************************************)
EXTENDS ApnEngineProofs

\* No command applies with an identity read before the lock; reconcile,
\* modem-reset and roaming-policy-set read it again before they apply.
ReadsUnderLock == Commands \cap {"apply", "apply-manual"} = {}

\* Positions: the trial profile is configured; it is recorded as active; the
\* operation is over; one of the commands that do not apply is at work.
Tried == {"ifdown", "ifup", "bearer", "address", "bearerUp", "probe", "saveCache", "saveActive",
          "success", "disarm"}
Recorded == {"success", "disarm"}
Ending == Exiting \cup {"mrAfter"}
Resets == Restored \cup {"rsRestore"}
Policies == {"rpSet", "rpWrite", "rpEnforce", "rpWait"}
Cycling == {"mrDown", "mrOff", "mrOn", "mrWait", "mrUp", "mrData", "mrStop"}
Chosen == {"capture"} \cup Trial
Identified == {"lock", "policy", "preflight", "turn"} \cup Chosen

\* Nothing will start the interface again.
StaysDown(l, r) ==
    \/ l = "mrAfter"
    \/ l \in {"xPower", "xRestore"} /\ ~r.rollback
    \/ l = "xLock" /\ ~r.unwritten

Own(l, r) ==
    /\ r.restoreIf => r.locked /\ (r.resetting \/ l \in Cycling \cup Exiting)
    /\ r.unwritten => l = "xLock"
    /\ l \in {"xDown", "xUp"} => r.rollback
    /\ l \notin Ending => r.status = 0 /\ ~r.leaveDown
    /\ l \in Ending /\ r.status = 0 => ~r.rollback /\ (r.cmd \in Applies => r.locked)
    /\ r.status = 2 => /\ r.locked /\ l # "xUp"
                       /\ r.rollback => r.leaveDown
                       /\ ~r.rollback => l = "mrAfter" \/ ~r.restoreIf
    /\ l \in Resets => r.cmd = "reset"
    /\ l \in Policies => r.cmd = "roaming-policy-set"
    /\ l \in Cycling => r.cmd = "modem-reset"
    /\ l \in Tried => r.cur \in Profile
    /\ ReadsUnderLock => /\ r.cmd = "apply" => r.locked
                         /\ r.cmd # "apply-manual"
                         /\ l \in Chosen => r.cmd = "apply"

RolledBack(l, r) ==
    l \in {"xDown", "xUp"} \/ (l = "xLock" /\ r.rollback /\ ~r.unwritten)

\* An apply past its trial, its success on record.
Succeeded(l, r) ==
    l \in Ending /\ r.status = 0 /\ r.cmd \in Applies /\ ~r.unrecorded

Shared(l, r) ==
    /\ ~hist.disturbed /\ RolledBack(l, r) => cfg = r.old
    /\ r.status = 2 /\ StaysDown(l, r) /\ ~r.unstopped => iface = "down"
    /\ ~hist.disturbed /\ l \in Tried => cfg = set_profile(r.cur)
    /\ l \in Recorded /\ ~r.unrecorded
         => active = [iccid |-> r.iccid, profile |-> RecordedProfile(r.cur)]
    /\ Backend # "atdial" /\ ~hist.disturbed /\ Succeeded(l, r)
         => configured_profile_matches_active /\ active.iccid = r.iccid
    /\ ReadsUnderLock /\ r.cmd = "apply" /\ l \in Identified => r.iccid = sim
    /\ ReadsUnderLock /\ l = "saveCache" => <<r.iccid, r.cur>> \in hist.verified

Sound(l, r) == Own(l, r) /\ (r.locked => Shared(l, r))

Cached ==
    ReadsUnderLock =>
        \A s \in Sim : cache[s] # NoProfile => <<s, cache[s]>> \in hist.verified

\* The restoration of the power is armed only from the write that switches it
\* off to the exit trap, or to the write that switches it on.
PowerArmed == \A p \in Proc : loc[p].powerOff => pc[p] \in {"mrOn", "xPower"}

OutcomeInv ==
    /\ EngineInv
    /\ PowerArmed /\ PowerOffIsOwned
    /\ hist.orphaned \/ (Cached /\ \A p \in Proc : Sound(pc[p], loc[p]))
-----------------------------------------------------------------------------
(* Steps of one process: what they change *)

\* The variables the outcome depends on; s has the values of r but in S.
Names == {"cmd", "iccid", "cur", "old", "rollback", "leaveDown", "restoreIf", "powerOff",
          "resetting", "locked", "unwritten", "unstopped", "unrecorded", "status"}

Same(S, r, s) == \A f \in Names \ S : s[f] = r[f]

Still == UNCHANGED <<cfg, active, cache, sim, power, hist>>

\* On along the script, from one protected position to another.
Goes(k, l) ==
    /\ {k, l} \cap (Ending \cup BeforeLock \cup Cycling) = {}
    /\ l # "saveCache"
    /\ l \in Tried => k \in Tried
    /\ l \in Recorded => k \in Recorded
    /\ l \in Resets => k \in Resets
    /\ l \in Policies => k \in Policies
    /\ l \in Identified => k \in Identified

Walks(p) ==
    /\ Same({}, loc[p], loc'[p]) /\ Goes(pc[p], pc'[p])
    /\ pc'[p] \in Chosen => pc[p] \in Chosen \/ loc[p].cmd \in {"apply", "apply-manual"}
    /\ UNCHANGED <<sim, power, hist>>
    /\ cfg' = cfg \/ pc'[p] \notin Tried
    /\ active' = active \/ pc'[p] \notin Recorded
    /\ \/ cache' = cache
       \/ cache' = [s \in Sim |-> NoProfile]
       \/ pc[p] = "saveCache" /\ cache' = [cache EXCEPT ![loc[p].iccid] = loc[p].cur]

\* To the exit trap, or back to the modem reset, with a status that claims
\* nothing.
Fails(p) ==
    /\ Same({"status"}, loc[p], loc'[p]) /\ loc'[p].status \in {1, 3, 143}
    /\ pc[p] \notin Exiting \cup {"idle"}
    /\ \/ pc'[p] = "xPower"
       \/ /\ pc'[p] = "mrAfter" /\ loc[p].resetting
          /\ pc[p] \in {"policy", "preflight", "turn"}
    /\ Still
    /\ iface' = iface \/ pc[p] \notin BeforeLock

\* The power's part of a step, and the rest of it.
Powered(p) ==
    /\ loc'[p].powerOff => pc'[p] \in {"mrOn", "xPower"}
    /\ hist.powerLost => hist'.powerLost
    /\ power' = "off" => \/ hist'.powerLost \/ loc'[p].powerOff
                         \/ power = "off" /\ ~loc[p].powerOff

Result(p) ==
    /\ Sound(pc[p], loc[p])'
    /\ sim' = sim /\ hist.verified \subseteq hist'.verified
    /\ hist'.disturbed = hist.disturbed
    /\ loc[p].locked \/ UNCHANGED <<cfg, active, iface>>
    /\ Cached'

Settled == Safe /\ Cached /\ \A p \in Proc : Sound(pc[p], loc[p])

Ends(p) == (PowerArmed => Powered(p)) /\ (Settled => Result(p))

\* A move sets one process's position and variables.
LEMMA Moved ==
    ASSUME TypeOK, NEW p \in Proc, NEW l, NEW r, To(p, l, r)
    PROVE  /\ pc'[p] = l /\ loc'[p] = r
           /\ \A q \in Proc \ {p} : pc'[q] = pc[q] /\ loc'[q] = loc[q]
           /\ loc[p] \in Locals
  <1>1. pc \in [Proc -> PC] /\ loc \in [Proc -> Locals]
    BY DEF TypeOK
  <1>2. QED
    BY <1>1 DEF To

\* exit with a status that claims nothing.
LEMMA ExitFails ==
    ASSUME TypeOK, NEW p \in Proc, NEW c \in {1, 3, 143}, Exit(p, c),
           pc[p] \notin Exiting \cup {"idle"}, Still,
           iface' = iface \/ pc[p] \notin BeforeLock
    PROVE  Fails(p)
  <1> DEFINE t == [loc[p] EXCEPT !.status = c]
  <1>1. pc'[p] = "xPower" /\ loc'[p] = t /\ loc[p] \in Locals
    BY Moved DEF Exit
  <1>2. Same({"status"}, loc[p], t) /\ t.status = c
    BY <1>1 DEF Locals, Same, Names
  <1> HIDE DEF t
  <1>3. QED
    BY <1>1, <1>2 DEF Fails

\* The steps of the script that neither start nor end anything the outcome
\* depends on.
LEMMA Going ==
    /\ Goes("policy", "preflight") /\ Goes("turn", "preflight")
    /\ \A l \in {"turn", "check", "capture"} : Goes("preflight", l)
    /\ \A l \in {"candidate", "attempt"} : Goes("candidate", l)
    /\ Goes("attempt", "noBearer") /\ Goes("ifdown", "ifup")
    /\ \A l \in {"bearer", "attempt"} : Goes("ifup", l)
    /\ \A l \in {"bearer", "address", "bearerUp", "attempt"} : Goes("bearer", l)
    /\ \A l \in {"address", "bearerUp", "attempt"} : Goes("address", l)
    /\ Goes("noBearer", "candidate") /\ Goes("bearerUp", "probe") /\ Goes("probe", "candidate")
    /\ Goes("saveCache", "saveActive") /\ Goes("success", "disarm")
    /\ Goes("rsRestore", "rsDown") /\ Goes("rsDown", "rsUp") /\ Goes("rsUp", "rsCache")
    /\ Goes("rsCache", "rsActive") /\ Goes("rsActive", "rsDrop")
    /\ Goes("rpSet", "rpWrite") /\ Goes("rpWrite", "rpEnforce")
    /\ Goes("rpEnforce", "rpWait") /\ Goes("rpWait", "rpWait")
  BY DEF Goes, Ending, Exiting, BeforeLock, Cycling, Tried, Recorded, Resets, Restored, Policies,
         Identified, Chosen, Trial

LEMMA WalkSteps ==
    ASSUME TypeOK, NEW p \in Proc,
           \/ PreflightPending(p) \/ PreflightPassed(p) \/ NextCandidate(p) \/ AttemptsOver(p)
           \/ IfDown(p) \/ IfUp(p) \/ BearerReady(p) \/ BearerLate(p) \/ SaveCache(p)
           \/ RecordSuccess(p) \/ ResetDown(p) \/ ResetCache(p) \/ ResetActive(p)
           \/ PolicyObserve(p)
    PROVE  Walks(p)
  <1>0. loc[p] \in Locals
    BY DEF TypeOK
  <1>1. Same({}, loc[p], loc[p])
    BY DEF Same
  <1> USE DEF section, files, world, holders
  <1>2. CASE PreflightPending(p)
    <2>1. PICK g \in refresh_modem_status(p), b \in BOOLEAN :
             To(p, "turn", [loc[p] EXCEPT !.reg = g, !.started = @ \/ b])
      BY <1>2 DEF PreflightPending
    <2> DEFINE c == loc[p].started \/ b
               t == [loc[p] EXCEPT !.reg = g, !.started = c]
    <2>2. To(p, "turn", t) /\ pc[p] = "preflight"
      BY <1>0, <1>2, <2>1 DEF PreflightPending, Locals
    <2> HIDE DEF c
    <2>3. Same({}, loc[p], t)
      BY <1>0 DEF Locals, Same, Names
    <2>4. pc'[p] = "turn" /\ loc'[p] = t
      BY <2>2, Moved
    <2> HIDE DEF t
    <2>5. UNCHANGED <<sim, power, hist, cfg, active, cache>>
      BY <1>2 DEF PreflightPending
    <2>6. QED
      BY <2>2, <2>3, <2>4, <2>5, Going DEF Walks, Chosen, Trial
  <1>3. CASE PreflightPassed(p)
    <2>1. PICK r \in refresh_modem_status(p) :
             To(p, IF loc[p].cmd = "reconcile" THEN "check" ELSE "capture",
                [loc[p] EXCEPT !.reg = r, !.started = FALSE, !.remaining = 0])
      BY <1>3 DEF PreflightPassed
    <2> DEFINE t == [loc[p] EXCEPT !.reg = r, !.started = FALSE, !.remaining = 0]
               l == IF loc[p].cmd = "reconcile" THEN "check" ELSE "capture"
    <2>2. Same({}, loc[p], t)
      BY <1>0 DEF Locals, Same, Names
    <2>3. pc'[p] = l /\ loc'[p] = t
      BY <2>1, Moved
    <2> HIDE DEF t
    <2>4. pc[p] = "preflight" /\ loc[p].cmd \in Applies
      BY <1>3, TypedNow DEF PreflightPassed, Typed, LocalOK, Applying
    <2>5. pc'[p] \in Chosen => loc[p].cmd \in {"apply", "apply-manual"}
      BY <2>3, <2>4 DEF Chosen, Trial, Applies
    <2>6. Goes(pc[p], pc'[p]) /\ pc'[p] \in {"check", "capture"}
      BY <2>3, <2>4, Going
    <2>7. UNCHANGED <<sim, power, hist, cfg, active, cache>>
      BY <1>3 DEF PreflightPassed
    <2>8. QED
      BY <2>2, <2>3, <2>5, <2>6, <2>7 DEF Walks
  <1>4. CASE NextCandidate(p)
    <2> DEFINE f == Head(loc[p].cands)
               q == IF f \in loc[p].seen THEN <<>> ELSE backend_attempt_plan(f)
               t == [loc[p] EXCEPT !.cands = Tail(loc[p].cands), !.seen = loc[p].seen \cup {f},
                                   !.plan = q]
               l == IF q = <<>> THEN "candidate" ELSE "attempt"
    <2>1. To(p, l, t) /\ pc[p] = "candidate"
      BY <1>4, <1>0 DEF NextCandidate, Locals
    <2> HIDE DEF q, f
    <2>2. Same({}, loc[p], t)
      BY <1>0 DEF Locals, Same, Names
    <2>3. pc'[p] = l /\ loc'[p] = t
      BY <2>1, Moved
    <2> HIDE DEF t
    <2>4. Goes(pc[p], pc'[p]) /\ pc[p] \in Chosen /\ pc'[p] \in {"candidate", "attempt"}
      BY <2>1, <2>3, Going DEF Chosen, Trial
    <2>5. UNCHANGED <<sim, power, hist, cfg, active, cache>>
      BY <1>4 DEF NextCandidate
    <2>6. QED
      BY <2>2, <2>3, <2>4, <2>5 DEF Walks
  <1>5. CASE AttemptsOver(p)
    <2> DEFINE t == [loc[p] EXCEPT !.plan = <<>>]
    <2>1. To(p, "noBearer", t) /\ pc[p] = "attempt"
      BY <1>5 DEF AttemptsOver
    <2>2. Same({}, loc[p], t)
      BY <1>0 DEF Locals, Same, Names
    <2>3. pc'[p] = "noBearer" /\ loc'[p] = t
      BY <2>1, Moved
    <2> HIDE DEF t
    <2>4. QED
      BY <1>5, <2>1, <2>2, <2>3, Going DEF AttemptsOver, Walks, Chosen, Trial
  <1>6. CASE PolicyObserve(p)
    <2>1. PICK up \in {FALSE, iface = "up"}, r \in refresh_modem_status(p) :
             To(p, "rpWrite", [loc[p] EXCEPT !.wasUp = up, !.reg = r])
      BY <1>6 DEF PolicyObserve, interface_is_up
    <2> DEFINE t == [loc[p] EXCEPT !.wasUp = up, !.reg = r]
    <2>2. Same({}, loc[p], t)
      BY <1>0 DEF Locals, Same, Names
    <2>3. pc'[p] = "rpWrite" /\ loc'[p] = t /\ pc[p] = "rpSet"
      BY <1>6, <2>1, Moved DEF PolicyObserve
    <2> HIDE DEF t
    <2>4. QED
      BY <1>6, <2>2, <2>3, Going DEF PolicyObserve, Walks, Chosen, Trial
  <1>t. \A n : Same({}, loc[p], [loc[p] EXCEPT !.remaining = n])
    BY <1>0 DEF Locals, Same, Names
  <1>m. ASSUME NEW l, NEW n, To(p, l, [loc[p] EXCEPT !.remaining = n])
        PROVE  pc'[p] = l /\ Same({}, loc[p], loc'[p])
    BY <1>t, <1>m, Moved
  <1>7. ASSUME \/ IfDown(p) \/ IfUp(p) \/ BearerReady(p) \/ BearerLate(p) \/ SaveCache(p)
               \/ RecordSuccess(p) \/ ResetDown(p) \/ ResetCache(p) \/ ResetActive(p)
        PROVE  Walks(p)
    <2>1. ASSUME NEW l, Go(p, l)
          PROVE  pc'[p] = l /\ loc'[p] = loc[p]
      BY <2>1, Moved DEF Go
    <2>2. CASE IfDown(p)
      BY <1>1, <2>1, <2>2, Going DEF IfDown, Walks, Chosen, Trial
    <2>3. CASE IfUp(p)
      <3>1. pc'[p] \in {"bearer", "attempt"} /\ Same({}, loc[p], loc'[p])
        BY <1>1, <1>m, <2>1, <2>3 DEF IfUp
      <3>2. QED
        BY <2>3, <3>1, Going DEF IfUp, Walks, Chosen, Trial
    <2>4. CASE BearerReady(p)
      <3>1. pc'[p] \in {"address", "bearerUp"} /\ Same({}, loc[p], loc'[p])
        <4>1. CASE pc[p] = "bearer" /\ Backend = "mbim"
          BY <1>m, <2>4, <4>1 DEF BearerReady
        <4>2. CASE ~(pc[p] = "bearer" /\ Backend = "mbim")
          BY <1>m, <2>4, <4>2 DEF BearerReady
        <4>3. QED
          BY <4>1, <4>2
      <3>2. pc[p] \in {"bearer", "address"} /\ UNCHANGED <<sim, power, hist, cfg, active, cache>>
        BY <2>4 DEF BearerReady
      <3>3. QED
        BY <3>1, <3>2, Going DEF Walks, Chosen, Trial
    <2>l. CASE BearerLate(p)
      BY <1>1, <2>1, <2>l, Going DEF BearerLate, Walks, Chosen, Trial
    <2>5. CASE SaveCache(p)
      BY <1>1, <2>1, <2>5, Going DEF SaveCache, Walks, Chosen, Trial
    <2>6. CASE RecordSuccess(p)
      BY <1>1, <2>1, <2>6, Going DEF RecordSuccess, Walks, Chosen, Trial
    <2>7. CASE ResetDown(p)
      BY <1>1, <2>1, <2>7, Going DEF ResetDown, Walks, Chosen, Trial
    <2>8. CASE ResetCache(p)
      BY <1>1, <2>1, <2>8, Going DEF ResetCache, Walks, Chosen, Trial
    <2>9. CASE ResetActive(p)
      BY <1>1, <2>1, <2>9, Going DEF ResetActive, Walks, Chosen, Trial, Recorded
    <2>10. QED
      BY <1>7, <2>2, <2>3, <2>4, <2>l, <2>5, <2>6, <2>7, <2>8, <2>9
  <1>8. QED
    BY <1>2, <1>3, <1>4, <1>5, <1>6, <1>7

\* The variables of s are those of r, but the status.
LEMMA Alike ==
    ASSUME NEW r, NEW s, Same({"status"}, r, s)
    PROVE  /\ s.cmd = r.cmd /\ s.iccid = r.iccid /\ s.cur = r.cur /\ s.old = r.old
           /\ s.rollback = r.rollback /\ s.leaveDown = r.leaveDown
           /\ s.restoreIf = r.restoreIf /\ s.powerOff = r.powerOff
           /\ s.resetting = r.resetting /\ s.locked = r.locked /\ s.unwritten = r.unwritten
           /\ s.unstopped = r.unstopped /\ s.unrecorded = r.unrecorded
  BY DEF Same, Names

\* What holds of a settled process.
LEMMA Settles ==
    ASSUME Settled, NEW p \in Proc
    PROVE  /\ Own(pc[p], loc[p]) /\ (loc[p].locked => Shared(pc[p], loc[p]))
           /\ pc[p] \notin BeforeLock \cup Exiting => loc[p].locked
           /\ pc[p] \in Trial => loc[p].rollback
           /\ loc[p].rollback => loc[p].locked /\ pc[p] \in Trial \cup Exiting
  BY DEF Settled, Sound, Safe, TrialInv

\* A step along the script leaves the outcome open,
LEMMA WalksEnd ==
    ASSUME TypeOK, NEW p \in Proc, Walks(p)
    PROVE  Ends(p)
  <1> DEFINE r == loc[p]
             s == loc'[p]
  <1>1. Same({"status"}, r, s) /\ s.status = r.status
    BY DEF Walks, Same, Names
  <1>2. /\ s.cmd = r.cmd /\ s.iccid = r.iccid /\ s.cur = r.cur /\ s.old = r.old
        /\ s.rollback = r.rollback /\ s.leaveDown = r.leaveDown
        /\ s.restoreIf = r.restoreIf /\ s.powerOff = r.powerOff
        /\ s.resetting = r.resetting /\ s.locked = r.locked /\ s.unwritten = r.unwritten
        /\ s.unstopped = r.unstopped /\ s.unrecorded = r.unrecorded
    BY <1>1, Alike
  <1>3. ASSUME PowerArmed PROVE Powered(p)
    <2>1. pc[p] \notin {"mrOn", "xPower"}
      BY DEF Walks, Goes, Ending, Exiting, Cycling
    <2>2. ~r.powerOff
      BY <1>3, <2>1 DEF PowerArmed
    <2>3. QED
      BY <1>2, <2>2 DEF Walks, Powered
  <1>4. ASSUME Settled PROVE Result(p)
    <2>1. /\ Own(pc[p], r) /\ (r.locked => Shared(pc[p], r)) /\ r.locked
          /\ r.rollback => pc[p] \in Trial \cup Exiting
      BY <1>4, Settles DEF Walks, Goes, Ending, BeforeLock
    <2>2. Goes(pc[p], pc'[p])
      BY DEF Walks
    <2>3. pc'[p] \notin Ending \cup Cycling /\ pc[p] \notin Ending \cup Cycling
      BY <2>2 DEF Goes
    <2>4. pc[p] \notin {"xDown", "xUp", "xLock"} /\ pc'[p] \notin {"xDown", "xUp", "xLock"}
      BY <2>3 DEF Ending, Exiting
    <2>5. Own(pc'[p], s)
      BY <1>1, <1>2, <2>1, <2>2, <2>3, <2>4 DEF Own, Goes, Ending, Walks, Applies
    <2>6. Shared(pc[p], loc[p])'
      <3>1. s.status = 0
        BY <1>1, <2>1, <2>3 DEF Own
      <3>2. ~hist'.disturbed /\ pc'[p] \in Tried => cfg' = set_profile(s.cur)
        BY <1>2, <2>1, <2>2 DEF Goes, Walks, Shared
      <3>3. pc'[p] \in Recorded /\ ~s.unrecorded
              => active' = [iccid |-> s.iccid, profile |-> RecordedProfile(s.cur)]
        BY <1>2, <2>1, <2>2 DEF Goes, Walks, Shared
      <3>4. ReadsUnderLock /\ s.cmd = "apply" /\ pc'[p] \in Identified => s.iccid = sim'
        BY <1>2, <2>1, <2>2 DEF Goes, Walks, Shared
      <3>5. pc'[p] # "saveCache"
        BY <2>2 DEF Goes
      <3>6. QED
        BY <2>3, <2>4, <3>1, <3>2, <3>3, <3>4, <3>5 DEF Shared, RolledBack, Succeeded
    <2>7. Cached'
      <3>1. hist' = hist /\ Cached
        BY <1>4 DEF Walks, Settled
      <3>2. CASE cache' = cache
        BY <3>1, <3>2 DEF Cached
      <3>3. CASE cache' = [x \in Sim |-> NoProfile]
        BY <3>3 DEF Cached
      <3>4. CASE pc[p] = "saveCache" /\ cache' = [cache EXCEPT ![r.iccid] = r.cur]
        <4>1. cache \in [Sim -> Profile \cup {NoProfile}]
          BY DEF TypeOK, StoreOK
        <4>2. ReadsUnderLock => <<r.iccid, r.cur>> \in hist.verified
          BY <2>1, <3>4 DEF Shared
        <4> HIDE DEF r
        <4>3. QED
          BY <3>1, <3>4, <4>1, <4>2 DEF Cached
      <3>5. QED
        BY <3>2, <3>3, <3>4 DEF Walks
    <2>8. QED
      BY <2>1, <2>5, <2>6, <2>7 DEF Result, Sound, Walks
  <1>5. QED
    BY <1>3, <1>4 DEF Ends

\* and so does one that fails.
LEMMA FailsEnd ==
    ASSUME TypeOK, NEW p \in Proc, Fails(p)
    PROVE  Ends(p)
  <1> DEFINE r == loc[p]
             s == loc'[p]
  <1>1. /\ s.cmd = r.cmd /\ s.iccid = r.iccid /\ s.cur = r.cur /\ s.old = r.old
        /\ s.rollback = r.rollback /\ s.leaveDown = r.leaveDown
        /\ s.restoreIf = r.restoreIf /\ s.powerOff = r.powerOff
        /\ s.resetting = r.resetting /\ s.locked = r.locked /\ s.unwritten = r.unwritten
        /\ s.unstopped = r.unstopped /\ s.unrecorded = r.unrecorded
    BY Alike DEF Fails
  <1>2. s.status \in {1, 3, 143} /\ pc[p] \notin Exiting \cup {"idle"}
    BY DEF Fails
  <1>3. ASSUME PowerArmed PROVE Powered(p)
    <2>1. r.powerOff => pc'[p] = "xPower"
      BY <1>3 DEF PowerArmed, Fails
    <2>2. QED
      BY <1>1, <2>1 DEF Fails, Still, Powered
  <1>4. ASSUME Settled PROVE Result(p)
    <2>1. /\ Own(pc[p], r)
          /\ pc[p] \notin BeforeLock \cup Exiting => r.locked
      BY <1>4, Settles
    <2>2. /\ pc'[p] \in {"xPower", "mrAfter"}
          /\ pc'[p] = "mrAfter" => r.resetting
          /\ pc[p] # "xLock"
      BY <1>2 DEF Fails, Exiting
    <2>3. pc'[p] \in Ending /\ pc'[p] \notin Resets \cup Policies \cup Cycling \cup Tried \cup Chosen
          /\ pc'[p] \notin {"xDown", "xUp", "xLock"} /\ (pc'[p] # "mrAfter" => pc'[p] \in Exiting)
          /\ pc'[p] \notin Recorded \cup Identified \cup {"saveCache"}
      BY <2>2 DEF Ending, Exiting, Resets, Restored, Policies, Cycling, Tried, Chosen, Trial,
                  Recorded, Identified
    <2>4. Own(pc'[p], s)
      BY <1>1, <1>2, <2>1, <2>2, <2>3 DEF Own
    <2>5. Shared(pc[p], loc[p])'
      BY <1>2, <2>3 DEF Shared, RolledBack, Succeeded
    <2>6. Cached'
      BY <1>4 DEF Fails, Still, Settled, Cached
    <2>7. r.locked \/ UNCHANGED <<cfg, active, iface>>
      BY <1>2, <2>1 DEF Fails, Still
    <2>8. QED
      BY <2>4, <2>5, <2>6, <2>7 DEF Result, Sound, Fails, Still
  <1>5. QED
    BY <1>3, <1>4 DEF Ends
-----------------------------------------------------------------------------
(* Before the lock *)

\* A command starts with nothing learnt.
LEMMA StartEnds ==
    ASSUME TypeOK, NEW p \in Proc, Start(p)
    PROVE  Ends(p)
  <1> USE DEF section, files, world, holders
  <1>1. PICK c \in Commands, f \in Manual, w \in {"default", "allow", "block"} :
           To(p, FirstStep(c),
              [NoLocals EXCEPT !.cmd = c,
                               !.arg = IF c = "apply-manual" THEN f ELSE NoProfile,
                               !.want = IF c = "roaming-policy-set" THEN w ELSE "default"])
    BY DEF Start
  <1> DEFINE t == [NoLocals EXCEPT !.cmd = c,
                               !.arg = IF c = "apply-manual" THEN f ELSE NoProfile,
                               !.want = IF c = "roaming-policy-set" THEN w ELSE "default"]
  <1>2. /\ t.cmd = c /\ ~t.rollback /\ ~t.leaveDown /\ ~t.restoreIf /\ ~t.powerOff
        /\ ~t.locked /\ ~t.unwritten /\ t.status = 0
    BY DEF NoLocals
  <1>3. pc'[p] = FirstStep(c) /\ loc'[p] = t
    BY <1>1, Moved
  <1> HIDE DEF t
  <1>4. pc'[p] \in {"readSim", "lock"} /\ pc[p] = "idle"
    BY <1>3 DEF FirstStep, Start
  <1>5. Still /\ UNCHANGED iface
    BY DEF Start, Still
  <1>6. ASSUME PowerArmed PROVE Powered(p)
    <2>1. ~loc[p].powerOff
      BY <1>4, <1>6 DEF PowerArmed
    <2>2. QED
      BY <1>2, <1>3, <1>5, <2>1 DEF Powered, Still
  <1>7. ASSUME Settled PROVE Result(p)
    <2>1. ReadsUnderLock => c \notin {"apply", "apply-manual"}
      BY DEF ReadsUnderLock
    <2>2. pc'[p] \notin Ending \cup Resets \cup Policies \cup Cycling \cup Tried \cup Chosen
      BY <1>4 DEF Ending, Exiting, Resets, Restored, Policies, Cycling, Tried, Chosen, Trial
    <2>3. pc'[p] \notin {"xDown", "xUp"}
      BY <1>4
    <2>4. Own(pc'[p], loc'[p])
      BY <1>2, <1>3, <2>1, <2>2, <2>3 DEF Own
    <2>5. QED
      BY <1>2, <1>3, <1>5, <1>7, <2>4 DEF Result, Sound, Still, Cached, Settled
  <1>8. QED
    BY <1>6, <1>7 DEF Ends

\* read_sim under the lock learns the SIM that is in the modem.
LEMMA ReadSimEnds ==
    ASSUME TypeOK, NEW p \in Proc, ReadSim(p)
    PROVE  Ends(p)
  <1> USE DEF section, files, world, holders
  <1>1. Still /\ UNCHANGED iface /\ pc[p] = "readSim"
    BY DEF ReadSim, Still
  <1>2. CASE Exit(p, 3)
    BY <1>1, <1>2, ExitFails, FailsEnd DEF Exiting
  <1>3. CASE To(p, "lock", [loc[p] EXCEPT !.iccid = sim, !.reg = reg])
    <2> DEFINE r == loc[p]
               t == [r EXCEPT !.iccid = sim, !.reg = reg]
    <2>1. pc'[p] = "lock" /\ loc'[p] = t /\ r \in Locals
      BY <1>3, Moved
    <2>2. /\ t.cmd = r.cmd /\ t.iccid = sim /\ t.cur = r.cur /\ t.old = r.old
          /\ t.rollback = r.rollback /\ t.leaveDown = r.leaveDown
          /\ t.restoreIf = r.restoreIf /\ t.powerOff = r.powerOff
          /\ t.resetting = r.resetting /\ t.locked = r.locked /\ t.unwritten = r.unwritten
          /\ t.unstopped = r.unstopped /\ t.unrecorded = r.unrecorded
          /\ t.status = r.status
      BY <2>1 DEF Locals
    <2> HIDE DEF t
    <2>3. ASSUME PowerArmed PROVE Powered(p)
      <3>1. ~r.powerOff
        BY <1>1, <2>3 DEF PowerArmed
      <3>2. QED
        BY <1>1, <2>1, <2>2, <3>1 DEF Powered, Still
    <2>4. ASSUME Settled PROVE Result(p)
      <3>1. Own("readSim", r)
        BY <1>1, <2>4, Settles
      <3>2. "lock" \notin Ending \cup Resets \cup Policies \cup Cycling \cup Tried \cup Chosen
                           \cup Recorded \cup Exiting
            /\ "readSim" \notin Ending \cup Cycling \cup Exiting
        BY DEF Ending, Exiting, Resets, Restored, Policies, Cycling, Tried, Chosen, Trial,
               Recorded
      <3>3. Own("lock", t)
        BY <2>2, <3>1, <3>2 DEF Own
      <3>4. Shared(pc[p], loc[p])'
        <4>1. t.status = 0 /\ t.iccid = sim'
          BY <1>1, <2>2, <3>2, <3>3 DEF Own, Still
        <4>2. QED
          BY <2>1, <3>2, <4>1 DEF Shared, RolledBack, Succeeded
      <3>5. QED
        BY <1>1, <2>1, <2>4, <3>3, <3>4 DEF Result, Sound, Still, Cached, Settled
    <2>5. QED
      BY <2>3, <2>4 DEF Ends
  <1>4. QED
    BY <1>2, <1>3 DEF ReadSim

\* The lock: whoever applies with a lock it already holds knows its SIM.
LEMMA LockEnds ==
    ASSUME TypeOK, NEW p \in Proc, AcquireLock(p)
    PROVE  Ends(p)
  <1> USE DEF section, files, world, holders
  <1>1. Still /\ UNCHANGED iface /\ pc[p] = "lock"
    BY DEF AcquireLock, Still
  <1>2. CASE Exit(p, 3)
    BY <1>1, <1>2, ExitFails, FailsEnd DEF Exiting
  <1>3. CASE To(p, AfterLock(loc[p].cmd), [loc[p] EXCEPT !.locked = TRUE])
    <2> DEFINE r == loc[p]
               t == [r EXCEPT !.locked = TRUE]
               l == AfterLock(r.cmd)
    <2>1. pc'[p] = l /\ loc'[p] = t /\ r \in Locals
      BY <1>3, Moved
    <2>2. /\ t.cmd = r.cmd /\ t.iccid = r.iccid /\ t.cur = r.cur /\ t.old = r.old
          /\ t.rollback = r.rollback /\ t.leaveDown = r.leaveDown
          /\ t.restoreIf = r.restoreIf /\ t.powerOff = r.powerOff
          /\ t.resetting = r.resetting /\ t.locked /\ t.unwritten = r.unwritten
          /\ t.unstopped = r.unstopped /\ t.unrecorded = r.unrecorded
          /\ t.status = r.status
      BY <2>1 DEF Locals
    <2>3. \/ l = "rsRestore" /\ r.cmd = "reset"
          \/ l = "rpSet" /\ r.cmd = "roaming-policy-set"
          \/ l = "mrDown" /\ r.cmd = "modem-reset"
          \/ l = "policy"
      <3>1. CASE r.cmd \in {"reset", "roaming-policy-set", "modem-reset"}
        BY <3>1 DEF AfterLock
      <3>2. CASE r.cmd \notin {"reset", "roaming-policy-set", "modem-reset"}
        BY <3>2 DEF AfterLock
      <3>3. QED
        BY <3>1, <3>2
    <2> HIDE DEF t, l
    <2>4. ASSUME PowerArmed PROVE Powered(p)
      <3>1. ~r.powerOff
        BY <1>1, <2>4 DEF PowerArmed
      <3>2. QED
        BY <1>1, <2>1, <2>2, <3>1 DEF Powered, Still
    <2>5. ASSUME Settled PROVE Result(p)
      <3>1. Own("lock", r) /\ (r.locked => Shared("lock", r))
        BY <1>1, <2>5, Settles
      <3>2. /\ l \notin Ending \cup Tried \cup Chosen \cup Recorded \cup Exiting
            /\ l \in Resets => l = "rsRestore"
            /\ l \in Policies => l = "rpSet"
            /\ l \in Cycling => l = "mrDown"
            /\ "lock" \notin Ending \cup Cycling \cup Exiting
            /\ l \notin {"xDown", "xUp", "xLock", "saveCache"}
            /\ l \in Identified => l = "policy"
            /\ "lock" \in Identified
        BY <2>3 DEF Ending, Exiting, Resets, Restored, Policies, Cycling, Tried, Chosen, Trial,
                    Recorded, Identified
      <3>3. Own(l, t)
        BY <2>2, <2>3, <3>1, <3>2 DEF Own
      <3>4. Shared(pc[p], loc[p])'
        <4>1. t.status = 0
          BY <2>2, <3>1, <3>2 DEF Own
        <4>2. ReadsUnderLock /\ t.cmd = "apply" => t.iccid = sim'
          BY <1>1, <2>2, <3>1, <3>2 DEF Own, Shared, Still
        <4>3. QED
          BY <2>1, <3>2, <4>1, <4>2 DEF Shared, RolledBack, Succeeded
      <3>5. QED
        BY <1>1, <2>1, <2>5, <3>3, <3>4 DEF Result, Sound, Still, Cached, Settled
    <2>6. QED
      BY <2>4, <2>5 DEF Ends
  <1>4. QED
    BY <1>2, <1>3 DEF AcquireLock
-----------------------------------------------------------------------------
(* The preflight and the reconcile *)

\* return: the status is set, and a modem reset goes on from it.
LEMMA Returned ==
    ASSUME TypeOK, NEW p \in Proc, NEW r \in Locals, Same({}, loc[p], r), NEW c, Return(p, c, r)
    PROVE  /\ pc'[p] = IF loc[p].resetting THEN "mrAfter" ELSE "xPower"
           /\ Same({"status"}, loc[p], loc'[p]) /\ loc'[p].status = c
  <1> DEFINE t == [r EXCEPT !.status = c]
  <1>1. pc'[p] = (IF r.resetting THEN "mrAfter" ELSE "xPower") /\ loc'[p] = t
    BY Moved DEF Return
  <1>2. Same({"status"}, r, t) /\ t.status = c
    BY DEF Locals, Same, Names
  <1> HIDE DEF t
  <1>3. QED
    BY <1>1, <1>2 DEF Same, Names

\* A position at which an operation has ended.
LEMMA EndingIs ==
    \A l \in {"xPower", "mrAfter"} :
        /\ l \in Ending
        /\ l \notin Resets \cup Policies \cup Cycling \cup Tried \cup Chosen \cup Recorded
                    \cup Identified \cup {"xDown", "xUp", "xRestore", "xLock", "saveCache", "idle"}
        /\ l \in Exiting <=> l = "xPower"
  BY DEF Ending, Exiting, Resets, Restored, Policies, Cycling, Tried, Chosen, Trial, Recorded,
         Identified

\* A return with a status that claims nothing.
LEMMA ReturnFails ==
    ASSUME TypeOK, NEW p \in Proc, NEW r \in Locals, Same({}, loc[p], r), NEW c \in {1, 3},
           Return(p, c, r), pc[p] \in {"policy", "preflight", "turn"}, Still
    PROVE  Fails(p)
  <1>1. /\ pc'[p] = IF loc[p].resetting THEN "mrAfter" ELSE "xPower"
        /\ Same({"status"}, loc[p], loc'[p]) /\ loc'[p].status = c
    BY Returned
  <1>2. pc[p] \notin Exiting \cup {"idle"} /\ pc[p] \notin BeforeLock
    BY DEF Exiting, BeforeLock
  <1>3. QED
    BY <1>1, <1>2 DEF Fails

\* The policy is read, or is none.
LEMMA PolicyReadEnds ==
    ASSUME TypeOK, NEW p \in Proc, ReadPolicy(p)
    PROVE  Ends(p)
  <1> USE DEF section, files, world, holders
  <1>1. loc[p] \in Locals /\ pc[p] = "policy" /\ Still /\ Same({}, loc[p], loc[p])
    BY DEF TypeOK, ReadPolicy, Still, Same
  <1>2. CASE Return(p, 1, loc[p])
    BY <1>1, <1>2, ReturnFails, FailsEnd
  <1>3. CASE To(p, "preflight", [loc[p] EXCEPT !.allowed = RoamingAllowed,
                                               !.remaining = RegistrationWait])
    <2> DEFINE b == RoamingAllowed
               t == [loc[p] EXCEPT !.allowed = b, !.remaining = RegistrationWait]
    <2>1. pc'[p] = "preflight" /\ loc'[p] = t
      BY <1>3, Moved
    <2> HIDE DEF b
    <2>2. Same({}, loc[p], t)
      BY <1>1 DEF Locals, Same, Names
    <2> HIDE DEF t
    <2>3. Walks(p)
      BY <1>1, <2>1, <2>2, Going DEF Still, Walks, Chosen, Trial
    <2>4. QED
      BY <2>3, WalksEnd
  <1>4. QED
    BY <1>2, <1>3 DEF ReadPolicy

\* The preflight's verdicts; roaming that the policy forbids stops an interface
\* that is reported up, or it is remembered that it was not stopped.
LEMMA RefusedEnds ==
    ASSUME TypeOK, NEW p \in Proc, PreflightRefused(p)
    PROVE  Ends(p)
  <1> USE DEF section, files, world, holders
  <1> DEFINE r == loc[p]
             s == loc'[p]
  <1>1. /\ r \in Locals /\ pc[p] \in {"turn", "preflight"} /\ Still
        /\ iface \in {"up", "down"}
    BY DEF TypeOK, StoreOK, PreflightRefused, Still
  <1>2. CASE Return(p, 3, r)
    <2>1. Same({}, r, r)
      BY DEF Same
    <2>2. QED
      BY <1>1, <1>2, <2>1, ReturnFails, FailsEnd
  <1>3. CASE Return(p, 1, [r EXCEPT !.reg = "denied"])
    <2> DEFINE t == [r EXCEPT !.reg = "denied"]
    <2>1. Same({}, r, t)
      BY <1>1 DEF Locals, Same, Names
    <2>2. t \in Locals
      BY <1>1, ZenonT(60) DEF Locals, Registration
    <2> HIDE DEF t
    <2>3. Return(p, 1, t)
      BY <1>3 DEF t
    <2>4. QED
      BY <1>1, <2>1, <2>2, <2>3, ReturnFails, FailsEnd
  <1>4. CASE /\ pc[p] = "preflight"
             /\ iface' \in {iface, "down"}
             /\ Return(p, 2, [r EXCEPT !.reg = "roaming", !.unstopped = iface' = "up"])
    <2> DEFINE b == iface' = "up"
               t == [r EXCEPT !.reg = "roaming", !.unstopped = b]
    <2>1. Return(p, 2, t)
      BY <1>4
    <2>2. pc'[p] = (IF t.resetting THEN "mrAfter" ELSE "xPower")
          /\ s = [t EXCEPT !.status = 2]
      BY <2>1, Moved DEF Return
    <2>3. /\ Same({"status", "unstopped"}, r, [t EXCEPT !.status = 2])
          /\ [t EXCEPT !.status = 2].status = 2 /\ [t EXCEPT !.status = 2].unstopped = b
          /\ t.resetting = r.resetting
      BY <1>1 DEF Locals, Same, Names
    <2> HIDE DEF t
    <2>4. /\ pc'[p] = IF r.resetting THEN "mrAfter" ELSE "xPower"
          /\ Same({"status", "unstopped"}, r, s) /\ s.status = 2
          /\ ~s.unstopped => iface' = "down"
      BY <1>1, <1>4, <2>2, <2>3
    <2> HIDE DEF b
    <2>5. /\ s.cmd = r.cmd /\ s.iccid = r.iccid /\ s.cur = r.cur /\ s.old = r.old
          /\ s.rollback = r.rollback /\ s.leaveDown = r.leaveDown
          /\ s.restoreIf = r.restoreIf /\ s.powerOff = r.powerOff
          /\ s.resetting = r.resetting /\ s.locked = r.locked /\ s.unwritten = r.unwritten
          /\ s.unrecorded = r.unrecorded
      BY <2>4 DEF Same, Names
    <2>6. pc'[p] \in {"xPower", "mrAfter"}
      BY <2>4
    <2>7. ASSUME PowerArmed PROVE Powered(p)
      <3>1. ~r.powerOff
        BY <1>4, <2>7 DEF PowerArmed
      <3>2. QED
        BY <1>1, <2>5, <3>1 DEF Powered, Still
    <2>8. ASSUME Settled PROVE Result(p)
      <3>1. "preflight" \notin Trial \cup Exiting \cup BeforeLock \cup Cycling
        BY DEF Trial, Exiting, BeforeLock, Cycling
      <3>2. Own("preflight", r) /\ r.locked /\ ~r.rollback
        BY <1>4, <2>8, <3>1, Settles
      <3>3. ~r.unwritten /\ (r.restoreIf => r.resetting)
        BY <3>1, <3>2 DEF Own
      <3>4. Own(pc'[p], s)
        BY <2>4, <2>5, <2>6, <3>2, <3>3, EndingIs DEF Own
      <3>5. Shared(pc[p], loc[p])'
        BY <2>4, <2>6, EndingIs DEF Shared, RolledBack, Succeeded
      <3>6. QED
        BY <1>1, <2>5, <2>8, <3>2, <3>4, <3>5 DEF Result, Sound, Still, Cached, Settled
    <2>9. QED
      BY <2>7, <2>8 DEF Ends
  <1>5. QED
    BY <1>2, <1>3, <1>4 DEF PreflightRefused, StopInterface

\* Nothing to do: the section matches what was recorded for this SIM.
LEMMA ReconciledEnds ==
    ASSUME TypeOK, NEW p \in Proc, AlreadyReconciled(p)
    PROVE  Ends(p)
  <1> USE DEF section, files, world, holders
  <1> DEFINE r == loc[p]
             s == loc'[p]
  <1>1. /\ r \in Locals /\ pc[p] = "check" /\ Still /\ UNCHANGED iface
        /\ configured_profile_matches_active /\ active.iccid = r.iccid
    BY DEF TypeOK, AlreadyReconciled, Still
  <1>2. /\ pc'[p] = IF r.resetting THEN "mrAfter" ELSE "xPower"
        /\ Same({"status"}, r, s) /\ s.status = 0
    BY <1>1, Returned DEF AlreadyReconciled, Same
  <1>3. /\ s.cmd = r.cmd /\ s.iccid = r.iccid /\ s.cur = r.cur /\ s.old = r.old
        /\ s.rollback = r.rollback /\ s.leaveDown = r.leaveDown
        /\ s.restoreIf = r.restoreIf /\ s.powerOff = r.powerOff
        /\ s.resetting = r.resetting /\ s.locked = r.locked /\ s.unwritten = r.unwritten
        /\ s.unstopped = r.unstopped /\ s.unrecorded = r.unrecorded
    BY <1>2, Alike
  <1>4. pc'[p] \in {"xPower", "mrAfter"}
    BY <1>2
  <1>5. ASSUME PowerArmed PROVE Powered(p)
    <2>1. ~r.powerOff
      BY <1>1, <1>5 DEF PowerArmed
    <2>2. QED
      BY <1>1, <1>3, <2>1 DEF Powered, Still
  <1>6. ASSUME Settled PROVE Result(p)
    <2>1. "check" \notin Trial \cup Exiting \cup BeforeLock \cup Cycling
      BY DEF Trial, Exiting, BeforeLock, Cycling
    <2>2. Own("check", r) /\ r.locked /\ ~r.rollback
      BY <1>1, <1>6, <2>1, Settles
    <2>3. ~r.unwritten /\ (r.restoreIf => r.resetting)
      BY <2>1, <2>2 DEF Own
    <2>4. Own(pc'[p], s)
      BY <1>2, <1>3, <1>4, <2>2, <2>3, EndingIs DEF Own
    <2>5. configured_profile_matches_active' /\ active'.iccid = s.iccid
      BY <1>1, <1>3 DEF configured_profile_matches_active, Still
    <2>6. Shared(pc[p], loc[p])'
      BY <1>2, <1>4, <2>5, EndingIs DEF Shared, RolledBack, Succeeded
    <2>7. QED
      BY <1>1, <1>3, <1>6, <2>2, <2>4, <2>6 DEF Result, Sound, Still, Cached, Settled
  <1>7. QED
    BY <1>5, <1>6 DEF Ends

\* A reconcile that has something to do reads the identity again.
LEMMA ReapplyEnds ==
    ASSUME TypeOK, NEW p \in Proc, NotReconciled(p)
    PROVE  Ends(p)
  <1> USE DEF section, files, world, holders
  <1> DEFINE r == loc[p]
             t == [r EXCEPT !.cmd = "apply"]
  <1>1. r \in Locals /\ pc[p] = "check" /\ Still /\ UNCHANGED iface
    BY DEF TypeOK, NotReconciled, Still
  <1>2. pc'[p] = "readSim" /\ loc'[p] = t
    BY Moved DEF NotReconciled
  <1>3. Same({"cmd"}, r, t) /\ t.cmd = "apply"
    BY <1>1 DEF Locals, Same, Names
  <1> HIDE DEF t
  <1>4. /\ t.iccid = r.iccid /\ t.cur = r.cur /\ t.old = r.old
        /\ t.rollback = r.rollback /\ t.leaveDown = r.leaveDown
        /\ t.restoreIf = r.restoreIf /\ t.powerOff = r.powerOff /\ t.status = r.status
        /\ t.resetting = r.resetting /\ t.locked = r.locked /\ t.unwritten = r.unwritten
        /\ t.unstopped = r.unstopped /\ t.unrecorded = r.unrecorded
    BY <1>3 DEF Same, Names
  <1>5. ASSUME PowerArmed PROVE Powered(p)
    <2>1. ~r.powerOff
      BY <1>1, <1>5 DEF PowerArmed
    <2>2. QED
      BY <1>1, <1>2, <1>4, <2>1 DEF Powered, Still
  <1>6. ASSUME Settled PROVE Result(p)
    <2>1. /\ "check" \notin Trial \cup Exiting \cup BeforeLock \cup Cycling \cup Ending
          /\ "readSim" \notin Trial \cup Exiting \cup Cycling \cup Ending \cup Resets \cup Policies
                              \cup Tried \cup Chosen \cup Recorded \cup Identified
      BY DEF Trial, Exiting, BeforeLock, Cycling, Ending, Resets, Restored, Policies,
             Tried, Chosen, Recorded, Identified
    <2>2. Own("check", r) /\ r.locked
      BY <1>1, <1>6, <2>1, Settles
    <2>3. Own("readSim", t)
      BY <1>3, <1>4, <2>1, <2>2 DEF Own
    <2>4. t.status = 0
      BY <1>4, <2>1, <2>2 DEF Own
    <2>5. Shared(pc[p], loc[p])'
      BY <1>2, <2>1, <2>4 DEF Shared, RolledBack, Succeeded
    <2>6. QED
      BY <1>1, <1>2, <1>6, <2>2, <2>3, <2>5 DEF Result, Sound, Still, Cached, Settled
  <1>7. QED
    BY <1>5, <1>6 DEF Ends
-----------------------------------------------------------------------------
(* The trial *)

\* The record of a profile is what set_profile writes, but for atdial.
LEMMA RecordIsProfile ==
    ASSUME Backend # "atdial", NEW f \in Profile
    PROVE  RecordedProfile(f) = set_profile(f)
  <1>1. (IF Backend = "qmi" /\ f.ip = "ipv4" THEN "ip" ELSE f.ip) = ConfiguredIp(f.ip)
    <2>1. CASE Backend = "qmi" /\ f.ip = "ipv4"
      BY <2>1 DEF ConfiguredIp
    <2>2. CASE ~(Backend = "qmi" /\ f.ip = "ipv4")
      BY <2>2 DEF ConfiguredIp
    <2>3. QED
      BY <2>1, <2>2
  <1>2. QED
    BY <1>1 DEF RecordedProfile, set_profile

\* What the positions of a trial are.
LEMMA TrialIs ==
    /\ \A l \in Trial :
         /\ l \notin Ending \cup Exiting \cup BeforeLock \cup Cycling \cup Resets \cup Policies
         /\ l \notin {"xDown", "xUp", "xLock", "xPower", "mrOn"}
         /\ l \in Chosen /\ l \in Identified
    /\ "capture" \notin Ending \cup Exiting \cup BeforeLock \cup Cycling \cup Trial
    /\ "capture" \in Chosen
    /\ {"candidate", "attempt", "ifdown", "probe", "saveCache", "saveActive", "success",
        "disarm", "noBearer", "bearerUp"} \subseteq Trial
    /\ {"candidate", "attempt", "noBearer"} \cap (Tried \cup Recorded) = {}
    /\ {"ifdown", "probe", "saveCache", "saveActive", "bearerUp"} \subseteq Tried \ Recorded
    /\ {"success", "disarm"} \subseteq Tried /\ {"success", "disarm"} \subseteq Recorded
  BY DEF Trial, Ending, Exiting, BeforeLock, Cycling, Resets, Restored, Policies, Chosen,
         Identified, Tried, Recorded

\* The trial begins with the profile it found.
LEMMA CaptureEnds ==
    ASSUME TypeOK, NEW p \in Proc, Capture(p)
    PROVE  Ends(p)
  <1> USE DEF section, files, world, holders
  <1> DEFINE r == loc[p]
             q == Candidates(p)
             t == [r EXCEPT !.old = cfg, !.rollback = TRUE, !.cands = q]
  <1>1. r \in Locals /\ pc[p] = "capture" /\ Still /\ UNCHANGED iface
    BY DEF TypeOK, Capture, Still
  <1>2. CASE Exit(p, 1)
    BY <1>1, <1>2, ExitFails, FailsEnd, TrialIs
  <1>3. CASE To(p, "candidate", t)
    <2> HIDE DEF q
    <2>1. pc'[p] = "candidate" /\ loc'[p] = t
      BY <1>3, Moved
    <2>2. Same({"old", "rollback"}, r, t)
      BY <1>1 DEF Locals, Same, Names
    <2> HIDE DEF t
    <2>3. /\ t.cmd = r.cmd /\ t.iccid = r.iccid /\ t.cur = r.cur
          /\ t.leaveDown = r.leaveDown
          /\ t.restoreIf = r.restoreIf /\ t.powerOff = r.powerOff /\ t.status = r.status
          /\ t.resetting = r.resetting /\ t.locked = r.locked /\ t.unwritten = r.unwritten
          /\ t.unstopped = r.unstopped /\ t.unrecorded = r.unrecorded
      BY <2>2 DEF Same, Names
    <2>4. ASSUME PowerArmed PROVE Powered(p)
      <3>1. ~r.powerOff
        BY <1>1, <2>4 DEF PowerArmed
      <3>2. QED
        BY <1>1, <2>1, <2>3, <3>1 DEF Powered, Still
    <2>5. ASSUME Settled PROVE Result(p)
      <3>1. Own("capture", r) /\ r.locked /\ Shared("capture", r)
        BY <1>1, <2>5, Settles, TrialIs
      <3>2. Own("candidate", t)
        BY <2>3, <3>1, TrialIs DEF Own
      <3>3. Shared(pc[p], loc[p])'
        <4>1. ReadsUnderLock /\ t.cmd = "apply" => t.iccid = sim'
          BY <1>1, <2>3, <3>1 DEF Shared, Still, Identified, Chosen
        <4>2. t.status = 0
          BY <2>3, <3>1, TrialIs DEF Own
        <4>3. QED
          BY <2>1, <4>1, <4>2, TrialIs DEF Shared, RolledBack, Succeeded
      <3>4. QED
        BY <1>1, <2>1, <2>5, <3>1, <3>2, <3>3 DEF Result, Sound, Still, Cached, Settled
    <2>6. QED
      BY <2>4, <2>5 DEF Ends
  <1>4. QED
    BY <1>2, <1>3 DEF Capture

\* set_profile configures the profile that is now tried.
LEMMA AttemptEnds ==
    ASSUME TypeOK, NEW p \in Proc, Attempt(p)
    PROVE  Ends(p)
  <1> USE DEF section, files, world, holders
  <1> DEFINE r == loc[p]
             f == Head(r.plan)
             q == Tail(r.plan)
             t == [r EXCEPT !.plan = q, !.cur = f]
  <1>1. /\ r \in Locals /\ pc[p] = "attempt" /\ r.plan # <<>>
        /\ UNCHANGED <<active, cache, sim, power, hist, iface>>
        /\ cfg' = set_profile(f) /\ To(p, "ifdown", t)
    BY DEF TypeOK, Attempt
  <1>2. f \in Profile
    <2>1. r.plan \in Seq(Profile)
      BY <1>1 DEF Locals
    <2>2. QED
      BY <1>1, <2>1
  <1> HIDE DEF f, q
  <1>3. pc'[p] = "ifdown" /\ loc'[p] = t
    BY <1>1, Moved
  <1>4. Same({"cur"}, r, t) /\ t.cur = f
    BY <1>1 DEF Locals, Same, Names
  <1> HIDE DEF t
  <1>5. /\ t.cmd = r.cmd /\ t.iccid = r.iccid /\ t.old = r.old
        /\ t.rollback = r.rollback /\ t.leaveDown = r.leaveDown
        /\ t.restoreIf = r.restoreIf /\ t.powerOff = r.powerOff /\ t.status = r.status
        /\ t.resetting = r.resetting /\ t.locked = r.locked /\ t.unwritten = r.unwritten
        /\ t.unstopped = r.unstopped /\ t.unrecorded = r.unrecorded
    BY <1>4 DEF Same, Names
  <1>6. ASSUME PowerArmed PROVE Powered(p)
    <2>1. ~r.powerOff
      BY <1>1, <1>6 DEF PowerArmed
    <2>2. QED
      BY <1>1, <1>3, <1>5, <2>1 DEF Powered
  <1>7. ASSUME Settled PROVE Result(p)
    <2>1. Own("attempt", r) /\ r.locked /\ Shared("attempt", r)
      BY <1>1, <1>7, Settles, TrialIs
    <2>2. Own("ifdown", t)
      BY <1>2, <1>4, <1>5, <2>1, TrialIs DEF Own
    <2>3. Shared(pc[p], loc[p])'
      <3>1. ReadsUnderLock /\ t.cmd = "apply" => t.iccid = sim'
        BY <1>1, <1>5, <2>1, TrialIs DEF Shared
      <3>2. t.status = 0
        BY <1>5, <2>1, TrialIs DEF Own
      <3>3. QED
        BY <1>1, <1>3, <1>4, <3>1, <3>2, TrialIs DEF Shared, RolledBack, Succeeded
    <2>4. QED
      BY <1>1, <1>3, <1>7, <2>1, <2>2, <2>3 DEF Result, Sound, Cached, Settled
  <1>8. QED
    BY <1>6, <1>7 DEF Ends

\* The profile connects: it is verified over the SIM that was identified.
LEMMA ProbeEnds ==
    ASSUME TypeOK, NEW p \in Proc, Probe(p)
    PROVE  Ends(p)
  <1> USE DEF section, files, world, holders
  <1> DEFINE r == loc[p]
  <1>1. /\ r \in Locals /\ pc[p] = "probe"
        /\ UNCHANGED <<cfg, active, cache, sim, power, iface>>
    BY DEF TypeOK, Probe
  <1>2. Same({}, r, r)
    BY DEF Same
  <1>3. CASE Go(p, "candidate") /\ UNCHANGED hist
    <2>1. pc'[p] = "candidate" /\ loc'[p] = r
      BY <1>3, Moved DEF Go
    <2>2. Walks(p)
      BY <1>1, <1>2, <1>3, <2>1, Going DEF Walks, Chosen, Trial
    <2>3. QED
      BY <2>2, WalksEnd
  <1>4. CASE /\ Go(p, "saveCache")
             /\ hist' = [hist EXCEPT !.verified = @ \cup {<<sim, loc[p].cur>>}]
    <2>1. pc'[p] = "saveCache" /\ loc'[p] = r
      BY <1>4, Moved DEF Go
    <2>2. /\ hist'.verified = hist.verified \cup {<<sim, r.cur>>}
          /\ hist'.powerLost = hist.powerLost /\ hist'.disturbed = hist.disturbed
      BY <1>4 DEF TypeOK, StoreOK
    <2> HIDE DEF r
    <2>3. ASSUME PowerArmed PROVE Powered(p)
      <3>1. ~r.powerOff
        BY <1>1, <2>3 DEF PowerArmed, r
      <3>2. QED
        BY <1>1, <2>1, <2>2, <3>1 DEF Powered, r
    <2>4. ASSUME Settled PROVE Result(p)
      <3>1. Own("probe", r) /\ r.locked /\ Shared("probe", r)
        BY <1>1, <2>4, Settles, TrialIs DEF r
      <3>2. Own("saveCache", r)
        BY <3>1, TrialIs DEF Own
      <3>3. Shared(pc[p], loc[p])'
        <4>1. ReadsUnderLock => r.iccid = sim /\ r.cmd = "apply"
          BY <3>1, TrialIs DEF Shared, Own
        <4>2. r.status = 0
          BY <3>1, TrialIs DEF Own
        <4>3. ~hist'.disturbed => cfg' = set_profile(r.cur)
          BY <1>1, <2>2, <3>1, TrialIs DEF Shared
        <4>4. ReadsUnderLock => <<r.iccid, r.cur>> \in hist'.verified
          BY <2>2, <4>1
        <4>5. QED
          BY <1>1, <2>1, <4>1, <4>2, <4>3, <4>4, TrialIs DEF Shared, RolledBack, Succeeded
      <3>4. Cached'
        BY <1>1, <2>2, <2>4 DEF Cached, Settled
      <3>5. QED
        BY <1>1, <2>1, <2>2, <3>1, <3>2, <3>3, <3>4 DEF Result, Sound, r
    <2>5. QED
      BY <2>3, <2>4 DEF Ends
  <1>5. QED
    BY <1>3, <1>4 DEF Probe

\* The active record names the SIM and the profile that connected, or could not
\* be written.
LEMMA SaveActiveEnds ==
    ASSUME TypeOK, NEW p \in Proc, SaveActive(p)
    PROVE  Ends(p)
  <1> USE DEF section, files, world, holders
  <1> DEFINE r == loc[p]
             s == loc'[p]
             t == [r EXCEPT !.unrecorded = TRUE]
  <1>1. /\ r \in Locals /\ pc[p] = "saveActive"
        /\ UNCHANGED <<cfg, cache, sim, power, iface, hist>>
    BY DEF TypeOK, SaveActive
  <1>2. Same({"unrecorded"}, r, t) /\ t.unrecorded
    BY <1>1 DEF Locals, Same, Names
  <1>3. \/ s = t
        \/ s = r /\ active' = [iccid |-> r.iccid, profile |-> RecordedProfile(r.cur)]
    BY Moved DEF SaveActive, Go
  <1>4. pc'[p] = "success"
    BY Moved DEF SaveActive, Go
  <1> HIDE DEF t
  <1>5. Same({"unrecorded"}, r, s) /\ (s.unrecorded \/ s = r)
    BY <1>2, <1>3 DEF Same
  <1>6. s.unrecorded \/ active' = [iccid |-> s.iccid, profile |-> RecordedProfile(s.cur)]
    BY <1>2, <1>3
  <1>7. /\ s.cmd = r.cmd /\ s.iccid = r.iccid /\ s.cur = r.cur /\ s.old = r.old
        /\ s.rollback = r.rollback /\ s.leaveDown = r.leaveDown /\ s.status = r.status
        /\ s.restoreIf = r.restoreIf /\ s.powerOff = r.powerOff
        /\ s.resetting = r.resetting /\ s.locked = r.locked /\ s.unwritten = r.unwritten
        /\ s.unstopped = r.unstopped
    BY <1>5 DEF Same, Names
  <1> HIDE DEF r, s
  <1>8. ASSUME PowerArmed PROVE Powered(p)
    <2>1. ~r.powerOff
      BY <1>1, <1>8 DEF PowerArmed, r
    <2>2. QED
      BY <1>1, <1>7, <2>1 DEF Powered, r, s
  <1>9. ASSUME Settled PROVE Result(p)
    <2>1. Own("saveActive", r) /\ r.locked /\ Shared("saveActive", r)
      BY <1>1, <1>9, Settles, TrialIs DEF r
    <2>2. Own("success", s)
      BY <1>7, <2>1, TrialIs DEF Own
    <2>3. Shared(pc[p], loc[p])'
      <3>1. /\ ReadsUnderLock /\ s.cmd = "apply" => s.iccid = sim'
            /\ ~hist'.disturbed => cfg' = set_profile(s.cur)
        BY <1>1, <1>7, <2>1, TrialIs DEF Shared
      <3>2. s.status = 0
        BY <1>7, <2>1, TrialIs DEF Own
      <3>3. QED
        BY <1>4, <1>6, <3>1, <3>2, TrialIs DEF Shared, RolledBack, Succeeded, s
    <2>4. QED
      BY <1>1, <1>4, <1>9, <2>1, <2>2, <2>3 DEF Result, Sound, Cached, Settled, r, s
  <1>10. QED
    BY <1>8, <1>9 DEF Ends

\* The trial has succeeded: the section holds what the record says.
LEMMA DisarmEnds ==
    ASSUME TypeOK, NEW p \in Proc, Disarm(p)
    PROVE  Ends(p)
  <1> USE DEF section, files, world, holders
  <1> DEFINE r == loc[p]
             t == [r EXCEPT !.rollback = FALSE]
             u == [t EXCEPT !.status = 0]
  <1>1. r \in Locals /\ pc[p] = "disarm" /\ Still /\ UNCHANGED iface
    BY DEF TypeOK, Disarm, Still
  <1>2. pc'[p] = (IF t.resetting THEN "mrAfter" ELSE "xPower") /\ loc'[p] = u
    BY Moved DEF Disarm, Return
  <1>3. Same({"rollback", "status"}, r, u) /\ ~u.rollback /\ u.status = 0
    BY <1>1 DEF Locals, Same, Names
  <1>4. t.resetting = r.resetting
    BY <1>1 DEF Locals
  <1> HIDE DEF t, u
  <1>5. /\ u.cmd = r.cmd /\ u.iccid = r.iccid /\ u.cur = r.cur /\ u.old = r.old
        /\ u.leaveDown = r.leaveDown
        /\ u.restoreIf = r.restoreIf /\ u.powerOff = r.powerOff
        /\ u.resetting = r.resetting /\ u.locked = r.locked /\ u.unwritten = r.unwritten
        /\ u.unstopped = r.unstopped /\ u.unrecorded = r.unrecorded
    BY <1>3 DEF Same, Names
  <1>6. pc'[p] \in {"xPower", "mrAfter"} /\ (pc'[p] = "mrAfter" => r.resetting)
    BY <1>2, <1>4
  <1>7. ASSUME PowerArmed PROVE Powered(p)
    <2>1. ~r.powerOff
      BY <1>1, <1>7 DEF PowerArmed
    <2>2. QED
      BY <1>1, <1>2, <1>5, <2>1 DEF Powered, Still
  <1>8. ASSUME Settled PROVE Result(p)
    <2>1. Own("disarm", r) /\ r.locked /\ Shared("disarm", r)
      BY <1>1, <1>8, Settles, TrialIs
    <2>2. ~r.unwritten /\ (r.restoreIf => r.resetting)
      BY <2>1, TrialIs DEF Own
    <2>3. Own(pc'[p], u)
      BY <1>3, <1>5, <1>6, <2>1, <2>2, EndingIs DEF Own
    <2>4. Backend # "atdial" /\ ~hist'.disturbed /\ ~u.unrecorded
            => configured_profile_matches_active' /\ active'.iccid = u.iccid
      <3>1. /\ ~hist.disturbed => cfg = set_profile(r.cur)
            /\ r.cur \in Profile
            /\ ~r.unrecorded => active = [iccid |-> r.iccid, profile |-> RecordedProfile(r.cur)]
        BY <2>1, TrialIs DEF Shared, Own
      <3>2. ASSUME Backend # "atdial", ~hist.disturbed, ~r.unrecorded
            PROVE  active # NoProfile /\ active.profile = cfg /\ active.iccid = r.iccid
        <4>1. RecordedProfile(r.cur) = set_profile(r.cur)
          BY <3>1, <3>2, RecordIsProfile
        <4>2. r.iccid \in Sim
          BY <1>1, TypedNow DEF Typed, LocalOK, Applying, Trial
        <4>3. active = [iccid |-> r.iccid, profile |-> cfg] /\ cfg \in Config
          BY <3>1, <3>2, <4>1 DEF TypeOK, StoreOK
        <4>4. QED
          BY <4>2, <4>3, EngineAssumption
      <3>3. QED
        BY <1>1, <1>5, <3>2 DEF configured_profile_matches_active, Still
    <2>5. Shared(pc[p], loc[p])'
      BY <1>2, <1>3, <1>6, <2>4, EndingIs DEF Shared, RolledBack, Succeeded
    <2>6. QED
      BY <1>1, <1>2, <1>5, <1>8, <2>1, <2>3, <2>5 DEF Result, Sound, Still, Cached, Settled
  <1>9. QED
    BY <1>7, <1>8 DEF Ends

\* A trial that ends without success claims nothing.
LEMMA ExhaustedEnds ==
    ASSUME TypeOK, NEW p \in Proc, Exhausted(p)
    PROVE  Ends(p)
  <1> USE DEF section, files, world, holders
  <1>1. Still /\ UNCHANGED iface /\ pc[p] = "candidate" /\ Exit(p, 1)
    BY DEF Exhausted, Still
  <1>2. QED
    BY <1>1, ExitFails, FailsEnd, TrialIs

\* Registration read again: roaming that the policy forbids ends the trial
\* with the interface to be left down.
LEMMA RecheckEnds ==
    ASSUME TypeOK, NEW p \in Proc, Recheck(p)
    PROVE  Ends(p)
  <1> USE DEF section, files, world, holders
  <1> DEFINE up == pc[p] = "bearerUp"
             r == loc[p]
             T(g) == [r EXCEPT !.reg = g, !.saw = @ \/ up]
  <1>1. /\ r \in Locals /\ pc[p] \in {"noBearer", "bearerUp"} /\ Still /\ UNCHANGED iface
    BY DEF TypeOK, Recheck, Still
  <1>2. PICK g \in refresh_modem_status(p) :
           \/ To(p, "xPower", [T(g) EXCEPT !.leaveDown = TRUE, !.status = 2])
           \/ To(p, "xPower", [T(g) EXCEPT !.status = 1])
           \/ To(p, IF up THEN "probe" ELSE "candidate", T(g))
    BY DEF Recheck
  <1> DEFINE t == T(g)
  <1>3. t = [r EXCEPT !.reg = g, !.saw = r.saw \/ up] /\ Same({}, r, t)
    BY <1>1 DEF Locals, Same, Names
  <1>4. CASE To(p, IF up THEN "probe" ELSE "candidate", t)
    <2> HIDE DEF t
    <2>1. pc'[p] = (IF up THEN "probe" ELSE "candidate") /\ loc'[p] = t
      BY <1>4, Moved
    <2>2. Goes(pc[p], pc'[p]) /\ pc[p] \in Chosen
      BY <1>1, <2>1, Going DEF Chosen, Trial
    <2>3. Walks(p)
      BY <1>1, <1>3, <2>1, <2>2 DEF Walks, Still
    <2>4. QED
      BY <2>3, WalksEnd
  <1>5. CASE To(p, "xPower", [T(g) EXCEPT !.status = 1])
    <2> DEFINE u == [T(g) EXCEPT !.status = 1]
    <2>1. Same({"status"}, r, u) /\ u.status = 1
      BY <1>1 DEF Locals, Same, Names
    <2>2. pc'[p] = "xPower" /\ loc'[p] = u
      BY <1>5, Moved
    <2> HIDE DEF u, T, t
    <2>3. Fails(p)
      BY <1>1, <2>1, <2>2 DEF Fails, Exiting
    <2>4. QED
      BY <2>3, FailsEnd
  <1>6. CASE To(p, "xPower", [T(g) EXCEPT !.leaveDown = TRUE, !.status = 2])
    <2> DEFINE u == [T(g) EXCEPT !.leaveDown = TRUE, !.status = 2]
    <2>1. Same({"leaveDown", "status"}, r, u) /\ u.leaveDown /\ u.status = 2
      BY <1>1 DEF Locals, Same, Names
    <2>2. pc'[p] = "xPower" /\ loc'[p] = u
      BY <1>6, Moved
    <2> HIDE DEF u, T, t
    <2>3. /\ u.cmd = r.cmd /\ u.iccid = r.iccid /\ u.cur = r.cur /\ u.old = r.old
          /\ u.rollback = r.rollback
          /\ u.restoreIf = r.restoreIf /\ u.powerOff = r.powerOff
          /\ u.resetting = r.resetting /\ u.locked = r.locked /\ u.unwritten = r.unwritten
          /\ u.unstopped = r.unstopped /\ u.unrecorded = r.unrecorded
      BY <2>1 DEF Same, Names
    <2>4. ASSUME PowerArmed PROVE Powered(p)
      <3>1. ~r.powerOff
        BY <1>1, <2>4 DEF PowerArmed
      <3>2. QED
        BY <1>1, <2>2, <2>3, <3>1 DEF Powered, Still
    <2>5. ASSUME Settled PROVE Result(p)
      <3>1. pc[p] \in Trial
        BY <1>1, TrialIs
      <3>2. Own(pc[p], r) /\ r.locked /\ r.rollback
        BY <2>5, <3>1, Settles
      <3>3. ~r.unwritten /\ "xPower" \in Exiting
        BY <3>1, <3>2, TrialIs DEF Own, Exiting
      <3>4. Own("xPower", u)
        BY <2>1, <2>3, <3>2, <3>3, EndingIs DEF Own
      <3>5. Shared(pc[p], loc[p])'
        BY <2>1, <2>2, <2>3, <3>2, EndingIs DEF Shared, RolledBack, Succeeded, StaysDown
      <3>6. QED
        BY <1>1, <2>2, <2>3, <2>5, <3>2, <3>4, <3>5 DEF Result, Sound, Still, Cached, Settled
    <2>6. QED
      BY <2>4, <2>5 DEF Ends
  <1>7. QED
    BY <1>2, <1>4, <1>5, <1>6
-----------------------------------------------------------------------------
(* reset, roaming-policy-set *)

\* A command that does not apply ends well.
LEMMA DoneEnds ==
    ASSUME TypeOK, NEW p \in Proc, Exit(p, 0), pc[p] \in Resets \cup Policies,
           UNCHANGED <<sim, power, hist>>,
           cache' = cache \/ cache' = [s \in Sim |-> NoProfile]
    PROVE  Ends(p)
  <1> DEFINE r == loc[p]
             t == [r EXCEPT !.status = 0]
  <1>1. pc'[p] = "xPower" /\ loc'[p] = t /\ r \in Locals
    BY Moved DEF Exit
  <1>2. Same({"status"}, r, t) /\ t.status = 0
    BY <1>1 DEF Locals, Same, Names
  <1> HIDE DEF t
  <1>3. /\ t.cmd = r.cmd /\ t.iccid = r.iccid /\ t.cur = r.cur /\ t.old = r.old
        /\ t.rollback = r.rollback /\ t.leaveDown = r.leaveDown
        /\ t.restoreIf = r.restoreIf /\ t.powerOff = r.powerOff
        /\ t.resetting = r.resetting /\ t.locked = r.locked /\ t.unwritten = r.unwritten
        /\ t.unstopped = r.unstopped /\ t.unrecorded = r.unrecorded
    BY <1>2, Alike
  <1>4. pc[p] \notin Trial \cup Ending \cup Exiting \cup BeforeLock \cup Cycling \cup {"xPower", "mrOn"}
    BY DEF Resets, Restored, Policies, Trial, Ending, Exiting, BeforeLock, Cycling
  <1>5. ASSUME PowerArmed PROVE Powered(p)
    <2>1. ~r.powerOff
      BY <1>4, <1>5 DEF PowerArmed
    <2>2. QED
      BY <1>1, <1>3, <2>1 DEF Powered
  <1>6. ASSUME Settled PROVE Result(p)
    <2>1. Own(pc[p], r) /\ r.locked /\ ~r.rollback
      BY <1>4, <1>6, Settles
    <2>2. r.cmd \in {"reset", "roaming-policy-set"} /\ ~r.unwritten
      BY <1>4, <2>1 DEF Own, Exiting
    <2>3. r.cmd \notin Applies
      BY <2>2 DEF Applies
    <2>4. Own("xPower", t)
      BY <1>2, <1>3, <2>1, <2>2, <2>3, EndingIs DEF Own
    <2>5. Shared(pc[p], loc[p])'
      BY <1>1, <1>2, <1>3, <2>3, EndingIs DEF Shared, RolledBack, Succeeded
    <2>6. Cached'
      BY <1>6 DEF Cached, Settled
    <2>7. QED
      BY <1>1, <2>1, <2>4, <2>5, <2>6 DEF Result, Sound
  <1>7. QED
    BY <1>5, <1>6 DEF Ends

\* The steps of a reset and of a policy that fail, end, or go on.
LEMMA ResetSteps ==
    ASSUME TypeOK, NEW p \in Proc,
           \/ ResetRestore(p) \/ ResetNothing(p) \/ ResetUp(p) \/ ResetDrop(p) \/ PolicyWrite(p)
    PROVE  Ends(p)
  <1> USE DEF section, files, world, holders
  <1>1. Same({}, loc[p], loc[p])
    BY DEF Same
  <1>2. ASSUME NEW l, Go(p, l)
        PROVE  pc'[p] = l /\ loc'[p] = loc[p]
    BY <1>2, Moved DEF Go
  <1>3. \A l \in {"rsRestore", "rsUp", "rsDrop", "rpWrite"} :
           l \notin Exiting \cup BeforeLock /\ l \in Resets \cup Policies
    BY DEF Exiting, BeforeLock, Resets, Restored, Policies
  <1>4. CASE ResetRestore(p)
    <2>1. CASE Go(p, "rsDown")
      <3>1. Walks(p)
        BY <1>1, <1>2, <1>4, <2>1, Going DEF ResetRestore, Walks, Chosen, Trial, Tried
      <3>2. QED
        BY <3>1, WalksEnd
    <2>2. CASE Exit(p, 1) /\ UNCHANGED cfg
      BY <1>3, <1>4, <2>2, ExitFails, FailsEnd DEF ResetRestore, Still, BeforeLock
    <2>3. QED
      BY <1>4, <2>1, <2>2 DEF ResetRestore
  <1>5. CASE ResetNothing(p)
    BY <1>3, <1>5, DoneEnds DEF ResetNothing
  <1>6. CASE ResetUp(p)
    <2>1. CASE Go(p, "rsCache")
      <3>1. Walks(p)
        BY <1>1, <1>2, <1>6, <2>1, Going DEF ResetUp, Walks, Chosen, Trial
      <3>2. QED
        BY <3>1, WalksEnd
    <2>2. CASE Exit(p, 1)
      BY <1>3, <1>6, <2>2, ExitFails, FailsEnd DEF ResetUp, Still, BeforeLock
    <2>3. QED
      BY <1>6, <2>1, <2>2 DEF ResetUp
  <1>7. CASE ResetDrop(p)
    BY <1>3, <1>7, DoneEnds DEF ResetDrop
  <1>8. CASE PolicyWrite(p)
    <2>1. CASE Go(p, "rpEnforce")
      <3>1. Walks(p)
        BY <1>1, <1>2, <1>8, <2>1, Going DEF PolicyWrite, Walks, Chosen, Trial
      <3>2. QED
        BY <3>1, WalksEnd
    <2>2. CASE Exit(p, 1)
      BY <1>3, <1>8, <2>2, ExitFails, FailsEnd DEF PolicyWrite, Still, BeforeLock
    <2>3. QED
      BY <1>8, <2>1, <2>2 DEF PolicyWrite
  <1>9. QED
    BY <1>4, <1>5, <1>6, <1>7, <1>8

\* A reconcile called by another command begins by reading the SIM, under the
\* lock that command holds.
LEMMA CallsEnd ==
    ASSUME TypeOK, NEW p \in Proc, NEW t,
           pc[p] \in {"rpWait", "mrWait", "mrData"}, pc'[p] = "readSim", loc'[p] = t,
           Same({"cmd", "resetting", "restoreIf"}, loc[p], t), t.cmd = "reconcile",
           t.resetting \/ (pc[p] = "rpWait" /\ t.restoreIf = loc[p].restoreIf
                           /\ t.resetting = loc[p].resetting),
           t.restoreIf => loc[p].restoreIf,
           Still
    PROVE  Ends(p)
  <1> DEFINE r == loc[p]
  <1>1. /\ t.iccid = r.iccid /\ t.cur = r.cur /\ t.old = r.old
        /\ t.rollback = r.rollback /\ t.leaveDown = r.leaveDown /\ t.powerOff = r.powerOff
        /\ t.locked = r.locked /\ t.unwritten = r.unwritten
        /\ t.unstopped = r.unstopped /\ t.unrecorded = r.unrecorded /\ t.status = r.status
    BY DEF Same, Names
  <1>2. ASSUME PowerArmed PROVE Powered(p)
    <2>1. ~r.powerOff
      BY <1>2 DEF PowerArmed
    <2>2. QED
      BY <1>1, <2>1 DEF Powered, Still
  <1>3. ASSUME Settled PROVE Result(p)
    <2>1. /\ pc[p] \notin BeforeLock \cup Exiting \cup Ending
          /\ pc[p] = "rpWait" => pc[p] \notin Cycling
          /\ "readSim" \notin Ending \cup Exiting \cup Cycling \cup Resets \cup Policies \cup Tried
                              \cup Chosen \cup Recorded \cup Identified
      BY DEF BeforeLock, Exiting, Ending, Cycling, Resets, Restored, Policies, Tried, Chosen,
             Trial, Recorded, Identified
    <2>2. Own(pc[p], r) /\ r.locked
      BY <1>3, <2>1, Settles
    <2>3. Own("readSim", t)
      BY <1>1, <2>1, <2>2 DEF Own
    <2>4. t.status = 0
      BY <1>1, <2>1, <2>2 DEF Own
    <2>5. Shared(pc[p], loc[p])'
      BY <2>1, <2>4 DEF Shared, RolledBack, Succeeded
    <2>6. QED
      BY <1>3, <2>2, <2>3, <2>5 DEF Result, Sound, Still, Cached, Settled
  <1>4. QED
    BY <1>2, <1>3 DEF Ends

\* The policy is enforced: the interface is stopped, started and waited for, or
\* left alone.
LEMMA EnforceEnds ==
    ASSUME TypeOK, NEW p \in Proc, PolicyEnforce(p)
    PROVE  Ends(p)
  <1> USE DEF section, files, world, holders
  <1>1. pc[p] = "rpEnforce" /\ Still /\ loc[p] \in Locals
    BY DEF PolicyEnforce, Still, TypeOK
  <1>2. "rpEnforce" \in Policies /\ "rpEnforce" \notin Exiting \cup BeforeLock
    BY DEF Policies, Exiting, BeforeLock
  <1>3. CASE Exit(p, 0)
    BY <1>1, <1>2, <1>3, DoneEnds DEF Still
  <1>4. CASE Exit(p, 1)
    BY <1>1, <1>2, <1>4, ExitFails, FailsEnd DEF BeforeLock
  <1>5. CASE To(p, "rpWait", [loc[p] EXCEPT !.remaining = InterfaceWait])
    <2> DEFINE t == [loc[p] EXCEPT !.remaining = InterfaceWait]
    <2>1. pc'[p] = "rpWait" /\ loc'[p] = t
      BY <1>5, Moved
    <2>2. Same({}, loc[p], t)
      BY <1>1 DEF Locals, Same, Names
    <2> HIDE DEF t
    <2>3. Walks(p)
      BY <1>1, <2>1, <2>2, Going DEF Still, Walks, Chosen, Trial
    <2>4. QED
      BY <2>3, WalksEnd
  <1>6. QED
    BY <1>3, <1>4, <1>5 DEF PolicyEnforce

\* Then it is reconciled.
LEMMA PolicyWaitedEnds ==
    ASSUME TypeOK, NEW p \in Proc, PolicyWaited(p)
    PROVE  Ends(p)
  <1> USE DEF section, files, world, holders
  <1>1. pc[p] = "rpWait" /\ Still /\ loc[p] \in Locals
    BY DEF PolicyWaited, Still, TypeOK
  <1> DEFINE t == [loc[p] EXCEPT !.cmd = "reconcile", !.remaining = 0]
  <1>2. pc'[p] = "readSim" /\ loc'[p] = t
    BY Moved DEF PolicyWaited
  <1>3. /\ Same({"cmd", "resetting", "restoreIf"}, loc[p], t) /\ t.cmd = "reconcile"
        /\ t.restoreIf = loc[p].restoreIf /\ t.resetting = loc[p].resetting
    BY <1>1 DEF Locals, Same, Names
  <1> HIDE DEF t
  <1>4. QED
    BY <1>1, <1>2, <1>3, CallsEnd
-----------------------------------------------------------------------------
(* modem-reset *)

\* The positions of a power cycle.
LEMMA CyclingIs ==
    \A l \in Cycling :
        l \notin Ending \cup Exiting \cup BeforeLock \cup Resets \cup Policies \cup Tried
                 \cup Chosen \cup Recorded \cup Identified
                 \cup {"xDown", "xUp", "xLock", "xPower", "mrAfter", "saveCache"}
  BY DEF Cycling, Ending, Exiting, BeforeLock, Resets, Restored, Policies, Tried, Chosen, Trial,
         Recorded, Identified

\* From one position of the power cycle to the next.
LEMMA CycleEnds ==
    ASSUME TypeOK, NEW p \in Proc, pc[p] \in Cycling, pc'[p] \in Cycling,
           Same({"restoreIf", "powerOff"}, loc[p], loc'[p]),
           loc'[p].restoreIf = loc[p].restoreIf \/ pc[p] = "mrDown",
           UNCHANGED <<cfg, active, cache, sim, hist>>
    PROVE  Settled => Result(p)
  <1> DEFINE r == loc[p]
             s == loc'[p]
  <1>1. /\ s.cmd = r.cmd /\ s.iccid = r.iccid /\ s.cur = r.cur /\ s.old = r.old
        /\ s.rollback = r.rollback /\ s.leaveDown = r.leaveDown /\ s.status = r.status
        /\ s.resetting = r.resetting /\ s.locked = r.locked /\ s.unwritten = r.unwritten
        /\ s.unstopped = r.unstopped /\ s.unrecorded = r.unrecorded
    BY DEF Same, Names
  <1>2. SUFFICES ASSUME Settled PROVE Result(p)
    OBVIOUS
  <1>3. Own(pc[p], r) /\ r.locked
    BY <1>2, Settles, CyclingIs
  <1>4. Own(pc'[p], s)
    BY <1>1, <1>3, CyclingIs DEF Own
  <1>5. s.status = 0
    BY <1>1, <1>3, CyclingIs DEF Own
  <1>6. Shared(pc[p], loc[p])'
    BY <1>5, CyclingIs DEF Shared, RolledBack, Succeeded
  <1>7. QED
    BY <1>2, <1>3, <1>4, <1>6 DEF Result, Sound, Cached, Settled

\* The interface is stopped, to be started again.
LEMMA ModemDownEnds ==
    ASSUME TypeOK, NEW p \in Proc, ModemDown(p)
    PROVE  Ends(p)
  <1> USE DEF section, files, world, holders
  <1> DEFINE r == loc[p]
             t == [r EXCEPT !.restoreIf = TRUE]
  <1>1. /\ r \in Locals /\ pc[p] = "mrDown" /\ Still
        /\ pc'[p] = "mrOff" /\ loc'[p] = t
    BY Moved DEF TypeOK, ModemDown, Still
  <1>2. Same({"restoreIf"}, r, t)
    BY <1>1 DEF Locals, Same, Names
  <1> HIDE DEF t
  <1>3. Same({"restoreIf", "powerOff"}, r, t) /\ t.powerOff = r.powerOff
    BY <1>2 DEF Same, Names
  <1>4. ASSUME PowerArmed PROVE Powered(p)
    <2>1. ~r.powerOff
      BY <1>1, <1>4 DEF PowerArmed
    <2>2. QED
      BY <1>1, <1>3, <2>1 DEF Powered, Still
  <1>5. QED
    BY <1>1, <1>3, <1>4, CycleEnds DEF Ends, Still, Cycling

\* Power off, with its restoration armed first.
LEMMA ModemOffEnds ==
    ASSUME TypeOK, NEW p \in Proc, ModemOff(p)
    PROVE  Ends(p)
  <1> USE DEF section, files, world, holders
  <1> DEFINE r == loc[p]
             t == [r EXCEPT !.powerOff = TRUE]
             u == [r EXCEPT !.powerOff = TRUE, !.status = 1]
  <1>1. /\ r \in Locals /\ pc[p] = "mrOff"
        /\ UNCHANGED <<cfg, active, cache, sim, hist, iface>>
    BY DEF TypeOK, ModemOff
  <1>2. /\ Same({"powerOff"}, r, t) /\ t.powerOff
        /\ Same({"powerOff", "status"}, r, u) /\ u.powerOff /\ u.status = 1
    BY <1>1 DEF Locals, Same, Names
  <1>3. CASE power' = "off" /\ To(p, "mrOn", t)
    <2>1. pc'[p] = "mrOn" /\ loc'[p] = t
      BY <1>3, Moved
    <2> HIDE DEF t
    <2>2. Powered(p)
      BY <1>1, <1>2, <2>1 DEF Powered
    <2>3. Same({"restoreIf", "powerOff"}, r, t) /\ t.restoreIf = r.restoreIf
      BY <1>2 DEF Same, Names
    <2>4. QED
      BY <1>1, <2>1, <2>2, <2>3, CycleEnds DEF Ends, Cycling
  <1>4. CASE UNCHANGED power /\ To(p, "xPower", u)
    <2>1. pc'[p] = "xPower" /\ loc'[p] = u
      BY <1>4, Moved
    <2> HIDE DEF t, u
    <2>2. /\ u.cmd = r.cmd /\ u.iccid = r.iccid /\ u.cur = r.cur /\ u.old = r.old
          /\ u.rollback = r.rollback /\ u.leaveDown = r.leaveDown
          /\ u.restoreIf = r.restoreIf
          /\ u.resetting = r.resetting /\ u.locked = r.locked /\ u.unwritten = r.unwritten
          /\ u.unstopped = r.unstopped /\ u.unrecorded = r.unrecorded
      BY <1>2 DEF Same, Names
    <2>3. Powered(p)
      BY <1>1, <1>2, <1>4, <2>1 DEF Powered
    <2>4. ASSUME Settled PROVE Result(p)
      <3>1. "mrOff" \in Cycling
        BY DEF Cycling
      <3>2. Own("mrOff", r) /\ r.locked
        BY <1>1, <2>4, <3>1, Settles, CyclingIs
      <3>3. ~r.unwritten
        BY <3>2 DEF Own
      <3>4. Own("xPower", u)
        BY <1>2, <2>2, <3>2, <3>3, EndingIs DEF Own
      <3>5. Shared(pc[p], loc[p])'
        BY <1>2, <2>1, EndingIs DEF Shared, RolledBack, Succeeded
      <3>6. QED
        BY <1>1, <2>1, <2>4, <3>2, <3>4, <3>5 DEF Result, Sound, Cached, Settled
    <2>5. QED
      BY <2>3, <2>4 DEF Ends
  <1>5. QED
    BY <1>3, <1>4 DEF ModemOff

\* Power on, and nothing left to restore.
LEMMA ModemOnEnds ==
    ASSUME TypeOK, NEW p \in Proc, ModemOn(p)
    PROVE  Ends(p)
  <1> USE DEF section, files, world, holders
  <1> DEFINE r == loc[p]
             t == [r EXCEPT !.powerOff = FALSE, !.remaining = ModemWait]
  <1>1. /\ r \in Locals /\ pc[p] = "mrOn"
        /\ UNCHANGED <<cfg, active, cache, sim, hist, iface>>
    BY DEF TypeOK, ModemOn
  <1>2. "mrOn" \in Cycling /\ "mrWait" \in Cycling
    BY DEF Cycling
  <1>3. CASE power' = "on" /\ To(p, "mrWait", t)
    <2>1. pc'[p] = "mrWait" /\ loc'[p] = t
      BY <1>3, Moved
    <2>2. Same({"powerOff"}, r, t) /\ ~t.powerOff
      BY <1>1 DEF Locals, Same, Names
    <2> HIDE DEF t
    <2>3. Powered(p)
      BY <1>1, <1>3, <2>1, <2>2 DEF Powered
    <2>4. Same({"restoreIf", "powerOff"}, r, t) /\ t.restoreIf = r.restoreIf
      BY <2>2 DEF Same, Names
    <2>5. QED
      BY <1>1, <1>2, <2>1, <2>3, <2>4, CycleEnds DEF Ends
  <1>4. CASE UNCHANGED power /\ Exit(p, 1)
    <2>1. Still
      BY <1>1, <1>4 DEF Still
    <2>2. QED
      BY <1>1, <1>2, <1>4, <2>1, ExitFails, FailsEnd, CyclingIs DEF BeforeLock
  <1>5. QED
    BY <1>3, <1>4 DEF ModemOn

\* A wait of the power cycle begins, or goes on.
LEMMA CycleWaits ==
    ASSUME TypeOK, NEW p \in Proc, pc[p] \in Cycling \ {"mrOn"}, NEW l \in Cycling, NEW n,
           To(p, l, [loc[p] EXCEPT !.remaining = n]) \/ Go(p, l),
           Still
    PROVE  Ends(p)
  <1> DEFINE t == [loc[p] EXCEPT !.remaining = n]
  <1>1. loc[p] \in Locals
    BY DEF TypeOK
  <1>2. pc'[p] = l /\ loc'[p] \in {t, loc[p]}
    BY Moved DEF Go
  <1>3. Same({}, loc[p], t) /\ Same({}, loc[p], loc[p])
    BY <1>1 DEF Locals, Same, Names
  <1> HIDE DEF t
  <1>4. Same({}, loc[p], loc'[p])
    BY <1>2, <1>3
  <1>5. /\ Same({"restoreIf", "powerOff"}, loc[p], loc'[p])
        /\ loc'[p].restoreIf = loc[p].restoreIf /\ loc'[p].powerOff = loc[p].powerOff
    BY <1>4 DEF Same, Names
  <1>6. ASSUME PowerArmed PROVE Powered(p)
    <2>1. ~loc[p].powerOff
      BY <1>6 DEF PowerArmed, Cycling
    <2>2. QED
      BY <1>5, <2>1 DEF Powered, Still
  <1>7. Settled => Result(p)
    BY <1>2, <1>5, CycleEnds DEF Still
  <1>8. QED
    BY <1>6, <1>7 DEF Ends

\* The modem is back, or not: the reconcile, or the wait for the interface.
LEMMA ModemReturnedEnds ==
    ASSUME TypeOK, NEW p \in Proc, ModemReturned(p) \/ ModemReady(p) \/ ModemLate(p)
    PROVE  Ends(p)
  <1> USE DEF section, files, world, holders
  <1> DEFINE r == loc[p]
             t == Reconciling(p)
             u == [t EXCEPT !.restoreIf = FALSE]
  <1>1. /\ r \in Locals /\ pc[p] \in {"mrWait", "mrUp", "mrData", "mrStop"} /\ Still
    BY DEF TypeOK, ModemReturned, ModemReady, ModemLate, Still
  <1>2. pc[p] \in Cycling \ {"mrOn"} /\ {"mrUp", "mrData", "mrStop"} \subseteq Cycling
    BY <1>1 DEF Cycling
  <1>3. CASE Exit(p, 1) \/ Exit(p, 3)
    BY <1>1, <1>2, <1>3, ExitFails, FailsEnd, CyclingIs DEF BeforeLock
  <1>4. CASE pc[p] = "mrWait" /\ To(p, "readSim", t)
    <2>1. pc'[p] = "readSim" /\ loc'[p] = t
      BY <1>4, Moved
    <2>2. /\ Same({"cmd", "resetting", "restoreIf"}, r, t)
          /\ t.cmd = "reconcile" /\ t.resetting /\ t.restoreIf = r.restoreIf
      BY <1>1 DEF Locals, Same, Names, Reconciling
    <2> HIDE DEF t
    <2>3. QED
      BY <1>1, <1>4, <2>1, <2>2, CallsEnd
  <1>5. CASE pc[p] = "mrData" /\ To(p, "readSim", u)
    <2>1. pc'[p] = "readSim" /\ loc'[p] = u
      BY <1>5, Moved
    <2>2. /\ Same({"cmd", "resetting", "restoreIf"}, r, u)
          /\ u.cmd = "reconcile" /\ u.resetting /\ ~u.restoreIf
      BY <1>1 DEF Locals, Same, Names, Reconciling
    <2> HIDE DEF t, u
    <2>3. QED
      BY <1>1, <1>5, <2>1, <2>2, CallsEnd
  <1>6. CASE \/ To(p, "mrUp", [loc[p] EXCEPT !.remaining = InterfaceWait])
             \/ To(p, "mrData", [loc[p] EXCEPT !.remaining = InterfaceWait])
             \/ Go(p, "mrStop")
    BY <1>1, <1>2, <1>6, CycleWaits
  <1>7. CASE ModemReturned(p)
    BY <1>3, <1>4, <1>6, <1>7 DEF ModemReturned
  <1>8. CASE ModemReady(p)
    <2>1. CASE pc[p] = "mrUp"
      BY <1>6, <1>8, <2>1 DEF ModemReady
    <2>2. CASE pc[p] = "mrData"
      BY <1>5, <1>8, <2>2 DEF ModemReady
    <2>3. QED
      BY <1>8, <2>1, <2>2 DEF ModemReady
  <1>9. CASE ModemLate(p)
    BY <1>3, <1>9 DEF ModemLate
  <1>10. QED
    BY <1>7, <1>8, <1>9

\* One turn of a wait.
LEMMA TurnEnds ==
    ASSUME TypeOK, NEW p \in Proc, AwaitTurn(p)
    PROVE  Ends(p)
  <1> USE DEF section, files, world, holders
  <1> DEFINE n == loc[p].remaining - 1
             t == [loc[p] EXCEPT !.remaining = n]
             l == IF pc[p] = "turn" THEN "preflight" ELSE pc[p]
  <1>1. loc[p] \in Locals /\ pc[p] \in Waiting /\ Still
    BY DEF TypeOK, AwaitTurn, Still
  <1>2. To(p, l, t)
    BY <1>1 DEF AwaitTurn, Locals
  <1> HIDE DEF n
  <1>3. CASE pc[p] \in {"mrWait", "mrUp", "mrData"}
    <2>1. pc[p] \in Cycling \ {"mrOn"} /\ l = pc[p]
      BY <1>3 DEF Cycling
    <2> HIDE DEF l
    <2>2. QED
      BY <1>1, <1>2, <2>1, CycleWaits
  <1>4. CASE pc[p] \in {"turn", "bearer", "address", "rpWait"}
    <2>1. pc'[p] = l /\ loc'[p] = t
      BY <1>2, Moved
    <2>2. Same({}, loc[p], t)
      BY <1>1 DEF Locals, Same, Names
    <2> HIDE DEF t
    <2>3. Goes(pc[p], pc'[p]) /\ (pc'[p] \in Chosen => pc[p] \in Chosen)
      BY <1>4, <2>1, Going DEF Chosen, Trial
    <2>4. Walks(p)
      BY <1>1, <2>1, <2>2, <2>3 DEF Still, Walks
    <2>5. QED
      BY <2>4, WalksEnd
  <1>5. QED
    BY <1>1, <1>3, <1>4 DEF Waiting

\* After the reconcile: a block that holds is not undone.
LEMMA ModemReconciledEnds ==
    ASSUME TypeOK, NEW p \in Proc, ModemReconciled(p)
    PROVE  Ends(p)
  <1> USE DEF section, files, world, holders
  <1> DEFINE r == loc[p]
  <1>1. r \in Locals /\ pc[p] = "mrAfter" /\ Still /\ UNCHANGED iface
    BY DEF TypeOK, ModemReconciled, Still
  <1>2. PICK up \in {FALSE, iface = "up"} :
           To(p, "xPower", [r EXCEPT !.restoreIf = @ /\ ~(loc[p].status \in {0, 2} \/ up)])
    BY DEF ModemReconciled, interface_is_up
  <1> DEFINE b == r.restoreIf /\ ~(r.status \in {0, 2} \/ up)
             t == [r EXCEPT !.restoreIf = b]
  <1>3. pc'[p] = "xPower" /\ loc'[p] = t
    BY <1>1, <1>2, Moved DEF Locals
  <1> HIDE DEF b
  <1>4. Same({"restoreIf"}, r, t) /\ t.restoreIf = b
    BY <1>1 DEF Locals, Same, Names
  <1> HIDE DEF t
  <1>5. /\ t.cmd = r.cmd /\ t.iccid = r.iccid /\ t.cur = r.cur /\ t.old = r.old
        /\ t.rollback = r.rollback /\ t.leaveDown = r.leaveDown
        /\ t.powerOff = r.powerOff /\ t.status = r.status
        /\ t.resetting = r.resetting /\ t.locked = r.locked /\ t.unwritten = r.unwritten
        /\ t.unstopped = r.unstopped /\ t.unrecorded = r.unrecorded
        /\ t.restoreIf => r.restoreIf /\ r.status \notin {0, 2}
    BY <1>4 DEF Same, Names, b
  <1>6. ASSUME PowerArmed PROVE Powered(p)
    <2>1. ~r.powerOff
      BY <1>1, <1>6 DEF PowerArmed
    <2>2. QED
      BY <1>1, <1>3, <1>5, <2>1 DEF Powered, Still
  <1>7. ASSUME Settled PROVE Result(p)
    <2>1. /\ "mrAfter" \notin BeforeLock \cup Exiting \cup Trial
          /\ "xPower" \in Exiting
      BY DEF BeforeLock, Exiting, Trial
    <2>2. Own("mrAfter", r) /\ r.locked /\ ~r.rollback /\ Shared("mrAfter", r)
      BY <1>1, <1>7, <2>1, Settles
    <2>3. Own("xPower", t)
      BY <1>5, <2>1, <2>2, EndingIs DEF Own
    <2>4. Shared(pc[p], loc[p])'
      <3>1. t.status = 2 /\ ~t.unstopped => iface' = "down"
        BY <1>1, <1>5, <2>2 DEF Shared, StaysDown
      <3>2. Backend # "atdial" /\ ~hist'.disturbed
                /\ t.status = 0 /\ t.cmd \in Applies /\ ~t.unrecorded
              => configured_profile_matches_active' /\ active'.iccid = t.iccid
        BY <1>1, <1>5, <2>2, EndingIs DEF Shared, RolledBack, Succeeded,
               configured_profile_matches_active, Still
      <3>3. QED
        BY <1>3, <3>1, <3>2, EndingIs DEF Shared, RolledBack, Succeeded
    <2>5. QED
      BY <1>1, <1>3, <1>7, <2>2, <2>3, <2>4 DEF Result, Sound, Still, Cached, Settled
  <1>8. QED
    BY <1>6, <1>7 DEF Ends
-----------------------------------------------------------------------------
(* on_exit, and the end of a process *)

\* The positions of the exit trap.
LEMMA TrapIs ==
    \A l \in {"xPower", "xRestore", "xDown", "xUp", "xLock"} :
        /\ l \in Ending /\ l \in Exiting
        /\ l \notin Resets \cup Policies \cup Cycling \cup Tried \cup Chosen \cup Recorded
                    \cup Identified \cup {"saveCache", "idle", "mrAfter", "mrOn"}
  BY DEF Ending, Exiting, Resets, Restored, Policies, Cycling, Tried, Chosen, Trial, Recorded,
         Identified

\* The power is restored, or known to be lost.
LEMMA ExitPowerEnds ==
    ASSUME TypeOK, NEW p \in Proc, ExitPower(p)
    PROVE  Ends(p)
  <1> USE DEF section, files, world, holders
  <1> DEFINE r == loc[p]
             t == [r EXCEPT !.powerOff = FALSE]
  <1>1. /\ r \in Locals /\ pc[p] = "xPower" /\ UNCHANGED <<cfg, active, cache, sim, iface>>
        /\ pc'[p] = "xRestore" /\ loc'[p] = t
        /\ power' \in IF r.powerOff THEN {power, "on"} ELSE {power}
        /\ hist' = [hist EXCEPT !.powerLost = @ \/ (r.powerOff /\ power' = "off")]
    BY Moved DEF TypeOK, ExitPower
  <1>2. Same({"powerOff"}, r, t) /\ ~t.powerOff
    BY <1>1 DEF Locals, Same, Names
  <1> HIDE DEF t
  <1>3. /\ t.cmd = r.cmd /\ t.iccid = r.iccid /\ t.cur = r.cur /\ t.old = r.old
        /\ t.rollback = r.rollback /\ t.leaveDown = r.leaveDown
        /\ t.restoreIf = r.restoreIf /\ t.status = r.status
        /\ t.resetting = r.resetting /\ t.locked = r.locked /\ t.unwritten = r.unwritten
        /\ t.unstopped = r.unstopped /\ t.unrecorded = r.unrecorded
    BY <1>2 DEF Same, Names
  <1>4. /\ hist'.powerLost = (hist.powerLost \/ (r.powerOff /\ power' = "off"))
        /\ hist'.verified = hist.verified /\ hist'.disturbed = hist.disturbed
    BY <1>1 DEF TypeOK, StoreOK
  <1>5. Powered(p)
    BY <1>1, <1>2, <1>4 DEF Powered
  <1>6. ASSUME Settled PROVE Result(p)
    <2>1. Own("xPower", r) /\ (r.locked => Shared("xPower", r))
      BY <1>1, <1>6, Settles
    <2>2. ~r.unwritten
      BY <2>1 DEF Own
    <2>3. Own("xRestore", t)
      BY <1>3, <2>1, <2>2, TrapIs DEF Own
    <2>4. t.locked => Shared(pc[p], loc[p])'
      BY <1>1, <1>3, <1>4, <2>1, TrapIs DEF Shared, RolledBack, Succeeded,
             StaysDown, configured_profile_matches_active
    <2>5. QED
      BY <1>1, <1>4, <1>6, <2>3, <2>4 DEF Result, Sound, Cached, Settled
  <1>7. QED
    BY <1>5, <1>6 DEF Ends

\* The old profile is written, or nothing more is done about it.
LEMMA ExitRollbackEnds ==
    ASSUME TypeOK, NEW p \in Proc, ExitRollback(p)
    PROVE  Ends(p)
  <1> USE DEF section, files, world, holders
  <1> DEFINE r == loc[p]
             t == [r EXCEPT !.unwritten = TRUE]
  <1>1. /\ r \in Locals /\ pc[p] = "xRestore" /\ r.rollback
        /\ UNCHANGED <<active, cache, sim, iface, power, hist>>
    BY DEF TypeOK, ExitRollback
  <1>2. ASSUME PowerArmed PROVE ~r.powerOff
    BY <1>1, <1>2 DEF PowerArmed
  <1>3. ASSUME Settled
        PROVE  Own("xRestore", r) /\ r.locked /\ r.status # 0 /\ ~r.unwritten
    <2>1. Own("xRestore", r) /\ r.locked
      BY <1>1, <1>3, Settles
    <2>2. QED
      BY <1>1, <2>1, TrapIs DEF Own
  <1>4. CASE cfg' = r.old /\ Go(p, "xDown")
    <2>1. pc'[p] = "xDown" /\ loc'[p] = r
      BY <1>4, Moved DEF Go
    <2>2. ASSUME PowerArmed PROVE Powered(p)
      BY <1>1, <1>2, <2>1, <2>2 DEF Powered
    <2>3. ASSUME Settled PROVE Result(p)
      <3>1. Own("xDown", r)
        BY <1>1, <1>3, <2>3, TrapIs DEF Own
      <3>2. Shared(pc[p], loc[p])'
        BY <1>3, <1>4, <2>1, <2>3, TrapIs DEF Shared, RolledBack, Succeeded, StaysDown
      <3>3. QED
        BY <1>1, <1>3, <2>1, <2>3, <3>1, <3>2 DEF Result, Sound, Cached, Settled
    <2>4. QED
      BY <2>2, <2>3 DEF Ends
  <1>5. CASE To(p, "xLock", t) /\ UNCHANGED cfg
    <2>1. pc'[p] = "xLock" /\ loc'[p] = t
      BY <1>5, Moved
    <2>2. Same({"unwritten"}, r, t) /\ t.unwritten
      BY <1>1 DEF Locals, Same, Names
    <2> HIDE DEF t
    <2>3. /\ t.cmd = r.cmd /\ t.iccid = r.iccid /\ t.cur = r.cur /\ t.old = r.old
          /\ t.rollback = r.rollback /\ t.leaveDown = r.leaveDown
          /\ t.restoreIf = r.restoreIf /\ t.status = r.status
          /\ t.resetting = r.resetting /\ t.locked = r.locked /\ t.powerOff = r.powerOff
      BY <2>2 DEF Same, Names
    <2>4. ASSUME PowerArmed PROVE Powered(p)
      BY <1>1, <1>2, <2>1, <2>3, <2>4 DEF Powered
    <2>5. ASSUME Settled PROVE Result(p)
      <3>1. Own("xLock", t)
        BY <1>1, <1>3, <2>2, <2>3, <2>5, TrapIs DEF Own
      <3>2. Shared(pc[p], loc[p])'
        BY <1>3, <2>1, <2>2, <2>3, <2>5, TrapIs DEF Shared, RolledBack, Succeeded, StaysDown
      <3>3. QED
        BY <1>1, <1>3, <1>5, <2>1, <2>5, <3>1, <3>2 DEF Result, Sound, Cached, Settled
    <2>6. QED
      BY <2>4, <2>5 DEF Ends
  <1>6. QED
    BY <1>4, <1>5 DEF ExitRollback

\* The interface: stopped and started around a restored profile, or started
\* because a modem reset had stopped it.
LEMMA ExitIfaceEnds ==
    ASSUME TypeOK, NEW p \in Proc, ExitKeep(p) \/ ExitDown(p) \/ ExitUp(p)
    PROVE  Ends(p)
  <1> USE DEF section, files, world, holders
  <1> DEFINE r == loc[p]
             s == loc'[p]
             l == pc'[p]
             b == iface' = "up"
             t == [r EXCEPT !.unstopped = b]
  <1>1. /\ r \in Locals /\ pc[p] \in {"xRestore", "xDown", "xUp"}
        /\ UNCHANGED <<cfg, active, cache, sim, power, hist>>
    BY DEF TypeOK, ExitKeep, ExitDown, ExitUp
  <1>2. Same({"unstopped"}, r, t) /\ t.unstopped = b
    BY <1>1 DEF Locals, Same, Names
  <1>3. \/ /\ pc[p] = "xRestore" /\ ~r.rollback /\ l = "xLock" /\ s = r
           /\ iface' = iface \/ r.restoreIf
        \/ /\ pc[p] = "xDown" /\ r.leaveDown /\ l = "xLock" /\ s = t
           /\ iface' \in {iface, "down"}
        \/ pc[p] = "xDown" /\ ~r.leaveDown /\ l = "xUp" /\ s = r
        \/ pc[p] = "xUp" /\ l = "xLock" /\ s = r
    <2>1. CASE ExitKeep(p)
      BY <2>1, Moved DEF ExitKeep, Go
    <2>2. CASE ExitUp(p)
      BY <2>2, Moved DEF ExitUp, Go
    <2>3. CASE ExitDown(p)
      <3>1. CASE r.leaveDown
        BY <2>3, <3>1, Moved DEF ExitDown, StopInterface
      <3>2. CASE ~r.leaveDown
        BY <2>3, <3>2, Moved DEF ExitDown, Go
      <3>3. QED
        BY <2>3, <3>1, <3>2 DEF ExitDown
    <2>4. QED
      BY <2>1, <2>2, <2>3
  <1>4. iface \in {"up", "down"}
    BY DEF TypeOK, StoreOK
  <1>5. pc[p] = "xDown" /\ l = "xLock" /\ ~s.unstopped => iface' = "down"
    BY <1>2, <1>3, <1>4
  <1> HIDE DEF t, b
  <1>6. Same({"unstopped"}, r, s)
    BY <1>2, <1>3 DEF Same
  <1>7. /\ s.cmd = r.cmd /\ s.iccid = r.iccid /\ s.cur = r.cur /\ s.old = r.old
        /\ s.rollback = r.rollback /\ s.leaveDown = r.leaveDown
        /\ s.restoreIf = r.restoreIf /\ s.powerOff = r.powerOff /\ s.status = r.status
        /\ s.resetting = r.resetting /\ s.locked = r.locked /\ s.unwritten = r.unwritten
        /\ s.unrecorded = r.unrecorded
    BY <1>6 DEF Same, Names
  <1>8. ASSUME PowerArmed PROVE Powered(p)
    <2>1. ~r.powerOff
      BY <1>1, <1>8 DEF PowerArmed
    <2>2. QED
      BY <1>1, <1>7, <2>1 DEF Powered
  <1>9. ASSUME Settled PROVE Result(p)
    <2>1. /\ Own(pc[p], r) /\ (r.locked => Shared(pc[p], r))
          /\ r.rollback => r.locked
      BY <1>9, Settles
    <2>2. /\ pc[p] \in {"xDown", "xUp"} => r.rollback
          /\ r.restoreIf => r.locked
      BY <2>1 DEF Own
    <2>3. r.locked \/ UNCHANGED <<cfg, active, iface>>
      BY <1>1, <1>3, <2>1, <2>2
    <2>4. l \in {"xUp", "xLock"} /\ pc[p] \in Ending /\ l \in Ending
      BY <1>3, TrapIs
    <2>5. ~r.unwritten
      BY <1>1, <2>1 DEF Own
    <2>6. Own(l, s)
      <3>1. r.restoreIf => r.locked /\ l \in Exiting
        BY <2>2, <2>4, TrapIs
      <3>2. l = "xUp" => r.rollback /\ ~r.leaveDown
        BY <1>3, <2>2
      <3>3. r.status = 2 => l # "xUp"
        BY <1>1, <2>1, <3>2 DEF Own
      <3>4. r.status = 2 => /\ r.locked /\ r.rollback => r.leaveDown
                            /\ ~r.rollback => ~r.restoreIf
        BY <1>1, <2>1 DEF Own
      <3>5. r.status = 0 => ~r.rollback /\ (r.cmd \in Applies => r.locked)
        BY <2>1, <2>4 DEF Own
      <3>6. ReadsUnderLock => (r.cmd = "apply" => r.locked) /\ r.cmd # "apply-manual"
        BY <2>1 DEF Own
      <3>7. l \notin Resets \cup Policies \cup Cycling \cup Tried \cup Chosen
        BY <2>4, TrapIs
      <3>8. r.status = 2 => r.locked
        BY <2>1 DEF Own
      <3> HIDE DEF r, s, l
      <3>9. QED
        BY <1>7, <2>4, <2>5, <3>1, <3>2, <3>3, <3>4, <3>5, <3>6, <3>7, <3>8 DEF Own
    <2>7. ASSUME r.locked PROVE Shared(pc[p], loc[p])'
      <3>1. Shared(pc[p], r)
        BY <2>1, <2>7
      <3>2. ~hist.disturbed /\ r.rollback => cfg = r.old
        BY <1>3, <3>1, TrapIs DEF Shared, RolledBack, Succeeded
      <3>3. r.status = 2 /\ l = "xLock" /\ ~s.unstopped => iface' = "down"
        <4>1. CASE pc[p] = "xRestore"
          <5>1. r.status = 2 /\ ~r.unstopped => iface = "down" /\ ~r.restoreIf
            BY <1>3, <2>1, <3>1, <4>1 DEF Shared, StaysDown, Own
          <5>2. QED
            BY <1>3, <4>1, <5>1
        <4>2. CASE pc[p] = "xDown"
          BY <1>5, <4>2
        <4>3. CASE pc[p] = "xUp"
          BY <2>1, <4>3 DEF Own
        <4>4. QED
          BY <1>1, <4>1, <4>2, <4>3
      <3>4. /\ Backend # "atdial" /\ ~hist.disturbed
            /\ r.status = 0 /\ r.cmd \in Applies /\ ~r.unrecorded
            => configured_profile_matches_active /\ active.iccid = r.iccid
        BY <2>4, <3>1 DEF Shared, RolledBack, Succeeded
      <3>5. configured_profile_matches_active' <=> configured_profile_matches_active
        BY <1>1 DEF configured_profile_matches_active
      <3>6. l = "xUp" => r.rollback
        BY <1>3, <2>2
      <3>7. /\ l \in Ending /\ l \notin Tried \cup Recorded \cup Identified \cup {"saveCache"}
            /\ l \notin {"mrAfter", "xPower", "xRestore", "xDown"}
        BY <2>4, TrapIs
      <3>8. s.status = 2 /\ ~s.unstopped => ~StaysDown(l, s) \/ iface' = "down"
        BY <1>7, <2>4, <3>3, <3>7 DEF StaysDown
      <3> HIDE DEF r, s, l
      <3>9. QED
        BY <1>1, <1>7, <2>4, <3>2, <3>4, <3>5, <3>6, <3>7, <3>8 DEF Shared, RolledBack, Succeeded, r, s, l
    <2>8. QED
      BY <1>1, <1>7, <1>9, <2>3, <2>6, <2>7 DEF Result, Sound, Cached, Settled
  <1>10. QED
    BY <1>8, <1>9 DEF Ends

\* A process that has ended, by itself or not, or that begins as a child.
LEMMA FreshEnds ==
    ASSUME TypeOK, NEW p \in Proc, NEW t,
           \/ pc'[p] = "idle" /\ t = NoLocals
           \/ pc'[p] = "readSim" /\ t = [NoLocals EXCEPT !.cmd = "reconcile", !.borrowed = TRUE],
           loc'[p] = t,
           UNCHANGED <<cfg, active, cache, iface, power, sim>>,
           hist'.verified = hist.verified, hist'.disturbed = hist.disturbed,
           loc[p].powerOff \/ hist.powerLost => hist'.powerLost
    PROVE  Ends(p)
  <1>1. /\ ~t.rollback /\ ~t.leaveDown /\ ~t.restoreIf /\ ~t.powerOff /\ ~t.locked
        /\ ~t.unwritten /\ t.status = 0 /\ t.cmd \in {"none", "reconcile"}
    <2>1. CASE t = NoLocals
      BY <2>1 DEF NoLocals
    <2>2. CASE t = [NoLocals EXCEPT !.cmd = "reconcile", !.borrowed = TRUE]
      BY <2>2 DEF NoLocals
    <2>3. QED
      BY <2>1, <2>2
  <1>2. \A l \in {"idle", "readSim"} :
            l \notin Ending \cup Resets \cup Policies \cup Cycling \cup Tried \cup Chosen
                     \cup {"xDown", "xUp"}
    BY DEF Ending, Exiting, Resets, Restored, Policies, Cycling, Tried, Chosen, Trial
  <1>3. Powered(p)
    BY <1>1 DEF Powered
  <1>4. Own(pc'[p], t)
    BY <1>1, <1>2 DEF Own
  <1>5. Settled => Result(p)
    BY <1>1, <1>4 DEF Result, Sound, Cached, Settled
  <1>6. QED
    BY <1>3, <1>5 DEF Ends

\* The lock is let go, the process is killed, or a child begins.
LEMMA EdgesEnd ==
    ASSUME TypeOK, NEW p \in Proc, ExitUnlock(p) \/ Kill(p) \/ CoordReconcile(p)
    PROVE  PowerArmed => Ends(p)
  <1> USE DEF section, files, world, holders
  <1>1. CASE ExitUnlock(p)
    <2>1. pc'[p] = "idle" /\ loc'[p] = NoLocals
      BY <1>1, Moved DEF ExitUnlock
    <2>2. PowerArmed => ~loc[p].powerOff
      BY <1>1 DEF ExitUnlock, PowerArmed
    <2>3. UNCHANGED <<cfg, active, cache, iface, power, sim, hist>>
      BY <1>1 DEF ExitUnlock
    <2>4. QED
      BY <2>1, <2>2, <2>3, FreshEnds
  <1>2. CASE Kill(p)
    <2>1. pc'[p] = "idle" /\ loc'[p] = NoLocals
      BY <1>2, Moved DEF Kill
    <2>2. /\ UNCHANGED <<cfg, active, cache, iface, power, sim>>
          /\ hist' = [hist EXCEPT !.powerLost = @ \/ loc[p].powerOff]
      BY <1>2 DEF Kill
    <2>3. /\ hist'.powerLost = (hist.powerLost \/ loc[p].powerOff)
          /\ hist'.verified = hist.verified /\ hist'.disturbed = hist.disturbed
      BY <2>2 DEF TypeOK, StoreOK
    <2>4. QED
      BY <2>1, <2>2, <2>3, FreshEnds
  <1>3. CASE CoordReconcile(p)
    <2> DEFINE t == [NoLocals EXCEPT !.cmd = "reconcile", !.borrowed = TRUE]
    <2>1. pc'[p] = "readSim" /\ loc'[p] = t /\ pc[p] = "idle"
      BY <1>3, Moved DEF CoordReconcile
    <2>2. PowerArmed => ~loc[p].powerOff
      BY <2>1 DEF PowerArmed
    <2>3. UNCHANGED <<cfg, active, cache, iface, power, sim, hist>>
      BY <1>3 DEF CoordReconcile
    <2>4. QED
      BY <2>1, <2>2, <2>3, FreshEnds
  <1>4. QED
    BY <1>1, <1>2, <1>3

\* TERM.
LEMMA TermEnds ==
    ASSUME TypeOK, NEW p \in Proc, Term(p)
    PROVE  Ends(p)
  <1> USE DEF section, files, world, holders
  <1> DEFINE t == [loc[p] EXCEPT !.status = 143]
  <1>1. Still /\ UNCHANGED iface /\ Exit(p, 143)
    BY DEF Term, Still
  <1>2. pc[p] \notin Exiting \cup {"idle"}
    BY DEF Term, Running, Exiting
  <1>3. pc'[p] = "xPower" /\ loc'[p] = t /\ loc[p] \in Locals
    BY <1>1, Moved DEF Exit
  <1>4. Same({"status"}, loc[p], t) /\ t.status = 143
    BY <1>3 DEF Locals, Same, Names
  <1> HIDE DEF t
  <1>5. Fails(p)
    BY <1>1, <1>2, <1>3, <1>4 DEF Fails
  <1>6. QED
    BY <1>5, FailsEnd
-----------------------------------------------------------------------------
(* Every step *)

\* What a process does,
Acts(p) == Start(p) \/ Step(p) \/ Term(p) \/ Kill(p) \/ CoordReconcile(p)

LEMMA ActsEnd ==
    ASSUME TypeOK, PowerArmed, NEW p \in Proc, Acts(p)
    PROVE  Ends(p)
  <1>1. CASE Start(p) \/ Term(p)
    BY <1>1, StartEnds, TermEnds
  <1>2. CASE Kill(p) \/ CoordReconcile(p) \/ ExitUnlock(p)
    BY <1>2, EdgesEnd
  <1>3. CASE \/ PreflightPending(p) \/ PreflightPassed(p) \/ NextCandidate(p) \/ AttemptsOver(p)
             \/ IfDown(p) \/ IfUp(p) \/ BearerReady(p) \/ BearerLate(p) \/ SaveCache(p)
             \/ RecordSuccess(p) \/ ResetDown(p) \/ ResetCache(p) \/ ResetActive(p) \/ PolicyObserve(p)
    BY <1>3, WalkSteps, WalksEnd
  <1>4. CASE \/ ReadSim(p) \/ AcquireLock(p) \/ PreflightRefused(p) \/ AlreadyReconciled(p)
             \/ NotReconciled(p) \/ Capture(p) \/ Exhausted(p) \/ Attempt(p)
    BY <1>4, ReadSimEnds, LockEnds, RefusedEnds, ReconciledEnds, ReapplyEnds, CaptureEnds,
       ExhaustedEnds, AttemptEnds
  <1>5. CASE Recheck(p) \/ Probe(p) \/ SaveActive(p) \/ Disarm(p) \/ PolicyEnforce(p)
             \/ PolicyWaited(p) \/ ReadPolicy(p) \/ AwaitTurn(p)
    BY <1>5, RecheckEnds, ProbeEnds, SaveActiveEnds, DisarmEnds, EnforceEnds, PolicyWaitedEnds,
       PolicyReadEnds, TurnEnds
  <1>6. CASE \/ ResetRestore(p) \/ ResetNothing(p) \/ ResetUp(p) \/ ResetDrop(p)
             \/ PolicyWrite(p)
    BY <1>6, ResetSteps
  <1>7. CASE \/ ModemDown(p) \/ ModemOff(p) \/ ModemOn(p) \/ ModemReturned(p)
             \/ ModemReady(p) \/ ModemLate(p)
             \/ ModemReconciled(p)
    BY <1>7, ModemDownEnds, ModemOffEnds, ModemOnEnds, ModemReturnedEnds, ModemReconciledEnds
  <1>8. CASE ExitPower(p) \/ ExitRollback(p) \/ ExitKeep(p) \/ ExitDown(p) \/ ExitUp(p)
    BY <1>8, ExitPowerEnds, ExitRollbackEnds, ExitIfaceEnds
  <1>9. QED
    BY <1>1, <1>2, <1>3, <1>4, <1>5, <1>6, <1>7, <1>8 DEF Acts, Step

\* leaves the others where they are.
LEMMA ActsAlone ==
    ASSUME TypeOK, NEW p \in Proc, Acts(p)
    PROVE  \A q \in Proc \ {p} : pc'[q] = pc[q] /\ loc'[q] = loc[q]
  <1>1. CASE Start(p) \/ Step(p) \/ Term(p) \/ Kill(p)
    <2>1. Quiet(p) \/ Loud(p)
      BY <1>1, QuietSteps, LoudSteps DEF Step
    <2>2. PICK l, r : Moves(p, l, r)
      BY <2>1 DEF Quiet, Loud
    <2>3. QED
      BY <2>2, Moved DEF Moves
  <1>2. CASE CoordReconcile(p)
    BY <1>2, Moved DEF CoordReconcile
  <1>3. QED
    BY <1>1, <1>2 DEF Acts

\* A modem without power stays some process's to switch on.
LEMMA PowerStep ==
    ASSUME TypeOK, PowerArmed, PowerOffIsOwned, [Next]_vars
    PROVE  PowerArmed' /\ PowerOffIsOwned'
  <1>1. ASSUME NEW p \in Proc, Acts(p) PROVE PowerArmed' /\ PowerOffIsOwned'
    <2>1. Powered(p) /\ \A q \in Proc \ {p} : pc'[q] = pc[q] /\ loc'[q] = loc[q]
      BY <1>1, ActsEnd, ActsAlone DEF Ends
    <2>2. PowerArmed'
      BY <2>1 DEF PowerArmed, Powered
    <2>3. PowerOffIsOwned'
      BY <2>1 DEF PowerOffIsOwned, Powered
    <2>4. QED
      BY <2>2, <2>3
  <1>2. CASE Around
    <2>1. UNCHANGED <<pc, loc, power>> /\ hist'.powerLost = hist.powerLost
      BY <1>2 DEF Around, CoordAcquire, CoordSwitch, CoordReap, CoordRelease, CoordKill,
                  RegistrationChanges, UserEdit, world, TypeOK, StoreOK
    <2>2. QED
      BY <2>1 DEF PowerArmed, PowerOffIsOwned
  <1>3. CASE UNCHANGED vars
    BY <1>3 DEF vars, world, PowerArmed, PowerOffIsOwned
  <1>4. QED
    BY <1>1, <1>2, <1>3 DEF Next, Coordinate, Around, Acts

\* What is settled stays so: while one process works under the lock, nothing
\* the others rely on is theirs;
LEMMA ActsSettle ==
    ASSUME TypeOK, PowerArmed, Settled, NEW p \in Proc, Acts(p)
    PROVE  Cached' /\ \A q \in Proc : Sound(pc[q], loc[q])'
  <1>1. Result(p) /\ \A q \in Proc \ {p} : pc'[q] = pc[q] /\ loc'[q] = loc[q]
    BY ActsEnd, ActsAlone DEF Ends
  <1>2. ASSUME NEW q \in Proc \ {p}
        PROVE  Sound(pc[q], loc[q])'
    <2>1. Own(pc[q], loc[q]) /\ (loc[q].locked => Shared(pc[q], loc[q]))
      BY Settles
    <2>2. Own(pc[q], loc[q])'
      BY <1>1, <2>1 DEF Own
    <2>3. ASSUME loc[q].locked PROVE Shared(pc[q], loc[q])'
      <3>1. ~loc[p].locked
        BY <2>3, SafeAlone DEF Settled, Safe
      <3>2. UNCHANGED <<cfg, active, iface, sim>> /\ hist.verified \subseteq hist'.verified
            /\ hist'.disturbed = hist.disturbed
        BY <1>1, <3>1 DEF Result
      <3>3. pc'[q] = pc[q] /\ loc'[q] = loc[q] /\ Shared(pc[q], loc[q])
        BY <1>1, <2>1, <2>3
      <3>4. QED
        BY <3>2, <3>3 DEF Shared, configured_profile_matches_active
    <2>4. QED
      BY <1>1, <2>2, <2>3 DEF Sound
  <1>3. QED
    BY <1>1, <1>2 DEF Result

\* the SIM changes from outside only while no process holds the lock, and an
\* edit of the section under a lock is remembered.
LEMMA AroundSettles ==
    ASSUME TypeOK, Settled, Around
    PROVE  Cached' /\ \A q \in Proc : Sound(pc[q], loc[q])'
  <1>1. /\ UNCHANGED <<pc, loc, cache, active, iface>> /\ hist'.verified = hist.verified
        /\ hist.disturbed => hist'.disturbed
    BY DEF Around, CoordAcquire, CoordSwitch, CoordReap, CoordRelease, CoordKill,
           RegistrationChanges, UserEdit, files, world, TypeOK, StoreOK
  <1>2. Cached'
    BY <1>1 DEF Settled, Cached
  <1>3. ASSUME NEW q \in Proc PROVE Own(pc[q], loc[q])'
    BY <1>1, <1>3, Settles DEF Own
  <1>4. CASE UNCHANGED <<cfg, sim>>
    <2>1. ASSUME NEW q \in Proc, loc[q].locked PROVE Shared(pc[q], loc[q])'
      <3>1. Shared(pc[q], loc[q])
        BY <2>1, Settles
      <3>2. QED
        BY <1>1, <1>4, <3>1 DEF Shared, RolledBack, Succeeded, configured_profile_matches_active
    <2>2. QED
      BY <1>1, <1>2, <1>3, <2>1 DEF Sound
  <1>5. CASE CoordSwitch
    <2>1. HolderInv /\ lock = Coordinator /\ child = NoOwner
      BY <1>5 DEF CoordSwitch, Settled, Safe, HolderInv, TypeOK, StoreOK
    <2>2. \A q \in Proc : ~loc[q].locked
      BY <2>1, EngineAssumption DEF HolderInv
    <2>3. QED
      BY <1>1, <1>2, <1>3, <2>2 DEF Sound
  <1>6. CASE UserEdit
    <2>1. UNCHANGED sim
      BY <1>6 DEF UserEdit, world
    <2>2. UNCHANGED cfg \/ hist'.disturbed \/ \A q \in Proc : ~loc[q].locked
      BY <1>6 DEF UserEdit, TypeOK, StoreOK
    <2>3. ASSUME NEW q \in Proc, loc[q].locked PROVE Shared(pc[q], loc[q])'
      <3>1. Shared(pc[q], loc[q]) /\ (UNCHANGED cfg \/ hist'.disturbed)
        BY <2>2, <2>3, Settles
      <3>2. QED
        BY <1>1, <2>1, <3>1 DEF Shared, RolledBack, Succeeded, configured_profile_matches_active
    <2>4. QED
      BY <1>1, <1>2, <1>3, <2>3 DEF Sound
  <1>7. QED
    BY <1>4, <1>5, <1>6 DEF Around, CoordAcquire, CoordReap, CoordRelease, CoordKill,
                            RegistrationChanges, section, world

\* The invariant holds at first,
LEMMA OutcomeInit == Init => OutcomeInv
  <1> SUFFICES ASSUME Init PROVE OutcomeInv
    OBVIOUS
  <1>1. \A p \in Proc : pc[p] = "idle" /\ loc[p] = NoLocals
    BY DEF Init
  <1>2. /\ ~NoLocals.rollback /\ ~NoLocals.leaveDown /\ ~NoLocals.restoreIf
        /\ ~NoLocals.powerOff /\ ~NoLocals.locked
        /\ ~NoLocals.unwritten /\ NoLocals.status = 0 /\ NoLocals.cmd = "none"
    BY DEF NoLocals
  <1>3. "idle" \notin Ending \cup Resets \cup Policies \cup Cycling \cup Tried \cup Chosen
    BY DEF Ending, Exiting, Resets, Restored, Policies, Cycling, Tried, Chosen, Trial
  <1>4. \A p \in Proc : Sound(pc[p], loc[p])
    <2>1. Own("idle", NoLocals)
      BY <1>2, <1>3 DEF Own
    <2>2. QED
      BY <1>1, <1>2, <2>1 DEF Sound
  <1>5. PowerArmed /\ PowerOffIsOwned /\ Cached
    BY <1>1, <1>2 DEF Init, PowerArmed, PowerOffIsOwned, Cached
  <1>6. QED
    BY <1>4, <1>5, EngineInit DEF OutcomeInv

\* and every step keeps it.
LEMMA OutcomeStep == OutcomeInv /\ [Next]_vars => OutcomeInv'
  <1> SUFFICES ASSUME OutcomeInv, [Next]_vars PROVE OutcomeInv'
    OBVIOUS
  <1>1. EngineInv /\ EngineInv' /\ TypeOK /\ PowerArmed /\ PowerOffIsOwned
    BY EngineStep DEF OutcomeInv, EngineInv
  <1>2. PowerArmed' /\ PowerOffIsOwned'
    BY <1>1, PowerStep
  <1>3. CASE UNCHANGED vars
    <2>1. UNCHANGED <<pc, loc, cfg, active, cache, iface, sim, hist>>
      BY <1>3 DEF vars, files, world
    <2>2. Cached' <=> Cached
      BY <2>1 DEF Cached
    <2>3. ASSUME NEW p \in Proc PROVE Sound(pc[p], loc[p])' <=> Sound(pc[p], loc[p])
      BY <2>1 DEF Sound, Own, Shared, configured_profile_matches_active
    <2>4. QED
      BY <1>1, <1>2, <2>1, <2>2, <2>3 DEF OutcomeInv
  <1>4. CASE Next /\ hist.orphaned
    BY <1>1, <1>2, <1>4, OrphanedStays DEF OutcomeInv
  <1>5. CASE Next /\ ~hist.orphaned
    <2>1. Settled
      BY <1>5 DEF OutcomeInv, EngineInv, Settled, Safe, Recoverable
    <2>2. Around \/ \E p \in Proc : Acts(p)
      BY <1>5 DEF Next, Coordinate, Around, Acts
    <2>3. Cached' /\ \A q \in Proc : Sound(pc[q], loc[q])'
      BY <1>1, <2>1, <2>2, ActsSettle, AroundSettles
    <2>4. QED
      BY <1>1, <1>2, <2>3 DEF OutcomeInv
  <1>6. QED
    BY <1>3, <1>4, <1>5
-----------------------------------------------------------------------------
(* Theorems *)

\* What an operation leaves behind holds always.
THEOREM OutcomeInvariant == Spec => []OutcomeInv
  <1>1. QED
    BY OutcomeInit, OutcomeStep, PTL DEF Spec

\* What is known of a process that ends under the lock.
LEMMA Outcomes ==
    ASSUME OutcomeInv, ~hist.orphaned, NEW p \in Proc, pc[p] = "xLock"
    PROVE  /\ Own("xLock", loc[p]) /\ "xLock" \in Ending
           /\ loc[p].rollback => loc[p].locked
           /\ loc[p].locked => Shared("xLock", loc[p])
  BY TrapIs DEF OutcomeInv, EngineInv, TrialInv, Sound

\* on_exit and restore_owned_profile: a trial that fails, is interrupted by
\* TERM or ends in a roaming block leaves exactly the profile it found, if the
\* configuration can be written and nobody else edited the section meanwhile.
THEOREM FailuresAreUndone == Spec => []FailureRestoresProfile
  <1>1. OutcomeInv => FailureRestoresProfile
    BY Outcomes DEF Shared, RolledBack, Succeeded, FailureRestoresProfile
  <1>2. QED
    BY <1>1, OutcomeInvariant, PTL

\* registration_preflight, finish_roaming_block and on_exit: an operation that
\* reports a roaming block after a stop that was asked for and obeyed leaves the
\* interface stopped, the one that was in the middle of a modem reset included:
\* no way out starts it again.  That the stop was asked for and obeyed is not
\* promised by the code: the preflight asks only when it sees the interface up,
\* and no caller looks at what ifdown returned.
THEOREM BlocksHold == Spec => []RoamingBlockHolds
  <1>1. OutcomeInv => RoamingBlockHolds
    <2> SUFFICES ASSUME OutcomeInv, NEW p \in Proc, pc[p] = "xLock", loc[p].status = 2,
                        ~loc[p].unwritten, ~loc[p].unstopped, ~hist.orphaned
                 PROVE  iface = "down"
      BY DEF RoamingBlockHolds
    <2>1. loc[p].locked /\ Shared("xLock", loc[p])
      BY Outcomes DEF Own
    <2>2. QED
      BY <2>1 DEF Shared, StaysDown
  <1>2. QED
    BY <1>1, OutcomeInvariant, PTL

\* modem_reset_inline_cmd arms MODEM_POWER_OFF_ARMED before it switches the
\* supply off and on_exit undoes it: a modem without power is always some
\* running process's to switch on, SIGKILL and a failed last write apart.
THEOREM PowerIsOwned == Spec => []PowerOffIsOwned
  <1>1. OutcomeInv => PowerOffIsOwned
    BY DEF OutcomeInv
  <1>2. QED
    BY <1>1, OutcomeInvariant, PTL

\* save_active_state records the profile in the words the section uses, and
\* every way to a successful apply or reconcile passes through it or through
\* the comparison that reconcile_cmd makes; atdial alone translates the family
\* on one side only.  A record that could not be written, which the engine only
\* warns of, and an edit of the section under the operation are excepted.
THEOREM SuccessIsRecorded ==
    ASSUME Backend # "atdial"
    PROVE  Spec => []ReconcileIsIdempotent
  <1>1. OutcomeInv => ReconcileIsIdempotent
    <2> SUFFICES ASSUME OutcomeInv, NEW p \in Proc, pc[p] = "xLock", loc[p].status = 0,
                        ~loc[p].unrecorded, ~hist.orphaned, ~hist.disturbed,
                        loc[p].cmd \in Applies
                 PROVE  configured_profile_matches_active /\ active.iccid = loc[p].iccid
      BY DEF ReconcileIsIdempotent, Applies
    <2>1. loc[p].locked /\ Shared("xLock", loc[p])
      BY Outcomes DEF Own
    <2>2. QED
      BY <2>1, Outcomes DEF Shared, RolledBack, Succeeded
  <1>2. QED
    BY <1>1, OutcomeInvariant, PTL

\* Where every identity is read under the lock, as reconcile_cmd and
\* modem_reset_inline_cmd do, a profile is filed under the SIM it was verified
\* over, even while eSIM operations switch the profile between two engines.
THEOREM CacheIsFiledBySim ==
    ASSUME ReadsUnderLock
    PROVE  Spec => []CacheBelongsToSim
  <1>1. OutcomeInv => CacheBelongsToSim
    BY DEF OutcomeInv, Cached, CacheBelongsToSim
  <1>2. QED
    BY <1>1, OutcomeInvariant, PTL
=============================================================================
