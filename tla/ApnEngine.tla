----------------------------- MODULE ApnEngine ------------------------------
(***************************************************************************)
(* The operations of the `apn-autoconfig' engine that change something:    *)
(* apply, apply-manual, reconcile, reset, roaming-policy-set and the       *)
(* inline modem-reset, on one target.  Each engine process is a sequence   *)
(* of steps with the file-system, UCI and netifd effects of the script; it *)
(* may be told to stop (TERM: on_exit runs) or be killed (nothing runs)    *)
(* between any two of them.  The operation lock is taken as exclusive      *)
(* (module LockFile says how far that is so) and may be lent by a modem or *)
(* eSIM operation, the Coordinator, to an engine it runs as its child.     *)
(***************************************************************************)
EXTENDS Naturals, Sequences

CONSTANTS
    Proc,        \* engine processes
    Coordinator, \* the modem or eSIM operation that may hold the lock
    NoOwner,     \* the lock file is absent
    DeadOwner,   \* the lock file names a process that was killed
    Sim,         \* SIM identities (ICCIDs)
    NoSim,       \* no ICCID read or recorded
    Backend,     \* "modemmanager", "qmi", "mbim" or "atdial"
    Ipv6Off,     \* the section carries ipv6=0 (mbim)
    Apn,         \* access point names, with their credentials
    WithUser,    \* the names whose profile carries a username
    Database,    \* [Sim -> Seq(Profile)]: find_candidates
    Manual,      \* profiles a user may supply to apply-manual
    NoProfile,   \* an absent profile record
    Commands,    \* the commands processes are started with
    MaxStarts,   \* bound on commands started
    MaxKills,    \* bound on engine processes killed
    MaxTerms,    \* bound on TERM signals
    MaxSignal,   \* bound on changes of the registration state
    MaxSwitch,   \* bound on SIM changes
    MaxEdits,    \* bound on edits of the section by the user
    RegistrationWait, \* registration_wait_seconds, in turns of the loop
    InterfaceWait,    \* wait_seconds
    ModemWait,        \* modem_wait_seconds
    UciMayFail,  \* may the configuration fail to be written?
    CoordMayDie  \* may the Coordinator be killed?

Auth == {"-", "none", "pap", "chap", "pap-or-chap"}
IpType == {"-", "ipv4", "ipv6", "ipv4v6"}
Profile == [apn : Apn, auth : Auth, ip : IpType]

\* The five options as the section holds them, in each handler's vocabulary.
Config == [apn : Apn,
           auth : Auth \cup {"pap chap", "both"},
           ip : IpType \cup {"ip", "IP", "IPV6", "IPV4V6"}]

Registration == {"unknown", "searching", "home", "roaming", "denied"}

ASSUME EngineAssumption ==
    /\ {Coordinator, NoOwner, DeadOwner} \cap Proc = {}
    /\ Coordinator \notin {NoOwner, DeadOwner} /\ NoOwner # DeadOwner
    /\ NoSim \notin Sim
    /\ NoProfile \notin Config /\ NoProfile \notin Profile
    /\ NoProfile \notin [iccid : Sim, profile : Config]
    /\ Database \in [Sim -> Seq(Profile)]
    /\ Manual \subseteq Profile
    /\ Commands \subseteq {"apply", "apply-manual", "reconcile", "reset",
                          "roaming-policy-set", "modem-reset"}
    /\ Backend \in {"modemmanager", "qmi", "mbim", "atdial"}
    /\ {MaxStarts, MaxKills, MaxTerms, MaxSignal, MaxSwitch, MaxEdits} \subseteq Nat
    /\ {RegistrationWait, InterfaceWait} \subseteq Nat /\ ModemWait \in Nat \ {0}
    /\ {Ipv6Off, UciMayFail, CoordMayDie} \subseteq BOOLEAN

VARIABLES
    cfg,       \* the committed profile of the section
    baseline,  \* baseline.tsv
    origin,    \* history: the profile the user chose
    active,    \* active.tsv: [iccid, profile] as save_active_state encodes it
    cache,     \* <ICCID>.tsv files
    result,    \* last-result-code
    policy,    \* allow_roaming: "default", "allow" or "block"
    iface,     \* administrative state of the interface
    power,     \* the modem's supply
    sim, reg,  \* the SIM in the modem and its registration
    lock,      \* owner recorded in the operation lock
    coord,     \* the Coordinator: "idle", "holding", "waiting"
    child,     \* the engine the Coordinator waits for
    pc, loc,   \* each process's position and shell variables
    used,      \* what has been spent of each bound
    hist       \* history: verified pairs, severed protections, and whether the
               \* section was edited under an operation

files == <<baseline, active, cache, result>>
world == <<iface, power, sim, reg>>
holders == <<lock, coord, child>>
vars == <<cfg, origin, files, policy, world, holders, pc, loc, used, hist>>
section == <<cfg, origin, policy>>

\* The shell variables of a process that has just been started: the command
\* and its argument, what was read (iccid, reg, wasUp), the preflight's allowed,
\* remaining and started, the trial (old, cands, plan, cur, saw), the flags
\* on_exit goes by, and the lock's.  Three are history: the rollback was not
\* written, a roaming interface not stopped, the active record not replaced.
NoLocals == [cmd |-> "none", arg |-> NoProfile, want |-> "default",
             iccid |-> NoSim, reg |-> "unknown", wasUp |-> FALSE,
             old |-> NoProfile, cands |-> <<>>, seen |-> {}, plan |-> <<>>,
             cur |-> NoProfile,
             allowed |-> FALSE, remaining |-> 0, started |-> FALSE, saw |-> FALSE, rollback |-> FALSE,
             leaveDown |-> FALSE, restoreIf |-> FALSE, powerOff |-> FALSE,
             resetting |-> FALSE, locked |-> FALSE, borrowed |-> FALSE,
             unwritten |-> FALSE, unstopped |-> FALSE, unrecorded |-> FALSE,
             status |-> 0]

Init ==
    /\ cfg \in {[apn |-> a, auth |-> "-", ip |-> "-"] : a \in Apn}
    /\ origin = cfg
    /\ baseline = NoProfile /\ active = NoProfile
    /\ cache = [s \in Sim |-> NoProfile]
    /\ result = "none"
    /\ policy = "default"
    /\ iface = "up" /\ power = "on"
    /\ sim \in Sim /\ reg = "home"
    /\ lock = NoOwner /\ coord = "idle" /\ child = NoOwner
    /\ pc = [p \in Proc |-> "idle"]
    /\ loc = [p \in Proc |-> NoLocals]
    /\ used = [starts |-> 0, kills |-> 0, terms |-> 0, signal |-> 0, switch |-> 0, edits |-> 0]
    /\ hist = [verified |-> {}, powerLost |-> FALSE, orphaned |-> FALSE, disturbed |-> FALSE]
-----------------------------------------------------------------------------
(* Profiles, in the words of each connection manager *)

\* modemmanager_set_profile, qmi_set_profile, mbim_set_profile, atdial_set_profile.
ConfiguredAuth(a) ==
    IF a # "pap-or-chap" THEN a
    ELSE CASE Backend = "modemmanager" -> "pap chap"
           [] Backend = "qmi" -> "both"
           [] OTHER -> a

ConfiguredIp(i) ==
    CASE Backend = "qmi" /\ i = "ipv4" -> "ip"
      [] Backend = "atdial" /\ i = "ipv4" -> "IP"
      [] Backend = "atdial" /\ i = "ipv6" -> "IPV6"
      [] Backend = "atdial" /\ i = "ipv4v6" -> "IPV4V6"
      [] OTHER -> i

set_profile(f) == [apn |-> f.apn, auth |-> ConfiguredAuth(f.auth), ip |-> ConfiguredIp(f.ip)]

\* mbim_set_profile alone cannot express pap-or-chap.
Settable(f) == ~(Backend = "mbim" /\ f.auth = "pap-or-chap")

\* Mutated form: the active record keeps the engine's own word for the family.
RecordedUntranslated(f) == [apn |-> f.apn, auth |-> ConfiguredAuth(f.auth), ip |-> f.ip]

\* save_active_state translates the authentication and, for qmi, ipv4.
RecordedProfile(f) ==
    [apn |-> f.apn, auth |-> ConfiguredAuth(f.auth),
     ip |-> IF Backend = "qmi" /\ f.ip = "ipv4" THEN "ip" ELSE f.ip]

configured_profile_matches_active == active # NoProfile /\ cfg = active.profile

\* backend_attempt_plan: the families and methods one candidate is tried with.
PlanIps(f) ==
    CASE Backend = "mbim" /\ Ipv6Off /\ f.ip = "ipv6" -> <<>>
      [] Backend = "mbim" /\ Ipv6Off /\ f.ip = "ipv4v6" -> <<"ipv4">>
      [] Backend \in {"qmi", "mbim"} /\ f.ip = "ipv4v6" -> <<"ipv4v6", "ipv4">>
      [] OTHER -> <<f.ip>>

PlanAuths(f) ==
    IF Backend = "mbim" /\ f.auth = "pap-or-chap"
      THEN IF f.apn \in WithUser THEN <<"chap", "pap">> ELSE <<"none">>
      ELSE <<f.auth>>

backend_attempt_plan(f) ==
    LET ips == PlanIps(f)
        auths == PlanAuths(f)
        n == Len(auths)
    IN  [k \in 1..(Len(ips) * n) |->
           [apn |-> f.apn, ip |-> ips[((k - 1) \div n) + 1], auth |-> auths[((k - 1) % n) + 1]]]

\* build_apply_candidates: the cached profile, then the database's.
build_apply_candidates(s) ==
    IF cache[s] = NoProfile THEN Database[s] ELSE <<cache[s]>> \o Database[s]

\* read_roaming_policy: ROAMING_ALLOWED.
RoamingAllowed ==
    \/ policy = "allow" \/ Backend = "qmi"
    \/ policy = "default" /\ Backend = "modemmanager"

\* refresh_modem_status: only two backends can read registration again; the
\* read may fail, and the others keep what read_sim saw.
refresh_modem_status(p) ==
    IF Backend \in {"modemmanager", "mbim"} THEN {reg, "unknown"} ELSE {loc[p].reg}

Pending(r) == r \in {"unknown", "searching"}

\* interface_is_up: what it may answer.  An interface that was started is not up
\* before its bearer is, and the call may fail or time out.
interface_is_up == {FALSE, iface = "up"}

\* ifdown and ifup through the watchdog: either may fail, or have taken effect
\* although it is reported to have failed.
StopInterface == iface' \in {iface, "down"}
StartInterface == iface' \in {iface, "up"}
-----------------------------------------------------------------------------
(* Control flow *)

To(p, l, r) ==
    /\ pc' = [pc EXCEPT ![p] = l]
    /\ loc' = [loc EXCEPT ![p] = r]

Go(p, l) == To(p, l, loc[p])

\* exit: the on_exit trap runs next.
Exit(p, code) == To(p, "xPower", [loc[p] EXCEPT !.status = code])

\* return: modem_reset_inline_cmd resumes after the reconcile it called.
Return(p, code, r) ==
    To(p, IF r.resetting THEN "mrAfter" ELSE "xPower", [r EXCEPT !.status = code])

Running(p) == pc[p] \notin {"idle", "xPower", "xRestore", "xDown", "xUp", "xLock"}
-----------------------------------------------------------------------------
(* Mutated forms: plausible mistakes in the engine, one per property.      *)

\* ROLLBACK_ARMED without capture_old_profile.
CaptureNothing(p) ==
    /\ pc[p] = "capture"
    /\ To(p, "candidate", [loc[p] EXCEPT !.rollback = TRUE, !.cands = Database[loc[p].iccid]])
    /\ baseline' = IF baseline = NoProfile THEN cfg ELSE baseline
    /\ UNCHANGED <<section, active, cache, result, world, holders, used, hist>>

\* save_baseline replacing a baseline that exists.
CaptureAgain(p) ==
    /\ pc[p] = "capture"
    /\ To(p, "candidate", [loc[p] EXCEPT !.old = cfg, !.rollback = TRUE,
                                         !.cands = Database[loc[p].iccid]])
    /\ baseline' = cfg
    /\ UNCHANGED <<section, active, cache, result, world, holders, used, hist>>

\* A trial without save_baseline.
CaptureUnsaved(p) ==
    /\ pc[p] = "capture"
    /\ To(p, "candidate", [loc[p] EXCEPT !.old = cfg, !.rollback = TRUE,
                                         !.cands = Database[loc[p].iccid]])
    /\ UNCHANGED <<section, files, world, holders, used, hist>>

\* Rolling back to the baseline rather than to the profile found.
RollbackToBaseline(p) ==
    /\ pc[p] = "xRestore"
    /\ loc[p].rollback
    /\ cfg' = baseline
    /\ Go(p, "xDown")
    /\ UNCHANGED <<origin, policy, files, world, holders, used, hist>>

\* restore_owned_profile ignoring LEAVE_INTERFACE_DOWN.
RestartAnyway(p) ==
    /\ pc[p] = "xDown"
    /\ iface' = "down"
    /\ Go(p, "xUp")
    /\ UNCHANGED <<section, files, power, sim, reg, holders, used, hist>>

\* Power switched off without arming its restoration.
PowerOffUnarmed(p) ==
    /\ pc[p] = "mrOff"
    /\ power' = "off"
    /\ Go(p, "mrOn")
    /\ UNCHANGED <<section, files, iface, sim, reg, holders, used, hist>>

\* reconcile_cmd applying with the identity it read before the lock.
ApplyWithOldIdentity(p) ==
    /\ pc[p] = "check"
    /\ To(p, "policy", [loc[p] EXCEPT !.cmd = "apply"])
    /\ UNCHANGED <<section, files, world, holders, used, hist>>

\* A wait that does not count its turns.
AwaitUncounted(p) ==
    /\ pc[p] \in {"turn", "bearer", "address", "rpWait", "mrWait", "mrUp", "mrData"}
    /\ loc[p].remaining > 0
    /\ Go(p, IF pc[p] = "turn" THEN "preflight" ELSE pc[p])
    /\ UNCHANGED <<section, files, world, holders, used, hist>>
-----------------------------------------------------------------------------
(* main: the commands, up to the operation lock *)

FirstStep(c) == IF c \in {"apply", "apply-manual", "reconcile"} THEN "readSim" ELSE "lock"

Start(p) ==
    /\ pc[p] = "idle" /\ p # child
    /\ used.starts < MaxStarts
    /\ used' = [used EXCEPT !.starts = @ + 1]
    /\ \E c \in Commands, f \in Manual, w \in {"default", "allow", "block"} :
         /\ c = "roaming-policy-set" => Backend # "qmi"
         /\ To(p, FirstStep(c),
               [NoLocals EXCEPT !.cmd = c,
                                !.arg = IF c = "apply-manual" THEN f ELSE NoProfile,
                                !.want = IF c = "roaming-policy-set" THEN w ELSE "default"])
    /\ UNCHANGED <<section, files, world, holders, hist>>

\* read_sim, before the lock is taken: identity and, with it, registration.
ReadSim(p) ==
    /\ pc[p] = "readSim"
    /\ \/ To(p, "lock", [loc[p] EXCEPT !.iccid = sim, !.reg = reg])
       \/ Exit(p, 3)
    /\ UNCHANGED <<section, files, world, holders, used, hist>>

AfterLock(c) ==
    CASE c = "reset" -> "rsRestore"
      [] c = "roaming-policy-set" -> "rpSet"
      [] c = "modem-reset" -> "mrDown"
      [] OTHER -> "policy"

\* Mutated form: the lock is taken even when its owner is alive.
StealLock(p) ==
    /\ pc[p] = "lock"
    /\ To(p, AfterLock(loc[p].cmd), [loc[p] EXCEPT !.locked = TRUE])
    /\ lock' = IF loc[p].locked \/ loc[p].borrowed THEN lock ELSE p
    /\ UNCHANGED <<section, files, world, coord, child, used, hist>>

\* acquire_lock: kept when already held, borrowed from a live Coordinator that
\* is the recorded owner, or taken when free or left by a dead owner.
AcquireLock(p) ==
    LET l == loc[p]
        free == lock \in {NoOwner, DeadOwner}
        granted == l.locked \/ (IF l.borrowed THEN lock = Coordinator ELSE free)
    IN  /\ pc[p] = "lock"
        /\ IF granted THEN To(p, AfterLock(l.cmd), [l EXCEPT !.locked = TRUE])
                      ELSE Exit(p, 3)
        /\ lock' = IF granted /\ ~l.locked /\ ~l.borrowed THEN p ELSE lock
        /\ UNCHANGED <<section, files, world, coord, child, used, hist>>
-----------------------------------------------------------------------------
(* The bounded waits of every command *)

Waiting == {"turn", "bearer", "address", "rpWait", "mrWait", "mrUp", "mrData"}

\* sleep 1; remaining=$((remaining - 1)).
AwaitTurn(p) ==
    /\ pc[p] \in Waiting
    /\ loc[p].remaining > 0
    /\ To(p, IF pc[p] = "turn" THEN "preflight" ELSE pc[p],
          [loc[p] EXCEPT !.remaining = @ - 1])
    /\ UNCHANGED <<section, files, world, holders, used, hist>>
-----------------------------------------------------------------------------
(* registration_preflight *)

\* read_roaming_policy: once, for the preflight and the trial that follows.
ReadPolicy(p) ==
    /\ pc[p] = "policy"
    /\ IF policy = "invalid"
         THEN result' = "invalid-roaming-policy" /\ Return(p, 1, loc[p])
         ELSE /\ To(p, "preflight", [loc[p] EXCEPT !.allowed = RoamingAllowed,
                                                   !.remaining = RegistrationWait])
              /\ UNCHANGED result
    /\ UNCHANGED <<section, baseline, active, cache, world, holders, used, hist>>

\* A pending registration is waited for; an interface that is not reported up
\* is started, once.
PreflightPending(p) ==
    /\ pc[p] = "preflight"
    /\ \E r \in refresh_modem_status(p), up \in interface_is_up :
         LET start == ~loc[p].started /\ ~up
         IN  /\ Pending(r)
             /\ IF start THEN StartInterface ELSE UNCHANGED iface
             /\ To(p, "turn", [loc[p] EXCEPT !.reg = r, !.started = @ \/ start])
    /\ UNCHANGED <<section, files, power, sim, reg, holders, used, hist>>

\* The wait is over, registration is denied, or it is roaming that the policy
\* forbids: then the interface is stopped, if it is reported up.
PreflightRefused(p) ==
    /\ \/ /\ pc[p] = "turn" /\ loc[p].remaining = 0
          /\ result' = "registration-pending"
          /\ UNCHANGED iface
          /\ Return(p, 3, loc[p])
       \/ /\ pc[p] = "preflight" /\ "denied" \in refresh_modem_status(p)
          /\ result' = "registration-denied"
          /\ UNCHANGED iface
          /\ Return(p, 1, [loc[p] EXCEPT !.reg = "denied"])
       \/ /\ pc[p] = "preflight" /\ "roaming" \in refresh_modem_status(p)
          /\ ~loc[p].allowed
          /\ result' = "blocked-roaming-policy"
          /\ \E up \in interface_is_up : IF up THEN StopInterface ELSE UNCHANGED iface
          /\ Return(p, 2, [loc[p] EXCEPT !.reg = "roaming", !.unstopped = iface' = "up"])
    /\ UNCHANGED <<section, baseline, active, cache, power, sim, reg, holders, used, hist>>

PreflightPassed(p) ==
    /\ pc[p] = "preflight"
    /\ \E r \in refresh_modem_status(p) :
         /\ r = "home" \/ (r = "roaming" /\ loc[p].allowed)
         /\ To(p, IF loc[p].cmd = "reconcile" THEN "check" ELSE "capture",
               [loc[p] EXCEPT !.reg = r, !.started = FALSE, !.remaining = 0])
    /\ UNCHANGED <<section, files, world, holders, used, hist>>
-----------------------------------------------------------------------------
(* reconcile_cmd *)

\* The SIM and profile are those of the last success and still connect.
AlreadyReconciled(p) ==
    /\ pc[p] = "check"
    /\ configured_profile_matches_active
    /\ active.iccid = loc[p].iccid
    /\ TRUE \in interface_is_up
    /\ result' = "success"
    /\ Return(p, 0, loc[p])
    /\ UNCHANGED <<section, baseline, active, cache, world, holders, used, hist>>

\* Something differs, or connectivity is gone: apply_cmd, from read_sim on.
NotReconciled(p) ==
    /\ pc[p] = "check"
    /\ To(p, "readSim", [loc[p] EXCEPT !.cmd = "apply"])
    /\ UNCHANGED <<section, files, world, holders, used, hist>>
-----------------------------------------------------------------------------
(* apply_candidate_list *)

Candidates(p) ==
    IF loc[p].cmd = "apply-manual" THEN <<loc[p].arg>> ELSE build_apply_candidates(loc[p].iccid)

\* capture_old_profile and save_baseline, which may die; from here on_exit rolls
\* back.
Capture(p) ==
    /\ pc[p] = "capture"
    /\ \/ Exit(p, 1) /\ UNCHANGED baseline
       \/ /\ Candidates(p) # <<>>
          /\ To(p, "candidate", [loc[p] EXCEPT !.old = cfg, !.rollback = TRUE,
                                               !.cands = Candidates(p)])
          /\ baseline' = IF baseline = NoProfile THEN cfg ELSE baseline
    /\ UNCHANGED <<section, active, cache, result, world, holders, used, hist>>

\* The next line of the list; add_candidate keeps one profile from being
\* listed twice, and a family the interface cannot carry is skipped.
NextCandidate(p) ==
    /\ pc[p] = "candidate"
    /\ loc[p].cands # <<>>
    /\ LET f == Head(loc[p].cands)
           plan == IF f \in loc[p].seen THEN <<>> ELSE backend_attempt_plan(f)
       IN  To(p, IF plan = <<>> THEN "candidate" ELSE "attempt",
              [loc[p] EXCEPT !.cands = Tail(@), !.seen = @ \cup {f}, !.plan = plan])
    /\ UNCHANGED <<section, files, world, holders, used, hist>>

Exhausted(p) ==
    /\ pc[p] = "candidate"
    /\ loc[p].cands = <<>>
    /\ result' = IF loc[p].saw THEN "connectivity-failed" ELSE "bearer-rejected"
    /\ Exit(p, 1)
    /\ UNCHANGED <<section, baseline, active, cache, world, holders, used, hist>>

\* set_profile: the trial profile is committed.
Attempt(p) ==
    /\ pc[p] = "attempt"
    /\ loc[p].plan # <<>>
    /\ LET f == Head(loc[p].plan)
       IN  /\ Settable(f)
           /\ cfg' = set_profile(f)
           /\ To(p, "ifdown", [loc[p] EXCEPT !.plan = Tail(@), !.cur = f])
    /\ UNCHANGED <<origin, policy, files, world, holders, used, hist>>

\* No attempt left, or the profile could not be written.
AttemptsOver(p) ==
    /\ pc[p] = "attempt"
    /\ loc[p].plan # <<>> => UciMayFail \/ ~Settable(Head(loc[p].plan))
    /\ To(p, "noBearer", [loc[p] EXCEPT !.plan = <<>>])
    /\ UNCHANGED <<section, files, world, holders, used, hist>>

\* restart_interface: ifdown, then ifup, and only the second failure counts.
IfDown(p) ==
    /\ pc[p] = "ifdown"
    /\ StopInterface
    /\ Go(p, "ifup")
    /\ UNCHANGED <<section, files, power, sim, reg, holders, used, hist>>

IfUp(p) ==
    /\ pc[p] = "ifup"
    /\ StartInterface
    /\ \/ iface' = "up" /\ To(p, "bearer", [loc[p] EXCEPT !.remaining = InterfaceWait])
       \/ Go(p, "attempt")
    /\ UNCHANGED <<section, files, power, sim, reg, holders, used, hist>>

\* wait_for_interface and, for mbim, wait_for_data_interface.
BearerReady(p) ==
    /\ pc[p] \in {"bearer", "address"}
    /\ loc[p].remaining > 0 /\ TRUE \in interface_is_up
    /\ IF pc[p] = "bearer" /\ Backend = "mbim"
         THEN To(p, "address", [loc[p] EXCEPT !.remaining = InterfaceWait])
         ELSE To(p, "bearerUp", [loc[p] EXCEPT !.remaining = 0])
    /\ UNCHANGED <<section, files, world, holders, used, hist>>

BearerLate(p) ==
    /\ pc[p] \in {"bearer", "address"}
    /\ loc[p].remaining = 0
    /\ Go(p, "attempt")
    /\ UNCHANGED <<section, files, world, holders, used, hist>>

\* Registration is read again after each candidate; roaming that the policy
\* forbids ends the operation with the interface left down.
Recheck(p) ==
    /\ pc[p] \in {"noBearer", "bearerUp"}
    /\ \E r \in refresh_modem_status(p) :
         LET up == pc[p] = "bearerUp"
             l == [loc[p] EXCEPT !.reg = r, !.saw = @ \/ up]
         IN  \/ /\ r = "roaming" /\ ~loc[p].allowed
                /\ result' = "blocked-roaming-policy"
                /\ To(p, "xPower", [l EXCEPT !.leaveDown = TRUE, !.status = 2])
             \/ /\ r = "denied" /\ ~up
                /\ result' = "data-service-unavailable"
                /\ To(p, "xPower", [l EXCEPT !.status = 1])
             \/ /\ ~(r = "roaming" /\ ~loc[p].allowed) /\ ~(r = "denied" /\ ~up)
                /\ To(p, IF up THEN "probe" ELSE "candidate", l)
                /\ UNCHANGED result
    /\ UNCHANGED <<section, baseline, active, cache, world, holders, used, hist>>

\* test_connectivity, over the SIM that is in the modem at this moment.
Probe(p) ==
    /\ pc[p] = "probe"
    /\ \/ /\ Go(p, "saveCache")
          /\ hist' = [hist EXCEPT !.verified = @ \cup {<<sim, loc[p].cur>>}]
       \/ Go(p, "candidate") /\ UNCHANGED hist
    /\ UNCHANGED <<section, files, world, holders, used>>

\* save_cache and save_active_state: a record that cannot be written is logged,
\* and the operation succeeds all the same.
SaveCache(p) ==
    /\ pc[p] = "saveCache"
    /\ cache' \in {cache, [cache EXCEPT ![loc[p].iccid] = loc[p].cur]}
    /\ Go(p, "saveActive")
    /\ UNCHANGED <<section, baseline, active, result, world, holders, used, hist>>

SaveActive(p) ==
    /\ pc[p] = "saveActive"
    /\ \/ /\ active' = [iccid |-> loc[p].iccid, profile |-> RecordedProfile(loc[p].cur)]
          /\ Go(p, "success")
       \/ UNCHANGED active /\ To(p, "success", [loc[p] EXCEPT !.unrecorded = TRUE])
    /\ UNCHANGED <<section, baseline, cache, result, world, holders, used, hist>>

RecordSuccess(p) ==
    /\ pc[p] = "success"
    /\ result' = "success"
    /\ Go(p, "disarm")
    /\ UNCHANGED <<section, baseline, active, cache, world, holders, used, hist>>

\* ROLLBACK_ARMED=0 and return 0.
Disarm(p) ==
    /\ pc[p] = "disarm"
    /\ Return(p, 0, [loc[p] EXCEPT !.rollback = FALSE])
    /\ UNCHANGED <<section, files, world, holders, used, hist>>
-----------------------------------------------------------------------------
(* reset_cmd *)

ResetRestore(p) ==
    /\ pc[p] = "rsRestore"
    /\ baseline # NoProfile
    /\ \/ cfg' = baseline /\ Go(p, "rsDown")
       \/ UciMayFail /\ Exit(p, 1) /\ UNCHANGED cfg
    /\ UNCHANGED <<origin, policy, files, world, holders, used, hist>>

\* No baseline: only the cache and the active record go.
ResetNothing(p) ==
    /\ pc[p] = "rsRestore"
    /\ baseline = NoProfile
    /\ cache' = [s \in Sim |-> NoProfile]
    /\ active' = NoProfile
    /\ Exit(p, 0)
    /\ UNCHANGED <<section, baseline, result, world, holders, used, hist>>

ResetDown(p) ==
    /\ pc[p] = "rsDown"
    /\ StopInterface
    /\ Go(p, "rsUp")
    /\ UNCHANGED <<section, files, power, sim, reg, holders, used, hist>>

\* A target that does not start keeps its baseline: reset can be run again.
ResetUp(p) ==
    /\ pc[p] = "rsUp"
    /\ StartInterface
    /\ (iface' = "up" /\ Go(p, "rsCache")) \/ Exit(p, 1)
    /\ UNCHANGED <<section, files, power, sim, reg, holders, used, hist>>

ResetCache(p) ==
    /\ pc[p] = "rsCache"
    /\ cache' = [s \in Sim |-> NoProfile]
    /\ Go(p, "rsActive")
    /\ UNCHANGED <<section, baseline, active, result, world, holders, used, hist>>

ResetActive(p) ==
    /\ pc[p] = "rsActive"
    /\ active' = NoProfile
    /\ Go(p, "rsDrop")
    /\ UNCHANGED <<section, baseline, cache, result, world, holders, used, hist>>

ResetDrop(p) ==
    /\ pc[p] = "rsDrop"
    /\ baseline' = NoProfile
    /\ Exit(p, 0)
    /\ UNCHANGED <<section, active, cache, result, world, holders, used, hist>>
-----------------------------------------------------------------------------
(* roaming_policy_set_cmd *)

\* What is read first: was the interface up, was the modem roaming?
PolicyObserve(p) ==
    /\ pc[p] = "rpSet"
    /\ \E up \in interface_is_up, r \in refresh_modem_status(p) :
         To(p, "rpWrite", [loc[p] EXCEPT !.wasUp = up, !.reg = r])
    /\ UNCHANGED <<section, files, world, holders, used, hist>>

PolicyWrite(p) ==
    /\ pc[p] = "rpWrite"
    /\ \/ policy' = loc[p].want /\ Go(p, "rpEnforce")
       \/ UciMayFail /\ Exit(p, 1) /\ UNCHANGED policy
    /\ UNCHANGED <<cfg, origin, files, world, holders, used, hist>>

\* Roaming as last read; the states without a verdict leave it unknown.
RoamingUnknown(r) == r \notin {"home", "roaming"}

\* A block stops an interface that roams or may be roaming; anything else
\* starts one that was down and reconciles it.
\* A start needs a SIM that was readable; whether it was is not known from a
\* registration that stayed unknown.
PolicyEnforce(p) ==
    LET l == loc[p]
        stop == l.want = "block" /\ (l.reg = "roaming" \/ (RoamingUnknown(l.reg) /\ l.wasUp))
        start == l.want # "block" /\ ~l.wasUp /\ Backend \in {"modemmanager", "mbim"}
    IN  /\ pc[p] = "rpEnforce"
        /\ \/ stop /\ StopInterface /\ Exit(p, 0)
           \/ start /\ iface' = "up" /\ To(p, "rpWait", [l EXCEPT !.remaining = InterfaceWait])
           \/ start /\ StartInterface /\ Exit(p, 1)
           \/ ~stop /\ (start => l.reg = "unknown") /\ UNCHANGED iface /\ Exit(p, 0)
        /\ UNCHANGED <<section, files, power, sim, reg, holders, used, hist>>

\* wait_for_interface || :, then reconcile_cmd.
PolicyWaited(p) ==
    /\ pc[p] = "rpWait"
    /\ loc[p].remaining = 0 \/ TRUE \in interface_is_up
    /\ To(p, "readSim", [loc[p] EXCEPT !.cmd = "reconcile", !.remaining = 0])
    /\ UNCHANGED <<section, files, world, holders, used, hist>>
-----------------------------------------------------------------------------
(* modem_reset_inline_cmd *)

ModemDown(p) ==
    /\ pc[p] = "mrDown"
    /\ StopInterface
    /\ To(p, "mrOff", [loc[p] EXCEPT !.restoreIf = TRUE])
    /\ UNCHANGED <<section, files, power, sim, reg, holders, used, hist>>

\* MODEM_POWER_OFF_ARMED is set before the write and cleared after the next.
ModemOff(p) ==
    /\ pc[p] = "mrOff"
    /\ \/ power' = "off" /\ To(p, "mrOn", [loc[p] EXCEPT !.powerOff = TRUE])
       \/ UNCHANGED power /\ To(p, "xPower", [loc[p] EXCEPT !.powerOff = TRUE, !.status = 1])
    /\ UNCHANGED <<section, files, iface, sim, reg, holders, used, hist>>

ModemOn(p) ==
    /\ pc[p] = "mrOn"
    /\ \/ /\ power' = "on"
          /\ To(p, "mrWait", [loc[p] EXCEPT !.powerOff = FALSE, !.remaining = ModemWait])
       \/ UNCHANGED power /\ Exit(p, 1)
    /\ UNCHANGED <<section, files, iface, sim, reg, holders, used, hist>>

Reconciling(p) == [loc[p] EXCEPT !.cmd = "reconcile", !.resetting = TRUE, !.remaining = 0]

\* wait_for_modem knows two backends and times out for the others.  For qmi the
\* interface is started before the reconcile.
ModemReturned(p) ==
    /\ pc[p] = "mrWait"
    /\ \/ loc[p].remaining = 0 /\ Exit(p, 1) /\ UNCHANGED iface
       \/ /\ loc[p].remaining > 0 /\ Backend = "modemmanager"
          /\ To(p, "readSim", Reconciling(p)) /\ UNCHANGED iface
       \/ /\ loc[p].remaining > 0 /\ Backend = "qmi"
          /\ StartInterface
          /\ \/ iface' = "up" /\ To(p, "mrUp", [loc[p] EXCEPT !.remaining = InterfaceWait])
             \/ Go(p, "mrStop")
    /\ UNCHANGED <<section, files, power, sim, reg, holders, used, hist>>

\* wait_for_interface && wait_for_data_interface.
ModemReady(p) ==
    /\ pc[p] \in {"mrUp", "mrData"}
    /\ loc[p].remaining > 0 /\ TRUE \in interface_is_up
    /\ IF pc[p] = "mrUp"
         THEN To(p, "mrData", [loc[p] EXCEPT !.remaining = InterfaceWait])
         ELSE To(p, "readSim", [Reconciling(p) EXCEPT !.restoreIf = FALSE])
    /\ UNCHANGED <<section, files, world, holders, used, hist>>

\* The interface did not start, or was not ready in time.
ModemLate(p) ==
    /\ \/ pc[p] = "mrStop"
       \/ pc[p] \in {"mrUp", "mrData"} /\ loc[p].remaining = 0
    /\ StopInterface
    /\ Exit(p, 3)
    /\ UNCHANGED <<section, files, power, sim, reg, holders, used, hist>>

\* After the reconcile: is the interface still to be started by on_exit?
ModemReconciled(p) ==
    /\ pc[p] = "mrAfter"
    /\ \E up \in interface_is_up :
         To(p, "xPower", [loc[p] EXCEPT !.restoreIf = @ /\ ~(loc[p].status \in {0, 2} \/ up)])
    /\ UNCHANGED <<section, files, world, holders, used, hist>>
-----------------------------------------------------------------------------
(* on_exit: signals are ignored from here on *)

\* The supply is switched on again if it was switched off; that write may fail.
ExitPower(p) ==
    /\ pc[p] = "xPower"
    /\ power' \in IF loc[p].powerOff THEN {power, "on"} ELSE {power}
    /\ hist' = [hist EXCEPT !.powerLost = @ \/ (loc[p].powerOff /\ power' = "off")]
    /\ To(p, "xRestore", [loc[p] EXCEPT !.powerOff = FALSE])
    /\ UNCHANGED <<section, files, iface, sim, reg, holders, used>>

\* restore_owned_profile: every option and the commit, or none of what follows.
ExitRollback(p) ==
    /\ pc[p] = "xRestore"
    /\ loc[p].rollback
    /\ \/ cfg' = loc[p].old /\ Go(p, "xDown")
       \/ /\ UciMayFail
          /\ To(p, "xLock", [loc[p] EXCEPT !.unwritten = TRUE])
          /\ UNCHANGED cfg
    /\ UNCHANGED <<origin, policy, files, world, holders, used, hist>>

\* No rollback: restart the interface a modem reset stopped, if it still is.
ExitKeep(p) ==
    /\ pc[p] = "xRestore"
    /\ ~loc[p].rollback
    /\ IF loc[p].restoreIf THEN StartInterface ELSE UNCHANGED iface
    /\ Go(p, "xLock")
    /\ UNCHANGED <<section, files, power, sim, reg, holders, used, hist>>

ExitDown(p) ==
    /\ pc[p] = "xDown"
    /\ StopInterface
    /\ IF loc[p].leaveDown
         THEN To(p, "xLock", [loc[p] EXCEPT !.unstopped = iface' = "up"])
         ELSE Go(p, "xUp")
    /\ UNCHANGED <<section, files, power, sim, reg, holders, used, hist>>

ExitUp(p) ==
    /\ pc[p] = "xUp"
    /\ StartInterface
    /\ Go(p, "xLock")
    /\ UNCHANGED <<section, files, power, sim, reg, holders, used, hist>>

\* cleanup_files releases a lock of its own; a borrowed one stays.
ExitUnlock(p) ==
    /\ pc[p] = "xLock"
    /\ lock' = IF loc[p].locked /\ ~loc[p].borrowed THEN NoOwner ELSE lock
    /\ To(p, "idle", NoLocals)
    /\ UNCHANGED <<section, files, world, coord, child, used, hist>>

\* on_signal: exit 143 from wherever the script is.
Term(p) ==
    /\ Running(p)
    /\ used.terms < MaxTerms
    /\ used' = [used EXCEPT !.terms = @ + 1]
    /\ Exit(p, 143)
    /\ UNCHANGED <<section, files, world, holders, hist>>

\* SIGKILL: no trap runs, and the lock file keeps naming the dead process.
Kill(p) ==
    /\ pc[p] # "idle"
    /\ used.kills < MaxKills
    /\ used' = [used EXCEPT !.kills = @ + 1]
    /\ lock' = IF lock = p THEN DeadOwner ELSE lock
    /\ hist' = [hist EXCEPT !.powerLost = @ \/ loc[p].powerOff]
    /\ To(p, "idle", NoLocals)
    /\ UNCHANGED <<section, files, world, coord, child>>
-----------------------------------------------------------------------------
(* The Coordinator: a modem or eSIM operation that holds the same lock *)

CoordAcquire ==
    /\ coord = "idle"
    /\ lock \in {NoOwner, DeadOwner}
    /\ used.starts < MaxStarts
    /\ used' = [used EXCEPT !.starts = @ + 1]
    /\ lock' = Coordinator
    /\ coord' = "holding"
    /\ UNCHANGED <<section, files, world, child, pc, loc, hist>>

\* An eSIM operation enables another profile while it holds the lock.
CoordSwitch ==
    /\ coord = "holding"
    /\ used.switch < MaxSwitch
    /\ used' = [used EXCEPT !.switch = @ + 1]
    /\ sim' \in Sim \ {sim}
    /\ UNCHANGED <<section, files, iface, power, reg, holders, pc, loc, hist>>

\* `apn-autoconfig reconcile' as a tracked child that borrows the lock.
CoordReconcile(p) ==
    /\ coord = "holding"
    /\ pc[p] = "idle"
    /\ used.starts < MaxStarts
    /\ used' = [used EXCEPT !.starts = @ + 1]
    /\ coord' = "waiting"
    /\ child' = p
    /\ To(p, "readSim", [NoLocals EXCEPT !.cmd = "reconcile", !.borrowed = TRUE])
    /\ UNCHANGED <<section, files, world, lock, hist>>

CoordReap ==
    /\ coord = "waiting"
    /\ pc[child] = "idle"
    /\ coord' = "holding"
    /\ child' = NoOwner
    /\ UNCHANGED <<section, files, world, lock, pc, loc, used, hist>>

CoordRelease ==
    /\ coord = "holding"
    /\ coord' = "idle"
    /\ lock' = NoOwner
    /\ UNCHANGED <<section, files, world, child, pc, loc, used, hist>>

\* SIGKILL: a child it was waiting for goes on without it.
CoordKill ==
    /\ CoordMayDie
    /\ coord # "idle"
    /\ used.kills < MaxKills
    /\ used' = [used EXCEPT !.kills = @ + 1]
    /\ hist' = [hist EXCEPT !.orphaned = @ \/ coord = "waiting"]
    /\ coord' = "idle"
    /\ child' = NoOwner
    /\ lock' = DeadOwner
    /\ UNCHANGED <<section, files, world, pc, loc>>
-----------------------------------------------------------------------------
(* The network and the user *)

RegistrationChanges ==
    /\ used.signal < MaxSignal
    /\ used' = [used EXCEPT !.signal = @ + 1]
    /\ reg' \in Registration \ {reg, "unknown"}
    /\ UNCHANGED <<section, files, iface, power, sim, holders, pc, loc, hist>>

\* The user edits the section, at any time: LuCI and uci take no lock.
UserEdit ==
    /\ used.edits < MaxEdits
    /\ used' = [used EXCEPT !.edits = @ + 1]
    /\ \/ /\ \E a \in Apn : cfg' = [apn |-> a, auth |-> "none", ip |-> "-"]
          /\ origin' = IF baseline = NoProfile THEN cfg' ELSE origin
          /\ hist' = [hist EXCEPT !.disturbed = @ \/ \E p \in Proc : loc[p].locked]
          /\ UNCHANGED policy
       \/ policy' \in {"block", "invalid"} /\ UNCHANGED <<cfg, origin, hist>>
    /\ UNCHANGED <<files, world, holders, pc, loc>>
-----------------------------------------------------------------------------
Step(p) ==
    \/ ReadSim(p) \/ AcquireLock(p) \/ AwaitTurn(p)
    \/ ReadPolicy(p) \/ PreflightPending(p) \/ PreflightRefused(p) \/ PreflightPassed(p)
    \/ AlreadyReconciled(p) \/ NotReconciled(p)
    \/ Capture(p) \/ NextCandidate(p) \/ Exhausted(p)
    \/ Attempt(p) \/ AttemptsOver(p) \/ IfDown(p) \/ IfUp(p)
    \/ BearerReady(p) \/ BearerLate(p) \/ Recheck(p) \/ Probe(p)
    \/ SaveCache(p) \/ SaveActive(p) \/ RecordSuccess(p) \/ Disarm(p)
    \/ ResetRestore(p) \/ ResetNothing(p) \/ ResetDown(p) \/ ResetUp(p)
    \/ ResetCache(p) \/ ResetActive(p) \/ ResetDrop(p)
    \/ PolicyObserve(p) \/ PolicyWrite(p) \/ PolicyEnforce(p) \/ PolicyWaited(p)
    \/ ModemDown(p) \/ ModemOff(p) \/ ModemOn(p)
    \/ ModemReturned(p) \/ ModemReady(p) \/ ModemLate(p) \/ ModemReconciled(p)
    \/ ExitPower(p) \/ ExitRollback(p) \/ ExitKeep(p) \/ ExitDown(p) \/ ExitUp(p)
    \/ ExitUnlock(p)

Coordinate ==
    \/ CoordAcquire \/ CoordSwitch \/ CoordReap \/ CoordRelease \/ CoordKill
    \/ \E p \in Proc : CoordReconcile(p)

Next ==
    \/ \E p \in Proc : Start(p) \/ Step(p) \/ Term(p) \/ Kill(p)
    \/ Coordinate
    \/ RegistrationChanges \/ UserEdit

Spec == Init /\ [][Next]_vars

\* Every external command of the engine is bounded by a watchdog, so a running
\* process keeps stepping; its loops end by their own count.  A Coordinator
\* reaps its child and releases.
FairSpec ==
    /\ Spec
    /\ \A p \in Proc : WF_vars(Step(p))
    /\ WF_vars(CoordReap) /\ WF_vars(CoordRelease)
-----------------------------------------------------------------------------
(* Properties *)

PC == {"idle", "readSim", "lock", "policy", "preflight", "turn", "check", "capture",
       "candidate", "attempt", "ifdown", "ifup", "bearer", "address", "noBearer", "bearerUp", "probe",
       "saveCache", "saveActive", "success", "disarm",
       "rsRestore", "rsDown", "rsUp", "rsCache", "rsActive", "rsDrop",
       "rpSet", "rpWrite", "rpEnforce", "rpWait",
       "mrDown", "mrOff", "mrOn", "mrWait", "mrUp", "mrData", "mrStop", "mrAfter",
       "xPower", "xRestore", "xDown", "xUp", "xLock"}

Trial == {"candidate", "attempt", "ifdown", "ifup", "bearer", "address", "noBearer",
          "bearerUp", "probe", "saveCache", "saveActive", "success", "disarm"}

Applying == Trial \cup {"policy", "preflight", "turn", "check", "capture"}

Applies == {"apply", "apply-manual", "reconcile"}

Locals == [cmd : Applies \cup {"none", "reset", "roaming-policy-set", "modem-reset"},
           arg : Profile \cup {NoProfile}, want : {"default", "allow", "block"},
           iccid : Sim \cup {NoSim}, reg : Registration, wasUp : BOOLEAN,
           old : Config \cup {NoProfile}, cands : Seq(Profile), seen : SUBSET Profile,
           plan : Seq(Profile), cur : Profile \cup {NoProfile},
           allowed : BOOLEAN, remaining : Nat, started : BOOLEAN, saw : BOOLEAN,
           rollback : BOOLEAN, leaveDown : BOOLEAN, restoreIf : BOOLEAN,
           powerOff : BOOLEAN, resetting : BOOLEAN, locked : BOOLEAN, borrowed : BOOLEAN,
           unwritten : BOOLEAN, unstopped : BOOLEAN, unrecorded : BOOLEAN,
           status : {0, 1, 2, 3, 143}]

\* A process at l with variables r: a rollback has something to restore, and a
\* process that applies knows the SIM and the profile it applies.
LocalOK(l, r) ==
    /\ r.rollback => r.old \in Config
    /\ r.cmd = "apply-manual" => r.arg \in Profile
    /\ l \in Applying => r.cmd \in Applies /\ r.iccid \in Sim
    /\ l = "readSim" => r.cmd \in Applies
    /\ l = "lock" => r.cmd # "none"
    /\ l = "lock" /\ r.cmd \in Applies => r.iccid \in Sim

StoreOK ==
    /\ cfg \in Config /\ origin \in Config
    /\ baseline \in Config \cup {NoProfile}
    /\ cache \in [Sim -> Profile \cup {NoProfile}]
    /\ policy \in {"default", "allow", "block", "invalid"}
    /\ iface \in {"up", "down"} /\ power \in {"on", "off"}
    /\ sim \in Sim /\ reg \in Registration
    /\ lock \in Proc \cup {Coordinator, NoOwner, DeadOwner}
    /\ coord \in {"idle", "holding", "waiting"}
    /\ child \in Proc \cup {NoOwner}
    /\ hist \in [verified : SUBSET (Sim \X (Profile \cup {NoProfile})),
                powerLost : BOOLEAN, orphaned : BOOLEAN, disturbed : BOOLEAN]

\* The state has its shape, and every process is in a position its variables
\* allow.
TypeOK ==
    /\ StoreOK
    /\ pc \in [Proc -> PC]
    /\ loc \in [Proc -> Locals]
    /\ \A p \in Proc : LocalOK(pc[p], loc[p])

\* Two operations never work on the target at once, unless a Coordinator was
\* killed while its engine child was borrowing the lock.
OneOperation ==
    hist.orphaned \/ \A p, q \in Proc : loc[p].locked /\ loc[q].locked => p = q

\* A failed or interrupted trial leaves the section with exactly the profile
\* it found, unless the configuration could not be written, or somebody else
\* edited the section under an operation.
FailureRestoresProfile ==
    \A p \in Proc :
        (/\ pc[p] = "xLock" /\ loc[p].rollback /\ ~loc[p].unwritten
         /\ ~hist.orphaned /\ ~hist.disturbed)
            => cfg = loc[p].old

\* An operation that ends because roaming is forbidden, and whose stop of the
\* interface was asked for and obeyed, leaves it down: nothing on its way out,
\* neither the rollback of a trial nor the end of a modem reset, starts it
\* again.  The stop is not asked for by a preflight that does not see the
\* interface up (one it started itself, and that is not up yet, stays started),
\* nor by an on_exit that could not write the old profile; and its failure is
\* ignored.
RoamingBlockHolds ==
    \A p \in Proc :
        (/\ pc[p] = "xLock" /\ loc[p].status = 2
         /\ ~loc[p].unwritten /\ ~loc[p].unstopped /\ ~hist.orphaned)
            => iface = "down"

\* A modem whose supply is off is always one some running process will try to
\* switch on again; only a SIGKILL inside the off interval, or the failure of
\* that last write, leaves it off.
PowerOffIsOwned ==
    power = "off" => hist.powerLost \/ \E p \in Proc : loc[p].powerOff

\* A cached profile was verified with the very SIM it is filed under.
CacheBelongsToSim ==
    hist.orphaned \/ \A s \in Sim : cache[s] # NoProfile => <<s, cache[s]>> \in hist.verified

\* After a successful apply or reconcile the section matches the active record,
\* so that a following reconcile has nothing to change; unless that record could
\* not be written, which the engine only warns of.
ReconcileIsIdempotent ==
    \A p \in Proc :
        (/\ pc[p] = "xLock" /\ loc[p].status = 0 /\ ~loc[p].unrecorded
         /\ ~hist.orphaned /\ ~hist.disturbed
         /\ loc[p].cmd \in {"apply", "apply-manual", "reconcile"})
            => configured_profile_matches_active /\ active.iccid = loc[p].iccid

Origin == INSTANCE Baseline

\* The engine implements the Baseline contract: trials only over a saved
\* profile, and the copy dropped only once it is configured again.  An edit of
\* the section in the middle of a reset is outside the contract.
KeepsBaseline == Origin!Spec

\* The user's own profile is never lost: configured or saved, whatever is
\* killed or interrupted and wherever; where it is edited under an operation,
\* the edit may be what is kept.
OriginRecoverable == hist.orphaned \/ hist.disturbed \/ Origin!OriginRecoverable

\* What makes these inductive.  The lock names the process that works under
\* it, or the Coordinator whose child does; the parts below hold until a
\* Coordinator is killed over a working child.
Exiting == {"xPower", "xRestore", "xDown", "xUp", "xLock"}
Restored == {"rsDown", "rsUp", "rsCache", "rsActive", "rsDrop"}
BeforeLock == {"idle", "readSim", "lock"}

HolderInv ==
    /\ lock = Coordinator <=> coord \in {"holding", "waiting"}
    /\ child # NoOwner => coord = "waiting"
    /\ \A p \in Proc :
         /\ pc[p] = "idle" => ~loc[p].locked /\ ~loc[p].borrowed
         /\ loc[p].locked /\ ~loc[p].borrowed => lock = p
         /\ loc[p].borrowed => child = p

\* A rollback is armed exactly during a trial and while on_exit undoes it; a
\* baseline exists throughout, and reset has the section equal to it, unless it
\* was edited meanwhile.
TrialInv ==
    \A p \in Proc :
        /\ pc[p] \notin BeforeLock \cup Exiting => loc[p].locked
        /\ pc[p] \in Trial => loc[p].rollback
        /\ loc[p].rollback => loc[p].locked /\ pc[p] \in Trial \cup Exiting /\ baseline # NoProfile
        /\ pc[p] \in Restored => baseline # NoProfile /\ (hist.disturbed \/ cfg = baseline)

EngineInv ==
    /\ TypeOK
    /\ hist.orphaned \/ (HolderInv /\ TrialInv /\ (hist.disturbed \/ Origin!OriginRecoverable))

\* Every operation ends: the registration wait, the bearer waits under each
\* attempt of each candidate and the waits of a power cycle count down, the
\* lists of candidates and attempts run out, and a reconcile calls apply once.
OperationsEnd == \A p \in Proc : pc[p] # "idle" ~> pc[p] = "idle"
=============================================================================
