# Verification of apn-autoconfig

TLA+ specifications of the apn-autoconfig suite (OpenWrt packages that configure the
mobile access point of a router), the TLC configurations that model-check them, and
proofs of their main safety properties for TLAPS. Paths below are relative to the
repository; "engine" is `files/usr/sbin/apn-autoconfig`, "modem" is
`apn-autoconfig-modem/files/usr/sbin/apn-autoconfig-modem`, "eSIM" is
`apn-autoconfig-esim/files/usr/sbin/apn-autoconfig-esim`, "page" is
`luci-app-apn-autoconfig/htdocs/luci-static/resources/view/network/apn-autoconfig.js` and
"jsQR" is `.../luci-static/resources/apn-autoconfig/jsQR.js`.

    tlc -config MCApnEngine_trial.cfg MCApnEngine.tla     # any MC module and cfg
    tlapm ApnEngineProofs.tla                             # any *Proofs module: up to six minutes

## 1. The system

The programs are POSIX shell scripts started by a button, by hotplug and init scripts,
by the LuCI view through rpcd, by an administrator, and by one another. Nothing stays
resident: what one run knows of another is in files (locks, records, caches), in UCI,
in netifd and in the modem. So the hard behaviours are those of concurrent processes
over a file system: any two calls of one script may have calls of another between them,
a script may be killed anywhere, and TERM runs an exit trap that itself takes several
steps. The page is the other kind of program: one thread in a browser, whose reads and
launches are answered later, in any order or not at all, while its polls draw it again
under the user's hands.

| component | state it keeps | operations | what makes it correct |
|---|---|---|---|
| lock files (every package) | `<lock>`, `<lock>.reclaim` | acquire, reclaim a dead owner's, release | one live owner; a dead owner's lock is reclaimed |
| APN engine | network section (UCI), `baseline.tsv`, `active.tsv`, `<ICCID>.tsv`, `last-result-code`, interface, modem power | apply, apply-manual, reconcile, reset, roaming-policy-set, modem-reset; reads; forget-target, reset-all | the user's profile is never lost; a failed trial is undone; roaming stays blocked; a modem is not left without power; reconcile is idempotent |
| background jobs | `.start-lock`, `state.tsv` | action-start, action-status, worker | one worker; the answer and the status are true; nobody waits for ever |
| boot service, button, hotplug | none | retry loop over exit classes | it ends, and retries what is retryable |
| provider database updater | installed package, backup | check, install | a failed install is rolled back |
| QMI and MBIM adapters | per-device lock | bounded identity reads | one reader of a device at a time |
| modem coordinator | ownership journal, UCI sections, operation and per-modem locks | provision, adopt, release, deprovision, reset, converge | provision/release are reversible; foreign sections are left alone |
| eSIM manager | operation, card, takeover records, consent plans | takeover, switch, rollback, delete plan/confirm, notifications | a switch ends on the wanted or the previous profile; locks in one order |
| eSIM C helpers, lpac runner | none | APDU and HTTP exchange | deadlines hold |
| AT-dial protocol handler | netifd protocol state | setup, watch, teardown | one dialer of a tty |
| LuCI view (page) | documents read, route, dialogs, operations being followed | first fill, polls, refreshes; what a card offers, confirmations, launches; eSIM lists, plans and operations | it shows what is so once things settle; it offers what will be accepted; nothing is sent that no dialog named; a touched form is left alone; controls come back |
| QR decoder (jsQR) | none | a picture to a text | the text that was printed, or none |
| front ends, build and data scripts | none on the router | | |

How they interact:

- the **operation lock** (`LOCK_DIR`) serialises whatever changes a target: the engine
  takes it, or *borrows* it from the modem or eSIM operation whose child it is
  (`APN_AUTOCONFIG_LOCK_OWNER_PID`, engine 2827-2858);
- the **start lock** of a job runner passes from launcher to worker by a rename;
- `state.tsv` is written by the launcher (truncate and write) and by the worker
  (rename), and read by anyone;
- an eSIM switch changes the SIM under the engine; the user edits UCI at any time;
- registration changes on its own;
- the page reads documents of the engine and of both coordinators, and launches their
  operations; other pages, shells and hotplug scripts do so beside it;
- an eSIM deletion is planned by one operation, whose plan the page collects, shows and
  confirms by another; the code of a download may come from a picture.

The hazards this gives rise to are listed in `PROJECT.json`, each at its line with the
properties that would catch it, or with the reason why none does yet.

## 2. The modules

### LockFile

The protocol of engine 349-438, which the other packages carry verbatim. One action is
one `ln`, `sed`, `kill -0` or `rm`. `pc[p]` is the position in
`lock_try_acquire_or_reclaim`, `seen[p]` the shell variable with the PID last read.
`lockKind` tells the regular file from the directory of release 0.10.0. `Die` is SIGKILL
anywhere, `Spawn` gives a number to a new process, `CannotWrite` is a full file system.
`evicted` is a history variable: owners whose file somebody else removed.

The protocol is *not* mutually exclusive, although the comment over it says so: a
reclaimer judges the owner dead at line 409 and removes the file
at line 415, and by then the file may be another's. What holds, and is proved, is the
exact extent of this: two owners coexist only if one was evicted, and an eviction needs
a remover whose observation named someone else, or the release of an owner who had been
evicted before.

### ApnEngine, Baseline

`ApnEngine` has one process per engine invocation. `pc[p]` is its position, `loc[p]` its
shell variables: the command, what it read (`iccid`, `reg`, `wasUp`), the trial
(`old`, `cands`, `plan`, `cur`) and the flags `on_exit` goes by (`rollback` is
`ROLLBACK_ARMED`, `leaveDown` is `LEAVE_INTERFACE_DOWN`, `powerOff` is
`MODEM_POWER_OFF_ARMED`, and so on). The actions follow the scripts' order:

| positions | code |
|---|---|
| `readSim`, `lock`, `policy`, `preflight`, `turn` | start of each command, `acquire_lock`, `registration_preflight` with its counted wait |
| `check` | `reconcile_cmd`: connectivity and `configured_profile_matches_active` |
| `capture` .. `disarm` | `capture_old_profile`, candidates, attempts, bearer wait, probe, the three success records, `ROLLBACK_ARMED=0` |
| `rs*` | `reset_cmd`, one position per step |
| `rp*` | `roaming_policy_set_cmd` |
| `mr*` | `modem_reset_inline_cmd`, which calls reconcile |
| `x*` | `on_exit`: power, rollback, interface, lock |

`Term` sends any running process to the exit trap, `Kill` ends it where it is. The
`Coordinator` is a modem or eSIM operation: it takes the lock, may change the SIM, may
run an engine as its child, and may be killed over it. `UserEdit` is the user changing
the section at any time, under an operation too, since LuCI and `uci` take no lock;
`RegistrationChanges` is the network. Profiles are records of three fields,
and the translations between the engine's words and each protocol handler's
(`set_profile`, `RecordedProfile`) are modelled as they are, since two properties depend
on where they differ.

What may fail, does. `interface_is_up` answers no for an interface that was started and is
not up yet, and whenever the call to netifd fails; every `ifdown` and `ifup` may fail, or
take effect and be reported as failed (`StopInterface`, `StartInterface`), and the code
ignores most of that; the cache and the active record may fail to be written, of which the
engine only warns; a UCI write fails where `UciMayFail`. Every wait counts down
(`remaining`, from `RegistrationWait`, `InterfaceWait` or `ModemWait`), one `AwaitTurn` for
a second's sleep, and is over early or at zero as in the code; so is the preflight, which
reads registration again in each turn.

`hist` holds history: which profile was verified with which SIM, whether power was lost
through a kill or a failed write, and `orphaned`: a Coordinator was killed while its
child was borrowing the lock. From then on a new owner can work beside the child; the
invariants that speak of exclusion exempt exactly that state. `disturbed`: the section was
edited while an operation had the lock. What an operation then leaves is a mixture, and the
properties of the section exempt it. Three more exemptions are locals of a process and so
end with it: `unwritten` (the old profile could not be written back), `unstopped` (a stop of
the interface was not asked for or failed, and it is up), `unrecorded` (the active record
was not written).

`Baseline` is the abstract contract of apply, reconcile and reset over three variables
(section, saved copy, the user's own profile): *a trial is written only over a saved
profile, and the copy is dropped only once it is configured again*. `ApnEngine`
implements it with the identity as refinement mapping (`KeepsBaseline`). An edit of the
section in the middle of a reset is outside the contract; the runs that check it make none.

### JobLaunch

`action-start`, `action-status` and the worker `apn-autoconfig-action`. Each launch `j`
has up to four processes, `Launcher(j)`, `Supervisor(j)`, `Worker(j)` and `Engine(j)`,
each with a position in `pc`. `record` is `state.tsv` with the process and launch that
wrote it; the launcher's write is two steps (`TruncateRecord`, `WriteStarting`), the
worker's one. `action_status_values` is modelled call by call (`ReadRecord` to
`CheckOperation`) and executed by launchers, for the check and for the answer; a launcher
that is turned away at the lock reads as any caller of `action-status` does. `Busy` is `ACTION_BUSY`. The launcher's acceptance loop, its TERM and KILL of
whoever it believes to be the job, and its release of the lock are separate steps, so
the handover can happen between any two of them. Killed processes leave their files.

`hist.harmed` are the launches of which a process was killed, failed to write or was
given up; `hist.stolen` says that the start lock was taken from a live owner. Both appear
in what is promised, since the code promises no more. Three launches are enough to see
why: a launch whose supervisor was given up hands over all the same, its worker publishes
over the record of the launch that is starting, and the acceptance loop of that launch
takes the foreign record for its own. So `AcceptedIsPublished` holds until the lock is
stolen or a harmed job has published. The last look of a launcher that gave up (`Recheck`)
knows its record by operation, target and second in the code (2815-2816) and by the launch
in the model: two launches are taken to differ in one of the three, which leaves out that one
of two equal launches within a second is told of the other's acceptance. Acquiring
either lock is one step: `LockFile` is where that step is opened up, and its result (an
eviction during reclaim) would add one more way for `stolen` to become true.

### PageDocuments

What the page has read, and how it comes to read again. `chain[c]` is where each of the
four readers is: the first fill, and the refreshes started by the poll of the engine
(`refreshAction`), of the modem coordinator and of the hardware generation. A chain asks
for one document after another and installs all at the end, as `loadDocuments` does; a
read is answered with what the router says when it is asked (`Ask`), and that answer lands
some steps later (`Read`). `flags` are the page's fields (`engineBusy`,
`actionPollPending`, `modemPollPending`, `userEditing`, `hardwareGeneration`), `screen` is
what was drawn last, `disabled` whose controls are disabled. `Redraw` is `renderRoute` and
whatever a caller asks first; `flags.withheld` is history: whether a redraw was withheld
since the last one (`"now"`), or before it, because a policy was being edited. The router's own steps are modems that come and go,
operations begun elsewhere, and their ends; the answer of a launch may be lost.

The failed list of targets, the database status and the failure of a poll (a poll not
made) are left out. `used` marks three conditions that two of the properties exempt,
because without them they fail: hardware that changed during the first fill, an operation
begun elsewhere, and two chains that overlapped. `withheld` is a fourth: taking an edit
back (4475) clears `userEditing` and draws nothing, so what was withheld is not on the
screen until the next redraw (`NotDrawn`), and what that redraw would have set off is not
done. The shapes of all this, `TypeOK` and `FormIsKept` are in the module, the liveness
properties in `MCPageDocuments`.

### PageControls, Consent

What a card offers in each area, and what becomes of a press. The reads are not followed
here: `documents` are read at any time, in any order, and any may fail (`Reads`), so every
mixture of old and new documents occurs. `router` is one of `Routers`: each modem has a
condition (attached, set up by whom, ambiguous, conflicting, recorded under this identity)
and each section a connection; `silent` names what an older package does not publish. The
coordinator's side is written from its own code: the verdicts it publishes
(`can_provision`, `can_adopt`, ...) and, separately, what its commands check when they are
called (`Accepts`). The page's side is `buildSubjects`, the area functions
(`provisionNodes`, `adoptionNodes`, ...), the dialogs, and the launches. Nothing keeps two
modems from having one interface: `netifd_interface_for_record` (modem 2316) matches by
device, by path and by recorded identity, which may be of different modems. Both cards
then stand for the connection, so `ConnectionsHaveCards` says no more than that a
connection has a card of its own or those of its modems.

`Consent` is the abstract contract: an operation is sent once for each confirmation of the
dialog that named it, and nothing else is sent. `PageControls` and `EsimPage` both
implement it (`KeepsConsent`): the refinement maps the open dialog to `asked`, and what
was sent to `last` and `count`. In `PageControls` `sent` leaves out the check for an update,
which changes nothing and is not confirmed; in `EsimPage` the plan of a deletion is not
confirmed on a card that is freely read.

### EsimPage

The SIM and eSIM areas of one modem, on the screen together. `router` holds the card, the
queue of launches, the operation that runs and the one plan the coordinator keeps;
`documents` what the page has read of them. A press opens a dialog or sends an operation;
`Serve` starts what was sent, or finds the coordinator busy, or the launch is lost. The
poll (`Following`, `esimOperation*` in the page) follows `pending` through its stages: seen
running, ended, waiting for the endpoint to be enumerated again, collecting a plan or
reading the card, refreshing. A deletion is `delete-plan`, then the plan's collection by
`PlanWanted`, its dialog with a countdown, and `delete-confirm` of that plan.

`blind` are the endpoints changed by what this page did not follow to its end (an operation
of another page while one was pending, operations that overlapped, an endpoint that did
not come back, a list that was not read): the code does not tell these either, and what is
drawn of such an endpoint may be old until it is read again. `here` marks the operations sent from this page.
`asked` are the profiles whose Delete was pressed. What a downgrade would send is fixed
when its control is drawn (`esimDowngradeNodes`), not when it is pressed. `TypeOK` says more
than shapes: an operation, a control or a list names an endpoint and something that is on
that endpoint.

Simplified: identical requests in flight count once; the two reads of a card are one
step; a plan may run out at any time; "blocked" is merged with "failed"; an operation that
fails leaves the card as it was. Left out: the fields of the download form and its
picture, typed digits, the texts of refusals, and the modem coordinator's own operations.

### ReedSolomon, QrVersions, QrDecoder

The decoder from the sampled bits to the text. `ReedSolomon` is the field by its tables, and the
correction of a block (syndromes, Euclid, Chien's search, Forney's formula) as jsQR does
them; `QrVersions` is its table of the forty versions and the mask of the modules that
carry no data; `QrDecoder` is `scan` and `decodeMatrix`: each found symbol read as it is,
then mirrored, then the same of the inverted picture. Division, Euclid's algorithm and the
segments of a text recur by recursive functions. A picture is the lists of its symbols, each
square and of an odd number of modules (`Symbol`: `computeDimension`, 9745-9753, makes every
dimension odd), of any bits. Three assumptions
are closed facts about jsQR's tables that TLC evaluates: no two formats differ in fewer
than seven bits, no two versions that carry their bits in fewer than eight (jsQR 669,
714), and the blocks of every version and level are of one size, or of two that differ by a
byte.

`QrStandard` is how symbols are printed, written from ISO/IEC 18004 and using nothing of the
decoder: the alignment centres by the rule of its annex, the table of blocks, the check bits
of format and version as remainders, products of the field a bit at a time, each module's
turn computed from its place. `MCQrDecoder` prints with it and damages what is printed, so
that a mistake in the decoder's tables, mask or field shows as a text not read. It found one:
jsQR 8964 gives version 23 a centre at 74 for the standard's 78 (section 3).

## 3. The runs

| run | bounds | shows |
|---|---|---|
| `lock_protocol` | 3 contenders, 1 death or failed write, no reuse of recorded numbers | exclusion up to eviction; what an eviction needs; a dead owner's lock is reclaimed |
| `engine_trial` | 2 mbim engines, 2 starts, a kill, a TERM, a registration change, write failures | trials are undone or kept whole, the user's profile is recoverable, the Baseline contract |
| `engine_roaming` | 1 modemmanager engine, 2 registration changes, a kill, a TERM, an edit, write failures | a stop for roaming is not undone, power is restored |
| `engine_shared` | 2 qmi engines, 2 starts, a kill, a registration change, a SIM switch, Coordinator may die | cache filed under the right SIM, reconcile idempotent, the counted waits bring every operation to its end |
| `engine_atdial` | reconcile on atdial | violation: not idempotent |
| `job_safety` | 2 launches, 1 kill or failed write, 1 outside operation, 1 turn of waiting | one worker unless the lock was stolen; only harmed launches steal; acceptance is published; a reported death is real |
| `job_live` | 2 launches, 1 kill or failed write, no turn of waiting | every process of a launch ends |
| `view_documents` | 1 modem with 1 target, 2 refreshes at once, 2 events (modem, operation elsewhere, lost answer, press), a launch given up after 2 idle polls | a touched form is not drawn over; refreshes end; controls come back; hardware and results are shown |
| `view_controls` | 2 modems, 2 sections, every condition of the first, 1 operation under way, 1 move | offers are accepted, targets named, every connection is on its card, passwords cleared, Consent |
| `view_esim` | 1 endpoint, 2 profiles, 1 message, 1 press before and 1 operation elsewhere, 2 idle polls, 1 re-read | only the named profile goes; controls do not contradict the card; following ends; Consent |
| `view_unverified` | the same with 2 presses and nothing elsewhere | violation: an agreement outlives its attempt |
| `qr` | the real field; texts in versions 1, 2, 7, 16, 23 (level M) and 32, all 8 masks, blank symbols of all 40 versions; 1 to 95 damaged bytes, patterns made to hide from the syndromes | the text printed is read; function modules and blocks are the standard's, but for version 23; repairs go to the near codeword or are given up, but for an improper locator |

Every bound is a constant counted in `used`, `faults` or `spent`. Why they are enough: the
protocols compare a process with one other (an owner, a record's writer, a saved
profile), so two actors and a bystander meet in every combination; a second kill adds a
position that a single kill and a fresh process already reach; two access points and two
SIMs distinguish right from wrong; two candidates per SIM give a first, a next and a last.
The engine's waits are cut to one turn
(none for the preflight in `engine_trial`): each second is the same step, and a run with a
second turn only repeats it. The user edits the section in `engine_roaming`; the runs of the
trial and the shared lock do without, and what holds under an edit there is proved.
`MaxWait` stands for the five one-second turns of the handoff: time is not modelled, so a
process that turns once (or not at all) before it gives up meets every ordering that five
turns allow. The same goes for the page's `PollLimit` (five polls in the code) and
`Attempts` (six): what counts is that there is an answer before the limit and one at it. On
the page, one modem and one connection already let every read be older than another, and
the properties speak of one card at a time; where two cards may be confused (targets,
claims) `view_controls` has two of each; two profiles are what a plan for the wrong one
needs. In `view_documents` the engine is not polled during the first fill
(`PollWhileFilling`), which only `HardwareIsShown` and `ResultsAreShown` would see and
exempt; with it the run has four times the states and the same result. Deadlock is not
checked: all programs end, so a finished system stops, and a page may be left idle.
Symmetry is used in the safety runs of the engine and the jobs only.

The mutants in `PROJECT.json` are the forms kept in the modules under "Mutated form":
for each checked property a plausible mistake in the code that breaks it.

### Fairness

`LockFile`: contenders keep running and retry, an owner releases. `ApnEngine`: a
running engine keeps stepping, since every external command it runs has a watchdog
(`run_bounded_to_file`): fairness says that it takes its next step, and that its waits and
loops end is left to their counts, in the model as in the code (`OperationsEnd` fails
when a wait forgets to count); a Coordinator reaps its child and
releases. `JobLaunch`: each process that runs keeps running. `PageDocuments` and
`EsimPage`: LuCI's polls run as long as the page is open (every two and three seconds),
calls are answered or fail, operations of the router end (they are bounded by their
timeouts), and an endpoint is enumerated again. Nothing is assumed of the
environment: not that registration settles, that the user or the outside operation does
anything, that a launch's answer arrives, nor that a killed process is replaced. In
`LockFile` `Spawn` is not fair.

### Disagreements between code and documentation

Two are violation runs, quoted with their lines in `PROJECT.json`:

1. `engine_atdial`: the active record of an atdial target is not in the handler's words,
   so that every reconcile applies again.
2. `view_unverified`: "This applies to this one attempt only. Nothing is remembered" (page
   3442), but `downloadAllowUnverified` is reset only by sending the download. Agree to
   the downgrade of a failed download, cancel the form it reopens, and the next ordinary
   "Add a subscription" is sent with `allow_unverified`.

The others are visible as the exemptions of properties that hold, or were met while
modelling; none of them is checked by a run of its own.

- *Lock.* The comment at engine 343-345 promises mutual exclusion; a reclaimer may remove a
  new owner's lock (line 415). `ExclusiveUnlessEvicted` is what is left of it.
- *SIM read before the lock.* `apply` and `apply-manual` read the SIM before
  `acquire_lock` (engine 3509, 3554); a switch in between files a verified profile under
  the wrong SIM, against README.md 809 and 984. TLC shows it on `engine_shared` with
  `Commands = {"apply"}`; the commands of that run read the SIM under the lock, and for
  those commands the property is proved (`CacheIsFiledBySim`).
- *Rollback that cannot be written.* `restore_owned_profile` returns at the first failed
  uci call (498-503), before the `ifdown` of 505: the operation reports a roaming block and
  leaves the interface up. `RoamingBlockHolds` exempts it (`unwritten`).
- *Roaming block that stops nothing.* The preflight starts an interface to learn the
  registration (3215) and, when that turns out to be roaming, stops it only if
  `interface_is_up` (3232), which netifd denies of a pending one: the operation ends with
  status 2 and the interface started. So it does when the status call or the `ifdown` fails,
  here and at 505. `RoamingBlockHolds` exempts these (`unstopped`).
- *Success without a record.* `save_cache` and `save_active_state` may fail (3280, 3294); the
  engine warns (3487, 3489) and reports success, and the next reconcile tries again.
  `ReconcileIsIdempotent` exempts it (`unrecorded`).
- *Duplicate launch.* One that is refused the start lock before the other has written its
  record is answered neither accepted nor busy (2783); CHANGELOG.md 846-850 says that window
  is gone.
- *Refused launch.* `wait_action_handoff` kills whom it last read as the job (2759); a
  supervisor that hands over after that leaves a worker that runs although the answer was a
  refusal. It needs a launcher that reaches its deadline.
- *Jobs.* One worker at a time fails with three launches: a launcher that gives up reads
  the lock's owner and removes the lock in two calls (`hist.stolen`). And without `torn`,
  `DeathIsReal` fails: the next launch empties `state.tsv` before writing it, and an empty
  second look counts as an unchanged record.
- *Documents of the page.* Overlapping refreshes: the older one's documents land over the
  newer one's. The first fill writes statuses it read late into refreshed documents; hardware
  that changes before the first generation is read is not noticed ("a modem that is unplugged
  must stop being on screen", 5941). A refresh that read before a launch clears the
  `modemPollPending` the launch has set (5325 calls that flag what decides when it is over).
  A failed read of the inventory in a refresh leaves no modems until the next change. An
  operation elsewhere that is shorter than a poll is not noticed. A roaming form being edited
  keeps disabled controls disabled after the operation ("the only reason a control is ever
  disabled", 1133), and taking the edit back leaves them so until the next redraw (4475);
  `ControlsComeBack` exempts it. A poll that read before an operation began can clear
  `engineBusy` and `actionPollPending` over a refresh that knows of it; the redraw of that
  refresh would set them again, and when it is withheld the results of the operation are
  not read at its end ("A full document refresh is paid when an operation ends", 5744).
  `ResultsAreShown` exempts runs in which a redraw was withheld. Neither fits into two
  events: three are needed (an edit, a change, the edit taken back). The subject of a deep link is lost, as `normaliseRoute` first runs with no
  cards.
- *Forms.* A settings form asked for before the user turned to a roaming policy takes its
  place while the policy is being edited (5697): `FormIsKept` allows that.
- *Controls.* "Remove setup" is offered for a section recorded under an older identity and
  found by its path (modem 4259, 4330-4343, 4966-4971); `deprovision` looks by identity only
  (5272-5281) and refuses. `OffersAreAccepted` exempts it (`Rebound`); "the page never shows
  a button that is going to fail" is page 1053-1055. The interface of an ambiguous modem becomes a card
  that says "Hardware not present" (975-977). An interface that names the device of one modem
  and was recorded for another (modem 2339-2374) is on both their cards. An area stays pending for ever for a modem
  whose section the list of targets does not have (5978-5988). A card says "Not connected"
  while its status is unread or failed. Escape leaves the password typed by hand in its form
  (5416): `PasswordIsCleared` exempts it. Settling a manual launch closes whatever dialog is
  open.
- *eSIM.* While an operation is pending, a previous terminal document answers for it (4117-4129),
  so the modem's controls are offered again ("everything about that modem is busy while it
  runs", 1141). The end of another operation is taken for the page's own (3951-3983).
  `ensureEsimInventory` remembers a failure that its comment says is not (2020, 2040). An
  operation found running is followed with `follow: false`, though 2057-2059 says exactly as
  one started here. The countdown of a delete dialog that was replaced goes on. A dialog that
  replaces an open form leaves its fields. A picture decoded late fills the form that is open
  by then (3281).
- *QR, error correction.* An even number of equal byte errors leaves the first syndrome 0
  and is given up although correctable. Where the upper half of a block's syndromes is zero
  (six bytes of a 1-M symbol are enough), Euclid's locator is the constant 1: `decode` looks
  for no error (8201-8216) and gives the block out as it was read, and the symbol is read as
  *another text*, with nothing but the form of the text to stop it. The same with one error
  more than the locator finds. The `qr` run has one of each; `RepairsToNearestCodeword` exempts
  an evaluator that is not shorter than its locator (`Improper`), as these two are, and `RecoversText` speaks of no symbol that lost more than can be
  repaired.
- *QR, version 23.* The table has an alignment centre at 74 (8964), the standard at 78: 141 of
  the 1364 codewords of such a symbol are read from the wrong modules. At levels M, Q and H
  correction makes up for it; at level L a symbol of version 23 cannot be read, as TLC finds
  with `TwentyThree` at level 0. Nothing else of the table differs from the standard.
  `BlocksFitTheSymbol` exempts version 23.

## 4. The proofs

Every theorem holds for any values of the constants that satisfy the modules' assumptions
(types, and that markers such as `NoOwner` or `Nothing` are not what they mark), with no
bound on processes, launches, faults or presses. Each property was checked by TLC first,
and so were the strengthenings, as invariants over the same instances.

### LockFileProofs

- `TypeCorrect`, `ExclusionUnlessEviction` (`ExclusiveUnlessEvicted`),
  `EvictionIsStale` (`EvictionNeedsStaleObservation`).

`ExclusiveUnlessEvicted` is not inductive, as it does not say which file an owner's
claim rests on. `LockInv` adds that an owner not evicted is the one recorded, and that a
reclaimer about to remove judged a PID that is no live process. The second needs that a
number is not given out while some process holds a fresh observation of it, which is the
guard of `Spawn`. Reuse of a number that a file still records, which `lock_protocol`
leaves out because it defeats liveness, is covered.

### ApnEngineProofs

- `TypeCorrect`: `TypeOK` includes that a process's position fits its variables
  (`LocalOK`);
- `OperationsAreExclusive` (`OneOperation`), `OriginIsRecoverable` (`OriginRecoverable`);
- `EngineKeepsBaseline`: every behaviour without an orphaned child, and without an edit of
  the section under an operation, implements `Baseline`.

`OneOperation` needs to know whom the lock names: `HolderInv` (an unborrowed lock
records its holder, a borrower is the child the Coordinator waits for). Recoverability
needs to know what a rollback rests on: `TrialInv` (whoever works has the lock, a trial
has its rollback armed, an armed rollback has a baseline, reset past its first step has
the section equal to it). `EngineInv` is `TypeOK` and, until a child is orphaned, these
two with the contract's own invariant (the parts about the section until it is edited under
an operation). Most of the fifty-odd actions do not touch what
it speaks of: they are shown `Quiet` (one process moves along its script, keeping its
lock and rollback flags; section, baseline and lock unchanged), and `QuietSafe` treats
all of them at once. The rest are `LoudSteps`, treated one by one, with the world's own
steps in `Around`.

### EngineOutcomeProofs

What an operation leaves behind when it ends:

- `FailuresAreUndone` (`FailureRestoresProfile`), `BlocksHold` (`RoamingBlockHolds`),
  `PowerIsOwned` (`PowerOffIsOwned`);
- `SuccessIsRecorded` (`ReconcileIsIdempotent`), for every backend but atdial, where
  `engine_atdial` shows it false;
- `CacheIsFiledBySim` (`CacheBelongsToSim`), for commands that read the SIM under the
  lock. `apply` and `apply-manual` do not, and for them it is false (section 3).

All five speak of the last position before the lock is given back, and rest on one
invariant, `OutcomeInv`, over `EngineInv`. `Sound` says for each position what has been
done by then, in two halves. `Own` speaks of the process's own flags: a block is reported
only with the interface's restart disarmed, a success only with the rollback disarmed, the
restore flags only in the positions that set them. `Shared` speaks of the section, the
active record, the interface, the cache and the SIM: past the rollback the section is the
profile captured, a tried profile is the one configured, a recorded one is what the
section holds, an interface that was to be stopped is down or `unstopped` says that it is
not. It is claimed only of the holder of the lock, so that exclusion
(`OperationsAreExclusive`) lets each step be looked at as if nobody else ran; the parts about
the section (`RolledBack`, `Succeeded`) until the user edits it under the operation.
`PowerArmed` and `Cached` complete it. The world's steps (registration, the Coordinator,
`UserEdit`) are shown to leave the rest of the holder's half alone. Every stop, start and
record may fail in these theorems as in the code; each exemption (`unwritten`, `unstopped`,
`unrecorded`, `disturbed`, `orphaned`) is a case in which the code may leave something else. The proof found that `NoProfile` had to be assumed
different from every profile, and that `RoamingBlockHolds` fails when the rollback's write
fails, which the run had excluded; both are now stated.

### JobLaunchProofs

- `TypeCorrect`, `OneJobAtATime` (`OneJobUnlessStolen`), `TheftsAreHarmed`
  (`OnlyHarmedJobsSteal`), `AcceptanceIsPublication` (`AcceptedIsPublished`),
  `DeathsAreReal` (`DeathIsReal`);
- `LaunchesRunDown` (`RunsDown`), `LaunchesAreBounded` (`LaunchesAreShort`): the safety half
  of `LaunchesEnd`.

`JobInv` has layers, as a launch that goes wrong breaks some facts and not others. Always:
`Order` (which process exists and has done what when another is where it is), `Target` (the
process a launcher takes for its job), `Recorded` (the record is one its process wrote) and
`Watching` (what each caller has read of it, call by call). Until the lock is stolen:
`LockHeld`, who is between taking the lock and passing it on still owns it; a first theft
is then shown to be a harmed launch's. Until besides a harmed job has published:
`Unmistaken`, the record of a launch in flight is its own, and any other launcher that
looks is bound to find it busy. The two exemptions of the properties are the ends of the
second and the third layer.

`Left(j)` counts the steps the processes of a launch may still take. Every step of theirs
lowers it and nobody else's raises it (`RunsDown`): a launcher that looks again, a worker
whose write fails and tries again and the terms of `on_exit` go round only as often as
`tries`, `MaxWait` and `MaxFaults` let them. It starts at no more than 56 + 3 `MaxWait` + 4
`MaxFaults`, and a worker that waits without a bound waits for an engine that was born
(`LaunchesAreShort`). With the fairness of section 3 each launch ends.

### EsimPageProofs

- `TypeCorrect`, `NamedAreDeleted` (`OnlyNamedIsDeleted`), `ControlsFollowTheCard`
  (`ListsFollowTheCard`), `PageKeepsConsent` (`KeepsConsent`: `EsimPage` implements
  `Consent`), and the safety half of `ControlsComeBack`: `ControlsAreFollowed`,
  `FollowingEnds`.

`DeletionInv` follows a deletion from the press of Delete to the card. `WantedIsAsked`:
whatever may lead to a plan (a call, a dialog, the profile wanted, the poll that collects)
names a profile that was asked for. `Numbered`: plans carry the number of the operation
that made them, and no deletion on its way names one that has not begun, so that a plan
made later cannot be taken for it. `PlansAreNamed`: a deletion on its way that would find
its plan stored would delete what was asked for. `CardInv` relates the screen to the card.
`ListsAreRight`: for an endpoint the page is not blind to, what was read is what the card
holds, or it is `Due` to be read again. `ScreenIsRight`: what is drawn agrees, or is due, or
waits for the redraw that ends the poll. `Alone`: an operation that is followed is the only
one there is, or the page is blind to every card; without it the end of a second operation
would go unnoticed. For the refinement, what a dialog names is an operation whenever one is
open, which is `TypeOK`; each confirming action sends exactly that and closes the dialog.

A page that disables its controls must be sure of an end that enables them.
`ControlsAreFollowed`: whatever is disabled waits for an operation in `pending`, except after
a slot switch, which the page leaves to the coordinator's document. `FollowingEnds`: `Left`
counts the polls `pending` may still be waited for and the reads of the poll under way
(`Attempts` of the endpoint at most, each poll worth more than all its reads); every step of
the poll lowers it unless it finds an operation running, and nothing else raises it but an
operation that is sent or found. What is left to TLC is that the steps are taken and that an
operation which runs ends.

### PageControlsProofs

- `TypeCorrect`, `AcceptedIfOffered` (`OffersAreAccepted`), `SentIsNamed`
  (`TargetsAreNamed`), `CardsForAll` (`ConnectionsHaveCards`), `PasswordGoes`
  (`PasswordIsCleared`), `ControlsKeepConsent` (`KeepsConsent`: `PageControls` implements
  `Consent`).

The documents may be any mixture of what was read, failed or is not published, so what a
card offers is settled by them alone, with no invariant over time: `Offered` holds of every
control of any documents, area by area (`CardOffers`, `AreaOffers`), and says what a
control's verb and target are and that the coordinator those documents describe would accept
it. `OwnOrModems` is the same for the cards. From there a control is followed to the launch:
`NamedInv` says that what the open dialog would send, what the form was opened for, and
everything sent, name the target of its card; it is inductive with `TypeOK` because only a
control that is drawn opens a dialog. `PasswordIsCleared` is inductive with these. The
refinement is as for `EsimPage`. Neither the routers of the run (`Routers`) nor its bounds
are used, only that a router has its shape, that no interface has the empty name and that
`Nothing` is no operation, policy or form. The run gives each modem an interface of its
own; the proof found that `ConnectionsHaveCards`, which said *one card*, needs this, and
that the code does not see to it (section 3).

### PageDocumentsProofs

- `TypeCorrect` (`TypeOK`), `FormsAreKept` (`FormIsKept`);
- `ScreenShowsDocuments`, `ControlsAreOwed`, `HardwareIsOwed`, `HardwareGetsDrawn`,
  `ResultsAreOwed`, `ResultsGetDrawn`: the safety halves of the liveness properties.

`TypeOK` is inductive as it stands, once it says what a chain of reads knows at each point
(`ChainOK`: a chain that waits for a status waits for one of a listed target, which is among
those it has read when the answer lands), so that `FillStatus` and `Install` leave documents
where a status is there exactly if it was read. `actionPollCount` stays under the limit. It
is cut into what is drawn (`Pages`) and what is read (`Reads`), with one lemma for each helper
(`RenderOK`, `RedrawOK`, `AskOK`, `EndChainOK`, `RefreshOK`) used by the steps that call it.
`FormIsKept` then needs of each caller of `Redraw` that it passes `userEditing` on.

A liveness property of this page has two halves: *as long as something is missing on the
screen, something that will bring it is under way*, and *what is under way ends*. The
second is fairness and stays with TLC. The first is an invariant, and the one worth
proving, as the counterexamples of this module are all of its kind: a flag cleared by a
late answer, with nothing left to set it again. `ScreenIsCurrent` relates screen and
documents; `DisabledIsOwed` says that a disabled control has a poll, a chain, an unanswered
launch or a withheld redraw to bring it back. `HardwareOwed` says the same of the modems of
the router once generations are compared, and `ResultsOwed` of the last operation's result:
its disjuncts are the stages of that operation (unanswered, polled, ended but being read by
a chain that asked after the end, drawn as running by a chain that asked before). From each
follows what the screen shows when nothing is under way (`HardwareIsDrawn`,
`ResultsAreDrawn`). The number of events, chains and targets is not bounded; this is what
found the two exemptions for a withheld redraw (section 3), since the two events of
`view_documents` reach neither. TLC agreed with the invariants at three events (four million
states, and not kept as a run) before they were proved.

### QrDecoderProofs

- `FirstReadableIsRead`: for any pictures, the text given out is that of the first symbol
  that can be read, as it is or mirrored, the picture before its inverse; none is given out
  only if none can be read.
- `ReadingsAreSound`, `DamageGetsRepaired`: what a reading goes on with, along any run.
- `FormatIsRepaired`, `VersionIsRepaired`: a format or a version that lost at most three
  bits in each of its two copies is read as it was printed.
- `EveryModuleOnce`, `EveryCodewordOnce`.

The first is the refinement of the step by step decoder by a function of the picture. What
"can be read" means is composed of the same operators (`readVersion`, `getDataBlocks`,
`CorrectBlock`, `decodeData`), so it says nothing of what these compute. It says that the
fields a reading leaves behind (`version`, `format`, `blocks`, `bytes` are not reset by
`GiveUp`) never reach another reading, that no symbol is skipped, taken twice or read a
third time. `QrInv` says of each position which of these fields are this reading's
(`FoundInv`), and which symbols are behind it and could not be read (`LeftInv`).

The repairs rest on a lemma on tables (`NearestRepairs`): if its entries are pairwise at
least 2n + 1 apart, a word within n bits of one is nearest to that one and no other, where
the distance is shown to be a metric (`DifferenceIsMetric`). The distances of the two tables
are the assumptions above. Where codewords and modules go is arithmetic (`RowsAreApart`,
`RowsCover`: a number is one row and one column). `EveryModuleOnce` holds for every odd size,
`EveryCodewordOnce` for every version and level: between them no bit of the symbol is read
twice or left out before the blocks are corrected.

### Only model-checked

- Liveness: `StaleLockIsReclaimed`, `OperationsEnd`, `LaunchesEnd`, `ControlsComeBack`,
  `PageComesToRest`, `HardwareIsShown`, `ResultsAreShown`. The prover has no rule for
  `ENABLED` and fairness. Of the last two, of both `ControlsComeBack` and of `LaunchesEnd` the
  safety halves are proved.
- `RecoversText` and `RepairsToNearestCodeword`: the polynomials of the correction and the
  segments of a text are computed by recursion, and what a recursive definition computes for
  every input needs induction over data, which the installed provers cannot instantiate.
  (`QrStandard` computes by recursion too.)
- `BlocksFitTheSymbol`: it speaks of forty versions and four levels and of nothing else, and
  the `qr` run decides all of them; it would be a proof by evaluation.

## 5. Not modelled, and why

- Reads (`detect`, `status`, `capabilities`): they change nothing. Their interpretation
  of a recorded result is planned as operators.
- Wording, JSON and logs, except where a field decides what a caller does (`busy`).
- UCI's staging area: only committed configuration; a hazard records what this hides.
- The page's layout and texts, the fields and the picture of the download form, and the
  operations of the modem coordinator on the eSIM areas.
- Of jsQR the image side (binarisation, finder patterns, perspective) and the Shift-JIS
  table: floating-point geometry over pictures, and data.
- Real time: deadlines are choices, which includes every ratio of speeds.
- Several targets at once: one target per model. The fan-out is planned.
- The components marked `not_modelled` in `PROJECT.json`, each with its reason.

## 6. Plan

Done: A. `LockFile` with proofs; B. `ApnEngine` and `Baseline` with proofs; C. `JobLaunch`;
G. the page (`PageDocuments`, `PageControls`, `Consent`, `EsimPage`) and the QR decoder.

- **D. Around the engine.** Boot service retry loop (`apn-autoconfig-boot` 60-104) with
  the fan-out over targets (`auto_multi_dispatch`, engine 3831-3897): the loop ends, and
  one exit code stands for all with retryable over failed over blocked. `forget-target`,
  `reset-all` and the coordinator reset as further commands. The database updater:
  a failed install is rolled back, under the operation lock. Pure operators for
  `find_candidates` (1909-1958) and `classify_last_result` (3119-3191) against
  reference definitions over bounded inputs.
- **E. Modem coordinator.** A journal module (provision 4587, adopt 5076, release 5143,
  deprovision 5272: a transaction over UCI sections with crash points) refining an
  abstract ownership contract: *a section is changed only by its owner and given back as
  it was found*. A second module for reset (5675) and convergence (6198-6612): events
  are neither lost nor run twice, and no operation is taken with a marker held.
- **F. eSIM manager.** The four-level lock order (1010-1045) with the engine's and the
  modem's acquisitions as an abstract deadlock-freedom theorem; takeover and inhibit;
  switch with rollback (7226-7240) refining *wanted or previous profile*; delete
  plan/confirm (8197-8443), where a plan is consumed once and only for the state it was
  made of; notifications.
- **H. Edges.** The AT-dial handler, adapters, lpac runner.

Theorems to come: the ownership contract and the switch contract of E and F as refinements,
with the modules themselves; the freedom from deadlock of the eSIM manager's lock order.
