------------------------------ MODULE JobLaunch -----------------------------
(***************************************************************************)
(* Background jobs of the engine: `action-start' takes the start lock,     *)
(* writes a "starting" record and hands the lock to a detached worker      *)
(* through a short-lived supervisor; the worker runs an engine operation   *)
(* and publishes its result; `action-status' tells a caller what it sees.  *)
(* Launchers, supervisors, workers and engines interleave between any two  *)
(* file or kill(2) calls and may be killed.  Taking either lock is one     *)
(* step here (module LockFile opens it up).                                *)
(***************************************************************************)
EXTENDS Naturals

CONSTANTS
    Job,       \* launches: one `action-start' each, with what it leads to
    NoPid,     \* an absent lock
    External,  \* an operation started outside the job API
    MaxWait,   \* turns either side waits for the handoff (5 in the code)
    MaxFaults, \* bound on SIGKILLs from outside and failed writes
    MaxOutside \* bound on operations started outside the job API

Launcher(j) == <<"launcher", j>>
Supervisor(j) == <<"supervisor", j>>
Worker(j) == <<"worker", j>>
Engine(j) == <<"engine", j>>

OfJob == {"launcher", "supervisor", "worker", "engine"} \X Job
Caller == {Launcher(j) : j \in Job}

ASSUME JobAssumption ==
    /\ {MaxWait, MaxFaults, MaxOutside} \subseteq Nat
    /\ NoPid \notin OfJob \cup {External} /\ External \notin OfJob

VARIABLES
    startLock, \* the owner recorded in <state>.start-lock
    opLock,    \* the owner of the operation lock
    record,    \* state.tsv: its status, and the process and job that wrote it
    pc,        \* where each process is; "none" unborn, "exited" gone
    st,        \* action_status_values of each launcher
    jobPid,    \* job_pid of each launcher
    waited,    \* turns a launcher or worker has waited
    answer,    \* what each launch was answered
    used,      \* what has been spent of each bound
    hist       \* history: jobs published, jobs harmed, start lock stolen

locks == <<startLock, opLock>>
vars == <<locks, record, pc, st, jobPid, waited, answer, used, hist>>

Alive(x) == IF x = External THEN TRUE
            ELSE x \in OfJob /\ pc[x] \notin {"none", "exited"}

NoRecord == [status |-> "absent", pid |-> NoPid, by |-> NoPid]
Record(s, x) == [status |-> s, pid |-> x, by |-> x[2]]

Pending(r) == r.status \in {"starting", "running"}
Finished(r) == r.status \in {"done", "interrupted"}

NoStatus == [for |-> "print", line |-> NoRecord, handoff |-> NoPid, tries |-> 0,
             torn |-> FALSE, says |-> "idle"]

Init ==
    /\ startLock = NoPid /\ opLock = NoPid
    /\ record = NoRecord
    /\ pc = [x \in OfJob |-> IF x[1] = "launcher" THEN "idle" ELSE "none"]
    /\ st = [c \in Caller |-> NoStatus]
    /\ jobPid = [j \in Job |-> NoPid]
    /\ waited = [x \in OfJob |-> 0]
    /\ answer = [j \in Job |-> "none"]
    /\ used = [faults |-> 0, outside |-> 0]
    /\ hist = [published |-> {}, harmed |-> {}, stolen |-> FALSE]

To(x, l) == pc' = [pc EXCEPT ![x] = l]

\* The lock's owner is another live process than x.
Anothers(x) == startLock # x /\ Alive(startLock)

\* history: the lock changes hands against its live owner's will.
Steal(theft) == hist' = [hist EXCEPT !.stolen = @ \/ theft]
-----------------------------------------------------------------------------
(* action_status_values: a snapshot of the record, judged call by call.    *)
(* A launcher that is turned away runs it as any reader of the status does. *)

\* A caller's status record after reading line r; a pending one is judged on.
Judge(c, s, r) ==
    IF Pending(r)
      THEN /\ st' = [st EXCEPT ![c] = [s EXCEPT !.line = r]]
           /\ To(c, "owner?")
      ELSE /\ st' = [st EXCEPT ![c] = [s EXCEPT !.line = r,
                         !.says = IF Finished(r) THEN "finished" ELSE "idle"]]
           /\ To(c, "operation?")

Say(c, s, word, next) ==
    /\ st' = [st EXCEPT ![c] = [s EXCEPT !.says = word]]
    /\ To(c, next)

ReadRecord(c) ==
    /\ pc[c] = "record?"
    /\ Judge(c, [NoStatus EXCEPT !.for = st[c].for], record)
    /\ UNCHANGED <<locks, record, jobPid, waited, answer, used, hist>>

\* handoff_pid; the caller's own start lock does not count.
ReadHandoff(c) ==
    /\ pc[c] = "owner?"
    /\ st' = [st EXCEPT ![c].handoff = IF startLock = c THEN NoPid ELSE startLock]
    /\ To(c, "pid?")
    /\ UNCHANGED <<locks, record, jobPid, waited, answer, used, hist>>

CheckPid(c) ==
    /\ pc[c] = "pid?"
    /\ IF Alive(st[c].line.pid) THEN Say(c, st[c], "busy", "told")
       ELSE To(c, "handoff?") /\ UNCHANGED st
    /\ UNCHANGED <<locks, record, jobPid, waited, answer, used, hist>>

CheckHandoff(c) ==
    /\ pc[c] = "handoff?"
    /\ IF Alive(st[c].handoff) THEN Say(c, st[c], "busy", "told")
       ELSE To(c, "again?") /\ UNCHANGED st
    /\ UNCHANGED <<locks, record, jobPid, waited, answer, used, hist>>

\* Mutated form: a dead process is believed without a second look.
BelieveDeath(c) ==
    /\ pc[c] = "again?"
    /\ Say(c, st[c], "died", "operation?")
    /\ UNCHANGED <<locks, record, jobPid, waited, answer, used, hist>>

\* status_latest: a record that changed meanwhile is judged afresh, thrice at
\* most; an empty one (being rewritten) counts as unchanged.
ReadAgain(c) ==
    /\ pc[c] = "again?"
    /\ IF record.status # "absent" /\ record # st[c].line
         THEN IF st[c].tries < 2
                THEN Judge(c, [st[c] EXCEPT !.tries = @ + 1], record)
                ELSE Say(c, st[c], "busy", "told")
         ELSE Say(c, [st[c] EXCEPT !.torn = record.status = "absent"], "died", "operation?")
    /\ UNCHANGED <<locks, record, jobPid, waited, answer, used, hist>>

\* operation_lock_pid: a live owner makes anything but a live job "external".
CheckOperation(c) ==
    /\ pc[c] = "operation?"
    /\ Say(c, st[c], IF Alive(opLock) THEN "external" ELSE st[c].says, "told")
    /\ UNCHANGED <<locks, record, jobPid, waited, answer, used, hist>>

Busy(c) == st[c].says \in {"busy", "external"}

Status(c) == \/ ReadRecord(c) \/ ReadHandoff(c) \/ CheckPid(c) \/ CheckHandoff(c)
             \/ ReadAgain(c) \/ CheckOperation(c)
-----------------------------------------------------------------------------
(* action_start_cmd and wait_action_handoff *)

Launch(j) ==
    /\ pc[Launcher(j)] = "idle"
    /\ To(Launcher(j), "lock")
    /\ UNCHANGED <<locks, record, st, jobPid, waited, answer, used, hist>>

\* A live owner turns the launch away with print_action_json false.
AcquireStartLock(j) ==
    /\ pc[Launcher(j)] = "lock"
    /\ IF Alive(startLock)
         THEN UNCHANGED <<startLock, st>>
         ELSE /\ startLock' = Launcher(j)
              /\ st' = [st EXCEPT ![Launcher(j)].for = "check"]
    /\ To(Launcher(j), "record?")
    /\ UNCHANGED <<opLock, record, jobPid, waited, answer, used, hist>>

\* A busy engine turns it away too: the lock goes, and the status is read anew
\* for the answer.
TurnAway(j) ==
    /\ pc[Launcher(j)] = "told" /\ st[Launcher(j)].for = "check"
    /\ Busy(Launcher(j))
    /\ startLock' = NoPid
    /\ Steal(Anothers(Launcher(j)))
    /\ st' = [st EXCEPT ![Launcher(j)] = NoStatus]
    /\ To(Launcher(j), "record?")
    /\ UNCHANGED <<opLock, record, jobPid, waited, answer, used>>

\* print_action_json false: what a turned-away caller is told.
AnswerFalse(j) ==
    /\ pc[Launcher(j)] = "told" /\ st[Launcher(j)].for = "print"
    /\ answer' = [answer EXCEPT ![j] = IF Busy(Launcher(j)) THEN "busy" ELSE "rejected"]
    /\ To(Launcher(j), "exited")
    /\ UNCHANGED <<locks, record, st, jobPid, waited, used, hist>>

\* printf ... >state.tsv: the redirection empties the file first.
TruncateRecord(j) ==
    /\ pc[Launcher(j)] = "told" /\ st[Launcher(j)].for = "check"
    /\ ~Busy(Launcher(j))
    /\ record' = NoRecord
    /\ To(Launcher(j), "starting")
    /\ UNCHANGED <<locks, st, jobPid, waited, answer, used, hist>>

WriteStarting(j) ==
    /\ pc[Launcher(j)] = "starting"
    /\ record' = Record("starting", Launcher(j))
    /\ To(Launcher(j), "spawn")
    /\ UNCHANGED <<locks, st, jobPid, waited, answer, used, hist>>

SpawnSupervisor(j) ==
    /\ pc[Launcher(j)] = "spawn"
    /\ pc' = [pc EXCEPT ![Launcher(j)] = "owner", ![Supervisor(j)] = "fork"]
    /\ jobPid' = [jobPid EXCEPT ![j] = Supervisor(j)]
    /\ UNCHANGED <<locks, record, st, waited, answer, used, hist>>

\* Whoever else owns the lock by now is the job.
ReadOwner(j) ==
    /\ pc[Launcher(j)] = "owner"
    /\ jobPid' = [jobPid EXCEPT ![j] =
                    IF startLock \in {NoPid, Launcher(j)} THEN @ ELSE startLock]
    /\ To(Launcher(j), "acknowledged?")
    /\ UNCHANGED <<locks, record, st, waited, answer, used, hist>>

\* Mutated form: the lock having been handed over is taken for a running job.
HandedOver(j) == startLock = Worker(j)

\* A record that is not ours and no "starting" one acknowledges the launch.
Acknowledged(j) == record.status \in {"running", "done", "interrupted"} /\ record.pid # Launcher(j)

Accept(j) ==
    /\ answer' = [answer EXCEPT ![j] = "accepted"]
    /\ To(Launcher(j), "exited")

\* Mutated form: the launcher drops the lock instead of leaving it to the worker.
DropLockOnAccept(j) ==
    /\ pc[Launcher(j)] = "acknowledged?"
    /\ Acknowledged(j)
    /\ Accept(j)
    /\ startLock' = NoPid
    /\ Steal(Anothers(Launcher(j)))
    /\ UNCHANGED <<opLock, record, st, jobPid, waited, used>>

AwaitAcknowledgment(j) ==
    /\ pc[Launcher(j)] = "acknowledged?"
    /\ \/ Acknowledged(j) /\ Accept(j) /\ UNCHANGED waited
       \/ /\ ~Acknowledged(j) /\ waited[Launcher(j)] < MaxWait
          /\ waited' = [waited EXCEPT ![Launcher(j)] = @ + 1]
          /\ To(Launcher(j), "owner")
          /\ UNCHANGED answer
       \/ /\ ~Acknowledged(j) /\ waited[Launcher(j)] = MaxWait
          /\ To(Launcher(j), "term")
          /\ UNCHANGED <<answer, waited>>
    /\ UNCHANGED <<locks, record, st, jobPid, used, hist>>

\* Where TERM leaves a process: a worker past its trap runs on_signal, an engine
\* that holds the operation lock on_exit; anything else just ends.
AfterTerm(x) ==
    IF ~Alive(x) THEN pc[x]
    ELSE IF x[1] = "worker" /\ pc[x] # "handoff"
      THEN IF pc[x] \in {"signalled", "reap", "interrupted", "clean143", "remove143"}
           THEN pc[x] ELSE "signalled"
    ELSE IF x[1] = "engine" /\ pc[x] \in {"work", "unwind"} THEN "unwind" ELSE "exited"

\* kill -TERM "$job_pid", then kill -KILL, and the child is reaped.  By now the
\* lock's owner, and so the process killed, may belong to the next launch.
TermJob(j) ==
    /\ pc[Launcher(j)] = "term"
    /\ pc' = [pc EXCEPT ![Launcher(j)] = "kill", ![jobPid[j]] = AfterTerm(jobPid[j])]
    /\ hist' = [hist EXCEPT !.harmed = @ \cup {j, jobPid[j][2]}]
    /\ UNCHANGED <<locks, record, st, jobPid, waited, answer, used>>

KillJob(j) ==
    /\ pc[Launcher(j)] = "kill"
    /\ pc' = [pc EXCEPT ![Launcher(j)] = "owner-again", ![jobPid[j]] = "exited"]
    /\ UNCHANGED <<locks, record, st, jobPid, waited, answer, used, hist>>

ReadOwnerAgain(j) ==
    /\ pc[Launcher(j)] = "owner-again"
    /\ To(Launcher(j), IF startLock \in {jobPid[j], Launcher(j)} THEN "unlock" ELSE "recheck")
    /\ UNCHANGED <<locks, record, st, jobPid, waited, answer, used, hist>>

\* lock_release: the file that is there now.
ReleaseStartLock(j) ==
    /\ pc[Launcher(j)] = "unlock"
    /\ startLock' = NoPid
    /\ Steal(Anothers(Launcher(j)))
    /\ To(Launcher(j), "recheck")
    /\ UNCHANGED <<opLock, record, st, jobPid, waited, answer, used>>

\* A last look for this very job's record; without one the exit status is 3.
\* The code knows its record by operation, target and second of the launch:
\* two launches are taken to differ in one of them.
Recheck(j) ==
    /\ pc[Launcher(j)] = "recheck"
    /\ IF Acknowledged(j) /\ record.by = j
         THEN Accept(j)
         ELSE /\ answer' = [answer EXCEPT ![j] = "refused"]
              /\ To(Launcher(j), "exited")
    /\ UNCHANGED <<locks, record, st, jobPid, waited, used, hist>>

Start(j) ==
    \/ Launch(j) \/ AcquireStartLock(j) \/ TurnAway(j) \/ AnswerFalse(j)
    \/ TruncateRecord(j) \/ WriteStarting(j) \/ SpawnSupervisor(j)
    \/ ReadOwner(j) \/ AwaitAcknowledgment(j) \/ TermJob(j) \/ KillJob(j)
    \/ ReadOwnerAgain(j) \/ ReleaseStartLock(j) \/ Recheck(j)
-----------------------------------------------------------------------------
(* The supervisor and the worker: apn-autoconfig-action *)

ForkWorker(j) ==
    /\ pc[Supervisor(j)] = "fork"
    /\ pc' = [pc EXCEPT ![Supervisor(j)] = "handover", ![Worker(j)] = "handoff"]
    /\ UNCHANGED <<locks, record, st, jobPid, waited, answer, used, hist>>

\* mv "$handoff_tmp" "$START_LOCK": whatever lock is there.
HandOver(j) ==
    /\ pc[Supervisor(j)] = "handover"
    /\ startLock' = Worker(j)
    /\ Steal(Anothers(Launcher(j)))
    /\ To(Supervisor(j), "exited")
    /\ UNCHANGED <<opLock, record, st, jobPid, waited, answer, used>>

\* Mutated form: the worker does not wait for its lock.
BeginAtOnce(j) ==
    /\ pc[Worker(j)] = "handoff"
    /\ To(Worker(j), "publish")
    /\ UNCHANGED <<locks, record, st, jobPid, waited, answer, used, hist>>

\* Mutated form: it waits for as long as it takes.
WaitForEver(j) ==
    /\ pc[Worker(j)] = "handoff"
    /\ startLock = Worker(j)
    /\ To(Worker(j), "publish")
    /\ UNCHANGED <<locks, record, st, jobPid, waited, answer, used, hist>>

\* Mutated form: one turn more than the bound.
WaitOneMore(j) ==
    /\ pc[Worker(j)] = "handoff"
    /\ \/ startLock = Worker(j) /\ To(Worker(j), "publish") /\ UNCHANGED waited
       \/ /\ startLock # Worker(j) /\ waited[Worker(j)] <= MaxWait
          /\ waited' = [waited EXCEPT ![Worker(j)] = @ + 1]
          /\ UNCHANGED pc
    /\ UNCHANGED <<locks, record, st, jobPid, answer, used, hist>>

\* wait_start_lock_handoff, before any trap is set.
AwaitHandoff(j) ==
    /\ pc[Worker(j)] = "handoff"
    /\ \/ startLock = Worker(j) /\ To(Worker(j), "publish") /\ UNCHANGED waited
       \/ /\ startLock # Worker(j) /\ waited[Worker(j)] < MaxWait
          /\ waited' = [waited EXCEPT ![Worker(j)] = @ + 1]
          /\ UNCHANGED pc
       \/ /\ startLock # Worker(j) /\ waited[Worker(j)] = MaxWait
          /\ To(Worker(j), "exited") /\ UNCHANGED waited
    /\ UNCHANGED <<locks, record, st, jobPid, answer, used, hist>>

\* write_state: a rename, so the record is replaced whole.
WriteRunning(j) ==
    /\ pc[Worker(j)] = "publish"
    /\ record' = Record("running", Worker(j))
    /\ hist' = [hist EXCEPT !.published = @ \cup {j}]
    /\ To(Worker(j), "run")
    /\ UNCHANGED <<locks, st, jobPid, waited, answer, used>>

RunEngine(j) ==
    /\ pc[Worker(j)] = "run"
    /\ pc' = [pc EXCEPT ![Worker(j)] = "wait", ![Engine(j)] = "lock"]
    /\ UNCHANGED <<locks, record, st, jobPid, waited, answer, used, hist>>

AwaitEngine(j) ==
    /\ pc[Worker(j)] = "wait"
    /\ pc[Engine(j)] = "exited"
    /\ To(Worker(j), "finish")
    /\ UNCHANGED <<locks, record, st, jobPid, waited, answer, used, hist>>

\* The terminal record: success, blocked, retryable or failed.
WriteResult(j) ==
    /\ pc[Worker(j)] = "finish"
    /\ record' = Record("done", Worker(j))
    /\ To(Worker(j), "clean")
    /\ UNCHANGED <<locks, st, jobPid, waited, answer, used, hist>>

\* cleanup_start_lock: read, then remove; a second trap is not taken.
CheckOwnLock(j) ==
    /\ pc[Worker(j)] \in {"clean", "clean143"}
    /\ To(Worker(j), IF startLock # Worker(j) THEN "exited"
                     ELSE IF pc[Worker(j)] = "clean" THEN "remove" ELSE "remove143")
    /\ UNCHANGED <<locks, record, st, jobPid, waited, answer, used, hist>>

RemoveOwnLock(j) ==
    /\ pc[Worker(j)] \in {"remove", "remove143"}
    /\ startLock' = NoPid
    /\ Steal(Anothers(Worker(j)))
    /\ To(Worker(j), "exited")
    /\ UNCHANGED <<opLock, record, st, jobPid, waited, answer, used>>

\* on_signal: the engine is told to stop and waited for, the record says 143.
TermEngine(j) ==
    /\ pc[Worker(j)] = "signalled"
    /\ pc' = [pc EXCEPT ![Engine(j)] = AfterTerm(Engine(j)),
                        ![Worker(j)] = IF Alive(Engine(j)) THEN "reap" ELSE "interrupted"]
    /\ UNCHANGED <<locks, record, st, jobPid, waited, answer, used, hist>>

ReapEngine(j) ==
    /\ pc[Worker(j)] = "reap"
    /\ ~Alive(Engine(j))
    /\ To(Worker(j), "interrupted")
    /\ UNCHANGED <<locks, record, st, jobPid, waited, answer, used, hist>>

WriteInterrupted(j) ==
    /\ pc[Worker(j)] = "interrupted"
    /\ record' = Record("interrupted", Worker(j))
    /\ hist' = [hist EXCEPT !.published = @ \cup {j}]
    /\ To(Worker(j), "clean143")
    /\ UNCHANGED <<locks, st, jobPid, waited, answer, used>>

Work(j) ==
    \/ ForkWorker(j) \/ HandOver(j)
    \/ AwaitHandoff(j) \/ WriteRunning(j) \/ RunEngine(j) \/ AwaitEngine(j)
    \/ WriteResult(j) \/ CheckOwnLock(j) \/ RemoveOwnLock(j)
    \/ TermEngine(j) \/ ReapEngine(j) \/ WriteInterrupted(j)
-----------------------------------------------------------------------------
(* The engine's operation, the operations started elsewhere, and faults    *)

\* acquire_lock, or exit status 3.
AcquireLock(j) ==
    /\ pc[Engine(j)] = "lock"
    /\ IF Alive(opLock) THEN To(Engine(j), "exited") /\ UNCHANGED opLock
       ELSE To(Engine(j), "work") /\ opLock' = Engine(j)
    /\ UNCHANGED <<startLock, record, st, jobPid, waited, answer, used, hist>>

\* on_exit, after the operation or after TERM.
EndOperation(j) ==
    /\ pc[Engine(j)] \in {"work", "unwind"}
    /\ opLock' = NoPid
    /\ To(Engine(j), "exited")
    /\ UNCHANGED <<startLock, record, st, jobPid, waited, answer, used, hist>>

Operate(j) == AcquireLock(j) \/ EndOperation(j)

ExternalOperation ==
    /\ \/ /\ ~Alive(opLock) /\ used.outside < MaxOutside
          /\ opLock' = External
          /\ used' = [used EXCEPT !.outside = @ + 1]
       \/ opLock = External /\ opLock' = NoPid /\ UNCHANGED used
    /\ UNCHANGED <<startLock, record, pc, st, jobPid, waited, answer, hist>>

Fault(j) ==
    /\ used.faults < MaxFaults
    /\ used' = [used EXCEPT !.faults = @ + 1]
    /\ hist' = [hist EXCEPT !.harmed = @ \cup {j}]

\* SIGKILL from outside.
Kill(j) ==
    /\ Fault(j)
    /\ \E x \in {Launcher(j), Supervisor(j), Worker(j), Engine(j)} :
         Alive(x) /\ pc[x] # "idle" /\ To(x, "exited")
    /\ UNCHANGED <<locks, record, st, jobPid, waited, answer>>

\* A supervisor that cannot write the lock stops its worker; a worker that
\* cannot write its record exits, and the exit trap lets go of the lock.
CannotWrite(j) ==
    /\ Fault(j)
    /\ \/ /\ pc[Supervisor(j)] = "handover"
          /\ pc' = [pc EXCEPT ![Supervisor(j)] = "exited",
                              ![Worker(j)] = AfterTerm(Worker(j))]
       \/ /\ pc[Worker(j)] \in {"publish", "finish", "interrupted"}
          /\ To(Worker(j), "clean")
    /\ UNCHANGED <<locks, record, st, jobPid, waited, answer>>

Next ==
    \/ \E j \in Job : \/ Start(j) \/ Work(j) \/ Operate(j)
                      \/ Kill(j) \/ CannotWrite(j)
    \/ \E c \in Caller : Status(c)
    \/ ExternalOperation

Spec == Init /\ [][Next]_vars

\* Each process that runs goes on running.
Fairness ==
    \A j \in Job : /\ WF_vars(Start(j) \/ Status(Launcher(j)))
                   /\ WF_vars(Work(j))
                   /\ WF_vars(Operate(j))

FairSpec == Spec /\ Fairness
-----------------------------------------------------------------------------
(* Properties *)

Statuses == {"idle", "finished", "busy", "died", "external"}

\* What the start lock may name, and what a launcher may take for its job.
Owners == {Launcher(j) : j \in Job} \cup {Worker(j) : j \in Job}
Pids == Owners \cup {Supervisor(j) : j \in Job}

Records == {NoRecord}
           \cup {Record("starting", Launcher(j)) : j \in Job}
           \cup {Record(s, Worker(j)) : s \in {"running", "done", "interrupted"}, j \in Job}

LauncherPC == {"idle", "lock", "record?", "owner?", "pid?", "handoff?", "again?", "operation?",
               "told", "starting", "spawn", "owner", "acknowledged?", "term", "kill",
               "owner-again", "unlock", "recheck", "exited"}
SupervisorPC == {"none", "fork", "handover", "exited"}
WorkerPC == {"none", "handoff", "publish", "run", "wait", "finish", "signalled", "reap",
             "interrupted", "clean", "clean143", "remove", "remove143", "exited"}
EnginePC == {"none", "lock", "work", "unwind", "exited"}
PC == LauncherPC \cup SupervisorPC \cup WorkerPC \cup EnginePC

PCOf(x) == IF x[1] = "launcher" THEN LauncherPC ELSE IF x[1] = "supervisor" THEN SupervisorPC
           ELSE IF x[1] = "worker" THEN WorkerPC ELSE EnginePC

Positions == pc \in [OfJob -> PC] /\ \A x \in OfJob : pc[x] \in PCOf(x)

Readings == [for : {"print", "check"}, line : Records, handoff : Owners \cup {NoPid},
             tries : 0..2, torn : BOOLEAN, says : Statuses]

TypeOK ==
    /\ startLock \in Owners \cup {NoPid}
    /\ opLock \in {Engine(j) : j \in Job} \cup {NoPid, External}
    /\ record \in Records
    /\ Positions
    /\ st \in [Caller -> Readings]
    /\ jobPid \in [Job -> Pids \cup {NoPid}]
    /\ waited \in [OfJob -> 0..MaxWait]
    /\ answer \in [Job -> {"none", "accepted", "busy", "rejected", "refused"}]
    /\ used \in [faults : 0..MaxFaults, outside : 0..MaxOutside]
    /\ hist \in [published : SUBSET Job, harmed : SUBSET Job, stolen : BOOLEAN]

\* The worker of j has published and not yet concluded.
Working(j) == pc[Worker(j)] \in {"run", "wait", "finish", "signalled", "reap", "interrupted"}

\* Two concurrent action-start calls never leave two workers at work.
OneJob == \A i, j \in Job : Working(i) /\ Working(j) => i = j

\* ... unless the start lock was taken from a live owner: by the supervisor of
\* a launcher that was killed, or by a launcher that gave up on its job.
OneJobUnlessStolen == hist.stolen \/ OneJob

\* What takes the lock from a live owner, and nothing else: the work of a
\* launch that was itself killed, failed or given up.
OnlyHarmedJobsSteal ==
    [][hist'.stolen /\ ~hist.stolen =>
        \E j \in hist.harmed : Start(j) \/ HandOver(j) \/ RemoveOwnLock(j)]_vars

\* An accepted launch is one whose worker has published a record of its own,
\* unless the start lock was stolen, or a job that was killed or given up has
\* published regardless and its record was taken for this job's.
AcceptedIsPublished ==
    \A j \in Job : answer[j] = "accepted" =>
        j \in hist.published \/ hist.stolen \/ hist.published \cap hist.harmed # {}

\* A status says that a job's process stopped unexpectedly only of a job that
\* was killed or given up, or when the record was being rewritten.
DeathIsReal ==
    \A c \in Caller :
        pc[c] = "told" /\ st[c].says = "died"
            => st[c].line.by \in hist.harmed \/ st[c].torn

\* Nobody waits for ever: every process of a launch ends.
Running(j) ==
    \E x \in {Launcher(j), Supervisor(j), Worker(j), Engine(j)} : Alive(x) /\ pc[x] # "idle"

LaunchesEnd == \A j \in Job : Running(j) ~> ~Running(j)
=============================================================================
