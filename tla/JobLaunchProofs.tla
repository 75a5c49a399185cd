--------------------------- MODULE JobLaunchProofs --------------------------
(***************************************************************************)
(* Proofs about background jobs, for any number of launches, waits and     *)
(* faults.                                                                 *)
(*                                                                         *)
(* The invariant has three layers.  Order and Watching hold always: what   *)
(* has been started, written and seen.  LockHeld holds until the start     *)
(* lock is stolen: whoever is between taking the lock and passing it on    *)
(* still owns it.  Unmistaken holds until a harmed job has published too:  *)
(* a launch in flight finds its own record, and turns every other away.    *)
(***************************************************************************)
EXTENDS JobLaunch, TLAPS

\* A launcher that has started its supervisor; one that has given up on it.
GivenUp == {"kill", "owner-again", "unlock", "recheck"}
Launched == {"owner", "acknowledged?", "term", "exited"} \cup GivenUp

\* A worker that has the lock; one that was told to stop.
Interrupted == {"signalled", "reap", "interrupted", "clean143", "remove143"}
HasLock == {"publish", "run", "wait", "finish", "clean", "remove"} \cup Interrupted

\* What each process has done, and the lock, the record and the history say so.
OrderOf(j) ==
    /\ pc[Launcher(j)] \in {"idle", "lock"} => st[Launcher(j)].for = "print"
    /\ pc[Supervisor(j)] # "none" => pc[Launcher(j)] \in Launched
    /\ pc[Launcher(j)] \in Launched \ {"exited"} => pc[Supervisor(j)] # "none"
    /\ pc[Supervisor(j)] \in {"none", "fork"} => pc[Worker(j)] = "none"
    /\ pc[Supervisor(j)] = "handover" => pc[Worker(j)] # "none"
    /\ pc[Worker(j)] \in HasLock => pc[Supervisor(j)] = "exited"
    /\ startLock = Worker(j) => pc[Supervisor(j)] = "exited" /\ pc[Worker(j)] # "none"
    /\ j \in hist.published => pc[Supervisor(j)] = "exited" /\ pc[Worker(j)] # "none"
    /\ pc[Worker(j)] \in {"run", "wait", "finish"} => j \in hist.published
    /\ pc[Worker(j)] \in Interrupted => j \in hist.harmed
    /\ pc[Launcher(j)] \in GivenUp => j \in hist.harmed

Order == \A j \in Job : OrderOf(j)

\* The process a launcher takes for its job exists, and is not the launcher.
Target ==
    \A j \in Job :
        /\ pc[Launcher(j)] \in Launched \ {"exited"} => jobPid[j] \in Pids \ {Launcher(j)}
        /\ pc[Launcher(j)] = "kill" => jobPid[j][2] \in hist.harmed
        /\ \A k \in Job : /\ jobPid[j] = Supervisor(k) => k = j
                          /\ jobPid[j] = Worker(k) => pc[Supervisor(k)] = "exited" /\ pc[Worker(k)] # "none"

\* The record is one its process wrote, and only harm parts the two.
Recorded ==
    /\ record.status = "starting" =>
         /\ pc[record.pid] \in {"spawn"} \cup Launched
         /\ pc[record.pid] = "exited" => record.by \in hist.harmed
    /\ record.status \in {"running", "done", "interrupted"} => record.by \in hist.published
    /\ record.status = "running" =>
         pc[record.pid] \in {"run", "wait", "finish"} \/ record.by \in hist.harmed

\* What a caller has read of it, call by call.
WatchingOf(c) ==
    /\ st[c].line.status \in {"running", "done", "interrupted"} => st[c].line.by \in hist.published
    /\ pc[c] \in {"owner?", "pid?", "handoff?", "again?"} => Pending(st[c].line)
    /\ pc[c] \in {"handoff?", "again?"} => pc[st[c].line.pid] = "exited"
    /\ pc[c] \in {"operation?", "told"} /\ st[c].says = "died" =>
         st[c].line.by \in hist.harmed \/ st[c].torn

Watching == \A c \in Caller : WatchingOf(c)

\* A launcher that took the lock and has not yet passed it on.
Looking(j) == /\ pc[Launcher(j)] \in {"record?", "owner?", "pid?", "handoff?", "again?",
                                      "operation?", "told"}
              /\ st[Launcher(j)].for = "check"
Checking(j) == Looking(j) \/ pc[Launcher(j)] = "starting"
Waiting == {"spawn", "owner", "acknowledged?", "term"}

LockHeldOf(j) ==
    /\ pc[Worker(j)] \in HasLock => startLock = Worker(j)
    /\ Checking(j) \/ pc[Launcher(j)] = "spawn" => startLock = Launcher(j)
    /\ pc[Supervisor(j)] \in {"fork", "handover"} /\ j \notin hist.harmed =>
         startLock = Launcher(j) /\ pc[Launcher(j)] \in Waiting
    /\ startLock = Launcher(j) /\ pc[Launcher(j)] \in Waiting =>
         record = Record("starting", Launcher(j))

LockHeld == \A j \in Job : LockHeldOf(j)

\* A launch that has written its first record and whose worker has not.
InFlight(j) == pc[Launcher(j)] \in Waiting /\ j \notin hist.published

\* A launcher that looks while j is in flight is bound to find it busy.
FindsBusy(i, j) ==
    \/ pc[Launcher(i)] = "record?"
    \/ pc[Launcher(i)] \in {"owner?", "pid?"} /\ st[Launcher(i)].line = Record("starting", Launcher(j))
    \/ pc[Launcher(i)] = "told" /\ st[Launcher(i)].says = "busy"

Mistaken == hist.stolen \/ hist.published \cap hist.harmed # {}

Unmistaken ==
    \A j \in Job : InFlight(j) =>
        /\ record = Record("starting", Launcher(j))
        /\ \A k \in Job : startLock = Worker(k) /\ Alive(Worker(k)) /\ k \notin hist.harmed => k = j
        /\ \A i \in Job : Checking(i) => FindsBusy(i, j)

JobInv ==
    /\ TypeOK /\ Order /\ Target /\ Recorded /\ Watching
    /\ hist.stolen \/ LockHeld
    /\ Mistaken \/ Unmistaken
    /\ AcceptedIsPublished
-----------------------------------------------------------------------------
(* Process names                                                           *)

\* A process is of one kind and one launch.
LEMMA Names ==
    /\ \A j \in Job : /\ Launcher(j) \in OfJob /\ Supervisor(j) \in OfJob
                      /\ Worker(j) \in OfJob /\ Engine(j) \in OfJob
                      /\ Launcher(j) \in Caller
                      /\ Launcher(j)[1] = "launcher" /\ Supervisor(j)[1] = "supervisor"
                      /\ Worker(j)[1] = "worker" /\ Engine(j)[1] = "engine"
                      /\ Launcher(j)[2] = j /\ Supervisor(j)[2] = j
                      /\ Worker(j)[2] = j /\ Engine(j)[2] = j
    /\ \A i, j \in Job :
         /\ Launcher(i) # Supervisor(j) /\ Launcher(i) # Worker(j) /\ Launcher(i) # Engine(j)
         /\ Supervisor(i) # Worker(j) /\ Supervisor(i) # Engine(j) /\ Worker(i) # Engine(j)
         /\ Launcher(i) = Launcher(j) => i = j
         /\ Supervisor(i) = Supervisor(j) => i = j
         /\ Worker(i) = Worker(j) => i = j
         /\ Engine(i) = Engine(j) => i = j
    /\ \A x \in OfJob : \E j \in Job : x \in {Launcher(j), Supervisor(j), Worker(j), Engine(j)}
    /\ \A c \in Caller : \E j \in Job : c = Launcher(j)
    /\ \A j \in Job : /\ Launcher(j) # NoPid /\ Supervisor(j) # NoPid /\ Worker(j) # NoPid
                      /\ Engine(j) # NoPid /\ Launcher(j) # External /\ Supervisor(j) # External
                      /\ Worker(j) # External /\ Engine(j) # External
    /\ NoPid # External /\ NoPid \notin OfJob
  BY JobAssumption DEF OfJob, Caller, Launcher, Supervisor, Worker, Engine
-----------------------------------------------------------------------------
(* Types                                                                   *)

\* What may be recorded, and where.
LEMMA Kinds ==
    /\ NoRecord \in Records
    /\ \A j \in Job : /\ Record("starting", Launcher(j)) \in Records
                      /\ \A s \in {"running", "done", "interrupted"} : Record(s, Worker(j)) \in Records
                      /\ {Launcher(j), Worker(j)} \subseteq Owners
                      /\ {Launcher(j), Worker(j), Supervisor(j)} \subseteq Pids
    /\ Owners \subseteq Pids /\ Pids \subseteq OfJob
    /\ \A x \in Pids : \E j \in Job : x \in {Launcher(j), Supervisor(j), Worker(j)}
  BY Names DEF Records, Owners, Pids

LEMMA PCs ==
    /\ \A j \in Job : /\ PCOf(Launcher(j)) = LauncherPC /\ PCOf(Supervisor(j)) = SupervisorPC
                      /\ PCOf(Worker(j)) = WorkerPC /\ PCOf(Engine(j)) = EnginePC
    /\ \A x \in OfJob : PCOf(x) \subseteq PC /\ "exited" \in PCOf(x)
  <1>1. \A j \in Job : /\ PCOf(Launcher(j)) = LauncherPC /\ PCOf(Supervisor(j)) = SupervisorPC
                      /\ PCOf(Worker(j)) = WorkerPC /\ PCOf(Engine(j)) = EnginePC
    BY Names DEF PCOf
  <1>2. \A kind \in {LauncherPC, SupervisorPC, WorkerPC, EnginePC} :
          kind \subseteq PC /\ "exited" \in kind
    BY DEF PC, LauncherPC, SupervisorPC, WorkerPC, EnginePC
  <1>3. QED
    BY <1>1, <1>2, Names

LEMMA Positioned ==
    ASSUME Positions, NEW j \in Job
    PROVE  /\ pc[Launcher(j)] \in LauncherPC /\ pc[Supervisor(j)] \in SupervisorPC
           /\ pc[Worker(j)] \in WorkerPC /\ pc[Engine(j)] \in EnginePC
  BY Names, PCs DEF Positions

\* A process that moves to a position of its kind leaves the others where they are.
LEMMA Moved ==
    ASSUME Positions, NEW x \in OfJob, NEW l \in PCOf(x), To(x, l)
    PROVE  Positions' /\ pc'[x] = l /\ \A y \in OfJob \ {x} : pc'[y] = pc[y]
  BY PCs DEF Positions, To

LEMMA MovedBoth ==
    ASSUME Positions, NEW x \in OfJob, NEW y \in OfJob, x # y, NEW k \in PCOf(x), NEW l \in PCOf(y),
           pc' = [pc EXCEPT ![x] = k, ![y] = l]
    PROVE  /\ Positions' /\ pc'[x] = k /\ pc'[y] = l
           /\ \A z \in OfJob \ {x, y} : pc'[z] = pc[z]
  BY PCs DEF Positions

\* TERM ends a process at once, or has it end as it does on a signal.
LEMMA Terminated ==
    ASSUME Positions, NEW j \in Job
    PROVE  /\ AfterTerm(Launcher(j)) = "exited"
           /\ AfterTerm(Supervisor(j)) = IF pc[Supervisor(j)] = "none" THEN "none" ELSE "exited"
           /\ AfterTerm(Worker(j)) \in Interrupted \cup {"none", "exited"}
           /\ AfterTerm(Worker(j)) = "none" <=> pc[Worker(j)] = "none"
           /\ AfterTerm(Worker(j)) \in Interrupted => pc[Worker(j)] \in HasLock
           /\ AfterTerm(Engine(j)) \in EnginePC
  <1> USE Names, Positioned DEF AfterTerm, Alive
  <1>1. AfterTerm(Launcher(j)) = "exited"
    BY DEF LauncherPC
  <1>2. AfterTerm(Supervisor(j)) = IF pc[Supervisor(j)] = "none" THEN "none" ELSE "exited"
    BY DEF SupervisorPC
  <1>3. /\ AfterTerm(Worker(j)) \in Interrupted \cup {"none", "exited"}
        /\ AfterTerm(Worker(j)) = "none" <=> pc[Worker(j)] = "none"
        /\ AfterTerm(Worker(j)) \in Interrupted => pc[Worker(j)] \in HasLock
    <2>1. CASE pc[Worker(j)] \in {"none", "exited"}
      BY <2>1 DEF Interrupted
    <2>2. CASE pc[Worker(j)] = "handoff"
      BY <2>2 DEF Interrupted
    <2>3. CASE pc[Worker(j)] \in Interrupted
      BY <2>3 DEF Interrupted, HasLock
    <2>4. CASE pc[Worker(j)] \in HasLock \ Interrupted
      BY <2>4 DEF Interrupted, HasLock
    <2>5. QED
      BY <2>1, <2>2, <2>3, <2>4 DEF WorkerPC, Interrupted, HasLock
  <1>4. AfterTerm(Engine(j)) \in EnginePC
    BY DEF EnginePC
  <1>5. QED
    BY <1>1, <1>2, <1>3, <1>4
-----------------------------------------------------------------------------
(* Types                                                                   *)

LEMMA InitType == Init => TypeOK
  <1> SUFFICES ASSUME Init PROVE TypeOK
    OBVIOUS
  <1> USE JobAssumption, Names DEF Init
  <1>1. \A x \in OfJob : pc[x] = IF x[1] = "launcher" THEN "idle" ELSE "none"
    OBVIOUS
  <1>2. ASSUME NEW x \in OfJob PROVE pc[x] \in PCOf(x)
    <2>1. PICK j \in Job : x \in {Launcher(j), Supervisor(j), Worker(j), Engine(j)}
      OBVIOUS
    <2>2. pc[x] = IF x = Launcher(j) THEN "idle" ELSE "none"
      BY <1>1, <2>1
    <2>3. "idle" \in LauncherPC /\ "none" \in SupervisorPC \cap WorkerPC \cap EnginePC
      BY DEF LauncherPC, SupervisorPC, WorkerPC, EnginePC
    <2>4. QED
      BY <2>1, <2>2, <2>3, PCs
  <1>3. pc \in [OfJob -> PC]
    BY DEF LauncherPC, SupervisorPC, PC
  <1>4. st \in [Caller -> Readings]
    BY DEF NoStatus, Statuses, Readings, Records
  <1>5. waited \in [OfJob -> 0..MaxWait] /\ used \in [faults : 0..MaxFaults, outside : 0..MaxOutside]
    OBVIOUS
  <1>6. QED
    BY Kinds, <1>2, <1>3, <1>4, <1>5 DEF TypeOK, Positions

\* A step of action_status_values moves its caller and changes what it has seen.
Looks(c) ==
    /\ pc[c] \in {"record?", "owner?", "pid?", "handoff?", "again?", "operation?"}
    /\ \E l \in {"owner?", "pid?", "handoff?", "again?", "operation?", "told"}, r \in Readings :
         /\ To(c, l)
         /\ st' = [st EXCEPT ![c] = r]
         /\ r.for = st[c].for
    /\ UNCHANGED <<locks, record, jobPid, waited, answer, used, hist>>

LEMMA StatusLooks ==
    ASSUME TypeOK, NEW c \in Caller, Status(c)
    PROVE  Looks(c)
  <1>1. st \in [Caller -> Readings] /\ record \in Records /\ startLock \in Owners \cup {NoPid}
    BY DEF TypeOK
  <1>2. st[c] \in Readings
    BY <1>1
  <1> DEFINE Seen(s, line, tries) == [s EXCEPT !.line = line, !.tries = tries]
  <1>3. ASSUME NEW s \in Readings, NEW w \in Statuses
        PROVE  [s EXCEPT !.says = w] \in Readings /\ [s EXCEPT !.says = w].for = s.for
    BY DEF Readings
  <1>4. ASSUME NEW s \in Readings, NEW l, Judge(c, s, record)
        PROVE  \E l2 \in {"owner?", "operation?"}, r \in Readings :
                 To(c, l2) /\ st' = [st EXCEPT ![c] = r] /\ r.for = s.for
    <2>1. [s EXCEPT !.line = record] \in Readings /\ [s EXCEPT !.line = record].for = s.for
      BY <1>1 DEF Readings
    <2>2. ASSUME NEW w \in Statuses
          PROVE  /\ [s EXCEPT !.line = record, !.says = w] \in Readings
                 /\ [s EXCEPT !.line = record, !.says = w].for = s.for
      BY <1>1 DEF Readings
    <2>3. (IF Finished(record) THEN "finished" ELSE "idle") \in Statuses
      BY DEF Statuses
    <2>4. QED
      BY <1>4, <2>1, <2>2, <2>3 DEF Judge
  <1>5. CASE ReadRecord(c)
    <2>0. NoStatus \in Readings
      BY Kinds DEF NoStatus, Readings, Statuses
    <2>1. [NoStatus EXCEPT !.for = st[c].for] \in Readings
          /\ [NoStatus EXCEPT !.for = st[c].for].for = st[c].for
      BY <1>2, <2>0 DEF Readings
    <2>2. /\ pc[c] = "record?" /\ Judge(c, [NoStatus EXCEPT !.for = st[c].for], record)
          /\ UNCHANGED <<locks, record, jobPid, waited, answer, used, hist>>
      BY <1>5 DEF ReadRecord
    <2> DEFINE fresh == [NoStatus EXCEPT !.for = st[c].for]
    <2> HIDE DEF fresh
    <2>3. PICK l \in {"owner?", "operation?"}, r \in Readings :
            To(c, l) /\ st' = [st EXCEPT ![c] = r] /\ r.for = fresh.for
      BY <1>4, <2>1, <2>2 DEF fresh
    <2>4. r.for = st[c].for
      BY <2>1, <2>3 DEF fresh
    <2>5. QED
      BY <2>2, <2>3, <2>4, Zenon DEF Looks
  <1>6. CASE ReadHandoff(c)
    <2> DEFINE h == IF startLock = c THEN NoPid ELSE startLock
    <2>1. [st[c] EXCEPT !.handoff = h] \in Readings /\ [st[c] EXCEPT !.handoff = h].for = st[c].for
      BY <1>1, <1>2 DEF Readings
    <2>2. st' = [st EXCEPT ![c] = [st[c] EXCEPT !.handoff = h]]
      BY <1>1, <1>6 DEF ReadHandoff
    <2>3. QED
      BY <1>6, <2>1, <2>2 DEF ReadHandoff, Looks
  <1>7. CASE CheckPid(c) \/ CheckHandoff(c)
    <2>1. st[c] = st[c] /\ st = [st EXCEPT ![c] = st[c]]
      BY <1>1
    <2>2. "busy" \in Statuses
      BY DEF Statuses
    <2>3. QED
      BY <1>2, <1>3, <1>7, <2>1, <2>2 DEF CheckPid, CheckHandoff, Say, Looks
  <1>8. CASE ReadAgain(c)
    <2> DEFINE more == [st[c] EXCEPT !.tries = @ + 1]
               torn == [st[c] EXCEPT !.torn = record.status = "absent"]
    <2>1. st[c].tries < 2 => more \in Readings /\ more.for = st[c].for
      BY <1>2 DEF Readings
    <2>2. torn \in Readings /\ torn.for = st[c].for
      BY <1>2 DEF Readings
    <2>3. {"busy", "died"} \subseteq Statuses
      BY DEF Statuses
    <2> HIDE DEF more, torn
    <2>4. \/ st[c].tries < 2 /\ Judge(c, more, record)
          \/ Say(c, st[c], "busy", "told")
          \/ Say(c, torn, "died", "operation?")
      BY <1>8 DEF ReadAgain, more, torn
    <2>5. \E l \in {"owner?", "operation?", "told"}, r \in Readings :
            To(c, l) /\ st' = [st EXCEPT ![c] = r] /\ r.for = st[c].for
      <3>1. CASE st[c].tries < 2 /\ Judge(c, more, record)
        BY <1>4, <2>1, <3>1
      <3>2. CASE Say(c, st[c], "busy", "told")
        BY <1>2, <1>3, <2>3, <3>2 DEF Say
      <3>3. CASE Say(c, torn, "died", "operation?")
        <4>1. [torn EXCEPT !.says = "died"] \in Readings /\ [torn EXCEPT !.says = "died"].for = st[c].for
          BY <1>3, <2>2, <2>3
        <4>2. QED
          BY <3>3, <4>1 DEF Say
      <3>4. QED
        BY <2>4, <3>1, <3>2, <3>3
    <2>6. QED
      BY <1>8, <2>5 DEF ReadAgain, Looks
  <1>9. CASE CheckOperation(c)
    <2>1. "external" \in Statuses /\ st[c].says \in Statuses
      BY <1>2 DEF Readings, Statuses
    <2>2. QED
      BY <1>2, <1>3, <1>9, <2>1 DEF CheckOperation, Say, Looks
  <1>10. QED
    BY <1>5, <1>6, <1>7, <1>8, <1>9 DEF Status

\* Only positions change.
LEMMA TypedMove ==
    ASSUME TypeOK, Positions', UNCHANGED <<locks, record, st, jobPid, waited, answer, used, hist>>
    PROVE  TypeOK'
  BY DEF TypeOK, locks

\* A launcher's own step, but for those of its status check.
LEMMA TypedStart ==
    ASSUME TypeOK, Target, NEW j \in Job, Start(j)
    PROVE  TypeOK'
  <1> USE DEF locks
  <1>n. /\ Launcher(j) \in OfJob /\ Launcher(j) \in Caller /\ Supervisor(j) \in OfJob
        /\ Launcher(j) # Supervisor(j)
    BY Names
  <1>0. Positions /\ startLock \in Owners \cup {NoPid} /\ jobPid \in [Job -> Pids \cup {NoPid}]
    BY DEF TypeOK
  <1>l. ASSUME NEW l \in LauncherPC, To(Launcher(j), l) PROVE Positions'
    BY <1>0, <1>l, <1>n, Moved, PCs
  <1>a. {"lock", "record?", "starting", "spawn", "owner", "acknowledged?", "term", "kill", "owner-again",
         "unlock", "recheck", "exited"} \subseteq LauncherPC
    BY DEF LauncherPC
  <1>1. CASE Launch(j) \/ ReadOwnerAgain(j)
    BY <1>1, <1>l, <1>a, TypedMove DEF Launch, ReadOwnerAgain
  <1>2. CASE AcquireStartLock(j)
    <2>1. Positions'
      BY <1>2, <1>l, <1>a DEF AcquireStartLock
    <2>2. [st[Launcher(j)] EXCEPT !.for = "check"] \in Readings
      <3>1. st[Launcher(j)] \in Readings
        BY <1>n DEF TypeOK
      <3>2. QED
        BY ONLY <3>1 DEF Readings
    <2>3. st' \in [Caller -> Readings]
      BY <1>2, <1>n, <2>2 DEF AcquireStartLock, TypeOK
    <2>4. QED
      BY <1>2, <2>1, <2>3, Kinds DEF AcquireStartLock, TypeOK
  <1>3. CASE TurnAway(j)
    <2>1. Positions'
      BY <1>3, <1>l, <1>a DEF TurnAway
    <2>2. NoStatus \in Readings
      BY Kinds DEF NoStatus, Readings, Statuses
    <2>3. QED
      BY <1>3, <2>1, <2>2 DEF TurnAway, TypeOK, Steal, Anothers, Alive
  <1>4. CASE AnswerFalse(j)
    <2>1. Positions'
      BY <1>4, <1>l, <1>a DEF AnswerFalse
    <2>2. QED
      BY <1>4, <2>1 DEF AnswerFalse, TypeOK, locks
  <1>5. CASE TruncateRecord(j) \/ WriteStarting(j)
    <2>1. Positions'
      BY <1>5, <1>l, <1>a DEF TruncateRecord, WriteStarting
    <2>2. QED
      BY <1>5, <2>1, Kinds DEF TruncateRecord, WriteStarting, TypeOK
  <1>6. CASE SpawnSupervisor(j)
    <2>1. "fork" \in SupervisorPC
      BY DEF SupervisorPC
    <2>2. Positions'
      <3>1. "owner" \in PCOf(Launcher(j)) /\ "fork" \in PCOf(Supervisor(j))
        BY <1>a, <2>1, PCs
      <3>2. QED
        BY <1>0, <1>6, <1>n, <3>1, MovedBoth DEF SpawnSupervisor
    <2>3. QED
      BY <1>6, <2>2, Kinds DEF SpawnSupervisor, TypeOK
  <1>7. CASE ReadOwner(j)
    <2>1. Positions'
      BY <1>7, <1>l, <1>a DEF ReadOwner
    <2>2. QED
      BY <1>7, <2>1, Kinds DEF ReadOwner, TypeOK
  <1>8. CASE AwaitAcknowledgment(j) \/ Recheck(j)
    <2>1. Positions'
      BY <1>8, <1>l, <1>a DEF AwaitAcknowledgment, Recheck, Accept
    <2>2. answer' \in [Job -> {"none", "accepted", "busy", "rejected", "refused"}]
      BY <1>8 DEF AwaitAcknowledgment, Recheck, Accept, TypeOK
    <2>3. waited' \in [OfJob -> 0..MaxWait]
      <3>1. waited \in [OfJob -> 0..MaxWait] /\ MaxWait \in Nat
        BY JobAssumption DEF TypeOK
      <3>2. \/ UNCHANGED waited
            \/ /\ waited[Launcher(j)] < MaxWait
               /\ waited' = [waited EXCEPT ![Launcher(j)] = @ + 1]
        BY <1>8 DEF AwaitAcknowledgment, Recheck
      <3>3. QED
        BY ONLY <1>n, <3>1, <3>2
    <2>4. QED
      BY <1>8, <2>1, <2>2, <2>3 DEF AwaitAcknowledgment, Recheck, TypeOK, locks
  <1>9. CASE TermJob(j) \/ KillJob(j)
    <2>1. jobPid[j] \in Pids /\ jobPid[j] # Launcher(j)
      BY <1>9 DEF TermJob, KillJob, Target, Launched, GivenUp
    <2>2. PICK i \in Job : jobPid[j] \in {Launcher(i), Supervisor(i), Worker(i)}
      BY <2>1, Kinds
    <2>3. jobPid[j] \in OfJob /\ jobPid[j][2] = i
      BY <2>2, Names
    <2>4. AfterTerm(jobPid[j]) \in PCOf(jobPid[j]) /\ "exited" \in PCOf(jobPid[j])
      <3>1. pc[jobPid[j]] \in PCOf(jobPid[j])
        BY <1>0, <2>3 DEF Positions
      <3>2. Interrupted \cup {"none", "exited"} \subseteq WorkerPC
        BY DEF Interrupted, WorkerPC
      <3>3. QED
        BY <1>0, <2>2, <2>3, <3>1, <3>2, Terminated, PCs
    <2>5. "kill" \in PCOf(Launcher(j)) /\ "owner-again" \in PCOf(Launcher(j))
      BY <1>a, PCs
    <2>6. Positions'
      BY <1>0, <1>9, <1>n, <2>1, <2>3, <2>4, <2>5, MovedBoth DEF TermJob, KillJob
    <2>7. hist' \in [published : SUBSET Job, harmed : SUBSET Job, stolen : BOOLEAN]
      <3>1. hist \in [published : SUBSET Job, harmed : SUBSET Job, stolen : BOOLEAN]
        BY DEF TypeOK
      <3>2. hist' = hist \/ hist' = [hist EXCEPT !.harmed = @ \cup {j, i}]
        BY <1>9, <2>3 DEF TermJob, KillJob
      <3>3. QED
        BY ONLY <3>1, <3>2
    <2>8. QED
      BY <1>9, <2>6, <2>7 DEF TermJob, KillJob, TypeOK
  <1>10. CASE ReleaseStartLock(j)
    <2>1. Positions'
      BY <1>10, <1>l, <1>a DEF ReleaseStartLock
    <2>2. hist' \in [published : SUBSET Job, harmed : SUBSET Job, stolen : BOOLEAN]
      BY <1>10 DEF ReleaseStartLock, TypeOK, Steal, Anothers, Alive
    <2>3. QED
      BY <1>10, <2>1, <2>2 DEF ReleaseStartLock, TypeOK
  <1>11. QED
    BY <1>1, <1>2, <1>3, <1>4, <1>5, <1>6, <1>7, <1>8, <1>9, <1>10 DEF Start

\* A step of a supervisor or a worker.
LEMMA TypedWork ==
    ASSUME TypeOK, NEW j \in Job, Work(j)
    PROVE  TypeOK'
  <1> USE DEF locks
  <1>n. /\ Supervisor(j) \in OfJob /\ Worker(j) \in OfJob /\ Engine(j) \in OfJob
        /\ Supervisor(j) # Worker(j) /\ Worker(j) # Engine(j)
    BY Names
  <1>0. Positions /\ waited \in [OfJob -> 0..MaxWait] /\ MaxWait \in Nat
        /\ hist \in [published : SUBSET Job, harmed : SUBSET Job, stolen : BOOLEAN]
    BY JobAssumption DEF TypeOK
  <1>a. /\ {"handover", "exited"} \subseteq PCOf(Supervisor(j))
        /\ WorkerPC \ {"none"} \subseteq PCOf(Worker(j)) /\ "lock" \in PCOf(Engine(j))
    BY PCs DEF SupervisorPC, EnginePC
  <1>b. {"handoff", "publish", "exited", "run", "wait", "finish", "clean", "remove", "remove143",
         "reap", "interrupted", "clean143"} \subseteq WorkerPC \ {"none"}
    BY DEF WorkerPC
  <1>w. ASSUME NEW l \in WorkerPC \ {"none"}, To(Worker(j), l) PROVE Positions'
    BY <1>0, <1>a, <1>w, <1>n, Moved
  <1>1. CASE ForkWorker(j)
    <2>1. Positions'
      BY <1>0, <1>1, <1>a, <1>b, <1>n, MovedBoth DEF ForkWorker
    <2>2. QED
      BY <1>1, <2>1, TypedMove DEF ForkWorker
  <1>2. CASE HandOver(j)
    <2>1. Positions'
      BY <1>0, <1>2, <1>a, <1>n, Moved DEF HandOver
    <2>2. hist' \in [published : SUBSET Job, harmed : SUBSET Job, stolen : BOOLEAN]
      BY <1>0, <1>2 DEF HandOver, Steal, Anothers, Alive
    <2>3. QED
      BY <1>2, <2>1, <2>2, Kinds DEF HandOver, TypeOK
  <1>3. CASE AwaitHandoff(j)
    <2>1. Positions'
      BY <1>0, <1>3, <1>w, <1>b DEF AwaitHandoff, Positions
    <2>2. waited' \in [OfJob -> 0..MaxWait]
      <3>1. UNCHANGED waited \/ /\ waited[Worker(j)] < MaxWait
                                /\ waited' = [waited EXCEPT ![Worker(j)] = @ + 1]
        BY <1>3 DEF AwaitHandoff
      <3>2. QED
        BY ONLY <1>n, <1>0, <3>1
    <2>3. QED
      BY <1>3, <2>1, <2>2 DEF AwaitHandoff, TypeOK
  <1>4. CASE WriteRunning(j) \/ WriteResult(j) \/ WriteInterrupted(j)
    <2>1. Positions'
      BY <1>4, <1>w, <1>b DEF WriteRunning, WriteResult, WriteInterrupted
    <2>2. hist' \in [published : SUBSET Job, harmed : SUBSET Job, stolen : BOOLEAN]
      <3>1. hist' = hist \/ hist' = [hist EXCEPT !.published = @ \cup {j}]
        BY <1>4 DEF WriteRunning, WriteResult, WriteInterrupted
      <3>2. QED
        BY ONLY <1>0, <3>1
    <2>3. record' \in Records
      BY <1>4, Kinds DEF WriteRunning, WriteResult, WriteInterrupted
    <2>4. QED
      BY <1>4, <2>1, <2>2, <2>3 DEF WriteRunning, WriteResult, WriteInterrupted, TypeOK
  <1>5. CASE RunEngine(j)
    <2>1. Positions'
      BY <1>0, <1>5, <1>a, <1>b, <1>n, MovedBoth DEF RunEngine
    <2>2. QED
      BY <1>5, <2>1, TypedMove DEF RunEngine
  <1>6. CASE AwaitEngine(j) \/ CheckOwnLock(j) \/ ReapEngine(j)
    <2>1. Positions'
      BY <1>6, <1>w, <1>b DEF AwaitEngine, CheckOwnLock, ReapEngine
    <2>2. QED
      BY <1>6, <2>1, TypedMove DEF AwaitEngine, CheckOwnLock, ReapEngine
  <1>7. CASE RemoveOwnLock(j)
    <2>1. Positions'
      BY <1>7, <1>w, <1>b DEF RemoveOwnLock
    <2>2. hist' \in [published : SUBSET Job, harmed : SUBSET Job, stolen : BOOLEAN]
      BY <1>0, <1>7 DEF RemoveOwnLock, Steal, Anothers, Alive
    <2>3. QED
      BY <1>7, <2>1, <2>2 DEF RemoveOwnLock, TypeOK
  <1>8. CASE TermEngine(j)
    <2>1. AfterTerm(Engine(j)) \in PCOf(Engine(j))
      BY <1>0, Terminated, PCs
    <2>2. (IF Alive(Engine(j)) THEN "reap" ELSE "interrupted") \in PCOf(Worker(j))
      BY <1>a, <1>b
    <2>3. Positions'
      BY <1>0, <1>8, <1>n, <2>1, <2>2, MovedBoth DEF TermEngine
    <2>4. QED
      BY <1>8, <2>3, TypedMove DEF TermEngine
  <1>9. QED
    BY <1>1, <1>2, <1>3, <1>4, <1>5, <1>6, <1>7, <1>8 DEF Work

\* What an engine, an operation started elsewhere or a fault may change.
LEMMA TypedRest ==
    ASSUME TypeOK,
           \/ \E j \in Job : Operate(j) \/ Kill(j) \/ CannotWrite(j)
           \/ ExternalOperation
    PROVE  TypeOK'
  <1> USE DEF locks
  <1>0. Positions /\ used \in [faults : 0..MaxFaults, outside : 0..MaxOutside]
        /\ MaxFaults \in Nat /\ MaxOutside \in Nat
        /\ hist \in [published : SUBSET Job, harmed : SUBSET Job, stolen : BOOLEAN]
    BY JobAssumption DEF TypeOK
  <1>1. ASSUME NEW j \in Job, Operate(j) PROVE TypeOK'
    <2>1. {"exited", "work"} \subseteq PCOf(Engine(j)) /\ Engine(j) \in OfJob
      BY PCs, Names DEF EnginePC
    <2>2. Positions'
      BY <1>0, <1>1, <2>1, Moved DEF Operate, AcquireLock, EndOperation
    <2>3. QED
      BY <1>1, <2>2 DEF Operate, AcquireLock, EndOperation, TypeOK
  <1>2. ASSUME NEW j \in Job, Fault(j)
        PROVE  /\ used' \in [faults : 0..MaxFaults, outside : 0..MaxOutside]
               /\ hist' \in [published : SUBSET Job, harmed : SUBSET Job, stolen : BOOLEAN]
    BY ONLY <1>0, <1>2, j \in Job DEF Fault
  <1>3. ASSUME NEW j \in Job, Kill(j) PROVE TypeOK'
    <2>1. \A x \in {Launcher(j), Supervisor(j), Worker(j), Engine(j)} : x \in OfJob /\ "exited" \in PCOf(x)
      BY PCs, Names
    <2>2. Positions'
      BY <1>0, <1>3, <2>1, Moved DEF Kill
    <2>3. QED
      BY <1>2, <1>3, <2>2 DEF Kill, TypeOK
  <1>4. ASSUME NEW j \in Job, CannotWrite(j) PROVE TypeOK'
    <2>1. /\ "exited" \in PCOf(Supervisor(j)) /\ "clean" \in PCOf(Worker(j))
          /\ AfterTerm(Worker(j)) \in PCOf(Worker(j))
          /\ Supervisor(j) \in OfJob /\ Worker(j) \in OfJob /\ Supervisor(j) # Worker(j)
      BY <1>0, Terminated, PCs, Names DEF WorkerPC, Interrupted
    <2>2. Positions'
      BY <1>0, <1>4, <2>1, Moved, MovedBoth DEF CannotWrite
    <2>3. QED
      BY <1>2, <1>4, <2>2 DEF CannotWrite, TypeOK
  <1>5. ASSUME ExternalOperation PROVE TypeOK'
    <2>1. used' \in [faults : 0..MaxFaults, outside : 0..MaxOutside]
      BY ONLY <1>0, <1>5 DEF ExternalOperation
    <2>2. opLock' \in {NoPid, External} /\ Positions'
      BY <1>0, <1>5 DEF ExternalOperation, Positions
    <2>3. QED
      BY <1>5, <2>1, <2>2 DEF ExternalOperation, TypeOK
  <1>6. QED
    BY <1>1, <1>3, <1>4, <1>5

LEMMA TypeStep == TypeOK /\ Target /\ [Next]_vars => TypeOK'
  <1> SUFFICES ASSUME TypeOK, Target, [Next]_vars PROVE TypeOK'
    OBVIOUS
  <1>1. ASSUME NEW c \in Caller, Looks(c) PROVE TypeOK'
    <2>1. PICK l \in {"owner?", "pid?", "handoff?", "again?", "operation?", "told"}, r \in Readings :
            To(c, l) /\ st' = [st EXCEPT ![c] = r]
      BY <1>1 DEF Looks
    <2>2. l \in PCOf(c) /\ c \in OfJob
      <3>1. PICK i \in Job : c = Launcher(i)
        BY Names
      <3>2. l \in LauncherPC
        BY DEF LauncherPC
      <3>3. QED
        BY <3>1, <3>2, PCs, Names
    <2>3. Positions'
      BY <2>1, <2>2, Moved DEF TypeOK
    <2>4. QED
      BY <1>1, <2>1, <2>3 DEF Looks, TypeOK, locks
  <1>2. CASE UNCHANGED vars
    BY <1>2 DEF vars, locks, TypeOK, Positions
  <1>3. QED
    BY <1>1, <1>2, StatusLooks, TypedStart, TypedWork, TypedRest DEF Next
-----------------------------------------------------------------------------
(* How processes move                                                      *)

\* How a step changes the history, if at all.
Remembers == \/ UNCHANGED hist
             \/ \E j \in Job : TurnAway(j) \/ ReleaseStartLock(j) \/ HandOver(j) \/ RemoveOwnLock(j)
             \/ \E j \in Job : hist' = [hist EXCEPT !.published = @ \cup {j}]
             \/ \E i, j \in Job : hist' = [hist EXCEPT !.harmed = @ \cup {i, j}]

LEMMA HistoryGrows ==
    ASSUME TypeOK, Target, [Next]_vars
    PROVE  /\ hist.published \subseteq hist'.published
           /\ hist.harmed \subseteq hist'.harmed
           /\ hist.stolen => hist'.stolen
           /\ hist'.stolen # hist.stolen =>
                \E j \in Job : TurnAway(j) \/ ReleaseStartLock(j) \/ HandOver(j) \/ RemoveOwnLock(j)
  <1>0. hist \in [published : SUBSET Job, harmed : SUBSET Job, stolen : BOOLEAN]
    BY DEF TypeOK
  <1>a. ASSUME NEW x PROVE Anothers(x) \in BOOLEAN
    BY DEF Anothers, Alive
  <1>1. ASSUME NEW j \in Job, Start(j) PROVE Remembers
    <2>1. CASE TermJob(j)
      <3>1. jobPid[j] \in Pids
        BY <2>1 DEF TermJob, Target, Launched
      <3>2. PICK i \in Job : jobPid[j][2] = i
        BY <3>1, Kinds, Names
      <3>3. QED
        BY <2>1, <3>2 DEF TermJob, Remembers
    <2>2. CASE TurnAway(j) \/ ReleaseStartLock(j)
      BY <2>2 DEF Remembers
    <2>3. QED
      BY <1>1, <2>1, <2>2 DEF Start, Launch, AcquireStartLock, AnswerFalse, TruncateRecord,
         WriteStarting, SpawnSupervisor, ReadOwner, AwaitAcknowledgment, KillJob, ReadOwnerAgain,
         Recheck, Remembers
  <1>2. ASSUME NEW j \in Job, Work(j) PROVE Remembers
    <2>1. CASE HandOver(j) \/ RemoveOwnLock(j)
      BY <2>1 DEF Remembers
    <2>2. CASE WriteRunning(j) \/ WriteInterrupted(j)
      BY <2>2 DEF WriteRunning, WriteInterrupted, Remembers
    <2>3. QED
      BY <1>2, <2>1, <2>2 DEF Work, ForkWorker, AwaitHandoff, RunEngine, AwaitEngine, WriteResult,
         CheckOwnLock, TermEngine, ReapEngine, Remembers
  <1>3. ASSUME NEW j \in Job, Operate(j) PROVE Remembers
    BY <1>3 DEF Operate, AcquireLock, EndOperation, Remembers
  <1>4. ASSUME NEW j \in Job, Kill(j) \/ CannotWrite(j) PROVE Remembers
    <2>1. hist' = [hist EXCEPT !.harmed = @ \cup {j, j}]
      BY <1>4 DEF Kill, CannotWrite, Fault
    <2>2. QED
      BY <2>1 DEF Remembers
  <1>5. ASSUME NEW c \in Caller, Status(c) PROVE Remembers
    BY <1>5, StatusLooks DEF Looks, Remembers
  <1>6. ASSUME ExternalOperation PROVE Remembers
    BY <1>6 DEF ExternalOperation, Remembers
  <1>7. ASSUME UNCHANGED vars PROVE Remembers
    BY <1>7 DEF vars, Remembers
  <1>8. Remembers
    BY <1>1, <1>2, <1>3, <1>4, <1>5, <1>6, <1>7 DEF Next
  <1>9. ASSUME NEW j \in Job, TurnAway(j) \/ ReleaseStartLock(j) \/ HandOver(j) \/ RemoveOwnLock(j)
        PROVE  \E theft \in BOOLEAN : Steal(theft)
    BY <1>a, <1>9 DEF TurnAway, ReleaseStartLock, HandOver, RemoveOwnLock
  <1>10. QED
    BY ONLY <1>0, <1>8, <1>9 DEF Remembers, Steal

\* A launcher that stops what it takes for its job ends another process, or has
\* a worker end as on a signal.
LEMMA Stopped ==
    ASSUME TypeOK, Order, Target, NEW j \in Job, TermJob(j) \/ KillJob(j)
    PROVE  \E i \in Job : \E x \in {Launcher(i), Supervisor(i), Worker(i)} :
             /\ x # Launcher(j) /\ pc[x] # "none" /\ i \in hist'.harmed
             /\ \/ pc'[x] = "exited"
                \/ x = Worker(i) /\ pc[x] \in HasLock /\ pc'[x] \in Interrupted
             /\ \A y \in OfJob \ {x, Launcher(j)} : pc'[y] = pc[y]
  <1>1. /\ jobPid[j] \in Pids /\ jobPid[j] # Launcher(j)
        /\ pc[Supervisor(j)] # "none"
        /\ \A k \in Job : /\ jobPid[j] = Supervisor(k) => k = j
                          /\ jobPid[j] = Worker(k) => pc[Worker(k)] # "none"
    BY DEF TermJob, KillJob, Target, Order, OrderOf, Launched, GivenUp
  <1>2. PICK i \in Job : jobPid[j] \in {Launcher(i), Supervisor(i), Worker(i)}
    BY <1>1, Kinds
  <1>3. Positions /\ hist \in [published : SUBSET Job, harmed : SUBSET Job, stolen : BOOLEAN]
    BY DEF TypeOK
  <1>4. jobPid[j] \in OfJob /\ jobPid[j][2] = i /\ Launcher(j) \in OfJob
    BY <1>2, Names
  <1>5. pc[jobPid[j]] # "none"
    <2>1. pc[Launcher(i)] # "none"
      BY <1>3, Positioned DEF LauncherPC
    <2>2. QED
      BY <1>1, <1>2, <2>1
  <1>6. i \in hist'.harmed
    <2>1. CASE TermJob(j)
      <3>1. hist' = [hist EXCEPT !.harmed = @ \cup {j, i}]
        BY <1>4, <2>1 DEF TermJob
      <3>2. QED
        BY ONLY <1>3, <3>1
    <2>2. CASE KillJob(j)
      BY <1>4, <2>2 DEF KillJob, Target
    <2>3. QED
      BY <2>1, <2>2
  <1>7. \/ pc'[jobPid[j]] = "exited"
        \/ /\ jobPid[j] = Worker(i) /\ pc[jobPid[j]] \in HasLock
           /\ pc'[jobPid[j]] \in Interrupted
    <2>1. pc'[jobPid[j]] \in {"exited", AfterTerm(jobPid[j])}
      BY <1>1, <1>3, <1>4 DEF TermJob, KillJob, Positions
    <2>2. QED
      BY <1>2, <1>3, <1>5, <2>1, Terminated
  <1>8. \A y \in OfJob \ {jobPid[j], Launcher(j)} : pc'[y] = pc[y]
    BY <1>3 DEF TermJob, KillJob, Positions
  <1>9. QED
    BY <1>1, <1>2, <1>5, <1>6, <1>7, <1>8

\* How a process of launch j moves: it ends, harmed; or it takes a step of its own.
Ends(x, j) == pc[x] # "none" /\ pc'[x] = "exited" /\ j \in hist'.harmed

Unmoved(j) ==
    /\ pc'[Launcher(j)] = pc[Launcher(j)]
    /\ pc'[Supervisor(j)] = pc[Supervisor(j)]
    /\ pc'[Worker(j)] = pc[Worker(j)]

Moves(j) ==
    /\ \/ pc'[Launcher(j)] = pc[Launcher(j)]
       \/ Ends(Launcher(j), j)
       \/ Start(j)
       \/ Status(Launcher(j)) /\ Looks(Launcher(j))
    /\ \/ pc'[Supervisor(j)] = pc[Supervisor(j)]
       \/ Ends(Supervisor(j), j)
       \/ SpawnSupervisor(j) \/ ForkWorker(j) \/ HandOver(j)
    /\ \/ pc'[Worker(j)] = pc[Worker(j)]
       \/ Ends(Worker(j), j)
       \/ Work(j)
       \/ pc[Worker(j)] \in HasLock /\ pc'[Worker(j)] \in Interrupted /\ j \in hist'.harmed
       \/ /\ pc[Worker(j)] \in {"publish", "finish", "interrupted"}
          /\ pc'[Worker(j)] = "clean" /\ j \in hist'.harmed

LEMMA StartMoves ==
    ASSUME TypeOK, Order, Target, NEW j \in Job, Start(j), NEW k \in Job
    PROVE  Moves(k)
  <1>n. /\ Launcher(j) \in OfJob /\ Launcher(k) \in OfJob /\ Supervisor(k) \in OfJob /\ Worker(k) \in OfJob
        /\ Launcher(j) # Supervisor(k) /\ Launcher(j) # Worker(k)
        /\ Supervisor(k) # Worker(k) /\ Launcher(k) # Supervisor(j) /\ Supervisor(j) # Worker(k)
        /\ Launcher(j) = Launcher(k) => j = k
        /\ Supervisor(j) = Supervisor(k) => j = k
    BY Names
  <1>0. Positions
    BY DEF TypeOK
  <1>1. CASE \A y \in OfJob \ {Launcher(j)} : pc'[y] = pc[y]
    BY <1>1, <1>n DEF Moves
  <1>2. CASE SpawnSupervisor(j)
    <2>1. \A y \in OfJob \ {Launcher(j), Supervisor(j)} : pc'[y] = pc[y]
      BY <1>0, <1>2 DEF SpawnSupervisor, Positions
    <2>2. QED
      BY <1>2, <2>1, <1>n DEF Moves
  <1>3. CASE TermJob(j) \/ KillJob(j)
    <2>1. PICK i \in Job : \E x \in {Launcher(i), Supervisor(i), Worker(i)} :
             /\ x # Launcher(j) /\ pc[x] # "none" /\ i \in hist'.harmed
             /\ \/ pc'[x] = "exited"
                \/ x = Worker(i) /\ pc[x] \in HasLock /\ pc'[x] \in Interrupted
             /\ \A y \in OfJob \ {x, Launcher(j)} : pc'[y] = pc[y]
      BY <1>3, Stopped
    <2>a. PICK x \in {Launcher(i), Supervisor(i), Worker(i)} : 
             /\ x # Launcher(j) /\ pc[x] # "none" /\ i \in hist'.harmed
             /\ \/ pc'[x] = "exited"
                \/ x = Worker(i) /\ pc[x] \in HasLock /\ pc'[x] \in Interrupted
             /\ \A y \in OfJob \ {x, Launcher(j)} : pc'[y] = pc[y]
      BY <2>1
    <2>2. \A y \in OfJob : y \in {Launcher(k), Supervisor(k), Worker(k)} /\ y = x => i = k
      BY Names
    <2>3. \/ pc'[Launcher(k)] = pc[Launcher(k)] \/ Ends(Launcher(k), k) \/ Start(k)
      BY <1>n, <2>a, <2>2, Names DEF Ends
    <2>4. \/ pc'[Supervisor(k)] = pc[Supervisor(k)] \/ Ends(Supervisor(k), k)
      BY <1>n, <2>a, <2>2, Names DEF Ends
    <2>5. \/ pc'[Worker(k)] = pc[Worker(k)]
          \/ Ends(Worker(k), k)
          \/ pc[Worker(k)] \in HasLock /\ pc'[Worker(k)] \in Interrupted /\ k \in hist'.harmed
      BY <1>n, <2>a, <2>2, Names DEF Ends
    <2>6. QED
      BY <2>3, <2>4, <2>5 DEF Moves
  <1>4. CASE \E l : To(Launcher(j), l)
    <2>1. \A y \in OfJob \ {Launcher(j)} : pc'[y] = pc[y]
      BY <1>0, <1>4 DEF To, Positions
    <2>2. QED
      BY <1>1, <2>1
  <1>5. QED
    BY <1>2, <1>3, <1>4 DEF Start, Launch, AcquireStartLock, TurnAway, AnswerFalse, TruncateRecord,
       WriteStarting, ReadOwner, AwaitAcknowledgment, Accept, ReadOwnerAgain, ReleaseStartLock, Recheck

LEMMA WorkMoves ==
    ASSUME TypeOK, NEW j \in Job, Work(j), NEW k \in Job
    PROVE  Moves(k) /\ pc'[Launcher(k)] = pc[Launcher(k)]
  <1>n. /\ Supervisor(j) \in OfJob /\ Worker(j) \in OfJob
        /\ Launcher(k) \in OfJob /\ Supervisor(k) \in OfJob /\ Worker(k) \in OfJob
        /\ Launcher(k) # Supervisor(j) /\ Launcher(k) # Worker(j) /\ Launcher(k) # Engine(j)
        /\ Supervisor(k) # Worker(j) /\ Supervisor(j) # Worker(k)
        /\ Supervisor(k) # Engine(j) /\ Worker(k) # Engine(j)
        /\ Worker(j) = Worker(k) => j = k
        /\ Supervisor(j) = Supervisor(k) => j = k
    BY Names
  <1>0. pc \in [OfJob -> PC]
    BY DEF TypeOK, Positions
  <1>1. CASE ForkWorker(j)
    <2>1. \A y \in OfJob \ {Supervisor(j), Worker(j)} : pc'[y] = pc[y]
      BY <1>0, <1>1 DEF ForkWorker
    <2>2. QED
      BY <1>1, <1>n, <2>1 DEF Moves, Work
  <1>2. CASE HandOver(j)
    <2>1. \A y \in OfJob \ {Supervisor(j)} : pc'[y] = pc[y]
      BY <1>0, <1>2 DEF HandOver, To
    <2>2. QED
      BY <1>2, <1>n, <2>1 DEF Moves
  <1>3. CASE \A y \in OfJob \ {Worker(j), Engine(j)} : pc'[y] = pc[y]
    BY <1>3, <1>n DEF Moves
  <1>4. CASE \/ pc' = pc
             \/ \E l : To(Worker(j), l)
             \/ \E l, m : pc' = [pc EXCEPT ![Worker(j)] = l, ![Engine(j)] = m]
             \/ \E l, m : pc' = [pc EXCEPT ![Engine(j)] = l, ![Worker(j)] = m]
    <2>1. \A y \in OfJob \ {Worker(j), Engine(j)} : pc'[y] = pc[y]
      BY <1>0, <1>4 DEF To
    <2>2. QED
      BY <1>3, <2>1
  <1>5. QED
    BY <1>1, <1>2, <1>4 DEF Work, AwaitHandoff, WriteRunning, RunEngine, AwaitEngine, WriteResult,
       CheckOwnLock, RemoveOwnLock, TermEngine, ReapEngine, WriteInterrupted

LEMMA FaultMoves ==
    ASSUME TypeOK, NEW j \in Job, Kill(j) \/ CannotWrite(j), NEW k \in Job
    PROVE  Moves(k)
  <1>n. /\ \A x \in {Launcher(j), Supervisor(j), Worker(j), Engine(j)} : x \in OfJob
        /\ Launcher(k) \in OfJob /\ Supervisor(k) \in OfJob /\ Worker(k) \in OfJob
        /\ Supervisor(j) # Worker(j)
        /\ \A x \in {Launcher(j), Supervisor(j), Worker(j), Engine(j)} :
             x \in {Launcher(k), Supervisor(k), Worker(k)} => j = k
        /\ Launcher(k) \notin {Supervisor(j), Worker(j), Engine(j)}
        /\ Supervisor(k) \notin {Launcher(j), Worker(j), Engine(j)}
        /\ Worker(k) \notin {Launcher(j), Supervisor(j), Engine(j)}
    BY Names
  <1>0. pc \in [OfJob -> PC] /\ Positions
    BY DEF TypeOK, Positions
  <1>1. j \in hist'.harmed
    <2>1. hist' = [hist EXCEPT !.harmed = @ \cup {j}]
      BY DEF Kill, CannotWrite, Fault
    <2>2. hist \in [published : SUBSET Job, harmed : SUBSET Job, stolen : BOOLEAN]
      BY DEF TypeOK
    <2>3. QED
      BY ONLY <2>1, <2>2
  <1>2. CASE Kill(j)
    <2>1. PICK x \in {Launcher(j), Supervisor(j), Worker(j), Engine(j)} : Alive(x) /\ To(x, "exited")
      BY <1>2 DEF Kill
    <2>2. pc[x] # "none"
      BY <2>1, <1>n, JobAssumption DEF Alive
    <2>3. pc'[x] = "exited" /\ \A y \in OfJob \ {x} : pc'[y] = pc[y]
      BY <1>0, <1>n, <2>1 DEF To
    <2>4. QED
      BY <1>1, <1>n, <2>2, <2>3 DEF Moves, Ends
  <1>3. CASE CannotWrite(j)
    <2>1. CASE /\ pc[Supervisor(j)] = "handover"
               /\ pc' = [pc EXCEPT ![Supervisor(j)] = "exited", ![Worker(j)] = AfterTerm(Worker(j))]
      <3>1. /\ pc'[Supervisor(j)] = "exited" /\ pc'[Worker(j)] = AfterTerm(Worker(j))
            /\ \A y \in OfJob \ {Supervisor(j), Worker(j)} : pc'[y] = pc[y]
        BY <1>0, <1>n, <2>1
      <3>2. \/ pc'[Worker(j)] = pc[Worker(j)]
            \/ Ends(Worker(j), j)
            \/ pc[Worker(j)] \in HasLock /\ pc'[Worker(j)] \in Interrupted
        BY <1>0, <1>1, <3>1, Terminated DEF Ends
      <3>3. QED
        BY <1>1, <1>n, <2>1, <3>1, <3>2 DEF Moves, Ends
    <2>2. CASE pc[Worker(j)] \in {"publish", "finish", "interrupted"} /\ To(Worker(j), "clean")
      <3>1. pc'[Worker(j)] = "clean" /\ \A y \in OfJob \ {Worker(j)} : pc'[y] = pc[y]
        BY <1>0, <1>n, <2>2 DEF To
      <3>2. QED
        BY <1>1, <1>n, <2>2, <3>1 DEF Moves
    <2>3. QED
      BY <1>3, <2>1, <2>2 DEF CannotWrite
  <1>4. QED
    BY <1>2, <1>3

LEMMA StatusMoves ==
    ASSUME TypeOK, NEW c \in Caller, Status(c), NEW k \in Job
    PROVE  Moves(k)
  <1>1. PICK i \in Job : c = Launcher(i)
    BY Names
  <1>2. \A y \in OfJob \ {c} : pc'[y] = pc[y]
    BY StatusLooks DEF TypeOK, Positions, Looks, To
  <1>3. QED
    BY <1>1, <1>2, Names, StatusLooks DEF Moves

LEMMA OperateMoves ==
    ASSUME TypeOK, \/ \E j \in Job : Operate(j)
                   \/ ExternalOperation \/ UNCHANGED vars,
           NEW k \in Job
    PROVE  Unmoved(k) /\ Moves(k) /\ UNCHANGED <<startLock, record, st, jobPid, hist>>
  <1>1. CASE ExternalOperation \/ UNCHANGED vars
    BY <1>1 DEF ExternalOperation, vars, locks, Unmoved, Moves
  <1>2. ASSUME NEW j \in Job, Operate(j)
        PROVE  Unmoved(k) /\ UNCHANGED <<startLock, record, st, jobPid, hist>>
    <2>1. \A y \in OfJob \ {Engine(j)} : pc'[y] = pc[y]
      BY <1>2 DEF TypeOK, Positions, Operate, AcquireLock, EndOperation, To
    <2>2. QED
      BY <1>2, <2>1, Names DEF Operate, AcquireLock, EndOperation, Unmoved
  <1>3. QED
    BY <1>1, <1>2 DEF Unmoved, Moves

\* Every process moves as its launch says.
LEMMA AllMove ==
    ASSUME TypeOK, Order, Target, [Next]_vars, NEW k \in Job
    PROVE  Moves(k)
  BY StartMoves, WorkMoves, FaultMoves, StatusMoves, OperateMoves DEF Next

\* Nothing leaves its end, nothing is unborn again, and a launch stays launched.
LEMMA Stable ==
    ASSUME TypeOK, Order, Target, [Next]_vars, NEW k \in Job
    PROVE  /\ pc[Launcher(k)] \in Launched => pc'[Launcher(k)] \in Launched
           /\ \A x \in {Launcher(k), Supervisor(k), Worker(k)} :
                /\ pc[x] = "exited" => pc'[x] = "exited"
                /\ pc[x] # "none" => pc'[x] # "none"
  <1>m. Moves(k)
    BY AllMove
  <1>n. /\ Launcher(k) \in OfJob /\ Supervisor(k) \in OfJob /\ Worker(k) \in OfJob /\ Engine(k) \in OfJob
        /\ Launcher(k) # Supervisor(k) /\ Launcher(k) # Worker(k) /\ Supervisor(k) # Worker(k)
        /\ Worker(k) # Engine(k)
    BY Names
  <1>0. pc \in [OfJob -> PC]
    BY DEF TypeOK, Positions
  <1>1. /\ pc[Launcher(k)] \in Launched => pc'[Launcher(k)] \in Launched
        /\ pc[Launcher(k)] = "exited" => pc'[Launcher(k)] = "exited"
        /\ pc'[Launcher(k)] # "none"
    <2>0. pc[Launcher(k)] # "none"
      BY Positioned DEF LauncherPC, TypeOK
    <2>1. CASE Start(k)
      <3>1. CASE TermJob(k) \/ KillJob(k)
        <4>1. jobPid[k] # Launcher(k)
          BY <3>1 DEF TermJob, KillJob, Target, Launched, GivenUp
        <4>2. pc'[Launcher(k)] \in {"kill", "owner-again"} /\ pc[Launcher(k)] # "exited"
          BY <1>0, <1>n, <3>1, <4>1 DEF TermJob, KillJob
        <4>3. QED
          BY <4>2 DEF Launched, GivenUp
      <3>2. CASE SpawnSupervisor(k)
        BY <1>0, <1>n, <3>2 DEF SpawnSupervisor, Launched, GivenUp
      <3>3. CASE Start(k) /\ ~(TermJob(k) \/ KillJob(k) \/ SpawnSupervisor(k))
        BY <1>0, <1>n, <3>3 DEF Start, Launch, AcquireStartLock, TurnAway, AnswerFalse, TruncateRecord,
           WriteStarting, ReadOwner, AwaitAcknowledgment, Accept, ReadOwnerAgain, ReleaseStartLock,
           Recheck, To, Launched, GivenUp
      <3>4. QED
        BY <2>1, <3>1, <3>2, <3>3
    <2>2. CASE Looks(Launcher(k))
      BY <1>0, <1>n, <2>2 DEF Looks, To, Launched, GivenUp
    <2>3. QED
      BY <1>m, <2>0, <2>1, <2>2 DEF Moves, Ends, Launched
  <1>2. /\ pc[Supervisor(k)] = "exited" => pc'[Supervisor(k)] = "exited"
        /\ pc[Supervisor(k)] # "none" => pc'[Supervisor(k)] # "none"
    <2>1. CASE SpawnSupervisor(k)
      BY <2>1 DEF SpawnSupervisor, Order, OrderOf, Launched, GivenUp
    <2>2. CASE ForkWorker(k) \/ HandOver(k)
      BY <1>0, <1>n, <2>2 DEF ForkWorker, HandOver, To
    <2>3. QED
      BY <1>m, <2>1, <2>2 DEF Moves, Ends
  <1>3. /\ pc[Worker(k)] = "exited" => pc'[Worker(k)] = "exited"
        /\ pc[Worker(k)] # "none" => pc'[Worker(k)] # "none"
    <2>1. CASE ForkWorker(k)
      BY <2>1 DEF ForkWorker, Order, OrderOf
    <2>2. CASE HandOver(k)
      BY <1>0, <1>n, <2>2 DEF HandOver, To
    <2>3. CASE TermEngine(k) \/ RunEngine(k)
      BY <1>0, <1>n, <2>3 DEF TermEngine, RunEngine
    <2>4. CASE Work(k) /\ ~(ForkWorker(k) \/ HandOver(k) \/ TermEngine(k) \/ RunEngine(k))
      BY <1>0, <1>n, <2>4 DEF Work, AwaitHandoff, WriteRunning, AwaitEngine, WriteResult,
         CheckOwnLock, RemoveOwnLock, ReapEngine, WriteInterrupted, To
    <2>5. QED
      BY <1>m, <2>1, <2>2, <2>3, <2>4 DEF Moves, Ends, HasLock, Interrupted
  <1>4. QED
    BY <1>1, <1>2, <1>3

\* Who changes what the processes share, what a launcher knows and what it says.
Frame ==
    /\ \/ UNCHANGED startLock
       \/ \E j \in Job : \/ AcquireStartLock(j) \/ TurnAway(j) \/ ReleaseStartLock(j)
                         \/ HandOver(j) \/ RemoveOwnLock(j)
    /\ \/ UNCHANGED record
       \/ \E j \in Job : \/ TruncateRecord(j) \/ WriteStarting(j)
                         \/ WriteRunning(j) \/ WriteResult(j) \/ WriteInterrupted(j)
    /\ \/ UNCHANGED st
       \/ \E j \in Job : AcquireStartLock(j) \/ TurnAway(j)
       \/ \E c \in Caller : Status(c)
    /\ UNCHANGED jobPid \/ \E j \in Job : SpawnSupervisor(j) \/ ReadOwner(j)
    /\ UNCHANGED answer \/ \E j \in Job : AnswerFalse(j) \/ AwaitAcknowledgment(j) \/ Recheck(j)
    /\ \/ hist'.published = hist.published
       \/ \E j \in Job : /\ WriteRunning(j) \/ WriteInterrupted(j)
                         /\ hist'.published = hist.published \cup {j}

LEMMA Framed ==
    ASSUME TypeOK, [Next]_vars
    PROVE  Frame
  <1>0. hist \in [published : SUBSET Job, harmed : SUBSET Job, stolen : BOOLEAN]
    BY DEF TypeOK
  <1>1. ASSUME NEW j \in Job, Start(j) PROVE Frame
    <2>1. hist'.published = hist.published
      <3>1. hist' = hist \/ (\E J : hist' = [hist EXCEPT !.harmed = J])
                         \/ (\E b : hist' = [hist EXCEPT !.stolen = b])
        BY <1>1 DEF Start, Launch, AcquireStartLock, TurnAway, AnswerFalse, TruncateRecord, WriteStarting,
           SpawnSupervisor, ReadOwner, AwaitAcknowledgment, TermJob, KillJob, ReadOwnerAgain,
           ReleaseStartLock, Recheck, Steal
      <3>2. QED
        BY ONLY <1>0, <3>1
    <2>2. CASE Launch(j) \/ TermJob(j) \/ KillJob(j) \/ ReadOwnerAgain(j)
      BY <2>1, <2>2 DEF Launch, TermJob, KillJob, ReadOwnerAgain, locks, Frame
    <2>3. CASE TruncateRecord(j) \/ WriteStarting(j)
      <3>1. UNCHANGED <<startLock, st, jobPid, answer>>
        BY <2>3 DEF TruncateRecord, WriteStarting, locks
      <3>2. QED
        BY <2>1, <2>3, <3>1 DEF Frame
    <2>4. CASE AcquireStartLock(j) \/ TurnAway(j)
      <3>1. UNCHANGED <<record, jobPid, answer>>
        BY <2>4 DEF AcquireStartLock, TurnAway
      <3>2. QED
        BY <2>1, <2>4, <3>1 DEF Frame
    <2>5. CASE SpawnSupervisor(j) \/ ReadOwner(j)
      <3>1. UNCHANGED <<startLock, record, st, answer>>
        BY <2>5 DEF SpawnSupervisor, ReadOwner, locks
      <3>2. QED
        BY <2>1, <2>5, <3>1 DEF Frame
    <2>6. CASE AnswerFalse(j) \/ AwaitAcknowledgment(j) \/ Recheck(j)
      <3>1. UNCHANGED <<startLock, record, st, jobPid>>
        BY <2>6 DEF AnswerFalse, AwaitAcknowledgment, Recheck, locks
      <3>2. QED
        BY <2>1, <2>6, <3>1 DEF Frame
    <2>7. CASE ReleaseStartLock(j)
      <3>1. UNCHANGED <<record, st, jobPid, answer>>
        BY <2>7 DEF ReleaseStartLock
      <3>2. QED
        BY <2>1, <2>7, <3>1 DEF Frame
    <2>8. QED
      BY <1>1, <2>2, <2>3, <2>4, <2>5, <2>6, <2>7 DEF Start
  <1>2. ASSUME NEW j \in Job, Work(j) PROVE Frame
    <2>1. CASE WriteRunning(j) \/ WriteInterrupted(j)
      <3>1. UNCHANGED <<startLock, st, jobPid, answer>>
        BY <2>1 DEF WriteRunning, WriteInterrupted, locks
      <3>2. hist' = [hist EXCEPT !.published = @ \cup {j}]
        BY <2>1 DEF WriteRunning, WriteInterrupted
      <3>3. hist'.published = hist.published \cup {j}
        BY ONLY <1>0, <3>2
      <3>4. QED
        BY <2>1, <3>1, <3>3 DEF Frame
    <2>2. CASE HandOver(j) \/ RemoveOwnLock(j)
      <3>1. UNCHANGED <<record, st, jobPid, answer>>
        BY <2>2 DEF HandOver, RemoveOwnLock
      <3>2. \E b : hist' = [hist EXCEPT !.stolen = b]
        BY <2>2 DEF HandOver, RemoveOwnLock, Steal
      <3>3. hist'.published = hist.published
        BY ONLY <1>0, <3>2
      <3>4. QED
        BY <2>2, <3>1, <3>3 DEF Frame
    <2>3. CASE WriteResult(j)
      BY <2>3 DEF WriteResult, locks, Frame
    <2>4. QED
      BY <1>2, <2>1, <2>2, <2>3 DEF Work, ForkWorker, AwaitHandoff, RunEngine, AwaitEngine,
         CheckOwnLock, TermEngine, ReapEngine, locks, Frame
  <1>3. ASSUME NEW j \in Job, Operate(j) PROVE Frame
    BY <1>3 DEF Operate, AcquireLock, EndOperation, Frame
  <1>4. ASSUME NEW j \in Job, Kill(j) \/ CannotWrite(j) PROVE Frame
    <2>1. /\ hist' = [hist EXCEPT !.harmed = @ \cup {j}]
          /\ UNCHANGED <<startLock, record, st, jobPid, answer>>
      BY <1>4 DEF Kill, CannotWrite, Fault, locks
    <2>2. hist'.published = hist.published
      BY ONLY <1>0, <2>1
    <2>3. QED
      BY <2>1, <2>2 DEF Frame
  <1>5. ASSUME NEW c \in Caller, Status(c) PROVE Frame
    BY <1>5, StatusLooks DEF Looks, locks, Frame
  <1>6. ASSUME ExternalOperation \/ UNCHANGED vars PROVE Frame
    BY <1>6 DEF ExternalOperation, vars, locks, Frame
  <1>7. QED
    BY <1>1, <1>2, <1>3, <1>4, <1>5, <1>6 DEF Next

LEMMA OrderStep ==
    ASSUME TypeOK, Order, Target, [Next]_vars
    PROVE  Order'
  <1> SUFFICES ASSUME NEW k \in Job PROVE OrderOf(k)'
    BY DEF Order
  <1>m. Moves(k) /\ Frame
    BY AllMove, Framed
  <1>s. /\ pc[Launcher(k)] \in Launched => pc'[Launcher(k)] \in Launched
        /\ \A x \in {Launcher(k), Supervisor(k), Worker(k)} :
             /\ pc[x] = "exited" => pc'[x] = "exited"
             /\ pc[x] # "none" => pc'[x] # "none"
    BY Stable
  <1>g. hist.published \subseteq hist'.published /\ hist.harmed \subseteq hist'.harmed
    BY HistoryGrows
  <1>o. OrderOf(k)
    BY DEF Order
  <1>n. /\ Launcher(k) \in OfJob /\ Supervisor(k) \in OfJob /\ Worker(k) \in OfJob /\ Engine(k) \in OfJob
        /\ Launcher(k) # Supervisor(k) /\ Launcher(k) # Worker(k) /\ Supervisor(k) # Worker(k)
        /\ Worker(k) # Engine(k) /\ Worker(k) # NoPid
    BY Names
  <1>0. pc \in [OfJob -> PC]
    BY DEF TypeOK, Positions
  <1>l. pc'[Launcher(k)] # pc[Launcher(k)] =>
          \/ pc'[Launcher(k)] \notin {"idle", "lock"} /\ pc'[Launcher(k)] \notin Launched \ {"exited"}
          \/ Launch(k)
          \/ SpawnSupervisor(k)
          \/ pc[Launcher(k)] \in Launched \ {"exited"}
    BY <1>m, <1>n, <1>0 DEF Moves, Ends, Start, AcquireStartLock, TurnAway, AnswerFalse, TruncateRecord,
       WriteStarting, ReadOwner, AwaitAcknowledgment, Accept, TermJob, KillJob, ReadOwnerAgain,
       ReleaseStartLock, Recheck, Looks, To, Launched, GivenUp
  <1>1. pc'[Launcher(k)] \in {"idle", "lock"} => st'[Launcher(k)].for = "print"
    <2>1. ASSUME pc'[Launcher(k)] \in {"idle", "lock"}
          PROVE  pc[Launcher(k)] \in {"idle", "lock"} /\ ~Looks(Launcher(k))
                 /\ ~AcquireStartLock(k) /\ ~TurnAway(k)
      BY <2>1, <1>l, <1>s, <1>n, <1>0 DEF Launch, SpawnSupervisor, AcquireStartLock, TurnAway, To, Looks,
         Launched, GivenUp
    <2>2. ASSUME NEW j \in Job, AcquireStartLock(j) \/ TurnAway(j), j # k
          PROVE  st'[Launcher(k)] = st[Launcher(k)]
      BY <2>2, Names DEF AcquireStartLock, TurnAway, TypeOK
    <2>3. ASSUME NEW c \in Caller, Status(c), c # Launcher(k) PROVE st'[Launcher(k)] = st[Launcher(k)]
      BY <2>3, StatusLooks, Names DEF Looks, TypeOK
    <2>4. QED
      BY <1>m, <1>o, <2>1, <2>2, <2>3, StatusLooks DEF Frame, OrderOf
  <1>2. pc'[Supervisor(k)] # "none" => pc'[Launcher(k)] \in Launched
    <2>1. CASE SpawnSupervisor(k)
      BY <2>1, <1>0, <1>n DEF SpawnSupervisor, Launched
    <2>2. CASE pc[Supervisor(k)] # "none"
      BY <2>2, <1>s, <1>o DEF OrderOf
    <2>3. CASE pc[Supervisor(k)] = "none" /\ ~SpawnSupervisor(k)
      BY <2>3, <1>m DEF Moves, Ends, ForkWorker, HandOver
    <2>4. QED
      BY <2>1, <2>2, <2>3
  <1>3. pc'[Launcher(k)] \in Launched \ {"exited"} => pc'[Supervisor(k)] # "none"
    <2>1. CASE SpawnSupervisor(k)
      BY <2>1, <1>0, <1>n DEF SpawnSupervisor
    <2>2. CASE Launch(k)
      BY <2>2, <1>0, <1>n DEF Launch, To, Launched, GivenUp
    <2>3. QED
      BY <2>1, <2>2, <1>l, <1>s, <1>o DEF OrderOf
  <1>4. /\ pc'[Supervisor(k)] \in {"none", "fork"} => pc'[Worker(k)] = "none"
        /\ pc'[Supervisor(k)] = "handover" => pc'[Worker(k)] # "none"
    <2>1. CASE ForkWorker(k)
      BY <2>1, <1>0, <1>n DEF ForkWorker
    <2>2. ASSUME pc'[Supervisor(k)] \in {"none", "fork"}, ~ForkWorker(k)
          PROVE  pc[Worker(k)] = "none" /\ ~HandOver(k)
      BY <2>2, <1>m, <1>o, <1>0, <1>n DEF Moves, Ends, OrderOf, SpawnSupervisor, HandOver, To, Launched, GivenUp
    <2>3. ASSUME pc'[Supervisor(k)] = "handover", ~ForkWorker(k)
          PROVE  pc[Supervisor(k)] = "handover"
      BY <2>3, <1>m, <1>0, <1>n DEF Moves, Ends, SpawnSupervisor, HandOver, To
    <2>4. ASSUME pc[Worker(k)] = "none", ~ForkWorker(k), ~HandOver(k) PROVE pc'[Worker(k)] = "none"
      BY <2>4, <1>m DEF Moves, Ends, HasLock, Interrupted, Work, AwaitHandoff, WriteRunning, RunEngine,
         AwaitEngine, WriteResult, CheckOwnLock, RemoveOwnLock, TermEngine, ReapEngine, WriteInterrupted
    <2>5. QED
      BY <2>1, <2>2, <2>3, <2>4, <1>s, <1>o DEF OrderOf
  <1>w. /\ pc'[Worker(k)] \in HasLock => pc[Worker(k)] \in HasLock \/ startLock = Worker(k)
        /\ pc'[Worker(k)] \in {"run", "wait", "finish"} =>
             pc[Worker(k)] \in {"run", "wait", "finish"} \/ WriteRunning(k)
        /\ pc'[Worker(k)] \in Interrupted => pc[Worker(k)] \in Interrupted \/ k \in hist'.harmed
    <2>1. CASE TermEngine(k) \/ RunEngine(k) \/ ForkWorker(k)
      BY <2>1, <1>0, <1>n DEF TermEngine, RunEngine, ForkWorker, HasLock, Interrupted
    <2>2. CASE HandOver(k)
      BY <2>2, <1>0, <1>n DEF HandOver, To
    <2>3. CASE Work(k) /\ ~(ForkWorker(k) \/ HandOver(k) \/ TermEngine(k) \/ RunEngine(k))
      BY <2>3, <1>0, <1>n DEF Work, AwaitHandoff, WriteRunning, AwaitEngine, WriteResult,
         CheckOwnLock, RemoveOwnLock, ReapEngine, WriteInterrupted, To, HasLock, Interrupted
    <2>4. QED
      BY <1>m, <2>1, <2>2, <2>3 DEF Moves, Ends, HasLock, Interrupted
  <1>5. pc'[Worker(k)] \in HasLock => pc'[Supervisor(k)] = "exited"
    BY <1>w, <1>s, <1>o DEF OrderOf
  <1>6. startLock' = Worker(k) => pc'[Supervisor(k)] = "exited" /\ pc'[Worker(k)] # "none"
    <2>1. ASSUME NEW j \in Job, HandOver(j), startLock' = Worker(k)
          PROVE  pc'[Supervisor(k)] = "exited" /\ pc[Worker(k)] # "none"
      <3>1. j = k
        <4>1. Worker(j) = Worker(k)
          BY <2>1 DEF HandOver
        <4>2. QED
          BY <4>1, Names
      <3>2. QED
        BY <2>1, <3>1, <1>0, <1>n, <1>o DEF HandOver, To, OrderOf
    <2>2. ASSUME NEW j \in Job, AcquireStartLock(j) \/ TurnAway(j) \/ ReleaseStartLock(j) \/ RemoveOwnLock(j),
                 startLock' = Worker(k)
          PROVE  startLock = Worker(k)
      BY <2>2, Names DEF AcquireStartLock, TurnAway, ReleaseStartLock, RemoveOwnLock
    <2>3. QED
      BY <2>1, <2>2, <1>m, <1>s, <1>o DEF Frame, OrderOf
  <1>7. k \in hist'.published => pc'[Supervisor(k)] = "exited" /\ pc'[Worker(k)] # "none"
    <2>1. ASSUME k \in hist'.published, k \notin hist.published
          PROVE  WriteRunning(k) \/ WriteInterrupted(k)
      BY <2>1, <1>m DEF Frame
    <2>2. ASSUME WriteRunning(k) \/ WriteInterrupted(k)
          PROVE  pc[Worker(k)] # "none" /\ pc[Supervisor(k)] = "exited"
      BY <2>2, <1>o DEF WriteRunning, WriteInterrupted, OrderOf, HasLock, Interrupted
    <2>3. QED
      BY <2>1, <2>2, <1>s, <1>o DEF OrderOf
  <1>8. pc'[Worker(k)] \in {"run", "wait", "finish"} => k \in hist'.published
    <2>1. ASSUME WriteRunning(k) PROVE k \in hist'.published
      <3>1. /\ hist' = [hist EXCEPT !.published = @ \cup {k}]
            /\ hist \in [published : SUBSET Job, harmed : SUBSET Job, stolen : BOOLEAN]
        BY <2>1 DEF WriteRunning, TypeOK
      <3>2. QED
        BY ONLY <3>1
    <2>2. QED
      BY <2>1, <1>w, <1>g, <1>o DEF OrderOf
  <1>9. pc'[Worker(k)] \in Interrupted => k \in hist'.harmed
    BY <1>w, <1>g, <1>o DEF OrderOf
  <1>10. pc'[Launcher(k)] \in GivenUp => k \in hist'.harmed
    <2>1. ASSUME TermJob(k) PROVE k \in hist'.harmed
      <3>1. PICK J : hist' = [hist EXCEPT !.harmed = @ \cup {k, J}]
        BY <2>1 DEF TermJob
      <3>2. hist \in [published : SUBSET Job, harmed : SUBSET Job, stolen : BOOLEAN]
        BY DEF TypeOK
      <3>3. QED
        BY ONLY <3>1, <3>2
    <2>2. pc'[Launcher(k)] \in GivenUp => pc[Launcher(k)] \in GivenUp \/ TermJob(k)
      BY <1>m, <1>n, <1>0 DEF Moves, Ends, Start, Launch, AcquireStartLock, TurnAway, AnswerFalse,
         TruncateRecord, WriteStarting, SpawnSupervisor, ReadOwner, AwaitAcknowledgment, Accept, KillJob,
         ReadOwnerAgain, ReleaseStartLock, Recheck, Looks, To, GivenUp
    <2>3. QED
      BY <2>1, <2>2, <1>g, <1>o DEF OrderOf
  <1>11. QED
    BY <1>1, <1>2, <1>3, <1>4, <1>5, <1>6, <1>7, <1>8, <1>9, <1>10 DEF OrderOf

LEMMA TargetStep ==
    ASSUME TypeOK, Order, Target, [Next]_vars
    PROVE  Target'
  <1> SUFFICES ASSUME NEW k \in Job
               PROVE  /\ pc'[Launcher(k)] \in Launched \ {"exited"} => jobPid'[k] \in Pids \ {Launcher(k)}
                      /\ pc'[Launcher(k)] = "kill" => jobPid'[k][2] \in hist'.harmed
                      /\ \A i \in Job : /\ jobPid'[k] = Supervisor(i) => i = k
                                        /\ jobPid'[k] = Worker(i) => /\ pc'[Supervisor(i)] = "exited"
                                                                     /\ pc'[Worker(i)] # "none"
    BY DEF Target
  <1>m. Moves(k) /\ Frame
    BY AllMove, Framed
  <1>g. hist.harmed \subseteq hist'.harmed
    BY HistoryGrows
  <1>n. /\ Launcher(k) \in OfJob /\ Supervisor(k) \in OfJob /\ Launcher(k) # Supervisor(k)
        /\ Supervisor(k) \in Pids
    BY Names, Kinds
  <1>0. pc \in [OfJob -> PC] /\ jobPid \in [Job -> Pids \cup {NoPid}] /\ startLock \in Owners \cup {NoPid}
    BY DEF TypeOK, Positions
  <1>p. \/ jobPid'[k] = jobPid[k]
        \/ SpawnSupervisor(k) /\ jobPid'[k] = Supervisor(k)
        \/ ReadOwner(k) /\ jobPid'[k] = startLock /\ startLock \notin {NoPid, Launcher(k)}
    <2>1. ASSUME NEW j \in Job, SpawnSupervisor(j) \/ ReadOwner(j), j # k PROVE jobPid'[k] = jobPid[k]
      BY <2>1, <1>0 DEF SpawnSupervisor, ReadOwner
    <2>2. ASSUME SpawnSupervisor(k) \/ ReadOwner(k) PROVE <1>p
      BY <2>2, <1>0 DEF SpawnSupervisor, ReadOwner
    <2>3. QED
      BY <1>m, <2>1, <2>2 DEF Frame
  <1>l. /\ pc'[Launcher(k)] \in Launched \ {"exited"} =>
             SpawnSupervisor(k) \/ pc[Launcher(k)] \in Launched \ {"exited"}
        /\ pc'[Launcher(k)] = "kill" => pc[Launcher(k)] = "kill" \/ TermJob(k)
    BY <1>m, <1>n, <1>0 DEF Moves, Ends, Start, Launch, AcquireStartLock, TurnAway, AnswerFalse,
       TruncateRecord, WriteStarting, SpawnSupervisor, ReadOwner, AwaitAcknowledgment, Accept, TermJob, KillJob,
       ReadOwnerAgain, ReleaseStartLock, Recheck, Looks, To, Launched, GivenUp
  <1>1. pc'[Launcher(k)] \in Launched \ {"exited"} => jobPid'[k] \in Pids \ {Launcher(k)}
    <2>1. CASE SpawnSupervisor(k)
      BY <1>0, <1>n, <2>1 DEF SpawnSupervisor
    <2>2. ASSUME ReadOwner(k), jobPid'[k] = startLock, startLock \notin {NoPid, Launcher(k)}
          PROVE  jobPid'[k] \in Pids \ {Launcher(k)}
      BY <1>0, <2>2, Kinds
    <2>3. QED
      BY <1>p, <1>l, <1>n, <2>1, <2>2 DEF Target
  <1>2. pc'[Launcher(k)] = "kill" => jobPid'[k][2] \in hist'.harmed
    <2>1. CASE TermJob(k)
      <3>1. /\ hist' = [hist EXCEPT !.harmed = @ \cup {k, jobPid[k][2]}] /\ jobPid' = jobPid
            /\ hist \in [published : SUBSET Job, harmed : SUBSET Job, stolen : BOOLEAN]
        BY <2>1 DEF TermJob, TypeOK
      <3>2. QED
        BY ONLY <3>1
    <2>2. CASE pc[Launcher(k)] = "kill"
      <3>1. jobPid'[k] = jobPid[k]
        BY <1>p, <2>2 DEF SpawnSupervisor, ReadOwner
      <3>2. QED
        BY <1>g, <2>2, <3>1 DEF Target
    <2>3. QED
      BY <1>l, <2>1, <2>2
  <1>3. ASSUME NEW i \in Job, jobPid'[k] = Supervisor(i) PROVE i = k
    <2>1. startLock # Supervisor(i)
      BY <1>0, Names DEF Owners
    <2>2. QED
      BY <1>p, <1>3, <2>1, Names DEF Target
  <1>4. ASSUME NEW i \in Job, jobPid'[k] = Worker(i)
        PROVE  pc'[Supervisor(i)] = "exited" /\ pc'[Worker(i)] # "none"
    <2>1. jobPid[k] = Worker(i) \/ startLock = Worker(i)
      BY <1>p, <1>4, Names
    <2>2. pc[Supervisor(i)] = "exited" /\ pc[Worker(i)] # "none"
      BY <2>1 DEF Target, Order, OrderOf
    <2>3. QED
      BY <2>2, Stable
  <1>5. QED
    BY <1>1, <1>2, <1>3, <1>4

\* What holds of every state, whatever was stolen or mistaken.
Lawful == TypeOK /\ Order /\ Target

LEMMA InitLawful == Init => Lawful
  <1> SUFFICES ASSUME Init PROVE Lawful
    OBVIOUS
  <1>1. TypeOK
    BY InitType
  <1>2. ASSUME NEW j \in Job
        PROVE  /\ pc[Launcher(j)] = "idle" /\ pc[Supervisor(j)] = "none" /\ pc[Worker(j)] = "none"
               /\ st[Launcher(j)].for = "print" /\ startLock # Worker(j) /\ j \notin hist.published
               /\ jobPid[j] = NoPid
    BY <1>2, Names DEF Init, NoStatus
  <1>3. Order
    BY <1>2 DEF Order, OrderOf, Launched, HasLock, Interrupted, GivenUp
  <1>4. Target
    <2>1. ASSUME NEW i \in Job PROVE NoPid # Supervisor(i) /\ NoPid # Worker(i)
      BY Names
    <2>2. "idle" \notin Launched /\ "idle" # "kill"
      BY DEF Launched, GivenUp
    <2>3. QED
      BY <1>2, <2>1, <2>2 DEF Target
  <1>5. QED
    BY <1>1, <1>3, <1>4 DEF Lawful

LEMMA LawfulStep == Lawful /\ [Next]_vars => Lawful'
  BY TypeStep, OrderStep, TargetStep DEF Lawful
-----------------------------------------------------------------------------
(* What is recorded and what is read                                       *)

LEMMA Lines ==
    ASSUME NEW r \in Records
    PROVE  /\ r.status \in {"absent", "starting", "running", "done", "interrupted"}
           /\ r.status = "absent" => r = NoRecord
           /\ r.status = "starting" => \E j \in Job : /\ r = Record("starting", Launcher(j))
                                                      /\ r.pid = Launcher(j) /\ r.by = j
           /\ r.status \in {"running", "done", "interrupted"} =>
                \E j \in Job : /\ r = Record(r.status, Worker(j))
                               /\ r.pid = Worker(j) /\ r.by = j
  <1>1. CASE r = NoRecord
    BY <1>1 DEF NoRecord
  <1>2. CASE \E j \in Job : r = Record("starting", Launcher(j))
    BY <1>2, Names DEF Record
  <1>3. CASE \E s \in {"running", "done", "interrupted"}, j \in Job : r = Record(s, Worker(j))
    BY <1>3, Names DEF Record
  <1>4. QED
    BY <1>1, <1>2, <1>3 DEF Records

\* The record changes only as its writers say.
LEMMA Written ==
    ASSUME TypeOK, [Next]_vars
    PROVE  \/ record' = record
           \/ record' = NoRecord
           \/ \E j \in Job : WriteStarting(j) /\ record' = Record("starting", Launcher(j))
           \/ \E j \in Job : \/ WriteRunning(j) /\ record' = Record("running", Worker(j))
                             \/ WriteResult(j) /\ record' = Record("done", Worker(j))
                             \/ WriteInterrupted(j) /\ record' = Record("interrupted", Worker(j))
  BY Framed DEF Frame, TruncateRecord, WriteStarting, WriteRunning, WriteResult, WriteInterrupted

LEMMA Publishes ==
    ASSUME TypeOK, NEW j \in Job, WriteRunning(j) \/ WriteInterrupted(j)
    PROVE  j \in hist'.published
  <1>1. /\ hist' = [hist EXCEPT !.published = @ \cup {j}]
        /\ hist \in [published : SUBSET Job, harmed : SUBSET Job, stolen : BOOLEAN]
    BY DEF WriteRunning, WriteInterrupted, TypeOK
  <1>2. QED
    BY ONLY <1>1

LEMMA RecordedStep ==
    ASSUME Lawful, Recorded, [Next]_vars
    PROVE  Recorded'
  <1> USE DEF Lawful
  <1>0. record \in Records /\ pc \in [OfJob -> PC]
    BY DEF TypeOK, Positions
  <1>g. hist.published \subseteq hist'.published /\ hist.harmed \subseteq hist'.harmed
    BY HistoryGrows
  <1>1. CASE record' = record /\ record.status = "starting"
    <2>1. PICK j \in Job : record.pid = Launcher(j) /\ record.by = j
      BY <1>0, <1>1, Lines
    <2>2. pc[Launcher(j)] \in {"spawn"} \cup Launched
      BY <1>1, <2>1 DEF Recorded
    <2>3. Moves(j) /\ (pc[Launcher(j)] \in Launched => pc'[Launcher(j)] \in Launched)
      BY AllMove, Stable
    <2>n. /\ Launcher(j) \in OfJob /\ Supervisor(j) \in OfJob /\ Launcher(j) # Supervisor(j)
          /\ pc[Launcher(j)] = "exited" => j \in hist.harmed
          /\ pc[Launcher(j)] \in GivenUp => j \in hist.harmed
          /\ ~Acknowledged(j)
          /\ pc[Launcher(j)] \in Launched \ {"exited"} => jobPid[j] # Launcher(j)
      BY <1>1, <2>1, Names DEF Recorded, Order, OrderOf, Acknowledged, Target
    <2>4. pc'[Launcher(j)] \in {"spawn"} \cup Launched
      BY <1>0, <2>2, <2>3, <2>n DEF Moves, Ends, Start, Launch, AcquireStartLock, TurnAway, AnswerFalse,
         TruncateRecord, WriteStarting, SpawnSupervisor, ReadOwner, AwaitAcknowledgment, TermJob, KillJob,
         ReadOwnerAgain, ReleaseStartLock, Recheck, Looks, To, Launched
    <2>5. pc'[Launcher(j)] = "exited" => j \in hist'.harmed
      BY <1>0, <1>g, <2>2, <2>3, <2>n DEF Moves, Ends, Start, Launch, AcquireStartLock, TurnAway,
         AnswerFalse, TruncateRecord, WriteStarting, SpawnSupervisor, ReadOwner, AwaitAcknowledgment, TermJob,
         KillJob, ReadOwnerAgain, ReleaseStartLock, Recheck, Looks, To, Launched, GivenUp
    <2>6. QED
      BY <1>1, <2>1, <2>4, <2>5 DEF Recorded
  <1>2. CASE record' = record /\ record.status \in {"running", "done", "interrupted"}
    <2>1. PICK j \in Job : record.pid = Worker(j) /\ record.by = j /\ record = Record(record.status, Worker(j))
      BY <1>0, <1>2, Lines
    <2>2. j \in hist'.published
      BY <1>2, <1>g, <2>1 DEF Recorded
    <2>3. CASE record.status = "running"
      <3>1. pc[Worker(j)] \in {"run", "wait", "finish"} \/ j \in hist.harmed
        BY <2>1, <2>3 DEF Recorded
      <3>2. Moves(j)
        BY AllMove
      <3>3. /\ Worker(j) \in OfJob /\ Supervisor(j) \in OfJob /\ Engine(j) \in OfJob
            /\ Worker(j) # Supervisor(j) /\ Worker(j) # Engine(j)
        BY Names
      <3>4. ~WriteResult(j)
        BY <1>2, <2>3 DEF WriteResult, Record
      <3>5. pc'[Worker(j)] \in {"run", "wait", "finish"} \/ j \in hist'.harmed
        <4>1. CASE RunEngine(j) \/ AwaitEngine(j) \/ HandOver(j)
          BY <1>0, <1>g, <3>1, <3>3, <4>1 DEF RunEngine, AwaitEngine, HandOver, To
        <4>2. ASSUME Work(j), ~(RunEngine(j) \/ AwaitEngine(j) \/ HandOver(j))
              PROVE  pc[Worker(j)] \notin {"run", "wait", "finish"}
          BY <3>4, <4>2 DEF Work, ForkWorker, AwaitHandoff, WriteRunning, CheckOwnLock, RemoveOwnLock,
             TermEngine, ReapEngine, WriteInterrupted, Order, OrderOf
        <4>3. QED
          BY <1>g, <3>1, <3>2, <4>1, <4>2 DEF Moves, Ends
      <3>6. QED
        BY <1>2, <2>1, <2>2, <2>3, <3>5 DEF Recorded
    <2>4. QED
      BY <1>2, <2>1, <2>2, <2>3 DEF Recorded
  <1>3. CASE record'.status = "absent"
    BY <1>3 DEF Recorded
  <1>4. ASSUME NEW j \in Job, WriteStarting(j), record' = Record("starting", Launcher(j)) PROVE Recorded'
    <2>1. pc'[Launcher(j)] = "spawn"
      BY <1>0, <1>4, Names DEF WriteStarting, To
    <2>2. QED
      BY <1>4, <2>1, Names DEF Recorded, Record
  <1>5. ASSUME NEW j \in Job,
               \/ WriteRunning(j) /\ record' = Record("running", Worker(j))
               \/ WriteResult(j) /\ record' = Record("done", Worker(j))
               \/ WriteInterrupted(j) /\ record' = Record("interrupted", Worker(j))
        PROVE  Recorded'
    <2>1. j \in hist'.published
      BY <1>5, <1>g, Publishes DEF WriteResult, Order, OrderOf
    <2>2. record'.status = "running" => pc'[Worker(j)] = "run"
      BY <1>0, <1>5, Names DEF WriteRunning, To, Record
    <2>3. QED
      BY <1>5, <2>1, <2>2, Names DEF Recorded, Record
  <1>6. record.status \in {"absent", "starting", "running", "done", "interrupted"} /\ NoRecord.status = "absent"
    BY <1>0, Lines DEF NoRecord
  <1>7. QED
    BY <1>1, <1>2, <1>3, <1>4, <1>5, <1>6, Written

Scanning == {"owner?", "pid?", "handoff?", "again?", "operation?", "told"}

\* A launcher that looks at the status either takes a step of the look, goes on
\* knowing what it knew, or begins anew.
LEMMA Sees ==
    ASSUME Lawful, [Next]_vars, NEW k \in Job
    PROVE  \/ Status(Launcher(k))
           \/ /\ st'[Launcher(k)] = st[Launcher(k)]
              /\ pc'[Launcher(k)] = pc[Launcher(k)] \/ pc'[Launcher(k)] \notin {"record?"} \cup Scanning
           \/ /\ pc'[Launcher(k)] = "record?"
              /\ st'[Launcher(k)].line \in {st[Launcher(k)].line, NoRecord}
              /\ AcquireStartLock(k) \/ TurnAway(k)
  <1> USE DEF Lawful
  <1>n. Launcher(k) \in OfJob /\ Launcher(k) \in Caller /\ Supervisor(k) \in OfJob /\ Launcher(k) # Supervisor(k)
    BY Names
  <1>0. pc \in [OfJob -> PC] /\ st \in [Caller -> Readings]
    BY DEF TypeOK, Positions
  <1>m. Moves(k) /\ Frame
    BY AllMove, Framed
  <1>1. CASE AcquireStartLock(k) \/ TurnAway(k)
    <2>1. pc'[Launcher(k)] = "record?"
      BY <1>0, <1>1, <1>n DEF AcquireStartLock, TurnAway, To
    <2>2. st'[Launcher(k)].line \in {st[Launcher(k)].line, NoRecord}
      <3>1. st'[Launcher(k)] \in {st[Launcher(k)], [st[Launcher(k)] EXCEPT !.for = "check"], NoStatus}
        BY <1>0, <1>1, <1>n DEF AcquireStartLock, TurnAway
      <3>2. st[Launcher(k)] \in Readings
        BY <1>0, <1>n
      <3>3. NoStatus.line = NoRecord
        BY DEF NoStatus
      <3>4. [st[Launcher(k)] EXCEPT !.for = "check"].line = st[Launcher(k)].line
        BY ONLY <3>2 DEF Readings
      <3>5. QED
        BY <3>1, <3>3, <3>4
    <2>3. QED
      BY <1>1, <2>1, <2>2
  <1>2. CASE ~(AcquireStartLock(k) \/ TurnAway(k)) /\ ~Status(Launcher(k))
    <2>1. ASSUME NEW j \in Job, AcquireStartLock(j) \/ TurnAway(j) PROVE st'[Launcher(k)] = st[Launcher(k)]
      <3>1. Launcher(j) # Launcher(k)
        BY <1>2, <2>1, Names
      <3>2. QED
        BY <1>0, <1>n, <2>1, <3>1 DEF AcquireStartLock, TurnAway
    <2>2. ASSUME NEW c \in Caller, Status(c) PROVE st'[Launcher(k)] = st[Launcher(k)]
      BY <1>0, <1>2, <1>n, <2>2, StatusLooks DEF Looks
    <2>3. st'[Launcher(k)] = st[Launcher(k)]
      BY <1>m, <2>1, <2>2 DEF Frame
    <2>4. pc'[Launcher(k)] = pc[Launcher(k)] \/ pc'[Launcher(k)] \notin {"record?"} \cup Scanning
      <3>1. CASE TermJob(k) \/ KillJob(k)
        BY <1>0, <1>n, <3>1 DEF TermJob, KillJob, Target, Launched, GivenUp, Scanning
      <3>2. CASE SpawnSupervisor(k)
        BY <1>0, <1>n, <3>2 DEF SpawnSupervisor, Scanning
      <3>3. CASE Start(k) /\ ~(TermJob(k) \/ KillJob(k) \/ SpawnSupervisor(k))
        BY <1>0, <1>2, <1>n, <3>3 DEF Start, Launch, AnswerFalse, TruncateRecord, WriteStarting, ReadOwner,
           AwaitAcknowledgment, Accept, ReadOwnerAgain, ReleaseStartLock, Recheck, To, Scanning
      <3>4. QED
        BY <1>2, <1>m, <3>1, <3>2, <3>3 DEF Moves, Ends, Scanning
    <2>5. QED
      BY <2>3, <2>4
  <1>3. QED
    BY <1>1, <1>2

\* A recorded process that has ended was harmed, while its record is pending.
LEMMA DeadWasHarmed ==
    ASSUME Lawful, Recorded, Pending(record), pc[record.pid] = "exited"
    PROVE  record.by \in hist.harmed
  BY DEF Recorded, Pending

\* One call of the look itself.
LEMMA WatchingLook ==
    ASSUME Lawful, Recorded, NEW c \in Caller, WatchingOf(c), Status(c)
    PROVE  /\ st'[c].line.status \in {"running", "done", "interrupted"} =>
                st'[c].line.by \in hist.published
           /\ pc'[c] \in {"owner?", "pid?", "handoff?", "again?"} => Pending(st'[c].line)
           /\ pc'[c] \in {"handoff?", "again?"} => pc[st'[c].line.pid] = "exited"
           /\ pc'[c] \in {"operation?", "told"} /\ st'[c].says = "died" =>
                st'[c].line.by \in hist.harmed \/ st'[c].torn
  <1> DEFINE Right(r, l) == /\ r.line.status \in {"running", "done", "interrupted"} => r.line.by \in hist.published
                            /\ l \in {"owner?", "pid?", "handoff?", "again?"} => Pending(r.line)
                            /\ l \in {"handoff?", "again?"} => pc[r.line.pid] = "exited"
                            /\ l \in {"operation?", "told"} /\ r.says = "died" =>
                                 r.line.by \in hist.harmed \/ r.torn
  <1>0. /\ pc \in [OfJob -> PC] /\ st \in [Caller -> Readings] /\ c \in OfJob /\ record \in Records
        /\ st[c] \in Readings /\ st[c].line \in Records
    BY Names DEF Lawful, TypeOK, Positions, Readings
  <1>1. SUFFICES Right(st'[c], pc'[c])
    OBVIOUS
  <1>2. /\ st[c].line.status \in {"running", "done", "interrupted"} => st[c].line.by \in hist.published
        /\ record.status \in {"running", "done", "interrupted"} => record.by \in hist.published
    BY DEF WatchingOf, Recorded
  <1>3. ASSUME NEW s \in Readings, NEW w
        PROVE  /\ [s EXCEPT !.says = w].line = s.line /\ [s EXCEPT !.says = w].says = w
               /\ [s EXCEPT !.says = w].torn = s.torn
    BY ONLY s \in Readings DEF Readings
  <1>4. ASSUME NEW s \in Readings, NEW w, NEW l, Say(c, s, w, l)
        PROVE  /\ st'[c].line = s.line /\ st'[c].says = w /\ st'[c].torn = s.torn
               /\ pc'[c] = l
    <2>1. st'[c] = [s EXCEPT !.says = w] /\ pc'[c] = l
      BY <1>0, <1>4 DEF Say, To
    <2>2. QED
      BY <1>3, <2>1
  <1>5. ASSUME NEW s \in Readings, Judge(c, s, record) PROVE Right(st'[c], pc'[c])
    <2>1. CASE Pending(record)
      <3>1. st'[c] = [s EXCEPT !.line = record] /\ pc'[c] = "owner?"
        BY <1>0, <1>5, <2>1 DEF Judge, To
      <3>2. [s EXCEPT !.line = record].line = record
        BY ONLY s \in Readings DEF Readings
      <3>3. QED
        BY <1>2, <2>1, <3>1, <3>2
    <2>2. CASE ~Pending(record)
      <3> DEFINE w == IF Finished(record) THEN "finished" ELSE "idle"
      <3>1. st'[c] = [s EXCEPT !.line = record, !.says = w] /\ pc'[c] = "operation?"
        BY <1>0, <1>5, <2>2 DEF Judge, To
      <3> HIDE DEF w
      <3>2. /\ [s EXCEPT !.line = record, !.says = w].line = record
            /\ [s EXCEPT !.line = record, !.says = w].says = w
        BY ONLY s \in Readings DEF Readings
      <3>3. w # "died"
        BY DEF w
      <3>4. QED
        BY <1>2, <3>1, <3>2, <3>3
    <2>3. QED
      BY <2>1, <2>2
  <1>6. CASE ReadRecord(c)
    <2>1. NoStatus \in Readings
      BY Kinds DEF NoStatus, Readings, Statuses
    <2>2. st[c].for \in {"print", "check"}
      BY <1>0 DEF Readings
    <2>3. [NoStatus EXCEPT !.for = st[c].for] \in Readings
      BY ONLY <2>1, <2>2 DEF Readings
    <2>4. QED
      BY <1>5, <1>6, <2>3 DEF ReadRecord
  <1>7. CASE ReadHandoff(c)
    <2>1. PICK h : st' = [st EXCEPT ![c] = [st[c] EXCEPT !.handoff = h]]
      BY <1>0, <1>7 DEF ReadHandoff
    <2>2. st'[c] = [st[c] EXCEPT !.handoff = h] /\ pc'[c] = "pid?"
      BY <1>0, <1>7, <2>1 DEF ReadHandoff, To
    <2>3. [st[c] EXCEPT !.handoff = h].line = st[c].line
      BY ONLY <1>0 DEF Readings
    <2>4. QED
      BY <1>2, <1>7, <2>2, <2>3 DEF ReadHandoff, WatchingOf
  <1>8. CASE CheckPid(c)
    <2>1. CASE Say(c, st[c], "busy", "told")
      BY <1>0, <1>2, <1>4, <2>1
    <2>2. CASE ~Alive(st[c].line.pid) /\ To(c, "handoff?") /\ UNCHANGED st
      <3>1. pc'[c] = "handoff?" /\ st'[c] = st[c] /\ Pending(st[c].line)
        BY <1>0, <1>8, <2>2 DEF CheckPid, To, WatchingOf
      <3>2. pc[st[c].line.pid] = "exited"
        <4>1. CASE st[c].line.status = "starting"
          <5>1. PICK j \in Job : st[c].line.pid = Launcher(j)
            BY <1>0, <4>1, Lines
          <5>2. pc[Launcher(j)] # "none"
            BY Positioned DEF Lawful, TypeOK, LauncherPC
          <5>3. QED
            BY <2>2, <5>1, <5>2, Names DEF Alive
        <4>2. CASE st[c].line.status = "running"
          <5>1. PICK j \in Job : st[c].line.pid = Worker(j) /\ st[c].line.by = j
            BY <1>0, <4>2, Lines
          <5>2. pc[Worker(j)] # "none"
            BY <1>2, <4>2, <5>1 DEF Lawful, Order, OrderOf
          <5>3. QED
            BY <2>2, <5>1, <5>2, Names DEF Alive
        <4>3. QED
          BY <3>1, <4>1, <4>2 DEF Pending
      <3>3. QED
        BY <1>2, <3>1, <3>2
    <2>3. QED
      BY <1>8, <2>1, <2>2 DEF CheckPid
  <1>9. CASE CheckHandoff(c)
    <2>1. CASE Say(c, st[c], "busy", "told")
      BY <1>0, <1>2, <1>4, <2>1
    <2>2. CASE To(c, "again?") /\ UNCHANGED st
      <3>1. pc'[c] = "again?" /\ st'[c] = st[c]
        BY <1>0, <2>2 DEF To
      <3>2. Pending(st[c].line) /\ pc[st[c].line.pid] = "exited"
        BY <1>9 DEF CheckHandoff, WatchingOf
      <3>3. QED
        BY <1>2, <3>1, <3>2
    <2>3. QED
      BY <1>9, <2>1, <2>2 DEF CheckHandoff
  <1>10. CASE ReadAgain(c)
    <2> DEFINE more == [st[c] EXCEPT !.tries = @ + 1]
               torn == [st[c] EXCEPT !.torn = record.status = "absent"]
    <2>1. st[c].tries < 2 => more \in Readings
      BY <1>0 DEF Readings
    <2>2. torn \in Readings /\ torn.line = st[c].line /\ torn.torn = (record.status = "absent")
      BY <1>0 DEF Readings
    <2>n. /\ Pending(st[c].line) /\ pc[st[c].line.pid] = "exited"
      BY <1>10 DEF ReadAgain, WatchingOf
    <2> HIDE DEF more, torn
    <2>3. \/ st[c].tries < 2 /\ Judge(c, more, record)
          \/ Say(c, st[c], "busy", "told")
          \/ Say(c, torn, "died", "operation?") /\ (record.status = "absent" \/ record = st[c].line)
      BY <1>10 DEF ReadAgain, more, torn
    <2>4. CASE st[c].tries < 2 /\ Judge(c, more, record)
      BY <1>5, <2>1, <2>4
    <2>5. CASE Say(c, st[c], "busy", "told")
      BY <1>0, <1>2, <1>4, <2>5
    <2>6. CASE Say(c, torn, "died", "operation?") /\ (record.status = "absent" \/ record = st[c].line)
      <3>1. st'[c].line = st[c].line /\ st'[c].torn = (record.status = "absent") /\ pc'[c] = "operation?"
        BY <1>4, <2>2, <2>6
      <3>2. record = st[c].line => st[c].line.by \in hist.harmed
        BY <2>n, DeadWasHarmed
      <3>3. QED
        BY <1>2, <2>6, <3>1, <3>2
    <2>7. QED
      BY <2>3, <2>4, <2>5, <2>6
  <1>11. CASE CheckOperation(c)
    <2>1. Say(c, st[c], IF Alive(opLock) THEN "external" ELSE st[c].says, "told")
      BY <1>11 DEF CheckOperation
    <2>2. /\ st'[c].line = st[c].line /\ st'[c].says \in {"external", st[c].says}
          /\ st'[c].torn = st[c].torn /\ pc'[c] = "told"
      BY <1>0, <1>4, <2>1
    <2>3. QED
      BY <1>2, <1>11, <2>2 DEF CheckOperation, WatchingOf
  <1>12. QED
    BY <1>6, <1>7, <1>8, <1>9, <1>10, <1>11 DEF Status

LEMMA WatchingStep ==
    ASSUME Lawful, Recorded, Watching, [Next]_vars
    PROVE  Watching'
  <1> SUFFICES ASSUME NEW c \in Caller PROVE WatchingOf(c)'
    BY DEF Watching
  <1>1. PICK k \in Job : c = Launcher(k)
    BY Names
  <1>2. WatchingOf(c)
    BY DEF Watching
  <1>g. hist.published \subseteq hist'.published /\ hist.harmed \subseteq hist'.harmed
    BY HistoryGrows DEF Lawful
  <1>3. ASSUME NEW r \in Records, Pending(r), pc[r.pid] = "exited" PROVE pc'[r.pid] = "exited"
    <2>1. PICK j \in Job : r.pid \in {Launcher(j), Worker(j)}
      BY <1>3, Lines DEF Pending
    <2>2. QED
      BY <1>3, <2>1, Stable DEF Lawful
  <1>4. st[c].line \in Records /\ st'[c].line \in Records
    BY TypeStep DEF Lawful, TypeOK, Readings
  <1>5. CASE Status(c)
    <2>1. pc'[c] \in {"handoff?", "again?"} => pc'[st'[c].line.pid] = "exited"
      BY <1>2, <1>3, <1>4, <1>5, WatchingLook
    <2>2. QED
      BY <1>2, <1>5, <1>g, <2>1, WatchingLook DEF WatchingOf
  <1>6. CASE st'[c] = st[c] /\ (pc'[c] = pc[c] \/ pc'[c] \notin {"record?"} \cup Scanning)
    BY <1>2, <1>3, <1>4, <1>6, <1>g DEF WatchingOf, Scanning
  <1>7. CASE pc'[c] = "record?" /\ st'[c].line \in {st[c].line, NoRecord}
    BY <1>2, <1>7, <1>g DEF WatchingOf, NoRecord
  <1>8. QED
    BY <1>1, <1>5, <1>6, <1>7, Sees
-----------------------------------------------------------------------------
(* Who holds the start lock                                                *)

LEMMA NoTheft ==
    ASSUME TypeOK, NEW x, Steal(Anothers(x)), ~hist'.stolen
    PROVE  ~Anothers(x)
  <1>1. hist \in [published : SUBSET Job, harmed : SUBSET Job, stolen : BOOLEAN]
    BY DEF TypeOK
  <1>2. Anothers(x) \in BOOLEAN
    BY DEF Anothers, Alive
  <1>3. hist' = [hist EXCEPT !.stolen = hist.stolen \/ Anothers(x)]
    BY DEF Steal
  <1>4. QED
    BY ONLY <1>1, <1>2, <1>3, ~hist'.stolen

\* A live owner loses the lock, unless it is stolen, to its own launch only.
LEMMA LockKept ==
    ASSUME TypeOK, [Next]_vars, ~hist'.stolen, Alive(startLock)
    PROVE  \/ startLock' = startLock
           \/ \E i \in Job : /\ startLock = Launcher(i)
                             /\ TurnAway(i) \/ ReleaseStartLock(i) \/ HandOver(i)
           \/ \E i \in Job : startLock = Worker(i) /\ RemoveOwnLock(i)
  <1>1. ASSUME NEW i \in Job, TurnAway(i) \/ ReleaseStartLock(i) \/ HandOver(i)
        PROVE  startLock = Launcher(i)
    BY <1>1, NoTheft DEF TurnAway, ReleaseStartLock, HandOver, Anothers
  <1>2. ASSUME NEW i \in Job, RemoveOwnLock(i) PROVE startLock = Worker(i)
    BY <1>2, NoTheft DEF RemoveOwnLock, Anothers
  <1>3. ASSUME NEW i \in Job, AcquireStartLock(i) PROVE startLock' = startLock
    BY <1>3 DEF AcquireStartLock
  <1>4. QED
    BY <1>1, <1>2, <1>3, Framed DEF Frame

LEMMA Living ==
    ASSUME TypeOK, NEW j \in Job
    PROVE  /\ pc[Worker(j)] \in HasLock => Alive(Worker(j))
           /\ pc[Launcher(j)] # "exited" => Alive(Launcher(j))
           /\ Checking(j) => pc[Launcher(j)] \notin {"exited"} \cup Launched
           /\ "exited" \notin Waiting
  <1>1. pc[Launcher(j)] # "none"
    BY Positioned DEF TypeOK, LauncherPC
  <1>2. QED
    BY <1>1, Names DEF Alive, HasLock, Interrupted, Checking, Looking, Launched, GivenUp, Waiting

\* How a launch gets to where the lock must be its own.
LEMMA Arrivals ==
    ASSUME Lawful, [Next]_vars, NEW j \in Job
    PROVE  /\ pc'[Worker(j)] \in HasLock =>
                pc[Worker(j)] \in HasLock \/ (startLock = Worker(j) /\ pc[Worker(j)] = "handoff")
           /\ Checking(j)' => Checking(j) \/ (AcquireStartLock(j) /\ startLock' = Launcher(j))
           /\ pc'[Launcher(j)] = "spawn" =>
                \/ pc[Launcher(j)] = "spawn"
                \/ pc[Launcher(j)] = "starting" /\ WriteStarting(j)
           /\ pc'[Supervisor(j)] \in {"fork", "handover"} =>
                \/ pc[Supervisor(j)] \in {"fork", "handover"} /\ ~HandOver(j)
                \/ pc[Launcher(j)] = "spawn" /\ pc'[Launcher(j)] = "owner"
           /\ pc'[Launcher(j)] \in Waiting =>
                pc[Launcher(j)] \in Waiting \/ pc'[Launcher(j)] = "spawn"
           /\ pc[Launcher(j)] \in Waiting /\ pc'[Launcher(j)] \notin Waiting =>
                \/ j \in hist'.harmed
                \/ AwaitAcknowledgment(j) /\ Acknowledged(j)
           /\ ReleaseStartLock(j) \/ TurnAway(j) => /\ pc'[Launcher(j)] \notin Waiting
                                                    /\ pc[Launcher(j)] \notin Waiting
           /\ RemoveOwnLock(j) => pc'[Worker(j)] \notin HasLock
  <1> USE DEF Lawful
  <1>n. /\ Launcher(j) \in OfJob /\ Supervisor(j) \in OfJob /\ Worker(j) \in OfJob /\ Engine(j) \in OfJob
        /\ Launcher(j) # Supervisor(j) /\ Launcher(j) # Worker(j) /\ Supervisor(j) # Worker(j)
        /\ Worker(j) # Engine(j) /\ Launcher(j) \in Caller
    BY Names
  <1>0. pc \in [OfJob -> PC] /\ st \in [Caller -> Readings]
    BY DEF TypeOK, Positions
  <1>m. Moves(j)
    BY AllMove
  <1>1. pc'[Worker(j)] \in HasLock =>
          pc[Worker(j)] \in HasLock \/ (startLock = Worker(j) /\ pc[Worker(j)] = "handoff")
    <2>1. CASE TermEngine(j) \/ RunEngine(j) \/ ForkWorker(j)
      BY <2>1, <1>0, <1>n DEF TermEngine, RunEngine, ForkWorker, HasLock, Interrupted
    <2>2. CASE HandOver(j)
      BY <2>2, <1>0, <1>n DEF HandOver, To
    <2>3. CASE Work(j) /\ ~(ForkWorker(j) \/ HandOver(j) \/ TermEngine(j) \/ RunEngine(j))
      BY <2>3, <1>0, <1>n DEF Work, AwaitHandoff, WriteRunning, AwaitEngine, WriteResult,
         CheckOwnLock, RemoveOwnLock, ReapEngine, WriteInterrupted, To, HasLock, Interrupted
    <2>4. QED
      BY <1>m, <2>1, <2>2, <2>3 DEF Moves, Ends, HasLock, Interrupted
  <1>2. Checking(j)' => Checking(j) \/ (AcquireStartLock(j) /\ startLock' = Launcher(j))
    <2>1. CASE Status(Launcher(j))
      <3>1. /\ pc[Launcher(j)] \in {"record?"} \cup Scanning
            /\ st'[Launcher(j)].for = st[Launcher(j)].for
        BY <1>0, <1>n, <2>1, StatusLooks DEF Looks, Scanning
      <3>2. pc'[Launcher(j)] # "starting"
        BY <1>0, <1>n, <2>1, StatusLooks DEF Looks, To
      <3>3. QED
        BY <3>1, <3>2 DEF Checking, Looking, Scanning
    <2>2. CASE AcquireStartLock(j)
      <3>1. CASE Alive(startLock)
        <4>1. st'[Launcher(j)].for = "print"
          BY <2>2, <3>1 DEF AcquireStartLock, Order, OrderOf
        <4>2. pc'[Launcher(j)] = "record?"
          BY <1>0, <1>n, <2>2 DEF AcquireStartLock, To
        <4>3. QED
          BY <4>1, <4>2 DEF Checking, Looking
      <3>2. CASE ~Alive(startLock)
        BY <2>2, <3>2 DEF AcquireStartLock
      <3>3. QED
        BY <3>1, <3>2
    <2>3. CASE TurnAway(j)
      BY <2>3 DEF TurnAway, Checking, Looking
    <2>4. CASE /\ st'[Launcher(j)] = st[Launcher(j)]
               /\ pc'[Launcher(j)] = pc[Launcher(j)] \/ pc'[Launcher(j)] \notin {"record?"} \cup Scanning
      <3>1. pc'[Launcher(j)] = "starting" => pc[Launcher(j)] = "starting" \/ Looking(j)
        BY <1>m, <1>n, <1>0 DEF Moves, Ends, Start, Launch, AcquireStartLock, TurnAway, AnswerFalse,
           TruncateRecord, WriteStarting, SpawnSupervisor, ReadOwner, AwaitAcknowledgment, Accept, TermJob,
           KillJob, ReadOwnerAgain, ReleaseStartLock, Recheck, Looks, To, Target, Launched, GivenUp, Looking
      <3>2. QED
        BY <2>4, <3>1 DEF Checking, Looking, Scanning
    <2>5. QED
      BY <2>1, <2>2, <2>3, <2>4, Sees
  <1>3. pc'[Launcher(j)] = "spawn" => pc[Launcher(j)] = "spawn" \/ (pc[Launcher(j)] = "starting" /\ WriteStarting(j))
    BY <1>m, <1>n, <1>0 DEF Moves, Ends, Start, Launch, AcquireStartLock, TurnAway, AnswerFalse,
       TruncateRecord, WriteStarting, SpawnSupervisor, ReadOwner, AwaitAcknowledgment, Accept, TermJob, KillJob,
       ReadOwnerAgain, ReleaseStartLock, Recheck, Looks, To, Target, Launched, GivenUp
  <1>4. pc'[Supervisor(j)] \in {"fork", "handover"} =>
          \/ pc[Supervisor(j)] \in {"fork", "handover"} /\ ~HandOver(j)
          \/ pc[Launcher(j)] = "spawn" /\ pc'[Launcher(j)] = "owner"
    BY <1>m, <1>n, <1>0 DEF Moves, Ends, SpawnSupervisor, ForkWorker, HandOver, To
  <1>5. pc'[Launcher(j)] \in Waiting => pc[Launcher(j)] \in Waiting \/ pc'[Launcher(j)] = "spawn"
    BY <1>m, <1>n, <1>0 DEF Moves, Ends, Start, Launch, AcquireStartLock, TurnAway, AnswerFalse,
       TruncateRecord, WriteStarting, SpawnSupervisor, ReadOwner, AwaitAcknowledgment, Accept, TermJob, KillJob,
       ReadOwnerAgain, ReleaseStartLock, Recheck, Looks, To, Target, Launched, GivenUp, Waiting
  <1>6. pc[Launcher(j)] \in Waiting /\ pc'[Launcher(j)] \notin Waiting =>
          \/ j \in hist'.harmed
          \/ AwaitAcknowledgment(j) /\ Acknowledged(j)
    <2>1. CASE TermJob(j)
      <3>1. PICK i : hist' = [hist EXCEPT !.harmed = @ \cup {j, i}]
        BY <2>1 DEF TermJob
      <3>2. hist \in [published : SUBSET Job, harmed : SUBSET Job, stolen : BOOLEAN]
        BY DEF TypeOK
      <3>3. QED
        BY ONLY <3>1, <3>2
    <2>2. CASE SpawnSupervisor(j)
      BY <1>0, <1>n, <2>2 DEF SpawnSupervisor, Waiting
    <2>3. CASE Start(j) /\ ~TermJob(j) /\ ~SpawnSupervisor(j)
      BY <1>n, <1>0, <2>3 DEF Start, Launch, AcquireStartLock, TurnAway, AnswerFalse,
         TruncateRecord, WriteStarting, ReadOwner, AwaitAcknowledgment, Accept, KillJob,
         ReadOwnerAgain, ReleaseStartLock, Recheck, To, Waiting
    <2>4. QED
      BY <1>m, <2>1, <2>2, <2>3 DEF Moves, Ends, Looks, Waiting
  <1>7. ReleaseStartLock(j) \/ TurnAway(j) => /\ pc'[Launcher(j)] \notin Waiting
                                              /\ pc[Launcher(j)] \notin Waiting
    BY <1>n, <1>0 DEF ReleaseStartLock, TurnAway, To, Waiting
  <1>8. RemoveOwnLock(j) => pc'[Worker(j)] \notin HasLock
    BY <1>n, <1>0 DEF RemoveOwnLock, To, HasLock, Interrupted
  <1>9. QED
    BY <1>1, <1>2, <1>3, <1>4, <1>5, <1>6, <1>7, <1>8

LEMMA LockHeldStep ==
    ASSUME Lawful, LockHeld, [Next]_vars, ~hist'.stolen
    PROVE  LockHeld'
  <1> SUFFICES ASSUME NEW j \in Job PROVE LockHeldOf(j)'
    BY DEF LockHeld
  <1> USE DEF Lawful
  <1>h. \A i \in Job : LockHeldOf(i)
    BY DEF LockHeld
  <1>n. \A i \in Job : /\ Launcher(i) = Launcher(j) => i = j
                       /\ Worker(i) = Worker(j) => i = j
                       /\ Launcher(i) # Worker(j) /\ Worker(i) # Launcher(j)
                       /\ Worker(i) # NoPid /\ Launcher(i) # NoPid
    BY Names
  <1>g. hist.harmed \subseteq hist'.harmed
    BY HistoryGrows
  <1>k. Alive(startLock) =>
           \/ startLock' = startLock
           \/ \E i \in Job : /\ startLock = Launcher(i)
                             /\ TurnAway(i) \/ ReleaseStartLock(i) \/ HandOver(i)
           \/ \E i \in Job : startLock = Worker(i) /\ RemoveOwnLock(i)
    BY LockKept
  \* What the lock's owner may do to it before it has been handed on.
  <1>w. startLock = Worker(j) /\ pc[Worker(j)] \in HasLock \cup {"handoff"} =>
          startLock' = Worker(j) \/ RemoveOwnLock(j)
    <2>1. pc[Worker(j)] \in HasLock \cup {"handoff"} => Alive(Worker(j))
      BY Names DEF Alive, HasLock, Interrupted
    <2>2. QED
      BY <1>k, <1>n, <2>1
  <1>l. startLock = Launcher(j) /\ pc[Launcher(j)] # "exited" =>
          startLock' = Launcher(j) \/ TurnAway(j) \/ ReleaseStartLock(j) \/ HandOver(j)
    BY <1>k, <1>n, Living
  <1>1. pc'[Worker(j)] \in HasLock => startLock' = Worker(j)
    BY <1>h, <1>w, Arrivals DEF LockHeldOf
  <1>2. Checking(j)' \/ pc'[Launcher(j)] = "spawn" => startLock' = Launcher(j)
    <2>1. ASSUME Checking(j) \/ pc[Launcher(j)] = "spawn"
          PROVE  /\ startLock = Launcher(j) /\ pc[Launcher(j)] # "exited"
                 /\ ~HandOver(j)
                 /\ startLock' = Launcher(j) \/ TurnAway(j) \/ ReleaseStartLock(j)
      <3>1. startLock = Launcher(j) /\ pc[Launcher(j)] \notin Launched
        BY <1>h, <2>1, Living DEF LockHeldOf, Launched, GivenUp
      <3>2. ~HandOver(j)
        BY <3>1 DEF HandOver, Order, OrderOf
      <3>3. QED
        BY <1>l, <3>1, <3>2 DEF Launched
    <2>2. ASSUME TurnAway(j) \/ ReleaseStartLock(j)
          PROVE  ~Checking(j)' /\ pc'[Launcher(j)] # "spawn"
      <3>1. CASE TurnAway(j)
        <4>1. pc'[Launcher(j)] = "record?" /\ st'[Launcher(j)] = NoStatus
          BY <3>1, Names DEF TurnAway, To, TypeOK, Positions
        <4>2. QED
          BY <4>1 DEF Checking, Looking, NoStatus
      <3>2. CASE ReleaseStartLock(j)
        <4>1. pc'[Launcher(j)] = "recheck"
          BY <3>2, Names DEF ReleaseStartLock, To, TypeOK, Positions
        <4>2. QED
          BY <4>1 DEF Checking, Looking
      <3>3. QED
        BY <2>2, <3>1, <3>2
    <2>3. pc[Launcher(j)] = "starting" => Checking(j)
      BY DEF Checking
    <2>4. QED
      BY <2>1, <2>2, <2>3, Arrivals
  <1>3. pc'[Supervisor(j)] \in {"fork", "handover"} /\ j \notin hist'.harmed =>
         startLock' = Launcher(j) /\ pc'[Launcher(j)] \in Waiting
    <2>1. ASSUME pc[Supervisor(j)] \in {"fork", "handover"}, ~HandOver(j), j \notin hist'.harmed
          PROVE  startLock' = Launcher(j) /\ pc'[Launcher(j)] \in Waiting
      <3>1. /\ startLock = Launcher(j) /\ pc[Launcher(j)] \in Waiting
            /\ record = Record("starting", Launcher(j))
        BY <1>g, <1>h, <2>1 DEF LockHeldOf
      <3>2. ~Acknowledged(j)
        BY <3>1, Names DEF Acknowledged, Record
      <3>3. pc'[Launcher(j)] \in Waiting
        BY <2>1, <3>1, <3>2, Arrivals
      <3>4. startLock' = Launcher(j)
        BY <1>l, <2>1, <3>1, Living, Arrivals
      <3>5. QED
        BY <3>3, <3>4
    <2>2. ASSUME pc[Launcher(j)] = "spawn", pc'[Launcher(j)] = "owner"
          PROVE  startLock' = Launcher(j) /\ pc'[Launcher(j)] \in Waiting
      <3>1. startLock = Launcher(j) /\ ~HandOver(j)
        BY <1>h, <2>2 DEF LockHeldOf, HandOver, Order, OrderOf, Launched, GivenUp
      <3>2. QED
        BY <1>l, <2>2, <3>1 DEF Waiting, TurnAway, ReleaseStartLock
    <2>3. QED
      BY <2>1, <2>2, Arrivals
  <1>4. startLock' = Launcher(j) /\ pc'[Launcher(j)] \in Waiting =>
         record' = Record("starting", Launcher(j))
    <2> SUFFICES ASSUME startLock' = Launcher(j), pc'[Launcher(j)] \in Waiting
                 PROVE  record' = Record("starting", Launcher(j))
      OBVIOUS
    <2>1. CASE pc[Launcher(j)] \in Waiting
      <3>1. startLock = Launcher(j)
        <4>1. ASSUME NEW i \in Job, AcquireStartLock(i) PROVE i # j
          BY <2>1, <4>1 DEF AcquireStartLock, Waiting
        <4>2. QED
          BY <1>n, <4>1, Framed DEF Frame, AcquireStartLock, TurnAway, ReleaseStartLock, HandOver, RemoveOwnLock
      <3>2. record = Record("starting", Launcher(j))
        BY <1>h, <2>1, <3>1 DEF LockHeldOf
      <3>3. ASSUME NEW i \in Job, TruncateRecord(i) \/ WriteStarting(i) PROVE FALSE
        <4>1. Checking(i)
          BY <3>3 DEF TruncateRecord, WriteStarting, Checking, Looking
        <4>2. i = j
          BY <1>h, <1>n, <3>1, <4>1 DEF LockHeldOf
        <4>3. QED
          BY <2>1, <3>3, <4>2 DEF TruncateRecord, WriteStarting, Waiting
      <3>4. ASSUME NEW i \in Job, WriteRunning(i) \/ WriteResult(i) \/ WriteInterrupted(i) PROVE FALSE
        <4>1. pc[Worker(i)] \in HasLock
          BY <3>4 DEF WriteRunning, WriteResult, WriteInterrupted, HasLock, Interrupted
        <4>2. QED
          BY <1>h, <1>n, <3>1, <4>1 DEF LockHeldOf
      <3>5. QED
        BY <3>2, <3>3, <3>4, Framed DEF Frame
    <2>2. CASE pc[Launcher(j)] = "spawn"
      BY <2>1, <2>2 DEF Waiting
    <2>3. CASE WriteStarting(j)
      BY <2>3 DEF WriteStarting
    <2>4. QED
      BY <2>1, <2>2, <2>3, Arrivals
  <1>5. QED
    BY <1>1, <1>2, <1>3, <1>4 DEF LockHeldOf

LEMMA HeldOne ==
    ASSUME LockHeld
    PROVE  OneJob
  BY Names DEF LockHeld, LockHeldOf, OneJob, Working, HasLock, Interrupted

\* The first theft is the work of a harmed job.
LEMMA FirstTheft ==
    ASSUME Lawful, LockHeld, [Next]_vars, hist'.stolen, ~hist.stolen
    PROVE  \E j \in hist.harmed : Start(j) \/ HandOver(j) \/ RemoveOwnLock(j)
  <1> USE DEF Lawful
  <1>0. hist \in [published : SUBSET Job, harmed : SUBSET Job, stolen : BOOLEAN]
    BY DEF TypeOK
  <1>1. ASSUME NEW x, Steal(Anothers(x)) PROVE Anothers(x)
    <2>1. hist' = [hist EXCEPT !.stolen = hist.stolen \/ Anothers(x)] /\ Anothers(x) \in BOOLEAN
      BY <1>1 DEF Steal, Anothers, Alive
    <2>2. QED
      BY ONLY <1>0, <2>1, hist'.stolen, ~hist.stolen
  <1>2. PICK j \in Job : TurnAway(j) \/ ReleaseStartLock(j) \/ HandOver(j) \/ RemoveOwnLock(j)
    BY HistoryGrows
  <1>3. ~TurnAway(j)
    BY <1>1 DEF TurnAway, LockHeld, LockHeldOf, Checking, Looking, Anothers
  <1>4. ~RemoveOwnLock(j)
    BY <1>1 DEF RemoveOwnLock, LockHeld, LockHeldOf, HasLock, Interrupted, Anothers
  <1>5. ReleaseStartLock(j) => j \in hist.harmed
    BY DEF ReleaseStartLock, Order, OrderOf, GivenUp
  <1>6. HandOver(j) => j \in hist.harmed
    BY <1>1 DEF HandOver, LockHeld, LockHeldOf, Anothers
  <1>7. QED
    BY <1>2, <1>3, <1>4, <1>5, <1>6 DEF Start
-----------------------------------------------------------------------------
(* Whose record a launch finds                                             *)

LEMMA Mistakes ==
    ASSUME Lawful, [Next]_vars, Mistaken
    PROVE  Mistaken'
  BY HistoryGrows DEF Lawful, Mistaken

\* Nobody but j's own worker writes the record while j is in flight.
LEMMA RecordKept ==
    ASSUME Lawful, LockHeld, Unmistaken, [Next]_vars, ~Mistaken', NEW j \in Job, InFlight(j), InFlight(j)'
    PROVE  record' = Record("starting", Launcher(j))
  <1> USE DEF Lawful
  <1>1. /\ record = Record("starting", Launcher(j))
        /\ \A k \in Job : startLock = Worker(k) /\ Alive(Worker(k)) /\ k \notin hist.harmed => k = j
        /\ \A i \in Job : Checking(i) => FindsBusy(i, j)
    BY DEF Unmistaken
  <1>g. hist.published \subseteq hist'.published /\ hist.harmed \subseteq hist'.harmed
    BY HistoryGrows
  <1>2. ASSUME NEW i \in Job, TruncateRecord(i) \/ WriteStarting(i) PROVE FALSE
    <2>1. Checking(i)
      BY <1>2 DEF TruncateRecord, WriteStarting, Checking, Looking
    <2>2. FindsBusy(i, j)
      BY <1>1, <2>1
    <2>3. QED
      BY <1>2, <2>2 DEF FindsBusy, TruncateRecord, WriteStarting, Busy
  <1>3. ASSUME NEW k \in Job, WriteRunning(k) \/ WriteResult(k) \/ WriteInterrupted(k) PROVE FALSE
    <2>1. pc[Worker(k)] \in HasLock
      BY <1>3 DEF WriteRunning, WriteResult, WriteInterrupted, HasLock, Interrupted
    <2>2. startLock = Worker(k) /\ Alive(Worker(k))
      BY <2>1, Living DEF LockHeld, LockHeldOf
    <2>3. k \in hist'.published
      BY <1>3, <1>g, Publishes DEF WriteResult, Order, OrderOf
    <2>4. k # j
      BY <2>3 DEF InFlight
    <2>5. k \in hist'.harmed
      BY <1>1, <1>g, <2>2, <2>4
    <2>6. QED
      BY <2>3, <2>5 DEF Mistaken
  <1>4. QED
    BY <1>1, <1>2, <1>3, Framed DEF Frame

\* A launcher that has begun to look finds j's launcher alive.
LEMMA BusyKept ==
    ASSUME Lawful, Unmistaken, [Next]_vars, NEW j \in Job, InFlight(j), NEW i \in Job, Checking(i)'
    PROVE  FindsBusy(i, j)'
  <1> USE DEF Lawful
  <1>1. record = Record("starting", Launcher(j)) /\ (Checking(i) => FindsBusy(i, j))
    BY DEF Unmistaken
  <1>n. Launcher(i) \in OfJob /\ Launcher(i) \in Caller
    BY Names
  <1>0. pc \in [OfJob -> PC] /\ st \in [Caller -> Readings] /\ st[Launcher(i)] \in Readings
    BY <1>n DEF TypeOK, Positions
  <1>2. Alive(Launcher(j))
    BY Living DEF InFlight
  <1>3. CASE AcquireStartLock(i) \/ TurnAway(i)
    BY <1>0, <1>n, <1>3 DEF AcquireStartLock, TurnAway, To, FindsBusy
  <1>4. CASE Checking(i) /\ Status(Launcher(i))
    <2>r. Record("starting", Launcher(j)).pid = Launcher(j)
          /\ Pending(Record("starting", Launcher(j)))
      BY DEF Record, Pending
    <2>1. CASE ReadRecord(Launcher(i))
      <3>1. pc'[Launcher(i)] = "owner?" /\ st'[Launcher(i)] = [[NoStatus EXCEPT !.for = st[Launcher(i)].for] EXCEPT !.line = record]
        BY <1>0, <1>1, <1>n, <2>1, <2>r DEF ReadRecord, Judge, To
      <3>2. st'[Launcher(i)].line = record
        BY <3>1 DEF NoStatus
      <3>3. QED
        BY <1>1, <3>1, <3>2 DEF FindsBusy
    <2>2. CASE ReadHandoff(Launcher(i))
      <3>1. st[Launcher(i)].line = Record("starting", Launcher(j))
        BY <1>1, <1>4, <2>2 DEF FindsBusy, ReadHandoff
      <3>2. PICK h : st'[Launcher(i)] = [st[Launcher(i)] EXCEPT !.handoff = h]
        BY <1>0, <1>n, <2>2 DEF ReadHandoff
      <3>3. [st[Launcher(i)] EXCEPT !.handoff = h].line = st[Launcher(i)].line
        BY ONLY <1>0 DEF Readings
      <3>4. pc'[Launcher(i)] = "pid?"
        BY <1>0, <1>n, <2>2 DEF ReadHandoff, To
      <3>5. QED
        BY <3>1, <3>2, <3>3, <3>4 DEF FindsBusy
    <2>3. CASE CheckPid(Launcher(i))
      <3>1. st[Launcher(i)].line = Record("starting", Launcher(j))
        BY <1>1, <1>4, <2>3 DEF FindsBusy, CheckPid
      <3>2. Say(Launcher(i), st[Launcher(i)], "busy", "told")
        BY <1>2, <2>3, <2>r, <3>1 DEF CheckPid
      <3>3. pc'[Launcher(i)] = "told" /\ st'[Launcher(i)] = [st[Launcher(i)] EXCEPT !.says = "busy"]
        BY <1>0, <1>n, <3>2 DEF Say, To
      <3>4. [st[Launcher(i)] EXCEPT !.says = "busy"].says = "busy"
        BY ONLY <1>0 DEF Readings
      <3>5. QED
        BY <3>3, <3>4 DEF FindsBusy
    <2>4. ~CheckHandoff(Launcher(i)) /\ ~ReadAgain(Launcher(i)) /\ ~CheckOperation(Launcher(i))
      BY <1>1, <1>4 DEF FindsBusy, CheckHandoff, ReadAgain, CheckOperation
    <2>5. QED
      BY <1>4, <2>1, <2>2, <2>3, <2>4 DEF Status
  <1>5. CASE /\ Checking(i) /\ st'[Launcher(i)] = st[Launcher(i)]
             /\ pc'[Launcher(i)] = pc[Launcher(i)] \/ pc'[Launcher(i)] \notin {"record?"} \cup Scanning
    <2>1. FindsBusy(i, j)
      BY <1>1, <1>5
    <2>2. CASE pc'[Launcher(i)] = pc[Launcher(i)]
      BY <1>5, <2>1, <2>2 DEF FindsBusy
    <2>3. CASE pc'[Launcher(i)] # pc[Launcher(i)]
      <3>1. pc'[Launcher(i)] = "starting"
        BY <1>5, <2>3 DEF Checking, Looking, Scanning
      <3>2. Moves(i)
        BY AllMove
      <3>3. TruncateRecord(i)
        BY <1>0, <1>n, <2>3, <3>1, <3>2 DEF Moves, Ends, Start, Launch, AcquireStartLock, TurnAway,
           AnswerFalse, WriteStarting, SpawnSupervisor, ReadOwner, AwaitAcknowledgment, Accept,
           TermJob, KillJob, ReadOwnerAgain, ReleaseStartLock, Recheck, Looks, To, Target, Launched, GivenUp
      <3>4. QED
        BY <2>1, <3>3 DEF FindsBusy, TruncateRecord, Busy
    <2>4. QED
      BY <2>2, <2>3
  <1>6. Checking(i) \/ AcquireStartLock(i)
    BY Arrivals
  <1>7. QED
    BY <1>3, <1>4, <1>5, <1>6, Sees

LEMMA UnmistakenStep ==
    ASSUME Lawful, LockHeld, Unmistaken, [Next]_vars, ~hist'.stolen, ~Mistaken'
    PROVE  Unmistaken'
  <1> USE DEF Lawful
  <1> SUFFICES ASSUME NEW j \in Job, InFlight(j)'
               PROVE  /\ record' = Record("starting", Launcher(j))
                      /\ \A k \in Job : startLock' = Worker(k) /\ Alive(Worker(k))' /\ k \notin hist'.harmed => k = j
                      /\ \A i \in Job : Checking(i)' => FindsBusy(i, j)'
    BY DEF Unmistaken
  <1>g. hist.published \subseteq hist'.published /\ hist.harmed \subseteq hist'.harmed
    BY HistoryGrows
  <1>1. CASE InFlight(j)
    <2>1. record' = Record("starting", Launcher(j))
      BY <1>1, RecordKept
    <2>2. ASSUME NEW k \in Job, startLock' = Worker(k), Alive(Worker(k))', k \notin hist'.harmed PROVE k = j
      <3>1. CASE startLock = Worker(k)
        <4>1. pc'[Worker(k)] \notin {"none", "exited"}
          BY <2>2, Names DEF Alive
        <4>2. pc[Worker(k)] \notin {"none", "exited"}
          BY <3>1, <4>1, Stable DEF Order, OrderOf
        <4>3. Alive(Worker(k))
          BY <4>2, Names DEF Alive
        <4>4. QED
          BY <1>1, <1>g, <2>2, <3>1, <4>3 DEF Unmistaken
      <3>2. CASE HandOver(k)
        <4>1. record = Record("starting", Launcher(k))
          BY <1>g, <2>2, <3>2 DEF HandOver, LockHeld, LockHeldOf
        <4>2. record = Record("starting", Launcher(j))
          BY <1>1 DEF Unmistaken
        <4>3. QED
          BY <4>1, <4>2, Names DEF Record
      <3>3. ASSUME startLock # Worker(k) PROVE HandOver(k)
        BY <2>2, <3>3, Framed, Names DEF Frame, AcquireStartLock, TurnAway, ReleaseStartLock, HandOver, RemoveOwnLock
      <3>4. QED
        BY <3>1, <3>2, <3>3
    <2>3. QED
      BY <1>1, <2>1, <2>2, BusyKept
  <1>2. CASE ~InFlight(j)
    <2>1. WriteStarting(j) /\ pc'[Launcher(j)] = "spawn"
      <3>1. pc'[Launcher(j)] \in Waiting /\ j \notin hist.published
        BY <1>g DEF InFlight
      <3>2. pc[Launcher(j)] \notin Waiting
        BY <1>2, <3>1 DEF InFlight
      <3>3. QED
        BY <3>1, <3>2, Arrivals DEF Waiting
    <2>2. startLock = Launcher(j) /\ startLock' = Launcher(j) /\ record' = Record("starting", Launcher(j))
      BY <2>1 DEF WriteStarting, LockHeld, LockHeldOf, Checking, locks
    <2>3. ASSUME NEW i \in Job, Checking(i)' PROVE FALSE
      <3>1. startLock' = Launcher(i)
        BY <2>2, <2>3, Arrivals DEF LockHeld, LockHeldOf
      <3>2. i = j
        <4>1. Launcher(i) = Launcher(j)
          BY <2>2, <3>1
        <4>2. QED
          BY <4>1, Names
      <3>3. QED
        BY <2>1, <2>3, <3>2 DEF Checking, Looking
    <2>4. QED
      BY <2>2, <2>3, Names
  <1>3. QED
    BY <1>1, <1>2

LEMMA AcceptedStep ==
    ASSUME Lawful, Recorded, Mistaken \/ Unmistaken, AcceptedIsPublished, [Next]_vars
    PROVE  AcceptedIsPublished'
  <1> USE DEF Lawful
  <1> SUFFICES ASSUME NEW j \in Job, answer'[j] = "accepted"
               PROVE  j \in hist'.published \/ Mistaken'
    BY DEF AcceptedIsPublished, Mistaken
  <1>g. hist.published \subseteq hist'.published
    BY HistoryGrows
  <1>1. CASE answer[j] = "accepted"
    BY <1>1, <1>g, Mistakes DEF AcceptedIsPublished, Mistaken
  <1>2. CASE answer[j] # "accepted"
    <2>1. \/ AwaitAcknowledgment(j) /\ Acknowledged(j)
          \/ Recheck(j) /\ Acknowledged(j) /\ record.by = j
      <3>1. ASSUME NEW i \in Job, AnswerFalse(i) \/ AwaitAcknowledgment(i) \/ Recheck(i)
            PROVE  <2>1
        <4>1. answer \in [Job -> {"none", "accepted", "busy", "rejected", "refused"}]
          BY DEF TypeOK
        <4>2. i = j
          BY <1>2, <3>1, <4>1 DEF AnswerFalse, AwaitAcknowledgment, Recheck, Accept
        <4>3. QED
          BY <1>2, <3>1, <4>1, <4>2 DEF AnswerFalse, AwaitAcknowledgment, Recheck, Accept
      <3>2. QED
        BY <1>2, <3>1, Framed DEF Frame
    <2>2. CASE AwaitAcknowledgment(j) /\ Acknowledged(j)
      <3>1. ASSUME ~Mistaken, j \notin hist.published PROVE FALSE
        <4>1. InFlight(j) /\ Unmistaken
          BY <2>2, <3>1 DEF AwaitAcknowledgment, InFlight, Waiting
        <4>2. record = Record("starting", Launcher(j))
          BY <4>1 DEF Unmistaken
        <4>3. QED
          BY <2>2, <4>2 DEF Acknowledged, Record
      <3>2. QED
        BY <1>g, <3>1, Mistakes
    <2>3. CASE Recheck(j) /\ Acknowledged(j) /\ record.by = j
      BY <1>g, <2>3 DEF Acknowledged, Recorded
    <2>4. QED
      BY <2>1, <2>2, <2>3
  <1>3. QED
    BY <1>1, <1>2
-----------------------------------------------------------------------------
(* The invariant and the theorems                                          *)

\* A launch is always somewhere in its order, and what it holds is its own
\* while nothing was stolen.
THEOREM JobInvariant == Spec => []JobInv
  <1>1. Init => JobInv
    <2> SUFFICES ASSUME Init PROVE JobInv
      OBVIOUS
    <2>1. Lawful
      BY InitLawful
    <2>2. ASSUME NEW j \in Job
          PROVE  /\ pc[Launcher(j)] = "idle" /\ pc[Supervisor(j)] = "none" /\ pc[Worker(j)] = "none"
                 /\ st[Launcher(j)] = NoStatus /\ answer[j] = "none"
      BY <2>2, Names DEF Init
    <2>3. Recorded
      BY DEF Init, NoRecord, Recorded
    <2>4. Watching
      <3>1. ASSUME NEW c \in Caller PROVE pc[c] = "idle" /\ st[c] = NoStatus
        BY <3>1, <2>2, Names
      <3>2. QED
        BY <3>1 DEF Watching, WatchingOf, NoStatus, NoRecord
    <2>5. LockHeld
      BY <2>2 DEF LockHeld, LockHeldOf, HasLock, Interrupted, Checking, Looking, Waiting
    <2>6. Unmistaken
      BY <2>2 DEF Unmistaken, InFlight, Waiting
    <2>7. AcceptedIsPublished
      BY <2>2 DEF AcceptedIsPublished
    <2>8. QED
      BY <2>1, <2>3, <2>4, <2>5, <2>6, <2>7 DEF JobInv, Lawful
  <1>2. JobInv /\ [Next]_vars => JobInv'
    <2> SUFFICES ASSUME JobInv, [Next]_vars PROVE JobInv'
      OBVIOUS
    <2>1. Lawful /\ Recorded /\ Watching
      BY DEF JobInv, Lawful
    <2>2. Lawful' /\ Recorded' /\ Watching'
      BY <2>1, LawfulStep, RecordedStep, WatchingStep
    <2>3. hist.stolen => hist'.stolen
      BY <2>1, HistoryGrows DEF Lawful
    <2>4. hist'.stolen \/ LockHeld'
      BY <2>1, <2>3, LockHeldStep DEF JobInv
    <2>5. Mistaken' \/ Unmistaken'
      BY <2>1, <2>3, Mistakes, UnmistakenStep DEF JobInv, Mistaken
    <2>6. AcceptedIsPublished'
      BY <2>1, AcceptedStep DEF JobInv
    <2>7. QED
      BY <2>2, <2>4, <2>5, <2>6 DEF JobInv, Lawful
  <1>3. QED
    BY <1>1, <1>2, PTL DEF Spec

\* Every process, lock, record and answer of the job API stays what the code
\* gives it: a lock names a launcher or a worker, a record one of its three
\* writers, and no wait outlasts its bound.
THEOREM TypeCorrect == Spec => []TypeOK
  BY JobInvariant, PTL DEF JobInv

\* However many clients call `action-start', whatever is killed and whenever,
\* two workers are past their handoff together only after the start lock was
\* taken from a live owner.
THEOREM OneJobAtATime == Spec => []OneJobUnlessStolen
  <1>1. JobInv => OneJobUnlessStolen
    BY HeldOne DEF JobInv, OneJobUnlessStolen
  <1>2. QED
    BY <1>1, JobInvariant, PTL

\* The first to take the start lock from a live owner works for a launch that
\* was killed, failed or given up: an undisturbed launch never does.
THEOREM TheftsAreHarmed == Spec => OnlyHarmedJobsSteal
  <1>1. JobInv /\ [Next]_vars =>
          [hist'.stolen /\ ~hist.stolen =>
             \E j \in hist.harmed : Start(j) \/ HandOver(j) \/ RemoveOwnLock(j)]_vars
    BY FirstTheft DEF JobInv, Lawful
  <1>2. QED
    BY <1>1, JobInvariant, PTL DEF Spec, OnlyHarmedJobsSteal

\* A client told `accepted' has a worker that published a record of its own,
\* unless the start lock was stolen or a harmed job has published as well.
THEOREM AcceptanceIsPublication == Spec => []AcceptedIsPublished
  BY JobInvariant, PTL DEF JobInv

\* `action-status' says that a job's process stopped unexpectedly only of a job
\* that was killed or given up, or while the record was being rewritten.
THEOREM DeathsAreReal == Spec => []DeathIsReal
  <1>1. JobInv => DeathIsReal
    BY DEF JobInv, Watching, WatchingOf, DeathIsReal
  <1>2. QED
    BY <1>1, JobInvariant, PTL
-----------------------------------------------------------------------------
(* How much a launch still has to do                                       *)

\* What is left of a status: its turns, and its calls in each.
LookLeft(l, tries) ==
    CASE l = "told"       -> 1
      [] l = "operation?" -> 2
      [] l = "again?"     -> 5 * (2 - tries) + 3
      [] l = "handoff?"   -> 5 * (2 - tries) + 4
      [] l = "pid?"       -> 5 * (2 - tries) + 5
      [] l = "owner?"     -> 5 * (2 - tries) + 6
      [] l = "record?"    -> 17

\* What is left of an action-start that has waited w turns, of two calls each:
\* its status is for the check or for the answer.
LauncherLeft(l, for, tries, w) ==
    CASE l = "exited"        -> 0
      [] l = "recheck"       -> 1
      [] l = "unlock"        -> 2
      [] l = "owner-again"   -> 3
      [] l = "kill"          -> 4
      [] l = "term"          -> 5
      [] l = "acknowledged?" -> 6 + 2 * (MaxWait - w)
      [] l = "owner"         -> 7 + 2 * (MaxWait - w)
      [] l = "spawn"         -> 8 + 2 * MaxWait
      [] l = "starting"      -> 9 + 2 * MaxWait
      [] l = "lock"          -> 35 + 2 * MaxWait
      [] l = "idle"          -> 36 + 2 * MaxWait
      [] OTHER -> LookLeft(l, tries) + (IF for = "print" THEN 0 ELSE 17 + 2 * MaxWait)

SupervisorLeft(l) ==
    CASE l = "exited" -> 0 [] l = "handover" -> 1 [] l = "fork" -> 2 [] l = "none" -> 3

\* What is left of a worker that has waited w turns.
WorkerLeft(l, w) ==
    CASE l = "exited"      -> 0
      [] l = "remove143"   -> 1
      [] l = "clean143"    -> 2
      [] l = "interrupted" -> 3
      [] l = "reap"        -> 4
      [] l = "signalled"   -> 5
      [] l = "remove"      -> 6
      [] l = "clean"       -> 7
      [] l = "finish"      -> 8
      [] l = "wait"        -> 9
      [] l = "run"         -> 10
      [] l = "publish"     -> 11
      [] l = "handoff"     -> 12 + MaxWait - w
      [] l = "none"        -> 13 + MaxWait

EngineLeft(l) ==
    CASE l = "exited" -> 0 [] l = "unwind" -> 1 [] l = "work" -> 2
      [] l = "lock"   -> 3 [] l = "none"   -> 4

\* The steps launch j still has: a write that fails sends a worker four back.
Left(j) ==
    LauncherLeft(pc[Launcher(j)], st[Launcher(j)].for, st[Launcher(j)].tries, waited[Launcher(j)])
      + SupervisorLeft(pc[Supervisor(j)])
      + (WorkerLeft(pc[Worker(j)], waited[Worker(j)]) + 4 * (MaxFaults - used.faults))
      + EngineLeft(pc[Engine(j)])

StepOf(j) == Start(j) \/ Status(Launcher(j)) \/ Work(j) \/ Operate(j)

\* A worker that waits for its engine has one, and a new engine is an unborn one.
EngineOrder ==
    \A j \in Job :
        /\ pc[Worker(j)] \in {"none", "handoff", "publish", "run"} => pc[Engine(j)] = "none"
        /\ pc[Worker(j)] \in {"wait", "reap"} => pc[Engine(j)] # "none"

\* Every launch is over after a number of its own steps that only the bounds
\* set, and the one process that waits without a bound waits for a born one.
LaunchesAreShort ==
    \A j \in Job :
        /\ Left(j) \in 0..(56 + 3 * MaxWait + 4 * MaxFaults)
        /\ pc[Worker(j)] \in {"wait", "reap"} => pc[Engine(j)] # "none"

\* No step of anybody gives a launch more to do, and its own give it less.
RunsDown ==
    [][\A j \in Job : /\ Left(j)' <= Left(j)
                      /\ StepOf(j) => Left(j)' < Left(j)]_vars

\* The calls of action_status_values.
LookPC == {"record?", "owner?", "pid?", "handoff?", "again?", "operation?", "told"}

LEMMA LookCounts ==
    ASSUME NEW t \in 0..2
    PROVE  /\ LookLeft("told", t) = 1 /\ LookLeft("operation?", t) = 2 /\ LookLeft("record?", t) = 17
           /\ LookLeft("again?", t) = 13 - 5 * t /\ LookLeft("handoff?", t) = 14 - 5 * t
           /\ LookLeft("pid?", t) = 15 - 5 * t /\ LookLeft("owner?", t) = 16 - 5 * t
           /\ \A l \in LookPC : LookLeft(l, t) \in 1..17
  BY DEF LookPC, LookLeft

\* Every call of action_status_values brings the caller nearer its answer: a
\* record that changed is judged afresh, but thrice at most.
LEMMA StatusRunsDown ==
    ASSUME TypeOK, NEW c \in Caller, Status(c)
    PROVE  /\ pc[c] \in LookPC /\ pc'[c] \in LookPC
           /\ st[c].tries \in 0..2 /\ st'[c].tries \in 0..2
           /\ st'[c].for = st[c].for
           /\ LookLeft(pc'[c], st'[c].tries) < LookLeft(pc[c], st[c].tries)
  <1>1. /\ st \in [Caller -> Readings] /\ pc \in [OfJob -> PC] /\ c \in OfJob
        /\ st[c].tries \in 0..2 /\ st[c] \in Readings
    <2>1. st \in [Caller -> Readings] /\ pc \in [OfJob -> PC] /\ c \in OfJob
      BY Names DEF TypeOK, Positions
    <2>2. QED
      BY <2>1 DEF Readings
  <1>2. st'[c].for = st[c].for
    BY <1>1, StatusLooks DEF Looks
  <1>3. ASSUME NEW s, NEW l, s.tries \in 0..2, st' = [st EXCEPT ![c] = s], To(c, l), l \in LookPC,
               LookLeft(l, s.tries) < LookLeft(pc[c], st[c].tries), pc[c] \in LookPC
        PROVE  /\ pc[c] \in LookPC /\ pc'[c] \in LookPC /\ st'[c].tries \in 0..2
               /\ LookLeft(pc'[c], st'[c].tries) < LookLeft(pc[c], st[c].tries)
    BY <1>1, <1>3 DEF To
  <1> DEFINE Goal == /\ pc[c] \in LookPC /\ pc'[c] \in LookPC /\ st'[c].tries \in 0..2
                     /\ LookLeft(pc'[c], st'[c].tries) < LookLeft(pc[c], st[c].tries)
  <1>4. ASSUME NEW s \in Readings, Judge(c, s, record), pc[c] \in LookPC,
               LookLeft("owner?", s.tries) < LookLeft(pc[c], st[c].tries),
               LookLeft("operation?", s.tries) < LookLeft(pc[c], st[c].tries)
        PROVE  Goal
    <2>1. ASSUME NEW w
          PROVE  [s EXCEPT !.line = record, !.says = w].tries = s.tries
      BY DEF Readings
    <2>2. [s EXCEPT !.line = record].tries = s.tries /\ s.tries \in 0..2
      BY DEF Readings
    <2>3. CASE Pending(record)
      BY <1>3, <1>4, <2>2, <2>3 DEF Judge, LookPC
    <2>4. CASE ~Pending(record)
      <3>1. PICK w : /\ st' = [st EXCEPT ![c] = [s EXCEPT !.line = record, !.says = w]]
                     /\ To(c, "operation?")
        BY <1>4, <2>4 DEF Judge
      <3>2. QED
        BY <1>3, <1>4, <2>1, <2>2, <3>1 DEF LookPC
    <2>5. QED
      BY <2>3, <2>4
  <1>5. ASSUME NEW s \in Readings, NEW w, NEW l \in LookPC, Say(c, s, w, l), pc[c] \in LookPC,
               LookLeft(l, s.tries) < LookLeft(pc[c], st[c].tries)
        PROVE  Goal
    <2>1. [s EXCEPT !.says = w].tries = s.tries /\ s.tries \in 0..2
      BY DEF Readings
    <2>2. QED
      BY <1>3, <1>5, <2>1 DEF Say
  <1> SUFFICES Goal
    BY <1>1, <1>2
  <1>6. CASE ReadRecord(c)
    <2> DEFINE fresh == [NoStatus EXCEPT !.for = st[c].for]
    <2>0. NoStatus \in Readings /\ NoStatus.tries = 0
      BY Kinds DEF NoStatus, Readings, Statuses
    <2>1. fresh \in Readings /\ fresh.tries = 0
      BY <1>1, <2>0 DEF Readings
    <2>2. pc[c] = "record?" /\ Judge(c, fresh, record)
      BY <1>6 DEF ReadRecord
    <2> HIDE DEF fresh
    <2>3. /\ LookLeft("owner?", fresh.tries) < LookLeft("record?", st[c].tries)
          /\ LookLeft("operation?", fresh.tries) < LookLeft("record?", st[c].tries)
      BY <1>1, <2>1, LookCounts
    <2>4. QED
      BY <1>4, <2>1, <2>2, <2>3 DEF LookPC
  <1>7. CASE ReadHandoff(c)
    <2> DEFINE told == [st[c] EXCEPT !.handoff = IF startLock = c THEN NoPid ELSE startLock]
    <2>1. told.tries = st[c].tries
      BY <1>1 DEF Readings
    <2>2. pc[c] = "owner?" /\ To(c, "pid?") /\ st' = [st EXCEPT ![c] = told]
      BY <1>1, <1>7 DEF ReadHandoff
    <2> HIDE DEF told
    <2>3. LookLeft("pid?", told.tries) < LookLeft("owner?", st[c].tries)
      BY <1>1, <2>1, LookCounts
    <2>4. QED
      BY <1>1, <1>3, <2>1, <2>2, <2>3 DEF LookPC
  <1>8. CASE CheckPid(c) \/ CheckHandoff(c)
    <2>1. st = [st EXCEPT ![c] = st[c]]
      BY <1>1
    <2>2. CASE Say(c, st[c], "busy", "told")
      BY <1>1, <1>5, <1>8, <2>2, LookCounts DEF CheckPid, CheckHandoff, LookPC
    <2>3. CASE UNCHANGED st
      BY <1>1, <1>3, <1>8, <2>1, <2>3, <2>2, LookCounts DEF CheckPid, CheckHandoff, LookPC
    <2>4. QED
      BY <1>8, <2>2, <2>3 DEF CheckPid, CheckHandoff
  <1>9. CASE ReadAgain(c)
    <2> DEFINE more == [st[c] EXCEPT !.tries = @ + 1]
               torn == [st[c] EXCEPT !.torn = record.status = "absent"]
    <2>1. st[c].tries < 2 => more \in Readings /\ more.tries = st[c].tries + 1
      BY <1>1 DEF Readings
    <2>2. torn \in Readings /\ torn.tries = st[c].tries
      BY <1>1 DEF Readings
    <2> HIDE DEF more, torn
    <2>3. /\ pc[c] = "again?"
          /\ \/ st[c].tries < 2 /\ Judge(c, more, record)
             \/ Say(c, st[c], "busy", "told")
             \/ Say(c, torn, "died", "operation?")
      BY <1>9 DEF ReadAgain, more, torn
    <2>4. CASE st[c].tries < 2 /\ Judge(c, more, record)
      <3>1. /\ LookLeft("owner?", more.tries) < LookLeft("again?", st[c].tries)
            /\ LookLeft("operation?", more.tries) < LookLeft("again?", st[c].tries)
        BY <1>1, <2>1, <2>4, LookCounts
      <3>2. QED
        BY <1>4, <2>1, <2>3, <2>4, <3>1 DEF LookPC
    <2>5. CASE Say(c, st[c], "busy", "told")
      BY <1>1, <1>5, <2>3, <2>5, LookCounts DEF LookPC
    <2>6. CASE Say(c, torn, "died", "operation?")
      BY <1>1, <1>5, <2>2, <2>3, <2>6, LookCounts DEF LookPC
    <2>7. QED
      BY <2>3, <2>4, <2>5, <2>6
  <1>10. CASE CheckOperation(c)
    BY <1>1, <1>5, <1>10, LookCounts DEF CheckOperation, LookPC
  <1>11. QED
    BY <1>6, <1>7, <1>8, <1>9, <1>10 DEF Status

LEMMA LauncherCounts ==
    ASSUME NEW for \in {"print", "check"}, NEW t \in 0..2, NEW w \in 0..MaxWait
    PROVE  /\ LauncherLeft("exited", for, t, w) = 0 /\ LauncherLeft("recheck", for, t, w) = 1
           /\ LauncherLeft("unlock", for, t, w) = 2 /\ LauncherLeft("owner-again", for, t, w) = 3
           /\ LauncherLeft("kill", for, t, w) = 4 /\ LauncherLeft("term", for, t, w) = 5
           /\ LauncherLeft("acknowledged?", for, t, w) = 6 + 2 * (MaxWait - w)
           /\ LauncherLeft("owner", for, t, w) = 7 + 2 * (MaxWait - w)
           /\ LauncherLeft("spawn", for, t, w) = 8 + 2 * MaxWait
           /\ LauncherLeft("starting", for, t, w) = 9 + 2 * MaxWait
           /\ LauncherLeft("lock", for, t, w) = 35 + 2 * MaxWait
           /\ LauncherLeft("idle", for, t, w) = 36 + 2 * MaxWait
           /\ \A l \in LookPC :
                /\ for = "print" => LauncherLeft(l, for, t, w) = LookLeft(l, t)
                /\ for = "check" => LauncherLeft(l, for, t, w) = LookLeft(l, t) + 17 + 2 * MaxWait
           /\ \A l \in LauncherPC : LauncherLeft(l, for, t, w) \in 0..(36 + 2 * MaxWait)
  <1>0. MaxWait \in Nat
    BY JobAssumption
  <1>1. /\ LauncherLeft("exited", for, t, w) = 0 /\ LauncherLeft("recheck", for, t, w) = 1
        /\ LauncherLeft("unlock", for, t, w) = 2 /\ LauncherLeft("owner-again", for, t, w) = 3
        /\ LauncherLeft("kill", for, t, w) = 4 /\ LauncherLeft("term", for, t, w) = 5
        /\ LauncherLeft("acknowledged?", for, t, w) = 6 + 2 * (MaxWait - w)
        /\ LauncherLeft("owner", for, t, w) = 7 + 2 * (MaxWait - w)
        /\ LauncherLeft("spawn", for, t, w) = 8 + 2 * MaxWait
        /\ LauncherLeft("starting", for, t, w) = 9 + 2 * MaxWait
        /\ LauncherLeft("lock", for, t, w) = 35 + 2 * MaxWait
        /\ LauncherLeft("idle", for, t, w) = 36 + 2 * MaxWait
    BY DEF LauncherLeft
  <1>2. ASSUME NEW l \in LookPC
        PROVE  LauncherLeft(l, for, t, w) = LookLeft(l, t)
                                        + (IF for = "print" THEN 0 ELSE 17 + 2 * MaxWait)
    BY DEF LookPC, LauncherLeft
  <1>3. ASSUME NEW l \in LookPC
        PROVE  /\ for = "print" => LauncherLeft(l, for, t, w) = LookLeft(l, t)
               /\ for = "check" => LauncherLeft(l, for, t, w) = LookLeft(l, t) + 17 + 2 * MaxWait
               /\ LauncherLeft(l, for, t, w) \in 0..(36 + 2 * MaxWait)
    BY <1>0, <1>2, LookCounts
  <1>4. ASSUME NEW l \in LauncherPC \ LookPC
        PROVE  LauncherLeft(l, for, t, w) \in 0..(36 + 2 * MaxWait)
    <2>1. l \in {"exited", "recheck", "unlock", "owner-again", "kill", "term", "acknowledged?",
                 "owner", "spawn", "starting", "lock", "idle"}
      BY <1>4 DEF LauncherPC, LookPC
    <2>2. 2 * (MaxWait - w) \in 0..2 * MaxWait
      BY <1>0
    <2>3. CASE l \in {"exited", "recheck", "unlock", "owner-again", "kill", "term"}
      BY <1>0, <1>1, <2>3
    <2>4. CASE l \in {"acknowledged?", "owner"}
      BY <1>0, <1>1, <2>2, <2>4
    <2>5. CASE l \in {"spawn", "starting", "lock", "idle"}
      BY <1>0, <1>1, <2>5
    <2>6. QED
      BY <2>1, <2>3, <2>4, <2>5
  <1>5. QED
    BY <1>1, <1>3, <1>4

LEMMA WorkerCounts ==
    ASSUME NEW w \in 0..MaxWait
    PROVE  /\ WorkerLeft("exited", w) = 0 /\ WorkerLeft("remove143", w) = 1
           /\ WorkerLeft("clean143", w) = 2 /\ WorkerLeft("interrupted", w) = 3
           /\ WorkerLeft("reap", w) = 4 /\ WorkerLeft("signalled", w) = 5
           /\ WorkerLeft("remove", w) = 6 /\ WorkerLeft("clean", w) = 7
           /\ WorkerLeft("finish", w) = 8 /\ WorkerLeft("wait", w) = 9
           /\ WorkerLeft("run", w) = 10 /\ WorkerLeft("publish", w) = 11
           /\ WorkerLeft("handoff", w) = 12 + MaxWait - w
           /\ WorkerLeft("none", w) = 13 + MaxWait
           /\ \A l \in WorkerPC : WorkerLeft(l, w) \in 0..(13 + MaxWait)
  <1>0. MaxWait \in Nat
    BY JobAssumption
  <1>1. /\ WorkerLeft("exited", w) = 0 /\ WorkerLeft("remove143", w) = 1
        /\ WorkerLeft("clean143", w) = 2 /\ WorkerLeft("interrupted", w) = 3
        /\ WorkerLeft("reap", w) = 4 /\ WorkerLeft("signalled", w) = 5
        /\ WorkerLeft("remove", w) = 6 /\ WorkerLeft("clean", w) = 7
        /\ WorkerLeft("finish", w) = 8 /\ WorkerLeft("wait", w) = 9
        /\ WorkerLeft("run", w) = 10 /\ WorkerLeft("publish", w) = 11
        /\ WorkerLeft("handoff", w) = 12 + MaxWait - w
        /\ WorkerLeft("none", w) = 13 + MaxWait
    BY DEF WorkerLeft
  <1>2. QED
    BY <1>0, <1>1 DEF WorkerPC

LEMMA SmallCounts ==
    /\ SupervisorLeft("exited") = 0 /\ SupervisorLeft("handover") = 1
    /\ SupervisorLeft("fork") = 2 /\ SupervisorLeft("none") = 3
    /\ \A l \in SupervisorPC : SupervisorLeft(l) \in 0..3
    /\ EngineLeft("exited") = 0 /\ EngineLeft("unwind") = 1 /\ EngineLeft("work") = 2
    /\ EngineLeft("lock") = 3 /\ EngineLeft("none") = 4
    /\ \A l \in EnginePC : EngineLeft(l) \in 0..4
  BY DEF SupervisorLeft, EngineLeft, SupervisorPC, EnginePC

\* What each process has left, as numbers.
LEMMA Counted ==
    ASSUME TypeOK, NEW k \in Job
    PROVE  /\ st[Launcher(k)].for \in {"print", "check"} /\ st[Launcher(k)].tries \in 0..2
           /\ waited[Launcher(k)] \in 0..MaxWait /\ waited[Worker(k)] \in 0..MaxWait
           /\ pc[Launcher(k)] \in LauncherPC /\ pc[Supervisor(k)] \in SupervisorPC
           /\ pc[Worker(k)] \in WorkerPC /\ pc[Engine(k)] \in EnginePC
           /\ MaxWait \in Nat /\ MaxFaults \in Nat /\ used.faults \in 0..MaxFaults
           /\ LauncherLeft(pc[Launcher(k)], st[Launcher(k)].for, st[Launcher(k)].tries,
                           waited[Launcher(k)]) \in 0..(36 + 2 * MaxWait)
           /\ SupervisorLeft(pc[Supervisor(k)]) \in 0..3
           /\ WorkerLeft(pc[Worker(k)], waited[Worker(k)]) \in 0..(13 + MaxWait)
           /\ EngineLeft(pc[Engine(k)]) \in 0..4
  <1>1. /\ Positions /\ st \in [Caller -> Readings] /\ waited \in [OfJob -> 0..MaxWait]
        /\ used \in [faults : 0..MaxFaults, outside : 0..MaxOutside]
    BY DEF TypeOK
  <1>s. st[Launcher(k)] \in Readings
    BY <1>1, Names
  <1>r. st[Launcher(k)].for \in {"print", "check"} /\ st[Launcher(k)].tries \in 0..2
    BY <1>s DEF Readings
  <1>2. /\ waited[Launcher(k)] \in 0..MaxWait /\ waited[Worker(k)] \in 0..MaxWait
        /\ used.faults \in 0..MaxFaults
    BY <1>1, Names
  <1>3. /\ pc[Launcher(k)] \in LauncherPC /\ pc[Supervisor(k)] \in SupervisorPC
        /\ pc[Worker(k)] \in WorkerPC /\ pc[Engine(k)] \in EnginePC
    BY <1>1, Positioned
  <1>4. QED
    BY <1>r, <1>2, <1>3, JobAssumption, LauncherCounts, WorkerCounts, SmallCounts

\* What a launcher of k does by itself, and what else may happen to it.
LEMMA LauncherAlone ==
    ASSUME TypeOK, Order, Target, [Next]_vars, NEW k \in Job,
           ~Start(k), ~Status(Launcher(k))
    PROVE  /\ pc'[Launcher(k)] \in {pc[Launcher(k)], "exited"}
           /\ st'[Launcher(k)] = st[Launcher(k)]
           /\ waited'[Launcher(k)] = waited[Launcher(k)]
  <1>1. pc'[Launcher(k)] \in {pc[Launcher(k)], "exited"}
    BY AllMove DEF Moves, Ends
  <1>2. /\ st \in [Caller -> Readings] /\ waited \in [OfJob -> 0..MaxWait]
        /\ Launcher(k) \in Caller /\ Launcher(k) \in OfJob
        /\ \A j \in Job : Launcher(j) = Launcher(k) => j = k
        /\ \A j \in Job : Launcher(j) \in OfJob /\ Worker(j) \in OfJob /\ Worker(j) # Launcher(k)
    BY Names DEF TypeOK
  <1>3. st'[Launcher(k)] = st[Launcher(k)]
    <2>1. ASSUME NEW j \in Job, AcquireStartLock(j) \/ TurnAway(j)
          PROVE  st'[Launcher(k)] = st[Launcher(k)]
      <3>1. \E s : st' = [st EXCEPT ![Launcher(j)] = s]
        <4>1. st = [st EXCEPT ![Launcher(j)] = st[Launcher(j)]]
          BY <1>2
        <4>2. QED
          BY <2>1, <4>1 DEF AcquireStartLock, TurnAway
      <3>2. j # k
        BY <2>1 DEF Start
      <3>3. QED
        BY <1>2, <3>1, <3>2
    <2>2. ASSUME NEW c \in Caller, Status(c)
          PROVE  st'[Launcher(k)] = st[Launcher(k)]
      <3>1. c # Launcher(k)
        BY <2>2
      <3>2. QED
        BY <1>2, <2>2, <3>1, StatusLooks DEF Looks
    <2>3. QED
      BY <2>1, <2>2, Framed DEF Frame
  <1>4. waited'[Launcher(k)] = waited[Launcher(k)]
    <2>1. ASSUME NEW j \in Job, Start(j) PROVE waited'[Launcher(k)] = waited[Launcher(k)]
      <3>1. waited' = waited \/ \E n : waited' = [waited EXCEPT ![Launcher(j)] = n]
        BY <2>1 DEF Start, Launch, AcquireStartLock, TurnAway, AnswerFalse, TruncateRecord,
           WriteStarting, SpawnSupervisor, ReadOwner, AwaitAcknowledgment, TermJob, KillJob,
           ReadOwnerAgain, ReleaseStartLock, Recheck
      <3>2. QED
        BY <1>2, <2>1, <3>1
    <2>2. ASSUME NEW j \in Job, Work(j) PROVE waited'[Launcher(k)] = waited[Launcher(k)]
      <3>1. waited' = waited \/ \E n : waited' = [waited EXCEPT ![Worker(j)] = n]
        BY <2>2 DEF Work, ForkWorker, HandOver, AwaitHandoff, WriteRunning, RunEngine, AwaitEngine,
           WriteResult, CheckOwnLock, RemoveOwnLock, TermEngine, ReapEngine, WriteInterrupted
      <3>2. QED
        BY <1>2, <3>1
    <2>3. ASSUME NEW j \in Job, Operate(j) \/ Kill(j) \/ CannotWrite(j) PROVE waited' = waited
      BY <2>3 DEF Operate, AcquireLock, EndOperation, Kill, CannotWrite
    <2>4. ASSUME NEW c \in Caller, Status(c) PROVE waited' = waited
      BY <2>4, StatusLooks DEF Looks
    <2>5. ASSUME ExternalOperation \/ UNCHANGED vars PROVE waited' = waited
      BY <2>5 DEF ExternalOperation, vars
    <2>6. QED
      BY <2>1, <2>2, <2>3, <2>4, <2>5 DEF Next
  <1>5. QED
    BY <1>1, <1>3, <1>4

\* An action-start gets nearer its end with every call it makes.
LEMMA StartRunsDown ==
    ASSUME TypeOK, TypeOK', Order, Target, NEW k \in Job, Start(k)
    PROVE  LauncherLeft(pc'[Launcher(k)], st'[Launcher(k)].for, st'[Launcher(k)].tries, waited'[Launcher(k)])
             < LauncherLeft(pc[Launcher(k)], st[Launcher(k)].for, st[Launcher(k)].tries, waited[Launcher(k)])
  <1> DEFINE L == Launcher(k)
             f == st[L].for   t == st[L].tries   w == waited[L]
             g == st'[L].for  u == st'[L].tries  v == waited'[L]
  <1>0. /\ pc \in [OfJob -> PC] /\ st \in [Caller -> Readings] /\ waited \in [OfJob -> 0..MaxWait]
        /\ st' \in [Caller -> Readings] /\ waited' \in [OfJob -> 0..MaxWait]
        /\ L \in OfJob /\ L \in Caller /\ MaxWait \in Nat
    BY Names, JobAssumption DEF TypeOK, Positions
  <1>r. ASSUME NEW r \in Readings PROVE r.for \in {"print", "check"} /\ r.tries \in 0..2
    BY DEF Readings
  <1>t. /\ f \in {"print", "check"} /\ g \in {"print", "check"}
        /\ t \in 0..2 /\ u \in 0..2 /\ w \in 0..MaxWait /\ v \in 0..MaxWait
    BY <1>0, <1>r
  <1>m. ASSUME NEW l, To(L, l) PROVE pc'[L] = l
    BY <1>0, <1>m DEF To
  <1>j. jobPid[k] # L \/ ~(TermJob(k) \/ KillJob(k))
    BY DEF TermJob, KillJob, Target, Launched, GivenUp
  <1>p. ASSUME NEW l, NEW n, pc' = [pc EXCEPT ![L] = l, ![jobPid[k]] = n], jobPid[k] # L
        PROVE  pc'[L] = l
    BY <1>0, <1>p
  <1>1. CASE Launch(k)
    <2>1. pc[L] = "idle" /\ pc'[L] = "lock"
      BY <1>1, <1>m DEF Launch
    <2>2. QED
      BY <1>0, <1>t, <2>1, LauncherCounts
  <1>2. CASE AcquireStartLock(k)
    <2>1. pc[L] = "lock" /\ pc'[L] = "record?"
      BY <1>2, <1>m DEF AcquireStartLock
    <2>2. QED
      BY <1>0, <1>t, <2>1, LookCounts, LauncherCounts DEF LookPC
  <1>3. CASE TurnAway(k)
    <2>1. st'[L] = NoStatus
      BY <1>0, <1>3 DEF TurnAway
    <2>2. g = "print" /\ pc'[L] = "record?" /\ pc[L] = "told" /\ f = "check"
      BY <1>3, <1>m, <2>1 DEF TurnAway, NoStatus
    <2>3. QED
      BY <1>0, <1>t, <2>2, LookCounts, LauncherCounts DEF LookPC
  <1>4. CASE AnswerFalse(k)
    <2>1. pc[L] = "told" /\ pc'[L] = "exited"
      BY <1>4, <1>m DEF AnswerFalse
    <2>2. QED
      BY <1>0, <1>t, <2>1, LookCounts, LauncherCounts DEF LookPC
  <1>5. CASE TruncateRecord(k)
    <2>1. pc[L] = "told" /\ pc'[L] = "starting" /\ f = "check"
      BY <1>5, <1>m DEF TruncateRecord
    <2>2. QED
      BY <1>0, <1>t, <2>1, LookCounts, LauncherCounts DEF LookPC
  <1>6. CASE WriteStarting(k)
    <2>1. pc[L] = "starting" /\ pc'[L] = "spawn"
      BY <1>6, <1>m DEF WriteStarting
    <2>2. QED
      BY <1>0, <1>t, <2>1, LauncherCounts
  <1>7. CASE SpawnSupervisor(k)
    <2>1. pc'[L] = "owner" /\ pc[L] = "spawn"
      BY <1>0, <1>7, Names DEF SpawnSupervisor
    <2>2. QED
      BY <1>0, <1>t, <2>1, LauncherCounts
  <1>8. CASE ReadOwner(k)
    <2>1. pc[L] = "owner" /\ pc'[L] = "acknowledged?" /\ v = w
      BY <1>8, <1>m DEF ReadOwner
    <2>2. QED
      BY <1>0, <1>t, <2>1, LauncherCounts
  <1>9. CASE AwaitAcknowledgment(k)
    <2>1. /\ pc[L] = "acknowledged?"
          /\ \/ pc'[L] \in {"exited", "term"}
             \/ pc'[L] = "owner" /\ v = w + 1
      BY <1>0, <1>9, <1>m DEF AwaitAcknowledgment, Accept
    <2>2. QED
      BY <1>0, <1>t, <2>1, LauncherCounts
  <1>10. CASE TermJob(k) \/ KillJob(k)
    <2>1. \/ pc[L] = "term" /\ pc'[L] = "kill"
          \/ pc[L] = "kill" /\ pc'[L] = "owner-again"
      BY <1>10, <1>j, <1>p DEF TermJob, KillJob
    <2>2. QED
      BY <1>0, <1>t, <2>1, LauncherCounts
  <1>11. CASE ReadOwnerAgain(k)
    <2>1. pc[L] = "owner-again" /\ pc'[L] \in {"unlock", "recheck"}
      BY <1>11, <1>m DEF ReadOwnerAgain
    <2>2. QED
      BY <1>0, <1>t, <2>1, LauncherCounts
  <1>12. CASE ReleaseStartLock(k) \/ Recheck(k)
    <2>1. \/ pc[L] = "unlock" /\ pc'[L] = "recheck"
          \/ pc[L] = "recheck" /\ pc'[L] = "exited"
      BY <1>12, <1>m DEF ReleaseStartLock, Recheck, Accept
    <2>2. QED
      BY <1>0, <1>t, <2>1, LauncherCounts
  <1>13. QED
    BY <1>1, <1>2, <1>3, <1>4, <1>5, <1>6, <1>7, <1>8, <1>9, <1>10, <1>11, <1>12 DEF Start

LEMMA LauncherRunsDown ==
    ASSUME TypeOK, TypeOK', Order, Target, [Next]_vars, NEW k \in Job
    PROVE  LET now == LauncherLeft(pc[Launcher(k)], st[Launcher(k)].for, st[Launcher(k)].tries,
                                   waited[Launcher(k)])
               then == LauncherLeft(pc'[Launcher(k)], st'[Launcher(k)].for, st'[Launcher(k)].tries,
                                    waited'[Launcher(k)])
           IN  then <= now /\ (Start(k) \/ Status(Launcher(k)) => then < now)
  <1> DEFINE L == Launcher(k)
             now == LauncherLeft(pc[L], st[L].for, st[L].tries, waited[L])
             then == LauncherLeft(pc'[L], st'[L].for, st'[L].tries, waited'[L])
             f == st[L].for   t == st[L].tries   w == waited[L]
             g == st'[L].for  u == st'[L].tries  v == waited'[L]
  <1>c. /\ f \in {"print", "check"} /\ t \in 0..2 /\ w \in 0..MaxWait /\ MaxWait \in Nat
        /\ pc[L] \in LauncherPC
    BY Counted
  <1>d. /\ g \in {"print", "check"} /\ u \in 0..2 /\ v \in 0..MaxWait /\ pc'[L] \in LauncherPC
    <2>1. st'[L] \in Readings /\ v \in 0..MaxWait /\ pc'[L] \in LauncherPC
      BY Names, PCs DEF TypeOK, Positions
    <2>2. QED
      BY <2>1 DEF Readings
  <1>0. now \in Nat /\ then \in Nat
    BY <1>c, <1>d, LauncherCounts
  <1>1. CASE Start(k)
    BY <1>0, <1>1, StartRunsDown
  <1>2. CASE Status(L)
    <2>1. L \in Caller /\ L \in OfJob
      BY Names
    <2>2. v = w
      BY <1>2, <2>1, StatusLooks DEF Looks
    <2>3. pc[L] \in LookPC /\ pc'[L] \in LookPC /\ g = f /\ LookLeft(pc'[L], u) < LookLeft(pc[L], t)
      BY <1>2, <2>1, StatusRunsDown
    <2>4. LookLeft(pc[L], t) \in 1..17 /\ LookLeft(pc'[L], u) \in 1..17
      BY <1>c, <1>d, <2>3, LookCounts
    <2>5. CASE f = "print"
      <3>1. now = LookLeft(pc[L], t) /\ then = LookLeft(pc'[L], u)
        BY <1>c, <1>d, <2>3, <2>5, LauncherCounts
      <3>2. QED
        BY <2>3, <2>4, <3>1
    <2>6. CASE f = "check"
      <3>1. /\ now = LookLeft(pc[L], t) + 17 + 2 * MaxWait
            /\ then = LookLeft(pc'[L], u) + 17 + 2 * MaxWait
        BY <1>c, <1>d, <2>3, <2>6, LauncherCounts
      <3>2. QED
        BY <1>c, <2>3, <2>4, <3>1
    <2>7. QED
      BY <1>c, <2>5, <2>6
  <1>3. CASE ~Start(k) /\ ~Status(L)
    <2>1. pc'[L] \in {pc[L], "exited"} /\ g = f /\ u = t /\ v = w
      BY <1>3, LauncherAlone
    <2>2. LauncherLeft("exited", f, t, w) = 0
      BY <1>c, LauncherCounts
    <2>3. then = now \/ then = 0
      BY <2>1, <2>2
    <2>4. QED
      BY <1>0, <1>3, <2>3
  <1>4. QED
    BY <1>1, <1>2, <1>3

\* What is done to a worker: TERM or KILL, by a launcher that took it for its
\* job, by its supervisor or from outside; or a write of its own that fails.
LEMMA WorkerAlone ==
    ASSUME TypeOK, Order, Target, [Next]_vars, NEW k \in Job, ~Work(k)
    PROVE  /\ waited'[Worker(k)] = waited[Worker(k)]
           /\ \/ pc'[Worker(k)] = pc[Worker(k)]
              \/ pc[Worker(k)] # "none" /\ pc'[Worker(k)] = "exited"
              \/ pc[Worker(k)] \in HasLock \ Interrupted /\ pc'[Worker(k)] = "signalled"
              \/ /\ pc[Worker(k)] \in {"publish", "finish", "interrupted"} /\ pc'[Worker(k)] = "clean"
                 /\ used'.faults = used.faults + 1
  <1> DEFINE W == Worker(k)
  <1>n. /\ pc \in [OfJob -> PC] /\ waited \in [OfJob -> 0..MaxWait] /\ W \in OfJob /\ pc[W] \in WorkerPC
        /\ \A j \in Job : /\ Launcher(j) \in OfJob /\ Supervisor(j) \in OfJob
                          /\ Worker(j) \in OfJob /\ Engine(j) \in OfJob
                          /\ Launcher(j) # W /\ Supervisor(j) # W /\ Engine(j) # W
                          /\ Worker(j) = W => j = k
    BY Names, Counted DEF TypeOK, Positions
  <1>m. ASSUME NEW x \in OfJob, x # W, NEW l, To(x, l)
        PROVE  pc'[W] = pc[W]
    BY <1>n, <1>m DEF To
  <1>t. /\ pc[W] = "none" => AfterTerm(W) = "none"
        /\ \/ AfterTerm(W) \in {pc[W], "exited"}
           \/ pc[W] \in HasLock \ Interrupted /\ AfterTerm(W) = "signalled"
    <2>1. CASE pc[W] \in {"none", "exited", "handoff"} \cup Interrupted
      BY <1>n, <2>1, Names DEF AfterTerm, Alive, Interrupted
    <2>2. CASE pc[W] \in HasLock \ Interrupted
      BY <1>n, <2>2, Names DEF AfterTerm, Alive, HasLock, Interrupted
    <2>3. QED
      BY <1>n, <2>1, <2>2 DEF WorkerPC, HasLock, Interrupted
  <1>u. used \in [faults : 0..MaxFaults, outside : 0..MaxOutside]
    BY DEF TypeOK
  <1> HIDE DEF W
  <1>1. ASSUME NEW j \in Job, Start(j)
        PROVE  /\ waited'[W] = waited[W]
               /\ \/ pc'[W] = pc[W]
                  \/ pc[W] # "none" /\ pc'[W] = "exited"
                  \/ pc[W] \in HasLock \ Interrupted /\ pc'[W] = "signalled"
    <2>1. waited'[W] = waited[W]
      <3>1. waited' = waited \/ \E n : waited' = [waited EXCEPT ![Launcher(j)] = n]
        BY <1>1 DEF Start, Launch, AcquireStartLock, TurnAway, AnswerFalse, TruncateRecord,
           WriteStarting, SpawnSupervisor, ReadOwner, AwaitAcknowledgment, TermJob, KillJob,
           ReadOwnerAgain, ReleaseStartLock, Recheck
      <3>2. QED
        BY <1>n, <3>1
    <2>2. CASE SpawnSupervisor(j)
      BY <1>n, <2>1, <2>2 DEF SpawnSupervisor
    <2>3. CASE TermJob(j) \/ KillJob(j)
      <3>1. CASE jobPid[j] = W
        <4>1. pc'[W] \in {AfterTerm(W), "exited"}
          BY <1>n, <2>3, <3>1 DEF TermJob, KillJob
        <4>2. pc[W] # "none"
          BY <1>n, <2>3, <3>1 DEF TermJob, KillJob, Target, W
        <4>3. QED
          BY <1>t, <2>1, <4>1, <4>2
      <3>2. CASE jobPid[j] # W
        BY <1>n, <2>1, <2>3, <3>2 DEF TermJob, KillJob
      <3>3. QED
        BY <3>1, <3>2
    <2>4. CASE \E l : To(Launcher(j), l)
      BY <1>n, <1>m, <2>1, <2>4
    <2>5. QED
      BY <1>1, <2>2, <2>3, <2>4 DEF Start, Launch, AcquireStartLock, TurnAway, AnswerFalse,
         TruncateRecord, WriteStarting, ReadOwner, AwaitAcknowledgment, Accept, ReadOwnerAgain,
         ReleaseStartLock, Recheck
  <1>2. ASSUME NEW j \in Job, Work(j)
        PROVE  waited'[W] = waited[W] /\ pc'[W] = pc[W]
    <2>0. j # k
      BY <1>2
    <2>1. waited'[W] = waited[W]
      <3>1. waited' = waited \/ \E n : waited' = [waited EXCEPT ![Worker(j)] = n]
        BY <1>2 DEF Work, ForkWorker, HandOver, AwaitHandoff, WriteRunning, RunEngine, AwaitEngine,
           WriteResult, CheckOwnLock, RemoveOwnLock, TermEngine, ReapEngine, WriteInterrupted
      <3>2. QED
        BY <1>n, <2>0, <3>1
    <2>2. CASE RunEngine(j) \/ TermEngine(j) \/ ForkWorker(j)
      BY <1>n, <2>0, <2>1, <2>2 DEF RunEngine, TermEngine, ForkWorker
    <2>3. CASE UNCHANGED pc \/ \E x \in {Supervisor(j), Worker(j)} : \E l : To(x, l)
      BY <1>n, <1>m, <2>0, <2>1, <2>3
    <2>4. QED
      BY <1>2, <2>2, <2>3 DEF Work, HandOver, AwaitHandoff, WriteRunning, AwaitEngine,
         WriteResult, CheckOwnLock, RemoveOwnLock, ReapEngine, WriteInterrupted
  <1>3. ASSUME NEW j \in Job, Operate(j) PROVE waited' = waited /\ pc'[W] = pc[W]
    BY <1>m, <1>n, <1>3 DEF Operate, AcquireLock, EndOperation
  <1>4. ASSUME NEW j \in Job, Kill(j)
        PROVE  /\ waited' = waited
               /\ pc'[W] = pc[W] \/ (pc[W] # "none" /\ pc'[W] = "exited")
    <2>1. PICK x \in {Launcher(j), Supervisor(j), Worker(j), Engine(j)} : Alive(x) /\ To(x, "exited")
      BY <1>4 DEF Kill
    <2>2. pc[x] # "none" /\ x \in OfJob
      BY <1>n, <2>1, JobAssumption DEF Alive
    <2>3. pc'[x] = "exited" /\ \A y \in OfJob \ {x} : pc'[y] = pc[y]
      BY <1>n, <2>1, <2>2 DEF To
    <2>4. waited' = waited
      BY <1>4 DEF Kill
    <2>5. CASE x = W
      BY <2>2, <2>3, <2>4, <2>5
    <2>6. CASE x # W
      <3>1. pc'[W] = pc[W]
        BY <1>m, <2>1, <2>2, <2>6
      <3>2. QED
        BY <2>4, <3>1
    <2>7. QED
      BY <2>5, <2>6
  <1>5. ASSUME NEW j \in Job, CannotWrite(j)
        PROVE  /\ waited' = waited
               /\ \/ pc'[W] = pc[W]
                  \/ pc[W] # "none" /\ pc'[W] = "exited"
                  \/ pc[W] \in HasLock \ Interrupted /\ pc'[W] = "signalled"
                  \/ pc[W] \in {"publish", "finish", "interrupted"} /\ pc'[W] = "clean" /\ used'.faults = used.faults + 1
    <2>1. used'.faults = used.faults + 1 /\ waited' = waited
      BY <1>u, <1>5 DEF CannotWrite, Fault
    <2>2. CASE j = k
      <3>1. CASE pc[Supervisor(j)] = "handover"
        <4>1. pc[W] # "none"
          BY <2>2, <3>1 DEF Order, OrderOf, W
        <4>2. \/ pc'[W] = AfterTerm(W)
              \/ pc[W] \in {"publish", "finish", "interrupted"} /\ pc'[W] = "clean"
          BY <1>n, <1>5, <2>2 DEF CannotWrite, To, W
        <4>3. QED
          BY <1>t, <2>1, <4>1, <4>2
      <3>2. CASE pc[Supervisor(j)] # "handover"
        BY <1>n, <1>5, <2>1, <2>2, <3>2 DEF CannotWrite, To, W
      <3>3. QED
        BY <3>1, <3>2
    <2>3. CASE j # k
      BY <1>n, <1>5, <2>1, <2>3 DEF CannotWrite, To
    <2>4. QED
      BY <2>2, <2>3
  <1>6. ASSUME NEW c \in Caller, Status(c) PROVE waited' = waited /\ pc'[W] = pc[W]
    <2>1. \E j \in Job : c = Launcher(j)
      BY Names
    <2>2. QED
      BY <1>6, <1>m, <1>n, <2>1, StatusLooks DEF Looks
  <1>7. ASSUME ExternalOperation \/ UNCHANGED vars PROVE waited' = waited /\ pc' = pc
    BY <1>7 DEF ExternalOperation, vars
  <1>8. QED
    BY <1>1, <1>2, <1>3, <1>4, <1>5, <1>6, <1>7 DEF Next, W

\* The faults only go up, and not by a step of the launch's own.
LEMMA FaultsCount ==
    ASSUME TypeOK, [Next]_vars, NEW k \in Job
    PROVE  /\ used.faults \in Nat /\ used'.faults \in {used.faults, used.faults + 1}
           /\ StepOf(k) => used'.faults = used.faults
  <1>0. used \in [faults : 0..MaxFaults, outside : 0..MaxOutside] /\ MaxFaults \in Nat
    BY JobAssumption DEF TypeOK
  <1>1. ASSUME NEW j \in Job, Start(j) \/ Work(j) \/ Operate(j) PROVE used' = used
    <2>1. ASSUME Start(j) PROVE used' = used
      BY <2>1 DEF Start, Launch, AcquireStartLock, TurnAway, AnswerFalse, TruncateRecord,
         WriteStarting, SpawnSupervisor, ReadOwner, AwaitAcknowledgment, TermJob, KillJob,
         ReadOwnerAgain, ReleaseStartLock, Recheck
    <2>2. ASSUME Work(j) PROVE used' = used
      BY <2>2 DEF Work, ForkWorker, HandOver, AwaitHandoff, WriteRunning, RunEngine, AwaitEngine,
         WriteResult, CheckOwnLock, RemoveOwnLock, TermEngine, ReapEngine, WriteInterrupted
    <2>3. QED
      BY <1>1, <2>1, <2>2 DEF Operate, AcquireLock, EndOperation
  <1>2. ASSUME NEW c \in Caller, Status(c) PROVE used' = used
    BY <1>2, StatusLooks DEF Looks
  <1>3. ASSUME NEW j \in Job, Kill(j) \/ CannotWrite(j) PROVE used'.faults = used.faults + 1
    BY <1>0, <1>3 DEF Kill, CannotWrite, Fault
  <1>4. ASSUME ExternalOperation \/ UNCHANGED vars PROVE used'.faults = used.faults
    BY <1>0, <1>4 DEF ExternalOperation, vars
  <1>5. used'.faults \in {used.faults, used.faults + 1}
    BY <1>1, <1>2, <1>3, <1>4 DEF Next
  <1>6. StepOf(k) => used'.faults = used.faults
    BY <1>1, <1>2, Names DEF StepOf
  <1>7. QED
    BY <1>0, <1>5, <1>6

LEMMA SupervisorRunsDown ==
    ASSUME TypeOK, Order, Target, [Next]_vars, NEW k \in Job
    PROVE  /\ SupervisorLeft(pc'[Supervisor(k)]) <= SupervisorLeft(pc[Supervisor(k)])
           /\ ForkWorker(k) \/ HandOver(k) =>
                SupervisorLeft(pc'[Supervisor(k)]) < SupervisorLeft(pc[Supervisor(k)])
  <1>0. /\ pc \in [OfJob -> PC] /\ pc[Supervisor(k)] \in SupervisorPC
        /\ Supervisor(k) \in OfJob /\ Supervisor(k) # Launcher(k) /\ Supervisor(k) # Worker(k)
        /\ SupervisorLeft(pc[Supervisor(k)]) \in 0..3
    BY Names, Counted DEF TypeOK, Positions
  <1>1. CASE pc'[Supervisor(k)] \in {pc[Supervisor(k)], "exited"} /\ ~ForkWorker(k) /\ ~HandOver(k)
    BY <1>0, <1>1, SmallCounts
  <1>2. CASE SpawnSupervisor(k)
    <2>1. pc[Supervisor(k)] = "none" /\ pc'[Supervisor(k)] = "fork"
      BY <1>0, <1>2 DEF SpawnSupervisor, Order, OrderOf, Launched, GivenUp
    <2>2. QED
      BY <2>1, SmallCounts DEF ForkWorker, HandOver
  <1>3. CASE ForkWorker(k)
    <2>1. pc[Supervisor(k)] = "fork" /\ pc'[Supervisor(k)] = "handover"
      BY <1>0, <1>3 DEF ForkWorker
    <2>2. QED
      BY <2>1, SmallCounts
  <1>4. CASE HandOver(k)
    <2>1. pc[Supervisor(k)] = "handover" /\ pc'[Supervisor(k)] = "exited"
      BY <1>0, <1>4 DEF HandOver, To
    <2>2. QED
      BY <2>1, SmallCounts
  <1>5. QED
    BY <1>1, <1>2, <1>3, <1>4, AllMove DEF Moves, Ends

\* What an engine does by itself, and what its worker does to it.
LEMMA EngineMoves ==
    ASSUME TypeOK, Order, Target, [Next]_vars, NEW k \in Job
    PROVE  \/ pc'[Engine(k)] = pc[Engine(k)]
           \/ Operate(k) \/ RunEngine(k) \/ TermEngine(k)
           \/ pc[Engine(k)] # "none" /\ pc'[Engine(k)] = "exited" /\ ~Operate(k) /\ ~Work(k)
  <1>n. /\ pc \in [OfJob -> PC] /\ Engine(k) \in OfJob
        /\ \A j \in Job : /\ Launcher(j) \in OfJob /\ Supervisor(j) \in OfJob
                          /\ Worker(j) \in OfJob /\ Engine(j) \in OfJob
                          /\ Launcher(j) # Engine(k) /\ Supervisor(j) # Engine(k) /\ Worker(j) # Engine(k)
                          /\ Engine(j) = Engine(k) => j = k
    BY Names DEF TypeOK, Positions
  <1>m. ASSUME NEW x \in OfJob, x # Engine(k), NEW l, To(x, l)
        PROVE  pc'[Engine(k)] = pc[Engine(k)]
    BY <1>n, <1>m DEF To
  <1>1. ASSUME NEW j \in Job, Start(j) PROVE pc'[Engine(k)] = pc[Engine(k)]
    <2>1. CASE SpawnSupervisor(j)
      BY <1>n, <2>1 DEF SpawnSupervisor
    <2>2. CASE TermJob(j) \/ KillJob(j)
      BY <1>n, <2>2, Stopped, Names
    <2>3. CASE \E l : To(Launcher(j), l)
      BY <1>n, <1>m, <2>3
    <2>4. QED
      BY <1>1, <2>1, <2>2, <2>3 DEF Start, Launch, AcquireStartLock, TurnAway, AnswerFalse,
         TruncateRecord, WriteStarting, ReadOwner, AwaitAcknowledgment, Accept, ReadOwnerAgain,
         ReleaseStartLock, Recheck
  <1>2. ASSUME NEW j \in Job, Work(j)
        PROVE  pc'[Engine(k)] = pc[Engine(k)] \/ RunEngine(k) \/ TermEngine(k)
    <2>1. CASE RunEngine(j) \/ TermEngine(j)
      BY <1>n, <2>1 DEF RunEngine, TermEngine
    <2>2. CASE ForkWorker(j)
      BY <1>n, <2>2 DEF ForkWorker
    <2>3. CASE UNCHANGED pc \/ \E x \in {Supervisor(j), Worker(j)} : \E l : To(x, l)
      BY <1>n, <1>m, <2>3
    <2>4. QED
      BY <1>2, <2>1, <2>2, <2>3 DEF Work, HandOver, AwaitHandoff, WriteRunning, AwaitEngine,
         WriteResult, CheckOwnLock, RemoveOwnLock, ReapEngine, WriteInterrupted
  <1>3. ASSUME NEW j \in Job, Operate(j)
        PROVE  pc'[Engine(k)] = pc[Engine(k)] \/ Operate(k)
    <2>1. \E l : To(Engine(j), l)
      BY <1>3 DEF Operate, AcquireLock, EndOperation
    <2>2. QED
      BY <1>m, <1>n, <1>3, <2>1
  <1>4. ASSUME NEW j \in Job, Kill(j)
        PROVE  \/ pc'[Engine(k)] = pc[Engine(k)]
               \/ pc[Engine(k)] # "none" /\ pc'[Engine(k)] = "exited" /\ ~Operate(k) /\ ~Work(k)
    <2>1. PICK x \in {Launcher(j), Supervisor(j), Worker(j), Engine(j)} : Alive(x) /\ To(x, "exited")
      BY <1>4 DEF Kill
    <2>2. /\ used.faults' = used.faults + 1 /\ used.faults \in Nat
      <3>1. used \in [faults : 0..MaxFaults, outside : 0..MaxOutside] /\ MaxFaults \in Nat
        BY JobAssumption DEF TypeOK
      <3>2. QED
        BY <1>4, <3>1 DEF Kill, Fault
    <2>3. ~Operate(k) /\ ~Work(k)
      <3>1. used' # used
        BY <2>2
      <3>2. QED
        BY <3>1 DEF Operate, AcquireLock, EndOperation, Work, ForkWorker, HandOver, AwaitHandoff,
           WriteRunning, RunEngine, AwaitEngine, WriteResult, CheckOwnLock, RemoveOwnLock,
           TermEngine, ReapEngine, WriteInterrupted
    <2>4. pc[x] # "none" /\ x \in OfJob
      BY <1>n, <2>1, JobAssumption DEF Alive
    <2>5. pc'[x] = "exited" /\ \A y \in OfJob \ {x} : pc'[y] = pc[y]
      BY <1>n, <2>1, <2>4 DEF To
    <2>6. QED
      BY <1>n, <2>3, <2>4, <2>5
  <1>5. ASSUME NEW j \in Job, CannotWrite(j) PROVE pc'[Engine(k)] = pc[Engine(k)]
    BY <1>n, <1>m, <1>5 DEF CannotWrite
  <1>6. ASSUME NEW c \in Caller, Status(c) PROVE pc'[Engine(k)] = pc[Engine(k)]
    <2>1. \E j \in Job : c = Launcher(j)
      BY Names
    <2>2. QED
      BY <1>6, <1>m, <1>n, <2>1, StatusLooks DEF Looks
  <1>7. ASSUME ExternalOperation \/ UNCHANGED vars PROVE pc' = pc
    BY <1>7 DEF ExternalOperation, vars
  <1>8. QED
    BY <1>1, <1>2, <1>3, <1>4, <1>5, <1>6, <1>7 DEF Next

LEMMA EngineOrderStep ==
    ASSUME TypeOK, Order, Target, EngineOrder, [Next]_vars
    PROVE  EngineOrder'
  <1> SUFFICES ASSUME NEW k \in Job
               PROVE  /\ pc'[Worker(k)] \in {"none", "handoff", "publish", "run"} => pc'[Engine(k)] = "none"
                      /\ pc'[Worker(k)] \in {"wait", "reap"} => pc'[Engine(k)] # "none"
    BY DEF EngineOrder
  <1>0. /\ pc \in [OfJob -> PC] /\ Worker(k) \in OfJob /\ Engine(k) \in OfJob /\ Supervisor(k) \in OfJob
        /\ Worker(k) # Engine(k) /\ Supervisor(k) # Worker(k) /\ Supervisor(k) # Engine(k)
        /\ pc[Worker(k)] \in WorkerPC /\ pc[Engine(k)] \in EnginePC
    BY Names, Counted DEF TypeOK, Positions
  <1>h. /\ pc[Worker(k)] \in {"none", "handoff", "publish", "run"} => pc[Engine(k)] = "none"
        /\ pc[Worker(k)] \in {"wait", "reap"} => pc[Engine(k)] # "none"
    BY DEF EngineOrder
  <1>m. ASSUME NEW l, To(Worker(k), l)
        PROVE  pc'[Worker(k)] = l /\ pc'[Engine(k)] = pc[Engine(k)]
    BY <1>0, <1>m DEF To
  <1>1. CASE RunEngine(k)
    <2>1. pc'[Worker(k)] = "wait" /\ pc'[Engine(k)] = "lock"
      BY <1>0, <1>1 DEF RunEngine
    <2>2. QED
      BY <2>1
  <1>2. CASE TermEngine(k)
    <2>1. /\ pc'[Engine(k)] = AfterTerm(Engine(k))
          /\ pc'[Worker(k)] = IF Alive(Engine(k)) THEN "reap" ELSE "interrupted"
      BY <1>0, <1>2 DEF TermEngine
    <2>2. Alive(Engine(k)) => AfterTerm(Engine(k)) # "none"
      BY <1>0, Names DEF AfterTerm, Alive
    <2>3. QED
      BY <2>1, <2>2
  <1>3. CASE Work(k) /\ ~RunEngine(k) /\ ~TermEngine(k)
    <2>1. CASE ForkWorker(k)
      <3>1. pc'[Worker(k)] = "handoff" /\ pc'[Engine(k)] = pc[Engine(k)] /\ pc[Worker(k)] = "none"
        BY <1>0, <2>1 DEF ForkWorker, Order, OrderOf
      <3>2. QED
        BY <1>h, <3>1
    <2>2. CASE HandOver(k)
      <3>1. pc'[Worker(k)] = pc[Worker(k)] /\ pc'[Engine(k)] = pc[Engine(k)]
        BY <1>0, <2>2 DEF HandOver, To
      <3>2. QED
        BY <1>h, <3>1
    <2>3. CASE AwaitHandoff(k)
      <3>1. /\ pc[Worker(k)] = "handoff" /\ pc'[Engine(k)] = pc[Engine(k)]
            /\ pc'[Worker(k)] \in {"handoff", "publish", "exited"}
        BY <1>m, <2>3 DEF AwaitHandoff
      <3>2. QED
        BY <1>h, <3>1
    <2>4. CASE WriteRunning(k)
      <3>1. pc[Worker(k)] = "publish" /\ pc'[Worker(k)] = "run" /\ pc'[Engine(k)] = pc[Engine(k)]
        BY <1>m, <2>4 DEF WriteRunning
      <3>2. QED
        BY <1>h, <3>1
    <2>5. CASE \/ AwaitEngine(k) \/ WriteResult(k) \/ CheckOwnLock(k) \/ RemoveOwnLock(k)
               \/ ReapEngine(k) \/ WriteInterrupted(k)
      <3>1. pc'[Worker(k)] \in {"finish", "clean", "exited", "remove", "remove143", "interrupted", "clean143"}
        BY <1>m, <2>5 DEF AwaitEngine, WriteResult, CheckOwnLock, RemoveOwnLock, ReapEngine, WriteInterrupted
      <3>2. QED
        BY <3>1
    <2>6. QED
      BY <1>3, <2>1, <2>2, <2>3, <2>4, <2>5 DEF Work
  <1>4. CASE Operate(k) /\ ~Work(k)
    <2>1. pc[Engine(k)] # "none" /\ pc'[Engine(k)] # "none" /\ pc'[Worker(k)] = pc[Worker(k)]
      BY <1>0, <1>4 DEF Operate, AcquireLock, EndOperation, To
    <2>2. QED
      BY <1>h, <2>1
  <1>5. CASE ~Work(k) /\ ~Operate(k)
    <2>1. \/ pc'[Engine(k)] = pc[Engine(k)]
          \/ pc[Engine(k)] # "none" /\ pc'[Engine(k)] = "exited"
      BY <1>5, EngineMoves DEF Work
    <2>2. \/ pc'[Worker(k)] = pc[Worker(k)]
          \/ pc'[Worker(k)] \in {"exited", "signalled", "clean"}
      BY <1>5, WorkerAlone
    <2>3. QED
      BY <1>h, <2>1, <2>2
  <1>6. QED
    BY <1>1, <1>2, <1>3, <1>4, <1>5

\* A worker's own calls bring it nearer its end, and whoever stops it does too;
\* a write that fails sends it back by no more than a fault allows for.
LEMMA WorkerRunsDown ==
    ASSUME TypeOK, TypeOK', Order, Target, [Next]_vars, NEW k \in Job
    PROVE  LET now == WorkerLeft(pc[Worker(k)], waited[Worker(k)]) + 4 * (MaxFaults - used.faults)
               then == WorkerLeft(pc'[Worker(k)], waited'[Worker(k)]) + 4 * (MaxFaults - used'.faults)
           IN  /\ then <= now
               /\ Work(k) /\ ~HandOver(k) => then < now
  <1> DEFINE W == Worker(k)   w == waited[W]   v == waited'[W]
             rank == WorkerLeft(pc[W], w)   next == WorkerLeft(pc'[W], v)
  <1>0. /\ pc \in [OfJob -> PC] /\ W \in OfJob /\ Supervisor(k) \in OfJob /\ Engine(k) \in OfJob
        /\ W # Supervisor(k) /\ W # Engine(k) /\ waited \in [OfJob -> 0..MaxWait]
    BY Names DEF TypeOK, Positions
  <1>c. /\ pc[W] \in WorkerPC /\ pc'[W] \in WorkerPC
        /\ w \in 0..MaxWait /\ v \in 0..MaxWait /\ MaxWait \in Nat /\ MaxFaults \in Nat
    <2>1. /\ pc[W] \in WorkerPC /\ w \in 0..MaxWait /\ MaxWait \in Nat /\ MaxFaults \in Nat
      BY Counted
    <2>2. pc'[W] \in WorkerPC /\ v \in 0..MaxWait
      BY Names, PCs DEF TypeOK, Positions
    <2>3. QED
      BY <2>1, <2>2
  <1>d. rank \in Nat /\ next \in Nat
    BY <1>c, WorkerCounts
  <1>f. used.faults \in Nat /\ used'.faults \in {used.faults, used.faults + 1}
    BY FaultsCount
  <1>m. ASSUME NEW l, To(W, l) PROVE pc'[W] = l
    BY <1>0, <1>m DEF To
  <1>1. CASE Work(k)
    <2>0. used'.faults = used.faults
      BY <1>1, FaultsCount DEF StepOf
    <2>1. CASE ForkWorker(k)
      <3>1. pc[W] = "none" /\ pc'[W] = "handoff" 
        BY <1>0, <2>1 DEF ForkWorker, Order, OrderOf
      <3>2. next < rank
        BY <1>c, <3>1, WorkerCounts
      <3>3. QED
        BY <1>c, <1>d, <1>f, <2>0, <3>2
    <2>2. CASE HandOver(k)
      <3>1. pc'[W] = pc[W] /\ v = w
        BY <1>0, <2>2 DEF HandOver, To
      <3>2. QED
        BY <1>c, <1>d, <1>f, <2>0, <2>2, <3>1
    <2>3. CASE AwaitHandoff(k)
      <3>1. /\ pc[W] = "handoff"
            /\ \/ pc'[W] \in {"publish", "exited"}
               \/ pc'[W] = "handoff" /\ v = w + 1
        BY <1>0, <1>m, <2>3 DEF AwaitHandoff
      <3>2. next < rank
        BY <1>c, <3>1, WorkerCounts
      <3>3. QED
        BY <1>c, <1>d, <1>f, <2>0, <3>2
    <2>4. CASE WriteRunning(k) \/ RunEngine(k) \/ AwaitEngine(k) \/ WriteResult(k)
      <3>1. \/ pc[W] = "publish" /\ pc'[W] = "run"
            \/ pc[W] = "run" /\ pc'[W] = "wait"
            \/ pc[W] = "wait" /\ pc'[W] = "finish"
            \/ pc[W] = "finish" /\ pc'[W] = "clean"
        BY <1>0, <1>m, <2>4 DEF WriteRunning, RunEngine, AwaitEngine, WriteResult
      <3>2. next < rank
        BY <1>c, <3>1, WorkerCounts
      <3>3. QED
        BY <1>c, <1>d, <1>f, <2>0, <3>2
    <2>5. CASE CheckOwnLock(k) \/ RemoveOwnLock(k)
      <3>1. \/ pc[W] = "clean" /\ pc'[W] \in {"remove", "exited"}
            \/ pc[W] = "clean143" /\ pc'[W] \in {"remove143", "exited"}
            \/ pc[W] \in {"remove", "remove143"} /\ pc'[W] = "exited"
        BY <1>0, <1>m, <2>5 DEF CheckOwnLock, RemoveOwnLock
      <3>2. next < rank
        BY <1>c, <3>1, WorkerCounts
      <3>3. QED
        BY <1>c, <1>d, <1>f, <2>0, <3>2
    <2>6. CASE TermEngine(k) \/ ReapEngine(k) \/ WriteInterrupted(k)
      <3>1. \/ pc[W] = "signalled" /\ pc'[W] \in {"reap", "interrupted"}
            \/ pc[W] = "reap" /\ pc'[W] = "interrupted"
            \/ pc[W] = "interrupted" /\ pc'[W] = "clean143"
        BY <1>0, <1>m, <2>6 DEF TermEngine, ReapEngine, WriteInterrupted
      <3>2. next < rank
        BY <1>c, <3>1, WorkerCounts
      <3>3. QED
        BY <1>c, <1>d, <1>f, <2>0, <3>2
    <2>7. QED
      BY <1>1, <2>1, <2>2, <2>3, <2>4, <2>5, <2>6 DEF Work
  <1>2. CASE ~Work(k)
    <2>0. v = w
      BY <1>2, WorkerAlone
    <2>1. CASE pc'[W] = pc[W]
      BY <1>2, <1>c, <1>d, <1>f, <2>0, <2>1
    <2>2. CASE pc'[W] = "exited"
      <3>1. next = 0
        BY <1>c, <2>2, WorkerCounts
      <3>2. QED
        BY <1>2, <1>c, <1>d, <1>f, <3>1
    <2>3. CASE pc[W] \in HasLock \ Interrupted /\ pc'[W] = "signalled"
      <3>1. pc[W] \in {"publish", "run", "wait", "finish", "clean", "remove"}
        BY <2>3 DEF HasLock, Interrupted
      <3>2. next < rank
        BY <1>c, <2>3, <3>1, WorkerCounts
      <3>3. QED
        BY <1>2, <1>c, <1>d, <1>f, <3>2
    <2>4. CASE /\ pc[W] \in {"publish", "finish", "interrupted"} /\ pc'[W] = "clean"
               /\ used'.faults = used.faults + 1
      <3>1. next <= rank + 4
        BY <1>c, <2>4, WorkerCounts
      <3>2. QED
        BY <1>2, <1>c, <1>d, <1>f, <2>4, <3>1
    <2>5. QED
      BY <1>2, <2>1, <2>2, <2>3, <2>4, WorkerAlone
  <1>3. QED
    BY <1>1, <1>2

LEMMA EngineRunsDown ==
    ASSUME TypeOK, Order, Target, EngineOrder, [Next]_vars, NEW k \in Job
    PROVE  /\ EngineLeft(pc'[Engine(k)]) <= EngineLeft(pc[Engine(k)])
           /\ Operate(k) => EngineLeft(pc'[Engine(k)]) < EngineLeft(pc[Engine(k)])
  <1>0. /\ pc \in [OfJob -> PC] /\ Engine(k) \in OfJob /\ Worker(k) \in OfJob /\ Worker(k) # Engine(k)
        /\ pc[Engine(k)] \in EnginePC
    BY Names, Counted DEF TypeOK, Positions
  <1>1. CASE Operate(k)
    <2>1. \/ pc[Engine(k)] = "lock" /\ pc'[Engine(k)] \in {"work", "exited"}
          \/ pc[Engine(k)] \in {"work", "unwind"} /\ pc'[Engine(k)] = "exited"
      BY <1>0, <1>1 DEF Operate, AcquireLock, EndOperation, To
    <2>2. QED
      BY <2>1, SmallCounts
  <1>2. CASE RunEngine(k)
    <2>1. pc[Engine(k)] = "none" /\ pc'[Engine(k)] = "lock"
      BY <1>0, <1>2 DEF RunEngine, EngineOrder
    <2>2. QED
      BY <2>1, SmallCounts DEF Operate, AcquireLock, EndOperation
  <1>3. CASE TermEngine(k)
    <2>1. pc'[Engine(k)] = AfterTerm(Engine(k))
      BY <1>0, <1>3 DEF TermEngine
    <2>2. \/ AfterTerm(Engine(k)) \in {pc[Engine(k)], "exited"}
          \/ pc[Engine(k)] = "work" /\ AfterTerm(Engine(k)) = "unwind"
      BY <1>0, Names DEF AfterTerm, Alive, EnginePC
    <2>3. EngineLeft(pc'[Engine(k)]) <= EngineLeft(pc[Engine(k)])
      BY <1>0, <2>1, <2>2, SmallCounts
    <2>4. QED
      BY <2>3, <1>1
  <1>4. CASE pc'[Engine(k)] \in {pc[Engine(k)], "exited"} /\ ~Operate(k)
    BY <1>0, <1>4, SmallCounts
  <1>5. QED
    BY <1>1, <1>2, <1>3, <1>4, EngineMoves

LEMMA LeftRunsDown ==
    ASSUME TypeOK, TypeOK', Order, Target, EngineOrder, [Next]_vars, NEW k \in Job
    PROVE  Left(k)' <= Left(k) /\ (StepOf(k) => Left(k)' < Left(k))
  <1> DEFINE L == Launcher(k)   S == Supervisor(k)   W == Worker(k)   E == Engine(k)
             l1 == LauncherLeft(pc[L], st[L].for, st[L].tries, waited[L])
             l2 == LauncherLeft(pc'[L], st'[L].for, st'[L].tries, waited'[L])
             s1 == SupervisorLeft(pc[S])   s2 == SupervisorLeft(pc'[S])
             w1 == WorkerLeft(pc[W], waited[W]) + 4 * (MaxFaults - used.faults)
             w2 == WorkerLeft(pc'[W], waited'[W]) + 4 * (MaxFaults - used'.faults)
             e1 == EngineLeft(pc[E])       e2 == EngineLeft(pc'[E])
  <1>1. /\ l1 \in Nat /\ s1 \in Nat /\ w1 \in Nat /\ e1 \in Nat
        /\ l2 \in Nat /\ s2 \in Nat /\ w2 \in Nat /\ e2 \in Nat
    <2>1. /\ l1 \in Nat /\ s1 \in Nat /\ e1 \in Nat
          /\ WorkerLeft(pc[W], waited[W]) \in Nat /\ used.faults \in 0..MaxFaults
          /\ MaxFaults \in Nat /\ MaxWait \in Nat
      BY Counted
    <2>u. used'.faults \in 0..MaxFaults
      BY DEF TypeOK
    <2>2. /\ pc'[L] \in LauncherPC /\ pc'[S] \in SupervisorPC /\ pc'[W] \in WorkerPC
          /\ pc'[E] \in EnginePC /\ st'[L] \in Readings
          /\ waited'[L] \in 0..MaxWait /\ waited'[W] \in 0..MaxWait
      BY Names, PCs DEF TypeOK, Positions
    <2>3. st'[L].for \in {"print", "check"} /\ st'[L].tries \in 0..2
      BY <2>2 DEF Readings
    <2>4. l2 \in Nat /\ s2 \in Nat /\ e2 \in Nat /\ WorkerLeft(pc'[W], waited'[W]) \in Nat
      BY <2>1, <2>2, <2>3, LauncherCounts, WorkerCounts, SmallCounts
    <2>5. QED
      BY <2>1, <2>u, <2>4
  <1>2. l2 <= l1 /\ (Start(k) \/ Status(L) => l2 < l1)
    BY LauncherRunsDown
  <1>3. s2 <= s1 /\ (ForkWorker(k) \/ HandOver(k) => s2 < s1)
    BY SupervisorRunsDown
  <1>4. w2 <= w1 /\ (Work(k) /\ ~HandOver(k) => w2 < w1)
    BY WorkerRunsDown
  <1>5. e2 <= e1 /\ (Operate(k) => e2 < e1)
    BY EngineRunsDown
  <1>7. Left(k) = l1 + s1 + w1 + e1 /\ Left(k)' = l2 + s2 + w2 + e2
    BY <1>1 DEF Left
  <1> HIDE DEF l1, l2, s1, s2, w1, w2, e1, e2
  <1>8. QED
    BY <1>1, <1>2, <1>3, <1>4, <1>5, <1>7 DEF StepOf

ShortInv == JobInv /\ EngineOrder

LEMMA ShortInvariant == Spec => []ShortInv
  <1>1. Init => EngineOrder
    <2> SUFFICES ASSUME Init, NEW j \in Job
                 PROVE  pc[Worker(j)] = "none" /\ pc[Engine(j)] = "none"
      BY DEF EngineOrder
    <2>1. QED
      BY Names DEF Init
  <1>2. JobInv /\ EngineOrder /\ [Next]_vars => EngineOrder'
    BY EngineOrderStep DEF JobInv
  <1>3. QED
    BY JobInvariant, <1>1, <1>2, PTL DEF Spec, ShortInv

\* However the processes of all launches interleave and whatever is killed,
\* nothing gives a launch more to do than it had, and every call that its
\* launcher, supervisor, worker or engine makes leaves it less: none of the
\* waits, the status read again, a TERM on the way or the write that fails
\* sends it round for ever.
THEOREM LaunchesRunDown == Spec => RunsDown
  <1>1. ShortInv /\ ShortInv' /\ [Next]_vars =>
          [\A j \in Job : /\ Left(j)' <= Left(j)
                          /\ StepOf(j) => Left(j)' < Left(j)]_vars
    BY LeftRunsDown DEF ShortInv, JobInv
  <1>2. QED
    BY <1>1, ShortInvariant, PTL DEF Spec, RunsDown

\* So an `action-start', with all it starts, makes at most
\* 56 + 3 MaxWait + 4 MaxFaults calls, and the only wait without a bound, the
\* worker's for its engine, is for an engine that was started.
THEOREM LaunchesAreBounded == Spec => []LaunchesAreShort
  <1>1. ShortInv => LaunchesAreShort
    <2> SUFFICES ASSUME ShortInv, NEW k \in Job
                 PROVE  /\ Left(k) \in 0..(56 + 3 * MaxWait + 4 * MaxFaults)
                        /\ pc[Worker(k)] \in {"wait", "reap"} => pc[Engine(k)] # "none"
      BY DEF LaunchesAreShort
    <2>1. Left(k) \in 0..(56 + 3 * MaxWait + 4 * MaxFaults)
      <3>1. TypeOK
        BY DEF ShortInv, JobInv
      <3>2. /\ LauncherLeft(pc[Launcher(k)], st[Launcher(k)].for, st[Launcher(k)].tries,
                           waited[Launcher(k)]) \in 0..(36 + 2 * MaxWait)
            /\ SupervisorLeft(pc[Supervisor(k)]) \in 0..3
            /\ WorkerLeft(pc[Worker(k)], waited[Worker(k)]) \in 0..(13 + MaxWait)
            /\ EngineLeft(pc[Engine(k)]) \in 0..4
            /\ MaxWait \in Nat /\ MaxFaults \in Nat /\ used.faults \in 0..MaxFaults
        BY <3>1, Counted
      <3>3. QED
        BY <3>2 DEF Left
    <2>2. QED
      BY <2>1 DEF ShortInv, EngineOrder
  <1>2. QED
    BY <1>1, ShortInvariant, PTL
=============================================================================
