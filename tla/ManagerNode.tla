---------------------------- MODULE ManagerNode ----------------------------
(***************************************************************************)
(* One manager node: its gRPC handlers, its backup tasks and its process   *)
(* manager, running concurrently over the state of NodeState.              *)
(***************************************************************************)
EXTENDS RpcHandlers, BackupTasks, ProcessManager, FiniteSets

Init ==
    /\ rpc = [h \in Handlers |-> IdleCall]
    /\ task = [t \in Tasks |-> FreeTask]
    /\ ms = NewManagerState(DefaultConfig)
    /\ toml \in {DefaultConfig} \cup
                (IF HasConfigFile
                 THEN {[cron |-> c, bucket |-> DefaultBucket] : c \in Cron}
                 ELSE {})
    /\ watch = [val |-> None, unseen |-> FALSE]
    /\ lockq = <<>>
    /\ pm = "down"
    /\ pmCron = None
    /\ sched = None
    /\ child = FALSE
    /\ temp = {}
    /\ acked = AsSaved(toml)

Next ==
    \/ \E h \in Handlers : NewCall(h) \/ HandlerStep(h)
    \/ \E t \in Tasks : CronFires(t) \/ TaskStep(t)
    \/ Boot
    \/ ManagerStep
    \/ LoopEnds
    \/ NodeDies

Spec == Init /\ [][Next]_vars

(***************************************************************************)
(* The runtime polls every task that is ready, so what the node has begun  *)
(* goes on.  Nothing obliges a client to call, a tick to come, the node to *)
(* die or to be started again.                                             *)
(***************************************************************************)
Fairness ==
    /\ \A h \in Handlers : WF_vars(HandlerStep(h))
    /\ \A t \in Tasks : WF_vars(TaskStep(t))
    /\ WF_vars(ManagerStep)

FairSpec == Spec /\ Fairness

-----------------------------------------------------------------------------

TypeOK ==
    /\ rpc \in [Handlers -> Call]
    /\ task \in [Tasks -> Task]
    /\ ms \in ManagerState
    /\ toml \in Config
    /\ watch \in [val: Cron, unseen: BOOLEAN]
    /\ lockq \in Seq(Handlers \cup Spawned)
    /\ pm \in {"down", "boot", "spawned", "borrow", "create", "loop", "ending"}
    /\ pmCron \in Cron
    /\ sched \in Cron
    /\ child \in BOOLEAN
    /\ temp \subseteq Tasks \cup {None}
    /\ acked \in Acked

\* The backups an RPC starts never overlap: backup_lock is held from before
\* the target is chosen until the outcome is reported.
InLockedSection(t) == t \in Spawned /\ (Uploading(t) \/ task[t].pc = "read")
RpcBackupsSerialised ==
    \A t, u \in Spawned : InLockedSection(t) /\ InLockedSection(u) => t = u

\* How the lock achieves that: no one queues for it twice; a handler is in the
\* queue only while it has its guard, and then at the head; so is a task from
\* its first poll to its report, and it works only at the head.
Queued(a) == \E i \in 1..Len(lockq) : lockq[i] = a
QueuedOnce == \A i, j \in 1..Len(lockq) : lockq[i] = lockq[j] => i = j
GuardsAreHeld ==
    \A h \in Handlers : IF At(h, "drop") THEN HoldsLock(h) ELSE ~Queued(h)
TasksWaitTheirTurn ==
    \A t \in Spawned :
        /\ task[t].pc \in {"free", "spawned"} => ~Queued(t)
        /\ InLockedSection(t) => HoldsLock(t)
LockDiscipline == QueuedOnce /\ GuardsAreHeld /\ TasksWaitTheirTurn

\* Whenever the manager loop has nothing to react to, the scheduler that runs
\* is the one of the schedule sent last, however sends fell between the
\* shutdown of the old scheduler, the borrow and the start of the new one.
IdleSchedulerIsLatest ==
    pm = "loop" /\ ~watch.unseen => sched = SchedulerFor(watch.val)

\* A backup that is going to be reported as done had a complete compressed
\* copy of its own or of a run after it to upload, not one torn by another
\* run's truncation.
SuccessMeansGoodCopy ==
    \A t \in Tasks : task[t].pc \in {"cleanup", "ok"} => task[t].intact

\* What clients were last told of the schedule and of the bucket is what the
\* file says, unless the save of it failed or died between the truncation of
\* the file and its write; and it is what the manager state and the watch
\* channel say, now and after any restart, unless the node has started without
\* it, from such a file or because it could not load it.
CronInMemory == /\ ms.cron = acked.cron
                /\ ms.enabled = (acked.cron # None)
                /\ watch.val = acked.cron
BucketInMemory == ms.bucket = BucketOf(acked)
Remembered ==
    /\ HasConfigFile => \A f \in Fields \ acked.unsaved : toml[f] = acked[f]
    /\ Exists => /\ "cron" \notin acked.unloaded => CronInMemory
                 /\ "bucket" \notin acked.unloaded => BucketInMemory
AckedConfigIsInForce == NoConfigCall => Remembered

\* "Persist cron to TOML so it survives restarts", without any exception: the
\* node comes back with the schedule clients were last told.
ScheduleSurvivesRestarts ==
    HasConfigFile /\ Exists /\ NoConfigCall => ms.cron = acked.cron

\* Between configuration calls the schedule in the file is the one in force.
FileHoldsSchedule ==
    HasConfigFile /\ NoConfigCall /\ pm # "down" => toml.cron = ms.cron

\* backup_lock comes free again and again, so triggers are not rejected for
\* ever: every run hands the lock on, however it ends, and only finitely many
\* calls have passed the test of the lock when it is taken.
BackupLockComesFree == []<>LockFree

\* Once clients leave the configuration alone and the node stays up, the
\* scheduler of the last schedule runs, for good.
Settled == pm \notin {"down", "ending"} /\ NoConfigCall
SchedulerConverges ==
    <>[]Settled => <>[](sched = SchedulerFor(watch.val))

\* After a stop that nobody revokes the node falls quiet: cron runs end and
\* none starts.
StopSilencesCron ==
    <>[](Settled /\ watch.val = None)
        => <>[](\A t \in Jobs : task[t] = FreeTask)
=============================================================================
