------------------------- MODULE ManagerNodeProofs -------------------------
(***************************************************************************)
(* Theorems about ManagerNode, for every number of handlers and tasks and  *)
(* every set of patterns and buckets.                                      *)
(***************************************************************************)
EXTENDS ManagerNode, TLAPS

USE DEF HoldsLock, LockFree, Enqueue, Release

\* The sentinel is no pattern and no bucket.
LEMMA NoneIsNew == /\ None \notin Patterns /\ None \notin Buckets
                   /\ DefaultBucket \in Buckets
  BY ValuesAssumption

\* The constant records are of the types the variables have.
LEMMA ConstantTypes ==
    /\ DefaultConfig \in Config
    /\ IdleCall \in Call
    /\ FreeTask \in Task
    /\ \A cfg \in Config : NewManagerState(cfg) \in ManagerState
    /\ \A cfg \in Config : AsSaved(cfg) \in Acked
  BY NoneIsNew DEF IdleCall, Call, DefaultConfig, Config, FreeTask, Task,
     NewManagerState, ManagerState, BucketOf, AsSaved, Acked, Cron

\* The first state is well typed.
LEMMA InitType == Init => TypeOK
<1> SUFFICES ASSUME Init PROVE TypeOK
  OBVIOUS
<1>1. toml \in Config
  BY ConstantTypes, NoneIsNew DEF Init, Config, Cron
<1>2. rpc \in [Handlers -> Call] /\ task \in [Tasks -> Task]
  BY ConstantTypes DEF Init
<1>3. ms \in ManagerState /\ acked \in Acked
  BY <1>1, ConstantTypes DEF Init
<1>4. lockq \in Seq(Handlers \cup Spawned)
  BY DEF Init
<1> QED
  BY <1>1, <1>2, <1>3, <1>4 DEF Init, TypeOK, Cron

\* What a call that is at a given step must be.
LEMMA CallAt ==
  ASSUME TypeOK, NEW h \in Handlers
  PROVE  /\ rpc[h] \in Call
         /\ rpc[h].pc \in {"load", "truncate", "write"}
              => rpc[h] \in CronCall \cup ModifyCall
         /\ At(h, "apply") => rpc[h] \in ModifyCall
         /\ At(h, "send") => rpc[h] \in CronCall
         /\ rpc[h].pc \in {"probe", "drop", "spawn"}
              => rpc[h] \in CronCall \cup TriggerCall
         /\ At(h, "target") => rpc[h] \in TriggerCall
         /\ rpc[h].pc \in {"format", "formatting"} => rpc[h] \in FormatCall
  BY DEF TypeOK, Call, IdleCall, CronCall, ModifyCall, TriggerCall,
         FormatCall, At

\* StartBackup and StopBackup keep the types.
LEMMA SetScheduleType ==
  ASSUME TypeOK, NEW h \in Handlers, NEW c \in Cron, NEW op \in {"start", "stop"},
         SetSchedule(h, op, c)
  PROVE  TypeOK'
<1>1. rpc' \in [Handlers -> Call]
  BY ConstantTypes DEF TypeOK, SetSchedule, Call, CronCall
<1>2. ms' \in ManagerState
  BY DEF TypeOK, SetSchedule, ManagerState
<1> QED
  BY <1>1, <1>2 DEF TypeOK, SetSchedule, processVars, backupVars

\* A step of a handler keeps every variable in its set.
LEMMA HandlerStepType ==
  ASSUME TypeOK, LockDiscipline, NEW h \in Handlers, HandlerStep(h)
  PROVE  TypeOK'
<1> USE CallAt, ConstantTypes DEF At, Goto, Reply, processVars, backupVars
<1>1. CASE LoadConfig(h)
  <2>1. Merged(h) \in Config
    BY <1>1 DEF LoadConfig, Merged, Config, Cron, CronCall, ModifyCall, TypeOK
  <2>2. [rpc[h] EXCEPT !.cfg = Merged(h), !.pc = "truncate"] \in Call
    BY <1>1, <2>1 DEF LoadConfig, Call, CronCall, ModifyCall
  <2> QED
    BY <1>1, <2>2 DEF LoadConfig, TypeOK
<1>2. CASE TruncateConfig(h)
  <2>1. [rpc[h] EXCEPT !.pc = "write"] \in Call
    BY <1>2 DEF TruncateConfig, Call, CronCall, ModifyCall
  <2> QED
    BY <1>2, <2>1 DEF TruncateConfig, TypeOK
<1>3. CASE WriteConfig(h)
  <2>1. [rpc[h] EXCEPT !.pc = AfterSave(h)] \in Call /\ rpc[h].cfg \in Config
    BY <1>3 DEF WriteConfig, AfterSave, Call, CronCall, ModifyCall
  <2>2. /\ rpc[h].op # "modify" => rpc[h].arg \in Cron
        /\ rpc[h].op = "modify" => rpc[h].arg \in Buckets \cup {None}
    BY <1>3 DEF WriteConfig, CronCall, ModifyCall
  <2>3. \A f \in Fields : acked.unsaved \ {f} \in SUBSET Fields
    BY DEF TypeOK, Acked
  <2>4. acked' \in Acked
    <3>1. CASE rpc[h].op # "modify"
      <4>1. PICK U : /\ acked' = [acked EXCEPT !.cron = rpc[h].arg, !.unsaved = U]
                     /\ U = acked.unsaved \ {"cron"}
        BY <1>3, <3>1 DEF WriteConfig
      <4> QED
        BY <2>2, <2>3, <3>1, <4>1 DEF TypeOK, Acked, Fields
    <3>2. CASE rpc[h].op = "modify" /\ rpc[h].arg # None
      <4>1. PICK U : /\ acked' = [acked EXCEPT !.bucket = rpc[h].arg, !.unsaved = U]
                     /\ U = acked.unsaved \ {"bucket"}
        BY <1>3, <3>2 DEF WriteConfig
      <4> QED
        BY <2>2, <2>3, <3>2, <4>1 DEF TypeOK, Acked, Fields
    <3>3. CASE rpc[h].op = "modify" /\ rpc[h].arg = None
      BY <1>3, <3>3 DEF WriteConfig, TypeOK
    <3> QED
      BY <3>1, <3>2, <3>3
  <2> QED
    BY <1>3, <2>1, <2>4 DEF WriteConfig, TypeOK
<1>4. CASE ConfigIoFails(h)
  <2>1. rpc[h].op # "modify" => [rpc[h] EXCEPT !.pc = "send"] \in Call
    BY <1>4 DEF ConfigIoFails, Call, CronCall, ModifyCall
  <2>2. rpc' \in [Handlers -> Call]
    BY <1>4, <2>1 DEF ConfigIoFails, TypeOK
  <2>3. acked' \in Acked
    <3>1. PICK U : acked' = [acked EXCEPT !.unsaved = U]
                   /\ U \in {Fields, acked.unsaved, acked.unsaved \cup {"cron"}}
      BY <1>4 DEF ConfigIoFails
    <3>2. U \in SUBSET Fields
      BY <3>1 DEF TypeOK, Acked, Fields
    <3> QED
      BY <3>1, <3>2 DEF TypeOK, Acked
  <2> QED
    BY <1>4, <2>2, <2>3 DEF ConfigIoFails, TypeOK
<1>5. CASE ApplyConfig(h)
  <2>1. rpc[h].cfg.bucket \in Buckets \cup {None}
    BY <1>5 DEF ApplyConfig, ModifyCall, Config
  <2>2. ms' \in ManagerState
    BY <1>5, <2>1 DEF ApplyConfig, TypeOK, ManagerState
  <2>3. acked' \in Acked
    <3>1. PICK L : acked' = [acked EXCEPT !.unloaded = L]
                   /\ L \in {acked.unloaded, acked.unloaded \ {"bucket"}}
      BY <1>5 DEF ApplyConfig
    <3>2. L \in SUBSET Fields
      BY <3>1 DEF TypeOK, Acked
    <3> QED
      BY <3>1, <3>2 DEF TypeOK, Acked
  <2> QED
    BY <1>5, <2>2, <2>3 DEF ApplyConfig, TypeOK
<1>6. CASE SendCron(h)
  <2>1. /\ rpc[h].arg \in Cron
        /\ [rpc[h] EXCEPT !.pc = "probe"] \in Call
    BY <1>6 DEF SendCron, Call, CronCall
  <2>2. rpc' \in [Handlers -> Call]
    BY <1>6, <2>1 DEF SendCron, TypeOK
  <2>3. acked' \in Acked
    <3>1. PICK U, L : acked' = [acked EXCEPT !.cron = rpc[h].arg, !.unloaded = L, !.unsaved = U]
                      /\ L = acked.unloaded \ {"cron"}
                      /\ U \in {acked.unsaved, acked.unsaved \cup {"cron"}}
      BY <1>6 DEF SendCron
    <3>2. L \in SUBSET Fields /\ U \in SUBSET Fields
      BY <3>1 DEF TypeOK, Acked, Fields
    <3> QED
      BY <2>1, <3>1, <3>2 DEF TypeOK, Acked
  <2> QED
    BY <1>6, <2>1, <2>2, <2>3 DEF SendCron, TypeOK
<1>7. CASE TryLock(h)
  <2>1. [rpc[h] EXCEPT !.pc = "drop"] \in Call
    BY <1>7 DEF TryLock, Call, CronCall, TriggerCall
  <2>2. lockq' \in Seq(Handlers \cup Spawned)
    BY <1>7 DEF TryLock, TypeOK
  <2> QED
    BY <1>7, <2>1, <2>2 DEF TryLock, TypeOK
<1>8. CASE TryLockFails(h)
  BY <1>8 DEF TryLockFails, TypeOK
<1>9. CASE DropGuard(h)
  <2>1. [rpc[h] EXCEPT !.pc = IF rpc[h].op = "trigger" THEN "target" ELSE "spawn"]
          \in Call
    BY <1>9 DEF DropGuard, Call, CronCall, TriggerCall
  <2>2. lockq # <<>>
    BY <1>9 DEF DropGuard, LockDiscipline, GuardsAreHeld
  <2>3. lockq' \in Seq(Handlers \cup Spawned)
    BY <1>9, <2>2 DEF DropGuard, TypeOK
  <2> QED
    BY <1>9, <2>1, <2>3 DEF DropGuard, TypeOK
<1>10. CASE CaptureTarget(h)
  <2>1. [rpc[h] EXCEPT !.arg = ms.bucket, !.pc = "spawn"] \in Call
    BY <1>10 DEF CaptureTarget, Call, TriggerCall, TypeOK, ManagerState
  <2> QED
    BY <1>10, <2>1 DEF CaptureTarget, TypeOK
<1>11. CASE SpawnBackup(h)
  <2>1. rpc[h].op = "trigger" => rpc[h].arg \in Buckets \cup {None}
    BY <1>11 DEF SpawnBackup, CronCall, TriggerCall
  <2>2. [pc |-> "spawned", intact |-> FALSE,
         bucket |-> IF rpc[h].op = "trigger" THEN rpc[h].arg ELSE None] \in Task
    BY <2>1 DEF Task
  <2>3. task' \in [Tasks -> Task]
    BY <1>11, <2>2 DEF SpawnBackup, TypeOK
  <2> QED
    BY <1>11, <2>3 DEF SpawnBackup, TypeOK
<1>12. CASE RunFormat(h)
  <2>1. [rpc[h] EXCEPT !.pc = "formatting"] \in Call
    BY <1>12 DEF RunFormat, Call, FormatCall
  <2> QED
    BY <1>12, <2>1 DEF RunFormat, TypeOK
<1>13. CASE FormatEnds(h)
  BY <1>13 DEF FormatEnds, TypeOK
<1> QED
  BY <1>1, <1>2, <1>3, <1>4, <1>5, <1>6, <1>7, <1>8, <1>9, <1>10, <1>11,
     <1>12, <1>13 DEF HandlerStep

\* The arrival of a call keeps the types.
LEMMA NewCallType ==
  ASSUME TypeOK, NEW h \in Handlers, NewCall(h)
  PROVE  TypeOK'
<1> USE ConstantTypes DEF processVars, backupVars
<1>1. CASE StartBackup(h) \/ StopBackup(h)
  <2>1. PICK c \in Cron, op \in {"start", "stop"} : SetSchedule(h, op, c)
    BY <1>1 DEF StartBackup, StopBackup, Cron
  <2> QED
    BY <2>1, SetScheduleType
<1>2. CASE ModifyBackupConfig(h)
  <2>1. rpc' \in [Handlers -> Call]
    BY <1>2 DEF ModifyBackupConfig, TypeOK, Call, ModifyCall
  <2> QED
    BY <1>2, <2>1 DEF ModifyBackupConfig, TypeOK
<1>3. CASE TriggerBackup(h)
  <2>1. [IdleCall EXCEPT !.op = "trigger", !.pc = "probe"] \in Call
    BY DEF IdleCall, Call, TriggerCall
  <2> QED
    BY <1>3, <2>1 DEF TriggerBackup, TypeOK
<1>4. CASE FormatDataFile(h)
  <2>1. [IdleCall EXCEPT !.op = "format", !.pc = "format"] \in Call
    BY DEF IdleCall, Call, FormatCall
  <2> QED
    BY <1>4, <2>1 DEF FormatDataFile, TypeOK
<1> QED
  BY <1>1, <1>2, <1>3, <1>4 DEF NewCall

\* A step of a backup task keeps every variable in its set.
LEMMA TaskStepType ==
  ASSUME TypeOK, LockDiscipline, NEW t \in Tasks, CronFires(t) \/ TaskStep(t)
  PROVE  TypeOK'
<1> USE ConstantTypes DEF Advance, configVars, managerVars
<1>0. /\ task[t] \in Task
      /\ \A pc \in {"waiting", "read", "compress", "compressing", "open",
                    "cleanup", "ok", "failed"} :
           [task[t] EXCEPT !.pc = pc] \in Task
  BY DEF TypeOK, Task
<1>1. CASE TaskQueues(t)
  BY <1>0, <1>1 DEF TaskQueues, TypeOK
<1>2. CASE TaskLocks(t)
  BY <1>0, <1>2 DEF TaskLocks, TypeOK
<1>3. CASE CronFires(t)
  BY <1>0, <1>3 DEF CronFires, TypeOK
<1>4. CASE ReadTarget(t)
  <2>1. [task[t] EXCEPT !.bucket = ms.bucket, !.pc = "compress"] \in Task
    BY <1>0, ZenonT(40) DEF TypeOK, ManagerState, Task
  <2> QED
    BY <1>4, <2>1 DEF ReadTarget, TypeOK
<1>5. CASE OpenTemp(t)
  BY <1>0, <1>5 DEF OpenTemp, TypeOK
<1>6. CASE FinishCompression(t)
  BY <1>0, <1>6 DEF FinishCompression, TypeOK
<1>7. CASE OpenCompressed(t)
  <2>1. GoodCopy \in BOOLEAN
    BY DEF GoodCopy
  <2>2. task[t].bucket \in Buckets \cup {None}
    BY <1>0 DEF Task
  <2>3. \A b \in BOOLEAN :
          [pc |-> "cleanup", bucket |-> task[t].bucket, intact |-> b] \in Task
    BY <2>2 DEF Task
  <2> QED
    BY <1>7, <2>1, <2>3 DEF OpenCompressed, TypeOK
<1>8. CASE CompressedIsGone(t)
  BY <1>0, <1>8 DEF CompressedIsGone, TypeOK
<1>9. CASE RemoveTemp(t)
  BY <1>0, <1>9 DEF RemoveTemp, TypeOK
<1>10. CASE CompressionFails(t)
  BY <1>0, <1>10 DEF CompressionFails, TypeOK
<1>11. CASE Report(t)
  <2>1. ms' \in ManagerState
    BY <1>11 DEF Report, TypeOK, ManagerState
  <2>2. t \in Spawned => lockq # <<>>
    BY <1>11 DEF Report, LockDiscipline, TasksWaitTheirTurn, InLockedSection,
       Uploading, UploadStages
  <2>3. lockq' \in Seq(Handlers \cup Spawned)
    BY <1>11, <2>2 DEF Report, TypeOK
  <2> QED
    BY <1>11, <2>1, <2>3 DEF Report, TypeOK
<1> QED
  BY <1>1, <1>2, <1>3, <1>4, <1>5, <1>6, <1>7, <1>8, <1>9, <1>10, <1>11
  DEF TaskStep

\* A step of the process manager keeps every variable in its set.
LEMMA ManagerType ==
  ASSUME TypeOK, Boot \/ ManagerStep \/ LoopEnds \/ NodeDies
  PROVE  TypeOK'
<1> USE ConstantTypes DEF TypeOK
<1>1. CASE Boot
  <2>1. PICK cfg \in Config, L \in SUBSET Fields : StartWith(cfg, L)
    <3>1. acked.unsaved \in SUBSET Fields /\ Fields \in SUBSET Fields
      BY DEF Acked
    <3> QED
      BY <1>1, <3>1 DEF Boot
  <2>2. cfg.cron \in Cron
    BY DEF Config
  <2>3. acked' \in Acked
    BY <2>1 DEF StartWith, Acked
  <2> QED
    BY <2>1, <2>2, <2>3 DEF StartWith
<1>2. CASE SpawnChild
  BY <1>2 DEF SpawnChild
<1>3. CASE MarkRunning
  BY <1>3 DEF MarkRunning, ManagerState
<1>4. CASE BorrowCron
  BY <1>4 DEF BorrowCron
<1>5. CASE CreateScheduler
  BY <1>5 DEF CreateScheduler, SchedulerFor, Cron
<1>6. CASE CronChanged
  BY <1>6 DEF CronChanged, Cron
<1>7. CASE LoopEnds
  BY <1>7 DEF LoopEnds, Cron
<1>8. CASE NodeDies
  <2>1. acked' \in Acked
    <3>1. Fields \in SUBSET Fields
      OBVIOUS
    <3> QED
      BY <1>8, <3>1 DEF NodeDies, Acked
  <2>2. rpc' \in [Handlers -> Call] /\ task' \in [Tasks -> Task]
    BY <1>8 DEF NodeDies
  <2>3. ms' \in ManagerState
    BY <1>8 DEF NodeDies
  <2>4. lockq' \in Seq(Handlers \cup Spawned)
    BY <1>8 DEF NodeDies
  <2> QED
    BY <1>8, <2>1, <2>2, <2>3, <2>4 DEF NodeDies, Cron
<1> QED
  BY <1>1, <1>2, <1>3, <1>4, <1>5, <1>6, <1>7, <1>8 DEF ManagerStep

-----------------------------------------------------------------------------
(***************************************************************************)
(* The lock.  Three lemmas say what the queue operations do to the         *)
(* discipline, one that nothing else disturbs it.                          *)
(***************************************************************************)

\* Queueing somebody who is not in the queue adds just that one, at the end.
LEMMA EnqueueFacts ==
  ASSUME TypeOK, QueuedOnce, NEW a \in Handlers \cup Spawned, ~Queued(a),
         Enqueue(a)
  PROVE  /\ QueuedOnce'
         /\ \A x : Queued(x)' <=> (Queued(x) \/ x = a)
         /\ \A x : HoldsLock(x) => HoldsLock(x)'
         /\ LockFree => HoldsLock(a)'
<1>1. lockq \in Seq(Handlers \cup Spawned)
  BY DEF TypeOK
<1>2. /\ Len(lockq') = Len(lockq) + 1
      /\ \A i \in 1..Len(lockq) : lockq'[i] = lockq[i]
      /\ lockq'[Len(lockq) + 1] = a
      /\ Len(lockq) \in Nat
  BY <1>1
<1> QED
  BY <1>1, <1>2 DEF QueuedOnce, Queued

\* Releasing takes out the holder and nobody else.
LEMMA ReleaseFacts ==
  ASSUME TypeOK, QueuedOnce, NEW a \in Handlers \cup Spawned, HoldsLock(a),
         Release
  PROVE  /\ QueuedOnce'
         /\ \A x : Queued(x)' => Queued(x) /\ x # a
<1>1. lockq \in Seq(Handlers \cup Spawned) /\ lockq # <<>>
  BY DEF TypeOK
<1>2. /\ Len(lockq') = Len(lockq) - 1
      /\ \A i \in 1..Len(lockq') : lockq'[i] = lockq[i + 1]
      /\ Len(lockq) \in Nat \ {0}
      /\ lockq[1] = a
  BY <1>1
<1>3. QueuedOnce'
  BY <1>2 DEF QueuedOnce
<1>4. ASSUME NEW x, Queued(x)' PROVE Queued(x) /\ x # a
  <2>1. PICK i \in 1..Len(lockq') : lockq'[i] = x
    BY <1>4 DEF Queued
  <2>2. i + 1 \in 1..Len(lockq) /\ lockq[i + 1] = x /\ i + 1 # 1
    BY <1>2, <2>1
  <2> QED
    BY <1>2, <2>2 DEF Queued, QueuedOnce
<1> QED
  BY <1>3, <1>4

\* The discipline survives a step that leaves the queue alone, gives no
\* handler a guard or takes one from it, and starts no task's locked section.
LEMMA LockUntouched ==
  ASSUME LockDiscipline, UNCHANGED lockq,
         \A h \in Handlers : At(h, "drop")' <=> At(h, "drop"),
         \A t \in Spawned :
            /\ task'[t].pc \in {"free", "spawned"}
                 => task[t].pc \in {"free", "spawned"}
            /\ InLockedSection(t)' => InLockedSection(t)
  PROVE  LockDiscipline'
  BY DEF LockDiscipline, QueuedOnce, GuardsAreHeld, TasksWaitTheirTurn, Queued

\* Nobody holds the lock or queues for it at first.
LEMMA InitLock == Init => LockDiscipline
<1> SUFFICES ASSUME Init PROVE LockDiscipline
  OBVIOUS
<1>1. Len(lockq) = 0
  BY DEF Init
<1>2. \A h \in Handlers : ~At(h, "drop")
  BY DEF Init, IdleCall, At
<1>3. \A t \in Spawned : ~InLockedSection(t)
  BY DEF Init, FreeTask, InLockedSection, Uploading, UploadStages, Tasks
<1> QED
  BY <1>1, <1>2, <1>3 DEF LockDiscipline, QueuedOnce, GuardsAreHeld,
     TasksWaitTheirTurn, Queued

\* A handler touches the lock only in TryLock, which finds it free, and in
\* DropGuard, which gives back what TryLock took.
LEMMA HandlerLock ==
  ASSUME TypeOK, LockDiscipline, NEW h \in Handlers, NewCall(h) \/ HandlerStep(h)
  PROVE  LockDiscipline'
<1>1. CASE TryLock(h)
  <2>1. ~Queued(h)
    BY <1>1 DEF TryLock, At, LockDiscipline, GuardsAreHeld
  <2>2. \A x : ~HoldsLock(x)
    BY <1>1 DEF TryLock
  <2>3. /\ QueuedOnce'
        /\ \A x : Queued(x)' <=> (Queued(x) \/ x = h)
        /\ HoldsLock(h)'
    BY <1>1, <2>1, EnqueueFacts DEF TryLock, LockDiscipline
  <2>4. GuardsAreHeld'
    BY <1>1, <2>2, <2>3 DEF TryLock, Goto, At, LockDiscipline, GuardsAreHeld,
       TypeOK
  <2>5. TasksWaitTheirTurn'
    <3>1. \A t \in Spawned : t # h
      BY TasksAssumption
    <3>2. \A t \in Spawned : task'[t].pc = task[t].pc /\ ~InLockedSection(t)
      BY <1>1, <2>2 DEF TryLock, backupVars, LockDiscipline, TasksWaitTheirTurn
    <3> QED
      BY <1>1, <2>3, <3>1, <3>2 DEF LockDiscipline, TasksWaitTheirTurn,
         InLockedSection, Uploading
  <2> QED
    BY <2>3, <2>4, <2>5 DEF LockDiscipline
<1>2. CASE DropGuard(h)
  <2>1. HoldsLock(h)
    BY <1>2 DEF DropGuard, LockDiscipline, GuardsAreHeld
  <2>2. QueuedOnce' /\ \A x : Queued(x)' => Queued(x) /\ x # h
    BY <1>2, <2>1, ReleaseFacts DEF DropGuard, LockDiscipline
  <2>3. \A g \in Handlers : g # h => ~At(g, "drop")
    BY <2>1 DEF LockDiscipline, GuardsAreHeld
  <2>4. GuardsAreHeld'
    BY <1>2, <2>2, <2>3 DEF DropGuard, Goto, At, LockDiscipline, GuardsAreHeld,
       TypeOK
  <2>5. TasksWaitTheirTurn'
    <3>1. \A t \in Spawned : task'[t].pc = task[t].pc /\ ~InLockedSection(t)
      BY <1>2, <2>1, TasksAssumption DEF DropGuard, backupVars, LockDiscipline,
         TasksWaitTheirTurn
    <3> QED
      BY <2>2, <3>1 DEF LockDiscipline, TasksWaitTheirTurn, InLockedSection,
         Uploading
  <2> QED
    BY <2>2, <2>4, <2>5 DEF LockDiscipline
<1>3. CASE SpawnBackup(h)
  <2>1. \A g \in Handlers : At(g, "drop")' <=> At(g, "drop")
    BY <1>3 DEF SpawnBackup, Reply, At, IdleCall, TypeOK
  <2>2. \A t \in Spawned :
           \/ task'[t] = task[t]
           \/ task[t].pc = "free" /\ task'[t].pc = "spawned"
    BY <1>3 DEF SpawnBackup, FreeTask, TypeOK, Tasks
  <2> QED
    BY <1>3, <2>1, <2>2, LockUntouched DEF SpawnBackup, InLockedSection,
       Uploading, UploadStages
<1>4. CASE /\ UNCHANGED <<lockq, task>>
           /\ \A g \in Handlers : At(g, "drop")' <=> At(g, "drop")
  BY <1>4, LockUntouched DEF InLockedSection, Uploading
<1>5. ASSUME NewCall(h) \/ HandlerStep(h),
             ~TryLock(h), ~DropGuard(h), ~SpawnBackup(h)
      PROVE  /\ UNCHANGED <<lockq, task>>
             /\ \A g \in Handlers : At(g, "drop")' <=> At(g, "drop")
  <2> USE CallAt DEF At, Goto, Reply, IdleCall, backupVars, TypeOK
  <2>1. CASE NewCall(h)
    <3>1. CASE StartBackup(h) \/ StopBackup(h)
      <4>1. PICK op, c : SetSchedule(h, op, c)
        BY <3>1 DEF StartBackup, StopBackup
      <4>2. rpc[h].pc = "idle" /\ rpc'[h].pc \in {"load", "send"}
        BY <4>1 DEF SetSchedule
      <4>3. \A g \in Handlers : g # h => rpc'[g] = rpc[g]
        BY <4>1 DEF SetSchedule
      <4> QED
        BY <4>1, <4>2, <4>3 DEF SetSchedule
    <3>2. CASE ModifyBackupConfig(h)
      BY <3>2 DEF ModifyBackupConfig
    <3>3. CASE TriggerBackup(h)
      BY <3>3 DEF TriggerBackup
    <3>4. CASE FormatDataFile(h)
      BY <3>4 DEF FormatDataFile
    <3> QED
      BY <2>1, <3>1, <3>2, <3>3, <3>4 DEF NewCall
  <2>2. CASE LoadConfig(h)
    BY <2>2 DEF LoadConfig, CronCall, ModifyCall
  <2>3. CASE TruncateConfig(h)
    BY <2>3 DEF TruncateConfig
  <2>4. CASE WriteConfig(h)
    BY <2>4 DEF WriteConfig, AfterSave
  <2>5. CASE ConfigIoFails(h)
    <3>1. CASE rpc[h].op = "modify"
      <4>1. /\ rpc' = [rpc EXCEPT ![h] = IdleCall]
            /\ rpc[h].pc \in {"load", "truncate", "write"}
            /\ UNCHANGED <<lockq, task>>
        BY <2>5, <3>1 DEF ConfigIoFails
      <4> QED
        BY <4>1
    <3>2. CASE rpc[h].op # "modify"
      <4>1. /\ rpc' = [rpc EXCEPT ![h].pc = "send"]
            /\ rpc[h].pc \in {"load", "truncate", "write"}
            /\ UNCHANGED <<lockq, task>>
        BY <2>5, <3>2 DEF ConfigIoFails
      <4> QED
        BY <4>1
    <3> QED
      BY <3>1, <3>2
  <2>6. CASE ApplyConfig(h)
    BY <2>6 DEF ApplyConfig
  <2>7. CASE SendCron(h)
    <3>1. CASE rpc[h].op = "start"
      <4>1. /\ rpc' = [rpc EXCEPT ![h].pc = "probe"]
            /\ rpc[h].pc = "send"
            /\ UNCHANGED <<lockq, task>>
        BY <2>7, <3>1 DEF SendCron
      <4> QED
        BY <4>1
    <3>2. CASE rpc[h].op # "start"
      BY <2>7, <3>2 DEF SendCron
    <3> QED
      BY <3>1, <3>2
  <2>8. CASE TryLockFails(h)
    BY <2>8 DEF TryLockFails
  <2>9. CASE CaptureTarget(h)
    BY <2>9 DEF CaptureTarget, TriggerCall
  <2>10. CASE RunFormat(h)
    BY <2>10 DEF RunFormat
  <2>11. CASE FormatEnds(h)
    BY <2>11 DEF FormatEnds
  <2> QED
    BY <1>5, <2>1, <2>2, <2>3, <2>4, <2>5, <2>6, <2>7, <2>8, <2>9, <2>10,
       <2>11 DEF HandlerStep
<1> QED
  BY <1>1, <1>2, <1>3, <1>4, <1>5

\* A task queues once, works only at the head, and leaves when it reports.
LEMMA TaskLock ==
  ASSUME TypeOK, LockDiscipline, NEW t \in Tasks, CronFires(t) \/ TaskStep(t)
  PROVE  LockDiscipline'
<1> USE DEF Advance, configVars, managerVars
<1>1. /\ UNCHANGED rpc
      /\ \A h \in Handlers : At(h, "drop")' <=> At(h, "drop")
  BY DEF CronFires, TaskStep, TaskQueues, TaskLocks, ReadTarget, OpenTemp,
     FinishCompression, OpenCompressed, CompressedIsGone, RemoveTemp,
     CompressionFails, Report, At
<1>2. /\ \A u \in Tasks : u # t => task'[u] = task[u]
      /\ task[t] \in Task
  BY DEF CronFires, TaskStep, TaskQueues, TaskLocks, ReadTarget, OpenTemp,
     FinishCompression, OpenCompressed, CompressedIsGone, RemoveTemp,
     CompressionFails, Report, TypeOK
<1>3. CASE TaskQueues(t)
  <2>1. t \in Spawned /\ ~Queued(t)
    BY <1>3 DEF TaskQueues, LockDiscipline, TasksWaitTheirTurn
  <2>2. /\ QueuedOnce'
        /\ \A x : Queued(x)' <=> (Queued(x) \/ x = t)
        /\ \A x : HoldsLock(x) => HoldsLock(x)'
    BY <1>3, <2>1, EnqueueFacts DEF TaskQueues, LockDiscipline
  <2>3. GuardsAreHeld'
    BY <1>1, <2>1, <2>2, TasksAssumption DEF LockDiscipline, GuardsAreHeld
  <2>4. task'[t].pc = "waiting"
    BY <1>3, <1>2 DEF TaskQueues, TypeOK, Task
  <2>5. TasksWaitTheirTurn'
    BY <1>2, <2>2, <2>4 DEF LockDiscipline, TasksWaitTheirTurn,
       InLockedSection, Uploading, UploadStages, Tasks
  <2> QED
    BY <2>2, <2>3, <2>5 DEF LockDiscipline
<1>4. CASE TaskLocks(t)
  <2>1. /\ UNCHANGED lockq
        /\ HoldsLock(t)
        /\ task'[t].pc \notin {"free", "spawned"}
    BY <1>2, <1>4 DEF TaskLocks, TypeOK, Task
  <2> QED
    BY <1>1, <1>2, <2>1 DEF LockDiscipline, QueuedOnce, GuardsAreHeld,
       TasksWaitTheirTurn, Queued, InLockedSection, Uploading, Tasks
<1>5. CASE Report(t)
  <2>1. t \in Spawned => InLockedSection(t)
    BY <1>5 DEF Report, InLockedSection, Uploading, UploadStages
  <2>2. CASE t \in Spawned
    <3>1. HoldsLock(t)
      BY <2>1, <2>2 DEF LockDiscipline, TasksWaitTheirTurn
    <3>2. QueuedOnce' /\ \A x : Queued(x)' => Queued(x) /\ x # t
      BY <1>5, <2>2, <3>1, ReleaseFacts DEF Report, LockDiscipline
    <3>3. GuardsAreHeld'
      BY <1>1, <2>2, <3>1, <3>2, TasksAssumption
      DEF LockDiscipline, GuardsAreHeld
    <3>4. task'[t].pc = "free"
      BY <1>5 DEF Report, FreeTask, TypeOK
    <3>5. \A u \in Spawned : u # t => ~InLockedSection(u)
      BY <3>1 DEF LockDiscipline, TasksWaitTheirTurn
    <3>6. TasksWaitTheirTurn'
      BY <1>2, <3>2, <3>4, <3>5 DEF LockDiscipline, TasksWaitTheirTurn,
         InLockedSection, Uploading, UploadStages, Tasks
    <3> QED
      BY <3>2, <3>3, <3>6 DEF LockDiscipline
  <2>3. CASE t \notin Spawned
    <3>1. UNCHANGED lockq
      BY <1>5, <2>3 DEF Report
    <3> QED
      BY <1>1, <1>2, <2>3, <3>1, LockUntouched DEF InLockedSection, Uploading,
         Tasks
  <2> QED
    BY <2>2, <2>3
<1>6. CASE /\ UNCHANGED lockq
           /\ t \in Spawned => /\ task'[t].pc \notin {"free", "spawned"}
                               /\ InLockedSection(t)
  BY <1>1, <1>2, <1>6, LockUntouched DEF InLockedSection, Uploading, Tasks
<1>7. ASSUME ~TaskQueues(t), ~TaskLocks(t), ~Report(t)
      PROVE  /\ UNCHANGED lockq
             /\ t \in Spawned => /\ task'[t].pc \notin {"free", "spawned"}
                                 /\ InLockedSection(t)
  <2> USE DEF InLockedSection, Uploading, UploadStages, TypeOK, Task
  <2>1. CASE CronFires(t)
    BY <2>1, TasksAssumption DEF CronFires
  <2>2. CASE ReadTarget(t)
    BY <1>2, <2>2, TasksAssumption DEF ReadTarget, Tasks
  <2>3. CASE OpenTemp(t)
    BY <1>2, <2>3 DEF OpenTemp
  <2>4. CASE FinishCompression(t)
    BY <1>2, <2>4 DEF FinishCompression
  <2>5. CASE OpenCompressed(t)
    BY <1>2, <2>5 DEF OpenCompressed
  <2>6. CASE CompressedIsGone(t)
    BY <1>2, <2>6 DEF CompressedIsGone
  <2>7. CASE RemoveTemp(t)
    BY <1>2, <2>7 DEF RemoveTemp
  <2>8. CASE CompressionFails(t)
    BY <1>2, <2>8 DEF CompressionFails
  <2> QED
    BY <1>7, <2>1, <2>2, <2>3, <2>4, <2>5, <2>6, <2>7, <2>8 DEF TaskStep
<1> QED
  BY <1>3, <1>4, <1>5, <1>6, <1>7

\* The process manager leaves the lock alone, but for the death of the node.
LEMMA ManagerLock ==
  ASSUME LockDiscipline, Boot \/ ManagerStep \/ LoopEnds \/ NodeDies
  PROVE  LockDiscipline'
<1>1. CASE Boot \/ ManagerStep \/ LoopEnds
  BY <1>1, LockUntouched DEF Boot, StartWith, ManagerStep, SpawnChild, MarkRunning,
     BorrowCron, CreateScheduler, CronChanged, LoopEnds, At, InLockedSection,
     Uploading
<1>2. CASE NodeDies
  <2>1. Len(lockq') = 0
    BY <1>2 DEF NodeDies
  <2>2. \A h \in Handlers : ~At(h, "drop")'
    BY <1>2 DEF NodeDies, IdleCall, At
  <2>3. \A t \in Spawned : ~InLockedSection(t)'
    BY <1>2 DEF NodeDies, FreeTask, InLockedSection, Uploading, UploadStages,
       Tasks
  <2> QED
    BY <2>1, <2>2, <2>3 DEF LockDiscipline, QueuedOnce, GuardsAreHeld,
       TasksWaitTheirTurn, Queued
<1> QED
  BY <1>1, <1>2

-----------------------------------------------------------------------------

\* The inductive invariant: types and lock discipline need each other, since
\* only a queue that is not empty has a tail to be left with.
IInv == TypeOK /\ LockDiscipline

\* Every step keeps the inductive invariant.
LEMMA StepInv == IInv /\ [Next]_vars => IInv'
<1> SUFFICES ASSUME IInv, [Next]_vars PROVE IInv'
  OBVIOUS
<1>1. CASE \E h \in Handlers : NewCall(h) \/ HandlerStep(h)
  BY <1>1, NewCallType, HandlerStepType, HandlerLock DEF IInv
<1>2. CASE \E t \in Tasks : CronFires(t) \/ TaskStep(t)
  BY <1>2, TaskStepType, TaskLock DEF IInv
<1>3. CASE Boot \/ ManagerStep \/ LoopEnds \/ NodeDies
  BY <1>3, ManagerType, ManagerLock DEF IInv
<1>4. CASE UNCHANGED vars
  BY <1>4 DEF vars, IInv, TypeOK, LockDiscipline, QueuedOnce, GuardsAreHeld,
     TasksWaitTheirTurn, Queued, InLockedSection, Uploading, At
<1> QED
  BY <1>1, <1>2, <1>3, <1>4 DEF Next

\* Every variable of the node stays in its set and the lock is used as its
\* users rely on, whatever calls, ticks, failures and restarts happen.
THEOREM Discipline == Spec => [](TypeOK /\ LockDiscipline)
<1>1. Init => IInv
  BY InitType, InitLock DEF IInv
<1>2. IInv => TypeOK /\ LockDiscipline
  BY DEF IInv
<1> QED
  BY <1>1, <1>2, StepInv, PTL DEF Spec

\* Type correctness of the node's state.
THEOREM TypeCorrect == Spec => []TypeOK
  BY Discipline, PTL

\* Two backups that RPCs have started never overlap, from the choice of the
\* target to the report: the mutual exclusion backup_lock is there for.
THEOREM BackupsSerialised == Spec => []RpcBackupsSerialised
<1>1. LockDiscipline => RpcBackupsSerialised
  BY DEF LockDiscipline, TasksWaitTheirTurn, RpcBackupsSerialised
<1> QED
  BY <1>1, Discipline, PTL

-----------------------------------------------------------------------------
(***************************************************************************)
(* The scheduler.  The pattern in the loop's hands is the last one sent    *)
(* unless a newer one waits to be seen; every step either keeps that, or   *)
(* leaves the loop, or makes a newer one wait.                             *)
(***************************************************************************)

InHandIsLatest == pm = "create" /\ ~watch.unseen => pmCron = watch.val
SchedInv == IdleSchedulerIsLatest /\ InHandIsLatest

\* A handler changes what the manager's loop sees only by sending to it.
LEMMA HandlerSends ==
  ASSUME NEW h \in Handlers, NewCall(h) \/ HandlerStep(h)
  PROVE  /\ UNCHANGED <<pm, pmCron, sched>>
         /\ \/ UNCHANGED watch
            \/ watch' = [val |-> rpc[h].arg, unseen |-> TRUE]
<1> USE DEF processVars
<1>1. CASE NewCall(h)
  BY <1>1 DEF NewCall, StartBackup, StopBackup, SetSchedule,
     ModifyBackupConfig, TriggerBackup, FormatDataFile
<1>2. CASE SendCron(h)
  BY <1>2 DEF SendCron
<1>3. CASE HandlerStep(h) /\ ~SendCron(h)
  BY <1>3 DEF HandlerStep, LoadConfig, TruncateConfig, WriteConfig,
     ConfigIoFails, ApplyConfig, TryLock, TryLockFails, DropGuard,
     CaptureTarget, SpawnBackup, RunFormat, FormatEnds
<1> QED
  BY <1>1, <1>2, <1>3

\* Backup runs do not touch the scheduler.
LEMMA TasksLeaveScheduler ==
  ASSUME NEW t \in Tasks, CronFires(t) \/ TaskStep(t)
  PROVE  UNCHANGED <<pm, pmCron, sched, watch>>
BY DEF CronFires, TaskStep, TaskQueues, TaskLocks, ReadTarget, OpenTemp,
   FinishCompression, OpenCompressed, CompressedIsGone, RemoveTemp,
   CompressionFails, Report, configVars, managerVars

\* Every step keeps the invariant of the scheduler.
LEMMA SchedStep == TypeOK /\ SchedInv /\ [Next]_vars => SchedInv'
<1> SUFFICES ASSUME TypeOK, SchedInv, [Next]_vars PROVE SchedInv'
  OBVIOUS
<1>0. watch \in [val: Cron, unseen: BOOLEAN]
  BY DEF TypeOK
<1> USE DEF SchedInv, IdleSchedulerIsLatest, InHandIsLatest, SchedulerFor
<1>1. ASSUME NEW h \in Handlers, NewCall(h) \/ HandlerStep(h)
      PROVE  SchedInv'
  BY <1>1, HandlerSends
<1>2. ASSUME NEW t \in Tasks, CronFires(t) \/ TaskStep(t)
      PROVE  SchedInv'
  BY <1>2, TasksLeaveScheduler
<1>3. CASE Boot \/ SpawnChild \/ MarkRunning \/ LoopEnds \/ NodeDies
  BY <1>3 DEF Boot, StartWith, SpawnChild, MarkRunning, LoopEnds, NodeDies
<1>4. CASE BorrowCron
  BY <1>0, <1>4 DEF BorrowCron
<1>5. CASE CreateScheduler
  BY <1>5 DEF CreateScheduler
<1>6. CASE CronChanged
  BY <1>6 DEF CronChanged
<1>7. CASE UNCHANGED vars
  BY <1>7 DEF vars
<1> QED
  BY <1>1, <1>2, <1>3, <1>4, <1>5, <1>6, <1>7 DEF Next, ManagerStep

\* Whatever is sent while a scheduler is shut down, borrowed for or started,
\* the loop of ProcessManager::run never rests on an old schedule.
THEOREM SchedulerIsLatest == Spec => []IdleSchedulerIsLatest
<1>1. Init => SchedInv
  BY DEF Init, SchedInv, IdleSchedulerIsLatest, InHandIsLatest
<1>2. SchedInv => IdleSchedulerIsLatest
  BY DEF SchedInv
<1> QED
  BY <1>1, <1>2, SchedStep, TypeCorrect, PTL DEF Spec
-----------------------------------------------------------------------------
(***************************************************************************)
(* The compressed copy.  While no cron runs interfere, the backup in its   *)
(* locked section is the only one that touches the temporary file, from    *)
(* the truncation on.                                                      *)
(***************************************************************************)

CopyIsOwn == \A t \in Tasks : task[t].pc \in {"compressing", "open"} => temp = {t}
CopyInv == CopyIsOwn /\ SuccessMeansGoodCopy

\* Handlers and the manager's loop start backups and no more.
LEMMA OthersLeaveCopies ==
  ASSUME TypeOK, CopyInv, NEW h \in Handlers, NewCall(h) \/ HandlerStep(h)
  PROVE  CopyInv'
<1> USE DEF backupVars
<1>1. CASE NewCall(h)
  <2>1. UNCHANGED <<task, temp>>
    BY <1>1 DEF NewCall, StartBackup, StopBackup, SetSchedule, ModifyBackupConfig, TriggerBackup,
       FormatDataFile
  <2> QED
    BY <2>1 DEF CopyInv, CopyIsOwn, SuccessMeansGoodCopy
<1>2. CASE SpawnBackup(h)
  <2>1. PICK t \in Spawned :
          /\ task[t] = FreeTask
          /\ task' = [task EXCEPT ![t] =
               [pc |-> "spawned", intact |-> FALSE,
                bucket |-> IF rpc[h].op = "trigger" THEN rpc[h].arg ELSE None]]
    BY <1>2 DEF SpawnBackup
  <2>2. t \in Tasks /\ temp' = temp
    BY <1>2 DEF SpawnBackup, Tasks
  <2>3. task'[t].pc = "spawned" /\ \A u \in Tasks \ {t} : task'[u] = task[u]
    BY <2>1, <2>2 DEF TypeOK
  <2> QED
    BY <2>2, <2>3 DEF CopyInv, CopyIsOwn, SuccessMeansGoodCopy
<1>3. CASE HandlerStep(h) /\ ~SpawnBackup(h)
  <2>1. UNCHANGED <<task, temp>>
    BY <1>3 DEF HandlerStep, LoadConfig, TruncateConfig, WriteConfig, ConfigIoFails, ApplyConfig,
       SendCron, TryLock, TryLockFails, DropGuard, CaptureTarget, RunFormat, FormatEnds
  <2> QED
    BY <2>1 DEF CopyInv, CopyIsOwn, SuccessMeansGoodCopy
<1> QED
  BY <1>1, <1>2, <1>3

\* A run that works on the file is alone; one that does not leaves it alone.
LEMMA RunsKeepCopies ==
  ASSUME Jobs = {}, IInv, CopyInv, NEW t \in Tasks, CronFires(t) \/ TaskStep(t)
  PROVE  CopyInv'
<1>1. t \in Spawned /\ TaskStep(t) /\ task \in [Tasks -> Task] /\ Tasks = Spawned
  BY DEF Tasks, CronFires, IInv, TypeOK
<1>2. \A u \in Tasks \ {t} : task'[u] = task[u]
  BY <1>1 DEF TaskStep, TaskQueues, TaskLocks, ReadTarget, OpenTemp, FinishCompression,
     OpenCompressed, CompressedIsGone, RemoveTemp, CompressionFails, Report, Advance
<1>3. Uploading(t) => \A u \in Tasks \ {t} : ~Uploading(u)
  BY <1>1 DEF IInv, LockDiscipline, TasksWaitTheirTurn, InLockedSection
<1>4. ASSUME NEW to, task' = [task EXCEPT ![t].pc = to]
      PROVE  task'[t].pc = to /\ task'[t].intact = task[t].intact
  BY <1>1, <1>4 DEF Task
<1> USE DEF CopyInv, CopyIsOwn, SuccessMeansGoodCopy
<1>5. CASE TaskQueues(t) \/ TaskLocks(t)
  <2>1. task'[t].pc \in {"waiting", "read", "compress"} /\ temp' = temp
    BY <1>4, <1>5 DEF TaskQueues, TaskLocks, Advance
  <2> QED
    BY <1>2, <2>1
<1>6. CASE ReadTarget(t)
  <2>1. task'[t].pc \in {"free", "compress"} /\ temp' = temp
    BY <1>1, <1>6 DEF ReadTarget, FreeTask, Task
  <2> QED
    BY <1>2, <2>1
<1>7. CASE OpenTemp(t)
  <2>1. Uploading(t) /\ task'[t].pc = "compressing"
    BY <1>4, <1>7 DEF OpenTemp, Advance, Uploading, UploadStages
  <2>2. \A u \in Tasks : task[u].pc # "compressing"
    BY <1>3, <1>7, <2>1 DEF OpenTemp, Advance, Uploading, UploadStages
  <2>3. temp' = {t}
    BY <1>7, <2>2 DEF OpenTemp
  <2> QED
    BY <1>2, <1>3, <2>1, <2>3 DEF Uploading, UploadStages
<1>8. CASE FinishCompression(t)
  <2>1. task[t].pc = "compressing" /\ task'[t].pc = "open" /\ temp' = temp
    BY <1>4, <1>8 DEF FinishCompression, Advance
  <2> QED
    BY <1>2, <2>1
<1>9. CASE OpenCompressed(t)
  <2>1. task[t].pc = "open" /\ temp = {t} /\ temp' = temp
    BY <1>9 DEF OpenCompressed
  <2>2. GoodCopy
    BY <2>1 DEF GoodCopy
  <2>3. task'[t].pc = "cleanup" /\ task'[t].intact = GoodCopy
    BY <1>1, <1>9 DEF OpenCompressed
  <2> QED
    BY <1>2, <2>1, <2>2, <2>3
<1>10. CASE CompressedIsGone(t)
  <2>1. task'[t].pc = "failed" /\ temp' = temp
    BY <1>4, <1>10 DEF CompressedIsGone, Advance
  <2> QED
    BY <1>2, <2>1
<1>11. CASE RemoveTemp(t)
  <2>1. /\ task[t].pc = "cleanup" /\ task'[t].pc = "ok" /\ task'[t].intact = task[t].intact
        /\ Uploading(t)
    BY <1>4, <1>11 DEF RemoveTemp, Advance, Uploading, UploadStages
  <2> QED
    BY <1>2, <1>3, <2>1 DEF Uploading, UploadStages
<1>12. CASE CompressionFails(t)
  <2>1. task'[t].pc = "failed" /\ Uploading(t)
    BY <1>4, <1>12 DEF CompressionFails, Advance, Uploading, UploadStages
  <2> QED
    BY <1>2, <1>3, <2>1 DEF Uploading, UploadStages
<1>13. CASE Report(t)
  <2>1. task'[t].pc = "free" /\ temp' = temp
    BY <1>1, <1>13 DEF Report, FreeTask
  <2> QED
    BY <1>2, <2>1
<1> QED
  BY <1>1, <1>5, <1>6, <1>7, <1>8, <1>9, <1>10, <1>11, <1>12, <1>13 DEF TaskStep

\* Every step keeps the invariant of the copies when no cron job runs.
LEMMA CopyStep ==
  ASSUME Jobs = {}
  PROVE  IInv /\ CopyInv /\ [Next]_vars => CopyInv'
<1> SUFFICES ASSUME IInv, CopyInv, [Next]_vars PROVE CopyInv'
  OBVIOUS
<1>1. CASE NodeDies
  BY <1>1 DEF NodeDies, CopyInv, CopyIsOwn, SuccessMeansGoodCopy, FreeTask
<1>2. CASE Boot \/ ManagerStep \/ LoopEnds \/ UNCHANGED vars
  <2>1. UNCHANGED <<task, temp>>
    BY <1>2 DEF Boot, StartWith, ManagerStep, SpawnChild, MarkRunning, BorrowCron, CreateScheduler,
       CronChanged, LoopEnds, vars
  <2> QED
    BY <2>1 DEF CopyInv, CopyIsOwn, SuccessMeansGoodCopy
<1> QED
  BY <1>1, <1>2, OthersLeaveCopies, RunsKeepCopies DEF Next, IInv

\* As long as no cron runs overlap with them, a backup that is reported as done
\* had a whole copy of its own, however many are triggered, fail or die.
THEOREM CopiesAreWhole ==
  ASSUME Jobs = {}
  PROVE  Spec => []SuccessMeansGoodCopy
<1>1. Init => IInv /\ CopyInv
  BY InitType, InitLock DEF IInv, Init, CopyInv, CopyIsOwn, SuccessMeansGoodCopy, FreeTask
<1>2. IInv /\ CopyInv /\ [Next]_vars => CopyInv'
  BY CopyStep
<1>3. CopyInv => SuccessMeansGoodCopy
  BY DEF CopyInv
<1> QED
  BY <1>1, <1>2, <1>3, StepInv, PTL DEF Spec

(***************************************************************************)
(* The configuration.                                                      *)
(*                                                                         *)
(* What a client was told about the configuration is in force, in memory,  *)
(* in the watch channel and in the file, but for the fields that acked     *)
(* names as lost by a save or a load, provided that the node has a         *)
(* configuration file and that configuration calls are made one after      *)
(* another.  Without the first the schedule does not outlive the node;     *)
(* without the second FileHoldsSchedule is violated.                       *)
(*                                                                         *)
(* Any number of other calls, of backups and of cron runs go on meanwhile. *)
(***************************************************************************)

OneByOne ==
  /\ HasConfigFile = TRUE
  /\ \A h, k \in ConfigHandlers : h = k

\* A call that has not done all that it does to the configuration.
Busy(h) == rpc[h].op \in ConfigOps /\ rpc[h].pc \notin {"idle", "probe", "drop", "spawn"}

\* The field a call sets.
Owns(h, f) ==
  IF rpc[h].op = "modify" THEN f = "bucket" /\ rpc[h].arg # None ELSE f = "cron"

\* The file has all that it did not lose.
FileHolds == \A f \in Fields \ acked.unsaved : toml[f] = acked[f]

\* A bucket that was lost was lost by a truncation.
LostIsGone == "bucket" \in acked.unsaved => toml.bucket = None

\* A call that starts or stops backups has written memory first; one that
\* changes the bucket does so last.
CallInMemory(h) ==
  /\ IF rpc[h].op = "modify"
     THEN "cron" \notin acked.unloaded => CronInMemory
     ELSE ms.cron = rpc[h].arg /\ ms.enabled = (rpc[h].arg # None)
  /\ \/ rpc[h].pc = "apply" /\ rpc[h].arg # None
     \/ "bucket" \notin acked.unloaded => BucketInMemory

\* What the call is going to write.
CallInHand(h) ==
  /\ Owns(h, "cron") => rpc[h].cfg.cron = rpc[h].arg
  /\ Owns(h, "bucket") => rpc[h].cfg.bucket = rpc[h].arg
  /\ \A f \in Fields \ acked.unsaved : ~Owns(h, f) => rpc[h].cfg[f] = acked[f]
  /\ "bucket" \in acked.unsaved /\ ~Owns(h, "bucket") => rpc[h].cfg.bucket = None

\* The file as the call loads, truncates and writes it.
CallInFile(h) ==
  /\ rpc[h].pc # "write" => FileHolds
  /\ rpc[h].pc \in {"truncate", "write"} => CallInHand(h)
  /\ rpc[h].pc = "write" => toml = DefaultConfig
  /\ rpc[h].pc = "send" /\ "cron" \notin acked.unsaved => acked.cron = rpc[h].arg
  /\ rpc[h].pc = "apply" =>
       /\ rpc[h].cfg.bucket = toml.bucket
       /\ Owns(h, "bucket") => toml.bucket = acked.bucket /\ acked.bucket # None

Stage(h) == CallInMemory(h) /\ CallInFile(h)

CallsBelong == \A h \in Handlers : rpc[h].op \in ConfigOps => h \in ConfigHandlers
AfterDeath == pm = "down" => \A h \in Handlers : rpc[h] = IdleCall
WhileBusy == \A h \in Handlers : Busy(h) => Stage(h)
WhileQuiet == (\A h \in Handlers : ~Busy(h)) => Remembered

ConfigInv == CallsBelong /\ AfterDeath /\ WhileBusy /\ WhileQuiet /\ LostIsGone

-----------------------------------------------------------------------------

\* A node that has just started has no call at work: the invariant holds.
LEMMA InitConfig == Init => ConfigInv
  BY DEF Init, ConfigInv, CallsBelong, AfterDeath, WhileBusy, WhileQuiet, LostIsGone, Busy,
     IdleCall, ConfigOps, Remembered, AsSaved, Exists, Fields

\* A call at work on the configuration is the only one.
LEMMA AtWork ==
  ASSUME TypeOK, ConfigInv, NEW h \in Handlers,
         rpc[h].pc \in {"load", "truncate", "write", "apply", "send"}
  PROVE  /\ rpc[h].op \in ConfigOps /\ h \in ConfigHandlers /\ Busy(h)
         /\ pm # "down" /\ Stage(h) /\ LostIsGone
<1>1. rpc[h].op \in ConfigOps
  BY CallAt DEF At, CronCall, ModifyCall, ConfigOps
<1>2. pm # "down"
  BY DEF ConfigInv, AfterDeath, IdleCall
<1>3. Busy(h)
  BY <1>1 DEF Busy
<1> QED
  BY <1>1, <1>2, <1>3 DEF ConfigInv, CallsBelong, WhileBusy

\* A step of a configuration call has to leave its own stage right.
LEMMA OneCallSteps ==
  ASSUME OneByOne, ConfigInv, NEW h \in ConfigHandlers,
         pm # "down", pm' = pm,
         \A k \in Handlers \ {h} : rpc'[k] = rpc[k],
         Busy(h)' => Stage(h)', ~Busy(h)' => Remembered', LostIsGone'
  PROVE  ConfigInv'
<1>1. \A k \in Handlers \ {h} : rpc[k].op \notin ConfigOps /\ ~Busy(k)'
  BY DEF OneByOne, ConfigInv, CallsBelong, Busy
<1>2. h \in Handlers
  BY HandlersAssumption
<1>3. CallsBelong'
  BY <1>1 DEF CallsBelong
<1>4. WhileBusy'
  BY <1>1 DEF WhileBusy
<1>5. WhileQuiet'
  BY <1>2 DEF WhileQuiet
<1> QED
  BY <1>3, <1>4, <1>5 DEF ConfigInv, AfterDeath

\* What a stage and the invariant look at besides the call itself.
configState == <<toml, acked, ms.cron, ms.enabled, ms.bucket, watch.val>>

\* Steps of all others leave the configuration alone.
LEMMA ConfigUntouched ==
  ASSUME ConfigInv, pm # "down", pm' # "down", UNCHANGED configState,
         \A k \in Handlers :
           \/ rpc'[k] = rpc[k]
           \/ /\ ~Busy(k) /\ ~Busy(k)'
              /\ rpc'[k].op \in ConfigOps => rpc[k].op \in ConfigOps
  PROVE  ConfigInv'
<1> USE DEF configState
<1>1. CallsBelong'
  BY DEF ConfigInv, CallsBelong
<1>2. /\ FileHolds' <=> FileHolds
      /\ CronInMemory' <=> CronInMemory
      /\ BucketInMemory' <=> BucketInMemory
  BY DEF FileHolds, CronInMemory, BucketInMemory, BucketOf
<1>3. \A k \in Handlers : Busy(k)' => Busy(k) /\ rpc'[k] = rpc[k]
  BY DEF Busy
<1>4. WhileBusy'
  <2> SUFFICES ASSUME NEW k \in Handlers, Busy(k)' PROVE Stage(k)'
    BY DEF WhileBusy
  <2>1. Stage(k) /\ rpc'[k] = rpc[k]
    BY <1>3 DEF ConfigInv, WhileBusy
  <2>2. CallInMemory(k)'
    BY <1>2, <2>1 DEF Stage, CallInMemory
  <2>3. \A f : Owns(k, f)' <=> Owns(k, f)
    BY <2>1 DEF Owns
  <2>4. CallInHand(k)' <=> CallInHand(k)
    BY <2>1, <2>3 DEF CallInHand
  <2>5. CallInFile(k)'
    BY <1>2, <2>1, <2>3, <2>4 DEF Stage, CallInFile
  <2> QED
    BY <2>2, <2>5 DEF Stage
<1>5. WhileQuiet'
  <2>1. \A k \in Handlers : Busy(k) => Busy(k)'
    BY DEF Busy
  <2>2. Remembered => Remembered'
    BY <1>2 DEF Remembered, Exists, FileHolds
  <2> QED
    BY <2>1, <2>2 DEF ConfigInv, WhileQuiet
<1>6. LostIsGone'
  BY DEF ConfigInv, LostIsGone
<1> QED
  BY <1>1, <1>4, <1>5, <1>6 DEF ConfigInv, AfterDeath

-----------------------------------------------------------------------------

\* A new call: nobody else is at work on the configuration, so it is in force.
LEMMA NewCallConfig ==
  ASSUME OneByOne, TypeOK, ConfigInv, NEW h \in Handlers, NewCall(h)
  PROVE  ConfigInv'
<1>1. rpc[h].pc = "idle" /\ pm # "down" /\ pm' = pm
  BY DEF NewCall, StartBackup, StopBackup, SetSchedule, ModifyBackupConfig, TriggerBackup,
         FormatDataFile, At, Serving, processVars
<1>2. ~Busy(h)
  BY <1>1 DEF Busy
<1>3. h \in ConfigHandlers =>
        /\ FileHolds
        /\ "cron" \notin acked.unloaded => CronInMemory
        /\ "bucket" \notin acked.unloaded => BucketInMemory
  <2> SUFFICES ASSUME h \in ConfigHandlers
               PROVE  /\ FileHolds
                      /\ "cron" \notin acked.unloaded => CronInMemory
                      /\ "bucket" \notin acked.unloaded => BucketInMemory
    OBVIOUS
  <2>1. \A k \in Handlers : ~Busy(k)
    BY <1>2 DEF OneByOne, ConfigInv, CallsBelong, Busy
  <2> QED
    BY <1>1, <2>1 DEF ConfigInv, WhileQuiet, Remembered, FileHolds, Exists, OneByOne
<1>4. \A k \in Handlers \ {h} : rpc'[k] = rpc[k]
  BY DEF NewCall, StartBackup, StopBackup, SetSchedule, ModifyBackupConfig, TriggerBackup,
         FormatDataFile, TypeOK
<1>5. ASSUME NEW c \in Cron, NEW op \in {"start", "stop"}, SetSchedule(h, op, c)
      PROVE  ConfigInv'
  <2>1. h \in ConfigHandlers /\ UNCHANGED <<toml, acked, watch>>
    BY <1>5 DEF SetSchedule
  <2>2. rpc'[h] = [op |-> op, pc |-> "load", arg |-> c, cfg |-> DefaultConfig]
    BY <1>5 DEF SetSchedule, OneByOne, TypeOK
  <2>3. ms'.cron = c /\ ms'.enabled = (c # None) /\ ms'.bucket = ms.bucket
    BY <1>5 DEF SetSchedule, TypeOK, ManagerState
  <2>4. CallInMemory(h)'
    BY <1>3, <2>1, <2>2, <2>3 DEF CallInMemory, BucketInMemory, BucketOf
  <2>5. CallInFile(h)'
    BY <1>3, <2>1, <2>2 DEF CallInFile, FileHolds
  <2>6. Busy(h)' /\ LostIsGone'
    BY <2>1, <2>2 DEF Busy, ConfigOps, ConfigInv, LostIsGone
  <2> QED
    BY <1>1, <1>4, <2>1, <2>4, <2>5, <2>6, OneCallSteps DEF Stage
<1>6. CASE ModifyBackupConfig(h)
  <2>1. h \in ConfigHandlers /\ UNCHANGED <<toml, acked, watch, ms>>
    BY <1>6 DEF ModifyBackupConfig
  <2>2. rpc'[h].op = "modify" /\ rpc'[h].pc = "load"
    BY <1>6 DEF ModifyBackupConfig, TypeOK
  <2>4. CallInMemory(h)'
    BY <1>3, <2>1, <2>2 DEF CallInMemory, CronInMemory, BucketInMemory, BucketOf
  <2>5. CallInFile(h)'
    BY <1>3, <2>1, <2>2 DEF CallInFile, FileHolds
  <2>6. Busy(h)' /\ LostIsGone'
    BY <2>1, <2>2 DEF Busy, ConfigOps, ConfigInv, LostIsGone
  <2> QED
    BY <1>1, <1>4, <2>1, <2>4, <2>5, <2>6, OneCallSteps DEF Stage
<1>7. CASE TriggerBackup(h) \/ FormatDataFile(h)
  <2>1. UNCHANGED <<toml, acked, ms, watch>>
    BY <1>7 DEF TriggerBackup, FormatDataFile
  <2>2. rpc'[h].op \in {"trigger", "format"}
    <3>1. /\ [IdleCall EXCEPT !.op = "trigger", !.pc = "probe"].op = "trigger"
          /\ [IdleCall EXCEPT !.op = "format", !.pc = "format"].op = "format"
      BY DEF IdleCall
    <3>2. DOMAIN rpc = Handlers
      BY DEF TypeOK
    <3> QED
      BY <1>7, <3>1, <3>2 DEF TriggerBackup, FormatDataFile
  <2>3. ~Busy(h)' /\ rpc'[h].op \notin ConfigOps
    BY <2>2 DEF Busy, ConfigOps
  <2> QED
    BY <1>1, <1>2, <1>4, <2>1, <2>3, ConfigUntouched DEF configState
<1> QED
  BY <1>5, <1>6, <1>7 DEF NewCall, StartBackup, StopBackup, Cron

\* A call's own progress.
LEMMA HandlerConfig ==
  ASSUME OneByOne, TypeOK, ConfigInv, NEW h \in Handlers, HandlerStep(h)
  PROVE  ConfigInv'
<1> USE DEF At, Goto, Reply, processVars
<1>1. pm' = pm /\ DOMAIN rpc = Handlers /\ \A k \in Handlers \ {h} : rpc'[k] = rpc[k]
  <2>1. DOMAIN rpc = Handlers
    BY DEF TypeOK
  <2> QED
    BY <2>1 DEF HandlerStep, LoadConfig, TruncateConfig, WriteConfig, ConfigIoFails, ApplyConfig,
       SendCron, TryLock, TryLockFails, DropGuard, CaptureTarget, SpawnBackup, RunFormat,
       FormatEnds
<1>2. rpc[h] \in Call
  BY DEF TypeOK
<1>3. CASE LoadConfig(h)
  <2>1. h \in ConfigHandlers /\ pm # "down" /\ Stage(h) /\ LostIsGone
    BY <1>3, AtWork DEF LoadConfig
  <2>2. /\ UNCHANGED <<toml, acked, watch, ms>>
        /\ rpc'[h] = [rpc[h] EXCEPT !.cfg = Merged(h), !.pc = "truncate"]
        /\ rpc[h].pc = "load"
    BY <1>1, <1>3 DEF LoadConfig
  <2>3. /\ rpc'[h].op = rpc[h].op /\ rpc'[h].arg = rpc[h].arg
        /\ rpc'[h].cfg = Merged(h) /\ rpc'[h].pc = "truncate"
        /\ rpc[h].op \in ConfigOps
    BY <1>2, <2>2, CallAt, <1>3 DEF LoadConfig, CronCall, ModifyCall, ConfigOps
  <2>4. \A f : Owns(h, f)' <=> Owns(h, f)
    BY <2>3 DEF Owns
  <2>5. /\ Merged(h).cron = IF Owns(h, "cron") THEN rpc[h].arg ELSE toml.cron
        /\ Merged(h).bucket = IF Owns(h, "bucket") THEN rpc[h].arg ELSE toml.bucket
    BY DEF Merged, Owns, TypeOK, Config
  <2>6. CallInHand(h)'
    BY <2>1, <2>2, <2>3, <2>4, <2>5 DEF Stage, CallInFile, CallInHand, FileHolds, LostIsGone,
       Fields
  <2>7. CallInMemory(h)'
    BY <2>1, <2>2, <2>3 DEF Stage, CallInMemory, CronInMemory, BucketInMemory, BucketOf
  <2>8. CallInFile(h)' /\ Busy(h)' /\ LostIsGone'
    BY <2>1, <2>2, <2>3, <2>6 DEF Stage, CallInFile, FileHolds, Busy, LostIsGone
  <2> QED
    BY <1>1, <2>1, <2>7, <2>8, OneCallSteps DEF Stage
<1>4. CASE TruncateConfig(h)
  <2>1. h \in ConfigHandlers /\ pm # "down" /\ Stage(h)
    BY <1>4, AtWork DEF TruncateConfig
  <2>2. /\ UNCHANGED <<acked, watch, ms>> /\ toml' = DefaultConfig
        /\ rpc'[h] = [rpc[h] EXCEPT !.pc = "write"]
        /\ rpc[h].pc = "truncate"
    BY <1>1, <1>4 DEF TruncateConfig
  <2>3. /\ rpc'[h].op = rpc[h].op /\ rpc'[h].arg = rpc[h].arg
        /\ rpc'[h].cfg = rpc[h].cfg /\ rpc'[h].pc = "write"
        /\ rpc[h].op \in ConfigOps
    BY <1>2, <2>2, CallAt, <1>4 DEF TruncateConfig, CronCall, ModifyCall, ConfigOps
  <2>4. \A f : Owns(h, f)' <=> Owns(h, f)
    BY <2>3 DEF Owns
  <2>6. CallInHand(h)'
    BY <2>1, <2>2, <2>3, <2>4 DEF Stage, CallInFile, CallInHand
  <2>7. CallInMemory(h)'
    BY <2>1, <2>2, <2>3 DEF Stage, CallInMemory, CronInMemory, BucketInMemory, BucketOf
  <2>8. CallInFile(h)' /\ Busy(h)' /\ LostIsGone'
    BY <2>1, <2>2, <2>3, <2>6 DEF CallInFile, Busy, LostIsGone, DefaultConfig
  <2> QED
    BY <1>1, <2>1, <2>7, <2>8, OneCallSteps DEF Stage
\* What is written is all that was not lost before, with the call's field.
<1>5. CASE WriteConfig(h)
  <2>1. h \in ConfigHandlers /\ pm # "down" /\ Stage(h)
    BY <1>5, AtWork DEF WriteConfig
  <2>2. /\ UNCHANGED <<watch, ms>> /\ toml' = rpc[h].cfg
        /\ rpc'[h] = [rpc[h] EXCEPT !.pc = AfterSave(h)]
        /\ rpc[h].pc = "write"
    BY <1>1, <1>5 DEF WriteConfig
  <2>3. /\ rpc'[h].op = rpc[h].op /\ rpc'[h].arg = rpc[h].arg
        /\ rpc'[h].cfg = rpc[h].cfg /\ rpc'[h].pc = AfterSave(h)
        /\ rpc[h].op \in ConfigOps
    BY <1>2, <2>2, CallAt, <1>5 DEF WriteConfig, CronCall, ModifyCall, ConfigOps
  <2>4. \A f : Owns(h, f)' <=> Owns(h, f)
    BY <2>3 DEF Owns
  <2>5. /\ acked'.cron = IF Owns(h, "cron") THEN rpc[h].arg ELSE acked.cron
        /\ acked'.bucket = IF Owns(h, "bucket") THEN rpc[h].arg ELSE acked.bucket
        /\ acked'.unsaved = {f \in acked.unsaved : ~Owns(h, f)}
        /\ acked'.unloaded = acked.unloaded
    <3>1. acked.unsaved \subseteq Fields
      BY DEF TypeOK, Acked
    <3>2. CASE rpc[h].op # "modify"
      <4>1. PICK U : /\ acked' = [acked EXCEPT !.cron = rpc[h].arg, !.unsaved = U]
                     /\ U = acked.unsaved \ {"cron"}
        BY <1>5, <3>2 DEF WriteConfig
      <4> QED
        BY <3>1, <3>2, <4>1 DEF Owns, TypeOK, Acked, Fields
    <3>3. CASE rpc[h].op = "modify" /\ rpc[h].arg # None
      <4>1. PICK U : /\ acked' = [acked EXCEPT !.bucket = rpc[h].arg, !.unsaved = U]
                     /\ U = acked.unsaved \ {"bucket"}
        BY <1>5, <3>3 DEF WriteConfig
      <4> QED
        BY <3>1, <3>3, <4>1 DEF Owns, TypeOK, Acked, Fields
    <3>4. CASE rpc[h].op = "modify" /\ rpc[h].arg = None
      BY <1>5, <3>1, <3>4 DEF WriteConfig, Owns
    <3> QED
      BY <3>2, <3>3, <3>4
  <2>6. FileHolds' /\ LostIsGone'
    BY <2>1, <2>2, <2>5 DEF Stage, CallInFile, CallInHand, FileHolds, LostIsGone, Fields
  <2>7. CallInMemory(h)'
    <3>1. CASE rpc[h].op = "modify"
      BY <2>1, <2>2, <2>3, <2>5, <3>1
         DEF Stage, CallInMemory, CronInMemory, BucketInMemory, BucketOf, Owns, AfterSave
    <3>2. CASE rpc[h].op # "modify"
      BY <2>1, <2>2, <2>3, <2>5, <3>2
         DEF Stage, CallInMemory, BucketInMemory, BucketOf, Owns, AfterSave
    <3> QED
      BY <3>1, <3>2
  <2>8. CallInFile(h)' /\ Busy(h)'
    <3>1. rpc[h].op = "modify" /\ rpc[h].arg # None =>
            toml'.bucket = acked'.bucket /\ acked'.bucket # None
      BY <2>1, <2>2, <2>5 DEF Stage, CallInFile, CallInHand, Owns
    <3>2. rpc[h].op # "modify" => acked'.cron = rpc[h].arg
      BY <2>5 DEF Owns
    <3> QED
      BY <2>2, <2>3, <2>4, <2>6, <3>1, <3>2 DEF CallInFile, Busy, AfterSave, Owns
  <2> QED
    BY <1>1, <2>1, <2>6, <2>7, <2>8, OneCallSteps DEF Stage
\* Once a save has failed, its fields are promised in memory only.
<1>6. CASE ConfigIoFails(h)
  <2>1. h \in ConfigHandlers /\ pm # "down" /\ Stage(h) /\ rpc[h].op \in ConfigOps /\ LostIsGone
    BY <1>6, AtWork DEF ConfigIoFails
  <2>2. /\ UNCHANGED <<toml, watch, ms>>
        /\ rpc'[h] = IF rpc[h].op = "modify" THEN IdleCall ELSE [rpc[h] EXCEPT !.pc = "send"]
    BY <1>1, <1>6 DEF ConfigIoFails
  <2>3. /\ acked'.cron = acked.cron /\ acked'.bucket = acked.bucket
        /\ acked'.unloaded = acked.unloaded
        /\ acked'.unsaved = IF rpc[h].pc = "write" THEN Fields
                            ELSE IF rpc[h].op = "modify" THEN acked.unsaved
                            ELSE acked.unsaved \cup {"cron"}
    <3>1. PICK U : /\ acked' = [acked EXCEPT !.unsaved = U]
                   /\ U = IF rpc[h].pc = "write" THEN Fields
                          ELSE IF rpc[h].op = "modify" THEN acked.unsaved
                          ELSE acked.unsaved \cup {"cron"}
      BY <1>6 DEF ConfigIoFails
    <3> QED
      BY <3>1 DEF TypeOK, Acked
  <2>4. FileHolds' /\ LostIsGone'
    BY <2>1, <2>2, <2>3 DEF Stage, CallInFile, FileHolds, LostIsGone, DefaultConfig, Fields
  <2>5. /\ CronInMemory' <=> CronInMemory
        /\ BucketInMemory' <=> BucketInMemory
    BY <2>2, <2>3 DEF CronInMemory, BucketInMemory, BucketOf
  <2>6. CASE rpc[h].op = "modify"
    <3>1. ~Busy(h)'
      BY <2>2, <2>6 DEF Busy, IdleCall
    <3>2. Remembered'
      BY <1>6, <2>1, <2>3, <2>4, <2>5, <2>6
         DEF ConfigIoFails, Stage, CallInMemory, Remembered, FileHolds
    <3> QED
      BY <1>1, <2>1, <2>4, <3>1, <3>2, OneCallSteps
  <2>7. CASE rpc[h].op # "modify"
    <3>1. rpc'[h].op = rpc[h].op /\ rpc'[h].arg = rpc[h].arg /\ rpc'[h].pc = "send"
      BY <1>2, <2>1, <2>2, <2>7, CallAt, <1>6 DEF ConfigIoFails, CronCall, ModifyCall
    <3>2. CallInMemory(h)'
      BY <1>6, <2>1, <2>2, <2>3, <2>5, <2>7, <3>1 DEF ConfigIoFails, Stage, CallInMemory
    <3>3. "cron" \in acked'.unsaved
      BY <2>3, <2>7 DEF Fields
    <3>4. Busy(h)' /\ CallInFile(h)'
      BY <2>1, <2>4, <3>1, <3>3 DEF Busy, CallInFile
    <3> QED
      BY <1>1, <2>1, <2>4, <3>2, <3>4, OneCallSteps DEF Stage
  <2> QED
    BY <2>6, <2>7
<1>7. CASE ApplyConfig(h)
  <2>1. h \in ConfigHandlers /\ pm # "down" /\ Stage(h) /\ rpc[h] \in ModifyCall /\ LostIsGone
    BY <1>7, AtWork, CallAt DEF ApplyConfig
  <2> DEFINE b == rpc[h].cfg.bucket
  <2>2. /\ UNCHANGED <<toml, watch>> /\ rpc[h].pc = "apply"
        /\ ms' = [ms EXCEPT !.bucket = IF b = None THEN @ ELSE b]
        /\ rpc'[h] = IdleCall
    BY <1>1, <1>7 DEF ApplyConfig
  <2>3. /\ ms'.cron = ms.cron /\ ms'.enabled = ms.enabled
        /\ ms'.bucket = IF b = None THEN ms.bucket ELSE b
    BY <2>2 DEF TypeOK, ManagerState
  <2>4. /\ acked'.cron = acked.cron /\ acked'.bucket = acked.bucket
        /\ acked'.unsaved = acked.unsaved
        /\ acked'.unloaded = IF b = None THEN acked.unloaded ELSE acked.unloaded \ {"bucket"}
    <3>1. PICK L : /\ acked' = [acked EXCEPT !.unloaded = L]
                   /\ L = IF b = None THEN acked.unloaded ELSE acked.unloaded \ {"bucket"}
      BY <1>7 DEF ApplyConfig
    <3> QED
      BY <3>1 DEF TypeOK, Acked
  <2>5. rpc[h].op = "modify" /\ FileHolds /\ b = toml.bucket
    BY <2>1, <2>2 DEF ModifyCall, Stage, CallInFile
  <2>6. FileHolds' /\ LostIsGone'
    BY <2>1, <2>2, <2>4, <2>5 DEF FileHolds, LostIsGone, Fields
  <2>7. "cron" \notin acked'.unloaded => CronInMemory'
    BY <2>1, <2>2, <2>3, <2>4, <2>5 DEF Stage, CallInMemory, CronInMemory
  <2>8. CASE b # None
    <3>1. acked.bucket = b
      BY <2>1, <2>5, <2>8 DEF FileHolds, LostIsGone, Fields
    <3>2. BucketInMemory'
      BY <2>3, <2>4, <2>8, <3>1 DEF BucketInMemory, BucketOf
    <3>3. ~Busy(h)' /\ Remembered'
      BY <2>2, <2>6, <2>7, <3>2 DEF Busy, IdleCall, Remembered, FileHolds
    <3> QED
      BY <1>1, <2>1, <2>6, <3>3, OneCallSteps
  <2>9. CASE b = None
    <3>1. rpc[h].arg = None
      BY <2>1, <2>2, <2>5, <2>9 DEF Stage, CallInFile, Owns
    <3>2. "bucket" \notin acked'.unloaded => BucketInMemory'
      BY <2>1, <2>2, <2>3, <2>4, <2>9, <3>1
         DEF Stage, CallInMemory, BucketInMemory, BucketOf
    <3>3. ~Busy(h)' /\ Remembered'
      BY <2>2, <2>6, <2>7, <3>2 DEF Busy, IdleCall, Remembered, FileHolds
    <3> QED
      BY <1>1, <2>1, <2>6, <3>3, OneCallSteps
  <2> QED
    BY <2>8, <2>9
<1>8. CASE SendCron(h)
  <2>1. h \in ConfigHandlers /\ pm # "down" /\ Stage(h) /\ rpc[h] \in CronCall /\ LostIsGone
    BY <1>8, AtWork, CallAt DEF SendCron
  <2>2. /\ UNCHANGED <<toml, ms>> /\ watch' = [val |-> rpc[h].arg, unseen |-> TRUE]
        /\ rpc'[h] = IF rpc[h].op = "start" THEN [rpc[h] EXCEPT !.pc = "probe"] ELSE IdleCall
        /\ rpc[h].pc = "send"
    BY <1>1, <1>8 DEF SendCron
  <2>3. /\ acked'.cron = rpc[h].arg /\ acked'.bucket = acked.bucket
        /\ acked'.unsaved = acked.unsaved
        /\ acked'.unloaded = acked.unloaded \ {"cron"}
    <3>1. PICK U, L : /\ acked' = [acked EXCEPT !.cron = rpc[h].arg, !.unloaded = L, !.unsaved = U]
                      /\ L = acked.unloaded \ {"cron"}
                      /\ U = acked.unsaved
      BY <1>8 DEF SendCron, OneByOne
    <3> QED
      BY <3>1 DEF TypeOK, Acked
  <2>4. rpc[h].op # "modify"
    BY <2>1 DEF CronCall
  <2>5. FileHolds' /\ LostIsGone'
    BY <2>1, <2>2, <2>3 DEF Stage, CallInFile, FileHolds, LostIsGone, Fields
  <2>6. CronInMemory'
    BY <2>1, <2>2, <2>3, <2>4 DEF Stage, CallInMemory, CronInMemory
  <2>7. "bucket" \notin acked'.unloaded => BucketInMemory'
    BY <2>1, <2>2, <2>3 DEF Stage, CallInMemory, BucketInMemory, BucketOf
  <2>8. Remembered'
    BY <2>5, <2>6, <2>7 DEF Remembered, FileHolds
  <2>9. rpc'[h].pc \in {"probe", "idle"}
    BY <2>1, <2>2 DEF IdleCall, CronCall
  <2> QED
    BY <1>1, <2>1, <2>5, <2>8, <2>9, OneCallSteps DEF Busy
\* What is left of a call changes nothing of the configuration.
<1>9. CASE \/ TryLock(h) \/ TryLockFails(h) \/ DropGuard(h) \/ CaptureTarget(h)
           \/ SpawnBackup(h) \/ RunFormat(h) \/ FormatEnds(h)
  <2>1. rpc[h].pc \in {"probe", "drop", "target", "spawn", "format", "formatting"}
    BY <1>9 DEF TryLock, TryLockFails, DropGuard, CaptureTarget, SpawnBackup, RunFormat, FormatEnds
  <2>2. UNCHANGED <<toml, acked, ms, watch>>
    BY <1>9 DEF TryLock, TryLockFails, DropGuard, CaptureTarget, SpawnBackup, RunFormat,
       FormatEnds, backupVars
  <2>3. pm # "down"
    BY <2>1 DEF ConfigInv, AfterDeath, IdleCall
  <2>4. ~Busy(h)
    BY <1>2, <2>1 DEF Busy, Call, CronCall, ModifyCall, TriggerCall, FormatCall, IdleCall,
       ConfigOps
  <2>5. \/ rpc'[h] = IdleCall
        \/ \E a, to : rpc'[h] = [rpc[h] EXCEPT !.arg = a, !.pc = to]
                      /\ to \in {"drop", "spawn", "target", "formatting"}
    <3>1. CASE CaptureTarget(h)
      BY <1>1, <3>1 DEF CaptureTarget
    <3>2. CASE TryLock(h) \/ DropGuard(h) \/ RunFormat(h)
      <4>1. \E to \in {"drop", "spawn", "target", "formatting"} : rpc'[h] = [rpc[h] EXCEPT !.pc = to]
        BY <1>1, <3>2 DEF TryLock, DropGuard, RunFormat
      <4>2. \A to : [rpc[h] EXCEPT !.pc = to] = [rpc[h] EXCEPT !.arg = rpc[h].arg, !.pc = to]
        BY <1>2 DEF Call, CronCall, ModifyCall, TriggerCall, FormatCall, IdleCall
      <4> QED
        BY <4>1, <4>2
    <3>3. CASE TryLockFails(h) \/ SpawnBackup(h) \/ FormatEnds(h)
      BY <1>1, <3>3 DEF TryLockFails, SpawnBackup, FormatEnds
    <3> QED
      BY <1>9, <3>1, <3>2, <3>3
  <2>6. /\ rpc'[h].op \in {"none", rpc[h].op}
        /\ rpc'[h].pc \in {"idle", "drop", "spawn", "target", "formatting"}
    <3>1. CASE rpc'[h] = IdleCall
      BY <3>1 DEF IdleCall
    <3>2. ASSUME NEW a, NEW to, rpc'[h] = [rpc[h] EXCEPT !.arg = a, !.pc = to],
                 to \in {"drop", "spawn", "target", "formatting"}
          PROVE  rpc'[h].op = rpc[h].op /\ rpc'[h].pc = to
      <4>1. {"op", "pc", "arg"} \subseteq DOMAIN rpc[h]
        BY <1>2 DEF Call, CronCall, ModifyCall, TriggerCall, FormatCall, IdleCall
      <4> QED
        BY <3>2, <4>1
    <3> QED
      BY <2>5, <3>1, <3>2
  <2>7. rpc'[h].pc \in {"target", "formatting"} => rpc'[h].op \notin ConfigOps
    <3>1. CASE DropGuard(h)
      <4>1. rpc'[h] = [rpc[h] EXCEPT !.pc = IF rpc[h].op = "trigger" THEN "target" ELSE "spawn"]
        BY <1>1, <3>1 DEF DropGuard
      <4>2. /\ rpc'[h].op = rpc[h].op
            /\ rpc'[h].pc = IF rpc[h].op = "trigger" THEN "target" ELSE "spawn"
        BY <1>2, <4>1 DEF Call, CronCall, ModifyCall, TriggerCall, FormatCall, IdleCall
      <4> QED
        BY <4>2 DEF ConfigOps
    <3>2. CASE RunFormat(h)
      <4>1. rpc[h] \in FormatCall
        BY <3>2, CallAt DEF RunFormat
      <4> QED
        BY <2>6, <4>1 DEF FormatCall, ConfigOps
    <3>3. CASE TryLock(h) \/ CaptureTarget(h)
      <4>1. \/ rpc'[h] = [rpc[h] EXCEPT !.pc = "drop"]
            \/ rpc'[h] = [rpc[h] EXCEPT !.arg = ms.bucket, !.pc = "spawn"]
        BY <1>1, <3>3 DEF TryLock, CaptureTarget
      <4>2. rpc'[h].pc \in {"drop", "spawn"}
        BY <1>2, <4>1 DEF Call, CronCall, ModifyCall, TriggerCall, FormatCall, IdleCall
      <4> QED
        BY <4>2
    <3>4. CASE TryLockFails(h) \/ SpawnBackup(h) \/ FormatEnds(h)
      BY <1>1, <3>4 DEF TryLockFails, SpawnBackup, FormatEnds, IdleCall
    <3> QED
      BY <1>9, <3>1, <3>2, <3>3, <3>4
  <2>8. ~Busy(h)' /\ (rpc'[h].op \in ConfigOps => rpc[h].op \in ConfigOps)
    BY <2>6, <2>7 DEF Busy, ConfigOps
  <2> QED
    BY <1>1, <2>2, <2>3, <2>4, <2>8, ConfigUntouched DEF configState
<1> QED
  BY <1>3, <1>4, <1>5, <1>6, <1>7, <1>8, <1>9 DEF HandlerStep

-----------------------------------------------------------------------------

\* Backup runs report to the manager state, and no more.
LEMMA TaskConfig ==
  ASSUME TypeOK, ConfigInv, NEW t \in Tasks, CronFires(t) \/ TaskStep(t)
  PROVE  ConfigInv'
<1>1. UNCHANGED <<rpc, toml, acked, watch, pm>>
  BY DEF CronFires, TaskStep, TaskQueues, TaskLocks, ReadTarget, OpenTemp, FinishCompression,
     OpenCompressed, CompressedIsGone, RemoveTemp, CompressionFails, Report, configVars, managerVars
<1>2. \/ ms' = ms
      \/ ms' = [ms EXCEPT !.done = TRUE, !.error = FALSE]
      \/ ms' = [ms EXCEPT !.error = TRUE]
  BY DEF CronFires, TaskStep, TaskQueues, TaskLocks, ReadTarget, OpenTemp, FinishCompression,
     OpenCompressed, CompressedIsGone, RemoveTemp, CompressionFails, Report
<1>3. ms'.cron = ms.cron /\ ms'.enabled = ms.enabled /\ ms'.bucket = ms.bucket
  BY <1>2 DEF TypeOK, ManagerState
<1>4. CASE pm = "down"
  <2>1. \A h \in Handlers : ~Busy(h)'
    BY <1>1, <1>4 DEF ConfigInv, AfterDeath, Busy, IdleCall, ConfigOps
  <2>2. Remembered'
    BY <1>1, <1>4, <2>1 DEF ConfigInv, WhileQuiet, Busy, Remembered, Exists
  <2> QED
    BY <1>1, <1>4, <2>1, <2>2
       DEF ConfigInv, CallsBelong, AfterDeath, WhileBusy, WhileQuiet, LostIsGone
<1>5. CASE pm # "down"
  BY <1>1, <1>3, <1>5, ConfigUntouched DEF configState
<1> QED
  BY <1>4, <1>5

\* The manager's loop sees the schedule; it does not change it.
LEMMA ManagerConfig ==
  ASSUME TypeOK, ConfigInv, ManagerStep \/ LoopEnds
  PROVE  ConfigInv'
<1>1. pm # "down" /\ pm' # "down" /\ UNCHANGED <<rpc, toml, acked>>
  BY DEF ManagerStep, SpawnChild, MarkRunning, BorrowCron, CreateScheduler, CronChanged, LoopEnds
<1>2. ms' = ms \/ ms' = [ms EXCEPT !.running = TRUE]
  BY DEF ManagerStep, SpawnChild, MarkRunning, BorrowCron, CreateScheduler, CronChanged, LoopEnds
<1>3. ms'.cron = ms.cron /\ ms'.enabled = ms.enabled /\ ms'.bucket = ms.bucket
  BY <1>2 DEF TypeOK, ManagerState
<1>4. watch' = watch \/ watch' = [watch EXCEPT !.unseen = FALSE]
  BY DEF ManagerStep, SpawnChild, MarkRunning, BorrowCron, CreateScheduler, CronChanged, LoopEnds
<1>5. watch'.val = watch.val
  BY <1>4 DEF TypeOK
<1> QED
  BY <1>1, <1>3, <1>5, ConfigUntouched DEF configState

\* A node that starts has what the file holds, or the defaults if it could
\* not be loaded.
LEMMA BootConfig ==
  ASSUME OneByOne, TypeOK, ConfigInv, Boot
  PROVE  ConfigInv'
<1>1. PICK cfg, L : /\ StartWith(cfg, L)
                    /\ \/ cfg = toml /\ L = acked.unsaved
                       \/ cfg = DefaultConfig /\ L = Fields
  BY DEF Boot
<1>2. /\ pm = "down" /\ pm' = "boot" /\ UNCHANGED <<toml, rpc>>
      /\ \A h \in Handlers : rpc[h] = IdleCall
      /\ acked' = [acked EXCEPT !.unloaded = L]
  BY <1>1 DEF StartWith, ConfigInv, AfterDeath
<1>3. /\ acked'.cron = acked.cron /\ acked'.bucket = acked.bucket
      /\ acked'.unsaved = acked.unsaved /\ acked'.unloaded = L
  BY <1>2 DEF TypeOK, Acked
<1>4. \A h \in Handlers : ~Busy(h) /\ ~Busy(h)' /\ rpc'[h].op \notin ConfigOps
  BY <1>2 DEF Busy, IdleCall, ConfigOps
<1>5. FileHolds /\ FileHolds' /\ LostIsGone'
  BY <1>2, <1>3, <1>4
     DEF ConfigInv, WhileQuiet, Remembered, FileHolds, LostIsGone, OneByOne, Fields
<1>6. /\ ms'.cron = cfg.cron /\ ms'.enabled = (cfg.cron # None) /\ ms'.bucket = BucketOf(cfg)
      /\ watch'.val = cfg.cron
  BY <1>1 DEF StartWith, NewManagerState
<1>7. /\ "cron" \notin acked'.unloaded => CronInMemory'
      /\ "bucket" \notin acked'.unloaded => BucketInMemory'
  BY <1>1, <1>3, <1>5, <1>6 DEF FileHolds, CronInMemory, BucketInMemory, BucketOf, Fields
<1>8. Remembered'
  BY <1>5, <1>7 DEF Remembered, FileHolds
<1> QED
  BY <1>2, <1>4, <1>5, <1>8 DEF ConfigInv, CallsBelong, AfterDeath, WhileBusy, WhileQuiet

\* The node's death forgets the calls and keeps the file; only a call that has
\* emptied the file and not yet written it takes the configuration along.
LEMMA DeathConfig ==
  ASSUME OneByOne, TypeOK, ConfigInv, NodeDies
  PROVE  ConfigInv'
<1>1. pm' = "down" /\ toml' = toml /\ \A h \in Handlers : rpc'[h] = IdleCall
  BY DEF NodeDies
<1>2. CallsBelong' /\ AfterDeath' /\ \A h \in Handlers : ~Busy(h)'
  BY <1>1 DEF CallsBelong, AfterDeath, Busy, IdleCall, ConfigOps
<1>3. CASE \E h \in Handlers : rpc[h].pc = "write"
  <2>1. PICK h \in Handlers : rpc[h].pc = "write"
    BY <1>3
  <2>2. toml = DefaultConfig
    BY <2>1, AtWork DEF Stage, CallInFile
  <2>3. acked'.unsaved = Fields
    BY <1>3 DEF NodeDies, TypeOK, Acked
  <2>4. Remembered' /\ LostIsGone'
    BY <1>1, <2>2, <2>3 DEF Remembered, Exists, LostIsGone, DefaultConfig
  <2> QED
    BY <1>2, <2>4 DEF ConfigInv, WhileBusy, WhileQuiet
<1>4. CASE \A h \in Handlers : rpc[h].pc # "write"
  <2>1. acked' = acked
    BY <1>4 DEF NodeDies
  <2>2. FileHolds
    <3>1. CASE \E h \in Handlers : Busy(h)
      <4>1. PICK h \in Handlers : Busy(h)
        BY <3>1
      <4> QED
        BY <1>4, <4>1 DEF ConfigInv, WhileBusy, Stage, CallInFile
    <3>2. CASE \A h \in Handlers : ~Busy(h)
      BY <3>2 DEF ConfigInv, WhileQuiet, Remembered, FileHolds, OneByOne
    <3> QED
      BY <3>1, <3>2
  <2>3. Remembered' /\ LostIsGone'
    BY <1>1, <2>1, <2>2 DEF Remembered, Exists, FileHolds, ConfigInv, LostIsGone
  <2> QED
    BY <1>2, <2>3 DEF ConfigInv, WhileBusy, WhileQuiet
<1> QED
  BY <1>3, <1>4

\* Every step keeps the invariant when the configuration calls come one by one.
LEMMA ConfigStep ==
  ASSUME OneByOne
  PROVE  TypeOK /\ ConfigInv /\ [Next]_vars => ConfigInv'
<1> SUFFICES ASSUME TypeOK, ConfigInv, [Next]_vars PROVE ConfigInv'
  OBVIOUS
<1>1. CASE UNCHANGED vars
  <2>1. CASE pm = "down"
    <3>1. UNCHANGED <<rpc, toml, acked, pm>>
      BY <1>1 DEF vars
    <3>2. \A h \in Handlers : ~Busy(h) /\ ~Busy(h)'
      BY <2>1, <3>1 DEF ConfigInv, AfterDeath, Busy, IdleCall, ConfigOps
    <3> QED
      BY <2>1, <3>1, <3>2
         DEF ConfigInv, CallsBelong, AfterDeath, WhileBusy, WhileQuiet, LostIsGone, Remembered,
             Exists
  <2>2. CASE pm # "down"
    BY <1>1, <2>2, ConfigUntouched DEF vars, configState
  <2> QED
    BY <2>1, <2>2
<1>2. CASE Next
  BY <1>2, NewCallConfig, HandlerConfig, TaskConfig, ManagerConfig, BootConfig, DeathConfig DEF Next
<1> QED
  BY <1>1, <1>2

\* The invariant gives AckedConfigIsInForce.
LEMMA InForceIsRemembered == TypeOK /\ ConfigInv => AckedConfigIsInForce
  BY DEF AckedConfigIsInForce, ConfigInv, WhileQuiet, NoConfigCall, Busy

\* Whatever configuration was acknowledged is in force in memory and in the
\* channel and is in the file, field by field, after any number of I/O errors,
\* deaths and restarts.  The fields excepted are those whose own save failed,
\* all of them when a save failed or the node died between the truncation of
\* the file and its write, and in memory those that this start of the node
\* could not load.  So StartBackup, StopBackup and ModifyBackupConfig keep
\* their word, but for these, as long as they are called one after another.
THEOREM AckedStaysInForce ==
  ASSUME OneByOne
  PROVE  Spec => []AckedConfigIsInForce
<1>1. TypeOK /\ ConfigInv /\ [Next]_vars => ConfigInv'
  BY ConfigStep
<1> QED
  BY <1>1, InitConfig, InForceIsRemembered, TypeCorrect, PTL DEF Spec

=============================================================================
