---------------------------- MODULE RpcHandlers ----------------------------
(***************************************************************************)
(* The RPCs of grpc_service.rs that change the node's state: StartBackup,  *)
(* StopBackup, ModifyBackupConfig, TriggerBackup and FormatDataFile.  Each *)
(* is served by a task of its own on a multi-threaded runtime, so any two  *)
(* statements that touch shared state may have another handler's           *)
(* statements between them: one action per such statement.                 *)
(*                                                                         *)
(* A call that is refused by its first check (an empty pattern, a pattern  *)
(* without 5 or 6 fields, no config file, a held lock, a running process)  *)
(* changes nothing and is a stuttering step.                               *)
(***************************************************************************)
EXTENDS NodeState

Serving == pm # "down"

Goto(h, pc) == rpc' = [rpc EXCEPT ![h].pc = pc]
Reply(h) == rpc' = [rpc EXCEPT ![h] = IdleCall]
At(h, pc) == rpc[h].pc = pc

processVars == <<pm, pmCron, sched, child>>
backupVars == <<task, temp>>

\* start_backup's and stop_backup's write of ManagerState.  The call then
\* persists the schedule, if there is a config file to persist it to.
SetSchedule(h, op, cron) ==
    /\ Serving
    /\ h \in ConfigHandlers
    /\ At(h, "idle")
    /\ ms' = [ms EXCEPT !.enabled = cron # None, !.cron = cron]
    /\ rpc' = [rpc EXCEPT ![h] =
                 [op |-> op, pc |-> IF HasConfigFile THEN "load" ELSE "send",
                  arg |-> cron, cfg |-> DefaultConfig]]
    /\ UNCHANGED <<toml, watch, lockq, processVars, backupVars, acked>>

StartBackup(h) == \E c \in Patterns : SetSchedule(h, "start", c)
StopBackup(h) == SetSchedule(h, "stop", None)

\* A request whose bucket is None changes other fields only.
ModifyBackupConfig(h) ==
    /\ Serving
    /\ HasConfigFile
    /\ h \in ConfigHandlers
    /\ At(h, "idle")
    /\ \E b \in Buckets \cup {None} :
         rpc' = [rpc EXCEPT ![h] = [op |-> "modify", pc |-> "load",
                                    arg |-> b, cfg |-> DefaultConfig]]
    /\ UNCHANGED <<ms, toml, watch, lockq, processVars, backupVars, acked>>

\* Mutant: starts from an empty configuration and not from the saved one.
MergedIntoDefault(h) ==
    IF rpc[h].op # "modify" THEN [DefaultConfig EXCEPT !.cron = rpc[h].arg]
                            ELSE [DefaultConfig EXCEPT !.bucket = rpc[h].arg]

\* The configuration a call saves: what it loaded, with its own field set.
Merged(h) ==
    IF rpc[h].op # "modify" THEN [toml EXCEPT !.cron = rpc[h].arg]
    ELSE IF rpc[h].arg # None THEN [toml EXCEPT !.bucket = rpc[h].arg]
    ELSE toml

LoadConfig(h) ==
    /\ At(h, "load")
    /\ rpc' = [rpc EXCEPT ![h].cfg = Merged(h), ![h].pc = "truncate"]
    /\ UNCHANGED <<ms, toml, watch, lockq, processVars, backupVars, acked>>

\* std::fs::write opens the file with O_TRUNC and then writes it: between
\* the two it is empty.
TruncateConfig(h) ==
    /\ At(h, "truncate")
    /\ toml' = DefaultConfig
    /\ Goto(h, "write")
    /\ UNCHANGED <<ms, watch, lockq, processVars, backupVars, acked>>

AfterSave(h) == IF rpc[h].op = "modify" THEN "apply" ELSE "send"

\* The save has gone through, whether or not the client will hear of it.
WriteConfig(h) ==
    /\ At(h, "write")
    /\ toml' = rpc[h].cfg
    /\ acked' = IF rpc[h].op # "modify"
                THEN [acked EXCEPT !.cron = rpc[h].arg, !.unsaved = @ \ {"cron"}]
                ELSE IF rpc[h].arg # None
                THEN [acked EXCEPT !.bucket = rpc[h].arg, !.unsaved = @ \ {"bucket"}]
                ELSE acked
    /\ Goto(h, AfterSave(h))
    /\ UNCHANGED <<ms, watch, lockq, processVars, backupVars>>

\* An I/O error while loading or saving.  persist_cron only logs it and the
\* call goes on; modify_backup_config returns an error status.  After the
\* truncation the file has lost its other fields as well.
ConfigIoFails(h) ==
    /\ IoFaults
    /\ rpc[h].pc \in {"load", "truncate", "write"}
    /\ IF rpc[h].op = "modify" THEN Reply(h) ELSE Goto(h, "send")
    /\ acked' = [acked EXCEPT !.unsaved =
                   IF At(h, "write")            THEN Fields
                   ELSE IF rpc[h].op = "modify" THEN @
                   ELSE                              @ \cup {"cron"}]
    /\ UNCHANGED <<ms, toml, watch, lockq, processVars, backupVars>>

\* modify_backup_config's write of ManagerState, and its success reply.
ApplyConfig(h) ==
    /\ At(h, "apply")
    /\ LET b == rpc[h].cfg.bucket
       IN  /\ ms' = [ms EXCEPT !.bucket = IF b = None THEN @ ELSE b]
           /\ acked' = [acked EXCEPT !.unloaded =
                          IF b = None THEN @ ELSE @ \ {"bucket"}]
    /\ Reply(h)
    /\ UNCHANGED <<toml, watch, lockq, processVars, backupVars>>

\* cron_schedule_tx.send: the last step of stop_backup; start_backup goes on
\* to spawn_immediate_backup, whose outcome its reply does not depend on.
SendCron(h) ==
    /\ At(h, "send")
    /\ watch' = [val |-> rpc[h].arg, unseen |-> TRUE]
    /\ acked' = [acked EXCEPT !.cron = rpc[h].arg, !.unloaded = @ \ {"cron"},
                 !.unsaved = IF HasConfigFile THEN @ ELSE @ \cup {"cron"}]
    /\ IF rpc[h].op = "start" THEN Goto(h, "probe") ELSE Reply(h)
    /\ UNCHANGED <<ms, toml, lockq, processVars, backupVars>>

TriggerBackup(h) ==
    /\ Serving
    /\ At(h, "idle")
    /\ rpc' = [rpc EXCEPT ![h] = [IdleCall EXCEPT !.op = "trigger",
                                                  !.pc = "probe"]]
    /\ UNCHANGED <<ms, toml, watch, lockq, processVars, backupVars, acked>>

\* try_lock succeeds: the guard exists until the next statement drops it.
TryLock(h) ==
    /\ At(h, "probe")
    /\ LockFree
    /\ Enqueue(h)
    /\ Goto(h, "drop")
    /\ UNCHANGED <<ms, toml, watch, processVars, backupVars, acked>>

\* try_lock fails: trigger_backup rejects the call, spawn_immediate_backup
\* returns and start_backup replies.
TryLockFails(h) ==
    /\ At(h, "probe")
    /\ ~LockFree
    /\ Reply(h)
    /\ UNCHANGED <<ms, toml, watch, lockq, processVars, backupVars, acked>>

\* Mutant: the guard outlives the statement that took it.
GuardIsKept(h) ==
    /\ At(h, "drop")
    /\ Goto(h, IF rpc[h].op = "trigger" THEN "target" ELSE "spawn")
    /\ UNCHANGED <<ms, toml, watch, lockq, processVars, backupVars, acked>>

DropGuard(h) ==
    /\ At(h, "drop")
    /\ Release
    /\ Goto(h, IF rpc[h].op = "trigger" THEN "target" ELSE "spawn")
    /\ UNCHANGED <<ms, toml, watch, processVars, backupVars, acked>>

\* trigger_backup captures the bucket when the call arrives.
CaptureTarget(h) ==
    /\ At(h, "target")
    /\ rpc' = [rpc EXCEPT ![h].arg = ms.bucket, ![h].pc = "spawn"]
    /\ UNCHANGED <<ms, toml, watch, lockq, processVars, backupVars, acked>>

\* tokio::spawn.  The task of a triggered backup carries the bucket; the one
\* of an immediate backup will read it once it has the lock.
SpawnBackup(h) ==
    /\ At(h, "spawn")
    /\ \E t \in Spawned :
         /\ task[t] = FreeTask
         /\ task' = [task EXCEPT ![t] =
              [pc |-> "spawned", intact |-> FALSE,
               bucket |-> IF rpc[h].op = "trigger" THEN rpc[h].arg ELSE None]]
    /\ Reply(h)
    /\ UNCHANGED <<ms, toml, watch, lockq, processVars, temp, acked>>

\* format_data_file on the node's own data file: the check of
\* process_running, the start of `tigerbeetle format`, and its end.
FormatDataFile(h) ==
    /\ Serving
    /\ At(h, "idle")
    /\ ~ms.running
    /\ rpc' = [rpc EXCEPT ![h] = [IdleCall EXCEPT !.op = "format",
                                                  !.pc = "format"]]
    /\ UNCHANGED <<ms, toml, watch, lockq, processVars, backupVars, acked>>

RunFormat(h) ==
    /\ At(h, "format")
    /\ Goto(h, "formatting")
    /\ UNCHANGED <<ms, toml, watch, lockq, processVars, backupVars, acked>>

FormatEnds(h) ==
    /\ At(h, "formatting")
    /\ Reply(h)
    /\ UNCHANGED <<ms, toml, watch, lockq, processVars, backupVars, acked>>

\* A client makes a call.
NewCall(h) ==
    \/ StartBackup(h)
    \/ StopBackup(h)
    \/ ModifyBackupConfig(h)
    \/ TriggerBackup(h)
    \/ FormatDataFile(h)

\* The handler's own progress.
HandlerStep(h) ==
    \/ LoadConfig(h)
    \/ TruncateConfig(h)
    \/ WriteConfig(h)
    \/ ConfigIoFails(h)
    \/ ApplyConfig(h)
    \/ SendCron(h)
    \/ TryLock(h)
    \/ TryLockFails(h)
    \/ DropGuard(h)
    \/ CaptureTarget(h)
    \/ SpawnBackup(h)
    \/ RunFormat(h)
    \/ FormatEnds(h)
=============================================================================
