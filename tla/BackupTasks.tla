---------------------------- MODULE BackupTasks ----------------------------
(***************************************************************************)
(* Backup runs: the tasks trigger_backup and spawn_immediate_backup spawn  *)
(* (slots in Spawned), which hold backup_lock while they upload, and the   *)
(* runs of the cron job of create_scheduler (slots in Jobs), which do not  *)
(* take it.  All of them execute S3BackupStrategy::upload_backup, which    *)
(* compresses the data file into one file of /tmp named after it.          *)
(*                                                                         *)
(* temp is the set of runs whose bytes that file holds, {} when there is   *)
(* no such file; None in it stands for bytes whose run failed half way or  *)
(* died with the node.  The file is a good backup when it holds the bytes  *)
(* of one run that has finished compressing.                               *)
(***************************************************************************)
EXTENDS NodeState

Advance(t, from, to) ==
    /\ task[t].pc = from
    /\ task' = [task EXCEPT ![t].pc = to]

configVars == <<toml, watch, acked>>
managerVars == <<rpc, pm, pmCron, sched, child>>

\* The task's first poll: it queues for the lock.
TaskQueues(t) ==
    /\ t \in Spawned
    /\ Advance(t, "spawned", "waiting")
    /\ Enqueue(t)
    /\ UNCHANGED <<ms, temp, configVars, managerVars>>

\* Mutant: trusts the probe of the handler and does not wait for the lock.
TaskRunsUnlocked(t) ==
    /\ t \in Spawned
    /\ Advance(t, "waiting", IF task[t].bucket = None THEN "read"
                                                      ELSE "compress")
    /\ UNCHANGED <<ms, temp, lockq, configVars, managerVars>>

\* backup_lock.lock() returns.  A triggered backup brought its bucket along.
TaskLocks(t) ==
    /\ t \in Spawned
    /\ HoldsLock(t)
    /\ Advance(t, "waiting", IF task[t].bucket = None THEN "read"
                                                      ELSE "compress")
    /\ UNCHANGED <<ms, temp, lockq, configVars, managerVars>>

\* A tick of the running scheduler starts the job, also while an earlier run
\* of it is still uploading.
CronFires(t) ==
    /\ t \in Jobs
    /\ sched # None
    /\ Advance(t, "free", "read")
    /\ UNCHANGED <<ms, temp, lockq, configVars, managerVars>>

\* Mutant: takes the wrong field of ManagerState.
ReadTargetWrongField(t) ==
    /\ task[t].pc = "read"
    /\ task' = [task EXCEPT ![t].bucket = ms.cron, ![t].pc = "compress"]
    /\ UNCHANGED <<ms, temp, lockq, configVars, managerVars>>

\* The run reads its target from ManagerState; a cron run also reads
\* backups_enabled, and ends here if backups are disabled.
ReadTarget(t) ==
    /\ task[t].pc = "read"
    /\ task' = [task EXCEPT ![t] =
         IF t \in Jobs /\ ~ms.enabled
         THEN FreeTask
         ELSE [@ EXCEPT !.bucket = ms.bucket, !.pc = "compress"]]
    /\ UNCHANGED <<ms, temp, lockq, configVars, managerVars>>

\* compress_file opens the temporary file with O_TRUNC.  A run that is still
\* writing to it goes on doing so.
OpenTemp(t) ==
    /\ Advance(t, "compress", "compressing")
    /\ temp' = {u \in temp \cap Tasks : task[u].pc = "compressing"} \cup {t}
    /\ UNCHANGED <<ms, lockq, configVars, managerVars>>

FinishCompression(t) ==
    /\ Advance(t, "compressing", "open")
    /\ UNCHANGED <<ms, temp, lockq, configVars, managerVars>>

GoodCopy == \E w \in Tasks : temp = {w} /\ task[w].pc # "compressing"

\* upload_backup looks at the compressed file and opens it as the body of
\* the request it would send (put_object is commented out in the code).
OpenCompressed(t) ==
    /\ temp # {}
    /\ task[t].pc = "open"
    /\ task' = [task EXCEPT ![t] = [pc |-> "cleanup", bucket |-> @.bucket,
                                    intact |-> GoodCopy]]
    /\ UNCHANGED <<ms, temp, lockq, configVars, managerVars>>

\* Somebody else removed it: the `?` of metadata or of from_path.
CompressedIsGone(t) ==
    /\ temp = {}
    /\ Advance(t, "open", "failed")
    /\ UNCHANGED <<ms, temp, lockq, configVars, managerVars>>

\* remove_file; that it may already be gone is only logged.
RemoveTemp(t) ==
    /\ Advance(t, "cleanup", "ok")
    /\ temp' = {}
    /\ UNCHANGED <<ms, lockq, configVars, managerVars>>

\* Mutant: the result of the compression is not looked at.
CompressionErrorIgnored(t) ==
    /\ IoFaults
    /\ Advance(t, "compressing", "open")
    /\ temp' = IF t \in temp THEN (temp \ {t}) \cup {None} ELSE temp
    /\ UNCHANGED <<ms, lockq, configVars, managerVars>>

\* An error before the compressed file is complete: no data file, no space.
\* What was written of it stays.
CompressionFails(t) ==
    /\ IoFaults
    /\ \/ /\ Advance(t, "compress", "failed")
          /\ UNCHANGED temp
       \/ /\ Advance(t, "compressing", "failed")
          /\ temp' = IF t \in temp THEN (temp \ {t}) \cup {None} ELSE temp
    /\ UNCHANGED <<ms, lockq, configVars, managerVars>>

\* Mutant: the lock is given back by hand, and not on the error path.
ReportKeepsLock(t) ==
    /\ task[t].pc \in {"ok", "failed"}
    /\ ms' = [ms EXCEPT !.error = task[t].pc = "failed"]
    /\ task' = [task EXCEPT ![t] = FreeTask]
    /\ IF t \in Spawned /\ task[t].pc = "ok" THEN Release
                                             ELSE UNCHANGED lockq
    /\ UNCHANGED <<temp, configVars, managerVars>>

\* The run's outcome goes into ManagerState and, at the end of the task, the
\* guard of backup_lock is dropped.
Report(t) ==
    /\ \/ /\ task[t].pc = "ok"
          /\ ms' = [ms EXCEPT !.done = TRUE, !.error = FALSE]
       \/ /\ task[t].pc = "failed"
          /\ ms' = [ms EXCEPT !.error = TRUE]
    /\ task' = [task EXCEPT ![t] = FreeTask]
    /\ IF t \in Spawned THEN Release ELSE UNCHANGED lockq
    /\ UNCHANGED <<temp, configVars, managerVars>>

TaskStep(t) ==
    \/ TaskQueues(t)
    \/ TaskLocks(t)
    \/ ReadTarget(t)
    \/ OpenTemp(t)
    \/ FinishCompression(t)
    \/ OpenCompressed(t)
    \/ CompressedIsGone(t)
    \/ RemoveTemp(t)
    \/ CompressionFails(t)
    \/ Report(t)
=============================================================================
