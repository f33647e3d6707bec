--------------------------- MODULE ProcessManager ---------------------------
(***************************************************************************)
(* The life of the node process: main() loads the configuration, starts    *)
(* the gRPC server and then awaits ProcessManager::run, which spawns       *)
(* TigerBeetle, starts the cron scheduler and loops over schedule changes, *)
(* Ctrl-C and the exit of TigerBeetle.  The node process may also die at   *)
(* any point; whoever supervises it starts it again.                       *)
(***************************************************************************)
EXTENDS NodeState

Exists == pm # "down"

\* create_scheduler: a pattern the cron parser rejects gives an error, which
\* is logged, and no scheduler.
SchedulerFor(cron) == IF cron \in BadPatterns THEN None ELSE cron

\* main() and ProcessManager::new, with the configuration main has loaded.
StartWith(cfg, unloaded) ==
    /\ pm = "down"
    /\ ms' = NewManagerState(cfg)
    /\ watch' = [val |-> cfg.cron, unseen |-> FALSE]
    /\ acked' = [acked EXCEPT !.unloaded = unloaded]
    /\ pm' = "boot"
    /\ UNCHANGED <<rpc, task, toml, lockq, pmCron, sched, child, temp>>

\* An error of load_from_file is only logged: the node comes up with the
\* defaults and the file stays as it is.
Boot ==
    \/ StartWith(toml, acked.unsaved)
    \/ IoFaults /\ HasConfigFile /\ StartWith(DefaultConfig, Fields)

SpawnChild ==
    /\ pm = "boot"
    /\ child' = TRUE
    /\ pm' = "spawned"
    /\ UNCHANGED <<rpc, task, ms, toml, watch, lockq, pmCron, sched, temp,
                   acked>>

MarkRunning ==
    /\ pm = "spawned"
    /\ ms' = [ms EXCEPT !.running = TRUE]
    /\ pm' = "borrow"
    /\ UNCHANGED <<rpc, task, toml, watch, lockq, pmCron, sched, child, temp,
                   acked>>

\* borrow_and_update, before the loop and in it.
BorrowCron ==
    /\ pm = "borrow"
    /\ pmCron' = watch.val
    /\ watch' = [watch EXCEPT !.unseen = FALSE]
    /\ pm' = "create"
    /\ UNCHANGED <<rpc, task, ms, toml, lockq, sched, child, temp, acked>>

\* Mutant: marks the schedule as seen when the scheduler runs.
CreateThenMarkSeen ==
    /\ pm = "create"
    /\ sched' = SchedulerFor(pmCron)
    /\ watch' = [watch EXCEPT !.unseen = FALSE]
    /\ pmCron' = None
    /\ pm' = "loop"
    /\ UNCHANGED <<rpc, task, ms, toml, lockq, child, temp, acked>>

\* create_scheduler, which awaits several times.
CreateScheduler ==
    /\ pm = "create"
    /\ sched' = SchedulerFor(pmCron)
    /\ pmCron' = None
    /\ pm' = "loop"
    /\ UNCHANGED <<rpc, task, ms, toml, watch, lockq, child, temp, acked>>

\* Mutant: keeps the scheduler when there is no new schedule to start.
CronChangedOnlyToNew ==
    /\ pm = "loop"
    /\ watch.unseen
    /\ watch' = [watch EXCEPT !.unseen = FALSE]
    /\ IF watch.val = None
       THEN UNCHANGED <<sched, pm>>
       ELSE sched' = None /\ pm' = "borrow"
    /\ UNCHANGED <<rpc, task, ms, toml, lockq, pmCron, child, temp, acked>>

\* cron_rx.changed() resolves, and with it marks the value as seen; the old
\* scheduler is shut down before the new value is borrowed.  Job runs the old
\* scheduler has started go on.
CronChanged ==
    /\ pm = "loop"
    /\ watch.unseen
    /\ watch' = [watch EXCEPT !.unseen = FALSE]
    /\ sched' = None
    /\ pm' = "borrow"
    /\ UNCHANGED <<rpc, task, ms, toml, lockq, pmCron, child, temp, acked>>

\* Ctrl-C (the scheduler is shut down, TigerBeetle is killed) or the exit of
\* TigerBeetle (the scheduler is shut down): the loop ends either way.  The
\* gRPC server goes on serving until main returns.
LoopEnds ==
    /\ pm = "loop"
    /\ child' = FALSE
    /\ sched' = None
    /\ pm' = "ending"
    /\ UNCHANGED <<rpc, task, ms, toml, watch, lockq, pmCron, temp, acked>>

NoConfigCall == \A h \in Handlers : rpc[h].op \notin ConfigOps

\* The node process ends: main returns, TigerBeetle could not be spawned, or
\* the process is killed, and then TigerBeetle may survive it.  The tasks,
\* locks and channels are gone; the files stay, with what was written of
\* them: a config file that was truncated and not yet written stays empty.
NodeDies ==
    /\ Exists
    /\ pm' = "down"
    /\ rpc' = [h \in Handlers |-> IdleCall]
    /\ task' = [t \in Tasks |-> FreeTask]
    /\ ms' = NewManagerState(DefaultConfig)
    /\ watch' = [val |-> None, unseen |-> FALSE]
    /\ lockq' = <<>>
    /\ pmCron' = None
    /\ sched' = None
    /\ child' \in {FALSE, child}
    /\ temp' = IF temp = {} THEN {} ELSE {None}
    /\ acked' = IF \E h \in Handlers : rpc[h].pc = "write"
                THEN [acked EXCEPT !.unsaved = Fields] ELSE acked
    /\ UNCHANGED toml

ManagerStep ==
    \/ SpawnChild
    \/ MarkRunning
    \/ BorrowCron
    \/ CreateScheduler
    \/ CronChanged
=============================================================================
