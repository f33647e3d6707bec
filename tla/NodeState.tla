----------------------------- MODULE NodeState -----------------------------
(***************************************************************************)
(* The state one manager node shares between its gRPC handlers             *)
(* (grpc_service.rs), its backup tasks (backup.rs, the jobs of lib.rs) and *)
(* its process-manager loop (lib.rs), and the value sets it ranges over.   *)
(*                                                                         *)
(* A cron pattern and a bucket are opaque values.  The data file's path    *)
(* and the AWS credentials are not told apart from the bucket: they live   *)
(* in the same TOML file and are merged, saved and applied by the same     *)
(* statements.                                                             *)
(***************************************************************************)
EXTENDS Naturals, Sequences

CONSTANTS
    Handlers,        \* gRPC calls being served at the same time (a bound)
    ConfigHandlers,  \* those of them that may change the configuration
    Spawned,         \* slots for backup tasks spawned by an RPC (a bound)
    Jobs,            \* slots for runs of the cron job (a bound)
    Patterns,        \* cron patterns with 5 or 6 fields
    BadPatterns,     \* those of them the scheduler cannot parse
    Buckets,
    DefaultBucket,   \* "tigerbeetle-backups"
    HasConfigFile,   \* was --backup-config-file given?
    IoFaults,        \* may file operations fail?
    None

ASSUME HandlersAssumption == ConfigHandlers \subseteq Handlers
ASSUME TasksAssumption ==
    /\ Handlers \cap (Spawned \cup Jobs) = {}
    /\ Spawned \cap Jobs = {}
ASSUME ValuesAssumption ==
    /\ BadPatterns \subseteq Patterns
    /\ DefaultBucket \in Buckets
    /\ None \notin Patterns \cup Buckets \cup Handlers \cup Spawned \cup Jobs
ASSUME FlagsAssumption == HasConfigFile \in BOOLEAN /\ IoFaults \in BOOLEAN

VARIABLES
    rpc,    \* handler -> the call it serves and how far it is
    task,   \* backup task -> how far it is
    ms,     \* ManagerState, behind its RwLock
    toml,   \* contents of the backup config file
    watch,  \* the cron watch channel, as its one receiver sees it
    lockq,  \* backup_lock: the holder, then those queued for it in order
    pm,     \* where ProcessManager::run is
    pmCron, \* the pattern it is building a scheduler for
    sched,  \* pattern of the running scheduler, or None
    child,  \* does the TigerBeetle process run?
    temp,   \* whose bytes /tmp/<data file>.zst holds; {} if it does not exist
    acked   \* history: the configuration clients were last told, and what of
            \* it a failed save, a cut-off save or a failed load has cost

vars == <<rpc, task, ms, toml, watch, lockq, pm, pmCron, sched, child, temp,
          acked>>

Tasks == Spawned \cup Jobs

Cron == Patterns \cup {None}
Config == [cron: Cron, bucket: Buckets \cup {None}]

\* What load_from_file returns for a missing file, and for an empty one.
DefaultConfig == [cron |-> None, bucket |-> None]

BucketOf(cfg) == IF cfg.bucket = None THEN DefaultBucket ELSE cfg.bucket

ManagerState == [running: BOOLEAN, enabled: BOOLEAN, cron: Cron,
                 bucket: Buckets, done: BOOLEAN, error: BOOLEAN]

\* ProcessManager::new, from the configuration main has loaded.
NewManagerState(cfg) ==
    [running |-> FALSE, enabled |-> cfg.cron # None, cron |-> cfg.cron,
     bucket |-> BucketOf(cfg), done |-> FALSE, error |-> FALSE]

IdleCall == [op |-> "none", pc |-> "idle", arg |-> None, cfg |-> DefaultConfig]

\* The calls being served: what they carry and the steps they go through.
CronCall == [op: {"start", "stop"},
             pc: {"load", "truncate", "write", "send", "probe", "drop", "spawn"},
             arg: Cron, cfg: Config]
ModifyCall == [op: {"modify"}, pc: {"load", "truncate", "write", "apply"},
               arg: Buckets \cup {None}, cfg: Config]
TriggerCall == [op: {"trigger"}, pc: {"probe", "drop", "target", "spawn"},
                arg: Buckets \cup {None}, cfg: {DefaultConfig}]
FormatCall == [op: {"format"}, pc: {"format", "formatting"},
               arg: {None}, cfg: {DefaultConfig}]

Call == {IdleCall} \cup CronCall \cup ModifyCall \cup TriggerCall \cup FormatCall

\* The calls that load, change and save the TOML file.
ConfigOps == {"start", "stop", "modify"}

Task == [pc: {"free", "spawned", "waiting", "read", "compress", "compressing",
              "open", "cleanup", "ok", "failed"},
         bucket: Buckets \cup {None},
         intact: BOOLEAN]

FreeTask == [pc |-> "free", bucket |-> None, intact |-> FALSE]

Fields == {"cron", "bucket"}

\* Deaths and restarts leave it alone.  unsaved are the fields the file may
\* not hold, because a save of them failed or the node died in the middle of
\* one; unloaded those that this start of the node did not read from the file.
Acked == [cron: Cron, bucket: Buckets \cup {None},
          unsaved: SUBSET Fields, unloaded: SUBSET Fields]

AsSaved(cfg) == [cron |-> cfg.cron, bucket |-> cfg.bucket,
                 unsaved |-> {}, unloaded |-> {}]

\* The stages in which upload_backup is executing.
UploadStages == {"compress", "compressing", "open", "cleanup", "ok", "failed"}
Uploading(t) == task[t].pc \in UploadStages

\* tokio's Mutex: first come first served, try_lock succeeds when nobody
\* holds it or waits for it.
LockFree == lockq = <<>>
HoldsLock(a) == lockq # <<>> /\ Head(lockq) = a
Enqueue(a) == lockq' = Append(lockq, a)
Release == lockq' = Tail(lockq)
=============================================================================
