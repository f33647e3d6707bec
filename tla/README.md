# tigerbeetle-manager in TLA+

A verification project for the repository: TLA+ modules translated from its
source, TLC configurations that check them on small instances, and theorems
that TLAPS proves for every instance. Line numbers refer to the files under
`src/`; `PROJECT.json` maps every definition to the lines it stands for.

## 1. Inventory

| Part | State | Operations | Interacts through |
|---|---|---|---|
| gRPC handlers, backup and format (`manager-node/src/grpc_service.rs` 174-379, 644-731, 1586-1625) | none of their own; one task per call | StartBackup, StopBackup, ModifyBackupConfig, TriggerBackup, FormatDataFile | `ManagerState` (RwLock), the TOML file, the watch channel, `backup_lock` |
| Backup configuration (`manager/src/backup.rs` 25-136) | the TOML file | load, save (truncate and write), apply to the environment | handlers, `main`, backup runs |
| Backup runs (`backup.rs` 195-284, jobs of `manager/src/lib.rs`) | `/tmp/<data file>.zst` | compress, open, remove, report | `backup_lock` (not the cron job), `ManagerState` |
| Process manager (`manager/src/lib.rs`, `process.rs`, `manager-node/src/main.rs`) | TigerBeetle's process, the cron scheduler, its place in `run` | boot, spawn, (re)build the scheduler, shut down | watch channel, `ManagerState` |
| Migration planning (`compressor/src/plan.rs`, `grpc_service.rs` 733-835, 1256-1516) | cached plan, cached CSV transfers | build, build_windowed, build_plan_from_csv | data file reader |
| Importer and migration RPCs (`compressor/src/importer.rs`, `grpc_service.rs` 971-1254) | progress and outcome channels | four phases of batches | target cluster |
| Data file reader (`reader/src`, `grpc_service.rs` 446-642, 1256-1434) | open file, manifest index | superblock election, manifest walk, LSM and WAL iteration, pages, merges | TigerBeetle writing the same file |
| Log streaming (`process.rs` 35-98, `main.rs` 123-149, `grpc_service.rs` 421-444) | two broadcast channels of 1024 | read lines, forward, stream | TigerBeetle's pipes, clients of StreamLogs |
| TigerBeetle client (`tigerbeetle-client/src/lib.rs`, `conversions.rs`) | packets in flight, the client's box, oneshot channels | submit, complete, await, drop, close; paging stream, merges of replies | native library's thread |
| Identifiers (`tigerbeetle-client/src/time_based_id.rs`) | one generator behind a Mutex | id() | wall clock |

What is hard, and the properties that answer it:

* Handlers run in parallel and share five pieces of state without a common
  lock. Configuration calls write memory, then the file, then the channel.
  Correct means: what a client was told last is what memory, channel and file
  say (`AckedConfigIsInForce`), and concurrent calls lose nothing
  (`FileHoldsSchedule`, which fails).
* Backups are started from three places, and only two of them take the lock.
  Correct means: no two uploads of those that take it at once
  (`RpcBackupsSerialised`, `LockDiscipline`), and a success means a whole copy
  (`SuccessMeansGoodCopy`); the cron job is outside both (see Findings).
* The scheduler is rebuilt while new schedules arrive; it must end up with the
  last one (`IdleSchedulerIsLatest`, `SchedulerConverges`, `StopSilencesCron`).
* The node dies at any point, also between the truncation of the configuration
  file and the write, and may then come back without what was saved before
  (`ScheduleSurvivesRestarts`, which fails); or it starts with the defaults because
  the file could not be loaded.
* Identifiers must increase although threads race, the clock jumps and the
  random part overflows (`IdsIncrease`).
* A migration must move every balance and order its timestamps, for any cutoff
  (`PlanRestoresBalances`, `CutoffBalancesAreRebuilt`, `GenesisAccountsMatch`,
  `CsvRestoresBalances`, `SyntheticBeforeCutoff` where there is room for it;
  `WindowRestoresBalances` fails).
* An import may fail half way, overlap with another, be repeated, or outlive its
  node or its client (`SuccessMeansImported`, `PromiseKept`, `NothingCountsTwice`,
  `JobsEnd`).
* The data file is read one block after the other while TigerBeetle goes on
  writing it: blocks and WAL slots are given to other data, and the LSM and the
  WAL are read through two superblocks. Correct means: a read that no checkpoint
  crosses misses nothing and makes nothing up (`NothingIsMissed`,
  `NothingIsInvented`, `SteadyFilesAreReadable`, `PagesAddUp`; the window of a
  migration is incomplete all the same: `WindowIsComplete` fails).
* Log lines pass two channels that overwrite what is not taken in time. A stream
  that lags must say so and go on (`GapsAreAnnounced`, `PipesStayInOrder`,
  `LinesReachStreams`).
* The client lends memory to a foreign thread. Whatever the order of completion,
  dropped futures, eviction, close and drop: it is freed once
  (`ReclaimedOnce`), nobody waits for ever (`ClosingEnds`) or panics
  (`NobodyPanics`), an answer falls on the events it belongs to
  (`AnswersAreTrue`), and pages have no gaps although transfers are created
  between them (`PagesHaveNoGaps`, `EverythingIsPaged`).

## 2. Modules

`NodeState` declares the constants, the variables and the value sets of one
manager node. `RpcHandlers`, `BackupTasks` and `ProcessManager` extend it with
the actions of one component each and do not know of each other: they meet in
the shared variables, as the code does. `ManagerNode` composes them: initial
states, next-state relation, fairness, properties. `MCManagerNode` adds the
symmetry sets for TLC. `ManagerNodeProofs` holds the theorems.
`TimeBasedId` stands alone; its theorems are with those of the client, which it
belongs to (its specification is `IdSpec`). `Ledger` states the rules of
a TigerBeetle ledger that the migration relies on (external), `BalancePlan` the
planning functions as operators over it. Two systems use them:
`MigrationPlanning`, in which a source ledger grows and is planned with every
cutoff, and `Migration`, in which calls import plans into a target. The abstract
specification `MigrationPromise` says what a caller may rely on; `Migration`
implements it. `MCMigration` has the sources for TLC. `PlanProofs` has the lemmas about
lists, folds, ledgers and plans and the theorems about the plans of data files;
`MigrationProofs` builds on it the plans of CSV files and the theorems about
`Migration` (the specification of `MigrationPlanning` is `LedgerSpec`, so that one module
can extend both).

`DataFile` is the file and the replica that writes it (external), `FileReader`
extends it with the crate `reader`, and `FileReads` with the node's RPCs over the
reader, the whole system and its properties; its theorems are in `FileProofs`
(types, what can be read) and `FileContentProofs`, which extends it (what is found,
and what pages add up to).
`LogStream` is one module, with its theorems in `LogStreamProofs`.
`ClientRequests` has the client's requests and its end; `AccountPaging` extends it
with the paging stream as one more actor and is the system that is checked
(`MCClient` has the values for TLC) and that `ClientProofs` is about. `Induction`
holds what several proofs need of natural numbers: the least element of a set,
induction, recursive functions, and the enumeration of a finite set.

The node:

| Variable | Code |
|---|---|
| `rpc[h]` | a gRPC call: which, how far, its argument, the configuration it has loaded |
| `task[t]` | a spawned backup (`t \in Spawned`) or a run of the cron job (`t \in Jobs`); `intact`: was the file it opened a whole copy |
| `ms` | `ManagerState`: process_running, backups_enabled, cron_schedule, bucket; `done` and `error` say whether last_backup_at and last_backup_error are set |
| `toml` | the configuration file; an empty or missing file parses to `DefaultConfig` |
| `watch` | the watch channel: last value, and whether `changed()` would return |
| `lockq` | `backup_lock`: the holder and the waiters in order (tokio's Mutex is fair) |
| `pm`, `pmCron`, `sched` | where `run` is, the pattern in its hands, the scheduler that runs |
| `child` | TigerBeetle runs |
| `temp` | whose bytes the temporary file holds |
| `acked` | history: the schedule and the bucket clients were told last; `unsaved`, the fields that a failed save or a death in the middle of one has cost the file; `unloaded`, those that the running node has started without |

One action is one statement on shared state: a handler writes `ManagerState`
(`SetSchedule`), loads (`LoadConfig`), truncates and writes the file
(`TruncateConfig`, `WriteConfig`), sends to the channel (`SendCron`), probes the
lock and drops the guard (`TryLock`, `TryLockFails`, `DropGuard`), and spawns the
task (`SpawnBackup`). The names follow the code's comments and functions.

Abstractions:

* A bucket stands for every field of the file that is not the schedule (the
  data file's path, the credentials): they are merged, saved and applied alike.
  A request that sets only such a field other than the bucket is a
  `ModifyBackupConfig` with `None`.
* A pattern is a value. Patterns with a wrong number of fields are refused at
  once and change nothing; `BadPatterns` have the right number of fields, are
  acknowledged, and are then refused by the scheduler.
* Read-only RPCs (GetStatus, GetBackupConfig) are left out. FormatDataFile is
  modelled for the node's own data file.
* put_object is commented out in the code (`backup.rs` 226-233): a run opens the
  compressed file as the request's body and goes on to remove it.
* `NodeDies` stands for the return of main, an error of spawn, and a kill;
  TigerBeetle, which is not killed on drop, may then survive. It leaves `acked`
  as it is: what clients were told does not change. A death between truncation and
  write marks both fields `unsaved`, because the file has lost them.
* `Boot` takes the file, or, when loading fails (with `IoFaults`), the defaults,
  while the file stays (`main.rs` 60-66): every field is then `unloaded` until a
  call sets it again.
* A `tigerbeetle format` that outlives a killed node is not followed.

External, modelled from the way the code uses them: tokio's Mutex (first come
first served, `try_lock` fails while anyone holds or awaits it), the watch
channel (`changed` marks the value as seen), the job scheduler (its shutdown does
not abort job runs), the wall clock.

`BalancePlan` follows the code function by function:

| Operator | Code |
|---|---|
| `GenesisAccounts`, `RegularAccounts`, `TransferTsFloor`, `RebuildAccount`, `SyntheticTransfers`, `BuildSnapshot` | the steps of `build_snapshot_impl` |
| `AtCutoff`, `BuildWindowed` | `build_windowed` |
| `Between`, `Aggregated`, `SortedByTimestamp`, `DedupeTimestamps`, `FromCsv` | `build_plan_from_csv`; one plan for every order of its hash map |
| `IsSafe`, `WindowOf`, `PlanOf`, `AccountsOnly` | what `execute_migration` does with a data file's ledger |

A ledger maps account ids to records and holds its transfers by age. Timestamps
are naturals, u128 amounts too (sums of a real ledger fit, TigerBeetle sees to
it); a genesis id is a pair that no account has. Left out of accounts and
transfers: codes, user data, timeouts, and the linked, closed, closing, history
and balancing flags. An application's transfer ids are above every synthetic id,
because they have a time in their upper bits (`docs/rotate-archive-impl-plan.md`,
ID Space). `MigrationPlanning` gives an account at most
debits_must_not_exceed_credits: with the opposite flag a rebuilt credit is
refused, which no document rules out or in. The source has no genesis accounts
of an earlier migration. `ledger` and `clock` are the source's ledger and its time,
the only variables of `MigrationPlanning`: a plan is made of any state, with every
cutoff.

`Migration`:

| Variable | Code |
|---|---|
| `job[c]` | the spawned task: `connecting`, `ready` (between batches), `waiting` (for results), `reporting` (progress), `ended`, `dead`; `todo` holds the batches of all four phases in order |
| `request[c]` | a batch on its way to the target |
| `progress[c]`, `outcome[c]` | mpsc and oneshot channel |
| `client[c]` | `reading` the stream, `gone`, or told `ok` or `failed` |
| `target` | the target cluster's ledger |
| `source`, `cutoff`, `parts` | fixed: the procedure stops writes to the source first and uses one cutoff; a migration moves everything at once, or `accounts` (accounts_only) and then `transfers` (CSV), or only transfers, to a target that has the accounts (`manager.proto` 73) |

A target applies a batch in one step and event by event, so a refused event does
not undo the others. A request whose node has died may still be applied, while
the next call is running, or be lost. A call that a client loses is repeated as
another member of `Calls`. Overwriting the uploaded CSV between calls is left
out, as are calls whose cutoffs differ: a CSV imported verbatim at first and
aggregated on the second try would be counted twice, and nothing in the code or
its documents speaks of that.

The reader (`DataFile`, `FileReader`, `FileReads`):

| Variable | Code |
|---|---|
| `log`, `commit` | the cluster's prepares, and how many are committed; a prepare has one event |
| `copies`, `writing`, `copied` | the superblock's copies, and the one that is being written into them |
| `grid`, `free` | blocks by address; the addresses the replica may write |
| `manifest`, `tables` | the addresses of the manifest's blocks in the order of writing; the live tables |
| `headers`, `bodies` | the two zones of the WAL, slot by slot |
| `call`, `pc` | what the RPC reads, and the next read of the file |
| `sb`, `copy` | `read_superblock`: best copy so far, next copy |
| `walk` | `collect_index_blocks_for_tree`: next manifest block, blocks visited, first event met for each table |
| `iter`, `slot`, `out` | `ObjectIter`, `WalObjectIter` and what they have yielded |
| `began`, `answer` | history: the file when the call came and when it was answered |

One action is one seek and read: `ReadCopy`, `ReadManifest`, `LoadIndexBlock`,
`LoadValueBlock`, `ReadHeader`, `ReadBody`; `Return` does what the RPC does with the
records (`PageOf`, `MergedAccounts`, `MergedTransfers`). The reader looks at no
checksum, so a block is what its type says and nothing is refused but a wrong
type. Before the first checkpoint there are no tables: pages are then empty, with Ok,
and a migration has nothing of the LSM (`Use`; `reader.rs` 252, 268). A wrong block
fails the call, except in the part of a page that `skip()` passes over, where the error
is thrown away and ends the iterator: the page is Ok and empty (`BlockIsWrong`;
`reader.rs` 249-251). ReadAccounts and ReadTransfers log "combined" but read the LSM
only, and are modelled so. The live tables come out of a hash map, in any order. Abstractions:
an object's timestamp is the number of its prepare, an account's value its
balance; a checkpoint writes one manifest block; account tables are compacted into
one at every checkpoint (balances change), transfer tables stay, move to another
level, or are compacted; a table may come and go within one checkpoint. The
offsets inside blocks, the 128-byte layouts and the errors of the operating system
are left out, and so is a superblock that was never formatted.

`LogStream`:

| Variable | Code |
|---|---|
| `written`, `taken`, `reader` | a pipe's lines, those that its reader task has taken, and where that task is |
| `node` | up; shutdown once Ctrl-C has set the readers' flag; gone |
| `sent`, `forwarded` | the process manager's channel and the node's: everything ever sent, of which a channel keeps the last `Capacity` |
| `forwarder` | main's task: running, or ended because it lagged |
| `stream[c]` | a StreamLogs call: where it began, how far it is, what it was told was skipped, what it got |

The client (`ClientRequests`, `AccountPaging`):

| Variable | Code |
|---|---|
| `holders`, `client`, `deinits`, `boxFrees` | the `Arc<Client>` and its pointer: threads with a handle, life cycle, threads spawned to deinit, frees of the box |
| `requests[s]` | one call: packet lent or reclaimed and how often freed, what was sent, oneshot message, future, answer |
| `evicted`, `ledger` | the cluster (external) |
| `state`, `event`, `begin` | the paging stream's `State` and filter |
| `pages`, `broken`, `present` | history: what the stream has yielded, whether it ended with an error, what was there when it was made |

A call of the interface is one action (`CreateAccounts`, ...), because `submit`
runs before the future is returned; the callback is `OnCompletion`, the
continuation after the await is `Await`. The merges, which the crate documents for
callers, are operators and part of `AnswersAreTrue`. What the cluster does with a
batch (`CreateEvent`, `RunCreate`, `LookupEvent`, `RunLookup`, `Page`) and the merges
(`MergeCreate`, `MergeCreateResults`, `MergeLookup`, `MergeLookupResults`) are one
operator per event and a recursive function over the list. `Page` lists no more than
the filter's limit and no more than `ResultMax`, the cluster's own cap on results
(8189, `lib.rs` 104-109, `tests.rs` 665-667). An object is a kind and an
id, its timestamp its place in the ledger; a transfer needs some account. A list of
`SizeLimit` events (2^25) has a `data_size` that wraps to 0.

`TimeBasedId`: `Randoms` stands for 2^80 and `MsLimit` for 2^48. A call takes the lock,
finds no generator, installs one (`Install`) and calls itself again, or draws
(`Draw`). `Pack` shifts, so milliseconds beyond 48 bits are lost.

## 3. Runs

| Run | Question | Bounds |
|---|---|---|
| `node_backups` | Do calls, spawned backups, errors and crashes keep the lock's discipline, whole copies and the latest scheduler? | 2 calls of any kind at once, 2 task slots (two backups can overlap, a third would queue like the second), one pattern or none, no file |
| `node_config` | Is what clients were told in force and saved? | calls one after another, 2 buckets and 2 schedules (one of them none), I/O errors, crashes |
| `node_liveness` | Is the lock handed on; does the scheduler settle; does a stop silence cron? | 1 call, 1 spawned backup, 1 cron run, a good and a bad pattern |
| `node_racing_calls` | finding: a stopped schedule comes back in the file | 2 calls |
| `node_crash_in_save` | finding: a death during a save loses what was saved before | calls one after another, one pattern |
| `migration_planning` | Does a plan, imported, restore every balance? | 4 accounts in 2 ledgers, one with a limit; 3 transfers of amount 1 or 2, single- or two-phase, in any order with openings; every cutoff that makes a different plan; CSV timestamps exact or coarsened, up or down, so that rows tie |
| `plan_two_phase` | finding: two-phase transfers in the window | the same |
| `migration` | What may a caller rely on when imports overlap, fail and are repeated? Is an amount ever moved twice? Does every task end? | 2 calls; a source with 3 accounts and 3 transfers, two pairs of them before the cutoff, so that a CSV plan has two orders, and a source with an amount on hold; cutoff 0 and one in the middle; all at once, in two parts, or transfers onto accounts that are there; batches of 1, so that every prefix of a plan may be all that arrived; a progress channel of 1 |
| `file_reads` | What does a read of a file that is being written show? | 1 account, 2 transfers, 3 prepares, 3 checkpoints, 2 superblock copies, 2 WAL slots, 11 grid blocks, pages of 1, up to 3 of them; a migration with and without a cutoff |
| `window_incomplete` | finding: transfers that are in the WAL only are left behind | the same |
| `log_stream` | Are lines lost, doubled or reordered without a notice? Do they arrive? | 2 pipes, 1 stream, 4 lines, channels of 2 |
| `client` | Are answers true, memory freed once, pages without gaps, and does closing end? | 2 threads, 3 requests (a page, the next page, and one of any other kind), lists of 0, 3 and 4 events (batches of 3; lists whose size wraps, 8, are not made), pages of 2 in both directions with and without bounds, and queries with a limit above the cluster's cap of 2; besides, identifiers: 2 threads, 3 random values, clock of 4 values (all jumps), 4 identifiers, so that overflow and carry happen several times, also past the width |

Two calls are enough for every race of the node: handlers share no state
pairwise beyond the variables above, and each action reads and writes them once;
a third call adds another instance of the same race. `node_backups` has no cron
runs because with them `SuccessMeansGoodCopy` does not hold: all runs share one
temporary file, and a cron run takes no lock. `node_liveness` has one. Its
file operations do not fail, so that the failing compressions are those of
`node_backups`.

In `migration_planning` an object is three nanoseconds younger than the one
before it, so some cutoffs leave room for synthetic transfers and some do not;
`PlanRestoresBalances` speaks of those that do (`SlotIsWideEnough`, told from the
source's history and not from the plan), and so does `SyntheticBeforeCutoff`. An
account's balances come from the transfers with it on either side, so three
transfers of both directions exhaust the cases of `RebuildAccount` and
`AtCutoff`: before, across and after a cutoff, on an account opened before or
after it. Both migration models stop when their transfers or calls are used up,
so deadlock is not checked there.

Two calls of `migration` give an overlap, or a failure and its retry, with a late
request of the first in between. A migration in two parts is one call for the accounts
and one for the transfers. An import of transfers that is repeated has a target
with the accounts (`Prepared`), so that both calls are left for it; the order of a
CSV plan matters there, because ids and timestamps of aggregated transfers are places
in that order, and a repeated import may draw another one. How a phase is cut into
batches of more than one object (`Chunks`) is part of the theorems, for every size.

In `file_reads` three checkpoints are enough for a block of the first one to be
freed by the second and written by the third while a reader has its address in
hand; the ring of 2 slots is overwritten by the third prepare; 2 copies of the
superblock show an election during a write. Eleven blocks are two less than three
checkpoints could use, so blocks are reused. `Transient`, which some properties
except, is a table whose insertion and removal are in one manifest block: the
reader takes the first event of a block for the last one (`manifest.rs` 222), and
such a table is live to it. `log_stream` has twice as many lines as a channel
holds, so forwarder and stream both lag. In `client`, 3 requests are two pages
and one call of the other thread, whose kind is any of the interface's. The generator
of identifiers belongs to the same library and shares no state with the client, so
`MCClient` checks it in the same run, as a behaviour of its own (`LibrarySpec`).
These behaviours end (the last answer, the node or the client is gone), so deadlock
is not checked there.

Fairness of `node_liveness`: weak fairness of every handler, of every backup
task and of the manager's loop, because the tokio runtime polls what is ready,
and a file operation or a compression ends. There is none for clients' calls,
cron ticks, the exit of TigerBeetle, the death of the node and its restart. Weak
fairness of tasks is enough for `BackupLockComesFree` because the lock is a
queue. The node's model never deadlocks: a node that is up may die and one
that is down may be started.

Fairness of `migration`: the task, the target's answer and a client that stays
and reads. None for starting calls, leaving, failures and crashes. `JobsEnd`
needs the client's part: a client that neither reads nor leaves holds the task
up, and the code means it to (mpsc of 32).

Fairness of `log_stream`: the reader tasks, the forwarder and a client that has not
left are polled when they can go on. None for lines, subscriptions, leaving,
failures and the end of the node.

Fairness of `client`: tb_client_deinit completes what is left and returns, and
executors poll what was completed. None for the cluster, eviction and callers;
`ClosingEnds` does not need an answer from the cluster.

Each property has a mutant in `PROJECT.json`: a plausible bug in one mapped
definition, defined just before it, under which TLC finds the property violated.

### Findings

Four runs show the code doing something else than the repository says:

* `FileHoldsSchedule` (`node_racing_calls`): StopBackup clears the schedule in the
  file (`grpc_service.rs` 248); a ModifyBackupConfig that has loaded the file before
  writes it back (331, 360). Memory and channel have no schedule, the file has one,
  and the next start runs it. A StartBackup can be undone in the file likewise.
* `ScheduleSurvivesRestarts` (`node_crash_in_save`): `grpc_service.rs` 206 promises that
  a schedule survives restarts; a save truncates the file before it writes it
  (`backup.rs` 98), and a node that dies in between comes back without the schedule
  and the bucket that were saved earlier. An empty file parses, so nothing is logged.
* `WindowRestoresBalances` (`plan_two_phase`): `plan.rs` 98 promises that the replay
  restores the final balances; a pending transfer in the window, voided as the
  procedure demands, leaves the target's balances too low, without any error.
* `WindowIsComplete` (`window_incomplete`): `grpc_service.rs` 1386 promises all
  transfers since the cutoff, from LSM and WAL; a prepare in the WAL has no
  timestamp yet, and the filter (1426) drops it.

Other divergences that modelling met, which the models contain and no run is
spent on:

* The cron job (`lib.rs` 304) takes no lock, although `grpc_service.rs` 49 promises
  one backup at a time; cron runs overlap with RPC backups and with each other,
  and all of them share one temporary file.
* ImportCsvTransfers does not look whether the accounts are there (`grpc_service.rs`
  1157 assumes it). If transfers come first, those of accounts that exist are taken and
  the others refused; repeated in another order of the hash map, an amount has
  another id and is moved again. The same happens if a limit refuses a part of the
  file, or if an account was opened so shortly before the cutoff that an aggregated
  transfer would precede it. TLC has shown the first two with a third call, or with
  limits on the accounts; the last one the proof of `NothingCountsTwice` brought up.
  Nothing in the repository promises the contrary, so that property is stated for
  migrations at once and for transfers that repeat safely (`AggregatesFit`): onto
  accounts that are there, without limits, with room before the cutoff and
  single-phase rows before it.
* `process_running` is checked when FormatDataFile arrives (`grpc_service.rs` 653)
  and set after the process has been spawned: a call during start-up formats the
  file of a process that starts meanwhile (`manager.proto` 49).
* Nothing keeps synthetic timestamps below the cutoff (`plan.rs` 104, 300), and the
  check in PlanMigration that `docs/rotate-archive-impl-plan.md` 212 describes does
  not exist. `SyntheticBeforeCutoff` states what holds: they stay below it if the
  slot between the last active account and the cutoff is wide enough.
* WAL accounts override those of the LSM "since the WAL has more recent balances"
  (`grpc_service.rs` 1347): an account submitted again after the checkpoint, and
  refused by the cluster, replaces the one with a balance by one without.
  A transfer that is submitted again loses its timestamp likewise. This is why
  `NothingIsMissed` and `NothingIsInvented` speak of ids apart that are in the WAL.
* A table that was inserted and removed within one manifest block is live to the
  reader (`manifest.rs` 222 takes the first event of a block, the writer logs
  them in order): `Transient` in the properties.
* Tables come out of a hash map (`manifest.rs` 236), in another order for each call,
  so pages of two calls belong together only if there is one table: `OneOrder`.
* Because `skip()` swallows errors, a page that a checkpoint crosses may be empty with
  Ok although records follow; `PagesAddUp` is stated for calls that none crosses.
* PlanMigration reads accounts and later transfers, each with its own superblock.
* A request that the cluster has executed may end with ClientEvicted or
  ClientShutdown, although `lib.rs` of the client, 1653, lets one assume that
  nothing was processed. `AnswersAreTrue` speaks of answers with Ok only.
* If init fails, the client's box is not freed. A call with 2^25 events wraps
  `data_size` to 0 (1764) and reports Ok for events nobody ran.
* The paging stream of the documentation (`lib.rs` of the client, 167) compares a page
  with the filter's limit. With a limit above the cluster's cap on results every page
  is shorter than the limit, and the stream ends after the first, without an error.
* After the log forwarder has lagged once (`main.rs` 146) every log stream is silent
  until the node restarts; a line that is not UTF-8 ends the reader of its pipe;
  lines on their way are lost when the node ends.

## 4. Proofs

`ManagerNodeProofs`, for every set of handlers, tasks, patterns and buckets:

* `TypeCorrect`: `Spec => []TypeOK`.
* `Discipline`: `Spec => [](TypeOK /\ LockDiscipline)`.
* `BackupsSerialised`: `Spec => []RpcBackupsSerialised`.
* `SchedulerIsLatest`: `Spec => []IdleSchedulerIsLatest`.
* `CopiesAreWhole`: without a cron job, `Spec => []SuccessMeansGoodCopy`.
* `AckedStaysInForce`: with a configuration file and one configuration client,
  `Spec => []AckedConfigIsInForce`.

`RpcBackupsSerialised` is not inductive: two tasks could be about to lock. The
strengthening is `LockDiscipline`, in three parts: nobody is queued twice, a
handler is queued only while it has its guard and then is the holder, and a task
in its locked section is the holder. Two tasks in their sections are then the
same holder. The proof has one lemma on what enqueueing and releasing do to a
queue without duplicates, one on steps that leave the queue alone, and a lemma
per component with a step per action.

`IdleSchedulerIsLatest` speaks of the loop at rest. The strengthening
`InHandIsLatest` speaks of the loop while it starts a scheduler: the pattern in
its hands is the channel's value unless an unseen one waits. A handler reaches
the loop only by sending, which makes a value unseen (`HandlerSends`), and
backup runs do not touch it (`TasksLeaveScheduler`).

`SuccessMeansGoodCopy` speaks of a run that reports. The strengthening `CopyIsOwn`
follows the run from the truncation to the upload: the temporary file holds its
own bytes and no other's. It uses `Discipline`: whoever touches the file is in its
locked section, and so alone (`RunsKeepCopies`). The assumption `Jobs = {}` is
needed, for cron runs take no lock.

`AckedStaysInForce`: under `OneByOne` (the node has a
configuration file, and one handler makes all configuration calls)
`Spec => []AckedConfigIsInForce`, with any number of other handlers, backups and
cron runs beside it. The property speaks of moments at which no call is under way,
so the invariant `ConfigInv` has to say what is true in every stage of one: what a
call has written to memory and channel, and what the file and the
configuration in its hands are worth before the truncation, during the write and
after it. Deaths, restarts and failures leave the history alone, so the
invariant holds field by field: what is neither `unsaved` nor `unloaded` is as the
client was told. The exceptions are earned: a field gets into `unsaved` when its save
fails, or when the node dies with the file truncated, and leaves it with the next
save that goes through; it gets into `unloaded` when the node starts from a file
without it or fails to load, and leaves it when a call sets it. That these losses
happen is `ScheduleSurvivesRestarts`. TLC checked `ConfigInv` on the instance of
`node_config`.

Of `TimeBasedId`, in `ClientProofs`, for all widths, threads and clocks: `IdTypes`
(`IdSpec => []IdTypeOK`) and `Increasing` (`IdSpec => []IdsIncrease`). The strengthening `IssuedUpToGen` says that what was issued is at
most what the generator packs to; `SuccessorIsGreater` shows that every choice of
`NextStates` packs to more, with a lemma that a later millisecond outweighs every
random part.

`LogStreamProofs`, for all pipes, clients, lines and capacities: `TypeCorrect`,
`NothingIsLostSilently` (`Spec => []GapsAreAnnounced`) and `Ordered`
(`Spec => []PipesStayInOrder`). The invariant says that the second channel is the
beginning of the first one that the forwarder has passed (it never skips: it ends
when it lags), that the first channel has each pipe's lines in order, and that a
stream's numbers add up: where it began, what it was told was skipped and what it
got make up how far it is. The i-th line of a stream then has one place in
`sent`, and places grow with i, which gives both properties.

`ClientProofs`, for all threads, requests, events, filters and ledgers, states
every safety property of the `client` run:

* `MemoryReclaimedOnce`: `Spec => []ReclaimedOnce`. `MemoryInv` has three parts: the
  life cycle of the client tells how many threads are about to deinit it and how
  often the box was freed; a packet was freed exactly when it is no longer lent;
  and after the box nothing is lent, because only an open client submits.
* `TrueAnswers`: `Spec => []AnswersAreTrue`, if every batch has fewer than
  `SizeLimit` (2^25) events: longer ones wrap `data_size` (see Findings), and the
  code makes no check. `AnswersInv` says, request by request, that what was
  asked, what the cluster replied and what was delivered to the future fit
  together. It rests on two lemmas about data, `CreateAnswers` and
  `LookupAnswers`: merging the reply of the cluster's walk over a list gives back
  the outcome of every event, for every list and ledger.
* `NoGaps`, `AllIsPaged`, `NoPanics`, `ClientTypes`: the paging stream. `StreamInv`
  adds to `AnswersInv` what the stream has yielded (`Pages`: in order, each once,
  and everything between the ends of the range it has covered), that it still owes
  no more than what is beyond (`Promised`), and what the query on its way asks for
  (`Asking`: the range that follows, `Following`), because the answer comes steps
  later, after other threads have created transfers. The stream takes a page that is
  shorter than the filter's limit for the last one (`lib.rs` 167). That is right as
  long as the limit is at most the cluster's cap, which `PagingAssumption` therefore
  demands; with a larger limit a full reply is shorter than the limit, and the stream
  as documented ends early, without an error. TLC checked these invariants on the `client` run first.

`FileProofs`, for any number of prepares, checkpoints, blocks, slots and copies of
the superblock:

* `FileReadTypes`: `Spec => []TypeOK`. Its bounds are facts about the reader: the
  walk of the manifest never passes the check against a chain that is too long by
  mistake, and no read leaves its zone.
* `ReadableWhileSteady`: `Spec => []SteadyFilesAreReadable`.

`FileInv` is the replica's half. `Copying`: the copies not yet written are those of
the checkpoint before. `ManifestIsLinked`: the chain from a superblock's newest
block has the type and the length the superblock states. `LiveTablesAreKnown` and
`LiveTablesAreKept`: a table whose first mention in the last block that speaks of it
is no removal (what the reader takes for live, `LiveAt`) is one of the replica's, so
its blocks are not free; the second says it of the durable superblock while a
checkpoint is being written, the first of the one that comes. `ReaderInv` is the
reader's: what the walk has met is what the last blocks say (`SeenFrom`), the
iterator has live tables only, and all of that only while the superblock the call
began with is the newest, for then the replica writes free blocks only. The
largest step is `Checkpointing`: the new manifest block must leave out no removal
and must not make a removed table live. TLC checked `FileInv` and `ReaderInv` on
`file_reads` first.

`FileContentProofs`, under the same assumptions:

* `MigrationsMissNothing`: `Spec => []NothingIsMissed`.
* `MigrationsInventNothing`: `Spec => []NothingIsInvented`.
* `PagesShowEachRecordOnce`: `Spec => []PagesAddUp`.

`ContentInv` says what the file is worth. The replica's tables, and those that the
reader takes for live at the durable superblock, have exactly what was created up
to their checkpoint (`TablesHold`, `DurableHolds`: `Complete` and, where no table
came and went, `Sound`); `TablesAreLive` is the other half of `LiveTablesAreKnown`.
Of the WAL, `Wal` says that each zone has the last prepare that falls on a slot
(`Ring`) and that the ring is never more than a lap ahead of the durable checkpoint,
so that a prepare the newest superblock does not cover is in its slot, and its body
is no other's (`SlotHas`). `GatherInv` says where everything is that a migration
must find: an object of the checkpoint is in what has been read, in a value block
that is left, or in a table that is left, and these blocks last (`Lasts`) while the
newest superblock stays, whatever the replica writes; of the WAL, the slots before
the scan have been read. A superblock that is written lets go of all of it, which
is why both properties speak of steady calls. `Return` needs that merging by id
loses no id, and that a transfer submitted again hides the checkpointed one.
TLC checked `ContentInv` and `GatherInv` first, on the instance of `file_reads` without the calls for
pages.

Pages need more than that, because a client's calls are as many starts of the reader,
and what they add up to depends on the order in which each of them meets the
records. `Layout` says of the file that a table has one value block, that no object
is in it twice, and that no block both updates and removes a table. `Order` defines
what the calls may agree on: a sequence `W` of what is to be shown, each record once,
which is the content of the only table (`TableOf`; what the reader takes for live is
in `LiveIn` unless tables came and went) or what the WAL's slots give from the first to the
last (`Scan`). `PagesInv` holds the calls together: while the newest superblock is the
one that the first call began with and there is one order (`Held`), some `W` is such
an order, the pages so far are its beginning (`Given`), as long as the number of
full pages says, and what the call under way has met is a beginning of `W` that is
long enough for its page or is all of it (`Progress`). The replica's steps leave the order alone
(`OrderStays`), a step of the reader advances the progress, `PageIsCut` is the
arithmetic of offset and limit, and `AnsweredStays` is needed because the file goes on
after an answer: what the pages are measured against belongs to the superblock of the
answer, not to the newest one. The existential over `W` ranges over all
sequences, so TLC checks `PagesAddUp` itself and not `PagesInv`.

`MigrationProofs`, on top of `PlanProofs`, for every source that is a ledger, every
cutoff, batch size, channel capacity and set of calls, whatever overlaps, fails, dies or
is repeated:

* `SuccessMeansEverythingWasTaken`: `Spec => []SuccessMeansImported`. When a call has
  reported success, the target holds every account and every transfer of a plan of the
  call's part.
* `SuccessMeansAccountsAreThere`: after a success of a part with accounts, every account
  of the source is in the target. This is the first half of `Whole`, which
  `PromiseKept` checks on the instance; the other half are the balances, which
  `SuccessMeansBalancesAreThere` has.
* `SuccessIsReportedOnce`: two calls that import the same part are not both told that
  they succeeded, unless the source has no accounts. The plans of two imports of one
  CSV file may differ, so this needs that all of them create a transfer with some
  same id (`CsvPlansOverlap`).
* `BalancesAreNeverExceeded`: `Spec => []NothingCountsTwice`.
* `SuccessMeansBalancesAreThere`: when a call has reported success, every account has in
  the target the balances it has in the source, for a migration at once with a
  single-phase window and for transfers that repeat safely (`Moving`).

The last two assume that each source is what a cluster can have: `IsSource` and
`IsBounded`, which `SourcesGrow` and `SourcesBounded` prove of every history that
`MigrationPlanning` allows. A `Ledger` alone may hold balances that no transfers explain.

The code learns from the results of a batch that all of its events were taken, and the
model from the growth of the target (`Size`). Whether a batch was taken is therefore a
statement about a fold: `FoldExists` and `FoldsStepByStep` turn one into a sequence of ledgers,
one per event, and `AccountsTaken` and `TransfersTaken` show that a target which has
grown by as many objects as the batch has holds all of them and held none before. The
plan's side is data too: its four sequences are lists (`FlattenSeq`, deduplication,
sorting, ordering by age), the chunks of a list leave no object out (`ChunksCover`,
the arithmetic of the last short chunk), and no account is lost on the way
(`ByAge`, `Deduplicated`, `AccountsAtCutoff`, `LedgerPlans`).

The invariant `Inv` has four parts. `Shape`: the functions and records are what `Init`
makes them and the target is a ledger. `JobInv`: what the stage of a task says of its
batches, its request and its outcome; a request that is waited for is the first batch
left. `PlanInv`: a call that has not failed has a plan of its part, each batch of which
the target has taken or the call still misses; in `reporting` the first batch left is
already taken (`Missing`). `OnceInv`: of an object that every plan of a part holds, at
most one call that has not failed has got past it, and then the target holds it. The
last is what makes success unique: a batch that was taken grew the target by all its
objects, so none of them was there before. The steps that take no batch fall under
two lemmas (`QuietKeepsPlan`, `QuietKeepsOnce`); `InvTargetAnswers` has the rest.
`OnceInv` ranges over all values, so TLC checks the properties and not the invariant.

For the balances the invariant is `Kept`. `Accounted`: the accounts of the target have
moved what its transfers post, no more and no less. `Settled(p)`: all of these transfers
are of one plan `p`, and so is every batch that a call has sent or has left, unless it
is stale: its ids are all known, so that the target refuses it and the call ends
(`Harmless`, `Bound`). `Exclusive` and `Fresh` are the time before that, for transfers
imported alone: each call may have aggregated its CSV file in another order of the hash
map, but all plans give their first batch the same ids, and the target takes the one
that comes first, whole; from then on its plan is the `p` that keeps the others out.
This is where `AggregatesFit` is needed. That transfers of one plan, each once, post no
more than the source has (`FittingBounds`, `CountedOnce`) makes `NothingCountsTwice`; a
success adds all transfers of a plan, and the two bounds meet (`PlanIsMoved`). Both
quantify over all plans, so TLC checks the properties and not `Kept`.

`PlanProofs`, and `MigrationProofs` for CSV files, about `MigrationPlanning`: for every set of accounts, ledgers, limits, amounts and clock
steps, every history of the source and every cutoff:

* `PlansRestoreBalances`: `LedgerSpec => []PlanRestoresBalances`. An empty target takes
  the plan whole and ends with the source's balances.
* `BalancesAreRebuilt`: `LedgerSpec => []CutoffBalancesAreRebuilt`.
* `GenesisAccountsAgree`: `LedgerSpec => []GenesisAccountsMatch`.
* `SyntheticComesFirst`: `LedgerSpec => []SyntheticBeforeCutoff`.
* `CsvFilesRestoreBalances`: `LedgerSpec => []CsvRestoresBalances`. The accounts imported
  alone and then the plan of a CSV file give every account its balances, in every order
  in which the hash map may aggregate, with the file's times rounded up or down to any
  resolution. Without a cutoff the rows keep their times, so these must stay after
  those of the accounts (`AfterTheirAccounts`): the target refuses a transfer that
  does not postdate its accounts (`docs/rotate-archive-impl-plan.md` 183). With a cutoff
  the rows before it are aggregated and their times do not matter.
* `SourcesGrow`: `LedgerSpec => []IsSource(ledger, clock)`, which the five rest on.

The properties' own hypotheses (no pending balances, single-phase transfers in the
window or in the file, accounts without limits and times after them for a file, room
before the cutoff) are those of the code's documents and of Findings; the
theorems add none.

`IsSource` is the inductive invariant: what the record of an account says must be told
from the history, because the plan subtracts one from the other. `Tallied`: posted
balances are the sums of what transfers posted on that side (`Posted`, up to any
place of the history), pending balances the sum over the reservations that nothing has
resolved (`Held`); a post or a void takes one reservation out of that sum and no other.
`Solvent`: an account with a limit has debited no more than credited at *every* earlier
place, not only now, for a plan with a cutoff stops in the middle. `Timely` and
`Opposite`: objects come in the order of time and a transfer after its accounts.

Three arguments stand on it. From the plan's side, the synthetic transfers are taken
one after the other (`Rebuilt`, `RebuiltBy`: after the first b debits and a credits the
target has the balances of as many accounts and the genesis accounts the sums), and
none is refused: ids and timestamps are new and rising, and an account with a limit gets
its credits first. From the history's side, the window is a suffix of the transfers
(`Standing`, `StandingAt`): what is posted up to the cutoff and what the window moves
add up to the final balance (`WindowSums`), so the saturating subtraction of
`build_windowed` never saturates, and an account that is younger than the cutoff has
nothing posted before it. Then the window is replayed (`Follows`, `Reaches`): the target
has at each place what the source had there, so it refuses nothing that the source
took. `GenesisAccountsMatch` exchanges two sums: in every ledger the accounts have
debited in all what they have credited, at any place of the history (`LedgersMatch`).
How many synthetic transfers there are, at most two per account that has moved, and
where their timestamps start give `SyntheticComesFirst`.

A CSV file has other timestamps than the source (`RoundedUp`, `RoundedDown`, `RoundedInOrder`), so its
proof does not replay the window. `ListTaken` says what a ledger takes of single-phase
transfers between accounts without limits: all of them, if ids and timestamps are new
and rising (`Acceptable`), and its accounts move what is posted. `PairsLead` shows this
of the aggregated transfers: there are as many as pairs of accounts, they end just below the cutoff,
and they post what the rows before the cutoff post, because each row belongs
to one pair, in whatever order the pairs come (`AggregatedSums`, by one pair after the other:
`OnePairMore`). `WindowCopied` shows it of the rows that are left, which
`DedupeTimestamps` moves to later times and does not reorder (`AllLater`,
`SortedAlready`). `BothAccepted` and `BothSum` join the two: synthetic ids are below
those of applications, timestamps below the cutoff before those after it.

In the proofs `SumTo` is a sum, by its partial sums; `Total` and the other folds of
the model are reduced to it by `FoldsStepByStep`. TLC checked `IsSource` on the
instance of `migration_planning`.

Induction over data: the library's induction theorems take an operator, which the
provers here cannot instantiate. `Induction` states induction about sets instead
(`Least` and `Greatest`, by well-foundedness of the natural numbers; `Induction`, `Upwards`,
`Downwards`), so that a proof defines the set of numbers for which its claim holds
and cites the lemma. That is enough for recursive functions (`Recursion`) and for
the n-th element of a finite set (`RankIsOnto`).

Assumptions: the named ASSUMEs of the modules, which TLC evaluates in every run:
actors are distinct, `None` is not a value, widths, capacities, numbers of slots and
copies are positive (`FileAssumption`), a page has a record at least
(`LimitsAssumption`; the RPCs clamp the limit), a page of a stream has more than one
transfer (the documented stream asserts it) and no more than the cluster returns
(`PagingAssumption`), sources are ledgers
whose accounts have their own timestamps and cutoffs are naturals (`SourcesAssumption`), and the first object of a ledger is an account (`LedgerAssumption`:
TigerBeetle refuses transfers without accounts). Of a source cluster: accounts are a
finite set and none has credits_must_not_exceed_debits (`AccountsAssumption`); the
clock has passed as many nanoseconds since 1970 as there are genesis accounts, which
take timestamps from 1 on (`ClockAssumption`); applications' ids are above every
synthetic id, of which there are two per account or one per transfer of a CSV file, and no account has a genesis
account's id (`IdAssumption`). Beyond these, the hypotheses that
`CopiesAreWhole`, `AckedStaysInForce` and `TrueAnswers` state.

Only model-checked: the liveness properties and the refinement of
`MigrationPromise` as a temporal formula with its fairness (beyond the prover). Of what
the refinement says of a state, that a success is whole, the theorems about success
have all but one case: the balances when accounts and transfers are imported by separate
calls that overlap. Those transfers may come while accounts are missing, so no plan is
ever the only one; TLC checks that on the instance of `migration`.

## 5. Not modelled

* `apply_to_env` from several threads: undefined behaviour of the C library's
  environment.
* PlanMigration's and UploadCsvTransfers' caches; calls of one migration with
  different cutoffs; a source that was the target of an earlier migration.
* A panic of the import task; `import_accounts` and `import_transfers`, which the
  node does not call.
* The reader's byte layouts, offsets and capacity report; checksums, because the
  reader verifies none; a file that was never formatted.
* The client's generated bindings and its field-by-field conversions: declarations
  and copies without state or decisions. Of the conversions those with a choice,
  status and result codes, are modelled.
* Samples and examples: straight-line programs over the crates.

## 6. Plan

1. Done: `NodeState`, `RpcHandlers`, `BackupTasks`, `ProcessManager`,
   `ManagerNode`; `TimeBasedId`.
2. Done: `Ledger`, `BalancePlan`, `MigrationPlanning`.
3. Done: `Migration`, `MigrationPromise`.
4. Done: `DataFile`, `FileReader`, `FileReads`.
5. Done: `LogStream`, `LogStreamProofs`.
6. Done: `ClientRequests`, `AccountPaging`, `ClientProofs`; `FileProofs`,
   `FileContentProofs`.
7. Done: `AckedConfigIsInForce` for a single configuration client, by the stage of
   its call; `SuccessMeansGoodCopy` without cron.
8. Open: a source that was itself the target of a migration (its genesis accounts
   collide with the next ones); the caches; calls with different cutoffs; the pair
   of state and channel for racing configuration calls.
9. Done: `MigrationProofs`: success means that the target took every object; the plan
   of a data file restores every balance, and so does the plan of a CSV file.
   A target that takes batches of several calls counts nothing twice, and a success
   leaves no balance out. Open: the balances when accounts and transfers come by
   separate calls that overlap.
