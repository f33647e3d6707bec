----------------------------- MODULE Migration -----------------------------
(***************************************************************************)
(* ExecuteMigration and ImportCsvTransfers: gRPC calls that each plan an   *)
(* import, hand it to a spawned task, and stream its progress to a client. *)
(*                                                                         *)
(* Calls may overlap, and are repeated by whoever lost one.  The target    *)
(* cluster applies what reaches it, also after the node that sent it has   *)
(* died.  The source has been stopped (its ledger is fixed), and the       *)
(* cutoff stays the same: both are the procedure's.  A migration either    *)
(* moves everything at once (part "all"), or "accounts" first and then a   *)
(* CSV file of "transfers", or transfers only, to accounts that are there. *)
(***************************************************************************)
EXTENDS BalancePlan

CONSTANTS
    Calls,             \* gRPC calls
    Sources,           \* ledgers of the source cluster
    Cutoffs,           \* cutoffs
    BatchSize,         \* BATCH_SIZE
    ProgressCapacity,  \* capacity of a progress channel
    None

ASSUME SizeAssumption ==
    BatchSize \in Nat \ {0} /\ ProgressCapacity \in Nat \ {0}
ASSUME NoneAssumption == None \notin {"ok", "failed", "idle"}
ASSUME SourcesAssumption == (\A L \in Sources : IsLedger(L)) /\ Cutoffs \subseteq Nat

VARIABLES
    source, cutoff, parts, \* what is migrated, and in which parts: fixed
    target,    \* the ledger of the target cluster
    job,       \* a call's part, where its task is, and the batches left to it
    request,   \* the batch of a call on its way to the target, or None
    progress,  \* how many updates are in the call's progress channel
    outcome,   \* the oneshot channel: None, "ok", or "failed"
    client     \* "idle", "reading", "gone", or what it was told

fixed == <<source, cutoff, parts>>
vars == <<source, cutoff, parts, target, job, request, progress, outcome, client>>

-----------------------------------------------------------------------------
(***************************************************************************)
(* Batches of the four phases, in order.                                   *)
(***************************************************************************)

Chunks(kind, objects) ==
    [i \in 1..((Len(objects) + BatchSize - 1) \div BatchSize) |->
        [kind |-> kind,
         objects |-> SubSeq(objects, (i - 1) * BatchSize + 1,
                            Min({i * BatchSize, Len(objects)}))]]

Batches(plan) ==
    Chunks("accounts", plan.genesis) \o Chunks("accounts", plan.regular)
    \o Chunks("transfers", plan.synthetic) \o Chunks("transfers", plan.windowed)

Applied(batch) ==
    IF batch.kind = "accounts" THEN CreateAccounts(target, batch.objects)
                               ELSE CreateTransfers(target, batch.objects)

-----------------------------------------------------------------------------

\* Nothing, or, if only transfers are left to import, the accounts.
Prepared ==
    IF parts = {"transfers"}
    THEN CreateAccounts(EmptyLedger, AccountsOnly(PlanOf(source, cutoff)).regular)
    ELSE EmptyLedger

Init ==
    /\ source \in Sources
    /\ cutoff \in Cutoffs
    /\ parts \in {{"all"}, {"accounts", "transfers"}, {"transfers"}}
    /\ target = Prepared
    /\ job = [c \in Calls |-> [part |-> None, stage |-> "new", todo |-> <<>>]]
    /\ request = [c \in Calls |-> None]
    /\ progress = [c \in Calls |-> 0]
    /\ outcome = [c \in Calls |-> None]
    /\ client = [c \in Calls |-> "idle"]

At(c, stage) == job[c].stage = stage
Goto(c, stage) == job' = [job EXCEPT ![c].stage = stage]

Plans(part) ==
    CASE part = "all"       -> {PlanOf(source, cutoff)}
      [] part = "accounts"  -> {AccountsOnly(PlanOf(source, cutoff))}
      [] part = "transfers" -> FromCsv(source.transfers, cutoff)

\* A ledger with pending balances is refused before anything is spawned.
Refuse(c) ==
    /\ client[c] = "idle"
    /\ ~IsSafe(source)
    /\ \E part \in parts \ {"transfers"} :
          job' = [job EXCEPT ![c].part = part, ![c].stage = "ended"]
    /\ client' = [client EXCEPT ![c] = "failed"]
    /\ UNCHANGED <<fixed, target, request, progress, outcome>>

\* The plan is made, the channels are created, the task is spawned.  A CSV
\* file holds transfers, and is not planned against the source.
StartImport(c) ==
    /\ client[c] = "idle"
    /\ \E part \in parts :
          /\ IF part = "transfers" THEN source.transfers # <<>> ELSE IsSafe(source)
          /\ \E plan \in Plans(part) :
                job' = [job EXCEPT ![c] = [part |-> part, stage |-> "connecting",
                                           todo |-> Batches(plan)]]
    /\ client' = [client EXCEPT ![c] = "reading"]
    /\ UNCHANGED <<fixed, target, request, progress, outcome>>

-----------------------------------------------------------------------------
(***************************************************************************)
(* The spawned task: Importer::connect and import_all_with_progress.       *)
(***************************************************************************)

\* The task returns: its end of the progress channel is dropped, and the
\* outcome sent.
EndJob(c, result) ==
    /\ Goto(c, "ended")
    /\ outcome' = [outcome EXCEPT ![c] = result]

Connect(c) ==
    /\ At(c, "connecting")
    /\ \/ Goto(c, "ready") /\ UNCHANGED outcome
       \/ EndJob(c, "failed")
    /\ UNCHANGED <<fixed, target, request, progress, client>>

SubmitBatch(c) ==
    /\ At(c, "ready")
    /\ job[c].todo # <<>>
    /\ request' = [request EXCEPT ![c] = Head(job[c].todo)]
    /\ Goto(c, "waiting")
    /\ UNCHANGED <<fixed, target, progress, outcome, client>>

\* Mutant: results of the batch are not looked at.
TargetAnswersAlwaysOk(c) ==
    /\ request[c] # None
    /\ target' = Applied(request[c])
    /\ request' = [request EXCEPT ![c] = None]
    /\ IF At(c, "waiting")
       THEN Goto(c, "reporting") /\ UNCHANGED outcome
       ELSE UNCHANGED <<job, outcome>>
    /\ UNCHANGED <<fixed, progress, client>>

\* The target applies a batch.  If the task still waits for it, it goes on to
\* report progress, or ends because of the first event that was refused.
TargetAnswers(c) ==
    /\ request[c] # None
    /\ target' = Applied(request[c])
    /\ request' = [request EXCEPT ![c] = None]
    /\ IF At(c, "waiting")
       THEN IF Size(target') = Size(target) + Len(request[c].objects)
            THEN Goto(c, "reporting") /\ UNCHANGED outcome
            ELSE EndJob(c, "failed")
       ELSE UNCHANGED <<job, outcome>>
    /\ UNCHANGED <<fixed, progress, client>>

\* The client library gives up (evicted, shut down): the batch may or may not
\* reach the target.
RequestFails(c) ==
    /\ At(c, "waiting")
    /\ EndJob(c, "failed")
    /\ UNCHANGED <<fixed, target, request, progress, client>>

RequestLost(c) ==
    /\ request[c] # None
    /\ ~At(c, "waiting")
    /\ request' = [request EXCEPT ![c] = None]
    /\ UNCHANGED <<fixed, target, job, progress, outcome, client>>

\* Mutant: waits for room in the channel also when nobody reads it.
SendProgressOrWait(c) ==
    /\ At(c, "reporting")
    /\ progress[c] < ProgressCapacity
    /\ progress' = [progress EXCEPT ![c] = @ + 1]
    /\ job' = [job EXCEPT ![c].stage = "ready", ![c].todo = Tail(job[c].todo)]
    /\ UNCHANGED <<fixed, target, request, outcome, client>>

\* Waits for room in the channel; without a receiver, sending fails at once
\* and that is ignored.
SendProgress(c) ==
    /\ At(c, "reporting")
    /\ IF client[c] = "reading"
       THEN /\ progress[c] < ProgressCapacity
            /\ progress' = [progress EXCEPT ![c] = @ + 1]
       ELSE UNCHANGED progress
    /\ job' = [job EXCEPT ![c].stage = "ready", ![c].todo = Tail(job[c].todo)]
    /\ UNCHANGED <<fixed, target, request, outcome, client>>

AllImported(c) ==
    /\ At(c, "ready")
    /\ job[c].todo = <<>>
    /\ EndJob(c, "ok")
    /\ UNCHANGED <<fixed, target, request, progress, client>>

JobStep(c) == Connect(c) \/ SubmitBatch(c) \/ SendProgress(c) \/ AllImported(c)

-----------------------------------------------------------------------------
(***************************************************************************)
(* The stream, the client behind it, and the node.                         *)
(***************************************************************************)

ReadProgress(c) ==
    /\ client[c] = "reading"
    /\ progress[c] > 0
    /\ progress' = [progress EXCEPT ![c] = @ - 1]
    /\ UNCHANGED <<fixed, target, job, request, outcome, client>>

\* The last item: the channel is empty and closed, and the outcome is there.
ReadOutcome(c) ==
    /\ client[c] = "reading"
    /\ progress[c] = 0
    /\ At(c, "ended")
    /\ client' = [client EXCEPT ![c] = outcome[c]]
    /\ UNCHANGED <<fixed, target, job, request, progress, outcome>>

\* The client goes away; the stream is dropped with the receiver in it.
Leave(c) ==
    /\ client[c] = "reading"
    /\ client' = [client EXCEPT ![c] = "gone"]
    /\ UNCHANGED <<fixed, target, job, request, progress, outcome>>

\* The tasks and streams of the node are gone; requests are still on their way.
NodeDies ==
    /\ \E c \in Calls : job[c].stage \notin {"new", "ended", "dead"} \/ client[c] = "reading"
    /\ job' = [c \in Calls |-> IF job[c].stage \in {"new", "ended"} THEN job[c]
                               ELSE [job[c] EXCEPT !.stage = "dead"]]
    /\ client' = [c \in Calls |-> IF client[c] = "reading" THEN "gone" ELSE client[c]]
    /\ UNCHANGED <<fixed, target, request, progress, outcome>>

Next ==
    \/ \E c \in Calls :
          \/ Refuse(c) \/ StartImport(c) \/ JobStep(c)
          \/ TargetAnswers(c) \/ RequestFails(c) \/ RequestLost(c)
          \/ ReadProgress(c) \/ ReadOutcome(c) \/ Leave(c)
    \/ NodeDies

Spec == Init /\ [][Next]_vars

\* The runtime polls tasks, the target answers, and a client that stays reads.
Fairness ==
    \A c \in Calls :
        /\ WF_vars(JobStep(c))
        /\ WF_vars(TargetAnswers(c))
        /\ WF_vars(ReadProgress(c) \/ ReadOutcome(c))

LiveSpec == Spec /\ Fairness

-----------------------------------------------------------------------------
(***************************************************************************)
(* Properties.                                                             *)
(***************************************************************************)

HasBalances ==
    \A id \in DOMAIN source.accounts : HasBalance(source.accounts[id]) =>
        /\ id \in DOMAIN target.accounts
        /\ target.accounts[id].dr = source.accounts[id].dr
        /\ target.accounts[id].cr = source.accounts[id].cr

AccountsAreThere == DOMAIN source.accounts \subseteq DOMAIN target.accounts

Whole(part) ==
    /\ part # "transfers" => AccountsAreThere
    /\ part # "accounts" => HasBalances

Untouched(part) ==
    IF part = "transfers" THEN target.transfers = <<>> ELSE target = EmptyLedger

\* Transfers alone repeat safely: the accounts take all that stand for those
\* before the cutoff, and what these moved is what they posted.
AggregatesFit ==
    /\ \A a \in AccountsOf(source) : a.limit = "none"
    /\ cutoff > 0 => After(cutoff - Len(source.transfers), AccountTs(source))
    /\ \A t \in Range(source.transfers) : t.ts < cutoff => t.kind = "single"

\* Whatever overlaps, dies, is lost or repeated, no account of the target is
\* ever moved by more than it was in the source.  Not so if transfers are
\* imported before their accounts are there, accounts have limits, or were
\* opened right before the cutoff: some transfers are then refused and others
\* taken, and when that is repeated in another order of the hash map, an amount
\* comes again with another id.
NothingCountsTwice ==
    parts = {"all"} \/ (parts = {"transfers"} /\ AggregatesFit) =>
    \A id \in DOMAIN source.accounts \cap DOMAIN target.accounts :
        /\ target.accounts[id].dr <= source.accounts[id].dr
        /\ target.accounts[id].cr <= source.accounts[id].cr

\* Success means that the target holds every object of a plan of the call's
\* part: no phase, batch or object of a batch was skipped or refused.
IsIn(plan) ==
    /\ {x.id : x \in Range(plan.genesis) \cup Range(plan.regular)} \subseteq DOMAIN target.accounts
    /\ Range(plan.synthetic) \cup Range(plan.windowed) \subseteq Range(target.transfers)
SuccessMeansImported ==
    \A c \in Calls : client[c] = "ok" => \E plan \in Plans(job[c].part) : IsIn(plan)

\* A task ends, whether its client reads, leaves, or is slow, unless the node
\* dies; and a client that stays is told.
JobsEnd ==
    \A c \in Calls :
        /\ At(c, "connecting") ~> job[c].stage \in {"ended", "dead"}
        /\ client[c] = "reading" ~> client[c] # "reading"

\* The calls keep the promise: a part is whole when success is reported, and
\* success is reported once.
Promise == INSTANCE MigrationPromise WITH
    Parts  <- {"all", "accounts", "transfers"},
    part   <- [p \in {"all", "accounts", "transfers"} |->
                  IF p \notin parts \/ Untouched(p) THEN "none"
                  ELSE IF Whole(p) THEN "whole" ELSE "partial"],
    answer <- [c \in Calls |->
                  IF client[c] \in {"ok", "failed"} THEN <<client[c], job[c].part>>
                  ELSE None]
PromiseKept == Promise!Spec
=============================================================================
