------------------------------ MODULE FileReads ------------------------------
(***************************************************************************)
(* The node's RPCs that read the data file (grpc_service.rs): pages of     *)
(* accounts and transfers from the LSM or the WAL, and what a migration    *)
(* reads, read_all_accounts and read_all_transfers_since, while the        *)
(* replica of DataFile goes on writing.                                    *)
(*                                                                         *)
(* `began` and `answer` are histories: the file when the call came and     *)
(* when it was answered.  A call is steady if no superblock was written in *)
(* between.                                                                *)
(***************************************************************************)
EXTENDS FileReader

CONSTANTS Limits,  \* page sizes that clients ask for
          Cutoffs, \* cutoffs of migrations
          MaxPages \* bound on the pages of one client

\* A page has a record at least.
ASSUME LimitsAssumption == Limits \subseteq Nat \ {0}

VARIABLES began, answer

vars == <<fileVars, readerVars, began, answer>>

Newest == CHOOSE c \in ToSet(copies) : \A d \in ToSet(copies) : c.sequence >= d.sequence

NoAnswer == [status |-> "none", sb |-> NoSuperblock, commit |-> 0, steady |-> FALSE,
             pages |-> <<>>, last |-> 0, found |-> {}]

(***************************************************************************)
(* The calls.                                                              *)
(***************************************************************************)

Begin(c) ==
  /\ pc = "idle"
  /\ Open(c)
  /\ UNCHANGED fileVars

\* At least one record, at most MaxLimit.
ReadPage(source, tree, limit) ==
  /\ answer = NoAnswer
  /\ Begin([sources |-> <<source>>, tree |-> tree, page |-> 0, limit |-> limit, cutoff |-> 0])
  /\ began' = [sb |-> Newest, commit |-> commit, source |-> source]
  /\ UNCHANGED answer

\* A client goes on while its pages are full.
MorePages ==
  /\ answer.status = "ok" /\ call.limit # All
  /\ answer.last = call.limit /\ call.page + 1 < MaxPages

ReadNextPage ==
  /\ MorePages
  /\ Begin([call EXCEPT !.page = @ + 1])
  /\ UNCHANGED <<began, answer>>

ReadAccounts(limit) == ReadPage("lsm", "accounts", limit)
ReadTransfers(limit) == ReadPage("lsm", "transfers", limit)
ReadLsmAccounts(limit) == ReadPage("lsm", "accounts", limit)
ReadLsmTransfers(limit) == ReadPage("lsm", "transfers", limit)
ReadWalAccounts(limit) == ReadPage("wal", "accounts", limit)
ReadWalTransfers(limit) == ReadPage("wal", "transfers", limit)

ReadAll(tree, cutoff) ==
  /\ answer = NoAnswer
  /\ Begin([sources |-> <<"lsm", "wal">>, tree |-> tree, page |-> 0, limit |-> All,
            cutoff |-> cutoff])
  /\ began' = [sb |-> Newest, commit |-> commit, source |-> "both"]
  /\ UNCHANGED answer

ReadAllAccounts == ReadAll("accounts", 0)
ReadAllTransfersSince == \E c \in Cutoffs : ReadAll("transfers", c)

(***************************************************************************)
(* The answers.                                                            *)
(***************************************************************************)

\* Mutant: every page starts one record early.
PageOfOverlapping(records) ==
  LET upto == (call.page + 1) * call.limit
  IN  SubSeq(records, IF call.page = 0 THEN 1 ELSE call.page * call.limit,
             IF upto < Len(records) THEN upto ELSE Len(records))

PageOf(records) ==
  LET upto == (call.page + 1) * call.limit
  IN  SubSeq(records, call.page * call.limit + 1,
             IF upto < Len(records) THEN upto ELSE Len(records))

\* Records with the same id replace each other, those of the WAL come last.
ById(records) ==
  {records[i] : i \in {j \in DOMAIN records :
                        \A k \in (j + 1)..Len(records) : records[k].id # records[j].id}}

MergedAccounts == IF out.wal = <<>> THEN ToSet(out.lsm) ELSE ById(out.lsm \o out.wal)

MergedTransfers == {t \in ById(out.lsm \o out.wal) : t.ts >= call.cutoff}

Return ==
  /\ pc \in {"ready", "failed"}
  /\ LET browse == call.limit # All
         page == PageOf(IF began.source = "lsm" THEN out.lsm ELSE out.wal)
         ok == pc = "ready"
     IN  answer' =
           [status |-> IF ok THEN "ok" ELSE "failed",
            sb |-> Newest, commit |-> commit,
            steady |-> Newest = began.sb,
            pages |-> IF ok /\ browse THEN answer.pages \o page ELSE answer.pages,
            last  |-> IF ok /\ browse THEN Len(page) ELSE 0,
            found |-> IF ~ok \/ browse THEN {}
                      ELSE IF call.tree = "accounts" THEN MergedAccounts ELSE MergedTransfers]
  /\ pc' = "idle" /\ out' = Nothing
  /\ UNCHANGED <<fileVars, call, sb, copy, walk, iter, slot, began>>

Init ==
  /\ FileInit /\ ReaderInit
  /\ began = [sb |-> Formatted, commit |-> 0, source |-> "none"]
  /\ answer = NoAnswer

\* The last answer ends a behaviour.
Over == pc = "idle" /\ answer # NoAnswer /\ ~MorePages

Next ==
  \/ ~Over /\ Replica /\ UNCHANGED <<readerVars, began, answer>>
  \/ Read /\ UNCHANGED <<fileVars, began, answer>>
  \/ \E limit \in Limits :
       \/ ReadAccounts(limit) \/ ReadTransfers(limit)
       \/ ReadLsmAccounts(limit) \/ ReadLsmTransfers(limit)
       \/ ReadWalAccounts(limit) \/ ReadWalTransfers(limit)
  \/ ReadNextPage
  \/ ReadAllAccounts \/ ReadAllTransfersSince
  \/ Return

Spec == Init /\ [][Next]_vars

(***************************************************************************)
(* What the file holds.                                                    *)
(***************************************************************************)

\* Superblock s has the first s.count blocks of the manifest.
EntriesIn(i) == grid[manifest[i]].entries

\* Block i speaks of table a, in an entry after the j-th.
SpeaksAfter(i, j, a, tree) ==
  \E k \in DOMAIN EntriesIn(i) : k > j /\ EntriesIn(i)[k].tree = tree /\ EntriesIn(i)[k].address = a

\* Tables whose last event is not a removal.
LiveIn(s, tree) ==
  {a \in 1..Blocks : \E i \in 1..s.count : \E j \in DOMAIN EntriesIn(i) :
     /\ EntriesIn(i)[j].tree = tree /\ EntriesIn(i)[j].address = a
     /\ EntriesIn(i)[j].event # "remove" /\ ~SpeaksAfter(i, j, a, tree)
     /\ \A m \in (i + 1)..s.count : ~SpeaksAfter(m, 0, a, tree)}

\* A table of the tree came and went within one manifest block.
Transient(s, tree) ==
  \E i \in 1..s.count : \E x, y \in ToSet(EntriesIn(i)) :
    /\ x.tree = tree /\ y.tree = tree /\ x.address = y.address
    /\ x.event = "insert" /\ y.event = "remove"

Answered == pc = "idle" /\ answer.status = "ok" /\ answer.steady
Whole == Answered /\ call.limit = All

Checkpointed == Objects(call.tree, 0, answer.sb.checkpoint)

\* Ids that were submitted after the checkpoint.
InWal(upto) ==
  {log[n].id : n \in {m \in (answer.sb.checkpoint + 1)..upto : log[m].kind = call.tree}}

(***************************************************************************)
(* Properties.                                                             *)
(***************************************************************************)

\* The types of the reader's state; the replica's are external.
TypeOK ==
  /\ pc \in {"idle", "superblock", "manifest", "lsm", "header", "body", "ready", "failed"}
  /\ sb.sequence \in Nat /\ copy \in 1..Copies
  /\ walk.address \in 0..Blocks /\ walk.visited \in 0..(MaxCheckpoints + 1)
  /\ iter.tables \subseteq 1..Blocks /\ iter.values \subseteq 1..Blocks
  /\ slot \in 0..SlotCount
  /\ answer.status \in {"none", "ok", "failed"}

\* A migration reads every account that was committed when the call came, from
\* the LSM or from the WAL, and every checkpointed transfer of its window
\* whose id was not submitted again, although the replica writes on: no
\* account falls between the two reads as long as no checkpoint does.
NothingIsMissed ==
  Whole =>
    IF call.tree = "accounts"
    THEN \A n \in Created("accounts", began.commit) : \E r \in answer.found : r.id = log[n].id
    ELSE \A o \in Checkpointed :
           o.ts >= call.cutoff /\ o.id \notin InWal(answer.commit) => o \in answer.found

\* What a migration reads is the checkpoint's object, with its balance, or
\* what was submitted to the WAL after the checkpoint, never a version that
\* compaction has replaced nor bytes of a block that was given to another
\* table; and no object comes twice.  A table that came and went within one
\* manifest block is the exception.
NothingIsInvented ==
  Whole /\ ~Transient(answer.sb, call.tree) =>
    /\ \A r \in answer.found :
         \/ r \in Checkpointed /\ r.id \notin InWal(began.commit)
         \/ \E op \in (answer.sb.checkpoint + 1)..answer.commit : r = Submitted(op)
    /\ \A r, s \in answer.found : r.id = s.id => r = s

\* A read fails only if a superblock was written meanwhile, or if a table that
\* came and went within one manifest block has lost its blocks; not because
\* there is no checkpoint yet.
SteadyFilesAreReadable ==
  pc = "idle" /\ answer.steady /\ ~Transient(answer.sb, call.tree) =>
    answer.status # "failed"

\* Pages that are read one after the other show each record once and, when a
\* short page ends them, all of them, provided that there is one order: that
\* of the WAL's slots, while nothing is committed, or that of one table.
OneOrder ==
  IF began.source = "wal" THEN began.commit = answer.commit
  ELSE Cardinality(LiveIn(answer.sb, call.tree)) <= 1 /\ ~Transient(answer.sb, call.tree)
Shown == IF began.source = "lsm" THEN Checkpointed
         ELSE {Submitted(op) : op \in {n \in (answer.sb.checkpoint + 1)..answer.commit :
                                         log[n].kind = call.tree}}
PagesAddUp ==
  Answered /\ call.limit # All /\ OneOrder =>
    /\ ToSet(answer.pages) \subseteq Shown
    /\ began.source = "lsm" => IsInjective(answer.pages)
    /\ answer.last < call.limit => Shown \subseteq ToSet(answer.pages)

\* The transfers of a migration's window are those of the source ledger.
WindowIsComplete ==
  Whole /\ call.tree = "transfers" /\ began.commit = answer.commit =>
    {o \in Objects("transfers", 0, answer.commit) : o.ts >= call.cutoff} \subseteq answer.found

=============================================================================
