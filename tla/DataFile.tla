------------------------------ MODULE DataFile ------------------------------
(***************************************************************************)
(* A TigerBeetle data file as crates/reader finds it on disk, and the      *)
(* replica that writes it (external).                                      *)
(*                                                                         *)
(* What the replica does is modelled as far as the reader and its          *)
(* documentation speak of it: prepares are logged in a ring of slots, the  *)
(* body first and then the header; a checkpoint writes tables and one      *)
(* manifest block into free grid blocks and then the superblock, copy by   *)
(* copy; a slot is reused once its prepare is checkpointed, a grid block   *)
(* once no durable checkpoint needs it.                                    *)
(*                                                                         *)
(* A prepare has one event.  An object's timestamp is the number of the    *)
(* prepare that created it, an account's value its balance, a transfer     *)
(* moves 1 on `account`.                                                   *)
(***************************************************************************)
EXTENDS Naturals, Sequences, FiniteSets, SequencesExt

CONSTANTS AccountIds, TransferIds,
          Copies,         \* copies of the superblock (4)
          SlotCount,      \* slots of the WAL (1024)
          Blocks,         \* blocks of the grid
          MaxOps,         \* bound on prepares
          MaxCheckpoints  \* bound on checkpoints

ASSUME FileAssumption ==
  /\ {Copies, SlotCount, Blocks, MaxOps, MaxCheckpoints} \subseteq Nat
  /\ Copies > 0 /\ SlotCount > 0

VARIABLES log,      \* prepares in order
          commit,   \* how many of them are committed
          copies,   \* the superblock's copies
          grid,     \* address -> block
          headers,  \* slot -> number of the prepare in the header zone, or 0
          bodies,   \* slot -> number of the prepare in the body zone, or 0
          writing,  \* the superblock of the latest checkpoint
          copied,   \* how many of its copies are written
          manifest, \* addresses of its manifest blocks, the oldest first
          tables,   \* its live tables
          free      \* grid blocks that may be written

fileVars == <<log, commit, copies, grid, headers, bodies, writing, copied, manifest, tables, free>>

Prepares == [kind : {"accounts"}, id : AccountIds, account : {0}]
            \cup [kind : {"transfers"}, id : TransferIds, account : AccountIds]

SlotOf(op) == op % SlotCount
Durable == copies[Copies]

(***************************************************************************)
(* The ledger.  An id can be used once.                                    *)
(***************************************************************************)

Succeeds(n) ==
  /\ \A m \in 1..(n - 1) : log[m].kind = log[n].kind => log[m].id # log[n].id
  /\ log[n].kind = "transfers" =>
       \E m \in 1..(n - 1) : log[m].kind = "accounts" /\ log[m].id = log[n].account

Created(tree, upto) == {n \in 1..upto : log[n].kind = tree /\ Succeeds(n)}

Balance(id, upto) == Cardinality({n \in Created("transfers", upto) : log[n].account = id})

\* The object that prepare n created, as of a later prepare.
Object(n, upto) ==
  [kind |-> log[n].kind, id |-> log[n].id, ts |-> n,
   value |-> IF log[n].kind = "accounts" THEN Balance(log[n].id, upto) ELSE 1]

Objects(tree, from, upto) == {Object(n, upto) : n \in Created(tree, upto) \ 1..from}

(***************************************************************************)
(* The write-ahead log.                                                    *)
(***************************************************************************)

\* A body overwrites a prepare that a durable checkpoint has made obsolete.
Prepare ==
  /\ commit = Len(log) /\ Len(log) < MaxOps
  /\ LET op == Len(log) + 1
     IN  /\ op <= Durable.checkpoint + SlotCount
         /\ \E p \in Prepares : log' = Append(log, p)
         /\ bodies' = [bodies EXCEPT ![SlotOf(op)] = op]
  /\ UNCHANGED <<commit, copies, grid, headers, writing, copied, manifest, tables, free>>

Commit ==
  /\ commit < Len(log)
  /\ commit' = Len(log)
  /\ headers' = [headers EXCEPT ![SlotOf(Len(log))] = Len(log)]
  /\ UNCHANGED <<log, copies, grid, bodies, writing, copied, manifest, tables, free>>

(***************************************************************************)
(* Checkpoints.                                                            *)
(***************************************************************************)

Live(tree) == {t \in tables : t.tree = tree}

\* An account's balance is a part of it, so its tables are compacted into a
\* new one.  New transfers get a table; the older ones stay where they are,
\* move to another level, or are compacted with the new ones.
NewTables(how) ==
  LET since == Durable.checkpoint
      table(tree, from, upto) ==
        LET ops == Created(tree, upto) \ 1..from
        IN  IF ops = {} THEN <<>> ELSE <<[tree |-> tree, ops |-> ops, upto |-> upto]>>
  IN  (IF how = "transient" THEN table("accounts", 0, since + 1) ELSE <<>>)
      \o table("accounts", 0, commit)
      \o table("transfers", IF how = "compact" THEN 0 ELSE since, commit)

Ascending(S) ==
  [i \in 1..Cardinality(S) |-> CHOOSE x \in S : Cardinality({y \in S : y < x}) = i - 1]

\* A table's objects by age.
TableObjects(t) ==
  LET ops == Ascending(t.ops) IN [i \in DOMAIN ops |-> Object(ops[i], t.upto)]

\* The n-th table of a checkpoint takes two of the blocks at hand.
Placed(news, at) ==
  [i \in DOMAIN news |->
     [tree |-> news[i].tree, index |-> at[2 * i], value |-> at[2 * i + 1]]]

Entry(t, event) == [address |-> t.index, tree |-> t.tree, event |-> event]
Entries(S, event) ==
  LET s == SetToSeq(S) IN [i \in DOMAIN s |-> Entry(s[i], event)]

Moved(how) == IF how = "move" THEN Live("transfers") ELSE {}

\* A table may be inserted and compacted away within one checkpoint; then its
\* two events are in one manifest block.
Gone(how, placed) ==
  (IF how = "transient" THEN {placed[1]} ELSE {})
  \cup Live("accounts") \cup (IF how = "compact" THEN Live("transfers") ELSE {})

ManifestBlock(how, placed) ==
  [type |-> "manifest", previous |-> Durable.newest,
   entries |-> [i \in DOMAIN placed |-> Entry(placed[i], "insert")]
               \o Entries(Moved(how), "update") \o Entries(Gone(how, placed), "remove")]

TableBlock(a, news, placed) ==
  IF \E i \in DOMAIN placed : placed[i].index = a
  THEN [type |-> "index",
        values |-> {placed[i].value : i \in {j \in DOMAIN placed : placed[j].index = a}}]
  ELSE [type |-> "value",
        objects |-> TableObjects(news[CHOOSE i \in DOMAIN placed : placed[i].value = a])]

Checkpoint(how) ==
  LET news == NewTables(how)
      at == Ascending(free)   \* blocks are taken from the lowest address on
      placed == Placed(news, at)
      used == {at[i] : i \in 1..(2 * Len(news) + 1)}
  IN  /\ 2 * Len(news) + 1 <= Cardinality(free)
      /\ grid' = [a \in DOMAIN grid |->
                    CASE a = at[1] -> ManifestBlock(how, placed)
                      [] a \in used \ {at[1]} -> TableBlock(a, news, placed)
                      [] OTHER -> grid[a]]
      /\ manifest' = Append(manifest, at[1])
      /\ tables' = (tables \cup ToSet(placed)) \ Gone(how, placed)
      /\ free' = free \ used
      /\ writing' = [sequence |-> Durable.sequence + 1, newest |-> at[1],
                     count |-> Durable.count + 1, checkpoint |-> commit]

StartCheckpoint ==
  /\ copied = Copies
  /\ commit > Durable.checkpoint /\ Durable.sequence <= MaxCheckpoints
  /\ Created("accounts", commit) # {}
  /\ \E how \in {"keep", "move", "compact", "transient"} :
       /\ how \in {"move", "compact"} => Live("transfers") # {}
       /\ how = "transient" =>
            commit > Durable.checkpoint + 1 /\ Created("accounts", Durable.checkpoint + 1) # {}
       /\ Checkpoint(how)
  /\ copied' = 0
  /\ UNCHANGED <<log, commit, copies, headers, bodies>>

\* Blocks that the new checkpoint does not need are free once it is durable.
InUse == ToSet(manifest) \cup {t.index : t \in tables} \cup {t.value : t \in tables}

WriteCopy ==
  /\ copied < Copies
  /\ copies' = [copies EXCEPT ![copied + 1] = writing]
  /\ copied' = copied + 1
  /\ free' = IF copied' = Copies THEN (1..Blocks) \ InUse ELSE free
  /\ UNCHANGED <<log, commit, grid, headers, bodies, writing, manifest, tables>>

Formatted == [sequence |-> 1, newest |-> 0, count |-> 0, checkpoint |-> 0]

FileInit ==
  /\ log = <<>> /\ commit = 0
  /\ copies = [c \in 1..Copies |-> Formatted]
  /\ grid = [a \in 1..Blocks |-> [type |-> "free"]]
  /\ headers = [s \in 0..(SlotCount - 1) |-> 0]
  /\ bodies = headers
  /\ writing = Formatted /\ copied = Copies
  /\ manifest = <<>> /\ tables = {} /\ free = 1..Blocks

Replica == Prepare \/ Commit \/ StartCheckpoint \/ WriteCopy

=============================================================================
