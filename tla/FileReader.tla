----------------------------- MODULE FileReader -----------------------------
(***************************************************************************)
(* crates/reader: DataFileReader reads the file of a replica that may be   *)
(* writing it, one seek and read after the other.  No checksum is looked   *)
(* at; what a read finds is told by its block type only.                   *)
(*                                                                         *)
(* A call reads the objects of one tree from the LSM, from the WAL or from *)
(* both, one after the other, as the node's RPCs do.  `want` is where      *)
(* take() stops an iterator.                                               *)
(***************************************************************************)
EXTENDS DataFile

VARIABLES call,   \* what is read: [sources, tree, page, limit, cutoff]
          pc,     \* the next read
          sb,     \* the best superblock so far
          copy,   \* the next copy to read
          walk,   \* the manifest walk
          iter,   \* the tables and value blocks that are left
          slot,   \* the next WAL slot
          out     \* source -> what its iterator has yielded

readerVars == <<call, pc, sb, copy, walk, iter, slot, out>>

NoSuperblock == [sequence |-> 0, newest |-> 0, count |-> 0, checkpoint |-> 0]
NoWalk == [address |-> 0, visited |-> 0, seen |-> {}]
NoIter == [tables |-> {}, values |-> {}]
Nothing == [lsm |-> <<>>, wal |-> <<>>]

\* The limit of a call that reads everything; the pages' limits are positive.
All == 0
Want == (call.page + 1) * call.limit
More(records) == call.limit = All \/ Len(records) < Want

Open(c) ==
  /\ call' = c
  /\ pc' = "superblock" /\ sb' = NoSuperblock /\ copy' = 1
  /\ walk' = NoWalk /\ iter' = NoIter /\ slot' = 0 /\ out' = Nothing

\* After the last record of one source the call goes on with the next one.
NextSource ==
  IF Len(call.sources) = 1
  THEN pc' = "ready" /\ UNCHANGED call
  ELSE pc' = "superblock" /\ call' = [call EXCEPT !.sources = Tail(@)]

Fail == pc' = "failed" /\ UNCHANGED <<call, sb, copy, walk, iter, slot, out>>

(***************************************************************************)
(* read_superblock                                                         *)
(***************************************************************************)

Better(c) == c.sequence > sb.sequence

\* What the best superblock says is used as soon as the last copy is read:
\* iter_wal_accounts and iter_wal_transfers start with the first slot,
\* iter_accounts and iter_transfers walk the manifest.  If there is none they
\* return NotCheckpointed, which pages and migrations take for no objects.
Use(best) ==
  CASE Head(call.sources) = "wal" ->
         pc' = "header" /\ slot' = 0 /\ UNCHANGED <<call, walk>>
    [] Head(call.sources) = "lsm" /\ best.count # 0 ->
         pc' = "manifest" /\ walk' = [NoWalk EXCEPT !.address = best.newest]
         /\ UNCHANGED <<call, slot>>
    [] OTHER -> NextSource /\ UNCHANGED <<walk, slot>>

ReadCopy ==
  /\ pc = "superblock"
  /\ LET best == IF Better(copies[copy]) THEN copies[copy] ELSE sb
     IN  IF copy < Copies
         THEN sb' = best /\ copy' = copy + 1 /\ UNCHANGED <<call, pc, walk, slot>>
         ELSE sb' = best /\ copy' = 1 /\ Use(best)
  /\ UNCHANGED <<iter, out>>

(***************************************************************************)
(* collect_index_blocks_for_tree                                           *)
(***************************************************************************)

\* Where a block's entries speak of a table of the tree for the first time.
FirstMet(entries, tree) ==
  {j \in DOMAIN entries :
     /\ entries[j].tree = tree
     /\ \A k \in 1..(j - 1) :
          entries[k].tree = tree => entries[k].address # entries[j].address}

\* The first event that is met for a table counts.
Seen(seen, entries) ==
  seen \cup {[address |-> entries[j].address, event |-> entries[j].event] :
              j \in {i \in FirstMet(entries, call.tree) :
                      \A s \in seen : s.address # entries[i].address}}

\* Mutant: the last block of a chain is taken for one too many.
TooLongByOne == walk.visited + 1 >= sb.count

TooLong == walk.visited + 1 > sb.count + 1

ReadManifest ==
  /\ pc = "manifest"
  /\ LET b == grid[walk.address]
         seen == Seen(walk.seen, b.entries)
     IN  IF TooLong \/ b.type # "manifest"
         THEN Fail
         ELSE /\ IF b.previous # 0
                 THEN /\ walk' = [address |-> b.previous, visited |-> walk.visited + 1,
                                  seen |-> seen]
                      /\ UNCHANGED <<pc, iter>>
                 ELSE /\ walk' = NoWalk
                      /\ pc' = "lsm"
                      /\ iter' = [NoIter EXCEPT
                                    !.tables = {s.address : s \in {x \in seen :
                                                  x.event \in {"insert", "update"}}}]
              /\ UNCHANGED <<call, sb, copy, slot, out>>

(***************************************************************************)
(* ObjectIter.  The live tables come out of a hash map, in any order.      *)
(***************************************************************************)

MoreLsm == More(out.lsm)

\* An error ends the iterator.  It fails the call, but in the part of a page
\* that skip() passes over it is one of the items thrown away.
BlockIsWrong ==
  IF call.limit # All /\ Len(out.lsm) < call.page * call.limit
  THEN iter' = NoIter /\ UNCHANGED <<call, pc, sb, copy, walk, slot, out>>
  ELSE Fail

LoadValueBlock ==
  /\ pc = "lsm" /\ MoreLsm /\ iter.values # {}
  /\ \E a \in iter.values :
       IF grid[a].type # "value" THEN BlockIsWrong
       ELSE /\ out' = [out EXCEPT !.lsm = @ \o grid[a].objects]
            /\ iter' = [iter EXCEPT !.values = @ \ {a}]
            /\ UNCHANGED <<call, pc, sb, copy, walk, slot>>

LoadIndexBlock ==
  /\ pc = "lsm" /\ MoreLsm /\ iter.values = {}
  /\ \E a \in iter.tables :
       IF grid[a].type # "index" THEN BlockIsWrong
       ELSE /\ iter' = [tables |-> iter.tables \ {a}, values |-> grid[a].values]
            /\ UNCHANGED <<call, pc, sb, copy, walk, slot, out>>

EndOfLsm ==
  /\ pc = "lsm" /\ (MoreLsm => iter = NoIter)
  /\ NextSource
  /\ iter' = NoIter /\ sb' = NoSuperblock
  /\ UNCHANGED <<copy, walk, slot, out>>

(***************************************************************************)
(* WalObjectIter.  A record is what the client submitted: balances and     *)
(* timestamps are 0.                                                       *)
(***************************************************************************)

Submitted(op) ==
  [kind |-> log[op].kind, id |-> log[op].id, ts |-> 0,
   value |-> IF log[op].kind = "accounts" THEN 0 ELSE 1]

\* Mutant: prepares that are in the LSM are read as well.
MatchesAnyOp(op) == op # 0 /\ log[op].kind = call.tree

\* Mutant: the first prepare after the checkpoint is left out.
MatchesLate(op) == op # 0 /\ log[op].kind = call.tree /\ op > sb.checkpoint + 1

Matches(op) == op # 0 /\ log[op].kind = call.tree /\ op > sb.checkpoint

MoreWal == More(out.wal)

ReadHeader ==
  /\ pc = "header" /\ slot < SlotCount /\ MoreWal
  /\ IF Matches(headers[slot])
     THEN pc' = "body" /\ UNCHANGED slot
     ELSE slot' = slot + 1 /\ UNCHANGED pc
  /\ UNCHANGED <<call, sb, copy, walk, iter, out>>

\* Mutant: the slot is counted by the scan and by the read.
ReadBodySkipping ==
  /\ pc = "body"
  /\ out' = [out EXCEPT !.wal = Append(@, Submitted(bodies[slot]))]
  /\ pc' = "header" /\ slot' = slot + 2
  /\ UNCHANGED <<call, sb, copy, walk, iter>>

\* The body is in another zone and may be that of a later prepare.
ReadBody ==
  /\ pc = "body"
  /\ out' = [out EXCEPT !.wal = Append(@, Submitted(bodies[slot]))]
  /\ pc' = "header" /\ slot' = slot + 1
  /\ UNCHANGED <<call, sb, copy, walk, iter>>

EndOfWal ==
  /\ pc = "header" /\ (slot = SlotCount \/ ~MoreWal)
  /\ NextSource
  /\ UNCHANGED <<sb, copy, walk, iter, slot, out>>

ReaderInit ==
  /\ call = [sources |-> <<>>, tree |-> "accounts", page |-> 0, limit |-> 1,
            cutoff |-> 0]
  /\ pc = "idle" /\ sb = NoSuperblock /\ copy = 1
  /\ walk = NoWalk /\ iter = NoIter /\ slot = 0 /\ out = Nothing

Read ==
  \/ ReadCopy \/ ReadManifest
  \/ LoadIndexBlock \/ LoadValueBlock \/ EndOfLsm
  \/ ReadHeader \/ ReadBody \/ EndOfWal

=============================================================================
