----------------------------- MODULE FileProofs -----------------------------
(***************************************************************************)
(* What is proved of the data file's reader (FileReads), for any number of *)
(* prepares, checkpoints, grid blocks, WAL slots and copies of the         *)
(* superblock: its types, and that a file is readable as long as no        *)
(* superblock is written, whatever else the replica writes meanwhile.      *)
(*                                                                         *)
(* FileInv is the replica's order: superblocks, manifest and tables fit    *)
(* together, and the blocks of every table that is live at one of the two  *)
(* superblocks a file may have are not free.  ReaderInv is what a call has *)
(* got so far, worth something while the superblock it began with is the   *)
(* newest.                                                                 *)
(***************************************************************************)
EXTENDS FileReads, Induction, TLAPS

(***************************************************************************)
(* The replica.                                                            *)
(***************************************************************************)

Trees == {"accounts", "transfers"}
Addresses == 1..Blocks
ManifestEntries == [address : Addresses, tree : Trees, event : {"insert", "update", "remove"}]
Records == [kind : Trees, id : AccountIds \cup TransferIds, ts : Nat, value : Nat]
FreeBlocks == [type : {"free"}]
ManifestBlocks == [type : {"manifest"}, previous : 0..Blocks, entries : Seq(ManifestEntries)]
IndexBlocks == [type : {"index"}, values : SUBSET Addresses]
ValueBlocks == [type : {"value"}, objects : Seq(Records)]
Superblocks ==
  {s \in [sequence : 1..(MaxCheckpoints + 1), newest : 0..Blocks,
          count : 0..MaxCheckpoints, checkpoint : Nat] : s.newest = 0 <=> s.count = 0}
Tables == [tree : Trees, index : Addresses, value : Addresses]

FileTypes ==
  /\ log \in Seq(Prepares) /\ Len(log) <= MaxOps /\ commit \in 0..Len(log)
  /\ writing \in Superblocks /\ copied \in 0..Copies
  /\ copies \in [1..Copies -> Superblocks]
  /\ grid \in [Addresses -> FreeBlocks \cup ManifestBlocks \cup IndexBlocks \cup ValueBlocks]
  /\ headers \in [0..(SlotCount - 1) -> 0..MaxOps]
  /\ bodies \in [0..(SlotCount - 1) -> 0..MaxOps]
  /\ manifest \in Seq(Addresses) /\ tables \subseteq Tables /\ IsFiniteSet(tables)
  /\ free \subseteq Addresses

\* The address of the manifest's block i, 0 if there is none.
Link(i) == IF i = 0 THEN 0 ELSE manifest[i]

\* The copies that are not written yet are those of the checkpoint before.
Copying ==
  /\ \A c \in 1..Copies : copies[c] = IF c <= copied THEN writing ELSE Durable
  /\ copied < Copies => /\ writing.sequence = Durable.sequence + 1
                        /\ writing.count = Durable.count + 1
                        /\ Durable.checkpoint < writing.checkpoint
  /\ writing.count = Len(manifest) /\ writing.sequence = writing.count + 1
  /\ writing.newest = Link(writing.count) /\ Durable.newest = Link(Durable.count)

ManifestIsLinked ==
  \A i \in 1..Len(manifest) :
    /\ manifest[i] \notin free
    /\ grid[manifest[i]] \in ManifestBlocks
    /\ grid[manifest[i]].previous = Link(i - 1)

Stored(t) ==
  /\ t.index \notin free /\ t.value \notin free
  /\ grid[t.index] \in IndexBlocks /\ grid[t.index].values = {t.value}
  /\ grid[t.value] \in ValueBlocks

TablesAreStored == \A t \in tables : Stored(t)

Mentions(i, a, tree) == \E e \in ToSet(EntriesIn(i)) : e.address = a /\ e.tree = tree

\* What the first event of a table in block i says, if the block is the last
\* of the first n that speaks of it.
Says(i, n, tree, a, event) ==
  /\ \E j \in FirstMet(EntriesIn(i), tree) :
       EntriesIn(i)[j].address = a /\ EntriesIn(i)[j].event = event
  /\ \A k \in (i + 1)..n : ~Mentions(k, a, tree)

LiveAt(n, tree) ==
  {a \in Addresses : \E i \in 1..n : \E event \in {"insert", "update"} : Says(i, n, tree, a, event)}

\* An index block and its value blocks.
Kept(a) ==
  /\ a \notin free /\ grid[a] \in IndexBlocks
  /\ \A v \in grid[a].values : v \notin free /\ grid[v] \in ValueBlocks

LiveTablesAreKnown ==
  \A tree \in Trees : ~Transient(writing, tree) =>
    \A a \in LiveAt(writing.count, tree) : \E t \in tables : t.tree = tree /\ t.index = a

LiveTablesAreKept ==
  \A tree \in Trees : ~Transient(Durable, tree) =>
    \A a \in LiveAt(Durable.count, tree) : Kept(a)

FileInv ==
  /\ FileTypes /\ Copying /\ ManifestIsLinked /\ TablesAreStored
  /\ LiveTablesAreKnown /\ LiveTablesAreKept

(***************************************************************************)
(* The reader.                                                             *)
(***************************************************************************)

Calls == [sources : Seq({"lsm", "wal"}), tree : Trees, page : Nat,
          limit : Limits \cup {1, All}, cutoff : Cutoffs \cup {0}]
SeenTables == [address : Addresses, event : {"insert", "update", "remove"}]

ReaderTypes ==
  /\ pc \in {"idle", "superblock", "manifest", "lsm", "header", "body", "ready", "failed"}
  /\ call \in Calls
  /\ sb \in Superblocks \cup {NoSuperblock} /\ copy \in 1..Copies
  /\ walk \in [address : 0..Blocks, visited : 0..(MaxCheckpoints + 1), seen : SUBSET SeenTables]
  /\ iter \in [tables : SUBSET Addresses, values : SUBSET Addresses]
  /\ slot \in 0..SlotCount
  /\ answer.status \in {"none", "ok", "failed"}
  /\ pc = "manifest" => walk.address # 0
  /\ pc = "body" => slot < SlotCount
  /\ pc \in {"superblock", "manifest", "lsm", "header", "body"} => call.sources # <<>>

\* What the walk has met in the last blocks of the first n, those after `rest`.
SeenFrom(seen, rest, n, tree) ==
  /\ \A x \in seen : \E i \in (rest + 1)..n : Says(i, n, tree, x.address, x.event)
  /\ \A i \in (rest + 1)..n : \A a \in Addresses :
       Mentions(i, a, tree) => \E x \in seen : x.address = a

Walking ==
  pc = "manifest" =>
    /\ walk.visited < sb.count
    /\ walk.address = Link(sb.count - walk.visited)
    /\ SeenFrom(walk.seen, sb.count - walk.visited, sb.count, call.tree)

Iterating ==
  pc = "lsm" /\ ~Transient(sb, call.tree) =>
    /\ iter.tables \subseteq LiveAt(sb.count, call.tree)
    /\ \A v \in iter.values : \E a \in LiveAt(sb.count, call.tree) : v \in grid[a].values

\* The best superblock so far.
Electing ==
  /\ pc = "superblock" => sb \in IF copy = 1 THEN {NoSuperblock, copies[1]} ELSE {copies[1]}
  /\ pc \in {"manifest", "lsm", "header", "body"} => sb = copies[1] /\ copy = 1

ExcusedBy(s) == Transient(s, call.tree)

BeganBefore == began.sb \in Superblocks /\ began.sb.sequence <= copies[1].sequence

Reading ==
  pc # "idle" =>
    /\ call.limit # All => call.sources = <<began.source>>
    /\ copies[1] = began.sb => /\ Electing /\ Walking /\ Iterating
                               /\ pc = "failed" => ExcusedBy(copies[1])

Answering ==
  /\ answer.status = "failed" => pc = "idle" /\ (answer.steady => ExcusedBy(answer.sb))
  /\ answer.status # "none" /\ call.limit # All => call.sources = <<began.source>>

ReaderInv == ReaderTypes /\ BeganBefore /\ Reading /\ Answering

Inv == FileInv /\ ReaderInv

(***************************************************************************)
(* Sets in order.                                                          *)
(***************************************************************************)

\* Ascending lists the numbers of a finite set, each once.
LEMMA AscendingLists ==
  ASSUME NEW S, S \subseteq Nat, IsFiniteSet(S)
  PROVE  /\ Cardinality(S) \in Nat
         /\ DOMAIN Ascending(S) = 1..Cardinality(S)
         /\ Ascending(S) \in Seq(S) /\ Len(Ascending(S)) = Cardinality(S)
         /\ \A i \in 1..Cardinality(S) : Ascending(S)[i] \in S
         /\ \A i, j \in 1..Cardinality(S) : Ascending(S)[i] = Ascending(S)[j] => i = j
         /\ \A x \in S : \E i \in 1..Cardinality(S) : Ascending(S)[i] = x
<1> DEFINE s == Ascending(S)
           n == Cardinality(S)
           Below(x) == {y \in S : y < x}
           R(x) == Rank(S, FALSE, x)
<1>1. n \in Nat
  BY FS_CardinalityType
<1>2. \A x \in S : R(x) = Cardinality(Below(x))
  BY DEF Rank, Earlier
<1>3. s = [i \in 1..n |-> CHOOSE x \in S : Cardinality(Below(x)) = i - 1]
  BY DEF Ascending
<1>8. FALSE \in BOOLEAN
  OBVIOUS
<1>9. ASSUME NEW x \in S PROVE R(x) \in 0..(n - 1)
  BY <1>8, RankGrows
<1>10. ASSUME NEW x \in S, NEW y \in S, x < y PROVE R(x) < R(y)
  <2>1. x \in Earlier(S, FALSE, y)
    BY <1>10 DEF Earlier
  <2> QED
    BY <1>8, <2>1, RankGrows
<1>11. ASSUME NEW k \in 0..(n - 1) PROVE \E x \in S : R(x) = k
  BY <1>8, RankIsOnto
<1> HIDE DEF Below, R
<1>0. ASSUME NEW x \in S, NEW y \in S, R(x) = R(y) PROVE x = y
  <2>1. SUFFICES ASSUME x # y PROVE FALSE
    OBVIOUS
  <2>2. x \in Nat /\ y \in Nat
    OBVIOUS
  <2>3. R(x) < R(y) \/ R(y) < R(x)
    BY <1>10, <2>1, <2>2
  <2>4. R(x) \in Nat /\ R(y) \in Nat
    BY <1>1, <1>9
  <2> QED
    BY <1>0, <2>3, <2>4
<1>4. ASSUME NEW i \in 1..n PROVE s[i] \in S /\ Cardinality(Below(s[i])) = i - 1
  <2>1. i - 1 \in 0..(n - 1)
    BY <1>1
  <2>2. PICK x \in S : R(x) = i - 1
    BY <2>1, <1>11
  <2>3. \E y \in S : Cardinality(Below(y)) = i - 1
    BY <1>2, <2>2
  <2> QED
    BY <1>3, <2>3
<1>5. ASSUME NEW x \in S PROVE \E i \in 1..n : s[i] = x
  <2>1. Cardinality(Below(x)) \in 0..(n - 1)
    BY <1>2, <1>9
  <2>2. PICK i \in 1..n : Cardinality(Below(x)) = i - 1
    <3>1. Cardinality(Below(x)) + 1 \in 1..n /\ Cardinality(Below(x)) = (Cardinality(Below(x)) + 1) - 1
      BY <1>1, <2>1
    <3> QED
      BY <3>1
  <2>3. s[i] \in S /\ R(s[i]) = R(x)
    BY <1>2, <1>4, <2>2
  <2> QED
    BY <1>0, <2>3
<1>6. \A i, j \in 1..n : s[i] = s[j] => i = j
  <2>1. TAKE i, j \in 1..n
  <2>2. Cardinality(Below(s[i])) = i - 1 /\ Cardinality(Below(s[j])) = j - 1
    BY <1>4
  <2> HAVE s[i] = s[j]
  <2>3. i - 1 = j - 1
    BY <2>2
  <2> QED
    BY <2>3, <1>1
<1>7. s \in Seq(S) /\ Len(s) = n /\ DOMAIN s = 1..n
  <2> HIDE DEF n
  <2>1. DOMAIN s = 1..n
    BY <1>3
  <2>2. s \in [1..n -> S]
    BY <1>3, <1>4, <2>1
  <2> QED
    BY <1>1, <2>1, <2>2
<1> QED
  BY <1>1, <1>4, <1>5, <1>6, <1>7

\* SetToSeq lists the elements of a finite set.
LEMMA SetToSeqLists ==
  ASSUME NEW S, IsFiniteSet(S)
  PROVE  SetToSeq(S) \in Seq(S) /\ ToSet(SetToSeq(S)) = S
<1> DEFINE n == Cardinality(S)
           s == SetToSeq(S)
<1>1. n \in Nat /\ ExistsBijection(1..n, S)
  BY FS_CardinalityType
<1>2. \E f \in [1..n -> S] : IsInjective(f)
  BY <1>1 DEF ExistsBijection, Bijection, Injection, IsInjective
<1>3. s \in [1..n -> S] /\ IsInjective(s)
  BY <1>2 DEF SetToSeq
<1>4. s \in Injection(1..n, S)
  BY <1>3 DEF Injection, IsInjective
<1>5. Cardinality(1..n) = n
  <2>1. 1 \in Int /\ n \in Int
    BY <1>1
  <2>2. Cardinality(1..n) = IF 1 > n THEN 0 ELSE n - 1 + 1
    BY <2>1, FS_Interval
  <2> QED
    BY <1>1, <2>2
<1>6. s \in Surjection(1..n, S)
  BY <1>4, <1>5, FS_Injection
<1> HIDE DEF n, s
<1>7. s \in Seq(S) /\ DOMAIN s = 1..n
  BY <1>1, <1>3
<1>8. ToSet(s) = S
  BY <1>3, <1>6, <1>7 DEF ToSet, Surjection
<1> QED
  BY <1>7, <1>8 DEF s

\* The elements of a concatenation.
LEMMA ToSetConcat ==
  ASSUME NEW S, NEW s \in Seq(S), NEW t \in Seq(S)
  PROVE  s \o t \in Seq(S) /\ ToSet(s \o t) = ToSet(s) \cup ToSet(t)
<1>1. s \o t \in Seq(S) /\ Len(s \o t) = Len(s) + Len(t)
  OBVIOUS
<1>2. \A i \in 1..Len(s) : (s \o t)[i] = s[i]
  OBVIOUS
<1>3. \A i \in 1..Len(t) : (s \o t)[Len(s) + i] = t[i]
  OBVIOUS
<1>4. ASSUME NEW x \in ToSet(s \o t) PROVE x \in ToSet(s) \cup ToSet(t)
  <2>1. PICK i \in 1..Len(s \o t) : x = (s \o t)[i]
    BY <1>1 DEF ToSet
  <2>2. CASE i <= Len(s)
    <3>1. i \in DOMAIN s /\ x = s[i]
      BY <2>1, <2>2, <1>2
    <3> QED
      BY <3>1 DEF ToSet
  <2>3. CASE i > Len(s)
    <3>1. i - Len(s) \in DOMAIN t /\ i = Len(s) + (i - Len(s))
      BY <2>1, <2>3, <1>1
    <3>2. x = t[i - Len(s)]
      BY <3>1, <2>1, <1>3
    <3> QED
      BY <3>1, <3>2 DEF ToSet
  <2> QED
    BY <2>2, <2>3, <1>1
<1>5. ASSUME NEW i \in DOMAIN s PROVE s[i] \in ToSet(s \o t)
  <2>1. i \in DOMAIN (s \o t) /\ (s \o t)[i] = s[i]
    BY <1>1, <1>2
  <2> QED
    BY <2>1 DEF ToSet
<1>6. ASSUME NEW i \in DOMAIN t PROVE t[i] \in ToSet(s \o t)
  <2>1. Len(s) + i \in DOMAIN (s \o t) /\ (s \o t)[Len(s) + i] = t[i]
    BY <1>1, <1>3
  <2> QED
    BY <2>1 DEF ToSet
<1> QED
  BY <1>1, <1>4, <1>5, <1>6 DEF ToSet

(***************************************************************************)
(* What a checkpoint writes.                                               *)
(***************************************************************************)

NewTableSet == [tree : Trees, ops : SUBSET (1..Len(log)), upto : 0..Len(log)]

\* A prepare is of one of the two trees and has one of the ids.
LEMMA PrepareTypes ==
  ASSUME FileTypes, NEW n \in 1..Len(log)
  PROVE  /\ log[n] \in Prepares
         /\ log[n].kind \in Trees /\ log[n].id \in AccountIds \cup TransferIds
<1>1. log[n] \in Prepares
  BY DEF FileTypes
<1> QED
  BY <1>1 DEF Prepares, Trees

\* Of the first prepares, those that created an object.
LEMMA CreatedTypes ==
  ASSUME FileTypes, NEW tree, NEW upto \in 0..Len(log)
  PROVE  /\ Created(tree, upto) \subseteq 1..Len(log) /\ Created(tree, upto) \subseteq Nat
         /\ IsFiniteSet(Created(tree, upto))
<1>1. Len(log) \in Nat
  BY DEF FileTypes
<1>2. Created(tree, upto) \subseteq 1..Len(log)
  BY <1>1 DEF Created
<1>3. IsFiniteSet(1..Len(log))
  <2>1. 1 \in Int /\ Len(log) \in Int
    BY <1>1
  <2> QED
    BY <2>1, FS_Interval
<1> QED
  BY <1>1, <1>2, <1>3, FS_Subset

\* What a prepare created is a record.
LEMMA ObjectTypes ==
  ASSUME FileTypes, NEW n \in 1..Len(log), NEW upto \in 0..Len(log)
  PROVE  Object(n, upto) \in Records
<1>1. log[n].kind \in Trees /\ log[n].id \in AccountIds \cup TransferIds
  BY PrepareTypes
<1>2. Balance(log[n].id, upto) \in Nat
  <2>1. IsFiniteSet({m \in Created("transfers", upto) : log[m].account = log[n].id})
    BY CreatedTypes, FS_Subset
  <2> QED
    BY <2>1, FS_CardinalityType DEF Balance
<1>3. (IF log[n].kind = "accounts" THEN Balance(log[n].id, upto) ELSE 1) \in Nat
  BY <1>2
<1>4. n \in Nat
  OBVIOUS
<1> QED
  BY <1>1, <1>3, <1>4 DEF Object, Records

\* A table's objects are records.
LEMMA TableObjectsTypes ==
  ASSUME FileTypes, NEW t \in NewTableSet
  PROVE  TableObjects(t) \in Seq(Records)
<1> DEFINE ops == Ascending(t.ops)
<1>1. t.ops \subseteq 1..Len(log) /\ t.upto \in 0..Len(log)
  BY DEF NewTableSet
<1>2. t.ops \subseteq Nat /\ IsFiniteSet(t.ops)
  <2>1. Len(log) \in Nat
    BY DEF FileTypes
  <2>2. IsFiniteSet(1..Len(log))
    <3>1. 1 \in Int /\ Len(log) \in Int
      BY <2>1
    <3> QED
      BY <3>1, FS_Interval
  <2> QED
    BY <1>1, <2>1, <2>2, FS_Subset
<1>3. /\ Cardinality(t.ops) \in Nat /\ DOMAIN ops = 1..Cardinality(t.ops)
      /\ \A i \in 1..Cardinality(t.ops) : ops[i] \in t.ops
  BY <1>2, AscendingLists
<1> HIDE DEF ops
<1>4. \A i \in DOMAIN ops : Object(ops[i], t.upto) \in Records
  BY <1>1, <1>3, ObjectTypes
<1>5. TableObjects(t) = [i \in 1..Cardinality(t.ops) |-> Object(ops[i], t.upto)]
  BY <1>3 DEF TableObjects, ops
<1> QED
  BY <1>3, <1>4, <1>5

\* The tables of a checkpoint are made of prepares of the log; the transient
\* one comes first.
LEMMA NewTablesTypes ==
  ASSUME FileTypes, Durable.checkpoint \in Nat, Durable.checkpoint < commit,
         NEW how,
         how = "transient" =>
           commit > Durable.checkpoint + 1 /\ Created("accounts", Durable.checkpoint + 1) # {}
  PROVE  /\ NewTables(how) \in Seq(NewTableSet)
         /\ how = "transient" => Len(NewTables(how)) > 0
<1> DEFINE since == Durable.checkpoint
           ops(tree, from, upto) == Created(tree, upto) \ 1..from
           table(tree, from, upto) ==
             IF ops(tree, from, upto) = {} THEN <<>>
             ELSE <<[tree |-> tree, ops |-> ops(tree, from, upto), upto |-> upto]>>
           first == IF how = "transient" THEN table("accounts", 0, since + 1) ELSE <<>>
           second == table("accounts", 0, commit)
           third == table("transfers", IF how = "compact" THEN 0 ELSE since, commit)
<1>1. Len(log) \in Nat /\ commit \in 0..Len(log)
  BY DEF FileTypes
<1>2. ASSUME NEW tree \in Trees, NEW from \in Nat, NEW upto \in 0..Len(log)
      PROVE  table(tree, from, upto) \in Seq(NewTableSet)
  <2>1. ops(tree, from, upto) \subseteq 1..Len(log)
    BY CreatedTypes
  <2>2. [tree |-> tree, ops |-> ops(tree, from, upto), upto |-> upto] \in NewTableSet
    BY <2>1 DEF NewTableSet
  <2> QED
    BY <2>2
<1>3. how = "transient" => since + 1 \in 0..Len(log)
  BY <1>1
<1>4. how = "transient" => Len(table("accounts", 0, since + 1)) = 1
  <2> HAVE how = "transient"
  <2>1. ops("accounts", 0, since + 1) # {}
    <3>1. 1..0 = {}
      OBVIOUS
    <3> QED
      BY <3>1
  <2> QED
    BY <2>1
<1>5. NewTables(how) = first \o second \o third
  BY DEF NewTables
<1>6. "accounts" \in Trees /\ "transfers" \in Trees /\ 0 \in Nat /\ since \in Nat
  BY DEF Trees
<1> HIDE DEF table, since
<1>7. first \in Seq(NewTableSet) /\ second \in Seq(NewTableSet) /\ third \in Seq(NewTableSet)
  <2>1. second \in Seq(NewTableSet)
    BY <1>1, <1>2, <1>6
  <2>2. third \in Seq(NewTableSet)
    <3>1. (IF how = "compact" THEN 0 ELSE since) \in Nat
      BY <1>6
    <3> QED
      BY <1>1, <1>2, <1>6, <3>1
  <2>3. first \in Seq(NewTableSet)
    <3>1. CASE how = "transient"
      <4>1. table("accounts", 0, since + 1) \in Seq(NewTableSet)
        BY <1>2, <1>3, <1>6, <3>1
      <4> QED
        BY <3>1, <4>1
    <3>2. CASE how # "transient"
      BY <3>2
    <3> QED
      BY <3>1, <3>2
  <2> QED
    BY <2>1, <2>2, <2>3
<1>8. how = "transient" => Len(first) = 1
  BY <1>4
<1> HIDE DEF first, second, third
<1>9. /\ first \o second \o third \in Seq(NewTableSet)
      /\ Len(first \o second \o third) = Len(first) + Len(second) + Len(third)
  BY <1>7
<1>10. Len(first) \in Nat /\ Len(second) \in Nat /\ Len(third) \in Nat
  BY <1>7
<1> QED
  BY <1>5, <1>8, <1>9, <1>10

Places(how) == Placed(NewTables(how), Ascending(free))
NewAddress == Ascending(free)[1]

\* The free blocks are finitely many, and listed without gaps.
LEMMA FreeIsFinite ==
  ASSUME FileTypes
  PROVE  free \subseteq Nat /\ IsFiniteSet(free) /\ free \subseteq Addresses
<1>1. free \subseteq Addresses /\ Blocks \in Nat
  BY FileAssumption DEF FileTypes
<1>2. IsFiniteSet(Addresses) /\ Addresses \subseteq Nat
  <2>1. 1 \in Int /\ Blocks \in Int
    BY <1>1
  <2> QED
    BY <2>1, FS_Interval DEF Addresses
<1>3. free \in SUBSET Addresses
  BY <1>1
<1> QED
  BY <1>2, <1>3, FS_Subset

\* What may be known when a checkpoint starts.
CanCheckpoint(how) ==
  /\ Durable.checkpoint \in Nat /\ Durable.checkpoint < commit
  /\ how \in {"keep", "move", "compact", "transient"}
  /\ how = "transient" =>
       commit > Durable.checkpoint + 1 /\ Created("accounts", Durable.checkpoint + 1) # {}
  /\ Checkpoint(how)

\* The blocks of the new tables and the new manifest block are free, and all
\* of them are different ones.
LEMMA PlacesAreFree ==
  ASSUME FileTypes, NEW how, CanCheckpoint(how)
  PROVE  /\ NewTables(how) \in Seq(NewTableSet)
         /\ how = "transient" => Len(NewTables(how)) > 0
         /\ Places(how) \in Seq(Tables)
         /\ DOMAIN Places(how) = 1..Len(NewTables(how))
         /\ NewAddress \in free /\ 2 * Len(NewTables(how)) + 1 <= Cardinality(free)
         /\ \A i \in 1..Len(NewTables(how)) :
              /\ Places(how)[i] = [tree |-> NewTables(how)[i].tree,
                                   index |-> Ascending(free)[2 * i],
                                   value |-> Ascending(free)[2 * i + 1]]
              /\ Places(how)[i].index \in free \ {NewAddress}
              /\ Places(how)[i].value \in free \ {NewAddress}
              /\ \A j \in 1..Len(NewTables(how)) :
                   /\ Places(how)[i].index # Places(how)[j].value
                   /\ Places(how)[i].index = Places(how)[j].index => i = j
                   /\ Places(how)[i].value = Places(how)[j].value => i = j
<1> DEFINE at == Ascending(free)
           news == NewTables(how)
           placed == Places(how)
           n == Len(news)
           c == Cardinality(free)
<1>1. free \subseteq Nat /\ IsFiniteSet(free) /\ free \subseteq Addresses
  BY FreeIsFinite
<1>2. /\ c \in Nat /\ DOMAIN at = 1..c
      /\ \A i \in 1..c : at[i] \in free
      /\ \A i, j \in 1..c : at[i] = at[j] => i = j
  BY <1>1, AscendingLists
<1>3. 2 * n + 1 <= c
  BY DEF CanCheckpoint, Checkpoint
<1>4. news \in Seq(NewTableSet) /\ (how = "transient" => n > 0)
  BY NewTablesTypes DEF CanCheckpoint
<1>5. n \in Nat /\ DOMAIN news = 1..n /\ \A i \in 1..n : news[i] \in NewTableSet
  BY <1>4
<1>6. placed = [i \in 1..n |-> [tree |-> news[i].tree, index |-> at[2 * i], value |-> at[2 * i + 1]]]
  BY <1>5 DEF Places, Placed
<1> HIDE DEF at, news, placed, n, c
<1>7. ASSUME NEW i \in 1..n
      PROVE  2 * i \in 1..c /\ 2 * i + 1 \in 1..c /\ 2 * i # 1 /\ 2 * i + 1 # 1 /\ 1 \in 1..c
  BY <1>2, <1>3, <1>5
<1>8. 1 \in 1..c
  BY <1>2, <1>3, <1>5
<1>9. at[1] \in free
  BY <1>2, <1>8
<1>10. ASSUME NEW i \in 1..n
       PROVE  /\ placed[i] = [tree |-> news[i].tree, index |-> at[2 * i], value |-> at[2 * i + 1]]
              /\ placed[i].index = at[2 * i] /\ placed[i].value = at[2 * i + 1]
              /\ placed[i].index \in free \ {at[1]} /\ placed[i].value \in free \ {at[1]}
  <2>1. placed[i] = [tree |-> news[i].tree, index |-> at[2 * i], value |-> at[2 * i + 1]]
    BY <1>6
  <2>2. placed[i].index = at[2 * i] /\ placed[i].value = at[2 * i + 1]
    BY <2>1
  <2>3. at[2 * i] \in free /\ at[2 * i + 1] \in free /\ at[2 * i] # at[1] /\ at[2 * i + 1] # at[1]
    BY <1>2, <1>7
  <2> QED
    BY <2>1, <2>2, <2>3
<1>11. ASSUME NEW i \in 1..n, NEW j \in 1..n
       PROVE  /\ placed[i].index # placed[j].value
              /\ placed[i].index = placed[j].index => i = j
              /\ placed[i].value = placed[j].value => i = j
  <2>1. /\ placed[i].index = at[2 * i] /\ placed[i].value = at[2 * i + 1]
        /\ placed[j].index = at[2 * j] /\ placed[j].value = at[2 * j + 1]
    BY <1>10
  <2>2. 2 * i # 2 * j + 1 /\ (2 * i = 2 * j => i = j) /\ (2 * i + 1 = 2 * j + 1 => i = j)
    BY <1>5
  <2>3. 2 * i \in 1..c /\ 2 * i + 1 \in 1..c /\ 2 * j \in 1..c /\ 2 * j + 1 \in 1..c
    BY <1>7
  <2> QED
    BY <2>1, <2>2, <2>3, <1>2
<1>12. placed \in Seq(Tables) /\ DOMAIN placed = 1..n
  <2>1. ASSUME NEW i \in 1..n PROVE placed[i] \in Tables
    <3>1. news[i].tree \in Trees
      BY <1>5 DEF NewTableSet
    <3>2. at[2 * i] \in Addresses /\ at[2 * i + 1] \in Addresses
      BY <1>1, <1>2, <1>7
    <3>3. placed[i] = [tree |-> news[i].tree, index |-> at[2 * i], value |-> at[2 * i + 1]]
      BY <1>10
    <3> QED
      BY <3>1, <3>2, <3>3 DEF Tables
  <2> QED
    BY <2>1, <1>5, <1>6
<1> QED
  BY <1>3, <1>4, <1>9, <1>10, <1>11, <1>12 DEF at, news, placed, n, c, NewAddress

\* What a checkpoint leaves in the grid.
LEMMA CheckpointWrites ==
  ASSUME FileTypes, NEW how, CanCheckpoint(how)
  PROVE  /\ grid' = [a \in Addresses |-> grid'[a]]
         /\ \A a \in Addresses \ free : grid'[a] = grid[a]
         /\ grid'[NewAddress] = ManifestBlock(how, Places(how))
         /\ \A i \in DOMAIN Places(how) :
              /\ grid'[Places(how)[i].index] =
                   [type |-> "index", values |-> {Places(how)[i].value}]
              /\ grid'[Places(how)[i].value] =
                   [type |-> "value", objects |-> TableObjects(NewTables(how)[i])]
         /\ \A a \in Addresses :
              \/ grid'[a] = grid[a] \/ a = NewAddress
              \/ \E i \in DOMAIN Places(how) : a = Places(how)[i].index \/ a = Places(how)[i].value
         /\ NewAddress \notin free' /\ free' \subseteq free
         /\ \A i \in DOMAIN Places(how) :
              Places(how)[i].index \notin free' /\ Places(how)[i].value \notin free'
         /\ manifest' = Append(manifest, NewAddress)
         /\ tables' = (tables \cup ToSet(Places(how))) \ Gone(how, Places(how))
         /\ writing' = [sequence |-> Durable.sequence + 1, newest |-> NewAddress,
                        count |-> Durable.count + 1, checkpoint |-> commit]
<1> DEFINE at == Ascending(free)
           news == NewTables(how)
           placed == Places(how)
           n == Len(news)
           used == {at[i] : i \in 1..(2 * n + 1)}
<1>1. /\ n \in Nat /\ DOMAIN placed = 1..n /\ free \subseteq Addresses
      /\ 2 * n + 1 <= Cardinality(free) /\ NewAddress \in free
  BY PlacesAreFree DEF FileTypes
<1>2. ASSUME NEW i \in 1..n
      PROVE  /\ placed[i].index = at[2 * i] /\ placed[i].value = at[2 * i + 1]
             /\ placed[i].index \in free \ {NewAddress} /\ placed[i].value \in free \ {NewAddress}
  <2> HIDE DEF placed, at
  <2>1. /\ placed[i] = [tree |-> news[i].tree, index |-> at[2 * i], value |-> at[2 * i + 1]]
        /\ placed[i].index \in free \ {NewAddress} /\ placed[i].value \in free \ {NewAddress}
    BY PlacesAreFree DEF placed, at
  <2> QED
    BY <2>1
<1>3. ASSUME NEW i \in 1..n, NEW j \in 1..n
      PROVE  /\ placed[i].index # placed[j].value
             /\ placed[i].index = placed[j].index => i = j
             /\ placed[i].value = placed[j].value => i = j
  BY PlacesAreFree, ZenonT(40)
<1>4. /\ grid' = [a \in DOMAIN grid |->
                    CASE a = NewAddress -> ManifestBlock(how, placed)
                      [] a \in used \ {NewAddress} -> TableBlock(a, news, placed)
                      [] OTHER -> grid[a]]
      /\ manifest' = Append(manifest, NewAddress)
      /\ tables' = (tables \cup ToSet(placed)) \ Gone(how, placed)
      /\ free' = free \ used
      /\ writing' = [sequence |-> Durable.sequence + 1, newest |-> NewAddress,
                     count |-> Durable.count + 1, checkpoint |-> commit]
  BY DEF CanCheckpoint, Checkpoint, Places, NewAddress
<1>5. DOMAIN grid = Addresses
  BY DEF FileTypes
<1>6. used \subseteq free
  <2>1. IsFiniteSet(free) /\ free \subseteq Nat
    BY FreeIsFinite
  <2>2. Cardinality(free) \in Nat /\ \A i \in 1..Cardinality(free) : at[i] \in free
    BY <2>1, AscendingLists
  <2> HIDE DEF at, n
  <2> QED
    BY <1>1, <2>2
<1>7. NewAddress \in used
  BY <1>1 DEF NewAddress
<1>8. ASSUME NEW i \in 1..n PROVE placed[i].index \in used /\ placed[i].value \in used
  <2>1. 2 * i \in 1..(2 * n + 1) /\ 2 * i + 1 \in 1..(2 * n + 1)
    BY <1>1
  <2> QED
    BY <1>2, <2>1
<1>9. ASSUME NEW a \in used, a # NewAddress
      PROVE  \E i \in 1..n : a = placed[i].index \/ a = placed[i].value
  <2>1. PICK k \in 1..(2 * n + 1) : a = at[k]
    OBVIOUS
  <2>2. k # 1
    BY <1>9, <2>1 DEF NewAddress
  <2>3. PICK i \in 1..n : k = 2 * i \/ k = 2 * i + 1
    <3> HIDE DEF n
    <3>1. k \div 2 \in 1..n /\ (k = 2 * (k \div 2) \/ k = 2 * (k \div 2) + 1)
      BY <1>1, <2>2
    <3> QED
      BY <3>1
  <2> QED
    BY <2>1, <2>3, <1>2
<1>10. \A i \in 1..n : TableBlock(placed[i].index, news, placed) =
                         [type |-> "index", values |-> {placed[i].value}]
  <2>1. TAKE i \in 1..n
  <2>2. {j \in DOMAIN placed : placed[j].index = placed[i].index} = {i}
    BY <1>1, <1>3
  <2>3. {placed[k].value : k \in {j \in DOMAIN placed : placed[j].index = placed[i].index}}
          = {placed[i].value}
    BY <2>2
  <2> QED
    BY <2>3, <1>1 DEF TableBlock
<1>11. \A i \in 1..n : TableBlock(placed[i].value, news, placed) =
                         [type |-> "value", objects |-> TableObjects(news[i])]
  <2>1. TAKE i \in 1..n
  <2>2. ~\E j \in DOMAIN placed : placed[j].index = placed[i].value
    BY <1>1, <1>3
  <2>3. (CHOOSE j \in DOMAIN placed : placed[j].value = placed[i].value) = i
    BY <1>1, <1>3
  <2> QED
    BY <2>2, <2>3 DEF TableBlock
<1> HIDE DEF at, news, placed, used, n
<1>12. ASSUME NEW a \in Addresses
       PROVE  /\ a = NewAddress => grid'[a] = ManifestBlock(how, placed)
              /\ a \in used /\ a # NewAddress => grid'[a] = TableBlock(a, news, placed)
              /\ a \notin used => grid'[a] = grid[a]
  BY <1>4, <1>5, <1>7
<1>13. \A a \in Addresses \ free : grid'[a] = grid[a]
  BY <1>6, <1>12
<1>14. grid'[NewAddress] = ManifestBlock(how, placed)
  BY <1>1, <1>12
<1>15. ASSUME NEW i \in 1..n
       PROVE  /\ grid'[placed[i].index] = [type |-> "index", values |-> {placed[i].value}]
              /\ grid'[placed[i].value] = [type |-> "value", objects |-> TableObjects(news[i])]
  <2>1. /\ placed[i].index \in Addresses /\ placed[i].value \in Addresses
        /\ placed[i].index # NewAddress /\ placed[i].value # NewAddress
    BY <1>1, <1>2
  <2> QED
    BY <2>1, <1>8, <1>10, <1>11, <1>12
<1>16. ASSUME NEW a \in Addresses
       PROVE  \/ grid'[a] = grid[a] \/ a = NewAddress
              \/ \E i \in 1..n : a = placed[i].index \/ a = placed[i].value
  BY <1>9, <1>12
<1>17. grid' = [a \in Addresses |-> grid'[a]]
  BY <1>4, <1>5
<1>18. /\ NewAddress \notin free' /\ free' \subseteq free
       /\ \A i \in 1..n : placed[i].index \notin free' /\ placed[i].value \notin free'
  BY <1>4, <1>7, <1>8
<1> QED
  BY <1>1, <1>4, <1>13, <1>14, <1>15, <1>16, <1>17, <1>18 DEF news, placed

\* A sequence has finitely many elements.
LEMMA ToSetIsFinite ==
  ASSUME NEW S, NEW s \in Seq(S)
  PROVE  IsFiniteSet(ToSet(s)) /\ ToSet(s) \subseteq S
<1>1. Len(s) \in Nat /\ s \in [1..Len(s) -> S]
  OBVIOUS
<1>2. ToSet(s) = {s[i] : i \in 1..Len(s)}
  BY DEF ToSet
<1>3. s \in Surjection(1..Len(s), ToSet(s))
  BY <1>1, <1>2 DEF Surjection
<1>4. IsFiniteSet(1..Len(s))
  <2>1. 1 \in Int /\ Len(s) \in Int
    BY <1>1
  <2> QED
    BY <2>1, FS_Interval
<1> QED
  BY <1>1, <1>2, <1>3, <1>4, FS_Surjection

\* Entries lists one event for every table of a set.
LEMMA EntriesListTables ==
  ASSUME NEW S, S \subseteq Tables, IsFiniteSet(S),
         NEW event \in {"insert", "update", "remove"}
  PROVE  /\ Entries(S, event) \in Seq(ManifestEntries)
         /\ ToSet(Entries(S, event)) = {Entry(t, event) : t \in S}
<1> DEFINE s == SetToSeq(S)
           es == Entries(S, event)
<1>1. s \in Seq(S) /\ ToSet(s) = S
  BY SetToSeqLists
<1>2. es = [i \in DOMAIN s |-> Entry(s[i], event)]
  BY DEF Entries
<1> HIDE DEF s, es
<1>3. DOMAIN s = 1..Len(s) /\ Len(s) \in Nat /\ \A i \in 1..Len(s) : s[i] \in S
  BY <1>1
<1>4. \A t \in S : Entry(t, event) \in ManifestEntries
  BY DEF Entry, Tables, ManifestEntries
<1>5. es \in Seq(ManifestEntries) /\ DOMAIN es = 1..Len(s)
  BY <1>2, <1>3, <1>4
<1>6. ToSet(es) = {Entry(s[i], event) : i \in DOMAIN s}
  BY <1>2, <1>3, <1>5 DEF ToSet
<1>7. ToSet(es) = {Entry(t, event) : t \in ToSet(s)}
  BY <1>6 DEF ToSet
<1> QED
  BY <1>1, <1>5, <1>7 DEF es

\* Tables that are moved were live; those that are gone were live, or are the
\* first of the new ones.
LEMMA GoneAndMoved ==
  ASSUME FileTypes, NEW how, CanCheckpoint(how)
  PROVE  /\ Moved(how) \subseteq tables /\ IsFiniteSet(Moved(how))
         /\ Gone(how, Places(how)) \subseteq tables \cup ToSet(Places(how))
         /\ Gone(how, Places(how)) \subseteq Tables /\ IsFiniteSet(Gone(how, Places(how)))
         /\ how # "transient" => Gone(how, Places(how)) \subseteq tables
         /\ how = "transient" =>
              /\ 1 \in DOMAIN Places(how)
              /\ Gone(how, Places(how)) = {Places(how)[1]} \cup Live("accounts")
         /\ \A t \in Moved(how) : t \notin Gone(how, Places(how))
<1> DEFINE placed == Places(how)
<1>1. tables \subseteq Tables /\ IsFiniteSet(tables)
  BY DEF FileTypes
<1>2. placed \in Seq(Tables) /\ DOMAIN placed = 1..Len(NewTables(how))
      /\ (how = "transient" => Len(NewTables(how)) > 0) /\ Len(NewTables(how)) \in Nat
  BY PlacesAreFree
<1> HIDE DEF placed
<1>3. IsFiniteSet(ToSet(placed)) /\ ToSet(placed) \subseteq Tables
  BY <1>2, ToSetIsFinite
<1>4. \A tree : Live(tree) \subseteq tables
  BY DEF Live
<1>5. Moved(how) \subseteq tables
  BY <1>4 DEF Moved
<1>6. how = "transient" => 1 \in DOMAIN placed /\ placed[1] \in ToSet(placed)
  BY <1>2 DEF ToSet
<1>7. Gone(how, placed) \subseteq tables \cup ToSet(placed)
  BY <1>4, <1>6 DEF Gone
<1>8. how # "transient" => Gone(how, placed) \subseteq tables
  BY <1>4 DEF Gone
<1>9. how = "transient" => Gone(how, placed) = {placed[1]} \cup Live("accounts")
  BY DEF Gone
<1>10. IsFiniteSet(tables \cup ToSet(placed))
  BY <1>1, <1>3, FS_Union
<1>11. IsFiniteSet(Gone(how, placed)) /\ IsFiniteSet(Moved(how))
  <2>1. Gone(how, placed) \in SUBSET (tables \cup ToSet(placed)) /\ Moved(how) \in SUBSET tables
    BY <1>5, <1>7
  <2> QED
    BY <2>1, <1>1, <1>10, FS_Subset
<1>12. ASSUME NEW t \in Moved(how) PROVE t \notin Gone(how, placed)
  BY DEF Moved, Live, Gone
<1> QED
  BY <1>1, <1>3, <1>5, <1>6, <1>7, <1>8, <1>9, <1>11, <1>12 DEF placed

\* The new manifest block inserts the new tables, updates those that moved and
\* removes those that are gone, and does nothing else.
LEMMA NewManifestBlock ==
  ASSUME FileTypes, NEW how, CanCheckpoint(how)
  PROVE  /\ ManifestBlock(how, Places(how)) \in ManifestBlocks
         /\ ManifestBlock(how, Places(how)).previous = Durable.newest
         /\ ToSet(ManifestBlock(how, Places(how)).entries) =
              {Entry(t, "insert") : t \in ToSet(Places(how))}
              \cup {Entry(t, "update") : t \in Moved(how)}
              \cup {Entry(t, "remove") : t \in Gone(how, Places(how))}
<1> DEFINE placed == Places(how)
           inserts == [i \in DOMAIN placed |-> Entry(placed[i], "insert")]
           updates == Entries(Moved(how), "update")
           removes == Entries(Gone(how, placed), "remove")
           block == ManifestBlock(how, placed)
<1>1. placed \in Seq(Tables)
  BY PlacesAreFree
<1>2. block = [type |-> "manifest", previous |-> Durable.newest,
               entries |-> inserts \o updates \o removes]
  BY DEF ManifestBlock
<1>3. /\ Moved(how) \subseteq Tables /\ IsFiniteSet(Moved(how))
      /\ Gone(how, placed) \subseteq Tables /\ IsFiniteSet(Gone(how, placed))
  BY GoneAndMoved DEF FileTypes
<1> HIDE DEF placed
<1>4. inserts \in Seq(ManifestEntries) /\ ToSet(inserts) = {Entry(t, "insert") : t \in ToSet(placed)}
  <2>1. DOMAIN placed = 1..Len(placed) /\ Len(placed) \in Nat
        /\ \A i \in 1..Len(placed) : placed[i] \in Tables
    BY <1>1
  <2>2. \A t \in Tables : Entry(t, "insert") \in ManifestEntries
    BY DEF Entry, Tables, ManifestEntries
  <2>3. inserts \in Seq(ManifestEntries)
    BY <2>1, <2>2
  <2>4. ToSet(inserts) = {Entry(placed[i], "insert") : i \in DOMAIN placed}
    BY DEF ToSet
  <2> QED
    BY <2>3, <2>4 DEF ToSet
<1>5. /\ updates \in Seq(ManifestEntries)
      /\ ToSet(updates) = {Entry(t, "update") : t \in Moved(how)}
  BY <1>3, EntriesListTables
<1>6. /\ removes \in Seq(ManifestEntries)
      /\ ToSet(removes) = {Entry(t, "remove") : t \in Gone(how, placed)}
  BY <1>3, EntriesListTables
<1> HIDE DEF inserts, updates, removes, block
<1>7. /\ inserts \o updates \in Seq(ManifestEntries)
      /\ ToSet(inserts \o updates) = ToSet(inserts) \cup ToSet(updates)
  BY <1>4, <1>5, ToSetConcat
<1>8. /\ (inserts \o updates) \o removes \in Seq(ManifestEntries)
      /\ ToSet((inserts \o updates) \o removes) = ToSet(inserts) \cup ToSet(updates) \cup ToSet(removes)
  <2> DEFINE both == inserts \o updates
  <2>1. both \in Seq(ManifestEntries) /\ ToSet(both) = ToSet(inserts) \cup ToSet(updates)
    BY <1>7
  <2> HIDE DEF both
  <2>2. both \o removes \in Seq(ManifestEntries) /\ ToSet(both \o removes) = ToSet(both) \cup ToSet(removes)
    BY <2>1, <1>6, ToSetConcat
  <2> QED
    BY <2>1, <2>2 DEF both
<1>9. Durable.newest \in 0..Blocks
  <2>1. Durable \in Superblocks
    BY FileAssumption DEF Durable, FileTypes
  <2> QED
    BY <2>1 DEF Superblocks
<1>10. block.entries = inserts \o updates \o removes /\ block.previous = Durable.newest
  BY <1>2
<1>11. block \in ManifestBlocks
  BY <1>2, <1>8, <1>9 DEF ManifestBlocks
<1> QED
  BY <1>4, <1>5, <1>6, <1>8, <1>10, <1>11 DEF block, placed

(***************************************************************************)
(* The replica keeps the file in order.                                    *)
(***************************************************************************)

\* What blocks of the manifest say depends on their entries only.
LEMMA SameEntries ==
  ASSUME NEW n \in Nat, \A i \in 1..n : EntriesIn(i)' = EntriesIn(i)
  PROVE  /\ \A tree : LiveAt(n, tree)' = LiveAt(n, tree)
         /\ \A i \in 1..n : \A a, tree : Mentions(i, a, tree)' = Mentions(i, a, tree)
         /\ \A i \in 1..n : \A m \in 0..n : \A tree, a, event :
              Says(i, m, tree, a, event)' = Says(i, m, tree, a, event)
<1>1. ASSUME NEW i \in 1..n, NEW a, NEW tree
      PROVE  Mentions(i, a, tree)' = Mentions(i, a, tree)
  BY DEF Mentions
<1>2. ASSUME NEW i \in 1..n, NEW m \in 0..n, NEW tree, NEW a, NEW event
      PROVE  Says(i, m, tree, a, event)' = Says(i, m, tree, a, event)
  <2>1. \A k \in (i + 1)..m : Mentions(k, a, tree)' = Mentions(k, a, tree)
    BY <1>1
  <2>2. EntriesIn(i)' = EntriesIn(i)
    OBVIOUS
  <2> QED
    BY <2>1, <2>2 DEF Says
<1>3. ASSUME NEW tree PROVE LiveAt(n, tree)' = LiveAt(n, tree)
  <2>1. \A i \in 1..n : \A a, event : Says(i, n, tree, a, event)' = Says(i, n, tree, a, event)
    BY <1>2
  <2> QED
    BY <2>1 DEF LiveAt, Addresses
<1> QED
  BY <1>1, <1>2, <1>3

\* The superblocks have their types.
LEMMA DurableTypes ==
  ASSUME FileTypes
  PROVE  /\ Copies \in Nat /\ Copies > 0 /\ Blocks \in Nat /\ MaxCheckpoints \in Nat
         /\ Durable \in Superblocks /\ copies[1] \in Superblocks
         /\ Durable.count \in Nat /\ Durable.checkpoint \in Nat /\ Durable.sequence \in Nat
         /\ writing.count \in Nat /\ writing.sequence \in Nat /\ writing.checkpoint \in Nat
<1>1. Copies \in Nat /\ Copies > 0 /\ Blocks \in Nat /\ MaxCheckpoints \in Nat
  BY FileAssumption
<1>2. Durable \in Superblocks /\ copies[1] \in Superblocks /\ writing \in Superblocks
  BY <1>1 DEF Durable, FileTypes
<1> QED
  BY <1>1, <1>2 DEF Superblocks

\* The first copy is the newest superblock.
LEMMA FirstIsNewest ==
  ASSUME FileTypes, Copying
  PROVE  /\ Newest = copies[1]
         /\ copies[1] = writing \/ (copies[1] = Durable /\ copied = 0)
         /\ copies[1].count \in 0..Len(manifest)
         /\ \A c \in 1..Copies : copies[c].sequence <= copies[1].sequence
<1>1. /\ Copies \in Nat /\ Copies > 0 /\ copied \in 0..Copies
      /\ Durable.count \in Nat /\ Durable.sequence \in Nat /\ writing.sequence \in Nat
      /\ writing.count \in Nat
  BY DurableTypes DEF FileTypes
<1>2. \A c \in 1..Copies : copies[c] = IF c <= copied THEN writing ELSE Durable
  BY DEF Copying
<1>3. 1 \in 1..Copies
  BY <1>1
<1>4. copied < Copies => Durable.sequence < writing.sequence /\ writing.count = Durable.count + 1
  BY <1>1 DEF Copying
<1>5. copied = Copies => Durable = writing
  BY <1>1, <1>2 DEF Durable
<1>6. copies[1] = writing \/ (copies[1] = Durable /\ copied = 0)
  BY <1>1, <1>2, <1>3
<1>7. ASSUME NEW c \in 1..Copies
      PROVE  copies[c].sequence <= copies[1].sequence
             /\ (copies[c].sequence = copies[1].sequence => copies[c] = copies[1])
  <2>1. CASE copied = 0
    <3>1. copies[c] = Durable /\ copies[1] = Durable
      BY <1>2, <1>3, <2>1, <1>1
    <3> QED
      BY <3>1, <1>1
  <2>2. CASE copied # 0
    <3>1. copies[1] = writing
      BY <1>2, <1>3, <2>2, <1>1
    <3>2. copies[c] = writing \/ (copies[c] = Durable /\ copied < Copies)
      BY <1>1, <1>2
    <3> QED
      BY <3>1, <3>2, <1>1, <1>4
  <2> QED
    BY <2>1, <2>2
<1>8. Newest = copies[1]
  <2>1. ToSet(copies) = {copies[c] : c \in 1..Copies}
    BY DEF ToSet, FileTypes
  <2>2. copies[1] \in ToSet(copies)
    BY <2>1, <1>3
  <2>3. \A d \in ToSet(copies) : copies[1].sequence >= d.sequence
    <3>1. \A c \in 1..Copies : copies[c].sequence \in Nat
      BY DEF FileTypes, Superblocks
    <3> QED
      BY <2>1, <3>1, <1>3, <1>7
  <2>4. ASSUME NEW c \in ToSet(copies), \A d \in ToSet(copies) : c.sequence >= d.sequence
        PROVE  c = copies[1]
    <3>1. c.sequence >= copies[1].sequence
      BY <2>2, <2>4
    <3>2. PICK i \in 1..Copies : c = copies[i]
      BY <2>1
    <3>3. copies[i].sequence \in Nat /\ copies[1].sequence \in Nat
      <4>1. copies[i] \in Superblocks /\ copies[1] \in Superblocks
        BY <1>3 DEF FileTypes
      <4> QED
        BY <4>1 DEF Superblocks
    <3> QED
      BY <3>1, <3>2, <3>3, <1>7
  <2> QED
    BY <2>2, <2>3, <2>4 DEF Newest
<1>9. writing.count = Len(manifest)
  BY DEF Copying
<1> QED
  BY <1>1, <1>4, <1>5, <1>6, <1>7, <1>8, <1>9, SMTT(30)

\* A formatted file.
LEMMA FileInitially ==
  ASSUME FileInit
  PROVE  FileInv
<1>1. Copies \in Nat /\ Copies > 0 /\ Blocks \in Nat /\ MaxCheckpoints \in Nat
      /\ MaxOps \in Nat /\ SlotCount \in Nat
  BY FileAssumption
<1>2. Formatted \in Superblocks
  BY <1>1 DEF Formatted, Superblocks
<1>3. /\ log = <<>> /\ commit = 0 /\ copies = [c \in 1..Copies |-> Formatted]
      /\ grid = [a \in 1..Blocks |-> [type |-> "free"]]
      /\ headers = [s \in 0..(SlotCount - 1) |-> 0] /\ bodies = headers
      /\ writing = Formatted /\ copied = Copies
      /\ manifest = <<>> /\ tables = {} /\ free = 1..Blocks
  BY DEF FileInit
<1>4. FileTypes
  <2>1. [type |-> "free"] \in FreeBlocks
    BY DEF FreeBlocks
  <2>2. grid \in [Addresses -> FreeBlocks \cup ManifestBlocks \cup IndexBlocks \cup ValueBlocks]
    BY <1>3, <2>1 DEF Addresses
  <2>3. headers \in [0..(SlotCount - 1) -> 0..MaxOps]
    BY <1>1, <1>3
  <2>4. IsFiniteSet(tables)
    BY <1>3, FS_EmptySet
  <2>5. log \in Seq(Prepares) /\ commit \in 0..Len(log) /\ manifest \in Seq(Addresses)
    BY <1>3
  <2> QED
    BY <1>1, <1>2, <1>3, <2>2, <2>3, <2>4, <2>5 DEF FileTypes, Addresses
<1>5. Durable = Formatted
  BY <1>1, <1>3 DEF Durable
<1>6. Len(manifest) = 0 /\ 1..0 = {}
  BY <1>3
<1>7. Copying
  BY <1>1, <1>3, <1>5, <1>6 DEF Copying, Formatted, Link
<1>8. ManifestIsLinked /\ TablesAreStored
  BY <1>3, <1>6 DEF ManifestIsLinked, TablesAreStored
<1>9. \A tree : LiveAt(0, tree) = {}
  BY <1>6 DEF LiveAt
<1>10. LiveTablesAreKnown /\ LiveTablesAreKept
  BY <1>3, <1>5, <1>9 DEF LiveTablesAreKnown, LiveTablesAreKept, Formatted
<1> QED
  BY <1>4, <1>7, <1>8, <1>10 DEF FileInv

gridVars == <<copies, grid, writing, copied, manifest, tables, free>>

\* What depends on the superblocks and the grid alone.
LEMMA GridFrame ==
  ASSUME UNCHANGED gridVars
  PROVE  /\ Durable' = Durable /\ Copying' = Copying /\ ManifestIsLinked' = ManifestIsLinked
         /\ TablesAreStored' = TablesAreStored
         /\ LiveTablesAreKnown' = LiveTablesAreKnown /\ LiveTablesAreKept' = LiveTablesAreKept
<1>1. /\ copies' = copies /\ grid' = grid /\ writing' = writing /\ copied' = copied
      /\ manifest' = manifest /\ tables' = tables /\ free' = free
  BY DEF gridVars
<1>2. Durable' = Durable /\ \A i : Link(i)' = Link(i) /\ EntriesIn(i)' = EntriesIn(i)
  BY <1>1 DEF Durable, Link, EntriesIn
<1>3. Copying' = Copying
  BY <1>1, <1>2 DEF Copying
<1>4. ManifestIsLinked' = ManifestIsLinked
  BY <1>1, <1>2 DEF ManifestIsLinked
<1>5. TablesAreStored' = TablesAreStored
  BY <1>1 DEF TablesAreStored, Stored
<1>6. \A n, tree : LiveAt(n, tree)' = LiveAt(n, tree)
  BY <1>2 DEF LiveAt, Says, Mentions, Addresses
<1>7. \A s, tree : Transient(s, tree)' = Transient(s, tree)
  BY <1>2 DEF Transient
<1>8. LiveTablesAreKnown' = LiveTablesAreKnown
  <2>1. \A tree : Transient(writing, tree)' = Transient(writing, tree)
    BY <1>1, <1>2 DEF Transient
  <2>2. \A tree : LiveAt(writing.count, tree)' = LiveAt(writing.count, tree)
    BY <1>1, <1>2 DEF LiveAt, Says, Mentions, Addresses
  <2> QED
    BY <1>1, <2>1, <2>2 DEF LiveTablesAreKnown
<1>9. LiveTablesAreKept' = LiveTablesAreKept
  <2>1. \A tree : Transient(Durable, tree)' = Transient(Durable, tree)
    BY <1>1, <1>2 DEF Transient
  <2>2. \A tree : LiveAt(Durable.count, tree)' = LiveAt(Durable.count, tree)
    BY <1>1, <1>2 DEF LiveAt, Says, Mentions, Addresses
  <2>3. \A a : Kept(a)' = Kept(a)
    BY <1>1 DEF Kept
  <2> QED
    BY <2>1, <2>2, <2>3 DEF LiveTablesAreKept
<1> QED
  BY <1>2, <1>3, <1>4, <1>5, <1>8, <1>9

\* The log's steps leave the grid alone.
LEMMA LogSteps ==
  ASSUME FileInv, Prepare \/ Commit
  PROVE  FileInv' /\ UNCHANGED gridVars
<1>1. UNCHANGED gridVars
  BY DEF Prepare, Commit, gridVars
<1>2. FileTypes'
  <2>1. /\ log \in Seq(Prepares) /\ commit \in 0..Len(log) /\ Len(log) \in Nat
        /\ headers \in [0..(SlotCount - 1) -> 0..MaxOps]
        /\ bodies \in [0..(SlotCount - 1) -> 0..MaxOps] /\ MaxOps \in Nat
        /\ Len(log) <= MaxOps
    BY FileAssumption DEF FileInv, FileTypes
  <2>2. ASSUME NEW f \in [0..(SlotCount - 1) -> 0..MaxOps], NEW s, NEW n \in 0..MaxOps
        PROVE  [f EXCEPT ![s] = n] \in [0..(SlotCount - 1) -> 0..MaxOps]
    OBVIOUS
  <2>3. CASE Prepare
    <3>1. /\ Len(log) < MaxOps /\ UNCHANGED <<commit, headers>> /\ commit = Len(log)
          /\ \E p \in Prepares : log' = Append(log, p)
          /\ bodies' = [bodies EXCEPT ![SlotOf(Len(log) + 1)] = Len(log) + 1]
      BY <2>3 DEF Prepare
    <3>2. log' \in Seq(Prepares) /\ Len(log') = Len(log) + 1
      BY <3>1, <2>1
    <3>3. commit' \in 0..Len(log') /\ Len(log) + 1 \in 0..MaxOps /\ Len(log') <= MaxOps
      BY <3>1, <3>2, <2>1
    <3>4. bodies' \in [0..(SlotCount - 1) -> 0..MaxOps]
      BY <3>1, <3>3, <2>1, <2>2
    <3>5. headers' \in [0..(SlotCount - 1) -> 0..MaxOps]
      BY <3>1, <2>1
    <3> QED
      BY <3>2, <3>3, <3>4, <3>5, <1>1 DEF FileInv, FileTypes, gridVars
  <2>4. CASE Commit
    <3>1. /\ UNCHANGED <<log, bodies>> /\ commit' = Len(log) /\ commit < Len(log)
          /\ headers' = [headers EXCEPT ![SlotOf(Len(log))] = Len(log)]
      BY <2>4 DEF Commit
    <3>2. log' \in Seq(Prepares) /\ commit' \in 0..Len(log') /\ Len(log) \in 0..MaxOps
          /\ Len(log') <= MaxOps /\ bodies' \in [0..(SlotCount - 1) -> 0..MaxOps]
      BY <3>1, <2>1
    <3>3. headers' \in [0..(SlotCount - 1) -> 0..MaxOps]
      BY <3>1, <3>2, <2>1, <2>2
    <3> QED
      BY <3>2, <3>3, <1>1 DEF FileInv, FileTypes, gridVars
  <2> QED
    BY <2>3, <2>4
<1> QED
  BY <1>1, <1>2, GridFrame DEF FileInv

\* A live table of the latest checkpoint is one of `tables`, so its blocks are
\* kept.
LEMMA KnownIsKept ==
  ASSUME FileInv, NEW tree \in Trees, ~Transient(writing, tree), NEW a \in LiveAt(writing.count, tree)
  PROVE  \E t \in tables : t.tree = tree /\ t.index = a /\ Stored(t) /\ t \in Tables
BY DEF FileInv, LiveTablesAreKnown, TablesAreStored, FileTypes

\* A copy of the superblock is written.  With the last one what the checkpoint
\* before needed is free.
LEMMA WritingACopy ==
  ASSUME FileInv, WriteCopy
  PROVE  FileInv'
<1>1. /\ copied < Copies /\ copies' = [copies EXCEPT ![copied + 1] = writing]
      /\ copied' = copied + 1
      /\ free' = IF copied' = Copies THEN Addresses \ InUse ELSE free
      /\ UNCHANGED <<log, commit, grid, headers, bodies, writing, manifest, tables>>
  BY DEF WriteCopy, Addresses
<1>2. /\ FileTypes /\ Copying /\ ManifestIsLinked /\ TablesAreStored
      /\ LiveTablesAreKnown /\ LiveTablesAreKept
  BY DEF FileInv
<1>3. Copies \in Nat /\ Copies > 0 /\ copied \in 0..Copies
      /\ copies \in [1..Copies -> Superblocks] /\ writing \in Superblocks /\ writing.count \in Nat
  BY <1>2, DurableTypes DEF FileTypes
<1>4. FileTypes'
  <2>1. copies' \in [1..Copies -> Superblocks] /\ copied' \in 0..Copies
    BY <1>1, <1>3
  <2>2. free' \subseteq Addresses
    BY <1>1, <1>2 DEF FileTypes
  <2> QED
    BY <1>1, <1>2, <2>1, <2>2 DEF FileTypes
<1>5. \A c \in 1..Copies : copies'[c] = IF c = copied + 1 THEN writing ELSE copies[c]
  BY <1>1, <1>3
<1>6. Durable' = IF copied + 1 = Copies THEN writing ELSE Durable
  BY <1>3, <1>5 DEF Durable
<1>7. \A i : Link(i)' = Link(i) /\ EntriesIn(i)' = EntriesIn(i)
  BY <1>1 DEF Link, EntriesIn
<1>8. Copying'
  <2>1. \A c \in 1..Copies : copies'[c] = IF c <= copied' THEN writing' ELSE Durable'
    <3> TAKE c \in 1..Copies
    <3>1. copies[c] = IF c <= copied THEN writing ELSE Durable
      BY <1>2 DEF Copying
    <3> QED
      BY <3>1, <1>1, <1>3, <1>5, <1>6
  <2>2. copied' < Copies => Durable' = Durable
    BY <1>1, <1>3, <1>6
  <2> QED
    BY <1>1, <1>2, <1>3, <1>6, <1>7, <2>1, <2>2 DEF Copying
<1>9. \A a \in Addresses : a \in free' => a \in free \/ (copied + 1 = Copies /\ a \notin InUse)
  BY <1>1
<1>10. \A i \in 1..Len(manifest) : manifest[i] \in InUse /\ manifest[i] \in Addresses
  BY <1>2 DEF InUse, ToSet, FileTypes
<1>11. \A t \in tables : t.index \in InUse /\ t.value \in InUse
                         /\ t.index \in Addresses /\ t.value \in Addresses
  BY <1>2 DEF InUse, FileTypes, Tables
<1>12. ManifestIsLinked'
  BY <1>1, <1>2, <1>7, <1>9, <1>10 DEF ManifestIsLinked
<1>13. ASSUME NEW t \in tables PROVE Stored(t)'
  <2>1. Stored(t)
    BY <1>2 DEF TablesAreStored
  <2> QED
    BY <2>1, <1>1, <1>9, <1>11 DEF Stored
<1>14. TablesAreStored'
  BY <1>1, <1>13 DEF TablesAreStored
<1>15. /\ \A n, tree : LiveAt(n, tree)' = LiveAt(n, tree)
       /\ \A s, tree : s' = s => Transient(s, tree)' = Transient(s, tree)
  BY <1>7 DEF LiveAt, Says, Mentions, Addresses, Transient
<1>16. \A tree : Transient(writing, tree)' = Transient(writing, tree)
  BY <1>1, <1>7 DEF Transient
<1>17. LiveTablesAreKnown'
  <2>1. \A tree : LiveAt(writing.count, tree)' = LiveAt(writing.count, tree)
    BY <1>1, <1>7 DEF LiveAt, Says, Mentions, Addresses
  <2> QED
    BY <1>1, <1>2, <1>16, <2>1 DEF LiveTablesAreKnown
<1>18. LiveTablesAreKept'
  <2>1. ASSUME NEW tree \in Trees, ~Transient(Durable, tree)', NEW a \in LiveAt(Durable.count, tree)'
        PROVE  Kept(a)'
    <3>1. CASE copied + 1 = Copies
      <4>1. ~Transient(writing, tree) /\ a \in LiveAt(writing.count, tree)
        BY <2>1, <3>1, <1>6, <1>7 DEF LiveAt, Says, Mentions, Addresses, Transient
      <4>2. PICK t \in tables : t.index = a /\ t \in Tables
        BY <4>1, KnownIsKept
      <4>3. Stored(t)'
        BY <1>13
      <4> QED
        BY <1>1, <4>2, <4>3 DEF Stored, Kept
    <3>2. CASE copied + 1 # Copies
      <4>1. ~Transient(Durable, tree) /\ a \in LiveAt(Durable.count, tree)
        BY <2>1, <3>2, <1>6, <1>7 DEF LiveAt, Says, Mentions, Addresses, Transient
      <4>2. Kept(a) /\ free' = free
        BY <4>1, <3>2, <1>1, <1>2 DEF LiveTablesAreKept
      <4> QED
        BY <1>1, <4>2 DEF Kept
    <3> QED
      BY <3>1, <3>2
  <2> QED
    BY <2>1 DEF LiveTablesAreKept
<1> QED
  BY <1>4, <1>8, <1>12, <1>14, <1>17, <1>18 DEF FileInv

\* A step that leaves everything alone that is not free, and only adds to the
\* manifest.
LeavesBlocks ==
  /\ \A a \in Addresses \ free : grid'[a] = grid[a]
  /\ \A i \in 1..Len(manifest) : manifest'[i] = manifest[i]

\* Manifest blocks of old keep their entries.
LEMMA LeavesEntries ==
  ASSUME FileInv, LeavesBlocks
  PROVE  \A i \in 1..Len(manifest) : EntriesIn(i)' = EntriesIn(i)
<1> TAKE i \in 1..Len(manifest)
<1>1. manifest[i] \in Addresses \ free
  BY DEF FileInv, FileTypes, ManifestIsLinked
<1>2. manifest'[i] = manifest[i] /\ grid'[manifest[i]] = grid[manifest[i]]
  BY <1>1 DEF LeavesBlocks
<1> QED
  BY <1>2 DEF EntriesIn

\* A checkpoint: the new manifest block mentions every table that is new, moved
\* or gone, so what is live afterwards is known.
LEMMA Checkpointing ==
  ASSUME FileInv, StartCheckpoint
  PROVE  FileInv' /\ LeavesBlocks
<1>1. /\ FileTypes /\ Copying /\ ManifestIsLinked /\ TablesAreStored
      /\ LiveTablesAreKnown /\ LiveTablesAreKept
  BY DEF FileInv
<1>2. /\ Copies \in Nat /\ Copies > 0 /\ Durable \in Superblocks /\ Durable.checkpoint \in Nat
      /\ Durable.count \in Nat /\ Durable.sequence \in Nat /\ MaxCheckpoints \in Nat
      /\ Len(manifest) \in Nat /\ Len(log) \in Nat /\ commit \in Nat
  BY <1>1, DurableTypes DEF FileTypes
<1>3. /\ copied = Copies /\ Durable.sequence <= MaxCheckpoints /\ Durable.checkpoint < commit
      /\ copied' = 0 /\ UNCHANGED <<log, commit, copies, headers, bodies>>
  BY <1>2 DEF StartCheckpoint
<1>4. PICK how : CanCheckpoint(how)
  BY <1>2, <1>3 DEF StartCheckpoint, CanCheckpoint
<1> DEFINE placed == Places(how)
           gone == Gone(how, placed)
           block == ManifestBlock(how, placed)
<1>0. PICK L \in Nat : L = Len(manifest)
  BY <1>2
<1>5. Durable = writing /\ Durable' = Durable
  <2>1. Copies \in 1..Copies /\ Copies <= copied
    BY <1>2, <1>3
  <2> QED
    BY <1>1, <1>3, <2>1 DEF Copying, Durable
<1>6. /\ Durable.count = L /\ L \in Nat /\ Durable.sequence = L + 1 /\ Durable.newest = Link(L)
  BY <1>0, <1>1, <1>5 DEF Copying
<1>7. /\ placed \in Seq(Tables) /\ NewAddress \in free /\ NewAddress \in Addresses
      /\ \A i \in DOMAIN placed : placed[i].index \in free \ {NewAddress}
                                  /\ placed[i].value \in free \ {NewAddress}
  BY <1>1, <1>4, PlacesAreFree DEF FileTypes
<1>8. /\ \A a \in Addresses \ free : grid'[a] = grid[a]
      /\ grid'[NewAddress] = block
      /\ NewAddress \notin free' /\ free' \subseteq free
      /\ manifest' = Append(manifest, NewAddress)
      /\ tables' = (tables \cup ToSet(placed)) \ gone
      /\ writing' = [sequence |-> Durable.sequence + 1, newest |-> NewAddress,
                     count |-> Durable.count + 1, checkpoint |-> commit]
  BY <1>1, <1>4, CheckpointWrites
<1>9. ASSUME NEW i \in DOMAIN placed
      PROVE  /\ grid'[placed[i].index] = [type |-> "index", values |-> {placed[i].value}]
             /\ grid'[placed[i].value] =
                  [type |-> "value", objects |-> TableObjects(NewTables(how)[i])]
             /\ placed[i].index \notin free' /\ placed[i].value \notin free'
             /\ placed[i] \in Tables
             /\ grid'[placed[i].index] \in IndexBlocks
             /\ grid'[placed[i].index].values = {placed[i].value}
             /\ grid'[placed[i].value] \in ValueBlocks
  <2>1. NewTables(how)[i] \in NewTableSet
    BY <1>1, <1>4, PlacesAreFree
  <2>2. placed[i] \in Tables
    BY <1>7
  <2>3. /\ grid'[placed[i].index] = [type |-> "index", values |-> {placed[i].value}]
        /\ grid'[placed[i].value] =
             [type |-> "value", objects |-> TableObjects(NewTables(how)[i])]
        /\ placed[i].index \notin free' /\ placed[i].value \notin free'
    BY <1>1, <1>4, CheckpointWrites
  <2>4. TableObjects(NewTables(how)[i]) \in Seq(Records)
    BY <1>1, <2>1, TableObjectsTypes
  <2>5. {placed[i].value} \in SUBSET Addresses
    BY <2>2 DEF Tables
  <2> HIDE DEF placed
  <2>6. [type |-> "index", values |-> {placed[i].value}] \in IndexBlocks
    BY <2>5 DEF IndexBlocks
  <2>7. [type |-> "value", objects |-> TableObjects(NewTables(how)[i])] \in ValueBlocks
    BY <2>4 DEF ValueBlocks
  <2> QED
    BY <2>2, <2>3, <2>6, <2>7
<1>10. /\ block \in ManifestBlocks /\ block.previous = Durable.newest
       /\ ToSet(block.entries) = {Entry(t, "insert") : t \in ToSet(placed)}
              \cup {Entry(t, "update") : t \in Moved(how)} \cup {Entry(t, "remove") : t \in gone}
  BY <1>1, <1>4, NewManifestBlock
<1>11. \A a \in Addresses :
         \/ grid'[a] = grid[a] \/ a = NewAddress
         \/ \E i \in DOMAIN placed : a = placed[i].index \/ a = placed[i].value
  BY <1>1, <1>4, CheckpointWrites
<1>12. grid' = [a \in Addresses |-> grid'[a]]
  BY <1>1, <1>4, CheckpointWrites
<1>13. /\ Moved(how) \subseteq tables /\ gone \subseteq tables \cup ToSet(placed)
       /\ (how # "transient" => gone \subseteq tables)
       /\ (how = "transient" => 1 \in DOMAIN placed /\ gone = {placed[1]} \cup Live("accounts"))
       /\ \A t \in Moved(how) : t \notin gone
  BY <1>1, <1>4, GoneAndMoved
<1> HIDE DEF placed, gone, block
<1>14. manifest' \in Seq(Addresses) /\ Len(manifest') = L + 1
       /\ manifest'[L + 1] = NewAddress /\ \A i \in 1..L : manifest'[i] = manifest[i]
  <2>1. manifest \in Seq(Addresses)
    BY <1>1 DEF FileTypes
  <2> QED
    BY <1>0, <1>7, <1>8, <2>1
<1>15. LeavesBlocks
  BY <1>0, <1>8, <1>14 DEF LeavesBlocks
<1>16. \A i \in 1..L : EntriesIn(i)' = EntriesIn(i)
  BY <1>0, <1>15, LeavesEntries
<1>17. EntriesIn(L + 1)' = block.entries
  BY <1>8, <1>14 DEF EntriesIn
<1>18. FileTypes'
  <2>1. ASSUME NEW a \in Addresses
        PROVE  grid'[a] \in FreeBlocks \cup ManifestBlocks \cup IndexBlocks \cup ValueBlocks
    <3>1. CASE grid'[a] = grid[a]
      BY <3>1, <1>1 DEF FileTypes
    <3>2. CASE a = NewAddress
      BY <3>2, <1>8, <1>10
    <3>3. CASE \E i \in DOMAIN placed : a = placed[i].index \/ a = placed[i].value
      <4>1. PICK i \in DOMAIN placed : a = placed[i].index \/ a = placed[i].value
        BY <3>3
      <4> QED
        BY <1>9, <4>1
    <3> QED
      BY <1>11, <3>1, <3>2, <3>3
  <2>2. grid' \in [Addresses -> FreeBlocks \cup ManifestBlocks \cup IndexBlocks \cup ValueBlocks]
    BY <2>1, <1>12
  <2>3. writing' \in Superblocks
    <3>1. L + 2 \in 1..(MaxCheckpoints + 1) /\ L + 1 \in 0..MaxCheckpoints /\ NewAddress \in 0..Blocks
      BY <1>2, <1>3, <1>6, <1>7 DEF Addresses
    <3>2. Durable.sequence + 1 = L + 2 /\ Durable.count + 1 = L + 1
      BY <1>2, <1>6
    <3>3. NewAddress # 0 /\ L + 1 # 0 /\ commit \in Nat
      BY <1>2, <1>7 DEF Addresses
    <3>4. writing' = [sequence |-> L + 2, newest |-> NewAddress, count |-> L + 1, checkpoint |-> commit]
      BY <1>8, <3>2
    <3>5. [sequence |-> L + 2, newest |-> NewAddress, count |-> L + 1, checkpoint |-> commit] \in Superblocks
      BY <3>1, <3>3 DEF Superblocks
    <3> QED
      BY <3>4, <3>5
  <2>4. tables' \subseteq Tables /\ IsFiniteSet(tables')
    <3>1. IsFiniteSet(ToSet(placed)) /\ ToSet(placed) \subseteq Tables
      BY <1>7, ToSetIsFinite
    <3>2. IsFiniteSet(tables \cup ToSet(placed)) /\ tables \cup ToSet(placed) \subseteq Tables
      BY <3>1, <1>1, FS_Union DEF FileTypes
    <3>3. tables' \in SUBSET (tables \cup ToSet(placed))
      BY <1>8
    <3> QED
      BY <3>2, <3>3, FS_Subset
  <2>5. free' \subseteq Addresses /\ copied' \in 0..Copies
    BY <1>1, <1>2, <1>3, <1>8 DEF FileTypes
  <2> QED
    BY <1>1, <1>3, <1>14, <2>2, <2>3, <2>4, <2>5 DEF FileTypes
<1>19. Copying'
  <2>1. /\ writing'.sequence = L + 2 /\ writing'.count = L + 1 /\ writing'.newest = NewAddress
        /\ writing'.checkpoint = commit
    BY <1>2, <1>6, <1>8
  <2>2. \A c \in 1..Copies : copies'[c] = IF c <= copied' THEN writing' ELSE Durable'
    <3> TAKE c \in 1..Copies
    <3>1. c <= copied /\ ~(c <= copied')
      BY <1>2, <1>3
    <3> QED
      BY <3>1, <1>1, <1>3, <1>5 DEF Copying
  <2>3. Link(L + 1)' = NewAddress /\ Link(L)' = Link(L)
    BY <1>2, <1>14 DEF Link
  <2>4. Durable'.newest = Link(L)' /\ Durable'.count = L
    BY <1>5, <1>6, <2>3
  <2>5. writing'.newest = Link(L + 1)'
    BY <2>1, <2>3
  <2>6. (Durable.newest = Link(Durable.count))' /\ (writing.newest = Link(writing.count))'
    BY <2>1, <2>4, <2>5 DEF Link
  <2> QED
    BY <1>2, <1>3, <1>5, <1>6, <1>14, <2>1, <2>2, <2>6 DEF Copying
<1>20. ManifestIsLinked'
  <2>1. ASSUME NEW i \in 1..(L + 1)
        PROVE  /\ manifest'[i] \notin free' /\ grid'[manifest'[i]] \in ManifestBlocks
               /\ grid'[manifest'[i]].previous = Link(i - 1)'
    <3>1. CASE i = L + 1
      <4>1. manifest'[i] = NewAddress /\ grid'[NewAddress] = block
        BY <3>1, <1>8, <1>14
      <4>2. Link(i - 1)' = Link(L)
        BY <3>1, <1>2, <1>14 DEF Link
      <4> QED
        BY <4>1, <4>2, <1>6, <1>8, <1>10
    <3>2. CASE i # L + 1
      <4>1. i \in 1..L /\ manifest'[i] = manifest[i]
        BY <3>2, <1>2, <1>14
      <4>2. manifest[i] \notin free /\ grid[manifest[i]] \in ManifestBlocks
            /\ grid[manifest[i]].previous = Link(i - 1) /\ manifest[i] \in Addresses
        BY <4>1, <1>0, <1>1 DEF ManifestIsLinked, FileTypes
      <4>3. Link(i - 1)' = Link(i - 1)
        BY <4>1, <1>2, <1>14 DEF Link
      <4> QED
        BY <4>1, <4>2, <4>3, <1>8
    <3> QED
      BY <3>1, <3>2
  <2> QED
    BY <2>1, <1>14 DEF ManifestIsLinked
<1>21. ASSUME NEW t \in tables PROVE Stored(t)' /\ t \in Tables
  <2>1. Stored(t) /\ t \in Tables
    BY <1>1 DEF TablesAreStored, FileTypes
  <2>2. t.index \in Addresses /\ t.value \in Addresses
    BY <2>1 DEF Tables
  <2> QED
    BY <2>1, <2>2, <1>8 DEF Stored
<1>22. ASSUME NEW t \in ToSet(placed) PROVE Stored(t)'
  <2>1. PICK i \in DOMAIN placed : t = placed[i]
    BY DEF ToSet
  <2> QED
    BY <2>1, <1>9 DEF Stored
<1>23. TablesAreStored'
  BY <1>8, <1>21, <1>22 DEF TablesAreStored
<1>24. \A tree : Transient(writing, tree) => Transient(writing, tree)'
  <2>1. writing.count = L /\ writing'.count \in Nat /\ L <= writing'.count
    BY <1>2, <1>5, <1>6, <1>8
  <2> QED
    BY <1>2, <1>16, <2>1 DEF Transient
<1>25. /\ \A tree : LiveAt(L, tree)' = LiveAt(L, tree)
       /\ \A i \in 1..L : \A tree, a, event : Says(i, L, tree, a, event)' = Says(i, L, tree, a, event)
  <2>1. L \in 0..L /\ L \in Nat
    OBVIOUS
  <2> QED
    BY <1>16, <2>1, SameEntries
<1>26. LiveTablesAreKnown'
  <2>1. SUFFICES ASSUME NEW tree \in Trees, ~Transient(writing, tree)', NEW a \in LiveAt(writing.count, tree)'
                 PROVE  \E t \in tables' : t.tree = tree /\ t.index = a
    BY DEF LiveTablesAreKnown
  <2>2. writing'.count = L + 1
    BY <1>2, <1>6, <1>8
  <2>3. PICK i \in 1..(L + 1), event \in {"insert", "update"} : Says(i, L + 1, tree, a, event)'
    BY <2>1, <2>2 DEF LiveAt
  <2>4. CASE i = L + 1
    <3>1. PICK j \in DOMAIN block.entries :
            /\ block.entries[j].address = a /\ block.entries[j].event = event
            /\ block.entries[j].tree = tree
      BY <2>3, <2>4, <1>17 DEF Says, FirstMet
    <3>2. block.entries[j] \in ToSet(block.entries)
      BY DEF ToSet
    <3>3. CASE \E t \in ToSet(placed) : block.entries[j] = Entry(t, "insert")
      <4>1. PICK t \in ToSet(placed) : block.entries[j] = Entry(t, "insert")
        BY <3>3
      <4>2. t.index = a /\ t.tree = tree
        BY <3>1, <4>1 DEF Entry
      <4>3. t \notin tables
        <5>1. PICK k \in DOMAIN placed : t = placed[k]
          BY DEF ToSet
        <5>2. t.index \in free
          BY <5>1, <1>7
        <5> QED
          BY <5>2, <1>1 DEF TablesAreStored, Stored
      <4>4. t \notin gone
        <5>1. SUFFICES ASSUME t \in gone PROVE FALSE
          OBVIOUS
        <5>2. Entry(t, "insert") \in ToSet(block.entries) /\ Entry(t, "remove") \in ToSet(block.entries)
          BY <1>10, <5>1
        <5>3. Entry(t, "insert").address = Entry(t, "remove").address
              /\ Entry(t, "insert").event = "insert" /\ Entry(t, "remove").event = "remove"
              /\ Entry(t, "insert").tree = tree /\ Entry(t, "remove").tree = tree
          BY <4>2 DEF Entry
        <5>4. L + 1 \in 1..writing'.count
          BY <2>2, <1>2
        <5>5. \E x, y \in ToSet(EntriesIn(L + 1)') :
                /\ x.tree = tree /\ y.tree = tree /\ x.address = y.address
                /\ x.event = "insert" /\ y.event = "remove"
          BY <5>2, <5>3, <1>17
        <5> QED
          BY <2>1, <5>4, <5>5 DEF Transient
      <4> QED
        BY <4>2, <4>4, <1>8
    <3>4. CASE \E t \in Moved(how) : block.entries[j] = Entry(t, "update")
      <4>1. PICK t \in Moved(how) : block.entries[j] = Entry(t, "update")
        BY <3>4
      <4>2. t.index = a /\ t.tree = tree
        BY <3>1, <4>1 DEF Entry
      <4> QED
        BY <4>2, <1>8, <1>13
    <3>5. CASE \E t \in gone : block.entries[j] = Entry(t, "remove")
      BY <3>1, <3>5 DEF Entry
    <3> QED
      BY <3>2, <3>3, <3>4, <3>5, <1>10
  <2>5. CASE i # L + 1
    <3>1. i \in 1..L
      BY <2>5, <1>2
    <3>2. Says(i, L, tree, a, event)'
      <4>1. \A k \in (i + 1)..L : k \in (i + 1)..(L + 1)
        BY <1>2, <3>1
      <4> QED
        BY <2>3, <4>1 DEF Says
    <3>3. a \in LiveAt(L, tree)
      BY <3>1, <3>2, <1>25, <2>1 DEF LiveAt, Addresses
    <3>4. PICK t \in tables : t.tree = tree /\ t.index = a
      <4>1. ~Transient(writing, tree) /\ L = writing.count
        BY <1>5, <1>6, <1>24, <2>1
      <4> QED
        BY <4>1, <3>3, <1>1 DEF LiveTablesAreKnown
    <3>5. t \notin gone
      <4>1. SUFFICES ASSUME t \in gone PROVE FALSE
        OBVIOUS
      <4>2. Entry(t, "remove") \in ToSet(EntriesIn(L + 1)')
        BY <4>1, <1>10, <1>17
      <4>3. Mentions(L + 1, a, tree)'
        BY <4>2, <3>4 DEF Mentions, Entry
      <4>4. L + 1 \in (i + 1)..(L + 1)
        BY <1>2, <3>1
      <4> QED
        BY <2>3, <4>3, <4>4 DEF Says
    <3> QED
      BY <3>4, <3>5, <1>8
  <2> QED
    BY <2>4, <2>5
<1>27. LiveTablesAreKept'
  <2>1. SUFFICES ASSUME NEW tree \in Trees, ~Transient(Durable, tree)', NEW a \in LiveAt(Durable.count, tree)'
                 PROVE  Kept(a)'
    BY DEF LiveTablesAreKept
  <2>2. ~Transient(writing, tree)
    <3>1. Durable'.count = L /\ writing.count = L
      BY <1>5, <1>6
    <3> QED
      BY <2>1, <3>1, <1>16 DEF Transient
  <2>3. a \in LiveAt(writing.count, tree)
    <3>1. Durable'.count = L /\ writing.count = L
      BY <1>5, <1>6
    <3>2. a \in LiveAt(L, tree)'
      BY <2>1, <3>1 DEF LiveAt
    <3> QED
      BY <3>1, <3>2, <1>25
  <2>4. PICK t \in tables : t.index = a
    BY <2>2, <2>3, KnownIsKept
  <2> QED
    BY <2>4, <1>21 DEF Stored, Kept
<1> QED
  BY <1>15, <1>18, <1>19, <1>20, <1>23, <1>26, <1>27 DEF FileInv

(***************************************************************************)
(* The replica and a reader.                                               *)
(***************************************************************************)

\* What is live at either superblock has its blocks.
LEMMA LiveIsKept ==
  ASSUME FileInv, NEW s \in {writing, Durable}, NEW tree \in Trees,
         ~Transient(s, tree), NEW a \in LiveAt(s.count, tree)
  PROVE  Kept(a)
<1>1. CASE s = Durable
  BY <1>1 DEF FileInv, LiveTablesAreKept
<1>2. CASE s = writing
  <2>1. PICK t \in tables : t.index = a /\ Stored(t)
    BY <1>2, KnownIsKept
  <2> QED
    BY <2>1 DEF Stored, Kept
<1> QED
  BY <1>1, <1>2

\* A step of the replica writes free blocks only.  The newest superblock stays
\* what it is, or is replaced by one with a higher sequence.
LEMMA ReplicaSteps ==
  ASSUME FileInv, Replica
  PROVE  /\ FileInv' /\ LeavesBlocks
         /\ copies'[1] = copies[1] \/ copies[1].sequence < copies'[1].sequence
<1>1. FileTypes /\ Copying
  BY DEF FileInv
<1>2. CASE Prepare \/ Commit
  BY <1>2, LogSteps DEF LeavesBlocks, gridVars
<1>3. CASE StartCheckpoint
  BY <1>3, Checkpointing DEF StartCheckpoint
<1>4. CASE WriteCopy
  <2>1. FileInv'
    BY <1>4, WritingACopy
  <2>2. LeavesBlocks
    BY <1>4 DEF WriteCopy, LeavesBlocks
  <2>3. copies[1] = writing \/ (copies[1] = Durable /\ copied = 0)
    BY <1>1, FirstIsNewest
  <2>4. /\ Copies \in Nat /\ Copies > 0 /\ copied \in 0..Copies /\ copied < Copies
        /\ Durable.sequence \in Nat /\ writing.sequence = Durable.sequence + 1
        /\ copies \in [1..Copies -> Superblocks]
    BY <1>1, <1>4, DurableTypes DEF WriteCopy, Copying, FileTypes
  <2>5. copies'[1] = IF copied = 0 THEN writing ELSE copies[1]
    BY <1>4, <2>4 DEF WriteCopy
  <2>6. copied # 0 => copies[1] = writing
    BY <2>3
  <2> QED
    BY <2>1, <2>2, <2>3, <2>4, <2>5
<1> QED
  BY <1>2, <1>3, <1>4 DEF Replica

\* A reader's progress is worth what it was.
LEMMA ReplicaLeavesReader ==
  ASSUME FileInv, ReaderInv, Replica, UNCHANGED <<readerVars, began, answer>>,
         answer.status # "failed"
  PROVE  ReaderInv'
<1>1. /\ FileInv' /\ LeavesBlocks
      /\ copies'[1] = copies[1] \/ copies[1].sequence < copies'[1].sequence
  BY ReplicaSteps
<1>2. /\ call' = call /\ pc' = pc /\ sb' = sb /\ copy' = copy /\ walk' = walk /\ iter' = iter
      /\ slot' = slot /\ out' = out /\ began' = began /\ answer' = answer
  BY DEF readerVars
<1>3. ReaderTypes /\ BeganBefore /\ Reading /\ FileTypes /\ Copying
  BY DEF ReaderInv, FileInv
<1>4. ReaderTypes'
  BY <1>2, <1>3 DEF ReaderTypes
<1>5. /\ copies[1].sequence \in Nat /\ copies'[1].sequence \in Nat /\ began.sb.sequence \in Nat
      /\ copies[1].count \in 0..Len(manifest) /\ Len(manifest) \in Nat
  <2>1. copies[1] \in Superblocks /\ copies'[1] \in Superblocks
    <3>1. copies' \in [1..Copies -> Superblocks] /\ copies \in [1..Copies -> Superblocks]
      BY <1>1 DEF FileInv, FileTypes
    <3>2. 1 \in 1..Copies
      BY FileAssumption
    <3> QED
      BY <3>1, <3>2
  <2>2. began.sb \in Superblocks
    BY <1>3 DEF BeganBefore
  <2>3. copies[1].count \in 0..Len(manifest) /\ Len(manifest) \in Nat
    BY <1>3, FirstIsNewest DEF FileTypes
  <2>4. \A s \in Superblocks : s.sequence \in Nat
    BY DEF Superblocks
  <2> QED
    BY <2>1, <2>2, <2>3, <2>4
<1>6. BeganBefore'
  BY <1>1, <1>2, <1>3, <1>5 DEF BeganBefore
<1>7. Answering'
  BY <1>2 DEF ReaderInv, Answering, All
<1>8. Reading'
  <2>1. SUFFICES ASSUME pc # "idle" PROVE Reading'
    BY <1>2 DEF Reading
  <2>2. CASE copies'[1] # copies[1]
    <3>1. copies'[1] # began.sb
      BY <1>1, <1>3, <1>5, <2>2 DEF BeganBefore
    <3> QED
      BY <3>1, <2>1, <1>2, <1>3 DEF Reading
  <2>3. CASE copies'[1] = copies[1]
    <3>1. SUFFICES ASSUME copies[1] = began.sb
                   PROVE  (Electing /\ Walking /\ Iterating
                           /\ (pc = "failed" => ExcusedBy(copies[1])))'
      BY <1>2, <1>3, <2>1, <2>3 DEF Reading
    <3>2. Electing /\ Walking /\ Iterating /\ (pc = "failed" => ExcusedBy(copies[1]))
      BY <1>3, <2>1, <3>1 DEF Reading
    <3>3. PICK n \in Nat : n = copies[1].count /\ n \in 0..Len(manifest)
      BY <1>5
    <3>4. \A i \in 1..Len(manifest) : EntriesIn(i)' = EntriesIn(i)
      BY <1>1, LeavesEntries
    <3>5. \A i \in 1..n : EntriesIn(i)' = EntriesIn(i)
      BY <3>3, <3>4, <1>5
    <3>6. /\ \A tree : LiveAt(n, tree)' = LiveAt(n, tree)
          /\ \A i \in 1..n : \A a, tree : Mentions(i, a, tree)' = Mentions(i, a, tree)
          /\ \A i \in 1..n : \A m \in 0..n : \A tree, a, event :
               Says(i, m, tree, a, event)' = Says(i, m, tree, a, event)
      BY <3>5, SameEntries
    <3>7. \A tree : Transient(copies[1], tree)' <=> Transient(copies[1], tree)
      BY <2>3, <3>3, <3>5 DEF Transient
    <3>8. \A i \in 0..n : Link(i)' = Link(i)
      BY <1>1, <1>5, <3>3 DEF Link, LeavesBlocks
    <3>9. Electing'
      BY <1>2, <2>3, <3>2 DEF Electing
    <3>10. (pc = "failed" => ExcusedBy(copies[1]))'
      BY <1>2, <2>3, <3>2, <3>7 DEF ExcusedBy
    <3>11. Walking'
      <4>1. SUFFICES ASSUME pc = "manifest" PROVE Walking'
        BY <1>2 DEF Walking
      <4>2. /\ sb = copies[1] /\ walk.visited < n /\ walk.address = Link(n - walk.visited)
            /\ SeenFrom(walk.seen, n - walk.visited, n, call.tree)
        BY <4>1, <3>2, <3>3 DEF Walking, Electing
      <4>3. PICK v \in 0..n : v = walk.visited /\ n - v \in 0..n
        <5>1. walk.visited \in Nat
          BY <1>3, FileAssumption DEF ReaderTypes
        <5>2. walk.visited \in 0..n /\ n - walk.visited \in 0..n
          BY <4>2, <5>1
        <5> QED
          BY <5>2
      <4>4. Link(n - v)' = Link(n - v)
        BY <3>8, <4>3
      <4>5. SeenFrom(walk.seen, n - v, n, call.tree)'
        <5>1. n \in 0..n /\ \A i \in ((n - v) + 1)..n : i \in 1..n
          BY <4>3
        <5> QED
          BY <5>1, <3>6, <4>2, <4>3, <1>2 DEF SeenFrom, Addresses
      <4>6. sb'.count = n /\ walk'.visited = v /\ sb' = copies'[1]
        BY <1>2, <2>3, <3>3, <4>2, <4>3
      <4> QED
        BY <1>2, <4>2, <4>3, <4>4, <4>5, <4>6 DEF Walking, SeenFrom, Link
    <3>12. Iterating'
      <4>1. SUFFICES ASSUME pc = "lsm", ~Transient(copies[1], call.tree)
                     PROVE  /\ iter'.tables \subseteq LiveAt(n, call.tree)'
                            /\ \A v \in iter'.values : \E a \in LiveAt(n, call.tree)' : v \in grid'[a].values
        <5>1. pc = "lsm" => sb = copies[1]
          BY <3>2 DEF Electing
        <5>2. pc = "lsm" => (Transient(sb, call.tree)' <=> Transient(copies[1], call.tree))
          BY <5>1, <1>2, <2>3, <3>7 DEF Transient
        <5> QED
          BY <1>2, <2>3, <3>3, <5>1, <5>2 DEF Iterating, LiveAt
      <4>2. /\ iter.tables \subseteq LiveAt(n, call.tree)
            /\ \A v \in iter.values : \E a \in LiveAt(n, call.tree) : v \in grid[a].values
        BY <3>2, <3>3, <4>1 DEF Iterating, Electing
      <4>3. \A a \in LiveAt(n, call.tree) : grid'[a] = grid[a]
        <5> TAKE a \in LiveAt(n, call.tree)
        <5>1. copies[1] \in {writing, Durable} /\ call.tree \in Trees
          BY <1>3, FirstIsNewest DEF ReaderTypes, Calls
        <5>2. Kept(a) /\ a \in Addresses
          BY <3>3, <4>1, <5>1, LiveIsKept DEF LiveAt
        <5> QED
          BY <5>2, <1>1 DEF Kept, LeavesBlocks
      <4>4. LiveAt(n, call.tree)' = LiveAt(n, call.tree)
        <5>1. \A tree : LiveAt(n, tree)' = LiveAt(n, tree)
          BY <3>6
        <5> QED
          BY <5>1, <1>2 DEF LiveAt
      <4> QED
        BY <1>2, <4>2, <4>3, <4>4
    <3> QED
      BY <3>9, <3>10, <3>11, <3>12
  <2> QED
    BY <2>2, <2>3
<1> QED
  BY <1>4, <1>6, <1>7, <1>8 DEF ReaderInv

(***************************************************************************)
(* The reader's steps.                                                     *)
(***************************************************************************)

\* What the reader's steps use of the superblocks.
LEMMA SuperblockTypes ==
  ASSUME FileInv, ReaderTypes
  PROVE  /\ copies[1] \in Superblocks /\ copies[1].sequence \in Nat \ {0}
         /\ copies[1].count \in 0..MaxCheckpoints /\ copies[1].count \in 0..Len(manifest)
         /\ \A c \in 1..Copies : /\ copies[c] \in Superblocks
                                 /\ copies[c].sequence \in Nat /\ copies[c].sequence > 0
                                 /\ copies[c].sequence <= copies[1].sequence
         /\ sb.sequence \in Nat /\ sb.count \in 0..MaxCheckpoints /\ sb.newest \in 0..Blocks
         /\ Copies \in Nat /\ Copies > 0 /\ MaxCheckpoints \in Nat /\ Blocks \in Nat
         /\ Len(manifest) \in Nat
<1>1. FileTypes /\ Copying
  BY DEF FileInv
<1>2. Copies \in Nat /\ Copies > 0 /\ MaxCheckpoints \in Nat /\ Blocks \in Nat /\ 1 \in 1..Copies
  BY FileAssumption
<1>3. copies \in [1..Copies -> Superblocks] /\ Len(manifest) \in Nat
  BY <1>1 DEF FileTypes
<1>4. \A s \in Superblocks : /\ s.sequence \in Nat /\ s.sequence > 0
                             /\ s.count \in 0..MaxCheckpoints /\ s.newest \in 0..Blocks
  BY <1>2 DEF Superblocks
<1>5. NoSuperblock.sequence = 0 /\ NoSuperblock.count = 0 /\ NoSuperblock.newest = 0
  BY DEF NoSuperblock
<1>6. sb.sequence \in Nat /\ sb.count \in 0..MaxCheckpoints /\ sb.newest \in 0..Blocks
  BY <1>2, <1>4, <1>5 DEF ReaderTypes
<1>7. \A c \in 1..Copies : copies[c].sequence <= copies[1].sequence
  BY <1>1, FirstIsNewest
<1>8. copies[1].count \in 0..Len(manifest)
  BY <1>1, FirstIsNewest
<1> QED
  BY <1>2, <1>3, <1>4, <1>6, <1>7, <1>8

\* The first read makes the newest superblock the best one, and no copy is
\* better than it.
LEMMA Election ==
  ASSUME FileInv, ReaderTypes, Electing, pc = "superblock"
  PROVE  (IF Better(copies[copy]) THEN copies[copy] ELSE sb) = copies[1]
<1>1. /\ copies[1].sequence \in Nat /\ copies[1].sequence > 0
      /\ \A c \in 1..Copies : copies[c].sequence \in Nat /\ copies[c].sequence <= copies[1].sequence
  BY SuperblockTypes
<1>2. copy \in 1..Copies
  BY DEF ReaderTypes
<1>3. CASE copy = 1
  <2>1. sb = NoSuperblock \/ sb = copies[1]
    BY <1>3 DEF Electing
  <2>2. sb = NoSuperblock => Better(copies[1])
    BY <1>1 DEF Better, NoSuperblock
  <2> QED
    BY <1>3, <2>1, <2>2
<1>4. CASE copy # 1
  <2>1. sb = copies[1]
    BY <1>4 DEF Electing
  <2>2. ~Better(copies[copy])
    BY <1>1, <1>2, <2>1 DEF Better
  <2> QED
    BY <2>1, <2>2
<1> QED
  BY <1>3, <1>4

\* What is left of a call when a source ends.
LEMMA NextSourceTypes ==
  ASSUME ReaderTypes, call.sources # <<>>, NextSource
  PROVE  /\ call' \in Calls /\ call'.tree = call.tree /\ call'.limit = call.limit
         /\ call'.page = call.page /\ call'.cutoff = call.cutoff
         /\ Len(call.sources) = 1 => pc' = "ready" /\ call' = call
         /\ Len(call.sources) # 1 =>
              pc' = "superblock" /\ call'.sources = Tail(call.sources) /\ call'.sources # <<>>
<1>1. call \in Calls /\ call.sources \in Seq({"lsm", "wal"})
  BY DEF ReaderTypes, Calls
<1>2. CASE Len(call.sources) = 1
  BY <1>1, <1>2 DEF NextSource
<1>3. CASE Len(call.sources) # 1
  <2>1. pc' = "superblock" /\ call' = [call EXCEPT !.sources = Tail(@)]
    BY <1>3 DEF NextSource
  <2>2. Tail(call.sources) \in Seq({"lsm", "wal"}) /\ Tail(call.sources) # <<>>
    <3>1. Len(call.sources) \in Nat /\ Len(call.sources) # 0
      BY <1>1
    <3>2. Tail(call.sources) \in Seq({"lsm", "wal"}) /\ Len(Tail(call.sources)) = Len(call.sources) - 1
      BY <1>1
    <3>3. Len(Tail(call.sources)) # 0
      BY <1>3, <3>1, <3>2
    <3>4. Len(<<>>) = 0
      OBVIOUS
    <3> QED
      BY <3>2, <3>3, <3>4
  <2>3. call' \in Calls /\ call'.sources = Tail(call.sources)
        /\ call'.tree = call.tree /\ call'.limit = call.limit /\ call'.page = call.page
        /\ call'.cutoff = call.cutoff
    BY <1>1, <2>1, <2>2 DEF Calls
  <2> QED
    BY <1>3, <2>1, <2>2, <2>3
<1> QED
  BY <1>2, <1>3

\* Seen adds the first event of every table that was not met before.
LEMMA SeenGrows ==
  ASSUME NEW k \in Nat, NEW n \in Nat, k \in 1..n,
         EntriesIn(k) \in Seq(ManifestEntries), NEW seen, seen \subseteq SeenTables,
         SeenFrom(seen, k, n, call.tree)
  PROVE  /\ Seen(seen, EntriesIn(k)) \subseteq SeenTables
         /\ SeenFrom(Seen(seen, EntriesIn(k)), k - 1, n, call.tree)
<1> DEFINE es == EntriesIn(k)
           tree == call.tree
           new == {i \in FirstMet(es, tree) : \A s \in seen : s.address # es[i].address}
<1>1. Seen(seen, es) = seen \cup {[address |-> es[j].address, event |-> es[j].event] : j \in new}
  BY DEF Seen
<1>2. /\ DOMAIN es = 1..Len(es) /\ Len(es) \in Nat
      /\ \A j \in DOMAIN es : es[j] \in ManifestEntries
  OBVIOUS
<1>3. \A j \in DOMAIN es : es[j].address \in Addresses /\ es[j].event \in {"insert", "update", "remove"}
  BY <1>2 DEF ManifestEntries
<1>4. \A j \in new : j \in DOMAIN es /\ j \in FirstMet(es, tree) /\ es[j].tree = tree
  BY DEF FirstMet
<1>5. Seen(seen, es) \subseteq SeenTables
  <2>1. \A j \in new : [address |-> es[j].address, event |-> es[j].event] \in SeenTables
    BY <1>3, <1>4 DEF SeenTables
  <2> QED
    BY <1>1, <2>1
<1>6. ASSUME NEW x \in Seen(seen, es)
      PROVE  \E i \in ((k - 1) + 1)..n : Says(i, n, tree, x.address, x.event)
  <2>1. CASE x \in seen
    <3>1. PICK i \in (k + 1)..n : Says(i, n, tree, x.address, x.event)
      BY <2>1 DEF SeenFrom
    <3>2. i \in ((k - 1) + 1)..n
      BY <3>1
    <3> QED
      BY <3>1, <3>2
  <2>2. CASE x \notin seen
    <3>1. PICK j \in new : x = [address |-> es[j].address, event |-> es[j].event]
      BY <1>1, <2>2
    <3>2. x.address = es[j].address /\ x.event = es[j].event /\ x.address \in Addresses
      BY <3>1, <1>3, <1>4
    <3>3. \A m \in (k + 1)..n : ~Mentions(m, x.address, tree)
      <4>1. SUFFICES ASSUME NEW m \in (k + 1)..n, Mentions(m, x.address, tree) PROVE FALSE
        OBVIOUS
      <4>2. \E s \in seen : s.address = x.address
        BY <4>1, <3>2 DEF SeenFrom
      <4> QED
        BY <4>2, <3>2
    <3>4. Says(k, n, tree, x.address, x.event)
      BY <1>4, <3>2, <3>3 DEF Says
    <3>5. k \in ((k - 1) + 1)..n
      OBVIOUS
    <3> QED
      BY <3>4, <3>5
  <2> QED
    BY <2>1, <2>2
<1>7. ASSUME NEW i \in ((k - 1) + 1)..n, NEW a \in Addresses, Mentions(i, a, tree)
      PROVE  \E x \in Seen(seen, es) : x.address = a
  <2>1. CASE i # k
    <3>1. i \in (k + 1)..n
      BY <2>1
    <3>2. \E x \in seen : x.address = a
      BY <3>1, <1>7 DEF SeenFrom
    <3> QED
      BY <3>2, <1>1
  <2>2. CASE i = k /\ \A s \in seen : s.address # a
    <3> DEFINE T == {j \in DOMAIN es : es[j].address = a /\ es[j].tree = tree}
    <3>1. T # {} /\ T \subseteq Nat
      <4>1. PICK e \in ToSet(es) : e.address = a /\ e.tree = tree
        BY <1>7, <2>2 DEF Mentions
      <4>2. PICK j \in DOMAIN es : e = es[j]
        BY DEF ToSet
      <4> QED
        BY <4>1, <4>2, <1>2
    <3>2. PICK j \in T : \A m \in T : j <= m
      BY <3>1, Least
    <3>3. j \in FirstMet(es, tree)
      <4>1. ASSUME NEW m \in 1..(j - 1), es[m].tree = tree PROVE es[m].address # es[j].address
        <5>1. m \in DOMAIN es /\ ~(j <= m)
          BY <3>2, <1>2
        <5> QED
          BY <5>1, <4>1, <3>2
      <4> QED
        BY <3>2, <4>1 DEF FirstMet
    <3>4. j \in new /\ es[j].address = a
      BY <3>2, <3>3, <2>2
    <3> HIDE DEF new, es
    <3>5. [address |-> es[j].address, event |-> es[j].event] \in Seen(seen, es)
      BY <1>1, <3>4
    <3> QED
      BY <3>4, <3>5
  <2>3. CASE \E s \in seen : s.address = a
    BY <2>3, <1>1
  <2> QED
    BY <2>1, <2>2, <2>3
<1> QED
  BY <1>5, <1>6, <1>7 DEF SeenFrom

\* What a step of the reader leaves as it was.
LEMMA FileFrame ==
  ASSUME UNCHANGED <<fileVars, began, answer>>
  PROVE  /\ FileInv' = FileInv /\ copies' = copies /\ grid' = grid /\ manifest' = manifest
         /\ began' = began /\ answer' = answer
         /\ Durable' = Durable /\ BeganBefore' = BeganBefore
         /\ \A n, tree : LiveAt(n, tree)' = LiveAt(n, tree)
         /\ \A tree : Transient(copies[1], tree)' = Transient(copies[1], tree)
         /\ \A seen, rest, n, tree : SeenFrom(seen, rest, n, tree)' = SeenFrom(seen, rest, n, tree)
         /\ \A i : Link(i)' = Link(i) /\ EntriesIn(i)' = EntriesIn(i)
<1>1. /\ log' = log /\ commit' = commit /\ copies' = copies /\ grid' = grid
      /\ headers' = headers /\ bodies' = bodies /\ writing' = writing /\ copied' = copied
      /\ manifest' = manifest /\ tables' = tables /\ free' = free
      /\ began' = began /\ answer' = answer
  BY DEF fileVars
<1>2. UNCHANGED gridVars
  BY <1>1 DEF gridVars
<1>3. FileTypes' = FileTypes
  BY <1>1 DEF FileTypes
<1>4. FileInv' = FileInv
  BY <1>2, <1>3, GridFrame DEF FileInv
<1>5. \A i : Link(i)' = Link(i) /\ EntriesIn(i)' = EntriesIn(i)
  BY <1>1 DEF Link, EntriesIn
<1>6. /\ \A n, tree : LiveAt(n, tree)' = LiveAt(n, tree)
      /\ \A tree : Transient(copies[1], tree)' = Transient(copies[1], tree)
      /\ \A seen, rest, n, tree : SeenFrom(seen, rest, n, tree)' = SeenFrom(seen, rest, n, tree)
  BY <1>1, <1>5 DEF LiveAt, Says, Mentions, Addresses, Transient, SeenFrom
<1>7. Durable' = Durable /\ BeganBefore' = BeganBefore
  BY <1>1 DEF Durable, BeganBefore
<1> QED
  BY <1>1, <1>4, <1>5, <1>6, <1>7

\* A step of the reader keeps the invariant if it keeps the types and, while
\* the newest superblock is that of the call, what the step's new place needs.
LEMMA ReaderStep ==
  ASSUME FileInv, ReaderInv, pc # "idle", UNCHANGED <<fileVars, began, answer>>,
         ReaderTypes', (call.limit # All => call.sources = <<began.source>>)',
         copies[1] = began.sb =>
           (Electing /\ Walking /\ Iterating /\ (pc = "failed" => ExcusedBy(copies[1])))'
  PROVE  (FileInv /\ ReaderInv)'
<1>1. /\ FileInv' /\ copies' = copies /\ began' = began /\ answer' = answer /\ BeganBefore'
  BY FileFrame DEF ReaderInv
<1>2. answer.status # "failed"
  BY DEF ReaderInv, Answering
<1>3. Reading'
  BY <1>1 DEF Reading
<1>4. Answering'
  BY <1>1, <1>2 DEF Answering, All
<1> QED
  BY <1>1, <1>3, <1>4 DEF ReaderInv

\* The next source, too, is one of a call's.
LEMMA StillOneSource ==
  ASSUME ReaderTypes, call.sources # <<>>, NextSource,
         call.limit # All => call.sources = <<began.source>>, began' = began
  PROVE  (call.limit # All => call.sources = <<began.source>>)'
<1>1. call'.limit = call.limit
  BY NextSourceTypes
<1>2. ASSUME call.limit # All PROVE call' = call
  <2>1. call.sources = <<began.source>> /\ Len(<<began.source>>) = 1
    BY <1>2
  <2> QED
    BY <2>1, NextSourceTypes
<1> QED
  BY <1>1, <1>2 DEF All

\* read_superblock.
LEMMA ReadCopySteps ==
  ASSUME FileInv, ReaderInv, ReadCopy, UNCHANGED <<fileVars, began, answer>>
  PROVE  (FileInv /\ ReaderInv)'
<1> DEFINE best == IF Better(copies[copy]) THEN copies[copy] ELSE sb
<1>1. /\ pc = "superblock" /\ sb' = best /\ UNCHANGED <<iter, out>>
      /\ IF copy < Copies THEN copy' = copy + 1 /\ UNCHANGED <<call, pc, walk, slot>>
                          ELSE copy' = 1 /\ Use(best)
  BY DEF ReadCopy
<1>2. ReaderTypes /\ Reading /\ BeganBefore
  BY DEF ReaderInv
<1>3. /\ copies[1] \in Superblocks /\ copies[1].count \in 0..Len(manifest)
      /\ \A c \in 1..Copies : copies[c] \in Superblocks
      /\ Copies \in Nat /\ Copies > 0 /\ Blocks \in Nat /\ MaxCheckpoints \in Nat
      /\ Len(manifest) \in Nat
  BY <1>2, SuperblockTypes
<1>4. /\ copies' = copies /\ grid' = grid /\ manifest' = manifest /\ began' = began
      /\ answer' = answer
  BY FileFrame
<1>5. copy \in 1..Copies /\ call \in Calls /\ call.sources # <<>>
  BY <1>1, <1>2 DEF ReaderTypes
<1>6. best \in Superblocks \cup {NoSuperblock}
  BY <1>2, <1>3, <1>5 DEF ReaderTypes
<1>7. copies[1] = began.sb => best = copies[1] /\ Electing
  <2> HAVE copies[1] = began.sb
  <2>1. Electing
    BY <1>1, <1>2 DEF Reading
  <2> QED
    BY <1>1, <1>2, <2>1, Election
<1>8. call.limit # All => call.sources = <<began.source>>
  BY <1>1, <1>2 DEF Reading
<1>9. \A s \in Superblocks \cup {NoSuperblock} : s.newest \in 0..Blocks /\ s.count \in 0..MaxCheckpoints
  BY <1>3 DEF Superblocks, NoSuperblock
<1> HIDE DEF best
<1>10. CASE copy < Copies
  <2>1. pc' = "superblock" /\ copy' = copy + 1 /\ UNCHANGED <<call, walk, slot, iter>>
    BY <1>1, <1>10
  <2>2. ReaderTypes'
    BY <2>1, <1>1, <1>2, <1>3, <1>4, <1>5, <1>6, <1>10 DEF ReaderTypes
  <2>3. copies[1] = began.sb => Electing'
    BY <2>1, <1>1, <1>3, <1>4, <1>5, <1>7 DEF Electing
  <2>4. Walking' /\ Iterating' /\ pc' # "failed"
    BY <2>1 DEF Walking, Iterating
  <2>5. (call.limit # All => call.sources = <<began.source>>)'
    BY <2>1, <1>4, <1>8 DEF All
  <2> QED
    BY <1>1, <2>2, <2>3, <2>4, <2>5, ReaderStep
<1>11. CASE ~(copy < Copies)
  <2>1. copy' = 1 /\ Use(best)
    BY <1>1, <1>11
  <2>2. call.sources \in Seq({"lsm", "wal"}) /\ Head(call.sources) \in {"lsm", "wal"}
    BY <1>5 DEF Calls
  <2>3. CASE Head(call.sources) = "wal"
    <3>1. pc' = "header" /\ slot' = 0 /\ UNCHANGED <<call, walk>>
      BY <2>1, <2>3 DEF Use
    <3>2. ReaderTypes'
      BY <3>1, <2>1, <1>1, <1>2, <1>3, <1>4, <1>5, <1>6, FileAssumption DEF ReaderTypes
    <3>3. Walking' /\ Iterating' /\ pc' # "failed"
      BY <3>1 DEF Walking, Iterating
    <3>4. (call.limit # All => call.sources = <<began.source>>)'
      BY <3>1, <1>4, <1>8 DEF All
    <3>5. copies[1] = began.sb => Electing'
      BY <3>1, <2>1, <1>1, <1>4, <1>7 DEF Electing
    <3> QED
      BY <1>1, <3>2, <3>3, <3>4, <3>5, ReaderStep
  <2>4. CASE Head(call.sources) = "lsm" /\ best.count # 0
    <3>1. pc' = "manifest" /\ walk' = [NoWalk EXCEPT !.address = best.newest] /\ UNCHANGED <<call, slot>>
      BY <2>1, <2>4 DEF Use
    <3>2. walk' = [address |-> best.newest, visited |-> 0, seen |-> {}]
      BY <3>1 DEF NoWalk
    <3>3. best = copies[1] \/ copies[1] # began.sb
      BY <1>7
    <3>5. best.newest # 0
      BY <1>6, <2>4 DEF Superblocks, NoSuperblock
    <3>4. CASE best.newest # 0
      <4>1. ReaderTypes'
        <5>1. walk' \in [address : 0..Blocks, visited : 0..(MaxCheckpoints + 1), seen : SUBSET SeenTables]
          BY <3>2, <1>3, <1>6, <1>9
        <5>2. walk'.address # 0
          BY <3>2, <3>4
        <5> QED
          BY <3>1, <5>1, <5>2, <2>1, <1>1, <1>2, <1>3, <1>4, <1>5, <1>6 DEF ReaderTypes
      <4>2. Iterating' /\ pc' # "failed"
        BY <3>1 DEF Iterating
      <4>3. ASSUME copies[1] = began.sb PROVE Walking'
        <5>1. PICK n \in Nat : n = copies[1].count /\ n \in 1..Len(manifest)
          BY <4>3, <1>3, <1>7, <2>4
        <5>2. best.newest = Link(n)
          <6>1. /\ copies[1] \in {writing, Durable} /\ writing.newest = Link(writing.count)
                /\ Durable.newest = Link(Durable.count)
            BY FirstIsNewest DEF FileInv, Copying
          <6> QED
            BY <6>1, <4>3, <5>1, <1>7
        <5>3. SeenFrom({}, n, n, call.tree)
          <6>1. (n + 1)..n = {}
            OBVIOUS
          <6> QED
            BY <6>1 DEF SeenFrom
        <5>4. SeenFrom({}, n, n, call.tree)'
          BY <5>3, <3>1, FileFrame DEF SeenFrom
        <5>5. Link(n)' = Link(n)
          BY FileFrame
        <5>6. /\ sb' = copies'[1] /\ sb'.count = n /\ walk'.visited = 0 /\ walk'.seen = {}
              /\ walk'.address = Link(n)' /\ n - 0 = n /\ 0 < n
          BY <5>1, <5>2, <5>5, <4>3, <1>1, <1>4, <1>7, <3>2
        <5> QED
          BY <3>1, <5>4, <5>6 DEF Walking, SeenFrom, Link
      <4>4. (call.limit # All => call.sources = <<began.source>>)'
        BY <3>1, <1>4, <1>8 DEF All
      <4>5. copies[1] = began.sb => Electing'
        BY <3>1, <2>1, <1>1, <1>4, <1>7 DEF Electing
      <4> QED
        BY <1>1, <4>1, <4>2, <4>3, <4>4, <4>5, ReaderStep
    <3> QED
      BY <3>4, <3>5
  <2>5. CASE Head(call.sources) = "lsm" /\ best.count = 0
    <3>1. NextSource /\ UNCHANGED <<walk, slot>>
      BY <2>1, <2>5 DEF Use
    <3>2. /\ call' \in Calls /\ pc' \in {"ready", "superblock"}
          /\ pc' = "superblock" => call'.sources # <<>>
      BY <3>1, <1>2, <1>5, NextSourceTypes
    <3>3. ReaderTypes'
      BY <3>1, <3>2, <2>1, <1>1, <1>2, <1>3, <1>4, <1>5, <1>6 DEF ReaderTypes
    <3>4. (call.limit # All => call.sources = <<began.source>>)'
      BY <3>1, <1>2, <1>4, <1>5, <1>8, StillOneSource
    <3>5. Walking' /\ Iterating' /\ pc' # "failed"
      BY <3>2 DEF Walking, Iterating
    <3>6. copies[1] = began.sb => Electing'
      BY <2>1, <1>1, <1>4, <1>7 DEF Electing
    <3> QED
      BY <1>1, <3>3, <3>4, <3>5, <3>6, ReaderStep
  <2> QED
    BY <2>2, <2>3, <2>4, <2>5
<1> QED
  BY <1>10, <1>11

\* What a walk has met are tables and events.
LEMMA SeenTypes ==
  ASSUME NEW seen, seen \subseteq SeenTables, NEW entries \in Seq(ManifestEntries)
  PROVE  Seen(seen, entries) \subseteq SeenTables
<1>1. \A j \in DOMAIN entries : entries[j] \in ManifestEntries
  OBVIOUS
<1>2. \A j \in FirstMet(entries, call.tree) : j \in DOMAIN entries
  BY DEF FirstMet
<1>3. \A j \in FirstMet(entries, call.tree) :
        [address |-> entries[j].address, event |-> entries[j].event] \in SeenTables
  BY <1>1, <1>2 DEF ManifestEntries, SeenTables
<1> QED
  BY <1>3 DEF Seen

\* While the newest superblock is that of the call, the walk is at a block of its manifest
\* and has met what the blocks after it speak of.
LEMMA WalkStands ==
  ASSUME FileInv, ReaderInv, pc = "manifest", copies[1] = began.sb
  PROVE  \E n, k \in Nat :
           /\ n = copies[1].count /\ n \in 1..Len(manifest) /\ k \in 1..n /\ k = n - walk.visited
           /\ sb = copies[1] /\ walk.address = manifest[k] /\ k \in 1..Len(manifest)
           /\ SeenFrom(walk.seen, k, n, call.tree)
<1>1. ReaderTypes /\ Walking /\ Electing
  BY DEF ReaderInv, Reading
<1>2. /\ copies[1].count \in 0..Len(manifest) /\ Len(manifest) \in Nat
      /\ walk.address # 0 /\ walk.visited \in Nat
  BY <1>1, SuperblockTypes DEF ReaderTypes
<1>3. /\ sb = copies[1] /\ walk.visited < sb.count
      /\ walk.address = Link(sb.count - walk.visited)
      /\ SeenFrom(walk.seen, sb.count - walk.visited, sb.count, call.tree)
  BY <1>1 DEF Walking, Electing
<1>4. PICK n \in Nat : n = copies[1].count /\ n \in 1..Len(manifest)
  BY <1>2, <1>3
<1>5. PICK k \in Nat : k = n - walk.visited /\ k \in 1..n /\ k \in 1..Len(manifest)
  BY <1>2, <1>3, <1>4
<1>6. walk.address = manifest[k]
  BY <1>3, <1>4, <1>5 DEF Link
<1> QED
  BY <1>3, <1>4, <1>5, <1>6

\* After the block without a previous one it has met what all of them speak of.
LEMMA WalkEnds ==
  ASSUME FileInv, ReaderInv, pc = "manifest", copies[1] = began.sb,
         grid[walk.address].previous = 0
  PROVE  \E n \in Nat :
           /\ n = copies[1].count /\ sb = copies[1] /\ n \in 1..Len(manifest)
           /\ \A i \in 1..n : EntriesIn(i) \in Seq(ManifestEntries)
           /\ Seen(walk.seen, grid[walk.address].entries) \subseteq SeenTables
           /\ SeenFrom(Seen(walk.seen, grid[walk.address].entries), 0, n, call.tree)
<1> DEFINE b == grid[walk.address]
<1>1. PICK n, k \in Nat :
        /\ n = copies[1].count /\ n \in 1..Len(manifest) /\ k \in 1..n
        /\ sb = copies[1] /\ walk.address = manifest[k] /\ k \in 1..Len(manifest)
        /\ SeenFrom(walk.seen, k, n, call.tree)
  BY WalkStands
<1>2. ReaderTypes /\ walk.seen \subseteq SeenTables /\ Len(manifest) \in Nat /\ manifest \in Seq(Addresses)
  BY DEF ReaderInv, ReaderTypes, FileInv, FileTypes
<1>3. \A i \in 1..Len(manifest) :
        grid[manifest[i]] \in ManifestBlocks /\ grid[manifest[i]].previous = Link(i - 1)
        /\ EntriesIn(i) \in Seq(ManifestEntries)
  BY DEF FileInv, ManifestIsLinked, ManifestBlocks, EntriesIn
<1>4. b.previous = Link(k - 1) /\ b.entries = EntriesIn(k) /\ EntriesIn(k) \in Seq(ManifestEntries)
  BY <1>1, <1>3 DEF EntriesIn
<1>5. b.previous = 0
  OBVIOUS
<1> HIDE DEF b
<1>6. k - 1 = 0
  <2>1. ASSUME k - 1 # 0 PROVE FALSE
    <3>1. k - 1 \in 1..Len(manifest)
      BY <1>1, <1>2, <2>1
    <3>2. manifest[k - 1] \in Addresses
      BY <1>2, <3>1
    <3>3. manifest[k - 1] # 0
      BY <3>2, FileAssumption DEF Addresses
    <3> QED
      BY <1>4, <1>5, <2>1, <3>3 DEF Link
  <2> QED
    BY <2>1
<1>7. Seen(walk.seen, b.entries) \subseteq SeenTables /\ SeenFrom(Seen(walk.seen, b.entries), 0, n, call.tree)
  BY <1>1, <1>2, <1>4, <1>6, SeenGrows
<1>8. \A i \in 1..n : i \in 1..Len(manifest)
  BY <1>1, <1>2
<1> QED
  BY <1>1, <1>3, <1>7, <1>8 DEF b

\* collect_index_blocks_for_tree: the walk is at block k of the newest manifest,
\* has met what blocks k + 1 to n speak of, and ends at the first block.
LEMMA ReadManifestSteps ==
  ASSUME FileInv, ReaderInv, ReadManifest, UNCHANGED <<fileVars, began, answer>>
  PROVE  (FileInv /\ ReaderInv)'
<1> DEFINE b == grid[walk.address]
           seen == Seen(walk.seen, b.entries)
<1>1. /\ pc = "manifest"
      /\ IF TooLong \/ b.type # "manifest"
         THEN Fail
         ELSE /\ IF b.previous # 0
                 THEN /\ walk' = [address |-> b.previous, visited |-> walk.visited + 1, seen |-> seen]
                      /\ UNCHANGED <<pc, iter>>
                 ELSE /\ walk' = NoWalk /\ pc' = "lsm"
                      /\ iter' = [NoIter EXCEPT !.tables = {s.address : s \in {x \in seen :
                                                  x.event \in {"insert", "update"}}}]
              /\ UNCHANGED <<call, sb, copy, slot, out>>
  BY DEF ReadManifest
<1>2. ReaderTypes /\ Reading
  BY DEF ReaderInv
<1>3. /\ copies[1].count \in 0..MaxCheckpoints /\ copies[1].count \in 0..Len(manifest)
      /\ sb.count \in 0..MaxCheckpoints /\ Blocks \in Nat /\ MaxCheckpoints \in Nat
      /\ Len(manifest) \in Nat
  BY <1>2, SuperblockTypes
<1>4. /\ copies' = copies /\ grid' = grid /\ manifest' = manifest /\ began' = began
      /\ answer' = answer
  BY FileFrame
<1>5. /\ walk.address \in 1..Blocks /\ walk.visited \in Nat
      /\ walk.seen \subseteq SeenTables /\ call.sources # <<>>
  BY <1>1, <1>2, <1>3 DEF ReaderTypes
<1>6. call.limit # All => call.sources = <<began.source>>
  BY <1>1, <1>2 DEF Reading
\* While the newest superblock is that of the call, the walk reads its manifest.
<1>7. ASSUME copies[1] = began.sb
      PROVE  \E n, k \in Nat :
               /\ n = copies[1].count /\ n \in 1..Len(manifest) /\ k \in 1..n /\ k = n - walk.visited
               /\ sb = copies[1] /\ walk.address = manifest[k]
               /\ SeenFrom(walk.seen, k, n, call.tree)
  BY <1>1, <1>7, WalkStands
\* A step to a place after the superblock keeps what was elected.
<1>12. copies[1] = began.sb => sb = copies[1] /\ copy = 1
  BY <1>1, <1>2 DEF Reading, Electing
<1>8. ASSUME NEW k \in 1..Len(manifest), walk.address = manifest[k]
      PROVE  /\ b \in ManifestBlocks /\ b.type = "manifest" /\ b.previous = Link(k - 1)
             /\ b.entries = EntriesIn(k) /\ EntriesIn(k) \in Seq(ManifestEntries)
  <2>1. b \in ManifestBlocks /\ b.previous = Link(k - 1)
    BY <1>8 DEF FileInv, ManifestIsLinked
  <2> QED
    BY <1>8, <2>1 DEF ManifestBlocks, EntriesIn
<1> HIDE DEF b, seen
<1>9. CASE TooLong \/ b.type # "manifest"
  <2>1. pc' = "failed" /\ UNCHANGED <<call, sb, copy, walk, iter, slot, out>>
    BY <1>1, <1>9 DEF Fail
  <2>2. ReaderTypes'
    BY <2>1, <1>1, <1>2, <1>4 DEF ReaderTypes
  <2>3. copies[1] # began.sb
    <3>1. SUFFICES ASSUME copies[1] = began.sb PROVE FALSE
      OBVIOUS
    <3>2. PICK n, k \in Nat :
            /\ n = copies[1].count /\ n \in 1..Len(manifest) /\ k \in 1..n /\ k = n - walk.visited
            /\ sb = copies[1] /\ walk.address = manifest[k]
      BY <3>1, <1>7
    <3>3. k \in 1..Len(manifest)
      BY <3>2, <1>3
    <3>4. b.type = "manifest"
      BY <3>2, <3>3, <1>8
    <3>5. ~TooLong
      BY <3>2, <1>5 DEF TooLong
    <3> QED
      BY <3>4, <3>5, <1>9
  <2>4. (call.limit # All => call.sources = <<began.source>>)'
    BY <2>1, <1>4, <1>6 DEF All
  <2> QED
    BY <1>1, <2>2, <2>3, <2>4, ReaderStep
<1>10. CASE ~TooLong /\ b.type = "manifest" /\ b.previous # 0
  <2>1. /\ walk' = [address |-> b.previous, visited |-> walk.visited + 1, seen |-> seen]
        /\ UNCHANGED <<pc, iter, call, sb, copy, slot, out>>
    BY <1>1, <1>10
  <2>2. b \in ManifestBlocks
    <3>1. grid[walk.address] \in FreeBlocks \cup ManifestBlocks \cup IndexBlocks \cup ValueBlocks
      BY <1>5 DEF FileInv, FileTypes, Addresses
    <3> QED
      BY <3>1, <1>10 DEF b, FreeBlocks, IndexBlocks, ValueBlocks
  <2>3. b.previous \in 0..Blocks /\ b.entries \in Seq(ManifestEntries)
    BY <2>2 DEF ManifestBlocks
  <2>4. seen \subseteq SeenTables
    BY <2>3, <1>5, SeenTypes DEF seen
  <2>5. ReaderTypes'
    <3>1. walk.visited + 1 \in 0..(MaxCheckpoints + 1)
      BY <1>3, <1>5, <1>10 DEF TooLong
    <3>2. walk' \in [address : 0..Blocks, visited : 0..(MaxCheckpoints + 1), seen : SUBSET SeenTables]
      BY <2>1, <2>3, <2>4, <3>1
    <3>3. walk'.address # 0
      BY <2>1, <1>10
    <3> QED
      BY <2>1, <3>2, <3>3, <1>1, <1>2, <1>4 DEF ReaderTypes
  <2>6. ASSUME copies[1] = began.sb PROVE Walking'
    <3>1. PICK n, k \in Nat :
            /\ n = copies[1].count /\ n \in 1..Len(manifest) /\ k \in 1..n /\ k = n - walk.visited
            /\ sb = copies[1] /\ walk.address = manifest[k]
            /\ SeenFrom(walk.seen, k, n, call.tree)
      BY <2>6, <1>7
    <3>2. /\ k \in 1..Len(manifest) /\ b.previous = Link(k - 1)
          /\ b.entries = EntriesIn(k) /\ EntriesIn(k) \in Seq(ManifestEntries)
      <4>1. k \in 1..Len(manifest)
        BY <3>1, <1>3
      <4> QED
        BY <4>1, <3>1, <1>8
    <3>3. SeenFrom(seen, k - 1, n, call.tree)
      BY <3>1, <3>2, <1>5, SeenGrows DEF seen
    <3>4. k - 1 # 0
      BY <3>2, <1>10 DEF Link
    <3>5. /\ sb' = copies'[1] /\ sb'.count = n /\ walk'.visited < n /\ n - walk'.visited = k - 1
          /\ walk'.seen = seen /\ walk'.address = Link(k - 1)
      BY <2>1, <3>1, <3>2, <3>4, <1>4, <1>5, SMTT(30)
    <3>6. Link(k - 1)' = Link(k - 1) /\ call' = call
      BY <2>1, FileFrame
    <3>7. SeenFrom(walk.seen, k - 1, n, call.tree)'
      <4>1. PICK s0, t0, m : s0 = seen /\ t0 = call.tree /\ m = k - 1
        OBVIOUS
      <4>2. SeenFrom(s0, m, n, t0)
        BY <4>1, <3>3
      <4>3. SeenFrom(s0, m, n, t0)'
        BY <4>2, FileFrame
      <4>4. walk'.seen = s0 /\ call'.tree = t0 /\ k - 1 = m
        BY <4>1, <3>5, <3>6
      <4> QED
        BY <4>3, <4>4 DEF SeenFrom
    <3> QED
      BY <3>5, <3>6, <3>7 DEF Walking, SeenFrom, Link
  <2>7. Iterating' /\ pc' # "failed" /\ (copies[1] = began.sb => Electing')
    BY <2>1, <1>1, <1>4, <1>12 DEF Electing, Iterating
  <2>8. (call.limit # All => call.sources = <<began.source>>)'
    BY <2>1, <1>4, <1>6 DEF All
  <2> QED
    BY <1>1, <2>5, <2>6, <2>7, <2>8, ReaderStep
<1>11. CASE ~TooLong /\ b.type = "manifest" /\ b.previous = 0
  <2> DEFINE live == {s.address : s \in {x \in seen : x.event \in {"insert", "update"}}}
  <2>1. /\ walk' = NoWalk /\ pc' = "lsm" /\ iter' = [NoIter EXCEPT !.tables = live]
        /\ UNCHANGED <<call, sb, copy, slot, out>>
    BY <1>1, <1>11
  <2>2. b \in ManifestBlocks
    <3>1. grid[walk.address] \in FreeBlocks \cup ManifestBlocks \cup IndexBlocks \cup ValueBlocks
      BY <1>5 DEF FileInv, FileTypes, Addresses
    <3> QED
      BY <3>1, <1>11 DEF b, FreeBlocks, IndexBlocks, ValueBlocks
  <2>3. b.entries \in Seq(ManifestEntries)
    BY <2>2 DEF ManifestBlocks
  <2>4. seen \subseteq SeenTables
    BY <2>3, <1>5, SeenTypes DEF seen
  <2>5. live \subseteq Addresses
    BY <2>4 DEF SeenTables
  <2> HIDE DEF live
  <2>6. iter' = [tables |-> live, values |-> {}]
    BY <2>1 DEF NoIter
  <2>7. ReaderTypes'
    <3>1. NoWalk \in [address : 0..Blocks, visited : 0..(MaxCheckpoints + 1), seen : SUBSET SeenTables]
      BY <1>3 DEF NoWalk
    <3>2. iter' \in [tables : SUBSET Addresses, values : SUBSET Addresses]
      BY <2>5, <2>6
    <3> QED
      BY <2>1, <3>1, <3>2, <1>1, <1>2, <1>4, <1>5 DEF ReaderTypes
  <2>8. ASSUME copies[1] = began.sb PROVE Iterating'
    <3>1. PICK n \in Nat : /\ n = copies[1].count /\ sb = copies[1]
                           /\ SeenFrom(seen, 0, n, call.tree)
      BY <1>1, <1>11, <2>8, WalkEnds DEF b, seen
    <3>5. live \subseteq LiveAt(n, call.tree)
      <4>1. SUFFICES ASSUME NEW x \in seen, x.event \in {"insert", "update"}
                     PROVE  x.address \in LiveAt(n, call.tree)
        BY DEF live
      <4>2. PICK i \in (0 + 1)..n : Says(i, n, call.tree, x.address, x.event)
        BY <3>1 DEF SeenFrom
      <4>3. i \in 1..n /\ x.address \in Addresses
        BY <2>4 DEF SeenTables
      <4> QED
        BY <4>1, <4>2, <4>3 DEF LiveAt
    <3>6. LiveAt(n, call.tree)' = LiveAt(n, call.tree)
      <4>1. \A tree : LiveAt(n, tree)' = LiveAt(n, tree)
        BY FileFrame
      <4> QED
        BY <2>1, <4>1 DEF LiveAt
    <3>7. sb' = copies'[1] /\ sb'.count = n /\ iter'.tables = live /\ iter'.values = {}
      BY <2>1, <2>6, <3>1, <1>4
    <3> QED
      BY <3>5, <3>6, <3>7 DEF Iterating, LiveAt
  <2>9. Walking' /\ pc' # "failed" /\ (copies[1] = began.sb => Electing')
    BY <2>1, <1>4, <1>12 DEF Electing, Walking
  <2>10. (call.limit # All => call.sources = <<began.source>>)'
    BY <2>1, <1>4, <1>6 DEF All
  <2> QED
    BY <1>1, <2>7, <2>8, <2>9, <2>10, ReaderStep
<1> QED
  BY <1>9, <1>10, <1>11

\* Where a call stands that is not answered yet.
LEMMA Standing ==
  ASSUME FileInv, ReaderInv, pc # "idle"
  PROVE  /\ ReaderTypes /\ (call.limit # All => call.sources = <<began.source>>)
         /\ copies[1] = began.sb => Electing /\ Walking /\ Iterating
         /\ copies[1] = began.sb => (pc = "failed" => ExcusedBy(copies[1]))
BY DEF ReaderInv, Reading

\* Blocks of the tables that the newest superblock has are what the reader
\* takes them for, unless one of the tables came and went.
LEMMA TablesAreReadable ==
  ASSUME FileInv, ReaderInv, pc = "lsm", copies[1] = began.sb, ~Transient(copies[1], call.tree)
  PROVE  /\ iter.tables \subseteq LiveAt(sb.count, call.tree)
         /\ \A v \in iter.values : \E a \in LiveAt(sb.count, call.tree) : v \in grid[a].values
         /\ \A a \in LiveAt(sb.count, call.tree) : Kept(a)
         /\ sb = copies[1] /\ copy = 1
<1>1. ReaderTypes /\ Electing /\ Iterating
  BY Standing
<1>2. sb = copies[1] /\ copy = 1
  BY <1>1 DEF Electing
<1>3. /\ iter.tables \subseteq LiveAt(sb.count, call.tree)
      /\ \A v \in iter.values : \E a \in LiveAt(sb.count, call.tree) : v \in grid[a].values
  BY <1>1, <1>2 DEF Iterating
<1>4. call.tree \in Trees
  BY <1>1 DEF ReaderTypes, Calls
<1>5. copies[1] \in {writing, Durable}
  BY FirstIsNewest DEF FileInv
<1>6. \A a \in LiveAt(copies[1].count, call.tree) : Kept(a)
  BY <1>4, <1>5, LiveIsKept
<1> QED
  BY <1>2, <1>3, <1>6

\* A block that is not what the reader takes it for ends the call.
LEMMA FailedRead ==
  ASSUME FileInv, ReaderInv, pc = "lsm", Fail, UNCHANGED <<fileVars, began, answer>>,
         copies[1] = began.sb => Transient(copies[1], call.tree)
  PROVE  (FileInv /\ ReaderInv)'
<1>1. pc' = "failed" /\ UNCHANGED <<call, sb, copy, walk, iter, slot, out>>
  BY DEF Fail
<1>2. /\ ReaderTypes /\ (call.limit # All => call.sources = <<began.source>>)
      /\ copies' = copies /\ began' = began /\ answer' = answer
      /\ \A tree : Transient(copies[1], tree)' = Transient(copies[1], tree)
  BY Standing, FileFrame
<1>3. ReaderTypes'
  BY <1>1, <1>2 DEF ReaderTypes
<1>4. Electing' /\ Walking' /\ Iterating'
  BY <1>1 DEF Electing, Walking, Iterating
<1>5. copies[1] = began.sb => ExcusedBy(copies[1])'
  <2>1. grid' = grid /\ manifest' = manifest
    BY FileFrame
  <2> QED
    BY <2>1, <1>1, <1>2 DEF ExcusedBy, Transient, EntriesIn
<1>6. (call.limit # All => call.sources = <<began.source>>)'
  BY <1>1, <1>2 DEF All
<1> QED
  BY <1>3, <1>4, <1>5, <1>6, ReaderStep

\* What the iterator has left stays a part of what is live.
LEMMA IteratorStep ==
  ASSUME FileInv, ReaderInv, pc = "lsm", UNCHANGED <<fileVars, began, answer>>,
         UNCHANGED <<call, pc, sb, copy, walk, slot>>,
         iter' \in [tables : SUBSET Addresses, values : SUBSET Addresses],
         copies[1] = began.sb /\ ~Transient(copies[1], call.tree) =>
           /\ iter'.tables \subseteq LiveAt(sb.count, call.tree)
           /\ \A v \in iter'.values : \E a \in LiveAt(sb.count, call.tree) : v \in grid[a].values
  PROVE  (FileInv /\ ReaderInv)'
<1>1. /\ ReaderTypes /\ (call.limit # All => call.sources = <<began.source>>)
      /\ copies[1] = began.sb => Electing
      /\ copies' = copies /\ grid' = grid /\ began' = began /\ answer' = answer
      /\ \A tree : Transient(copies[1], tree)' = Transient(copies[1], tree)
  BY Standing, FileFrame
<1>2. ReaderTypes'
  BY <1>1 DEF ReaderTypes
<1>3. copies[1] = began.sb => Electing'
  BY <1>1 DEF Electing
<1>4. Walking' /\ pc' # "failed"
  BY DEF Walking
<1>5. (call.limit # All => call.sources = <<began.source>>)'
  BY <1>1 DEF All
<1>6. ASSUME copies[1] = began.sb PROVE Iterating'
  <2>1. sb = copies[1]
    BY <1>1, <1>6 DEF Electing
  <2>2. Transient(sb, call.tree)' <=> Transient(copies[1], call.tree)
    BY <2>1, <1>1 DEF Transient
  <2>3. SUFFICES ASSUME ~Transient(copies[1], call.tree)
                 PROVE  Iterating'
    BY <2>2 DEF Iterating
  <2>4. PICK n, t : n = sb.count /\ t = call.tree
    OBVIOUS
  <2>5. LiveAt(n, t)' = LiveAt(n, t)
    BY FileFrame
  <2>6. /\ iter'.tables \subseteq LiveAt(n, t)'
        /\ \A v \in iter'.values : \E a \in LiveAt(n, t)' : v \in grid'[a].values
    BY <2>3, <2>4, <2>5, <1>1, <1>6
  <2>7. sb'.count = n /\ call'.tree = t
    BY <2>4
  <2> QED
    BY <2>6, <2>7 DEF Iterating, LiveAt
<1> QED
  BY <1>2, <1>3, <1>4, <1>5, <1>6, ReaderStep

\* A block that is not what the reader takes it for ends the iterator, and the
\* call too, unless skip() throws the error away.
LEMMA WrongBlock ==
  ASSUME FileInv, ReaderInv, pc = "lsm", BlockIsWrong, UNCHANGED <<fileVars, began, answer>>,
         copies[1] = began.sb => Transient(copies[1], call.tree)
  PROVE  (FileInv /\ ReaderInv)'
<1>1. CASE Fail
  BY <1>1, FailedRead
<1>2. CASE iter' = NoIter /\ UNCHANGED <<call, pc, sb, copy, walk, slot, out>>
  <2>1. iter' \in [tables : SUBSET Addresses, values : SUBSET Addresses]
    BY <1>2 DEF NoIter
  <2> QED
    BY <1>2, <2>1, IteratorStep
<1> QED
  BY <1>1, <1>2 DEF BlockIsWrong

\* ObjectIter.
LEMMA LsmSteps ==
  ASSUME FileInv, ReaderInv, LoadIndexBlock \/ LoadValueBlock,
         UNCHANGED <<fileVars, began, answer>>
  PROVE  (FileInv /\ ReaderInv)'
<1>1. pc = "lsm"
  BY DEF LoadIndexBlock, LoadValueBlock
<1>2. /\ iter \in [tables : SUBSET Addresses, values : SUBSET Addresses]
      /\ grid \in [Addresses -> FreeBlocks \cup ManifestBlocks \cup IndexBlocks \cup ValueBlocks]
  BY <1>1, Standing DEF ReaderTypes, FileInv, FileTypes
<1>3. CASE LoadIndexBlock
  <2>1. PICK a \in iter.tables :
          IF grid[a].type # "index" THEN BlockIsWrong
          ELSE /\ iter' = [tables |-> iter.tables \ {a}, values |-> grid[a].values]
               /\ UNCHANGED <<call, pc, sb, copy, walk, slot, out>>
    BY <1>3 DEF LoadIndexBlock
  <2>2. CASE grid[a].type # "index"
    <3>1. ASSUME copies[1] = began.sb, ~Transient(copies[1], call.tree) PROVE FALSE
      <4>1. Kept(a)
        BY <1>1, <3>1, TablesAreReadable
      <4> QED
        BY <4>1, <2>2 DEF Kept, IndexBlocks
    <3> QED
      BY <2>1, <2>2, <3>1, <1>1, WrongBlock
  <2>3. CASE grid[a].type = "index"
    <3>1. grid[a].values \in SUBSET Addresses
      <4>1. grid[a] \in FreeBlocks \cup ManifestBlocks \cup IndexBlocks \cup ValueBlocks
        BY <1>2
      <4> QED
        BY <4>1, <2>3 DEF FreeBlocks, ManifestBlocks, IndexBlocks, ValueBlocks
    <3>2. /\ iter' = [tables |-> iter.tables \ {a}, values |-> grid[a].values]
          /\ UNCHANGED <<call, pc, sb, copy, walk, slot, out>>
      BY <2>1, <2>3
    <3>3. iter' \in [tables : SUBSET Addresses, values : SUBSET Addresses]
      BY <1>2, <3>1, <3>2
    <3>4. iter'.tables \subseteq iter.tables /\ iter'.values = grid[a].values
      BY <3>2
    <3>5. copies[1] = began.sb /\ ~Transient(copies[1], call.tree) =>
            /\ iter'.tables \subseteq LiveAt(sb.count, call.tree)
            /\ \A v \in iter'.values :
                 \E x \in LiveAt(sb.count, call.tree) : v \in grid[x].values
      BY <1>1, <3>4, <2>1, TablesAreReadable
    <3> QED
      BY <1>1, <3>2, <3>3, <3>5, IteratorStep
  <2> QED
    BY <2>2, <2>3
<1>4. CASE LoadValueBlock
  <2>1. PICK v \in iter.values :
          IF grid[v].type # "value" THEN BlockIsWrong
          ELSE /\ iter' = [iter EXCEPT !.values = @ \ {v}]
               /\ UNCHANGED <<call, pc, sb, copy, walk, slot>>
    BY <1>4 DEF LoadValueBlock
  <2>2. CASE grid[v].type # "value"
    <3>1. ASSUME copies[1] = began.sb, ~Transient(copies[1], call.tree) PROVE FALSE
      <4>1. PICK a \in LiveAt(sb.count, call.tree) : v \in grid[a].values /\ Kept(a)
        BY <1>1, <2>1, <3>1, TablesAreReadable
      <4> QED
        BY <4>1, <2>2 DEF Kept, ValueBlocks
    <3> QED
      BY <2>1, <2>2, <3>1, <1>1, WrongBlock
  <2>3. CASE grid[v].type = "value"
    <3>1. /\ iter' = [iter EXCEPT !.values = @ \ {v}]
          /\ UNCHANGED <<call, pc, sb, copy, walk, slot>>
      BY <2>1, <2>3
    <3>2. iter' \in [tables : SUBSET Addresses, values : SUBSET Addresses]
      BY <1>2, <3>1
    <3>3. iter'.tables = iter.tables /\ iter'.values \subseteq iter.values
      BY <1>2, <3>1
    <3>4. copies[1] = began.sb /\ ~Transient(copies[1], call.tree) =>
            /\ iter'.tables \subseteq LiveAt(sb.count, call.tree)
            /\ \A x \in iter'.values :
                 \E a \in LiveAt(sb.count, call.tree) : x \in grid[a].values
      BY <1>1, <3>3, TablesAreReadable
    <3> QED
      BY <1>1, <3>1, <3>2, <3>4, IteratorStep
  <2> QED
    BY <2>2, <2>3
<1> QED
  BY <1>3, <1>4

\* The WAL's scan cannot fail.
LEMMA WalSteps ==
  ASSUME FileInv, ReaderInv, ReadHeader \/ ReadBody, UNCHANGED <<fileVars, began, answer>>
  PROVE  (FileInv /\ ReaderInv)'
<1>1. /\ pc \in {"header", "body"} /\ pc' \in {"header", "body"}
      /\ slot' \in {slot, slot + 1} /\ (slot < SlotCount \/ pc = "body")
      /\ pc' = "body" => slot' = slot /\ slot < SlotCount
      /\ UNCHANGED <<call, sb, copy, walk, iter>>
  BY DEF ReadHeader, ReadBody
<1>2. /\ ReaderTypes /\ (call.limit # All => call.sources = <<began.source>>)
      /\ copies[1] = began.sb => Electing
      /\ copies' = copies /\ began' = began /\ answer' = answer
  BY <1>1, Standing, FileFrame
<1>3. slot < SlotCount /\ slot' \in 0..SlotCount
  BY <1>1, <1>2, FileAssumption DEF ReaderTypes
<1>4. ReaderTypes'
  BY <1>1, <1>2, <1>3 DEF ReaderTypes
<1>5. copies[1] = began.sb => Electing'
  BY <1>1, <1>2 DEF Electing
<1>6. Walking' /\ Iterating' /\ pc' # "failed"
  BY <1>1 DEF Walking, Iterating
<1>7. (call.limit # All => call.sources = <<began.source>>)'
  BY <1>1, <1>2 DEF All
<1> QED
  BY <1>1, <1>4, <1>5, <1>6, <1>7, ReaderStep

\* A source ends when it has no more, or enough.
LEMMA EndsOfSources ==
  ASSUME FileInv, ReaderInv, EndOfLsm \/ EndOfWal, UNCHANGED <<fileVars, began, answer>>
  PROVE  (FileInv /\ ReaderInv)'
<1>1. /\ pc \in {"lsm", "header"} /\ NextSource
      /\ sb' = NoSuperblock \/ sb' = sb
      /\ iter' = NoIter \/ iter' = iter
      /\ UNCHANGED <<copy, walk, slot>>
  BY DEF EndOfLsm, EndOfWal
<1>2. /\ ReaderTypes /\ (call.limit # All => call.sources = <<began.source>>)
      /\ copies[1] = began.sb => Electing
      /\ copies' = copies /\ began' = began /\ answer' = answer
  BY <1>1, Standing, FileFrame
<1>3. call.sources # <<>>
  BY <1>1, <1>2 DEF ReaderTypes
<1>4. /\ call' \in Calls /\ pc' \in {"ready", "superblock"}
      /\ pc' = "superblock" => call'.sources # <<>>
  BY <1>1, <1>2, <1>3, NextSourceTypes
<1>5. /\ sb' \in Superblocks \cup {NoSuperblock}
      /\ iter' \in [tables : SUBSET Addresses, values : SUBSET Addresses]
  <2>1. NoIter \in [tables : SUBSET Addresses, values : SUBSET Addresses]
    BY DEF NoIter
  <2> QED
    BY <2>1, <1>1, <1>2 DEF ReaderTypes
<1>6. ReaderTypes'
  BY <1>1, <1>2, <1>4, <1>5 DEF ReaderTypes
<1>7. copies[1] = began.sb => Electing'
  BY <1>1, <1>2, <1>4 DEF Electing
<1>8. Walking' /\ Iterating' /\ pc' # "failed"
  BY <1>4 DEF Walking, Iterating
<1>9. (call.limit # All => call.sources = <<began.source>>)'
  BY <1>1, <1>2, <1>3, StillOneSource
<1> QED
  BY <1>1, <1>6, <1>7, <1>8, <1>9, ReaderStep

(***************************************************************************)
(* The calls and the answers.                                              *)
(***************************************************************************)

\* A call begins with nothing read.
LEMMA CallsBegin ==
  ASSUME FileInv, ReaderInv, NEW c \in Calls, c.sources # <<>>, Begin(c), UNCHANGED answer,
         began' = [sb |-> Newest, commit |-> commit, source |-> Head(c.sources)]
           \/ (began' = began /\ c.sources = <<began.source>>)
           \/ (began' = [sb |-> Newest, commit |-> commit, source |-> "both"] /\ c.limit = All),
         c.limit # All => Len(c.sources) = 1,
         answer.status # "failed"
  PROVE  (FileInv /\ ReaderInv)'
<1>1. /\ call' = c /\ pc' = "superblock" /\ sb' = NoSuperblock /\ copy' = 1
      /\ walk' = NoWalk /\ iter' = NoIter /\ slot' = 0 /\ UNCHANGED fileVars
  BY DEF Begin, Open
<1>2. ReaderTypes /\ BeganBefore
  BY DEF ReaderInv
<1>3. copies' = copies /\ UNCHANGED gridVars /\ FileTypes' = FileTypes
  BY <1>1 DEF fileVars, gridVars, FileTypes
<1>4. FileInv'
  BY <1>3, GridFrame DEF FileInv
<1>5. ReaderTypes'
  <2>1. /\ NoWalk \in [address : 0..Blocks, visited : 0..(MaxCheckpoints + 1), seen : SUBSET SeenTables]
        /\ NoIter \in [tables : SUBSET Addresses, values : SUBSET Addresses]
        /\ 1 \in 1..Copies /\ 0 \in 0..SlotCount
    BY FileAssumption DEF NoWalk, NoIter
  <2> QED
    BY <1>1, <1>2, <2>1 DEF ReaderTypes
<1>6. /\ Newest = copies[1] /\ copies[1] \in Superblocks /\ copies[1].sequence \in Nat
  BY <1>2, SuperblockTypes, FirstIsNewest DEF FileInv
<1>7. BeganBefore'
  <2>1. began'.sb = copies[1] \/ began'.sb = began.sb
    BY <1>6
  <2> QED
    BY <2>1, <1>2, <1>3, <1>6 DEF BeganBefore
<1>8. Electing' /\ Walking' /\ Iterating' /\ pc' # "failed"
  BY <1>1 DEF Electing, Walking, Iterating
<1>9. (call.limit # All => call.sources = <<began.source>>)'
  <2>1. SUFFICES ASSUME c.limit # All PROVE c.sources = <<began'.source>>
    BY <1>1 DEF All
  <2>2. c.sources \in Seq({"lsm", "wal"}) /\ Len(c.sources) = 1
    BY <2>1 DEF Calls
  <2>3. c.sources = <<Head(c.sources)>>
    BY <2>2
  <2> QED
    BY <2>1, <2>3
<1>10. Reading'
  BY <1>8, <1>9 DEF Reading
<1>11. Answering'
  BY <1>9 DEF Answering, All
<1> QED
  BY <1>4, <1>5, <1>7, <1>10, <1>11 DEF ReaderInv

\* Nothing is asked for after a call that failed.
LEMMA CallSteps ==
  ASSUME FileInv, ReaderInv,
         \/ \E limit \in Limits :
              \/ ReadAccounts(limit) \/ ReadTransfers(limit)
              \/ ReadLsmAccounts(limit) \/ ReadLsmTransfers(limit)
              \/ ReadWalAccounts(limit) \/ ReadWalTransfers(limit)
         \/ ReadNextPage \/ ReadAllAccounts \/ ReadAllTransfersSince
  PROVE  (FileInv /\ ReaderInv)'
<1>1. ASSUME NEW limit \in Limits, NEW source \in {"lsm", "wal"}, NEW tree \in Trees,
             ReadPage(source, tree, limit)
      PROVE  (FileInv /\ ReaderInv)'
  <2> DEFINE c == [sources |-> <<source>>, tree |-> tree, page |-> 0, limit |-> limit, cutoff |-> 0]
  <2>1. /\ answer = NoAnswer /\ Begin(c) /\ UNCHANGED answer
        /\ began' = [sb |-> Newest, commit |-> commit, source |-> source]
    BY <1>1 DEF ReadPage
  <2>2. <<source>> \in Seq({"lsm", "wal"}) /\ Len(<<source>>) = 1 /\ Head(<<source>>) = source
        /\ <<source>> # <<>>
    OBVIOUS
  <2>3. c \in Calls /\ c.sources = <<source>>
    BY <2>2 DEF Calls
  <2>4. answer.status # "failed"
    BY <2>1 DEF NoAnswer
  <2> HIDE DEF c
  <2> QED
    BY <2>1, <2>2, <2>3, <2>4, CallsBegin
<1>2. ASSUME NEW tree \in Trees, NEW cutoff \in Cutoffs \cup {0}, ReadAll(tree, cutoff)
      PROVE  (FileInv /\ ReaderInv)'
  <2> DEFINE c == [sources |-> <<"lsm", "wal">>, tree |-> tree, page |-> 0, limit |-> All,
                   cutoff |-> cutoff]
  <2>1. /\ answer = NoAnswer /\ Begin(c) /\ UNCHANGED answer
        /\ began' = [sb |-> Newest, commit |-> commit, source |-> "both"]
    BY <1>2 DEF ReadAll
  <2>2. <<"lsm", "wal">> \in Seq({"lsm", "wal"}) /\ <<"lsm", "wal">> # <<>>
    OBVIOUS
  <2>3. c \in Calls /\ c.sources = <<"lsm", "wal">> /\ c.limit = All
    BY <2>2 DEF Calls
  <2>4. answer.status # "failed"
    BY <2>1 DEF NoAnswer
  <2> HIDE DEF c
  <2> QED
    BY <2>1, <2>2, <2>3, <2>4, CallsBegin
<1>3. ASSUME ReadNextPage PROVE (FileInv /\ ReaderInv)'
  <2> DEFINE c == [call EXCEPT !.page = @ + 1]
  <2>1. /\ answer.status = "ok" /\ call.limit # All /\ Begin(c) /\ UNCHANGED <<began, answer>>
    BY <1>3 DEF ReadNextPage, MorePages
  <2>2. call \in Calls /\ call.sources = <<began.source>>
    BY <2>1 DEF ReaderInv, ReaderTypes, Answering
  <2>3. Len(<<began.source>>) = 1 /\ <<began.source>> # <<>>
    OBVIOUS
  <2>4. c \in Calls /\ c.sources = call.sources /\ c.limit = call.limit
    BY <2>2 DEF Calls
  <2> HIDE DEF c
  <2> QED
    BY <2>1, <2>2, <2>3, <2>4, CallsBegin
<1> QED
  BY <1>1, <1>2, <1>3
  DEF ReadAccounts, ReadTransfers, ReadLsmAccounts, ReadLsmTransfers, ReadWalAccounts,
      ReadWalTransfers, ReadAllAccounts, ReadAllTransfersSince, Trees

\* A call that fails although no superblock was written has an excuse.
LEMMA Returning ==
  ASSUME FileInv, ReaderInv, Return
  PROVE  (FileInv /\ ReaderInv)'
<1>1. /\ pc \in {"ready", "failed"} /\ pc' = "idle"
      /\ UNCHANGED <<fileVars, call, sb, copy, walk, iter, slot, began>>
      /\ answer'.status = IF pc = "ready" THEN "ok" ELSE "failed"
      /\ answer'.sb = Newest
  BY DEF Return
<1>2. answer'.steady => Newest = began.sb
  BY Zenon DEF Return
<1>3. /\ ReaderTypes /\ BeganBefore /\ (call.limit # All => call.sources = <<began.source>>)
      /\ copies[1] = began.sb => (pc = "failed" => ExcusedBy(copies[1]))
  BY <1>1, Standing DEF ReaderInv
<1>4. copies' = copies /\ grid' = grid /\ manifest' = manifest /\ UNCHANGED gridVars
      /\ FileTypes' = FileTypes
  BY <1>1 DEF fileVars, gridVars, FileTypes
<1>5. FileInv'
  BY <1>4, GridFrame DEF FileInv
<1>6. ReaderTypes'
  BY <1>1, <1>3 DEF ReaderTypes
<1>7. BeganBefore' /\ Reading'
  BY <1>1, <1>3, <1>4 DEF BeganBefore, Reading
<1>8. Newest = copies[1]
  BY FirstIsNewest DEF FileInv
<1>9. Answering'
  <2>2. ASSUME answer'.status = "failed", answer'.steady PROVE ExcusedBy(answer.sb)'
    <3>1. pc = "failed" /\ copies[1] = began.sb /\ answer'.sb = copies[1]
      BY <2>2, <1>1, <1>2, <1>8
    <3>2. ExcusedBy(copies[1])
      BY <3>1, <1>3
    <3> QED
      BY <3>1, <3>2, <1>1, <1>4 DEF ExcusedBy, Transient, EntriesIn, All
  <2>3. (answer.steady => ExcusedBy(answer.sb))' \/ answer'.status # "failed"
    BY <2>2
  <2> QED
    BY <1>1, <1>3, <2>3 DEF Answering, All
<1> QED
  BY <1>5, <1>6, <1>7, <1>9 DEF ReaderInv

\* The invariant holds at first.
LEMMA InvInit ==
  ASSUME Init
  PROVE  FileInv /\ ReaderInv
<1>1. FileInit /\ ReaderInit /\ answer = NoAnswer
      /\ began = [sb |-> Formatted, commit |-> 0, source |-> "none"]
  BY DEF Init
<1>2. FileInv
  BY <1>1, FileInitially
<1>3. /\ Copies \in Nat /\ Copies > 0 /\ Blocks \in Nat /\ MaxCheckpoints \in Nat
      /\ SlotCount \in Nat
  BY FileAssumption
<1>4. /\ NoWalk \in [address : 0..Blocks, visited : 0..(MaxCheckpoints + 1), seen : SUBSET SeenTables]
      /\ NoIter \in [tables : SUBSET Addresses, values : SUBSET Addresses]
  BY <1>3 DEF NoWalk, NoIter
<1>5. call \in Calls
  <2>1. <<>> \in Seq({"lsm", "wal"})
    OBVIOUS
  <2> QED
    BY <1>1, <2>1 DEF ReaderInit, Calls, Trees
<1>6. ReaderTypes
  BY <1>1, <1>3, <1>4, <1>5 DEF ReaderInit, ReaderTypes, NoAnswer
<1>7. began.sb = copies[1] /\ copies[1] \in Superblocks
  <2>1. copies[1] = Formatted
    BY <1>1, <1>3 DEF FileInit
  <2> QED
    BY <1>1, <1>2, <2>1, DurableTypes DEF FileInv
<1>8. BeganBefore
  BY <1>7 DEF BeganBefore, Superblocks
<1>9. Reading /\ Answering
  BY <1>1 DEF ReaderInit, Reading, Answering, NoAnswer
<1> QED
  BY <1>2, <1>6, <1>8, <1>9 DEF ReaderInv

\* The invariant holds after every step.
LEMMA InvNext ==
  ASSUME FileInv, ReaderInv, [Next]_vars
  PROVE  (FileInv /\ ReaderInv)'
<1>1. CASE ~Over /\ Replica /\ UNCHANGED <<readerVars, began, answer>>
  <2>1. answer.status # "failed"
    BY <1>1 DEF Over, MorePages, NoAnswer, ReaderInv, Answering
  <2> QED
    BY <1>1, <2>1, ReplicaSteps, ReplicaLeavesReader
<1>2. CASE Read /\ UNCHANGED <<fileVars, began, answer>>
  BY <1>2, ReadCopySteps, ReadManifestSteps, LsmSteps, WalSteps, EndsOfSources DEF Read
<1>3. CASE \/ \E limit \in Limits :
                \/ ReadAccounts(limit) \/ ReadTransfers(limit)
                \/ ReadLsmAccounts(limit) \/ ReadLsmTransfers(limit)
                \/ ReadWalAccounts(limit) \/ ReadWalTransfers(limit)
           \/ ReadNextPage \/ ReadAllAccounts \/ ReadAllTransfersSince
  BY <1>3, CallSteps
<1>4. CASE Return
  BY <1>4, Returning
<1>5. CASE UNCHANGED vars
  <2>1. UNCHANGED <<fileVars, began, answer>> /\ UNCHANGED readerVars
    BY <1>5 DEF vars
  <2>2. /\ call' = call /\ pc' = pc /\ sb' = sb /\ copy' = copy /\ walk' = walk /\ iter' = iter
        /\ slot' = slot /\ out' = out
    BY <2>1 DEF readerVars
  <2>3. /\ FileInv' /\ copies' = copies /\ grid' = grid /\ manifest' = manifest
        /\ began' = began /\ answer' = answer
    BY <2>1, FileFrame
  <2>4. ReaderTypes' /\ BeganBefore'
    BY <2>2, <2>3 DEF ReaderInv, ReaderTypes, BeganBefore
  <2>5. Electing' = Electing /\ ExcusedBy(copies[1])' = ExcusedBy(copies[1])
    BY <2>2, <2>3 DEF Electing, ExcusedBy, Transient, EntriesIn, All
  <2>6. Walking' = Walking
    BY <2>2, <2>3 DEF Walking, SeenFrom, Says, Mentions, EntriesIn, Link, Addresses
  <2>7. Iterating' = Iterating
    BY <2>2, <2>3 DEF Iterating, Transient, LiveAt, Says, Mentions, EntriesIn, Addresses
  <2>8. Reading'
    <3>1. SUFFICES ASSUME pc # "idle" PROVE Reading'
      BY <2>2 DEF Reading
    <3> QED
      BY <3>1, <2>2, <2>3, <2>5, <2>6, <2>7 DEF ReaderInv, Reading, All
  <2>9. Answering'
    BY <2>2, <2>3 DEF ReaderInv, Answering, ExcusedBy, Transient, EntriesIn, All
  <2>10. ReaderInv'
    BY <2>4, <2>8, <2>9 DEF ReaderInv
  <2> QED
    BY <2>3, <2>10
<1> QED
  BY <1>1, <1>2, <1>3, <1>4, <1>5 DEF Next

\* The invariant holds.
LEMMA InvAlways == Spec => [](FileInv /\ ReaderInv)
<1>1. Init => FileInv /\ ReaderInv
  BY InvInit
<1>2. FileInv /\ ReaderInv /\ [Next]_vars => (FileInv /\ ReaderInv)'
  BY InvNext
<1> QED
  BY <1>1, <1>2, PTL DEF Spec

\* The reader's state has its types: whatever the replica writes meanwhile, a
\* walk of the manifest ends, and nothing is read outside of the file's zones.
THEOREM FileReadTypes == Spec => []TypeOK
<1>1. ReaderTypes => TypeOK
  <2>1. \A s \in Superblocks \cup {NoSuperblock} : s.sequence \in Nat
    BY FileAssumption DEF Superblocks, NoSuperblock
  <2> QED
    BY <2>1 DEF ReaderTypes, TypeOK, Addresses
<1>2. ReaderInv => ReaderTypes
  BY DEF ReaderInv
<1> QED
  BY <1>1, <1>2, InvAlways, PTL

\* While no superblock is written, what a reader asks for is there, though the
\* replica writes a checkpoint's blocks and prepares.
THEOREM ReadableWhileSteady == Spec => []SteadyFilesAreReadable
<1>1. ReaderInv => SteadyFilesAreReadable
  BY DEF ReaderInv, Answering, ExcusedBy, SteadyFilesAreReadable
<1> QED
  BY <1>1, InvAlways, PTL

=============================================================================
