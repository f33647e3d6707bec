-------------------------- MODULE FileContentProofs --------------------------
(***************************************************************************)
(* What a migration reads from a data file (FileReads), for any number of  *)
(* prepares, checkpoints, blocks, slots and copies of the superblock: it   *)
(* misses nothing and invents nothing as long as no superblock is written, *)
(* whatever else the replica writes meanwhile.                             *)
(*                                                                         *)
(* ContentInv is what the file holds: the tables of a checkpoint have what *)
(* was created up to it, and the ring of the WAL what was prepared since.  *)
(* GatherInv is what a migration's call has read so far and what is still  *)
(* before it.                                                              *)
(*                                                                         *)
(* The last sections are about pages that a client reads one after the     *)
(* other: PagesInv says of what the pages so far and the page in the       *)
(* making are the beginning.                                               *)
(***************************************************************************)
EXTENDS FileProofs

(***************************************************************************)
(* What the file holds.                                                    *)
(***************************************************************************)

CheckpointIsCommitted == writing.checkpoint <= commit

\* No table of the transfers comes and goes within one manifest block.
TransfersStay == ~Transient(writing, "transfers")

\* The other half of LiveTablesAreKnown.
TablesAreLive == \A t \in tables : t.index \in LiveAt(writing.count, t.tree)

\* The tables of a tree hold what was created up to the checkpoint.
TreeHolds(tree) ==
  /\ \A t \in tables : t.tree = tree =>
       ToSet(grid[t.value].objects) \subseteq Objects(tree, 0, writing.checkpoint)
  /\ \A o \in Objects(tree, 0, writing.checkpoint) :
       \E t \in tables : t.tree = tree /\ o \in ToSet(grid[t.value].objects)
TablesHold == \A tree \in Trees : TreeHolds(tree)

\* Table a is kept and has object o.
Has(a, o) == Kept(a) /\ \E v \in grid[a].values : o \in ToSet(grid[v].objects)

\* What is live at superblock s has the objects of its checkpoint, and no others.
Complete(s, tree) ==
  \A o \in Objects(tree, 0, s.checkpoint) : \E a \in LiveAt(s.count, tree) : Has(a, o)
Sound(s, tree) ==
  ~Transient(s, tree) =>
    \A a \in LiveAt(s.count, tree) : \A v \in grid[a].values :
      ToSet(grid[v].objects) \subseteq Objects(tree, 0, s.checkpoint)

DurableHolds == \A tree \in Trees : Complete(Durable, tree) /\ Sound(Durable, tree)

\* A ring has the last of the first n prepares that fall on a slot.
Ring(f, n) ==
  \A s \in 0..(SlotCount - 1) :
    /\ f[s] <= n /\ (f[s] # 0 => SlotOf(f[s]) = s)
    /\ \A op \in 1..n : SlotOf(op) = s => op <= f[s]

Wal ==
  /\ Ring(headers, commit) /\ Ring(bodies, Len(log))
  /\ Len(log) <= commit + 1 /\ Len(log) <= Durable.checkpoint + SlotCount

ContentInv ==
  CheckpointIsCommitted /\ TransfersStay /\ TablesAreLive /\ TablesHold /\ DurableHolds /\ Wal

(***************************************************************************)
(* What a migration has read.                                              *)
(***************************************************************************)

\* What the LSM has for the call, and what the WAL has.
Due == Objects(call.tree, 0, copies[1].checkpoint)
Logged(upto) == {op \in (copies[1].checkpoint + 1)..upto : log[op].kind = call.tree}

BeganEarlier == began.commit \in 0..commit

Stage ==
  /\ out = [lsm |-> out.lsm, wal |-> out.wal]
  /\ call.sources \in {<<"lsm", "wal">>, <<"wal">>}
  /\ pc \in {"manifest", "lsm"} => call.sources = <<"lsm", "wal">>
  /\ pc \in {"header", "body", "ready"} => call.sources = <<"wal">>
  /\ pc \in {"superblock", "manifest", "lsm"} => out.wal = <<>>
  /\ pc = "manifest" \/ (pc = "superblock" /\ call.sources = <<"lsm", "wal">>) => out.lsm = <<>>

\* A block that stays what it is while the newest superblock does.
Lasts(a) == a \notin free /\ (copies[1] = writing => a \in InUse)
HeldIn(v, o) == Lasts(v) /\ grid[v] \in ValueBlocks /\ o \in ToSet(grid[v].objects)
HeldBy(a, o) == Lasts(a) /\ grid[a] \in IndexBlocks /\ \E v \in grid[a].values : HeldIn(v, o)

\* The LSM's records are what is due, or as much as is certain if a table came
\* and went.
Justified ==
  /\ out.lsm \in Seq(Records)
  /\ ~Transient(copies[1], call.tree) => ToSet(out.lsm) \subseteq Due

LsmReading ==
  pc = "lsm" =>
    /\ Justified
    /\ \A o \in Due :
         \/ o \in ToSet(out.lsm)
         \/ \E v \in iter.values : HeldIn(v, o)
         \/ \E a \in iter.tables : HeldBy(a, o)

LsmRead ==
  pc # "failed" /\ call.sources = <<"wal">> => Justified /\ Due \subseteq ToSet(out.lsm)

WalUpto(k) ==
  /\ out.wal \in Seq(Records)
  /\ ToSet(out.wal) \subseteq {Submitted(op) : op \in Logged(commit)}
  /\ \A op \in Logged(began.commit) : SlotOf(op) < k => Submitted(op) \in ToSet(out.wal)

WalRead ==
  /\ pc \in {"header", "body"} => WalUpto(slot)
  /\ pc = "ready" => WalUpto(SlotCount)
  /\ pc = "body" => Matches(headers[slot])

Gathering ==
  call.limit = All /\ pc # "idle" =>
    Stage /\ (copies[1] = began.sb => LsmReading /\ LsmRead /\ WalRead)

GatherInv == BeganEarlier /\ Gathering

(***************************************************************************)
(* 1. The log.                                                             *)
(***************************************************************************)

\* A longer multiple is a slot count away.
LEMMA Laps ==
  ASSUME NEW S \in Nat, S > 0, NEW p \in Nat, NEW q \in Nat, p < q
  PROVE  S * q >= S * p + S
<1>1. PICK d \in Nat : q = p + 1 + d
  <2>1. q - (p + 1) \in Nat
    OBVIOUS
  <2> QED
    BY <2>1
<1>2. S * q = S * p + S + S * d
  BY <1>1
<1>3. S * d >= 0 /\ S * p \in Nat /\ S * d \in Nat
  OBVIOUS
<1> QED
  BY <1>2, <1>3

\* Every number has a slot, and two on one slot are equal if they are less than a
\* round of the ring apart.
LEMMA OneLap ==
  /\ SlotCount \in Nat /\ SlotCount > 0
  /\ \A a \in Nat : SlotOf(a) \in 0..(SlotCount - 1)
  /\ \A a, b \in Nat : SlotOf(a) = SlotOf(b) /\ a <= b /\ b < a + SlotCount => a = b
<1>1. SlotCount \in Nat /\ SlotCount > 0
  BY FileAssumption
<1>2. ASSUME NEW a \in Nat
      PROVE  /\ SlotOf(a) \in 0..(SlotCount - 1) /\ a \div SlotCount \in Nat
             /\ a = SlotCount * (a \div SlotCount) + SlotOf(a)
  BY <1>1 DEF SlotOf
<1>3. ASSUME NEW a \in Nat, NEW b \in Nat,
             SlotOf(a) = SlotOf(b), a <= b, b < a + SlotCount
      PROVE  a = b
  <2>1. PICK p \in Nat, q \in Nat, r \in Nat :
          a = SlotCount * p + r /\ b = SlotCount * q + r
    <3>1. SlotOf(a) \in Nat
      BY <1>1, <1>2
    <3> QED
      BY <1>2, <1>3, <3>1
  <2>2. ~(p < q) /\ ~(q < p)
    <3>1. p < q => SlotCount * q >= SlotCount * p + SlotCount
      BY <1>1, Laps
    <3>2. q < p => SlotCount * p >= SlotCount * q + SlotCount
      BY <1>1, Laps
    <3>3. SlotCount * p \in Nat /\ SlotCount * q \in Nat
      BY <1>1
    <3> QED
      BY <1>1, <1>3, <2>1, <3>1, <3>2, <3>3
  <2> QED
    BY <2>1, <2>2
<1> QED
  BY <1>1, <1>2, <1>3

\* The next prepare goes into its slot.
LEMMA RingGrows ==
  ASSUME NEW n \in Nat, NEW f \in [0..(SlotCount - 1) -> Nat], Ring(f, n)
  PROVE  Ring([f EXCEPT ![SlotOf(n + 1)] = n + 1], n + 1)
<1> DEFINE g == [f EXCEPT ![SlotOf(n + 1)] = n + 1]
<1>1. SlotOf(n + 1) \in 0..(SlotCount - 1)
  <2>1. n + 1 \in Nat
    OBVIOUS
  <2> QED
    BY <2>1, OneLap
<1>2. \A s \in 0..(SlotCount - 1) : g[s] = IF s = SlotOf(n + 1) THEN n + 1 ELSE f[s]
  BY <1>1
<1> HIDE DEF g
<1>3. ASSUME NEW s \in 0..(SlotCount - 1)
      PROVE  /\ g[s] <= n + 1 /\ (g[s] # 0 => SlotOf(g[s]) = s)
             /\ \A op \in 1..(n + 1) : SlotOf(op) = s => op <= g[s]
  <2>1. f[s] \in Nat /\ f[s] <= n /\ (f[s] # 0 => SlotOf(f[s]) = s)
        /\ \A op \in 1..n : SlotOf(op) = s => op <= f[s]
    BY DEF Ring
  <2>2. CASE s = SlotOf(n + 1)
    BY <1>2, <2>2
  <2>3. CASE s # SlotOf(n + 1)
    BY <1>2, <2>1, <2>3
  <2> QED
    BY <2>2, <2>3
<1>4. Ring(g, n + 1)
  BY <1>3 DEF Ring
<1> QED
  BY <1>4 DEF g

\* The log grows at its end.
LogGrows == Len(log) <= Len(log') /\ \A i \in 1..Len(log) : log'[i] = log[i]

\* What was created in the first m prepares stays what it is.
LEMMA SameLog ==
  ASSUME FileTypes, LogGrows, NEW m \in 0..Len(log)
  PROVE  /\ \A tree : Created(tree, m)' = Created(tree, m)
         /\ \A tree : Objects(tree, 0, m)' = Objects(tree, 0, m)
         /\ \A op \in 1..m : Submitted(op)' = Submitted(op)
<1>1. Len(log) \in Nat /\ \A i \in 1..m : log'[i] = log[i]
  BY DEF FileTypes, LogGrows
<1>2. ASSUME NEW n \in 1..m PROVE Succeeds(n)' <=> Succeeds(n)
  <2>1. \A k \in 1..(n - 1) : k \in 1..m
    BY <1>1
  <2> QED
    BY <1>1, <2>1 DEF Succeeds
<1>3. ASSUME NEW tree PROVE Created(tree, m)' = Created(tree, m)
  BY <1>1, <1>2 DEF Created
<1>4. \A tree : Created(tree, m) \subseteq 1..m
  BY DEF Created
<1>5. ASSUME NEW n \in 1..m PROVE Object(n, m)' = Object(n, m)
  <2>1. Balance(log[n].id, m)' = Balance(log[n].id, m)
    <3>1. {k \in Created("transfers", m) : log[k].account = log[n].id}'
          = {k \in Created("transfers", m) : log[k].account = log[n].id}
      BY <1>1, <1>3, <1>4
    <3> QED
      BY <3>1 DEF Balance
  <2> QED
    BY <1>1, <2>1 DEF Object
<1>6. ASSUME NEW tree PROVE Objects(tree, 0, m)' = Objects(tree, 0, m)
  BY <1>3, <1>4, <1>5 DEF Objects
<1>7. ASSUME NEW op \in 1..m PROVE Submitted(op)' = Submitted(op)
  BY <1>1 DEF Submitted
<1> QED
  BY <1>3, <1>6, <1>7

\* What a step of the replica does to log and superblocks.
LEMMA LogOfReplica ==
  ASSUME FileInv, CheckpointIsCommitted, Wal, Replica
  PROVE  /\ LogGrows /\ commit <= commit' /\ Wal'
         /\ Durable.checkpoint <= Durable'.checkpoint
<1>1. /\ FileTypes /\ Copying /\ Len(log) \in Nat /\ commit \in Nat /\ log \in Seq(Prepares)
      /\ commit <= Len(log) /\ MaxOps \in Nat
      /\ Durable.checkpoint \in Nat /\ writing.checkpoint \in Nat
      /\ Copies \in Nat /\ Copies > 0 /\ copied \in Nat
  BY DurableTypes, FileAssumption, SMTT(30) DEF FileInv, FileTypes
<1>2. headers \in [0..(SlotCount - 1) -> Nat] /\ bodies \in [0..(SlotCount - 1) -> Nat]
  BY <1>1 DEF FileTypes
<1>3. /\ Ring(headers, commit) /\ Ring(bodies, Len(log))
      /\ Len(log) <= commit + 1 /\ Len(log) <= Durable.checkpoint + SlotCount
      /\ SlotCount \in Nat
  BY OneLap DEF Wal
<1>4. CASE Prepare
  <2>1. PICK p \in Prepares : log' = Append(log, p)
    BY <1>4 DEF Prepare
  <2>2. /\ commit = Len(log) /\ Len(log) + 1 <= Durable.checkpoint + SlotCount
        /\ bodies' = [bodies EXCEPT ![SlotOf(Len(log) + 1)] = Len(log) + 1]
        /\ commit' = commit /\ headers' = headers /\ copies' = copies
    BY <1>4 DEF Prepare
  <2>3. Len(log') = Len(log) + 1 /\ \A i \in 1..Len(log) : log'[i] = log[i]
    BY <1>1, <2>1
  <2>4. Durable' = Durable
    BY <2>2 DEF Durable
  <2>5. Ring(bodies', Len(log) + 1)
    BY <1>1, <1>2, <1>3, <2>2, RingGrows
  <2>6. Ring(bodies, Len(log))' /\ Ring(headers, commit)'
    BY <1>3, <2>2, <2>3, <2>5 DEF Ring
  <2> QED
    BY <1>1, <1>3, <2>2, <2>3, <2>4, <2>6 DEF Wal, LogGrows
<1>5. CASE Commit
  <2>1. /\ commit < Len(log) /\ commit' = Len(log)
        /\ headers' = [headers EXCEPT ![SlotOf(Len(log))] = Len(log)]
        /\ log' = log /\ bodies' = bodies /\ copies' = copies
    BY <1>5 DEF Commit
  <2>2. Len(log) = commit + 1
    BY <1>1, <1>3, <2>1
  <2>3. Ring(headers', commit + 1)
    BY <1>1, <1>2, <1>3, <2>1, <2>2, RingGrows
  <2>4. Ring(bodies, Len(log))' /\ Ring(headers, commit)'
    BY <1>3, <2>1, <2>2, <2>3 DEF Ring
  <2>5. Durable' = Durable
    BY <2>1 DEF Durable
  <2> QED
    BY <1>1, <1>3, <2>1, <2>2, <2>4, <2>5 DEF Wal, LogGrows
<1>6. CASE StartCheckpoint
  <2>1. UNCHANGED <<log, commit, copies, headers, bodies>>
    BY <1>6 DEF StartCheckpoint
  <2>2. Durable' = Durable /\ Ring(bodies, Len(log))' /\ Ring(headers, commit)'
    BY <1>3, <2>1 DEF Durable, Ring
  <2> QED
    BY <1>1, <1>3, <2>1, <2>2 DEF Wal, LogGrows
<1>7. CASE WriteCopy
  <2>1. /\ UNCHANGED <<log, commit, headers, bodies>> /\ copied < Copies
        /\ copies' = [copies EXCEPT ![copied + 1] = writing]
    BY <1>7 DEF WriteCopy
  <2>2. Ring(bodies, Len(log))' /\ Ring(headers, commit)'
    BY <1>3, <2>1 DEF Ring
  <2>3. Durable.checkpoint < writing.checkpoint
    BY <1>1, <2>1 DEF Copying
  <2>4. Durable' \in {Durable, writing}
    <3>1. copies \in [1..Copies -> Superblocks] /\ Copies \in 1..Copies /\ copied + 1 \in 1..Copies
      BY <1>1, <2>1 DEF FileTypes
    <3> QED
      BY <2>1, <3>1 DEF Durable
  <2> QED
    BY <1>1, <1>3, <2>1, <2>2, <2>3, <2>4 DEF Wal, LogGrows
<1> QED
  BY <1>4, <1>5, <1>6, <1>7 DEF Replica

(***************************************************************************)
(* 2. What a checkpoint writes.                                            *)
(***************************************************************************)

\* A table lists the objects of its prepares, all of them and no others.
LEMMA TableContents ==
  ASSUME FileTypes, NEW t \in NewTableSet
  PROVE  ToSet(TableObjects(t)) = {Object(n, t.upto) : n \in t.ops}
<1> DEFINE ops == Ascending(t.ops)
<1>1. t.ops \subseteq 1..Len(log) /\ Len(log) \in Nat
  BY DEF NewTableSet, FileTypes
<1>2. t.ops \subseteq Nat /\ IsFiniteSet(t.ops)
  <2>1. 1 \in Int /\ Len(log) \in Int
    BY <1>1
  <2>2. IsFiniteSet(1..Len(log)) /\ 1..Len(log) \subseteq Nat
    BY <2>1, FS_Interval
  <2> QED
    BY <1>1, <2>2, FS_Subset
<1>3. /\ DOMAIN ops = 1..Cardinality(t.ops)
      /\ \A i \in 1..Cardinality(t.ops) : ops[i] \in t.ops
      /\ \A x \in t.ops : \E i \in 1..Cardinality(t.ops) : ops[i] = x
  BY <1>2, AscendingLists
<1>4. TableObjects(t) = [i \in DOMAIN ops |-> Object(ops[i], t.upto)]
  BY DEF TableObjects
<1> HIDE DEF ops
<1>5. ToSet(TableObjects(t)) = {Object(ops[i], t.upto) : i \in DOMAIN ops}
  BY <1>4 DEF ToSet
<1> QED
  BY <1>3, <1>5

\* The accounts' table of a checkpoint, and the transfers'.
AccountTable == [tree |-> "accounts", ops |-> Created("accounts", commit), upto |-> commit]
TransferOps(how) ==
  Created("transfers", commit) \ 1..(IF how = "compact" THEN 0 ELSE Durable.checkpoint)
TransferTable(how) == [tree |-> "transfers", ops |-> TransferOps(how), upto |-> commit]

\* The transient table, if there is one, comes first and is one of accounts.  The others
\* are these two.
LEMMA NewTablesAre ==
  ASSUME FileTypes, NEW how, CanCheckpoint(how), Created("accounts", commit) # {}
  PROVE  /\ \A i \in 1..Len(NewTables(how)) :
              IF how = "transient" /\ i = 1 THEN NewTables(how)[i].tree = "accounts"
              ELSE NewTables(how)[i] \in {AccountTable, TransferTable(how)}
         /\ \E i \in 1..Len(NewTables(how)) :
              NewTables(how)[i] = AccountTable /\ ~(how = "transient" /\ i = 1)
         /\ TransferOps(how) # {} =>
              \E i \in 1..Len(NewTables(how)) :
                NewTables(how)[i] = TransferTable(how) /\ ~(how = "transient" /\ i = 1)
<1> DEFINE since == Durable.checkpoint
           table(tree, from, upto) ==
             IF Created(tree, upto) \ 1..from = {} THEN <<>>
             ELSE <<[tree |-> tree, ops |-> Created(tree, upto) \ 1..from, upto |-> upto]>>
           first == IF how = "transient" THEN table("accounts", 0, since + 1) ELSE <<>>
           second == table("accounts", 0, commit)
           third == table("transfers", IF how = "compact" THEN 0 ELSE since, commit)
<1>1. NewTables(how) = first \o second \o third
  BY DEF NewTables
<1>2. 1..0 = {}
  OBVIOUS
<1>3. second = <<AccountTable>>
  BY <1>2 DEF AccountTable
<1>4. third = IF TransferOps(how) = {} THEN <<>> ELSE <<TransferTable(how)>>
  BY DEF TransferOps, TransferTable
<1>5. IF how = "transient" THEN Len(first) = 1 /\ first[1].tree = "accounts" ELSE Len(first) = 0
  <2>1. CASE how = "transient"
    <3>1. Created("accounts", since + 1) \ 1..0 # {}
      BY <1>2, <2>1 DEF CanCheckpoint
    <3>2. first = <<[tree |-> "accounts", ops |-> Created("accounts", since + 1) \ 1..0,
                     upto |-> since + 1]>>
      BY <2>1, <3>1
    <3> HIDE DEF first
    <3> QED
      BY <2>1, <3>2
  <2>2. CASE how # "transient"
    BY <2>2
  <2> QED
    BY <2>1, <2>2
<1>6. first = <<>> \/ \E x : first = <<x>>
  OBVIOUS
<1> HIDE DEF first, second, third, table
<1> DEFINE S == {first[i] : i \in DOMAIN first} \cup {AccountTable, TransferTable(how)}
<1>15. AccountTable \in S /\ TransferTable(how) \in S /\ \A i \in DOMAIN first : first[i] \in S
  OBVIOUS
<1> HIDE DEF S
<1>7. /\ first \in Seq(S) /\ second \in Seq(S) /\ Len(second) = 1
      /\ second[1] = AccountTable
  <2>1. CASE first = <<>>
    BY <2>1, <1>3, <1>15
  <2>2. CASE \E x : first = <<x>>
    <3>1. PICK x : first = <<x>>
      BY <2>2
    <3>2. x = first[1] /\ 1 \in DOMAIN first
      BY <3>1
    <3>3. x \in S
      BY <3>2, <1>15
    <3> QED
      BY <3>1, <3>3, <1>3, <1>15
  <2> QED
    BY <2>1, <2>2, <1>6
<1>8. /\ third \in Seq(S) /\ Len(third) \in {0, 1}
      /\ TransferOps(how) # {} => Len(third) = 1
      /\ Len(third) = 1 => third[1] = TransferTable(how)
  <2>1. CASE TransferOps(how) = {}
    BY <1>4, <2>1
  <2>2. CASE TransferOps(how) # {}
    <3>1. third = <<TransferTable(how)>> /\ Len(<<TransferTable(how)>>) = 1
      BY <1>4, <2>2
    <3> QED
      BY <3>1, <1>15
  <2> QED
    BY <2>1, <2>2
<1>9. PICK f \in {0, 1} : f = Len(first) /\ (f = 1 <=> how = "transient")
  BY <1>5
<1>10. PICK g \in {0, 1} : g = Len(third)
  BY <1>8
<1>11. first \o second \in Seq(S) /\ Len(first \o second) = f + 1
       /\ (first \o second)[f + 1] = AccountTable
       /\ (f = 1 => (first \o second)[1] = first[1])
  <2>4. first \in Seq(S) /\ second \in Seq(S)
    BY <1>7
  <2>1. first \o second \in Seq(S) /\ Len(first \o second) = Len(first) + Len(second)
    BY <2>4
  <2>2. \A i \in 1..Len(first) : (first \o second)[i] = first[i]
    BY <2>4
  <2>3. \A i \in 1..Len(second) : (first \o second)[Len(first) + i] = second[i]
    BY <2>4
  <2> QED
    BY <1>7, <1>9, <2>1, <2>2, <2>3
<1>12. /\ Len(NewTables(how)) = f + 1 + g
       /\ \A i \in 1..(f + 1) : NewTables(how)[i] = (first \o second)[i]
       /\ g = 1 => NewTables(how)[f + 2] = TransferTable(how)
  <2> DEFINE start == first \o second
  <2>1. start \in Seq(S) /\ Len(start) = f + 1
    BY <1>11
  <2> HIDE DEF start
  <2>2. Len(start \o third) = Len(start) + Len(third)
    BY <1>8, <2>1
  <2>3. \A i \in 1..Len(start) : (start \o third)[i] = start[i]
    BY <1>8, <2>1
  <2>4. \A i \in 1..Len(third) : (start \o third)[Len(start) + i] = third[i]
    BY <1>8, <2>1
  <2>5. g = 1 => (start \o third)[f + 2] = TransferTable(how)
    <3>1. g = 1 => 1 \in 1..Len(third) /\ (f + 1) + 1 = f + 2
      BY <1>10
    <3> QED
      BY <1>8, <1>10, <2>1, <2>4, <3>1
  <2> QED
    BY <1>1, <1>10, <2>1, <2>2, <2>3, <2>5 DEF start
<1>13. /\ f = 1 => NewTables(how)[1] = first[1]
       /\ NewTables(how)[f + 1] = AccountTable
  BY <1>11, <1>12
<1> QED
  BY <1>5, <1>8, <1>9, <1>10, <1>12, <1>13

\* A checkpoint starts when the one before is durable.
LEMMA StartOfCheckpoint ==
  ASSUME FileInv, StartCheckpoint
  PROVE  /\ \E how : CanCheckpoint(how)
         /\ Created("accounts", commit) # {}
         /\ Durable = writing /\ Durable' = Durable /\ Durable \in Superblocks
         /\ writing.checkpoint <= commit /\ writing.checkpoint \in Nat
         /\ UNCHANGED <<log, commit, copies, headers, bodies>>
<1>1. FileTypes /\ Copying
  BY DEF FileInv
<1>2. /\ Copies \in Nat /\ Copies > 0 /\ Durable \in Superblocks /\ Durable.checkpoint \in Nat
      /\ commit \in Nat
  BY <1>1, DurableTypes DEF FileTypes
<1>3. /\ copied = Copies /\ Durable.checkpoint < commit
      /\ UNCHANGED <<log, commit, copies, headers, bodies>> /\ Created("accounts", commit) # {}
  BY DEF StartCheckpoint
<1>4. \E how : CanCheckpoint(how)
  BY <1>2, <1>3 DEF StartCheckpoint, CanCheckpoint
<1>5. Durable = writing /\ Durable' = Durable
  <2>1. Copies \in 1..Copies /\ Copies <= copied
    BY <1>2, <1>3
  <2> QED
    BY <1>1, <1>3, <2>1 DEF Copying, Durable
<1> QED
  BY <1>2, <1>3, <1>4, <1>5

\* A transfer's object does not change with later prepares.
LEMMA TransfersGrow ==
  ASSUME NEW m \in Nat, NEW n \in Nat, m <= n
  PROVE  /\ \A k \in 1..m : k \in Created("transfers", n) <=> k \in Created("transfers", m)
         /\ \A k \in Created("transfers", n) : Object(k, n) = Object(k, m)
         /\ Objects("transfers", 0, m) \subseteq Objects("transfers", 0, n)
<1>1. \A k \in 1..m : k \in Created("transfers", n) <=> k \in Created("transfers", m)
  BY DEF Created
<1>2. \A k \in Created("transfers", n) : Object(k, n) = Object(k, m)
  BY DEF Created, Object
<1>3. Created("transfers", m) \subseteq 1..m
  BY DEF Created
<1> QED
  BY <1>1, <1>2, <1>3 DEF Objects

\* What a checkpoint drops: all tables of accounts that were live, those of transfers if
\* they are compacted, and the transient one.
LEMMA GoneTables ==
  ASSUME FileInv, NEW how, CanCheckpoint(how)
  PROVE  /\ \A t \in tables : t \in Gone(how, Places(how)) <=>
              t.tree = "accounts" \/ (how = "compact" /\ t.tree = "transfers")
         /\ \A i \in DOMAIN Places(how) : Places(how)[i] \in Gone(how, Places(how)) <=>
              how = "transient" /\ i = 1
         /\ \A i \in DOMAIN Places(how) : \A t \in tables : t.index # Places(how)[i].index
<1> DEFINE placed == Places(how)
<1>1. /\ \A i \in DOMAIN placed : placed[i].index \in free
      /\ \A i, j \in DOMAIN placed : placed[i].index = placed[j].index => i = j
      /\ how = "transient" => 1 \in DOMAIN placed
  <2>1. FileTypes
    BY DEF FileInv
  <2>2. /\ DOMAIN placed = 1..Len(NewTables(how)) /\ NewTables(how) \in Seq(NewTableSet)
        /\ how = "transient" => Len(NewTables(how)) > 0
    BY <2>1, PlacesAreFree
  <2>3. \A i, j \in 1..Len(NewTables(how)) :
          placed[i].index \in free /\ (placed[i].index = placed[j].index => i = j)
    BY <2>1, PlacesAreFree
  <2>4. how = "transient" => 1 \in DOMAIN placed
    BY <2>2
  <2> QED
    BY <2>2, <2>3, <2>4
<1>2. \A t \in tables : t.index \notin free
  BY DEF FileInv, TablesAreStored, Stored
<1> HIDE DEF placed
<1>3. \A i \in DOMAIN placed : \A t \in tables : t.index # placed[i].index
  BY <1>1, <1>2
<1>4. Gone(how, placed) =
        (IF how = "transient" THEN {placed[1]} ELSE {})
        \cup Live("accounts") \cup (IF how = "compact" THEN Live("transfers") ELSE {})
  BY DEF Gone
<1>5. \A t \in tables : t \in Gone(how, placed) <=>
        t.tree = "accounts" \/ (how = "compact" /\ t.tree = "transfers")
  BY <1>1, <1>3, <1>4 DEF Live
<1>6. \A i \in DOMAIN placed : placed[i] \in Gone(how, placed) <=> how = "transient" /\ i = 1
  <2>1. \A i \in DOMAIN placed : placed[i] \notin Live("accounts") /\ placed[i] \notin Live("transfers")
    BY <1>3 DEF Live
  <2> QED
    BY <1>1, <1>4, <2>1
<1> QED
  BY <1>3, <1>5, <1>6 DEF placed

\* A new table has the objects of its prepares.
LEMMA NewTablesHold ==
  ASSUME FileInv, StartCheckpoint, NEW how, CanCheckpoint(how)
  PROVE  /\ \A i \in DOMAIN Places(how) :
              LET t == Places(how)[i]
              IN  ~(how = "transient" /\ i = 1) =>
                    \/ /\ t.tree = "accounts"
                       /\ ToSet(grid'[t.value].objects) = Objects("accounts", 0, commit)
                    \/ /\ t.tree = "transfers"
                       /\ ToSet(grid'[t.value].objects) = {Object(n, commit) : n \in TransferOps(how)}
         /\ how = "transient" => Places(how)[1].tree = "accounts"
         /\ \E i \in DOMAIN Places(how) :
              ~(how = "transient" /\ i = 1) /\ Places(how)[i].tree = "accounts"
         /\ TransferOps(how) # {} => \E i \in DOMAIN Places(how) :
              ~(how = "transient" /\ i = 1) /\ Places(how)[i].tree = "transfers"
<1> DEFINE news == NewTables(how)
           placed == Places(how)
<1>1. FileTypes /\ Created("accounts", commit) # {}
  BY StartOfCheckpoint DEF FileInv
<1>2. /\ \A i \in 1..Len(news) :
           IF how = "transient" /\ i = 1 THEN news[i].tree = "accounts"
           ELSE news[i] \in {AccountTable, TransferTable(how)}
      /\ \E i \in 1..Len(news) : news[i] = AccountTable /\ ~(how = "transient" /\ i = 1)
      /\ TransferOps(how) # {} =>
           \E i \in 1..Len(news) : news[i] = TransferTable(how) /\ ~(how = "transient" /\ i = 1)
  BY <1>1, NewTablesAre
<1>3. /\ DOMAIN placed = 1..Len(news) /\ news \in Seq(NewTableSet)
      /\ \A i \in 1..Len(news) : placed[i].tree = news[i].tree
      /\ how = "transient" => Len(news) > 0
  <2>1. /\ DOMAIN placed = 1..Len(news) /\ news \in Seq(NewTableSet)
        /\ how = "transient" => Len(news) > 0
    BY <1>1, PlacesAreFree
  <2>2. \A i \in 1..Len(news) : placed[i] = [tree |-> news[i].tree,
                                           index |-> Ascending(free)[2 * i],
                                           value |-> Ascending(free)[2 * i + 1]]
    BY <1>1, PlacesAreFree
  <2> HIDE DEF placed, news
  <2>3. \A i \in 1..Len(news) : placed[i].tree = news[i].tree
    <3> TAKE i \in 1..Len(news)
    <3>1. PICK x, y, tree : tree = news[i].tree /\ placed[i] = [tree |-> tree, index |-> x, value |-> y]
      BY <2>2, ZenonT(40)
    <3> QED
      BY <3>1
  <2> QED
    BY <2>1, <2>3
<1>4. \A i \in DOMAIN placed :
        grid'[placed[i].value] = [type |-> "value", objects |-> TableObjects(news[i])]
  BY <1>1, CheckpointWrites
<1> HIDE DEF placed, news
<1>5. \A i \in DOMAIN placed :
        ToSet(grid'[placed[i].value].objects) = {Object(n, news[i].upto) : n \in news[i].ops}
  <2> TAKE i \in DOMAIN placed
  <2>1. news[i] \in NewTableSet
    BY <1>3
  <2>2. grid'[placed[i].value].objects = TableObjects(news[i])
    <3>1. PICK os : os = TableObjects(news[i])
      OBVIOUS
    <3>2. grid'[placed[i].value] = [type |-> "value", objects |-> os]
      BY <1>4, <3>1
    <3> QED
      BY <3>1, <3>2
  <2> QED
    BY <1>1, <2>1, <2>2, TableContents
<1>6. /\ AccountTable.tree = "accounts" /\ AccountTable.upto = commit
      /\ AccountTable.ops = Created("accounts", commit)
      /\ TransferTable(how).tree = "transfers" /\ TransferTable(how).upto = commit
      /\ TransferTable(how).ops = TransferOps(how)
  BY DEF AccountTable, TransferTable
<1>7. Objects("accounts", 0, commit) = {Object(n, commit) : n \in Created("accounts", commit)}
  <2>1. 1..0 = {}
    OBVIOUS
  <2> QED
    BY <2>1 DEF Objects
<1>8. ASSUME NEW i \in DOMAIN placed, ~(how = "transient" /\ i = 1)
      PROVE  \/ /\ placed[i].tree = "accounts"
                /\ ToSet(grid'[placed[i].value].objects) = Objects("accounts", 0, commit)
             \/ /\ placed[i].tree = "transfers"
                /\ ToSet(grid'[placed[i].value].objects) = {Object(n, commit) : n \in TransferOps(how)}
  <2>1. news[i] = AccountTable \/ news[i] = TransferTable(how)
    BY <1>2, <1>3, <1>8
  <2>2. CASE news[i] = AccountTable
    <3>1. {Object(n, news[i].upto) : n \in news[i].ops}
          = {Object(n, commit) : n \in Created("accounts", commit)}
      BY <1>6, <2>2
    <3> QED
      BY <1>3, <1>5, <1>6, <1>7, <2>2, <3>1
  <2>3. CASE news[i] = TransferTable(how)
    <3>1. {Object(n, news[i].upto) : n \in news[i].ops} = {Object(n, commit) : n \in TransferOps(how)}
      BY <1>6, <2>3
    <3> QED
      BY <1>3, <1>5, <1>6, <2>3, <3>1
  <2> QED
    BY <2>1, <2>2, <2>3
<1>9. how = "transient" => placed[1].tree = "accounts"
  <2> HAVE how = "transient"
  <2>1. 1 \in 1..Len(news)
    BY <1>3
  <2> QED
    BY <1>2, <1>3, <2>1
<1>10. \E i \in DOMAIN placed : ~(how = "transient" /\ i = 1) /\ placed[i].tree = "accounts"
  BY <1>2, <1>3, <1>6
<1>11. TransferOps(how) # {} =>
         \E i \in DOMAIN placed : ~(how = "transient" /\ i = 1) /\ placed[i].tree = "transfers"
  BY <1>2, <1>3, <1>6
<1> QED
  BY <1>8, <1>9, <1>10, <1>11 DEF placed

\* The tables of a new checkpoint hold what was created up to it.
LEMMA CheckpointHolds ==
  ASSUME FileInv, TablesHold, StartCheckpoint
  PROVE  TablesHold'
<1>1. PICK how : CanCheckpoint(how)
  BY StartOfCheckpoint
<1>2. /\ FileTypes /\ writing.checkpoint <= commit /\ writing.checkpoint \in Nat /\ commit \in Nat
      /\ commit \in 0..Len(log) /\ Durable = writing /\ UNCHANGED <<log, commit, copies>>
  BY StartOfCheckpoint DEF FileInv, FileTypes
<1> DEFINE placed == Places(how)
           gone == Gone(how, placed)
<1>3. /\ \A a \in Addresses \ free : grid'[a] = grid[a]
      /\ tables' = (tables \cup ToSet(placed)) \ gone
      /\ writing'.checkpoint = commit
  BY <1>1, <1>2, CheckpointWrites
<1>4. /\ \A t \in tables : t \in gone <=>
           t.tree = "accounts" \/ (how = "compact" /\ t.tree = "transfers")
      /\ \A i \in DOMAIN placed : placed[i] \in gone <=> how = "transient" /\ i = 1
  BY <1>1, GoneTables
<1>5. /\ \A i \in DOMAIN placed : ~(how = "transient" /\ i = 1) =>
           \/ /\ placed[i].tree = "accounts"
              /\ ToSet(grid'[placed[i].value].objects) = Objects("accounts", 0, commit)
           \/ /\ placed[i].tree = "transfers"
              /\ ToSet(grid'[placed[i].value].objects) = {Object(n, commit) : n \in TransferOps(how)}
      /\ \E i \in DOMAIN placed :
           ~(how = "transient" /\ i = 1) /\ placed[i].tree = "accounts"
      /\ TransferOps(how) # {} => \E i \in DOMAIN placed :
           ~(how = "transient" /\ i = 1) /\ placed[i].tree = "transfers"
  BY <1>1, NewTablesHold
<1> HIDE DEF placed, gone
<1>6. \A t \in ToSet(placed) : \E i \in DOMAIN placed : t = placed[i]
  BY DEF ToSet
<1>7. \A i \in DOMAIN placed : ~(how = "transient" /\ i = 1) => placed[i] \in tables'
  BY <1>3, <1>4 DEF ToSet
<1>8. \A t \in tables : grid'[t.value] = grid[t.value]
  <2> TAKE t \in tables
  <2>1. t.value \notin free /\ t.value \in Addresses
    BY DEF FileInv, FileTypes, TablesAreStored, Stored, Tables
  <2> QED
    BY <1>3, <2>1
<1>9. \A tree : Objects(tree, 0, writing.checkpoint)' = Objects(tree, 0, commit)
  <2>1. log' = log
    BY <1>2
  <2> QED
    BY <1>2, <1>3, <2>1 DEF Objects, Created, Object, Balance, Succeeds
<1>10. \A t \in tables' :
         \/ t \in tables /\ t \notin gone
         \/ \E i \in DOMAIN placed : t = placed[i] /\ ~(how = "transient" /\ i = 1)
  BY <1>3, <1>4, <1>6
<1>11. ASSUME NEW t \in tables', t.tree = "accounts"
       PROVE  ToSet(grid'[t.value].objects) = Objects("accounts", 0, commit)
  BY <1>4, <1>5, <1>10, <1>11
<1>12. TreeHolds("accounts")'
  <2>1. ASSUME NEW o \in Objects("accounts", 0, commit)
        PROVE  \E t \in tables' : t.tree = "accounts" /\ o \in ToSet(grid'[t.value].objects)
    BY <1>5, <1>7, <1>11
  <2> QED
    BY <1>9, <1>11, <2>1 DEF TreeHolds
<1>13. /\ \A o \in Objects("transfers", 0, commit) :
            \E n \in Created("transfers", commit) : o = Object(n, commit)
       /\ {Object(n, commit) : n \in TransferOps(how)} \subseteq Objects("transfers", 0, commit)
  <2>1. 1..0 = {}
    OBVIOUS
  <2>2. TransferOps(how) \subseteq Created("transfers", commit)
    BY DEF TransferOps
  <2> QED
    BY <2>1, <2>2 DEF Objects
<1>14. TreeHolds("transfers")
  BY DEF TablesHold, Trees
<1>15. ASSUME NEW t \in tables', t.tree = "transfers"
       PROVE  ToSet(grid'[t.value].objects) \subseteq Objects("transfers", 0, commit)
  <2>1. CASE t \in tables
    <3>1. ToSet(grid[t.value].objects) \subseteq Objects("transfers", 0, writing.checkpoint)
      BY <1>14, <1>15, <2>1 DEF TreeHolds
    <3>2. Objects("transfers", 0, writing.checkpoint) \subseteq Objects("transfers", 0, commit)
      BY <1>2, TransfersGrow
    <3>3. grid'[t.value] = grid[t.value]
      BY <1>8, <2>1
    <3> QED
      BY <3>1, <3>2, <3>3
  <2>2. CASE t \notin tables
    <3>1. ToSet(grid'[t.value].objects) = {Object(n, commit) : n \in TransferOps(how)}
      BY <1>5, <1>10, <1>15, <2>2
    <3> QED
      BY <1>13, <3>1
  <2> QED
    BY <2>1, <2>2
<1>16. ASSUME NEW o \in Objects("transfers", 0, commit)
       PROVE  \E t \in tables' : t.tree = "transfers" /\ o \in ToSet(grid'[t.value].objects)
  <2>1. PICK n \in Created("transfers", commit) : o = Object(n, commit)
    BY <1>13
  <2>2. CASE n \in TransferOps(how)
    <3>1. PICK i \in DOMAIN placed : ~(how = "transient" /\ i = 1) /\ placed[i].tree = "transfers"
      BY <1>5, <2>2
    <3>2. ToSet(grid'[placed[i].value].objects) = {Object(k, commit) : k \in TransferOps(how)}
      BY <1>5, <3>1
    <3> QED
      BY <1>7, <2>1, <2>2, <3>1, <3>2
  <2>3. CASE n \notin TransferOps(how)
    <3>1. how # "compact" /\ n \in 1..writing.checkpoint
      <4>1. n \in 1..(IF how = "compact" THEN 0 ELSE writing.checkpoint)
        BY <1>2, <2>3 DEF TransferOps
      <4>2. 1..0 = {}
        OBVIOUS
      <4> QED
        BY <4>1, <4>2
    <3>2. n \in Created("transfers", writing.checkpoint) /\ o = Object(n, writing.checkpoint)
      BY <1>2, <2>1, <3>1, TransfersGrow
    <3>3. o \in Objects("transfers", 0, writing.checkpoint)
      <4>1. 1..0 = {}
        OBVIOUS
      <4> QED
        BY <3>2, <4>1 DEF Objects
    <3>4. PICK t \in tables : t.tree = "transfers" /\ o \in ToSet(grid[t.value].objects)
      BY <1>14, <3>3 DEF TreeHolds
    <3>5. t \in tables' /\ grid'[t.value] = grid[t.value]
      BY <1>3, <1>4, <1>8, <3>1, <3>4
    <3> QED
      BY <3>4, <3>5
  <2> QED
    BY <2>2, <2>3
<1>17. TreeHolds("transfers")'
  BY <1>9, <1>15, <1>16 DEF TreeHolds
<1> QED
  BY <1>12, <1>17 DEF TablesHold, Trees

\* What a new manifest block says of a table: nothing of those that stay where they
\* are, an insertion or a removal of those that come or go.
LEMMA NewEntries ==
  ASSUME FileInv, NEW how, CanCheckpoint(how),
         NEW e \in ToSet(ManifestBlock(how, Places(how)).entries)
  PROVE  \/ e.event = "insert" /\ \E i \in DOMAIN Places(how) : e = Entry(Places(how)[i], "insert")
         \/ e.event = "update" /\ \E t \in Moved(how) : e = Entry(t, "update")
         \/ e.event = "remove" /\ \E t \in Gone(how, Places(how)) : e = Entry(t, "remove")
<1>1. e \in {Entry(t, "insert") : t \in ToSet(Places(how))}
           \cup {Entry(t, "update") : t \in Moved(how)}
           \cup {Entry(t, "remove") : t \in Gone(how, Places(how))}
  BY NewManifestBlock DEF FileInv
<1>2. \A t \in ToSet(Places(how)) : \E i \in DOMAIN Places(how) : t = Places(how)[i]
  BY DEF ToSet
<1>3. \A t, event : Entry(t, event).event = event
  BY DEF Entry
<1> QED
  BY <1>1, <1>2, <1>3

\* The manifest grows by one block, and the old ones keep their entries.
LEMMA ManifestGrows ==
  ASSUME FileInv, StartCheckpoint, NEW how, CanCheckpoint(how)
  PROVE  \E L \in Nat :
           /\ L = Len(manifest) /\ writing.count = L /\ writing'.count = L + 1
           /\ \A i \in 1..L : EntriesIn(i)' = EntriesIn(i)
           /\ EntriesIn(L + 1)' = ManifestBlock(how, Places(how)).entries
           /\ ManifestBlock(how, Places(how)).entries \in Seq(ManifestEntries)
<1>1. FileTypes /\ Copying /\ manifest \in Seq(Addresses) /\ Len(manifest) \in Nat
  BY DEF FileInv, FileTypes
<1>2. PICK L \in Nat : L = Len(manifest)
  BY <1>1
<1>3. /\ grid'[NewAddress] = ManifestBlock(how, Places(how))
      /\ manifest' = Append(manifest, NewAddress)
      /\ writing'.count = Durable.count + 1
  BY <1>1, CheckpointWrites
<1>4. writing.count = L /\ Durable = writing
  BY <1>1, <1>2, StartOfCheckpoint DEF Copying
<1>5. manifest'[L + 1] = NewAddress
  BY <1>1, <1>2, <1>3
<1>6. \A i \in 1..L : EntriesIn(i)' = EntriesIn(i)
  BY <1>2, Checkpointing, LeavesEntries
<1>7. EntriesIn(L + 1)' = ManifestBlock(how, Places(how)).entries
  BY <1>3, <1>5 DEF EntriesIn
<1>8. ManifestBlock(how, Places(how)).entries \in Seq(ManifestEntries)
  <2>1. ManifestBlock(how, Places(how)) \in ManifestBlocks
    BY <1>1, NewManifestBlock
  <2> QED
    BY <2>1 DEF ManifestBlocks
<1> QED
  BY <1>2, <1>3, <1>4, <1>6, <1>7, <1>8

\* Only a table of accounts comes and goes at once.
LEMMA TransfersStayOn ==
  ASSUME FileInv, TransfersStay, StartCheckpoint
  PROVE  TransfersStay'
<1>1. PICK how : CanCheckpoint(how)
  BY StartOfCheckpoint
<1>2. PICK L \in Nat :
        /\ L = Len(manifest) /\ writing.count = L /\ writing'.count = L + 1
        /\ \A i \in 1..L : EntriesIn(i)' = EntriesIn(i)
        /\ EntriesIn(L + 1)' = ManifestBlock(how, Places(how)).entries
  BY <1>1, ManifestGrows
<1>3. SUFFICES ASSUME NEW i \in 1..(L + 1), NEW x \in ToSet(EntriesIn(i)'), NEW y \in ToSet(EntriesIn(i)'),
                      x.tree = "transfers", y.tree = "transfers", x.address = y.address,
                      x.event = "insert", y.event = "remove"
               PROVE  FALSE
  BY <1>2 DEF TransfersStay, Transient
<1>4. CASE i \in 1..L
  <2>1. EntriesIn(i)' = EntriesIn(i) /\ i \in 1..writing.count
    BY <1>2, <1>4
  <2>2. Transient(writing, "transfers")
    BY <1>3, <2>1 DEF Transient
  <2> QED
    BY <2>2 DEF TransfersStay
<1>5. CASE i = L + 1
  <2>1. EntriesIn(i)' = ManifestBlock(how, Places(how)).entries
    BY <1>2, <1>5
  <2>2. PICK j \in DOMAIN Places(how) : x = Entry(Places(how)[j], "insert")
    BY <1>1, <1>3, <2>1, NewEntries
  <2>3. PICK t \in Gone(how, Places(how)) : y = Entry(t, "remove")
    BY <1>1, <1>3, <2>1, NewEntries
  <2>4. Places(how)[j].index = t.index /\ t.tree = "transfers" /\ Places(how)[j].tree = "transfers"
    BY <1>3, <2>2, <2>3 DEF Entry
  <2>5. t \notin tables
    BY <1>1, <2>4, GoneTables
  <2>6. how = "transient" /\ t = Places(how)[1]
    <3>1. Gone(how, Places(how)) \subseteq tables \cup (IF how = "transient" THEN {Places(how)[1]} ELSE {})
      BY DEF Gone, Live
    <3> QED
      BY <2>5, <3>1
  <2>7. Places(how)[1].tree = "accounts"
    BY <1>1, <2>6, NewTablesHold
  <2> QED
    BY <2>4, <2>6, <2>7
<1> QED
  BY <1>4, <1>5

\* The tables of a new checkpoint are live to a reader.
LEMMA NewTablesAreLive ==
  ASSUME FileInv, TablesAreLive, StartCheckpoint
  PROVE  TablesAreLive'
<1>1. PICK how : CanCheckpoint(how)
  BY StartOfCheckpoint
<1> DEFINE placed == Places(how)
           gone == Gone(how, placed)
           es == ManifestBlock(how, placed).entries
<1>2. PICK L \in Nat :
        /\ L = Len(manifest) /\ writing.count = L /\ writing'.count = L + 1
        /\ \A i \in 1..L : EntriesIn(i)' = EntriesIn(i)
        /\ EntriesIn(L + 1)' = es /\ es \in Seq(ManifestEntries)
  BY <1>1, ManifestGrows
<1>3. tables' = (tables \cup ToSet(placed)) \ gone
  BY <1>1, CheckpointWrites DEF FileInv
<1>4. /\ \A t \in tables : t \in gone <=>
           t.tree = "accounts" \/ (how = "compact" /\ t.tree = "transfers")
      /\ \A i \in DOMAIN placed : placed[i] \in gone <=> how = "transient" /\ i = 1
      /\ \A i \in DOMAIN placed : \A t \in tables : t.index # placed[i].index
  BY <1>1, GoneTables
<1>5. /\ \A t \in gone : t \in tables \/ (how = "transient" /\ t = placed[1])
      /\ how = "transient" => 1 \in DOMAIN placed
  <2>1. gone \subseteq tables \cup (IF how = "transient" THEN {placed[1]} ELSE {})
    BY DEF Gone, Live
  <2>2. how = "transient" => 1 \in DOMAIN placed
    BY <1>1, GoneAndMoved DEF FileInv
  <2> QED
    BY <2>1, <2>2
<1>6. \A i, j \in DOMAIN placed : placed[i].index = placed[j].index => i = j
  <2>1. DOMAIN placed = 1..Len(NewTables(how))
    BY <1>1, PlacesAreFree DEF FileInv
  <2>2. \A i, j \in 1..Len(NewTables(how)) : placed[i].index = placed[j].index => i = j
    BY <1>1, PlacesAreFree DEF FileInv
  <2> QED
    BY <2>1, <2>2
<1>7. \A e \in ToSet(es) :
        \/ e.event = "insert"
        \/ e.event = "update"
        \/ e.event = "remove" /\ \E t \in gone : e = Entry(t, "remove")
  BY <1>1, NewEntries
<1>8. \A t \in ToSet(placed) : \E i \in DOMAIN placed : t = placed[i]
  BY DEF ToSet
<1>9. \A t \in tables' : t \in Tables
  BY Checkpointing DEF FileInv, FileTypes
<1> HIDE DEF placed, gone, es
\* Nothing that is said of a table that is live speaks of a removal.
<1>10. ASSUME NEW t \in tables', NEW e \in ToSet(es), e.address = t.index, e.tree = t.tree
       PROVE  e.event \in {"insert", "update"}
  <2>1. SUFFICES ASSUME NEW u \in gone, e = Entry(u, "remove") PROVE FALSE
    BY <1>7
  <2>2. u.index = t.index /\ u.tree = t.tree
    BY <1>10, <2>1 DEF Entry
  <2>3. t \notin gone /\ (t \in tables \/ \E i \in DOMAIN placed : t = placed[i])
    BY <1>3, <1>8
  <2>4. CASE u \in tables
    <3>1. t \in tables
      BY <1>4, <2>2, <2>3, <2>4
    <3> QED
      BY <1>4, <2>2, <2>3, <2>4, <3>1
  <2>5. CASE how = "transient" /\ u = placed[1]
    <3>1. PICK i \in DOMAIN placed : t = placed[i]
      BY <1>4, <1>5, <2>2, <2>3, <2>5
    <3> QED
      BY <1>4, <1>5, <1>6, <2>1, <2>2, <2>3, <2>5, <3>1
  <2> QED
    BY <1>5, <2>4, <2>5
<1>11. \A tree : LiveAt(L, tree)' = LiveAt(L, tree)
  BY <1>2, SameEntries
<1>12. ASSUME NEW t \in tables' PROVE t.index \in LiveAt(L + 1, t.tree)'
  <2>1. PICK a \in Addresses, tree \in Trees : a = t.index /\ tree = t.tree
    BY <1>9 DEF Tables
  <2>2. CASE \E e \in ToSet(es) : e.address = a /\ e.tree = tree
    <3> DEFINE T == {j \in DOMAIN es : es[j].address = a /\ es[j].tree = tree}
    <3>1. T # {} /\ T \subseteq Nat /\ DOMAIN es = 1..Len(es)
      BY <1>2, <2>2 DEF ToSet
    <3>2. PICK j \in T : \A m \in T : j <= m
      BY <3>1, Least
    <3>3. j \in FirstMet(es, tree)
      <4>1. ASSUME NEW m \in 1..(j - 1), es[m].tree = tree PROVE es[m].address # es[j].address
        <5>1. m \in DOMAIN es /\ ~(j <= m)
          BY <1>2, <3>1, <3>2
        <5> QED
          BY <5>1, <4>1, <3>2
      <4> QED
        BY <3>2, <4>1 DEF FirstMet
    <3>4. es[j] \in ToSet(es) /\ es[j].address = a /\ es[j].tree = tree
      BY <3>2 DEF ToSet
    <3>5. es[j].event \in {"insert", "update"}
      BY <1>10, <2>1, <3>4
    <3>6. PICK event \in {"insert", "update"} : event = es[j].event
      BY <3>5
    <3>7. \E m \in FirstMet(EntriesIn(L + 1), tree)' :
            EntriesIn(L + 1)'[m].address = a /\ EntriesIn(L + 1)'[m].event = event
      BY <1>2, <3>3, <3>4, <3>6 DEF FirstMet
    <3>8. ((L + 1) + 1)..(L + 1) = {} /\ L + 1 \in 1..(L + 1)
      OBVIOUS
    <3>9. Says(L + 1, L + 1, tree, a, event)'
      BY <3>7, <3>8 DEF Says
    <3>10. a \in LiveAt(L + 1, tree)'
      BY <3>8, <3>9 DEF LiveAt
    <3> QED
      BY <2>1, <3>10
  <2>3. CASE ~\E e \in ToSet(es) : e.address = a /\ e.tree = tree
    <3>1. t \in tables
      <4>1. SUFFICES ASSUME NEW i \in DOMAIN placed, t = placed[i] PROVE FALSE
        BY <1>3, <1>8
      <4>2. Entry(t, "insert") \in ToSet(es)
        <5>1. placed[i] \in ToSet(placed)
          BY DEF ToSet
        <5> QED
          BY <1>1, <4>1, <5>1, NewManifestBlock DEF FileInv, es, placed
      <4> QED
        BY <2>1, <2>3, <4>2 DEF Entry
    <3>2. a \in LiveAt(L, tree)
      BY <1>2, <2>1, <3>1 DEF TablesAreLive
    <3>3. PICK i \in 1..L, event \in {"insert", "update"} : Says(i, L, tree, a, event)
      BY <3>2 DEF LiveAt
    <3>4. Says(i, L, tree, a, event)'
      <4>1. L \in 0..L
        OBVIOUS
      <4> QED
        BY <1>2, <3>3, <4>1, SameEntries
    <3>5. ~Mentions(L + 1, a, tree)'
      BY <1>2, <2>3 DEF Mentions
    <3>6. Says(i, L + 1, tree, a, event)'
      <4>1. \A k \in (i + 1)..(L + 1) : k \in (i + 1)..L \/ k = L + 1
        OBVIOUS
      <4> QED
        BY <3>4, <3>5, <4>1 DEF Says
    <3>7. i \in 1..(L + 1)
      OBVIOUS
    <3>8. a \in LiveAt(L + 1, tree)'
      BY <3>6, <3>7 DEF LiveAt
    <3> QED
      BY <2>1, <3>8
  <2> QED
    BY <2>2, <2>3
<1>13. writing'.count = L + 1
  BY <1>2
<1> QED
  BY <1>12, <1>13 DEF TablesAreLive, LiveAt

\* What is live stays what it is in a step that leaves what is not free alone and frees
\* nothing.
LEMMA StillHolds ==
  ASSUME FileInv, LogGrows, LeavesBlocks, free' \subseteq free,
         NEW s, s = Durable, s.checkpoint <= commit, NEW tree \in Trees,
         Complete(s, tree), Sound(s, tree)
  PROVE  Complete(s, tree)' /\ Sound(s, tree)'
<1>1. FileTypes /\ Copying /\ Len(log) \in Nat /\ commit \in Nat /\ commit <= Len(log)
      /\ s.checkpoint \in Nat /\ s.count \in Nat
  BY DurableTypes, SMTT(30) DEF FileInv, FileTypes
<1>2. s.count \in 0..Len(manifest) /\ Len(manifest) \in Nat
  <2>1. /\ writing.count = Len(manifest) /\ Copies \in Nat /\ copied \in 0..Copies
        /\ copied < Copies => writing.count = Durable.count + 1
        /\ Copies \in 1..Copies /\ (Copies <= copied => Durable = writing)
    BY <1>1, DurableTypes DEF Copying, FileTypes, Durable
  <2> QED
    BY <1>1, <2>1 DEF FileTypes
<1>3. PICK n \in Nat, m \in 0..Len(log) : n = s.count /\ m = s.checkpoint
  BY <1>1
<1>4. \A i \in 1..n : EntriesIn(i)' = EntriesIn(i)
  BY <1>2, <1>3, LeavesEntries
<1>5. LiveAt(n, tree)' = LiveAt(n, tree)
  BY <1>4, SameEntries
<1>6. Objects(tree, 0, m)' = Objects(tree, 0, m)
  BY <1>1, SameLog
<1>7. \A a \in Addresses \ free : grid'[a] = grid[a] /\ a \notin free'
  BY DEF LeavesBlocks
<1>8. \A a \in Addresses : Kept(a) =>
        /\ grid'[a] = grid[a] /\ Kept(a)'
        /\ \A v \in grid[a].values : grid'[v] = grid[v]
  <2> TAKE a \in Addresses
  <2> HAVE Kept(a)
  <2>1. a \in Addresses \ free /\ \A v \in grid[a].values : v \in Addresses \ free
    BY DEF Kept, IndexBlocks
  <2> QED
    BY <1>7, <2>1 DEF Kept
<1>9. LiveAt(n, tree) \subseteq Addresses
  BY DEF LiveAt
<1>10. Complete(s, tree)'
  <2>1. ASSUME NEW o \in Objects(tree, 0, m) PROVE \E a \in LiveAt(n, tree)' : Has(a, o)'
    <3>1. PICK a \in LiveAt(n, tree) : Has(a, o)
      BY <1>3 DEF Complete
    <3>2. Kept(a) /\ a \in Addresses
      BY <1>9, <3>1 DEF Has
    <3>3. Has(a, o)'
      BY <1>8, <3>1, <3>2 DEF Has
    <3> QED
      BY <1>5, <3>3
  <2> QED
    BY <1>3, <1>6, <2>1 DEF Complete
<1>11. Sound(s, tree)'
  <2>1. SUFFICES ASSUME ~Transient(s, tree)',
                        NEW a \in LiveAt(n, tree), NEW v \in grid'[a].values
                 PROVE  ToSet(grid'[v].objects) \subseteq Objects(tree, 0, m)
    BY <1>3, <1>5, <1>6 DEF Sound
  <2>2. ~Transient(s, tree)
    BY <1>3, <1>4, <2>1 DEF Transient
  <2>3. Kept(a) /\ a \in Addresses
    BY <1>3, <1>9, <2>2, LiveIsKept
  <2>4. grid'[a] = grid[a] /\ grid'[v] = grid[v] /\ v \in grid[a].values
    BY <1>8, <2>3
  <2> QED
    BY <1>3, <2>2, <2>4 DEF Sound
<1> QED
  BY <1>10, <1>11

WritingHolds == \A tree \in Trees : Complete(writing, tree) /\ Sound(writing, tree)

\* The latest checkpoint's tables have its objects.
LEMMA TablesAreIt == FileInv /\ TablesAreLive /\ TablesHold => WritingHolds
<1> SUFFICES ASSUME FileInv, TablesAreLive, TablesHold, NEW tree \in Trees
             PROVE  Complete(writing, tree) /\ Sound(writing, tree)
  BY DEF WritingHolds
<1>1. \A t \in tables : Stored(t)
  BY DEF FileInv, TablesAreStored
<1>2. TreeHolds(tree)
  BY DEF TablesHold
<1>3. ASSUME NEW o \in Objects(tree, 0, writing.checkpoint)
      PROVE  \E a \in LiveAt(writing.count, tree) : Has(a, o)
  <2>1. PICK t \in tables : t.tree = tree /\ o \in ToSet(grid[t.value].objects)
    BY <1>2 DEF TreeHolds
  <2>2. t.index \in LiveAt(writing.count, tree)
    BY <2>1 DEF TablesAreLive
  <2>3. Has(t.index, o)
    BY <1>1, <2>1 DEF Has, Kept, Stored
  <2> QED
    BY <2>2, <2>3
<1>4. ASSUME ~Transient(writing, tree), NEW a \in LiveAt(writing.count, tree),
             NEW v \in grid[a].values
      PROVE  ToSet(grid[v].objects) \subseteq Objects(tree, 0, writing.checkpoint)
  <2>1. PICK t \in tables : t.tree = tree /\ t.index = a /\ Stored(t)
    BY <1>4, KnownIsKept
  <2>2. v = t.value
    BY <2>1 DEF Stored
  <2> QED
    BY <1>2, <2>1, <2>2 DEF TreeHolds
<1> QED
  BY <1>3, <1>4 DEF Complete, Sound

\* A step that leaves tables and manifest alone leaves the tables live.
LEMMA SameTables ==
  ASSUME TablesAreLive, UNCHANGED <<tables, grid, manifest, writing>>
  PROVE  TablesAreLive'
<1>1. \A i : EntriesIn(i)' = EntriesIn(i)
  BY DEF EntriesIn
<1>2. \A i, tree : FirstMet(EntriesIn(i), tree)' = FirstMet(EntriesIn(i), tree)
  BY <1>1 DEF FirstMet
<1>3. \A i, a, tree : Mentions(i, a, tree)' <=> Mentions(i, a, tree)
  BY <1>1 DEF Mentions
<1>4. ASSUME NEW i, NEW n, NEW tree, NEW a, NEW event
      PROVE  Says(i, n, tree, a, event)' <=> Says(i, n, tree, a, event)
  BY <1>1, <1>2, <1>3 DEF Says
<1>5. \A n, tree : LiveAt(n, tree)' = LiveAt(n, tree)
  BY <1>4 DEF LiveAt
<1> QED
  BY <1>5 DEF TablesAreLive

\* The replica keeps what the file holds.
LEMMA ReplicaHolds ==
  ASSUME FileInv, ContentInv, Replica
  PROVE  ContentInv'
<1>1. /\ CheckpointIsCommitted /\ TransfersStay /\ TablesAreLive /\ TablesHold
      /\ DurableHolds /\ Wal
  BY DEF ContentInv
<1>2. /\ LogGrows /\ commit <= commit' /\ Wal' /\ Durable.checkpoint <= Durable'.checkpoint
      /\ FileInv' /\ LeavesBlocks
  BY <1>1, LogOfReplica, ReplicaSteps
<1>3. /\ FileTypes /\ Copying /\ commit \in Nat /\ commit' \in Nat /\ commit <= Len(log)
      /\ writing.checkpoint \in Nat /\ Durable.checkpoint \in Nat /\ Copies \in Nat /\ Copies > 0
      /\ copied \in 0..Copies /\ Len(log) \in Nat /\ writing.checkpoint \in 0..Len(log)
  <2>1. FileTypes /\ FileTypes'
    BY <1>2 DEF FileInv
  <2>2. commit \in Nat /\ commit' \in Nat /\ commit <= Len(log) /\ Len(log) \in Nat
    BY <2>1 DEF FileTypes
  <2>3. writing.checkpoint \in Nat /\ Durable.checkpoint \in Nat /\ Copies \in Nat /\ Copies > 0
    BY <2>1, DurableTypes
  <2> QED
    BY <1>1, <2>1, <2>2, <2>3 DEF FileInv, FileTypes, CheckpointIsCommitted
<1>4. Durable.checkpoint <= writing.checkpoint
  <2>1. Copies \in 1..Copies /\ (Copies <= copied => Durable = writing)
    BY <1>3 DEF Copying, Durable
  <2> QED
    BY <1>3, <2>1 DEF Copying
<1>5. Durable' = Durable /\ free' \subseteq free => DurableHolds'
  <2> HAVE Durable' = Durable /\ free' \subseteq free
  <2>1. PICK s : s = Durable
    OBVIOUS
  <2>2. ASSUME NEW tree \in Trees PROVE Complete(s, tree)' /\ Sound(s, tree)'
    <3>1. Complete(s, tree) /\ Sound(s, tree)
      BY <1>1, <2>1 DEF DurableHolds
    <3>2. s.checkpoint <= commit
      BY <1>1, <1>3, <1>4, <2>1 DEF CheckpointIsCommitted
    <3> QED
      BY <1>2, <2>1, <3>1, <3>2, StillHolds
  <2>3. Durable' = s
    BY <2>1
  <2> QED
    BY <2>2, <2>3 DEF DurableHolds, Complete, Sound, Transient
<1>6. CASE Prepare \/ Commit
  <2>1. UNCHANGED gridVars
    BY <1>6, LogSteps
  <2>2. Durable' = Durable /\ free' = free /\ tables' = tables /\ writing' = writing /\ grid' = grid
        /\ manifest' = manifest
    BY <2>1 DEF gridVars, Durable
  <2>3. CheckpointIsCommitted'
    BY <1>1, <1>2, <1>3, <2>2 DEF CheckpointIsCommitted
  <2>4. TransfersStay'
    BY <1>1, <2>2 DEF TransfersStay, Transient, EntriesIn
  <2>5. TablesAreLive'
    BY <1>1, <2>2, SameTables
  <2>6. TablesHold'
    <3>1. PICK m \in 0..Len(log) : m = writing.checkpoint
      BY <1>3
    <3>2. \A tree : Objects(tree, 0, m)' = Objects(tree, 0, m)
      BY <1>2, <1>3, SameLog
    <3> QED
      BY <1>1, <2>2, <3>1, <3>2 DEF TablesHold, TreeHolds
  <2> QED
    BY <1>2, <1>5, <2>2, <2>3, <2>4, <2>5, <2>6 DEF ContentInv
<1>7. CASE StartCheckpoint
  <2>1. TransfersStay' /\ TablesAreLive' /\ TablesHold'
    BY <1>1, <1>7, TransfersStayOn, NewTablesAreLive, CheckpointHolds
  <2>2. PICK how : CanCheckpoint(how)
    BY <1>7, StartOfCheckpoint
  <2>3. writing'.checkpoint = commit /\ free' \subseteq free /\ commit' = commit /\ Durable' = Durable
    <3>1. free' \subseteq free
      BY <1>3, <2>2, CheckpointWrites
    <3>2. writing'.checkpoint = commit
      BY <1>3, <2>2, CheckpointWrites
    <3> QED
      BY <1>7, <3>1, <3>2, StartOfCheckpoint
  <2>4. CheckpointIsCommitted'
    BY <1>3, <2>3 DEF CheckpointIsCommitted
  <2> QED
    BY <1>2, <1>5, <2>1, <2>3, <2>4 DEF ContentInv
<1>8. CASE WriteCopy
  <2>1. /\ UNCHANGED <<log, commit, grid, headers, bodies, writing, manifest, tables>>
        /\ copied < Copies /\ copies' = [copies EXCEPT ![copied + 1] = writing]
        /\ copied' = copied + 1
        /\ free' = IF copied' = Copies THEN (1..Blocks) \ InUse ELSE free
    BY <1>8 DEF WriteCopy
  <2>2. CheckpointIsCommitted' /\ TransfersStay'
    BY <1>1, <2>1 DEF CheckpointIsCommitted, TransfersStay, Transient, EntriesIn
  <2>3. TablesAreLive'
    BY <1>1, <2>1, SameTables
  <2>4. TablesHold'
    <3>1. PICK m \in 0..Len(log) : m = writing.checkpoint
      BY <1>3
    <3>2. \A tree : Objects(tree, 0, m)' = Objects(tree, 0, m)
      BY <1>2, <1>3, SameLog
    <3> QED
      BY <1>1, <2>1, <3>1, <3>2 DEF TablesHold, TreeHolds
  <2>5. copies \in [1..Copies -> Superblocks] /\ Copies \in 1..Copies /\ copied + 1 \in 1..Copies
    BY <1>3, <2>1 DEF FileTypes
  <2>6. CASE copied + 1 # Copies
    <3>1. Durable' = Durable /\ free' = free
      BY <1>3, <2>1, <2>5, <2>6 DEF Durable
    <3> QED
      BY <1>2, <1>5, <2>2, <2>3, <2>4, <3>1 DEF ContentInv
  <2>7. CASE copied + 1 = Copies
    <3>1. Durable' = writing'
      BY <1>3, <2>1, <2>5, <2>7 DEF Durable
    <3>2. WritingHolds'
      BY <1>2, <2>3, <2>4, TablesAreIt, PTL
    <3>3. DurableHolds'
      BY <3>1, <3>2 DEF DurableHolds, WritingHolds, Complete, Sound, Transient
    <3> QED
      BY <1>2, <2>2, <2>3, <2>4, <3>3 DEF ContentInv
  <2> QED
    BY <2>6, <2>7
<1> QED
  BY <1>6, <1>7, <1>8 DEF Replica

\* A formatted file holds nothing.
LEMMA ContentInitially ==
  ASSUME FileInit
  PROVE  ContentInv
<1>1. /\ log = <<>> /\ commit = 0 /\ writing = Formatted /\ tables = {} /\ Len(<<>>) = 0
      /\ Copies \in Nat /\ Copies > 0 /\ SlotCount \in Nat /\ SlotCount > 0
      /\ copies = [c \in 1..Copies |-> Formatted]
      /\ headers = [s \in 0..(SlotCount - 1) |-> 0] /\ bodies = headers
  BY FileAssumption DEF FileInit
<1>2. Durable = Formatted /\ 1..0 = {}
  BY <1>1 DEF Durable
<1>3. \A tree : Objects(tree, 0, 0) = {}
  BY <1>2 DEF Objects, Created
<1>4. Formatted.checkpoint = 0 /\ Formatted.count = 0
  BY DEF Formatted
<1>5. CheckpointIsCommitted /\ TransfersStay /\ TablesAreLive
  BY <1>1, <1>2, <1>4 DEF CheckpointIsCommitted, TransfersStay, TablesAreLive, Transient
<1>6. TablesHold
  BY <1>1, <1>3, <1>4 DEF TablesHold, TreeHolds
<1>7. \A tree : LiveAt(0, tree) = {}
  BY <1>2 DEF LiveAt
<1>8. DurableHolds
  BY <1>2, <1>3, <1>4, <1>7 DEF DurableHolds, Complete, Sound
<1>9. Ring(headers, 0) /\ Ring(bodies, 0)
  BY <1>1, <1>2 DEF Ring
<1>10. Wal
  BY <1>1, <1>2, <1>4, <1>9 DEF Wal
<1> QED
  BY <1>5, <1>6, <1>8, <1>10 DEF ContentInv

(***************************************************************************)
(* 3. What the newest superblock has.                                      *)
(***************************************************************************)

\* The newest superblock's numbers.
LEMMA NewestTypes ==
  ASSUME FileInv, CheckpointIsCommitted
  PROVE  /\ copies[1] \in Superblocks
         /\ copies[1].checkpoint \in Nat /\ copies[1].checkpoint <= commit
         /\ copies[1].checkpoint \in 0..Len(log)
         /\ Durable.checkpoint \in Nat /\ Durable.checkpoint <= copies[1].checkpoint
         /\ copies[1].count \in 0..Len(manifest) /\ copies[1].count \in Nat
         /\ commit \in Nat /\ Len(log) \in Nat /\ commit <= Len(log) /\ Len(manifest) \in Nat
<1>1. FileTypes /\ Copying
  BY DEF FileInv
<1>2. /\ commit \in Nat /\ Len(log) \in Nat /\ commit <= Len(log) /\ Len(manifest) \in Nat
      /\ Copies \in Nat /\ Copies > 0 /\ copied \in 0..Copies
  BY <1>1, DurableTypes DEF FileTypes
<1>3. /\ copies[1] \in Superblocks /\ Durable.checkpoint \in Nat /\ writing.checkpoint \in Nat
  BY <1>1, DurableTypes
<1>4. /\ copies[1] = writing \/ copies[1] = Durable
      /\ copies[1].count \in 0..Len(manifest)
  BY <1>1, FirstIsNewest
<1>5. Durable.checkpoint <= writing.checkpoint
  <2>1. Copies \in 1..Copies /\ (Copies <= copied => Durable = writing)
    BY <1>1, <1>2 DEF Copying, Durable
  <2> QED
    BY <1>1, <1>2, <1>3, <2>1 DEF Copying
<1> QED
  BY <1>2, <1>3, <1>4, <1>5 DEF CheckpointIsCommitted

InOrder ==
  /\ Durable.checkpoint \in Nat /\ Durable.checkpoint <= copies[1].checkpoint
  /\ commit \in Nat /\ commit <= Len(log) /\ Len(log) \in Nat

\* Checkpoints are taken in the order of the prepares, and none is ahead of the commits.
LEMMA CheckpointsInOrder == FileInv /\ ContentInv => InOrder
BY NewestTypes DEF InOrder, ContentInv

\* What is due is in a live table whose blocks last, and a live table has nothing else,
\* unless one came and went.
LEMMA NewestHolds ==
  ASSUME FileInv, ContentInv, NEW tree \in Trees
  PROVE  /\ \A o \in Objects(tree, 0, copies[1].checkpoint) :
              \E a \in LiveAt(copies[1].count, tree) : HeldBy(a, o)
         /\ Sound(copies[1], tree)
         /\ tree = "transfers" => ~Transient(copies[1], tree)
<1>1. /\ TransfersStay /\ TablesAreLive /\ TablesHold /\ DurableHolds /\ WritingHolds
  BY TablesAreIt DEF ContentInv
<1>2. copies[1] = writing \/ (copies[1] = Durable /\ copied = 0)
  BY FirstIsNewest DEF FileInv
<1>3. Sound(copies[1], tree)
  BY <1>1, <1>2 DEF DurableHolds, WritingHolds
<1>4. tree = "transfers" => ~Transient(copies[1], tree)
  <2>1. copies[1].count \in Nat /\ writing.count \in Nat /\ copies[1].count <= writing.count
    <3>1. /\ copies[1].count \in 0..Len(manifest) /\ Len(manifest) \in Nat
      BY NewestTypes DEF ContentInv
    <3>2. writing.count = Len(manifest)
      BY DEF FileInv, Copying
    <3> QED
      BY <3>1, <3>2
  <2>2. \A i \in 1..copies[1].count : i \in 1..writing.count
    BY <2>1
  <2> QED
    BY <1>1, <2>2 DEF TransfersStay, Transient
<1>5. ASSUME NEW o \in Objects(tree, 0, copies[1].checkpoint)
      PROVE  \E a \in LiveAt(copies[1].count, tree) : HeldBy(a, o)
  <2>1. CASE copies[1] = writing
    <3>1. PICK t \in tables : t.tree = tree /\ o \in ToSet(grid[t.value].objects)
      BY <1>1, <1>5, <2>1 DEF TablesHold, TreeHolds
    <3>2. t.index \in LiveAt(copies[1].count, tree) /\ Stored(t)
      BY <1>1, <2>1, <3>1 DEF TablesAreLive, FileInv, TablesAreStored
    <3>3. t.index \in InUse /\ t.value \in InUse
      BY DEF InUse
    <3>4. HeldIn(t.value, o)
      BY <3>1, <3>2, <3>3 DEF HeldIn, Lasts, Stored
    <3>5. HeldBy(t.index, o)
      BY <3>2, <3>3, <3>4 DEF HeldBy, Lasts, Stored
    <3> QED
      BY <3>2, <3>5
  <2>2. CASE copies[1] # writing
    <3>1. copies[1] = Durable
      BY <1>2, <2>2
    <3>2. PICK a \in LiveAt(copies[1].count, tree) : Has(a, o)
      BY <1>1, <1>5, <3>1 DEF DurableHolds, Complete
    <3>3. HeldBy(a, o)
      BY <2>2, <3>2 DEF Has, Kept, HeldBy, HeldIn, Lasts
    <3> QED
      BY <3>2, <3>3
  <2> QED
    BY <2>1, <2>2
<1> QED
  BY <1>3, <1>4, <1>5

\* While the newest superblock stays, so do its blocks.
LEMMA LastsOn ==
  ASSUME FileInv, Replica, copies'[1] = copies[1], NEW a \in Addresses, Lasts(a)
  PROVE  Lasts(a)' /\ grid'[a] = grid[a]
<1>1. FileTypes /\ Copying /\ LeavesBlocks /\ FileInv'
  BY ReplicaSteps DEF FileInv
<1>2. a \notin free /\ (copies[1] = writing => a \in InUse) /\ grid'[a] = grid[a]
  BY <1>1 DEF Lasts, LeavesBlocks
<1>3. /\ Copies \in Nat /\ Copies > 0 /\ copied \in 0..Copies /\ 1 \in 1..Copies
      /\ copies \in [1..Copies -> Superblocks]
      /\ Durable.sequence \in Nat /\ writing.sequence \in Nat
  BY <1>1, DurableTypes DEF FileTypes
<1>4. CASE Prepare \/ Commit
  <2>1. UNCHANGED gridVars
    BY <1>4, LogSteps
  <2> QED
    BY <1>2, <2>1 DEF gridVars, Lasts, InUse
<1>5. CASE StartCheckpoint
  <2>1. PICK how : CanCheckpoint(how)
    BY <1>5, StartOfCheckpoint
  <2>2. free' \subseteq free
    BY <1>1, <2>1, CheckpointWrites
  <2>3. writing'.sequence = Durable.sequence + 1
    BY <1>1, <2>1, CheckpointWrites
  <2>4. copies[1] = writing /\ Durable = writing
    <3>1. copied = Copies
      BY <1>5 DEF StartCheckpoint
    <3>2. copies[1] = writing
      BY <1>1, <1>3, <3>1 DEF Copying
    <3> QED
      BY <1>5, <3>2, StartOfCheckpoint
  <2>5. copies'[1] # writing'
    BY <1>3, <2>3, <2>4
  <2> QED
    BY <1>2, <2>2, <2>5 DEF Lasts
<1>6. CASE WriteCopy
  <2>1. /\ UNCHANGED <<writing, manifest, tables>> /\ copied < Copies
        /\ copies' = [copies EXCEPT ![copied + 1] = writing]
        /\ free' = (1..Blocks) \ InUse \/ free' = free
    BY <1>6 DEF WriteCopy
  <2>2. copies[1] = writing
    <3>1. CASE copied = 0
      BY <1>3, <2>1, <3>1
    <3>2. CASE copied # 0
      BY <1>1, <1>3, <3>2 DEF Copying
    <3> QED
      BY <3>1, <3>2
  <2>3. a \in InUse /\ InUse' = InUse /\ a \notin free'
    BY <1>2, <2>1, <2>2 DEF InUse
  <2> QED
    BY <1>2, <2>3 DEF Lasts
<1> QED
  BY <1>4, <1>5, <1>6 DEF Replica

\* An object that is held remains held.
LEMMA StaysHeld ==
  ASSUME FileInv, Replica, copies'[1] = copies[1], NEW o
  PROVE  /\ \A v \in Addresses : HeldIn(v, o) => HeldIn(v, o)'
         /\ \A a \in Addresses : HeldBy(a, o) => HeldBy(a, o)'
<1>1. ASSUME NEW v \in Addresses, HeldIn(v, o) PROVE HeldIn(v, o)'
  <2>1. Lasts(v)' /\ grid'[v] = grid[v]
    BY <1>1, LastsOn DEF HeldIn
  <2> QED
    BY <1>1, <2>1 DEF HeldIn
<1>2. ASSUME NEW a \in Addresses, HeldBy(a, o) PROVE HeldBy(a, o)'
  <2>1. Lasts(a)' /\ grid'[a] = grid[a]
    BY <1>2, LastsOn DEF HeldBy
  <2>2. PICK v \in grid[a].values : HeldIn(v, o)
    BY <1>2 DEF HeldBy
  <2>3. v \in Addresses
    BY <1>2 DEF HeldBy, IndexBlocks
  <2>4. HeldIn(v, o)'
    BY <1>1, <2>2, <2>3
  <2> QED
    BY <1>2, <2>1, <2>2, <2>4 DEF HeldBy
<1> QED
  BY <1>1, <1>2

\* What is due and what is logged stays what it is.
LEMMA DueStays ==
  ASSUME FileInv, CheckpointIsCommitted, LogGrows, LeavesBlocks, commit <= commit', commit' \in Nat,
         copies'[1] = copies[1], call' = call
  PROVE  /\ Due' = Due
         /\ \A tree : Transient(copies[1], tree)' = Transient(copies[1], tree)
         /\ \A m \in 0..Len(log) : Logged(m)' = Logged(m)
         /\ \A op \in 1..Len(log) : Submitted(op)' = Submitted(op)
         /\ {Submitted(op) : op \in Logged(commit)} \subseteq {Submitted(op) : op \in Logged(commit)}'
<1>1. PICK m \in 0..Len(log), n \in 0..Len(manifest) : m = copies[1].checkpoint /\ n = copies[1].count
  BY NewestTypes
<1>2. /\ FileTypes /\ commit \in Nat /\ Len(log) \in Nat /\ commit <= Len(log) /\ Len(manifest) \in Nat
      /\ m \in Nat /\ n \in Nat
  BY NewestTypes DEF FileInv
<1>3. Due' = Due
  <2>1. \A tree : Objects(tree, 0, m)' = Objects(tree, 0, m)
    BY <1>2, SameLog
  <2> QED
    BY <1>1, <2>1 DEF Due
<1>4. \A tree : Transient(copies[1], tree)' = Transient(copies[1], tree)
  <2>1. \A i \in 1..n : EntriesIn(i)' = EntriesIn(i)
    BY <1>2, LeavesEntries
  <2> QED
    BY <1>1, <2>1 DEF Transient
<1>5. ASSUME NEW k \in 0..Len(log) PROVE Logged(k)' = Logged(k)
  <2>1. \A op \in (m + 1)..k : log'[op] = log[op]
    BY <1>2 DEF LogGrows
  <2> QED
    BY <1>1, <2>1 DEF Logged
<1>6. Len(log) \in 0..Len(log)
  BY <1>2
<1>7. \A op \in 1..Len(log) : Submitted(op)' = Submitted(op)
  BY <1>2, <1>6, SameLog
<1>8. ASSUME NEW op \in Logged(commit) PROVE op \in Logged(commit)' /\ Submitted(op)' = Submitted(op)
  <2>1. op \in (m + 1)..commit /\ log[op].kind = call.tree /\ op \in 1..Len(log)
    BY <1>1, <1>2 DEF Logged
  <2>2. log'[op] = log[op] /\ op \in (m + 1)..commit'
    BY <1>2, <2>1 DEF LogGrows
  <2> QED
    BY <1>1, <1>7, <2>1, <2>2 DEF Logged
<1> QED
  BY <1>3, <1>4, <1>5, <1>7, <1>8

\* Of a slot whose prepare is not checkpointed nothing is overwritten.
LEMMA SlotStays ==
  ASSUME FileInv, ContentInv, Replica, copies'[1] = copies[1],
         NEW s \in 0..(SlotCount - 1), headers[s] > copies[1].checkpoint
  PROVE  headers'[s] = headers[s]
<1>1. /\ LogGrows /\ commit <= commit' /\ Wal' /\ Wal /\ FileInv' /\ ContentInv'
  BY LogOfReplica, ReplicaSteps, ReplicaHolds DEF ContentInv
<1>2. /\ copies[1].checkpoint \in Nat /\ commit \in Nat
  BY NewestTypes DEF ContentInv
<1>3. /\ Durable'.checkpoint \in Nat /\ Durable'.checkpoint <= copies'[1].checkpoint
      /\ commit' \in Nat /\ commit' <= Len(log') /\ Len(log') \in Nat
  <2>1. InOrder'
    BY <1>1, CheckpointsInOrder, PTL
  <2> QED
    BY <2>1 DEF InOrder
<1>4. headers \in [0..(SlotCount - 1) -> Nat] /\ headers' \in [0..(SlotCount - 1) -> Nat]
  BY <1>1, FileAssumption, SMTT(30) DEF FileInv, FileTypes
<1>5. /\ headers[s] \in Nat /\ headers'[s] \in Nat /\ headers[s] <= commit /\ SlotOf(headers[s]) = s
  <2>1. headers[s] \in Nat /\ headers'[s] \in Nat
    BY <1>4
  <2>2. headers[s] <= commit /\ (headers[s] # 0 => SlotOf(headers[s]) = s)
    BY <1>1 DEF Wal, Ring
  <2> QED
    BY <1>2, <2>1, <2>2
<1>6. headers[s] <= headers'[s] /\ headers'[s] <= commit' /\ (headers'[s] # 0 => SlotOf(headers'[s]) = s)
  <2>1. Ring(headers, commit)'
    BY <1>1 DEF Wal
  <2>2. headers[s] \in 1..commit'
    BY <1>1, <1>2, <1>3, <1>5
  <2> QED
    BY <1>5, <2>1, <2>2 DEF Ring
<1>7. headers'[s] < headers[s] + SlotCount
  <2>1. Len(log') <= Durable'.checkpoint + SlotCount
    BY <1>1 DEF Wal
  <2>2. PICK S \in Nat, d \in Nat, n \in Nat, h \in Nat, g \in Nat, c \in Nat :
          /\ S = SlotCount /\ d = Durable'.checkpoint /\ n = Len(log') /\ h = headers[s]
          /\ g = headers'[s] /\ c = commit'
    BY <1>3, <1>5, OneLap
  <2>3. n <= d + S /\ d < h /\ g <= c /\ c <= n
    BY <1>2, <1>3, <1>6, <2>1, <2>2
  <2>4. g < h + S
    BY <2>3
  <2> QED
    BY <2>2, <2>4
<1> QED
  BY <1>2, <1>5, <1>6, <1>7, OneLap

(***************************************************************************)
(* 4. What a migration has read stays true while the replica writes on.    *)
(***************************************************************************)

\* What was found of the first slots is what is logged there.
LEMMA WalStays ==
  ASSUME FileInv, CheckpointIsCommitted, LogGrows, LeavesBlocks, commit <= commit', commit' \in Nat,
         copies'[1] = copies[1], UNCHANGED <<call, out, began>>, BeganEarlier,
         NEW k, WalUpto(k)
  PROVE  WalUpto(k)'
<1>1. /\ \A m \in 0..Len(log) : Logged(m)' = Logged(m)
      /\ \A op \in 1..Len(log) : Submitted(op)' = Submitted(op)
      /\ {Submitted(op) : op \in Logged(commit)} \subseteq {Submitted(op) : op \in Logged(commit)}'
  BY DueStays
<1>2. commit \in Nat /\ Len(log) \in Nat /\ commit <= Len(log) /\ copies[1].checkpoint \in Nat
  BY NewestTypes
<1>3. PICK m \in 0..Len(log) : m = began.commit /\ m \in 0..commit
  BY <1>2 DEF BeganEarlier
<1>4. Logged(m)' = Logged(m) /\ Logged(m) \subseteq 1..Len(log)
  BY <1>1, <1>2 DEF Logged
<1>5. \A op \in Logged(m)' : SlotOf(op) < k => Submitted(op)' \in ToSet(out.wal)
  BY <1>1, <1>3, <1>4 DEF WalUpto
<1>6. out' = out /\ began'.commit = m
  BY <1>3
<1>7. \A op \in Logged(m)' : SlotOf(op) < k => Submitted(op)' \in ToSet(out.wal)'
  BY <1>5, <1>6
<1>8. ToSet(out.wal)' \subseteq {Submitted(op) : op \in Logged(commit)}'
  BY <1>1, <1>6 DEF WalUpto
<1>9. out'.wal \in Seq(Records)
  BY <1>6 DEF WalUpto
<1>10. \A op \in Logged(began.commit)' : SlotOf(op) < k => Submitted(op)' \in ToSet(out.wal)'
  BY <1>6, <1>7 DEF Logged
<1> QED
  BY <1>8, <1>9, <1>10 DEF WalUpto

\* The replica keeps what a call has read and still has before it, while the newest
\* superblock stays: what it writes is neither in the tables the call reads nor in its slots.
LEMMA ReplicaGathers ==
  ASSUME FileInv, ReaderInv, ContentInv, GatherInv, Replica, UNCHANGED <<readerVars, began, answer>>
  PROVE  GatherInv'
<1>1. /\ LogGrows /\ commit <= commit' /\ LeavesBlocks /\ FileInv' /\ CheckpointIsCommitted
      /\ ContentInv'
      /\ copies'[1] = copies[1] \/ copies[1].sequence < copies'[1].sequence
  BY LogOfReplica, ReplicaSteps, ReplicaHolds DEF ContentInv
<1>2. /\ commit \in Nat /\ copies[1].checkpoint \in Nat /\ copies[1] \in Superblocks
      /\ FileTypes /\ Len(log) \in Nat /\ commit <= Len(log)
  BY <1>1, NewestTypes DEF FileInv
<1>3. commit' \in Nat
  <2>1. FileTypes'
    BY <1>1 DEF FileInv
  <2> QED
    BY <2>1 DEF FileTypes
<1>4. UNCHANGED <<call, pc, sb, copy, walk, iter, slot, out, began>>
  BY DEF readerVars
<1>5. BeganEarlier'
  BY <1>1, <1>2, <1>3, <1>4 DEF GatherInv, BeganEarlier
<1>6. Stage' <=> Stage
  BY <1>4 DEF Stage
<1>7. SUFFICES ASSUME call.limit = All, pc # "idle", copies'[1] = began.sb
               PROVE  (LsmReading /\ LsmRead /\ WalRead)'
  BY <1>4, <1>5, <1>6 DEF GatherInv, Gathering
<1>8. copies'[1] = copies[1]
  <2>1. /\ began.sb \in Superblocks /\ began.sb.sequence <= copies[1].sequence
        /\ copies[1].sequence \in Nat
    BY <1>2 DEF ReaderInv, BeganBefore, Superblocks
  <2>2. began.sb.sequence \in Nat
    BY <2>1 DEF Superblocks
  <2> QED
    BY <1>1, <1>7, <2>1, <2>2
<1>9. LsmReading /\ LsmRead /\ WalRead
  BY <1>7, <1>8 DEF GatherInv, Gathering
<1>10. /\ Due' = Due
       /\ \A tree : Transient(copies[1], tree)' = Transient(copies[1], tree)
  BY <1>1, <1>3, <1>4, <1>8, DueStays
<1>11. Justified => Justified'
  <2>1. PICK tree : tree = call.tree
    OBVIOUS
  <2>2. Transient(copies[1], tree)' = Transient(copies[1], tree)
    BY <1>10
  <2>3. Transient(copies[1], call.tree)' = Transient(copies[1], tree)'
    BY <1>4, <2>1 DEF Transient
  <2> QED
    BY <1>4, <1>10, <2>1, <2>2, <2>3 DEF Justified
<1>12. LsmReading'
  <2>1. SUFFICES ASSUME pc = "lsm", NEW o \in Due
                 PROVE  /\ Justified'
                        /\ \/ o \in ToSet(out.lsm)
                           \/ \E v \in iter.values : HeldIn(v, o)'
                           \/ \E a \in iter.tables : HeldBy(a, o)'
    <3>1. pc = "lsm" => Justified'
      BY <1>9, <1>11 DEF LsmReading
    <3> QED
      BY <1>4, <1>10, <3>1 DEF LsmReading
  <2>2. iter.values \subseteq Addresses /\ iter.tables \subseteq Addresses
    BY DEF ReaderInv, ReaderTypes
  <2>3. Justified /\ \/ o \in ToSet(out.lsm)
                     \/ \E v \in iter.values : HeldIn(v, o)
                     \/ \E a \in iter.tables : HeldBy(a, o)
    BY <1>9, <2>1 DEF LsmReading
  <2>4. /\ \A v \in Addresses : HeldIn(v, o) => HeldIn(v, o)'
        /\ \A a \in Addresses : HeldBy(a, o) => HeldBy(a, o)'
    BY <1>8, StaysHeld
  <2> QED
    BY <1>11, <2>2, <2>3, <2>4
<1>13. LsmRead'
  BY <1>4, <1>9, <1>10, <1>11 DEF LsmRead
<1>14. \A k : WalUpto(k) => WalUpto(k)'
  BY <1>1, <1>3, <1>4, <1>8, WalStays DEF GatherInv
<1>15. WalRead'
  <2>1. pc \in {"header", "body"} => WalUpto(slot)'
    <3>1. PICK k : k = slot
      OBVIOUS
    <3>2. pc \in {"header", "body"} => WalUpto(k)'
      BY <1>9, <1>14, <3>1 DEF WalRead
    <3>3. slot' = k
      BY <1>4, <3>1
    <3> QED
      BY <3>2, <3>3 DEF WalUpto
  <2>2. pc = "ready" => WalUpto(SlotCount)'
    BY <1>9, <1>14 DEF WalRead
  <2>3. pc = "body" => Matches(headers[slot])'
    <3> HAVE pc = "body"
    <3>1. Matches(headers[slot]) /\ sb = copies[1] /\ slot \in 0..(SlotCount - 1)
      <4>1. Matches(headers[slot])
        BY <1>9 DEF WalRead
      <4>2. sb = copies[1]
        BY <1>7, <1>8 DEF ReaderInv, Reading, Electing
      <4>3. slot \in 0..SlotCount /\ slot < SlotCount
        BY DEF ReaderInv, ReaderTypes
      <4> QED
        BY <4>1, <4>2, <4>3, OneLap
    <3>2. PICK h : h = headers[slot]
      OBVIOUS
    <3>3. h # 0 /\ log[h].kind = call.tree /\ h > copies[1].checkpoint
      BY <3>1, <3>2 DEF Matches
    <3>4. headers'[slot] = h
      BY <1>8, <3>1, <3>2, <3>3, SlotStays
    <3>5. h \in 1..Len(log)
      <4>1. Ring(headers, commit)
        BY DEF ContentInv, Wal
      <4>2. h <= commit /\ h \in Nat
        BY <1>2, <3>1, <3>2, <4>1, FileAssumption DEF Ring, FileTypes
      <4> QED
        BY <1>2, <3>3, <4>2
    <3>6. log'[h] = log[h]
      BY <1>1, <3>5 DEF LogGrows
    <3> QED
      BY <1>4, <3>1, <3>3, <3>4, <3>6 DEF Matches
  <2> QED
    BY <1>4, <2>1, <2>2, <2>3 DEF WalRead
<1> QED
  BY <1>12, <1>13, <1>15

(***************************************************************************)
(* 5. What a migration reads.                                              *)
(***************************************************************************)

\* The two sources of an answer, and what is left when the first one is taken.
LEMMA TwoSources ==
  /\ Head(<<"lsm", "wal">>) = "lsm" /\ Tail(<<"lsm", "wal">>) = <<"wal">>
  /\ Len(<<"lsm", "wal">>) = 2 /\ Len(<<"wal">>) = 1 /\ Head(<<"wal">>) = "wal"
  /\ <<"lsm", "wal">> # <<"wal">>
<1>1. Len(<<"lsm", "wal">>) = 2 /\ Len(<<"wal">>) = 1
  OBVIOUS
<1>2. <<"lsm", "wal">> # <<"wal">>
  BY <1>1
<1> QED
  BY <1>1, <1>2

\* What the file holds depends on the file.
LEMMA ContentFrame ==
  ASSUME UNCHANGED fileVars, ContentInv
  PROVE  ContentInv'
<1>1. /\ log' = log /\ commit' = commit /\ copies' = copies /\ grid' = grid
      /\ headers' = headers /\ bodies' = bodies /\ writing' = writing /\ copied' = copied
      /\ manifest' = manifest /\ tables' = tables /\ free' = free
  BY DEF fileVars
<1>2. \A tree, n : Objects(tree, 0, n)' = Objects(tree, 0, n)
  BY <1>1 DEF Objects, Created, Object, Balance, Succeeds
<1>3. \A i : EntriesIn(i)' = EntriesIn(i)
  BY <1>1 DEF EntriesIn
<1>4. \A n, tree : LiveAt(n, tree)' = LiveAt(n, tree)
  BY <1>1, <1>3 DEF LiveAt, Says, Mentions, Addresses
<1>5. CheckpointIsCommitted' /\ TransfersStay'
  BY <1>1 DEF ContentInv, CheckpointIsCommitted, TransfersStay, Transient, EntriesIn
<1>6. TablesAreLive'
  BY <1>1, SameTables DEF ContentInv
<1>7. PICK c, n, w, m : /\ c = writing.checkpoint /\ n = Durable.checkpoint
                        /\ w = Durable.count /\ m = Durable
  OBVIOUS
<1>8. writing'.checkpoint = c /\ Durable' = m /\ Durable'.checkpoint = n /\ Durable'.count = w
  BY <1>1, <1>7 DEF Durable
<1>9. /\ \A tree : Objects(tree, 0, c)' = Objects(tree, 0, c)
      /\ \A tree : Objects(tree, 0, n)' = Objects(tree, 0, n)
      /\ \A tree : LiveAt(w, tree)' = LiveAt(w, tree)
  BY <1>2, <1>4
<1>10. TablesHold'
  BY <1>1, <1>7, <1>8, <1>9 DEF ContentInv, TablesHold, TreeHolds
<1>11. \A a, o : Has(a, o)' <=> Has(a, o)
  BY <1>1 DEF Has, Kept
<1>12. \A tree : Transient(m, tree)' <=> Transient(m, tree)
  BY <1>1 DEF Transient, EntriesIn
<1>13. \A tree \in Trees : Complete(m, tree)' /\ Sound(m, tree)'
  <2>1. \A tree \in Trees : Complete(m, tree) /\ Sound(m, tree)
    BY <1>7 DEF ContentInv, DurableHolds
  <2>2. m.checkpoint = n /\ m.count = w
    BY <1>7
  <2> QED
    BY <1>1, <1>9, <1>11, <1>12, <2>1, <2>2 DEF Complete, Sound
<1>14. DurableHolds'
  BY <1>8, <1>13 DEF DurableHolds, Complete, Sound, Transient
<1>15. Wal'
  BY <1>1, <1>7, <1>8 DEF ContentInv, Wal, Ring
<1> QED
  BY <1>5, <1>6, <1>10, <1>14, <1>15 DEF ContentInv

\* What a step of the reader leaves as it was.
LEMMA GatherFrame ==
  ASSUME UNCHANGED <<fileVars, began, answer>>, call'.tree = call.tree
  PROVE  /\ ContentInv => ContentInv'
         /\ BeganEarlier => BeganEarlier'
         /\ Due' = Due
         /\ \A o, v : HeldIn(v, o)' <=> HeldIn(v, o)
         /\ \A o, a : HeldBy(a, o)' <=> HeldBy(a, o)
         /\ out' = out => (Justified' <=> Justified) /\ \A k : WalUpto(k)' <=> WalUpto(k)
         /\ out'.lsm = out.lsm => (Justified' <=> Justified)
         /\ Transient(copies[1], call.tree)' <=> Transient(copies[1], call.tree)
         /\ Logged(commit)' = Logged(commit) /\ Logged(began.commit)' = Logged(began.commit)
         /\ \A op : Submitted(op)' = Submitted(op)
         /\ headers' = headers /\ bodies' = bodies /\ copies' = copies /\ grid' = grid
         /\ began' = began /\ commit' = commit /\ log' = log
<1>1. /\ log' = log /\ commit' = commit /\ copies' = copies /\ grid' = grid
      /\ headers' = headers /\ bodies' = bodies /\ writing' = writing /\ copied' = copied
      /\ manifest' = manifest /\ tables' = tables /\ free' = free
      /\ began' = began /\ answer' = answer
  BY DEF fileVars
<1>2. /\ \A tree, n : Objects(tree, 0, n)' = Objects(tree, 0, n)
      /\ \A op : Submitted(op)' = Submitted(op)
  BY <1>1 DEF Objects, Created, Object, Balance, Succeeds, Submitted
<1>3. \A o, v : HeldIn(v, o)' <=> HeldIn(v, o)
  BY <1>1 DEF HeldIn, Lasts, InUse
<1>4. \A o, a : HeldBy(a, o)' <=> HeldBy(a, o)
  BY <1>1, <1>3 DEF HeldBy, Lasts, InUse
<1>5. Due' = Due
  <2>1. PICK t, c : t = call.tree /\ c = copies[1].checkpoint
    OBVIOUS
  <2>2. call'.tree = t /\ copies'[1].checkpoint = c
    BY <1>1, <2>1
  <2>3. Objects(t, 0, c)' = Objects(t, 0, c)
    BY <1>2
  <2> QED
    BY <2>1, <2>2, <2>3 DEF Due
<1>6. Transient(copies[1], call.tree)' <=> Transient(copies[1], call.tree)
  BY <1>1 DEF Transient, EntriesIn
<1>7. /\ Logged(commit)' = Logged(commit) /\ Logged(began.commit)' = Logged(began.commit)
  BY <1>1 DEF Logged
<1>8. out'.lsm = out.lsm => (Justified' <=> Justified)
  BY <1>5, <1>6 DEF Justified
<1>9. out' = out => \A k : WalUpto(k)' <=> WalUpto(k)
  BY <1>2, <1>7 DEF WalUpto
<1>10. BeganEarlier => BeganEarlier'
  BY <1>1 DEF BeganEarlier
<1>11. ContentInv => ContentInv'
  BY ContentFrame
<1> QED
  BY <1>1, <1>2, <1>3, <1>4, <1>5, <1>6, <1>7, <1>8, <1>9, <1>10, <1>11

\* A migration's call, with what was gathered if no superblock was written.
Migrating == call.limit = All /\ pc # "idle"

\* A formatted superblock has nothing to read.
LEMMA NothingIsDue ==
  ASSUME FileInv, ContentInv, ReaderTypes, copies[1].count = 0
  PROVE  Due = {}
<1>1. call.tree \in Trees
  BY DEF ReaderTypes, Calls
<1>2. LiveAt(0, call.tree) = {}
  BY DEF LiveAt
<1> QED
  BY <1>1, <1>2, NewestHolds DEF Due

\* The source ends: the LSM's records are complete, or the WAL's are.
LEMMA SourceEnds ==
  ASSUME FileInv, ReaderInv, ContentInv, GatherInv, UNCHANGED <<fileVars, began, answer>>,
         pc \in {"superblock", "lsm", "header"}, NextSource, out' = out,
         call.limit = All, pc = "superblock" => call.sources = <<"lsm", "wal">>,
         copies[1] = began.sb => Justified /\ Due \subseteq ToSet(out.lsm),
         copies[1] = began.sb /\ pc = "header" => WalUpto(SlotCount)
  PROVE  Gathering'
<1>1. ReaderTypes /\ call.sources # <<>> /\ Stage
  BY DEF ReaderInv, ReaderTypes, GatherInv, Gathering
<1>2. /\ call' \in Calls /\ call'.tree = call.tree /\ call'.limit = call.limit
      /\ Len(call.sources) = 1 => pc' = "ready" /\ call' = call
      /\ Len(call.sources) # 1 => pc' = "superblock" /\ call'.sources = Tail(call.sources)
  BY <1>1, NextSourceTypes
<1>3. /\ Due' = Due /\ (Justified' <=> Justified) /\ copies' = copies /\ began' = began
      /\ \A k : WalUpto(k)' <=> WalUpto(k)
  BY <1>2, GatherFrame
<1>4. copies[1] = began.sb => LsmRead'
  BY <1>3 DEF LsmRead
<1>5. CASE call.sources = <<"lsm", "wal">>
  <2>1. pc' = "superblock" /\ call'.sources = <<"wal">> /\ pc # "header"
    BY <1>1, <1>2, <1>5, TwoSources DEF Stage
  <2>2. out'.wal = <<>>
    BY <1>1, <1>5, TwoSources DEF Stage
  <2>3. Stage'
    BY <1>1, <2>1, <2>2, TwoSources DEF Stage
  <2> QED
    BY <1>3, <1>4, <2>1, <2>3 DEF Gathering, LsmReading, WalRead
<1>6. CASE call.sources = <<"wal">>
  <2>1. pc' = "ready" /\ call' = call
    BY <1>2, <1>6, TwoSources
  <2>2. Stage'
    BY <1>1, <1>6, <2>1, TwoSources DEF Stage
  <2>3. pc = "header"
    BY <1>1, <1>6, TwoSources DEF Stage
  <2> QED
    BY <1>3, <1>4, <2>1, <2>2, <2>3 DEF Gathering, LsmReading, WalRead
<1> QED
  BY <1>1, <1>5, <1>6 DEF Stage

\* read_superblock.
LEMMA ReadCopyGathers ==
  ASSUME FileInv, ReaderInv, ContentInv, GatherInv, ReadCopy, UNCHANGED <<fileVars, began, answer>>,
         call.limit = All
  PROVE  Gathering'
<1> DEFINE best == IF Better(copies[copy]) THEN copies[copy] ELSE sb
<1>1. /\ pc = "superblock" /\ sb' = best /\ UNCHANGED <<iter, out>>
      /\ IF copy < Copies THEN copy' = copy + 1 /\ UNCHANGED <<call, pc, walk, slot>>
                          ELSE copy' = 1 /\ Use(best)
  BY DEF ReadCopy
<1>2. ReaderTypes /\ Reading /\ call.sources # <<>>
  BY <1>1 DEF ReaderInv, ReaderTypes
<1>3. copies[1] = began.sb => best = copies[1]
  BY <1>1, <1>2, Election DEF Reading
<1>4. Stage /\ (copies[1] = began.sb => LsmRead)
  BY <1>1 DEF GatherInv, Gathering
<1>5. call' = call => /\ copies' = copies /\ began' = began /\ Due' = Due /\ (Justified' <=> Justified)
                      /\ \A k : WalUpto(k)' <=> WalUpto(k)
  BY <1>1, GatherFrame
<1>6. call' = call => (copies[1] = began.sb => (pc' # "failed" => LsmRead'))
  BY <1>1, <1>4, <1>5 DEF LsmRead
<1> HIDE DEF best
<1>7. CASE copy < Copies
  <2>1. call' = call /\ pc' = "superblock"
    BY <1>1, <1>7
  <2>2. Stage'
    BY <1>1, <1>4, <2>1 DEF Stage
  <2> QED
    BY <1>5, <1>6, <2>1, <2>2 DEF Gathering, LsmReading, WalRead
<1>8. CASE ~(copy < Copies)
  <2>1. Use(best)
    BY <1>1, <1>8
  <2>2. CASE call.sources = <<"wal">>
    <3>1. call' = call /\ pc' = "header" /\ slot' = 0
      BY <2>1, <2>2, TwoSources DEF Use
    <3>2. out.wal = <<>> /\ out' = out /\ Stage'
      BY <1>1, <1>4, <3>1, <2>2, TwoSources DEF Stage
    <3>3. WalUpto(0)
      <4>1. ToSet(<<>>) = {} /\ <<>> \in Seq(Records)
        BY DEF ToSet
      <4>2. \A op \in Logged(began.commit) : ~(SlotOf(op) < 0)
        <5>1. \A op \in Logged(began.commit) : op \in Nat
          <6>1. copies[1].checkpoint \in Nat /\ began.commit \in Nat
            <7>1. copies[1].checkpoint \in Nat /\ commit \in Nat
              BY NewestTypes DEF ContentInv
            <7> QED
              BY <7>1 DEF GatherInv, BeganEarlier
          <6> QED
            BY <6>1 DEF Logged
        <5>2. \A a \in Nat : SlotOf(a) \in 0..(SlotCount - 1)
          BY OneLap
        <5> QED
          BY <5>1, <5>2
      <4> QED
        BY <3>2, <4>1, <4>2 DEF WalUpto
    <3>4. WalUpto(0)'
      BY <1>5, <3>1, <3>3
    <3>5. WalRead'
      BY <3>1, <3>4 DEF WalRead, WalUpto
    <3> QED
      BY <1>5, <1>6, <3>1, <3>2, <3>5 DEF Gathering, LsmReading
  <2>3. CASE call.sources = <<"lsm", "wal">> /\ best.count # 0
    <3>1. pc' = "manifest" /\ call' = call
      BY <2>1, <2>3, TwoSources DEF Use
    <3>2. Stage'
      BY <1>1, <1>4, <3>1, <2>3, TwoSources DEF Stage
    <3> QED
      BY <1>5, <1>6, <3>1, <3>2 DEF Gathering, LsmReading, WalRead
  <2>4. CASE call.sources = <<"lsm", "wal">> /\ best.count = 0
    <3>1. NextSource
      BY <2>1, <2>4, TwoSources DEF Use
    <3>2. out.lsm = <<>>
      BY <1>1, <1>4, <2>4 DEF Stage
    <3>3. copies[1] = began.sb => Justified /\ Due \subseteq ToSet(out.lsm)
      <4> HAVE copies[1] = began.sb
      <4>1. Due = {}
        BY <1>2, <1>3, <2>4, NothingIsDue
      <4>2. ToSet(<<>>) = {} /\ <<>> \in Seq(Records)
        BY DEF ToSet
      <4> QED
        BY <3>2, <4>1, <4>2 DEF Justified
    <3> QED
      BY <1>1, <2>4, <3>1, <3>3, SourceEnds
  <2> QED
    BY <1>4, <2>2, <2>3, <2>4 DEF Stage
<1> QED
  BY <1>7, <1>8

\* When the walk ends it has met every table that is live.
LEMMA WalkMeetsAll ==
  ASSUME NEW n \in Nat, NEW tree, NEW seen, seen \subseteq SeenTables, SeenFrom(seen, 0, n, tree),
         \A i \in 1..n : EntriesIn(i) \in Seq(ManifestEntries)
  PROVE  LiveAt(n, tree) \subseteq
           {s.address : s \in {x \in seen : x.event \in {"insert", "update"}}}
<1> SUFFICES ASSUME NEW a \in LiveAt(n, tree)
             PROVE  \E x \in seen : x.address = a /\ x.event \in {"insert", "update"}
  OBVIOUS
<1>1. a \in Addresses
  BY DEF LiveAt
<1>2. PICK i \in 1..n, event \in {"insert", "update"} : Says(i, n, tree, a, event)
  BY DEF LiveAt
<1>3. PICK j \in FirstMet(EntriesIn(i), tree) :
        EntriesIn(i)[j].address = a /\ EntriesIn(i)[j].event = event
  BY <1>2 DEF Says
<1>4. Mentions(i, a, tree)
  BY <1>3 DEF Mentions, FirstMet, ToSet
<1>5. i \in (0 + 1)..n
  OBVIOUS
<1>6. PICK x \in seen : x.address = a
  BY <1>1, <1>4, <1>5 DEF SeenFrom
<1>7. PICK k \in (0 + 1)..n : Says(k, n, tree, a, x.event)
  BY <1>6 DEF SeenFrom
<1>8. PICK l \in FirstMet(EntriesIn(k), tree) :
        EntriesIn(k)[l].address = a /\ EntriesIn(k)[l].event = x.event
  BY <1>7 DEF Says
<1>9. Mentions(k, a, tree)
  BY <1>8 DEF Mentions, FirstMet, ToSet
<1>10. k = i
  <2>1. ~(k \in (i + 1)..n) /\ ~(i \in (k + 1)..n)
    BY <1>2, <1>4, <1>7, <1>9 DEF Says
  <2> QED
    BY <2>1
<1>11. EntriesIn(i)[j].event = EntriesIn(i)[l].event
  <2> DEFINE es == EntriesIn(i)
  <2>1. j \in FirstMet(es, tree) /\ l \in FirstMet(es, tree) /\ es[j].address = es[l].address
    BY <1>3, <1>8, <1>10
  <2>2. j \in DOMAIN es /\ l \in DOMAIN es /\ es[j].tree = tree /\ es[l].tree = tree
        /\ (\A m \in 1..(j - 1) : es[m].tree = tree => es[m].address # es[j].address)
        /\ (\A m \in 1..(l - 1) : es[m].tree = tree => es[m].address # es[l].address)
    BY <2>1 DEF FirstMet
  <2>3. es \in Seq(ManifestEntries)
    OBVIOUS
  <2> HIDE DEF es
  <2>4. j \in Nat /\ l \in Nat /\ j > 0 /\ l > 0
    BY <2>2, <2>3
  <2>5. ~(j \in 1..(l - 1)) /\ ~(l \in 1..(j - 1))
    BY <2>1, <2>2
  <2>6. j = l
    BY <2>4, <2>5
  <2> QED
    BY <2>6 DEF es
<1> QED
  BY <1>2, <1>3, <1>6, <1>8, <1>10, <1>11

\* collect_index_blocks_for_tree.
LEMMA ReadManifestGathers ==
  ASSUME FileInv, ReaderInv, ContentInv, GatherInv, ReadManifest,
         UNCHANGED <<fileVars, began, answer>>, call.limit = All
  PROVE  Gathering'
<1> DEFINE b == grid[walk.address]
           seen == Seen(walk.seen, b.entries)
           live == {s.address : s \in {x \in seen : x.event \in {"insert", "update"}}}
<1>1. /\ pc = "manifest" /\ UNCHANGED <<call, out>>
      /\ \/ pc' = "failed"
         \/ pc' = "manifest"
         \/ pc' = "lsm" /\ b.previous = 0 /\ iter' = [NoIter EXCEPT !.tables = live]
  BY DEF ReadManifest, Fail
<1>2. Stage /\ ReaderTypes
  BY <1>1 DEF GatherInv, Gathering, ReaderInv
<1>3. /\ copies' = copies /\ began' = began /\ Due' = Due /\ (Justified' <=> Justified)
      /\ \A o, a : HeldBy(a, o)' <=> HeldBy(a, o)
  BY <1>1, GatherFrame
<1>4. call.sources = <<"lsm", "wal">> /\ out.lsm = <<>> /\ out.wal = <<>>
  BY <1>1, <1>2 DEF Stage
<1>5. Stage' /\ LsmRead' /\ WalRead'
  BY <1>1, <1>2, <1>4, TwoSources DEF Stage, LsmRead, WalRead
<1> HIDE DEF b, seen, live
<1>6. CASE pc' = "lsm" /\ copies[1] = began.sb
  <2>1. b.previous = 0 /\ iter' = [NoIter EXCEPT !.tables = live]
    BY <1>1, <1>6
  <2>2. iter'.tables = live
    BY <2>1 DEF NoIter
  <2>3. PICK n \in Nat : /\ n = copies[1].count /\ seen \subseteq SeenTables
                         /\ \A i \in 1..n : EntriesIn(i) \in Seq(ManifestEntries)
                         /\ SeenFrom(seen, 0, n, call.tree)
    BY <1>1, <1>6, <2>1, WalkEnds DEF b, seen
  <2>4. LiveAt(n, call.tree) \subseteq live
    BY <2>3, WalkMeetsAll DEF live
  <2>5. \A o \in Due : \E a \in LiveAt(n, call.tree) : HeldBy(a, o)
    <3>1. call.tree \in Trees
      BY <1>2 DEF ReaderTypes, Calls
    <3> QED
      BY <2>3, <3>1, NewestHolds DEF Due
  <2>6. Justified
    <3>1. ToSet(<<>>) = {} /\ <<>> \in Seq(Records)
      BY DEF ToSet
    <3> QED
      BY <1>4, <3>1 DEF Justified
  <2>7. \A o \in Due' : \E a \in iter'.tables : HeldBy(a, o)'
    BY <1>3, <2>2, <2>4, <2>5
  <2>8. LsmReading'
    BY <1>3, <2>6, <2>7 DEF LsmReading
  <2> QED
    BY <1>5, <2>8 DEF Gathering
<1>7. CASE ~(pc' = "lsm" /\ copies[1] = began.sb)
  BY <1>3, <1>5, <1>7 DEF Gathering, LsmReading
<1> QED
  BY <1>6, <1>7

\* ObjectIter goes on.
LEMMA LsmGathers ==
  ASSUME FileInv, ReaderInv, ContentInv, GatherInv, LoadIndexBlock \/ LoadValueBlock,
         UNCHANGED <<fileVars, began, answer>>, call.limit = All
  PROVE  Gathering'
<1>1. /\ pc = "lsm" /\ call' = call /\ out'.wal = out.wal
      /\ \/ pc' = "failed" /\ out' = out
         \/ pc' = "lsm" /\ \/ LoadIndexBlock /\ out' = out
                           \/ LoadValueBlock
  <2>1. out'.wal = out.wal
    <3>1. LoadIndexBlock => out' = out
      BY DEF LoadIndexBlock, BlockIsWrong, Fail
    <3>2. LoadValueBlock => out' = out \/ \E x : out' = [out EXCEPT !.lsm = x]
      BY DEF LoadValueBlock, BlockIsWrong, Fail
    <3>3. \A x : [out EXCEPT !.lsm = x].wal = out.wal
      OBVIOUS
    <3> QED
      BY <3>1, <3>2, <3>3
  <2> QED
    BY <2>1 DEF LoadIndexBlock, LoadValueBlock, BlockIsWrong, Fail
<1>2. Stage /\ ReaderTypes /\ (copies[1] = began.sb => LsmReading)
  BY <1>1 DEF GatherInv, Gathering, ReaderInv
<1>3. /\ copies' = copies /\ began' = began /\ Due' = Due /\ grid' = grid
      /\ out'.lsm = out.lsm => (Justified' <=> Justified)
      /\ \A o, a : HeldBy(a, o)' <=> HeldBy(a, o)
      /\ \A o, v : HeldIn(v, o)' <=> HeldIn(v, o)
      /\ Transient(copies[1], call.tree)' <=> Transient(copies[1], call.tree)
  BY <1>1, GatherFrame
<1>4. call.sources = <<"lsm", "wal">>
  BY <1>1, <1>2 DEF Stage
<1>9. out' = [lsm |-> out'.lsm, wal |-> out'.wal]
  <2>1. PICK l, w : out = [lsm |-> l, wal |-> w]
    BY <1>2 DEF Stage
  <2>2. out' = out \/ \E x : out' = [out EXCEPT !.lsm = x]
    BY <1>1 DEF LoadValueBlock, BlockIsWrong, Fail
  <2>3. \A x : [out EXCEPT !.lsm = x] = [lsm |-> x, wal |-> w]
    BY <2>1
  <2>4. \E x, y : out' = [lsm |-> x, wal |-> y]
    BY <2>1, <2>2, <2>3
  <2> QED
    BY <2>4
<1>5. Stage' /\ LsmRead' /\ WalRead'
  BY <1>1, <1>2, <1>4, <1>9, TwoSources DEF Stage, LsmRead, WalRead
<1>6. CASE pc' = "failed" \/ copies[1] # began.sb
  BY <1>3, <1>5, <1>6 DEF Gathering, LsmReading
<1>7. CASE pc' = "lsm" /\ copies[1] = began.sb /\ LoadIndexBlock /\ out' = out
  <2>1. PICK a \in iter.tables :
          iter' = [tables |-> iter.tables \ {a}, values |-> grid[a].values] /\ iter.values = {}
    BY <1>7 DEF LoadIndexBlock, BlockIsWrong, Fail
  <2>2. iter'.tables = iter.tables \ {a} /\ iter'.values = grid[a].values
    BY <2>1
  <2>3. ASSUME NEW o \in Due
        PROVE  \/ o \in ToSet(out.lsm)
               \/ \E v \in iter'.values : HeldIn(v, o)
               \/ \E c \in iter'.tables : HeldBy(c, o)
    <3>1. o \in ToSet(out.lsm) \/ \E c \in iter.tables : HeldBy(c, o)
      BY <1>1, <1>2, <1>7, <2>1 DEF LsmReading
    <3>2. HeldBy(a, o) => \E v \in grid[a].values : HeldIn(v, o)
      BY DEF HeldBy
    <3> QED
      BY <2>2, <3>1, <3>2
  <2>4. Justified
    BY <1>1, <1>2, <1>7 DEF LsmReading
  <2>5. LsmReading'
    BY <1>3, <1>7, <2>3, <2>4 DEF LsmReading
  <2> QED
    BY <1>5, <2>5 DEF Gathering
<1>8. CASE pc' = "lsm" /\ copies[1] = began.sb /\ LoadValueBlock
  <2>1. PICK a \in iter.values :
          /\ grid[a].type = "value"
          /\ out' = [out EXCEPT !.lsm = @ \o grid[a].objects]
          /\ iter' = [iter EXCEPT !.values = @ \ {a}]
    BY <1>8 DEF LoadValueBlock, BlockIsWrong, Fail
  <2>2. /\ iter \in [tables : SUBSET Addresses, values : SUBSET Addresses]
        /\ a \in Addresses
    BY <1>2 DEF ReaderTypes
  <2>3. iter'.values = iter.values \ {a} /\ iter'.tables = iter.tables
    BY <2>1, <2>2
  <2>4. grid[a] \in ValueBlocks /\ grid[a].objects \in Seq(Records)
    <3>1. grid[a] \in FreeBlocks \cup ManifestBlocks \cup IndexBlocks \cup ValueBlocks
      BY <2>2 DEF FileInv, FileTypes
    <3>2. grid[a] \in ValueBlocks
      BY <2>1, <3>1 DEF FreeBlocks, ManifestBlocks, IndexBlocks
    <3> QED
      BY <3>2 DEF ValueBlocks
  <2>5. Justified
    BY <1>1, <1>2, <1>8 DEF LsmReading
  <2>6. PICK objects \in Seq(Records), records \in Seq(Records) :
          objects = grid[a].objects /\ records = out.lsm
    BY <2>4, <2>5 DEF Justified
  <2>7. out'.lsm = records \o objects
    <3>1. PICK l, w : out = [lsm |-> l, wal |-> w]
      BY <1>2 DEF Stage
    <3> QED
      BY <2>1, <2>6, <3>1
  <2>8. out'.lsm \in Seq(Records) /\ ToSet(out'.lsm) = ToSet(out.lsm) \cup ToSet(grid[a].objects)
    BY <2>6, <2>7, ToSetConcat
  <2>9. ~Transient(copies[1], call.tree) => ToSet(grid[a].objects) \subseteq Due
    <3> HAVE ~Transient(copies[1], call.tree)
    <3>1. PICK c \in LiveAt(sb.count, call.tree) : a \in grid[c].values
      BY <1>1, <1>8, <2>1, TablesAreReadable
    <3>2. sb = copies[1] /\ call.tree \in Trees
      BY <1>1, <1>2, <1>8, TablesAreReadable DEF ReaderTypes, Calls
    <3>3. Sound(copies[1], call.tree)
      BY <3>2, NewestHolds
    <3> QED
      BY <3>1, <3>2, <3>3 DEF Sound, Due
  <2>10. Justified'
    BY <1>3, <2>5, <2>8, <2>9 DEF Justified
  <2>11. ASSUME NEW o \in Due
         PROVE  \/ o \in ToSet(out'.lsm)
                \/ \E v \in iter'.values : HeldIn(v, o)
                \/ \E c \in iter'.tables : HeldBy(c, o)
    <3>1. \/ o \in ToSet(out.lsm)
          \/ \E v \in iter.values : HeldIn(v, o)
          \/ \E c \in iter.tables : HeldBy(c, o)
      BY <1>1, <1>2, <1>8 DEF LsmReading
    <3>2. HeldIn(a, o) => o \in ToSet(grid[a].objects)
      BY DEF HeldIn
    <3> QED
      BY <2>3, <2>8, <3>1, <3>2
  <2>12. LsmReading'
    BY <1>3, <2>10, <2>11 DEF LsmReading
  <2> QED
    BY <1>5, <2>12 DEF Gathering
<1> QED
  BY <1>1, <1>6, <1>7, <1>8

\* The LSM has no more.
LEMMA EndOfLsmGathers ==
  ASSUME FileInv, ReaderInv, ContentInv, GatherInv, EndOfLsm,
         UNCHANGED <<fileVars, began, answer>>, call.limit = All
  PROVE  Gathering'
<1>1. pc = "lsm" /\ NextSource /\ out' = out /\ iter = NoIter
  BY DEF EndOfLsm, MoreLsm, More
<1>2. copies[1] = began.sb => LsmReading
  BY <1>1 DEF GatherInv, Gathering
<1>3. copies[1] = began.sb => Justified /\ Due \subseteq ToSet(out.lsm)
  BY <1>1, <1>2 DEF LsmReading, NoIter
<1> QED
  BY <1>1, <1>3, SourceEnds

\* A prepare that is not checkpointed is the one in its slot, in both zones: the ring has
\* gone round by no more than what the durable checkpoint allows.
LEMMA SlotHas ==
  ASSUME FileInv, ContentInv
  PROVE  /\ \A op \in (copies[1].checkpoint + 1)..commit : headers[SlotOf(op)] = op
         /\ \A s \in 0..(SlotCount - 1) : headers[s] > copies[1].checkpoint =>
              headers[s] \in (copies[1].checkpoint + 1)..commit /\ bodies[s] = headers[s]
<1>1. /\ copies[1].checkpoint \in Nat /\ Durable.checkpoint \in Nat
      /\ Durable.checkpoint <= copies[1].checkpoint
      /\ commit \in Nat /\ Len(log) \in Nat /\ commit <= Len(log)
  BY NewestTypes DEF ContentInv
<1>2. Ring(headers, commit) /\ Ring(bodies, Len(log)) /\ Len(log) <= Durable.checkpoint + SlotCount
  BY DEF ContentInv, Wal
<1>3. headers \in [0..(SlotCount - 1) -> Nat] /\ bodies \in [0..(SlotCount - 1) -> Nat]
  BY FileAssumption DEF FileInv, FileTypes
\* A ring of at most Len(log) prepares has the one of a slot that is not checkpointed.
<1>4. ASSUME NEW f \in [0..(SlotCount - 1) -> Nat], NEW n \in Nat, n <= Len(log), Ring(f, n),
             NEW op \in (copies[1].checkpoint + 1)..n
      PROVE  f[SlotOf(op)] = op
  <2>1. op \in Nat /\ op \in 1..n /\ SlotOf(op) \in 0..(SlotCount - 1) /\ SlotCount \in Nat
    <3>1. op \in Nat /\ op \in 1..n
      BY <1>1
    <3> QED
      BY <3>1, OneLap
  <2>2. PICK g \in Nat : g = f[SlotOf(op)]
    BY <2>1
  <2>3. op <= g /\ g <= n /\ (g # 0 => SlotOf(g) = SlotOf(op))
    BY <1>4, <2>1, <2>2 DEF Ring
  <2>4. g < op + SlotCount /\ g # 0
    <3>1. PICK S \in Nat, d \in Nat, l \in Nat, c \in Nat :
            /\ S = SlotCount /\ d = Durable.checkpoint /\ l = Len(log) /\ c = copies[1].checkpoint
      BY <1>1, <2>1
    <3>2. l <= d + S /\ d <= c /\ g <= n /\ n <= l
      BY <1>1, <1>2, <1>4, <2>3, <3>1
    <3>3. c < op /\ op <= g
      BY <1>4, <2>3, <3>1
    <3>4. g < op + S /\ g # 0
      BY <2>1, <3>2, <3>3
    <3> QED
      BY <3>1, <3>4
  <2>5. g = op
    BY <2>1, <2>3, <2>4, OneLap
  <2> QED
    BY <2>2, <2>5
<1>5. \A op \in (copies[1].checkpoint + 1)..commit : headers[SlotOf(op)] = op
  BY <1>1, <1>2, <1>3, <1>4
<1>6. ASSUME NEW s \in 0..(SlotCount - 1), headers[s] > copies[1].checkpoint
      PROVE  headers[s] \in (copies[1].checkpoint + 1)..commit /\ bodies[s] = headers[s]
  <2>1. PICK h \in Nat : h = headers[s]
    BY <1>3
  <2>2. h <= commit /\ (h # 0 => SlotOf(h) = s)
    BY <1>2, <2>1 DEF Ring
  <2>3. h \in (copies[1].checkpoint + 1)..commit /\ h \in (copies[1].checkpoint + 1)..Len(log)
        /\ SlotOf(h) = s
    BY <1>1, <1>6, <2>1, <2>2
  <2>4. Len(log) <= Len(log)
    BY <1>1
  <2>5. bodies[SlotOf(h)] = h
    BY <1>1, <1>2, <1>3, <1>4, <2>3, <2>4
  <2> QED
    BY <2>1, <2>3, <2>5
<1> QED
  BY <1>5, <1>6

\* After a slot whose header does not match, or whose body was read, the slots up to the
\* next one are done.
LEMMA SlotDone ==
  ASSUME FileInv, ContentInv, GatherInv, ReaderTypes, sb = copies[1],
         NEW s \in 0..(SlotCount - 1), WalUpto(s), NEW records \in Seq(Records),
         \/ ~Matches(headers[s]) /\ records = out.wal
         \/ Matches(headers[s]) /\ records = Append(out.wal, Submitted(bodies[s]))
  PROVE  /\ ToSet(records) \subseteq {Submitted(op) : op \in Logged(commit)}
         /\ \A op \in Logged(began.commit) : SlotOf(op) < s + 1 => Submitted(op) \in ToSet(records)
<1>1. /\ copies[1].checkpoint \in Nat /\ commit \in Nat /\ began.commit \in 0..commit
  BY NewestTypes DEF ContentInv, GatherInv, BeganEarlier
<1>2. /\ out.wal \in Seq(Records)
      /\ ToSet(out.wal) \subseteq {Submitted(op) : op \in Logged(commit)}
      /\ \A op \in Logged(began.commit) : SlotOf(op) < s => Submitted(op) \in ToSet(out.wal)
  BY DEF WalUpto
<1>3. /\ \A op \in (copies[1].checkpoint + 1)..commit : headers[SlotOf(op)] = op
      /\ headers[s] > copies[1].checkpoint =>
           headers[s] \in (copies[1].checkpoint + 1)..commit /\ bodies[s] = headers[s]
  BY SlotHas
<1>4. ASSUME NEW op \in Logged(began.commit), SlotOf(op) < s + 1
      PROVE  SlotOf(op) < s \/ (headers[s] = op /\ Matches(headers[s]))
  <2>1. op \in (copies[1].checkpoint + 1)..commit /\ log[op].kind = call.tree
        /\ op # 0 /\ op > copies[1].checkpoint /\ op \in Nat
    BY <1>1 DEF Logged
  <2>2. SlotOf(op) \in Nat
    BY <2>1, OneLap
  <2>3. CASE SlotOf(op) = s
    BY <1>3, <2>1, <2>3 DEF Matches
  <2> QED
    BY <1>4, <2>2, <2>3
<1>5. CASE ~Matches(headers[s]) /\ records = out.wal
  BY <1>2, <1>4, <1>5
<1>6. CASE Matches(headers[s]) /\ records = Append(out.wal, Submitted(bodies[s]))
  <2>1. /\ headers[s] \in (copies[1].checkpoint + 1)..commit /\ bodies[s] = headers[s]
        /\ log[headers[s]].kind = call.tree
    BY <1>3, <1>6 DEF Matches
  <2>2. headers[s] \in Logged(commit)
    BY <2>1 DEF Logged
  <2>3. PICK x : x = Submitted(bodies[s])
    OBVIOUS
  <2>4. PICK w \in Seq(Records) : w = out.wal
    BY <1>2
  <2>5. ToSet(records) = ToSet(w) \cup {x}
    <3>1. records = Append(w, x) /\ records \in Seq(Records)
      BY <1>6, <2>3, <2>4
    <3>2. /\ DOMAIN records = 1..(Len(w) + 1) /\ Len(w) \in Nat /\ DOMAIN w = 1..Len(w)
          /\ \A i \in 1..Len(w) : records[i] = w[i]
          /\ records[Len(w) + 1] = x
      BY <2>4, <3>1
    <3>3. \A i \in 1..(Len(w) + 1) : i \in 1..Len(w) \/ i = Len(w) + 1
      BY <3>2
    <3> QED
      BY <3>2, <3>3 DEF ToSet
  <2> QED
    BY <1>2, <1>4, <2>1, <2>2, <2>3, <2>4, <2>5
<1> QED
  BY <1>5, <1>6

\* What was submitted is a record.
LEMMA SubmittedTypes ==
  ASSUME FileTypes, NEW op \in 1..Len(log)
  PROVE  Submitted(op) \in Records
<1>1. log[op].kind \in Trees /\ log[op].id \in AccountIds \cup TransferIds
  BY PrepareTypes
<1>2. PICK k \in Trees, i \in AccountIds \cup TransferIds, v \in Nat :
        Submitted(op) = [kind |-> k, id |-> i, ts |-> 0, value |-> v]
  BY <1>1 DEF Submitted
<1> QED
  BY <1>2 DEF Records

\* WalObjectIter goes on.
LEMMA WalGathers ==
  ASSUME FileInv, ReaderInv, ContentInv, GatherInv, ReadHeader \/ ReadBody,
         UNCHANGED <<fileVars, began, answer>>, call.limit = All
  PROVE  Gathering'
<1>1. /\ pc \in {"header", "body"} /\ pc' \in {"header", "body"} /\ call' = call /\ sb' = sb
      /\ out'.lsm = out.lsm
  <2>1. pc \in {"header", "body"} /\ pc' \in {"header", "body"} /\ call' = call /\ sb' = sb
    BY DEF ReadHeader, ReadBody
  <2>2. ReadHeader => out' = out
    BY DEF ReadHeader
  <2>3. ReadBody => \E x : out' = [out EXCEPT !.wal = x]
    BY DEF ReadBody
  <2>4. \A x : [out EXCEPT !.wal = x].lsm = out.lsm
    OBVIOUS
  <2> QED
    BY <2>1, <2>2, <2>3, <2>4
<1>2. /\ Stage /\ ReaderTypes /\ (copies[1] = began.sb => LsmRead /\ WalRead /\ sb = copies[1])
      /\ slot \in 0..SlotCount /\ SlotCount \in Nat
  <2>1. copies[1] = began.sb => sb = copies[1]
    BY <1>1 DEF ReaderInv, Reading, Electing
  <2> QED
    BY <1>1, <2>1, OneLap DEF GatherInv, Gathering, ReaderInv, ReaderTypes
<1>3. /\ copies' = copies /\ began' = began /\ Due' = Due /\ (Justified' <=> Justified)
      /\ headers' = headers /\ log' = log
      /\ Logged(commit)' = Logged(commit) /\ Logged(began.commit)' = Logged(began.commit)
      /\ \A op : Submitted(op)' = Submitted(op)
      /\ out' = out => \A k : WalUpto(k)' <=> WalUpto(k)
  BY <1>1, GatherFrame
<1>4. PICK l, w : out = [lsm |-> l, wal |-> w] /\ l = out.lsm /\ w = out.wal
  BY <1>2 DEF Stage
<1>5. Stage'
  <2>1. out' = out \/ \E x : out' = [out EXCEPT !.wal = x]
    BY DEF ReadHeader, ReadBody
  <2>2. \A x : [out EXCEPT !.wal = x] = [lsm |-> l, wal |-> x]
    BY <1>4
  <2>3. \E x, y : out' = [lsm |-> x, wal |-> y]
    BY <1>4, <2>1, <2>2
  <2>4. out' = [lsm |-> out'.lsm, wal |-> out'.wal]
    BY <2>3
  <2> QED
    BY <1>1, <1>2, <2>4, TwoSources DEF Stage
<1>6. SUFFICES ASSUME copies[1] = began.sb PROVE (LsmReading /\ LsmRead /\ WalRead)'
  BY <1>3, <1>5 DEF Gathering
<1>7. LsmReading' /\ LsmRead'
  BY <1>1, <1>2, <1>3, <1>6 DEF LsmReading, LsmRead
<1>8. WalUpto(slot) /\ sb = copies[1]
  BY <1>1, <1>2, <1>6 DEF WalRead
<1>9. CASE ReadHeader /\ Matches(headers[slot])
  <2>1. pc' = "body" /\ slot' = slot /\ out' = out
    BY <1>9 DEF ReadHeader
  <2>2. PICK k : k = slot
    OBVIOUS
  <2>3. WalUpto(k)'
    BY <1>3, <1>8, <2>1, <2>2
  <2>4. WalUpto(slot)'
    BY <2>1, <2>2, <2>3 DEF WalUpto
  <2>5. Matches(headers[slot])'
    BY <1>1, <1>3, <1>9, <2>1 DEF Matches
  <2>6. WalRead'
    BY <2>1, <2>4, <2>5 DEF WalRead
  <2> QED
    BY <1>7, <2>6
<1>10. CASE \/ ReadHeader /\ ~Matches(headers[slot])
            \/ ReadBody
  <2>1. /\ slot < SlotCount /\ pc' = "header" /\ slot' = slot + 1
    BY <1>2, <1>10 DEF ReadHeader, ReadBody, ReaderTypes
  <2>2. PICK s \in 0..(SlotCount - 1) : s = slot
    BY <1>2, <2>1
  <2>3. /\ w \in Seq(Records)
        /\ \/ ~Matches(headers[s]) /\ out'.wal = w
           \/ Matches(headers[s]) /\ out'.wal = Append(w, Submitted(bodies[s]))
    <3>1. w \in Seq(Records)
      BY <1>4, <1>8 DEF WalUpto
    <3>2. CASE ReadHeader /\ ~Matches(headers[slot])
      BY <1>4, <2>2, <3>1, <3>2 DEF ReadHeader
    <3>3. CASE ReadBody
      <4>1. PICK x : x = Append(out.wal, Submitted(bodies[slot]))
        OBVIOUS
      <4>2. out' = [out EXCEPT !.wal = x] /\ pc = "body"
        BY <3>3, <4>1 DEF ReadBody
      <4>3. out'.wal = x
        BY <1>4, <4>2
      <4>4. Matches(headers[s])
        BY <1>2, <1>6, <2>2, <4>2 DEF WalRead
      <4> QED
        BY <1>4, <2>2, <3>1, <4>1, <4>3, <4>4
    <3> QED
      BY <1>10, <3>2, <3>3
  <2>4. PICK records : records = out'.wal
    OBVIOUS
  <2>5. records \in Seq(Records)
    <3>1. Matches(headers[s]) => Submitted(bodies[s]) \in Records
      <4> HAVE Matches(headers[s])
      <4>1. headers[s] > copies[1].checkpoint
        BY <1>8 DEF Matches
      <4>2. bodies[s] \in (copies[1].checkpoint + 1)..commit
        BY <4>1, SlotHas
      <4>3. bodies[s] \in 1..Len(log)
        <5>1. copies[1].checkpoint \in Nat /\ commit \in Nat /\ Len(log) \in Nat /\ commit <= Len(log)
          BY NewestTypes DEF ContentInv
        <5> QED
          BY <4>2, <5>1
      <4> QED
        BY <4>3, SubmittedTypes DEF FileInv
    <3> QED
      BY <2>3, <2>4, <3>1
  <2>6. /\ ToSet(records) \subseteq {Submitted(op) : op \in Logged(commit)}
        /\ \A op \in Logged(began.commit) : SlotOf(op) < s + 1 => Submitted(op) \in ToSet(records)
    BY <1>2, <1>4, <1>8, <2>2, <2>3, <2>4, <2>5, SlotDone
  <2>7. WalUpto(slot)'
    <3>1. slot' = s + 1 /\ out'.wal = records
      BY <2>1, <2>2, <2>4
    <3> QED
      BY <1>3, <2>5, <2>6, <3>1 DEF WalUpto
  <2>8. WalRead'
    BY <2>1, <2>7 DEF WalRead
  <2> QED
    BY <1>7, <2>8
<1> QED
  BY <1>9, <1>10

\* The WAL has no more.
LEMMA EndOfWalGathers ==
  ASSUME FileInv, ReaderInv, ContentInv, GatherInv, EndOfWal,
         UNCHANGED <<fileVars, began, answer>>, call.limit = All
  PROVE  Gathering'
<1>1. pc = "header" /\ NextSource /\ out' = out /\ slot = SlotCount
  BY DEF EndOfWal, MoreWal, More
<1>2. Stage /\ (copies[1] = began.sb => LsmRead /\ WalRead)
  BY <1>1 DEF GatherInv, Gathering
<1>3. copies[1] = began.sb => Justified /\ Due \subseteq ToSet(out.lsm) /\ WalUpto(SlotCount)
  BY <1>1, <1>2 DEF Stage, LsmRead, WalRead
<1> QED
  BY <1>1, <1>3, SourceEnds

\* A call begins with nothing gathered.
LEMMA BeginGathers ==
  ASSUME ContentInv, BeganEarlier, commit \in Nat, NEW c, Begin(c),
         began' = began \/ began'.commit = commit,
         c.limit = All => c.sources = <<"lsm", "wal">>
  PROVE  ContentInv' /\ GatherInv'
<1>1. /\ UNCHANGED fileVars /\ call' = c /\ pc' = "superblock" /\ out' = Nothing
  BY DEF Begin, Open
<1>2. ContentInv' /\ commit' = commit
  BY <1>1, ContentFrame DEF fileVars
<1>3. BeganEarlier'
  BY <1>2 DEF BeganEarlier
<1>4. /\ out'.lsm = <<>> /\ out'.wal = <<>> /\ out' = [lsm |-> out'.lsm, wal |-> out'.wal]
  BY <1>1 DEF Nothing
<1>5. CASE c.limit = All
  <2>1. call'.sources = <<"lsm", "wal">>
    BY <1>1, <1>5
  <2>2. Stage'
    BY <1>1, <1>4, <2>1, TwoSources DEF Stage
  <2>3. LsmReading' /\ LsmRead' /\ WalRead'
    BY <1>1, <2>1, TwoSources DEF LsmReading, LsmRead, WalRead
  <2> QED
    BY <1>2, <1>3, <2>2, <2>3 DEF GatherInv, Gathering
<1>6. CASE c.limit # All
  BY <1>1, <1>2, <1>3, <1>6 DEF GatherInv, Gathering, All
<1> QED
  BY <1>5, <1>6

\* A step of the migration's calls keeps what is read and what is still before the call.
LEMMA CallsGather ==
  ASSUME FileInv, ReaderInv, ContentInv, GatherInv,
         \/ \E limit \in Limits :
              \/ ReadAccounts(limit) \/ ReadTransfers(limit)
              \/ ReadLsmAccounts(limit) \/ ReadLsmTransfers(limit)
              \/ ReadWalAccounts(limit) \/ ReadWalTransfers(limit)
         \/ ReadNextPage \/ ReadAllAccounts \/ ReadAllTransfersSince
  PROVE  ContentInv' /\ GatherInv'
<1>1. commit \in Nat /\ BeganEarlier /\ call \in Calls
  BY NewestTypes DEF ContentInv, GatherInv, ReaderInv, ReaderTypes
<1>2. ASSUME NEW limit \in Limits, NEW source, NEW tree, ReadPage(source, tree, limit)
      PROVE  ContentInv' /\ GatherInv'
  <2>1. limit # All
    BY LimitsAssumption DEF All
  <2>2. PICK c : c = [sources |-> <<source>>, tree |-> tree, page |-> 0, limit |-> limit, cutoff |-> 0]
    OBVIOUS
  <2>3. Begin(c) /\ began' = [sb |-> Newest, commit |-> commit, source |-> source]
    BY <1>2, <2>2 DEF ReadPage
  <2>4. c.limit # All
    BY <2>1, <2>2
  <2>5. began'.commit = commit
    BY <2>3
  <2> QED
    BY <1>1, <2>3, <2>4, <2>5, BeginGathers
<1>3. ASSUME NEW tree, NEW cutoff, ReadAll(tree, cutoff)
      PROVE  ContentInv' /\ GatherInv'
  <2>1. PICK c : c = [sources |-> <<"lsm", "wal">>, tree |-> tree, page |-> 0, limit |-> All,
                      cutoff |-> cutoff]
    OBVIOUS
  <2>2. Begin(c) /\ began' = [sb |-> Newest, commit |-> commit, source |-> "both"]
    BY <1>3, <2>1 DEF ReadAll
  <2>3. began'.commit = commit /\ c.sources = <<"lsm", "wal">>
    BY <2>1, <2>2
  <2> QED
    BY <1>1, <2>2, <2>3, BeginGathers
<1>4. CASE ReadNextPage
  <2>1. PICK c : c = [call EXCEPT !.page = @ + 1]
    OBVIOUS
  <2>2. Begin(c) /\ began' = began /\ call.limit # All
    BY <1>4, <2>1 DEF ReadNextPage, MorePages
  <2>3. c.limit # All
    BY <1>1, <2>1, <2>2 DEF Calls
  <2> QED
    BY <1>1, <2>2, <2>3, BeginGathers
<1> QED
  BY <1>2, <1>3, <1>4 DEF ReadAccounts, ReadTransfers, ReadLsmAccounts, ReadLsmTransfers,
       ReadWalAccounts, ReadWalTransfers, ReadAllAccounts, ReadAllTransfersSince

\* A step of the reader, of whatever kind, keeps what was gathered.
LEMMA ReadGathers ==
  ASSUME FileInv, ReaderInv, ContentInv, GatherInv, Read, UNCHANGED <<fileVars, began, answer>>
  PROVE  ContentInv' /\ GatherInv'
<1>1. /\ ContentInv' /\ BeganEarlier'
  <2>1. UNCHANGED fileVars /\ began' = began /\ commit' = commit
    BY DEF fileVars
  <2> QED
    BY <2>1, ContentFrame DEF GatherInv, BeganEarlier
<1>2. CASE call.limit = All
  <2>1. Gathering'
    BY <1>2, ReadCopyGathers, ReadManifestGathers, LsmGathers, EndOfLsmGathers, WalGathers,
       EndOfWalGathers DEF Read
  <2> QED
    BY <1>1, <2>1 DEF GatherInv
<1>3. CASE call.limit # All
  <2>1. call' = call \/ NextSource
    BY DEF Read, ReadCopy, Use, ReadManifest, LoadIndexBlock, LoadValueBlock, EndOfLsm, ReadHeader,
           ReadBody, EndOfWal, BlockIsWrong, Fail
  <2>2. pc # "idle" /\ (NextSource => call.sources # <<>>)
    <3>1. pc # "idle" /\ pc \in {"superblock", "manifest", "lsm", "header", "body"}
      BY DEF Read, ReadCopy, ReadManifest, LoadIndexBlock, LoadValueBlock, EndOfLsm, ReadHeader,
             ReadBody, EndOfWal
    <3> QED
      BY <3>1 DEF ReaderInv, ReaderTypes
  <2>3. call'.limit = call.limit
    BY <2>1, <2>2, NextSourceTypes DEF ReaderInv
  <2> QED
    BY <1>1, <1>3, <2>3 DEF GatherInv, Gathering, All
<1> QED
  BY <1>2, <1>3

(***************************************************************************)
(* 6. The answer.                                                          *)
(***************************************************************************)

\* ById keeps the last record of every id.
LEMMA ByIdKeeps ==
  ASSUME NEW l \in Seq(Records), NEW w \in Seq(Records)
  PROVE  /\ \A r \in ById(l \o w) :
              \/ r \in ToSet(w)
              \/ r \in ToSet(l) /\ \A x \in ToSet(w) : x.id # r.id
         /\ \A r, s \in ById(l \o w) : r.id = s.id => r = s
         /\ \A x \in ToSet(l) \cup ToSet(w) : \E r \in ById(l \o w) : r.id = x.id
<1> DEFINE both == l \o w
<1>1. PICK m \in Nat, n \in Nat : m = Len(l) /\ n = Len(w)
  OBVIOUS
<1>2. /\ both \in Seq(Records) /\ Len(both) = m + n
      /\ \A i \in 1..m : both[i] = l[i]
      /\ \A i \in 1..n : both[m + i] = w[i]
  <2>1. both \in Seq(Records) /\ Len(both) = Len(l) + Len(w)
    OBVIOUS
  <2>2. \A i \in 1..Len(l) : both[i] = l[i]
    OBVIOUS
  <2>3. \A i \in 1..Len(w) : both[Len(l) + i] = w[i]
    OBVIOUS
  <2> QED
    BY <1>1, <2>1, <2>2, <2>3
<1> HIDE DEF both
<1>3. DOMAIN both = 1..(m + n) /\ DOMAIN l = 1..m /\ DOMAIN w = 1..n
  BY <1>1, <1>2
<1>4. \A r \in ById(both) : \E i \in 1..(m + n) :
        r = both[i] /\ \A k \in (i + 1)..(m + n) : both[k].id # both[i].id
  BY <1>2, <1>3 DEF ById
<1>5. \A i \in 1..(m + n) :
        (\A k \in (i + 1)..(m + n) : both[k].id # both[i].id) => both[i] \in ById(both)
  BY <1>2, <1>3 DEF ById
<1>6. \A i \in 1..(m + n) : i \in 1..m \/ (i - m \in 1..n /\ m + (i - m) = i)
  OBVIOUS
<1>7. /\ \A x \in ToSet(l) : \E i \in 1..m : x = l[i]
      /\ \A x \in ToSet(w) : \E i \in 1..n : x = w[i]
      /\ \A i \in 1..m : l[i] \in ToSet(l)
      /\ \A i \in 1..n : w[i] \in ToSet(w)
  BY <1>3 DEF ToSet
<1>8. ASSUME NEW r \in ById(both)
      PROVE  r \in ToSet(w) \/ (r \in ToSet(l) /\ \A x \in ToSet(w) : x.id # r.id)
  <2>1. PICK i \in 1..(m + n) :
          r = both[i] /\ \A k \in (i + 1)..(m + n) : both[k].id # both[i].id
    BY <1>4
  <2>2. CASE i \in 1..m
    <3>1. r = l[i] /\ r \in ToSet(l)
      BY <1>2, <1>7, <2>1, <2>2
    <3>2. ASSUME NEW x \in ToSet(w) PROVE x.id # r.id
      <4>1. PICK j \in 1..n : x = w[j]
        BY <1>7
      <4>2. m + j \in (i + 1)..(m + n) /\ both[m + j] = x
        BY <1>2, <2>2, <4>1
      <4> QED
        BY <2>1, <4>2
    <3> QED
      BY <3>1, <3>2
  <2>3. CASE i - m \in 1..n /\ m + (i - m) = i
    BY <1>2, <1>7, <2>1, <2>3
  <2> QED
    BY <1>6, <2>2, <2>3
<1>9. ASSUME NEW r \in ById(both), NEW s \in ById(both), r.id = s.id PROVE r = s
  <2>1. PICK i \in 1..(m + n) :
          r = both[i] /\ \A k \in (i + 1)..(m + n) : both[k].id # both[i].id
    BY <1>4
  <2>2. PICK j \in 1..(m + n) :
          s = both[j] /\ \A k \in (j + 1)..(m + n) : both[k].id # both[j].id
    BY <1>4
  <2>3. ~(j \in (i + 1)..(m + n)) /\ ~(i \in (j + 1)..(m + n))
    BY <1>9, <2>1, <2>2
  <2>4. i = j
    BY <2>3
  <2> QED
    BY <2>1, <2>2, <2>4
<1>10. ASSUME NEW x \in ToSet(l) \cup ToSet(w) PROVE \E r \in ById(both) : r.id = x.id
  <2>1. PICK i \in 1..(m + n) : both[i] = x
    <3>1. CASE x \in ToSet(l)
      <4>1. PICK j \in 1..m : x = l[j]
        BY <1>7, <3>1
      <4> QED
        BY <1>2, <4>1
    <3>2. CASE x \in ToSet(w)
      <4>1. PICK j \in 1..n : x = w[j]
        BY <1>7, <3>2
      <4>2. m + j \in 1..(m + n)
        OBVIOUS
      <4> QED
        BY <1>2, <4>1, <4>2
    <3> QED
      BY <3>1, <3>2
  <2> DEFINE T == {j \in 1..(m + n) : both[j].id = x.id}
  <2>2. T \subseteq 1..(m + n) /\ T # {} /\ m + n \in Nat
    BY <2>1
  <2>3. PICK j \in T : \A k \in T : k <= j
    <3> HIDE DEF T
    <3> QED
      BY <2>2, Greatest
  <2>4. j \in 1..(m + n) /\ both[j].id = x.id
    OBVIOUS
  <2>5. ASSUME NEW k \in (j + 1)..(m + n) PROVE both[k].id # both[j].id
    <3>1. k \in 1..(m + n) /\ ~(k <= j)
      BY <2>4
    <3> QED
      BY <2>3, <2>4, <3>1
  <2> QED
    BY <1>5, <2>4, <2>5
<1> QED
  BY <1>8, <1>9, <1>10 DEF both

\* An id was created once.
LEMMA IdsAreUnique ==
  ASSUME FileTypes, NEW tree, NEW upto \in 0..Len(log),
         NEW o \in Objects(tree, 0, upto), NEW p \in Objects(tree, 0, upto), o.id = p.id
  PROVE  o = p
<1>1. PICK n \in Created(tree, upto), k \in Created(tree, upto) :
        o = Object(n, upto) /\ p = Object(k, upto)
  BY DEF Objects
<1>2. o.id = log[n].id /\ p.id = log[k].id
  <2>1. \A j : Object(j, upto).id = log[j].id
    BY DEF Object
  <2> QED
    BY <1>1, <2>1
<1>3. /\ n \in 1..upto /\ k \in 1..upto /\ log[n].kind = tree /\ log[k].kind = tree
      /\ Succeeds(n) /\ Succeeds(k) /\ upto \in Nat
  BY DEF Created
<1>4. ~(n \in 1..(k - 1)) /\ ~(k \in 1..(n - 1))
  BY <1>2, <1>3 DEF Succeeds
<1>5. n = k
  BY <1>3, <1>4
<1> QED
  BY <1>1, <1>5

\* What a migration has when it is ready.
LEMMA WhenReady ==
  ASSUME FileInv, ReaderInv, ContentInv, GatherInv,
         pc = "ready", call.limit = All, copies[1] = began.sb
  PROVE  /\ out.lsm \in Seq(Records) /\ out.wal \in Seq(Records)
         /\ Due \subseteq ToSet(out.lsm)
         /\ ~Transient(copies[1], call.tree) => ToSet(out.lsm) \subseteq Due
         /\ ToSet(out.wal) \subseteq {Submitted(op) : op \in Logged(commit)}
         /\ \A op \in Logged(began.commit) : Submitted(op) \in ToSet(out.wal)
<1>1. Stage /\ LsmRead /\ WalRead
  BY DEF GatherInv, Gathering
<1>2. Justified /\ Due \subseteq ToSet(out.lsm) /\ WalUpto(SlotCount)
  BY <1>1 DEF Stage, LsmRead, WalRead
<1>3. \A op \in Logged(began.commit) : SlotOf(op) < SlotCount
  <2> TAKE op \in Logged(began.commit)
  <2>1. copies[1].checkpoint \in Nat /\ commit \in Nat /\ began.commit \in 0..commit
    BY NewestTypes DEF ContentInv, GatherInv, BeganEarlier
  <2>2. op \in Nat
    BY <2>1 DEF Logged
  <2>3. SlotOf(op) \in 0..(SlotCount - 1) /\ SlotCount \in Nat
    BY <2>2, OneLap
  <2> QED
    BY <2>3
<1> QED
  BY <1>2, <1>3 DEF Justified, WalUpto

\* What a migration finds misses nothing that was committed when it began ...
MissesNothing(found, s, from, upto) ==
  IF call.tree = "accounts"
  THEN \A n \in Created("accounts", from) : \E r \in found : r.id = log[n].id
  ELSE \A o \in Objects(call.tree, 0, s.checkpoint) :
         o.ts >= call.cutoff /\ o.id \notin {log[n].id : n \in Logged(upto)} => o \in found

\* ... and is the checkpoint's object or what was submitted since.
InventsNothing(found, s, from, upto) ==
  ~Transient(s, call.tree) =>
    /\ \A r \in found :
         \/ r \in Objects(call.tree, 0, s.checkpoint) /\ r.id \notin {log[n].id : n \in Logged(from)}
         \/ \E op \in (s.checkpoint + 1)..upto : r = Submitted(op)
    /\ \A r, t \in found : r.id = t.id => r = t

\* A submitted object has the id of the prepare that made it.
LEMMA SubmittedId == \A op : Submitted(op).id = log[op].id
BY DEF Submitted

\* The accounts that were found.
LEMMA AccountsFound ==
  ASSUME FileInv, ReaderInv, ContentInv, GatherInv,
         pc = "ready", call.limit = All, copies[1] = began.sb, call.tree = "accounts"
  PROVE  /\ MissesNothing(MergedAccounts, copies[1], began.commit, commit)
         /\ InventsNothing(MergedAccounts, copies[1], began.commit, commit)
<1>1. PICK l \in Seq(Records), w \in Seq(Records) : l = out.lsm /\ w = out.wal
  BY WhenReady
<1>2. /\ Due \subseteq ToSet(l)
      /\ ~Transient(copies[1], call.tree) => ToSet(l) \subseteq Due
      /\ ToSet(w) \subseteq {Submitted(op) : op \in Logged(commit)}
      /\ \A op \in Logged(began.commit) : Submitted(op) \in ToSet(w)
  BY <1>1, WhenReady
<1>3. PICK c \in Nat, m \in Nat : c = copies[1].checkpoint /\ m = began.commit /\ m \in 0..commit
  BY NewestTypes DEF ContentInv, GatherInv, BeganEarlier
<1>4. /\ commit \in Nat /\ Len(log) \in Nat /\ commit <= Len(log) /\ FileTypes /\ c \in 0..Len(log)
  BY <1>3, NewestTypes DEF ContentInv, FileInv
\* Either way it keeps the last record of every id, of the LSM's those that are not in
\* the WAL.
<1>5. /\ \A r \in MergedAccounts :
           \/ r \in ToSet(w)
           \/ r \in ToSet(l) /\ \A x \in ToSet(w) : x.id # r.id
      /\ \A x \in ToSet(l) \cup ToSet(w) : \E r \in MergedAccounts : r.id = x.id
      /\ ~Transient(copies[1], call.tree) => \A r, s \in MergedAccounts : r.id = s.id => r = s
  <2>1. CASE w = <<>>
    <3>1. MergedAccounts = ToSet(l) /\ ToSet(w) = {}
      BY <1>1, <2>1 DEF MergedAccounts, ToSet
    <3>2. ~Transient(copies[1], call.tree) => \A r, s \in ToSet(l) : r.id = s.id => r = s
      BY <1>2, <1>3, <1>4, IdsAreUnique DEF Due
    <3> QED
      BY <3>1, <3>2
  <2>2. CASE w # <<>>
    <3>1. MergedAccounts = ById(l \o w)
      BY <1>1, <2>2 DEF MergedAccounts
    <3> QED
      BY <3>1, ByIdKeeps
  <2> QED
    BY <2>1, <2>2
<1>6. ASSUME NEW n \in Created("accounts", m)
      PROVE  \E r \in MergedAccounts : r.id = log[n].id
  <2>1. n \in 1..m /\ log[n].kind = "accounts" /\ Succeeds(n)
    BY DEF Created
  <2>2. CASE n <= c
    <3>1. n \in Created("accounts", c)
      BY <2>1, <2>2 DEF Created
    <3>2. Object(n, c) \in Due
      <4>1. 1..0 = {}
        OBVIOUS
      <4> QED
        BY <1>3, <3>1, <4>1 DEF Due, Objects
    <3>3. Object(n, c).id = log[n].id
      BY DEF Object
    <3> QED
      BY <1>2, <1>5, <3>2, <3>3
  <2>3. CASE ~(n <= c)
    <3>1. n \in Logged(began.commit)
      BY <1>3, <2>1, <2>3 DEF Logged
    <3>2. Submitted(n) \in ToSet(w)
      BY <1>2, <3>1
    <3> QED
      BY <1>5, <3>2, SubmittedId
  <2> QED
    BY <2>2, <2>3
<1>7. ASSUME ~Transient(copies[1], call.tree), NEW r \in MergedAccounts
      PROVE  \/ r \in Objects(call.tree, 0, c) /\ r.id \notin {log[n].id : n \in Logged(began.commit)}
             \/ \E op \in (c + 1)..commit : r = Submitted(op)
  <2>1. CASE r \in ToSet(w)
    <3>1. PICK op \in Logged(commit) : r = Submitted(op)
      BY <1>2, <2>1
    <3>2. op \in (c + 1)..commit
      BY <1>3 DEF Logged
    <3> QED
      BY <3>1, <3>2
  <2>2. CASE r \in ToSet(l) /\ \A x \in ToSet(w) : x.id # r.id
    <3>1. r \in Objects(call.tree, 0, c)
      BY <1>2, <1>3, <1>7, <2>2 DEF Due
    <3>2. \A n \in Logged(began.commit) : log[n].id # r.id
      BY <1>2, <2>2, SubmittedId
    <3> QED
      BY <3>1, <3>2
  <2> QED
    BY <1>5, <2>1, <2>2
<1> QED
  BY <1>3, <1>5, <1>6, <1>7 DEF MissesNothing, InventsNothing

\* The transfers that were found: those of ById that are in the window.
LEMMA TransfersFound ==
  ASSUME FileInv, ReaderInv, ContentInv, GatherInv,
         pc = "ready", call.limit = All, copies[1] = began.sb, call.tree = "transfers"
  PROVE  /\ MissesNothing(MergedTransfers, copies[1], began.commit, commit)
         /\ InventsNothing(MergedTransfers, copies[1], began.commit, commit)
<1>1. PICK l \in Seq(Records), w \in Seq(Records) : l = out.lsm /\ w = out.wal
  BY WhenReady
<1>2. ~Transient(copies[1], call.tree)
  BY NewestHolds DEF Trees
<1>3. /\ Due \subseteq ToSet(l) /\ ToSet(l) \subseteq Due
      /\ ToSet(w) \subseteq {Submitted(op) : op \in Logged(commit)}
      /\ \A op \in Logged(began.commit) : Submitted(op) \in ToSet(w)
  BY <1>1, <1>2, WhenReady
<1>4. PICK c \in Nat : c = copies[1].checkpoint /\ c \in 0..Len(log)
  BY NewestTypes DEF ContentInv
<1>5. /\ \A r \in ById(l \o w) :
           \/ r \in ToSet(w)
           \/ r \in ToSet(l) /\ \A x \in ToSet(w) : x.id # r.id
      /\ \A r, s \in ById(l \o w) : r.id = s.id => r = s
      /\ \A x \in ToSet(l) \cup ToSet(w) : \E r \in ById(l \o w) : r.id = x.id
  BY ByIdKeeps
<1>6. \A r : r \in MergedTransfers <=> r \in ById(l \o w) /\ r.ts >= call.cutoff
  BY <1>1 DEF MergedTransfers
<1>7. ASSUME NEW o \in Objects(call.tree, 0, c), o.ts >= call.cutoff,
             o.id \notin {log[n].id : n \in Logged(commit)}
      PROVE  o \in MergedTransfers
  <2>1. o \in ToSet(l)
    BY <1>3, <1>4 DEF Due
  <2>2. PICK r \in ById(l \o w) : r.id = o.id
    BY <1>5, <2>1
  <2>3. r \notin ToSet(w)
    <3>1. ASSUME NEW op \in Logged(commit), r = Submitted(op) PROVE FALSE
      BY <1>7, <2>2, <3>1, SubmittedId
    <3> QED
      BY <1>3, <3>1
  <2>4. r \in Objects(call.tree, 0, c)
    BY <1>3, <1>4, <1>5, <2>3 DEF Due
  <2>5. r = o
    BY <1>4, <2>2, <2>4, IdsAreUnique DEF FileInv
  <2> QED
    BY <1>6, <1>7, <2>2, <2>5
<1>8. ASSUME NEW r \in MergedTransfers
      PROVE  \/ r \in Objects(call.tree, 0, c) /\ r.id \notin {log[n].id : n \in Logged(began.commit)}
             \/ \E op \in (c + 1)..commit : r = Submitted(op)
  <2>1. CASE r \in ToSet(w)
    <3>1. PICK op \in Logged(commit) : r = Submitted(op)
      BY <1>3, <2>1
    <3>2. op \in (c + 1)..commit
      BY <1>4 DEF Logged
    <3> QED
      BY <3>1, <3>2
  <2>2. CASE r \in ToSet(l) /\ \A x \in ToSet(w) : x.id # r.id
    <3>1. r \in Objects(call.tree, 0, c)
      BY <1>3, <1>4, <2>2 DEF Due
    <3>2. \A n \in Logged(began.commit) : log[n].id # r.id
      BY <1>3, <2>2, SubmittedId
    <3> QED
      BY <3>1, <3>2
  <2> QED
    BY <1>5, <1>6, <2>1, <2>2
<1>9. \A r, s \in MergedTransfers : r.id = s.id => r = s
  BY <1>5, <1>6
<1> QED
  BY <1>4, <1>7, <1>8, <1>9 DEF MissesNothing, InventsNothing

\* A migration's answer, if no superblock was written, is what was gathered.
LEMMA AnswersAreTrue ==
  ASSUME FileInv, ReaderInv, ContentInv, GatherInv, Return
  PROVE  ContentInv' /\ GatherInv' /\ NothingIsMissed' /\ NothingIsInvented'
<1>1. /\ pc \in {"ready", "failed"} /\ pc' = "idle" /\ UNCHANGED fileVars /\ UNCHANGED <<call, began>>
      /\ answer'.status = IF pc = "ready" THEN "ok" ELSE "failed"
      /\ answer'.sb = Newest /\ answer'.commit = commit
  BY DEF Return
<1>2. answer'.steady => Newest = began.sb
  BY Zenon DEF Return
<1>3. pc = "ready" /\ call.limit = All =>
        answer'.found = IF call.tree = "accounts" THEN MergedAccounts ELSE MergedTransfers
  BY DEF Return
<1>4. Newest = copies[1] /\ call.tree \in Trees
  BY FirstIsNewest DEF FileInv, ReaderInv, ReaderTypes, Calls
<1>5. log' = log /\ commit' = commit /\ copies' = copies /\ grid' = grid /\ manifest' = manifest
  BY <1>1 DEF fileVars
<1>6. ContentInv' /\ GatherInv'
  BY <1>1, <1>5, ContentFrame DEF GatherInv, BeganEarlier, Gathering
<1>7. SUFFICES ASSUME Whole' PROVE NothingIsMissed' /\ NothingIsInvented'
  BY <1>6 DEF NothingIsMissed, NothingIsInvented
<1>8. answer'.status = "ok" /\ answer'.steady /\ call'.limit = All
  BY <1>7 DEF Whole, Answered
<1>9. pc = "ready" /\ call.limit = All /\ copies[1] = began.sb
  BY <1>1, <1>2, <1>4, <1>8 DEF All
<1>10. PICK found, s, m, c, t :
         /\ found = answer'.found /\ s = copies[1] /\ m = began.commit /\ c = commit /\ t = call.tree
  OBVIOUS
<1>11. MissesNothing(found, s, m, c) /\ InventsNothing(found, s, m, c)
  BY <1>3, <1>4, <1>9, <1>10, AccountsFound, TransfersFound DEF Trees
<1>12. /\ answer'.found = found /\ answer'.sb = s /\ began'.commit = m /\ answer'.commit = c
       /\ call' = call /\ call'.tree = t
  BY <1>1, <1>4, <1>10
<1>13. /\ \A tree, n : Created(tree, n)' = Created(tree, n)
       /\ \A tree, n : Objects(tree, 0, n)' = Objects(tree, 0, n)
       /\ \A op : Submitted(op)' = Submitted(op)
       /\ \A tree : Transient(s, tree)' <=> Transient(s, tree)
  BY <1>5 DEF Objects, Created, Object, Balance, Succeeds, Submitted, Transient, EntriesIn
<1>14. InWal(answer.commit)' = {log[n].id : n \in Logged(c)}
       /\ InWal(began.commit)' = {log[n].id : n \in Logged(m)}
  BY <1>5, <1>10, <1>12 DEF InWal, Logged
<1>15. Checkpointed' = Objects(t, 0, s.checkpoint)
  <2>1. PICK k : k = s.checkpoint
    OBVIOUS
  <2>2. Objects(t, 0, k)' = Objects(t, 0, k)
    BY <1>13
  <2>3. Checkpointed' = Objects(t, 0, k)'
    BY <1>12, <2>1 DEF Checkpointed, Objects
  <2> QED
    BY <2>1, <2>2, <2>3
<1>16. NothingIsMissed'
  <2>1. CASE t = "accounts"
    <3>1. \A n \in Created("accounts", m)' : \E r \in found : r.id = log[n].id
      BY <1>10, <1>11, <1>13, <2>1 DEF MissesNothing
    <3>2. \A n \in Created("accounts", began.commit)' : \E r \in found : r.id = log[n].id
      BY <1>12, <3>1 DEF Created
    <3> QED
      BY <1>5, <1>12, <2>1, <3>2 DEF NothingIsMissed
  <2>2. CASE t # "accounts"
    <3>1. \A o \in Objects(t, 0, s.checkpoint) :
            o.ts >= call.cutoff /\ o.id \notin {log[n].id : n \in Logged(c)} => o \in found
      BY <1>10, <1>11, <2>2 DEF MissesNothing
    <3> QED
      BY <1>12, <1>14, <1>15, <2>2, <3>1 DEF NothingIsMissed
  <2> QED
    BY <2>1, <2>2
<1>17. NothingIsInvented'
  <2>1. SUFFICES ASSUME ~Transient(answer.sb, call.tree)'
                 PROVE  /\ \A r \in found :
                             \/ r \in Checkpointed' /\ r.id \notin InWal(began.commit)'
                             \/ \E op \in (s.checkpoint + 1)..c : r = Submitted(op)'
                        /\ \A r, x \in found : r.id = x.id => r = x
    BY <1>12 DEF NothingIsInvented
  <2>2. ~Transient(s, t)
    <3>1. ~Transient(s, t)'
      BY <1>12, <2>1 DEF Transient
    <3> QED
      BY <1>13, <3>1
  <2>3. /\ \A r \in found :
             \/ r \in Objects(t, 0, s.checkpoint) /\ r.id \notin {log[n].id : n \in Logged(m)}
             \/ \E op \in (s.checkpoint + 1)..c : r = Submitted(op)
        /\ \A r, x \in found : r.id = x.id => r = x
    BY <1>10, <1>11, <2>2 DEF InventsNothing
  <2> QED
    BY <1>13, <1>14, <1>15, <2>3
<1> QED
  BY <1>6, <1>16, <1>17

\* A migration's answer ends a behaviour.
LEMMA WholeIsOver ==
  ASSUME Next, ~Return, ReaderTypes
  PROVE  ~Whole'
<1>1. CASE ~Over /\ Replica /\ UNCHANGED <<readerVars, began, answer>>
  <2>1. Whole' => Whole
    BY <1>1 DEF Whole, Answered, readerVars, All
  <2>2. Whole => Over
    BY DEF Whole, Answered, Over, MorePages, NoAnswer, All
  <2> QED
    BY <1>1, <2>1, <2>2
<1>2. CASE Read /\ UNCHANGED <<fileVars, began, answer>>
  <2>1. pc' # "idle"
    BY <1>2 DEF Read, ReadCopy, Use, NextSource, ReadManifest, LoadIndexBlock, LoadValueBlock, EndOfLsm,
                ReadHeader, ReadBody, EndOfWal, BlockIsWrong, Fail
  <2> QED
    BY <2>1 DEF Whole, Answered
<1>3. CASE \/ \E limit \in Limits :
                \/ ReadAccounts(limit) \/ ReadTransfers(limit)
                \/ ReadLsmAccounts(limit) \/ ReadLsmTransfers(limit)
                \/ ReadWalAccounts(limit) \/ ReadWalTransfers(limit)
           \/ ReadNextPage \/ ReadAllAccounts \/ ReadAllTransfersSince
  <2>1. \E c : Begin(c)
    BY <1>3 DEF ReadAccounts, ReadTransfers, ReadLsmAccounts, ReadLsmTransfers, ReadWalAccounts,
                ReadWalTransfers, ReadPage, ReadNextPage, ReadAllAccounts, ReadAllTransfersSince, ReadAll
  <2>2. pc' = "superblock"
    BY <2>1 DEF Begin, Open
  <2> QED
    BY <2>2 DEF Whole, Answered
<1> QED
  BY <1>1, <1>2, <1>3 DEF Next

(***************************************************************************)
(* 7. The theorems.                                                        *)
(***************************************************************************)

ReadInv == FileInv /\ ReaderInv /\ ContentInv /\ GatherInv /\ NothingIsMissed /\ NothingIsInvented

\* The empty file and the migration that has not begun satisfy the invariant.
LEMMA ReadInvInit ==
  ASSUME Init
  PROVE  ReadInv
<1>1. FileInit /\ ReaderInit /\ answer = NoAnswer /\ began.commit = 0 /\ FileInv /\ ReaderInv
  BY InvInit DEF Init
<1>2. ContentInv
  BY <1>1, ContentInitially
<1>3. GatherInv
  BY <1>1 DEF FileInit, ReaderInit, GatherInv, BeganEarlier, Gathering
<1>4. NothingIsMissed /\ NothingIsInvented
  BY <1>1 DEF NothingIsMissed, NothingIsInvented, Whole, Answered, NoAnswer
<1> QED
  BY <1>1, <1>2, <1>3, <1>4 DEF ReadInv

\* Every step of the replica and of the migration keeps the invariant.
LEMMA ReadInvNext ==
  ASSUME ReadInv, [Next]_vars
  PROVE  ReadInv'
<1>1. /\ FileInv /\ ReaderInv /\ ContentInv /\ GatherInv /\ NothingIsMissed /\ NothingIsInvented
      /\ ReaderTypes /\ FileInv' /\ ReaderInv'
  <2>1. FileInv /\ ReaderInv /\ ContentInv /\ GatherInv /\ NothingIsMissed /\ NothingIsInvented
        /\ ReaderTypes
    BY DEF ReadInv, ReaderInv
  <2> QED
    BY <2>1, InvNext
<1>2. CASE Return
  BY <1>1, <1>2, AnswersAreTrue DEF ReadInv
<1>3. CASE Next /\ ~Return
  <2>1. NothingIsMissed' /\ NothingIsInvented'
    BY <1>1, <1>3, WholeIsOver DEF NothingIsMissed, NothingIsInvented
  <2>2. ContentInv' /\ GatherInv'
    <3>1. CASE ~Over /\ Replica /\ UNCHANGED <<readerVars, began, answer>>
      BY <1>1, <3>1, ReplicaHolds, ReplicaGathers
    <3>2. CASE Read /\ UNCHANGED <<fileVars, began, answer>>
      BY <1>1, <3>2, ReadGathers
    <3>3. CASE \/ \E limit \in Limits :
                    \/ ReadAccounts(limit) \/ ReadTransfers(limit)
                    \/ ReadLsmAccounts(limit) \/ ReadLsmTransfers(limit)
                    \/ ReadWalAccounts(limit) \/ ReadWalTransfers(limit)
               \/ ReadNextPage \/ ReadAllAccounts \/ ReadAllTransfersSince
      BY <1>1, <3>3, CallsGather
    <3> QED
      BY <1>3, <3>1, <3>2, <3>3 DEF Next
  <2> QED
    BY <1>1, <2>1, <2>2 DEF ReadInv
<1>4. CASE UNCHANGED vars
  <2>1. /\ UNCHANGED <<fileVars, began, answer>> /\ UNCHANGED readerVars
    BY <1>4 DEF vars
  <2>2. /\ call' = call /\ pc' = pc /\ sb' = sb /\ iter' = iter /\ slot' = slot /\ out' = out
        /\ began' = began /\ answer' = answer /\ log' = log /\ grid' = grid /\ manifest' = manifest
        /\ copies' = copies /\ headers' = headers
    BY <2>1 DEF readerVars, fileVars
  <2>3. ContentInv' /\ BeganEarlier' /\ Due' = Due
        /\ (Justified' <=> Justified) /\ (\A k : WalUpto(k)' <=> WalUpto(k))
        /\ (\A o, v : HeldIn(v, o)' <=> HeldIn(v, o))
        /\ (\A o, a : HeldBy(a, o)' <=> HeldBy(a, o))
    BY <1>1, <2>1, <2>2, GatherFrame DEF GatherInv
  <2>4. Stage' <=> Stage
    BY <2>2 DEF Stage
  <2>5. LsmReading' <=> LsmReading
    BY <2>2, <2>3 DEF LsmReading
  <2>6. LsmRead' <=> LsmRead
    BY <2>2, <2>3 DEF LsmRead
  <2>7. WalRead' <=> WalRead
    <3>1. PICK k : k = slot
      OBVIOUS
    <3>2. WalUpto(slot)' <=> WalUpto(slot)
      <4>1. WalUpto(k)' <=> WalUpto(k)
        BY <2>3
      <4>2. WalUpto(slot)' <=> WalUpto(k)'
        BY <2>2, <3>1 DEF WalUpto
      <4> QED
        BY <3>1, <4>1, <4>2
    <3>3. WalUpto(SlotCount)' <=> WalUpto(SlotCount)
      BY <2>3
    <3>4. Matches(headers[slot])' <=> Matches(headers[slot])
      BY <2>2 DEF Matches
    <3> QED
      BY <2>2, <3>2, <3>3, <3>4 DEF WalRead
  <2>8. GatherInv'
    BY <1>1, <2>2, <2>3, <2>4, <2>5, <2>6, <2>7 DEF GatherInv, Gathering, All
  <2>9. /\ \A tree, n : Created(tree, n)' = Created(tree, n)
        /\ \A tree, n : Objects(tree, 0, n)' = Objects(tree, 0, n)
        /\ \A op : Submitted(op)' = Submitted(op)
        /\ Transient(answer.sb, call.tree)' <=> Transient(answer.sb, call.tree)
    BY <2>2 DEF Objects, Created, Object, Balance, Succeeds, Submitted, Transient, EntriesIn
  <2>10. Whole' <=> Whole
    BY <2>2 DEF Whole, Answered, All
  <2>11. Checkpointed' = Checkpointed
    BY <2>2 DEF Checkpointed, Objects, Created, Object, Balance, Succeeds
  <2>12. InWal(answer.commit)' = InWal(answer.commit) /\ InWal(began.commit)' = InWal(began.commit)
         /\ Created("accounts", began.commit)' = Created("accounts", began.commit)
    BY <2>2 DEF InWal, Created, Succeeds
  <2>13. NothingIsMissed' /\ NothingIsInvented'
    BY <1>1, <2>2, <2>9, <2>10, <2>11, <2>12 DEF NothingIsMissed, NothingIsInvented
  <2> QED
    BY <1>1, <2>3, <2>8, <2>13 DEF ReadInv
<1> QED
  BY <1>2, <1>3, <1>4

\* The invariant of the file and of its readers holds in every reachable state.
LEMMA ReadInvAlways == Spec => []ReadInv
<1>1. Init => ReadInv
  BY ReadInvInit
<1>2. ReadInv /\ [Next]_vars => ReadInv'
  BY ReadInvNext
<1> QED
  BY <1>1, <1>2, PTL DEF Spec

\* A migration reads every account that was committed when it began, from the LSM or from
\* the WAL, and every checkpointed transfer of its window, whatever the replica writes
\* meanwhile, if it does not write a superblock (read_all_accounts,
\* read_all_transfers_since).
THEOREM MigrationsMissNothing == Spec => []NothingIsMissed
<1>1. ReadInv => NothingIsMissed
  BY DEF ReadInv
<1> QED
  BY <1>1, ReadInvAlways, PTL

\* What it reads is the checkpoint's object or what was submitted to the WAL since, and
\* each id once.
THEOREM MigrationsInventNothing == Spec => []NothingIsInvented
<1>1. ReadInv => NothingIsInvented
  BY DEF ReadInv
<1> QED
  BY <1>1, ReadInvAlways, PTL

(***************************************************************************)
(* 8. Pages.                                                               *)
(***************************************************************************)

\* No table is moved and removed by one block of the manifest.
UpdatesStay ==
  \A i \in 1..writing.count : \A x, y \in ToSet(EntriesIn(i)) :
    x.event = "update" /\ y.event = "remove" /\ x.tree = y.tree => x.address # y.address

\* A table has one value block, and no object twice.
OneValue == \A a \in Addresses : grid[a] \in IndexBlocks => \E v \in Addresses : grid[a].values = {v}
NoTwins == \A a \in Addresses : grid[a] \in ValueBlocks => IsInjective(grid[a].objects)

Layout == UpdatesStay /\ OneValue /\ NoTwins

\* A table lists an object once.
LEMMA NoTwinsInTable ==
  ASSUME FileTypes, NEW t \in NewTableSet
  PROVE  IsInjective(TableObjects(t))
<1> DEFINE ops == Ascending(t.ops)
<1>1. t.ops \subseteq 1..Len(log) /\ Len(log) \in Nat
  BY DEF NewTableSet, FileTypes
<1>2. t.ops \subseteq Nat /\ IsFiniteSet(t.ops)
  <2>1. 1 \in Int /\ Len(log) \in Int
    BY <1>1
  <2>2. IsFiniteSet(1..Len(log)) /\ 1..Len(log) \subseteq Nat
    BY <2>1, FS_Interval
  <2> QED
    BY <1>1, <2>2, FS_Subset
<1>3. /\ DOMAIN ops = 1..Cardinality(t.ops)
      /\ \A i, j \in 1..Cardinality(t.ops) : ops[i] = ops[j] => i = j
  BY <1>2, AscendingLists
<1>4. TableObjects(t) = [i \in DOMAIN ops |-> Object(ops[i], t.upto)]
  BY DEF TableObjects
<1>5. \A n, m : Object(n, t.upto).ts = n
  BY DEF Object
<1> HIDE DEF ops
<1>6. \A i, j \in DOMAIN ops : TableObjects(t)[i] = TableObjects(t)[j] => i = j
  <2>1. TAKE i, j \in DOMAIN ops
  <2>2. TableObjects(t)[i].ts = ops[i] /\ TableObjects(t)[j].ts = ops[j]
    BY <1>4, <1>5
  <2> QED
    BY <1>3, <2>2
<1>7. DOMAIN TableObjects(t) = DOMAIN ops
  BY <1>4
<1> QED
  BY <1>6, <1>7 DEF IsInjective

\* A checkpoint that moves tables of transfers removes none of them.
LEMMA UpdatesStayOn ==
  ASSUME FileInv, UpdatesStay, StartCheckpoint
  PROVE  UpdatesStay'
<1>1. PICK how : CanCheckpoint(how)
  BY StartOfCheckpoint
<1>2. PICK L \in Nat :
        /\ L = Len(manifest) /\ writing.count = L /\ writing'.count = L + 1
        /\ \A i \in 1..L : EntriesIn(i)' = EntriesIn(i)
        /\ EntriesIn(L + 1)' = ManifestBlock(how, Places(how)).entries
  BY <1>1, ManifestGrows
<1>3. SUFFICES ASSUME NEW i \in 1..(L + 1), NEW x \in ToSet(EntriesIn(i)'), NEW y \in ToSet(EntriesIn(i)'),
                      x.event = "update", y.event = "remove", x.tree = y.tree, x.address = y.address
               PROVE  FALSE
  BY <1>2 DEF UpdatesStay
<1>4. CASE i \in 1..L
  <2>1. EntriesIn(i)' = EntriesIn(i) /\ i \in 1..writing.count
    BY <1>2, <1>4
  <2> QED
    BY <1>3, <2>1 DEF UpdatesStay
<1>5. CASE i = L + 1
  <2>1. EntriesIn(i)' = ManifestBlock(how, Places(how)).entries
    BY <1>2, <1>5
  <2>2. PICK t \in Moved(how) : x = Entry(t, "update")
    BY <1>1, <1>3, <2>1, NewEntries
  <2>3. PICK u \in Gone(how, Places(how)) : y = Entry(u, "remove")
    BY <1>1, <1>3, <2>1, NewEntries
  <2>4. how = "move" /\ t.tree = "transfers"
    BY <2>2 DEF Moved, Live
  <2>5. u.tree = "accounts"
    BY <2>3, <2>4 DEF Gone, Live
  <2> QED
    BY <1>3, <2>2, <2>3, <2>4, <2>5 DEF Entry
<1> QED
  BY <1>4, <1>5

\* The replica keeps the tables' layout.
LEMMA LayoutStays ==
  ASSUME FileInv, Layout, Replica
  PROVE  Layout'
<1>1. CASE StartCheckpoint
  <2>1. PICK how : CanCheckpoint(how)
    BY <1>1, StartOfCheckpoint
  <2>2. FileTypes /\ FileTypes'
    BY ReplicaSteps DEF FileInv
  <2>3. /\ NewTables(how) \in Seq(NewTableSet) /\ DOMAIN Places(how) = 1..Len(NewTables(how))
        /\ Places(how) \in Seq(Tables)
    BY <2>1, <2>2, PlacesAreFree
  <2>4. /\ grid'[NewAddress] = ManifestBlock(how, Places(how))
        /\ \A i \in DOMAIN Places(how) :
             /\ grid'[Places(how)[i].index] = [type |-> "index", values |-> {Places(how)[i].value}]
             /\ grid'[Places(how)[i].value] =
                  [type |-> "value", objects |-> TableObjects(NewTables(how)[i])]
        /\ \A a \in Addresses :
             \/ grid'[a] = grid[a] \/ a = NewAddress
             \/ \E i \in DOMAIN Places(how) : a = Places(how)[i].index \/ a = Places(how)[i].value
    BY <2>1, <2>2, CheckpointWrites
  <2>5. PICK g, p, n : g = grid' /\ p = Places(how) /\ n = NewTables(how)
    OBVIOUS
  <2>6. /\ \A i \in DOMAIN p : p[i] \in Tables
        /\ \A i \in DOMAIN p : n[i] \in NewTableSet
    BY <2>3, <2>5
  <2>7. \A i \in DOMAIN p : g[p[i].index].type = "index" /\ g[p[i].index].values = {p[i].value}
    <3>1. TAKE i \in DOMAIN p
    <3>2. g[p[i].index] = [type |-> "index", values |-> {p[i].value}]
      BY <2>4, <2>5
    <3> QED
      BY <3>2
  <2>8. \A i \in DOMAIN p : g[p[i].value].type = "value" /\ g[p[i].value].objects = TableObjects(n[i])
    <3>1. TAKE i \in DOMAIN p
    <3>2. g[p[i].value] = [type |-> "value", objects |-> TableObjects(n[i])]
      BY <2>4, <2>5
    <3> QED
      BY <3>2
  <2>9. g[NewAddress].type = "manifest"
    BY <2>4, <2>5 DEF ManifestBlock
  <2>10. \A a \in Addresses : \/ g[a] = grid[a] \/ a = NewAddress
                             \/ \E i \in DOMAIN p : a = p[i].index \/ a = p[i].value
    BY <2>4, <2>5
  <2>11. ASSUME NEW a \in Addresses
         PROVE  /\ g[a] \in IndexBlocks => \E v \in Addresses : g[a].values = {v}
                /\ g[a] \in ValueBlocks => IsInjective(g[a].objects)
    <3>1. CASE g[a] = grid[a]
      BY <3>1 DEF Layout, OneValue, NoTwins
    <3>2. CASE a = NewAddress
      BY <2>9, <3>2 DEF IndexBlocks, ValueBlocks
    <3>3. ASSUME NEW i \in DOMAIN p, a = p[i].index
          PROVE  /\ g[a] \in IndexBlocks => \E v \in Addresses : g[a].values = {v}
                 /\ g[a] \notin ValueBlocks
      <4>1. p[i].value \in Addresses
        BY <2>6 DEF Tables
      <4>2. g[a].type = "index" /\ g[a].values = {p[i].value}
        BY <2>7, <3>3
      <4> QED
        BY <4>1, <4>2 DEF ValueBlocks
    <3>4. ASSUME NEW i \in DOMAIN p, a = p[i].value
          PROVE  g[a] \notin IndexBlocks /\ IsInjective(g[a].objects)
      <4>1. n[i] \in NewTableSet
        BY <2>6
      <4>2. IsInjective(TableObjects(n[i]))
        BY <2>2, <4>1, NoTwinsInTable
      <4>3. g[a].type = "value" /\ g[a].objects = TableObjects(n[i])
        BY <2>8, <3>4
      <4> QED
        BY <4>2, <4>3 DEF IndexBlocks
    <3> QED
      BY <2>10, <3>1, <3>2, <3>3, <3>4
  <2>12. UpdatesStay'
    BY <1>1, UpdatesStayOn DEF Layout
  <2> QED
    BY <2>5, <2>11, <2>12 DEF Layout, OneValue, NoTwins
<1>2. CASE ~StartCheckpoint
  <2>1. grid' = grid /\ manifest' = manifest /\ writing' = writing
    BY <1>2 DEF Replica, Prepare, Commit, WriteCopy
  <2>2. \A i : EntriesIn(i)' = EntriesIn(i)
    BY <2>1 DEF EntriesIn
  <2> QED
    BY <2>1, <2>2 DEF Layout, UpdatesStay, OneValue, NoTwins
<1> QED
  BY <1>1, <1>2

\* A formatted file has neither tables nor manifest.
LEMMA LayoutInitially == FileInit => Layout
BY FileAssumption DEF FileInit, Formatted, Layout, UpdatesStay, OneValue, NoTwins, IndexBlocks,
   ValueBlocks, Addresses

\* A set with one element at most has no two.
LEMMA AtMostOne ==
  ASSUME NEW S, IsFiniteSet(S), Cardinality(S) <= 1, NEW a \in S, NEW b \in S
  PROVE  a = b
<1> SUFFICES ASSUME a # b PROVE FALSE
  OBVIOUS
<1>1. {a, b} \subseteq S /\ IsFiniteSet({a, b}) /\ Cardinality({a, b}) = 2
  <2>1. IsFiniteSet({a}) /\ Cardinality({a}) = 1
    BY FS_Singleton
  <2>2. {a, b} = {a} \cup {b} /\ b \notin {a}
    OBVIOUS
  <2> QED
    BY <2>1, <2>2, FS_AddElement
<1>2. Cardinality({a, b}) <= Cardinality(S) /\ Cardinality(S) \in Nat
  BY <1>1, FS_Subset, FS_CardinalityType
<1> QED
  BY <1>1, <1>2

\* What the reader takes for live is what the manifest has for live, unless a table came
\* and went: the first entry of a block that speaks of a table tells as much as the last.
LEMMA LiveByBothEnds ==
  ASSUME FileInv, Layout, NEW n \in 0..Len(manifest), NEW s, s.count = n,
         NEW tree \in Trees, ~Transient(s, tree)
  PROVE  LiveAt(n, tree) \subseteq LiveIn(s, tree)
<1>1. /\ Len(manifest) \in Nat /\ writing.count = Len(manifest) /\ n \in Nat /\ Blocks \in Nat
      /\ \A i \in 1..Len(manifest) : EntriesIn(i) \in Seq(ManifestEntries)
  BY FileAssumption DEF FileInv, FileTypes, Copying, ManifestIsLinked, EntriesIn, ManifestBlocks
<1>2. SUFFICES ASSUME NEW a \in LiveAt(n, tree) PROVE a \in LiveIn(s, tree)
  OBVIOUS
<1>3. PICK i \in 1..n, event \in {"insert", "update"} : Says(i, n, tree, a, event)
  BY <1>2 DEF LiveAt
<1>4. PICK es, N : es = EntriesIn(i) /\ N = Len(es)
  OBVIOUS
<1>5. i \in 1..Len(manifest) /\ es \in Seq(ManifestEntries) /\ N \in Nat /\ DOMAIN es = 1..N
  BY <1>1, <1>4
<1>6. PICK j \in 1..N : es[j].tree = tree /\ es[j].address = a /\ es[j].event = event
  BY <1>3, <1>4, <1>5 DEF Says, FirstMet
<1> DEFINE T == {k \in 1..N : es[k].tree = tree /\ es[k].address = a}
<1>7. PICK k \in T : \A m \in T : m <= k
  <2>1. T \subseteq 1..N /\ T # {}
    BY <1>6
  <2> HIDE DEF T
  <2> QED
    BY <1>5, <2>1, Greatest
<1>8. k \in 1..N /\ es[k].tree = tree /\ es[k].address = a
  BY <1>7
<1>9. es[j] \in ManifestEntries /\ es[k] \in ManifestEntries /\ es[j] \in ToSet(es) /\ es[k] \in ToSet(es)
  BY <1>5, <1>6, <1>8 DEF ToSet
<1>10. es[k].event # "remove"
  <2> SUFFICES ASSUME es[k].event = "remove" PROVE FALSE
    OBVIOUS
  <2>1. CASE event = "insert"
    BY <1>4, <1>6, <1>8, <1>9, <2>1 DEF Transient
  <2>2. CASE event = "update"
    BY <1>1, <1>4, <1>5, <1>6, <1>8, <1>9, <2>2 DEF Layout, UpdatesStay
  <2> QED
    BY <2>1, <2>2
<1>11. ~SpeaksAfter(i, k, a, tree)
  BY <1>4, <1>5, <1>7 DEF SpeaksAfter
<1>12. ASSUME NEW m \in (i + 1)..n PROVE ~SpeaksAfter(m, 0, a, tree)
  <2>1. ~Mentions(m, a, tree)
    BY <1>3, <1>12 DEF Says
  <2> QED
    BY <2>1 DEF Mentions, SpeaksAfter, ToSet
<1>13. a \in 1..Blocks
  BY <1>2 DEF LiveAt, Addresses
<1> QED
  BY <1>4, <1>5, <1>8, <1>10, <1>11, <1>12, <1>13 DEF LiveIn

\* So there is one table to a reader if there is one.
LEMMA OneTable ==
  ASSUME FileInv, ContentInv, Layout, NEW tree \in Trees,
         ~Transient(copies[1], tree), Cardinality(LiveIn(copies[1], tree)) <= 1,
         NEW a \in LiveAt(copies[1].count, tree), NEW b \in LiveAt(copies[1].count, tree)
  PROVE  a = b
<1>1. copies[1].count \in 0..Len(manifest) /\ Blocks \in Nat
  BY NewestTypes, FileAssumption DEF ContentInv
<1>2. LiveAt(copies[1].count, tree) \subseteq LiveIn(copies[1], tree)
  BY <1>1, LiveByBothEnds
<1>3. IsFiniteSet(LiveIn(copies[1], tree))
  <2>1. LiveIn(copies[1], tree) \subseteq 1..Blocks
    BY DEF LiveIn
  <2>2. 1 \in Int /\ Blocks \in Int
    BY <1>1
  <2>3. IsFiniteSet(1..Blocks)
    BY <2>2, FS_Interval
  <2> QED
    BY <2>1, <2>3, FS_Subset
<1> QED
  BY <1>2, <1>3, AtMostOne

\* The records of one order: a sequence that all pages are cut from.
Prefix(p, W) == p \in Seq(Records) /\ Len(p) <= Len(W) /\ \A i \in 1..Len(p) : p[i] = W[i]

\* The one table of a tree.
TableOf(W, tree) ==
  /\ LiveAt(copies[1].count, tree) = {} => W = <<>>
  /\ \A a \in LiveAt(copies[1].count, tree) : \A v \in grid[a].values : grid[v].objects = W

\* Of the slots before s, f[s] have a prepare that is read.
Pending(s, tree) ==
  headers[s] # 0 /\ log[headers[s]].kind = tree /\ headers[s] > copies[1].checkpoint
ScanStep(W, f, s, tree) ==
  /\ Pending(s, tree) => f[s + 1] = f[s] + 1 /\ W[f[s + 1]] = Submitted(headers[s])
  /\ ~Pending(s, tree) => f[s + 1] = f[s]
  /\ f[s + 1] <= Len(W)
Scan(W, f, tree) ==
  /\ f \in [0..SlotCount -> Nat] /\ f[0] = 0 /\ f[SlotCount] = Len(W)
  /\ \A s \in 0..(SlotCount - 1) : ScanStep(W, f, s, tree)

LoggedIn(tree, upto) == {op \in (copies[1].checkpoint + 1)..upto : log[op].kind = tree}
ToBeShown(tree, source) ==
  IF source = "lsm" THEN Objects(tree, 0, copies[1].checkpoint)
  ELSE {Submitted(op) : op \in LoggedIn(tree, commit)}

Order(W, f, tree, source) ==
  /\ W \in Seq(Records) /\ ToSet(W) = ToBeShown(tree, source)
  /\ source = "lsm" => IsInjective(W) /\ TableOf(W, tree)
  /\ source = "wal" => Scan(W, f, tree)

\* One table has what is due, each object once.
LEMMA TableOrder ==
  ASSUME FileInv, ContentInv, Layout, NEW tree \in Trees,
         ~Transient(copies[1], tree), Cardinality(LiveIn(copies[1], tree)) <= 1
  PROVE  \E W, f : Order(W, f, tree, "lsm")
<1> DEFINE live == LiveAt(copies[1].count, tree)
           due == Objects(tree, 0, copies[1].checkpoint)
<1>1. /\ \A o \in due : \E a \in live : HeldBy(a, o)
      /\ Sound(copies[1], tree)
  BY NewestHolds
<1>2. \A a \in live : Kept(a)
  <2>1. copies[1] \in {writing, Durable}
    BY FirstIsNewest DEF FileInv
  <2> QED
    BY <2>1, LiveIsKept
<1>3. \A a, b \in live : a = b
  BY OneTable
<1>4. live \subseteq Addresses
  BY DEF LiveAt
<1>5. ASSUME NEW W, W \in Seq(Records), ToSet(W) = due, IsInjective(W), TableOf(W, tree)
      PROVE  \E w, f : Order(w, f, tree, "lsm")
  <2>1. Order(W, <<>>, tree, "lsm")
    BY <1>5 DEF Order, ToBeShown
  <2> QED
    BY <2>1
<1>6. CASE live = {}
  <2>1. due = {}
    BY <1>1, <1>6
  <2>2. <<>> \in Seq(Records) /\ ToSet(<<>>) = {} /\ IsInjective(<<>>)
    BY DEF ToSet, IsInjective
  <2>3. TableOf(<<>>, tree)
    BY <1>6 DEF TableOf
  <2> QED
    BY <1>5, <2>1, <2>2, <2>3
<1>7. CASE live # {}
  <2>1. PICK a \in live : TRUE
    BY <1>7
  <2>2. Kept(a) /\ a \in Addresses /\ live = {a}
    BY <1>2, <1>3, <1>4, <2>1
  <2>3. PICK v \in Addresses : grid[a].values = {v}
    BY <2>2 DEF Kept, Layout, OneValue
  <2>4. grid[v] \in ValueBlocks
    BY <2>2, <2>3 DEF Kept
  <2>5. PICK W : W = grid[v].objects
    OBVIOUS
  <2>6. W \in Seq(Records) /\ IsInjective(W)
    BY <2>4, <2>5 DEF ValueBlocks, Layout, NoTwins
  <2>7. TableOf(W, tree)
    BY <2>2, <2>3, <2>5 DEF TableOf
  <2>8. ToSet(W) \subseteq due
    BY <1>1, <2>1, <2>3, <2>5 DEF Sound
  <2>9. due \subseteq ToSet(W)
    BY <1>1, <2>2, <2>3, <2>5 DEF HeldBy, HeldIn
  <2>10. ToSet(W) = due
    BY <2>8, <2>9
  <2> HIDE DEF due
  <2> QED
    BY <1>5, <2>6, <2>7, <2>10
<1> QED
  BY <1>6, <1>7

\* A sequence that grows by one record.
LEMMA PrefixGrows ==
  ASSUME NEW p \in Seq(Records), NEW r \in Records, NEW W \in Seq(Records)
  PROVE  /\ Prefix(Append(p, r), W) => Prefix(p, W) /\ W[Len(p) + 1] = r /\ Len(p) + 1 <= Len(W)
         /\ Prefix(p, W) /\ Len(p) + 1 <= Len(W) /\ W[Len(p) + 1] = r => Prefix(Append(p, r), W)
         /\ ToSet(Append(p, r)) = ToSet(p) \cup {r} /\ Append(p, r) \in Seq(Records)
         /\ Len(Append(p, r)) = Len(p) + 1
<1>1. PICK q, n : q = Append(p, r) /\ n = Len(p)
  OBVIOUS
<1>2. /\ q \in Seq(Records) /\ n \in Nat /\ Len(q) = n + 1 /\ q[n + 1] = r
      /\ \A i \in 1..n : q[i] = p[i]
  BY <1>1
<1>3. ToSet(q) = ToSet(p) \cup {r}
  <2>1. DOMAIN q = 1..(n + 1) /\ DOMAIN p = 1..n
    BY <1>1, <1>2
  <2>2. \A i \in 1..(n + 1) : i \in 1..n \/ i = n + 1
    BY <1>2
  <2>3. n + 1 \in 1..(n + 1) /\ 1..n \subseteq 1..(n + 1)
    BY <1>2
  <2> QED
    BY <1>2, <2>1, <2>2, <2>3 DEF ToSet
<1>4. Prefix(q, W) => Prefix(p, W) /\ W[n + 1] = r /\ n + 1 <= Len(W)
  BY <1>1, <1>2 DEF Prefix
<1>5. Prefix(p, W) /\ n + 1 <= Len(W) /\ W[n + 1] = r => Prefix(q, W)
  BY <1>1, <1>2 DEF Prefix
<1> QED
  BY <1>1, <1>2, <1>3, <1>4, <1>5

\* What a scan of the slots reads, in their order: every prepare since the checkpoint.
LEMMA ScanOrder ==
  ASSUME FileInv, ContentInv, NEW tree \in Trees
  PROVE  \E W, f : Order(W, f, tree, "wal")
<1>1. /\ SlotCount \in Nat /\ SlotCount > 0 /\ FileTypes
      /\ copies[1].checkpoint \in Nat /\ commit \in Nat /\ Len(log) \in Nat /\ commit <= Len(log)
  BY NewestTypes, FileAssumption DEF ContentInv, FileInv
<1>2. PICK N \in Nat : N = SlotCount /\ N > 0
  BY <1>1
<1>3. ASSUME NEW s \in 0..(N - 1), Pending(s, tree)
      PROVE  headers[s] \in LoggedIn(tree, commit) /\ Submitted(headers[s]) \in Records
  <2>1. headers[s] \in (copies[1].checkpoint + 1)..commit
    BY <1>2, <1>3, SlotHas DEF Pending
  <2>2. headers[s] \in 1..Len(log)
    BY <1>1, <2>1
  <2> QED
    BY <1>1, <1>3, <2>1, <2>2, SubmittedTypes DEF Pending, LoggedIn
<1> DEFINE step == [n \in 1..N |-> [w \in Seq(Records) |->
                      IF Pending(n - 1, tree) THEN Append(w, Submitted(headers[n - 1])) ELSE w]]
<1>4. step \in [1..N -> [Seq(Records) -> Seq(Records)]]
  <2>1. ASSUME NEW n \in 1..N, NEW w \in Seq(Records)
        PROVE  (IF Pending(n - 1, tree) THEN Append(w, Submitted(headers[n - 1])) ELSE w) \in Seq(Records)
    <3>1. n - 1 \in 0..(N - 1)
      BY <1>2
    <3>2. Pending(n - 1, tree) => Append(w, Submitted(headers[n - 1])) \in Seq(Records)
      BY <1>3, <3>1, PrefixGrows
    <3> QED
      BY <3>2
  <2> QED
    BY <2>1
<1>5. PICK g \in [0..N -> Seq(Records)] : Walks(g, N, <<>>, step)
  <2>1. <<>> \in Seq(Records)
    OBVIOUS
  <2> HIDE DEF step
  <2> QED
    BY <1>2, <1>4, <2>1, Recursion
<1>6. g[0] = <<>>
  BY <1>5 DEF Walks
<1>7. ASSUME NEW n \in 1..N
      PROVE  /\ n - 1 \in 0..(N - 1) /\ n \in 0..N /\ n - 1 \in 0..N
             /\ g[n] \in Seq(Records) /\ g[n - 1] \in Seq(Records)
             /\ Pending(n - 1, tree) => g[n] = Append(g[n - 1], Submitted(headers[n - 1]))
             /\ ~Pending(n - 1, tree) => g[n] = g[n - 1]
  <2>1. n - 1 \in 0..(N - 1) /\ n \in 0..N /\ n - 1 \in 0..N
    BY <1>2
  <2>2. g[n] \in Seq(Records) /\ g[n - 1] \in Seq(Records)
    BY <1>5, <2>1
  <2>3. g[n] = step[n][g[n - 1]]
    BY <1>5 DEF Walks
  <2>4. step[n][g[n - 1]] =
          IF Pending(n - 1, tree) THEN Append(g[n - 1], Submitted(headers[n - 1])) ELSE g[n - 1]
    BY <2>2
  <2> HIDE DEF step
  <2> QED
    BY <2>1, <2>2, <2>3, <2>4
<1> HIDE DEF step
<1>8. PICK W : W = g[N]
  OBVIOUS
<1>9. W \in Seq(Records)
  BY <1>2, <1>5, <1>8
\* What the scan has read of the first slots is the beginning of what it reads of all.
<1>10. \A n \in 0..N : Prefix(g[n], W)
  <2> DEFINE T == {n \in 0..N : Prefix(g[n], W)}
  <2>1. N \in T
    BY <1>2, <1>8, <1>9 DEF Prefix
  <2>2. \A n \in 1..N : n \in T => n - 1 \in T
    <3>1. SUFFICES ASSUME NEW n \in 1..N, Prefix(g[n], W) PROVE Prefix(g[n - 1], W)
      BY <1>7
    <3>2. CASE Pending(n - 1, tree)
      <4>1. PICK p \in Seq(Records), r \in Records : p = g[n - 1] /\ r = Submitted(headers[n - 1])
        BY <1>3, <1>7, <3>2
      <4>2. g[n] = Append(p, r)
        BY <1>7, <3>2, <4>1
      <4>3. Prefix(Append(p, r), W) => Prefix(p, W)
        BY <1>9, PrefixGrows
      <4> QED
        BY <3>1, <4>1, <4>2, <4>3
    <3>3. CASE ~Pending(n - 1, tree)
      BY <1>7, <3>1, <3>3
    <3> QED
      BY <3>2, <3>3
  <2>3. \A n \in 0..N : n \in T
    <3> HIDE DEF T
    <3> QED
      BY <1>2, <2>1, <2>2, Downwards
  <2> QED
    BY <2>3
<1> DEFINE f == [n \in 0..N |-> Len(g[n])]
<1>11. f \in [0..SlotCount -> Nat] /\ f[0] = 0 /\ f[SlotCount] = Len(W)
  <2>1. \A n \in 0..N : Len(g[n]) \in Nat
    BY <1>5
  <2>2. 0 \in 0..N /\ N \in 0..N
    BY <1>2
  <2> QED
    BY <1>2, <1>6, <1>8, <2>1, <2>2
<1>12. ASSUME NEW s \in 0..(SlotCount - 1) PROVE ScanStep(W, f, s, tree)
  <2>1. PICK n \in 1..N : n = s + 1 /\ s = n - 1
    BY <1>2
  <2>2. /\ f[s] = Len(g[s]) /\ f[s + 1] = Len(g[s + 1]) /\ g[s] \in Seq(Records)
        /\ s \in 0..(N - 1) /\ s + 1 \in 0..N
    BY <1>7, <2>1
  <2>3. Prefix(g[s + 1], W) /\ f[s + 1] <= Len(W)
    BY <1>10, <2>2 DEF Prefix
  <2>4. CASE Pending(s, tree)
    <3>1. g[s + 1] = Append(g[s], Submitted(headers[s])) /\ Submitted(headers[s]) \in Records
      BY <1>3, <1>7, <2>1, <2>2, <2>4
    <3>2. W[Len(g[s]) + 1] = Submitted(headers[s]) /\ Len(g[s + 1]) = Len(g[s]) + 1
      BY <1>9, <2>2, <2>3, <3>1, PrefixGrows
    <3> HIDE DEF f
    <3> QED
      BY <2>2, <2>3, <2>4, <3>2 DEF ScanStep
  <2>5. CASE ~Pending(s, tree)
    <3>1. g[s + 1] = g[s]
      BY <1>7, <2>1, <2>5
    <3> HIDE DEF f
    <3> QED
      BY <2>2, <2>3, <2>5, <3>1 DEF ScanStep
  <2> QED
    BY <2>4, <2>5
<1>13. Scan(W, f, tree)
  <2> HIDE DEF f
  <2> QED
    BY <1>11, <1>12 DEF Scan
<1> HIDE DEF f
\* It has read prepares since the checkpoint only, and all of them.
<1>14. ToSet(W) \subseteq ToBeShown(tree, "wal")
  <2> DEFINE T == {n \in 0..N : ToSet(g[n]) \subseteq ToBeShown(tree, "wal")}
  <2>1. 0 \in T
    BY <1>2, <1>6 DEF ToSet
  <2>2. \A n \in 1..N : n - 1 \in T => n \in T
    <3>1. SUFFICES ASSUME NEW n \in 1..N, ToSet(g[n - 1]) \subseteq ToBeShown(tree, "wal")
                   PROVE  ToSet(g[n]) \subseteq ToBeShown(tree, "wal")
      BY <1>7
    <3>2. CASE Pending(n - 1, tree)
      <4>1. Submitted(headers[n - 1]) \in ToBeShown(tree, "wal") /\ Submitted(headers[n - 1]) \in Records
        BY <1>3, <1>7, <3>2 DEF ToBeShown
      <4>2. ToSet(g[n]) = ToSet(g[n - 1]) \cup {Submitted(headers[n - 1])}
        <5>1. PICK p \in Seq(Records), r \in Records : p = g[n - 1] /\ r = Submitted(headers[n - 1])
          BY <1>7, <4>1
        <5>2. ToSet(Append(p, r)) = ToSet(p) \cup {r}
          BY <1>9, PrefixGrows
        <5> QED
          BY <1>7, <3>2, <5>1, <5>2
      <4> QED
        BY <3>1, <4>1, <4>2
    <3>3. CASE ~Pending(n - 1, tree)
      BY <1>7, <3>1, <3>3
    <3> QED
      BY <3>2, <3>3
  <2>3. \A n \in 0..N : n \in T
    <3> HIDE DEF T
    <3> QED
      BY <1>2, <2>1, <2>2, Upwards
  <2>4. N \in T
    BY <1>2, <2>3
  <2> QED
    BY <1>8, <2>4
<1>15. ToBeShown(tree, "wal") \subseteq ToSet(W)
  <2>1. SUFFICES ASSUME NEW op \in LoggedIn(tree, commit) PROVE Submitted(op) \in ToSet(W)
    BY DEF ToBeShown
  <2>2. op \in (copies[1].checkpoint + 1)..commit /\ log[op].kind = tree /\ op \in Nat /\ op > 0
    BY <1>1 DEF LoggedIn
  <2>3. PICK s : s = SlotOf(op)
    OBVIOUS
  <2>4. s \in 0..(N - 1) /\ headers[s] = op
    BY <1>1, <1>2, <2>2, <2>3, SlotHas, OneLap
  <2>5. Pending(s, tree)
    BY <1>1, <2>2, <2>4 DEF Pending
  <2>6. /\ f[s + 1] = f[s] + 1 /\ W[f[s + 1]] = Submitted(op) /\ f[s + 1] <= Len(W)
        /\ f[s] \in Nat
    BY <1>2, <1>11, <1>12, <2>4, <2>5 DEF ScanStep
  <2>7. f[s + 1] \in DOMAIN W
    BY <1>9, <2>6
  <2> QED
    BY <2>6, <2>7 DEF ToSet
<1>16. Order(W, f, tree, "wal")
  BY <1>9, <1>13, <1>14, <1>15 DEF Order
<1> QED
  BY <1>16

\* While the newest superblock stays, what it has for live stays and keeps its blocks.
LEMMA LiveStays ==
  ASSUME FileInv, Replica, copies'[1] = copies[1], NEW tree \in Trees, ~Transient(copies[1], tree),
         NEW n \in 0..Len(manifest), n = copies[1].count
  PROVE  /\ LiveAt(n, tree)' = LiveAt(n, tree)
         /\ \A a \in LiveAt(n, tree) : grid'[a] = grid[a] /\ \A v \in grid[a].values : grid'[v] = grid[v]
<1>1. LeavesBlocks /\ FileTypes
  BY ReplicaSteps DEF FileInv
<1>2. n \in Nat /\ \A i \in 1..n : EntriesIn(i)' = EntriesIn(i)
  <2>1. Len(manifest) \in Nat /\ n \in Nat /\ \A i \in 1..n : i \in 1..Len(manifest)
    BY <1>1 DEF FileTypes
  <2> QED
    BY <1>1, <2>1, LeavesEntries
<1>3. LiveAt(n, tree)' = LiveAt(n, tree)
  BY <1>2, SameEntries
<1>4. \A a \in LiveAt(copies[1].count, tree) : Kept(a)
  <2>1. copies[1] \in {writing, Durable}
    BY FirstIsNewest DEF FileInv
  <2> QED
    BY <2>1, LiveIsKept
<1>5. ASSUME NEW a \in LiveAt(n, tree)
      PROVE  a \in Addresses \ free /\ \A v \in grid[a].values : v \in Addresses \ free
  BY <1>4 DEF Kept, LiveAt, IndexBlocks
<1> QED
  BY <1>1, <1>3, <1>5 DEF LeavesBlocks

\* While nothing is committed, the slots have the prepares they had.
LEMMA PendingStays ==
  ASSUME FileInv, ContentInv, Replica, copies'[1] = copies[1], commit' = commit, NEW tree \in Trees
  PROVE  /\ headers' = headers
         /\ \A s \in 0..(SlotCount - 1) :
              /\ Pending(s, tree)' <=> Pending(s, tree)
              /\ Pending(s, tree) => Submitted(headers[s])' = Submitted(headers[s])
<1>1. /\ LogGrows /\ FileTypes /\ commit \in Nat /\ Len(log) \in Nat /\ commit <= Len(log)
  BY LogOfReplica, NewestTypes DEF ContentInv, FileInv
<1>2. PICK c \in 0..Len(log) : c = copies[1].checkpoint
  BY NewestTypes DEF ContentInv
<1>3. headers' = headers
  <2>1. ~Commit
    BY <1>1 DEF Commit
  <2> QED
    BY <2>1 DEF Replica, Prepare, StartCheckpoint, WriteCopy
<1>4. \A op \in (c + 1)..commit : op \in 1..Len(log)
  BY <1>1, <1>2
<1>5. \A op \in 1..Len(log) : log'[op] = log[op] /\ Submitted(op)' = Submitted(op)
  <2>1. Len(log) \in 0..Len(log)
    BY <1>1
  <2> QED
    BY <1>1, <2>1, SameLog DEF LogGrows
<1>6. ASSUME NEW s \in 0..(SlotCount - 1)
      PROVE  /\ Pending(s, tree)' <=> Pending(s, tree)
             /\ Pending(s, tree) => Submitted(headers[s])' = Submitted(headers[s])
  <2>1. PICK h : h = headers[s]
    OBVIOUS
  <2>2. headers'[s] = h
    BY <1>3, <2>1
  <2>3. h > c => h \in 1..Len(log)
    BY <1>2, <1>4, <2>1, SlotHas
  <2>4. h > c => log'[h] = log[h] /\ Submitted(h)' = Submitted(h)
    BY <1>5, <2>3
  <2>5. Pending(s, tree)' <=> Pending(s, tree)
    BY <1>2, <2>1, <2>2, <2>4 DEF Pending
  <2>6. Submitted(headers[s])' = Submitted(h)'
    BY <2>2 DEF Submitted
  <2> QED
    BY <1>2, <2>1, <2>4, <2>5, <2>6 DEF Pending
<1> QED
  BY <1>3, <1>6

\* A step of the replica that writes no superblock leaves the order as it is: of one table
\* in any case, of the slots if nothing is committed.
LEMMA OrderStays ==
  ASSUME FileInv, ContentInv, Replica, copies'[1] = copies[1],
         NEW tree \in Trees, NEW source \in {"lsm", "wal"}, NEW W, NEW f, Order(W, f, tree, source),
         source = "wal" => commit' = commit,
         source = "lsm" => ~Transient(copies[1], tree)
  PROVE  Order(W, f, tree, source)'
<1>1. /\ LogGrows /\ LeavesBlocks /\ FileTypes /\ commit \in Nat /\ Len(log) \in Nat /\ commit <= Len(log)
      /\ SlotCount \in Nat
  BY LogOfReplica, ReplicaSteps, NewestTypes, FileAssumption DEF ContentInv, FileInv
<1>2. PICK c \in 0..Len(log), n \in 0..Len(manifest) : c = copies[1].checkpoint /\ n = copies[1].count
  BY NewestTypes DEF ContentInv
<1>3. copies'[1].checkpoint = c /\ copies'[1].count = n
  BY <1>2
<1>4. W \in Seq(Records) /\ ToSet(W) = ToBeShown(tree, source)
  BY DEF Order
<1>5. CASE source = "lsm"
  <2>1. Objects(tree, 0, c)' = Objects(tree, 0, c)
    BY <1>1, <1>2, SameLog
  <2>2. ToBeShown(tree, source)' = ToBeShown(tree, source)
    BY <1>2, <1>3, <1>5, <2>1 DEF ToBeShown
  <2>3. /\ LiveAt(n, tree)' = LiveAt(n, tree)
        /\ \A a \in LiveAt(n, tree) : grid'[a] = grid[a] /\ \A v \in grid[a].values : grid'[v] = grid[v]
    BY <1>2, <1>5, LiveStays
  <2>4. TableOf(W, tree)'
    <3>1. /\ LiveAt(n, tree) = {} => W = <<>>
          /\ \A a \in LiveAt(n, tree) : \A v \in grid[a].values : grid[v].objects = W
      BY <1>2, <1>5 DEF Order, TableOf
    <3>2. /\ LiveAt(n, tree)' = {} => W = <<>>
          /\ \A a \in LiveAt(n, tree)' : \A v \in grid'[a].values : grid'[v].objects = W
      BY <2>3, <3>1
    <3> QED
      BY <1>3, <3>2 DEF TableOf, LiveAt
  <2> QED
    BY <1>4, <1>5, <2>2, <2>4 DEF Order
<1>6. CASE source = "wal"
  <2>1. headers' = headers /\ commit' = commit
    BY <1>6, PendingStays
  <2>2. \A op \in 1..Len(log) : log'[op] = log[op] /\ Submitted(op)' = Submitted(op)
    <3>1. Len(log) \in 0..Len(log)
      BY <1>1
    <3> QED
      BY <1>1, <3>1, SameLog DEF LogGrows
  <2>3. \A op \in (c + 1)..commit : op \in 1..Len(log)
    BY <1>1, <1>2
  <2>4. ToBeShown(tree, source)' = ToBeShown(tree, source)
    <3>1. LoggedIn(tree, commit)' = LoggedIn(tree, commit)
      BY <1>2, <1>3, <2>1, <2>2, <2>3 DEF LoggedIn
    <3>2. \A op \in LoggedIn(tree, commit) : Submitted(op)' = Submitted(op)
      BY <1>2, <2>2, <2>3 DEF LoggedIn
    <3> QED
      BY <1>6, <3>1, <3>2 DEF ToBeShown
  <2>5. ASSUME NEW s \in 0..(SlotCount - 1)
        PROVE  /\ Pending(s, tree)' <=> Pending(s, tree)
               /\ Pending(s, tree) => Submitted(headers[s])' = Submitted(headers[s])
    BY <1>6, PendingStays
  <2>6. Scan(W, f, tree)
    BY <1>6 DEF Order
  <2>7. ASSUME NEW s \in 0..(SlotCount - 1) PROVE ScanStep(W, f, s, tree)'
    BY <2>5, <2>6 DEF Scan, ScanStep
  <2>8. Scan(W, f, tree)'
    BY <2>6, <2>7 DEF Scan
  <2> QED
    BY <1>4, <1>6, <2>4, <2>8 DEF Order
<1> QED
  BY <1>5, <1>6

\* The order is the file's.
LEMMA OrderFrame ==
  ASSUME UNCHANGED fileVars
  PROVE  /\ \A W, f, tree, source : Order(W, f, tree, source)' <=> Order(W, f, tree, source)
         /\ \A s, tree : Pending(s, tree)' <=> Pending(s, tree)
         /\ \A op : Submitted(op)' = Submitted(op)
         /\ \A n, tree : LiveAt(n, tree)' = LiveAt(n, tree)
         /\ \A tree : Transient(copies[1], tree)' <=> Transient(copies[1], tree)
         /\ \A tree : LiveIn(copies[1], tree)' = LiveIn(copies[1], tree)
<1>1. /\ log' = log /\ commit' = commit /\ copies' = copies /\ grid' = grid
      /\ headers' = headers /\ manifest' = manifest
  BY DEF fileVars
<1>2. /\ \A i : EntriesIn(i)' = EntriesIn(i)
      /\ \A op : Submitted(op)' = Submitted(op)
  BY <1>1 DEF EntriesIn, Submitted
<1>3. \A n, tree : LiveAt(n, tree)' = LiveAt(n, tree)
  BY <1>1, <1>2 DEF LiveAt, Says, Mentions, Addresses
<1>4. \A s, tree : Pending(s, tree)' <=> Pending(s, tree)
  BY <1>1 DEF Pending
<1>5. \A tree, source : ToBeShown(tree, source)' = ToBeShown(tree, source)
  <2>1. PICK m : m = copies[1].checkpoint
    OBVIOUS
  <2>2. \A tree : Objects(tree, 0, m)' = Objects(tree, 0, m)
    BY <1>1 DEF Objects, Created, Object, Balance, Succeeds
  <2>3. \A tree : LoggedIn(tree, commit)' = LoggedIn(tree, commit)
    BY <1>1 DEF LoggedIn
  <2>4. copies'[1].checkpoint = m
    BY <1>1, <2>1
  <2> QED
    BY <1>2, <2>1, <2>2, <2>3, <2>4 DEF ToBeShown
<1>6. \A W, tree : TableOf(W, tree)' <=> TableOf(W, tree)
  <2>1. PICK n : n = copies[1].count
    OBVIOUS
  <2>2. \A tree : LiveAt(copies[1].count, tree)' = LiveAt(copies[1].count, tree)
    <3>1. copies'[1].count = n
      BY <1>1, <2>1
    <3> QED
      BY <1>3, <2>1, <3>1 DEF LiveAt
  <2> QED
    BY <1>1, <2>2 DEF TableOf
<1>7. \A W, f, tree : Scan(W, f, tree)' <=> Scan(W, f, tree)
  <2>1. \A W, f, s, tree : ScanStep(W, f, s, tree)' <=> ScanStep(W, f, s, tree)
    BY <1>1, <1>4, <1>2 DEF ScanStep
  <2> QED
    BY <2>1 DEF Scan
<1>8. \A W, f, tree, source : Order(W, f, tree, source)' <=> Order(W, f, tree, source)
  BY <1>5, <1>6, <1>7 DEF Order
<1>9. \A tree : LiveIn(copies[1], tree)' = LiveIn(copies[1], tree)
  BY <1>1, <1>2 DEF LiveIn, SpeaksAfter
<1>10. \A tree : Transient(copies[1], tree)' <=> Transient(copies[1], tree)
  BY <1>1, <1>2 DEF Transient
<1> QED
  BY <1>2, <1>3, <1>4, <1>8, <1>9, <1>10

(***************************************************************************)
(* 9. Pages in the making.                                                 *)
(***************************************************************************)

\* A client reads pages, and has read all that it asked for so far.
Browsing == call.limit # All /\ (pc # "idle" \/ answer.status = "ok")

OutShape == out = [lsm |-> out.lsm, wal |-> out.wal]

Browse ==
  /\ began.source \in {"lsm", "wal"}
  /\ pc \in {"manifest", "lsm"} => began.source = "lsm"
  /\ pc \in {"header", "body"} => began.source = "wal"

\* There is one order, from the first page on.
OneOrderNow ==
  IF began.source = "wal" THEN began.commit = commit
  ELSE Cardinality(LiveIn(copies[1], call.tree)) <= 1 /\ ~Transient(copies[1], call.tree)
Held == copies[1] = began.sb /\ OneOrderNow

\* The pages so far are the beginning of the order.
Given(W) ==
  /\ Prefix(answer.pages, W)
  /\ pc # "idle" => Len(answer.pages) = call.page * call.limit
  /\ pc = "idle" =>
       /\ answer.last \in 0..call.limit
       /\ Len(answer.pages) = call.page * call.limit + answer.last
       /\ answer.last # call.limit => Len(answer.pages) = Len(W)

\* Enough is read for the page.
Found(records, W) == Prefix(records, W) /\ (Len(records) = Len(W) \/ ~More(records))

LsmBefore(live) == out.lsm = <<>> /\ iter.tables = live /\ iter.values = {}
LsmWithin(live) == out.lsm = <<>> /\ iter.tables = {} /\ \E a \in live : iter.values = grid[a].values
LsmAfter(W) == out.lsm = W /\ iter.tables = {} /\ iter.values = {}

LsmProgress(W) ==
  /\ pc \in {"superblock", "manifest"} => out.lsm = <<>>
  /\ pc = "lsm" => \/ LsmBefore(LiveAt(copies[1].count, call.tree))
                   \/ LsmWithin(LiveAt(copies[1].count, call.tree))
                   \/ LsmAfter(W)
  /\ pc = "ready" => Found(out.lsm, W)

WalProgress(W, f) ==
  /\ pc = "superblock" => out.wal = <<>>
  /\ pc \in {"header", "body"} => Prefix(out.wal, W) /\ Len(out.wal) = f[slot]
  /\ pc = "body" => Pending(slot, call.tree)
  /\ pc = "ready" => Found(out.wal, W)

Progress(W, f) ==
  /\ Given(W)
  /\ began.source = "lsm" => LsmProgress(W)
  /\ began.source = "wal" => WalProgress(W, f)

\* What an answer says of the file was so.
AnswerKnown ==
  answer.status # "none" =>
    /\ answer.sb.checkpoint \in 0..Len(log) /\ answer.sb.count \in 0..Len(manifest)
    /\ answer.commit \in 0..Len(log)

PagesInv ==
  /\ OutShape /\ (Browsing => Browse) /\ AnswerKnown
  /\ Browsing /\ Held => \E W, f : Order(W, f, call.tree, began.source) /\ Progress(W, f)

\* A call for a page has one source and a page of a record at least.
LEMMA PageCalls ==
  ASSUME ReaderInv, Browsing, Browse
  PROVE  /\ call.sources = <<began.source>> /\ Head(call.sources) = began.source
         /\ Len(call.sources) = 1 /\ call.tree \in Trees /\ call.page \in Nat
         /\ call.limit \in Nat /\ call.limit > 0
<1>1. call \in Calls /\ call.limit # All /\ Limits \subseteq Nat \ {0}
  BY LimitsAssumption DEF ReaderInv, ReaderTypes, Browsing
<1>2. call.limit \in Nat /\ call.limit > 0 /\ call.tree \in Trees /\ call.page \in Nat
  <2>1. call.limit \in Limits \cup {1, All} /\ call.tree \in Trees /\ call.page \in Nat
    BY <1>1 DEF Calls
  <2>2. \A n : n \in Limits => n \in Nat /\ n > 0
    BY <1>1
  <2> QED
    BY <1>1, <2>1, <2>2
<1>3. call.sources = <<began.source>>
  <2>1. CASE pc # "idle"
    BY <1>1, <2>1 DEF ReaderInv, Reading
  <2>2. CASE pc = "idle"
    BY <1>1, <2>2 DEF ReaderInv, Answering, Browsing
  <2> QED
    BY <2>1, <2>2
<1> QED
  BY <1>2, <1>3

\* A read goes on with the call it is for.
LEMMA PageReads ==
  ASSUME ReaderInv, Browsing, Browse, Read, began' = began
  PROVE  /\ pc # "idle" /\ pc' # "idle" /\ call' = call /\ Browsing' /\ Browse'
<1>1. Len(call.sources) = 1 /\ Head(call.sources) = began.source
  BY PageCalls
<1>2. pc # "idle"
  BY DEF Read, ReadCopy, ReadManifest, LoadIndexBlock, LoadValueBlock, EndOfLsm, ReadHeader, ReadBody,
         EndOfWal
<1>3. /\ call' = call /\ pc' # "idle"
      /\ pc' \in {"manifest", "lsm"} => began.source = "lsm"
      /\ pc' \in {"header", "body"} => began.source = "wal"
  <2>1. CASE ReadCopy
    BY <1>1, <2>1, SMTT(30) DEF ReadCopy, Use, NextSource, Browse
  <2>2. CASE ReadManifest \/ LoadIndexBlock \/ LoadValueBlock
    BY <2>2 DEF ReadManifest, LoadIndexBlock, LoadValueBlock, BlockIsWrong, Fail, Browse
  <2>3. CASE EndOfLsm \/ EndOfWal
    BY <1>1, <2>3 DEF EndOfLsm, EndOfWal, NextSource, Browse
  <2>4. CASE ReadHeader \/ ReadBody
    BY <2>4 DEF ReadHeader, ReadBody, Browse
  <2> QED
    BY <2>1, <2>2, <2>3, <2>4 DEF Read
<1> QED
  BY <1>2, <1>3 DEF Browsing, Browse, All

\* A table of the order has one value block, and its objects are the order.
LEMMA TheTable ==
  ASSUME FileInv, ContentInv, Layout, NEW tree \in Trees, ~Transient(copies[1], tree),
         NEW W, TableOf(W, tree), NEW a \in LiveAt(copies[1].count, tree)
  PROVE  \E v \in Addresses : /\ grid[a].values = {v} /\ grid[v] \in ValueBlocks
                              /\ grid[v].objects = W
<1>1. Kept(a)
  <2>1. copies[1] \in {writing, Durable}
    BY FirstIsNewest DEF FileInv
  <2> QED
    BY <2>1, LiveIsKept
<1>2. a \in Addresses
  BY DEF LiveAt
<1>3. PICK v \in Addresses : grid[a].values = {v}
  BY <1>1, <1>2 DEF Kept, Layout, OneValue
<1>4. grid[v] \in ValueBlocks /\ grid[v].objects = W
  BY <1>1, <1>3 DEF Kept, TableOf
<1> QED
  BY <1>3, <1>4

\* The pages so far are not touched by a read.
LEMMA GivenStays ==
  ASSUME NEW W, Given(W), pc # "idle", pc' # "idle", call' = call, answer' = answer
  PROVE  Given(W)'
BY DEF Given, Prefix

\* Whole order, or enough of it.
LEMMA WholeIsFound ==
  ASSUME NEW W, W \in Seq(Records)
  PROVE  Found(W, W)
BY DEF Found, Prefix

\* Tables are read in order.
LEMMA LsmReads ==
  ASSUME FileInv, ReaderInv, ContentInv, Layout, OutShape, Browsing, Browse, Held, Read, ReaderInv',
         UNCHANGED <<fileVars, began, answer>>, began.source = "lsm",
         NEW W, NEW f, Order(W, f, call.tree, "lsm"), LsmProgress(W)
  PROVE  LsmProgress(W)'
<1>1. /\ pc # "idle" /\ pc' # "idle" /\ call' = call /\ call.tree \in Trees
      /\ Len(call.sources) = 1 /\ Head(call.sources) = "lsm"
      /\ call.limit \in Nat /\ call.limit > 0 /\ call.page \in Nat
  BY PageReads, PageCalls
<1>2. /\ copies[1] = began.sb /\ ~Transient(copies[1], call.tree)
      /\ Cardinality(LiveIn(copies[1], call.tree)) <= 1
  BY DEF Held, OneOrderNow
<1>3. W \in Seq(Records) /\ TableOf(W, call.tree)
  BY DEF Order
<1>4. PICK n \in Nat, tree \in Trees : n = copies[1].count /\ tree = call.tree
  BY <1>1, NewestTypes DEF ContentInv
<1>5. PICK live : live = LiveAt(n, tree)
  OBVIOUS
<1>6. /\ copies' = copies /\ grid' = grid /\ began' = began
      /\ LiveAt(n, tree)' = live
  BY <1>5, OrderFrame DEF fileVars
<1>7. LiveAt(copies[1].count, call.tree)' = live
  <2>1. copies'[1].count = n /\ call'.tree = tree
    BY <1>1, <1>4, <1>6
  <2> QED
    BY <1>6, <2>1 DEF LiveAt
<1>8. Found(W, W)
  BY <1>3, WholeIsFound
<1>9. live = {} => W = <<>>
  BY <1>3, <1>4, <1>5 DEF TableOf
<1>10. ASSUME NEW a \in live
       PROVE  live = {a} /\ \E v \in Addresses : /\ grid[a].values = {v} /\ grid[v] \in ValueBlocks
                                                 /\ grid[v].objects = W
  <2>1. \A b \in live : b = a
    BY <1>1, <1>2, <1>4, <1>5, OneTable
  <2>2. \E v \in Addresses : grid[a].values = {v} /\ grid[v] \in ValueBlocks /\ grid[v].objects = W
    BY <1>1, <1>2, <1>3, <1>4, <1>5, TheTable
  <2> QED
    BY <2>1, <2>2
<1>11. PICK l, w : out = [lsm |-> l, wal |-> w] /\ l = out.lsm
  BY DEF OutShape
<1>12. /\ pc \in {"superblock", "manifest"} => l = <<>>
       /\ pc = "lsm" => LsmBefore(live) \/ LsmWithin(live) \/ LsmAfter(W)
  BY <1>4, <1>5, <1>11 DEF LsmProgress
<1>13. SUFFICES /\ pc' \in {"superblock", "manifest"} => out'.lsm = <<>>
                /\ pc' = "lsm" => LsmBefore(live)' \/ LsmWithin(live)' \/ LsmAfter(W)'
                /\ pc' = "ready" => Found(out'.lsm, W)
  <2>1. /\ pc' \in {"superblock", "manifest"} => out'.lsm = <<>>
        /\ pc' = "lsm" => LsmBefore(live)' \/ LsmWithin(live)' \/ LsmAfter(W)'
        /\ pc' = "ready" => Found(out'.lsm, W)
    BY <1>13
  <2>2. pc' = "ready" => Found(out.lsm, W)'
    BY <1>1, <2>1 DEF Found, Prefix, More, Want, All
  <2>3. pc' = "lsm" => LsmBefore(LiveAt(copies[1].count, call.tree))'
                       \/ LsmWithin(LiveAt(copies[1].count, call.tree))' \/ LsmAfter(W)'
    BY <1>7, <2>1 DEF LsmBefore, LsmWithin
  <2> QED
    BY <2>1, <2>2, <2>3 DEF LsmProgress
<1>14. CASE ReadCopy
  <2> DEFINE best == IF Better(copies[copy]) THEN copies[copy] ELSE sb
  <2>1. /\ pc = "superblock" /\ out' = out
        /\ IF copy < Copies THEN pc' = pc ELSE Use(best)
    BY <1>14 DEF ReadCopy
  <2>2. copy < Copies \/ best = copies[1]
    <3>1. ReaderTypes /\ Electing
      BY <2>1, <1>2 DEF ReaderInv, Reading
    <3> QED
      BY <2>1, <3>1, <1>2, Election
  <2> HIDE DEF best
  <2>3. out'.lsm = <<>>
    BY <1>12, <1>11, <2>1
  <2>4. CASE pc' \in {"superblock", "manifest"}
    BY <2>3, <2>4
  <2>5. CASE pc' \notin {"superblock", "manifest"}
    <3>1. Use(best)
      BY <2>1, <2>5
    <3>2. best.count = 0 /\ pc' = "ready"
      BY <1>1, <2>5, <3>1 DEF Use, NextSource
    <3>3. n = 0
      BY <1>4, <2>1, <2>2, <2>5, <3>2
    <3>4. live = {}
      <4>1. 1..n = {}
        BY <3>3
      <4> QED
        BY <1>5, <4>1 DEF LiveAt
    <3>5. out'.lsm = W
      BY <1>9, <2>3, <3>4
    <3> QED
      BY <1>8, <3>2, <3>5
  <2> QED
    BY <2>4, <2>5
<1>15. CASE ReadManifest
  <2> DEFINE b == grid[walk.address]
             seen == Seen(walk.seen, b.entries)
             met == {s.address : s \in {x \in seen : x.event \in {"insert", "update"}}}
  <2>1. /\ pc = "manifest" /\ UNCHANGED out
        /\ \/ pc' = "failed"
           \/ pc' = "manifest"
           \/ pc' = "lsm" /\ b.previous = 0 /\ iter' = [NoIter EXCEPT !.tables = met]
    BY <1>15 DEF ReadManifest, Fail
  <2>2. out'.lsm = <<>>
    BY <1>11, <1>12, <2>1
  <2> HIDE DEF b, seen, met
  <2>3. ASSUME pc' = "lsm" PROVE LsmBefore(live)'
    <3>1. b.previous = 0 /\ iter' = [NoIter EXCEPT !.tables = met]
      BY <2>1, <2>3
    <3>2. iter'.tables = met /\ iter'.values = {}
      BY <3>1 DEF NoIter
    <3>3. PICK k \in Nat : /\ k = copies[1].count /\ seen \subseteq SeenTables
                           /\ \A i \in 1..k : EntriesIn(i) \in Seq(ManifestEntries)
                           /\ SeenFrom(seen, 0, k, call.tree)
      BY <1>2, <2>1, <3>1, WalkEnds DEF b, seen
    <3>4. live \subseteq met
      BY <1>4, <1>5, <3>3, WalkMeetsAll DEF met
    <3>5. met \subseteq live
      <4>1. (copies[1] = began.sb)'
        BY <1>2, <1>6
      <4>2. Electing' /\ Iterating'
        BY <1>1, <4>1 DEF ReaderInv, Reading
      <4>3. sb' = copies'[1]
        BY <2>3, <4>2 DEF Electing
      <4>4. sb'.count = n /\ call'.tree = tree /\ sb' = copies[1]
        BY <1>1, <1>4, <1>6, <4>3
      <4>5. ~Transient(sb, call.tree)'
        <5>1. ~Transient(copies[1], tree)'
          BY <1>2, <1>4, OrderFrame
        <5>2. Transient(sb, call.tree)' <=> Transient(copies[1], tree)'
          BY <4>3, <4>4 DEF Transient
        <5> QED
          BY <5>1, <5>2
      <4>6. LiveAt(sb.count, call.tree)' = live
        BY <1>6, <4>4 DEF LiveAt
      <4> QED
        BY <2>3, <3>2, <4>2, <4>5, <4>6 DEF Iterating
    <3>6. iter'.tables = live
      BY <3>2, <3>4, <3>5
    <3> QED
      BY <2>2, <3>2, <3>6 DEF LsmBefore
  <2> QED
    BY <2>1, <2>2, <2>3
<1>20. ASSUME pc = "lsm", NEW a \in live PROVE grid[a].type = "index"
  <2>1. sb.count = n /\ LiveAt(sb.count, call.tree) = live
    BY <1>2, <1>4, <1>5, <1>20, TablesAreReadable
  <2>2. Kept(a)
    BY <1>2, <1>20, <2>1, TablesAreReadable
  <2> QED
    BY <2>2 DEF Kept, IndexBlocks
<1>16. CASE LoadIndexBlock
  <2>1. pc = "lsm" /\ iter.values = {}
    BY <1>16 DEF LoadIndexBlock
  <2>2. PICK a \in iter.tables :
          IF grid[a].type # "index" THEN BlockIsWrong
          ELSE /\ iter' = [tables |-> iter.tables \ {a}, values |-> grid[a].values]
               /\ UNCHANGED <<pc, out>>
    BY <1>16 DEF LoadIndexBlock
  <2>4. LsmBefore(live)
    <3>1. ~LsmAfter(W)
      BY <2>2 DEF LsmAfter
    <3>2. ~LsmWithin(live)
      BY <2>2 DEF LsmWithin
    <3> QED
      BY <1>12, <2>1, <3>1, <3>2
  <2>5. a \in live /\ live = {a} /\ out.lsm = <<>> /\ iter.tables = live
    BY <1>10, <2>2, <2>4 DEF LsmBefore
  <2>3. /\ iter' = [tables |-> iter.tables \ {a}, values |-> grid[a].values]
        /\ pc' = "lsm" /\ out' = out
    BY <1>20, <2>1, <2>2, <2>5
  <2>6. iter'.tables = {} /\ iter'.values = grid'[a].values
    BY <1>6, <2>3, <2>5
  <2>7. LsmWithin(live)'
    BY <2>3, <2>5, <2>6 DEF LsmWithin
  <2> QED
    BY <2>3, <2>7
<1>17. CASE LoadValueBlock
  <2>1. pc = "lsm" /\ iter.values # {}
    BY <1>17 DEF LoadValueBlock
  <2>2. PICK v \in iter.values :
          IF grid[v].type # "value" THEN BlockIsWrong
          ELSE /\ out' = [out EXCEPT !.lsm = @ \o grid[v].objects]
               /\ iter' = [iter EXCEPT !.values = @ \ {v}]
               /\ pc' = pc
    BY <1>17 DEF LoadValueBlock
  <2>4. LsmWithin(live)
    BY <1>12, <2>1 DEF LsmBefore, LsmAfter
  <2>5. PICK a \in live : iter.values = grid[a].values
    BY <2>4 DEF LsmWithin
  <2>6. iter.values = {v} /\ grid[v] \in ValueBlocks /\ grid[v].objects = W /\ l = <<>>
        /\ iter.tables = {}
    BY <1>10, <1>11, <2>2, <2>4, <2>5 DEF LsmWithin
  <2>3. /\ out' = [out EXCEPT !.lsm = @ \o grid[v].objects]
        /\ iter' = [iter EXCEPT !.values = @ \ {v}] /\ pc' = "lsm"
    BY <2>1, <2>2, <2>6 DEF ValueBlocks
  <2>7. iter \in [tables : SUBSET Addresses, values : SUBSET Addresses]
    BY DEF ReaderInv, ReaderTypes
  <2>8. iter'.tables = {} /\ iter'.values = {}
    BY <2>3, <2>6, <2>7
  <2>9. out'.lsm = W
    <3>1. out'.lsm = <<>> \o W
      BY <1>11, <2>3, <2>6
    <3> QED
      BY <1>3, <3>1
  <2>10. LsmAfter(W)'
    BY <2>8, <2>9 DEF LsmAfter
  <2> QED
    BY <2>3, <2>10
<1>18. CASE EndOfLsm
  <2>1. pc = "lsm" /\ (More(out.lsm) => iter = NoIter) /\ out' = out /\ pc' = "ready"
    BY <1>1, <1>18 DEF EndOfLsm, NextSource, MoreLsm
  <2>2. SUFFICES Found(out.lsm, W)
    BY <2>1
  <2>3. out.lsm = <<>> => More(out.lsm)
    <3>1. /\ call.page * call.limit \in Nat
          /\ (call.page + 1) * call.limit = call.page * call.limit + call.limit
      BY <1>1
    <3>2. Len(<<>>) = 0 /\ (call.page + 1) * call.limit > 0
      BY <1>1, <3>1
    <3> QED
      BY <3>2 DEF More, Want
  <2>4. out.lsm = <<>> => iter.tables = {} /\ iter.values = {}
    BY <2>1, <2>3 DEF NoIter
  <2>5. CASE LsmBefore(live)
    <3>1. live = {} /\ out.lsm = <<>>
      BY <2>4, <2>5 DEF LsmBefore
    <3> QED
      BY <1>8, <1>9, <3>1
  <2>6. CASE LsmWithin(live)
    <3>1. PICK a \in live : grid[a].values = {}
      BY <2>4, <2>6 DEF LsmWithin
    <3> QED
      BY <1>10, <3>1
  <2>7. CASE LsmAfter(W)
    BY <1>8, <2>7 DEF LsmAfter
  <2> QED
    BY <1>12, <2>1, <2>5, <2>6, <2>7
<1>19. CASE ReadHeader \/ ReadBody \/ EndOfWal
  <2>1. pc \in {"header", "body"}
    BY <1>19 DEF ReadHeader, ReadBody, EndOfWal
  <2> QED
    BY <2>1 DEF Browse
<1> QED
  BY <1>14, <1>15, <1>16, <1>17, <1>18, <1>19 DEF Read

\* Slots are read in order.
LEMMA WalReads ==
  ASSUME FileInv, ReaderInv, ContentInv, OutShape, Browsing, Browse, Held, Read,
         UNCHANGED <<fileVars, began, answer>>, began.source = "wal",
         NEW W, NEW f, Order(W, f, call.tree, "wal"), WalProgress(W, f)
  PROVE  WalProgress(W, f)'
<1>1. /\ pc # "idle" /\ pc' # "idle" /\ call' = call /\ call.tree \in Trees
      /\ Len(call.sources) = 1 /\ Head(call.sources) = "wal"
  BY PageReads, PageCalls
<1>2. copies[1] = began.sb /\ SlotCount \in Nat /\ SlotCount > 0
  BY FileAssumption DEF Held
<1>3. /\ W \in Seq(Records) /\ f \in [0..SlotCount -> Nat] /\ f[0] = 0 /\ f[SlotCount] = Len(W)
      /\ \A s \in 0..(SlotCount - 1) : ScanStep(W, f, s, call.tree)
  BY DEF Order, Scan
<1>4. PICK tree \in Trees : tree = call.tree
  BY <1>1
<1>5. /\ headers' = headers /\ log' = log /\ bodies' = bodies /\ copies' = copies
      /\ \A s : Pending(s, tree)' <=> Pending(s, tree)
  BY OrderFrame DEF fileVars
<1>6. PICK l, w : out = [lsm |-> l, wal |-> w] /\ w = out.wal
  BY DEF OutShape
<1>7. /\ pc = "superblock" => w = <<>>
      /\ pc \in {"header", "body"} => Prefix(w, W) /\ Len(w) = f[slot]
      /\ pc = "body" => Pending(slot, tree)
  BY <1>4, <1>6 DEF WalProgress
<1>8. pc \in {"header", "body"} => sb = copies[1] /\ slot \in 0..SlotCount
  BY <1>2 DEF ReaderInv, ReaderTypes, Reading, Electing
<1>9. pc \in {"header", "body"} => (Matches(headers[slot]) <=> Pending(slot, tree))
  BY <1>4, <1>8 DEF Matches, Pending
<1>10. SUFFICES /\ pc' = "superblock" => out'.wal = <<>>
                /\ pc' \in {"header", "body"} => Prefix(out'.wal, W) /\ Len(out'.wal) = f[slot']
                /\ pc' = "body" => slot' = slot /\ Pending(slot, tree)
                /\ pc' = "ready" => Found(out'.wal, W)
  <2>1. /\ pc' = "superblock" => out'.wal = <<>>
        /\ pc' \in {"header", "body"} => Prefix(out'.wal, W) /\ Len(out'.wal) = f[slot']
        /\ pc' = "body" => slot' = slot /\ Pending(slot, tree)
        /\ pc' = "ready" => Found(out'.wal, W)
    BY <1>10
  <2>2. pc' = "ready" => Found(out.wal, W)'
    BY <1>1, <2>1 DEF Found, Prefix, More, Want, All
  <2>3. pc' = "body" => Pending(slot, call.tree)'
    BY <1>1, <1>4, <1>5, <2>1 DEF Pending
  <2>4. pc' \in {"header", "body"} => Prefix(out.wal, W)' /\ Len(out'.wal) = f[slot']
    BY <2>1 DEF Prefix
  <2> QED
    BY <2>1, <2>2, <2>3, <2>4 DEF WalProgress
<1>11. CASE ReadCopy
  <2>1. /\ pc = "superblock" /\ out' = out
        /\ pc' = "superblock" \/ (pc' = "header" /\ slot' = 0)
    BY <1>1, <1>11 DEF ReadCopy, Use
  <2>2. Prefix(<<>>, W) /\ Len(<<>>) = f[0]
    BY <1>3 DEF Prefix
  <2> QED
    BY <1>6, <1>7, <2>1, <2>2
<1>12. CASE ReadHeader
  <2>1. /\ pc = "header" /\ slot < SlotCount /\ out' = out /\ sb = copies[1]
        /\ \/ Pending(slot, tree) /\ pc' = "body" /\ slot' = slot
           \/ ~Pending(slot, tree) /\ pc' = "header" /\ slot' = slot + 1
    BY <1>8, <1>9, <1>12 DEF ReadHeader
  <2>2. slot \in 0..(SlotCount - 1)
    BY <1>2, <1>8, <2>1
  <2>3. ~Pending(slot, tree) => f[slot + 1] = f[slot]
    BY <1>3, <1>4, <2>2 DEF ScanStep
  <2> QED
    BY <1>6, <1>7, <2>1, <2>3
<1>13. CASE ReadBody
  <2>1. pc = "body" /\ pc' = "header" /\ slot' = slot + 1 /\ Pending(slot, tree)
    BY <1>7, <1>13 DEF ReadBody
  <2>2. slot \in 0..(SlotCount - 1)
    <3>1. slot < SlotCount
      BY <2>1 DEF ReaderInv, ReaderTypes
    <3> QED
      BY <1>2, <1>8, <2>1, <3>1
  <2>3. /\ headers[slot] \in (copies[1].checkpoint + 1)..commit /\ bodies[slot] = headers[slot]
    BY <2>1, <2>2, SlotHas DEF Pending
  <2>4. headers[slot] \in 1..Len(log)
    <3>1. copies[1].checkpoint \in Nat /\ commit \in Nat /\ Len(log) \in Nat /\ commit <= Len(log)
      BY NewestTypes DEF ContentInv
    <3> QED
      BY <2>3, <3>1
  <2>5. PICK r \in Records : r = Submitted(headers[slot]) /\ r = Submitted(bodies[slot])
    BY <2>3, <2>4, SubmittedTypes DEF FileInv
  <2>6. out'.wal = Append(w, r)
    <3>1. out' = [out EXCEPT !.wal = Append(@, Submitted(bodies[slot]))]
      BY <1>13 DEF ReadBody
    <3> QED
      BY <1>6, <2>5, <3>1
  <2>7. f[slot + 1] = f[slot] + 1 /\ W[f[slot + 1]] = r /\ f[slot + 1] <= Len(W)
    BY <1>3, <1>4, <2>1, <2>2, <2>5 DEF ScanStep
  <2>8. w \in Seq(Records) /\ Prefix(w, W) /\ Len(w) = f[slot]
    BY <1>7, <2>1 DEF Prefix
  <2>9. Prefix(Append(w, r), W) /\ Len(Append(w, r)) = f[slot + 1]
    BY <1>3, <2>7, <2>8, PrefixGrows
  <2> QED
    BY <2>1, <2>6, <2>9
<1>14. CASE EndOfWal
  <2>1. /\ pc = "header" /\ (slot = SlotCount \/ ~More(out.wal)) /\ pc' = "ready" /\ out' = out
    BY <1>1, <1>14 DEF EndOfWal, NextSource, MoreWal
  <2>2. Found(out.wal, W)
    BY <1>3, <1>6, <1>7, <2>1 DEF Found
  <2> QED
    BY <2>1, <2>2
<1>15. CASE ReadManifest \/ LoadIndexBlock \/ LoadValueBlock \/ EndOfLsm
  <2>1. pc \in {"manifest", "lsm"}
    BY <1>15 DEF ReadManifest, LoadIndexBlock, LoadValueBlock, EndOfLsm
  <2> QED
    BY <2>1 DEF Browse
<1> QED
  BY <1>11, <1>12, <1>13, <1>14, <1>15 DEF Read

\* A read goes on for the client it is for.
LEMMA StillBrowsing ==
  ASSUME ReaderInv, OutShape, Read
  PROVE  OutShape' /\ (Browsing' => Browsing)
<1>1. OutShape'
  <2>1. PICK l, w : out = [lsm |-> l, wal |-> w]
    BY DEF OutShape
  <2>2. out' = out \/ (\E x : out' = [out EXCEPT !.lsm = x]) \/ (\E x : out' = [out EXCEPT !.wal = x])
    BY DEF Read, ReadCopy, ReadManifest, LoadIndexBlock, LoadValueBlock, EndOfLsm, ReadHeader, ReadBody,
         EndOfWal, BlockIsWrong, Fail
  <2>3. \A x : /\ [out EXCEPT !.lsm = x] = [lsm |-> x, wal |-> w]
               /\ [out EXCEPT !.wal = x] = [lsm |-> l, wal |-> x]
    BY <2>1
  <2>4. \E x, y : out' = [lsm |-> x, wal |-> y]
    BY <2>1, <2>2, <2>3
  <2> QED
    BY <2>4 DEF OutShape
<1>2. pc \in {"superblock", "manifest", "lsm", "header", "body"}
  BY DEF Read, ReadCopy, ReadManifest, LoadIndexBlock, LoadValueBlock, EndOfLsm, ReadHeader, ReadBody,
         EndOfWal
<1>3. call' = call \/ NextSource
  BY DEF Read, ReadCopy, Use, ReadManifest, LoadIndexBlock, LoadValueBlock, EndOfLsm, ReadHeader,
         ReadBody, EndOfWal, BlockIsWrong, Fail
<1>4. call'.limit = call.limit
  <2>1. ReaderTypes /\ call.sources # <<>>
    BY <1>2 DEF ReaderInv, ReaderTypes
  <2> QED
    BY <1>3, <2>1, NextSourceTypes
<1> QED
  BY <1>1, <1>2, <1>4 DEF Browsing, All

\* A read keeps the pages' invariant.
LEMMA ReadPages ==
  ASSUME FileInv, ReaderInv, ContentInv, Layout, PagesInv, Read, UNCHANGED <<fileVars, began, answer>>,
         ReaderInv'
  PROVE  PagesInv'
<1>1. OutShape' /\ (Browsing' => Browsing) /\ OutShape
  BY StillBrowsing DEF PagesInv
<1>2. AnswerKnown'
  BY DEF PagesInv, AnswerKnown, fileVars
<1>3. SUFFICES ASSUME Browsing
               PROVE  /\ Browse'
                      /\ Held' => \E W, f : (Order(W, f, call.tree, began.source) /\ Progress(W, f))'
  <2>1. Browsing' =>
          /\ Browse'
          /\ Held' => \E W, f : (Order(W, f, call.tree, began.source) /\ Progress(W, f))'
    BY <1>1, <1>3
  <2> QED
    BY <1>1, <1>2, <2>1 DEF PagesInv
<1>4. Browse /\ pc # "idle" /\ pc' # "idle" /\ call' = call /\ Browse'
  BY <1>1, <1>3, PageReads DEF PagesInv
<1>5. PICK tree, source : tree = call.tree /\ source = began.source
  OBVIOUS
<1>6. /\ copies' = copies /\ commit' = commit /\ began' = began /\ answer' = answer
      /\ call'.tree = tree /\ began'.source = source
  BY <1>4, <1>5 DEF fileVars
<1>7. SUFFICES ASSUME Held'
               PROVE  \E W, f : Order(W, f, tree, source)' /\ Progress(W, f)'
  <2>1. Held' => \E W, f : Order(W, f, tree, source)' /\ Progress(W, f)'
    BY <1>7
  <2>2. \A W, f : Order(W, f, tree, source)' <=> Order(W, f, call.tree, began.source)'
    BY <1>6 DEF Order, ToBeShown, TableOf, Scan, ScanStep, Pending, LoggedIn
  <2> QED
    BY <1>4, <2>1, <2>2
<1>8. Held
  <2>1. Transient(copies[1], tree)' <=> Transient(copies[1], tree)
    BY OrderFrame
  <2>2. LiveIn(copies[1], tree)' = LiveIn(copies[1], tree)
    BY OrderFrame
  <2>3. /\ LiveIn(copies[1], call.tree)' = LiveIn(copies[1], tree)'
        /\ Transient(copies[1], call.tree)' <=> Transient(copies[1], tree)'
    BY <1>6 DEF LiveIn, Transient
  <2> QED
    BY <1>5, <1>6, <1>7, <2>1, <2>2, <2>3 DEF Held, OneOrderNow
<1>9. PICK W, f : Order(W, f, tree, source) /\ Progress(W, f)
  BY <1>3, <1>5, <1>8 DEF PagesInv
<1>10. Order(W, f, tree, source)'
  BY <1>9, OrderFrame
<1>11. Given(W)'
  BY <1>4, <1>6, <1>9, GivenStays DEF Progress
<1>12. source = "lsm" => LsmProgress(W)'
  BY <1>1, <1>3, <1>4, <1>5, <1>8, <1>9, LsmReads DEF Progress
<1>13. source = "wal" => WalProgress(W, f)'
  BY <1>1, <1>3, <1>4, <1>5, <1>8, <1>9, WalReads DEF Progress
<1>14. Progress(W, f)'
  BY <1>6, <1>11, <1>12, <1>13 DEF Progress
<1> QED
  BY <1>10, <1>14

\* What blocks of the manifest say depends on their entries only.
LEMMA SameLive ==
  ASSUME NEW n \in Nat, \A i \in 1..n : EntriesIn(i)' = EntriesIn(i), NEW s, s.count = n, NEW tree
  PROVE  /\ LiveIn(s, tree)' = LiveIn(s, tree)
         /\ Transient(s, tree)' <=> Transient(s, tree)
<1>1. \A i \in 1..n : \A j, a : SpeaksAfter(i, j, a, tree)' <=> SpeaksAfter(i, j, a, tree)
  BY DEF SpeaksAfter
<1>2. \A i \in 1..n : \A m \in (i + 1)..n : m \in 1..n
  OBVIOUS
<1> QED
  BY <1>1, <1>2 DEF LiveIn, Transient

\* The replica adds to log and manifest.
LEMMA ReplicaAdds ==
  ASSUME FileInv, ContentInv, Replica
  PROVE  /\ Len(log) \in Nat /\ Len(log') \in Nat /\ Len(log) <= Len(log') /\ LogGrows
         /\ Len(manifest) \in Nat /\ Len(manifest') \in Nat /\ Len(manifest) <= Len(manifest')
         /\ \A i \in 1..Len(manifest) : EntriesIn(i)' = EntriesIn(i)
<1>1. LogGrows /\ LeavesBlocks /\ FileTypes /\ FileTypes'
  BY LogOfReplica, ReplicaSteps DEF ContentInv, FileInv
<1>2. Len(log) \in Nat /\ Len(log') \in Nat /\ Len(manifest) \in Nat /\ Len(manifest') \in Nat
  BY <1>1 DEF FileTypes
<1>3. Len(manifest) <= Len(manifest')
  <2>1. manifest' = manifest \/ \E a : manifest' = Append(manifest, a)
    BY DEF Replica, Prepare, Commit, StartCheckpoint, Checkpoint, WriteCopy
  <2>2. manifest \in Seq(Addresses)
    BY <1>1 DEF FileTypes
  <2>3. \A a : Len(Append(manifest, a)) = Len(manifest) + 1
    BY <2>2
  <2> QED
    BY <1>2, <2>1, <2>3
<1> QED
  BY <1>1, <1>2, <1>3, LeavesEntries DEF LogGrows

\* A superblock that was the newest when the call began and still is has been it meanwhile.
LEMMA HeldSince ==
  ASSUME FileInv, ReaderInv, ContentInv, GatherInv, Replica, UNCHANGED <<call, began>>, Browse, Held'
  PROVE  /\ Held /\ copies'[1] = copies[1]
         /\ began.source = "wal" => commit' = commit
         /\ began.source = "lsm" => ~Transient(copies[1], call.tree)
<1>1. /\ copies'[1] = began.sb /\ copies[1] \in Superblocks
      /\ copies'[1] = copies[1] \/ copies[1].sequence < copies'[1].sequence
      /\ commit <= commit' /\ began.commit \in 0..commit /\ commit \in Nat
  BY LogOfReplica, ReplicaSteps, NewestTypes DEF Held, ContentInv, GatherInv, BeganEarlier
<1>2. commit' \in Nat
  BY ReplicaSteps DEF FileInv, FileTypes
<1>3. copies'[1] = copies[1]
  <2>1. began.sb \in Superblocks /\ began.sb.sequence <= copies[1].sequence
    BY DEF ReaderInv, BeganBefore
  <2>2. began.sb.sequence \in Nat /\ copies[1].sequence \in Nat
    BY <1>1, <2>1 DEF Superblocks
  <2> QED
    BY <1>1, <2>1, <2>2
<1>4. PICK s, tree, n : /\ s = copies[1] /\ tree = call.tree /\ n = s.count
                        /\ n \in 0..Len(manifest) /\ n \in Nat
  BY NewestTypes DEF ContentInv
<1>5. LiveIn(s, tree)' = LiveIn(s, tree) /\ (Transient(s, tree)' <=> Transient(s, tree))
  <2>1. \A i \in 1..n : EntriesIn(i)' = EntriesIn(i)
    <3>1. \A i \in 1..n : i \in 1..Len(manifest)
      BY <1>4, ReplicaAdds
    <3> QED
      BY <3>1, ReplicaAdds
  <2> QED
    BY <1>4, <2>1, SameLive
<1>6. /\ LiveIn(copies[1], call.tree)' = LiveIn(s, tree)'
      /\ Transient(copies[1], call.tree)' <=> Transient(s, tree)'
  <2>1. copies'[1] = s /\ call'.tree = tree
    BY <1>3, <1>4
  <2> QED
    BY <2>1 DEF LiveIn, Transient
<1>7. OneOrderNow'
  BY DEF Held
<1>8. CASE began.source = "wal"
  <2>1. began.commit = commit'
    BY <1>7, <1>8 DEF OneOrderNow
  <2>2. commit' = commit /\ began.commit = commit
    BY <1>1, <1>2, <2>1
  <2> QED
    BY <1>1, <1>3, <1>8, <2>2 DEF Held, OneOrderNow
<1>9. CASE began.source = "lsm"
  <2>1. Cardinality(LiveIn(s, tree)) <= 1 /\ ~Transient(s, tree)
    BY <1>5, <1>6, <1>7, <1>9 DEF OneOrderNow
  <2> QED
    BY <1>1, <1>3, <1>4, <1>9, <2>1 DEF Held, OneOrderNow
<1> QED
  BY <1>8, <1>9 DEF Browse

\* What the replica writes meanwhile does not disturb the pages.
LEMMA ReplicaPages ==
  ASSUME FileInv, ReaderInv, ContentInv, GatherInv, Layout, PagesInv, Replica,
         UNCHANGED <<readerVars, began, answer>>
  PROVE  PagesInv'
<1>1. /\ call' = call /\ pc' = pc /\ iter' = iter /\ slot' = slot /\ out' = out
      /\ began' = began /\ answer' = answer
  BY DEF readerVars
<1>2. OutShape' /\ (Browsing' <=> Browsing) /\ (Browse' <=> Browse)
  BY <1>1 DEF PagesInv, OutShape, Browsing, Browse, All
<1>3. AnswerKnown'
  <2>1. /\ Len(log) \in Nat /\ Len(log') \in Nat /\ Len(log) <= Len(log')
        /\ Len(manifest) \in Nat /\ Len(manifest') \in Nat /\ Len(manifest) <= Len(manifest')
    BY ReplicaAdds
  <2>2. 0..Len(log) \subseteq 0..Len(log') /\ 0..Len(manifest) \subseteq 0..Len(manifest')
    BY <2>1
  <2> QED
    BY <1>1, <2>2 DEF PagesInv, AnswerKnown
<1>4. SUFFICES ASSUME Browsing, Held'
               PROVE  \E W, f : (Order(W, f, call.tree, began.source) /\ Progress(W, f))'
  BY <1>2, <1>3 DEF PagesInv
<1>5. /\ Browse /\ Held /\ copies'[1] = copies[1]
      /\ began.source = "wal" => commit' = commit
      /\ began.source = "lsm" => ~Transient(copies[1], call.tree)
  <2>1. Browse
    BY <1>4 DEF PagesInv
  <2>2. UNCHANGED <<call, began>>
    BY <1>1
  <2> QED
    BY <1>4, <2>1, <2>2, HeldSince
<1>6. PICK tree \in Trees, source \in {"lsm", "wal"} : tree = call.tree /\ source = began.source
  BY <1>4, <1>5, PageCalls DEF Browse
<1>7. PICK W, f : Order(W, f, tree, source) /\ Progress(W, f)
  BY <1>4, <1>5, <1>6 DEF PagesInv
<1>8. Order(W, f, tree, source)'
  BY <1>5, <1>6, <1>7, OrderStays
<1>9. Order(W, f, call.tree, began.source)'
  <2>1. call'.tree = tree /\ began'.source = source
    BY <1>1, <1>6
  <2> QED
    BY <1>8, <2>1 DEF Order, ToBeShown, TableOf, Scan, ScanStep, Pending, LoggedIn
<1>10. Given(W)'
  BY <1>1, <1>7 DEF Progress, Given, Prefix
<1>11. ASSUME source = "lsm" PROVE LsmProgress(W)'
  <2>1. LsmProgress(W)
    BY <1>6, <1>7, <1>11 DEF Progress
  <2>2. PICK n \in 0..Len(manifest) : n = copies[1].count
    BY NewestTypes DEF ContentInv
  <2>3. PICK live : live = LiveAt(n, tree)
    OBVIOUS
  <2>4. LiveAt(n, tree)' = live /\ \A a \in live : grid'[a] = grid[a]
    BY <1>5, <1>6, <1>11, <2>2, <2>3, LiveStays
  <2>5. LiveAt(copies[1].count, call.tree)' = live
    <3>1. copies'[1].count = n /\ call'.tree = tree
      BY <1>1, <1>5, <1>6, <2>2
    <3> QED
      BY <2>4, <3>1 DEF LiveAt
  <2>6. pc = "lsm" => LsmBefore(live) \/ LsmWithin(live) \/ LsmAfter(W)
    BY <1>6, <2>1, <2>2, <2>3 DEF LsmProgress
  <2>7. pc = "lsm" => LsmBefore(live)' \/ LsmWithin(live)' \/ LsmAfter(W)'
    BY <1>1, <2>4, <2>6 DEF LsmBefore, LsmWithin, LsmAfter
  <2>8. pc = "lsm" => LsmBefore(LiveAt(copies[1].count, call.tree))'
                      \/ LsmWithin(LiveAt(copies[1].count, call.tree))' \/ LsmAfter(W)'
    BY <2>5, <2>7 DEF LsmBefore, LsmWithin
  <2>9. pc = "ready" => Found(out.lsm, W)'
    BY <1>1, <2>1 DEF LsmProgress, Found, Prefix, More, Want, All
  <2> QED
    BY <1>1, <2>1, <2>8, <2>9 DEF LsmProgress
<1>12. ASSUME source = "wal" PROVE WalProgress(W, f)'
  <2>1. WalProgress(W, f)
    BY <1>6, <1>7, <1>12 DEF Progress
  <2>2. pc = "body" => Pending(slot, call.tree)'
    <3> HAVE pc = "body"
    <3>1. PICK s : s = slot
      OBVIOUS
    <3>2. s \in 0..(SlotCount - 1)
      <4>1. slot \in 0..SlotCount /\ slot < SlotCount /\ SlotCount \in Nat
        BY OneLap DEF ReaderInv, ReaderTypes
      <4> QED
        BY <3>1, <4>1
    <3>3. Pending(s, tree)
      BY <1>6, <2>1, <3>1 DEF WalProgress
    <3>4. Pending(s, tree)'
      BY <1>5, <1>6, <1>12, <3>2, <3>3, PendingStays
    <3>5. slot' = s /\ call'.tree = tree
      BY <1>1, <1>6, <3>1
    <3> QED
      BY <3>4, <3>5 DEF Pending
  <2>3. pc = "ready" => Found(out.wal, W)'
    BY <1>1, <2>1 DEF WalProgress, Found, Prefix, More, Want, All
  <2>4. pc \in {"header", "body"} => Prefix(out.wal, W)' /\ Len(out'.wal) = f[slot']
    BY <1>1, <2>1 DEF WalProgress, Prefix
  <2> QED
    BY <1>1, <2>1, <2>2, <2>3, <2>4 DEF WalProgress
<1>13. Progress(W, f)'
  BY <1>1, <1>6, <1>10, <1>11, <1>12 DEF Progress
<1> QED
  BY <1>9, <1>13

\* A page begins where the last one ended.
LEMMA BeginPages ==
  ASSUME NEW c, Begin(c), answer' = answer, NEW W, NEW f, NEW tree, NEW source \in {"lsm", "wal"},
         Order(W, f, tree, source), c.tree = tree, began'.source = source,
         Prefix(answer.pages, W), Len(answer.pages) = c.page * c.limit
  PROVE  (Order(W, f, call.tree, began.source) /\ Progress(W, f))'
<1>1. /\ UNCHANGED fileVars /\ call' = c /\ pc' = "superblock" /\ out' = Nothing
  BY DEF Begin, Open
<1>2. Order(W, f, tree, source)'
  BY <1>1, OrderFrame
<1>3. Order(W, f, call.tree, began.source)'
  <2>1. call'.tree = tree /\ began'.source = source
    BY <1>1
  <2> QED
    BY <1>2, <2>1 DEF Order, ToBeShown, TableOf, Scan, ScanStep, Pending, LoggedIn
<1>4. Given(W)'
  BY <1>1 DEF Given, Prefix
<1>5. LsmProgress(W)' /\ WalProgress(W, f)'
  BY <1>1 DEF LsmProgress, WalProgress, Nothing
<1> QED
  BY <1>3, <1>4, <1>5 DEF Progress

\* The client's calls keep the pages' invariant.
LEMMA CallsPage ==
  ASSUME FileInv, ReaderInv, ContentInv, Layout, PagesInv,
         \/ \E limit \in Limits :
              \/ ReadAccounts(limit) \/ ReadTransfers(limit)
              \/ ReadLsmAccounts(limit) \/ ReadLsmTransfers(limit)
              \/ ReadWalAccounts(limit) \/ ReadWalTransfers(limit)
         \/ ReadNextPage \/ ReadAllAccounts \/ ReadAllTransfersSince
  PROVE  PagesInv'
<1>1. ASSUME NEW c, Begin(c), answer' = answer
      PROVE  OutShape' /\ AnswerKnown' /\ call' = c /\ pc' = "superblock"
  <2>1. UNCHANGED fileVars /\ out' = Nothing /\ call' = c /\ pc' = "superblock"
    BY <1>1 DEF Begin, Open
  <2> QED
    BY <1>1, <2>1 DEF PagesInv, OutShape, Nothing, AnswerKnown, fileVars
<1>2. ASSUME NEW limit \in Limits, NEW source \in {"lsm", "wal"}, NEW tree \in Trees,
             ReadPage(source, tree, limit)
      PROVE  PagesInv'
  <2>1. PICK c : c = [sources |-> <<source>>, tree |-> tree, page |-> 0, limit |-> limit, cutoff |-> 0]
    OBVIOUS
  <2>2. c.tree = tree /\ c.page = 0 /\ c.limit = limit
    BY <2>1
  <2>3. /\ Begin(c) /\ began' = [sb |-> Newest, commit |-> commit, source |-> source]
        /\ answer = NoAnswer /\ answer' = answer
    BY <1>2, <2>1 DEF ReadPage
  <2>4. began'.source = source /\ UNCHANGED fileVars
    BY <2>3 DEF Begin
  <2>5. OutShape' /\ AnswerKnown' /\ call' = c /\ pc' = "superblock"
    BY <1>1, <2>3
  <2>6. Browse'
    BY <2>4, <2>5 DEF Browse
  <2>7. ASSUME Held' PROVE \E W, f : Order(W, f, tree, source)
    <3>1. source = "lsm" => Cardinality(LiveIn(copies[1], tree)) <= 1 /\ ~Transient(copies[1], tree)
      <4> HAVE source = "lsm"
      <4>1. Cardinality(LiveIn(copies[1], call.tree)') <= 1 /\ ~Transient(copies[1], call.tree)'
        BY <2>4, <2>7 DEF Held, OneOrderNow
      <4>2. call'.tree = tree
        BY <2>2, <2>5
      <4>3. Cardinality(LiveIn(copies[1], tree)') <= 1 /\ ~Transient(copies[1], tree)'
        BY <4>1, <4>2 DEF LiveIn, Transient
      <4> QED
        BY <2>4, <4>3, OrderFrame
    <3> QED
      BY <3>1, TableOrder, ScanOrder
  <2>8. ASSUME Held' PROVE \E W, f : (Order(W, f, call.tree, began.source) /\ Progress(W, f))'
    <3>1. PICK W, f : Order(W, f, tree, source)
      BY <2>7, <2>8
    <3>2. W \in Seq(Records)
      BY <3>1 DEF Order
    <3>3. limit \in Nat /\ 0 * limit = 0 /\ Len(<<>>) = 0
      BY LimitsAssumption
    <3>4. answer.pages = <<>>
      BY <2>3 DEF NoAnswer
    <3>5. Prefix(answer.pages, W) /\ Len(answer.pages) = c.page * c.limit
      BY <2>2, <3>2, <3>3, <3>4 DEF Prefix
    <3>6. (Order(W, f, call.tree, began.source) /\ Progress(W, f))'
      BY <2>2, <2>3, <2>4, <3>1, <3>5, BeginPages
    <3> QED
      BY <3>6
  <2> QED
    BY <2>5, <2>6, <2>8 DEF PagesInv
<1>3. ASSUME NEW tree, NEW cutoff, ReadAll(tree, cutoff)
      PROVE  PagesInv'
  <2>1. PICK c : c = [sources |-> <<"lsm", "wal">>, tree |-> tree, page |-> 0, limit |-> All,
                      cutoff |-> cutoff]
    OBVIOUS
  <2>2. Begin(c) /\ answer' = answer /\ c.limit = All
    BY <1>3, <2>1 DEF ReadAll
  <2>3. OutShape' /\ AnswerKnown' /\ call' = c
    BY <1>1, <2>2
  <2>4. ~Browsing'
    BY <2>2, <2>3 DEF Browsing, All
  <2> QED
    BY <2>3, <2>4 DEF PagesInv
<1>4. CASE ReadNextPage
  <2>1. PICK c : c = [call EXCEPT !.page = @ + 1]
    OBVIOUS
  <2>2. /\ Begin(c) /\ began' = began /\ answer' = answer /\ call.limit # All /\ pc = "idle"
        /\ answer.status = "ok" /\ answer.last = call.limit
    BY <1>4, <2>1 DEF ReadNextPage, MorePages, Begin
  <2>3. UNCHANGED fileVars
    BY <2>2 DEF Begin
  <2>4. Browsing /\ Browse
    BY <2>2 DEF Browsing, PagesInv
  <2>5. call.page \in Nat /\ call.limit \in Nat /\ call.tree \in Trees
    BY <2>4, PageCalls
  <2>6. c.tree = call.tree /\ c.page = call.page + 1 /\ c.limit = call.limit
    <3>1. call \in Calls
      BY DEF ReaderInv, ReaderTypes
    <3> QED
      BY <2>1, <3>1 DEF Calls
  <2>7. OutShape' /\ AnswerKnown' /\ call' = c /\ pc' = "superblock"
    BY <1>1, <2>2
  <2>8. Browse'
    BY <2>2, <2>4, <2>7 DEF Browse
  <2>9. PICK tree, source : tree = call.tree /\ source = began.source
    OBVIOUS
  <2>10. ASSUME Held' PROVE Held
    <3>1. copies' = copies /\ commit' = commit /\ call'.tree = tree
      BY <2>3, <2>6, <2>7, <2>9 DEF fileVars
    <3>2. /\ LiveIn(copies[1], call.tree)' = LiveIn(copies[1], tree)'
          /\ Transient(copies[1], call.tree)' <=> Transient(copies[1], tree)'
      BY <3>1 DEF LiveIn, Transient
    <3>3. /\ LiveIn(copies[1], tree)' = LiveIn(copies[1], tree)
          /\ Transient(copies[1], tree)' <=> Transient(copies[1], tree)
      BY <2>3, OrderFrame
    <3> QED
      BY <2>2, <2>9, <2>10, <3>1, <3>2, <3>3 DEF Held, OneOrderNow
  <2>11. ASSUME Held' PROVE \E W, f : (Order(W, f, call.tree, began.source) /\ Progress(W, f))'
    <3>1. PICK W, f : Order(W, f, tree, source) /\ Progress(W, f)
      BY <2>4, <2>9, <2>10, <2>11 DEF PagesInv
    <3>2. Prefix(answer.pages, W) /\ Len(answer.pages) = call.page * call.limit + call.limit
      BY <2>2, <3>1 DEF Progress, Given
    <3>3. Len(answer.pages) = c.page * c.limit
      <4>1. (call.page + 1) * call.limit = call.page * call.limit + call.limit
        BY <2>5
      <4> QED
        BY <2>6, <3>2, <4>1
    <3>4. source \in {"lsm", "wal"} /\ began'.source = source /\ c.tree = tree
      BY <2>2, <2>4, <2>6, <2>9 DEF Browse
    <3>5. (Order(W, f, call.tree, began.source) /\ Progress(W, f))'
      BY <2>2, <3>1, <3>2, <3>3, <3>4, BeginPages
    <3> QED
      BY <3>5
  <2> QED
    BY <2>7, <2>8, <2>11 DEF PagesInv
<1>5. "accounts" \in Trees /\ "transfers" \in Trees
  BY DEF Trees
<1> QED
  BY <1>2, <1>3, <1>4, <1>5 DEF ReadAccounts, ReadTransfers, ReadLsmAccounts, ReadLsmTransfers,
       ReadWalAccounts, ReadWalTransfers, ReadAllAccounts, ReadAllTransfersSince

\* A concatenation has the one sequence and then the other.
LEMMA ConcatIs ==
  ASSUME NEW S, NEW s \in Seq(S), NEW t \in Seq(S)
  PROVE  /\ s \o t \in Seq(S) /\ Len(s \o t) = Len(s) + Len(t)
         /\ \A i \in 1..Len(s) : (s \o t)[i] = s[i]
         /\ \A i \in 1..Len(t) : (s \o t)[Len(s) + i] = t[i]
<1>1. s \o t \in Seq(S) /\ Len(s \o t) = Len(s) + Len(t)
  OBVIOUS
<1>2. \A i \in 1..Len(s) : (s \o t)[i] = s[i]
  OBVIOUS
<1>3. \A i \in 1..Len(t) : (s \o t)[Len(s) + i] = t[i]
  OBVIOUS
<1> QED
  BY <1>1, <1>2, <1>3

\* A part of a sequence.
LEMMA CutIs ==
  ASSUME NEW S, NEW r \in Seq(S), NEW k \in Nat, NEW m \in Nat, k <= m, m <= Len(r)
  PROVE  /\ SubSeq(r, k + 1, m) \in Seq(S) /\ Len(SubSeq(r, k + 1, m)) = m - k
         /\ \A i \in 1..(m - k) : SubSeq(r, k + 1, m)[i] = r[k + i]
<1>1. SubSeq(r, k + 1, m) \in Seq(S)
  OBVIOUS
<1>2. Len(SubSeq(r, k + 1, m)) = m - k
  OBVIOUS
<1>3. \A i \in 1..(m - k) : SubSeq(r, k + 1, m)[i] = r[k + i]
  OBVIOUS
<1> QED
  BY <1>1, <1>2, <1>3

\* A page of `limit` records at most, of those that come after the k-th.
Cut(r, k, limit) == SubSeq(r, k + 1, IF k + limit < Len(r) THEN k + limit ELSE Len(r))

\* After the pages p comes q, the last page if it is not full.
Follows(p, q, W, limit) ==
  /\ Prefix(p \o q, W) /\ Len(q) \in 0..limit /\ Len(p \o q) = Len(p) + Len(q)
  /\ Len(q) # limit => Len(p \o q) = Len(W)

\* A page is cut from the records that were read, where the pages so far end.
LEMMA PageIsCut ==
  ASSUME NEW p \in Seq(Records), NEW r \in Seq(Records), NEW W \in Seq(Records),
         Prefix(p, W), Prefix(r, W), NEW k \in Nat, NEW limit \in Nat, Len(p) = k,
         Len(r) = Len(W) \/ Len(r) >= k + limit
  PROVE  Follows(p, Cut(r, k, limit), W, limit)
<1>1. PICK n, w : n = Len(r) /\ w = Len(W)
  OBVIOUS
<1>2. /\ n \in Nat /\ w \in Nat /\ k <= w /\ n <= w /\ (n = w \/ n >= k + limit)
      /\ \A i \in 1..k : p[i] = W[i]
      /\ \A i \in 1..n : r[i] = W[i]
  BY <1>1 DEF Prefix
<1>3. PICK m \in Nat : /\ m = IF k + limit < n THEN k + limit ELSE n
                       /\ k <= m /\ m <= n /\ m <= k + limit /\ (m # k + limit => m = w)
  BY <1>2
<1>4. PICK q \in Seq(Records) : q = SubSeq(r, k + 1, m)
  <2>1. k <= m /\ m <= Len(r)
    BY <1>1, <1>3
  <2> QED
    BY <2>1, CutIs
<1>5. Len(q) = m - k /\ \A i \in 1..(m - k) : q[i] = r[k + i]
  <2>1. k <= m /\ m <= Len(r)
    BY <1>1, <1>3
  <2> QED
    BY <1>4, <2>1, CutIs
<1>6. PICK d \in Nat : d = m - k /\ m = k + d
  <2>1. m - k \in Nat /\ m = k + (m - k)
    BY <1>3
  <2> QED
    BY <2>1
<1>7. PICK g : g = p \o q
  OBVIOUS
<1>8. /\ g \in Seq(Records) /\ Len(g) = Len(p) + Len(q)
      /\ \A i \in 1..Len(p) : g[i] = p[i]
      /\ \A i \in 1..Len(q) : g[Len(p) + i] = q[i]
  <2>1. p \o q \in Seq(Records) /\ Len(p \o q) = Len(p) + Len(q)
    BY ConcatIs
  <2>2. \A i \in 1..Len(p) : (p \o q)[i] = p[i]
    BY ConcatIs
  <2>3. \A i \in 1..Len(q) : (p \o q)[Len(p) + i] = q[i]
    BY ConcatIs
  <2> QED
    BY <1>7, <2>1, <2>2, <2>3
<1>9. Len(g) = k + d /\ \A i \in 1..k : g[i] = p[i]
  BY <1>5, <1>6, <1>8
<1>10. \A i \in 1..d : g[k + i] = q[i]
  BY <1>5, <1>6, <1>8
<1>11. ASSUME NEW i \in 1..(k + d) PROVE g[i] = W[i]
  <2>1. CASE i <= k
    BY <1>2, <1>9, <2>1
  <2>2. CASE i > k
    <3>1. PICK j \in 1..d : i = k + j
      <4>1. i - k \in 1..d /\ i = k + (i - k)
        BY <2>2
      <4> QED
        BY <4>1
    <3>2. k + j \in 1..n
      BY <1>2, <1>3, <1>6, <3>1
    <3> QED
      BY <1>2, <1>5, <1>6, <1>10, <3>1, <3>2
  <2> QED
    BY <2>1, <2>2
<1>12. Prefix(g, W)
  <2>1. k + d <= w
    BY <1>2, <1>3, <1>6
  <2> QED
    BY <1>1, <1>8, <1>9, <1>11, <2>1 DEF Prefix
<1>13. Len(q) \in 0..limit /\ Len(g) = k + Len(q) /\ (Len(q) # limit => Len(g) = w)
  BY <1>2, <1>3, <1>5, <1>6, <1>9
<1>14. q = Cut(r, k, limit)
  BY <1>1, <1>3, <1>4 DEF Cut
<1> QED
  BY <1>1, <1>7, <1>12, <1>13, <1>14 DEF Follows

\* The page that is answered goes on where the pages so far end.
LEMMA PageIsGiven ==
  ASSUME FileInv, ReaderInv, ContentInv, PagesInv, Return, pc = "ready", call.limit # All, Held
  PROVE  \E W, f : Order(W, f, call.tree, began.source) /\ Given(W)'
<1>1. Browsing /\ Browse
  BY DEF Browsing, PagesInv
<1>2. PICK k \in Nat, limit \in Nat : /\ k = call.page * call.limit /\ limit = call.limit
                                      /\ (call.page + 1) * call.limit = k + limit
  <2>1. call.page \in Nat /\ call.limit \in Nat
    BY <1>1, PageCalls
  <2>2. /\ call.page * call.limit \in Nat
        /\ (call.page + 1) * call.limit = call.page * call.limit + call.limit
    BY <2>1
  <2> QED
    BY <2>1, <2>2
<1>3. PICK W, f : Order(W, f, call.tree, began.source) /\ Progress(W, f)
  BY <1>1 DEF PagesInv
<1>4. PICK records : records = IF began.source = "lsm" THEN out.lsm ELSE out.wal
  OBVIOUS
<1>5. Found(records, W) /\ Given(W)
  BY <1>1, <1>3, <1>4 DEF Progress, LsmProgress, WalProgress, Browse
<1>6. Prefix(records, W) /\ (Len(records) = Len(W) \/ ~(Len(records) < k + limit))
  BY <1>2, <1>5 DEF Found, More, Want
<1>7. PICK p : p = answer.pages
  OBVIOUS
<1>8. Prefix(p, W) /\ Len(p) = k
  BY <1>2, <1>5, <1>7 DEF Given
<1>9. p \in Seq(Records) /\ records \in Seq(Records) /\ W \in Seq(Records)
  BY <1>3, <1>6, <1>8 DEF Prefix, Order
<1>10. Len(records) = Len(W) \/ Len(records) >= k + limit
  <2>1. Len(records) \in Nat
    BY <1>9
  <2> QED
    BY <1>6, <2>1
<1>11. PICK q : q = Cut(records, k, limit)
  OBVIOUS
<1>12. Follows(p, q, W, limit) /\ PageOf(records) = q
  <2>1. Follows(p, Cut(records, k, limit), W, limit)
    BY <1>6, <1>8, <1>9, <1>10, PageIsCut
  <2> QED
    BY <1>2, <1>11, <2>1 DEF PageOf, Cut
<1>13. /\ answer'.pages = p \o q /\ answer'.last = Len(q) /\ call' = call /\ pc' = "idle"
  BY <1>4, <1>7, <1>12 DEF Return
<1>14. Given(W)'
  <2>1. /\ Prefix(p \o q, W) /\ Len(q) \in 0..limit /\ Len(p \o q) = k + Len(q)
        /\ Len(q) # limit => Len(p \o q) = Len(W)
    BY <1>8, <1>12 DEF Follows
  <2> QED
    BY <1>2, <1>13, <2>1 DEF Given, Prefix
<1> QED
  BY <1>3, <1>14

\* The answer keeps the pages' invariant, and its pages add up.
LEMMA ReturnPages ==
  ASSUME FileInv, ReaderInv, ContentInv, PagesInv, Return
  PROVE  PagesInv' /\ PagesAddUp'
<1>1. /\ pc \in {"ready", "failed"} /\ pc' = "idle" /\ UNCHANGED fileVars /\ UNCHANGED <<call, began>>
      /\ out' = Nothing /\ answer'.status = IF pc = "ready" THEN "ok" ELSE "failed"
      /\ answer'.sb = Newest /\ answer'.commit = commit
  BY DEF Return
<1>2. answer'.steady => Newest = began.sb
  BY Zenon DEF Return
<1>3. Newest = copies[1]
  BY FirstIsNewest DEF FileInv
<1>4. /\ call' = call /\ began' = began /\ copies' = copies /\ commit' = commit /\ log' = log
      /\ manifest' = manifest
  BY <1>1 DEF fileVars
<1>5. OutShape'
  BY <1>1 DEF OutShape, Nothing
<1>6. Browsing' => Browsing /\ Browse /\ Browse' /\ pc = "ready" /\ call.limit # All
  <2>1. Browsing' => Browsing /\ pc = "ready" /\ call.limit # All
    BY <1>1, <1>4 DEF Browsing, All
  <2>2. Browsing => Browse
    BY DEF PagesInv
  <2>3. Browse => Browse'
    BY <1>1, <1>4 DEF Browse
  <2> QED
    BY <2>1, <2>2, <2>3
<1>7. AnswerKnown'
  <2>1. /\ copies[1].checkpoint \in 0..Len(log) /\ copies[1].count \in 0..Len(manifest)
        /\ commit \in 0..Len(log)
    BY NewestTypes DEF ContentInv, FileInv, FileTypes
  <2> QED
    BY <1>1, <1>3, <1>4, <2>1 DEF AnswerKnown
<1>8. PICK s, tree, source : s = copies[1] /\ tree = call.tree /\ source = began.source
  OBVIOUS
<1>9. /\ answer'.sb = s /\ copies'[1] = s /\ call'.tree = tree /\ began'.source = source
  BY <1>1, <1>3, <1>4, <1>8
<1>10. /\ LiveIn(s, tree)' = LiveIn(s, tree) /\ (Transient(s, tree)' <=> Transient(s, tree))
  <2>1. \A i : EntriesIn(i)' = EntriesIn(i)
    BY <1>1 DEF EntriesIn, fileVars
  <2> QED
    BY <2>1 DEF LiveIn, Transient, SpeaksAfter
<1>11. \A W, f : Order(W, f, tree, source) => Order(W, f, call.tree, began.source)'
  <2>1. ASSUME NEW W, NEW f, Order(W, f, tree, source) PROVE Order(W, f, call.tree, began.source)'
    <3>1. Order(W, f, tree, source)'
      BY <1>1, <2>1, OrderFrame
    <3> QED
      BY <1>9, <3>1 DEF Order, ToBeShown, TableOf, Scan, ScanStep, Pending, LoggedIn
  <2> QED
    BY <2>1
<1>12. ASSUME Browsing', Held' PROVE \E W, f : (Order(W, f, call.tree, began.source) /\ Progress(W, f))'
  <2>1. Held
    <3>1. /\ LiveIn(copies[1], call.tree)' = LiveIn(s, tree)'
          /\ Transient(copies[1], call.tree)' <=> Transient(s, tree)'
      BY <1>9 DEF LiveIn, Transient
    <3> QED
      BY <1>4, <1>8, <1>10, <1>12, <3>1 DEF Held, OneOrderNow
  <2>2. PICK W, f : Order(W, f, tree, source) /\ Given(W)'
    BY <1>6, <1>8, <1>12, <2>1, PageIsGiven
  <2>3. LsmProgress(W)' /\ WalProgress(W, f)'
    BY <1>1 DEF LsmProgress, WalProgress
  <2>4. Order(W, f, call.tree, began.source)' /\ Progress(W, f)'
    BY <1>11, <2>2, <2>3 DEF Progress
  <2> QED
    BY <2>4
<1>13. PagesInv'
  BY <1>5, <1>6, <1>7, <1>12 DEF PagesInv
<1>14. ASSUME Answered', call.limit # All, OneOrder'
       PROVE  /\ ToSet(answer'.pages) \subseteq Shown'
              /\ began.source = "lsm" => IsInjective(answer'.pages)
              /\ answer'.last < call.limit => Shown' \subseteq ToSet(answer'.pages)
  <2>1. pc = "ready" /\ copies[1] = began.sb
    BY <1>1, <1>2, <1>3, <1>14 DEF Answered
  <2>2. Held
    <3>1. /\ LiveIn(answer.sb, call.tree)' = LiveIn(s, tree)'
          /\ Transient(answer.sb, call.tree)' <=> Transient(s, tree)'
      BY <1>9 DEF LiveIn, Transient
    <3> QED
      BY <1>1, <1>4, <1>8, <1>10, <1>14, <2>1, <3>1 DEF Held, OneOrder, OneOrderNow
  <2>3. PICK W, f : Order(W, f, tree, source) /\ Given(W)'
    BY <1>8, <1>14, <2>1, <2>2, PageIsGiven
  <2>4. PICK p, k, limit, last : p = answer'.pages /\ limit = call.limit /\ last = answer'.last /\ k = Len(p)
    OBVIOUS
  <2>5. /\ Prefix(p, W) /\ last \in 0..limit /\ (last # limit => k = Len(W))
    BY <1>1, <1>4, <2>3, <2>4 DEF Given, Prefix
  <2>6. /\ W \in Seq(Records) /\ p \in Seq(Records) /\ k \in Nat /\ k <= Len(W) /\ \A i \in 1..k : p[i] = W[i]
    BY <2>3, <2>4, <2>5 DEF Order, Prefix
  <2>7. /\ ToSet(p) \subseteq ToSet(W) /\ (IsInjective(W) => IsInjective(p))
        /\ k = Len(W) => ToSet(W) \subseteq ToSet(p)
    <3>1. DOMAIN p = 1..k /\ DOMAIN W = 1..Len(W) /\ 1..k \subseteq 1..Len(W)
      BY <2>4, <2>6
    <3>2. ToSet(p) \subseteq ToSet(W) /\ (k = Len(W) => ToSet(W) \subseteq ToSet(p))
      BY <2>6, <3>1 DEF ToSet
    <3>3. IsInjective(W) => IsInjective(p)
      BY <2>6, <3>1 DEF IsInjective
    <3> QED
      BY <3>2, <3>3
  <2>8. ToSet(W) = ToBeShown(tree, source) /\ (source = "lsm" => IsInjective(W))
    BY <2>3 DEF Order
  <2>9. ToBeShown(tree, source) = Shown'
    <3>1. PICK c : c = s.checkpoint
      OBVIOUS
    <3>2. Objects(tree, 0, c)' = Objects(tree, 0, c) /\ \A op : Submitted(op)' = Submitted(op)
      BY <1>4 DEF Objects, Created, Object, Balance, Succeeds, Submitted
    <3>3. Checkpointed' = Objects(tree, 0, c)'
      BY <1>9, <3>1 DEF Checkpointed, Objects
    <3>4. {Submitted(op) : op \in {n \in (answer.sb.checkpoint + 1)..answer.commit : log[n].kind = call.tree}}'
            = {Submitted(op) : op \in LoggedIn(tree, commit)}
      BY <1>1, <1>4, <1>8, <1>9, <3>2 DEF LoggedIn
    <3> QED
      BY <1>8, <1>9, <3>1, <3>2, <3>3, <3>4 DEF Shown, ToBeShown
  <2>10. last < limit => last # limit
    <3>1. limit \in Nat
      <4>1. Browsing /\ Browse
        BY <1>14, <2>1 DEF Browsing, PagesInv
      <4> QED
        BY <2>4, <4>1, PageCalls
    <3> QED
      BY <2>5, <3>1
  <2> QED
    BY <1>8, <2>4, <2>5, <2>7, <2>8, <2>9, <2>10
<1>15. PagesAddUp'
  <2>1. call'.limit = call.limit /\ began'.source = began.source
    BY <1>4
  <2> QED
    BY <1>14, <2>1 DEF PagesAddUp, All
<1> QED
  BY <1>13, <1>15

\* What was answered does not change by what the replica writes afterwards.
LEMMA AnsweredStays ==
  ASSUME FileInv, ContentInv, AnswerKnown, PagesAddUp, Replica, UNCHANGED <<readerVars, began, answer>>
  PROVE  PagesAddUp'
<1>1. call' = call /\ pc' = pc /\ began' = began /\ answer' = answer
  BY DEF readerVars
<1>2. SUFFICES ASSUME Answered', (call.limit # All)', OneOrder'
               PROVE  /\ ToSet(answer'.pages) \subseteq Shown'
                      /\ began'.source = "lsm" => IsInjective(answer'.pages)
                      /\ answer'.last < call'.limit => Shown' \subseteq ToSet(answer'.pages)
  BY DEF PagesAddUp
<1>3. Answered /\ call.limit # All /\ answer.status # "none"
  BY <1>1, <1>2 DEF Answered, All
<1>4. PICK s, m, tree : s = answer.sb /\ m = answer.commit /\ tree = call.tree
  OBVIOUS
<1>5. PICK c, n : c = s.checkpoint /\ n = s.count
  OBVIOUS
<1>6. /\ c \in 0..Len(log) /\ n \in 0..Len(manifest) /\ m \in 0..Len(log)
  BY <1>3, <1>4, <1>5 DEF AnswerKnown
<1>7. /\ Len(log) \in Nat /\ Len(manifest) \in Nat /\ LogGrows /\ FileTypes
      /\ \A i \in 1..Len(manifest) : EntriesIn(i)' = EntriesIn(i)
  BY ReplicaAdds DEF FileInv
<1>8. LiveIn(s, tree)' = LiveIn(s, tree) /\ (Transient(s, tree)' <=> Transient(s, tree))
  <2>1. n \in Nat /\ \A i \in 1..n : EntriesIn(i)' = EntriesIn(i)
    <3>1. n \in Nat /\ \A i \in 1..n : i \in 1..Len(manifest)
      BY <1>6, <1>7
    <3> QED
      BY <1>7, <3>1
  <2> QED
    BY <1>5, <2>1, SameLive
<1>9. OneOrder
  <2>1. /\ LiveIn(answer.sb, call.tree)' = LiveIn(s, tree)'
        /\ Transient(answer.sb, call.tree)' <=> Transient(s, tree)'
    <3>1. answer'.sb = s /\ call'.tree = tree
      BY <1>1, <1>4
    <3> QED
      BY <3>1 DEF LiveIn, Transient
  <2> QED
    BY <1>1, <1>2, <1>4, <1>8, <2>1 DEF OneOrder
<1>10. Shown' = Shown
  <2>1. Objects(tree, 0, c)' = Objects(tree, 0, c)
    BY <1>6, <1>7, SameLog
  <2>2. Checkpointed' = Checkpointed
    <3>1. Checkpointed' = Objects(tree, 0, c)'
      BY <1>1, <1>4, <1>5 DEF Checkpointed, Objects
    <3> QED
      BY <1>4, <1>5, <2>1, <3>1 DEF Checkpointed
  <2>3. \A op \in (c + 1)..m : log'[op] = log[op] /\ Submitted(op)' = Submitted(op)
    <3>1. \A op \in (c + 1)..m : op \in 1..Len(log)
      BY <1>6, <1>7
    <3>2. \A op \in 1..Len(log) : Submitted(op)' = Submitted(op)
      <4>1. Len(log) \in 0..Len(log)
        BY <1>7
      <4> QED
        BY <1>7, <4>1, SameLog
    <3> QED
      BY <1>7, <3>1, <3>2 DEF LogGrows
  <2>4. {Submitted(op) : op \in {i \in (answer.sb.checkpoint + 1)..answer.commit : log[i].kind = call.tree}}'
        = {Submitted(op) : op \in {i \in (answer.sb.checkpoint + 1)..answer.commit : log[i].kind = call.tree}}
    BY <1>1, <1>4, <1>5, <2>3
  <2> QED
    BY <1>1, <2>2, <2>4 DEF Shown
<1> QED
  BY <1>1, <1>3, <1>9, <1>10 DEF PagesAddUp

\* Nor does anything if nothing changes.
LEMMA PagesFrame ==
  ASSUME ReaderInv, PagesInv, PagesAddUp, UNCHANGED vars
  PROVE  PagesInv' /\ PagesAddUp'
<1>1. /\ UNCHANGED fileVars /\ answer' = answer /\ began' = began /\ call' = call /\ pc' = pc
      /\ iter' = iter /\ slot' = slot /\ out' = out
  BY DEF vars, readerVars
<1>2. /\ log' = log /\ commit' = commit /\ copies' = copies /\ grid' = grid /\ headers' = headers
      /\ manifest' = manifest
  BY <1>1 DEF fileVars
<1>3. PICK s, t, tree, source, n : /\ s = copies[1] /\ t = answer.sb /\ tree = call.tree
                                   /\ source = began.source /\ n = s.count
  OBVIOUS
<1>4. /\ copies'[1] = s /\ answer'.sb = t /\ call'.tree = tree /\ began'.source = source
      /\ copies'[1].count = n
  BY <1>1, <1>2, <1>3
<1>5. /\ \A x : LiveIn(x, tree)' = LiveIn(x, tree)
      /\ \A x : Transient(x, tree)' <=> Transient(x, tree)
  BY <1>2 DEF LiveIn, Transient, SpeaksAfter, EntriesIn
<1>6. /\ LiveIn(copies[1], call.tree)' = LiveIn(s, tree)'
      /\ Transient(copies[1], call.tree)' <=> Transient(s, tree)'
      /\ LiveIn(answer.sb, call.tree)' = LiveIn(t, tree)'
      /\ Transient(answer.sb, call.tree)' <=> Transient(t, tree)'
  BY <1>4 DEF LiveIn, Transient
<1>7. OutShape' /\ AnswerKnown' /\ (Browsing' <=> Browsing) /\ (Browse' <=> Browse) /\ (Held' <=> Held)
  <2>1. Held' <=> Held
    BY <1>1, <1>2, <1>3, <1>5, <1>6 DEF Held, OneOrderNow
  <2> QED
    BY <1>1, <1>2, <2>1 DEF PagesInv, OutShape, AnswerKnown, Browsing, Browse, All
<1>8. ASSUME Browsing, Held PROVE \E W, f : (Order(W, f, call.tree, began.source) /\ Progress(W, f))'
  <2>1. PICK W, f : Order(W, f, tree, source) /\ Progress(W, f)
    BY <1>3, <1>8 DEF PagesInv
  <2>2. Order(W, f, call.tree, began.source)'
    <3>1. Order(W, f, tree, source)'
      BY <1>1, <2>1, OrderFrame
    <3> QED
      BY <1>4, <3>1 DEF Order, ToBeShown, TableOf, Scan, ScanStep, Pending, LoggedIn
  <2>3. Given(W)'
    BY <1>1, <2>1 DEF Progress, Given, Prefix
  <2>4. \A r : Found(r, W)' <=> Found(r, W)
    BY <1>1 DEF Found, Prefix, More, Want, All
  <2>5. LsmProgress(W)' <=> LsmProgress(W)
    <3>1. PICK live : live = LiveAt(n, tree)
      OBVIOUS
    <3>2. LiveAt(n, tree)' = live
      BY <1>1, <3>1, OrderFrame
    <3>3. LiveAt(copies[1].count, call.tree)' = live
      BY <1>4, <3>2 DEF LiveAt
    <3>4. /\ LsmBefore(LiveAt(copies[1].count, call.tree))' <=> LsmBefore(live)
          /\ LsmWithin(LiveAt(copies[1].count, call.tree))' <=> LsmWithin(live)
          /\ LsmAfter(W)' <=> LsmAfter(W)
      BY <1>1, <1>2, <3>3 DEF LsmBefore, LsmWithin, LsmAfter
    <3>5. Found(out.lsm, W)' <=> Found(out.lsm, W)
      BY <1>1 DEF Found, Prefix, More, Want, All
    <3> QED
      BY <1>1, <1>3, <3>1, <3>4, <3>5 DEF LsmProgress
  <2>6. WalProgress(W, f)' <=> WalProgress(W, f)
    <3>1. Found(out.wal, W)' <=> Found(out.wal, W)
      BY <1>1 DEF Found, Prefix, More, Want, All
    <3>2. Pending(slot, call.tree)' <=> Pending(slot, call.tree)
      BY <1>1, <1>2 DEF Pending
    <3>3. Prefix(out.wal, W)' <=> Prefix(out.wal, W)
      BY <1>1 DEF Prefix
    <3> QED
      BY <1>1, <3>1, <3>2, <3>3 DEF WalProgress
  <2>7. Progress(W, f)'
    BY <1>1, <2>1, <2>3, <2>5, <2>6 DEF Progress
  <2> QED
    BY <2>2, <2>7
<1>9. PagesInv'
  BY <1>7, <1>8 DEF PagesInv
<1>10. PagesAddUp'
  <2>1. Checkpointed' = Checkpointed /\ \A op : Submitted(op)' = Submitted(op)
    BY <1>1, <1>2 DEF Checkpointed, Objects, Created, Object, Balance, Succeeds, Submitted
  <2>2. Shown' = Shown
    BY <1>1, <1>2, <2>1 DEF Shown
  <2>3. OneOrder' <=> OneOrder
    BY <1>1, <1>3, <1>5, <1>6 DEF OneOrder
  <2> QED
    BY <1>1, <2>2, <2>3 DEF PagesAddUp, Answered, All
<1> QED
  BY <1>9, <1>10

(***************************************************************************)
(* 10. The theorem about pages.                                            *)
(***************************************************************************)

\* The invariant of pages that are read one after the other.
PagingInv == ReadInv /\ Layout /\ PagesInv /\ PagesAddUp

\* No page is read yet.
LEMMA PagingInitially ==
  ASSUME Init
  PROVE  PagingInv
<1>1. /\ FileInit /\ ReaderInit /\ answer = NoAnswer
  BY DEF Init
<1>2. ReadInv /\ Layout
  BY <1>1, ReadInvInit, LayoutInitially
<1>3. OutShape
  BY <1>1 DEF ReaderInit, OutShape, Nothing
<1>4. ~Browsing /\ AnswerKnown /\ PagesAddUp
  BY <1>1 DEF ReaderInit, NoAnswer, Browsing, AnswerKnown, PagesAddUp, Answered
<1> QED
  BY <1>2, <1>3, <1>4 DEF PagingInv, PagesInv

\* Every step keeps it.
LEMMA PagingNext ==
  ASSUME PagingInv, [Next]_vars
  PROVE  PagingInv'
<1>1. ReadInv' /\ FileInv /\ ReaderInv /\ ContentInv /\ GatherInv /\ Layout /\ PagesInv /\ PagesAddUp
  BY ReadInvNext DEF PagingInv, ReadInv
<1>2. ReaderInv'
  BY <1>1 DEF ReadInv
<1>3. UNCHANGED fileVars => Layout'
  <2>1. UNCHANGED fileVars => grid' = grid /\ manifest' = manifest /\ writing' = writing
    BY DEF fileVars
  <2> QED
    BY <1>1, <2>1 DEF Layout, UpdatesStay, OneValue, NoTwins, EntriesIn
<1>4. CASE ~Over /\ Replica /\ UNCHANGED <<readerVars, began, answer>>
  <2>1. Layout'
    BY <1>1, <1>4, LayoutStays
  <2>2. PagesInv'
    BY <1>1, <1>4, ReplicaPages
  <2>3. PagesAddUp'
    BY <1>1, <1>4, AnsweredStays DEF PagesInv
  <2> QED
    BY <1>1, <2>1, <2>2, <2>3 DEF PagingInv
<1>5. CASE Read /\ UNCHANGED <<fileVars, began, answer>>
  <2>1. pc' # "idle"
    BY <1>5 DEF Read, ReadCopy, Use, NextSource, ReadManifest, LoadIndexBlock, LoadValueBlock, EndOfLsm,
                ReadHeader, ReadBody, EndOfWal, BlockIsWrong, Fail
  <2>2. PagesAddUp'
    BY <2>1 DEF PagesAddUp, Answered
  <2>3. PagesInv'
    BY <1>1, <1>2, <1>5, ReadPages
  <2> QED
    BY <1>1, <1>3, <1>5, <2>2, <2>3 DEF PagingInv
<1>6. CASE \/ \E limit \in Limits :
                \/ ReadAccounts(limit) \/ ReadTransfers(limit)
                \/ ReadLsmAccounts(limit) \/ ReadLsmTransfers(limit)
                \/ ReadWalAccounts(limit) \/ ReadWalTransfers(limit)
           \/ ReadNextPage \/ ReadAllAccounts \/ ReadAllTransfersSince
  <2>1. \E c : Begin(c)
    BY <1>6 DEF ReadAccounts, ReadTransfers, ReadLsmAccounts, ReadLsmTransfers, ReadWalAccounts,
                ReadWalTransfers, ReadPage, ReadNextPage, ReadAllAccounts, ReadAllTransfersSince, ReadAll
  <2>2. pc' = "superblock" /\ UNCHANGED fileVars
    BY <2>1 DEF Begin, Open
  <2>3. PagesAddUp'
    BY <2>2 DEF PagesAddUp, Answered
  <2>4. PagesInv'
    BY <1>1, <1>6, CallsPage
  <2> QED
    BY <1>1, <1>3, <2>2, <2>3, <2>4 DEF PagingInv
<1>7. CASE Return
  <2>1. UNCHANGED fileVars
    BY <1>7 DEF Return
  <2>2. PagesInv' /\ PagesAddUp'
    BY <1>1, <1>7, ReturnPages
  <2> QED
    BY <1>1, <1>3, <2>1, <2>2 DEF PagingInv
<1>8. CASE UNCHANGED vars
  <2>1. UNCHANGED fileVars
    BY <1>8 DEF vars
  <2> QED
    BY <1>1, <1>3, <1>8, <2>1, PagesFrame DEF PagingInv
<1> QED
  BY <1>4, <1>5, <1>6, <1>7, <1>8 DEF Next

\* The pages of accounts or transfers that a client reads one after the other show
\* nothing but records that are there, no checkpointed one twice, and all of them when a
\* short page ends them, as long as the file has one order for them and no superblock is
\* written (iter_accounts and iter_wal_accounts with skip and take in grpc_service.rs).
THEOREM PagesShowEachRecordOnce == Spec => []PagesAddUp
<1>1. Init => PagingInv
  BY PagingInitially
<1>2. PagingInv /\ [Next]_vars => PagingInv'
  BY PagingNext
<1>3. PagingInv => PagesAddUp
  BY DEF PagingInv
<1> QED
  BY <1>1, <1>2, <1>3, PTL DEF Spec

=============================================================================
