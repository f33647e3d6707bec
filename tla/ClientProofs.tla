---------------------------- MODULE ClientProofs ----------------------------
(***************************************************************************)
(* What is proved of the client (ClientRequests, AccountPaging), for any    *)
(* number of threads, requests and events, and any filters, with a paging   *)
(* stream on the shared client, whose limit the cluster can answer in full, *)
(* or without:                                                              *)
(*   - memory that is lent to tb_client is reclaimed once;                  *)
(*   - replies, merged, tell what became of every event;                    *)
(*   - the pages of a stream are contiguous, in order and complete;         *)
(*   - neither futures nor the stream panic;                                *)
(*   - identifiers that id() draws (TimeBasedId) increase.                  *)
(***************************************************************************)
EXTENDS AccountPaging, TimeBasedId, Induction, TLAPS

(***************************************************************************)
(* 1. Memory.                                                               *)
(***************************************************************************)

(***************************************************************************)
(* Where the client is in its life tells how many threads are about to     *)
(* deinit it and how often its box was freed; a packet was freed exactly   *)
(* when it is not lent any more; and once the box is freed nothing is      *)
(* lent, because nothing is submitted but by a client that is open.        *)
(***************************************************************************)

Lifecycle ==
  \/ client \in {"unopened", "open", "failed"} /\ deinits = 0 /\ boxFrees = 0
  \/ client = "closing" /\ deinits = 1 /\ boxFrees = 0
  \/ client = "closed"  /\ deinits = 0 /\ boxFrees = 1

Counted(r) ==
  /\ {"packet", "frees"} \subseteq DOMAIN r
  /\ \/ r.packet = "lent" /\ r.frees = 0
     \/ r.packet = "reclaimed" /\ r.frees = 1

Packets ==
  /\ DOMAIN requests = Slots
  /\ \A s \in Slots : requests[s] = Free \/ Counted(requests[s])

NothingIsLent == boxFrees = 1 => \A s \in Slots : requests[s].packet # "lent"

MemoryInv == Lifecycle /\ Packets /\ NothingIsLent

-----------------------------------------------------------------------------

\* Nothing has been lent.
LEMMA InitMemory == PagingInit => MemoryInv
  BY DEF PagingInit, Init, MemoryInv, Lifecycle, Packets, NothingIsLent, Free

\* A new packet is lent.
LEMMA SubmitStep ==
  ASSUME MemoryInv, NEW t, NEW op, NEW kind, NEW events, Submit(t, op, kind, events)
  PROVE  MemoryInv'
<1>1. PICK s \in Slots : requests' = [requests EXCEPT ![s] = CreatePacket(t, op, kind, events)]
  BY DEF Submit
<1>2. Counted(CreatePacket(t, op, kind, events))
  BY DEF Counted, CreatePacket
<1>3. Packets'
  BY <1>1, <1>2 DEF MemoryInv, Packets
<1>4. client = "open" /\ UNCHANGED clientVars
  BY DEF Submit
<1>5. boxFrees' = 0 /\ Lifecycle'
  BY <1>4 DEF MemoryInv, Lifecycle, clientVars
<1> QED
  BY <1>3, <1>5 DEF MemoryInv, NothingIsLent

\* The callback takes back what was lent, and frees it.
LEMMA CompletionStep ==
  ASSUME MemoryInv, NEW s \in Slots, NEW status, NEW result, OnCompletion(s, status, result),
         UNCHANGED clientVars
  PROVE  MemoryInv'
<1>1. requests[s] # Free /\ Counted(requests[s]) /\ requests[s].frees = 0
  BY DEF OnCompletion, Free, MemoryInv, Packets, Counted
<1>2. DOMAIN requests' = Slots /\ \A u \in Slots \ {s} : requests'[u] = requests[u]
  BY DEF OnCompletion, MemoryInv, Packets
<1>3. /\ {"packet", "frees"} \subseteq DOMAIN requests'[s]
      /\ requests'[s].packet = "reclaimed" /\ requests'[s].frees = 1
  BY <1>1 DEF OnCompletion, MemoryInv, Packets, Counted
<1>4. Packets'
  BY <1>2, <1>3 DEF MemoryInv, Packets, Counted
<1>5. Lifecycle'
  BY DEF MemoryInv, Lifecycle, clientVars
<1>6. NothingIsLent'
  BY <1>2, <1>3 DEF MemoryInv, NothingIsLent, clientVars
<1> QED
  BY <1>4, <1>5, <1>6 DEF MemoryInv

\* Steps that leave packets where they are.
LEMMA PacketsStay ==
  ASSUME MemoryInv, UNCHANGED clientVars, DOMAIN requests' = Slots,
         \A s \in Slots : \/ requests'[s] = requests[s]
                          \/ /\ requests[s] # Free
                             /\ DOMAIN requests'[s] = DOMAIN requests[s]
                             /\ requests'[s].packet = requests[s].packet
                             /\ requests'[s].frees = requests[s].frees
  PROVE  MemoryInv'
<1>1. Packets'
  BY DEF MemoryInv, Packets, Counted
<1>2. Lifecycle' /\ NothingIsLent'
  BY DEF MemoryInv, Lifecycle, NothingIsLent, clientVars
<1> QED
  BY <1>1, <1>2 DEF MemoryInv

\* An answer leaves the packet as it is.
LEMMA AwaitStep ==
  ASSUME MemoryInv, NEW s \in Slots, Await(s)
  PROVE  MemoryInv'
<1>1. PICK m, a, f :
        requests' = [requests EXCEPT ![s].message = m, ![s].answer = a, ![s].future = f]
  BY DEF Await
<1>2. requests[s] # Free /\ Counted(requests[s]) /\ UNCHANGED clientVars
  BY DEF Await, MemoryInv, Packets
<1>3. /\ DOMAIN requests' = Slots
      /\ \A u \in Slots \ {s} : requests'[u] = requests[u]
      /\ DOMAIN requests'[s] = DOMAIN requests[s]
      /\ requests'[s].packet = requests[s].packet /\ requests'[s].frees = requests[s].frees
  BY <1>1, <1>2 DEF MemoryInv, Packets, Counted
<1> QED
  BY <1>2, <1>3, PacketsStay

\* A future that is dropped leaves the packet lent.
LEMMA DropFutureStep ==
  ASSUME MemoryInv, NEW s \in Slots, DropFuture(s)
  PROVE  MemoryInv'
<1>2. requests[s] # Free /\ Counted(requests[s]) /\ UNCHANGED clientVars
  BY DEF DropFuture, MemoryInv, Packets
<1>3. /\ DOMAIN requests' = Slots
      /\ \A u \in Slots \ {s} : requests'[u] = requests[u]
      /\ DOMAIN requests'[s] = DOMAIN requests[s]
      /\ requests'[s].packet = requests[s].packet /\ requests'[s].frees = requests[s].frees
  BY <1>2 DEF DropFuture, MemoryInv, Packets, Counted
<1> QED
  BY <1>2, <1>3, PacketsStay

\* What is sent stays lent.
LEMMA SendStep ==
  ASSUME MemoryInv, NEW s \in Slots, Send(s)
  PROVE  MemoryInv'
<1>2. requests[s] # Free /\ Counted(requests[s]) /\ UNCHANGED clientVars
  BY DEF Send, Free, MemoryInv, Packets
<1>3. /\ DOMAIN requests' = Slots
      /\ \A u \in Slots \ {s} : requests'[u] = requests[u]
      /\ DOMAIN requests'[s] = DOMAIN requests[s]
      /\ requests'[s].packet = requests[s].packet /\ requests'[s].frees = requests[s].frees
  BY <1>2 DEF Send, MemoryInv, Packets, Counted
<1> QED
  BY <1>2, <1>3, PacketsStay

\* The cluster has nothing of the client.
LEMMA ExecuteStep ==
  ASSUME MemoryInv, NEW s \in Slots, Execute(s)
  PROVE  MemoryInv'
<1>1. PICK o, p :
        requests' = [requests EXCEPT ![s].server = "run", ![s].outcomes = o, ![s].reply = p]
  BY DEF Execute
<1>2. requests[s] # Free /\ Counted(requests[s]) /\ UNCHANGED clientVars
  BY DEF Execute, MemoryInv, Packets
<1>3. /\ DOMAIN requests' = Slots
      /\ \A u \in Slots \ {s} : requests'[u] = requests[u]
      /\ DOMAIN requests'[s] = DOMAIN requests[s]
      /\ requests'[s].packet = requests[s].packet /\ requests'[s].frees = requests[s].frees
  BY <1>1, <1>2 DEF MemoryInv, Packets, Counted
<1> QED
  BY <1>2, <1>3, PacketsStay

-----------------------------------------------------------------------------
\* The client's own life: close() leaves Drop nothing to do, and the thread
\* that deinits frees the box when tb_client holds nothing any more.
LEMMA LifeStep ==
  ASSUME MemoryInv, Open \/ (\E t \in Threads : LetGo(t)) \/ Deinit
  PROVE  MemoryInv'
<1>1. UNCHANGED requests
  BY DEF Open, LetGo, Close, DropHandle, Deinit
<1>2. Packets'
  BY <1>1 DEF MemoryInv, Packets
<1>3. CASE Open
  BY <1>2, <1>3 DEF Open, MemoryInv, Lifecycle, NothingIsLent
<1>4. ASSUME NEW t \in Threads, Close(t) PROVE MemoryInv'
  <2>1. client' = "closing" /\ deinits' = 1 /\ boxFrees' = 0
    BY <1>4 DEF Close, DropGlue, MemoryInv, Lifecycle
  <2> QED
    BY <1>2, <2>1 DEF MemoryInv, Lifecycle, NothingIsLent
<1>5. ASSUME NEW t \in Threads, DropHandle(t) PROVE MemoryInv'
  <2>1. /\ boxFrees' = 0
        /\ \/ client' = "closing" /\ deinits' = 1
           \/ client' = "open" /\ deinits' = 0
    BY <1>5 DEF DropHandle, DropGlue, MemoryInv, Lifecycle
  <2> QED
    BY <1>2, <2>1 DEF MemoryInv, Lifecycle, NothingIsLent
<1>6. CASE Deinit
  <2>1. client' = "closed" /\ deinits' = 0 /\ boxFrees' = 1
    BY <1>6 DEF Deinit, MemoryInv, Lifecycle
  <2>2. NothingIsLent'
    BY <1>1, <1>6 DEF Deinit, NothingIsLent
  <2> QED
    BY <1>2, <2>1, <2>2 DEF MemoryInv, Lifecycle
<1> QED
  BY <1>3, <1>4, <1>5, <1>6 DEF LetGo

\* tb_client gives back what it completes.
LEMMA TbClientStep ==
  ASSUME MemoryInv, TbClient
  PROVE  MemoryInv'
<1>1. ASSUME NEW s \in Slots,
             RefuseTooLarge(s) \/ Complete(s) \/ FailEvicted(s) \/ Shutdown(s)
      PROVE  MemoryInv'
  BY <1>1, CompletionStep DEF RefuseTooLarge, Complete, FailEvicted, Shutdown
<1>2. CASE Evict
  BY <1>2, PacketsStay DEF Evict, MemoryInv, Packets
<1> QED
  BY <1>1, <1>2, SendStep, ExecuteStep DEF TbClient

\* Every call of the interface is a submission.
LEMMA CallStep ==
  ASSUME MemoryInv, NEW t, Call(t)
  PROVE  MemoryInv'
  BY SubmitStep DEF Call, CreateAccounts, CreateTransfers, LookupAccounts, LookupTransfers,
     QueryAccounts, QueryTransfers, GetAccountBalances, GetAccountTransfers

\* Steps of the stream alone.
LEMMA StutterStep ==
  ASSUME MemoryInv, UNCHANGED vars
  PROVE  MemoryInv'
  BY PacketsStay DEF vars, MemoryInv, Packets

\* Every step keeps the invariant.
LEMMA MemoryStep == MemoryInv /\ [PagingNext]_allVars => MemoryInv'
<1> SUFFICES ASSUME MemoryInv, [PagingNext]_allVars PROVE MemoryInv'
  OBVIOUS
<1>1. CASE StartPaging
  BY <1>1, StutterStep DEF StartPaging
<1>2. CASE QueryPage
  BY <1>2, SubmitStep DEF QueryPage, GetAccountTransfers
<1>3. CASE DropStream
  BY <1>3, StutterStep, DropFutureStep DEF DropStream
<1>4. ASSUME NEW s \in Slots, PageArrives(s) PROVE MemoryInv'
  BY <1>4, AwaitStep DEF PageArrives
<1>5. CASE Open \/ LetGoes \/ Deinit
  BY <1>5, LifeStep DEF LetGoes
<1>6. CASE OtherCall
  BY <1>6, CallStep DEF OtherCall
<1>7. CASE Futures
  BY <1>7, AwaitStep, DropFutureStep DEF Futures
<1>8. CASE TbClient
  BY <1>8, TbClientStep
<1>9. CASE UNCHANGED allVars
  BY <1>9, StutterStep DEF allVars
<1> QED
  BY <1>1, <1>2, <1>3, <1>4, <1>5, <1>6, <1>7, <1>8, <1>9 DEF PagingNext

\* The property follows.
LEMMA MemoryIsReclaimed == MemoryInv => ReclaimedOnce
  BY DEF MemoryInv, Lifecycle, Packets, Counted, NothingIsLent, ReclaimedOnce

\* However many threads submit, drop futures, drop or close the client, and
\* whatever the cluster does: every packet and the client's box are freed once,
\* and the box after all packets.
THEOREM MemoryReclaimedOnce == Spec => []ReclaimedOnce
  BY InitMemory, MemoryStep, MemoryIsReclaimed, PTL DEF Spec

(***************************************************************************)
(* 2. The cluster and the merges.  A batch is walked by the cluster, which  *)
(* reports failures only (or finds only), and the reply is walked again by  *)
(* the caller, next to the events, peeking at the next result.  Both are    *)
(* the walks of recursive functions over the same events: by induction      *)
(* from the last event back, what was reported up to an event starts the    *)
(* reply and the rest is about later events (Fits); by induction from the   *)
(* first event on, the merge peeks there (Merged).                          *)
(***************************************************************************)

\* What a ledger is, and a ledger that continues another one.
Ledgers == {l \in Seq(Objects) : l # <<>> => l[1].kind = "accounts"}
Extensions(k) == {l \in Ledgers : Len(k) <= Len(l) /\ \A i \in 1..Len(k) : l[i] = k[i]}

Outcomes(kind) == EventErrors(kind) \cup {"Ok"}
Results(kind) == [index : Nat, code : EventErrors(kind)]

\* What a batch can come to.
Creations(store, kind) ==
  [store : Extensions(store), outcomes : Seq(Outcomes(kind)), reply : Seq(Results(kind))]

\* An event keeps a ledger a ledger: a transfer is created only where accounts are.
LEMMA CreateEventType ==
  ASSUME NEW store \in Ledgers, NEW kind \in Kinds, NEW d \in Creations(store, kind),
         NEW n \in Nat, NEW id \in Ids
  PROVE  CreateEvent(d, kind, n, id) \in Creations(store, kind)
<1> DEFINE o == EventOutcome(d.store, kind, id)
           object == [kind |-> kind, id |-> id]
<1>1. PICK l \in Extensions(store), os \in Seq(Outcomes(kind)), rs \in Seq(Results(kind)) :
        d.store = l /\ d.outcomes = os /\ d.reply = rs
  BY DEF Creations
<1>2. o \in Outcomes(kind)
  BY DEF EventOutcome, Outcomes, EventErrors, Kinds
<1>3. Append(os, o) \in Seq(Outcomes(kind))
  BY <1>1, <1>2
<1>4. ASSUME o = "Ok" PROVE Append(l, object) \in Extensions(store)
  <2>1. /\ l \in Seq(Objects) /\ (l # <<>> => l[1].kind = "accounts")
        /\ object \in Objects /\ store \in Seq(Objects)
    BY DEF Extensions, Ledgers, Objects
  <2>2. Append(l, object)[1].kind = "accounts"
    <3>1. CASE l = <<>>
      <4>1. ~\E i \in DOMAIN l : l[i].kind = "accounts"
        BY <3>1
      <4>2. kind = "accounts"
        BY <1>1, <1>4, <4>1 DEF EventOutcome, Kinds
      <4> QED
        BY <3>1, <4>2
    <3>2. CASE l # <<>>
      BY <2>1, <3>2
    <3> QED
      BY <3>1, <3>2
  <2>3. /\ Append(l, object) \in Seq(Objects)
        /\ Len(store) <= Len(Append(l, object))
        /\ \A i \in 1..Len(store) : Append(l, object)[i] = store[i]
    BY <2>1 DEF Extensions
  <2> QED
    BY <2>2, <2>3 DEF Extensions, Ledgers
<1>5. ASSUME o # "Ok" PROVE Append(rs, [index |-> n, code |-> o]) \in Seq(Results(kind))
  BY <1>2, <1>5 DEF Results, Outcomes
<1> HIDE DEF o, object
<1> QED
  BY <1>1, <1>3, <1>4, <1>5 DEF CreateEvent, Creations, o, object

\* RunCreate is its walk over the events.
LEMMA CreateWalk ==
  ASSUME NEW store \in Ledgers, NEW kind \in Kinds, NEW ids \in Seq(Ids)
  PROVE  \E run \in [0..Len(ids) -> Creations(store, kind)] :
           /\ RunCreate(store, kind, ids) = run[Len(ids)]
           /\ run[0] = [store |-> store, outcomes |-> <<>>, reply |-> <<>>]
           /\ \A n \in 1..Len(ids) : run[n] = CreateEvent(run[n - 1], kind, n, ids[n])
<1> DEFINE N == Len(ids)
           S == Creations(store, kind)
           start == [store |-> store, outcomes |-> <<>>, reply |-> <<>>]
           step == [n \in 1..N |-> [d \in S |-> CreateEvent(d, kind, n, ids[n])]]
           Walk(f) == f = [n \in 0..N |-> IF n = 0 THEN start
                                          ELSE CreateEvent(f[n - 1], kind, n, ids[n])]
           run == CHOOSE f : Walk(f)
<1>1. N \in Nat /\ \A n \in 1..N : ids[n] \in Ids
  OBVIOUS
<1>2. start \in S
  BY DEF Creations, Extensions, Ledgers
<1>3. \A n \in 1..N : \A d \in S : CreateEvent(d, kind, n, ids[n]) \in S
  BY <1>1, CreateEventType
<1> HIDE DEF S, N, start
<1>4. step \in [1..N -> [S -> S]]
  BY <1>3
<1>5. /\ \A n \in 1..N : \A d \in S : step[n][d] = CreateEvent(d, kind, n, ids[n])
  OBVIOUS
<1> HIDE DEF step
<1>6. PICK f \in [0..N -> S] : Walks(f, N, start, step)
  BY <1>1, <1>2, <1>4, Recursion
<1>7. Walk(f)
  <2>1. \A n \in 1..N : n - 1 \in 0..N /\ f[n - 1] \in S
    BY <1>1
  <2>2. \A n \in 0..N : f[n] = IF n = 0 THEN start ELSE CreateEvent(f[n - 1], kind, n, ids[n])
    BY <1>1, <1>5, <1>6, <2>1 DEF Walks
  <2>3. f = [n \in 0..N |-> f[n]]
    OBVIOUS
  <2> QED
    BY <2>2, <2>3
<1>8. Walk(run)
  BY <1>7
<1>9. RunCreate(store, kind, ids) = run[N]
  BY DEF RunCreate, N, start
<1> HIDE DEF run
<1>10. run[0] = start /\ \A n \in 1..N : run[n] = CreateEvent(run[n - 1], kind, n, ids[n])
  BY <1>1, <1>8
<1>11. \A n \in 1..N : run[n - 1] \in S => run[n] \in S
  BY <1>3, <1>10
<1>12. run \in [0..N -> S]
  <2>1. run = [n \in 0..N |-> run[n]]
    BY <1>8
  <2> QED
    BY <1>1, <1>2, <1>10, <1>11, <2>1, StaysIn
<1> QED
  BY <1>9, <1>10, <1>12 DEF N, S, start

\* How far a merge may be.
Merges(kind) == [out : Seq(Outcomes(kind)), at : Nat \ {0}]

\* The merge is its walk over the events.
LEMMA MergeCreateWalk ==
  ASSUME NEW kind \in Kinds, NEW ids \in Seq(Ids), NEW results \in Seq(Results(kind))
  PROVE  \E merge \in [0..Len(ids) -> Merges(kind)] :
           /\ MergeCreateResults(ids, results) = merge[Len(ids)].out
           /\ merge[0] = [out |-> <<>>, at |-> 1]
           /\ \A n \in 1..Len(ids) : merge[n] = MergeCreate(merge[n - 1], results, n)
<1> DEFINE N == Len(ids)
           S == Merges(kind)
           start == [out |-> <<>>, at |-> 1]
           step == [n \in 1..N |-> [d \in S |-> MergeCreate(d, results, n)]]
           Walk(f) == f = [n \in 0..N |-> IF n = 0 THEN start
                                          ELSE MergeCreate(f[n - 1], results, n)]
           merge == CHOOSE f : Walk(f)
<1>1. N \in Nat
  OBVIOUS
<1>2. start \in S
  BY DEF Merges
<1>3. ASSUME NEW n \in 1..N, NEW d \in S PROVE MergeCreate(d, results, n) \in S
  <2>1. PICK os \in Seq(Outcomes(kind)), a \in Nat \ {0} : d.out = os /\ d.at = a
    BY DEF Merges
  <2>2. "Ok" \in Outcomes(kind)
    BY DEF Outcomes
  <2>3. ASSUME a <= Len(results) PROVE results[a].code \in Outcomes(kind)
    <3>1. results[a] \in Results(kind)
      BY <2>3
    <3> QED
      BY <3>1 DEF Results, Outcomes
  <2> QED
    BY <2>1, <2>2, <2>3 DEF MergeCreate, Merges
<1> HIDE DEF S, N, start
<1>4. step \in [1..N -> [S -> S]]
  BY <1>3
<1>5. \A n \in 1..N : \A d \in S : step[n][d] = MergeCreate(d, results, n)
  OBVIOUS
<1> HIDE DEF step
<1>6. PICK f \in [0..N -> S] : Walks(f, N, start, step)
  BY <1>1, <1>2, <1>4, Recursion
<1>7. Walk(f)
  <2>1. \A n \in 1..N : n - 1 \in 0..N /\ f[n - 1] \in S
    BY <1>1
  <2>2. \A n \in 0..N : f[n] = IF n = 0 THEN start ELSE MergeCreate(f[n - 1], results, n)
    BY <1>1, <1>5, <1>6, <2>1 DEF Walks
  <2>3. f = [n \in 0..N |-> f[n]]
    OBVIOUS
  <2> QED
    BY <2>2, <2>3
<1>8. Walk(merge)
  BY <1>7
<1>9. MergeCreateResults(ids, results) = merge[N].out
  BY DEF MergeCreateResults, N, start
<1> HIDE DEF merge
<1>10. merge[0] = start /\ \A n \in 1..N : merge[n] = MergeCreate(merge[n - 1], results, n)
  BY <1>1, <1>8
<1>11. \A n \in 1..N : merge[n - 1] \in S => merge[n] \in S
  BY <1>3, <1>10
<1>12. merge \in [0..N -> S]
  <2>1. merge = [n \in 0..N |-> merge[n]]
    BY <1>8
  <2> QED
    BY <1>1, <1>2, <1>10, <1>11, <2>1, StaysIn
<1> QED
  BY <1>9, <1>10, <1>12 DEF N, S, start

\* The merge of what create_accounts or create_transfers replied is what became of
\* every event of the batch, duplicates included; the ledger only grows.
LEMMA CreateAnswers ==
  ASSUME NEW store \in Ledgers, NEW kind \in Kinds, NEW ids \in Seq(Ids)
  PROVE  /\ RunCreate(store, kind, ids) \in Creations(store, kind)
         /\ MergeCreateResults(ids, RunCreate(store, kind, ids).reply)
              = RunCreate(store, kind, ids).outcomes
<1> DEFINE N == Len(ids)
           S == Creations(store, kind)
<1>1. N \in Nat
  OBVIOUS
<1>2. PICK run \in [0..N -> S] :
        /\ RunCreate(store, kind, ids) = run[N]
        /\ run[0] = [store |-> store, outcomes |-> <<>>, reply |-> <<>>]
        /\ \A n \in 1..N : run[n] = CreateEvent(run[n - 1], kind, n, ids[n])
  BY CreateWalk
<1> DEFINE R == run[N].reply
<1>3. \A n \in 0..N : /\ run[n].outcomes \in Seq(Outcomes(kind))
                     /\ run[n].reply \in Seq(Results(kind))
  BY DEF Creations
<1>4. R \in Seq(Results(kind))
  BY <1>1, <1>3
<1>5. PICK merge \in [0..N -> Merges(kind)] :
        /\ MergeCreateResults(ids, R) = merge[N].out
        /\ merge[0] = [out |-> <<>>, at |-> 1]
        /\ \A n \in 1..N : merge[n] = MergeCreate(merge[n - 1], R, n)
  BY <1>4, MergeCreateWalk
<1> HIDE DEF N, S, R
\* What one event adds.
<1>6. ASSUME NEW n \in 1..N
      PROVE  \E o \in Outcomes(kind) :
               /\ run[n].outcomes = Append(run[n - 1].outcomes, o)
               /\ run[n].reply = IF o = "Ok" THEN run[n - 1].reply
                                 ELSE Append(run[n - 1].reply, [index |-> n, code |-> o])
  <2> DEFINE o == EventOutcome(run[n - 1].store, kind, ids[n])
  <2>1. o \in Outcomes(kind)
    BY DEF EventOutcome, Outcomes, EventErrors, Kinds
  <2>2. run[n] = CreateEvent(run[n - 1], kind, n, ids[n])
    BY <1>2
  <2> QED
    BY <2>1, <2>2 DEF CreateEvent
\* What was reported by event n starts R; the rest is about later events.
<1> DEFINE Fits(q, n) == /\ Len(q) <= Len(R)
                         /\ \A j \in 1..Len(q) : R[j] = q[j]
                         /\ \A j \in (Len(q) + 1)..Len(R) : R[j].index > n
<1>7. \A n \in 0..N : Fits(run[n].reply, n)
  <2> DEFINE T == {n \in 0..N : Fits(run[n].reply, n)}
  <2>1. N \in T
    BY <1>1, <1>4 DEF R
  <2>2. ASSUME NEW n \in 1..N, n \in T PROVE n - 1 \in T
    <3>1. PICK o \in Outcomes(kind) :
            run[n].reply = IF o = "Ok" THEN run[n - 1].reply
                           ELSE Append(run[n - 1].reply, [index |-> n, code |-> o])
      BY <1>6
    <3>2. n - 1 \in 0..N /\ n \in 0..N
      BY <1>1
    <3>3. PICK p \in Seq(Results(kind)), q \in Seq(Results(kind)) :
            p = run[n - 1].reply /\ q = run[n].reply
      BY <1>3, <3>2
    <3>4. Fits(q, n)
      BY <2>2, <3>3
    <3>9. ASSUME NEW j \in 1..Len(R) PROVE R[j].index \in Nat
      <4>1. R[j] \in Results(kind)
        BY <1>4
      <4> QED
        BY <4>1 DEF Results
    <3>5. Fits(p, n - 1)
      <4>1. CASE q = p
        <5>1. ASSUME NEW j \in (Len(p) + 1)..Len(R) PROVE R[j].index > n - 1
          <6>1. R[j].index > n
            BY <3>4, <4>1
          <6>2. j \in 1..Len(R)
            BY <1>4
          <6>3. R[j].index \in Nat
            BY <3>9, <6>2
          <6> QED
            BY <6>1, <6>3
        <5> QED
          BY <3>4, <4>1, <5>1
      <4>2. CASE q = Append(p, [index |-> n, code |-> o])
        <5>1. /\ Len(q) = Len(p) + 1 /\ Len(p) \in Nat /\ q[Len(p) + 1].index = n
              /\ \A j \in 1..Len(p) : q[j] = p[j]
          BY <4>2
        <5>2. Len(p) <= Len(R) /\ \A j \in 1..Len(p) : R[j] = p[j]
          BY <1>4, <3>4, <5>1
        <5>3. ASSUME NEW j \in (Len(p) + 1)..Len(R) PROVE R[j].index > n - 1
          <6>1. j = Len(q) \/ j \in (Len(q) + 1)..Len(R)
            BY <1>4, <5>1
          <6>2. CASE j = Len(q)
            BY <3>4, <5>1, <6>2
          <6>3. CASE j \in (Len(q) + 1)..Len(R)
            <7>1. R[j].index > n
              BY <3>4, <6>3
            <7>2. j \in 1..Len(R)
              BY <1>4, <5>1
            <7>3. R[j].index \in Nat
              BY <3>9, <7>2
            <7> QED
              BY <7>1, <7>3
          <6> QED
            BY <6>1, <6>2, <6>3
        <5> QED
          BY <5>2, <5>3
      <4> QED
        BY <3>1, <3>3, <4>1, <4>2
    <3> QED
      BY <3>2, <3>3, <3>5
  <2> HIDE DEF T
  <2>3. \A n \in 0..N : n \in T
    BY <1>1, <2>1, <2>2, Downwards
  <2> QED
    BY <2>3 DEF T
\* So the merge peeks at the result of event n when it comes to event n.
<1> DEFINE Merged(n) == merge[n].out = run[n].outcomes /\ merge[n].at = Len(run[n].reply) + 1
<1>8. \A n \in 0..N : Merged(n)
  <2> DEFINE T == {n \in 0..N : Merged(n)}
  <2>1. 0 \in T
    BY <1>1, <1>2, <1>5
  <2>2. ASSUME NEW n \in 1..N, n - 1 \in T PROVE n \in T
    <3>1. PICK o \in Outcomes(kind) :
            /\ run[n].outcomes = Append(run[n - 1].outcomes, o)
            /\ run[n].reply = IF o = "Ok" THEN run[n - 1].reply
                              ELSE Append(run[n - 1].reply, [index |-> n, code |-> o])
      BY <1>6
    <3>2. n - 1 \in 0..N /\ n \in 0..N
      BY <1>1
    <3>3. PICK p \in Seq(Results(kind)), q \in Seq(Results(kind)) :
            p = run[n - 1].reply /\ q = run[n].reply
      BY <1>3, <3>2
    <3>4. Fits(p, n - 1) /\ Fits(q, n)
      BY <1>7, <3>2, <3>3
    <3>5. merge[n] = MergeCreate(merge[n - 1], R, n)
      BY <1>5
    <3>6. merge[n - 1].out = run[n - 1].outcomes /\ merge[n - 1].at = Len(p) + 1
      BY <2>2, <3>3
    <3>7. CASE o = "Ok"
      <4>1. q = p
        BY <3>1, <3>3, <3>7
      <4>2. Len(p) + 1 <= Len(R) => R[Len(p) + 1].index > n
        BY <1>4, <3>4, <4>1
      <4>3. ~(Len(p) + 1 <= Len(R) /\ R[Len(p) + 1].index = n)
        BY <4>2
      <4>4. merge[n].out = Append(merge[n - 1].out, "Ok") /\ merge[n].at = merge[n - 1].at
        BY <3>5, <3>6, <4>3 DEF MergeCreate
      <4> QED
        BY <3>1, <3>2, <3>3, <3>6, <3>7, <4>1, <4>4
    <3>8. CASE o # "Ok"
      <4>1. q = Append(p, [index |-> n, code |-> o])
        BY <3>1, <3>3, <3>8
      <4>2. Len(q) = Len(p) + 1 /\ q[Len(p) + 1] = [index |-> n, code |-> o]
        BY <4>1
      <4>3. Len(p) + 1 <= Len(R) /\ R[Len(p) + 1] = [index |-> n, code |-> o]
        BY <3>4, <4>2
      <4>4. merge[n].out = Append(merge[n - 1].out, o) /\ merge[n].at = merge[n - 1].at + 1
        BY <3>5, <3>6, <4>3, SMTT(30) DEF MergeCreate
      <4> QED
        BY <3>1, <3>2, <3>3, <3>6, <4>2, <4>4
    <3> QED
      BY <3>7, <3>8
  <2> HIDE DEF T
  <2>3. \A n \in 0..N : n \in T
    BY <1>1, <2>1, <2>2, Upwards
  <2> QED
    BY <2>3 DEF T
<1>9. N \in 0..N
  BY <1>1
<1> QED
  BY <1>2, <1>5, <1>8, <1>9 DEF R, N, S

\* How far a lookup may be, and a merge of its reply.
Lookups == [outcomes : Seq({"Some", "None"}), reply : Seq(Ids)]
LookupMerges == [out : Seq({"Some", "None"}), at : Nat \ {0}]

\* What a lookup has so far stays a lookup.
LEMMA LookupEventType ==
  ASSUME NEW d \in Lookups, NEW store, NEW kind, NEW id \in Ids
  PROVE  LookupEvent(d, store, kind, id) \in Lookups
  BY DEF LookupEvent, Lookups

\* RunLookup is its walk over the ids.
LEMMA LookupWalk ==
  ASSUME NEW store, NEW kind, NEW ids \in Seq(Ids)
  PROVE  \E run \in [0..Len(ids) -> Lookups] :
           /\ RunLookup(store, kind, ids).store = store
           /\ RunLookup(store, kind, ids).outcomes = run[Len(ids)].outcomes
           /\ RunLookup(store, kind, ids).reply = run[Len(ids)].reply
           /\ run[0] = [outcomes |-> <<>>, reply |-> <<>>]
           /\ \A n \in 1..Len(ids) : run[n] = LookupEvent(run[n - 1], store, kind, ids[n])
<1> DEFINE N == Len(ids)
           S == Lookups
           start == [outcomes |-> <<>>, reply |-> <<>>]
           step == [n \in 1..N |-> [d \in S |-> LookupEvent(d, store, kind, ids[n])]]
           Walk(f) == f = [n \in 0..N |-> IF n = 0 THEN start
                                          ELSE LookupEvent(f[n - 1], store, kind, ids[n])]
           run == CHOOSE f : Walk(f)
<1>1. N \in Nat /\ \A n \in 1..N : ids[n] \in Ids
  OBVIOUS
<1>2. start \in S
  BY DEF Lookups
<1>3. \A n \in 1..N : \A d \in S : LookupEvent(d, store, kind, ids[n]) \in S
  BY <1>1, LookupEventType
<1> HIDE DEF S, N, start
<1>4. step \in [1..N -> [S -> S]]
  BY <1>3
<1>5. /\ \A n \in 1..N : \A d \in S : step[n][d] = LookupEvent(d, store, kind, ids[n])
  OBVIOUS
<1> HIDE DEF step
<1>6. PICK f \in [0..N -> S] : Walks(f, N, start, step)
  BY <1>1, <1>2, <1>4, Recursion
<1>7. Walk(f)
  <2>1. \A n \in 1..N : n - 1 \in 0..N /\ f[n - 1] \in S
    BY <1>1
  <2>2. \A n \in 0..N : f[n] = IF n = 0 THEN start ELSE LookupEvent(f[n - 1], store, kind, ids[n])
    BY <1>1, <1>5, <1>6, <2>1 DEF Walks
  <2>3. f = [n \in 0..N |-> f[n]]
    OBVIOUS
  <2> QED
    BY <2>2, <2>3
<1>8. Walk(run)
  BY <1>7
<1>9. /\ RunLookup(store, kind, ids).store = store
      /\ RunLookup(store, kind, ids).outcomes = run[N].outcomes
      /\ RunLookup(store, kind, ids).reply = run[N].reply
  BY DEF RunLookup, N, start
<1> HIDE DEF run
<1>10. run[0] = start /\ \A n \in 1..N : run[n] = LookupEvent(run[n - 1], store, kind, ids[n])
  BY <1>1, <1>8
<1>11. \A n \in 1..N : run[n - 1] \in S => run[n] \in S
  BY <1>3, <1>10
<1>12. run \in [0..N -> S]
  <2>1. run = [n \in 0..N |-> run[n]]
    BY <1>8
  <2> QED
    BY <1>1, <1>2, <1>10, <1>11, <2>1, StaysIn
<1> QED
  BY <1>9, <1>10, <1>12 DEF N, S, start
\* The merge is its walk over the ids.
LEMMA MergeLookupWalk ==
  ASSUME NEW ids \in Seq(Ids), NEW results
  PROVE  \E merge \in [0..Len(ids) -> LookupMerges] :
           /\ MergeLookupResults(ids, results) = merge[Len(ids)].out
           /\ merge[0] = [out |-> <<>>, at |-> 1]
           /\ \A n \in 1..Len(ids) : merge[n] = MergeLookup(merge[n - 1], results, ids[n])
<1> DEFINE N == Len(ids)
           S == LookupMerges
           start == [out |-> <<>>, at |-> 1]
           step == [n \in 1..N |-> [d \in S |-> MergeLookup(d, results, ids[n])]]
           Walk(f) == f = [n \in 0..N |-> IF n = 0 THEN start
                                          ELSE MergeLookup(f[n - 1], results, ids[n])]
           merge == CHOOSE f : Walk(f)
<1>1. N \in Nat
  OBVIOUS
<1>2. start \in S
  BY DEF LookupMerges
<1>3. ASSUME NEW n \in 1..N, NEW d \in S PROVE MergeLookup(d, results, ids[n]) \in S
  BY DEF MergeLookup, LookupMerges
<1> HIDE DEF S, N, start
<1>4. step \in [1..N -> [S -> S]]
  BY <1>3
<1>5. \A n \in 1..N : \A d \in S : step[n][d] = MergeLookup(d, results, ids[n])
  OBVIOUS
<1> HIDE DEF step
<1>6. PICK f \in [0..N -> S] : Walks(f, N, start, step)
  BY <1>1, <1>2, <1>4, Recursion
<1>7. Walk(f)
  <2>1. \A n \in 1..N : n - 1 \in 0..N /\ f[n - 1] \in S
    BY <1>1
  <2>2. \A n \in 0..N : f[n] = IF n = 0 THEN start ELSE MergeLookup(f[n - 1], results, ids[n])
    BY <1>1, <1>5, <1>6, <2>1 DEF Walks
  <2>3. f = [n \in 0..N |-> f[n]]
    OBVIOUS
  <2> QED
    BY <2>2, <2>3
<1>8. Walk(merge)
  BY <1>7
<1>9. MergeLookupResults(ids, results) = merge[N].out
  BY DEF MergeLookupResults, N, start
<1> HIDE DEF merge
<1>10. merge[0] = start /\ \A n \in 1..N : merge[n] = MergeLookup(merge[n - 1], results, ids[n])
  BY <1>1, <1>8
<1>11. \A n \in 1..N : merge[n - 1] \in S => merge[n] \in S
  BY <1>3, <1>10
<1>12. merge \in [0..N -> S]
  <2>1. merge = [n \in 0..N |-> merge[n]]
    BY <1>8
  <2> QED
    BY <1>1, <1>2, <1>10, <1>11, <2>1, StaysIn
<1> QED
  BY <1>9, <1>10, <1>12 DEF N, S, start

\* The merge of what lookup_accounts or lookup_transfers replied tells of every id
\* whether it is there, although the same id may be asked for twice.
LEMMA LookupAnswers ==
  ASSUME NEW store, NEW kind \in Kinds, NEW ids \in Seq(Ids)
  PROVE  /\ RunLookup(store, kind, ids).store = store
         /\ RunLookup(store, kind, ids).reply \in Seq(Ids)
         /\ RunLookup(store, kind, ids).outcomes \in Seq({"Some", "None"})
         /\ MergeLookupResults(ids, RunLookup(store, kind, ids).reply)
              = RunLookup(store, kind, ids).outcomes
<1> DEFINE N == Len(ids)
<1>1. N \in Nat /\ \A n \in 1..N : ids[n] \in Ids
  OBVIOUS
<1>2. PICK run \in [0..N -> Lookups] :
        /\ RunLookup(store, kind, ids).store = store
        /\ RunLookup(store, kind, ids).outcomes = run[N].outcomes
        /\ RunLookup(store, kind, ids).reply = run[N].reply
        /\ run[0] = [outcomes |-> <<>>, reply |-> <<>>]
        /\ \A n \in 1..N : run[n] = LookupEvent(run[n - 1], store, kind, ids[n])
  BY LookupWalk
<1> DEFINE R == run[N].reply
<1>3. \A n \in 0..N : run[n].outcomes \in Seq({"Some", "None"}) /\ run[n].reply \in Seq(Ids)
  BY DEF Lookups
<1>4. R \in Seq(Ids)
  BY <1>1, <1>3
<1>5. PICK merge \in [0..N -> LookupMerges] :
        /\ MergeLookupResults(ids, R) = merge[N].out
        /\ merge[0] = [out |-> <<>>, at |-> 1]
        /\ \A n \in 1..N : merge[n] = MergeLookup(merge[n - 1], R, ids[n])
  BY <1>4, MergeLookupWalk
<1> HIDE DEF N, R
<1>6. ASSUME NEW n \in 1..N
      PROVE  \/ /\ Holds(store, kind, ids[n])
                /\ run[n].outcomes = Append(run[n - 1].outcomes, "Some")
                /\ run[n].reply = Append(run[n - 1].reply, ids[n])
             \/ /\ ~Holds(store, kind, ids[n])
                /\ run[n].outcomes = Append(run[n - 1].outcomes, "None")
                /\ run[n].reply = run[n - 1].reply
  <2>1. run[n] = LookupEvent(run[n - 1], store, kind, ids[n])
    BY <1>2
  <2>2. CASE Holds(store, kind, ids[n])
    <3>1. run[n] = [outcomes |-> Append(run[n - 1].outcomes, "Some"),
                    reply |-> Append(run[n - 1].reply, ids[n])]
      BY <2>1, <2>2 DEF LookupEvent
    <3> QED
      BY <2>2, <3>1, SMTT(30)
  <2>3. CASE ~Holds(store, kind, ids[n])
    <3>1. run[n] = [outcomes |-> Append(run[n - 1].outcomes, "None"),
                    reply |-> run[n - 1].reply]
      BY <2>1, <2>3 DEF LookupEvent
    <3> QED
      BY <2>3, <3>1
  <2> QED
    BY <2>2, <2>3
\* What was replied up to id n starts R; the rest is there as well.
<1> DEFINE Fits(q) == /\ Len(q) <= Len(R)
                      /\ \A j \in 1..Len(q) : R[j] = q[j]
                      /\ \A j \in (Len(q) + 1)..Len(R) : Holds(store, kind, R[j])
<1>7. \A n \in 0..N : Fits(run[n].reply)
  <2> DEFINE T == {n \in 0..N : Fits(run[n].reply)}
  <2>1. N \in T
    BY <1>1, <1>4 DEF R
  <2>2. ASSUME NEW n \in 1..N, n \in T PROVE n - 1 \in T
    <3>1. n - 1 \in 0..N /\ n \in 0..N
      BY <1>1
    <3>2. PICK p \in Seq(Ids), q \in Seq(Ids) : p = run[n - 1].reply /\ q = run[n].reply
      BY <1>3, <3>1
    <3>3. Fits(q)
      BY <2>2, <3>2
    <3>4. CASE Holds(store, kind, ids[n])
      <4>1. q = Append(p, ids[n])
        BY <1>6, <3>2, <3>4
      <4>2. /\ Len(q) = Len(p) + 1 /\ Len(p) \in Nat /\ q[Len(p) + 1] = ids[n]
            /\ \A j \in 1..Len(p) : q[j] = p[j]
        BY <4>1
      <4>3. Len(p) <= Len(R) /\ \A j \in 1..Len(p) : R[j] = p[j]
        BY <1>4, <3>3, <4>2
      <4>4. ASSUME NEW j \in (Len(p) + 1)..Len(R) PROVE Holds(store, kind, R[j])
        <5>1. j = Len(q) \/ j \in (Len(q) + 1)..Len(R)
          BY <1>4, <4>2
        <5>2. CASE j = Len(q)
          <6>1. R[j] = ids[n]
            BY <3>3, <4>2, <5>2
          <6> QED
            BY <3>4, <6>1
        <5> QED
          BY <3>3, <5>1, <5>2
      <4>5. Fits(p)
        BY <4>3, <4>4
      <4> QED
        BY <3>1, <3>2, <4>5
    <3>5. CASE ~Holds(store, kind, ids[n])
      BY <1>6, <3>1, <3>2, <3>3, <3>5
    <3> QED
      BY <3>4, <3>5
  <2> HIDE DEF T
  <2>3. \A n \in 0..N : n \in T
    BY <1>1, <2>1, <2>2, Downwards
  <2> QED
    BY <2>3 DEF T
<1> DEFINE Merged(n) == merge[n].out = run[n].outcomes /\ merge[n].at = Len(run[n].reply) + 1
<1>8. \A n \in 0..N : Merged(n)
  <2> DEFINE T == {n \in 0..N : Merged(n)}
  <2>1. 0 \in T
    BY <1>1, <1>2, <1>5
  <2>2. ASSUME NEW n \in 1..N, n - 1 \in T PROVE n \in T
    <3>1. n - 1 \in 0..N /\ n \in 0..N
      BY <1>1
    <3>2. PICK p \in Seq(Ids), q \in Seq(Ids) : p = run[n - 1].reply /\ q = run[n].reply
      BY <1>3, <3>1
    <3>3. Fits(p) /\ Fits(q)
      BY <1>7, <3>1, <3>2
    <3>4. merge[n] = MergeLookup(merge[n - 1], R, ids[n])
      BY <1>5
    <3>5. merge[n - 1].out = run[n - 1].outcomes /\ merge[n - 1].at = Len(p) + 1
      BY <2>2, <3>2
    <3>6. CASE Holds(store, kind, ids[n])
      <4>1. q = Append(p, ids[n]) /\ run[n].outcomes = Append(run[n - 1].outcomes, "Some")
        BY <1>6, <3>2, <3>6
      <4>2. Len(q) = Len(p) + 1 /\ q[Len(p) + 1] = ids[n]
        BY <4>1
      <4>3. Len(p) + 1 <= Len(R) /\ R[Len(p) + 1] = ids[n]
        BY <3>3, <4>2
      <4>4. merge[n].out = Append(merge[n - 1].out, "Some") /\ merge[n].at = merge[n - 1].at + 1
        <5>1. merge[n - 1].at <= Len(R) /\ R[merge[n - 1].at] = ids[n]
          BY <3>5, <4>3
        <5> QED
          BY <3>4, <5>1 DEF MergeLookup
      <4> QED
        BY <3>1, <3>2, <3>5, <4>1, <4>2, <4>4
    <3>7. CASE ~Holds(store, kind, ids[n])
      <4>1. q = p /\ run[n].outcomes = Append(run[n - 1].outcomes, "None")
        BY <1>6, <3>2, <3>7
      <4>2. Len(p) + 1 <= Len(R) => Holds(store, kind, R[Len(p) + 1])
        BY <1>4, <3>3
      <4>3. ~(Len(p) + 1 <= Len(R) /\ R[Len(p) + 1] = ids[n])
        BY <3>7, <4>2
      <4>4. merge[n].out = Append(merge[n - 1].out, "None") /\ merge[n].at = merge[n - 1].at
        <5>1. ~(merge[n - 1].at <= Len(R) /\ R[merge[n - 1].at] = ids[n])
          BY <3>5, <4>3
        <5> QED
          BY <3>4, <5>1 DEF MergeLookup
      <4> QED
        BY <3>1, <3>2, <3>5, <4>1, <4>4
    <3> QED
      BY <3>6, <3>7
  <2> HIDE DEF T
  <2>3. \A n \in 0..N : n \in T
    BY <1>1, <2>1, <2>2, Upwards
  <2> QED
    BY <2>3 DEF T
<1>9. N \in 0..N
  BY <1>1
<1>10. /\ RunLookup(store, kind, ids).reply = R
       /\ RunLookup(store, kind, ids).outcomes = run[N].outcomes
       /\ RunLookup(store, kind, ids).store = store
  BY <1>2 DEF R
<1> QED
  BY <1>3, <1>4, <1>5, <1>8, <1>9, <1>10

(***************************************************************************)
(* 3. Range queries.                                                        *)
(***************************************************************************)

\* A page over the set S of timestamps.
PageOver(p, S, f) ==
  /\ p \in Seq(S) /\ Len(p) <= f.limit
  /\ \A j \in 1..Len(p) : \A i \in 1..(j - 1) : Before(f, p[i], p[j])
  /\ \A t \in S : \/ \E i \in 1..Len(p) : p[i] = t
                  \/ Len(p) = f.limit /\ \A i \in 1..Len(p) : Before(f, p[i], t)

\* Page takes the first objects of the range, each once and in order, and leaves
\* something out only when it is full.
LEMMA PageIsOver ==
  ASSUME NEW S, S \subseteq Nat, IsFiniteSet(S), NEW f \in Filter, f.limit <= ResultMax
  PROVE  PageOver(Page(S, f), S, f)
<1> DEFINE n == Cardinality(S)
           m == IF n < f.limit THEN n ELSE f.limit
           down == f.reversed
           rank(t) == Cardinality({u \in S : Before(f, u, t)})
           p == Page(S, f)
<1>1. n \in Nat /\ f.limit \in Nat /\ down \in BOOLEAN /\ ResultMax \in Nat
  BY FS_CardinalityType, ClientAssumption DEF Filter
<1>2. m \in Nat /\ m <= n /\ m <= f.limit /\ (m = n \/ m = f.limit)
  BY <1>1
<1>3. \A t \in S : rank(t) = Rank(S, down, t)
  <2>1. \A t \in S : {u \in S : Before(f, u, t)} = Earlier(S, down, t)
    BY DEF Before, Earlier
  <2> QED
    BY <2>1 DEF Rank
<1>4. p = [i \in 1..m |-> CHOOSE t \in S : rank(t) = i - 1]
  <2>1. (IF f.limit < ResultMax THEN f.limit ELSE ResultMax) = f.limit
    BY <1>1
  <2> QED
    BY <2>1 DEF Page
<1> HIDE DEF m, rank
<1>14. \A t \in S : t \in Nat /\ rank(t) \in 0..(n - 1) /\ rank(t) \in Nat
  <2>1. ASSUME NEW t \in S PROVE Rank(S, down, t) \in 0..(n - 1)
    BY <1>1, RankGrows
  <2> QED
    BY <1>1, <1>3, <2>1
<1>15. ASSUME NEW t \in S, NEW u \in Earlier(S, down, t) PROVE u \in S /\ rank(u) < rank(t)
  <2>1. Rank(S, down, u) < Rank(S, down, t) /\ u \in S
    BY <1>1, RankGrows DEF Earlier
  <2> QED
    BY <1>3, <2>1
<1>5. DOMAIN p = 1..m
  BY <1>4
<1>6. ASSUME NEW i \in 1..m PROVE p[i] \in S /\ rank(p[i]) = i - 1
  <2>1. i - 1 \in 0..(n - 1)
    BY <1>1, <1>2
  <2>2. \E t \in S : rank(t) = i - 1
    <3>1. \E t \in S : Rank(S, down, t) = i - 1
      BY <1>1, <2>1, RankIsOnto
    <3> QED
      BY <1>3, <3>1
  <2>3. p[i] = CHOOSE t \in S : rank(t) = i - 1
    BY <1>4
  <2> HIDE DEF p
  <2> QED
    BY <2>2, <2>3
<1>7. p \in Seq(S) /\ Len(p) = m
  <2>1. p \in [1..m -> S]
    BY <1>4, <1>6
  <2> HIDE DEF p
  <2> QED
    BY <1>2, <2>1
<1> HIDE DEF p, n
\* Before is the order of the ranks.
<1>8. ASSUME NEW t \in S, NEW u \in S, rank(t) < rank(u) PROVE Before(f, t, u)
  <2>1. t \in Nat /\ u \in Nat /\ rank(t) \in Nat /\ rank(u) \in Nat
    BY <1>14
  <2>2. ~(rank(u) < rank(t)) /\ rank(u) # rank(t)
    BY <1>8, <2>1
  <2>3. u \notin Earlier(S, down, t)
    BY <1>15, <2>2
  <2>4. u # t
    BY <2>2
  <2> QED
    BY <2>1, <2>3, <2>4 DEF Earlier, Before
<1>9. ASSUME NEW t \in S, NEW u \in S, rank(t) = rank(u) PROVE t = u
  <2>1. t \in Nat /\ u \in Nat /\ rank(t) \in Nat /\ rank(u) \in Nat
    BY <1>14
  <2>2. ~(rank(u) < rank(t)) /\ ~(rank(t) < rank(u))
    BY <1>9, <2>1
  <2>3. u \notin Earlier(S, down, t) /\ t \notin Earlier(S, down, u)
    BY <1>15, <2>2
  <2> QED
    BY <2>1, <2>3 DEF Earlier
<1>10. ASSUME NEW j \in 1..Len(p), NEW i \in 1..(j - 1) PROVE Before(f, p[i], p[j])
  <2>1. i \in 1..m /\ j \in 1..m /\ i - 1 < j - 1
    BY <1>2, <1>7
  <2>2. rank(p[i]) = i - 1 /\ rank(p[j]) = j - 1 /\ p[i] \in S /\ p[j] \in S
    BY <1>6, <2>1
  <2> QED
    BY <1>8, <2>1, <2>2
<1>11. ASSUME NEW t \in S, ~\E i \in 1..Len(p) : p[i] = t
       PROVE  Len(p) = f.limit /\ \A i \in 1..Len(p) : Before(f, p[i], t)
  <2>1. rank(t) \in 0..(n - 1)
    BY <1>14
  <2>2. ~(rank(t) + 1 <= m)
    <3>1. SUFFICES ASSUME rank(t) + 1 <= m PROVE FALSE
      OBVIOUS
    <3>2. PICK i \in Nat : i = rank(t) + 1
      BY <2>1
    <3>3. i \in 1..m /\ i - 1 = rank(t)
      BY <1>2, <2>1, <3>1, <3>2
    <3>4. p[i] \in S /\ rank(p[i]) = rank(t)
      BY <1>6, <3>3
    <3>5. p[i] = t
      BY <1>9, <3>4
    <3> QED
      BY <1>7, <1>11, <3>3, <3>5
  <2>3. m = f.limit
    BY <1>1, <1>2, <2>1, <2>2
  <2>4. ASSUME NEW i \in 1..Len(p) PROVE Before(f, p[i], t)
    <3>1. i \in 1..m /\ i - 1 < rank(t)
      BY <1>2, <1>7, <2>1, <2>2
    <3>2. rank(p[i]) = i - 1 /\ p[i] \in S
      BY <1>6, <3>1
    <3> QED
      BY <1>8, <3>1, <3>2
  <2> QED
    BY <1>7, <2>3, <2>4
<1> QED
  BY <1>2, <1>7, <1>10, <1>11 DEF PageOver, p

(***************************************************************************)
(* 4. Answers.  What was asked, replied and delivered fits together for     *)
(* every request: the invariant AnswersInv.                                 *)
(***************************************************************************)

\* The fields of a request.
RequestFields == {"by", "op", "kind", "events", "sent", "packet", "frees", "server",
                  "outcomes", "reply", "message", "future", "answer"}

\* What a thread has asked for.
Asked(r) ==
  /\ DOMAIN r = RequestFields
  /\ r.by \in Threads /\ r.kind \in Kinds
  /\ \/ /\ r.op \in {"create", "lookup"}
        /\ r.events \in EventLists /\ r.sent \in Seq(Ids)
        /\ Len(r.events) < SizeLimit => r.sent = r.events
     \/ /\ r.op = "query"
        /\ r.sent = <<r.sent[1]>> /\ r.sent[1] \in Filter

\* What the cluster replied.
Replied(r) ==
  /\ r.server \in {"no", "sent", "run"}
  /\ r.server = "run" =>
       /\ r.op = "create" => /\ r.reply \in Seq(Results(r.kind))
                             /\ MergeCreateResults(r.sent, r.reply) = r.outcomes
       /\ r.op = "lookup" => MergeLookupResults(r.sent, r.reply) = r.outcomes

\* A message, or an answer, is an error or the reply.
Tells(r, m) ==
  /\ m.status \in {"Ok"} \cup PacketErrors
  /\ m.status = "Ok" => r.server = "run" /\ m.result = r.reply

\* What a request has delivered so far: a message once the packet is back, the answer
\* once the future has resolved.
Delivered(r) ==
  /\ r.packet \in {"lent", "reclaimed"}
  /\ r.future \in {"pending", "dropped", "ready"}
  /\ r.message.status \in {"none", "Ok"} \cup PacketErrors
  /\ r.answer.status \in {"none", "Ok"} \cup PacketErrors
  /\ r.packet = "lent" => r.message = NoMessage /\ r.future \in {"pending", "dropped"}
  /\ r.packet = "reclaimed" /\ r.future = "pending" => Tells(r, r.message)
  /\ r.future = "ready" => Tells(r, r.answer)

\* A request that has been made.
RequestOK(r) == Asked(r) /\ Replied(r) /\ Delivered(r)

\* All that is known of requests and of the ledger.
AnswersInv ==
  /\ DOMAIN requests = Slots
  /\ \A s \in Slots : requests[s] = Free \/ RequestOK(requests[s])
  /\ ledger \in Ledgers

-----------------------------------------------------------------------------

\* No request has been made.
LEMMA AnswersInit == Init => AnswersInv
  BY LedgerAssumption DEF Init, AnswersInv, Ledgers

\* A step that changes one request has only that one to account for.
LEMMA OneRequest ==
  ASSUME AnswersInv, NEW s \in Slots, DOMAIN requests' = Slots,
         \A u \in Slots \ {s} : requests'[u] = requests[u],
         RequestOK(requests'[s]), ledger' \in Ledgers
  PROVE  AnswersInv'
  BY DEF AnswersInv, RequestOK, Asked, Replied, Delivered, Tells, Free

\* A filter is sent as it is.
LEMMA SentFilter ==
  ASSUME NEW f \in Filter
  PROVE  SentEvents(<<f>>) = <<f>>
<1> DEFINE events == <<f>>
<1>1. events \in Seq(Filter) /\ Len(events) = 1
  OBVIOUS
<1> HIDE DEF events
<1>2. SizeLimit \in Nat /\ SizeLimit > 1
  BY ClientAssumption
<1>3. Len(events) % SizeLimit = Len(events)
  BY <1>1, <1>2
<1>4. SubSeq(events, 1, Len(events)) = events
  BY <1>1
<1>5. SentEvents(events) = events
  BY <1>3, <1>4 DEF SentEvents
<1> QED
  BY <1>5 DEF events

\* A new request.
LEMMA NewRequest ==
  ASSUME NEW t \in Threads, NEW op, NEW kind \in Kinds, NEW events,
         \/ op \in {"create", "lookup"} /\ events \in EventLists
         \/ op = "query" /\ events = <<events[1]>> /\ events[1] \in Filter
  PROVE  RequestOK(CreatePacket(t, op, kind, events)) /\ CreatePacket(t, op, kind, events) # Free
<1> DEFINE r == CreatePacket(t, op, kind, events)
<1>1. /\ r.by = t /\ r.op = op /\ r.kind = kind /\ r.events = events
      /\ r.sent = SentEvents(events) /\ r.packet = "lent" /\ r.server = "no"
      /\ r.message = NoMessage /\ r.answer = NoMessage /\ r.future = "pending"
      /\ DOMAIN r = RequestFields
  BY DEF CreatePacket, RequestFields
<1>2. NoMessage.status = "none"
  BY DEF NoMessage
<1>3. SizeLimit \in Nat /\ SizeLimit > 1
  BY ClientAssumption
<1>4. CASE op \in {"create", "lookup"} /\ events \in EventLists
  <2>1. events \in Seq(Ids)
    BY <1>4, ClientAssumption
  <2>2. SentEvents(events) \in Seq(Ids)
    <3>1. Len(events) % SizeLimit \in 0..Len(events)
      BY <1>3, <2>1
    <3> QED
      BY <2>1, <3>1 DEF SentEvents
  <2>3. Len(events) < SizeLimit => SentEvents(events) = events
    <3>1. Len(events) < SizeLimit => Len(events) % SizeLimit = Len(events)
      BY <1>3, <2>1
    <3> QED
      BY <2>1, <3>1 DEF SentEvents
  <2>4. Asked(r)
    BY <1>1, <1>4, <2>2, <2>3 DEF Asked
  <2> QED
    BY <1>1, <1>2, <2>4 DEF RequestOK, Replied, Delivered, RequestFields, Free
<1>5. CASE op = "query" /\ events = <<events[1]>> /\ events[1] \in Filter
  <2>1. SentEvents(events) = events
    BY <1>5, SentFilter
  <2>2. Asked(r)
    BY <1>1, <1>5, <2>1 DEF Asked
  <2> QED
    BY <1>1, <1>2, <2>2 DEF RequestOK, Replied, Delivered, RequestFields, Free
<1> QED
  BY <1>4, <1>5

\* What a completion leaves of a request.
LEMMA CompletedFields ==
  ASSUME AnswersInv, NEW s \in Slots, NEW status, NEW result,
         OnCompletion(s, status, result)
  PROVE  /\ DOMAIN requests' = Slots
         /\ \A u \in Slots \ {s} : requests'[u] = requests[u]
         /\ requests[s] # Free /\ RequestOK(requests[s])
         /\ DOMAIN requests'[s] = RequestFields
         /\ requests'[s].by = requests[s].by
         /\ requests'[s].op = requests[s].op
         /\ requests'[s].kind = requests[s].kind
         /\ requests'[s].events = requests[s].events
         /\ requests'[s].sent = requests[s].sent
         /\ requests'[s].server = requests[s].server
         /\ requests'[s].outcomes = requests[s].outcomes
         /\ requests'[s].reply = requests[s].reply
         /\ requests'[s].future = requests[s].future
         /\ requests'[s].answer = requests[s].answer
         /\ requests[s].packet = "lent" /\ requests'[s].packet = "reclaimed"
         /\ requests'[s].message = IF requests[s].future = "pending"
                                   THEN [status |-> status, result |-> result]
                                   ELSE requests[s].message
<1>1. requests[s] # Free /\ RequestOK(requests[s]) /\ DOMAIN requests = Slots
  BY DEF OnCompletion, Free, AnswersInv
<1>2. DOMAIN requests[s] = RequestFields
  BY <1>1 DEF RequestOK, Asked
<1> QED
  BY <1>1, <1>2 DEF OnCompletion, RequestFields

\* A completion delivers an error or the reply.
LEMMA CompletionOK ==
  ASSUME AnswersInv, NEW s \in Slots, NEW status \in {"Ok"} \cup PacketErrors, NEW result,
         OnCompletion(s, status, result), UNCHANGED ledger,
         status = "Ok" => requests[s].server = "run" /\ result = requests[s].reply
  PROVE  AnswersInv'
<1> DEFINE r == requests[s]
           q == requests'[s]
<1>1. /\ DOMAIN requests' = Slots
      /\ \A u \in Slots \ {s} : requests'[u] = requests[u]
      /\ RequestOK(r) /\ DOMAIN q = RequestFields
      /\ q.by = r.by /\ q.op = r.op /\ q.kind = r.kind /\ q.events = r.events
      /\ q.sent = r.sent /\ q.server = r.server /\ q.outcomes = r.outcomes
      /\ q.reply = r.reply /\ q.future = r.future /\ q.answer = r.answer
      /\ r.packet = "lent" /\ q.packet = "reclaimed"
      /\ q.message = IF r.future = "pending" THEN [status |-> status, result |-> result]
                     ELSE r.message
  BY CompletedFields
<1> HIDE DEF q, r
<1>2. Asked(q)
  BY <1>1 DEF RequestOK, Asked
<1>3. Replied(q)
  BY <1>1 DEF RequestOK, Replied
<1>4. q.message.status \in {"none", "Ok"} \cup PacketErrors
  BY <1>1 DEF RequestOK, Delivered
<1>5. Delivered(q)
  BY <1>1, <1>4 DEF RequestOK, Delivered, Tells, r
<1>6. RequestOK(q)
  BY <1>2, <1>3, <1>5 DEF RequestOK
<1> QED
  BY <1>1, <1>6, OneRequest DEF AnswersInv, q

\* What a step may leave as it is: what was asked, what the cluster replied, and
\* what was delivered.
SameQuestion(r, q) ==
  /\ DOMAIN q = DOMAIN r /\ q.by = r.by /\ q.op = r.op /\ q.kind = r.kind
  /\ q.events = r.events /\ q.sent = r.sent
SameReply(r, q) == q.server = r.server /\ q.outcomes = r.outcomes /\ q.reply = r.reply
SameDelivery(r, q) ==
  /\ q.packet = r.packet /\ q.message = r.message
  /\ q.answer = r.answer /\ q.future = r.future

\* The other requests stay as they are.
Others(s) ==
  /\ DOMAIN requests' = Slots
  /\ \A u \in Slots \ {s} : requests'[u] = requests[u]

\* What sending leaves of a request.
LEMMA SendFields ==
  ASSUME AnswersInv, NEW s \in Slots, Send(s)
  PROVE  /\ Others(s) /\ requests[s] # Free /\ RequestOK(requests[s])
         /\ SameQuestion(requests[s], requests'[s]) /\ SameDelivery(requests[s], requests'[s])
         /\ requests'[s].server = "sent"
<1>1. requests[s] # Free /\ RequestOK(requests[s]) /\ DOMAIN requests = Slots
  BY DEF Send, Free, AnswersInv
<1>2. DOMAIN requests[s] = RequestFields
  BY <1>1 DEF RequestOK, Asked
<1> QED
  BY <1>1, <1>2 DEF Send, RequestFields, SameQuestion, SameDelivery, Others

\* What execution leaves of a request.
LEMMA ExecuteFields ==
  ASSUME AnswersInv, NEW s \in Slots, Execute(s)
  PROVE  /\ Others(s) /\ requests[s] # Free /\ RequestOK(requests[s])
         /\ SameQuestion(requests[s], requests'[s]) /\ SameDelivery(requests[s], requests'[s])
         /\ requests[s].server = "sent" /\ requests'[s].server = "run"
         /\ requests'[s].outcomes = Run(requests[s], ledger).outcomes
         /\ requests'[s].reply = Run(requests[s], ledger).reply
         /\ ledger' = Run(requests[s], ledger).store
<1>1. requests[s] # Free /\ RequestOK(requests[s]) /\ DOMAIN requests = Slots
  BY DEF Execute, AnswersInv
<1>2. DOMAIN requests[s] = RequestFields
  BY <1>1 DEF RequestOK, Asked
<1> DEFINE run == Run(requests[s], ledger)
<1>3. /\ ledger' = run.store /\ requests[s].server = "sent"
      /\ requests' = [requests EXCEPT ![s].server = "run", ![s].outcomes = run.outcomes,
                                      ![s].reply = run.reply]
  BY DEF Execute
<1> HIDE DEF run
<1>4. /\ Others(s)
      /\ SameQuestion(requests[s], requests'[s]) /\ SameDelivery(requests[s], requests'[s])
      /\ requests'[s].server = "run" /\ requests'[s].outcomes = run.outcomes
      /\ requests'[s].reply = run.reply
  BY <1>1, <1>2, <1>3 DEF RequestFields, SameQuestion, SameDelivery, Others
<1> QED
  BY <1>1, <1>3, <1>4 DEF run

\* What dropping its future leaves of a request.
LEMMA DropFutureFields ==
  ASSUME AnswersInv, NEW s \in Slots, DropFuture(s)
  PROVE  /\ Others(s) /\ requests[s] # Free /\ RequestOK(requests[s])
         /\ SameQuestion(requests[s], requests'[s]) /\ SameReply(requests[s], requests'[s])
         /\ requests'[s].packet = requests[s].packet
         /\ requests'[s].message = requests[s].message
         /\ requests'[s].answer = requests[s].answer
         /\ requests[s].future = "pending" /\ requests'[s].future = "dropped"
<1>1. requests[s] # Free /\ RequestOK(requests[s]) /\ DOMAIN requests = Slots
  BY DEF DropFuture, AnswersInv
<1>2. DOMAIN requests[s] = RequestFields
  BY <1>1 DEF RequestOK, Asked
<1> QED
  BY <1>1, <1>2 DEF DropFuture, RequestFields, SameQuestion, SameReply, Others

\* A future that is ready tells the reply, or an error, and never panics.
LEMMA AwaitFields ==
  ASSUME AnswersInv, NEW s \in Slots, Await(s)
  PROVE  /\ Others(s) /\ requests[s] # Free /\ RequestOK(requests[s])
         /\ SameQuestion(requests[s], requests'[s]) /\ SameReply(requests[s], requests'[s])
         /\ requests'[s].packet = "reclaimed"
         /\ requests'[s].message = NoMessage
         /\ requests[s].future = "pending" /\ requests'[s].future = "ready"
         /\ Tells(requests'[s], requests'[s].answer)
<1> DEFINE r == requests[s]
           m == HandleMessage(r.message)
           a == [m EXCEPT !.result = ResultFrom(r, @)]
<1>1. r # Free /\ RequestOK(r) /\ DOMAIN requests = Slots
  BY DEF Await, AnswersInv
<1>2. DOMAIN r = RequestFields
  BY <1>1 DEF RequestOK, Asked
<1>3. r.future = "pending" /\ r.packet = "reclaimed" /\ Tells(r, r.message)
  BY <1>1 DEF Await, RequestOK, Delivered
<1>4. r.message # NoMessage
  BY <1>3 DEF Tells, NoMessage, PacketErrors
<1>5. /\ a.status = r.message.status
      /\ a.status = "Ok" => a.result = r.reply
      /\ ~Panics(r, a)
  <2>1. CASE r.message.status = "Ok"
    <3>1. m = [status |-> "Ok", result |-> r.reply] /\ r.server = "run"
      BY <1>3, <2>1 DEF HandleMessage, Tells
    <3>2. ResultFrom(r, r.reply) = r.reply /\ ~Panics(r, [status |-> "Ok", result |-> r.reply])
      <4>1. CASE r.op # "create"
        BY <4>1 DEF ResultFrom, Panics
      <4>2. CASE r.op = "create"
        <5>1. PICK rs \in Seq(Results(r.kind)) : rs = r.reply
          BY <1>1, <3>1, <4>2 DEF RequestOK, Replied
        <5>2. ASSUME NEW i \in DOMAIN rs
              PROVE  [rs[i] EXCEPT !.code = IF r.kind = "accounts" THEN AccountResultFrom(@)
                                            ELSE TransferResultFrom(@)] = rs[i]
          <6>4. rs[i] \in Results(r.kind)
            OBVIOUS
          <6>1. rs[i] \in [index : Nat, code : EventErrors(r.kind)]
            BY <6>4 DEF Results
          <6>2. r.kind \in Kinds
            BY <1>1 DEF RequestOK, Asked
          <6>3. (IF r.kind = "accounts" THEN AccountResultFrom(rs[i].code)
                                        ELSE TransferResultFrom(rs[i].code)) = rs[i].code
            BY <6>1, <6>2 DEF AccountResultFrom, TransferResultFrom, EventErrors, Kinds
          <6> QED
            BY <6>1, <6>3
        <5>3. ResultFrom(r, rs) = [i \in DOMAIN rs |-> rs[i]]
          BY <4>2, <5>2 DEF ResultFrom
        <5>4. ASSUME NEW i \in DOMAIN rs PROVE rs[i].code # "panic"
          <6>1. rs[i] \in Results(r.kind)
            OBVIOUS
          <6> QED
            BY <6>1 DEF Results, EventErrors
        <5> QED
          BY <5>1, <5>3, <5>4 DEF Panics
      <4> QED
        BY <4>1, <4>2
    <3> QED
      BY <2>1, <3>1, <3>2
  <2>2. CASE r.message.status # "Ok"
    <3>1. r.message.status \in PacketErrors
      BY <1>3, <2>2 DEF Tells
    <3>2. m = [status |-> r.message.status, result |-> <<>>]
      BY <2>2, <3>1 DEF HandleMessage, PacketStatusFrom
    <3>3. ResultFrom(r, <<>>) = <<>>
      BY DEF ResultFrom
    <3>4. a = [status |-> r.message.status, result |-> <<>>]
      BY <3>2, <3>3
    <3> HIDE DEF a, m, r
    <3> QED
      BY <2>2, <3>1, <3>4 DEF Panics, PacketErrors
  <2> QED
    BY <2>1, <2>2
<1>6. requests' = [requests EXCEPT ![s].message = NoMessage, ![s].answer = a,
                                   ![s].future = "ready"]
  BY <1>4, <1>5 DEF Await
<1> HIDE DEF a
<1>7. /\ Others(s) /\ SameQuestion(r, requests'[s]) /\ SameReply(r, requests'[s])
      /\ requests'[s].packet = r.packet /\ requests'[s].message = NoMessage
      /\ requests'[s].answer = a /\ requests'[s].future = "ready"
  BY <1>1, <1>2, <1>6 DEF RequestFields, SameQuestion, SameReply, Others
<1>8. Tells(requests'[s], a)
  BY <1>3, <1>5, <1>7 DEF Tells, SameReply
<1> QED
  BY <1>1, <1>3, <1>7, <1>8

\* A request keeps its question.
LEMMA QuestionStays ==
  ASSUME NEW r, NEW q, Asked(r), SameQuestion(r, q)
  PROVE  Asked(q)
  BY DEF Asked, SameQuestion

\* Sending answers nothing.
LEMMA SendOK ==
  ASSUME AnswersInv, NEW s \in Slots, Send(s)
  PROVE  AnswersInv'
<1> DEFINE r == requests[s]
           q == requests'[s]
<1>1. Others(s) /\ RequestOK(r) /\ SameQuestion(r, q) /\ SameDelivery(r, q) /\ q.server = "sent"
  BY SendFields
<1>2. r.server = "no" /\ UNCHANGED ledger
  BY DEF Send
<1> HIDE DEF r, q
<1>3. Asked(q)
  BY <1>1, QuestionStays DEF RequestOK
<1>4. Replied(q)
  BY <1>1 DEF Replied
<1>5. Delivered(q)
  BY <1>1, <1>2 DEF RequestOK, Delivered, SameDelivery, Tells
<1>6. RequestOK(q)
  BY <1>3, <1>4, <1>5 DEF RequestOK
<1> QED
  BY <1>1, <1>2, <1>6, OneRequest DEF Others, AnswersInv, q

\* The ledger only grows.
LEMMA RunOK ==
  ASSUME NEW r, Asked(r), NEW store \in Ledgers
  PROVE  /\ Run(r, store).store \in Extensions(store)
         /\ r.op = "create" => /\ Run(r, store).reply \in Seq(Results(r.kind))
                               /\ MergeCreateResults(r.sent, Run(r, store).reply)
                                    = Run(r, store).outcomes
         /\ r.op = "lookup" => MergeLookupResults(r.sent, Run(r, store).reply)
                                 = Run(r, store).outcomes
         /\ r.op = "query" => Run(r, store) = RunQuery(store, r.kind, r.sent[1])
<1>1. store \in Extensions(store)
  BY DEF Extensions, Ledgers
<1>2. r.kind \in Kinds
  BY DEF Asked
<1>3. CASE r.op = "create"
  <2>1. r.sent \in Seq(Ids)
    BY <1>3 DEF Asked
  <2>2. Run(r, store) = RunCreate(store, r.kind, r.sent)
    BY <1>3 DEF Run
  <2>3. /\ RunCreate(store, r.kind, r.sent) \in Creations(store, r.kind)
        /\ MergeCreateResults(r.sent, RunCreate(store, r.kind, r.sent).reply)
              = RunCreate(store, r.kind, r.sent).outcomes
    BY <1>2, <2>1, CreateAnswers
  <2>4. /\ Run(r, store).store \in Extensions(store)
        /\ Run(r, store).reply \in Seq(Results(r.kind))
    BY <2>2, <2>3 DEF Creations
  <2> QED
    BY <1>3, <2>2, <2>3, <2>4
<1>4. CASE r.op = "lookup"
  <2>1. r.sent \in Seq(Ids)
    BY <1>4 DEF Asked
  <2>2. Run(r, store) = RunLookup(store, r.kind, r.sent)
    BY <1>4 DEF Run
  <2>3. /\ RunLookup(store, r.kind, r.sent).store = store
        /\ MergeLookupResults(r.sent, RunLookup(store, r.kind, r.sent).reply)
              = RunLookup(store, r.kind, r.sent).outcomes
    BY <1>2, <2>1, LookupAnswers
  <2> QED
    BY <1>1, <1>4, <2>2, <2>3
<1>5. CASE r.op = "query"
  <2>1. Run(r, store) = RunQuery(store, r.kind, r.sent[1])
    BY <1>5 DEF Run
  <2>2. RunQuery(store, r.kind, r.sent[1]).store = store
    BY DEF RunQuery
  <2> QED
    BY <1>1, <1>5, <2>1, <2>2
<1> QED
  BY <1>3, <1>4, <1>5 DEF Asked

\* The cluster executes what it was sent.
LEMMA ExecuteOK ==
  ASSUME AnswersInv, NEW s \in Slots, Execute(s)
  PROVE  AnswersInv' /\ ledger' \in Extensions(ledger)
<1> DEFINE r == requests[s]
           q == requests'[s]
           run == Run(r, ledger)
<1>1. /\ Others(s) /\ RequestOK(r) /\ SameQuestion(r, q) /\ SameDelivery(r, q)
      /\ r.server = "sent" /\ q.server = "run"
      /\ q.outcomes = run.outcomes /\ q.reply = run.reply /\ ledger' = run.store
  BY ExecuteFields
<1>2. Asked(r) /\ ledger \in Ledgers
  BY <1>1 DEF RequestOK, AnswersInv
<1> HIDE DEF r, q
<1>3. /\ run.store \in Extensions(ledger)
      /\ r.op = "create" => /\ run.reply \in Seq(Results(r.kind))
                            /\ MergeCreateResults(r.sent, run.reply) = run.outcomes
      /\ r.op = "lookup" => MergeLookupResults(r.sent, run.reply) = run.outcomes
  BY <1>2, RunOK
<1> HIDE DEF run
<1>4. Asked(q)
  BY <1>1, <1>2, QuestionStays
<1>5. Replied(q)
  BY <1>1, <1>3 DEF Replied, SameQuestion
<1>6. Delivered(q)
  BY <1>1 DEF RequestOK, Delivered, SameDelivery, Tells
<1>7. RequestOK(q)
  BY <1>4, <1>5, <1>6 DEF RequestOK
<1>8. ledger' \in Extensions(ledger) /\ ledger' \in Ledgers
  BY <1>1, <1>3 DEF Extensions
<1> QED
  BY <1>1, <1>7, <1>8, OneRequest DEF Others, q

\* A future that is dropped tells nothing.
LEMMA DropFutureOK ==
  ASSUME AnswersInv, NEW s \in Slots, DropFuture(s)
  PROVE  AnswersInv'
<1> DEFINE r == requests[s]
           q == requests'[s]
<1>1. /\ Others(s) /\ RequestOK(r) /\ SameQuestion(r, q) /\ SameReply(r, q)
      /\ q.packet = r.packet /\ q.message = r.message /\ q.answer = r.answer
      /\ q.future = "dropped"
  BY DropFutureFields
<1> HIDE DEF r, q
<1>2. RequestOK(q)
  BY <1>1, QuestionStays
     DEF RequestOK, Replied, Delivered, Tells, SameReply, SameQuestion
<1> QED
  BY <1>1, <1>2, OneRequest DEF Others, DropFuture, AnswersInv, q

\* A future that resolves tells what was delivered.
LEMMA AwaitOK ==
  ASSUME AnswersInv, NEW s \in Slots, Await(s)
  PROVE  AnswersInv'
<1> DEFINE r == requests[s]
           q == requests'[s]
<1>1. /\ Others(s) /\ RequestOK(r) /\ SameQuestion(r, q) /\ SameReply(r, q)
      /\ q.packet = "reclaimed" /\ q.message = NoMessage /\ q.future = "ready"
      /\ Tells(q, q.answer)
  BY AwaitFields
<1> HIDE DEF r, q
<1>2. NoMessage.status = "none"
  BY DEF NoMessage
<1>3. Asked(q) /\ Replied(q)
  BY <1>1, QuestionStays DEF RequestOK, Replied, SameReply, SameQuestion
<1>4. Delivered(q)
  BY <1>1, <1>2 DEF Delivered, Tells
<1>5. RequestOK(q)
  BY <1>3, <1>4 DEF RequestOK
<1> QED
  BY <1>1, <1>5, OneRequest DEF Others, Await, AnswersInv, q

\* A new request has not been answered.
LEMMA SubmitOK ==
  ASSUME AnswersInv, NEW t, NEW op, NEW kind \in Kinds, NEW events,
         \/ op \in {"create", "lookup"} /\ events \in EventLists
         \/ op = "query" /\ events = <<events[1]>> /\ events[1] \in Filter,
         Submit(t, op, kind, events), holders \subseteq Threads
  PROVE  AnswersInv'
<1>1. PICK s \in Slots : requests' = [requests EXCEPT ![s] = CreatePacket(t, op, kind, events)]
  BY DEF Submit
<1>2. RequestOK(CreatePacket(t, op, kind, events))
  BY NewRequest DEF Submit
<1> QED
  BY <1>1, <1>2, OneRequest DEF AnswersInv, Submit

(***************************************************************************)
(* 5. The stream.  Pages left out nothing before the last one; what was in  *)
(* the range at first is on a page or still to come; and the one request    *)
(* that the stream waits for asks for what follows, and was answered from   *)
(* a ledger that held all of this: the invariant StreamInv.                 *)
(***************************************************************************)

\* Pages in the order of the filter, and a page that has a transfer.
Ordered(p) == \A j \in 1..Len(p) : \A i \in 1..(j - 1) : Before(event, p[i], p[j])
Has(p, t) == \E i \in 1..Len(p) : p[i] = t

\* The filter that follows the pages so far.
Following ==
  IF pages = <<>> THEN event
  ELSE IF event.reversed THEN [event EXCEPT !.max = Last(pages) - 1]
                         ELSE [event EXCEPT !.min = Last(pages) + 1]

\* A request that the stream waits for.
Asks(s) == requests[s] # Free /\ requests[s].by = Pager /\ requests[s].future = "pending"

\* It is the only one, it asks for what follows, and a reply is a page of what
\* the cluster held when it executed the request, nothing of which was known
\* to the stream before is missing.
Asking ==
  /\ \A s \in Slots : Asks(s) =>
       /\ state = "waiting"
       /\ requests[s].op = "query" /\ requests[s].kind = "transfers"
       /\ requests[s].sent = <<Following>>
       /\ requests[s].server = "run" =>
            \E k \in 0..Len(ledger) :
              /\ \A t \in present : t <= k
              /\ \A i \in 1..Len(pages) : pages[i] <= k
              /\ PageOver(requests[s].reply,
                          {t \in Timestamps(ledger, "transfers", Following) : t <= k}, Following)
  /\ \A s \in Slots : \A u \in Slots : Asks(s) /\ Asks(u) => s = u

\* The pages are in order, are transfers of the range, and left out nothing that comes
\* before the last one (a stream from the newest on knows nothing newer than its first).
Pages ==
  /\ pages \in Seq(Nat) /\ Ordered(pages)
  /\ \A i \in 1..Len(pages) : pages[i] \in InRange(ledger)
  /\ pages # <<>> =>
       \A t \in InRange(ledger) :
         (event.reversed => t <= pages[1]) =>
           Has(pages, t) \/ Before(event, Last(pages), t)

\* What was in the range when the stream was made is on a page or still to come.
Promised ==
  /\ present \subseteq InRange(ledger)
  /\ \A t \in present :
       \/ Has(pages, t)
       \/ ~(state = "end" /\ ~broken) /\ (pages = <<>> \/ Before(event, Last(pages), t))

\* The stream itself.
Stream ==
  /\ state \in {"none", "start", "continue", "waiting", "end", "dropped"}
  /\ event \in PagingFilters /\ begin \in Nat /\ broken \in BOOLEAN
  /\ state \in {"none", "start"} => pages = <<>>
  /\ state = "continue" => pages # <<>> /\ begin = TimestampBegin(pages)
  /\ holders \subseteq Threads

\* All that is known of the stream.
StreamInv == AnswersInv /\ Stream /\ Asking /\ Pages /\ Promised

\* What a range holds stays in it when the ledger grows; what is new is later.
LEMMA Growth ==
  ASSUME NEW l \in Ledgers, NEW m \in Extensions(l), NEW kind, NEW f
  PROVE  /\ Len(l) \in Nat /\ Len(l) <= Len(m) /\ Len(m) \in Nat
         /\ Timestamps(l, kind, f) \subseteq 1..Len(l)
         /\ Timestamps(l, kind, f) \subseteq Timestamps(m, kind, f)
         /\ \A t \in Timestamps(m, kind, f) :
              t \in Nat /\ (t \in Timestamps(l, kind, f) \/ t > Len(l))
<1>1. /\ l \in Seq(Objects) /\ m \in Seq(Objects) /\ Len(l) <= Len(m)
      /\ \A i \in 1..Len(l) : m[i] = l[i]
  BY DEF Ledgers, Extensions
<1>2. DOMAIN l = 1..Len(l) /\ DOMAIN m = 1..Len(m) /\ Len(l) \in Nat /\ Len(m) \in Nat
  BY <1>1
<1> QED
  BY <1>1, <1>2 DEF Timestamps

\* The filter of the stream is a filter with room for two transfers.
LEMMA FilterIsFilter ==
  ASSUME event \in PagingFilters
  PROVE  event \in Filter /\ event.limit > 1 /\ event.min \in Nat /\ event.max \in Nat
         /\ event.limit \in Nat /\ event.limit <= ResultMax /\ event.reversed \in BOOLEAN
  BY PagingAssumption DEF Filter

\* Pages and promises are about the ledger up to where it was.
LEMMA PagesStay ==
  ASSUME StreamInv, ledger' \in Extensions(ledger), UNCHANGED <<event, pages, present>>,
         state' = "end" /\ ~broken' => state = "end" /\ ~broken
  PROVE  Pages' /\ Promised'
<1> DEFINE L == InRange(ledger)
           M == InRange(ledger')
<1>1. /\ Len(ledger) \in Nat /\ L \subseteq 1..Len(ledger) /\ L \subseteq M
      /\ \A t \in M : t \in Nat /\ (t \in L \/ t > Len(ledger))
  BY Growth DEF StreamInv, AnswersInv, InRange
<1>2. M = InRange(ledger)'
  BY DEF InRange
<1> HIDE DEF L, M
<1>3. Promised'
  BY <1>1, <1>2 DEF StreamInv, Promised, Has, Before, L
<1>4. Pages'
  <2>1. pages' \in Seq(Nat) /\ Ordered(pages)'
    BY DEF StreamInv, Pages, Ordered, Before
  <2>2. \A i \in 1..Len(pages) : pages[i] \in L /\ pages[i] \in M
    BY <1>1 DEF StreamInv, Pages, L
  <2>3. ASSUME pages # <<>>, NEW t \in M, event.reversed => t <= pages[1]
        PROVE  Has(pages, t) \/ Before(event, Last(pages), t)
    <3>1. CASE t \in L
      BY <2>3, <3>1 DEF StreamInv, Pages, L
    <3>2. CASE t > Len(ledger)
      <4>1. 1 \in 1..Len(pages) /\ Len(pages) \in 1..Len(pages)
        BY <2>3 DEF StreamInv, Pages
      <4>2. pages[1] \in 1..Len(ledger) /\ Last(pages) \in 1..Len(ledger)
        BY <1>1, <2>2, <4>1 DEF Last
      <4>3. ~event.reversed /\ Last(pages) < t
        BY <1>1, <2>3, <3>2, <4>2
      <4> QED
        BY <4>3 DEF Before
    <3> QED
      BY <1>1, <3>1, <3>2
  <2> QED
    BY <1>2, <2>1, <2>2, <2>3 DEF Pages, Has, Before
<1> QED
  BY <1>3, <1>4

\* A request of the stream that is still pending has not changed, but for being
\* sent and executed.
Carried(s) ==
  Asks(s)' =>
    /\ Asks(s)
    /\ SameQuestion(requests[s], requests'[s])
    /\ requests'[s].server = "run" =>
         requests[s].server = "run" /\ requests'[s].reply = requests[s].reply

\* What the stream waits for stays what it asked for.
LEMMA AskingStays ==
  ASSUME StreamInv, ledger' \in Extensions(ledger), UNCHANGED <<event, pages, present>>,
         \A s \in Slots : Carried(s), state = "waiting" => state' = "waiting"
  PROVE  Asking'
<1>1. Following' = Following
  BY DEF Following
<1>2. /\ Len(ledger) \in Nat /\ Len(ledger') \in Nat /\ Len(ledger) <= Len(ledger')
      /\ Timestamps(ledger, "transfers", Following) \subseteq 1..Len(ledger)
      /\ Timestamps(ledger, "transfers", Following)
           \subseteq Timestamps(ledger', "transfers", Following)
      /\ \A t \in Timestamps(ledger', "transfers", Following) :
           t \in Nat /\ (t \in Timestamps(ledger, "transfers", Following) \/ t > Len(ledger))
  BY Growth DEF StreamInv, AnswersInv
<1>3. ASSUME NEW k \in 0..Len(ledger)
      PROVE  {t \in Timestamps(ledger', "transfers", Following) : t <= k}
             = {t \in Timestamps(ledger, "transfers", Following) : t <= k}
  BY <1>2
<1>4. ASSUME NEW s \in Slots, Asks(s)'
      PROVE  /\ state' = "waiting"
             /\ requests'[s].op = "query" /\ requests'[s].kind = "transfers"
             /\ requests'[s].sent = <<Following>>
             /\ requests'[s].server = "run" =>
                  \E k \in 0..Len(ledger') :
                    /\ \A t \in present : t <= k
                    /\ \A i \in 1..Len(pages) : pages[i] <= k
                    /\ PageOver(requests'[s].reply,
                                {t \in Timestamps(ledger', "transfers", Following) : t <= k},
                                Following)
  <2>1. Asks(s) /\ SameQuestion(requests[s], requests'[s])
    BY <1>4 DEF Carried
  <2>2. /\ state' = "waiting" /\ requests'[s].op = "query" /\ requests'[s].kind = "transfers"
        /\ requests'[s].sent = <<Following>>
    BY <2>1 DEF StreamInv, Asking, SameQuestion
  <2>3. ASSUME requests'[s].server = "run"
        PROVE  \E k \in 0..Len(ledger') :
                 /\ \A t \in present : t <= k
                 /\ \A i \in 1..Len(pages) : pages[i] <= k
                 /\ PageOver(requests'[s].reply,
                             {t \in Timestamps(ledger', "transfers", Following) : t <= k},
                             Following)
    <3>1. requests[s].server = "run" /\ requests'[s].reply = requests[s].reply
      BY <1>4, <2>3 DEF Carried
    <3>2. PICK k \in 0..Len(ledger) :
                 /\ \A t \in present : t <= k
                 /\ \A i \in 1..Len(pages) : pages[i] <= k
                 /\ PageOver(requests[s].reply,
                             {t \in Timestamps(ledger, "transfers", Following) : t <= k},
                             Following)
      BY <2>1, <3>1 DEF StreamInv, Asking
    <3>3. k \in 0..Len(ledger')
      BY <1>2
    <3> QED
      BY <1>3, <3>1, <3>2, <3>3
  <2> QED
    BY <2>2, <2>3
<1>5. ASSUME NEW s \in Slots, NEW u \in Slots, Asks(s)', Asks(u)'
      PROVE  s = u
  BY <1>5 DEF Carried, StreamInv, Asking
<1> QED
  BY <1>1, <1>4, <1>5, ZenonT(40) DEF Asking, PageOver, Before

\* The last transfer of a page is not the first object of the ledger.
LEMMA LastIsTransfer ==
  ASSUME StreamInv, pages # <<>>
  PROVE  /\ Len(pages) \in 1..Len(pages) /\ 1 \in 1..Len(pages) /\ Last(pages) = pages[Len(pages)]
         /\ Last(pages) \in Nat /\ Last(pages) > 1
         /\ Last(pages) \in InRange(ledger) /\ InBounds(event, Last(pages))
<1>1. Len(pages) \in 1..Len(pages) /\ 1 \in 1..Len(pages) /\ Last(pages) = pages[Len(pages)]
  BY DEF StreamInv, Pages, Last
<1>2. Last(pages) \in Nat /\ Last(pages) \in InRange(ledger)
  BY <1>1 DEF StreamInv, Pages
<1>3. /\ ledger \in Seq(Objects) /\ (ledger # <<>> => ledger[1].kind = "accounts")
  BY DEF StreamInv, AnswersInv, Ledgers
<1>4. /\ Last(pages) \in 1..Len(ledger) /\ ledger[Last(pages)].kind = "transfers"
      /\ InBounds(event, Last(pages))
  BY <1>2, <1>3 DEF InRange, Timestamps
<1>5. Last(pages) # 1
  BY <1>3, <1>4
<1> QED
  BY <1>1, <1>2, <1>4, <1>5

\* The filter of the next page is met by what of the range comes after the pages.
LEMMA FollowingFilter ==
  ASSUME StreamInv
  PROVE  /\ Following \in Filter /\ Following.limit = event.limit /\ event.limit <= ResultMax
         /\ Following.reversed = event.reversed
         /\ \A t \in Nat : InBounds(Following, t) <=>
              /\ InBounds(event, t)
              /\ pages = <<>> \/ Before(event, Last(pages), t)
<1>1. /\ event \in Filter /\ event.min \in Nat /\ event.max \in Nat /\ event.limit \in Nat
      /\ event.limit <= ResultMax /\ event.reversed \in BOOLEAN
  BY FilterIsFilter DEF StreamInv, Stream
<1>2. CASE pages = <<>>
  BY <1>1, <1>2 DEF Following
<1>3. CASE pages # <<>>
  <2>1. PICK last \in Nat : last = Last(pages) /\ last > 1 /\ InBounds(event, last)
    BY <1>3, LastIsTransfer
  <2>2. CASE event.reversed
    <3>1. Following = [event EXCEPT !.max = last - 1]
      BY <1>3, <2>1, <2>2 DEF Following
    <3>2. /\ Following \in Filter /\ Following.limit = event.limit
          /\ Following.reversed = event.reversed
          /\ Following.min = event.min /\ Following.max = last - 1
      BY <1>1, <2>1, <3>1 DEF Filter
    <3>3. ASSUME NEW t \in Nat
          PROVE  InBounds(Following, t) <=> InBounds(event, t) /\ last > t
      BY <1>1, <2>1, <3>2 DEF InBounds
    <3> QED
      BY <1>1, <1>3, <2>1, <2>2, <3>2, <3>3 DEF Before
  <2>3. CASE ~event.reversed
    <3>1. Following = [event EXCEPT !.min = last + 1]
      BY <1>3, <2>1, <2>3 DEF Following
    <3>2. /\ Following \in Filter /\ Following.limit = event.limit
          /\ Following.reversed = event.reversed
          /\ Following.min = last + 1 /\ Following.max = event.max
      BY <1>1, <2>1, <3>1 DEF Filter
    <3>3. ASSUME NEW t \in Nat
          PROVE  InBounds(Following, t) <=> InBounds(event, t) /\ last < t
      BY <1>1, <2>1, <3>2 DEF InBounds
    <3> QED
      BY <1>1, <1>3, <2>1, <2>3, <3>2, <3>3 DEF Before
  <2> QED
    BY <2>2, <2>3
<1> QED
  BY <1>2, <1>3

\* The cluster answers the stream with a page of what it holds then.
LEMMA ExecuteStream ==
  ASSUME StreamInv, NEW s \in Slots, Execute(s), UNCHANGED pagingVars
  PROVE  Asking' /\ Pages' /\ Promised'
<1>1. AnswersInv
  BY DEF StreamInv
<1>2. ledger' \in Extensions(ledger)
  BY <1>1, ExecuteOK
<1>3. Pages' /\ Promised'
  BY <1>2, PagesStay DEF pagingVars
<1>4. /\ Others(s) /\ RequestOK(requests[s])
      /\ SameQuestion(requests[s], requests'[s]) /\ SameDelivery(requests[s], requests'[s])
      /\ requests'[s].reply = Run(requests[s], ledger).reply
      /\ ledger' = Run(requests[s], ledger).store
      /\ requests[s] # Free
  BY <1>1, ExecuteFields
<1>5. \A u \in Slots : Asks(u)' => Asks(u)
  BY <1>4 DEF Asks, Others, SameQuestion, SameDelivery, Free
<1>6. CASE ~Asks(s)
  <2>1. \A u \in Slots : Carried(u)
    BY <1>4, <1>5, <1>6 DEF Carried, Others, SameQuestion, Asks
  <2> QED
    BY <1>2, <1>3, <2>1, AskingStays DEF pagingVars
<1>7. CASE Asks(s)
  <2>1. /\ state = "waiting" /\ requests[s].op = "query" /\ requests[s].kind = "transfers"
        /\ requests[s].sent = <<Following>>
    BY <1>7 DEF StreamInv, Asking
  <2> DEFINE S == Timestamps(ledger, "transfers", Following)
  <2>2. requests'[s].reply = Page(S, Following) /\ ledger' = ledger
    BY <1>4, <2>1 DEF Run, RunQuery
  <2>3. /\ Len(ledger) \in Nat /\ S \subseteq 1..Len(ledger)
        /\ InRange(ledger) \subseteq 1..Len(ledger)
    BY <1>1, <1>2, Growth DEF AnswersInv, InRange
  <2>4. S \subseteq Nat /\ IsFiniteSet(S)
    <3>1. IsFiniteSet(1..Len(ledger))
      BY <2>3, FS_Interval
    <3> QED
      BY <2>3, <3>1, FS_Subset
  <2>5. PageOver(Page(S, Following), S, Following)
    BY <2>4, FollowingFilter, PageIsOver
  <2>6. {t \in S : t <= Len(ledger)} = S
    BY <2>3
  <2>7. /\ \A t \in present : t <= Len(ledger)
        /\ \A i \in 1..Len(pages) : pages[i] <= Len(ledger)
    BY <2>3 DEF StreamInv, Promised, Pages
  <2>8. Len(ledger) \in 0..Len(ledger)
    BY <2>3
  <2> HIDE DEF S
  <2>9. \E k \in 0..Len(ledger) :
          /\ \A t \in present : t <= k
          /\ \A i \in 1..Len(pages) : pages[i] <= k
          /\ PageOver(requests'[s].reply, {t \in S : t <= k}, Following)
    BY <2>2, <2>5, <2>6, <2>7, <2>8
  <2>10. Following' = Following
    BY DEF Following, pagingVars
  <2>11. \A u \in Slots : Asks(u)' => u = s
    BY <1>5, <1>7 DEF StreamInv, Asking
  <2>12. /\ state' = "waiting" /\ requests'[s].op = "query" /\ requests'[s].kind = "transfers"
         /\ requests'[s].sent = <<Following>> /\ present' = present /\ pages' = pages
         /\ event' = event
    BY <1>4, <2>1 DEF SameQuestion, pagingVars
  <2>13. Asking'
    <3>1. ASSUME NEW u \in Slots, Asks(u)'
          PROVE  /\ state' = "waiting"
                 /\ requests'[u].op = "query" /\ requests'[u].kind = "transfers"
                 /\ requests'[u].sent = <<Following>>
                 /\ \E k \in 0..Len(ledger) :
                      /\ \A t \in present : t <= k
                      /\ \A i \in 1..Len(pages) : pages[i] <= k
                      /\ PageOver(requests'[u].reply, {t \in S : t <= k}, Following)
      BY <2>9, <2>11, <2>12, <3>1
    <3> QED
      BY <2>2, <2>10, <2>11, <2>12, <3>1, ZenonT(40) DEF Asking, S, PageOver, Before
  <2> QED
    BY <1>3, <2>13
<1> QED
  BY <1>6, <1>7

\* Before is a strict order.
LEMMA BeforeIsOrder ==
  ASSUME NEW f \in Filter, NEW x \in Nat, NEW y \in Nat, NEW z \in Nat
  PROVE  /\ Before(f, x, y) /\ Before(f, y, z) => Before(f, x, z)
         /\ ~Before(f, x, x)
  BY DEF Before, Filter

\* A page of what follows continues the pages without a gap, and what it leaves
\* out comes after it when it is full.
LEMMA PageFollows ==
  ASSUME StreamInv, NEW page, NEW k \in 0..Len(ledger),
         \A t \in present : t <= k, \A i \in 1..Len(pages) : pages[i] <= k,
         PageOver(page, {t \in Timestamps(ledger, "transfers", Following) : t <= k}, Following),
         pages' = pages \o page, UNCHANGED <<event, ledger, present>>
  PROVE  /\ Pages' /\ page \in Seq(Nat)
         /\ page # <<>> => Last(pages') = Last(page) /\ Len(page) \in 1..Len(page)
         /\ \A t \in present :
              \/ Has(pages', t)
              \/ Len(page) = event.limit /\ pages' # <<>> /\ Before(event, Last(pages'), t)
<1> DEFINE S == {t \in Timestamps(ledger, "transfers", Following) : t <= k}
           L == InRange(ledger)
           n == Len(pages)
           m == Len(page)
           all == pages \o page
<1>1. /\ event \in Filter /\ event.limit > 1 /\ event.limit \in Nat /\ event.reversed \in BOOLEAN
  BY FilterIsFilter DEF StreamInv, Stream
<1>2. /\ Following.limit = event.limit
      /\ \A x, y : Before(Following, x, y) <=> Before(event, x, y)
      /\ \A t \in Nat : InBounds(Following, t) <=>
              /\ InBounds(event, t)
              /\ pages = <<>> \/ Before(event, Last(pages), t)
  BY FollowingFilter DEF Before
<1>3. /\ Len(ledger) \in Nat /\ k \in Nat /\ L \subseteq 1..Len(ledger)
      /\ Timestamps(ledger, "transfers", Following) \subseteq 1..Len(ledger)
  <2>1. ledger \in Extensions(ledger)
    BY DEF StreamInv, AnswersInv, Extensions, Ledgers
  <2> QED
    BY <2>1, Growth DEF StreamInv, AnswersInv, InRange
\* S is what of the range comes after the pages, up to k.
<1>4. \A t \in Nat : t \in S <=> /\ t \in L /\ t <= k
                                 /\ pages = <<>> \/ Before(event, Last(pages), t)
  BY <1>2, <1>3 DEF InRange, Timestamps
<1>5. S \subseteq Nat
  BY <1>3
<1>6. /\ page \in Seq(S) /\ m <= event.limit
      /\ \A j \in 1..m : \A i \in 1..(j - 1) : Before(event, page[i], page[j])
      /\ \A t \in S : \/ \E i \in 1..m : page[i] = t
                      \/ m = event.limit /\ \A i \in 1..m : Before(event, page[i], t)
  BY <1>2 DEF PageOver
<1>7. /\ pages \in Seq(Nat) /\ Ordered(pages) /\ \A i \in 1..n : pages[i] \in L
  BY DEF StreamInv, Pages
<1> HIDE DEF S, L
<1>8. page \in Seq(Nat)
  <2>1. m \in Nat /\ page \in [1..m -> S]
    BY <1>6
  <2>2. page \in [1..m -> Nat]
    BY <1>5, <2>1
  <2> QED
    BY <2>1, <2>2, SMTT(30)
<1>9. /\ all \in Seq(Nat) /\ Len(all) = n + m /\ n \in Nat /\ m \in Nat
      /\ \A i \in 1..n : all[i] = pages[i]
      /\ \A i \in 1..m : all[n + i] = page[i]
      /\ \A i \in 1..(n + m) : i \in 1..n \/ (i - n \in 1..m /\ all[i] = page[i - n])
  BY <1>7, <1>8
<1> HIDE DEF all
<1>10. \A i \in 1..m : page[i] \in Nat /\ page[i] \in L /\ page[i] <= k
                       /\ (pages = <<>> \/ Before(event, Last(pages), page[i]))
  <2>1. \A i \in 1..m : page[i] \in S
    BY <1>6
  <2> QED
    BY <1>4, <1>5, <2>1
<1>11. m # 0 => Last(all) = Last(page) /\ m \in 1..m /\ Last(page) = page[m]
  BY <1>8, <1>9 DEF Last
<1>12. ASSUME m = 0 PROVE all = pages
  BY <1>7, <1>8, <1>12 DEF all
<1>13. Ordered(all)
  <2>1. ASSUME NEW j \in 1..Len(all), NEW i \in 1..(j - 1) PROVE Before(event, all[i], all[j])
    <3>1. i \in 1..(n + m) /\ j \in 1..(n + m)
      BY <1>9
    <3>2. CASE j \in 1..n
      <4>1. i \in 1..n
        BY <1>9, <3>2
      <4> QED
        BY <1>7, <1>9, <3>2, <4>1 DEF Ordered
    <3>3. CASE j \notin 1..n /\ i \notin 1..n
      <4>1. /\ i - n \in 1..m /\ all[i] = page[i - n]
            /\ j - n \in 1..m /\ all[j] = page[j - n]
        BY <1>9, <3>1, <3>3
      <4>2. i - n \in 1..((j - n) - 1)
        BY <1>9, <4>1
      <4> QED
        BY <1>6, <4>1, <4>2
    <3>4. CASE j \notin 1..n /\ i \in 1..n
      <4>1. j - n \in 1..m /\ all[j] = page[j - n] /\ all[i] = pages[i]
        BY <1>9, <3>1, <3>4
      <4>2. /\ pages # <<>> /\ n \in 1..n /\ Last(pages) = pages[n] /\ Last(pages) \in Nat
            /\ pages[i] \in Nat
        BY <1>7, <3>4 DEF Last
      <4>3. Before(event, Last(pages), page[j - n]) /\ page[j - n] \in Nat
        BY <1>10, <4>1, <4>2
      <4>4. i = n \/ i \in 1..(n - 1)
        BY <1>9, <3>4
      <4>5. pages[i] = Last(pages) \/ Before(event, pages[i], Last(pages))
        BY <1>7, <4>2, <4>4 DEF Ordered
      <4> QED
        BY <1>1, <4>1, <4>2, <4>3, <4>5, BeforeIsOrder
    <3> QED
      BY <3>2, <3>3, <3>4
  <2> QED
    BY <2>1 DEF Ordered
<1>14. \A i \in 1..Len(all) : all[i] \in L
  BY <1>7, <1>9, <1>10
<1>15. ASSUME NEW t \in Nat, \E i \in 1..m : page[i] = t PROVE Has(all, t)
  <2>1. PICK i \in 1..m : page[i] = t
    BY <1>15
  <2>2. n + i \in 1..Len(all) /\ all[n + i] = t
    BY <1>9, <2>1, SMTT(30)
  <2> QED
    BY <2>2 DEF Has
<1>16. ASSUME NEW t, Has(pages, t) PROVE Has(all, t)
  <2>1. PICK i \in 1..n : pages[i] = t
    BY <1>16 DEF Has
  <2>2. i \in 1..Len(all) /\ all[i] = t
    BY <1>9, <2>1
  <2> QED
    BY <2>2 DEF Has
<1>17. ASSUME NEW t \in S
       PROVE  Has(all, t) \/ (m = event.limit /\ m # 0 /\ Before(event, Last(all), t))
  <2>1. CASE \E i \in 1..m : page[i] = t
    BY <1>5, <1>15, <2>1
  <2>2. CASE m = event.limit /\ \A i \in 1..m : Before(event, page[i], t)
    BY <1>1, <1>11, <2>2
  <2> QED
    BY <1>6, <2>1, <2>2
<1>18. ASSUME all # <<>>, NEW t \in L, event.reversed => t <= all[1]
       PROVE  Has(all, t) \/ Before(event, Last(all), t)
  <2>1. t \in Nat
    BY <1>3 DEF L
  <2>2. CASE t \in S
    BY <1>17, <2>2
  <2>3. CASE pages # <<>> /\ ~Before(event, Last(pages), t)
    <3>1. 1 \in 1..n /\ all[1] = pages[1]
      BY <1>7, <1>9, <2>3
    <3>2. Has(pages, t)
      BY <1>18, <2>3, <3>1 DEF StreamInv, Pages, L
    <3> QED
      BY <1>16, <3>2
  <2>4. CASE t > k /\ m # 0 /\ (pages = <<>> \/ Before(event, Last(pages), t))
    <3>1. Last(all) \in Nat /\ Last(all) <= k /\ 1 \in 1..m
      BY <1>9, <1>10, <1>11, <2>4
    <3>2. CASE ~event.reversed
      BY <1>3, <2>1, <2>4, <3>1, <3>2 DEF Before
    <3>3. CASE event.reversed
      <4>1. all[1] <= k /\ all[1] \in Nat
        <5>1. CASE pages = <<>>
          <6>1. n = 0 /\ all[n + 1] = page[1]
            BY <1>9, <3>1, <5>1
          <6> QED
            BY <1>10, <3>1, <6>1
        <5>2. CASE pages # <<>>
          <6>1. 1 \in 1..n /\ all[1] = pages[1] /\ pages[1] \in Nat
            BY <1>7, <1>9, <5>2
          <6> QED
            BY <6>1
        <5> QED
          BY <5>1, <5>2
      <4> QED
        BY <1>3, <1>18, <2>1, <2>4, <3>3, <4>1
    <3> QED
      BY <1>1, <3>2, <3>3
  <2>5. CASE m = 0
    BY <1>12, <1>18, <2>5 DEF StreamInv, Pages, L
  <2> QED
    BY <1>3, <1>4, <2>1, <2>2, <2>3, <2>4, <2>5
<1>19. ASSUME NEW t \in present
       PROVE  \/ Has(all, t)
              \/ m = event.limit /\ all # <<>> /\ Before(event, Last(all), t)
  <2>1. t \in L /\ t \in Nat /\ t <= k
    BY <1>3 DEF StreamInv, Promised, L
  <2>2. CASE Has(pages, t)
    BY <1>16, <2>2
  <2>3. CASE pages = <<>> \/ Before(event, Last(pages), t)
    <3>1. t \in S
      BY <1>4, <2>1, <2>3
    <3>2. m # 0 => all # <<>>
      BY <1>9
    <3> QED
      BY <1>17, <3>1, <3>2
  <2> QED
    BY <2>2, <2>3 DEF StreamInv, Promised
<1>20. pages' = all /\ InRange(ledger)' = L /\ event' = event /\ present' = present
  BY DEF all, L, InRange
<1>21. Pages'
  <2>1. Ordered(pages)'
    BY <1>13, <1>20 DEF Ordered, Before
  <2> QED
    BY <1>9, <1>14, <1>18, <1>20, <2>1 DEF Pages, Has, Before
<1> QED
  BY <1>8, <1>9, <1>11, <1>19, <1>20, <1>21

\* Once the answer is there the stream waits for nothing.
LEMMA NothingAsked ==
  ASSUME StreamInv, NEW s \in Slots, Asks(s), ~Asks(s)',
         \A u \in Slots \ {s} : requests'[u] = requests[u]
  PROVE  \A u \in Slots : ~Asks(u)'
<1>1. ASSUME NEW u \in Slots, Asks(u)' PROVE FALSE
  <2>1. u # s
    BY <1>1
  <2>2. Asks(u)
    BY <1>1, <2>1 DEF Asks
  <2> QED
    BY <2>1, <2>2 DEF StreamInv, Asking
<1> QED
  BY <1>1

\* The assertions of the stream hold for a full page.
LEMMA FullPage ==
  ASSUME StreamInv, NEW page, NEW k \in 0..Len(ledger),
         PageOver(page, {t \in Timestamps(ledger, "transfers", Following) : t <= k}, Following),
         Len(page) = event.limit
  PROVE  /\ page # <<>> /\ Last(page) \in Nat /\ Last(page) > 1 /\ Advances(page)
<1> DEFINE S == {t \in Timestamps(ledger, "transfers", Following) : t <= k}
           m == Len(page)
<1>1. event \in Filter /\ event.limit > 1 /\ event.limit \in Nat /\ event.reversed \in BOOLEAN
  BY FilterIsFilter DEF StreamInv, Stream
<1>2. ledger \in Seq(Objects) /\ (ledger # <<>> => ledger[1].kind = "accounts")
  BY DEF StreamInv, AnswersInv, Ledgers
<1>3. \A t \in S : t \in Nat /\ t > 1
  <2>1. ASSUME NEW t \in S PROVE t \in 1..Len(ledger) /\ ledger[t].kind = "transfers"
    BY <1>2 DEF Timestamps
  <2>2. ASSUME NEW t \in S PROVE t # 1
    BY <1>2, <2>1
  <2> QED
    BY <2>1, <2>2
<1>4. page \in Seq(S) /\ \A j \in 1..m : \A i \in 1..(j - 1) : Before(Following, page[i], page[j])
  BY DEF PageOver
<1> HIDE DEF S
<1>5. m \in 1..m /\ 1 \in 1..(m - 1) /\ 1 \in 1..m /\ Last(page) = page[m] /\ page # <<>>
  BY <1>1, <1>4 DEF Last
<1>6. page[1] \in Nat /\ page[m] \in Nat /\ page[m] > 1
  BY <1>3, <1>4, <1>5
<1>7. Before(event, page[1], page[m])
  BY <1>4, <1>5, FollowingFilter DEF Before
<1> QED
  BY <1>1, <1>5, <1>6, <1>7 DEF Advances, Before

\* The next page, the last one, or an error.
LEMMA PageArrivesStep ==
  ASSUME StreamInv, NEW s \in Slots, PageArrives(s)
  PROVE  StreamInv'
<1> DEFINE q == requests'[s]
           page == q.answer.result
<1>1. AnswersInv /\ Asks(s) /\ Await(s) /\ state = "waiting"
  BY DEF PageArrives, Waiting, Asks, StreamInv
<1>2. /\ UNCHANGED <<event, present, ledger, holders>>
      /\ state \in {"none", "start", "continue", "waiting", "end", "dropped"}
      /\ event \in PagingFilters /\ begin \in Nat /\ broken \in BOOLEAN
      /\ holders \subseteq Threads
  BY DEF PageArrives, Await, clientVars, StreamInv, Stream
<1>3. AnswersInv'
  BY <1>1, AwaitOK
<1>4. /\ Others(s) /\ RequestOK(requests[s])
      /\ SameQuestion(requests[s], q) /\ SameReply(requests[s], q)
      /\ q.future = "ready" /\ Tells(q, q.answer)
  BY <1>1, AwaitFields
<1>5. \A u \in Slots : ~Asks(u)'
  <2>1. ~Asks(s)'
    BY <1>4 DEF Asks
  <2> QED
    BY <1>1, <1>4, <2>1, NothingAsked DEF Others
<1>6. Asking'
  BY <1>5 DEF Asking
<1>7. /\ event \in Filter /\ event.limit > 1 /\ event.min \in Nat /\ event.max \in Nat
      /\ event.limit \in Nat /\ event.reversed \in BOOLEAN
  BY <1>2, FilterIsFilter
<1>8. ledger' \in Extensions(ledger)
  BY <1>1, <1>2 DEF AnswersInv, Extensions, Ledgers
<1>9. CASE q.answer.status # "Ok"
  <2>1. state' = "end" /\ broken' = TRUE /\ UNCHANGED <<begin, pages>>
    BY <1>4, <1>9 DEF PageArrives
  <2>2. Pages' /\ Promised'
    BY <1>2, <1>8, <2>1, PagesStay
  <2>3. Stream'
    BY <1>2, <2>1 DEF Stream
  <2> QED
    BY <1>3, <1>6, <2>2, <2>3 DEF StreamInv
<1>10. CASE q.answer.status = "Ok"
  <2>1. q.server = "run" /\ page = requests[s].reply /\ requests[s].server = "run"
    BY <1>4, <1>10 DEF Tells, SameReply
  <2>2. PICK k \in 0..Len(ledger) :
          /\ \A t \in present : t <= k
          /\ \A i \in 1..Len(pages) : pages[i] <= k
          /\ PageOver(page, {t \in Timestamps(ledger, "transfers", Following) : t <= k}, Following)
    BY <1>1, <2>1 DEF StreamInv, Asking
  <2> HIDE DEF page
  <2>3. ASSUME pages' = pages \o page
        PROVE  /\ Pages' /\ page \in Seq(Nat)
               /\ page # <<>> => Last(pages') = Last(page) /\ Len(page) \in 1..Len(page)
               /\ \A t \in present :
                    \/ Has(pages', t)
                    \/ Len(page) = event.limit /\ pages' # <<>> /\ Before(event, Last(pages'), t)
    BY <1>2, <2>2, <2>3, PageFollows
  <2>4. CASE ~MustPage(page)
    <3>1. state' = "end" /\ pages' = pages \o page /\ UNCHANGED <<begin, broken>>
      BY <1>4, <1>10, <2>4 DEF PageArrives, page
    <3>2. \A t \in present : Has(pages', t)
      BY <2>3, <2>4, <3>1 DEF MustPage
    <3>3. Promised'
      <4>1. present' = present /\ InRange(ledger)' = InRange(ledger)
        BY <1>2 DEF InRange
      <4>2. present \subseteq InRange(ledger)
        BY DEF StreamInv, Promised
      <4> QED
        BY <3>2, <4>1, <4>2 DEF Promised, Has
    <3>4. Stream'
      BY <1>2, <3>1 DEF Stream
    <3> QED
      BY <1>3, <1>6, <2>3, <3>1, <3>3, <3>4 DEF StreamInv
  <2>5. CASE MustPage(page)
    <3>1. page # <<>> /\ Last(page) \in Nat /\ Last(page) > 1 /\ Advances(page)
      BY <2>2, <2>5, FullPage DEF MustPage
    <3>2. /\ pages' = pages \o page /\ broken' = broken
          /\ IF ShouldContinue(page)
             THEN state' = "continue" /\ begin' = TimestampBegin(page)
             ELSE state' = "end" /\ begin' = begin
      BY <1>4, <1>10, <2>5, <3>1 DEF PageArrives, page
    <3>3. Last(pages') = Last(page) /\ pages' # <<>>
      BY <1>1, <2>3, <3>1, <3>2 DEF StreamInv, Pages
    <3>4. TimestampBegin(page) \in Nat /\ TimestampBegin(pages)' = TimestampBegin(page)
      BY <1>2, <1>7, <3>1, <3>3 DEF TimestampBegin
    <3>5. Stream'
      BY <1>2, <3>2, <3>3, <3>4 DEF Stream
    <3>6. /\ present \subseteq InRange(ledger) /\ present' = present
          /\ InRange(ledger)' = InRange(ledger)
      BY <1>2 DEF StreamInv, Promised, InRange
    <3>7. ASSUME NEW t \in present, ~ShouldContinue(page) PROVE Has(pages', t)
      <4>1. t \in Nat /\ InBounds(event, t)
        BY <1>1, <3>6 DEF InRange, Timestamps, AnswersInv, Ledgers
      <4>2. ~Before(event, Last(page), t)
        BY <1>7, <3>1, <3>7, <4>1 DEF ShouldContinue, TimestampBegin, InBounds, Before
      <4> QED
        BY <2>3, <3>2, <3>3, <4>2
    <3>8. Promised'
      <4>1. CASE ShouldContinue(page)
        <5>1. state' # "end"
          BY <3>2, <4>1
        <5>2. \A t \in present : Has(pages', t) \/ Before(event, Last(pages'), t)
          BY <2>3, <3>2
        <5> QED
          BY <1>2, <3>6, <5>1, <5>2 DEF Promised, Has, Before
      <4>2. CASE ~ShouldContinue(page)
        BY <3>6, <3>7, <4>2 DEF Promised, Has
      <4> QED
        BY <4>1, <4>2
    <3> QED
      BY <1>3, <1>6, <2>3, <3>2, <3>5, <3>8 DEF StreamInv
  <2> QED
    BY <2>4, <2>5
<1> QED
  BY <1>9, <1>10

\* Answers are about requests and the ledger only.
LEMMA AnswersStay ==
  ASSUME AnswersInv, UNCHANGED <<requests, ledger>>
  PROVE  AnswersInv' /\ ledger' \in Extensions(ledger)
  BY DEF AnswersInv, RequestOK, Asked, Replied, Delivered, Tells, Extensions, Ledgers, Free

\* The stream promises what is in the range when it is made.
LEMMA StartPagingStep ==
  ASSUME StreamInv, StartPaging
  PROVE  StreamInv'
<1>1. /\ state = "none" /\ state' = "start" /\ present' = InRange(ledger)
      /\ UNCHANGED <<event, begin, pages, broken, requests, ledger, holders>>
  BY DEF StartPaging, vars, clientVars
<1>2. AnswersInv' /\ ledger' \in Extensions(ledger)
  BY <1>1, AnswersStay DEF StreamInv
<1>3. \A s \in Slots : ~Asks(s)'
  BY <1>1 DEF StreamInv, Asking, Asks
<1>4. Asking' /\ Stream'
  BY <1>1, <1>3 DEF StreamInv, Stream, Asking
<1>5. InRange(ledger)' = InRange(ledger) /\ pages = <<>>
  BY <1>1 DEF InRange, StreamInv, Stream
<1>6. Promised'
  BY <1>1, <1>5 DEF Promised
<1>7. Pages'
  BY <1>1, <1>5 DEF StreamInv, Pages, Ordered, Before
<1> QED
  BY <1>2, <1>4, <1>6, <1>7 DEF StreamInv

\* The stream asks for what follows its pages.
LEMMA QueryPageStep ==
  ASSUME StreamInv, QueryPage
  PROVE  StreamInv'
<1>1. /\ state \in {"start", "continue"} /\ state' = "waiting"
      /\ Submit(Pager, "query", "transfers", <<NextFilter>>)
      /\ UNCHANGED <<event, begin, pages, broken, present, ledger, holders>>
  BY DEF QueryPage, GetAccountTransfers, Submit, clientVars
<1>2. NextFilter = Following
  <2>1. CASE state = "start"
    BY <2>1 DEF NextFilter, Following, StreamInv, Stream
  <2>2. CASE state = "continue"
    BY <2>2 DEF NextFilter, Following, StreamInv, Stream, TimestampBegin
  <2> QED
    BY <1>1, <2>1, <2>2
<1>3. Following \in Filter
  BY FollowingFilter
<1>4. AnswersInv'
  <2> DEFINE events == <<NextFilter>>
  <2>1. events = <<events[1]>> /\ events[1] \in Filter
    BY <1>2, <1>3
  <2>2. Submit(Pager, "query", "transfers", events) /\ holders \subseteq Threads /\ AnswersInv
    BY <1>1 DEF StreamInv, Stream
  <2> HIDE DEF events
  <2> QED
    BY <2>1, <2>2, SubmitOK DEF Kinds
<1>5. PICK s \in Slots :
        requests' = [requests EXCEPT
                       ![s] = CreatePacket(Pager, "query", "transfers", <<NextFilter>>)]
  BY <1>1 DEF Submit
<1>6. /\ requests'[s].op = "query" /\ requests'[s].kind = "transfers"
      /\ requests'[s].sent = <<Following>> /\ requests'[s].server = "no"
      /\ \A u \in Slots \ {s} : requests'[u] = requests[u]
  BY <1>2, <1>3, <1>5, SentFilter DEF CreatePacket, StreamInv, AnswersInv
<1>7. \A u \in Slots : Asks(u)' => u = s
  BY <1>1, <1>6 DEF StreamInv, Asking, Asks
<1>8. Following' = Following
  BY <1>1 DEF Following
<1>9. Asking'
  BY <1>1, <1>6, <1>7, <1>8 DEF Asking
<1>10. Stream'
  BY <1>1 DEF StreamInv, Stream
<1>11. Pages' /\ Promised'
  <2>1. ledger' \in Extensions(ledger)
    BY <1>1 DEF StreamInv, AnswersInv, Extensions, Ledgers
  <2> QED
    BY <1>1, <2>1, PagesStay
<1> QED
  BY <1>4, <1>9, <1>10, <1>11 DEF StreamInv

\* A stream that is dropped waits for nothing.
LEMMA DropStreamStep ==
  ASSUME StreamInv, DropStream
  PROVE  StreamInv'
<1>1. state' = "dropped" /\ UNCHANGED <<event, begin, pages, broken, present>>
  BY DEF DropStream
<1>2. CASE state # "waiting" /\ UNCHANGED vars
  <2>1. UNCHANGED <<requests, ledger, holders>>
    BY <1>2 DEF vars, clientVars
  <2>2. AnswersInv' /\ ledger' \in Extensions(ledger)
    BY <2>1, AnswersStay DEF StreamInv
  <2>3. \A s \in Slots : ~Asks(s)'
    BY <1>2, <2>1 DEF StreamInv, Asking, Asks
  <2>4. Asking' /\ Stream'
    BY <1>1, <2>1, <2>3 DEF StreamInv, Stream, Asking
  <2>5. Pages' /\ Promised'
    BY <1>1, <2>2, PagesStay
  <2> QED
    BY <2>2, <2>4, <2>5 DEF StreamInv
<1>3. ASSUME NEW s \in Slots, Waiting(s), DropFuture(s) PROVE StreamInv'
  <2>1. UNCHANGED <<ledger, holders>>
    BY <1>3 DEF DropFuture, clientVars
  <2>2. Asks(s) /\ AnswersInv
    BY <1>3 DEF Waiting, Asks, StreamInv
  <2>3. Others(s) /\ requests'[s].future = "dropped"
    BY <1>3, <2>2, DropFutureFields
  <2>4. \A u \in Slots : ~Asks(u)'
    <3>1. ~Asks(s)'
      BY <2>3 DEF Asks
    <3> QED
      BY <2>2, <2>3, <3>1, NothingAsked DEF Others
  <2>5. Asking' /\ Stream'
    BY <1>1, <2>1, <2>4 DEF StreamInv, Stream, Asking
  <2>6. AnswersInv'
    BY <1>3, <2>2, DropFutureOK
  <2>7. ledger' \in Extensions(ledger)
    BY <2>1, <2>2 DEF AnswersInv, Extensions, Ledgers
  <2>8. Pages' /\ Promised'
    BY <1>1, <2>7, PagesStay
  <2> QED
    BY <2>5, <2>6, <2>8 DEF StreamInv
<1> QED
  BY <1>2, <1>3 DEF DropStream

\* Whatever happens to the client and the cluster while the stream stays as it is.
LEMMA QuietStep ==
  ASSUME StreamInv, AnswersInv', holders' \subseteq Threads, ledger' \in Extensions(ledger),
         UNCHANGED pagingVars, \A s \in Slots : Carried(s)
  PROVE  StreamInv'
<1>1. Pages' /\ Promised' /\ Asking'
  BY PagesStay, AskingStays DEF pagingVars
<1>2. Stream'
  BY DEF StreamInv, Stream, pagingVars, TimestampBegin
<1> QED
  BY <1>1, <1>2 DEF StreamInv

\* Steps that leave the requests and the ledger alone.
LEMMA HandlesStep ==
  ASSUME StreamInv, UNCHANGED <<requests, ledger, pagingVars>>, holders' \subseteq Threads
  PROVE  StreamInv'
<1>1. AnswersInv' /\ ledger' \in Extensions(ledger)
  BY AnswersStay DEF StreamInv
<1>2. \A s \in Slots : Carried(s)
  BY DEF Carried, Asks, SameQuestion
<1> QED
  BY <1>1, <1>2, QuietStep

\* A request of another thread.
LEMMA OtherSubmitStep ==
  ASSUME StreamInv, UNCHANGED pagingVars, NEW t \in Threads \ {Pager}, NEW op, NEW kind \in Kinds,
         NEW events,
         \/ op \in {"create", "lookup"} /\ events \in EventLists
         \/ op = "query" /\ events = <<events[1]>> /\ events[1] \in Filter,
         Submit(t, op, kind, events)
  PROVE  StreamInv'
<1>1. AnswersInv /\ holders \subseteq Threads
  BY DEF StreamInv, Stream
<1>2. AnswersInv'
  BY <1>1, SubmitOK
<1>3. UNCHANGED <<ledger, holders>>
  BY DEF Submit, clientVars
<1>4. ledger' \in Extensions(ledger)
  BY <1>1, <1>3 DEF AnswersInv, Extensions, Ledgers
<1>5. PICK s \in Slots : requests' = [requests EXCEPT ![s] = CreatePacket(t, op, kind, events)]
  BY DEF Submit
<1>6. DOMAIN requests = Slots
  BY <1>1 DEF AnswersInv
<1>7. requests'[s].by = t /\ \A u \in Slots \ {s} : requests'[u] = requests[u]
  BY <1>5, <1>6 DEF CreatePacket
<1>8. \A u \in Slots : Carried(u)
  <2>1. Carried(s)
    BY <1>7 DEF Carried, Asks
  <2>2. ASSUME NEW u \in Slots \ {s} PROVE Carried(u)
    BY <1>7 DEF Carried, Asks, SameQuestion
  <2> QED
    BY <2>1, <2>2
<1> QED
  BY <1>1, <1>2, <1>3, <1>4, <1>8, QuietStep

\* Calls of the other threads.
LEMMA OtherCallStep ==
  ASSUME StreamInv, UNCHANGED pagingVars, OtherCall
  PROVE  StreamInv'
<1>1. PICK t \in Threads \ {Pager} : Call(t)
  BY DEF OtherCall
<1>2. ASSUME NEW kind \in Kinds, NEW e \in EventLists,
             Submit(t, "create", kind, e) \/ Submit(t, "lookup", kind, e)
      PROVE  StreamInv'
  BY <1>2, OtherSubmitStep
<1>3. ASSUME NEW kind \in Kinds, NEW f \in Filters, Submit(t, "query", kind, <<f>>)
      PROVE  StreamInv'
  <2> DEFINE events == <<f>>
  <2>1. events = <<events[1]>> /\ events[1] \in Filter
    BY ClientAssumption
  <2>2. Submit(t, "query", kind, events)
    BY <1>3
  <2> HIDE DEF events
  <2> QED
    BY <2>1, <2>2, OtherSubmitStep
<1>4. "accounts" \in Kinds /\ "transfers" \in Kinds
  BY DEF Kinds
<1>5. CASE CreateAccounts(t) \/ CreateTransfers(t) \/ LookupAccounts(t) \/ LookupTransfers(t)
  BY <1>2, <1>4, <1>5 DEF CreateAccounts, CreateTransfers, LookupAccounts, LookupTransfers
<1>6. CASE QueryAccounts(t) \/ QueryTransfers(t) \/ GetAccountBalances(t)
           \/ \E f \in Filters : GetAccountTransfers(t, f)
  BY <1>3, <1>4, <1>6 DEF QueryAccounts, QueryTransfers, GetAccountBalances, GetAccountTransfers
<1> QED
  BY <1>1, <1>5, <1>6 DEF Call

\* The futures of the other threads.
LEMMA FuturesStep ==
  ASSUME StreamInv, UNCHANGED pagingVars, Futures
  PROVE  StreamInv'
<1>1. PICK s \in Slots : Await(s) \/ DropFuture(s)
  BY DEF Futures
<1>2. AnswersInv /\ holders \subseteq Threads
  BY DEF StreamInv, Stream
<1>3. Others(s) /\ requests'[s].future # "pending" /\ AnswersInv'
  BY <1>1, <1>2, AwaitFields, AwaitOK, DropFutureFields, DropFutureOK
<1>4. UNCHANGED <<ledger, holders>>
  BY <1>1 DEF Await, DropFuture, clientVars
<1>5. ledger' \in Extensions(ledger)
  BY <1>2, <1>4 DEF AnswersInv, Extensions, Ledgers
<1>6. \A u \in Slots : Carried(u)
  <2>1. Carried(s)
    BY <1>3 DEF Carried, Asks
  <2>2. ASSUME NEW u \in Slots \ {s} PROVE Carried(u)
    BY <1>3 DEF Carried, Asks, SameQuestion, Others
  <2> QED
    BY <2>1, <2>2
<1> QED
  BY <1>2, <1>3, <1>4, <1>5, <1>6, QuietStep

\* A completion of any request.
LEMMA CompletionStreamStep ==
  ASSUME StreamInv, UNCHANGED <<ledger, holders, pagingVars>>,
         NEW s \in Slots, NEW status \in {"Ok"} \cup PacketErrors, NEW result,
         OnCompletion(s, status, result),
         status = "Ok" => requests[s].server = "run" /\ result = requests[s].reply
  PROVE  StreamInv'
<1>1. AnswersInv /\ holders' \subseteq Threads
  BY DEF StreamInv, Stream
<1>2. AnswersInv'
  BY <1>1, CompletionOK
<1>3. ledger' \in Extensions(ledger)
  BY <1>1 DEF AnswersInv, Extensions, Ledgers
<1>4. /\ Others(s) /\ SameQuestion(requests[s], requests'[s])
      /\ SameReply(requests[s], requests'[s])
      /\ requests'[s].future = requests[s].future /\ requests[s] # Free
  <2>1. DOMAIN requests[s] = RequestFields
    BY <1>1, CompletedFields DEF RequestOK, Asked
  <2> QED
    BY <1>1, <2>1, CompletedFields DEF Others, SameQuestion, SameReply
<1>5. \A u \in Slots : Carried(u)
  <2>1. Carried(s)
    BY <1>4 DEF Carried, Asks, SameQuestion, SameReply
  <2>2. ASSUME NEW u \in Slots \ {s} PROVE Carried(u)
    BY <1>4 DEF Carried, Asks, SameQuestion, Others
  <2> QED
    BY <2>1, <2>2
<1> QED
  BY <1>1, <1>2, <1>3, <1>5, QuietStep

\* Eviction and the end of the client only add errors to what tb_client sends.
LEMMA TbClientStreamStep ==
  ASSUME StreamInv, UNCHANGED pagingVars, TbClient
  PROVE  StreamInv'
<1>1. AnswersInv /\ holders \subseteq Threads
  BY DEF StreamInv, Stream
<1>2. CASE Evict
  BY <1>1, <1>2, HandlesStep DEF Evict, clientVars
<1>3. ASSUME NEW s \in Slots, RefuseTooLarge(s) \/ FailEvicted(s) \/ Shutdown(s)
      PROVE  StreamInv'
  <2>1. PICK status \in PacketErrors : OnCompletion(s, status, <<>>)
    BY <1>3 DEF RefuseTooLarge, FailEvicted, Shutdown, PacketErrors
  <2>2. UNCHANGED <<ledger, holders>>
    BY <1>3 DEF RefuseTooLarge, FailEvicted, Shutdown, clientVars
  <2>3. status # "Ok"
    BY DEF PacketErrors
  <2> QED
    BY <2>1, <2>2, <2>3, CompletionStreamStep
<1>4. ASSUME NEW s \in Slots, Complete(s)
      PROVE  StreamInv'
  BY <1>4, CompletionStreamStep DEF Complete, clientVars
<1>5. ASSUME NEW s \in Slots, Send(s)
      PROVE  StreamInv'
  <2>1. UNCHANGED <<ledger, holders>>
    BY <1>5 DEF Send, clientVars
  <2>2. AnswersInv' /\ ledger' \in Extensions(ledger)
    BY <1>1, <1>5, <2>1, SendOK DEF AnswersInv, Extensions, Ledgers
  <2>3. /\ Others(s) /\ SameQuestion(requests[s], requests'[s])
        /\ SameDelivery(requests[s], requests'[s])
        /\ requests'[s].server = "sent" /\ requests[s] # Free
    BY <1>1, <1>5, SendFields
  <2>4. \A u \in Slots : Carried(u)
    <3>1. Carried(s)
      BY <2>3 DEF Carried, Asks, SameQuestion, SameDelivery
    <3>2. ASSUME NEW u \in Slots \ {s} PROVE Carried(u)
      BY <2>3 DEF Carried, Asks, SameQuestion, Others
    <3> QED
      BY <3>1, <3>2
  <2> QED
    BY <1>1, <2>1, <2>2, <2>4, QuietStep
<1>6. ASSUME NEW s \in Slots, Execute(s)
      PROVE  StreamInv'
  <2>1. AnswersInv' /\ Asking' /\ Pages' /\ Promised'
    BY <1>1, <1>6, ExecuteOK, ExecuteStream
  <2>2. holders' \subseteq Threads
    BY <1>1, <1>6 DEF Execute, clientVars
  <2>3. Stream'
    BY <2>2 DEF StreamInv, Stream, pagingVars, TimestampBegin
  <2> QED
    BY <2>1, <2>3 DEF StreamInv
<1> QED
  BY <1>2, <1>3, <1>4, <1>5, <1>6 DEF TbClient

\* The stream has not been made.
LEMMA StreamInit == PagingInit => StreamInv
<1> SUFFICES ASSUME PagingInit PROVE StreamInv
  OBVIOUS
<1>1. /\ Init /\ state = "none" /\ event \in PagingFilters /\ begin = 0
      /\ pages = <<>> /\ broken = FALSE /\ present = {} /\ holders = {}
      /\ \A s \in Slots : requests[s] = Free
  BY DEF PagingInit, Init
<1>2. AnswersInv
  BY <1>1, AnswersInit
<1>3. Asking
  BY <1>1 DEF Asking, Asks
<1>4. Pages
  <2>1. pages \in Seq(Nat) /\ Len(pages) = 0
    BY <1>1
  <2> QED
    BY <1>1, <2>1 DEF Pages, Ordered
<1>5. Promised
  BY <1>1 DEF Promised
<1>6. Stream
  BY <1>1 DEF Stream
<1> QED
  BY <1>2, <1>3, <1>4, <1>5, <1>6 DEF StreamInv

\* Every step keeps the invariant.
LEMMA StreamStep == StreamInv /\ [PagingNext]_allVars => StreamInv'
<1> SUFFICES ASSUME StreamInv, [PagingNext]_allVars PROVE StreamInv'
  OBVIOUS
<1>0. holders \subseteq Threads
  BY DEF StreamInv, Stream
<1>1. CASE StartPaging
  BY <1>1, StartPagingStep
<1>2. CASE QueryPage
  BY <1>2, QueryPageStep
<1>3. CASE DropStream
  BY <1>3, DropStreamStep
<1>4. ASSUME NEW s \in Slots, PageArrives(s) PROVE StreamInv'
  BY <1>4, PageArrivesStep
<1>5. CASE (Open \/ LetGoes \/ Deinit) /\ UNCHANGED pagingVars
  <2>1. UNCHANGED <<requests, ledger>> /\ holders' \subseteq Threads
    BY <1>0, <1>5 DEF Open, LetGoes, LetGo, Close, DropHandle, Deinit
  <2> QED
    BY <1>5, <2>1, HandlesStep
<1>6. CASE OtherCall /\ UNCHANGED pagingVars
  BY <1>6, OtherCallStep
<1>7. CASE Futures /\ UNCHANGED pagingVars
  BY <1>7, FuturesStep
<1>8. CASE TbClient /\ UNCHANGED pagingVars
  BY <1>8, TbClientStreamStep
<1>9. CASE UNCHANGED allVars
  BY <1>0, <1>9, HandlesStep DEF allVars, vars, clientVars
<1> QED
  BY <1>1, <1>2, <1>3, <1>4, <1>5, <1>6, <1>7, <1>8, <1>9 DEF PagingNext

(***************************************************************************)
(* 6. Theorems.                                                             *)
(***************************************************************************)

\* Eviction is for good.
LEMMA EvictedStep == evicted \in BOOLEAN /\ [PagingNext]_allVars => evicted' \in BOOLEAN
<1> SUFFICES ASSUME evicted \in BOOLEAN, [PagingNext]_allVars PROVE evicted' \in BOOLEAN
  OBVIOUS
<1>1. CASE StartPaging \/ QueryPage \/ DropStream \/ UNCHANGED allVars
  BY <1>1 DEF StartPaging, QueryPage, DropStream, GetAccountTransfers, Submit, DropFuture,
     vars, allVars
<1>2. CASE Open \/ LetGoes \/ Deinit
  BY <1>2 DEF Open, LetGoes, LetGo, Close, DropHandle, Deinit
<1>3. CASE OtherCall
  BY <1>3 DEF OtherCall, Call, CreateAccounts, CreateTransfers, LookupAccounts,
     LookupTransfers, QueryAccounts, QueryTransfers, GetAccountBalances,
     GetAccountTransfers, Submit
<1>4. CASE Futures \/ \E s \in Slots : PageArrives(s)
  BY <1>4 DEF Futures, PageArrives, Await, DropFuture
<1>5. CASE TbClient
  BY <1>5 DEF TbClient, Evict, RefuseTooLarge, Send, Execute, Complete, FailEvicted, Shutdown
<1> QED
  BY <1>1, <1>2, <1>3, <1>4, <1>5 DEF PagingNext

\* The invariant of the whole client.
ClientInv == StreamInv /\ MemoryInv /\ evicted \in BOOLEAN

\* All of it holds in the beginning.
LEMMA ClientInit == PagingInit => ClientInv
  BY StreamInit, InitMemory DEF ClientInv, PagingInit, Init

\* And after every step.
LEMMA ClientStep == ClientInv /\ [PagingNext]_allVars => ClientInv'
  BY StreamStep, MemoryStep, EvictedStep DEF ClientInv

\* The types of the state follow.
LEMMA ClientInvTypes == ClientInv => TypeOK
<1> SUFFICES ASSUME StreamInv, MemoryInv, evicted \in BOOLEAN PROVE TypeOK
  BY DEF ClientInv
<1>1. /\ client \in {"unopened", "open", "closing", "closed", "failed"}
      /\ deinits \in Nat /\ boxFrees \in Nat
  BY DEF MemoryInv, Lifecycle
<1>2. /\ holders \subseteq Threads
      /\ state \in {"none", "start", "continue", "waiting", "end", "dropped"}
      /\ event \in PagingFilters /\ begin \in Nat /\ broken \in BOOLEAN
  BY DEF StreamInv, Stream
<1>3. ASSUME NEW s \in Slots
      PROVE  \/ requests[s] = Free
             \/ /\ requests[s].by \in Threads
                /\ requests[s].packet \in {"lent", "reclaimed"}
                /\ requests[s].server \in {"no", "sent", "run"}
                /\ requests[s].message.status \in {"none", "Ok"} \cup PacketErrors
                /\ requests[s].answer.status \in {"none", "Ok"} \cup PacketErrors
                /\ requests[s].future \in {"pending", "dropped", "ready", "panicked"}
                /\ requests[s].op = "query" => requests[s].sent[1].max \in Nat
  <2> SUFFICES ASSUME RequestOK(requests[s])
               PROVE  /\ requests[s].by \in Threads
                      /\ requests[s].packet \in {"lent", "reclaimed"}
                      /\ requests[s].server \in {"no", "sent", "run"}
                      /\ requests[s].message.status \in {"none", "Ok"} \cup PacketErrors
                      /\ requests[s].answer.status \in {"none", "Ok"} \cup PacketErrors
                      /\ requests[s].future \in {"pending", "dropped", "ready"}
                      /\ requests[s].op = "query" => requests[s].sent[1].max \in Nat
    BY DEF StreamInv, AnswersInv
  <2>1. requests[s].by \in Threads /\ (requests[s].op = "query" => requests[s].sent[1] \in Filter)
    BY DEF RequestOK, Asked
  <2>2. requests[s].op = "query" => requests[s].sent[1].max \in Nat
    BY <2>1 DEF Filter
  <2> QED
    BY <2>1, <2>2 DEF RequestOK, Replied, Delivered
<1>4. \A i \in DOMAIN pages : pages[i] \in DOMAIN ledger
  BY DEF StreamInv, Pages, InRange, Timestamps
<1>5. present \subseteq DOMAIN ledger
  BY DEF StreamInv, Promised, InRange, Timestamps
<1> QED
  BY <1>1, <1>2, <1>3, <1>4, <1>5 DEF TypeOK

\* What arrives is known to the conversions, and a full page has two transfers.
LEMMA StreamDoesNotPanic == StreamInv => NobodyPanics
  BY DEF StreamInv, Stream, AnswersInv, RequestOK, Delivered, NobodyPanics, NeverPanics

\* At the end nothing is left of what was promised.
LEMMA StreamIsPromised == StreamInv => EverythingIsPaged
<1> SUFFICES ASSUME StreamInv, state = "end", ~broken, NEW t \in present
             PROVE  \E i \in DOMAIN pages : pages[i] = t
  BY DEF EverythingIsPaged
<1>1. Has(pages, t) /\ DOMAIN pages = 1..Len(pages)
  BY DEF StreamInv, Promised, Pages
<1> QED
  BY <1>1 DEF Has

\* Pages in order that left nothing out are a contiguous piece of the range.
LEMMA StreamHasNoGaps == StreamInv => PagesHaveNoGaps
<1> SUFFICES ASSUME StreamInv, pages # <<>> PROVE PagesHaveNoGaps
  BY DEF PagesHaveNoGaps
<1> DEFINE lo == IF event.reversed THEN Last(pages) ELSE event.min
           hi == IF event.reversed THEN pages[1] ELSE Last(pages)
           n == Len(pages)
<1>1. /\ n \in 1..n /\ 1 \in 1..n /\ Last(pages) = pages[n] /\ DOMAIN pages = 1..n
      /\ \A i \in 1..n : pages[i] \in Nat /\ pages[i] \in InRange(ledger)
  BY LastIsTransfer DEF StreamInv, Pages
<1>2. \A j \in DOMAIN pages : \A i \in 1..(j - 1) : Before(event, pages[i], pages[j])
  BY <1>1 DEF StreamInv, Pages, Ordered
<1>3. n \in Nat
  BY DEF StreamInv, Pages
<1>4. event.min \in Nat
  BY FilterIsFilter DEF StreamInv, Stream
<1> HIDE DEF n
<1>5. ASSUME NEW i \in 1..n PROVE lo <= pages[i] /\ pages[i] <= hi
  <2>1. pages[i] = pages[n] \/ Before(event, pages[i], pages[n])
    <3>1. i = n \/ i \in 1..(n - 1)
      BY <1>3
    <3> QED
      BY <1>1, <1>2, <3>1
  <2>2. pages[i] = pages[1] \/ Before(event, pages[1], pages[i])
    <3>1. i = 1 \/ 1 \in 1..(i - 1)
      BY <1>3
    <3> QED
      BY <1>1, <1>2, <3>1
  <2>3. pages[i] >= event.min
    BY <1>1 DEF InRange, Timestamps, InBounds
  <2>4. pages[i] \in Nat /\ pages[1] \in Nat /\ pages[n] \in Nat
    BY <1>1
  <2> QED
    BY <1>1, <1>4, <2>1, <2>2, <2>3, <2>4 DEF Before
<1>6. ASSUME NEW t \in InRange(ledger), lo <= t, t <= hi
      PROVE  \E i \in 1..n : pages[i] = t
  <2>1. t \in Nat
    BY DEF InRange, Timestamps, StreamInv, AnswersInv, Ledgers
  <2>2. Has(pages, t) \/ Before(event, Last(pages), t)
    <3>1. event.reversed => t <= pages[1]
      BY <1>6
    <3> QED
      BY <3>1 DEF StreamInv, Pages
  <2>3. ~Before(event, Last(pages), t)
    <3>1. Last(pages) \in Nat
      BY <1>1
    <3> QED
      BY <1>6, <2>1, <3>1 DEF Before
  <2> QED
    BY <2>2, <2>3 DEF Has, n
<1> HIDE DEF lo, hi
<1>7. {pages[i] : i \in DOMAIN pages} = {t \in InRange(ledger) : lo <= t /\ t <= hi}
  BY <1>1, <1>5, <1>6
<1> QED
  BY <1>2, <1>7 DEF PagesHaveNoGaps, lo, hi

\* Batches whose size fits in 32 bits are sent whole.
LEMMA RepliesAreTrue ==
  ASSUME \A e \in EventLists : Len(e) < SizeLimit
  PROVE  StreamInv => AnswersAreTrue
<1> SUFFICES ASSUME StreamInv, NEW s \in Slots, Answered(s), requests[s].answer.status = "Ok"
             PROVE  LET r == requests[s]
                    IN  /\ r.server = "run"
                        /\ r.op = "create" =>
                             MergeCreateResults(r.events, r.answer.result) = r.outcomes
                        /\ r.op = "lookup" =>
                             MergeLookupResults(r.events, r.answer.result) = r.outcomes
  BY DEF AnswersAreTrue
<1> DEFINE r == requests[s]
<1>1. Asked(r) /\ Replied(r) /\ Delivered(r)
  BY DEF StreamInv, AnswersInv, RequestOK, Answered
<1>2. r.server = "run" /\ r.answer.result = r.reply
  BY <1>1 DEF Delivered, Tells, Answered
<1>3. r.op \in {"create", "lookup"} => r.sent = r.events
  BY <1>1 DEF Asked
<1> QED
  BY <1>1, <1>2, <1>3 DEF Replied

\* Whatever threads, clients, cluster and stream do: the state has its types.
THEOREM ClientTypes == Spec => []TypeOK
  BY ClientInit, ClientStep, ClientInvTypes, PTL DEF Spec

\* No future and no stream panics: the channel of a request always has a message,
\* every code is known to the conversions, and the assertions of the stream hold.
THEOREM NoPanics == Spec => []NobodyPanics
  BY StreamInit, StreamStep, StreamDoesNotPanic, PTL DEF Spec

\* The pages of a stream are a contiguous piece of the range in order, whatever other
\* threads create between two queries and whichever requests fail.
THEOREM NoGaps == Spec => []PagesHaveNoGaps
  BY StreamInit, StreamStep, StreamHasNoGaps, PTL DEF Spec

\* A stream that ends without an error has yielded all that was in the range when
\* it was made, for every limit that the cluster can answer in full: the caller's
\* duty, which PagingAssumption states with ResultMax.
THEOREM AllIsPaged == Spec => []EverythingIsPaged
  BY StreamInit, StreamStep, StreamIsPromised, PTL DEF Spec

\* A future that resolves to Ok tells what became of every event of the call, if no
\* caller submits so many events that their size wraps around as u32 (SizeLimit).
THEOREM TrueAnswers ==
  ASSUME \A e \in EventLists : Len(e) < SizeLimit
  PROVE  Spec => []AnswersAreTrue
  BY StreamInit, StreamStep, RepliesAreTrue, PTL DEF Spec

-----------------------------------------------------------------------------
(***************************************************************************)
(* Identifiers, which have a state of their own.  What has been issued is  *)
(* at most what the generator packs to, and every successor state packs to *)
(* more.                                                                   *)
(***************************************************************************)

IssuedUpToGen ==
    /\ gen = NoGenerator => issued = <<>>
    /\ gen # NoGenerator /\ gen.ms < MsLimit =>
         \A i \in 1..Len(issued) : issued[i] <= Pack(gen)

IdInv == IdTypeOK /\ IdsIncrease /\ IssuedUpToGen

\* A later millisecond outweighs every random part.
LEMMA LaterMillisecond ==
  ASSUME NEW m \in Nat, NEW n \in Nat, m < n
  PROVE  m * Randoms + Randoms <= n * Randoms
<1>1. PICK k \in Nat : n = m + 1 + k
  <2>1. n - (m + 1) \in Nat /\ n = m + 1 + (n - (m + 1))
    OBVIOUS
  <2> QED
    BY <2>1
<1>2. Randoms \in Nat /\ k * Randoms \in Nat
  BY WidthAssumption
<1>3. n * Randoms = m * Randoms + Randoms + k * Randoms
  BY <1>1, <1>2
<1> QED
  BY <1>2, <1>3

\* Packing does not lose anything below the width.
LEMMA PackFits ==
  ASSUME NEW g \in Generator
  PROVE  /\ Pack(g) \in Nat
         /\ g.ms < MsLimit => Pack(g) = g.ms * Randoms + g.random
<1>1. g.ms \in Nat /\ g.random \in Nat /\ MsLimit \in Nat \ {0} /\ Randoms \in Nat
  BY WidthAssumption DEF Generator, Random
<1>2. g.ms % MsLimit \in Nat /\ (g.ms < MsLimit => g.ms % MsLimit = g.ms)
  BY <1>1
<1>3. (g.ms % MsLimit) * Randoms \in Nat
  BY <1>1, <1>2
<1> QED
  BY <1>1, <1>2, <1>3 DEF Pack

\* A successor is a generator state, is no earlier, and packs to more.
LEMMA SuccessorIsGreater ==
  ASSUME NEW g \in Generator, NEW now \in Nat, NEW s \in NextStates(g, now)
  PROVE  /\ s \in Generator
         /\ g.ms <= s.ms
         /\ s.ms < MsLimit => Pack(g) < Pack(s)
<1>1. /\ g.ms \in Nat /\ g.random \in Nat /\ g.random < Randoms
      /\ Randoms \in Nat \ {0} /\ MsLimit \in Nat
  BY WidthAssumption DEF Generator, Random
<1>2. /\ s \in Generator
      /\ \/ g.ms < s.ms
         \/ s.ms = g.ms /\ s.random = g.random + 1
  <2>1. CASE now > g.ms
    BY <1>1, <2>1 DEF NextStates, Generator, Random
  <2>2. CASE ~(now > g.ms) /\ g.random < Randoms - 1
    BY <1>1, <2>2 DEF NextStates, Generator, Random
  <2>3. CASE ~(now > g.ms) /\ ~(g.random < Randoms - 1)
    BY <1>1, <2>3 DEF NextStates, Generator, Random
  <2> QED
    BY <2>1, <2>2, <2>3
<1>3. s.ms \in Nat /\ s.random \in Nat
  BY <1>2, WidthAssumption DEF Generator, Random
<1>4. ASSUME s.ms < MsLimit
      PROVE  Pack(g) < Pack(s)
  <2>1. /\ Pack(s) = s.ms * Randoms + s.random
        /\ Pack(g) = g.ms * Randoms + g.random
    BY <1>1, <1>2, <1>3, <1>4, PackFits
  <2>2. s.ms * Randoms \in Nat /\ g.ms * Randoms \in Nat
    BY <1>1, <1>3
  <2>3. CASE g.ms < s.ms
    <3>1. g.ms * Randoms + Randoms <= s.ms * Randoms
      BY <1>1, <1>3, <2>3, LaterMillisecond
    <3> QED
      BY <1>1, <1>3, <2>1, <2>2, <3>1
  <2>4. CASE s.ms = g.ms /\ s.random = g.random + 1
    BY <1>1, <1>3, <2>1, <2>2, <2>4
  <2> QED
    BY <1>2, <2>3, <2>4
<1> QED
  BY <1>1, <1>2, <1>3, <1>4

\* The invariant holds of threads that have generated nothing.
LEMMA InitIdInv == IdInit => IdInv
  BY WidthAssumption DEF IdInit, IdInv, IdTypeOK, IdsIncrease, IssuedUpToGen, MsFits

\* The step that issues an identifier.
LEMMA DrawIdInv ==
  ASSUME IdInv, NEW th \in Callers, Draw(th)
  PROVE  IdInv'
<1>1. gen \in Generator /\ clock \in Nat /\ issued \in Seq(Nat)
  BY DEF IdInv, IdTypeOK, Draw
<1>2. /\ gen' \in Generator
      /\ gen.ms <= gen'.ms
      /\ gen'.ms < MsLimit => Pack(gen) < Pack(gen')
      /\ Pack(gen) \in Nat
      /\ Pack(gen') \in Nat
  BY <1>1, SuccessorIsGreater, PackFits DEF Draw
<1>3. /\ issued' \in Seq(Nat)
      /\ Len(issued') = Len(issued) + 1
      /\ issued'[Len(issued) + 1] = Pack(gen')
      /\ \A i \in 1..Len(issued) : issued'[i] = issued[i]
  BY <1>1, <1>2 DEF Draw
<1>4. IdTypeOK'
  BY <1>1, <1>2, <1>3 DEF Draw, IdInv, IdTypeOK
<1>5. gen' # NoGenerator
  BY <1>2, NoneAssumption DEF Generator, Random
<1>6. ASSUME gen'.ms < MsLimit
      PROVE  /\ \A i \in 1..Len(issued) : issued[i] < Pack(gen')
             /\ \A i, j \in 1..Len(issued) : i < j => issued[i] < issued[j]
  <2>1. gen # NoGenerator /\ gen.ms < MsLimit
    BY <1>1, <1>2, <1>6, WidthAssumption DEF Draw, Generator
  <2>2. \A i \in 1..Len(issued) : issued[i] <= Pack(gen) /\ issued[i] \in Nat
    BY <1>1, <2>1 DEF IdInv, IssuedUpToGen
  <2> QED
    BY <1>2, <1>6, <2>1, <2>2 DEF IdInv, IdsIncrease, MsFits
<1>7. IssuedUpToGen'
  BY <1>2, <1>3, <1>5, <1>6, Len(issued) \in Nat, SMTT(30) DEF IssuedUpToGen, Pack
<1>8. IdsIncrease'
  <2> SUFFICES ASSUME gen'.ms < MsLimit,
                      NEW i \in 1..Len(issued'), NEW j \in 1..Len(issued'), i < j
               PROVE  issued'[i] < issued'[j]
    BY <1>5 DEF IdsIncrease, MsFits
  <2>1. Len(issued) \in Nat /\ i \in 1..Len(issued)
    BY <1>1, <1>3
  <2>2. CASE j \in 1..Len(issued)
    BY <1>3, <1>6, <2>1, <2>2
  <2>3. CASE j = Len(issued) + 1
    BY <1>3, <1>6, <2>1, <2>3
  <2> QED
    BY <1>3, <2>1, <2>2, <2>3
<1> QED
  BY <1>4, <1>7, <1>8 DEF IdInv

\* Every step of a thread keeps the invariant.
LEMMA StepIdInv == IdInv /\ [IdNext]_idVars => IdInv'
<1> SUFFICES ASSUME IdInv, [IdNext]_idVars PROVE IdInv'
  OBVIOUS
<1> USE DEF IdInv, IdTypeOK, IdsIncrease, IssuedUpToGen, MsFits, Pack
<1>1. ASSUME NEW th \in Callers, CallId(th) PROVE IdInv'
  BY <1>1 DEF CallId
<1>2. ASSUME NEW th \in Callers, Install(th) PROVE IdInv'
  BY <1>2 DEF Install, Generator
<1>3. ASSUME NEW th \in Callers, Draw(th) PROVE IdInv'
  BY <1>3, DrawIdInv
<1>4. CASE SetClock
  BY <1>4, WidthAssumption DEF SetClock
<1>5. CASE UNCHANGED idVars
  BY <1>5 DEF idVars
<1> QED
  BY <1>1, <1>2, <1>3, <1>4, <1>5 DEF IdNext

\* Identifiers are strictly increasing in the order in which threads draw
\* them from the shared generator of time_based_id.rs, while the milliseconds
\* fit their 48 bits.
THEOREM Increasing == IdSpec => []IdsIncrease
<1>1. IdInv => IdsIncrease
  BY DEF IdInv
<1> QED
  BY InitIdInv, StepIdInv, <1>1, PTL DEF IdSpec

\* The generator, its callers and what they got are of their types.
THEOREM IdTypes == IdSpec => []IdTypeOK
<1>1. IdInv => IdTypeOK
  BY DEF IdInv
<1> QED
  BY InitIdInv, StepIdInv, <1>1, PTL DEF IdSpec
=============================================================================
