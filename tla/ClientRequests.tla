---------------------------- MODULE ClientRequests ----------------------------
(***************************************************************************)
(* The Rust client of TigerBeetle (crates/tigerbeetle-client/src/lib.rs):  *)
(* requests as packets lent to tb_client, completed by a callback on       *)
(* tb_client's thread and awaited through a oneshot channel; futures that  *)
(* are dropped; the client shared by threads, closed or dropped while      *)
(* requests are under way.                                                 *)
(*                                                                         *)
(* tb_client and the cluster are external.  They are modelled from the     *)
(* contract in tb_client.rs and the crate's documentation: one request of  *)
(* a client is in flight at a time, an oversized packet is refused, an     *)
(* evicted client's packets fail, deinit completes every packet.           *)
(*                                                                         *)
(* An object of the ledger is [kind, id]; its timestamp is its place in    *)
(* `ledger`.  Requests are kept in Slots, one slot for each, never reused. *)
(***************************************************************************)
EXTENDS Naturals, Sequences, FiniteSets

CONSTANTS Threads,        \* threads that share the client (Arc<Client>)
          Ids,            \* ids of accounts and transfers
          EventLists,     \* what the threads submit: sequences of Ids
          Filters,        \* filters of range queries
          InitialLedgers, \* what the cluster may hold already
          MaxRequests,    \* bound on the requests of one behaviour
          BatchMax,       \* the most events of a batch (8189)
          ResultMax,      \* the most results of a range query (8189)
          SizeLimit       \* events whose size in bytes wraps to 0 as u32

Kinds == {"accounts", "transfers"}
Objects == [kind : Kinds, id : Ids]

\* The bounds and the direction of AccountFilter and QueryFilter; 0 is no bound.
Filter == [min : Nat, max : Nat, limit : Nat, reversed : BOOLEAN]

ASSUME ClientAssumption ==
  /\ MaxRequests \in Nat /\ BatchMax \in Nat \ {0} /\ SizeLimit \in Nat
  /\ ResultMax \in Nat \ {0}
  /\ BatchMax < SizeLimit
  /\ EventLists \subseteq Seq(Ids)
  /\ Filters \subseteq Filter

\* A transfer needs accounts, so the cluster's first object is an account.
ASSUME LedgerAssumption ==
  /\ InitialLedgers \subseteq Seq(Objects)
  /\ \A l \in InitialLedgers : l # <<>> => l[1].kind = "accounts"

VARIABLES holders,   \* threads with a handle on the client
          client,    \* "unopened", "open", "closing", "closed" or "failed"
          deinits,   \* threads spawned to call tb_client_deinit
          boxFrees,  \* how often the client's box was freed
          requests,  \* slot -> request
          evicted,   \* the cluster has evicted the client's session
          ledger     \* the cluster's objects in the order of creation

clientVars == <<holders, client, deinits, boxFrees>>
vars == <<clientVars, requests, evicted, ledger>>

Slots == 1..MaxRequests
Free == [packet |-> "free"]

(***************************************************************************)
(* Conversions of wire codes.  The panics of conversions.rs, and of        *)
(* `expect`, end the future in "panicked".                                 *)
(***************************************************************************)

PacketErrors == {"TooMuchData", "ClientEvicted", "ClientShutdown"}
EventErrors(kind) ==
  IF kind = "accounts" THEN {"Exists"} ELSE {"Exists", "DebitAccountNotFound"}

\* Mutant: a status the conversion does not know.
PacketStatusWithoutEvicted(code) ==
  IF code \in PacketErrors \ {"ClientEvicted"} THEN code ELSE "panic"

PacketStatusFrom(code) == IF code \in PacketErrors THEN code ELSE "panic"
AccountResultFrom(code) == IF code \in EventErrors("accounts") THEN code ELSE "panic"
\* Mutant: the conversion of the other kind of result.
AccountResultForTransfer(code) == IF code \in EventErrors("accounts") THEN code ELSE "panic"

TransferResultFrom(code) == IF code \in EventErrors("transfers") THEN code ELSE "panic"

(***************************************************************************)
(* The cluster.                                                            *)
(***************************************************************************)

Holds(store, kind, id) == \E i \in DOMAIN store : store[i] = [kind |-> kind, id |-> id]

\* What becomes of one event.  A transfer needs accounts; which ones does
\* not matter here.
EventOutcome(store, kind, id) ==
  IF kind = "transfers" /\ ~\E i \in DOMAIN store : store[i].kind = "accounts"
  THEN "DebitAccountNotFound"
  ELSE IF Holds(store, kind, id) THEN "Exists" ELSE "Ok"

\* One event of a batch that is being created.  Only events that did not
\* succeed are reported, with their index.
CreateEvent(done, kind, index, id) ==
  LET o == EventOutcome(done.store, kind, id)
  IN  [store    |-> IF o = "Ok" THEN Append(done.store, [kind |-> kind, id |-> id])
                                ELSE done.store,
       outcomes |-> Append(done.outcomes, o),
       reply    |-> IF o = "Ok" THEN done.reply
                                ELSE Append(done.reply, [index |-> index, code |-> o])]

\* The events of one batch, in order.
RunCreate(store, kind, events) ==
  LET run[n \in 0..Len(events)] ==
        IF n = 0 THEN [store |-> store, outcomes |-> <<>>, reply |-> <<>>]
                 ELSE CreateEvent(run[n - 1], kind, n, events[n])
  IN  run[Len(events)]

\* For each id whether it is there; only what is there is replied.
LookupEvent(done, store, kind, id) ==
  IF Holds(store, kind, id)
  THEN [outcomes |-> Append(done.outcomes, "Some"), reply |-> Append(done.reply, id)]
  ELSE [outcomes |-> Append(done.outcomes, "None"), reply |-> done.reply]

RunLookup(store, kind, ids) ==
  LET run[n \in 0..Len(ids)] ==
        IF n = 0 THEN [outcomes |-> <<>>, reply |-> <<>>]
                 ELSE LookupEvent(run[n - 1], store, kind, ids[n])
  IN  [store |-> store, outcomes |-> run[Len(ids)].outcomes, reply |-> run[Len(ids)].reply]

InBounds(f, t) == t >= f.min /\ (f.max = 0 \/ t <= f.max)

Timestamps(store, kind, f) == {t \in DOMAIN store : store[t].kind = kind /\ InBounds(f, t)}

Before(f, x, y) == IF f.reversed THEN x > y ELSE x < y

\* A range query: the objects of the range in the filter's order, each after as
\* many as its place says, and no more of them than the filter's limit and the
\* cluster's own allow.
Page(S, f) ==
  LET n == Cardinality(S)
      most == IF f.limit < ResultMax THEN f.limit ELSE ResultMax
  IN  [i \in 1..(IF n < most THEN n ELSE most) |->
         CHOOSE t \in S : Cardinality({u \in S : Before(f, u, t)}) = i - 1]

RunQuery(store, kind, f) ==
  [store |-> store, outcomes |-> <<>>, reply |-> Page(Timestamps(store, kind, f), f)]

Run(r, store) ==
  CASE r.op = "create" -> RunCreate(store, r.kind, r.sent)
    [] r.op = "lookup" -> RunLookup(store, r.kind, r.sent)
    [] r.op = "query"  -> RunQuery(store, r.kind, r.sent[1])

(***************************************************************************)
(* Packets.                                                                *)
(***************************************************************************)

\* data_size is a u32: a batch of SizeLimit events has size 0.
SentEvents(events) == SubSeq(events, 1, Len(events) % SizeLimit)

NoMessage == [status |-> "none", result |-> <<>>]

\* The packet, the copied events, the callback and the channel of a request.
CreatePacket(t, op, kind, events) ==
  [by |-> t, op |-> op, kind |-> kind, events |-> events, sent |-> SentEvents(events),
   packet |-> "lent", frees |-> 0, server |-> "no", outcomes |-> <<>>, reply |-> <<>>,
   message |-> NoMessage, future |-> "pending", answer |-> NoMessage]

\* tb_client_submit, called before the future is returned.
Submit(t, op, kind, events) ==
  /\ client = "open" /\ t \in holders
  /\ \E s \in Slots :
       /\ requests[s] = Free
       /\ \A u \in 1..(s - 1) : requests[u] # Free
       /\ requests' = [requests EXCEPT ![s] = CreatePacket(t, op, kind, events)]
  /\ UNCHANGED <<clientVars, evicted, ledger>>

\* tb_client's thread calls back: the packet, its events and the callback are
\* reclaimed, and the result is sent if the future is still there.
OnCompletion(s, status, result) ==
  /\ requests[s].packet = "lent"
  /\ requests' = [requests EXCEPT
       ![s].packet = "reclaimed",
       ![s].frees = @ + 1,
       ![s].message = IF requests[s].future = "pending"
                      THEN [status |-> status, result |-> result] ELSE @]

\* Mutant: the packet's status is not looked at.
HandleMessageUnchecked(msg) == [status |-> "Ok", result |-> msg.result]

HandleMessage(msg) ==
  IF msg.status = "Ok" THEN [status |-> "Ok", result |-> msg.result]
  ELSE [status |-> PacketStatusFrom(msg.status), result |-> <<>>]

\* The results of a reply as the crate's types: codes of failed events are
\* converted one by one, found objects are copied.
ResultFrom(r, result) ==
  IF r.op # "create" THEN result
  ELSE [i \in DOMAIN result |->
          [result[i] EXCEPT !.code = IF r.kind = "accounts" THEN AccountResultFrom(@)
                                                            ELSE TransferResultFrom(@)]]

Panics(r, a) ==
  \/ a.status = "panic"
  \/ r.op = "create" /\ \E i \in DOMAIN a.result : a.result[i].code = "panic"

\* `rx.await.expect("channel")`: a channel that closed without a message is
\* a panic of the thread that awaits.
Await(s) ==
  /\ requests[s] # Free /\ requests[s].future = "pending" /\ requests[s].packet # "lent"
  /\ LET r == requests[s]
         m == HandleMessage(r.message)
         a == [m EXCEPT !.result = ResultFrom(r, @)]
     IN  requests' = [requests EXCEPT
            ![s].message = NoMessage,
            ![s].answer = a,
            ![s].future = IF r.message = NoMessage \/ Panics(r, a) THEN "panicked" ELSE "ready"]
  /\ UNCHANGED <<clientVars, evicted, ledger>>

\* The future may be dropped; the request goes on.
DropFuture(s) ==
  /\ requests[s] # Free /\ requests[s].future = "pending"
  /\ requests' = [requests EXCEPT ![s].future = "dropped"]
  /\ UNCHANGED <<clientVars, evicted, ledger>>

(***************************************************************************)
(* The requests of the interface.                                          *)
(***************************************************************************)

CreateAccounts(t) == \E e \in EventLists : Submit(t, "create", "accounts", e)
CreateTransfers(t) == \E e \in EventLists : Submit(t, "create", "transfers", e)
LookupAccounts(t) == \E e \in EventLists : Submit(t, "lookup", "accounts", e)
LookupTransfers(t) == \E e \in EventLists : Submit(t, "lookup", "transfers", e)
QueryAccounts(t) == \E f \in Filters : Submit(t, "query", "accounts", <<f>>)
QueryTransfers(t) == \E f \in Filters : Submit(t, "query", "transfers", <<f>>)
GetAccountTransfers(t, f) == Submit(t, "query", "transfers", <<f>>)
\* One balance for each transfer of the account, under its timestamp.
GetAccountBalances(t) == \E f \in Filters : Submit(t, "query", "transfers", <<f>>)

(***************************************************************************)
(* Opening and closing.                                                    *)
(***************************************************************************)

\* When init fails the box stays allocated: nobody frees it.
Open ==
  /\ client = "unopened"
  /\ \/ client' = "open" /\ holders' = Threads
     \/ client' = "failed" /\ UNCHANGED holders
  /\ UNCHANGED <<deinits, boxFrees, requests, evicted, ledger>>

\* Mutants: Drop closes a client that close() has taken, or never.
DropGlueAlways(pointer) == 1
DropGlueNever(pointer) == 0

\* The pointer left behind by close() tells Drop that there is nothing to do.
DropGlue(pointer) == IF pointer = "null" THEN 0 ELSE 1

\* close() takes the client, so no other thread has a handle.  It replaces
\* the pointer, spawns the thread that deinits, and drops `self`.
Close(t) ==
  /\ client = "open" /\ holders = {t}
  /\ holders' = {} /\ client' = "closing"
  /\ LET pointer == "null"
     IN  deinits' = deinits + 1 + DropGlue(pointer)
  /\ UNCHANGED <<boxFrees, requests, evicted, ledger>>

\* A thread lets its handle go; the last one drops the client.
DropHandle(t) ==
  /\ client = "open" /\ t \in holders
  /\ holders' = holders \ {t}
  /\ IF holders' = {}
     THEN client' = "closing" /\ deinits' = deinits + DropGlue("live")
     ELSE UNCHANGED <<client, deinits>>
  /\ UNCHANGED <<boxFrees, requests, evicted, ledger>>

\* tb_client_deinit returned; the thread frees the box and closes the channel
\* that close() waits for.
Deinit ==
  /\ deinits > 0
  /\ \A s \in Slots : requests[s].packet # "lent"
  /\ client' = "closed"
  /\ deinits' = deinits - 1
  /\ boxFrees' = boxFrees + 1
  /\ UNCHANGED <<holders, requests, evicted, ledger>>

(***************************************************************************)
(* tb_client and the cluster.                                              *)
(***************************************************************************)

InFlight == {s \in Slots : requests[s].packet = "lent" /\ requests[s].server # "no"}
TooLarge(r) == r.op # "query" /\ Len(r.sent) > BatchMax

\* Before it is sent, a packet that is too large is completed with an error.
RefuseTooLarge(s) ==
  /\ requests[s] # Free /\ TooLarge(requests[s])
  /\ OnCompletion(s, "TooMuchData", <<>>)
  /\ UNCHANGED <<clientVars, evicted, ledger>>

Send(s) ==
  /\ requests[s].packet = "lent" /\ requests[s].server = "no"
  /\ ~TooLarge(requests[s])
  /\ InFlight = {} /\ ~evicted
  /\ requests' = [requests EXCEPT ![s].server = "sent"]
  /\ UNCHANGED <<clientVars, evicted, ledger>>

\* The cluster may execute what it was sent although the client is gone.
Execute(s) ==
  /\ requests[s] # Free /\ requests[s].server = "sent"
  /\ LET run == Run(requests[s], ledger)
     IN  /\ ledger' = run.store
         /\ requests' = [requests EXCEPT ![s].server = "run", ![s].outcomes = run.outcomes,
                                         ![s].reply = run.reply]
  /\ UNCHANGED <<clientVars, evicted>>

Complete(s) ==
  /\ requests[s] # Free /\ requests[s].server = "run"
  /\ OnCompletion(s, "Ok", requests[s].reply)
  /\ UNCHANGED <<clientVars, evicted, ledger>>

Evict ==
  /\ client = "open" /\ ~evicted
  /\ evicted' = TRUE
  /\ UNCHANGED <<clientVars, requests, ledger>>

FailEvicted(s) ==
  /\ evicted
  /\ requests[s] # Free
  /\ OnCompletion(s, "ClientEvicted", <<>>)
  /\ UNCHANGED <<clientVars, evicted, ledger>>

\* While tb_client_deinit runs, what is left is completed.
Shutdown(s) ==
  /\ deinits > 0
  /\ requests[s] # Free
  /\ OnCompletion(s, "ClientShutdown", <<>>)
  /\ UNCHANGED <<clientVars, evicted, ledger>>

(***************************************************************************)
(* The specification.                                                      *)
(***************************************************************************)

Init ==
  /\ holders = {} /\ client = "unopened" /\ deinits = 0 /\ boxFrees = 0
  /\ requests = [s \in Slots |-> Free]
  /\ evicted = FALSE
  /\ ledger \in InitialLedgers

\* A thread's calls, but for those that let the client go.
Call(t) ==
  \/ CreateAccounts(t) \/ CreateTransfers(t) \/ LookupAccounts(t) \/ LookupTransfers(t)
  \/ QueryAccounts(t) \/ QueryTransfers(t) \/ GetAccountBalances(t)
  \/ \E f \in Filters : GetAccountTransfers(t, f)

LetGo(t) == Close(t) \/ DropHandle(t)

TbClient ==
  \/ \E s \in Slots : RefuseTooLarge(s) \/ Send(s) \/ Execute(s) \/ Complete(s)
                      \/ FailEvicted(s) \/ Shutdown(s)
  \/ Evict

(***************************************************************************)
(* What a caller makes of a reply: merge_create_accounts_results,          *)
(* merge_create_transfers_results and the two for lookups walk the events  *)
(* and the results side by side, peeking at the next result.               *)
(***************************************************************************)

\* The step for one event; the result that is peeked at is results[done.at].
MergeCreate(done, results, index) ==
  IF done.at <= Len(results) /\ results[done.at].index = index
  THEN [out |-> Append(done.out, results[done.at].code), at |-> done.at + 1]
  ELSE [out |-> Append(done.out, "Ok"), at |-> done.at]

MergeCreateResults(events, results) ==
  LET merge[n \in 0..Len(events)] ==
        IF n = 0 THEN [out |-> <<>>, at |-> 1] ELSE MergeCreate(merge[n - 1], results, n)
  IN  merge[Len(events)].out

MergeLookup(done, results, id) ==
  IF done.at <= Len(results) /\ results[done.at] = id
  THEN [out |-> Append(done.out, "Some"), at |-> done.at + 1]
  ELSE [out |-> Append(done.out, "None"), at |-> done.at]

MergeLookupResults(ids, results) ==
  LET merge[n \in 0..Len(ids)] ==
        IF n = 0 THEN [out |-> <<>>, at |-> 1] ELSE MergeLookup(merge[n - 1], results, ids[n])
  IN  merge[Len(ids)].out

(***************************************************************************)
(* Properties.                                                             *)
(***************************************************************************)

Answered(s) == requests[s] # Free /\ requests[s].future = "ready"

\* A future that resolves to Ok tells, once merged, what became of every
\* event of the call: the cluster ran the request, nothing was cut off, and
\* failures and missing objects fall on the right events, duplicates included.
AnswersAreTrue ==
  \A s \in Slots : Answered(s) /\ requests[s].answer.status = "Ok" =>
    LET r == requests[s]
    IN  /\ r.server = "run"
        /\ r.op = "create" => MergeCreateResults(r.events, r.answer.result) = r.outcomes
        /\ r.op = "lookup" => MergeLookupResults(r.events, r.answer.result) = r.outcomes

\* Nothing that was lent to tb_client is lost or freed twice, in whatever order
\* completions, dropped futures, eviction and closing come: once the client is
\* closed, every packet was reclaimed once and the client's box freed once, and
\* the box is never freed while tb_client still holds a packet.
ReclaimedOnce ==
  /\ boxFrees <= 1
  /\ boxFrees = 1 => deinits = 0
  /\ \A s \in Slots : requests[s] # Free =>
       /\ requests[s].frees <= 1
       /\ boxFrees = 1 => requests[s].frees = 1

\* No future panics: its channel never closes without a message, and every
\* code that arrives is one the conversions know.
NeverPanics == \A s \in Slots : requests[s] # Free => requests[s].future # "panicked"

=============================================================================
