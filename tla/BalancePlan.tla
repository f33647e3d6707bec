---------------------------- MODULE BalancePlan ----------------------------
(***************************************************************************)
(* How a migration is planned: BalancePlan of compressor/src/plan.rs, and  *)
(* build_plan_from_csv of manager-node/src/grpc_service.rs.                *)
(*                                                                         *)
(* A plan holds four sequences, imported in this order: genesis accounts,  *)
(* regular accounts, synthetic transfers, windowed transfers.  Accounts    *)
(* come as a set (the code reads them out of a hash map), with the fields  *)
(* of Ledger.                                                              *)
(***************************************************************************)
EXTENDS Ledger

\* u128::MAX - 2 * ledger, and u128::MAX - 2 * ledger - 1.
GenesisCredit(ledger) == <<"credit", ledger>>
GenesisDebit(ledger) == <<"debit", ledger>>

\* The elements of a set in the order of keys that no two of them share.
InOrder(S, Key(_)) ==
    [i \in 1..Cardinality(S) |->
        CHOOSE x \in S : Cardinality({y \in S : Key(y) < Key(x)}) = i - 1]

\* The elements of a sequence at some places, in their order.
Picked(s, places) ==
    LET order == InOrder(places, LAMBDA i : i)
    IN  [k \in DOMAIN order |-> s[order[k]]]
Since(transfers, cutoff) ==
    Picked(transfers, {i \in DOMAIN transfers : transfers[i].ts >= cutoff})
Until(transfers, cutoff) ==
    Picked(transfers, {i \in DOMAIN transfers : transfers[i].ts < cutoff})

\* Mutant: a timestamp may repeat the one before it.
AppendNotEarlier(done, o, floor) ==
    LET prev == IF done = <<>> THEN floor ELSE Last(done).ts
    IN  Append(done, [o EXCEPT !.ts = IF @ < prev THEN prev ELSE @])

\* Sequences are deduplicated from the left: a timestamp that does not exceed
\* the one before it (at first: floor) becomes its successor.
AppendLater(done, o, floor) ==
    LET prev == IF done = <<>> THEN floor ELSE Last(done).ts
    IN  Append(done, [o EXCEPT !.ts = IF @ <= prev THEN prev + 1 ELSE @])
DedupeTimestamps(objects, floor) ==
    FoldLeft(LAMBDA done, o : AppendLater(done, o, floor), <<>>, objects)

\* The sum of a sequence of numbers.
Total(numbers) == FoldLeft(LAMBDA sum, n : sum + n, 0, numbers)

\* What transfers move out of an account, and into it.
DebitsIn(transfers, id) ==
    Total([i \in DOMAIN transfers |->
        IF transfers[i].debit = id THEN transfers[i].amount ELSE 0])
CreditsIn(transfers, id) ==
    Total([i \in DOMAIN transfers |->
        IF transfers[i].credit = id THEN transfers[i].amount ELSE 0])

\* saturating_sub
Minus(x, y) == IF x > y THEN x - y ELSE 0

-----------------------------------------------------------------------------

\* Two genesis accounts per ledger, with timestamps from 1 on.
Genesis(id, ledger, ts) ==
    [id |-> id, ledger |-> ledger, limit |-> "none", ts |-> ts,
     dr |-> 0, cr |-> 0, drp |-> 0, crp |-> 0]
GenesisPair(ledger, i) ==
    <<Genesis(GenesisCredit(ledger), ledger, 2 * i - 1),
      Genesis(GenesisDebit(ledger), ledger, 2 * i)>>
GenesisAccounts(accounts) ==
    LET ledgers == InOrder({a.ledger : a \in accounts}, LAMBDA l : l)
    IN  FlattenSeq([i \in DOMAIN ledgers |-> GenesisPair(ledgers[i], i)])

\* By age, after the genesis accounts.
RegularAccounts(accounts, genesisMax) ==
    DedupeTimestamps(InOrder(accounts, LAMBDA a : a.ts), genesisMax)

\* What is moved from one account to another, if anything.
Moved(debit, credit, amount, ledger) ==
    IF amount > 0
    THEN <<[debit |-> debit, credit |-> credit, amount |-> amount, ledger |-> ledger]>>
    ELSE <<>>

\* A synthetic transfer of that.
Synthetic(moved, id, ts) ==
    [id |-> id, kind |-> "single", debit |-> moved.debit, credit |-> moved.credit,
     amount |-> moved.amount, ledger |-> moved.ledger, pending |-> NoPending, ts |-> ts]

\* Mutant: one genesis account for both sides.
RebuildFromOneGenesis(a) ==
    Moved(GenesisCredit(a.ledger), a.id, a.cr, a.ledger)
    \o Moved(a.id, GenesisCredit(a.ledger), a.dr, a.ledger)

\* Mutant: the debit side first.
DebitSideFirst(a) ==
    Moved(a.id, GenesisDebit(a.ledger), a.dr, a.ledger)
    \o Moved(GenesisCredit(a.ledger), a.id, a.cr, a.ledger)

\* The transfers that rebuild one account: its credits first, so that
\* debits_must_not_exceed_credits holds in between.
RebuildAccount(a) ==
    Moved(GenesisCredit(a.ledger), a.id, a.cr, a.ledger)
    \o Moved(a.id, GenesisDebit(a.ledger), a.dr, a.ledger)

HasBalance(a) == a.cr > 0 \/ a.dr > 0

\* Mutant: after all accounts in a window too.
TransferTsFloorOfAll(regular, genesisMax, windowed) ==
    Max({genesisMax} \cup Timestamps(Range(regular)))

\* Where the timestamps of synthetic transfers start.
TransferTsFloor(regular, genesisMax, windowed) ==
    LET active == {a \in Range(regular) : windowed => HasBalance(a)}
    IN  Max({genesisMax} \cup Timestamps(active))

\* Ids from 1 on, timestamps from the floor on.
SyntheticTransfers(regular, floor) ==
    LET rebuild == FlattenSeq([i \in DOMAIN regular |-> RebuildAccount(regular[i])])
    IN  [i \in DOMAIN rebuild |-> Synthetic(rebuild[i], i, floor + i)]

BuildSnapshot(accounts, windowed) ==
    LET genesis == GenesisAccounts(accounts)
        regular == RegularAccounts(accounts, Len(genesis))
        floor   == TransferTsFloor(regular, Len(genesis), windowed)
    IN  [genesis   |-> genesis,
         regular   |-> regular,
         synthetic |-> SyntheticTransfers(regular, floor),
         windowed  |-> <<>>]

Build(accounts) == BuildSnapshot(accounts, FALSE)

\* Mutant: the deltas change sides.
AtCutoffSwapped(a, window, cutoff) ==
    LET debits  == DebitsIn(window, a.id)
        credits == CreditsIn(window, a.id)
    IN  IF a.ts >= cutoff
        THEN [a EXCEPT !.dr = 0, !.cr = 0]
        ELSE [a EXCEPT !.dr = Minus(@, credits), !.cr = Minus(@, debits)]

\* An account as it was at the cutoff: what its transfers in the window moved
\* is taken off, and one that is younger had nothing.
AtCutoff(a, window, cutoff) ==
    LET debits  == DebitsIn(window, a.id)
        credits == CreditsIn(window, a.id)
    IN  IF a.ts >= cutoff
        THEN [a EXCEPT !.dr = 0, !.cr = 0]
        ELSE [a EXCEPT !.dr = Minus(@, debits), !.cr = Minus(@, credits)]

BuildWindowed(accounts, window, cutoff) ==
    [BuildSnapshot({AtCutoff(a, window, cutoff) : a \in accounts}, TRUE)
        EXCEPT !.windowed = window]

-----------------------------------------------------------------------------
(***************************************************************************)
(* The plan that ExecuteMigration makes of a data file's ledger.           *)
(***************************************************************************)

AccountsOf(L) == Range(L.accounts)

\* A ledger with pending balances is refused.
IsSafe(L) == \A a \in AccountsOf(L) : a.drp = 0 /\ a.crp = 0

\* A cutoff of zero asks for a snapshot without window.
WindowOf(L, cutoff) ==
    IF cutoff > 0 THEN Since(L.transfers, cutoff) ELSE <<>>

PlanOf(L, cutoff) ==
    IF cutoff > 0 THEN BuildWindowed(AccountsOf(L), WindowOf(L, cutoff), cutoff)
                  ELSE Build(AccountsOf(L))

\* With accounts_only: no transfers, no genesis accounts, and no balances
\* (which are not imported anyway).
AccountsOnly(plan) ==
    [plan EXCEPT !.genesis = <<>>, !.synthetic = <<>>, !.windowed = <<>>,
                 !.regular = [i \in DOMAIN @ |->
                    [@[i] EXCEPT !.dr = 0, !.cr = 0, !.drp = 0, !.crp = 0]]]

-----------------------------------------------------------------------------
(***************************************************************************)
(* Plans made of CSV transfers alone, for accounts that exist already.     *)
(***************************************************************************)

PairOf(t) == <<t.debit, t.credit, t.ledger>>
Between(transfers, pair) ==
    [debit |-> pair[1], credit |-> pair[2], ledger |-> pair[3],
     amount |-> Total([i \in DOMAIN transfers |->
        IF PairOf(transfers[i]) = pair THEN transfers[i].amount ELSE 0])]

\* One transfer per debit account, credit account and ledger, in the last
\* timestamps before the cutoff.  `pairs` lists them as the hash map does.
Aggregated(transfers, pairs, cutoff) ==
    [i \in DOMAIN pairs |->
        Synthetic(Between(transfers, pairs[i]), i, Minus(cutoff, Len(pairs)) + (i - 1))]

CsvPlan(synthetic, windowed) ==
    [genesis |-> <<>>, regular |-> <<>>, synthetic |-> synthetic, windowed |-> windowed]

\* sort_by_key is stable.
SortedByTimestamp(transfers) ==
    LET Before(i, j) == \/ transfers[i].ts < transfers[j].ts
                        \/ transfers[i].ts = transfers[j].ts /\ i < j
        Rank(j) == Cardinality({i \in DOMAIN transfers : Before(i, j)})
    IN  [k \in DOMAIN transfers |->
            transfers[CHOOSE j \in DOMAIN transfers : Rank(j) = k - 1]]

\* build_plan_from_csv: one plan for each order the hash map may have.
FromCsv(transfers, cutoff) ==
    IF cutoff = 0
    THEN {CsvPlan(<<>>, DedupeTimestamps(SortedByTimestamp(transfers), 0))}
    ELSE LET pre  == Until(transfers, cutoff)
             post == Since(transfers, cutoff)
         IN  {CsvPlan(Aggregated(pre, pairs, cutoff),
                      DedupeTimestamps(SortedByTimestamp(post), Minus(cutoff, 1))) :
                 pairs \in SetToSeqs({PairOf(t) : t \in Range(pre)})}
=============================================================================
