------------------------- MODULE MigrationPlanning -------------------------
(***************************************************************************)
(* A source cluster whose data file is planned for migration, with any     *)
(* cutoff, at any time.  Its ledger grows by accounts and transfers, each  *)
(* at a later time than the last: the next nanosecond, as in one batch, or *)
(* after a while.  The properties say what importing the plan into an      *)
(* empty cluster would do.                                                 *)
(***************************************************************************)
EXTENDS BalancePlan

CONSTANTS
    AccountIds,    \* ids of application accounts
    LedgerOf,      \* the ledger of each account
    LimitOf,       \* the limit of each account
    Amounts,       \* amounts of transfers
    FirstAppId,    \* the least id an application draws
    Epoch,         \* no application object is older
    Gaps,          \* how far the clock may move between two objects
    Grains,        \* resolutions of the timestamps in a CSV file
    MaxTransfers   \* bound on the transfers of the source

Ledgers == {LedgerOf[id] : id \in AccountIds}

ASSUME AccountsAssumption ==
    /\ IsFiniteSet(AccountIds)
    /\ LedgerOf \in [AccountIds -> Nat]
    /\ LimitOf \in [AccountIds -> Limits \ {"credits"}]
\* Timestamps are nanoseconds since 1970: a ledger starts later than the few
\* that genesis accounts get.
ASSUME ClockAssumption ==
    /\ (Gaps \cup Grains) \subseteq Nat \ {0}
    /\ Epoch \in Nat /\ Epoch >= 2 * Cardinality(Ledgers)
\* The ids that applications draw have a timestamp in their upper bits: they are
\* above those of synthetic transfers, two per account or one per transfer of a
\* CSV file.  The genesis accounts take theirs from the upper end.
ASSUME IdAssumption ==
    /\ FirstAppId \in Nat
    /\ FirstAppId > 2 * Cardinality(AccountIds) /\ FirstAppId > MaxTransfers
    /\ \A l \in Ledgers : {GenesisCredit(l), GenesisDebit(l)} \cap AccountIds = {}
ASSUME BoundAssumption == Amounts \subseteq Nat \ {0} /\ MaxTransfers \in Nat

VARIABLES ledger, clock

ledgerVars == <<ledger, clock>>

LedgerInit ==
    /\ ledger = EmptyLedger
    /\ clock = Epoch

Tick == \E gap \in Gaps : clock' = clock + gap

OpenAccount(id) ==
    /\ id \notin DOMAIN ledger.accounts
    /\ Tick
    /\ ledger' = WithAccount(ledger, [id |-> id, ledger |-> LedgerOf[id],
                                      limit |-> LimitOf[id], ts |-> clock'])

Create(t) ==
    /\ Len(ledger.transfers) < MaxTransfers
    /\ ~TransferRefused(ledger, t)
    /\ ledger' = WithTransfer(ledger, t)

Fields(kind, debit, credit, amount, pending) ==
    [id |-> FirstAppId + Len(ledger.transfers), kind |-> kind, debit |-> debit,
     credit |-> credit, amount |-> amount, pending |-> pending,
     ledger |-> LedgerOf[debit], ts |-> clock']

Transfer(debit, credit, amount) ==
    /\ Tick
    /\ Create(Fields("single", debit, credit, amount, NoPending))

Reserve(debit, credit, amount) ==
    /\ Tick
    /\ Create(Fields("pending", debit, credit, amount, NoPending))

Post(p, amount) ==
    /\ Tick
    /\ Create(Fields("post", p.debit, p.credit, amount, p.id))

Void(p) ==
    /\ Tick
    /\ Create(Fields("void", p.debit, p.credit, p.amount, p.id))

LedgerNext ==
    \/ \E id \in AccountIds : OpenAccount(id)
    \/ \E debit, credit \in DOMAIN ledger.accounts, amount \in Amounts :
          Transfer(debit, credit, amount) \/ Reserve(debit, credit, amount)
    \/ \E p \in {t \in Range(ledger.transfers) : t.kind = "pending"} :
          Void(p) \/ \E amount \in Amounts : Post(p, amount)

LedgerSpec == LedgerInit /\ [][LedgerNext]_ledgerVars

-----------------------------------------------------------------------------
(***************************************************************************)
(* Importing a plan.                                                       *)
(***************************************************************************)

Accounts == AccountsOf(ledger)
Window(cutoff) == WindowOf(ledger, cutoff)
Plan(cutoff) == PlanOf(ledger, cutoff)
Safe == IsSafe(ledger)

\* A cutoff between two objects makes the plan of the later one's timestamp,
\* with less room before it.
EveryCutoff == {0, clock + 1} \cup AccountTs(ledger) \cup TransferTs(ledger)

\* L after the plan has been imported; what the target refuses is left out.
Imported(L, plan) ==
    CreateTransfers(CreateAccounts(L, plan.genesis \o plan.regular),
                    plan.synthetic \o plan.windowed)

\* Nothing has been left out.
Complete(L, plan, target) ==
    Size(target) = Size(L) + Len(plan.genesis \o plan.regular)
                           + Len(plan.synthetic \o plan.windowed)

-----------------------------------------------------------------------------
(***************************************************************************)
(* The same, told from the history of the source.                          *)
(***************************************************************************)

SinglePhase(transfers) == \A t \in Range(transfers) : t.kind = "single"

\* What the transfers before the cutoff have posted.
Before(cutoff) == IF cutoff > 0 THEN Until(ledger.transfers, cutoff) ELSE ledger.transfers
PostedDebits(id, cutoff) ==
    Total([i \in DOMAIN Before(cutoff) |->
        LET t == Before(cutoff)[i] IN IF t.debit = id THEN Posts(t) ELSE 0])
PostedCredits(id, cutoff) ==
    Total([i \in DOMAIN Before(cutoff) |->
        LET t == Before(cutoff)[i] IN IF t.credit = id THEN Posts(t) ELSE 0])

\* Two synthetic transfers per account that has moved fit between the
\* youngest of these accounts and the cutoff.  Timestamps are nanoseconds:
\* they do, unless such an account was opened right before the cutoff.
SlotIsWideEnough(cutoff) ==
    LET moved == {a \in Accounts :
                    PostedDebits(a.id, cutoff) + PostedCredits(a.id, cutoff) > 0}
    IN  cutoff > 0 => After(cutoff - 2 * Cardinality(moved), Timestamps(moved))

SameBalances(target) ==
    \A a \in Accounts :
        /\ target.accounts[a.id].dr = a.dr
        /\ target.accounts[a.id].cr = a.cr

-----------------------------------------------------------------------------
(***************************************************************************)
(* Properties.                                                             *)
(***************************************************************************)

\* Importing the plan of any cutoff, zero included, is refused nowhere, and
\* every account ends with the balances it has in the source (build,
\* build_windowed, import_all_with_progress).  For a ledger without pending
\* balances, a window without two-phase transfers, and no
\* credits_must_not_exceed_debits.
PlanRestoresBalances ==
    Safe => \A cutoff \in EveryCutoff :
        /\ SlotIsWideEnough(cutoff)
        /\ SinglePhase(Window(cutoff))
        => LET plan == Plan(cutoff)
               target == Imported(EmptyLedger, plan)
           IN  Complete(EmptyLedger, plan, target) /\ SameBalances(target)

\* With two-phase transfers in the window too, an import that is refused
\* nowhere leaves every account with the balances it has in the source:
\* "replayed in Phase 4, restoring the full final balance" (plan.rs).
WindowRestoresBalances ==
    Safe => \A cutoff \in EveryCutoff :
        LET plan == Plan(cutoff)
            target == Imported(EmptyLedger, plan)
        IN  Complete(EmptyLedger, plan, target) => SameBalances(target)

\* Genesis accounts, accounts and synthetic transfers alone give each account
\* what it had posted when the cutoff came: build_windowed works back from
\* the final balances, and arrives where the history passed.
CutoffBalancesAreRebuilt ==
    Safe => \A cutoff \in EveryCutoff :
        SinglePhase(Window(cutoff)) =>
        LET target == Imported(EmptyLedger, [Plan(cutoff) EXCEPT !.windowed = <<>>])
           IN  \A a \in Accounts :
                  /\ target.accounts[a.id].dr = PostedDebits(a.id, cutoff)
                  /\ target.accounts[a.id].cr = PostedCredits(a.id, cutoff)

\* After the import, the two genesis accounts of a ledger have moved the same
\* amount, and nothing the other way (plan.rs, AccountGroup).
GenesisAccountsMatch ==
    Safe => \A cutoff \in EveryCutoff :
        SinglePhase(Window(cutoff)) =>
        LET target == Imported(EmptyLedger, Plan(cutoff)).accounts
           IN  \A l \in {a.ledger : a \in Accounts} :
                  /\ target[GenesisCredit(l)].dr = target[GenesisDebit(l)].cr
                  /\ target[GenesisCredit(l)].cr = 0 /\ target[GenesisDebit(l)].dr = 0

\* The guarantee of build_windowed: synthetic transfers come before the cutoff,
\* and so before the window, although they are younger than every account they
\* touch, with two-phase transfers or without.  It needs room: nothing in
\* plan.rs compares their timestamps with the cutoff.
SyntheticBeforeCutoff ==
    Safe => \A cutoff \in EveryCutoff \ {0} :
        SlotIsWideEnough(cutoff) =>
            \A t \in Range(Plan(cutoff).synthetic) : t.ts < cutoff

\* Timestamps of a CSV file may be coarser than those of the ledger, rounded up
\* or down.
Csv(grain, up) ==
    LET Rounded(ts) == IF up THEN ((ts + grain - 1) \div grain) * grain
                             ELSE (ts \div grain) * grain
    IN  [i \in DOMAIN ledger.transfers |-> [ledger.transfers[i] EXCEPT !.ts = Rounded(@)]]

\* Transfers "must postdate both the debit and credit account timestamps"
\* (docs/rotate-archive-impl-plan.md): rounded down, they may not.
AfterTheirAccounts(L, transfers) ==
    \A t \in Range(transfers) : After(t.ts, {L.accounts[t.debit].ts, L.accounts[t.credit].ts})

\* ImportCsvTransfers on top of a migration with accounts_only: for
\* single-phase transfers between accounts without limits, every order of
\* aggregation is imported whole and gives every account its balances.  With a
\* cutoff that leaves room for the aggregated ones after all accounts, or
\* without one when the times in the file are after those of the accounts.
CsvRestoresBalances ==
    /\ SinglePhase(ledger.transfers)
    /\ \A t \in Range(ledger.transfers) :
          LimitOf[t.debit] = "none" /\ LimitOf[t.credit] = "none"
    => LET accounts == Imported(EmptyLedger, AccountsOnly(Build(Accounts)))
       IN  \A cutoff \in EveryCutoff, grain \in Grains, up \in BOOLEAN :
              \/ cutoff = 0 /\ AfterTheirAccounts(accounts, Csv(grain, up))
              \/ cutoff # 0 /\ After(cutoff - MaxTransfers, AccountTs(accounts))
              => \A plan \in FromCsv(Csv(grain, up), cutoff) :
                    LET target == Imported(accounts, plan)
                    IN  Complete(accounts, plan, target) /\ SameBalances(target)
=============================================================================
