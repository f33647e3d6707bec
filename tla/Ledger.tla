------------------------------- MODULE Ledger -------------------------------
(***************************************************************************)
(* What the migration code relies on of a TigerBeetle ledger (external).   *)
(*                                                                         *)
(* A ledger maps the ids of its accounts to records, and holds its         *)
(* transfers in the order of their timestamps.  An account carries its     *)
(* four balances (dr and cr posted, drp and crp pending) and the limit its *)
(* flags set.  A transfer is single-phase, or pending, or resolves the     *)
(* pending transfer that `pending` names.                                  *)
(***************************************************************************)
EXTENDS Integers, SequencesExt, FiniteSetsExt

\* none, debits_must_not_exceed_credits, credits_must_not_exceed_debits
Limits == {"none", "debits", "credits"}
Kinds == {"single", "pending", "post", "void"}

\* A value where a transfer names no pending one: pending_id = 0.
NoPending == 0

EmptyLedger == [accounts |-> [id \in {} |-> {}], transfers |-> <<>>]

AccountFields == {"id", "ledger", "limit", "ts", "dr", "cr", "drp", "crp"}

\* Accounts are filed under their ids, and no two have the same timestamp.
IsLedger(L) ==
    /\ IsFiniteSet(DOMAIN L.accounts)
    /\ \A id \in DOMAIN L.accounts :
          /\ DOMAIN L.accounts[id] = AccountFields
          /\ L.accounts[id].id = id /\ L.accounts[id].ts \in Nat
    /\ \A x, y \in DOMAIN L.accounts : L.accounts[x].ts = L.accounts[y].ts => x = y
    /\ L.transfers \in Seq(Range(L.transfers))
    /\ \A t \in Range(L.transfers) : t.ts \in Nat

Timestamps(objects) == {o.ts : o \in objects}
AccountTs(L) == Timestamps(Range(L.accounts))
TransferTs(L) == Timestamps(Range(L.transfers))
After(ts, stamps) == \A s \in stamps : s < ts
TransferIds(L) == {t.id : t \in Range(L.transfers)}

PendingOf(L, t) == {p \in Range(L.transfers) : p.id = t.pending /\ p.kind = "pending"}
Resolved(L, id) == \E t \in Range(L.transfers) : t.pending = id

-----------------------------------------------------------------------------
(***************************************************************************)
(* create_accounts and create_transfers of objects with the `imported`     *)
(* flag.  A refused object leaves the ledger as it is.                     *)
(***************************************************************************)

AccountRefused(L, a) ==
    \/ a.id \in DOMAIN L.accounts
    \/ a.ts = 0
    \/ ~After(a.ts, AccountTs(L))

\* A new account starts without balances.
Opened(a) == [id |-> a.id, ledger |-> a.ledger, limit |-> a.limit, ts |-> a.ts,
              dr |-> 0, cr |-> 0, drp |-> 0, crp |-> 0]

WithAccount(L, a) ==
    [L EXCEPT !.accounts = [id \in DOMAIN @ \cup {a.id} |->
                               IF id = a.id THEN Opened(a) ELSE @[id]]]

LimitExceeded(a, t) ==
    \/ /\ a.limit = "debits" /\ t.debit = a.id
       /\ a.dr + a.drp + t.amount > a.cr
    \/ /\ a.limit = "credits" /\ t.credit = a.id
       /\ a.cr + a.crp + t.amount > a.dr

\* The two sides of a transfer between accounts that exist.
SidesFit(L, t) ==
    /\ t.debit # t.credit
    /\ {t.debit, t.credit} \subseteq DOMAIN L.accounts
    /\ \A id \in {t.debit, t.credit} :
          L.accounts[id].ledger = t.ledger /\ L.accounts[id].ts < t.ts

WithinLimits(L, t) ==
    \A id \in {t.debit, t.credit} : ~LimitExceeded(L.accounts[id], t)

\* A pending transfer is resolved once, and not beyond its amount.
Resolves(L, t) ==
    \E p \in PendingOf(L, t) : t.amount <= p.amount /\ ~Resolved(L, p.id)

TransferRefused(L, t) ==
    \/ t.id \in TransferIds(L)
    \/ ~After(t.ts, TransferTs(L))
    \/ ~SidesFit(L, t)
    \/ t.kind \in {"single", "pending"} /\ ~WithinLimits(L, t)
    \/ t.kind \in {"post", "void"} /\ ~Resolves(L, t)

\* The amount a transfer posts, and the one it adds to the pending balances.
Posts(t) == IF t.kind \in {"single", "post"} THEN t.amount ELSE 0
Reserves(L, t) ==
    CASE t.kind = "single"  -> 0
      [] t.kind = "pending" -> t.amount
      [] OTHER -> -(CHOOSE p \in PendingOf(L, t) : TRUE).amount

WithTransfer(L, t) ==
    [accounts |-> [L.accounts EXCEPT
        ![t.debit].dr   = @ + Posts(t), ![t.debit].drp  = @ + Reserves(L, t),
        ![t.credit].cr  = @ + Posts(t), ![t.credit].crp = @ + Reserves(L, t)],
     transfers |-> Append(L.transfers, t)]

\* Events of a batch are independent: those that are refused change nothing.
CreateAccount(L, a) == IF AccountRefused(L, a) THEN L ELSE WithAccount(L, a)
CreateTransfer(L, t) == IF TransferRefused(L, t) THEN L ELSE WithTransfer(L, t)

CreateAccounts(L, batch) == FoldLeft(CreateAccount, L, batch)
CreateTransfers(L, batch) == FoldLeft(CreateTransfer, L, batch)

\* How many objects a ledger holds.
Size(L) == Cardinality(DOMAIN L.accounts) + Len(L.transfers)
=============================================================================
