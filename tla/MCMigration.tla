---------------------------- MODULE MCMigration ----------------------------
(***************************************************************************)
(* Instances of Migration for TLC.                                         *)
(***************************************************************************)
EXTENDS Migration

CONSTANTS a, b, c

Account(id, ts) == [id |-> id, ledger |-> 1, limit |-> "none", ts |-> ts]
Move(id, kind, debit, credit, amount, ts) ==
    [id |-> id, kind |-> kind, debit |-> debit, credit |-> credit,
     amount |-> amount, pending |-> NoPending, ledger |-> 1, ts |-> ts]

\* Two pairs of accounts before the cutoff of 20, and one of them again after it.
OpenedAccounts ==
    CreateAccounts(EmptyLedger, <<Account(a, 5), Account(b, 8), Account(c, 15)>>)
Busy ==
    CreateTransfers(OpenedAccounts,
        <<Move(100, "single", a, b, 2, 16), Move(101, "single", b, c, 1, 17),
          Move(102, "single", a, b, 3, 25)>>)
\* One with an amount on hold.
OnHold ==
    CreateTransfers(OpenedAccounts, <<Move(100, "pending", a, b, 1, 30)>>)

MCSources == {Busy, OnHold}
=============================================================================
