------------------------ MODULE MCMigrationPlanning ------------------------
(***************************************************************************)
(* Instances of MigrationPlanning for TLC.                                 *)
(***************************************************************************)
EXTENDS MigrationPlanning

CONSTANTS a1, a2, a3, a4

\* Two ledgers of two accounts; a1 has debits_must_not_exceed_credits.
MCAccountIds == {a1, a2, a3, a4}
MCLedgerOf == [id \in AccountIds |-> IF id \in {a1, a2} THEN 1 ELSE 2]
MCLimitOf == [id \in AccountIds |-> IF id = a1 THEN "debits" ELSE "none"]

\* Accounts that differ in neither are interchangeable.
Symmetry == Permutations({a3, a4})
=============================================================================
