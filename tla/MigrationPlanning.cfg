SPECIFICATION LedgerSpec
CONSTANTS
  a1 = a1
  a2 = a2
  a3 = a3
  a4 = a4
  AccountIds <- MCAccountIds
  LedgerOf <- MCLedgerOf
  LimitOf <- MCLimitOf
  Amounts = {1, 2}
  FirstAppId = 100
  Epoch = 4
  Gaps = {3}
  Grains = {1, 6}
  MaxTransfers = 3
SYMMETRY Symmetry
INVARIANTS
  PlanRestoresBalances
  CutoffBalancesAreRebuilt
  GenesisAccountsMatch
  SyntheticBeforeCutoff
  CsvRestoresBalances
CHECK_DEADLOCK FALSE
