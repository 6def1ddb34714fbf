SPECIFICATION LedgerSpec
CONSTANTS
  MaxDraws = 2
  Requests = {r1, r2}
  Amounts <- MCAmounts
  Tenors <- MCTenors
  Scores <- MCScores
  RatePeriod = 2
  DelinquentAfter = 0
  DefaultAfter = 1
  Budgets <- MCBudgets
  NoLine = NoLine
INVARIANTS
  LedgerTypeOK
  
PROPERTIES
  SettledStaysSettled
  OverdueIsDefaulted
CHECK_DEADLOCK FALSE
