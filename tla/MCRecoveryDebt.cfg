SPECIFICATION RecoverySpec
CONSTANTS
  BPS = 4
  MaxFeeBps = 0
  MinDeposit = 2
  Year = 4
  PeriodChoices <- MCPeriods
  Offers <- MCOffers
  MinDrawdown = 2
  TimerShare = 2
  OwnerGates = {}
  Deposits = {2}
  Withdrawals = {2}
  WriteDowns = {}
  MaxTime = 5
  MaxLent = 2
  MaxBalance = 2
  AuctionTerms <- MCTerms
  Cooldowns = {1}
  DepositCaps = {2}
  OwnerDebts = {}
  MaxDebtProcessed = 3
PROPERTIES
  DebtClearedByRecovery
CHECK_DEADLOCK FALSE
