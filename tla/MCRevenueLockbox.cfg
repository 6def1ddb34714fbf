SPECIFICATION LockboxSpec
CONSTANTS
  BPS = 4
  MaxFeeBps = 1
  MinDeposit = 2
  Year = 4
  PeriodChoices <- MCPeriods
  Offers <- MCOffers
  MinDrawdown = 2
  TimerShare = 2
  OwnerGates = {"paused"}
  Deposits = {3}
  Withdrawals = {}
  WriteDowns = {}
  MaxTime = 4
  MaxLent = 2
  MaxBalance = 3
  RepaymentBps = 2
  MaxPerProcess = 4
  MinRevenue = 2
  EpochLength = 2
  Payments = {1, 3}
  MaxRevenue = 5
INVARIANTS
  RevenueCountedOnce
  
PROPERTIES
  ImplementsAccount
CHECK_DEADLOCK FALSE
