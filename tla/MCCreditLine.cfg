SPECIFICATION CreditSpec
CONSTANTS
  BPS = 4
  MaxFeeBps = 1
  MinDeposit = 2
  Year = 4
  PeriodChoices <- MCPeriods
  Offers <- MCOffers
  MinDrawdown = 2
  TimerShare = 2
  OwnerGates = {}
  Deposits = {4}
  Withdrawals = {}
  WriteDowns = {2}
  MaxTime = 4
  MaxLent = 4
  MaxBalance = 4
INVARIANTS
  InterestTracksIntegral
  NoInterestWithoutPrincipal
  CyclesAreBackedByLoans
PROPERTIES
  LendOnlyInGoodStanding
CHECK_DEADLOCK FALSE
