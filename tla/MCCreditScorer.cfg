SPECIFICATION ScorerSpec
CONSTANTS
  BPS = 4
  MaxFeeBps = 0
  MinDeposit = 2
  Year = 8
  PeriodChoices <- MCPeriods
  Offers <- MCOffers
  MinDrawdown = 2
  TimerShare = 2
  OwnerGates = {"proofValid"}
  Deposits = {2}
  Withdrawals = {}
  WriteDowns = {}
  MaxTime = 3
  MaxLent = 2
  MaxBalance = 2
  RepaymentBps = 2
  MaxPerProcess = 0
  MinRevenue = 1
  EpochLength = 2
  Payments = {4}
  MaxRevenue = 4
  DeployedParams <- MCDeployed
  ParamChoices <- MCParams
  HistoryLoans = 1
  HistoryFloor = 1
  DayLength = 1
  MaturityDays = 2
  Verifiers = {TRUE, FALSE}
INVARIANTS
  AnswerWithinParams
PROPERTIES
  AnswersAreOffers
  PayingNeverHurts
  
CHECK_DEADLOCK FALSE
