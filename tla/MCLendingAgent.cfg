SPECIFICATION LendingSpec
CONSTANTS
  Agents = {1, 2}
  Own = 1
  Starts <- MCStarts
  Grades <- MCGrades
  MinScoreForApproval = 350
  MinDrawdown = 2
  MinRate = 300
  MaxRate = 2500
  Amounts = {1, 3}
  Rates = {100, 3000}
  Durations = {90, 180, 400}
  MaxEvents = 2
  MaxFaults = 1
  MaxCalls = 1
INVARIANTS
  LendingTypeOK
  AnswersHold
  
PROPERTIES
  DefaultIsReported
CHECK_DEADLOCK FALSE
