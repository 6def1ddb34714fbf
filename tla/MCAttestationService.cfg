SPECIFICATION TeeSpec
CONSTANTS
  Agents = {"a1"}
  Ttl = 2
  Warning = 1
  DefaultTtl = 3
  MaxRecentAlerts = 2
  MaxTxs = 2
  MaxTime = 4
INVARIANTS
  TeeTypeOK
  ChainTrustsPassedReports
  

  
CHECK_DEADLOCK FALSE
