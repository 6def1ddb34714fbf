SPECIFICATION VaultSpec
CONSTANTS
  BPS = 3
  MaxFeeBps = 1
  MinDeposit = 2
  b1 = b1
  b2 = b2
  Backers <- MCBackers
  Delay = 1
  Caps = {0, 3}
  Fees = {1}
  Assets = {2, 3}
  Loans = {2}
  MaxShares = 2
  Repayments <- MCRepayments
  MaxSupply = 7
  MaxGross = 5
  MaxClock = 2
SYMMETRY Symmetric
INVARIANTS
  VaultTypeOK
PROPERTIES
  NoDilution
  ExitsWait
CHECK_DEADLOCK FALSE
