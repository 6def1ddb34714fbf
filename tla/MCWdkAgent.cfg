SPECIFICATION WdkSpec
CONSTANTS
  Threshold = 2
  VaultShare = 2
  Amounts = {1, 2}
  MaxIncome = 4
  MaxSwaps = 1
  MaxFaults = 1
  MaxBoots = 2
INVARIANTS
  WdkTypeOK
  RevertsNeedARace
  AllowanceIsRevoked
PROPERTIES
  RevenueIsRouted
CHECK_DEADLOCK FALSE
