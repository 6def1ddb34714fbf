SPECIFICATION FrontendSpec
CONSTANTS
  Seeds = {s1, s2}
  Brought = {s1}
  None = None
  f1 = f1
  f2 = f2
  Forms = {f1, f2}
  Blank = Blank
  Demo = {9}
  Texts = {all, word}
  NoText = all
  Hits <- MCHits
  Filters = {every, some}
  NoFilter = every
  Keeps <- MCKeeps
  Budgets <- MCBudgets
INVARIANTS
  FrontendTypeOK
  
  ListedAsRegistered
PROPERTIES
  SpinnersStop
CHECK_DEADLOCK FALSE
