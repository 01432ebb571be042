SPECIFICATION Spec
CONSTANTS
  w1 = w1
  w2 = w2
  w3 = w3
  w4 = w4
  r1 = r1
  r2 = r2
  NoWrite = NoWrite
  Writes <- MCWrites
  Rows <- MCRows
  RowOf <- MCRowOf
  Executable <- MCExecutable
  Blacklisted <- MCBlacklisted
  MaxRetries = 2
INVARIANTS
  TypeOK
  NoSilentLoss
  AttemptBound
  AbandonedOnlyWhenExhausted
  Ledger
  DivergenceOnlyThroughFailure
  CycleInv
PROPERTIES
  NeverResent
  ImplementsShadowWrite
CHECK_DEADLOCK FALSE
