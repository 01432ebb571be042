SPECIFICATION StatsSpec
CONSTANTS
  w1 = w1
  w2 = w2
  r1 = r1
  NoWrite = NoWrite
  Writes <- MCWrites
  Rows <- MCRows
  RowOf <- MCRowOf
  Executable <- MCWrites
  Blacklisted = {}
  MaxRetries = 3
  MaxRequests = 1
INVARIANTS
  OutcomesNotMissing
PROPERTIES
  StopCompletes
  ImplementsFairShadowWrite
CHECK_DEADLOCK FALSE
