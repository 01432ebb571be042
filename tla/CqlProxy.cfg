SPECIFICATION ProxyFairSpec
CONSTANTS
  q = q
  e = e
  b = b
  p = p
  r1 = r1
  c1 = c1
  c2 = c2
  NoWrite = NoWrite
  Conns <- MCConns
  Writes <- MCWrites
  Rows <- MCRows
  RowOf <- MCRowOf
  How <- MCHow
  Executable <- MCExecutable
  Blacklisted = {}
  MaxRetries = 1
INVARIANTS
  ConfirmedOnSource
  NoDoubleSourceWrite
  NoOtherGap
PROPERTIES
  RequestsAnswered
CHECK_DEADLOCK FALSE
