SPECIFICATION ProxySpec
CONSTANTS
  q = q
  e = e
  b = b
  p = p
  r1 = r1
  c1 = c1
  c2 = c2
  NoWrite = NoWrite
  Conns <- MCOneConn
  Writes <- MCBound
  Rows <- MCRows
  RowOf <- MCBoundRowOf
  How <- MCBoundHow
  Executable = {}
  Blacklisted = {}
  MaxRetries = 2
INVARIANTS
  ConfirmedIsDualWritten
CHECK_DEADLOCK FALSE
