SPECIFICATION FairSpec
CONSTANTS
  io = io
  retry = retry
  ks = ks
  log = log
  LOG = LOG
  migrations = migrations
  files = files
  d_at = d_at
  word = word
  Star = Star
  Unqualified = Unqualified
  Nothing = Nothing
  Unknown = Unknown
  Callers <- MCCallers
  Statements <- MCStatements
  TableOf <- MCTableOf
  Config <- MCConfig
  Edited <- MCEdited
  MaxCalls = 1
PROPERTIES
  HotReload
