SPECIFICATION FairSpec
CONSTANTS
  Tables <- MCTables
  CompareTables <- MCCompareTables
  Domains <- MCDomains
  CompareDomains <- MCCompareDomains
  NoDomain = NoDomain
  MaxCycles = 2
  MaxCalls = 1
  MaxRequests = 1
INVARIANTS TargetReadsWhitelisted CycleComplete AnswerHasReasons
PROPERTY CycleEnds
CHECK_DEADLOCK FALSE
