SPECIFICATION MigrationSpec
CONSTANTS
  MinToken <- MCMinToken
  MaxToken = 3
  CoresPerNode = 1
  RangesPerCore = {1}
  NumTables = 3
  Blacklisted = {2}
  RangeCounts = {1, 3}
  MaxConcurrent = 2
  PageRetries = 1
  MaxRuns = 2
INVARIANTS
  TypeOK
  BatchesDoNotOverlap
  RangesOnce
  EveryTokenOnce
  ControlIsPrompt
  StatsAddUp
PROPERTIES
  StopEnds
  MigrationEnds
