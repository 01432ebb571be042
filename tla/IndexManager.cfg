SPECIFICATION FairSpec
CONSTANTS
  Indexes <- MCIndexes
  KeyspaceOf <- MCKeyspaceOf
  MaxParallelism = 2
  MaxCalls = 2
INVARIANTS RebuildAccounted DropListTruthful
PROPERTIES CallReturns
CHECK_DEADLOCK FALSE
