SPECIFICATION Spec
CONSTANTS
  MinToken <- MCMinToken
  MaxToken = 15
  CoresPerNode = 2
  RangesPerCore = {0, 1, 2, 3, 4, 5}
INVARIANTS
  NoOverlap
  FullCoverage
  RangesInRing
CHECK_DEADLOCK FALSE
