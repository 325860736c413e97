\* Two files in any state, a stale one, two runs, the three retries of the code.
SPECIFICATION FairSpec
CONSTANTS
  Manifest <- TwoFiles
  Others = {"README.md"}
  Retries = 3
  MaxRuns = 2
INVARIANTS
  SuccessMeansInstalled
  OnlyFaultsFail
PROPERTIES
  GoodStaysGood
  RunEnds
CHECK_DEADLOCK FALSE
