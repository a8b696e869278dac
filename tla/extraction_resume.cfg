\* Two programs, two starts, failures, late inputs and kills.
SPECIFICATION FairExtraction
CONSTANTS
  None = None
  p = p
  q = q
  Programs <- MCPrograms
  Size = 2
  MaxBlocks = 3
  MaxRuns = 2
  MaxFaults = 3
  Editions <- MCEditions
CHECK_DEADLOCK FALSE
INVARIANTS
  WholeCapture
  ExitTruthful
PROPERTIES
  CompleteKept
  RunEnds
