\* Two jobs of seven kinds of script, three starts.
SPECIFICATION Spec
CONSTANTS
  j1 = j1
  j2 = j2
  Jobs <- MCJobs
  Kinds = {"import", "comments", "properties", "rung", "voice", "communication", "hmi"}
  MaxRuns = 3
  MaxFaults = 3
CHECK_DEADLOCK FALSE
INVARIANTS
  DoneIsApplied
  RepeatedOnlyIfCut
  AckIsExact
