\* The scripts that look for the Search window once.
SPECIFICATION Spec
CONSTANTS
  j1 = j1
  j2 = j2
  Jobs <- MCJobs
  Kinds = {"spans", "residuals"}
  MaxRuns = 1
  MaxFaults = 3
CHECK_DEADLOCK FALSE
INVARIANT
  ResultIsOwn
