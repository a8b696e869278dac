\* Two handlers, every kind of message, two restarts, one of them without an audit log.
SPECIFICATION FairSpec
CONSTANTS
  r1 = r1
  r2 = r2
  Requests = {r1, r2}
  NULL = NULL
  Messages <- AllMessages
  MaxOps = 2
  MaxBoots = 2
  ApplyEnabled = TRUE
  AuditedBoots = {0, 2}
INVARIANTS
  SerialTrail
  OutcomeTruthful
PROPERTIES
  EveryRequestEnds
  GateRefinement
