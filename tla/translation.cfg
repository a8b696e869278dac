\* Scripts, service and token restoration over one model client.
SPECIFICATION StackSpec
CONSTANTS
  NULL = NULL
  Size = 3
  Targets = {"a", "b", "long", "bad"}
  Valid = {"a", "b"}
  Shorten <- MCShorten
  Kinds = {"comments", "spans", "local"}
  Reuses <- MCReuses
  Glossaries <- MCGlossaries
  BatchSize = 2
  MaxBatches = 2
  MaxEdits = 1
  MaxFaults = 1
  Models = {"chat", "embedding", "other"}
  Configured = "chat"
  NonChat = {"embedding"}
  Listings <- MCListings
  MaxListed = 3
  Texts = {"t1", "t2", "plain"}
  Plain = {"plain"}
  Answers = {"ok", "cjk", "joined", "markers"}
  Unknown = Unknown
  Terms <- MCTerms
  Batches <- MCBatches
  GroupSize = 1
  MaxSegments = 2
  MaxCalls = 2
  Atoms = {"M", "K", "18K"}
  Signs = {"->"}
  Letters = {"a"}
  Markers <- MCMarkers
  Users = {"script", "service", "tokens"}
  SourceTexts <- MCSourceTexts
  Proses <- MCProses
CHECK_DEADLOCK FALSE
INVARIANTS
  RefusedOnlyIfEdited
  NoModelIsTruthful
  DecisionsFit
  OnlyProposePoisons
  NothingAskedTwice
  TokensRepaired
PROPERTIES
  LedgerRefinement
  ScriptCompletes
