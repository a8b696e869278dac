\* Two launches of two turns, a window with a popup, two frames, one input.
SPECIFICATION FairSpec
CONSTANTS
  NULL = NULL
  main = main
  dialog = dialog
  f1 = f1
  f2 = f2
  click = click
  NumGoals = 2
  Windows = {main, dialog}
  Owner <- DialogOwner
  Frames = {f1, f2}
  Ops = {click}
  MaxSteps = 2
  MaxRuns = 2
INVARIANTS
  AtMostOnce
  IntentBeforeMutation
  OutcomeFaithful
  GoalsInOrder
PROPERTIES
  NothingLost
  RunEnds
