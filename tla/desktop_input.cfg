\* One request of up to two steps, two moves of the user or an application during it.
SPECIFICATION Spec
CONSTANTS
  NULL = NULL
  main = main
  modal = modal
  panel = panel
  other = other
  tip = tip
  app = app
  foreign = foreign
  Windows = {main, modal, other, tip}
  Topmost = {tip}
  Modal = {modal}
  Process <- MCProcess
  Owner <- MCOwner
  Plans <- MCPlans
  Clips = {"user", "files"}
  MaxMoves = 2
  MaxUnread = 0
CHECK_DEADLOCK FALSE
INVARIANTS
  InputIsPinned
  SequenceAccounted
  ClipboardGivenBack
  PasteIsRequested
  FrameIsPinned
