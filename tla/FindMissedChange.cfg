\* A message announced while a download is stopped is never looked for.
SPECIFICATION Spec
CONSTANTS
  in = in
  other = other
  NoBox = NoBox
  Boxes <- MCBoxes
  Inbox = in
  TagModulus = 3
  MaxExists = 2
  Refusals <- MCNone
  Ops <- MCCopies
  UsingIdle <- MCIdle
  UseRules = TRUE
  MayCancel = FALSE
  MayTimeOut = FALSE
  MayLeave = FALSE
  MayDrop = FALSE
  KnownFaults <- MCNone
INVARIANTS
  IdleMeansSynced
CHECK_DEADLOCK FALSE
