\* A request cancelled while IDLE is being stopped.
SPECIFICATION Spec
CONSTANTS
  in = in
  other = other
  NoBox = NoBox
  Boxes <- MCBoxes
  Inbox = in
  TagModulus = 3
  MaxExists = 2
  Refusals <- MCNone
  Ops <- MCCopies
  UsingIdle <- MCIdle
  UseRules = FALSE
  MayCancel = TRUE
  MayTimeOut = FALSE
  MayLeave = FALSE
  MayDrop = FALSE
  KnownFaults <- MCNone
INVARIANTS
  AssertionsHold
CHECK_DEADLOCK FALSE
