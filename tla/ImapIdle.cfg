\* A connection that is not cancelled and does not fail, in both modes of watching.
SPECIFICATION FairSpec
CONSTANTS
  in = in
  other = other
  NoBox = NoBox
  Boxes <- MCBoxes
  Inbox = in
  TagModulus = 3
  MaxExists = 2
  Refusals <- MCNone
  Ops <- MCOps
  UsingIdle <- MCBoth
  UseRules = FALSE
  MayCancel = FALSE
  MayTimeOut = TRUE
  MayLeave = FALSE
  MayDrop = FALSE
  KnownFaults <- MCNone
INVARIANTS
  AssertionsHold
  

  
CHECK_DEADLOCK FALSE
