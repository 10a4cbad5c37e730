\* Cancels, timers, leaves, refused SELECTs and a network that fails.
SPECIFICATION FairSpec
CONSTANTS
  in = in
  other = other
  NoBox = NoBox
  Boxes <- MCBoxes
  Inbox = in
  TagModulus = 3
  MaxExists = 2
  Refusals <- MCSelectRefused
  Ops <- MCCopyOnly
  UsingIdle <- MCBoth
  UseRules = TRUE
  MayCancel = TRUE
  MayTimeOut = TRUE
  MayLeave = TRUE
  MayDrop = TRUE
  KnownFaults <- MCKnown
INVARIANTS
  TypeOK
  
  
  AnswersBelongToCommand
  SelectedAgrees
  ServerNeverConfused
  LimitOnlyForAnswer
PROPERTIES
  
  RequestAnswered
  RecoveryEnds
CHECK_DEADLOCK FALSE
