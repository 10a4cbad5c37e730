SPECIFICATION FairSpec
CONSTANTS
  m1 = m1
  m2 = m2
  m3 = m3
  NoMsg = NoMsg
  Msgs <- MCMsgs
  RcpCount <- MCRcpt21
  Kind <- MCText
  DeliveryReports <- MCReportsFirst
  MaxRetries = 1
  SendErrors <- MCBothErrors
  StoreErrors <- MCNone
  InitStates <- MCWaiting
  ConditionsMet <- MCMet
  LogResults <- MCLogAny
  SentFolderExists = TRUE
  ClientOps <- MCAllOps
  MaxRequests = 1
INVARIANTS
  TypeOK
  NoLostWakeup
  OneMessageAtATime
  SentFolderMeansAllSent
  IdleMeansNothingSending
PROPERTIES
  SentRecipientStaysSent
  SuspendStopsSending
  CancelLeavesNothingPending
  RequestAnswered
CHECK_DEADLOCK FALSE
