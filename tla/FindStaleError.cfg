SPECIFICATION Spec
CONSTANTS
  m1 = m1
  m2 = m2
  m3 = m3
  NoMsg = NoMsg
  Msgs <- MCMsgs
  RcpCount <- MCRcpt21
  Kind <- MCText
  DeliveryReports <- MCReportsFirst
  MaxRetries = 1
  SendErrors <- MCBothErrors
  StoreErrors <- MCNone
  InitStates <- MCWaiting
  ConditionsMet <- MCMet
  LogResults <- MCLogOk
  SentFolderExists = TRUE
  ClientOps <- MCDeleteOnly
  MaxRequests = 1
INVARIANTS
  ErrorIsOfThisMessage
CHECK_DEADLOCK FALSE
