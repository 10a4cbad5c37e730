SPECIFICATION Spec
CONSTANTS
  m1 = m1
  m2 = m2
  m3 = m3
  NoMsg = NoMsg
  Msgs <- MCMsgs3
  RcpCount <- MCRcpt110
  Kind <- MCTextWap
  DeliveryReports <- MCReportsFirst
  MaxRetries = 1
  SendErrors <- MCTimeout
  StoreErrors <- MCStoreError
  InitStates <- MCWaiting
  ConditionsMet <- MCCondAny
  LogResults <- MCLogOk
  SentFolderExists = TRUE
  ClientOps <- MCNoResume
  MaxRequests = 1
INVARIANTS
  NoLostWakeup
  OneMessageAtATime
  SentFolderMeansAllSent
  
PROPERTIES
  ImplementsDelivery
CHECK_DEADLOCK FALSE
