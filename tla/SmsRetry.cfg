SPECIFICATION Spec
CONSTANTS
  m1 = m1
  m2 = m2
  m3 = m3
  NoMsg = NoMsg
  Msgs <- MCMsgs
  RcpCount <- MCRcpt21
  Kind <- MCTextBad
  DeliveryReports <- MCReportsFirst
  MaxRetries = 1
  SendErrors <- MCTimeout
  StoreErrors <- MCNone
  InitStates <- MCMixed
  ConditionsMet <- MCCondAny
  LogResults <- MCLogOk
  SentFolderExists = TRUE
  ClientOps <- MCRetryOps
  MaxRequests = 3
INVARIANTS
  ScheduledHasUnsentRecipient
  RetryLimit
PROPERTIES
  NoSendAfterRecordedSent
  ImplementsDelivery
CHECK_DEADLOCK FALSE
