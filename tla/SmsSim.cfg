\* Every command about the SIM, and those beside it, three requests long, with
\* failing operations, leaves, and one change by others.
CONSTANTS
  Slots <- MCSlots
  Texts <- MCTexts
  Recipients <- MCRecipients
  OnCard <- MCOnCard
  Ids <- MCIds
  Drafts <- MCDrafts
  Hidden = {"h1", "h2"}
  Class2Folder = "Class2"
  Fails = {"card","store","leave"}
  Commands = {"Enumerate", "Delete", "CopyFrom", "MoveFrom", "CopyTo", "MoveTo", "ReadParams", "WriteParams", "Send", "Schedule", "DeleteAll"}
  EnumParams = {"KErrNotFound", "Inbox", "Mine"}
  MaxSelection = 2
  MaxRequests = 3
  MaxChanges = 1
SPECIFICATION FairSpec
INVARIANTS TypeOK AssertionsHold NoOrphanFolder EnumerationIsComplete RecipientsWritten   
PROPERTIES RequestAnswered
CHECK_DEADLOCK FALSE

