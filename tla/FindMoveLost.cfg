\* A message that is no longer on the SIM is the last one of a move from the SIM.
CONSTANTS
  Slots <- MCSlots
  Texts <- MCTexts
  Recipients <- MCRecipients
  OnCard <- MCOnCard
  Ids <- MCIds
  Drafts <- MCDrafts
  Hidden = {"h1", "h2"}
  Class2Folder = "Class2"
  Fails = {}
  Commands = {"Enumerate", "MoveFrom"}
  EnumParams = {"KErrNotFound"}
  MaxSelection = 2
  MaxRequests = 2
  MaxChanges = 1
SPECIFICATION Spec
INVARIANTS MovedMeansMoved
CHECK_DEADLOCK FALSE
