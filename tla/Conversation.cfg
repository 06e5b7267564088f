SPECIFICATION Spec
CONSTANTS
  Billing = "billing"
  Cut = "cut"
  Systems <- MCSystems
  ToolSets <- MCToolSets
  UserContents <- MCUserContents
  Extras <- MCExtras
  ResultContents <- MCResultContents
  Replies <- MCReplies
  Models = {"m1", "m2", "m3"}
  ProviderEffort <- MCProviderEffort
  ModelEffort <- MCModelEffort
  MaxTurns = 5
INVARIANTS Paired EchoIsSame NothingDropped ToolsAreKnown FieldsFit
CHECK_DEADLOCK FALSE
