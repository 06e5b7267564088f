SPECIFICATION FairSpec
CONSTANTS
  Text = text
  ToolIndex = {i0, i1}
  NoIndex = none
  Chunks <- MCChunks
  MaxHeard = 3
INVARIANTS TypeOK Faithful Whole ToldLastReason PingerJoined Ended
PROPERTIES WellFormed Returns
CHECK_DEADLOCK FALSE
