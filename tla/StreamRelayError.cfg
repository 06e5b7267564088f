SPECIFICATION Spec
CONSTANTS
  Text = text
  ToolIndex = {i0}
  NoIndex = none
  Chunks <- MCChunks
  MaxHeard = 2
INVARIANTS ErrorReported
CHECK_DEADLOCK FALSE
