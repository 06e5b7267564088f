SPECIFICATION Spec
CONSTANTS
  Segment <- MCSegment
  Empty = ""
  Plain <- MCPlain
  Reserved <- MCReserved
  Fallback = fallback
  Config <- MCConfig
  ModelIDs <- MCModelIDs
  UpstreamCodes <- MCCodes
  Interim <- MCInterim
  None = none
  MaxPieces = 3
INVARIANTS StatusIsSeen
CHECK_DEADLOCK FALSE
