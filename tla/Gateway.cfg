SPECIFICATION Spec
CONSTANTS
  Segment <- MCSegment
  Empty = ""
  Plain <- MCPlain
  Reserved <- MCReserved
  Fallback = fallback
  Config <- MCConfig
  ModelIDs <- MCModelIDs
  UpstreamCodes <- MCCodes
  Interim <- MCInterim
  None = none
  MaxPieces = 3
INVARIANTS TypeOK StatusIsTold ReplyIsScanned RouteIsTold
CHECK_DEADLOCK FALSE
