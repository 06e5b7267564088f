SPECIFICATION FairSpec
CONSTANTS
  Segment <- MCSegment
  Empty = ""
  Plain <- MCPlain
  Reserved <- MCReserved
  Fallback = fallback
  Configs <- MCConfigs
  Catalogs <- MCCatalogs
  FromAPI <- MCFromAPI
INVARIANTS ListedIdsRoute ListingIsWhole
PROPERTIES Answered
CHECK_DEADLOCK FALSE
