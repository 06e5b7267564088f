SPECIFICATION FairSpec
CONSTANTS
  Segment <- MCSegment
  Empty = ""
  Plain <- MCPlain
  Reserved <- MCReserved
  Fallback = fallback
  Word = {"", "http", "https", "ftp", "h", "api.anthropic.com"}
  Files <- MCFiles
  Events = {"e1", "e2", "e3"}
  Oversize = {"e3"}
  Grace = 1
  MaxSignals = 2
  None = "none"
INVARIANTS TypeOK CleanExit CutHasCause LoadedIsBuilt PrintedIsPrefix
PROPERTIES Stops WatchEnds Prints
CHECK_DEADLOCK FALSE
