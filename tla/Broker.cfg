SPECIFICATION FairSpec
CONSTANTS
  Watchers = {w1, w2}
  Requests = {r1}
  Buffer = 1
  Free = free
INVARIANTS TypeOK NoSendOnClosed InOrder NothingMissed
PROPERTIES PublishReturns LeavesWhenGone Arrives
CHECK_DEADLOCK FALSE
