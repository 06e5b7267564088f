SPECIFICATION Spec
CONSTANTS
  Byte = {a, b}
  Newline = nl
  Reason = {a, b, nl}
  None = none
  Payload <- MCPayload
  MaxScanned = 2
  MaxReply = 6
INVARIANTS TypeOK HeldIsBounded UsageIsHighest ReasonIsLast
CHECK_DEADLOCK FALSE
