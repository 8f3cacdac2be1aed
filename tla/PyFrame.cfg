SPECIFICATION PairSpec
CONSTANTS
  Size = 512
  Slack = 0
  Messages = {16, 48}
  Documents = {2}
INVARIANTS PySealed
CHECK_DEADLOCK FALSE
