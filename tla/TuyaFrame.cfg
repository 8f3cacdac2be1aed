SPECIFICATION PairSpec
CONSTANTS
  Size = 512
  Slack = 64
  Messages = {16, 48}
  Documents <- MCDocuments
INVARIANTS TypeOK FrameAsSent SignedAsSent InsideBuffer DocumentGiven PySamePayload
CHECK_DEADLOCK FALSE
