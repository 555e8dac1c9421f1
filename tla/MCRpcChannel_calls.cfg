SPECIFICATION FairSpec
CONSTANTS
  c1 = c1
  c2 = c2
  c3 = c3
  Call = {c1, c2, c3}
  None = None
  Loads <- AllLoads
  Answers <- SomeAnswers
  MaxConn = 3
  MaxCrash = 2
  MaxCut = 1
INVARIANTS TypeOK ChannelInv OwnReply HandledOnce
PROPERTIES CallReturns
CHECK_DEADLOCK FALSE
