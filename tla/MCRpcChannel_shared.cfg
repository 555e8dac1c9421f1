SPECIFICATION Spec
CONSTANTS
  c1 = c1
  c2 = c2
  c3 = c3
  Call = {c1, c2, c3}
  None = None
  Loads <- VoteLoads
  Answers <- SomeAnswers
  MaxConn = 1
  MaxCrash = 0
  MaxCut = 0
INVARIANTS OwnReplyAlways
CHECK_DEADLOCK FALSE
