SPECIFICATION FairSpec
CONSTANTS
  s1 = s1
  s2 = s2
  c1 = c1
  c2 = c2
  Server = {s1, s2}
  Client = {c1, c2}
  ClientId <- Distinct
  Script <- AppendAndOther
  NextServer <- Ring
  FirstServer = s1
  MaxAttempts <- TwoAttempts
  MaxIndex = 3
  MaxHandlers = 2
  NoQueue = NoQueue
INVARIANTS TypeOK KvInv StateIsLogOnce QueueIsOwned AnsweredIsChosen ReadsAreCurrent
PROPERTY HandlersEnd
CHECK_DEADLOCK FALSE
