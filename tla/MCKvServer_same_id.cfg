SPECIFICATION Spec
CONSTANTS
  s1 = s1
  s2 = s2
  c1 = c1
  c2 = c2
  Server = {s1, s2}
  Client = {c1, c2}
  ClientId <- Unseeded
  Script <- AppendThenRead
  NextServer <- Ring
  FirstServer = s1
  MaxAttempts <- TwoAttempts
  MaxIndex = 3
  MaxHandlers = 3
  NoQueue = NoQueue
INVARIANT ReadsAreCurrent
CHECK_DEADLOCK FALSE
