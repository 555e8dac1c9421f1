SPECIFICATION Spec
CONSTANTS
  s1 = s1
  s2 = s2
  c1 = c1
  c2 = c2
  Server = {s1, s2}
  Client = {c1}
  ClientId <- Distinct
  Script <- ReadThenAppend
  NextServer <- Ring
  FirstServer = s1
  MaxAttempts <- TwoAttemptsEach
  MaxIndex = 4
  MaxHandlers = 3
  NoQueue = NoQueue
INVARIANT DuplicatesNotExecuted
CHECK_DEADLOCK FALSE
