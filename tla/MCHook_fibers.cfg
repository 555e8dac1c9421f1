SPECIFICATION FairSpec
CONSTANTS
  a = a
  b = b
  x = x
  m = m
  Fiber = {a, b}
  Fd = {x}
  UserTimer = {m}
  TimerId = {a, b, m}
  Worker = {w1}
  NoFiber = NoFiber
  Callback <- Callbacks
  MaxDelay = 2
  MaxTimeout = 2
  ConnectTimeout = 1
  Script <- ReaderAndCloser
  MainScript <- HandOverAndStop
INVARIANTS FiberInv NoPanic ArmedIsQueued ResumedOnce NoTimerOverslept StoppedIsDrained
PROPERTIES NotEarly FibersEnd StopReturns
CHECK_DEADLOCK FALSE
