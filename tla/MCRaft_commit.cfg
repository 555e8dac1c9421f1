SPECIFICATION Spec
CONSTANTS
  s1 = s1
  s2 = s2
  s3 = s3
  Server = {s1, s2, s3}
  Command = {a, b}
  NoVote = NoVote
  MaxTerm = 4
  MaxLogLen = 1
  MaxRounds = 1
  MaxBoots = 0
  DiskSurvives = FALSE
  MaxInFlight = 3
  Standing <- Alternate
ACTION_CONSTRAINTS ApplyFirst DeadRepliesFirst
SYMMETRY CommandSymmetry
VIEW LiveState
CONSTRAINTS FewInFlight StandsInOrder
INVARIANTS LeaderCompleteness StateMachineSafety
PROPERTY CommittedIsFinal ImplementsReplicatedLog
CHECK_DEADLOCK FALSE
