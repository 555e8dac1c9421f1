SPECIFICATION Spec
CONSTANTS
  s1 = s1
  s2 = s2
  s3 = s3
  Server = {s1, s2, s3}
  Command = {a}
  NoVote = NoVote
  MaxTerm = 5
  MaxLogLen = 5
  MaxRounds = 1
  MaxBoots = 0
  DiskSurvives = FALSE
  MaxInFlight = 3
  Standing <- TwoRivals
ACTION_CONSTRAINTS ApplyFirst DeadRepliesFirst
VIEW LiveState
CONSTRAINTS FewInFlight StandsInOrder StaleSuffixSchedule
INVARIANT LeaderCompleteness
CHECK_DEADLOCK FALSE
