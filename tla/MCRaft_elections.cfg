SPECIFICATION Spec
CONSTANTS
  s1 = s1
  s2 = s2
  s3 = s3
  Server = {s1, s2, s3}
  Command = {a}
  NoVote = NoVote
  MaxTerm = 2
  MaxLogLen = 0
  MaxRounds = 1
  MaxBoots = 1
  DiskSurvives = TRUE
  MaxInFlight = 4
  Standing <- Anyone
SYMMETRY Symmetry
VIEW LiveStateAndVotes
CONSTRAINTS FewInFlight OneRestart
ACTION_CONSTRAINTS ApplyFirst DeadRepliesFirst
INVARIANTS TypeOK ElectionInv ElectionSafety
PROPERTY VoteIsFinal
CHECK_DEADLOCK FALSE
