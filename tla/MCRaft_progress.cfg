SPECIFICATION FairSpec
CONSTANTS
  s1 = s1
  s2 = s2
  s3 = s3
  Server = {s1, s2, s3}
  Command = {a}
  NoVote = NoVote
  MaxTerm = 2
  MaxLogLen = 2
  MaxRounds = 1
  MaxBoots = 0
  DiskSurvives = FALSE
  MaxInFlight = 2
  Standing <- Alternate
CONSTRAINTS FewInFlight StandsInOrder
ACTION_CONSTRAINT NewLeaderAhead
PROPERTY EntriesGetApplied
CHECK_DEADLOCK FALSE
