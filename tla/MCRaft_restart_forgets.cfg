SPECIFICATION Spec
CONSTANTS
  s1 = s1
  s2 = s2
  s3 = s3
  Server = {s1, s2, s3}
  Command = {a}
  NoVote = NoVote
  MaxTerm = 2
  MaxLogLen = 0
  MaxRounds = 1
  MaxBoots = 1
  DiskSurvives = FALSE
  MaxInFlight = 3
  Standing <- Anyone
SYMMETRY Symmetry
CONSTRAINTS FewInFlight OneRestart
INVARIANT ElectionSafety
CHECK_DEADLOCK FALSE
