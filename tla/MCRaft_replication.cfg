SPECIFICATION Spec
CONSTANTS
  s1 = s1
  s2 = s2
  s3 = s3
  Server = {s1, s2, s3}
  Command = {s1, s2, s3}
  NoVote = NoVote
  MaxTerm = 2
  MaxLogLen = 2
  MaxRounds = 1
  MaxBoots = 0
  DiskSurvives = FALSE
  MaxInFlight = 3
  Standing <- FirstS1
SYMMETRY FollowerSymmetry
ACTION_CONSTRAINTS OwnCommands ApplyFirst DeadRepliesFirst
VIEW LiveState
CONSTRAINTS FewInFlight StandsInOrder
INVARIANTS LogInv AssertionsHold AckedEntryHeld QuorumAckedIsCommitted
PROPERTY LogNeverShrinks
CHECK_DEADLOCK FALSE
