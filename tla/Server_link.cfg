SPECIFICATION FairSpec
CONSTANTS
  App = {a}
  SeqWidth = 4
  Sums = {0, 86888}
  MaxSends = 4
  MaxBack = 2
  Eagers = {TRUE, FALSE}
CHECK_DEADLOCK FALSE
INVARIANTS
  TypeOK
  RefusedOnlyAfterRace
  InStepUnlessLost
  VerdictMirrored
  WaitingServerNeverKicked
PROPERTIES
  Authenticates
