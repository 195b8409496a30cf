SPECIFICATION FairSpec
CONSTANTS
  Files <- MCFiles
  Loops = {0, 1, 2}
  Counts = {0, 1, 2}
  MaxPass = 2
  MaxSent = 5
  Rewrites = 1
  Faults = {"callback", "send"}
CHECK_DEADLOCK FALSE
INVARIANTS TypeOK PassFaithful TotalSent LateSend
PROPERTIES Ends StopSeen
