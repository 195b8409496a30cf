SPECIFICATION FairSpec
CONSTANTS
  Files <- MCFiles
  Loops = {0}
  Counts = {0}
  MaxPass = 0
  MaxSent = 1
  Rewrites = 0
  Faults = {}
CHECK_DEADLOCK FALSE
PROPERTY StopHonoured
