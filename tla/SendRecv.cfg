SPECIFICATION FairSpec
CONSTANTS
  Socks = {s1}
  MaxFrames = 3
  RingSize = 2
  f1 = f1
  f2 = f2
  Programs = {f1, f2}
  Accepts <- MCAccepts
  NoProgram = NoProgram
  NoSock = NoSock
  None = None
  Counts = {0, 1, 2}
  Failures = {"set_filter", "read"}
CHECK_DEADLOCK FALSE
INVARIANTS TypeOK FilterAgrees FilterRestored FilteredReply CountRespected
PROPERTY Returns
