SPECIFICATION FairSpec
CONSTANTS
  Threads = {t1}
  Socks = {s1, s2, s3}
  MaxFrames = 4
  RingSize = 2
  Count = 2
  Program = f1
  Faults = {"construct", "recv", "interrupt"}
  f1 = f1
  Programs = {f1}
  Accepts <- MCAccepts
  NoProgram = NoProgram
  NoSock = NoSock
CHECK_DEADLOCK FALSE
INVARIANTS TypeOK NoUndefinedCall LateBound FilterHonoured
PROPERTIES ImplementsFeed StopEnds TimeoutEnds
