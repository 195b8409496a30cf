SPECIFICATION Spec
CONSTANTS
  Threads = {t1}
  Socks = {s1, s2}
  MaxFrames = 3
  RingSize = 2
  Count = 0
  Program = f1
  Faults = {"link"}
  f1 = f1
  Programs = {f1}
  Accepts <- MCAccepts
  NoProgram = NoProgram
  NoSock = NoSock
CHECK_DEADLOCK FALSE
INVARIANT FilterHonoured
