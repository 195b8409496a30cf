SPECIFICATION Spec
CONSTANTS
  Threads = {t1, t2}
  Socks = {s1, s2}
  MaxFrames = 3
  RingSize = 1
  Count = 2
  Program = NoProgram
  Faults = {"link", "recv"}
  f1 = f1
  Programs = {f1}
  Accepts <- MCAccepts
  NoProgram = NoProgram
  NoSock = NoSock
CHECK_DEADLOCK FALSE
SYMMETRY Symmetry
INVARIANTS CountHonest NoLeak
PROPERTY LimitLasts
