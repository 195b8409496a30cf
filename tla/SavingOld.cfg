SPECIFICATION Spec
CONSTANTS
  Packets = {p1, p2}
  Big = {p2}
  Quarter = {p1}
  Garbage = Garbage
  MaxBatch = 2
  MaxWrites = 2
  Faults = {"open", "full", "nomem", "crash"}
CHECK_DEADLOCK FALSE
INVARIANT OldCompressedRefused
