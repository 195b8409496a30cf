SPECIFICATION Spec
CONSTANTS
  Packets = {p1, p2}
  Big = {p2}
  Quarter = {p1}
  Garbage = Garbage
  MaxBatch = 2
  MaxWrites = 3
  Faults = {"open", "full", "nomem", "crash"}
CHECK_DEADLOCK FALSE
INVARIANTS TypeOK SuccessDurable
PROPERTIES ImplementsStore
