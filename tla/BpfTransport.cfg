\* Filters the documents list that answer otherwise.
CONSTANTS
  Word = 1073741824
  MaxOffset = 20
  BitAnd <- MCBitAnd
  BitOr <- MCBitOr
  BitXor <- MCBitXor
  HostByName <- MCHostByName
  Expressions <- MCMisread
  Nonsense <- MCNonsense
  Programs <- MCPrograms
  Packets <- MCPackets
SPECIFICATION Spec
INVARIANT FilterMeansWhatItSays
CHECK_DEADLOCK FALSE
