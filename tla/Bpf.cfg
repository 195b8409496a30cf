\* Filters from text to verdicts.
CONSTANTS
  Word = 1073741824
  MaxOffset = 20
  BitAnd <- MCBitAnd
  BitOr <- MCBitOr
  BitXor <- MCBitXor
  HostByName <- MCHostByName
  Expressions <- MCExpressions
  Nonsense <- MCNonsense
  Programs <- MCPrograms
  Packets <- MCPackets
SPECIFICATION Spec
INVARIANTS
  TypeOK
  ParsesAsWritten
  FilterMeansWhatItSays
  AttachedWhole
PROPERTY OptimizerKeepsAnswers
CHECK_DEADLOCK FALSE
