SPECIFICATION Spec
CONSTANTS
  Starts <- MCStarts
  Spares <- MCSpares
  Edits <- MCEdits
  Bindings <- MCBindings
  HostAddress <- MCHost
  Cuts = {13, 16, 30, 41}
  Pads = {20}
  Mtus = {20, 40, 72}
  Idents <- MCIdents
  MinMtu6 = 72
  MaxHeap = 9
  Captures <- MCCaptures
  Names <- MCNames
  Others <- MCOthers
  Times = {105}
  Half = 100
  U16 = 100
  NameMax = 5
  NameCap = 4
  MaxPacket = 8
  MaxCalls = 4
INVARIANTS
  ReadsWhatWasWritten
  ValidAsBuilt
  DissectsAsBuilt
  RebuildsAsCaptured
  FragmentsReassemble
CHECK_DEADLOCK FALSE
