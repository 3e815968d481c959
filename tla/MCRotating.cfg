CONSTANTS
  MaxBytes = 2
  KeepCount = 2
  RotateOnOpen = {TRUE, FALSE}
  Bytes <- Lengths
  MaxFaults = 3
  NoFile = NoFile
SPECIFICATION Spec
INVARIANTS
  KeptUntilPruned
  HistoryBounded
