CONSTANTS
  l1 = l1
  l2 = l2
  Launches = {l1, l2}
  Configs <- Sections
  FromEnv = FALSE
  DayLength = 5
  MinInterval = 2
  MaxSleep = 2
  MaxTime = 11
  MaxFailures = 1
  MaxEdits = 1
SPECIFICATION Spec
SYMMETRY Symmetry
CHECK_DEADLOCK FALSE
INVARIANTS
  OneWorkerRemains
  NoSlotMissed
  EditsPickedUp
PROPERTIES
  OncePerDay
