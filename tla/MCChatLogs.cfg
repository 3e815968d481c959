CONSTANTS
  l1 = l1
  l2 = l2
  Launches = {l1, l2}
  KeepPlain = 1
  KeepTotal = 2
  Verbs = {"tell"}
  MaxDay = 3
  MaxLines = 2
  LaunchesBeside = 1
SPECIFICATION Spec
SYMMETRY Symmetry
CHECK_DEADLOCK FALSE
INVARIANTS
  RecentKept
  ArchiveKept
  OneWorker
  StoppedIsGone
