CONSTANTS
  EnvSections <- Env
  FileSections <- File
  ArmTime = 1
  StartDelay = 1
  PipeCap = 2
  MaxEvents = 5
SPECIFICATION LiveSpec
CHECK_DEADLOCK FALSE
INVARIANTS
  MatchLines
  VotePerMatch
  NothingLostAtEof
PROPERTIES
  WinnerOfThisMatch
  StartLineResolved
  SummaryFollows
