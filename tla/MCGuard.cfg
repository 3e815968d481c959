CONSTANTS
  Slots = {0, 1}
  Ips = {"10.0.0.1", "10.0.0.2", "10.0.0.9"}
  Files <- MCFiles
  Runtimes <- MCRuntimes
  MaxUptime = 1
  FeedCap = 1
SPECIFICATION LiveSpec
CHECK_DEADLOCK FALSE
PROPERTIES
  OnlyTheSourceIsKicked
  OffenderIsRemoved
