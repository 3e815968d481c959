CONSTANTS
  g1 = g1
  g2 = g2
  ip1 = ip1
  Goroutines = {g1, g2}
  Addrs = {ip1}
  BroadcastMode = "pass-and-block"
  EnforcementMode = "ban-and-kick"
  Templates = {"pass", "block"}
  CustomCommands = {"kick"}
  Cooldown = 1
  PruneAfter = 1
  QueueCap = 1
  MaxTime = 2
SPECIFICATION Spec
SYMMETRY Symmetry
PROPERTIES
  BlockLineFirst
  CooldownHolds
