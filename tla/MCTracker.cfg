CONSTANTS
  slot0 = slot0
  slot1 = slot1
  ip1 = ip1
  ip2 = ip2
  Slots = {slot0, slot1}
  Addrs = {ip1, ip2}
  Dedupe = 2
  PruneAge = 3
  Burst = 1
  MaxTime = 4
SPECIFICATION TrackerSpec
SYMMETRY Symmetry
INVARIANTS
  NobodyUnchecked
PROPERTIES
  DedupeHolds
