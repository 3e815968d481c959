CONSTANTS
  slot0 = slot0
  slot1 = slot1
  home = home
  vpn = vpn
  c1 = c1
  c2 = c2
  Slots = {slot0}
  Addrs = {home, vpn}
  Blocked = {vpn}
  Checkers = {c1, c2}
  MaxConcurrent = 1
  MaxLines = 2
  MaxCommands = 1
  Dedupe = 2
  PruneAge = 2
  Burst = 1
  MaxTime = 2
SPECIFICATION LiveSpec
INVARIANTS
  TrackerMirrorsGame
  BlockedIsPursued
PROPERTIES
  BlockedPlayerRemoved
