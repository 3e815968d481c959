CONSTANTS
  Threshold = 90
  Keyed = {"ipqualityscore", "iplocate", "iphub", "vpnapi"}
SPECIFICATION VerdictSpec
INVARIANTS
  OutageNeverBlocks
  WeakSignalsNeverBlock
