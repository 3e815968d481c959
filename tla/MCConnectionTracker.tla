------------------------- MODULE MCConnectionTracker -------------------------
(* TLC instance of ConnectionTracker: any order of engine lines.            *)
EXTENDS ConnectionTracker, TLC

CONSTANTS slot0, slot1, ip1, ip2

Symmetry == Permutations(Slots) \union Permutations(Addrs)

==============================================================================
