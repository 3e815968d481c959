----------------------------- MODULE MCSupervisor -----------------------------
(* TLC instance of Supervisor: one clean and one blocked address.           *)
EXTENDS Supervisor, TLC

CONSTANTS slot0, slot1, home, vpn, c1, c2

CheckerSymmetry == Permutations(Checkers)
Symmetry == CheckerSymmetry \union Permutations(Slots)

=============================================================================
