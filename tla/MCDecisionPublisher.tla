-------------------------- MODULE MCDecisionPublisher -------------------------
(* TLC instance of DecisionPublisher.                                       *)
EXTENDS DecisionPublisher, TLC

CONSTANTS g1, g2, ip1

Symmetry == Permutations(Goroutines)

=============================================================================
