------------------------------ MODULE MCChatLogs ------------------------------
(* TLC instance of ChatLogs.                                                *)
EXTENDS ChatLogs, TLC

CONSTANTS l1, l2

Symmetry == Permutations(Launches)

=============================================================================
