---------------------------- MODULE MCAddonRunner ----------------------------
(* TLC instance of AddonRunner.                                             *)
EXTENDS AddonRunner, TLC

CONSTANTS stdout, stderr, chatlogger, announcer

Symmetry == Permutations(Handlers) \union Permutations(Publishers)

==============================================================================
