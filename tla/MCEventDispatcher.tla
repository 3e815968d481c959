-------------------------- MODULE MCEventDispatcher --------------------------
(* TLC instance of EventDispatcher: the stdout and stderr scanners.         *)
EXTENDS EventDispatcher, TLC

CONSTANTS stdout, stderr, h1, h2

Symmetry == Permutations(Publishers) \union Permutations(Handlers)

==============================================================================
