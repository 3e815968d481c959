------------------------------ MODULE MCEngine ------------------------------
(* A TLC instance of Engine: two goroutines, a private and a public address. *)
EXTENDS Engine

CONSTANTS lan, ip1, t1, t2, pass

=============================================================================
