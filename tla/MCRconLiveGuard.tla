--------------------------- MODULE MCRconLiveGuard ---------------------------
(* TLC instance of RconLiveGuard: a file with some keys, and runtimes with one *)
(* source of lines each and without a password.                             *)
EXTENDS RconLiveGuard

MCFiles == {[interval |-> 2, patterns |-> {"rcon", "("}, ignored |-> {"10.0.0.9"}]}

MCRuntimes == {[live |-> FALSE, log |-> TRUE, password |-> TRUE],
               [live |-> TRUE, log |-> FALSE, password |-> FALSE]}

=============================================================================
