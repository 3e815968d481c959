--------------------------- MODULE MCMatchAnnouncer ---------------------------
(* TLC instance of MatchAnnouncer: sections as an operator may write them.  *)
EXTENDS MatchAnnouncer

NoObject == [object |-> FALSE]

Env == {NoObject, Section(TRUE, TRUE, {6}), Section(TRUE, FALSE, {3, 6})}

File == {NoObject, Section(TRUE, TRUE, {3}), Section(TRUE, TRUE, {6, 8})}

=============================================================================
