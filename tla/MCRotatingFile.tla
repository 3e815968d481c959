--------------------------- MODULE MCRotatingFile ---------------------------
(* TLC instance of RotatingFile: seven lines, the third longer than the       *)
(* threshold.                                                               *)
EXTENDS RotatingFile

Lengths == <<1, 2, 3, 1, 1, 2, 1>>

=============================================================================
