----------------------------- MODULE MCAnnouncer -----------------------------
(* TLC instance of Announcer: two schedules and the interval mode.          *)
EXTENDS Announcer, TLC

CONSTANTS l1, l2

Section(on, schedule) == [enabled |-> on, interval |-> 1, schedule |-> schedule]

Entry(time, every) == [time |-> time, every |-> every]

\* The second schedule begins with a typing error and an interval too short.
Sections == {Section(TRUE, <<Entry(0, 4), Entry(Unset, 3)>>),
             Section(TRUE, <<Entry(9, Unset), Entry(Unset, 1), Entry(2, Unset)>>),
             Section(TRUE, <<>>),
             Section(FALSE, <<>>)}

Symmetry == Permutations(Launches)

=============================================================================
