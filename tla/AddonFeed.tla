------------------------------ MODULE AddonFeed ------------------------------
(***************************************************************************)
(* What the addon runner promises an event addon about its stdin: the feed *)
(* is opened once, before the end, carries one event at a time, is never   *)
(* closed under an event unless that event failed, never opens again, and  *)
(* is closed at the end, after which no addon is launched.                 *)
(***************************************************************************)
CONSTANT Addons

VARIABLES
  feed,   \* of each addon: none yet, open or closed
  busy,   \* whether an event is being written to it
  over    \* the addons have been stopped

vars == <<feed, busy, over>>

Init ==
  /\ feed = [a \in Addons |-> "none"]
  /\ busy = [a \in Addons |-> FALSE]
  /\ over = FALSE

Open(a) ==
  /\ ~over
  /\ feed[a] = "none"
  /\ feed' = [feed EXCEPT ![a] = "open"]
  /\ UNCHANGED <<busy, over>>

BeginEvent(a) ==
  /\ feed[a] = "open" /\ ~busy[a]
  /\ busy' = [busy EXCEPT ![a] = TRUE]
  /\ UNCHANGED <<feed, over>>

EventWritten(a) ==
  /\ busy[a]
  /\ busy' = [busy EXCEPT ![a] = FALSE]
  /\ UNCHANGED <<feed, over>>

EventFails(a) ==
  /\ busy[a]
  /\ busy' = [busy EXCEPT ![a] = FALSE]
  /\ feed' = [feed EXCEPT ![a] = "closed"]
  /\ UNCHANGED over

Close(a) ==
  /\ feed[a] = "open" /\ ~busy[a]
  /\ feed' = [feed EXCEPT ![a] = "closed"]
  /\ UNCHANGED <<busy, over>>

End ==
  /\ \A a \in Addons : feed[a] # "open"
  /\ over' = TRUE
  /\ UNCHANGED <<feed, busy>>

Next ==
  \/ \E a \in Addons : Open(a) \/ BeginEvent(a) \/ EventWritten(a) \/ EventFails(a) \/ Close(a)
  \/ End

Spec == Init /\ [][Next]_vars

=============================================================================
