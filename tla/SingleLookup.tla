---------------------------- MODULE SingleLookup ----------------------------
(***************************************************************************)
(* What Engine.CheckIP promises its callers about the providers: an        *)
(* address is looked up by one goroutine at a time, which is itself        *)
(* checking that address, and every check returns.                         *)
(***************************************************************************)
CONSTANTS Threads, IPs, NoIP

VARIABLES
  asking,     \* the address each goroutine is checking, or NoIP
  looking     \* the goroutines that query the providers

vars == <<asking, looking>>

Init ==
  /\ asking = [t \in Threads |-> NoIP]
  /\ looking = {}

Ask(t, a) ==
  /\ asking[t] = NoIP
  /\ asking' = [asking EXCEPT ![t] = a]
  /\ UNCHANGED looking

BeginLookup(t) ==
  /\ asking[t] # NoIP
  /\ \A u \in looking : asking[u] # asking[t]
  /\ looking' = looking \union {t}
  /\ UNCHANGED asking

EndLookup(t) ==
  /\ t \in looking
  /\ looking' = looking \ {t}
  /\ UNCHANGED asking

Return(t) ==
  /\ asking[t] # NoIP
  /\ t \notin looking
  /\ asking' = [asking EXCEPT ![t] = NoIP]
  /\ UNCHANGED looking

\* The process dies: its checks and their lookups with it.
Die ==
  /\ asking' = [t \in Threads |-> NoIP]
  /\ looking' = {}

Next ==
  \/ \E t \in Threads :
       \/ BeginLookup(t) \/ EndLookup(t) \/ Return(t)
       \/ \E a \in IPs : Ask(t, a)
  \/ Die

SafeSpec == Init /\ [][Next]_vars

Spec == SafeSpec /\ \A t \in Threads : WF_vars(Return(t))

=============================================================================
