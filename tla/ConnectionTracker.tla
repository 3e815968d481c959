-------------------------- MODULE ConnectionTracker --------------------------
(***************************************************************************)
(* What Supervisor.handleLogLine does with the engine's client lines: the  *)
(* tracked connection of each slot (connectionState), the event dedupe     *)
(* (seenEvents), the reinit burst, and which lines start an anti-VPN       *)
(* check, of which kind.                                                   *)
(*                                                                         *)
(* Lines come from the one scanner that reads the stream the engine prints *)
(* to, and nothing else in the program writes these maps, so a line is one *)
(* step.  Display names are not modelled: they decide nothing here.        *)
(* Durations are in ticks, in the order of the defaults: the burst window  *)
(* (5s) is shorter than the dedupe interval (90s), which is shorter than   *)
(* the age at which entries are pruned (5m).                               *)
(***************************************************************************)
EXTENDS Integers, Sequences, FiniteSets

CONSTANTS
  Slots,      \* client slots of the game server
  Addrs,      \* addresses players come from
  Dedupe,     \* Config.EventDedupeInterval
  PruneAge,   \* the five minutes of markEvent
  Burst,      \* the window of markReinitBurst
  MaxTime     \* bound on the clock

ASSUME TrackerAssumption ==
  /\ Dedupe \in Nat \ {0} /\ PruneAge \in Nat /\ Burst \in Nat
  /\ MaxTime \in Nat
  /\ "none" \notin Addrs

VARIABLES
  now,         \* wall clock
  tracked,     \* connectionState: the address of each slot, or NoAddr
  recency,     \* tracked slots, the one with the latest SeenAt last
  seen,        \* seenEvents: when slot|addr was marked, or Never
  burstUntil,  \* reinitBurstUntil
  check,       \* the check the last line started, or NoCheck
  checkedAt,   \* history: when a check of slot|addr was last started
  since        \* history: when the tracked address was first seen there

trackerState == <<tracked, recency, seen, burstUntil>>
trackerVars == <<now, trackerState, check, checkedAt, since>>

NoAddr  == "none"
Never   == -1
Kinds   == {"real_connect", "reinit_connect", "userinfo"}
NoCheck == [slot |-> NoAddr, addr |-> NoAddr, kind |-> "none"]
Checks  == [slot : Slots, addr : Addrs, kind : Kinds]

TrackerTypeOK ==
  /\ now \in 0 .. MaxTime
  /\ tracked \in [Slots -> Addrs \union {NoAddr}]
  /\ recency \in Seq({s \in Slots : tracked[s] # NoAddr})
  /\ seen \in [Slots -> [Addrs -> 0 .. MaxTime \union {Never}]]
  /\ burstUntil \in 0 .. (MaxTime + Burst)
  /\ check \in Checks \union {NoCheck}
  /\ checkedAt \in [Slots -> [Addrs -> 0 .. MaxTime \union {Never}]]
  /\ since \in [Slots -> 0 .. MaxTime]

TrackerInit ==
  /\ now = 0
  /\ tracked = [s \in Slots |-> NoAddr]
  /\ recency = <<>>
  /\ seen = [s \in Slots |-> [a \in Addrs |-> Never]]
  /\ burstUntil = 0
  /\ check = NoCheck
  /\ checkedAt = [s \in Slots |-> [a \in Addrs |-> Never]]
  /\ since = [s \in Slots |-> 0]

-----------------------------------------------------------------------------

InBurst == now < burstUntil

ClassifyConnect(s, a) ==
  IF InBurst /\ tracked[s] = a THEN "reinit_connect" ELSE "real_connect"

Without(s) == SelectSeq(recency, LAMBDA r : r # s)

StoreConnectionState(s, a) ==
  /\ tracked' = [tracked EXCEPT ![s] = a]
  /\ recency' = Append(Without(s), s)
  /\ since' = [since EXCEPT ![s] = IF tracked[s] = a THEN @ ELSE now]

\* Entries past PruneAge are dropped before the lookup.
Pruned == [s \in Slots |-> [a \in Addrs |->
             IF seen[s][a] # Never /\ now - seen[s][a] > PruneAge THEN Never
             ELSE seen[s][a]]]

Duplicate(s, a) == Pruned[s][a] # Never /\ now - Pruned[s][a] < Dedupe

\* Faulty: the event is not marked.
ProcessConnectionEventUnmarked(s, a, kind) ==
  IF Duplicate(s, a)
  THEN /\ seen' = Pruned
       /\ check' = NoCheck
       /\ UNCHANGED checkedAt
  ELSE /\ seen' = Pruned
       /\ check' = [slot |-> s, addr |-> a, kind |-> kind]
       /\ checkedAt' = [checkedAt EXCEPT ![s][a] = now]

\* markEvent and, when it says so, the goroutine that checks the address.
ProcessConnectionEvent(s, a, kind) ==
  IF Duplicate(s, a)
  THEN /\ seen' = Pruned
       /\ check' = NoCheck
       /\ UNCHANGED checkedAt
  ELSE /\ seen' = [Pruned EXCEPT ![s][a] = now]
       /\ check' = [slot |-> s, addr |-> a, kind |-> kind]
       /\ checkedAt' = [checkedAt EXCEPT ![s][a] = now]

-----------------------------------------------------------------------------
(* The lines.                                                               *)

\* The kind is decided before the tracked state is overwritten.
ClientConnect(s, a) ==
  /\ StoreConnectionState(s, a)
  /\ ProcessConnectionEvent(s, a, ClassifyConnect(s, a))
  /\ UNCHANGED <<now, burstUntil>>

\* Faulty: a slot that is tracked at all needs no check.
ClientUserinfoChangedKnownSlot(s, a) ==
  /\ StoreConnectionState(s, a)
  /\ IF tracked[s] # NoAddr
     THEN /\ check' = NoCheck
          /\ UNCHANGED <<seen, checkedAt>>
     ELSE ProcessConnectionEvent(s, a, "userinfo")
  /\ UNCHANGED <<now, burstUntil>>

\* A ClientUserinfoChanged line that carries an address.
ClientUserinfoChanged(s, a) ==
  /\ StoreConnectionState(s, a)
  /\ IF tracked[s] = a
     THEN /\ check' = NoCheck
          /\ UNCHANGED <<seen, checkedAt>>
     ELSE ProcessConnectionEvent(s, a, "userinfo")
  /\ UNCHANGED <<now, burstUntil>>

\* Faulty: the dedupe entry survives.
ClientDisconnectKeepsSeen(s) ==
  /\ tracked' = [tracked EXCEPT ![s] = NoAddr]
  /\ recency' = Without(s)
  /\ check' = NoCheck
  /\ UNCHANGED <<now, seen, burstUntil, checkedAt, since>>

\* Faulty: only the dedupe entry goes.
ClientDisconnectKeepsAddress(s) ==
  /\ seen' = IF tracked[s] = NoAddr THEN seen
             ELSE [seen EXCEPT ![s][tracked[s]] = Never]
  /\ check' = NoCheck
  /\ UNCHANGED <<now, tracked, recency, burstUntil, checkedAt, since>>

\* clearConnectionState: the dedupe entry of the address tracked last goes
\* with the slot.
ClientDisconnect(s) ==
  /\ tracked' = [tracked EXCEPT ![s] = NoAddr]
  /\ recency' = Without(s)
  /\ seen' = IF tracked[s] = NoAddr THEN seen
             ELSE [seen EXCEPT ![s][tracked[s]] = Never]
  /\ check' = NoCheck
  /\ UNCHANGED <<now, burstUntil, checkedAt, since>>

\* InitGame, ShutdownGame or exec server.cfg: markReinitBurst.
InitGame ==
  /\ burstUntil' = now + Burst
  /\ check' = NoCheck
  /\ UNCHANGED <<now, tracked, recency, seen, checkedAt, since>>

Tick ==
  /\ now < MaxTime
  /\ now' = now + 1
  /\ check' = NoCheck
  /\ UNCHANGED <<trackerState, checkedAt, since>>

TrackerNext ==
  \/ \E s \in Slots, a \in Addrs : ClientConnect(s, a) \/ ClientUserinfoChanged(s, a)
  \/ \E s \in Slots : ClientDisconnect(s)
  \/ InitGame
  \/ Tick

TrackerSpec == TrackerInit /\ [][TrackerNext]_trackerVars

-----------------------------------------------------------------------------
(* Properties.                                                              *)

\* Nobody plays unchecked: the address tracked for a slot was checked there
\* no earlier than the dedupe interval before it came to that slot.  Neither
\* the early return for a repeated address, nor the dedupe, nor a map
\* restart lets a new address slip past.
NobodyUnchecked ==
  \A s \in Slots : tracked[s] # NoAddr =>
    /\ checkedAt[s][tracked[s]] # Never
    /\ since[s] - checkedAt[s][tracked[s]] < Dedupe

\* A slot|addr is not checked twice within the dedupe interval unless the
\* slot was given up in between.
DedupeHolds ==
  [][\A s \in Slots, a \in Addrs :
       /\ checkedAt[s][a] # Never
       /\ checkedAt'[s][a] # checkedAt[s][a]
       /\ tracked[s] = a /\ since[s] <= checkedAt[s][a]
       => checkedAt'[s][a] - checkedAt[s][a] >= Dedupe]_trackerVars

=============================================================================
