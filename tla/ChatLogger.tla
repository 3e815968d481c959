------------------------------ MODULE ChatLogger ------------------------------
(***************************************************************************)
(* chatlogger.py, the addon that logs the chat events of the bus.           *)
(*                                                                         *)
(* The bus and the runner are external.  The supervisor publishes a raw_line  *)
(* event of every line of the game and, of a stock chat verb, a chat_message  *)
(* as well; either may be dropped, and the events of the two output streams   *)
(* overtake each other.  An event carries the time it was read at.            *)
(* Colours, timestamps and how a line is formatted are left out.             *)
(***************************************************************************)
EXTENDS ChatDirectory

VARIABLES
  addon,        \* where main stands
  bus,          \* events on their way to the addon
  hand,         \* the event being written
  openDay,      \* _date of the ChatWriter, None while no file is open
  lastCleanup   \* _last_cleanup

addonVars == <<addon, bus, hand, openDay, lastCleanup>>

Kinds == {"raw_line", "chat_message"}
NoEvent == [kind |-> "none"]

\* parseChatMessage of the supervisor knows the stock verbs only.
EventsOf(n, verb) ==
  {[kind |-> k, line |-> n, verb |-> verb, day |-> day] :
     k \in IF verb \in {"say", "team", "tell", "server"} THEN Kinds ELSE {"raw_line"}}

AddonInit ==
  /\ addon \in {"off", "disabled"} /\ bus = {} /\ hand = NoEvent
  /\ openDay = None /\ lastCleanup = None

-----------------------------------------------------------------------------

\* The verb patterns.  A tell without a target matches none of them; "server"
\* stands for the senders that are no players.
ClassifyRawLine(verb) == verb \in {"say", "team", "admin"}

\* Whether an event is chat to be recorded.
EventToEntry(e) ==
  \/ e.kind = "chat_message" /\ e.verb # "server"
  \/ e.kind = "raw_line" /\ ClassifyRawLine(e.verb)

StartAddon ==
  /\ addon = "off"
  /\ addon' = "ready"
  /\ UNCHANGED <<day, lines, directory, bus, hand, openDay, lastCleanup>>

SkipEvent(e) ==
  /\ addon = "ready"
  /\ e \in bus /\ ~EventToEntry(e)
  /\ bus' = bus \ {e}
  /\ UNCHANGED <<day, lines, directory, addon, hand, openDay, lastCleanup>>

\* _maybe_roll: the file is that of the event's own day, back or forth.
MaybeRoll(e) ==
  /\ addon = "ready"
  /\ e \in bus /\ EventToEntry(e)
  /\ addon' = "writing" /\ hand' = e /\ bus' = bus \ {e}
  /\ openDay' = e.day
  /\ plain' = IF openDay = e.day THEN plain ELSE Opened(plain, e.day)
  /\ UNCHANGED <<day, lines, archive, logged, lastCleanup>>

WriteEntry ==
  /\ addon = "writing"
  /\ Log(openDay, [line |-> hand.line, seen |-> hand.kind, day |-> hand.day])
  /\ addon' = IF lastCleanup = hand.day THEN "ready" ELSE "cleanup"
  /\ hand' = IF lastCleanup = hand.day THEN NoEvent ELSE hand
  /\ UNCHANGED <<day, lines, archive, bus, openDay, lastCleanup>>

\* Faulty: a day too many.
ExpiredEarly(d) == {x \in DOMAIN plain : x <= d - KeepPlain + 1}

\* The stamp of a log is the midnight its day begins with, and the cutoff is
\* KEEP_PLAIN_DAYS before the time of the event.
Expired(d) == {x \in DOMAIN plain : x <= d - KeepPlain}

CleanupOldLogs ==
  /\ addon = "cleanup"
  /\ plain' = Without(plain, Expired(hand.day))
  /\ lastCleanup' = hand.day
  /\ addon' = "ready" /\ hand' = NoEvent
  /\ UNCHANGED <<day, lines, archive, logged, bus, openDay>>

\* A signal, the end of stdin, or an OSError of open or write, which nobody
\* catches: the addon is gone until the supervisor starts anew.
AddonEnds ==
  /\ addon \notin {"off", "disabled"}
  /\ addon' = "off" /\ bus' = {} /\ hand' = NoEvent
  /\ openDay' = None /\ lastCleanup' = None
  /\ UNCHANGED <<day, lines, directory>>

AddonStep ==
  \/ StartAddon \/ WriteEntry \/ CleanupOldLogs \/ AddonEnds
  \/ \E e \in bus : SkipEvent(e) \/ MaybeRoll(e)

=============================================================================
