---------------------------- MODULE RconLiveGuard ----------------------------
(***************************************************************************)
(* 50-rcon-live-guard.py: a worker that tails the output of the server, asks  *)
(* it for its players over RCON when a line tells of an RCON attempt, and      *)
(* kicks the player who sits at the source of the attempt.                    *)
(*                                                                         *)
(* The three RCON exchanges of an enforcement are datagrams that may be lost, *)
(* and the game goes on between them.  Only the first datagram of an answer   *)
(* is read, so the list of players may end early.                            *)
(*                                                                         *)
(* The game, the network and tail are external.  The launch and the lock are  *)
(* those of AnnouncerWorker.  Of an address the IP is kept, of a line its     *)
(* source and the shape of its text.  Cooldowns count down in ticks.          *)
(***************************************************************************)
EXTENDS Integers, Sequences, FiniteSetsExt

CONSTANTS
  Slots,      \* slots of the server, in the order of its status table
  Ips,        \* addresses of players and of others
  Files,      \* what the configuration file may hold
  Runtimes,   \* what the runtime environment may hold
  MaxUptime,  \* bound: ticks the host may be up at the start
  FeedCap     \* bound: lines tail has printed and nobody has read

ASSUME GuardAssumption ==
  /\ Slots \subseteq Nat /\ MaxUptime \in Nat /\ FeedCap \in Nat \ {0}
  /\ "nobody" \notin Ips
  /\ \A f \in Files : "interval" \in DOMAIN f => f.interval \in Int

VARIABLES
  config,    \* the loaded configuration
  runtime,   \* the runtime environment
  players,   \* the address in each slot
  unread,      \* lines of tail
  guard,     \* where run_worker stands
  cooling,   \* ticks until an attempt of an address counts again
  target,    \* the source of the attempt being enforced
  slot,      \* the slot found for it
  handed     \* history: the slot has changed hands since it was found

workVars == <<guard, target, slot, handed>>
guardVars == <<config, runtime, players, unread, cooling, workVars>>

Nobody == "nobody"
NoSlot == -1

-----------------------------------------------------------------------------
(* The configuration.                                                       *)

Shapes == {"bad_rcon", "bad_password", "rcon", "remote_command"}
Lines == [ip : Ips, shape : Shapes \union {"other"}]

Defaults == [enabled |-> TRUE, fallback |-> TRUE, ignored |-> {"127.0.0.1", "::1", "localhost"},
             interval |-> 10, patterns |-> Shapes]

\* A pattern that is no regular expression, or names no address, is skipped.
CompilePatterns(raw) == raw \intersect Shapes

\* Missing keys fall back to the defaults, and so does an empty list of
\* patterns.  A list with no valid pattern detects nothing.
LoadConfig(file) ==
  LET loaded == [k \in DOMAIN Defaults |-> IF k \in DOMAIN file THEN file[k] ELSE Defaults[k]]
  IN [loaded EXCEPT !.interval = Max({0, @}),
                    !.patterns = CompilePatterns(IF @ = {} THEN Defaults.patterns ELSE @)]

\* The live output, or the log of the server if that is allowed.
PreferredTailSource(c, env) ==
  IF env.live THEN "live-output"
  ELSE IF c.fallback /\ env.log THEN "server-log" ELSE "none"

TypeOK ==
  /\ config \in {LoadConfig(f) : f \in Files} /\ runtime \in Runtimes
  /\ players \in [Slots -> Ips \union {Nobody}]
  /\ unread \in Seq(Lines) /\ Len(unread) <= FeedCap
  /\ guard \in {"no_tail", "reading", "status", "kick", "say", "stopped"}
  /\ cooling \in [Ips -> Nat]
  /\ target \in Ips \union {Nobody} /\ slot \in Slots \union {NoSlot}
  /\ handed \in BOOLEAN

\* The monotonic clock starts with the host and an address without an entry in
\* last_action_for_ip counts as acted upon at zero.
GuardInit ==
  /\ \E f \in Files : config = LoadConfig(f)
  /\ runtime \in Runtimes
  /\ players \in [Slots -> Ips \union {Nobody}]
  /\ unread = <<>>
  /\ guard = IF config.enabled THEN "no_tail" ELSE "stopped"
  /\ \E up \in 0 .. MaxUptime : cooling = [ip \in Ips |-> Max({0, config.interval - up})]
  /\ target = Nobody /\ slot = NoSlot /\ handed = FALSE

-----------------------------------------------------------------------------
(* run_worker.                                                              *)

\* Without a source, or while it is not there, the worker waits.
StartGuardTail ==
  /\ guard = "no_tail"
  /\ PreferredTailSource(config, runtime) # "none"
  /\ guard' = "reading"
  /\ UNCHANGED <<config, runtime, players, unread, cooling, target, slot, handed>>

TryDetectRconAttempt(line) == line.shape \in config.patterns
IsIgnoredIp(ip) == ip \in config.ignored

Counts(line) ==
  TryDetectRconAttempt(line) /\ ~IsIgnoredIp(line.ip) /\ cooling[line.ip] = 0

\* Faulty: an attempt that is dropped extends the cooldown.
HandleLineExtending ==
  /\ guard = "reading" /\ unread # <<>>
  /\ unread' = Tail(unread)
  /\ cooling' = [cooling EXCEPT ![Head(unread).ip] = config.interval]
  /\ IF Counts(Head(unread)) /\ runtime.password
     THEN guard' = "status" /\ target' = Head(unread).ip
     ELSE UNCHANGED <<guard, target>>
  /\ UNCHANGED <<config, runtime, players, slot, handed>>

\* The next line.  The cooldown begins with the detection, whatever comes of
\* it; without an RCON password the attempt is only logged.
HandleLine ==
  /\ guard = "reading" /\ unread # <<>>
  /\ unread' = Tail(unread)
  /\ IF Counts(Head(unread))
     THEN /\ cooling' = [cooling EXCEPT ![Head(unread).ip] = config.interval]
          /\ IF runtime.password
             THEN guard' = "status" /\ target' = Head(unread).ip
             ELSE UNCHANGED <<guard, target>>
     ELSE UNCHANGED <<cooling, guard, target>>
  /\ UNCHANGED <<config, runtime, players, slot, handed>>

GuardTailExits ==
  /\ guard = "reading" /\ unread = <<>>
  /\ guard' = "no_tail"
  /\ UNCHANGED <<config, runtime, players, unread, cooling, target, slot, handed>>

-----------------------------------------------------------------------------
(* enforce_rcon_attempt.                                                    *)

\* Faulty: the first player will do.
FindAnyPlayer(shown, ip) ==
  LET found == {s \in shown : players[s] # Nobody} IN
  IF found = {} THEN NoSlot ELSE Min(found)

\* The first row of the table with that address.
FindPlayerSlotByIp(shown, ip) ==
  LET found == {s \in shown : players[s] = ip} IN
  IF found = {} THEN NoSlot ELSE Min(found)

\* The answer to status shows the players of a prefix of the slots, or none: it
\* was lost, or the password is wrong.  A source that is not found is left alone.
StatusAnswered(shown) ==
  /\ guard = "status"
  /\ slot' = FindPlayerSlotByIp(shown, target)
  /\ IF slot' = NoSlot THEN guard' = "reading" /\ target' = Nobody
     ELSE guard' = "kick" /\ UNCHANGED target
  /\ handed' = FALSE
  /\ UNCHANGED <<config, runtime, players, unread, cooling>>

\* clientkick hits whoever is in the slot by now.
Kick ==
  /\ guard = "kick"
  /\ guard' = "say"
  /\ players' = [players EXCEPT ![slot] = Nobody]
  /\ UNCHANGED <<config, runtime, unread, cooling, target, slot, handed>>

\* send_rcon_command returns "" and the guard goes on as if it had kicked.
KickLost ==
  /\ guard = "kick"
  /\ guard' = "say"
  /\ UNCHANGED <<config, runtime, players, unread, cooling, target, slot, handed>>

Broadcast ==
  /\ guard = "say"
  /\ guard' = "reading" /\ target' = Nobody /\ slot' = NoSlot /\ handed' = FALSE
  /\ UNCHANGED <<config, runtime, players, unread, cooling>>

\* SIGTERM or SIGINT.
Stop ==
  /\ guard # "stopped"
  /\ guard' = "stopped" /\ target' = Nobody /\ slot' = NoSlot /\ handed' = FALSE
  /\ UNCHANGED <<config, runtime, players, unread, cooling>>

-----------------------------------------------------------------------------
(* The game.                                                                *)

Connect(s, ip) ==
  /\ players[s] = Nobody
  /\ players' = [players EXCEPT ![s] = ip]
  /\ handed' = (handed \/ s = slot)
  /\ UNCHANGED <<config, runtime, unread, cooling, guard, target, slot>>

Disconnect(s) ==
  /\ players[s] # Nobody
  /\ players' = [players EXCEPT ![s] = Nobody]
  /\ handed' = (handed \/ s = slot)
  /\ UNCHANGED <<config, runtime, unread, cooling, guard, target, slot>>

\* tail starts at the end of the file: nobody sees lines without one.
LinePrinted(line) ==
  /\ guard \notin {"no_tail", "stopped"} /\ Len(unread) < FeedCap
  /\ unread' = Append(unread, line)
  /\ UNCHANGED <<config, runtime, players, cooling, workVars>>

Clock ==
  /\ \E ip \in Ips : cooling[ip] > 0
  /\ cooling' = [ip \in Ips |-> Max({0, cooling[ip] - 1})]
  /\ UNCHANGED <<config, runtime, players, unread, workVars>>

FirstRows == {{s \in Slots : s < n} : n \in Slots} \union {Slots}

Work == StartGuardTail \/ HandleLine \/ Broadcast \/ Kick \/ KickLost \/ \E shown \in FirstRows : StatusAnswered(shown)

GuardNext ==
  \/ Work \/ GuardTailExits \/ Stop \/ Clock
  \/ \E s \in Slots : Disconnect(s) \/ \E ip \in Ips : Connect(s, ip)
  \/ \E line \in Lines : LinePrinted(line)

GuardSpec == GuardInit /\ [][GuardNext]_guardVars

\* The worker goes on and time passes, and of the exchanges for one address some
\* go through in full.
Fairness ==
  /\ WF_guardVars(Work) /\ WF_guardVars(Clock)
  /\ \A ip \in Ips : /\ SF_guardVars(StatusAnswered(Slots) /\ target = ip)
                     /\ SF_guardVars(Kick /\ target = ip)

LiveSpec == GuardSpec /\ Fairness

-----------------------------------------------------------------------------
(* Properties.                                                              *)

\* "if the source IP of an RCON attempt matches a currently connected player slot
\* ... that player is kicked ...  RCON attempts from sources that are NOT connected
\* ... are left completely alone": whoever is kicked sits at the source of an
\* attempt, unless the slot has changed hands since the answer to status.
OnlyTheSourceIsKicked ==
  [][Kick /\ ~handed /\ players[slot] # Nobody => players[slot] = target]_guardVars

Attempts(ip) == \E i \in DOMAIN unread : unread[i].ip = ip /\ TryDetectRconAttempt(unread[i])

\* A player who goes on trying does not stay, although attempts are dropped while
\* the address cools down and any exchange may fail: of the players at one address
\* the first one, if the address is not exempt and a password is known.
OffenderIsRemoved ==
  \A s \in Slots, ip \in Ips :
    ~ (/\ []<>Attempts(ip)
       /\ <>[](/\ players[s] = ip /\ \A t \in Slots : t < s => players[t] # ip
               /\ ~IsIgnoredIp(ip) /\ runtime.password /\ guard # "stopped"))

=============================================================================
