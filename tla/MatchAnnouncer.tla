---------------------------- MODULE MatchAnnouncer ----------------------------
(***************************************************************************)
(* match-announcer.py: a state machine over the event stream that announces *)
(* the start and the end of a voted team match, and the loop that feeds it  *)
(* from stdin.                                                              *)
(*                                                                          *)
(* The loop polls stdin with select and then calls readline, which reads    *)
(* everything the pipe holds into Python's own buffer and returns one line. *)
(* select does not see that buffer.                                         *)
(*                                                                          *)
(* The game and the addon runner are external: any event may follow any     *)
(* other, since the bus may have dropped those in between.  Of an event the *)
(* kind is kept, and who leads for a score line.  Durations are in ticks of *)
(* about a second, far longer than the quarter second select waits.         *)
(***************************************************************************)
EXTENDS Integers, Sequences

CONSTANTS
  EnvSections,   \* what JKA_ADDON_CONFIG_JSON may hold
  FileSections,  \* what addons.match_announcer of jka-addons.json may hold
  ArmTime,       \* MAP_RESTART_ARM_SECONDS
  StartDelay,    \* MATCH_START_DELAY_SECONDS
  PipeCap,       \* bound: events waiting in the pipe
  MaxEvents      \* bound: events the runner writes

ASSUME MatchAssumption ==
  /\ ArmTime \in Nat /\ StartDelay \in Nat \ {0}
  /\ PipeCap \in Nat \ {0} /\ MaxEvents \in Nat

VARIABLES
  config,     \* the loaded configuration
  armedAge,   \* ticks since armed_at, or Unarmed
  match,      \* the match the addon tracks
  pipe,       \* events written to stdin and not read
  buffer,     \* lines read into sys.stdin and not returned by readline
  closed,     \* the runner has closed stdin
  loop,       \* where main is
  flushLeft,  \* ticks until flush_deadline
  written,    \* events written so far
  told,       \* history: lines sent since the last match was activated
  unused      \* history: votes handled less matches activated

addonVars == <<armedAge, match, told, unused>>
inputVars == <<pipe, buffer, closed, written>>
vars == <<config, addonVars, inputVars, loop, flushLeft>>

None    == "none"
Unarmed == -1
NoStart == -1

Leads  == {"red", "blue", "draw"}
Kinds  == {"vote", "init", "other_init", "exit", "score", "scoreboard", "shutdown"}
Events == {e \in [kind : Kinds, lead : Leads \union {None}] : (e.kind = "score") <=> (e.lead # None)}

-----------------------------------------------------------------------------
(* The configuration.                                                       *)

Section(on, vote, types) ==
  [object |-> TRUE, enabled |-> on, vote |-> vote, gametypes |-> types]

Defaults == Section(FALSE, TRUE, {6})

\* Only gametype 6 is supported.  An operator who configured nothing else
\* gets no gametype at all.
ParseConfiguredGametypes(section) == section.gametypes \intersect {6}

\* The file is read only when the environment holds no JSON object.
LoadConfig(env, file) ==
  LET loaded == IF env.object THEN env ELSE IF file.object THEN file ELSE Defaults
  IN [enabled |-> loaded.enabled, vote |-> loaded.vote,
      gametypes |-> ParseConfiguredGametypes(loaded)]

Configs == {LoadConfig(env, file) : env \in EnvSections, file \in FileSections}

-----------------------------------------------------------------------------

\* _reset_match.
NoMatch == [started |-> FALSE, ending |-> FALSE, startSent |-> FALSE,
            startIn |-> NoStart, lead |-> None]

Matches == [started : BOOLEAN, ending : BOOLEAN, startSent : BOOLEAN,
            startIn : 0 .. StartDelay \union {NoStart}, lead : Leads \union {None}]

TypeOK ==
  /\ config \in Configs
  /\ armedAge \in 0 .. (ArmTime + 1) \union {Unarmed}
  /\ match \in Matches
  /\ pipe \in Seq(Events) /\ Len(pipe) <= PipeCap
  /\ buffer \in Seq(Events)
  /\ closed \in BOOLEAN
  /\ loop \in {"running", "flushing", "eof", "stopped"}
  /\ flushLeft \in 0 .. (StartDelay + 1)
  /\ written \in 0 .. MaxEvents
  /\ told \in Seq({"start"} \union Leads)
  /\ unused \in Int

Init ==
  /\ config \in Configs
  /\ armedAge = Unarmed
  /\ match = NoMatch
  /\ pipe = <<>>
  /\ buffer = <<>>
  /\ closed = FALSE
  /\ loop = IF config.enabled THEN "running" ELSE "stopped"
  /\ flushLeft = 0
  /\ written = 0
  /\ told = <<>>
  /\ unused = 0

-----------------------------------------------------------------------------
(* The handlers.                                                            *)

Armed == armedAge # Unarmed /\ armedAge <= ArmTime

Pending == match.startIn # NoStart

\* The end of handle_event, and tick: the start line if its time has come.
MaybeSendPendingMatchStart(m, said) ==
  IF m.startIn = 0
  THEN /\ match' = [m EXCEPT !.startIn = NoStart, !.startSent = TRUE]
       /\ told' = IF m.startSent THEN said ELSE Append(said, "start")
  ELSE match' = m /\ told' = said

\* Faulty: the match is not reset.
SendSummaryOnly(m) ==
  /\ match' = m
  /\ told' = Append(told, IF m.lead = None THEN "draw" ELSE m.lead)

\* Without a score line the end is announced as a draw.  The reset takes a
\* start line that is still pending with it.
SendSummaryAndReset(m) ==
  /\ match' = NoMatch
  /\ told' = Append(told, IF m.lead = None THEN "draw" ELSE m.lead)

OnVotePassed ==
  /\ armedAge' = 0
  /\ MaybeSendPendingMatchStart(match, told)
  /\ unused' = unused + 1

\* Faulty: a score is kept for the line that ends the match.
OnRawLineKeepsScore(e) ==
  /\ \/ (~match.started \/ e.kind = "exit") /\ MaybeSendPendingMatchStart(match, told)
     \/ /\ match.started /\ e.kind = "score"
        /\ MaybeSendPendingMatchStart([match EXCEPT !.lead = e.lead], told)
     \/ match.started /\ e.kind = "scoreboard" /\ SendSummaryAndReset(match)
  /\ UNCHANGED <<armedAge, unused>>

\* The raw lines that end a match; they mean nothing outside of one.
OnRawLine(e) ==
  /\ \/ ~match.started /\ MaybeSendPendingMatchStart(match, told)
     \/ /\ match.started /\ e.kind = "exit"
        /\ MaybeSendPendingMatchStart([match EXCEPT !.ending = TRUE], told)
     \/ match.started /\ e.kind = "score" /\ SendSummaryAndReset([match EXCEPT !.lead = e.lead])
     \/ match.started /\ e.kind = "scoreboard" /\ SendSummaryAndReset(match)
  /\ UNCHANGED <<armedAge, unused>>

\* Faulty: an armed vote is not consumed.
OnInitGameKeepsArmed(e) ==
  IF e.kind = "init" /\ 6 \in config.gametypes /\ (config.vote => Armed)
  THEN /\ match' = [NoMatch EXCEPT !.started = TRUE, !.startIn = StartDelay]
       /\ told' = <<>>
       /\ unused' = unused - 1
       /\ UNCHANGED armedAge
  ELSE /\ armedAge' = Unarmed
       /\ MaybeSendPendingMatchStart(match, told)
       /\ UNCHANGED unused

\* Every InitGame disarms; one of gametype 6, armed if a vote is required,
\* activates a match.  Any other leaves a running match as it is.
OnInitGame(e) ==
  /\ armedAge' = Unarmed
  /\ IF e.kind = "init" /\ 6 \in config.gametypes /\ (config.vote => Armed)
     THEN /\ match' = [NoMatch EXCEPT !.started = TRUE, !.startIn = StartDelay]
          /\ told' = <<>>
          /\ unused' = unused - 1
     ELSE /\ MaybeSendPendingMatchStart(match, told)
          /\ UNCHANGED unused

\* The last resort, after an Exit line only.
OnShutdownGame ==
  /\ IF match.started /\ match.ending THEN SendSummaryAndReset(match)
     ELSE MaybeSendPendingMatchStart(match, told)
  /\ UNCHANGED <<armedAge, unused>>

HandleEvent(e) ==
  \/ e.kind = "vote"                           /\ OnVotePassed
  \/ e.kind \in {"exit", "score", "scoreboard"} /\ OnRawLine(e)
  \/ e.kind \in {"init", "other_init"}         /\ OnInitGame(e)
  \/ e.kind = "shutdown"                       /\ OnShutdownGame

-----------------------------------------------------------------------------
(* main.                                                                    *)

\* readline: the next line of the buffer, which is filled only when empty.
Unread == IF buffer # <<>> THEN buffer ELSE pipe

ReadAndHandle ==
  /\ loop = "running"
  /\ pipe # <<>> \/ closed
  /\ Unread # <<>>
  /\ buffer' = Tail(Unread)
  /\ pipe' = IF buffer # <<>> THEN pipe ELSE <<>>
  /\ HandleEvent(Head(Unread))
  /\ UNCHANGED <<config, closed, written, loop, flushLeft>>

TickDue == loop = "running" /\ pipe = <<>> /\ ~closed /\ match.startIn = 0

\* select timed out.
TickTimer ==
  /\ TickDue
  /\ MaybeSendPendingMatchStart(match, told)
  /\ UNCHANGED <<config, armedAge, unused, inputVars, loop, flushLeft>>

\* Faulty: what is buffered is not waited for.
ReadEofEarly ==
  /\ loop = "running"
  /\ closed /\ pipe = <<>>
  /\ loop' = "flushing"
  /\ flushLeft' = StartDelay + 1
  /\ UNCHANGED <<config, addonVars, inputVars>>

\* readline returns "".
ReadEof ==
  /\ loop = "running"
  /\ closed /\ Unread = <<>>
  /\ loop' = "flushing"
  /\ flushLeft' = StartDelay + 1
  /\ UNCHANGED <<config, addonVars, inputVars>>

FlushDue == loop = "flushing" /\ flushLeft > 0 /\ match.startIn = 0

\* Faulty: nobody calls tick any more.
FlushIdle ==
  /\ FlushDue
  /\ match' = [match EXCEPT !.startIn = StartDelay]
  /\ UNCHANGED <<config, armedAge, unused, told, inputVars, loop, flushLeft>>

\* tick, every 50 ms while a start line is pending.
Flush ==
  /\ FlushDue
  /\ MaybeSendPendingMatchStart(match, told)
  /\ UNCHANGED <<config, armedAge, unused, inputVars, loop, flushLeft>>

FlushEnds ==
  /\ loop = "flushing"
  /\ ~Pending \/ flushLeft = 0
  /\ loop' = "eof"
  /\ UNCHANGED <<config, addonVars, inputVars, flushLeft>>

\* SIGTERM or SIGINT: sys.exit in the handler.
Signal ==
  /\ loop \in {"running", "flushing"}
  /\ loop' = "stopped"
  /\ UNCHANGED <<config, addonVars, inputVars, flushLeft>>

-----------------------------------------------------------------------------
(* The runner and the clock.                                                *)

Deliver(e) ==
  /\ ~closed
  /\ written < MaxEvents /\ Len(pipe) < PipeCap
  /\ loop = "running"
  /\ pipe' = Append(pipe, e)
  /\ written' = written + 1
  /\ UNCHANGED <<config, addonVars, buffer, closed, loop, flushLeft>>

CloseStdin ==
  /\ ~closed
  /\ closed' = TRUE
  /\ UNCHANGED <<config, addonVars, pipe, buffer, written, loop, flushLeft>>

Less(n) == IF n > 0 THEN n - 1 ELSE n

\* A tick is long: neither the timeout of select nor the poll of the flush
\* is missed.
Clock ==
  /\ ~TickDue /\ ~FlushDue
  /\ armedAge' = IF armedAge \in 0 .. ArmTime THEN armedAge + 1 ELSE armedAge
  /\ match' = [match EXCEPT !.startIn = Less(@)]
  /\ flushLeft' = Less(flushLeft)
  /\ UNCHANGED <<config, told, unused, inputVars, loop>>

LoopStep == ReadAndHandle \/ TickTimer \/ ReadEof \/ Flush \/ FlushEnds

Next ==
  \/ LoopStep \/ Signal \/ CloseStdin \/ Clock
  \/ \E e \in Events : Deliver(e)

Spec == Init /\ [][Next]_vars

\* The process runs and time passes.  Nothing makes the game go on.
Fairness == WF_vars(LoopStep) /\ WF_vars(Clock)

LiveSpec == Spec /\ Fairness

-----------------------------------------------------------------------------
(* Properties.                                                              *)

\* A match has at most one start line and one end line, the start line first:
\* no interleaving of triggers announces an end twice, or a start after it.
MatchLines ==
  \A i \in 1 .. Len(told) : IF told[i] = "start" THEN i = 1 ELSE i = Len(told)

\* "A new match requires another passed map_restart callvote": every match
\* that is activated uses up a vote of its own.
VotePerMatch == config.vote => unused >= 0

\* The winner that is announced is the one of the score line being handled;
\* a score of an earlier match never decides the fallback of a later one.
WinnerOfThisMatch ==
  [][told' # told /\ told' # <<>> /\ told'[Len(told')] \in {"red", "blue"}
       => Unread # <<>> /\ Head(Unread).lead = told'[Len(told')]]_vars

\* "Flush any pending match-start": when main returns at the end of stdin,
\* every event that was delivered has been handled and no start line is owed.
NothingLostAtEof == loop = "eof" => pipe = <<>> /\ buffer = <<>> /\ ~Pending

\* A start line that is pending is sent, or its match ends, or the process.
StartLineResolved == (Pending /\ loop # "stopped") ~> (~Pending \/ loop = "stopped")

\* "As soon as it arrives while a match is running ... the summary fires": one
\* more event, of whatever kind, or the end of stdin is enough.  Without either
\* a score line that readline has buffered stays there.
SummaryFollows ==
  (match.started /\ buffer # <<>> /\ Head(buffer).kind = "score" /\ (pipe # <<>> \/ closed))
     ~> (~match.started \/ loop = "stopped")

=============================================================================
