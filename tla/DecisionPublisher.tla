-------------------------- MODULE DecisionPublisher --------------------------
(***************************************************************************)
(* What becomes of a decision: broadcastDecision with its suppressions and *)
(* the cooldown, the queue of public lines and the worker that drains it,  *)
(* the BLOCK line that bypasses it, enforceDecision, and the RCON guard    *)
(* that uses the same console and queue.                                   *)
(*                                                                         *)
(* Every writer holds commandMu for one line, so a line is one step; what  *)
(* the server does with it is Supervisor's matter.  A write fails once the *)
(* server has closed its stdin.  How long the worker sleeps between two    *)
(* lines is left open.                                                     *)
(***************************************************************************)
EXTENDS Integers, Sequences, Functions

CONSTANTS
  Goroutines,       \* checks that may be publishing at once
  Addrs,
  BroadcastMode,    \* "off", "block-only", "pass-and-block", or unknown
  EnforcementMode,  \* "kick-only", "ban-and-kick", "ban-only", "custom", or unknown
  Templates,        \* which of the "pass" and "block" lines fill to a text
  CustomCommands,   \* which of BanCommand ("ban") and KickCommand ("kick") are set
  Cooldown,         \* Config.BroadcastCooldown
  PruneAfter,       \* the ten minutes after which an entry is pruned
  QueueCap,         \* capacity of broadcastQueue
  MaxTime           \* bound on the clock

Commands == {"ban", "kick"}
NoOne  == "nobody"
Notice == "notice"
NoLine == "no line"

ASSUME PublisherAssumption ==
  /\ {NoOne, Notice, NoLine} \intersect Goroutines = {}
  /\ Templates \subseteq {"pass", "block"}
  /\ CustomCommands \subseteq Commands
  /\ Cooldown \in Nat /\ PruneAfter \in Nat /\ MaxTime \in Nat
  /\ QueueCap \in Nat \ {0}

VARIABLES
  pc,           \* where each check stands in the end of processConnectionEvent
  job,          \* the decision it publishes
  commands,     \* enforcement commands it has yet to write
  clock,        \* what time.Now() gave it in shouldBroadcast, 0 outside
  mu,           \* who holds broadcastMu
  seen,         \* broadcastSeen: when a line of an ip|action was let through
  queue,        \* broadcastQueue
  worker,       \* the line runBroadcastWorker holds, if any
  cancelled,    \* the context is cancelled and the worker gone
  gone,         \* the server has closed its stdin
  now,
  passAt,       \* history: seen, had nothing been pruned from it
  blockLine     \* history: what became of each check's BLOCK line

pubVars == <<pc, job, commands, clock, blockLine>>
coolVars == <<mu, seen, passAt>>
lineVars == <<queue, worker, cancelled>>
vars == <<pubVars, coolVars, lineVars, gone, now>>

Kinds   == {"real_connect", "reinit_connect", "userinfo"}
Actions == {"allow", "would-block", "block"}
Keys    == Addrs \X Actions
\* Whether a decision came from the cache matters to a PASS of a userinfo check.
Jobs    == {j \in [addr : Addrs, kind : Kinds, action : Actions, fromCache : BOOLEAN] :
              j.fromCache => j.kind = "userinfo" /\ j.action = "allow"}
\* A public line: the BLOCK line of a check, or any other.
Lines   == Goroutines \union {Notice}
NoJob   == [addr |-> "none", kind |-> "none", action |-> "none", fromCache |-> FALSE]

Key(j) == <<j.addr, j.action>>
LineOf(g) == IF job[g].action = "block" THEN g ELSE Notice

TypeOK ==
  /\ pc \in [Goroutines -> {"idle", "decide", "lock", "test", "mark", "emit", "enforce"}]
  /\ job \in [Goroutines -> Jobs \union {NoJob}]
  /\ commands \in [Goroutines -> Seq(Commands)]
  /\ clock \in [Goroutines -> 0 .. MaxTime]
  /\ blockLine \in [Goroutines -> {"none", "due", "received"}]
  /\ mu \in Goroutines \union {NoOne}
  /\ \E K \in SUBSET Keys : seen \in [K -> 0 .. MaxTime]
  /\ \E K \in SUBSET Keys : passAt \in [K -> 0 .. MaxTime]
  /\ queue \in Seq(Lines) /\ Len(queue) <= QueueCap
  /\ worker \in Lines \union {NoLine}
  /\ cancelled \in BOOLEAN
  /\ gone \in BOOLEAN
  /\ now \in 0 .. MaxTime

Init ==
  /\ pc = [g \in Goroutines |-> "idle"]
  /\ job = [g \in Goroutines |-> NoJob]
  /\ commands = [g \in Goroutines |-> <<>>]
  /\ clock = [g \in Goroutines |-> 0]
  /\ blockLine = [g \in Goroutines |-> "none"]
  /\ mu = NoOne
  /\ seen = [k \in {} |-> 0]
  /\ passAt = [k \in {} |-> 0]
  /\ queue = <<>>
  /\ worker = NoLine
  /\ cancelled = FALSE
  /\ gone = FALSE
  /\ now = 0

Goto(g, place) == pc' = [pc EXCEPT ![g] = place]

\* enqueueBroadcast: a saturated queue drops the line.
Enqueue(line) == queue' = IF Len(queue) < QueueCap THEN Append(queue, line) ELSE queue

-----------------------------------------------------------------------------
(* A check has its decision.                                                *)

Decide(g, j) ==
  /\ pc[g] = "idle"
  /\ Goto(g, "decide")
  /\ job' = [job EXCEPT ![g] = j]
  /\ UNCHANGED <<commands, clock, blockLine, coolVars, lineVars, gone, now>>

\* A command template that is blank adds no command.
CustomEnforcement ==
  LET ban == IF "ban" \in CustomCommands THEN <<"ban">> ELSE <<>> IN
  IF "kick" \in CustomCommands THEN Append(ban, "kick") ELSE ban

Enforcement ==
  CASE EnforcementMode = "ban-and-kick" -> <<"ban", "kick">>
    [] EnforcementMode = "ban-only"     -> <<"ban">>
    [] EnforcementMode = "custom"       -> CustomEnforcement
    [] OTHER                            -> <<"kick">>

\* From broadcastDecision on to enforceDecision, or to the end.
Proceed(g) ==
  \/ /\ job[g].action = "block"
     /\ Goto(g, "enforce")
     /\ commands' = [commands EXCEPT ![g] = Enforcement]
     /\ UNCHANGED job
  \/ /\ job[g].action # "block"
     /\ Goto(g, "idle")
     /\ job' = [job EXCEPT ![g] = NoJob]
     /\ UNCHANGED commands

\* A PASS nobody needs to read: a cached userinfo check of a map restart, or
\* any connect the restart re-emitted.
Suppressed(j, inBurst) ==
  /\ j.action = "allow"
  /\ \/ j.kind = "userinfo" /\ j.fromCache /\ inBurst
     \/ j.kind = "reinit_connect"

WantedByMode(j) ==
  \/ BroadcastMode = "pass-and-block"
  \/ BroadcastMode = "block-only" /\ j.action = "block"

\* The cooldown does not apply to a real join.
Uncooled(j) == Cooldown = 0 \/ j.kind = "real_connect"

\* broadcastDecision up to the lock of shouldBroadcast.
Judge(g, inBurst) ==
  LET silent == Suppressed(job[g], inBurst) \/ ~WantedByMode(job[g]) IN
  /\ pc[g] = "decide"
  /\ \/ /\ silent
        /\ Proceed(g)
        /\ UNCHANGED clock
     \/ /\ ~silent /\ Uncooled(job[g])
        /\ Goto(g, "emit")
        /\ UNCHANGED <<job, commands, clock>>
     \/ /\ ~silent /\ ~Uncooled(job[g])
        /\ Goto(g, "lock")
        /\ clock' = [clock EXCEPT ![g] = now]
        /\ UNCHANGED <<job, commands>>
  /\ UNCHANGED <<blockLine, coolVars, lineVars, gone, now>>

Fresh(time) == {k \in DOMAIN seen : time - seen[k] <= PruneAfter}

\* Faulty: broadcastMu does not keep the others out.
LockShared(g) ==
  /\ pc[g] = "lock"
  /\ Goto(g, "test")
  /\ mu' = g
  /\ seen' = Restrict(seen, Fresh(clock[g]))
  /\ UNCHANGED <<job, commands, clock, blockLine, passAt, lineVars, gone, now>>

\* Under broadcastMu: the entries that are too old are deleted first.
Lock(g) ==
  /\ pc[g] = "lock"
  /\ mu = NoOne
  /\ Goto(g, "test")
  /\ mu' = g
  /\ seen' = Restrict(seen, Fresh(clock[g]))
  /\ UNCHANGED <<job, commands, clock, blockLine, passAt, lineVars, gone, now>>

\* The clock was read before the lock: another check may have marked the
\* entry at a later time than clock[g].
CoolingDown(g) ==
  /\ Key(job[g]) \in DOMAIN seen
  /\ clock[g] - seen[Key(job[g])] < Cooldown

Test(g) ==
  /\ pc[g] = "test"
  /\ \/ /\ CoolingDown(g)
        /\ mu' = NoOne
        /\ clock' = [clock EXCEPT ![g] = 0]
        /\ Proceed(g)
     \/ /\ ~CoolingDown(g)
        /\ Goto(g, "mark")
        /\ UNCHANGED <<mu, job, commands, clock>>
  /\ UNCHANGED <<blockLine, seen, passAt, lineVars, gone, now>>

Put(f, k, time) == [x \in DOMAIN f \union {k} |-> IF x = k THEN time ELSE f[x]]

Mark(g) ==
  /\ pc[g] = "mark"
  /\ Goto(g, "emit")
  /\ seen' = Put(seen, Key(job[g]), clock[g])
  /\ passAt' = Put(passAt, Key(job[g]), clock[g])
  /\ mu' = NoOne
  /\ clock' = [clock EXCEPT ![g] = 0]
  /\ UNCHANGED <<job, commands, blockLine, lineVars, gone, now>>

Filled(j) == (IF j.action = "block" THEN "block" ELSE "pass") \in Templates

\* Faulty: every line is queued.
EmitQueued(g) ==
  /\ pc[g] = "emit"
  /\ Filled(job[g])
  /\ Enqueue(LineOf(g))
  /\ blockLine' = IF job[g].action = "block" THEN [blockLine EXCEPT ![g] = "due"] ELSE blockLine
  /\ Proceed(g)
  /\ UNCHANGED <<clock, coolVars, worker, cancelled, gone, now>>

\* An empty line is not emitted; BLOCK is written at once, the rest queued.
Emit(g) ==
  /\ pc[g] = "emit"
  /\ \/ /\ ~Filled(job[g])
        /\ UNCHANGED <<blockLine, queue>>
     \/ /\ Filled(job[g]) /\ job[g].action = "block"
        /\ blockLine' = [blockLine EXCEPT ![g] = IF gone THEN "due" ELSE "received"]
        /\ UNCHANGED queue
     \/ /\ Filled(job[g]) /\ job[g].action # "block"
        /\ Enqueue(LineOf(g))
        /\ UNCHANGED blockLine
  /\ Proceed(g)
  /\ UNCHANGED <<clock, coolVars, worker, cancelled, gone, now>>

\* enforceDecision writes its commands in order and gives up at the first
\* that fails.
Enforce(g) ==
  /\ pc[g] = "enforce"
  /\ commands[g] # <<>>
  /\ commands' = [commands EXCEPT ![g] = IF gone THEN <<>> ELSE Tail(@)]
  /\ UNCHANGED <<pc, job, clock, blockLine, coolVars, lineVars, gone, now>>

Finish(g) ==
  /\ pc[g] = "enforce"
  /\ commands[g] = <<>>
  /\ Goto(g, "idle")
  /\ job' = [job EXCEPT ![g] = NoJob]
  /\ blockLine' = [blockLine EXCEPT ![g] = "none"]
  /\ UNCHANGED <<commands, clock, coolVars, lineVars, gone, now>>

CheckStep(g) ==
  \/ \E b \in BOOLEAN : Judge(g, b)
  \/ Lock(g) \/ Test(g) \/ Mark(g)
  \/ Emit(g) \/ Enforce(g) \/ Finish(g)

-----------------------------------------------------------------------------
(* The RCON guard kicks from the scanner and queues its line, if the kick   *)
(* was written.                                                             *)

RconKick ==
  /\ ~gone
  /\ Enqueue(Notice)
  /\ UNCHANGED <<pubVars, coolVars, worker, cancelled, gone, now>>

-----------------------------------------------------------------------------
(* runBroadcastWorker.                                                      *)

WorkerTakes ==
  /\ ~cancelled
  /\ worker = NoLine
  /\ queue # <<>>
  /\ worker' = Head(queue)
  /\ queue' = Tail(queue)
  /\ UNCHANGED <<pubVars, coolVars, cancelled, gone, now>>

\* A BLOCK line would reach the server here, if one were queued.
WorkerEmits ==
  /\ ~cancelled
  /\ worker # NoLine
  /\ worker' = NoLine
  /\ blockLine' = [g \in Goroutines |->
                     IF worker = g /\ ~gone THEN "received" ELSE blockLine[g]]
  /\ UNCHANGED <<pc, job, commands, clock, coolVars, queue, cancelled, gone, now>>

-----------------------------------------------------------------------------

Cancel ==
  /\ ~cancelled
  /\ cancelled' = TRUE
  /\ UNCHANGED <<pubVars, coolVars, queue, worker, gone, now>>

ServerCloses ==
  /\ ~gone
  /\ gone' = TRUE
  /\ UNCHANGED <<pubVars, coolVars, lineVars, now>>

Tick ==
  /\ now < MaxTime
  /\ now' = now + 1
  /\ UNCHANGED <<pubVars, coolVars, lineVars, gone>>

Next ==
  \/ \E g \in Goroutines : CheckStep(g) \/ (\E j \in Jobs : Decide(g, j))
  \/ RconKick \/ WorkerTakes \/ WorkerEmits \/ Cancel \/ ServerCloses \/ Tick

Spec == Init /\ [][Next]_vars

-----------------------------------------------------------------------------
(* Properties.                                                              *)

\* The server receives a command of the enforcement.
Received(g) == pc[g] = "enforce" /\ commands[g] # <<>> /\ ~gone /\ commands'[g] # commands[g]

\* "BLOCK decisions are followed immediately by enforcement": when the server
\* receives a kick or a ban of a check, it has received the BLOCK line the
\* check let through, however full the queue is, whatever the worker is at
\* and whenever the server goes.
BlockLineFirst == [][\A g \in Goroutines : Received(g) => blockLine[g] # "due"]_vars

\* Lines of an address and action that are not due to a real join are let
\* through a cooldown apart, or the time after which entries are forgotten
\* if that is shorter, however many checks decide at once and whenever each
\* of them has read the clock.
CooldownHolds ==
  [][\A g \in Goroutines :
       LET k == Key(job[g]) IN
       /\ pc[g] # "emit" /\ pc'[g] = "emit" /\ job[g].kind # "real_connect"
       /\ k \in DOMAIN passAt
       => now - passAt[k] >= Cooldown \/ now - passAt[k] > PruneAfter]_vars

=============================================================================
