------------------------------ MODULE Announcer ------------------------------
(***************************************************************************)
(* The loops of an announcer.py worker: the scheduled loop, with slots at a *)
(* time of the day and entries every so many seconds, the simple interval   *)
(* loop, and the switches between them when the configuration changes.      *)
(*                                                                          *)
(* One clock stands for the wall clock and the monotonic one, which agree   *)
(* as long as nobody sets the wall clock.  A tick is long against what the  *)
(* worker computes, so it waits for a tick only while it sleeps or awaits   *)
(* an RCON reply.  Which message of the rotation is sent is left out.       *)
(***************************************************************************)
EXTENDS AnnouncerWorker, Sequences, FiniteSetsExt

CONSTANTS
  Configs,     \* what the announcer section may say, as written
  FromEnv,     \* JKA_ADDON_CONFIG_JSON holds a JSON object
  DayLength,   \* ticks of a day
  MinInterval, \* MIN_INTERVAL_SECONDS
  MaxSleep,    \* MAX_SLEEP_INTERVAL_SECONDS
  MaxTime,     \* bound on the clock
  MaxFailures, \* bound: announcements that fail
  MaxEdits     \* bound: edits of jka-addons.json

\* A schedule is a list of pairs of a time and an interval, which may be
\* missing, out of range or nonsense (-1).
ASSUME ConfigsAssumption ==
  \A c \in Configs : c.schedule \in Seq([time : Int, every : Int])

ASSUME AnnouncerAssumption ==
  /\ FromEnv \in BOOLEAN
  /\ DayLength \in Nat \ {0} /\ MaxSleep \in Nat \ {0}
  /\ MinInterval \in Nat \ {0}
  /\ MaxTime \in Nat /\ MaxFailures \in Nat /\ MaxEdits \in Nat

VARIABLES
  now,        \* the clock
  file,       \* addons.announcer of jka-addons.json
  env,        \* the copy of it in the environment of each launch
  cfg,        \* what the loop loaded last
  loop,       \* the loop that runs, and where it stands
  deadlines,  \* monotonic_deadlines, by index
  lastFired,  \* last_fired_date, by index
  today,      \* the date the horizon was computed for
  wakeAt,     \* when the sleep ends
  pass,       \* the firing pass: its time, the entry at hand and its date
  shutdown,   \* _shutdown_event
  failures, edits,
  sent,       \* history: index and day of the slots sent with this schedule
  since,      \* history: the first whole day of this schedule
  editedAt    \* history: when the file was edited last

memory == <<deadlines, lastFired, today>>
loopVars == <<cfg, loop, memory, wakeAt, pass, shutdown>>
history == <<sent, since>>
files == <<file, env, editedAt>>
counters == <<failures, edits>>
vars == <<workerVars, now, files, loopVars, counters, history>>

Daily(t) == [kind |-> "daily", n |-> t]
Every(t) == [kind |-> "every", n |-> t]

Empty == [x \in {} |-> 0]
Day(t) == t \div DayLength

Indices(c, kind) == {i \in DOMAIN c.schedule : c.schedule[i].kind = kind}

NoPass == [at |-> 0, i |-> 0, day |-> 0, waited |-> FALSE]
NoConfig == [enabled |-> FALSE, interval |-> 0, schedule |-> <<>>]

Init ==
  /\ WorkerInit
  /\ now = 0
  /\ file \in Configs
  /\ env = [l \in Launches |-> file]
  /\ cfg = NoConfig
  /\ loop = [mode |-> "none", at |-> "none"]
  /\ deadlines = Empty /\ lastFired = Empty /\ today = 0
  /\ wakeAt = 0 /\ pass = NoPass /\ shutdown = FALSE
  /\ failures = 0 /\ edits = 0
  /\ sent = {} /\ since = 0 /\ editedAt = 0

-----------------------------------------------------------------------------
(* load_config.                                                             *)

Unset   == -1
Dropped == [kind |-> "dropped", n |-> 0]

\* A time wins over an interval.  Entries that have neither, a time that is
\* none, or too short an interval, are dropped, and the indices close up.
NormaliseEntry(raw) ==
  IF raw.time # Unset
  THEN IF raw.time \in 0 .. (DayLength - 1) THEN Daily(raw.time) ELSE Dropped
  ELSE IF raw.every >= MinInterval THEN Every(raw.every) ELSE Dropped

\* Which entries stay, and the place of one among those.
Wanted(raw) == {i \in DOMAIN raw : NormaliseEntry(raw[i]) # Dropped}
Rank(i, K) == Cardinality({j \in K : j <= i})

NormaliseSchedule(raw) ==
  [n \in 1 .. Cardinality(Wanted(raw)) |->
     NormaliseEntry(raw[CHOOSE i \in Wanted(raw) : Rank(i, Wanted(raw)) = n])]

Loaded(section) ==
  [enabled |-> section.enabled, interval |-> Max({MinInterval, section.interval}),
   schedule |-> NormaliseSchedule(section.schedule)]

\* The environment of the worker is the one it was started with.
LoadConfig(l) == Loaded(IF FromEnv THEN env[l] ELSE file)

Modes == {<<"none", "none">>, <<"none", "delay">>, <<"interval", "top">>,
          <<"interval", "send">>, <<"interval", "sleep">>, <<"schedule", "top">>,
          <<"schedule", "sleep">>, <<"schedule", "fire">>, <<"schedule", "send">>}

TypeOK ==
  /\ WorkerTypeOK
  /\ now \in 0 .. MaxTime
  /\ file \in Configs /\ cfg \in {Loaded(c) : c \in Configs} \union {NoConfig} /\ env \in [Launches -> Configs]
  /\ <<loop.mode, loop.at>> \in Modes
  /\ loop.mode = "schedule" /\ loop.at # "top" =>
       /\ DOMAIN deadlines = Indices(cfg, "every")
       /\ DOMAIN lastFired \subseteq Indices(cfg, "daily")
  /\ wakeAt \in Nat /\ pass \in [at : Nat, i : Nat, day : Nat, waited : BOOLEAN]
  /\ shutdown \in BOOLEAN
  /\ failures \in 0 .. MaxFailures /\ edits \in 0 .. MaxEdits

-----------------------------------------------------------------------------
(* The loops.                                                               *)

Running(l) == worker[l] = "running"

At(mode, where) == loop = [mode |-> mode, at |-> where]
GoTo(mode, where) == loop' = [mode |-> mode, at |-> where]

\* The memory of run_scheduled_loop is made anew whenever it is entered.
EnterLoop(c) ==
  /\ GoTo(IF c.schedule = <<>> THEN "interval" ELSE "schedule", "top")
  /\ deadlines' = [i \in Indices(c, "every") |-> now + c.schedule[i].n]
  /\ lastFired' = Empty
  /\ today' = Day(now)
  /\ sent' = {} /\ since' = Day(now) + 1

\* What a worker knows ends with it.
Forget ==
  /\ GoTo("none", "none")
  /\ cfg' = NoConfig
  /\ deadlines' = Empty /\ lastFired' = Empty /\ today' = 0
  /\ wakeAt' = 0 /\ pass' = NoPass /\ shutdown' = FALSE
  /\ sent' = {} /\ since' = 0

\* The worker starts with the startup delay.
Begin(l) ==
  /\ InstallHandlers(l)
  /\ cfg' = LoadConfig(l)
  /\ GoTo("none", "delay")
  /\ UNCHANGED <<now, files, memory, wakeAt, pass, shutdown, counters, history>>

DelayOver(l) ==
  /\ Running(l) /\ At("none", "delay")
  /\ cfg.enabled
  /\ EnterLoop(cfg)
  /\ UNCHANGED <<workerVars, now, files, cfg, wakeAt, pass, shutdown, counters>>

\* The worker ends: a signal, noticed in a sleep or at the top of a loop, or
\* a configuration that disables it.
Quit(l) ==
  /\ Leave(l)
  /\ \/ shutdown /\ loop.at \in {"delay", "top", "sleep"}
     \/ At("none", "delay") /\ ~cfg.enabled
     \/ loop.at = "top" /\ ~LoadConfig(l).enabled
  /\ Forget
  /\ UNCHANGED <<now, files, counters>>

\* The top of either loop: the configuration has changed the kind of loop.
SwitchLoop(l) ==
  /\ Running(l) /\ loop.at = "top" /\ ~shutdown
  /\ LoadConfig(l).enabled
  /\ (loop.mode = "schedule") # (LoadConfig(l).schedule # <<>>)
  /\ cfg' = LoadConfig(l)
  /\ EnterLoop(LoadConfig(l))
  /\ UNCHANGED <<workerVars, now, files, wakeAt, pass, shutdown, counters>>

IntervalTop(l) ==
  /\ Running(l) /\ At("interval", "top") /\ ~shutdown
  /\ LoadConfig(l).enabled /\ LoadConfig(l).schedule = <<>>
  /\ cfg' = LoadConfig(l)
  /\ GoTo("interval", "send")
  /\ pass' = [NoPass EXCEPT !.at = now, !.day = Day(now)]
  /\ UNCHANGED <<workerVars, now, files, memory, wakeAt, shutdown, counters, history>>

\* _seconds_until_slot for the slot at t: none if it is due.
UntilSlot(t, firedToday) ==
  LET target == Day(now) * DayLength + t IN
  IF now < target THEN target - now
  ELSE IF ~firedToday THEN 0 ELSE target + DayLength - now

\* Faulty: a slot that was ever sent counts as sent.
FiredEver(i, day) == i \in DOMAIN lastFired

FiredOn(i, day) == i \in DOMAIN lastFired /\ lastFired[i] = day

\* The deadlines and dates of indices that no longer are of that kind go.
Reconciled(c) ==
  [i \in Indices(c, "every") |->
     IF i \in DOMAIN deadlines THEN deadlines[i] ELSE now + c.schedule[i].n]

Kept(c) == [i \in Indices(c, "daily") \intersect DOMAIN lastFired |-> lastFired[i]]

\* When each entry is due next.
Horizon(c) ==
  {UntilSlot(c.schedule[i].n, FiredOn(i, Day(now))) : i \in Indices(c, "daily")}
    \union {Max({0, Reconciled(c)[i] - now}) : i \in Indices(c, "every")}

\* Faulty: nothing caps the sleep.
SleepForUncapped(c) == Min(Horizon(c))

SleepFor(c) == Min(Horizon(c) \union {MaxSleep})

\* The top of the scheduled loop, up to the sleep.
ScheduledTop(l) ==
  /\ Running(l) /\ At("schedule", "top") /\ ~shutdown
  /\ LoadConfig(l).enabled /\ LoadConfig(l).schedule # <<>>
  /\ cfg' = LoadConfig(l)
  /\ deadlines' = Reconciled(LoadConfig(l))
  /\ lastFired' = Kept(LoadConfig(l))
  /\ today' = Day(now)
  /\ wakeAt' = now + SleepFor(LoadConfig(l))
  /\ GoTo("schedule", "sleep")
  /\ IF LoadConfig(l).schedule = cfg.schedule THEN UNCHANGED history
     ELSE sent' = {} /\ since' = Day(now) + 1
  /\ UNCHANGED <<workerVars, now, files, pass, shutdown, counters>>

WakeUp(l) ==
  /\ Running(l) /\ loop.at = "sleep" /\ ~shutdown
  /\ wakeAt <= now
  /\ IF loop.mode = "interval"
     THEN GoTo("interval", "top") /\ UNCHANGED pass
     ELSE GoTo("schedule", "fire") /\ pass' = [NoPass EXCEPT !.at = now, !.i = 1]
  /\ wakeAt' = 0
  /\ UNCHANGED <<workerVars, now, files, cfg, memory, shutdown, counters, history>>

\* Faulty: nobody asks whether the slot was sent.
DueAgain(i) ==
  LET e == cfg.schedule[i] IN
  IF e.kind = "daily"
  THEN now >= Day(now) * DayLength + e.n
  ELSE pass.at >= deadlines[i]

\* Whether an entry is due; fired_today goes by the date before the sleep.
Due(i) ==
  LET e == cfg.schedule[i] IN
  IF e.kind = "daily"
  THEN ~FiredOn(i, today) /\ now >= Day(now) * DayLength + e.n
  ELSE pass.at >= deadlines[i]

\* The next entry of the firing pass.
FireEntry(l) ==
  /\ Running(l) /\ At("schedule", "fire")
  /\ pass.i \in DOMAIN cfg.schedule
  /\ IF Due(pass.i)
     THEN /\ GoTo("schedule", "send")
          /\ pass' = [pass EXCEPT !.day = Day(now)]
          /\ deadlines' = IF cfg.schedule[pass.i].kind = "every"
                          THEN [deadlines EXCEPT ![pass.i] = pass.at + cfg.schedule[pass.i].n]
                          ELSE deadlines
     ELSE /\ pass' = [pass EXCEPT !.i = @ + 1]
          /\ UNCHANGED <<loop, deadlines>>
  /\ UNCHANGED <<workerVars, now, files, cfg, lastFired, today, wakeAt, shutdown,
                 counters, history>>

PassOver(l) ==
  /\ Running(l) /\ At("schedule", "fire")
  /\ pass.i > Len(cfg.schedule)
  /\ GoTo("schedule", "top")
  /\ pass' = NoPass
  /\ UNCHANGED <<workerVars, now, files, cfg, memory, wakeAt, shutdown, counters, history>>

-----------------------------------------------------------------------------
(* dispatch_announcement.                                                   *)

\* A UDP datagram that nobody answers counts as sent.
Outcomes == {"reply", "no_reply", "rejected", "no_password", "error"}
Success(o) == o \in {"reply", "no_reply"}

\* After the dispatch: only a daily slot that went out is marked.
Dispatched(l, o) ==
  /\ Running(l) /\ loop.at = "send"
  /\ ~Success(o) => failures < MaxFailures
  /\ failures' = IF Success(o) THEN failures ELSE failures + 1
  /\ IF loop.mode = "interval"
     THEN /\ GoTo("interval", "sleep")
          /\ wakeAt' = now + cfg.interval
          /\ pass' = NoPass
          /\ UNCHANGED <<lastFired, sent>>
     ELSE /\ GoTo("schedule", "fire")
          /\ pass' = [pass EXCEPT !.i = @ + 1, !.day = 0, !.waited = FALSE]
          /\ IF cfg.schedule[pass.i].kind = "daily" /\ Success(o)
             THEN /\ lastFired' = [i \in DOMAIN lastFired \union {pass.i} |->
                                     IF i = pass.i THEN pass.day ELSE lastFired[i]]
                  /\ sent' = sent \union {<<pass.i, pass.day>>}
             ELSE UNCHANGED <<lastFired, sent>>
          /\ UNCHANGED wakeAt
  /\ UNCHANGED <<workerVars, now, files, cfg, deadlines, today, shutdown, edits, since>>

-----------------------------------------------------------------------------
(* Everything else.                                                         *)

\* An RCON exchange takes a tick at most: rcon_timeout_seconds.
Waits ==
  \/ loop.at \in {"none", "delay"}
  \/ loop.at = "sleep" /\ wakeAt > now /\ ~shutdown
  \/ loop.at = "send" /\ ~pass.waited

\* Starting and ending take less than a tick.
Clock ==
  /\ now < MaxTime
  /\ Waits
  /\ \A l \in Launches : launcher[l] \in {"idle", "done"} /\ worker[l] \in {"none", "running", "gone"}
  /\ now' = now + 1
  /\ pass' = IF loop.at = "send" THEN [pass EXCEPT !.waited = TRUE] ELSE pass
  /\ UNCHANGED <<workerVars, files, cfg, loop, memory, wakeAt, shutdown, counters, history>>

Edit(c) ==
  /\ edits < MaxEdits
  /\ edits' = edits + 1
  /\ file' = c
  /\ editedAt' = now
  /\ UNCHANGED <<workerVars, now, env, loopVars, failures, history>>

Sigterm(l) ==
  /\ Running(l)
  /\ ~shutdown
  /\ shutdown' = TRUE
  /\ UNCHANGED <<workerVars, now, files, cfg, loop, memory, wakeAt, pass, counters, history>>

Crash(l) ==
  /\ Killed(l)
  /\ IF Running(l) THEN Forget ELSE UNCHANGED <<loopVars, history>>
  /\ UNCHANGED <<now, files, counters>>

\* A launch copies the section into the environment of the worker.
Start(l) ==
  /\ Launch(l, Loaded(file).enabled)
  /\ env' = IF FromEnv THEN [env EXCEPT ![l] = file] ELSE env
  /\ UNCHANGED <<now, file, editedAt, loopVars, counters, history>>

LoopStep(l) ==
  \/ DelayOver(l) \/ Quit(l) \/ SwitchLoop(l) \/ IntervalTop(l) \/ ScheduledTop(l)
  \/ WakeUp(l) \/ FireEntry(l) \/ PassOver(l)
  \/ \E o \in Outcomes : Dispatched(l, o)

Next ==
  \/ Clock
  \/ \E c \in Configs : Edit(c)
  \/ \E l \in Launches :
       \/ Start(l) \/ Begin(l) \/ LoopStep(l) \/ Sigterm(l) \/ Crash(l)
       \/ /\ LaunchStep(l) \/ AcquireLock(l)
          /\ UNCHANGED <<now, files, loopVars, counters, history>>

Spec == Init /\ [][Next]_vars

-----------------------------------------------------------------------------
(* Properties.                                                              *)

\* "Each daily slot fires exactly once per day", the first half: a worker whose
\* schedule is not edited never sends a slot of one date twice, whatever fails,
\* and whenever it sleeps across midnight with the date it had before.
OncePerDay ==
  [][At("schedule", "send") /\ loop'.at = "fire" /\ failures' = failures
       /\ cfg.schedule[pass.i].kind = "daily"
       => <<pass.i, pass.day>> \notin sent]_vars

\* Room before midnight for a pass that had just gone by, one more after each
\* failure, and the entries before the slot.
LeavesRoom(i) ==
  cfg.schedule[i].n + Len(cfg.schedule) * (MaxFailures + 1) + i <= DayLength

\* The second half: from its first whole day on, a slot that leaves room before
\* midnight has been sent on every day that is over, whatever else is due and
\* whichever announcements fail.
NoSlotMissed ==
  loop.mode = "schedule" /\ loop.at # "top" =>
    \A i \in Indices(cfg, "daily"), d \in since .. (Day(now) - 1) :
      LeavesRoom(i) => <<i, d>> \in sent

\* "Keeps response time to config edits ... bounded": the scheduled loop works
\* with the edited file after one sleep and one pass at most.
EditsPickedUp ==
  ~FromEnv /\ loop.mode = "schedule" /\ loop.at # "top"
    /\ now - editedAt > MaxSleep + Len(cfg.schedule)
    => cfg = Loaded(file)

=============================================================================
