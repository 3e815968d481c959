# A TLA+ model of the JKA anti-VPN supervisor

This directory specifies two groups of programs of the repository:

* the Go program under `internal/antivpn` (`cmd/taystjk-antivpn`), the supervisor
  that runs the game server as a child, reads its console output, checks the
  addresses of joining players, enforces the verdicts and feeds events to addon
  processes;
* the Python addons under `bundled-addons`, which read those events or the log
  of the server and announce matches, send scheduled messages, log the chat and
  kick those who guess the RCON password.

TLC checks the modules on small instances; TLAPS proves every safety property that
the runs check, the invariants and the action properties, for every value of the
constants. Liveness is left to TLC.

`PROJECT.json` maps every definition to the source lines it models and lists the
runs, the hazards of the code with the properties that address them, and the
theorems.

## 1. Inventory

### 1.1 The parts and how they interact

```
 game server --stdout/stderr--> scanners --lines--> handleLogLine (tracker, RCON guard)
      ^                            |                      | one goroutine per check
      |                            | Publish              v
      |                            v              Engine.CheckIP -> flightGroup -> providers
      |                     EventDispatcher               |   \-> Cache -> file
      |                            | HandleEvent          v
      |                            v              broadcastDecision, enforceDecision
      |                   addon processes (stdin)         |
      +---------------- stdin (commandMu) <--- worker <---+
```

| Component | State it keeps | Operations | Hard behaviour |
|---|---|---|---|
| **Decision engine** (`engine.go`, `cache.go`) | cache entries and dirty flag, flights in progress, the cache file | `CheckIP`, `flightGroup.Do`, `Cache.Get/Set/Close`, flush loop, `load` | concurrent checks of an address, two critical sections per `Get`, late deletion of a flight, failed saves and loads, crash, restart |
| **Verdict** (`engine.go`, `providers.go`) | answers of the providers | `queryProviders`, `EvaluateDecision` | any subset of the providers fails |
| **Event dispatcher** (`dispatcher.go`) | handler list, one bounded queue and goroutine per handler, drop counters | `Subscribe`, `Publish`, `deliver`, `runHandler`, `removeEntry`, `Close` | several publishers, sends outside the lock, queue closed meanwhile |
| **Addon runner** (`addonrunner.go`) | child processes, stdin state per addon | `Start`, `launch`, `HandleEvent`, `waitForExit`, `Stop` | exit at any point, writes that block, shutdown order |
| **Connection tracker** (`supervisor.go`) | tracked address per slot, dedupe map, reinit burst | `handleLogLine`'s client lines, `markEvent`, `classifyConnect`, `clearConnectionState` | any sequence of lines, map restarts that re-emit connects |
| **Check and enforcement loop** (`supervisor.go`) | checks in progress, check slots, lines in both pipes | `processConnectionEvent`, `enforceDecision` | the world moves on while a check runs |
| **Decision publisher** (`supervisor.go`, `rconguard.go`) | cooldown map, broadcast queue | `broadcastDecision`, `shouldBroadcast`, `enqueueBroadcast`, `runBroadcastWorker`, `enforceDecision` | concurrent decisions that read the clock before the lock, saturated queue |
| **RCON guard** (`rconguard.go`) | none of its own; uses the tracker | `handleBadRcon`, `lookupSlotByIP` | the tracker lags behind the game |
| Provider client (`providers.go`) | per-provider gate, retries | `getJSON`, `providerGate.Do` | retries, backoff, cancellation |
| **Rotating files and live feed** (`rotatingfile.go`, `livefeed.go`) | open file, size, archives | `Write`, `rotateLocked`, `archiveCurrent`, `pruneOldArchives` | any step of a rotation fails, crash in the middle of one |
| AKA store (`aka_store.go`) | names per address, the store file | `Record`, `load`, `saveLocked`, `pruneLocked` | failed save, pruning |
| Configuration (`config.go`, `runtime_config.go`) | none at run time | `LoadConfigFromEnv` and the runtime JSON | sequential |
| Event parsing (`events.go`, `parser.go`) | none | one line to at most one event | none: text only |
| **Match announcer** (`defaults/match-announcer.py`) | the tracked match, the armed vote, the pending start line, stdin's buffer | the handlers of `handle_event`, `tick`, `main` | events dropped or in any order, a timer, a buffer `select` does not see |
| **Announcer** (`defaults/announcer.py`) | lock file; configuration, deadlines, dates of the slots sent | `launch_background_worker`, `run_worker`, `run_scheduled_loop`, `run_interval_loop`, `dispatch_announcement` | overlapping launches, edits, failed announcements, midnight, crashes |
| **Chat logger** (`defaults/chatlogger.py`) | open file, its day, day of the last cleanup | `event_to_entry`, `ChatWriter.write`, `_cleanup_old_logs` | events of two days interleave; shares its directory with the daemon |
| **Chat logger daemon** (`examples/deprecated/40-chatlogger.py`) | PID file, tail, day, logs and archives | `ensure_worker_running`, `stop_worker`, `worker_loop`, `cleanup_old_logs` | no lock, kills in the middle of a compression, a blocking read |
| **RCON live guard** (`examples/deprecated/50-rcon-live-guard.py`) | cooldown per address | `run_worker`, `enforce_rcon_attempt`, three RCON exchanges | lost datagrams, slots that change hands between two of them |
| Live team announcer (`defaults/live-team-announcer.py`, `deprecated/20-…`) | cooldown per slot and name | one line to at most one announcement | none: one thread, each event on its own |
| Startup scripts (`scripts/`) | files on disk | sequential shell | partial updates |

### 1.2 What makes each component correct

* Engine: an address is looked up once at a time and only if nothing is cached;
  every check returns, with a decision that was valid when it began; decisions
  reach the file and stay there, unless a start cannot read it; exempt addresses never leave the process.
* Verdict: outages never block, weak signals never add up to a block. (Two
  detections need not block either: an IPHub 35 with a datacenter 20 stays below
  the threshold of 90.)
* Dispatcher: order per scanner, a drop counter that bounds what was lost, scanners
  never wait for a handler, no callback after removal, removal and close end.
* Addon runner: no write to a closed feed, a dead addon disappears from the bus
  and the supervisor survives it, shutdown ends.
* Tracker: nobody plays unchecked, nobody is checked twice in a row, a
  re-emitted connect is recognised and a real one is never taken for it.
* Loop: the tracker mirrors the game; a blocked player does not stay.
* Publisher: the reason precedes the punishment, lines of an address are a
  cooldown apart, publishing never waits for the queue.
* Rotating files: an accepted line stays on disk until enough younger archives
  exist; failures and crashes leave a bounded history.
* Match announcer: one start and one end line for a match, in that order; a vote
  of its own for each match; the winner is that of the score line at hand;
  nothing is forgotten at the end of stdin and every pending line is sent.
* Announcer: one worker however launches overlap; no daily slot twice, none
  missed; edits are picked up after one sleep.
* Chat logs: what was logged recently is in the log of its day, whoever cleans
  up; the daemon alone loses nothing before its time; one daemon unless launches
  overlap; `--stop` means stopped.
* RCON live guard: nobody but the source of an attempt is kicked, unless the slot
  changes hands at the wrong moment; an offender who goes on does not stay.

## 2. Modules

| Module | Models | Extends / uses |
|---|---|---|
| `SingleLookup` | abstract: what `CheckIP` promises about lookups | |
| `Engine` | `CheckIP`, flights, cache, flush, crash, restart | `INSTANCE SingleLookup` as `Promise` |
| `EngineProofs` | theorems about `Engine` | `Engine`, `TLAPS` |
| `Verdict` | providers' signals, `EvaluateDecision` | |
| `DecisionProofs` | theorems about `Verdict` and `DecisionPublisher` | both, `TLAPS` |
| `EventDispatcher` | the bus | |
| `AddonFeed` | abstract: what the runner promises an addon about its stdin | |
| `AddonRunner` | addon processes and `Supervisor.Run`'s shutdown | extends `EventDispatcher`, `INSTANCE AddonFeed` as `Feed` |
| `BusProofs` | theorems about `EventDispatcher` and `AddonRunner` | `AddonRunner`, `TLAPS` |
| `ConnectionTracker` | the maps of `handleLogLine` | |
| `Supervisor` | game, scanner, checks, kicks | extends `ConnectionTracker` |
| `SupervisorProofs` | theorems about `ConnectionTracker` and `Supervisor` | `Supervisor`, `TLAPS` |
| `DecisionPublisher` | public lines and enforcement commands | |
| `RotatingFile` | the writer of audit log and live mirror, and its files | |
| `RotatingProofs` | theorems about `RotatingFile` | `RotatingFile`, `TLAPS` |
| `MatchAnnouncer` | `match-announcer.py` | |
| `MatchProofs` | theorems about `MatchAnnouncer` | `MatchAnnouncer`, `TLAPS` |
| `AnnouncerWorker` | launch and lock of a background worker | |
| `Announcer` | the loops of `announcer.py` | extends `AnnouncerWorker` |
| `AnnouncerProofs` | theorems about the workers and the loops of `Announcer` | `Announcer`, `TLAPS` |
| `ChatDirectory` | the directory of the chat logs | |
| `ChatLogger` | `chatlogger.py` | extends `ChatDirectory` |
| `ChatLogDaemon` | `40-chatlogger.py` | extends `ChatDirectory` |
| `ChatLogs` | both on one directory | extends `ChatLogger`, `ChatLogDaemon` |
| `RconLiveGuard` | `50-rcon-live-guard.py` | |
| `LogReaderProofs` | theorems about `ChatLogs` and `RconLiveGuard` | both, `TLAPS` |
| `MC*` | constants and symmetry of the TLC instances | their module |

Operators whose comment begins with *Faulty* are plausible bugs of the
definition that follows them. No specification uses them; substituting one for
the real definition must make TLC report the property that guards against it
(`PROJECT.json`, `mutants`).

### 2.1 Engine

One goroutine per `Thread`; `pc` names the point of `CheckIP` it has reached. A
step is what happens between two points at which the code takes a lock, waits
or sleeps: `Cache.Get` is two steps, because it decides under `RLock` that an
entry is expired and deletes it under `Lock`; `flightGroup.Do` is
`Lead`/`Join`, the second `Get` inside the flight (`Recheck`), `LookupReturns`,
`Store`, `Signal` (`wg.Done`) and `Forget` (the deletion from `calls`, which
happens after the waiters are released, so that a late joiner finds a finished
call). `since` is the `time.Now` that `Get` takes before the lock.

`saveLocked` is three steps (marshal, write `path.tmp`, rename), each of which
may be the last one before `Crash`; `Cache.mu` is held throughout, so `saving`
blocks every cache operation. `CloseBegin` is reached while checks may still
run, as in the code, which does not wait for them.

`Restart` loads the file or fails to: `NewCache` turns an error of the read or of the
parser into a warning and an empty cache (`cache.go:40-44`), and the first flush then
writes that cache over the file. So a start *can* lose decisions that were saved, and
`SavedStaysSaved` says precisely when: `loaded` remembers whether the process at work
has read the file. `forgotten` remembers the addresses of which `Get`, between its two
critical sections, deleted a live decision in the place of the expired one it had
seen; the next flush takes it from the file too.

Time is in ticks, of which `TTL` is a few. `Tick` assumes only that a leader
does not spend a whole tick between two consecutive in-memory steps; a lookup,
and a wait, may take any time.

### 2.2 Verdict

An answer is abstracted to success, weight, whether it has signals and whether
one is strong; `ProxyCheck`, `IpapiIS`, ... are the sets of answers each
provider's code can produce. `queryProviders` is one `ProviderAnswers` step per
provider in any order. Of a decision only `WouldBlock` is kept; `Blocked` is the same
in block mode. Its reuse is `Engine`'s matter.

### 2.3 EventDispatcher and AddonRunner

`Publish` snapshots the handlers under the lock and sends outside it; a send on
a queue that `removeEntry` or `Close` closed meanwhile is `Panic`, which stops
the whole system because nothing recovers it. Drop-oldest is four steps
(failed send, `Evict`, `Resend`, `Record`): `dropMu` serialises the middle two, but the
first send of another publisher does not take it. `Record` is `recordDrop`, which
under either policy comes after the send and takes `dropMu` anew: until then an event
is gone and not counted. Handlers' goroutines choose
freely between a ready queue and a cancelled context, as `select` does.
Subscription is possible once per handler.

`AddonRunner` puts child processes behind the handlers: `launch` in its four
steps, `HandleEvent` holding `stdinMu` during a write, `waitForExit` in its
five, and the end of `Supervisor.Run`. A process may exit at any time and may
stop reading for ever, but a killed one exits.

`AddonFeed` is the life of an addon's feed without the processes, the locks and
the three places that close it: opened once and before the end, one event at a
time, closed between events or by the failure of one, never opened again. The mapping
reads the feed off `proc` and `stdinClosed`, the event under way off `writing`, and
the end off where `Run` stands; `Stop`, `waitForExit` and a failed write of
`HandleEvent` all map to a closing, the second of two to a stutter.

### 2.4 ConnectionTracker and Supervisor

A line is one step: one scanner reads the engine's client lines, and nobody
else writes the maps. `recency` stands for the `SeenAt` order that
`lookupSlotByIP` uses. `checkedAt` and `since` are history variables that no
action reads except to maintain them.

`Supervisor` surrounds the tracker with a game that lets players come, go and
restart the map, a pipe of unread lines, a pipe of unexecuted commands, and
check goroutines that wait for a check slot, get a decision and kick *the slot
of the line that started them*. An occupant keeps its address while it is in a
slot there; address changes inside a slot are covered by `ConnectionTracker`,
which accepts lines in any order.

### 2.5 DecisionPublisher

A check goes through `Judge` (suppression and mode, and the `time.Now` of
`shouldBroadcast`, which is read *before* the lock), `Lock` (which also prunes what
is older than ten minutes, `PruneAfter`), `Test` and `Mark` under `broadcastMu`,
`Emit`, and then `Enforce`, one command per step, in any of the enforcement modes. The
steps under the lock are separate so that it is the lock that keeps others out, as in
the code, and not the model.

The BLOCK line is written to the server by `Emit`, other lines are queued. A write
succeeds until the server closes its stdin; `blockLine` is what became of the line of
a check, `due` when it was let through and did not reach the server. A command
template that is blank yields no command, a public template that is blank no line.
`passAt` is `broadcastSeen` without the pruning.

The worker takes a line and writes it; the sleep between two lines is left open, so
it may take any time, and the cancelled worker does nothing. Slots are not empty, since they come
out of a line that was parsed: `appendKick`'s test of the slot is left out.

`BlockLineFirst` is about the line *of the same check*. A check whose line the cooldown
suppresses enforces at once, and may do so before an earlier check of the address has
written its line. `CooldownHolds` measures from the clock the earlier check had read to
the moment the later one is let through.

### 2.6 RotatingFile

`at` is where `Write` or `newRotatingFile` stands. `rf.mu` is held for the whole
of `Write`, so one writer is enough; the steps are separate because each may
fail and the process may die after any. On disk there are the file (`path`, its
lines and length), the uncompressed archives (`plain`, by name) and the
compressed ones (`gz`, by name, each with its lines and its modification time, which
is what a prune sorts them by). A name is the suffix of an archive made within the same
second, the case in which `uniqueArchivePath` has something to do; a rename
replaces what has the name. `starting` tells the rotation of
`newRotatingFile`, which opens with the size of the file, from that of `Write`,
which opens with 0. A failure and a crash each count in `faults`.

### 2.7 MatchAnnouncer

One action per handler of `handle_event` and per step of `main`. An event is its
kind, with who leads for a score line; the runner may write any event after any
other, because the bus may have dropped what was between them. `pipe` and
`buffer` tell the kernel's pipe, which `select` polls, from the lines `readline`
has taken out of it: `ReadAndHandle` empties the pipe into the buffer only when
that is empty, and runs only when the pipe has something or is closed, which is
how a buffered line can wait for the next write. `startIn` counts the two
seconds of a deferred start line down, `armedAge` the 30 seconds of a passed
vote up. `ReadEof`, `Flush` and `FlushEnds` are the end of `main`. `told` (the
lines since the match was activated) and `unused` (votes less matches) are
history variables.

`LoadConfig` is the whole of `load_config`, its precedence of environment over
file and its filter on game types included; both inputs are parameters.

### 2.8 AnnouncerWorker and Announcer

`AnnouncerWorker` is the protocol of the lock file. A launch probes it
(`previous_worker_alive`, itself a short exclusive lock: `Probe`, `Release`),
and starts a child (`Spawn`); the child takes the lock or ends. Signals, crashes and
failed starts are actions, and `flock`'s release at the end of a process is part of
each. The PID file is left out: nothing reads it but a worker that ends, to remove it.

`Announcer` has the worker's loops: the top of a loop (reload, reconcile, choose
the sleep), the sleep, the firing pass entry by entry, the dispatch with the five
outcomes of `dispatch_announcement`. One clock stands for the wall and the
monotonic clock. A tick is long against what the worker computes and short
against a day; the worker waits for it only in a sleep or an RCON exchange
(`Waits`). `lastFired` and `deadlines` are indexed as in the code, so that an
edit that moves an entry carries over what was remembered of its index.

### 2.9 ChatDirectory, ChatLogger, ChatLogDaemon and ChatLogs

A file is the set of its entries, an entry a line with how it was seen and the
day it was filed under. `ChatLogger` rolls to the day *of the event*, back or
forth, and cleans up when that day is not the one of its last cleanup.
`ChatLogDaemon` has `ensure_worker_running` as a read of the PID file, an unlink
of a stale record, a start and a record, with nothing held in between;
`stop_worker` as the check of the PID file, the signal (`os.kill` raises if the worker
has ended since, and the record stays), and the escalation to SIGKILL; the worker's
tail; and `cleanup_old_logs` file by file, with the archive in existence from the
moment `gzip.open` creates it. Its two retention times come in either order: the
one of deletion is tested first (`40-chatlogger.py:385`), so with KEEP_TOTAL_DAYS below
KEEP_PLAIN_DAYS it deletes logs that the other would keep, and `RecentKept` speaks of
the days that neither has passed. `ChatLogs` lets both write the same directory while the
days pass. An event reaches the addon before the next midnight but one and
nothing the daemon has begun spans midnight; both are in the guard of `Midnight`.

### 2.10 RconLiveGuard

A line of the tail is its source and the shape of its text, and detection is
membership of the configured patterns. `StatusAnswered` reads the players of a
*prefix* of the slots, since only the first datagram of the answer is read;
`Kick` hits whoever is in the slot by then; each exchange may be lost. `cooling`
counts the cooldown of an address down; at the start it reflects that an address
never acted upon counts as acted upon at time 0 of a clock that starts with the
host. `handed` remembers that the slot changed hands after it was found.

The `TypeOK` of a module documents its variables. Those of `Engine`,
`EventDispatcher`, `AddonRunner`, `MatchAnnouncer`, `DecisionPublisher`, `RotatingFile` and
`RconLiveGuard` are proved; no run spends its time on the others.

Where a module is composed with another in one proof module, its initial states,
steps and specification have names of their own: `BusSpec`, `TrackerSpec`,
`VerdictSpec`, `GuardSpec`. A run is of `Spec` or `LiveSpec` of its module, which are
these with fairness where the run checks liveness. The theorems are of the
specifications without fairness, which say more.

## 3. What the runs check

| Run | Instance | Properties |
|---|---|---|
| `engine` | 2 goroutines, a public and an exempt address, TTL 1, 3 ticks | `NeededLookup`, `NoLostWaiter`, `CleanMeansSaved`, `FreshAnswers`, `SavedStaysSaved`, and the refinement `LookupPromise` |
| `dispatcher` | 2 scanners, 1 handler, buffer 2, 2 events each, both policies | `PerScannerOrder`, `LossIsRecorded`, `NoCallAfterRemoval`, `RemovalReturns`, `CloseReturns` |
| `addon` | 1 scanner, 2 addons, buffer 1, 1 event | `ShutdownCompletes`, and the refinement `FeedPromise` |
| `tracker` | 2 slots, 2 addresses, 4 ticks | `NobodyUnchecked`, `DedupeHolds` |
| `supervisor` | 1 slot, 1 clean and 1 blocked address, 2 checks, 1 check slot | `TrackerMirrorsGame`, `BlockedIsPursued`, `BlockedPlayerRemoved` |
| `verdict` | all six providers, threshold 90 | `OutageNeverBlocks`, `WeakSignalsNeverBlock` |
| `publisher` | 2 checks, 1 address, ban-and-kick, queue 1, cooldown 1, prune age 1, 2 ticks | `BlockLineFirst`, `CooldownHolds` |
| `rotating` | 7 lines, threshold 2, 2 archives kept, 3 failures or crashes | `KeptUntilPruned`, `HistoryBounded` |
| `match` | 5 events, pipe of 2, arm time and start delay of a tick, 9 pairs of environment and file | `MatchLines`, `VotePerMatch`, `NothingLostAtEof`, `WinnerOfThisMatch`, `StartLineResolved`, `SummaryFollows` |
| `announcer` | 2 launches, days of 5 ticks, 11 ticks, 4 configurations, 1 edit, 1 failure | `OneWorkerRemains`, `NoSlotMissed`, `EditsPickedUp`, `OncePerDay` |
| `chatlog` | 2 launches and a stop, 1 beside the addon, 4 days, 2 lines, plain logs kept 1 day and archives 2 | `RecentKept`, `ArchiveKept`, `OneWorker`, `StoppedIsGone` |
| `guard` | 2 slots, 2 players' addresses and an ignored one, 2 runtimes, interval 2 | `OnlyTheSourceIsKicked`, `OffenderIsRemoved` |

All of them hold. What each shows in a sentence is in `PROJECT.json`. Some theorems state
consequences of these that no run checks a second time: `LookupPromise` is
`OneLookupPerAddress` with its fairness, and `FeedPromise` implies `NoWriteToClosedFeed` and
`SilentAfterStop`, on which its proof rests.

### 3.1 Why the bounds are enough

* `engine`: two goroutines are what a race on a flight, on an expired entry or
  on a save takes; one address carries all of it but the save of one decision when
  another was forgotten, which the proof of `SavedStaysSaved` covers. Three ticks with a TTL of one let an entry be stored, expire, be
  evicted and be stored again, across a crash as well. The proofs of section 4
  remove these bounds for the safety properties.
* `dispatcher`: two scanners are the system's number. Two events each and a
  buffer of two let the queue be full while one scanner makes room and the
  other refills it. Handlers share nothing but the list and `Close`, which `addon`
  exercises with two.
* `addon`: two addons are needed for the second half of `Stop`, where the timer
  has been used up by the first.
* `tracker`: two addresses let a slot change hands or address; two slots, one
  address be in two places. Four ticks exceed the dedupe interval (2), the
  prune age (3) and the burst (1).
* `supervisor`: two checks with one check slot let a check wait for another
  while the slot's player changes; two unread lines let the tracker lag.
* `publisher`: two checks for the race on the cooldown; a queue of one is full
  after one line; two ticks (`MaxTime`) let an entry be pruned and let a check be
  overtaken by the clock before it gets the lock. The proof covers every mode and any
  cooldown, prune age and templates.
* `rotating`: seven lines and a threshold of two make up to six archives, three times
  what is kept; the third line is longer than the threshold. Three faults are
  enough for a failed compression, a crash before the prune and another failure in the
  rotation that follows. The thousandth archive of one second, where the
  names run out (`rotatingfile.go:210`), is out of reach; the settings are the
  same from start to start except for `ANTI_VPN_ROTATE_LOGS_ON_START`.

* `match`: five events are enough for a vote, an activation, a score, a second
  vote and a second match, and for what was dropped between any two of them;
  `PipeCap` 2 lets a line be buffered while another is in the pipe. The proofs
  lift the bounds on events, pipe and durations for the safety properties.
* `announcer`: two launches (`Launches`) for the race on the lock, which the proof
  extends to any number. `MaxTime` 11 with days of five ticks is two whole days
  and the beginning of a third, so a slot has one day to be sent on after the day
  the worker began; `MaxSleep` 2 makes several sleeps a day. `MaxEdits` and
  `MaxFailures` 1: an edit or failure at any point, and both together. `NoSlotMissed`
  holds of the slots that leave room before midnight (`LeavesRoom`): a pass may have
  just gone by the slot, a failed announcement takes another pass, and the entries
  before it take a tick each. The slot at midnight of the first schedule is one of
  these, with nothing to spare. The sections
  include an unparsable time, a too short interval, an empty schedule (the
  interval loop) and a disabled announcer. `FromEnv` is `FALSE`, the case in which
  edits count.
* `chatlog`: plain logs are kept a day and archives two, since with the times in the other
  order nothing is ever archived; the proof of `RecentKept` covers both orders. Four days
  (`MaxDay` 3) take an entry past both retention times;
  two lines (`MaxLines`) are two entries of different days that arrive in either
  order; of a `tell` both programs log an entry, and the addon gets one event that
  it records and one that it skips.
  `LaunchesBeside` 1 limits the launches of the daemon where the addon is
  enabled; two overlapping workers are explored without it.
* `guard`: two slots let the wrong player sit below or above the right one and the
  status answer end before either; `MaxUptime` 1 covers a host that has just
  started; `FeedCap` 1 suffices since lines are handled one at a time. The proof
  removes these bounds for `OnlyTheSourceIsKicked`.

The theorems of section 4 lift the bounds of every run for the safety properties; the
instances matter for liveness, and for finding out what is true.

`CHECK_DEADLOCK FALSE` is given to runs where everything may have ended:
the bus closed and every event published, the addons' processes gone, the day or
the clock at its bound.

### 3.2 Fairness

* `Engine.Fairness`: a goroutine inside `CheckIP` keeps running. It is strong
  fairness because a goroutine at a lock is disabled again and again by saves,
  and `sync.RWMutex` does not starve a blocked goroutine; a lookup ends because
  every provider request has a timeout. A save that started ends. Nothing makes
  a check start, the cache be flushed, or the process stop or start again.
* `EventDispatcher.BusFairness`: scanners inside `Publish`, bus goroutines and a
  removal or close under way go on. `HandleEvent` is *not* assumed to return:
  `RemovalReturns` and `CloseReturns` name it as their premise (`HandlersReturn`).
* `AddonRunner`: the supervisor's goroutines go on, a write to a process that
  has ended fails, and a killed process ends (the kernel's promise). Addons are
  not assumed to exit when their input closes, nor to read it.
* `Supervisor.Fairness`: the scanner reads, the server executes commands, checks
  run. Waiting for a check slot is strongly fair, since a channel serves its
  waiters in order. Nothing forces players to come or go, or time to pass.
* `MatchAnnouncer.Fairness`: the process runs and time passes. Nothing makes the game
  go on, which is why `SummaryFollows` names one more event, or the end of
  stdin, as its premise.
* `RconLiveGuard.Fairness`: the worker goes on and time passes; for each address the
  status answer arrives in full, and the kick, infinitely often if they are tried
  infinitely often (strong fairness: a lossy network that is not dead).
* `Verdict`, `ConnectionTracker`, `DecisionPublisher`, `RotatingFile`, `Announcer` and
  `ChatLogs` state no liveness and no fairness.

### 3.3 Disagreements between code and documentation

Four of the supervisor, of which the models reproduce the first three:

* `Publish` sends outside the lock (`dispatcher.go:183`, `:240`); the exit of an addon
  closes its queue meanwhile and the send panics, in the scanner goroutine
  (`Panic`). `addonrunner.go:58` promises crash isolation.
* `launch` starts `waitForExit` before it stores the cleanup (`addonrunner.go:295`);
  an addon that ends in between stays on the bus, whereas `addonrunner.go:58`
  says it is removed.
* `clearConnectionState` deletes the dedupe entry of the last address of the slot
  only (`supervisor.go:857`), whereas `docs/anti-vpn.md:303` promises a fresh check to
  whoever takes the slot next.
* A decision cached in block mode is enforced after a restart in log-only mode
  (`engine.go:70`, `supervisor.go:778`), whereas `docs/anti-vpn.md:126` says log-only
  sends nothing. `Engine` has the reuse, no module the mode.

Others are in the models as the code has them and are no property's subject:

* Drop-oldest can drop the *new* event (`dispatcher.go:206`): the other scanner
  may refill the queue between the eviction and the second send. The comment
  at `dispatcher.go:30` speaks of the oldest one. Then two events are lost and one is
  counted, so the counter is not the number of events lost; and it lags behind them
  until `recordDrop` has taken `dropMu` again. What it is worth is in `LossIsRecorded`:
  with those about to be counted it is exact under drop-newest, where it counts the
  sends that found a queue full, and under drop-oldest no less than half of the losses
  (one more may be gone while room is made).
* A cache file that cannot be read is replaced (`cache.go:40-44`): the start goes on
  with an empty cache, as its warning says, and the next flush overwrites the file.
* `Run` cancels the context before it calls `Stop` (`supervisor.go:308-310`), so
  the addons that `Stop` would ask to end (`addonrunner.go:403`) are killed at
  once by `exec.CommandContext`. `ShutdownCompletes` depends on that order: with
  the context alive an addon that does not read its stdin would hold `stdinMu`,
  for which `Stop` waits. The mutant of `ShutdownCompletes` shows it.
* `Stop`'s one timer fires once (`addonrunner.go:424`): after the first addon
  that misses the deadline the others are waited for without one. The killed
  children make this harmless.
* The BLOCK line is written at once and does not take part in the spacing of
  public lines (`supervisor.go:1040`), which the comment at `config.go:77`
  states for all of them.
* The cooldown is kept per address and action (`supervisor.go:1222`), not per
  slot as `docs/anti-vpn.md:309` says.
* The slot of the line that started a check is kicked after the lookup
  (`supervisor.go:778`): if its player left meanwhile, the next one in the slot
  is kicked instead. `Supervisor` has these behaviours; what is checked is that
  blocked players are removed all the same.
* `ANTI_VPN_EVENT_DEDUPE_INTERVAL` above five minutes and a broadcast cooldown
  above ten are cut short by the pruning (`supervisor.go:1241`, `:1222`).
  `ConnectionTracker` has the pruning; its run keeps the order of the defaults.
* `livefeed.go:17` says that dropped mirror writes last until the writer
  recovers, "e.g. on the next rotation cycle". `disabled` is never reset, so they
  last until the next start, as in `RotatingFile`.
* `livefeed.go:20` and `docs/anti-vpn.md:311` call the archive history bounded.
  Only `.gz` files are pruned (`rotatingfile.go:246`) and an archive whose
  compression or removal failed is never tried again: one stays for each
  failure, which is what `HistoryBounded` states.

Of the addons, in the models as the code has it:

* `match-announcer.py`: its docstring says the summary fires immediately
  (lines 28-35). `select` polls a pipe from which `readline` has already taken
  everything, so a score line behind another one waits for the next write.
  A score that arrives within the two seconds of the start line wipes that line;
  a scoreboard without a score is announced as a draw; an `InitGame` that does not
  activate a match leaves the running one tracked; a vote is armed from the time
  it is *handled*.
* `announcer.py`: a configuration from the environment is a copy made at launch, so
  edits are never picked up then (the docstring at 66-67 promises a bounded delay). A
  failed daily slot stays due and is tried again at once, without a pause. A
  restart sends the slots of today that are past again; after an edit a slot
  inherits what was remembered of its index; a slot too close to midnight for the
  pass to reach it is lost for that day. A datagram that nobody answers counts as
  sent. The PID file, which is not in the model, may name a dead child, or be unlinked
  by a predecessor that is leaving.
* `chatlogger.py`: the supervisor publishes `raw_line` for every line
  (`supervisor.go:372`) and `chat_message` for stock verbs as well
  (`supervisor.go:596`); both are recorded, so a stock chat line is logged twice,
  which the docstring at 18-20 denies. An `OSError` on a write ends the addon for the
  session. Its cleanup never deletes an archive.
* `40-chatlogger.py`: launches that overlap leave two workers, one of them in no PID
  file (`OneWorker` assumes they do not); an interrupted compression leaves a
  partial archive, for the sake of which the next cleanup deletes the plain log
  (`ArchiveKept` assumes none was interrupted); with KEEP_TOTAL_DAYS below KEEP_PLAIN_DAYS
  plain logs are deleted within KEEP_PLAIN_DAYS; a stop whose worker ends before it is
  signalled reports a failure and leaves the PID file; the retention differs from the addon's
  by a day; a worker notices SIGTERM at its next line only, so that `--stop` ends in
  SIGKILL on a quiet server and leaves a `tail` behind; lines printed between two
  tails are lost.
* `50-rcon-live-guard.py`: the kick may hit the next occupant of the slot; the kick is
  announced even if it was lost; of two players at one address the first is kicked;
  `bare_ip("::1")` is `":"`, so the IPv6 entry of the ignore list never matches; the
  first attempts are ignored on a host that has been up for less than the interval.

## 4. What is proved

### 4.1 The engine

`EngineProofs` proves about `Engine`, for every set of goroutines, addresses,
exempt addresses and verdicts, every TTL and every bound on the clock:

| Theorem | States |
|---|---|
| `Typing` | `Spec => []TypeOK` |
| `Invariant` | `Spec => []IInv` |
| `NoNeedlessLookup` | `Spec => []NeededLookup` |
| `WaitersAreLed` | `Spec => []NoLostWaiter` |
| `CleanCacheIsSaved` | `Spec => []CleanMeansSaved` |
| `AnswersAreFresh` | `Spec => []FreshAnswers` |
| `ExemptionsHold` | `Spec => []ExemptNeverQueried` |
| `FileKeepsDecisions` | `Spec => SavedStaysSaved` |
| `ImplementsSingleLookup` | `Spec => Promise!SafeSpec` |

`SavedStaysSaved` excepts what the code does lose: a file that the start could not read,
and a decision that `Get` deleted by mistake. The only assumption is
`EngineAssumption`: there is an address, the exempt ones
are among them, the sentinels are none of the values they stand beside, and the
TTL is positive.

The properties are not inductive by themselves. `IInv` adds

* `Leaders`: a goroutine between its entry in `calls` and the deletion is the
  one `calls` names for its address, and whoever `calls` names is such a
  goroutine. Without it nothing excludes two owners of flights of one address,
  which is what `NeededLookup` and the refinement come down to;
* `Waiters`: the leader a waiter waits for has yet to release its waiters, for
  otherwise a waiter could have missed the release;
* `MissingWhileLookedUp`: while an address is looked up its entry is empty. It
  is kept because only the leader stores (`Leaders`) and because a restart, the
  other way entries come in, finds nobody running (`DownIsIdle`);
* `ExemptStayOut`: whoever gets past the first test checks an address that is
  not exempt;
* `Clocks`: what each goroutine knows about the time. `FreshAnswers` rests on
  the second `Get` comparing with the present time and on a leader not being
  overtaken by the clock between finding a decision and handing it out;
* `NoneOutlives` and `CacheKeepsUp`, for `SavedStaysSaved`: a decision that is stored lasts as
  long as any there is, so that the cache never falls behind a file it has read.

One lemma per conjunct shows that every step keeps it (`LeadersStep`,
`WaitersStep`, `MissingStep`, `SavedStep`, `ExemptStep`, `ClocksStep`, ...);
`IInvStep` puts them together. The refinement shows that asking maps to `Ask`,
the miss inside the flight to `BeginLookup` (`LookingAlone` gives its guard from
`Leaders`), the providers' return to `EndLookup`, the three ways of returning to
`Return`, a crash to `Die`, and that every other step is a stutter.

### 4.2 The match announcer

`MatchProofs` proves about `MatchAnnouncer`, for every configuration, arm time, start
delay, size of the pipe and number of events: `Typing`, `LinesInOrder`
(`MatchLines`), `MatchesAreVoted` (`VotePerMatch`), `EofLosesNothing`
(`NothingLostAtEof`) and `WinnersAreOfThisMatch` (`WinnerOfThisMatch`), from
`MatchAssumption` (the durations and bounds are numbers, the delay positive).

`MatchLines` alone is not inductive: nothing in it keeps a second start line from
following. `MatchTold` says what has been said in each state of a match (nothing
and the line is pending; or the start line, and none is pending), and that no score
is kept over an event, which is what `WinnerOfThisMatch` comes down to.
`ArmedIsUnused` sharpens `VotePerMatch` (an armed vote has not been spent);
`EofIsLast` and `FlushOutlasts` say that after the end of stdin nothing comes and
that a pending line is due before the flush gives up. One lemma per handler
shows `Handled`, and `Inductive` has one step per action.

### 4.3 The bus and the addons

`BusProofs` proves, for any scanners, handlers, events, buffer size and policy, from
`DispatcherAssumption`:

| Theorem | States |
|---|---|
| `BusTyping` | `BusSpec => []TypeOK` |
| `ScannersStayInOrder` | `BusSpec => []PerScannerOrder` |
| `LossesAreRecorded` | `BusSpec => []LossIsRecorded` |
| `RemovedIsQuiet` | `BusSpec => NoCallAfterRemoval` |
| `AddonsUseTheBus` | `Spec => BusSpec`, where `Spec` is `AddonRunner`'s |
| `ClosedFeedsStayClosed` | `Spec => []NoWriteToClosedFeed` |
| `AddonTyping` | `Spec => []RunnerTypeOK` |
| `StopSilences` | `Spec => []SilentAfterStop` |
| `KeepsFeedPromise` | `Spec => FeedPromise`, that is `Feed!Spec` of `AddonFeed` |

`LossIsRecorded` is inductive with the types: each step that overflows a queue adds a
publisher to those about to count it, and `Record` moves it into the counter. That they are
finitely many, so that they can be counted, is `FewRecord`; the eviction of drop-oldest
is the loss of one event before its overflow is decided.

`AddonsUseTheBus` is a refinement with the identity as its mapping: every step of the
supervisor with its addons is one operation of the bus or a stutter of it, so what
holds of the bus under any client holds of it there. Of the invariant, `InOrder` is the
part with content: what a handler has seen, followed by what is in its queue, is in
order, and older than what each publisher still has to deliver. That survives the
eviction and the second send of drop-oldest, between which the other scanner may send,
because order is asked of each scanner alone. `Deliveries` says that who is between an
eviction and its second send still owes the event to that handler.

`SilentAfterStop` is about the snapshot `Stop` works on: an addon that is missing from it
must not be fed either. `FeedInv` says why: an addon whose feed is open is on the list,
or its launch has yet to append it, which cannot be once the server has ended
(`OpenIsListed`); who is off the list had its feed closed by its own `waitForExit`
(`WaiterCloses`); and `Stop` has closed the feeds of those it went past (`StopReaches`).
`KeepsFeedPromise` goes through the steps of the runner once more: each opens, uses or
closes one feed as `AddonFeed` allows, or touches none. That a feed is opened once
rests on a launch beginning with an addon that has no process (`BornInv`).

### 4.4 The verdict, the tracker, the loop and the publisher

* `DecisionProofs`, of `Verdict`: `OutagesNeverBlock` (`OutageNeverBlocks`) for every
  threshold and set of keys, and, for a threshold above 45, `WeakSignalsAreHarmless`
  (`WeakSignalsNeverBlock`): 45 is what the weak signals of all providers weigh together
  (`AnswerWeights`), and the default is 90. The invariants are `Answering`, that an
  answer is one its provider can give, and `Judged`, that a decision is made of all of
  them. The first theorem comes down to no weight being negative.
* `DecisionProofs`, of `DecisionPublisher`, for any checks, modes, templates, commands,
  cooldown, prune age and queue, from `PublisherAssumption`: `BlockLineIsFirst`
  (`BlockLineFirst`) and `OneLinePerCooldown` (`CooldownHolds`). The first rests on
  `DueMeansGone`: a line that did not reach the server means that its stdin is closed,
  since it is written by the check itself and not queued. The second on `Deciding` (who is
  between the test and the mark holds `broadcastMu`), so that what the test found is still
  so at the mark (`Tested`), and on `Remembered`: an entry has the time its last line was let
  through, or that is longer ago than `PruneAfter`, by whichever clock it was pruned.
* `SupervisorProofs`, of `ConnectionTracker`, for any slots, addresses, windows and
  number of lines, from `TrackerAssumption`: `EverybodyIsChecked` (`NobodyUnchecked`) and,
  if the dedupe interval is at most the age of pruning, `ChecksAreSpaced`
  (`DedupeHolds`). Both rest on `SeenIsChecked`: an entry of the dedupe map is the time of
  the last check, so a duplicate that is dropped was checked less than an interval
  ago. `Remembered` is the converse for as long as an address keeps its slot: its entry
  is there until it is too old, through repeated lines, pruning and map restarts.
  Without the condition on the interval it would be pruned while it still counts.
* `SupervisorProofs`, of `Supervisor`: `TrackerKnowsWhoPlays` (`TrackerMirrorsGame`) for
  any number of slots, unread lines, checks and commands. `Mirrors` is the invariant: for
  each slot the last unread line about it says who plays there, and if there is none
  the tracker knows. The burst of lines after a map restart repeats for each occupied
  slot what is so already; a kick changes the game at its own end and is read later.
  `SupervisorAssumption` has `Slots` finite, since a map restart prints a line for
  each slot that is taken.
  `NobodyPlaysUnchecked` and `ChecksStaySpaced` carry the theorems on the tracker over.
* `SupervisorProofs`, of the whole loop: `NoBlockedPlayerForgotten` (`BlockedIsPursued`), the
  safety half of `BlockedPlayerRemoved`. A kick hits whoever is in the slot, a duplicate
  starts no check, and a check is of whoever came a while ago, so it is not evident
  that a blocked player cannot sit between them. Three facts make up the invariant
  `PInv`: in the unread lines about a slot no player follows another without a
  departure in between (`NoJumps`); so an entry of the dedupe map is always of the
  address tracked now (`SeenIsTracked`), and a duplicate can only be of a player who was
  checked already; and who is tracked and blocked is being checked or has a kick on
  its way, unless their departure is unread (`PursuedOnceRead`). `NoJumps` is what the
  disconnect's clearing of one address relies on: with a server that let an address
  change within a slot the map would keep entries of others (section 3.3).
* The types of the publisher: `PublisherTyping`.

### 4.5 The rotating files

`RotatingProofs` proves `Typing`, `LinesKept` (`KeptUntilPruned`) and `FewArchives`
(`HistoryBounded`) for any lines, threshold, settings and number of archives, failures
and crashes, from `RotatingFileAssumption`.

`KeptUntilPruned` is not inductive: a prune may remove younger archives as well, after
a failure left too many, and nothing in it says that enough of them stay. `History`
says that archives are in the order of their lines (`InOrder`) and that a line that is
gone was in an archive made before a time since which `KeepCount` archives of later
lines were made (`GoneForAReason`). What a prune takes has `KeepCount` newer archives
itself, so as many are left (`EnoughStay`), and a new archive is of lines later than
all others. `Counts` gives a rotation under way one archive too many of each kind.
`FewAreKept` says that what is not in excess is at most `KeepCount`, `UniqueIsNew`
that the name found is one neither kind of archive has.

### 4.6 The announcer

`AnnouncerProofs`, for any launches, configurations, lengths of the day and of a sleep:

* `OneWorkerStays`: `Spec => []OneWorkerRemains`. `WInv` says who holds the lock in each
  state (`HeldByWorker`, `HeldByProber`), which gives mutual exclusion, and
  `SomebodyGoesOn`: whenever a launch is through, somebody works, or a child is
  starting, or another launch is between its probe and its child. The last is why a
  probe that meets another probe may give up. `WorkerAssumption` keeps the holder of a
  free lock apart from the launches.
* `EditsWork` (`EditsPickedUp`) and `NoSlotTwice` (`OncePerDay`), from `LoopInv`. `OnTime`
  bounds a sleep by `MaxSleep` and a pass by a tick for each entry; `StaleForOneSleep`
  says that a worker without the edited file fell asleep before the edit. `Remembered`
  has the dates in `lastFired` no later than the date of the horizon until the pass is
  past an entry, and `SentIsRemembered` that a slot that was sent is in `lastFired` with
  that day or a later one. Together they say why a pass over midnight, which asks with
  the date of the day before, does not send a slot again.
* `EverySlotSent` (`NoSlotMissed`), from `SlotInv` on top of that. `NotLate` bounds how long
  after its time a slot may still be unsent, by what the pass has done and by the
  failures so far (`Slack`); `WakesInTime` says that a sleeper is awake by the time of
  the next slot; `DayAtHand` that the date of the horizon is still the day of a slot
  that the pass has to send. The bound in `LeavesRoom` is what this argument needs; a
  smaller one, without the pass that had just gone by, is refuted by TLC with a
  schedule of three entries.

Beside `AnnouncerAssumption` these use `ConfigsAssumption`: the schedules in the file are
lists of pairs of numbers. That `load_config` makes lists of well-formed entries of them
is proved (`LoadedHasEntries`): the entries that stay are numbered by their rank among
those, and each rank is taken (`EachRank`).

### 4.7 The chat logs and the live guard

`LogReaderProofs`, of `ChatLogs`, for any launches, days and lines and any retention times,
in either order, from `ChatAssumption`, `DaemonAssumption` and, for the last, `WritersAssumption` (an
entry tells which program wrote it):

* `RecentEntriesStay` (`RecentKept`), about the days that neither retention time has passed:
  `DirInv` adds that a list of files to remove has only days that one of them has passed
  (`Old`) and that no event is of the future.
* `StopStops` (`StoppedIsGone`) and `OneWorkerAtMost` (`OneWorker`): `ProcInv` says that
  nobody knows the pid of a child that is yet to be started (else `--stop` could find
  its worker alive again) and, for an invocation that has the directory to itself, what
  the PID file says of the workers at each of its steps.
* `EntriesAreArchived` (`ArchiveKept`): `SafeDay` says of each day still to be kept that
  its entries are in its log unless there is an archive; that an archive has them all
  unless a worker is filling it; that who fills it has them all; and that nobody is
  about to remove a log without an archive. Several workers may do all this at once:
  one that finds the archive of another removes the log the other is reading, whose
  entries are then in that worker's hands only. A line goes to the log of today, of
  which there is no archive yet (`Archives`).

Of `RconLiveGuard`, for any slots, addresses and configurations (`GuardAssumption`:
slots are naturals, and the interval of a file is an integer, as `safe_int` makes it):
`OthersAreLeftAlone`, `GuardSpec => OnlyTheSourceIsKicked`, and its types, `GuardTyping`.
Both rest on the slot found being one of the source (`FoundHoldsIt`), the types also on the
interval being cut at zero (`IntervalIsATime`), whatever the file gives.

### 4.8 Model-checked only

Liveness, which the prover does not handle: `LookupPromise`, `RemovalReturns`,
`CloseReturns`, `ShutdownCompletes`, `BlockedPlayerRemoved`, `StartLineResolved`,
`SummaryFollows`, `OffenderIsRemoved`. Of the refinement of `SingleLookup` the safety
part is proved and the fairness part checked.

The types of `ConnectionTracker` and `Supervisor` are proved as far as the theorems need
them (`Clocks`, `SeenIsChecked`, `TasksFit`): `recency` is built with `SelectSeq`, of which the
provers know nothing. Those of `Announcer` and `ChatLogs` are proved in part, within their
invariants.

## 5. Not modelled

* Event parsing, formatting of lines and log records: text in, text out, no state
  a property is about. A line is a record of its kind, slot and address.
* Configuration loading of the supervisor and the startup scripts: sequential,
  before anything runs concurrently.
* The forwarding of the operator's console to the server and the legacy log
  monitor (off by default).
* The trusted-host filter and the log-only action of the supervisor's RCON guard.
* `providerGate` and the retries of `getJSON`: a request has one outcome in
  `Verdict`. A retry decodes into the target of the attempt before
  (`providers.go:116-175`), which the model does not show.
* The AKA store: names per address behind one mutex, saved as the cache is.
* The live team announcer and its deprecated daemon: a debounce in one thread. Its
  cooldown table is the only state, and every property of it would restate the
  comparison that keeps it.
* Of the chat logs: `latest.log`, the heartbeat and `--status`. Of the announcer: the
  rotation of messages, time zones and a wall clock that is set. Of the live guard:
  its launch and lock, which are those of `AnnouncerWorker`.
* Two races of the supervisor's process: `command.Wait` closes the stdout pipe while the
  scanner may have lines to read (`supervisor.go:308`), and the guard writes to the
  server's stdin from the scanner that drains its stdout (`rconguard.go:190`). Both need
  the kernel's pipes on either side of the game server, which is external.
* The image for JK2MV.

## 6. Plan

Done: the engine, the bus and the addon runner, the tracker and the loop, the verdict,
the publisher, the rotating files; the match announcer, the announcer, the chat logs
and the live guard; theorems for every safety property that a run checks. To come, in
this order:

1. Theorems: the type invariants that are not proved yet.
2. `ProviderClient`: the gate and the retries; does a field of a failed answer
   survive into the verdict? Composes with `Verdict`.
3. An abstract log of which a bounded suffix is kept, for `RotatingFile` to
   implement.
4. `AkaStore`, which shares the tmp and rename protocol of the cache.
5. `LogMonitor`: the second reader of the same lines, next to the scanner.
