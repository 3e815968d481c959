---------------------------- MODULE ChatLogDaemon ----------------------------
(***************************************************************************)
(* 40-chatlogger.py: the launch of a detached worker, its --stop, and the     *)
(* worker, which tails the output of the server.                            *)
(*                                                                         *)
(* No lock is held: a launch reads the PID file, looks whether that process   *)
(* lives, starts a child and records it.  The worker blocks in a read of its  *)
(* tail, so it notices SIGTERM at the next line; stop kills it after 5 s.     *)
(*                                                                         *)
(* A worker is named after its launch.  A pid that another process has got    *)
(* meanwhile is told apart by its command line and counts as a dead worker.   *)
(***************************************************************************)
EXTENDS ChatDirectory, Sequences, FiniteSetsExt

CONSTANT
  Launches    \* bound: the times the script is started

VARIABLES
  launcher,   \* where each launch stands; one that is done at first never happens
  stopper,    \* where --stop stands, and the pid it read
  pidFile,    \* the worker named in PID_PATH
  worker,     \* where each worker stands
  term,       \* _shutdown_requested
  feed,       \* lines its tail has printed and it has not read
  current,    \* current_date of the runtime
  sweep,      \* the cleanup a worker is in
  tidy,       \* history: launches and stops never overlapped, none was killed
  cut         \* history: a compression was interrupted

invocations == <<launcher, stopper, pidFile, tidy>>
runtimes == <<worker, term, feed, current, sweep, cut>>
daemonVars == <<invocations, runtimes>>

NoPid == "none"

ASSUME DaemonAssumption == NoPid \notin Launches

Alive(w) == w \in Launches /\ worker[w] \notin {"none", "gone"}
NoSweep == [stage |-> "none"]

DaemonInit ==
  /\ launcher \in [Launches -> {"idle", "done"}]
  /\ stopper = [at |-> "idle", pid |-> NoPid]
  /\ pidFile = NoPid
  /\ worker = [w \in Launches |-> "none"]
  /\ term = [w \in Launches |-> FALSE]
  /\ feed = [w \in Launches |-> <<>>]
  /\ current = [w \in Launches |-> None]
  /\ sweep = [w \in Launches |-> NoSweep]
  /\ tidy = TRUE /\ cut = FALSE

-----------------------------------------------------------------------------
(* ensure_worker_running.                                                   *)

Underway ==
  (\E l \in Launches : launcher[l] \notin {"idle", "done"}) \/ stopper.at \notin {"idle", "done"}

LauncherAt(l, from, to) == launcher[l] = from /\ launcher' = [launcher EXCEPT ![l] = to]

\* Faulty: a record in the PID file is not looked into.
EnsureWorkerRunningBlindly(l) ==
  /\ LauncherAt(l, "idle", IF pidFile # NoPid THEN "unlink" ELSE "spawn")
  /\ tidy' = (tidy /\ ~Underway)
  /\ UNCHANGED <<stopper, pidFile, runtimes>>

\* The worker in the PID file runs, or its record is stale.
EnsureWorkerRunning(l) ==
  /\ LauncherAt(l, "idle", IF Alive(pidFile) THEN "done"
                           ELSE IF pidFile # NoPid THEN "unlink" ELSE "spawn")
  /\ tidy' = (tidy /\ ~Underway)
  /\ UNCHANGED <<stopper, pidFile, runtimes>>

UnlinkStale(l) ==
  /\ LauncherAt(l, "unlink", "spawn")
  /\ pidFile' = NoPid
  /\ UNCHANGED <<stopper, tidy, runtimes>>

Spawn(l) ==
  /\ LauncherAt(l, "spawn", "record")
  /\ worker' = [worker EXCEPT ![l] = "starting"]
  /\ UNCHANGED <<stopper, pidFile, tidy, term, feed, current, sweep, cut>>

WritePidRecord(l) ==
  /\ LauncherAt(l, "record", "done")
  /\ pidFile' = l
  /\ UNCHANGED <<stopper, tidy, runtimes>>

\* A launch is killed, or an OSError ends it.
LaunchDies(l) ==
  /\ launcher[l] \in {"unlink", "spawn", "record"}
  /\ launcher' = [launcher EXCEPT ![l] = "done"]
  /\ tidy' = FALSE
  /\ UNCHANGED <<stopper, pidFile, runtimes>>

-----------------------------------------------------------------------------
(* stop_worker.                                                             *)

StopAt(where) == stopper' = [stopper EXCEPT !.at = where]

\* The worker in the PID file runs, or a stale record is removed.
StopWorker ==
  /\ stopper.at = "idle"
  /\ stopper' = [at |-> IF pidFile = NoPid THEN "done"
                        ELSE IF Alive(pidFile) THEN "signal" ELSE "unlink", pid |-> pidFile]
  /\ tidy' = (tidy /\ ~Underway)
  /\ UNCHANGED <<launcher, pidFile, runtimes>>

\* SIGTERM.  When the worker has ended since, os.kill raises and stop returns,
\* the record still in place.
StopSignals ==
  /\ stopper.at = "signal"
  /\ StopAt(IF Alive(stopper.pid) THEN "waiting" ELSE "done")
  /\ term' = IF Alive(stopper.pid) THEN [term EXCEPT ![stopper.pid] = TRUE] ELSE term
  /\ UNCHANGED <<launcher, pidFile, tidy, worker, feed, current, sweep, cut>>

\* What a worker leaves behind when it is gone.
Buried(w) ==
  /\ worker' = [worker EXCEPT ![w] = "gone"]
  /\ term' = [term EXCEPT ![w] = FALSE]
  /\ feed' = [feed EXCEPT ![w] = <<>>]
  /\ current' = [current EXCEPT ![w] = None]
  /\ sweep' = [sweep EXCEPT ![w] = NoSweep]
  /\ cut' = (cut \/ sweep[w].stage = "gzip")

\* Faulty: stop returns when its time is up.
StopEscalatesNot ==
  /\ stopper.at = "waiting" /\ Alive(stopper.pid)
  /\ StopAt("unlink")
  /\ UNCHANGED <<launcher, pidFile, tidy, runtimes>>

\* The deadline is over: SIGKILL.
StopEscalates ==
  /\ stopper.at = "waiting" /\ Alive(stopper.pid)
  /\ StopAt("unlink")
  /\ Buried(stopper.pid)
  /\ UNCHANGED <<launcher, pidFile, tidy>>

StopSeesItGone ==
  /\ stopper.at = "waiting" /\ ~Alive(stopper.pid)
  /\ StopAt("unlink")
  /\ UNCHANGED <<launcher, pidFile, tidy, runtimes>>

\* Whatever the file holds by now.
StopUnlinks ==
  /\ stopper.at = "unlink"
  /\ StopAt("done")
  /\ pidFile' = NoPid
  /\ UNCHANGED <<launcher, tidy, runtimes>>

StopStep == StopSignals \/ StopEscalates \/ StopSeesItGone \/ StopUnlinks

-----------------------------------------------------------------------------
(* cleanup_old_logs, one file after the other.  An unlink that fails leaves  *)
(* the file to the next cleanup, and is left out.                           *)

WorkerAt(w, from, to) == worker[w] = from /\ worker' = [worker EXCEPT ![w] = to]

\* The plain logs are listed, and the cutoffs computed, once.  A log that neither
\* cutoff reaches is passed over; nothing says which of the two is the earlier.
SweepFrom(then) ==
  [stage |-> "next",
   todo |-> {d \in DOMAIN plain : d < day - KeepTotal \/ d < day - KeepPlain},
   asOf |-> day, then |-> then, entries |-> {}]

File(w) == Min(sweep[w].todo)
Ancient(w) == File(w) < sweep[w].asOf - KeepTotal
Sweeping(w, stage) == worker[w] = "sweeping" /\ sweep[w].stage = stage
NextFile(w) == sweep' = [sweep EXCEPT ![w].stage = "next", ![w].todo = @ \ {File(w)},
                                      ![w].entries = {}]

\* A log past its time, or with an archive, is removed.
SweepRemoves(w) ==
  /\ Sweeping(w, "next") /\ sweep[w].todo # {}
  /\ Ancient(w) \/ File(w) \in DOMAIN archive
  /\ plain' = Without(plain, {File(w)})
  /\ NextFile(w)
  /\ UNCHANGED <<archive, logged, worker, term, feed, current, cut>>

\* Another worker has removed it, or it cannot be opened.
SweepPasses(w) ==
  /\ Sweeping(w, "next") /\ sweep[w].todo # {}
  /\ ~Ancient(w) /\ File(w) \notin DOMAIN archive
  /\ NextFile(w)
  /\ UNCHANGED <<directory, worker, term, feed, current, cut>>

\* gzip.open truncates the archive, which is not complete until it is closed.
GzipOpens(w) ==
  /\ Sweeping(w, "next") /\ sweep[w].todo # {}
  /\ ~Ancient(w)
  /\ File(w) \in DOMAIN plain /\ File(w) \notin DOMAIN archive
  /\ archive' = With(archive, File(w), {})
  /\ sweep' = [sweep EXCEPT ![w].stage = "gzip", ![w].entries = plain[File(w)]]
  /\ UNCHANGED <<plain, logged, worker, term, feed, current, cut>>

\* Faulty: the log is removed while it is compressed.
GzipClosesLate(w) ==
  /\ Sweeping(w, "gzip")
  /\ plain' = Without(plain, {File(w)})
  /\ sweep' = [sweep EXCEPT ![w].stage = "unlink"]
  /\ UNCHANGED <<archive, logged, worker, term, feed, current, cut>>

\* An archive that was unlinked meanwhile stays so.
GzipCloses(w) ==
  /\ Sweeping(w, "gzip")
  /\ archive' = IF File(w) \in DOMAIN archive THEN With(archive, File(w), sweep[w].entries)
                ELSE archive
  /\ sweep' = [sweep EXCEPT ![w].stage = "unlink"]
  /\ UNCHANGED <<plain, logged, worker, term, feed, current, cut>>

\* An OSError: the partial archive stays.
GzipFails(w) ==
  /\ Sweeping(w, "gzip")
  /\ NextFile(w)
  /\ cut' = TRUE
  /\ UNCHANGED <<directory, worker, term, feed, current>>

GzipUnlinks(w) ==
  /\ Sweeping(w, "unlink")
  /\ plain' = Without(plain, {File(w)})
  /\ NextFile(w)
  /\ UNCHANGED <<archive, logged, worker, term, feed, current, cut>>

\* The second loop, over the archives.
SweepEnds(w) ==
  /\ Sweeping(w, "next") /\ sweep[w].todo = {}
  /\ archive' = Without(archive, {d \in DOMAIN archive : d < sweep[w].asOf - KeepTotal})
  /\ worker' = [worker EXCEPT ![w] = sweep[w].then]
  /\ sweep' = [sweep EXCEPT ![w] = NoSweep]
  /\ UNCHANGED <<plain, logged, term, feed, current, cut>>

SweepStep(w) ==
  \/ SweepRemoves(w) \/ SweepPasses(w) \/ GzipOpens(w) \/ GzipCloses(w)
  \/ GzipFails(w) \/ GzipUnlinks(w) \/ SweepEnds(w)

-----------------------------------------------------------------------------
(* worker_loop.                                                             *)

\* parse_chat_line, with the fallback for verbs it does not know.
ParseChatLine(verb) == verb \in {"say", "team", "tell", "admin"}

BeginWork(w) ==
  /\ WorkerAt(w, "starting", "sweeping")
  /\ current' = [current EXCEPT ![w] = day]
  /\ sweep' = [sweep EXCEPT ![w] = SweepFrom("top")]
  /\ UNCHANGED <<directory, term, feed, cut>>

\* The tail of the preferred source starts at its end.  A source that is not
\* there, or a tail that does not start, is tried again.
StartTail(w) ==
  /\ WorkerAt(w, "top", "reading")
  /\ ~term[w]
  /\ UNCHANGED <<directory, term, feed, current, sweep, cut>>

\* maybe_roll_date and open_today.  The day was taken before the cleanup, and
\* nothing spans midnight here.
ReadLine(w) ==
  /\ worker[w] = "reading" /\ feed[w] # <<>> /\ ~term[w]
  /\ IF ~ParseChatLine(Head(feed[w]).verb)
     THEN /\ feed' = [feed EXCEPT ![w] = Tail(@)]
          /\ UNCHANGED <<worker, current, sweep>>
     ELSE IF day # current[w]
     THEN /\ worker' = [worker EXCEPT ![w] = "sweeping"]
          /\ sweep' = [sweep EXCEPT ![w] = SweepFrom("writing")]
          /\ current' = [current EXCEPT ![w] = day]
          /\ UNCHANGED feed
     ELSE /\ worker' = [worker EXCEPT ![w] = "writing"]
          /\ UNCHANGED <<feed, current, sweep>>
  /\ UNCHANGED <<directory, term, cut>>

WriteChat(w) ==
  /\ WorkerAt(w, "writing", "reading")
  /\ Log(day, [line |-> Head(feed[w]).line, seen |-> w, day |-> day])
  /\ feed' = [feed EXCEPT ![w] = Tail(@)]
  /\ UNCHANGED <<archive, term, current, sweep, cut>>

\* The exception is logged and the line lost.
WriteChatFails(w) ==
  /\ WorkerAt(w, "writing", "reading")
  /\ feed' = [feed EXCEPT ![w] = Tail(@)]
  /\ UNCHANGED <<directory, term, current, sweep, cut>>

\* After a line, once an hour.
MaybePeriodicCleanup(w) ==
  /\ WorkerAt(w, "reading", "sweeping")
  /\ lines > 0
  /\ sweep' = [sweep EXCEPT ![w] = SweepFrom("reading")]
  /\ UNCHANGED <<directory, term, feed, current, cut>>

\* tail has exited and everything it printed has been read.
TailExits(w) ==
  /\ WorkerAt(w, "reading", "top")
  /\ feed[w] = <<>>
  /\ UNCHANGED <<directory, term, feed, current, sweep, cut>>

\* The signal is noticed between two tails, or at a line, which is not used.
ShutDown(w) ==
  /\ term[w]
  /\ worker[w] = "top" \/ (worker[w] = "reading" /\ feed[w] # <<>>)
  /\ Buried(w)
  /\ UNCHANGED directory

WorkerKilled(w) ==
  /\ Alive(w)
  /\ Buried(w)
  /\ UNCHANGED directory

WorkerStep(w) ==
  \/ BeginWork(w) \/ StartTail(w) \/ ReadLine(w) \/ WriteChat(w) \/ WriteChatFails(w)
  \/ MaybePeriodicCleanup(w) \/ TailExits(w) \/ ShutDown(w) \/ SweepStep(w)

=============================================================================
