------------------------------- MODULE ChatLogs -------------------------------
(***************************************************************************)
(* The chat logs with both of their writers: the addon, and the daemon that    *)
(* may still be started by hand or be left from before an upgrade.           *)
(***************************************************************************)
EXTENDS ChatLogger, ChatLogDaemon

CONSTANT
  LaunchesBeside   \* bound: launches of the daemon where the addon is enabled

\* An entry tells which of the two wrote it.
ASSUME WritersAssumption == Launches \intersect Kinds = {}

vars == <<day, lines, directory, addonVars, daemonVars>>

Init ==
  /\ DirectoryInit /\ AddonInit /\ DaemonInit
  /\ addon = "off" => Cardinality({l \in Launches : launcher[l] = "idle"}) <= LaunchesBeside

-----------------------------------------------------------------------------

\* The game prints a line: events for an addon that runs, less those the bus
\* drops, and a line for every tail.
GamePrints(verb) ==
  /\ lines < MaxLines
  /\ lines' = lines + 1
  /\ \E kept \in SUBSET EventsOf(lines + 1, verb) :
       bus' = IF addon \in {"off", "disabled"} THEN bus ELSE bus \union kept
  /\ feed' = [w \in Launches |-> IF worker[w] # "reading" THEN feed[w]
                                 ELSE Append(feed[w], [line |-> lines + 1, verb |-> verb])]
  /\ UNCHANGED <<day, directory, addon, hand, openDay, lastCleanup, invocations,
                 worker, term, current, sweep, cut>>

\* An event reaches the addon before the next midnight but one, and a worker
\* that has begun to handle a line ends before midnight.
Midnight ==
  /\ day < MaxDay
  /\ \A e \in bus : e.day = day
  /\ addon \in {"disabled", "off", "ready"}
  /\ \A w \in Launches : worker[w] \in {"none", "starting", "top", "reading", "gone"}
  /\ day' = day + 1
  /\ UNCHANGED <<lines, directory, addonVars, daemonVars>>

Next ==
  \/ Midnight
  \/ \E verb \in Verbs : GamePrints(verb)
  \/ AddonStep /\ UNCHANGED daemonVars
  \/ /\ UNCHANGED <<day, lines, addonVars>>
     /\ \/ StopWorker /\ UNCHANGED directory
        \/ StopStep /\ UNCHANGED directory
        \/ \E l \in Launches :
             \/ EnsureWorkerRunning(l) /\ UNCHANGED directory
             \/ UnlinkStale(l) /\ UNCHANGED directory
             \/ Spawn(l) /\ UNCHANGED directory
             \/ WritePidRecord(l) /\ UNCHANGED directory
             \/ LaunchDies(l) /\ UNCHANGED directory
             \/ WorkerStep(l) /\ UNCHANGED invocations
             \/ WorkerKilled(l) /\ UNCHANGED invocations

Spec == Init /\ [][Next]_vars

-----------------------------------------------------------------------------
(* Properties.                                                              *)

\* Whichever of the two writes and whichever cleans up, in whatever order events
\* cross midnight: what was logged in the last KEEP_PLAIN_DAYS is in the plain
\* log of its day, unless it is older than KEEP_TOTAL_DAYS, which may be the
\* shorter time and which the daemon tests first.
RecentKept ==
  \A e \in logged : e.day > day - KeepPlain /\ e.day >= day - KeepTotal =>
    e.day \in DOMAIN plain /\ e \in plain[e.day]

\* Without the addon, whose cleanup does not know of archives, and as long as no
\* compression was interrupted, an entry is in the log or in the archive of its
\* day for KEEP_TOTAL_DAYS, or a worker holds it that is compressing the log, how
\* ever many workers clean up at once.
ArchiveKept ==
  ~cut /\ (\A e \in logged : e.seen \in Launches) =>
    \A e \in logged : e.day >= day - KeepTotal =>
      \/ e.day \in DOMAIN plain /\ e \in plain[e.day]
      \/ e.day \in DOMAIN archive /\ e \in archive[e.day]
      \/ \E w \in Launches : sweep[w].stage = "gzip" /\ e \in sweep[w].entries

Workers == {w \in Launches : Alive(w)}

\* As long as launches and stops do not overlap, there is one worker at most,
\* between them it is in the PID file, so that the next one finds it.
OneWorker ==
  tidy => /\ Cardinality(Workers) <= 1
          /\ ~Underway => Workers \subseteq {pidFile}

\* When --stop returns, the worker it found is gone, although a worker without
\* lines to read never notices the signal.
StoppedIsGone ==
  stopper.at \in {"unlink", "done"} => ~Alive(stopper.pid)

=============================================================================
