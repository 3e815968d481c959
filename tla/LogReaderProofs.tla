---------------------------- MODULE LogReaderProofs ----------------------------
(***************************************************************************)
(* The addons that follow the server's log: RecentKept, ArchiveKept,         *)
(* StoppedIsGone and OneWorker proved of ChatLogs, for any launches,         *)
(* retention times and number of days and lines, and OnlyTheSourceIsKicked   *)
(* of RconLiveGuard, for any slots, addresses, files, runtimes and lines.    *)
(*                                                                          *)
(* DirInv is about the plain logs: who cleans up goes by a day that is not   *)
(* in the future.  ProcInv is about launches and stops: what the PID file    *)
(* says of the workers at each point of one that has the directory to        *)
(* itself.  ArchInv adds the archives: where the entries of a day are while  *)
(* workers open, fill and close its archive and remove its log (SafeDay).    *)
(* That of the guard: while a kick is on its way, the slot it names holds    *)
(* the source of the attempt, or has changed hands (SlotHoldsSource).        *)
(***************************************************************************)
EXTENDS ChatLogs, RconLiveGuard, WellFoundedInduction, FiniteSetTheorems, TLAPS

\* A set of naturals that is not empty has a least element, and Min is it.
LEMMA MinOfNaturals ==
  ASSUME NEW S, S \subseteq Nat, S # {}
  PROVE  Min(S) \in S /\ \A y \in S : Min(S) <= y
<1> DEFINE R == OpToRel(<, Nat)
<1>1. PICK x \in S : \A y \in S : <<y, x>> \notin R
  <2>1. IsWellFoundedOn(R, Nat)
    BY NatLessThanWellFounded
  <2> HIDE DEF R
  <2> QED
    BY <2>1, WFMin
<1>2. ASSUME NEW y \in S PROVE x <= y
  <2>1. x \in Nat /\ y \in Nat
    BY <1>1
  <2>2. y < x => <<y, x>> \in R
    BY <2>1 DEF OpToRel
  <2> QED
    <3> HIDE DEF R
    <3> QED
      BY <1>1, <2>1, <2>2
<1> QED
  BY <1>2 DEF Min

-----------------------------------------------------------------------------
(* The chat logs.                                                           *)

Days == 0 .. day

\* Events are of the past.
EventDays ==
  /\ \A e \in bus : e.day \in Days
  /\ addon \in {"writing", "cleanup"} => hand.day \in Days
  /\ addon = "writing" => openDay = hand.day

\* What is before one of the cutoffs of the daemon.
Old(d) == d < day - KeepPlain \/ d < day - KeepTotal

\* What a worker is about to remove is old, and was when the list was made.
OldOnly(s) ==
  /\ {"stage", "todo", "entries"} \subseteq DOMAIN s
  /\ \A d \in s.todo : d \in Nat /\ Old(d)
  /\ s.stage \in {"gzip", "unlink"} => s.todo # {}

Sweeps ==
  /\ DOMAIN sweep = Launches
  /\ \A w \in Launches : sweep[w] = NoSweep \/ OldOnly(sweep[w])

DirInv ==
  /\ day \in Nat
  /\ \A e \in logged : e.day \in Nat
  /\ DOMAIN plain \subseteq Nat
  /\ EventDays
  /\ Sweeps
  /\ RecentKept

-----------------------------------------------------------------------------
(* The files.                                                               *)

\* Appending to a log keeps the others and what was in it.
LEMMA LogFacts ==
  ASSUME NEW d \in Nat, NEW entry, Log(d, entry), DOMAIN plain \subseteq Nat
  PROVE  /\ DOMAIN plain' \subseteq Nat
         /\ logged' = logged \union {entry}
         /\ d \in DOMAIN plain' /\ entry \in plain'[d]
         /\ \A x \in DOMAIN plain : x \in DOMAIN plain' /\ plain[x] \subseteq plain'[x]
BY DEF Log, With, Opened

\* So does opening one.
LEMMA OpenedFacts ==
  ASSUME NEW d \in Nat, DOMAIN plain \subseteq Nat
  PROVE  /\ DOMAIN Opened(plain, d) \subseteq Nat
         /\ \A x \in DOMAIN plain : x \in DOMAIN Opened(plain, d) /\ Opened(plain, d)[x] = plain[x]
BY DEF Opened, With

\* Removing logs keeps the others.
LEMMA WithoutFacts ==
  ASSUME NEW gone, DOMAIN plain \subseteq Nat
  PROVE  /\ DOMAIN Without(plain, gone) \subseteq Nat
         /\ \A x \in DOMAIN plain \ gone : x \in DOMAIN Without(plain, gone) /\ Without(plain, gone)[x] = plain[x]
BY DEF Without, Restrict

\* The file at hand is one of the list.
LEMMA FileIsOld ==
  ASSUME NEW w \in Launches, OldOnly(sweep[w]), sweep[w].todo # {}
  PROVE  File(w) \in Nat /\ Old(File(w))
<1>1. sweep[w].todo \subseteq Nat
  BY DEF OldOnly, Old
<1>2. File(w) \in sweep[w].todo
  BY <1>1, MinOfNaturals DEF File
<1> QED
  BY <1>2 DEF OldOnly, Old

\* A worker that goes on to the next file has an old list still.
LEMMA NextFileFacts ==
  ASSUME DirInv, NEW w \in Launches, OldOnly(sweep[w]), NextFile(w), day' = day
  PROVE  Sweeps'
<1>1. DOMAIN sweep' = Launches /\ \A k \in Launches \ {w} : sweep'[k] = sweep[k]
  BY DEF NextFile, DirInv, Sweeps
<1>2. /\ {"stage", "todo", "entries"} \subseteq DOMAIN sweep'[w]
      /\ sweep'[w].todo \subseteq sweep[w].todo /\ sweep'[w].stage = "next"
  BY DEF NextFile, DirInv, Sweeps, OldOnly, Old
<1> QED
  BY <1>1, <1>2 DEF DirInv, Sweeps, OldOnly, Old

\* The removal of one old log.
LEMMA RemovalKeeps ==
  ASSUME DirInv, NEW w \in Launches, OldOnly(sweep[w]), sweep[w].todo # {},
         plain' = Without(plain, {File(w)}), NextFile(w),
         UNCHANGED <<day, addonVars, logged>>
  PROVE  DirInv'
<1>1. File(w) \in Nat /\ Old(File(w))
  BY FileIsOld
<1>2. /\ DOMAIN plain' \subseteq Nat
      /\ \A x \in DOMAIN plain \ {File(w)} : x \in DOMAIN plain' /\ plain'[x] = plain[x]
  BY WithoutFacts DEF DirInv
<1>3. RecentKept'
  <2>1. ASSUME NEW e \in logged, e.day > day - KeepPlain, e.day >= day - KeepTotal
        PROVE  e.day \in DOMAIN plain' /\ e \in plain'[e.day]
    <3>1. e.day \in DOMAIN plain /\ e \in plain[e.day] /\ e.day \in Nat
      BY <2>1 DEF DirInv, RecentKept
    <3>2. e.day # File(w)
      BY <1>1, <2>1, <3>1, ChatAssumption DEF DirInv, Old
    <3> QED
      BY <1>2, <3>1, <3>2
  <2> QED
    BY <2>1 DEF RecentKept
<1>4. Sweeps'
  BY NextFileFacts
<1> QED
  BY <1>2, <1>3, <1>4 DEF DirInv, EventDays, Days, addonVars

-----------------------------------------------------------------------------
(* The addon.                                                               *)

\* The addon writes an event to the log of its day and cleans up by that day.
LEMMA AddonKeeps ==
  ASSUME DirInv, AddonStep, UNCHANGED daemonVars
  PROVE  DirInv'
<1> USE DEF DirInv
<1>0. day' = day /\ sweep' = sweep
  BY DEF AddonStep, StartAddon, SkipEvent, MaybeRoll, WriteEntry, CleanupOldLogs, AddonEnds,
         daemonVars, runtimes
<1>1. Sweeps'
  BY <1>0 DEF Sweeps, OldOnly, Old
<1>2. CASE StartAddon \/ AddonEnds \/ (\E e \in bus : SkipEvent(e))
  BY <1>0, <1>1, <1>2 DEF StartAddon, AddonEnds, SkipEvent, EventDays, Days, RecentKept, directory
<1>3. ASSUME NEW e \in bus, MaybeRoll(e) PROVE DirInv'
  <2>1. e.day \in Days /\ e.day \in Nat
    BY DEF EventDays, Days
  <2>2. EventDays'
    BY <1>0, <1>3, <2>1 DEF MaybeRoll, EventDays, Days
  <2>3. plain' \in {plain, Opened(plain, e.day)} /\ logged' = logged
    BY <1>3 DEF MaybeRoll
  <2>4. /\ DOMAIN plain' \subseteq Nat
        /\ \A x \in DOMAIN plain : x \in DOMAIN plain' /\ plain'[x] = plain[x]
    BY <2>1, <2>3, OpenedFacts
  <2>5. RecentKept'
    BY <1>0, <1>3, <2>4 DEF RecentKept, MaybeRoll
  <2> QED
    BY <1>0, <1>1, <2>2, <2>3, <2>4, <2>5
<1>4. CASE WriteEntry
  <2> DEFINE entry == [line |-> hand.line, seen |-> hand.kind, day |-> hand.day]
  <2>1. openDay \in Nat /\ hand.day = openDay /\ Log(openDay, entry)
    BY <1>4 DEF WriteEntry, EventDays, Days
  <2>2. EventDays'
    BY <1>0, <1>4 DEF WriteEntry, EventDays, Days
  <2>3. entry.day = openDay
    BY <2>1
  <2> HIDE DEF entry
  <2>4. RecentKept' /\ DOMAIN plain' \subseteq Nat /\ \A e \in logged' : e.day \in Nat
    BY <1>0, <2>1, <2>3, LogFacts DEF RecentKept
  <2> QED
    BY <1>0, <1>1, <2>2, <2>4
<1>5. CASE CleanupOldLogs
  <2>1. hand.day \in Days /\ plain' = Without(plain, Expired(hand.day)) /\ logged' = logged
    BY <1>5 DEF CleanupOldLogs, EventDays
  <2>2. /\ DOMAIN plain' \subseteq Nat
        /\ \A x \in DOMAIN plain \ Expired(hand.day) : x \in DOMAIN plain' /\ plain'[x] = plain[x]
    BY <2>1, WithoutFacts
  <2>3. RecentKept'
    BY <1>0, <2>1, <2>2, ChatAssumption DEF RecentKept, Expired, Days
  <2>4. EventDays'
    BY <1>0, <1>5 DEF CleanupOldLogs, EventDays, Days
  <2> QED
    BY <1>0, <1>1, <2>1, <2>2, <2>3, <2>4
<1> QED
  BY <1>2, <1>3, <1>4, <1>5 DEF AddonStep

-----------------------------------------------------------------------------
(* The workers.                                                             *)

\* A list that is made now is of old logs.
LEMMA SweepFromFacts ==
  ASSUME DirInv, NEW then
  PROVE  OldOnly(SweepFrom(then))
<1>1. /\ SweepFrom(then).todo = {d \in DOMAIN plain : Old(d)}
      /\ SweepFrom(then).stage = "next"
      /\ {"stage", "todo", "entries"} \subseteq DOMAIN SweepFrom(then)
  BY DEF SweepFrom, Old
<1> QED
  BY <1>1 DEF OldOnly, Old, DirInv

\* A worker keeps the invariant with everything it does to the directory.
LEMMA WorkerKeeps ==
  ASSUME DirInv, NEW w \in Launches, WorkerStep(w) \/ WorkerKilled(w),
         UNCHANGED <<day, lines, addonVars>>
  PROVE  DirInv'
<1> USE DEF DirInv
<1>1. CASE directory' = directory /\ sweep' = [sweep EXCEPT ![w] = NoSweep]
  BY <1>1 DEF Sweeps, OldOnly, Old, EventDays, Days, RecentKept, directory, addonVars
<1>2. ASSUME NEW then, directory' = directory, sweep' = [sweep EXCEPT ![w] = SweepFrom(then)]
      PROVE  DirInv'
  <2>1. Sweeps'
    BY <1>2, SweepFromFacts DEF Sweeps, OldOnly, Old
  <2> QED
    BY <1>2, <2>1 DEF EventDays, Days, RecentKept, directory, addonVars
<1>3. CASE directory' = directory /\ sweep' = sweep
  BY <1>3 DEF Sweeps, OldOnly, Old, EventDays, Days, RecentKept, directory, addonVars
<1>4. CASE BeginWork(w) \/ MaybePeriodicCleanup(w) \/ ReadLine(w)
  BY <1>2, <1>3, <1>4 DEF BeginWork, MaybePeriodicCleanup, ReadLine
<1>5. CASE StartTail(w) \/ WriteChatFails(w) \/ TailExits(w)
  BY <1>3, <1>5 DEF StartTail, WriteChatFails, TailExits
<1>6. CASE ShutDown(w) \/ WorkerKilled(w)
  BY <1>1, <1>6 DEF ShutDown, WorkerKilled, Buried
<1>7. CASE WriteChat(w)
  <2> DEFINE entry == [line |-> Head(feed[w]).line, seen |-> w, day |-> day]
  <2>1. Log(day, entry) /\ sweep' = sweep /\ entry.day = day
    BY <1>7 DEF WriteChat
  <2> HIDE DEF entry
  <2>2. RecentKept' /\ DOMAIN plain' \subseteq Nat /\ \A e \in logged' : e.day \in Nat
    BY <2>1, LogFacts DEF RecentKept
  <2> QED
    BY <2>1, <2>2 DEF Sweeps, OldOnly, Old, EventDays, Days, addonVars
<1>8. ASSUME NEW stage, Sweeping(w, stage), stage # "none" PROVE OldOnly(sweep[w])
  <2>1. NoSweep.stage = "none"
    BY DEF NoSweep
  <2> QED
    BY <1>8, <2>1 DEF Sweeping, Sweeps
<1>9. CASE SweepRemoves(w) \/ GzipUnlinks(w)
  <2>1. OldOnly(sweep[w])
    BY <1>8, <1>9 DEF SweepRemoves, GzipUnlinks
  <2>2. sweep[w].todo # {}
    BY <1>9, <2>1 DEF SweepRemoves, GzipUnlinks, Sweeping, OldOnly, Old
  <2> QED
    BY <1>9, <2>1, <2>2, RemovalKeeps DEF SweepRemoves, GzipUnlinks
<1>10. CASE SweepPasses(w) \/ GzipFails(w)
  <2>1. OldOnly(sweep[w]) /\ NextFile(w) /\ directory' = directory
    BY <1>8, <1>10 DEF SweepPasses, GzipFails
  <2>2. Sweeps'
    BY <2>1, NextFileFacts
  <2> QED
    BY <2>1, <2>2 DEF EventDays, Days, RecentKept, directory, addonVars
<1>11. CASE GzipOpens(w) \/ GzipCloses(w)
  <2>1. OldOnly(sweep[w]) /\ sweep[w].todo # {} /\ UNCHANGED <<plain, logged>>
    BY <1>8, <1>11 DEF GzipOpens, GzipCloses, Sweeping, OldOnly, Old
  <2>2. /\ DOMAIN sweep' = Launches /\ \A k \in Launches \ {w} : sweep'[k] = sweep[k]
        /\ {"stage", "todo", "entries"} \subseteq DOMAIN sweep'[w]
        /\ sweep'[w].todo = sweep[w].todo
    BY <1>11, <2>1 DEF GzipOpens, GzipCloses, Sweeps, OldOnly, Old
  <2>3. Sweeps'
    BY <2>1, <2>2 DEF Sweeps, OldOnly, Old
  <2> QED
    BY <2>1, <2>3 DEF EventDays, Days, RecentKept, addonVars
<1>12. CASE SweepEnds(w)
  <2>1. sweep' = [sweep EXCEPT ![w] = NoSweep] /\ UNCHANGED <<plain, logged>>
    BY <1>12 DEF SweepEnds
  <2> QED
    BY <2>1 DEF Sweeps, OldOnly, Old, EventDays, Days, RecentKept, addonVars
<1> QED
  BY <1>4, <1>5, <1>6, <1>7, <1>9, <1>10, <1>11, <1>12 DEF WorkerStep, SweepStep

-----------------------------------------------------------------------------
(* Recent entries stay.                                                     *)

\* An empty directory, and no event yet.
LEMMA DirInitially == Init => DirInv
<1> SUFFICES ASSUME Init PROVE DirInv
  OBVIOUS
<1>1. day = 0 /\ plain = NoFiles /\ logged = {} /\ bus = {} /\ addon \in {"off", "disabled"}
  BY DEF Init, DirectoryInit, AddonInit
<1>2. sweep = [w \in Launches |-> NoSweep]
  BY DEF Init, DaemonInit
<1> QED
  BY <1>1, <1>2 DEF DirInv, EventDays, Sweeps, RecentKept, NoFiles

\* Every step keeps recent entries where they are.
LEMMA DirInductive == DirInv /\ [Next]_vars => DirInv'
<1> SUFFICES ASSUME DirInv, [Next]_vars PROVE DirInv'
  OBVIOUS
<1>1. CASE Midnight
  <2>1. day' = day + 1 /\ UNCHANGED <<directory, addonVars, sweep>> /\ day \in Nat
    BY <1>1 DEF Midnight, daemonVars, runtimes, DirInv
  <2>2. EventDays'
    BY <2>1 DEF DirInv, EventDays, Days, addonVars
  <2>3. Sweeps'
    BY <2>1, ChatAssumption DEF DirInv, Sweeps, OldOnly, Old
  <2>4. RecentKept'
    <3>1. \A e \in logged : /\ e.day > day' - KeepPlain => e.day > day - KeepPlain
                            /\ e.day >= day' - KeepTotal => e.day >= day - KeepTotal
      BY <2>1, ChatAssumption DEF DirInv
    <3>2. logged' = logged /\ plain' = plain
      BY <2>1 DEF directory
    <3> QED
      BY <3>1, <3>2 DEF DirInv, RecentKept
  <2> QED
    BY <2>1, <2>2, <2>3, <2>4 DEF DirInv, directory
<1>2. ASSUME NEW verb \in Verbs, GamePrints(verb) PROVE DirInv'
  <2>1. UNCHANGED <<day, directory, addon, hand, openDay, sweep>>
    BY <1>2 DEF GamePrints
  <2>2. PICK kept \in SUBSET EventsOf(lines + 1, verb) : bus' \in {bus, bus \union kept}
    BY <1>2 DEF GamePrints
  <2>3. \A e \in kept : e.day = day
    BY DEF EventsOf
  <2>4. EventDays'
    BY <2>1, <2>2, <2>3 DEF DirInv, EventDays, Days
  <2> QED
    BY <2>1, <2>4 DEF DirInv, Sweeps, OldOnly, Old, RecentKept, directory
<1>3. CASE AddonStep /\ UNCHANGED daemonVars
  BY <1>3, AddonKeeps
<1>4. CASE UNCHANGED <<day, lines, addonVars>> /\ UNCHANGED directory
           /\ (StopWorker \/ StopStep \/ \E l \in Launches :
                 EnsureWorkerRunning(l) \/ UnlinkStale(l) \/ Spawn(l) \/ WritePidRecord(l) \/ LaunchDies(l))
  <2>1. \A w \in Launches : sweep'[w] \in {sweep[w], NoSweep}
    BY <1>4 DEF DirInv, Sweeps, StopWorker, StopStep, StopSignals, StopEscalates, StopSeesItGone, StopUnlinks, Buried,
         EnsureWorkerRunning, UnlinkStale, Spawn, WritePidRecord, LaunchDies, runtimes
  <2>2. DOMAIN sweep' = Launches
    BY <1>4 DEF DirInv, Sweeps, StopWorker, StopStep, StopSignals, StopEscalates, StopSeesItGone, StopUnlinks, Buried,
         EnsureWorkerRunning, UnlinkStale, Spawn, WritePidRecord, LaunchDies, runtimes
  <2> QED
    BY <1>4, <2>1, <2>2 DEF DirInv, Sweeps, OldOnly, Old, EventDays, Days, RecentKept, directory, addonVars
<1>5. ASSUME UNCHANGED <<day, lines, addonVars>>, NEW w \in Launches, WorkerStep(w) \/ WorkerKilled(w)
      PROVE  DirInv'
  BY <1>5, WorkerKeeps
<1>6. CASE UNCHANGED vars
  BY <1>6 DEF vars, directory, addonVars, daemonVars, runtimes, DirInv, Sweeps, OldOnly, Old, EventDays,
       Days, RecentKept
<1> QED
  BY <1>1, <1>2, <1>3, <1>4, <1>5, <1>6 DEF Next

\* Whichever of the two programs writes and cleans up, however late the events
\* of a day arrive: the plain logs of the last KEEP_PLAIN_DAYS are complete.
THEOREM RecentEntriesStay == Spec => []RecentKept
<1>1. DirInv => RecentKept
  BY DEF DirInv
<1> QED
  BY <1>1, DirInitially, DirInductive, PTL DEF Spec

-----------------------------------------------------------------------------
(* Launches, stops and workers.                                             *)

LaunchTypes ==
  /\ launcher \in [Launches -> {"idle", "done", "unlink", "spawn", "record"}]
  /\ stopper \in [at : {"idle", "signal", "waiting", "unlink", "done"}, pid : Launches \union {NoPid}]
  /\ pidFile \in Launches \union {NoPid}
  /\ DOMAIN worker = Launches
  /\ tidy \in BOOLEAN

\* A worker is not there, and nobody knows its pid, before it is started.
NotYet ==
  \A l \in Launches : launcher[l] \in {"idle", "unlink", "spawn"} =>
    worker[l] = "none" /\ pidFile # l /\ stopper.pid # l

Launching(l) == launcher[l] \notin {"idle", "done"}

Stopping == stopper.at \notin {"idle", "done"}

\* Invocations that do not overlap: one of them at most is under way.
Alone ==
  /\ \A l, k \in Launches : Launching(l) /\ Launching(k) => l = k
  /\ Stopping => \A l \in Launches : ~Launching(l)

\* What the one that is under way knows of the workers.
Known ==
  /\ \A l \in Launches : launcher[l] \in {"unlink", "spawn"} => Workers = {}
  /\ \A l \in Launches : launcher[l] = "record" => Workers \subseteq {l}
  /\ stopper.at = "unlink" => Workers = {}
  /\ stopper.at \in {"signal", "waiting"} => stopper.pid = pidFile
  /\ (\A l \in Launches : launcher[l] # "record") => Workers \subseteq {pidFile}

ProcInv == LaunchTypes /\ NotYet /\ StoppedIsGone /\ (tidy => Alone /\ Known)

\* A worker's own steps and its end start no worker.
FewerWorkers ==
  /\ DOMAIN worker' = Launches
  /\ \A w \in Launches : worker[w] \in {"none", "gone"} => worker'[w] = worker[w]

\* Such a step keeps the invariant.
LEMMA FewerKeeps ==
  ASSUME ProcInv, FewerWorkers, UNCHANGED invocations
  PROVE  ProcInv'
<1>1. UNCHANGED <<launcher, stopper, pidFile, tidy>>
  BY DEF invocations
<1>2. Workers' \subseteq Workers
  BY DEF FewerWorkers, Workers, Alive
<1>3. \A p : ~Alive(p) => ~Alive(p)'
  BY DEF FewerWorkers, Alive
<1>4. LaunchTypes' /\ NotYet'
  BY <1>1 DEF ProcInv, LaunchTypes, NotYet, FewerWorkers
<1>5. StoppedIsGone'
  BY <1>1, <1>3 DEF ProcInv, StoppedIsGone
<1>6. tidy' => Alone' /\ Known'
  BY <1>1, <1>2 DEF ProcInv, Alone, Known, Launching, Stopping
<1> QED
  BY <1>4, <1>5, <1>6 DEF ProcInv

\* Only a worker that is there takes a step.
LEMMA WorkersGoOn ==
  ASSUME DOMAIN worker = Launches, NEW w \in Launches, WorkerStep(w) \/ WorkerKilled(w)
  PROVE  FewerWorkers
<1>1. ASSUME NEW where, Alive(w), worker' = [worker EXCEPT ![w] = where] PROVE FewerWorkers
  BY <1>1 DEF FewerWorkers, Alive
<1>2. CASE worker' = worker
  BY <1>2 DEF FewerWorkers
<1>3. CASE SweepStep(w)
  BY <1>1, <1>2, <1>3 DEF SweepStep, SweepRemoves, SweepPasses, GzipOpens, GzipCloses,
     GzipFails, GzipUnlinks, SweepEnds, Sweeping, Alive
<1>4. CASE BeginWork(w) \/ StartTail(w) \/ WriteChat(w) \/ WriteChatFails(w)
           \/ MaybePeriodicCleanup(w) \/ TailExits(w)
  BY <1>1, <1>4 DEF BeginWork, StartTail, WriteChat, WriteChatFails, MaybePeriodicCleanup,
     TailExits, WorkerAt, Alive
<1>5. CASE ReadLine(w)
  BY <1>1, <1>2, <1>5 DEF ReadLine, Alive
<1>6. CASE ShutDown(w) \/ WorkerKilled(w)
  BY <1>1, <1>6 DEF ShutDown, WorkerKilled, Buried, Alive
<1> QED
  BY <1>3, <1>4, <1>5, <1>6 DEF WorkerStep

\* A step of a launch moves it on.
LEMMA LaunchMoves ==
  ASSUME LaunchTypes, NEW l \in Launches, NEW from, NEW to \in {"done", "unlink", "spawn", "record"},
         LauncherAt(l, from, to)
  PROVE  /\ launcher' \in [Launches -> {"idle", "done", "unlink", "spawn", "record"}]
         /\ launcher[l] = from /\ launcher'[l] = to
         /\ \A k \in Launches \ {l} : launcher'[k] = launcher[k]
BY DEF LaunchTypes, LauncherAt

\* A launch that finds the worker of the PID file alive is done; one that has
\* the directory to itself knows otherwise that there is none.
LEMMA EnsureKeeps ==
  ASSUME ProcInv, NEW l \in Launches, EnsureWorkerRunning(l)
  PROVE  ProcInv'
<1> DEFINE to == IF Alive(pidFile) THEN "done" ELSE IF pidFile # NoPid THEN "unlink" ELSE "spawn"
<1>1. LauncherAt(l, "idle", to) /\ tidy' = (tidy /\ ~Underway)
      /\ UNCHANGED <<stopper, pidFile, worker>>
  BY DEF EnsureWorkerRunning, runtimes
<1>2. to \in {"done", "unlink", "spawn"} /\ (to = "done" <=> Alive(pidFile))
  OBVIOUS
<1> HIDE DEF to
<1>3. /\ launcher' \in [Launches -> {"idle", "done", "unlink", "spawn", "record"}]
      /\ launcher[l] = "idle" /\ launcher'[l] = to
      /\ \A k \in Launches \ {l} : launcher'[k] = launcher[k]
  BY <1>1, <1>2, LaunchMoves DEF ProcInv
<1>4. LaunchTypes' /\ NotYet'
  BY <1>1, <1>2, <1>3 DEF ProcInv, LaunchTypes, NotYet
<1>5. StoppedIsGone'
  BY <1>1 DEF ProcInv, StoppedIsGone, Alive
<1>6. ASSUME tidy' PROVE Alone' /\ Known'
  <2>1. tidy /\ ~Stopping /\ \A k \in Launches : ~Launching(k)
    BY <1>1, <1>6 DEF Underway, Stopping, Launching, ProcInv, LaunchTypes
  <2>2. Alone'
    BY <1>1, <1>3, <2>1 DEF Alone, Launching, Stopping
  <2>3. Workers' = Workers /\ Workers \subseteq {pidFile}
    BY <1>1, <2>1 DEF ProcInv, Known, Launching, Workers, Alive
  <2>4. to # "done" => Workers = {}
    BY <1>2, <2>3 DEF Workers
  <2>5. Known'
    BY <1>1, <1>2, <1>3, <2>1, <2>3, <2>4 DEF Known, Launching, Stopping, ProcInv
  <2> QED
    BY <2>2, <2>5
<1> QED
  BY <1>4, <1>5, <1>6 DEF ProcInv

\* The stale record goes, before the child is started.
LEMMA UnlinkStaleKeeps ==
  ASSUME ProcInv, NEW l \in Launches, UnlinkStale(l)
  PROVE  ProcInv'
<1>1. /\ launcher' \in [Launches -> {"idle", "done", "unlink", "spawn", "record"}]
      /\ launcher[l] = "unlink" /\ launcher'[l] = "spawn"
      /\ \A k \in Launches \ {l} : launcher'[k] = launcher[k]
  BY LaunchMoves DEF UnlinkStale, ProcInv
<1>2. pidFile' = NoPid /\ UNCHANGED <<stopper, tidy, worker>>
  BY DEF UnlinkStale, runtimes
<1>3. LaunchTypes' /\ NotYet'
  BY <1>1, <1>2, DaemonAssumption DEF ProcInv, LaunchTypes, NotYet
<1>4. StoppedIsGone'
  BY <1>2 DEF ProcInv, StoppedIsGone, Alive
<1>5. ASSUME tidy' PROVE Alone' /\ Known'
  <2>1. Alone'
    BY <1>1, <1>2, <1>5 DEF ProcInv, Alone, Launching, Stopping
  <2>2. Workers' = {} /\ Workers = {}
    BY <1>1, <1>2, <1>5 DEF ProcInv, Known, Workers, Alive
  <2>3. ~Stopping
    BY <1>1, <1>2, <1>5 DEF ProcInv, Alone, Launching
  <2> QED
    BY <1>1, <1>2, <2>1, <2>2, <2>3 DEF Known, Stopping
<1> QED
  BY <1>3, <1>4, <1>5 DEF ProcInv

\* The child is the only worker if the launch has the directory to itself.
LEMMA SpawnKeeps ==
  ASSUME ProcInv, NEW l \in Launches, Spawn(l)
  PROVE  ProcInv'
<1>1. /\ launcher' \in [Launches -> {"idle", "done", "unlink", "spawn", "record"}]
      /\ launcher[l] = "spawn" /\ launcher'[l] = "record"
      /\ \A k \in Launches \ {l} : launcher'[k] = launcher[k]
  BY LaunchMoves DEF Spawn, ProcInv
<1>2. worker' = [worker EXCEPT ![l] = "starting"] /\ UNCHANGED <<stopper, pidFile, tidy>>
  BY DEF Spawn
<1>3. /\ DOMAIN worker' = Launches
      /\ \A k \in Launches \ {l} : worker'[k] = worker[k]
  BY <1>2 DEF ProcInv, LaunchTypes
<1>4. LaunchTypes' /\ NotYet'
  BY <1>1, <1>2, <1>3 DEF ProcInv, LaunchTypes, NotYet
<1>5. StoppedIsGone'
  <2>1. stopper.pid # l
    BY <1>1 DEF ProcInv, NotYet
  <2> QED
    BY <1>2, <1>3, <2>1 DEF ProcInv, StoppedIsGone, Alive
<1>6. ASSUME tidy' PROVE Alone' /\ Known'
  <2>1. Alone'
    BY <1>1, <1>2, <1>6 DEF ProcInv, Alone, Launching, Stopping
  <2>2. Workers = {}
    BY <1>1, <1>2, <1>6 DEF ProcInv, Known
  <2>3. Workers' \subseteq {l}
    BY <1>3, <2>2 DEF Workers, Alive
  <2>4. ~Stopping /\ \A k \in Launches \ {l} : ~Launching(k)
    BY <1>1, <1>2, <1>6 DEF ProcInv, Alone, Launching
  <2> QED
    BY <1>1, <1>2, <2>1, <2>3, <2>4 DEF Known, Stopping, Launching
<1> QED
  BY <1>4, <1>5, <1>6 DEF ProcInv

\* The child is put on record, dead or alive.
LEMMA RecordKeeps ==
  ASSUME ProcInv, NEW l \in Launches, WritePidRecord(l)
  PROVE  ProcInv'
<1>1. /\ launcher' \in [Launches -> {"idle", "done", "unlink", "spawn", "record"}]
      /\ launcher[l] = "record" /\ launcher'[l] = "done"
      /\ \A k \in Launches \ {l} : launcher'[k] = launcher[k]
  BY LaunchMoves DEF WritePidRecord, ProcInv
<1>2. pidFile' = l /\ UNCHANGED <<stopper, tidy, worker>>
  BY DEF WritePidRecord, runtimes
<1>3. LaunchTypes' /\ NotYet'
  BY <1>1, <1>2 DEF ProcInv, LaunchTypes, NotYet
<1>4. StoppedIsGone'
  BY <1>2 DEF ProcInv, StoppedIsGone, Alive
<1>5. ASSUME tidy' PROVE Alone' /\ Known'
  <2>1. Alone'
    BY <1>1, <1>2, <1>5 DEF ProcInv, Alone, Launching, Stopping
  <2>2. Workers' \subseteq {l}
    BY <1>1, <1>2, <1>5 DEF ProcInv, Known, Workers, Alive
  <2>3. ~Stopping /\ \A k \in Launches \ {l} : ~Launching(k)
    BY <1>1, <1>2, <1>5 DEF ProcInv, Alone, Launching
  <2> QED
    BY <1>1, <1>2, <2>1, <2>2, <2>3 DEF Known, Stopping, Launching
<1> QED
  BY <1>3, <1>4, <1>5 DEF ProcInv

\* Nothing is promised after a launch that was killed.
LEMMA LaunchDiesKeeps ==
  ASSUME ProcInv, NEW l \in Launches, LaunchDies(l)
  PROVE  ProcInv'
<1>1. /\ launcher' \in [Launches -> {"idle", "done", "unlink", "spawn", "record"}]
      /\ launcher'[l] = "done" /\ \A k \in Launches \ {l} : launcher'[k] = launcher[k]
  BY DEF LaunchDies, ProcInv, LaunchTypes
<1>2. tidy' = FALSE /\ UNCHANGED <<stopper, pidFile, worker>>
  BY DEF LaunchDies, runtimes
<1>3. LaunchTypes' /\ NotYet'
  BY <1>1, <1>2 DEF ProcInv, LaunchTypes, NotYet
<1> QED
  BY <1>2, <1>3 DEF ProcInv, StoppedIsGone, Alive

\* Stop turns to the worker of the PID file, and is done only if there is none.
LEMMA StopWorkerKeeps ==
  ASSUME ProcInv, StopWorker
  PROVE  ProcInv'
<1>1. /\ stopper.at = "idle" /\ stopper'.pid = pidFile
      /\ stopper'.at = IF pidFile = NoPid THEN "done" ELSE IF Alive(pidFile) THEN "signal" ELSE "unlink"
      /\ stopper' \in [at : {"idle", "signal", "waiting", "unlink", "done"}, pid : Launches \union {NoPid}]
      /\ tidy' = (tidy /\ ~Underway) /\ UNCHANGED <<launcher, pidFile, worker>>
  BY DEF StopWorker, ProcInv, LaunchTypes, runtimes
<1>2. LaunchTypes' /\ NotYet'
  BY <1>1 DEF ProcInv, LaunchTypes, NotYet
<1>3. StoppedIsGone'
  BY <1>1, DaemonAssumption DEF StoppedIsGone, Alive
<1>4. ASSUME tidy' PROVE Alone' /\ Known'
  <2>1. tidy /\ \A k \in Launches : ~Launching(k)
    BY <1>1, <1>4 DEF Underway, Launching, ProcInv, LaunchTypes
  <2>2. Workers' = Workers /\ Workers \subseteq {pidFile}
    BY <1>1, <2>1 DEF ProcInv, Known, Launching, Workers, Alive
  <2>3. ~Alive(pidFile) => Workers = {}
    BY <2>2 DEF Workers
  <2>4. Alone'
    BY <1>1, <2>1 DEF Alone, Launching
  <2>5. Known'
    BY <1>1, <2>1, <2>2, <2>3 DEF Known, Launching
  <2> QED
    BY <2>4, <2>5
<1> QED
  BY <1>2, <1>3, <1>4 DEF ProcInv

\* The worker is sent its signal and waited for, or has ended since.
LEMMA StopSignalsKeeps ==
  ASSUME ProcInv, StopSignals
  PROVE  ProcInv'
<1>1. /\ stopper.at = "signal" /\ stopper'.pid = stopper.pid
      /\ stopper'.at = IF Alive(stopper.pid) THEN "waiting" ELSE "done"
      /\ stopper' \in [at : {"idle", "signal", "waiting", "unlink", "done"}, pid : Launches \union {NoPid}]
      /\ UNCHANGED <<launcher, pidFile, tidy, worker>>
  BY DEF StopSignals, StopAt, ProcInv, LaunchTypes
<1>2. LaunchTypes' /\ NotYet'
  BY <1>1 DEF ProcInv, LaunchTypes, NotYet
<1>3. StoppedIsGone'
  BY <1>1 DEF StoppedIsGone, Alive
<1>4. Workers' = Workers
  BY <1>1 DEF Workers, Alive
<1>5. tidy' => Alone' /\ Known'
  BY <1>1, <1>4 DEF ProcInv, Alone, Known, Launching, Stopping
<1> QED
  BY <1>2, <1>3, <1>5 DEF ProcInv

\* The worker that was waited for is gone, by itself or killed.
LEMMA StopWaitedKeeps ==
  ASSUME ProcInv, StopEscalates \/ StopSeesItGone
  PROVE  ProcInv'
<1>1. /\ stopper.at = "waiting" /\ stopper'.at = "unlink" /\ stopper'.pid = stopper.pid
      /\ stopper' \in [at : {"idle", "signal", "waiting", "unlink", "done"}, pid : Launches \union {NoPid}]
      /\ UNCHANGED <<launcher, pidFile, tidy>>
  BY DEF StopEscalates, StopSeesItGone, StopAt, ProcInv, LaunchTypes
<1>2. /\ ~Alive(stopper.pid)'
      /\ DOMAIN worker' = Launches
      /\ \A w \in Launches : worker'[w] \in {worker[w], "gone"}
      /\ \A w \in Launches : worker[w] = "none" => worker'[w] = "none"
  BY <1>1 DEF StopEscalates, StopSeesItGone, Buried, runtimes, Alive, ProcInv, LaunchTypes
<1>3. LaunchTypes' /\ NotYet'
  BY <1>1, <1>2 DEF ProcInv, LaunchTypes, NotYet
<1>4. StoppedIsGone'
  BY <1>1, <1>2 DEF StoppedIsGone, Alive
<1>5. ASSUME tidy' PROVE Alone' /\ Known'
  <2>1. tidy /\ \A k \in Launches : ~Launching(k)
    BY <1>1, <1>5 DEF ProcInv, Alone, Stopping
  <2>2. Workers \subseteq {pidFile} /\ stopper.pid = pidFile
    BY <1>1, <2>1 DEF ProcInv, Known, Launching
  <2>3. Workers' = {}
    BY <1>1, <1>2, <2>2 DEF Workers, Alive
  <2> QED
    BY <1>1, <2>1, <2>3 DEF Alone, Known, Launching, Stopping
<1> QED
  BY <1>3, <1>4, <1>5 DEF ProcInv

\* The record goes last.
LEMMA StopUnlinksKeeps ==
  ASSUME ProcInv, StopUnlinks
  PROVE  ProcInv'
<1>1. /\ stopper.at = "unlink" /\ stopper'.at = "done" /\ stopper'.pid = stopper.pid
      /\ stopper' \in [at : {"idle", "signal", "waiting", "unlink", "done"}, pid : Launches \union {NoPid}]
      /\ pidFile' = NoPid /\ UNCHANGED <<launcher, tidy, worker>>
  BY DEF StopUnlinks, StopAt, runtimes, ProcInv, LaunchTypes
<1>2. LaunchTypes' /\ NotYet'
  BY <1>1, DaemonAssumption DEF ProcInv, LaunchTypes, NotYet
<1>3. StoppedIsGone'
  BY <1>1 DEF ProcInv, StoppedIsGone, Alive
<1>4. ASSUME tidy' PROVE Alone' /\ Known'
  <2>1. tidy /\ \A k \in Launches : ~Launching(k)
    BY <1>1, <1>4 DEF ProcInv, Alone, Stopping
  <2>2. Workers' = {}
    BY <1>1, <2>1 DEF ProcInv, Known, Workers, Alive
  <2> QED
    BY <1>1, <2>1, <2>2 DEF Alone, Known, Launching, Stopping
<1> QED
  BY <1>2, <1>3, <1>4 DEF ProcInv

\* Nobody has been started, stopped or recorded.
LEMMA ProcInitially == Init => ProcInv
<1> SUFFICES ASSUME Init PROVE ProcInv
  OBVIOUS
<1>1. /\ launcher \in [Launches -> {"idle", "done"}] /\ stopper = [at |-> "idle", pid |-> NoPid]
      /\ pidFile = NoPid /\ worker = [w \in Launches |-> "none"] /\ tidy = TRUE
  BY DEF Init, DaemonInit
<1>2. LaunchTypes /\ NotYet
  BY <1>1, DaemonAssumption DEF LaunchTypes, NotYet
<1>3. Workers = {}
  BY <1>1 DEF Workers, Alive
<1>4. Alone /\ Known
  BY <1>1, <1>3 DEF Alone, Known, Launching, Stopping
<1> QED
  BY <1>1, <1>2, <1>4 DEF ProcInv, StoppedIsGone

\* Every step keeps the invariant.
LEMMA ProcInductive == ProcInv /\ [Next]_vars => ProcInv'
<1> SUFFICES ASSUME ProcInv, [Next]_vars PROVE ProcInv'
  OBVIOUS
<1>1. CASE UNCHANGED <<invocations, worker>>
  BY <1>1, FewerKeeps DEF FewerWorkers, ProcInv, LaunchTypes
<1>2. CASE Midnight \/ (\E verb \in Verbs : GamePrints(verb)) \/ (AddonStep /\ UNCHANGED daemonVars)
           \/ UNCHANGED vars
  BY <1>1, <1>2 DEF Midnight, GamePrints, vars, daemonVars, runtimes
<1>3. CASE StopWorker \/ StopStep
  BY <1>3, StopWorkerKeeps, StopSignalsKeeps, StopWaitedKeeps, StopUnlinksKeeps DEF StopStep
<1>4. ASSUME NEW l \in Launches,
             EnsureWorkerRunning(l) \/ UnlinkStale(l) \/ Spawn(l) \/ WritePidRecord(l) \/ LaunchDies(l)
      PROVE  ProcInv'
  BY <1>4, EnsureKeeps, UnlinkStaleKeeps, SpawnKeeps, RecordKeeps, LaunchDiesKeeps
<1>5. ASSUME NEW w \in Launches, WorkerStep(w) \/ WorkerKilled(w), UNCHANGED invocations
      PROVE  ProcInv'
  BY <1>5, WorkersGoOn, FewerKeeps DEF ProcInv, LaunchTypes
<1> QED
  BY <1>2, <1>3, <1>4, <1>5 DEF Next

\* The two invariants of the processes hold.
LEMMA Processes == Spec => []ProcInv
  BY ProcInitially, ProcInductive, PTL DEF Spec

\* When --stop returns the worker it found is gone, whatever else is launched,
\* stopped or killed meanwhile.
THEOREM StopStops == Spec => []StoppedIsGone
<1>1. ProcInv => StoppedIsGone
  BY DEF ProcInv
<1> QED
  BY <1>1, Processes, PTL

\* Launches and stops that do not overlap never leave two workers, nor one that
\* the PID file does not name.
THEOREM OneWorkerAtMost == Spec => []OneWorker
<1>1. ProcInv => OneWorker
  <2> SUFFICES ASSUME ProcInv, tidy
               PROVE  Cardinality(Workers) <= 1 /\ (~Underway => Workers \subseteq {pidFile})
    BY DEF OneWorker
  <2>1. ~Underway => Workers \subseteq {pidFile}
    BY DEF Underway, ProcInv, Known
  <2>2. PICK p : Workers \subseteq {p}
    BY DEF ProcInv, Known
  <2>3. Workers = {} \/ Workers = {p}
    BY <2>2
  <2>4. Cardinality({}) = 0 /\ Cardinality({p}) = 1
    BY FS_EmptySet, FS_Singleton
  <2>5. Cardinality(Workers) <= 1
    BY <2>3, <2>4
  <2> QED
    BY <2>1, <2>5
<1> QED
  BY <1>1, Processes, PTL

-----------------------------------------------------------------------------
(* The archives, where the daemon is alone.                                 *)

DaemonOnly == ~cut /\ \A e \in logged : e.seen \in Launches

Of(d) == {e \in logged : e.day = d}

Compressing(w, d) == sweep[w].stage = "gzip" /\ File(w) = d
Removing(w, d) == sweep[w].stage = "unlink" /\ File(w) = d

\* The entries of a day are in its log, or all in its archive, or whoever fills
\* the archive has them all; and no log is removed that is not archived.
SafeDay(d) ==
  /\ \A e \in Of(d) : (d \in DOMAIN plain /\ e \in plain[d]) \/ d \in DOMAIN archive
  /\ d \in DOMAIN archive => (Of(d) \subseteq archive[d] \/ \E w \in Launches : Compressing(w, d))
  /\ \A w \in Launches : Compressing(w, d) => d \in DOMAIN archive /\ Of(d) \subseteq sweep[w].entries
  /\ \A w \in Launches : Removing(w, d) => d \in DOMAIN archive

\* The addon is not alone once it has something to clean up.
AddonShows ==
  /\ \A e \in bus : e.kind \in Kinds
  /\ addon \in {"writing", "cleanup"} => hand.kind \in Kinds
  /\ addon = "cleanup" => \E e \in logged : e.seen \in Kinds

\* Archives are of the past, and so is the time a cleanup goes by.
Archives ==
  /\ \A d \in DOMAIN archive : d \in Nat /\ d < day
  /\ \A w \in Launches : sweep[w] # NoSweep =>
       /\ "asOf" \in DOMAIN sweep[w]
       /\ sweep[w].asOf \in Nat /\ sweep[w].asOf <= day

\* A worker has a list of files only while it cleans up.
Busy == \A w \in Launches : sweep[w] # NoSweep => worker[w] = "sweeping"

FilesSafe ==
  /\ AddonShows /\ Archives
  /\ DaemonOnly => \A d \in Nat : d >= day - KeepTotal => SafeDay(d)

ArchInv == DirInv /\ ProcInv /\ Busy /\ FilesSafe

\* A step that does not touch the archive of a day, takes nothing from its log
\* before it is archived, and leaves compressions alone, keeps the day safe.
LEMMA DayStaysSafe ==
  ASSUME NEW d, SafeDay(d), Of(d)' = Of(d),
         d \in DOMAIN archive' <=> d \in DOMAIN archive,
         d \in DOMAIN archive => archive'[d] = archive[d],
         \A w \in Launches : sweep'[w].stage \in {"gzip", "unlink"} => sweep'[w] = sweep[w],
         \A w \in Launches : sweep[w].stage = "gzip" => sweep'[w] = sweep[w],
         d \in DOMAIN plain /\ d \notin DOMAIN archive => d \in DOMAIN plain' /\ plain[d] \subseteq plain'[d]
  PROVE  SafeDay(d)'
<1>1. \A w \in Launches : Compressing(w, d)' <=> Compressing(w, d)
  BY DEF Compressing, File
<1>2. \A w \in Launches : Removing(w, d)' => Removing(w, d)
  BY DEF Removing, File
<1>3. \A w \in Launches : Compressing(w, d) => sweep'[w] = sweep[w]
  BY DEF Compressing
<1> QED
  BY <1>1, <1>2, <1>3 DEF SafeDay

\* The same for all days still to be kept, where nothing was logged.
LEMMA DaysStaySafe ==
  ASSUME ArchInv, logged' = logged, day' = day, cut => cut',
         \A d \in Nat : d >= day - KeepTotal =>
           /\ d \in DOMAIN archive' <=> d \in DOMAIN archive
           /\ d \in DOMAIN archive => archive'[d] = archive[d],
         \A w \in Launches : sweep'[w].stage \in {"gzip", "unlink"} => sweep'[w] = sweep[w],
         \A w \in Launches : sweep[w].stage = "gzip" => sweep'[w] = sweep[w] \/ cut',
         \A d \in DOMAIN plain : d \notin DOMAIN archive /\ d >= day - KeepTotal =>
           (d \in DOMAIN plain' /\ plain[d] \subseteq plain'[d]) \/ ~DaemonOnly
  PROVE  DaemonOnly' => \A d \in Nat : d >= day' - KeepTotal => SafeDay(d)'
<1> SUFFICES ASSUME DaemonOnly', NEW d \in Nat, d >= day - KeepTotal PROVE SafeDay(d)'
  OBVIOUS
<1>1. DaemonOnly /\ ~cut'
  BY DEF DaemonOnly
<1>2. SafeDay(d)
  BY <1>1 DEF ArchInv, FilesSafe
<1>3. Of(d)' = Of(d)
  BY DEF Of
<1> QED
  BY <1>1, <1>2, <1>3, DayStaysSafe

\* The addon, once it has written anything, is seen.
LEMMA AddonKeepsArchives ==
  ASSUME ArchInv, AddonStep, UNCHANGED daemonVars
  PROVE  FilesSafe'
<1>2. day' = day /\ archive' = archive /\ sweep' = sweep /\ cut' = cut
  BY DEF AddonStep, StartAddon, SkipEvent, MaybeRoll, WriteEntry, CleanupOldLogs, AddonEnds,
         directory, daemonVars, runtimes
<1>3. Archives'
  BY <1>2 DEF ArchInv, FilesSafe, Archives
<1>4. AddonShows'
  <2>1. CASE WriteEntry
    <3> DEFINE entry == [line |-> hand.line, seen |-> hand.kind, day |-> hand.day]
    <3>1. /\ addon = "writing" /\ logged' = logged \union {entry} /\ bus' = bus
          /\ addon' = "cleanup" => hand' = hand
          /\ addon' \in {"ready", "cleanup"}
      BY <2>1 DEF WriteEntry, Log
    <3>2. entry.seen = hand.kind
      OBVIOUS
    <3> HIDE DEF entry
    <3> QED
      BY <3>1, <3>2 DEF ArchInv, FilesSafe, AddonShows
  <2>2. CASE StartAddon \/ AddonEnds \/ CleanupOldLogs \/ (\E e \in bus : SkipEvent(e) \/ MaybeRoll(e))
    BY <2>2 DEF StartAddon, AddonEnds, CleanupOldLogs, SkipEvent, MaybeRoll, ArchInv, FilesSafe, AddonShows
  <2> QED
    BY <2>1, <2>2 DEF AddonStep
<1>5. DaemonOnly' => \A d \in Nat : d >= day' - KeepTotal => SafeDay(d)'
  <2>1. CASE WriteEntry
    <3> DEFINE entry == [line |-> hand.line, seen |-> hand.kind, day |-> hand.day]
    <3>1. addon = "writing" /\ entry \in logged' /\ entry.seen = hand.kind
      BY <2>1 DEF WriteEntry, Log
    <3> HIDE DEF entry
    <3>2. entry.seen \in Kinds
      BY <3>1 DEF ArchInv, FilesSafe, AddonShows
    <3> QED
      BY <3>1, <3>2, WritersAssumption DEF DaemonOnly
  <2>2. ASSUME \A x \in DOMAIN plain : (x \in DOMAIN plain' /\ plain[x] \subseteq plain'[x]) \/ ~DaemonOnly,
               logged' = logged
        PROVE  DaemonOnly' => \A d \in Nat : d >= day' - KeepTotal => SafeDay(d)'
    BY <1>2, <2>2, DaysStaySafe
  <2>3. CASE CleanupOldLogs
    <3>1. ~DaemonOnly /\ logged' = logged
      BY <2>3, WritersAssumption DEF CleanupOldLogs, ArchInv, FilesSafe, AddonShows, DaemonOnly
    <3> QED
      BY <2>2, <3>1
  <2>4. ASSUME NEW e \in bus, MaybeRoll(e)
        PROVE  DaemonOnly' => \A d \in Nat : d >= day' - KeepTotal => SafeDay(d)'
    <3>1. plain' \in {plain, Opened(plain, e.day)} /\ logged' = logged /\ e.day \in Nat
      BY <2>4 DEF MaybeRoll, ArchInv, FilesSafe, DirInv, EventDays, Days
    <3>2. \A x \in DOMAIN plain : x \in DOMAIN plain' /\ plain'[x] = plain[x]
      BY <3>1, OpenedFacts DEF ArchInv, FilesSafe, DirInv
    <3> QED
      BY <2>2, <3>1, <3>2
  <2>5. CASE StartAddon \/ AddonEnds \/ (\E e \in bus : SkipEvent(e))
    <3>1. plain' = plain /\ logged' = logged
      BY <2>5 DEF StartAddon, AddonEnds, SkipEvent, directory
    <3> QED
      BY <2>2, <3>1
  <2> QED
    BY <2>1, <2>3, <2>4, <2>5 DEF AddonStep
<1> QED
  BY <1>3, <1>4, <1>5 DEF FilesSafe

\* Nothing but a name tells a sweep that goes on from what it was.
LEMMA SweepGoesOn ==
  ASSUME ArchInv, NEW w \in Launches, Sweeping(w, "next") \/ Sweeping(w, "gzip") \/ Sweeping(w, "unlink")
  PROVE  /\ OldOnly(sweep[w]) /\ sweep[w] # NoSweep
         /\ "asOf" \in DOMAIN sweep[w] /\ sweep[w].asOf \in Nat /\ sweep[w].asOf <= day
<1>1. NoSweep.stage = "none"
  BY DEF NoSweep
<1>2. sweep[w] # NoSweep
  BY <1>1 DEF Sweeping
<1> QED
  BY <1>2 DEF ArchInv, FilesSafe, DirInv, Sweeps, Archives

\* A sweep that is over, or new, or at its next file holds nothing.
LEMMA SweepChanges ==
  ASSUME ArchInv, NEW w \in Launches, UNCHANGED <<day, bus, addon, hand, archive, logged>>, cut => cut',
         sweep[w].stage = "gzip" => cut',
         \/ sweep' = [sweep EXCEPT ![w] = NoSweep]
         \/ \E then : sweep' = [sweep EXCEPT ![w] = SweepFrom(then)]
         \/ (Sweeping(w, "next") \/ Sweeping(w, "gzip") \/ Sweeping(w, "unlink")) /\ NextFile(w)
  PROVE  /\ AddonShows' /\ Archives'
         /\ (\A d \in DOMAIN plain : d \notin DOMAIN archive /\ d >= day - KeepTotal =>
               (d \in DOMAIN plain' /\ plain[d] \subseteq plain'[d]))
            => (DaemonOnly' => \A d \in Nat : d >= day' - KeepTotal => SafeDay(d)')
<1>1. AddonShows'
  BY DEF ArchInv, FilesSafe, AddonShows
<1>2. day \in Nat /\ DOMAIN sweep = Launches
  BY DEF ArchInv, FilesSafe, DirInv, Sweeps
<1>3. /\ \A v \in Launches \ {w} : sweep'[v] = sweep[v]
      /\ sweep'[w].stage \in {"none", "next"}
      /\ sweep'[w] # NoSweep =>
           "asOf" \in DOMAIN sweep'[w] /\ sweep'[w].asOf \in Nat /\ sweep'[w].asOf <= day
  <2>1. CASE sweep' = [sweep EXCEPT ![w] = NoSweep]
    BY <1>2, <2>1 DEF NoSweep
  <2>2. ASSUME NEW then, sweep' = [sweep EXCEPT ![w] = SweepFrom(then)] 
        PROVE  /\ \A v \in Launches \ {w} : sweep'[v] = sweep[v]
               /\ sweep'[w].stage \in {"none", "next"}
               /\ sweep'[w] # NoSweep =>
                    "asOf" \in DOMAIN sweep'[w] /\ sweep'[w].asOf \in Nat /\ sweep'[w].asOf <= day
    BY <1>2, <2>2 DEF SweepFrom
  <2>3. CASE (Sweeping(w, "next") \/ Sweeping(w, "gzip") \/ Sweeping(w, "unlink")) /\ NextFile(w)
    BY <1>2, <2>3, SweepGoesOn DEF NextFile, OldOnly, Old
  <2> QED
    BY <2>1, <2>2, <2>3
<1>4. Archives'
  BY <1>3 DEF ArchInv, FilesSafe, Archives
<1>5. ASSUME \A d \in DOMAIN plain : d \notin DOMAIN archive /\ d >= day - KeepTotal =>
               (d \in DOMAIN plain' /\ plain[d] \subseteq plain'[d])
      PROVE  DaemonOnly' => \A d \in Nat : d >= day' - KeepTotal => SafeDay(d)'
  <2>1. \A v \in Launches : sweep'[v].stage \in {"gzip", "unlink"} => sweep'[v] = sweep[v]
    BY <1>3
  <2>2. \A v \in Launches : sweep[v].stage = "gzip" => sweep'[v] = sweep[v] \/ cut'
    BY <1>3
  <2> QED
    BY <1>5, <2>1, <2>2, DaysStaySafe
<1> QED
  BY <1>1, <1>4, <1>5

\* The archive of a day begins, with all of the day's log in hand.
LEMMA GzipOpensKeeps ==
  ASSUME ArchInv, NEW w \in Launches, GzipOpens(w), UNCHANGED <<day, lines, addonVars>>
  PROVE  FilesSafe'
<1>1. /\ Sweeping(w, "next") /\ sweep[w].todo # {}
      /\ File(w) \in DOMAIN plain /\ File(w) \notin DOMAIN archive
      /\ archive' = With(archive, File(w), {})
      /\ sweep' = [sweep EXCEPT ![w].stage = "gzip", ![w].entries = plain[File(w)]]
      /\ UNCHANGED <<plain, logged, cut, day, bus, addon, hand>>
  BY DEF GzipOpens, addonVars
<1>2. /\ OldOnly(sweep[w]) /\ sweep[w] # NoSweep
      /\ "asOf" \in DOMAIN sweep[w] /\ sweep[w].asOf \in Nat /\ sweep[w].asOf <= day
  BY <1>1, SweepGoesOn
<1>3. File(w) \in Nat /\ Old(File(w)) /\ File(w) < day
  BY <1>1, <1>2, FileIsOld, ChatAssumption DEF ArchInv, FilesSafe, DirInv, Old
<1>4. /\ DOMAIN archive' = DOMAIN archive \union {File(w)}
      /\ \A d \in DOMAIN archive : archive'[d] = archive[d]
  BY <1>1 DEF With
<1>5. /\ DOMAIN sweep' = Launches /\ \A v \in Launches \ {w} : sweep'[v] = sweep[v]
      /\ sweep'[w].stage = "gzip" /\ sweep'[w].entries = plain[File(w)]
      /\ sweep'[w].todo = sweep[w].todo /\ sweep'[w].asOf = sweep[w].asOf
      /\ "asOf" \in DOMAIN sweep'[w]
  BY <1>1, <1>2 DEF OldOnly, Old, ArchInv, FilesSafe, DirInv, Sweeps
<1>6. AddonShows' /\ Archives'
  BY <1>1, <1>2, <1>3, <1>4, <1>5 DEF ArchInv, FilesSafe, AddonShows, Archives
<1>7. ASSUME DaemonOnly', NEW d \in Nat, d >= day' - KeepTotal PROVE SafeDay(d)'
  <2>1. SafeDay(d) /\ Of(d)' = Of(d)
    BY <1>1, <1>7 DEF DaemonOnly, ArchInv, FilesSafe, Of
  <2>2. \A v \in Launches \ {w} : (Compressing(v, d)' <=> Compressing(v, d))
                                    /\ (Removing(v, d)' <=> Removing(v, d))
    BY <1>5 DEF Compressing, Removing, File
  <2>3. /\ ~Removing(w, d)' /\ ~Compressing(w, d)
        /\ Compressing(w, d)' <=> d = File(w)
    BY <1>1, <1>5 DEF Compressing, Removing, File, Sweeping
  <2>4. CASE d = File(w)
    <3>1. Of(d) \subseteq plain[d]
      BY <1>1, <2>1, <2>4 DEF SafeDay
    <3> QED
      BY <1>1, <1>4, <1>5, <2>1, <2>2, <2>3, <2>4, <3>1 DEF SafeDay
  <2>5. CASE d # File(w)
    <3>1. /\ d \in DOMAIN archive' <=> d \in DOMAIN archive
          /\ d \in DOMAIN archive => archive'[d] = archive[d]
      BY <1>4, <2>5
    <3>2. \A v \in Launches : Compressing(v, d)' => Compressing(v, d) /\ sweep'[v] = sweep[v]
      BY <1>5, <2>2, <2>3, <2>5
    <3>3. \A v \in Launches : (Compressing(v, d) => Compressing(v, d)') /\ (Removing(v, d)' => Removing(v, d))
      BY <2>2, <2>3
    <3> QED
      BY <1>1, <2>1, <3>1, <3>2, <3>3 DEF SafeDay
  <2> QED
    BY <2>4, <2>5
<1> QED
  BY <1>6, <1>7 DEF FilesSafe

\* The archive is complete, unless it is past its time and was removed.
LEMMA GzipClosesKeeps ==
  ASSUME ArchInv, NEW w \in Launches, GzipCloses(w), UNCHANGED <<day, lines, addonVars>>
  PROVE  FilesSafe'
<1>1. /\ Sweeping(w, "gzip")
      /\ archive' = IF File(w) \in DOMAIN archive THEN With(archive, File(w), sweep[w].entries)
                    ELSE archive
      /\ sweep' = [sweep EXCEPT ![w].stage = "unlink"]
      /\ UNCHANGED <<plain, logged, cut, day, bus, addon, hand>>
  BY DEF GzipCloses, addonVars
<1>2. /\ OldOnly(sweep[w]) /\ sweep[w] # NoSweep
      /\ "asOf" \in DOMAIN sweep[w] /\ sweep[w].asOf \in Nat /\ sweep[w].asOf <= day
  BY <1>1, SweepGoesOn
<1>3. /\ DOMAIN archive' = DOMAIN archive
      /\ \A d \in DOMAIN archive : d # File(w) => archive'[d] = archive[d]
      /\ File(w) \in DOMAIN archive => archive'[File(w)] = sweep[w].entries
  BY <1>1 DEF With
<1>4. /\ DOMAIN sweep' = Launches /\ \A v \in Launches \ {w} : sweep'[v] = sweep[v]
      /\ sweep'[w].stage = "unlink" /\ sweep'[w].todo = sweep[w].todo
      /\ sweep'[w].asOf = sweep[w].asOf /\ "asOf" \in DOMAIN sweep'[w]
  BY <1>1, <1>2 DEF OldOnly, Old, ArchInv, FilesSafe, DirInv, Sweeps
<1>5. AddonShows' /\ Archives'
  BY <1>1, <1>2, <1>3, <1>4 DEF ArchInv, FilesSafe, AddonShows, Archives
<1>6. ASSUME DaemonOnly', NEW d \in Nat, d >= day' - KeepTotal PROVE SafeDay(d)'
  <2>1. SafeDay(d) /\ Of(d)' = Of(d)
    BY <1>1, <1>6 DEF DaemonOnly, ArchInv, FilesSafe, Of
  <2>2. \A v \in Launches \ {w} : (Compressing(v, d)' <=> Compressing(v, d))
                                    /\ (Removing(v, d)' <=> Removing(v, d))
    BY <1>4 DEF Compressing, Removing, File
  <2>3. /\ ~Compressing(w, d)'
        /\ Removing(w, d)' <=> d = File(w)
        /\ Compressing(w, d) <=> d = File(w)
    BY <1>1, <1>4 DEF Compressing, Removing, File, Sweeping
  <2>4. CASE d = File(w)
    <3>1. d \in DOMAIN archive /\ Of(d) \subseteq sweep[w].entries
      BY <2>1, <2>3, <2>4 DEF SafeDay
    <3>2. d \in DOMAIN archive' /\ Of(d) \subseteq archive'[d]
      BY <1>3, <2>4, <3>1
    <3> QED
      BY <1>1, <1>4, <2>1, <2>2, <2>3, <3>2 DEF SafeDay
  <2>5. CASE d # File(w)
    <3>1. /\ d \in DOMAIN archive' <=> d \in DOMAIN archive
          /\ d \in DOMAIN archive => archive'[d] = archive[d]
      BY <1>3, <2>5
    <3>2. \A v \in Launches : Compressing(v, d)' => Compressing(v, d) /\ sweep'[v] = sweep[v]
      BY <1>4, <2>2, <2>3
    <3>3. \A v \in Launches : (Compressing(v, d) => Compressing(v, d)') /\ (Removing(v, d)' => Removing(v, d))
      BY <2>2, <2>3, <2>5
    <3> QED
      BY <1>1, <2>1, <3>1, <3>2, <3>3 DEF SafeDay
  <2> QED
    BY <2>4, <2>5
<1> QED
  BY <1>5, <1>6 DEF FilesSafe

\* A line goes to the log of today, of which there is no archive.
LEMMA WriteChatKeeps ==
  ASSUME ArchInv, NEW w \in Launches, WriteChat(w), UNCHANGED <<day, lines, addonVars>>
  PROVE  FilesSafe'
<1> DEFINE entry == [line |-> Head(feed[w]).line, seen |-> w, day |-> day]
<1>1. Log(day, entry) /\ entry.day = day /\ UNCHANGED <<archive, sweep, cut, day, bus, addon, hand>>
  BY DEF WriteChat, addonVars
<1> HIDE DEF entry
<1>2. /\ logged' = logged \union {entry} /\ day \in DOMAIN plain' /\ entry \in plain'[day]
      /\ \A x \in DOMAIN plain : x \in DOMAIN plain' /\ plain[x] \subseteq plain'[x]
  BY <1>1, LogFacts DEF ArchInv, FilesSafe, DirInv
<1>3. AddonShows' /\ Archives'
  BY <1>1, <1>2 DEF ArchInv, FilesSafe, AddonShows, Archives
<1>4. ASSUME DaemonOnly', NEW d \in Nat, d >= day' - KeepTotal PROVE SafeDay(d)'
  <2>1. SafeDay(d)
    BY <1>1, <1>2, <1>4 DEF DaemonOnly, ArchInv, FilesSafe
  <2>2. CASE d # day
    <3>1. Of(d)' = Of(d)
      BY <1>1, <1>2, <2>2 DEF Of
    <3> QED
      BY <1>1, <1>2, <2>1, <3>1, DayStaysSafe
  <2>3. CASE d = day
    <3>1. d \notin DOMAIN archive'
      BY <1>1, <2>3 DEF ArchInv, FilesSafe, Archives
    <3>2. \A e \in Of(d)' : d \in DOMAIN plain' /\ e \in plain'[d]
      BY <1>1, <1>2, <2>1, <2>3, <3>1 DEF SafeDay, Of
    <3>3. \A v \in Launches : ~Compressing(v, d)' /\ ~Removing(v, d)'
      BY <1>1, <2>1, <3>1 DEF SafeDay, Compressing, Removing, File
    <3> QED
      BY <3>1, <3>2, <3>3 DEF SafeDay
  <2> QED
    BY <2>2, <2>3
<1> QED
  BY <1>3, <1>4 DEF FilesSafe

\* What is removed from the archives is past its time.
LEMMA SweepEndsKeeps ==
  ASSUME ArchInv, NEW w \in Launches, SweepEnds(w), UNCHANGED <<day, lines, addonVars>>
  PROVE  FilesSafe'
<1>1. /\ Sweeping(w, "next") /\ sweep' = [sweep EXCEPT ![w] = NoSweep]
      /\ archive' = Without(archive, {d \in DOMAIN archive : d < sweep[w].asOf - KeepTotal})
      /\ UNCHANGED <<plain, logged, cut, day, bus, addon, hand>>
  BY DEF SweepEnds, addonVars
<1>2. sweep[w].asOf \in Nat /\ sweep[w].asOf <= day /\ day \in Nat /\ KeepTotal \in Nat
  BY <1>1, SweepGoesOn, ChatAssumption DEF ArchInv, FilesSafe, DirInv
<1>3. /\ DOMAIN archive' \subseteq DOMAIN archive
      /\ \A d \in DOMAIN archive : ~(d < sweep[w].asOf - KeepTotal) =>
           d \in DOMAIN archive' /\ archive'[d] = archive[d]
  BY <1>1 DEF Without, Restrict
<1>4. \A v \in Launches : sweep'[v] = IF v = w THEN NoSweep ELSE sweep[v]
  BY <1>1 DEF ArchInv, FilesSafe, DirInv, Sweeps
<1>5. AddonShows' /\ Archives'
  BY <1>1, <1>3, <1>4 DEF ArchInv, FilesSafe, AddonShows, Archives
<1>6. \A d \in Nat : d >= day - KeepTotal => ~(d < sweep[w].asOf - KeepTotal)
  BY <1>2
<1>7. NoSweep.stage = "none" /\ sweep[w].stage = "next"
  BY <1>1 DEF NoSweep, Sweeping
<1> QED
  BY <1>1, <1>3, <1>4, <1>5, <1>6, <1>7, DaysStaySafe DEF FilesSafe

\* A removal is of a log with an archive, or of one that is past its time.
LEMMA RemovalKeepsArchives ==
  ASSUME ArchInv, NEW w \in Launches, SweepRemoves(w) \/ GzipUnlinks(w),
         UNCHANGED <<day, lines, addonVars>>
  PROVE  FilesSafe'
<1>1. /\ Sweeping(w, "next") \/ Sweeping(w, "unlink")
      /\ plain' = Without(plain, {File(w)}) /\ NextFile(w)
      /\ UNCHANGED <<archive, logged, cut, day, bus, addon, hand>>
  BY DEF SweepRemoves, GzipUnlinks, addonVars
<1>2. \A x \in DOMAIN plain \ {File(w)} : x \in DOMAIN plain' /\ plain'[x] = plain[x]
  BY <1>1, WithoutFacts DEF ArchInv, FilesSafe, DirInv
<1>3. sweep[w].stage # "gzip"
  BY <1>1 DEF Sweeping
<1>4. /\ AddonShows' /\ Archives'
      /\ (\A d \in DOMAIN plain : d \notin DOMAIN archive /\ d >= day - KeepTotal =>
            (d \in DOMAIN plain' /\ plain[d] \subseteq plain'[d]))
         => (DaemonOnly' => \A d \in Nat : d >= day' - KeepTotal => SafeDay(d)')
  BY <1>1, <1>3, SweepChanges
<1>5. ASSUME DaemonOnly, File(w) \notin DOMAIN archive, File(w) >= day - KeepTotal PROVE FALSE
  <2>1. /\ OldOnly(sweep[w]) /\ sweep[w].asOf \in Nat /\ sweep[w].asOf <= day
        /\ day \in Nat /\ KeepTotal \in Nat
    BY <1>1, SweepGoesOn, ChatAssumption DEF ArchInv, FilesSafe, DirInv
  <2>2. sweep[w].todo # {}
    BY <2>1, <1>1 DEF SweepRemoves, GzipUnlinks, Sweeping, OldOnly, Old
  <2>3. File(w) \in Nat
    BY <2>1, <2>2, FileIsOld
  <2>4. CASE SweepRemoves(w)
    BY <1>5, <2>1, <2>3, <2>4 DEF SweepRemoves, Ancient
  <2>5. CASE GzipUnlinks(w)
    <3>1. Removing(w, File(w)) /\ SafeDay(File(w))
      BY <1>5, <2>3, <2>5 DEF GzipUnlinks, Sweeping, Removing, ArchInv, FilesSafe
    <3> QED
      BY <1>5, <3>1 DEF SafeDay
  <2> QED
    BY <2>4, <2>5
<1>6. DaemonOnly' => DaemonOnly
  BY <1>1 DEF DaemonOnly
<1> QED
  BY <1>2, <1>4, <1>5, <1>6 DEF FilesSafe

\* A worker keeps the archives with everything it does to the directory.
LEMMA WorkerKeepsArchives ==
  ASSUME ArchInv, NEW w \in Launches, WorkerStep(w) \/ WorkerKilled(w),
         UNCHANGED <<day, lines, addonVars>>
  PROVE  FilesSafe'
<1>3. UNCHANGED <<day, bus, addon, hand>>
  BY DEF addonVars
<1>4. ASSUME UNCHANGED <<directory, sweep, cut>>
      PROVE  FilesSafe'
  <2>1. AddonShows' /\ Archives'
    BY <1>3, <1>4 DEF ArchInv, FilesSafe, AddonShows, Archives, directory
  <2> QED
    BY <1>3, <1>4, <2>1, DaysStaySafe DEF directory, FilesSafe
<1>5. ASSUME directory' = directory, cut => cut', sweep[w].stage = "gzip" => cut',
             \/ sweep' = [sweep EXCEPT ![w] = NoSweep]
             \/ \E then : sweep' = [sweep EXCEPT ![w] = SweepFrom(then)]
             \/ (Sweeping(w, "next") \/ Sweeping(w, "gzip") \/ Sweeping(w, "unlink")) /\ NextFile(w)
      PROVE  FilesSafe'
  BY <1>3, <1>5, SweepChanges DEF directory, FilesSafe
<1>6. CASE StartTail(w) \/ WriteChatFails(w) \/ TailExits(w)
  BY <1>4, <1>6 DEF StartTail, WriteChatFails, TailExits
<1>7. CASE ShutDown(w) \/ WorkerKilled(w)
  BY <1>5, <1>7 DEF ShutDown, WorkerKilled, Buried
<1>8. CASE SweepPasses(w) \/ GzipFails(w)
  BY <1>5, <1>8 DEF SweepPasses, GzipFails, Sweeping
<1>9. CASE SweepRemoves(w) \/ GzipUnlinks(w)
  BY <1>9, RemovalKeepsArchives
<1>10. CASE GzipOpens(w) \/ GzipCloses(w) \/ SweepEnds(w) \/ WriteChat(w)
  BY <1>10, GzipOpensKeeps, GzipClosesKeeps, SweepEndsKeeps, WriteChatKeeps
<1>11. CASE BeginWork(w) \/ MaybePeriodicCleanup(w) \/ ReadLine(w)
  <2>1. worker[w] # "sweeping" /\ UNCHANGED <<directory, cut>>
    BY <1>11 DEF BeginWork, MaybePeriodicCleanup, ReadLine, WorkerAt
  <2>2. sweep[w].stage # "gzip"
    BY <2>1 DEF ArchInv, FilesSafe, Busy, NoSweep
  <2>3. sweep' = sweep \/ \E then : sweep' = [sweep EXCEPT ![w] = SweepFrom(then)]
    BY <1>11 DEF BeginWork, MaybePeriodicCleanup, ReadLine
  <2> QED
    BY <1>4, <1>5, <2>1, <2>2, <2>3
<1> QED
  BY <1>6, <1>7, <1>8, <1>9, <1>10, <1>11 DEF WorkerStep, SweepStep

\* A stop may kill a worker, but no more.
LEMMA KillKeepsArchives ==
  ASSUME ArchInv, NEW w \in Launches, Buried(w), UNCHANGED <<day, addonVars, directory>>
  PROVE  FilesSafe'
<1>1. (cut => cut') /\ (sweep[w].stage = "gzip" => cut')
  BY DEF Buried
<1>2. sweep' = [sweep EXCEPT ![w] = NoSweep]
  BY DEF Buried
<1> QED
  BY <1>1, <1>2, SweepChanges DEF addonVars, directory, FilesSafe

\* Midnight makes fewer days to be kept, and the rest leaves the files alone.
LEMMA FilesStaySafe ==
  ASSUME ArchInv, UNCHANGED <<directory, sweep, cut, addon, hand>>, day' \in {day, day + 1},
         \A e \in bus' : e.kind \in Kinds
  PROVE  FilesSafe'
<1>1. day \in Nat /\ KeepTotal \in Nat
  BY ChatAssumption DEF ArchInv, DirInv
<1>2. AddonShows'
  BY DEF ArchInv, FilesSafe, AddonShows, directory
<1>3. \A t \in Nat : t < day => t < day'
  BY <1>1
<1>4. \A t \in Nat : (t <= day => t <= day') /\ (t >= day' - KeepTotal => t >= day - KeepTotal)
  <2>1. CASE day' = day
    BY <2>1
  <2>2. CASE day' = day + 1
    BY <1>1, <2>2
  <2> QED
    BY <2>1, <2>2
<1>5. Archives'
  BY <1>3, <1>4 DEF ArchInv, FilesSafe, Archives, directory
<1>6. ASSUME DaemonOnly', NEW d \in Nat, d >= day' - KeepTotal PROVE SafeDay(d)'
  <2>1. SafeDay(d) /\ Of(d)' = Of(d)
    BY <1>4, <1>6 DEF DaemonOnly, ArchInv, FilesSafe, Of, directory
  <2> QED
    BY <2>1, DayStaysSafe DEF directory
<1> QED
  BY <1>2, <1>5, <1>6 DEF FilesSafe

LEMMA BusyKept ==
  ASSUME ArchInv, [Next]_vars
  PROVE  Busy'
<1>1. Busy /\ DOMAIN worker = Launches /\ DOMAIN sweep = Launches
  BY DEF ArchInv, ProcInv, LaunchTypes, DirInv, Sweeps
<1>2. CASE UNCHANGED <<worker, sweep>>
  BY <1>1, <1>2 DEF Busy
<1>3. ASSUME NEW w \in Launches, NEW where, NEW list, list = NoSweep \/ where = "sweeping",
             worker' = [worker EXCEPT ![w] = where], sweep' = [sweep EXCEPT ![w] = list]
      PROVE  Busy'
  BY <1>1, <1>3 DEF Busy
<1>4. ASSUME NEW w \in Launches, worker[w] # "sweeping", NEW where,
             worker' = [worker EXCEPT ![w] = where], sweep' = sweep
      PROVE  Busy'
  BY <1>1, <1>4 DEF Busy
<1>5. ASSUME NEW w \in Launches, Sweeping(w, "next") \/ Sweeping(w, "gzip") \/ Sweeping(w, "unlink"),
             NEW list, worker' = worker, sweep' = [sweep EXCEPT ![w] = list]
      PROVE  Busy'
  BY <1>1, <1>5 DEF Busy, Sweeping
<1>6. ASSUME NEW w \in Launches, Buried(w) PROVE Busy'
  BY <1>3, <1>6 DEF Buried
<1>7. ASSUME NEW w \in Launches, WorkerStep(w) \/ WorkerKilled(w) PROVE Busy'
  <2>1. CASE StartTail(w) \/ WriteChat(w) \/ WriteChatFails(w) \/ TailExits(w)
    BY <1>4, <2>1 DEF StartTail, WriteChat, WriteChatFails, TailExits, WorkerAt
  <2>2. CASE BeginWork(w) \/ MaybePeriodicCleanup(w)
    BY <1>3, <2>2 DEF BeginWork, MaybePeriodicCleanup, WorkerAt
  <2>3. CASE ReadLine(w)
    BY <1>2, <1>3, <1>4, <2>3 DEF ReadLine
  <2>4. CASE ShutDown(w) \/ WorkerKilled(w)
    BY <1>6, <2>4 DEF ShutDown, WorkerKilled
  <2>5. CASE SweepEnds(w)
    BY <1>3, <2>5 DEF SweepEnds
  <2>6. CASE \/ SweepRemoves(w) \/ SweepPasses(w) \/ GzipOpens(w) \/ GzipCloses(w)
             \/ GzipFails(w) \/ GzipUnlinks(w)
    <3>1. worker' = worker /\ (Sweeping(w, "next") \/ Sweeping(w, "gzip") \/ Sweeping(w, "unlink"))
      BY <2>6 DEF SweepRemoves, SweepPasses, GzipOpens, GzipCloses, GzipFails, GzipUnlinks
    <3>2. \E list : sweep' = [sweep EXCEPT ![w] = list]
      BY <2>6 DEF SweepRemoves, SweepPasses, GzipOpens, GzipCloses, GzipFails, GzipUnlinks, NextFile
    <3> QED
      BY <1>5, <3>1, <3>2
  <2> QED
    BY <1>7, <2>1, <2>2, <2>3, <2>4, <2>5, <2>6 DEF WorkerStep, SweepStep
<1>8. ASSUME NEW l \in Launches,
             EnsureWorkerRunning(l) \/ UnlinkStale(l) \/ Spawn(l) \/ WritePidRecord(l) \/ LaunchDies(l)
      PROVE  Busy'
  <2>1. CASE Spawn(l)
    <3>1. worker[l] = "none"
      BY <2>1 DEF Spawn, LauncherAt, ArchInv, ProcInv, NotYet
    <3> QED
      BY <1>4, <2>1, <3>1 DEF Spawn
  <2> QED
    BY <1>2, <1>8, <2>1 DEF EnsureWorkerRunning, UnlinkStale, WritePidRecord, LaunchDies, runtimes
<1>9. CASE StopWorker \/ StopStep
  BY <1>2, <1>6, <1>9 DEF StopWorker, StopStep, StopSignals, StopEscalates, StopSeesItGone, StopUnlinks, Alive, runtimes
<1>10. CASE Midnight \/ (\E verb \in Verbs : GamePrints(verb)) \/ UNCHANGED daemonVars \/ UNCHANGED vars
  BY <1>2, <1>10 DEF Midnight, GamePrints, daemonVars, runtimes, vars
<1> QED
  BY <1>7, <1>8, <1>9, <1>10 DEF Next

LEMMA ArchInitially == Init => ArchInv
<1> SUFFICES ASSUME Init PROVE ArchInv
  OBVIOUS
<1>1. sweep = [w \in Launches |-> NoSweep] /\ logged = {} /\ archive = NoFiles /\ bus = {}
      /\ addon \in {"off", "disabled"}
  BY DEF Init, DirectoryInit, AddonInit, DaemonInit
<1>2. Busy /\ AddonShows /\ Archives
  BY <1>1 DEF Busy, AddonShows, Archives, NoFiles
<1>3. ASSUME NEW d \in Nat PROVE SafeDay(d)
  BY <1>1 DEF SafeDay, Of, Compressing, Removing, NoSweep, NoFiles
<1> QED
  BY <1>2, <1>3, DirInitially, ProcInitially DEF ArchInv, FilesSafe

LEMMA ArchInductive == ArchInv /\ [Next]_vars => ArchInv'
<1> SUFFICES ASSUME ArchInv, [Next]_vars PROVE ArchInv'
  OBVIOUS
<1>1. DirInv' /\ ProcInv' /\ Busy'
  BY DirInductive, ProcInductive, BusyKept DEF ArchInv
<1>2. \A e \in bus : e.kind \in Kinds
  BY DEF ArchInv, FilesSafe, AddonShows
<1> SUFFICES FilesSafe'
  BY <1>1 DEF ArchInv
<1>3. CASE Midnight
  BY <1>2, <1>3, FilesStaySafe DEF Midnight, daemonVars, runtimes, addonVars
<1>4. ASSUME NEW verb \in Verbs, GamePrints(verb) PROVE FilesSafe'
  <2>1. UNCHANGED <<day, directory, addon, hand, sweep, cut>>
    BY <1>4 DEF GamePrints
  <2>2. PICK kept \in SUBSET EventsOf(lines + 1, verb) : bus' \in {bus, bus \union kept}
    BY <1>4 DEF GamePrints
  <2>3. \A e \in kept : e.kind \in Kinds
    BY DEF EventsOf, Kinds
  <2> QED
    BY <1>2, <2>1, <2>2, <2>3, FilesStaySafe
<1>5. CASE AddonStep /\ UNCHANGED daemonVars
  BY <1>5, AddonKeepsArchives
<1>6. CASE UNCHANGED <<day, lines, addonVars>> /\ UNCHANGED directory /\ (StopWorker \/ StopStep)
  BY <1>2, <1>6, KillKeepsArchives, FilesStaySafe
     DEF StopWorker, StopStep, StopSignals, StopEscalates, StopSeesItGone, StopUnlinks, Alive, runtimes, addonVars
<1>7. ASSUME UNCHANGED <<day, lines, addonVars>>, UNCHANGED directory, NEW l \in Launches,
             EnsureWorkerRunning(l) \/ UnlinkStale(l) \/ Spawn(l) \/ WritePidRecord(l) \/ LaunchDies(l)
      PROVE  FilesSafe'
  BY <1>2, <1>7, FilesStaySafe
     DEF EnsureWorkerRunning, UnlinkStale, Spawn, WritePidRecord, LaunchDies, runtimes, addonVars
<1>8. ASSUME UNCHANGED <<day, lines, addonVars>>, NEW w \in Launches, WorkerStep(w) \/ WorkerKilled(w)
      PROVE  FilesSafe'
  BY <1>8, WorkerKeepsArchives
<1>9. CASE UNCHANGED vars
  BY <1>2, <1>9, FilesStaySafe DEF vars, daemonVars, runtimes, addonVars
<1> QED
  BY <1>3, <1>4, <1>5, <1>6, <1>7, <1>8, <1>9 DEF Next

\* The daemon, as long as it has the directory to itself and no compression is
\* interrupted, keeps every entry for KEEP_TOTAL_DAYS, however many workers
\* clean up at once and wherever midnight falls (cleanup_old_logs).
THEOREM EntriesAreArchived == Spec => []ArchiveKept
<1>1. ArchInv => ArchiveKept
  <2> SUFFICES ASSUME ArchInv, DaemonOnly, NEW e \in logged, e.day >= day - KeepTotal
               PROVE  \/ e.day \in DOMAIN plain /\ e \in plain[e.day]
                      \/ e.day \in DOMAIN archive /\ e \in archive[e.day]
                      \/ \E w \in Launches : sweep[w].stage = "gzip" /\ e \in sweep[w].entries
    BY DEF ArchiveKept, DaemonOnly
  <2>1. SafeDay(e.day) /\ e \in Of(e.day)
    BY DEF ArchInv, FilesSafe, DirInv, Of
  <2> QED
    BY <2>1 DEF SafeDay, Compressing
<1> QED
  BY <1>1, ArchInitially, ArchInductive, PTL DEF Spec

-----------------------------------------------------------------------------
(* The RCON live guard.                                                     *)

SlotHoldsSource ==
  guard = "kick" => slot \in Slots /\ (handed \/ players[slot] = target)

GInv == players \in [Slots -> Ips \union {Nobody}] /\ SlotHoldsSource

\* The slot found in an answer is one of the source of the attempt.
LEMMA FoundHoldsIt ==
  ASSUME NEW shown \in SUBSET Slots, NEW ip, FindPlayerSlotByIp(shown, ip) # NoSlot
  PROVE  /\ FindPlayerSlotByIp(shown, ip) \in Slots
         /\ players[FindPlayerSlotByIp(shown, ip)] = ip
<1> DEFINE found == {s \in shown : players[s] = ip}
<1>1. found # {} /\ FindPlayerSlotByIp(shown, ip) = Min(found)
  BY DEF FindPlayerSlotByIp
<1>2. found \subseteq Nat
  BY GuardAssumption
<1>3. Min(found) \in found
  <2> HIDE DEF found
  <2> QED
    BY <1>1, <1>2, MinOfNaturals
<1> QED
  BY <1>1, <1>3

\* The guard has not looked for anybody when it starts.
LEMMA GuardInitially == GuardInit => GInv
BY DEF GuardInit, GInv, SlotHoldsSource

\* The worker's steps, the game's and time keep the invariant.
LEMMA GuardInductive == GInv /\ [GuardNext]_guardVars => GInv'
<1> SUFFICES ASSUME GInv, [GuardNext]_guardVars PROVE GInv'
  OBVIOUS
<1> USE DEF GInv, SlotHoldsSource
<1>1. ASSUME NEW shown \in FirstRows, StatusAnswered(shown) PROVE GInv'
  <2>1. shown \in SUBSET Slots
    BY DEF FirstRows
  <2>2. slot' = FindPlayerSlotByIp(shown, target) /\ UNCHANGED players
    BY <1>1 DEF StatusAnswered
  <2>3. CASE slot' = NoSlot
    BY <1>1, <2>2, <2>3 DEF StatusAnswered
  <2>4. CASE slot' # NoSlot
    <3>1. slot' \in Slots /\ players[slot'] = target
      BY <2>1, <2>2, <2>4, FoundHoldsIt
    <3>2. target' = target
      BY <1>1, <2>4 DEF StatusAnswered
    <3> QED
      BY <2>2, <3>1, <3>2
  <2> QED
    BY <2>3, <2>4
<1>2. CASE StartGuardTail \/ HandleLine \/ GuardTailExits
  BY <1>2 DEF StartGuardTail, HandleLine, GuardTailExits
<1>3. CASE Kick \/ KickLost \/ Broadcast \/ Stop
  BY <1>3 DEF Kick, KickLost, Broadcast, Stop
<1>4. ASSUME NEW s \in Slots, Disconnect(s) PROVE GInv'
  BY <1>4 DEF Disconnect
<1>5. ASSUME NEW s \in Slots, NEW ip \in Ips, Connect(s, ip) PROVE GInv'
  BY <1>5 DEF Connect
<1>6. ASSUME NEW line \in Lines, LinePrinted(line) PROVE GInv'
  BY <1>6 DEF LinePrinted, workVars
<1>7. CASE Clock
  BY <1>7 DEF Clock, workVars
<1>8. CASE UNCHANGED guardVars
  BY <1>8 DEF guardVars, workVars
<1> QED
  BY <1>1, <1>2, <1>3, <1>4, <1>5, <1>6, <1>7, <1>8 DEF GuardNext, Work

\* A player who does not sit at the source of an attempt is not kicked for it,
\* unless the slot changed hands after the answer to status.
THEOREM OthersAreLeftAlone == GuardSpec => OnlyTheSourceIsKicked
<1> DEFINE Hit == Kick /\ ~handed /\ players[slot] # Nobody => players[slot] = target
<1>1. GInv => Hit
  BY DEF GInv, SlotHoldsSource, Kick
<1>2. GuardSpec => []GInv
  BY GuardInitially, GuardInductive, PTL DEF GuardSpec
<1>3. GInv /\ [GuardNext]_guardVars => [Hit]_guardVars
  BY <1>1
<1> QED
  BY <1>2, <1>3, PTL DEF GuardSpec, OnlyTheSourceIsKicked

\* A number of ticks is one of zero and more.
LEMMA AtLeastZero == \A n \in Int : Max({0, n}) \in Nat
<1> SUFFICES ASSUME NEW n \in Int PROVE Max({0, n}) \in Nat
  OBVIOUS
<1>1. \E m \in {0, n} : \A k \in {0, n} : m >= k
  <2>1. CASE n >= 0
    BY <2>1
  <2>2. CASE ~(n >= 0)
    BY <2>2
  <2> QED
    BY <2>1, <2>2
<1>2. Max({0, n}) \in {0, n} /\ \A k \in {0, n} : Max({0, n}) >= k
  BY <1>1 DEF Max
<1> QED
  BY <1>2

\* Whatever the file gives, the interval loaded is a number of ticks.
LEMMA IntervalIsATime == \A f \in Files : LoadConfig(f).interval \in Nat
<1> SUFFICES ASSUME NEW f \in Files PROVE LoadConfig(f).interval \in Nat
  OBVIOUS
<1>1. Defaults.interval = 10 /\ "interval" \in DOMAIN Defaults /\ "patterns" \in DOMAIN Defaults
  BY DEF Defaults
<1> DEFINE loaded == [k \in DOMAIN Defaults |-> IF k \in DOMAIN f THEN f[k] ELSE Defaults[k]]
<1>2. loaded.interval \in Int
  BY <1>1, GuardAssumption
<1>3. LoadConfig(f) = [loaded EXCEPT !.interval = Max({0, @}),
                                     !.patterns = CompilePatterns(IF @ = {} THEN Defaults.patterns ELSE @)]
  BY DEF LoadConfig
<1>4. DOMAIN loaded = DOMAIN Defaults
  OBVIOUS
<1> HIDE DEF loaded
<1>5. LoadConfig(f).interval = Max({0, loaded.interval})
  BY <1>1, <1>3, <1>4
<1> QED
  BY <1>2, <1>5, AtLeastZero

\* The live guard is well typed, whatever the game, the network and tail do.
THEOREM GuardTyping == GuardSpec => []TypeOK
<1>1. GuardInit => TypeOK
  <2> SUFFICES ASSUME GuardInit PROVE TypeOK
    OBVIOUS
  <2>1. PICK f \in Files : config = LoadConfig(f)
    BY DEF GuardInit
  <2>2. PICK up \in 0 .. MaxUptime : cooling = [ip \in Ips |-> Max({0, config.interval - up})]
    BY DEF GuardInit
  <2>3. Max({0, config.interval - up}) \in Nat
    BY <2>1, GuardAssumption, IntervalIsATime, AtLeastZero
  <2>4. cooling \in [Ips -> Nat]
    BY <2>2, <2>3
  <2>5. unread \in Seq(Lines) /\ Len(unread) <= FeedCap
    BY GuardAssumption DEF GuardInit
  <2> QED
    BY <2>1, <2>4, <2>5 DEF GuardInit, TypeOK
<1>2. TypeOK /\ GInv /\ [GuardNext]_guardVars => TypeOK'
  <2> SUFFICES ASSUME TypeOK, GInv, [GuardNext]_guardVars PROVE TypeOK'
    OBVIOUS
  <2>1. config.interval \in Nat
    BY IntervalIsATime DEF TypeOK
  <2>2. ASSUME unread # <<>> PROVE /\ Head(unread) \in Lines /\ Tail(unread) \in Seq(Lines)
                                   /\ Len(Tail(unread)) <= FeedCap
    BY <2>2, GuardAssumption DEF TypeOK
  <2> USE DEF TypeOK
  <2>3. CASE StartGuardTail \/ GuardTailExits
    BY <2>3 DEF StartGuardTail, GuardTailExits
  <2>4. CASE HandleLine
    <3>1. Head(unread).ip \in Ips
      BY <2>2, <2>4 DEF HandleLine, Lines
    <3> QED
      BY <2>1, <2>2, <2>4, <3>1 DEF HandleLine
  <2>5. ASSUME NEW shown \in FirstRows, StatusAnswered(shown) PROVE TypeOK'
    <3>1. shown \in SUBSET Slots
      BY DEF FirstRows
    <3>2. slot' \in Slots \union {NoSlot}
      BY <2>5, <3>1, FoundHoldsIt DEF StatusAnswered
    <3> QED
      BY <2>5, <3>2 DEF StatusAnswered
  <2>6. CASE Kick \/ KickLost
    BY <2>6 DEF Kick, KickLost
  <2>7. CASE Broadcast \/ Stop
    BY <2>7 DEF Broadcast, Stop
  <2>8. ASSUME NEW s \in Slots, Disconnect(s) \/ \E ip \in Ips : Connect(s, ip) PROVE TypeOK'
    BY <2>8 DEF Disconnect, Connect
  <2>9. ASSUME NEW line \in Lines, LinePrinted(line) PROVE TypeOK'
    BY <2>9, GuardAssumption DEF LinePrinted, workVars
  <2>10. CASE Clock
    <3>1. \A ip \in Ips : Max({0, cooling[ip] - 1}) \in Nat
      BY AtLeastZero
    <3> QED
      BY <2>10, <3>1 DEF Clock, workVars
  <2>11. CASE UNCHANGED guardVars
    BY <2>11 DEF guardVars, workVars
  <2> QED
    BY <2>3, <2>4, <2>5, <2>6, <2>7, <2>8, <2>9, <2>10, <2>11 DEF GuardNext, Work
<1> QED
  BY <1>1, <1>2, GuardInitially, GuardInductive, PTL DEF GuardSpec

=============================================================================
