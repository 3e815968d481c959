---------------------------- MODULE AnnouncerProofs ----------------------------
(***************************************************************************)
(* Proofs about Announcer, for any number of launches, any configurations   *)
(* and any bounds.                                                          *)
(*                                                                          *)
(* The workers: OneWorkerRemains.  Only AnnouncerWorker's part of a step    *)
(* matters: the loops leave launches, workers and the lock alone.           *)
(* The inductive invariant WInv says who holds the lock (HeldByWorker,      *)
(* HeldByProber), that a child is not there before its launch starts it     *)
(* (ChildComesLater), and why a launch that gave up did so rightly          *)
(* (SomebodyGoesOn): somebody works, or is about to, or is yet to try.      *)
(*                                                                          *)
(* The loops: EditsPickedUp and OncePerDay, from LoopInv, and NoSlotMissed, *)
(* from SlotInv on top of it.  LoopInv follows the clock through a sleep    *)
(* and a firing pass (OnTime), how old the configuration in memory can be   *)
(* (StaleForOneSleep), and what lastFired says of the slots that were sent  *)
(* (Remembered, SentIsRemembered).                                          *)
(***************************************************************************)
EXTENDS Announcer, FiniteSetTheorems, NaturalsInduction, WellFoundedInduction, TLAPS

Works(l) == worker[l] \in {"locked", "running"}

HeldByWorker == \A l \in Launches : Works(l) <=> lock = Holder(l)

HeldByProber == \A l \in Launches : launcher[l] = "probing" <=> lock = Prober(l)

ChildComesLater ==
  \A l \in Launches : launcher[l] \in {"idle", "probe", "probing", "spawn"} => worker[l] = "none"

\* A launch is done only where this holds.
GoesOn(l) == Works(l) \/ worker[l] = "starting" \/ launcher[l] \in {"probing", "spawn"}

SomebodyGoesOn ==
  intact /\ (\E l \in Launches : launcher[l] = "done")
    => \E l \in Launches : GoesOn(l)

WInv == WorkerTypeOK /\ HeldByWorker /\ HeldByProber /\ ChildComesLater /\ SomebodyGoesOn

-----------------------------------------------------------------------------
(* The lock.                                                                *)

\* Nobody, a prober and a holder are different, and so are two of a kind.
LEMMA LockFacts ==
  /\ \A k, l : Holder(k) = Holder(l) => k = l
  /\ \A k, l : Prober(k) = Prober(l) => k = l
  /\ \A k, l : Prober(k) # Holder(l)
  /\ \A l : Nobody # Holder(l) /\ Nobody # Prober(l)
<1>1. \A l : Holder(l).of = l /\ Prober(l).of = l
  BY DEF Holder, Prober
<1>2. \A l : Holder(l).by = "worker" /\ Prober(l).by = "launcher"
  BY DEF Holder, Prober
<1>3. Nobody.by = "nobody"
  BY DEF Nobody
<1> QED
  BY <1>1, <1>2, <1>3

\* Whoever finds the lock taken can tell that somebody goes on.
LEMMA TakenMeansGoingOn ==
  ASSUME WInv, lock # Nobody
  PROVE  \E l \in Launches : Works(l) \/ launcher[l] = "probing"
BY DEF WInv, WorkerTypeOK, HeldByWorker, HeldByProber

\* There is no second worker, since there is no second holder.
LEMMA OneAtMost ==
  ASSUME HeldByWorker
  PROVE  Cardinality(Announcing) <= 1
<1>1. CASE Announcing = {}
  BY <1>1, FS_EmptySet
<1>2. CASE Announcing # {}
  <2>1. PICK l \in Launches : l \in Announcing
    BY <1>2 DEF Announcing
  <2>2. \A k \in Announcing : lock = Holder(k)
    BY DEF HeldByWorker, Announcing, Works
  <2>3. Announcing = {l}
    BY <2>1, <2>2, LockFacts
  <2>4. Cardinality({l}) = 1
    BY FS_Singleton
  <2> QED
    BY <2>3, <2>4
<1> QED
  BY <1>1, <1>2

-----------------------------------------------------------------------------
(* The steps of a launch.                                                   *)

\* A launch that is not disabled begins with its probe.
LEMMA LaunchKeeps ==
  ASSUME WInv, NEW l \in Launches, NEW enabled, Launch(l, enabled)
  PROVE  WInv'
<1> USE DEF WInv
<1>1. /\ launcher' = [launcher EXCEPT ![l] = IF enabled THEN "probe" ELSE "done"]
      /\ launcher[l] = "idle" /\ intact' = (intact /\ enabled)
      /\ UNCHANGED <<worker, lock>>
  BY DEF Launch, LauncherAt
<1>2. WorkerTypeOK'
  BY <1>1 DEF WorkerTypeOK
<1>3. (HeldByWorker /\ HeldByProber /\ ChildComesLater)'
  BY <1>1 DEF WorkerTypeOK, HeldByWorker, HeldByProber, ChildComesLater, Works
<1>4. SomebodyGoesOn'
  BY <1>1 DEF WorkerTypeOK, SomebodyGoesOn, GoesOn, Works
<1> QED
  BY <1>2, <1>3, <1>4

\* A probe takes the lock, or finds it taken by somebody who goes on.
LEMMA ProbeKeeps ==
  ASSUME WInv, NEW l \in Launches, Probe(l)
  PROVE  WInv'
<1> USE DEF WInv
<1>1. launcher[l] = "probe" /\ UNCHANGED <<worker, intact>>
  BY DEF Probe, LauncherAt
<1>2. CASE lock = Nobody /\ launcher' = [launcher EXCEPT ![l] = "probing"] /\ lock' = Prober(l)
  <2>1. WorkerTypeOK'
    BY <1>1, <1>2 DEF WorkerTypeOK
  <2>2. (HeldByWorker /\ HeldByProber /\ ChildComesLater)'
    BY <1>1, <1>2, LockFacts DEF WorkerTypeOK, HeldByWorker, HeldByProber, ChildComesLater, Works
  <2>3. SomebodyGoesOn'
    BY <1>1, <1>2 DEF WorkerTypeOK, SomebodyGoesOn, GoesOn, Works
  <2> QED
    BY <2>1, <2>2, <2>3
<1>3. CASE lock # Nobody /\ launcher' = [launcher EXCEPT ![l] = "done"] /\ UNCHANGED lock
  <2>1. WorkerTypeOK'
    BY <1>1, <1>3 DEF WorkerTypeOK
  <2>2. (HeldByWorker /\ HeldByProber /\ ChildComesLater)'
    BY <1>1, <1>3 DEF WorkerTypeOK, HeldByWorker, HeldByProber, ChildComesLater, Works
  <2>3. PICK k \in Launches : Works(k) \/ launcher[k] = "probing"
    BY <1>3, TakenMeansGoingOn
  <2>4. GoesOn(k)'
    BY <1>1, <1>3, <2>3 DEF WorkerTypeOK, GoesOn, Works
  <2> QED
    BY <2>1, <2>2, <2>4 DEF SomebodyGoesOn
<1> QED
  BY <1>2, <1>3 DEF Probe, LauncherAt

\* A launch whose probe found nobody goes on to start its child.
LEMMA ReleaseKeeps ==
  ASSUME WInv, NEW l \in Launches, Release(l)
  PROVE  WInv'
<1> USE DEF WInv
<1>1. /\ launcher[l] = "probing" /\ launcher' = [launcher EXCEPT ![l] = "spawn"]
      /\ lock' = Nobody /\ UNCHANGED <<worker, intact>>
  BY DEF Release, LauncherAt
<1>2. WorkerTypeOK'
  BY <1>1 DEF WorkerTypeOK
<1>3. lock = Prober(l)
  BY <1>1 DEF HeldByProber
<1>4. (HeldByWorker /\ HeldByProber /\ ChildComesLater)'
  BY <1>1, <1>3, LockFacts DEF WorkerTypeOK, HeldByWorker, HeldByProber, ChildComesLater, Works
<1>5. SomebodyGoesOn'
  BY <1>1 DEF WorkerTypeOK, SomebodyGoesOn, GoesOn, Works
<1> QED
  BY <1>2, <1>4, <1>5

\* The child is new, and starts.
LEMMA SpawnKeeps ==
  ASSUME WInv, NEW l \in Launches, Spawn(l)
  PROVE  WInv'
<1> USE DEF WInv
<1>1. /\ launcher[l] = "spawn" /\ launcher' = [launcher EXCEPT ![l] = "done"]
      /\ worker' = [worker EXCEPT ![l] = "starting"] /\ UNCHANGED <<lock, intact>>
  BY DEF Spawn, LauncherAt
<1>2. WorkerTypeOK'
  BY <1>1 DEF WorkerTypeOK
<1>3. worker[l] = "none"
  BY <1>1 DEF ChildComesLater
<1>4. (HeldByWorker /\ HeldByProber /\ ChildComesLater)'
  BY <1>1, <1>3 DEF WorkerTypeOK, HeldByWorker, HeldByProber, ChildComesLater, Works
<1>5. GoesOn(l)'
  BY <1>1 DEF WorkerTypeOK, GoesOn
<1> QED
  BY <1>2, <1>4, <1>5 DEF SomebodyGoesOn

\* A launch that cannot start its child is not intact.
LEMMA SpawnFailsKeeps ==
  ASSUME WInv, NEW l \in Launches, SpawnFails(l)
  PROVE  WInv'
<1> USE DEF WInv
<1>1. /\ launcher[l] = "spawn" /\ launcher' = [launcher EXCEPT ![l] = "done"]
      /\ intact' = FALSE /\ UNCHANGED <<worker, lock>>
  BY DEF SpawnFails, LauncherAt
<1>2. WorkerTypeOK'
  BY <1>1 DEF WorkerTypeOK
<1> QED
  BY <1>1, <1>2 DEF WorkerTypeOK, HeldByWorker, HeldByProber, ChildComesLater, SomebodyGoesOn, Works

-----------------------------------------------------------------------------
(* The steps of a worker.                                                   *)

\* A child takes the lock, or gives up in favour of somebody who goes on.
LEMMA AcquireKeeps ==
  ASSUME WInv, NEW l \in Launches, AcquireLock(l)
  PROVE  WInv'
<1> USE DEF WInv
<1>1. worker[l] = "starting" /\ UNCHANGED <<launcher, intact>>
  BY DEF AcquireLock, WorkerAt
<1>2. CASE lock = Nobody /\ worker' = [worker EXCEPT ![l] = "locked"] /\ lock' = Holder(l)
  <2>1. WorkerTypeOK'
    BY <1>1, <1>2 DEF WorkerTypeOK
  <2>2. (HeldByWorker /\ HeldByProber /\ ChildComesLater)'
    BY <1>1, <1>2, LockFacts DEF WorkerTypeOK, HeldByWorker, HeldByProber, ChildComesLater, Works
  <2>3. GoesOn(l)'
    BY <1>2 DEF WorkerTypeOK, GoesOn, Works
  <2> QED
    BY <2>1, <2>2, <2>3 DEF SomebodyGoesOn
<1>3. CASE lock # Nobody /\ worker' = [worker EXCEPT ![l] = "gone"] /\ UNCHANGED lock
  <2>1. WorkerTypeOK'
    BY <1>1, <1>3 DEF WorkerTypeOK
  <2>2. (HeldByWorker /\ HeldByProber /\ ChildComesLater)'
    BY <1>1, <1>3 DEF WorkerTypeOK, HeldByWorker, HeldByProber, ChildComesLater, Works
  <2>3. PICK k \in Launches : Works(k) \/ launcher[k] = "probing"
    BY <1>3, TakenMeansGoingOn
  <2>4. GoesOn(k)'
    BY <1>1, <1>3, <2>3 DEF WorkerTypeOK, GoesOn, Works
  <2> QED
    BY <2>1, <2>2, <2>4 DEF SomebodyGoesOn
<1> QED
  BY <1>2, <1>3 DEF AcquireLock, WorkerAt

\* A worker that installs its handlers still works.
LEMMA HandlersKeep ==
  ASSUME WInv, NEW l \in Launches, InstallHandlers(l)
  PROVE  WInv'
<1> USE DEF WInv
<1>1. /\ worker[l] = "locked" /\ worker' = [worker EXCEPT ![l] = "running"]
      /\ UNCHANGED <<launcher, lock, intact>>
  BY DEF InstallHandlers, WorkerAt
<1>2. WorkerTypeOK'
  BY <1>1 DEF WorkerTypeOK
<1>3. (HeldByWorker /\ HeldByProber /\ ChildComesLater)'
  BY <1>1 DEF WorkerTypeOK, HeldByWorker, HeldByProber, ChildComesLater, Works
<1>4. SomebodyGoesOn'
  BY <1>1 DEF WorkerTypeOK, SomebodyGoesOn, GoesOn, Works
<1> QED
  BY <1>2, <1>3, <1>4

\* The lock a worker gives up on leaving is its own.
LEMMA LeaveKeeps ==
  ASSUME WInv, NEW l \in Launches, Leave(l)
  PROVE  WInv'
<1> USE DEF WInv
<1>1. /\ worker[l] = "running" /\ worker' = [worker EXCEPT ![l] = "gone"]
      /\ lock' = Nobody /\ intact' = FALSE /\ UNCHANGED <<launcher>>
  BY DEF Leave, WorkerAt
<1>2. WorkerTypeOK'
  BY <1>1 DEF WorkerTypeOK
<1>3. lock = Holder(l)
  BY <1>1 DEF HeldByWorker, Works
<1>4. (HeldByWorker /\ HeldByProber /\ ChildComesLater)'
  BY <1>1, <1>3, LockFacts DEF WorkerTypeOK, HeldByWorker, HeldByProber, ChildComesLater, Works
<1> QED
  BY <1>1, <1>2, <1>4 DEF SomebodyGoesOn

\* The operating system releases the lock of a worker that is killed.
LEMMA KilledKeeps ==
  ASSUME WInv, NEW l \in Launches, Killed(l)
  PROVE  WInv'
<1> USE DEF WInv
<1>1. /\ worker[l] \in {"starting", "locked", "running"}
      /\ worker' = [worker EXCEPT ![l] = "gone"] /\ lock' = Unlocked(l)
      /\ intact' = FALSE /\ UNCHANGED <<launcher>>
  BY DEF Killed
<1>2. WorkerTypeOK'
  BY <1>1 DEF WorkerTypeOK, Unlocked
<1>3. (HeldByWorker /\ HeldByProber /\ ChildComesLater)'
  BY <1>1, LockFacts
     DEF WorkerTypeOK, HeldByWorker, HeldByProber, ChildComesLater, Works, Unlocked
<1> QED
  BY <1>1, <1>2, <1>3 DEF SomebodyGoesOn

\* The loops and the clock are none of the launches' business.
LEMMA WorkerStutterKeeps ==
  ASSUME WInv, UNCHANGED workerVars
  PROVE  WInv'
BY DEF WInv, workerVars, WorkerTypeOK, HeldByWorker, HeldByProber, ChildComesLater,
       SomebodyGoesOn, GoesOn, Works

-----------------------------------------------------------------------------
(* The theorem.                                                             *)

\* No launch has happened yet.
LEMMA WorkerInitially == Init => WInv
<1> SUFFICES ASSUME Init PROVE WInv
  OBVIOUS
<1>1. WorkerInit
  BY DEF Init
<1> QED
  BY <1>1, LockFacts DEF WorkerInit, WInv, WorkerTypeOK, HeldByWorker, HeldByProber,
     ChildComesLater, SomebodyGoesOn, Works

\* Every step of the announcer keeps the invariant.
LEMMA WorkerInductive == WInv /\ [Next]_vars => WInv'
<1> SUFFICES ASSUME WInv, [Next]_vars PROVE WInv'
  OBVIOUS
<1>1. CASE Clock \/ (\E c \in Configs : Edit(c)) \/ UNCHANGED vars
  <2>1. UNCHANGED workerVars
    BY <1>1 DEF Clock, Edit, vars
  <2> QED
    BY <2>1, WorkerStutterKeeps
<1>2. ASSUME NEW l \in Launches, Start(l) PROVE WInv'
  <2>1. Launch(l, Loaded(file).enabled)
    BY <1>2 DEF Start
  <2> QED
    BY <2>1, LaunchKeeps
<1>3. ASSUME NEW l \in Launches, LoopStep(l) PROVE WInv'
  <2>1. Leave(l) \/ UNCHANGED workerVars
    BY <1>3 DEF LoopStep, DelayOver, Quit, SwitchLoop, IntervalTop, ScheduledTop, WakeUp,
                FireEntry, PassOver, Dispatched
  <2> QED
    BY <2>1, LeaveKeeps, WorkerStutterKeeps
<1>4. ASSUME NEW l \in Launches, Begin(l) \/ Sigterm(l) \/ Crash(l) PROVE WInv'
  BY <1>4, HandlersKeep, WorkerStutterKeeps, KilledKeeps DEF Begin, Sigterm, Crash
<1>5. ASSUME NEW l \in Launches, LaunchStep(l) \/ AcquireLock(l)
      PROVE  WInv'
  BY <1>5, ProbeKeeps, ReleaseKeeps, SpawnKeeps, SpawnFailsKeeps, AcquireKeeps
     DEF LaunchStep
<1> QED
  BY <1>1, <1>2, <1>3, <1>4, <1>5 DEF Next

\* However many launches overlap, whichever fail and whatever is killed: there
\* is never a second worker, and one is left when all launches are through.
THEOREM OneWorkerStays == Spec => []OneWorkerRemains
<1>1. WInv => OneWorkerRemains
  <2> SUFFICES ASSUME WInv PROVE OneWorkerRemains
    OBVIOUS
  <2>1. Cardinality(Announcing) <= 1
    BY OneAtMost DEF WInv
  <2>2. ASSUME intact, \E l \in Launches : launcher[l] = "done",
               \A l \in Launches : launcher[l] \in {"idle", "done"} /\ worker[l] # "starting"
        PROVE  Announcing # {}
    <3>1. PICK l \in Launches : GoesOn(l)
      BY <2>2 DEF WInv, SomebodyGoesOn
    <3> QED
      BY <2>2, <3>1 DEF GoesOn, Works, Announcing
  <2> QED
    BY <2>1, <2>2 DEF OneWorkerRemains
<1> QED
  BY <1>1, WorkerInitially, WorkerInductive, PTL DEF Spec

-----------------------------------------------------------------------------
(* The loops.                                                               *)

Scheduled == loop.mode = "schedule"
Asleep == Scheduled /\ loop.at = "sleep"
Firing == Scheduled /\ loop.at \in {"fire", "send"}
Sending == Scheduled /\ loop.at = "send"

Passes == [at : Nat, i : Nat \ {0}, day : Nat, waited : BOOLEAN]

Entries == [kind : {"daily"}, n : 0 .. (DayLength - 1)] \union [kind : {"every"}, n : Nat]

\* The loop has a list of entries, at times that are numbers.
LoopTyping ==
  /\ now \in Nat /\ editedAt \in Nat /\ editedAt <= now /\ file \in Configs
  /\ loop.at \in {"top", "sleep", "send"} => loop.mode \in {"interval", "schedule"}
  /\ Scheduled => loop.at \in {"top", "sleep", "fire", "send"}
  /\ cfg.schedule \in Seq(Entries)
  /\ Scheduled => \A i \in DOMAIN deadlines : deadlines[i] \in Nat
  /\ Asleep => wakeAt \in Nat
  /\ Firing => pass \in Passes
  /\ Sending => pass.i <= Len(cfg.schedule)

\* Nobody oversleeps, and a pass takes a tick for each entry at most.
OnTime ==
  /\ Asleep => now <= wakeAt /\ wakeAt <= now + MaxSleep
  /\ Firing => /\ pass.at <= now
               /\ now <= pass.at + pass.i - 1 + (IF pass.waited THEN 1 ELSE 0)
               /\ pass.i <= Len(cfg.schedule) + 1
               /\ loop.at = "fire" => ~pass.waited

\* A worker without the edited file had begun to sleep before it was edited.
StaleForOneSleep ==
  /\ Asleep /\ ~FromEnv => cfg = Loaded(file) \/ wakeAt <= editedAt + MaxSleep
  /\ Firing /\ ~FromEnv => cfg = Loaded(file) \/ pass.at <= editedAt + MaxSleep

\* What is remembered of the slots is of the past, and of the days before the
\* sleep where the pass has not been yet.
Remembered ==
  Scheduled =>
    /\ today \in Nat /\ today <= Day(now)
    /\ DOMAIN lastFired \subseteq Nat
    /\ \A i \in DOMAIN lastFired :
         /\ lastFired[i] \in Nat /\ lastFired[i] <= Day(now)
         /\ Asleep \/ (Firing /\ pass.i <= i) => lastFired[i] <= today

\* Nothing sent is forgotten, and the slot at hand is none that was sent.
SentIsRemembered ==
  Scheduled =>
    /\ \A s \in sent : /\ s = <<s[1], s[2]>> /\ s[2] \in Nat
                       /\ s[1] \in Indices(cfg, "daily") \intersect DOMAIN lastFired
                       /\ s[2] <= lastFired[s[1]]
    /\ Sending /\ cfg.schedule[pass.i].kind = "daily" =>
         /\ pass.day \in Nat /\ today <= pass.day /\ pass.day <= Day(now)
         /\ <<pass.i, pass.day>> \notin sent

LoopInv == LoopTyping /\ OnTime /\ StaleForOneSleep /\ Remembered /\ SentIsRemembered

LEMMA PassTyping ==
  ASSUME LoopTyping, Firing
  PROVE  /\ pass \in Passes /\ pass.at \in Nat /\ pass.i \in Nat \ {0} /\ pass.day \in Nat
         /\ pass.waited \in BOOLEAN
<1>1. pass \in Passes
  BY DEF LoopTyping
<1> QED
  BY <1>1 DEF Passes

LEMMA PassTiming ==
  ASSUME LoopTyping, OnTime, Firing
  PROVE  /\ now \in Nat /\ pass.at <= now /\ cfg.schedule \in Seq(Entries)
         /\ now <= pass.at + pass.i
         /\ ~pass.waited => now <= pass.at + pass.i - 1
<1>1. now \in Nat /\ cfg.schedule \in Seq(Entries)
  BY DEF LoopTyping, Firing
<1>2. /\ pass.at <= now
      /\ now <= pass.at + pass.i - 1 + (IF pass.waited THEN 1 ELSE 0)
  BY DEF OnTime
<1> QED
  BY <1>1, <1>2, PassTyping

-----------------------------------------------------------------------------
(* The days, and the sleep.                                                 *)

LEMMA DayFacts ==
  /\ \A t \in Nat : Day(t) \in Nat /\ Day(t) * DayLength <= t /\ t < Day(t) * DayLength + DayLength
  /\ \A s, t \in Nat : s <= t => Day(s) <= Day(t)
<1>1. ASSUME NEW t \in Nat
      PROVE  t \div DayLength \in Nat /\ (t \div DayLength) * DayLength <= t
             /\ t < (t \div DayLength) * DayLength + DayLength
  BY AnnouncerAssumption
<1>2. ASSUME NEW s \in Nat, NEW t \in Nat, s <= t PROVE s \div DayLength <= t \div DayLength
  BY <1>2, AnnouncerAssumption
<1> QED
  BY <1>1, <1>2 DEF Day

\* A set of numbers that is not empty has a least one.
LEMMA LeastOfNaturals ==
  ASSUME NEW S, S \subseteq Nat, S # {}
  PROVE  Min(S) \in S /\ \A y \in S : Min(S) <= y
<1> DEFINE R == OpToRel(<, Nat)
<1>1. PICK x \in S : \A y \in S : <<y, x>> \notin R
  <2>1. IsWellFoundedOn(R, Nat)
    BY NatLessThanWellFounded
  <2> HIDE DEF R
  <2> QED
    BY <2>1, WFMin
<1>2. ASSUME NEW y \in S PROVE x <= y
  <2>1. x \in Nat /\ y \in Nat
    BY <1>1
  <2>2. y < x => <<y, x>> \in R
    BY <2>1 DEF OpToRel
  <2> QED
    <3> HIDE DEF R
    <3> QED
      BY <1>1, <2>1, <2>2
<1> QED
  BY <1>2 DEF Min

\* The time to an entry is none, or some time.
LEMMA PositivePart ==
  ASSUME NEW x \in Int
  PROVE  Max({0, x}) \in Nat
<1>1. \E m \in {0, x} : \A y \in {0, x} : y <= m
  BY SMT
<1>2. Max({0, x}) \in {0, x} /\ \A y \in {0, x} : y <= Max({0, x})
  BY <1>1 DEF Max
<1> QED
  BY <1>2

LEMMA UntilSlotIsNatural ==
  ASSUME now \in Nat, NEW t \in 0 .. (DayLength - 1), NEW fired \in BOOLEAN
  PROVE  UntilSlot(t, fired) \in Nat
<1>1. Day(now) \in Nat /\ now < Day(now) * DayLength + DayLength
  BY DayFacts
<1> DEFINE base == Day(now) * DayLength
<1>2. base \in Nat /\ DayLength \in Nat \ {0}
  BY <1>1, AnnouncerAssumption
<1>3. now < base + DayLength
  BY <1>1
<1> HIDE DEF base
<1>4. (IF now < base + t THEN (base + t) - now ELSE IF ~fired THEN 0 ELSE base + t + DayLength - now) \in Nat
  BY <1>2, <1>3
<1> QED
  BY <1>4 DEF UntilSlot, base

\* The sleep is never longer than it may be.
LEMMA SleepIsShort ==
  ASSUME now \in Nat, NEW c, c.schedule \in Seq(Entries),
         \A i \in DOMAIN deadlines : deadlines[i] \in Nat
  PROVE  SleepFor(c) \in Nat /\ SleepFor(c) <= MaxSleep
         /\ \A h \in Horizon(c) : h \in Nat /\ SleepFor(c) <= h
<1>1. \A i \in DOMAIN c.schedule : c.schedule[i] \in Entries
  OBVIOUS
<1>2. ASSUME NEW i \in Indices(c, "daily")
      PROVE  UntilSlot(c.schedule[i].n, FiredOn(i, Day(now))) \in Nat
  <2>1. c.schedule[i].n \in 0 .. (DayLength - 1)
    BY <1>1, <1>2 DEF Indices, Entries
  <2>2. FiredOn(i, Day(now)) \in BOOLEAN
    BY DEF FiredOn
  <2> QED
    BY <2>1, <2>2, UntilSlotIsNatural
<1>3. ASSUME NEW i \in Indices(c, "every")
      PROVE  Max({0, Reconciled(c)[i] - now}) \in Nat
  <2>1. c.schedule[i].n \in Nat
    BY <1>1, <1>3 DEF Indices, Entries
  <2>2. Reconciled(c)[i] \in Nat
    BY <1>3, <2>1 DEF Reconciled
  <2>3. Reconciled(c)[i] - now \in Int
    BY <2>2
  <2> QED
    BY <2>3, PositivePart
<1>4. Horizon(c) \subseteq Nat
  BY <1>2, <1>3 DEF Horizon
<1>5. Horizon(c) \union {MaxSleep} \subseteq Nat
  BY <1>4, AnnouncerAssumption
<1>6. SleepFor(c) \in Horizon(c) \union {MaxSleep}
      /\ \A h \in Horizon(c) \union {MaxSleep} : SleepFor(c) <= h
  BY <1>5, LeastOfNaturals DEF SleepFor
<1> QED
  BY <1>4, <1>5, <1>6

-----------------------------------------------------------------------------
(* The steps.                                                               *)

\* Each rank up to the size of a finite set of naturals is that of an element.
LEMMA EachRank ==
  ASSUME NEW K, K \subseteq Nat, IsFiniteSet(K), NEW n \in 1 .. Cardinality(K)
  PROVE  \E i \in K : Rank(i, K) = n
<1> DEFINE Upto(i) == {j \in K : j <= i}
           r == [i \in K |-> Rank(i, K)]
           m == Cardinality(K)
<1>1. m \in Nat
  BY FS_CardinalityType
<1>2. ASSUME NEW i \in K PROVE IsFiniteSet(Upto(i)) /\ Rank(i, K) \in 1 .. m
  <2>1. IsFiniteSet(Upto(i)) /\ Cardinality(Upto(i)) <= m
    BY FS_Subset
  <2>2. Cardinality(Upto(i)) \in Nat
    BY <2>1, FS_CardinalityType
  <2>3. Upto(i) # {}
    OBVIOUS
  <2>4. Cardinality(Upto(i)) # 0
    BY <2>1, <2>3, FS_EmptySet
  <2> QED
    BY <1>1, <2>1, <2>2, <2>4 DEF Rank
<1>3. ASSUME NEW i \in K, NEW j \in K, i < j PROVE Rank(i, K) < Rank(j, K)
  <2>0. i \in Nat /\ j \in Nat /\ \A k \in K : k \in Nat
    OBVIOUS
  <2>1. Upto(i) \subseteq Upto(j) /\ j \in Upto(j) /\ j \notin Upto(i)
    <3>1. \A k \in K : k <= i => k <= j
      BY <1>3, <2>0
    <3>2. j <= j /\ ~(j <= i)
      BY <1>3, <2>0
    <3> QED
      BY <3>1, <3>2
  <2>2. IsFiniteSet(Upto(j)) /\ Upto(i) # Upto(j)
    BY <1>2, <2>1
  <2>3. Cardinality(Upto(i)) < Cardinality(Upto(j))
    <3> HIDE DEF Upto
    <3> QED
      BY <2>1, <2>2, FS_Subset, FS_CardinalityType
  <2> QED
    BY <2>3 DEF Rank
<1>4. \A i, j \in K : Rank(i, K) = Rank(j, K) => i = j
  <2> SUFFICES ASSUME NEW i \in K, NEW j \in K, i # j PROVE Rank(i, K) # Rank(j, K)
    OBVIOUS
  <2>1. i \in Nat /\ j \in Nat /\ Rank(i, K) \in 1 .. m /\ Rank(j, K) \in 1 .. m
    BY <1>2
  <2>2. i < j \/ j < i
    BY <2>1
  <2> QED
    BY <1>1, <1>3, <2>1, <2>2
<1>5. r \in Injection(K, 1 .. m)
  <2>1. r \in [K -> 1 .. m]
    BY <1>2
  <2>2. IsInjective(r)
    BY <1>4 DEF IsInjective
  <2> QED
    BY <2>1, <2>2 DEF Injection
<1>6. IsFiniteSet(1 .. m) /\ Cardinality(1 .. m) = m
  BY <1>1, FS_Interval
<1>7. r \in Surjection(K, 1 .. m)
  <2> HIDE DEF r, m
  <2>1. Cardinality(1 .. m) = Cardinality(K)
    BY <1>6 DEF m
  <2> QED
    BY <1>5, <1>6, <2>1, FS_Injection
<1>8. \E i \in K : r[i] = n
  BY <1>7 DEF Surjection
<1> QED
  BY <1>8

\* What a configuration loads has a list of entries, whatever the operator
\* wrote.
LEMMA LoadedHasEntries ==
  ASSUME NEW c \in Configs
  PROVE  Loaded(c).schedule \in Seq(Entries)
<1> DEFINE raw == c.schedule
           K == Wanted(raw)
           at(n) == CHOOSE i \in K : Rank(i, K) = n
<1>1. raw \in Seq([time : Int, every : Int])
  BY ConfigsAssumption
<1>2. K \subseteq 1 .. Len(raw) /\ Len(raw) \in Nat
  BY <1>1 DEF Wanted
<1>3. IsFiniteSet(K) /\ K \subseteq Nat
  <2>1. IsFiniteSet(1 .. Len(raw)) /\ 1 .. Len(raw) \subseteq Nat
    BY <1>2, FS_Interval
  <2> HIDE DEF K, raw
  <2> QED
    BY <1>2, <2>1, FS_Subset
<1>4. Cardinality(K) \in Nat
  BY <1>3, FS_CardinalityType
<1>5. ASSUME NEW i \in K PROVE NormaliseEntry(raw[i]) \in Entries
  <2>1. raw[i] \in [time : Int, every : Int] /\ NormaliseEntry(raw[i]) # Dropped
    <3>1. i \in 1 .. Len(raw) /\ NormaliseEntry(raw[i]) # Dropped
      BY <1>2 DEF Wanted
    <3>2. \A S : raw \in Seq(S) => raw[i] \in S
      <4> HIDE DEF raw
      <4> QED
        BY <3>1
    <3> QED
      BY <1>1, <3>1, <3>2
  <2> QED
    BY <2>1, AnnouncerAssumption DEF NormaliseEntry, Daily, Every, Entries
<1>6. ASSUME NEW n \in 1 .. Cardinality(K) PROVE at(n) \in K
  <2>1. \E i \in K : Rank(i, K) = n
    BY <1>3, EachRank
  <2> HIDE DEF K
  <2> QED
    BY <2>1
<1>7. NormaliseSchedule(raw) = [n \in 1 .. Cardinality(K) |-> NormaliseEntry(raw[at(n)])]
  BY DEF NormaliseSchedule
<1>8. NormaliseSchedule(raw) \in [1 .. Cardinality(K) -> Entries]
  <2> HIDE DEF K, raw, at
  <2> QED
    BY <1>5, <1>6, <1>7
<1> QED
  BY <1>4, <1>8 DEF Loaded

LEMMA NoConfigHasNoEntries == NoConfig.schedule \in Seq(Entries)
BY DEF NoConfig

\* Outside of the scheduled loop there is nothing to keep.
LEMMA OtherwiseKeeps ==
  ASSUME LoopInv, ~Scheduled', UNCHANGED <<now, file, editedAt>>, cfg'.schedule \in Seq(Entries),
         loop'.at \in {"none", "delay"} \/ loop'.mode = "interval"
  PROVE  LoopInv'
BY DEF LoopInv, LoopTyping, OnTime, StaleForOneSleep, Remembered, SentIsRemembered,
       Asleep, Firing, Sending, Scheduled

\* The launches, and a signal, leave all of it alone.
LEMMA LoopStutterKeeps ==
  ASSUME LoopInv, UNCHANGED <<now, file, editedAt, cfg, loop, memory, wakeAt, pass, sent>>
  PROVE  LoopInv'
BY DEF LoopInv, LoopTyping, OnTime, StaleForOneSleep, Remembered, SentIsRemembered,
       Asleep, Firing, Sending, Scheduled, memory, Day, FiredOn

\* A tick passes in a sleep that goes on or in an announcement.
LEMMA ClockKeeps ==
  ASSUME LoopInv, Clock
  PROVE  LoopInv'
<1> USE DEF LoopInv
<1>1. now \in Nat /\ now' = now + 1
  BY DEF Clock, LoopTyping
<1>2. /\ UNCHANGED <<file, editedAt, cfg, loop, deadlines, lastFired, today, wakeAt, sent>>
      /\ Waits /\ pass' = IF loop.at = "send" THEN [pass EXCEPT !.waited = TRUE] ELSE pass
  BY DEF Clock, memory, history, files
<1>3. Day(now) \in Nat /\ Day(now') \in Nat /\ Day(now) <= Day(now')
  BY <1>1, DayFacts
<1>4. UNCHANGED <<Scheduled, Asleep, Firing, Sending>>
  BY <1>2 DEF Scheduled, Asleep, Firing, Sending
<1>5. /\ pass'.at = pass.at /\ pass'.i = pass.i /\ pass'.day = pass.day
      /\ Firing => pass' \in Passes
  <2>1. CASE loop.at = "send"
    <3>1. pass' = [pass EXCEPT !.waited = TRUE]
      BY <1>2, <2>1
    <3>2. Firing => pass' \in Passes
      BY <3>1, PassTyping DEF Passes
    <3> QED
      BY <1>2, <2>1, <3>1, <3>2
  <2>2. CASE loop.at # "send"
    BY <1>2, <2>2 DEF LoopTyping
  <2> QED
    BY <2>1, <2>2
<1>6. LoopTyping'
  BY <1>1, <1>2, <1>4, <1>5 DEF LoopTyping
<1>7. OnTime'
  <2>1. Asleep => now' <= wakeAt' /\ wakeAt' <= now' + MaxSleep
    BY <1>1, <1>2, <1>4, AnnouncerAssumption DEF Waits, Asleep, LoopTyping, OnTime
  <2>2. Firing => loop.at = "send" /\ ~pass.waited /\ pass'.waited
    BY <1>2 DEF Waits, Firing
  <2>3. Firing => /\ pass.at <= now' /\ now' <= pass.at + pass.i
                  /\ pass.i <= Len(cfg.schedule) + 1
    BY <1>1, <2>2, PassTyping, PassTiming DEF OnTime
  <2>4. Firing => pass.at \in Nat /\ pass.i \in Nat
    BY PassTyping
  <2> QED
    BY <1>1, <1>2, <1>4, <1>5, <2>1, <2>2, <2>3, <2>4 DEF OnTime
<1>8. StaleForOneSleep'
  BY <1>2, <1>4, <1>5 DEF StaleForOneSleep
<1>9. Remembered'
  BY <1>2, <1>3, <1>4, <1>5 DEF Remembered
<1>10. SentIsRemembered'
  BY <1>2, <1>3, <1>4, <1>5 DEF SentIsRemembered
<1> QED
  BY <1>6, <1>7, <1>8, <1>9, <1>10

\* Whoever lacks the edit made now sleeps or fires for a while still.
LEMMA EditKeeps ==
  ASSUME LoopInv, NEW c \in Configs, Edit(c)
  PROVE  LoopInv'
<1> USE DEF LoopInv
<1>1. /\ file' = c /\ editedAt' = now
      /\ UNCHANGED <<now, cfg, loop, deadlines, lastFired, today, wakeAt, pass, sent>>
  BY DEF Edit, loopVars, memory, history
<1>2. UNCHANGED <<Scheduled, Asleep, Firing, Sending>>
  BY <1>1 DEF Scheduled, Asleep, Firing, Sending
<1>3. LoopTyping'
  BY <1>1, <1>2 DEF LoopTyping
<1>4. OnTime'
  BY <1>1, <1>2 DEF OnTime
<1>5. StaleForOneSleep'
  BY <1>1, <1>2, AnnouncerAssumption, PassTyping DEF StaleForOneSleep, OnTime, LoopTyping
<1>6. Remembered' /\ SentIsRemembered'
  BY <1>1, <1>2 DEF Remembered, SentIsRemembered, Day
<1> QED
  BY <1>3, <1>4, <1>5, <1>6

\* The loop starts with nothing sent and nothing remembered.
LEMMA EnterKeeps ==
  ASSUME LoopInv, NEW c, c.schedule \in Seq(Entries), EnterLoop(c), cfg'.schedule \in Seq(Entries),
         UNCHANGED <<now, file, editedAt>>
  PROVE  LoopInv'
<1> USE DEF LoopInv
<1>1. /\ loop'.at = "top" /\ loop'.mode \in {"interval", "schedule"}
      /\ ~Asleep' /\ ~Firing' /\ ~Sending'
  BY DEF EnterLoop, GoTo, Asleep, Firing, Sending
<1>2. \A i \in DOMAIN deadlines' : deadlines'[i] \in Nat
  BY DEF EnterLoop, LoopTyping, Indices, Entries
<1>3. DOMAIN lastFired' = {} /\ sent' = {} /\ today' = Day(now)
  BY DEF EnterLoop, Empty
<1>4. LoopTyping' /\ OnTime' /\ StaleForOneSleep'
  BY <1>1, <1>2 DEF LoopTyping, OnTime, StaleForOneSleep
<1>5. Remembered'
  BY <1>1, <1>3, DayFacts DEF Remembered, LoopTyping
<1>6. SentIsRemembered'
  BY <1>1, <1>3 DEF SentIsRemembered
<1> QED
  BY <1>4, <1>5, <1>6

\* The sleep is short, and the memory of the slots is kept with the schedule.
LEMMA ScheduledTopKeeps ==
  ASSUME LoopInv, NEW l \in Launches, env[l] \in Configs, ScheduledTop(l)
  PROVE  LoopInv'
<1> USE DEF LoopInv
<1> DEFINE c == LoadConfig(l)
<1>1. c.schedule \in Seq(Entries) /\ (~FromEnv => c = Loaded(file))
  BY LoadedHasEntries DEF LoadConfig, LoopTyping
<1>2. /\ Scheduled /\ loop.at = "top" /\ loop'.mode = "schedule" /\ loop'.at = "sleep"
      /\ Asleep' /\ Scheduled' /\ ~Firing' /\ ~Sending'
  BY DEF ScheduledTop, At, GoTo, Scheduled, Asleep, Firing, Sending
<1>3. /\ cfg' = c /\ deadlines' = Reconciled(c) /\ lastFired' = Kept(c) /\ today' = Day(now)
      /\ wakeAt' = now + SleepFor(c) /\ UNCHANGED <<now, file, editedAt>>
      /\ sent' = {} \/ (c.schedule = cfg.schedule /\ sent' = sent)
  BY DEF ScheduledTop, files, history
<1> HIDE DEF c
<1>4. now \in Nat /\ \A i \in DOMAIN deadlines : deadlines[i] \in Nat
  BY <1>2 DEF LoopTyping
<1>5. SleepFor(c) \in Nat /\ SleepFor(c) <= MaxSleep
  BY <1>1, <1>4, SleepIsShort
<1>6. LoopTyping'
  <2>1. \A i \in DOMAIN deadlines' : deadlines'[i] \in Nat
    BY <1>1, <1>3, <1>4 DEF Reconciled, Indices, Entries
  <2> QED
    BY <1>1, <1>2, <1>3, <1>4, <1>5, <2>1 DEF LoopTyping
<1>7. OnTime'
  BY <1>2, <1>3, <1>4, <1>5, AnnouncerAssumption DEF OnTime
<1>8. StaleForOneSleep'
  BY <1>1, <1>2, <1>3 DEF StaleForOneSleep
<1>9. Remembered'
  <2>1. Day(now) \in Nat
    BY <1>4, DayFacts
  <2>2. \A i \in DOMAIN lastFired' : i \in DOMAIN lastFired /\ lastFired'[i] = lastFired[i]
    BY <1>3 DEF Kept
  <2>3. UNCHANGED Day(now)
    BY <1>3 DEF Day
  <2> QED
    BY <1>2, <1>3, <2>1, <2>2, <2>3 DEF Remembered
<1>10. SentIsRemembered'
  <2>1. CASE sent' = {}
    BY <1>2, <2>1 DEF SentIsRemembered
  <2>2. CASE c.schedule = cfg.schedule /\ sent' = sent
    <3>1. Indices(cfg', "daily") = Indices(cfg, "daily") /\ Indices(c, "daily") = Indices(cfg, "daily")
      BY <1>3, <2>2 DEF Indices
    <3>2. \A i \in Indices(cfg, "daily") \intersect DOMAIN lastFired :
             i \in DOMAIN lastFired' /\ lastFired'[i] = lastFired[i]
      BY <1>3, <3>1 DEF Kept
    <3> QED
      BY <1>2, <2>2, <3>1, <3>2 DEF SentIsRemembered
  <2> QED
    BY <1>3, <2>1, <2>2
<1> QED
  BY <1>6, <1>7, <1>8, <1>9, <1>10

\* The pass begins when the sleep is over.
LEMMA WakeUpKeeps ==
  ASSUME LoopInv, NEW l \in Launches, WakeUp(l)
  PROVE  LoopInv'
<1> USE DEF LoopInv
<1>1. CASE loop.mode = "interval"
  <2>1. ~Scheduled' /\ loop'.mode = "interval" /\ UNCHANGED <<now, file, editedAt>>
        /\ cfg'.schedule \in Seq(Entries)
    BY <1>1 DEF LoopTyping, WakeUp, GoTo, Scheduled, files
  <2> QED
    BY <2>1, OtherwiseKeeps
<1>2. CASE loop.mode = "schedule"
  <2>1. Asleep /\ Scheduled /\ Scheduled' /\ Firing' /\ ~Asleep' /\ ~Sending' /\ loop'.at = "fire"
    BY <1>2 DEF WakeUp, GoTo, Scheduled, Asleep, Firing, Sending
  <2>2. /\ UNCHANGED <<now, file, editedAt, cfg, deadlines, lastFired, today, sent>>
        /\ wakeAt <= now
    BY DEF WakeUp, files, memory, history
  <2>3. pass'.at = now /\ pass'.i = 1 /\ ~pass'.waited /\ pass' \in Passes
    <3>1. pass' = [at |-> now, i |-> 1, day |-> 0, waited |-> FALSE] /\ now \in Nat
      BY <1>2 DEF WakeUp, NoPass, LoopTyping
    <3> QED
      BY <3>1 DEF Passes
  <2>4. now \in Nat /\ wakeAt \in Nat /\ now = wakeAt /\ cfg.schedule \in Seq(Entries)
    BY <2>1, <2>2 DEF LoopTyping, OnTime, Asleep
  <2>5. LoopTyping'
    BY <2>1, <2>2, <2>3 DEF LoopTyping, Asleep
  <2>6. OnTime'
    BY <2>1, <2>2, <2>3, <2>4 DEF OnTime
  <2>7. StaleForOneSleep'
    BY <2>1, <2>2, <2>3, <2>4 DEF StaleForOneSleep
  <2>8. UNCHANGED Day(now)
    BY <2>2 DEF Day
  <2>9. Remembered'
    <3>1. \A i \in DOMAIN lastFired :
             lastFired[i] \in Nat /\ lastFired[i] <= Day(now) /\ lastFired[i] <= today
      BY <2>1 DEF Remembered
    <3> QED
      BY <2>1, <2>2, <2>8, <3>1 DEF Remembered
  <2>10. SentIsRemembered'
    BY <2>1, <2>2 DEF SentIsRemembered
  <2> QED
    BY <2>5, <2>6, <2>7, <2>9, <2>10
<1> QED
  BY <1>1, <1>2 DEF WakeUp, LoopTyping

\* An entry that is due is sent next, a slot only if the day has not had it.
LEMMA FireEntryKeeps ==
  ASSUME LoopInv, NEW l \in Launches, FireEntry(l)
  PROVE  LoopInv'
<1> USE DEF LoopInv
<1> DEFINE i == pass.i
           e == cfg.schedule[pass.i]
<1>1. /\ UNCHANGED <<now, file, editedAt, cfg, lastFired, today, wakeAt, sent>>
      /\ i \in DOMAIN cfg.schedule /\ loop = [mode |-> "schedule", at |-> "fire"]
  BY DEF FireEntry, At, files, history
<1>2. Scheduled /\ Firing /\ ~Asleep /\ ~Sending
  BY <1>1 DEF Scheduled, Firing, Asleep, Sending
<1>3. /\ now \in Nat /\ cfg.schedule \in Seq(Entries) /\ e \in Entries
      /\ i \in Nat \ {0} /\ i <= Len(cfg.schedule) /\ pass.at \in Nat
      /\ ~pass.waited /\ pass.at <= now /\ now <= pass.at + i - 1
  BY <1>1, <1>2 DEF LoopTyping, OnTime, Passes
<1>4. Day(now) \in Nat /\ UNCHANGED Day(now)
  BY <1>1, <1>3, DayFacts DEF Day
<1>5. CASE ~Due(i)
  <2>1. /\ UNCHANGED <<loop, deadlines>> /\ pass'.i = i + 1
        /\ pass'.at = pass.at /\ pass'.day = pass.day /\ pass'.waited = pass.waited
        /\ pass' \in Passes
    BY <1>2, <1>5 DEF FireEntry, LoopTyping, Passes
  <2>2. UNCHANGED <<Scheduled, Firing, Asleep, Sending>>
    BY <2>1 DEF Scheduled, Firing, Asleep, Sending
  <2>3. LoopTyping'
    BY <1>1, <1>2, <1>3, <2>1, <2>2 DEF LoopTyping
  <2>4. OnTime'
    BY <1>1, <1>2, <1>3, <2>1, <2>2 DEF OnTime
  <2>5. StaleForOneSleep'
    BY <1>1, <1>2, <2>1, <2>2 DEF StaleForOneSleep
  <2>6. Remembered'
    BY <1>1, <1>2, <1>3, <1>4, <2>1, <2>2 DEF Remembered
  <2>7. SentIsRemembered'
    BY <1>1, <1>2, <2>1, <2>2 DEF SentIsRemembered
  <2> QED
    BY <2>3, <2>4, <2>5, <2>6, <2>7
<1>6. CASE Due(i)
  <2>1. /\ loop' = [mode |-> "schedule", at |-> "send"] /\ pass'.day = Day(now)
        /\ pass'.i = i /\ pass'.at = pass.at /\ pass'.waited = pass.waited
        /\ pass' \in Passes
        /\ deadlines' \in {deadlines, [deadlines EXCEPT ![i] = pass.at + e.n]}
    BY <1>2, <1>4, <1>6 DEF FireEntry, GoTo, LoopTyping, Passes
  <2>2. Scheduled' /\ Firing' /\ ~Asleep' /\ Sending'
    BY <2>1 DEF Scheduled, Firing, Asleep, Sending
  <2>3. pass.at + e.n \in Nat
    <3>1. pass.at \in Nat /\ e.n \in Nat
      BY <1>3 DEF Entries
    <3> QED
      BY <3>1
  <2>4. \A j \in DOMAIN deadlines' : deadlines'[j] \in Nat
    BY <1>2, <2>1, <2>3 DEF LoopTyping
  <2>5. LoopTyping'
    BY <1>1, <1>2, <1>3, <2>1, <2>2, <2>4 DEF LoopTyping
  <2>6. OnTime'
    BY <1>1, <1>2, <1>3, <2>1, <2>2 DEF OnTime
  <2>7. StaleForOneSleep'
    BY <1>1, <1>2, <2>1, <2>2 DEF StaleForOneSleep
  <2>8. Remembered'
    BY <1>1, <1>2, <1>3, <1>4, <2>1, <2>2 DEF Remembered
  <2>9. SentIsRemembered'
    <3>1. ASSUME e.kind = "daily", <<i, Day(now)>> \in sent
          PROVE  FALSE
      <4>1. i \in DOMAIN lastFired /\ Day(now) <= lastFired[i]
        BY <1>2, <3>1 DEF SentIsRemembered
      <4>2. lastFired[i] \in Nat /\ lastFired[i] <= today /\ today \in Nat /\ today <= Day(now)
        BY <1>2, <1>3, <4>1 DEF Remembered
      <4>3. lastFired[i] # today
        BY <1>6, <3>1, <4>1 DEF Due, FiredOn
      <4> QED
        BY <1>4, <4>1, <4>2, <4>3
    <3>2. today \in Nat /\ today <= Day(now)
      BY <1>2 DEF Remembered
    <3> QED
      BY <1>1, <1>2, <1>4, <2>1, <2>2, <3>1, <3>2 DEF SentIsRemembered
  <2> QED
    BY <2>5, <2>6, <2>7, <2>8, <2>9
<1> QED
  BY <1>5, <1>6

\* After the pass the memory is kept for the next sleep.
LEMMA PassOverKeeps ==
  ASSUME LoopInv, NEW l \in Launches, PassOver(l)
  PROVE  LoopInv'
<1> USE DEF LoopInv
<1>1. /\ UNCHANGED <<now, file, editedAt, cfg, deadlines, lastFired, today, sent>>
      /\ loop = [mode |-> "schedule", at |-> "fire"] /\ loop' = [mode |-> "schedule", at |-> "top"]
  BY DEF PassOver, At, GoTo, files, memory, history
<1>2. Scheduled /\ Scheduled' /\ ~Asleep' /\ ~Firing' /\ ~Sending'
  BY <1>1 DEF Scheduled, Firing, Asleep, Sending
<1>3. UNCHANGED Day(now)
  BY <1>1 DEF Day
<1> QED
  BY <1>1, <1>2, <1>3 DEF LoopTyping, OnTime, StaleForOneSleep, Remembered, SentIsRemembered

\* A slot that went out is remembered with the day it was sent for.
LEMMA DispatchedKeeps ==
  ASSUME LoopInv, NEW l \in Launches, NEW o \in Outcomes, Dispatched(l, o)
  PROVE  LoopInv'
<1> USE DEF LoopInv
<1>1. CASE loop.mode = "interval"
  <2>1. ~Scheduled' /\ loop'.mode = "interval" /\ UNCHANGED <<now, file, editedAt>>
        /\ cfg'.schedule \in Seq(Entries)
    BY <1>1 DEF LoopTyping, Dispatched, GoTo, Scheduled, files
  <2> QED
    BY <2>1, OtherwiseKeeps
<1>2. CASE loop.mode = "schedule"
  <2> DEFINE i == pass.i
             e == cfg.schedule[pass.i]
  <2>1. /\ UNCHANGED <<now, file, editedAt, cfg, deadlines, today>>
        /\ loop.at = "send" /\ loop' = [mode |-> "schedule", at |-> "fire"]
        /\ pass' = [pass EXCEPT !.i = @ + 1, !.day = 0, !.waited = FALSE]
    BY <1>2 DEF Dispatched, GoTo, files
  <2>2. /\ Scheduled /\ Firing /\ ~Asleep /\ Sending
        /\ Scheduled' /\ Firing' /\ ~Asleep' /\ ~Sending'
    BY <1>2, <2>1 DEF Dispatched, Scheduled, Firing, Asleep, Sending
  <2>3. /\ now \in Nat /\ i \in Nat \ {0} /\ i <= Len(cfg.schedule) /\ pass.at \in Nat
        /\ cfg.schedule \in Seq(Entries) /\ pass.at <= now /\ now <= pass.at + i
    BY <2>2, PassTyping, PassTiming DEF LoopTyping
  <2>10. /\ pass'.i = i + 1 /\ pass'.at = pass.at /\ ~pass'.waited
         /\ pass' \in Passes
    <3>1. pass \in Passes
      BY <2>2, PassTyping
    <3>2. pass' = [at |-> pass.at, i |-> pass.i + 1, day |-> 0, waited |-> FALSE]
      BY <2>1, <3>1 DEF Passes
    <3>3. pass.at \in Nat /\ pass.i + 1 \in Nat \ {0}
      BY <3>1 DEF Passes
    <3> QED
      BY <3>2, <3>3 DEF Passes
  <2>4. Day(now) \in Nat /\ UNCHANGED Day(now)
    BY <2>1, <2>3, DayFacts DEF Day
  <2>5. LoopTyping'
    BY <2>1, <2>2, <2>3, <2>10 DEF LoopTyping
  <2>6. OnTime'
    BY <2>1, <2>2, <2>3, <2>10 DEF OnTime
  <2>7. StaleForOneSleep'
    BY <2>1, <2>2, <2>10 DEF StaleForOneSleep
  <2>8. CASE UNCHANGED <<lastFired, sent>>
    <3>1. Remembered'
      BY <2>1, <2>2, <2>3, <2>4, <2>8, <2>10 DEF Remembered
    <3>2. SentIsRemembered'
      BY <2>1, <2>2, <2>8 DEF SentIsRemembered
    <3> QED
      BY <2>5, <2>6, <2>7, <3>1, <3>2
  <2>9. CASE /\ e.kind = "daily" /\ sent' = sent \union {<<i, pass.day>>}
             /\ lastFired' = [j \in DOMAIN lastFired \union {i} |->
                                IF j = i THEN pass.day ELSE lastFired[j]]
    <3>1. pass.day \in Nat /\ today <= pass.day /\ pass.day <= Day(now) /\ today \in Nat
      BY <2>2, <2>9 DEF SentIsRemembered, Remembered
    <3>2. i \in Indices(cfg, "daily")
      BY <2>3, <2>9 DEF Indices
    <3>3. \A j \in DOMAIN lastFired : j \in Nat /\ lastFired[j] \in Nat
      BY <2>2 DEF Remembered
    <3>4. Remembered'
      BY <2>1, <2>2, <2>3, <2>4, <2>9, <2>10, <3>1, <3>3 DEF Remembered
    <3>5. \A j \in DOMAIN lastFired : j \in DOMAIN lastFired' /\ lastFired[j] <= lastFired'[j]
      <4>1. i \in DOMAIN lastFired => lastFired[i] <= today
        BY <2>2, <2>3 DEF Remembered
      <4> QED
        BY <2>9, <3>1, <3>3, <4>1
    <3>6. ASSUME NEW s \in sent'
          PROVE  /\ s = <<s[1], s[2]>> /\ s[2] \in Nat
                 /\ s[1] \in Indices(cfg, "daily") \intersect DOMAIN lastFired'
                 /\ s[2] <= lastFired'[s[1]]
      <4>1. CASE s \in sent
        <5>1. /\ s = <<s[1], s[2]>> /\ s[2] \in Nat /\ s[2] <= lastFired[s[1]]
              /\ s[1] \in Indices(cfg, "daily") /\ s[1] \in DOMAIN lastFired
          BY <2>2, <4>1 DEF SentIsRemembered
        <5>2. lastFired[s[1]] \in Nat /\ lastFired'[s[1]] \in Nat
          BY <2>9, <3>1, <3>3, <5>1
        <5> QED
          BY <3>5, <5>1, <5>2
      <4>2. CASE s = <<i, pass.day>>
        BY <2>9, <3>1, <3>2, <4>2
      <4> QED
        BY <2>9, <4>1, <4>2
    <3>7. UNCHANGED Indices(cfg, "daily")
      BY <2>1 DEF Indices
    <3>8. SentIsRemembered'
      BY <2>2, <3>6, <3>7 DEF SentIsRemembered
    <3> QED
      BY <2>5, <2>6, <2>7, <3>4, <3>8
  <2> QED
    BY <1>2, <2>8, <2>9 DEF Dispatched
<1> QED
  BY <1>1, <1>2 DEF Dispatched, LoopTyping

-----------------------------------------------------------------------------
(* The theorems.                                                            *)

\* A worker that is there was launched with one of the configurations.
LaunchedInv == file \in Configs /\ env \in [Launches -> Configs] /\ LoopInv

LEMMA LoopInitially == Init => LaunchedInv
<1> SUFFICES ASSUME Init PROVE LaunchedInv
  OBVIOUS
<1>1. /\ now = 0 /\ editedAt = 0 /\ file \in Configs /\ loop.mode = "none" /\ loop.at = "none"
      /\ env = [l \in Launches |-> file] /\ cfg.schedule \in Seq(Entries)
  BY NoConfigHasNoEntries DEF Init
<1> QED
  BY <1>1 DEF LaunchedInv, LoopInv, LoopTyping, OnTime, StaleForOneSleep, Remembered,
              SentIsRemembered, Asleep, Firing, Sending, Scheduled

\* Every step of the announcer keeps the invariant.
LEMMA LoopInductive == LaunchedInv /\ [Next]_vars => LaunchedInv'
<1> SUFFICES ASSUME LaunchedInv, [Next]_vars PROVE LaunchedInv'
  OBVIOUS
<1> USE DEF LaunchedInv
<1>1. CASE UNCHANGED vars
  BY <1>1, LoopStutterKeeps DEF vars, files, loopVars, memory, history
<1>2. CASE Clock
  BY <1>2, ClockKeeps DEF Clock, files
<1>3. ASSUME NEW c \in Configs, Edit(c) PROVE LaunchedInv'
  BY <1>3, EditKeeps DEF Edit
<1>4. ASSUME NEW l \in Launches, Start(l) \/ Sigterm(l) PROVE LaunchedInv'
  <2>1. UNCHANGED <<now, file, editedAt, cfg, loop, memory, wakeAt, pass, sent>>
    BY <1>4 DEF Start, Sigterm, files, loopVars, history
  <2>2. env' = env \/ env' = [env EXCEPT ![l] = file]
    BY <1>4 DEF Start, Sigterm, files
  <2> QED
    BY <2>1, <2>2, LoopStutterKeeps
<1>5. ASSUME NEW l \in Launches, Begin(l) \/ Quit(l) PROVE LaunchedInv'
  <2>1. /\ UNCHANGED <<now, file, env, editedAt>>
        /\ loop'.mode = "none" /\ loop'.at \in {"none", "delay"}
        /\ cfg'.schedule \in Seq(Entries)
    BY <1>5, LoadedHasEntries, NoConfigHasNoEntries
       DEF Begin, Quit, Forget, GoTo, files, LoadConfig, LoopInv, LoopTyping
  <2> QED
    BY <2>1, OtherwiseKeeps DEF Scheduled
<1>6. ASSUME NEW l \in Launches, Crash(l) PROVE LaunchedInv'
  <2>1. UNCHANGED <<now, file, env, editedAt>>
    BY <1>6 DEF Crash, files
  <2>2. CASE Running(l)
    <3>1. loop'.mode = "none" /\ loop'.at = "none" /\ cfg'.schedule \in Seq(Entries)
      BY <1>6, <2>2, NoConfigHasNoEntries DEF Crash, Forget, GoTo
    <3> QED
      BY <2>1, <3>1, OtherwiseKeeps DEF Scheduled
  <2>3. CASE ~Running(l)
    BY <1>6, <2>1, <2>3, LoopStutterKeeps DEF Crash, loopVars, history
  <2> QED
    BY <2>2, <2>3
<1>7. ASSUME NEW l \in Launches, LoopStep(l) PROVE LaunchedInv'
  <2>1. UNCHANGED <<file, env>> /\ LoopInv /\ env[l] \in Configs
    BY <1>7 DEF LoopStep, DelayOver, Quit, SwitchLoop, IntervalTop, ScheduledTop, WakeUp,
                FireEntry, PassOver, Dispatched, files
  <2>2. CASE DelayOver(l)
    <3>1. EnterLoop(cfg) /\ UNCHANGED <<now, file, editedAt, cfg>> /\ cfg.schedule \in Seq(Entries)
      BY <2>2 DEF DelayOver, files, LoopInv, LoopTyping
    <3> QED
      BY <2>1, <3>1, EnterKeeps
  <2>3. CASE SwitchLoop(l)
    BY <2>1, <2>3, EnterKeeps, LoadedHasEntries DEF SwitchLoop, LoadConfig, files
  <2>4. CASE IntervalTop(l)
    <3>1. /\ loop'.mode = "interval" /\ UNCHANGED <<now, file, editedAt>>
          /\ cfg'.schedule \in Seq(Entries)
      BY <2>1, <2>4, LoadedHasEntries DEF IntervalTop, GoTo, files, LoadConfig
    <3> QED
      BY <2>1, <3>1, OtherwiseKeeps DEF Scheduled
  <2> QED
    BY <1>5, <1>7, <2>1, <2>2, <2>3, <2>4, ScheduledTopKeeps, WakeUpKeeps, FireEntryKeeps,
       PassOverKeeps, DispatchedKeeps DEF LoopStep
<1>8. ASSUME NEW l \in Launches,
             (LaunchStep(l) \/ AcquireLock(l))
               /\ UNCHANGED <<now, files, loopVars, counters, history>>
      PROVE  LaunchedInv'
  BY <1>8, LoopStutterKeeps DEF files, loopVars, history
<1> QED
  BY <1>1, <1>2, <1>3, <1>4, <1>5, <1>6, <1>7, <1>8 DEF Next

\* However long the worker runs and whatever it is sending: what is written to
\* jka-addons.json is what it works with after one sleep and one firing pass
\* (load_config in run_scheduled_loop).
THEOREM EditsWork == Spec => []EditsPickedUp
<1>1. LaunchedInv => EditsPickedUp
  <2> SUFFICES ASSUME LaunchedInv, ~FromEnv, Scheduled, loop.at # "top",
                      now - editedAt > MaxSleep + Len(cfg.schedule), cfg # Loaded(file)
               PROVE  FALSE
    BY DEF EditsPickedUp, Scheduled
  <2>1. now \in Nat /\ editedAt \in Nat /\ cfg.schedule \in Seq(Entries) /\ MaxSleep \in Nat
    BY AnnouncerAssumption DEF LaunchedInv, LoopInv, LoopTyping
  <2>2. CASE Asleep
    BY <2>1, <2>2 DEF LaunchedInv, LoopInv, LoopTyping, OnTime, StaleForOneSleep
  <2>3. CASE Firing
    <3>1. pass.at <= editedAt + MaxSleep /\ pass.at \in Nat /\ pass.i \in Nat
      BY <2>3, PassTyping DEF LaunchedInv, LoopInv, StaleForOneSleep
    <3>2. now <= pass.at + Len(cfg.schedule)
      <4>1. CASE Sending
        BY <2>1, <2>3, <3>1, <4>1, PassTiming DEF LaunchedInv, LoopInv, LoopTyping
      <4>2. CASE ~Sending
        <5>1. LoopTyping /\ OnTime
          BY DEF LaunchedInv, LoopInv
        <5>2. ~pass.waited /\ pass.i <= Len(cfg.schedule) + 1
          BY <2>3, <4>2, <5>1 DEF OnTime, Sending, Firing
        <5>3. now <= pass.at + pass.i - 1
          BY <2>3, <5>1, <5>2, PassTiming
        <5>4. Len(cfg.schedule) \in Nat
          BY <2>1
        <5> QED
          BY <2>1, <3>1, <5>2, <5>3, <5>4
      <4> QED
        BY <4>1, <4>2
    <3> QED
      BY <2>1, <3>1, <3>2
  <2>4. Asleep \/ Firing
    BY DEF LaunchedInv, LoopInv, LoopTyping, Asleep, Firing
  <2> QED
    BY <2>2, <2>3, <2>4
<1> QED
  BY <1>1, LoopInitially, LoopInductive, PTL DEF Spec

\* While a schedule is in memory no slot of it goes out twice on one day, a
\* failed announcement and a pass over midnight included (last_fired_date).
THEOREM NoSlotTwice == Spec => OncePerDay
<1>1. LaunchedInv =>
        (At("schedule", "send") /\ cfg.schedule[pass.i].kind = "daily" => <<pass.i, pass.day>> \notin sent)
  BY DEF LaunchedInv, LoopInv, SentIsRemembered, At, Scheduled, Sending
<1>2. LaunchedInv /\ [Next]_vars =>
        [At("schedule", "send") /\ loop'.at = "fire" /\ failures' = failures
           /\ cfg.schedule[pass.i].kind = "daily"
           => <<pass.i, pass.day>> \notin sent]_vars
  BY <1>1
<1> QED
  BY <1>2, LoopInitially, LoopInductive, PTL DEF Spec, OncePerDay

-----------------------------------------------------------------------------
(* No slot is missed.                                                       *)

Round == Len(cfg.schedule)
Opens(i, d) == d * DayLength + cfg.schedule[i].n
Waited == IF pass.waited THEN 1 ELSE 0

\* The pass will come to i, and find it due if its time has come.
InReach(i) == Firing /\ pass.i <= i /\ ~FiredOn(i, today)

\* How long after its time a slot is still not sent: a pass for each failure so
\* far, the one that had gone by it, and what this pass has done before it.
Slack(i) ==
  IF ~Firing THEN Round * failures + Round - 1
  ELSE IF InReach(i) THEN Round * failures + Round - 1 + (pass.i - 1) + Waited
  ELSE IF pass.i <= i THEN Round * failures + (pass.i - 1) + Waited
  ELSE Round * failures + pass.i - 2 + Waited

NotLateFor(i, d) ==
  LeavesRoom(i) /\ <<i, d>> \notin sent => d = Day(now) /\ now <= Opens(i, d) + Slack(i)

NotLate ==
  Scheduled => \A i \in Indices(cfg, "daily"), d \in since .. Day(now) : NotLateFor(i, d)

\* What is remembered of this schedule was sent.
SentKnown ==
  Scheduled => \A i \in DOMAIN lastFired : lastFired[i] >= since => <<i, lastFired[i]>> \in sent

\* Nobody sleeps into the time of a slot.
WakesInTime ==
  Asleep => \A i \in Indices(cfg, "daily") :
    IF FiredOn(i, today) THEN wakeAt <= Opens(i, today + 1)
    ELSE wakeAt <= Opens(i, today) \/ wakeAt = now

\* An announcement is of the day at its beginning.
DayAtHand == Sending => pass.day = Day(now - Waited) /\ now - Waited \in Nat

Counted == failures \in 0 .. MaxFailures /\ (Scheduled => since \in Nat)

SlotInv == Counted /\ NotLate /\ SentKnown /\ WakesInTime /\ DayAtHand

LEMMA ProductFacts ==
  ASSUME NEW a \in Nat, NEW b \in Nat, NEW c \in Nat, b <= c
  PROVE  a * b \in Nat /\ a * b <= a * c /\ a * (b + 1) = a * b + a
OBVIOUS

\* The day of a time is the one it is in.
LEMMA DayIs ==
  ASSUME NEW t \in Nat, NEW d \in Nat, d * DayLength <= t, t < d * DayLength + DayLength
  PROVE  Day(t) = d
<1>1. /\ Day(t) \in Nat /\ Day(t) * DayLength <= t /\ t < Day(t) * DayLength + DayLength
  BY DayFacts
<1>2. \A a, b \in Nat : a < b => a * DayLength + DayLength <= b * DayLength
  BY AnnouncerAssumption
<1>3. \A a \in Nat : a * DayLength \in Nat
  BY AnnouncerAssumption
<1> QED
  BY <1>1, <1>2, <1>3, AnnouncerAssumption

\* A slot that leaves room does so with the failures there have been.
LEMMA SlotFacts ==
  ASSUME LoopInv, Counted, NEW i \in Indices(cfg, "daily")
  PROVE  /\ Round \in Nat \ {0} /\ i \in 1 .. Round /\ cfg.schedule[i].n \in 0 .. (DayLength - 1)
         /\ Round * failures \in Nat /\ Round * (failures + 1) = Round * failures + Round
         /\ LeavesRoom(i) => cfg.schedule[i].n + Round * failures + Round + i <= DayLength
<1>1. cfg.schedule \in Seq(Entries) /\ i \in DOMAIN cfg.schedule /\ cfg.schedule[i].kind = "daily"
  BY DEF LoopInv, LoopTyping, Indices
<1>2. Round \in Nat \ {0} /\ i \in 1 .. Round
  BY <1>1 DEF Round
<1>3. cfg.schedule[i].n \in 0 .. (DayLength - 1)
  BY <1>1 DEF Entries
<1>4. failures \in Nat /\ MaxFailures \in Nat /\ failures <= MaxFailures
  BY AnnouncerAssumption DEF Counted
<1>5. /\ Round * failures \in Nat /\ Round * failures <= Round * MaxFailures
      /\ Round * (failures + 1) = Round * failures + Round
  BY <1>2, <1>4, ProductFacts
<1>6. Round * MaxFailures \in Nat /\ Round * (MaxFailures + 1) = Round * MaxFailures + Round
  BY <1>2, <1>4, ProductFacts
<1>7. LeavesRoom(i) => cfg.schedule[i].n + (Round * MaxFailures + Round) + i <= DayLength
  BY <1>6 DEF LeavesRoom, Round
<1>8. DayLength \in Nat
  BY AnnouncerAssumption
<1> HIDE DEF Round
<1>9. ASSUME NEW q \in Nat, NEW m \in Nat, NEW n \in Nat, NEW r \in Nat, NEW k \in Nat,
             q <= m, n + (m + r) + k <= DayLength
      PROVE  n + q + r + k <= DayLength
  BY <1>8, <1>9
<1>10. LeavesRoom(i) => cfg.schedule[i].n + Round * failures + Round + i <= DayLength
  BY <1>2, <1>3, <1>5, <1>6, <1>7, <1>8, <1>9
<1> QED
  BY <1>2, <1>3, <1>5, <1>10

\* Where the pass stands.
LEMMA PassFacts ==
  ASSUME LoopInv, Firing
  PROVE  /\ pass.i \in 1 .. (Round + 1) /\ Waited \in {0, 1} /\ now \in Nat
         /\ loop.at = "fire" => Waited = 0
         /\ Sending => pass.i <= Round
<1>1. cfg.schedule \in Seq(Entries) /\ now \in Nat
  BY DEF LoopInv, LoopTyping
<1>2. Round \in Nat
  BY <1>1 DEF Round
<1> QED
  BY <1>1, <1>2, PassTyping DEF LoopInv, LoopTyping, OnTime, Waited, Round

\* The bound is a number, and is within the day.
LEMMA SlackFacts ==
  ASSUME LoopInv, Counted, Scheduled, NEW i \in Indices(cfg, "daily")
  PROVE  /\ Slack(i) \in Nat
         /\ LeavesRoom(i) => cfg.schedule[i].n + Slack(i) < DayLength
<1> DEFINE q == Round * failures
<1>1. /\ Round \in Nat \ {0} /\ i \in 1 .. Round /\ cfg.schedule[i].n \in Nat /\ q \in Nat
      /\ LeavesRoom(i) => cfg.schedule[i].n + q + Round + i <= DayLength
  BY SlotFacts
<1>2. DayLength \in Nat
  BY AnnouncerAssumption
<1> HIDE DEF q
<1>3. CASE ~Firing
  <2>1. Slack(i) = q + Round - 1
    BY <1>3 DEF Slack, q
  <2> QED
    BY <1>1, <1>2, <2>1
<1>4. CASE Firing
  <2>1. /\ pass.i \in 1 .. (Round + 1) /\ Waited \in {0, 1} /\ pass.i + Waited <= Round + 1
    BY <1>1, <1>4, PassFacts DEF Firing, Sending
  <2>2. CASE InReach(i)
    <3>1. Slack(i) = q + Round - 1 + (pass.i - 1) + Waited
      BY <1>4, <2>2 DEF Slack, q
    <3>2. pass.i <= i
      BY <2>2 DEF InReach
    <3> QED
      BY <1>1, <1>2, <2>1, <3>1, <3>2
  <2>3. CASE ~InReach(i) /\ pass.i <= i
    <3>1. Slack(i) = q + (pass.i - 1) + Waited
      BY <1>4, <2>3 DEF Slack, q
    <3> QED
      BY <1>1, <1>2, <2>1, <2>3, <3>1
  <2>4. CASE pass.i > i
    <3>1. ~InReach(i) /\ ~(pass.i <= i)
      BY <1>1, <2>1, <2>4 DEF InReach
    <3>2. Slack(i) = q + pass.i - 2 + Waited
      BY <1>4, <3>1 DEF Slack, q
    <3> QED
      BY <1>1, <1>2, <2>1, <2>4, <3>2
  <2> QED
    BY <1>1, <2>1, <2>2, <2>3, <2>4
<1> QED
  BY <1>3, <1>4

SlackNatural == \A i \in Indices(cfg, "daily") : Slack(i) \in Nat

LEMMA SlackIsNatural == LoopInv /\ Counted /\ Scheduled => SlackNatural
BY SlackFacts DEF SlackNatural

LEMMA SlackStaysNatural == LoopInv' /\ Counted' /\ Scheduled' => SlackNatural'
BY SlackIsNatural, PTL

SlackInDay ==
  \A i \in Indices(cfg, "daily") : LeavesRoom(i) => cfg.schedule[i].n + Slack(i) < DayLength

LEMMA SlackIsInDay == LoopInv /\ Counted /\ Scheduled => SlackInDay
BY SlackFacts DEF SlackInDay

LEMMA SlackStaysInDay == LoopInv' /\ Counted' /\ Scheduled' => SlackInDay'
BY SlackIsInDay, PTL

LEMMA OpensIsNatural ==
  ASSUME LoopInv, Counted, NEW i \in Indices(cfg, "daily"), NEW d \in Nat
  PROVE  Opens(i, d) \in Nat /\ d * DayLength <= Opens(i, d)
<1>1. d * DayLength \in Nat
  BY AnnouncerAssumption
<1>2. cfg.schedule[i].n \in Nat
  BY SlotFacts
<1> HIDE DEF Indices
<1> QED
  BY <1>1, <1>2 DEF Opens

\* While no time passes it is enough that the bound does not shrink.
LEMMA NotLaterThanBefore ==
  ASSUME LoopInv, Counted, NotLate, Scheduled, LoopInv', Counted', Scheduled',
         now' = now, since' = since, cfg'.schedule = cfg.schedule, sent \subseteq sent',
         \A i \in Indices(cfg, "daily") :
           Day(now) >= since /\ <<i, Day(now)>> \notin sent'
             => Slack(i) <= Slack(i)' \/ now <= Opens(i, Day(now))
  PROVE  NotLate'
<1>1. Indices(cfg, "daily")' = Indices(cfg, "daily") /\ Day(now)' = Day(now)
  BY DEF Indices, Day
<1>2. ASSUME NEW i \in Indices(cfg, "daily"), NEW d \in since .. Day(now),
             LeavesRoom(i)', <<i, d>> \notin sent'
      PROVE  d = Day(now) /\ now <= Opens(i, d)' + Slack(i)'
  <2>1. LeavesRoom(i) /\ Opens(i, d)' = Opens(i, d)
    BY <1>2 DEF LeavesRoom, Opens
  <2>2. d = Day(now) /\ now <= Opens(i, d) + Slack(i)
    BY <1>2, <2>1 DEF NotLate, NotLateFor
  <2>3. now \in Nat /\ Day(now) \in Nat
    BY DayFacts DEF LoopInv, LoopTyping
  <2>4. Opens(i, d) \in Nat
    BY <2>2, <2>3, OpensIsNatural
  <2>5. Slack(i) \in Nat
    BY SlackFacts
  <2>6. i \in Indices(cfg, "daily")'
    BY <1>1
  <2>7. Slack(i)' \in Nat
    BY <2>6, SlackStaysNatural DEF SlackNatural
  <2>8. Slack(i) <= Slack(i)' \/ now <= Opens(i, d)
    BY <1>2, <2>2, <2>3 DEF Counted
  <2>9. now <= Opens(i, d) + Slack(i)'
    BY <2>2, <2>3, <2>4, <2>5, <2>7, <2>8
  <2> QED
    BY <2>1, <2>2, <2>9
<1> QED
  BY <1>1, <1>2 DEF NotLate, NotLateFor

\* Outside of the scheduled loop there is no slot to miss.
LEMMA OtherwiseMissesNone ==
  ASSUME ~Scheduled', failures' \in 0 .. MaxFailures
  PROVE  SlotInv'
BY DEF SlotInv, Counted, NotLate, SentKnown, WakesInTime, DayAtHand, Asleep, Sending

LEMMA StutterMissesNone ==
  ASSUME SlotInv, UNCHANGED <<now, cfg, loop, memory, wakeAt, pass, sent, since, failures>>
  PROVE  SlotInv'
<1>1. UNCHANGED <<Scheduled, Asleep, Firing, Sending, Waited, Round, Day(now), Day(now - Waited)>>
  BY DEF Scheduled, Asleep, Firing, Sending, Waited, Round, Day
<1>2. UNCHANGED <<lastFired, today, Indices(cfg, "daily")>>
  BY DEF memory, Indices
<1>3. \A i, d : UNCHANGED <<Opens(i, d), LeavesRoom(i), FiredOn(i, today), FiredOn(i, d)>>
  BY DEF Opens, LeavesRoom, FiredOn, memory
<1>4. \A i : UNCHANGED Slack(i)
  BY <1>1, <1>2, <1>3 DEF Slack, InReach
<1>5. Counted' /\ SentKnown' /\ DayAtHand'
  BY <1>1, <1>2 DEF SlotInv, Counted, SentKnown, DayAtHand
<1>6. NotLate'
  BY <1>1, <1>2, <1>3, <1>4 DEF SlotInv, NotLate, NotLateFor
<1>7. WakesInTime'
  BY <1>1, <1>2, <1>3 DEF SlotInv, WakesInTime, Opens
<1> QED
  BY <1>5, <1>6, <1>7 DEF SlotInv

\* A schedule is held to its slots from the next day on.
LEMMA EnterMissesNone ==
  ASSUME LoopInv, SlotInv, NEW c, EnterLoop(c), UNCHANGED <<now, failures>>
  PROVE  SlotInv'
<1>1. ~Asleep' /\ ~Firing' /\ ~Sending'
  BY DEF EnterLoop, GoTo, Asleep, Firing, Sending
<1>2. Day(now) \in Nat /\ since' = Day(now) + 1 /\ Day(now)' = Day(now) /\ DOMAIN lastFired' = {}
  BY DayFacts DEF EnterLoop, Empty, LoopInv, LoopTyping, Day
<1> QED
  BY <1>1, <1>2 DEF SlotInv, Counted, NotLate, SentKnown, WakesInTime, DayAtHand

\* A later day opens later.
LEMMA LaterOpensLater ==
  ASSUME LoopInv, Counted, NEW i \in Indices(cfg, "daily"), NEW d \in Nat, NEW k \in Nat, k <= d
  PROVE  Opens(i, k) <= Opens(i, d)
<1>1. k * DayLength <= d * DayLength /\ k * DayLength \in Nat /\ d * DayLength \in Nat
  BY AnnouncerAssumption
<1>2. cfg.schedule[i].n \in Nat
  BY SlotFacts
<1> QED
  BY <1>1, <1>2 DEF Opens

\* Who sleeps with a slot of today to send wakes for it, or at once.
LEMMA SleeperWakes ==
  ASSUME LoopInv, SlotInv, Asleep, NEW i \in Indices(cfg, "daily"), Day(now) >= since,
         <<i, Day(now)>> \notin sent
  PROVE  wakeAt <= Opens(i, Day(now)) \/ (wakeAt = now /\ ~FiredOn(i, today))
<1>1. /\ now \in Nat /\ Day(now) \in Nat /\ today \in Nat /\ today <= Day(now)
      /\ Scheduled /\ Counted /\ wakeAt \in Nat
  BY DayFacts DEF LoopInv, LoopTyping, Remembered, Asleep, SlotInv
<1>2. CASE FiredOn(i, today)
  <2>1. today # Day(now)
    BY <1>1, <1>2 DEF SlotInv, SentKnown, FiredOn
  <2>2. today + 1 \in Nat /\ today + 1 <= Day(now)
    BY <1>1, <2>1
  <2>3. wakeAt <= Opens(i, today + 1)
    BY <1>2 DEF SlotInv, WakesInTime
  <2>4. Opens(i, today + 1) <= Opens(i, Day(now))
    BY <1>1, <2>2, LaterOpensLater
  <2> QED
    BY <1>1, <2>2, <2>3, <2>4, OpensIsNatural
<1>3. CASE ~FiredOn(i, today)
  <2>1. wakeAt <= Opens(i, today) \/ wakeAt = now
    BY <1>3 DEF SlotInv, WakesInTime
  <2>2. Opens(i, today) <= Opens(i, Day(now))
    BY <1>1, LaterOpensLater
  <2> QED
    BY <1>1, <1>3, <2>1, <2>2, OpensIsNatural
<1> QED
  BY <1>2, <1>3

\* A tick takes nobody past a slot that leaves room.
LEMMA TickMissesNone ==
  ASSUME LoopInv, LoopInv', SlotInv, Clock
  PROVE  SlotInv'
<1>1. /\ now \in Nat /\ now' = now + 1 /\ Waits
      /\ UNCHANGED <<cfg, loop, lastFired, today, wakeAt, sent, since, failures>>
      /\ pass' = IF loop.at = "send" THEN [pass EXCEPT !.waited = TRUE] ELSE pass
  BY DEF Clock, memory, history, counters, LoopInv, LoopTyping
<1>2. UNCHANGED <<Scheduled, Asleep, Firing, Sending, Round>>
  BY <1>1 DEF Scheduled, Asleep, Firing, Sending, Round
<1>3. Counted /\ Counted' /\ SentKnown'
  BY <1>1, <1>2 DEF SlotInv, Counted, SentKnown
<1>4. \A i, d : UNCHANGED <<Opens(i, d), LeavesRoom(i), FiredOn(i, today)>>
  BY <1>1 DEF Opens, LeavesRoom, FiredOn
<1>5. UNCHANGED Indices(cfg, "daily")
  BY <1>1 DEF Indices
<1>6. Asleep => wakeAt > now
  BY <1>1 DEF Waits, Asleep
<1>7. Sending => /\ ~pass.waited /\ pass'.i = pass.i /\ pass'.day = pass.day /\ pass'.waited
                 /\ Waited = 0 /\ Waited' = 1
  <2> SUFFICES ASSUME Sending PROVE ~pass.waited /\ pass'.i = pass.i /\ pass'.day = pass.day /\ pass'.waited
    BY DEF Waited
  <2>1. loop.at = "send" /\ Firing /\ ~pass.waited
    BY <1>1 DEF Sending, Firing, Waits
  <2>2. pass \in Passes /\ pass' = [pass EXCEPT !.waited = TRUE]
    BY <1>1, <2>1, PassTyping DEF LoopInv
  <2> QED
    BY <2>1, <2>2 DEF Passes
<1>8. WakesInTime'
  BY <1>1, <1>2, <1>4, <1>5, <1>6 DEF SlotInv, WakesInTime, LoopInv, LoopTyping
<1>9. DayAtHand'
  <2>1. now' - 1 = now /\ now - 0 = now
    BY <1>1
  <2> QED
    BY <1>1, <1>2, <1>7, <2>1 DEF SlotInv, DayAtHand
<1>10. ASSUME Scheduled, NEW i \in Indices(cfg, "daily"), NEW d \in since .. Day(now'),
              LeavesRoom(i), <<i, d>> \notin sent
       PROVE  d = Day(now') /\ now' <= Opens(i, d) + Slack(i)'
  <2>1. /\ Day(now) \in Nat /\ Day(now') \in Nat /\ Day(now) <= Day(now') /\ now' \in Nat
        /\ d \in Nat /\ since \in Nat
    BY <1>1, <1>3, <1>10, DayFacts DEF Counted
  <2>2. Opens(i, d) \in Nat /\ d * DayLength \in Nat /\ d * DayLength <= Opens(i, d)
    BY <1>3, <2>1, OpensIsNatural, AnnouncerAssumption
  <2>3. Slack(i)' \in Nat
    BY <1>2, <1>3, <1>5, <1>10, SlackStaysNatural DEF SlackNatural
  <2>4. CASE d > Day(now)
    <3>1. d = Day(now')
      <4>1. /\ Day(now) * DayLength <= now /\ now < Day(now) * DayLength + DayLength
            /\ Day(now') * DayLength <= now'
        BY <1>1, <2>1, DayFacts
      <4>2. \A a, b \in Nat : a < b => a * DayLength + DayLength <= b * DayLength
        BY AnnouncerAssumption
      <4>3. Day(now) * DayLength + DayLength <= d * DayLength
        BY <2>1, <2>4, <4>2
      <4>4. d < Day(now') => d * DayLength + DayLength <= Day(now') * DayLength
        BY <2>1, <4>2
      <4>5. Day(now) * DayLength \in Nat /\ Day(now') * DayLength \in Nat /\ DayLength \in Nat \ {0}
        BY <2>1, AnnouncerAssumption
      <4> QED
        BY <1>1, <2>1, <2>2, <4>1, <4>3, <4>4, <4>5
    <3>2. now' <= d * DayLength
      <4>1. now < Day(now) * DayLength + DayLength
        BY <1>1, DayFacts
      <4>2. \A a, b \in Nat : a < b => a * DayLength + DayLength <= b * DayLength
        BY AnnouncerAssumption
      <4>3. Day(now) * DayLength + DayLength <= d * DayLength
        BY <2>1, <2>4, <4>2
      <4>4. Day(now) * DayLength \in Nat /\ DayLength \in Nat
        BY <2>1, AnnouncerAssumption
      <4> QED
        BY <1>1, <2>2, <4>1, <4>3, <4>4
    <3> QED
      BY <2>1, <2>2, <2>3, <3>1, <3>2
  <2>5. CASE d <= Day(now)
    <3>1. d = Day(now) /\ now <= Opens(i, d) + Slack(i)
      BY <1>10, <2>1, <2>5 DEF SlotInv, NotLate, NotLateFor
    <3>2. now' <= Opens(i, d) + Slack(i)'
      <4>1. CASE Asleep
        <5>1. wakeAt <= Opens(i, d)
          <6>1. Day(now) >= since /\ <<i, Day(now)>> \notin sent
            BY <1>10, <2>1, <3>1
          <6>2. wakeAt <= Opens(i, Day(now)) \/ wakeAt = now
            BY <4>1, <6>1, SleeperWakes
          <6>3. wakeAt # now
            BY <1>1, <1>6, <4>1
          <6> QED
            BY <3>1, <6>2, <6>3
        <5>2. wakeAt \in Nat /\ wakeAt > now
          BY <1>6, <4>1 DEF LoopInv, LoopTyping
        <5> QED
          BY <1>1, <2>2, <2>3, <5>1, <5>2
      <4>2. CASE Sending
        <5>1. Firing /\ (InReach(i)' <=> InReach(i)) /\ (pass.i <= i <=> pass'.i <= i)
          BY <1>2, <1>4, <1>7, <4>2 DEF InReach, Sending, Firing
        <5>2. /\ pass.i \in Nat /\ Round * failures \in Nat /\ Round \in Nat
              /\ (Round * failures)' = Round * failures
          BY <1>1, <1>2, <1>3, <5>1, PassFacts, SlotFacts
        <5>3. Slack(i)' = Slack(i) + 1
          BY <1>2, <1>7, <4>2, <5>1, <5>2 DEF Slack
        <5>4. Slack(i) \in Nat
          BY <1>3, <1>10, SlackFacts
        <5> QED
          BY <1>1, <2>2, <3>1, <5>3, <5>4
      <4> QED
        BY <1>1, <1>10, <4>1, <4>2 DEF Waits, Asleep, Sending, Scheduled, LoopInv, LoopTyping
    <3>3. cfg.schedule[i].n + Slack(i)' < DayLength
      <4>1. SlackInDay' /\ cfg' = cfg
        BY <1>1, <1>2, <1>3, <1>10, SlackStaysInDay
      <4> QED
        BY <1>4, <1>5, <1>10, <4>1 DEF SlackInDay
    <3>4. now' < d * DayLength + DayLength
      <4>1. cfg.schedule[i].n \in Nat /\ Opens(i, d) = d * DayLength + cfg.schedule[i].n
        BY <1>3, SlotFacts DEF Opens
      <4>2. DayLength \in Nat /\ now' \in Nat
        BY <2>1, AnnouncerAssumption
      <4> QED
        BY <2>2, <2>3, <3>2, <3>3, <4>1, <4>2
    <3>5. d * DayLength <= now'
      BY <1>1, <2>2, <3>1, DayFacts
    <3> QED
      BY <2>1, <3>2, <3>4, <3>5, DayIs
  <2> QED
    BY <2>1, <2>4, <2>5
<1>11. NotLate'
  BY <1>1, <1>2, <1>4, <1>5, <1>10 DEF NotLate, NotLateFor
<1> QED
  BY <1>3, <1>8, <1>9, <1>11 DEF SlotInv

\* The horizon has each slot, and a new schedule is held to none of today's.
LEMMA ScheduledTopMissesNone ==
  ASSUME LoopInv, LoopInv', SlotInv, NEW l \in Launches, env[l] \in Configs, ScheduledTop(l)
  PROVE  SlotInv'
<1> DEFINE c == LoadConfig(l)
<1>1. c.schedule \in Seq(Entries)
  BY LoadedHasEntries DEF LoadConfig, LoopInv, LoopTyping
<1>2. /\ Scheduled /\ ~Firing /\ Scheduled' /\ Asleep' /\ ~Firing' /\ ~Sending'
  BY DEF ScheduledTop, At, GoTo, Scheduled, Asleep, Firing, Sending
<1>3. /\ cfg' = c /\ lastFired' = Kept(c) /\ today' = Day(now)
      /\ wakeAt' = now + SleepFor(c) /\ UNCHANGED <<now, failures>>
      /\ \/ sent' = {} /\ since' = Day(now) + 1
         \/ c.schedule = cfg.schedule /\ sent' = sent /\ since' = since
  BY DEF ScheduledTop, files, history, counters
<1> HIDE DEF c
<1>4. now \in Nat /\ Day(now) \in Nat /\ Day(now)' = Day(now)
  BY <1>3, DayFacts DEF LoopInv, LoopTyping, Day
<1>5. Counted /\ Counted'
  BY <1>2, <1>3, <1>4 DEF SlotInv, Counted
<1>6. \A i \in DOMAIN lastFired' : i \in DOMAIN lastFired /\ lastFired'[i] = lastFired[i]
  BY <1>3 DEF Kept
<1>7. NotLate' /\ SentKnown'
  <2>1. CASE sent' = {} /\ since' = Day(now) + 1
    <3>1. \A i \in DOMAIN lastFired' : lastFired'[i] \in Nat /\ lastFired'[i] <= Day(now)
      BY <1>2, <1>6 DEF LoopInv, Remembered
    <3> QED
      BY <1>4, <2>1, <3>1 DEF NotLate, SentKnown
  <2>2. CASE c.schedule = cfg.schedule /\ sent' = sent /\ since' = since
    <3>1. Round' = Round
      BY <1>3, <2>2 DEF Round
    <3>2. \A i : Slack(i)' = Slack(i)
      BY <1>2, <1>3, <3>1 DEF Slack
    <3>3. \A i \in Indices(cfg, "daily") : Slack(i) <= Slack(i)'
      BY <1>2, <1>5, <3>2, SlackFacts
    <3>4. NotLate'
      BY <1>2, <1>3, <1>5, <2>2, <3>3, NotLaterThanBefore DEF SlotInv
    <3> QED
      BY <1>2, <1>6, <2>2, <3>4 DEF SlotInv, SentKnown
  <2> QED
    BY <1>3, <2>1, <2>2
<1>8. ASSUME NEW i \in Indices(c, "daily")
      PROVE  IF FiredOn(i, Day(now)) THEN wakeAt' <= (Day(now) + 1) * DayLength + c.schedule[i].n
             ELSE wakeAt' <= Day(now) * DayLength + c.schedule[i].n \/ wakeAt' = now
  <2> DEFINE t == c.schedule[i].n
             base == Day(now) * DayLength
             fired == FiredOn(i, Day(now))
             u == UntilSlot(t, fired)
  <2>1. t \in 0 .. (DayLength - 1) /\ DayLength \in Nat
    BY <1>1, <1>8, AnnouncerAssumption DEF Indices, Entries
  <2>2. base \in Nat /\ (Day(now) + 1) * DayLength = base + DayLength
    BY <1>4, AnnouncerAssumption
  <2>3. u \in Horizon(c)
    BY <1>8 DEF Horizon
  <2>4. SleepFor(c) \in Nat /\ SleepFor(c) <= u /\ u \in Nat
    BY <1>1, <1>2, <1>4, <2>3, SleepIsShort DEF LoopInv, LoopTyping
  <2>5. u = IF now < base + t THEN (base + t) - now
            ELSE IF ~fired THEN 0 ELSE base + t + DayLength - now
    BY DEF UntilSlot
  <2> HIDE DEF u, base, t, fired
  <2>6. IF fired THEN now + SleepFor(c) <= base + DayLength + t
        ELSE now + SleepFor(c) <= base + t \/ now + SleepFor(c) = now
    BY <1>4, <2>1, <2>2, <2>4, <2>5
  <2> QED
    BY <1>3, <2>2, <2>6 DEF t, base, fired
<1>9. WakesInTime'
  <2>1. Indices(cfg, "daily")' = Indices(c, "daily")
    BY <1>3 DEF Indices
  <2>2. \A i \in Indices(c, "daily") : FiredOn(i, today)' <=> FiredOn(i, Day(now))
    BY <1>3 DEF FiredOn, Kept
  <2>3. \A i : /\ Opens(i, today + 1)' = (Day(now) + 1) * DayLength + c.schedule[i].n
               /\ Opens(i, today)' = Day(now) * DayLength + c.schedule[i].n
    BY <1>3 DEF Opens
  <2> QED
    BY <1>3, <1>8, <2>1, <2>2, <2>3 DEF WakesInTime
<1>10. DayAtHand'
  BY <1>2 DEF DayAtHand
<1> QED
  BY <1>5, <1>7, <1>9, <1>10 DEF SlotInv

\* Who wakes with a slot not in reach wakes no later than its time.
LEMMA WakeUpMissesNone ==
  ASSUME LoopInv, LoopInv', SlotInv, NEW l \in Launches, WakeUp(l)
  PROVE  SlotInv'
<1>1. CASE loop.mode = "interval"
  BY <1>1, OtherwiseMissesNone DEF WakeUp, GoTo, Scheduled, counters, SlotInv, Counted
<1>2. CASE loop.mode = "schedule"
  <2>1. Asleep /\ Scheduled /\ ~Firing /\ Scheduled' /\ Firing' /\ ~Asleep' /\ ~Sending'
    BY <1>2 DEF WakeUp, GoTo, Scheduled, Asleep, Firing, Sending
  <2>2. /\ UNCHANGED <<now, cfg, lastFired, today, sent, since, failures>>
        /\ wakeAt <= now /\ pass'.i = 1 /\ ~pass'.waited
    BY <1>2 DEF WakeUp, memory, history, counters, NoPass
  <2>3. now \in Nat /\ wakeAt = now
    BY <2>1, <2>2 DEF LoopInv, LoopTyping, OnTime
  <2>4. Counted /\ Counted' /\ SentKnown'
    BY <2>1, <2>2 DEF SlotInv, Counted, SentKnown
  <2>5. Round' = Round /\ (Round * failures)' = Round * failures /\ Waited' = 0
    BY <2>2 DEF Round, Waited
  <2>6. ASSUME NEW i \in Indices(cfg, "daily"), Day(now) >= since, <<i, Day(now)>> \notin sent'
        PROVE  Slack(i) <= Slack(i)' \/ now <= Opens(i, Day(now))
    <3>1. Round \in Nat \ {0} /\ i \in 1 .. Round /\ Round * failures \in Nat
      BY <2>4, SlotFacts
    <3>2. CASE ~FiredOn(i, today)
      <4>1. InReach(i)'
        BY <2>1, <2>2, <3>1, <3>2 DEF InReach, FiredOn
      <4>2. Slack(i)' = Round * failures + Round - 1 + (1 - 1) + 0
        BY <2>1, <2>2, <2>5, <4>1 DEF Slack
      <4>3. Slack(i) = Round * failures + Round - 1
        BY <2>1 DEF Slack
      <4> QED
        BY <3>1, <4>2, <4>3
    <3>3. CASE FiredOn(i, today)
      BY <2>1, <2>2, <2>3, <2>6, <3>3, SleeperWakes
    <3> QED
      BY <3>2, <3>3
  <2>7. NotLate'
    BY <2>1, <2>2, <2>4, <2>6, NotLaterThanBefore DEF SlotInv
  <2> QED
    BY <2>1, <2>4, <2>7 DEF SlotInv, WakesInTime, DayAtHand
<1> QED
  BY <1>1, <1>2 DEF WakeUp, LoopInv, LoopTyping

\* A pass passes a slot whose time has not come, or that was sent.
LEMMA FireEntryMissesNone ==
  ASSUME LoopInv, LoopInv', SlotInv, NEW l \in Launches, FireEntry(l)
  PROVE  SlotInv'
<1> DEFINE k == pass.i
           q == Round * failures
<1>1. /\ UNCHANGED <<now, cfg, lastFired, today, sent, since, failures>>
      /\ k \in DOMAIN cfg.schedule /\ loop = [mode |-> "schedule", at |-> "fire"]
  BY DEF FireEntry, At, history, counters
<1>2. Scheduled /\ Firing /\ ~Asleep /\ ~Sending
  BY <1>1 DEF Scheduled, Firing, Asleep, Sending
<1>3. /\ k \in Nat \ {0} /\ Waited = 0 /\ now \in Nat /\ pass \in Passes /\ ~pass.waited
  BY <1>1, <1>2, PassFacts, PassTyping DEF LoopInv, OnTime
<1>4. Counted
  BY DEF SlotInv
<1>5. CASE ~Due(k)
  <2>1. loop' = loop /\ pass' = [pass EXCEPT !.i = @ + 1]
    BY <1>5 DEF FireEntry
  <2>2. pass'.i = k + 1 /\ Waited' = 0
    BY <1>3, <2>1 DEF Passes, Waited
  <2>3. UNCHANGED <<Scheduled, Firing, Asleep, Sending, Round>> /\ q' = q
    BY <1>1, <2>1 DEF Scheduled, Firing, Asleep, Sending, Round
  <2>4. Counted' /\ SentKnown'
    BY <1>1, <2>3 DEF SlotInv, Counted, SentKnown
  <2>5. ASSUME NEW i \in Indices(cfg, "daily")
        PROVE  Slack(i) <= Slack(i)' \/ now <= Opens(i, Day(now))
    <3>1. Round \in Nat \ {0} /\ i \in 1 .. Round /\ q \in Nat
      BY <1>4, SlotFacts
    <3>2. FiredOn(i, today)' <=> FiredOn(i, today)
      BY <1>1 DEF FiredOn
    <3> HIDE DEF q, k
    <3>3. CASE i > k
      <4>1. (k <= i) /\ (k + 1 <= i) /\ i >= k
        BY <1>3, <3>1, <3>3
      <4>2. InReach(i)' <=> InReach(i)
        BY <2>2, <2>3, <3>2, <4>1 DEF InReach, k
      <4>3. CASE InReach(i)
        <5>1. Slack(i) = q + Round - 1 + (k - 1) + 0
          BY <1>2, <1>3, <4>3 DEF Slack, q, k
        <5>2. Slack(i)' = q + Round - 1 + (k + 1 - 1) + 0
          BY <1>2, <1>3, <2>2, <2>3, <4>2, <4>3 DEF Slack, q
        <5> QED
          BY <1>3, <3>1, <5>1, <5>2
      <4>4. CASE ~InReach(i)
        <5>1. Slack(i) = q + (k - 1) + 0
          BY <1>2, <1>3, <4>1, <4>4 DEF Slack, q, k
        <5>2. Slack(i)' = q + (k + 1 - 1) + 0
          BY <1>2, <1>3, <2>2, <2>3, <4>1, <4>2, <4>4 DEF Slack, q
        <5> QED
          BY <1>3, <3>1, <5>1, <5>2
      <4> QED
        BY <4>3, <4>4
    <3>4. CASE i < k
      <4>1. ~(k <= i) /\ ~(k + 1 <= i)
        BY <1>3, <3>1, <3>4
      <4>2. ~InReach(i) /\ ~InReach(i)'
        BY <2>2, <4>1 DEF InReach, k
      <4>3. Slack(i) = q + k - 2 + 0
        BY <1>2, <1>3, <4>1, <4>2 DEF Slack, q, k
      <4>4. Slack(i)' = q + (k + 1) - 2 + 0
        BY <1>2, <2>2, <2>3, <4>1, <4>2 DEF Slack, q
      <4> QED
        BY <1>3, <3>1, <4>3, <4>4
    <3>5. CASE i = k
      <4>1. k <= i /\ ~(k + 1 <= i)
        BY <1>3, <3>1, <3>5
      <4>2. CASE FiredOn(i, today)
        <5>1. ~InReach(i) /\ ~InReach(i)'
          BY <3>2, <4>2 DEF InReach
        <5>2. Slack(i) = q + (k - 1) + 0
          BY <1>2, <1>3, <4>1, <5>1 DEF Slack, q, k
        <5>3. Slack(i)' = q + (k + 1) - 2 + 0
          BY <1>2, <2>2, <2>3, <4>1, <5>1 DEF Slack, q
        <5> QED
          BY <1>3, <3>1, <5>2, <5>3
      <4>3. CASE ~FiredOn(i, today)
        <5>1. ~(now >= Opens(i, Day(now)))
          BY <1>5, <3>5, <4>3 DEF Due, Indices, Opens
        <5>2. Day(now) \in Nat /\ Opens(i, Day(now)) \in Nat
          BY <1>3, <1>4, DayFacts, OpensIsNatural
        <5> QED
          BY <1>3, <5>1, <5>2
      <4> QED
        BY <4>2, <4>3
    <3> QED
      BY <1>3, <3>1, <3>3, <3>4, <3>5
  <2>6. NotLate'
    BY <1>1, <1>2, <1>4, <2>3, <2>4, <2>5, NotLaterThanBefore DEF SlotInv
  <2> QED
    BY <1>2, <2>3, <2>4, <2>6 DEF SlotInv, WakesInTime, DayAtHand
<1>6. CASE Due(k)
  <2>1. /\ loop' = [mode |-> "schedule", at |-> "send"] /\ pass' = [pass EXCEPT !.day = Day(now)]
    BY <1>6 DEF FireEntry, GoTo
  <2>2. pass'.i = k /\ Waited' = 0 /\ pass'.day = Day(now)
    BY <1>3, <2>1 DEF Passes, Waited
  <2>3. /\ Scheduled' /\ Firing' /\ ~Asleep' /\ Sending' /\ Round' = Round
    BY <1>1, <2>1 DEF Scheduled, Firing, Asleep, Sending, Round
  <2>4. Counted' /\ SentKnown'
    BY <1>1, <1>2, <2>3 DEF SlotInv, Counted, SentKnown
  <2>5. \A i : InReach(i)' <=> InReach(i)
    BY <1>1, <1>2, <2>2, <2>3 DEF InReach, FiredOn
  <2>6. \A i : Slack(i)' = Slack(i)
    BY <1>1, <1>2, <1>3, <2>2, <2>3, <2>5 DEF Slack
  <2>7. \A i \in Indices(cfg, "daily") : Slack(i) <= Slack(i)'
    BY <1>2, <1>4, <2>6, SlackFacts
  <2>8. NotLate'
    BY <1>1, <1>2, <1>4, <2>3, <2>4, <2>7, NotLaterThanBefore DEF SlotInv
  <2>9. DayAtHand'
    <3>1. now' - 0 = now
      BY <1>1, <1>3
    <3> QED
      BY <1>3, <2>2, <3>1 DEF DayAtHand
  <2> QED
    BY <2>3, <2>4, <2>8, <2>9 DEF SlotInv, WakesInTime
<1> QED
  BY <1>5, <1>6

\* At the end of a pass what it has gone by waits for the next.
LEMMA PassOverMissesNone ==
  ASSUME LoopInv, LoopInv', SlotInv, NEW l \in Launches, PassOver(l)
  PROVE  SlotInv'
<1> DEFINE q == Round * failures
<1>1. /\ UNCHANGED <<now, cfg, lastFired, today, sent, since, failures>>
      /\ loop = [mode |-> "schedule", at |-> "fire"] /\ loop' = [mode |-> "schedule", at |-> "top"]
      /\ pass.i > Len(cfg.schedule)
  BY DEF PassOver, At, GoTo, memory, history, counters
<1>2. /\ Scheduled /\ Firing /\ ~Asleep /\ ~Sending
      /\ Scheduled' /\ ~Firing' /\ ~Asleep' /\ ~Sending' /\ Round' = Round
  BY <1>1 DEF Scheduled, Firing, Asleep, Sending, Round
<1>3. Counted /\ Counted' /\ SentKnown'
  BY <1>1, <1>2 DEF SlotInv, Counted, SentKnown
<1>4. pass.i \in 1 .. (Round + 1) /\ pass.i > Round /\ Waited = 0
  BY <1>1, <1>2, PassFacts DEF Round
<1>5. ASSUME NEW i \in Indices(cfg, "daily")
      PROVE  Slack(i) <= Slack(i)'
  <2>1. Round \in Nat \ {0} /\ i \in 1 .. Round /\ q \in Nat
    BY <1>3, SlotFacts
  <2> HIDE DEF q
  <2>2. pass.i = Round + 1 /\ ~(pass.i <= i)
    BY <1>4, <2>1
  <2>3. ~InReach(i)
    BY <2>2 DEF InReach
  <2>4. Slack(i) = q + pass.i - 2 + 0
    BY <1>2, <1>4, <2>2, <2>3 DEF Slack, q
  <2>5. Slack(i)' = q + Round - 1
    BY <1>1, <1>2 DEF Slack, q
  <2> QED
    BY <2>1, <2>2, <2>4, <2>5
<1>6. NotLate'
  BY <1>1, <1>2, <1>3, <1>5, NotLaterThanBefore DEF SlotInv
<1> QED
  BY <1>2, <1>3, <1>6 DEF SlotInv, WakesInTime, DayAtHand

\* A slot that went out on the eve was sent for the eve: today's begins only.
LEMMA SentOnTheEve ==
  ASSUME LoopInv, SlotInv, Sending, pass.day # Day(now), NEW i \in Indices(cfg, "daily")
  PROVE  now <= Opens(i, Day(now))
<1>1. Firing /\ Counted
  BY DEF Sending, Firing, SlotInv
<1>2. pass.day = Day(now - Waited) /\ now - Waited \in Nat /\ now \in Nat /\ Waited \in {0, 1}
  BY <1>1, PassFacts DEF SlotInv, DayAtHand
<1>3. now - 1 \in Nat /\ Day(now - 1) # Day(now)
  BY <1>2
<1>4. /\ Day(now) \in Nat /\ Day(now) * DayLength \in Nat /\ DayLength \in Nat
      /\ Day(now) * DayLength <= now /\ now < Day(now) * DayLength + DayLength
  BY <1>2, DayFacts, AnnouncerAssumption
<1>5. ~(Day(now) * DayLength <= now - 1)
  <2>1. now - 1 < Day(now) * DayLength + DayLength
    BY <1>2, <1>4
  <2> QED
    BY <1>3, <1>4, <2>1, DayIs
<1>6. now <= Day(now) * DayLength
  BY <1>2, <1>4, <1>5
<1> QED
  BY <1>1, <1>2, <1>4, <1>6, OpensIsNatural

\* A slot that failed waits for a pass, and all others for one announcement.
LEMMA DispatchedMissesNone ==
  ASSUME LoopInv, LoopInv', SlotInv, NEW l \in Launches, NEW o \in Outcomes, Dispatched(l, o)
  PROVE  SlotInv'
<1> DEFINE k == pass.i
           q == Round * failures
           daily == cfg.schedule[pass.i].kind = "daily"
<1>1. /\ UNCHANGED <<now, cfg, today, since>> /\ loop.at = "send"
      /\ failures' = IF Success(o) THEN failures ELSE failures + 1
      /\ ~Success(o) => failures < MaxFailures
  BY DEF Dispatched
<1>2. failures' \in 0 .. MaxFailures
  BY <1>1, AnnouncerAssumption DEF SlotInv, Counted
<1>3. CASE loop.mode = "interval"
  BY <1>2, <1>3, OtherwiseMissesNone DEF Dispatched, GoTo, Scheduled
<1>4. CASE loop.mode = "schedule"
  <2>1. /\ loop' = [mode |-> "schedule", at |-> "fire"]
        /\ pass' = [pass EXCEPT !.i = @ + 1, !.day = 0, !.waited = FALSE]
    BY <1>4 DEF Dispatched, GoTo
  <2>2. \/ daily /\ Success(o) /\ sent' = sent \union {<<k, pass.day>>}
             /\ lastFired' = [i \in DOMAIN lastFired \union {k} |->
                                IF i = k THEN pass.day ELSE lastFired[i]]
        \/ ~(daily /\ Success(o)) /\ UNCHANGED <<lastFired, sent>>
    BY <1>4 DEF Dispatched
  <2>3. /\ Scheduled /\ Firing /\ ~Asleep /\ Sending /\ Counted
        /\ Scheduled' /\ Firing' /\ ~Asleep' /\ ~Sending' /\ Round' = Round
    BY <1>1, <1>4, <2>1 DEF Scheduled, Firing, Asleep, Sending, Round, SlotInv
  <2>4. k \in Nat \ {0} /\ k <= Round /\ Waited \in {0, 1} /\ now \in Nat /\ pass \in Passes
    BY <2>3, PassFacts, PassTyping DEF LoopInv
  <2>5. pass'.i = k + 1 /\ Waited' = 0
    BY <2>1, <2>4 DEF Passes, Waited
  <2>6. Counted'
    BY <1>1, <1>2, <2>3 DEF Counted
  <2>7. SentKnown'
    <3>1. ASSUME NEW j \in DOMAIN lastFired', lastFired'[j] >= since
          PROVE  <<j, lastFired'[j]>> \in sent'
      <4>1. CASE lastFired' = lastFired /\ sent' = sent
        BY <2>3, <3>1, <4>1 DEF SlotInv, SentKnown
      <4>2. CASE j = k /\ sent' = sent \union {<<k, pass.day>>} /\ lastFired'[j] = pass.day
        BY <4>2
      <4>3. CASE j \in DOMAIN lastFired /\ sent \subseteq sent' /\ lastFired'[j] = lastFired[j]
        BY <2>3, <3>1, <4>3 DEF SlotInv, SentKnown
      <4> QED
        BY <2>2, <4>1, <4>2, <4>3
    <3> QED
      BY <1>1, <3>1 DEF SentKnown
  <2>8. ASSUME NEW i \in Indices(cfg, "daily"), <<i, Day(now)>> \notin sent'
        PROVE  Slack(i) <= Slack(i)' \/ now <= Opens(i, Day(now))
    <3>1. Round \in Nat \ {0} /\ i \in 1 .. Round /\ q \in Nat /\ Round * (failures + 1) = q + Round
      BY <2>3, SlotFacts
    <3>2. q' \in {q, q + Round} /\ (~Success(o) => q' = q + Round)
      BY <1>1, <2>3, <3>1
    <3>7. \A a, b \in Nat, m, p \in Nat \ {0}, w \in {0, 1} : b \in {a, a + m} =>
             /\ a + m - 1 + (p - 1) + w <= b + m - 1 + (p + 1 - 1) + 0
             /\ a + (p - 1) + w <= b + (p + 1 - 1) + 0
             /\ a + p - 2 + w <= b + (p + 1) - 2 + 0
      OBVIOUS
    <3>8. q' \in Nat
      BY <3>1, <3>2
    <3>9. /\ q + Round - 1 + (k - 1) + Waited <= q' + Round - 1 + (k + 1 - 1) + 0
          /\ q + (k - 1) + Waited <= q' + (k + 1 - 1) + 0
          /\ q + k - 2 + Waited <= q' + (k + 1) - 2 + 0
      <4> HIDE DEF q, k
      <4> QED
        BY <2>4, <3>1, <3>2, <3>7, <3>8, Zenon
    <3>3. i # k => (FiredOn(i, today)' <=> FiredOn(i, today))
      BY <1>1, <2>2 DEF FiredOn
    <3> HIDE DEF q, k
    <3>4. CASE i > k
      <4>1. (k <= i) /\ (k + 1 <= i) /\ i # k
        BY <2>4, <3>1, <3>4
      <4>2. InReach(i)' <=> InReach(i)
        BY <2>3, <2>5, <3>3, <4>1 DEF InReach, k
      <4>3. CASE InReach(i)
        <5>1. Slack(i) = q + Round - 1 + (k - 1) + Waited
          BY <2>3, <4>3 DEF Slack, q, k
        <5>2. Slack(i)' = q' + Round - 1 + (k + 1 - 1) + 0
          BY <2>3, <2>4, <2>5, <4>2, <4>3 DEF Slack, q
        <5> QED
          BY <3>9, <5>1, <5>2
      <4>4. CASE ~InReach(i)
        <5>1. Slack(i) = q + (k - 1) + Waited
          BY <2>3, <4>1, <4>4 DEF Slack, q, k
        <5>2. Slack(i)' = q' + (k + 1 - 1) + 0
          BY <2>3, <2>4, <2>5, <4>1, <4>2, <4>4 DEF Slack, q
        <5> QED
          BY <3>9, <5>1, <5>2
      <4> QED
        BY <4>3, <4>4
    <3>5. CASE i < k
      <4>1. ~(k <= i) /\ ~(k + 1 <= i)
        BY <2>4, <3>1, <3>5
      <4>2. ~InReach(i) /\ ~InReach(i)'
        BY <2>5, <4>1 DEF InReach, k
      <4>3. Slack(i) = q + k - 2 + Waited
        BY <2>3, <4>1, <4>2 DEF Slack, q, k
      <4>4. Slack(i)' = q' + (k + 1) - 2 + 0
        BY <2>3, <2>5, <4>1, <4>2 DEF Slack, q
      <4> QED
        BY <3>9, <4>3, <4>4
    <3>6. CASE i = k
      <4>1. k <= i /\ ~(k + 1 <= i)
        BY <2>4, <3>1, <3>6
      <4>2. ~InReach(i)'
        BY <2>5, <4>1 DEF InReach
      <4>3. Slack(i)' = q' + (k + 1) - 2 + 0
        BY <2>3, <2>5, <4>1, <4>2 DEF Slack, q
      <4>4. CASE Success(o)
        <5>1. pass.day # Day(now)
          <6>1. daily
            BY <3>6 DEF Indices, k
          <6> QED
            BY <2>2, <2>8, <3>6, <4>4, <6>1
        <5> QED
          BY <2>3, <5>1, SentOnTheEve
      <4>5. CASE ~Success(o)
        <5>1. Slack(i) \in {q + Round - 1 + (k - 1) + Waited, q + (k - 1) + Waited}
          BY <2>3, <4>1 DEF Slack, q, k
        <5> QED
          BY <2>4, <3>1, <3>2, <4>3, <4>5, <5>1
      <4> QED
        BY <4>4, <4>5
    <3> QED
      BY <2>4, <3>1, <3>4, <3>5, <3>6
  <2>9. NotLate'
    <3>1. sent \subseteq sent'
      BY <2>2
    <3> QED
      BY <1>1, <2>3, <2>6, <2>8, <3>1, NotLaterThanBefore DEF SlotInv
  <2> QED
    BY <2>3, <2>6, <2>7, <2>9 DEF SlotInv, WakesInTime, DayAtHand
<1> QED
  BY <1>1, <1>3, <1>4 DEF LoopInv, LoopTyping

\* Every step of the announcer keeps the slots.
LEMMA SlotsInductive == LaunchedInv /\ LaunchedInv' /\ SlotInv /\ [Next]_vars => SlotInv'
<1> SUFFICES ASSUME LoopInv, LoopInv', SlotInv, env \in [Launches -> Configs], [Next]_vars PROVE SlotInv'
  BY DEF LaunchedInv
<1>1. failures \in 0 .. MaxFailures
  BY DEF SlotInv, Counted
<1>2. CASE UNCHANGED vars
  BY <1>2, StutterMissesNone DEF vars, loopVars, history, counters
<1>3. CASE Clock
  BY <1>3, TickMissesNone
<1>4. ASSUME NEW c \in Configs, Edit(c) PROVE SlotInv'
  BY <1>4, StutterMissesNone DEF Edit, loopVars, history
<1>5. ASSUME NEW l \in Launches, Start(l) \/ Sigterm(l) PROVE SlotInv'
  BY <1>5, StutterMissesNone DEF Start, Sigterm, loopVars, history, counters
<1>6. ASSUME NEW l \in Launches, Begin(l) \/ Quit(l) PROVE SlotInv'
  <2>1. ~Scheduled' /\ failures' = failures
    BY <1>6 DEF Begin, Quit, Forget, GoTo, counters, Scheduled
  <2> QED
    BY <1>1, <2>1, OtherwiseMissesNone
<1>7. ASSUME NEW l \in Launches, Crash(l) PROVE SlotInv'
  <2>1. failures' = failures
    BY <1>7 DEF Crash, counters
  <2>2. CASE Running(l)
    <3>1. ~Scheduled'
      BY <1>7, <2>2 DEF Crash, Forget, GoTo, Scheduled
    <3> QED
      BY <1>1, <2>1, <3>1, OtherwiseMissesNone
  <2>3. CASE ~Running(l)
    BY <1>7, <2>1, <2>3, StutterMissesNone DEF Crash, loopVars, history
  <2> QED
    BY <2>2, <2>3
<1>8. ASSUME NEW l \in Launches, LoopStep(l) PROVE SlotInv'
  <2>1. CASE DelayOver(l)
    BY <2>1, EnterMissesNone DEF DelayOver, counters
  <2>2. CASE SwitchLoop(l)
    BY <2>2, EnterMissesNone DEF SwitchLoop, counters
  <2>3. CASE IntervalTop(l)
    <3>1. ~Scheduled' /\ failures' = failures
      BY <2>3 DEF IntervalTop, GoTo, counters, Scheduled
    <3> QED
      BY <1>1, <3>1, OtherwiseMissesNone
  <2> QED
    BY <1>6, <1>8, <2>1, <2>2, <2>3, ScheduledTopMissesNone, WakeUpMissesNone, FireEntryMissesNone,
       PassOverMissesNone, DispatchedMissesNone DEF LoopStep
<1>9. ASSUME NEW l \in Launches,
             (LaunchStep(l) \/ AcquireLock(l))
               /\ UNCHANGED <<now, files, loopVars, counters, history>>
      PROVE  SlotInv'
  BY <1>9, StutterMissesNone DEF loopVars, history, counters
<1> QED
  BY <1>2, <1>3, <1>4, <1>5, <1>6, <1>7, <1>8, <1>9 DEF Next

\* Every slot that leaves room for the passes before midnight is sent on every
\* whole day its schedule is at work (seconds_until_next_slot, the horizon).
THEOREM EverySlotSent == Spec => []NoSlotMissed
<1>1. Init => SlotInv
  <2> SUFFICES ASSUME Init PROVE SlotInv
    OBVIOUS
  <2>1. failures = 0 /\ loop.mode = "none"
    BY DEF Init
  <2> QED
    BY <2>1, AnnouncerAssumption DEF SlotInv, Counted, NotLate, SentKnown, WakesInTime, DayAtHand,
       Scheduled, Asleep, Sending
<1>2. LaunchedInv /\ SlotInv => NoSlotMissed
  <2> SUFFICES ASSUME LoopInv, SlotInv, Scheduled, NEW i \in Indices(cfg, "daily"),
                      NEW d \in since .. (Day(now) - 1), LeavesRoom(i)
               PROVE  <<i, d>> \in sent
    BY DEF LaunchedInv, NoSlotMissed, Scheduled
  <2>1. Day(now) \in Nat /\ since \in Nat
    BY DayFacts DEF LoopInv, LoopTyping, SlotInv, Counted
  <2>2. d \in since .. Day(now) /\ d # Day(now)
    BY <2>1
  <2> QED
    BY <2>2 DEF SlotInv, NotLate, NotLateFor
<1> QED
  BY <1>1, <1>2, LoopInitially, LoopInductive, SlotsInductive, PTL DEF Spec

=============================================================================
