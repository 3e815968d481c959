--------------------------- MODULE AnnouncerWorker ---------------------------
(***************************************************************************)
(* How announcer.py becomes one background worker: a launch probes the lock *)
(* file and starts a child in a session of its own; the child takes the     *)
(* lock for as long as it lives or exits.                                   *)
(*                                                                          *)
(* The probe of previous_worker_alive is itself a short exclusive lock, and *)
(* nothing is held between the probe and the start of the child.  Each      *)
(* launch starts at most one child, named after it.  The operating system   *)
(* releases the lock of a process that ends.  The PID file is left out: it  *)
(* is read by a worker that ends, to remove it, and decides nothing.        *)
(***************************************************************************)
EXTENDS Integers, FiniteSets

CONSTANT
  Launches    \* bound: the times the script is started

VARIABLES
  launcher,   \* where each launch stands
  worker,     \* where its child stands
  lock,       \* who holds the exclusive lock on LOCK_PATH
  intact      \* history: no start has failed, no worker has ended

workerVars == <<launcher, worker, lock, intact>>

Nobody == [by |-> "nobody", of |-> "nobody"]
Prober(l) == [by |-> "launcher", of |-> l]
Holder(l) == [by |-> "worker", of |-> l]

ASSUME WorkerAssumption == "nobody" \notin Launches

WorkerTypeOK ==
  /\ launcher \in [Launches -> {"idle", "probe", "probing", "spawn", "done"}]
  /\ worker \in [Launches -> {"none", "starting", "locked", "running", "gone"}]
  /\ lock \in {Nobody} \union {Prober(l) : l \in Launches} \union {Holder(l) : l \in Launches}
  /\ intact \in BOOLEAN

WorkerInit ==
  /\ launcher = [l \in Launches |-> "idle"]
  /\ worker = [l \in Launches |-> "none"]
  /\ lock = Nobody
  /\ intact = TRUE

-----------------------------------------------------------------------------
(* launch_background_worker.                                                *)

LauncherAt(l, from, to) == launcher[l] = from /\ launcher' = [launcher EXCEPT ![l] = to]
WorkerAt(l, from, to) == worker[l] = from /\ worker' = [worker EXCEPT ![l] = to]

\* A disabled announcer is not launched.
Launch(l, enabled) ==
  /\ LauncherAt(l, "idle", IF enabled THEN "probe" ELSE "done")
  /\ intact' = (intact /\ enabled)
  /\ UNCHANGED <<worker, lock>>

\* previous_worker_alive: a lock held by anybody, another prober included,
\* is taken for a worker.
Probe(l) ==
  /\ \/ lock = Nobody /\ LauncherAt(l, "probe", "probing") /\ lock' = Prober(l)
     \/ lock # Nobody /\ LauncherAt(l, "probe", "done") /\ UNCHANGED lock
  /\ UNCHANGED <<worker, intact>>

Release(l) ==
  /\ LauncherAt(l, "probing", "spawn")
  /\ lock' = Nobody
  /\ UNCHANGED <<worker, intact>>

\* Popen.
Spawn(l) ==
  /\ LauncherAt(l, "spawn", "done")
  /\ worker' = [worker EXCEPT ![l] = "starting"]
  /\ UNCHANGED <<lock, intact>>

\* The log cannot be opened, or Popen fails.
SpawnFails(l) ==
  /\ LauncherAt(l, "spawn", "done")
  /\ intact' = FALSE
  /\ UNCHANGED <<worker, lock>>

-----------------------------------------------------------------------------
(* run_worker.                                                              *)

\* Faulty: the probe of the launch is relied on.
AcquireLockUnchecked(l) ==
  /\ WorkerAt(l, "starting", "locked")
  /\ lock' = Holder(l)
  /\ UNCHANGED <<launcher, intact>>

AcquireLock(l) ==
  /\ \/ lock = Nobody /\ WorkerAt(l, "starting", "locked") /\ lock' = Holder(l)
     \/ lock # Nobody /\ WorkerAt(l, "starting", "gone") /\ UNCHANGED lock
  /\ UNCHANGED <<launcher, intact>>

\* It installs the signal handlers.
InstallHandlers(l) ==
  /\ WorkerAt(l, "locked", "running")
  /\ UNCHANGED <<launcher, lock, intact>>

\* run_worker returns: its finally clause unlocks, or the handle, a local of
\* it, is closed with its frame.
Leave(l) ==
  /\ WorkerAt(l, "running", "gone")
  /\ lock' = Nobody
  /\ intact' = FALSE
  /\ UNCHANGED <<launcher>>

Unlocked(l) == IF lock = Holder(l) THEN Nobody ELSE lock

\* A kill or a crash: no handler runs.
Killed(l) ==
  /\ worker[l] \in {"starting", "locked", "running"}
  /\ worker' = [worker EXCEPT ![l] = "gone"]
  /\ lock' = Unlocked(l)
  /\ intact' = FALSE
  /\ UNCHANGED <<launcher>>

LaunchStep(l) == Probe(l) \/ Release(l) \/ Spawn(l) \/ SpawnFails(l)

-----------------------------------------------------------------------------
(* Properties.                                                              *)

Announcing == {l \in Launches : worker[l] \in {"locked", "running"}}

\* However launches overlap, there is never a second worker, and once they are
\* all through, exactly one is left.  A probe may make a child of another
\* launch give up, but then it starts one of its own.
OneWorkerRemains ==
  /\ Cardinality(Announcing) <= 1
  /\ intact /\ (\E l \in Launches : launcher[l] = "done")
            /\ (\A l \in Launches : launcher[l] \in {"idle", "done"} /\ worker[l] # "starting")
       => Announcing # {}

=============================================================================
