----------------------------- MODULE AddonRunner -----------------------------
(***************************************************************************)
(* Event addons as child processes of the supervisor, on top of the event  *)
(* bus: AddonRunner.Start and launch, HandleEvent writing to an addon's    *)
(* stdin, waitForExit, Stop, and the part of Supervisor.Run that orders    *)
(* them: launch the addons, start the scanners, wait for the game server,  *)
(* cancel the context, stop the addons, close the bus.                     *)
(*                                                                         *)
(* Handlers of the bus are the addons.  A process may exit at any time and *)
(* may stop reading its stdin for good, in which case a write blocks and   *)
(* keeps stdinMu.  One that is killed does exit.                           *)
(***************************************************************************)
EXTENDS EventDispatcher

VARIABLES
  run,          \* where Supervisor.Run stands
  toLaunch,     \* the enabled event addons Start has yet to launch
  launching,    \* the addon inside launch, and how far it is
  addons,       \* AddonRunner.addons
  proc,         \* the child process
  waiter,       \* the goroutine in waitForExit
  cleanup,      \* addon.unsubscribe is set
  stdinClosed,  \* runningAddon.stdinClosed
  writing,      \* HandleEvent holds stdinMu and is in Write
  exited,       \* addon.exited is closed
  addonCancel,  \* the addon's own context is cancelled
  stopping,     \* the addons Stop has yet to deal with in its present loop
  stopList,     \* the snapshot it took
  deadline      \* its timer: pending, fired, or received from

addonVars == <<toLaunch, launching, addons, proc, waiter, cleanup, stdinClosed,
               writing, exited, addonCancel>>
stopVars  == <<stopping, stopList, deadline>>
vars == <<busVars, run, addonVars, stopVars>>

NoLaunch == [addon |-> NoEntry, step |-> "none"]

RunnerTypeOK ==
  /\ TypeOK
  /\ run \in {"launching", "running", "stop", "closeStdin", "wait", "close", "exited"}
  /\ toLaunch \subseteq Handlers
  /\ launching \in [addon : Handlers \union {NoEntry},
                    step : {"none", "started", "listed", "subscribed"}]
  /\ addons \subseteq Handlers
  /\ proc \in [Handlers -> {"none", "running", "exited", "killed"}]
  /\ waiter \in [Handlers -> {"none", "wait", "reaped", "feedClosed", "removing",
                              "left", "done"}]
  /\ \A f \in {cleanup, stdinClosed, writing, exited, addonCancel} :
       f \in [Handlers -> BOOLEAN]
  /\ stopping \subseteq Handlers
  /\ stopList \subseteq Handlers
  /\ deadline \in {"none", "pending", "fired", "used"}
  \* Start launches one addon after the other and returns when it is through.
  /\ run # "launching" => toLaunch = {} /\ launching = NoLaunch

Init ==
  /\ BusInit
  /\ run = "launching"
  /\ toLaunch = Handlers
  /\ launching = NoLaunch
  /\ addons = {}
  /\ proc = [a \in Handlers |-> "none"]
  /\ waiter = [a \in Handlers |-> "none"]
  /\ cleanup = [a \in Handlers |-> FALSE]
  /\ stdinClosed = [a \in Handlers |-> FALSE]
  /\ writing = [a \in Handlers |-> FALSE]
  /\ exited = [a \in Handlers |-> FALSE]
  /\ addonCancel = [a \in Handlers |-> FALSE]
  /\ stopping = {}
  /\ stopList = {}
  /\ deadline = "none"

\* The supervisor process is there: it has neither panicked nor returned.
Alive == ~panicked /\ run # "exited"

-----------------------------------------------------------------------------
(* Start and launch.                                                        *)

\* No script, or the process cannot be started (a cancelled context too).
LaunchFails(a) ==
  /\ Alive
  /\ run = "launching" /\ launching = NoLaunch
  /\ a \in toLaunch
  /\ toLaunch' = toLaunch \ {a}
  /\ UNCHANGED <<busVars, run, launching, addons, proc, waiter, cleanup, stdinClosed,
                 writing, exited, addonCancel, stopVars>>

\* cmd.Start, and waitForExit in a goroutine of its own.
LaunchStart(a) ==
  /\ Alive
  /\ run = "launching" /\ launching = NoLaunch
  /\ a \in toLaunch
  /\ ~cancelled
  /\ toLaunch' = toLaunch \ {a}
  /\ launching' = [addon |-> a, step |-> "started"]
  /\ proc' = [proc EXCEPT ![a] = "running"]
  /\ waiter' = [waiter EXCEPT ![a] = "wait"]
  /\ UNCHANGED <<busVars, run, addons, cleanup, stdinClosed, writing, exited,
                 addonCancel, stopVars>>

LaunchAppend ==
  /\ Alive
  /\ launching.step = "started"
  /\ addons' = addons \union {launching.addon}
  /\ launching' = [launching EXCEPT !.step = "listed"]
  /\ UNCHANGED <<busVars, run, toLaunch, proc, waiter, cleanup, stdinClosed, writing,
                 exited, addonCancel, stopVars>>

LaunchSubscribe ==
  /\ Alive
  /\ launching.step = "listed"
  /\ Subscribe(launching.addon)
  /\ launching' = [launching EXCEPT !.step = "subscribed"]
  /\ UNCHANGED <<run, toLaunch, addons, proc, waiter, cleanup, stdinClosed, writing,
                 exited, addonCancel, stopVars>>

LaunchSetCleanup ==
  /\ Alive
  /\ launching.step = "subscribed"
  /\ cleanup' = [cleanup EXCEPT ![launching.addon] = TRUE]
  /\ launching' = NoLaunch
  /\ UNCHANGED <<busVars, run, toLaunch, addons, proc, waiter, stdinClosed, writing,
                 exited, addonCancel, stopVars>>

\* Start returns and Run starts the scanners.
StartReturns ==
  /\ Alive
  /\ run = "launching" /\ launching = NoLaunch /\ toLaunch = {}
  /\ run' = "running"
  /\ UNCHANGED <<busVars, addonVars, stopVars>>

LaunchStep ==
  \/ \E a \in Handlers : LaunchFails(a) \/ LaunchStart(a)
  \/ LaunchAppend \/ LaunchSubscribe \/ LaunchSetCleanup \/ StartReturns

-----------------------------------------------------------------------------
(* The child process.                                                       *)

ProcessExits(a) ==
  /\ Alive
  /\ proc[a] = "running"
  /\ proc' = [proc EXCEPT ![a] = "exited"]
  /\ UNCHANGED <<busVars, run, toLaunch, launching, addons, waiter, cleanup,
                 stdinClosed, writing, exited, addonCancel, stopVars>>

\* exec.CommandContext kills it when its context, or the one above, is done.
ProcessKilled(a) ==
  /\ Alive
  /\ proc[a] = "running"
  /\ cancelled \/ addonCancel[a]
  /\ proc' = [proc EXCEPT ![a] = "killed"]
  /\ UNCHANGED <<busVars, run, toLaunch, launching, addons, waiter, cleanup,
                 stdinClosed, writing, exited, addonCancel, stopVars>>

-----------------------------------------------------------------------------
(* HandleEvent, on the bus goroutine of the addon.                          *)

\* The feed is closed: the event is ignored.
HandleIgnored(a) ==
  /\ Alive
  /\ ~writing[a] /\ stdinClosed[a]
  /\ HandleReturns(a)
  /\ UNCHANGED <<run, addonVars, stopVars>>

HandleLock(a) ==
  /\ Alive
  /\ runner[a] = "handling"
  /\ ~writing[a] /\ ~stdinClosed[a]
  /\ writing' = [writing EXCEPT ![a] = TRUE]
  /\ UNCHANGED <<busVars, run, toLaunch, launching, addons, proc, waiter, cleanup,
                 stdinClosed, exited, addonCancel, stopVars>>

\* The pipe takes the line; a process that no longer reads may never let it.
WriteSucceeds(a) ==
  /\ Alive
  /\ writing[a]
  /\ proc[a] = "running"
  /\ HandleReturns(a)
  /\ writing' = [writing EXCEPT ![a] = FALSE]
  /\ UNCHANGED <<run, toLaunch, launching, addons, proc, waiter, cleanup, stdinClosed,
                 exited, addonCancel, stopVars>>

WriteFails(a) ==
  /\ Alive
  /\ writing[a]
  /\ proc[a] # "running"
  /\ HandleReturns(a)
  /\ writing' = [writing EXCEPT ![a] = FALSE]
  /\ stdinClosed' = [stdinClosed EXCEPT ![a] = TRUE]
  /\ UNCHANGED <<run, toLaunch, launching, addons, proc, waiter, cleanup, exited,
                 addonCancel, stopVars>>

-----------------------------------------------------------------------------
(* waitForExit.                                                             *)

Waiter(a, from, to) ==
  /\ Alive
  /\ waiter[a] = from
  /\ waiter' = [waiter EXCEPT ![a] = to]

WaitReaps(a) ==
  /\ proc[a] # "running"
  /\ Waiter(a, "wait", "reaped")
  /\ UNCHANGED <<busVars, run, toLaunch, launching, addons, proc, cleanup, stdinClosed,
                 writing, exited, addonCancel, stopVars>>

\* Under stdinMu.
WaitClosesFeed(a) ==
  /\ ~writing[a]
  /\ Waiter(a, "reaped", "feedClosed")
  /\ stdinClosed' = [stdinClosed EXCEPT ![a] = TRUE]
  /\ UNCHANGED <<busVars, run, toLaunch, launching, addons, proc, cleanup, writing,
                 exited, addonCancel, stopVars>>

\* a.unsubscribe is read without a lock while launch may yet have to set it.
WaitUnsubscribes(a) ==
  /\ Waiter(a, "feedClosed", IF cleanup[a] THEN "removing" ELSE "left")
  /\ UNCHANGED <<busVars, run, toLaunch, launching, addons, proc, cleanup, stdinClosed,
                 writing, exited, addonCancel, stopVars>>

WaitRemoves(a) ==
  /\ Alive
  /\ waiter[a] = "removing"
  /\ RemoveStep(a)
  /\ waiter' = [waiter EXCEPT ![a] = IF removal'[a] = "done" THEN "left" ELSE @]
  /\ UNCHANGED <<run, toLaunch, launching, addons, proc, cleanup, stdinClosed, writing,
                 exited, addonCancel, stopVars>>

\* cancel, close(exited), and the entry leaves the runner's list.
WaitReturns(a) ==
  /\ Waiter(a, "left", "done")
  /\ addonCancel' = [addonCancel EXCEPT ![a] = TRUE]
  /\ exited' = [exited EXCEPT ![a] = TRUE]
  /\ addons' = addons \ {a}
  /\ UNCHANGED <<busVars, run, toLaunch, launching, proc, cleanup, stdinClosed, writing,
                 stopVars>>

WaiterStep(a) ==
  WaitReaps(a) \/ WaitClosesFeed(a) \/ WaitUnsubscribes(a) \/ WaitRemoves(a)
  \/ WaitReturns(a)

-----------------------------------------------------------------------------
(* The end of Supervisor.Run.                                               *)

\* SIGTERM cancels the context Run was given.
Signal ==
  /\ Alive
  /\ run \in {"launching", "running"}
  /\ Cancel
  /\ UNCHANGED <<run, addonVars, stopVars>>

\* Faulty: the addons are stopped under a live context.
ServerExitsUncancelled ==
  /\ Alive
  /\ run = "running"
  /\ run' = "stop"
  /\ UNCHANGED <<busVars, addonVars, stopVars>>

\* command.Wait returns; Run cancels its context and calls Stop.
ServerExits ==
  /\ Alive
  /\ run = "running"
  /\ run' = "stop"
  /\ cancelled' = TRUE
  /\ UNCHANGED <<policy, handlers, closed, pubVars, entryVars, removeVars, panicked,
                 addonVars, stopVars>>

StopBegin ==
  /\ Alive
  /\ run = "stop"
  /\ stopList' = addons
  /\ stopping' = addons
  /\ run' = IF addons = {} THEN "close" ELSE "closeStdin"
  /\ UNCHANGED <<busVars, addonVars, deadline>>

\* Faulty: an addon that is being written to is passed over.
StopPassesOverBusy(a) ==
  /\ Alive
  /\ run = "closeStdin"
  /\ a \in stopping
  /\ stdinClosed' = [stdinClosed EXCEPT ![a] = @ \/ ~writing[a]]
  /\ stopping' = stopping \ {a}
  /\ UNCHANGED <<busVars, run, toLaunch, launching, addons, proc, waiter, cleanup,
                 writing, exited, addonCancel, stopList, deadline>>

\* One round of the first loop, under stdinMu.
StopClosesStdin(a) ==
  /\ Alive
  /\ run = "closeStdin"
  /\ a \in stopping
  /\ ~writing[a]
  /\ stdinClosed' = [stdinClosed EXCEPT ![a] = TRUE]
  /\ stopping' = stopping \ {a}
  /\ UNCHANGED <<busVars, run, toLaunch, launching, addons, proc, waiter, cleanup,
                 writing, exited, addonCancel, stopList, deadline>>

StopStartsTimer ==
  /\ Alive
  /\ run = "closeStdin"
  /\ stopping = {}
  /\ run' = "wait"
  /\ stopping' = stopList
  /\ deadline' = "pending"
  /\ UNCHANGED <<busVars, addonVars, stopList>>

DeadlineFires ==
  /\ Alive
  /\ deadline = "pending"
  /\ deadline' = "fired"
  /\ UNCHANGED <<busVars, run, addonVars, stopping, stopList>>

StopSeesExit(a) ==
  /\ Alive
  /\ run = "wait"
  /\ a \in stopping
  /\ exited[a]
  /\ stopping' = stopping \ {a}
  /\ UNCHANGED <<busVars, run, addonVars, stopList, deadline>>

\* The timer's channel yields once: later addons can only be waited for.
StopGivesUp(a) ==
  /\ Alive
  /\ run = "wait"
  /\ a \in stopping
  /\ deadline = "fired"
  /\ deadline' = "used"
  /\ addonCancel' = [addonCancel EXCEPT ![a] = TRUE]
  /\ stopping' = stopping \ {a}
  /\ UNCHANGED <<busVars, run, toLaunch, launching, addons, proc, waiter, cleanup,
                 stdinClosed, writing, exited, stopList>>

StopReturns ==
  /\ Alive
  /\ run = "wait"
  /\ stopping = {}
  /\ run' = "close"
  /\ UNCHANGED <<busVars, addonVars, stopVars>>

\* The deferred Supervisor.Close closes the bus.
CloseBus ==
  /\ Alive
  /\ run = "close"
  /\ CloseStep
  /\ UNCHANGED <<run, addonVars, stopVars>>

RunReturns ==
  /\ Alive
  /\ run = "close"
  /\ closed /\ toClose = {} /\ closeAt = NoEntry
  /\ run' = "exited"
  /\ UNCHANGED <<busVars, addonVars, stopVars>>

ShutdownStep ==
  \/ StopBegin \/ StopStartsTimer \/ StopReturns \/ CloseBus \/ RunReturns
  \/ \E a \in Handlers : StopClosesStdin(a) \/ StopSeesExit(a) \/ StopGivesUp(a)

-----------------------------------------------------------------------------

\* The scanners run from the moment Start has returned.
Scan(p) ==
  /\ Alive
  /\ run # "launching"
  /\ PublisherStep(p)
  /\ UNCHANGED <<run, addonVars, stopVars>>

Drain(a) ==
  /\ Alive
  /\ Receive(a) \/ RunnerExits(a)
  /\ UNCHANGED <<run, addonVars, stopVars>>

HandlerStep(a) == HandleIgnored(a) \/ HandleLock(a) \/ WriteFails(a) \/ Drain(a)

Next ==
  \/ \E p \in Publishers : Scan(p)
  \/ \E a \in Handlers : \/ ProcessExits(a) \/ ProcessKilled(a)
                         \/ HandlerStep(a) \/ WriteSucceeds(a) \/ WaiterStep(a)
  \/ LaunchStep \/ Signal \/ ServerExits \/ ShutdownStep \/ DeadlineFires

Spec == Init /\ [][Next]_vars

\* Goroutines keep running, a killed process dies, the timer fires.  Nothing
\* makes an addon read its stdin or exit by itself.
Fairness ==
  /\ WF_vars(LaunchStep) /\ WF_vars(ShutdownStep) /\ WF_vars(DeadlineFires)
  /\ \A p \in Publishers : WF_vars(Scan(p))
  /\ \A a \in Handlers : /\ WF_vars(ProcessKilled(a))
                         /\ WF_vars(HandlerStep(a))
                         /\ WF_vars(WaiterStep(a))

LiveSpec == Spec /\ Fairness

-----------------------------------------------------------------------------
(* Properties.                                                              *)

\* When the game server ends the supervisor ends too, even with an addon
\* that neither reads its stdin nor exits: no chain of stdinMu, exited,
\* entry.done and the one-shot timer blocks for good.
ShutdownCompletes == run = "stop" ~> (run = "exited" \/ panicked)

\* Nothing is written to an addon after Stop, or the goroutine that reaped
\* it, closed its feed.
NoWriteToClosedFeed == \A a \in Handlers : writing[a] => ~stdinClosed[a]

\* Once Stop has been through its first loop no addon that was ever started
\* is fed again, although Stop works on a snapshot of the list: one that it
\* missed was taken off the list, or never got on it, with its feed closed
\* (addonrunner.go:410).
SilentAfterStop ==
  run \in {"wait", "close", "exited"} =>
    \A a \in Handlers : proc[a] # "none" => stdinClosed[a] /\ ~writing[a]

\* The runner keeps the promise of AddonFeed to every addon: whichever of
\* HandleEvent, waitForExit and Stop closes a feed, it does so once, for good
\* and not under a write, and no addon is launched after Stop
\* (addonrunner.go:343, 377, 417).
Feed == INSTANCE AddonFeed WITH
  Addons <- Handlers,
  feed   <- [a \in Handlers |-> IF proc[a] = "none" THEN "none"
                                ELSE IF stdinClosed[a] THEN "closed" ELSE "open"],
  busy   <- writing,
  over   <- run \in {"wait", "close", "exited"}

FeedPromise == Feed!Spec

=============================================================================
