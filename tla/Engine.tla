------------------------------- MODULE Engine -------------------------------
(***************************************************************************)
(* The decision engine: Engine.CheckIP, the flightGroup that joins checks  *)
(* of one address, and the TTL cache behind them, with the background      *)
(* flush loop, a crash at any point, an orderly Close and the reload at    *)
(* the next start.                                                         *)
(*                                                                         *)
(* One goroutine per Thread runs CheckIP; each step below is what happens  *)
(* between two points where the Go code takes a lock, waits or sleeps.     *)
(* Cache.mu is held for a whole save (flushDirty), so no cache operation   *)
(* runs while saving # "no".                                               *)
(*                                                                         *)
(* Time advances in ticks of which a TTL holds a few (the default TTL is   *)
(* 6h).  Tick assumes only that the owner of a flight does not spend a     *)
(* tick between two consecutive in-memory steps (Unhurried).               *)
(***************************************************************************)
EXTENDS Integers, FiniteSets

CONSTANTS
  Threads,     \* goroutines that may be inside CheckIP at once
  IPs,         \* addresses of joining players
  Exempt,      \* private or allowlisted addresses
  Verdicts,    \* what EvaluateDecision can conclude; a failed lookup is one
  TTL,         \* Config.CacheTTL, in ticks
  MaxTime      \* bound on the clock

ASSUME EngineAssumption ==
  /\ IPs # {} /\ Exempt \subseteq IPs
  /\ "nobody" \notin Threads /\ "no address" \notin IPs
  /\ TTL \in Nat \ {0}
  /\ MaxTime \in Nat
  /\ "none" \notin Verdicts

VARIABLES
  now,         \* wall clock
  entries,     \* Cache.entries
  dirty,       \* Cache.dirty
  saving,      \* progress of saveLocked, which holds Cache.mu
  disk,        \* the file at Cache.path, as a map
  status,      \* of the supervisor process
  pc,          \* where each goroutine stands in CheckIP
  ip,          \* the address it checks
  since,       \* the `now` its current Cache.Get compares with
  asked,       \* when it entered CheckIP
  got,         \* the decision it holds
  calls,       \* flightGroup.calls: the goroutine leading, per address
  loaded,      \* history: the file was read when the process last started
  forgotten    \* history: addresses whose live decision a late delete removed

threadVars == <<pc, ip, since, asked, got, calls>>
cacheVars  == <<entries, dirty, forgotten>>
fileVars   == <<saving, disk, loaded>>
vars == <<now, status, threadVars, cacheVars, fileVars>>

Time       == 0 .. (MaxTime + TTL)
Decisions  == [verdict : Verdicts, expires : Time]
NoDecision == [verdict |-> "none", expires |-> 0]
NoThread   == "nobody"
NoEntries  == [a \in IPs |-> NoDecision]

Idle    == {"idle", "done"}
\* The owner of a flight between two in-memory steps.
Unhurried == {"recheck", "reevict", "store", "signal", "forget"}
\* The owner of a flight: from its entry in calls to the deletion of it.
Leading == Unhurried \union {"lookup"}
Steps   == Idle \union Leading \union {"get", "evict", "flight", "wait", "woken"}

TypeOK ==
  /\ now \in 0 .. MaxTime
  /\ entries \in [IPs -> Decisions \union {NoDecision}]
  /\ dirty \in BOOLEAN
  /\ saving \in {"no", "writing", "renaming"}
  /\ disk \in [IPs -> Decisions \union {NoDecision}]
  /\ status \in {"up", "cancelled", "closing", "closed", "down"}
  /\ pc \in [Threads -> Steps]
  /\ ip \in [Threads -> IPs]
  /\ since \in [Threads -> 0 .. MaxTime]
  /\ asked \in [Threads -> 0 .. MaxTime]
  /\ got \in [Threads -> Decisions \union {NoDecision}]
  /\ calls \in [IPs -> Threads \union {NoThread}]
  /\ loaded \in BOOLEAN
  /\ forgotten \subseteq IPs

Expired(d, t) == t > d.expires
Live(d) == d # NoDecision /\ now < d.expires

Init ==
  /\ now = 0
  /\ entries = NoEntries
  /\ dirty = FALSE
  /\ saving = "no"
  /\ disk = NoEntries
  /\ status = "up"
  /\ pc = [t \in Threads |-> "idle"]
  /\ ip = [t \in Threads |-> CHOOSE a \in IPs : TRUE]
  /\ since = [t \in Threads |-> 0]
  /\ asked = [t \in Threads |-> 0]
  /\ got = [t \in Threads |-> NoDecision]
  /\ calls = [a \in IPs |-> NoThread]
  /\ loaded = TRUE
  /\ forgotten = {}

-----------------------------------------------------------------------------
(* CheckIP and Cache.Get.  `since` is the time.Now that Get captures before *)
(* it takes the read lock.                                                  *)

Goto(t, from, to) ==
  /\ status # "down"
  /\ pc[t] = from
  /\ pc' = [pc EXCEPT ![t] = to]

CheckIP(t, a) ==
  /\ status # "down"
  /\ pc[t] \in Idle
  /\ ip' = [ip EXCEPT ![t] = a]
  /\ asked' = [asked EXCEPT ![t] = now]
  /\ since' = [since EXCEPT ![t] = now]
  /\ got' = [got EXCEPT ![t] = NoDecision]
  /\ pc' = [pc EXCEPT ![t] = IF a \in Exempt THEN "done" ELSE "get"]
  /\ UNCHANGED <<now, status, calls, cacheVars, fileVars>>

\* The read under RLock: a live entry answers, an expired one must be
\* evicted in a second critical section, none is a miss.
GetRead(t, from, onHit, onExpired, onMiss) ==
  LET d == entries[ip[t]] IN
  /\ saving = "no"
  /\ \/ /\ d # NoDecision /\ ~Expired(d, since[t])
        /\ Goto(t, from, onHit)
        /\ got' = [got EXCEPT ![t] = d]
     \/ /\ d # NoDecision /\ Expired(d, since[t])
        /\ Goto(t, from, onExpired)
        /\ UNCHANGED got
     \/ /\ d = NoDecision
        /\ Goto(t, from, onMiss)
        /\ UNCHANGED got
  /\ UNCHANGED <<now, status, ip, since, asked, calls, cacheVars, fileVars>>

\* The write under Lock: it deletes whatever the map holds by now.
GetEvict(t, from, onMiss) ==
  /\ saving = "no"
  /\ Goto(t, from, onMiss)
  /\ entries' = [entries EXCEPT ![ip[t]] = NoDecision]
  /\ dirty' = TRUE
  /\ forgotten' = IF Live(entries[ip[t]]) THEN forgotten \union {ip[t]} ELSE forgotten
  /\ UNCHANGED <<now, status, ip, since, asked, got, calls, fileVars>>

Get(t) ==
  \/ GetRead(t, "get", "done", "evict", "flight")
  \/ GetEvict(t, "evict", "flight")

-----------------------------------------------------------------------------
(* flightGroup.Do.                                                          *)

\* Faulty: the caller sleeps although the call is already released.
JoinAlwaysWaits(t) ==
  /\ calls[ip[t]] # NoThread
  /\ Goto(t, "flight", "wait")
  /\ UNCHANGED <<now, status, ip, since, asked, got, calls, cacheVars, fileVars>>

\* A check of an address somebody already leads waits for that call.  A call
\* whose WaitGroup is released but which is not deleted yet answers at once.
Join(t) ==
  LET leader == calls[ip[t]] IN
  /\ leader # NoThread
  /\ IF pc[leader] = "forget"
     THEN /\ Goto(t, "flight", "woken")
          /\ got' = [got EXCEPT ![t] = got[leader]]
     ELSE /\ Goto(t, "flight", "wait")
          /\ UNCHANGED got
  /\ UNCHANGED <<now, status, ip, since, asked, calls, cacheVars, fileVars>>

\* Faulty: no second Get inside the flight.
LeadWithoutRecheck(t) ==
  /\ calls[ip[t]] = NoThread
  /\ Goto(t, "flight", "lookup")
  /\ calls' = [calls EXCEPT ![ip[t]] = t]
  /\ UNCHANGED <<now, status, ip, since, asked, got, cacheVars, fileVars>>

\* Faulty: the second Get reuses the time of the first.
LeadWithStaleClock(t) ==
  /\ calls[ip[t]] = NoThread
  /\ Goto(t, "flight", "recheck")
  /\ calls' = [calls EXCEPT ![ip[t]] = t]
  /\ UNCHANGED <<now, status, ip, since, asked, got, cacheVars, fileVars>>

Lead(t) ==
  /\ calls[ip[t]] = NoThread
  /\ Goto(t, "flight", "recheck")
  /\ calls' = [calls EXCEPT ![ip[t]] = t]
  /\ since' = [since EXCEPT ![t] = now]
  /\ UNCHANGED <<now, status, ip, asked, got, cacheVars, fileVars>>

\* The second Cache.Get, inside the flight.
Recheck(t) ==
  \/ GetRead(t, "recheck", "signal", "reevict", "lookup")
  \/ GetEvict(t, "reevict", "lookup")

\* queryProviders returns (every provider answered, failed or timed out) and
\* EvaluateDecision stamps CheckedAt and ExpiresAt.
LookupReturns(t, v) ==
  /\ Goto(t, "lookup", "store")
  /\ got' = [got EXCEPT ![t] = [verdict |-> v, expires |-> now + TTL]]
  /\ UNCHANGED <<now, status, ip, since, asked, calls, cacheVars, fileVars>>

\* Faulty: Set does not mark the cache dirty.
StoreQuietly(t) ==
  /\ saving = "no"
  /\ Goto(t, "store", "signal")
  /\ entries' = [entries EXCEPT ![ip[t]] = got[t]]
  /\ forgotten' = forgotten \ {ip[t]}
  /\ UNCHANGED <<now, status, ip, since, asked, got, calls, dirty, fileVars>>

\* Cache.Set, for every verdict, the one of a failed lookup included.
Store(t) ==
  /\ saving = "no"
  /\ Goto(t, "store", "signal")
  /\ entries' = [entries EXCEPT ![ip[t]] = got[t]]
  /\ forgotten' = forgotten \ {ip[t]}
  /\ dirty' = TRUE
  /\ UNCHANGED <<now, status, ip, since, asked, got, calls, fileVars>>

\* Faulty: the call is released without waking who waits on it.
SignalNobody(t) ==
  /\ Goto(t, "signal", "forget")
  /\ UNCHANGED <<now, status, ip, since, asked, got, calls, cacheVars, fileVars>>

\* call.wg.Done: everyone waiting on this call gets its decision.
Signal(t) ==
  LET woken == {u \in Threads : pc[u] = "wait" /\ ip[u] = ip[t]} IN
  /\ status # "down"
  /\ pc[t] = "signal"
  /\ pc' = [u \in Threads |-> IF u = t THEN "forget"
                              ELSE IF u \in woken THEN "woken" ELSE pc[u]]
  /\ got' = [u \in Threads |-> IF u \in woken THEN got[t] ELSE got[u]]
  /\ UNCHANGED <<now, status, ip, since, asked, calls, cacheVars, fileVars>>

\* delete(g.calls, key), after which the leader returns.
Forget(t) ==
  /\ Goto(t, "forget", "done")
  /\ calls' = [calls EXCEPT ![ip[t]] = NoThread]
  /\ UNCHANGED <<now, status, ip, since, asked, got, cacheVars, fileVars>>

\* A released waiter returns.
Return(t) ==
  /\ Goto(t, "woken", "done")
  /\ UNCHANGED <<now, status, ip, since, asked, got, calls, cacheVars, fileVars>>

CheckStep(t) ==
  \/ Get(t) \/ Join(t) \/ Lead(t) \/ Recheck(t)
  \/ \E v \in Verdicts : LookupReturns(t, v)
  \/ Store(t) \/ Signal(t) \/ Forget(t) \/ Return(t)

-----------------------------------------------------------------------------
(* flushLoop, flushDirty and saveLocked.                                    *)

\* Faulty: the file itself is truncated and rewritten.
SaveBeginInPlace ==
  /\ status \in {"up", "cancelled", "closing"}
  /\ saving = "no"
  /\ dirty
  /\ saving' = "writing"
  /\ disk' = NoEntries
  /\ UNCHANGED <<now, status, threadVars, cacheVars, loaded>>

SaveBegin ==
  /\ status \in {"up", "cancelled", "closing"}
  /\ saving = "no"
  /\ dirty
  /\ saving' = "writing"
  /\ UNCHANGED <<now, status, threadVars, cacheVars, disk, loaded>>

\* os.WriteFile to path.tmp: the file at path is untouched.
SaveWriteTmp ==
  /\ status # "down"
  /\ saving = "writing"
  /\ saving' = "renaming"
  /\ UNCHANGED <<now, status, threadVars, cacheVars, disk, loaded>>

AfterSave == IF status = "closing" THEN "closed" ELSE status

SaveRename ==
  /\ status # "down"
  /\ saving = "renaming"
  /\ saving' = "no"
  /\ disk' = entries
  /\ dirty' = FALSE
  /\ status' = AfterSave
  /\ UNCHANGED <<now, threadVars, entries, loaded, forgotten>>

\* The write or the rename fails: dirty stays set for the next flush.
SaveFail ==
  /\ status # "down"
  /\ saving \in {"writing", "renaming"}
  /\ saving' = "no"
  /\ status' = AfterSave
  /\ UNCHANGED <<now, threadVars, cacheVars, disk, loaded>>

-----------------------------------------------------------------------------
(* The life of the process.  Supervisor.Run cancels the context and then    *)
(* closes the engine; it does not wait for checks that are still running.   *)

Cancel ==
  /\ status = "up"
  /\ status' = "cancelled"
  /\ UNCHANGED <<now, threadVars, cacheVars, fileVars>>

\* Cache.Close: stop the flush loop, wait for it, flush once more.
CloseBegin ==
  /\ status = "cancelled"
  /\ saving = "no"
  /\ status' = IF dirty THEN "closing" ELSE "closed"
  /\ UNCHANGED <<now, threadVars, cacheVars, fileVars>>

\* The process is killed at any point, or exits after Close.
Crash ==
  /\ status # "down"
  /\ status' = "down"
  /\ saving' = "no"
  /\ dirty' = FALSE
  /\ entries' = NoEntries /\ forgotten' = {}
  /\ pc' = [t \in Threads |-> "idle"]
  /\ calls' = [a \in IPs |-> NoThread]
  /\ got' = [t \in Threads |-> NoDecision]
  /\ UNCHANGED <<now, disk, loaded, ip, since, asked>>

\* Cache.load keeps what has not expired.  A file that cannot be read or
\* parsed is a warning: the cache starts empty, and its first flush replaces
\* the file.
Restart ==
  /\ status = "down"
  /\ status' = "up"
  /\ \/ /\ loaded' = TRUE
        /\ entries' = [a \in IPs |-> IF Live(disk[a]) THEN disk[a] ELSE NoDecision]
     \/ /\ loaded' = FALSE
        /\ entries' = NoEntries
  /\ UNCHANGED <<now, dirty, saving, disk, forgotten, threadVars>>

Tick ==
  /\ now < MaxTime
  /\ \A t \in Threads : pc[t] \notin Unhurried
  /\ now' = now + 1
  /\ UNCHANGED <<status, threadVars, cacheVars, fileVars>>

Next ==
  \/ \E t \in Threads : CheckStep(t) \/ (\E a \in IPs : CheckIP(t, a))
  \/ SaveBegin \/ SaveWriteTmp \/ SaveRename \/ SaveFail
  \/ Cancel \/ CloseBegin \/ Crash \/ Restart \/ Tick

Spec == Init /\ [][Next]_vars

\* A goroutine inside CheckIP keeps running: provider requests end at their
\* timeout, a save ends, and sync.RWMutex lets a blocked goroutine through
\* however often the flush loop locks it again.
Fairness ==
  /\ \A t \in Threads : SF_vars(CheckStep(t))
  /\ WF_vars(SaveWriteTmp \/ SaveRename \/ SaveFail)

LiveSpec == Spec /\ Fairness

-----------------------------------------------------------------------------
(* Properties.                                                              *)

\* While a check queries the providers for an address nobody else does, and
\* the cache holds no decision for it: joining, the second Get inside the
\* flight and the late deletion of the call leave no gap in which the same
\* address is looked up twice at once or although a decision was cached.
NeededLookup ==
  \A t \in Threads : pc[t] \in {"lookup", "store"} =>
    /\ entries[ip[t]] = NoDecision
    /\ \A u \in Threads : pc[u] \in {"lookup", "store"} /\ ip[u] = ip[t] => u = t

\* Whoever waits on a flight waits on one that is still led by a goroutine
\* which has yet to release its waiters.
NoLostWaiter ==
  \A t \in Threads : pc[t] = "wait" =>
    \E u \in Threads : /\ calls[ip[t]] = u
                       /\ ip[u] = ip[t]
                       /\ pc[u] \in Leading \ {"forget"}

\* A cache that is not dirty is on disk: a decision is never left unsaved
\* because of where Get, Set and the flush loop interleave with a save, a
\* failed save or a restart.
CleanMeansSaved ==
  status # "down" /\ ~dirty =>
    \A a \in IPs : entries[a] # NoDecision => disk[a] = entries[a]

\* A decision that has not expired leaves the file only for a younger one of
\* its address: no save that fails, no crash in the middle of one and no
\* restart loses it, except after a start that could not read the file, or
\* when Get deleted it from the cache in place of the expired one it had seen.
SavedStaysSaved ==
  [][\A a \in IPs :
       Live(disk[a]) /\ disk'[a] # disk[a]
         => /\ status # "down"
            /\ disk'[a].expires >= disk[a].expires \/ ~loaded \/ a \in forgotten]_vars

\* A check never returns a decision that had expired when the check began,
\* whether it came from the cache, from a flight it joined or from the file
\* of an earlier run.
FreshAnswers ==
  \A t \in Threads : pc[t] = "done" /\ got[t] # NoDecision =>
    got[t].expires >= asked[t]

\* An address that is private or allowlisted is never looked up or stored.
ExemptNeverQueried ==
  \A a \in Exempt :
    /\ entries[a] = NoDecision /\ disk[a] = NoDecision
    /\ calls[a] = NoThread

\* CheckIP implements the single lookup its callers rely on: asking is who
\* is inside CheckIP, looking is who queries the providers.
Promise == INSTANCE SingleLookup WITH
  NoIP    <- "no address",
  asking  <- [t \in Threads |-> IF pc[t] \in Idle THEN "no address" ELSE ip[t]],
  looking <- {t \in Threads : pc[t] = "lookup"}

\* Safety of the promise: one lookup of an address at a time, by a check of
\* that address, which does not return meanwhile.
OneLookupPerAddress == Promise!SafeSpec

\* The whole promise: every check also returns, unless the process dies.
LookupPromise == Promise!Spec

=============================================================================
