----------------------------- MODULE EngineProofs -----------------------------
(***************************************************************************)
(* Proofs about Engine, for any number of goroutines, addresses, verdicts, *)
(* any TTL and any bound on the clock.  The inductive invariant IInv adds  *)
(* to the properties what they rest on: which goroutine owns a flight      *)
(* (Leaders), whom a waiter waits for (Waiters), that nothing runs while   *)
(* the process is down (DownIsIdle), that exempt addresses never get past  *)
(* the first test (ExemptStayOut), what a goroutine knows about the clock  *)
(* at each step (Clocks), and that no decision outlives the youngest one   *)
(* made (NoneOutlives), so that the cache never falls behind its file      *)
(* (CacheKeepsUp).                                                         *)
(***************************************************************************)
EXTENDS Engine, TLAPS

\* flightGroup.calls and the goroutines that lead agree.
Leaders ==
  /\ \A t \in Threads : pc[t] \in Leading => calls[ip[t]] = t
  /\ \A a \in IPs : calls[a] # NoThread => pc[calls[a]] \in Leading /\ ip[calls[a]] = a

\* Who waits, waits for a leader that has yet to release its waiters.
Waiters ==
  \A t \in Threads : pc[t] = "wait" =>
    /\ calls[ip[t]] # NoThread
    /\ pc[calls[ip[t]]] # "forget"

\* Only an address without a cached decision is looked up.
MissingWhileLookedUp ==
  \A t \in Threads : pc[t] \in {"lookup", "store"} => entries[ip[t]] = NoDecision

DownIsIdle == status = "down" => \A t \in Threads : pc[t] = "idle"

ExemptStayOut == \A t \in Threads : pc[t] \notin Idle => ip[t] \notin Exempt

\* The owner of a flight between in-memory steps sees one time only, so what
\* it found or made is fresh when it hands it out.
Clocks ==
  \A t \in Threads :
    /\ asked[t] <= now
    /\ pc[t] = "get" => since[t] >= asked[t]
    /\ pc[t] = "recheck" => since[t] = now
    /\ pc[t] \in {"store", "signal", "forget"} => got[t].expires >= now
    /\ pc[t] = "woken" => got[t].expires >= asked[t]

\* A decision that is stored lasts as long as any there is.
NoneOutlives ==
  /\ \A a \in IPs : entries[a].expires <= now + TTL /\ disk[a].expires <= now + TTL
  /\ \A t \in Threads : pc[t] = "store" => got[t].expires = now + TTL

\* What the file holds and has not expired is in the cache too, or something
\* younger is, unless it could not be read or was deleted late.
CacheKeepsUp ==
  status # "down" /\ loaded =>
    \A a \in IPs \ forgotten : Live(disk[a]) => entries[a].expires >= disk[a].expires

IInv ==
  /\ TypeOK
  /\ Leaders /\ Waiters /\ MissingWhileLookedUp /\ DownIsIdle
  /\ CleanMeansSaved
  /\ ExemptStayOut /\ ExemptNeverQueried
  /\ Clocks /\ FreshAnswers
  /\ NoneOutlives /\ CacheKeepsUp

-----------------------------------------------------------------------------
(* Types.                                                                   *)

\* Times are integers.
LEMMA TimeFacts == TTL \in Nat /\ MaxTime \in Nat /\ Time \subseteq Int
<1>1. TTL \in Nat /\ MaxTime \in Nat
  BY EngineAssumption
<1> QED
  BY <1>1 DEF Time

\* A decision that was made is not the absence of one, and has an expiry.
LEMMA DecisionFacts ==
  /\ NoDecision \notin Decisions
  /\ \A d \in Decisions \union {NoDecision} : d.expires \in Int
<1>1. NoDecision \notin Decisions
  BY EngineAssumption DEF NoDecision, Decisions
<1>2. NoDecision.expires \in Int
  BY DEF NoDecision
<1>3. ASSUME NEW d \in Decisions
      PROVE  d.expires \in Int
  BY TimeFacts DEF Decisions
<1> QED
  BY <1>1, <1>2, <1>3

\* Every step keeps the types: in particular a decision that is stored, saved
\* or handed to a waiter expires within a TTL of some moment of the run.
LEMMA TypingStep == TypeOK /\ [Next]_vars => TypeOK'
<1> SUFFICES ASSUME TypeOK, [Next]_vars
             PROVE  TypeOK'
  OBVIOUS
<1> USE DEF TypeOK, Steps, Leading, Unhurried, Idle, Goto
<1>1. ASSUME NEW t \in Threads, NEW a \in IPs, CheckIP(t, a)
      PROVE  TypeOK'
  BY <1>1 DEF CheckIP, cacheVars, fileVars
<1>2. ASSUME NEW t \in Threads, Get(t)
      PROVE  TypeOK'
  <2>1. CASE GetRead(t, "get", "done", "evict", "flight")
    BY <2>1 DEF GetRead, cacheVars, fileVars
  <2>2. CASE GetEvict(t, "evict", "flight")
    BY <2>2 DEF GetEvict, fileVars
  <2> QED
    BY <1>2, <2>1, <2>2 DEF Get
<1>3. ASSUME NEW t \in Threads, Join(t)
      PROVE  TypeOK'
  BY <1>3 DEF Join, cacheVars, fileVars
<1>4. ASSUME NEW t \in Threads, Lead(t)
      PROVE  TypeOK'
  BY <1>4 DEF Lead, cacheVars, fileVars
<1>5. ASSUME NEW t \in Threads, Recheck(t)
      PROVE  TypeOK'
  <2>1. CASE GetRead(t, "recheck", "signal", "reevict", "lookup")
    BY <2>1 DEF GetRead, cacheVars, fileVars
  <2>2. CASE GetEvict(t, "reevict", "lookup")
    BY <2>2 DEF GetEvict, fileVars
  <2> QED
    BY <1>5, <2>1, <2>2 DEF Recheck
<1>6. ASSUME NEW t \in Threads, NEW v \in Verdicts, LookupReturns(t, v)
      PROVE  TypeOK'
  <2>1. [verdict |-> v, expires |-> now + TTL] \in Decisions
    BY TimeFacts DEF Decisions, Time
  <2> QED
    BY <1>6, <2>1 DEF LookupReturns, cacheVars, fileVars
<1>7. ASSUME NEW t \in Threads, Store(t)
      PROVE  TypeOK'
  BY <1>7 DEF Store, fileVars
<1>8. ASSUME NEW t \in Threads, Signal(t)
      PROVE  TypeOK'
  BY <1>8 DEF Signal, cacheVars, fileVars
<1>9. ASSUME NEW t \in Threads, Forget(t) \/ Return(t)
      PROVE  TypeOK'
  BY <1>9 DEF Forget, Return, cacheVars, fileVars
<1>10. CASE SaveBegin \/ SaveWriteTmp \/ SaveRename \/ SaveFail
  BY <1>10 DEF SaveBegin, SaveWriteTmp, SaveRename, SaveFail, AfterSave, threadVars,
               cacheVars
<1>11. CASE Cancel \/ CloseBegin \/ Tick
  BY <1>11, TimeFacts DEF Cancel, CloseBegin, Tick, threadVars, cacheVars, fileVars
<1>12. CASE Crash
  BY <1>12 DEF Crash, NoEntries
<1>13. CASE Restart
  BY <1>13 DEF Restart, NoEntries, threadVars
<1>14. CASE UNCHANGED vars
  BY <1>14 DEF vars, threadVars, cacheVars, fileVars
<1> QED
  BY <1>1, <1>2, <1>3, <1>4, <1>5, <1>6, <1>7, <1>8, <1>9, <1>10, <1>11, <1>12, <1>13,
     <1>14 DEF Next, CheckStep

LEMMA InitTyping == Init => TypeOK
<1> SUFFICES ASSUME Init PROVE TypeOK
  OBVIOUS
<1>1. (CHOOSE a \in IPs : TRUE) \in IPs
  BY EngineAssumption
<1>2. 0 \in 0 .. MaxTime
  BY TimeFacts
<1>3. /\ now \in 0 .. MaxTime
      /\ since \in [Threads -> 0 .. MaxTime]
      /\ asked \in [Threads -> 0 .. MaxTime]
  BY <1>2 DEF Init
<1>4. /\ entries \in [IPs -> Decisions \union {NoDecision}]
      /\ disk \in [IPs -> Decisions \union {NoDecision}]
      /\ got \in [Threads -> Decisions \union {NoDecision}]
  BY DEF Init, NoEntries
<1>5. /\ pc \in [Threads -> Steps]
      /\ ip \in [Threads -> IPs]
      /\ calls \in [IPs -> Threads \union {NoThread}]
  BY <1>1 DEF Init, Steps, Idle
<1> QED
  BY <1>3, <1>4, <1>5 DEF Init, TypeOK

\* The type invariant of the engine holds in every behaviour.
THEOREM Typing == Spec => []TypeOK
BY InitTyping, TypingStep, PTL DEF Spec

-----------------------------------------------------------------------------
(* The flights.                                                             *)

\* Every step keeps the flight map and the goroutines in agreement.
LEMMA LeadersStep ==
  ASSUME TypeOK, TypeOK', Leaders, [Next]_vars
  PROVE  Leaders'
<1> USE DEF TypeOK, Leaders, Leading, Unhurried
<1> NoThread \notin Threads
  BY EngineAssumption DEF NoThread
<1>1. ASSUME NEW t \in Threads, NEW a \in IPs, CheckIP(t, a)
      PROVE  Leaders'
  BY <1>1 DEF CheckIP, Idle
<1>2. ASSUME NEW t \in Threads, Get(t) \/ Join(t) \/ Return(t)
      PROVE  Leaders'
  <2>1. CASE GetRead(t, "get", "done", "evict", "flight")
    BY <2>1 DEF GetRead, Goto
  <2>2. CASE GetEvict(t, "evict", "flight") \/ Return(t)
    BY <2>2 DEF GetEvict, Return, Goto
  <2>3. CASE Join(t)
    BY <2>3 DEF Join, Goto
  <2> QED
    BY <1>2, <2>1, <2>2, <2>3 DEF Get
<1>3. ASSUME NEW t \in Threads, Lead(t)
      PROVE  Leaders'
  BY <1>3 DEF Lead, Goto
<1>4. ASSUME NEW t \in Threads,
             Recheck(t) \/ (\E v \in Verdicts : LookupReturns(t, v)) \/ Store(t)
      PROVE  Leaders'
  <2>1. CASE GetRead(t, "recheck", "signal", "reevict", "lookup")
    BY <2>1 DEF GetRead, Goto
  <2>2. CASE GetEvict(t, "reevict", "lookup")
    BY <2>2 DEF GetEvict, Goto
  <2>3. CASE (\E v \in Verdicts : LookupReturns(t, v)) \/ Store(t)
    BY <2>3 DEF LookupReturns, Store, Goto
  <2> QED
    BY <1>4, <2>1, <2>2, <2>3 DEF Recheck
<1>5. ASSUME NEW t \in Threads, Signal(t)
      PROVE  Leaders'
  BY <1>5 DEF Signal
<1>6. ASSUME NEW t \in Threads, Forget(t)
      PROVE  Leaders'
  BY <1>6 DEF Forget, Goto
<1>7. CASE UNCHANGED threadVars
  BY <1>7 DEF threadVars
<1>8. CASE Crash
  BY <1>8 DEF Crash
<1> QED
  BY <1>1, <1>2, <1>3, <1>4, <1>5, <1>6, <1>7, <1>8
  DEF Next, CheckStep, SaveBegin, SaveWriteTmp, SaveRename, SaveFail, Cancel,
      CloseBegin, Restart, Tick, vars

\* A waiter is released by the same step that stops its leader from having to.
LEMMA WaitersStep ==
  ASSUME TypeOK, TypeOK', Leaders, Leaders', Waiters, [Next]_vars
  PROVE  Waiters'
<1> USE DEF TypeOK, Leaders, Waiters, Leading, Unhurried
<1> NoThread \notin Threads
  BY EngineAssumption DEF NoThread
<1>1. ASSUME NEW t \in Threads, NEW a \in IPs, CheckIP(t, a)
      PROVE  Waiters'
  BY <1>1 DEF CheckIP, Idle
<1>2. ASSUME NEW t \in Threads, Get(t) \/ Recheck(t)
      PROVE  Waiters'
  <2>1. CASE \/ GetRead(t, "get", "done", "evict", "flight")
             \/ GetRead(t, "recheck", "signal", "reevict", "lookup")
    BY <2>1 DEF GetRead, Goto
  <2>2. CASE GetEvict(t, "evict", "flight") \/ GetEvict(t, "reevict", "lookup")
    BY <2>2 DEF GetEvict, Goto
  <2> QED
    BY <1>2, <2>1, <2>2 DEF Get, Recheck
<1>3. ASSUME NEW t \in Threads, Join(t)
      PROVE  Waiters'
  BY <1>3 DEF Join, Goto
<1>4. ASSUME NEW t \in Threads, Lead(t)
      PROVE  Waiters'
  BY <1>4 DEF Lead, Goto
<1>5. ASSUME NEW t \in Threads,
             (\E v \in Verdicts : LookupReturns(t, v)) \/ Store(t) \/ Return(t)
      PROVE  Waiters'
  BY <1>5 DEF LookupReturns, Store, Return, Goto
<1>6. ASSUME NEW t \in Threads, Signal(t)
      PROVE  Waiters'
  BY <1>6 DEF Signal
<1>7. ASSUME NEW t \in Threads, Forget(t)
      PROVE  Waiters'
  BY <1>7 DEF Forget, Goto
<1>8. CASE UNCHANGED threadVars
  BY <1>8 DEF threadVars
<1>9. CASE Crash
  BY <1>9 DEF Crash
<1> QED
  BY <1>1, <1>2, <1>3, <1>4, <1>5, <1>6, <1>7, <1>8, <1>9
  DEF Next, CheckStep, SaveBegin, SaveWriteTmp, SaveRename, SaveFail, Cancel,
      CloseBegin, Restart, Tick, vars

\* Nothing runs in a process that is down.
LEMMA DownStep ==
  ASSUME TypeOK, DownIsIdle, [Next]_vars
  PROVE  DownIsIdle'
<1>1. ASSUME NEW t \in Threads, CheckStep(t) \/ (\E a \in IPs : CheckIP(t, a))
      PROVE  DownIsIdle'
  <2>1. status' = status /\ status # "down"
    BY <1>1 DEF CheckStep, CheckIP, Get, GetRead, GetEvict, Join, Lead, Recheck, LookupReturns,
       Store, Signal, Forget, Return, Goto
  <2> QED
    BY <2>1 DEF DownIsIdle
<1>2. CASE SaveBegin \/ SaveWriteTmp \/ SaveRename \/ SaveFail \/ Cancel \/ CloseBegin \/ Restart
  <2>1. status' # "down"
    BY <1>2 DEF SaveBegin, SaveWriteTmp, SaveRename, SaveFail, AfterSave, Cancel, CloseBegin, Restart
  <2> QED
    BY <2>1 DEF DownIsIdle
<1>3. CASE Crash
  BY <1>3 DEF Crash, DownIsIdle
<1>4. CASE Tick \/ UNCHANGED vars
  BY <1>4 DEF Tick, DownIsIdle, vars, threadVars
<1> QED
  BY <1>1, <1>2, <1>3, <1>4 DEF Next

-----------------------------------------------------------------------------
(* The cache.                                                               *)

\* While an address is looked up nobody else stores a decision for it.
LEMMA MissingStep ==
  ASSUME TypeOK, TypeOK', Leaders, DownIsIdle, MissingWhileLookedUp, [Next]_vars
  PROVE  MissingWhileLookedUp'
<1> USE DEF TypeOK, MissingWhileLookedUp
<1>1. ASSUME NEW t \in Threads, NEW a \in IPs, CheckIP(t, a)
      PROVE  MissingWhileLookedUp'
  BY <1>1 DEF CheckIP, cacheVars
<1>2. ASSUME NEW t \in Threads, Get(t) \/ Recheck(t)
      PROVE  MissingWhileLookedUp'
  <2>1. CASE \/ GetRead(t, "get", "done", "evict", "flight")
             \/ GetRead(t, "recheck", "signal", "reevict", "lookup")
    BY <2>1 DEF GetRead, Goto, cacheVars
  <2>2. CASE GetEvict(t, "evict", "flight") \/ GetEvict(t, "reevict", "lookup")
    BY <2>2 DEF GetEvict, Goto
  <2> QED
    BY <1>2, <2>1, <2>2 DEF Get, Recheck
<1>3. ASSUME NEW t \in Threads,
             Join(t) \/ Lead(t) \/ Forget(t) \/ Return(t)
             \/ (\E v \in Verdicts : LookupReturns(t, v))
      PROVE  MissingWhileLookedUp'
  BY <1>3 DEF Join, Lead, Forget, Return, LookupReturns, Goto, cacheVars
<1>4. ASSUME NEW t \in Threads, Store(t)
      PROVE  MissingWhileLookedUp'
  BY <1>4 DEF Store, Goto, Leaders, Leading, Unhurried
<1>5. ASSUME NEW t \in Threads, Signal(t)
      PROVE  MissingWhileLookedUp'
  BY <1>5 DEF Signal, cacheVars
<1>6. CASE UNCHANGED <<threadVars, entries>>
  BY <1>6 DEF threadVars
<1>7. CASE Crash
  BY <1>7 DEF Crash
<1>8. CASE Restart
  BY <1>8 DEF Restart, DownIsIdle, threadVars
<1> QED
  BY <1>1, <1>2, <1>3, <1>4, <1>5, <1>6, <1>7, <1>8
  DEF Next, CheckStep, SaveBegin, SaveWriteTmp, SaveRename, SaveFail, Cancel,
      CloseBegin, Tick, vars, cacheVars

\* Whatever changes the cache marks it dirty, or has just read or written the file.
LEMMA SavedStep ==
  ASSUME TypeOK, CleanMeansSaved, [Next]_vars
  PROVE  CleanMeansSaved'
<1> USE DEF TypeOK, CleanMeansSaved
<1>1. ASSUME NEW t \in Threads, CheckStep(t) \/ (\E a \in IPs : CheckIP(t, a))
      PROVE  CleanMeansSaved'
  BY <1>1 DEF CheckStep, CheckIP, Get, GetRead, GetEvict, Join, Lead, Recheck,
              LookupReturns, Store, Signal, Forget, Return, Goto, cacheVars, fileVars
<1>2. CASE SaveBegin \/ SaveWriteTmp \/ SaveRename \/ SaveFail
  BY <1>2 DEF SaveBegin, SaveWriteTmp, SaveRename, SaveFail, AfterSave, cacheVars
<1>3. CASE Cancel \/ CloseBegin \/ Tick \/ UNCHANGED vars
  BY <1>3 DEF Cancel, CloseBegin, Tick, vars, cacheVars, fileVars
<1>4. CASE Crash
  BY <1>4 DEF Crash
<1>5. CASE Restart
  BY <1>5 DEF Restart, NoEntries
<1> QED
  BY <1>1, <1>2, <1>3, <1>4, <1>5 DEF Next

\* An exempt address gets neither into a flight nor into the cache.
LEMMA ExemptStep ==
  ASSUME TypeOK, ExemptStayOut, ExemptNeverQueried, [Next]_vars
  PROVE  ExemptStayOut' /\ ExemptNeverQueried'
<1> USE DEF TypeOK, ExemptStayOut, ExemptNeverQueried, Idle
<1> Exempt \subseteq IPs
  BY EngineAssumption
<1>1. ASSUME NEW t \in Threads, NEW a \in IPs, CheckIP(t, a)
      PROVE  ExemptStayOut' /\ ExemptNeverQueried'
  BY <1>1 DEF CheckIP, cacheVars, fileVars
<1>2. ASSUME NEW t \in Threads, Get(t) \/ Recheck(t)
      PROVE  ExemptStayOut' /\ ExemptNeverQueried'
  BY <1>2 DEF Get, Recheck, GetRead, GetEvict, Goto, cacheVars, fileVars
<1>3. ASSUME NEW t \in Threads,
             Join(t) \/ Lead(t) \/ (\E v \in Verdicts : LookupReturns(t, v))
      PROVE  ExemptStayOut' /\ ExemptNeverQueried'
  BY <1>3 DEF Join, Lead, LookupReturns, Goto, cacheVars, fileVars
<1>4. ASSUME NEW t \in Threads, Store(t) \/ Forget(t) \/ Return(t)
      PROVE  ExemptStayOut' /\ ExemptNeverQueried'
  BY <1>4 DEF Store, Forget, Return, Goto, cacheVars, fileVars
<1>5. ASSUME NEW t \in Threads, Signal(t)
      PROVE  ExemptStayOut' /\ ExemptNeverQueried'
  BY <1>5 DEF Signal, cacheVars, fileVars
<1>6. CASE SaveBegin \/ SaveWriteTmp \/ SaveRename \/ SaveFail
  BY <1>6 DEF SaveBegin, SaveWriteTmp, SaveRename, SaveFail, threadVars, cacheVars
<1>7. CASE Cancel \/ CloseBegin \/ Tick \/ UNCHANGED vars
  BY <1>7 DEF Cancel, CloseBegin, Tick, vars, threadVars, cacheVars, fileVars
<1>8. CASE Crash
  BY <1>8 DEF Crash, NoEntries
<1>9. CASE Restart
  BY <1>9 DEF Restart, NoEntries, threadVars
<1> QED
  BY <1>1, <1>2, <1>3, <1>4, <1>5, <1>6, <1>7, <1>8, <1>9 DEF Next, CheckStep

-----------------------------------------------------------------------------
(* The clock.                                                               *)

\* The clock moves between steps of which none trusts an older time.
LEMMA TickStep ==
  ASSUME TypeOK, Clocks, FreshAnswers, Tick
  PROVE  Clocks' /\ FreshAnswers'
BY TimeFacts DEF TypeOK, Clocks, FreshAnswers, Tick, Unhurried, threadVars

\* What Get finds is not expired at the time it compares with, which is not
\* earlier than the check began.
LEMMA GetStep ==
  ASSUME TypeOK, Clocks, FreshAnswers, NEW t \in Threads, Get(t) \/ Recheck(t)
  PROVE  Clocks' /\ FreshAnswers'
<1> USE TimeFacts, DecisionFacts DEF TypeOK, Clocks, FreshAnswers, Expired
<1>1. CASE GetRead(t, "get", "done", "evict", "flight")
  BY <1>1 DEF GetRead, Goto
<1>2. CASE GetRead(t, "recheck", "signal", "reevict", "lookup")
  BY <1>2 DEF GetRead, Goto
<1>3. CASE GetEvict(t, "evict", "flight") \/ GetEvict(t, "reevict", "lookup")
  BY <1>3 DEF GetEvict, Goto
<1> QED
  BY <1>1, <1>2, <1>3 DEF Get, Recheck

\* Whoever shares a flight gets a decision as fresh as its leader has.
LEMMA SharedStep ==
  ASSUME TypeOK, Clocks, FreshAnswers, NEW t \in Threads, Join(t) \/ Signal(t)
  PROVE  Clocks' /\ FreshAnswers'
<1> USE TimeFacts, DecisionFacts DEF TypeOK, Clocks, FreshAnswers
<1>1. CASE Join(t)
  <2>1. calls[ip[t]] \in Threads
    BY <1>1 DEF Join
  <2> QED
    BY <1>1, <2>1 DEF Join, Goto
<1>2. CASE Signal(t)
  BY <1>2 DEF Signal
<1> QED
  BY <1>1, <1>2

\* A check never returns a decision that had expired when it began.
LEMMA ClocksStep ==
  ASSUME TypeOK, Clocks, FreshAnswers, [Next]_vars
  PROVE  Clocks' /\ FreshAnswers'
<1> USE TimeFacts, DecisionFacts DEF TypeOK, Clocks, FreshAnswers
<1>1. ASSUME NEW t \in Threads, NEW a \in IPs, CheckIP(t, a)
      PROVE  Clocks' /\ FreshAnswers'
  BY <1>1 DEF CheckIP
<1>2. ASSUME NEW t \in Threads, Get(t) \/ Recheck(t) \/ Join(t) \/ Signal(t)
      PROVE  Clocks' /\ FreshAnswers'
  BY <1>2, GetStep, SharedStep
<1>3. ASSUME NEW t \in Threads, Lead(t) \/ Store(t) \/ Forget(t) \/ Return(t)
      PROVE  Clocks' /\ FreshAnswers'
  BY <1>3 DEF Lead, Store, Forget, Return, Goto
<1>4. ASSUME NEW t \in Threads, NEW v \in Verdicts, LookupReturns(t, v)
      PROVE  Clocks' /\ FreshAnswers'
  BY <1>4 DEF LookupReturns, Goto
<1>5. CASE UNCHANGED <<now, threadVars>>
  BY <1>5 DEF threadVars
<1>6. CASE Crash
  BY <1>6 DEF Crash
<1>7. CASE Tick
  BY <1>7, TickStep
<1> QED
  BY <1>1, <1>2, <1>3, <1>4, <1>5, <1>6, <1>7
  DEF Next, CheckStep, SaveBegin, SaveWriteTmp, SaveRename, SaveFail, Cancel,
      CloseBegin, Restart, vars

-----------------------------------------------------------------------------
(* The cache and its file.                                                  *)

\* A decision is made with the longest life there is, and none gains any.
LEMMA NoneOutlivesStep ==
  ASSUME TypeOK, NoneOutlives, [Next]_vars
  PROVE  NoneOutlives'
<1> USE TimeFacts, DecisionFacts DEF TypeOK, NoneOutlives
<1>0. NoDecision.expires = 0
  BY DEF NoDecision
<1>1. ASSUME NEW t \in Threads, NEW a \in IPs, CheckIP(t, a)
      PROVE  NoneOutlives'
  BY <1>1 DEF CheckIP, cacheVars, fileVars
<1>2. ASSUME NEW t \in Threads, Get(t) \/ Recheck(t)
      PROVE  NoneOutlives'
  <2>1. CASE \/ GetRead(t, "get", "done", "evict", "flight")
             \/ GetRead(t, "recheck", "signal", "reevict", "lookup")
    BY <2>1 DEF GetRead, Goto, cacheVars, fileVars
  <2>2. CASE GetEvict(t, "evict", "flight") \/ GetEvict(t, "reevict", "lookup")
    BY <1>0, <2>2 DEF GetEvict, Goto, fileVars
  <2> QED
    BY <1>2, <2>1, <2>2 DEF Get, Recheck
<1>3. ASSUME NEW t \in Threads, Join(t) \/ Lead(t) \/ Forget(t) \/ Return(t)
      PROVE  NoneOutlives'
  BY <1>3 DEF Join, Lead, Forget, Return, Goto, cacheVars, fileVars
<1>4. ASSUME NEW t \in Threads, NEW v \in Verdicts, LookupReturns(t, v)
      PROVE  NoneOutlives'
  BY <1>4 DEF LookupReturns, Goto, cacheVars, fileVars
<1>5. ASSUME NEW t \in Threads, Store(t)
      PROVE  NoneOutlives'
  BY <1>5 DEF Store, Goto, fileVars
<1>6. ASSUME NEW t \in Threads, Signal(t)
      PROVE  NoneOutlives'
  BY <1>6 DEF Signal, cacheVars, fileVars
<1>7. CASE SaveRename
  BY <1>7 DEF SaveRename, threadVars
<1>8. CASE SaveBegin \/ SaveWriteTmp \/ SaveFail \/ Cancel \/ CloseBegin \/ UNCHANGED vars
  BY <1>8 DEF SaveBegin, SaveWriteTmp, SaveFail, Cancel, CloseBegin, vars, threadVars,
              cacheVars, fileVars
<1>9. CASE Tick
  BY <1>9 DEF Tick, Unhurried, threadVars, cacheVars, fileVars
<1>10. CASE Crash
  BY <1>0, <1>10 DEF Crash, NoEntries
<1>11. CASE Restart
  BY <1>0, <1>11 DEF Restart, NoEntries, threadVars
<1> QED
  BY <1>1, <1>2, <1>3, <1>4, <1>5, <1>6, <1>7, <1>8, <1>9, <1>10, <1>11 DEF Next, CheckStep

\* The cache falls behind the file only by a late delete, which is remembered.
LEMMA KeepsUpStep ==
  ASSUME TypeOK, NoneOutlives, CacheKeepsUp, [Next]_vars
  PROVE  CacheKeepsUp'
<1> USE TimeFacts, DecisionFacts DEF TypeOK, CacheKeepsUp, Live
<1>0. NoDecision.expires = 0
  BY DEF NoDecision
<1>1. CASE UNCHANGED <<now, status, cacheVars, fileVars>>
  BY <1>1 DEF cacheVars, fileVars
<1>2. ASSUME NEW t \in Threads,
             GetEvict(t, "evict", "flight") \/ GetEvict(t, "reevict", "lookup")
      PROVE  CacheKeepsUp'
  <2> SUFFICES ASSUME status # "down", loaded, NEW a \in IPs, a \notin forgotten', Live(disk[a])
               PROVE  entries'[a].expires >= disk[a].expires
    BY <1>2 DEF GetEvict, fileVars
  <2>1. CASE a = ip[t]
    <3>1. a \notin forgotten /\ ~Live(entries[a])
      BY <1>2, <2>1 DEF GetEvict
    <3>2. entries[a].expires >= disk[a].expires /\ disk[a].expires > now
      BY <3>1
    <3>3. entries[a].expires > now /\ entries[a] # NoDecision
      BY <1>0, <3>2
    <3> QED
      BY <3>1, <3>3
  <2>2. CASE a # ip[t]
    <3>1. a \notin forgotten /\ entries'[a] = entries[a]
      BY <1>2, <2>2 DEF GetEvict
    <3> QED
      BY <3>1
  <2> QED
    BY <2>1, <2>2
<1>3. ASSUME NEW t \in Threads, Store(t)
      PROVE  CacheKeepsUp'
  <2> SUFFICES ASSUME status # "down", loaded, NEW a \in IPs, a \notin forgotten', Live(disk[a])
               PROVE  entries'[a].expires >= disk[a].expires
    BY <1>3 DEF Store, fileVars
  <2>1. CASE a = ip[t]
    BY <1>3, <2>1 DEF Store, Goto, NoneOutlives
  <2>2. CASE a # ip[t]
    BY <1>3, <2>2 DEF Store
  <2> QED
    BY <2>1, <2>2
<1>4. CASE SaveBegin \/ SaveWriteTmp \/ SaveFail
  BY <1>4 DEF SaveBegin, SaveWriteTmp, SaveFail, AfterSave, cacheVars
<1>5. CASE SaveRename
  BY <1>5 DEF SaveRename
<1>6. CASE Cancel \/ CloseBegin
  BY <1>6 DEF Cancel, CloseBegin, cacheVars, fileVars
<1>7. CASE Tick
  BY <1>7 DEF Tick, cacheVars, fileVars
<1>8. CASE Crash
  BY <1>8 DEF Crash
<1>9. CASE Restart
  BY <1>9 DEF Restart
<1> QED
  BY <1>1, <1>2, <1>3, <1>4, <1>5, <1>6, <1>7, <1>8, <1>9
  DEF Next, CheckStep, CheckIP, Get, GetRead, Join, Lead, Recheck, LookupReturns, Signal,
      Forget, Return, vars

-----------------------------------------------------------------------------
(* The invariant and the safety properties.                                 *)

LEMMA InitIInv == Init => IInv
<1> SUFFICES ASSUME Init PROVE IInv
  OBVIOUS
<1>1. TypeOK
  BY InitTyping
<1>2. Leaders /\ Waiters /\ MissingWhileLookedUp /\ DownIsIdle
  BY DEF Init, Leaders, Waiters, MissingWhileLookedUp, DownIsIdle, Leading, Unhurried
<1>3. CleanMeansSaved
  BY DEF Init, CleanMeansSaved, NoEntries
<1>4. ExemptStayOut /\ ExemptNeverQueried
  BY EngineAssumption
  DEF Init, ExemptStayOut, ExemptNeverQueried, NoEntries, Idle
<1>5. Clocks /\ FreshAnswers
  BY DEF Init, Clocks, FreshAnswers
<1>6. NoneOutlives /\ CacheKeepsUp
  BY TimeFacts DEF Init, NoneOutlives, CacheKeepsUp, Live, NoEntries, NoDecision
<1> QED
  BY <1>1, <1>2, <1>3, <1>4, <1>5, <1>6 DEF IInv

LEMMA IInvStep == IInv /\ [Next]_vars => IInv'
<1> SUFFICES ASSUME IInv, [Next]_vars
             PROVE  IInv'
  OBVIOUS
<1>1. TypeOK'
  BY TypingStep DEF IInv
<1>2. Leaders'
  BY <1>1, LeadersStep DEF IInv
<1>3. Waiters'
  BY <1>1, <1>2, WaitersStep DEF IInv
<1>4. MissingWhileLookedUp' /\ DownIsIdle'
  BY <1>1, MissingStep, DownStep DEF IInv
<1>5. CleanMeansSaved'
  BY SavedStep DEF IInv
<1>6. ExemptStayOut' /\ ExemptNeverQueried'
  BY ExemptStep DEF IInv
<1>7. Clocks' /\ FreshAnswers'
  BY ClocksStep DEF IInv
<1>8. NoneOutlives' /\ CacheKeepsUp'
  BY NoneOutlivesStep, KeepsUpStep DEF IInv
<1> QED
  BY <1>1, <1>2, <1>3, <1>4, <1>5, <1>6, <1>7, <1>8 DEF IInv

\* The inductive invariant of CheckIP, the flight group and the cache.
THEOREM Invariant == Spec => []IInv
BY InitIInv, IInvStep, PTL DEF Spec

\* CheckIP never looks up an address it holds a decision for, and never twice
\* at once: two owners of flights of one address would both be the one
\* goroutine that calls names.
THEOREM NoNeedlessLookup == Spec => []NeededLookup
<1>1. IInv => NeededLookup
  BY DEF IInv, NeededLookup, MissingWhileLookedUp, Leaders, Leading, Unhurried
<1> QED
  BY <1>1, Invariant, PTL

\* flightGroup never leaves a goroutine waiting on a call that nobody will release.
THEOREM WaitersAreLed == Spec => []NoLostWaiter
<1>1. IInv => NoLostWaiter
  BY DEF IInv, NoLostWaiter, TypeOK, Leaders, Waiters
<1> QED
  BY <1>1, Invariant, PTL

\* Cache: whatever Get, Set, the flush loop, failed saves, crashes and
\* restarts do to one another, a cache that is not dirty is on disk.
THEOREM CleanCacheIsSaved == Spec => []CleanMeansSaved
<1>1. IInv => CleanMeansSaved
  BY DEF IInv
<1> QED
  BY <1>1, Invariant, PTL

\* CheckIP returns no decision that had expired when the check began.
THEOREM AnswersAreFresh == Spec => []FreshAnswers
<1>1. IInv => FreshAnswers
  BY DEF IInv
<1> QED
  BY <1>1, Invariant, PTL

\* CheckIP keeps private and allowlisted addresses out of the flights, the
\* cache and its file.
THEOREM ExemptionsHold == Spec => []ExemptNeverQueried
<1>1. IInv => ExemptNeverQueried
  BY DEF IInv
<1> QED
  BY <1>1, Invariant, PTL

\* saveLocked: a decision that has not expired leaves the file for a younger one
\* of its address, unless the file could not be read at the start or Get deleted
\* the decision late.
THEOREM FileKeepsDecisions == Spec => SavedStaysSaved
<1> DEFINE Kept == \A a \in IPs :
             Live(disk[a]) /\ disk'[a] # disk[a]
               => /\ status # "down"
                  /\ disk'[a].expires >= disk[a].expires \/ ~loaded \/ a \in forgotten
<1>1. IInv /\ [Next]_vars => Kept
  <2> SUFFICES ASSUME IInv, [Next]_vars PROVE Kept
    OBVIOUS
  <2>1. CASE SaveRename
    BY <2>1 DEF SaveRename, IInv, CacheKeepsUp
  <2>2. CASE UNCHANGED disk
    BY <2>2
  <2> QED
    BY <2>1, <2>2
    DEF Next, CheckStep, CheckIP, Get, GetRead, GetEvict, Join, Lead, Recheck,
        LookupReturns, Store, Signal, Forget, Return, SaveBegin, SaveWriteTmp,
        SaveFail, Cancel, CloseBegin, Crash, Restart, Tick, vars, fileVars
<1>2. IInv /\ [Next]_vars => [Kept]_vars
  BY <1>1
<1> HIDE DEF Kept
<1>3. Spec => [][Kept]_vars
  BY <1>2, Invariant, PTL DEF Spec
<1> QED
  BY <1>3 DEF SavedStaysSaved, Kept

-----------------------------------------------------------------------------
(* Engine implements SingleLookup.                                          *)

Asking  == [t \in Threads |-> IF pc[t] \in Idle THEN "no address" ELSE ip[t]]
Looking == {t \in Threads : pc[t] = "lookup"}

\* What a step of one goroutine inside CheckIP means to the promise.
LEMMA MoveStep ==
  ASSUME TypeOK, NEW t \in Threads, NEW to \in Steps, pc[t] \notin Idle,
         pc' = [pc EXCEPT ![t] = to], ip' = ip
  PROVE  /\ to \notin Idle => Asking' = Asking
         /\ to \in Idle => Asking' = [Asking EXCEPT ![t] = "no address"]
         /\ to = "lookup" => Looking' = Looking \union {t}
         /\ to # "lookup" => Looking' = Looking \ {t}
<1> USE DEF TypeOK, Asking, Looking
<1>1. to \notin Idle => Asking' = Asking
  OBVIOUS
<1>2. to \in Idle => Asking' = [Asking EXCEPT ![t] = "no address"]
  OBVIOUS
<1>3. to = "lookup" => Looking' = Looking \union {t}
  OBVIOUS
<1>4. to # "lookup" => Looking' = Looking \ {t}
  OBVIOUS
<1> QED
  BY <1>1, <1>2, <1>3, <1>4

\* Who may look an address up is the only one to do so.
LEMMA LookingAlone ==
  ASSUME TypeOK, Leaders, NEW t \in Threads, pc[t] \in {"recheck", "reevict"}
  PROVE  \A u \in Looking : Asking[u] # Asking[t]
<1> SUFFICES ASSUME NEW u \in Looking PROVE Asking[u] # Asking[t]
  OBVIOUS
<1>1. u \in Threads /\ pc[u] = "lookup"
  BY DEF Looking
<1>2. Asking[u] = ip[u] /\ Asking[t] = ip[t]
  BY <1>1 DEF Asking, Idle
<1>3. calls[ip[u]] = u /\ calls[ip[t]] = t
  BY <1>1 DEF Leaders, Leading, Unhurried
<1> QED
  BY <1>1, <1>2, <1>3

\* CheckIP either asks or, for an exempt address, returns at once.
LEMMA RefineAsk ==
  ASSUME TypeOK, NEW t \in Threads, NEW a \in IPs, CheckIP(t, a)
  PROVE  Promise!Next \/ (Asking' = Asking /\ Looking' = Looking)
<1> USE DEF TypeOK, CheckIP, Asking, Looking, Idle
<1>1. Looking' = Looking
  OBVIOUS
<1>2. a \in Exempt => Asking' = Asking
  OBVIOUS
<1>3. a \notin Exempt => Promise!Ask(t, a)
  <2>1. a \notin Exempt => Asking' = [Asking EXCEPT ![t] = a]
    OBVIOUS
  <2>2. Asking[t] = "no address"
    OBVIOUS
  <2> QED
    BY <1>1, <2>1, <2>2 DEF Promise!Ask
<1> QED
  BY <1>1, <1>2, <1>3 DEF Promise!Next

\* A step of the flight that does not begin or end a lookup changes nothing
\* for the promise.
LEMMA RefineStutter ==
  ASSUME TypeOK, NEW t \in Threads, Join(t) \/ Lead(t) \/ Store(t) \/ Signal(t)
  PROVE  Asking' = Asking /\ Looking' = Looking
<1>1. ip' = ip
  BY DEF Join, Lead, Store, Signal
<1>2. \A u \in Threads : /\ (pc'[u] \in Idle) <=> (pc[u] \in Idle)
                         /\ (pc'[u] = "lookup") <=> (pc[u] = "lookup")
  <2>1. CASE Join(t) \/ Lead(t) \/ Store(t)
    BY <2>1 DEF Join, Lead, Store, Goto, TypeOK, Idle
  <2>2. CASE Signal(t)
    BY <2>2 DEF Signal, TypeOK, Idle
  <2> QED
    BY <2>1, <2>2
<1> QED
  BY <1>1, <1>2 DEF Asking, Looking

\* Outside a flight Get hits and the check returns, or misses unnoticed.
LEMMA RefineGet ==
  ASSUME TypeOK, NEW t \in Threads, Get(t)
  PROVE  Promise!Return(t) \/ (Asking' = Asking /\ Looking' = Looking)
<1>1. PICK to \in {"done", "evict", "flight"} : Goto(t, pc[t], to)
  BY DEF Get, GetRead, GetEvict, Goto
<1>2. ip' = ip /\ pc[t] \in {"get", "evict"}
  BY DEF Get, GetRead, GetEvict, Goto
<1>3. t \notin Looking /\ pc[t] \notin Idle /\ to \in Steps /\ to # "lookup"
  BY <1>2 DEF Looking, Idle, Steps
<1>4. Looking' = Looking
  <2>1. Looking' = Looking \ {t}
    BY <1>1, <1>2, <1>3, MoveStep DEF Goto
  <2> QED
    BY <1>3, <2>1
<1>5. to \notin Idle => Asking' = Asking
  BY <1>1, <1>2, <1>3, MoveStep DEF Goto
<1>6. ASSUME to \in Idle PROVE Promise!Return(t)
  <2>1. Asking' = [Asking EXCEPT ![t] = "no address"]
    BY <1>1, <1>2, <1>3, <1>6, MoveStep DEF Goto
  <2>2. Asking[t] # "no address"
    BY <1>3, EngineAssumption DEF Asking, TypeOK
  <2> QED
    BY <1>3, <1>4, <2>1, <2>2 DEF Promise!Return, Asking, Looking
<1> QED
  BY <1>4, <1>5, <1>6

\* Inside the flight Get hits unnoticed, or the lookup begins.
LEMMA RefineRecheck ==
  ASSUME TypeOK, Leaders, NEW t \in Threads, Recheck(t)
  PROVE  Promise!BeginLookup(t) \/ (Asking' = Asking /\ Looking' = Looking)
<1>1. PICK to \in {"signal", "reevict", "lookup"} : Goto(t, pc[t], to)
  BY DEF Recheck, GetRead, GetEvict, Goto
<1>2. ip' = ip /\ pc[t] \in {"recheck", "reevict"}
  BY DEF Recheck, GetRead, GetEvict, Goto
<1>3. /\ t \notin Looking /\ pc[t] \notin Idle
      /\ to \in Steps /\ to \notin Idle
  BY <1>2 DEF Looking, Idle, Steps, Leading, Unhurried
<1>4. Asking' = Asking
  BY <1>1, <1>2, <1>3, MoveStep DEF Goto
<1>5. to # "lookup" => Looking' = Looking
  <2>1. to # "lookup" => Looking' = Looking \ {t}
    BY <1>1, <1>2, <1>3, MoveStep DEF Goto
  <2> QED
    BY <1>3, <2>1
<1>6. ASSUME to = "lookup" PROVE Promise!BeginLookup(t)
  <2>1. Looking' = Looking \union {t}
    BY <1>1, <1>2, <1>3, <1>6, MoveStep DEF Goto
  <2>2. Asking[t] # "no address"
    BY <1>3, EngineAssumption DEF Asking, TypeOK
  <2>3. \A u \in Looking : Asking[u] # Asking[t]
    BY <1>2, LookingAlone
  <2> QED
    BY <1>4, <2>1, <2>2, <2>3 DEF Promise!BeginLookup, Asking, Looking
<1> QED
  BY <1>4, <1>5, <1>6

\* The providers answered: the lookup ends.
LEMMA RefineReturns ==
  ASSUME TypeOK, NEW t \in Threads, NEW v \in Verdicts, LookupReturns(t, v)
  PROVE  Promise!EndLookup(t)
<1>1. /\ pc[t] = "lookup" /\ ip' = ip
      /\ pc' = [pc EXCEPT ![t] = "store"]
  BY DEF LookupReturns, Goto
<1>2. "store" \in Steps /\ "store" \notin Idle /\ pc[t] \notin Idle
  BY <1>1 DEF Steps, Leading, Unhurried, Idle
<1>3. Asking' = Asking /\ Looking' = Looking \ {t}
  BY <1>1, <1>2, MoveStep
<1>4. t \in Looking
  BY <1>1 DEF Looking
<1> QED
  BY <1>3, <1>4 DEF Promise!EndLookup, Asking, Looking

\* The leader of a flight and the goroutines it released return.
LEMMA RefineReturn ==
  ASSUME TypeOK, NEW t \in Threads, Forget(t) \/ Return(t)
  PROVE  Promise!Return(t)
<1>1. /\ pc[t] \in {"forget", "woken"} /\ ip' = ip
      /\ pc' = [pc EXCEPT ![t] = "done"]
  BY DEF Forget, Return, Goto
<1>2. "done" \in Steps /\ "done" \in Idle /\ pc[t] \notin Idle /\ t \notin Looking
  BY <1>1 DEF Steps, Idle, Looking
<1>3. Asking' = [Asking EXCEPT ![t] = "no address"] /\ Looking' = Looking \ {t}
  BY <1>1, <1>2, MoveStep
<1>4. Looking' = Looking
  BY <1>2, <1>3
<1>5. Asking[t] # "no address"
  BY <1>2, EngineAssumption DEF Asking, TypeOK
<1> QED
  BY <1>2, <1>3, <1>4, <1>5 DEF Promise!Return, Asking, Looking

\* The engine does nothing the promise does not allow.
LEMMA RefineStep ==
  ASSUME TypeOK, Leaders, [Next]_vars
  PROVE  Promise!Next \/ (Asking' = Asking /\ Looking' = Looking)
<1>1. ASSUME NEW t \in Threads, NEW a \in IPs, CheckIP(t, a)
      PROVE  Promise!Next \/ (Asking' = Asking /\ Looking' = Looking)
  BY <1>1, RefineAsk
<1>2. ASSUME NEW t \in Threads, CheckStep(t)
      PROVE  Promise!Next \/ (Asking' = Asking /\ Looking' = Looking)
  BY <1>2, RefineStutter, RefineGet, RefineRecheck, RefineReturns, RefineReturn
  DEF CheckStep, Promise!Next
<1>3. CASE Crash
  <2>1. Asking' = [t \in Threads |-> "no address"] /\ Looking' = {}
    BY <1>3 DEF Crash, Asking, Looking, Idle
  <2> QED
    BY <2>1 DEF Promise!Next, Promise!Die, Asking, Looking
<1>4. CASE UNCHANGED threadVars
  BY <1>4 DEF threadVars, Asking, Looking
<1> QED
  BY <1>1, <1>2, <1>3, <1>4
  DEF Next, SaveBegin, SaveWriteTmp, SaveRename, SaveFail, Cancel, CloseBegin,
      Restart, Tick, vars

\* CheckIP implements SingleLookup: one lookup of an address at a time, by a
\* goroutine that is checking it and does not return meanwhile.
THEOREM ImplementsSingleLookup == Spec => OneLookupPerAddress
<1>1. Init => Promise!Init
  BY DEF Init, Promise!Init, Idle
<1>2. IInv /\ [Next]_vars => [Promise!Next]_(Promise!vars)
  <2>1. TypeOK /\ Leaders /\ [Next]_vars
          => Promise!Next \/ UNCHANGED Promise!vars
    BY RefineStep DEF Asking, Looking, Promise!vars
  <2> QED
    BY <2>1 DEF IInv
<1> QED
  BY <1>1, <1>2, Invariant, PTL DEF Spec, OneLookupPerAddress, Promise!SafeSpec

===============================================================================
