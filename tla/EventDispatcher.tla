--------------------------- MODULE EventDispatcher ---------------------------
(***************************************************************************)
(* The in-process event bus: EventDispatcher.Publish, the two drop         *)
(* policies, the goroutine that drains each handler's queue, Subscribe,    *)
(* the cleanup function it returns (removeEntry) and Close.                *)
(*                                                                         *)
(* Publishers are the scanner goroutines of the server's stdout and        *)
(* stderr; each publishes its own numbered events one after the other.     *)
(* Publish copies the handler list under the lock and sends outside it, so *)
(* a send may meet a queue that removeEntry or Close has closed meanwhile: *)
(* in Go that is a panic nobody recovers, which ends the whole process.    *)
(* Handlers are delivered to in any order.                                 *)
(***************************************************************************)
EXTENDS Integers, Sequences, FiniteSets

CONSTANTS
  Publishers,
  Handlers,
  BufferSize,   \* capacity of a handler's queue
  Policies,     \* the policies NewEventDispatcher may be called with
  MaxEvents     \* bound: events each publisher publishes

ASSUME DispatcherAssumption ==
  /\ BufferSize \in Nat \ {0}
  /\ MaxEvents \in Nat
  /\ Policies \subseteq {"drop-oldest", "drop-newest"}

VARIABLES
  policy,      \* EventDispatcher.policy
  handlers,    \* EventDispatcher.handlers
  closed,      \* EventDispatcher.closed
  chan,        \* state of each entry's queue channel
  queue,       \* what is buffered in it
  runner,      \* the goroutine in runHandler
  handled,     \* the events passed to HandleEvent so far
  at,          \* where each publisher stands in Publish / deliver
  sent,        \* number of the event it publishes
  todo,        \* the entries of its snapshot whose delivery is not decided
  target,      \* the entry whose full queue it deals with
  dropped,     \* dispatcherEntry.dropped
  offered,     \* history: deliveries to each entry decided, dropped or not
  removal,     \* where the cleanup function of each entry stands
  toClose,     \* the entries Close has yet to stop
  closeAt,     \* the entry whose goroutine Close waits for
  cancelled,   \* the context handlers run under is cancelled
  panicked     \* a send on, or close of, a closed channel

pubVars    == <<at, sent, todo, target>>
entryVars  == <<chan, queue, runner, handled, dropped, offered>>
removeVars == <<removal, toClose, closeAt>>
busVars    == <<policy, handlers, closed, pubVars, entryVars, removeVars, cancelled,
                panicked>>

Events   == Publishers \X (1 .. MaxEvents)
NoEntry  == "no entry"
Inc(f, h) == [f EXCEPT ![h] = @ + 1]

DropNewest == policy = "drop-newest"

TypeOK ==
  /\ policy \in Policies
  /\ handlers \subseteq Handlers
  /\ closed \in BOOLEAN
  /\ chan \in [Handlers -> {"none", "open", "closed"}]
  /\ queue \in [Handlers -> Seq(Events)]
  /\ \A h \in Handlers : Len(queue[h]) <= BufferSize
  /\ runner \in [Handlers -> {"none", "ready", "handling", "done"}]
  /\ handled \in [Handlers -> Seq(Events)]
  /\ at \in [Publishers -> {"idle", "send", "evict", "resend", "record"}]
  /\ sent \in [Publishers -> 0 .. MaxEvents]
  /\ todo \in [Publishers -> SUBSET Handlers]
  /\ target \in [Publishers -> Handlers \union {NoEntry}]
  /\ dropped \in [Handlers -> Nat]
  /\ offered \in [Handlers -> Nat]
  /\ removal \in [Handlers -> {"no", "unlinked", "waiting", "done"}]
  /\ toClose \subseteq Handlers
  /\ closeAt \in Handlers \union {NoEntry}
  /\ cancelled \in BOOLEAN
  /\ panicked \in BOOLEAN

BusInit ==
  /\ policy \in Policies
  /\ handlers = {}
  /\ closed = FALSE
  /\ chan = [h \in Handlers |-> "none"]
  /\ queue = [h \in Handlers |-> <<>>]
  /\ runner = [h \in Handlers |-> "none"]
  /\ handled = [h \in Handlers |-> <<>>]
  /\ at = [p \in Publishers |-> "idle"]
  /\ sent = [p \in Publishers |-> 0]
  /\ todo = [p \in Publishers |-> {}]
  /\ target = [p \in Publishers |-> NoEntry]
  /\ dropped = [h \in Handlers |-> 0]
  /\ offered = [h \in Handlers |-> 0]
  /\ removal = [h \in Handlers |-> "no"]
  /\ toClose = {}
  /\ closeAt = NoEntry
  /\ cancelled = FALSE
  /\ panicked = FALSE

Panic ==
  /\ panicked' = TRUE
  /\ UNCHANGED <<policy, handlers, closed, pubVars, entryVars, removeVars, cancelled>>

-----------------------------------------------------------------------------
(* Subscribe.  On a closed dispatcher it registers nothing.                 *)

Subscribe(h) ==
  /\ ~panicked
  /\ chan[h] = "none"
  /\ ~closed
  /\ handlers' = handlers \union {h}
  /\ chan' = [chan EXCEPT ![h] = "open"]
  /\ runner' = [runner EXCEPT ![h] = "ready"]
  /\ UNCHANGED <<policy, closed, pubVars, queue, handled, dropped, offered,
                 removeVars, cancelled, panicked>>

-----------------------------------------------------------------------------
(* Publish and deliver.                                                     *)

\* The snapshot of the handler list, under the lock.
Publish(p) ==
  LET entries == IF closed THEN {} ELSE handlers IN
  /\ ~panicked
  /\ at[p] = "idle"
  /\ sent[p] < MaxEvents
  /\ sent' = Inc(sent, p)
  /\ todo' = [todo EXCEPT ![p] = entries]
  /\ at' = [at EXCEPT ![p] = IF entries = {} THEN "idle" ELSE "send"]
  /\ UNCHANGED <<policy, handlers, closed, target, entryVars, removeVars, cancelled,
                 panicked>>

\* What becomes of p's event at h is decided.
Decided(p, h) ==
  /\ todo' = [todo EXCEPT ![p] = @ \ {h}]
  /\ offered' = Inc(offered, h)
  /\ UNCHANGED sent

\* deliver returned: on to the rest of the snapshot.
Delivered(p, h) ==
  /\ Decided(p, h)
  /\ at' = [at EXCEPT ![p] = IF todo[p] = {h} THEN "idle" ELSE "send"]
  /\ target' = [target EXCEPT ![p] = NoEntry]

\* The queue of h overflowed: recordDrop is called next.
Overflowed(p, h) ==
  /\ Decided(p, h)
  /\ at' = [at EXCEPT ![p] = "record"]
  /\ target' = [target EXCEPT ![p] = h]

\* Faulty: last in, first out.
EnqueueFirst(p, h) == queue' = [queue EXCEPT ![h] = <<<<p, sent[p]>>>> \o @]

Enqueue(p, h) == queue' = [queue EXCEPT ![h] = Append(@, <<p, sent[p]>>)]

\* The first, non-blocking send.
Send(p, h) ==
  /\ ~panicked
  /\ at[p] = "send"
  /\ h \in todo[p]
  /\ \/ /\ chan[h] = "closed"
        /\ Panic
     \/ /\ chan[h] = "open"
        /\ Len(queue[h]) < BufferSize
        /\ Enqueue(p, h)
        /\ Delivered(p, h)
        /\ UNCHANGED <<policy, handlers, closed, chan, runner, handled, dropped,
                       removeVars, cancelled, panicked>>
     \/ /\ chan[h] = "open"
        /\ Len(queue[h]) = BufferSize
        /\ DropNewest
        /\ Overflowed(p, h)
        /\ UNCHANGED <<policy, handlers, closed, chan, queue, runner, handled, dropped,
                       removeVars, cancelled, panicked>>
     \/ /\ chan[h] = "open"
        /\ Len(queue[h]) = BufferSize
        /\ ~DropNewest
        /\ at' = [at EXCEPT ![p] = "evict"]
        /\ target' = [target EXCEPT ![p] = h]
        /\ UNCHANGED <<policy, handlers, closed, sent, todo, entryVars, removeVars,
                       cancelled, panicked>>

\* Nobody is between Evict and Resend, which hold the entry's dropMu.
DropMuFree(h) == \A q \in Publishers : ~(at[q] = "resend" /\ target[q] = h)

\* Drop-oldest, holding dropMu from here to the second send: receive one
\* queued event, if there still is one.
Evict(p) ==
  LET h == target[p] IN
  /\ ~panicked
  /\ at[p] = "evict"
  /\ DropMuFree(h)
  /\ queue' = [queue EXCEPT ![h] = IF @ = <<>> THEN @ ELSE Tail(@)]
  /\ at' = [at EXCEPT ![p] = "resend"]
  /\ UNCHANGED <<policy, handlers, closed, sent, todo, target, chan, runner, handled,
                 dropped, offered, removeVars, cancelled, panicked>>

\* Faulty: an event queued after an eviction does not count as an overflow.
ResendUncounted(p) ==
  LET h == target[p] IN
  /\ ~panicked
  /\ at[p] = "resend"
  /\ chan[h] = "open"
  /\ \/ /\ Len(queue[h]) < BufferSize
        /\ Enqueue(p, h)
        /\ Delivered(p, h)
     \/ /\ Len(queue[h]) = BufferSize
        /\ UNCHANGED queue
        /\ Overflowed(p, h)
  /\ UNCHANGED <<policy, handlers, closed, chan, runner, handled, dropped, removeVars,
                 cancelled, panicked>>

\* The second send, and the release of dropMu.  The first send of another
\* publisher does not take dropMu and may have refilled the queue.
Resend(p) ==
  LET h == target[p] IN
  /\ ~panicked
  /\ at[p] = "resend"
  /\ \/ /\ chan[h] = "closed"
        /\ Panic
     \/ /\ chan[h] = "open"
        /\ \/ Len(queue[h]) < BufferSize /\ Enqueue(p, h)
           \/ Len(queue[h]) = BufferSize /\ UNCHANGED queue
        /\ Overflowed(p, h)
        /\ UNCHANGED <<policy, handlers, closed, chan, runner, handled, dropped,
                       removeVars, cancelled, panicked>>

\* recordDrop, which takes dropMu anew.
Record(p) ==
  /\ ~panicked
  /\ at[p] = "record"
  /\ DropMuFree(target[p])
  /\ dropped' = Inc(dropped, target[p])
  /\ at' = [at EXCEPT ![p] = IF todo[p] = {} THEN "idle" ELSE "send"]
  /\ target' = [target EXCEPT ![p] = NoEntry]
  /\ UNCHANGED <<policy, handlers, closed, sent, todo, chan, queue, runner, handled,
                 offered, removeVars, cancelled, panicked>>

PublisherStep(p) ==
  \/ Publish(p) \/ Evict(p) \/ Resend(p) \/ Record(p)
  \/ \E h \in Handlers : Send(p, h)

-----------------------------------------------------------------------------
(* runHandler.  select picks either ready case: a cancelled context may end *)
(* the loop although events are queued.                                     *)

Receive(h) ==
  /\ ~panicked
  /\ runner[h] = "ready"
  /\ queue[h] # <<>>
  /\ handled' = [handled EXCEPT ![h] = Append(@, Head(queue[h]))]
  /\ queue' = [queue EXCEPT ![h] = Tail(@)]
  /\ runner' = [runner EXCEPT ![h] = "handling"]
  /\ UNCHANGED <<policy, handlers, closed, pubVars, chan, dropped, offered,
                 removeVars, cancelled, panicked>>

\* HandleEvent returns, or panics and is recovered: the loop goes on.
HandleReturns(h) ==
  /\ ~panicked
  /\ runner[h] = "handling"
  /\ runner' = [runner EXCEPT ![h] = "ready"]
  /\ UNCHANGED <<policy, handlers, closed, pubVars, chan, queue, handled, dropped,
                 offered, removeVars, cancelled, panicked>>

\* Faulty: the loop never notices that its queue was closed.
RunnerExitsOnCancel(h) ==
  /\ ~panicked
  /\ runner[h] = "ready"
  /\ cancelled
  /\ runner' = [runner EXCEPT ![h] = "done"]
  /\ UNCHANGED <<policy, handlers, closed, pubVars, chan, queue, handled, dropped,
                 offered, removeVars, cancelled, panicked>>

RunnerExits(h) ==
  /\ ~panicked
  /\ runner[h] = "ready"
  /\ cancelled \/ (chan[h] = "closed" /\ queue[h] = <<>>)
  /\ runner' = [runner EXCEPT ![h] = "done"]
  /\ UNCHANGED <<policy, handlers, closed, pubVars, chan, queue, handled, dropped,
                 offered, removeVars, cancelled, panicked>>

-----------------------------------------------------------------------------
(* removeEntry, the cleanup function Subscribe returned.                    *)

CloseQueue(h) ==
  /\ chan' = [chan EXCEPT ![h] = "closed"]
  /\ UNCHANGED <<queue, runner, handled, dropped, offered>>

RemoveUnlink(h) ==
  /\ ~panicked
  /\ chan[h] # "none"
  /\ removal[h] = "no"
  /\ removal' = [removal EXCEPT ![h] = "unlinked"]
  /\ handlers' = handlers \ {h}
  /\ UNCHANGED <<policy, closed, pubVars, entryVars, toClose, closeAt, cancelled,
                 panicked>>

RemoveClose(h) ==
  /\ ~panicked
  /\ removal[h] = "unlinked"
  /\ \/ /\ chan[h] = "closed"
        /\ Panic
     \/ /\ chan[h] = "open"
        /\ CloseQueue(h)
        /\ removal' = [removal EXCEPT ![h] = "waiting"]
        /\ UNCHANGED <<policy, handlers, closed, pubVars, toClose, closeAt, cancelled,
                       panicked>>

\* Faulty: the cleanup function does not wait for the goroutine.
RemoveReturnsAtOnce(h) ==
  /\ ~panicked
  /\ removal[h] = "waiting"
  /\ removal' = [removal EXCEPT ![h] = "done"]
  /\ UNCHANGED <<policy, handlers, closed, pubVars, entryVars, toClose, closeAt,
                 cancelled, panicked>>

RemoveReturns(h) ==
  /\ ~panicked
  /\ removal[h] = "waiting"
  /\ runner[h] = "done"
  /\ removal' = [removal EXCEPT ![h] = "done"]
  /\ UNCHANGED <<policy, handlers, closed, pubVars, entryVars, toClose, closeAt,
                 cancelled, panicked>>

RemoveStep(h) == RemoveUnlink(h) \/ RemoveClose(h) \/ RemoveReturns(h)

-----------------------------------------------------------------------------
(* Close.                                                                   *)

CloseBegin ==
  /\ ~panicked
  /\ ~closed
  /\ closed' = TRUE
  /\ toClose' = handlers
  /\ handlers' = {}
  /\ UNCHANGED <<policy, pubVars, entryVars, removal, closeAt, cancelled, panicked>>

\* Faulty: Close waits for a goroutine whose queue it left open.
CloseEntryKeepsOpen(h) ==
  /\ ~panicked
  /\ closeAt = NoEntry
  /\ h \in toClose
  /\ closeAt' = h
  /\ UNCHANGED <<policy, handlers, closed, pubVars, entryVars, removal, toClose,
                 cancelled, panicked>>

CloseEntry(h) ==
  /\ ~panicked
  /\ closeAt = NoEntry
  /\ h \in toClose
  /\ \/ /\ chan[h] = "closed"
        /\ Panic
     \/ /\ chan[h] = "open"
        /\ CloseQueue(h)
        /\ closeAt' = h
        /\ UNCHANGED <<policy, handlers, closed, pubVars, removal, toClose, cancelled,
                       panicked>>

CloseNext ==
  /\ ~panicked
  /\ closeAt # NoEntry
  /\ runner[closeAt] = "done"
  /\ toClose' = toClose \ {closeAt}
  /\ closeAt' = NoEntry
  /\ UNCHANGED <<policy, handlers, closed, pubVars, entryVars, removal, cancelled,
                 panicked>>

CloseStep == CloseBegin \/ CloseNext \/ \E h \in Handlers : CloseEntry(h)

Cancel ==
  /\ ~panicked
  /\ ~cancelled
  /\ cancelled' = TRUE
  /\ UNCHANGED <<policy, handlers, closed, pubVars, entryVars, removeVars, panicked>>

-----------------------------------------------------------------------------
(* The bus under any client: handlers come and go at any time.              *)

RunnerStep(h) == Receive(h) \/ HandleReturns(h) \/ RunnerExits(h)

BusNext ==
  \/ \E p \in Publishers : PublisherStep(p)
  \/ \E h \in Handlers : Subscribe(h) \/ RunnerStep(h) \/ RemoveStep(h)
  \/ CloseStep \/ Cancel

BusSpec == BusInit /\ [][BusNext]_busVars

\* Every goroutine of the bus and every scanner inside Publish keeps running.
\* Nothing makes HandleEvent return.
BusFairness ==
  /\ \A p \in Publishers : WF_busVars(PublisherStep(p))
  /\ \A h \in Handlers : /\ WF_busVars(Receive(h) \/ RunnerExits(h))
                         /\ WF_busVars(RemoveClose(h) \/ RemoveReturns(h))
  /\ WF_busVars(CloseNext \/ \E h \in Handlers : CloseEntry(h))

FairBusSpec == BusSpec /\ BusFairness

-----------------------------------------------------------------------------
(* Properties.                                                              *)

\* A handler sees each scanner's events in the order they were published
\* and none of them twice, whatever was dropped on the way and however the
\* scanners interleave.
PerScannerOrder ==
  \A h \in Handlers :
    LET seen == handled[h] \o queue[h] IN
    \A i, j \in DOMAIN seen :
      i < j /\ seen[i][1] = seen[j][1] => seen[i][2] < seen[j][2]

Lost(h) == offered[h] - Len(handled[h]) - Len(queue[h])

MakingRoom(h) == \E p \in Publishers : at[p] = "resend" /\ target[p] = h

\* Between the send that met a full queue and the count of it.
Recording(h) == {p \in Publishers : at[p] = "record" /\ target[p] = h}

Overflows(h) == dropped[h] + Cardinality(Recording(h))

\* What the counter is worth.  Each publisher on its way to recordDrop adds
\* one to it.  With these, under drop-newest it is the number of events
\* lost.  Under drop-oldest it is not: two events go for one count when the
\* queue is refilled after the eviction, and one more may be gone while
\* room is made; never more than that.
LossIsRecorded ==
  \A h \in Handlers :
    IF DropNewest THEN Lost(h) = Overflows(h)
    ELSE Lost(h) <= 2 * Overflows(h) + (IF MakingRoom(h) THEN 1 ELSE 0)

\* Once the cleanup function has returned, the handler is never called again.
NoCallAfterRemoval ==
  [][\A h \in Handlers : removal[h] = "done" => handled'[h] = handled[h]]_busVars

HandlersReturn == \A h \in Handlers : []<>(runner[h] # "handling")

\* Removing a handler ends if no handler stays in HandleEvent for good: its
\* goroutine notices the closed queue, whatever is still buffered in it.
RemovalReturns ==
  HandlersReturn =>
    \A h \in Handlers : removal[h] = "unlinked" ~> (removal[h] = "done" \/ panicked)

\* So does closing the bus, while handlers are removed at the same time.
CloseReturns ==
  HandlersReturn => (closed ~> ((toClose = {} /\ closeAt = NoEntry) \/ panicked))

=============================================================================
