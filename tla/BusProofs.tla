------------------------------- MODULE BusProofs -------------------------------
(***************************************************************************)
(* The safety properties of EventDispatcher and AddonRunner proved for any   *)
(* scanners, handlers, policies, buffer size and number of events, and that  *)
(* AddonRunner drives the bus by its own operations only.                    *)
(*                                                                          *)
(* The inductive invariant of the bus: typing; an entry that was never       *)
(* subscribed has no goroutine, and one that is removed has none left        *)
(* (Entries); who makes room in a queue still has to deliver to it, and      *)
(* nobody does under drop-newest (Deliveries); what each handler has seen    *)
(* and will see is in order, and older than what is on its way (InOrder);    *)
(* finitely many publishers are between an overflow and the count of it      *)
(* (FewRecord), and the counter is worth what LossIsRecorded says.           *)
(***************************************************************************)
EXTENDS AddonRunner, SequenceTheorems, FiniteSetTheorems, TLAPS

Entries ==
  \A h \in Handlers :
    /\ chan[h] = "none" => runner[h] = "none" /\ removal[h] = "no"
    /\ removal[h] = "done" => runner[h] = "done"

Delivering(p, h) == at[p] # "idle" /\ h \in todo[p]

Deliveries ==
  \A p \in Publishers :
    /\ at[p] # "idle" => sent[p] # 0
    /\ at[p] \in {"evict", "resend"} => ~DropNewest /\ target[p] \in todo[p]
    /\ at[p] = "record" => target[p] \in Handlers

\* Of the same scanner, e was published before f.
Before(e, f) == e[1] = f[1] => e[2] < f[2]

Ordered(s) == \A i, j \in 1 .. Len(s) : i < j => Before(s[i], s[j])

AllBefore(s, t) == \A i \in 1 .. Len(s), j \in 1 .. Len(t) : Before(s[i], t[j])

\* The events of s were published, and before what is on its way to h.
Published(s, h) ==
  \A i \in 1 .. Len(s), p \in Publishers : s[i][1] = p =>
    s[i][2] <= sent[p] /\ (Delivering(p, h) => s[i][2] < sent[p])

OrderOf(h) ==
  /\ Ordered(handled[h]) /\ Ordered(queue[h]) /\ AllBefore(handled[h], queue[h])
  /\ Published(handled[h], h) /\ Published(queue[h], h)

InOrder == \A h \in Handlers : OrderOf(h)

FewRecord == \A h \in Handlers : IsFiniteSet(Recording(h))

BusInv == TypeOK /\ Entries /\ Deliveries /\ InOrder /\ FewRecord /\ LossIsRecorded

-----------------------------------------------------------------------------
(* Typing.                                                                  *)

\* No event is published and nobody subscribed at the start.
LEMMA BusInitially == BusInit => BusInv
<1> SUFFICES ASSUME BusInit PROVE BusInv
  OBVIOUS
<1>1. TypeOK
  <2>1. <<>> \in Seq(Events)
    OBVIOUS
  <2>2. /\ queue \in [Handlers -> Seq(Events)] /\ handled \in [Handlers -> Seq(Events)]
        /\ \A h \in Handlers : Len(queue[h]) = 0
    BY <2>1 DEF BusInit
  <2>3. /\ at \in [Publishers -> {"idle", "send", "evict", "resend", "record"}]
        /\ sent \in [Publishers -> 0 .. MaxEvents]
        /\ todo \in [Publishers -> SUBSET Handlers]
        /\ target \in [Publishers -> Handlers \union {NoEntry}]
    BY DispatcherAssumption DEF BusInit
  <2>4. dropped \in [Handlers -> Nat] /\ offered \in [Handlers -> Nat]
    BY DEF BusInit
  <2>5. /\ chan \in [Handlers -> {"none", "open", "closed"}]
        /\ runner \in [Handlers -> {"none", "ready", "handling", "done"}]
        /\ removal \in [Handlers -> {"no", "unlinked", "waiting", "done"}]
    BY DEF BusInit
  <2>6. \A h \in Handlers : Len(queue[h]) <= BufferSize
    BY <2>2, DispatcherAssumption
  <2>7. /\ policy \in Policies /\ handlers \subseteq Handlers /\ closed \in BOOLEAN
        /\ toClose \subseteq Handlers /\ closeAt \in Handlers \union {NoEntry}
        /\ cancelled \in BOOLEAN /\ panicked \in BOOLEAN
    BY DEF BusInit
  <2> QED
    BY <2>2, <2>3, <2>4, <2>5, <2>6, <2>7 DEF TypeOK
<1>2. Entries /\ Deliveries
  BY DEF BusInit, Entries, Deliveries
<1>3. InOrder
  BY DEF BusInit, InOrder, OrderOf, Ordered, AllBefore, Published
<1>4. \A h \in Handlers : Recording(h) = {}
  BY DEF BusInit, Recording
<1>5. FewRecord
  BY <1>4, FS_EmptySet DEF FewRecord
<1>6. LossIsRecorded
  <2> SUFFICES ASSUME NEW h \in Handlers PROVE Lost(h) = 0 /\ Overflows(h) = 0
    BY DEF LossIsRecorded
  <2>1. Cardinality(Recording(h)) = 0
    BY <1>4, FS_EmptySet
  <2> QED
    BY <2>1 DEF BusInit, Lost, Overflows
<1> QED
  BY <1>1, <1>2, <1>3, <1>5, <1>6 DEF BusInv

\* A delivery that is decided keeps the types of what it changes.
LEMMA DecidedType ==
  ASSUME TypeOK, NEW p \in Publishers, NEW h \in Handlers, Delivered(p, h) \/ Overflowed(p, h)
  PROVE  /\ at' \in [Publishers -> {"idle", "send", "evict", "resend", "record"}]
         /\ todo' \in [Publishers -> SUBSET Handlers]
         /\ target' \in [Publishers -> Handlers \union {NoEntry}]
         /\ offered' \in [Handlers -> Nat] /\ sent' = sent
<1>1. Decided(p, h)
  BY DEF Delivered, Overflowed
<1>2. /\ at' \in [Publishers -> {"idle", "send", "evict", "resend", "record"}]
      /\ target' \in [Publishers -> Handlers \union {NoEntry}]
  BY DEF TypeOK, Delivered, Overflowed
<1>3. todo' \in [Publishers -> SUBSET Handlers] /\ sent' = sent
  BY <1>1 DEF TypeOK, Decided
<1>4. offered' \in [Handlers -> Nat]
  <2>1. offered \in [Handlers -> Nat] /\ offered' = [offered EXCEPT ![h] = @ + 1]
    BY <1>1 DEF TypeOK, Decided, Inc
  <2> QED
    BY <2>1
<1> QED
  BY <1>2, <1>3, <1>4

LEMMA EnqueueType ==
  ASSUME TypeOK, NEW p \in Publishers, NEW h \in Handlers, Enqueue(p, h),
         Len(queue[h]) < BufferSize, sent[p] # 0
  PROVE  /\ queue' \in [Handlers -> Seq(Events)]
         /\ \A k \in Handlers : Len(queue'[k]) <= BufferSize
<1>1. <<p, sent[p]>> \in Events
  BY DEF Events, TypeOK
<1>2. Append(queue[h], <<p, sent[p]>>) \in Seq(Events)
  BY <1>1 DEF TypeOK
<1>3. Len(Append(queue[h], <<p, sent[p]>>)) = Len(queue[h]) + 1
  BY DEF TypeOK
<1>4. /\ queue \in [Handlers -> Seq(Events)] /\ \A k \in Handlers : Len(queue[k]) <= BufferSize
      /\ Len(queue[h]) \in Nat /\ queue' = [queue EXCEPT ![h] = Append(@, <<p, sent[p]>>)]
  BY DEF Enqueue, TypeOK
<1>5. Len(queue'[h]) <= BufferSize
  BY <1>3, <1>4, DispatcherAssumption
<1> QED
  BY <1>2, <1>4, <1>5

\* A send on a queue with room, or one that ends in a drop, and the receipt.
LEMMA SendType ==
  ASSUME TypeOK, Deliveries, NEW p \in Publishers, NEW h \in Handlers, Send(p, h)
  PROVE  TypeOK'
<1>1. CASE Panic
  BY <1>1 DEF Panic, TypeOK, pubVars, entryVars, removeVars
<1>2. CASE Len(queue[h]) < BufferSize /\ Enqueue(p, h) /\ Delivered(p, h)
           /\ UNCHANGED <<policy, handlers, closed, chan, runner, handled, dropped,
                          removeVars, cancelled, panicked>>
  <2>1. sent[p] # 0
    BY DEF Send, Deliveries
  <2> QED
    BY <1>2, <2>1, DecidedType, EnqueueType DEF TypeOK, removeVars
<1>3. CASE Overflowed(p, h)
           /\ UNCHANGED <<policy, handlers, closed, chan, queue, runner, handled, dropped,
                          removeVars, cancelled, panicked>>
  BY <1>3, DecidedType DEF TypeOK, removeVars
<1>4. CASE /\ at' = [at EXCEPT ![p] = "evict"] /\ target' = [target EXCEPT ![p] = h]
           /\ UNCHANGED <<policy, handlers, closed, sent, todo, entryVars, removeVars,
                          cancelled, panicked>>
  BY <1>4 DEF TypeOK, entryVars, removeVars
<1> QED
  BY <1>1, <1>2, <1>3, <1>4 DEF Send

LEMMA ResendType ==
  ASSUME TypeOK, Deliveries, NEW p \in Publishers, Resend(p)
  PROVE  TypeOK'
<1>1. CASE Panic
  BY <1>1 DEF Panic, TypeOK, pubVars, entryVars, removeVars
<1>2. sent[p] # 0 /\ target[p] \in Handlers
  BY DEF Resend, Deliveries, TypeOK
<1>3. CASE ~Panic
  <2>1. /\ Overflowed(p, target[p])
        /\ queue' = queue \/ (Len(queue[target[p]]) < BufferSize /\ Enqueue(p, target[p]))
        /\ UNCHANGED <<policy, handlers, closed, chan, runner, handled, dropped, removeVars,
                       cancelled, panicked>>
    BY <1>3 DEF Resend
  <2>2. /\ queue' \in [Handlers -> Seq(Events)]
        /\ \A k \in Handlers : Len(queue'[k]) <= BufferSize
    BY <1>2, <2>1, EnqueueType DEF TypeOK
  <2> QED
    BY <1>2, <2>1, <2>2, DecidedType DEF TypeOK, removeVars
<1> QED
  BY <1>1, <1>3

LEMMA RecordType ==
  ASSUME TypeOK, Deliveries, NEW p \in Publishers, Record(p)
  PROVE  TypeOK'
<1>1. target[p] \in Handlers
  BY DEF Record, Deliveries
<1>2. dropped' \in [Handlers -> Nat]
  BY <1>1 DEF Record, TypeOK, Inc
<1>3. /\ at' \in [Publishers -> {"idle", "send", "evict", "resend", "record"}]
      /\ target' \in [Publishers -> Handlers \union {NoEntry}]
  BY DEF Record, TypeOK
<1> QED
  BY <1>2, <1>3 DEF Record, TypeOK, removeVars

LEMMA EvictType ==
  ASSUME TypeOK, Deliveries, NEW p \in Publishers, Evict(p)
  PROVE  TypeOK'
<1>1. target[p] \in Handlers
  BY DEF Evict, Deliveries, TypeOK
<1>2. /\ queue' \in [Handlers -> Seq(Events)]
      /\ \A h \in Handlers : Len(queue'[h]) <= BufferSize
  <2>1. LET s == queue[target[p]]
            t == IF s = <<>> THEN s ELSE Tail(s)
        IN  t \in Seq(Events) /\ Len(t) <= BufferSize
    BY <1>1, DispatcherAssumption DEF TypeOK
  <2> QED
    BY <2>1 DEF Evict, TypeOK
<1> QED
  BY <1>2 DEF Evict, TypeOK, removeVars

LEMMA ReceiveType ==
  ASSUME TypeOK, NEW h \in Handlers, Receive(h)
  PROVE  TypeOK'
<1>1. /\ queue' \in [Handlers -> Seq(Events)] /\ handled' \in [Handlers -> Seq(Events)]
      /\ \A k \in Handlers : Len(queue'[k]) <= BufferSize
  <2>1. /\ Head(queue[h]) \in Events /\ Tail(queue[h]) \in Seq(Events)
        /\ Len(Tail(queue[h])) <= BufferSize
    BY DispatcherAssumption DEF TypeOK, Receive
  <2> QED
    BY <2>1 DEF TypeOK, Receive
<1> QED
  BY <1>1 DEF Receive, TypeOK, pubVars, removeVars

\* The other steps.
LEMMA TypeStep == TypeOK /\ Deliveries /\ [BusNext]_busVars => TypeOK'
<1> SUFFICES ASSUME TypeOK, Deliveries, [BusNext]_busVars PROVE TypeOK'
  OBVIOUS
<1>1. ASSUME NEW h \in Handlers, Subscribe(h) PROVE TypeOK'
  BY <1>1 DEF Subscribe, TypeOK, pubVars, removeVars
<1>2. ASSUME NEW p \in Publishers, Publish(p) PROVE TypeOK'
  <2>1. sent' \in [Publishers -> 0 .. MaxEvents]
    <3>1. /\ sent \in [Publishers -> 0 .. MaxEvents] /\ sent[p] < MaxEvents
          /\ sent' = [sent EXCEPT ![p] = @ + 1]
      BY <1>2 DEF Publish, TypeOK, Inc
    <3> QED
      BY <3>1, DispatcherAssumption
  <2>2. /\ todo' \in [Publishers -> SUBSET Handlers]
        /\ at' \in [Publishers -> {"idle", "send", "evict", "resend", "record"}]
    BY <1>2 DEF Publish, TypeOK
  <2> QED
    BY <1>2, <2>1, <2>2 DEF Publish, TypeOK, entryVars, removeVars
<1>3. ASSUME NEW h \in Handlers, HandleReturns(h) \/ RunnerExits(h) PROVE TypeOK'
  BY <1>3 DEF HandleReturns, RunnerExits, TypeOK, pubVars, removeVars
<1>4. ASSUME NEW h \in Handlers, RemoveUnlink(h) \/ RemoveReturns(h) PROVE TypeOK'
  <2>1. /\ removal' \in [Handlers -> {"no", "unlinked", "waiting", "done"}]
        /\ handlers' \subseteq Handlers
        /\ UNCHANGED <<policy, closed, pubVars, entryVars, toClose, closeAt, cancelled, panicked>>
    BY <1>4 DEF RemoveUnlink, RemoveReturns, TypeOK
  <2> QED
    BY <2>1 DEF TypeOK, pubVars, entryVars
<1>5. ASSUME NEW h \in Handlers, RemoveClose(h) PROVE TypeOK'
  <2>1. CASE Panic
    BY <2>1 DEF Panic, TypeOK, pubVars, entryVars, removeVars
  <2>2. CASE ~Panic
    <3>1. /\ chan' = [chan EXCEPT ![h] = "closed"] /\ removal' = [removal EXCEPT ![h] = "waiting"]
          /\ UNCHANGED <<queue, runner, handled, dropped, offered, policy, handlers, closed,
                         pubVars, toClose, closeAt, cancelled, panicked>>
      BY <1>5, <2>2 DEF RemoveClose, CloseQueue
    <3> QED
      BY <3>1 DEF TypeOK, pubVars
  <2> QED
    BY <2>1, <2>2
<1>6. CASE CloseBegin \/ CloseNext \/ Cancel
  BY <1>6 DEF CloseBegin, CloseNext, Cancel, TypeOK, pubVars, entryVars, removeVars
<1>7. ASSUME NEW h \in Handlers, CloseEntry(h) PROVE TypeOK'
  <2>1. CASE Panic
    BY <2>1 DEF Panic, TypeOK, pubVars, entryVars, removeVars
  <2>2. CASE ~Panic
    <3>1. /\ chan' = [chan EXCEPT ![h] = "closed"] /\ closeAt' = h
          /\ UNCHANGED <<policy, handlers, closed, pubVars, toClose, queue, runner, handled, dropped,
                         offered, removal, cancelled, panicked>>
      BY <1>7, <2>2 DEF CloseEntry, CloseQueue
    <3> QED
      BY <3>1 DEF TypeOK, pubVars
  <2> QED
    BY <2>1, <2>2
<1>8. CASE UNCHANGED busVars
  BY <1>8 DEF busVars, TypeOK, pubVars, entryVars, removeVars
<1> QED
  BY <1>1, <1>2, <1>3, <1>4, <1>5, <1>6, <1>7, <1>8, SendType, ResendType, RecordType, EvictType,
     ReceiveType
     DEF BusNext, PublisherStep, RunnerStep, RemoveStep, CloseStep

-----------------------------------------------------------------------------
(* Order.                                                                   *)

LEMMA AppendOrdered ==
  ASSUME NEW s \in Seq(Events), NEW e \in Events, Ordered(s),
         \A i \in 1 .. Len(s) : Before(s[i], e)
  PROVE  Ordered(Append(s, e))
<1>1. /\ Len(Append(s, e)) = Len(s) + 1 /\ Append(s, e)[Len(s) + 1] = e
      /\ \A i \in 1 .. Len(s) : Append(s, e)[i] = s[i]
  OBVIOUS
<1>2. ASSUME NEW i \in 1 .. Len(s) + 1, NEW j \in 1 .. Len(s) + 1, i < j
      PROVE  Before(Append(s, e)[i], Append(s, e)[j])
  <2>1. i \in 1 .. Len(s) /\ (j \in 1 .. Len(s) \/ j = Len(s) + 1)
    BY <1>2
  <2> QED
    BY <1>1, <1>2, <2>1 DEF Ordered
<1> QED
  BY <1>1, <1>2 DEF Ordered

LEMMA ConcatOrdered ==
  ASSUME NEW s \in Seq(Events), NEW t \in Seq(Events), Ordered(s), Ordered(t), AllBefore(s, t)
  PROVE  \A i, j \in DOMAIN (s \o t) : i < j => Before((s \o t)[i], (s \o t)[j])
<1> DEFINE st == s \o t
<1>1. /\ Len(s) \in Nat /\ Len(t) \in Nat /\ DOMAIN st = 1 .. Len(s) + Len(t)
      /\ \A k \in 1 .. Len(s) + Len(t) : st[k] = IF k <= Len(s) THEN s[k] ELSE t[k - Len(s)]
  BY ConcatProperties
<1> HIDE DEF st
<1> SUFFICES ASSUME NEW i \in DOMAIN st, NEW j \in DOMAIN st, i < j
             PROVE  Before(st[i], st[j])
  BY DEF st
<1>2. /\ i \in 1 .. Len(s) + Len(t) /\ j \in 1 .. Len(s) + Len(t)
      /\ st[i] = IF i <= Len(s) THEN s[i] ELSE t[i - Len(s)]
      /\ st[j] = IF j <= Len(s) THEN s[j] ELSE t[j - Len(s)]
  BY <1>1
<1>3. CASE j <= Len(s)
  BY <1>1, <1>2, <1>3 DEF Ordered
<1>4. CASE i <= Len(s) /\ j > Len(s)
  BY <1>1, <1>2, <1>4 DEF AllBefore
<1>5. CASE i > Len(s)
  <2>1. i - Len(s) \in 1 .. Len(t) /\ j - Len(s) \in 1 .. Len(t) /\ i - Len(s) < j - Len(s)
    BY <1>1, <1>2, <1>5
  <2> QED
    BY <1>1, <1>2, <1>5, <2>1 DEF Ordered
<1> QED
  BY <1>1, <1>2, <1>3, <1>4, <1>5

\* What is received or evicted is the oldest of a queue.
LEMMA TailOrdered ==
  ASSUME NEW s \in Seq(Events), s # <<>>, Ordered(s)
  PROVE  Ordered(Tail(s)) /\ \A i \in 1 .. Len(Tail(s)) : Before(Head(s), Tail(s)[i])
<1>1. /\ Len(Tail(s)) = Len(s) - 1 /\ Head(s) = s[1] /\ Len(s) \in Nat /\ Len(s) >= 1
      /\ \A i \in 1 .. Len(Tail(s)) : Tail(s)[i] = s[i + 1]
  OBVIOUS
<1> QED
  BY <1>1 DEF Ordered

\* A step that publishes nothing and only ends deliveries.
LEMMA PublishedStays ==
  ASSUME sent' = sent, NEW h, NEW s \in Seq(Events), Published(s, h),
         \A p \in Publishers : Delivering(p, h)' => Delivering(p, h)
  PROVE  \A i \in 1 .. Len(s), p \in Publishers : s[i][1] = p =>
           s[i][2] <= sent'[p] /\ (Delivering(p, h)' => s[i][2] < sent'[p])
BY DEF Published

LEMMA OrderStays ==
  ASSUME TypeOK, NEW h \in Handlers, OrderOf(h), sent' = sent,
         queue'[h] = queue[h], handled'[h] = handled[h],
         \A p \in Publishers : Delivering(p, h)' => Delivering(p, h)
  PROVE  OrderOf(h)'
<1>1. handled[h] \in Seq(Events) /\ queue[h] \in Seq(Events)
  BY DEF TypeOK
<1>2. Published(handled[h], h)' /\ Published(queue[h], h)'
  BY <1>1, PublishedStays DEF Published, OrderOf
<1> QED
  BY <1>2 DEF OrderOf, Ordered, AllBefore

\* What becomes of p's event at h is decided: nobody else's deliveries change.
LEMMA DecidedFacts ==
  ASSUME TypeOK, NEW p \in Publishers, NEW h \in Handlers, Delivering(p, h),
         Delivered(p, h) \/ Overflowed(p, h)
  PROVE  /\ sent' = sent /\ ~Delivering(p, h)'
         /\ \A q \in Publishers, k \in Handlers : Delivering(q, k)' => Delivering(q, k)
<1>1. todo' = [todo EXCEPT ![p] = @ \ {h}] /\ sent' = sent
  BY DEF Delivered, Overflowed, Decided
<1>2. h \notin todo'[p] /\ \A k \in Handlers : k \in todo'[p] => k \in todo[p] /\ k # h
  BY <1>1 DEF TypeOK
<1>3. \A q \in Publishers \ {p} : at'[q] = at[q] /\ todo'[q] = todo[q]
  BY <1>1 DEF TypeOK, Delivered, Overflowed
<1> QED
  BY <1>1, <1>2, <1>3 DEF Delivering

LEMMA EnqueueKeepsOrder ==
  ASSUME TypeOK, InOrder, NEW p \in Publishers, NEW h \in Handlers,
         Delivering(p, h), sent[p] # 0, Enqueue(p, h), handled' = handled,
         Delivered(p, h) \/ Overflowed(p, h)
  PROVE  InOrder'
<1> DEFINE e == <<p, sent[p]>>
<1>1. ASSUME NEW k \in Handlers, k # h PROVE OrderOf(k)'
  <2>1. queue'[k] = queue[k]
    BY <1>1 DEF Enqueue, TypeOK
  <2> QED
    BY <1>1, <2>1, DecidedFacts, OrderStays DEF InOrder
<1>2. /\ queue[h] \in Seq(Events) /\ handled[h] \in Seq(Events) /\ e \in Events
      /\ queue'[h] = Append(queue[h], e) /\ OrderOf(h)
  BY DEF Enqueue, TypeOK, InOrder, Events
<1>3. /\ \A i \in 1 .. Len(queue[h]) : Before(queue[h][i], e)
      /\ \A i \in 1 .. Len(handled[h]) : Before(handled[h][i], e)
  BY <1>2 DEF OrderOf, Published, Before
<1>4. Ordered(queue[h])'
  BY <1>2, <1>3, AppendOrdered DEF OrderOf, Ordered
<1>5. /\ Len(queue'[h]) = Len(queue[h]) + 1 /\ queue'[h][Len(queue[h]) + 1] = e
      /\ \A j \in 1 .. Len(queue[h]) : queue'[h][j] = queue[h][j]
      /\ \A j \in 1 .. Len(queue'[h]) : j \in 1 .. Len(queue[h]) \/ j = Len(queue[h]) + 1
  BY <1>2
<1>6. AllBefore(handled[h], queue[h])'
  BY <1>2, <1>3, <1>5 DEF AllBefore, OrderOf
<1>7. Published(handled[h], h)'
  BY <1>2, PublishedStays, DecidedFacts DEF OrderOf, Published
<1>8. Published(queue[h], h)'
  <2>1. \A i \in 1 .. Len(queue[h]), q \in Publishers : queue[h][i][1] = q =>
          queue[h][i][2] <= sent'[q] /\ (Delivering(q, h)' => queue[h][i][2] < sent'[q])
    BY <1>2, PublishedStays, DecidedFacts DEF OrderOf
  <2>2. e[1] = p /\ e[2] <= sent'[p] /\ ~Delivering(p, h)'
    BY DecidedFacts DEF TypeOK
  <2> QED
    BY <1>5, <2>1, <2>2 DEF Published
<1>9. OrderOf(h)'
  BY <1>2, <1>4, <1>6, <1>7, <1>8 DEF OrderOf, Ordered
<1> QED
  BY <1>1, <1>9 DEF InOrder

\* The oldest event is taken out of the queue, and perhaps handled.
LEMMA TakenKeepsOrder ==
  ASSUME TypeOK, InOrder, NEW h \in Handlers, queue[h] # <<>>,
         queue' = [queue EXCEPT ![h] = Tail(@)],
         \/ handled' = handled
         \/ handled' = [handled EXCEPT ![h] = Append(@, Head(queue[h]))],
         sent' = sent,
         \A p \in Publishers, k \in Handlers : Delivering(p, k)' => Delivering(p, k)
  PROVE  InOrder'
<1>1. ASSUME NEW k \in Handlers, k # h PROVE OrderOf(k)'
  <2>1. queue'[k] = queue[k] /\ handled'[k] = handled[k]
    BY <1>1 DEF TypeOK
  <2> QED
    BY <1>1, <2>1, OrderStays DEF InOrder
<1> DEFINE e == Head(queue[h])
           s == handled[h]
           t == Tail(queue[h])
<1>2. /\ queue[h] \in Seq(Events) /\ s \in Seq(Events) /\ t \in Seq(Events) /\ e \in Events
      /\ queue'[h] = t /\ e = queue[h][1] /\ 1 \in 1 .. Len(queue[h])
      /\ \A i \in 1 .. Len(t) : i + 1 \in 1 .. Len(queue[h]) /\ t[i] = queue[h][i + 1]
      /\ OrderOf(h)
  BY DEF TypeOK, InOrder
<1>3. Ordered(t) /\ \A i \in 1 .. Len(t) : Before(e, t[i])
  BY <1>2, TailOrdered DEF OrderOf
<1>4. AllBefore(s, t) /\ \A i \in 1 .. Len(s) : Before(s[i], e)
  BY <1>2 DEF OrderOf, AllBefore
<1>5. /\ Published(t, h) /\ Published(s, h)
      /\ \A p \in Publishers : e[1] = p => e[2] <= sent[p] /\ (Delivering(p, h) => e[2] < sent[p])
  BY <1>2 DEF OrderOf, Published
<1>6. /\ \A i \in 1 .. Len(t), p \in Publishers : t[i][1] = p =>
           t[i][2] <= sent'[p] /\ (Delivering(p, h)' => t[i][2] < sent'[p])
      /\ \A i \in 1 .. Len(s), p \in Publishers : s[i][1] = p =>
           s[i][2] <= sent'[p] /\ (Delivering(p, h)' => s[i][2] < sent'[p])
  BY <1>2, <1>5, PublishedStays
<1>7. Published(queue[h], h)'
  BY <1>2, <1>6 DEF Published
<1>8. CASE handled' = handled
  <2>1. Published(handled[h], h)'
    BY <1>6, <1>8 DEF Published
  <2>2. Ordered(queue[h])' /\ Ordered(handled[h])' /\ AllBefore(handled[h], queue[h])'
    BY <1>2, <1>3, <1>4, <1>8 DEF OrderOf, Ordered, AllBefore
  <2>3. OrderOf(h)'
    BY <1>7, <2>1, <2>2 DEF OrderOf
  <2> QED
    BY <1>1, <2>3 DEF InOrder
<1>9. CASE handled' = [handled EXCEPT ![h] = Append(@, Head(queue[h]))]
  <2>1. /\ handled'[h] = Append(s, e) /\ Len(handled'[h]) = Len(s) + 1
        /\ handled'[h][Len(s) + 1] = e
        /\ \A i \in 1 .. Len(s) : handled'[h][i] = s[i]
        /\ \A i \in 1 .. Len(handled'[h]) : i \in 1 .. Len(s) \/ i = Len(s) + 1
    <3>1. handled'[h] = Append(s, e)
      BY <1>9 DEF TypeOK
    <3> HIDE DEF s, e
    <3> QED
      BY <1>2, <3>1
  <2>2. Ordered(handled[h])'
    BY <1>2, <1>4, <2>1, AppendOrdered DEF OrderOf, Ordered
  <2>3. AllBefore(handled[h], queue[h])'
    BY <1>2, <1>3, <1>4, <2>1 DEF AllBefore
  <2>4. Published(handled[h], h)'
    <3>1. \A p \in Publishers : e[1] = p => e[2] <= sent'[p] /\ (Delivering(p, h)' => e[2] < sent'[p])
      BY <1>5
    <3> QED
      BY <1>6, <2>1, <3>1 DEF Published
  <2>5. Ordered(queue[h])'
    BY <1>2, <1>3 DEF Ordered
  <2>6. OrderOf(h)'
    BY <1>7, <2>2, <2>3, <2>4, <2>5 DEF OrderOf
  <2> QED
    BY <1>1, <2>6 DEF InOrder
<1> QED
  BY <1>1, <1>8, <1>9 DEF InOrder

\* The next event of a scanner is younger than all it published.
LEMMA PublishKeepsOrder ==
  ASSUME TypeOK, InOrder, NEW p \in Publishers, Publish(p)
  PROVE  InOrder'
<1>1. /\ sent' = [sent EXCEPT ![p] = sent[p] + 1] /\ UNCHANGED <<queue, handled>>
      /\ \A q \in Publishers \ {p} : at'[q] = at[q] /\ todo'[q] = todo[q]
      /\ at[p] = "idle"
  BY DEF Publish, Inc, entryVars, TypeOK
<1>2. ASSUME NEW h \in Handlers, NEW s \in Seq(Events), Published(s, h), NEW i \in 1 .. Len(s),
             NEW q \in Publishers, s[i][1] = q
      PROVE  s[i][2] <= sent'[q] /\ (Delivering(q, h)' => s[i][2] < sent'[q])
  <2>1. s[i][2] \in Nat /\ sent[q] \in Nat /\ s[i][2] <= sent[q]
    <3>1. s[i] \in Publishers \X (1 .. MaxEvents) /\ sent[q] \in 0 .. MaxEvents
      BY DEF Events, TypeOK
    <3> QED
      BY <1>2, <3>1, DispatcherAssumption DEF Published
  <2>2. CASE q = p
    BY <1>1, <2>1, <2>2 DEF TypeOK
  <2>3. CASE q # p
    BY <1>1, <1>2, <2>1, <2>3 DEF Published, Delivering, TypeOK
  <2> QED
    BY <2>2, <2>3
<1>3. ASSUME NEW h \in Handlers PROVE OrderOf(h)'
  <2>1. queue[h] \in Seq(Events) /\ handled[h] \in Seq(Events) /\ OrderOf(h)
    BY DEF TypeOK, InOrder
  <2>2. Published(handled[h], h)' /\ Published(queue[h], h)'
    BY <1>1, <1>2, <2>1 DEF Published, OrderOf
  <2> QED
    BY <1>1, <2>1, <2>2 DEF OrderOf, Ordered, AllBefore
<1> QED
  BY <1>3 DEF InOrder

\* Every step keeps the order.
LEMMA OrderStep ==
  ASSUME TypeOK, Deliveries, InOrder, [BusNext]_busVars
  PROVE  InOrder'
<1>1. ASSUME UNCHANGED <<queue, handled, sent, at, todo>> PROVE InOrder'
  BY <1>1, OrderStays DEF InOrder, Delivering
<1>2. ASSUME NEW p \in Publishers, NEW h \in Handlers, Send(p, h) PROVE InOrder'
  <2>1. Delivering(p, h) /\ sent[p] # 0
    BY <1>2 DEF Send, Delivering, Deliveries
  <2>2. CASE Enqueue(p, h) /\ Delivered(p, h) /\ handled' = handled
    BY <2>1, <2>2, EnqueueKeepsOrder
  <2>3. CASE Overflowed(p, h) /\ UNCHANGED <<queue, handled>>
    BY <2>1, <2>3, DecidedFacts, OrderStays DEF InOrder
  <2>4. CASE at' = [at EXCEPT ![p] = "evict"] /\ UNCHANGED <<queue, handled, sent, todo>>
    <3>1. \A q \in Publishers, k \in Handlers : Delivering(q, k)' => Delivering(q, k)
      BY <2>1, <2>4 DEF Delivering, TypeOK
    <3> QED
      BY <2>4, <3>1, OrderStays DEF InOrder
  <2> QED
    BY <1>1, <1>2, <2>2, <2>3, <2>4 DEF Send, Panic, pubVars, entryVars
<1>3. ASSUME NEW p \in Publishers, Resend(p) PROVE InOrder'
  <2>1. target[p] \in Handlers /\ Delivering(p, target[p]) /\ sent[p] # 0
    BY <1>3 DEF Resend, Delivering, Deliveries, TypeOK
  <2>2. CASE Enqueue(p, target[p]) /\ Overflowed(p, target[p]) /\ handled' = handled
    BY <2>1, <2>2, EnqueueKeepsOrder
  <2>3. CASE Overflowed(p, target[p]) /\ UNCHANGED <<queue, handled>>
    BY <2>1, <2>3, DecidedFacts, OrderStays DEF InOrder
  <2> QED
    BY <1>1, <1>3, <2>2, <2>3 DEF Resend, Panic, pubVars, entryVars
<1>4. ASSUME NEW p \in Publishers, Evict(p) PROVE InOrder'
  <2>1. /\ target[p] \in Handlers /\ UNCHANGED <<handled, sent, todo>>
        /\ \A q \in Publishers, k \in Handlers : Delivering(q, k)' => Delivering(q, k)
    BY <1>4 DEF Evict, Delivering, Deliveries, TypeOK
  <2>2. CASE queue[target[p]] = <<>>
    <3>1. queue' = queue
      BY <1>4, <2>1, <2>2 DEF Evict, TypeOK
    <3> QED
      BY <2>1, <3>1, OrderStays DEF InOrder
  <2>3. CASE queue[target[p]] # <<>>
    <3>1. queue' = [queue EXCEPT ![target[p]] = Tail(@)]
      BY <1>4, <2>3 DEF Evict
    <3> QED
      BY <2>1, <2>3, <3>1, TakenKeepsOrder
  <2> QED
    BY <2>2, <2>3
<1>5. ASSUME NEW h \in Handlers, Receive(h) PROVE InOrder'
  BY <1>5, TakenKeepsOrder DEF Receive, pubVars, Delivering
<1>8. ASSUME NEW p \in Publishers, Record(p) PROVE InOrder'
  <2>1. \A q \in Publishers, k \in Handlers : Delivering(q, k)' => Delivering(q, k)
    BY <1>8 DEF Record, Delivering, TypeOK
  <2> QED
    BY <1>8, <2>1, OrderStays DEF Record, InOrder
<1>6. ASSUME NEW h \in Handlers, Subscribe(h) \/ HandleReturns(h) \/ RunnerExits(h) \/ RemoveStep(h)
                                 \/ CloseEntry(h)
      PROVE  InOrder'
  BY <1>1, <1>6 DEF Subscribe, HandleReturns, RunnerExits, RemoveStep, RemoveUnlink, RemoveClose,
     RemoveReturns, CloseEntry, CloseQueue, Panic, pubVars, entryVars
<1>7. CASE CloseBegin \/ CloseNext \/ Cancel \/ UNCHANGED busVars
  BY <1>1, <1>7 DEF CloseBegin, CloseNext, Cancel, busVars, pubVars, entryVars
<1> QED
  BY <1>2, <1>3, <1>4, <1>5, <1>6, <1>7, <1>8, PublishKeepsOrder
     DEF BusNext, PublisherStep, RunnerStep, CloseStep

-----------------------------------------------------------------------------
(* What is lost is recorded.                                                *)

LossOf(h) ==
  IF DropNewest THEN Lost(h) = Overflows(h)
  ELSE Lost(h) <= 2 * Overflows(h) + (IF MakingRoom(h) THEN 1 ELSE 0)

\* Who records an overflow of h: nobody, one more, or one less than before.
LEMMA RecordingStays ==
  ASSUME NEW h \in Handlers,
         \A q \in Publishers : \/ at'[q] = at[q] /\ target'[q] = target[q]
                               \/ at[q] # "record" /\ at'[q] # "record"
                               \/ target[q] # h /\ target'[q] # h
                               \/ target[q] # h /\ at'[q] # "record"
                               \/ at[q] # "record" /\ target'[q] # h
  PROVE  Recording(h)' = Recording(h)
BY DEF Recording

LEMMA RecordingGrows ==
  ASSUME TypeOK, FewRecord, NEW p \in Publishers, NEW h \in Handlers, at[p] # "record",
         Overflowed(p, h)
  PROVE  /\ Recording(h)' = Recording(h) \union {p} /\ p \notin Recording(h)
         /\ \A k \in Handlers \ {h} : Recording(k)' = Recording(k)
<1>1. /\ at'[p] = "record" /\ target'[p] = h
      /\ \A q \in Publishers \ {p} : at'[q] = at[q] /\ target'[q] = target[q]
  BY DEF Overflowed, TypeOK
<1>2. \A k \in Handlers \ {h} : Recording(k)' = Recording(k)
  BY <1>1, RecordingStays
<1> QED
  BY <1>1, <1>2 DEF Recording

LEMMA RecordingShrinks ==
  ASSUME TypeOK, NEW p \in Publishers, NEW h \in Handlers, h = target[p], Record(p)
  PROVE  /\ Recording(h)' = Recording(h) \ {p} /\ p \in Recording(h)
         /\ \A k \in Handlers \ {h} : Recording(k)' = Recording(k)
<1>1. /\ at[p] = "record" /\ at'[p] # "record"
      /\ \A q \in Publishers \ {p} : at'[q] = at[q] /\ target'[q] = target[q]
  BY DEF Record, TypeOK
<1>2. \A k \in Handlers \ {h} : Recording(k)' = Recording(k)
  BY <1>1, RecordingStays
<1> QED
  BY <1>1, <1>2 DEF Recording

\* A publisher that neither comes to recordDrop nor leaves it.
LEMMA NotRecording ==
  ASSUME TypeOK, Deliveries, [BusNext]_busVars,
         ~ \E p \in Publishers : \/ Record(p)
                                 \/ \E h \in Handlers : at[p] # "record" /\ Overflowed(p, h)
  PROVE  \A h \in Handlers : Recording(h)' = Recording(h)
<1>1. ASSUME UNCHANGED <<at, target>> PROVE \A h \in Handlers : Recording(h)' = Recording(h)
  BY <1>1 DEF Recording
<1>2. ASSUME NEW p \in Publishers, at[p] # "record", at'[p] # "record",
             \A q \in Publishers \ {p} : at'[q] = at[q] /\ target'[q] = target[q]
      PROVE  \A h \in Handlers : Recording(h)' = Recording(h)
  BY <1>2, RecordingStays
<1>3. ASSUME NEW p \in Publishers, Publish(p) \/ Evict(p)
      PROVE  \A h \in Handlers : Recording(h)' = Recording(h)
  <2>1. /\ at[p] # "record" /\ at'[p] # "record"
        /\ \A q \in Publishers \ {p} : at'[q] = at[q] /\ target'[q] = target[q]
    BY <1>3 DEF Publish, Evict, TypeOK
  <2> QED
    BY <1>2, <2>1
<1>4. ASSUME NEW p \in Publishers, NEW h \in Handlers, Send(p, h)
      PROVE  \A k \in Handlers : Recording(k)' = Recording(k)
  <2>1. at[p] # "record"
    BY <1>4 DEF Send
  <2>2. CASE Delivered(p, h) \/ (at' = [at EXCEPT ![p] = "evict"]
                                 /\ target' = [target EXCEPT ![p] = h])
    <3>1. /\ at'[p] # "record"
          /\ \A q \in Publishers \ {p} : at'[q] = at[q] /\ target'[q] = target[q]
      BY <2>2 DEF Delivered, TypeOK
    <3> QED
      BY <1>2, <2>1, <3>1
  <2> QED
    BY <1>1, <1>4, <2>1, <2>2 DEF Send, Panic, pubVars
<1>5. ASSUME NEW p \in Publishers, Resend(p)
      PROVE  \A k \in Handlers : Recording(k)' = Recording(k)
  <2>1. at[p] # "record" /\ target[p] \in Handlers
    BY <1>5 DEF Resend, Deliveries, TypeOK
  <2> QED
    BY <1>1, <1>5, <2>1 DEF Resend, Panic, pubVars
<1>6. ASSUME NEW h \in Handlers, Subscribe(h) \/ RunnerStep(h) \/ RemoveStep(h) \/ CloseEntry(h)
      PROVE  UNCHANGED <<at, target>>
  BY <1>6 DEF Subscribe, RunnerStep, Receive, HandleReturns, RunnerExits, RemoveStep, RemoveUnlink,
     RemoveClose, RemoveReturns, CloseEntry, CloseQueue, Panic, pubVars
<1>7. CASE CloseBegin \/ CloseNext \/ Cancel \/ UNCHANGED busVars
  BY <1>1, <1>7 DEF CloseBegin, CloseNext, Cancel, busVars, pubVars
<1> QED
  BY <1>1, <1>3, <1>4, <1>5, <1>6, <1>7 DEF BusNext, PublisherStep, CloseStep

\* Finitely many publishers are between an overflow and its count.
LEMMA RecordingStep ==
  ASSUME TypeOK, Deliveries, FewRecord, [BusNext]_busVars
  PROVE  FewRecord'
<1>1. CASE \E p \in Publishers : \E h \in Handlers : at[p] # "record" /\ Overflowed(p, h)
  <2>1. PICK p \in Publishers, h \in Handlers : at[p] # "record" /\ Overflowed(p, h)
    BY <1>1
  <2> QED
    BY <2>1, RecordingGrows, FS_AddElement DEF FewRecord
<1>2. CASE \E p \in Publishers : Record(p)
  <2>1. PICK p \in Publishers : Record(p)
    BY <1>2
  <2>2. PICK h \in Handlers : h = target[p]
    BY <2>1 DEF Record, Deliveries
  <2>3. /\ Recording(h)' = Recording(h) \ {p}
        /\ \A k \in Handlers \ {h} : Recording(k)' = Recording(k)
    BY <2>1, <2>2, RecordingShrinks
  <2> QED
    BY <2>3, FS_RemoveElement DEF FewRecord
<1>3. CASE ~ \E p \in Publishers : \/ Record(p)
                                   \/ \E h \in Handlers : at[p] # "record" /\ Overflowed(p, h)
  BY <1>3, NotRecording DEF FewRecord
<1> QED
  BY <1>1, <1>2, <1>3

LEMMA LossTypes ==
  ASSUME TypeOK, FewRecord, NEW h \in Handlers
  PROVE  /\ Overflows(h) \in Nat /\ Lost(h) \in Int /\ dropped[h] \in Nat /\ offered[h] \in Nat
         /\ Len(queue[h]) \in Nat /\ Len(handled[h]) \in Nat
<1>1. Cardinality(Recording(h)) \in Nat
  BY FS_CardinalityType DEF FewRecord
<1> QED
  BY <1>1 DEF TypeOK, Overflows, Lost

\* The account of an entry a step leaves alone, or from which it takes one
\* event that is handled next.
LEMMA LossStays ==
  ASSUME TypeOK, FewRecord, NEW h \in Handlers, LossOf(h), policy' = policy,
         Lost(h)' = Lost(h), dropped'[h] = dropped[h], Recording(h)' = Recording(h),
         MakingRoom(h) => MakingRoom(h)'
  PROVE  LossOf(h)'
<1>1. Overflows(h)' = Overflows(h)
  BY DEF Overflows
<1> QED
  BY <1>1, LossTypes DEF LossOf, DropNewest

\* The queue of h overflowed: one event is lost, or none if an evicted one
\* made room for it.
LEMMA LossOnOverflow ==
  ASSUME TypeOK, FewRecord, LossIsRecorded, NEW p \in Publishers, NEW h \in Handlers,
         at[p] \in {"send", "resend"}, at[p] = "resend" => target[p] = h,
         Overflowed(p, h), UNCHANGED <<policy, handled, dropped>>,
         \/ UNCHANGED queue
         \/ ~DropNewest /\ Enqueue(p, h),
         at[p] = "send" => DropNewest
  PROVE  LossIsRecorded'
<1>1. offered' = [offered EXCEPT ![h] = @ + 1]
  BY DEF Overflowed, Decided, Inc
<1>2. ASSUME NEW k \in Handlers, k # h PROVE LossOf(k)'
  <2>1. offered'[k] = offered[k] /\ queue'[k] = queue[k] /\ handled'[k] = handled[k]
    BY <1>1, <1>2 DEF Enqueue, TypeOK
  <2>2. Lost(k)' = Lost(k) /\ dropped'[k] = dropped[k]
    BY <2>1 DEF Lost
  <2>3. MakingRoom(k) => MakingRoom(k)'
    BY <1>2 DEF Overflowed, MakingRoom, TypeOK
  <2>4. Recording(k)' = Recording(k) /\ LossOf(k)
    BY <1>2, RecordingGrows DEF LossIsRecorded, LossOf
  <2> QED
    BY <2>2, <2>3, <2>4, LossStays
<1>3. Overflows(h)' = Overflows(h) + 1
  <2>1. /\ IsFiniteSet(Recording(h)) /\ p \notin Recording(h)
        /\ Recording(h)' = Recording(h) \union {p}
    BY RecordingGrows DEF FewRecord
  <2>2. /\ Cardinality(Recording(h))' = Cardinality(Recording(h)) + 1
        /\ Cardinality(Recording(h)) \in Nat
    BY <2>1, FS_AddElement, FS_CardinalityType
  <2>3. dropped'[h] = dropped[h] /\ dropped[h] \in Nat
    BY DEF TypeOK
  <2> QED
    BY <2>2, <2>3 DEF Overflows
<1>4. LossOf(h) /\ Overflows(h) \in Nat /\ Lost(h) \in Int /\ offered'[h] = offered[h] + 1
  BY <1>1, LossTypes DEF LossIsRecorded, LossOf, TypeOK
<1>5. CASE UNCHANGED queue
  <2>1. Lost(h)' = Lost(h) + 1
    <3>1. PICK o \in Nat, a \in Nat, b \in Nat :
            o = offered[h] /\ a = Len(handled[h]) /\ b = Len(queue[h])
      BY LossTypes
    <3>2. offered'[h] = o + 1 /\ Len(handled'[h]) = a /\ Len(queue'[h]) = b
      BY <1>4, <1>5, <3>1
    <3>3. (o + 1) - a - b = (o - a - b) + 1
      OBVIOUS
    <3> QED
      BY <3>1, <3>2, <3>3, Zenon DEF Lost
  <2>2. LossOf(h)'
    BY <1>3, <1>4, <2>1 DEF LossOf, DropNewest
  <2> QED
    BY <1>2, <2>2 DEF LossIsRecorded, LossOf
<1>6. CASE ~DropNewest /\ Enqueue(p, h)
  <2>1. Len(queue'[h]) = Len(queue[h]) + 1
    BY <1>6 DEF Enqueue, TypeOK
  <2>2. Lost(h)' = Lost(h)
    <3>1. PICK o \in Nat, a \in Nat, b \in Nat :
            o = offered[h] /\ a = Len(handled[h]) /\ b = Len(queue[h])
      BY LossTypes
    <3>2. offered'[h] = o + 1 /\ Len(handled'[h]) = a /\ Len(queue'[h]) = b + 1
      BY <1>4, <2>1, <3>1
    <3>3. (o + 1) - a - (b + 1) = o - a - b
      OBVIOUS
    <3> QED
      BY <3>1, <3>2, <3>3, Zenon DEF Lost
  <2>3. LossOf(h)'
    BY <1>3, <1>4, <1>6, <2>2 DEF LossOf, DropNewest
  <2> QED
    BY <1>2, <2>3 DEF LossIsRecorded, LossOf
<1> QED
  BY <1>5, <1>6

\* A first send that finds room.
LEMMA LossOnDelivery ==
  ASSUME TypeOK, FewRecord, LossIsRecorded, NEW p \in Publishers, NEW h \in Handlers,
         at[p] = "send", Delivered(p, h), Enqueue(p, h), UNCHANGED <<policy, handled, dropped>>
  PROVE  LossIsRecorded'
<1>1. offered' = [offered EXCEPT ![h] = @ + 1]
  BY DEF Delivered, Decided, Inc
<1>2. ASSUME NEW k \in Handlers PROVE LossOf(k)'
  <2>1. Recording(k)' = Recording(k) /\ (MakingRoom(k) => MakingRoom(k)')
    <3>1. /\ at'[p] # "record"
          /\ \A q \in Publishers \ {p} : at'[q] = at[q] /\ target'[q] = target[q]
      BY DEF Delivered, TypeOK
    <3>2. Recording(k)' = Recording(k)
      BY <3>1, RecordingStays
    <3> QED
      BY <3>1, <3>2 DEF MakingRoom
  <2>2. CASE k = h
    <3>1. PICK o \in Nat, a \in Nat, b \in Nat :
            o = offered[h] /\ a = Len(handled[h]) /\ b = Len(queue[h])
      BY LossTypes
    <3>2. offered'[h] = o + 1 /\ Len(handled'[h]) = a /\ Len(queue'[h]) = b + 1
      BY <1>1, <3>1 DEF Enqueue, TypeOK
    <3>3. (o + 1) - a - (b + 1) = o - a - b
      OBVIOUS
    <3>4. Lost(h)' = Lost(h)
      BY <3>1, <3>2, <3>3, Zenon DEF Lost
    <3> QED
      BY <2>1, <2>2, <3>4, LossStays DEF LossIsRecorded, LossOf
  <2>3. CASE k # h
    <3>1. offered'[k] = offered[k] /\ queue'[k] = queue[k] /\ handled'[k] = handled[k]
      BY <1>1, <2>3 DEF Enqueue, TypeOK
    <3>2. Lost(k)' = Lost(k)
      BY <3>1 DEF Lost
    <3> QED
      BY <2>1, <3>2, LossStays DEF LossIsRecorded, LossOf
  <2> QED
    BY <2>2, <2>3
<1> QED
  BY <1>2 DEF LossIsRecorded, LossOf

\* The eviction loses one event at most, and nobody else makes room.
LEMMA LossOnEviction ==
  ASSUME TypeOK, Deliveries, FewRecord, LossIsRecorded, NEW p \in Publishers, Evict(p)
  PROVE  LossIsRecorded'
<1>1. /\ target[p] \in Handlers /\ ~DropNewest /\ at' = [at EXCEPT ![p] = "resend"]
      /\ at[p] = "evict" /\ UNCHANGED <<policy, target, handled, offered, dropped>>
      /\ \A k \in Handlers : k # target[p] => queue'[k] = queue[k]
  BY DEF Evict, Deliveries, TypeOK
<1>2. \A k \in Handlers : Recording(k)' = Recording(k)
  BY <1>1 DEF Recording, TypeOK
<1>3. ASSUME NEW k \in Handlers, k # target[p] PROVE LossOf(k)'
  <2>1. (MakingRoom(k) => MakingRoom(k)') /\ Lost(k)' = Lost(k)
    BY <1>1, <1>3 DEF MakingRoom, Lost, TypeOK
  <2> QED
    BY <1>1, <1>2, <2>1, LossStays DEF LossIsRecorded, LossOf
<1>4. LossOf(target[p])'
  <2>0. PICK h \in Handlers : h = target[p]
    BY <1>1
  <2>1. ~MakingRoom(h) /\ MakingRoom(h)' /\ ~DropNewest'
    BY <1>1, <2>0 DEF Evict, DropMuFree, MakingRoom, DropNewest, TypeOK
  <2>2. Overflows(h)' = Overflows(h)
    BY <1>1, <1>2 DEF Overflows
  <2>3. LossOf(h) /\ Lost(h) \in Int /\ Overflows(h) \in Nat
    BY <1>1, LossTypes DEF LossIsRecorded, LossOf
  <2>4. Lost(h)' <= Lost(h) + 1 /\ Lost(h)' \in Int
    <3>1. Len(queue'[h]) = Len(queue[h]) \/ Len(queue'[h]) = Len(queue[h]) - 1
      BY <1>1, <2>0 DEF Evict, TypeOK
    <3>2. PICK o \in Nat, a \in Nat, b \in Nat :
            o = offered[h] /\ a = Len(handled[h]) /\ b = Len(queue[h])
      BY <1>1, LossTypes
    <3>3. offered'[h] = o /\ Len(handled'[h]) = a
      BY <1>1, <3>2
    <3>4. CASE Len(queue'[h]) = Len(queue[h])
      <4>1. Lost(h) = o - a - b /\ Lost(h)' = o - a - b
        BY <3>2, <3>3, <3>4 DEF Lost
      <4> QED
        BY <4>1
    <3>5. CASE Len(queue'[h]) = Len(queue[h]) - 1
      <4>1. Lost(h) = o - a - b /\ Lost(h)' = o - a - (b - 1)
        BY <3>2, <3>3, <3>5 DEF Lost
      <4> QED
        BY <4>1
    <3> QED
      BY <3>1, <3>4, <3>5
  <2>5. LossOf(h)'
    <3>1. PICK l \in Int, m \in Int, o \in Nat :
            l = Lost(h) /\ m = Lost(h)' /\ o = Overflows(h)
      BY <2>3, <2>4
    <3>2. l <= 2 * o
      BY <1>1, <2>1, <2>3, <3>1 DEF LossOf
    <3>3. m <= 2 * o + 1
      BY <2>4, <3>1, <3>2
    <3> QED
      BY <2>1, <2>2, <3>1, <3>3 DEF LossOf
  <2> QED
    BY <1>1, <2>0, <2>5 DEF LossOf
<1> QED
  BY <1>1, <1>3, <1>4 DEF LossIsRecorded, LossOf

\* Recording an overflow does not change the account.
LEMMA LossOnRecord ==
  ASSUME TypeOK, Deliveries, FewRecord, LossIsRecorded, NEW p \in Publishers, Record(p)
  PROVE  LossIsRecorded'
<1>1. PICK h \in Handlers : h = target[p]
  BY DEF Record, Deliveries
<1>2. /\ UNCHANGED <<policy, queue, handled, offered>>
      /\ dropped' = [dropped EXCEPT ![h] = @ + 1]
      /\ at[p] = "record" /\ at'[p] \in {"idle", "send"}
      /\ \A q \in Publishers \ {p} : at'[q] = at[q] /\ target'[q] = target[q]
  BY <1>1 DEF Record, Inc, TypeOK
<1>3. ASSUME NEW k \in Handlers
      PROVE  Lost(k)' = Lost(k) /\ (MakingRoom(k) <=> MakingRoom(k)')
  BY <1>2 DEF Lost, MakingRoom
<1>4. ASSUME NEW k \in Handlers, k # h PROVE LossOf(k)'
  <2>1. Recording(k)' = Recording(k) /\ dropped'[k] = dropped[k]
    BY <1>1, <1>2, <1>4, RecordingShrinks DEF TypeOK
  <2> QED
    BY <1>2, <1>3, <2>1, LossStays DEF LossIsRecorded, LossOf
<1>5. Overflows(h)' = Overflows(h)
  <2>1. IsFiniteSet(Recording(h)) /\ Recording(h)' = Recording(h) \ {p} /\ p \in Recording(h)
    BY <1>1, RecordingShrinks DEF FewRecord
  <2>2. /\ Cardinality(Recording(h))' = Cardinality(Recording(h)) - 1
        /\ Cardinality(Recording(h)) \in Nat
    BY <2>1, FS_RemoveElement, FS_CardinalityType
  <2>3. dropped'[h] = dropped[h] + 1 /\ dropped[h] \in Nat
    BY <1>2 DEF TypeOK
  <2> QED
    BY <2>2, <2>3 DEF Overflows
<1>6. LossOf(h)'
  BY <1>2, <1>3, <1>5 DEF LossIsRecorded, LossOf, DropNewest
<1> QED
  BY <1>4, <1>6 DEF LossIsRecorded, LossOf

\* Every step keeps the account.
LEMMA LossStep ==
  ASSUME TypeOK, Deliveries, FewRecord, LossIsRecorded, [BusNext]_busVars
  PROVE  LossIsRecorded'
<1>1. \A h \in Handlers : LossOf(h)
  BY DEF LossIsRecorded, LossOf
<1>2. ASSUME UNCHANGED <<policy, queue, handled, offered, dropped>>,
             \A h \in Handlers : MakingRoom(h) => MakingRoom(h)',
             \A h \in Handlers : Recording(h)' = Recording(h)
      PROVE  LossIsRecorded'
  <2>1. \A h \in Handlers : Lost(h)' = Lost(h) /\ dropped'[h] = dropped[h]
    BY <1>2 DEF Lost
  <2>2. \A h \in Handlers : LossOf(h)'
    BY <1>1, <1>2, <2>1, LossStays
  <2> QED
    BY <2>2 DEF LossIsRecorded, LossOf
<1>3. ASSUME UNCHANGED <<policy, queue, handled, offered, dropped, at, target>>
      PROVE  LossIsRecorded'
  BY <1>2, <1>3 DEF MakingRoom, Recording
<1>4. ASSUME NEW p \in Publishers, Publish(p) PROVE LossIsRecorded'
  <2>1. /\ at[p] = "idle" /\ at'[p] \in {"idle", "send"} /\ UNCHANGED <<policy, entryVars>>
        /\ \A q \in Publishers \ {p} : at'[q] = at[q] /\ target'[q] = target[q]
    BY <1>4 DEF Publish, TypeOK
  <2>2. \A h \in Handlers : Recording(h)' = Recording(h)
    BY <2>1, RecordingStays
  <2> QED
    BY <1>2, <2>1, <2>2 DEF MakingRoom, entryVars
<1>5. ASSUME NEW p \in Publishers, NEW h \in Handlers, Send(p, h) PROVE LossIsRecorded'
  <2>1. at[p] = "send"
    BY <1>5 DEF Send
  <2>2. CASE Delivered(p, h) /\ Enqueue(p, h) /\ UNCHANGED <<policy, handled, dropped>>
    BY <2>1, <2>2, LossOnDelivery
  <2>3. CASE Overflowed(p, h) /\ DropNewest /\ UNCHANGED <<policy, queue, handled, dropped>>
    BY <2>1, <2>3, LossOnOverflow
  <2>4. CASE at' = [at EXCEPT ![p] = "evict"] /\ target' = [target EXCEPT ![p] = h]
             /\ UNCHANGED <<policy, entryVars>>
    <3>1. /\ at'[p] = "evict"
          /\ \A q \in Publishers \ {p} : at'[q] = at[q] /\ target'[q] = target[q]
      BY <2>4 DEF TypeOK
    <3>2. \A k \in Handlers : /\ MakingRoom(k) => MakingRoom(k)'
                              /\ Recording(k)' = Recording(k)
      BY <2>1, <3>1, RecordingStays DEF MakingRoom
    <3> QED
      BY <1>2, <2>4, <3>2 DEF entryVars
  <2> QED
    BY <1>3, <1>5, <2>2, <2>3, <2>4 DEF Send, Panic, pubVars, entryVars
<1>6. ASSUME NEW p \in Publishers, Resend(p) PROVE LossIsRecorded'
  <2>1. target[p] \in Handlers /\ ~DropNewest /\ at[p] = "resend"
    BY <1>6 DEF Resend, Deliveries, TypeOK
  <2>2. CASE Overflowed(p, target[p]) /\ UNCHANGED <<policy, handled, dropped>>
             /\ (Enqueue(p, target[p]) \/ UNCHANGED queue)
    BY <2>1, <2>2, LossOnOverflow
  <2> QED
    BY <1>3, <1>6, <2>2 DEF Resend, Panic, pubVars, entryVars
<1>8. ASSUME NEW h \in Handlers, Receive(h) PROVE LossIsRecorded'
  <2>1. /\ UNCHANGED <<policy, at, target, offered, dropped>>
        /\ \A k \in Handlers \ {h} : queue'[k] = queue[k] /\ handled'[k] = handled[k]
        /\ Len(handled'[h]) = Len(handled[h]) + 1 /\ Len(queue'[h]) = Len(queue[h]) - 1
    BY <1>8 DEF Receive, pubVars, TypeOK
  <2>2. \A k \in Handlers : Lost(k)' = Lost(k)
    <3> TAKE k \in Handlers
    <3>1. CASE k = h
      <4>1. PICK o \in Nat, a \in Nat, b \in Nat :
              o = offered[h] /\ a = Len(handled[h]) /\ b = Len(queue[h])
        BY LossTypes
      <4>2. offered'[h] = o /\ Len(handled'[h]) = a + 1 /\ Len(queue'[h]) = b - 1
        BY <2>1, <4>1
      <4>3. o - (a + 1) - (b - 1) = o - a - b
        OBVIOUS
      <4> QED
        BY <3>1, <4>1, <4>2, <4>3, Zenon DEF Lost
    <3>2. CASE k # h
      BY <2>1, <3>2 DEF Lost
    <3> QED
      BY <3>1, <3>2
  <2>3. \A k \in Handlers : /\ MakingRoom(k) => MakingRoom(k)'
                            /\ Recording(k)' = Recording(k) /\ dropped'[k] = dropped[k]
    BY <2>1 DEF MakingRoom, Recording
  <2>4. ASSUME NEW k \in Handlers PROVE LossOf(k)'
    <3>1. policy' = policy /\ LossOf(k)
      BY <1>1, <2>1
    <3> QED
      BY <2>2, <2>3, <3>1, LossStays
  <2> QED
    BY <2>4 DEF LossIsRecorded, LossOf
<1>9. ASSUME NEW h \in Handlers, Subscribe(h) \/ HandleReturns(h) \/ RunnerExits(h) \/ RemoveStep(h)
                                 \/ CloseEntry(h)
      PROVE  LossIsRecorded'
  BY <1>3, <1>9 DEF Subscribe, HandleReturns, RunnerExits, RemoveStep, RemoveUnlink, RemoveClose,
     RemoveReturns, CloseEntry, CloseQueue, Panic, pubVars, entryVars
<1>10. CASE CloseBegin \/ CloseNext \/ Cancel \/ UNCHANGED busVars
  BY <1>3, <1>10 DEF CloseBegin, CloseNext, Cancel, busVars, pubVars, entryVars
<1> QED
  BY <1>4, <1>5, <1>6, <1>8, <1>9, <1>10, LossOnEviction, LossOnRecord
     DEF BusNext, PublisherStep, RunnerStep, CloseStep

-----------------------------------------------------------------------------
(* The rest of the invariant.                                               *)

\* An entry's goroutine is over before its cleanup returns.
LEMMA EntriesStep ==
  ASSUME TypeOK, Entries, [BusNext]_busVars
  PROVE  Entries'
<1>1. ASSUME UNCHANGED <<chan, runner, removal>> PROVE Entries'
  BY <1>1 DEF Entries
<1>2. ASSUME NEW p \in Publishers, PublisherStep(p) PROVE Entries'
  BY <1>1, <1>2 DEF PublisherStep, Publish, Send, Evict, Resend, Record, Panic, entryVars, removeVars
<1>3. ASSUME NEW h \in Handlers, Subscribe(h) PROVE Entries'
  BY <1>3 DEF Subscribe, Entries, TypeOK, removeVars
<1>4. ASSUME NEW h \in Handlers, RunnerStep(h) PROVE Entries'
  BY <1>4 DEF RunnerStep, Receive, HandleReturns, RunnerExits, Entries, TypeOK, removeVars
<1>5. ASSUME NEW h \in Handlers, RemoveStep(h) PROVE Entries'
  BY <1>5 DEF RemoveStep, RemoveUnlink, RemoveClose, RemoveReturns, CloseQueue, Panic, Entries, TypeOK,
     entryVars, removeVars
<1>6. ASSUME NEW h \in Handlers, CloseEntry(h) PROVE Entries'
  BY <1>6 DEF CloseEntry, CloseQueue, Panic, Entries, TypeOK, entryVars, removeVars
<1>7. CASE CloseBegin \/ CloseNext \/ Cancel \/ UNCHANGED busVars
  BY <1>1, <1>7 DEF CloseBegin, CloseNext, Cancel, busVars, entryVars, removeVars
<1> QED
  BY <1>2, <1>3, <1>4, <1>5, <1>6, <1>7 DEF BusNext, CloseStep

\* Room is made for an event that is yet to be delivered.
LEMMA DeliveriesStep ==
  ASSUME TypeOK, Deliveries, [BusNext]_busVars
  PROVE  Deliveries'
<1>1. ASSUME UNCHANGED <<policy, at, sent, todo, target>> PROVE Deliveries'
  BY <1>1 DEF Deliveries, DropNewest
<1>2. ASSUME NEW p \in Publishers, Publish(p) PROVE Deliveries'
  <2>1. sent'[p] # 0 /\ at'[p] \in {"idle", "send"} /\ UNCHANGED <<policy, target>>
        /\ \A q \in Publishers \ {p} : sent'[q] = sent[q] /\ at'[q] = at[q] /\ todo'[q] = todo[q]
    BY <1>2 DEF Publish, Inc, TypeOK
  <2> QED
    BY <2>1 DEF Deliveries, DropNewest
<1>3. ASSUME NEW p \in Publishers, NEW h \in Handlers, Delivered(p, h) \/ Overflowed(p, h),
             policy' = policy, at[p] # "idle"
      PROVE  Deliveries'
  <2>1. /\ sent' = sent /\ at'[p] \notin {"evict", "resend"}
        /\ at'[p] = "record" => target'[p] = h
        /\ \A q \in Publishers \ {p} :
             at'[q] = at[q] /\ target'[q] = target[q] /\ todo'[q] = todo[q]
    BY <1>3 DEF Delivered, Overflowed, Decided, TypeOK
  <2> QED
    BY <1>3, <2>1 DEF Deliveries, DropNewest
<1>4. ASSUME NEW p \in Publishers, NEW h \in Handlers, Send(p, h) PROVE Deliveries'
  <2>1. CASE at' = [at EXCEPT ![p] = "evict"] /\ target' = [target EXCEPT ![p] = h] /\ ~DropNewest
             /\ h \in todo[p] /\ at[p] = "send" /\ UNCHANGED <<policy, sent, todo>>
    BY <2>1 DEF Deliveries, DropNewest, TypeOK
  <2> QED
    BY <1>1, <1>3, <1>4, <2>1 DEF Send, Panic, pubVars
<1>5. ASSUME NEW p \in Publishers, Evict(p) PROVE Deliveries'
  BY <1>5 DEF Evict, Deliveries, DropNewest, TypeOK
<1>6. ASSUME NEW p \in Publishers, Resend(p) PROVE Deliveries'
  <2>1. target[p] \in Handlers
    BY <1>6 DEF Resend, Deliveries, TypeOK
  <2> QED
    BY <1>1, <1>3, <1>6, <2>1 DEF Resend, Panic, pubVars
<1>9. ASSUME NEW p \in Publishers, Record(p) PROVE Deliveries'
  BY <1>9 DEF Record, Deliveries, DropNewest, TypeOK
<1>7. ASSUME NEW h \in Handlers, Subscribe(h) \/ RunnerStep(h) \/ RemoveStep(h) \/ CloseEntry(h)
      PROVE  Deliveries'
  BY <1>1, <1>7 DEF Subscribe, RunnerStep, Receive, HandleReturns, RunnerExits, RemoveStep, RemoveUnlink,
     RemoveClose, RemoveReturns, CloseEntry, CloseQueue, Panic, pubVars
<1>8. CASE CloseBegin \/ CloseNext \/ Cancel \/ UNCHANGED busVars
  BY <1>1, <1>8 DEF CloseBegin, CloseNext, Cancel, busVars, pubVars
<1> QED
  BY <1>2, <1>4, <1>5, <1>6, <1>7, <1>8, <1>9 DEF BusNext, PublisherStep, CloseStep

\* The invariant holds of the bus under any client.
LEMMA BusInvariant == BusSpec => []BusInv
<1>1. BusInv /\ [BusNext]_busVars => BusInv'
  BY TypeStep, EntriesStep, DeliveriesStep, OrderStep, RecordingStep, LossStep
     DEF BusInv
<1> QED
  BY <1>1, BusInitially, PTL DEF BusSpec

-----------------------------------------------------------------------------
(* The theorems about the bus.                                              *)

\* The bus is well typed; in particular no queue exceeds its capacity.
THEOREM BusTyping == BusSpec => []TypeOK
<1>1. BusInv => TypeOK
  BY DEF BusInv
<1> QED
  BY <1>1, BusInvariant, PTL

\* Whatever is dropped and however many scanners publish at once, a handler
\* gets the events of each of them in the order of publication, none twice.
THEOREM ScannersStayInOrder == BusSpec => []PerScannerOrder
<1>1. ASSUME BusInv, NEW h \in Handlers
      PROVE  LET seen == handled[h] \o queue[h] IN
             \A i, j \in DOMAIN seen : i < j => Before(seen[i], seen[j])
  BY <1>1, ConcatOrdered DEF BusInv, TypeOK, InOrder, OrderOf
<1>2. BusInv => PerScannerOrder
  BY <1>1 DEF PerScannerOrder, Before
<1> QED
  BY <1>2, BusInvariant, PTL

\* With the publishers that are still on their way to recordDrop, the counter
\* is the number of events lost under drop-newest, and at least half of it
\* under drop-oldest but for the one that room is being made with.
THEOREM LossesAreRecorded == BusSpec => []LossIsRecorded
<1>1. BusInv => LossIsRecorded
  BY DEF BusInv
<1> QED
  BY <1>1, BusInvariant, PTL

\* Once the cleanup function has returned nobody calls the handler again.
THEOREM RemovedIsQuiet == BusSpec => NoCallAfterRemoval
<1> DEFINE Quiet == \A h \in Handlers : removal[h] = "done" => handled'[h] = handled[h]
<1>1. BusInv /\ [BusNext]_busVars => [Quiet]_busVars
  <2> SUFFICES ASSUME BusInv, BusNext, NEW h \in Handlers, removal[h] = "done"
               PROVE  handled'[h] = handled[h]
    OBVIOUS
  <2>1. runner[h] = "done" /\ TypeOK
    BY DEF BusInv, Entries
  <2>2. ASSUME NEW k \in Handlers, Receive(k) PROVE handled'[h] = handled[h]
    BY <2>1, <2>2 DEF Receive, TypeOK
  <2>3. ASSUME NEW p \in Publishers, PublisherStep(p) PROVE handled' = handled
    BY <2>3 DEF PublisherStep, Publish, Send, Evict, Resend, Record, Panic, entryVars
  <2> QED
    BY <2>2, <2>3 DEF BusNext, Subscribe, RunnerStep, HandleReturns, RunnerExits, RemoveStep, RemoveUnlink,
       RemoveClose, RemoveReturns, CloseStep, CloseBegin, CloseNext, CloseEntry, CloseQueue, Cancel,
       Panic, entryVars
<1> QED
  BY <1>1, BusInvariant, PTL DEF BusSpec, NoCallAfterRemoval

-----------------------------------------------------------------------------
(* The addons on top of the bus.                                            *)

\* Who is being launched is an addon.
LaunchOfAddon == launching.step # "none" => launching.addon \in Handlers

AddonInv == RunnerTypeOK /\ LaunchOfAddon /\ NoWriteToClosedFeed

\* What the runner and the supervisor do to the bus is an operation of it.
LEMMA BusStep ==
  ASSUME LaunchOfAddon, [Next]_vars
  PROVE  [BusNext]_busVars
<1>1. ASSUME NEW p \in Publishers, Scan(p) PROVE BusNext
  BY <1>1 DEF Scan, BusNext
<1>2. ASSUME NEW a \in Handlers, Drain(a) \/ HandleIgnored(a) \/ WriteSucceeds(a) \/ WriteFails(a)
      PROVE  BusNext
  BY <1>2 DEF Drain, HandleIgnored, WriteSucceeds, WriteFails, BusNext, RunnerStep
<1>3. ASSUME NEW a \in Handlers, WaitRemoves(a) PROVE BusNext
  BY <1>3 DEF WaitRemoves, BusNext
<1>4. ASSUME LaunchSubscribe PROVE BusNext
  BY <1>4 DEF LaunchSubscribe, LaunchOfAddon, BusNext
<1>5. CASE Signal \/ CloseBus
  BY <1>5 DEF Signal, CloseBus, BusNext
<1>6. ASSUME ServerExits PROVE [BusNext]_busVars
  <2>1. CASE cancelled = TRUE
    BY <1>6, <2>1 DEF ServerExits, busVars
  <2>2. CASE cancelled # TRUE
    <3>1. Cancel
      BY <1>6, <2>2 DEF ServerExits, Alive, Cancel
    <3> QED
      BY <3>1 DEF BusNext
  <2> QED
    BY <2>1, <2>2
<1>7. ASSUME NEW a \in Handlers,
             \/ ProcessExits(a) \/ ProcessKilled(a) \/ HandleLock(a) \/ LaunchFails(a) \/ LaunchStart(a)
             \/ WaitReaps(a) \/ WaitClosesFeed(a) \/ WaitUnsubscribes(a) \/ WaitReturns(a)
             \/ StopClosesStdin(a) \/ StopSeesExit(a) \/ StopGivesUp(a)
      PROVE  UNCHANGED busVars
  BY <1>7 DEF ProcessExits, ProcessKilled, HandleLock, LaunchFails, LaunchStart, WaitReaps, WaitClosesFeed,
     WaitUnsubscribes, WaitReturns, StopClosesStdin, StopSeesExit, StopGivesUp
<1>8. ASSUME \/ LaunchAppend \/ LaunchSetCleanup \/ StartReturns \/ StopBegin \/ StopStartsTimer
             \/ StopReturns \/ RunReturns \/ DeadlineFires \/ UNCHANGED vars
      PROVE  UNCHANGED busVars
  BY <1>8 DEF LaunchAppend, LaunchSetCleanup, StartReturns, StopBegin, StopStartsTimer, StopReturns,
     RunReturns, DeadlineFires, vars
<1> QED
  BY <1>1, <1>2, <1>3, <1>4, <1>5, <1>6, <1>7, <1>8
     DEF Next, LaunchStep, HandlerStep, WaiterStep, ShutdownStep

LEMMA AddonInitially == Init => BusInv /\ AddonInv
<1> SUFFICES ASSUME Init PROVE BusInv /\ AddonInv
  OBVIOUS
<1>1. BusInv
  BY BusInitially DEF Init
<1>2. \A f \in {cleanup, stdinClosed, writing, exited, addonCancel} : f \in [Handlers -> BOOLEAN]
  BY DEF Init
<1>3. launching \in [addon : Handlers \union {NoEntry},
                     step : {"none", "started", "listed", "subscribed"}] /\ LaunchOfAddon
  BY DEF Init, NoLaunch, LaunchOfAddon
<1> QED
  BY <1>1, <1>2, <1>3 DEF Init, BusInv, AddonInv, RunnerTypeOK, NoWriteToClosedFeed

\* stdinMu keeps a feed from being closed under a write, and a write from
\* beginning on a closed feed.
LEMMA FeedStep ==
  ASSUME AddonInv, [Next]_vars
  PROVE  NoWriteToClosedFeed'
<1> USE DEF AddonInv, RunnerTypeOK
<1>1. ASSUME UNCHANGED <<writing, stdinClosed>> PROVE NoWriteToClosedFeed'
  BY <1>1 DEF NoWriteToClosedFeed
<1>2. ASSUME NEW a \in Handlers, HandleLock(a) \/ WriteSucceeds(a) \/ WriteFails(a) \/ WaitClosesFeed(a)
                                 \/ StopClosesStdin(a)
      PROVE  NoWriteToClosedFeed'
  BY <1>2 DEF HandleLock, WriteSucceeds, WriteFails, WaitClosesFeed, StopClosesStdin, NoWriteToClosedFeed
<1>3. ASSUME NEW a \in Handlers,
             \/ ProcessExits(a) \/ ProcessKilled(a) \/ LaunchFails(a) \/ LaunchStart(a)
             \/ WaitReaps(a) \/ WaitUnsubscribes(a) \/ WaitReturns(a) \/ WaitRemoves(a)
             \/ StopSeesExit(a) \/ StopGivesUp(a) \/ HandleIgnored(a) \/ Drain(a)
      PROVE  UNCHANGED <<writing, stdinClosed>>
  BY <1>3 DEF ProcessExits, ProcessKilled, LaunchFails, LaunchStart, WaitReaps, WaitUnsubscribes,
     WaitReturns, WaitRemoves, StopSeesExit, StopGivesUp, HandleIgnored, Drain, addonVars
<1>4. ASSUME \/ LaunchAppend \/ LaunchSubscribe \/ LaunchSetCleanup \/ StartReturns \/ StopBegin
             \/ StopStartsTimer \/ StopReturns \/ CloseBus \/ RunReturns \/ DeadlineFires
             \/ Signal \/ ServerExits \/ UNCHANGED vars \/ \E p \in Publishers : Scan(p)
      PROVE  UNCHANGED <<writing, stdinClosed>>
  BY <1>4 DEF LaunchAppend, LaunchSubscribe, LaunchSetCleanup, StartReturns, StopBegin, StopStartsTimer,
     StopReturns, CloseBus, RunReturns, DeadlineFires, Signal, ServerExits, Scan, vars, addonVars
<1> QED
  BY <1>1, <1>2, <1>3, <1>4 DEF Next, LaunchStep, HandlerStep, WaiterStep, ShutdownStep

\* The rest of the runner's typing, given that of the bus.
Flags ==
  /\ cleanup \in [Handlers -> BOOLEAN] /\ stdinClosed \in [Handlers -> BOOLEAN]
  /\ writing \in [Handlers -> BOOLEAN] /\ exited \in [Handlers -> BOOLEAN]
  /\ addonCancel \in [Handlers -> BOOLEAN]

Children ==
  /\ addons \subseteq Handlers
  /\ proc \in [Handlers -> {"none", "running", "exited", "killed"}]
  /\ waiter \in [Handlers -> {"none", "wait", "reaped", "feedClosed", "removing", "left", "done"}]

Launching ==
  /\ toLaunch \subseteq Handlers
  /\ launching \in [addon : Handlers \union {NoEntry},
                    step : {"none", "started", "listed", "subscribed"}]
  /\ launching.step # "none" => launching.addon \in Handlers
  /\ run # "launching" => toLaunch = {} /\ launching = NoLaunch

Stopping ==
  /\ run \in {"launching", "running", "stop", "closeStdin", "wait", "close", "exited"}
  /\ stopping \subseteq Handlers /\ stopList \subseteq Handlers
  /\ deadline \in {"none", "pending", "fired", "used"}

LEMMA RunnerTypeParts ==
  /\ RunnerTypeOK /\ LaunchOfAddon => Flags /\ Children /\ Launching /\ Stopping
  /\ TypeOK /\ Flags /\ Children /\ Launching /\ Stopping => RunnerTypeOK /\ LaunchOfAddon
BY DEF RunnerTypeOK, LaunchOfAddon, Flags, Children, Launching, Stopping

LEMMA RunnerTypeStep ==
  ASSUME AddonInv, TypeOK', [Next]_vars
  PROVE  RunnerTypeOK' /\ LaunchOfAddon'
<1>1. Flags /\ Children /\ Launching /\ Stopping
  BY RunnerTypeParts DEF AddonInv
<1> SUFFICES Flags' /\ Children' /\ Launching' /\ Stopping'
  BY RunnerTypeParts, <1>1 DEF RunnerTypeOK, LaunchOfAddon, Flags, Children, Launching, Stopping
<1> USE DEF Flags, Children, Launching, Stopping
<1>2. ASSUME NEW a \in Handlers, LaunchFails(a) \/ LaunchStart(a)
      PROVE  Flags' /\ Children' /\ Launching' /\ Stopping'
  BY <1>1, <1>2 DEF LaunchFails, LaunchStart, NoLaunch, stopVars
<1>3. CASE LaunchAppend \/ LaunchSubscribe
  BY <1>1, <1>3 DEF LaunchAppend, LaunchSubscribe, NoLaunch, stopVars
<1>4. CASE LaunchSetCleanup
  BY <1>1, <1>4 DEF LaunchSetCleanup, NoLaunch, stopVars
<1>5. CASE StartReturns \/ StopBegin \/ StopStartsTimer \/ StopReturns \/ RunReturns \/ DeadlineFires
  BY <1>1, <1>5 DEF StartReturns, StopBegin, StopStartsTimer, StopReturns, RunReturns, DeadlineFires,
     addonVars, stopVars
<1>6. ASSUME NEW a \in Handlers,
             \/ ProcessExits(a) \/ ProcessKilled(a) \/ HandleLock(a) \/ WriteSucceeds(a) \/ WriteFails(a)
      PROVE  Flags' /\ Children' /\ Launching' /\ Stopping'
  <2>1. CASE ProcessExits(a)
    BY <1>1, <2>1 DEF ProcessExits, stopVars
  <2>2. CASE ProcessKilled(a)
    BY <1>1, <2>2 DEF ProcessKilled, stopVars
  <2>3. CASE HandleLock(a) \/ WriteSucceeds(a) \/ WriteFails(a)
    BY <1>1, <2>3 DEF HandleLock, WriteSucceeds, WriteFails, stopVars
  <2> QED
    BY <1>6, <2>1, <2>2, <2>3
<1>7. ASSUME NEW a \in Handlers, WaiterStep(a)
      PROVE  Flags' /\ Children' /\ Launching' /\ Stopping'
  <2>1. CASE WaitReaps(a) \/ WaitClosesFeed(a)
    BY <1>1, <2>1 DEF WaitReaps, WaitClosesFeed, Waiter, stopVars
  <2>2. CASE WaitUnsubscribes(a) \/ WaitRemoves(a)
    BY <1>1, <2>2 DEF WaitUnsubscribes, WaitRemoves, Waiter, stopVars
  <2>3. CASE WaitReturns(a)
    BY <1>1, <2>3 DEF WaitReturns, Waiter, stopVars
  <2> QED
    BY <1>7, <2>1, <2>2, <2>3 DEF WaiterStep
<1>8. ASSUME NEW a \in Handlers, StopClosesStdin(a) \/ StopSeesExit(a) \/ StopGivesUp(a)
      PROVE  Flags' /\ Children' /\ Launching' /\ Stopping'
  BY <1>1, <1>8 DEF StopClosesStdin, StopSeesExit, StopGivesUp, addonVars
<1>9. CASE \/ \E p \in Publishers : Scan(p)
           \/ \E a \in Handlers : HandleIgnored(a) \/ Drain(a)
           \/ Signal \/ ServerExits \/ CloseBus \/ UNCHANGED vars
  <2>1. UNCHANGED <<addonVars, stopVars>> /\ (run' = run \/ (run = "running" /\ run' = "stop"))
    BY <1>9 DEF Scan, HandleIgnored, Drain, Signal, ServerExits, CloseBus, vars
  <2> QED
    BY <1>1, <2>1 DEF addonVars, stopVars
<1> QED
  BY <1>2, <1>3, <1>4, <1>5, <1>6, <1>7, <1>8, <1>9 DEF Next, LaunchStep, HandlerStep, ShutdownStep

LEMMA AddonInvariant == Spec => [](BusInv /\ AddonInv)
<1>1. (BusInv /\ AddonInv) /\ [Next]_vars => (BusInv /\ AddonInv)'
  <2> SUFFICES ASSUME BusInv, AddonInv, [Next]_vars PROVE BusInv' /\ AddonInv'
    OBVIOUS
  <2>1. [BusNext]_busVars
    BY BusStep DEF AddonInv
  <2>2. BusInv'
    BY <2>1, TypeStep, EntriesStep, DeliveriesStep, OrderStep, RecordingStep, LossStep
     DEF BusInv
  <2>3. AddonInv'
    BY <2>2, FeedStep, RunnerTypeStep DEF AddonInv, BusInv
  <2> QED
    BY <2>2, <2>3
<1> QED
  BY <1>1, AddonInitially, PTL DEF Spec

\* Nothing is written to an addon whose feed Stop, a failed write or the
\* goroutine that reaped the process has closed.
THEOREM ClosedFeedsStayClosed == Spec => []NoWriteToClosedFeed
<1>1. AddonInv => NoWriteToClosedFeed
  BY DEF AddonInv
<1> QED
  BY <1>1, AddonInvariant, PTL

-----------------------------------------------------------------------------
(* The feeds that are open, and who will close them.                        *)

Fed(a) == proc[a] # "none" /\ ~stdinClosed[a]

\* An addon with an open feed is on the list or about to be put there.
OpenIsListed ==
  \A a \in Handlers : Fed(a) => a \in addons \/ (launching.addon = a /\ launching.step = "started")

\* Whoever takes an addon off the list has closed its feed before.
WaiterCloses ==
  \A a \in Handlers : waiter[a] \in {"feedClosed", "removing", "left", "done"} => stdinClosed[a]

\* Stop has yet to deal with each open feed in its first loop, and with none
\* after it.
StopReaches ==
  /\ run = "closeStdin" => \A a \in Handlers : Fed(a) => a \in stopping
  /\ run \in {"wait", "close", "exited"} => \A a \in Handlers : ~Fed(a)

FeedInv == OpenIsListed /\ WaiterCloses /\ StopReaches

\* No step but a launch feeds anybody who was not fed.
LEMMA FeedsStay ==
  ASSUME AddonInv, FeedInv, addons \subseteq addons', launching' = launching, waiter' = waiter,
         run' = run, stopping' = stopping, \A a \in Handlers : Fed(a)' => Fed(a),
         \A a \in Handlers : stdinClosed[a] => stdinClosed'[a]
  PROVE  FeedInv'
BY DEF FeedInv, OpenIsListed, WaiterCloses, StopReaches

LEMMA FeedInvStep ==
  ASSUME AddonInv, FeedInv, [Next]_vars
  PROVE  FeedInv'
<1> USE DEF FeedInv
<1>1. proc \in [Handlers -> {"none", "running", "exited", "killed"}]
      /\ stdinClosed \in [Handlers -> BOOLEAN] /\ waiter \in [Handlers -> {"none", "wait", "reaped", "feedClosed", "removing", "left", "done"}]
  BY DEF AddonInv, RunnerTypeOK
<1>2. run # "launching" => launching.step = "none"
  BY DEF AddonInv, RunnerTypeOK, NoLaunch
<1>3. ASSUME NEW a \in Handlers, LaunchFails(a) PROVE FeedInv'
  BY <1>3 DEF LaunchFails, OpenIsListed, WaiterCloses, StopReaches, Fed, stopVars
<1>4. ASSUME NEW a \in Handlers, LaunchStart(a) PROVE FeedInv'
  <2>1. OpenIsListed'
    BY <1>1, <1>4 DEF LaunchStart, OpenIsListed, Fed, NoLaunch
  <2>2. WaiterCloses'
    BY <1>1, <1>4 DEF LaunchStart, WaiterCloses
  <2> QED
    BY <1>4, <2>1, <2>2 DEF LaunchStart, StopReaches
<1>5. CASE LaunchAppend
  <2>1. OpenIsListed'
    BY <1>5 DEF LaunchAppend, OpenIsListed, Fed
  <2>2. WaiterCloses' /\ StopReaches'
    BY <1>5 DEF LaunchAppend, WaiterCloses, StopReaches, Fed, stopVars
  <2> QED
    BY <2>1, <2>2
<1>6. CASE LaunchSubscribe \/ LaunchSetCleanup
  <2>1. OpenIsListed'
    BY <1>6 DEF LaunchSubscribe, LaunchSetCleanup, OpenIsListed, Fed, NoLaunch
  <2>2. WaiterCloses' /\ StopReaches'
    BY <1>6 DEF LaunchSubscribe, LaunchSetCleanup, WaiterCloses, StopReaches, Fed, stopVars
  <2> QED
    BY <2>1, <2>2
<1>7. CASE StartReturns \/ ServerExits
  BY <1>7 DEF StartReturns, ServerExits, addonVars, stopVars, OpenIsListed, WaiterCloses, StopReaches, Fed
<1>8. ASSUME NEW a \in Handlers, ProcessExits(a) \/ ProcessKilled(a) PROVE FeedInv'
  <2>1. \A b \in Handlers : Fed(b)' => Fed(b)
    BY <1>1, <1>8 DEF ProcessExits, ProcessKilled, Fed
  <2> QED
    BY <1>8, <2>1, FeedsStay DEF ProcessExits, ProcessKilled, stopVars
<1>9. ASSUME NEW a \in Handlers, WriteSucceeds(a) \/ WriteFails(a) \/ HandleLock(a) PROVE FeedInv'
  <2>1. \A b \in Handlers : (Fed(b)' => Fed(b)) /\ (stdinClosed[b] => stdinClosed'[b])
    BY <1>1, <1>9 DEF WriteSucceeds, WriteFails, HandleLock, Fed
  <2> QED
    BY <1>9, <2>1, FeedsStay DEF WriteSucceeds, WriteFails, HandleLock, stopVars
<1>10. ASSUME NEW a \in Handlers, WaitReaps(a) \/ WaitUnsubscribes(a) \/ WaitRemoves(a) PROVE FeedInv'
  <2>1. UNCHANGED <<proc, stdinClosed, addons, launching, run, stopping>>
    BY <1>10 DEF WaitReaps, WaitUnsubscribes, WaitRemoves, Waiter, stopVars
  <2>2. \A b \in Handlers : waiter'[b] \in {"feedClosed", "removing", "left", "done"}
                              => waiter[b] \in {"feedClosed", "removing", "left", "done"}
    BY <1>1, <1>10 DEF WaitReaps, WaitUnsubscribes, WaitRemoves, Waiter
  <2> QED
    BY <2>1, <2>2 DEF OpenIsListed, WaiterCloses, StopReaches, Fed
<1>11. ASSUME NEW a \in Handlers, WaitClosesFeed(a) PROVE FeedInv'
  <2>1. \A b \in Handlers : Fed(b)' => Fed(b)
    BY <1>1, <1>11 DEF WaitClosesFeed, Fed
  <2>2. UNCHANGED <<addons, launching, run, stopping>>
    BY <1>11 DEF WaitClosesFeed, stopVars
  <2>3. WaiterCloses'
    BY <1>1, <1>11 DEF WaitClosesFeed, Waiter, WaiterCloses
  <2> QED
    BY <2>1, <2>2, <2>3 DEF OpenIsListed, StopReaches
<1>12. ASSUME NEW a \in Handlers, WaitReturns(a) PROVE FeedInv'
  <2>1. UNCHANGED <<proc, stdinClosed, launching, run, stopping>> /\ addons' = addons \ {a}
    BY <1>12 DEF WaitReturns, stopVars
  <2>2. ~Fed(a)
    BY <1>12 DEF WaitReturns, Waiter, WaiterCloses, Fed
  <2>3. WaiterCloses'
    BY <1>1, <1>12 DEF WaitReturns, Waiter, WaiterCloses
  <2> QED
    BY <2>1, <2>2, <2>3 DEF OpenIsListed, StopReaches, Fed
<1>13. CASE StopBegin
  <2>1. \A a \in Handlers : Fed(a) => a \in addons
    BY <1>2, <1>13 DEF StopBegin, OpenIsListed
  <2> QED
    BY <1>13, <2>1 DEF StopBegin, addonVars, OpenIsListed, WaiterCloses, StopReaches, Fed
<1>14. ASSUME NEW a \in Handlers, StopClosesStdin(a) PROVE FeedInv'
  <2>1. \A b \in Handlers : (Fed(b)' => Fed(b) /\ b # a) /\ (stdinClosed[b] => stdinClosed'[b])
    BY <1>1, <1>14 DEF StopClosesStdin, Fed
  <2>2. UNCHANGED <<addons, launching, waiter, run>> /\ stopping' = stopping \ {a} /\ run = "closeStdin"
    BY <1>14 DEF StopClosesStdin
  <2> QED
    BY <2>1, <2>2 DEF OpenIsListed, WaiterCloses, StopReaches
<1>15. CASE StopStartsTimer \/ StopReturns \/ RunReturns
  BY <1>15 DEF StopStartsTimer, StopReturns, RunReturns, addonVars, stopVars, OpenIsListed, WaiterCloses,
     StopReaches, Fed
<1>16. ASSUME NEW a \in Handlers, StopSeesExit(a) \/ StopGivesUp(a) PROVE FeedInv'
  <2>1. UNCHANGED <<proc, stdinClosed, addons, launching, waiter, run>> /\ run = "wait"
    BY <1>16 DEF StopSeesExit, StopGivesUp, addonVars
  <2> QED
    BY <2>1 DEF OpenIsListed, WaiterCloses, StopReaches, Fed
<1>17. CASE \/ \E p \in Publishers : Scan(p)
            \/ \E a \in Handlers : HandleIgnored(a) \/ Drain(a)
            \/ Signal \/ CloseBus \/ DeadlineFires \/ UNCHANGED vars
  <2>1. UNCHANGED <<proc, stdinClosed, addons, launching, waiter, run, stopping>>
    BY <1>17 DEF Scan, HandleIgnored, Drain, Signal, CloseBus, DeadlineFires, vars, addonVars, stopVars
  <2> QED
    BY <2>1 DEF OpenIsListed, WaiterCloses, StopReaches, Fed
<1> QED
  BY <1>3, <1>4, <1>5, <1>6, <1>7, <1>8, <1>9, <1>10, <1>11, <1>12, <1>13, <1>14, <1>15, <1>16, <1>17
     DEF Next, LaunchStep, HandlerStep, WaiterStep, ShutdownStep

\* The supervisor with its addons is well typed: in particular nothing is
\* being launched any more when the game server runs.
THEOREM AddonTyping == Spec => []RunnerTypeOK
<1>1. AddonInv => RunnerTypeOK
  BY DEF AddonInv
<1> QED
  BY <1>1, AddonInvariant, PTL

\* Once Stop has closed the feeds no addon is fed again, the ones that its
\* snapshot of the list had missed included (AddonRunner.Stop).
THEOREM StopSilences == Spec => []SilentAfterStop
<1>1. Init => FeedInv
  BY DEF Init, FeedInv, OpenIsListed, WaiterCloses, StopReaches, Fed
<1>2. (BusInv /\ AddonInv) /\ FeedInv /\ [Next]_vars => FeedInv'
  BY FeedInvStep
<1>3. (BusInv /\ AddonInv) /\ FeedInv => SilentAfterStop
  BY DEF AddonInv, RunnerTypeOK, NoWriteToClosedFeed, FeedInv, StopReaches, Fed, SilentAfterStop
<1> QED
  BY <1>1, <1>2, <1>3, AddonInvariant, PTL DEF Spec

-----------------------------------------------------------------------------
(* AddonFeed.                                                               *)

\* Nobody acts for an addon whose process was never started.
NotYet(a) ==
  /\ waiter[a] = "none" /\ runner[a] = "none"
  /\ a \notin addons /\ a \notin stopping /\ a \notin stopList
  /\ ~stdinClosed[a] /\ ~writing[a]
  /\ launching.step # "none" => launching.addon # a

BornInv ==
  /\ \A a \in Handlers : proc[a] = "none" => NotYet(a)
  /\ \A a \in toLaunch : proc[a] = "none"

\* A goroutine of the bus for a handler begins with its subscription.
LEMMA RunnerBegins ==
  ASSUME TypeOK, [Next]_vars, NEW b \in Handlers, runner[b] = "none"
  PROVE  runner'[b] = "none" \/ (launching.step = "listed" /\ launching.addon = b)
<1>1. runner \in [Handlers -> {"none", "ready", "handling", "done"}]
  BY DEF TypeOK
<1>2. CASE LaunchSubscribe
  BY <1>1, <1>2 DEF LaunchSubscribe, Subscribe
<1>3. ASSUME NEW a \in Handlers, HandleIgnored(a) \/ WriteSucceeds(a) \/ WriteFails(a) \/ Drain(a)
      PROVE  runner'[b] = "none"
  BY <1>1, <1>3 DEF HandleIgnored, WriteSucceeds, WriteFails, Drain, HandleReturns, Receive, RunnerExits
<1>4. ASSUME NEW p \in Publishers, Scan(p) PROVE runner' = runner
  BY <1>4 DEF Scan, PublisherStep, Publish, Send, Enqueue, Resend, Record, Evict, Panic,
     entryVars
<1>5. ASSUME NEW a \in Handlers, WaitRemoves(a) PROVE runner' = runner
  BY <1>5 DEF WaitRemoves, RemoveStep, RemoveUnlink, RemoveClose, RemoveReturns, CloseQueue, Panic, entryVars
<1>6. CASE CloseBus
  BY <1>6 DEF CloseBus, CloseStep, CloseBegin, CloseNext, CloseEntry, CloseQueue, Panic, entryVars
<1>7. CASE Signal \/ ServerExits
  BY <1>7 DEF Signal, Cancel, ServerExits, entryVars
<1>8. ASSUME NEW a \in Handlers,
             \/ ProcessExits(a) \/ ProcessKilled(a) \/ HandleLock(a) \/ LaunchFails(a) \/ LaunchStart(a)
             \/ WaitReaps(a) \/ WaitClosesFeed(a) \/ WaitUnsubscribes(a) \/ WaitReturns(a)
             \/ StopClosesStdin(a) \/ StopSeesExit(a) \/ StopGivesUp(a)
      PROVE  runner' = runner
  BY <1>8 DEF ProcessExits, ProcessKilled, HandleLock, LaunchFails, LaunchStart, WaitReaps, WaitClosesFeed,
     WaitUnsubscribes, WaitReturns, StopClosesStdin, StopSeesExit, StopGivesUp, busVars, entryVars
<1>9. ASSUME \/ LaunchAppend \/ LaunchSetCleanup \/ StartReturns \/ StopBegin \/ StopStartsTimer
             \/ StopReturns \/ RunReturns \/ DeadlineFires \/ UNCHANGED vars
      PROVE  runner' = runner
  BY <1>9 DEF LaunchAppend, LaunchSetCleanup, StartReturns, StopBegin, StopStartsTimer, StopReturns,
     RunReturns, DeadlineFires, vars, busVars, entryVars
<1> QED
  BY <1>2, <1>3, <1>4, <1>5, <1>6, <1>7, <1>8, <1>9
     DEF Next, LaunchStep, HandlerStep, WaiterStep, ShutdownStep

\* Of the rest, by the kind of step.
LEMMA BornStep ==
  ASSUME AddonInv, BornInv, [Next]_vars
  PROVE  BornInv'
<1> DEFINE Rest(a) == /\ waiter[a] = "none"
                      /\ a \notin addons /\ a \notin stopping /\ a \notin stopList
                      /\ ~stdinClosed[a] /\ ~writing[a]
                      /\ launching.step # "none" => launching.addon # a
           Kept == /\ \A b \in Handlers : proc'[b] = "none" => proc[b] = "none" /\ Rest(b)'
                   /\ \A b \in toLaunch' : b \in toLaunch /\ proc'[b] = proc[b]
<1>1. /\ TypeOK /\ Children /\ Flags /\ Launching /\ Stopping
  BY RunnerTypeParts DEF AddonInv, RunnerTypeOK
<1>2. \A b \in Handlers : proc[b] = "none" => Rest(b)
  BY DEF BornInv, NotYet
<1>3. \A b \in toLaunch : proc[b] = "none"
  BY DEF BornInv
<1>4. SUFFICES Kept
  <2>1. ASSUME NEW b \in Handlers, proc'[b] = "none", Kept PROVE runner'[b] = "none"
    <3>1. NotYet(b)
      BY <2>1 DEF BornInv
    <3> QED
      BY <1>1, <3>1, RunnerBegins DEF NotYet
  <2>2. ASSUME Kept, NEW b \in toLaunch' PROVE proc'[b] = "none"
    BY <1>3, <2>2
  <2> QED
    BY <2>1, <2>2 DEF BornInv, NotYet
<1> USE <1>1, <1>2, <1>3 DEF Children, Flags, Launching, Stopping
<1>5. ASSUME NEW a \in Handlers, LaunchFails(a) PROVE Kept
  BY <1>5 DEF LaunchFails, stopVars
<1>6. ASSUME NEW a \in Handlers, LaunchStart(a) PROVE Kept
  BY <1>6 DEF LaunchStart, stopVars
<1>7. CASE LaunchAppend \/ LaunchSubscribe
  BY <1>7 DEF LaunchAppend, LaunchSubscribe, stopVars
<1>8. CASE LaunchSetCleanup
  BY <1>8 DEF LaunchSetCleanup, stopVars, NoLaunch
<1>9. ASSUME NEW a \in Handlers, ProcessExits(a) \/ ProcessKilled(a) PROVE Kept
  BY <1>9 DEF ProcessExits, ProcessKilled, stopVars
<1>10. ASSUME NEW a \in Handlers, HandleLock(a) \/ WriteSucceeds(a) \/ WriteFails(a) PROVE Kept
  <2>1. proc[a] # "none"
    BY <1>10 DEF HandleLock, WriteSucceeds, WriteFails, HandleReturns, BornInv, NotYet
  <2>2. CASE HandleLock(a) \/ WriteSucceeds(a)
    BY <2>1, <2>2 DEF HandleLock, WriteSucceeds, stopVars
  <2>3. CASE WriteFails(a)
    BY <2>1, <2>3 DEF WriteFails, stopVars
  <2> QED
    BY <1>10, <2>2, <2>3
<1>11. ASSUME NEW a \in Handlers, WaiterStep(a) PROVE Kept
  <2>1. proc[a] # "none"
    BY <1>11 DEF WaiterStep, WaitReaps, WaitClosesFeed, WaitUnsubscribes, WaitRemoves, WaitReturns, Waiter
  <2>2. CASE WaitReaps(a) \/ WaitClosesFeed(a)
    BY <2>1, <2>2 DEF WaitReaps, WaitClosesFeed, Waiter, stopVars
  <2>3. CASE WaitUnsubscribes(a) \/ WaitRemoves(a)
    BY <2>1, <2>3 DEF WaitUnsubscribes, WaitRemoves, Waiter, stopVars
  <2>4. CASE WaitReturns(a)
    BY <2>1, <2>4 DEF WaitReturns, Waiter, stopVars
  <2> QED
    BY <1>11, <2>2, <2>3, <2>4 DEF WaiterStep
<1>12. CASE StartReturns \/ StopBegin \/ StopStartsTimer \/ StopReturns \/ RunReturns \/ DeadlineFires
  BY <1>12 DEF StartReturns, StopBegin, StopStartsTimer, StopReturns, RunReturns, DeadlineFires, addonVars,
     stopVars
<1>13. ASSUME NEW a \in Handlers, StopClosesStdin(a) \/ StopSeesExit(a) \/ StopGivesUp(a) PROVE Kept
  <2>1. proc[a] # "none"
    BY <1>13 DEF StopClosesStdin, StopSeesExit, StopGivesUp
  <2> QED
    BY <1>13, <2>1 DEF StopClosesStdin, StopSeesExit, StopGivesUp, addonVars
<1>14. CASE \/ \E p \in Publishers : Scan(p)
            \/ \E a \in Handlers : HandleIgnored(a) \/ Drain(a)
            \/ Signal \/ ServerExits \/ CloseBus \/ UNCHANGED vars
  <2>1. UNCHANGED <<addonVars, stopVars>>
    BY <1>14 DEF Scan, HandleIgnored, Drain, Signal, ServerExits, CloseBus, vars
  <2> QED
    BY <2>1 DEF addonVars, stopVars
<1> QED
  BY <1>5, <1>6, <1>7, <1>8, <1>9, <1>10, <1>11, <1>12, <1>13, <1>14
     DEF Next, LaunchStep, HandlerStep, ShutdownStep

\* What an addon sees of its feed, and whether the addons have been stopped.
FeedOf == [a \in Handlers |-> IF proc[a] = "none" THEN "none"
                              ELSE IF stdinClosed[a] THEN "closed" ELSE "open"]
Over == run \in {"wait", "close", "exited"}

LEMMA FeedRefines ==
  ASSUME AddonInv, BornInv, FeedInv, [Next]_vars
  PROVE  Feed!Next \/ (FeedOf' = FeedOf /\ writing' = writing /\ Over' = Over)
<1>1. /\ proc \in [Handlers -> {"none", "running", "exited", "killed"}]
      /\ stdinClosed \in [Handlers -> BOOLEAN] /\ writing \in [Handlers -> BOOLEAN]
      /\ toLaunch \subseteq Handlers /\ stopping \subseteq Handlers
  BY DEF AddonInv, RunnerTypeOK
<1>2. \A a \in Handlers : Fed(a) <=> FeedOf[a] = "open"
  BY <1>1 DEF Fed, FeedOf
<1>3. ASSUME NEW a \in Handlers, LaunchStart(a) PROVE Feed!Open(a)
  <2>1. proc[a] = "none" /\ ~stdinClosed[a] /\ ~Over
    BY <1>3 DEF LaunchStart, BornInv, NotYet, Over
  <2>2. UNCHANGED <<stdinClosed, writing, run>> /\ proc' = [proc EXCEPT ![a] = "running"]
    BY <1>3 DEF LaunchStart
  <2>3. FeedOf' = [FeedOf EXCEPT ![a] = "open"] /\ FeedOf[a] = "none"
    BY <1>1, <2>1, <2>2 DEF FeedOf
  <2> QED
    BY <2>1, <2>2, <2>3 DEF Feed!Open, FeedOf, Over
<1>4. ASSUME NEW a \in Handlers, HandleLock(a) PROVE Feed!BeginEvent(a)
  <2>1. Fed(a) /\ ~writing[a]
    BY <1>4 DEF HandleLock, BornInv, NotYet, Fed
  <2>2. UNCHANGED <<proc, stdinClosed, run>> /\ writing' = [writing EXCEPT ![a] = TRUE]
    BY <1>4 DEF HandleLock
  <2> QED
    BY <1>2, <2>1, <2>2 DEF Feed!BeginEvent, FeedOf, Over
<1>5. ASSUME NEW a \in Handlers, WriteSucceeds(a) PROVE Feed!EventWritten(a)
  BY <1>5 DEF WriteSucceeds, Feed!EventWritten, FeedOf, Over
<1>6. ASSUME NEW a \in Handlers, UNCHANGED <<proc, run>>, stdinClosed' = [stdinClosed EXCEPT ![a] = TRUE],
             proc[a] # "none"
      PROVE  FeedOf' = [FeedOf EXCEPT ![a] = "closed"] /\ Over' = Over
  BY <1>1, <1>6 DEF FeedOf, Over
<1>7. ASSUME NEW a \in Handlers, WriteFails(a) PROVE Feed!EventFails(a)
  <2>1. proc[a] # "none" /\ writing[a]
    BY <1>7 DEF WriteFails, BornInv, NotYet
  <2>2. UNCHANGED <<proc, run>> /\ stdinClosed' = [stdinClosed EXCEPT ![a] = TRUE]
        /\ writing' = [writing EXCEPT ![a] = FALSE]
    BY <1>7 DEF WriteFails
  <2> QED
    BY <1>6, <2>1, <2>2 DEF Feed!EventFails, FeedOf, Over
<1>8. ASSUME NEW a \in Handlers, WaitClosesFeed(a) \/ StopClosesStdin(a)
      PROVE  Feed!Close(a) \/ (FeedOf' = FeedOf /\ writing' = writing /\ Over' = Over)
  <2>1. proc[a] # "none" /\ ~writing[a]
    BY <1>8 DEF WaitClosesFeed, Waiter, StopClosesStdin, BornInv, NotYet
  <2>2. UNCHANGED <<proc, run, writing>> /\ stdinClosed' = [stdinClosed EXCEPT ![a] = TRUE]
    BY <1>8 DEF WaitClosesFeed, StopClosesStdin
  <2>3. FeedOf' = [FeedOf EXCEPT ![a] = "closed"] /\ Over' = Over
    BY <1>6, <2>1, <2>2
  <2>4. CASE Fed(a)
    BY <1>2, <2>1, <2>2, <2>3, <2>4 DEF Feed!Close, FeedOf, Over
  <2>5. CASE ~Fed(a)
    <3>1. FeedOf[a] = "closed"
      BY <2>1, <2>5 DEF FeedOf, Fed
    <3>2. FeedOf' = FeedOf
      BY <2>3, <3>1 DEF FeedOf
    <3> QED
      BY <2>2, <2>3, <3>2
  <2> QED
    BY <2>4, <2>5
<1>9. CASE StopBegin \/ StopStartsTimer
  <2>1. UNCHANGED <<proc, stdinClosed, writing>> /\ FeedOf' = FeedOf
    BY <1>9 DEF StopBegin, StopStartsTimer, addonVars, FeedOf
  <2>2. CASE Over'
    <3>1. FeedInv'
      BY FeedInvStep
    <3>2. \A a \in Handlers : ~Fed(a)'
      BY <2>2, <3>1 DEF FeedInv, StopReaches, Over
    <3>3. \A a \in Handlers : FeedOf[a] # "open"
      BY <1>2, <2>1, <3>2 DEF Fed
    <3> QED
      BY <2>1, <2>2, <3>3 DEF Feed!Next, Feed!End, FeedOf, Over
  <2>3. CASE ~Over'
    BY <1>9, <2>1, <2>3 DEF StopBegin, StopStartsTimer, Over
  <2> QED
    BY <2>2, <2>3
<1>10. CASE StartReturns \/ StopReturns \/ RunReturns \/ ServerExits
  BY <1>10 DEF StartReturns, StopReturns, RunReturns, ServerExits, addonVars, FeedOf, Over
<1>11. ASSUME NEW a \in Handlers, ProcessExits(a) \/ ProcessKilled(a)
       PROVE  FeedOf' = FeedOf /\ writing' = writing /\ Over' = Over
  <2>1. UNCHANGED <<stdinClosed, writing, run>> /\ \A b \in Handlers : proc'[b] = "none" <=> proc[b] = "none"
    BY <1>1, <1>11 DEF ProcessExits, ProcessKilled
  <2> QED
    BY <2>1 DEF FeedOf, Over
<1>12. CASE \/ \E p \in Publishers : Scan(p)
            \/ \E a \in Handlers : \/ HandleIgnored(a) \/ Drain(a) \/ LaunchFails(a)
                                   \/ WaitReaps(a) \/ WaitUnsubscribes(a) \/ WaitRemoves(a) \/ WaitReturns(a)
                                   \/ StopSeesExit(a) \/ StopGivesUp(a)
            \/ LaunchAppend \/ LaunchSubscribe \/ LaunchSetCleanup
            \/ Signal \/ CloseBus \/ DeadlineFires \/ UNCHANGED vars
  <2>1. UNCHANGED <<proc, stdinClosed, writing, run>>
    BY <1>12 DEF Scan, HandleIgnored, Drain, LaunchFails, WaitReaps, WaitUnsubscribes, WaitRemoves,
       WaitReturns, Waiter, StopSeesExit, StopGivesUp, LaunchAppend, LaunchSubscribe, LaunchSetCleanup,
       Signal, CloseBus, DeadlineFires, vars, addonVars, stopVars
  <2> QED
    BY <2>1 DEF FeedOf, Over
<1>13. \A a \in Handlers : Feed!Open(a) \/ Feed!BeginEvent(a) \/ Feed!EventWritten(a) \/ Feed!EventFails(a)
                           \/ Feed!Close(a) => Feed!Next
  BY DEF Feed!Next
<1> QED
  BY <1>3, <1>4, <1>5, <1>7, <1>8, <1>9, <1>10, <1>11, <1>12, <1>13
     DEF Next, LaunchStep, HandlerStep, WaiterStep, ShutdownStep

\* The supervisor implements the feed that AddonFeed promises each addon: it
\* is opened once, carries an event at a time, and once closed, by whomever,
\* it stays closed, as all are when the addons have been stopped.
THEOREM KeepsFeedPromise == Spec => FeedPromise
<1>1. Init => BornInv /\ FeedInv /\ Feed!Init
  BY DEF Init, BusInit, BornInv, NotYet, NoLaunch, FeedInv, OpenIsListed, WaiterCloses, StopReaches, Fed,
     Feed!Init
<1>2. (BusInv /\ AddonInv) /\ BornInv /\ FeedInv /\ [Next]_vars => BornInv' /\ FeedInv'
  BY BornStep, FeedInvStep
<1>3. (BusInv /\ AddonInv) /\ BornInv /\ FeedInv /\ [Next]_vars => [Feed!Next]_(Feed!vars)
  <2>1. AddonInv /\ BornInv /\ FeedInv /\ [Next]_vars => Feed!Next \/ UNCHANGED Feed!vars
    BY FeedRefines DEF FeedOf, Over, Feed!vars
  <2> QED
    BY <2>1
<1> QED
  BY <1>1, <1>2, <1>3, AddonInvariant, PTL DEF Spec, FeedPromise, Feed!Spec

-----------------------------------------------------------------------------
\* The supervisor and its addons are a client of the bus: whatever they do to
\* it is one of its operations, so all that is proved of the bus holds here.
THEOREM AddonsUseTheBus == Spec => BusSpec
<1>1. Init => BusInit
  BY DEF Init
<1>2. (BusInv /\ AddonInv) /\ [Next]_vars => [BusNext]_busVars
  BY BusStep DEF AddonInv
<1> QED
  BY <1>1, <1>2, AddonInvariant, PTL DEF Spec, BusSpec

=============================================================================
