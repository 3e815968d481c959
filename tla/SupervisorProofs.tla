--------------------------- MODULE SupervisorProofs ---------------------------
(***************************************************************************)
(* NobodyUnchecked and DedupeHolds proved of ConnectionTracker under any     *)
(* lines, and of the tracker inside Supervisor; and TrackerMirrorsGame and   *)
(* BlockedIsPursued of Supervisor; for any slots, addresses, windows,        *)
(* numbers of checks, lines and commands.  DedupeHolds needs the dedupe      *)
(* interval to be at most the age at which entries are pruned.               *)
(*                                                                          *)
(* The inductive invariant of the tracker: an entry of seenEvents is the     *)
(* time of the last check (SeenIsChecked), an address came to its slot no    *)
(* later than now (Clocks), and a check made while an address is in its slot *)
(* is remembered until it is pruned (Remembered).  That of the mirror: for   *)
(* each slot, the last unread line about it says who plays there, and if     *)
(* there is none the tracker knows (Mirrors).  That of the pursuit: players  *)
(* follow one another only past a departure (NoJumps), so that a duplicate   *)
(* is of who is tracked (SeenIsTracked), and who is tracked and blocked is   *)
(* pursued unless their departure is unread (PursuedOnceRead).               *)
(***************************************************************************)
EXTENDS Supervisor, SequenceTheorems, FiniteSetTheorems, TLAPS

Times == Nat \union {Never}

Clocks ==
  /\ now \in Nat
  /\ tracked \in [Slots -> Addrs \union {NoAddr}]
  /\ since \in [Slots -> Nat] /\ \A s \in Slots : since[s] <= now

SeenIsChecked ==
  /\ seen \in [Slots -> [Addrs -> Times]]
  /\ checkedAt \in [Slots -> [Addrs -> Times]]
  /\ \A s \in Slots, a \in Addrs :
       checkedAt[s][a] <= now /\ seen[s][a] \in {Never, checkedAt[s][a]}

Remembered ==
  \A s \in Slots, a \in Addrs :
    tracked[s] = a /\ checkedAt[s][a] # Never /\ since[s] <= checkedAt[s][a]
      => seen[s][a] = checkedAt[s][a] \/ now - checkedAt[s][a] > PruneAge

TInv == Clocks /\ SeenIsChecked /\ NobodyUnchecked /\ Remembered

-----------------------------------------------------------------------------
(* The maps.                                                                *)

\* Pruning forgets what is too old and keeps the rest.
LEMMA PrunedFacts ==
  ASSUME TInv
  PROVE  /\ Pruned \in [Slots -> [Addrs -> Times]]
         /\ \A s \in Slots, a \in Addrs :
              \/ Pruned[s][a] = seen[s][a]
              \/ Pruned[s][a] = Never /\ now - checkedAt[s][a] > PruneAge
<1>1. ASSUME NEW s \in Slots, NEW a \in Addrs
      PROVE  /\ Pruned[s][a] \in Times
             /\ \/ Pruned[s][a] = seen[s][a]
                \/ Pruned[s][a] = Never /\ now - checkedAt[s][a] > PruneAge
  <2>1. /\ Pruned[s][a] = IF seen[s][a] # Never /\ now - seen[s][a] > PruneAge THEN Never
                          ELSE seen[s][a]
        /\ seen[s][a] \in Times /\ seen[s][a] \in {Never, checkedAt[s][a]}
    BY DEF Pruned, TInv, SeenIsChecked
  <2> QED
    BY <2>1 DEF Times
<1>2. Pruned \in [Slots -> [Addrs -> Times]]
  BY <1>1 DEF Pruned
<1> QED
  BY <1>1, <1>2

\* An address is put in its slot, and checked unless it is a duplicate.
LEMMA ArrivalKeeps ==
  ASSUME TInv, NEW s \in Slots, NEW a \in Addrs, NEW kind,
         StoreConnectionState(s, a), ProcessConnectionEvent(s, a, kind), UNCHANGED now
  PROVE  TInv'
<1> USE DEF TInv
<1>1. /\ tracked' = [tracked EXCEPT ![s] = a]
      /\ since' = [since EXCEPT ![s] = IF tracked[s] = a THEN @ ELSE now]
  BY DEF StoreConnectionState
<1>2. Clocks'
  BY <1>1 DEF Clocks
<1>3. /\ tracked'[s] = a /\ \A r \in Slots \ {s} : tracked'[r] = tracked[r] /\ since'[r] = since[r]
      /\ since'[s] = IF tracked[s] = a THEN since[s] ELSE now
      /\ now \in Nat /\ since[s] \in Nat /\ since[s] <= now /\ now' = now
  BY <1>1 DEF Clocks
<1>4. CASE Duplicate(s, a) /\ seen' = Pruned /\ UNCHANGED checkedAt
  <2>1. SeenIsChecked'
    <3>1. \A r \in Slots, b \in Addrs : seen'[r][b] \in {Never, checkedAt'[r][b]} /\ checkedAt'[r][b] <= now'
      BY <1>3, <1>4, PrunedFacts DEF SeenIsChecked
    <3> QED
      BY <1>4, <3>1, PrunedFacts DEF SeenIsChecked
  <2>2. /\ seen'[s][a] = checkedAt[s][a] /\ checkedAt[s][a] # Never
        /\ now - checkedAt[s][a] < Dedupe
    BY <1>4, PrunedFacts DEF Duplicate, SeenIsChecked
  <2>3. NobodyUnchecked'
    BY <1>3, <1>4, <2>2 DEF NobodyUnchecked
  <2>4. Remembered'
    <3>1. ASSUME NEW r \in Slots, NEW b \in Addrs, r # s, tracked'[r] = b, checkedAt'[r][b] # Never,
                 since'[r] <= checkedAt'[r][b]
          PROVE  seen'[r][b] = checkedAt'[r][b] \/ now' - checkedAt'[r][b] > PruneAge
      <4>1. seen[r][b] = checkedAt[r][b] \/ now - checkedAt[r][b] > PruneAge
        BY <1>3, <1>4, <3>1 DEF Remembered
      <4>2. Pruned[r][b] = seen[r][b] \/ now - checkedAt[r][b] > PruneAge
        BY PrunedFacts
      <4> QED
        BY <1>3, <1>4, <4>1, <4>2
    <3> QED
      BY <1>3, <1>4, <2>2, <3>1 DEF Remembered
  <2> QED
    BY <1>2, <2>1, <2>3, <2>4
<1>5. CASE /\ seen' = [Pruned EXCEPT ![s][a] = now]
           /\ checkedAt' = [checkedAt EXCEPT ![s][a] = now]
  <2>1. /\ seen' \in [Slots -> [Addrs -> Times]] /\ checkedAt' \in [Slots -> [Addrs -> Times]]
        /\ seen'[s][a] = now /\ checkedAt'[s][a] = now
        /\ \A r \in Slots, b \in Addrs : (r # s \/ b # a) =>
             seen'[r][b] = Pruned[r][b] /\ checkedAt'[r][b] = checkedAt[r][b]
    BY <1>3, <1>5, PrunedFacts DEF SeenIsChecked, Times
  <2>2. SeenIsChecked'
    <3>1. ASSUME NEW r \in Slots, NEW b \in Addrs
          PROVE  checkedAt'[r][b] <= now' /\ seen'[r][b] \in {Never, checkedAt'[r][b]}
      <4>1. CASE r = s /\ b = a
        BY <1>3, <2>1, <4>1
      <4>2. CASE r # s \/ b # a
        <5>1. checkedAt[r][b] <= now /\ seen[r][b] \in {Never, checkedAt[r][b]}
          BY DEF SeenIsChecked
        <5>2. Pruned[r][b] \in {Never, seen[r][b]}
          BY PrunedFacts
        <5>3. seen'[r][b] = Pruned[r][b] /\ checkedAt'[r][b] = checkedAt[r][b]
          BY <2>1, <4>2
        <5> QED
          BY <1>3, <5>1, <5>2, <5>3
      <4> QED
        BY <4>1, <4>2
    <3> QED
      BY <2>1, <3>1 DEF SeenIsChecked
  <2>3. NobodyUnchecked'
    <3>1. since'[s] - now < Dedupe /\ now # Never
      BY <1>3, TrackerAssumption DEF Never
    <3>2. ASSUME NEW r \in Slots, r # s, tracked'[r] # NoAddr
          PROVE  checkedAt'[r][tracked'[r]] # Never /\ since'[r] - checkedAt'[r][tracked'[r]] < Dedupe
      <4>1. tracked[r] \in Addrs
        BY <1>3, <3>2 DEF Clocks
      <4> QED
        BY <1>3, <2>1, <3>2, <4>1 DEF NobodyUnchecked
    <3> QED
      BY <1>3, <2>1, <3>1, <3>2 DEF NobodyUnchecked
  <2>4. Remembered'
    <3>1. ASSUME NEW r \in Slots, NEW b \in Addrs, r # s, tracked'[r] = b, checkedAt'[r][b] # Never,
                 since'[r] <= checkedAt'[r][b]
          PROVE  seen'[r][b] = checkedAt'[r][b] \/ now' - checkedAt'[r][b] > PruneAge
      <4>1. seen[r][b] = checkedAt[r][b] \/ now - checkedAt[r][b] > PruneAge
        BY <1>3, <2>1, <3>1 DEF Remembered
      <4>2. Pruned[r][b] = seen[r][b] \/ now - checkedAt[r][b] > PruneAge
        BY PrunedFacts
      <4> QED
        BY <1>3, <2>1, <3>1, <4>1, <4>2
    <3> QED
      BY <1>3, <2>1, <3>1 DEF Remembered
  <2> QED
    BY <1>2, <2>2, <2>3, <2>4
<1> QED
  BY <1>4, <1>5 DEF ProcessConnectionEvent

-----------------------------------------------------------------------------
(* The lines.                                                               *)

\* A slot that is given up forgets the address it had.
LEMMA DisconnectKeeps ==
  ASSUME TInv, NEW s \in Slots, ClientDisconnect(s)
  PROVE  TInv'
<1> USE DEF TInv
<1>1. /\ tracked' = [tracked EXCEPT ![s] = NoAddr] /\ UNCHANGED <<now, checkedAt, since>>
      /\ seen' = IF tracked[s] = NoAddr THEN seen ELSE [seen EXCEPT ![s][tracked[s]] = Never]
  BY DEF ClientDisconnect
<1>2. Clocks'
  BY <1>1 DEF Clocks
<1>3. /\ seen' \in [Slots -> [Addrs -> Times]]
      /\ \A r \in Slots, b \in Addrs : seen'[r][b] = seen[r][b] \/ (r = s /\ seen'[r][b] = Never)
  BY <1>1 DEF Clocks, SeenIsChecked, Times
<1>4. SeenIsChecked'
  BY <1>1, <1>3 DEF SeenIsChecked
<1>5. tracked'[s] = NoAddr /\ \A r \in Slots \ {s} : tracked'[r] = tracked[r]
  BY <1>1 DEF Clocks
<1>6. NobodyUnchecked'
  BY <1>1, <1>5 DEF NobodyUnchecked
<1>7. Remembered'
  BY <1>1, <1>3, <1>5, TrackerAssumption DEF Remembered, NoAddr
<1> QED
  BY <1>2, <1>4, <1>6, <1>7

\* An address that is repeated changes nothing.
LEMMA UserinfoKeeps ==
  ASSUME TInv, NEW s \in Slots, NEW a \in Addrs, ClientUserinfoChanged(s, a)
  PROVE  TInv'
<1>1. CASE tracked[s] = a
  <2>1. tracked' = tracked /\ since' = since /\ UNCHANGED <<now, seen, checkedAt>>
    BY <1>1 DEF ClientUserinfoChanged, StoreConnectionState, TInv, Clocks
  <2> QED
    BY <2>1 DEF TInv, Clocks, SeenIsChecked, NobodyUnchecked, Remembered
<1>2. CASE tracked[s] # a
  BY <1>2, ArrivalKeeps DEF ClientUserinfoChanged
<1> QED
  BY <1>1, <1>2

\* No slot is tracked and nothing was checked.
LEMMA Initially == TrackerInit => TInv
<1> SUFFICES ASSUME TrackerInit PROVE TInv
  OBVIOUS
<1>1. Clocks /\ SeenIsChecked
  BY DEF TrackerInit, Clocks, SeenIsChecked, Times, Never
<1>2. NobodyUnchecked /\ Remembered
  BY TrackerAssumption DEF TrackerInit, NobodyUnchecked, Remembered, NoAddr
<1> QED
  BY <1>1, <1>2 DEF TInv

\* Every line keeps the invariant, and so does time.
LEMMA Inductive == TInv /\ [TrackerNext]_trackerVars => TInv'
<1> SUFFICES ASSUME TInv, [TrackerNext]_trackerVars PROVE TInv'
  OBVIOUS
<1>1. ASSUME NEW s \in Slots, NEW a \in Addrs, ClientConnect(s, a) PROVE TInv'
  BY <1>1, ArrivalKeeps DEF ClientConnect
<1>2. CASE InitGame \/ UNCHANGED trackerVars
  BY <1>2 DEF InitGame, trackerVars, trackerState, TInv, Clocks, SeenIsChecked, NobodyUnchecked, Remembered
<1>3. CASE Tick
  <2>1. now' = now + 1 /\ UNCHANGED <<tracked, seen, checkedAt, since>> /\ now \in Nat
    BY <1>3 DEF Tick, trackerState, TInv, Clocks
  <2>2. Clocks' /\ NobodyUnchecked'
    BY <2>1 DEF TInv, Clocks, NobodyUnchecked
  <2>3. \A s \in Slots, a \in Addrs : checkedAt[s][a] \in Int
    BY DEF TInv, SeenIsChecked, Times, Never
  <2>4. SeenIsChecked' /\ Remembered'
    BY <2>1, <2>3, TrackerAssumption DEF TInv, SeenIsChecked, Remembered
  <2> QED
    BY <2>2, <2>4 DEF TInv
<1> QED
  BY <1>1, <1>2, <1>3, UserinfoKeeps, DisconnectKeeps DEF TrackerNext

\* The invariant holds of every sequence of lines.
LEMMA Invariant == TrackerSpec => []TInv
  BY Initially, Inductive, PTL DEF TrackerSpec

-----------------------------------------------------------------------------
(* The theorems.                                                            *)

\* Whatever lines come in whatever order, through map restarts and early
\* returns: the address of every slot was checked there.
THEOREM EverybodyIsChecked == TrackerSpec => []NobodyUnchecked
<1>1. TInv => NobodyUnchecked
  BY DEF TInv
<1> QED
  BY <1>1, Invariant, PTL

\* A check that is started is the first in its interval, for an interval of
\* at most PruneAge.
LEMMA ArrivalIsSpaced ==
  ASSUME Dedupe <= PruneAge, TInv, NEW s \in Slots, NEW a \in Addrs, NEW kind,
         ProcessConnectionEvent(s, a, kind),
         NEW r \in Slots, NEW b \in Addrs,
         checkedAt[r][b] # Never, checkedAt'[r][b] # checkedAt[r][b],
         tracked[r] = b, since[r] <= checkedAt[r][b]
  PROVE  checkedAt'[r][b] - checkedAt[r][b] >= Dedupe
<1>1. ~Duplicate(s, a) /\ checkedAt' = [checkedAt EXCEPT ![s][a] = now]
  BY DEF ProcessConnectionEvent
<1>2. r = s /\ b = a /\ checkedAt'[r][b] = now
  BY <1>1 DEF TInv, SeenIsChecked
<1>3. seen[s][a] = checkedAt[s][a] \/ now - checkedAt[s][a] > PruneAge
  BY <1>2 DEF TInv, Remembered
<1>4. Pruned[s][a] = checkedAt[s][a] \/ now - checkedAt[s][a] > PruneAge
  BY <1>3, PrunedFacts
<1>5. now \in Nat /\ checkedAt[s][a] \in Times
  BY DEF TInv, Clocks, SeenIsChecked
<1> QED
  BY <1>1, <1>2, <1>4, <1>5, TrackerAssumption DEF Duplicate, Times, Never

\* No sequence of lines makes an address be checked twice within the dedupe
\* interval while it keeps its slot.
THEOREM ChecksAreSpaced ==
  ASSUME Dedupe <= PruneAge
  PROVE  TrackerSpec => DedupeHolds
<1> DEFINE Spaced == \A s \in Slots, a \in Addrs :
                       /\ checkedAt[s][a] # Never
                       /\ checkedAt'[s][a] # checkedAt[s][a]
                       /\ tracked[s] = a /\ since[s] <= checkedAt[s][a]
                       => checkedAt'[s][a] - checkedAt[s][a] >= Dedupe
<1>1. TInv /\ [TrackerNext]_trackerVars => [Spaced]_trackerVars
  <2> SUFFICES ASSUME TInv, TrackerNext, NEW r \in Slots, NEW b \in Addrs,
                      checkedAt[r][b] # Never, checkedAt'[r][b] # checkedAt[r][b],
                      tracked[r] = b, since[r] <= checkedAt[r][b]
               PROVE  checkedAt'[r][b] - checkedAt[r][b] >= Dedupe
    OBVIOUS
  <2>1. PICK s \in Slots, a \in Addrs : \E kind \in Kinds : ProcessConnectionEvent(s, a, kind)
    BY DEF TrackerNext, ClientConnect, ClassifyConnect, ClientUserinfoChanged, ClientDisconnect, InitGame,
           Tick, Kinds
  <2> QED
    BY <2>1, ArrivalIsSpaced
<1> QED
  BY <1>1, Invariant, PTL DEF TrackerSpec, DedupeHolds

-----------------------------------------------------------------------------
(* The mirror.                                                              *)

\* Who plays in its slot after a line about it.
After(l) == IF l.kind = "disconnect" THEN NoAddr ELSE l.addr

\* With the lines q unread the tracker has t for slot s, where o plays.
Mirrors(q, s, t, o) ==
  \/ (\A i \in 1 .. Len(q) : ~About(s, q[i])) /\ t = o
  \/ \E i \in 1 .. Len(q) : /\ About(s, q[i]) /\ After(q[i]) = o
                            /\ \A j \in i + 1 .. Len(q) : ~About(s, q[j])

IsSequence(q) == \E L : q \in Seq(L)

\* What a line says when it announces a player.
Announces(q) ==
  \A i \in 1 .. Len(q) : q[i].kind \in {"connect", "userinfo"} => q[i].slot \in Slots /\ q[i].addr \in Addrs

MInv ==
  /\ IsSequence(stdout) /\ Announces(stdout)
  /\ tracked \in [Slots -> Addrs \union {NoAddr}]
  /\ occupant \in [Slots -> Addrs \union {NoAddr}]
  /\ \A s \in Slots : Mirrors(stdout, s, tracked[s], occupant[s])

\* One more line at the end.
LEMMA Longer ==
  ASSUME NEW q, IsSequence(q), NEW l
  PROVE  /\ IsSequence(q \o <<l>>) /\ Len(q \o <<l>>) = Len(q) + 1 /\ Len(q) \in Nat
         /\ (q \o <<l>>)[Len(q) + 1] = l
         /\ \A i \in 1 .. Len(q) : (q \o <<l>>)[i] = q[i]
<1>1. PICK L : q \in Seq(L)
  BY DEF IsSequence
<1>2. q \in Seq(L \union {l}) /\ <<l>> \in Seq(L \union {l})
  BY <1>1
<1>3. /\ q \o <<l>> \in Seq(L \union {l}) /\ Len(q \o <<l>>) = Len(q) + Len(<<l>>)
      /\ \A i \in 1 .. Len(q) + Len(<<l>>) :
           (q \o <<l>>)[i] = IF i <= Len(q) THEN q[i] ELSE <<l>>[i - Len(q)]
  BY <1>2, ConcatProperties
<1> QED
  BY <1>1, <1>3 DEF IsSequence

\* A printed line that tells of s tells what is so, and the others change
\* nothing for it.
LEMMA PrintedMirrors ==
  ASSUME NEW q, IsSequence(q), NEW l, NEW s, NEW t, NEW o, NEW p, Mirrors(q, s, t, o),
         IF About(s, l) THEN After(l) = p ELSE p = o
  PROVE  Mirrors(q \o <<l>>, s, t, p)
<1> DEFINE ql == q \o <<l>>
<1>1. /\ Len(ql) = Len(q) + 1 /\ Len(q) \in Nat /\ ql[Len(q) + 1] = l
      /\ \A i \in 1 .. Len(q) : ql[i] = q[i]
  BY Longer
<1> HIDE DEF ql
<1>2. CASE About(s, l)
  <2>1. Len(ql) \in 1 .. Len(ql) /\ About(s, ql[Len(ql)]) /\ After(ql[Len(ql)]) = p
    BY <1>1, <1>2
  <2>2. Mirrors(ql, s, t, p)
    BY <1>1, <2>1 DEF Mirrors
  <2> QED
    BY <2>2 DEF ql
<1>3. CASE ~About(s, l)
  <2>1. CASE (\A i \in 1 .. Len(q) : ~About(s, q[i])) /\ t = o
    <3>1. \A i \in 1 .. Len(ql) : ~About(s, ql[i])
      BY <1>1, <1>3, <2>1
    <3>2. Mirrors(ql, s, t, p)
      BY <1>3, <2>1, <3>1 DEF Mirrors
    <3> QED
      BY <3>2 DEF ql
  <2>2. ASSUME NEW i \in 1 .. Len(q), About(s, q[i]), After(q[i]) = o,
               \A j \in i + 1 .. Len(q) : ~About(s, q[j])
        PROVE  Mirrors(ql, s, t, p)
    <3>1. \A j \in i + 1 .. Len(ql) : ~About(s, ql[j])
      BY <1>1, <1>3, <2>2
    <3>2. i \in 1 .. Len(ql) /\ ql[i] = q[i]
      BY <1>1, <2>2
    <3> QED
      BY <1>3, <2>2, <3>1, <3>2 DEF Mirrors
  <2> QED
    BY <2>1, <2>2 DEF Mirrors, ql
<1> QED
  BY <1>2, <1>3

\* The next line is read, and the tracker follows it.
LEMMA ReadMirrors ==
  ASSUME NEW q, IsSequence(q), q # <<>>, NEW s, NEW t, NEW u, NEW o, Mirrors(q, s, t, o),
         u = IF About(s, Head(q)) THEN After(Head(q)) ELSE t
  PROVE  Mirrors(Tail(q), s, u, o)
<1> DEFINE r == Tail(q)
<1>1. /\ Len(q) \in Nat /\ Len(q) >= 1 /\ Len(r) = Len(q) - 1 /\ Head(q) = q[1]
      /\ \A i \in 1 .. Len(r) : r[i] = q[i + 1]
  <2>1. PICK L : q \in Seq(L)
    BY DEF IsSequence
  <2> QED
    BY <2>1
<1> HIDE DEF r
<1>2. CASE (\A i \in 1 .. Len(q) : ~About(s, q[i])) /\ t = o
  <2>1. Mirrors(r, s, u, o)
    BY <1>1, <1>2 DEF Mirrors
  <2> QED
    BY <2>1 DEF r
<1>3. ASSUME NEW i \in 1 .. Len(q), About(s, q[i]), After(q[i]) = o,
             \A j \in i + 1 .. Len(q) : ~About(s, q[j])
      PROVE  Mirrors(r, s, u, o)
  <2>1. CASE i = 1
    <3>1. u = o /\ \A j \in 1 .. Len(r) : ~About(s, r[j])
      BY <1>1, <1>3, <2>1
    <3> QED
      BY <3>1 DEF Mirrors
  <2>2. CASE i # 1
    <3>1. i - 1 \in 1 .. Len(r) /\ r[i - 1] = q[i]
      BY <1>1, <1>3, <2>2
    <3>2. \A j \in (i - 1) + 1 .. Len(r) : ~About(s, r[j])
      BY <1>1, <1>3, <2>2
    <3> QED
      BY <1>3, <3>1, <3>2 DEF Mirrors
  <2> QED
    BY <2>1, <2>2
<1> QED
  BY <1>2, <1>3 DEF Mirrors, r


\* SetToSeq lists a finite set, each element once.
LEMMA Listing ==
  ASSUME NEW P, IsFiniteSet(P)
  PROVE  /\ SetToSeq(P) \in Seq(P) /\ DOMAIN SetToSeq(P) = 1 .. Len(SetToSeq(P))
         /\ \A x \in P : \E i \in DOMAIN SetToSeq(P) :
              SetToSeq(P)[i] = x /\ \A j \in DOMAIN SetToSeq(P) : SetToSeq(P)[j] = x => j = i
<1> DEFINE n == Cardinality(P)
           f == SetToSeq(P)
<1>1. n \in Nat /\ ExistsBijection(1 .. n, P)
  BY FS_CardinalityType
<1>2. f \in [1 .. n -> P] /\ IsInjective(f)
  <2>1. \E g \in [1 .. n -> P] : IsInjective(g)
    BY <1>1 DEF ExistsBijection, Bijection, Injection
  <2> QED
    BY <2>1 DEF SetToSeq
<1>3. f \in Surjection(1 .. n, P)
  <2>1. f \in Injection(1 .. n, P)
    BY <1>2 DEF Injection
  <2>2. Cardinality(1 .. n) = n
    BY <1>1, FS_Interval
  <2> QED
    BY <2>1, <2>2, FS_Injection
<1> HIDE DEF n, f
<1>4. f \in Seq(P) /\ DOMAIN f = 1 .. n /\ Len(f) = n
  BY <1>1, <1>2
<1>5. \A x \in P : \E i \in 1 .. n : f[i] = x
  BY <1>3 DEF Surjection
<1>6. \A x \in P : \E i \in DOMAIN f : f[i] = x /\ \A j \in DOMAIN f : f[j] = x => j = i
  BY <1>2, <1>4, <1>5 DEF IsInjective
<1> QED
  BY <1>4, <1>6 DEF f

LEMMA AnnouncedLonger ==
  ASSUME NEW q, IsSequence(q), NEW l, Announces(q),
         l.kind \in {"connect", "userinfo"} => l.slot \in Slots /\ l.addr \in Addrs
  PROVE  Announces(q \o <<l>>)
<1> DEFINE ql == q \o <<l>>
<1>1. /\ Len(ql) = Len(q) + 1 /\ Len(q) \in Nat /\ ql[Len(q) + 1] = l
      /\ \A i \in 1 .. Len(q) : ql[i] = q[i]
  BY Longer
<1> HIDE DEF ql
<1>2. Announces(ql)
  BY <1>1 DEF Announces
<1> QED
  BY <1>2 DEF ql

\* The game prints a line: of what it tells, or of nobody.
LEMMA PrintKeeps ==
  ASSUME MInv, NEW l, Printed(<<l>>), tracked' = tracked,
         occupant' \in [Slots -> Addrs \union {NoAddr}],
         l.kind \in {"connect", "userinfo"} => l.slot \in Slots /\ l.addr \in Addrs,
         \A s \in Slots : IF About(s, l) THEN After(l) = occupant'[s] ELSE occupant'[s] = occupant[s]
  PROVE  MInv'
<1>1. stdout' = stdout \o <<l>>
  BY DEF Printed
<1>2. IsSequence(stdout \o <<l>>) /\ Announces(stdout \o <<l>>)
  BY Longer, AnnouncedLonger DEF MInv
<1>3. ASSUME NEW s \in Slots PROVE Mirrors(stdout \o <<l>>, s, tracked[s], occupant'[s])
  BY PrintedMirrors DEF MInv
<1> QED
  BY <1>1, <1>2, <1>3 DEF MInv

\* After a map restart every player is announced anew, once, and nobody else.
LEMMA RestartKeeps ==
  ASSUME MInv, MapRestart
  PROVE  /\ MInv'
         /\ \A s \in Slots, i \in 1 .. Len(stdout') :
              About(s, stdout'[i]) => After(stdout'[i]) = tracked[s]
<1> DEFINE P == {s \in Slots : occupant[s] # NoAddr}
           playing == SetToSeq(P)
           told == [i \in DOMAIN playing |-> Line("connect", playing[i], occupant[playing[i]])]
           init == Line("init", NoAddr, NoAddr)
           L == {Line("connect", s, occupant[s]) : s \in P} \union {init}
<1>1. IsFiniteSet(P)
  <2>1. P \in SUBSET Slots
    OBVIOUS
  <2> HIDE DEF P
  <2> QED
    BY <2>1, SupervisorAssumption, FS_Subset
<1>2. UNCHANGED <<tracked, occupant>> /\ stdout = <<>> /\ stdout' = stdout \o (<<init>> \o told)
  BY DEF MapRestart, Printed, trackerVars, trackerState
<1>3. \A s \in Slots : tracked[s] = occupant[s]
  BY <1>2 DEF MInv, Mirrors
<1>4. /\ playing \in Seq(P) /\ DOMAIN playing = 1 .. Len(playing)
      /\ \A s \in P : \E i \in DOMAIN playing :
           playing[i] = s /\ \A j \in DOMAIN playing : playing[j] = s => j = i
  <2> HIDE DEF P
  <2> QED
    BY <1>1, Listing
<1>5. told \in Seq(L) /\ Len(told) = Len(playing) /\ <<init>> \in Seq(L)
  <2> HIDE DEF playing, P
  <2>1. \A i \in 1 .. Len(playing) : playing[i] \in P
    BY <1>4
  <2> QED
    BY <1>4, <2>1
<1> DEFINE q == <<init>> \o told
<1>6. /\ stdout' = q /\ q \in Seq(L) /\ Len(q) = Len(playing) + 1 /\ q[1] = init /\ Len(playing) \in Nat
      /\ \A i \in 1 .. Len(playing) : q[i + 1] = Line("connect", playing[i], occupant[playing[i]])
  <2>1. stdout' = <<>> \o q
    BY <1>2
  <2> HIDE DEF playing, P, init, L
  <2>2. /\ q \in Seq(L) /\ Len(q) = Len(<<init>>) + Len(told)
        /\ \A i \in 1 .. Len(<<init>>) + Len(told) :
             q[i] = IF i <= Len(<<init>>) THEN <<init>>[i] ELSE told[i - Len(<<init>>)]
    <3> HIDE DEF told
    <3> QED
      BY <1>5, ConcatProperties
  <2>3. <<>> \o q = q
    <3> HIDE DEF q
    <3> QED
      BY <2>2, ConcatEmptySeq
  <2>4. \A i \in 1 .. Len(playing) : q[i + 1] = told[i]
    <3> HIDE DEF told, q
    <3> QED
      BY <1>5, <1>4, <2>2
  <2>5. q[1] = init /\ Len(q) = Len(playing) + 1 /\ Len(playing) \in Nat
    <3> HIDE DEF told, q
    <3> QED
      BY <1>4, <1>5, <2>2
  <2> QED
    BY <1>4, <2>1, <2>2, <2>3, <2>4, <2>5
<1>7. \A i \in 1 .. Len(playing) : playing[i] \in P
  <2> HIDE DEF playing, P
  <2> QED
    BY <1>4
<1> HIDE DEF q, told, playing
<1>8. Announces(q)
  <2>1. ASSUME NEW i \in 1 .. Len(q), q[i].kind \in {"connect", "userinfo"}
        PROVE  q[i].slot \in Slots /\ q[i].addr \in Addrs
    <3>1. i # 1 /\ i - 1 \in 1 .. Len(playing) /\ i = (i - 1) + 1
      BY <1>6, <2>1 DEF Line
    <3>2. PICK k \in 1 .. Len(playing) : i = k + 1
      BY <3>1
    <3>3. q[i] = Line("connect", playing[k], occupant[playing[k]])
      BY <1>6, <3>2
    <3> QED
      BY <1>7, <3>2, <3>3 DEF Line, MInv
  <2> QED
    BY <2>1 DEF Announces
<1>9. ASSUME NEW s \in Slots PROVE Mirrors(q, s, tracked[s], occupant[s])
  <2>1. \A i \in 1 .. Len(q) : i = 1 \/ \E k \in 1 .. Len(playing) : i = k + 1
    <3> SUFFICES ASSUME NEW i \in 1 .. Len(q), i # 1 PROVE \E k \in 1 .. Len(playing) : i = k + 1
      OBVIOUS
    <3>1. i - 1 \in 1 .. Len(playing) /\ i = (i - 1) + 1
      BY <1>6
    <3> QED
      BY <3>1
  <2>2. /\ ~About(s, q[1])
        /\ \A k \in 1 .. Len(playing) :
             (About(s, q[k + 1]) <=> playing[k] = s) /\ After(q[k + 1]) = occupant[playing[k]]
    <3>1. ~About(s, init)
      BY DEF About, Line
    <3>2. ASSUME NEW k \in 1 .. Len(playing), NEW l, l = Line("connect", playing[k], occupant[playing[k]])
          PROVE  (About(s, l) <=> playing[k] = s) /\ After(l) = occupant[playing[k]]
      BY <3>2 DEF About, After, Line
    <3> HIDE DEF init
    <3> QED
      BY <1>6, <3>1, <3>2
  <2>3. CASE occupant[s] = NoAddr
    <3>1. \A k \in 1 .. Len(playing) : playing[k] # s
      BY <1>7, <2>3
    <3>2. \A i \in 1 .. Len(q) : ~About(s, q[i])
      BY <2>1, <2>2, <3>1
    <3> QED
      BY <1>3, <3>2 DEF Mirrors
  <2>4. CASE occupant[s] # NoAddr
    <3>1. PICK k \in 1 .. Len(playing) :
            playing[k] = s /\ \A j \in 1 .. Len(playing) : playing[j] = s => j = k
      <4>1. s \in P
        BY <2>4
      <4> HIDE DEF P
      <4> QED
        BY <1>4, <4>1, Zenon
    <3>2. k + 1 \in 1 .. Len(q) /\ About(s, q[k + 1]) /\ After(q[k + 1]) = occupant[s]
      <4>1. k + 1 \in 1 .. Len(q)
        BY <1>6
      <4> QED
        BY <2>2, <3>1, <4>1
    <3>3. ASSUME NEW j \in (k + 1) + 1 .. Len(q) PROVE ~About(s, q[j])
      <4>1. j \in 1 .. Len(q) /\ j # 1 /\ j # k + 1
        BY <1>6, <3>3
      <4>2. PICK m \in 1 .. Len(playing) : j = m + 1
        BY <2>1, <4>1
      <4>3. m # k
        BY <4>1, <4>2
      <4> QED
        BY <2>2, <3>1, <4>2, <4>3
    <3> QED
      BY <3>2, <3>3 DEF Mirrors
  <2> QED
    BY <2>3, <2>4
<1>10. ASSUME NEW s \in Slots, NEW i \in 1 .. Len(q), About(s, q[i])
       PROVE  After(q[i]) = tracked[s]
  <2>1. i # 1
    BY <1>6, <1>10 DEF About, Line
  <2>2. i - 1 \in 1 .. Len(playing) /\ i = (i - 1) + 1
    BY <1>6, <2>1
  <2>3. PICK k \in 1 .. Len(playing) : i = k + 1
    BY <2>2
  <2>4. q[i] = Line("connect", playing[k], occupant[playing[k]])
    BY <1>6, <2>3
  <2>5. playing[k] = s /\ After(q[i]) = occupant[playing[k]]
    BY <1>10, <2>4 DEF About, After, Line
  <2> QED
    BY <1>3, <2>5
<1>11. MInv'
  BY <1>2, <1>6, <1>8, <1>9 DEF MInv, IsSequence
<1> QED
  BY <1>6, <1>10, <1>11

\* The scanner reads a line, and the tracker does what it says.
LEMMA ReadKeeps ==
  ASSUME MInv, NEW c \in Checkers, HandleLine(c)
  PROVE  MInv'
<1> DEFINE l == Head(stdout)
<1>1. /\ stdout # <<>> /\ stdout' = Tail(stdout) /\ occupant' = occupant
      /\ \/ l.kind = "connect" /\ ClientConnect(l.slot, l.addr)
         \/ l.kind = "userinfo" /\ ClientUserinfoChanged(l.slot, l.addr)
         \/ l.kind = "disconnect" /\ ClientDisconnect(l.slot)
         \/ l.kind = "init" /\ InitGame
         \/ l.kind = "badrcon" /\ HandleBadRcon(l.addr)
  BY DEF HandleLine
<1>2. /\ IsSequence(Tail(stdout)) /\ Len(stdout) \in Nat /\ Len(stdout) >= 1 /\ l = stdout[1]
      /\ Len(Tail(stdout)) = Len(stdout) - 1
      /\ \A i \in 1 .. Len(Tail(stdout)) : Tail(stdout)[i] = stdout[i + 1]
  <2>1. PICK L : stdout \in Seq(L)
    BY DEF MInv, IsSequence
  <2>2. Tail(stdout) \in Seq(L)
    BY <1>1, <2>1
  <2> QED
    BY <1>1, <2>1, <2>2 DEF IsSequence
<1>3. l.kind \in {"connect", "userinfo"} => l.slot \in Slots /\ l.addr \in Addrs
  BY <1>2 DEF MInv, Announces
<1>4. Announces(Tail(stdout))
  BY <1>2 DEF MInv, Announces
<1> HIDE DEF l
<1>5. /\ tracked' \in [Slots -> Addrs \union {NoAddr}]
      /\ \A s \in Slots : tracked'[s] = IF About(s, l) THEN After(l) ELSE tracked[s]
  <2> USE DEF MInv, About, After
  <2>1. CASE l.kind = "connect" /\ ClientConnect(l.slot, l.addr)
    BY <1>3, <2>1 DEF ClientConnect, StoreConnectionState
  <2>2. CASE l.kind = "userinfo" /\ ClientUserinfoChanged(l.slot, l.addr)
    BY <1>3, <2>2 DEF ClientUserinfoChanged, StoreConnectionState
  <2>3. CASE l.kind = "disconnect" /\ ClientDisconnect(l.slot)
    BY <2>3 DEF ClientDisconnect
  <2>4. CASE l.kind \in {"init", "badrcon"} /\ (InitGame \/ HandleBadRcon(l.addr))
    BY <2>4 DEF InitGame, HandleBadRcon, trackerState
  <2> QED
    BY <1>1, <2>1, <2>2, <2>3, <2>4
<1>6. ASSUME NEW s \in Slots PROVE Mirrors(Tail(stdout), s, tracked'[s], occupant[s])
  BY <1>1, <1>5, ReadMirrors DEF MInv, l
<1> QED
  BY <1>1, <1>2, <1>4, <1>5, <1>6 DEF MInv

\* Nobody plays and nothing is printed.
LEMMA MirrorInitially == Init => MInv
<1> SUFFICES ASSUME Init PROVE MInv
  OBVIOUS
<1>1. stdout = <<>> /\ <<>> \in Seq(Addrs) /\ Len(stdout) = 0
  BY DEF Init
<1>2. IsSequence(stdout) /\ Announces(stdout)
  BY <1>1 DEF IsSequence, Announces
<1> QED
  BY <1>1, <1>2 DEF Init, TrackerInit, MInv, Mirrors

LEMMA MirrorStep == MInv /\ [Next]_vars => MInv'
<1> SUFFICES ASSUME MInv, [Next]_vars PROVE MInv'
  OBVIOUS
<1>1. ASSUME NEW s \in Slots, NEW a \in Addrs, Join(s, a) PROVE MInv'
  <2>1. /\ Printed(<<Line("connect", s, a)>>) /\ tracked' = tracked
        /\ occupant' = [occupant EXCEPT ![s] = a]
    BY <1>1 DEF Join, trackerVars, trackerState
  <2>2. /\ occupant' \in [Slots -> Addrs \union {NoAddr}]
        /\ \A r \in Slots : IF About(r, Line("connect", s, a))
                            THEN After(Line("connect", s, a)) = occupant'[r]
                            ELSE occupant'[r] = occupant[r]
    BY <2>1 DEF About, After, Line, MInv
  <2> QED
    BY <2>1, <2>2, PrintKeeps DEF Line
<1>2. ASSUME NEW s, occupant' = [occupant EXCEPT ![s] = NoAddr], tracked' = tracked,
             Printed(<<Line("disconnect", s, NoAddr)>>)
      PROVE  MInv'
  <2>1. /\ occupant' \in [Slots -> Addrs \union {NoAddr}]
        /\ \A r \in Slots : IF About(r, Line("disconnect", s, NoAddr))
                            THEN After(Line("disconnect", s, NoAddr)) = occupant'[r]
                            ELSE occupant'[r] = occupant[r]
    BY <1>2 DEF About, After, Line, MInv
  <2> QED
    BY <1>2, <2>1, PrintKeeps DEF Line
<1>3. ASSUME UNCHANGED <<tracked, occupant, stdout>> PROVE MInv'
  BY <1>3 DEF MInv
<1>4. ASSUME NEW s \in Slots, Leave(s) PROVE MInv'
  BY <1>2, <1>4 DEF Leave, trackerVars, trackerState
<1>5. ASSUME NEW k \in {"userinfo", "badrcon"}, NEW s \in Slots, Chatter(k, s) PROVE MInv'
  <2> DEFINE l == Line(k, IF k = "badrcon" THEN NoAddr ELSE s, occupant[s])
  <2>1. Printed(<<l>>) /\ UNCHANGED <<tracked, occupant>> /\ occupant[s] # NoAddr
    BY <1>5 DEF Chatter, trackerVars, trackerState
  <2>2. l.kind \in {"connect", "userinfo"} => l.slot \in Slots /\ l.addr \in Addrs
    BY <2>1 DEF Line, MInv
  <2>3. \A r \in Slots : About(r, l) => After(l) = occupant[r]
    BY DEF About, After, Line
  <2> HIDE DEF l
  <2> QED
    BY <2>1, <2>2, <2>3, PrintKeeps DEF MInv
<1>6. CASE ExecuteKick
  BY <1>2, <1>3, <1>6 DEF ExecuteKick, trackerVars, trackerState
<1>7. CASE Clock \/ UNCHANGED vars
  BY <1>3, <1>7 DEF Clock, Tick, vars, gameVars, trackerVars, trackerState
<1>8. ASSUME NEW c \in Checkers, CheckerStep(c) PROVE MInv'
  BY <1>3, <1>8 DEF CheckerStep, AcquireSlot, Decided, EnforceDecision, gameVars, trackerVars, trackerState
<1> QED
  BY <1>1, <1>4, <1>5, <1>6, <1>7, <1>8, RestartKeeps, ReadKeeps DEF Next

\* For any number of players, restarts, kicks and unread lines: once the
\* scanner has caught up the tracker knows who plays in each slot.
THEOREM TrackerKnowsWhoPlays == Spec => []TrackerMirrorsGame
<1>1. MInv => TrackerMirrorsGame
  <2> SUFFICES ASSUME MInv, stdout = <<>> PROVE tracked = occupant
    BY DEF TrackerMirrorsGame
  <2>1. \A s \in Slots : tracked[s] = occupant[s]
    BY DEF MInv, Mirrors
  <2> QED
    BY <2>1 DEF MInv
<1> QED
  BY <1>1, MirrorInitially, MirrorStep, PTL DEF Spec

-----------------------------------------------------------------------------
(* The tracker inside the supervisor.                                       *)

\* The line at hand names a slot and an address of a player.
LEMMA LineAtHand ==
  ASSUME MInv, stdout # <<>>, Head(stdout).kind \in {"connect", "userinfo"}
  PROVE  Head(stdout).slot \in Slots /\ Head(stdout).addr \in Addrs
<1>1. PICK L : stdout \in Seq(L)
  BY DEF MInv, IsSequence
<1>2. Head(stdout) = stdout[1] /\ 1 \in 1 .. Len(stdout)
  BY <1>1
<1> QED
  BY <1>2 DEF MInv, Announces

\* A line about a slot the server does not have changes no entry.
LEMMA ScannerKeepsTracker ==
  ASSUME MInv, TInv, [Next]_vars
  PROVE  TInv'
<1>1. ASSUME UNCHANGED <<now, tracked, seen, checkedAt, since>> PROVE TInv'
  BY <1>1 DEF TInv, Clocks, SeenIsChecked, NobodyUnchecked, Remembered
<1>2. ASSUME NEW c \in Checkers, HandleLine(c) PROVE TInv'
  <2> DEFINE l == Head(stdout)
  <2>1. /\ stdout # <<>>
        /\ \/ l.kind = "connect" /\ ClientConnect(l.slot, l.addr)
           \/ l.kind = "userinfo" /\ ClientUserinfoChanged(l.slot, l.addr)
           \/ l.kind = "disconnect" /\ ClientDisconnect(l.slot)
           \/ l.kind = "init" /\ InitGame
           \/ l.kind = "badrcon" /\ HandleBadRcon(l.addr)
    BY <1>2 DEF HandleLine
  <2>2. l.kind \in {"connect", "userinfo"} => l.slot \in Slots /\ l.addr \in Addrs
    BY <2>1, LineAtHand
  <2> HIDE DEF l
  <2>3. CASE l.kind = "connect" /\ ClientConnect(l.slot, l.addr)
    BY <2>2, <2>3, ArrivalKeeps DEF ClientConnect
  <2>4. CASE l.kind = "userinfo" /\ ClientUserinfoChanged(l.slot, l.addr)
    BY <2>2, <2>4, UserinfoKeeps
  <2>5. CASE l.slot \in Slots /\ ClientDisconnect(l.slot)
    BY <2>5, DisconnectKeeps
  <2>6. CASE l.slot \notin Slots /\ ClientDisconnect(l.slot)
    <3>1. UNCHANGED <<now, tracked, seen, checkedAt, since>>
      BY <2>6 DEF ClientDisconnect, TInv, Clocks, SeenIsChecked
    <3> QED
      BY <1>1, <3>1
  <2>7. CASE InitGame \/ HandleBadRcon(l.addr)
    BY <1>1, <2>7 DEF InitGame, HandleBadRcon, trackerState
  <2> QED
    BY <2>1, <2>3, <2>4, <2>5, <2>6, <2>7
<1>3. CASE Clock
  BY <1>3, Inductive DEF Clock, TrackerNext
<1>4. ASSUME \/ \E s \in Slots : Leave(s) \/ \E a \in Addrs : Join(s, a)
             \/ \E s \in Slots : \E k \in {"userinfo", "badrcon"} : Chatter(k, s)
             \/ MapRestart \/ ExecuteKick \/ UNCHANGED vars \/ \E c \in Checkers : CheckerStep(c)
      PROVE  UNCHANGED trackerVars
  BY <1>4 DEF Leave, Join, Chatter, MapRestart, ExecuteKick, CheckerStep, AcquireSlot, Decided,
     EnforceDecision, vars
<1> QED
  BY <1>1, <1>2, <1>3, <1>4 DEF Next, trackerVars, trackerState

LEMMA SupervisorInvariant == Spec => [](MInv /\ TInv)
<1>1. Init => MInv /\ TInv
  BY MirrorInitially, Initially DEF Init
<1>2. (MInv /\ TInv) /\ [Next]_vars => (MInv /\ TInv)'
  BY MirrorStep, ScannerKeepsTracker
<1> QED
  BY <1>1, <1>2, PTL DEF Spec

\* In the whole loop too, with kicks and map restarts, nobody plays whose
\* address was not checked.
THEOREM NobodyPlaysUnchecked == Spec => []NobodyUnchecked
<1>1. TInv => NobodyUnchecked
  BY DEF TInv
<1> QED
  BY <1>1, SupervisorInvariant, PTL

\* There too an address that keeps its slot is not checked twice within the
\* dedupe interval, with as many checks in progress as there are checkers.
THEOREM ChecksStaySpaced ==
  ASSUME Dedupe <= PruneAge
  PROVE  Spec => DedupeHolds
<1> DEFINE Spaced == \A s \in Slots, a \in Addrs :
                       /\ checkedAt[s][a] # Never
                       /\ checkedAt'[s][a] # checkedAt[s][a]
                       /\ tracked[s] = a /\ since[s] <= checkedAt[s][a]
                       => checkedAt'[s][a] - checkedAt[s][a] >= Dedupe
<1>1. MInv /\ TInv /\ [Next]_vars => [Spaced]_trackerVars
  <2> SUFFICES ASSUME MInv, TInv, [Next]_vars, NEW r \in Slots, NEW b \in Addrs,
                      checkedAt[r][b] # Never, checkedAt'[r][b] # checkedAt[r][b],
                      tracked[r] = b, since[r] <= checkedAt[r][b]
               PROVE  checkedAt'[r][b] - checkedAt[r][b] >= Dedupe
    OBVIOUS
  <2>1. PICK c \in Checkers : HandleLine(c)
    BY DEF Next, Clock, Tick, Leave, Join, Chatter, MapRestart, ExecuteKick, CheckerStep, AcquireSlot,
           Decided, EnforceDecision, vars, trackerVars
  <2>2. PICK s, a, kind :
          /\ ProcessConnectionEvent(s, a, kind)
          /\ s = Head(stdout).slot /\ a = Head(stdout).addr
          /\ stdout # <<>> /\ Head(stdout).kind \in {"connect", "userinfo"}
    BY <2>1 DEF HandleLine, ClientConnect, ClassifyConnect, ClientUserinfoChanged, ClientDisconnect,
                InitGame, HandleBadRcon
  <2>3. s \in Slots /\ a \in Addrs
    BY <2>2, LineAtHand
  <2> QED
    BY <2>2, <2>3, ArrivalIsSpaced
<1> QED
  BY <1>1, SupervisorInvariant, PTL DEF Spec, DedupeHolds

-----------------------------------------------------------------------------
(* No blocked player is forgotten.                                           *)

\* With the lines q unread and t tracked, one player follows another in slot s
\* only after a line that tells of a departure.
Word(q, t, i) == IF i = 0 THEN t ELSE After(q[i])

NoJump(q, s, t) ==
  \A i, j \in 0 .. Len(q) :
    /\ i < j /\ (i # 0 => About(s, q[i])) /\ About(s, q[j])
    /\ Word(q, t, i) # NoAddr /\ After(q[j]) \notin {NoAddr, Word(q, t, i)}
    => \E k \in i + 1 .. j - 1 : About(s, q[k]) /\ After(q[k]) = NoAddr

\* The departure of the player of s is unread.
Departure(q, s) == \E i \in 1 .. Len(q) : q[i].kind = "disconnect" /\ q[i].slot = s

Pursued(s, a) ==
  \/ \E c \in Checkers : task[c].slot = s /\ task[c].addr = a
  \/ \E i \in 1 .. Len(stdin) : stdin[i] = s

TasksFit ==
  /\ checker \in [Checkers -> {"free", "queued", "running", "decided"}]
  /\ task \in [Checkers -> Checks \union {NoCheck}]
  /\ \A c \in Checkers : checker[c] = "free" <=> task[c] = NoCheck
  /\ IsSequence(stdin)

NoJumps == \A s \in Slots : NoJump(stdout, s, tracked[s])

\* An entry of seenEvents belongs to the address tracked now: a duplicate is
\* always of the player who was checked.
SeenIsTracked == \A s \in Slots, a \in Addrs : seen[s][a] # Never => tracked[s] = a

PursuedOnceRead ==
  \A s \in Slots : tracked[s] \in Blocked /\ ~Departure(stdout, s) => Pursued(s, tracked[s])

PInv == TasksFit /\ NoJumps /\ SeenIsTracked /\ PursuedOnceRead

\* What a sequence loses at its front and gains at its end.
LEMMA Shorter ==
  ASSUME NEW q, IsSequence(q), q # <<>>
  PROVE  /\ IsSequence(Tail(q)) /\ Len(q) \in Nat /\ Len(q) >= 1 /\ Len(Tail(q)) = Len(q) - 1
         /\ Head(q) = q[1] /\ \A i \in 1 .. Len(Tail(q)) : Tail(q)[i] = q[i + 1]
<1>1. PICK L : q \in Seq(L)
  BY DEF IsSequence
<1>2. Tail(q) \in Seq(L)
  BY <1>1
<1> QED
  BY <1>1, <1>2 DEF IsSequence

LEMMA Appended ==
  ASSUME NEW q, IsSequence(q), NEW x
  PROVE  /\ IsSequence(Append(q, x)) /\ Len(Append(q, x)) = Len(q) + 1 /\ Len(q) \in Nat
         /\ Append(q, x)[Len(q) + 1] = x
         /\ \A i \in 1 .. Len(q) : Append(q, x)[i] = q[i]
<1>1. PICK L : q \in Seq(L)
  BY DEF IsSequence
<1>2. q \in Seq(L \union {x}) /\ x \in L \union {x}
  BY <1>1
<1>3. /\ Append(q, x) \in Seq(L \union {x}) /\ Len(Append(q, x)) = Len(q) + 1
      /\ \A i \in 1 .. Len(q) + 1 : Append(q, x)[i] = IF i = Len(q) + 1 THEN x ELSE q[i]
  BY <1>2, AppendProperties
<1> QED
  BY <1>1, <1>3 DEF IsSequence

\* A line that tells of a departure, of the player who is there, or of one who
\* comes to an empty slot is no jump.
LEMMA PrintedIsNoJump ==
  ASSUME NEW q, IsSequence(q), NEW l, NEW s, NEW t, NEW o, Mirrors(q, s, t, o), NoJump(q, s, t),
         About(s, l) => After(l) = NoAddr \/ o \in {NoAddr, After(l)}
  PROVE  NoJump(q \o <<l>>, s, t)
<1> DEFINE ql == q \o <<l>>
<1>1. /\ Len(ql) = Len(q) + 1 /\ Len(q) \in Nat /\ ql[Len(q) + 1] = l
      /\ \A i \in 1 .. Len(q) : ql[i] = q[i]
  BY Longer
<1> HIDE DEF ql
<1>2. \A i \in 0 .. Len(q) : Word(ql, t, i) = Word(q, t, i)
  BY <1>1 DEF Word
<1>3. ASSUME NEW i \in 0 .. Len(ql), NEW j \in 0 .. Len(ql),
             i < j, i # 0 => About(s, ql[i]), About(s, ql[j]),
             Word(ql, t, i) # NoAddr, After(ql[j]) \notin {NoAddr, Word(ql, t, i)}
      PROVE  \E k \in i + 1 .. j - 1 : About(s, ql[k]) /\ After(ql[k]) = NoAddr
  <2>1. i \in 0 .. Len(q) /\ (i # 0 => About(s, q[i])) /\ Word(q, t, i) # NoAddr
    BY <1>1, <1>2, <1>3
  <2>2. CASE j <= Len(q)
    <3>1. j \in 1 .. Len(q) /\ ql[j] = q[j]
      BY <1>1, <1>3, <2>1, <2>2
    <3>2. PICK k \in i + 1 .. j - 1 : About(s, q[k]) /\ After(q[k]) = NoAddr
      BY <1>2, <1>3, <2>1, <3>1 DEF NoJump
    <3>3. k \in 1 .. Len(q)
      BY <2>1, <3>1, <1>1
    <3> QED
      BY <1>1, <3>2, <3>3
  <2>3. CASE j = Len(q) + 1
    <3>1. About(s, l) /\ After(l) # NoAddr /\ After(l) # Word(q, t, i) /\ o \in {NoAddr, After(l)}
      BY <1>1, <1>2, <1>3, <2>1, <2>3
    <3>2. CASE (\A k \in 1 .. Len(q) : ~About(s, q[k])) /\ t = o
      <4>1. i = 0
        BY <2>1, <3>2
      <4> QED
        BY <2>1, <3>1, <3>2, <4>1 DEF Word
    <3>3. ASSUME NEW k \in 1 .. Len(q), About(s, q[k]), After(q[k]) = o,
                 \A m \in k + 1 .. Len(q) : ~About(s, q[m])
          PROVE  \E m \in i + 1 .. j - 1 : About(s, ql[m]) /\ After(ql[m]) = NoAddr
      <4>1. i <= k
        BY <1>1, <2>1, <3>3
      <4>2. i # k
        BY <2>1, <3>1, <3>3, <1>1 DEF Word
      <4>3. i < k /\ k \in 0 .. Len(q) /\ k \in i + 1 .. j - 1 /\ ql[k] = q[k]
        BY <1>1, <2>1, <2>3, <3>3, <4>1, <4>2
      <4>4. CASE o = NoAddr
        BY <3>3, <4>3, <4>4
      <4>5. CASE o = After(l)
        <5>1. After(q[k]) \notin {NoAddr, Word(q, t, i)}
          BY <3>1, <3>3, <4>5
        <5>2. PICK m \in i + 1 .. k - 1 : About(s, q[m]) /\ After(q[m]) = NoAddr
          BY <2>1, <3>3, <4>3, <5>1 DEF NoJump
        <5>3. m \in 1 .. Len(q) /\ m \in i + 1 .. j - 1
          BY <1>1, <2>1, <2>3, <4>3
        <5> QED
          BY <1>1, <5>2, <5>3
      <4> QED
        BY <3>1, <4>4, <4>5
    <3> QED
      BY <3>2, <3>3 DEF Mirrors
  <2> QED
    BY <1>1, <1>3, <2>2, <2>3
<1>4. NoJump(ql, s, t)
  BY <1>3 DEF NoJump
<1> QED
  BY <1>4 DEF ql

\* The next line is read, and the tracker follows it.
LEMMA ReadIsNoJump ==
  ASSUME NEW q, IsSequence(q), q # <<>>, NEW s, NEW t, NEW u, NoJump(q, s, t),
         u = IF About(s, Head(q)) THEN After(Head(q)) ELSE t
  PROVE  /\ NoJump(Tail(q), s, u)
         /\ About(s, Head(q)) /\ t # NoAddr => After(Head(q)) \in {NoAddr, t}
<1> DEFINE r == Tail(q)
<1>1. /\ Len(q) \in Nat /\ Len(q) >= 1 /\ Len(r) = Len(q) - 1 /\ Head(q) = q[1]
      /\ \A i \in 1 .. Len(r) : r[i] = q[i + 1]
  BY Shorter
<1> HIDE DEF r
<1>2. About(s, Head(q)) /\ t # NoAddr => After(Head(q)) \in {NoAddr, t}
  <2> SUFFICES ASSUME About(s, q[1]), t # NoAddr, After(q[1]) \notin {NoAddr, t} PROVE FALSE
    BY <1>1
  <2>1. 0 \in 0 .. Len(q) /\ 1 \in 0 .. Len(q) /\ Word(q, t, 0) = t
    BY <1>1 DEF Word
  <2>2. \E k \in 0 + 1 .. 1 - 1 : About(s, q[k]) /\ After(q[k]) = NoAddr
    BY <2>1 DEF NoJump
  <2> QED
    BY <2>2
<1>3. ASSUME NEW i \in 0 .. Len(r), NEW j \in 0 .. Len(r),
             i < j, i # 0 => About(s, r[i]), About(s, r[j]),
             Word(r, u, i) # NoAddr, After(r[j]) \notin {NoAddr, Word(r, u, i)}
      PROVE  \E k \in i + 1 .. j - 1 : About(s, r[k]) /\ After(r[k]) = NoAddr
  <2>1. j + 1 \in 0 .. Len(q) /\ r[j] = q[j + 1]
    BY <1>1, <1>3
  <2> DEFINE from == IF i = 0 /\ ~About(s, q[1]) THEN 0 ELSE i + 1
  <2>2. /\ from \in 0 .. Len(q) /\ from < j + 1 /\ (from # 0 => About(s, q[from]))
        /\ Word(q, t, from) = Word(r, u, i)
    <3>1. CASE i = 0
      BY <1>1, <1>3, <3>1 DEF Word
    <3>2. CASE i # 0
      BY <1>1, <1>3, <3>2 DEF Word
    <3> QED
      BY <3>1, <3>2
  <2>3. from + 1 > i /\ from \in Int
    BY <1>3
  <2>4. from # 0 \/ ~About(s, q[1])
    BY <1>3
  <2> HIDE DEF from
  <2>5. PICK k \in from + 1 .. (j + 1) - 1 : About(s, q[k]) /\ After(q[k]) = NoAddr
    BY <1>3, <2>1, <2>2 DEF NoJump
  <2>6. k # 1
    BY <2>2, <2>4, <2>5
  <2>7. k - 1 \in 1 .. Len(r) /\ k - 1 <= j - 1 /\ r[k - 1] = q[k]
    BY <1>1, <1>3, <2>2, <2>6
  <2>8. k - 1 >= i + 1
    BY <1>3, <2>6 , <2>7 DEF from
  <2> QED
    BY <1>3, <2>5, <2>7, <2>8
<1>4. NoJump(r, s, u)
  BY <1>3 DEF NoJump
<1> QED
  BY <1>2, <1>4 DEF r

\* Nothing that the checks and the kicks on their way tell of is lost.
LEMMA StillPursued ==
  ASSUME TasksFit, PursuedOnceRead,
         \A s \in Slots : tracked'[s] = tracked[s] /\ (Departure(stdout, s) => Departure(stdout', s)),
         \A s \in Slots, a \in Blocked : Pursued(s, a) => Pursued(s, a)' \/ Departure(stdout', s)
  PROVE  PursuedOnceRead'
BY SupervisorAssumption DEF PursuedOnceRead

\* A line is printed, and the checks stay as they are.
LEMMA PrintPursues ==
  ASSUME MInv, PInv, NEW l, Printed(<<l>>), UNCHANGED <<tracked, seen, checker, task>>, IsSequence(stdin'),
         \A s \in Slots : About(s, l) => After(l) = NoAddr \/ occupant[s] \in {NoAddr, After(l)},
         \A i \in 1 .. Len(stdin) : \/ \E j \in 1 .. Len(stdin') : stdin'[j] = stdin[i]
                                    \/ l.kind = "disconnect" /\ l.slot = stdin[i]
  PROVE  PInv'
<1>1. /\ stdout' = stdout \o <<l>> /\ Len(stdout') = Len(stdout) + 1 /\ Len(stdout) \in Nat
      /\ stdout'[Len(stdout) + 1] = l /\ \A i \in 1 .. Len(stdout) : stdout'[i] = stdout[i]
  BY Longer DEF Printed, MInv
<1>2. TasksFit'
  BY DEF PInv, TasksFit
<1>3. NoJumps'
  <2>1. ASSUME NEW s \in Slots PROVE NoJump(stdout \o <<l>>, s, tracked[s])
    BY PrintedIsNoJump DEF MInv, PInv, NoJumps
  <2> QED
    BY <1>1, <2>1 DEF NoJumps
<1>4. SeenIsTracked'
  BY DEF PInv, SeenIsTracked
<1>5. \A s \in Slots : Departure(stdout, s) => Departure(stdout', s)
  BY <1>1 DEF Departure
<1>6. \A s \in Slots : l.kind = "disconnect" /\ l.slot = s => Departure(stdout', s)
  BY <1>1 DEF Departure
<1>7. \A s \in Slots, a \in Blocked : Pursued(s, a) => Pursued(s, a)' \/ Departure(stdout', s)
  BY <1>6 DEF Pursued
<1> QED
  BY <1>2, <1>3, <1>4, <1>5, <1>7, StillPursued DEF PInv

\* A kick is executed: whoever was in the slot departs, and if nobody was the
\* tracker knows of no blocked player there.
LEMMA KickPursues ==
  ASSUME MInv, PInv, ExecuteKick
  PROVE  PInv'
<1>1. /\ IsSequence(Tail(stdin)) /\ Len(stdin) \in Nat /\ Len(Tail(stdin)) = Len(stdin) - 1
      /\ Head(stdin) = stdin[1] /\ stdin' = Tail(stdin) /\ Len(stdin) >= 1
      /\ \A i \in 1 .. Len(Tail(stdin)) : Tail(stdin)[i] = stdin[i + 1]
  BY Shorter DEF ExecuteKick, PInv, TasksFit
<1>2. UNCHANGED <<tracked, seen, checker, task>>
  BY DEF ExecuteKick, trackerVars, trackerState, checkVars
<1>3. \A i \in 1 .. Len(stdin) : \/ \E j \in 1 .. Len(stdin') : stdin'[j] = stdin[i]
                                 \/ stdin[i] = Head(stdin)
  <2> SUFFICES ASSUME NEW i \in 1 .. Len(stdin), i # 1
               PROVE  \E j \in 1 .. Len(stdin') : stdin'[j] = stdin[i]
    BY <1>1
  <2>1. i - 1 \in 1 .. Len(stdin') /\ (i - 1) + 1 = i
    BY <1>1
  <2> QED
    BY <1>1, <2>1
<1>4. CASE occupant[Head(stdin)] # NoAddr /\ Printed(<<Line("disconnect", Head(stdin), NoAddr)>>)
  <2> DEFINE l == Line("disconnect", Head(stdin), NoAddr)
  <2>1. l.kind = "disconnect" /\ l.slot = Head(stdin) /\ After(l) = NoAddr
    BY DEF Line, After
  <2> HIDE DEF l
  <2>2. Printed(<<l>>)
    BY <1>4 DEF l
  <2> QED
    BY <1>1, <1>2, <1>3, <2>1, <2>2, PrintPursues
<1>5. CASE occupant[Head(stdin)] = NoAddr /\ UNCHANGED stdout
  <2>1. TasksFit' /\ NoJumps' /\ SeenIsTracked'
    BY <1>1, <1>2, <1>5 DEF PInv, TasksFit, NoJumps, SeenIsTracked
  <2>2. PursuedOnceRead'
    <3>1. ASSUME NEW s \in Slots, tracked[s] \in Blocked, ~Departure(stdout, s), s = Head(stdin)
          PROVE  FALSE
      <4>1. tracked[s] # NoAddr
        BY <3>1, SupervisorAssumption, TrackerAssumption DEF NoAddr
      <4>2. PICK i \in 1 .. Len(stdout) : About(s, stdout[i]) /\ After(stdout[i]) = NoAddr
        BY <1>5, <3>1, <4>1 DEF MInv, Mirrors
      <4>3. stdout[i].kind \in {"connect", "userinfo"} /\ stdout[i].addr = NoAddr
        BY <3>1, <4>2 DEF About, After, Departure
      <4> QED
        BY <4>3, TrackerAssumption DEF MInv, Announces, NoAddr
    <3>2. ASSUME NEW s \in Slots, Pursued(s, tracked[s]), s # Head(stdin) PROVE Pursued(s, tracked[s])'
      BY <1>2, <1>3, <3>2 DEF Pursued
    <3> QED
      BY <1>2, <1>5, <3>1, <3>2 DEF PInv, PursuedOnceRead
  <2> QED
    BY <2>1, <2>2 DEF PInv
<1> QED
  BY <1>4, <1>5 DEF ExecuteKick

\* Everybody is announced anew, with the address the tracker has.
LEMMA RestartPursues ==
  ASSUME MInv, PInv, MapRestart
  PROVE  PInv'
<1>1. UNCHANGED <<tracked, seen, checker, task, stdin>> /\ stdout = <<>>
  BY DEF MapRestart, trackerVars, trackerState, checkVars
<1>2. TasksFit' /\ SeenIsTracked'
  BY <1>1 DEF PInv, TasksFit, SeenIsTracked
<1>3. NoJumps'
  <2>1. ASSUME NEW s \in Slots, NEW i \in 0 .. Len(stdout'), NEW j \in 0 .. Len(stdout'), i < j,
               i # 0 => About(s, stdout'[i]), About(s, stdout'[j]),
               Word(stdout', tracked[s], i) # NoAddr,
               After(stdout'[j]) \notin {NoAddr, Word(stdout', tracked[s], i)}
        PROVE  FALSE
    <3>1. j \in 1 .. Len(stdout') /\ (i # 0 => i \in 1 .. Len(stdout'))
      BY <2>1
    <3>2. After(stdout'[j]) = tracked[s] /\ Word(stdout', tracked[s], i) = tracked[s]
      BY <2>1, <3>1, RestartKeeps DEF Word
    <3> QED
      BY <2>1, <3>2
  <2>2. ASSUME NEW s \in Slots PROVE NoJump(stdout', s, tracked[s])
    BY <2>1 DEF NoJump
  <2> QED
    BY <1>1, <2>2 DEF NoJumps
<1>4. PursuedOnceRead'
  <2>1. \A s \in Slots : ~Departure(stdout, s)
    BY <1>1 DEF Departure
  <2>2. \A s \in Slots, a \in Blocked : Pursued(s, a) => Pursued(s, a)'
    BY <1>1 DEF Pursued
  <2> QED
    BY <1>1, <2>1, <2>2, StillPursued DEF PInv
<1> QED
  BY <1>2, <1>3, <1>4 DEF PInv

\* A check goes on, and one that ends was of nobody blocked or leaves a kick.
LEMMA CheckPursues ==
  ASSUME PInv, NEW c \in Checkers, CheckerStep(c)
  PROVE  PInv'
<1>1. UNCHANGED <<tracked, seen, stdout>>
  BY DEF CheckerStep, AcquireSlot, Decided, EnforceDecision, trackerVars, trackerState, gameVars
<1>2. NoJumps' /\ SeenIsTracked'
  BY <1>1 DEF PInv, NoJumps, SeenIsTracked
<1>3. CASE AcquireSlot(c)
  <2>1. task' = task /\ stdin' = stdin /\ checker' = [checker EXCEPT ![c] = "running"] /\ checker[c] = "queued"
    BY <1>3 DEF AcquireSlot, gameVars
  <2>2. TasksFit'
    BY <2>1 DEF PInv, TasksFit
  <2>3. \A s \in Slots, a \in Blocked : Pursued(s, a) => Pursued(s, a)'
    BY <2>1 DEF Pursued
  <2> QED
    BY <1>1, <1>2, <2>2, <2>3, StillPursued DEF PInv
<1>4. CASE Decided(c)
  <2>1. stdin' = stdin /\ checker[c] = "running"
    BY <1>4 DEF Decided, gameVars
  <2>2. TasksFit'
    BY <1>4, <2>1 DEF Decided, PInv, TasksFit
  <2>3. ASSUME NEW s \in Slots, NEW a \in Blocked, NEW d \in Checkers, task[d].slot = s, task[d].addr = a
        PROVE  task'[d] = task[d]
    BY <1>4, <2>3 DEF Decided, PInv, TasksFit
  <2>4. \A s \in Slots, a \in Blocked : Pursued(s, a) => Pursued(s, a)'
    BY <2>1, <2>3 DEF Pursued
  <2> QED
    BY <1>1, <1>2, <2>2, <2>4, StillPursued DEF PInv
<1>5. CASE EnforceDecision(c)
  <2>1. /\ stdin' = Append(stdin, task[c].slot) /\ checker[c] = "decided"
        /\ checker' = [checker EXCEPT ![c] = "free"] /\ task' = [task EXCEPT ![c] = NoCheck]
    BY <1>5 DEF EnforceDecision, WriteKick
  <2>2. /\ IsSequence(stdin') /\ Len(stdin') = Len(stdin) + 1 /\ Len(stdin) \in Nat
        /\ stdin'[Len(stdin) + 1] = task[c].slot /\ \A i \in 1 .. Len(stdin) : stdin'[i] = stdin[i]
    BY <2>1, Appended DEF PInv, TasksFit
  <2>3. TasksFit'
    BY <2>1, <2>2 DEF PInv, TasksFit
  <2>4. ASSUME NEW s \in Slots, NEW a \in Blocked, NEW d \in Checkers, task[d].slot = s, task[d].addr = a
        PROVE  Pursued(s, a)'
    <3>1. CASE d = c
      <4>1. Len(stdin) + 1 \in 1 .. Len(stdin') /\ stdin'[Len(stdin) + 1] = s
        BY <2>2, <2>4, <3>1
      <4> QED
        BY <4>1 DEF Pursued
    <3>2. CASE d # c
      BY <2>1, <2>4, <3>2 DEF Pursued, PInv, TasksFit
    <3> QED
      BY <3>1, <3>2
  <2>5. ASSUME NEW s \in Slots, NEW a, NEW i \in 1 .. Len(stdin), stdin[i] = s PROVE Pursued(s, a)'
    <3>1. i \in 1 .. Len(stdin') /\ stdin'[i] = s
      BY <2>2, <2>5
    <3> QED
      BY <3>1 DEF Pursued
  <2>6. \A s \in Slots, a \in Blocked : Pursued(s, a) => Pursued(s, a)'
    BY <2>4, <2>5 DEF Pursued
  <2> QED
    BY <1>1, <1>2, <2>3, <2>6, StillPursued DEF PInv
<1> QED
  BY <1>3, <1>4, <1>5 DEF CheckerStep

\* The scanner reads a line: who is announced is checked already, or a check is
\* started; who departs takes the entry of seenEvents along.
LEMMA LinePursues ==
  ASSUME MInv, TInv, PInv, NEW c \in Checkers, HandleLine(c)
  PROVE  PInv'
<1> DEFINE l == Head(stdout)
<1>1. /\ stdout # <<>> /\ stdout' = Tail(stdout) /\ StartCheck(c)
      /\ \/ l.kind = "connect" /\ ClientConnect(l.slot, l.addr) /\ UNCHANGED stdin
         \/ l.kind = "userinfo" /\ ClientUserinfoChanged(l.slot, l.addr) /\ UNCHANGED stdin
         \/ l.kind = "disconnect" /\ ClientDisconnect(l.slot) /\ UNCHANGED stdin
         \/ l.kind = "init" /\ InitGame /\ UNCHANGED stdin
         \/ l.kind = "badrcon" /\ HandleBadRcon(l.addr)
  BY DEF HandleLine
<1>2. /\ Len(stdout) \in Nat /\ Len(stdout) >= 1 /\ Len(stdout') = Len(stdout) - 1 /\ l = stdout[1]
      /\ \A i \in 1 .. Len(stdout') : stdout'[i] = stdout[i + 1]
  BY <1>1, Shorter DEF MInv
<1>3. l.kind \in {"connect", "userinfo"} => l.slot \in Slots /\ l.addr \in Addrs
  BY <1>1, LineAtHand
<1>4. \A s \in Slots : /\ NoJump(Tail(stdout), s, IF About(s, l) THEN After(l) ELSE tracked[s])
                       /\ About(s, l) /\ tracked[s] # NoAddr => After(l) \in {NoAddr, tracked[s]}
  BY <1>1, ReadIsNoJump DEF MInv, PInv, NoJumps
<1>5. \A s \in Slots : Departure(stdout, s) =>
        Departure(stdout', s) \/ (l.kind = "disconnect" /\ l.slot = s)
  <2>1. ASSUME NEW i \in 1 .. Len(stdout), i # 1
        PROVE  \E j \in 1 .. Len(stdout') : stdout'[j] = stdout[i]
    <3>1. i - 1 \in 1 .. Len(stdout') /\ (i - 1) + 1 = i
      BY <1>2, <2>1
    <3> QED
      BY <1>2, <3>1
  <2>2. ASSUME NEW s \in Slots, NEW i \in 1 .. Len(stdout),
               stdout[i].kind = "disconnect", stdout[i].slot = s
        PROVE  Departure(stdout', s) \/ (l.kind = "disconnect" /\ l.slot = s)
    <3>1. CASE i = 1
      BY <1>2, <2>2, <3>1
    <3>2. CASE i # 1
      BY <2>1, <2>2, <3>2 DEF Departure
    <3> QED
      BY <3>1, <3>2
  <2> SUFFICES ASSUME NEW s \in Slots, Departure(stdout, s)
               PROVE  Departure(stdout', s) \/ (l.kind = "disconnect" /\ l.slot = s)
    OBVIOUS
  <2>3. PICK i \in 1 .. Len(stdout) : stdout[i].kind = "disconnect" /\ stdout[i].slot = s
    BY DEF Departure
  <2> QED
    BY <2>2, <2>3
<1> HIDE DEF l
<1>6. /\ \A s \in Slots : tracked'[s] = IF About(s, l) THEN After(l) ELSE tracked[s]
      /\ check' \in Checks \union {NoCheck}
      /\ check' # NoCheck => check'.slot = l.slot /\ check'.addr = l.addr /\ l.kind \in {"connect", "userinfo"}
  <2> USE DEF MInv, About, After
  <2>1. CASE l.kind = "connect" /\ ClientConnect(l.slot, l.addr)
    BY <1>3, <2>1 DEF ClientConnect, StoreConnectionState, ProcessConnectionEvent, ClassifyConnect, Checks, Kinds
  <2>2. CASE l.kind = "userinfo" /\ ClientUserinfoChanged(l.slot, l.addr)
    BY <1>3, <2>2 DEF ClientUserinfoChanged, StoreConnectionState, ProcessConnectionEvent, Checks, Kinds
  <2>3. CASE l.kind = "disconnect" /\ ClientDisconnect(l.slot)
    BY <2>3 DEF ClientDisconnect
  <2>4. CASE l.kind \in {"init", "badrcon"} /\ (InitGame \/ HandleBadRcon(l.addr))
    BY <2>4 DEF InitGame, HandleBadRcon, trackerState
  <2> QED
    BY <1>1, <2>1, <2>2, <2>3, <2>4
<1>7. /\ IsSequence(stdin') /\ \A i \in 1 .. Len(stdin) : i \in 1 .. Len(stdin') /\ stdin'[i] = stdin[i]
  <2>1. CASE stdin' = stdin
    BY <2>1 DEF PInv, TasksFit
  <2>2. ASSUME NEW s, stdin' = Append(stdin, s)
        PROVE  /\ IsSequence(stdin')
               /\ \A i \in 1 .. Len(stdin) : i \in 1 .. Len(stdin') /\ stdin'[i] = stdin[i]
    BY <2>2, Appended DEF PInv, TasksFit
  <2> QED
    BY <1>1, <2>1, <2>2 DEF HandleBadRcon, WriteKick
<1>8. /\ TasksFit'
      /\ \A d \in Checkers : task[d] # NoCheck => task'[d] = task[d]
      /\ check' # NoCheck => task'[c] = check'
  <2>1. CASE check' = NoCheck
    BY <1>1, <1>7, <2>1 DEF StartCheck, checkVars, PInv, TasksFit
  <2>2. CASE check' # NoCheck
    BY <1>1, <1>6, <1>7, <2>2 DEF StartCheck, PInv, TasksFit
  <2> QED
    BY <2>1, <2>2
<1>9. NoJumps'
  BY <1>1, <1>4, <1>6 DEF NoJumps
<1>10. SeenIsTracked'
  <2>1. /\ seen \in [Slots -> [Addrs -> Times]] /\ tracked \in [Slots -> Addrs \union {NoAddr}]
        /\ NoAddr \notin Addrs
    BY TrackerAssumption DEF TInv, Clocks, SeenIsChecked, NoAddr
  <2>2. ASSUME l.kind \in {"connect", "userinfo"}, NEW kind, ProcessConnectionEvent(l.slot, l.addr, kind)
        PROVE  SeenIsTracked'
    <3>1. seen' = Pruned \/ seen' = [Pruned EXCEPT ![l.slot][l.addr] = now]
      BY <2>2 DEF ProcessConnectionEvent
    <3>2. ASSUME NEW s \in Slots, NEW a \in Addrs, seen'[s][a] # Never
          PROVE  seen[s][a] # Never \/ (s = l.slot /\ a = l.addr)
      BY <3>1, <3>2, PrunedFacts
    <3>3. tracked'[l.slot] = l.addr
      BY <1>3, <1>6, <2>2 DEF About, After
    <3>4. ASSUME NEW s \in Slots, NEW a \in Addrs, seen[s][a] # Never PROVE tracked'[s] = a
      <4>1. tracked[s] = a
        BY <3>4 DEF PInv, SeenIsTracked
      <4>2. CASE About(s, l)
        <5>1. After(l) \in {NoAddr, a} /\ After(l) = l.addr
          BY <1>4, <2>1, <2>2, <4>1, <4>2 DEF After
        <5> QED
          BY <1>3, <1>6, <2>1, <2>2, <4>2, <5>1
      <4> QED
        BY <1>6, <4>1, <4>2
    <3> QED
      BY <3>2, <3>3, <3>4 DEF SeenIsTracked
  <2>3. CASE l.kind = "userinfo" /\ tracked[l.slot] = l.addr /\ UNCHANGED seen
    <3>1. \A s \in Slots : tracked'[s] = tracked[s]
      BY <1>6, <2>3 DEF About, After
    <3> QED
      BY <2>3, <3>1 DEF PInv, SeenIsTracked
  <2>4. CASE l.kind = "disconnect" /\ ClientDisconnect(l.slot)
    <3>1. ASSUME NEW s \in Slots, NEW a \in Addrs, seen'[s][a] # Never PROVE tracked'[s] = a
      <4>1. seen' = IF tracked[l.slot] = NoAddr THEN seen
                    ELSE [seen EXCEPT ![l.slot][tracked[l.slot]] = Never]
        BY <2>4 DEF ClientDisconnect
      <4>2. seen[s][a] # Never /\ ~(s = l.slot /\ a = tracked[s] /\ tracked[s] # NoAddr)
        BY <2>1, <3>1, <4>1
      <4>3. tracked[s] = a /\ s # l.slot
        BY <2>1, <4>2 DEF PInv, SeenIsTracked
      <4> QED
        BY <1>6, <4>3 DEF About
    <3> QED
      BY <3>1 DEF SeenIsTracked
  <2>5. CASE l.kind \in {"init", "badrcon"} /\ (InitGame \/ HandleBadRcon(l.addr))
    BY <2>5 DEF InitGame, HandleBadRcon, trackerState, PInv, SeenIsTracked
  <2> QED
    BY <1>1, <2>2, <2>3, <2>4, <2>5 DEF ClientConnect, ClientUserinfoChanged
<1>11. \A s \in Slots, a \in Blocked : Pursued(s, a) => Pursued(s, a)'
  <2>1. ASSUME NEW s \in Slots, NEW a \in Blocked, NEW d \in Checkers, task[d].slot = s, task[d].addr = a
        PROVE  task'[d] = task[d]
    <3>1. task[d] # NoCheck
      BY <2>1, SupervisorAssumption, TrackerAssumption DEF NoCheck, NoAddr
    <3> QED
      BY <1>8, <3>1
  <2> QED
    BY <1>7, <2>1 DEF Pursued
<1>12. PursuedOnceRead'
  <2>1. ASSUME NEW s \in Slots, NEW a \in Blocked, tracked'[s] = a, ~Departure(stdout', s)
        PROVE  Pursued(s, a)'
    <3>1. NoAddr \notin Blocked
      BY SupervisorAssumption, TrackerAssumption DEF NoAddr
    <3>2. CASE tracked[s] = a
      <4>1. ~(l.kind = "disconnect" /\ l.slot = s)
        BY <1>6, <2>1, <3>1 DEF About, After
      <4>2. Pursued(s, a)
        BY <1>5, <2>1, <3>2, <4>1 DEF PInv, PursuedOnceRead
      <4> QED
        BY <1>11, <4>2
    <3>3. CASE tracked[s] # a
      <4>1. About(s, l) /\ l.kind \in {"connect", "userinfo"} /\ l.addr = a /\ l.slot = s
        BY <1>6, <2>1, <3>1, <3>3 DEF About, After
      <4>2. ~Duplicate(s, l.addr)
        <5>1. seen[s][l.addr] = Never
          BY <1>3, <3>3, <4>1 DEF PInv, SeenIsTracked
        <5> QED
          BY <1>3, <4>1, <5>1, PrunedFacts DEF Duplicate
      <4>3. check' # NoCheck
        <5>1. check' = NoCheck \/ check'.addr = l.addr
          BY <1>6
        <5>2. \E kind : ProcessConnectionEvent(s, l.addr, kind)
          BY <1>1, <3>3, <4>1 DEF ClientConnect, ClientUserinfoChanged
        <5>3. \E kind : check' = [slot |-> s, addr |-> l.addr, kind |-> kind]
          BY <4>2, <5>2 DEF ProcessConnectionEvent
        <5> QED
          BY <2>1, <3>1, <4>1, <5>3 DEF NoCheck
      <4>4. task'[c].slot = s /\ task'[c].addr = a
        BY <1>6, <1>8, <4>1, <4>3
      <4> QED
        BY <4>4 DEF Pursued
    <3> QED
      BY <3>2, <3>3
  <2> QED
    BY <2>1 DEF PursuedOnceRead
<1> QED
  BY <1>8, <1>9, <1>10, <1>12 DEF PInv

LEMMA NobodyToPursue == Init => PInv
<1> SUFFICES ASSUME Init PROVE PInv
  OBVIOUS
<1>1. stdout = <<>> /\ stdin = <<>> /\ <<>> \in Seq(Addrs) /\ Len(stdout) = 0
  BY DEF Init
<1>2. TasksFit
  BY <1>1 DEF Init, TasksFit, IsSequence
<1>3. NoJumps
  BY <1>1 DEF NoJumps, NoJump
<1>4. SeenIsTracked /\ PursuedOnceRead
  BY SupervisorAssumption, TrackerAssumption DEF Init, TrackerInit, SeenIsTracked, PursuedOnceRead, NoAddr
<1> QED
  BY <1>2, <1>3, <1>4 DEF PInv

LEMMA PursuitStep == MInv /\ TInv /\ PInv /\ [Next]_vars => PInv'
<1> SUFFICES ASSUME MInv, TInv, PInv, [Next]_vars PROVE PInv'
  OBVIOUS
<1>1. IsSequence(stdin)
  BY DEF PInv, TasksFit
<1>2. ASSUME NEW s \in Slots, NEW a \in Addrs, Join(s, a) PROVE PInv'
  <2> DEFINE l == Line("connect", s, a)
  <2>1. Printed(<<l>>) /\ UNCHANGED <<tracked, seen, checker, task, stdin>> /\ occupant[s] = NoAddr
    BY <1>2 DEF Join, trackerVars, trackerState, checkVars
  <2>2. \A r \in Slots : About(r, l) => After(l) = NoAddr \/ occupant[r] \in {NoAddr, After(l)}
    BY <2>1 DEF About, Line
  <2> HIDE DEF l
  <2> QED
    BY <1>1, <2>1, <2>2, PrintPursues
<1>3. ASSUME NEW s \in Slots, Leave(s) PROVE PInv'
  <2> DEFINE l == Line("disconnect", s, NoAddr)
  <2>1. Printed(<<l>>) /\ UNCHANGED <<tracked, seen, checker, task, stdin>>
    BY <1>3 DEF Leave, trackerVars, trackerState, checkVars
  <2>2. After(l) = NoAddr
    BY DEF After, Line
  <2> HIDE DEF l
  <2> QED
    BY <1>1, <2>1, <2>2, PrintPursues
<1>4. ASSUME NEW k \in {"userinfo", "badrcon"}, NEW s \in Slots, Chatter(k, s) PROVE PInv'
  <2> DEFINE l == Line(k, IF k = "badrcon" THEN NoAddr ELSE s, occupant[s])
  <2>1. Printed(<<l>>) /\ UNCHANGED <<tracked, seen, checker, task, stdin>>
    BY <1>4 DEF Chatter, trackerVars, trackerState, checkVars
  <2>2. \A r \in Slots : About(r, l) => After(l) = occupant[r]
    BY DEF About, After, Line
  <2> HIDE DEF l
  <2> QED
    BY <1>1, <2>1, <2>2, PrintPursues
<1>5. CASE Clock \/ UNCHANGED vars
  BY <1>5 DEF Clock, Tick, vars, trackerVars, trackerState, gameVars, checkVars, PInv, TasksFit, NoJumps,
     SeenIsTracked, PursuedOnceRead, Pursued
<1> QED
  BY <1>2, <1>3, <1>4, <1>5, RestartPursues, KickPursues, LinePursues, CheckPursues DEF Next

\* A blocked address that plays is announced by an unread line, is being checked
\* or is about to be kicked: however lines, checks, kicks, departures and map
\* restarts interleave, no blocked player is left alone.
THEOREM NoBlockedPlayerForgotten == Spec => []BlockedIsPursued
<1>1. ASSUME MInv, PInv PROVE BlockedIsPursued
  <2> SUFFICES ASSUME NEW s \in Slots, occupant[s] \in Blocked,
                      ~ \E i \in 1 .. Len(stdout) : About(s, stdout[i]) /\ stdout[i].addr = occupant[s]
               PROVE  Pursued(s, occupant[s])
    BY DEF BlockedIsPursued, Pursued
  <2>1. occupant[s] # NoAddr
    BY SupervisorAssumption, TrackerAssumption DEF NoAddr
  <2>2. (\A i \in 1 .. Len(stdout) : ~About(s, stdout[i])) /\ tracked[s] = occupant[s]
    BY <1>1, <2>1 DEF MInv, Mirrors, After
  <2>3. ~Departure(stdout, s)
    BY <2>2 DEF Departure, About
  <2> QED
    BY <1>1, <2>2, <2>3 DEF PInv, PursuedOnceRead
<1>2. Init => PInv
  BY NobodyToPursue
<1>3. (MInv /\ TInv) /\ PInv /\ [Next]_vars => PInv'
  BY PursuitStep
<1>4. MInv /\ PInv => BlockedIsPursued
  BY <1>1
<1> QED
  BY <1>2, <1>3, <1>4, SupervisorInvariant, PTL DEF Spec

=============================================================================
