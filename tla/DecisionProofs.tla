----------------------------- MODULE DecisionProofs -----------------------------
(***************************************************************************)
(* From the answers of the providers to the broadcast of what was decided:  *)
(* OutageNeverBlocks proved of Verdict for any threshold and set of keys,   *)
(* WeakSignalsNeverBlock for any threshold above what weak signals add up   *)
(* to, and BlockLineFirst and CooldownHolds proved of DecisionPublisher,    *)
(* for any number of checks, any modes, commands, cooldown and queue.       *)
(*                                                                         *)
(* The inductive invariant of Verdict: an answer is one its provider can    *)
(* give (Answering), and a decision that of all of them (Judged).  That of DecisionPublisher: typing; who is between     *)
(* the test and the mark holds the lock (Deciding); an entry is what the    *)
(* history says, or gone because it is too old (Remembered); what the test  *)
(* found still holds at the mark (Tested); a BLOCK line that did not reach  *)
(* the server means that nothing will (DueMeansGone).                       *)
(***************************************************************************)
EXTENDS Verdict, DecisionPublisher, TLAPS

(* The verdict.                                                             *)

Answering ==
  /\ DOMAIN answers = Providers
  /\ \A p \in Providers : answers[p] \in Answers(p) \union {NoAnswer}

AllAnswered == \A p \in Providers : answers[p] # NoAnswer

Judged == phase = "decided" => AllAnswered /\ wouldBlock = BlockCandidate(answers)

\* What weak signals of one provider weigh at most.
Weakest(p) ==
  IF p = "iphub" THEN 15
  ELSE IF p \in {"ipapi.is", "ipqualityscore", "iplocate"} THEN 10 ELSE 0

\* No weight counts against a block, and an answer of at most 15 holds neither
\* a strong signal nor two that add up.
LEMMA AnswerWeights ==
  ASSUME NEW p \in Providers, NEW a \in Answers(p)
  PROVE  /\ a.weight \in Nat
         /\ a.weight <= 15 => a.weight <= Weakest(p)
<1>1. CASE a = Failed
  BY <1>1 DEF Failed, Weakest
<1>2. ASSUME p = "proxycheck", a \in ProxyCheck
      PROVE  a.weight \in Nat /\ (a.weight <= 15 => a.weight <= Weakest(p))
  <2>1. PICK vpn, hosting, risky \in BOOLEAN :
          a.weight = If(vpn, 80) + If(hosting, 55) + If(risky /\ (vpn \/ hosting), 15)
    BY <1>2 DEF ProxyCheck, Answer
  <2> QED
    BY <1>2, <2>1 DEF If, Weakest
<1>3. ASSUME p = "ipapi.is", a \in IpapiIS
      PROVE  a.weight \in Nat /\ (a.weight <= 15 => a.weight <= Weakest(p))
  <2>1. PICK vpn, datacenter, owner \in BOOLEAN :
          a.weight = If(vpn, 70) + If(datacenter, 20) + If(owner, 10)
    BY <1>3 DEF IpapiIS, Answer
  <2> QED
    BY <1>3, <2>1 DEF If, Weakest
<1>4. ASSUME p = "iphub", a \in IPHub
      PROVE  a.weight \in Nat /\ (a.weight <= 15 => a.weight <= Weakest(p))
  BY <1>4 DEF IPHub, Answer, Weakest
<1>5. ASSUME p = "ipqualityscore", a \in IPQualityScore
      PROVE  a.weight \in Nat /\ (a.weight <= 15 => a.weight <= Weakest(p))
  <2>1. PICK active, vpn, hosting, proxy, risky \in BOOLEAN :
          a.weight = (IF active THEN 80 ELSE If(vpn, 70)) + If(hosting, IF proxy THEN 25 ELSE 10)
                     + If(risky /\ (active \/ vpn \/ hosting), 15)
    BY <1>5 DEF IPQualityScore, Answer
  <2> QED
    BY <1>5, <2>1 DEF If, Weakest
<1>6. ASSUME p = "iplocate", a \in IPLocate
      PROVE  a.weight \in Nat /\ (a.weight <= 15 => a.weight <= Weakest(p))
  <2>1. PICK vpn, hosting, owner \in BOOLEAN :
          a.weight = If(vpn, 70) + (IF hosting THEN 25 ELSE If(owner, 10))
    BY <1>6 DEF IPLocate, Answer
  <2> QED
    BY <1>6, <2>1 DEF If, Weakest
<1>7. ASSUME p = "vpnapi", a \in VpnAPIIo
      PROVE  a.weight \in Nat /\ (a.weight <= 15 => a.weight <= Weakest(p))
  <2>1. PICK vpn \in BOOLEAN : a.weight = If(vpn, 55)
    BY <1>7 DEF VpnAPIIo, Answer
  <2> QED
    BY <1>7, <2>1 DEF If, Weakest
<1> QED
  BY <1>1, <1>2, <1>3, <1>4, <1>5, <1>6, <1>7 DEF Answers, Providers, Optional

LEMMA AnsweringInvariant == VerdictSpec => []Answering
<1>1. VerdictInit => Answering
  BY DEF VerdictInit, Answering
<1>2. Answering /\ [VerdictNext]_verdictVars => Answering'
  <2> SUFFICES ASSUME Answering, [VerdictNext]_verdictVars PROVE Answering'
    OBVIOUS
  <2>1. ASSUME NEW p \in Providers, NEW a \in Answers(p), ProviderAnswers(p, a) PROVE Answering'
    BY <2>1 DEF ProviderAnswers, Answering
  <2>2. ASSUME answers' = [p \in Providers |-> NoAnswer] PROVE Answering'
    BY <2>2 DEF Answering
  <2>3. ASSUME answers' = answers PROVE Answering'
    BY <2>3 DEF Answering
  <2> QED
    BY <2>1, <2>2, <2>3 DEF VerdictNext, CheckIP, Evaluate, verdictVars
<1> QED
  BY <1>1, <1>2, PTL DEF VerdictSpec

LEMMA JudgedInvariant == VerdictSpec => []Judged
<1>1. VerdictInit => Judged
  BY DEF VerdictInit, Judged
<1>2. Judged /\ [VerdictNext]_verdictVars => Judged'
  <2> SUFFICES ASSUME Judged, [VerdictNext]_verdictVars PROVE Judged'
    OBVIOUS
  <2>1. CASE Evaluate
    <3>1. AllAnswered' /\ wouldBlock' = BlockCandidate(answers) /\ answers' = answers
      BY <2>1 DEF Evaluate, AllAnswered
    <3>2. BlockCandidate(answers') = BlockCandidate(answers)
      BY <3>1
    <3> QED
      BY <3>1, <3>2 DEF Judged
  <2>2. CASE UNCHANGED verdictVars
    <3>1. phase' = phase /\ answers' = answers /\ wouldBlock' = wouldBlock
      BY <2>2 DEF verdictVars
    <3> QED
      BY <3>1 DEF Judged, AllAnswered
  <2>3. CASE phase' = "asking"
    BY <2>3 DEF Judged
  <2> QED
    BY <2>1, <2>2, <2>3 DEF VerdictNext, CheckIP, ProviderAnswers
<1> QED
  BY <1>1, <1>2, PTL DEF VerdictSpec

\* What each provider adds to the score, once all have answered.
LEMMA WeightBounds ==
  ASSUME Answering, AllAnswered, NEW p
  PROVE  /\ Weight(answers, p) \in Nat
         /\ (p \in Providers => answers[p].weight <= 15) => Weight(answers, p) <= Weakest(p)
<1>1. CASE p \in Providers
  <2>1. answers[p] \in Answers(p)
    BY <1>1 DEF Answering, AllAnswered
  <2> QED
    BY <1>1, <2>1, AnswerWeights DEF Weight
<1>2. CASE p \notin Providers
  BY <1>2 DEF Weight, Weakest
<1> QED
  BY <1>1, <1>2

\* A failure in the place of an answer lowers no weight but that one.
LEMMA WithoutLowers ==
  ASSUME Answering, AllAnswered, NEW p \in Providers, NEW q
  PROVE  Weight(Without(answers, p), q) \in Nat
         /\ Weight(Without(answers, p), q) <= Weight(answers, q)
<1>1. CASE q = p
  <2>1. Weight(Without(answers, p), q) = 0
    BY <1>1 DEF Weight, Without, Failed, Answering
  <2> QED
    BY <2>1, WeightBounds
<1>2. CASE q # p
  <2>1. Weight(Without(answers, p), q) = Weight(answers, q)
    BY <1>2 DEF Weight, Without, Answering
  <2> QED
    BY <2>1, WeightBounds
<1> QED
  BY <1>1, <1>2

\* An outage of any provider makes no verdict harsher, whatever the threshold
\* and whichever providers are configured.
THEOREM OutagesNeverBlock == VerdictSpec => []OutageNeverBlocks
<1>1. ASSUME Answering, AllAnswered, NEW p \in Providers, BlockCandidate(Without(answers, p))
      PROVE  BlockCandidate(answers)
  <2> DEFINE r == Without(answers, p)
  <2>1. \A q \in Providers : r[q] = IF q = p THEN Failed ELSE answers[q]
    BY <1>1 DEF Without, Answering
  <2>2. /\ Successes(r) \subseteq Successes(answers) /\ Detecting(r) \subseteq Detecting(answers)
        /\ Strong(r) \subseteq Strong(answers)
    BY <2>1 DEF Successes, Detecting, Strong, Failed
  <2>3. Score(r) <= Score(answers) /\ Score(r) \in Nat /\ Score(answers) \in Nat
    <3>1. \A q : /\ Weight(r, q) \in Nat /\ Weight(answers, q) \in Nat
                 /\ Weight(r, q) <= Weight(answers, q)
      BY <1>1, WithoutLowers, WeightBounds
    <3> HIDE DEF r
    <3> QED
      BY <3>1 DEF Score
  <2>4. TwoDetect(r) => TwoDetect(answers)
    BY <2>2 DEF TwoDetect
  <2> HIDE DEF r
  <2>5. Score(answers) >= Threshold
    <3>1. BlockCandidate(r)
      BY <1>1 DEF r
    <3> QED
      BY <2>3, <3>1, VerdictAssumption DEF BlockCandidate
  <2> QED
    BY <1>1, <2>2, <2>4, <2>5 DEF BlockCandidate, r
<1>2. Answering /\ Judged => OutageNeverBlocks
  BY <1>1 DEF Judged, OutageNeverBlocks
<1> QED
  BY <1>2, AnsweringInvariant, JudgedInvariant, PTL

\* Weak signals of every provider together weigh 45: above that no threshold
\* is reached by them (the default is 90).
THEOREM WeakSignalsAreHarmless ==
  ASSUME Threshold > 45
  PROVE  VerdictSpec => []WeakSignalsNeverBlock
<1>1. ASSUME Answering, AllAnswered, \A p \in Providers : answers[p].weight <= 15
      PROVE  ~BlockCandidate(answers)
  <2>1. \A p : Weight(answers, p) \in Nat /\ Weight(answers, p) <= Weakest(p)
    BY <1>1, WeightBounds
  <2>2. Score(answers) <= 45 /\ Score(answers) \in Nat
    BY <2>1 DEF Score, Weakest
  <2> QED
    BY <2>2, VerdictAssumption DEF BlockCandidate
<1>2. Answering /\ Judged => WeakSignalsNeverBlock
  BY <1>1 DEF Judged, WeakSignalsNeverBlock
<1> QED
  BY <1>2, AnsweringInvariant, JudgedInvariant, PTL

-----------------------------------------------------------------------------
(* The publisher.                                                           *)

Deciding ==
  \A g \in Goroutines :
    /\ pc[g] \in {"decide", "lock", "test", "mark", "emit"} => job[g] \in Jobs
    /\ pc[g] \in {"test", "mark"} <=> mu = g

\* An entry was let through when the history says, unless it is too old.
Remembered ==
  /\ \A g \in Goroutines : clock[g] <= now
  /\ \A k \in DOMAIN seen : k \in DOMAIN passAt /\ passAt[k] = seen[k]
  /\ \A k \in DOMAIN passAt :
       passAt[k] <= now /\ (k \notin DOMAIN seen => now - passAt[k] > PruneAfter)

\* What the check under the lock has found stays so until it marks the entry.
Tested == \A g \in Goroutines : pc[g] = "mark" => ~CoolingDown(g)

\* A BLOCK line that did not reach the server when it was due never will, and
\* no command will either.
DueMeansGone == \A g \in Goroutines : blockLine[g] = "due" => gone

PInv == TypeOK /\ Deciding /\ Remembered /\ Tested /\ DueMeansGone

-----------------------------------------------------------------------------
(* Typing.                                                                  *)

\* The typing in three parts.
CheckTypes ==
  /\ pc \in [Goroutines -> {"idle", "decide", "lock", "test", "mark", "emit", "enforce"}]
  /\ job \in [Goroutines -> Jobs \union {NoJob}]
  /\ commands \in [Goroutines -> Seq(Commands)]
  /\ blockLine \in [Goroutines -> {"none", "due", "received"}]

CoolTypes ==
  /\ clock \in [Goroutines -> 0 .. MaxTime]
  /\ mu \in Goroutines \union {NoOne}
  /\ \E K \in SUBSET Keys : seen \in [K -> 0 .. MaxTime]
  /\ \E K \in SUBSET Keys : passAt \in [K -> 0 .. MaxTime]
  /\ now \in 0 .. MaxTime

QueueTypes ==
  /\ queue \in Seq(Lines) /\ Len(queue) <= QueueCap
  /\ worker \in Lines \union {NoLine}
  /\ cancelled \in BOOLEAN /\ gone \in BOOLEAN

LEMMA TypeParts == TypeOK <=> CheckTypes /\ CoolTypes /\ QueueTypes
BY DEF TypeOK, CheckTypes, CoolTypes, QueueTypes

\* Whatever the mode, the commands are bans and kicks.
LEMMA EnforcementType == Enforcement \in Seq(Commands)
<1>1. CustomEnforcement \in Seq(Commands)
  <2>1. <<>> \in Seq(Commands) /\ <<"ban">> \in Seq(Commands)
    BY DEF Commands
  <2>2. \A s \in Seq(Commands) : Append(s, "kick") \in Seq(Commands)
    BY DEF Commands
  <2> QED
    BY <2>1, <2>2, Zenon DEF CustomEnforcement
<1>2. <<"kick">> \in Seq(Commands) /\ <<"ban">> \in Seq(Commands) /\ <<"ban", "kick">> \in Seq(Commands)
  BY DEF Commands
<1> QED
  BY <1>1, <1>2 DEF Enforcement

LEMMA ProceedType ==
  ASSUME CheckTypes, NEW g \in Goroutines, Proceed(g), blockLine' = blockLine
  PROVE  CheckTypes'
BY EnforcementType DEF CheckTypes, Proceed, Goto

LEMMA CheckTypesStep ==
  ASSUME CheckTypes, [Next]_vars
  PROVE  CheckTypes'
<1>1. ASSUME NEW g \in Goroutines, NEW j \in Jobs, Decide(g, j) PROVE CheckTypes'
  BY <1>1 DEF Decide, Goto, CheckTypes
<1>2. ASSUME NEW g \in Goroutines, NEW b \in BOOLEAN, Judge(g, b) PROVE CheckTypes'
  <2>1. CASE \E place \in {"emit", "lock"} : Goto(g, place) /\ UNCHANGED <<job, commands, blockLine>>
    BY <2>1 DEF Goto, CheckTypes
  <2> QED
    BY <1>2, <2>1, ProceedType DEF Judge
<1>3. ASSUME NEW g \in Goroutines, Lock(g) \/ Test(g) \/ Mark(g) PROVE CheckTypes'
  <2>1. CASE \E place \in {"test", "mark", "emit"} :
               Goto(g, place) /\ UNCHANGED <<job, commands, blockLine>>
    BY <2>1 DEF Goto, CheckTypes
  <2> QED
    BY <1>3, <2>1, ProceedType DEF Lock, Test, Mark
<1>4. ASSUME NEW g \in Goroutines, Emit(g) PROVE CheckTypes'
  <2>1. blockLine' \in [Goroutines -> {"none", "due", "received"}]
    BY <1>4 DEF Emit, CheckTypes
  <2>2. /\ pc' \in [Goroutines -> {"idle", "decide", "lock", "test", "mark", "emit", "enforce"}]
        /\ job' \in [Goroutines -> Jobs \union {NoJob}]
        /\ commands' \in [Goroutines -> Seq(Commands)]
    <3>1. Proceed(g)
      BY <1>4 DEF Emit
    <3> QED
      BY <3>1, EnforcementType DEF CheckTypes, Proceed, Goto
  <2> QED
    BY <2>1, <2>2 DEF CheckTypes
<1>5. ASSUME NEW g \in Goroutines, Enforce(g) PROVE CheckTypes'
  <2>1. commands[g] \in Seq(Commands) /\ commands[g] # <<>>
    BY <1>5 DEF Enforce, CheckTypes
  <2>2. <<>> \in Seq(Commands) /\ Tail(commands[g]) \in Seq(Commands)
    BY <2>1
  <2>3. \E c \in Seq(Commands) : commands' = [commands EXCEPT ![g] = c]
    BY <1>5, <2>2 DEF Enforce
  <2> QED
    BY <1>5, <2>3 DEF Enforce, CheckTypes
<1>6. ASSUME NEW g \in Goroutines, Finish(g) PROVE CheckTypes'
  BY <1>6 DEF Finish, Goto, CheckTypes
<1>7. CASE WorkerEmits
  BY <1>7 DEF WorkerEmits, CheckTypes
<1>8. ASSUME UNCHANGED pubVars PROVE CheckTypes'
  BY <1>8 DEF pubVars, CheckTypes
<1> QED
  BY <1>1, <1>2, <1>3, <1>4, <1>5, <1>6, <1>7, <1>8
     DEF Next, CheckStep, RconKick, WorkerTakes, Cancel, ServerCloses, Tick, vars

\* The keys of broadcastSeen are those of decisions.
LEMMA CoolTypesStep ==
  ASSUME CoolTypes, Deciding, [Next]_vars
  PROVE  CoolTypes'
<1>1. ASSUME UNCHANGED <<clock, mu, seen, passAt, now>> PROVE CoolTypes'
  BY <1>1 DEF CoolTypes
<1>2. ASSUME NEW g \in Goroutines, NEW b \in BOOLEAN, Judge(g, b) PROVE CoolTypes'
  <2>1. clock' = clock \/ clock' = [clock EXCEPT ![g] = now]
    BY <1>2 DEF Judge
  <2> QED
    BY <1>2, <2>1 DEF Judge, CoolTypes, coolVars
<1>3. ASSUME NEW g \in Goroutines, Lock(g) PROVE CoolTypes'
  <2>1. PICK K \in SUBSET Keys : seen \in [K -> 0 .. MaxTime]
    BY DEF CoolTypes
  <2>2. Fresh(clock[g]) \in SUBSET K
    BY <2>1 DEF Fresh
  <2>3. seen' \in [Fresh(clock[g]) -> 0 .. MaxTime]
    BY <1>3, <2>1, <2>2 DEF Lock, Restrict
  <2>4. \E J \in SUBSET Keys : seen' \in [J -> 0 .. MaxTime]
    BY <2>2, <2>3
  <2> QED
    BY <1>3, <2>4 DEF Lock, CoolTypes
<1>4. ASSUME NEW g \in Goroutines, Test(g) PROVE CoolTypes'
  <2>1. 0 \in 0 .. MaxTime
    BY PublisherAssumption
  <2> QED
    BY <1>4, <2>1 DEF Test, CoolTypes
<1>5. ASSUME NEW g \in Goroutines, Mark(g) PROVE CoolTypes'
  <2>1. Key(job[g]) \in Keys
    BY <1>5 DEF Mark, Deciding, Key, Keys, Jobs
  <2>2. clock[g] \in 0 .. MaxTime /\ 0 \in 0 .. MaxTime
    BY PublisherAssumption DEF CoolTypes
  <2>3. ASSUME NEW f, NEW K \in SUBSET Keys, f \in [K -> 0 .. MaxTime]
        PROVE  \E J \in SUBSET Keys : Put(f, Key(job[g]), clock[g]) \in [J -> 0 .. MaxTime]
    <3>1. Put(f, Key(job[g]), clock[g]) \in [K \union {Key(job[g])} -> 0 .. MaxTime]
      BY <2>2, <2>3 DEF Put
    <3> QED
      BY <2>1, <3>1
  <2> QED
    BY <1>5, <2>2, <2>3 DEF Mark, CoolTypes
<1>6. CASE Tick
  BY <1>6, PublisherAssumption DEF Tick, CoolTypes, pubVars, coolVars
<1> QED
  BY <1>1, <1>2, <1>3, <1>4, <1>5, <1>6
     DEF Next, CheckStep, Decide, Emit, Enforce, Finish, RconKick, WorkerTakes, WorkerEmits, Cancel,
         ServerCloses, vars, pubVars, coolVars

\* A full queue drops the line.
LEMMA QueueTypesStep ==
  ASSUME QueueTypes, [Next]_vars
  PROVE  QueueTypes'
<1>1. queue \in Seq(Lines) /\ Len(queue) \in Nat
  BY DEF QueueTypes
<1>2. ASSUME NEW line \in Lines, Enqueue(line), UNCHANGED <<worker, cancelled, gone>>
      PROVE  QueueTypes'
  <2>1. CASE Len(queue) < QueueCap
    <3>1. queue' \in Seq(Lines) /\ Len(queue') = Len(queue) + 1
      BY <1>1, <1>2, <2>1 DEF Enqueue
    <3> QED
      BY <1>1, <1>2, <2>1, <3>1, PublisherAssumption DEF QueueTypes
  <2>2. CASE ~(Len(queue) < QueueCap)
    BY <1>2, <2>2 DEF Enqueue, QueueTypes
  <2> QED
    BY <2>1, <2>2
<1>3. ASSUME UNCHANGED <<queue, worker, cancelled, gone>> PROVE QueueTypes'
  BY <1>3 DEF QueueTypes
<1>4. ASSUME NEW g \in Goroutines, Emit(g) PROVE QueueTypes'
  <2>1. LineOf(g) \in Lines
    BY DEF LineOf, Lines
  <2>2. (queue' = queue \/ Enqueue(LineOf(g))) /\ UNCHANGED <<worker, cancelled, gone>>
    BY <1>4 DEF Emit
  <2> QED
    BY <1>2, <1>3, <2>1, <2>2
<1>5. CASE RconKick
  BY <1>2, <1>5 DEF RconKick, Lines
<1>6. CASE WorkerTakes
  <2>1. Head(queue) \in Lines /\ queue' \in Seq(Lines) /\ Len(queue') = Len(queue) - 1
    BY <1>1, <1>6 DEF WorkerTakes
  <2> QED
    BY <1>1, <1>6, <2>1, PublisherAssumption DEF WorkerTakes, QueueTypes
<1>7. CASE WorkerEmits \/ Cancel \/ ServerCloses
  BY <1>7 DEF WorkerEmits, Cancel, ServerCloses, QueueTypes, lineVars
<1> QED
  BY <1>3, <1>4, <1>5, <1>6, <1>7
     DEF Next, CheckStep, Decide, Judge, Lock, Test, Mark, Enforce, Finish, Tick, vars, lineVars

-----------------------------------------------------------------------------
(* The lock, the entries and the lines.                                     *)

\* A check that goes on, to the enforcement or to its end, decides no more.
LEMMA ProceedLeaves ==
  ASSUME CheckTypes, NEW g \in Goroutines, Proceed(g)
  PROVE  /\ pc'[g] \in {"idle", "enforce"}
         /\ \A k \in Goroutines \ {g} : pc'[k] = pc[k] /\ job'[k] = job[k]
BY DEF CheckTypes, Proceed, Goto

LEMMA DecidingStep ==
  ASSUME CheckTypes, CoolTypes, Deciding, [Next]_vars
  PROVE  Deciding'
<1>1. ASSUME UNCHANGED <<pc, job, mu>> PROVE Deciding'
  BY <1>1 DEF Deciding
<1>2. ASSUME NEW g \in Goroutines, mu' = mu, pc[g] \notin {"test", "mark"},
             pc'[g] \notin {"test", "mark"},
             pc'[g] \in {"decide", "lock", "emit"} => job'[g] \in Jobs,
             \A k \in Goroutines \ {g} : pc'[k] = pc[k] /\ job'[k] = job[k]
      PROVE  Deciding'
  BY <1>2 DEF Deciding
<1>3. ASSUME NEW g \in Goroutines, NEW j \in Jobs, Decide(g, j) PROVE Deciding'
  <2>1. /\ pc'[g] = "decide" /\ job'[g] = j /\ mu' = mu /\ pc[g] = "idle"
        /\ \A k \in Goroutines \ {g} : pc'[k] = pc[k] /\ job'[k] = job[k]
    BY <1>3 DEF Decide, Goto, CheckTypes, coolVars
  <2> QED
    BY <1>2, <2>1
<1>4. ASSUME NEW g \in Goroutines, NEW b \in BOOLEAN, Judge(g, b) PROVE Deciding'
  <2>1. pc[g] = "decide" /\ mu' = mu /\ job[g] \in Jobs
    BY <1>4 DEF Judge, coolVars, Deciding
  <2>2. CASE Proceed(g)
    BY <1>2, <2>1, <2>2, ProceedLeaves
  <2>3. CASE \E place \in {"emit", "lock"} : Goto(g, place) /\ job' = job
    <3>1. /\ pc'[g] \in {"emit", "lock"} /\ job' = job
          /\ \A k \in Goroutines \ {g} : pc'[k] = pc[k]
      BY <2>3 DEF Goto, CheckTypes
    <3> QED
      BY <1>2, <2>1, <3>1
  <2> QED
    BY <1>4, <2>2, <2>3 DEF Judge
<1>5. ASSUME NEW g \in Goroutines, Lock(g) PROVE Deciding'
  <2>1. /\ pc[g] = "lock" /\ pc'[g] = "test" /\ mu = NoOne /\ mu' = g /\ job' = job
        /\ \A k \in Goroutines \ {g} : pc'[k] = pc[k]
    BY <1>5 DEF Lock, Goto, CheckTypes
  <2>2. \A k \in Goroutines : pc[k] \in {"test", "mark"} => k = NoOne
    BY <2>1 DEF Deciding
  <2>3. job[g] \in Jobs
    BY <2>1 DEF Deciding
  <2> QED
    BY <2>1, <2>2, <2>3, PublisherAssumption DEF Deciding
<1>6. ASSUME NEW g \in Goroutines, Test(g) PROVE Deciding'
  <2>1. pc[g] = "test" /\ mu = g /\ job[g] \in Jobs
    BY <1>6 DEF Test, Deciding
  <2>2. CASE Proceed(g) /\ mu' = NoOne
    BY <2>1, <2>2, ProceedLeaves, PublisherAssumption DEF Deciding
  <2>3. CASE Goto(g, "mark") /\ UNCHANGED <<mu, job>>
    <3>1. pc'[g] = "mark" /\ \A k \in Goroutines \ {g} : pc'[k] = pc[k]
      BY <2>3 DEF Goto, CheckTypes
    <3> QED
      BY <2>1, <2>3, <3>1 DEF Deciding
  <2> QED
    BY <1>6, <2>2, <2>3 DEF Test
<1>7. ASSUME NEW g \in Goroutines, Mark(g) PROVE Deciding'
  <2>1. /\ pc[g] = "mark" /\ mu = g /\ job[g] \in Jobs /\ job' = job /\ mu' = NoOne
        /\ pc'[g] = "emit" /\ \A k \in Goroutines \ {g} : pc'[k] = pc[k]
    BY <1>7 DEF Mark, Goto, Deciding, CheckTypes
  <2> QED
    BY <2>1, PublisherAssumption DEF Deciding
<1>8. ASSUME NEW g \in Goroutines, Emit(g) PROVE Deciding'
  <2>1. pc[g] = "emit" /\ mu' = mu /\ Proceed(g)
    BY <1>8 DEF Emit, coolVars
  <2> QED
    BY <1>2, <2>1, ProceedLeaves
<1>9. ASSUME NEW g \in Goroutines, Finish(g) PROVE Deciding'
  <2>1. /\ pc[g] = "enforce" /\ pc'[g] = "idle" /\ mu' = mu
        /\ \A k \in Goroutines \ {g} : pc'[k] = pc[k] /\ job'[k] = job[k]
    BY <1>9 DEF Finish, Goto, CheckTypes, coolVars
  <2> QED
    BY <1>2, <2>1
<1> QED
  BY <1>1, <1>3, <1>4, <1>5, <1>6, <1>7, <1>8, <1>9
     DEF Next, CheckStep, Enforce, RconKick, WorkerTakes, WorkerEmits, Cancel, ServerCloses, Tick,
         vars, pubVars, coolVars

\* An entry is deleted only when it is too old, and what is marked is both
\* remembered and in the history.
LEMMA RememberedStep ==
  ASSUME CoolTypes, Remembered, [Next]_vars
  PROVE  Remembered'
<1> USE DEF Remembered
<1>1. ASSUME UNCHANGED <<clock, seen, passAt, now>> PROVE Remembered'
  BY <1>1
<1>2. now \in Int /\ (\A g \in Goroutines : clock[g] \in Int /\ 0 <= now)
      /\ (\A k \in DOMAIN seen : seen[k] \in Int) /\ (\A k \in DOMAIN passAt : passAt[k] \in Int)
  BY DEF CoolTypes
<1>3. ASSUME NEW g \in Goroutines, NEW b \in BOOLEAN, Judge(g, b) PROVE Remembered'
  <2>1. clock' = clock \/ clock' = [clock EXCEPT ![g] = now]
    BY <1>3 DEF Judge
  <2>2. \A h \in Goroutines : clock'[h] <= now
    BY <1>2, <2>1 DEF CoolTypes
  <2> QED
    BY <1>3, <2>2 DEF Judge, coolVars
<1>4. ASSUME NEW g \in Goroutines, Lock(g) PROVE Remembered'
  <2>1. /\ DOMAIN seen' = Fresh(clock[g]) /\ \A k \in DOMAIN seen' : seen'[k] = seen[k]
        /\ UNCHANGED <<clock, passAt, now>>
    BY <1>4 DEF Lock, Restrict, Fresh
  <2>2. \A k \in DOMAIN seen : k \in Fresh(clock[g]) \/ clock[g] - seen[k] > PruneAfter
    BY <1>2, PublisherAssumption DEF Fresh
  <2>3. \A k \in DOMAIN seen : k \in Fresh(clock[g]) \/ now - passAt[k] > PruneAfter
    BY <1>2, <2>2, PublisherAssumption
  <2>4. Fresh(clock[g]) \subseteq DOMAIN seen
    BY DEF Fresh
  <2> QED
    BY <2>1, <2>3, <2>4
<1>5. ASSUME NEW g \in Goroutines, Test(g) PROVE Remembered'
  <2>1. \A h \in Goroutines : clock'[h] <= now
    BY <1>2, <1>5 DEF Test, CoolTypes
  <2> QED
    BY <1>5, <2>1 DEF Test
<1>6. ASSUME NEW g \in Goroutines, Mark(g) PROVE Remembered'
  <2> DEFINE k == Key(job[g])
  <2>1. /\ DOMAIN seen' = DOMAIN seen \union {k} /\ DOMAIN passAt' = DOMAIN passAt \union {k}
        /\ seen'[k] = clock[g] /\ passAt'[k] = clock[g] /\ now' = now
        /\ \A x \in DOMAIN seen : x # k => seen'[x] = seen[x]
        /\ \A x \in DOMAIN passAt : x # k => passAt'[x] = passAt[x]
    BY <1>6 DEF Mark, Put
  <2>2. \A h \in Goroutines : clock'[h] <= now
    BY <1>2, <1>6 DEF Mark, CoolTypes
  <2> HIDE DEF k
  <2> QED
    BY <2>1, <2>2
<1>7. CASE Tick
  <2>1. now' = now + 1 /\ UNCHANGED <<clock, seen, passAt>>
    BY <1>7 DEF Tick, pubVars, coolVars
  <2> QED
    BY <1>2, <2>1, PublisherAssumption
<1> QED
  BY <1>1, <1>3, <1>4, <1>5, <1>6, <1>7
     DEF Next, CheckStep, Decide, Emit, Enforce, Finish, RconKick, WorkerTakes, WorkerEmits, Cancel,
         ServerCloses, vars, pubVars, coolVars

\* Nobody changes broadcastSeen under another check's lock.
LEMMA TestedStep ==
  ASSUME CheckTypes, CoolTypes, Deciding, Tested, [Next]_vars
  PROVE  Tested'
<1>1. ASSUME UNCHANGED seen,
             \A h \in Goroutines : pc'[h] = "mark" =>
               pc[h] = "mark" /\ job'[h] = job[h] /\ clock'[h] = clock[h]
      PROVE  Tested'
  BY <1>1 DEF Tested, CoolingDown
<1>2. ASSUME NEW g \in Goroutines, seen' = seen, pc'[g] # "mark",
             \A h \in Goroutines \ {g} :
               pc'[h] = pc[h] /\ job'[h] = job[h] /\ clock'[h] = clock[h]
      PROVE  Tested'
  BY <1>1, <1>2
<1>3. ASSUME NEW g \in Goroutines, NEW j \in Jobs, Decide(g, j) PROVE Tested'
  BY <1>2, <1>3 DEF Decide, Goto, CheckTypes, coolVars
<1>4. ASSUME NEW g \in Goroutines, NEW b \in BOOLEAN, Judge(g, b) PROVE Tested'
  <2>1. seen' = seen /\ \A h \in Goroutines \ {g} : clock'[h] = clock[h]
    BY <1>4 DEF Judge, coolVars, CoolTypes
  <2>2. CASE Proceed(g)
    BY <1>2, <2>1, <2>2, ProceedLeaves
  <2>3. CASE \E place \in {"emit", "lock"} : Goto(g, place) /\ job' = job
    <3>1. pc'[g] # "mark" /\ \A h \in Goroutines \ {g} : pc'[h] = pc[h]
      BY <2>3 DEF Goto, CheckTypes
    <3> QED
      BY <1>2, <2>1, <2>3, <3>1
  <2> QED
    BY <1>4, <2>2, <2>3 DEF Judge
<1>5. ASSUME NEW g \in Goroutines, Lock(g) PROVE Tested'
  <2>1. \A h \in Goroutines : pc'[h] # "mark"
    BY <1>5, PublisherAssumption DEF Lock, Goto, Deciding, CheckTypes
  <2> QED
    BY <2>1 DEF Tested
<1>6. ASSUME NEW g \in Goroutines, Test(g) PROVE Tested'
  <2>1. seen' = seen /\ \A h \in Goroutines \ {g} : clock'[h] = clock[h]
    BY <1>6 DEF Test, CoolTypes
  <2>2. CASE Proceed(g)
    BY <1>2, <2>1, <2>2, ProceedLeaves
  <2>3. CASE ~CoolingDown(g) /\ Goto(g, "mark") /\ UNCHANGED <<job, clock>>
    <3>1. \A h \in Goroutines \ {g} : pc'[h] = pc[h]
      BY <2>3 DEF Goto, CheckTypes
    <3> QED
      BY <2>1, <2>3, <3>1 DEF Tested, CoolingDown
  <2> QED
    BY <1>6, <2>2, <2>3 DEF Test
<1>7. ASSUME NEW g \in Goroutines, Mark(g) PROVE Tested'
  <2>1. \A h \in Goroutines : pc'[h] # "mark"
    BY <1>7 DEF Mark, Goto, Deciding, CheckTypes
  <2> QED
    BY <2>1 DEF Tested
<1>8. ASSUME NEW g \in Goroutines, Emit(g) PROVE Tested'
  BY <1>2, <1>8, ProceedLeaves DEF Emit, coolVars
<1>9. ASSUME NEW g \in Goroutines, Enforce(g) \/ Finish(g) PROVE Tested'
  BY <1>2, <1>9 DEF Enforce, Finish, Goto, CheckTypes, coolVars
<1> QED
  BY <1>1, <1>3, <1>4, <1>5, <1>6, <1>7, <1>8, <1>9
     DEF Next, CheckStep, RconKick, WorkerTakes, WorkerEmits, Cancel, ServerCloses, Tick, vars, pubVars,
         coolVars

LEMMA DueStep ==
  ASSUME CheckTypes, QueueTypes, DueMeansGone, [Next]_vars
  PROVE  DueMeansGone'
<1>1. ASSUME blockLine' = blockLine, gone' = gone \/ gone' = TRUE PROVE DueMeansGone'
  BY <1>1 DEF DueMeansGone
<1>2. ASSUME NEW g \in Goroutines, Emit(g) PROVE DueMeansGone'
  BY <1>1, <1>2 DEF Emit, DueMeansGone, CheckTypes
<1>3. ASSUME NEW g \in Goroutines, Finish(g) PROVE DueMeansGone'
  BY <1>3 DEF Finish, DueMeansGone, CheckTypes
<1>4. CASE WorkerEmits
  BY <1>4 DEF WorkerEmits, DueMeansGone
<1> QED
  BY <1>1, <1>2, <1>3, <1>4
     DEF Next, CheckStep, Decide, Judge, Lock, Test, Mark, Enforce, RconKick, WorkerTakes, Cancel,
         ServerCloses, Tick, vars, pubVars

-----------------------------------------------------------------------------
(* The theorems about the publisher.                                        *)

LEMMA Initially == Init => PInv
<1> SUFFICES ASSUME Init PROVE PInv
  OBVIOUS
<1>1. CheckTypes
  BY DEF Init, CheckTypes
<1>2. CoolTypes
  <2>1. 0 \in 0 .. MaxTime /\ {} \in SUBSET Keys
    BY PublisherAssumption
  <2>2. seen \in [{} -> 0 .. MaxTime] /\ passAt \in [{} -> 0 .. MaxTime]
    BY DEF Init
  <2>3. clock \in [Goroutines -> 0 .. MaxTime]
    BY <2>1 DEF Init
  <2> QED
    BY <2>1, <2>2, <2>3 DEF Init, CoolTypes
<1>3. QueueTypes
  <2>1. 0 <= QueueCap
    BY PublisherAssumption
  <2>2. Len(<<>>) = 0 /\ <<>> \in Seq(Lines)
    OBVIOUS
  <2> QED
    BY <2>1, <2>2 DEF Init, QueueTypes
<1>4. Deciding /\ Remembered /\ Tested /\ DueMeansGone
  BY PublisherAssumption DEF Init, Deciding, Remembered, Tested, DueMeansGone
<1> QED
  BY <1>1, <1>2, <1>3, <1>4, TypeParts DEF PInv

\* The invariant holds of every behaviour.
LEMMA Invariant == Spec => []PInv
<1>1. PInv /\ [Next]_vars => PInv'
  <2> SUFFICES ASSUME PInv, [Next]_vars PROVE PInv'
    OBVIOUS
  <2>1. CheckTypes /\ CoolTypes /\ QueueTypes
    BY TypeParts DEF PInv
  <2>2. CheckTypes' /\ CoolTypes' /\ QueueTypes'
    BY <2>1, CheckTypesStep, CoolTypesStep, QueueTypesStep DEF PInv
  <2>3. TypeOK'
    BY <2>2 DEF TypeOK, CheckTypes, CoolTypes, QueueTypes
  <2> QED
    BY <2>1, <2>3, DecidingStep, RememberedStep, TestedStep, DueStep DEF PInv
<1> QED
  BY <1>1, Initially, PTL DEF Spec

\* The publisher is well typed: the queue never grows beyond its capacity.
THEOREM PublisherTyping == Spec => []TypeOK
<1>1. PInv => TypeOK
  BY DEF PInv
<1> QED
  BY <1>1, Invariant, PTL

\* However many checks publish, however full the queue and whenever the server
\* goes: no command of an enforcement reaches it before the BLOCK line that is
\* due with it.
THEOREM BlockLineIsFirst == Spec => BlockLineFirst
<1>1. PInv => [\A g \in Goroutines : Received(g) => blockLine[g] # "due"]_vars
  BY DEF PInv, DueMeansGone, Received
<1> QED
  BY <1>1, Invariant, PTL DEF BlockLineFirst

\* Checks that decide at once share one cooldown for an address and action,
\* whatever the cooldown, the time entries are kept and the delays between
\* reading the clock and taking the lock.
THEOREM OneLinePerCooldown == Spec => CooldownHolds
<1> DEFINE Spaced ==
      \A g \in Goroutines :
        LET k == Key(job[g]) IN
        /\ pc[g] # "emit" /\ pc'[g] = "emit" /\ job[g].kind # "real_connect"
        /\ k \in DOMAIN passAt
        => now - passAt[k] >= Cooldown \/ now - passAt[k] > PruneAfter
<1>1. PInv /\ [Next]_vars => [Spaced]_vars
  <2> SUFFICES ASSUME PInv, Next, NEW g \in Goroutines, pc[g] # "emit", pc'[g] = "emit",
                      job[g].kind # "real_connect", Key(job[g]) \in DOMAIN passAt
               PROVE  \/ now - passAt[Key(job[g])] >= Cooldown
                      \/ now - passAt[Key(job[g])] > PruneAfter
    OBVIOUS
  <2> DEFINE k == Key(job[g])
  <2>1. /\ passAt[k] \in Int /\ now \in Int /\ clock[g] \in Int
        /\ passAt[k] <= now /\ clock[g] <= now
        /\ k \notin DOMAIN seen => now - passAt[k] > PruneAfter
        /\ k \in DOMAIN seen => seen[k] = passAt[k]
    BY DEF PInv, TypeOK, Remembered
  <2>2. (\E b \in BOOLEAN : Judge(g, b)) \/ Mark(g)
    <3>1. CheckTypes
      BY TypeParts DEF PInv
    <3>2. ASSUME NEW h \in Goroutines, Proceed(h) PROVE FALSE
      BY <3>1, <3>2, ProceedLeaves
    <3>3. ASSUME NEW h \in Goroutines, NEW place, Goto(h, place), h # g \/ place # "emit" PROVE FALSE
      BY <3>1, <3>3 DEF Goto, CheckTypes
    <3>4. pc' # pc
      OBVIOUS
    <3>5. ASSUME NEW h \in Goroutines, NEW j \in Jobs, Decide(h, j) PROVE FALSE
      BY <3>3, <3>5 DEF Decide
    <3>6. ASSUME NEW h \in Goroutines, CheckStep(h) PROVE h = g
      BY <3>2, <3>3, <3>4, <3>6 DEF CheckStep, Judge, Lock, Test, Mark, Emit, Enforce, Finish
    <3>7. CheckStep(g)
      BY <3>4, <3>5, <3>6 DEF Next, RconKick, WorkerTakes, WorkerEmits, Cancel, ServerCloses, Tick, pubVars
    <3> QED
      BY <3>2, <3>3, <3>4, <3>7 DEF CheckStep, Lock, Test, Emit, Enforce, Finish
  <2>3. CASE \E b \in BOOLEAN : Judge(g, b)
    <3>1. Cooldown = 0
      <4>1. CheckTypes
        BY TypeParts DEF PInv
      <4>2. ~Proceed(g) /\ ~Goto(g, "lock")
        BY <4>1, ProceedLeaves DEF Goto, CheckTypes
      <4> QED
        BY <2>3, <4>2 DEF Judge, Uncooled
    <3> QED
      BY <2>1, <3>1
  <2>4. CASE Mark(g)
    <3>1. ~CoolingDown(g)
      BY <2>4 DEF PInv, Tested, Mark
    <3> QED
      BY <2>1, <3>1, PublisherAssumption DEF CoolingDown
  <2> QED
    BY <2>2, <2>3, <2>4
<1> QED
  BY <1>1, Invariant, PTL DEF Spec, CooldownHolds

=============================================================================
