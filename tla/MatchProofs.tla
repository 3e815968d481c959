----------------------------- MODULE MatchProofs -----------------------------
(***************************************************************************)
(* Proofs about MatchAnnouncer, for any configuration, any arm time, start  *)
(* delay and pipe, and any number of events.  The inductive invariant IInv  *)
(* says what has been announced in each state of a match (MatchTold), that  *)
(* an armed vote has not been used (ArmedIsUnused), that nothing is left to *)
(* read once the end of stdin was seen (EofIsLast), and that the flush      *)
(* outlasts a pending start line (FlushOutlasts).                           *)
(***************************************************************************)
EXTENDS MatchAnnouncer, TLAPS

\* What has been said in each state of a match, and that no score waits.
MatchTold ==
  /\ match.lead = None
  /\ match.started /\ ~match.startSent => Len(told) = 0 /\ Pending
  /\ match.started /\ match.startSent => Len(told) = 1 /\ told[1] = "start" /\ ~Pending
  /\ ~match.started => match = NoMatch
  /\ MatchLines

ArmedIsUnused == config.vote => unused >= IF armedAge # Unarmed THEN 1 ELSE 0

EofIsLast == loop \in {"flushing", "eof"} => closed /\ pipe = <<>> /\ buffer = <<>>

FlushOutlasts ==
  /\ loop = "flushing" => match.startIn < flushLeft \/ ~Pending
  /\ loop = "eof" => ~Pending

IInv == TypeOK /\ MatchTold /\ ArmedIsUnused /\ EofIsLast /\ FlushOutlasts

-----------------------------------------------------------------------------
(* The handlers.                                                            *)

\* The match that was reset is one.
LEMMA NoMatchFacts ==
  /\ NoMatch \in Matches
  /\ ~NoMatch.started /\ ~NoMatch.startSent /\ ~NoMatch.ending
  /\ NoMatch.lead = None /\ NoMatch.startIn = NoStart
<1> QED
  BY MatchAssumption DEF NoMatch, Matches, NoStart, None

\* The next line is an event.
LEMMA UnreadFacts ==
  ASSUME TypeOK
  PROVE  /\ Unread \in Seq(Events)
         /\ Unread # <<>> => Head(Unread) \in Events /\ Tail(Unread) \in Seq(Events)
<1>1. Unread \in Seq(Events)
  BY DEF TypeOK, Unread
<1> QED
  BY <1>1

\* Asking for a pending start line of the match in hand keeps what was said
\* in order, and sends the line once.
LEMMA MaybeSendFacts ==
  ASSUME TypeOK, MatchTold, NEW m \in Matches,
         m.started = match.started, m.startSent = match.startSent,
         m.startIn = match.startIn, m.lead = None,
         ~m.started => m = NoMatch,
         MaybeSendPendingMatchStart(m, told)
  PROVE  /\ match' \in Matches
         /\ told' \in Seq({"start"} \union Leads)
         /\ MatchTold'
         /\ match'.startIn \in {match.startIn, NoStart}
         /\ told' = told \/ told'[Len(told')] = "start"
<1>1. CASE m.startIn = 0
  <2>1. m.started /\ ~m.startSent
    BY <1>1, NoMatchFacts DEF MatchTold, Pending, NoStart
  <2>2. Len(told) = 0
    BY <2>1 DEF MatchTold
  <2>3. told' = Append(told, "start")
    BY <1>1, <2>1 DEF MaybeSendPendingMatchStart
  <2>4. /\ told' \in Seq({"start"} \union Leads)
        /\ Len(told') = 1 /\ told'[1] = "start"
    BY <2>2, <2>3 DEF TypeOK
  <2>5. match' = [m EXCEPT !.startIn = NoStart, !.startSent = TRUE]
    BY <1>1 DEF MaybeSendPendingMatchStart
  <2>6. /\ match' \in Matches
        /\ match'.started /\ match'.startSent /\ match'.startIn = NoStart
        /\ match'.lead = None
    BY <2>1, <2>5 DEF Matches
  <2>7. MatchTold'
    BY <2>4, <2>6 DEF MatchTold, MatchLines, Pending
  <2> QED
    BY <2>4, <2>6, <2>7
<1>2. CASE m.startIn # 0
  <2>1. match' = m /\ told' = told
    BY <1>2 DEF MaybeSendPendingMatchStart
  <2>2. MatchTold'
    BY <2>1 DEF MatchTold, MatchLines, Pending
  <2> QED
    BY <2>1, <2>2 DEF TypeOK
<1> QED
  BY <1>1, <1>2

\* The summary ends the match, and is its only end line.
LEMMA SummaryFacts ==
  ASSUME TypeOK, MatchTold, match.started, NEW m \in Matches,
         SendSummaryAndReset(m)
  PROVE  /\ match' = NoMatch
         /\ told' \in Seq({"start"} \union Leads)
         /\ told'[Len(told')] = IF m.lead = None THEN "draw" ELSE m.lead
         /\ MatchTold'
<1>1. match' = NoMatch
  BY DEF SendSummaryAndReset
<1>2. PICK l \in Leads : told' = Append(told, l) /\ l = IF m.lead = None THEN "draw" ELSE m.lead
  <2>1. m.lead \in Leads \union {None}
    BY DEF Matches
  <2> QED
    BY <2>1 DEF SendSummaryAndReset, Leads
<1>3. Len(told) = 0 \/ (Len(told) = 1 /\ told[1] = "start")
  BY DEF MatchTold
<1>4. /\ told' \in Seq({"start"} \union Leads)
      /\ Len(told') = Len(told) + 1 /\ told'[Len(told')] = l
      /\ \A i \in 1 .. Len(told) : told'[i] = told[i]
  BY <1>2 DEF TypeOK
<1>5. l # "start"
  BY <1>2 DEF Leads
<1>6. MatchLines'
  BY <1>3, <1>4, <1>5 DEF MatchLines
<1>7. MatchTold'
  BY <1>1, <1>6, NoMatchFacts DEF MatchTold
<1> QED
  BY <1>1, <1>2, <1>4, <1>7

-----------------------------------------------------------------------------
(* The handlers keep what was said, and use a vote for a match.             *)

\* What handling one event does to the variables of the machine.
Handled ==
  /\ match' \in Matches
  /\ told' \in Seq({"start"} \union Leads)
  /\ armedAge' \in 0 .. (ArmTime + 1) \union {Unarmed}
  /\ unused' \in Int
  /\ MatchTold'
  /\ config.vote => unused' >= IF armedAge' # Unarmed THEN 1 ELSE 0

\* A passed vote arms the addon and counts as one more unused vote.
LEMMA VoteHandled ==
  ASSUME IInv, OnVotePassed
  PROVE  Handled
<1> USE DEF IInv
<1>1. MaybeSendPendingMatchStart(match, told)
  BY DEF OnVotePassed
<1>2. match \in Matches /\ match.lead = None /\ (~match.started => match = NoMatch)
  BY DEF TypeOK, MatchTold
<1>3. match' \in Matches /\ told' \in Seq({"start"} \union Leads) /\ MatchTold'
  BY <1>1, <1>2, MaybeSendFacts
<1>4. /\ armedAge' = 0 /\ unused' = unused + 1
      /\ unused \in Int /\ (config.vote => unused >= 0)
  BY DEF OnVotePassed, TypeOK, ArmedIsUnused
<1> QED
  BY <1>3, <1>4, MatchAssumption DEF Handled, Unarmed

\* Exit, score and scoreboard lines keep what was said in order.
LEMMA RawLineHandled ==
  ASSUME IInv, NEW e \in Events, OnRawLine(e)
  PROVE  Handled
<1> USE DEF IInv
<1>1. match \in Matches /\ match.lead = None /\ (~match.started => match = NoMatch)
  BY DEF TypeOK, MatchTold
<1>2. match' \in Matches /\ told' \in Seq({"start"} \union Leads) /\ MatchTold'
  <2>1. CASE ~match.started /\ MaybeSendPendingMatchStart(match, told)
    BY <1>1, <2>1, MaybeSendFacts
  <2>2. CASE match.started /\ MaybeSendPendingMatchStart([match EXCEPT !.ending = TRUE], told)
    <3> DEFINE m == [match EXCEPT !.ending = TRUE]
    <3>1. /\ m \in Matches
          /\ m.started = match.started /\ m.startSent = match.startSent
          /\ m.startIn = match.startIn /\ m.lead = None /\ m.started
      BY <1>1, <2>2 DEF Matches
    <3>2. MaybeSendPendingMatchStart(m, told)
      BY <2>2
    <3> HIDE DEF m
    <3> QED
      BY <3>1, <3>2, MaybeSendFacts
  <2>3. CASE match.started /\ e.kind = "score" /\ SendSummaryAndReset([match EXCEPT !.lead = e.lead])
    <3>1. [match EXCEPT !.lead = e.lead] \in Matches
      BY <1>1 DEF Matches, Events
    <3> QED
      BY <2>3, <3>1, SummaryFacts, NoMatchFacts
  <2>4. CASE match.started /\ SendSummaryAndReset(match)
    BY <1>1, <2>4, SummaryFacts, NoMatchFacts
  <2> QED
    BY <2>1, <2>2, <2>3, <2>4 DEF OnRawLine
<1>3. armedAge' = armedAge /\ unused' = unused
  BY DEF OnRawLine
<1> QED
  BY <1>2, <1>3 DEF Handled, TypeOK, ArmedIsUnused

\* An InitGame line disarms; a match that it activates spends the vote.
LEMMA InitGameHandled ==
  ASSUME IInv, NEW e \in Events, OnInitGame(e)
  PROVE  Handled
<1> USE DEF IInv
<1>1. match \in Matches /\ match.lead = None /\ (~match.started => match = NoMatch)
  BY DEF TypeOK, MatchTold
<1>2. armedAge' = Unarmed
  BY DEF OnInitGame
<1>3. CASE e.kind = "init" /\ 6 \in config.gametypes /\ (config.vote => Armed)
  <2>1. /\ match' = [NoMatch EXCEPT !.started = TRUE, !.startIn = StartDelay]
        /\ told' = <<>> /\ unused' = unused - 1
    BY <1>3 DEF OnInitGame
  <2>2. /\ match' \in Matches /\ match'.started /\ ~match'.startSent
        /\ match'.startIn = StartDelay /\ match'.lead = None
    <3>1. match' = [started |-> TRUE, ending |-> FALSE, startSent |-> FALSE,
                    startIn |-> StartDelay, lead |-> None]
      BY <2>1 DEF NoMatch
    <3>2. StartDelay \in 0 .. StartDelay
      BY MatchAssumption
    <3> QED
      BY <3>1, <3>2 DEF Matches
  <2>3. told' \in Seq({"start"} \union Leads) /\ Len(told') = 0
    BY <2>1
  <2>4. MatchTold'
    BY <2>2, <2>3, MatchAssumption DEF MatchTold, MatchLines, Pending, NoStart
  <2>5. config.vote => unused >= 1
    BY <1>3 DEF Armed, ArmedIsUnused
  <2> QED
    BY <1>2, <2>1, <2>2, <2>3, <2>4, <2>5 DEF Handled, TypeOK
<1>4. CASE ~(e.kind = "init" /\ 6 \in config.gametypes /\ (config.vote => Armed))
  <2>1. MaybeSendPendingMatchStart(match, told) /\ unused' = unused
    BY <1>4 DEF OnInitGame
  <2>2. match' \in Matches /\ told' \in Seq({"start"} \union Leads) /\ MatchTold'
    BY <1>1, <2>1, MaybeSendFacts
  <2>3. unused \in Int /\ (config.vote => unused >= 0)
    BY DEF TypeOK, ArmedIsUnused
  <2> QED
    BY <1>2, <2>1, <2>2, <2>3 DEF Handled
<1> QED
  BY <1>3, <1>4

\* ShutdownGame ends a match that was ending and does nothing else.
LEMMA ShutdownHandled ==
  ASSUME IInv, OnShutdownGame
  PROVE  Handled
<1> USE DEF IInv
<1>1. match \in Matches /\ match.lead = None /\ (~match.started => match = NoMatch)
  BY DEF TypeOK, MatchTold
<1>2. match' \in Matches /\ told' \in Seq({"start"} \union Leads) /\ MatchTold'
  <2>1. CASE match.started /\ match.ending
    BY <1>1, <2>1, SummaryFacts, NoMatchFacts DEF OnShutdownGame
  <2>2. CASE ~(match.started /\ match.ending)
    BY <1>1, <2>2, MaybeSendFacts DEF OnShutdownGame
  <2> QED
    BY <2>1, <2>2
<1>3. armedAge' = armedAge /\ unused' = unused
  BY DEF OnShutdownGame
<1> QED
  BY <1>2, <1>3 DEF Handled, TypeOK, ArmedIsUnused

\* So does every event.
LEMMA EventHandled ==
  ASSUME IInv, NEW e \in Events, HandleEvent(e)
  PROVE  Handled
BY VoteHandled, RawLineHandled, InitGameHandled, ShutdownHandled DEF HandleEvent

-----------------------------------------------------------------------------
(* The inductive invariant.                                                 *)

\* The invariant holds when main begins.
THEOREM Initially == Init => IInv
<1> SUFFICES ASSUME Init PROVE IInv
  OBVIOUS
<1>1. /\ match \in Matches /\ ~match.started /\ match = NoMatch
      /\ match.lead = None /\ match.startIn = NoStart
  BY NoMatchFacts DEF Init
<1>2. /\ armedAge = Unarmed /\ unused = 0 /\ told = <<>> /\ pipe = <<>> /\ buffer = <<>>
      /\ loop \in {"running", "stopped"} /\ closed = FALSE /\ flushLeft = 0
      /\ written = 0 /\ config \in Configs
  BY DEF Init
<1>3. TypeOK
  <2>1. pipe \in Seq(Events) /\ Len(pipe) <= PipeCap /\ buffer \in Seq(Events)
    BY <1>2, MatchAssumption
  <2>2. told \in Seq({"start"} \union Leads)
    BY <1>2
  <2>3. /\ armedAge \in 0 .. (ArmTime + 1) \union {Unarmed} /\ flushLeft \in 0 .. (StartDelay + 1)
        /\ written \in 0 .. MaxEvents /\ unused \in Int
    BY <1>2, MatchAssumption
  <2> QED
    BY <1>1, <1>2, <2>1, <2>2, <2>3 DEF TypeOK
<1>4. MatchTold
  BY <1>1, <1>2 DEF MatchTold, MatchLines
<1> QED
  BY <1>1, <1>2, <1>3, <1>4 DEF IInv, ArmedIsUnused, EofIsLast, FlushOutlasts

\* Every step of the loop, the runner and the clock keeps the invariant.
THEOREM Inductive == IInv /\ [Next]_vars => IInv'
<1> SUFFICES ASSUME IInv, [Next]_vars PROVE IInv'
  OBVIOUS
<1> USE DEF IInv
<1>1. match \in Matches /\ match.lead = None /\ (~match.started => match = NoMatch)
  BY DEF TypeOK, MatchTold
<1>2. CASE ReadAndHandle
  <2>1. Head(Unread) \in Events /\ Tail(Unread) \in Seq(Events) /\ HandleEvent(Head(Unread))
    BY <1>2, UnreadFacts DEF ReadAndHandle
  <2>2. Handled
    BY <2>1, EventHandled
  <2>3. /\ buffer' \in Seq(Events) /\ pipe' \in Seq(Events) /\ Len(pipe') <= PipeCap
        /\ UNCHANGED <<config, closed, written, loop, flushLeft>> /\ loop = "running"
    BY <1>2, <2>1, MatchAssumption DEF ReadAndHandle, TypeOK
  <2>4. TypeOK'
    BY <2>2, <2>3 DEF TypeOK, Handled
  <2> QED
    BY <2>2, <2>3, <2>4 DEF Handled, ArmedIsUnused, EofIsLast, FlushOutlasts
<1>3. CASE TickTimer \/ Flush
  <2>1. MaybeSendPendingMatchStart(match, told)
    BY <1>3 DEF TickTimer, Flush
  <2>2. /\ match' \in Matches /\ told' \in Seq({"start"} \union Leads) /\ MatchTold'
        /\ match'.startIn \in {match.startIn, NoStart}
    BY <1>1, <2>1, MaybeSendFacts
  <2>3. UNCHANGED <<config, armedAge, unused, inputVars, loop, flushLeft>>
    BY <1>3 DEF TickTimer, Flush
  <2>4. TypeOK'
    BY <2>2, <2>3 DEF TypeOK, inputVars
  <2>5. FlushOutlasts'
    BY <2>2, <2>3 DEF FlushOutlasts, Pending
  <2> QED
    BY <2>2, <2>3, <2>4, <2>5 DEF ArmedIsUnused, EofIsLast, inputVars
<1>4. CASE ReadEof
  <2>1. /\ closed /\ buffer = <<>> /\ pipe = <<>>
        /\ loop' = "flushing" /\ flushLeft' = StartDelay + 1
        /\ UNCHANGED <<config, addonVars, inputVars>>
    BY <1>4 DEF ReadEof, Unread
  <2>2. TypeOK'
    BY <2>1, MatchAssumption DEF TypeOK, addonVars, inputVars
  <2>3. match.startIn \in 0 .. StartDelay \union {NoStart}
    BY <1>1 DEF Matches
  <2>4. FlushOutlasts'
    BY <2>1, <2>3, MatchAssumption DEF FlushOutlasts, Pending, NoStart, addonVars
  <2> QED
    BY <2>1, <2>2, <2>4 DEF MatchTold, MatchLines, Pending, ArmedIsUnused, EofIsLast, addonVars, inputVars
<1>5. CASE FlushEnds
  <2>1. /\ loop = "flushing" /\ loop' = "eof" /\ (~Pending \/ flushLeft = 0)
        /\ UNCHANGED <<config, addonVars, inputVars, flushLeft>>
    BY <1>5 DEF FlushEnds
  <2>2. ~Pending
    <3>1. match.startIn \in 0 .. StartDelay \union {NoStart}
      BY <1>1 DEF Matches
    <3> QED
      BY <2>1, <3>1, MatchAssumption DEF FlushOutlasts, Pending
  <2>3. TypeOK'
    BY <2>1 DEF TypeOK, addonVars, inputVars
  <2> QED
    BY <2>1, <2>2, <2>3 DEF MatchTold, MatchLines, Pending, ArmedIsUnused, EofIsLast,
         FlushOutlasts, addonVars, inputVars
<1>6. CASE Signal
  <2>1. TypeOK'
    BY <1>6 DEF Signal, TypeOK, addonVars, inputVars
  <2> QED
    BY <1>6, <2>1 DEF Signal, MatchTold, MatchLines, Pending, ArmedIsUnused, EofIsLast,
         FlushOutlasts, addonVars, inputVars
<1>7. CASE CloseStdin
  <2>1. TypeOK'
    BY <1>7 DEF CloseStdin, TypeOK, addonVars
  <2> QED
    BY <1>7, <2>1 DEF CloseStdin, MatchTold, MatchLines, Pending, ArmedIsUnused, EofIsLast,
         FlushOutlasts, addonVars
<1>8. CASE Clock
  <2>1. match.startIn \in 0 .. StartDelay \union {NoStart} /\ flushLeft \in 0 .. (StartDelay + 1)
    BY <1>1 DEF Matches, TypeOK
  <2>2. /\ match' = [match EXCEPT !.startIn = Less(@)] /\ flushLeft' = Less(flushLeft)
        /\ armedAge' = IF armedAge \in 0 .. ArmTime THEN armedAge + 1 ELSE armedAge
        /\ UNCHANGED <<config, told, unused, inputVars, loop>>
    BY <1>8 DEF Clock
  <2>3. Less(match.startIn) \in 0 .. StartDelay \union {NoStart}
    BY <2>1, MatchAssumption DEF Less, NoStart
  <2>4. /\ match' \in Matches /\ match'.startIn = Less(match.startIn)
        /\ match'.started = match.started /\ match'.startSent = match.startSent
        /\ match'.lead = match.lead
    BY <1>1, <2>2, <2>3 DEF Matches
  <2>5. /\ armedAge' \in 0 .. (ArmTime + 1) \union {Unarmed}
        /\ armedAge' = Unarmed <=> armedAge = Unarmed
    <3>1. /\ armedAge \in 0 .. (ArmTime + 1) \union {Unarmed} /\ ArmTime \in Nat
      BY MatchAssumption DEF TypeOK
    <3> QED
      BY <2>2, <3>1 DEF Unarmed
  <2>6. flushLeft' \in 0 .. (StartDelay + 1)
    BY <2>1, <2>2, MatchAssumption DEF Less
  <2>7. TypeOK'
    BY <2>2, <2>4, <2>5, <2>6 DEF TypeOK, inputVars
  <2>8. Pending' <=> Pending
    BY <2>1, <2>4, MatchAssumption DEF Pending, Less, NoStart
  <2>9. ~match.started => match' = match
    BY <1>1, <2>2 DEF NoMatch, Less, NoStart
  <2>10. MatchTold'
    BY <1>1, <2>2, <2>4, <2>8, <2>9 DEF MatchTold, MatchLines
  <2>11. loop = "flushing" /\ Pending => match'.startIn < flushLeft'
    BY <1>8, <2>1, <2>2, <2>4, MatchAssumption DEF Clock, FlushDue, FlushOutlasts, Pending, Less, NoStart
  <2>12. FlushOutlasts'
    BY <2>2, <2>8, <2>11 DEF FlushOutlasts
  <2> QED
    BY <2>2, <2>5, <2>7, <2>10, <2>12 DEF ArmedIsUnused, EofIsLast, inputVars
<1>9. ASSUME NEW e \in Events, Deliver(e) PROVE IInv'
  <2>1. /\ pipe' = Append(pipe, e) /\ written' = written + 1 /\ loop = "running"
        /\ written < MaxEvents /\ Len(pipe) < PipeCap
        /\ UNCHANGED <<config, addonVars, buffer, closed, loop, flushLeft>>
    BY <1>9 DEF Deliver
  <2>2. pipe' \in Seq(Events) /\ Len(pipe') <= PipeCap /\ written' \in 0 .. MaxEvents
    BY <2>1, MatchAssumption DEF TypeOK
  <2>3. TypeOK'
    BY <2>1, <2>2 DEF TypeOK, addonVars
  <2> QED
    BY <2>1, <2>3 DEF MatchTold, MatchLines, Pending, ArmedIsUnused, EofIsLast, FlushOutlasts, addonVars
<1>10. CASE UNCHANGED vars
  <2>1. TypeOK'
    BY <1>10 DEF vars, addonVars, inputVars, TypeOK
  <2> QED
    BY <1>10, <2>1 DEF vars, addonVars, inputVars, MatchTold, MatchLines, Pending,
         ArmedIsUnused, EofIsLast, FlushOutlasts
<1> QED
  BY <1>2, <1>3, <1>4, <1>5, <1>6, <1>7, <1>8, <1>9, <1>10 DEF Next, LoopStep

\* The invariant on which the theorems below rest.
THEOREM Invariant == Spec => []IInv
  BY Initially, Inductive, PTL DEF Spec

-----------------------------------------------------------------------------
(* The theorems.                                                            *)

\* The variables keep their types.
THEOREM Typing == Spec => []TypeOK
<1>1. IInv => TypeOK
  BY DEF IInv
<1> QED
  BY <1>1, Invariant, PTL

\* No sequence of events and ticks makes a match have two start lines or two
\* end lines, or a start line after its end.
THEOREM LinesInOrder == Spec => []MatchLines
<1>1. IInv => MatchLines
  BY DEF IInv, MatchTold
<1> QED
  BY <1>1, Invariant, PTL

\* Every match that is announced used up a passed vote of its own.
THEOREM MatchesAreVoted == Spec => []VotePerMatch
<1>1. IInv => VotePerMatch
  BY DEF IInv, TypeOK, ArmedIsUnused, VotePerMatch
<1> QED
  BY <1>1, Invariant, PTL

\* When main returns nothing is unread and no start line is pending, for any
\* start delay: the flush waits long enough.
THEOREM EofLosesNothing == Spec => []NothingLostAtEof
<1>1. IInv => NothingLostAtEof
  BY DEF IInv, EofIsLast, FlushOutlasts, NothingLostAtEof
<1> QED
  BY <1>1, Invariant, PTL

\* A winner is announced only by the score line that names it.
Winner == told' # told /\ told' # <<>> /\ told'[Len(told')] \in {"red", "blue"}
            => Unread # <<>> /\ Head(Unread).lead = told'[Len(told')]

\* A step that sends a winner is the handling of a score line.
LEMMA WinnerStep == IInv /\ [Next]_vars => [Winner]_vars
<1> SUFFICES ASSUME IInv, Next, told' # told, told' # <<>>, told'[Len(told')] \in {"red", "blue"}
             PROVE  Unread # <<>> /\ Head(Unread).lead = told'[Len(told')]
  BY DEF Winner
<1>1. match \in Matches /\ match.lead = None /\ (~match.started => match = NoMatch) /\ TypeOK /\ MatchTold
  BY DEF IInv, TypeOK, MatchTold
<1>2. ASSUME NEW m \in Matches, m.started = match.started, m.startSent = match.startSent,
             m.startIn = match.startIn, m.lead = None, ~m.started => m = NoMatch,
             MaybeSendPendingMatchStart(m, told)
      PROVE  FALSE
  BY <1>1, <1>2, MaybeSendFacts
<1>3. ~MaybeSendPendingMatchStart(match, told)
  BY <1>1, <1>2
<1>4. ReadAndHandle
  BY <1>3 DEF Next, LoopStep, TickTimer, Flush, ReadEof, FlushEnds, Signal, CloseStdin, Clock,
              Deliver, addonVars
<1>5. PICK e \in Events : e = Head(Unread) /\ Unread # <<>> /\ HandleEvent(e)
  BY <1>1, <1>4, UnreadFacts DEF ReadAndHandle
<1>6. OnRawLine(e) \/ OnShutdownGame
  BY <1>3, <1>5 DEF HandleEvent, OnVotePassed, OnInitGame
<1>7. ~(match.started /\ SendSummaryAndReset(match))
  BY <1>1, SummaryFacts
<1>8. OnRawLine(e)
  BY <1>3, <1>6, <1>7 DEF OnShutdownGame
<1>9. ~(match.started /\ MaybeSendPendingMatchStart([match EXCEPT !.ending = TRUE], told))
  <2> DEFINE m == [match EXCEPT !.ending = TRUE]
  <2>1. match.started =>
          /\ m \in Matches
          /\ m.started = match.started /\ m.startSent = match.startSent
          /\ m.startIn = match.startIn /\ m.lead = None /\ m.started
    BY <1>1 DEF Matches
  <2>2. ~(match.started /\ MaybeSendPendingMatchStart(m, told))
    <3> HIDE DEF m
    <3> QED
      BY <1>2, <2>1
  <2> QED
    BY <2>2
<1>10. match.started /\ e.kind = "score" /\ SendSummaryAndReset([match EXCEPT !.lead = e.lead])
  BY <1>3, <1>7, <1>8, <1>9 DEF OnRawLine
<1>11. [match EXCEPT !.lead = e.lead] \in Matches /\ e.lead # None
  BY <1>1, <1>10 DEF Matches, Events
<1>12. [match EXCEPT !.lead = e.lead].lead = e.lead
  BY <1>1 DEF Matches
<1>13. told'[Len(told')] = e.lead
  BY <1>1, <1>10, <1>11, <1>12, SummaryFacts
<1> QED
  BY <1>5, <1>13

\* No score of an earlier match decides what is announced for a later one.
THEOREM WinnersAreOfThisMatch == Spec => WinnerOfThisMatch
<1>1. Spec => [][Winner]_vars
  BY Invariant, WinnerStep, PTL DEF Spec
<1> QED
  BY <1>1, PTL DEF WinnerOfThisMatch, Winner

=============================================================================
