------------------------------ MODULE Supervisor ------------------------------
(***************************************************************************)
(* The loop around the game server: the server prints client lines to its  *)
(* stdout, the scanner reads them in order and keeps the connection        *)
(* tracker, checks run in goroutines of their own and may take any time,   *)
(* and kicks reach the server through its stdin, where they hit whoever is *)
(* in the slot by then.                                                    *)
(*                                                                         *)
(* The server is external: players join, leave and restart the map as they *)
(* like.  Whether an address is blocked is fixed by Blocked; Engine and    *)
(* Verdict model how that comes about, DecisionPublisher the public lines. *)
(***************************************************************************)
EXTENDS ConnectionTracker, SequencesExt

CONSTANTS
  Blocked,        \* addresses whose decision is Blocked
  Checkers,       \* bound: goroutines that exist at once
  MaxConcurrent,  \* capacity of Supervisor.checkSlots
  MaxLines,       \* bound: unread lines of the server
  MaxCommands     \* commands the server's stdin pipe holds; a full pipe
                  \* blocks the writer

ASSUME SupervisorAssumption ==
  /\ IsFiniteSet(Slots)
  /\ Blocked \subseteq Addrs
  /\ MaxConcurrent \in Nat \ {0}
  /\ MaxLines \in Nat
  /\ MaxCommands \in Nat \ {0}

VARIABLES
  occupant,    \* game: the address of who plays in each slot
  stdout,      \* lines printed and not yet read
  stdin,       \* clientkick commands not yet executed: their slots
  checker,     \* where each check stands
  task         \* what it checks

gameVars  == <<occupant, stdout, stdin>>
checkVars == <<checker, task>>
vars == <<trackerVars, gameVars, checkVars>>

LineKinds == {"connect", "userinfo", "disconnect", "init", "badrcon"}
Lines == [kind : LineKinds, slot : Slots \union {NoAddr}, addr : Addrs \union {NoAddr}]
Line(k, s, a) == [kind |-> k, slot |-> s, addr |-> a]

SupervisorTypeOK ==
  /\ occupant \in [Slots -> Addrs \union {NoAddr}]
  /\ stdout \in Seq(Lines)
  /\ stdin \in Seq(Slots)
  /\ checker \in [Checkers -> {"free", "queued", "running", "decided"}]
  /\ task \in [Checkers -> Checks \union {NoCheck}]
  /\ \A c \in Checkers : checker[c] = "free" <=> task[c] = NoCheck

Init ==
  /\ TrackerInit
  /\ occupant = [s \in Slots |-> NoAddr]
  /\ stdout = <<>>
  /\ stdin = <<>>
  /\ checker = [c \in Checkers |-> "free"]
  /\ task = [c \in Checkers |-> NoCheck]

-----------------------------------------------------------------------------
(* The game server.                                                         *)

Printed(lines) == stdout' = stdout \o lines

Room == Len(stdout) < MaxLines

Join(s, a) ==
  /\ Room
  /\ occupant[s] = NoAddr
  /\ occupant' = [occupant EXCEPT ![s] = a]
  /\ Printed(<<Line("connect", s, a)>>)
  /\ UNCHANGED <<trackerVars, stdin, checkVars>>

Leave(s) ==
  /\ Room
  /\ occupant[s] # NoAddr
  /\ occupant' = [occupant EXCEPT ![s] = NoAddr]
  /\ Printed(<<Line("disconnect", s, NoAddr)>>)
  /\ UNCHANGED <<trackerVars, stdin, checkVars>>

\* A player changes something, or somebody guesses at the RCON password.
Chatter(k, s) ==
  /\ Room
  /\ k \in {"userinfo", "badrcon"}
  /\ occupant[s] # NoAddr
  /\ Printed(<<Line(k, IF k = "badrcon" THEN NoAddr ELSE s, occupant[s])>>)
  /\ UNCHANGED <<trackerVars, occupant, stdin, checkVars>>

\* The VM is initialised anew and announces everyone again.
MapRestart ==
  LET playing == SetToSeq({s \in Slots : occupant[s] # NoAddr}) IN
  /\ stdout = <<>>
  /\ Printed(<<Line("init", NoAddr, NoAddr)>>
             \o [i \in DOMAIN playing |-> Line("connect", playing[i], occupant[playing[i]])])
  /\ UNCHANGED <<trackerVars, occupant, stdin, checkVars>>

\* clientkick on an empty slot does nothing.
ExecuteKick ==
  /\ stdin # <<>>
  /\ LET s == Head(stdin) IN
     IF occupant[s] = NoAddr THEN UNCHANGED <<occupant, stdout>>
     ELSE /\ occupant' = [occupant EXCEPT ![s] = NoAddr]
          /\ Printed(<<Line("disconnect", s, NoAddr)>>)
  /\ stdin' = Tail(stdin)
  /\ UNCHANGED <<trackerVars, checkVars>>

-----------------------------------------------------------------------------
(* The scanner: handleLogLine for the next line.                            *)

\* The goroutine of processConnectionEvent, if one was started.
StartCheck(c) ==
  IF check' = NoCheck THEN UNCHANGED checkVars
  ELSE /\ checker[c] = "free"
       /\ checker' = [checker EXCEPT ![c] = "queued"]
       /\ task' = [task EXCEPT ![c] = check']

WriteKick(s) == Len(stdin) < MaxCommands /\ stdin' = Append(stdin, s)

\* lookupSlotByIP: the slot sighted last among those with this address.
SlotsOf(a) == SelectSeq(recency, LAMBDA s : tracked[s] = a)

HandleBadRcon(a) ==
  /\ \/ SlotsOf(a) = <<>> /\ UNCHANGED stdin
     \/ SlotsOf(a) # <<>> /\ WriteKick(SlotsOf(a)[Len(SlotsOf(a))])
  /\ check' = NoCheck
  /\ UNCHANGED <<now, trackerState, checkedAt, since>>

HandleLine(c) ==
  /\ stdout # <<>>
  /\ stdout' = Tail(stdout)
  /\ LET l == Head(stdout) IN
     \/ l.kind = "connect"    /\ ClientConnect(l.slot, l.addr)         /\ UNCHANGED stdin
     \/ l.kind = "userinfo"   /\ ClientUserinfoChanged(l.slot, l.addr) /\ UNCHANGED stdin
     \/ l.kind = "disconnect" /\ ClientDisconnect(l.slot)              /\ UNCHANGED stdin
     \/ l.kind = "init"       /\ InitGame                              /\ UNCHANGED stdin
     \/ l.kind = "badrcon"    /\ HandleBadRcon(l.addr)
  /\ StartCheck(c)
  /\ UNCHANGED occupant

-----------------------------------------------------------------------------
(* A check.                                                                 *)

Running == {c \in Checkers : checker[c] \in {"running", "decided"}}

AcquireSlot(c) ==
  /\ checker[c] = "queued"
  /\ Cardinality(Running) < MaxConcurrent
  /\ checker' = [checker EXCEPT ![c] = "running"]
  /\ UNCHANGED <<trackerVars, gameVars, task>>

\* CheckIP returns; only a blocked address leads to enforcement.
Decided(c) ==
  /\ checker[c] = "running"
  /\ IF task[c].addr \in Blocked
     THEN checker' = [checker EXCEPT ![c] = "decided"] /\ UNCHANGED task
     ELSE /\ checker' = [checker EXCEPT ![c] = "free"]
          /\ task' = [task EXCEPT ![c] = NoCheck]
  /\ UNCHANGED <<trackerVars, gameVars>>

\* enforceDecision, for the slot of the line that started the check.
EnforceDecision(c) ==
  /\ checker[c] = "decided"
  /\ WriteKick(task[c].slot)
  /\ checker' = [checker EXCEPT ![c] = "free"]
  /\ task' = [task EXCEPT ![c] = NoCheck]
  /\ UNCHANGED <<trackerVars, occupant, stdout>>

CheckerStep(c) == AcquireSlot(c) \/ Decided(c) \/ EnforceDecision(c)

Clock == Tick /\ UNCHANGED <<gameVars, checkVars>>

Next ==
  \/ \E s \in Slots :
       \/ Leave(s)
       \/ \E a \in Addrs : Join(s, a)
       \/ \E k \in {"userinfo", "badrcon"} : Chatter(k, s)
  \/ MapRestart \/ ExecuteKick \/ Clock
  \/ \E c \in Checkers : HandleLine(c) \/ CheckerStep(c)

Spec == Init /\ [][Next]_vars

\* The scanner and the checks keep running, the server executes what it
\* reads.  Waiting for a check slot is a wait on a channel, which is served
\* in order.
Fairness ==
  /\ WF_vars(\E c \in Checkers : HandleLine(c))
  /\ WF_vars(ExecuteKick)
  /\ \A c \in Checkers : SF_vars(AcquireSlot(c)) /\ WF_vars(Decided(c) \/ EnforceDecision(c))

LiveSpec == Spec /\ Fairness

-----------------------------------------------------------------------------
(* Properties.                                                              *)

\* When every line has been read the tracker knows exactly who plays where.
TrackerMirrorsGame == stdout = <<>> => tracked = occupant

\* A line about the player of slot s.
About(s, l) == l.slot = s /\ l.kind \in {"connect", "userinfo", "disconnect"}

\* No blocked player is forgotten: while one plays, a line that announces them
\* is unread, or they are being checked, or a kick for their slot is on its
\* way.  Neither a duplicate that starts no check, nor a check that was meant
\* for somebody before, nor a kick that came too late leaves them alone.
BlockedIsPursued ==
  \A s \in Slots : occupant[s] \in Blocked =>
    \/ \E i \in 1 .. Len(stdout) : About(s, stdout[i]) /\ stdout[i].addr = occupant[s]
    \/ \E c \in Checkers : task[c].slot = s /\ task[c].addr = occupant[s]
    \/ \E i \in 1 .. Len(stdin) : stdin[i] = s

\* Nobody plays on with a blocked address: they leave or are kicked, however
\* often they rejoin, the map restarts or the slot changes hands.
BlockedPlayerRemoved ==
  \A s \in Slots : occupant[s] \in Blocked ~> occupant[s] \notin Blocked

=============================================================================
