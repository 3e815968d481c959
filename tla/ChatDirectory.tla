---------------------------- MODULE ChatDirectory ----------------------------
(***************************************************************************)
(* /home/container/chatlogs, which chatlogger.py shares with 40-chatlogger.py, *)
(* the daemon it replaces: a plain log chat-<day>.log for each day, the       *)
(* archives chat-<day>.log.gz.  The link latest.log is left out.              *)
(*                                                                         *)
(* A file is the set of the entries in it.  An entry is a line of the game,   *)
(* how it was seen and the day it was filed under.                            *)
(***************************************************************************)
EXTENDS Integers, FiniteSets, Functions

CONSTANTS
  KeepPlain,  \* KEEP_PLAIN_DAYS
  KeepTotal,  \* KEEP_TOTAL_DAYS, of the daemon
  Verbs,      \* the shapes of line the game prints
  MaxDay,     \* bound on the day
  MaxLines    \* bound: lines of the game

ASSUME ChatAssumption ==
  /\ KeepPlain \in Nat \ {0} /\ KeepTotal \in Nat \ {0}
  /\ MaxDay \in Nat /\ MaxLines \in Nat
  /\ Verbs \subseteq {"say", "team", "tell", "admin", "server", "noise"}

VARIABLES
  day,      \* today
  lines,    \* lines printed so far
  plain,    \* the plain logs
  archive,  \* the archives, as far as they can be read
  logged    \* history: the entries that were written

directory == <<plain, archive, logged>>

None == -1
NoFiles == [d \in {} |-> {}]

DirectoryInit ==
  /\ day = 0 /\ lines = 0
  /\ plain = NoFiles /\ archive = NoFiles
  /\ logged = {}

With(files, d, entries) ==
  [x \in DOMAIN files \union {d} |-> IF x = d THEN entries ELSE files[x]]

Without(files, days) == Restrict(files, DOMAIN files \ days)

\* open("a") creates the file.
Opened(files, d) == IF d \in DOMAIN files THEN files ELSE With(files, d, {})

\* An entry is appended to the log of day d and flushed.
Log(d, entry) ==
  /\ plain' = With(plain, d, Opened(plain, d)[d] \union {entry})
  /\ logged' = logged \union {entry}

=============================================================================
