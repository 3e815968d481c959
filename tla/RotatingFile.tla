---------------------------- MODULE RotatingFile ----------------------------
(***************************************************************************)
(* The writer of the audit log and of the live mirror (rotatingfile.go):   *)
(* append, rotate by size, archive, compress, prune, reopen, and what the  *)
(* next start finds on disk after a crash or a failure in between.         *)
(*                                                                         *)
(* Write holds rf.mu throughout, so the scanners that call it take turns;  *)
(* its steps are separate because each of them may fail and the process    *)
(* may die after any.  A line is its number, and Bytes gives its length.   *)
(* All archives are made within one second, the case in which their names  *)
(* collide.  The ".tmp" of an unfinished compression is not kept: it is    *)
(* there only beside the uncompressed archive, which is.                   *)
(***************************************************************************)
EXTENDS Integers, Sequences, FiniteSets, Functions

CONSTANTS
  MaxBytes,      \* the threshold of a rotation, 0 for none
  KeepCount,     \* how many compressed archives are kept
  RotateOnOpen,  \* the values the setting takes from start to start
  Bytes,         \* length of each line that will be logged
  MaxFaults,     \* bound on failures and crashes
  NoFile         \* the file at path does not exist

Lines == DOMAIN Bytes

ASSUME RotatingFileAssumption ==
  /\ MaxBytes \in Nat /\ KeepCount \in Nat /\ MaxFaults \in Nat
  /\ RotateOnOpen \subseteq BOOLEAN
  /\ Bytes \in Seq(Nat \ {0})
  /\ NoFile \notin [lines : SUBSET Lines, bytes : Nat]

VARIABLES
  at,        \* where Write or newRotatingFile stands, "down" for no process
  starting,  \* the rotation is newRotatingFile's
  open,      \* rf.file # nil
  size,      \* rf.size
  disabled,  \* rf.disabled
  path,      \* the file at path
  plain,     \* the archives not compressed: name -> their lines
  gz,        \* the compressed ones: name -> their lines and modification time
  mtime,     \* the modification time of the last one
  archive,   \* the name archiveCurrent chose, 0 for none
  line,      \* the line written last, 0 before the first
  logged,    \* history: the lines Write accepted
  faults     \* history: failures and crashes so far

disk == <<path, plain, gz, mtime>>
writer == <<open, size, disabled>>
vars == <<at, starting, writer, disk, archive, line, logged, faults>>

Empty == [lines |-> {}, bytes |-> 0]

TypeOK ==
  /\ at \in {"down", "idle", "archive", "gzip", "unlink", "prune", "open", "append"}
  /\ starting \in BOOLEAN /\ open \in BOOLEAN /\ disabled \in BOOLEAN
  /\ path \in [lines : SUBSET Lines, bytes : Nat] \union {NoFile}
  /\ size \in Nat
  /\ open => path # NoFile /\ size <= path.bytes
  /\ DOMAIN plain \subseteq Nat \ {0} /\ Range(plain) \subseteq SUBSET Lines
  /\ DOMAIN gz \subseteq Nat \ {0} /\ Range(gz) \subseteq [lines : SUBSET Lines, time : 1 .. mtime]
  /\ mtime \in Nat
  /\ archive \in Nat
  /\ line \in 0 .. Len(Bytes)
  /\ logged \subseteq 1 .. line
  /\ faults \in 0 .. MaxFaults

Init ==
  /\ at = "down" /\ starting = FALSE
  /\ open = FALSE /\ size = 0 /\ disabled = FALSE
  /\ path = NoFile /\ plain = << >> /\ gz = << >> /\ mtime = 0
  /\ archive = 0 /\ line = 0 /\ logged = {} /\ faults = 0

Fails(n) == faults + n <= MaxFaults /\ faults' = faults + n

-----------------------------------------------------------------------------
(* The files.                                                               *)

\* Faulty: the compressed archives are not looked at.
UniqueNameAmongPlain ==
  CHOOSE n \in 1 .. Cardinality(DOMAIN plain) + 1 :
    n \notin DOMAIN plain /\ \A m \in 1 .. n - 1 : m \in DOMAIN plain

\* uniqueArchivePath: the first suffix neither kind of archive has.
UniqueArchivePath ==
  LET used == DOMAIN plain \union DOMAIN gz
  IN  CHOOSE n \in 1 .. Cardinality(used) + 1 :
        n \notin used /\ \A m \in 1 .. n - 1 : m \in used

Without(files, names) == [n \in DOMAIN files \ names |-> files[n]]

\* A rename replaces what had the name.
Compressed(n) ==
  [m \in DOMAIN gz \union {n} |->
     IF m = n THEN [lines |-> plain[n], time |-> mtime + 1] ELSE gz[m]]

Newer(n) == {m \in DOMAIN gz : gz[m].time > gz[n].time}

\* Faulty: one archive too many is kept.
ExcessButOne == {n \in DOMAIN gz : Cardinality(Newer(n)) > KeepCount}

\* What is sorted before the last KeepCount.
Excess == {n \in DOMAIN gz : Cardinality(Newer(n)) >= KeepCount}

-----------------------------------------------------------------------------
(* newRotatingFile and Close.                                               *)

Start ==
  /\ at = "down"
  /\ starting' = TRUE
  /\ open' = FALSE /\ size' = 0 /\ disabled' = FALSE
  /\ \E rotate \in RotateOnOpen :
       at' = IF rotate /\ path # NoFile /\ path.bytes > 0 THEN "archive" ELSE "open"
  /\ UNCHANGED <<disk, archive, line, logged, faults>>

Close ==
  /\ at = "idle"
  /\ at' = "down"
  /\ open' = FALSE
  /\ UNCHANGED <<starting, size, disabled, disk, archive, line, logged, faults>>

-----------------------------------------------------------------------------
(* Write.                                                                   *)

MustRotate(l) == MaxBytes > 0 /\ size + Bytes[l] > MaxBytes /\ size > 0

\* A disabled writer refuses the line, which changes nothing but the input.
Write ==
  /\ at = "idle" /\ line < Len(Bytes)
  /\ line' = line + 1
  /\ \/ /\ disabled \/ ~open
        /\ UNCHANGED <<at, open>>
     \/ /\ ~disabled /\ open /\ MustRotate(line')
        /\ at' = "archive"
        /\ open' = FALSE
     \/ /\ ~disabled /\ open /\ ~MustRotate(line')
        /\ at' = "append"
        /\ UNCHANGED open
  /\ starting' = FALSE
  /\ UNCHANGED <<size, disabled, disk, archive, logged, faults>>

AppendLine ==
  /\ at = "append"
  /\ at' = "idle"
  /\ path' = [lines |-> path.lines \union {line}, bytes |-> path.bytes + Bytes[line]]
  /\ size' = size + Bytes[line]
  /\ logged' = logged \union {line}
  /\ UNCHANGED <<starting, open, disabled, plain, gz, mtime, archive, line, faults>>

\* Part of the line may be in the file when the write fails.
AppendFails ==
  /\ at = "append"
  /\ Fails(1)
  /\ at' = "idle"
  /\ \E n \in 0 .. Bytes[line] - 1 :
       /\ path' = [path EXCEPT !.bytes = @ + n]
       /\ size' = size + n
  /\ disabled' = TRUE
  /\ UNCHANGED <<starting, open, plain, gz, mtime, archive, line, logged>>

-----------------------------------------------------------------------------
(* archiveCurrent.  The file exists whenever it is called: the process just *)
(* closed it, or has seen that it is not empty.                             *)

ArchiveCurrent ==
  /\ at = "archive"
  /\ at' = "gzip"
  /\ archive' = UniqueArchivePath
  /\ plain' = [n \in DOMAIN plain \union {archive'} |->
                 IF n = archive' THEN path.lines ELSE plain[n]]
  /\ path' = NoFile
  /\ UNCHANGED <<starting, writer, gz, mtime, line, logged, faults>>

\* The rename fails, and the file stays where it is.
ArchiveFails ==
  /\ at = "archive"
  /\ Fails(1)
  /\ at' = "open"
  /\ UNCHANGED <<starting, writer, disk, archive, line, logged>>

\* gzipFileAtomic up to the rename of the ".tmp".
Gzip ==
  /\ at = "gzip"
  /\ at' = "unlink"
  /\ gz' = Compressed(archive)
  /\ mtime' = mtime + 1
  /\ UNCHANGED <<starting, writer, path, plain, archive, line, logged, faults>>

\* Anything before the rename, or the rename itself, fails.
GzipFails ==
  /\ at = "gzip"
  /\ Fails(1)
  /\ at' = "prune"
  /\ UNCHANGED <<starting, writer, disk, archive, line, logged>>

Unlink ==
  /\ at = "unlink"
  /\ at' = "prune"
  /\ plain' = Without(plain, {archive})
  /\ UNCHANGED <<starting, writer, path, gz, mtime, archive, line, logged, faults>>

UnlinkFails ==
  /\ at = "unlink"
  /\ Fails(1)
  /\ at' = "prune"
  /\ UNCHANGED <<starting, writer, disk, archive, line, logged>>

\* pruneOldArchives: each removal may fail, and the rest is attempted still.
PruneOldArchives ==
  /\ at = "prune"
  /\ at' = "open"
  /\ archive' = 0
  /\ \E removed \in SUBSET Excess :
       /\ Fails(Cardinality(Excess \ removed))
       /\ gz' = Without(gz, removed)
  /\ UNCHANGED <<starting, writer, path, plain, mtime, line, logged>>

\* The directory cannot be listed.
PruneFails ==
  /\ at = "prune"
  /\ Fails(1)
  /\ at' = "open"
  /\ archive' = 0
  /\ UNCHANGED <<starting, writer, disk, line, logged>>

-----------------------------------------------------------------------------
(* The file is opened, at the start and after a rotation.                   *)

Opened == IF path = NoFile THEN Empty ELSE path

OpenFirst ==
  /\ at = "open" /\ starting
  /\ at' = "idle"
  /\ open' = TRUE
  /\ path' = Opened
  /\ size' = path'.bytes
  /\ UNCHANGED <<starting, disabled, plain, gz, mtime, archive, line, logged, faults>>

\* newRotatingFile returns an error: the supervisor runs without the file.
OpenFirstFails ==
  /\ at = "open" /\ starting
  /\ Fails(1)
  /\ at' = "down"
  /\ UNCHANGED <<starting, writer, disk, archive, line, logged>>

\* The size starts at 0, be the file a new one or the one not archived.
Reopen ==
  /\ at = "open" /\ ~starting
  /\ at' = "append"
  /\ open' = TRUE
  /\ path' = Opened
  /\ size' = 0
  /\ UNCHANGED <<starting, disabled, plain, gz, mtime, archive, line, logged, faults>>

ReopenFails ==
  /\ at = "open" /\ ~starting
  /\ Fails(1)
  /\ at' = "idle"
  /\ disabled' = TRUE
  /\ UNCHANGED <<starting, open, size, disk, archive, line, logged>>

-----------------------------------------------------------------------------

\* The process is killed: the files stay as they are.
Crash ==
  /\ at # "down"
  /\ Fails(1)
  /\ at' = "down"
  /\ open' = FALSE
  /\ archive' = 0
  /\ UNCHANGED <<starting, size, disabled, disk, line, logged>>

Next ==
  \/ Start \/ Close \/ Crash
  \/ Write \/ AppendLine \/ AppendFails
  \/ ArchiveCurrent \/ ArchiveFails
  \/ Gzip \/ GzipFails \/ Unlink \/ UnlinkFails
  \/ PruneOldArchives \/ PruneFails
  \/ OpenFirst \/ OpenFirstFails \/ Reopen \/ ReopenFails

Spec == Init /\ [][Next]_vars

-----------------------------------------------------------------------------
(* Properties.                                                              *)

\* The lines some file holds.
Stored ==
  (IF path = NoFile THEN {} ELSE path.lines)
    \union (UNION Range(plain)) \union (UNION {gz[n].lines : n \in DOMAIN gz})

\* The archives made of lines that are all younger than l.
YoungerThan(l) == {n \in DOMAIN gz : \A m \in gz[n].lines : m > l}

\* A line Write accepted is on disk until KeepCount younger archives are:
\* no failed or interrupted rotation loses it, neither the rename, the
\* compression nor the start after a crash (archiveCurrent, gzipFileAtomic).
KeptUntilPruned ==
  \A l \in logged \ Stored : Cardinality(YoungerThan(l)) >= KeepCount

\* Between writes at most one archive for each failure or crash is left
\* uncompressed, and at most one for each is compressed beyond KeepCount.  A
\* crash before the prune leaves one of both; the failures do not add up to
\* more, over any number of rotations and restarts (pruneOldArchives).
HistoryBounded ==
  at \in {"idle", "down"} =>
    /\ Cardinality(DOMAIN plain) <= faults
    /\ Cardinality(DOMAIN gz) <= KeepCount + faults

=============================================================================
