---------------------------- MODULE RotatingProofs ----------------------------
(***************************************************************************)
(* KeptUntilPruned and HistoryBounded proved of RotatingFile, for any       *)
(* lines, any threshold, any number of archives kept and any number of      *)
(* failures and crashes.                                                    *)
(*                                                                          *)
(* Counts follows what a failure leaves behind.  History says that archives *)
(* are in the order of their lines (InOrder), and that a line which is gone *)
(* was in an archive older than KeepCount of those that are there: at some  *)
(* time, that is, since which KeepCount archives were made of later lines   *)
(* (GoneForAReason).  A prune leaves as many of those, since what it takes  *)
(* has KeepCount newer ones itself.                                         *)
(***************************************************************************)
EXTENDS RotatingFile, FiniteSetTheorems, NaturalsInduction, WellFoundedInduction, TLAPS

Rotating == {"archive", "gzip", "unlink", "prune", "open"}

\* The names and times of the archives.
Files ==
  /\ DOMAIN plain \subseteq Nat \ {0} /\ IsFiniteSet(DOMAIN plain)
  /\ DOMAIN gz \subseteq Nat \ {0} /\ IsFiniteSet(DOMAIN gz)
  /\ mtime \in Nat /\ faults \in Nat
  /\ \A n \in DOMAIN gz : gz[n].time \in Nat /\ gz[n].time <= mtime
  /\ \A n, m \in DOMAIN gz : gz[n].time = gz[m].time => n = m

\* Where the writer stands, and which files there are then.
Place ==
  /\ at \in {"down", "idle", "append"} \union Rotating
  /\ line \in 0 .. Len(Bytes)
  /\ at = "append" \/ (at \in Rotating /\ ~starting) => line \in Lines
  /\ path \in [lines : SUBSET Lines, bytes : Nat] \union {NoFile}
  /\ open => at \in {"idle", "append"} /\ path # NoFile
  /\ at \in {"archive", "append"} => path # NoFile
  /\ at \in {"gzip", "unlink"} => path = NoFile /\ archive \in DOMAIN plain
  /\ at = "gzip" => archive \notin DOMAIN gz
  /\ at = "unlink" => archive \in DOMAIN gz /\ gz[archive].lines = plain[archive]

\* A rotation has an archive too many of each kind on the way.
Counts ==
  /\ Cardinality(DOMAIN plain) <= faults + (IF at \in {"gzip", "unlink"} THEN 1 ELSE 0)
  /\ Cardinality(DOMAIN gz) <= KeepCount + faults + (IF at \in {"unlink", "prune"} THEN 1 ELSE 0)

\* The lines on their way into an archive.
Current ==
  IF at = "gzip" THEN plain[archive] ELSE IF path = NoFile THEN {} ELSE path.lines

\* The last line that was through.
Written == IF at = "append" \/ (at \in Rotating /\ ~starting) THEN line - 1 ELSE line

InOrder ==
  /\ logged \subseteq 1 .. Written /\ Current \subseteq 1 .. Written
  /\ \A n \in DOMAIN gz : gz[n].lines \subseteq 1 .. Written
  /\ \A n, m \in DOMAIN gz : gz[n].time < gz[m].time =>
       \A a \in gz[n].lines, b \in gz[m].lines : a < b
  /\ \A n \in DOMAIN gz : \A a \in gz[n].lines, b \in Current : a < b

After(t) == {n \in DOMAIN gz : gz[n].time > t}

GoneSince(l, t) ==
  /\ \A n \in After(t) : \A m \in gz[n].lines : m > l
  /\ Cardinality(After(t)) >= KeepCount
  /\ \A b \in Current : b > l

GoneForAReason == \A l \in logged \ Stored : \E t \in 0 .. mtime : GoneSince(l, t)

History == InOrder /\ GoneForAReason

RInv == Files /\ Place /\ Counts /\ History

-----------------------------------------------------------------------------
(* Sets of archives.                                                        *)

\* A set of numbers that is not empty has a least one.
LEMMA HasLeast ==
  ASSUME NEW S, S \subseteq Nat, S # {}
  PROVE  \E x \in S : \A y \in S : x <= y
<1> DEFINE R == OpToRel(<, Nat)
<1>1. PICK x \in S : \A y \in S : <<y, x>> \notin R
  <2>1. IsWellFoundedOn(R, Nat)
    BY NatLessThanWellFounded
  <2> HIDE DEF R
  <2> QED
    BY <2>1, WFMin
<1>2. ASSUME NEW y \in S PROVE x <= y
  <2>1. x \in Nat /\ y \in Nat
    BY <1>1
  <2>2. y < x => <<y, x>> \in R
    BY <2>1 DEF OpToRel
  <2> QED
    <3> HIDE DEF R
    <3> QED
      BY <1>1, <2>1, <2>2
<1> QED
  BY <1>2

\* The first name that neither kind has is there to be found.
LEMMA UniqueIsNew ==
  ASSUME Files
  PROVE  /\ UniqueArchivePath \in Nat \ {0}
         /\ UniqueArchivePath \notin DOMAIN plain /\ UniqueArchivePath \notin DOMAIN gz
<1> DEFINE used == DOMAIN plain \union DOMAIN gz
           names == 1 .. Cardinality(used) + 1
           free == names \ used
<1>1. IsFiniteSet(used) /\ used \subseteq Nat
  BY FS_Union DEF Files
<1>2. Cardinality(used) \in Nat
  BY <1>1, FS_CardinalityType
<1>3. Cardinality(names) = Cardinality(used) + 1
  BY <1>2, FS_Interval
<1>4. free # {}
  <2>1. names \subseteq used => Cardinality(names) <= Cardinality(used)
    BY <1>1, FS_Subset
  <2>2. ~(names \subseteq used)
    <3> HIDE DEF names, used
    <3> QED
      BY <1>2, <1>3, <2>1
  <2> QED
    BY <2>2
<1>5. free \subseteq Nat
  BY <1>2
<1>6. PICK n \in free : \A y \in free : n <= y
  BY <1>4, <1>5, HasLeast
<1>7. n \in names /\ n \notin used /\ \A m \in 1 .. n - 1 : m \in used
  <2>1. ASSUME NEW m \in 1 .. n - 1, m \notin used PROVE FALSE
    <3>1. n \in Nat /\ m \in names /\ m < n
      BY <1>2, <1>6
    <3>2. n <= m
      BY <1>6, <2>1, <3>1
    <3> QED
      BY <3>1, <3>2
  <2> QED
    BY <1>6, <2>1
<1>8. UniqueArchivePath \in names /\ UniqueArchivePath \notin used
  <2> DEFINE P(x) == x \notin used /\ \A m \in 1 .. x - 1 : m \in used
  <2>1. UniqueArchivePath = CHOOSE x \in names : P(x)
    BY DEF UniqueArchivePath
  <2>2. \E x \in names : P(x)
    BY <1>7
  <2> HIDE DEF names, used
  <2> QED
    BY <2>1, <2>2
<1> QED
  BY <1>2, <1>8

\* What an archive set has more of than another is at most what was added.
LEMMA OneMore ==
  ASSUME NEW S, NEW x, IsFiniteSet(S)
  PROVE  IsFiniteSet(S \union {x}) /\ Cardinality(S \union {x}) <= Cardinality(S) + 1
<1>1. Cardinality(S) \in Nat
  BY FS_CardinalityType
<1>2. CASE x \in S
  <2>1. S \union {x} = S
    BY <1>2
  <2>2. Cardinality(S) <= Cardinality(S) + 1
    BY <1>1
  <2> QED
    BY <2>1, <2>2, Zenon
<1>3. CASE x \notin S
  BY <1>1, <1>3, FS_AddElement
<1> QED
  BY <1>2, <1>3

\* All but KeepCount archives are in excess.
LEMMA FewAreKept ==
  ASSUME Files
  PROVE  Cardinality(DOMAIN gz \ Excess) <= KeepCount
<1> DEFINE kept == DOMAIN gz \ Excess
           times == {gz[n].time : n \in kept}
<1>1. IsFiniteSet(kept)
  BY FS_Subset DEF Files
<1>2. CASE kept = {}
  <2>1. Cardinality(kept) = 0
    BY <1>2, FS_EmptySet
  <2> QED
    BY <2>1, RotatingFileAssumption
<1>3. CASE kept # {}
  <2>1. times \subseteq Nat /\ times # {}
    BY <1>3 DEF Files
  <2>2. PICK t \in times : \A u \in times : t <= u
    BY <2>1, HasLeast
  <2>3. PICK n \in kept : gz[n].time = t
    BY <2>2
  <2>4. kept \ {n} \subseteq Newer(n)
    <3>1. ASSUME NEW m \in kept, m # n PROVE gz[m].time > gz[n].time
      <4>1. gz[m].time \in Nat /\ gz[n].time \in Nat /\ gz[m].time # gz[n].time
        BY <2>3, <3>1 DEF Files
      <4>2. gz[n].time <= gz[m].time
        BY <2>2, <2>3
      <4> QED
        BY <4>1, <4>2
    <3> QED
      BY <3>1 DEF Newer
  <2>5. IsFiniteSet(Newer(n)) /\ Cardinality(Newer(n)) < KeepCount
    <3>1. IsFiniteSet(Newer(n))
      BY FS_Subset DEF Files, Newer
    <3> QED
      BY <2>3, <3>1, FS_CardinalityType, RotatingFileAssumption DEF Excess
  <2>6. Cardinality(kept \ {n}) <= Cardinality(Newer(n))
    BY <2>4, <2>5, FS_Subset
  <2>7. Cardinality(kept \ {n}) = Cardinality(kept) - 1
    BY <1>1, <2>3, FS_RemoveElement
  <2> QED
    BY <1>1, <2>5, <2>6, <2>7, FS_CardinalityType, RotatingFileAssumption
<1> QED
  BY <1>2, <1>3

\* KeepCount archives newer than a time stay, if there are as many.
LEMMA EnoughStay ==
  ASSUME Files, NEW t \in Nat, Cardinality(After(t)) >= KeepCount
  PROVE  Cardinality(After(t) \ Excess) >= KeepCount
<1>1. IsFiniteSet(After(t)) /\ IsFiniteSet(After(t) \ Excess)
  BY FS_Subset DEF Files, After
<1>2. CASE After(t) \cap Excess = {}
  <2>1. After(t) \ Excess = After(t)
    BY <1>2
  <2> QED
    BY <2>1
<1>3. CASE After(t) \cap Excess # {}
  <2> DEFINE left == {mtime - gz[n].time : n \in After(t) \cap Excess}
  <2>1. left \subseteq Nat /\ left # {}
    BY <1>3 DEF Files, After
  <2>2. PICK x \in left : \A y \in left : x <= y
    BY <2>1, HasLeast
  <2>3. PICK r \in After(t) \cap Excess : x = mtime - gz[r].time
    BY <2>2
  <2>4. ASSUME NEW n \in Newer(r) PROVE n \in After(t) \ Excess
    <3>1. n \in DOMAIN gz /\ gz[n].time \in Nat /\ gz[r].time \in Nat /\ gz[n].time > gz[r].time
      BY <2>3, <2>4 DEF Newer, Files, After
    <3>2. n \in After(t)
      BY <2>3, <3>1 DEF After
    <3>3. n \notin Excess
      <4>1. n \in Excess => x <= mtime - gz[n].time
        BY <2>2, <3>2
      <4>2. mtime \in Nat
        BY DEF Files
      <4> QED
        BY <2>3, <3>1, <4>1, <4>2
    <3> QED
      BY <3>2, <3>3
  <2>5. Cardinality(Newer(r)) <= Cardinality(After(t) \ Excess)
    BY <1>1, <2>4, FS_Subset
  <2>6. Cardinality(Newer(r)) >= KeepCount
    BY <2>3 DEF Excess
  <2>7. IsFiniteSet(Newer(r))
    BY FS_Subset DEF Files, Newer
  <2> QED
    BY <1>1, <2>5, <2>6, <2>7, FS_CardinalityType, RotatingFileAssumption
<1> QED
  BY <1>2, <1>3

-----------------------------------------------------------------------------
(* The lines.                                                               *)

InPath == IF path = NoFile THEN {} ELSE path.lines
InPlain == UNION Range(plain)
InGz == UNION {gz[n].lines : n \in DOMAIN gz}

\* What is stored, and where.
LEMMA StoredIs ==
  /\ Stored = InPath \union InPlain \union InGz
  /\ Stored' = InPath' \union InPlain' \union InGz'
BY DEF Stored, InPath, InPlain, InGz

LEMMA NumbersOfLines ==
  ASSUME Place
  PROVE  line \in Nat /\ Written \in Int /\ Lines = 1 .. Len(Bytes) /\ Len(Bytes) \in Nat
<1>1. Len(Bytes) \in Nat /\ Lines = 1 .. Len(Bytes)
  BY RotatingFileAssumption DEF Lines
<1> QED
  BY <1>1 DEF Place, Written

LEMMA WrittenIsInt == Place => Written \in Int
BY NumbersOfLines

\* Most steps move no line out of sight, and no archive.
LEMMA HistoryKept ==
  ASSUME RInv, UNCHANGED <<gz, mtime, logged>>, Stored' = Stored, Current' \subseteq Current,
         Written' \in Int, Written <= Written'
  PROVE  History'
<1>1. Written \in Int /\ 1 .. Written \subseteq 1 .. Written'
  BY NumbersOfLines DEF RInv
<1>2. InOrder'
  BY <1>1 DEF RInv, History, InOrder
<1>3. \A t : After(t)' = After(t)
  BY DEF After
<1>4. GoneForAReason'
  <2>1. ASSUME NEW l \in logged' \ Stored' PROVE \E t \in 0 .. mtime' : GoneSince(l, t)'
    <3>1. PICK t \in 0 .. mtime : GoneSince(l, t)
      BY <2>1 DEF RInv, History, GoneForAReason
    <3>2. GoneSince(l, t)'
      BY <1>3, <3>1 DEF GoneSince
    <3> QED
      BY <3>1, <3>2
  <2> QED
    BY <2>1 DEF GoneForAReason
<1> QED
  BY <1>2, <1>4 DEF History

\* A step that leaves the files alone may go anywhere the files allow.
LEMMA FilesKept ==
  ASSUME RInv, UNCHANGED <<plain, gz, mtime>>, faults' \in Nat
  PROVE  Files'
BY DEF RInv, Files

\* The line is in the file, later than every other.
LEMMA AppendLineKeeps ==
  ASSUME RInv, AppendLine
  PROVE  RInv'
<1>1. /\ at = "append" /\ at' = "idle" /\ logged' = logged \union {line}
      /\ path' = [lines |-> path.lines \union {line}, bytes |-> path.bytes + Bytes[line]]
      /\ UNCHANGED <<starting, open, plain, gz, mtime, archive, line, faults>>
  BY DEF AppendLine
<1>2. /\ line \in Lines /\ line \in Nat \ {0} /\ path # NoFile
      /\ path.lines \subseteq Lines /\ path.bytes \in Nat /\ Bytes[line] \in Nat
  BY <1>1, NumbersOfLines, RotatingFileAssumption DEF RInv, Place, Lines
<1>3. path' \in [lines : SUBSET Lines, bytes : Nat] /\ path' # NoFile
  <2>1. path' \in [lines : SUBSET Lines, bytes : Nat]
    BY <1>1, <1>2
  <2> QED
    BY <2>1, RotatingFileAssumption
<1>4. Files'
  BY <1>1, FilesKept DEF RInv, Files
<1>5. Place'
  BY <1>1, <1>3 DEF RInv, Place, Rotating
<1>6. Counts'
  BY <1>1 DEF RInv, Counts
<1>7. Written = line - 1 /\ Written' = line
  BY <1>1 DEF Written, Rotating
<1>8. Current = path.lines /\ Current' = path.lines \union {line}
  BY <1>1, <1>2, <1>3 DEF Current
<1>9. /\ logged \subseteq 1 .. line - 1 /\ path.lines \subseteq 1 .. line - 1
      /\ \A n \in DOMAIN gz : gz[n].lines \subseteq 1 .. line - 1
  BY <1>7, <1>8 DEF RInv, History, InOrder
<1>10. InOrder'
  <2>1. /\ logged' \subseteq 1 .. line /\ Current' \subseteq 1 .. line
        /\ \A n \in DOMAIN gz : gz[n].lines \subseteq 1 .. line
    <3>1. \A S : S \subseteq 1 .. line - 1 => S \subseteq 1 .. line /\ S \union {line} \subseteq 1 .. line
      BY <1>2
    <3>2. logged' \subseteq 1 .. line /\ Current' \subseteq 1 .. line
      BY <1>1, <1>8, <1>9, <3>1
    <3>3. \A n \in DOMAIN gz : gz[n].lines \subseteq 1 .. line
      BY <1>9, <3>1
    <3> QED
      BY <3>2, <3>3
  <2>2. \A n \in DOMAIN gz : \A a \in gz[n].lines, b \in Current' : a < b
    BY <1>2, <1>8, <1>9 DEF RInv, History, InOrder
  <2> QED
    BY <1>1, <1>7, <2>1, <2>2 DEF RInv, History, InOrder
<1>11. GoneForAReason'
  <2>1. ASSUME NEW l \in logged' \ Stored' PROVE \E t \in 0 .. mtime' : GoneSince(l, t)'
    <3>1. Stored' = Stored \union {line}
      BY <1>1, <1>2, <1>3 DEF Stored
    <3>2. l \in logged \ Stored /\ l < line
      BY <1>1, <1>2, <1>9, <2>1, <3>1
    <3>3. PICK t \in 0 .. mtime : GoneSince(l, t)
      BY <3>2 DEF RInv, History, GoneForAReason
    <3>4. After(t)' = After(t)
      BY <1>1 DEF After
    <3>5. GoneSince(l, t)'
      BY <1>1, <1>8, <3>2, <3>3, <3>4 DEF GoneSince
    <3> QED
      BY <1>1, <3>3, <3>5
  <2> QED
    BY <2>1 DEF GoneForAReason
<1> QED
  BY <1>4, <1>5, <1>6, <1>10, <1>11 DEF RInv, History

\* The file gets a name no archive has.
LEMMA ArchiveKeeps ==
  ASSUME RInv, ArchiveCurrent
  PROVE  RInv'
<1>1. /\ at = "archive" /\ at' = "gzip" /\ archive' = UniqueArchivePath
      /\ plain' = [n \in DOMAIN plain \union {archive'} |->
                     IF n = archive' THEN path.lines ELSE plain[n]]
      /\ path' = NoFile
      /\ UNCHANGED <<starting, open, gz, mtime, line, logged, faults>>
  BY DEF ArchiveCurrent, writer
<1>2. archive' \in Nat \ {0} /\ archive' \notin DOMAIN plain /\ archive' \notin DOMAIN gz
  BY <1>1, UniqueIsNew DEF RInv
<1>3. DOMAIN plain' = DOMAIN plain \union {archive'} /\ plain'[archive'] = path.lines
  BY <1>1
<1>4. IsFiniteSet(DOMAIN plain') /\ Cardinality(DOMAIN plain') <= Cardinality(DOMAIN plain) + 1
  <2>1. IsFiniteSet(DOMAIN plain)
    BY DEF RInv, Files
  <2>2. /\ IsFiniteSet(DOMAIN plain \union {archive'})
        /\ Cardinality(DOMAIN plain \union {archive'}) <= Cardinality(DOMAIN plain) + 1
    BY <2>1, OneMore
  <2> QED
    BY <1>3, <2>2, Zenon
<1>5. Files'
  BY <1>1, <1>2, <1>3, <1>4 DEF RInv, Files
<1>6. Place'
  BY <1>1, <1>2, <1>3 DEF RInv, Place, Rotating
<1>7. Counts'
  <2>1. Cardinality(DOMAIN plain) \in Nat /\ Cardinality(DOMAIN plain') \in Nat /\ faults \in Nat
    BY <1>4, FS_CardinalityType DEF RInv, Files
  <2>2. Cardinality(DOMAIN plain) <= faults
    BY <1>1, <2>1 DEF RInv, Counts
  <2> QED
    BY <1>1, <1>4, <2>1, <2>2 DEF RInv, Counts
<1>8. path # NoFile
  BY <1>1 DEF RInv, Place
<1>9. Current' = Current
  BY <1>1, <1>3, <1>8 DEF Current
<1>10. Stored' = Stored
  <2>1. InPlain' = path.lines \union InPlain
    BY <1>1, <1>2, <1>3 DEF InPlain, Range
  <2>2. InPath = path.lines /\ InPath' = {}
    BY <1>1, <1>8 DEF InPath
  <2>3. InGz' = InGz
    BY <1>1 DEF InGz
  <2> QED
    BY <2>1, <2>2, <2>3, StoredIs
<1>11. Written' = Written
  BY <1>1 DEF Written, Rotating
<1>12. History'
  BY <1>1, <1>9, <1>10, <1>11, HistoryKept, NumbersOfLines DEF RInv
<1> QED
  BY <1>5, <1>6, <1>7, <1>12 DEF RInv

\* The new archive is the newest, and of later lines than any that is gone.
LEMMA GzipKeeps ==
  ASSUME RInv, Gzip
  PROVE  RInv'
<1> DEFINE new == [lines |-> plain[archive], time |-> mtime + 1]
<1>1. /\ at = "gzip" /\ at' = "unlink" /\ mtime' = mtime + 1
      /\ gz' = [m \in DOMAIN gz \union {archive} |-> IF m = archive THEN new ELSE gz[m]]
      /\ UNCHANGED <<starting, open, path, plain, archive, line, logged, faults>>
  BY DEF Gzip, Compressed, writer
<1>2. archive \in DOMAIN plain /\ archive \notin DOMAIN gz /\ path = NoFile
  BY <1>1 DEF RInv, Place
<1>3. /\ DOMAIN gz' = DOMAIN gz \union {archive} /\ gz'[archive] = new
      /\ \A n \in DOMAIN gz : gz'[n] = gz[n]
  BY <1>1, <1>2
<1>4. /\ mtime \in Nat /\ new.time = mtime + 1 /\ new.lines = plain[archive]
      /\ \A n \in DOMAIN gz : gz[n].time \in Nat /\ gz[n].time <= mtime
  BY DEF RInv, Files
<1> HIDE DEF new
<1>5. IsFiniteSet(DOMAIN gz') /\ Cardinality(DOMAIN gz') <= Cardinality(DOMAIN gz) + 1
  <2>1. IsFiniteSet(DOMAIN gz)
    BY DEF RInv, Files
  <2>2. /\ IsFiniteSet(DOMAIN gz \union {archive})
        /\ Cardinality(DOMAIN gz \union {archive}) <= Cardinality(DOMAIN gz) + 1
    BY <2>1, OneMore
  <2> QED
    BY <1>3, <2>2, Zenon
<1>6. Files'
  <2>1. \A n \in DOMAIN gz' : gz'[n].time \in Nat /\ gz'[n].time <= mtime'
    BY <1>1, <1>3, <1>4
  <2>2. ASSUME NEW n \in DOMAIN gz', NEW m \in DOMAIN gz', gz'[n].time = gz'[m].time PROVE n = m
    BY <1>3, <1>4, <2>2 DEF RInv, Files
  <2> QED
    BY <1>1, <1>2, <1>3, <1>4, <1>5, <2>1, <2>2 DEF RInv, Files
<1>7. Place'
  BY <1>1, <1>2, <1>3, <1>4 DEF RInv, Place, Rotating
<1>8. Counts'
  <2>1. Cardinality(DOMAIN gz) \in Nat /\ Cardinality(DOMAIN gz') \in Nat /\ faults \in Nat
    BY <1>5, FS_CardinalityType DEF RInv, Files
  <2>2. Cardinality(DOMAIN gz) <= KeepCount + faults
    BY <1>1, <2>1, RotatingFileAssumption DEF RInv, Counts
  <2>3. Cardinality(DOMAIN gz') <= KeepCount + faults + 1
    BY <1>5, <2>1, <2>2, RotatingFileAssumption
  <2> QED
    BY <1>1, <2>3 DEF RInv, Counts
<1>9. Current = plain[archive] /\ Current' = {}
  BY <1>1, <1>2 DEF Current
<1>10. Written' = Written
  BY <1>1 DEF Written, Rotating
<1>11. Stored' = Stored
  <2>1. InGz' = plain[archive] \union InGz
    BY <1>3, <1>4 DEF InGz
  <2>2. plain[archive] \subseteq InPlain
    BY <1>2 DEF InPlain, Range
  <2>3. InPath' = InPath /\ InPlain' = InPlain
    BY <1>1 DEF InPath, InPlain
  <2> QED
    BY <2>1, <2>2, <2>3, StoredIs
<1>12. InOrder'
  <2>1. \A n \in DOMAIN gz' : gz'[n].lines \subseteq 1 .. Written
    BY <1>3, <1>4, <1>9 DEF RInv, History, InOrder
  <2>2. ASSUME NEW n \in DOMAIN gz', NEW m \in DOMAIN gz', gz'[n].time < gz'[m].time,
               NEW a \in gz'[n].lines, NEW b \in gz'[m].lines
        PROVE  a < b
    <3>1. n # archive /\ gz'[n] = gz[n] /\ n \in DOMAIN gz
      BY <1>3, <1>4, <2>2
    <3>2. CASE m = archive
      BY <1>3, <1>4, <1>9, <2>2, <3>1, <3>2 DEF RInv, History, InOrder
    <3>3. CASE m # archive
      BY <1>3, <2>2, <3>1, <3>3 DEF RInv, History, InOrder
    <3> QED
      BY <3>2, <3>3
  <2> QED
    BY <1>1, <1>9, <1>10, <2>1, <2>2 DEF RInv, History, InOrder
<1>13. GoneForAReason'
  <2>1. ASSUME NEW l \in logged' \ Stored' PROVE \E t \in 0 .. mtime' : GoneSince(l, t)'
    <3>1. PICK t \in 0 .. mtime : GoneSince(l, t)
      BY <1>1, <1>11, <2>1 DEF RInv, History, GoneForAReason
    <3>2. After(t)' = After(t) \union {archive}
      BY <1>3, <1>4, <3>1 DEF After
    <3>3. IsFiniteSet(After(t)') /\ After(t) \subseteq After(t)'
      BY <1>5, <3>2, FS_Subset DEF After
    <3>4. Cardinality(After(t)') >= KeepCount
      <4>1. Cardinality(After(t)) <= Cardinality(After(t)') /\ IsFiniteSet(After(t))
        BY <3>3, FS_Subset
      <4> QED
        BY <3>1, <3>3, <4>1, FS_CardinalityType, RotatingFileAssumption DEF GoneSince
    <3>5. \A n \in After(t)' : \A m \in gz'[n].lines : m > l
      BY <1>3, <1>4, <1>9, <3>1, <3>2 DEF GoneSince, After
    <3>6. GoneSince(l, t)'
      BY <1>9, <3>4, <3>5 DEF GoneSince
    <3> QED
      BY <1>1, <1>4, <3>1, <3>6
  <2> QED
    BY <2>1 DEF GoneForAReason
<1> QED
  BY <1>6, <1>7, <1>8, <1>12, <1>13 DEF RInv, History

\* What is removed uncompressed is there compressed.
LEMMA UnlinkKeeps ==
  ASSUME RInv, Unlink
  PROVE  RInv'
<1>1. /\ at = "unlink" /\ at' = "prune"
      /\ plain' = [n \in DOMAIN plain \ {archive} |-> plain[n]]
      /\ UNCHANGED <<starting, open, path, gz, mtime, archive, line, logged, faults>>
  BY DEF Unlink, Without, writer
<1>2. archive \in DOMAIN plain /\ archive \in DOMAIN gz /\ gz[archive].lines = plain[archive]
  BY <1>1 DEF RInv, Place
<1>3. DOMAIN plain' = DOMAIN plain \ {archive} /\ IsFiniteSet(DOMAIN plain)
  BY <1>1 DEF RInv, Files
<1>4. /\ IsFiniteSet(DOMAIN plain \ {archive})
      /\ Cardinality(DOMAIN plain \ {archive}) = Cardinality(DOMAIN plain) - 1
  BY <1>2, <1>3, FS_RemoveElement
<1>5. Files'
  BY <1>1, <1>3, <1>4 DEF RInv, Files
<1>6. Place'
  BY <1>1 DEF RInv, Place, Rotating
<1>7. Counts'
  <2>1. Cardinality(DOMAIN plain) \in Nat /\ faults \in Nat
    BY <1>3, FS_CardinalityType DEF RInv, Files
  <2>2. Cardinality(DOMAIN plain) <= faults + 1
    BY <1>1 DEF RInv, Counts
  <2>3. Cardinality(DOMAIN plain') <= faults
    BY <1>3, <1>4, <2>1, <2>2
  <2>4. Cardinality(DOMAIN gz) <= KeepCount + faults + 1
    BY <1>1 DEF RInv, Counts
  <2>5. Cardinality(DOMAIN plain') <= faults + 0
    BY <2>1, <2>3
  <2> QED
    BY <1>1, <2>4, <2>5 DEF Counts
<1>8. Stored' = Stored
  <2>1. InPlain = plain[archive] \union InPlain'
    BY <1>1, <1>2 DEF InPlain, Range
  <2>2. plain[archive] \subseteq InGz
    BY <1>2 DEF InGz
  <2>3. InPath' = InPath /\ InGz' = InGz
    BY <1>1 DEF InPath, InGz
  <2> QED
    BY <2>1, <2>2, <2>3, StoredIs
<1>9. Current' = Current /\ Written' = Written
  BY <1>1 DEF Current, Written, Rotating
<1>10. History'
  BY <1>1, <1>8, <1>9, HistoryKept, NumbersOfLines DEF RInv
<1> QED
  BY <1>5, <1>6, <1>7, <1>10 DEF RInv

\* What is pruned has KeepCount newer archives that stay.
LEMMA PruneKeeps ==
  ASSUME RInv, PruneOldArchives
  PROVE  RInv'
<1>1. PICK removed \in SUBSET Excess :
        /\ faults' = faults + Cardinality(Excess \ removed)
        /\ gz' = [n \in DOMAIN gz \ removed |-> gz[n]]
  BY DEF PruneOldArchives, Fails, Without
<1>2. /\ at = "prune" /\ at' = "open"
      /\ UNCHANGED <<starting, open, path, plain, mtime, line, logged>>
  BY DEF PruneOldArchives, writer
<1>3. /\ DOMAIN gz' = DOMAIN gz \ removed /\ \A n \in DOMAIN gz' : gz'[n] = gz[n]
      /\ Excess \subseteq DOMAIN gz
  BY <1>1 DEF Excess
<1>4. /\ IsFiniteSet(DOMAIN gz) /\ IsFiniteSet(DOMAIN gz') /\ IsFiniteSet(Excess \ removed)
      /\ IsFiniteSet(DOMAIN gz \ Excess)
  BY <1>3, FS_Subset DEF RInv, Files
<1>5. Files'
  BY <1>1, <1>2, <1>3, <1>4, FS_CardinalityType DEF RInv, Files
<1>6. Place'
  BY <1>2 DEF RInv, Place, Rotating
<1>7. Counts'
  <2>1. Cardinality(DOMAIN gz') <= Cardinality(DOMAIN gz \ Excess) + Cardinality(Excess \ removed)
    <3>1. DOMAIN gz' = (DOMAIN gz \ Excess) \union (Excess \ removed)
      BY <1>3
    <3>2. (DOMAIN gz \ Excess) \cap (Excess \ removed) = {}
      OBVIOUS
    <3>3. Cardinality({}) = 0
      BY FS_EmptySet
    <3>4. Cardinality(DOMAIN gz')
            = Cardinality(DOMAIN gz \ Excess) + Cardinality(Excess \ removed) - Cardinality({})
      <4> DEFINE A == DOMAIN gz \ Excess
                 B == Excess \ removed
      <4>1. IsFiniteSet(A) /\ IsFiniteSet(B) /\ A \cap B = {} /\ DOMAIN gz' = A \union B
        BY <1>4, <3>1, <3>2
      <4> HIDE DEF A, B
      <4>2. Cardinality(A \union B) = Cardinality(A) + Cardinality(B) - Cardinality(A \cap B)
        BY <4>1, FS_Union
      <4>3. Cardinality(DOMAIN gz') = Cardinality(A) + Cardinality(B) - Cardinality({})
        BY <4>1, <4>2, Zenon
      <4> QED
        BY <4>3 DEF A, B
    <3>5. Cardinality(DOMAIN gz \ Excess) \in Nat /\ Cardinality(Excess \ removed) \in Nat
      BY <1>4, FS_CardinalityType, Zenon
    <3> QED
      BY <3>3, <3>4, <3>5
  <2>2. Cardinality(DOMAIN gz \ Excess) <= KeepCount
    BY FewAreKept DEF RInv
  <2>3. /\ Cardinality(DOMAIN gz') \in Nat /\ Cardinality(DOMAIN gz \ Excess) \in Nat
        /\ Cardinality(Excess \ removed) \in Nat /\ faults \in Nat /\ KeepCount \in Nat
    BY <1>4, FS_CardinalityType, RotatingFileAssumption DEF RInv, Files
  <2>4. Cardinality(DOMAIN gz') <= KeepCount + faults'
    BY <1>1, <2>1, <2>2, <2>3
  <2>5. Cardinality(DOMAIN plain) <= faults /\ Cardinality(DOMAIN plain) \in Nat
    BY <1>2, <2>3, FS_CardinalityType DEF RInv, Counts, Files
  <2>6. Cardinality(DOMAIN plain) <= faults'
    BY <1>1, <2>3, <2>5
  <2>7. Cardinality(DOMAIN plain') <= faults' + 0 /\ Cardinality(DOMAIN gz') <= KeepCount + faults' + 0
    BY <1>1, <1>2, <2>3, <2>4, <2>6
  <2> QED
    BY <1>2, <2>7 DEF Counts
<1>8. Current' = Current /\ Written' = Written
  BY <1>2 DEF Current, Written, Rotating
<1>9. InOrder'
  BY <1>2, <1>3, <1>8 DEF RInv, History, InOrder
<1>10. GoneForAReason'
  <2>1. ASSUME NEW l \in logged' \ Stored' PROVE \E t \in 0 .. mtime' : GoneSince(l, t)'
    <3>1. PICK t \in 0 .. mtime : GoneSince(l, t)
      <4>1. CASE l \notin Stored
        BY <1>2, <2>1, <4>1 DEF RInv, History, GoneForAReason
      <4>2. CASE l \in Stored
        <5>1. PICK r \in removed : r \in DOMAIN gz /\ l \in gz[r].lines
          <6>1. InPath' = InPath /\ InPlain' = InPlain
            BY <1>2 DEF InPath, InPlain
          <6>2. PICK r \in DOMAIN gz : l \in gz[r].lines
            BY <2>1, <4>2, <6>1, StoredIs DEF InGz
          <6>3. r \notin DOMAIN gz'
            BY <1>3, <2>1, <6>2, StoredIs DEF InGz
          <6> QED
            BY <1>3, <6>2, <6>3
        <5>2. gz[r].time \in Nat /\ gz[r].time <= mtime /\ mtime \in Nat
          BY <5>1 DEF RInv, Files
        <5>3. After(gz[r].time) = Newer(r)
          BY DEF After, Newer
        <5>4. Cardinality(Newer(r)) >= KeepCount
          BY <5>1 DEF Excess
        <5>5. l \in Nat
          BY <2>1, <1>2 DEF RInv, History, InOrder
        <5>6. ASSUME NEW n \in Newer(r), NEW m \in gz[n].lines PROVE m > l
          <6>1. n \in DOMAIN gz /\ gz[r].time < gz[n].time
            BY <5>2, <5>6 DEF Newer, RInv, Files
          <6>2. l < m
            BY <5>1, <5>6, <6>1 DEF RInv, History, InOrder
          <6>3. m \in Int
            BY <5>6, <6>1 DEF RInv, History, InOrder
          <6> QED
            BY <5>5, <6>2, <6>3
        <5>7. ASSUME NEW b \in Current PROVE b > l
          <6>1. b \in Int
            BY <5>7 DEF RInv, History, InOrder
          <6>2. l < b
            BY <5>1, <5>7 DEF RInv, History, InOrder
          <6> QED
            BY <5>5, <6>1, <6>2
        <5> QED
          BY <5>2, <5>3, <5>4, <5>6, <5>7 DEF GoneSince
      <4> QED
        BY <4>1, <4>2
    <3>2. After(t)' = After(t) \ removed
      BY <1>3 DEF After
    <3>3. Cardinality(After(t)') >= KeepCount
      <4>1. Cardinality(After(t) \ Excess) >= KeepCount
        BY <3>1, EnoughStay DEF RInv, GoneSince
      <4>2. After(t) \ Excess \subseteq After(t)' /\ IsFiniteSet(After(t)')
        BY <1>4, <3>2, FS_Subset DEF After
      <4>3. Cardinality(After(t) \ Excess) <= Cardinality(After(t)') /\ IsFiniteSet(After(t) \ Excess)
        BY <4>2, FS_Subset
      <4> QED
        BY <4>1, <4>2, <4>3, FS_CardinalityType, RotatingFileAssumption
    <3>4. GoneSince(l, t)'
      BY <1>3, <1>8, <3>1, <3>2, <3>3 DEF GoneSince, After
    <3> QED
      BY <1>2, <3>1, <3>4
  <2> QED
    BY <2>1 DEF GoneForAReason
<1> QED
  BY <1>5, <1>6, <1>7, <1>9, <1>10 DEF RInv, History

-----------------------------------------------------------------------------
(* The steps that move no line.                                             *)

LEMMA Calm ==
  ASSUME RInv, UNCHANGED <<plain, gz, mtime, logged>>, InPath' = InPath, at' # "gzip",
         faults' \in Nat, Written <= Written', Place', Counts'
  PROVE  RInv'
<1>1. Files'
  BY FilesKept DEF RInv
<1>2. Stored' = Stored
  <2>1. InPlain' = InPlain /\ InGz' = InGz
    BY DEF InPlain, InGz
  <2> QED
    BY <2>1, StoredIs
<1>3. Current' \subseteq Current
  <2>1. Current' = InPath
    BY DEF Current, InPath
  <2>2. at = "gzip" => InPath = {}
    BY DEF RInv, Place, InPath
  <2>3. at # "gzip" => Current = InPath
    BY DEF Current, InPath
  <2> QED
    BY <2>1, <2>2, <2>3
<1>4. Written' \in Int
  <2>1. Place' => (Written \in Int)'
    BY WrittenIsInt, PTL
  <2> QED
    BY <2>1
<1>5. History'
  BY <1>2, <1>3, <1>4, HistoryKept
<1> QED
  BY <1>1, <1>5 DEF RInv

\* A failure pays for what it leaves behind.
LEMMA CountsOfFailure ==
  ASSUME RInv, UNCHANGED <<plain, gz>>, faults' = faults + 1,
         at' \in {"down", "idle", "open", "prune"}
  PROVE  Counts'
<1>1. /\ Cardinality(DOMAIN plain) \in Nat /\ Cardinality(DOMAIN gz) \in Nat /\ faults \in Nat
      /\ KeepCount \in Nat
  BY FS_CardinalityType, RotatingFileAssumption DEF RInv, Files
<1>2. /\ Cardinality(DOMAIN plain) <= faults + 1
      /\ Cardinality(DOMAIN gz) <= KeepCount + faults + 1
  BY <1>1 DEF RInv, Counts
<1>3. /\ Cardinality(DOMAIN plain) <= faults' + 0
      /\ Cardinality(DOMAIN gz) <= KeepCount + faults' + 0
      /\ Cardinality(DOMAIN gz) <= KeepCount + faults' + 1
  BY <1>1, <1>2
<1> QED
  BY <1>3 DEF Counts

\* Nothing is on its way where no rotation has begun to archive.
LEMMA CountsOfCalm ==
  ASSUME RInv, UNCHANGED <<plain, gz, faults>>,
         at \in {"down", "idle", "append", "archive", "open"},
         at' \in {"down", "idle", "append", "archive", "open"}
  PROVE  Counts'
BY DEF RInv, Counts

LEMMA StartKeeps ==
  ASSUME RInv, Start
  PROVE  RInv'
<1>1. /\ at = "down" /\ starting' /\ ~open' /\ at' \in {"archive", "open"}
      /\ at' = "archive" => path # NoFile
      /\ UNCHANGED <<path, plain, gz, mtime, archive, line, logged, faults>>
  BY DEF Start, disk
<1>2. Place'
  BY <1>1 DEF RInv, Place, Rotating
<1>3. Counts'
  BY <1>1, CountsOfCalm
<1>4. Written' = Written
  BY <1>1 DEF Written, Rotating
<1> QED
  BY <1>1, <1>2, <1>3, <1>4, Calm, NumbersOfLines DEF RInv, Files, InPath

LEMMA CloseKeeps ==
  ASSUME RInv, Close
  PROVE  RInv'
<1>1. /\ at = "idle" /\ at' = "down" /\ ~open'
      /\ UNCHANGED <<starting, path, plain, gz, mtime, archive, line, logged, faults>>
  BY DEF Close, disk
<1>2. Place'
  BY <1>1 DEF RInv, Place, Rotating
<1>3. Counts'
  BY <1>1, CountsOfCalm
<1>4. Written' = Written
  BY <1>1 DEF Written, Rotating
<1> QED
  BY <1>1, <1>2, <1>3, <1>4, Calm, NumbersOfLines DEF RInv, Files, InPath

LEMMA WriteKeeps ==
  ASSUME RInv, Write
  PROVE  RInv'
<1>1. /\ at = "idle" /\ line < Len(Bytes) /\ line' = line + 1
      /\ at' \in {"idle", "archive", "append"} /\ ~starting'
      /\ open' => open /\ at' # "archive"
      /\ at' # "idle" => open
      /\ UNCHANGED <<path, plain, gz, mtime, archive, logged, faults>>
  BY DEF Write, disk
<1>2. line \in Nat /\ line' \in Lines /\ line' \in 0 .. Len(Bytes)
  BY <1>1, NumbersOfLines DEF RInv
<1>3. Place'
  BY <1>1, <1>2 DEF RInv, Place, Rotating
<1>4. Counts'
  BY <1>1, CountsOfCalm
<1>5. Written <= Written'
  <2>1. Written = line /\ Written' \in {line' - 1, line'}
    BY <1>1 DEF Written, Rotating
  <2> QED
    BY <1>1, <1>2, <2>1
<1> QED
  BY <1>1, <1>3, <1>4, <1>5, Calm DEF RInv, Files, InPath

\* A part of the line is no line.
LEMMA AppendFailsKeeps ==
  ASSUME RInv, AppendFails
  PROVE  RInv'
<1>1. /\ at = "append" /\ at' = "idle" /\ faults' = faults + 1
      /\ UNCHANGED <<starting, open, plain, gz, mtime, archive, line, logged>>
  BY DEF AppendFails, Fails
<1>2. PICK n \in 0 .. Bytes[line] - 1 : path' = [path EXCEPT !.bytes = @ + n]
  BY DEF AppendFails
<1>3. /\ path # NoFile /\ path \in [lines : SUBSET Lines, bytes : Nat]
      /\ line \in Lines /\ Bytes[line] \in Nat
  BY <1>1, RotatingFileAssumption DEF RInv, Place, Lines
<1>4. path' \in [lines : SUBSET Lines, bytes : Nat] /\ path'.lines = path.lines /\ path' # NoFile
  <2>1. n \in Nat
    BY <1>2, <1>3
  <2>2. path' \in [lines : SUBSET Lines, bytes : Nat] /\ path'.lines = path.lines
    BY <1>2, <1>3, <2>1
  <2> QED
    BY <2>2, RotatingFileAssumption
<1>5. Place'
  BY <1>1, <1>4 DEF RInv, Place, Rotating
<1>6. Counts'
  BY <1>1, CountsOfFailure
<1>7. Written <= Written'
  <2>1. Written = line - 1 /\ Written' = line
    BY <1>1 DEF Written, Rotating
  <2> QED
    BY <2>1, NumbersOfLines DEF RInv
<1>8. InPath' = InPath
  BY <1>3, <1>4 DEF InPath
<1> QED
  BY <1>1, <1>5, <1>6, <1>7, <1>8, Calm DEF RInv, Files

\* A failure that leaves the files alone.
LEMMA FailureKeeps ==
  ASSUME RInv, UNCHANGED <<line, disk, logged>>, faults' = faults + 1,
         at' \in {"down", "idle", "prune", "open"},
         open' => open /\ at' = "idle",
         at' \in {"prune", "open"} => (at \in Rotating /\ starting' = starting)
  PROVE  RInv'
<1>1. Place'
  BY DEF RInv, Place, Rotating, disk
<1>2. Counts'
  BY CountsOfFailure DEF disk
<1>3. Written <= Written'
  <2>1. line \in Nat /\ line - 1 <= line /\ line <= line /\ line - 1 <= line - 1
    BY NumbersOfLines DEF RInv
  <2>2. CASE at \in Rotating /\ at' \in Rotating /\ starting' = starting
    <3>1. Written' = Written
      BY <2>2 DEF Written, Rotating
    <3> QED
      BY <3>1, NumbersOfLines DEF RInv
  <2>3. CASE at' \in {"down", "idle"}
    <3>1. Written' = line /\ Written \in {line, line - 1}
      BY <2>3 DEF Written, Rotating
    <3> QED
      BY <2>1, <3>1
  <2> QED
    BY <2>2, <2>3 DEF Rotating
<1>4. InPath' = InPath
  BY DEF InPath, disk
<1> QED
  BY <1>1, <1>2, <1>3, <1>4, Calm DEF RInv, Files, disk

LEMMA FailuresKeep ==
  ASSUME RInv,
         \/ ArchiveFails \/ GzipFails \/ UnlinkFails \/ PruneFails
         \/ OpenFirstFails \/ ReopenFails \/ Crash
  PROVE  RInv'
<1>1. UNCHANGED <<line, disk, logged>> /\ faults' = faults + 1
  BY DEF ArchiveFails, GzipFails, UnlinkFails, PruneFails, OpenFirstFails, ReopenFails, Crash, Fails
<1>2. at' \in {"down", "idle", "prune", "open"}
  BY DEF ArchiveFails, GzipFails, UnlinkFails, PruneFails, OpenFirstFails, ReopenFails, Crash
<1>3. open' => open /\ at' = "idle"
  BY DEF ArchiveFails, GzipFails, UnlinkFails, PruneFails, OpenFirstFails, ReopenFails, Crash,
         writer, RInv, Place, Rotating
<1>4. at' \in {"prune", "open"} => (at \in Rotating /\ starting' = starting)
  BY DEF ArchiveFails, GzipFails, UnlinkFails, PruneFails, OpenFirstFails, ReopenFails, Crash,
         Rotating
<1> QED
  BY <1>1, <1>2, <1>3, <1>4, FailureKeeps

\* Opening makes at most an empty file.
LEMMA OpenKeeps ==
  ASSUME RInv, OpenFirst \/ Reopen
  PROVE  RInv'
<1>1. /\ at = "open" /\ at' \in {"idle", "append"} /\ path' = Opened
      /\ starting => at' = "idle"
      /\ ~starting => at' = "append"
      /\ UNCHANGED <<starting, plain, gz, mtime, archive, line, logged, faults>>
  BY DEF OpenFirst, Reopen
<1>2. Empty \in [lines : SUBSET Lines, bytes : Nat] /\ Empty.lines = {}
  BY DEF Empty
<1>3. /\ path' \in [lines : SUBSET Lines, bytes : Nat] /\ path' # NoFile
  <2>1. path' \in [lines : SUBSET Lines, bytes : Nat]
    BY <1>1, <1>2 DEF Opened, RInv, Place
  <2> QED
    BY <2>1, RotatingFileAssumption
<1>4. Place'
  BY <1>1, <1>3 DEF RInv, Place, Rotating
<1>5. Counts'
  BY <1>1, CountsOfCalm
<1>6. Written' = Written
  BY <1>1 DEF Written, Rotating
<1>7. InPath' = InPath
  BY <1>1, <1>2, <1>3 DEF InPath, Opened
<1> QED
  BY <1>1, <1>4, <1>5, <1>6, <1>7, Calm, NumbersOfLines DEF RInv, Files

-----------------------------------------------------------------------------
(* The theorems.                                                            *)

LEMMA Initially == Init => RInv
<1> SUFFICES ASSUME Init PROVE RInv
  OBVIOUS
<1>1. IsFiniteSet({}) /\ Cardinality({}) = 0
  BY FS_EmptySet
<1>2. DOMAIN plain = {} /\ DOMAIN gz = {}
  BY DEF Init
<1>3. Files
  BY <1>1, <1>2 DEF Init, Files
<1>4. Place
  BY RotatingFileAssumption DEF Init, Place, Rotating
<1>5. Counts
  BY <1>1, <1>2, RotatingFileAssumption DEF Init, Counts
<1>6. History
  <2>1. Current = {} /\ logged = {}
    BY DEF Init, Current
  <2>2. InOrder
    BY <1>2, <2>1 DEF InOrder
  <2>3. GoneForAReason
    BY <2>1 DEF GoneForAReason
  <2> QED
    BY <2>2, <2>3 DEF History
<1> QED
  BY <1>3, <1>4, <1>5, <1>6 DEF RInv

LEMMA StutterKeeps ==
  ASSUME RInv, UNCHANGED vars
  PROVE  RInv'
<1>1. /\ UNCHANGED <<at, starting, open, path, plain, gz, mtime, archive, line, logged, faults>>
  BY DEF vars, disk, writer
<1>2. Files' /\ Place' /\ Counts'
  BY <1>1 DEF RInv, Files, Place, Counts, Rotating
<1>3. Stored' = Stored /\ Current' = Current /\ Written' = Written
  BY <1>1 DEF Stored, Current, Written, Rotating
<1>4. History'
  BY <1>1, <1>3, HistoryKept, NumbersOfLines DEF RInv
<1> QED
  BY <1>2, <1>4 DEF RInv

LEMMA Inductive == RInv /\ [Next]_vars => RInv'
<1> SUFFICES ASSUME RInv, [Next]_vars PROVE RInv'
  OBVIOUS
<1>1. CASE Start
  BY <1>1, StartKeeps
<1>2. CASE Close
  BY <1>2, CloseKeeps
<1>3. CASE Write
  BY <1>3, WriteKeeps
<1>4. CASE AppendLine
  BY <1>4, AppendLineKeeps
<1>5. CASE AppendFails
  BY <1>5, AppendFailsKeeps
<1>6. CASE ArchiveCurrent
  BY <1>6, ArchiveKeeps
<1>7. CASE Gzip
  BY <1>7, GzipKeeps
<1>8. CASE Unlink
  BY <1>8, UnlinkKeeps
<1>9. CASE PruneOldArchives
  BY <1>9, PruneKeeps
<1>10. CASE OpenFirst \/ Reopen
  BY <1>10, OpenKeeps
<1>11. CASE \/ ArchiveFails \/ GzipFails \/ UnlinkFails \/ PruneFails
            \/ OpenFirstFails \/ ReopenFails \/ Crash
  BY <1>11, FailuresKeep
<1>12. CASE UNCHANGED vars
  BY <1>12, StutterKeeps
<1> QED
  BY <1>1, <1>2, <1>3, <1>4, <1>5, <1>6, <1>7, <1>8, <1>9, <1>10, <1>11, <1>12 DEF Next

-----------------------------------------------------------------------------
(* The types.                                                               *)

Contents == [lines : SUBSET Lines, bytes : Nat]

\* A line has a length.
LEMMA LengthOfLine == \A l \in Lines : l \in 1 .. Len(Bytes) /\ Bytes[l] \in Nat \ {0}
  BY RotatingFileAssumption DEF Lines

\* A file that is there, or that is opened, has contents.
LEMMA PathFacts ==
  /\ NoFile \notin Contents
  /\ path \in Contents \union {NoFile} => Opened \in Contents
<1>1. Empty \in Contents
  BY DEF Empty, Contents
<1> QED
  BY <1>1, RotatingFileAssumption DEF Contents, Opened

\* What fails is counted up to the bound.
LEMMA FailsType ==
  ASSUME faults \in 0 .. MaxFaults, NEW n \in Nat, Fails(n)
  PROVE  faults' \in 0 .. MaxFaults
  BY RotatingFileAssumption DEF Fails

FileTypes ==
  /\ DOMAIN plain \subseteq Nat \ {0} /\ Range(plain) \subseteq SUBSET Lines
  /\ DOMAIN gz \subseteq Nat \ {0} /\ Range(gz) \subseteq [lines : SUBSET Lines, time : 1 .. mtime]
  /\ mtime \in Nat

WriterTypes ==
  /\ starting \in BOOLEAN /\ open \in BOOLEAN /\ disabled \in BOOLEAN
  /\ path \in Contents \union {NoFile}
  /\ size \in Nat
  /\ open => path # NoFile /\ size <= path.bytes

LEMMA TypeParts ==
  TypeOK <=> /\ FileTypes /\ WriterTypes
             /\ at \in {"down", "idle", "archive", "gzip", "unlink", "prune", "open", "append"}
             /\ archive \in Nat /\ line \in 0 .. Len(Bytes) /\ logged \subseteq 1 .. line
             /\ faults \in 0 .. MaxFaults
  BY DEF TypeOK, FileTypes, WriterTypes, Contents

\* The archives.
LEMMA FileTypesStep ==
  ASSUME RInv, TypeOK, [Next]_vars
  PROVE  FileTypes'
<1>1. FileTypes /\ path \in Contents \union {NoFile}
  BY TypeParts DEF WriterTypes
<1>2. CASE UNCHANGED <<plain, gz, mtime>>
  BY <1>1, <1>2 DEF FileTypes
<1>3. CASE ArchiveCurrent
  <2>1. path \in Contents
    BY <1>1, <1>3 DEF RInv, Place, ArchiveCurrent
  <2>2. UniqueArchivePath \in Nat \ {0}
    BY UniqueIsNew DEF RInv
  <2>3. /\ DOMAIN plain' = DOMAIN plain \union {UniqueArchivePath}
        /\ \A n \in DOMAIN plain' : plain'[n] = path.lines \/ (n \in DOMAIN plain /\ plain'[n] = plain[n])
        /\ UNCHANGED <<gz, mtime>>
    BY <1>3 DEF ArchiveCurrent
  <2>4. \A n \in DOMAIN plain' : plain'[n] \in SUBSET Lines
    BY <1>1, <2>1, <2>3 DEF FileTypes, Contents, Range
  <2> QED
    BY <1>1, <2>2, <2>3, <2>4 DEF FileTypes, Range
<1>4. CASE Gzip
  <2>1. archive \in DOMAIN plain /\ plain[archive] \in SUBSET Lines
    BY <1>1, <1>4 DEF RInv, Place, Gzip, FileTypes, Range
  <2>2. /\ DOMAIN gz' = DOMAIN gz \union {archive} /\ mtime' = mtime + 1 /\ UNCHANGED plain
        /\ \A n \in DOMAIN gz' : \/ gz'[n] = [lines |-> plain[archive], time |-> mtime + 1]
                                 \/ n \in DOMAIN gz /\ gz'[n] = gz[n]
    BY <1>4 DEF Gzip, Compressed
  <2>3. 1 .. mtime \subseteq 1 .. mtime' /\ mtime + 1 \in 1 .. mtime' /\ mtime' \in Nat
    BY <1>1, <2>2 DEF FileTypes
  <2>4. [lines |-> plain[archive], time |-> mtime + 1] \in [lines : SUBSET Lines, time : 1 .. mtime']
    BY <2>1, <2>3
  <2>5. \A n \in DOMAIN gz : gz[n] \in [lines : SUBSET Lines, time : 1 .. mtime]
    BY <1>1 DEF FileTypes, Range
  <2>6. \A n \in DOMAIN gz : gz[n] \in [lines : SUBSET Lines, time : 1 .. mtime']
    BY <2>3, <2>5
  <2>7. \A n \in DOMAIN gz' : gz'[n] \in [lines : SUBSET Lines, time : 1 .. mtime']
    BY <2>2, <2>4, <2>6
  <2> QED
    BY <1>1, <2>1, <2>2, <2>3, <2>7 DEF FileTypes, Range
<1>5. CASE Unlink
  <2>1. /\ DOMAIN plain' \subseteq DOMAIN plain /\ UNCHANGED <<gz, mtime>>
        /\ \A n \in DOMAIN plain' : plain'[n] = plain[n]
    BY <1>5 DEF Unlink, Without
  <2> QED
    BY <1>1, <2>1 DEF FileTypes, Range
<1>6. CASE PruneOldArchives
  <2>1. /\ DOMAIN gz' \subseteq DOMAIN gz /\ UNCHANGED <<plain, mtime>>
        /\ \A n \in DOMAIN gz' : gz'[n] = gz[n]
    BY <1>6 DEF PruneOldArchives, Without
  <2> QED
    BY <1>1, <2>1 DEF FileTypes, Range
<1> QED
  BY <1>2, <1>3, <1>4, <1>5, <1>6
     DEF Next, vars, disk, Start, Close, Crash, Write, AppendLine, AppendFails, ArchiveFails,
         GzipFails, UnlinkFails, PruneFails, OpenFirst, OpenFirstFails, Reopen, ReopenFails

\* The writer: what it takes for the size of an open file is never too much.
LEMMA WriterTypesStep ==
  ASSUME RInv, TypeOK, [Next]_vars
  PROVE  WriterTypes'
<1>1. WriterTypes /\ line \in 0 .. Len(Bytes)
  BY TypeParts
<1>2. CASE UNCHANGED <<open, size, disabled, path, starting>>
  BY <1>1, <1>2 DEF WriterTypes
<1>3. CASE Start \/ Close \/ Crash \/ Write
  <2>1. /\ path' = path /\ starting' \in BOOLEAN /\ open' \in BOOLEAN /\ disabled' \in BOOLEAN
        /\ size' \in Nat /\ (open' => open /\ size' = size)
    <3>1. open \in BOOLEAN /\ disabled \in BOOLEAN /\ starting \in BOOLEAN /\ size \in Nat
      BY <1>1 DEF WriterTypes
    <3>2. CASE Start
      BY <3>1, <3>2 DEF Start, disk
    <3>3. CASE Close \/ Crash
      BY <3>1, <3>3 DEF Close, Crash, disk
    <3>4. CASE Write
      <4>1. /\ size' = size /\ disabled' = disabled /\ path' = path /\ starting' = FALSE
            /\ open' = open \/ open' = FALSE
        BY <3>4, Zenon DEF Write, disk
      <4>2. starting' \in BOOLEAN /\ disabled' \in BOOLEAN /\ size' \in Nat
        BY <3>1, <4>1
      <4>3. CASE open' = open
        BY <3>1, <4>1, <4>2, <4>3
      <4>4. CASE open' = FALSE
        BY <4>1, <4>2, <4>4
      <4> QED
        BY <4>1, <4>3, <4>4
    <3> QED
      BY <1>3, <3>2, <3>3, <3>4
  <2> QED
    BY <1>1, <2>1 DEF WriterTypes
<1>4. CASE AppendLine
  <2>1. path \in Contents /\ line \in Lines
    BY <1>1, <1>4, PathFacts DEF RInv, Place, AppendLine, WriterTypes
  <2>2. path'.bytes = path.bytes + Bytes[line] /\ path' \in Contents
    BY <1>4, <2>1, LengthOfLine DEF AppendLine, Contents
  <2>3. size' \in Nat /\ (open' => size' <= path'.bytes)
    BY <1>1, <1>4, <2>1, <2>2, LengthOfLine DEF AppendLine, WriterTypes, Contents
  <2> QED
    BY <1>1, <1>4, <2>2, <2>3, PathFacts DEF AppendLine, WriterTypes
<1>5. CASE AppendFails
  <2>1. path \in Contents /\ line \in Lines
    BY <1>1, <1>5, PathFacts DEF RInv, Place, AppendFails, WriterTypes
  <2>2. PICK n \in Nat : path' = [path EXCEPT !.bytes = @ + n] /\ size' = size + n
    BY <1>5, <2>1, LengthOfLine DEF AppendFails
  <2>3. path'.bytes = path.bytes + n /\ path' \in Contents
    BY <2>1, <2>2 DEF Contents
  <2>4. size' \in Nat /\ (open => size' <= path'.bytes)
    BY <1>1, <2>1, <2>2, <2>3 DEF WriterTypes, Contents
  <2> QED
    BY <1>1, <1>5, <2>3, <2>4, PathFacts DEF AppendFails, WriterTypes
<1>6. CASE ArchiveCurrent
  <2>1. ~open
    BY <1>6 DEF RInv, Place, ArchiveCurrent
  <2> QED
    BY <1>1, <1>6, <2>1 DEF ArchiveCurrent, writer, WriterTypes
<1>7. CASE OpenFirst \/ Reopen
  <2>1. path' \in Contents /\ path' # NoFile
    BY <1>1, <1>7, PathFacts DEF OpenFirst, Reopen, WriterTypes
  <2>2. size' \in Nat /\ size' <= path'.bytes
    BY <1>7, <2>1 DEF OpenFirst, Reopen, Contents
  <2> QED
    BY <1>1, <1>7, <2>1, <2>2 DEF OpenFirst, Reopen, WriterTypes
<1>8. CASE ReopenFails
  BY <1>1, <1>8 DEF ReopenFails, WriterTypes, disk
<1> QED
  BY <1>2, <1>3, <1>4, <1>5, <1>6, <1>7, <1>8
     DEF Next, vars, disk, writer, ArchiveFails, Gzip, GzipFails, Unlink, UnlinkFails,
         PruneOldArchives, PruneFails, OpenFirstFails

\* The writer with its files is well typed, however many rotations fail or are
\* interrupted; in particular the size it keeps of the file it has open, which
\* decides on the next rotation, is never more than what is in the file
\* (rf.size in Write, openCurrent and reopen).
THEOREM Typing == Spec => []TypeOK
<1>1. Init => TypeOK
  <2> SUFFICES ASSUME Init PROVE TypeOK
    OBVIOUS
  <2>1. DOMAIN plain = {} /\ Range(plain) = {} /\ DOMAIN gz = {} /\ Range(gz) = {}
    BY DEF Init, Range
  <2>2. 0 \in 0 .. Len(Bytes) /\ 0 \in 0 .. MaxFaults
    BY RotatingFileAssumption
  <2> QED
    BY <2>1, <2>2 DEF Init, TypeOK
<1>2. ASSUME RInv, RInv', TypeOK, [Next]_vars PROVE TypeOK'
  <2>1. FileTypes' /\ WriterTypes'
    BY <1>2, FileTypesStep, WriterTypesStep
  <2>2. faults \in 0 .. MaxFaults /\ line \in 0 .. Len(Bytes) /\ archive \in Nat /\ logged \subseteq 1 .. line
    BY <1>2, TypeParts
  <2>3. faults' \in 0 .. MaxFaults
    <3>1. CASE faults' = faults
      BY <2>2, <3>1
    <3>2. CASE Fails(1)
      BY <2>2, <3>2, FailsType
    <3>3. CASE PruneOldArchives
      <4>1. PICK removed \in SUBSET Excess : Fails(Cardinality(Excess \ removed))
        BY <3>3 DEF PruneOldArchives
      <4>2. Cardinality(Excess \ removed) \in Nat
        BY <1>2, <4>1, FS_Subset, FS_CardinalityType DEF RInv, Files, Excess
      <4> QED
        BY <2>2, <4>1, <4>2, FailsType
    <3> QED
      BY <1>2, <3>1, <3>2, <3>3
         DEF Next, vars, Start, Close, Crash, Write, AppendLine, AppendFails, ArchiveCurrent,
             ArchiveFails, Gzip, GzipFails, Unlink, UnlinkFails, PruneFails, OpenFirst,
             OpenFirstFails, Reopen, ReopenFails
  <2>4. archive' \in Nat
    <3>1. UniqueArchivePath \in Nat
      BY <1>2, UniqueIsNew DEF RInv
    <3> QED
      BY <1>2, <2>2, <3>1
         DEF Next, vars, Start, Close, Crash, Write, AppendLine, AppendFails, ArchiveCurrent,
             ArchiveFails, Gzip, GzipFails, Unlink, UnlinkFails, PruneOldArchives, PruneFails,
             OpenFirst, OpenFirstFails, Reopen, ReopenFails
  <2>5. line' \in 0 .. Len(Bytes) /\ at' \in {"down", "idle", "append"} \union Rotating
    BY <1>2 DEF RInv, Place
  <2>6. logged' \subseteq 1 .. line'
    <3>1. PICK w \in {line', line' - 1} : w = Written'
      BY DEF Written
    <3>2. logged' \subseteq 1 .. w
      BY <1>2, <3>1 DEF RInv, History, InOrder
    <3>3. line' \in Nat
      BY <2>5
    <3>4. 1 .. w \subseteq 1 .. line'
      <4>1. w = line' \/ w = line' - 1
        OBVIOUS
      <4>2. \A m \in Nat : 1 .. m \subseteq 1 .. m /\ 1 .. (m - 1) \subseteq 1 .. m
        OBVIOUS
      <4> QED
        BY <3>3, <4>1, <4>2, Zenon
    <3> QED
      BY <3>2, <3>4
  <2>7. at' \in {"down", "idle", "archive", "gzip", "unlink", "prune", "open", "append"}
    BY <2>5 DEF Rotating
  <2> QED
    BY <2>1, <2>3, <2>4, <2>5, <2>6, <2>7 DEF TypeOK, FileTypes, WriterTypes, Contents
<1> QED
  BY <1>1, <1>2, Initially, Inductive, PTL DEF Spec

\* A line that Write accepted is in some file until KeepCount archives of
\* later lines are there, whatever fails and whenever the process dies
\* (archiveCurrent, gzipFileAtomic, pruneOldArchives).
THEOREM LinesKept == Spec => []KeptUntilPruned
<1>1. RInv => KeptUntilPruned
  <2> SUFFICES ASSUME RInv, NEW l \in logged \ Stored
               PROVE  Cardinality(YoungerThan(l)) >= KeepCount
    BY DEF KeptUntilPruned
  <2>1. PICK t \in 0 .. mtime : GoneSince(l, t)
    BY DEF RInv, History, GoneForAReason
  <2>2. After(t) \subseteq YoungerThan(l)
    BY <2>1 DEF GoneSince, After, YoungerThan
  <2>3. IsFiniteSet(YoungerThan(l))
    BY FS_Subset DEF RInv, Files, YoungerThan
  <2>4. Cardinality(After(t)) <= Cardinality(YoungerThan(l)) /\ IsFiniteSet(After(t))
    BY <2>2, <2>3, FS_Subset
  <2> QED
    BY <2>1, <2>3, <2>4, FS_CardinalityType, RotatingFileAssumption DEF GoneSince
<1> QED
  BY Initially, Inductive, <1>1, PTL DEF Spec

\* Between writes there are at most KeepCount compressed archives and one for
\* each failure, and one uncompressed for each (pruneOldArchives).
THEOREM FewArchives == Spec => []HistoryBounded
<1>1. RInv => HistoryBounded
  <2> SUFFICES ASSUME RInv, at \in {"idle", "down"} PROVE HistoryBounded
    BY DEF HistoryBounded
  <2>1. /\ Cardinality(DOMAIN plain) <= faults + 0
        /\ Cardinality(DOMAIN gz) <= KeepCount + faults + 0
    BY DEF RInv, Counts
  <2>2. faults \in Nat /\ KeepCount \in Nat
    BY RotatingFileAssumption DEF RInv, Files
  <2> QED
    BY <2>1, <2>2 DEF HistoryBounded
<1> QED
  BY Initially, Inductive, <1>1, PTL DEF Spec

=============================================================================
