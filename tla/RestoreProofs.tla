---------------------------- MODULE RestoreProofs ----------------------------
(***************************************************************************)
(* What is proved of starts, restores and crashes, for any number of       *)
(* databases and faults.  The types and RestoredIsServed hold on every     *)
(* volume; that nothing is lost or mixed up needs a volume whose directory *)
(* changes reach the disk in the order in which they were made.            *)
(***************************************************************************)
EXTENDS Restore, SequenceTheorems, TLAPS

-----------------------------------------------------------------------------
(* The inductive invariant.                                                *)

Parts == {"", "-wal", "-shm", "-journal"}

Restoring ==
  [pc : {"copied", "preserve", "publish", "published", "undo"}, k : 1..MaxDatabases,
   i : 1..4, moved : Seq(Parts), replace : BOOLEAN]

Registers ==
  /\ next \in 1..(MaxDatabases + 1)
  /\ dirty \subseteq written /\ written \subseteq valid /\ valid \subseteq 1..(next - 1)
  /\ torn \in BOOLEAN

(* What a file may be, by its name.                                        *)
Sound(d) ==
  /\ d \in [RestoreNames -> [db : 1..(next - 1), part : Parts] \cup {NoFile}]
  /\ \A n \in RestoreNames : d[n] # NoFile =>
       /\ n[1] < next
       /\ n[2] \in Parts => d[n].part = n[2]
       /\ n[2] \notin Parts => d[n] = File(n[1], "")

Names == dir \in possible /\ \A d \in possible : Sound(d)

(* Who is at work, and with what.                                          *)
Roles ==
  /\ \/ restore = Idle
     \/ restore = [pc |-> "starting"] /\ dir[Live("")] = File(next - 1, "") /\ next - 1 \notin written
     \/ restore \in Restoring /\ restore.k = next - 1 /\ restore.k \notin written
  /\ restore # Idle => serving = 0 /\ restored = 0
  /\ serving # 0 => dir[Live("")] = File(serving, "") /\ serving \in valid
  /\ restored # 0 => restored \in valid

(* The copy of the backup: in its temporary file, then at the path.        *)
Copied ==
  restore \in Restoring =>
    /\ restore.pc # "published" => dir[Tmp(restore.k)] = File(restore.k, "")
    /\ restore.pc = "published" => dir[Live("")] = File(restore.k, "")
    /\ restore.pc # "copied" => restore.k \in valid

(* A directory in which nothing is lost or mixed up.                       *)
Survive(d) ==
  \A x \in written :
    /\ File(x, "") \in FilesOf(d)
    /\ x \in dirty => File(x, "-wal") \in FilesOf(d)

Companions(d) ==
  d[Live("")] # NoFile =>
    \A s \in Parts \ {""} : d[Live(s)] \in {NoFile, File(d[Live("")].db, s)}

Sees(d) ==
  d[Live("")] # NoFile /\ d[Live("")].db \in dirty => d[Live("-wal")] = File(d[Live("")].db, "-wal")

Whole(d) == Survive(d) /\ Companions(d) /\ (~torn => Sees(d))

(* The files that the restore has moved, and the file that each of them    *)
(* is: where it was, or in the rollback set.                               *)
Elements(q) == {q[j] : j \in DOMAIN q}
Moved == Elements(restore.moved)
Original(s) == IF s \in Moved THEN dir[Rollback(restore.k, s)] ELSE dir[Live(s)]

InOrder(q) == \A a, b \in DOMAIN q : (q[a] = q[b] => a = b) /\ (q[a] = "" => a = 1)
MovedInOrder == InOrder(restore.moved)

From(i) == {s \in Parts : \E j \in i..4 : s = Suffixes[j]}
Unmoved == From(restore.i)

Rolled ==
  /\ MovedInOrder
  /\ \A s \in Moved : dir[Live(s)] = NoFile /\ dir[Rollback(restore.k, s)] # NoFile
  /\ restore.pc = "copied" =>
       /\ restore.moved = <<>> /\ restore.i = 1
       /\ ~restore.replace => \A s \in Parts : dir[Live(s)] = NoFile
  /\ restore.pc = "preserve" => \A s \in Parts \ Unmoved : dir[Live(s)] = NoFile
  /\ restore.pc \in {"copied", "preserve"} =>
       \A s \in Unmoved : s \notin Moved /\ dir[Rollback(restore.k, s)] = NoFile
  /\ restore.pc = "publish" => \A s \in Parts : dir[Live(s)] = NoFile

Together ==
  Original("") # NoFile =>
    /\ \A s \in Parts \ {""} : {dir[Live(s)], Original(s)} \subseteq {NoFile, File(Original("").db, s)}
    /\ ~torn /\ Original("").db \in dirty => Original("-wal") = File(Original("").db, "-wal")

Ordered ==
  /\ \A d \in possible : Whole(d)
  /\ serving # 0 => dir[Live("-wal")] = File(serving, "-wal")
  /\ restore \in Restoring /\ restore.pc # "published" => Rolled /\ Together

RestoreInvariant ==
  /\ Registers /\ Names /\ Roles /\ Copied /\ RestoredIsServed
  /\ OrderedMetadata => Ordered

-----------------------------------------------------------------------------
(* Names and files.                                                        *)

LEMMA SuffixFacts ==
  /\ Suffixes[1] = "" /\ Suffixes[2] = "-wal" /\ Suffixes[3] = "-shm" /\ Suffixes[4] = "-journal"
  /\ \A i \in 1..4 : Suffixes[i] \in Parts
  /\ \A i, j \in 1..4 : Suffixes[i] = Suffixes[j] => i = j
  /\ \A s \in Parts : \E i \in 1..4 : s = Suffixes[i]
  /\ ".lazarus-restore" \notin Parts
BY DEF Suffixes, Parts

LEMMA Bounds ==
  /\ MaxDatabases \in Nat /\ MaxDatabases >= 1 /\ MaxFaults \in Nat
  /\ 0 \in 0..MaxDatabases
<1>1. MaxDatabases \in Nat /\ MaxDatabases # 0 /\ MaxFaults \in Nat
  BY RestoreAssumption
<1> QED BY <1>1

LEMMA NamesAre == RestoreNames = (0..MaxDatabases) \X (Parts \cup {".lazarus-restore"})
<1>1. {Suffixes[i] : i \in 1..4} = Parts
  BY SuffixFacts
<1>2. RestoreNames = {<<k, s>> : k \in 0..MaxDatabases, s \in Parts \cup {".lazarus-restore"}}
  BY <1>1 DEF RestoreNames
<1> QED BY <1>2

LEMMA Places ==
  ASSUME NEW k \in 0..MaxDatabases, NEW s \in Parts
  PROVE  /\ Rollback(k, s) \in RestoreNames /\ Rollback(k, s)[1] = k /\ Rollback(k, s)[2] = s
         /\ Live(s) \in RestoreNames /\ Live(s)[1] = 0 /\ Live(s)[2] = s /\ Rollback(0, s) = Live(s)
         /\ Tmp(k) \in RestoreNames /\ Tmp(k)[1] = k /\ Tmp(k)[2] = ".lazarus-restore" /\ Tmp(k)[2] \notin Parts
BY SuffixFacts, NamesAre, Bounds DEF Rollback, Live, Tmp

LEMMA NameParts ==
  ASSUME NEW n \in RestoreNames
  PROVE  /\ n[1] \in 0..MaxDatabases
         /\ n[2] \in Parts => (n[1] = 0 => n = Live(n[2])) /\ n = Rollback(n[1], n[2])
         /\ n[2] \notin Parts => n = Tmp(n[1])
<1>1. n = <<n[1], n[2]>> /\ n[1] \in 0..MaxDatabases /\ n[2] \in Parts \cup {".lazarus-restore"}
  BY NamesAre
<1> QED BY <1>1 DEF Live, Rollback, Tmp

LEMMA FileFacts ==
  ASSUME NEW n \in Nat, NEW s \in Parts
  PROVE  /\ File(n, s) # NoFile /\ File(n, s).db = n /\ File(n, s).part = s
         /\ \A m : \A t : File(n, s) = File(m, t) => m = n /\ t = s
<1>1. s \in {Suffixes[i] : i \in 1..4}
  BY SuffixFacts
<1>2. File(n, s) \in [db : Nat, part : {Suffixes[i] : i \in 1..4}]
  BY <1>1 DEF File
<1> QED BY <1>2, NoFileAssumption DEF File

LEMMA FileAt ==
  ASSUME NEW d, Sound(d), NEW n \in RestoreNames, n[2] \in Parts, d[n] # NoFile
  PROVE  d[n] = File(d[n].db, n[2]) /\ d[n].db \in 1..(next - 1)
BY DEF Sound, File

LEMMA FilesOfNames ==
  ASSUME NEW d, DOMAIN d = RestoreNames
  PROVE  \A f : f \in FilesOf(d) <=> f # NoFile /\ \E n \in RestoreNames : d[n] = f
BY DEF FilesOf

-----------------------------------------------------------------------------
(* What the steps do to the directories that a power loss may leave.       *)

LEMMA IntervalGrows ==
  ASSUME NEW a \in Nat, NEW b \in Nat, a <= b
  PROVE  /\ 1..(a - 1) \subseteq 1..(b - 1)
         /\ \A x \in Nat : x < a => x < b
OBVIOUS

LEMMA SoundStays ==
  ASSUME NEW d, Sound(d), Registers, next' \in Nat, next <= next'
  PROVE  Sound(d)'
<1>1. PICK a, b : a = next /\ b = next'
  OBVIOUS
<1>2. a \in Nat /\ b \in Nat /\ a <= b
  BY <1>1, Bounds DEF Registers
<1>3. 1..(a - 1) \subseteq 1..(b - 1) /\ \A x \in Nat : x < a => x < b
  BY <1>2, IntervalGrows
<1>4. d \in [RestoreNames -> [db : 1..(b - 1), part : Parts] \cup {NoFile}]
  BY <1>1, <1>3 DEF Sound
<1>5. \A n \in RestoreNames : n[1] \in Nat
  BY NameParts, Bounds
<1>6. \A n \in RestoreNames : d[n] # NoFile => n[1] < b
  BY <1>1, <1>3, <1>5 DEF Sound
<1> QED BY <1>1, <1>4, <1>6 DEF Sound

LEMMA ChangedDirectories ==
  ASSUME NEW op, Change(op), dir \in possible
  PROVE  /\ dir' = Apply(op, dir) /\ dir' \in possible' /\ possible \subseteq possible'
         /\ \A e \in possible' : e \in possible \/ \E d \in possible : e = Apply(op, d)
         /\ OrderedMetadata => possible' = possible \cup {dir'}
BY OrderedMetadataAssumption DEF Change

LEMMA AppliedEntry ==
  ASSUME NEW d, DOMAIN d = RestoreNames, NEW op, NEW n \in RestoreNames
  PROVE  /\ DOMAIN Apply(op, d) = RestoreNames
         /\ n \in DOMAIN op => Apply(op, d)[n] = op[n]
         /\ n \notin DOMAIN op => Apply(op, d)[n] = d[n]
BY DEF Apply

(* What may be put at a name.                                              *)
Fits(n, f) ==
  /\ f \in [db : 1..(next - 1), part : Parts]
  /\ n[1] < next
  /\ n[2] \in Parts => f.part = n[2]
  /\ n[2] \notin Parts => f = File(n[1], "")

LEMMA ChangeKeepsNames ==
  ASSUME Names, Registers, next' \in Nat, next <= next', NEW op, Change(op),
         \A n \in DOMAIN op \cap RestoreNames : op[n] = NoFile \/ Fits(n, op[n])'
  PROVE  Names'
<1>1. ASSUME NEW d \in possible PROVE Sound(Apply(op, d))'
  <2>1. Sound(d)' /\ DOMAIN d = RestoreNames
    BY SoundStays DEF Names, Sound
  <2>2. \A n \in RestoreNames : d[n] = NoFile \/ Fits(n, d[n])'
    BY <2>1 DEF Sound, Fits
  <2>2a. \A n \in RestoreNames : Apply(op, d)[n] = NoFile \/ Fits(n, Apply(op, d)[n])'
    BY <2>1, <2>2, AppliedEntry
  <2>3. Apply(op, d) \in [RestoreNames -> [db : 1..(next' - 1), part : Parts] \cup {NoFile}]
    BY <2>1, <2>2a DEF Apply, Fits
  <2> QED BY <2>2a, <2>3 DEF Sound, Fits
<1>2. \A d \in possible : Sound(d)'
  BY SoundStays DEF Names
<1> QED BY <1>1, <1>2, ChangedDirectories DEF Names

LEMMA DirTyped ==
  ASSUME Names
  PROVE  /\ Sound(dir) /\ DOMAIN dir = RestoreNames
         /\ dir \in [RestoreNames -> [db : 1..(next - 1), part : Parts] \cup {NoFile}]
BY DEF Names, Sound

(* Renames of one step: a file leaves one name and takes another.          *)
LEMMA Renamed ==
  ASSUME Names, Registers, UNCHANGED next,
         NEW from \in RestoreNames, NEW to \in RestoreNames, from # to, Rename(from, to),
         NEW f, f = dir[from], f = NoFile \/ Fits(to, f)
  PROVE  /\ Names'
         /\ dir'[to] = f /\ dir'[from] = NoFile
         /\ \A n \in RestoreNames \ {from, to} : dir'[n] = dir[n]
         /\ OrderedMetadata => possible' = possible \cup {dir'}
<1> DEFINE op == [x \in {from, to} |-> IF x = to THEN f ELSE NoFile]
<1>1. Change(op) /\ DOMAIN op = {from, to} /\ op[from] = NoFile /\ op[to] = f
  BY DEF Rename
<1> HIDE DEF op
<1>2. (f = NoFile \/ Fits(to, f)') /\ next' \in Nat /\ next <= next'
  <2>1. next \in Nat /\ next' = next
    BY Bounds DEF Registers
  <2>2. Fits(to, f) => Fits(to, f)'
    BY ONLY <2>1 DEF Fits
  <2>3. next' \in Nat /\ next <= next'
    BY ONLY <2>1
  <2> QED BY <2>2, <2>3
<1>3. Names'
  BY <1>1, <1>2, ChangeKeepsNames
<1> QED BY <1>1, <1>3, DirTyped, AppliedEntry, ChangedDirectories DEF Names

LEMMA Removed ==
  ASSUME Names, Registers, UNCHANGED next, NEW n \in RestoreNames, Remove(n)
  PROVE  /\ Names'
         /\ dir'[n] = NoFile
         /\ \A m \in RestoreNames \ {n} : dir'[m] = dir[m]
         /\ OrderedMetadata => possible' = possible \cup {dir'}
<1> DEFINE op == [x \in {n} |-> NoFile]
<1>1. Change(op) /\ DOMAIN op = {n} /\ op[n] = NoFile
  BY DEF Remove
<1> HIDE DEF op
<1>2. next' \in Nat /\ next <= next'
  BY Bounds DEF Registers
<1>3. Names'
  BY <1>1, <1>2, ChangeKeepsNames
<1> QED BY <1>1, <1>3, DirTyped, AppliedEntry, ChangedDirectories DEF Names

-----------------------------------------------------------------------------
(* Directories in which nothing is lost or mixed up.                       *)

LEMMA WholeStays ==
  ASSUME NEW d, Whole(d), UNCHANGED <<written, dirty>>, torn => torn'
  PROVE  Whole(d)'
BY DEF Whole, Survive, Companions, Sees

LEMMA AllWholeStays ==
  ASSUME \A d \in possible : Whole(d), UNCHANGED <<written, dirty>>, torn => torn',
         NEW e, Whole(e), \A d \in possible' : d \in possible \/ d = e
  PROVE  \A d \in possible' : Whole(d)'
BY WholeStays

LEMMA RegisterFacts ==
  ASSUME Registers
  PROVE  /\ next \in Nat /\ next >= 1 /\ next - 1 \in Nat /\ next - 1 <= MaxDatabases
         /\ valid \subseteq Nat /\ written \subseteq Nat /\ dirty \subseteq Nat
         /\ next \notin valid /\ next \notin written /\ next \notin dirty /\ 0 \notin valid
         /\ "" \in Parts /\ "-wal" \in Parts /\ "-shm" \in Parts /\ "-journal" \in Parts
<1>1. next \in Nat /\ next >= 1 /\ next - 1 \in Nat /\ next - 1 <= MaxDatabases
  BY Bounds DEF Registers
<1>2. 1..(next - 1) \subseteq Nat /\ next \notin 1..(next - 1) /\ 0 \notin 1..(next - 1)
  BY <1>1
<1>3. dirty \subseteq written /\ written \subseteq valid /\ valid \subseteq 1..(next - 1)
  BY DEF Registers
<1>4. /\ valid \subseteq Nat /\ written \subseteq Nat /\ dirty \subseteq Nat
      /\ next \notin valid /\ next \notin written /\ next \notin dirty /\ 0 \notin valid
  BY <1>2, <1>3
<1> QED BY <1>1, <1>4 DEF Parts

(* A step that moves the files of committed databases loses none.          *)
LEMMA SurviveMoves ==
  ASSUME NEW d, NEW e, DOMAIN d = RestoreNames, DOMAIN e = RestoreNames, Registers, Survive(d),
         \A n \in RestoreNames : d[n] # NoFile /\ d[n].db \in written /\ d[n].part \in {"", "-wal"}
                                   => \E m \in RestoreNames : e[m] = d[n]
  PROVE  Survive(e)
<1>1. written \subseteq Nat /\ "" \in Parts /\ "-wal" \in Parts
  BY RegisterFacts
<1>2. ASSUME NEW x \in written, NEW s \in {"", "-wal"}, File(x, s) \in FilesOf(d)
      PROVE  File(x, s) \in FilesOf(e)
  <2>1. PICK n \in RestoreNames : d[n] = File(x, s)
    BY <1>2, FilesOfNames
  <2>2. d[n] # NoFile /\ d[n].db = x /\ d[n].part = s
    <3>1. x \in Nat /\ s \in Parts
      BY <1>1
    <3>2. File(x, s) # NoFile /\ File(x, s).db = x /\ File(x, s).part = s
      BY <3>1, FileFacts
    <3> QED BY <3>2, <2>1
  <2> QED BY <2>1, <2>2, FilesOfNames
<1> QED BY <1>2 DEF Survive

LEMMA PcFacts ==
  ASSUME Roles, restore.pc \notin {"idle", "starting"}
  PROVE  /\ restore \in Restoring /\ restore # Idle /\ restore.k = next - 1 /\ restore.k \notin written
         /\ serving = 0 /\ restored = 0
<1>1. Idle.pc = "idle" /\ [pc |-> "starting"].pc = "starting"
  BY DEF Idle
<1> QED BY <1>1 DEF Roles

LEMMA RestoringFacts ==
  ASSUME NEW r \in Restoring
  PROVE  /\ r.pc \in {"copied", "preserve", "publish", "published", "undo"}
         /\ r.k \in 1..MaxDatabases /\ r.k \in 0..MaxDatabases /\ r.k \in Nat
         /\ r.i \in 1..4 /\ r.moved \in Seq(Parts) /\ r.replace \in BOOLEAN
         /\ r # Idle /\ r # [pc |-> "starting"]
<1>1. /\ r.pc \in {"copied", "preserve", "publish", "published", "undo"}
      /\ r.k \in 1..MaxDatabases
      /\ r.i \in 1..4 /\ r.moved \in Seq(Parts) /\ r.replace \in BOOLEAN
  BY DEF Restoring
<1>2. r.k \in 0..MaxDatabases /\ r.k \in Nat
  BY <1>1, Bounds
<1>3. Idle.pc = "idle" /\ [pc |-> "starting"].pc = "starting"
  BY DEF Idle
<1>4. r # Idle /\ r # [pc |-> "starting"]
  BY <1>1, <1>3
<1> QED BY <1>1, <1>2, <1>4

-----------------------------------------------------------------------------
(* The server.                                                             *)

LEMMA NextStays ==
  ASSUME Registers, UNCHANGED next
  PROVE  next' \in Nat /\ next <= next'
<1>1. next \in Nat /\ next' = next
  BY RegisterFacts
<1> QED BY ONLY <1>1

LEMMA EntriesStay ==
  ASSUME Names, UNCHANGED <<entries, next>>
  PROVE  Names' /\ dir' = dir /\ possible' = possible
BY DEF Names, Sound, entries

LEMMA LiveFacts ==
  /\ \A s \in Parts : Live(s) \in RestoreNames /\ Live(s)[1] = 0 /\ Live(s)[2] = s
  /\ Live("") # Live("-wal") /\ Live("") # Live("-shm") /\ Live("") # Live("-journal")
  /\ Live("-wal") # Live("-shm") /\ Live("-wal") # Live("-journal") /\ Live("-shm") # Live("-journal")
<1>1. \A s \in Parts : Live(s) \in RestoreNames /\ Live(s)[1] = 0 /\ Live(s)[2] = s
  BY Places, Bounds
<1> QED BY <1>1 DEF Live

(* A directory holds at a live path only the part of that name.            *)
LEMMA LiveAt ==
  ASSUME NEW d, Sound(d), NEW s \in Parts, d[Live(s)] # NoFile
  PROVE  d[Live(s)] = File(d[Live(s)].db, s) /\ d[Live(s)].db \in 1..(next - 1)
<1>1. Live(s) \in RestoreNames /\ Live(s)[2] = s
  BY LiveFacts
<1> QED BY <1>1, FileAt

LEMMA InitKeeps == RInit => RestoreInvariant
<1> SUFFICES ASSUME RInit PROVE RestoreInvariant
  OBVIOUS
<1>1. Registers
  <2>1. next = 1 /\ valid = {} /\ dirty = {} /\ written = {} /\ torn = FALSE
    BY DEF RInit
  <2>2. 1 \in 1..(MaxDatabases + 1)
    BY Bounds
  <2> QED BY <2>1, <2>2 DEF Registers
<1>2. /\ dir = [n \in RestoreNames |-> NoFile] /\ possible = {dir}
      /\ restore = Idle /\ serving = 0 /\ restored = 0 /\ written = {} /\ dirty = {}
  BY DEF RInit, VolumeInit
<1>3. Names
  BY <1>2 DEF Names, Sound
<1>4. restore \notin Restoring
  BY <1>2, RestoringFacts
<1>5. Roles /\ Copied /\ RestoredIsServed
  BY <1>2, <1>4 DEF Roles, Copied, RestoredIsServed
<1>6. dir[Live("")] = NoFile
  BY <1>2, LiveFacts DEF Parts
<1>7. Whole(dir)
  BY <1>2, <1>6 DEF Whole, Survive, Companions, Sees
<1>8. Ordered
  BY <1>2, <1>4, <1>7 DEF Ordered
<1> QED BY <1>1, <1>3, <1>5, <1>8 DEF RestoreInvariant

LEMMA CommitKeeps ==
  ASSUME RestoreInvariant, Commit
  PROVE  RestoreInvariant'
<1>1. /\ Registers /\ Names /\ Roles /\ Copied /\ RestoredIsServed /\ (OrderedMetadata => Ordered)
      /\ serving # 0 /\ serving \in valid /\ dir[Live("")] = File(serving, "")
      /\ restore = Idle
  BY DEF RestoreInvariant, Commit, Roles
<1>2. /\ dirty' = dirty \cup {serving} /\ written' = written \cup {serving}
      /\ dir' = dir /\ possible' = {dir}
      /\ UNCHANGED <<next, valid, serving, restore, restored, torn>>
  BY DEF Commit, SyncDir
<1>3. Registers'
  BY <1>1, <1>2 DEF Registers
<1>4. Names'
  BY <1>1, <1>2, NextStays, SoundStays DEF Names
<1>5. restore' \notin Restoring
  BY <1>1, <1>2, RestoringFacts
<1>6. Roles' /\ Copied' /\ RestoredIsServed'
  BY <1>1, <1>2, <1>5 DEF Roles, Copied, RestoredIsServed, Names
<1>7. ASSUME OrderedMetadata PROVE Ordered'
  <2>1. Whole(dir) /\ dir[Live("-wal")] = File(serving, "-wal")
    BY <1>1, <1>7 DEF Ordered, Names
  <2>2. DOMAIN dir = RestoreNames /\ serving \in Nat /\ "" \in Parts /\ "-wal" \in Parts
    BY <1>1, DirTyped, RegisterFacts
  <2>3. File(serving, "") \in FilesOf(dir) /\ File(serving, "-wal") \in FilesOf(dir)
    BY <1>1, <2>1, <2>2, FilesOfNames, LiveFacts, FileFacts
  <2>4. \A x \in written' : /\ File(x, "") \in FilesOf(dir)
                            /\ x \in dirty' => File(x, "-wal") \in FilesOf(dir)
    BY <1>2, <2>1, <2>3 DEF Whole, Survive
  <2>5. File(serving, "").db = serving
    BY <2>2, FileFacts
  <2>6. Companions(dir) /\ dir[Live("")].db = serving
    BY <1>1, <2>1, <2>5 DEF Whole
  <2>7. Whole(dir)'
    BY <1>2, <2>1, <2>4, <2>6 DEF Whole, Survive, Companions, Sees
  <2> QED BY <1>1, <1>2, <1>5, <2>1, <2>7 DEF Ordered
<1> QED BY <1>2, <1>3, <1>4, <1>6, <1>7 DEF RestoreInvariant

LEMMA CrashKeeps ==
  ASSUME RestoreInvariant, NEW power \in BOOLEAN, Crash(power)
  PROVE  RestoreInvariant'
<1>1. Registers /\ Names /\ Roles /\ Copied /\ RestoredIsServed /\ (OrderedMetadata => Ordered)
  BY DEF RestoreInvariant
<1>2. serving' = 0 /\ restore' = Idle /\ UNCHANGED <<next, valid, dirty, written, torn, restored>>
  BY DEF Crash, databases
<1>3. dir' \in possible' /\ possible' \subseteq possible
  <2>1. CASE power
    BY <2>1 DEF Crash, PowerLoss
  <2>2. CASE ~power
    BY <2>2, <1>1 DEF Crash, volume, entries, Names
  <2> QED BY <2>1, <2>2
<1>4. Registers'
  BY <1>1, <1>2 DEF Registers
<1>5. Names'
  <2>1. next' \in Nat /\ next <= next'
    BY <1>1, <1>2, NextStays
  <2> QED BY <1>1, <1>3, <2>1, SoundStays DEF Names
<1>6. restore' \notin Restoring
  BY <1>2, RestoringFacts
<1>7. Roles' /\ Copied' /\ RestoredIsServed'
  BY <1>1, <1>2, <1>3, <1>6 DEF Roles, Copied, RestoredIsServed
<1>8. ASSUME OrderedMetadata PROVE Ordered'
  <2>1. \A d \in possible' : Whole(d)'
    BY <1>1, <1>2, <1>3, <1>8, WholeStays DEF Ordered
  <2> QED BY <1>2, <1>6, <2>1 DEF Ordered
<1> QED BY <1>4, <1>5, <1>7, <1>8 DEF RestoreInvariant

(* A change that leaves the database at the path alone.                    *)
LEMMA ChangeKeepsRestored ==
  ASSUME Names, RestoredIsServed, UNCHANGED restored, NEW op, Change(op), Live("") \notin DOMAIN op
  PROVE  RestoredIsServed'
<1>1. Live("") \in RestoreNames
  BY LiveFacts DEF Parts
<1>2. \A d \in possible : Apply(op, d)[Live("")] = d[Live("")]
  <2> SUFFICES ASSUME NEW d \in possible PROVE Apply(op, d)[Live("")] = d[Live("")]
    OBVIOUS
  <2>1. DOMAIN d = RestoreNames
    BY DEF Names, Sound
  <2> QED BY <1>1, <2>1, AppliedEntry
<1>3. \A e \in possible' : e \in possible \/ \E d \in possible : e = Apply(op, d)
  BY ChangedDirectories DEF Names
<1> QED BY <1>2, <1>3 DEF RestoredIsServed

LEMMA StopKeeps ==
  ASSUME RestoreInvariant, Stop
  PROVE  RestoreInvariant'
<1> DEFINE op == [x \in {Live("-wal"), Live("-shm")} |-> NoFile]
<1>1. /\ Registers /\ Names /\ Roles /\ Copied /\ RestoredIsServed /\ (OrderedMetadata => Ordered)
      /\ serving # 0 /\ serving \in valid /\ dir[Live("")] = File(serving, "")
      /\ restore = Idle
  BY DEF RestoreInvariant, Stop, Roles
<1>2. /\ dirty' = dirty \ {serving} /\ Change(op) /\ serving' = 0
      /\ UNCHANGED <<next, valid, written, restore, restored, torn>>
  BY DEF Stop
<1>3. DOMAIN op = {Live("-wal"), Live("-shm")} /\ \A x \in DOMAIN op : op[x] = NoFile
  OBVIOUS
<1> HIDE DEF op
<1>4. Registers'
  BY <1>1, <1>2 DEF Registers
<1>5. Names'
  BY <1>1, <1>2, <1>3, NextStays, ChangeKeepsNames
<1>6. restore' \notin Restoring
  BY <1>1, <1>2, RestoringFacts
<1>7. dir \in possible /\ DOMAIN dir = RestoreNames /\ DOMAIN dir' = RestoreNames
  BY <1>1, <1>5, DirTyped DEF Names, Sound
<1>8. /\ \A n \in RestoreNames \ {Live("-wal"), Live("-shm")} : dir'[n] = dir[n]
      /\ dir'[Live("-wal")] = NoFile /\ dir'[Live("-shm")] = NoFile
      /\ dir'[Live("")] = dir[Live("")]
  <2>1. /\ Live("") \in RestoreNames /\ Live("-wal") \in RestoreNames /\ Live("-shm") \in RestoreNames
        /\ Live("") \notin {Live("-wal"), Live("-shm")}
    BY <1>1, LiveFacts, RegisterFacts
  <2>2. dir' = Apply(op, dir)
    BY <1>2, <1>7, ChangedDirectories
  <2>3. \A n \in RestoreNames : dir'[n] = IF n \in DOMAIN op THEN op[n] ELSE dir[n]
    BY <1>7, <2>2, AppliedEntry
  <2> QED BY <1>3, <2>1, <2>3
<1>9. Roles' /\ Copied' /\ RestoredIsServed'
  <2>1. Live("") \notin DOMAIN op
    BY <1>1, <1>3, LiveFacts, RegisterFacts
  <2>2. RestoredIsServed'
    BY <1>1, <1>2, <2>1, ChangeKeepsRestored
  <2> QED BY <1>1, <1>2, <1>6, <1>8, <2>2 DEF Roles, Copied
<1>10. ASSUME OrderedMetadata PROVE Ordered'
  <2>1. Whole(dir) /\ dir[Live("-wal")] = File(serving, "-wal")
    BY <1>1, <1>10 DEF Ordered, Names
  <2>2. serving \in Nat /\ "" \in Parts /\ "-wal" \in Parts /\ "-shm" \in Parts
    BY <1>1, RegisterFacts
  <2>3. dir[Live("")].db = serving
    BY <1>1, <2>2, FileFacts
  <2>4. \A x \in written : File(x, "") \in FilesOf(dir) /\ (x \in dirty => File(x, "-wal") \in FilesOf(dir))
    BY <2>1 DEF Whole, Survive
  <2>5. ASSUME NEW x \in written, NEW s \in {"", "-wal"}, s = "-wal" => x # serving,
               File(x, s) \in FilesOf(dir)
        PROVE  File(x, s) \in FilesOf(dir')
    <3>1. PICK n \in RestoreNames : dir[n] = File(x, s)
      BY <2>5, <1>7, FilesOfNames
    <3>2. x \in Nat /\ s \in Parts /\ s # "-shm"
      BY <1>1, <2>2, RegisterFacts
    <3>2a. dir[n] # NoFile /\ dir[n].db = x /\ dir[n].part = s
      <4>1. File(x, s) # NoFile /\ File(x, s).db = x /\ File(x, s).part = s
        BY <3>2, FileFacts
      <4> QED BY <3>1, <4>1
    <3>3. n # Live("-wal")
      <4>1. File(serving, "-wal").db = serving /\ File(serving, "-wal").part = "-wal"
        BY <2>2, FileFacts
      <4>2. dir[Live("-wal")].db = serving /\ dir[Live("-wal")].part = "-wal"
        BY <2>1, <4>1
      <4> QED BY <2>5, <3>2a, <4>2
    <3>4. n # Live("-shm")
      <4>1. SUFFICES ASSUME n = Live("-shm") PROVE FALSE
        OBVIOUS
      <4>2. Sound(dir)
        BY <1>1, DirTyped
      <4> QED BY <4>1, <4>2, <2>2, <3>2, <3>2a, LiveFacts DEF Sound
    <3> QED BY <1>7, <1>8, <3>1, <3>3, <3>4, <3>2a, FilesOfNames
  <2>6. PICK e : e = dir'
    OBVIOUS
  <2>6a. Whole(e)'
    <3>1. ASSUME NEW x \in written' PROVE File(x, "") \in FilesOf(e) /\ (x \in dirty' => File(x, "-wal") \in FilesOf(e))
      BY <1>2, <2>4, <2>5, <2>6
    <3>2. Companions(e)
      <4>1. ASSUME NEW s \in Parts PROVE e[Live(s)] \in {NoFile, dir[Live(s)]}
        BY <1>8, <2>6, LiveFacts
      <4> QED BY <1>8, <2>1, <2>6, <4>1 DEF Companions, Whole
    <3>3. Sees(e)'
      BY <1>2, <1>8, <2>3, <2>6 DEF Sees
    <3> QED BY <3>1, <3>2, <3>3 DEF Whole, Survive, Companions
  <2>7. ASSUME NEW d \in possible PROVE Whole(d)'
    BY <1>1, <1>2, <1>10 DEF Ordered, Whole, Survive, Companions, Sees
  <2>8. possible' = possible \cup {dir'}
    BY <1>2, <1>7, <1>10, ChangedDirectories
  <2> QED BY <1>2, <1>6, <2>6, <2>6a, <2>7, <2>8 DEF Ordered
<1> QED BY <1>4, <1>5, <1>9, <1>10 DEF RestoreInvariant

(* The files that SQLite adds when it opens a database.                    *)
LEMMA Accompanied ==
  ASSUME Registers, Names, dir[Live("")] # NoFile, NEW m, m = dir[Live("")].db,
         NEW e, e = WithCompanions(dir, m)
  PROVE  /\ DOMAIN e = RestoreNames /\ m \in 1..(next - 1) /\ m \in Nat /\ dir[Live("")] = File(m, "")
         /\ \A n \in RestoreNames : e[n] = dir[n] \/ dir[n] = NoFile
         /\ \A n \in RestoreNames \ {Live("-wal"), Live("-shm")} : e[n] = dir[n]
         /\ \A s \in {"-wal", "-shm"} : e[Live(s)] = IF dir[Live(s)] = NoFile THEN File(m, s) ELSE dir[Live(s)]
         /\ Sound(e)
<1>1. Sound(dir) /\ DOMAIN dir = RestoreNames
  BY DirTyped
<1>2. m \in 1..(next - 1) /\ dir[Live("")] = File(m, "")
  BY <1>1, LiveAt, RegisterFacts
<1>3. m \in Nat /\ 0 < next
  <2>1. next \in Nat /\ next >= 1
    BY RegisterFacts
  <2>2. m \in 1..(next - 1)
    BY <1>2
  <2> QED BY ONLY <2>1, <2>2
<1>4. DOMAIN e = RestoreNames /\ \A n \in RestoreNames : 
        e[n] = IF n \in {Live("-wal"), Live("-shm")} /\ dir[n] = NoFile THEN File(m, n[2]) ELSE dir[n]
  BY <1>1 DEF WithCompanions
<1>5. \A s \in {"-wal", "-shm"} : e[Live(s)] = IF dir[Live(s)] = NoFile THEN File(m, s) ELSE dir[Live(s)]
  BY <1>4, LiveFacts, RegisterFacts
<1>6. ASSUME NEW n \in RestoreNames PROVE e[n] = NoFile \/ Fits(n, e[n])
  <2>1. CASE n \in {Live("-wal"), Live("-shm")} /\ dir[n] = NoFile
    <3>1. PICK s \in {"-wal", "-shm"} : n = Live(s)
      BY <2>1
    <3>2. s \in Parts /\ n[1] = 0 /\ n[2] = s
      BY <3>1, LiveFacts, RegisterFacts
    <3>3. e[n] = File(m, s)
      BY <1>4, <2>1, <3>2
    <3>4. File(m, s) \in [db : 1..(next - 1), part : Parts] /\ File(m, s).part = s
      BY <1>2, <3>2 DEF File
    <3> QED BY <1>3, <3>2, <3>3, <3>4 DEF Fits
  <2>2. CASE ~(n \in {Live("-wal"), Live("-shm")} /\ dir[n] = NoFile)
    BY <1>1, <1>4, <2>2 DEF Fits, Sound
  <2> QED BY <2>1, <2>2
<1>7. e \in [RestoreNames -> [db : 1..(next - 1), part : Parts] \cup {NoFile}]
  <2>1. \A n \in RestoreNames : e[n] \in [db : 1..(next - 1), part : Parts] \cup {NoFile}
    BY <1>6 DEF Fits
  <2>2. e = [n \in RestoreNames |-> e[n]]
    BY <1>1 DEF WithCompanions
  <2> QED BY <2>1, <2>2
<1>8. Sound(e)
  BY <1>6, <1>7 DEF Sound, Fits
<1> QED BY <1>2, <1>3, <1>4, <1>5, <1>8

LEMMA Emptied ==
  ASSUME NEW d, Sound(d), NEW n \in RestoreNames, NEW e, e = [d EXCEPT ![n] = NoFile]
  PROVE  /\ Sound(e) /\ e[n] = NoFile
         /\ \A m \in RestoreNames \ {n} : e[m] = d[m]
<1>1. d \in [RestoreNames -> [db : 1..(next - 1), part : Parts] \cup {NoFile}]
  BY DEF Sound
<1>2. e \in [RestoreNames -> [db : 1..(next - 1), part : Parts] \cup {NoFile}]
  BY <1>1
<1>3. e[n] = NoFile /\ \A m \in RestoreNames \ {n} : e[m] = d[m]
  BY <1>1
<1> QED BY <1>2, <1>3 DEF Sound

LEMMA OpenedWhole ==
  ASSUME Registers, Names, Whole(dir), NEW m \in Nat, dir[Live("")] = File(m, ""),
         NEW e, DOMAIN e = RestoreNames, e[Live("")] = dir[Live("")],
         \A n \in RestoreNames : e[n] = dir[n] \/ dir[n] = NoFile \/ n = Live("-journal"),
         e[Live("-journal")] \in {NoFile, dir[Live("-journal")]},
         \A s \in {"-wal", "-shm"} : e[Live(s)] = IF dir[Live(s)] = NoFile THEN File(m, s) ELSE dir[Live(s)]
  PROVE  Whole(e) /\ e[Live("-wal")] = File(m, "-wal")
<1>1. Sound(dir) /\ DOMAIN dir = RestoreNames
  BY DirTyped
<1>2. "" \in Parts /\ "-wal" \in Parts /\ "-shm" \in Parts /\ "-journal" \in Parts
  BY RegisterFacts
<1>3. Survive(e)
  <2>1. ASSUME NEW n \in RestoreNames, dir[n] # NoFile, dir[n].part \in {"", "-wal"}
        PROVE  e[n] = dir[n]
    <3>1. n # Live("-journal")
      <4>1. SUFFICES ASSUME n = Live("-journal") PROVE FALSE
        OBVIOUS
      <4>2. dir[n].part = "-journal"
        BY <1>1, <1>2, <2>1, <4>1, LiveFacts DEF Sound
      <4> QED BY <2>1, <4>2
    <3> QED BY <2>1, <3>1
  <2> QED BY <1>1, <2>1, SurviveMoves DEF Whole
<1>4. File(m, "") # NoFile /\ File(m, "").db = m
  BY <1>2, FileFacts
<1>5. \A s \in Parts \ {""} : dir[Live(s)] \in {NoFile, File(m, s)}
  BY <1>4 DEF Whole, Companions
<1>6. e[Live("-wal")] = File(m, "-wal") /\ e[Live("-shm")] = File(m, "-shm")
  BY <1>2, <1>5
<1>7. \A s \in Parts \ {""} : e[Live(s)] \in {NoFile, File(m, s)}
  <2>1. Parts = {"", "-wal", "-shm", "-journal"}
    BY DEF Parts
  <2>2. e[Live("-journal")] \in {NoFile, File(m, "-journal")}
    BY <1>2, <1>5
  <2> QED BY <1>6, <2>1, <2>2
<1>8. Companions(e) /\ Sees(e)
  BY <1>4, <1>6, <1>7 DEF Companions, Sees
<1> QED BY <1>3, <1>6, <1>8 DEF Whole

LEMMA OpenExistingKeeps ==
  ASSUME RestoreInvariant, OpenExisting
  PROVE  RestoreInvariant'
<1>1. Registers /\ Names /\ Roles /\ Copied /\ RestoredIsServed /\ (OrderedMetadata => Ordered)
  BY DEF RestoreInvariant
<1>2. PICK m : m = dir[Live("")].db
  OBVIOUS
<1>2a. PICK op : op = [x \in {Live("-wal"), Live("-shm")} |-> WithCompanions(dir, m)[x]]
  OBVIOUS
<1>3. /\ serving = 0 /\ restore = Idle /\ dir[Live("")] # NoFile /\ m \in valid
      /\ serving' = m /\ Change(op)
      /\ UNCHANGED <<next, valid, dirty, written, torn, restore, restored>>
  BY <1>2, <1>2a DEF OpenExisting, Stopped, Exists, Refused, LiveMain, databases
<1>3a. PICK e : e = WithCompanions(dir, m)
  OBVIOUS
<1>3b. DOMAIN op = {Live("-wal"), Live("-shm")} /\ \A x \in DOMAIN op : op[x] = e[x]
  BY <1>2a, <1>3a
<1>4. /\ DOMAIN e = RestoreNames /\ m \in Nat /\ dir[Live("")] = File(m, "")
      /\ \A n \in RestoreNames : e[n] = dir[n] \/ dir[n] = NoFile
      /\ \A n \in RestoreNames \ {Live("-wal"), Live("-shm")} : e[n] = dir[n]
      /\ \A s \in {"-wal", "-shm"} : e[Live(s)] = IF dir[Live(s)] = NoFile THEN File(m, s) ELSE dir[Live(s)]
      /\ Sound(e)
  BY <1>1, <1>2, <1>3, <1>3a, Accompanied
<1>4a. dir \in possible /\ DOMAIN dir = RestoreNames
  BY <1>1, DirTyped DEF Names
<1>4b. dir' = Apply(op, dir) /\ DOMAIN dir' = RestoreNames
  BY <1>3, <1>4a, ChangedDirectories, AppliedEntry DEF Apply
<1>4c. \A n \in RestoreNames : dir'[n] = e[n]
  <2> SUFFICES ASSUME NEW n \in RestoreNames PROVE dir'[n] = e[n]
    OBVIOUS
  <2>1. dir'[n] = IF n \in DOMAIN op THEN op[n] ELSE dir[n]
    BY <1>4a, <1>4b, AppliedEntry
  <2> QED BY <1>3b, <1>4, <2>1
<1>5. Registers'
  BY <1>1, <1>3 DEF Registers
<1>6. Names'
  <2>1. \A n \in DOMAIN op \cap RestoreNames : op[n] = NoFile \/ Fits(n, op[n])'
    BY <1>3, <1>3b, <1>4 DEF Sound, Fits
  <2> QED BY <1>1, <1>3, <2>1, NextStays, ChangeKeepsNames
<1>7. dir'[Live("")] = dir[Live("")] /\ dir'[Live("-journal")] = dir[Live("-journal")]
  BY <1>1, <1>4, <1>4c, LiveFacts, RegisterFacts
<1>8. restore' \notin Restoring
  BY <1>3, RestoringFacts
<1>9. Roles' /\ Copied'
  BY <1>1, <1>3, <1>4, <1>7, <1>8 DEF Roles, Copied
<1>10. RestoredIsServed'
  <2>1. Live("") \notin DOMAIN op
    BY <1>1, <1>3b, LiveFacts, RegisterFacts
  <2> QED BY <1>1, <1>3, <2>1, ChangeKeepsRestored
<1>11. ASSUME OrderedMetadata PROVE Ordered'
  <2>1. Whole(dir)
    BY <1>1, <1>11 DEF Ordered, Names
  <2>2. \A s \in Parts : Live(s) \in RestoreNames
    BY LiveFacts
  <2>3. Whole(dir') /\ dir'[Live("-wal")] = File(m, "-wal")
    <3>1. \A s \in {"-wal", "-shm"} :
            dir'[Live(s)] = IF dir[Live(s)] = NoFile THEN File(m, s) ELSE dir[Live(s)]
      BY <1>4, <1>4c, <2>2 DEF Parts
    <3>2. \A n \in RestoreNames : dir'[n] = dir[n] \/ dir[n] = NoFile \/ n = Live("-journal")
      BY <1>4, <1>4c
    <3> QED BY <1>1, <1>4, <1>4b, <1>7, <2>1, <3>1, <3>2, OpenedWhole
  <2>4. possible' = possible \cup {dir'}
    BY <1>3, <1>4a, <1>11, ChangedDirectories
  <2>5. \A d \in possible' : Whole(d)'
    BY <1>1, <1>3, <1>11, <2>3, <2>4, AllWholeStays DEF Ordered
  <2> QED BY <1>3, <1>8, <2>3, <2>5 DEF Ordered
<1> QED BY <1>5, <1>6, <1>9, <1>10, <1>11 DEF RestoreInvariant

LEMMA initializeSchemaKeeps ==
  ASSUME RestoreInvariant, initializeSchema
  PROVE  RestoreInvariant'
<1>1. Registers /\ Names /\ Roles /\ Copied /\ RestoredIsServed /\ (OrderedMetadata => Ordered)
  BY DEF RestoreInvariant
<1>2. PICK m : m = next - 1
  OBVIOUS
<1>2a. m \in Nat /\ "" \in Parts /\ "-journal" \in Parts
  BY <1>1, <1>2, RegisterFacts
<1>3. /\ restore # Idle /\ restore \notin Restoring /\ dir[Live("")] = File(m, "") /\ m \notin written
      /\ restored = 0
  <2>1. restore.pc = "starting" /\ Idle.pc = "idle"
    BY DEF initializeSchema, Idle
  <2>2. restore # Idle /\ restore \notin Restoring
    BY <2>1, RestoringFacts
  <2> QED BY <1>1, <1>2, <2>2 DEF Roles
<1>4. dir[Live("")] # NoFile /\ m = dir[Live("")].db
  BY <1>2a, <1>3, FileFacts
<1>5. PICK e : e = WithCompanions(dir, m)
  OBVIOUS
<1>6. /\ serving' = m /\ valid' = valid \cup {m} /\ restore' = Idle
      /\ dir' = [e EXCEPT ![Live("-journal")] = NoFile] /\ possible' = {dir'}
      /\ UNCHANGED <<next, dirty, written, torn, restored>>
  BY <1>4, <1>5 DEF initializeSchema, LiveMain
<1>7. /\ DOMAIN e = RestoreNames /\ m \in 1..(next - 1)
      /\ \A n \in RestoreNames : e[n] = dir[n] \/ dir[n] = NoFile
      /\ \A n \in RestoreNames \ {Live("-wal"), Live("-shm")} : e[n] = dir[n]
      /\ \A s \in {"-wal", "-shm"} : e[Live(s)] = IF dir[Live(s)] = NoFile THEN File(m, s) ELSE dir[Live(s)]
      /\ Sound(e)
  BY <1>1, <1>4, <1>5, Accompanied
<1>8. /\ Sound(dir') /\ dir'[Live("-journal")] = NoFile
      /\ \A n \in RestoreNames \ {Live("-journal")} : dir'[n] = e[n]
  BY <1>2a, <1>6, <1>7, LiveFacts, Emptied
<1>9. Registers'
  BY <1>1, <1>6, <1>7 DEF Registers
<1>10. Names'
  BY <1>1, <1>6, <1>8, NextStays, SoundStays DEF Names
<1>11. dir'[Live("")] = dir[Live("")]
  BY <1>2a, <1>7, <1>8, LiveFacts
<1>12. restore' \notin Restoring
  BY <1>6, RestoringFacts
<1>13. Roles' /\ Copied' /\ RestoredIsServed'
  BY <1>3, <1>6, <1>11, <1>12 DEF Roles, Copied, RestoredIsServed
<1>14. ASSUME OrderedMetadata PROVE Ordered'
  <2>1. Whole(dir)
    BY <1>1, <1>14 DEF Ordered, Names
  <2>2. DOMAIN dir' = RestoreNames
    BY <1>8 DEF Sound
  <2>3. \A s \in {"-wal", "-shm"} : dir'[Live(s)] = IF dir[Live(s)] = NoFile THEN File(m, s) ELSE dir[Live(s)]
    <3>1. \A s \in {"-wal", "-shm"} : Live(s) \in RestoreNames \ {Live("-journal")}
      BY <1>1, LiveFacts, RegisterFacts
    <3> QED BY <1>7, <1>8, <3>1
  <2>4. \A n \in RestoreNames : dir'[n] = dir[n] \/ dir[n] = NoFile \/ n = Live("-journal")
    BY <1>7, <1>8
  <2>5. Whole(dir') /\ dir'[Live("-wal")] = File(m, "-wal")
    BY <1>1, <1>2a, <1>3, <1>8, <1>11, <2>1, <2>2, <2>3, <2>4, OpenedWhole
  <2>6. \A d \in possible' : Whole(d)'
    BY <1>6, <2>5, WholeStays
  <2> QED BY <1>6, <1>12, <2>5, <2>6 DEF Ordered
<1> QED BY <1>9, <1>10, <1>13, <1>14 DEF RestoreInvariant

(* The files of a new database fit their names.                            *)
LEMMA NewDatabase ==
  ASSUME Registers, next <= MaxDatabases, next' = next + 1, NEW a, a = next
  PROVE  /\ a \in Nat /\ a \in 1..MaxDatabases /\ a \in 0..MaxDatabases /\ next' \in Nat /\ next <= next'
         /\ next' - 1 = a /\ a \in 1..(next' - 1) /\ next' \in 1..(MaxDatabases + 1)
         /\ 1..(next - 1) \subseteq 1..(next' - 1) /\ a \notin written
         /\ \A x \in Nat : x <= a => x < next'
<1>1. a \in Nat /\ a >= 1 /\ MaxDatabases \in Nat /\ a <= MaxDatabases /\ a \notin written
  BY RegisterFacts, Bounds
<1>2. PICK b : b = next'
  OBVIOUS
<1>3. b = a + 1
  BY <1>2
<1>4. /\ a \in Nat /\ a \in 1..MaxDatabases /\ a \in 0..MaxDatabases /\ b \in Nat /\ a <= b
      /\ b - 1 = a /\ a \in 1..(b - 1) /\ b \in 1..(MaxDatabases + 1)
      /\ 1..(a - 1) \subseteq 1..(b - 1)
      /\ \A x \in Nat : x <= a => x < b
  BY ONLY <1>1, <1>3
<1> QED BY <1>1, <1>2, <1>4

LEMMA NatFacts == \A x \in Nat : 0 <= x /\ \A y \in 0..x : y \in Nat
OBVIOUS

LEMMA NewFileFits ==
  ASSUME Registers, next <= MaxDatabases, next' = next + 1, NEW a, a = next,
         NEW n \in RestoreNames, n[1] <= a, NEW s \in Parts,
         n[2] = s \/ (n[2] \notin Parts /\ n[1] = a /\ s = "")
  PROVE  Fits(n, File(a, s))'
<1>1. a \in 1..(next' - 1)
  BY NewDatabase
<1>2. n[1] < next'
  <2>1. n[1] \in 0..MaxDatabases
    BY NameParts
  <2>2. n[1] \in Nat
    BY <2>1, Bounds, NatFacts
  <2> QED BY <2>2, NewDatabase
<1>3. File(a, s) \in [db : 1..(next' - 1), part : Parts] /\ File(a, s).part = s
  BY <1>1 DEF File
<1> QED BY <1>2, <1>3 DEF Fits

LEMMA CreateDatabaseKeeps ==
  ASSUME RestoreInvariant, CreateDatabase
  PROVE  RestoreInvariant'
<1>1. Registers /\ Names /\ Roles /\ Copied /\ RestoredIsServed /\ (OrderedMetadata => Ordered)
  BY DEF RestoreInvariant
<1>2. PICK a : a = next
  OBVIOUS
<1> DEFINE op == [x \in {Live(""), Live("-journal")} |-> File(a, x[2])]
<1>3. /\ serving = 0 /\ restore = Idle /\ dir[Live("")] = NoFile
      /\ \A i \in 2..4 : dir[Live(Suffixes[i])] = NoFile
      /\ next <= MaxDatabases /\ next' = next + 1 /\ Change(op) /\ restore' = [pc |-> "starting"]
      /\ UNCHANGED <<valid, dirty, written, torn, serving, restored>>
  BY <1>2 DEF CreateDatabase, Stopped, Exists, Refused, OrphanSidecar, databases
<1>4. /\ a \in Nat /\ next' \in Nat /\ next <= next' /\ next' - 1 = a
      /\ next' \in 1..(MaxDatabases + 1)
      /\ 1..(next - 1) \subseteq 1..(next' - 1) /\ a \notin written
  BY <1>1, <1>2, <1>3, NewDatabase
<1>5. "" \in Parts /\ "-wal" \in Parts /\ "-shm" \in Parts /\ "-journal" \in Parts
  BY <1>1, RegisterFacts
<1>6. /\ DOMAIN op = {Live(""), Live("-journal")}
      /\ op[Live("")] = File(a, "") /\ op[Live("-journal")] = File(a, "-journal")
  BY <1>5, LiveFacts
<1> HIDE DEF op
<1>7. \A n \in DOMAIN op \cap RestoreNames : op[n] = NoFile \/ Fits(n, op[n])'
  <2>1. ASSUME NEW s \in {"", "-journal"} PROVE Fits(Live(s), File(a, s))'
    <3>1. s \in Parts
      BY <1>5
    <3>2. Live(s) \in RestoreNames /\ Live(s)[1] = 0 /\ Live(s)[2] = s
      BY <3>1, LiveFacts
    <3>3. Live(s)[1] <= a
      <4>1. a \in Nat
        BY <1>4
      <4>2. 0 <= a
        BY <4>1, NatFacts
      <4> QED BY <3>2, <4>2
    <3> QED BY <1>1, <1>2, <1>3, <3>1, <3>2, <3>3, NewFileFits
  <2> QED BY <1>6, <2>1
<1>8. Names'
  BY <1>1, <1>3, <1>4, <1>7, ChangeKeepsNames
<1>9. Registers'
  BY <1>1, <1>3, <1>4 DEF Registers
<1>10. dir \in possible /\ DOMAIN dir = RestoreNames /\ DOMAIN dir' = RestoreNames
  BY <1>1, <1>8, DirTyped DEF Names, Sound
<1>11. /\ dir'[Live("")] = File(a, "") /\ dir'[Live("-journal")] = File(a, "-journal")
       /\ \A n \in RestoreNames \ {Live(""), Live("-journal")} : dir'[n] = dir[n]
  <2>1. \A n \in RestoreNames : dir'[n] = IF n \in DOMAIN op THEN op[n] ELSE dir[n]
    <3>1. dir' = Apply(op, dir)
      BY <1>3, <1>10, ChangedDirectories
    <3> QED BY <1>10, <3>1, AppliedEntry
  <2> QED BY <1>5, <1>6, <2>1, LiveFacts
<1>12. restore' \notin Restoring
  BY <1>3, RestoringFacts
<1>13. restored = 0
  BY <1>1, <1>3, <1>4, <1>5, <1>10, RegisterFacts, FileFacts DEF RestoredIsServed, Roles
<1>14. Roles' /\ Copied' /\ RestoredIsServed'
  BY <1>3, <1>4, <1>11, <1>12, <1>13 DEF Roles, Copied, RestoredIsServed
<1>15. ASSUME OrderedMetadata PROVE Ordered'
  <2>1. (\A d \in possible : Whole(d)) /\ Whole(dir)
    BY <1>1, <1>15 DEF Ordered, Names
  <2>2. dir[Live("-wal")] = NoFile /\ dir[Live("-shm")] = NoFile /\ dir[Live("-journal")] = NoFile
    <3>1. 2 \in 2..4 /\ 3 \in 2..4 /\ 4 \in 2..4
      OBVIOUS
    <3>2. dir[Live(Suffixes[2])] = NoFile /\ dir[Live(Suffixes[3])] = NoFile /\ dir[Live(Suffixes[4])] = NoFile
      BY <1>3, <3>1
    <3> QED BY <3>2, SuffixFacts
  <2>3. Survive(dir')
    <3>1. \A n \in RestoreNames : dir[n] # NoFile => dir'[n] = dir[n]
      BY <1>3, <1>11, <2>2
    <3> QED BY <1>1, <1>10, <2>1, <3>1, SurviveMoves DEF Whole
  <2>4. dir'[Live("-wal")] = NoFile /\ dir'[Live("-shm")] = NoFile
    BY <1>5, <1>11, <2>2, LiveFacts
  <2>5. File(a, "").db = a
    BY <1>4, <1>5, FileFacts
  <2>6. Companions(dir')
    BY <1>11, <2>4, <2>5 DEF Companions, Parts
  <2>7. Sees(dir')
    BY <1>1, <1>4, <1>11, <2>5 DEF Sees, Registers
  <2>8. \A d \in possible' : Whole(d)'
    BY <1>3, <1>10, <1>15, <2>1, <2>3, <2>6, <2>7, ChangedDirectories, AllWholeStays DEF Whole
  <2> QED BY <1>3, <1>12, <2>8 DEF Ordered
<1> QED BY <1>8, <1>9, <1>14, <1>15 DEF RestoreInvariant

-----------------------------------------------------------------------------
(* The restore command.                                                    *)

LEMMA FromIs ==
  /\ From(1) = Parts /\ From(2) = Parts \ {""}
  /\ From(3) = {"-shm", "-journal"} /\ From(4) = {"-journal"}
<1>1. 1..4 = {1, 2, 3, 4} /\ 2..4 = {2, 3, 4} /\ 3..4 = {3, 4} /\ 4..4 = {4}
  OBVIOUS
<1>2. /\ Suffixes[1] = "" /\ Suffixes[2] = "-wal" /\ Suffixes[3] = "-shm" /\ Suffixes[4] = "-journal"
  BY SuffixFacts
<1>3. From(1) = Parts
  BY <1>1, <1>2 DEF From, Parts
<1>4. From(2) = Parts \ {""}
  BY <1>1, <1>2 DEF From, Parts
<1>5. From(3) = {"-shm", "-journal"}
  BY <1>1, <1>2 DEF From, Parts
<1>6. From(4) = {"-journal"}
  BY <1>1, <1>2 DEF From, Parts
<1> QED BY <1>3, <1>4, <1>5, <1>6

LEMMA NotFirst == \A i \in 2..4 : i \in 1..4 /\ i # 1
OBVIOUS

LEMMA FromFacts ==
  ASSUME NEW i \in 1..4
  PROVE  /\ From(i) \subseteq Parts /\ Suffixes[i] \in From(i) /\ Suffixes[i] \in Parts
         /\ i = 1 <=> Suffixes[i] = ""
         /\ i # 1 => "" \notin From(i)
         /\ i # 4 => i + 1 \in 1..4 /\ From(i + 1) = From(i) \ {Suffixes[i]}
         /\ i = 4 => From(i) = {Suffixes[i]}
<1>1. i = 1 \/ i = 2 \/ i = 3 \/ i = 4
  OBVIOUS
<1>3. /\ Suffixes[1] = "" /\ Suffixes[2] = "-wal" /\ Suffixes[3] = "-shm" /\ Suffixes[4] = "-journal"
  BY SuffixFacts
<1>4. Parts = {"", "-wal", "-shm", "-journal"}
  BY DEF Parts
<1>5. CASE i = 1
  <2>1. From(i) = From(1) /\ Suffixes[i] = Suffixes[1]
    BY <1>5
  <2>2. i + 1 = 2 /\ i + 1 \in 1..4
    BY <1>5
  <2>3. From(i + 1) = From(2)
    BY <2>2
  <2> QED BY <1>3, <1>4, <1>5, <2>1, <2>2, <2>3, FromIs
<1>6. CASE i = 2
  <2>1. From(i) = From(2) /\ Suffixes[i] = Suffixes[2]
    BY <1>6
  <2>2. i + 1 = 3 /\ i + 1 \in 1..4
    BY <1>6
  <2>3. From(i + 1) = From(3)
    BY <2>2
  <2> QED BY <1>3, <1>4, <1>6, <2>1, <2>2, <2>3, FromIs
<1>7. CASE i = 3
  <2>1. From(i) = From(3) /\ Suffixes[i] = Suffixes[3]
    BY <1>7
  <2>2. i + 1 = 4 /\ i + 1 \in 1..4
    BY <1>7
  <2>3. From(i + 1) = From(4)
    BY <2>2
  <2> QED BY <1>3, <1>4, <1>7, <2>1, <2>2, <2>3, FromIs
<1>8. CASE i = 4
  BY <1>3, <1>4, <1>8, FromIs
<1> QED BY <1>1, <1>5, <1>6, <1>7, <1>8

LEMMA RestoreBeginKeeps ==
  ASSUME RestoreInvariant, RestoreBegin
  PROVE  RestoreInvariant'
<1>1. Registers /\ Names /\ Roles /\ Copied /\ RestoredIsServed /\ (OrderedMetadata => Ordered)
  BY DEF RestoreInvariant
<1>2. PICK a : a = next
  OBVIOUS
<1>2a. PICK b : b = destinationExists
  OBVIOUS
<1> DEFINE op == [x \in {Tmp(a)} |-> File(a, "")]
<1>3. /\ serving = 0 /\ restore = Idle /\ next <= MaxDatabases /\ next' = next + 1 /\ Change(op)
      /\ restore' = [pc |-> "copied", k |-> a, i |-> 1, moved |-> <<>>, replace |-> b]
      /\ restored' = 0
      /\ UNCHANGED <<valid, dirty, written, torn, serving>>
  BY <1>2, <1>2a DEF RestoreBegin, Stopped, Create, databases
<1>4. /\ a \in Nat /\ a \in 1..MaxDatabases /\ a \in 0..MaxDatabases
      /\ next' \in Nat /\ next <= next' /\ next' - 1 = a
      /\ next' \in 1..(MaxDatabases + 1)
      /\ 1..(next - 1) \subseteq 1..(next' - 1) /\ a \notin written
  BY <1>1, <1>2, <1>3, NewDatabase
<1>5. "" \in Parts /\ "-wal" \in Parts /\ "-shm" \in Parts /\ "-journal" \in Parts
  BY <1>1, RegisterFacts
<1>6. Tmp(a) \in RestoreNames /\ Tmp(a)[1] = a /\ Tmp(a)[2] \notin Parts
  BY <1>4, <1>5, Places
<1>7. DOMAIN op = {Tmp(a)} /\ op[Tmp(a)] = File(a, "")
  OBVIOUS
<1> HIDE DEF op
<1>8. \A n \in DOMAIN op \cap RestoreNames : op[n] = NoFile \/ Fits(n, op[n])'
  <2>1. Tmp(a)[1] <= a
    BY <1>4, <1>6
  <2>2. Fits(Tmp(a), File(a, ""))'
    BY <1>1, <1>2, <1>3, <1>5, <1>6, <2>1, NewFileFits
  <2> QED BY <1>7, <2>2
<1>9. Names'
  BY <1>1, <1>3, <1>4, <1>8, ChangeKeepsNames
<1>10. Registers'
  BY <1>1, <1>3, <1>4 DEF Registers
<1>11. dir \in possible /\ DOMAIN dir = RestoreNames /\ DOMAIN dir' = RestoreNames /\ Sound(dir)
  BY <1>1, <1>9, DirTyped DEF Names, Sound
<1>12. /\ dir'[Tmp(a)] = File(a, "")
       /\ \A n \in RestoreNames \ {Tmp(a)} : dir'[n] = dir[n]
  <2>1. dir' = Apply(op, dir)
    BY <1>3, <1>11, ChangedDirectories
  <2>2. \A n \in RestoreNames : dir'[n] = IF n \in DOMAIN op THEN op[n] ELSE dir[n]
    BY <1>11, <2>1, AppliedEntry
  <2> QED BY <1>6, <1>7, <2>2
<1>13. restore' \in Restoring
  <2>1. b \in BOOLEAN
    BY <1>2a DEF destinationExists
  <2>2. <<>> \in Seq(Parts) /\ 1 \in 1..4
    OBVIOUS
  <2> QED BY <1>3, <1>4, <2>1, <2>2 DEF Restoring
<1>14. /\ restore'.pc = "copied" /\ restore'.k = a /\ restore'.i = 1 /\ restore'.moved = <<>>
       /\ restore'.replace = b
  BY <1>3
<1>15. Roles'
  BY <1>3, <1>4, <1>13, <1>14 DEF Roles
<1>16. Copied' /\ RestoredIsServed'
  BY <1>3, <1>12, <1>14 DEF Copied, RestoredIsServed
<1>17. ASSUME OrderedMetadata PROVE Ordered'
  <2>1. (\A d \in possible : Whole(d)) /\ Whole(dir)
    BY <1>1, <1>17 DEF Ordered, Names
  <2>2. ASSUME NEW n \in RestoreNames, dir[n] # NoFile PROVE n[1] # a
    <3>1. n[1] < next /\ n[1] \in 0..MaxDatabases
      BY <1>11, <2>2, NameParts DEF Sound
    <3>2. n[1] \in Nat /\ a \in Nat
      BY <1>4, <3>1, Bounds, NatFacts
    <3> QED BY <1>2, <3>1, <3>2
  <2>3. \A s \in Parts : /\ dir'[Live(s)] = dir[Live(s)]
                         /\ dir'[Rollback(a, s)] = NoFile
    <3>1. ASSUME NEW s \in Parts
          PROVE  dir'[Live(s)] = dir[Live(s)] /\ dir'[Rollback(a, s)] = NoFile
      <4>1. /\ Live(s) \in RestoreNames /\ Live(s)[2] = s
            /\ Rollback(a, s) \in RestoreNames /\ Rollback(a, s)[1] = a /\ Rollback(a, s)[2] = s
        BY <1>4, Places
      <4>2. Live(s) # Tmp(a) /\ Rollback(a, s) # Tmp(a)
        BY <1>6, <4>1
      <4> QED BY <1>12, <2>2, <4>1, <4>2
    <3> QED BY <3>1
  <2>4. Survive(dir')
    <3>1. \A n \in RestoreNames : dir[n] # NoFile => dir'[n] = dir[n]
      BY <1>6, <1>12, <2>2
    <3> QED BY <1>1, <1>11, <2>1, <3>1, SurviveMoves DEF Whole
  <2>5. Companions(dir') /\ (~torn => Sees(dir'))
    BY <1>5, <2>1, <2>3 DEF Whole, Companions, Sees
  <2>6. \A d \in possible' : Whole(d)'
    BY <1>3, <1>11, <1>17, <2>1, <2>4, <2>5, ChangedDirectories, AllWholeStays DEF Whole
  <2>7. Moved' = {}
    BY <1>14 DEF Moved, Elements
  <2>8. (\A s \in Parts : Original(s) = dir[Live(s)])'
    BY <2>7 DEF Original
  <2>9. Rolled'
    <3>1. MovedInOrder'
      <4>1. DOMAIN restore'.moved = {}
        BY <1>14
      <4> QED BY <4>1 DEF MovedInOrder, InOrder
    <3>2. ~b => \A s \in Parts : dir'[Live(s)] = NoFile
      <4>1. ASSUME ~b, NEW s \in Parts PROVE dir[Live(s)] = NoFile
        <5>1. PICK i \in 1..4 : s = Suffixes[i]
          BY SuffixFacts
        <5> QED BY <1>2a, <4>1, <5>1 DEF destinationExists, Exists
      <4> QED BY <2>3, <4>1
    <3>3. (\A s \in Unmoved : s \notin Moved /\ dir[Rollback(restore.k, s)] = NoFile)'
      BY <1>14, <2>3, <2>7 DEF Unmoved, From
    <3> QED BY <1>14, <2>7, <3>1, <3>2, <3>3 DEF Rolled
  <2>10. Together'
    <3>1. Companions(dir') /\ (~torn' => Sees(dir'))
      BY <1>3, <2>5
    <3>2. (Original("") = dir[Live("")] /\ Original("-wal") = dir[Live("-wal")])'
      BY <1>5, <2>8
    <3> QED BY <1>3, <2>8, <3>1, <3>2 DEF Together, Companions, Sees
  <2> QED BY <1>3, <2>6, <2>9, <2>10 DEF Ordered
<1> QED BY <1>9, <1>10, <1>15, <1>16, <1>17 DEF RestoreInvariant

LEMMA Distinct ==
  ASSUME NEW k \in 1..MaxDatabases
  PROVE  /\ k \in 0..MaxDatabases /\ k \in Nat /\ k # 0 /\ Tmp(k) \in RestoreNames
         /\ \A s \in Parts :
              /\ Live(s) \in RestoreNames /\ Rollback(k, s) \in RestoreNames
              /\ Live(s) # Tmp(k) /\ Rollback(k, s) # Tmp(k)
         /\ \A s, t \in Parts :
              /\ Live(s) # Rollback(k, t)
              /\ Live(s) = Live(t) => s = t
              /\ Rollback(k, s) = Rollback(k, t) => s = t
<1>1. k \in 0..MaxDatabases /\ k \in Nat /\ k # 0
  BY Bounds
<1>2. \A s \in Parts :
        /\ Live(s) \in RestoreNames /\ Rollback(k, s) \in RestoreNames
        /\ Live(s) # Tmp(k) /\ Rollback(k, s) # Tmp(k)
  BY <1>1, Places
<1>3. \A s, t \in Parts : Live(s)[1] = 0 /\ Live(s)[2] = s /\ Rollback(k, t)[1] = k /\ Rollback(k, t)[2] = t
  BY <1>1, Places
<1>4. Tmp(k) \in RestoreNames
  BY <1>1, Places, SuffixFacts DEF Parts
<1>5. \A s, t \in Parts :
        /\ Live(s) # Rollback(k, t)
        /\ Live(s) = Live(t) => s = t
        /\ Rollback(k, s) = Rollback(k, t) => s = t
  BY <1>1, <1>3
<1> QED BY <1>1, <1>2, <1>4, <1>5

(* What a step of a running restore starts from.                           *)
LEMMA AtWork ==
  ASSUME RestoreInvariant, restore.pc \notin {"idle", "starting"}, NEW k, k = restore.k
  PROVE  /\ Registers /\ Names /\ Copied
         /\ restore \in Restoring /\ k \in 1..MaxDatabases /\ k = next - 1 /\ k \notin written /\ k \notin dirty
         /\ k \in Nat /\ k < next /\ k \in 1..(next - 1)
         /\ serving = 0 /\ restored = 0
         /\ dir \in possible /\ Sound(dir) /\ DOMAIN dir = RestoreNames
         /\ OrderedMetadata => /\ \A d \in possible : Whole(d)
                               /\ Whole(dir)
                               /\ restore.pc # "published" => Rolled /\ Together
<1>1. Registers /\ Names /\ Roles /\ Copied /\ (OrderedMetadata => Ordered)
  BY DEF RestoreInvariant
<1>2. restore \in Restoring /\ k = next - 1 /\ k \notin written /\ serving = 0 /\ restored = 0
  BY <1>1, PcFacts
<1>3. k \in 1..MaxDatabases /\ k \in Nat
  BY <1>2, RestoringFacts
<1>4. k < next /\ k \in 1..(next - 1)
  <2>1. next \in Nat /\ k # 0
    BY <1>1, <1>3, RegisterFacts, Distinct
  <2> QED BY <1>2, <1>3, <2>1
<1>5. dir \in possible /\ Sound(dir) /\ DOMAIN dir = RestoreNames
  BY <1>1, DirTyped DEF Names
<1>6. k \notin dirty
  BY <1>1, <1>2 DEF Registers
<1> QED BY <1>1, <1>2, <1>3, <1>4, <1>5, <1>6 DEF Ordered

LEMMA SyncCopyKeeps ==
  ASSUME RestoreInvariant, SyncCopy
  PROVE  RestoreInvariant'
<1>1. PICK k : k = restore.k
  OBVIOUS
<1>2. restore.pc = "copied"
  BY DEF SyncCopy, At
<1>3. /\ Registers /\ Names /\ Copied
      /\ restore \in Restoring /\ k = next - 1 /\ k \notin written
      /\ k \in 1..(next - 1)
      /\ serving = 0 /\ restored = 0
      /\ OrderedMetadata => (\A d \in possible : Whole(d)) /\ Rolled /\ Together
  BY <1>1, <1>2, AtWork
<1>4. PICK p \in {"preserve", "publish"} : /\ restore' = [restore EXCEPT !.pc = p]
                                           /\ p = IF restore.replace THEN "preserve" ELSE "publish"
  BY DEF SyncCopy
<1>5. /\ valid' = valid \cup {k} /\ dir' = dir /\ possible' = possible
      /\ UNCHANGED <<next, serving, dirty, written, restored, torn, entries>>
  BY <1>1 DEF SyncCopy, entries
<1>6. /\ restore' \in Restoring /\ restore'.pc = p /\ restore'.k = k /\ restore'.i = restore.i
      /\ restore'.moved = restore.moved
  BY <1>1, <1>3, <1>4 DEF Restoring
<1>7. Registers'
  BY <1>3, <1>5 DEF Registers
<1>8. Names'
  BY <1>3, <1>5, EntriesStay
<1>9. Roles' /\ RestoredIsServed'
  BY <1>3, <1>5, <1>6 DEF Roles, RestoredIsServed
<1>10. Copied'
  BY <1>1, <1>2, <1>3, <1>5, <1>6 DEF Copied
<1>11. ASSUME OrderedMetadata PROVE Ordered'
  <2>1. \A d \in possible' : Whole(d)'
    BY <1>3, <1>5, <1>11, WholeStays
  <2>2. Moved' = Moved
    BY <1>6 DEF Moved
  <2>3. \A s : Original(s)' = Original(s)
    BY <1>1, <1>5, <1>6, <2>2 DEF Original
  <2>4. Together'
    BY <1>3, <1>5, <1>11, <2>3 DEF Together
  <2>5. /\ MovedInOrder' /\ restore.moved = <<>> /\ restore.i = 1
        /\ ~restore.replace => \A s \in Parts : dir[Live(s)] = NoFile
        /\ \A s \in Unmoved : s \notin Moved /\ dir[Rollback(k, s)] = NoFile
        /\ \A s \in Moved : dir[Live(s)] = NoFile /\ dir[Rollback(restore.k, s)] # NoFile
    BY <1>1, <1>2, <1>3, <1>6, <1>11 DEF Rolled, MovedInOrder
  <2>6. Unmoved' = Parts /\ Unmoved = Parts
    BY <1>6, <2>5, FromIs DEF Unmoved
  <2>7. Rolled'
    BY <1>1, <1>4, <1>5, <1>6, <2>2, <2>5, <2>6 DEF Rolled
  <2> QED BY <1>3, <1>5, <2>1, <2>4, <2>7 DEF Ordered
<1> QED BY <1>7, <1>8, <1>9, <1>10, <1>11 DEF RestoreInvariant

LEMMA PublishKeeps ==
  ASSUME RestoreInvariant, Publish
  PROVE  RestoreInvariant'
<1>1. PICK k : k = restore.k
  OBVIOUS
<1>2. restore.pc = "publish"
  BY DEF Publish, At
<1>3. /\ Registers /\ Names /\ Copied
      /\ restore \in Restoring /\ k \in 1..MaxDatabases /\ k = next - 1 /\ k \notin written /\ k \notin dirty
      /\ k \in Nat /\ k < next /\ k \in 1..(next - 1)
      /\ serving = 0 /\ restored = 0 /\ DOMAIN dir = RestoreNames
      /\ OrderedMetadata => (\A d \in possible : Whole(d)) /\ Whole(dir) /\ Rolled
  BY <1>1, <1>2, AtWork
<1>4. Rename(Tmp(k), Live("")) /\ UNCHANGED <<next, valid, dirty, written, torn, serving, restored>>
  BY <1>1 DEF Publish, databases
<1>5. restore' \in Restoring /\ restore'.pc = "published" /\ restore'.k = k
  BY <1>1, <1>3 DEF Publish, Restoring
<1>6. "" \in Parts /\ "-wal" \in Parts
  BY <1>3, RegisterFacts
<1>7. dir[Tmp(k)] = File(k, "") /\ k \in valid
  BY <1>1, <1>2, <1>3 DEF Copied
<1>8. /\ Tmp(k) \in RestoreNames /\ Live("") \in RestoreNames /\ Tmp(k) # Live("")
      /\ Live("")[1] = 0 /\ Live("")[2] = "" /\ File(k, "") # NoFile
      /\ File(k, "").part = "" /\ File(k, "").db = k
  BY <1>3, <1>6, Distinct, LiveFacts, FileFacts
<1>9. Fits(Live(""), File(k, ""))
  <2>1. 0 < next
    <3>1. next \in Nat /\ next >= 1
      BY <1>3, RegisterFacts
    <3> QED BY ONLY <3>1
  <2>2. File(k, "") \in [db : 1..(next - 1), part : Parts]
    BY <1>3, <1>6 DEF File
  <2> QED BY <1>6, <1>8, <2>1, <2>2 DEF Fits
<1>10. /\ Names'
       /\ dir'[Live("")] = File(k, "") /\ dir'[Tmp(k)] = NoFile
       /\ \A n \in RestoreNames \ {Tmp(k), Live("")} : dir'[n] = dir[n]
       /\ OrderedMetadata => possible' = possible \cup {dir'}
  BY <1>3, <1>4, <1>7, <1>8, <1>9, Renamed
<1>11. Registers'
  BY <1>3, <1>4 DEF Registers
<1>12. Roles' /\ RestoredIsServed' /\ Copied'
  BY <1>3, <1>4, <1>5, <1>7, <1>10 DEF Roles, RestoredIsServed, Copied
<1>13. ASSUME OrderedMetadata PROVE Ordered'
  <2>1. \A s \in Parts : dir[Live(s)] = NoFile
    BY <1>2, <1>3, <1>13 DEF Rolled
  <2>2. \A s \in Parts \ {""} : dir'[Live(s)] = NoFile
    BY <1>3, <1>6, <1>10, <2>1, Distinct
  <2>3. Survive(dir')
    <3>1. DOMAIN dir' = RestoreNames
      BY <1>10 DEF Names, Sound
    <3>2. \A n \in RestoreNames : dir[n] # NoFile => \E m \in RestoreNames : dir'[m] = dir[n]
      BY <1>6, <1>7, <1>8, <1>10, <2>1
    <3> QED BY <1>3, <1>13, <3>1, <3>2, SurviveMoves DEF Whole
  <2>4. Companions(dir') /\ Sees(dir')
    BY <1>3, <1>8, <1>10, <2>2 DEF Companions, Sees
  <2>5. \A d \in possible' : Whole(d)'
    BY <1>3, <1>4, <1>10, <1>13, <2>3, <2>4, AllWholeStays DEF Whole
  <2> QED BY <1>3, <1>4, <1>5, <2>5 DEF Ordered
<1> QED BY <1>10, <1>11, <1>12, <1>13 DEF RestoreInvariant

LEMMA SyncDirectoryKeeps ==
  ASSUME RestoreInvariant, SyncDirectory
  PROVE  RestoreInvariant'
<1>1. PICK k : k = restore.k
  OBVIOUS
<1>2. restore.pc = "published"
  BY DEF SyncDirectory, At
<1>3. /\ Registers /\ Names /\ Copied /\ restore \in Restoring /\ serving = 0
      /\ dir \in possible /\ (OrderedMetadata => \A d \in possible : Whole(d))
  BY <1>1, <1>2, AtWork
<1>4. /\ dir' = dir /\ possible' = {dir} /\ restored' = k /\ restore' = Idle
      /\ UNCHANGED <<next, valid, dirty, written, torn, serving>>
  BY <1>1 DEF SyncDirectory, SyncDir, databases
<1>5. restore' \notin Restoring
  BY <1>4, RestoringFacts
<1>6. dir[Live("")] = File(k, "") /\ k \in valid
  BY <1>1, <1>2, <1>3 DEF Copied
<1>7. Registers'
  BY <1>3, <1>4 DEF Registers
<1>8. Names'
  BY <1>3, <1>4, NextStays, SoundStays DEF Names
<1>9. Roles' /\ RestoredIsServed' /\ Copied'
  BY <1>3, <1>4, <1>5, <1>6 DEF Roles, RestoredIsServed, Copied
<1>10. ASSUME OrderedMetadata PROVE Ordered'
  BY <1>3, <1>4, <1>5, <1>10, WholeStays DEF Ordered
<1> QED BY <1>7, <1>8, <1>9, <1>10 DEF RestoreInvariant

(* The deferred removal of the temporary file.                             *)
LEMMA GivenUp ==
  ASSUME RestoreInvariant, restore.pc \notin {"idle", "starting", "published"}, NEW k, k = restore.k,
         Remove(Tmp(k)), restore' = Idle,
         UNCHANGED <<next, valid, dirty, written, torn, serving, restored>>
  PROVE  RestoreInvariant'
<1>1. /\ Registers /\ Names /\ Copied
      /\ restore \in Restoring /\ k \in 1..MaxDatabases /\ k \notin written /\ k \in Nat
      /\ serving = 0 /\ restored = 0 /\ DOMAIN dir = RestoreNames
      /\ OrderedMetadata => (\A d \in possible : Whole(d)) /\ Whole(dir)
  BY AtWork
<1>2. restore' \notin Restoring
  BY RestoringFacts
<1>3. "" \in Parts /\ "-wal" \in Parts
  BY <1>1, RegisterFacts
<1>4. Tmp(k) \in RestoreNames /\ \A s \in Parts : Live(s) \in RestoreNames \ {Tmp(k)}
  BY <1>1, Distinct
<1>5. /\ Names' /\ dir'[Tmp(k)] = NoFile
      /\ \A n \in RestoreNames \ {Tmp(k)} : dir'[n] = dir[n]
      /\ OrderedMetadata => possible' = possible \cup {dir'}
  BY <1>1, <1>4, Removed
<1>6. Registers'
  BY <1>1 DEF Registers
<1>7. Roles' /\ RestoredIsServed' /\ Copied'
  BY <1>1, <1>2 DEF Roles, RestoredIsServed, Copied
<1>8. ASSUME OrderedMetadata PROVE Ordered'
  <2>1. \A s \in Parts : dir'[Live(s)] = dir[Live(s)]
    BY <1>4, <1>5
  <2>2. Survive(dir')
    <3>1. DOMAIN dir' = RestoreNames
      BY <1>5 DEF Names, Sound
    <3>2. dir[Tmp(k)].db = k
      <4>1. dir[Tmp(k)] = File(k, "") /\ File(k, "").db = k
        BY <1>1, <1>3, FileFacts DEF Copied
      <4> QED BY <4>1
    <3>3. \A n \in RestoreNames : dir[n].db \in written => dir'[n] = dir[n]
      BY <1>1, <1>5, <3>2
    <3> QED BY <1>1, <1>8, <3>1, <3>3, SurviveMoves DEF Whole
  <2>3. Companions(dir') /\ (~torn => Sees(dir'))
    BY <1>1, <1>3, <1>8, <2>1 DEF Whole, Companions, Sees
  <2>4. \A d \in possible' : Whole(d)'
    BY <1>1, <1>5, <1>8, <2>2, <2>3, AllWholeStays DEF Whole
  <2> QED BY <1>1, <1>2, <2>4 DEF Ordered
<1> QED BY <1>5, <1>6, <1>7, <1>8 DEF RestoreInvariant

LEMMA UndoDoneKeeps ==
  ASSUME RestoreInvariant, UndoDone
  PROVE  RestoreInvariant'
<1>1. /\ restore.pc = "undo" /\ Remove(Tmp(restore.k)) /\ restore' = Idle
      /\ UNCHANGED <<next, valid, dirty, written, torn, serving, restored>>
  BY DEF UndoDone, At, databases
<1> QED BY <1>1, GivenUp

LEMMA RestoreFailsKeeps ==
  ASSUME RestoreInvariant, RestoreFails
  PROVE  RestoreInvariant'
<1>1. UNCHANGED <<next, valid, dirty, written, torn, serving, restored>>
  BY DEF RestoreFails, databases
<1>2. CASE restore.pc \in {"copied", "preserve"} /\ Remove(Tmp(restore.k)) /\ restore' = Idle
  BY <1>1, <1>2, GivenUp
<1>3. CASE At("published") /\ restore' = Idle /\ UNCHANGED entries
  <2>1. restore.pc = "published"
    BY <1>3 DEF At
  <2>2. /\ Registers /\ Names /\ serving = 0 /\ restored = 0
        /\ (OrderedMetadata => \A d \in possible : Whole(d))
    BY <2>1, AtWork
  <2>3. Names' /\ dir' = dir /\ possible' = possible
    BY <1>1, <1>3, <2>2, EntriesStay
  <2>4. restore' \notin Restoring
    BY <1>3, RestoringFacts
  <2>5. Registers'
    BY <1>1, <2>2 DEF Registers
  <2>6. Roles' /\ RestoredIsServed' /\ Copied'
    BY <1>1, <1>3, <2>2, <2>4 DEF Roles, RestoredIsServed, Copied
  <2>7. ASSUME OrderedMetadata PROVE Ordered'
    BY <1>1, <2>2, <2>3, <2>4, <2>7, WholeStays DEF Ordered
  <2> QED BY <2>3, <2>5, <2>6, <2>7 DEF RestoreInvariant
<1>4. CASE /\ At("publish") \/ (At("preserve") /\ Exists(Live(Suffixes[restore.i])))
           /\ restore' = [restore EXCEPT !.pc = "undo"]
           /\ UNCHANGED entries
  <2>1. restore.pc \in {"publish", "preserve"}
    BY <1>4 DEF At
  <2>2. PICK k : k = restore.k
    OBVIOUS
  <2>3. /\ Registers /\ Names /\ Copied /\ restore \in Restoring /\ k = next - 1 /\ k \notin written
        /\ serving = 0 /\ restored = 0
        /\ (OrderedMetadata => (\A d \in possible : Whole(d)) /\ Rolled /\ Together)
    BY <2>1, <2>2, AtWork
  <2>4. Names' /\ dir' = dir /\ possible' = possible
    BY <1>1, <1>4, <2>3, EntriesStay
  <2>5. /\ restore' \in Restoring /\ restore'.pc = "undo" /\ restore'.k = k
        /\ restore'.moved = restore.moved
    BY <1>4, <2>2, <2>3 DEF Restoring
  <2>6. Registers'
    BY <1>1, <2>3 DEF Registers
  <2>7. Roles' /\ RestoredIsServed' /\ Copied'
    BY <1>1, <2>1, <2>2, <2>3, <2>4, <2>5 DEF Roles, RestoredIsServed, Copied
  <2>8. ASSUME OrderedMetadata PROVE Ordered'
    <3>1. \A d \in possible' : Whole(d)'
      BY <1>1, <2>3, <2>4, <2>8, WholeStays
    <3>2. Moved' = Moved
      BY <2>5 DEF Moved
    <3>3. \A s : Original(s)' = Original(s)
      BY <2>2, <2>4, <2>5, <3>2 DEF Original
    <3>4. Together'
      BY <1>1, <2>3, <2>4, <2>8, <3>3 DEF Together
    <3>5. MovedInOrder'
      BY <2>3, <2>5, <2>8 DEF Rolled, MovedInOrder
    <3>6. Rolled'
      BY <2>2, <2>3, <2>4, <2>5, <2>8, <3>2, <3>5 DEF Rolled
    <3> QED BY <1>1, <2>3, <3>1, <3>4, <3>6 DEF Ordered
  <2> QED BY <2>4, <2>6, <2>7, <2>8 DEF RestoreInvariant
<1> QED BY <1>2, <1>3, <1>4 DEF RestoreFails

LEMMA TogetherStays ==
  ASSUME Together, UNCHANGED dirty, torn => torn',
         \A s \in Parts : /\ Original(s)' = Original(s)
                          /\ dir'[Live(s)] \in {dir[Live(s)], Original(s), NoFile}
  PROVE  Together'
<1>1. "" \in Parts /\ "-wal" \in Parts
  BY DEF Parts
<1>2. Original("")' = Original("") /\ Original("-wal")' = Original("-wal")
  BY <1>1
<1> QED BY <1>2 DEF Together

LEMMA ElementsTyped ==
  ASSUME NEW q \in Seq(Parts)
  PROVE  Elements(q) \subseteq Parts
<1>1. DOMAIN q = 1..Len(q) /\ \A j \in 1..Len(q) : q[j] \in Parts
  BY LenProperties, ElementOfSeq
<1> QED BY <1>1 DEF Elements

LEMMA IntervalFacts ==
  ASSUME NEW n \in Nat
  PROVE  /\ \A j \in 1..(n + 1) : j \in 1..n \/ j = n + 1
         /\ \A j \in 1..n : j \in 1..(n + 1) /\ j # n + 1
         /\ n + 1 \in 1..(n + 1)
         /\ n # 0 => n \in 1..n
         /\ n = 0 => n + 1 = 1 /\ 1..n = {}
OBVIOUS

LEMMA AppendedEntries ==
  ASSUME NEW q \in Seq(Parts), NEW s \in Parts
  PROVE  \A j \in 1..Len(q) : Append(q, s)[j] = q[j]
BY AppendProperties

LEMMA Appended ==
  ASSUME NEW q \in Seq(Parts), NEW s \in Parts, s \notin Elements(q), InOrder(q),
         s = "" => Elements(q) = {}, NEW e, e = Append(q, s)
  PROVE  e \in Seq(Parts) /\ Elements(e) = Elements(q) \cup {s} /\ InOrder(e)
<1>1. PICK n \in Nat : n = Len(q)
  BY LenProperties
<1>2. DOMAIN q = 1..n
  BY <1>1, LenProperties
<1>3. e \in Seq(Parts) /\ DOMAIN e = 1..(n + 1) /\ e[n + 1] = s /\ \A j \in 1..n : e[j] = q[j]
  <2>1. Append(q, s) \in Seq(Parts)
    BY AppendProperties
  <2>2. Len(Append(q, s)) = Len(q) + 1
    BY AppendProperties
  <2>3. Append(q, s)[Len(q) + 1] = s
    BY AppendProperties
  <2>4. \A j \in 1..Len(q) : Append(q, s)[j] = q[j]
    BY AppendedEntries
  <2>5. DOMAIN e = 1..Len(e)
    BY <2>1, LenProperties
  <2> QED BY <1>1, <2>1, <2>2, <2>3, <2>4, <2>5
<1>4. /\ \A j \in 1..(n + 1) : j \in 1..n \/ j = n + 1
      /\ \A j \in 1..n : j \in 1..(n + 1) /\ j # n + 1
      /\ n + 1 \in 1..(n + 1)
  BY IntervalFacts
<1>5. Elements(e) = Elements(q) \cup {s}
  BY <1>2, <1>3, <1>4 DEF Elements
<1>6. \A j \in 1..n : q[j] # s
  BY <1>2 DEF Elements
<1>7. s = "" => n + 1 = 1
  <2>1. s = "" => 1..n = {}
    BY <1>2 DEF Elements
  <2>2. (n # 0 => n \in 1..n) /\ (n = 0 => n + 1 = 1)
    BY IntervalFacts
  <2> QED BY <2>1, <2>2
<1>8. InOrder(e)
  <2>1. ASSUME NEW a \in 1..(n + 1), NEW b \in 1..(n + 1), e[a] = e[b] PROVE a = b
    <3>1. CASE a = n + 1
      BY <1>3, <1>4, <1>6, <2>1, <3>1
    <3>2. CASE b = n + 1
      BY <1>3, <1>4, <1>6, <2>1, <3>2
    <3>3. CASE a \in 1..n /\ b \in 1..n
      BY <1>2, <1>3, <2>1, <3>3 DEF InOrder
    <3> QED BY <1>4, <3>1, <3>2, <3>3
  <2>2. ASSUME NEW a \in 1..(n + 1), e[a] = "" PROVE a = 1
    <3>1. CASE a = n + 1
      BY <1>3, <1>7, <2>2, <3>1
    <3>2. CASE a \in 1..n
      BY <1>2, <1>3, <2>2, <3>2 DEF InOrder
    <3> QED BY <1>4, <3>1, <3>2
  <2> QED BY <1>3, <2>1, <2>2 DEF InOrder
<1> QED BY <1>3, <1>5, <1>8

LEMMA WithoutLast ==
  ASSUME NEW q \in Seq(Parts), q # <<>>
  PROVE  /\ SubSeq(q, 1, Len(q) - 1) \in Seq(Parts) /\ q[Len(q)] \in Parts
         /\ \E n, m \in Nat : /\ n = Len(q) /\ n # 0 /\ m = n - 1 /\ DOMAIN q = 1..n /\ n \in 1..n
                              /\ DOMAIN SubSeq(q, 1, Len(q) - 1) = 1..m
                              /\ \A j \in 1..m : SubSeq(q, 1, Len(q) - 1)[j] = q[j]
<1>0. PICK e : e = SubSeq(q, 1, Len(q) - 1)
  OBVIOUS
<1>1. PICK n \in Nat : n = Len(q)
  BY LenProperties
<1>2. n # 0
  BY <1>1, EmptySeq
<1>3. DOMAIN q = 1..n /\ n \in 1..n /\ \A j \in 1..n : q[j] \in Parts
  <2>1. DOMAIN q = 1..n
    BY <1>1, LenProperties
  <2>2. n \in 1..n
    BY <1>2
  <2> QED BY <2>1, <2>2, ElementOfSeq, <1>1
<1>4. PICK m \in Nat : m = n - 1
  BY <1>2
<1>5. e \in Seq(Parts) /\ DOMAIN e = 1..m /\ \A j \in 1..m : e[j] = q[j]
  <2>1. e = [j \in 1..m |-> q[j]]
    <3>1. e = SubSeq(q, 1, m)
      BY <1>0, <1>1, <1>4
    <3>2. SubSeq(q, 1, m) = [j \in 1..m |-> q[j]]
      BY <1>1, <1>3, <1>4
    <3> QED BY <3>1, <3>2
  <2>2. 1..m \subseteq 1..n
    BY <1>4
  <2> QED BY <1>3, <2>1, <2>2
<1> QED BY <1>0, <1>1, <1>2, <1>3, <1>4, <1>5

Newest(q) == q[Len(q)]
Older(q) == SubSeq(q, 1, Len(q) - 1)

LEMMA Shortened ==
  ASSUME NEW q \in Seq(Parts), q # <<>>, InOrder(q)
  PROVE  /\ Newest(q) \in Elements(q) /\ Elements(Older(q)) = Elements(q) \ {Newest(q)} /\ InOrder(Older(q))
         /\ Newest(q) = "" => Elements(Older(q)) = {}
<1>0. PICK s, e : s = q[Len(q)] /\ e = SubSeq(q, 1, Len(q) - 1)
  OBVIOUS
<1>1. PICK n, m \in Nat : /\ n = Len(q) /\ n # 0 /\ m = n - 1 /\ DOMAIN q = 1..n /\ n \in 1..n
                         /\ DOMAIN e = 1..m /\ s = q[n]
                         /\ \A j \in 1..m : e[j] = q[j]
  BY <1>0, WithoutLast
<1>6. 1..n = 1..m \cup {n} /\ n \notin 1..m
  <2>1. n \in Nat /\ n # 0 /\ m = n - 1
    BY <1>1
  <2> QED BY ONLY <2>1
<1>7. \A j \in 1..m : q[j] # s
  BY <1>1, <1>6 DEF InOrder
<1>8. Elements(e) = Elements(q) \ {s}
  <2>1. /\ DOMAIN q = 1..n /\ q[n] = s
        /\ DOMAIN e = 1..m /\ \A j \in 1..m : e[j] = q[j]
    BY <1>1
  <2> QED BY ONLY <1>6, <1>7, <2>1 DEF Elements
<1>9. InOrder(e)
  <2>1. \A j \in 1..m : j \in DOMAIN q
    BY <1>1, <1>6
  <2>2. \A a, b \in 1..m : (q[a] = q[b] => a = b) /\ (q[a] = "" => a = 1)
    BY <2>1 DEF InOrder
  <2>3. DOMAIN e = 1..m /\ \A j \in 1..m : e[j] = q[j]
    BY <1>1
  <2> QED BY ONLY <2>2, <2>3, Zenon DEF InOrder
<1>10. s = "" => Elements(e) = {}
  <2>1. s = "" => n = 1
    BY <1>1 DEF InOrder
  <2>2. n = 1 => 1..m = {}
    <3>1. n \in Nat /\ m = n - 1
      BY <1>1
    <3> QED BY ONLY <3>1
  <2> QED BY <1>1, <2>1, <2>2 DEF Elements
<1>11. s \in Elements(q)
  BY <1>1 DEF Elements
<1> QED BY <1>0, <1>8, <1>9, <1>10, <1>11 DEF Newest, Older

(* A file that is renamed to a name that was free is not lost.             *)
LEMMA MovedSurvive ==
  ASSUME Registers, DOMAIN dir = RestoreNames, DOMAIN dir' = RestoreNames, Survive(dir),
         NEW from \in RestoreNames, NEW to \in RestoreNames, dir[to] = NoFile, dir'[to] = dir[from],
         \A n \in RestoreNames \ {from, to} : dir'[n] = dir[n]
  PROVE  Survive(dir')
<1>1. \A n \in RestoreNames : dir[n] # NoFile => \E m \in RestoreNames : dir'[m] = dir[n]
  OBVIOUS
<1> QED BY <1>1, SurviveMoves

LEMMA PreserveKeeps ==
  ASSUME RestoreInvariant, Preserve
  PROVE  RestoreInvariant'
<1>1. PICK k : k = restore.k
  OBVIOUS
<1>2. PICK q : q = restore.moved
  OBVIOUS
<1>3. PICK i : i = restore.i
  OBVIOUS
<1>4. PICK s : s = Suffixes[i]
  OBVIOUS
<1>5. restore.pc = "preserve"
  BY DEF Preserve, At
<1>6. /\ Registers /\ Names /\ Copied
      /\ restore \in Restoring /\ k \in 1..MaxDatabases /\ k = next - 1 /\ k \notin written
      /\ k \in Nat /\ k < next
      /\ serving = 0 /\ restored = 0 /\ DOMAIN dir = RestoreNames /\ Sound(dir)
      /\ OrderedMetadata => (\A d \in possible : Whole(d)) /\ Whole(dir) /\ Rolled /\ Together
  BY <1>1, <1>5, AtWork
<1>7. i \in 1..4 /\ q \in Seq(Parts) /\ s \in Parts /\ "" \in Parts
  BY <1>2, <1>3, <1>4, <1>6, RestoringFacts, SuffixFacts, RegisterFacts
<1>8. /\ Live(s) \in RestoreNames /\ Rollback(k, s) \in RestoreNames /\ Live(s) # Rollback(k, s)
      /\ Tmp(k) \in RestoreNames /\ Live(s) # Tmp(k) /\ Rollback(k, s) # Tmp(k)
  BY <1>6, <1>7, Distinct
<1>9. PICK p : p = IF i = 4 THEN "publish" ELSE "preserve"
  OBVIOUS
<1>10. PICK j : j = IF i = 4 THEN 4 ELSE i + 1
  OBVIOUS
<1>11. PICK m : m = IF dir[Live(s)] # NoFile THEN Append(q, s) ELSE q
  OBVIOUS
<1>12. /\ restore' = [restore EXCEPT !.pc = p, !.i = j, !.moved = m]
       /\ UNCHANGED <<next, valid, dirty, written, torn, serving, restored>>
  BY <1>2, <1>3, <1>4, <1>9, <1>10, <1>11 DEF Preserve, Exists, databases
<1>12a. IF dir[Live(s)] # NoFile THEN Rename(Live(s), Rollback(k, s)) ELSE UNCHANGED entries
  BY <1>1, <1>3, <1>4 DEF Preserve, Exists
<1>13. m \in Seq(Parts) /\ j \in 1..4 /\ p \in {"publish", "preserve"}
  <2>1. Append(q, s) \in Seq(Parts)
    BY <1>7, AppendProperties
  <2>2. i # 4 => i + 1 \in 1..4
    BY <1>7, FromFacts
  <2>3. 4 \in 1..4
    OBVIOUS
  <2> QED BY <1>7, <1>9, <1>10, <1>11, <2>1, <2>2, <2>3
<1>14. restore' \in Restoring /\ restore'.pc = p /\ restore'.k = k /\ restore'.i = j /\ restore'.moved = m
  BY <1>1, <1>6, <1>12, <1>13 DEF Restoring
<1>15. /\ Names'
       /\ dir'[Live(s)] = NoFile
       /\ dir[Live(s)] # NoFile => dir'[Rollback(k, s)] = dir[Live(s)]
       /\ dir[Live(s)] = NoFile => dir' = dir
       /\ \A n \in RestoreNames \ {Live(s), Rollback(k, s)} : dir'[n] = dir[n]
       /\ OrderedMetadata => \A d \in possible' : d \in possible \/ d = dir'
  <2>1. CASE dir[Live(s)] = NoFile
    BY <1>6, <1>12, <1>12a, <2>1, EntriesStay
  <2>2. CASE dir[Live(s)] # NoFile
    <3>1. PICK f : f = dir[Live(s)]
      OBVIOUS
    <3>2. Fits(Rollback(k, s), f)
      <4>1. f \in [db : 1..(next - 1), part : Parts] /\ f.part = s
        BY <1>6, <1>7, <1>8, <2>2, <3>1, LiveFacts DEF Sound
      <4>2. Rollback(k, s)[1] = k /\ Rollback(k, s)[2] = s
        BY DEF Rollback
      <4> QED BY <1>6, <1>7, <4>1, <4>2 DEF Fits
    <3> QED BY <1>6, <1>8, <1>12, <1>12a, <2>2, <3>1, <3>2, Renamed
  <2> QED BY <2>1, <2>2
<1>16. Registers'
  BY <1>6, <1>12 DEF Registers
<1>17. Roles' /\ RestoredIsServed'
  <2>1. /\ serving' = 0 /\ restored' = 0 /\ restore' \in Restoring /\ restore'.k = next' - 1
        /\ restore'.k \notin written'
    BY <1>6, <1>12, <1>14
  <2> QED BY <2>1 DEF Roles, RestoredIsServed
<1>18. Copied'
  <2>1. dir[Tmp(k)] = File(k, "") /\ k \in valid
    BY <1>1, <1>5, <1>6 DEF Copied
  <2>2. dir'[Tmp(k)] = File(k, "") /\ k \in valid'
    BY <1>8, <1>12, <1>15, <2>1
  <2>3. restore'.k = k /\ restore'.pc # "published"
    BY <1>13, <1>14
  <2> QED BY <2>2, <2>3 DEF Copied
<1>19. ASSUME OrderedMetadata PROVE Ordered'
  <2>1. /\ Whole(dir) /\ \A d \in possible : Whole(d)
        /\ InOrder(q) /\ Moved = Elements(q) /\ Unmoved = From(i)
        /\ \A t \in Elements(q) : dir[Live(t)] = NoFile /\ dir[Rollback(k, t)] # NoFile
        /\ \A t \in Parts \ From(i) : dir[Live(t)] = NoFile
        /\ \A t \in From(i) : t \notin Elements(q) /\ dir[Rollback(k, t)] = NoFile
        /\ Together
    BY <1>1, <1>2, <1>3, <1>5, <1>6, <1>19 DEF Rolled, MovedInOrder, Moved, Unmoved
  <2>2. /\ s \in From(i) /\ (i = 1 <=> s = "") /\ (i # 1 => "" \notin From(i)) /\ From(i) \subseteq Parts
        /\ i # 4 => From(i + 1) = From(i) \ {s}
        /\ i = 4 => From(i) = {s}
    BY <1>4, <1>7, FromFacts
  <2>3. Elements(q) \subseteq Parts
    BY <1>7, ElementsTyped
  <2>4. s = "" => Elements(q) = {}
    BY <2>1, <2>2, <2>3, FromIs
  <2>5. InOrder(m) /\ Elements(m) = IF dir[Live(s)] # NoFile THEN Elements(q) \cup {s} ELSE Elements(q)
    <3>1. CASE dir[Live(s)] # NoFile
      BY <1>7, <1>11, <2>1, <2>2, <2>4, <3>1, Appended
    <3>2. CASE dir[Live(s)] = NoFile
      BY <1>11, <2>1, <3>2
    <3> QED BY <3>1, <3>2
  <2>6. \A t \in Parts \ {s} : dir'[Live(t)] = dir[Live(t)] /\ dir'[Rollback(k, t)] = dir[Rollback(k, t)]
    <3>1. ASSUME NEW t \in Parts, t # s
          PROVE  dir'[Live(t)] = dir[Live(t)] /\ dir'[Rollback(k, t)] = dir[Rollback(k, t)]
      <4>1. /\ Live(t) \in RestoreNames \ {Live(s), Rollback(k, s)}
            /\ Rollback(k, t) \in RestoreNames \ {Live(s), Rollback(k, s)}
        BY <1>6, <1>7, <3>1, Distinct
      <4> QED BY <1>15, <4>1
    <3> QED BY <3>1
  <2>7. Survive(dir')
    <3>1. CASE dir[Live(s)] = NoFile
      BY <1>15, <2>1, <3>1 DEF Whole
    <3>2. CASE dir[Live(s)] # NoFile
      <4>1. DOMAIN dir' = RestoreNames
        BY <1>15 DEF Names, Sound
      <4> QED BY <1>6, <1>8, <1>15, <2>1, <2>2, <3>2, <4>1, MovedSurvive DEF Whole
    <3> QED BY <3>1, <3>2
  <2>8. dir'[Live("")] = NoFile
    <3>1. CASE s = ""
      BY <1>15, <3>1
    <3>2. CASE s # ""
      BY <1>7, <2>1, <2>2, <2>6, <3>2
    <3> QED BY <3>1, <3>2
  <2>9. Companions(dir') /\ Sees(dir')
    BY <2>8 DEF Companions, Sees
  <2>10. \A d \in possible' : Whole(d)'
    BY <1>12, <1>15, <1>19, <2>1, <2>7, <2>9, AllWholeStays DEF Whole
  <2>11. \A t \in Parts : Original(t) = IF t \in Elements(q) THEN dir[Rollback(k, t)] ELSE dir[Live(t)]
    BY <1>1, <2>1 DEF Original
  <2>12. \A t \in Parts : Original(t)' = IF t \in Elements(m) THEN dir'[Rollback(k, t)] ELSE dir'[Live(t)]
    BY <1>14 DEF Original, Moved
  <2>13. ASSUME NEW t \in Parts
         PROVE  Original(t)' = Original(t) /\ dir'[Live(t)] \in {dir[Live(t)], Original(t), NoFile}
    <3>1. CASE t = s
      <4>1. Original(s) = dir[Live(s)]
        BY <1>7, <2>1, <2>2, <2>11
      <4>2. Original(s)' = dir[Live(s)]
        BY <1>7, <1>15, <2>1, <2>2, <2>5, <2>12
      <4> QED BY <1>15, <3>1, <4>1, <4>2
    <3>2. CASE t # s
      BY <2>5, <2>6, <2>11, <2>12, <3>2
    <3> QED BY <3>1, <3>2
  <2>14. Together'
    BY <1>12, <2>1, <2>13, TogetherStays
  <2>15. Rolled'
    <3>1. Moved' = Elements(m) /\ MovedInOrder' /\ Unmoved' = From(j)
      BY <1>14, <2>5 DEF Moved, MovedInOrder, Unmoved
    <3>2. \A t \in Elements(m) : dir'[Live(t)] = NoFile /\ dir'[Rollback(k, t)] # NoFile
      <4>1. ASSUME NEW t \in Elements(m) PROVE dir'[Live(t)] = NoFile /\ dir'[Rollback(k, t)] # NoFile
        <5>1. CASE t = s
          BY <1>15, <2>1, <2>2, <2>5, <4>1, <5>1
        <5>2. CASE t # s
          BY <2>1, <2>3, <2>5, <2>6, <4>1, <5>2
        <5> QED BY <5>1, <5>2
      <4> QED BY <4>1
    <3>3. p = "publish" => \A t \in Parts : dir'[Live(t)] = NoFile
      <4>1. p = "publish" => i = 4
        BY <1>9
      <4>2. ASSUME i = 4, NEW t \in Parts PROVE dir'[Live(t)] = NoFile
        <5>1. CASE t = s
          BY <1>15, <5>1
        <5>2. CASE t # s
          <6>1. t \in Parts \ From(i)
            BY <2>2, <4>2, <5>2
          <6> QED BY <2>1, <2>6, <5>2, <6>1
        <5> QED BY <5>1, <5>2
      <4> QED BY <4>1, <4>2
    <3>4. p = "preserve" => /\ \A t \in Parts \ From(j) : dir'[Live(t)] = NoFile
                            /\ \A t \in From(j) : t \notin Elements(m) /\ dir'[Rollback(k, t)] = NoFile
      <4>1. SUFFICES ASSUME p = "preserve"
                     PROVE  /\ \A t \in Parts \ From(j) : dir'[Live(t)] = NoFile
                            /\ \A t \in From(j) : t \notin Elements(m) /\ dir'[Rollback(k, t)] = NoFile
        OBVIOUS
      <4>2. i # 4 /\ j = i + 1
        BY <1>9, <1>10, <4>1
      <4>3. From(j) = From(i) \ {s}
        BY <2>2, <4>2
      <4> QED BY <1>15, <2>1, <2>2, <2>5, <2>6, <4>3
    <3> QED BY <1>13, <1>14, <3>1, <3>2, <3>3, <3>4 DEF Rolled
  <2> QED BY <1>6, <1>12, <2>10, <2>14, <2>15 DEF Ordered
<1> QED BY <1>15, <1>16, <1>17, <1>18, <1>19 DEF RestoreInvariant

LEMMA UndoKeeps ==
  ASSUME RestoreInvariant, NEW ok \in BOOLEAN, Undo(ok)
  PROVE  RestoreInvariant'
<1>1. PICK k : k = restore.k
  OBVIOUS
<1>2. PICK q : q = restore.moved
  OBVIOUS
<1>3. PICK s : s = q[Len(q)]
  OBVIOUS
<1>4. PICK m : m = SubSeq(q, 1, Len(q) - 1)
  OBVIOUS
<1>5. restore.pc = "undo" /\ q # <<>>
  BY <1>2 DEF Undo, At
<1>6. /\ Registers /\ Names /\ Copied
      /\ restore \in Restoring /\ k \in 1..MaxDatabases /\ k = next - 1 /\ k \notin written
      /\ k \in Nat /\ k < next
      /\ serving = 0 /\ restored = 0 /\ DOMAIN dir = RestoreNames /\ Sound(dir)
      /\ OrderedMetadata => (\A d \in possible : Whole(d)) /\ Whole(dir) /\ Rolled /\ Together
  BY <1>1, <1>5, AtWork
<1>7. /\ restore' = [restore EXCEPT !.moved = m]
      /\ torn' = (torn \/ ~ok)
      /\ UNCHANGED <<next, valid, dirty, written, serving, restored>>
  BY <1>2, <1>4 DEF Undo
<1>8. IF ok THEN Rename(Rollback(k, s), Live(s)) ELSE UNCHANGED entries
  BY <1>1, <1>2, <1>3 DEF Undo
<1>9. q \in Seq(Parts)
  BY <1>2, <1>6, RestoringFacts
<1>10. torn' \in BOOLEAN /\ (torn => torn') /\ (~torn' => ok)
  <2>1. torn \in BOOLEAN
    BY <1>6 DEF Registers
  <2> QED BY <1>7, <2>1, Zenon
<1>11. /\ Live(s) = <<0, s>> /\ Rollback(k, s) = <<k, s>>
       /\ Live(s)[1] = 0 /\ Live(s)[2] = s
  BY DEF Live, Rollback
<1>12. m \in Seq(Parts) /\ s \in Parts /\ "" \in Parts /\ "-wal" \in Parts
  BY <1>3, <1>4, <1>5, <1>6, <1>9, WithoutLast, RegisterFacts
<1>13. restore' \in Restoring /\ restore'.pc = "undo" /\ restore'.k = k /\ restore'.moved = m
  BY <1>1, <1>5, <1>6, <1>7, <1>12 DEF Restoring
<1>14. /\ Live(s) \in RestoreNames /\ Rollback(k, s) \in RestoreNames /\ Live(s) # Rollback(k, s)
       /\ Tmp(k) \in RestoreNames /\ Live(s) # Tmp(k) /\ Rollback(k, s) # Tmp(k)
  BY <1>6, <1>12, Distinct
<1>15. /\ Names'
       /\ ok => dir'[Live(s)] = dir[Rollback(k, s)] /\ dir'[Rollback(k, s)] = NoFile
       /\ ~ok => dir' = dir
       /\ \A n \in RestoreNames \ {Live(s), Rollback(k, s)} : dir'[n] = dir[n]
       /\ OrderedMetadata => \A d \in possible' : d \in possible \/ d = dir'
  <2>1. CASE ~ok
    BY <1>6, <1>7, <1>8, <2>1, EntriesStay
  <2>2. CASE ok
    <3>1. PICK f : f = dir[Rollback(k, s)]
      OBVIOUS
    <3>2. ASSUME f # NoFile PROVE Fits(Live(s), f)
      <4>1. Rollback(k, s)[2] = s
        BY DEF Rollback
      <4>2. f \in [db : 1..(next - 1), part : Parts] /\ f.part = s
        BY <1>6, <1>12, <1>14, <3>1, <3>2, <4>1 DEF Sound
      <4>3. 0 < next
        <5>1. next \in Nat /\ next >= 1
          BY <1>6, RegisterFacts
        <5> QED BY ONLY <5>1
      <4> QED BY <1>11, <1>12, <4>2, <4>3 DEF Fits
    <3> QED BY <1>6, <1>7, <1>8, <1>14, <2>2, <3>1, <3>2, Renamed
  <2> QED BY <2>1, <2>2
<1>16. Registers'
  BY <1>6, <1>7, <1>10 DEF Registers
<1>17. Roles' /\ RestoredIsServed'
  <2>1. /\ serving' = 0 /\ restored' = 0 /\ restore' \in Restoring /\ restore'.k = next' - 1
        /\ restore'.k \notin written'
    BY <1>6, <1>7, <1>13
  <2> QED BY <2>1 DEF Roles, RestoredIsServed
<1>18. Copied'
  <2>1. dir[Tmp(k)] = File(k, "") /\ k \in valid
    BY <1>1, <1>5, <1>6 DEF Copied
  <2>2. dir'[Tmp(k)] = File(k, "") /\ k \in valid'
    BY <1>7, <1>14, <1>15, <2>1
  <2> QED BY <1>13, <2>2 DEF Copied
<1>19. ASSUME OrderedMetadata PROVE Ordered'
  <2>1. /\ Whole(dir) /\ \A d \in possible : Whole(d)
        /\ InOrder(q) /\ Moved = Elements(q)
        /\ \A t \in Elements(q) : dir[Live(t)] = NoFile /\ dir[Rollback(k, t)] # NoFile
        /\ Together
    BY <1>1, <1>2, <1>6, <1>19 DEF Rolled, MovedInOrder, Moved
  <2>2. /\ s \in Elements(q) /\ Elements(m) = Elements(q) \ {s} /\ InOrder(m)
        /\ s = "" => Elements(m) = {}
    <3>1. q \in Seq(Parts) /\ q # <<>> /\ InOrder(q)
      BY <1>5, <1>9, <2>1
    <3>2. s = Newest(q) /\ m = Older(q)
      BY <1>3, <1>4 DEF Newest, Older
    <3> QED BY <3>1, <3>2, Shortened
  <2>3. Elements(q) \subseteq Parts
    BY <1>9, ElementsTyped
  <2>4. \A t \in Parts \ {s} : dir'[Live(t)] = dir[Live(t)] /\ dir'[Rollback(k, t)] = dir[Rollback(k, t)]
    <3>1. ASSUME NEW t \in Parts, t # s
          PROVE  dir'[Live(t)] = dir[Live(t)] /\ dir'[Rollback(k, t)] = dir[Rollback(k, t)]
      <4>1. /\ Live(t) \in RestoreNames \ {Live(s), Rollback(k, s)}
            /\ Rollback(k, t) \in RestoreNames \ {Live(s), Rollback(k, s)}
        BY <1>6, <1>12, <3>1, Distinct
      <4> QED BY <1>15, <4>1
    <3> QED BY <3>1
  <2>5. \A t \in Parts : Original(t) = IF t \in Elements(q) THEN dir[Rollback(k, t)] ELSE dir[Live(t)]
    BY <1>1, <2>1 DEF Original
  <2>6. \A t \in Parts : Original(t)' = IF t \in Elements(m) THEN dir'[Rollback(k, t)] ELSE dir'[Live(t)]
    BY <1>13 DEF Original, Moved
  <2>7. \A t \in Elements(m) : dir'[Live(t)] = NoFile /\ dir'[Rollback(k, t)] # NoFile
    BY <2>1, <2>2, <2>3, <2>4
  <2>8. Rolled'
    <3>1. Moved' = Elements(m) /\ MovedInOrder'
      BY <1>13, <2>2 DEF Moved, MovedInOrder
    <3> QED BY <1>13, <2>7, <3>1 DEF Rolled
  <2>9. CASE ~ok
    <3>1. torn' /\ dir' = dir
      BY <1>7, <1>15, <2>9
    <3>2. \A d \in possible' : Whole(d)'
      BY <1>7, <1>10, <1>15, <1>19, <2>1, <3>1, AllWholeStays
    <3>3. \A t \in Parts : Original(t)' \in {Original(t), NoFile}
      <4>1. ASSUME NEW t \in Parts PROVE Original(t)' \in {Original(t), NoFile}
        <5>1. CASE t = s
          BY <2>1, <2>2, <2>6, <3>1, <5>1
        <5>2. CASE t # s
          BY <2>2, <2>5, <2>6, <3>1, <5>2
        <5> QED BY <5>1, <5>2
      <4> QED BY <4>1
    <3>4. Together'
      BY <1>7, <1>12, <2>1, <3>1, <3>3 DEF Together
    <3> QED BY <1>6, <1>7, <2>8, <3>2, <3>4 DEF Ordered
  <2>10. CASE ok
    <3>1. dir'[Live(s)] = dir[Rollback(k, s)] /\ dir'[Rollback(k, s)] = NoFile /\ torn' = torn
      <4>1. torn \in BOOLEAN
        BY <1>6 DEF Registers
      <4>2. torn' = torn
        BY <1>7, <2>10, <4>1, Zenon
      <4> QED BY <1>15, <2>10, <4>2
    <3>2. ASSUME NEW t \in Parts
          PROVE  Original(t)' = Original(t) /\ dir'[Live(t)] \in {dir[Live(t)], Original(t), NoFile}
      <4>1. CASE t = s
        BY <2>2, <2>5, <2>6, <3>1, <4>1
      <4>2. CASE t # s
        <5>1. t \in Elements(m) <=> t \in Elements(q)
          BY <2>2, <4>2
        <5>2. dir'[Live(t)] = dir[Live(t)] /\ dir'[Rollback(k, t)] = dir[Rollback(k, t)]
          BY <2>4, <4>2
        <5>3. Original(t) = IF t \in Elements(q) THEN dir[Rollback(k, t)] ELSE dir[Live(t)]
          BY <2>5
        <5>4. Original(t)' = IF t \in Elements(m) THEN dir'[Rollback(k, t)] ELSE dir'[Live(t)]
          BY <2>6
        <5> QED BY <5>1, <5>2, <5>3, <5>4
      <4> QED BY <4>1, <4>2
    <3>3. Together'
      BY <1>7, <1>10, <2>1, <3>2, TogetherStays
    <3>4. Survive(dir')
      <4>1. DOMAIN dir' = RestoreNames
        BY <1>15 DEF Names, Sound
      <4>2. dir[Live(s)] = NoFile
        BY <2>1, <2>2
      <4> QED BY <1>6, <1>14, <1>15, <2>1, <3>1, <4>1, <4>2, MovedSurvive DEF Whole
    <3>5. dir'[Live("")] # NoFile => dir'[Live("")] = Original("")'
      BY <1>12, <2>6, <2>7
    <3>6. Companions(dir')
      BY <3>3, <3>5 DEF Together, Companions
    <3>7. ~torn' /\ dir'[Live("")] # NoFile /\ dir'[Live("")].db \in dirty
            => Original("-wal")' = File(dir'[Live("")].db, "-wal")
      BY <1>7, <3>3, <3>5 DEF Together
    <3>8. Sees(dir') \/ torn
      <4>1. CASE "-wal" \notin Elements(m)
        <5>1. Original("-wal")' = dir'[Live("-wal")]
          BY <1>12, <2>6, <4>1
        <5> QED BY <3>1, <3>7, <5>1 DEF Sees
      <4>2. CASE "-wal" \in Elements(m)
        <5>1. s # ""
          BY <2>2, <4>2
        <5>2. s # "-wal"
          BY <2>2, <4>2
        <5>3. dir'[Live("")] = dir[Live("")] /\ dir'[Live("-wal")] = dir[Live("-wal")]
          BY <1>12, <2>4, <5>1, <5>2
        <5> QED BY <2>1, <5>3 DEF Whole, Sees
      <4> QED BY <4>1, <4>2
    <3>9. Whole(dir')
      BY <3>4, <3>6, <3>8 DEF Whole
    <3>10. \A d \in possible' : Whole(d)'
      BY <1>7, <1>10, <1>15, <1>19, <2>1, <3>9, AllWholeStays
    <3> QED BY <1>6, <1>7, <2>8, <3>3, <3>10 DEF Ordered
  <2> QED BY <2>9, <2>10
<1> QED BY <1>15, <1>16, <1>17, <1>18, <1>19 DEF RestoreInvariant

-----------------------------------------------------------------------------
(* The theorems.                                                           *)

(* The invariant holds after every start, commit, step of the restore      *)
(* command, failure and crash of cmd/lazarus/main.go.                      *)
THEOREM RestoreCorrect == RSpec => []RestoreInvariant
<1>1. RestoreInvariant /\ UNCHANGED rvars => RestoreInvariant'
  <2> SUFFICES ASSUME RestoreInvariant, UNCHANGED rvars PROVE RestoreInvariant'
    OBVIOUS
  <2>1. /\ dir' = dir /\ possible' = possible /\ restore' = restore
        /\ UNCHANGED <<entries, next, valid, serving, dirty, written, restored, torn>>
    BY DEF rvars, volume, entries
  <2>2. Registers /\ Names /\ Roles /\ Copied /\ RestoredIsServed /\ (OrderedMetadata => Ordered)
    BY DEF RestoreInvariant
  <2>3. Registers' /\ Roles' /\ Copied' /\ RestoredIsServed'
    BY <2>1, <2>2 DEF Registers, Roles, Copied, RestoredIsServed
  <2>4. Names'
    BY <2>1, <2>2, EntriesStay
  <2>5. Moved' = Moved /\ Unmoved' = Unmoved /\ MovedInOrder' = MovedInOrder
    BY <2>1 DEF Moved, Unmoved, MovedInOrder
  <2>6. \A s : Original(s)' = Original(s)
    BY <2>1, <2>5 DEF Original
  <2>7. (Together => Together') /\ (Rolled => Rolled')
    BY <2>1, <2>5, <2>6 DEF Together, Rolled
  <2>8. (\A d \in possible : Whole(d)) => \A d \in possible' : Whole(d)'
    BY <2>1, WholeStays
  <2>9. Ordered => Ordered'
    BY <2>1, <2>7, <2>8 DEF Ordered
  <2> QED BY <2>2, <2>3, <2>4, <2>9 DEF RestoreInvariant
<1>2. RestoreInvariant /\ RNext => RestoreInvariant'
  <2> SUFFICES ASSUME RestoreInvariant, RNext PROVE RestoreInvariant'
    OBVIOUS
  <2>1. CASE Start
    BY <2>1, OpenExistingKeeps, CreateDatabaseKeeps, initializeSchemaKeeps DEF Start
  <2>2. CASE Commit
    BY <2>2, CommitKeeps
  <2>3. CASE Stop
    BY <2>3, StopKeeps
  <2>4. CASE RestoreBegin
    BY <2>4, RestoreBeginKeeps
  <2>5. CASE RestoreStep
    BY <2>5, SyncCopyKeeps, PreserveKeeps, PublishKeeps, SyncDirectoryKeeps, UndoKeeps, UndoDoneKeeps
    DEF RestoreStep
  <2>6. CASE RestoreFails
    BY <2>6, RestoreFailsKeeps
  <2>7. CASE Undo(FALSE)
    BY <2>7, UndoKeeps
  <2>8. CASE \E power \in BOOLEAN : Crash(power)
    BY <2>8, CrashKeeps
  <2> QED BY <2>1, <2>2, <2>3, <2>4, <2>5, <2>6, <2>7, <2>8 DEF RNext
<1> QED BY <1>1, <1>2, InitKeeps, PTL DEF RSpec

(* The files have the names of their parts, only initialised databases     *)
(* take commits, and the server and the restore command are never at work  *)
(* together.                                                               *)
THEOREM RestoreTyped == RSpec => []RestoreTypeOK
<1>1. RestoreInvariant => RestoreTypeOK
  <2> SUFFICES ASSUME RestoreInvariant PROVE RestoreTypeOK
    OBVIOUS
  <2>1. Registers /\ Names /\ Roles
    BY DEF RestoreInvariant
  <2>2. ASSUME NEW d \in possible, NEW n \in RestoreNames, d[n] # NoFile
        PROVE  d[n].db \in 1..(next - 1) /\ (n[1] = 0 => d[n].part = n[2])
    <3>1. Sound(d)
      BY <2>1 DEF Names
    <3>2. d[n] \in [db : 1..(next - 1), part : Parts]
      BY <2>2, <3>1 DEF Sound
    <3>3. ASSUME n[1] = 0 PROVE n[2] \in Parts
      <4>1. SUFFICES ASSUME n[2] \notin Parts PROVE FALSE
        OBVIOUS
      <4>2. d[n] = File(0, "")
        BY <2>2, <3>1, <3>3, <4>1 DEF Sound
      <4>3. d[n].db = 0
        <5>1. File(0, "").db = 0
          BY DEF File
        <5> QED BY <4>2, <5>1
      <4>4. PICK x : x = d[n].db
        OBVIOUS
      <4>5. x \in 1..(next - 1) /\ x = 0 /\ next \in Nat
        BY <2>1, <3>2, <4>3, <4>4, RegisterFacts
      <4> QED BY ONLY <4>5
    <3> QED BY <2>2, <3>1, <3>2, <3>3 DEF Sound
  <2>3. serving # 0 => LiveMain.db = serving /\ restore = Idle
    <3>1. serving # 0 => serving \in Nat /\ dir[Live("")] = File(serving, "") /\ restore = Idle
      BY <2>1, RegisterFacts DEF Roles
    <3>2. File(serving, "").db = serving
      BY DEF File
    <3> QED BY <3>1, <3>2 DEF LiveMain
  <2> QED BY <2>1, <2>2, <2>3 DEF RestoreTypeOK, Registers, Names, Roles
<1> QED BY <1>1, RestoreCorrect, PTL

(* On every volume: once the restore command has exited with 0, no crash   *)
(* brings the old database back to the path.                               *)
THEOREM RestoredStays == RSpec => []RestoredIsServed
<1>1. RestoreInvariant => RestoredIsServed
  BY DEF RestoreInvariant
<1> QED BY <1>1, RestoreCorrect, PTL

(* On a volume that keeps the order of the changes: the renames of the     *)
(* restore command, its undo and the starts of the server never destroy    *)
(* the file or the WAL of a database that took a commit.                   *)
THEOREM NothingIsDestroyed ==
  ASSUME OrderedMetadata
  PROVE  RSpec => []CommittedFilesSurvive
<1>1. RestoreInvariant => CommittedFilesSurvive
  BY DEF RestoreInvariant, Ordered, Whole, Survive, CommittedFilesSurvive
<1> QED BY <1>1, RestoreCorrect, PTL

(* On such a volume no database is ever next to the companions of another, *)
(* in any directory that a power loss may leave between two renames.       *)
THEOREM CompanionsAreOwn ==
  ASSUME OrderedMetadata
  PROVE  RSpec => []NoForeignCompanions
<1>1. RestoreInvariant => NoForeignCompanions
  <2> SUFFICES ASSUME RestoreInvariant, NEW d \in possible, d[Live("")] # NoFile, NEW i \in 2..4
               PROVE  d[Live(Suffixes[i])] \in {NoFile, File(d[Live("")].db, Suffixes[i])}
    BY DEF NoForeignCompanions
  <2>1. Companions(d)
    BY DEF RestoreInvariant, Ordered, Whole
  <2>2. i \in 1..4 /\ i # 1
    BY NotFirst
  <2>3. Suffixes[i] \in Parts \ {""}
    BY <2>2, FromFacts
  <2> QED BY <2>1, <2>3 DEF Companions
<1> QED BY <1>1, RestoreCorrect, PTL

(* On such a volume, unless a rename of an undo has failed, a database     *)
(* with commits in its WAL is never at the path without it.                *)
THEOREM StartsAreComplete ==
  ASSUME OrderedMetadata
  PROVE  RSpec => []StartSeesEveryCommit
<1>1. RestoreInvariant => StartSeesEveryCommit
  BY DEF RestoreInvariant, Ordered, Whole, Sees, StartSeesEveryCommit
<1> QED BY <1>1, RestoreCorrect, PTL
=============================================================================
