---------------------------- MODULE BackupProofs ----------------------------
(***************************************************************************)
(* What is proved of the backups, for every set of clock readings, every   *)
(* Keep and MinAge, and both ways in which a volume may lose what was not  *)
(* synced.                                                                 *)
(***************************************************************************)
EXTENDS Backup, FiniteSetTheorems, FunctionTheorems, WellFoundedInduction, TLAPS

-----------------------------------------------------------------------------
(* The inductive invariant.                                                *)

WorkSteps ==
  {"checked", "synced", "renamed", "published", "recorded", "written",
   "manifest synced", "complete", "rotate", "rotate manifest", "rotated"}

Working ==
  [pc : WorkSteps, request : Requests, base : Clock, sha : Nat, audit : BOOLEAN, old : SUBSET Clock]

CallTyped ==
  \/ backup = Idle
  \/ backup \in [pc : {"prepare"}, request : Requests]
  \/ backup \in Working

Ledger ==
  /\ used \subseteq Clock /\ IsFiniteSet(used) /\ published \subseteq used
  /\ events \in Seq([request : Requests, base : used])
  /\ answers \subseteq [request : Requests, base : published, sha : 0..Cardinality(used), fresh : BOOLEAN]
  /\ faults \in 0..MaxFaults

(* Every file that the directory may hold after a power loss.              *)
AllFiles == UNION {FilesOf(d) : d \in possible}

(* A base is used for one snapshot: its files agree on the checksum.       *)
FilesAgree ==
  /\ \A f \in AllFiles : f \in Files /\ f.base \in used /\ f.sha <= Cardinality(used)
  /\ \A f, g \in AllFiles : f.base = g.base => f.sha = g.sha
  /\ damaged \subseteq flushed
  /\ \A f \in damaged : f.base \in used

AuditKnown(b) == \E i \in DOMAIN events : events[i].base = b

(* What a file may be, by its name.                                        *)
SoundAt(n, f) ==
  /\ f.base = n[1]
  /\ f.kind = "db" <=> n[2] \in {"db", "db.tmp"}
  /\ n[2] \in {"db", "manifest"} => f \in flushed \ damaged
  /\ n[2] = "manifest" => n[1] \in published /\ (f.audit => AuditKnown(n[1]))

Sound(d) ==
  /\ d \in [BackupNames -> Files \cup {NoFile}]
  /\ \A n \in BackupNames : d[n] # NoFile => SoundAt(n, d[n])

Names == dir \in possible /\ \A d \in possible : Sound(d)

(* The backups that are complete whatever a power loss leaves.             *)
Held == {c \in Clock : \A d \in possible : c \in Pairs(d)}

(* What the call that holds backupMu has done so far.                      *)
Snapshotted ==
  /\ backup.base \in used /\ backup.sha = Cardinality(used)
  /\ \A f \in damaged : f.base # backup.base
  /\ \A f \in AllFiles : IF f.base = backup.base THEN f.sha = backup.sha ELSE f.sha < backup.sha
  /\ backup.audit => AuditKnown(backup.base)

Early == {"checked", "synced"}
Synced == {"published", "recorded", "written", "manifest synced", "complete"}
Rotating == {"rotate", "rotate manifest", "rotated"}

DatabaseDone ==
  /\ backup.pc \in Early =>
       dir[DBTmp(backup.base)] = [kind |-> "db", base |-> backup.base, sha |-> backup.sha]
  /\ backup.pc = "synced" => dir[DBTmp(backup.base)] \in flushed
  /\ backup.pc = "renamed" => dir[DB(backup.base)] # NoFile
  /\ backup.pc \in Synced => \A d \in possible : d[DB(backup.base)] # NoFile

ManifestDone ==
  /\ backup.pc \in {"written", "manifest synced"} => dir[ManifestTmp(backup.base)] = ManifestFile
  /\ backup.pc = "manifest synced" => dir[ManifestTmp(backup.base)] \in flushed
  /\ backup.pc = "complete" => dir[Manifest(backup.base)] # NoFile

(* Until rotation every other database file has its manifest: the clean-up *)
(* at the start of the call has removed the incomplete ones.               *)
OthersComplete ==
  backup.pc \notin Rotating =>
    \A c \in Clock \ {backup.base} : dir[DB(c)] # NoFile => dir[Manifest(c)] # NoFile

Kept == {c \in Held : \A x \in backup.old : x < c}

RotationKeeps ==
  backup.pc \in Rotating =>
    /\ backup.base \in Held
    /\ backup.old \subseteq used
    /\ \A x \in backup.old : x < backup.base
    /\ backup.old # {} => Cardinality(Kept) >= Keep
    /\ backup.pc = "rotate manifest" => backup.old # {} /\ dir[DB(Max(backup.old))] = NoFile

CallInvariant ==
  backup \in Working => Snapshotted /\ DatabaseDone /\ ManifestDone /\ OthersComplete /\ RotationKeeps

AnswersHold ==
  \A a \in answers : a.fresh => \E c \in Held : dir[DB(c)].sha >= a.sha

Downloads ==
  \/ download = Idle
  \/ download.pc = "validated" /\ download.name \in BackupNames /\ download.name[1] \in published
  \/ download.pc = "open" /\ download.file.base \in published
  \/ download.pc = "sent" /\ download.file.base \in published /\ download.file \notin damaged

BackupInvariant ==
  /\ CallTyped /\ Ledger /\ FilesAgree /\ Names
  /\ CallInvariant /\ AnswersHold /\ Downloads

-----------------------------------------------------------------------------
(* Sets of numbers.                                                        *)

LEMMA NatMin ==
  ASSUME NEW T \in SUBSET Nat, T # {}
  PROVE  \E x \in T : \A y \in T : x <= y
<1>1. IsWellFoundedOn({ss \in Nat \X Nat : ss[1] < ss[2]}, Nat)
  BY NatLessThanWellFounded DEF OpToRel
<1>2. PICK x \in T : \A y \in T : ~ (<<y, x>> \in {ss \in Nat \X Nat : ss[1] < ss[2]})
  BY <1>1, WFMin
<1>3. ASSUME NEW y \in T PROVE x <= y
  <2>1. x \in Nat /\ y \in Nat /\ <<y, x>> \in Nat \X Nat /\ <<y, x>>[1] = y /\ <<y, x>>[2] = x
    OBVIOUS
  <2>2. ~(y < x)
    BY <1>2, <2>1
  <2> QED BY <2>1, <2>2
<1> QED BY <1>3

(* rotateBackupsWithAge takes the newest of what has expired first.        *)
LEMMA MaxExists ==
  ASSUME NEW S \in SUBSET Nat, S # {}, IsFiniteSet(S)
  PROVE  /\ Max(S) \in S
         /\ \A y \in S : y <= Max(S)
<1> DEFINE Above(x) == {y \in S : y > x}
           T == {Cardinality(Above(x)) : x \in S}
<1>1. \A x \in S : IsFiniteSet(Above(x)) /\ Cardinality(Above(x)) \in Nat
  BY FS_Subset, FS_CardinalityType
<1>2. T \in SUBSET Nat /\ T # {}
  BY <1>1
<1>3. PICK t \in T : \A u \in T : t <= u
  BY <1>2, NatMin
<1>4. PICK x \in S : t = Cardinality(Above(x))
  OBVIOUS
<1>5. ASSUME NEW z \in Above(x) PROVE FALSE
  <2>1. x \in Nat /\ z \in Nat /\ z \in S /\ z > x
    BY <1>5
  <2>2. Above(z) \subseteq Above(x)
    <3> SUFFICES ASSUME NEW y \in S, y > z PROVE y > x
      OBVIOUS
    <3> QED BY <2>1
  <2>3. z \notin Above(z)
    BY <2>1
  <2>4. Cardinality(Above(z)) < Cardinality(Above(x))
    BY <2>1, <2>2, <2>3, <1>1, FS_Subset
  <2>5. Cardinality(Above(z)) \in T
    BY <2>1
  <2> HIDE DEF Above, T
  <2> QED BY <1>1, <1>3, <1>4, <2>1, <2>4, <2>5
<1>6. \A y \in S : x >= y
  BY <1>5
<1>7. /\ Max(S) \in S
      /\ \A y \in S : Max(S) >= y
  BY <1>6 DEF Max
<1> QED BY <1>7

-----------------------------------------------------------------------------
(* What the steps do to the directories that a power loss may leave.       *)

(* What no step takes back.                                                *)
Frame ==
  /\ flushed \ damaged \subseteq flushed' \ damaged'
  /\ published \subseteq published'
  /\ \A b : AuditKnown(b) => AuditKnown(b)'

(* A complete backup stays complete, and its database the same.            *)
Grows ==
  /\ Held \subseteq Held'
  /\ \A c \in Held : dir'[DB(c)].sha = dir[DB(c)].sha

LEMMA SoundStays ==
  ASSUME Frame, NEW n, NEW f, SoundAt(n, f)
  PROVE  SoundAt(n, f)'
BY DEF Frame, SoundAt

LEMMA SoundDirStays ==
  ASSUME Frame, NEW d, Sound(d)
  PROVE  Sound(d)'
BY SoundStays DEF Sound

LEMMA ChangedDirectories ==
  ASSUME NEW op, Change(op), dir \in possible
  PROVE  /\ dir' = Apply(op, dir) /\ dir' \in possible' /\ possible \subseteq possible'
         /\ \A e \in possible' : e \in possible \/ \E d \in possible : e = Apply(op, d)
BY OrderedMetadataAssumption DEF Change

LEMMA AppliedEntry ==
  ASSUME NEW d, DOMAIN d = BackupNames, NEW op, NEW n \in BackupNames
  PROVE  /\ DOMAIN Apply(op, d) = BackupNames
         /\ n \in DOMAIN op => Apply(op, d)[n] = op[n]
         /\ n \notin DOMAIN op => Apply(op, d)[n] = d[n]
BY DEF Apply

LEMMA FileIsSomewhere ==
  ASSUME Names, NEW d \in possible, NEW n \in BackupNames, d[n] # NoFile
  PROVE  d[n] \in AllFiles
<1>1. DOMAIN d = BackupNames
  BY DEF Names, Sound
<1>2. d[n] \in FilesOf(d)
  BY <1>1 DEF FilesOf
<1> QED BY <1>2 DEF AllFiles

LEMMA FileHasPlace ==
  ASSUME Names, NEW f \in AllFiles
  PROVE  /\ f # NoFile
         /\ \E d \in possible : \E n \in BackupNames : d[n] = f
<1>1. PICK d \in possible : f \in FilesOf(d)
  BY DEF AllFiles
<1>2. DOMAIN d = BackupNames
  BY DEF Names, Sound
<1> QED BY <1>1, <1>2 DEF FilesOf

LEMMA ChangeKeepsNames ==
  ASSUME Names, NEW op, Change(op), Frame,
         \A n \in DOMAIN op \cap BackupNames :
           op[n] = NoFile \/ (op[n] \in Files /\ SoundAt(n, op[n])')
  PROVE  Names'
<1>1. ASSUME NEW d \in possible PROVE Sound(Apply(op, d))'
  <2>1. Sound(d)' /\ DOMAIN d = BackupNames
    BY SoundDirStays DEF Names, Sound
  <2>2. \A n \in BackupNames : /\ Apply(op, d)[n] \in Files \cup {NoFile}
                               /\ Apply(op, d)[n] # NoFile => SoundAt(n, Apply(op, d)[n])'
    BY <2>1, AppliedEntry DEF Sound
  <2>3. Apply(op, d) \in [BackupNames -> Files \cup {NoFile}]
    BY <2>1, <2>2 DEF Apply
  <2> QED BY <2>2, <2>3 DEF Sound
<1>2. \A d \in possible : Sound(d)'
  BY SoundDirStays DEF Names
<1> QED BY <1>1, <1>2, ChangedDirectories DEF Names

LEMMA ChangeFiles ==
  ASSUME Names, NEW op, Change(op), NEW f \in AllFiles', Names'
  PROVE  f \in AllFiles \/ \E n \in DOMAIN op \cap BackupNames : f = op[n]
<1>1. PICK e \in possible', n \in BackupNames : e[n] = f /\ f # NoFile
  <2>1. PICK e \in possible' : f \in FilesOf(e)
    BY DEF AllFiles
  <2>2. DOMAIN e = BackupNames
    BY DEF Names, Sound
  <2> QED BY <2>1, <2>2 DEF FilesOf
<1>2. CASE e \in possible
  BY <1>1, <1>2, FileIsSomewhere
<1>3. ASSUME NEW d \in possible, e = Apply(op, d) PROVE f \in AllFiles \/ \E m \in DOMAIN op \cap BackupNames : f = op[m]
  <2>1. DOMAIN d = BackupNames
    BY DEF Names, Sound
  <2> QED BY <1>1, <1>3, <2>1, AppliedEntry, FileIsSomewhere
<1> QED BY <1>2, <1>3, ChangedDirectories DEF Names

(* A change that only takes files away or moves them, and spares the       *)
(* complete backups.                                                       *)
Spares(op) ==
  \A c \in Held : \A n \in {DB(c), Manifest(c)} \cap DOMAIN op : op[n] # NoFile

LEMMA HeldEntries ==
  ASSUME NEW c \in Held, NEW d \in possible
  PROVE  c \in Clock /\ d[DB(c)] # NoFile /\ d[Manifest(c)] # NoFile
BY DEF Held, Pairs

LEMMA NamesOf ==
  ASSUME NEW c \in Clock
  PROVE  /\ {DB(c), DBTmp(c), Manifest(c), ManifestTmp(c)} \subseteq BackupNames
         /\ DB(c)[1] = c /\ DB(c)[2] = "db"
         /\ DBTmp(c)[1] = c /\ DBTmp(c)[2] = "db.tmp"
         /\ Manifest(c)[1] = c /\ Manifest(c)[2] = "manifest"
         /\ ManifestTmp(c)[1] = c /\ ManifestTmp(c)[2] = "manifest.tmp"
BY DEF BackupNames, DB, DBTmp, Manifest, ManifestTmp

LEMMA HeldStays ==
  ASSUME Names, NEW op, Change(op), Spares(op), NEW c \in Held
  PROVE  c \in Held'
<1>1. c \in Clock /\ DB(c) \in BackupNames /\ Manifest(c) \in BackupNames
  BY NamesOf DEF Held
<1>2. ASSUME NEW d \in possible PROVE c \in Pairs(d) /\ c \in Pairs(Apply(op, d))
  <2>1. DOMAIN d = BackupNames
    BY DEF Names, Sound
  <2>2. d[DB(c)] # NoFile /\ d[Manifest(c)] # NoFile
    BY HeldEntries
  <2>3. Apply(op, d)[DB(c)] # NoFile
    BY <1>1, <2>1, <2>2, AppliedEntry DEF Spares
  <2>4. Apply(op, d)[Manifest(c)] # NoFile
    BY <1>1, <2>1, <2>2, AppliedEntry DEF Spares
  <2> QED BY <1>1, <2>2, <2>3, <2>4 DEF Pairs
<1>3. \A e \in possible' : c \in Pairs(e)
  BY <1>2, ChangedDirectories DEF Names
<1> QED BY <1>1, <1>3 DEF Held

(* Database files of one name agree on the checksum, so that it is enough  *)
(* that the file at the name is one of the files there were.               *)
LEMMA SameDatabase ==
  ASSUME Names, FilesAgree, Held \subseteq Held', dir' \in possible',
         \A c \in Held : dir'[DB(c)] \in AllFiles /\ dir'[DB(c)].base = c
  PROVE  Grows
<1> SUFFICES ASSUME NEW c \in Held PROVE dir'[DB(c)].sha = dir[DB(c)].sha
  BY DEF Grows
<1>1. c \in Clock /\ DB(c) \in BackupNames /\ DB(c)[1] = c
  BY NamesOf DEF Held
<1>2. dir[DB(c)] # NoFile /\ dir[DB(c)].base = c
  BY <1>1, HeldEntries DEF Names, Sound, SoundAt
<1>3. dir[DB(c)] \in AllFiles
  BY <1>1, <1>2, FileIsSomewhere DEF Names
<1> QED BY <1>2, <1>3 DEF FilesAgree

LEMMA AgreeStays ==
  ASSUME FilesAgree, AllFiles' \subseteq AllFiles, used' = used,
         damaged' \subseteq flushed', damaged' \subseteq damaged \cup AllFiles
  PROVE  FilesAgree'
BY DEF FilesAgree

LEMMA HeldDatabase ==
  ASSUME Names, NEW c \in Held, NEW e \in possible
  PROVE  e[DB(c)] \in AllFiles /\ e[DB(c)].base = c
<1>1. c \in Clock /\ DB(c) \in BackupNames /\ DB(c)[1] = c
  BY NamesOf DEF Held
<1>2. e[DB(c)] # NoFile /\ e[DB(c)].base = c
  BY <1>1, HeldEntries DEF Names, Sound, SoundAt
<1> QED BY <1>1, <1>2, FileIsSomewhere

LEMMA ChangeMoves ==
  ASSUME Names, FilesAgree, Frame, UNCHANGED used, damaged' = damaged, flushed \subseteq flushed',
         NEW op, Change(op), Spares(op),
         \A n \in DOMAIN op \cap BackupNames : op[n] = NoFile \/ (op[n] \in AllFiles /\ SoundAt(n, op[n])')
  PROVE  Names' /\ AllFiles' \subseteq AllFiles /\ FilesAgree' /\ Grows
<1>1. Names'
  BY ChangeKeepsNames DEF FilesAgree
<1>2. AllFiles' \subseteq AllFiles
  <2> SUFFICES ASSUME NEW f \in AllFiles' PROVE f \in AllFiles
    OBVIOUS
  <2>1. f # NoFile
    BY DEF AllFiles, FilesOf
  <2> QED BY <1>1, <2>1, ChangeFiles
<1>3. FilesAgree'
  BY <1>2, AgreeStays DEF FilesAgree
<1>4. Held \subseteq Held'
  BY HeldStays
<1>5. ASSUME NEW c \in Held PROVE dir'[DB(c)] \in AllFiles /\ dir'[DB(c)].base = c
  <2>1. c \in Held' /\ dir' \in possible'
    BY <1>1, <1>4 DEF Names
  <2>2. c \in Clock /\ DB(c) \in BackupNames /\ DB(c)[1] = c
    BY NamesOf DEF Held
  <2>3. dir'[DB(c)] # NoFile
    BY <2>1 DEF Held, Pairs
  <2>4. dir'[DB(c)].base = c
    BY <1>1, <2>1, <2>2, <2>3 DEF Names, Sound, SoundAt
  <2>5. dir'[DB(c)] \in AllFiles
    <3>1. DOMAIN dir = BackupNames /\ dir' = Apply(op, dir)
      BY ChangedDirectories DEF Names, Sound
    <3>2. CASE DB(c) \in DOMAIN op
      BY <2>2, <2>3, <3>1, <3>2, AppliedEntry
    <3>3. CASE DB(c) \notin DOMAIN op
      BY <2>2, <2>3, <3>1, <3>3, AppliedEntry, FileIsSomewhere DEF Names
    <3> QED BY <3>2, <3>3
  <2> QED BY <2>4, <2>5
<1>6. Grows
  BY <1>1, <1>4, <1>5, SameDatabase DEF Names
<1> QED BY <1>1, <1>2, <1>3, <1>6

(* What every step but the creation of a file and the rotation does.       *)
Calm == Names' /\ AllFiles' \subseteq AllFiles /\ FilesAgree' /\ Grows

LEMMA EntriesUnchanged ==
  ASSUME Names, FilesAgree, Frame, UNCHANGED <<entries, used>>, damaged' = damaged, flushed \subseteq flushed'
  PROVE  Calm
<1>1. dir' = dir /\ possible' = possible
  BY DEF entries
<1>2. Names'
  BY <1>1, SoundDirStays DEF Names
<1>3. AllFiles' = AllFiles /\ Held' = Held
  BY <1>1 DEF AllFiles, Held
<1>4. FilesAgree'
  BY <1>3, AgreeStays DEF FilesAgree
<1> QED BY <1>1, <1>2, <1>3, <1>4 DEF Calm, Grows

LEMMA Narrowed ==
  ASSUME Names, FilesAgree, Frame, UNCHANGED used, dir' \in possible', possible' \subseteq possible,
         damaged' \subseteq flushed', damaged' \subseteq damaged \cup AllFiles
  PROVE  Calm
<1>1. Names'
  BY SoundDirStays DEF Names
<1>2. AllFiles' \subseteq AllFiles /\ Held \subseteq Held'
  BY DEF AllFiles, Held
<1>3. FilesAgree'
  BY <1>2, AgreeStays
<1>4. \A c \in Held : dir'[DB(c)] \in AllFiles /\ dir'[DB(c)].base = c
  BY HeldDatabase
<1> QED BY <1>1, <1>2, <1>3, <1>4, SameDatabase DEF Calm

LEMMA DirectorySynced ==
  ASSUME Names, FilesAgree, Frame, SyncDir, UNCHANGED <<contents, used>>
  PROVE  Calm /\ dir' = dir /\ possible' = {dir}
<1>1. dir' = dir /\ possible' = {dir} /\ damaged' = damaged /\ flushed' = flushed
  BY DEF SyncDir, contents
<1>2. possible' \subseteq possible /\ dir' \in possible'
  BY <1>1 DEF Names
<1>3. Calm
  BY <1>1, <1>2, Narrowed DEF FilesAgree
<1> QED BY <1>1, <1>3

LEMMA PowerLost ==
  ASSUME Names, FilesAgree, PowerLoss, UNCHANGED <<used, events, published>>
  PROVE  Calm
<1>0. PICK d \in possible : \E torn \in SUBSET (FilesOf(d) \ flushed) :
        /\ dir' = d /\ possible' = {d}
        /\ damaged' = damaged \cup torn /\ flushed' = flushed \cup FilesOf(d)
  BY DEF PowerLoss
<1>1. PICK torn \in SUBSET (FilesOf(d) \ flushed) :
        /\ dir' = d /\ possible' = {d}
        /\ damaged' = damaged \cup torn /\ flushed' = flushed \cup FilesOf(d)
  BY <1>0
<1>2. Frame
  BY <1>1 DEF Frame, AuditKnown
<1>3. possible' \subseteq possible /\ dir' \in possible'
  BY <1>1
<1>4. FilesOf(d) \subseteq AllFiles
  BY DEF AllFiles
<1>5. damaged' \subseteq flushed' /\ damaged' \subseteq damaged \cup AllFiles
  BY <1>1, <1>4 DEF FilesAgree
<1> QED BY <1>2, <1>3, <1>5, Narrowed

LEMMA EntryRemoved ==
  ASSUME Names, FilesAgree, Frame, UNCHANGED <<contents, used>>, NEW n \in BackupNames, Remove(n),
         \A c \in Held : n # DB(c) /\ n # Manifest(c)
  PROVE  /\ Calm
         /\ dir' = [dir EXCEPT ![n] = NoFile]
         /\ \A e \in possible' : e \in possible \/ \E d \in possible : e = [d EXCEPT ![n] = NoFile]
<1> DEFINE op == [x \in {n} |-> NoFile]
<1>1. Change(op) /\ DOMAIN op = {n} /\ op[n] = NoFile
  BY DEF Remove
<1>2. \A d \in possible : Apply(op, d) = [d EXCEPT ![n] = NoFile]
  <2> SUFFICES ASSUME NEW d \in possible PROVE Apply(op, d) = [d EXCEPT ![n] = NoFile]
    OBVIOUS
  <2>1. d \in [BackupNames -> Files \cup {NoFile}]
    BY DEF Names, Sound
  <2> QED BY <2>1 DEF Apply
<1> HIDE DEF op
<1>3. Spares(op)
  BY <1>1 DEF Spares
<1>4. Calm
  BY <1>1, <1>3, ChangeMoves DEF contents, Calm
<1> QED BY <1>1, <1>2, <1>4, ChangedDirectories DEF Names

Moved(d, from, to, f) == [d EXCEPT ![from] = NoFile, ![to] = f]

LEMMA EntryRenamed ==
  ASSUME Names, FilesAgree, Frame, UNCHANGED <<contents, used>>,
         NEW from \in BackupNames, NEW to \in BackupNames, Rename(from, to), from # to,
         NEW f, f = dir[from], f # NoFile, SoundAt(to, f)', from[2] \notin {"db", "manifest"}
  PROVE  /\ Calm
         /\ dir' = Moved(dir, from, to, f)
         /\ \A e \in possible' : e \in possible \/ \E d \in possible : e = Moved(d, from, to, f)
<1> DEFINE op == [x \in {from, to} |-> IF x = to THEN f ELSE NoFile]
<1>1. Change(op) /\ DOMAIN op = {from, to} /\ op[from] = NoFile /\ op[to] = f
  BY DEF Rename
<1>2. \A d \in possible : Apply(op, d) = Moved(d, from, to, f)
  <2> SUFFICES ASSUME NEW d \in possible PROVE Apply(op, d) = Moved(d, from, to, f)
    OBVIOUS
  <2>1. d \in [BackupNames -> Files \cup {NoFile}]
    BY DEF Names, Sound
  <2> QED BY <2>1 DEF Apply, Moved
<1> HIDE DEF op
<1>3. \A c \in Held : from # DB(c) /\ from # Manifest(c)
  BY NamesOf DEF Held
<1>4. Spares(op)
  BY <1>1, <1>3 DEF Spares
<1>5. f \in AllFiles
  BY FileIsSomewhere DEF Names
<1>6. Calm
  BY <1>1, <1>4, <1>5, ChangeMoves DEF contents, Calm
<1> QED BY <1>1, <1>2, <1>6, ChangedDirectories DEF Names

LEMMA EntryCreated ==
  ASSUME Names, Frame, NEW n \in BackupNames, NEW f \in Files, Create(n, f),
         SoundAt(n, f)', n[2] \notin {"db", "manifest"}
  PROVE  /\ Names' /\ Grows
         /\ AllFiles' \subseteq AllFiles \cup {f}
         /\ dir' = [dir EXCEPT ![n] = f]
         /\ \A e \in possible' : e \in possible \/ \E d \in possible : e = [d EXCEPT ![n] = f]
<1> DEFINE op == [x \in {n} |-> f]
<1>1. Change(op) /\ DOMAIN op = {n} /\ op[n] = f
  BY DEF Create
<1>2. \A d \in possible : Apply(op, d) = [d EXCEPT ![n] = f]
  <2> SUFFICES ASSUME NEW d \in possible PROVE Apply(op, d) = [d EXCEPT ![n] = f]
    OBVIOUS
  <2>1. d \in [BackupNames -> Files \cup {NoFile}]
    BY DEF Names, Sound
  <2> QED BY <2>1 DEF Apply
<1> HIDE DEF op
<1>3. \A c \in Held : DB(c) # n /\ Manifest(c) # n /\ DB(c) \in BackupNames
  BY NamesOf DEF Held
<1>4. Spares(op)
  BY <1>1, <1>3 DEF Spares
<1>5. Names'
  BY <1>1, ChangeKeepsNames
<1>6. AllFiles' \subseteq AllFiles \cup {f}
  BY <1>1, <1>5, ChangeFiles
<1>7. dir' = [dir EXCEPT ![n] = f]
  BY <1>1, <1>2, ChangedDirectories DEF Names
<1>8. Grows
  <2>1. Held \subseteq Held'
    BY <1>1, <1>4, HeldStays
  <2>2. \A c \in Held : dir'[DB(c)] = dir[DB(c)]
    BY <1>3, <1>7 DEF Names, Sound
  <2> QED BY <2>1, <2>2 DEF Grows
<1> QED BY <1>1, <1>2, <1>5, <1>6, <1>7, <1>8, ChangedDirectories DEF Names

-----------------------------------------------------------------------------
(* Parts of the invariant that most steps leave alone.                     *)

LEMMA NotWorking ==
  /\ Idle \notin Working /\ Idle.pc = "idle"
  /\ \A c \in [pc : {"prepare"}, request : Requests] : c \notin Working /\ c.pc = "prepare"
<1>1. \A c \in Working : c.pc # "idle" /\ c.pc # "prepare"
  BY DEF Working, WorkSteps
<1> QED BY <1>1 DEF Idle

LEMMA LedgerStays ==
  ASSUME Ledger, UNCHANGED <<used, events, answers>>, published \subseteq published',
         published' \subseteq used, faults' \in 0..MaxFaults
  PROVE  Ledger'
BY DEF Ledger

LEMMA AnswersStay ==
  ASSUME AnswersHold, Grows, \A a \in answers' : a.fresh => a \in answers
  PROVE  AnswersHold'
BY DEF AnswersHold, Grows

LEMMA DownloadsStay ==
  ASSUME Downloads, UNCHANGED <<download, damaged>>, published \subseteq published'
  PROVE  Downloads'
BY DEF Downloads

LEMMA FrameStays ==
  ASSUME UNCHANGED <<damaged, events>>, flushed \subseteq flushed', published \subseteq published'
  PROVE  Frame
BY DEF Frame, AuditKnown

LEMMA CallEnds ==
  ASSUME BackupInvariant, Calm, UNCHANGED <<used, events, answers, published, download, damaged>>,
         faults' \in 0..MaxFaults,
         backup' = Idle \/ backup' \in [pc : {"prepare"}, request : Requests]
  PROVE  BackupInvariant' /\ Grows
<1>1. CallTyped' /\ CallInvariant'
  BY NotWorking DEF CallTyped, CallInvariant
<1>2. Ledger' /\ AnswersHold' /\ Downloads'
  BY LedgerStays, AnswersStay, DownloadsStay DEF BackupInvariant, Calm, Ledger
<1> QED BY <1>1, <1>2 DEF BackupInvariant, Calm

(* The call goes on: it keeps its snapshot, and what is left to show is    *)
(* how far it is.                                                          *)
SameCall ==
  /\ backup \in Working /\ backup' \in Working
  /\ backup'.base = backup.base /\ backup'.sha = backup.sha /\ backup'.request = backup.request

LEMMA CallGoesOn ==
  ASSUME BackupInvariant, Calm, SameCall, backup'.audit = backup.audit,
         UNCHANGED <<used, events, answers, download, damaged>>,
         published \subseteq published', published' \subseteq used, faults' \in 0..MaxFaults,
         DatabaseDone', ManifestDone', OthersComplete', RotationKeeps'
  PROVE  BackupInvariant' /\ Grows
<1>1. Snapshotted
  BY DEF BackupInvariant, CallInvariant, SameCall
<1>2. Snapshotted'
  BY <1>1 DEF Snapshotted, SameCall, Calm, AuditKnown
<1>3. CallTyped' /\ CallInvariant'
  BY <1>2 DEF CallTyped, CallInvariant, SameCall
<1>4. Ledger' /\ AnswersHold' /\ Downloads'
  BY LedgerStays, AnswersStay, DownloadsStay DEF BackupInvariant, Calm
<1> QED BY <1>3, <1>4 DEF BackupInvariant, Calm

LEMMA GotoFacts ==
  ASSUME backup \in Working, NEW pc \in WorkSteps, Goto(pc)
  PROVE  SameCall /\ backup'.audit = backup.audit /\ backup'.old = backup.old /\ backup'.pc = pc
<1>1. backup' \in Working
  BY DEF Goto, Working
<1>2. /\ backup'.pc = pc /\ backup'.audit = backup.audit /\ backup'.old = backup.old
      /\ backup'.base = backup.base /\ backup'.sha = backup.sha /\ backup'.request = backup.request
  BY DEF Goto, Working
<1> QED BY <1>1, <1>2 DEF SameCall

LEMMA WorkingCall ==
  ASSUME BackupInvariant, backup.pc \notin {"idle", "prepare"}
  PROVE  /\ backup \in Working
         /\ Snapshotted /\ DatabaseDone /\ ManifestDone /\ OthersComplete /\ RotationKeeps
         /\ backup.base \in Clock
BY NotWorking DEF BackupInvariant, CallTyped, CallInvariant, Working

LEMMA Faults ==
  ASSUME BackupInvariant, NEW ok \in BOOLEAN, ok \/ faults < MaxFaults,
         faults' = IF ok THEN faults ELSE faults + 1
  PROVE  faults' \in 0..MaxFaults
BY BackupAssumption DEF BackupInvariant, Ledger

-----------------------------------------------------------------------------
(* The steps of BackupWithRetention.                                       *)

LEMMA BeginKeeps ==
  ASSUME BackupInvariant, NEW r \in Requests, Begin(r)
  PROVE  BackupInvariant' /\ Grows
<1>1. /\ UNCHANGED <<entries, used, events, answers, published, download, damaged, flushed>>
      /\ faults' \in 0..MaxFaults
  BY DEF Begin, volume, contents, callers, BackupInvariant, Ledger
<1>2. Calm
  BY <1>1, FrameStays, EntriesUnchanged DEF BackupInvariant
<1>3. backup' \in [pc : {"prepare"}, request : Requests]
  BY DEF Begin
<1> QED BY <1>1, <1>2, <1>3, CallEnds

(* cleanupBackupTemps takes nothing away from a complete backup.           *)
LEMMA IncompleteIsNotHeld ==
  ASSUME Names, NEW n \in Incomplete
  PROVE  n \in BackupNames /\ \A c \in Held : n # DB(c) /\ n # Manifest(c)
<1> DEFINE temps == {m \in BackupNames : m[2] \in {"db.tmp", "manifest.tmp"} /\ Exists(m)}
           lonely == {DB(b) : b \in {c \in Clock : Exists(DB(c)) /\ ~Exists(Manifest(c))}}
           orphans == {Manifest(b) : b \in {c \in Clock : Exists(Manifest(c)) /\ ~Exists(DB(c))}}
<1>1. n \in temps \/ n \in lonely \/ n \in orphans
  BY DEF Incomplete
<1>2. \A c \in Held : /\ c \in Clock /\ Exists(DB(c)) /\ Exists(Manifest(c))
                      /\ DB(c)[2] = "db" /\ Manifest(c)[2] = "manifest"
                      /\ DB(c)[1] = c /\ Manifest(c)[1] = c
  BY HeldEntries, NamesOf DEF Names, Exists
<1>3. CASE n \in temps
  BY <1>2, <1>3
<1>4. CASE n \in lonely
  BY <1>2, <1>4, NamesOf
<1>5. CASE n \in orphans
  BY <1>2, <1>5, NamesOf
<1> QED BY <1>1, <1>3, <1>4, <1>5

LEMMA CleanupKeeps ==
  ASSUME BackupInvariant, cleanupBackupTemps
  PROVE  BackupInvariant' /\ Grows
<1>1. PICK n \in Incomplete : Remove(n)
  BY DEF cleanupBackupTemps
<1>2. /\ UNCHANGED <<contents, used, events, answers, published, download, damaged, flushed, backup>>
      /\ faults' \in 0..MaxFaults /\ backup.pc = "prepare"
  BY DEF cleanupBackupTemps, contents, callers, BackupInvariant, Ledger, At
<1>3. n \in BackupNames /\ \A c \in Held : n # DB(c) /\ n # Manifest(c)
  BY IncompleteIsNotHeld DEF BackupInvariant
<1>4. Calm
  BY <1>1, <1>2, <1>3, FrameStays, EntryRemoved DEF BackupInvariant
<1>5. backup' \in [pc : {"prepare"}, request : Requests]
  <2>1. backup \notin Working /\ backup # Idle
    BY <1>2, NotWorking DEF Working, WorkSteps
  <2> QED BY <1>2, <2>1 DEF BackupInvariant, CallTyped
<1> QED BY <1>2, <1>4, <1>5, CallEnds

LEMMA PreparedRequest ==
  ASSUME BackupInvariant, backup.pc = "prepare"
  PROVE  backup.request \in Requests
<1>1. backup \notin Working /\ backup # Idle
  BY NotWorking DEF Working, WorkSteps
<1> QED BY <1>1 DEF BackupInvariant, CallTyped

LEMMA ArtifactIsKnown ==
  ASSUME BackupInvariant, NEW b, BackupArtifact(b)
  PROVE  /\ b \in Clock /\ b \in published /\ dir[DB(b)] # NoFile /\ dir[Manifest(b)] # NoFile
         /\ dir[Manifest(b)].sha \in 0..Cardinality(used)
<1>1. b \in Clock /\ dir[Manifest(b)] # NoFile /\ dir[DB(b)] # NoFile
  BY DEF BackupArtifact, Pairs
<1>2. Manifest(b) \in BackupNames /\ Manifest(b)[1] = b /\ Manifest(b)[2] = "manifest"
  BY <1>1, NamesOf
<1>3. SoundAt(Manifest(b), dir[Manifest(b)])
  BY <1>1, <1>2 DEF BackupInvariant, Names, Sound
<1>4. dir[Manifest(b)] \in AllFiles
  BY <1>1, <1>2, FileIsSomewhere DEF BackupInvariant, Names
<1>5. dir[Manifest(b)] \in Files /\ dir[Manifest(b)].sha <= Cardinality(used)
  BY <1>4 DEF BackupInvariant, FilesAgree
<1>6. dir[Manifest(b)].sha \in Nat
  BY <1>5 DEF Files
<1>7. Cardinality(used) \in Nat
  BY FS_CardinalityType DEF BackupInvariant, Ledger
<1> QED BY <1>1, <1>2, <1>3, <1>5, <1>6, <1>7 DEF SoundAt

LEMMA LedgerGrows ==
  ASSUME Ledger, UNCHANGED <<used, events, published, faults>>, backup.request \in Requests,
         NEW b \in published, NEW sha \in 0..Cardinality(used), NEW fresh \in BOOLEAN,
         answers' = answers \cup {AnswerFor(b, sha, fresh)}
  PROVE  Ledger'
<1> DEFINE Answers == [request : Requests, base : published, sha : 0..Cardinality(used), fresh : BOOLEAN]
<1>1. AnswerFor(b, sha, fresh) \in Answers
  BY DEF AnswerFor
<1>2. answers' \subseteq Answers
  BY <1>1 DEF Ledger
<1> QED BY <1>2 DEF Ledger

LEMMA AnswerExistingKeeps ==
  ASSUME BackupInvariant, AnswerExisting
  PROVE  BackupInvariant' /\ Grows
<1>1. /\ UNCHANGED <<entries, used, events, published, download, damaged, flushed, faults>>
      /\ backup.pc = "prepare" /\ backup' = Idle
  BY DEF AnswerExisting, volume, contents, At
<1>2. PICK b \in backupForRequest(backup.request) :
        answers' = answers \cup {AnswerFor(b, dir[Manifest(b)].sha, FALSE)}
  BY DEF AnswerExisting
<1>3. BackupArtifact(b)
  BY DEF backupForRequest
<1>4. b \in published /\ dir[Manifest(b)].sha \in 0..Cardinality(used) /\ backup.request \in Requests
  BY <1>1, <1>3, ArtifactIsKnown, PreparedRequest
<1>5. Calm
  BY <1>1, FrameStays, EntriesUnchanged DEF BackupInvariant
<1>6. Ledger'
  BY <1>1, <1>2, <1>4, LedgerGrows DEF BackupInvariant
<1>7. AnswersHold'
  <2>0. AnswerFor(b, dir[Manifest(b)].sha, FALSE).fresh = FALSE
    BY Zenon DEF AnswerFor
  <2>1. \A a \in answers' : a.fresh => a \in answers
    BY <1>2, <2>0
  <2> QED BY <2>1, <1>5, AnswersStay DEF BackupInvariant, Calm
<1>8. CallTyped' /\ CallInvariant'
  BY <1>1, NotWorking DEF CallTyped, CallInvariant
<1>9. Downloads'
  BY <1>1, DownloadsStay DEF BackupInvariant
<1> QED BY <1>5, <1>6, <1>7, <1>8, <1>9 DEF BackupInvariant, Calm

LEMMA NothingIncomplete ==
  ASSUME Incomplete = {}, NEW c \in Clock, Exists(DB(c))
  PROVE  Exists(Manifest(c))
<1> DEFINE temps == {m \in BackupNames : m[2] \in {"db.tmp", "manifest.tmp"} /\ Exists(m)}
           lonely == {DB(b) : b \in {x \in Clock : Exists(DB(x)) /\ ~Exists(Manifest(x))}}
           orphans == {Manifest(b) : b \in {x \in Clock : Exists(Manifest(x)) /\ ~Exists(DB(x))}}
<1>1. Incomplete = IF temps # {} THEN temps ELSE IF lonely # {} THEN lonely ELSE orphans
  BY DEF Incomplete
<1>2. lonely = {}
  BY <1>1
<1> QED BY <1>2

LEMMA SeqGrows ==
  ASSUME NEW S, NEW T, S \subseteq T, NEW s \in Seq(S)
  PROVE  s \in Seq(T)
<1>1. s \in [1..Len(s) -> S] /\ Len(s) \in Nat
  OBVIOUS
<1>2. s \in [1..Len(s) -> T]
  BY <1>1
<1> QED BY <1>1, <1>2

LEMMA SnapshotKeeps ==
  ASSUME BackupInvariant, NEW readable \in BOOLEAN, Snapshot(readable)
  PROVE  BackupInvariant' /\ Grows
<1>1. /\ UNCHANGED <<events, answers, published, download, damaged, flushed>>
      /\ backup.pc = "prepare" /\ Incomplete = {}
      /\ readable \/ faults < MaxFaults
      /\ faults' = IF readable THEN faults ELSE faults + 1
  BY DEF Snapshot, contents, callers, At
<1>2. PICK now \in Clock \ used :
        /\ used' = used \cup {now}
        /\ backup' = [pc |-> "checked", request |-> backup.request, base |-> now,
                      sha |-> Cardinality(used) + 1, audit |-> FALSE, old |-> {}]
        /\ Create(DBTmp(now), [kind |-> "db", base |-> now, sha |-> backup'.sha])
  BY DEF Snapshot
<1>3. /\ backup'.pc = "checked" /\ backup'.base = now /\ backup'.sha = Cardinality(used) + 1
      /\ backup'.old = {} /\ backup'.request = backup.request
  BY <1>2
<1>4. backup'.audit = FALSE
  BY <1>2, Zenon
<1>5. /\ IsFiniteSet(used) /\ IsFiniteSet(used') /\ Cardinality(used) \in Nat
      /\ Cardinality(used') = Cardinality(used) + 1
  BY <1>2, FS_AddElement, FS_CardinalityType DEF BackupInvariant, Ledger
<1>6. PICK f : f = [kind |-> "db", base |-> now, sha |-> Cardinality(used) + 1]
  OBVIOUS
<1>7. f \in Files /\ f.base = now /\ f.sha = Cardinality(used) + 1 /\ f.kind = "db"
  BY <1>5, <1>6 DEF Files
<1>8. Create(DBTmp(now), f)
  BY <1>2, <1>3, <1>6
<1>9. DBTmp(now) \in BackupNames /\ DBTmp(now)[1] = now /\ DBTmp(now)[2] = "db.tmp"
  BY NamesOf
<1>10. SoundAt(DBTmp(now), f)'
  BY <1>7, <1>9 DEF SoundAt
<1>11. /\ Names' /\ Grows /\ AllFiles' \subseteq AllFiles \cup {f}
       /\ dir' = [dir EXCEPT ![DBTmp(now)] = f]
  BY <1>1, <1>7, <1>8, <1>9, <1>10, FrameStays, EntryCreated DEF BackupInvariant
<1>12. \A g \in AllFiles \cup damaged : g.base \in used /\ g.base # now
  BY DEF BackupInvariant, FilesAgree
<1>13. \A g \in AllFiles : g \in Files /\ g.sha \in Nat /\ g.sha <= Cardinality(used)
  BY DEF BackupInvariant, FilesAgree, Files
<1>14. FilesAgree'
  <2>1. \A g \in AllFiles' : g \in Files /\ g.base \in used' /\ g.sha <= Cardinality(used')
    BY <1>2, <1>5, <1>7, <1>11, <1>12, <1>13
  <2>2. \A g, h \in AllFiles' : g.base = h.base => g.sha = h.sha
    BY <1>7, <1>11, <1>12 DEF BackupInvariant, FilesAgree
  <2> QED BY <1>1, <1>2, <2>1, <2>2 DEF BackupInvariant, FilesAgree
<1>15. Snapshotted'
  <2>1. backup'.base \in used' /\ backup'.sha = Cardinality(used')
    BY <1>2, <1>3, <1>5
  <2>2. \A g \in damaged' : g.base # backup'.base
    BY <1>1, <1>3, <1>12
  <2>3. \A g \in AllFiles' : IF g.base = backup'.base THEN g.sha = backup'.sha ELSE g.sha < backup'.sha
    BY <1>3, <1>5, <1>7, <1>11, <1>12, <1>13
  <2> QED BY <1>4, <2>1, <2>2, <2>3 DEF Snapshotted
<1>16. backup' \in Working
  <2>1. backup.request \in Requests
    BY <1>1, PreparedRequest
  <2> QED BY <1>2, <1>5, <2>1 DEF Working, WorkSteps
<1>17. dir \in [BackupNames -> Files \cup {NoFile}]
  BY DEF BackupInvariant, Names, Sound
<1>18. DatabaseDone'
  BY <1>3, <1>6, <1>9, <1>11, <1>17 DEF DatabaseDone, Early, Synced
<1>19. ManifestDone' /\ RotationKeeps'
  BY <1>3 DEF ManifestDone, RotationKeeps, Rotating
<1>20. OthersComplete'
  <2> SUFFICES ASSUME NEW c \in Clock, dir'[DB(c)] # NoFile PROVE dir'[Manifest(c)] # NoFile
    BY DEF OthersComplete
  <2>1. dir'[DB(c)] = dir[DB(c)] /\ dir'[Manifest(c)] = dir[Manifest(c)]
    BY <1>9, <1>11, <1>17, NamesOf
  <2> QED BY <1>1, <2>1, NothingIncomplete DEF Exists
<1>21. Ledger'
  <2>1. used' \subseteq Clock /\ published' \subseteq used'
    BY <1>1, <1>2 DEF BackupInvariant, Ledger
  <2>2. events' \in Seq([request : Requests, base : used'])
    <3>1. [request : Requests, base : used] \subseteq [request : Requests, base : used']
      BY <1>2
    <3> QED BY <1>1, <3>1, SeqGrows DEF BackupInvariant, Ledger
  <2>3. answers' \subseteq [request : Requests, base : published', sha : 0..Cardinality(used'), fresh : BOOLEAN]
    BY <1>1, <1>5 DEF BackupInvariant, Ledger
  <2>4. faults' \in 0..MaxFaults
    BY <1>1, Faults
  <2> QED BY <1>5, <2>1, <2>2, <2>3, <2>4 DEF Ledger
<1>22. AnswersHold' /\ Downloads'
  BY <1>1, <1>11, AnswersStay, DownloadsStay DEF BackupInvariant
<1>23. CallTyped' /\ CallInvariant'
  BY <1>15, <1>16, <1>18, <1>19, <1>20 DEF CallTyped, CallInvariant
<1> QED BY <1>11, <1>14, <1>21, <1>22, <1>23 DEF BackupInvariant

LEMMA DirTyped ==
  ASSUME BackupInvariant
  PROVE  /\ dir \in [BackupNames -> Files \cup {NoFile}] /\ dir \in possible
         /\ \A d \in possible : d \in [BackupNames -> Files \cup {NoFile}]
BY DEF BackupInvariant, Names, Sound

LEMMA SyncSnapshotKeeps ==
  ASSUME BackupInvariant, SyncSnapshot
  PROVE  BackupInvariant' /\ Grows
<1>1. /\ UNCHANGED <<entries, used, events, answers, published, download, damaged, faults>>
      /\ flushed' = flushed \cup {dir[DBTmp(backup.base)]}
      /\ backup.pc = "checked" /\ Goto("synced")
  BY DEF SyncSnapshot, SyncFile, callers, At
<1>2. backup \in Working /\ DatabaseDone /\ OthersComplete
  BY <1>1, WorkingCall
<1>3. SameCall /\ backup'.audit = backup.audit /\ backup'.pc = "synced"
  BY <1>1, <1>2, GotoFacts DEF WorkSteps
<1>4. Calm
  BY <1>1, FrameStays, EntriesUnchanged DEF BackupInvariant
<1>5. backup'.base = backup.base /\ backup'.sha = backup.sha /\ dir' = dir
  BY <1>1, <1>3 DEF SameCall, entries
<1>6. DatabaseDone'
  BY <1>1, <1>2, <1>3, <1>5 DEF DatabaseDone, Early, Synced
<1>7. ManifestDone' /\ RotationKeeps'
  BY <1>3 DEF ManifestDone, RotationKeeps, Rotating
<1>8. OthersComplete'
  BY <1>1, <1>2, <1>5 DEF OthersComplete, Rotating
<1> QED BY <1>1, <1>3, <1>4, <1>6, <1>7, <1>8, CallGoesOn DEF BackupInvariant, Ledger

(* The snapshot is on disk, and no power loss has torn it, when it gets    *)
(* its name.                                                               *)
LEMMA PublishSnapshotKeeps ==
  ASSUME BackupInvariant, PublishSnapshot
  PROVE  BackupInvariant' /\ Grows
<1>0. PICK b : b = backup.base
  OBVIOUS
<1>1. /\ UNCHANGED <<contents, used, events, answers, published, download, damaged, flushed, faults>>
      /\ Rename(DBTmp(b), DB(b)) /\ backup.pc = "synced" /\ Goto("renamed")
  BY <1>0 DEF PublishSnapshot, contents, callers, At
<1>2. backup \in Working /\ Snapshotted /\ DatabaseDone /\ OthersComplete /\ b \in Clock
  BY <1>0, <1>1, WorkingCall
<1>3. SameCall /\ backup'.audit = backup.audit /\ backup'.pc = "renamed"
  BY <1>1, <1>2, GotoFacts DEF WorkSteps
<1>4. PICK f : f = dir[DBTmp(b)]
  OBVIOUS
<1>5. f = [kind |-> "db", base |-> b, sha |-> backup.sha] /\ f \in flushed
  BY <1>0, <1>1, <1>2, <1>4 DEF DatabaseDone, Early
<1>6. f \in Files /\ f.base = b /\ f.kind = "db" /\ f # NoFile
  BY <1>2, <1>5, NoFileAssumption DEF Working, Files
<1>7. f \notin damaged
  BY <1>0, <1>2, <1>6 DEF Snapshotted
<1>8. /\ DB(b) \in BackupNames /\ DB(b)[1] = b /\ DB(b)[2] = "db"
      /\ DBTmp(b) \in BackupNames /\ DBTmp(b)[2] = "db.tmp" /\ DB(b) # DBTmp(b)
  BY <1>2, NamesOf
<1>9. SoundAt(DB(b), f)'
  BY <1>1, <1>5, <1>6, <1>7, <1>8 DEF SoundAt
<1>10. Calm /\ dir' = Moved(dir, DBTmp(b), DB(b), f)
  BY <1>1, <1>4, <1>6, <1>8, <1>9, FrameStays, EntryRenamed DEF BackupInvariant
<1>11. DatabaseDone'
  <2>1. backup'.base = b
    BY <1>0, <1>3 DEF SameCall
  <2>2. dir'[DB(b)] # NoFile
    BY <1>6, <1>8, <1>10, DirTyped DEF Moved
  <2> QED BY <1>3, <2>1, <2>2 DEF DatabaseDone, Early, Synced
<1>12. ManifestDone' /\ RotationKeeps'
  BY <1>3 DEF ManifestDone, RotationKeeps, Rotating
<1>13. OthersComplete'
  <2>1. \A c \in Clock \ {b} : dir'[DB(c)] = dir[DB(c)] /\ dir'[Manifest(c)] = dir[Manifest(c)]
    BY <1>2, <1>8, <1>10, NamesOf, DirTyped DEF Moved
  <2>2. backup.pc \notin Rotating /\ backup'.base = b
    BY <1>0, <1>1, <1>3 DEF Rotating, SameCall
  <2> QED BY <1>0, <1>2, <2>1, <2>2 DEF OthersComplete
<1> QED BY <1>1, <1>3, <1>10, <1>11, <1>12, <1>13, CallGoesOn DEF BackupInvariant, Ledger

LEMMA SyncPublishedKeeps ==
  ASSUME BackupInvariant, SyncPublished
  PROVE  BackupInvariant' /\ Grows
<1>1. /\ UNCHANGED <<contents, used, events, answers, published, download, damaged, flushed, faults>>
      /\ SyncDir /\ backup.pc = "renamed" /\ Goto("published")
  BY DEF SyncPublished, contents, callers, At
<1>2. backup \in Working /\ DatabaseDone /\ OthersComplete
  BY <1>1, WorkingCall
<1>3. SameCall /\ backup'.audit = backup.audit /\ backup'.pc = "published"
  BY <1>1, <1>2, GotoFacts DEF WorkSteps
<1>4. Calm /\ dir' = dir /\ possible' = {dir}
  BY <1>1, FrameStays, DirectorySynced DEF BackupInvariant
<1>5. backup'.base = backup.base
  BY <1>3 DEF SameCall
<1>6. DatabaseDone'
  BY <1>1, <1>2, <1>3, <1>4, <1>5 DEF DatabaseDone, Early
<1>7. ManifestDone' /\ RotationKeeps'
  BY <1>3 DEF ManifestDone, RotationKeeps, Rotating
<1>8. OthersComplete'
  BY <1>1, <1>2, <1>4, <1>5 DEF OthersComplete, Rotating
<1> QED BY <1>1, <1>3, <1>4, <1>6, <1>7, <1>8, CallGoesOn DEF BackupInvariant, Ledger

(* The event is committed before the manifest claims it.                   *)
LEMMA RecordKeeps ==
  ASSUME BackupInvariant, NEW ok \in BOOLEAN, RecordBackupCreated(ok)
  PROVE  BackupInvariant' /\ Grows
<1> DEFINE e == [request |-> backup.request, base |-> backup.base]
<1>1. /\ UNCHANGED <<entries, used, answers, published, download, damaged, flushed>>
      /\ backup.pc = "published"
      /\ ok \/ faults < MaxFaults
      /\ events' = IF ok THEN Append(events, e) ELSE events
      /\ faults' = IF ok THEN faults ELSE faults + 1
      /\ backup' = [backup EXCEPT !.pc = "recorded", !.audit = ok]
  BY DEF RecordBackupCreated, volume, contents, callers, At
<1>2. backup \in Working /\ Snapshotted /\ DatabaseDone /\ OthersComplete
  BY <1>1, WorkingCall
<1>3. SameCall /\ backup'.pc = "recorded"
  BY <1>1, <1>2 DEF SameCall, Working, WorkSteps
<1>4. backup'.audit = ok
  BY <1>1, <1>2, Zenon DEF Working
<1>5. e \in [request : Requests, base : used] /\ e.base = backup.base
  BY <1>2 DEF Snapshotted, Working
<1>6. events \in Seq([request : Requests, base : used])
  BY DEF BackupInvariant, Ledger
<1> HIDE DEF e
<1>7. /\ events' \in Seq([request : Requests, base : used])
      /\ \A i \in DOMAIN events : i \in DOMAIN events' /\ events'[i] = events[i]
      /\ ok => \E i \in DOMAIN events' : events'[i] = e
  <2>1. CASE ~ok
    BY <1>1, <1>6, <2>1
  <2>2. CASE ok
    <3>1. events' = Append(events, e)
      BY <1>1, <2>2
    <3>2. events' \in Seq([request : Requests, base : used]) /\ Len(events') = Len(events) + 1
      BY <1>5, <1>6, <3>1
    <3>3. \A i \in DOMAIN events : i \in DOMAIN events' /\ events'[i] = events[i]
      BY <1>5, <1>6, <3>1, <3>2
    <3>4. Len(events') \in DOMAIN events' /\ events'[Len(events')] = e
      BY <1>5, <1>6, <3>1, <3>2
    <3> QED BY <3>2, <3>3, <3>4
  <2> QED BY <2>1, <2>2
<1>8. \A b : AuditKnown(b) => AuditKnown(b)'
  BY <1>7 DEF AuditKnown
<1>9. Frame
  BY <1>1, <1>8 DEF Frame
<1>10. Calm
  BY <1>1, <1>9, EntriesUnchanged DEF BackupInvariant
<1>11. Snapshotted'
  <2>1. (backup.audit => AuditKnown(backup.base))'
    BY <1>3, <1>4, <1>5, <1>7 DEF AuditKnown, SameCall
  <2> QED BY <1>1, <1>2, <1>3, <1>10, <2>1 DEF Snapshotted, SameCall, Calm
<1>12. dir' = dir /\ possible' = possible /\ backup'.base = backup.base
  BY <1>1, <1>3 DEF entries, SameCall
<1>13. DatabaseDone'
  BY <1>1, <1>2, <1>3, <1>12 DEF DatabaseDone, Early, Synced
<1>14. ManifestDone' /\ RotationKeeps'
  BY <1>3 DEF ManifestDone, RotationKeeps, Rotating
<1>15. OthersComplete'
  BY <1>1, <1>2, <1>12 DEF OthersComplete, Rotating
<1>16. CallTyped' /\ CallInvariant'
  BY <1>3, <1>11, <1>13, <1>14, <1>15 DEF CallTyped, CallInvariant, SameCall
<1>17. Ledger'
  BY <1>1, <1>7, Faults DEF BackupInvariant, Ledger
<1>18. AnswersHold' /\ Downloads'
  BY <1>1, <1>10, AnswersStay, DownloadsStay DEF BackupInvariant, Calm
<1> QED BY <1>10, <1>16, <1>17, <1>18 DEF BackupInvariant, Calm

LEMMA ManifestIsFile ==
  ASSUME backup \in Working
  PROVE  /\ ManifestFile \in Files /\ ManifestFile # NoFile
         /\ ManifestFile.base = backup.base /\ ManifestFile.sha = backup.sha
         /\ ManifestFile.kind = "manifest" /\ ManifestFile.audit = backup.audit
<1>1. ManifestFile \in Files
  BY DEF Working, Files, ManifestFile
<1>2. ManifestFile.audit = backup.audit
  BY Zenon DEF ManifestFile
<1> QED BY <1>1, <1>2, NoFileAssumption DEF ManifestFile

(* WriteManifest, and a failure in the middle of it, which leaves the      *)
(* temporary file behind.                                                  *)
LEMMA ManifestTmpCreated ==
  ASSUME BackupInvariant, backup.pc = "recorded", Create(ManifestTmp(backup.base), ManifestFile),
         UNCHANGED <<contents, used, events, published>>
  PROVE  /\ Names' /\ FilesAgree' /\ Grows
         /\ \A g \in AllFiles' : IF g.base = backup.base THEN g.sha = backup.sha ELSE g.sha < backup.sha
         /\ \A c \in Clock : dir'[DB(c)] = dir[DB(c)] /\ dir'[Manifest(c)] = dir[Manifest(c)]
         /\ dir'[ManifestTmp(backup.base)] = ManifestFile
         /\ \A e \in possible' : \E d \in possible : e[DB(backup.base)] = d[DB(backup.base)]
<1>1. backup \in Working /\ Snapshotted /\ backup.base \in Clock
  BY WorkingCall
<1>2. PICK b : b = backup.base
  OBVIOUS
<1>3. PICK f : f = ManifestFile
  OBVIOUS
<1>4. f \in Files /\ f # NoFile /\ f.base = b /\ f.sha = backup.sha /\ f.kind = "manifest"
  BY <1>1, <1>2, <1>3, ManifestIsFile
<1>5. /\ ManifestTmp(b) \in BackupNames /\ ManifestTmp(b)[1] = b /\ ManifestTmp(b)[2] = "manifest.tmp"
      /\ DB(b) \in BackupNames /\ DB(b) # ManifestTmp(b)
  BY <1>1, <1>2, NamesOf
<1>6. SoundAt(ManifestTmp(b), f)'
  BY <1>4, <1>5 DEF SoundAt
<1>7. UNCHANGED <<damaged, flushed>> /\ Create(ManifestTmp(b), f)
  BY <1>2, <1>3 DEF contents
<1>8. /\ Names' /\ Grows /\ AllFiles' \subseteq AllFiles \cup {f}
      /\ dir' = [dir EXCEPT ![ManifestTmp(b)] = f]
      /\ \A e \in possible' : e \in possible \/ \E d \in possible : e = [d EXCEPT ![ManifestTmp(b)] = f]
  BY <1>4, <1>5, <1>6, <1>7, FrameStays, EntryCreated DEF BackupInvariant
<1>9. \A g \in AllFiles : IF g.base = b THEN g.sha = backup.sha ELSE g.sha < backup.sha
  BY <1>1, <1>2 DEF Snapshotted
<1>10. Cardinality(used) \in Nat /\ b \in used /\ f.sha = Cardinality(used)
  BY <1>1, <1>2, <1>4, FS_CardinalityType DEF BackupInvariant, Ledger, Snapshotted
<1>11. FilesAgree'
  <2>1. \A g \in AllFiles' : g \in Files /\ g.base \in used /\ g.sha <= Cardinality(used)
    BY <1>4, <1>8, <1>10 DEF BackupInvariant, FilesAgree
  <2>2. \A g, h \in AllFiles' : g.base = h.base => g.sha = h.sha
    BY <1>4, <1>8, <1>9 DEF BackupInvariant, FilesAgree
  <2> QED BY <1>7, <2>1, <2>2 DEF BackupInvariant, FilesAgree
<1>12. \A g \in AllFiles' : IF g.base = b THEN g.sha = backup.sha ELSE g.sha < backup.sha
  BY <1>4, <1>8, <1>9
<1>13. \A c \in Clock : dir'[DB(c)] = dir[DB(c)] /\ dir'[Manifest(c)] = dir[Manifest(c)]
  BY <1>5, <1>8, NamesOf, DirTyped
<1>14. dir'[ManifestTmp(b)] = f
  BY <1>5, <1>8, DirTyped
<1>15. \A e \in possible' : \E d \in possible : e[DB(b)] = d[DB(b)]
  BY <1>5, <1>8, DirTyped
<1> QED BY <1>2, <1>3, <1>8, <1>11, <1>12, <1>13, <1>14, <1>15

LEMMA WriteManifestKeeps ==
  ASSUME BackupInvariant, WriteManifest
  PROVE  BackupInvariant' /\ Grows
<1>1. /\ UNCHANGED <<contents, used, events, answers, published, download, damaged, flushed, faults>>
      /\ Create(ManifestTmp(backup.base), ManifestFile)
      /\ backup.pc = "recorded" /\ Goto("written")
  BY DEF WriteManifest, contents, callers, At
<1>2. backup \in Working /\ Snapshotted /\ DatabaseDone /\ OthersComplete /\ backup.base \in Clock
  BY <1>1, WorkingCall
<1>3. SameCall /\ backup'.audit = backup.audit /\ backup'.pc = "written"
  BY <1>1, <1>2, GotoFacts DEF WorkSteps
<1>4. backup'.base = backup.base /\ backup'.sha = backup.sha /\ ManifestFile' = ManifestFile
  BY <1>3 DEF SameCall, ManifestFile
<1>5. /\ Names' /\ FilesAgree' /\ Grows
      /\ \A g \in AllFiles' : IF g.base = backup.base THEN g.sha = backup.sha ELSE g.sha < backup.sha
      /\ \A c \in Clock : dir'[DB(c)] = dir[DB(c)] /\ dir'[Manifest(c)] = dir[Manifest(c)]
      /\ dir'[ManifestTmp(backup.base)] = ManifestFile
      /\ \A e \in possible' : \E d \in possible : e[DB(backup.base)] = d[DB(backup.base)]
  BY <1>1, ManifestTmpCreated
<1>6. Snapshotted'
  BY <1>1, <1>2, <1>3, <1>4, <1>5 DEF Snapshotted, AuditKnown
<1>7. DatabaseDone'
  BY <1>1, <1>2, <1>3, <1>4, <1>5 DEF DatabaseDone, Early, Synced
<1>8. ManifestDone'
  BY <1>3, <1>4, <1>5 DEF ManifestDone
<1>9. RotationKeeps'
  BY <1>3 DEF RotationKeeps, Rotating
<1>10. OthersComplete'
  BY <1>1, <1>2, <1>4, <1>5 DEF OthersComplete, Rotating
<1>11. CallTyped' /\ CallInvariant'
  BY <1>3, <1>6, <1>7, <1>8, <1>9, <1>10 DEF CallTyped, CallInvariant, SameCall
<1>12. Ledger' /\ AnswersHold' /\ Downloads'
  BY <1>1, <1>5, LedgerStays, AnswersStay, DownloadsStay DEF BackupInvariant, Ledger
<1> QED BY <1>5, <1>11, <1>12 DEF BackupInvariant

LEMMA SyncManifestTmpKeeps ==
  ASSUME BackupInvariant, SyncManifestTmp
  PROVE  BackupInvariant' /\ Grows
<1>1. /\ UNCHANGED <<entries, used, events, answers, published, download, damaged, faults>>
      /\ flushed' = flushed \cup {dir[ManifestTmp(backup.base)]}
      /\ backup.pc = "written" /\ Goto("manifest synced")
  BY DEF SyncManifestTmp, SyncFile, callers, At
<1>2. backup \in Working /\ DatabaseDone /\ ManifestDone /\ OthersComplete
  BY <1>1, WorkingCall
<1>3. SameCall /\ backup'.audit = backup.audit /\ backup'.pc = "manifest synced"
  BY <1>1, <1>2, GotoFacts DEF WorkSteps
<1>4. Calm
  BY <1>1, FrameStays, EntriesUnchanged DEF BackupInvariant
<1>5. /\ backup'.base = backup.base /\ dir' = dir /\ possible' = possible
      /\ ManifestFile' = ManifestFile
  BY <1>1, <1>3 DEF SameCall, entries, ManifestFile
<1>6. DatabaseDone'
  BY <1>1, <1>2, <1>3, <1>5 DEF DatabaseDone, Early, Synced
<1>7. ManifestDone'
  BY <1>1, <1>2, <1>3, <1>5 DEF ManifestDone
<1>8. RotationKeeps'
  BY <1>3 DEF RotationKeeps, Rotating
<1>9. OthersComplete'
  BY <1>1, <1>2, <1>5 DEF OthersComplete, Rotating
<1> QED BY <1>1, <1>3, <1>4, <1>6, <1>7, <1>8, <1>9, CallGoesOn DEF BackupInvariant, Ledger

LEMMA PublishManifestKeeps ==
  ASSUME BackupInvariant, PublishManifest
  PROVE  BackupInvariant' /\ Grows
<1>0. PICK b : b = backup.base
  OBVIOUS
<1>1. /\ UNCHANGED <<contents, used, events, answers, download, damaged, flushed, faults>>
      /\ published' = published \cup {b}
      /\ Rename(ManifestTmp(b), Manifest(b)) /\ backup.pc = "manifest synced" /\ Goto("complete")
  BY <1>0 DEF PublishManifest, contents, At
<1>2. backup \in Working /\ Snapshotted /\ DatabaseDone /\ ManifestDone /\ OthersComplete /\ b \in Clock
  BY <1>0, <1>1, WorkingCall
<1>3. SameCall /\ backup'.audit = backup.audit /\ backup'.pc = "complete"
  BY <1>1, <1>2, GotoFacts DEF WorkSteps
<1>4. PICK f : f = dir[ManifestTmp(b)]
  OBVIOUS
<1>5. f = ManifestFile /\ f \in flushed
  BY <1>0, <1>1, <1>2, <1>4 DEF ManifestDone
<1>6. f \in Files /\ f.base = b /\ f.kind = "manifest" /\ f # NoFile /\ f.audit = backup.audit
  BY <1>0, <1>2, <1>5, ManifestIsFile
<1>7. f \notin damaged
  BY <1>0, <1>2, <1>6 DEF Snapshotted
<1>8. /\ Manifest(b) \in BackupNames /\ Manifest(b)[1] = b /\ Manifest(b)[2] = "manifest"
      /\ ManifestTmp(b) \in BackupNames /\ ManifestTmp(b)[2] = "manifest.tmp" /\ Manifest(b) # ManifestTmp(b)
      /\ DB(b) \in BackupNames /\ DB(b) # Manifest(b) /\ DB(b) # ManifestTmp(b)
  BY <1>2, NamesOf
<1>9. SoundAt(Manifest(b), f)'
  <2>1. f.audit => AuditKnown(b)'
    BY <1>0, <1>1, <1>2, <1>6 DEF Snapshotted, AuditKnown
  <2> QED BY <1>1, <1>5, <1>6, <1>7, <1>8, <2>1 DEF SoundAt
<1>10. /\ Calm /\ dir' = Moved(dir, ManifestTmp(b), Manifest(b), f)
       /\ \A e \in possible' : e \in possible \/ \E d \in possible : e = Moved(d, ManifestTmp(b), Manifest(b), f)
  <2>1. Frame
    BY <1>1, FrameStays
  <2> QED BY <1>1, <1>4, <1>6, <1>8, <1>9, <2>1, EntryRenamed DEF BackupInvariant
<1>11. backup'.base = b
  BY <1>0, <1>3 DEF SameCall
<1>12. DatabaseDone'
  <2>1. \A d \in possible : d[DB(b)] # NoFile
    BY <1>0, <1>1, <1>2 DEF DatabaseDone, Synced
  <2>2. \A e \in possible' : e[DB(b)] # NoFile
    BY <1>8, <1>10, <2>1, DirTyped DEF Moved
  <2> QED BY <1>3, <1>11, <2>2 DEF DatabaseDone, Early
<1>13. ManifestDone'
  <2>1. dir'[Manifest(b)] # NoFile
    BY <1>6, <1>8, <1>10, DirTyped DEF Moved
  <2> QED BY <1>3, <1>11, <2>1 DEF ManifestDone
<1>14. RotationKeeps'
  BY <1>3 DEF RotationKeeps, Rotating
<1>15. OthersComplete'
  <2>1. \A c \in Clock \ {b} : dir'[DB(c)] = dir[DB(c)] /\ dir'[Manifest(c)] = dir[Manifest(c)]
    BY <1>2, <1>8, <1>10, NamesOf, DirTyped DEF Moved
  <2>2. backup.pc \notin Rotating
    BY <1>1 DEF Rotating
  <2> QED BY <1>0, <1>2, <1>11, <2>1, <2>2 DEF OthersComplete
<1>16. published \subseteq published' /\ published' \subseteq used
  BY <1>0, <1>1, <1>2 DEF BackupInvariant, Ledger, Snapshotted
<1> QED BY <1>1, <1>3, <1>10, <1>12, <1>13, <1>14, <1>15, <1>16, CallGoesOn DEF BackupInvariant, Ledger

LEMMA HeldIsFinite ==
  ASSUME BackupInvariant
  PROVE  Held \subseteq used /\ Held \subseteq Nat /\ IsFiniteSet(used)
<1> SUFFICES ASSUME NEW c \in Held PROVE c \in used
  BY BackupAssumption DEF BackupInvariant, Ledger, Held
<1>1. dir[DB(c)] \in AllFiles /\ dir[DB(c)].base = c
  BY HeldDatabase DEF BackupInvariant, Names
<1> QED BY <1>1 DEF BackupInvariant, FilesAgree

(* What rotateBackupsWithAge selects leaves Keep complete backups, all of  *)
(* them newer, and the backup that was just made.                          *)
LEMMA SyncManifestKeeps ==
  ASSUME BackupInvariant, SyncManifest
  PROVE  BackupInvariant' /\ Grows
<1>1. /\ UNCHANGED <<contents, used, events, answers, published, download, damaged, flushed, faults>>
      /\ SyncDir /\ backup.pc = "complete"
  BY DEF SyncManifest, contents, callers, At
<1>1a. PICK old \in SUBSET Expired(backup.base) : backup' = [backup EXCEPT !.pc = "rotate", !.old = old]
  BY DEF SyncManifest
<1>2. backup \in Working /\ Snapshotted /\ DatabaseDone /\ ManifestDone /\ OthersComplete /\ backup.base \in Clock
  BY <1>1, WorkingCall
<1>3. old \subseteq Clock
  BY DEF Expired
<1>4. /\ SameCall /\ backup'.audit = backup.audit /\ backup'.pc = "rotate"
      /\ backup'.old = old
  BY <1>1, <1>1a, <1>2, <1>3 DEF SameCall, Working, WorkSteps
<1>5. Calm /\ dir' = dir /\ possible' = {dir}
  BY <1>1, FrameStays, DirectorySynced DEF BackupInvariant
<1>6. DatabaseDone' /\ ManifestDone' /\ OthersComplete'
  BY <1>4 DEF DatabaseDone, ManifestDone, OthersComplete, Early, Synced, Rotating
<1> DEFINE databases == {b \in Clock : Exists(DB(b))}
           Newer(b) == {c \in databases : c > b}
<1>7. \A b : b \in Expired(backup.base) <=>
               b \in databases /\ Cardinality(Newer(b)) >= Keep /\ backup.base >= b + MinAge
  BY DEF Expired
<1>8. databases \subseteq used /\ used \subseteq Clock /\ Clock \subseteq Nat /\ IsFiniteSet(used)
  <2> SUFFICES ASSUME NEW b \in databases PROVE b \in used
    BY BackupAssumption DEF BackupInvariant, Ledger
  <2>1. dir[DB(b)] # NoFile /\ DB(b) \in BackupNames /\ DB(b)[1] = b
    BY NamesOf DEF Exists
  <2>2. dir[DB(b)].base = b /\ dir[DB(b)] \in AllFiles
    BY <2>1, FileIsSomewhere DEF BackupInvariant, Names, Sound, SoundAt
  <2> QED BY <2>2 DEF BackupInvariant, FilesAgree
<1>9. databases \subseteq Held'
  <2> SUFFICES ASSUME NEW b \in databases PROVE b \in Pairs(dir)
    BY <1>5 DEF Held
  <2>1. dir[Manifest(b)] # NoFile
    BY <1>1, <1>2 DEF OthersComplete, ManifestDone, Rotating, Exists
  <2> QED BY <2>1 DEF Pairs, Exists
<1>10. backup.base \in databases
  BY <1>1, <1>2, DirTyped DEF DatabaseDone, Synced, Exists
<1> HIDE DEF databases, Newer
<1>11. \A x \in old : x \in used /\ x \in Nat /\ x < backup.base
  <2>1. MinAge \in Nat /\ MinAge > 0
    BY BackupAssumption
  <2> SUFFICES ASSUME NEW x \in old PROVE x \in used /\ x \in Nat /\ x < backup.base
    OBVIOUS
  <2>2. x \in used /\ x \in Nat /\ backup.base \in Nat /\ backup.base >= x + MinAge
    BY <1>2, <1>7, <1>8
  <2> QED BY <2>1, <2>2
<1>12. ASSUME old # {} PROVE Cardinality(Kept') >= Keep
  <2>1. IsFiniteSet(old)
    BY <1>8, <1>11, FS_Subset
  <2>2. PICK m : m = Max(old)
    OBVIOUS
  <2>3. m \in old /\ \A x \in old : x <= m
    BY <1>11, <1>12, <2>1, <2>2, MaxExists
  <2>4. Newer(m) \subseteq Kept'
    <3> SUFFICES ASSUME NEW c \in Newer(m) PROVE c \in Held' /\ \A x \in backup'.old : x < c
      BY DEF Kept
    <3>1. c \in databases /\ c > m /\ c \in Nat /\ m \in Nat
      BY <1>8, <1>11, <2>3 DEF Newer
    <3>2. \A x \in old : x \in Nat /\ x <= m
      BY <1>11, <2>3
    <3>3. \A x \in old : x < c
      BY <3>1, <3>2
    <3> QED BY <1>4, <1>9, <3>1, <3>3
  <2>5. Kept' \subseteq used'
    <3>1. Kept' \subseteq Pairs(dir)
      BY <1>5 DEF Kept, Held
    <3>2. Pairs(dir) \subseteq databases
      BY DEF Pairs, databases, Exists
    <3> QED BY <1>1, <1>8, <3>1, <3>2
  <2>6. IsFiniteSet(Kept') /\ Cardinality(Newer(m)) <= Cardinality(Kept')
    BY <1>1, <1>8, <2>4, <2>5, FS_Subset
  <2>7. Cardinality(Newer(m)) >= Keep
    BY <1>7, <2>3
  <2>8. Cardinality(Newer(m)) \in Nat /\ Cardinality(Kept') \in Nat /\ Keep \in Nat
    BY <2>4, <2>6, FS_Subset, FS_CardinalityType, BackupAssumption
  <2> QED BY <2>6, <2>7, <2>8
<1>13. RotationKeeps'
  BY <1>1, <1>4, <1>9, <1>10, <1>11, <1>12 DEF RotationKeeps, SameCall
<1> QED BY <1>1, <1>4, <1>5, <1>6, <1>13, CallGoesOn DEF BackupInvariant, Ledger

LEMMA BaseIsHeld ==
  ASSUME BackupInvariant, backup.pc \in Rotating
  PROVE  /\ backup \in Working /\ Snapshotted /\ RotationKeeps
         /\ backup.base \in Held /\ backup.base \in Clock /\ backup.base \in published
         /\ dir[DB(backup.base)].sha = backup.sha
<1>1. /\ backup \in Working /\ Snapshotted /\ RotationKeeps /\ backup.base \in Clock
      /\ backup.base \in Held
  BY WorkingCall DEF Rotating, RotationKeeps
<1>2. dir[DB(backup.base)] \in AllFiles /\ dir[DB(backup.base)].base = backup.base
  BY <1>1, HeldDatabase DEF BackupInvariant, Names
<1>3. dir[DB(backup.base)].sha = backup.sha
  BY <1>1, <1>2 DEF Snapshotted
<1>4. backup.base \in published
  <2>1. dir[Manifest(backup.base)] # NoFile /\ dir \in possible
    BY <1>1, HeldEntries DEF BackupInvariant, Names
  <2> QED BY <1>1, <2>1, NamesOf DEF BackupInvariant, Names, Sound, SoundAt
<1> QED BY <1>1, <1>3, <1>4

LEMMA DatabaseRemoved ==
  ASSUME Names, FilesAgree, UNCHANGED <<contents, used, events, published>>, NEW m \in Clock, Remove(DB(m))
  PROVE  /\ Names' /\ FilesAgree' /\ AllFiles' \subseteq AllFiles
         /\ Held' = Held \ {m}
         /\ dir'[DB(m)] = NoFile
         /\ \A c \in Clock \ {m} : dir'[DB(c)] = dir[DB(c)]
<1> DEFINE op == [x \in {DB(m)} |-> NoFile]
<1>1. Change(op) /\ DOMAIN op = {DB(m)} /\ op[DB(m)] = NoFile
  BY DEF Remove
<1>2. \A d \in possible : d \in [BackupNames -> Files \cup {NoFile}]
  BY DEF Names, Sound
<1>3. UNCHANGED <<damaged, flushed>> /\ Frame
  BY FrameStays DEF contents
<1> HIDE DEF op
<1>4. Names'
  BY <1>1, <1>3, ChangeKeepsNames
<1>5. AllFiles' \subseteq AllFiles
  <2> SUFFICES ASSUME NEW f \in AllFiles' PROVE f \in AllFiles
    OBVIOUS
  <2>1. f # NoFile
    BY DEF AllFiles, FilesOf
  <2> QED BY <1>1, <1>4, <2>1, ChangeFiles
<1>6. FilesAgree'
  BY <1>3, <1>5, AgreeStays DEF FilesAgree
<1>7. \A c \in Clock : /\ DB(c) \in BackupNames /\ Manifest(c) \in BackupNames
                       /\ DB(c) = DB(m) <=> c = m
                       /\ Manifest(c) # DB(m)
  BY NamesOf
<1>8. \A d \in possible : /\ Apply(op, d)[DB(m)] = NoFile
                          /\ \A c \in Clock : Apply(op, d)[Manifest(c)] = d[Manifest(c)]
                          /\ \A c \in Clock \ {m} : Apply(op, d)[DB(c)] = d[DB(c)]
  BY <1>1, <1>2, <1>7, AppliedEntry
<1>9. /\ dir' = Apply(op, dir) /\ dir' \in possible' /\ dir \in possible /\ possible \subseteq possible'
      /\ \A e \in possible' : e \in possible \/ \E d \in possible : e = Apply(op, d)
  BY <1>1, ChangedDirectories DEF Names
<1>10. Held' \subseteq Held /\ m \notin Held'
  BY <1>8, <1>9 DEF Held, Pairs
<1>11. ASSUME NEW c \in Held, c # m PROVE c \in Held'
  <2>1. c \in Clock /\ \A d \in possible : d[DB(c)] # NoFile /\ d[Manifest(c)] # NoFile
    BY HeldEntries DEF Held
  <2>2. \A e \in possible' : e[DB(c)] # NoFile /\ e[Manifest(c)] # NoFile
    BY <1>8, <1>9, <1>11, <2>1
  <2> QED BY <2>1, <2>2 DEF Held, Pairs
<1>12. Held' = Held \ {m}
  BY <1>10, <1>11
<1> QED BY <1>4, <1>5, <1>6, <1>8, <1>9, <1>12

LEMMA NewestExpired ==
  ASSUME BackupInvariant, backup.pc \in Rotating, backup.old # {}
  PROVE  /\ Max(backup.old) \in backup.old /\ Max(backup.old) \in Clock
         /\ \A x \in backup.old : x \in Nat /\ x < backup.base
         /\ Max(backup.old) # backup.base
<1>1. backup \in Working /\ RotationKeeps
  BY BaseIsHeld
<1>2. backup.old \subseteq used /\ used \subseteq Clock /\ Clock \subseteq Nat /\ IsFiniteSet(used)
  BY <1>1, BackupAssumption DEF BackupInvariant, Ledger, RotationKeeps
<1>3. Max(backup.old) \in backup.old
  BY <1>2, FS_Subset, MaxExists
<1>4. \A x \in backup.old : x \in Nat /\ x < backup.base
  BY <1>1, <1>2 DEF RotationKeeps
<1>5. backup.base \in Nat
  BY <1>1, <1>2 DEF Working
<1> QED BY <1>2, <1>3, <1>4, <1>5

(* Rotation takes one backup, when Keep others are left.                   *)
Rotates ==
  \E m \in Clock :
    /\ Held' = Held \ {m}
    /\ Cardinality(Held') >= Keep
    /\ \A c \in Held' : dir'[DB(c)] = dir[DB(c)]
    /\ m \in Held => \E c \in Held' : dir[DB(c)].sha > dir[DB(m)].sha

LEMMA RotateDatabaseKeeps ==
  ASSUME BackupInvariant, RotateDatabase
  PROVE  BackupInvariant' /\ Rotates
<1>0. PICK m : m = Max(backup.old)
  OBVIOUS
<1>1. /\ UNCHANGED <<contents, used, events, answers, published, download, damaged, flushed, faults>>
      /\ backup.pc \in Rotating /\ backup.old # {}
      /\ Remove(DB(m)) /\ Goto("rotate manifest")
  BY <1>0 DEF RotateDatabase, contents, callers, Rotating
<1>2. /\ backup \in Working /\ Snapshotted /\ RotationKeeps
      /\ backup.base \in Held /\ backup.base \in Clock /\ dir[DB(backup.base)].sha = backup.sha
  BY <1>1, BaseIsHeld
<1>3. /\ m \in backup.old /\ m \in Clock /\ m # backup.base
      /\ \A x \in backup.old : x \in Nat /\ x < backup.base
  BY <1>0, <1>1, NewestExpired
<1>4. /\ SameCall /\ backup'.audit = backup.audit /\ backup'.old = backup.old
      /\ backup'.pc = "rotate manifest"
  BY <1>1, <1>2, GotoFacts DEF WorkSteps
<1>5. /\ Names' /\ FilesAgree' /\ AllFiles' \subseteq AllFiles
      /\ Held' = Held \ {m} /\ dir'[DB(m)] = NoFile
      /\ \A c \in Clock \ {m} : dir'[DB(c)] = dir[DB(c)]
  BY <1>1, <1>3, DatabaseRemoved DEF BackupInvariant
<1>6. backup'.base = backup.base /\ backup'.sha = backup.sha
  BY <1>4 DEF SameCall
<1>7. Kept \subseteq Kept' /\ Kept' \subseteq Held' /\ Held' \subseteq used /\ IsFiniteSet(used)
  <2>1. \A c \in Kept : c \in Held /\ c \in Nat /\ \A x \in backup.old : x < c
    BY HeldIsFinite DEF Kept
  <2>2. \A c \in Kept : c # m
    BY <1>3, <2>1
  <2> QED BY <1>4, <1>5, <2>1, <2>2, HeldIsFinite DEF Kept
<1>8. Cardinality(Kept') >= Keep /\ Cardinality(Held') >= Keep
  <2>1. IsFiniteSet(Held') /\ IsFiniteSet(Kept') /\ IsFiniteSet(Kept)
    BY <1>7, FS_Subset
  <2>2. Cardinality(Kept) <= Cardinality(Kept') /\ Cardinality(Kept') <= Cardinality(Held')
    BY <1>7, <2>1, FS_Subset
  <2>3. Cardinality(Kept) >= Keep
    BY <1>1, <1>2 DEF RotationKeeps
  <2>4. {Cardinality(Kept), Cardinality(Kept'), Cardinality(Held'), Keep} \subseteq Nat
    BY <2>1, FS_CardinalityType, BackupAssumption
  <2> QED BY <2>2, <2>3, <2>4
<1>9. RotationKeeps'
  BY <1>0, <1>1, <1>2, <1>3, <1>4, <1>5, <1>6, <1>8 DEF RotationKeeps
<1>10. Snapshotted'
  BY <1>1, <1>2, <1>4, <1>5, <1>6 DEF Snapshotted, AuditKnown
<1>11. DatabaseDone' /\ ManifestDone' /\ OthersComplete'
  BY <1>4 DEF DatabaseDone, ManifestDone, OthersComplete, Early, Synced, Rotating
<1>12. CallTyped' /\ CallInvariant'
  BY <1>4, <1>9, <1>10, <1>11 DEF CallTyped, CallInvariant, SameCall
<1>13. dir'[DB(backup.base)].sha = Cardinality(used) /\ backup.base \in Held'
  BY <1>2, <1>3, <1>5 DEF Snapshotted
<1>14. AnswersHold'
  <2> SUFFICES ASSUME NEW a \in answers PROVE dir'[DB(backup.base)].sha >= a.sha
    BY <1>1, <1>13 DEF AnswersHold
  <2>1. a.sha \in 0..Cardinality(used) /\ Cardinality(used) \in Nat
    BY FS_CardinalityType DEF BackupInvariant, Ledger
  <2> QED BY <1>13, <2>1
<1>15. Ledger' /\ Downloads'
  BY <1>1, LedgerStays, DownloadsStay DEF BackupInvariant, Ledger
<1>16. Rotates
  <2>1. \A c \in Held' : dir'[DB(c)] = dir[DB(c)]
    BY <1>5 DEF Held
  <2>2. m \in Held => dir[DB(backup.base)].sha > dir[DB(m)].sha
    <3> SUFFICES ASSUME m \in Held PROVE dir[DB(backup.base)].sha > dir[DB(m)].sha
      OBVIOUS
    <3>1. dir[DB(m)] \in AllFiles /\ dir[DB(m)].base = m
      BY HeldDatabase DEF BackupInvariant, Names
    <3>2. dir[DB(m)].sha < backup.sha /\ dir[DB(m)].sha \in Nat /\ backup.sha \in Nat
      BY <1>2, <1>3, <3>1 DEF Snapshotted, BackupInvariant, FilesAgree, Files, Working
    <3> QED BY <1>2, <3>2
  <2> QED BY <1>3, <1>5, <1>8, <1>13, <2>1, <2>2 DEF Rotates
<1> QED BY <1>5, <1>12, <1>14, <1>15, <1>16 DEF BackupInvariant

LEMMA RotateManifestKeeps ==
  ASSUME BackupInvariant, NEW ok \in BOOLEAN, RotateManifest(ok)
  PROVE  BackupInvariant' /\ Grows
<1>0. PICK m : m = Max(backup.old)
  OBVIOUS
<1>1. /\ UNCHANGED <<contents, used, events, answers, published, download, damaged, flushed>>
      /\ backup.pc = "rotate manifest" /\ backup.pc \in Rotating
      /\ IF ok THEN Remove(Manifest(m)) ELSE UNCHANGED entries
      /\ ok \/ faults < MaxFaults
      /\ faults' = IF ok THEN faults ELSE faults + 1
      /\ backup' = [backup EXCEPT !.pc = "rotated", !.old = backup.old \ {m}]
  BY <1>0 DEF RotateManifest, contents, callers, Rotating, At
<1>2. backup \in Working /\ RotationKeeps /\ backup.base \in Held
  BY <1>1, BaseIsHeld
<1>3. backup.old # {} /\ dir[DB(m)] = NoFile
  BY <1>0, <1>1, <1>2 DEF RotationKeeps
<1>4. m \in Clock
  BY <1>0, <1>1, <1>3, NewestExpired
<1>5. /\ SameCall /\ backup'.audit = backup.audit /\ backup'.pc = "rotated"
      /\ backup'.old = backup.old \ {m}
  BY <1>1, <1>2 DEF SameCall, Working, WorkSteps
<1>6. Calm
  <2>1. CASE ~ok
    BY <1>1, <2>1, FrameStays, EntriesUnchanged DEF BackupInvariant
  <2>2. CASE ok
    <3>1. Manifest(m) \in BackupNames /\ \A c \in Clock : Manifest(m) # DB(c) /\ (Manifest(m) = Manifest(c) => c = m)
      BY <1>4, NamesOf
    <3>2. m \notin Held /\ Held \subseteq Clock
      BY <1>3, HeldEntries DEF Held, BackupInvariant, Names
    <3>3. \A c \in Held : Manifest(m) # DB(c) /\ Manifest(m) # Manifest(c)
      BY <3>1, <3>2
    <3> QED BY <1>1, <2>2, <3>1, <3>3, FrameStays, EntryRemoved DEF BackupInvariant
  <2> QED BY <2>1, <2>2
<1>7. Held \subseteq Held' /\ backup'.base = backup.base /\ backup.base \in Held'
  BY <1>2, <1>5, <1>6 DEF Calm, Grows, SameCall
<1>8. Held' \subseteq used /\ IsFiniteSet(used)
  <2>1. ASSUME NEW c \in Held' PROVE c \in used
    <3>1. c \in Clock /\ dir'[DB(c)] # NoFile /\ dir' \in possible' /\ DB(c) \in BackupNames /\ DB(c)[1] = c
      BY <1>6, NamesOf DEF Calm, Names, Held, Pairs
    <3>2. dir'[DB(c)].base = c /\ dir'[DB(c)] \in AllFiles'
      BY <1>6, <3>1 DEF Calm, Names, Sound, SoundAt, AllFiles, FilesOf
    <3> QED BY <1>1, <1>6, <3>2 DEF Calm, FilesAgree
  <2> QED BY <2>1, HeldIsFinite
<1>9. Kept \subseteq Kept' /\ Kept' \subseteq Held'
  BY <1>5, <1>7 DEF Kept
<1>10. Cardinality(Kept') >= Keep
  <2>1. IsFiniteSet(Kept') /\ IsFiniteSet(Kept) /\ Cardinality(Kept) <= Cardinality(Kept')
    BY <1>8, <1>9, FS_Subset
  <2>2. Cardinality(Kept) >= Keep
    BY <1>1, <1>2, <1>3 DEF RotationKeeps
  <2>3. {Cardinality(Kept), Cardinality(Kept'), Keep} \subseteq Nat
    BY <2>1, FS_CardinalityType, BackupAssumption
  <2> QED BY <2>1, <2>2, <2>3
<1>11. RotationKeeps'
  BY <1>1, <1>2, <1>5, <1>7, <1>10 DEF RotationKeeps
<1>12. DatabaseDone' /\ ManifestDone' /\ OthersComplete'
  BY <1>5 DEF DatabaseDone, ManifestDone, OthersComplete, Early, Synced, Rotating
<1>13. faults' \in 0..MaxFaults /\ published \subseteq published' /\ published' \subseteq used
  BY <1>1, Faults DEF BackupInvariant, Ledger
<1> QED BY <1>1, <1>5, <1>6, <1>11, <1>12, <1>13, CallGoesOn

(* Whoever is answered finds the backup, or a newer one, complete.         *)
LEMMA AnswerKeeps ==
  ASSUME BackupInvariant, Answer
  PROVE  BackupInvariant' /\ Grows
<1>1. /\ UNCHANGED <<contents, used, events, published, download, damaged, flushed, faults>>
      /\ backup.pc \in Rotating /\ backup' = Idle
      /\ SyncDir \/ UNCHANGED entries
      /\ answers' = answers \cup {AnswerFor(backup.base, backup.sha, TRUE)}
  BY DEF Answer, contents, Rotating
<1>2. /\ backup \in Working /\ Snapshotted /\ backup.base \in Held /\ backup.base \in published
      /\ dir[DB(backup.base)].sha = backup.sha
  BY <1>1, BaseIsHeld
<1>3. Calm
  BY <1>1, FrameStays, EntriesUnchanged, DirectorySynced DEF BackupInvariant
<1>4. Ledger'
  <2>1. backup.sha \in 0..Cardinality(used) /\ backup.request \in Requests
    BY <1>2, FS_CardinalityType DEF Snapshotted, Working, BackupInvariant, Ledger
  <2> QED BY <1>1, <1>2, <2>1, LedgerGrows DEF BackupInvariant
<1>5. AnswersHold'
  <2> SUFFICES ASSUME NEW a \in answers', a.fresh PROVE \E c \in Held' : dir'[DB(c)].sha >= a.sha
    BY DEF AnswersHold
  <2>1. CASE a \in answers
    BY <1>3, <2>1 DEF BackupInvariant, AnswersHold, Calm, Grows
  <2>2. CASE a = AnswerFor(backup.base, backup.sha, TRUE)
    <3>1. a.sha = backup.sha /\ backup.sha \in Nat
      BY <1>2, <2>2 DEF AnswerFor, Working
    <3>2. backup.base \in Held' /\ dir'[DB(backup.base)].sha = backup.sha
      BY <1>2, <1>3 DEF Calm, Grows
    <3> QED BY <3>1, <3>2
  <2> QED BY <1>1, <2>1, <2>2
<1>6. CallTyped' /\ CallInvariant'
  BY <1>1, NotWorking DEF CallTyped, CallInvariant
<1>7. Downloads'
  BY <1>1, DownloadsStay DEF BackupInvariant
<1> QED BY <1>3, <1>4, <1>5, <1>6, <1>7 DEF BackupInvariant, Calm

LEMMA FailKeeps ==
  ASSUME BackupInvariant, Fail
  PROVE  BackupInvariant' /\ Grows
<1>1. /\ UNCHANGED <<contents, used, events, answers, published, download, damaged, flushed>>
      /\ backup.pc # "idle" /\ backup' = Idle
      /\ faults < MaxFaults /\ faults' = faults + 1
  BY DEF Fail, contents, callers, At
<1>2. faults' \in 0..MaxFaults /\ Frame
  BY <1>1, FrameStays, BackupAssumption DEF BackupInvariant, Ledger
<1>3. CASE UNCHANGED entries
  BY <1>1, <1>2, <1>3, EntriesUnchanged, CallEnds DEF BackupInvariant
<1>4. ASSUME NEW n \in BackupNames, n[2] \notin {"db", "manifest"}, Remove(n)
      PROVE  BackupInvariant' /\ Grows
  <2>1. \A c \in Held : n # DB(c) /\ n # Manifest(c)
    BY <1>4, NamesOf DEF Held
  <2>2. Calm
    BY <1>1, <1>2, <1>4, <2>1, EntryRemoved DEF BackupInvariant
  <2> QED BY <1>1, <1>2, <2>2, CallEnds
<1>5. CASE backup.pc \in {"checked", "synced"} /\ Remove(DBTmp(backup.base))
  <2>1. backup.base \in Clock
    BY <1>5, WorkingCall
  <2> QED BY <1>4, <1>5, <2>1, NamesOf
<1>6. CASE backup.pc = "manifest synced" /\ Remove(ManifestTmp(backup.base))
  <2>1. backup.base \in Clock
    BY <1>6, WorkingCall
  <2> QED BY <1>4, <1>6, <2>1, NamesOf
<1>7. CASE backup.pc = "recorded" /\ Create(ManifestTmp(backup.base), ManifestFile)
  <2>1. Names' /\ FilesAgree' /\ Grows
    BY <1>1, <1>7, ManifestTmpCreated
  <2>2. CallTyped' /\ CallInvariant'
    BY <1>1, NotWorking DEF CallTyped, CallInvariant
  <2>3. Ledger' /\ AnswersHold' /\ Downloads'
    BY <1>1, <1>2, <2>1, LedgerStays, AnswersStay, DownloadsStay DEF BackupInvariant, Ledger
  <2> QED BY <2>1, <2>2, <2>3 DEF BackupInvariant
<1> QED BY <1>3, <1>5, <1>6, <1>7 DEF Fail, At

-----------------------------------------------------------------------------
(* Downloads and crashes.                                                  *)

LEMMA DownloadKeeps ==
  ASSUME BackupInvariant, UNCHANGED <<volume, used, events, backup, answers, published>>,
         faults' \in 0..MaxFaults, Downloads'
  PROVE  BackupInvariant' /\ Grows
<1>1. UNCHANGED <<entries, damaged, flushed>>
  BY DEF volume, contents
<1>2. Calm
  BY <1>1, FrameStays, EntriesUnchanged DEF BackupInvariant
<1>3. Ledger' /\ AnswersHold'
  BY <1>2, LedgerStays, AnswersStay DEF BackupInvariant, Calm, Ledger
<1>4. dir' = dir /\ possible' = possible
  BY <1>1 DEF entries
<1>5. CallTyped' /\ CallInvariant'
  <2>1. Snapshotted => Snapshotted'
    BY <1>1, <1>4 DEF Snapshotted, AuditKnown, AllFiles
  <2>2. DatabaseDone => DatabaseDone'
    BY <1>1, <1>4 DEF DatabaseDone
  <2>3. ManifestDone => ManifestDone'
    BY <1>1, <1>4 DEF ManifestDone, ManifestFile
  <2>4. OthersComplete => OthersComplete'
    BY <1>4 DEF OthersComplete
  <2>5. RotationKeeps => RotationKeeps'
    BY <1>4 DEF RotationKeeps, Kept, Held
  <2> QED BY <2>1, <2>2, <2>3, <2>4, <2>5 DEF BackupInvariant, CallTyped, CallInvariant
<1> QED BY <1>2, <1>3, <1>5 DEF BackupInvariant, Calm

LEMMA ValidateKeeps ==
  ASSUME BackupInvariant, NEW n \in BackupNames, Validate(n)
  PROVE  BackupInvariant' /\ Grows
<1>1. n[1] \in published
  BY ArtifactIsKnown DEF Validate
<1>2. download'.pc = "validated" /\ download'.name = n
  BY DEF Validate
<1>3. Downloads'
  BY <1>1, <1>2 DEF Validate, Downloads
<1> QED BY <1>3, DownloadKeeps DEF Validate, BackupInvariant, Ledger

LEMMA OpenKeeps ==
  ASSUME BackupInvariant, OpenArtifact
  PROVE  BackupInvariant' /\ Grows
<1>1. download.name \in BackupNames /\ download.name[1] \in published
  BY DEF OpenArtifact, BackupInvariant, Downloads, Idle
<1>2. CASE ~Exists(download.name)
  BY <1>2, DownloadKeeps DEF OpenArtifact, Downloads, BackupInvariant, Ledger
<1>3. CASE Exists(download.name)
  <2>1. download'.pc = "open" /\ download'.file = dir[download.name]
    BY <1>3 DEF OpenArtifact
  <2>2. dir[download.name].base = download.name[1]
    BY <1>1, <1>3 DEF Exists, BackupInvariant, Names, Sound, SoundAt
  <2>3. Downloads'
    BY <1>1, <2>1, <2>2 DEF OpenArtifact, Downloads
  <2> QED BY <2>3, DownloadKeeps DEF OpenArtifact, BackupInvariant, Ledger
<1> QED BY <1>2, <1>3

LEMMA ServeKeeps ==
  ASSUME BackupInvariant, NEW recorded \in BOOLEAN, Serve(recorded)
  PROVE  BackupInvariant' /\ Grows
<1>1. faults' \in 0..MaxFaults
  BY Faults DEF Serve
<1>2. download.pc = "open" /\ download.file.base \in published /\ UNCHANGED <<volume, published>>
  BY DEF Serve, BackupInvariant, Downloads, Idle
<1>3. Downloads'
  <2>1. CASE download' = Idle
    BY <2>1 DEF Downloads
  <2>2. CASE ValidateOpened /\ download' = [pc |-> "sent", file |-> download.file]
    <3>1. download'.pc = "sent" /\ download'.file = download.file /\ damaged' = damaged
      BY <1>2, <2>2 DEF volume, contents
    <3> QED BY <1>2, <2>2, <3>1 DEF Downloads, ValidateOpened
  <2> QED BY <2>1, <2>2 DEF Serve
<1> QED BY <1>1, <1>3, DownloadKeeps DEF Serve

LEMMA EndDownloadKeeps ==
  ASSUME BackupInvariant, EndDownload
  PROVE  BackupInvariant' /\ Grows
<1>1. Downloads'
  BY DEF EndDownload, Downloads
<1> QED BY <1>1, DownloadKeeps DEF EndDownload, BackupInvariant, Ledger

LEMMA CrashKeeps ==
  ASSUME BackupInvariant, NEW power \in BOOLEAN, Crash(power)
  PROVE  BackupInvariant' /\ Grows
<1>1. /\ UNCHANGED <<used, events, answers, published>> /\ backup' = Idle /\ download' = Idle
      /\ faults < MaxFaults /\ faults' = faults + 1
      /\ PowerLoss \/ UNCHANGED volume
  BY DEF Crash
<1>2. Calm
  <2>1. CASE PowerLoss
    BY <1>1, <2>1, PowerLost DEF BackupInvariant
  <2>2. CASE UNCHANGED volume
    BY <1>1, <2>2, FrameStays, EntriesUnchanged DEF BackupInvariant, volume, contents
  <2> QED BY <1>1, <2>1, <2>2
<1>3. CallTyped' /\ CallInvariant' /\ Downloads'
  BY <1>1, NotWorking DEF CallTyped, CallInvariant, Downloads
<1>4. faults' \in 0..MaxFaults
  BY <1>1, BackupAssumption DEF BackupInvariant, Ledger
<1>5. Ledger' /\ AnswersHold'
  BY <1>1, <1>2, <1>4, LedgerStays, AnswersStay DEF BackupInvariant, Calm, Ledger
<1> QED BY <1>2, <1>3, <1>5 DEF BackupInvariant, Calm

-----------------------------------------------------------------------------
(* The theorems.                                                           *)

LEMMA InitKeeps == BInit => BackupInvariant
<1> SUFFICES ASSUME BInit PROVE BackupInvariant
  OBVIOUS
<1>1. /\ dir = [n \in BackupNames |-> NoFile] /\ possible = {dir} /\ flushed = {} /\ damaged = {}
      /\ used = {} /\ events = <<>> /\ answers = {} /\ published = {}
      /\ backup = Idle /\ download = Idle /\ faults = 0
  BY DEF BInit, VolumeInit
<1>2. Names
  BY <1>1 DEF Names, Sound
<1>3. AllFiles = {}
  BY <1>1, <1>2, FileHasPlace
<1>4. FilesAgree
  BY <1>1, <1>3 DEF FilesAgree
<1>5. Ledger
  BY <1>1, FS_EmptySet, BackupAssumption DEF Ledger
<1>6. CallTyped /\ CallInvariant /\ AnswersHold /\ Downloads
  BY <1>1, NotWorking DEF CallTyped, CallInvariant, AnswersHold, Downloads
<1> QED BY <1>2, <1>4, <1>5, <1>6 DEF BackupInvariant

LEMMA StepKeeps ==
  ASSUME BackupInvariant, [BNext]_bvars
  PROVE  BackupInvariant' /\ (Grows \/ Rotates)
<1>1. ASSUME NEW r \in Requests, Begin(r) PROVE BackupInvariant' /\ Grows
  BY <1>1, BeginKeeps
<1>2. CASE BackupStep
  BY <1>2, CleanupKeeps, AnswerExistingKeeps, SnapshotKeeps, SyncSnapshotKeeps, PublishSnapshotKeeps,
     SyncPublishedKeeps, RecordKeeps, WriteManifestKeeps, SyncManifestTmpKeeps, PublishManifestKeeps,
     SyncManifestKeeps, RotateDatabaseKeeps, RotateManifestKeeps, AnswerKeeps
     DEF BackupStep
<1>3. CASE Snapshot(FALSE) \/ RecordBackupCreated(FALSE) \/ RotateManifest(FALSE) \/ Fail
  BY <1>3, SnapshotKeeps, RecordKeeps, RotateManifestKeeps, FailKeeps
<1>4. ASSUME NEW n \in BackupNames, Validate(n) PROVE BackupInvariant' /\ Grows
  BY <1>4, ValidateKeeps
<1>5. CASE OpenArtifact \/ EndDownload
  BY <1>5, OpenKeeps, EndDownloadKeeps
<1>6. ASSUME NEW recorded \in BOOLEAN, Serve(recorded) PROVE BackupInvariant' /\ Grows
  BY <1>6, ServeKeeps
<1>7. ASSUME NEW power \in BOOLEAN, Crash(power) PROVE BackupInvariant' /\ Grows
  BY <1>7, CrashKeeps
<1>8. CASE UNCHANGED bvars
  <2>1. UNCHANGED <<volume, used, events, backup, answers, download, published, faults, damaged>>
    BY <1>8 DEF bvars, volume, contents
  <2>2. Downloads' /\ faults' \in 0..MaxFaults
    BY <2>1, DownloadsStay DEF BackupInvariant, Ledger
  <2> QED BY <2>1, <2>2, DownloadKeeps
<1> QED BY <1>1, <1>2, <1>3, <1>4, <1>5, <1>6, <1>7, <1>8 DEF BNext

(* Every step of backup.go, every failure in it, a kill and a power loss   *)
(* keep the invariant.                                                     *)
THEOREM BackupCorrect == BSpec => []BackupInvariant
<1>1. BInit => BackupInvariant
  BY InitKeeps
<1>2. BackupInvariant /\ [BNext]_bvars => BackupInvariant'
  BY StepKeeps
<1> QED BY <1>1, <1>2, PTL DEF BSpec

(* The types hold: files are where their base and kind say, readings of    *)
(* the clock are used once, and no one is answered before publication.     *)
THEOREM BackupTyped == BSpec => []BackupTypeOK
<1>1. BackupInvariant => BackupTypeOK
  <2> SUFFICES ASSUME BackupInvariant PROVE BackupTypeOK
    OBVIOUS
  <2>1. dir \in possible /\ \A d \in possible : Sound(d)
    BY DEF BackupInvariant, Names
  <2>2. \A d \in possible : DOMAIN d = BackupNames /\ \A n \in BackupNames :
          d[n] # NoFile => /\ d[n].base = n[1]
                           /\ d[n].kind = "db" <=> n[2] \in {"db", "db.tmp"}
    BY <2>1 DEF Sound, SoundAt
  <2>3. damaged \subseteq flushed /\ used \subseteq Clock /\ published \subseteq used /\ faults \in 0..MaxFaults
    BY DEF BackupInvariant, FilesAgree, Ledger
  <2>4. {events[i].base : i \in DOMAIN events} \subseteq used
    <3> SUFFICES ASSUME NEW i \in DOMAIN events PROVE events[i].base \in used
      OBVIOUS
    <3>1. PICK S : S = [request : Requests, base : used]
      OBVIOUS
    <3>2. events \in Seq(S)
      BY <3>1 DEF BackupInvariant, Ledger
    <3>3. events[i] \in S
      BY <3>2
    <3> QED BY <3>1, <3>3
  <2>5. {a.base : a \in answers} \subseteq published
    BY DEF BackupInvariant, Ledger
  <2> QED BY <2>1, <2>2, <2>3, <2>4, <2>5 DEF BackupTypeOK
<1> QED BY <1>1, BackupCorrect, PTL

(* A database file with a manifest next to it passes its checks, whatever  *)
(* a power loss leaves: each file is synced before it gets its name.       *)
THEOREM PairsAreIntact == BSpec => []PublishedPairsAreIntact
<1>1. BackupInvariant => PublishedPairsAreIntact
  <2> SUFFICES ASSUME BackupInvariant, NEW d \in possible, NEW b \in Pairs(d)
               PROVE  /\ {d[DB(b)], d[Manifest(b)]} \subseteq flushed \ damaged
                      /\ d[DB(b)].sha = d[Manifest(b)].sha
    BY DEF PublishedPairsAreIntact
  <2>1. b \in Clock /\ d[DB(b)] # NoFile /\ d[Manifest(b)] # NoFile
    BY DEF Pairs
  <2>2. /\ DB(b) \in BackupNames /\ DB(b)[1] = b /\ DB(b)[2] = "db"
        /\ Manifest(b) \in BackupNames /\ Manifest(b)[1] = b /\ Manifest(b)[2] = "manifest"
    BY <2>1, NamesOf
  <2>3. SoundAt(DB(b), d[DB(b)]) /\ SoundAt(Manifest(b), d[Manifest(b)])
    BY <2>1, <2>2 DEF BackupInvariant, Names, Sound
  <2>4. d[DB(b)] \in AllFiles /\ d[Manifest(b)] \in AllFiles
    BY <2>1, <2>2, FileIsSomewhere DEF BackupInvariant
  <2>5. d[DB(b)].sha = d[Manifest(b)].sha
    BY <2>2, <2>3, <2>4 DEF SoundAt, BackupInvariant, FilesAgree
  <2> QED BY <2>2, <2>3, <2>5 DEF SoundAt
<1> QED BY <1>1, BackupCorrect, PTL

(* A manifest that says audit_recorded has its backup.created event, also  *)
(* when it was found again after a crash.                                  *)
THEOREM AuditsAreRecorded == BSpec => []AuditClaimsHold
<1>1. BackupInvariant => AuditClaimsHold
  <2> SUFFICES ASSUME BackupInvariant, NEW d \in possible, NEW b \in Pairs(d), d[Manifest(b)].audit
               PROVE  \E i \in DOMAIN events : events[i].base = b
    BY DEF AuditClaimsHold
  <2>1. b \in Clock /\ d[Manifest(b)] # NoFile
    BY DEF Pairs
  <2>2. Manifest(b) \in BackupNames /\ Manifest(b)[1] = b /\ Manifest(b)[2] = "manifest"
    BY <2>1, NamesOf
  <2>3. SoundAt(Manifest(b), d[Manifest(b)])
    BY <2>1, <2>2 DEF BackupInvariant, Names, Sound
  <2> QED BY <2>2, <2>3 DEF SoundAt, AuditKnown
<1> QED BY <1>1, BackupCorrect, PTL

(* handleBackupArtifact sends no file of a backup that was not completed,  *)
(* although it takes no lock.                                              *)
THEOREM DownloadsComplete == BSpec => []DownloadsAreComplete
<1>1. BackupInvariant => DownloadsAreComplete
  BY DEF BackupInvariant, Downloads, DownloadsAreComplete, Idle
<1> QED BY <1>1, BackupCorrect, PTL

-----------------------------------------------------------------------------
(* The archive.                                                            *)

Entry(c) == [base |-> c, sha |-> dir[DB(c)].sha]

LEMMA RecoverableIsHeld ==
  ASSUME BackupInvariant
  PROVE  Recoverable = {Entry(c) : c \in Held}
<1> DEFINE kept == {c \in Clock : \A d \in possible :
                      c \in Pairs(d) /\ {d[DB(c)], d[Manifest(c)]} \subseteq flushed \ damaged}
<1>1. kept = Held
  <2> SUFFICES ASSUME NEW c \in Held, NEW d \in possible
               PROVE  {d[DB(c)], d[Manifest(c)]} \subseteq flushed \ damaged
    BY DEF Held
  <2>1. c \in Clock /\ d[DB(c)] # NoFile /\ d[Manifest(c)] # NoFile
    BY HeldEntries
  <2>2. SoundAt(DB(c), d[DB(c)]) /\ SoundAt(Manifest(c), d[Manifest(c)])
    BY <2>1, NamesOf DEF BackupInvariant, Names, Sound
  <2> QED BY <2>1, <2>2, NamesOf DEF SoundAt
<1>2. Recoverable = {Entry(c) : c \in kept}
  BY DEF Recoverable, Entry
<1> HIDE DEF kept
<1> QED BY <1>1, <1>2

(* A caller that was told that its backup is done can restore it, or a     *)
(* newer one, after whatever power loss and however the clock was set.     *)
THEOREM AnswersAreRecoverable == BSpec => []AnsweredIsRecoverable
<1>1. BackupInvariant => AnsweredIsRecoverable
  <2> SUFFICES ASSUME BackupInvariant, NEW a \in answers, a.fresh
               PROVE  \E c \in Recoverable : c.sha >= a.sha
    BY DEF AnsweredIsRecoverable
  <2>1. PICK c \in Held : dir[DB(c)].sha >= a.sha
    BY DEF BackupInvariant, AnswersHold
  <2>2. Entry(c) \in Recoverable /\ Entry(c).sha = dir[DB(c)].sha
    BY RecoverableIsHeld DEF Entry
  <2> QED BY <2>1, <2>2
<1> QED BY <1>1, BackupCorrect, PTL

LEMMA EntriesAreFinite ==
  ASSUME BackupInvariant
  PROVE  IsFiniteSet(Recoverable) /\ Cardinality(Recoverable) = Cardinality(Held)
<1> DEFINE f == [c \in Held |-> Entry(c)]
<1>1. f \in [Held -> Recoverable] /\ \A t \in Recoverable : \E c \in Held : f[c] = t
  BY RecoverableIsHeld
<1>2. \A a, b \in Held : f[a] = f[b] => a = b
  BY DEF Entry
<1> HIDE DEF f
<1>3. f \in Bijection(Held, Recoverable)
  BY <1>1, <1>2, Fun_IsBij
<1>4. IsFiniteSet(Held)
  BY HeldIsFinite, FS_Subset
<1> QED BY <1>3, <1>4, FS_Bijection DEF ExistsBijection

EntriesKnown ==
  /\ Recoverable = {Entry(c) : c \in Held}
  /\ IsFiniteSet(Recoverable) /\ Cardinality(Recoverable) = Cardinality(Held)

LEMMA EntriesAfterStep == BackupInvariant' => EntriesKnown'
<1>1. BackupInvariant => EntriesKnown
  BY RecoverableIsHeld, EntriesAreFinite DEF EntriesKnown
<1> QED BY <1>1, PTL

LEMMA GrowsAdds ==
  ASSUME BackupInvariant, BackupInvariant', Grows
  PROVE  A!Add
<1>1. Recoverable' = {[base |-> c, sha |-> dir'[DB(c)].sha] : c \in Held'} /\ IsFiniteSet(Recoverable')
  BY EntriesAfterStep DEF EntriesKnown, Entry
<1>2. Recoverable = {[base |-> c, sha |-> dir[DB(c)].sha] : c \in Held}
  BY RecoverableIsHeld DEF Entry
<1>3. Recoverable \subseteq Recoverable'
  BY <1>1, <1>2 DEF Grows
<1> QED BY <1>1, <1>3 DEF A!Add, A!IsFiniteSet, IsFiniteSet

LEMMA RotatesRetires ==
  ASSUME BackupInvariant, BackupInvariant', Rotates
  PROVE  A!Retire \/ UNCHANGED Recoverable
<1>1. PICK m \in Clock :
        /\ Held' = Held \ {m}
        /\ Cardinality(Held') >= Keep
        /\ \A c \in Held' : dir'[DB(c)] = dir[DB(c)]
        /\ m \in Held => \E c \in Held' : dir[DB(c)].sha > dir[DB(m)].sha
  BY DEF Rotates
<1>2. /\ Recoverable' = {[base |-> c, sha |-> dir'[DB(c)].sha] : c \in Held'}
      /\ Cardinality(Recoverable') = Cardinality(Held')
  BY EntriesAfterStep DEF EntriesKnown, Entry
<1>3. Recoverable' = {Entry(c) : c \in Held \ {m}}
  BY <1>1, <1>2 DEF Entry
<1>4. Recoverable = {Entry(c) : c \in Held}
  BY RecoverableIsHeld
<1>5. \A a, b : Entry(a) = Entry(b) => a = b
  BY DEF Entry
<1>6. CASE m \notin Held
  BY <1>3, <1>4, <1>6
<1>7. CASE m \in Held
  <2>1. Entry(m) \in Recoverable /\ Recoverable' = Recoverable \ {Entry(m)}
    BY <1>3, <1>4, <1>5, <1>7
  <2>2. PICK c \in Held' : dir[DB(c)].sha > dir[DB(m)].sha
    BY <1>1, <1>7
  <2>3. Entry(c) \in Recoverable' /\ Entry(c).sha > Entry(m).sha
    BY <1>1, <1>3, <2>2 DEF Entry
  <2>4. Cardinality(Recoverable') >= Keep
    BY <1>1, <1>2
  <2> QED BY <2>1, <2>3, <2>4 DEF A!Retire, A!Cardinality, Cardinality
<1> QED BY <1>6, <1>7

(* Seen through any power loss, the backup directory is an archive that    *)
(* loses a backup only to rotation, with Keep others left and a newer one  *)
(* among them.                                                             *)
THEOREM BackupImplementsArchive == BSpec => ImplementsArchive
<1>1. BInit => A!AInit
  <2> SUFFICES ASSUME BInit PROVE Recoverable = {}
    BY DEF A!AInit
  <2>1. dir \in possible /\ \A b \in Clock : dir[DB(b)] = NoFile
    BY NamesOf DEF BInit, VolumeInit
  <2>2. Held = {}
    BY <2>1 DEF Held, Pairs
  <2> QED BY <2>2, InitKeeps, RecoverableIsHeld
<1>2. BackupInvariant /\ BackupInvariant' /\ [BNext]_bvars => [A!ANext]_Recoverable
  BY StepKeeps, GrowsAdds, RotatesRetires DEF A!ANext
<1> QED BY <1>1, <1>2, BackupCorrect, PTL DEF BSpec, ImplementsArchive, A!ASpec

=============================================================================
