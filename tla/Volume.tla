------------------------------- MODULE Volume -------------------------------
(***************************************************************************)
(* The volume that holds the database and the backups, as the code in      *)
(* src/ relies on it: one directory, whose entries are created, renamed    *)
(* and removed, and the two kinds of fsync.                                *)
(*                                                                         *)
(* What a process sees is dir.  What a power loss leaves is another        *)
(* matter: a change of the directory that was not followed by an fsync of  *)
(* the directory may be lost, and a file that was not fsynced may come     *)
(* back torn.  possible is the set of directories that a power loss may    *)
(* leave at this moment.  Without OrderedMetadata every change that is     *)
(* not synced survives or not, independently of the others; with it they   *)
(* reach the disk in the order in which they were made.                    *)
(*                                                                         *)
(* A file is a value that is written once: what it contains, and enough to *)
(* tell it from every other file.                                          *)
(***************************************************************************)
EXTENDS Naturals

CONSTANTS NoFile, OrderedMetadata

ASSUME OrderedMetadataAssumption == OrderedMetadata \in BOOLEAN

VARIABLES
  dir,        \* name -> file, or NoFile
  possible,   \* the directories that a power loss may leave
  flushed,    \* files whose contents are on disk
  damaged     \* files that a power loss has torn

entries == <<dir, possible>>
contents == <<flushed, damaged>>
volume == <<entries, contents>>

VolumeInit(names) ==
  /\ dir = [n \in names |-> NoFile]
  /\ possible = {dir}
  /\ flushed = {}
  /\ damaged = {}

Exists(n) == dir[n] # NoFile
FilesOf(d) == {d[n] : n \in DOMAIN d} \ {NoFile}

Apply(op, d) == [n \in DOMAIN d |-> IF n \in DOMAIN op THEN op[n] ELSE d[n]]

Change(op) ==
  /\ dir' = Apply(op, dir)
  /\ possible' = possible \cup (IF OrderedMetadata THEN {dir'} ELSE {Apply(op, d) : d \in possible})

Create(n, file) == Change([x \in {n} |-> file])
Remove(n) == Change([x \in {n} |-> NoFile])
Rename(from, to) == Change([x \in {from, to} |-> IF x = to THEN dir[from] ELSE NoFile])

SyncDir == possible' = {dir} /\ dir' = dir
SyncFile(n) == flushed' = flushed \cup {dir[n]} /\ damaged' = damaged

(* After the power comes back the directory is one of the possible ones,   *)
(* and any file that was not flushed may be torn.                          *)
PowerLoss ==
  \E d \in possible : \E torn \in SUBSET (FilesOf(d) \ flushed) :
    /\ dir' = d
    /\ possible' = {d}
    /\ damaged' = damaged \cup torn
    /\ flushed' = flushed \cup FilesOf(d)
=============================================================================
