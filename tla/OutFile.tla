------------------------------- MODULE OutFile -------------------------------
(***************************************************************************)
(* Class OutFile of the receiver (src/receiver/tcp_Receiver.cpp): the      *)
(* output files of one digitizer channel, or of the trigger.  The files of *)
(* a channel are numbered from 0: when one is longer than MaxFileSize it   *)
(* is closed, made read-only and succeeded by the next number.             *)
(*                                                                         *)
(* One object per FileID stands for the map of objects that are created on *)
(* demand: an object that does not exist yet is one in its initial state.  *)
(* The files are on disk and outlive the process.  Sizes are in 32-bit     *)
(* words.                                                                  *)
(***************************************************************************)
EXTENDS Channels

CONSTANTS
  MaxFileSize,     \* MAX_FILE_SIZE_BYTE
  MaxStarts,       \* bound: processes that write the same run, in turn
  FopenMayFail,    \* fopen may fail for a reason other than a read-only file
  FwriteMayFail,   \* fwrite may write less than it is asked to
  ChmodMayFail     \* chmod may fail to make a closed file read-only

ASSUME OutFileAssumption ==
  /\ MaxFileSize \in Nat
  /\ MaxStarts \in Nat \ {0}
  /\ {FopenMayFail, FwriteMayFail, ChmodMayFail} \subseteq BOOLEAN

VARIABLES
  file,       \* file[id]: the object holds an open FILE *
  count,      \* count[id]: number of the file the object writes
  fileSize,   \* fileSize[id]: what the object believes the file's size to be
  disk,       \* disk[id][c + 1]: the file of id with number c
  starts      \* processes started so far

fileVars == <<file, count, fileSize, disk, starts>>

-----------------------------------------------------------------------------

(* A chunk is what one call of Write left in a file: the GEB header, the   *)
(* body of a digitizer event or a repacked trigger event, with the words   *)
(* it was made of and the number of words that reached the file.           *)
ChunkKind == {"geb", "body", "trig"}
Chunk == [kind : ChunkKind, words : Seq(Nat), size : Nat]

DiskFile == [chunks : Seq(Chunk), size : Nat, readonly : BOOLEAN]

EmptyFile == [chunks |-> <<>>, size |-> 0, readonly |-> FALSE]

(* Mutant: as root, a read-only file opens.                                *)
OpenableAsRoot(d, c) == TRUE

(* Files d of one channel: can number c be opened for append?  The process *)
(* does not run as root, so a read-only file cannot.                       *)
Openable(d, c) == c + 1 \in DOMAIN d => ~ d[c + 1].readonly

(* Mutant: "wb" instead of "ab".                                           *)
FopenTruncates(d, c) ==
  IF c + 1 \in DOMAIN d THEN [d EXCEPT ![c + 1] = EmptyFile]
                        ELSE Append(d, EmptyFile)

(* fopen(name, "ab") continues the file of that name, or creates it.       *)
Fopen(d, c) == IF c + 1 \in DOMAIN d THEN d ELSE Append(d, EmptyFile)

(* Mutant: without the chmod.                                              *)
SetReadOnlyNever(d, c, r) == d

SetReadOnly(d, c, r) == [d EXCEPT ![c + 1].readonly = r]

Extend(d, c, chunk) ==
  [d EXCEPT ![c + 1].chunks = Append(@, chunk), ![c + 1].size = @ + chunk.size]

-----------------------------------------------------------------------------

(* NewFile on the files d with number c; ok is its result being 1.         *)
NewFile(id, d, c, ok) ==
  /\ IF ok THEN Openable(d, c) ELSE FopenMayFail \/ ~ Openable(d, c)
  /\ file' = [file EXCEPT ![id] = ok]
  /\ disk' = [disk EXCEPT ![id] = IF ok THEN Fopen(d, c) ELSE d]

(* OpenFile when no file is open.                                          *)
OpenFirst(id, ok) ==
  /\ ~ file[id]
  /\ NewFile(id, disk[id], count[id], ok)
  /\ UNCHANGED <<count, fileSize, starts>>

(* Mutant: without the size check.                                         *)
KeepOpenAlways(id, ok) == file[id] /\ ok /\ UNCHANGED fileVars

(* OpenFile when the open file can take another event.                     *)
KeepOpen(id, ok) ==
  /\ file[id] /\ fileSize[id] <= MaxFileSize
  /\ ok
  /\ UNCHANGED fileVars

(* For mutants of RollOver: it is done if over, and fileSize becomes size. *)
RollOverIf(id, ok, over, size) ==
  /\ file[id] /\ over
  /\ NewFile(id, SetReadOnly(disk[id], count[id], TRUE), count[id] + 1, ok)
  /\ count' = [count EXCEPT ![id] = @ + 1]
  /\ fileSize' = [fileSize EXCEPT ![id] = size]
  /\ UNCHANGED starts

(* Mutant: the limit is compared with >= instead of >.                     *)
RollOverAtLimit(id, ok) == RollOverIf(id, ok, fileSize[id] >= MaxFileSize, 0)

(* Mutant: fileSize is not reset.                                          *)
RollOverKeepsSize(id, ok) ==
  RollOverIf(id, ok, fileSize[id] > MaxFileSize, fileSize[id])

(* OpenFile when the open file is over the limit: it is closed, made       *)
(* read-only, and its successor opened.                                    *)
RollOver(id, ok) ==
  /\ file[id] /\ fileSize[id] > MaxFileSize
  /\ \E sealed \in {TRUE, ~ ChmodMayFail} :
       NewFile(id, SetReadOnly(disk[id], count[id], sealed), count[id] + 1, ok)
  /\ count' = [count EXCEPT ![id] = @ + 1]
  /\ fileSize' = [fileSize EXCEPT ![id] = 0]
  /\ UNCHANGED starts

OpenFile(id, ok) == OpenFirst(id, ok) \/ KeepOpen(id, ok) \/ RollOver(id, ok)

(* Write of size words made of the given words, of which n reach the file. *)
(* Without an open file it does nothing.                                   *)
Written(id, chunk) ==
  IF chunk.size = 0 THEN disk[id] ELSE Extend(disk[id], count[id], chunk)

WriteChunk(id, chunk) ==
  /\ disk' = [disk EXCEPT ![id] = Written(id, chunk)]
  /\ fileSize' = [fileSize EXCEPT ![id] = Written(id, chunk)[count[id] + 1].size]

Write(id, kind, words, size) ==
  /\ IF file[id]
     THEN \E n \in IF FwriteMayFail THEN 0 .. size ELSE {size} :
            WriteChunk(id, [kind |-> kind, words |-> words, size |-> n])
     ELSE UNCHANGED <<disk, fileSize>>
  /\ UNCHANGED <<file, count, starts>>

(* Mutant: ftell after fclose instead of before: it fails and returns -1.  *)
CloseFileLate(id) ==
  /\ file[id]
  /\ fileSize' = [fileSize EXCEPT ![id] = -1]
  /\ file' = [file EXCEPT ![id] = FALSE]
  /\ disk' = [disk EXCEPT ![id] = SetReadOnly(@, count[id], TRUE)]
  /\ UNCHANGED <<count, starts>>

CloseFile(id) ==
  /\ file[id]
  /\ fileSize' = [fileSize EXCEPT ![id] = disk[id][count[id] + 1].size]
  /\ file' = [file EXCEPT ![id] = FALSE]
  /\ \E sealed \in {TRUE, ~ ChmodMayFail} :
       disk' = [disk EXCEPT ![id] = SetReadOnly(@, count[id], sealed)]
  /\ UNCHANGED <<count, starts>>

(* The process is gone, however it ended: its objects are gone, with the   *)
(* open files neither closed by CloseFile nor made read-only.  Every Write *)
(* has flushed, so what was written is on disk.                            *)
NewObjects ==
  /\ file' = [id \in FileID |-> FALSE]
  /\ count' = [id \in FileID |-> 0]
  /\ fileSize' = [id \in FileID |-> 0]

FilesInit ==
  /\ file = [id \in FileID |-> FALSE]
  /\ count = [id \in FileID |-> 0]
  /\ fileSize = [id \in FileID |-> 0]
  /\ disk = [id \in FileID |-> <<>>]
  /\ starts = 1

-----------------------------------------------------------------------------
(* What holds of the files whatever calls are made, in whatever order.     *)

FilesTypeOK ==
  /\ file \in [FileID -> BOOLEAN]
  /\ count \in [FileID -> Nat]
  /\ fileSize \in [FileID -> Nat]
  /\ disk \in [FileID -> Seq(DiskFile)]
  /\ starts \in 1 .. MaxStarts

(* An object with an open file has a writable file of its number on disk,  *)
(* and no number is skipped: fopen never creates file c + 1 before file c  *)
(* (NewFile and the count++ of OpenFile).                                  *)
OpenIsWritable ==
  \A id \in FileID :
    /\ count[id] <= Len(disk[id])
    /\ file[id] => /\ count[id] + 1 \in DOMAIN disk[id]
                   /\ ~ disk[id][count[id] + 1].readonly

(* A file has a successor only because it was over the limit when an event *)
(* arrived: OpenFile never splits a run into files that are not full, not  *)
(* even when fopen of the successor fails and is tried again, or a second  *)
(* process continues the run.                                              *)
SplitOnlyWhenFull ==
  \A id \in FileID : \A c \in DOMAIN disk[id] :
    c < Len(disk[id]) => disk[id][c].size > MaxFileSize

(* The size the class believes is the size on disk, or it is the 0 an      *)
(* object starts a file with, for a file it has not written yet: the size  *)
(* check of OpenFile is late by one event at the most per process.         *)
SizeIsKnown ==
  \A id \in FileID :
    file[id] => fileSize[id] \in {0, disk[id][count[id] + 1].size}

(* Data on disk is never lost or rewritten by a later call, not even by a  *)
(* second process of the same run: a file only grows at its end, a         *)
(* read-only file stays as it is for good, and no file disappears ("ab" in *)
(* NewFile, chmod in CloseFile).                                           *)
Grows(old, new) ==
  /\ Len(old) <= Len(new)
  /\ \A c \in DOMAIN old :
       /\ old[c].readonly => new[c] = old[c]
       /\ \E n \in 0 .. Len(new[c].chunks) :
            old[c].chunks = SubSeq(new[c].chunks, 1, n)

DiskOnlyGrows == [][\A id \in FileID : Grows(disk[id], disk'[id])]_fileVars

(* Only the newest file of a channel ever changes, as long as chmod works: *)
(* a second process of the run does not go back to a file that has a       *)
(* successor, so the order of the files is the order of the data.          *)
OnlyNewestChanges ==
  [][~ ChmodMayFail =>
       \A id \in FileID : \A c \in DOMAIN disk[id] :
         c < Len(disk[id]) => disk'[id][c] = disk[id][c]]_fileVars
=============================================================================
