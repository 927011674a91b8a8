---------------------------- MODULE OutFileProofs ---------------------------
(***************************************************************************)
(* Proofs about the operations of OutFile, for every set of channels, file *)
(* size limit and failure the constants allow.  FilesInv is kept by every  *)
(* operation, so by any program made of them: the class on its own in      *)
(* module OutFileClassProofs, the receiver in module ReceiverProofs.       *)
(***************************************************************************)
EXTENDS OutFile, TLAPS

FilesInv == FilesTypeOK /\ OpenIsWritable

-----------------------------------------------------------------------------
(* The files of one channel, as a sequence.                                *)

(* chmod changes nothing but the mode of one file.                         *)
LEMMA SetReadOnlyType ==
  ASSUME NEW d \in Seq(DiskFile), NEW c \in Nat, c + 1 \in DOMAIN d,
         NEW r \in BOOLEAN
  PROVE  /\ SetReadOnly(d, c, r) \in Seq(DiskFile)
         /\ Len(SetReadOnly(d, c, r)) = Len(d)
         /\ SetReadOnly(d, c, r)[c + 1].chunks = d[c + 1].chunks
         /\ SetReadOnly(d, c, r)[c + 1].size = d[c + 1].size
         /\ SetReadOnly(d, c, r)[c + 1].readonly = r
         /\ \A k \in DOMAIN d : k # c + 1 => SetReadOnly(d, c, r)[k] = d[k]
<1> DEFINE e == SetReadOnly(d, c, r)
<1>0. d[c + 1] \in DiskFile
  OBVIOUS
<1>1. [d[c + 1] EXCEPT !.readonly = r] \in DiskFile
  BY <1>0, Zenon DEF DiskFile
<1>4. /\ [d[c + 1] EXCEPT !.readonly = r].chunks = d[c + 1].chunks
      /\ [d[c + 1] EXCEPT !.readonly = r].size = d[c + 1].size
      /\ [d[c + 1] EXCEPT !.readonly = r].readonly = r
  BY <1>0 DEF DiskFile
<1>2. e = [d EXCEPT ![c + 1] = [d[c + 1] EXCEPT !.readonly = r]]
  BY DEF SetReadOnly
<1>3. /\ e \in [1 .. Len(d) -> DiskFile]
      /\ e[c + 1] = [d[c + 1] EXCEPT !.readonly = r]
      /\ \A k \in DOMAIN d : k # c + 1 => e[k] = d[k]
  BY <1>1, <1>2
<1> HIDE DEF e
<1>5. e \in Seq(DiskFile) /\ Len(e) = Len(d)
  BY <1>3
<1> QED BY <1>3, <1>4, <1>5 DEF e

(* fwrite changes one file, at its end.                                    *)
LEMMA ExtendType ==
  ASSUME NEW d \in Seq(DiskFile), NEW c \in Nat, c + 1 \in DOMAIN d,
         NEW chunk \in Chunk
  PROVE  /\ Extend(d, c, chunk) \in Seq(DiskFile)
         /\ Len(Extend(d, c, chunk)) = Len(d)
         /\ Extend(d, c, chunk)[c + 1].readonly = d[c + 1].readonly
         /\ Extend(d, c, chunk)[c + 1].size = d[c + 1].size + chunk.size
         /\ Extend(d, c, chunk)[c + 1].chunks = Append(d[c + 1].chunks, chunk)
         /\ \A k \in DOMAIN d : k # c + 1 => Extend(d, c, chunk)[k] = d[k]
<1> DEFINE e == Extend(d, c, chunk)
           f == [d[c + 1] EXCEPT !.chunks = Append(@, chunk), !.size = @ + chunk.size]
<1>1. d[c + 1] \in DiskFile /\ chunk.size \in Nat
  BY DEF Chunk
<1>2. /\ f \in DiskFile /\ f.readonly = d[c + 1].readonly
      /\ f.chunks = Append(d[c + 1].chunks, chunk)
      /\ f.size = d[c + 1].size + chunk.size
  <2>1. d[c + 1].chunks \in Seq(Chunk) /\ d[c + 1].size \in Nat
    BY <1>1 DEF DiskFile
  <2>2. Append(d[c + 1].chunks, chunk) \in Seq(Chunk)
    BY <2>1
  <2>3. d[c + 1].size + chunk.size \in Nat
    BY <1>1, <2>1
  <2> QED BY <1>1, <2>2, <2>3, Zenon DEF DiskFile
<1>3. e = [d EXCEPT ![c + 1] = f]
  BY DEF Extend
<1> HIDE DEF e, f
<1>4. /\ e \in [1 .. Len(d) -> DiskFile]
      /\ e[c + 1] = f
      /\ \A k \in DOMAIN d : k # c + 1 => e[k] = d[k]
  BY <1>2, <1>3
<1> QED BY <1>2, <1>4 DEF e

(* fopen for append finds the file or creates it, and never leaves a gap.  *)
LEMMA FopenType ==
  ASSUME NEW d \in Seq(DiskFile), NEW c \in Nat, c <= Len(d), Openable(d, c)
  PROVE  /\ Fopen(d, c) \in Seq(DiskFile)
         /\ c + 1 \in DOMAIN Fopen(d, c)
         /\ ~ Fopen(d, c)[c + 1].readonly
         /\ Len(Fopen(d, c)) >= Len(d)
         /\ \A k \in DOMAIN d : Fopen(d, c)[k] = d[k]
<1>1. CASE c + 1 \in DOMAIN d
  BY <1>1 DEF Fopen, Openable
<1>2. CASE c + 1 \notin DOMAIN d
  <2>1. c = Len(d) /\ Fopen(d, c) = Append(d, EmptyFile)
    BY <1>2 DEF Fopen
  <2>2. EmptyFile \in DiskFile /\ ~ EmptyFile.readonly
    BY DEF EmptyFile, DiskFile
  <2> QED BY <2>1, <2>2
<1> QED BY <1>1, <1>2
-----------------------------------------------------------------------------
(* Each operation keeps FilesInv.                                          *)

(* NewFile, called for a number that leaves no gap.                        *)
LEMMA NewFileInv ==
  ASSUME FilesInv,
         NEW id \in FileID, NEW ok \in BOOLEAN,
         NEW d \in Seq(DiskFile), NEW c \in Nat, c <= Len(d),
         NewFile(id, d, c, ok),
         count' = [count EXCEPT ![id] = c],
         fileSize' \in [FileID -> Nat],
         UNCHANGED starts
  PROVE  FilesInv'
<1> DEFINE e == IF ok THEN Fopen(d, c) ELSE d
<1>1. /\ e \in Seq(DiskFile)
      /\ c <= Len(e)
      /\ ok => c + 1 \in DOMAIN e /\ ~ e[c + 1].readonly
  <2>1. CASE ok
    <3>1. Openable(d, c)
      BY <2>1 DEF NewFile
    <3>2. /\ Fopen(d, c) \in Seq(DiskFile)
          /\ c + 1 \in DOMAIN Fopen(d, c)
          /\ ~ Fopen(d, c)[c + 1].readonly
          /\ Len(Fopen(d, c)) >= Len(d)
      BY <3>1, FopenType
    <3>3. Len(Fopen(d, c)) \in Nat
      BY <3>2
    <3> QED BY <2>1, <3>2, <3>3
  <2>2. CASE ~ ok
    BY <2>2
  <2> QED BY <2>1, <2>2
<1> HIDE DEF e
<1>2. /\ file' = [file EXCEPT ![id] = ok]
      /\ disk' = [disk EXCEPT ![id] = e]
  BY DEF NewFile, e
<1>3. FilesTypeOK'
  BY <1>1, <1>2 DEF FilesInv, FilesTypeOK
<1>4. ASSUME NEW k \in FileID
      PROVE  /\ count'[k] <= Len(disk'[k])
             /\ file'[k] => /\ count'[k] + 1 \in DOMAIN disk'[k]
                            /\ ~ disk'[k][count'[k] + 1].readonly
  <2>1. CASE k = id
    <3>1. file'[k] = ok /\ disk'[k] = e /\ count'[k] = c
      BY <1>2, <2>1 DEF FilesInv, FilesTypeOK
    <3> QED BY <1>1, <3>1
  <2>2. CASE k # id
    <3>1. file'[k] = file[k] /\ disk'[k] = disk[k] /\ count'[k] = count[k]
      BY <1>2, <2>2 DEF FilesInv, FilesTypeOK
    <3> QED BY <3>1 DEF FilesInv, OpenIsWritable
  <2> QED BY <2>1, <2>2
<1> QED BY <1>3, <1>4 DEF FilesInv, OpenIsWritable

(* OpenFile, in each of its three cases.                                   *)
LEMMA OpenFileInv ==
  ASSUME FilesInv, NEW id \in FileID, NEW ok \in BOOLEAN, OpenFile(id, ok)
  PROVE  FilesInv' /\ (ok => file'[id])
<1> USE DEF FilesInv
<1>1. CASE OpenFirst(id, ok)
  <2>1. NewFile(id, disk[id], count[id], ok) /\ UNCHANGED <<count, fileSize, starts>>
    BY <1>1 DEF OpenFirst
  <2>2. /\ disk[id] \in Seq(DiskFile) /\ count[id] \in Nat
        /\ count[id] <= Len(disk[id])
        /\ fileSize' \in [FileID -> Nat]
        /\ count' = [count EXCEPT ![id] = count[id]]
    BY <2>1 DEF FilesTypeOK, OpenIsWritable
  <2>3. FilesInv'
    BY <2>1, <2>2, NewFileInv
  <2>4. ok => file'[id]
    BY <2>1 DEF NewFile, FilesTypeOK
  <2> QED BY <2>3, <2>4
<1>2. CASE KeepOpen(id, ok)
  <2>1. UNCHANGED fileVars /\ file[id]
    BY <1>2 DEF KeepOpen
  <2> QED BY <2>1 DEF fileVars, FilesTypeOK, OpenIsWritable
<1>3. CASE RollOver(id, ok)
  <2>1. PICK sealed \in {TRUE, ~ ChmodMayFail} :
          NewFile(id, SetReadOnly(disk[id], count[id], sealed), count[id] + 1, ok)
    BY <1>3 DEF RollOver
  <2>2. /\ count' = [count EXCEPT ![id] = count[id] + 1]
        /\ fileSize' = [fileSize EXCEPT ![id] = 0]
        /\ UNCHANGED starts
        /\ file[id]
    BY <1>3 DEF RollOver
  <2>3. /\ disk[id] \in Seq(DiskFile) /\ count[id] \in Nat
        /\ count[id] + 1 \in DOMAIN disk[id]
        /\ sealed \in BOOLEAN
    BY <2>2, OutFileAssumption DEF FilesTypeOK, OpenIsWritable
  <2> DEFINE d == SetReadOnly(disk[id], count[id], sealed)
  <2>4. d \in Seq(DiskFile) /\ Len(d) = Len(disk[id])
    BY <2>3, SetReadOnlyType
  <2>5. count[id] + 1 \in Nat /\ count[id] + 1 <= Len(d)
    BY <2>3, <2>4
  <2>6. fileSize' \in [FileID -> Nat]
    BY <2>2 DEF FilesTypeOK
  <2> HIDE DEF d
  <2>7. NewFile(id, d, count[id] + 1, ok)
    BY <2>1 DEF d
  <2>8. FilesInv'
    BY <2>2, <2>4, <2>5, <2>6, <2>7, NewFileInv
  <2>9. ok => file'[id]
    BY <2>7 DEF NewFile, FilesTypeOK
  <2> QED BY <2>8, <2>9
<1> QED BY <1>1, <1>2, <1>3 DEF OpenFile

(* Write, whatever fwrite makes of it; the open files stay open.           *)
LEMMA WriteInv ==
  ASSUME FilesInv, NEW id \in FileID, NEW kind \in ChunkKind,
         NEW words \in Seq(Nat), NEW size \in Nat,
         Write(id, kind, words, size)
  PROVE  FilesInv' /\ file' = file
<1> USE DEF FilesInv
<1>1. CASE file[id]
  <2>1. PICK n \in IF FwriteMayFail THEN 0 .. size ELSE {size} :
          WriteChunk(id, [kind |-> kind, words |-> words, size |-> n])
    BY <1>1 DEF Write
  <2> DEFINE chunk == [kind |-> kind, words |-> words, size |-> n]
             d == Written(id, chunk)
  <2>2. chunk \in Chunk /\ chunk.size = n
    BY DEF Chunk
  <2>3. UNCHANGED <<file, count, starts>>
    BY DEF Write
  <2>4. /\ disk[id] \in Seq(DiskFile) /\ count[id] \in Nat
        /\ count[id] + 1 \in DOMAIN disk[id]
        /\ ~ disk[id][count[id] + 1].readonly
    BY <1>1 DEF FilesTypeOK, OpenIsWritable
  <2>5. /\ d \in Seq(DiskFile)
        /\ Len(d) = Len(disk[id])
        /\ ~ d[count[id] + 1].readonly
    <3> HIDE DEF chunk
    <3>1. CASE n = 0
      BY <2>2, <2>4, <3>1 DEF Written
    <3>2. CASE n # 0
      BY <2>2, <2>4, <3>2, ExtendType DEF Written
    <3> QED BY <3>1, <3>2
  <2>6. d[count[id] + 1].size \in Nat
    <3>1. d[count[id] + 1] \in DiskFile
      BY <2>4, <2>5
    <3> QED BY <3>1 DEF DiskFile
  <2>7. /\ disk' = [disk EXCEPT ![id] = d]
        /\ fileSize' = [fileSize EXCEPT ![id] = d[count[id] + 1].size]
    BY <2>1 DEF WriteChunk
  <2> HIDE DEF d
  <2>8. FilesTypeOK'
    BY <2>7, <2>3, <2>5, <2>6 DEF FilesTypeOK
  <2>9. ASSUME NEW k \in FileID
        PROVE  /\ count'[k] <= Len(disk'[k])
               /\ file'[k] => /\ count'[k] + 1 \in DOMAIN disk'[k]
                              /\ ~ disk'[k][count'[k] + 1].readonly
    <3>1. CASE k = id
      BY <2>7, <2>3, <2>4, <2>5, <3>1 DEF FilesTypeOK
    <3>2. CASE k # id
      BY <2>7, <2>3, <3>2 DEF FilesTypeOK, OpenIsWritable
    <3> QED BY <3>1, <3>2
  <2> QED BY <2>3, <2>8, <2>9 DEF OpenIsWritable
<1>2. CASE ~ file[id]
  BY <1>2 DEF Write, FilesTypeOK, OpenIsWritable
<1> QED BY <1>1, <1>2

(* CloseFile: the file it seals is no longer the object's.                 *)
LEMMA CloseFileInv ==
  ASSUME FilesInv, NEW id \in FileID, CloseFile(id)
  PROVE  FilesInv'
<1> USE DEF FilesInv
<1>1. /\ disk[id] \in Seq(DiskFile) /\ count[id] \in Nat
      /\ count[id] + 1 \in DOMAIN disk[id]
      /\ disk[id][count[id] + 1].size \in Nat
  <2>1. /\ disk[id] \in Seq(DiskFile) /\ count[id] \in Nat
        /\ count[id] + 1 \in DOMAIN disk[id]
    BY DEF CloseFile, FilesTypeOK, OpenIsWritable
  <2>2. disk[id][count[id] + 1] \in DiskFile
    BY <2>1
  <2> QED BY <2>1, <2>2 DEF DiskFile
<1>2. PICK sealed \in {TRUE, ~ ChmodMayFail} :
        disk' = [disk EXCEPT ![id] = SetReadOnly(disk[id], count[id], sealed)]
  BY DEF CloseFile
<1> DEFINE d == SetReadOnly(disk[id], count[id], sealed)
<1>3. d \in Seq(DiskFile) /\ Len(d) = Len(disk[id])
  <2>1. sealed \in BOOLEAN
    BY OutFileAssumption
  <2> QED BY <1>1, <2>1, SetReadOnlyType
<1> HIDE DEF d
<1>4. disk' = [disk EXCEPT ![id] = d]
  BY <1>2 DEF d
<1>5. /\ file' = [file EXCEPT ![id] = FALSE]
      /\ fileSize' = [fileSize EXCEPT ![id] = disk[id][count[id] + 1].size]
      /\ UNCHANGED <<count, starts>>
  BY DEF CloseFile
<1>6. FilesTypeOK'
  BY <1>1, <1>3, <1>4, <1>5 DEF FilesTypeOK
<1>7. ASSUME NEW k \in FileID
      PROVE  /\ count'[k] <= Len(disk'[k])
             /\ file'[k] => /\ count'[k] + 1 \in DOMAIN disk'[k]
                            /\ ~ disk'[k][count'[k] + 1].readonly
  <2>1. CASE k = id
    BY <1>1, <1>3, <1>4, <1>5, <2>1 DEF FilesTypeOK
  <2>2. CASE k # id
    BY <1>4, <1>5, <2>2 DEF FilesTypeOK, OpenIsWritable
  <2> QED BY <2>1, <2>2
<1> QED BY <1>6, <1>7 DEF OpenIsWritable

(* A new process finds the files where the last one left them.             *)
LEMMA NewObjectsInv ==
  ASSUME FilesInv, NewObjects, UNCHANGED disk, starts' \in 1 .. MaxStarts
  PROVE  FilesInv'
<1>1. \A k \in FileID : Len(disk[k]) \in Nat
  BY DEF FilesInv, FilesTypeOK
<1> QED BY <1>1 DEF FilesInv, FilesTypeOK, OpenIsWritable, NewObjects

(* The first process finds no files.                                       *)
LEMMA FilesInitInv == FilesInit => FilesInv
<1>1. <<>> \in Seq(DiskFile) /\ Len(<<>>) = 0
  OBVIOUS
<1>2. 1 \in 1 .. MaxStarts
  BY OutFileAssumption
<1> QED BY <1>1, <1>2 DEF FilesInit, FilesInv, FilesTypeOK, OpenIsWritable

-----------------------------------------------------------------------------
(* Files only grow.                                                        *)

(* Files that are all still what they were have only grown.                *)
LEMMA GrowsSame ==
  ASSUME NEW d \in Seq(DiskFile), NEW e \in Seq(DiskFile),
         Len(d) <= Len(e), \A k \in DOMAIN d : e[k] = d[k]
  PROVE  Grows(d, e)
<1> SUFFICES ASSUME NEW k \in DOMAIN d
             PROVE  \E n \in 0 .. Len(e[k].chunks) :
                      d[k].chunks = SubSeq(e[k].chunks, 1, n)
  BY DEF Grows
<1>1. d[k].chunks \in Seq(Chunk) /\ e[k] = d[k]
  <2>1. d[k] \in DiskFile
    OBVIOUS
  <2> QED BY <2>1 DEF DiskFile
<1>2. d[k].chunks = SubSeq(d[k].chunks, 1, Len(d[k].chunks))
  BY <1>1
<1> QED BY <1>1, <1>2

(* A file that is not read-only may get a chunk, or another mode.          *)
LEMMA GrowsOne ==
  ASSUME NEW d \in Seq(DiskFile), NEW e \in Seq(DiskFile),
         NEW i \in DOMAIN d, ~ d[i].readonly,
         Len(d) <= Len(e), \A k \in DOMAIN d : k # i => e[k] = d[k],
         \/ e[i].chunks = d[i].chunks
         \/ \E chunk \in Chunk : e[i].chunks = Append(d[i].chunks, chunk)
  PROVE  Grows(d, e)
<1> SUFFICES ASSUME NEW k \in DOMAIN d
             PROVE  /\ d[k].readonly => e[k] = d[k]
                    /\ \E n \in 0 .. Len(e[k].chunks) :
                         d[k].chunks = SubSeq(e[k].chunks, 1, n)
  BY DEF Grows
<1>1. d[k].chunks \in Seq(Chunk)
  <2>1. d[k] \in DiskFile
    OBVIOUS
  <2> QED BY <2>1 DEF DiskFile
<1>2. d[k].chunks = SubSeq(d[k].chunks, 1, Len(d[k].chunks))
  BY <1>1
<1>3. CASE k # i
  BY <1>1, <1>2, <1>3
<1>4. CASE k = i /\ e[i].chunks = d[i].chunks
  BY <1>1, <1>2, <1>4
<1>5. CASE k = i /\ \E chunk \in Chunk : e[i].chunks = Append(d[i].chunks, chunk)
  <2>1. PICK chunk \in Chunk : e[k].chunks = Append(d[k].chunks, chunk)
    BY <1>5
  <2>2. /\ d[k].chunks = SubSeq(e[k].chunks, 1, Len(d[k].chunks))
        /\ Len(d[k].chunks) \in 0 .. Len(e[k].chunks)
    BY <1>1, <2>1
  <2> QED BY <1>5, <2>2
<1> QED BY <1>3, <1>4, <1>5

DiskGrows == \A id \in FileID : Grows(disk[id], disk'[id])

(* Where one channel's files are the only ones to change, they decide.     *)
LEMMA GrowsAt ==
  ASSUME FilesInv, NEW id \in FileID, NEW e \in Seq(DiskFile),
         disk' = [disk EXCEPT ![id] = e], Grows(disk[id], e)
  PROVE  DiskGrows
<1> SUFFICES ASSUME NEW k \in FileID PROVE Grows(disk[k], disk'[k])
  BY DEF DiskGrows
<1>1. disk[k] \in Seq(DiskFile)
  BY DEF FilesInv, FilesTypeOK
<1>2. CASE k = id
  BY <1>2 DEF FilesInv, FilesTypeOK
<1>3. CASE k # id
  <2>1. disk'[k] = disk[k]
    BY <1>3 DEF FilesInv, FilesTypeOK
  <2> QED BY <1>1, <2>1, GrowsSame
<1> QED BY <1>2, <1>3

(* A step that leaves the disk alone only lets files grow.                 *)
LEMMA GrowsUnchanged ==
  ASSUME FilesInv, UNCHANGED disk PROVE DiskGrows
<1> SUFFICES ASSUME NEW k \in FileID PROVE Grows(disk[k], disk'[k])
  BY DEF DiskGrows
<1>1. disk[k] \in Seq(DiskFile)
  BY DEF FilesInv, FilesTypeOK
<1> QED BY <1>1, GrowsSame

(* OpenFile only touches a file that is open, and so not read-only.        *)
LEMMA OpenFileGrows ==
  ASSUME FilesInv, NEW id \in FileID, NEW ok \in BOOLEAN, OpenFile(id, ok)
  PROVE  DiskGrows
<1>1. disk[id] \in Seq(DiskFile) /\ count[id] \in Nat /\ count[id] <= Len(disk[id])
  BY DEF FilesInv, FilesTypeOK, OpenIsWritable
<1>2. CASE OpenFirst(id, ok)
  <2>1. NewFile(id, disk[id], count[id], ok)
    BY <1>2 DEF OpenFirst
  <2>2. CASE ok
    <3>1. /\ disk' = [disk EXCEPT ![id] = Fopen(disk[id], count[id])]
          /\ Openable(disk[id], count[id])
      BY <2>1, <2>2 DEF NewFile
    <3> DEFINE e == Fopen(disk[id], count[id])
    <3>2. /\ e \in Seq(DiskFile) /\ Len(disk[id]) <= Len(e)
          /\ \A k \in DOMAIN disk[id] : e[k] = disk[id][k]
      <4>1. /\ e \in Seq(DiskFile) /\ Len(e) >= Len(disk[id])
            /\ \A k \in DOMAIN disk[id] : e[k] = disk[id][k]
        BY <1>1, <3>1, FopenType
      <4>2. Len(e) \in Nat /\ Len(disk[id]) \in Nat
        BY <1>1, <4>1
      <4> HIDE DEF e
      <4> QED BY <4>1, <4>2
    <3> HIDE DEF e
    <3>3. Grows(disk[id], e)
      BY <1>1, <3>2, GrowsSame
    <3>4. disk' = [disk EXCEPT ![id] = e]
      BY <3>1 DEF e
    <3> QED BY <3>2, <3>3, <3>4, GrowsAt
  <2>3. CASE ~ ok
    <3>1. disk' = [disk EXCEPT ![id] = disk[id]]
      BY <2>1, <2>3 DEF NewFile
    <3>2. disk' = disk
      BY <3>1 DEF FilesInv, FilesTypeOK
    <3> QED BY <3>2, GrowsUnchanged
  <2> QED BY <2>2, <2>3
<1>3. CASE KeepOpen(id, ok)
  BY <1>3, GrowsUnchanged DEF KeepOpen, fileVars
<1>4. CASE RollOver(id, ok)
  <2>1. PICK sealed \in {TRUE, ~ ChmodMayFail} :
          NewFile(id, SetReadOnly(disk[id], count[id], sealed), count[id] + 1, ok)
    BY <1>4 DEF RollOver
  <2>2. /\ count[id] + 1 \in DOMAIN disk[id]
        /\ ~ disk[id][count[id] + 1].readonly
        /\ sealed \in BOOLEAN
    BY <1>4, OutFileAssumption DEF RollOver, FilesInv, OpenIsWritable
  <2> DEFINE d == SetReadOnly(disk[id], count[id], sealed)
             c == count[id] + 1
             e == IF ok THEN Fopen(d, c) ELSE d
  <2>3. /\ d \in Seq(DiskFile) /\ Len(d) = Len(disk[id])
        /\ d[c].chunks = disk[id][c].chunks
        /\ \A k \in DOMAIN disk[id] : k # c => d[k] = disk[id][k]
    BY <1>1, <2>2, SetReadOnlyType
  <2>4. disk' = [disk EXCEPT ![id] = e] /\ (ok => Openable(d, c))
    BY <2>1 DEF NewFile
  <2>5. c \in DOMAIN disk[id] /\ c \in Nat /\ c <= Len(d)
    <3> HIDE DEF d
    <3> QED BY <1>1, <2>2, <2>3
  <2> HIDE DEF d, c
  <2>6. /\ e \in Seq(DiskFile) /\ Len(e) >= Len(d)
        /\ \A k \in DOMAIN d : e[k] = d[k]
    <3>1. CASE ok
      BY <2>3, <2>4, <2>5, <3>1, FopenType
    <3>2. CASE ~ ok
      BY <2>3, <3>2
    <3> QED BY <3>1, <3>2
  <2> HIDE DEF e
  <2>7. ~ disk[id][c].readonly
    BY <2>2 DEF c
  <2>8. /\ Len(disk[id]) <= Len(e)
        /\ \A k \in DOMAIN disk[id] : k # c => e[k] = disk[id][k]
        /\ e[c].chunks = disk[id][c].chunks
    BY <1>1, <2>3, <2>5, <2>6
  <2>9. Grows(disk[id], e)
    BY <1>1, <2>5, <2>6, <2>7, <2>8, GrowsOne
  <2> QED BY <2>4, <2>6, <2>9, GrowsAt
<1> QED BY <1>2, <1>3, <1>4 DEF OpenFile

(* Write adds a chunk behind those of an open file.                        *)
LEMMA WriteGrows ==
  ASSUME FilesInv, NEW id \in FileID, NEW kind \in ChunkKind,
         NEW words \in Seq(Nat), NEW size \in Nat,
         Write(id, kind, words, size)
  PROVE  DiskGrows
<1>1. CASE ~ file[id]
  BY <1>1, GrowsUnchanged DEF Write
<1>2. CASE file[id]
  <2>1. PICK n \in IF FwriteMayFail THEN 0 .. size ELSE {size} :
          WriteChunk(id, [kind |-> kind, words |-> words, size |-> n])
    BY <1>2 DEF Write
  <2> DEFINE chunk == [kind |-> kind, words |-> words, size |-> n]
             c == count[id] + 1
             e == Extend(disk[id], count[id], chunk)
  <2>2. chunk \in Chunk /\ chunk.size = n
    BY DEF Chunk
  <2> HIDE DEF chunk
  <2>3. disk' = [disk EXCEPT ![id] = IF n = 0 THEN disk[id] ELSE e]
    BY <2>1, <2>2 DEF WriteChunk, Written, chunk
  <2>4. /\ disk[id] \in Seq(DiskFile) /\ count[id] \in Nat
        /\ c \in DOMAIN disk[id] /\ ~ disk[id][c].readonly
    BY <1>2 DEF FilesInv, FilesTypeOK, OpenIsWritable
  <2>5. /\ e \in Seq(DiskFile) /\ Len(e) = Len(disk[id])
        /\ e[c].chunks = Append(disk[id][c].chunks, chunk)
        /\ \A k \in DOMAIN disk[id] : k # c => e[k] = disk[id][k]
    BY <2>2, <2>4, ExtendType
  <2> HIDE DEF c, e
  <2>6. CASE n = 0
    <3>1. disk' = disk
      BY <2>3, <2>6 DEF FilesInv, FilesTypeOK
    <3> QED BY <3>1, GrowsUnchanged
  <2>7. CASE n # 0
    <3>1. Len(disk[id]) <= Len(e)
      BY <2>4, <2>5
    <3>2. Grows(disk[id], e)
      BY <2>2, <2>4, <2>5, <3>1, GrowsOne
    <3> QED BY <2>3, <2>5, <2>7, <3>2, GrowsAt
  <2> QED BY <2>6, <2>7
<1> QED BY <1>1, <1>2

(* CloseFile changes the mode of an open file.                             *)
LEMMA CloseFileGrows ==
  ASSUME FilesInv, NEW id \in FileID, CloseFile(id)
  PROVE  DiskGrows
<1>1. PICK sealed \in {TRUE, ~ ChmodMayFail} :
        disk' = [disk EXCEPT ![id] = SetReadOnly(disk[id], count[id], sealed)]
  BY DEF CloseFile
<1> DEFINE c == count[id] + 1
           e == SetReadOnly(disk[id], count[id], sealed)
<1>2. /\ disk[id] \in Seq(DiskFile) /\ count[id] \in Nat
      /\ c \in DOMAIN disk[id] /\ ~ disk[id][c].readonly
      /\ sealed \in BOOLEAN
  BY OutFileAssumption DEF CloseFile, FilesInv, FilesTypeOK, OpenIsWritable
<1>3. /\ e \in Seq(DiskFile) /\ Len(e) = Len(disk[id])
      /\ e[c].chunks = disk[id][c].chunks
      /\ \A k \in DOMAIN disk[id] : k # c => e[k] = disk[id][k]
  BY <1>2, SetReadOnlyType
<1>4. disk' = [disk EXCEPT ![id] = e]
  BY <1>1
<1> HIDE DEF c, e
<1>5. Len(disk[id]) <= Len(e)
  BY <1>2, <1>3
<1>6. Grows(disk[id], e)
  BY <1>2, <1>3, <1>5, GrowsOne
<1> QED BY <1>3, <1>4, <1>6, GrowsAt

-----------------------------------------------------------------------------
(* A file that has a successor, or will have one, is full, and read-only   *)
(* where chmod works; and fileSize is 0 or the size of the object's file,  *)
(* open or not.                                                            *)
Full(d, n) ==
  \A c \in DOMAIN d :
    c < Len(d) \/ c <= n => /\ d[c].size > MaxFileSize
                            /\ ~ ChmodMayFail => d[c].readonly

Believed(d, n, size) == size = 0 \/ (n + 1 \in DOMAIN d /\ size = d[n + 1].size)

SplitInv ==
  \A id \in FileID : Full(disk[id], count[id]) /\ Believed(disk[id], count[id], fileSize[id])

(* Where one object acts, it decides.                                      *)
LEMMA SplitAt ==
  ASSUME FilesInv, SplitInv, NEW id \in FileID,
         NEW d, NEW n, NEW size, Full(d, n), Believed(d, n, size),
         disk' = [disk EXCEPT ![id] = d], count' = [count EXCEPT ![id] = n],
         fileSize' = [fileSize EXCEPT ![id] = size]
  PROVE  SplitInv'
<1> SUFFICES ASSUME NEW k \in FileID
             PROVE  Full(disk'[k], count'[k]) /\ Believed(disk'[k], count'[k], fileSize'[k])
  BY DEF SplitInv
<1>1. CASE k = id
  <2>1. disk'[k] = d /\ count'[k] = n /\ fileSize'[k] = size
    BY <1>1 DEF FilesInv, FilesTypeOK
  <2> QED BY <2>1
<1>2. CASE k # id
  <2>1. disk'[k] = disk[k] /\ count'[k] = count[k] /\ fileSize'[k] = fileSize[k]
    BY <1>2 DEF FilesInv, FilesTypeOK
  <2> QED BY <2>1 DEF SplitInv
<1> QED BY <1>1, <1>2

(* What there is of an object.                                             *)
LEMMA ObjectType ==
  ASSUME FilesInv, NEW id \in FileID
  PROVE  /\ disk[id] \in Seq(DiskFile) /\ count[id] \in Nat /\ fileSize[id] \in Nat
         /\ count[id] <= Len(disk[id])
         /\ file[id] => /\ count[id] + 1 \in DOMAIN disk[id]
                        /\ ~ disk[id][count[id] + 1].readonly
         /\ count = [count EXCEPT ![id] = count[id]]
         /\ fileSize = [fileSize EXCEPT ![id] = fileSize[id]]
         /\ disk = [disk EXCEPT ![id] = disk[id]]
BY DEF FilesInv, FilesTypeOK, OpenIsWritable

(* fopen makes no file that is not full the last but one.                  *)
LEMMA FopenFull ==
  ASSUME NEW d \in Seq(DiskFile), NEW n \in Nat, n <= Len(d), Openable(d, n), Full(d, n)
  PROVE  Full(Fopen(d, n), n)
<1>1. CASE n + 1 \in DOMAIN d
  BY <1>1 DEF Fopen
<1>2. CASE n + 1 \notin DOMAIN d
  <2>1. n = Len(d) /\ Fopen(d, n) = Append(d, EmptyFile)
    BY <1>2 DEF Fopen
  <2>2. /\ Len(Append(d, EmptyFile)) = n + 1
        /\ \A c \in DOMAIN Append(d, EmptyFile) : c = n + 1 \/ c \in DOMAIN d
        /\ \A c \in DOMAIN d : Append(d, EmptyFile)[c] = d[c]
    BY <2>1
  <2> QED BY <2>1, <2>2 DEF Full
<1> QED BY <1>1, <1>2

(* The object opens a file, or another one after it has sealed its own.    *)
LEMMA NewFileSplit ==
  ASSUME FilesInv, SplitInv, NEW id \in FileID, NEW ok \in BOOLEAN,
         NEW d \in Seq(DiskFile), NEW n \in Nat, n <= Len(d), Full(d, n),
         NEW size, Believed(d, n, size),
         NewFile(id, d, n, ok), count' = [count EXCEPT ![id] = n],
         fileSize' = [fileSize EXCEPT ![id] = size]
  PROVE  SplitInv'
<1> DEFINE e == IF ok THEN Fopen(d, n) ELSE d
<1>1. Full(e, n) /\ Believed(e, n, size)
  <2>1. CASE ok
    <3>1. Openable(d, n)
      BY <2>1 DEF NewFile
    <3>2. Full(Fopen(d, n), n)
      BY <3>1, FopenFull
    <3>3. n + 1 \in DOMAIN d => Fopen(d, n) = d
      BY DEF Fopen
    <3> QED BY <2>1, <3>2, <3>3 DEF Believed
  <2>2. CASE ~ ok
    BY <2>2
  <2> QED BY <2>1, <2>2
<1>2. disk' = [disk EXCEPT ![id] = e]
  BY DEF NewFile
<1> HIDE DEF e
<1> QED BY <1>1, <1>2, SplitAt

(* OpenFile, in each of its three cases.                                   *)
LEMMA OpenFileSplit ==
  ASSUME FilesInv, SplitInv, NEW id \in FileID, NEW ok \in BOOLEAN, OpenFile(id, ok)
  PROVE  SplitInv'
<1>1. CASE OpenFirst(id, ok)
  <2>1. NewFile(id, disk[id], count[id], ok) /\ UNCHANGED <<count, fileSize>>
    BY <1>1 DEF OpenFirst
  <2>2. Full(disk[id], count[id]) /\ Believed(disk[id], count[id], fileSize[id])
    BY DEF SplitInv
  <2>3. /\ disk[id] \in Seq(DiskFile) /\ count[id] \in Nat /\ count[id] <= Len(disk[id])
        /\ count' = [count EXCEPT ![id] = count[id]]
        /\ fileSize' = [fileSize EXCEPT ![id] = fileSize[id]]
    BY <2>1, ObjectType
  <2> DEFINE d == disk[id]
             n == count[id]
             size == fileSize[id]
  <2>4. /\ d \in Seq(DiskFile) /\ n \in Nat /\ n <= Len(d)
        /\ Full(d, n) /\ Believed(d, n, size) /\ NewFile(id, d, n, ok)
        /\ count' = [count EXCEPT ![id] = n] /\ fileSize' = [fileSize EXCEPT ![id] = size]
    BY <2>1, <2>2, <2>3
  <2> HIDE DEF d, n, size
  <2> QED BY <2>4, NewFileSplit
<1>2. CASE KeepOpen(id, ok)
  BY <1>2 DEF KeepOpen, fileVars, SplitInv
<1>3. CASE RollOver(id, ok)
  <2>1. PICK sealed \in {TRUE, ~ ChmodMayFail} :
          NewFile(id, SetReadOnly(disk[id], count[id], sealed), count[id] + 1, ok)
    BY <1>3 DEF RollOver
  <2> DEFINE d == SetReadOnly(disk[id], count[id], sealed)
             n == count[id] + 1
  <2>2. /\ disk[id] \in Seq(DiskFile) /\ count[id] \in Nat /\ fileSize[id] \in Nat
        /\ count[id] + 1 \in DOMAIN disk[id] /\ sealed \in BOOLEAN
        /\ fileSize[id] > MaxFileSize
    BY <1>3, ObjectType, OutFileAssumption DEF RollOver
  <2>3. /\ d \in Seq(DiskFile) /\ Len(d) = Len(disk[id])
        /\ d[n].size = disk[id][n].size /\ d[n].readonly = sealed
        /\ \A k \in DOMAIN disk[id] : k # n => d[k] = disk[id][k]
    BY <2>2, SetReadOnlyType
  <2> HIDE DEF d
  <2>4. disk[id][n].size > MaxFileSize
    <3>1. Believed(disk[id], count[id], fileSize[id]) /\ fileSize[id] # 0
      BY <2>2, OutFileAssumption DEF SplitInv
    <3> QED BY <2>2, <3>1 DEF Believed
  <2>5. n \in Nat /\ n <= Len(d) /\ DOMAIN d = DOMAIN disk[id]
    BY <2>2, <2>3
  <2>6. Full(d, n)
    <3> SUFFICES ASSUME NEW c \in DOMAIN d, c < Len(d) \/ c <= n
                 PROVE  d[c].size > MaxFileSize /\ (~ ChmodMayFail => d[c].readonly)
      BY DEF Full
    <3>1. CASE c = n
      BY <2>3, <2>4, <3>1, OutFileAssumption
    <3>2. CASE c # n
      <4>1. c < Len(disk[id]) \/ c <= count[id]
        BY <2>2, <2>3, <2>5, <3>2
      <4> QED BY <2>3, <2>5, <3>2, <4>1 DEF SplitInv, Full
    <3> QED BY <3>1, <3>2
  <2>7. /\ Believed(d, n, 0) /\ NewFile(id, d, n, ok)
        /\ count' = [count EXCEPT ![id] = n] /\ fileSize' = [fileSize EXCEPT ![id] = 0]
    BY <1>3, <2>1 DEF RollOver, Believed, d
  <2> HIDE DEF n
  <2> QED BY <2>3, <2>5, <2>6, <2>7, NewFileSplit
<1> QED BY <1>1, <1>2, <1>3 DEF OpenFile

(* Write makes the object's file longer, and CloseFile read-only.          *)
LEMMA OwnFileSplit ==
  ASSUME FilesInv, SplitInv, NEW id \in FileID, file[id],
         NEW d \in Seq(DiskFile), Len(d) = Len(disk[id]),
         d[count[id] + 1].size >= disk[id][count[id] + 1].size,
         disk[id][count[id] + 1].readonly => d[count[id] + 1].readonly,
         \A k \in DOMAIN disk[id] : k # count[id] + 1 => d[k] = disk[id][k],
         disk' = [disk EXCEPT ![id] = d],
         fileSize' = [fileSize EXCEPT ![id] = d[count[id] + 1].size],
         UNCHANGED count
  PROVE  SplitInv'
<1> DEFINE n == count[id] + 1
<1>1. /\ disk[id] \in Seq(DiskFile) /\ count[id] \in Nat /\ n \in DOMAIN disk[id]
      /\ count' = [count EXCEPT ![id] = count[id]]
  BY ObjectType
<1>2. DOMAIN d = DOMAIN disk[id]
  BY <1>1
<1>3. Full(d, count[id])
  <2> SUFFICES ASSUME NEW c \in DOMAIN d, c < Len(d) \/ c <= count[id]
               PROVE  d[c].size > MaxFileSize /\ (~ ChmodMayFail => d[c].readonly)
    BY DEF Full
  <2>1. disk[id][c].size > MaxFileSize /\ (~ ChmodMayFail => disk[id][c].readonly)
    BY <1>2 DEF SplitInv, Full
  <2>2. d[c].size \in Nat /\ disk[id][c].size \in Nat
    <3>1. d[c] \in DiskFile /\ disk[id][c] \in DiskFile
      BY <1>1, <1>2
    <3> QED BY <3>1 DEF DiskFile
  <2> QED BY <1>2, <2>1, <2>2, OutFileAssumption
<1>4. Believed(d, count[id], d[n].size)
  BY <1>1, <1>2 DEF Believed
<1> QED BY <1>1, <1>3, <1>4, SplitAt

(* Write: what reached the file counts.                                    *)
LEMMA WriteSplit ==
  ASSUME FilesInv, SplitInv, NEW id \in FileID, NEW kind \in ChunkKind,
         NEW words \in Seq(Nat), NEW size \in Nat, Write(id, kind, words, size)
  PROVE  SplitInv'
<1>1. CASE ~ file[id]
  BY <1>1 DEF Write, SplitInv
<1>2. CASE file[id]
  <2>1. PICK n \in IF FwriteMayFail THEN 0 .. size ELSE {size} :
          WriteChunk(id, [kind |-> kind, words |-> words, size |-> n])
    BY <1>2 DEF Write
  <2> DEFINE chunk == [kind |-> kind, words |-> words, size |-> n]
             d == Written(id, chunk)
  <2>2. chunk \in Chunk /\ chunk.size = n /\ n \in Nat
    BY DEF Chunk
  <2>3. /\ disk[id] \in Seq(DiskFile) /\ count[id] \in Nat
        /\ count[id] + 1 \in DOMAIN disk[id]
    BY <1>2, ObjectType
  <2>4. disk[id][count[id] + 1].size \in Nat
    <3>1. disk[id][count[id] + 1] \in DiskFile
      BY <2>3
    <3> QED BY <3>1 DEF DiskFile
  <2>5. /\ d \in Seq(DiskFile) /\ Len(d) = Len(disk[id])
        /\ d[count[id] + 1].size >= disk[id][count[id] + 1].size
        /\ d[count[id] + 1].readonly = disk[id][count[id] + 1].readonly
        /\ \A k \in DOMAIN disk[id] : k # count[id] + 1 => d[k] = disk[id][k]
    <3> HIDE DEF chunk
    <3>1. CASE n = 0
      BY <2>2, <2>3, <2>4, <3>1 DEF Written
    <3>2. CASE n # 0
      <4>1. d = Extend(disk[id], count[id], chunk)
        BY <2>2, <3>2 DEF Written
      <4>2. /\ d \in Seq(DiskFile) /\ Len(d) = Len(disk[id])
            /\ d[count[id] + 1].readonly = disk[id][count[id] + 1].readonly
            /\ d[count[id] + 1].size = disk[id][count[id] + 1].size + n
            /\ \A k \in DOMAIN disk[id] : k # count[id] + 1 => d[k] = disk[id][k]
        BY <2>2, <2>3, <4>1, ExtendType
      <4> HIDE DEF d
      <4> QED BY <2>2, <2>4, <4>2
    <3> QED BY <3>1, <3>2
  <2>6. /\ disk' = [disk EXCEPT ![id] = d] /\ UNCHANGED count
        /\ fileSize' = [fileSize EXCEPT ![id] = d[count[id] + 1].size]
    BY <2>1 DEF Write, WriteChunk
  <2> HIDE DEF d
  <2> QED BY <1>2, <2>5, <2>6, OwnFileSplit
<1> QED BY <1>1, <1>2

(* CloseFile.                                                              *)
LEMMA CloseFileSplit ==
  ASSUME FilesInv, SplitInv, NEW id \in FileID, CloseFile(id)
  PROVE  SplitInv'
<1>1. PICK sealed \in {TRUE, ~ ChmodMayFail} :
        disk' = [disk EXCEPT ![id] = SetReadOnly(disk[id], count[id], sealed)]
  BY DEF CloseFile
<1> DEFINE d == SetReadOnly(disk[id], count[id], sealed)
<1>2. /\ disk[id] \in Seq(DiskFile) /\ count[id] \in Nat /\ file[id]
      /\ count[id] + 1 \in DOMAIN disk[id] /\ ~ disk[id][count[id] + 1].readonly
      /\ sealed \in BOOLEAN
  BY ObjectType, OutFileAssumption DEF CloseFile
<1>3. disk[id][count[id] + 1].size \in Nat
  <2>1. disk[id][count[id] + 1] \in DiskFile
    BY <1>2
  <2> QED BY <2>1 DEF DiskFile
<1>4. /\ d \in Seq(DiskFile) /\ Len(d) = Len(disk[id])
      /\ d[count[id] + 1].size = disk[id][count[id] + 1].size
      /\ \A k \in DOMAIN disk[id] : k # count[id] + 1 => d[k] = disk[id][k]
  BY <1>2, SetReadOnlyType
<1>5. disk' = [disk EXCEPT ![id] = d] /\ UNCHANGED count
  BY <1>1 DEF CloseFile
<1> HIDE DEF d
<1>6. fileSize' = [fileSize EXCEPT ![id] = d[count[id] + 1].size]
  BY <1>4 DEF CloseFile
<1>7. /\ d[count[id] + 1].size >= disk[id][count[id] + 1].size
      /\ disk[id][count[id] + 1].readonly => d[count[id] + 1].readonly
  BY <1>2, <1>3, <1>4
<1> QED BY <1>2, <1>4, <1>5, <1>6, <1>7, OwnFileSplit

-----------------------------------------------------------------------------
(* The files that have a successor stay as they are, where chmod works.    *)
OlderSame(old, new) == \A c \in DOMAIN old : c < Len(old) => new[c] = old[c]

NewestOnly == \A id \in FileID : OlderSame(disk[id], disk'[id])

(* An open file is the newest: the others are full, and so read-only.      *)
LEMMA OpenIsNewest ==
  ASSUME FilesInv, SplitInv, ~ ChmodMayFail, NEW id \in FileID, file[id]
  PROVE  count[id] + 1 = Len(disk[id])
<1>1. /\ disk[id] \in Seq(DiskFile) /\ count[id] \in Nat
      /\ count[id] + 1 \in DOMAIN disk[id] /\ ~ disk[id][count[id] + 1].readonly
  BY ObjectType
<1>2. ~ (count[id] + 1 < Len(disk[id]))
  BY <1>1 DEF SplitInv, Full
<1> QED BY <1>1, <1>2

(* Where one object acts, it decides.                                      *)
LEMMA NewestAt ==
  ASSUME FilesInv, NEW id \in FileID, NEW e,
         disk' = [disk EXCEPT ![id] = e], OlderSame(disk[id], e)
  PROVE  NewestOnly
<1> SUFFICES ASSUME NEW k \in FileID PROVE OlderSame(disk[k], disk'[k])
  BY DEF NewestOnly
<1>1. CASE k = id
  <2>1. disk'[k] = e
    BY <1>1 DEF FilesInv, FilesTypeOK
  <2> QED BY <1>1, <2>1
<1>2. CASE k # id
  <2>1. disk'[k] = disk[k]
    BY <1>2 DEF FilesInv, FilesTypeOK
  <2> QED BY <2>1 DEF OlderSame
<1> QED BY <1>1, <1>2

(* OpenFile creates a file or finds one, and seals the newest.             *)
LEMMA OpenFileNewest ==
  ASSUME FilesInv, SplitInv, ~ ChmodMayFail, NEW id \in FileID, NEW ok \in BOOLEAN,
         OpenFile(id, ok)
  PROVE  NewestOnly
<1>1. disk[id] \in Seq(DiskFile) /\ count[id] \in Nat /\ count[id] <= Len(disk[id])
  BY ObjectType
<1>2. CASE OpenFirst(id, ok)
  <2> DEFINE e == IF ok THEN Fopen(disk[id], count[id]) ELSE disk[id]
  <2>1. disk' = [disk EXCEPT ![id] = e]
    BY <1>2 DEF OpenFirst, NewFile
  <2>2. OlderSame(disk[id], e)
    BY <1>1 DEF Fopen, OlderSame
  <2> HIDE DEF e
  <2> QED BY <2>1, <2>2, NewestAt
<1>3. CASE KeepOpen(id, ok)
  BY <1>3 DEF KeepOpen, fileVars, NewestOnly, OlderSame
<1>4. CASE RollOver(id, ok)
  <2>1. PICK sealed \in {TRUE, ~ ChmodMayFail} :
          NewFile(id, SetReadOnly(disk[id], count[id], sealed), count[id] + 1, ok)
    BY <1>4 DEF RollOver
  <2> DEFINE d == SetReadOnly(disk[id], count[id], sealed)
             n == count[id] + 1
             e == IF ok THEN Fopen(d, n) ELSE d
  <2>2. n = Len(disk[id]) /\ n \in DOMAIN disk[id] /\ sealed \in BOOLEAN
    BY <1>1, <1>4, OpenIsNewest, ObjectType, OutFileAssumption DEF RollOver
  <2>3. /\ d \in Seq(DiskFile) /\ Len(d) = Len(disk[id])
        /\ \A c \in DOMAIN disk[id] : c # n => d[c] = disk[id][c]
    BY <1>1, <2>2, SetReadOnlyType
  <2>4. disk' = [disk EXCEPT ![id] = e]
    BY <2>1 DEF NewFile
  <2> HIDE DEF d
  <2>5. \A c \in DOMAIN d : e[c] = d[c]
    BY <2>3 DEF Fopen
  <2> HIDE DEF e
  <2>6. OlderSame(disk[id], e)
    BY <1>1, <2>2, <2>3, <2>5 DEF OlderSame
  <2> QED BY <2>4, <2>6, NewestAt
<1> QED BY <1>2, <1>3, <1>4 DEF OpenFile

(* Write extends the newest file.                                          *)
LEMMA WriteNewest ==
  ASSUME FilesInv, SplitInv, ~ ChmodMayFail, NEW id \in FileID, NEW kind \in ChunkKind,
         NEW words \in Seq(Nat), NEW size \in Nat, Write(id, kind, words, size)
  PROVE  NewestOnly
<1>1. CASE ~ file[id]
  BY <1>1 DEF Write, NewestOnly, OlderSame
<1>2. CASE file[id]
  <2>1. PICK n \in IF FwriteMayFail THEN 0 .. size ELSE {size} :
          WriteChunk(id, [kind |-> kind, words |-> words, size |-> n])
    BY <1>2 DEF Write
  <2> DEFINE chunk == [kind |-> kind, words |-> words, size |-> n]
  <2>2. chunk \in Chunk
    BY DEF Chunk
  <2>3. /\ disk[id] \in Seq(DiskFile) /\ count[id] \in Nat
        /\ count[id] + 1 \in DOMAIN disk[id] /\ count[id] + 1 = Len(disk[id])
    BY <1>2, ObjectType, OpenIsNewest
  <2>4. disk' = [disk EXCEPT ![id] = Written(id, chunk)]
    BY <2>1 DEF WriteChunk
  <2> HIDE DEF chunk
  <2>5. \A c \in DOMAIN disk[id] :
          c # count[id] + 1 => Written(id, chunk)[c] = disk[id][c]
    BY <2>2, <2>3, ExtendType DEF Written
  <2>6. OlderSame(disk[id], Written(id, chunk))
    BY <2>3, <2>5 DEF OlderSame
  <2> QED BY <2>4, <2>6, NewestAt
<1> QED BY <1>1, <1>2

(* CloseFile seals the newest file.                                        *)
LEMMA CloseFileNewest ==
  ASSUME FilesInv, SplitInv, ~ ChmodMayFail, NEW id \in FileID, CloseFile(id)
  PROVE  NewestOnly
<1>1. PICK sealed \in {TRUE, ~ ChmodMayFail} :
        disk' = [disk EXCEPT ![id] = SetReadOnly(disk[id], count[id], sealed)]
  BY DEF CloseFile
<1> DEFINE d == SetReadOnly(disk[id], count[id], sealed)
<1>2. /\ disk[id] \in Seq(DiskFile) /\ count[id] \in Nat
      /\ count[id] + 1 \in DOMAIN disk[id] /\ count[id] + 1 = Len(disk[id])
      /\ sealed \in BOOLEAN
  BY ObjectType, OpenIsNewest, OutFileAssumption DEF CloseFile
<1>3. \A c \in DOMAIN disk[id] : c # count[id] + 1 => d[c] = disk[id][c]
  BY <1>2, SetReadOnlyType
<1> HIDE DEF d
<1>4. OlderSame(disk[id], d)
  BY <1>2, <1>3 DEF OlderSame
<1>5. disk' = [disk EXCEPT ![id] = d]
  BY <1>1 DEF d
<1> QED BY <1>4, <1>5, NewestAt

-----------------------------------------------------------------------------
(* Files are sealed when they are left, where chmod works: of the files of *)
(* an object only its open one is not read-only.  Not so when a process    *)
(* was killed.                                                             *)
OpenOnly(d, n, open) == \A c \in DOMAIN d : ~ d[c].readonly => open /\ c = n + 1

SealedInv == \A id \in FileID : OpenOnly(disk[id], count[id], file[id])

(* Where one object acts, it decides.                                      *)
LEMMA SealedAt ==
  ASSUME FilesInv, SealedInv, NEW id \in FileID,
         NEW d, NEW n, NEW open, OpenOnly(d, n, open),
         disk' = [disk EXCEPT ![id] = d], count' = [count EXCEPT ![id] = n],
         file' = [file EXCEPT ![id] = open]
  PROVE  SealedInv'
<1> SUFFICES ASSUME NEW k \in FileID PROVE OpenOnly(disk'[k], count'[k], file'[k])
  BY DEF SealedInv
<1>1. CASE k = id
  <2>1. disk'[k] = d /\ count'[k] = n /\ file'[k] = open
    BY <1>1 DEF FilesInv, FilesTypeOK
  <2> QED BY <2>1
<1>2. CASE k # id
  <2>1. disk'[k] = disk[k] /\ count'[k] = count[k] /\ file'[k] = file[k]
    BY <1>2 DEF FilesInv, FilesTypeOK
  <2> QED BY <2>1 DEF SealedInv
<1> QED BY <1>1, <1>2

(* OpenFile: the file it creates or finds is the only one.                 *)
LEMMA NewFileSealed ==
  ASSUME FilesInv, SealedInv, NEW id \in FileID, NEW ok \in BOOLEAN,
         NEW d \in Seq(DiskFile), NEW n \in Nat, n <= Len(d),
         \A c \in DOMAIN d : d[c].readonly,
         NewFile(id, d, n, ok), count' = [count EXCEPT ![id] = n]
  PROVE  SealedInv'
<1> DEFINE e == IF ok THEN Fopen(d, n) ELSE d
<1>1. OpenOnly(e, n, ok)
  <2>1. CASE ok
    <3>1. n + 1 \notin DOMAIN d
      BY <2>1 DEF NewFile, Openable
    <3>2. n = Len(d) /\ e = Append(d, EmptyFile)
      BY <2>1, <3>1 DEF Fopen
    <3> HIDE DEF e
    <3>3. \A c \in DOMAIN e : c = n + 1 \/ (c \in DOMAIN d /\ e[c] = d[c])
      BY <3>2
    <3> QED BY <2>1, <3>3 DEF OpenOnly
  <2>2. CASE ~ ok
    BY <2>2 DEF OpenOnly
  <2> QED BY <2>1, <2>2
<1>2. disk' = [disk EXCEPT ![id] = e] /\ file' = [file EXCEPT ![id] = ok]
  BY DEF NewFile
<1> HIDE DEF e
<1> QED BY <1>1, <1>2, SealedAt

(* OpenFile, in each of its three cases.                                   *)
LEMMA OpenFileSealed ==
  ASSUME FilesInv, SealedInv, ~ ChmodMayFail, NEW id \in FileID, NEW ok \in BOOLEAN,
         OpenFile(id, ok)
  PROVE  SealedInv'
<1>1. disk[id] \in Seq(DiskFile) /\ count[id] \in Nat /\ count[id] <= Len(disk[id])
  BY ObjectType
<1>2. CASE OpenFirst(id, ok)
  <2> DEFINE d == disk[id]
             n == count[id]
  <2>1. /\ d \in Seq(DiskFile) /\ n \in Nat /\ n <= Len(d)
        /\ \A c \in DOMAIN d : d[c].readonly
        /\ NewFile(id, d, n, ok) /\ count' = [count EXCEPT ![id] = n]
    BY <1>1, <1>2, ObjectType DEF OpenFirst, SealedInv, OpenOnly
  <2> HIDE DEF d, n
  <2> QED BY <2>1, NewFileSealed
<1>3. CASE KeepOpen(id, ok)
  BY <1>3 DEF KeepOpen, fileVars, SealedInv
<1>4. CASE RollOver(id, ok)
  <2> DEFINE d == SetReadOnly(disk[id], count[id], TRUE)
             n == count[id] + 1
  <2>1. NewFile(id, d, n, ok) /\ count' = [count EXCEPT ![id] = n]
    BY <1>4 DEF RollOver
  <2>2. n \in DOMAIN disk[id]
    BY <1>4, ObjectType DEF RollOver
  <2>3. /\ d \in Seq(DiskFile) /\ Len(d) = Len(disk[id]) /\ d[n].readonly
        /\ \A c \in DOMAIN disk[id] : c # n => d[c] = disk[id][c]
    BY <1>1, <2>2, SetReadOnlyType
  <2>4. \A c \in DOMAIN disk[id] : c # n => disk[id][c].readonly
    BY DEF SealedInv, OpenOnly
  <2> HIDE DEF d
  <2>5. n \in Nat /\ n <= Len(d) /\ DOMAIN d = DOMAIN disk[id]
    BY <1>1, <2>2, <2>3
  <2>6. \A c \in DOMAIN d : d[c].readonly
    BY <2>3, <2>4, <2>5
  <2> HIDE DEF n
  <2> QED BY <2>1, <2>3, <2>5, <2>6, NewFileSealed
<1> QED BY <1>2, <1>3, <1>4 DEF OpenFile

(* Write and CloseFile: no mode changes but that of the open file.         *)
LEMMA OwnFileSealed ==
  ASSUME FilesInv, SealedInv, NEW id \in FileID, NEW d \in Seq(DiskFile),
         Len(d) = Len(disk[id]), NEW open,
         d[count[id] + 1].readonly \/ open,
         \A k \in DOMAIN disk[id] : k # count[id] + 1 => d[k] = disk[id][k],
         disk' = [disk EXCEPT ![id] = d], file' = [file EXCEPT ![id] = open],
         UNCHANGED count
  PROVE  SealedInv'
<1>1. disk[id] \in Seq(DiskFile) /\ count' = [count EXCEPT ![id] = count[id]]
  BY ObjectType
<1>2. DOMAIN d = DOMAIN disk[id]
  BY <1>1
<1>3. OpenOnly(d, count[id], open)
  BY <1>2 DEF SealedInv, OpenOnly
<1> QED BY <1>1, <1>3, SealedAt

(* Write goes to the open file.                                            *)
LEMMA WriteSealed ==
  ASSUME FilesInv, SealedInv, NEW id \in FileID, NEW kind \in ChunkKind,
         NEW words \in Seq(Nat), NEW size \in Nat, Write(id, kind, words, size)
  PROVE  SealedInv'
<1>1. CASE ~ file[id]
  BY <1>1 DEF Write, SealedInv
<1>2. CASE file[id]
  <2>1. PICK n \in IF FwriteMayFail THEN 0 .. size ELSE {size} :
          WriteChunk(id, [kind |-> kind, words |-> words, size |-> n])
    BY <1>2 DEF Write
  <2> DEFINE chunk == [kind |-> kind, words |-> words, size |-> n]
             d == Written(id, chunk)
  <2>2. chunk \in Chunk
    BY DEF Chunk
  <2>3. /\ disk[id] \in Seq(DiskFile) /\ count[id] \in Nat
        /\ count[id] + 1 \in DOMAIN disk[id]
    BY <1>2, ObjectType
  <2>4. disk' = [disk EXCEPT ![id] = d] /\ UNCHANGED count
        /\ file' = [file EXCEPT ![id] = TRUE]
    BY <1>2, <2>1 DEF Write, WriteChunk, FilesInv, FilesTypeOK
  <2> HIDE DEF chunk
  <2>5. /\ d \in Seq(DiskFile) /\ Len(d) = Len(disk[id])
        /\ \A k \in DOMAIN disk[id] : k # count[id] + 1 => d[k] = disk[id][k]
    BY <2>2, <2>3, ExtendType DEF Written
  <2> HIDE DEF d
  <2> QED BY <2>4, <2>5, OwnFileSealed
<1> QED BY <1>1, <1>2

(* CloseFile seals it.                                                     *)
LEMMA CloseFileSealed ==
  ASSUME FilesInv, SealedInv, ~ ChmodMayFail, NEW id \in FileID, CloseFile(id)
  PROVE  SealedInv'
<1> DEFINE d == SetReadOnly(disk[id], count[id], TRUE)
<1>1. /\ disk' = [disk EXCEPT ![id] = d] /\ file' = [file EXCEPT ![id] = FALSE]
      /\ UNCHANGED count
  BY DEF CloseFile
<1>2. /\ disk[id] \in Seq(DiskFile) /\ count[id] \in Nat
      /\ count[id] + 1 \in DOMAIN disk[id]
  BY ObjectType DEF CloseFile
<1>3. /\ d \in Seq(DiskFile) /\ Len(d) = Len(disk[id]) /\ d[count[id] + 1].readonly
      /\ \A k \in DOMAIN disk[id] : k # count[id] + 1 => d[k] = disk[id][k]
  BY <1>2, SetReadOnlyType
<1> HIDE DEF d
<1> QED BY <1>1, <1>3, OwnFileSealed

-----------------------------------------------------------------------------
(* A program made of these operations: each of its steps is one of them,   *)
(* or the end of a process, or leaves the files alone.                     *)
FileCall ==
  \/ \E id \in FileID : \E ok \in BOOLEAN : OpenFile(id, ok)
  \/ \E id \in FileID : \E kind \in ChunkKind : \E words \in Seq(Nat) : \E size \in Nat :
       Write(id, kind, words, size)
  \/ \E id \in FileID : CloseFile(id)
  \/ UNCHANGED <<file, count, fileSize, disk>>

FileStepOrDeath == FileCall \/ (NewObjects /\ UNCHANGED disk)

(* Files only grow.                                                        *)
LEMMA CallGrows == ASSUME FilesInv, FileStepOrDeath PROVE DiskGrows
BY OpenFileGrows, WriteGrows, CloseFileGrows, GrowsUnchanged DEF FileStepOrDeath, FileCall

(* New objects begin with the first file, which is full if it is not the   *)
(* last.                                                                   *)
LEMMA NewObjectsSplit ==
  ASSUME FilesInv, SplitInv, NewObjects, UNCHANGED disk PROVE SplitInv'
<1>1. \A id \in FileID : /\ disk'[id] = disk[id] /\ count'[id] = 0 /\ fileSize'[id] = 0
                         /\ count[id] \in Nat /\ disk[id] \in Seq(DiskFile)
  BY ObjectType DEF NewObjects
<1>2. \A id \in FileID : Full(disk[id], 0)
  <2>1. \A id \in FileID : Full(disk[id], count[id]) /\ \A c \in DOMAIN disk[id] : ~ c <= 0
    BY <1>1 DEF SplitInv
  <2> QED BY <2>1 DEF Full
<1> QED BY <1>1, <1>2 DEF SplitInv, Believed

(* Only full files get a successor.                                        *)
LEMMA CallSplit == ASSUME FilesInv, SplitInv, FileStepOrDeath PROVE SplitInv'
<1>1. CASE UNCHANGED <<file, count, fileSize, disk>>
  BY <1>1 DEF SplitInv
<1> QED BY <1>1, OpenFileSplit, WriteSplit, CloseFileSplit, NewObjectsSplit
        DEF FileStepOrDeath, FileCall

(* There is nothing to split, or to seal, at the start.                    *)
LEMMA FilesInitSplit == FilesInit => SplitInv /\ SealedInv
<1>1. DOMAIN <<>> = {}
  OBVIOUS
<1> QED BY <1>1 DEF FilesInit, SplitInv, Full, Believed, SealedInv, OpenOnly

(* Only the newest file changes.                                           *)
LEMMA CallNewest ==
  ASSUME FilesInv, SplitInv, ~ ChmodMayFail, FileStepOrDeath PROVE NewestOnly
<1>1. CASE UNCHANGED disk
  BY <1>1 DEF NewestOnly, OlderSame
<1> QED BY <1>1, OpenFileNewest, WriteNewest, CloseFileNewest DEF FileStepOrDeath, FileCall

(* Files are sealed as long as no process dies.                            *)
LEMMA CallSealed ==
  ASSUME FilesInv, SealedInv, ~ ChmodMayFail, FileCall PROVE SealedInv'
<1>1. CASE UNCHANGED <<file, count, fileSize, disk>>
  BY <1>1 DEF SealedInv
<1> QED BY <1>1, OpenFileSealed, WriteSealed, CloseFileSealed DEF FileCall
=============================================================================
