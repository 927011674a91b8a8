------------------------- MODULE OutFileClassProofs -------------------------
(***************************************************************************)
(* What holds of the class OutFile under any order of calls, from what     *)
(* module OutFileProofs shows of each.                                     *)
(***************************************************************************)
EXTENDS OutFileClass, OutFileProofs

(* FilesInv is inductive: one step per operation of the class.             *)
LEMMA FilesNextInv == FilesInv /\ [FilesNext]_fileVars => FilesInv'
<1> SUFFICES ASSUME FilesInv, [FilesNext]_fileVars PROVE FilesInv'
  OBVIOUS
<1>1. ASSUME NEW id \in FileID, NEW ok \in BOOLEAN, OpenFile(id, ok)
      PROVE  FilesInv'
  BY <1>1, OpenFileInv
<1>2. ASSUME NEW id \in FileID, NEW size \in WriteSizes, WriteAny(id, size)
      PROVE  FilesInv'
  <2>1. Write(id, "body", <<>>, size)
    BY <1>2 DEF WriteAny
  <2>2. "body" \in ChunkKind /\ <<>> \in Seq(Nat) /\ size \in Nat
    BY <1>2, OutFileClassAssumption DEF ChunkKind
  <2> QED BY <2>1, <2>2, WriteInv
<1>3. ASSUME NEW id \in FileID, CloseFile(id)
      PROVE  FilesInv'
  BY <1>3, CloseFileInv
<1>4. CASE NewProcess
  <2>1. starts' \in 1 .. MaxStarts
    BY <1>4, OutFileAssumption DEF NewProcess, FilesInv, FilesTypeOK
  <2> QED BY <1>4, <2>1, NewObjectsInv DEF NewProcess
<1>5. CASE UNCHANGED fileVars
  BY <1>5 DEF fileVars, FilesInv, FilesTypeOK, OpenIsWritable
<1> QED BY <1>1, <1>2, <1>3, <1>4, <1>5 DEF FilesNext

(* The class keeps its types, whatever is called when.                     *)
THEOREM FilesTypeCorrect == FilesSpec => []FilesTypeOK
<1>1. FilesInv => FilesTypeOK
  BY DEF FilesInv
<1> QED BY <1>1, FilesInitInv, FilesNextInv, PTL DEF FilesSpec

(* An object with an open file has a writable file of its number on disk,  *)
(* and no number is skipped, whatever fopen, fwrite and chmod do.          *)
THEOREM FilesOpenIsWritable == FilesSpec => []OpenIsWritable
<1>1. FilesInv => OpenIsWritable
  BY DEF FilesInv
<1> QED BY <1>1, FilesInitInv, FilesNextInv, PTL DEF FilesSpec

(* A step of the class is a call, or the end of a process.                 *)
LEMMA FilesNextCalls == ASSUME FilesNext PROVE FileStepOrDeath
<1>1. ASSUME NEW id \in FileID, NEW size \in WriteSizes, WriteAny(id, size)
      PROVE  FileStepOrDeath
  <2>1. Write(id, "body", <<>>, size)
    BY <1>1 DEF WriteAny
  <2>2. "body" \in ChunkKind /\ <<>> \in Seq(Nat) /\ size \in Nat
    BY <1>1, OutFileClassAssumption DEF ChunkKind
  <2> QED BY <2>1, <2>2 DEF FileStepOrDeath, FileCall
<1> QED BY <1>1 DEF FilesNext, NewProcess, FileStepOrDeath, FileCall

(* SplitInv is inductive.                                                  *)
LEMMA FilesNextSplit == FilesInv /\ SplitInv /\ [FilesNext]_fileVars => SplitInv'
<1>1. CASE UNCHANGED fileVars
  BY <1>1 DEF fileVars, SplitInv
<1> QED BY <1>1, FilesNextCalls, CallSplit

(* No call, in whatever order and by however many processes, loses or      *)
(* rewrites what is on disk: a file only grows at its end, and one that is *)
(* read-only stays as it is (NewFile opens with "ab", CloseFile seals).    *)
THEOREM FilesDiskOnlyGrows == FilesSpec => DiskOnlyGrows
<1>1. FilesInv /\ [FilesNext]_fileVars => [DiskGrows]_fileVars
  BY FilesNextCalls, CallGrows
<1>2. FilesSpec => [][DiskGrows]_fileVars
  BY <1>1, FilesInitInv, FilesNextInv, PTL DEF FilesSpec
<1> QED BY <1>2 DEF DiskOnlyGrows, DiskGrows

(* A file has a successor only because it was over the limit, whatever     *)
(* fopen, fwrite and chmod do and however many processes come.             *)
THEOREM FilesSplitOnlyWhenFull == FilesSpec => []SplitOnlyWhenFull
<1>1. FilesInv /\ SplitInv => SplitOnlyWhenFull
  BY DEF SplitInv, Full, SplitOnlyWhenFull
<1> QED BY <1>1, FilesInitInv, FilesNextInv, FilesInitSplit, FilesNextSplit, PTL DEF FilesSpec

(* The size an object believes its open file to have is the size on disk,  *)
(* or the 0 it starts a file with.                                         *)
THEOREM FilesSizeIsKnown == FilesSpec => []SizeIsKnown
<1>1. FilesInv /\ SplitInv => SizeIsKnown
  BY DEF SplitInv, Believed, SizeIsKnown
<1> QED BY <1>1, FilesInitInv, FilesNextInv, FilesInitSplit, FilesNextSplit, PTL DEF FilesSpec

(* Where chmod works, only the newest file of a channel ever changes, so   *)
(* the order of the files is the order of the data.                        *)
THEOREM FilesOnlyNewestChanges == FilesSpec => OnlyNewestChanges
<1>1. FilesInv /\ SplitInv /\ [FilesNext]_fileVars => [~ ChmodMayFail => NewestOnly]_fileVars
  BY FilesNextCalls, CallNewest
<1>2. FilesSpec => [][~ ChmodMayFail => NewestOnly]_fileVars
  BY <1>1, FilesInitInv, FilesNextInv, FilesInitSplit, FilesNextSplit, PTL DEF FilesSpec
<1> QED BY <1>2 DEF OnlyNewestChanges, NewestOnly, OlderSame
=============================================================================
