---------------------------- MODULE OutFileClass ----------------------------
(***************************************************************************)
(* The class OutFile on its own: any order of calls of its operations, on  *)
(* any channel, by up to MaxStarts processes in turn that end, at any      *)
(* point, with or without CloseFile.  What holds here holds of the files   *)
(* whatever the receiver does with them.                                   *)
(***************************************************************************)
EXTENDS OutFile

CONSTANTS
  WriteSizes,      \* sizes of what is written at once
  MaxChunks,       \* bound: chunks in one file
  MaxFiles         \* bound: files of a channel that are written

ASSUME OutFileClassAssumption ==
  /\ WriteSizes \subseteq Nat
  /\ MaxChunks \in Nat /\ MaxFiles \in Nat

(* Write from a caller that has more to say; with no open file it is a     *)
(* call that has no effect.                                                *)
WriteAny(id, size) ==
  /\ Len(disk[id]) <= MaxFiles
  /\ file[id] => Len(disk[id][count[id] + 1].chunks) < MaxChunks
  /\ Write(id, "body", <<>>, size)

NewProcess ==
  /\ starts < MaxStarts
  /\ starts' = starts + 1
  /\ NewObjects
  /\ UNCHANGED disk

FilesNext ==
  \/ \E id \in FileID :
       \/ \E ok \in BOOLEAN : OpenFile(id, ok)
       \/ \E size \in WriteSizes : WriteAny(id, size)
       \/ CloseFile(id)
  \/ NewProcess

FilesSpec == FilesInit /\ [][FilesNext]_fileVars
=============================================================================
