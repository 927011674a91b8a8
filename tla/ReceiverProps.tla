--------------------------- MODULE ReceiverProps ----------------------------
(***************************************************************************)
(* What the receiver's files are worth: the properties of module Receiver. *)
(***************************************************************************)
EXTENDS Receiver, SequencesExt, FiniteSets

(* The chunks on disk, file after file.                                    *)
ChunksOf(id) == FlattenSeq([c \in DOMAIN disk[id] |-> disk[id][c].chunks])

(* The events WriteData wrote them for: 0 stands for anything that is not  *)
(* the whole of an event.  A GEB header is none.                           *)
IsWhole(chunk, p) ==
  /\ chunk.words = Payload(p)
  /\ chunk.kind = IF IsTrig(p) THEN "trig" ELSE "body"
  /\ chunk.size = IF IsTrig(p) THEN TrigPacketLength ELSE Len(chunk.words)

EventOf(chunk) ==
  LET p == IF chunk.kind = "trig" THEN chunk.words[1] ELSE chunk.words[1] - 1
  IN  IF p \in Events /\ IsWhole(chunk, p) THEN p ELSE 0

EventsOf(chunk) == IF chunk.kind = "geb" THEN <<>> ELSE << EventOf(chunk) >>

LogOf(chunks) == FlattenSeq([i \in DOMAIN chunks |-> EventsOf(chunks[i])])

Log == [id \in FileID |-> LogOf(ChunksOf(id))]

(* The receiver is a recorder, also when it is killed at any point and     *)
(* started again for the same run (WriteData, OutFile): nothing is torn,   *)
(* misfiled, repeated or out of order.                                     *)
Rec == INSTANCE Recorder WITH events <- [p \in Events |-> FileOf(p)], log <- Log
ImplementsRecorder == Rec!Spec

(* However replies are cut, headers garbled and writes cut short: what is  *)
(* whole on disk is there once, and in order.                              *)
OnceInOrder ==
  \A id \in FileID : \A i, j \in DOMAIN Log[id] :
    i < j /\ Log[id][i] # 0 /\ Log[id][j] # 0 => Log[id][i] < Log[id][j]

-----------------------------------------------------------------------------

Deaths == starts - 1 + (IF pc = "dead" THEN 1 ELSE 0)

(* A body is behind the GEB header that was written for it, and a header   *)
(* without a body is the last thing a killed process wrote (the two calls  *)
(* of Write in WriteData are not one).                                     *)
GebOf(body) == <<body.words[1] - 1>>

OrphansOf(chunks) ==
  { i \in DOMAIN chunks :
      /\ chunks[i].kind = "geb"
      /\ \/ i = Len(chunks)
         \/ chunks[i + 1].kind # "body"
         \/ chunks[i].words # GebOf(chunks[i + 1]) }

Orphans ==
  UNION { UNION { { <<id, c, i>> : i \in OrphansOf(disk[id][c].chunks) }
                    : c \in DOMAIN disk[id] } : id \in FileID }

Framed ==
  /\ Cardinality(Orphans)
       <= Deaths + (IF pc = "write" /\ event.kind = "body" THEN 1 ELSE 0)
  /\ \A id \in FileID : \A c \in DOMAIN disk[id] :
       LET chunks == disk[id][c].chunks
       IN  \A i \in DOMAIN chunks :
             chunks[i].kind = "body" => i > 1 /\ chunks[i - 1].words = GebOf(chunks[i])

(* As long as one process keeps its connection, no event the server sent   *)
(* is missing from disk once its reply is decoded, and at the end of the   *)
(* run none that came before the type D packet.                            *)
IsRecorded(p) == p \in ToSet(Log[FileOf(p)])

NothingLost ==
  starts = 1 =>
    /\ pc = "request" /\ netSocket = "up" =>
         \A p \in Events : p <= sent => IsRecorded(p)
    /\ pc \in {"stop", "closing", "ended"} =>
         \E d \in PacketStarts :
           IsDone(d) /\ \A p \in Events : p < d => IsRecorded(p)

(* The run only ends when the server has sent a type D packet.             *)
EndsOnlyAtDone ==
  pc \in {"stop", "closing", "ended"} =>
    \E d \in PacketStarts : IsDone(d) /\ d <= sent

(* A file is over the limit by one event of each process that wrote it, at *)
(* the most: the size is only checked before an event.                     *)
LongestEvent ==
  CHOOSE n \in 0 .. TrigPacketLength + GebWords + Len(stream) :
    /\ \A p \in Events : n >= IF IsTrig(p) THEN TrigPacketLength
                              ELSE GebWords + Len(Payload(p))
    /\ n = 0 \/ \E p \in Events : n = IF IsTrig(p) THEN TrigPacketLength
                                      ELSE GebWords + Len(Payload(p))

OverrunBound ==
  \A id \in FileID : \A c \in DOMAIN disk[id] :
    disk[id][c].size <= MaxFileSize + starts * LongestEvent

-----------------------------------------------------------------------------
(* Liveness.  The receiver's process is scheduled; the server, asked again *)
(* and again, answers with data infinitely often if it has any.            *)
LiveSpec == Spec /\ WF_vars(Main) /\ SF_vars(Summary)

(* The run ends: every receiver gets to the type D packet its server sent, *)
(* or loses its connection and dies of it.  Not so one that was started in *)
(* place of a killed one: if type D was sent to that one, it waits for it  *)
(* for ever.                                                               *)
RunEnds == []<>(~ Running \/ starts > 1)

(* A receiver whose server is gone does not stay: nothing in main looks at *)
(* the result of GetData, it takes the second send to end the process.     *)
ClosedEnds == netSocket = "fin" ~> ~ Running
=============================================================================
