------------------------------ MODULE Receiver ------------------------------
(***************************************************************************)
(* The receiver of one crate: main of src/receiver/tcp_Receiver.cpp, with  *)
(* the server it reads from, the files it writes, and the scripts that     *)
(* kill it and start it again for the same run.                            *)
(***************************************************************************)
EXTENDS WriteData

CONSTANT MayKill      \* kill_IOC.sh, or a closed terminal, may kill it

ASSUME ReceiverAssumption == MayKill \in BOOLEAN

vars == <<getVars, event, fileVars>>

NoEvent == [kind |-> "body", file |-> ZeroFile, len |-> 0]

Init ==
  /\ GetInit
  /\ FilesInit
  /\ event = NoEvent

(* The loop of main ends at TypeD_RunIsDone, and the socket is closed.     *)
EndRun ==
  /\ pc = "stop"
  /\ netSocket' = "none" /\ wire' = <<>> /\ asked' = 0
  /\ pc' = "closing"
  /\ UNCHANGED <<sent, words, got, index, stream, data, event, fileVars>>

(* The objects are deleted one by one, which closes their files.           *)
CloseOne ==
  /\ pc = "closing"
  /\ \E id \in FileID : CloseFile(id)
  /\ UNCHANGED <<getVars, event>>

(* Mutant: the objects are not deleted.                                    *)
EndOpen ==
  /\ pc = "closing"
  /\ pc' = "ended"
  /\ UNCHANGED <<netVars, words, got, index, stream, data, event, fileVars>>

End ==
  /\ pc = "closing" /\ \A id \in FileID : ~ file[id]
  /\ pc' = "ended"
  /\ UNCHANGED <<netVars, words, got, index, stream, data, event, fileVars>>

(* The process is gone: nothing is left of it but the files.               *)
Die ==
  /\ pc' = "dead"
  /\ netSocket' = "none" /\ wire' = <<>> /\ asked' = 0
  /\ words' = 0 /\ got' = 0 /\ index' = 0
  /\ data' = [k \in 1 .. DataSize |-> 0]
  /\ event' = NoEvent
  /\ NewObjects
  /\ UNCHANGED <<sent, stream, disk, starts>>

Running == pc \notin {"ended", "dead"}

Kill == MayKill /\ Running /\ Die

(* Mutant: SIGPIPE is ignored: send fails, and main asks again.            *)
BrokenPipeIgnored ==
  pc = "request" /\ netSocket = "reset" /\ UNCHANGED vars

(* send on a connection that was reset raises SIGPIPE, which nothing       *)
(* catches.                                                                *)
BrokenPipe == pc = "request" /\ netSocket = "reset" /\ Die

(* start_run.sh with the same run number: same folder, same file names.    *)
Restart ==
  /\ pc = "dead" /\ starts < MaxStarts
  /\ starts' = starts + 1
  /\ pc' = "connect"
  /\ UNCHANGED <<netVars, words, got, index, stream, data, event,
                 file, count, fileSize, disk>>

Terminated == ~ Running /\ UNCHANGED vars

FileStep == UNCHANGED <<event, fileVars>>

Connect == SetUpConnection /\ FileStep
Send == SendRequest /\ FileStep
Resend == SendFails /\ FileStep
ReplyHeader == GetHeader /\ FileStep
ReplyBody == GetBody /\ FileStep
NoReply == RecvNothing /\ FileStep

Summary == ServerSummary /\ FileStep
NoData == ServerNoData /\ FileStep
Close == ServerCloses /\ FileStep

Main ==
  \/ Connect \/ Send \/ Resend \/ ReplyHeader \/ ReplyBody \/ NoReply
  \/ Decode
  \/ EndRun \/ CloseOne \/ End \/ BrokenPipe

Server == Summary \/ NoData \/ Close

Next == Main \/ Server \/ Kill \/ Restart \/ Terminated

Spec == Init /\ [][Next]_vars

-----------------------------------------------------------------------------

TypeOK ==
  /\ FilesTypeOK
  /\ stream \in Streams
  /\ data \in Seq(Nat)
  /\ pc \in {"connect", "request", "reply", "body", "decode", "open", "geb",
             "write", "stop", "closing", "ended", "dead"}
  /\ netSocket \in {"none", "up", "fin", "reset"}
  /\ asked \in Nat /\ sent \in Nat
  /\ wire \in Seq(Item)
  /\ words \in Nat /\ got \in Nat /\ index \in Nat
  /\ event \in Event

(* recv never writes behind the end of data, and WriteData is only given   *)
(* words that were received: data is resized to what the reply header      *)
(* announces before the first recv, and the loop in GetData asks for no    *)
(* more than is missing, however the words come in and whatever the header *)
(* says.                                                                   *)
BufferFits ==
  /\ pc = "body" => got <= words /\ words <= Len(data)
  /\ pc \in {"decode", "open", "geb", "write"} =>
       got = words /\ words <= Len(data)

(* The file an event is written to is open and writable when Write is      *)
(* called: its result is not looked at, so an event for a closed file      *)
(* would be lost without a word.                                           *)
OpenForWrite ==
  pc \in {"geb", "write"} =>
    LET id == event.file
    IN  /\ file[id] /\ count[id] + 1 \in DOMAIN disk[id]
        /\ ~ disk[id][count[id] + 1].readonly

(* The receiver stays in step with the server: while the connection is up, *)
(* what it still waits for is what is on its way, so neither waits for the *)
(* other and no data is taken for a header (reply[] in GetData: "0 = Type, *)
(* 1 = Record Size in Byte, 2 = Status, 3 = num. of record").              *)
InStep == pc = "body" /\ netSocket = "up" => Len(wire) = words - got

(* A run that ended by itself left no file that can still be changed.      *)
EndsSealed ==
  pc = "ended" /\ starts = 1 =>
    \A id \in FileID : \A c \in DOMAIN disk[id] : disk[id][c].readonly

(* An event is only written when all of it was received: "ERROR. DIG Data. *)
(* Word received < packet length." is what WriteData says otherwise.       *)
WrittenWasReceived ==
  pc = "write" /\ event.kind = "body" => index + 1 + event.len <= words
=============================================================================
