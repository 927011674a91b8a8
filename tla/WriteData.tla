----------------------------- MODULE WriteData ------------------------------
(***************************************************************************)
(* WriteData of the receiver: it walks over the words of a reply, one      *)
(* packet at a time, and writes every event to the file of its channel.    *)
(* One action per branch of the loop; opening the file, writing the GEB    *)
(* header and writing the event are steps of their own, since the process  *)
(* may be killed between them.                                             *)
(*                                                                         *)
(* Every return but the one at "Run is done" has the same effect in main:  *)
(* the rest of the reply is dropped and the next one asked for.            *)
(***************************************************************************)
EXTENDS GetData, OutFile

VARIABLE
  event       \* the event being written: its kind, file and length

Event == [kind : {"body", "trig"}, file : FileID, len : Nat]

dataVars == <<netVars, words, got, stream, data>>

(* The end of the loop: return Good.                                       *)
Finish ==
  /\ pc = "decode" /\ index >= words
  /\ pc' = "request"
  /\ UNCHANGED <<dataVars, index, event, fileVars>>

AtMark(m) == pc = "decode" /\ index < words /\ Mark(index) = m

(* For mutants of DigSkip: next is where WriteData goes after the packet.  *)
DigSkipTo(header, next) ==
  /\ AtMark("dig") /\ header \in WordAt(index + 1)
  /\ header.type # "chan"
  /\ index' = index + SkipWords
  /\ pc' = next
  /\ UNCHANGED <<dataVars, event, fileVars>>

(* Mutants: types E and F end the run too; they return Good at once.       *)
DigSkipEnds(header) == DigSkipTo(header, "stop")
DigSkipReturns(header) ==
  DigSkipTo(header, IF header.type = "done" THEN "stop" ELSE "request")

(* The marker of a digitizer packet, and the header word after it, which   *)
(* is read without asking whether it was received.                         *)
(* Types D, E and F: only D ends the run.                                  *)
DigSkip(header) ==
  /\ AtMark("dig") /\ header \in WordAt(index + 1)
  /\ header.type # "chan"
  /\ index' = index + SkipWords
  /\ pc' = IF header.type = "done" THEN "stop" ELSE "decode"
  /\ UNCHANGED <<dataVars, event, fileVars>>

(* The length check counts len words from the marker on, while the marker  *)
(* and len words after it make the packet.                                 *)
DigFits(header) == header.len + index <= words

DigIncomplete(header) ==
  /\ AtMark("dig") /\ header \in WordAt(index + 1)
  /\ header.type = "chan" /\ ~ DigFits(header)
  /\ pc' = "request"
  /\ UNCHANGED <<dataVars, index, event, fileVars>>

DigEvent(header) ==
  /\ AtMark("dig") /\ header \in WordAt(index + 1)
  /\ header.type = "chan" /\ DigFits(header)
  /\ event' = [kind |-> "body", file |-> header.file, len |-> header.len]
  /\ pc' = "open"
  /\ UNCHANGED <<dataVars, index, fileVars>>

TrigFits == index + TrigDataSize <= words

TrigIncomplete ==
  /\ AtMark("trig") /\ ~ TrigFits
  /\ pc' = "request"
  /\ UNCHANGED <<dataVars, index, event, fileVars>>

TrigEvent ==
  /\ AtMark("trig") /\ TrigFits
  /\ event' = [kind |-> "trig", file |-> TrigFile, len |-> TrigDataSize]
  /\ pc' = "open"
  /\ UNCHANGED <<dataVars, index, fileVars>>

UnknownDataType ==
  /\ AtMark("none")
  /\ index' = index + 1
  /\ pc' = "request"
  /\ UNCHANGED <<dataVars, event, fileVars>>

(* Mutants: the result of OpenFile is not looked at; the GEB header is     *)
(* only written when a file is opened.                                     *)
OpenUnchecked(ok) ==
  /\ pc = "open"
  /\ OpenFile(event.file, ok)
  /\ pc' = IF event.kind = "trig" THEN "write" ELSE "geb"
  /\ UNCHANGED <<dataVars, index, event>>
HeaderPerFile(ok) ==
  /\ pc = "open"
  /\ OpenFile(event.file, ok)
  /\ pc' = CASE ~ ok -> "request"
              [] ok /\ (event.kind = "trig" \/ file[event.file]) -> "write"
              [] OTHER -> "geb"
  /\ UNCHANGED <<dataVars, index, event>>

(* OpenFile; when it fails, DIG_fileOpenError is returned.                 *)
OpenEventFile(ok) ==
  /\ pc = "open"
  /\ OpenFile(event.file, ok)
  /\ pc' = IF ~ ok THEN "request" ELSE IF event.kind = "trig" THEN "write" ELSE "geb"
  /\ UNCHANGED <<dataVars, index, event>>

(* The GEB header of a digitizer event: its length and its timestamp.      *)
WriteGEB ==
  /\ pc = "geb"
  /\ Write(event.file, "geb", <<data[index + 1]>>, GebWords)
  /\ pc' = "write"
  /\ UNCHANGED <<dataVars, index, event>>

WriteBody ==
  /\ pc = "write" /\ event.kind = "body"
  /\ Write(event.file, "body", CopyOfData(index + 1, event.len), event.len)
  /\ index' = index + event.len + 1
  /\ pc' = "decode"
  /\ UNCHANGED <<dataVars, event>>

(* A trigger event is repacked, from 16 words of 16 bits to 10 of 32.      *)
WriteTrig ==
  /\ pc = "write" /\ event.kind = "trig"
  /\ Write(TrigFile, "trig", CopyOfData(index, TrigDataSize), TrigPacketLength)
  /\ index' = index + TrigDataSize
  /\ pc' = "decode"
  /\ UNCHANGED <<dataVars, event>>

Decode ==
  \/ Finish
  \/ \E header \in WordAt(index + 1) :
       DigSkip(header) \/ DigIncomplete(header) \/ DigEvent(header)
  \/ TrigIncomplete \/ TrigEvent \/ UnknownDataType
  \/ \E ok \in BOOLEAN : OpenEventFile(ok)
  \/ WriteGEB \/ WriteBody \/ WriteTrig
=============================================================================
