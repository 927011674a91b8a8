--------------------------- MODULE ReceiverProofs ---------------------------
(***************************************************************************)
(* Proofs about the receiver, for every stream, every server allowed by    *)
(* the constants (replies cut anywhere, headers received in part, closed   *)
(* connections) and every failure of fopen, fwrite and chmod.              *)
(***************************************************************************)
EXTENDS ReceiverProps, OutFileProofs, SequenceTheorems, WellFoundedInduction

(* While an event is being written, its marker is within the reply and     *)
(* its file is open.                                                       *)
AtEvent ==
  /\ pc \in {"open", "geb", "write"} => index < words
  /\ pc \in {"geb", "write"} => file[event.file]

ReceiverInv == TypeOK /\ OpenIsWritable /\ BufferFits /\ AtEvent

-----------------------------------------------------------------------------
(* The buffer.                                                             *)

(* What the server sends are words.                                        *)
LEMMA StreamType ==
  ASSUME stream \in Streams PROVE stream \in Seq(Word)
BY DataBufferAssumption

(* The word the buffer is filled with is a word.                           *)
LEMMA ZeroWordType == ZeroWord \in Word
BY ChannelsAssumption DEF ZeroWord, Word

(* A word read from data is a word, within the vector and behind its end.  *)
LEMMA WordAtType ==
  ASSUME stream \in Streams, NEW i, NEW w \in WordAt(i)
  PROVE  w \in Word
<1>1. ASSUME NEW p PROVE WordOf(p) \in Word
  BY StreamType, ZeroWordType DEF WordOf
<1> QED BY <1>1 DEF WordAt

(* data.resize gives as many words as it is asked for.                     *)
LEMMA ResizeType ==
  ASSUME data \in Seq(Nat), NEW n \in Nat
  PROVE  Resize(n) \in Seq(Nat) /\ Len(Resize(n)) = n
<1>1. Resize(n) \in [1 .. n -> Nat]
  BY DEF Resize
<1> QED BY <1>1

(* recv changes words of data, not their number.                           *)
LEMMA StoreAtType ==
  ASSUME data \in Seq(Nat), NEW i \in Nat, NEW ws \in Seq(Nat)
  PROVE  StoreAt(i, ws) \in Seq(Nat) /\ Len(StoreAt(i, ws)) = Len(data)
<1>1. StoreAt(i, ws) \in [1 .. Len(data) -> Nat]
  BY DEF StoreAt
<1> QED BY <1>1

(* What is handed to Write is a sequence of words.                         *)
LEMMA CopyOfDataType ==
  ASSUME data \in Seq(Nat), NEW i \in Nat, NEW n \in Nat
  PROVE  CopyOfData(i, n) \in Seq(Nat)
<1>1. CopyOfData(i, n) \in [1 .. n -> Nat]
  BY DEF CopyOfData
<1> QED BY <1>1

(* Anything on the wire can be read as a field and as data.                *)
LEMMA FieldType ==
  ASSUME NEW x \in Item PROVE AsField(x) \in Nat /\ AsData(x) \in Nat
BY DEF Item, AsField, AsData, NO_DATA

(* The server's header is four items of the wire.                          *)
LEMMA HeaderType ==
  ASSUME NEW type \in Nat, NEW n \in Nat PROVE Header(type, n) \in Seq(Item)
<1>1. \A v \in Nat : Field(v) \in Item
  BY DEF Field, Item
<1> QED BY <1>1 DEF Header

-----------------------------------------------------------------------------

(* The invariant holds when the receiver starts.                           *)
LEMMA InitInv == Init => ReceiverInv
<1> SUFFICES ASSUME Init PROVE ReceiverInv
  OBVIOUS
<1>1. FilesTypeOK /\ OpenIsWritable
  BY FilesInitInv DEF Init, FilesInv
<1>2. data \in Seq(Nat)
  <2>1. data \in [1 .. DataSize -> Nat]
    BY DEF Init, GetInit, DataInit
  <2> QED BY <2>1, DataBufferAssumption
<1>3. event \in Event
  BY ChannelsAssumption DEF Init, NoEvent, Event
<1>4. wire \in Seq(Item)
  BY DEF Init, GetInit
<1> QED BY <1>1, <1>2, <1>3, <1>4
        DEF Init, GetInit, DataInit, ReceiverInv, TypeOK, BufferFits, AtEvent

(* Steps of the server.                                                    *)
LEMMA ServerInv == ReceiverInv /\ Server => ReceiverInv'
<1> SUFFICES ASSUME ReceiverInv, Server PROVE ReceiverInv'
  OBVIOUS
<1>1. FileStep /\ UNCHANGED <<pc, words, got, index, stream, data>>
  BY DEF Server, Summary, NoData, Close, ServerSummary, ServerNoData,
         ServerReply, ServerCloses
<1>2. /\ wire' \in Seq(Item) /\ asked' \in Nat /\ sent' \in Nat
      /\ netSocket' \in {"none", "up", "fin", "reset"}
  <2>1. ASSUME NEW type \in Nat, NEW n \in Nat, ServerReply(type, n)
        PROVE  /\ wire' \in Seq(Item) /\ asked' \in Nat /\ sent' \in Nat
               /\ netSocket' \in {"none", "up", "fin", "reset"}
    <3> DEFINE ws == [k \in 1 .. n |-> [kind |-> "word", val |-> sent + k]]
    <3>1. ws \in Seq(Item)
      <4>1. ws \in [1 .. n -> Item]
        BY DEF ReceiverInv, TypeOK, Item
      <4> QED BY <4>1
    <3>2. wire' = wire \o Header(type, n) \o ws
      BY <2>1 DEF ServerReply
    <3> HIDE DEF ws
    <3>3. wire' \in Seq(Item)
      BY <3>1, <3>2, HeaderType DEF ReceiverInv, TypeOK
    <3>4. /\ asked > 0 /\ asked' = asked - 1 /\ sent' = sent + n
          /\ netSocket' = netSocket
      BY <2>1, Zenon DEF ServerReply
    <3> QED BY <3>3, <3>4 DEF ReceiverInv, TypeOK
  <2>2. CASE Summary
    BY <2>1, <2>2, GetDataAssumption DEF Summary, ServerSummary, SERVER_SUMMARY
  <2>3. CASE NoData
    BY <2>1, <2>3 DEF NoData, ServerNoData, SERVER_SUMMARY, INSUFF_DATA, NO_DATA
  <2>4. CASE Close
    <3>1. PICK n \in 0 .. Len(wire) : wire' = SubSeq(wire, 1, n)
      BY <2>4 DEF Close, ServerCloses
    <3>2. wire' \in Seq(Item)
      BY <3>1 DEF ReceiverInv, TypeOK
    <3> QED BY <2>4, <3>2 DEF Close, ServerCloses, ReceiverInv, TypeOK
  <2> QED BY <2>2, <2>3, <2>4 DEF Server
<1> QED BY <1>1, <1>2 DEF FileStep, fileVars, ReceiverInv, TypeOK, FilesTypeOK,
             OpenIsWritable, BufferFits, AtEvent

(* GetData: the reply header, received in full or in part.                 *)
LEMMA GetHeaderInv == ReceiverInv /\ GetHeader /\ FileStep => ReceiverInv'
<1> SUFFICES ASSUME ReceiverInv, GetHeader, FileStep PROVE ReceiverInv'
  OBVIOUS
<1>0. PICK n \in 1 .. 4 : \E rest \in [n + 1 .. 4 -> Garbage] : RecvHeader(n, rest)
  BY DEF GetHeader
<1>1. PICK rest \in [n + 1 .. 4 -> Garbage] : RecvHeader(n, rest)
  BY <1>0
<1> DEFINE reply == [i \in 1 .. 4 |-> IF i <= n THEN AsField(wire[i]) ELSE rest[i]]
<1>2. n <= Len(wire) /\ wire \in Seq(Item)
  BY <1>1 DEF RecvHeader, ReceiverInv, TypeOK
<1>3. reply \in [1 .. 4 -> Nat]
  <2>1. \A i \in 1 .. n : wire[i] \in Item
    BY <1>2
  <2>2. \A i \in 1 .. n : AsField(wire[i]) \in Nat
    BY <2>1, FieldType
  <2>3. \A i \in n + 1 .. 4 : rest[i] \in Nat
    BY GetDataAssumption
  <2> QED BY <2>2, <2>3
<1>4. wire' \in Seq(Item)
  BY <1>1, <1>2 DEF RecvHeader
<1>5. UNCHANGED <<netSocket, asked, sent, index, stream, event, fileVars>>
  BY <1>1 DEF RecvHeader, FileStep
<1>6. \/ /\ words' = reply[2] * reply[4] /\ got' = 0 /\ pc' = "body"
         /\ data' = IF words' > Len(data) THEN Resize(words') ELSE data
      \/ pc' = "request" /\ UNCHANGED <<words, got, data>>
  BY <1>1 DEF RecvHeader, RequiredSize
<1> HIDE DEF reply
<1>7. /\ words' \in Nat /\ got' \in Nat /\ data' \in Seq(Nat)
      /\ pc' \in {"body", "request"}
      /\ pc' = "body" => got' <= words' /\ words' <= Len(data')
  <2>1. CASE /\ words' = reply[2] * reply[4] /\ got' = 0 /\ pc' = "body"
             /\ data' = IF words' > Len(data) THEN Resize(words') ELSE data
    <3>1. words' \in Nat
      <4>1. reply[2] \in Nat /\ reply[4] \in Nat
        BY <1>3
      <4>2. \A a, b \in Nat : a * b \in Nat
        OBVIOUS
      <4> QED BY <2>1, <4>1, <4>2
    <3>2. data' \in Seq(Nat) /\ words' <= Len(data')
      <4>1. data \in Seq(Nat) /\ Len(data) \in Nat
        BY DEF ReceiverInv, TypeOK
      <4>2. CASE words' > Len(data)
        <5>1. data' = Resize(words')
          BY <2>1, <4>2
        <5>2. data' \in Seq(Nat) /\ Len(data') = words'
          BY <3>1, <4>1, <5>1, ResizeType
        <5> QED BY <3>1, <5>2
      <4>3. CASE ~ (words' > Len(data))
        BY <2>1, <3>1, <4>1, <4>3
      <4> QED BY <4>2, <4>3
    <3> QED BY <2>1, <3>1, <3>2
  <2>2. CASE pc' = "request" /\ UNCHANGED <<words, got, data>>
    BY <2>2 DEF ReceiverInv, TypeOK
  <2> QED BY <1>6, <2>1, <2>2
<1> QED BY <1>4, <1>5, <1>7 DEF fileVars, ReceiverInv, TypeOK, FilesTypeOK,
             OpenIsWritable, BufferFits, AtEvent

(* GetData: one recv of the body never stores behind the end of data.      *)
LEMMA GetBodyInv == ReceiverInv /\ GetBody /\ FileStep => ReceiverInv'
<1> SUFFICES ASSUME ReceiverInv, GetBody, FileStep PROVE ReceiverInv'
  OBVIOUS
<1>1. PICK n \in 1 .. Len(wire) : RecvBody(n)
  BY DEF GetBody
<1> DEFINE ws == [k \in 1 .. n |-> AsData(wire[k])]
<1>2. wire \in Seq(Item) /\ n \in Nat
  BY DEF ReceiverInv, TypeOK
<1>3. ws \in Seq(Nat)
  <2>1. \A k \in 1 .. n : wire[k] \in Item
    BY <1>2
  <2>2. ws \in [1 .. n -> Nat]
    BY <2>1, FieldType
  <2> QED BY <1>2, <2>2
<1>4. data' = StoreAt(got, ws)
  BY <1>1 DEF RecvBody
<1> HIDE DEF ws
<1>5. data' \in Seq(Nat) /\ Len(data') = Len(data)
  BY <1>3, <1>4, StoreAtType DEF ReceiverInv, TypeOK
<1>6. wire' \in Seq(Item)
  <2>1. wire' = SubSeq(wire, n + 1, Len(wire))
    BY <1>1 DEF RecvBody
  <2> QED BY <1>2, <2>1
<1>7. /\ pc = "body" /\ n <= words - got /\ got' = got + n
      /\ IF got' < words THEN UNCHANGED <<pc, index>>
                         ELSE pc' = "decode" /\ index' = 0
      /\ UNCHANGED <<netSocket, asked, sent, words, stream, event, fileVars>>
  BY <1>1, Zenon DEF RecvBody, FileStep
<1>8. /\ got' \in Nat /\ pc' \in {"body", "decode"} /\ index' \in Nat
      /\ got' <= words' /\ words' <= Len(data')
      /\ pc' = "decode" => got' = words'
  <2>1. words \in Nat /\ got \in Nat /\ index \in Nat /\ words <= Len(data)
    BY <1>7 DEF ReceiverInv, TypeOK, BufferFits
  <2> QED BY <1>2, <1>5, <1>7, <2>1
<1> QED BY <1>5, <1>6, <1>7, <1>8 DEF fileVars, ReceiverInv, TypeOK, FilesTypeOK,
             OpenIsWritable, BufferFits, AtEvent

(* The other steps that leave the files alone.                             *)
LEMMA QuietInv ==
  ReceiverInv /\ (Connect \/ Send \/ Resend \/ NoReply \/ EndRun \/ End \/ Finish
                 \/ TrigIncomplete \/ TrigEvent \/ UnknownDataType) => ReceiverInv'
<1> SUFFICES ASSUME ReceiverInv,
                    Connect \/ Send \/ Resend \/ NoReply \/ EndRun \/ End \/ Finish
                      \/ TrigIncomplete \/ TrigEvent \/ UnknownDataType
             PROVE  ReceiverInv'
  OBVIOUS
<1> USE DEF ReceiverInv, TypeOK, FilesTypeOK, OpenIsWritable, BufferFits, AtEvent,
            fileVars, netVars, getVars, dataVars, FileStep
<1>1. CASE Connect
  BY <1>1 DEF Connect, SetUpConnection
<1>2. CASE Send
  BY <1>2 DEF Send, SendRequest
<1>3. CASE Resend
  BY <1>3 DEF Resend, SendFails
<1>4. CASE NoReply
  BY <1>4 DEF NoReply, RecvNothing
<1>5. CASE EndRun
  BY <1>5 DEF EndRun
<1>6. CASE End
  BY <1>6 DEF End
<1>7. CASE Finish
  BY <1>7 DEF Finish
<1>8. CASE TrigIncomplete
  BY <1>8 DEF TrigIncomplete
<1>9. CASE UnknownDataType
  BY <1>9 DEF UnknownDataType, AtMark
<1>10. CASE TrigEvent
  <2>1. event' \in Event
    BY <1>10, ChannelsAssumption, DataBufferAssumption DEF TrigEvent, Event
  <2> QED BY <1>10, <2>1 DEF TrigEvent, AtMark
<1> QED BY <1>1, <1>2, <1>3, <1>4, <1>5, <1>6, <1>7, <1>8, <1>9, <1>10

(* WriteData at the marker of a digitizer packet, whatever the word behind *)
(* it, received or not.                                                    *)
LEMMA DigInv ==
  ASSUME ReceiverInv, NEW header \in WordAt(index + 1),
         DigSkip(header) \/ DigIncomplete(header) \/ DigEvent(header)
  PROVE  ReceiverInv'
<1> USE DEF ReceiverInv, TypeOK, FilesTypeOK, OpenIsWritable, BufferFits, AtEvent,
            fileVars, netVars, dataVars
<1>1. header \in Word
  BY WordAtType
<1>2. CASE DigSkip(header)
  <2>1. index + SkipWords \in Nat
    BY DataBufferAssumption
  <2>2. /\ pc = "decode" /\ index' = index + SkipWords
        /\ pc' \in {"stop", "decode"}
        /\ UNCHANGED <<dataVars, event, fileVars>>
    BY <1>2, Zenon DEF DigSkip, AtMark
  <2> QED BY <2>1, <2>2
<1>3. CASE DigIncomplete(header)
  BY <1>3 DEF DigIncomplete
<1>4. CASE DigEvent(header)
  <2>1. event' \in Event
    BY <1>1, <1>4 DEF DigEvent, Word, Event
  <2>2. pc' = "open" /\ index < words /\ pc = "decode"
    BY <1>4 DEF DigEvent, AtMark
  <2>3. UNCHANGED <<dataVars, index, fileVars>>
    BY <1>4 DEF DigEvent
  <2> QED BY <2>1, <2>2, <2>3
<1> QED BY <1>2, <1>3, <1>4

(* The steps that write files.                                             *)
LEMMA OpenEventFileInv ==
  ASSUME ReceiverInv, NEW ok \in BOOLEAN, OpenEventFile(ok)
  PROVE  ReceiverInv'
<1>1. FilesInv /\ event.file \in FileID
  BY DEF ReceiverInv, TypeOK, FilesInv, Event
<1>2. /\ pc = "open" /\ OpenFile(event.file, ok)
      /\ pc' = IF ~ ok THEN "request"
               ELSE IF event.kind = "trig" THEN "write" ELSE "geb"
      /\ UNCHANGED <<dataVars, index, event>>
  BY DEF OpenEventFile
<1>3. FilesInv' /\ (ok => file'[event.file])
  BY <1>1, <1>2, OpenFileInv
<1> QED BY <1>2, <1>3 DEF FilesInv, ReceiverInv, TypeOK, BufferFits, AtEvent,
             dataVars, netVars

(* WriteData hands the GEB header and the event to Write.                  *)
LEMMA WriteStepInv ==
  ASSUME ReceiverInv, WriteGEB \/ WriteBody \/ WriteTrig
  PROVE  ReceiverInv'
<1>1. /\ FilesInv /\ event.file \in FileID /\ event.len \in Nat
      /\ data \in Seq(Nat) /\ index \in Nat
  BY DEF ReceiverInv, TypeOK, FilesInv, Event
<1>2. CASE WriteGEB
  <2>1. /\ pc = "geb" /\ Write(event.file, "geb", <<data[index + 1]>>, GebWords)
        /\ pc' = "write" /\ UNCHANGED <<dataVars, index, event>>
    BY <1>2 DEF WriteGEB
  <2>2. <<data[index + 1]>> \in Seq(Nat)
    <3>1. index + 1 \in DOMAIN data
      BY <2>1, <1>1 DEF ReceiverInv, TypeOK, BufferFits, AtEvent
    <3> QED BY <1>1, <3>1
  <2>3. "geb" \in ChunkKind /\ GebWords \in Nat
    BY DataBufferAssumption DEF ChunkKind
  <2>4. FilesInv' /\ file' = file
    BY <1>1, <2>1, <2>2, <2>3, WriteInv
  <2> QED BY <2>1, <2>4 DEF FilesInv, ReceiverInv, TypeOK, BufferFits, AtEvent,
               dataVars, netVars
<1>3. CASE WriteBody
  <2>1. /\ pc = "write"
        /\ Write(event.file, "body", CopyOfData(index + 1, event.len), event.len)
        /\ index' = index + event.len + 1
        /\ pc' = "decode" /\ UNCHANGED <<dataVars, event>>
    BY <1>3 DEF WriteBody
  <2>2. CopyOfData(index + 1, event.len) \in Seq(Nat)
    <3>1. index + 1 \in Nat
      BY <1>1
    <3> QED BY <1>1, <3>1, CopyOfDataType
  <2>3. FilesInv'
    BY <1>1, <2>1, <2>2, WriteInv DEF ChunkKind
  <2>4. index' \in Nat
    BY <1>1, <2>1
  <2> QED BY <2>1, <2>3, <2>4 DEF FilesInv, ReceiverInv, TypeOK, BufferFits, AtEvent,
               dataVars, netVars
<1>4. CASE WriteTrig
  <2>1. /\ pc = "write"
        /\ Write(TrigFile, "trig", CopyOfData(index, TrigDataSize), TrigPacketLength)
        /\ index' = index + TrigDataSize
        /\ pc' = "decode" /\ UNCHANGED <<dataVars, event>>
    BY <1>4 DEF WriteTrig
  <2>2. /\ TrigDataSize \in Nat /\ TrigPacketLength \in Nat /\ TrigFile \in FileID
        /\ "trig" \in ChunkKind
    BY ChannelsAssumption, DataBufferAssumption DEF ChunkKind
  <2>3. CopyOfData(index, TrigDataSize) \in Seq(Nat)
    BY <1>1, <2>2, CopyOfDataType
  <2>4. FilesInv'
    BY <1>1, <2>1, <2>2, <2>3, WriteInv
  <2>5. index' \in Nat
    BY <1>1, <2>1, <2>2
  <2> QED BY <2>1, <2>4, <2>5 DEF FilesInv, ReceiverInv, TypeOK, BufferFits, AtEvent,
               dataVars, netVars
<1> QED BY <1>2, <1>3, <1>4

(* main deletes the objects.                                               *)
LEMMA CloseOneInv == ReceiverInv /\ CloseOne => ReceiverInv'
<1> SUFFICES ASSUME ReceiverInv, CloseOne PROVE ReceiverInv'
  OBVIOUS
<1>1. PICK id \in FileID : CloseFile(id)
  BY DEF CloseOne
<1>2. FilesInv'
  BY <1>1, CloseFileInv DEF FilesInv, ReceiverInv, TypeOK
<1>3. pc = "closing" /\ UNCHANGED <<getVars, event>>
  BY DEF CloseOne
<1> QED BY <1>2, <1>3 DEF FilesInv, ReceiverInv, TypeOK, BufferFits, AtEvent, getVars

(* The end of a process, and the next one.                                 *)
LEMMA DieInv == ReceiverInv /\ Die => ReceiverInv'
<1> SUFFICES ASSUME ReceiverInv, Die PROVE ReceiverInv'
  OBVIOUS
<1>1. starts' \in 1 .. MaxStarts
  BY DEF Die, ReceiverInv, TypeOK, FilesTypeOK
<1>2. FilesInv'
  BY <1>1, NewObjectsInv DEF Die, FilesInv, ReceiverInv, TypeOK
<1>3. data' \in Seq(Nat)
  <2>1. data' \in [1 .. DataSize -> Nat]
    BY DEF Die
  <2> QED BY <2>1, DataBufferAssumption
<1>4. event' \in Event
  BY ChannelsAssumption DEF Die, NoEvent, Event
<1>5. wire' \in Seq(Item)
  BY DEF Die
<1> QED BY <1>2, <1>3, <1>4, <1>5
        DEF Die, FilesInv, ReceiverInv, TypeOK, BufferFits, AtEvent

(* start_run.sh starts the receiver again for the same run.                *)
LEMMA RestartInv == ReceiverInv /\ Restart => ReceiverInv'
BY OutFileAssumption DEF Restart, ReceiverInv, TypeOK, FilesTypeOK, OpenIsWritable,
   BufferFits, AtEvent, netVars

(* The invariant is kept by every step: of main, of the server, and of     *)
(* what kills and starts the process.                                      *)
LEMMA NextInv == ReceiverInv /\ [Next]_vars => ReceiverInv'
<1> SUFFICES ASSUME ReceiverInv, [Next]_vars PROVE ReceiverInv'
  OBVIOUS
<1>1. CASE Decode
  <2>1. ASSUME NEW header \in WordAt(index + 1),
               DigSkip(header) \/ DigIncomplete(header) \/ DigEvent(header)
        PROVE  ReceiverInv'
    BY <2>1, DigInv
  <2>2. ASSUME NEW ok \in BOOLEAN, OpenEventFile(ok) PROVE ReceiverInv'
    BY <2>2, OpenEventFileInv
  <2> QED BY <1>1, <2>1, <2>2, QuietInv, WriteStepInv DEF Decode
<1>2. CASE Main /\ ~ Decode
  BY <1>2, QuietInv, GetHeaderInv, GetBodyInv, CloseOneInv, DieInv
     DEF Main, ReplyHeader, ReplyBody, BrokenPipe
<1>3. CASE Server
  BY <1>3, ServerInv
<1>4. CASE Kill
  BY <1>4, DieInv DEF Kill
<1>5. CASE Restart
  BY <1>5, RestartInv
<1>6. CASE Terminated \/ UNCHANGED vars
  BY <1>6 DEF Terminated, vars, getVars, fileVars, ReceiverInv, TypeOK, FilesTypeOK,
     OpenIsWritable, BufferFits, AtEvent
<1> QED BY <1>1, <1>2, <1>3, <1>4, <1>5, <1>6 DEF Next

-----------------------------------------------------------------------------
(* The receiver is a program made of the operations of OutFile.            *)

(* WriteData calls Write with words it has.                                *)
LEMMA WriteStepCalls ==
  ASSUME ReceiverInv, WriteGEB \/ WriteBody \/ WriteTrig
  PROVE  \E id \in FileID : \E kind \in ChunkKind : \E ws \in Seq(Nat) : \E size \in Nat :
           Write(id, kind, ws, size)
<1>1. /\ event.file \in FileID /\ event.len \in Nat
      /\ data \in Seq(Nat) /\ index \in Nat
  BY DEF ReceiverInv, TypeOK, Event
<1>2. CASE WriteGEB
  <2>1. pc = "geb" /\ Write(event.file, "geb", <<data[index + 1]>>, GebWords)
    BY <1>2 DEF WriteGEB
  <2>2. <<data[index + 1]>> \in Seq(Nat)
    <3>1. index + 1 \in DOMAIN data
      BY <2>1, <1>1 DEF ReceiverInv, TypeOK, BufferFits, AtEvent
    <3> QED BY <1>1, <3>1
  <2>3. "geb" \in ChunkKind /\ GebWords \in Nat
    BY DataBufferAssumption DEF ChunkKind
  <2> QED BY <1>1, <2>1, <2>2, <2>3
<1>3. CASE WriteBody
  <2>1. Write(event.file, "body", CopyOfData(index + 1, event.len), event.len)
    BY <1>3 DEF WriteBody
  <2>2. CopyOfData(index + 1, event.len) \in Seq(Nat)
    <3>1. index + 1 \in Nat
      BY <1>1
    <3> QED BY <1>1, <3>1, CopyOfDataType
  <2>3. "body" \in ChunkKind
    BY DEF ChunkKind
  <2> QED BY <1>1, <2>1, <2>2, <2>3
<1>4. CASE WriteTrig
  <2>1. Write(TrigFile, "trig", CopyOfData(index, TrigDataSize), TrigPacketLength)
    BY <1>4 DEF WriteTrig
  <2>2. /\ TrigDataSize \in Nat /\ TrigPacketLength \in Nat /\ TrigFile \in FileID
        /\ "trig" \in ChunkKind
    BY ChannelsAssumption, DataBufferAssumption DEF ChunkKind
  <2>3. CopyOfData(index, TrigDataSize) \in Seq(Nat)
    BY <1>1, <2>2, CopyOfDataType
  <2> QED BY <2>1, <2>2, <2>3
<1> QED BY <1>2, <1>3, <1>4

(* A step of the receiver is its death, or one call of OutFile at the most.*)
LEMMA NextCalls ==
  ASSUME ReceiverInv, [Next]_vars
  PROVE  Die \/ (FileCall /\ (pc' = "dead" => pc = "dead")
                          /\ (starts' = starts \/ starts' = starts + 1)
                          /\ (pc = "dead" => (pc' = "dead" \/ starts' = starts + 1))
                          /\ (pc' = "ended" => \/ pc = "ended" /\ file' = file
                                               \/ \A id \in FileID : ~ file'[id]))
<1> DEFINE Goal == /\ FileCall /\ pc # "dead" /\ pc' \notin {"dead", "ended"}
                   /\ starts' = starts
           Still == UNCHANGED <<file, count, fileSize, disk>>
<1>1. event.file \in FileID
  BY DEF ReceiverInv, TypeOK, Event
<1>2. Still => FileCall
  BY DEF FileCall
<1>3. CASE Decode
  <2>1. ASSUME NEW header, DigSkip(header) \/ DigIncomplete(header) \/ DigEvent(header)
        PROVE  Goal
    BY <1>2, <2>1 DEF DigSkip, DigIncomplete, DigEvent, AtMark, fileVars
  <2>2. Finish \/ TrigIncomplete \/ TrigEvent \/ UnknownDataType => Goal
    BY <1>2 DEF Finish, TrigIncomplete, TrigEvent, UnknownDataType, AtMark, fileVars
  <2>3. ASSUME NEW ok \in BOOLEAN, OpenEventFile(ok) PROVE Goal
    <3>1. OpenFile(event.file, ok) => starts' = starts
      BY DEF OpenFile, OpenFirst, KeepOpen, RollOver, fileVars
    <3> QED BY <1>1, <2>3, <3>1 DEF OpenEventFile, FileCall
  <2>4. ASSUME WriteGEB \/ WriteBody \/ WriteTrig PROVE Goal
    <3>1. /\ pc \in {"geb", "write"} /\ pc' \in {"write", "decode"}
          /\ starts' = starts
      BY <2>4 DEF WriteGEB, WriteBody, WriteTrig, Write
    <3> QED BY <2>4, <3>1, WriteStepCalls DEF FileCall
  <2> QED BY <1>3, <2>1, <2>2, <2>3, <2>4 DEF Decode
<1>4. CASE CloseOne
  <2>1. FileCall /\ starts' = starts
    BY <1>4 DEF CloseOne, CloseFile, FileCall
  <2> QED BY <1>4, <2>1 DEF CloseOne, getVars
<1>5. CASE BrokenPipe \/ Kill
  BY <1>5 DEF BrokenPipe, Kill
<1>6. CASE End
  BY <1>2, <1>6 DEF End, fileVars
<1>7. CASE Main /\ ~ Decode /\ ~ CloseOne /\ ~ End /\ ~ BrokenPipe
  <2>1. CASE Connect
    BY <1>2, <2>1 DEF Connect, SetUpConnection, FileStep, fileVars
  <2>2. CASE Send
    BY <1>2, <2>2 DEF Send, SendRequest, FileStep, fileVars
  <2>3. CASE Resend
    BY <1>2, <2>3 DEF Resend, SendFails, FileStep, fileVars, getVars
  <2>4. CASE ReplyHeader
    <3>1. FileStep /\ pc = "reply" /\ pc' \in {"body", "request"}
      BY <2>4, Zenon DEF ReplyHeader, GetHeader, RecvHeader
    <3> QED BY <1>2, <3>1 DEF FileStep, fileVars
  <2>5. CASE ReplyBody
    <3>1. FileStep /\ pc = "body" /\ pc' \in {"body", "decode"}
      BY <2>5, Zenon DEF ReplyBody, GetBody, RecvBody
    <3> QED BY <1>2, <3>1 DEF FileStep, fileVars
  <2>6. CASE NoReply
    BY <1>2, <2>6 DEF NoReply, RecvNothing, FileStep, fileVars
  <2>7. CASE EndRun
    BY <1>2, <2>7 DEF EndRun, fileVars
  <2> QED BY <1>7, <2>1, <2>2, <2>3, <2>4, <2>5, <2>6, <2>7 DEF Main
<1>8. CASE Server
  <2>1. FileStep /\ pc' = pc
    BY <1>8 DEF Server, Summary, NoData, Close, ServerSummary, ServerNoData,
                ServerReply, ServerCloses
  <2> QED BY <1>2, <2>1 DEF FileStep, fileVars
<1>9. CASE Restart
  BY <1>2, <1>9 DEF Restart
<1>10. CASE Terminated \/ UNCHANGED vars
  BY <1>2, <1>10 DEF Terminated, vars, getVars, fileVars
<1> QED BY <1>3, <1>4, <1>5, <1>6, <1>7, <1>8, <1>9, <1>10 DEF Next, Main

(* What OutFileProofs needs to know.                                       *)
LEMMA NextFileStep ==
  ASSUME ReceiverInv, [Next]_vars PROVE FilesInv /\ FileStepOrDeath
BY NextCalls DEF FileStepOrDeath, Die, ReceiverInv, TypeOK, FilesInv

-----------------------------------------------------------------------------

(* The receiver keeps its types.                                           *)
THEOREM ReceiverTypeCorrect == Spec => []TypeOK
<1>1. ReceiverInv => TypeOK
  BY DEF ReceiverInv
<1> QED BY <1>1, InitInv, NextInv, PTL DEF Spec

(* recv never stores behind the end of data, and WriteData is given only   *)
(* words that were received, for every reply header and every way the      *)
(* words may come in (GetData: data.resize, and the loop around recv).     *)
THEOREM ReceiverBufferFits == Spec => []BufferFits
<1>1. ReceiverInv => BufferFits
  BY DEF ReceiverInv
<1> QED BY <1>1, InitInv, NextInv, PTL DEF Spec

(* No event is written to a file that is not open or is read-only: the     *)
(* result of Write, which WriteData ignores, is never false for want of a  *)
(* file.                                                                   *)
THEOREM ReceiverOpenForWrite == Spec => []OpenForWrite
<1>1. ReceiverInv => OpenForWrite
  BY DEF ReceiverInv, OpenIsWritable, AtEvent, OpenForWrite, TypeOK, Event
<1> QED BY <1>1, InitInv, NextInv, PTL DEF Spec

(* Whatever the server sends, wherever the process is killed and started   *)
(* again for the same run, and whatever fopen, fwrite and chmod do: what   *)
(* the receiver has put on disk stays there, and a file only grows at its  *)
(* end (the files are opened with "ab", and sealed when they are closed).  *)
THEOREM ReceiverDiskOnlyGrows == Spec => DiskOnlyGrows
<1>1. ReceiverInv /\ [Next]_vars => [DiskGrows]_fileVars
  BY NextFileStep, CallGrows
<1>2. Spec => [][DiskGrows]_fileVars
  BY <1>1, InitInv, NextInv, PTL DEF Spec
<1> QED BY <1>2 DEF DiskOnlyGrows, DiskGrows

(* The receiver splits only files that are full, over all kills and        *)
(* restarts.                                                               *)
THEOREM ReceiverSplitOnlyWhenFull == Spec => []SplitOnlyWhenFull
<1>1. Init => SplitInv
  BY FilesInitSplit DEF Init
<1>2. ReceiverInv /\ SplitInv /\ [Next]_vars => SplitInv'
  BY NextFileStep, CallSplit
<1>3. ReceiverInv /\ SplitInv => SplitOnlyWhenFull
  BY DEF SplitInv, Full, SplitOnlyWhenFull
<1> QED BY <1>1, <1>2, <1>3, InitInv, NextInv, PTL DEF Spec

(* Where chmod works, the receiver changes the newest file of a channel    *)
(* only, in whatever process.                                              *)
THEOREM ReceiverOnlyNewestChanges == Spec => OnlyNewestChanges
<1>1. Init => SplitInv
  BY FilesInitSplit DEF Init
<1>2. ReceiverInv /\ SplitInv /\ [Next]_vars => SplitInv'
  BY NextFileStep, CallSplit
<1>3. ReceiverInv /\ SplitInv /\ [Next]_vars => [~ ChmodMayFail => NewestOnly]_fileVars
  BY NextFileStep, CallNewest
<1>4. Spec => [][~ ChmodMayFail => NewestOnly]_fileVars
  BY <1>1, <1>2, <1>3, InitInv, NextInv, PTL DEF Spec
<1> QED BY <1>4 DEF OnlyNewestChanges, NewestOnly, OlderSame

(* A receiver that ended by itself, in the first process of the run, left  *)
(* no file that can still be changed, unless chmod failed: not even after  *)
(* an fopen that failed in the middle of the run.                          *)
EndInv ==
  /\ starts = 1 /\ pc # "dead" => SealedInv
  /\ pc = "ended" => \A id \in FileID : ~ file[id]

(* It is kept where chmod works.                                           *)
LEMMA NextEnd ==
  ASSUME ReceiverInv, EndInv, ~ ChmodMayFail, [Next]_vars PROVE EndInv'
<1>1. FilesInv /\ starts \in Nat \ {0}
  BY OutFileAssumption DEF ReceiverInv, TypeOK, FilesInv, FilesTypeOK
<1>2. CASE Die
  BY <1>2 DEF Die, EndInv
<1>3. CASE ~ Die
  <2>1. ASSUME starts' = 1, pc' # "dead" PROVE SealedInv'
    <3>1. starts = 1 /\ pc # "dead" /\ FileCall
      BY <1>1, <1>3, <2>1, NextCalls
    <3> QED BY <1>1, <3>1, CallSealed DEF EndInv
  <2>2. ASSUME pc' = "ended" PROVE \A id \in FileID : ~ file'[id]
    BY <1>3, <2>2, NextCalls DEF EndInv
  <2> QED BY <2>1, <2>2 DEF EndInv
<1> QED BY <1>2, <1>3

(* The end of the run by type D seals every file.                          *)
THEOREM ReceiverEndsSealed == ~ ChmodMayFail => (Spec => []EndsSealed)
<1> SUFFICES ASSUME ~ ChmodMayFail PROVE Spec => []EndsSealed
  OBVIOUS
<1>1. Init => EndInv
  BY FilesInitSplit DEF Init, GetInit, EndInv
<1>2. ReceiverInv /\ EndInv /\ [Next]_vars => EndInv'
  BY NextEnd
<1>3. ReceiverInv /\ EndInv => EndsSealed
  BY DEF EndInv, SealedInv, OpenOnly, EndsSealed
<1> QED BY <1>1, <1>2, <1>3, InitInv, NextInv, PTL DEF Spec

-----------------------------------------------------------------------------
(* In step with the server.                                                *)

(* The whole of a reply: a header that announces the words behind it.      *)
Reply(w, n) ==
  /\ Len(w) = 4 + n /\ AsField(w[2]) = 1 /\ AsField(w[4]) = n
  /\ AsField(w[1]) # SERVER_SUMMARY => n = 0

(* Requests and replies alternate, as long as the connection is up.        *)
StepInv ==
  /\ pc \in {"connect", "dead"} => wire = <<>> /\ asked = 0
  /\ netSocket = "up" =>
       /\ pc = "reply" => \/ asked = 1 /\ wire = <<>>
                          \/ asked = 0 /\ \E n \in Nat : Reply(wire, n)
       /\ pc = "body" => asked = 0 /\ Len(wire) = words - got
       /\ pc \notin {"reply", "body"} => asked = 0 /\ wire = <<>>

(* The server's answer is a reply.                                         *)
LEMMA ServerReplies ==
  ASSUME ReceiverInv, StepInv, NEW type \in Nat, NEW n \in Nat,
         type # SERVER_SUMMARY => n = 0, ServerReply(type, n)
  PROVE  StepInv'
<1> DEFINE ws == [k \in 1 .. n |-> [kind |-> "word", val |-> sent + k]]
           w == Header(type, n) \o ws
<1>1. ws \in Seq(Item) /\ Len(ws) = n
  <2>1. ws \in [1 .. n -> Item]
    BY DEF ReceiverInv, TypeOK, Item
  <2> QED BY <2>1
<1>2. /\ netSocket = "up" /\ asked > 0 /\ asked' = asked - 1
      /\ wire' = wire \o Header(type, n) \o ws
      /\ UNCHANGED <<pc, netSocket, words, got>>
  BY Zenon DEF ServerReply
<1> HIDE DEF ws
<1>3. pc = "reply" /\ asked = 1 /\ wire = <<>>
  BY <1>2 DEF StepInv
<1>4. Header(type, n) \in Seq(Item) /\ Len(Header(type, n)) = 4
  <2>1. Len(Header(type, n)) = 4
    BY DEF Header
  <2> QED BY <2>1, HeaderType
<1>5. wire' = w
  <2>1. wire \o Header(type, n) = Header(type, n)
    BY <1>3, <1>4
  <2> QED BY <1>2, <2>1
<1>6. Len(w) = 4 + n /\ \A i \in 1 .. 4 : w[i] = Header(type, n)[i]
  <2> DEFINE h == Header(type, n)
  <2>1. h \in Seq(Item) /\ Len(h) = 4
    BY <1>4
  <2> HIDE DEF h
  <2>2. /\ Len(h \o ws) = Len(h) + Len(ws)
        /\ \A i \in 1 .. Len(h) + Len(ws) :
             (h \o ws)[i] = IF i <= Len(h) THEN h[i] ELSE ws[i - Len(h)]
    BY <1>1, <2>1, ConcatProperties, Zenon
  <2>3. Len(h \o ws) = 4 + n /\ \A i \in 1 .. 4 : (h \o ws)[i] = h[i]
    BY <1>1, <2>1, <2>2
  <2> QED BY <2>3 DEF h
<1>7. /\ AsField(Header(type, n)[1]) = type /\ AsField(Header(type, n)[2]) = 1
      /\ AsField(Header(type, n)[4]) = n
  BY DEF Header, AsField, Field
<1> HIDE DEF w
<1>8. /\ Len(wire') = 4 + n /\ AsField(wire'[2]) = 1 /\ AsField(wire'[4]) = n
      /\ AsField(wire'[1]) # SERVER_SUMMARY => n = 0
  BY <1>5, <1>6, <1>7
<1>9. pc' = "reply" /\ asked' = 0
  BY <1>2, <1>3
<1> QED BY <1>8, <1>9 DEF StepInv, Reply

(* GetData takes the header off, and waits for what it announces.          *)
LEMMA HeaderInStep ==
  ASSUME ReceiverInv, StepInv, ~ ShortHeader, GetHeader PROVE StepInv'
<1>1. PICK n \in 1 .. 4 : \E rest \in [n + 1 .. 4 -> Garbage] : RecvHeader(n, rest)
  BY DEF GetHeader
<1>2. PICK rest \in [n + 1 .. 4 -> Garbage] : RecvHeader(n, rest)
  BY <1>1
<1>3. n = 4
  BY <1>2 DEF RecvHeader
<1> DEFINE reply == [i \in 1 .. 4 |-> IF i <= n THEN AsField(wire[i]) ELSE rest[i]]
<1>4. /\ pc = "reply" /\ 4 <= Len(wire)
      /\ wire' = SubSeq(wire, 5, Len(wire))
      /\ UNCHANGED <<netSocket, asked>>
      /\ IF reply[1] = SERVER_SUMMARY
         THEN words' = RequiredSize(reply) /\ got' = 0 /\ pc' = "body"
         ELSE pc' = "request"
  <2>1. n + 1 = 5
    BY <1>3
  <2> QED BY <1>2, <1>3, <2>1 DEF RecvHeader
<1>5. /\ reply[1] = AsField(wire[1]) /\ reply[2] = AsField(wire[2])
      /\ reply[4] = AsField(wire[4])
  BY <1>3
<1> HIDE DEF reply
<1>6. CASE netSocket = "up"
  <2>1. PICK k \in Nat : Reply(wire, k) /\ asked = 0
    BY <1>4, <1>6 DEF StepInv
  <2>2. wire \in Seq(Item) /\ Len(wire) = 4 + k
    BY <2>1 DEF ReceiverInv, TypeOK, Reply
  <2>3. wire' \in Seq(Item) /\ Len(wire') = k
    BY <1>4, <2>2
  <2>4. CASE reply[1] = SERVER_SUMMARY
    <3>1. words' = k /\ got' = 0 /\ pc' = "body"
      BY <1>4, <1>5, <2>1, <2>4 DEF RequiredSize, Reply
    <3> QED BY <1>4, <2>1, <2>3, <3>1 DEF StepInv
  <2>5. CASE reply[1] # SERVER_SUMMARY
    <3>1. pc' = "request" /\ k = 0
      BY <1>4, <1>5, <2>1, <2>5 DEF Reply
    <3>2. wire' = <<>>
      BY <2>3, <3>1
    <3> QED BY <1>4, <2>1, <3>1, <3>2 DEF StepInv
  <2> QED BY <2>4, <2>5
<1>7. CASE netSocket # "up"
  BY <1>4, <1>7 DEF StepInv
<1> QED BY <1>6, <1>7

(* Each recv of the body brings nearer what is still on its way.           *)
LEMMA BodyInStep ==
  ASSUME ReceiverInv, StepInv, GetBody PROVE StepInv'
<1>1. PICK n \in 1 .. Len(wire) : RecvBody(n)
  BY DEF GetBody
<1>2. /\ pc = "body" /\ n <= words - got
      /\ wire' = SubSeq(wire, n + 1, Len(wire)) /\ got' = got + n
      /\ IF got' < words THEN pc' = pc ELSE pc' = "decode"
      /\ UNCHANGED <<netSocket, asked, words>>
  BY <1>1, Zenon DEF RecvBody
<1>3. wire \in Seq(Item) /\ words \in Nat /\ got \in Nat /\ n \in Nat
  BY DEF ReceiverInv, TypeOK
<1>4. wire' \in Seq(Item) /\ Len(wire') = Len(wire) - n
  BY <1>2, <1>3
<1>5. CASE netSocket = "up"
  <2>1. asked = 0 /\ Len(wire) = words - got
    BY <1>2, <1>5 DEF StepInv
  <2>2. Len(wire') = words' - got'
    BY <1>2, <1>3, <1>4, <2>1
  <2>3. got' >= words => wire' = <<>>
    BY <1>2, <1>3, <1>4, <2>2
  <2> QED BY <1>2, <1>3, <2>1, <2>2, <2>3 DEF StepInv
<1>6. CASE netSocket # "up"
  BY <1>2, <1>6 DEF StepInv
<1> QED BY <1>5, <1>6

(* Nothing but the header is lost or invented: the receiver never waits    *)
(* for words that do not come, nor takes words for a header.               *)
LEMMA NextInStep ==
  ASSUME ReceiverInv, StepInv, ~ ShortHeader, [Next]_vars PROVE StepInv'
<1> USE DEF StepInv
<1>1. CASE Decode
  <2>1. /\ pc \in {"decode", "open", "geb", "write"} /\ UNCHANGED <<netSocket, asked, wire>>
        /\ pc' \in {"decode", "open", "geb", "write", "stop", "request"}
    <3>1. ASSUME NEW header, DigSkip(header) \/ DigIncomplete(header) \/ DigEvent(header)
          PROVE  /\ pc = "decode" /\ UNCHANGED <<netSocket, asked, wire>>
                 /\ pc' \in {"decode", "open", "stop", "request"}
      BY <3>1 DEF DigSkip, DigIncomplete, DigEvent, AtMark, dataVars, netVars
    <3> QED BY <1>1, <3>1 DEF Decode, Finish, TrigIncomplete, TrigEvent, UnknownDataType,
              OpenEventFile, WriteGEB, WriteBody, WriteTrig, AtMark, dataVars, netVars
  <2> QED BY <2>1
<1>2. CASE Server
  <2>1. CASE Summary
    <3>1. PICK n \in 1 .. MaxReply : ServerReply(SERVER_SUMMARY, n)
      BY <2>1 DEF Summary, ServerSummary
    <3>2. n \in Nat /\ SERVER_SUMMARY \in Nat
      BY GetDataAssumption DEF SERVER_SUMMARY
    <3> QED BY <3>1, <3>2, ServerReplies
  <2>2. CASE NoData
    <3>1. PICK type \in {SERVER_SUMMARY, INSUFF_DATA, NO_DATA} : ServerReply(type, 0)
      BY <2>2 DEF NoData, ServerNoData
    <3>2. type \in Nat
      BY DEF SERVER_SUMMARY, INSUFF_DATA, NO_DATA
    <3> QED BY <3>1, <3>2, ServerReplies
  <2>3. CASE Close
    <3>1. /\ netSocket = "up" /\ netSocket' = "fin" /\ UNCHANGED <<pc, asked>>
          /\ \E n \in 0 .. Len(wire) : wire' = SubSeq(wire, 1, n)
      BY <2>3 DEF Close, ServerCloses
    <3>2. wire = <<>> => wire' = <<>>
      BY <3>1
    <3> QED BY <3>1, <3>2
  <2> QED BY <1>2, <2>1, <2>2, <2>3 DEF Server
<1>3. CASE ReplyHeader
  BY <1>3, HeaderInStep DEF ReplyHeader
<1>4. CASE ReplyBody
  BY <1>4, BodyInStep DEF ReplyBody
<1>5. CASE NoReply
  <2>1. /\ pc \in {"reply", "body"} /\ pc' = "request"
        /\ UNCHANGED <<netSocket, asked, wire>>
        /\ netSocket = "up" => pc = "body" /\ words = 0
    BY <1>5 DEF NoReply, RecvNothing, netVars
  <2>2. netSocket = "up" => wire = <<>>
    BY <2>1 DEF ReceiverInv, TypeOK
  <2> QED BY <2>1, <2>2
<1>6. CASE Connect \/ Send \/ Resend
  BY <1>6 DEF Connect, Send, Resend, SetUpConnection, SendRequest, SendFails, getVars
<1>7. CASE EndRun \/ CloseOne \/ End
  BY <1>7 DEF EndRun, CloseOne, End, getVars, netVars
<1>8. CASE Kill \/ BrokenPipe
  BY <1>8 DEF Kill, BrokenPipe, Die
<1>9. CASE Restart \/ Terminated \/ UNCHANGED vars
  BY <1>9 DEF Restart, Terminated, vars, getVars, netVars
<1> QED BY <1>1, <1>2, <1>3, <1>4, <1>5, <1>6, <1>7, <1>8, <1>9 DEF Next, Main

(* With headers that come whole, the receiver waits for exactly what the   *)
(* server has on its way, however bodies are cut, connections closed and   *)
(* processes killed (GetData).                                             *)
THEOREM ReceiverInStep == ~ ShortHeader => (Spec => []InStep)
<1> SUFFICES ASSUME ~ ShortHeader PROVE Spec => []InStep
  OBVIOUS
<1>1. Init => StepInv
  BY DEF Init, GetInit, StepInv
<1>2. ReceiverInv /\ StepInv /\ [Next]_vars => StepInv'
  BY NextInStep
<1>3. StepInv => InStep
  BY DEF StepInv, InStep
<1> QED BY <1>1, <1>2, <1>3, InitInv, NextInv, PTL DEF Spec

-----------------------------------------------------------------------------

(***************************************************************************)
(* Proofs about what the receiver's files are worth.                       *)
(***************************************************************************)

-----------------------------------------------------------------------------
(* Induction over the natural numbers, from the well-foundedness of <.     *)
Less == OpToRel(<, Nat)

(* There is no infinite descent.                                           *)
LEMMA LessWellFounded == IsWellFoundedOn(Less, Nat)
BY NatLessThanWellFounded DEF Less

(* Less is the order of the natural numbers.                               *)
LEMMA InLess == ASSUME NEW x \in Nat, NEW y \in Nat PROVE <<y, x>> \in Less <=> y < x
BY DEF Less, OpToRel

(* Numbers have a least one.                                               *)
LEMMA LeastOf ==
  ASSUME NEW T, T \subseteq Nat, T # {}
  PROVE  \E x \in T : \A y \in T : x <= y
<1>1. PICK x \in T : \A y \in T : ~ (<<y, x>> \in Less)
  BY LessWellFounded, WFMin
<1>2. ASSUME NEW y \in T PROVE x <= y
  <2>1. x \in Nat /\ y \in Nat
    OBVIOUS
  <2>2. ~ (<<y, x>> \in Less)
    BY <1>1
  <2>3. ~ (y < x)
    BY <2>1, <2>2, InLess
  <2> QED BY <2>1, <2>3
<1> QED BY <1>2

(* A set with 0 and, with every number, the next one, has them all.        *)
LEMMA Induction ==
  ASSUME NEW T, T \subseteq Nat, 0 \in T, \A n \in T : n + 1 \in T
  PROVE  T = Nat
<1> SUFFICES ASSUME T # Nat PROVE FALSE
  OBVIOUS
<1>1. Nat \ T # {}
  OBVIOUS
<1>2. PICK x \in Nat \ T : \A y \in Nat \ T : x <= y
  BY <1>1, LeastOf
<1>3. x - 1 \in Nat
  BY <1>2
<1>4. x - 1 \in T
  BY <1>2, <1>3
<1> QED BY <1>2, <1>4

-----------------------------------------------------------------------------
(* FlattenSeq.  f[i] is the concatenation of the first i of s.             *)
Flat(f, s) == \A i \in DOMAIN s : f[i] = IF i = 1 THEN s[i] ELSE f[i - 1] \o s[i]

(* There is such an f ...                                                  *)
LEMMA FlatExists ==
  ASSUME NEW S, NEW s \in Seq(Seq(S))
  PROVE  \E f \in [DOMAIN s -> Seq(S)] : Flat(f, s)
<1> DEFINE First(n, f) == \A i \in 1 .. n : f[i] = IF i = 1 THEN s[i] ELSE f[i - 1] \o s[i]
           P(n) == n <= Len(s) => \E f \in [1 .. n -> Seq(S)] : First(n, f)
           T == { n \in Nat : P(n) }
<1>1. P(0)
  <2> DEFINE f == [i \in 1 .. 0 |-> s[i]]
  <2>1. f \in [1 .. 0 -> Seq(S)]
    OBVIOUS
  <2>2. First(0, f)
    OBVIOUS
  <2> QED BY <2>1, <2>2
<1>2. ASSUME NEW n \in Nat, P(n) PROVE P(n + 1)
  <2> SUFFICES ASSUME n + 1 <= Len(s)
               PROVE  \E f \in [1 .. n + 1 -> Seq(S)] : First(n + 1, f)
    OBVIOUS
  <2>1. PICK f \in [1 .. n -> Seq(S)] : First(n, f)
    <3>1. n <= Len(s)
      OBVIOUS
    <3> QED BY <1>2, <3>1
  <2> DEFINE e == IF n = 0 THEN s[1] ELSE f[n] \o s[n + 1]
             g == [i \in 1 .. n + 1 |-> IF i <= n THEN f[i] ELSE e]
  <2>2. e \in Seq(S)
    <3>1. n + 1 \in DOMAIN s
      OBVIOUS
    <3>2. s[n + 1] \in Seq(S)
      BY <3>1
    <3>3. n # 0 => f[n] \in Seq(S)
      OBVIOUS
    <3> QED BY <3>2, <3>3
  <2> HIDE DEF e
  <2>3. g \in [1 .. n + 1 -> Seq(S)]
    BY <2>2
  <2>4. ASSUME NEW i \in 1 .. n + 1 PROVE g[i] = IF i = 1 THEN s[i] ELSE g[i - 1] \o s[i]
    <3>1. CASE i <= n
      <4>1. g[i] = f[i] /\ (i # 1 => g[i - 1] = f[i - 1])
        BY <3>1
      <4>2. i \in 1 .. n
        BY <3>1
      <4>3. f[i] = IF i = 1 THEN s[i] ELSE f[i - 1] \o s[i]
        BY <2>1, <4>2, Zenon
      <4> QED BY <4>1, <4>3
    <3>2. CASE i = n + 1
      <4>1. g[i] = e /\ (i # 1 => g[i - 1] = f[n])
        BY <3>2
      <4> QED BY <3>2, <4>1 DEF e
    <3> QED BY <3>1, <3>2
  <2> HIDE DEF g
  <2>5. First(n + 1, g)
    BY <2>4
  <2> QED BY <2>3, <2>5
<1> HIDE DEF P
<1>3. T = Nat
  <2>1. T \subseteq Nat /\ 0 \in T
    BY <1>1
  <2>2. \A n \in T : n + 1 \in T
    BY <1>2
  <2> HIDE DEF T
  <2> QED BY <2>1, <2>2, Induction
<1>4. P(Len(s))
  <2>1. Len(s) \in T
    BY <1>3
  <2> QED BY <2>1
<1>5. PICK f \in [1 .. Len(s) -> Seq(S)] : First(Len(s), f)
  BY <1>4 DEF P
<1>6. DOMAIN s = 1 .. Len(s)
  OBVIOUS
<1> QED BY <1>5, <1>6 DEF Flat

(* s and t have the same first m elements.                                 *)
SameFirst(s, t, m) == \A i \in 1 .. m : i \in DOMAIN s /\ i \in DOMAIN t /\ s[i] = t[i]

(* ... and what it is depends on these elements only.                      *)
LEMMA FlatUnique ==
  ASSUME NEW s, NEW t, NEW m \in Nat, SameFirst(s, t, m),
         NEW f, NEW g, Flat(f, s), Flat(g, t)
  PROVE  \A i \in 1 .. m : f[i] = g[i]
<1> DEFINE P(n) == n \in 1 .. m => f[n] = g[n]
           T == { n \in Nat : P(n) }
<1>1. P(0)
  OBVIOUS
<1>2. ASSUME NEW n \in Nat, P(n) PROVE P(n + 1)
  <2> SUFFICES ASSUME n + 1 \in 1 .. m PROVE f[n + 1] = g[n + 1]
    OBVIOUS
  <2>1. /\ f[n + 1] = IF n + 1 = 1 THEN s[n + 1] ELSE f[n + 1 - 1] \o s[n + 1]
        /\ g[n + 1] = IF n + 1 = 1 THEN t[n + 1] ELSE g[n + 1 - 1] \o t[n + 1]
    BY DEF Flat, SameFirst
  <2>2. s[n + 1] = t[n + 1] /\ n + 1 - 1 = n /\ (n + 1 = 1 \/ n \in 1 .. m)
    BY DEF SameFirst
  <2> QED BY <1>2, <2>1, <2>2
<1> HIDE DEF P
<1>3. T = Nat
  <2>1. T \subseteq Nat /\ 0 \in T
    BY <1>1
  <2>2. \A n \in T : n + 1 \in T
    BY <1>2
  <2> HIDE DEF T
  <2> QED BY <2>1, <2>2, Induction
<1>4. ASSUME NEW i \in 1 .. m PROVE f[i] = g[i]
  <2>1. i \in T
    BY <1>3
  <2> QED BY <2>1 DEF P
<1> QED BY <1>4

(* What FlattenSeq is.                                                     *)
LEMMA FlattenIsFlat ==
  ASSUME NEW S, NEW s \in Seq(Seq(S)), s # <<>>
  PROVE  \E f \in [DOMAIN s -> Seq(S)] : Flat(f, s) /\ FlattenSeq(s) = f[Len(s)]
<1> DEFINE Eq(f) == f = [i \in 1 .. Len(s) |-> IF i = 1 THEN s[i] ELSE f[i - 1] \o s[i]]
           c == CHOOSE f : Eq(f)
<1>1. PICK f \in [DOMAIN s -> Seq(S)] : Flat(f, s)
  BY FlatExists
<1>2. Eq(f)
  <2>1. DOMAIN s = 1 .. Len(s)
    OBVIOUS
  <2>2. \A i \in 1 .. Len(s) : f[i] = IF i = 1 THEN s[i] ELSE f[i - 1] \o s[i]
    BY <1>1, <2>1, Zenon DEF Flat
  <2>3. f = [i \in 1 .. Len(s) |-> f[i]]
    BY <1>1, <2>1
  <2> QED BY <2>2, <2>3, Zenon
<1>3. Eq(c)
  BY <1>2
<1>4. FlattenSeq(s) = c[Len(s)]
  BY DEF FlattenSeq
<1> HIDE DEF c
<1>5. Flat(c, s)
  <2>1. DOMAIN s = 1 .. Len(s)
    OBVIOUS
  <2>2. ASSUME NEW i \in 1 .. Len(s) PROVE c[i] = IF i = 1 THEN s[i] ELSE c[i - 1] \o s[i]
    BY <1>3, Zenon
  <2> QED BY <2>1, <2>2 DEF Flat
<1>6. c = f
  <2>1. \A i \in 1 .. Len(s) : c[i] = f[i]
    <3>1. Len(s) \in Nat
      OBVIOUS
    <3>2. SameFirst(s, s, Len(s))
      BY DEF SameFirst
    <3> QED BY <1>1, <1>5, <3>1, <3>2, FlatUnique
  <2>2. c = [i \in 1 .. Len(s) |-> c[i]]
    BY <1>3
  <2> QED BY <2>1, <2>2
<1> QED BY <1>1, <1>4, <1>6

(* Nothing gives nothing.                                                  *)
LEMMA FlattenEmpty == FlattenSeq(<<>>) = <<>>
BY DEF FlattenSeq

(* A sequence of sequences gives a sequence.                               *)
LEMMA FlattenType ==
  ASSUME NEW S, NEW s \in Seq(Seq(S))
  PROVE  FlattenSeq(s) \in Seq(S)
<1>1. CASE s = <<>>
  <2>1. FlattenSeq(s) = <<>>
    BY <1>1, FlattenEmpty, Zenon
  <2>2. <<>> \in Seq(S)
    OBVIOUS
  <2> QED BY <2>1, <2>2
<1>2. CASE s # <<>>
  <2>1. PICK f \in [DOMAIN s -> Seq(S)] : FlattenSeq(s) = f[Len(s)]
    BY <1>2, FlattenIsFlat
  <2>2. Len(s) \in DOMAIN s
    BY <1>2
  <2> QED BY <2>1, <2>2
<1> QED BY <1>1, <1>2

(* One more gives what there was, and the one behind it.                   *)
LEMMA FlattenAppend ==
  ASSUME NEW S, NEW s \in Seq(Seq(S)), NEW t \in Seq(S)
  PROVE  FlattenSeq(Append(s, t)) = FlattenSeq(s) \o t
<1> DEFINE u == Append(s, t)
<1>0. PICK n \in Nat : n = Len(s)
  OBVIOUS
<1>1. /\ u \in Seq(Seq(S)) /\ u # <<>> /\ n \in Nat /\ Len(u) = n + 1
      /\ u[n + 1] = t /\ \A i \in 1 .. n : u[i] = s[i]
  <2>1. u \in Seq(Seq(S)) /\ n \in Nat
    OBVIOUS
  <2>2. Len(u) = n + 1
    BY <1>0
  <2>3. u[n + 1] = t
    BY <1>0
  <2>4. \A i \in 1 .. n : u[i] = s[i]
    BY <1>0
  <2>5. u # <<>>
    BY <2>1, <2>2
  <2> QED BY <2>1, <2>2, <2>3, <2>4, <2>5
<1> HIDE DEF u
<1>2. PICK g \in [DOMAIN u -> Seq(S)] : Flat(g, u) /\ FlattenSeq(u) = g[Len(u)]
  BY <1>1, FlattenIsFlat
<1>3. g[n + 1] = IF n = 0 THEN u[n + 1] ELSE g[n] \o u[n + 1]
  <2>1. PICK k \in DOMAIN u : k = n + 1
    BY <1>1
  <2>2. \A i \in DOMAIN u : g[i] = IF i = 1 THEN u[i] ELSE g[i - 1] \o u[i]
    BY <1>2, Zenon DEF Flat
  <2>3. g[k] = IF k = 1 THEN u[k] ELSE g[k - 1] \o u[k]
    BY <2>2, Zenon
  <2>4. k - 1 = n /\ (k = 1 <=> n = 0)
    BY <2>1
  <2>5. g[k] = IF n = 0 THEN u[k] ELSE g[n] \o u[k]
    BY <2>3, <2>4
  <2> QED BY <2>1, <2>5
<1>4. CASE s = <<>>
  <2>1. n = 0
    BY <1>0, <1>4
  <2>2. FlattenSeq(u) = t
    BY <1>1, <1>2, <1>3, <2>1
  <2> QED BY <1>4, <2>2, FlattenEmpty DEF u
<1>5. CASE s # <<>>
  <2>1. PICK f \in [DOMAIN s -> Seq(S)] : Flat(f, s) /\ FlattenSeq(s) = f[Len(s)]
    BY <1>5, FlattenIsFlat
  <2>2. SameFirst(s, u, n)
    BY <1>0, <1>1 DEF SameFirst
  <2>3. \A i \in 1 .. n : f[i] = g[i]
    BY <1>1, <1>2, <2>1, <2>2, FlatUnique
  <2>4. n # 0 /\ n \in 1 .. n /\ n + 1 - 1 = n /\ n + 1 # 1
    BY <1>0, <1>5
  <2>5. g[n + 1] = g[n] \o u[n + 1] /\ g[n] = f[n]
    BY <1>3, <2>3, <2>4
  <2>6. FlattenSeq(u) = f[n] \o t
    BY <1>1, <1>2, <2>5
  <2> QED BY <1>0, <2>1, <2>6 DEF u
<1> QED BY <1>4, <1>5

(* Extending the last extends the whole.                                   *)
LEMMA FlattenExtend ==
  ASSUME NEW S, NEW s \in Seq(Seq(S)), NEW u \in Seq(Seq(S)), NEW t \in Seq(S),
         s # <<>>, Len(u) = Len(s), u[Len(s)] = s[Len(s)] \o t,
         \A i \in 1 .. Len(s) - 1 : u[i] = s[i]
  PROVE  FlattenSeq(u) = FlattenSeq(s) \o t
<1> DEFINE n == Len(s)
           r == [i \in 1 .. n - 1 |-> s[i]]
           a == s[n]
<1>1. n \in Nat /\ n >= 1 /\ n - 1 \in Nat
  OBVIOUS
<1>2. r \in Seq(Seq(S)) /\ Len(r) = n - 1
  <2>1. r \in [1 .. n - 1 -> Seq(S)]
    OBVIOUS
  <2> QED BY <1>1, <2>1
<1>3. a \in Seq(S) /\ a \o t \in Seq(S)
  BY <1>1
<1>4. s = Append(r, a) /\ u = Append(r, a \o t)
  <2>1. Len(Append(r, a)) = n /\ Len(Append(r, a \o t)) = n
    BY <1>1, <1>2
  <2>2. ASSUME NEW b, NEW i \in 1 .. n
        PROVE  Append(r, b)[i] = IF i = n THEN b ELSE s[i]
    BY <1>1, <1>2
  <2>4. ASSUME NEW i \in 1 .. n PROVE u[i] = IF i = n THEN a \o t ELSE s[i]
    <3>1. i # n => i \in 1 .. n - 1
      BY <1>1
    <3> QED BY <3>1
  <2>3. Append(r, a) \in Seq(Seq(S)) /\ Append(r, a \o t) \in Seq(Seq(S))
    BY <1>2, <1>3
  <2>5. s[n] = a
    OBVIOUS
  <2> HIDE DEF r, a
  <2>6. \A i \in 1 .. n : Append(r, a)[i] = s[i] /\ Append(r, a \o t)[i] = u[i]
    BY <2>2, <2>4, <2>5
  <2>7. s = Append(r, a)
    BY <2>1, <2>3, <2>6
  <2>8. u = Append(r, a \o t)
    <3>1. \A i \in 1 .. Len(u) : u[i] = Append(r, a \o t)[i]
      BY <2>1, <2>6
    <3>2. Len(u) = Len(Append(r, a \o t))
      BY <2>1
    <3> QED BY <2>3, <3>1, <3>2, SeqEqual
  <2> QED BY <2>7, <2>8
<1> HIDE DEF r, a
<1>5. FlattenSeq(s) = FlattenSeq(r) \o a /\ FlattenSeq(u) = FlattenSeq(r) \o (a \o t)
  BY <1>2, <1>3, <1>4, FlattenAppend
<1>6. FlattenSeq(r) \in Seq(S)
  BY <1>2, FlattenType
<1>7. (FlattenSeq(r) \o a) \o t = FlattenSeq(r) \o (a \o t)
  <2>1. ASSUME NEW x \in Seq(S), NEW y \in Seq(S), NEW z \in Seq(S)
        PROVE  (x \o y) \o z = x \o (y \o z)
    BY SMTT(30)
  <2> QED BY <1>3, <1>6, <2>1, Zenon
<1> QED BY <1>5, <1>7

-----------------------------------------------------------------------------
(* What is on disk, as a function of the stream and the files of a channel.*)

EndIn(s, p) ==
  CHOOSE e \in p .. Len(s) :
    /\ e = Len(s) \/ s[e + 1].start
    /\ \A q \in p + 1 .. e : ~ s[q].start

FirstIn(s, p) == IF s[p].mark = "trig" THEN p ELSE p + 1

PayloadIn(s, p) ==
  [k \in 1 .. EndIn(s, p) - FirstIn(s, p) + 1 |-> FirstIn(s, p) + k - 1]

StartsIn(s) == { p \in DOMAIN s : s[p].start }

EventsIn(s) ==
  { p \in StartsIn(s) :
      s[p].mark = "trig" \/ (s[p].mark = "dig" /\ s[p + 1].type = "chan") }

WholeIn(s, chunk, p) ==
  /\ chunk.words = PayloadIn(s, p)
  /\ chunk.kind = IF s[p].mark = "trig" THEN "trig" ELSE "body"
  /\ chunk.size = IF s[p].mark = "trig" THEN TrigPacketLength ELSE Len(chunk.words)

Claim(chunk) == IF chunk.kind = "trig" THEN chunk.words[1] ELSE chunk.words[1] - 1

EventIn(s, chunk) ==
  IF Claim(chunk) \in EventsIn(s) /\ WholeIn(s, chunk, Claim(chunk)) THEN Claim(chunk) ELSE 0

LogIn(s, chunk) == IF chunk.kind = "geb" THEN <<>> ELSE << EventIn(s, chunk) >>

ChunksIn(d) == FlattenSeq([c \in DOMAIN d |-> d[c].chunks])

LogsIn(s, chunks) == FlattenSeq([i \in DOMAIN chunks |-> LogIn(s, chunks[i])])

(* The log is that of the stream and the files, ...                        *)
LEMMA LogIs == Log = [id \in FileID |-> LogsIn(stream, ChunksIn(disk[id]))]
BY Zenon DEF Log, LogOf, EventsOf, EventOf, IsWhole, Payload, PacketEnd, Events, IsEvent, IsTrig,
             PacketStarts, ChunksOf, LogsIn, LogIn, EventIn, Claim, WholeIn, EventsIn,
             StartsIn, PayloadIn, FirstIn, EndIn, ChunksIn

(* ... also after a step.                                                  *)
LEMMA LogNext == Log' = [id \in FileID |-> LogsIn(stream', ChunksIn(disk'[id]))]
BY Zenon DEF Log, LogOf, EventsOf, EventOf, IsWhole, Payload, PacketEnd, Events, IsEvent, IsTrig,
             PacketStarts, ChunksOf, LogsIn, LogIn, EventIn, Claim, WholeIn, EventsIn,
             StartsIn, PayloadIn, FirstIn, EndIn, ChunksIn

(* What is in the files is a sequence of chunks.                           *)
LEMMA FilesAreChunks ==
  ASSUME NEW d \in Seq(DiskFile)
  PROVE  /\ [c \in DOMAIN d |-> d[c].chunks] \in Seq(Seq(Chunk))
         /\ Len([c \in DOMAIN d |-> d[c].chunks]) = Len(d)
<1>1. \A c \in DOMAIN d : d[c] \in DiskFile
  OBVIOUS
<1>2. \A c \in DOMAIN d : d[c].chunks \in Seq(Chunk)
  BY <1>1, Zenon DEF DiskFile
<1>3. [c \in DOMAIN d |-> d[c].chunks] \in [1 .. Len(d) -> Seq(Chunk)]
  BY <1>2
<1> QED BY <1>3

(* Their concatenation is one.                                             *)
LEMMA ChunksType ==
  ASSUME NEW d \in Seq(DiskFile) PROVE ChunksIn(d) \in Seq(Chunk)
BY FilesAreChunks, FlattenType DEF ChunksIn

(* No files, no chunks.                                                    *)
LEMMA ChunksEmpty == ChunksIn(<<>>) = <<>>
<1>1. [c \in DOMAIN <<>> |-> <<>>[c].chunks] = <<>>
  OBVIOUS
<1> QED BY <1>1, FlattenEmpty DEF ChunksIn

(* Making a file read-only does not touch what is in it.                   *)
LEMMA ChunksSetReadOnly ==
  ASSUME NEW d \in Seq(DiskFile), NEW c \in Nat, c + 1 \in DOMAIN d, NEW r \in BOOLEAN
  PROVE  ChunksIn(SetReadOnly(d, c, r)) = ChunksIn(d)
<1> DEFINE e == SetReadOnly(d, c, r)
<1>1. DOMAIN e = DOMAIN d /\ \A k \in DOMAIN d : e[k].chunks = d[k].chunks
  <2>1. ASSUME NEW k \in DOMAIN d PROVE e[k].chunks = d[k].chunks
    BY DEF SetReadOnly, DiskFile
  <2> QED BY <2>1 DEF SetReadOnly
<1> HIDE DEF e
<1>2. [k \in DOMAIN e |-> e[k].chunks] = [k \in DOMAIN d |-> d[k].chunks]
  BY <1>1
<1>3. ChunksIn(e) = ChunksIn(d)
  BY <1>2, Zenon DEF ChunksIn
<1> QED BY <1>3 DEF e

(* Nor does opening one, be it a new one.                                  *)
LEMMA ChunksFopen ==
  ASSUME NEW d \in Seq(DiskFile), NEW c \in Nat
  PROVE  ChunksIn(Fopen(d, c)) = ChunksIn(d)
<1>1. CASE c + 1 \in DOMAIN d
  BY <1>1 DEF Fopen
<1>2. CASE c + 1 \notin DOMAIN d
  <2> DEFINE e == Append(d, EmptyFile)
             s == [k \in DOMAIN d |-> d[k].chunks]
             u == [k \in DOMAIN e |-> e[k].chunks]
  <2>1. e \in Seq(DiskFile) /\ Len(e) = Len(d) + 1
    <3>1. EmptyFile \in DiskFile
      BY DEF EmptyFile, DiskFile
    <3> QED BY <3>1
  <2>2. s \in Seq(Seq(Chunk)) /\ Len(s) = Len(d) /\ u \in Seq(Seq(Chunk)) /\ Len(u) = Len(e)
    BY <2>1, FilesAreChunks
  <2>3. <<>> \in Seq(Chunk)
    OBVIOUS
  <2>4. u = Append(s, <<>>)
    <3>1. Len(Append(s, <<>>)) = Len(u) /\ Append(s, <<>>) \in Seq(Seq(Chunk))
      BY <2>1, <2>2, <2>3
    <3>2. ASSUME NEW k \in 1 .. Len(u) PROVE u[k] = Append(s, <<>>)[k]
      <4>1. u[k] = e[k].chunks
        BY <2>1, <2>2
      <4>2. CASE k <= Len(d)
        BY <4>1, <4>2, <2>1, <2>2
      <4>3. CASE k = Len(d) + 1
        BY <4>1, <4>3, <2>1, <2>2 DEF EmptyFile
      <4> QED BY <4>2, <4>3, <2>1, <2>2
    <3> HIDE DEF s, u
    <3> QED BY <2>2, <3>1, <3>2, SeqEqual
  <2> HIDE DEF s, u
  <2>5. FlattenSeq(u) = FlattenSeq(s) \o <<>> /\ FlattenSeq(s) \in Seq(Chunk)
    BY <2>2, <2>3, <2>4, FlattenAppend, FlattenType
  <2>6. FlattenSeq(u) = FlattenSeq(s)
    BY <2>5
  <2>7. ChunksIn(e) = ChunksIn(d)
    BY <2>6, Zenon DEF ChunksIn, s, u
  <2> QED BY <1>2, <2>7 DEF Fopen
<1> QED BY <1>1, <1>2

(* Writing to the newest file appends to what there is.                    *)
LEMMA ChunksExtend ==
  ASSUME NEW d \in Seq(DiskFile), NEW c \in Nat, c + 1 = Len(d), NEW chunk \in Chunk
  PROVE  ChunksIn(Extend(d, c, chunk)) = Append(ChunksIn(d), chunk)
<1> DEFINE e == Extend(d, c, chunk)
           s == [k \in DOMAIN d |-> d[k].chunks]
           u == [k \in DOMAIN e |-> e[k].chunks]
<1>0. c + 1 \in DOMAIN d
  OBVIOUS
<1>1. e \in Seq(DiskFile) /\ Len(e) = Len(d)
  BY <1>0, ExtendType
<1>2. s \in Seq(Seq(Chunk)) /\ Len(s) = Len(d) /\ u \in Seq(Seq(Chunk)) /\ Len(u) = Len(d)
  BY <1>1, FilesAreChunks
<1>3. u[Len(s)] = s[Len(s)] \o <<chunk>>
  <2>1. e[c + 1].chunks = Append(d[c + 1].chunks, chunk)
    BY <1>0, ExtendType
  <2>2. Len(s) \in DOMAIN s
    BY <1>0, <1>2
  <2>3. s[Len(s)] \in Seq(Chunk)
    BY <1>2, <2>2
  <2>4. u[Len(s)] = e[c + 1].chunks /\ s[Len(s)] = d[c + 1].chunks
    BY <1>0, <1>1, <1>2
  <2> HIDE DEF s, u, e
  <2>5. u[Len(s)] = Append(s[Len(s)], chunk)
    BY <2>1, <2>4
  <2>6. \A x \in Seq(Chunk) : Append(x, chunk) = x \o <<chunk>>
    OBVIOUS
  <2> QED BY <2>3, <2>5, <2>6
<1>4. ASSUME NEW k \in 1 .. Len(s) - 1 PROVE u[k] = s[k]
  <2>1. k \in DOMAIN d /\ k # c + 1 /\ DOMAIN e = DOMAIN d
    BY <1>1, <1>2
  <2>2. e[k] = d[k]
    BY <2>1 DEF Extend
  <2> QED BY <2>1, <2>2
<1>5. <<chunk>> \in Seq(Chunk) /\ s # <<>> /\ Len(u) = Len(s)
  BY <1>0, <1>2
<1> HIDE DEF s, u
<1>6. FlattenSeq(u) = FlattenSeq(s) \o <<chunk>>
  BY <1>2, <1>3, <1>4, <1>5, FlattenExtend
<1>10. FlattenSeq(s) \in Seq(Chunk)
  BY <1>2, FlattenType
<1>7. FlattenSeq(u) = Append(FlattenSeq(s), chunk)
  BY <1>6, <1>10
<1>8. ChunksIn(e) = FlattenSeq(u) /\ ChunksIn(d) = FlattenSeq(s)
  BY Zenon DEF ChunksIn, s, u
<1> HIDE DEF e
<1>9. ChunksIn(e) = Append(ChunksIn(d), chunk)
  BY <1>7, <1>8
<1> QED BY <1>9 DEF e

(* Logs are sequences of numbers, ...                                      *)
LEMMA LogType ==
  ASSUME NEW s \in Seq(Word), NEW chunk
  PROVE  LogIn(s, chunk) \in Seq(Nat) /\ EventIn(s, chunk) \in Nat
<1>1. EventIn(s, chunk) \in Nat
  BY DEF EventIn, EventsIn, StartsIn
<1> QED BY <1>1 DEF LogIn

(* ... and grow with the chunks.                                           *)
LEMMA LogsAppend ==
  ASSUME NEW s \in Seq(Word), NEW chunks \in Seq(Chunk), NEW chunk \in Chunk
  PROVE  /\ LogsIn(s, chunks) \in Seq(Nat)
         /\ LogsIn(s, Append(chunks, chunk)) = LogsIn(s, chunks) \o LogIn(s, chunk)
<1> DEFINE more == Append(chunks, chunk)
           n == Len(chunks)
           f == [i \in DOMAIN chunks |-> LogIn(s, chunks[i])]
           g == [i \in DOMAIN more |-> LogIn(s, more[i])]
<1>1. /\ more \in Seq(Chunk) /\ n \in Nat /\ Len(more) = n + 1 /\ more[n + 1] = chunk
      /\ \A i \in 1 .. n : more[i] = chunks[i]
  <2>1. more \in Seq(Chunk) /\ n \in Nat /\ Len(more) = n + 1
    OBVIOUS
  <2>2. more[n + 1] = chunk
    OBVIOUS
  <2>3. \A i \in 1 .. n : more[i] = chunks[i]
    OBVIOUS
  <2> QED BY <2>1, <2>2, <2>3
<1>2. f \in Seq(Seq(Nat)) /\ Len(f) = n
  <2>1. f \in [1 .. n -> Seq(Nat)]
    BY LogType
  <2> QED BY <2>1
<1>3. LogIn(s, chunk) \in Seq(Nat)
  BY LogType
<1>4. g = Append(f, LogIn(s, chunk))
  <2>1. g \in Seq(Seq(Nat)) /\ Len(g) = n + 1
    <3>1. DOMAIN more = 1 .. n + 1
      BY <1>1
    <3>2. g \in [1 .. n + 1 -> Seq(Nat)]
      BY <3>1, LogType
    <3> QED BY <1>1, <3>2
  <2>2. Append(f, LogIn(s, chunk)) \in Seq(Seq(Nat)) /\ Len(Append(f, LogIn(s, chunk))) = n + 1
    BY <1>2, <1>3
  <2>3. ASSUME NEW i \in 1 .. n + 1 PROVE g[i] = Append(f, LogIn(s, chunk))[i]
    <3>1. i \in DOMAIN more
      BY <1>1
    <3>2. g[i] = LogIn(s, more[i])
      BY <3>1
    <3>3. CASE i = n + 1
      BY <1>1, <1>2, <3>2, <3>3
    <3>4. CASE i # n + 1
      <4>1. i \in 1 .. n
        BY <1>1, <3>4
      <4>2. more[i] = chunks[i] /\ i \in DOMAIN chunks
        BY <1>1, <4>1
      <4>3. f[i] = LogIn(s, more[i])
        BY <4>2
      <4>4. Append(f, LogIn(s, chunk))[i] = f[i]
        BY <1>2, <4>1
      <4> QED BY <3>2, <4>3, <4>4
    <3> QED BY <3>3, <3>4
  <2> HIDE DEF f, g
  <2> QED BY <2>1, <2>2, <2>3, SeqEqual
<1>5. LogsIn(s, chunks) = FlattenSeq(f) /\ LogsIn(s, more) = FlattenSeq(g)
  BY Zenon DEF LogsIn
<1> HIDE DEF f, g
<1>6. FlattenSeq(g) = FlattenSeq(f) \o LogIn(s, chunk)
  BY <1>2, <1>3, <1>4, FlattenAppend
<1>7. FlattenSeq(f) \in Seq(Nat)
  BY <1>2, FlattenType
<1> QED BY <1>5, <1>6, <1>7

(* No chunks, no events.                                                   *)
LEMMA LogsEmpty == ASSUME NEW s PROVE LogsIn(s, <<>>) = <<>>
<1>1. [i \in DOMAIN <<>> |-> LogIn(s, <<>>[i])] = <<>>
  OBVIOUS
<1> QED BY <1>1, FlattenEmpty DEF LogsIn

-----------------------------------------------------------------------------
(* What the operations of OutFile do to the log.                           *)

(* The log is one of numbers.                                              *)
LEMMA LogNat ==
  ASSUME ReceiverInv
  PROVE  Log \in [FileID -> Seq(Nat)]
<1>1. ASSUME NEW id \in FileID PROVE LogsIn(stream, ChunksIn(disk[id])) \in Seq(Nat)
  <2>1. disk[id] \in Seq(DiskFile) /\ stream \in Seq(Word)
    BY StreamType DEF ReceiverInv, TypeOK, FilesTypeOK
  <2>2. ChunksIn(disk[id]) \in Seq(Chunk)
    BY <2>1, ChunksType
  <2>3. [kind |-> "geb", words |-> <<>>, size |-> 0] \in Chunk
    BY DEF Chunk, ChunkKind
  <2> QED BY <2>1, <2>2, <2>3, LogsAppend
<1> QED BY <1>1, LogIs

(* If every file has the chunks it had, the log is what it was.            *)
LEMMA LogSame ==
  ASSUME stream' = stream, \A id \in FileID : ChunksIn(disk'[id]) = ChunksIn(disk[id])
  PROVE  Log' = Log
<1>1. \A id \in FileID : LogsIn(stream', ChunksIn(disk'[id])) = LogsIn(stream, ChunksIn(disk[id]))
  OBVIOUS
<1> QED BY <1>1, LogIs, LogNext

(* OpenFile and CloseFile leave the log alone.                             *)
LEMMA NewFileLog ==
  ASSUME FilesInv, stream' = stream, NEW id \in FileID, NEW ok \in BOOLEAN,
         NEW d \in Seq(DiskFile), ChunksIn(d) = ChunksIn(disk[id]), NEW c \in Nat,
         NewFile(id, d, c, ok)
  PROVE  Log' = Log
<1> DEFINE e == IF ok THEN Fopen(d, c) ELSE d
<1>1. ChunksIn(e) = ChunksIn(disk[id])
  BY ChunksFopen
<1>2. disk' = [disk EXCEPT ![id] = e]
  BY DEF NewFile
<1> HIDE DEF e
<1>3. \A k \in FileID : ChunksIn(disk'[k]) = ChunksIn(disk[k])
  BY <1>1, <1>2 DEF FilesInv, FilesTypeOK
<1> QED BY <1>3, LogSame

(* (See NewFileLog.)                                                       *)
LEMMA OpenFileLog ==
  ASSUME FilesInv, stream' = stream, NEW id \in FileID, NEW ok \in BOOLEAN, OpenFile(id, ok)
  PROVE  Log' = Log
<1>1. disk[id] \in Seq(DiskFile) /\ count[id] \in Nat
  BY ObjectType
<1>2. CASE OpenFirst(id, ok)
  BY <1>1, <1>2, NewFileLog DEF OpenFirst
<1>3. CASE KeepOpen(id, ok)
  BY <1>3, LogSame DEF KeepOpen, fileVars
<1>4. CASE RollOver(id, ok)
  <2>1. PICK sealed \in {TRUE, ~ ChmodMayFail} :
          NewFile(id, SetReadOnly(disk[id], count[id], sealed), count[id] + 1, ok)
    BY <1>4 DEF RollOver
  <2>2. sealed \in BOOLEAN /\ count[id] + 1 \in DOMAIN disk[id] /\ count[id] + 1 \in Nat
    <3>1. file[id]
      BY <1>4 DEF RollOver
    <3>2. sealed \in BOOLEAN
      BY OutFileAssumption
    <3>3. count[id] + 1 \in DOMAIN disk[id]
      BY <3>1, ObjectType
    <3> QED BY <1>1, <3>2, <3>3
  <2> DEFINE d == SetReadOnly(disk[id], count[id], sealed)
  <2>3. d \in Seq(DiskFile) /\ ChunksIn(d) = ChunksIn(disk[id])
    BY <1>1, <2>2, SetReadOnlyType, ChunksSetReadOnly
  <2> HIDE DEF d
  <2>4. NewFile(id, d, count[id] + 1, ok)
    BY <2>1 DEF d
  <2> QED BY <2>2, <2>3, <2>4, NewFileLog
<1> QED BY <1>2, <1>3, <1>4 DEF OpenFile

(* (See NewFileLog.)                                                       *)
LEMMA CloseFileLog ==
  ASSUME FilesInv, stream' = stream, NEW id \in FileID, CloseFile(id)
  PROVE  Log' = Log
<1>1. PICK sealed \in {TRUE, ~ ChmodMayFail} :
        disk' = [disk EXCEPT ![id] = SetReadOnly(disk[id], count[id], sealed)]
  BY DEF CloseFile
<1>2. /\ disk[id] \in Seq(DiskFile) /\ count[id] \in Nat /\ sealed \in BOOLEAN
      /\ count[id] + 1 \in DOMAIN disk[id]
  BY OutFileAssumption, ObjectType DEF CloseFile
<1>3. ChunksIn(SetReadOnly(disk[id], count[id], sealed)) = ChunksIn(disk[id])
  BY <1>2, ChunksSetReadOnly
<1>4. \A k \in FileID : ChunksIn(disk'[k]) = ChunksIn(disk[k])
  BY <1>1, <1>3 DEF FilesInv, FilesTypeOK
<1> QED BY <1>4, LogSame

Piece(kind, ws, n) == [kind |-> kind, words |-> ws, size |-> n]

(* The numbers of words of which fwrite may have written n.                *)
Fwritten(size) == IF FwriteMayFail THEN 0 .. size ELSE {size}

Logged(id, chunk, n) ==
  Log' = IF n = 0 THEN Log ELSE [Log EXCEPT ![id] = @ \o LogIn(stream, chunk)]

(* Write appends to the log, if the file is the channel's newest.          *)
LEMMA WriteLog ==
  ASSUME FilesInv, stream \in Streams, stream' = stream,
         NEW id \in FileID, NEW kind \in ChunkKind, NEW ws \in Seq(Nat), NEW size \in Nat,
         file[id], count[id] + 1 = Len(disk[id]), Write(id, kind, ws, size)
  PROVE  \E n \in Fwritten(size) : Logged(id, Piece(kind, ws, n), n)
<1>1. PICK n \in Fwritten(size) :
        WriteChunk(id, [kind |-> kind, words |-> ws, size |-> n])
  BY DEF Write, Fwritten
<1> DEFINE chunk == [kind |-> kind, words |-> ws, size |-> n]
<1>2. chunk \in Chunk /\ chunk.size = n
  BY DEF Chunk, Fwritten
<1> HIDE DEF chunk
<1>3. disk' = [disk EXCEPT ![id] = IF n = 0 THEN disk[id] ELSE Extend(disk[id], count[id], chunk)]
  BY <1>1, <1>2 DEF WriteChunk, Written, chunk
<1>4. disk[id] \in Seq(DiskFile) /\ count[id] \in Nat /\ stream \in Seq(Word)
  BY ObjectType, StreamType
<1>5. ASSUME n = 0 PROVE Log' = Log
  <2>1. \A k \in FileID : ChunksIn(disk'[k]) = ChunksIn(disk[k])
    BY <1>3, <1>5 DEF FilesInv, FilesTypeOK
  <2> QED BY <1>5, <2>1, LogSame
<1>6. ASSUME n # 0 PROVE Log' = [Log EXCEPT ![id] = @ \o LogIn(stream, Piece(kind, ws, n))]
  <2>1. ChunksIn(Extend(disk[id], count[id], chunk)) = Append(ChunksIn(disk[id]), chunk)
    BY <1>2, <1>4, ChunksExtend
  <2>2. /\ ChunksIn(disk'[id]) = Append(ChunksIn(disk[id]), chunk)
        /\ \A k \in FileID : k # id => disk'[k] = disk[k]
    BY <1>3, <1>6, <2>1 DEF FilesInv, FilesTypeOK
  <2>3. ChunksIn(disk[id]) \in Seq(Chunk)
    BY <1>4, ChunksType
  <2>4. LogsIn(stream, Append(ChunksIn(disk[id]), chunk))
          = LogsIn(stream, ChunksIn(disk[id])) \o LogIn(stream, chunk)
    BY <1>2, <1>4, <2>3, LogsAppend
  <2>5. \A k \in FileID :
          LogsIn(stream', ChunksIn(disk'[k]))
            = IF k = id THEN LogsIn(stream, ChunksIn(disk[id])) \o LogIn(stream, chunk)
                        ELSE LogsIn(stream, ChunksIn(disk[k]))
    BY <2>2, <2>4
  <2>6. Log' = [Log EXCEPT ![id] = @ \o LogIn(stream, chunk)]
    BY <2>5, LogIs, LogNext
  <2> QED BY <2>6 DEF chunk, Piece
<1>7. Log' = IF n = 0 THEN Log ELSE [Log EXCEPT ![id] = @ \o LogIn(stream, Piece(kind, ws, n))]
  BY <1>5, <1>6
<1> QED BY <1>7, Zenon DEF Logged

-----------------------------------------------------------------------------
(* What the steps of the receiver do to the log.                           *)

(* The files are left alone, no event is begun or done with, and the end   *)
(* of the run is for good.                                                 *)
Still ==
  /\ UNCHANGED fileVars
  /\ pc \in {"closing", "ended"} => pc' \in {"closing", "ended"}
  /\ \/ UNCHANGED <<pc, event, index, data>>
     \/ pc \notin {"geb", "write", "dead"} /\ pc' \notin {"geb", "write", "dead"}

(* The stream stays, and the files are changed by the calls of OutFile.    *)
LEMMA Steps ==
  ASSUME [Next]_vars
  PROVE  /\ stream' = stream
         /\ \/ Still
            \/ \E ok \in BOOLEAN : OpenEventFile(ok)
            \/ WriteGEB \/ WriteBody \/ WriteTrig \/ CloseOne
            \/ Die \/ Restart
<1>1. CASE Decode
  <2>1. ASSUME NEW header, DigSkip(header) \/ DigIncomplete(header) \/ DigEvent(header)
        PROVE  stream' = stream /\ Still
    BY <2>1 DEF DigSkip, DigIncomplete, DigEvent, AtMark, dataVars, Still
  <2>2. Finish \/ TrigIncomplete \/ TrigEvent \/ UnknownDataType => stream' = stream /\ Still
    BY DEF Finish, TrigIncomplete, TrigEvent, UnknownDataType, AtMark, dataVars, Still
  <2>3. ASSUME NEW ok \in BOOLEAN, OpenEventFile(ok) PROVE stream' = stream
    BY <2>3 DEF OpenEventFile, dataVars
  <2>4. WriteGEB \/ WriteBody \/ WriteTrig => stream' = stream
    BY DEF WriteGEB, WriteBody, WriteTrig, dataVars
  <2> QED BY <1>1, <2>1, <2>2, <2>3, <2>4 DEF Decode
<1>2. CASE Server
  BY <1>2 DEF Server, Summary, NoData, Close, ServerSummary, ServerNoData, ServerReply,
              ServerCloses, FileStep, Still
<1>3. CASE ReplyHeader
  <2>1. pc = "reply" /\ pc' \in {"body", "request"} /\ FileStep /\ stream' = stream
    BY <1>3, Zenon DEF ReplyHeader, GetHeader, RecvHeader
  <2> QED BY <2>1 DEF FileStep, Still
<1>4. CASE ReplyBody
  <2>1. pc = "body" /\ pc' \in {"body", "decode"} /\ FileStep /\ stream' = stream
    BY <1>4, Zenon DEF ReplyBody, GetBody, RecvBody
  <2> QED BY <2>1 DEF FileStep, Still
<1>5. CASE Connect \/ Send \/ Resend \/ NoReply
  BY <1>5 DEF Connect, Send, Resend, NoReply, SetUpConnection, SendRequest, SendFails,
              RecvNothing, FileStep, getVars, Still
<1>6. CASE EndRun \/ CloseOne \/ End
  BY <1>6 DEF EndRun, CloseOne, End, getVars, Still
<1>7. CASE BrokenPipe \/ Kill
  BY <1>7 DEF BrokenPipe, Kill, Die
<1>8. CASE Restart \/ Terminated \/ UNCHANGED vars
  BY <1>8 DEF Restart, Terminated, vars, getVars, Still
<1> QED BY <1>1, <1>2, <1>3, <1>4, <1>5, <1>6, <1>7, <1>8 DEF Next, Main

(* The open file of a channel is its newest.                               *)
OnNewest ==
  pc # "dead" => \A id \in FileID : file[id] => count[id] + 1 = Len(disk[id])

(* The log only changes when an event is written.                          *)
LEMMA QuietLog ==
  ASSUME ReceiverInv, OnNewest, [Next]_vars, ~ WriteBody, ~ WriteTrig
  PROVE  Log' = Log
<1>1. stream' = stream /\ FilesInv /\ stream \in Streams
  BY Steps DEF ReceiverInv, TypeOK, FilesInv
<1>2. CASE Still \/ Die \/ Restart
  <2>1. disk' = disk
    BY <1>2 DEF Still, Die, Restart, fileVars
  <2> QED BY <1>1, <2>1, LogSame
<1>3. ASSUME NEW ok \in BOOLEAN, OpenEventFile(ok) PROVE Log' = Log
  <2>1. OpenFile(event.file, ok) /\ event.file \in FileID
    BY <1>3 DEF OpenEventFile, ReceiverInv, TypeOK, Event
  <2> QED BY <1>1, <2>1, OpenFileLog
<1>4. CASE CloseOne
  BY <1>1, <1>4, CloseFileLog DEF CloseOne
<1>5. CASE WriteGEB
  <2>1. /\ pc = "geb" /\ Write(event.file, "geb", <<data[index + 1]>>, GebWords)
        /\ event.file \in FileID /\ data \in Seq(Nat)
    BY <1>5 DEF WriteGEB, ReceiverInv, TypeOK, Event
  <2>2. <<data[index + 1]>> \in Seq(Nat)
    <3>1. index + 1 \in DOMAIN data
      BY <2>1 DEF ReceiverInv, TypeOK, BufferFits, AtEvent
    <3> QED BY <2>1, <3>1
  <2>3. "geb" \in ChunkKind /\ GebWords \in Nat
    BY DataBufferAssumption DEF ChunkKind
  <2>4. file[event.file] /\ count[event.file] + 1 = Len(disk[event.file])
    BY <2>1 DEF ReceiverInv, AtEvent, OnNewest
  <2>5. PICK n \in Fwritten(GebWords) :
          Logged(event.file, Piece("geb", <<data[index + 1]>>, n), n)
    BY <1>1, <2>1, <2>2, <2>3, <2>4, WriteLog
  <2>6. LogIn(stream, Piece("geb", <<data[index + 1]>>, n)) = <<>>
    BY DEF LogIn, Piece
  <2>7. Log \in [FileID -> Seq(Nat)]
    BY LogNat
  <2> HIDE DEF Log
  <2>8. Log[event.file] \o <<>> = Log[event.file]
    BY <2>1, <2>7
  <2>9. [Log EXCEPT ![event.file] = Log[event.file]] = Log
    BY <2>7
  <2> QED BY <2>5, <2>6, <2>8, <2>9 DEF Logged
<1> QED BY <1>2, <1>3, <1>4, <1>5, Steps

BodyChunk(n) == Piece("body", CopyOfData(index + 1, event.len), n)
TrigChunk(n) == Piece("trig", CopyOfData(index, TrigDataSize), n)

(* It is appended to, with what WriteData hands to Write.                  *)
LEMMA WriteBodyLog ==
  ASSUME ReceiverInv, OnNewest, WriteBody
  PROVE  \E n \in Fwritten(event.len) :
           Log' = IF n = 0 THEN Log
                  ELSE [Log EXCEPT ![event.file] = Append(@, EventIn(stream, BodyChunk(n)))]
<1>1. /\ pc = "write" /\ UNCHANGED dataVars
      /\ Write(event.file, "body", CopyOfData(index + 1, event.len), event.len)
  BY DEF WriteBody
<1>2. /\ event.file \in FileID /\ event.len \in Nat /\ data \in Seq(Nat) /\ index \in Nat
      /\ FilesInv /\ stream \in Streams /\ stream' = stream
  BY <1>1 DEF ReceiverInv, TypeOK, Event, FilesInv, dataVars
<1>3. CopyOfData(index + 1, event.len) \in Seq(Nat) /\ "body" \in ChunkKind
  <2>1. index + 1 \in Nat
    BY <1>2
  <2> QED BY <1>2, <2>1, CopyOfDataType DEF ChunkKind
<1>4. file[event.file] /\ count[event.file] + 1 = Len(disk[event.file])
  BY <1>1, <1>2 DEF ReceiverInv, AtEvent, OnNewest
<1>5. PICK n \in Fwritten(event.len) : Logged(event.file, BodyChunk(n), n)
  BY <1>1, <1>2, <1>3, <1>4, WriteLog DEF BodyChunk
<1>6. LogIn(stream, BodyChunk(n)) = <<EventIn(stream, BodyChunk(n))>>
  BY DEF LogIn, BodyChunk, Piece
<1>7. Log[event.file] \in Seq(Nat) /\ EventIn(stream, BodyChunk(n)) \in Nat
  BY <1>2, LogNat, LogType, StreamType
<1> HIDE DEF Log
<1>8. Log[event.file] \o <<EventIn(stream, BodyChunk(n))>>
        = Append(Log[event.file], EventIn(stream, BodyChunk(n)))
  BY <1>7
<1> QED BY <1>5, <1>6, <1>8 DEF Logged

(* (See WriteBodyLog.)                                                     *)
LEMMA WriteTrigLog ==
  ASSUME ReceiverInv, OnNewest, WriteTrig, event.file = TrigFile
  PROVE  \E n \in Fwritten(TrigPacketLength) :
           Log' = IF n = 0 THEN Log
                  ELSE [Log EXCEPT ![TrigFile] = Append(@, EventIn(stream, TrigChunk(n)))]
<1>1. /\ pc = "write" /\ UNCHANGED dataVars
      /\ Write(TrigFile, "trig", CopyOfData(index, TrigDataSize), TrigPacketLength)
  BY DEF WriteTrig
<1>2. /\ TrigFile \in FileID /\ TrigPacketLength \in Nat /\ TrigDataSize \in Nat
      /\ data \in Seq(Nat) /\ index \in Nat
      /\ FilesInv /\ stream \in Streams /\ stream' = stream
  BY <1>1, ChannelsAssumption, DataBufferAssumption DEF ReceiverInv, TypeOK, FilesInv, dataVars
<1>3. CopyOfData(index, TrigDataSize) \in Seq(Nat) /\ "trig" \in ChunkKind
  BY <1>2, CopyOfDataType DEF ChunkKind
<1>4. file[TrigFile] /\ count[TrigFile] + 1 = Len(disk[TrigFile])
  BY <1>1, <1>2 DEF ReceiverInv, AtEvent, OnNewest
<1>5. PICK n \in Fwritten(TrigPacketLength) : Logged(TrigFile, TrigChunk(n), n)
  BY <1>1, <1>2, <1>3, <1>4, WriteLog DEF TrigChunk
<1>6. LogIn(stream, TrigChunk(n)) = <<EventIn(stream, TrigChunk(n))>>
  BY DEF LogIn, TrigChunk, Piece
<1>7. Log[TrigFile] \in Seq(Nat) /\ EventIn(stream, TrigChunk(n)) \in Nat
  BY <1>2, LogNat, LogType, StreamType
<1> HIDE DEF Log
<1>8. Log[TrigFile] \o <<EventIn(stream, TrigChunk(n))>>
        = Append(Log[TrigFile], EventIn(stream, TrigChunk(n)))
  BY <1>7
<1> QED BY <1>5, <1>6, <1>8 DEF Logged

-----------------------------------------------------------------------------
(* The first process of a run writes the files of a channel in turn, even  *)
(* if chmod fails: only a second one comes back to an older file.          *)
InTurn(id) == Len(disk[id]) <= count[id] + (IF file[id] THEN 1 ELSE 0)

NewestInv ==
  starts = 1 /\ pc # "dead" =>
    \A id \in FileID :
      \/ InTurn(id)
      \/ pc \in {"closing", "ended"} /\ Len(disk[id]) <= count[id] + 1

(* Making a file read-only leaves as many files.                           *)
LEMMA NewFileInTurn ==
  ASSUME FilesInv, NEW id \in FileID, NEW ok \in BOOLEAN,
         NEW d \in Seq(DiskFile), NEW c \in Nat, Len(d) = c,
         NewFile(id, d, c, ok), count' = [count EXCEPT ![id] = c],
         \A k \in FileID : InTurn(k)
  PROVE  \A k \in FileID : InTurn(k)'
<1> DEFINE e == IF ok THEN Fopen(d, c) ELSE d
<1>1. disk' = [disk EXCEPT ![id] = e] /\ file' = [file EXCEPT ![id] = ok]
  BY DEF NewFile
<1>2. Len(e) = c + (IF ok THEN 1 ELSE 0)
  <2>1. EmptyFile \in DiskFile
    BY DEF EmptyFile, DiskFile
  <2> QED BY <2>1 DEF Fopen
<1> HIDE DEF e
<1> SUFFICES ASSUME NEW k \in FileID PROVE InTurn(k)'
  OBVIOUS
<1>3. CASE k = id
  <2>1. disk'[k] = e /\ count'[k] = c /\ file'[k] = ok
    BY <1>1, <1>3 DEF FilesInv, FilesTypeOK
  <2> QED BY <1>2, <2>1 DEF InTurn
<1>4. CASE k # id
  <2>1. disk'[k] = disk[k] /\ count'[k] = count[k] /\ file'[k] = file[k]
    BY <1>1, <1>4 DEF FilesInv, FilesTypeOK
  <2> QED BY <2>1 DEF InTurn
<1> QED BY <1>3, <1>4

(* OpenFile goes on to the next number, or not at all.                     *)
LEMMA OpenFileInTurn ==
  ASSUME FilesInv, NEW id \in FileID, NEW ok \in BOOLEAN, OpenFile(id, ok),
         \A k \in FileID : InTurn(k)
  PROVE  \A k \in FileID : InTurn(k)'
<1>1. /\ disk[id] \in Seq(DiskFile) /\ count[id] \in Nat /\ count[id] <= Len(disk[id])
      /\ count \in [FileID -> Nat] /\ Len(disk[id]) \in Nat
  BY ObjectType DEF FilesInv, FilesTypeOK
<1>2. CASE OpenFirst(id, ok)
  <2>1. Len(disk[id]) = count[id]
    BY <1>1, <1>2 DEF OpenFirst, InTurn
  <2>2. count' = [count EXCEPT ![id] = count[id]]
    BY <1>1, <1>2 DEF OpenFirst
  <2> QED BY <1>1, <1>2, <2>1, <2>2, NewFileInTurn DEF OpenFirst
<1>3. CASE KeepOpen(id, ok)
  BY <1>3 DEF KeepOpen, fileVars, InTurn
<1>4. CASE RollOver(id, ok)
  <2>1. PICK sealed \in {TRUE, ~ ChmodMayFail} :
          NewFile(id, SetReadOnly(disk[id], count[id], sealed), count[id] + 1, ok)
    BY <1>4 DEF RollOver
  <2>2. count' = [count EXCEPT ![id] = count[id] + 1] /\ file[id]
    BY <1>4 DEF RollOver
  <2>3. sealed \in BOOLEAN
    BY OutFileAssumption
  <2>4. count[id] + 1 \in DOMAIN disk[id] /\ count[id] + 1 \in Nat
    BY <1>1, <2>2, ObjectType
  <2> DEFINE d == SetReadOnly(disk[id], count[id], sealed)
  <2>5. d \in Seq(DiskFile) /\ Len(d) = Len(disk[id])
    BY <1>1, <2>3, <2>4, SetReadOnlyType
  <2> HIDE DEF d
  <2>6. Len(d) = count[id] + 1
    BY <1>1, <2>2, <2>4, <2>5 DEF InTurn
  <2>7. NewFile(id, d, count[id] + 1, ok)
    BY <2>1 DEF d
  <2> QED BY <2>2, <2>4, <2>5, <2>6, <2>7, NewFileInTurn
<1> QED BY <1>2, <1>3, <1>4 DEF OpenFile

(* Write and CloseFile leave as many files.                                *)
LEMMA WriteInTurn ==
  ASSUME FilesInv, NEW id \in FileID, NEW kind \in ChunkKind,
         NEW ws \in Seq(Nat), NEW size \in Nat, Write(id, kind, ws, size),
         NEW k \in FileID
  PROVE  Len(disk'[k]) = Len(disk[k]) /\ file' = file /\ count' = count
<1>1. CASE ~ file[id]
  BY <1>1 DEF Write
<1>2. CASE file[id]
  <2>1. PICK n \in Fwritten(size) :
          WriteChunk(id, [kind |-> kind, words |-> ws, size |-> n])
    BY <1>2 DEF Write, Fwritten
  <2> DEFINE chunk == [kind |-> kind, words |-> ws, size |-> n]
  <2>2. chunk \in Chunk
    BY DEF Chunk, Fwritten
  <2>3. disk[id] \in Seq(DiskFile) /\ count[id] \in Nat /\ count[id] + 1 \in DOMAIN disk[id]
    BY <1>2, ObjectType
  <2>4. Len(Extend(disk[id], count[id], chunk)) = Len(disk[id])
    BY <2>2, <2>3, ExtendType
  <2>5. Len(Written(id, chunk)) = Len(disk[id])
    BY <2>4 DEF Written
  <2>6. disk' = [disk EXCEPT ![id] = Written(id, chunk)]
    BY <2>1 DEF WriteChunk
  <2> HIDE DEF chunk
  <2>7. Len(disk'[k]) = Len(disk[k])
    BY <2>5, <2>6 DEF FilesInv, FilesTypeOK
  <2> QED BY <2>7 DEF Write
<1> QED BY <1>1, <1>2

(* (See WriteInTurn.)                                                      *)
LEMMA CloseFileInTurn ==
  ASSUME FilesInv, NEW id \in FileID, CloseFile(id), NEW k \in FileID
  PROVE  Len(disk'[k]) = Len(disk[k]) /\ count' = count
<1>1. PICK sealed \in {TRUE, ~ ChmodMayFail} :
        disk' = [disk EXCEPT ![id] = SetReadOnly(disk[id], count[id], sealed)]
  BY DEF CloseFile
<1>2. sealed \in BOOLEAN
  BY OutFileAssumption
<1>3. disk[id] \in Seq(DiskFile) /\ count[id] \in Nat /\ count[id] + 1 \in DOMAIN disk[id]
  BY ObjectType DEF CloseFile
<1>4. Len(SetReadOnly(disk[id], count[id], sealed)) = Len(disk[id])
  BY <1>2, <1>3, SetReadOnlyType
<1> QED BY <1>1, <1>4 DEF FilesInv, FilesTypeOK, CloseFile

(* The first process stays in turn.                                        *)
LEMMA NextNewest == ASSUME ReceiverInv, NewestInv, [Next]_vars PROVE NewestInv'
<1> SUFFICES ASSUME starts' = 1, pc' # "dead"
             PROVE  \A id \in FileID : \/ InTurn(id)'
                                       \/ /\ pc' \in {"closing", "ended"}
                                          /\ Len(disk'[id]) <= count'[id] + 1
  BY DEF NewestInv, InTurn
<1>1. FilesInv /\ event.file \in FileID /\ starts \in Nat \ {0}
  BY OutFileAssumption DEF ReceiverInv, TypeOK, FilesInv, FilesTypeOK, Event
<1>2. CASE Still
  <2>1. pc # "dead"
    BY <1>1, <1>2, NextCalls DEF Still, Die, fileVars
  <2> QED BY <1>2, <2>1 DEF Still, fileVars, InTurn, NewestInv
<1>3. ASSUME NEW ok \in BOOLEAN, OpenEventFile(ok) PROVE \A id \in FileID : InTurn(id)'
  <2>1. pc = "open" /\ OpenFile(event.file, ok) /\ starts' = starts
    BY <1>3 DEF OpenEventFile, OpenFile, OpenFirst, KeepOpen, RollOver, fileVars
  <2>2. \A id \in FileID : InTurn(id)
    BY <2>1 DEF NewestInv
  <2> QED BY <1>1, <2>1, <2>2, OpenFileInTurn
<1>4. CASE WriteGEB \/ WriteBody \/ WriteTrig
  <2>1. pc \in {"geb", "write"} /\ starts' = starts
    BY <1>4 DEF WriteGEB, WriteBody, WriteTrig, Write
  <2>2. PICK id \in FileID, kind \in ChunkKind, ws \in Seq(Nat), size \in Nat :
          Write(id, kind, ws, size)
    BY <1>4, WriteStepCalls
  <2> QED BY <1>1, <2>1, <2>2, WriteInTurn DEF NewestInv, InTurn
<1>5. CASE CloseOne
  <2>1. pc = "closing" /\ pc' = "closing" /\ starts' = starts
    BY <1>5 DEF CloseOne, CloseFile, getVars
  <2>2. \A id \in FileID : Len(disk[id]) <= count[id] + 1
    BY <1>1, <2>1, ObjectType DEF NewestInv, InTurn
  <2> QED BY <1>1, <1>5, <2>1, <2>2, CloseFileInTurn DEF CloseOne
<1>6. CASE Die \/ Restart
  BY <1>1, <1>6 DEF Die, Restart
<1> QED BY <1>2, <1>3, <1>4, <1>5, <1>6, Steps

(* The files of a channel are written in order if chmod works, or if the   *)
(* run has one process only.                                               *)
Orderly == ~ ChmodMayFail \/ MaxStarts = 1

(* Then only the newest is open.                                           *)
LEMMA OrderlyOnNewest ==
  ASSUME ReceiverInv, SplitInv, NewestInv, Orderly PROVE OnNewest
<1> SUFFICES ASSUME pc # "dead", NEW id \in FileID, file[id]
             PROVE  count[id] + 1 = Len(disk[id])
  BY DEF OnNewest
<1>1. FilesInv /\ starts \in 1 .. MaxStarts
  BY DEF ReceiverInv, TypeOK, FilesInv, FilesTypeOK
<1>2. /\ disk[id] \in Seq(DiskFile) /\ count[id] \in Nat
      /\ count[id] + 1 \in DOMAIN disk[id]
  BY <1>1, ObjectType
<1>3. CASE ~ ChmodMayFail
  BY <1>1, <1>3, OpenIsNewest
<1>4. CASE MaxStarts = 1
  <2>1. Len(disk[id]) <= count[id] + 1
    BY <1>1, <1>2, <1>4 DEF NewestInv, InTurn
  <2> QED BY <1>2, <2>1
<1> QED BY <1>3, <1>4 DEF Orderly

-----------------------------------------------------------------------------
(* What is still to be decoded or received is newer than all that is       *)
(* recorded, and in order, wherever replies are cut.                       *)

(* The words of data that are still to be decoded.                         *)
Live ==
  IF pc = "body" THEN 1 .. got
  ELSE IF pc \in {"decode", "open", "geb", "write"} THEN index + 1 .. words
  ELSE {}

IsWord(x) == x.kind = "word"

WireFresh ==
  \A k \in DOMAIN wire :
    IsWord(wire[k]) =>
      /\ wire[k].val > 0 /\ wire[k].val <= sent
      /\ \A j \in DOMAIN wire : j < k /\ IsWord(wire[j]) => wire[j].val < wire[k].val
      /\ \A j \in Live : data[j] # 0 => data[j] < wire[k].val

LiveFresh ==
  \A k \in Live :
    /\ data[k] <= sent
    /\ \A j \in Live : j < k /\ data[j] # 0 /\ data[k] # 0 => data[j] < data[k]

(* p is older than all that is to come.                                    *)
Older(p) ==
  /\ p <= sent
  /\ \A k \in DOMAIN wire : IsWord(wire[k]) => p < wire[k].val
  /\ \A k \in Live : data[k] # 0 => p < data[k]

LogOlder == \A id \in FileID : \A i \in DOMAIN Log[id] : Older(Log[id][i])

EventKnown ==
  /\ pc \in {"open", "geb", "write"} =>
       /\ data[index + 1] # 0
       /\ event.kind = "body" => index + event.len <= words
  /\ event.kind = "trig" => event.file = TrigFile

FreshInv == WireFresh /\ LiveFresh /\ LogOlder /\ EventKnown

(* A step that reads words, drops some or decodes past some keeps this.    *)
Reads ==
  /\ sent' = sent
  /\ \E m \in Nat : \A k \in DOMAIN wire' : k + m \in DOMAIN wire /\ wire'[k] = wire[k + m]
  /\ \A k \in Live' : k \in Live /\ data'[k] = data[k]

(* (See Reads.)                                                            *)
LEMMA ReadsWires ==
  ASSUME ReceiverInv, ReceiverInv', WireFresh, LiveFresh, Reads
  PROVE  WireFresh' /\ LiveFresh'
<1>1. PICK m \in Nat : \A k \in DOMAIN wire' : k + m \in DOMAIN wire /\ wire'[k] = wire[k + m]
  BY DEF Reads
<1>2. wire \in Seq(Item) /\ wire' \in Seq(Item)
  BY DEF ReceiverInv, TypeOK
<1>3. sent' = sent /\ \A k \in Live' : k \in Live /\ data'[k] = data[k]
  BY DEF Reads
<1>4. WireFresh'
  <2> SUFFICES ASSUME NEW k \in DOMAIN wire', IsWord(wire'[k])
               PROVE  /\ wire'[k].val > 0 /\ wire'[k].val <= sent'
                      /\ \A j \in DOMAIN wire' :
                           j < k /\ IsWord(wire'[j]) => wire'[j].val < wire'[k].val
                      /\ \A j \in Live' : data'[j] # 0 => data'[j] < wire'[k].val
    BY DEF WireFresh
  <2>1. k + m \in DOMAIN wire /\ wire'[k] = wire[k + m]
    BY <1>1
  <2>2. /\ wire[k + m].val > 0 /\ wire[k + m].val <= sent
        /\ \A j \in DOMAIN wire : j < k + m /\ IsWord(wire[j]) => wire[j].val < wire[k + m].val
        /\ \A j \in Live : data[j] # 0 => data[j] < wire[k + m].val
    BY <2>1 DEF WireFresh
  <2>3. ASSUME NEW j \in DOMAIN wire', j < k, IsWord(wire'[j])
        PROVE  wire'[j].val < wire'[k].val
    <3>1. j + m \in DOMAIN wire /\ wire'[j] = wire[j + m] /\ j + m < k + m
      BY <1>1, <1>2, <2>3
    <3> QED BY <2>1, <2>2, <2>3, <3>1
  <2> QED BY <1>3, <2>1, <2>2, <2>3
<1>5. LiveFresh'
  BY <1>3 DEF LiveFresh
<1> QED BY <1>4, <1>5

(* (See Reads.)                                                            *)
LEMMA ReadsFresh ==
  ASSUME ReceiverInv, ReceiverInv', WireFresh, LiveFresh, LogOlder, Reads, Log' = Log
  PROVE  WireFresh' /\ LiveFresh' /\ LogOlder'
<1>1. PICK m \in Nat : \A k \in DOMAIN wire' : k + m \in DOMAIN wire /\ wire'[k] = wire[k + m]
  BY DEF Reads
<1>3. sent' = sent /\ \A k \in Live' : k \in Live /\ data'[k] = data[k]
  BY DEF Reads
<1>6. LogOlder'
  <2> SUFFICES ASSUME NEW id \in FileID, NEW i \in DOMAIN Log[id]
               PROVE  /\ Log[id][i] <= sent'
                      /\ \A k \in DOMAIN wire' : IsWord(wire'[k]) => Log[id][i] < wire'[k].val
                      /\ \A k \in Live' : data'[k] # 0 => Log[id][i] < data'[k]
    BY DEF LogOlder, Older
  <2> HIDE DEF Log
  <2>1. Older(Log[id][i])
    BY DEF LogOlder
  <2> QED BY <1>1, <1>3, <2>1 DEF Older
<1> QED BY <1>6, ReadsWires

(* The elements of a concatenation.                                        *)
LEMMA Concat ==
  ASSUME NEW S, NEW s \in Seq(S), NEW t \in Seq(S),
         NEW m \in Nat, NEW n \in Nat, Len(s) = m, Len(t) = n
  PROVE  /\ s \o t \in Seq(S) /\ Len(s \o t) = m + n
         /\ \A k \in 1 .. m + n : (s \o t)[k] = IF k <= m THEN s[k] ELSE t[k - m]
<1>1. s \o t \in Seq(S)
  BY ConcatProperties
<1>2. Len(s \o t) = m + n
  BY ConcatProperties
<1>3. \A k \in 1 .. m + n : (s \o t)[k] = IF k <= m THEN s[k] ELSE t[k - m]
  BY ConcatProperties
<1> QED BY <1>1, <1>2, <1>3

(* The server sends newer words.                                           *)
LEMMA ServerFresh ==
  ASSUME ReceiverInv, WireFresh, LiveFresh, LogOlder, NEW type \in Nat, NEW n \in Nat,
         ServerReply(type, n), FileStep
  PROVE  WireFresh' /\ LiveFresh' /\ LogOlder'
<1> DEFINE ws == [k \in 1 .. n |-> [kind |-> "word", val |-> sent + k]]
           h == Header(type, n)
<1>1. wire \in Seq(Item) /\ sent \in Nat
  BY DEF ReceiverInv, TypeOK
<1>a. PICK m \in Nat : m = Len(wire)
  BY <1>1
<1>f. PICK f \in Nat : f = 4
  OBVIOUS
<1>b. h \in Seq(Item) /\ Len(h) = f
  <2>1. h \in Seq(Item)
    BY HeaderType
  <2>2. Len(h) = 4
    BY DEF Header
  <2> QED BY <1>f, <2>1, <2>2
<1>c. ws \in Seq(Item) /\ Len(ws) = n
  <2>1. ws \in [1 .. n -> Item]
    BY <1>1 DEF Item
  <2> QED BY <2>1
<1>2. \A k \in 1 .. 4 : ~ IsWord(h[k])
  BY DEF Header, Field, IsWord
<1>3. \A k \in 1 .. n : IsWord(ws[k]) /\ ws[k].val = sent + k
  BY DEF IsWord
<1>4. /\ wire' = (wire \o h) \o ws /\ sent' = sent + n
      /\ UNCHANGED <<pc, words, got, index, stream, data, disk>>
  BY Zenon DEF ServerReply, FileStep, fileVars
<1> HIDE DEF ws, h
<1>5. /\ DOMAIN wire' = 1 .. m + 4 + n
      /\ \A k \in 1 .. m : wire'[k] = wire[k]
      /\ \A k \in m + 1 .. m + 4 : wire'[k] = h[k - m]
      /\ \A k \in m + 5 .. m + 4 + n : wire'[k] = ws[k - m - 4]
  <2> DEFINE wh == wire \o h
  <2>0. m + f \in Nat /\ Len(wire) = m
    BY <1>a
  <2>1. wh \in Seq(Item) /\ Len(wh) = m + f
    BY <1>1, <1>b, <2>0, Concat
  <2>4. \A k \in 1 .. m + f : wh[k] = IF k <= m THEN wire[k] ELSE h[k - m]
    <3>1. ASSUME NEW x \in Seq(Item), NEW y \in Seq(Item), Len(x) = m, Len(y) = f
          PROVE  \A k \in 1 .. m + f : (x \o y)[k] = IF k <= m THEN x[k] ELSE y[k - m]
      BY <3>1, ConcatProperties
    <3>2. wire \in Seq(Item) /\ h \in Seq(Item) /\ Len(wire) = m /\ Len(h) = f
      BY <1>1, <1>b, <2>0
    <3> QED BY <3>1, <3>2, Zenon
  <2> HIDE DEF wh
  <2>a. wire' = wh \o ws
    BY <1>4 DEF wh
  <2>2. wire' \in Seq(Item) /\ Len(wire') = m + f + n
    BY <1>c, <2>0, <2>1, <2>a, Concat
  <2>3. \A k \in 1 .. m + f + n :
          wire'[k] = IF k <= m + f THEN wh[k] ELSE ws[k - (m + f)]
    <3>1. ASSUME NEW l \in Nat, NEW x \in Seq(Item), NEW y \in Seq(Item),
                 Len(x) = l, Len(y) = n
          PROVE  \A k \in 1 .. l + n : (x \o y)[k] = IF k <= l THEN x[k] ELSE y[k - l]
      BY <3>1, ConcatProperties
    <3> QED BY <1>c, <2>0, <2>1, <2>a, <3>1, Zenon
  <2>5. ASSUME NEW k \in 1 .. m PROVE wire'[k] = wire[k]
    BY <1>f, <2>3, <2>4
  <2>6. ASSUME NEW k \in m + 1 .. m + 4 PROVE wire'[k] = h[k - m]
    BY <1>f, <2>3, <2>4
  <2>7. ASSUME NEW k \in m + 5 .. m + 4 + n PROVE wire'[k] = ws[k - m - 4]
    <3>1. k - (m + 4) = k - m - 4
      OBVIOUS
    <3> QED BY <1>f, <2>3, <3>1
  <2>8. DOMAIN wire' = 1 .. m + 4 + n
    BY <1>f, <2>2
  <2> QED BY <2>5, <2>6, <2>7, <2>8
<1>d. DOMAIN wire = 1 .. m
  BY <1>1, <1>a
<1>6. ASSUME NEW k \in DOMAIN wire', IsWord(wire'[k])
      PROVE  \/ k \in DOMAIN wire /\ wire'[k] = wire[k] /\ IsWord(wire[k])
             \/ k > m + 4 /\ wire'[k].val = sent + (k - m - 4)
  <2>0. k \in 1 .. m + 4 + n
    BY <1>5
  <2>1. CASE k <= m
    BY <1>d, <1>5, <1>6, <2>0, <2>1
  <2>2. CASE k > m /\ k <= m + 4
    <3>1. k - m \in 1 .. 4 /\ wire'[k] = h[k - m]
      BY <1>5, <2>0, <2>2
    <3> QED BY <1>2, <1>6, <3>1
  <2>3. CASE k > m + 4
    <3>1. k - m - 4 \in 1 .. n /\ wire'[k] = ws[k - m - 4]
      BY <1>5, <2>0, <2>3
    <3> QED BY <1>3, <2>3, <3>1
  <2> QED BY <2>0, <2>1, <2>2, <2>3
<1>7. Live' = Live /\ data' = data
  BY <1>4 DEF Live
<1>8. Log' = Log
  BY <1>4, LogSame
<1>9. \A j \in Live : data[j] \in Nat
  <2>1. got \in Nat /\ words \in Nat /\ index \in Nat /\ data \in Seq(Nat)
    BY DEF ReceiverInv, TypeOK
  <2>2. \A j \in Live : j \in DOMAIN data
    BY <2>1 DEF Live, ReceiverInv, BufferFits
  <2> QED BY <2>1, <2>2
<1>10. ASSUME NEW k \in DOMAIN wire PROVE wire[k].val \in Nat
  <2>1. wire[k] \in Item
    BY <1>1
  <2> QED BY <2>1 DEF Item
<1>e. ASSUME NEW k \in DOMAIN wire', IsWord(wire'[k])
      PROVE  wire'[k].val \in Nat /\ wire'[k].val > 0 /\ wire'[k].val <= sent + n
  <2>0. k \in 1 .. m + 4 + n
    BY <1>5
  <2>1. CASE k \in DOMAIN wire /\ wire'[k] = wire[k] /\ IsWord(wire[k])
    <3>1. wire[k].val > 0 /\ wire[k].val <= sent /\ wire[k].val \in Nat
      BY <1>10, <2>1 DEF WireFresh
    <3> QED BY <1>1, <2>1, <3>1
  <2>2. CASE k > m + 4 /\ wire'[k].val = sent + (k - m - 4)
    BY <1>1, <2>0, <2>2
  <2> QED BY <1>6, <1>e, <2>1, <2>2
<1>11. WireFresh'
  <2> SUFFICES ASSUME NEW k \in DOMAIN wire', IsWord(wire'[k])
               PROVE  /\ wire'[k].val > 0 /\ wire'[k].val <= sent'
                      /\ \A j \in DOMAIN wire' :
                           j < k /\ IsWord(wire'[j]) => wire'[j].val < wire'[k].val
                      /\ \A j \in Live' : data'[j] # 0 => data'[j] < wire'[k].val
    BY DEF WireFresh
  <2>0. k \in 1 .. m + 4 + n
    BY <1>5
  <2>a. wire'[k].val > 0 /\ wire'[k].val <= sent'
    BY <1>4, <1>e
  <2>1. CASE k \in DOMAIN wire /\ wire'[k] = wire[k] /\ IsWord(wire[k])
    <3>1. /\ \A j \in DOMAIN wire : j < k /\ IsWord(wire[j]) => wire[j].val < wire[k].val
          /\ \A j \in Live : data[j] # 0 => data[j] < wire[k].val
      BY <2>1 DEF WireFresh
    <3>2. ASSUME NEW j \in DOMAIN wire', j < k, IsWord(wire'[j])
          PROVE  wire'[j].val < wire'[k].val
      <4>1. j \in DOMAIN wire /\ wire'[j] = wire[j]
        BY <1>d, <1>5, <2>1, <3>2
      <4> QED BY <2>1, <3>1, <3>2, <4>1
    <3>3. \A j \in Live' : data'[j] # 0 => data'[j] < wire'[k].val
      BY <1>7, <2>1, <3>1
    <3> QED BY <2>a, <3>2, <3>3
  <2>2. CASE k > m + 4 /\ wire'[k].val = sent + (k - m - 4)
    <3>1. ASSUME NEW j \in DOMAIN wire', j < k, IsWord(wire'[j])
          PROVE  wire'[j].val < wire'[k].val
      <4>0. j \in 1 .. m + 4 + n
        BY <1>5
      <4>1. CASE j \in DOMAIN wire /\ wire'[j] = wire[j] /\ IsWord(wire[j])
        <5>1. wire[j].val <= sent /\ wire[j].val \in Nat
          BY <4>1, <1>10 DEF WireFresh
        <5> QED BY <1>1, <2>0, <2>2, <4>1, <5>1
      <4>2. CASE j > m + 4 /\ wire'[j].val = sent + (j - m - 4)
        BY <1>1, <2>0, <2>2, <3>1, <4>0, <4>2
      <4> QED BY <1>6, <3>1, <4>1, <4>2
    <3>2. ASSUME NEW j \in Live', data'[j] # 0 PROVE data'[j] < wire'[k].val
      <4>1. data[j] <= sent /\ data[j] \in Nat /\ data'[j] = data[j]
        BY <1>7, <1>9 DEF LiveFresh
      <4> QED BY <1>1, <2>0, <2>2, <4>1
    <3> QED BY <2>a, <3>1, <3>2
  <2> QED BY <1>6, <2>1, <2>2
<1>12. LiveFresh'
  <2> SUFFICES ASSUME NEW k \in Live
               PROVE  /\ data[k] <= sent + n
                      /\ \A j \in Live : j < k /\ data[j] # 0 /\ data[k] # 0 => data[j] < data[k]
    BY <1>4, <1>7 DEF LiveFresh
  <2>1. data[k] <= sent /\ data[k] \in Nat
    BY <1>9 DEF LiveFresh
  <2> QED BY <1>1, <2>1 DEF LiveFresh
<1>13. LogOlder'
  <2> SUFFICES ASSUME NEW id \in FileID, NEW i \in DOMAIN Log[id]
               PROVE  /\ Log[id][i] <= sent'
                      /\ \A k \in DOMAIN wire' : IsWord(wire'[k]) => Log[id][i] < wire'[k].val
                      /\ \A k \in Live' : data'[k] # 0 => Log[id][i] < data'[k]
    BY <1>8 DEF LogOlder, Older
  <2>1. Log[id][i] \in Nat
    BY LogNat
  <2> HIDE DEF Log
  <2>2. Older(Log[id][i])
    BY DEF LogOlder
  <2>3. ASSUME NEW k \in DOMAIN wire', IsWord(wire'[k]) PROVE Log[id][i] < wire'[k].val
    <3>1. CASE k \in DOMAIN wire /\ wire'[k] = wire[k] /\ IsWord(wire[k])
      BY <2>2, <3>1 DEF Older
    <3>2. CASE k > m + 4 /\ wire'[k].val = sent + (k - m - 4)
      <4>1. k \in 1 .. m + 4 + n
        BY <1>5
      <4>2. Log[id][i] <= sent
        BY <2>2 DEF Older
      <4> QED BY <1>1, <2>1, <4>2, <3>2, <4>1
    <3> QED BY <1>6, <2>3, <3>1, <3>2
  <2>4. Log[id][i] <= sent'
    BY <1>1, <1>4, <2>1, <2>2 DEF Older
  <2>5. \A k \in Live' : data'[k] # 0 => Log[id][i] < data'[k]
    BY <1>7, <2>2 DEF Older
  <2> QED BY <2>3, <2>4, <2>5
<1> QED BY <1>11, <1>12, <1>13

(* The receiver moves words from the wire to data.                         *)
LEMMA BodyFresh ==
  ASSUME ReceiverInv, WireFresh, LiveFresh, LogOlder, NEW n \in 1 .. Len(wire),
         RecvBody(n), FileStep
  PROVE  WireFresh' /\ LiveFresh' /\ LogOlder'
<1>1. /\ wire \in Seq(Item) /\ got \in Nat /\ words \in Nat /\ data \in Seq(Nat)
      /\ pc = "body" /\ got <= words /\ words <= Len(data) /\ sent \in Nat
  BY DEF ReceiverInv, TypeOK, BufferFits, RecvBody
<1>2. /\ n <= words - got /\ got' = got + n /\ words' = words /\ sent' = sent
      /\ wire' = SubSeq(wire, n + 1, Len(wire))
      /\ data' = StoreAt(got, [k \in 1 .. n |-> AsData(wire[k])])
      /\ pc' = "body" \/ (pc' = "decode" /\ index' = 0 /\ ~ (got' < words))
      /\ UNCHANGED <<stream, disk>>
  BY <1>1 DEF RecvBody, FileStep, fileVars
<1>3. PICK m \in Nat : m = Len(wire) /\ DOMAIN wire = 1 .. m /\ n \in 1 .. m
  BY <1>1
<1>4. /\ DOMAIN wire' = 1 .. m - n
      /\ \A k \in 1 .. m - n : wire'[k] = wire[k + n]
  <2> DEFINE rest == SubSeq(wire, n + 1, m)
  <2>1. DOMAIN rest = 1 .. m - n
    BY <1>1, <1>3
  <2>2. \A k \in 1 .. m - n : rest[k] = wire[k + n]
    BY <1>1, <1>3
  <2>3. wire' = rest
    BY <1>2, <1>3
  <2> HIDE DEF rest
  <2> QED BY <2>1, <2>2, <2>3
<1>5. Live = 1 .. got /\ Live' = 1 .. got + n
  <2>1. Live = 1 .. got
    BY <1>1 DEF Live
  <2>2. CASE pc' = "body"
    BY <1>2, <2>1, <2>2 DEF Live
  <2>3. CASE pc' = "decode" /\ index' = 0 /\ ~ (got' < words)
    <3>1. words = got + n /\ 0 + 1 = 1
      BY <1>1, <1>2, <1>3, <2>3
    <3>2. Live' = index' + 1 .. words'
      BY <2>3 DEF Live
    <3> QED BY <1>2, <2>1, <2>3, <3>1, <3>2
  <2> QED BY <1>2, <2>2, <2>3
<1>6. ASSUME NEW k \in DOMAIN wire PROVE wire[k].val \in Nat
  <2>1. wire[k] \in Item
    BY <1>1
  <2> QED BY <2>1 DEF Item
<1>7. \A k \in 1 .. got : data'[k] = data[k] /\ data[k] \in Nat
  <2> SUFFICES ASSUME NEW k \in 1 .. got PROVE data'[k] = data[k] /\ data[k] \in Nat
    OBVIOUS
  <2>1. k \in DOMAIN data /\ k - got \notin 1 .. n
    BY <1>1
  <2> QED BY <1>1, <1>2, <2>1 DEF StoreAt
<1>8. ASSUME NEW k \in Live', k > got, data'[k] # 0
      PROVE  /\ k - got \in 1 .. n /\ k - got \in DOMAIN wire
             /\ IsWord(wire[k - got]) /\ data'[k] = wire[k - got].val
  <2>1. k \in DOMAIN data /\ k - got \in 1 .. n
    BY <1>1, <1>2, <1>3, <1>5, <1>8
  <2>2. data'[k] = AsData(wire[k - got])
    BY <1>2, <2>1 DEF StoreAt
  <2>3. IsWord(wire[k - got]) /\ data'[k] = wire[k - got].val
    BY <1>8, <2>2 DEF AsData, IsWord
  <2> QED BY <1>3, <2>1, <2>3
<1>9. ASSUME NEW k \in Live', data'[k] # 0
      PROVE  \/ k \in Live /\ k <= got /\ data'[k] = data[k] /\ data[k] \in Nat
             \/ /\ k > got /\ k - got \in 1 .. n /\ k - got \in DOMAIN wire
                /\ IsWord(wire[k - got]) /\ data'[k] = wire[k - got].val
  <2>1. k \in 1 .. got + n
    BY <1>5
  <2>2. CASE k <= got
    <3>1. k \in 1 .. got
      BY <2>1, <2>2
    <3> QED BY <1>5, <1>7, <2>2, <3>1
  <2>3. CASE k > got
    BY <1>8, <1>9, <2>3
  <2> QED BY <1>1, <2>1, <2>2, <2>3
<1>10. WireFresh'
  <2> SUFFICES ASSUME NEW k \in 1 .. m - n, IsWord(wire[k + n])
               PROVE  /\ wire[k + n].val > 0 /\ wire[k + n].val <= sent
                      /\ \A j \in 1 .. m - n :
                           j < k /\ IsWord(wire[j + n]) => wire[j + n].val < wire[k + n].val
                      /\ \A j \in Live' : data'[j] # 0 => data'[j] < wire[k + n].val
    BY <1>2, <1>4 DEF WireFresh
  <2>0. k + n \in DOMAIN wire
    BY <1>3
  <2>1. /\ wire[k + n].val > 0 /\ wire[k + n].val <= sent
        /\ \A j \in DOMAIN wire : j < k + n /\ IsWord(wire[j]) => wire[j].val < wire[k + n].val
        /\ \A j \in Live : data[j] # 0 => data[j] < wire[k + n].val
    BY <2>0 DEF WireFresh
  <2>2. ASSUME NEW j \in 1 .. m - n, j < k, IsWord(wire[j + n])
        PROVE  wire[j + n].val < wire[k + n].val
    <3>1. j + n \in DOMAIN wire /\ j + n < k + n
      BY <1>3, <2>2
    <3> QED BY <2>1, <2>2, <3>1
  <2>3. ASSUME NEW j \in Live', data'[j] # 0 PROVE data'[j] < wire[k + n].val
    <3>1. CASE j \in Live /\ j <= got /\ data'[j] = data[j]
      BY <2>1, <2>3, <3>1
    <3>2. CASE /\ j > got /\ j - got \in 1 .. n /\ j - got \in DOMAIN wire
               /\ IsWord(wire[j - got]) /\ data'[j] = wire[j - got].val
      <4>1. j - got < k + n
        BY <3>2
      <4> QED BY <2>1, <3>2, <4>1
    <3> QED BY <1>9, <2>3, <3>1, <3>2
  <2> QED BY <2>1, <2>2, <2>3
<1>11. LiveFresh'
  <2> SUFFICES ASSUME NEW k \in Live'
               PROVE  /\ data'[k] <= sent
                      /\ \A j \in Live' :
                           j < k /\ data'[j] # 0 /\ data'[k] # 0 => data'[j] < data'[k]
    BY <1>2 DEF LiveFresh
  <2>1. CASE data'[k] = 0
    BY <1>1, <2>1
  <2>2. CASE data'[k] # 0 /\ k \in Live /\ k <= got /\ data'[k] = data[k]
    <3>1. /\ data[k] <= sent
          /\ \A j \in Live : j < k /\ data[j] # 0 /\ data[k] # 0 => data[j] < data[k]
      BY <2>2 DEF LiveFresh
    <3>2. ASSUME NEW j \in Live', j < k, data'[j] # 0 PROVE data'[j] < data'[k]
      <4>1. j \in 1 .. got /\ j \in Live
        BY <1>1, <1>5, <2>2, <3>2
      <4>2. data'[j] = data[j]
        BY <1>7, <4>1
      <4> QED BY <2>2, <3>1, <3>2, <4>1, <4>2
    <3> QED BY <2>2, <3>1, <3>2
  <2>3. CASE data'[k] # 0 /\ k > got /\ k - got \in 1 .. n /\ k - got \in DOMAIN wire
               /\ IsWord(wire[k - got]) /\ data'[k] = wire[k - got].val
    <3>1. /\ wire[k - got].val <= sent
          /\ \A j \in DOMAIN wire :
               j < k - got /\ IsWord(wire[j]) => wire[j].val < wire[k - got].val
          /\ \A j \in Live : data[j] # 0 => data[j] < wire[k - got].val
      BY <2>3 DEF WireFresh
    <3>2. ASSUME NEW j \in Live', j < k, data'[j] # 0 PROVE data'[j] < data'[k]
      <4>1. CASE j \in Live /\ j <= got /\ data'[j] = data[j]
        BY <2>3, <3>1, <3>2, <4>1
      <4>2. CASE /\ j > got /\ j - got \in 1 .. n /\ j - got \in DOMAIN wire
                 /\ IsWord(wire[j - got]) /\ data'[j] = wire[j - got].val
        <5>1. j - got < k - got
          BY <1>1, <1>5, <3>2
        <5> QED BY <2>3, <3>1, <4>2, <5>1
      <4> QED BY <1>9, <3>2, <4>1, <4>2
    <3> QED BY <2>3, <3>1, <3>2
  <2> QED BY <1>9, <2>1, <2>2, <2>3
<1>12. LogOlder'
  <2>0. Log' = Log
    BY <1>2, LogSame
  <2> SUFFICES ASSUME NEW id \in FileID, NEW i \in DOMAIN Log[id]
               PROVE  /\ Log[id][i] <= sent
                      /\ \A k \in 1 .. m - n :
                           IsWord(wire[k + n]) => Log[id][i] < wire[k + n].val
                      /\ \A k \in Live' : data'[k] # 0 => Log[id][i] < data'[k]
    BY <1>2, <1>4, <2>0 DEF LogOlder, Older
  <2> HIDE DEF Log
  <2>1. Older(Log[id][i])
    BY DEF LogOlder
  <2> DEFINE p == Log[id][i]
  <2>2. /\ p <= sent
        /\ \A k \in DOMAIN wire : IsWord(wire[k]) => p < wire[k].val
        /\ \A k \in Live : data[k] # 0 => p < data[k]
    BY <2>1 DEF Older
  <2> HIDE DEF p
  <2>3. ASSUME NEW k \in Live', data'[k] # 0 PROVE p < data'[k]
    BY <1>9, <2>2, <2>3
  <2>4. ASSUME NEW k \in 1 .. m - n, IsWord(wire[k + n]) PROVE p < wire[k + n].val
    <3>1. k + n \in DOMAIN wire
      BY <1>3
    <3> QED BY <2>2, <2>4, <3>1
  <2> QED BY <2>2, <2>3, <2>4 DEF p
<1> QED BY <1>10, <1>11, <1>12

(* The packets of the stream are as long as they say.                      *)
LEMMA EndIs ==
  ASSUME NEW s \in Seq(Word), WellFramed(s), NEW p \in StartsIn(s)
  PROVE  /\ PacketLen(s, p) \in Nat \ {0}
         /\ EndIn(s, p) = p + PacketLen(s, p) - 1
         /\ EndIn(s, p) \in p .. Len(s)
         /\ s[p].mark = "dig" \/ s[p].mark = "trig"
         /\ s[p].mark = "dig" =>
              /\ p + 1 \in DOMAIN s
              /\ s[p + 1].type = "chan" => s[p + 1].len >= 2
         /\ EndIn(s, p) = Len(s) \/ s[EndIn(s, p) + 1].start
<1> DEFINE l == PacketLen(s, p)
           n == p + l - 1
           Is(e) == /\ e = Len(s) \/ s[e + 1].start
                    /\ \A q \in p + 1 .. e : ~ s[q].start
<1>1. p \in DOMAIN s /\ p \in Nat /\ p >= 1 /\ p <= Len(s) /\ s[p].start
  BY DEF StartsIn
<1>2. /\ s[p].mark = "trig"
           \/ /\ s[p].mark = "dig" /\ p < Len(s)
              /\ s[p + 1].type = "chan" => s[p + 1].len >= 2
      /\ p + l = Len(s) + 1 \/ (p + l <= Len(s) /\ s[p + l].start)
      /\ \A q \in p + 1 .. (p + l) - 1 : ~ s[q].start
  <2>1. p \in DOMAIN s /\ s[p].start
    BY <1>1
  <2> HIDE DEF l
  <2>2. \/ s[p].mark = "trig"
        \/ /\ s[p].mark = "dig" /\ p < Len(s)
           /\ s[p + 1].type = "chan" => s[p + 1].len >= 2
    BY <2>1, Zenon DEF WellFramed
  <2>3. p + l = Len(s) + 1 \/ (p + l <= Len(s) /\ s[p + l].start)
    BY <2>1, Zenon DEF WellFramed, l
  <2>4. \A q \in p + 1 .. (p + l) - 1 : ~ s[q].start
    BY <2>1, Zenon DEF WellFramed, l
  <2> QED BY <2>2, <2>3, <2>4
<1>3. s[p].mark = "dig" => p + 1 \in DOMAIN s
  BY <1>1, <1>2
<1>4. l \in Nat \ {0}
  <2>1. CASE s[p].mark = "trig"
    BY <2>1, DataBufferAssumption DEF PacketLen
  <2>2. CASE s[p].mark # "trig"
    <3>1. p + 1 \in DOMAIN s
      BY <1>2, <1>3, <2>2
    <3>2. s[p + 1].len \in Nat
      <4>1. s[p + 1] \in Word
        BY <3>1
      <4> QED BY <4>1 DEF Word
    <3> QED BY <2>2, <3>2, DataBufferAssumption DEF PacketLen
  <2> QED BY <2>1, <2>2
<1> HIDE DEF l
<1>5. n \in p .. Len(s) /\ Is(n)
  <2>0. Len(s) \in Nat
    OBVIOUS
  <2>1. n + 1 = p + l /\ n \in Nat
    BY <1>1, <1>4
  <2>5. n + 1 = Len(s) + 1 \/ n + 1 <= Len(s)
    BY <1>2, <2>1
  <2>2. n \in p .. Len(s)
    <3>1. n >= p /\ p \in Nat
      BY <1>1, <1>4
    <3> HIDE DEF n
    <3>2. n <= Len(s)
      BY <2>0, <2>1, <2>5
    <3> QED BY <2>0, <2>1, <3>1, <3>2
  <2>3. n = Len(s) \/ s[n + 1].start
    <3>1. n + 1 = Len(s) + 1 \/ s[n + 1].start
      BY <1>2, <2>1
    <3> HIDE DEF n
    <3> QED BY <2>0, <2>1, <3>1
  <2>4. \A q \in p + 1 .. n : ~ s[q].start
    <3>1. n = (p + l) - 1
      BY <1>1, <1>4
    <3> QED BY <1>2, <3>1
  <2> QED BY <2>2, <2>3, <2>4
<1>6. ASSUME NEW e \in p .. Len(s), Is(e) PROVE e = n
  <2>1. CASE e < n
    <3>1. e + 1 \in p + 1 .. n /\ e # Len(s)
      BY <1>1, <1>5, <2>1
    <3> QED BY <1>5, <1>6, <3>1
  <2>2. CASE e > n
    <3>1. n + 1 \in p + 1 .. e /\ n # Len(s)
      BY <1>1, <1>5, <2>2
    <3> QED BY <1>5, <1>6, <3>1
  <2> QED BY <1>1, <1>5, <1>6, <2>1, <2>2
<1> HIDE DEF Is, n
<1>7. EndIn(s, p) = CHOOSE e \in p .. Len(s) : Is(e)
  BY DEF EndIn, Is
<1>8. EndIn(s, p) = n
  BY <1>5, <1>6, <1>7
<1>9. n = p + l - 1
  BY DEF n
<1>10. n = Len(s) \/ s[n + 1].start
  BY <1>5 DEF Is
<1> QED BY <1>2, <1>3, <1>4, <1>5, <1>8, <1>9, <1>10 DEF l

(* Whole events with their first word.                                     *)
LEMMA WholeClaim ==
  ASSUME stream \in Streams, NEW chunk, EventIn(stream, chunk) # 0
  PROVE  LET e == EventIn(stream, chunk)
         IN  /\ e \in EventsIn(stream) /\ e \in 1 .. Len(stream)
             /\ chunk.words = PayloadIn(stream, e)
             /\ chunk.kind = "trig" => stream[e].mark = "trig" /\ chunk.words[1] = e
             /\ chunk.kind # "trig" =>
                  /\ stream[e].mark = "dig" /\ chunk.words[1] = e + 1
                  /\ Len(chunk.words) = stream[e + 1].len /\ Len(chunk.words) >= 2
<1> DEFINE e == EventIn(stream, chunk)
<1>1. e \in EventsIn(stream) /\ WholeIn(stream, chunk, e) /\ e = Claim(chunk)
  BY DEF EventIn
<1> HIDE DEF e
<1>2. /\ stream \in Seq(Word) /\ WellFramed(stream)
      /\ e \in StartsIn(stream) /\ e \in 1 .. Len(stream)
  BY <1>1, StreamType, FramingAssumption DEF EventsIn, StartsIn
<1>3. /\ PacketLen(stream, e) \in Nat \ {0}
      /\ EndIn(stream, e) = e + PacketLen(stream, e) - 1
      /\ stream[e].mark = "dig" \/ stream[e].mark = "trig"
      /\ stream[e].mark = "dig" =>
           /\ e + 1 \in DOMAIN stream
           /\ stream[e + 1].type = "chan" => stream[e + 1].len >= 2
  BY <1>2, EndIs
<1>4. chunk.words = PayloadIn(stream, e) /\ e \in EventsIn(stream)
  BY <1>1 DEF WholeIn
<1>5. CASE chunk.kind = "trig"
  <2>1. stream[e].mark = "trig" /\ chunk.words[1] = e
    <3>1. stream[e].mark = "trig"
      BY <1>1, <1>5 DEF WholeIn
    <3> QED BY <1>1, <1>5, <3>1 DEF Claim
  <2> QED BY <1>2, <1>4, <1>5, <2>1 DEF e
<1>6. CASE chunk.kind # "trig"
  <2>1. stream[e].mark = "dig" /\ stream[e + 1].type = "chan"
    <3>1. stream[e].mark # "trig"
      BY <1>1, <1>6 DEF WholeIn
    <3> QED BY <1>4, <3>1 DEF EventsIn
  <2>2. PacketLen(stream, e) = stream[e + 1].len + 1
    BY <2>1 DEF PacketLen
  <2>3. stream[e + 1].len \in Nat /\ stream[e + 1].len >= 2
    <3>1. stream[e + 1] \in Word
      BY <1>2, <1>3, <2>1
    <3> QED BY <1>3, <2>1, <3>1 DEF Word
  <2> DEFINE k == stream[e + 1].len
  <2>4. chunk.words = [i \in 1 .. k |-> e + i]
    <3>1. FirstIn(stream, e) = e + 1 /\ EndIn(stream, e) = e + k
      BY <1>2, <1>3, <2>1, <2>2, <2>3 DEF FirstIn
    <3>2. EndIn(stream, e) - FirstIn(stream, e) + 1 = k
      BY <1>2, <2>3, <3>1
    <3>3. \A i \in 1 .. k : FirstIn(stream, e) + i - 1 = e + i
      BY <1>2, <3>1
    <3> QED BY <1>4, <3>2, <3>3 DEF PayloadIn
  <2> HIDE DEF k
  <2>5. Len(chunk.words) = k /\ chunk.words[1] = e + 1 /\ k >= 2
    BY <2>3, <2>4 DEF k
  <2> QED BY <1>2, <1>4, <1>6, <2>1, <2>5 DEF e, k
<1> QED BY <1>5, <1>6

(* e is newer than all that is recorded.                                   *)
Newest(e) == \A id \in FileID : \A i \in DOMAIN Log[id] : Log[id][i] < e

(* A step records e for id: it is newer than all that is, and older than   *)
(* all that is to come.                                                    *)
Records(id, e) ==
  /\ Log' = [Log EXCEPT ![id] = Append(@, e)]
  /\ e # 0 => Newest(e) /\ Older(e)'

(* One more at the end of a log.                                           *)
LEMMA AppendAt ==
  ASSUME NEW s \in Seq(Nat), NEW e \in Nat, NEW i \in DOMAIN Append(s, e)
  PROVE  \/ i \in DOMAIN s /\ Append(s, e)[i] = s[i]
         \/ i = Len(s) + 1 /\ Append(s, e)[i] = e
OBVIOUS

(* A place behind the first a of b.                                        *)
LEMMA Within ==
  ASSUME NEW a \in Nat, NEW b \in Nat, NEW k \in a + 1 .. b
  PROVE  k \in Nat /\ k >= 1 /\ k > a /\ k <= b
OBVIOUS

(* (See Records.)                                                          *)
LEMMA RecordsFresh ==
  ASSUME ReceiverInv, ReceiverInv', WireFresh, LiveFresh, LogOlder, OnceInOrder, Reads,
         NEW id \in FileID, NEW e \in Nat, Records(id, e)
  PROVE  LogOlder' /\ OnceInOrder'
<1> DEFINE OlderThan(p) ==
             /\ p <= sent'
             /\ \A k \in DOMAIN wire' : IsWord(wire'[k]) => p < wire'[k].val
             /\ \A k \in Live' : data'[k] # 0 => p < data'[k]
<1>1. Log \in [FileID -> Seq(Nat)]
  BY LogNat
<1>2. PICK m \in Nat : \A k \in DOMAIN wire' : k + m \in DOMAIN wire /\ wire'[k] = wire[k + m]
  BY DEF Reads
<1>3. sent' = sent /\ \A k \in Live' : k \in Live /\ data'[k] = data[k]
  BY DEF Reads
<1>4. \A k \in Live' : data'[k] \in Nat
  <2>1. /\ got' \in Nat /\ words' \in Nat /\ index' \in Nat /\ data' \in Seq(Nat)
        /\ pc' = "body" => got' <= words' /\ words' <= Len(data')
        /\ pc' \in {"decode", "open", "geb", "write"} => words' <= Len(data')
    BY DEF ReceiverInv, TypeOK, BufferFits
  <2>2. ASSUME NEW k \in Live' PROVE k \in DOMAIN data'
    <3>1. CASE pc' = "body"
      BY <2>1, <3>1 DEF Live
    <3>2. CASE pc' \in {"decode", "open", "geb", "write"}
      <4>1. k \in index' + 1 .. words'
        BY <3>2 DEF Live
      <4>2. words' <= Len(data')
        BY <2>1, <3>2
      <4>3. k \in Nat /\ k >= 1 /\ k <= words'
        <5>1. index' \in Nat /\ words' \in Nat
          BY <2>1
        <5> QED BY <4>1, <5>1, Within, Zenon
      <4> QED BY <2>1, <4>2, <4>3
    <3> QED BY <3>1, <3>2 DEF Live
  <2> QED BY <2>1, <2>2
<1>5. OlderThan(0)
  <2>1. ASSUME NEW k \in DOMAIN wire', IsWord(wire'[k]) PROVE 0 < wire'[k].val
    <3>1. k + m \in DOMAIN wire /\ wire'[k] = wire[k + m] /\ IsWord(wire[k + m])
      BY <1>2, <2>1
    <3>2. wire[k + m].val > 0 /\ wire[k + m] \in Item
      BY <3>1 DEF WireFresh, ReceiverInv, TypeOK
    <3>3. wire[k + m].val \in Nat
      BY <3>2 DEF Item
    <3> QED BY <3>1, <3>2, <3>3
  <2>2. \A k \in Live' : data'[k] # 0 => 0 < data'[k]
    BY <1>4
  <2>3. 0 <= sent'
    BY DEF ReceiverInv, TypeOK
  <2> QED BY <2>1, <2>2, <2>3
<1>6. OlderThan(e)
  BY <1>5 DEF Records, Older
<1>7. ASSUME NEW p \in Nat, Older(p) PROVE OlderThan(p)
  <2>1. ASSUME NEW k \in DOMAIN wire', IsWord(wire'[k]) PROVE p < wire'[k].val
    <3>1. k + m \in DOMAIN wire /\ wire'[k] = wire[k + m] /\ IsWord(wire[k + m])
      BY <1>2, <2>1
    <3> QED BY <1>7, <3>1 DEF Older
  <2> QED BY <1>3, <1>7, <2>1 DEF Older
<1> HIDE DEF Log
<1>8. Log' = [Log EXCEPT ![id] = Append(Log[id], e)] /\ (e # 0 => Newest(e))
  BY DEF Records
<1>9. \A k \in FileID : Log[k] \in Seq(Nat) /\ Log'[k] = IF k = id THEN Append(Log[id], e) ELSE Log[k]
  BY <1>1, <1>8
<1>10. ASSUME NEW k \in FileID, NEW i \in DOMAIN Log'[k]
       PROVE  \/ i \in DOMAIN Log[k] /\ Log'[k][i] = Log[k][i]
              \/ i = Len(Log[k]) + 1 /\ Log'[k][i] = e
  <2>1. CASE k = id
    <3>1. Log[k] \in Seq(Nat) /\ Log'[k] = Append(Log[k], e)
      BY <1>9, <2>1
    <3> QED BY <3>1, AppendAt
  <2>2. CASE k # id
    BY <1>9, <2>2
  <2> QED BY <2>1, <2>2
<1>11. LogOlder'
  <2> SUFFICES ASSUME NEW k \in FileID, NEW i \in DOMAIN Log'[k] PROVE OlderThan(Log'[k][i])
    BY DEF LogOlder, Older
  <2> HIDE DEF OlderThan
  <2>1. CASE i \in DOMAIN Log[k] /\ Log'[k][i] = Log[k][i]
    <3>1. Older(Log[k][i]) /\ Log[k][i] \in Nat
      BY <1>9, <2>1 DEF LogOlder
    <3>2. PICK p \in Nat : p = Log[k][i]
      BY <3>1
    <3>3. OlderThan(p)
      BY <1>7, <3>1, <3>2
    <3>4. Log'[k][i] = p
      BY <2>1, <3>2
    <3> QED BY <3>3, <3>4
  <2>2. CASE Log'[k][i] = e
    BY <1>6, <2>2
  <2> QED BY <1>10, <2>1, <2>2
<1>12. OnceInOrder'
  <2> SUFFICES ASSUME NEW k \in FileID, NEW i \in DOMAIN Log'[k], NEW j \in DOMAIN Log'[k],
                      i < j, Log'[k][i] # 0, Log'[k][j] # 0
               PROVE  Log'[k][i] < Log'[k][j]
    BY DEF OnceInOrder
  <2>0. Log[k] \in Seq(Nat) /\ Len(Log[k]) \in Nat
    BY <1>9
  <2>1. i \in DOMAIN Log[k] /\ Log'[k][i] = Log[k][i]
    <3>1. ASSUME i = Len(Log[k]) + 1 PROVE FALSE
      <4>1. j \in DOMAIN Log[k] \/ j = Len(Log[k]) + 1
        BY <1>10
      <4> QED BY <2>0, <3>1, <4>1
    <3> QED BY <1>10, <3>1
  <2>2. CASE j \in DOMAIN Log[k] /\ Log'[k][j] = Log[k][j]
    BY <2>1, <2>2 DEF OnceInOrder
  <2>3. CASE Log'[k][j] = e
    BY <1>8, <2>1, <2>3 DEF Newest
  <2> QED BY <1>10, <2>2, <2>3
<1> QED BY <1>11, <1>12

(* Writing an event reads on behind it.                                    *)
LEMMA WriteReads ==
  ASSUME ReceiverInv, EventKnown, WriteBody \/ WriteTrig
  PROVE  /\ Reads
         /\ \A k \in Live' :
              k > index + (IF event.kind = "body" THEN event.len + 1 ELSE TrigDataSize)
<1>1. /\ pc = "write" /\ pc' = "decode" /\ UNCHANGED <<wire, sent, data, words>>
      /\ index' = index + (IF event.kind = "body" THEN event.len + 1 ELSE TrigDataSize)
      /\ index \in Nat /\ words \in Nat /\ event.len \in Nat /\ TrigDataSize \in Nat
      /\ index < words
  BY DataBufferAssumption
     DEF WriteBody, WriteTrig, dataVars, netVars, ReceiverInv, AtEvent, TypeOK, Event
<1>2. Live = index + 1 .. words /\ Live' = index' + 1 .. words
  BY <1>1 DEF Live
<1>3. index' \in Nat /\ index' >= index
  BY <1>1
<1>4. \A k \in Live' : k \in Live /\ data'[k] = data[k]
  BY <1>1, <1>2, <1>3
<1>5. \A k \in DOMAIN wire' : k + 0 \in DOMAIN wire /\ wire'[k] = wire[k + 0]
  <2>1. wire \in Seq(Item)
    BY DEF ReceiverInv, TypeOK
  <2> QED BY <1>1, <2>1
<1>6. Reads
  BY <1>1, <1>4, <1>5 DEF Reads
<1>7. ASSUME NEW k \in Live' PROVE k > index'
  <2>1. k \in index' + 1 .. words
    BY <1>2
  <2> QED BY <1>1, <1>3, <2>1
<1> QED BY <1>1, <1>6, <1>7

(* An event that is behind a word of data that is still to be decoded is   *)
(* newer than what is recorded, and older than what comes behind it.       *)
LEMMA LiveIsNewest ==
  ASSUME ReceiverInv, WireFresh, LiveFresh, LogOlder, Reads,
         NEW k \in Live, data[k] # 0, NEW e \in Nat, e <= data[k],
         \A j \in Live' : data[j] # 0 => e < data[j],
         \A id \in FileID : \A i \in DOMAIN Log[id] : Log[id][i] < e
  PROVE  Newest(e) /\ Older(e)'
<1>1. PICK m \in Nat : \A j \in DOMAIN wire' : j + m \in DOMAIN wire /\ wire'[j] = wire[j + m]
  BY DEF Reads
<1>2. data[k] \in Nat /\ data[k] <= sent /\ sent \in Nat
  <2>1. got \in Nat /\ words \in Nat /\ index \in Nat /\ data \in Seq(Nat) /\ sent \in Nat
    BY DEF ReceiverInv, TypeOK
  <2>2. k \in DOMAIN data
    BY <2>1 DEF Live, ReceiverInv, BufferFits
  <2> QED BY <2>1, <2>2 DEF LiveFresh
<1>3. ASSUME NEW j \in DOMAIN wire', IsWord(wire'[j]) PROVE e < wire'[j].val
  <2>1. j + m \in DOMAIN wire /\ wire'[j] = wire[j + m] /\ IsWord(wire[j + m])
    BY <1>1, <1>3
  <2>2. wire[j + m] \in Item
    BY <2>1 DEF ReceiverInv, TypeOK
  <2>3. wire[j + m].val \in Nat /\ data[k] < wire[j + m].val
    BY <2>1, <2>2 DEF WireFresh, Item
  <2> QED BY <1>2, <2>1, <2>3
<1>4. e <= sent'
  BY <1>2 DEF Reads
<1>5. \A j \in Live' : data'[j] # 0 => e < data'[j]
  BY DEF Reads
<1>6. Older(e)'
  BY <1>3, <1>4, <1>5 DEF Older
<1>7. Newest(e)
  BY DEF Newest
<1> QED BY <1>6, <1>7

(* What Write is given of data.                                            *)
LEMMA CopyIs ==
  ASSUME data \in Seq(Nat), NEW i \in Nat, NEW n \in Nat
  PROVE  /\ Len(CopyOfData(i, n)) = n
         /\ n > 0 => CopyOfData(i, n)[1] = IF i + 1 \in DOMAIN data THEN data[i + 1] ELSE 0
BY DEF CopyOfData

(* What is to be decoded is in data.                                       *)
LEMMA LiveData ==
  ASSUME ReceiverInv, NEW k \in Live
  PROVE  k \in Nat /\ k \in DOMAIN data /\ data[k] \in Nat
<1>1. got \in Nat /\ words \in Nat /\ index \in Nat /\ data \in Seq(Nat)
  BY DEF ReceiverInv, TypeOK
<1>2. k \in DOMAIN data
  BY <1>1 DEF Live, ReceiverInv, BufferFits
<1> QED BY <1>1, <1>2

(* What is recorded of a digitizer event is newer than all that is.        *)
LEMMA WriteBodyRecords ==
  ASSUME ReceiverInv, OnNewest, FreshInv, WriteBody
  PROVE  \/ Log' = Log
         \/ \E n \in Fwritten(event.len) : \E e \in Nat :
              n # 0 /\ e = EventIn(stream, BodyChunk(n)) /\ Records(event.file, e)
<1>1. PICK n \in Fwritten(event.len) :
        Log' = IF n = 0 THEN Log
               ELSE [Log EXCEPT ![event.file] = Append(@, EventIn(stream, BodyChunk(n)))]
  BY WriteBodyLog
<1>a. PICK e \in Nat : e = EventIn(stream, BodyChunk(n))
  <2>1. stream \in Seq(Word)
    BY StreamType DEF ReceiverInv, TypeOK
  <2> QED BY <2>1, LogType
<1> DEFINE d == CopyOfData(index + 1, event.len)
<1>2. /\ pc = "write" /\ event.kind = "body" /\ data' = data
      /\ index \in Nat /\ words \in Nat /\ event.len \in Nat /\ data \in Seq(Nat)
      /\ index < words /\ stream \in Streams
  BY DEF WriteBody, dataVars, ReceiverInv, AtEvent, TypeOK, Event
<1>3. Live = index + 1 .. words
  BY <1>2 DEF Live
<1>4. /\ WireFresh /\ LiveFresh /\ LogOlder /\ Reads
      /\ index + event.len <= words /\ data[index + 1] # 0
      /\ \A k \in Live' : k > index + (event.len + 1)
  BY <1>2, WriteReads DEF FreshInv, EventKnown
<1>5. ASSUME e # 0 PROVE Newest(e) /\ Older(e)'
  <2>1. /\ e \in 1 .. Len(stream) /\ d[1] = e + 1 /\ Len(d) >= 2
    BY <1>a, <1>2, <1>5, WholeClaim DEF BodyChunk, Piece
  <2>2. /\ Len(d) = event.len
        /\ d[1] = IF index + 1 + 1 \in DOMAIN data THEN data[index + 1 + 1] ELSE 0
    <3>1. index + 1 \in Nat
      BY <1>2
    <3>2. Len(d) = event.len
      BY <1>2, <3>1, CopyIs
    <3>3. event.len > 0
      BY <1>2, <2>1, <3>2
    <3> QED BY <1>2, <3>1, <3>2, <3>3, CopyIs
  <2> HIDE DEF d
  <2>3. e \in Nat /\ event.len >= 2
    BY <2>1, <2>2
  <2>4. PICK k \in Nat : k = index + 2
    BY <1>2
  <2>5. k = index + 1 + 1 /\ k \in Live /\ index + 1 \in Live
    BY <1>2, <1>3, <1>4, <2>3, <2>4
  <2>6. data[k] = e + 1
    BY <2>1, <2>2, <2>3, <2>5
  <2>7. data[k] # 0 /\ e <= data[k]
    BY <2>3, <2>6
  <2>8. ASSUME NEW j \in Live', data[j] # 0 PROVE e < data[j]
    <3>1. j \in Live
      BY <1>4, Zenon DEF Reads
    <3>2. j > k /\ j \in Nat /\ data[j] \in Nat
      BY <1>2, <1>4, <2>3, <2>4, <3>1, LiveData
    <3>3. data[k] < data[j]
      BY <1>4, <2>5, <2>7, <2>8, <3>1, <3>2 DEF LiveFresh
    <3> QED BY <2>3, <2>6, <3>2, <3>3
  <2>9. ASSUME NEW id \in FileID, NEW i \in DOMAIN Log[id] PROVE Log[id][i] < e
    <3>1. Log[id][i] \in Nat
      BY LogNat
    <3> HIDE DEF Log
    <3>2. Older(Log[id][i])
      BY <1>4 DEF LogOlder
    <3>3. Log[id][i] < data[index + 1]
      BY <1>4, <2>5, <3>2 DEF Older
    <3>4. data[index + 1] < data[k] /\ data[index + 1] \in Nat
      BY <1>2, <1>4, <2>4, <2>5, <2>7, LiveData DEF LiveFresh
    <3> QED BY <2>3, <2>6, <3>1, <3>3, <3>4
  <2>10. WireFresh /\ LiveFresh /\ LogOlder /\ Reads
    BY <1>4
  <2> QED BY <2>3, <2>5, <2>7, <2>8, <2>9, <2>10, LiveIsNewest, Zenon
<1>6. Log' # Log => n # 0 /\ Records(event.file, e)
  BY <1>a, <1>1, <1>5 DEF Records
<1> QED BY <1>a, <1>6

(* So is what is recorded of a trigger event.                              *)
LEMMA WriteTrigRecords ==
  ASSUME ReceiverInv, OnNewest, FreshInv, WriteTrig
  PROVE  \/ Log' = Log
         \/ \E n \in Fwritten(TrigPacketLength) : \E e \in Nat :
              n # 0 /\ e = EventIn(stream, TrigChunk(n)) /\ Records(TrigFile, e)
<1>0. event.file = TrigFile
  BY DEF WriteTrig, FreshInv, EventKnown
<1>1. PICK n \in Fwritten(TrigPacketLength) :
        Log' = IF n = 0 THEN Log
               ELSE [Log EXCEPT ![TrigFile] = Append(@, EventIn(stream, TrigChunk(n)))]
  BY <1>0, WriteTrigLog
<1>a. PICK e \in Nat : e = EventIn(stream, TrigChunk(n))
  <2>1. stream \in Seq(Word)
    BY StreamType DEF ReceiverInv, TypeOK
  <2> QED BY <2>1, LogType
<1> DEFINE d == CopyOfData(index, TrigDataSize)
<1>2. /\ pc = "write" /\ event.kind = "trig" /\ data' = data
      /\ index \in Nat /\ words \in Nat /\ data \in Seq(Nat)
      /\ index < words /\ stream \in Streams /\ TrigDataSize \in Nat \ {0}
  BY DataBufferAssumption DEF WriteTrig, dataVars, ReceiverInv, AtEvent, TypeOK, Event
<1>3. Live = index + 1 .. words
  BY <1>2 DEF Live
<1>4. /\ WireFresh /\ LiveFresh /\ LogOlder /\ Reads
      /\ data[index + 1] # 0
      /\ \A k \in Live' : k > index + TrigDataSize
  BY <1>2, WriteReads DEF FreshInv, EventKnown
<1>5. ASSUME e # 0 PROVE Newest(e) /\ Older(e)'
  <2>1. e \in 1 .. Len(stream) /\ d[1] = e
    BY <1>a, <1>2, <1>5, WholeClaim DEF TrigChunk, Piece
  <2>2. d[1] = IF index + 1 \in DOMAIN data THEN data[index + 1] ELSE 0
    BY <1>2, CopyIs
  <2> HIDE DEF d
  <2>3. e \in Nat /\ e # 0
    BY <2>1
  <2>4. PICK k \in Nat : k = index + 1
    BY <1>2
  <2>5. k \in Live
    BY <1>2, <1>3, <2>4
  <2>6. data[k] = e
    BY <2>1, <2>2, <2>3, <2>4
  <2>8. ASSUME NEW j \in Live', data[j] # 0 PROVE e < data[j]
    <3>1. j \in Live
      BY <1>4, Zenon DEF Reads
    <3>2. j > k /\ j \in Nat /\ data[j] \in Nat
      BY <1>2, <1>4, <2>3, <2>4, <3>1, LiveData
    <3>3. data[k] < data[j]
      BY <1>4, <2>3, <2>5, <2>6, <2>8, <3>1, <3>2 DEF LiveFresh
    <3> QED BY <2>6, <3>3
  <2>9. ASSUME NEW id \in FileID, NEW i \in DOMAIN Log[id] PROVE Log[id][i] < e
    <3> HIDE DEF Log
    <3>2. Older(Log[id][i])
      BY <1>4 DEF LogOlder
    <3> QED BY <2>3, <2>5, <2>6, <3>2 DEF Older
  <2>7. data[k] # 0 /\ e <= data[k]
    BY <2>3, <2>6
  <2>10. WireFresh /\ LiveFresh /\ LogOlder /\ Reads
    BY <1>4
  <2> QED BY <2>3, <2>5, <2>7, <2>8, <2>9, <2>10, LiveIsNewest, Zenon
<1>6. Log' # Log => n # 0 /\ Records(TrigFile, e)
  BY <1>a, <1>1, <1>5 DEF Records
<1> QED BY <1>a, <1>6

(* Nothing is taken up again.                                              *)
LEMMA ReadsNothing ==
  ASSUME ReceiverInv, sent' = sent,
         \/ wire' = wire \/ wire' = <<>>
         \/ \E n \in 0 .. Len(wire) :
              wire' = SubSeq(wire, 1, n) \/ wire' = SubSeq(wire, n + 1, Len(wire)),
         \A k \in Live' : k \in Live /\ data'[k] = data[k]
  PROVE  Reads
<1> DEFINE From(m) == \A k \in DOMAIN wire' : k + m \in DOMAIN wire /\ wire'[k] = wire[k + m]
<1>1. wire \in Seq(Item)
  BY DEF ReceiverInv, TypeOK
<1>2. CASE wire' = wire
  <2>1. From(0)
    BY <1>1, <1>2
  <2> QED BY <2>1 DEF Reads
<1>3. CASE wire' = <<>>
  <2>1. From(0)
    BY <1>3
  <2> QED BY <2>1 DEF Reads
<1>4. ASSUME NEW n \in 0 .. Len(wire), wire' = SubSeq(wire, 1, n) PROVE Reads
  <2>1. DOMAIN SubSeq(wire, 1, n) = 1 .. n
    BY <1>1
  <2>2. \A k \in 1 .. n : SubSeq(wire, 1, n)[k] = wire[k + 0] /\ k + 0 \in DOMAIN wire
    BY <1>1
  <2>3. From(0)
    BY <1>4, <2>1, <2>2
  <2> QED BY <2>3 DEF Reads
<1>5. ASSUME NEW n \in 0 .. Len(wire), wire' = SubSeq(wire, n + 1, Len(wire)) PROVE Reads
  <2>1. PICK m \in Nat : m = Len(wire) /\ DOMAIN wire = 1 .. m
    BY <1>1
  <2>2. DOMAIN SubSeq(wire, n + 1, m) = 1 .. m - n
    BY <1>1, <2>1
  <2>3. \A k \in 1 .. m - n : SubSeq(wire, n + 1, m)[k] = wire[k + n] /\ k + n \in DOMAIN wire
    BY <1>1, <2>1
  <2>4. From(n)
    BY <1>5, <2>1, <2>2, <2>3
  <2> QED BY <2>4 DEF Reads
<1> QED BY <1>2, <1>3, <1>4, <1>5

(* Every other step reads, or does nothing to what is to come.             *)
LEMMA OtherReads ==
  ASSUME ReceiverInv, [Next]_vars, ~ Summary, ~ NoData, ~ ReplyBody
  PROVE  Reads
<1>1. index \in Nat /\ words \in Nat /\ SkipWords \in Nat
  BY DataBufferAssumption DEF ReceiverInv, TypeOK
<1>2. CASE Live' = {}
  <2>1. /\ sent' = sent
        /\ \/ wire' = wire \/ wire' = <<>>
           \/ \E n \in 0 .. Len(wire) :
                wire' = SubSeq(wire, 1, n) \/ wire' = SubSeq(wire, n + 1, Len(wire))
    <3>1. CASE Decode
      BY <3>1 DEF Decode, Finish, DigSkip, DigIncomplete, DigEvent, TrigIncomplete, TrigEvent,
                  UnknownDataType, OpenEventFile, WriteGEB, WriteBody, WriteTrig, dataVars,
                  netVars
    <3>2. CASE ReplyHeader
      <4>1. PICK n \in 1 .. 4 : \E rest \in [n + 1 .. 4 -> Garbage] : RecvHeader(n, rest)
        BY <3>2 DEF ReplyHeader, GetHeader
      <4>2. n <= Len(wire) /\ wire' = SubSeq(wire, n + 1, Len(wire)) /\ sent' = sent
        BY <4>1 DEF RecvHeader
      <4>3. n \in 0 .. Len(wire)
        <5>1. Len(wire) \in Nat
          BY DEF ReceiverInv, TypeOK
        <5> QED BY <4>2, <5>1
      <4> QED BY <4>2, <4>3
    <3>3. CASE Close
      BY <3>3 DEF Close, ServerCloses
    <3>4. CASE Connect \/ Send \/ Resend \/ NoReply
      BY <3>4 DEF Connect, Send, Resend, NoReply, SetUpConnection, SendRequest, SendFails,
                  RecvNothing, getVars, netVars
    <3>5. CASE EndRun \/ CloseOne \/ End \/ BrokenPipe \/ Kill
      BY <3>5 DEF EndRun, CloseOne, End, BrokenPipe, Kill, Die, getVars, netVars
    <3>6. CASE Restart \/ Terminated \/ UNCHANGED vars
      BY <3>6 DEF Restart, Terminated, vars, getVars, netVars
    <3> QED BY <3>1, <3>2, <3>3, <3>4, <3>5, <3>6 DEF Next, Main, Server
  <2> QED BY <1>2, <2>1, ReadsNothing
<1>3. CASE Live' # {}
  <2>1. pc' \in {"body", "decode", "open", "geb", "write"}
    BY <1>3 DEF Live
  <2> SUFFICES ASSUME ~ WriteBody, ~ WriteTrig PROVE Reads
    <3>1. ASSUME WriteBody \/ WriteTrig PROVE Reads
      <4>1. /\ pc = "write" /\ pc' = "decode" /\ UNCHANGED <<wire, sent, data, words>>
            /\ index' = index + (IF event.kind = "body" THEN event.len + 1 ELSE TrigDataSize)
            /\ event.len \in Nat /\ TrigDataSize \in Nat
        BY <3>1, DataBufferAssumption
           DEF WriteBody, WriteTrig, dataVars, netVars, ReceiverInv, TypeOK, Event
      <4>2. Live = index + 1 .. words /\ Live' = index' + 1 .. words /\ index' \in Nat
            /\ index' >= index
        BY <1>1, <4>1 DEF Live
      <4>3. \A k \in Live' : k \in Live /\ data'[k] = data[k]
        BY <1>1, <4>1, <4>2
      <4> QED BY <4>1, <4>3, ReadsNothing
    <3> QED BY <3>1
  <2>2. CASE Decode
    <3>1. ASSUME NEW header, DigSkip(header) PROVE Reads
      <4>1. /\ pc = "decode" /\ pc' = "decode" /\ UNCHANGED <<wire, sent, data, words>>
            /\ index' = index + SkipWords
        BY <2>1, <3>1 DEF DigSkip, AtMark, dataVars, netVars
      <4>2. Live = index + 1 .. words /\ Live' = index' + 1 .. words /\ index' \in Nat
            /\ index' >= index
        BY <1>1, <4>1 DEF Live
      <4>3. \A k \in Live' : k \in Live /\ data'[k] = data[k]
        BY <1>1, <4>1, <4>2
      <4> QED BY <4>1, <4>3, ReadsNothing
    <3>2. ASSUME NEW header, DigEvent(header) \/ DigIncomplete(header) PROVE Reads
      <4>1. /\ pc = "decode" /\ pc' = "open" /\ UNCHANGED <<wire, sent, data, words, index>>
        BY <2>1, <3>2 DEF DigEvent, DigIncomplete, AtMark, dataVars, netVars
      <4>2. Live' = Live
        BY <4>1 DEF Live
      <4> QED BY <4>1, <4>2, ReadsNothing
    <3>3. ASSUME Finish \/ TrigIncomplete \/ TrigEvent \/ UnknownDataType PROVE Reads
      <4>1. /\ pc = "decode" /\ pc' = "open" /\ UNCHANGED <<wire, sent, data, words, index>>
        BY <2>1, <3>3
           DEF Finish, TrigIncomplete, TrigEvent, UnknownDataType, AtMark, dataVars, netVars
      <4>2. Live' = Live
        BY <4>1 DEF Live
      <4> QED BY <4>1, <4>2, ReadsNothing
    <3>4. ASSUME NEW ok \in BOOLEAN, OpenEventFile(ok) \/ WriteGEB PROVE Reads
      <4>1. /\ pc \in {"open", "geb"} /\ pc' \in {"geb", "write"}
            /\ UNCHANGED <<wire, sent, data, words, index>>
        BY <2>1, <3>4 DEF OpenEventFile, WriteGEB, dataVars, netVars
      <4>2. Live' = Live
        BY <4>1 DEF Live
      <4> QED BY <4>1, <4>2, ReadsNothing
    <3> QED BY <2>2, <3>1, <3>2, <3>3, <3>4 DEF Decode
  <2>3. CASE ReplyHeader
    <3>1. PICK n \in 1 .. 4 : \E rest \in [n + 1 .. 4 -> Garbage] : RecvHeader(n, rest)
      BY <2>3 DEF ReplyHeader, GetHeader
    <3>2. pc' = "body" /\ got' = 0
      BY <2>1, <3>1 DEF RecvHeader
    <3>3. Live' = {}
      BY <3>2 DEF Live
    <3> QED BY <1>3, <3>3
  <2>4. CASE Close
    <3>1. UNCHANGED <<pc, got, words, index, data, sent>>
          /\ \E n \in 0 .. Len(wire) : wire' = SubSeq(wire, 1, n)
      BY <2>4 DEF Close, ServerCloses
    <3>2. Live' = Live
      BY <3>1 DEF Live
    <3> QED BY <3>1, <3>2, ReadsNothing
  <2>5. CASE Connect \/ Send \/ Resend \/ NoReply
    BY <2>1, <2>5 DEF Connect, Send, Resend, NoReply, SetUpConnection, SendRequest, SendFails,
                RecvNothing, getVars, netVars
  <2>6. CASE EndRun \/ CloseOne \/ End \/ BrokenPipe \/ Kill
    BY <2>1, <2>6 DEF EndRun, CloseOne, End, BrokenPipe, Kill, Die, getVars, netVars
  <2>7. CASE Restart
    BY <2>1, <2>7 DEF Restart
  <2>8. CASE Terminated \/ UNCHANGED vars
    <3>1. UNCHANGED <<pc, got, words, index, data, sent, wire>>
      BY <2>8 DEF Terminated, vars, getVars
    <3>2. Live' = Live
      BY <3>1 DEF Live
    <3> QED BY <3>1, <3>2, ReadsNothing
  <2> QED BY <2>2, <2>3, <2>4, <2>5, <2>6, <2>7, <2>8 DEF Next, Main, Server
<1> QED BY <1>2, <1>3

(* An event is only begun where its marker was received.                   *)
LEMMA NextEventKnown ==
  ASSUME ReceiverInv, EventKnown, [Next]_vars PROVE EventKnown'
<1>1. /\ index \in Nat /\ words \in Nat /\ stream \in Seq(Word)
      /\ SkipWords \in Nat /\ TrigDataSize \in Nat
  BY DataBufferAssumption, StreamType DEF ReceiverInv, TypeOK
<1>2. CASE pc' \notin {"open", "geb", "write"} /\ event' \in {event, NoEvent}
  BY <1>2 DEF EventKnown, NoEvent
<1>3. CASE UNCHANGED <<index, words, data, event>> /\ pc \in {"open", "geb", "write"}
  BY <1>3 DEF EventKnown
<1>4. ASSUME NEW m, m # "none", AtMark(m) PROVE data[index + 1] # 0
  BY <1>1, <1>4 DEF AtMark, Mark, WordOf, ZeroWord
<1>5. ASSUME NEW header \in WordAt(index + 1), DigEvent(header) PROVE EventKnown'
  <2>1. /\ event' = [kind |-> "body", file |-> header.file, len |-> header.len]
        /\ AtMark("dig") /\ UNCHANGED <<index, words, data>>
        /\ header.len + index <= words
    BY <1>5 DEF DigEvent, DigFits, dataVars
  <2>2. header.len \in Nat
    BY WordAtType DEF ReceiverInv, TypeOK, Word
  <2>3. index' + event'.len <= words' /\ event'.kind = "body"
    BY <1>1, <2>1, <2>2
  <2> QED BY <1>4, <2>1, <2>3 DEF EventKnown
<1>6. CASE TrigEvent
  <2>1. /\ event' = [kind |-> "trig", file |-> TrigFile, len |-> TrigDataSize]
        /\ AtMark("trig") /\ UNCHANGED <<index, words, data>>
    BY <1>6 DEF TrigEvent, dataVars
  <2> QED BY <1>4, <2>1 DEF EventKnown
<1>7. CASE Decode
  <2>1. ASSUME NEW header, DigSkip(header) \/ DigIncomplete(header) PROVE EventKnown'
    BY <1>2, <2>1 DEF DigSkip, DigIncomplete
  <2>2. Finish \/ TrigIncomplete \/ UnknownDataType => EventKnown'
    BY <1>2 DEF Finish, TrigIncomplete, UnknownDataType
  <2>3. ASSUME NEW ok \in BOOLEAN, OpenEventFile(ok) \/ WriteGEB PROVE EventKnown'
    BY <1>3, <2>3 DEF OpenEventFile, WriteGEB, dataVars
  <2>4. WriteBody \/ WriteTrig => EventKnown'
    BY <1>2 DEF WriteBody, WriteTrig
  <2> QED BY <1>5, <1>6, <1>7, <2>1, <2>2, <2>3, <2>4 DEF Decode
<1>8. CASE ReplyHeader
  <2>1. PICK n \in 1 .. 4 : \E rest \in [n + 1 .. 4 -> Garbage] : RecvHeader(n, rest)
    BY <1>8 DEF ReplyHeader, GetHeader
  <2>2. pc' \in {"body", "request"} /\ event' = event
    BY <1>8, <2>1 DEF RecvHeader, ReplyHeader, FileStep
  <2> QED BY <1>2, <2>2
<1>9. CASE ReplyBody
  <2>1. PICK n \in 1 .. Len(wire) : RecvBody(n)
    BY <1>9 DEF ReplyBody, GetBody
  <2>2. pc' \in {"body", "decode"} /\ event' = event
    BY <1>9, <2>1 DEF RecvBody, ReplyBody, FileStep
  <2> QED BY <1>2, <2>2
<1>10. CASE UNCHANGED <<pc, index, words, data, event>>
  BY <1>10 DEF EventKnown
<1>11. CASE Server
  <2>1. UNCHANGED <<pc, index, words, data, event>>
    BY <1>11 DEF Server, Summary, NoData, Close, ServerSummary, ServerNoData, ServerReply,
                 ServerCloses, FileStep
  <2> QED BY <1>10, <2>1
<1>12. CASE Connect \/ Send \/ Resend \/ NoReply
  BY <1>2, <1>12 DEF Connect, Send, Resend, NoReply, SetUpConnection, SendRequest, SendFails,
              RecvNothing, FileStep, getVars
<1>13. CASE EndRun \/ End \/ BrokenPipe \/ Kill \/ Restart
  BY <1>2, <1>13 DEF EndRun, End, BrokenPipe, Kill, Die, Restart
<1>14. CASE CloseOne \/ Terminated \/ UNCHANGED vars
  <2>1. UNCHANGED <<pc, index, words, data, event>>
    BY <1>14 DEF CloseOne, Terminated, vars, getVars
  <2> QED BY <1>10, <2>1
<1> QED BY <1>7, <1>8, <1>9, <1>11, <1>12, <1>13, <1>14 DEF Next, Main

(* What is to come is newer than what is recorded, and in order.           *)
LEMMA NextFresh ==
  ASSUME ReceiverInv, ReceiverInv', OnNewest, FreshInv, OnceInOrder, [Next]_vars
  PROVE  FreshInv' /\ OnceInOrder'
<1>1. EventKnown'
  BY NextEventKnown DEF FreshInv
<1>2. WireFresh /\ LiveFresh /\ LogOlder /\ EventKnown
  BY DEF FreshInv
<1>3. CASE Summary \/ NoData
  <2>1. PICK type \in Nat, n \in Nat : ServerReply(type, n)
    <3>1. ASSUME Summary PROVE \E type \in Nat, n \in Nat : ServerReply(type, n)
      <4>1. PICK n \in 1 .. MaxReply : ServerReply(SERVER_SUMMARY, n)
        BY <3>1 DEF Summary, ServerSummary
      <4>2. n \in Nat /\ SERVER_SUMMARY \in Nat
        BY GetDataAssumption DEF SERVER_SUMMARY
      <4> QED BY <4>1, <4>2
    <3>2. ASSUME NoData PROVE \E type \in Nat, n \in Nat : ServerReply(type, n)
      <4>1. PICK type \in {SERVER_SUMMARY, INSUFF_DATA, NO_DATA} : ServerReply(type, 0)
        BY <3>2 DEF NoData, ServerNoData
      <4>2. type \in Nat /\ 0 \in Nat
        BY DEF SERVER_SUMMARY, INSUFF_DATA, NO_DATA
      <4> QED BY <4>1, <4>2
    <3> QED BY <1>3, <3>1, <3>2
  <2>2. FileStep
    BY <1>3 DEF Summary, NoData
  <2>3. WireFresh' /\ LiveFresh' /\ LogOlder'
    BY <1>2, <2>1, <2>2, ServerFresh
  <2>4. Log' = Log
    <3>1. stream' = stream /\ disk' = disk
      BY <2>1, <2>2 DEF ServerReply, FileStep, fileVars
    <3> QED BY <3>1, LogSame
  <2> QED BY <1>1, <2>3, <2>4 DEF FreshInv, OnceInOrder
<1>4. CASE ReplyBody
  <2>1. PICK n \in 1 .. Len(wire) : RecvBody(n)
    BY <1>4 DEF ReplyBody, GetBody
  <2>2. FileStep
    BY <1>4 DEF ReplyBody
  <2>3. WireFresh' /\ LiveFresh' /\ LogOlder'
    BY <1>2, <2>1, <2>2, BodyFresh
  <2>4. Log' = Log
    <3>1. stream' = stream /\ disk' = disk
      BY <2>1, <2>2 DEF RecvBody, FileStep, fileVars
    <3> QED BY <3>1, LogSame
  <2> QED BY <1>1, <2>3, <2>4 DEF FreshInv, OnceInOrder
<1>5. ASSUME ~ Summary, ~ NoData, ~ ReplyBody PROVE FreshInv' /\ OnceInOrder'
  <2>1. Reads
    BY <1>5, OtherReads
  <2>2. CASE Log' = Log
    <3>1. WireFresh' /\ LiveFresh' /\ LogOlder'
      BY <1>2, <2>1, <2>2, ReadsFresh
    <3> QED BY <1>1, <2>2, <3>1 DEF FreshInv, OnceInOrder
  <2>3. CASE \E id \in FileID : \E e \in Nat : Records(id, e)
    <3>1. PICK id \in FileID, e \in Nat : Records(id, e)
      BY <2>3
    <3>2. LogOlder' /\ OnceInOrder'
      BY <1>2, <2>1, <3>1, RecordsFresh
    <3>3. WireFresh' /\ LiveFresh'
      BY <1>2, <2>1, ReadsWires
    <3> QED BY <1>1, <3>2, <3>3 DEF FreshInv
  <2>4. Log' = Log \/ \E id \in FileID : \E e \in Nat : Records(id, e)
    <3>1. CASE WriteBody
      <4>1. event.file \in FileID
        BY DEF ReceiverInv, TypeOK, Event
      <4> QED BY <3>1, <4>1, WriteBodyRecords
    <3>2. CASE WriteTrig
      <4>1. TrigFile \in FileID
        BY ChannelsAssumption
      <4> QED BY <3>2, <4>1, WriteTrigRecords
    <3>3. CASE ~ WriteBody /\ ~ WriteTrig
      BY <3>3, QuietLog
    <3> QED BY <3>1, <3>2, <3>3
  <2> QED BY <2>2, <2>3, <2>4
<1> QED BY <1>3, <1>4, <1>5

(* Nothing is recorded when the receiver starts.                           *)
LEMMA InitLog == ASSUME Init PROVE Log = [id \in FileID |-> <<>>]
<1>1. \A id \in FileID : disk[id] = <<>>
  BY DEF Init, FilesInit
<1>2. \A id \in FileID : LogsIn(stream, ChunksIn(disk[id])) = <<>>
  BY <1>1, ChunksEmpty, LogsEmpty
<1> QED BY <1>2, LogIs

(* (See NextFresh.)                                                        *)
LEMMA InitFresh == ASSUME Init PROVE FreshInv /\ OnceInOrder /\ NewestInv
<1>1. \A id \in FileID : Log[id] = <<>>
  BY InitLog
<1> HIDE DEF Log
<1>2. pc = "connect" /\ wire = <<>> /\ event = NoEvent
  BY DEF Init, GetInit
<1>3. Live = {}
  BY <1>2 DEF Live
<1>4. FreshInv
  BY <1>1, <1>2, <1>3
     DEF FreshInv, WireFresh, LiveFresh, LogOlder, EventKnown, NoEvent
<1>5. OnceInOrder
  BY <1>1 DEF OnceInOrder
<1>6. NewestInv
  <2>1. ASSUME NEW id \in FileID PROVE InTurn(id)
    <3>1. disk[id] = <<>> /\ count[id] = 0 /\ ~ file[id]
      BY DEF Init, FilesInit
    <3>2. Len(disk[id]) = 0
      BY <3>1
    <3> QED BY <3>1, <3>2 DEF InTurn
  <2> QED BY <2>1 DEF NewestInv
<1> QED BY <1>4, <1>5, <1>6

(* The invariants of an orderly receiver.                                  *)
OrderInv == ReceiverInv /\ SplitInv /\ NewestInv /\ FreshInv /\ OnceInOrder

(* They hold.                                                              *)
LEMMA OrderInvHolds == ASSUME Orderly PROVE Spec => []OrderInv
<1>1. Init => OrderInv
  BY InitInv, InitFresh, FilesInitSplit DEF Init, OrderInv
<1>2. OrderInv /\ [Next]_vars => OrderInv'
  <2> SUFFICES ASSUME OrderInv, [Next]_vars PROVE OrderInv'
    OBVIOUS
  <2>1. ReceiverInv /\ SplitInv /\ NewestInv /\ FreshInv /\ OnceInOrder
    BY DEF OrderInv
  <2>2. ReceiverInv' /\ NewestInv'
    BY <2>1, NextInv, NextNewest
  <2>3. SplitInv'
    BY <2>1, NextFileStep, CallSplit
  <2>4. OnNewest
    BY <2>1, OrderlyOnNewest
  <2>5. FreshInv' /\ OnceInOrder'
    BY <2>1, <2>2, <2>4, NextFresh
  <2> QED BY <2>2, <2>3, <2>5 DEF OrderInv
<1> QED BY <1>1, <1>2, PTL DEF Spec

(* However the server cuts its replies, headers are received in part,      *)
(* connections are closed, processes killed and started again, and writes  *)
(* cut short: the events that are whole on disk are there once, and in the *)
(* order the server sent them.  Only a second process after a chmod that   *)
(* failed comes back to an older file (WriteData, OpenFile, NewFile).      *)
THEOREM ReceiverOnceInOrder == Orderly => (Spec => []OnceInOrder)
<1> SUFFICES ASSUME Orderly PROVE Spec => []OnceInOrder
  OBVIOUS
<1>1. OrderInv => OnceInOrder
  BY DEF OrderInv
<1>2. Spec => []OrderInv
  BY OrderInvHolds
<1> QED BY <1>1, <1>2, PTL
=============================================================================
