------------------------- MODULE ReceiverSyncProofs -------------------------
(***************************************************************************)
(* Proofs about a receiver that stays in step with its server: the server  *)
(* ends its replies at the end of a packet, and recv returns the whole of  *)
(* a reply header (WholeReplies, ~ ShortHeader).  Bodies come in pieces,   *)
(* connections are closed and processes killed as ever.                    *)
(***************************************************************************)
EXTENDS ReceiverProofs, FiniteSetTheorems

-----------------------------------------------------------------------------
(* Packets.                                                                *)

(* No packet starts within another.                                        *)
LEMMA NoneStarts ==
  ASSUME stream \in Streams, NEW p \in StartsIn(stream)
  PROVE  \A q \in p + 1 .. EndIn(stream, p) : ~ stream[q].start
<1>1. stream \in Seq(Word) /\ WellFramed(stream)
  BY StreamType, FramingAssumption
<1> DEFINE e == EndIn(stream, p)
           Is(x) == /\ x = Len(stream) \/ stream[x + 1].start
                    /\ \A q \in p + 1 .. x : ~ stream[q].start
<1>2. p \in Nat /\ e \in Nat /\ e <= Len(stream) /\ e >= p
  BY <1>1, EndIs DEF StartsIn
<1>3. \E x \in p .. Len(stream) : Is(x)
  <2> DEFINE l == PacketLen(stream, p)
  <2>1. stream[p].start /\ p \in DOMAIN stream
    BY DEF StartsIn
  <2>2. (p + l) - 1 = e /\ l \in Nat
    BY <1>1, <1>2, EndIs
  <2>3. \A q \in p + 1 .. (p + l) - 1 : ~ stream[q].start
    BY <1>1, <2>1, Zenon DEF WellFramed
  <2>4. e = Len(stream) \/ stream[e + 1].start
    BY <1>1, EndIs
  <2> HIDE DEF e, l
  <2>5. Is(e)
    BY <2>2, <2>3, <2>4
  <2>6. e \in p .. Len(stream)
    BY <1>1, <1>2
  <2> QED BY <2>5, <2>6
<1>4. e = CHOOSE x \in p .. Len(stream) : Is(x)
  BY DEF EndIn
<1> HIDE DEF Is, e
<1>5. Is(e)
  BY <1>3, <1>4
<1> QED BY <1>5 DEF Is, e

(* A packet of which a word was sent was sent, if whole packets were.      *)
LEMMA PacketSent ==
  ASSUME stream \in Streams, NEW p \in StartsIn(stream), NEW n \in Nat,
         p <= n, n <= Len(stream), AtPacketEnd(n)
  PROVE  EndIn(stream, p) <= n
<1>1. stream \in Seq(Word) /\ WellFramed(stream)
  BY StreamType, FramingAssumption
<1>2. /\ p \in Nat /\ EndIn(stream, p) \in Nat /\ EndIn(stream, p) <= Len(stream)
  BY <1>1, EndIs DEF StartsIn
<1>3. CASE n < EndIn(stream, p)
  <2>1. n + 1 \in p + 1 .. EndIn(stream, p) /\ n # Len(stream)
    BY <1>1, <1>2, <1>3
  <2> QED BY <2>1, NoneStarts DEF AtPacketEnd
<1> QED BY <1>2, <1>3

(* Behind the end of a packet is the start of one.                         *)
LEMMA NextStart ==
  ASSUME stream \in Streams, NEW n \in Nat, n < Len(stream), AtPacketEnd(n)
  PROVE  n + 1 \in StartsIn(stream)
<1>1. stream \in Seq(Word)
  BY StreamType
<1> QED BY <1>1 DEF AtPacketEnd, StartsIn

(* What kind of packet it is, and where it ends.                           *)
LEMMA PacketIs ==
  ASSUME stream \in Streams, NEW p \in StartsIn(stream)
  PROVE  /\ p \in 1 .. Len(stream) /\ EndIn(stream, p) \in p .. Len(stream)
         /\ AtPacketEnd(EndIn(stream, p))
         /\ stream[p].mark = "trig" =>
              EndIn(stream, p) = (p + TrigDataSize) - 1
         /\ stream[p].mark # "trig" =>
              /\ stream[p].mark = "dig" /\ p + 1 <= EndIn(stream, p)
              /\ stream[p + 1].type # "chan" => EndIn(stream, p) = (p + SkipWords) - 1
              /\ stream[p + 1].type = "chan" =>
                   /\ EndIn(stream, p) = p + stream[p + 1].len
                   /\ stream[p + 1].len \in Nat /\ stream[p + 1].len >= 2
<1>1. stream \in Seq(Word) /\ WellFramed(stream)
  BY StreamType, FramingAssumption
<1> DEFINE e == EndIn(stream, p)
           l == PacketLen(stream, p)
<1>2. p \in 1 .. Len(stream)
  BY DEF StartsIn
<1>3. /\ l \in Nat \ {0} /\ e = p + l - 1 /\ e \in p .. Len(stream)
      /\ stream[p].mark = "dig" \/ stream[p].mark = "trig"
      /\ stream[p].mark = "dig" =>
           /\ p + 1 \in DOMAIN stream
           /\ stream[p + 1].type = "chan" => stream[p + 1].len >= 2
      /\ e = Len(stream) \/ stream[e + 1].start
  BY <1>1, EndIs
<1>4. AtPacketEnd(e)
  BY <1>3 DEF AtPacketEnd
<1>5. stream[p].mark = "trig" => l = TrigDataSize
  BY DEF PacketLen
<1>6. stream[p].mark # "trig" =>
        l = IF stream[p + 1].type = "chan" THEN stream[p + 1].len + 1 ELSE SkipWords
  BY DEF PacketLen
<1> HIDE DEF e, l
<1>7. e = (p + l) - 1
  BY <1>2, <1>3
<1>8. stream[p].mark # "trig" =>
        /\ stream[p].mark = "dig" /\ p + 1 <= e
        /\ stream[p + 1].type # "chan" => e = (p + SkipWords) - 1
        /\ stream[p + 1].type = "chan" =>
             e = p + stream[p + 1].len /\ stream[p + 1].len \in Nat /\ stream[p + 1].len >= 2
  <2> SUFFICES ASSUME stream[p].mark # "trig"
               PROVE  /\ p + 1 <= e
                      /\ stream[p + 1].type # "chan" => e = (p + SkipWords) - 1
                      /\ stream[p + 1].type = "chan" =>
                           /\ e = p + stream[p + 1].len
                           /\ stream[p + 1].len \in Nat /\ stream[p + 1].len >= 2
    BY <1>3
  <2>1. CASE stream[p + 1].type # "chan"
    <3>1. l = SkipWords /\ l > 1
      BY <1>6, <2>1, DataBufferAssumption
    <3>2. e = (p + SkipWords) - 1 /\ p + 1 <= e
      BY <1>2, <1>7, <3>1, DataBufferAssumption
    <3> QED BY <2>1, <3>2, Zenon
  <2>2. CASE stream[p + 1].type = "chan"
    <3>1. stream[p + 1] \in Word
      BY <1>1, <1>3
    <3>2. stream[p + 1].len \in Nat /\ stream[p + 1].len >= 2
      BY <1>3, <2>2, <3>1 DEF Word
    <3>3. l = stream[p + 1].len + 1
      BY <1>6, <2>2
    <3>4. e = p + stream[p + 1].len /\ p + 1 <= e
      BY <1>2, <1>7, <3>2, <3>3
    <3> QED BY <2>2, <3>2, <3>4, Zenon
  <2> QED BY <2>1, <2>2
<1>9. stream[p].mark = "trig" => e = (p + TrigDataSize) - 1
  BY <1>5, <1>7
<1> QED BY <1>2, <1>3, <1>4, <1>8, <1>9 DEF e

-----------------------------------------------------------------------------
(* The invariant: what is in data, and on the wire, are the last words the *)
(* server sent, in their order, and WriteData is between two packets.      *)

(* The last word the server sent before this reply.                        *)
Base == sent - words

(* A reply with n words of data, of which some may have been lost when the *)
(* connection was closed.                                                  *)
Pending(n) ==
  /\ n <= sent /\ AtPacketEnd(sent - n)
  /\ Len(wire) >= 4 /\ Len(wire) <= n + 4
  /\ AsField(wire[2]) = 1 /\ AsField(wire[4]) = n
  /\ AsField(wire[1]) # SERVER_SUMMARY => n = 0
  /\ \A k \in 5 .. Len(wire) : AsData(wire[k]) = (sent - n) + (k - 4)

StreamSync == sent <= Len(stream) /\ AtPacketEnd(sent)

WireSync == pc \notin {"reply", "body"} => wire = <<>>

HeaderSync == pc = "reply" /\ wire # <<>> => \E n \in Nat : Pending(n)

BodySync ==
  pc = "body" =>
    /\ words <= sent /\ AtPacketEnd(Base)
    /\ got + Len(wire) <= words
    /\ \A k \in 1 .. got : data[k] = Base + k
    /\ \A k \in DOMAIN wire : AsData(wire[k]) = (Base + got) + k

DecodeSync ==
  pc \in {"decode", "open", "geb", "write"} =>
    /\ words <= sent /\ index <= words /\ AtPacketEnd(Base + index)
    /\ \A k \in 1 .. words : data[k] = Base + k

(* Where the packet starts that is to be decoded.                          *)
Here == (Base + index) + 1

EventSync ==
  pc \in {"open", "geb", "write"} =>
    /\ index < words /\ Here \in Events
    /\ event.kind = IF IsTrig(Here) THEN "trig" ELSE "body"
    /\ event.file = FileOf(Here)
    /\ event.kind = "body" => event.len = stream[Here + 1].len

EndSync ==
  pc \in {"stop", "closing", "ended"} => \E d \in PacketStarts : IsDone(d) /\ d <= sent

SyncInv ==
  /\ StreamSync /\ WireSync /\ HeaderSync /\ BodySync
  /\ DecodeSync /\ EventSync /\ EndSync

(* The types of what it is about.                                          *)
LEMMA SyncTypes ==
  ASSUME ReceiverInv
  PROVE  /\ sent \in Nat /\ words \in Nat /\ got \in Nat /\ index \in Nat
         /\ stream \in Streams /\ stream \in Seq(Word) /\ data \in Seq(Nat)
         /\ wire \in Seq(Item) /\ event \in Event
BY StreamType DEF ReceiverInv, TypeOK

(* The loop of WriteData is at the start of a packet that was received.    *)
LEMMA AtPacket ==
  ASSUME ReceiverInv, SyncInv, pc \in {"decode", "open", "geb", "write"}, index < words
  PROVE  /\ Here \in StartsIn(stream) /\ Here \in Nat /\ Here <= sent
         /\ Base + index \in Nat
         /\ EndIn(stream, Here) <= sent /\ EndIn(stream, Here) \in Nat
         /\ data[index + 1] = Here /\ Mark(index) = stream[Here].mark
         /\ stream[Here].mark # "trig" =>
              /\ index + 2 <= words /\ data[index + 2] = Here + 1
              /\ WordAt(index + 1) = {stream[Here + 1]}
<1>1. /\ sent \in Nat /\ words \in Nat /\ index \in Nat /\ stream \in Streams
      /\ stream \in Seq(Word) /\ data \in Seq(Nat)
  BY SyncTypes
<1>2. /\ words <= sent /\ AtPacketEnd(Base + index) /\ sent <= Len(stream)
      /\ \A k \in 1 .. words : data[k] = Base + k
      /\ AtPacketEnd(sent)
  BY DEF SyncInv, StreamSync, DecodeSync
<1>3. PICK p \in Nat : p = Here /\ p = (Base + index) + 1 /\ p <= sent
  BY <1>1, <1>2 DEF Here, Base
<1>4. Base + index \in Nat /\ Base + index < Len(stream) /\ Base \in Nat
  <2>1. Base + index \in Nat /\ Base \in Nat
    BY <1>1, <1>2 DEF Base
  <2>2. Base + index < sent
    BY <1>1, <1>2 DEF Base
  <2> QED BY <1>1, <1>2, <2>1, <2>2
<1>5. p \in StartsIn(stream)
  BY <1>1, <1>2, <1>3, <1>4, NextStart
<1>6. EndIn(stream, p) <= sent
  BY <1>1, <1>2, <1>3, <1>5, PacketSent
<1>7. data[index + 1] = p
  <2>1. index + 1 \in 1 .. words
    BY <1>1
  <2>2. data[index + 1] = Base + (index + 1)
    BY <1>2, <2>1
  <2> QED BY <1>1, <1>3, <1>4, <2>2
<1>8. p \in DOMAIN stream
  BY <1>5 DEF StartsIn
<1>9. Mark(index) = stream[p].mark
  BY <1>7, <1>8 DEF Mark, WordOf
<1>10. ASSUME stream[p].mark # "trig"
       PROVE  /\ index + 2 <= words /\ data[index + 2] = p + 1
              /\ WordAt(index + 1) = {stream[p + 1]}
  <2>1. p + 1 <= EndIn(stream, p) /\ EndIn(stream, p) \in 1 .. Len(stream)
    BY <1>1, <1>5, <1>10, PacketIs
  <2>2. p + 1 <= sent /\ p + 1 \in DOMAIN stream
    BY <1>1, <1>3, <1>6, <2>1
  <2>3. index + 2 <= words
    BY <1>1, <1>2, <1>3, <2>2 DEF Base
  <2>4. data[index + 2] = p + 1
    <3>1. index + 2 \in 1 .. words
      BY <1>1, <2>3
    <3>2. data[index + 2] = Base + (index + 2)
      BY <1>2, <3>1
    <3> QED BY <1>1, <1>3, <1>4, <3>2
  <2>5. index + 1 + 1 \in DOMAIN data /\ index + 1 + 1 = index + 2
    <3>1. words <= Len(data)
      BY DEF ReceiverInv, BufferFits
    <3> QED BY <1>1, <2>3, <3>1
  <2>6. WordAt(index + 1) = {stream[p + 1]}
    BY <2>2, <2>4, <2>5 DEF WordAt, WordOf
  <2> QED BY <2>3, <2>4, <2>6
<1>11. EndIn(stream, p) \in Nat
  BY <1>1, <1>5, PacketIs
<1> QED BY <1>3, <1>4, <1>5, <1>6, <1>7, <1>9, <1>10, <1>11

-----------------------------------------------------------------------------
(* Every step keeps it.                                                    *)

(* Main goes on to ask for the next reply, or is gone.                     *)
LEMMA LeaveSync ==
  ASSUME SyncInv, UNCHANGED <<sent, stream>>, wire' = <<>>,
         pc' \in {"connect", "request", "dead"}
  PROVE  SyncInv'
<1>1. StreamSync'
  BY DEF SyncInv, StreamSync, AtPacketEnd
<1> QED BY <1>1
        DEF SyncInv, WireSync, HeaderSync, BodySync, DecodeSync, EventSync, EndSync

(* The run is at its end.                                                  *)
LEMMA StopSync ==
  ASSUME SyncInv, UNCHANGED <<sent, stream>>, wire' = <<>>,
         pc \in {"stop", "closing", "ended"}, pc' \in {"stop", "closing", "ended"}
  PROVE  SyncInv'
<1>1. StreamSync'
  BY DEF SyncInv, StreamSync, AtPacketEnd
<1>2. EndSync'
  BY DEF SyncInv, EndSync, PacketStarts, IsDone
<1> QED BY <1>1, <1>2
        DEF SyncInv, WireSync, HeaderSync, BodySync, DecodeSync, EventSync

(* Nothing happens to what is read.                                        *)
LEMMA SameSync ==
  ASSUME SyncInv, UNCHANGED <<pc, sent, stream, wire, words, got, index, data, event>>
  PROVE  SyncInv'
<1>1. StreamSync' /\ WireSync'
  BY DEF SyncInv, StreamSync, WireSync, AtPacketEnd
<1>2. HeaderSync'
  BY DEF SyncInv, HeaderSync, Pending, AtPacketEnd
<1>3. BodySync' /\ DecodeSync'
  BY DEF SyncInv, BodySync, DecodeSync, AtPacketEnd, Base
<1>4. EventSync' /\ EndSync'
  BY DEF SyncInv, EventSync, EndSync, Here, Base, Events, PacketStarts, IsEvent, IsTrig,
         FileOf, IsDone
<1> QED BY <1>1, <1>2, <1>3, <1>4 DEF SyncInv

(* An event is opened, and its header written.                             *)
LEMMA EventStepSync ==
  ASSUME SyncInv, UNCHANGED <<sent, stream, wire, words, index, data, event>>,
         pc \in {"open", "geb"}, pc' \in {"geb", "write"}
  PROVE  SyncInv'
<1>1. StreamSync' /\ WireSync'
  BY DEF SyncInv, StreamSync, WireSync, AtPacketEnd
<1>2. DecodeSync'
  BY DEF SyncInv, DecodeSync, AtPacketEnd, Base
<1>3. EventSync'
  BY DEF SyncInv, EventSync, Here, Base, Events, PacketStarts, IsEvent, IsTrig, FileOf
<1>4. HeaderSync' /\ BodySync' /\ EndSync'
  BY DEF HeaderSync, BodySync, EndSync
<1> QED BY <1>1, <1>2, <1>3, <1>4 DEF SyncInv

(* The loop of WriteData goes on behind a packet.                          *)
LEMMA BehindSync ==
  ASSUME ReceiverInv, SyncInv, pc \in {"decode", "write"}, index < words,
         UNCHANGED <<sent, stream, wire, words, data>>, pc' = "decode",
         NEW l \in Nat, index' = index + l, EndIn(stream, Here) = (Here + l) - 1
  PROVE  SyncInv'
<1>1. /\ sent \in Nat /\ words \in Nat /\ index \in Nat /\ stream \in Streams
  BY SyncTypes
<1>2. /\ Here \in StartsIn(stream) /\ Here \in Nat /\ EndIn(stream, Here) <= sent
      /\ Base + index \in Nat
  BY AtPacket
<1>3. AtPacketEnd(EndIn(stream, Here))
  BY <1>1, <1>2, PacketIs
<1>4. words <= sent /\ \A k \in 1 .. words : data[k] = Base + k
  BY DEF SyncInv, DecodeSync
<1>5. EndIn(stream, Here) = Base + (index + l)
  BY <1>1, <1>2, <1>4 DEF Here, Base
<1>6. index + l <= words
  BY <1>1, <1>2, <1>4, <1>5 DEF Base
<1>7. DecodeSync'
  BY <1>3, <1>4, <1>5, <1>6 DEF DecodeSync, Base, AtPacketEnd
<1>8. StreamSync' /\ WireSync'
  BY DEF SyncInv, StreamSync, WireSync, AtPacketEnd
<1>9. HeaderSync' /\ BodySync' /\ EventSync' /\ EndSync'
  BY DEF HeaderSync, BodySync, EventSync, EndSync
<1> QED BY <1>7, <1>8, <1>9 DEF SyncInv

(* The marker of a packet is met.                                          *)
LEMMA MarkSync ==
  ASSUME ReceiverInv, SyncInv, pc = "decode", index < words,
         UNCHANGED <<sent, stream, wire, words, index, data>>, pc' = "open",
         Here \in Events, event'.kind = IF IsTrig(Here) THEN "trig" ELSE "body",
         event'.file = FileOf(Here),
         event'.kind = "body" => event'.len = stream[Here + 1].len
  PROVE  SyncInv'
<1>1. StreamSync' /\ WireSync'
  BY DEF SyncInv, StreamSync, WireSync, AtPacketEnd
<1>2. DecodeSync'
  BY DEF SyncInv, DecodeSync, AtPacketEnd, Base
<1>3. EventSync'
  BY DEF EventSync, Here, Base, Events, PacketStarts, IsEvent, IsTrig, FileOf
<1>4. HeaderSync' /\ BodySync' /\ EndSync'
  BY DEF HeaderSync, BodySync, EndSync
<1> QED BY <1>1, <1>2, <1>3, <1>4 DEF SyncInv

(* What WriteData does.                                                    *)
LEMMA DecodeKeepsSync == ASSUME ReceiverInv, SyncInv, Decode PROVE SyncInv'
<1>1. /\ sent \in Nat /\ words \in Nat /\ index \in Nat /\ stream \in Streams
      /\ SkipWords \in Nat /\ TrigDataSize \in Nat
  BY SyncTypes, DataBufferAssumption
<1>2. pc \notin {"reply", "body"} => wire = <<>>
  BY DEF SyncInv, WireSync
<1>3. ASSUME NEW header \in WordAt(index + 1), DigSkip(header) PROVE SyncInv'
  <2>1. /\ pc = "decode" /\ index < words /\ Mark(index) = "dig" /\ header.type # "chan"
        /\ index' = index + SkipWords
        /\ pc' = IF header.type = "done" THEN "stop" ELSE "decode"
        /\ UNCHANGED <<sent, stream, wire, words, data>>
    BY <1>3 DEF DigSkip, AtMark, dataVars, netVars
  <2>2. /\ Here \in StartsIn(stream) /\ Here <= sent /\ stream[Here].mark = "dig"
        /\ header = stream[Here + 1]
    BY <2>1, AtPacket
  <2>3. CASE header.type # "done"
    <3>1. EndIn(stream, Here) = (Here + SkipWords) - 1
      BY <1>1, <2>1, <2>2, PacketIs
    <3> QED BY <1>1, <2>1, <2>3, <3>1, BehindSync
  <2>4. CASE header.type = "done"
    <3>1. EndSync'
      <4>1. Here \in PacketStarts /\ IsDone(Here)
        BY <2>2, <2>4 DEF StartsIn, PacketStarts, IsDone
      <4> HIDE DEF Here
      <4>2. \E d \in PacketStarts : IsDone(d) /\ d <= sent
        BY <2>2, <4>1
      <4> QED BY <2>1, <4>2 DEF EndSync, PacketStarts, IsDone
    <3>2. StreamSync' /\ WireSync'
      BY <1>2, <2>1, <2>4 DEF SyncInv, StreamSync, WireSync, AtPacketEnd
    <3>3. HeaderSync' /\ BodySync' /\ DecodeSync' /\ EventSync'
      BY <2>1, <2>4 DEF HeaderSync, BodySync, DecodeSync, EventSync
    <3> QED BY <3>1, <3>2, <3>3 DEF SyncInv
  <2> QED BY <2>3, <2>4
<1>4. ASSUME NEW header \in WordAt(index + 1), DigEvent(header) PROVE SyncInv'
  <2>1. /\ pc = "decode" /\ index < words /\ Mark(index) = "dig" /\ header.type = "chan"
        /\ event' = [kind |-> "body", file |-> header.file, len |-> header.len]
        /\ pc' = "open" /\ UNCHANGED <<sent, stream, wire, words, index, data>>
    BY <1>4 DEF DigEvent, AtMark, dataVars, netVars
  <2>2. /\ Here \in StartsIn(stream) /\ Here <= sent /\ stream[Here].mark = "dig"
        /\ header = stream[Here + 1]
    BY <2>1, AtPacket
  <2>3. Here \in Events /\ ~ IsTrig(Here) /\ FileOf(Here) = header.file
    BY <2>1, <2>2 DEF Events, PacketStarts, StartsIn, IsEvent, IsTrig, FileOf
  <2> QED BY <2>1, <2>2, <2>3, MarkSync
<1>5. CASE TrigEvent
  <2>1. /\ pc = "decode" /\ index < words /\ Mark(index) = "trig"
        /\ event' = [kind |-> "trig", file |-> TrigFile, len |-> TrigDataSize]
        /\ pc' = "open" /\ UNCHANGED <<sent, stream, wire, words, index, data>>
    BY <1>5 DEF TrigEvent, AtMark, dataVars, netVars
  <2>2. Here \in StartsIn(stream) /\ stream[Here].mark = "trig"
    BY <2>1, AtPacket
  <2>3. Here \in Events /\ IsTrig(Here) /\ FileOf(Here) = TrigFile
    BY <2>2 DEF Events, PacketStarts, StartsIn, IsEvent, IsTrig, FileOf
  <2> QED BY <2>1, <2>3, MarkSync
<1>6. CASE WriteBody \/ WriteTrig
  <2> DEFINE l == IF event.kind = "body" THEN event.len + 1 ELSE TrigDataSize
  <2>1. /\ pc = "write" /\ pc' = "decode" /\ index' = index + l
        /\ UNCHANGED <<sent, stream, wire, words, data>>
        /\ event.len \in Nat /\ event.kind \in {"body", "trig"}
    BY <1>6, SyncTypes DEF WriteBody, WriteTrig, dataVars, netVars, Event
  <2>2. /\ index < words /\ Here \in Events
        /\ event.kind = IF IsTrig(Here) THEN "trig" ELSE "body"
        /\ event.kind = "body" => event.len = stream[Here + 1].len
    BY <2>1 DEF SyncInv, EventSync
  <2>3. Here \in StartsIn(stream) /\ Here \in Nat
    BY <2>1, <2>2, AtPacket
  <2>4. EndIn(stream, Here) = (Here + l) - 1
    <3>1. CASE IsTrig(Here)
      BY <1>1, <2>2, <2>3, <3>1, PacketIs DEF IsTrig
    <3>2. CASE ~ IsTrig(Here)
      <4>1. stream[Here].mark = "dig" /\ stream[Here + 1].type = "chan"
        BY <2>2, <3>2 DEF Events, IsEvent, IsTrig
      <4>2. EndIn(stream, Here) = Here + event.len
        BY <1>1, <2>2, <2>3, <3>2, <4>1, PacketIs
      <4>3. l = event.len + 1
        BY <2>2, <3>2
      <4> HIDE DEF l
      <4> QED BY <2>1, <2>3, <4>2, <4>3
    <3> QED BY <3>1, <3>2
  <2>5. l \in Nat
    BY <1>1, <2>1
  <2> HIDE DEF l
  <2> QED BY <2>1, <2>2, <2>4, <2>5, BehindSync
<1>7. ASSUME NEW ok \in BOOLEAN, OpenEventFile(ok) \/ WriteGEB PROVE SyncInv'
  <2>1. /\ pc \in {"open", "geb"} /\ pc' \in {"request", "geb", "write"}
        /\ UNCHANGED <<sent, stream, wire, words, index, data, event>>
    BY <1>7 DEF OpenEventFile, WriteGEB, dataVars, netVars
  <2>2. CASE pc' = "request"
    BY <1>2, <2>1, <2>2, LeaveSync
  <2> QED BY <2>1, <2>2, EventStepSync
<1>8. ASSUME NEW header, DigIncomplete(header) PROVE SyncInv'
  <2>1. pc = "decode" /\ pc' = "request" /\ UNCHANGED <<sent, stream, wire>>
    BY <1>8 DEF DigIncomplete, AtMark, dataVars, netVars
  <2> QED BY <1>2, <2>1, LeaveSync
<1>9. CASE Finish \/ TrigIncomplete \/ UnknownDataType
  <2>1. pc = "decode" /\ pc' = "request" /\ UNCHANGED <<sent, stream, wire>>
    BY <1>9 DEF Finish, TrigIncomplete, UnknownDataType, AtMark, dataVars, netVars
  <2> QED BY <1>2, <2>1, LeaveSync
<1> QED BY <1>3, <1>4, <1>5, <1>6, <1>7, <1>8, <1>9 DEF Decode

-----------------------------------------------------------------------------
(* What the server sends.                                                  *)

(* A reply with the n words behind s, as ServerReply puts it on the wire.  *)
ReplyOf(w, type, n, s) ==
  (w \o Header(type, n)) \o [k \in 1 .. n |-> [kind |-> "word", val |-> s + k]]

ReplyIs(w, type, n, s) ==
  /\ w \in Seq(Item) /\ Len(w) = n + 4
  /\ AsField(w[1]) = type /\ AsField(w[2]) = 1 /\ AsField(w[4]) = n
  /\ \A k \in 5 .. n + 4 : AsData(w[k]) = s + (k - 4)

(* The items of a reply on an empty wire.                                  *)
LEMMA ReplyItems ==
  ASSUME NEW type \in Nat, NEW n \in Nat, NEW s \in Nat, NEW w, w = ReplyOf(<<>>, type, n, s)
  PROVE  ReplyIs(w, type, n, s)
<1> DEFINE ws == [k \in 1 .. n |-> [kind |-> "word", val |-> s + k]]
           h == Header(type, n)
<1>1. PICK f \in Nat : f = 4
  OBVIOUS
<1>2. h \in Seq(Item) /\ Len(h) = f
  <2>1. Len(h) = 4
    BY DEF Header
  <2> QED BY <1>1, <2>1, HeaderType
<1>3. ws \in Seq(Item) /\ Len(ws) = n
  <2>1. ws \in [1 .. n -> Item]
    BY DEF Item
  <2> QED BY <2>1
<1>4. \A k \in 1 .. n : AsData(ws[k]) = s + k
  BY DEF AsData
<1>5. AsField(h[1]) = type /\ AsField(h[2]) = 1 /\ AsField(h[4]) = n
  BY DEF Header, Field, AsField
<1> HIDE DEF ws, h
<1>6. <<>> \o h = h
  BY <1>2
<1>7. w = h \o ws
  BY <1>6 DEF h, ws, ReplyOf
<1>8. /\ w \in Seq(Item) /\ Len(w) = f + n
      /\ \A k \in 1 .. f + n : w[k] = IF k <= f THEN h[k] ELSE ws[k - f]
  <2>1. ASSUME NEW x \in Seq(Item), NEW y \in Seq(Item), Len(x) = f, Len(y) = n
        PROVE  /\ x \o y \in Seq(Item) /\ Len(x \o y) = f + n
               /\ \A k \in 1 .. f + n : (x \o y)[k] = IF k <= f THEN x[k] ELSE y[k - f]
    <3>1. x \o y \in Seq(Item)
      BY ConcatProperties
    <3>2. Len(x \o y) = f + n
      BY <2>1, ConcatProperties
    <3>3. \A k \in 1 .. f + n : (x \o y)[k] = IF k <= f THEN x[k] ELSE y[k - f]
      BY <2>1, ConcatProperties
    <3> QED BY <3>1, <3>2, <3>3
  <2>2. /\ h \o ws \in Seq(Item) /\ Len(h \o ws) = f + n
        /\ \A k \in 1 .. f + n : (h \o ws)[k] = IF k <= f THEN h[k] ELSE ws[k - f]
    BY <1>2, <1>3, <2>1, Zenon
  <2> QED BY <1>7, <2>2, Zenon
<1>9. w[1] = h[1] /\ w[2] = h[2] /\ w[4] = h[4]
  <2>1. /\ 1 \in 1 .. f + n /\ 2 \in 1 .. f + n /\ 4 \in 1 .. f + n
        /\ 1 <= f /\ 2 <= f /\ 4 <= f
    BY <1>1
  <2> QED BY <1>8, <2>1
<1>10. ASSUME NEW k \in 5 .. n + 4 PROVE AsData(w[k]) = s + (k - 4)
  <2>1. k - f \in 1 .. n /\ k - f = k - 4 /\ k \in 1 .. f + n /\ ~ (k <= f)
    BY <1>1
  <2>2. w[k] = ws[k - f]
    BY <1>8, <2>1
  <2> QED BY <1>4, <2>1, <2>2
<1>11. Len(w) = n + 4
  BY <1>1, <1>8
<1> QED BY <1>5, <1>8, <1>9, <1>10, <1>11 DEF ReplyIs

(* The server answers, up to the end of a packet.                          *)
LEMMA ServerSync ==
  ASSUME ReceiverInv, StepInv, SyncInv, NEW type \in Nat, NEW n \in Nat,
         type # SERVER_SUMMARY => n = 0, sent + n <= Len(stream), AtPacketEnd(sent + n),
         ServerReply(type, n)
  PROVE  SyncInv'
<1>1. sent \in Nat
  BY SyncTypes
<1>2. pc = "reply" /\ wire = <<>>
  <2>1. netSocket = "up" /\ asked > 0
    BY Zenon DEF ServerReply
  <2> QED BY <2>1 DEF StepInv
<1>3. wire' = ReplyOf(wire, type, n, sent) /\ sent' = sent + n /\ UNCHANGED <<pc, stream>>
  BY Zenon DEF ServerReply, ReplyOf
<1>4. /\ wire' \in Seq(Item) /\ Len(wire') = n + 4
      /\ AsField(wire'[1]) = type /\ AsField(wire'[2]) = 1 /\ AsField(wire'[4]) = n
      /\ \A k \in 5 .. n + 4 : AsData(wire'[k]) = sent + (k - 4)
  <2>1. wire' = ReplyOf(<<>>, type, n, sent)
    BY <1>2, <1>3
  <2>2. ReplyIs(wire', type, n, sent)
    BY <1>1, <2>1, ReplyItems
  <2> QED BY <2>2, Zenon DEF ReplyIs
<1>5. StreamSync'
  BY <1>3 DEF StreamSync, AtPacketEnd
<1>6. HeaderSync'
  <2>1. n <= sent' /\ sent' - n = sent
    BY <1>1, <1>3
  <2>2. AtPacketEnd(sent - n)'
    BY <1>3, <2>1 DEF SyncInv, StreamSync, AtPacketEnd
  <2>3. \A k \in 5 .. Len(wire') : AsData(wire'[k]) = (sent' - n) + (k - 4)
    BY <1>4, <2>1
  <2>4. Pending(n)'
    <3>1. Len(wire') >= 4 /\ Len(wire') <= n + 4
      BY <1>4
    <3>2. AsField(wire'[1]) # SERVER_SUMMARY => n = 0
      BY <1>4
    <3> QED BY <1>4, <2>1, <2>2, <2>3, <3>1, <3>2, Zenon DEF Pending
  <2> QED BY <2>4 DEF HeaderSync
<1>7. pc' = "reply"
  BY <1>2, <1>3
<1> QED BY <1>5, <1>6, <1>7
        DEF SyncInv, WireSync, BodySync, DecodeSync, EventSync, EndSync

(* The server closes the connection: words at the end are lost.            *)
LEMMA CloseSync ==
  ASSUME ReceiverInv, SyncInv, ~ ShortHeader, Close PROVE SyncInv'
<1>1. /\ UNCHANGED <<pc, sent, words, got, index, stream, data, event>>
      /\ \E n \in 0 .. Len(wire) :
           (n = 0 \/ n >= 4 \/ pc = "body") /\ wire' = SubSeq(wire, 1, n)
  BY DEF Close, ServerCloses, FileStep
<1>2. PICK n \in 0 .. Len(wire) :
        (n = 0 \/ n >= 4 \/ pc = "body") /\ wire' = SubSeq(wire, 1, n)
  BY <1>1
<1>3. wire \in Seq(Item) /\ words \in Nat /\ got \in Nat
  BY SyncTypes
<1>4. wire' \in Seq(Item) /\ Len(wire') = n /\ \A k \in 1 .. n : wire'[k] = wire[k]
  BY <1>2, <1>3
<1>5. StreamSync' /\ WireSync'
  <2>1. wire = <<>> => wire' = <<>>
    BY <1>2
  <2> QED BY <1>1, <2>1 DEF SyncInv, StreamSync, WireSync, AtPacketEnd
<1>6. HeaderSync'
  <2> SUFFICES ASSUME pc = "reply", n # 0 PROVE \E m \in Nat : Pending(m)'
    BY <1>1, <1>4 DEF HeaderSync
  <2>1. n >= 4 /\ n <= Len(wire)
    BY <1>2
  <2>2. wire # <<>>
    BY <1>3, <2>1
  <2>3. PICK m \in Nat : Pending(m)
    BY <2>2 DEF SyncInv, HeaderSync
  <2>4. wire'[1] = wire[1] /\ wire'[2] = wire[2] /\ wire'[4] = wire[4]
    BY <1>4, <2>1
  <2>5. \A k \in 5 .. n : AsData(wire'[k]) = (sent - m) + (k - 4)
    <3>1. ASSUME NEW k \in 5 .. n PROVE AsData(wire'[k]) = (sent - m) + (k - 4)
      <4>1. k \in 1 .. n /\ k \in 5 .. Len(wire)
        BY <2>1
      <4> QED BY <1>4, <2>3, <4>1 DEF Pending
    <3> QED BY <3>1
  <2>6. Len(wire') >= 4 /\ Len(wire') <= m + 4
    BY <1>3, <1>4, <2>1, <2>3 DEF Pending
  <2>7. Pending(m)'
    BY <1>1, <1>4, <2>3, <2>4, <2>5, <2>6 DEF Pending, AtPacketEnd
  <2> QED BY <2>7
<1>7. BodySync'
  <2> SUFFICES ASSUME pc = "body" PROVE BodySync'
    BY <1>1 DEF BodySync
  <2>1. got + n <= words
    BY <1>2, <1>3 DEF SyncInv, BodySync
  <2>2. \A k \in DOMAIN wire' : AsData(wire'[k]) = (Base + got) + k
    <3>1. ASSUME NEW k \in DOMAIN wire' PROVE AsData(wire'[k]) = (Base + got) + k
      <4>1. k \in 1 .. n /\ k \in DOMAIN wire
        BY <1>2, <1>3, <1>4
      <4> QED BY <1>4, <4>1 DEF SyncInv, BodySync
    <3> QED BY <3>1
  <2> QED BY <1>1, <1>4, <2>1, <2>2 DEF SyncInv, BodySync, Base, AtPacketEnd
<1>8. DecodeSync'
  BY <1>1 DEF SyncInv, DecodeSync, AtPacketEnd, Base
<1>9. EventSync' /\ EndSync'
  BY <1>1 DEF SyncInv, EventSync, EndSync, Here, Base, Events, PacketStarts, IsEvent, IsTrig,
              FileOf, IsDone
<1> QED BY <1>5, <1>6, <1>7, <1>8, <1>9 DEF SyncInv

(* What recv leaves on the wire.                                           *)
LEMMA RestOf ==
  ASSUME NEW w \in Seq(Item), NEW n \in Nat, n <= Len(w), NEW v, v = SubSeq(w, n + 1, Len(w))
  PROVE  /\ v \in Seq(Item) /\ Len(v) = Len(w) - n /\ DOMAIN v = 1 .. Len(w) - n
         /\ \A k \in 1 .. Len(w) - n : v[k] = w[k + n]
OBVIOUS

(* GetData takes the header off: what it waits for is behind it.           *)
LEMMA HeaderSyncs ==
  ASSUME ReceiverInv, SyncInv, ~ ShortHeader, GetHeader PROVE SyncInv'
<1>1. PICK n \in 1 .. 4 : \E rest \in [n + 1 .. 4 -> Garbage] : RecvHeader(n, rest)
  BY DEF GetHeader
<1>2. PICK rest \in [n + 1 .. 4 -> Garbage] : RecvHeader(n, rest)
  BY <1>1
<1>3. n = 4
  BY <1>2 DEF RecvHeader
<1> DEFINE reply == [i \in 1 .. 4 |-> IF i <= n THEN AsField(wire[i]) ELSE rest[i]]
<1>4. /\ pc = "reply" /\ 4 <= Len(wire)
      /\ wire' = SubSeq(wire, 5, Len(wire))
      /\ UNCHANGED <<sent, stream>>
      /\ IF reply[1] = SERVER_SUMMARY
         THEN words' = RequiredSize(reply) /\ got' = 0 /\ pc' = "body"
         ELSE pc' = "request"
  <2>1. n + 1 = 5
    BY <1>3
  <2> QED BY <1>2, <1>3, <2>1 DEF RecvHeader
<1>5. /\ reply[1] = AsField(wire[1]) /\ reply[2] = AsField(wire[2])
      /\ reply[4] = AsField(wire[4])
  BY <1>3
<1> HIDE DEF reply
<1>6. wire \in Seq(Item) /\ sent \in Nat
  BY SyncTypes
<1>7. wire # <<>>
  BY <1>4, <1>6
<1>8. PICK m \in Nat : Pending(m)
  BY <1>4, <1>7 DEF SyncInv, HeaderSync
<1>9. /\ m <= sent /\ AtPacketEnd(sent - m) /\ Len(wire) <= m + 4
      /\ reply[2] = 1 /\ reply[4] = m
      /\ reply[1] # SERVER_SUMMARY => m = 0
      /\ \A k \in 5 .. Len(wire) : AsData(wire[k]) = (sent - m) + (k - 4)
  BY <1>5, <1>8 DEF Pending
<1>10. wire' \in Seq(Item) /\ Len(wire') = Len(wire) - 4 /\ DOMAIN wire' = 1 .. Len(wire) - 4
  <2>1. n \in Nat /\ n <= Len(wire) /\ wire' = SubSeq(wire, n + 1, Len(wire))
    BY <1>3, <1>4
  <2>2. wire' \in Seq(Item) /\ Len(wire') = Len(wire) - n /\ DOMAIN wire' = 1 .. Len(wire) - n
    BY <1>6, <2>1, RestOf
  <2> QED BY <1>3, <2>2
<1>11. \A k \in 1 .. Len(wire) - 4 : wire'[k] = wire[k + 4]
  <2>1. n \in Nat /\ n <= Len(wire) /\ wire' = SubSeq(wire, n + 1, Len(wire))
    BY <1>3, <1>4
  <2>2. \A k \in 1 .. Len(wire) - n : wire'[k] = wire[k + n]
    BY <1>6, <2>1, RestOf
  <2> QED BY <1>3, <2>2
<1>12. CASE reply[1] = SERVER_SUMMARY
  <2>1. words' = m /\ got' = 0 /\ pc' = "body"
    BY <1>4, <1>9, <1>12 DEF RequiredSize
  <2>2. StreamSync' /\ WireSync'
    BY <1>4, <2>1 DEF SyncInv, StreamSync, WireSync, AtPacketEnd
  <2>3. BodySync'
    <3>1. Base' = sent - m
      BY <1>4, <2>1 DEF Base
    <3>2. AtPacketEnd(sent - m)'
      BY <1>4, <1>9 DEF AtPacketEnd
    <3>3. m <= sent' /\ 0 + Len(wire') <= m
      BY <1>4, <1>6, <1>9, <1>10
    <3>4. ASSUME NEW k \in DOMAIN wire' PROVE AsData(wire'[k]) = ((sent - m) + 0) + k
      <4>1. k \in 1 .. Len(wire) - 4 /\ k + 4 \in 5 .. Len(wire) /\ (k + 4) - 4 = k
        BY <1>6, <1>10
      <4>2. AsData(wire[k + 4]) = (sent - m) + ((k + 4) - 4)
        BY <1>9, <4>1
      <4>3. sent - m \in Nat
        BY <1>6, <1>9
      <4> QED BY <1>11, <4>1, <4>2, <4>3
    <3>5. AtPacketEnd(Base)'
      BY <3>1, <3>2, <1>4 DEF AtPacketEnd
    <3> QED BY <2>1, <3>1, <3>3, <3>4, <3>5 DEF BodySync
  <2> QED BY <2>1, <2>2, <2>3 DEF SyncInv, HeaderSync, DecodeSync, EventSync, EndSync
<1>13. CASE reply[1] # SERVER_SUMMARY
  <2>1. pc' = "request" /\ m = 0
    BY <1>4, <1>9, <1>13
  <2>2. wire' = <<>>
    BY <1>6, <1>9, <1>10, <2>1
  <2> QED BY <1>4, <2>1, <2>2, LeaveSync
<1> QED BY <1>12, <1>13

(* A recv of the body moves words from the wire to data.                   *)
LEMMA BodySyncs ==
  ASSUME ReceiverInv, SyncInv, GetBody PROVE SyncInv'
<1>1. PICK n \in 1 .. Len(wire) : RecvBody(n)
  BY DEF GetBody
<1> DEFINE ws == [k \in 1 .. n |-> AsData(wire[k])]
<1>2. /\ pc = "body" /\ n <= words - got /\ data' = StoreAt(got, ws)
      /\ wire' = SubSeq(wire, n + 1, Len(wire)) /\ got' = got + n
      /\ IF got' < words THEN pc' = pc ELSE pc' = "decode" /\ index' = 0
      /\ UNCHANGED <<sent, words, stream>>
  BY <1>1, Zenon DEF RecvBody
<1>3. /\ wire \in Seq(Item) /\ words \in Nat /\ got \in Nat /\ n \in Nat /\ sent \in Nat
      /\ data \in Seq(Nat)
  BY SyncTypes
<1>4. /\ words <= sent /\ AtPacketEnd(Base) /\ got + Len(wire) <= words
      /\ \A k \in 1 .. got : data[k] = Base + k
      /\ \A k \in DOMAIN wire : AsData(wire[k]) = (Base + got) + k
  BY <1>2 DEF SyncInv, BodySync
<1>5. wire' \in Seq(Item) /\ Len(wire') = Len(wire) - n /\ DOMAIN wire' = 1 .. Len(wire) - n
  BY <1>2, <1>3
<1>6. \A k \in 1 .. Len(wire) - n : wire'[k] = wire[k + n]
  BY <1>2, <1>3
<1>7. Base' = Base /\ AtPacketEnd(Base)' /\ Base \in Nat
  BY <1>2, <1>3, <1>4 DEF Base, AtPacketEnd
<1>8. \A k \in 1 .. got + n : data'[k] = Base + k
  <2> SUFFICES ASSUME NEW k \in 1 .. got + n PROVE data'[k] = Base + k
    OBVIOUS
  <2>1. k \in DOMAIN data
    <3>1. words <= Len(data)
      BY <1>2 DEF ReceiverInv, BufferFits
    <3> QED BY <1>2, <1>3, <3>1
  <2>2. data'[k] = IF k - got \in DOMAIN ws THEN ws[k - got] ELSE data[k]
    BY <1>2, <2>1 DEF StoreAt
  <2>3. CASE k <= got
    BY <1>3, <1>4, <2>2, <2>3
  <2>4. CASE k > got
    <3>1. k - got \in 1 .. n /\ k - got \in DOMAIN wire
      BY <1>3, <2>4
    <3>2. data'[k] = AsData(wire[k - got])
      BY <2>2, <3>1
    <3>3. AsData(wire[k - got]) = (Base + got) + (k - got)
      BY <1>4, <3>1
    <3> QED BY <1>3, <1>7, <3>2, <3>3
  <2> QED BY <1>3, <2>3, <2>4
<1> HIDE DEF ws
<1>9. ASSUME NEW k \in DOMAIN wire' PROVE AsData(wire'[k]) = (Base + got') + k
  <2>1. k \in 1 .. Len(wire) - n /\ k + n \in DOMAIN wire
    BY <1>3, <1>5
  <2>2. AsData(wire[k + n]) = (Base + got) + (k + n)
    BY <1>4, <2>1
  <2> QED BY <1>2, <1>3, <1>6, <1>7, <2>1, <2>2
<1>10. StreamSync'
  BY <1>2 DEF SyncInv, StreamSync, AtPacketEnd
<1>11. CASE got' < words
  <2>1. pc' = "body"
    BY <1>2, <1>11
  <2>2. got' + Len(wire') <= words'
    <3>1. PICK l \in Nat : l = Len(wire)
      BY <1>3
    <3>2. Len(wire') = l - n /\ got' = got + n
      BY <1>2, <1>5, <3>1
    <3>3. got' + Len(wire') = got + l
      BY <1>3, <3>2
    <3> QED BY <1>2, <1>4, <3>1, <3>3
  <2>3. BodySync'
    BY <1>2, <1>4, <1>7, <1>8, <1>9, <2>2 DEF BodySync
  <2> QED BY <1>10, <2>1, <2>3
          DEF SyncInv, WireSync, HeaderSync, DecodeSync, EventSync, EndSync
<1>12. CASE ~ (got' < words)
  <2>1. pc' = "decode" /\ index' = 0
    BY <1>2, <1>12
  <2>2. got' = words
    BY <1>2, <1>3, <1>12
  <2>3. wire' = <<>>
    BY <1>2, <1>3, <1>4, <1>5, <2>2
  <2>4. DecodeSync'
    <3>1. Base' + index' = Base' /\ index' <= words'
      BY <1>2, <1>3, <1>7, <2>1
    <3>2. AtPacketEnd(Base + index)'
      BY <1>7, <3>1 DEF AtPacketEnd
    <3> QED BY <1>2, <1>4, <1>7, <1>8, <2>2, <3>1, <3>2 DEF DecodeSync
  <2> QED BY <1>10, <2>1, <2>3, <2>4
          DEF SyncInv, WireSync, HeaderSync, BodySync, EventSync, EndSync
<1> QED BY <1>11, <1>12

(* The receiver stays in step with a server that ends its replies at the   *)
(* end of a packet.                                                        *)
LEMMA NextSync ==
  ASSUME ReceiverInv, StepInv, SyncInv, WholeReplies, ~ ShortHeader, [Next]_vars
  PROVE  SyncInv'
<1>1. CASE Decode
  BY <1>1, DecodeKeepsSync
<1>2. CASE Summary
  <2>1. PICK n \in 1 .. MaxReply :
          /\ sent + n <= Len(stream) /\ MayEndReply(sent + n)
          /\ ServerReply(SERVER_SUMMARY, n)
    BY <1>2 DEF Summary, ServerSummary
  <2>2. n \in Nat /\ SERVER_SUMMARY \in Nat /\ AtPacketEnd(sent + n)
    BY <2>1, GetDataAssumption DEF SERVER_SUMMARY, MayEndReply
  <2> QED BY <2>1, <2>2, ServerSync
<1>3. CASE NoData
  <2>1. PICK type \in {SERVER_SUMMARY, INSUFF_DATA, NO_DATA} : ServerReply(type, 0)
    BY <1>3 DEF NoData, ServerNoData
  <2>2. type \in Nat /\ 0 \in Nat
    BY DEF SERVER_SUMMARY, INSUFF_DATA, NO_DATA
  <2>3. sent + 0 <= Len(stream) /\ AtPacketEnd(sent + 0)
    <3>1. sent + 0 = sent
      BY SyncTypes
    <3> QED BY <3>1 DEF SyncInv, StreamSync
  <2> QED BY <2>1, <2>2, <2>3, ServerSync
<1>4. CASE Close
  BY <1>4, CloseSync
<1>5. CASE ReplyHeader
  BY <1>5, HeaderSyncs DEF ReplyHeader
<1>6. CASE ReplyBody
  BY <1>6, BodySyncs DEF ReplyBody
<1>7. CASE NoReply
  <2>1. /\ pc \in {"reply", "body"} /\ pc' = "request" /\ UNCHANGED <<sent, stream, wire>>
        /\ wire = <<>> \/ (pc = "body" /\ words = 0)
    BY <1>7 DEF NoReply, RecvNothing, netVars
  <2>2. wire = <<>>
    <3>1. wire \in Seq(Item) /\ got \in Nat
      BY SyncTypes
    <3>2. pc = "body" => got + Len(wire) <= words
      BY DEF SyncInv, BodySync
    <3>3. pc = "body" /\ words = 0 => Len(wire) = 0
      BY <3>1, <3>2
    <3> QED BY <2>1, <3>1, <3>3
  <2> QED BY <2>1, <2>2, LeaveSync
<1>8. CASE Connect \/ Resend
  <2>1. /\ pc \in {"connect", "request"} /\ pc' = "request" /\ UNCHANGED <<sent, stream, wire>>
    BY <1>8 DEF Connect, Resend, SetUpConnection, SendFails, getVars
  <2>2. wire = <<>>
    BY <2>1 DEF SyncInv, WireSync
  <2> QED BY <2>1, <2>2, LeaveSync
<1>9. CASE Send
  <2>1. pc = "request" /\ pc' = "reply" /\ UNCHANGED <<sent, stream, wire>>
    BY <1>9 DEF Send, SendRequest
  <2>2. wire = <<>>
    BY <2>1 DEF SyncInv, WireSync
  <2>3. StreamSync'
    BY <2>1 DEF SyncInv, StreamSync, AtPacketEnd
  <2> QED BY <2>1, <2>2, <2>3
          DEF SyncInv, WireSync, HeaderSync, BodySync, DecodeSync, EventSync, EndSync
<1>10. CASE EndRun \/ CloseOne \/ End
  <2>1. /\ pc \in {"stop", "closing", "ended"} /\ pc' \in {"stop", "closing", "ended"}
        /\ UNCHANGED <<sent, stream>> /\ wire' \in {wire, <<>>}
    BY <1>10 DEF EndRun, CloseOne, End, getVars, netVars
  <2>2. wire = <<>>
    BY <2>1 DEF SyncInv, WireSync
  <2> QED BY <2>1, <2>2, StopSync
<1>11. CASE Kill \/ BrokenPipe
  BY <1>11, LeaveSync DEF Kill, BrokenPipe, Die
<1>12. CASE Restart
  <2>1. pc = "dead" /\ pc' = "connect" /\ UNCHANGED <<sent, stream, wire>>
    BY <1>12 DEF Restart, netVars
  <2>2. wire = <<>>
    BY <2>1 DEF SyncInv, WireSync
  <2> QED BY <2>1, <2>2, LeaveSync
<1>13. CASE Terminated \/ UNCHANGED vars
  BY <1>13, SameSync DEF Terminated, vars, getVars
<1> QED BY <1>1, <1>2, <1>3, <1>4, <1>5, <1>6, <1>7, <1>8, <1>9, <1>10, <1>11, <1>12, <1>13
        DEF Next, Main, Server

(* It is when it starts.                                                   *)
LEMMA InitSync == ASSUME Init PROVE SyncInv /\ StepInv
<1>1. pc = "connect" /\ sent = 0 /\ wire = <<>> /\ stream \in Streams /\ asked = 0
      /\ netSocket = "none"
  BY DEF Init, GetInit, DataInit
<1>2. StreamSync
  <2>1. stream \in Seq(Word) /\ (stream # <<>> => stream[1].start)
    BY <1>1, StreamType, FramingAssumption DEF WellFramed
  <2>2. Len(stream) # 0 => stream[0 + 1].start
    BY <2>1
  <2> QED BY <1>1, <2>1, <2>2 DEF StreamSync, AtPacketEnd
<1> QED BY <1>1, <1>2 DEF StepInv, SyncInv, WireSync, HeaderSync, BodySync, DecodeSync,
             EventSync, EndSync

(* Both invariants, with those they rest on.                               *)
Synced == ReceiverInv /\ StepInv /\ SyncInv

(* They hold.                                                              *)
LEMMA SyncedHolds ==
  ASSUME WholeReplies, ~ ShortHeader PROVE Spec => []Synced
<1>1. Init => Synced
  BY InitInv, InitSync DEF Synced
<1>2. Synced /\ [Next]_vars => Synced'
  BY NextInv, NextInStep, NextSync DEF Synced
<1> QED BY <1>1, <1>2, PTL DEF Spec

(* The run only ends at a type D packet of the server: no word of an event *)
(* is ever taken for the header of one (WriteData), as long as the server  *)
(* ends its replies at the end of a packet.                                *)
THEOREM ReceiverEndsOnlyAtDone ==
  WholeReplies /\ ~ ShortHeader => (Spec => []EndsOnlyAtDone)
<1> SUFFICES ASSUME WholeReplies, ~ ShortHeader PROVE Spec => []EndsOnlyAtDone
  OBVIOUS
<1>1. Synced => EndsOnlyAtDone
  BY DEF Synced, SyncInv, EndSync, EndsOnlyAtDone
<1>2. Spec => []Synced
  BY SyncedHolds
<1> QED BY <1>1, <1>2, PTL

-----------------------------------------------------------------------------
(* A recorder.                                                             *)

(* The words of data from i on, for an i within what was received.         *)
LEMMA CopyWords ==
  ASSUME ReceiverInv, SyncInv, pc = "write", NEW i \in Nat, NEW n \in Nat, i + n <= words
  PROVE  CopyOfData(i, n) = [k \in 1 .. n |-> (Base + i) + k]
<1>1. words \in Nat /\ data \in Seq(Nat) /\ sent \in Nat /\ words <= Len(data)
  BY SyncTypes DEF ReceiverInv, BufferFits
<1>2. Base \in Nat /\ \A k \in 1 .. words : data[k] = Base + k
  BY <1>1 DEF SyncInv, DecodeSync, Base
<1>3. ASSUME NEW k \in 1 .. n
      PROVE  (IF i + k \in DOMAIN data THEN data[i + k] ELSE 0) = (Base + i) + k
  <2>1. i + k \in 1 .. words /\ i + k \in DOMAIN data
    BY <1>1
  <2>2. data[i + k] = Base + (i + k)
    BY <1>2, <2>1
  <2> QED BY <1>2, <2>1, <2>2
<1> QED BY <1>3 DEF CopyOfData

(* Where the event is that is written.                                     *)
LEMMA AtWrite ==
  ASSUME ReceiverInv, SyncInv, pc = "write"
  PROVE  /\ Here \in Events /\ Here \in EventsIn(stream) /\ event.file = FileOf(Here)
         /\ event.kind = "trig" => /\ stream[Here].mark = "trig"
                                   /\ EndIn(stream, Here) = (Here + TrigDataSize) - 1
                                   /\ index + TrigDataSize <= words
         /\ event.kind = "body" => /\ stream[Here].mark = "dig"
                                   /\ EndIn(stream, Here) = Here + event.len
                                   /\ (index + 1) + event.len <= words
                                   /\ event.len >= 2
<1>1. /\ sent \in Nat /\ words \in Nat /\ index \in Nat /\ event.len \in Nat
      /\ stream \in Streams /\ TrigDataSize \in Nat
  BY SyncTypes, DataBufferAssumption DEF Event
<1>2. /\ index < words /\ Here \in Events /\ event.file = FileOf(Here)
      /\ event.kind = IF IsTrig(Here) THEN "trig" ELSE "body"
      /\ event.kind = "body" => event.len = stream[Here + 1].len
      /\ words <= sent
  BY DEF SyncInv, EventSync, DecodeSync
<1>3. /\ Here \in StartsIn(stream) /\ Here \in Nat
      /\ EndIn(stream, Here) <= sent
      /\ Base + index \in Nat
  BY <1>2, AtPacket
<1>4. Here \in EventsIn(stream)
  BY <1>2, <1>3 DEF Events, IsEvent, IsTrig, EventsIn
<1>5. PICK h \in Nat : h = Here /\ h = ((sent - words) + index) + 1
  BY <1>3 DEF Here, Base
<1>6. ASSUME event.kind = "trig"
      PROVE  /\ stream[h].mark = "trig" /\ EndIn(stream, h) = (h + TrigDataSize) - 1
             /\ index + TrigDataSize <= words
  <2>1. stream[h].mark = "trig"
    BY <1>2, <1>5, <1>6 DEF IsTrig
  <2>2. EndIn(stream, h) = (h + TrigDataSize) - 1
    BY <1>1, <1>3, <1>5, <2>1, PacketIs
  <2>3. (h + TrigDataSize) - 1 <= sent
    BY <1>3, <1>5, <2>2
  <2> QED BY <1>1, <1>2, <1>5, <2>1, <2>2, <2>3
<1>7. ASSUME event.kind = "body"
      PROVE  /\ stream[h].mark = "dig" /\ EndIn(stream, h) = h + event.len
             /\ (index + 1) + event.len <= words /\ event.len >= 2
  <2>1. stream[h].mark = "dig" /\ stream[h + 1].type = "chan"
    BY <1>2, <1>5, <1>7 DEF IsTrig, Events, IsEvent
  <2>2. EndIn(stream, h) = h + event.len /\ event.len >= 2
    BY <1>1, <1>2, <1>3, <1>5, <1>7, <2>1, PacketIs
  <2>3. h + event.len <= sent
    BY <1>3, <1>5, <2>2
  <2> QED BY <1>1, <1>2, <1>5, <2>1, <2>2, <2>3
<1> QED BY <1>2, <1>4, <1>5, <1>6, <1>7

(* What is written of a digitizer event is the event.                      *)
LEMMA BodyIsWhole ==
  ASSUME ReceiverInv, SyncInv, pc = "write", event.kind = "body"
  PROVE  EventIn(stream, BodyChunk(event.len)) = Here
<1> DEFINE chunk == BodyChunk(event.len)
<1>1. /\ index \in Nat /\ event.len \in Nat /\ index + 1 \in Nat
      /\ Here \in EventsIn(stream) /\ stream[Here].mark = "dig"
      /\ EndIn(stream, Here) = Here + event.len /\ (index + 1) + event.len <= words
      /\ event.len >= 2
  BY SyncTypes, AtWrite DEF Event
<1>2. CopyOfData(index + 1, event.len) = [k \in 1 .. event.len |-> (Base + (index + 1)) + k]
  BY <1>1, CopyWords
<1>3. Here \in Nat /\ Base + (index + 1) = Here
  <2>1. Base + index \in Nat /\ Here \in Nat
    <3>1. index < words
      BY DEF SyncInv, EventSync
    <3> QED BY <3>1, AtPacket
  <2>2. Base \in Int
    BY SyncTypes DEF Base
  <2> QED BY <1>1, <2>1, <2>2 DEF Here
<1>4. chunk.words = [k \in 1 .. event.len |-> Here + k]
  BY <1>2, <1>3 DEF BodyChunk, Piece
<1>5. chunk.kind = "body" /\ chunk.size = event.len /\ Len(chunk.words) = event.len
  BY <1>1, <1>4 DEF BodyChunk, Piece
<1> HIDE DEF chunk, Here
<1>6. PayloadIn(stream, Here) = [k \in 1 .. event.len |-> Here + k]
  <2>1. FirstIn(stream, Here) = Here + 1
    BY <1>1 DEF FirstIn
  <2>2. (EndIn(stream, Here) - (Here + 1)) + 1 = event.len
    BY <1>1, <1>3
  <2>3. \A k \in 1 .. event.len : (Here + 1) + k - 1 = Here + k
    BY <1>3
  <2> QED BY <2>1, <2>2, <2>3 DEF PayloadIn
<1>7. Claim(chunk) = Here
  <2>1. chunk.words[1] = Here + 1
    BY <1>1, <1>4
  <2> QED BY <1>3, <1>5, <2>1 DEF Claim
<1>8. WholeIn(stream, chunk, Here)
  BY <1>1, <1>4, <1>5, <1>6 DEF WholeIn
<1> QED BY <1>1, <1>7, <1>8 DEF EventIn, chunk

(* What is written of a trigger event is the event.                        *)
LEMMA TrigIsWhole ==
  ASSUME ReceiverInv, SyncInv, pc = "write", event.kind = "trig"
  PROVE  EventIn(stream, TrigChunk(TrigPacketLength)) = Here
<1> DEFINE chunk == TrigChunk(TrigPacketLength)
<1>1. /\ index \in Nat /\ TrigDataSize \in Nat /\ TrigDataSize >= 1
      /\ Here \in EventsIn(stream) /\ stream[Here].mark = "trig"
      /\ EndIn(stream, Here) = (Here + TrigDataSize) - 1 /\ index + TrigDataSize <= words
  BY SyncTypes, AtWrite, DataBufferAssumption
<1>2. CopyOfData(index, TrigDataSize) = [k \in 1 .. TrigDataSize |-> (Base + index) + k]
  BY <1>1, CopyWords
<1>3. Here \in Nat /\ Base + index \in Nat /\ Here = (Base + index) + 1
  <2>1. index < words
    BY DEF SyncInv, EventSync
  <2> QED BY <2>1, AtPacket DEF Here
<1>4. chunk.words = [k \in 1 .. TrigDataSize |-> (Base + index) + k]
  BY <1>2 DEF TrigChunk, Piece
<1>5. chunk.kind = "trig" /\ chunk.size = TrigPacketLength
  BY DEF TrigChunk, Piece
<1> HIDE DEF chunk, Here
<1>6. PayloadIn(stream, Here) = [k \in 1 .. TrigDataSize |-> (Base + index) + k]
  <2>1. FirstIn(stream, Here) = Here
    BY <1>1 DEF FirstIn
  <2>2. (EndIn(stream, Here) - Here) + 1 = TrigDataSize
    BY <1>1, <1>3
  <2>3. \A k \in 1 .. TrigDataSize : Here + k - 1 = (Base + index) + k
    BY <1>3
  <2> QED BY <2>1, <2>2, <2>3 DEF PayloadIn
<1>7. Claim(chunk) = Here
  <2>1. chunk.words[1] = (Base + index) + 1
    BY <1>1, <1>4
  <2> QED BY <1>3, <1>5, <2>1 DEF Claim
<1>8. WholeIn(stream, chunk, Here)
  BY <1>1, <1>4, <1>5, <1>6 DEF WholeIn
<1> QED BY <1>1, <1>7, <1>8 DEF EventIn, chunk

(* What is written is recorded, unless fwrite falls short of it.           *)
LEMMA WritesHere ==
  ASSUME ReceiverInv, SyncInv, OnNewest, ~ FwriteMayFail, WriteBody \/ WriteTrig
  PROVE  /\ Here \in Nat \ {0} /\ Here \in Events /\ event.file = FileOf(Here)
         /\ Log' = [Log EXCEPT ![event.file] = Append(@, Here)]
<1>1. pc = "write" /\ Here \in Nat /\ Here # 0
  <2>1. pc = "write"
    BY DEF WriteBody, WriteTrig
  <2>2. index < words
    BY <2>1 DEF SyncInv, EventSync
  <2> QED BY <2>1, <2>2, AtPacket DEF Here
<1>2. Here \in Events /\ event.file = FileOf(Here)
  BY <1>1, AtWrite
<1> HIDE DEF Log, Here
<1>3. CASE WriteBody
  <2>1. event.kind = "body" /\ event.len # 0 /\ Fwritten(event.len) = {event.len}
    BY <1>1, <1>3, AtWrite DEF WriteBody, Fwritten
  <2>2. EventIn(stream, BodyChunk(event.len)) = Here
    BY <1>1, <2>1, BodyIsWhole
  <2>3. Log' = [Log EXCEPT ![event.file] = Append(@, Here)]
    BY <1>3, <2>1, <2>2, WriteBodyLog
  <2> QED BY <1>1, <1>2, <2>3
<1>4. CASE WriteTrig
  <2>1. /\ event.kind = "trig" /\ TrigPacketLength # 0
        /\ Fwritten(TrigPacketLength) = {TrigPacketLength}
    BY <1>4, DataBufferAssumption DEF WriteTrig, Fwritten
  <2>2. EventIn(stream, TrigChunk(TrigPacketLength)) = Here
    BY <1>1, <2>1, TrigIsWhole
  <2>3. event.file = TrigFile
    BY <1>1, <1>2, <2>1, AtWrite DEF FileOf, IsTrig
  <2>4. Log' = [Log EXCEPT ![event.file] = Append(@, Here)]
    BY <1>4, <2>1, <2>2, <2>3, WriteTrigLog
  <2> QED BY <1>1, <1>2, <2>4
<1> QED BY <1>3, <1>4

(* It is the newest of all that is.                                        *)
LEMMA WritesNewest ==
  ASSUME ReceiverInv, SyncInv, OnNewest, FreshInv, ~ FwriteMayFail, WriteBody \/ WriteTrig,
         Log' # Log
  PROVE  Newest(Here)
<1> HIDE DEF Log, Here
<1>1. pc = "write" /\ Here # 0
  BY WritesHere DEF WriteBody, WriteTrig
<1>2. CASE WriteBody
  <2>1. event.kind = "body" /\ Fwritten(event.len) = {event.len}
    BY <1>2 DEF WriteBody, Fwritten
  <2>2. EventIn(stream, BodyChunk(event.len)) = Here
    BY <1>1, <2>1, BodyIsWhole
  <2>3. PICK n \in Fwritten(event.len), e \in Nat :
          e = EventIn(stream, BodyChunk(n)) /\ Records(event.file, e)
    BY <1>2, WriteBodyRecords
  <2>4. e = Here
    BY <2>1, <2>2, <2>3
  <2> QED BY <1>1, <2>3, <2>4 DEF Records
<1>3. CASE WriteTrig
  <2>1. event.kind = "trig" /\ Fwritten(TrigPacketLength) = {TrigPacketLength}
    BY <1>3 DEF WriteTrig, Fwritten
  <2>2. EventIn(stream, TrigChunk(TrigPacketLength)) = Here
    BY <1>1, <2>1, TrigIsWhole
  <2>3. PICK n \in Fwritten(TrigPacketLength), e \in Nat :
          e = EventIn(stream, TrigChunk(n)) /\ Records(TrigFile, e)
    BY <1>3, WriteTrigRecords
  <2>4. e = Here
    BY <2>1, <2>2, <2>3
  <2> QED BY <1>1, <2>3, <2>4 DEF Records
<1> QED BY <1>2, <1>3

(* The recorder starts with the events of the stream and none recorded.    *)
LEMMA RecorderInit == ASSUME Init PROVE Rec!Init
<1>1. stream \in Streams
  BY DEF Init, GetInit, DataInit
<1>2. stream \in Seq(Word)
  BY <1>1, StreamType
<1>3. ASSUME NEW p \in Events PROVE p \in Nat /\ FileOf(p) \in FileID
  <2>1. p \in StartsIn(stream) /\ p \in Nat
    BY <1>2 DEF Events, PacketStarts, StartsIn
  <2>2. CASE IsTrig(p)
    BY <2>1, <2>2, ChannelsAssumption DEF FileOf
  <2>3. CASE ~ IsTrig(p)
    <3>1. p + 1 <= EndIn(stream, p) /\ EndIn(stream, p) \in p .. Len(stream)
      BY <1>1, <2>1, <2>3, PacketIs DEF IsTrig
    <3>2. stream[p + 1] \in Word
      BY <1>2, <2>1, <3>1
    <3> QED BY <2>1, <2>3, <3>2 DEF FileOf, Word
  <2> QED BY <2>2, <2>3
<1>4. Log = [id \in FileID |-> <<>>]
  BY InitLog
<1> HIDE DEF Log
<1> QED BY <1>3, <1>4 DEF Rec!Init

(* A step records the next event, or none.                                 *)
LEMMA RecorderNext ==
  ASSUME ReceiverInv, SyncInv, OnNewest, FreshInv, ~ FwriteMayFail, [Next]_vars
  PROVE  [Rec!Next]_Rec!vars
<1>1. [p \in Events |-> FileOf(p)]' = [p \in Events |-> FileOf(p)]
  <2>1. stream' = stream
    BY Steps
  <2> QED BY <2>1 DEF Events, PacketStarts, IsEvent, IsTrig, FileOf
<1>2. CASE Log' = Log
  BY <1>1, <1>2 DEF Rec!vars
<1>3. CASE Log' # Log
  <2>1. WriteBody \/ WriteTrig
    BY <1>3, QuietLog
  <2> HIDE DEF Log, Here
  <2>2. /\ Here \in Events /\ event.file = FileOf(Here)
        /\ Log' = [Log EXCEPT ![event.file] = Append(@, Here)]
    BY <2>1, WritesHere
  <2>3. Newest(Here)
    BY <1>3, <2>1, WritesNewest
  <2>5. \A id \in FileID : \A i \in DOMAIN Log[id] : Log[id][i] < Here
    BY <2>3 DEF Newest
  <2>6. Log' = [Log EXCEPT ![[p \in Events |-> FileOf(p)][Here]] = Append(@, Here)]
    BY <2>2
  <2>7. Rec!Record(Here)
    BY <1>1, <2>5, <2>6 DEF Rec!Record
  <2> QED BY <2>2, <2>7 DEF Rec!Next
<1> QED BY <1>2, <1>3

(* The receiver is a recorder, also when it is killed at any point and     *)
(* started again: nothing is torn, misfiled, repeated or out of order.     *)
THEOREM ReceiverImplementsRecorder ==
  WholeReplies /\ ~ ShortHeader /\ ~ FwriteMayFail /\ Orderly => (Spec => ImplementsRecorder)
<1> SUFFICES ASSUME WholeReplies, ~ ShortHeader, ~ FwriteMayFail, Orderly
             PROVE  Spec => ImplementsRecorder
  OBVIOUS
<1>1. Init => Rec!Init
  BY RecorderInit
<1>2. Synced /\ OrderInv /\ [Next]_vars => [Rec!Next]_Rec!vars
  BY RecorderNext, OrderlyOnNewest DEF Synced, OrderInv
<1>3. Spec => []Synced
  BY SyncedHolds
<1>4. Spec => []OrderInv
  BY OrderInvHolds
<1> QED BY <1>1, <1>2, <1>3, <1>4, PTL DEF Spec, ImplementsRecorder, Rec!Spec

-----------------------------------------------------------------------------
(* Nothing is lost.                                                        *)

FileIn(s, p) == IF s[p].mark = "trig" THEN TrigFile ELSE s[p + 1].file

RecordedIn(s, log, p) ==
  \E i \in DOMAIN log[FileIn(s, p)] : log[FileIn(s, p)][i] = p

(* Every event of s up to n is in the log.                                 *)
AllTo(s, log, n) == \A p \in EventsIn(s) : p <= n => RecordedIn(s, log, p)

(* What the first process of a run has on disk, as long as it keeps its    *)
(* connection: all it decoded, and before that all that was sent before.   *)
LossInv ==
  starts = 1 =>
    /\ pc = "connect" => sent = 0
    /\ pc = "request" /\ netSocket = "up" => AllTo(stream, Log, sent)
    /\ pc = "reply" /\ wire = <<>> /\ netSocket = "up" => AllTo(stream, Log, sent)
    /\ pc = "reply" /\ wire # <<>> => AllTo(stream, Log, sent - AsField(wire[4]))
    /\ pc = "body" => AllTo(stream, Log, Base)
    /\ pc \in {"decode", "open", "geb", "write"} => AllTo(stream, Log, Base + index)
    /\ pc \in {"stop", "closing", "ended"} =>
         \E d \in StartsIn(stream) :
           /\ stream[d].mark = "dig" /\ stream[d + 1].type = "done"
           /\ AllTo(stream, Log, d - 1)

Appended(l, id, e) == [l EXCEPT ![id] = Append(@, e)]

(* Recording an event keeps what is recorded.                              *)
LEMMA AllAppend ==
  ASSUME stream \in Streams, NEW l \in [FileID -> Seq(Nat)], NEW id \in FileID, NEW e \in Nat,
         NEW m, m = Appended(l, id, e)
  PROVE  /\ \A p \in EventsIn(stream) : RecordedIn(stream, l, p) => RecordedIn(stream, m, p)
         /\ e \in EventsIn(stream) /\ id = FileIn(stream, e) => RecordedIn(stream, m, e)
<1>1. ASSUME NEW p \in EventsIn(stream) PROVE FileIn(stream, p) \in FileID
  <2>1. p \in StartsIn(stream) /\ stream \in Seq(Word)
    BY StreamType DEF EventsIn
  <2>2. CASE stream[p].mark # "trig"
    <3>1. p + 1 <= EndIn(stream, p) /\ EndIn(stream, p) \in p .. Len(stream) /\ p \in Nat
      BY <2>1, <2>2, PacketIs DEF StartsIn
    <3>2. stream[p + 1] \in Word
      BY <2>1, <3>1
    <3> QED BY <2>2, <3>2 DEF FileIn, Word
  <2> QED BY <2>2, ChannelsAssumption DEF FileIn
<1>2. ASSUME NEW k \in FileID
      PROVE  m[k] = IF k = id THEN Append(l[k], e) ELSE l[k]
  BY <1>2 DEF Appended
<1>3. ASSUME NEW s \in Seq(Nat)
      PROVE  /\ \A i \in DOMAIN s : i \in DOMAIN Append(s, e) /\ Append(s, e)[i] = s[i]
             /\ \E i \in DOMAIN Append(s, e) : Append(s, e)[i] = e
  <2>1. Len(s) + 1 \in DOMAIN Append(s, e) /\ Append(s, e)[Len(s) + 1] = e
    OBVIOUS
  <2>2. ASSUME NEW i \in DOMAIN s PROVE i \in DOMAIN Append(s, e) /\ Append(s, e)[i] = s[i]
    OBVIOUS
  <2>3. \E i \in DOMAIN Append(s, e) : Append(s, e)[i] = e
    BY <2>1, Zenon
  <2> QED BY <2>2, <2>3
<1>4. ASSUME NEW p \in EventsIn(stream), RecordedIn(stream, l, p)
      PROVE  RecordedIn(stream, m, p)
  <2> DEFINE k == FileIn(stream, p)
  <2>1. k \in FileID
    BY <1>1
  <2>2. PICK i \in DOMAIN l[k] : l[k][i] = p
    BY <1>4 DEF RecordedIn
  <2>3. l[k] \in Seq(Nat)
    BY <2>1
  <2> HIDE DEF k
  <2>4. i \in DOMAIN m[k] /\ m[k][i] = p
    BY <1>2, <1>3, <2>1, <2>2, <2>3
  <2> QED BY <2>4 DEF RecordedIn, k
<1>5. ASSUME e \in EventsIn(stream), id = FileIn(stream, e) PROVE RecordedIn(stream, m, e)
  <2>1. m[id] = Append(l[id], e) /\ l[id] \in Seq(Nat)
    BY <1>2
  <2> QED BY <1>3, <1>5, <2>1 DEF RecordedIn
<1> QED BY <1>4, <1>5

(* All up to a packet, and the packet if it is an event: all up to its end.*)
LEMMA AllBehind ==
  ASSUME stream \in Streams, NEW l, NEW p \in StartsIn(stream), NEW n \in Nat, p = n + 1,
         AllTo(stream, l, n), p \in EventsIn(stream) => RecordedIn(stream, l, p)
  PROVE  AllTo(stream, l, EndIn(stream, p))
<1> SUFFICES ASSUME NEW q \in EventsIn(stream), q <= EndIn(stream, p)
             PROVE  RecordedIn(stream, l, q)
  BY DEF AllTo
<1>1. q \in StartsIn(stream) /\ q \in Nat /\ p \in Nat /\ EndIn(stream, p) \in Nat
  <2>1. stream \in Seq(Word)
    BY StreamType
  <2> QED BY <2>1, PacketIs DEF EventsIn, StartsIn
<1>2. ~ (q \in p + 1 .. EndIn(stream, p))
  <2>1. stream[q].start
    BY <1>1 DEF StartsIn
  <2> QED BY <2>1, NoneStarts
<1>3. q <= n \/ q = p
  BY <1>1, <1>2
<1> QED BY <1>3 DEF AllTo

(* Without failures of fopen, the first process can open every file.       *)
LEMMA AllOpen ==
  ASSUME ReceiverInv, NewestInv, starts = 1, ~ FopenMayFail, NEW ok \in BOOLEAN,
         OpenEventFile(ok)
  PROVE  ok
<1> SUFFICES ASSUME ~ ok PROVE FALSE
  OBVIOUS
<1>1. pc = "open" /\ OpenFile(event.file, FALSE)
  BY DEF OpenEventFile
<1>2. PICK id \in FileID : id = event.file
  BY DEF ReceiverInv, TypeOK, Event
<1>3. /\ InTurn(id) /\ disk[id] \in Seq(DiskFile) /\ count[id] \in Nat
      /\ file[id] => count[id] + 1 \in DOMAIN disk[id]
  BY <1>1, ObjectType DEF NewestInv, ReceiverInv, TypeOK, FilesInv
<1>4. CASE OpenFirst(id, FALSE)
  <2>1. ~ Openable(disk[id], count[id]) /\ ~ file[id]
    BY <1>4 DEF OpenFirst, NewFile
  <2> QED BY <1>3, <2>1 DEF Openable, InTurn
<1>5. CASE RollOver(id, FALSE)
  <2>1. PICK sealed \in {TRUE, ~ ChmodMayFail} :
          NewFile(id, SetReadOnly(disk[id], count[id], sealed), count[id] + 1, FALSE)
    BY <1>5 DEF RollOver
  <2>2. sealed \in BOOLEAN /\ file[id]
    BY <1>5, OutFileAssumption DEF RollOver
  <2> DEFINE d == SetReadOnly(disk[id], count[id], sealed)
  <2>3. d \in Seq(DiskFile) /\ Len(d) = Len(disk[id])
    BY <1>3, <2>2, SetReadOnlyType
  <2>4. ~ Openable(d, count[id] + 1)
    BY <2>1 DEF NewFile
  <2> HIDE DEF d
  <2> QED BY <1>3, <2>2, <2>3, <2>4 DEF Openable, InTurn
<1> QED BY <1>1, <1>2, <1>4, <1>5 DEF OpenFile, KeepOpen

(* The first process only has its newest files open.                       *)
LEMMA FirstOnNewest ==
  ASSUME ReceiverInv, NewestInv, starts = 1 PROVE OnNewest
<1> SUFFICES ASSUME pc # "dead", NEW id \in FileID, file[id]
             PROVE  count[id] + 1 = Len(disk[id])
  BY DEF OnNewest
<1>1. /\ disk[id] \in Seq(DiskFile) /\ count[id] \in Nat
      /\ count[id] + 1 \in DOMAIN disk[id]
  BY ObjectType DEF ReceiverInv, TypeOK, FilesInv
<1>2. Len(disk[id]) <= count[id] + 1
  BY <1>1 DEF NewestInv, InTurn
<1> QED BY <1>1, <1>2

(* The server's reply goes on an empty wire.                               *)
LEMMA ServerReplyIs ==
  ASSUME ReceiverInv, StepInv, NEW type \in Nat, NEW n \in Nat, ServerReply(type, n)
  PROVE  /\ pc = "reply" /\ pc' = "reply" /\ wire = <<>> /\ netSocket = "up"
         /\ stream' = stream /\ sent' = sent + n /\ wire' # <<>>
         /\ ReplyIs(wire', type, n, sent)
<1>1. sent \in Nat
  BY SyncTypes
<1>2. /\ netSocket = "up" /\ asked > 0 /\ wire' = ReplyOf(wire, type, n, sent)
      /\ sent' = sent + n /\ UNCHANGED <<pc, stream>>
  BY Zenon DEF ServerReply, ReplyOf
<1>3. pc = "reply" /\ wire = <<>>
  BY <1>2 DEF StepInv
<1>4. wire' = ReplyOf(<<>>, type, n, sent)
  BY <1>2, <1>3
<1>5. ReplyIs(wire', type, n, sent)
  BY <1>1, <1>4, ReplyItems
<1>6. wire' # <<>>
  <2>1. Len(wire') = n + 4
    BY <1>5 DEF ReplyIs
  <2> QED BY <2>1
<1> QED BY <1>2, <1>3, <1>5, <1>6

(* What GetData reads of a reply.                                          *)
LEMMA HeaderIs ==
  ASSUME ReceiverInv, SyncInv, ~ ShortHeader, GetHeader
  PROVE  /\ pc = "reply" /\ wire # <<>>
         /\ \/ pc' = "body" /\ words' = AsField(wire[4])
            \/ pc' = "request" /\ AsField(wire[4]) = 0
<1>1. PICK n \in 1 .. 4 : \E rest \in [n + 1 .. 4 -> Garbage] : RecvHeader(n, rest)
  BY DEF GetHeader
<1>2. PICK rest \in [n + 1 .. 4 -> Garbage] : RecvHeader(n, rest)
  BY <1>1
<1>3. n = 4
  BY <1>2 DEF RecvHeader
<1> DEFINE reply == [i \in 1 .. 4 |-> IF i <= n THEN AsField(wire[i]) ELSE rest[i]]
<1>4. /\ pc = "reply" /\ 4 <= Len(wire)
      /\ IF reply[1] = SERVER_SUMMARY
         THEN words' = RequiredSize(reply) /\ pc' = "body"
         ELSE pc' = "request"
  BY <1>2, <1>3 DEF RecvHeader
<1>5. /\ reply[1] = AsField(wire[1]) /\ reply[2] = AsField(wire[2])
      /\ reply[4] = AsField(wire[4])
  BY <1>3
<1> HIDE DEF reply
<1>6. wire # <<>>
  BY <1>4, SyncTypes
<1>7. PICK m \in Nat : Pending(m)
  BY <1>4, <1>6 DEF SyncInv, HeaderSync
<1>8. reply[2] = 1 /\ reply[4] = m /\ (reply[1] # SERVER_SUMMARY => m = 0)
  BY <1>5, <1>7 DEF Pending
<1>9. RequiredSize(reply) = m
  BY <1>8 DEF RequiredSize
<1> QED BY <1>4, <1>5, <1>6, <1>8, <1>9

(* Steps that decode, as long as every packet was sent whole.              *)
LEMMA DecodeLoss ==
  ASSUME ReceiverInv, SyncInv, NewestInv, LossInv, starts = 1,
         ~ FopenMayFail, ~ FwriteMayFail, Next, Decode
  PROVE  LossInv'
<1> HIDE DEF Log
<1>1. /\ sent \in Nat /\ words \in Nat /\ index \in Nat /\ stream \in Streams
      /\ SkipWords \in Nat /\ TrigDataSize \in Nat /\ stream' = stream
  BY SyncTypes, DataBufferAssumption, Steps
<1>2. pc \in {"decode", "open", "geb", "write"} /\ UNCHANGED <<sent, words, stream>>
  <2>1. ASSUME NEW header, DigSkip(header) \/ DigIncomplete(header) \/ DigEvent(header)
        PROVE  pc = "decode" /\ UNCHANGED <<sent, words, stream>>
    BY <2>1 DEF DigSkip, DigIncomplete, DigEvent, AtMark, dataVars, netVars
  <2> QED BY <2>1 DEF Decode, Finish, TrigIncomplete, TrigEvent, UnknownDataType,
              OpenEventFile, WriteGEB, WriteBody, WriteTrig, AtMark, dataVars, netVars
<1>3. AllTo(stream, Log, Base + index) /\ Base' = Base /\ words <= sent /\ index <= words
  BY <1>2 DEF LossInv, Base, SyncInv, DecodeSync
<1>4. OnNewest
  BY FirstOnNewest
<1>5. ASSUME ~ WriteBody, ~ WriteTrig PROVE Log' = Log
  BY <1>4, <1>5, QuietLog
<1>6. ASSUME NEW header \in WordAt(index + 1), DigSkip(header) PROVE LossInv'
  <2>1. /\ pc = "decode" /\ index < words /\ Mark(index) = "dig" /\ header.type # "chan"
        /\ index' = index + SkipWords
        /\ pc' = IF header.type = "done" THEN "stop" ELSE "decode"
    BY <1>6 DEF DigSkip, AtMark
  <2>2. Log' = Log
    <3>1. ~ WriteBody /\ ~ WriteTrig
      BY <2>1 DEF WriteBody, WriteTrig
    <3> QED BY <1>5, <3>1
  <2>3. /\ Here \in StartsIn(stream) /\ stream[Here].mark = "dig"
        /\ header = stream[Here + 1] /\ Base + index \in Nat /\ Here = (Base + index) + 1
    BY <2>1, AtPacket DEF Here
  <2>4. CASE header.type # "done"
    <3>1. EndIn(stream, Here) = (Here + SkipWords) - 1
      BY <1>1, <2>1, <2>3, PacketIs
    <3>2. Here \notin EventsIn(stream)
      BY <2>1, <2>3 DEF EventsIn
    <3>3. AllTo(stream, Log, EndIn(stream, Here))
      BY <1>1, <1>3, <2>3, <3>2, AllBehind
    <3>4. EndIn(stream, Here) = Base' + index'
      <4>1. Base \in Int
        BY <1>1 DEF Base
      <4> QED BY <1>1, <1>3, <2>1, <2>3, <3>1, <4>1
    <3>5. AllTo(stream', Log', Base' + index')
      BY <1>2, <2>2, <3>3, <3>4
    <3> QED BY <2>1, <2>4, <3>5 DEF LossInv
  <2>5. CASE header.type = "done"
    <3>1. Here - 1 = Base + index
      BY <2>3
    <3> HIDE DEF Here
    <3>2. \E d \in StartsIn(stream) : /\ stream[d].mark = "dig" /\ stream[d + 1].type = "done"
                                      /\ AllTo(stream, Log, d - 1)
      BY <1>3, <2>3, <2>5, <3>1
    <3>3. \E d \in StartsIn(stream') :
            /\ stream'[d].mark = "dig" /\ stream'[d + 1].type = "done"
            /\ AllTo(stream', Log', d - 1)
      BY <1>2, <2>2, <3>2
    <3> QED BY <2>1, <2>5, <3>3 DEF LossInv
  <2> QED BY <2>4, <2>5
<1>7. CASE WriteBody \/ WriteTrig
  <2> DEFINE l == IF event.kind = "body" THEN event.len + 1 ELSE TrigDataSize
  <2>1. /\ pc = "write" /\ pc' = "decode" /\ index' = index + l
        /\ event.len \in Nat /\ event.kind \in {"body", "trig"}
    BY <1>7, SyncTypes DEF WriteBody, WriteTrig, Event
  <2>2. index < words
    BY <2>1 DEF SyncInv, EventSync
  <2>3. /\ Here \in StartsIn(stream) /\ Base + index \in Nat /\ Here = (Base + index) + 1
    BY <2>1, <2>2, AtPacket DEF Here
  <2>4. /\ Here \in Nat /\ event.file = FileOf(Here) /\ Here \in Events
        /\ Log' = [Log EXCEPT ![event.file] = Append(@, Here)]
    BY <1>4, <1>7, WritesHere
  <2>5. EndIn(stream, Here) = (Here + l) - 1 /\ Here \in EventsIn(stream)
    <3>1. CASE event.kind = "body"
      <4>1. EndIn(stream, Here) = Here + event.len /\ Here \in EventsIn(stream)
        BY <2>1, <3>1, AtWrite
      <4> QED BY <2>1, <2>4, <3>1, <4>1
    <3>2. CASE event.kind = "trig"
      BY <2>1, <3>2, AtWrite
    <3> QED BY <2>1, <3>1, <3>2
  <2>6. event.file = FileIn(stream, Here) /\ event.file \in FileID
    BY <2>4, SyncTypes DEF FileOf, IsTrig, FileIn, Event
  <2>7. l \in Nat
    BY <1>1, <2>1
  <2> HIDE DEF l, Here
  <2>8. /\ \A p \in EventsIn(stream) : RecordedIn(stream, Log, p) => RecordedIn(stream, Log', p)
        /\ RecordedIn(stream, Log', Here)
    <3>1. Log \in [FileID -> Seq(Nat)]
      BY LogNat
    <3>2. PICK id \in FileID, e \in Nat : id = event.file /\ e = Here
      BY <2>4, <2>6
    <3>3. PICK m : m = Log'
      OBVIOUS
    <3>4. m = Appended(Log, id, e)
      BY <2>4, <3>2, <3>3 DEF Appended
    <3>5. /\ \A p \in EventsIn(stream) : RecordedIn(stream, Log, p) => RecordedIn(stream, m, p)
          /\ RecordedIn(stream, m, e)
      <4>1. e \in EventsIn(stream) /\ id = FileIn(stream, e)
        BY <2>5, <2>6, <3>2
      <4> QED BY <1>1, <3>1, <3>4, <4>1, AllAppend, Zenon
    <3> QED BY <3>2, <3>3, <3>5
  <2>9. AllTo(stream, Log', Base + index)
    BY <1>3, <2>8 DEF AllTo
  <2>10. AllTo(stream, Log', EndIn(stream, Here))
    BY <1>1, <2>3, <2>8, <2>9, AllBehind
  <2>11. EndIn(stream, Here) = Base' + index'
    <3>1. Base \in Int
      BY <1>1 DEF Base
    <3> QED BY <1>1, <1>3, <2>1, <2>3, <2>5, <2>7, <3>1
  <2>12. AllTo(stream', Log', Base' + index')
    BY <1>2, <2>10, <2>11
  <2> QED BY <2>1, <2>12 DEF LossInv
<1>8. CASE Finish
  <2>1. pc = "decode" /\ index >= words /\ pc' = "request"
    BY <1>8 DEF Finish
  <2>2. Log' = Log
    <3>1. ~ WriteBody /\ ~ WriteTrig
      BY <2>1 DEF WriteBody, WriteTrig
    <3> QED BY <1>5, <3>1
  <2>3. Base + index = sent'
    BY <1>1, <1>2, <1>3, <2>1 DEF Base
  <2>4. AllTo(stream', Log', sent')
    BY <1>2, <1>3, <2>2, <2>3
  <2> QED BY <2>1, <2>4 DEF LossInv
<1>9. ASSUME UNCHANGED index, pc' \in {"open", "geb", "write"}, ~ WriteBody, ~ WriteTrig
      PROVE  LossInv'
  <2>1. AllTo(stream', Log', Base' + index')
    BY <1>2, <1>3, <1>5, <1>9
  <2> QED BY <1>9, <2>1 DEF LossInv
<1>10. ASSUME NEW header, DigEvent(header) PROVE LossInv'
  <2>1. UNCHANGED index /\ pc' = "open" /\ pc = "decode"
    BY <1>10 DEF DigEvent, AtMark
  <2> QED BY <1>9, <2>1 DEF WriteBody, WriteTrig
<1>11. CASE TrigEvent
  <2>1. UNCHANGED index /\ pc' = "open" /\ pc = "decode"
    BY <1>11 DEF TrigEvent, AtMark
  <2> QED BY <1>9, <2>1 DEF WriteBody, WriteTrig
<1>12. ASSUME NEW ok \in BOOLEAN, OpenEventFile(ok) PROVE LossInv'
  <2>1. ok
    BY <1>12, AllOpen
  <2>2. UNCHANGED index /\ pc' \in {"geb", "write"} /\ pc = "open"
    BY <1>12, <2>1 DEF OpenEventFile
  <2> QED BY <1>9, <2>2 DEF WriteBody, WriteTrig
<1>13. CASE WriteGEB
  <2>1. UNCHANGED index /\ pc' = "write" /\ pc = "geb"
    BY <1>13 DEF WriteGEB
  <2> QED BY <1>9, <2>1 DEF WriteBody, WriteTrig
<1>14. ASSUME NEW header \in WordAt(index + 1), DigIncomplete(header) PROVE FALSE
  <2>1. /\ pc = "decode" /\ index < words /\ Mark(index) = "dig" /\ header.type = "chan"
        /\ ~ (header.len + index <= words)
    BY <1>14 DEF DigIncomplete, AtMark, DigFits
  <2>2. /\ Here \in StartsIn(stream) /\ stream[Here].mark = "dig" /\ header = stream[Here + 1]
        /\ EndIn(stream, Here) <= sent
    BY <2>1, AtPacket
  <2>3. EndIn(stream, Here) = Here + header.len /\ header.len \in Nat
    BY <1>1, <2>1, <2>2, PacketIs
  <2>4. ((sent - words) + index) + 1 + header.len <= sent
    BY <2>2, <2>3 DEF Here, Base
  <2> QED BY <1>1, <2>1, <2>3, <2>4
<1>15. CASE TrigIncomplete
  <2>1. /\ pc = "decode" /\ index < words /\ Mark(index) = "trig"
        /\ ~ (index + TrigDataSize <= words)
    BY <1>15 DEF TrigIncomplete, AtMark, TrigFits
  <2>2. Here \in StartsIn(stream) /\ stream[Here].mark = "trig" /\ EndIn(stream, Here) <= sent
    BY <2>1, AtPacket
  <2>3. EndIn(stream, Here) = (Here + TrigDataSize) - 1
    BY <1>1, <2>2, PacketIs
  <2>4. (((sent - words) + index) + 1 + TrigDataSize) - 1 <= sent
    BY <2>2, <2>3 DEF Here, Base
  <2> QED BY <1>1, <2>1, <2>4
<1>16. CASE UnknownDataType
  <2>1. pc = "decode" /\ index < words /\ Mark(index) = "none"
    BY <1>16 DEF UnknownDataType, AtMark
  <2>2. Here \in StartsIn(stream) /\ stream[Here].mark = "none"
    BY <2>1, AtPacket
  <2> QED BY <1>1, <2>2, PacketIs
<1> QED BY <1>6, <1>7, <1>8, <1>10, <1>11, <1>12, <1>13, <1>14, <1>15, <1>16 DEF Decode

(* The other steps.                                                        *)
LEMMA NextLoss ==
  ASSUME Synced, NewestInv, LossInv, WholeReplies, ~ ShortHeader,
         ~ FopenMayFail, ~ FwriteMayFail, [Next]_vars
  PROVE  LossInv'
<1> HIDE DEF Log
<1> SUFFICES ASSUME starts' = 1 PROVE LossInv'
  BY DEF LossInv
<1>0. ReceiverInv /\ StepInv /\ SyncInv
  BY DEF Synced
<1>1. CASE Restart
  <2>1. starts \in Nat \ {0} /\ starts' = starts + 1
    BY <1>0, <1>1 DEF Restart, ReceiverInv, TypeOK, FilesTypeOK
  <2> QED BY <2>1
<1>2. starts = 1 \/ Restart
  <2>1. ASSUME NEW ok \in BOOLEAN, OpenEventFile(ok) PROVE starts' = starts
    BY <2>1 DEF OpenEventFile, OpenFile, OpenFirst, KeepOpen, RollOver, fileVars
  <2>2. WriteGEB \/ WriteBody \/ WriteTrig \/ CloseOne => starts' = starts
    BY DEF WriteGEB, WriteBody, WriteTrig, Write, CloseOne, CloseFile
  <2>3. Still \/ Die => starts' = starts
    BY DEF Still, Die, fileVars
  <2> QED BY <2>1, <2>2, <2>3, Steps
<1> SUFFICES ASSUME starts = 1, ~ Restart PROVE LossInv'
  BY <1>1, <1>2
<1>3. OnNewest
  BY <1>0, FirstOnNewest
<1>4. CASE Decode
  <2>1. Next
    BY <1>4 DEF Next, Main
  <2> QED BY <1>0, <1>4, <2>1, DecodeLoss
<1>5. ASSUME ~ Decode PROVE LossInv'
  <2>0. Log' = Log /\ stream' = stream
    BY <1>0, <1>3, <1>5, QuietLog, Steps DEF Decode
  <2>1. CASE Summary \/ NoData
    <3>1. PICK type \in Nat, n \in Nat : ServerReply(type, n)
      <4>1. ASSUME Summary PROVE \E type \in Nat, n \in Nat : ServerReply(type, n)
        <5>1. PICK n \in 1 .. MaxReply : ServerReply(SERVER_SUMMARY, n)
          BY <4>1 DEF Summary, ServerSummary
        <5>2. n \in Nat /\ SERVER_SUMMARY \in Nat
          BY GetDataAssumption DEF SERVER_SUMMARY
        <5> QED BY <5>1, <5>2
      <4>2. ASSUME NoData PROVE \E type \in Nat, n \in Nat : ServerReply(type, n)
        <5>1. PICK type \in {SERVER_SUMMARY, INSUFF_DATA, NO_DATA} : ServerReply(type, 0)
          BY <4>2 DEF NoData, ServerNoData
        <5>2. type \in Nat /\ 0 \in Nat
          BY DEF SERVER_SUMMARY, INSUFF_DATA, NO_DATA
        <5> QED BY <5>1, <5>2
      <4> QED BY <2>1, <4>1, <4>2
    <3>2. /\ pc = "reply" /\ pc' = "reply" /\ wire = <<>> /\ netSocket = "up"
          /\ sent' = sent + n /\ wire' # <<>> /\ ReplyIs(wire', type, n, sent)
      BY <1>0, <3>1, ServerReplyIs
    <3>3. AsField(wire'[4]) = n
      BY <3>2 DEF ReplyIs
    <3>4. sent' - AsField(wire'[4]) = sent
      BY <1>0, <3>2, <3>3, SyncTypes
    <3>5. AllTo(stream', Log', sent' - AsField(wire'[4]))
      BY <2>0, <3>2, <3>4 DEF LossInv
    <3> QED BY <3>2, <3>5 DEF LossInv
  <2>2. CASE Close
    <3>1. PICK n \in 0 .. Len(wire) :
            (n = 0 \/ n >= 4 \/ pc = "body") /\ wire' = SubSeq(wire, 1, n)
      BY <2>2 DEF Close, ServerCloses
    <3>2. netSocket' # "up" /\ UNCHANGED <<pc, sent, words, index>>
      BY <2>2 DEF Close, ServerCloses
    <3>3. pc = "reply" /\ wire' # <<>> => wire # <<>> /\ wire'[4] = wire[4]
      <4>1. wire \in Seq(Item)
        BY <1>0, SyncTypes
      <4> QED BY <3>1, <4>1
    <3>4. pc = "reply" /\ wire' # <<>> => AllTo(stream', Log', sent' - AsField(wire'[4]))
      BY <2>0, <3>2, <3>3 DEF LossInv
    <3> QED BY <2>0, <3>2, <3>4 DEF LossInv, Base
  <2>3. CASE ReplyHeader
    <3>1. /\ pc = "reply" /\ wire # <<>> /\ sent' = sent
          /\ \/ pc' = "body" /\ words' = AsField(wire[4])
             \/ pc' = "request" /\ AsField(wire[4]) = 0
      <4>1. sent' = sent
        BY <2>3, Zenon DEF ReplyHeader, GetHeader, RecvHeader
      <4> QED BY <1>0, <2>3, <4>1, HeaderIs DEF ReplyHeader
    <3>2. AllTo(stream', Log', sent - AsField(wire[4]))
      BY <2>0, <3>1 DEF LossInv
    <3>3. CASE pc' = "body" /\ words' = AsField(wire[4])
      <4>1. AllTo(stream', Log', Base')
        BY <3>1, <3>2, <3>3 DEF Base
      <4> QED BY <3>3, <4>1 DEF LossInv
    <3>4. CASE pc' = "request" /\ AsField(wire[4]) = 0
      <4>1. sent - AsField(wire[4]) = sent'
        BY <1>0, <3>1, <3>4, SyncTypes
      <4>2. AllTo(stream', Log', sent')
        BY <3>2, <4>1
      <4> QED BY <3>4, <4>2 DEF LossInv
    <3> QED BY <3>1, <3>3, <3>4
  <2>4. CASE ReplyBody
    <3>1. PICK n \in 1 .. Len(wire) : RecvBody(n)
      BY <2>4 DEF ReplyBody, GetBody
    <3>2. /\ pc = "body" /\ UNCHANGED <<sent, words>>
          /\ pc' = "body" \/ (pc' = "decode" /\ index' = 0)
      BY <3>1, Zenon DEF RecvBody
    <3>3. AllTo(stream', Log', Base')
      BY <2>0, <3>2 DEF LossInv, Base
    <3>4. Base' + 0 = Base'
      <4>1. Base \in Int /\ Base' = Base
        BY <1>0, <3>2, SyncTypes DEF Base
      <4> QED BY <4>1
    <3>5. CASE pc' = "body"
      BY <3>3, <3>5 DEF LossInv
    <3>6. CASE pc' = "decode" /\ index' = 0
      <4>1. AllTo(stream', Log', Base' + index')
        BY <3>3, <3>4, <3>6
      <4> QED BY <3>6, <4>1 DEF LossInv
    <3> QED BY <3>2, <3>5, <3>6
  <2>5. CASE NoReply
    <3>1. /\ pc' = "request" /\ UNCHANGED <<sent, netSocket>>
          /\ netSocket = "up" => pc = "body" /\ words = 0
      BY <2>5 DEF NoReply, RecvNothing, netVars
    <3>2. ASSUME netSocket = "up" PROVE AllTo(stream', Log', sent')
      <4>1. Base = sent' /\ pc = "body"
        BY <1>0, <3>1, <3>2, SyncTypes DEF Base
      <4> QED BY <2>0, <4>1 DEF LossInv
    <3> QED BY <3>1, <3>2 DEF LossInv
  <2>6. CASE Connect
    <3>1. pc = "connect" /\ pc' = "request" /\ sent' = sent /\ sent = 0
      BY <2>6 DEF Connect, SetUpConnection, LossInv
    <3>2. AllTo(stream', Log', 0)
      <4>1. stream' \in Seq(Word)
        BY <1>0, <2>0, SyncTypes
      <4>2. ASSUME NEW p \in EventsIn(stream') PROVE ~ (p <= 0)
        BY <4>1 DEF EventsIn, StartsIn
      <4> QED BY <4>2 DEF AllTo
    <3> QED BY <3>1, <3>2 DEF LossInv
  <2>7. CASE Send
    <3>1. /\ pc = "request" /\ pc' = "reply" /\ UNCHANGED <<sent, wire>>
          /\ netSocket' = "up" => netSocket = "up"
      BY <2>7 DEF Send, SendRequest
    <3>2. wire' = <<>>
      BY <1>0, <3>1 DEF SyncInv, WireSync
    <3>3. netSocket' = "up" => AllTo(stream', Log', sent')
      BY <2>0, <3>1 DEF LossInv
    <3> QED BY <3>1, <3>2, <3>3 DEF LossInv
  <2>8. CASE Resend
    BY <2>0, <2>8 DEF Resend, SendFails, getVars, LossInv, Base
  <2>9. CASE EndRun \/ CloseOne \/ End
    <3>1. /\ pc \in {"stop", "closing", "ended"} /\ pc' \in {"stop", "closing", "ended"}
      BY <2>9 DEF EndRun, CloseOne, End, getVars
    <3>2. \E d \in StartsIn(stream') :
            /\ stream'[d].mark = "dig" /\ stream'[d + 1].type = "done"
            /\ AllTo(stream', Log', d - 1)
      BY <2>0, <3>1 DEF LossInv
    <3> QED BY <3>1, <3>2 DEF LossInv
  <2>10. CASE Kill \/ BrokenPipe
    BY <2>10 DEF Kill, BrokenPipe, Die, LossInv
  <2>11. CASE Terminated \/ UNCHANGED vars
    BY <2>0, <2>11 DEF Terminated, vars, getVars, LossInv, Base
  <2> QED BY <1>5, <2>1, <2>2, <2>3, <2>4, <2>5, <2>6, <2>7, <2>8, <2>9, <2>10, <2>11
          DEF Next, Main, Server
<1> QED BY <1>4, <1>5

(* As long as one process keeps its connection, no event the server sent   *)
(* is missing from disk once its reply is decoded, and at the end of the   *)
(* run none that came before the type D packet (main, GetData, WriteData). *)
THEOREM ReceiverNothingLost ==
  WholeReplies /\ ~ ShortHeader /\ ~ FopenMayFail /\ ~ FwriteMayFail => (Spec => []NothingLost)
<1> SUFFICES ASSUME WholeReplies, ~ ShortHeader, ~ FopenMayFail, ~ FwriteMayFail
             PROVE  Spec => []NothingLost
  OBVIOUS
<1>1. Init => NewestInv /\ LossInv
  <2>1. ASSUME Init PROVE LossInv
    <3>1. pc = "connect" /\ sent = 0
      BY <2>1 DEF Init, GetInit
    <3> QED BY <3>1 DEF LossInv
  <2> QED BY <2>1, InitFresh
<1>2. Synced /\ NewestInv /\ LossInv /\ [Next]_vars => NewestInv' /\ LossInv'
  BY NextNewest, NextLoss DEF Synced
<1>3. Synced /\ LossInv => NothingLost
  <2> SUFFICES ASSUME Synced, LossInv PROVE NothingLost
    OBVIOUS
  <2> HIDE DEF Log
  <2>0. stream \in Seq(Word)
    BY SyncTypes DEF Synced
  <2>1. ASSUME NEW n, AllTo(stream, Log, n), NEW p \in Events, p <= n PROVE IsRecorded(p)
    <3>1. p \in EventsIn(stream) /\ FileIn(stream, p) = FileOf(p)
      BY DEF Events, PacketStarts, StartsIn, IsEvent, IsTrig, EventsIn, FileIn, FileOf
    <3>2. PICK i \in DOMAIN Log[FileOf(p)] : Log[FileOf(p)][i] = p
      BY <2>1, <3>1 DEF AllTo, RecordedIn
    <3> QED BY <3>2 DEF IsRecorded, ToSet
  <2>2. ASSUME starts = 1, pc = "request", netSocket = "up"
        PROVE  \A p \in Events : p <= sent => IsRecorded(p)
    BY <2>1, <2>2 DEF LossInv
  <2>3. ASSUME starts = 1, pc \in {"stop", "closing", "ended"}
        PROVE  \E d \in PacketStarts :
                 IsDone(d) /\ \A p \in Events : p < d => IsRecorded(p)
    <3>1. PICK d \in StartsIn(stream) :
            /\ stream[d].mark = "dig" /\ stream[d + 1].type = "done"
            /\ AllTo(stream, Log, d - 1)
      BY <2>3 DEF LossInv
    <3>2. d \in PacketStarts /\ IsDone(d)
      BY <3>1 DEF PacketStarts, StartsIn, IsDone
    <3>3. ASSUME NEW p \in Events, p < d PROVE IsRecorded(p)
      <4>1. p <= d - 1
        <5>1. p \in DOMAIN stream /\ d \in DOMAIN stream
          BY DEF Events, PacketStarts, StartsIn
        <5> QED BY <2>0, <3>3, <5>1
      <4> QED BY <2>1, <3>1, <4>1
    <3> QED BY <3>2, <3>3
  <2> QED BY <2>2, <2>3 DEF NothingLost
<1>4. Spec => []Synced
  BY SyncedHolds
<1> QED BY <1>1, <1>2, <1>3, <1>4, PTL DEF Spec

-----------------------------------------------------------------------------
(* How long files get.                                                     *)

(* The words an event takes in a file, and the most one of s takes.        *)
SizeIn(s, p) ==
  IF s[p].mark = "trig" THEN TrigPacketLength ELSE GebWords + Len(PayloadIn(s, p))

LongestIn(s) ==
  CHOOSE n \in 0 .. TrigPacketLength + GebWords + Len(s) :
    /\ \A p \in EventsIn(s) : n >= SizeIn(s, p)
    /\ n = 0 \/ \E p \in EventsIn(s) : n = SizeIn(s, p)

(* It is what ReceiverProps calls LongestEvent.                            *)
LEMMA LongestEventIs == LongestEvent = LongestIn(stream)
BY Zenon DEF LongestEvent, LongestIn, Events, PacketStarts, IsEvent, IsTrig, EventsIn, StartsIn,
             SizeIn, Payload, PayloadIn, FirstIn, EndIn, PacketEnd

(* There is one.                                                           *)
LEMMA LongestIs ==
  ASSUME stream \in Streams
  PROVE  /\ LongestIn(stream) \in Nat
         /\ \A p \in EventsIn(stream) :
              /\ SizeIn(stream, p) <= LongestIn(stream)
              /\ stream[p].mark = "trig" => TrigPacketLength <= LongestIn(stream)
              /\ stream[p].mark # "trig" =>
                   GebWords + stream[p + 1].len <= LongestIn(stream)
<1>1. /\ TrigPacketLength \in Nat /\ GebWords \in Nat /\ Len(stream) \in Nat
      /\ stream \in Seq(Word)
  BY StreamType, DataBufferAssumption
<1>2. ASSUME NEW p \in EventsIn(stream)
      PROVE  /\ SizeIn(stream, p) \in 0 .. TrigPacketLength + GebWords + Len(stream)
             /\ stream[p].mark = "trig" => SizeIn(stream, p) = TrigPacketLength
             /\ stream[p].mark # "trig" => SizeIn(stream, p) = GebWords + stream[p + 1].len
  <2>1. p \in StartsIn(stream)
    BY DEF EventsIn
  <2>2. CASE stream[p].mark = "trig"
    BY <1>1, <2>2 DEF SizeIn
  <2>3. CASE stream[p].mark # "trig"
    <3>1. stream[p + 1].type = "chan"
      BY <2>3 DEF EventsIn
    <3>2. /\ p \in 1 .. Len(stream) /\ EndIn(stream, p) \in p .. Len(stream)
          /\ EndIn(stream, p) = p + stream[p + 1].len
          /\ stream[p + 1].len \in Nat
      BY <2>1, <2>3, <3>1, PacketIs
    <3>3. Len(PayloadIn(stream, p)) = stream[p + 1].len
      <4> DEFINE l == stream[p + 1].len
      <4>1. FirstIn(stream, p) = p + 1
        BY <2>3 DEF FirstIn
      <4>2. l \in Nat /\ EndIn(stream, p) = p + l /\ p \in Nat
        BY <3>2
      <4> HIDE DEF l
      <4>3. PICK a \in Nat : a = FirstIn(stream, p) /\ a = p + 1
        BY <4>1, <4>2
      <4>4. PICK e \in Nat : e = EndIn(stream, p) /\ e = p + l
        BY <4>2
      <4>5. PICK n \in Nat : n = (e - a) + 1 /\ n = l
        BY <4>2, <4>3, <4>4
      <4>6. PayloadIn(stream, p) = [k \in 1 .. n |-> (a + k) - 1]
        BY <4>3, <4>4, <4>5 DEF PayloadIn
      <4>7. DOMAIN PayloadIn(stream, p) = 1 .. n /\ PayloadIn(stream, p) \in Seq(Nat)
        <5>1. DOMAIN PayloadIn(stream, p) = 1 .. n
          BY <4>6, Zenon
        <5>2. PayloadIn(stream, p) \in Seq(Nat)
          BY <4>3, <4>5, <4>6
        <5> QED BY <5>1, <5>2
      <4>8. Len(PayloadIn(stream, p)) = n
        BY <4>5, <4>7
      <4> QED BY <4>5, <4>8 DEF l
    <3>4. SizeIn(stream, p) = GebWords + stream[p + 1].len
      BY <2>3, <3>3 DEF SizeIn
    <3>5. stream[p + 1].len <= Len(stream)
      BY <1>1, <3>2
    <3>6. GebWords + stream[p + 1].len \in 0 .. TrigPacketLength + GebWords + Len(stream)
      BY <1>1, <3>2, <3>5
    <3> QED BY <2>3, <3>4, <3>6
  <2> QED BY <2>2, <2>3
<1> DEFINE B == TrigPacketLength + GebWords + Len(stream)
           T == { n \in 0 .. B : \A p \in EventsIn(stream) : n >= SizeIn(stream, p) }
<1>3. B \in T /\ T \subseteq Nat
  BY <1>1, <1>2
<1>4. PICK x \in T : \A y \in T : x <= y
  BY <1>3, LeastOf
<1>5. x = 0 \/ \E p \in EventsIn(stream) : x = SizeIn(stream, p)
  <2> SUFFICES ASSUME x # 0 PROVE \E p \in EventsIn(stream) : x = SizeIn(stream, p)
    OBVIOUS
  <2>1. x \in Nat /\ x - 1 \in 0 .. B /\ x - 1 \notin T
    BY <1>1, <1>4
  <2>2. PICK p \in EventsIn(stream) : ~ (x - 1 >= SizeIn(stream, p))
    BY <2>1
  <2>3. x >= SizeIn(stream, p) /\ SizeIn(stream, p) \in Nat
    BY <1>2, <1>4
  <2>4. x = SizeIn(stream, p)
    BY <2>1, <2>2, <2>3
  <2> QED BY <2>4
<1>6. /\ LongestIn(stream) \in 0 .. B
      /\ \A p \in EventsIn(stream) : LongestIn(stream) >= SizeIn(stream, p)
  <2>1. \E n \in 0 .. B :
          /\ \A p \in EventsIn(stream) : n >= SizeIn(stream, p)
          /\ n = 0 \/ \E p \in EventsIn(stream) : n = SizeIn(stream, p)
    BY <1>4, <1>5
  <2> QED BY <2>1, Zenon DEF LongestIn
<1> HIDE DEF B, T
<1>7. LongestIn(stream) \in Nat
  BY <1>1, <1>6 DEF B
<1>8. ASSUME NEW p \in EventsIn(stream)
      PROVE  /\ SizeIn(stream, p) <= LongestIn(stream)
             /\ stream[p].mark = "trig" => TrigPacketLength <= LongestIn(stream)
             /\ stream[p].mark # "trig" =>
                  GebWords + stream[p + 1].len <= LongestIn(stream)
  <2>1. SizeIn(stream, p) <= LongestIn(stream)
    <3>1. LongestIn(stream) >= SizeIn(stream, p) /\ SizeIn(stream, p) \in Nat
      BY <1>2, <1>6
    <3> QED BY <1>7, <3>1
  <2> QED BY <1>2, <2>1
<1> QED BY <1>7, <1>8

(* What a file may hold after n processes have written it.                 *)
Bound(s, n) == MaxFileSize + n * LongestIn(s)

(* A process adds one event to it.                                         *)
LEMMA BoundIs ==
  ASSUME stream \in Streams, NEW n \in Nat
  PROVE  /\ Bound(stream, n) \in Nat /\ Bound(stream, n) >= MaxFileSize
         /\ Bound(stream, n + 1) = Bound(stream, n) + LongestIn(stream)
<1>1. PICK l \in Nat : l = LongestIn(stream)
  BY LongestIs
<1>2. MaxFileSize \in Nat
  BY OutFileAssumption
<1>3. n * l \in Nat
  OBVIOUS
<1>4. (n + 1) * l = n * l + l
  OBVIOUS
<1> QED BY <1>1, <1>2, <1>3, <1>4 DEF Bound

(* Words that are still to be written of the event at hand.                *)
More(id) ==
  IF id # event.file \/ pc \notin {"geb", "write"} THEN 0
  ELSE IF pc = "geb" THEN GebWords + event.len
  ELSE IF event.kind = "trig" THEN TrigPacketLength ELSE event.len

(* The files d of an object with file number n that believes its size to   *)
(* be size.  All words may be in a file once more of them are written, but *)
(* only those from before this process in one that it has not come to, or  *)
(* believes to be empty, unless it is about to write it (due).             *)
Fits(d, n, size, more, due, all, before) ==
  \A c \in DOMAIN d :
    /\ d[c].size + (IF c = n + 1 THEN more ELSE 0) <= all
    /\ c > n + 1 \/ (c = n + 1 /\ size = 0 /\ ~ due) => d[c].size <= before

Now == Bound(stream, starts)
Before == IF pc = "dead" THEN Now ELSE Bound(stream, starts - 1)

FitsAt(id) ==
  Fits(disk[id], count[id], fileSize[id], More(id), pc = "write" /\ id = event.file,
       Now, Before)

SizeInv ==
  /\ \A id \in FileID : FitsAt(id)
  /\ \A id \in FileID : ~ file[id] /\ pc \notin {"closing", "ended"} => fileSize[id] = 0
  /\ pc = "geb" => event.kind = "body"

(* Bounds, while the process runs.                                         *)
LEMMA Bounds ==
  ASSUME ReceiverInv
  PROVE  /\ Now \in Nat /\ LongestIn(stream) \in Nat
         /\ pc # "dead" => Before \in Nat /\ Now = Before + LongestIn(stream)
         /\ pc = "dead" => Before = Now
         /\ MaxFileSize + LongestIn(stream) <= Now
<1>1. stream \in Streams /\ starts \in Nat /\ starts - 1 \in Nat
  BY OutFileAssumption DEF ReceiverInv, TypeOK, FilesTypeOK
<1>2. PICK m \in Nat : m = starts - 1 /\ starts = m + 1
  BY <1>1
<1>3. /\ Bound(stream, m) \in Nat /\ Bound(stream, m) >= MaxFileSize
      /\ Bound(stream, m + 1) = Bound(stream, m) + LongestIn(stream)
      /\ Bound(stream, m + 1) \in Nat
  <2>1. m + 1 \in Nat
    BY <1>2
  <2> QED BY <1>1, <1>2, <2>1, BoundIs
<1>4. LongestIn(stream) \in Nat /\ MaxFileSize \in Nat
  BY <1>1, LongestIs, OutFileAssumption
<1>5. Now = Bound(stream, m + 1) /\ (pc # "dead" => Before = Bound(stream, m))
  BY <1>2 DEF Now, Before
<1> QED BY <1>3, <1>4, <1>5 DEF Before

(* A file has a size.                                                      *)
LEMMA FileHasSize ==
  ASSUME NEW d \in Seq(DiskFile), NEW c \in DOMAIN d
  PROVE  d[c].size \in Nat /\ c \in Nat
<1>1. d[c] \in DiskFile
  OBVIOUS
<1> QED BY <1>1 DEF DiskFile

(* fopen makes an empty file, or finds one of an earlier process.          *)
LEMMA FopenFits ==
  ASSUME NEW d \in Seq(DiskFile), NEW n \in Nat, n <= Len(d),
         NEW all \in Nat, NEW before \in Nat, NEW l \in Nat, all = before + l,
         Fits(d, n, 0, 0, FALSE, all, before),
         NEW more \in Nat, more <= l, NEW due
  PROVE  Fits(Fopen(d, n), n, 0, more, due, all, before)
<1>1. \A c \in DOMAIN d : c >= n + 1 => d[c].size + more <= all
  <2> SUFFICES ASSUME NEW c \in DOMAIN d, c >= n + 1 PROVE d[c].size + more <= all
    OBVIOUS
  <2>1. d[c].size \in Nat /\ c \in Nat
    BY FileHasSize
  <2>2. d[c].size <= before
    BY <2>1 DEF Fits
  <2> QED BY <2>1, <2>2
<1>2. CASE n + 1 \in DOMAIN d
  <2>1. Fopen(d, n) = d
    BY <1>2 DEF Fopen
  <2> QED BY <1>1, <2>1 DEF Fits
<1>3. CASE n + 1 \notin DOMAIN d
  <2>1. n = Len(d) /\ Fopen(d, n) = Append(d, EmptyFile)
    BY <1>3 DEF Fopen
  <2> DEFINE e == Append(d, EmptyFile)
  <2>2. /\ \A c \in DOMAIN e : c = n + 1 \/ c \in 1 .. n
        /\ \A c \in 1 .. n : c \in DOMAIN d /\ e[c] = d[c]
        /\ e[n + 1] = EmptyFile
    BY <2>1
  <2> HIDE DEF e
  <2>3. e[n + 1].size = 0
    BY <2>2 DEF EmptyFile
  <2>4. ASSUME NEW c \in 1 .. n PROVE e[c].size <= all
    <3>1. c \in DOMAIN d /\ d[c].size \in Nat
      BY <2>2, FileHasSize
    <3>2. d[c].size + (IF c = n + 1 THEN 0 ELSE 0) <= all
      BY <3>1 DEF Fits
    <3> QED BY <2>2, <3>1, <3>2
  <2>5. ASSUME NEW c \in DOMAIN e
        PROVE  /\ e[c].size + (IF c = n + 1 THEN more ELSE 0) <= all
               /\ c > n + 1 \/ (c = n + 1 /\ 0 = 0 /\ ~ due) => e[c].size <= before
    <3>1. CASE c = n + 1
      BY <2>3, <3>1
    <3>2. CASE c # n + 1
      <4>1. c \in 1 .. n
        BY <2>2, <3>2
      <4>2. e[c].size \in Nat
        BY <2>2, <4>1, FileHasSize
      <4> QED BY <2>4, <3>2, <4>1, <4>2
    <3> QED BY <3>1, <3>2
  <2>6. Fits(e, n, 0, more, due, all, before)
    BY <2>5 DEF Fits
  <2> QED BY <2>1, <2>6 DEF e
<1> QED BY <1>2, <1>3

(* The file of an object gets k words longer.                              *)
LEMMA WrittenFits ==
  ASSUME NEW d \in Seq(DiskFile), NEW e \in Seq(DiskFile), NEW n \in Nat,
         n + 1 \in DOMAIN d, Len(e) = Len(d),
         \A c \in DOMAIN d : c # n + 1 => e[c].size = d[c].size,
         NEW k \in Nat, e[n + 1].size = d[n + 1].size + k,
         NEW size, NEW more \in Nat, NEW due, NEW all \in Nat, NEW before \in Nat,
         Fits(d, n, size, more, due, all, before),
         NEW left \in Nat, k + left <= more, NEW due2
  PROVE  Fits(e, n, e[n + 1].size, left, due2, all, before)
<1> SUFFICES ASSUME NEW c \in DOMAIN e
             PROVE  /\ e[c].size + (IF c = n + 1 THEN left ELSE 0) <= all
                    /\ c > n + 1 \/ (c = n + 1 /\ e[n + 1].size = 0 /\ ~ due2)
                         => e[c].size <= before
  BY DEF Fits
<1>1. c \in DOMAIN d /\ c \in Nat /\ d[c].size \in Nat
  <2>1. c \in DOMAIN d
    OBVIOUS
  <2> QED BY <2>1, FileHasSize
<1>2. CASE c = n + 1
  <2>1. d[c].size + more <= all
    BY <1>1, <1>2 DEF Fits
  <2> QED BY <1>1, <1>2, <2>1
<1>3. CASE c # n + 1
  <2>1. e[c].size = d[c].size
    BY <1>1, <1>3
  <2> QED BY <1>1, <1>3, <2>1 DEF Fits
<1> QED BY <1>2, <1>3

(* Of files that stay as long as they are the same can be said, and less   *)
(* after another one was begun.                                            *)
LEMMA SameFits ==
  ASSUME NEW d \in Seq(DiskFile), NEW e \in Seq(DiskFile), NEW n \in Nat, Len(e) = Len(d),
         \A c \in DOMAIN d : e[c].size = d[c].size,
         NEW size, NEW all \in Nat, NEW before \in Nat,
         Fits(d, n, size, 0, FALSE, all, before)
  PROVE  /\ Fits(e, n, size, 0, FALSE, all, before)
         /\ Fits(e, n + 1, 0, 0, FALSE, all, before)
<1>1. ASSUME NEW c \in DOMAIN e
      PROVE  /\ c \in Nat /\ e[c].size \in Nat /\ e[c].size <= all
             /\ c > n + 1 \/ (c = n + 1 /\ size = 0) => e[c].size <= before
  <2>1. c \in DOMAIN d /\ d[c].size \in Nat /\ c \in Nat /\ e[c].size = d[c].size
    <3>1. c \in DOMAIN d
      OBVIOUS
    <3> QED BY <3>1, FileHasSize
  <2>2. /\ d[c].size + (IF c = n + 1 THEN 0 ELSE 0) <= all
        /\ c > n + 1 \/ (c = n + 1 /\ size = 0 /\ ~ FALSE) => d[c].size <= before
    BY <2>1 DEF Fits
  <2> QED BY <2>1, <2>2
<1>2. Fits(e, n + 1, 0, 0, FALSE, all, before)
  BY <1>1 DEF Fits
<1>3. Fits(e, n, size, 0, FALSE, all, before)
  BY <1>1 DEF Fits
<1> QED BY <1>2, <1>3

(* What a process leaves is what the next one finds.                       *)
LEMMA LeftFits ==
  ASSUME NEW d \in Seq(DiskFile), NEW n \in Nat, NEW size, NEW more \in Nat,
         NEW due \in BOOLEAN, NEW all \in Nat, NEW before,
         Fits(d, n, size, more, due, all, before), NEW all2 \in Nat, all <= all2,
         NEW m \in Nat, NEW size2
  PROVE  Fits(d, m, size2, 0, FALSE, all2, all)
<1>1. ASSUME NEW c \in DOMAIN d PROVE d[c].size \in Nat /\ d[c].size <= all
  <2>1. d[c].size \in Nat
    BY FileHasSize
  <2>2. d[c].size + (IF c = n + 1 THEN more ELSE 0) <= all
    BY DEF Fits
  <2> QED BY <2>1, <2>2
<1> QED BY <1>1 DEF Fits

(* What the files of an object are.                                        *)
LEMMA ObjectIs ==
  ASSUME ReceiverInv, NEW id \in FileID
  PROVE  /\ disk[id] \in Seq(DiskFile) /\ count[id] \in Nat /\ fileSize[id] \in Nat
         /\ count[id] <= Len(disk[id])
         /\ file[id] => count[id] + 1 \in DOMAIN disk[id]
         /\ More(id) \in Nat
<1>1. FilesInv /\ event.len \in Nat /\ GebWords \in Nat /\ TrigPacketLength \in Nat
  BY DataBufferAssumption DEF FilesInv, ReceiverInv, TypeOK, Event
<1>2. More(id) \in Nat
  BY <1>1 DEF More
<1> QED BY <1>1, <1>2, ObjectType

(* The object of the event acts: the others stay as they are.              *)
LEMMA OneActs ==
  ASSUME ReceiverInv, SizeInv, pc \in {"open", "geb", "write"},
         pc' \in {"request", "geb", "write", "decode"},
         UNCHANGED <<event, stream, starts>>, pc' = "geb" => event.kind = "body",
         NEW id, id = event.file, NEW d, NEW n, NEW size, NEW open \in BOOLEAN,
         disk' = [disk EXCEPT ![id] = d], count' = [count EXCEPT ![id] = n],
         fileSize' = [fileSize EXCEPT ![id] = size], file' = [file EXCEPT ![id] = open],
         ~ open => size = 0,
         Fits(d, n, size, More(id)', pc' = "write", Now, Before)
  PROVE  SizeInv'
<1>1. /\ id \in FileID /\ file \in [FileID -> BOOLEAN] /\ count \in [FileID -> Nat]
      /\ fileSize \in [FileID -> Nat] /\ disk \in [FileID -> Seq(DiskFile)]
  BY DEF ReceiverInv, TypeOK, FilesTypeOK, Event
<1>2. Now' = Now /\ Before' = Before
  BY DEF Now, Before, Bound
<1>3. ASSUME NEW k \in FileID PROVE FitsAt(k)'
  <2>1. CASE k = id
    <3>1. disk'[k] = d /\ count'[k] = n /\ fileSize'[k] = size
      BY <1>1, <2>1
    <3>2. More(k)' = More(id)' /\ (k = event'.file)
      BY <2>1
    <3> QED BY <1>2, <3>1, <3>2 DEF FitsAt
  <2>2. CASE k # id
    <3>1. disk'[k] = disk[k] /\ count'[k] = count[k] /\ fileSize'[k] = fileSize[k]
      BY <1>1, <2>2
    <3>2. More(k) = 0 /\ More(k)' = 0 /\ k # event.file /\ k # event'.file
      BY <2>2 DEF More
    <3>3. Fits(disk[k], count[k], fileSize[k], 0, FALSE, Now, Before)
      BY <3>2 DEF SizeInv, FitsAt
    <3> QED BY <1>2, <3>1, <3>2, <3>3 DEF FitsAt
  <2> QED BY <2>1, <2>2
<1>4. ASSUME NEW k \in FileID, ~ file'[k] PROVE fileSize'[k] = 0
  BY <1>1, <1>4 DEF SizeInv
<1> QED BY <1>3, <1>4 DEF SizeInv

(* An event that is written is not longer than the longest.                *)
LEMMA EventFits ==
  ASSUME ReceiverInv, SyncInv, pc \in {"open", "geb", "write"}
  PROVE  /\ event.kind = "trig" => TrigPacketLength <= LongestIn(stream)
         /\ event.kind = "body" => GebWords + event.len <= LongestIn(stream)
         /\ event.kind = "trig" => event.file = TrigFile
         /\ event.kind \in {"body", "trig"} /\ event.file \in FileID /\ event.len \in Nat
<1>1. /\ stream \in Streams
      /\ event.kind \in {"body", "trig"} /\ event.file \in FileID /\ event.len \in Nat
  BY DEF ReceiverInv, TypeOK, Event
<1>2. /\ Here \in Events /\ event.kind = (IF IsTrig(Here) THEN "trig" ELSE "body")
      /\ event.file = FileOf(Here)
      /\ event.kind = "body" => event.len = stream[Here + 1].len
  BY DEF SyncInv, EventSync
<1>3. Here \in EventsIn(stream)
  BY <1>2 DEF Events, PacketStarts, IsEvent, IsTrig, EventsIn, StartsIn
<1> HIDE DEF Here
<1>4. /\ stream[Here].mark = "trig" => TrigPacketLength <= LongestIn(stream)
      /\ stream[Here].mark # "trig" => GebWords + stream[Here + 1].len <= LongestIn(stream)
  BY <1>1, <1>3, LongestIs
<1> QED BY <1>1, <1>2, <1>4 DEF IsTrig, FileOf

(* OpenFile: the file that is open takes one event more, as do the next    *)
(* and the first.                                                          *)
LEMMA OpenSize ==
  ASSUME ReceiverInv, SyncInv, SplitInv, SizeInv, NEW ok \in BOOLEAN, OpenEventFile(ok)
  PROVE  SizeInv'
<1>0. PICK id \in FileID : id = event.file
  BY DEF ReceiverInv, TypeOK, Event
<1> DEFINE d == disk[id]
           n == count[id]
           size == fileSize[id]
           l == LongestIn(stream)
<1>1. /\ pc = "open" /\ pc' = (IF ~ ok THEN "request"
                               ELSE IF event.kind = "trig" THEN "write" ELSE "geb")
      /\ UNCHANGED <<event, stream>> /\ OpenFile(id, ok)
  BY <1>0 DEF OpenEventFile, dataVars
<1>2. /\ event.kind = "trig" => TrigPacketLength <= l
      /\ event.kind = "body" => GebWords + event.len <= l
      /\ event.kind \in {"body", "trig"} /\ id \in FileID /\ event.len \in Nat
  BY <1>0, <1>1, EventFits
<1>3. /\ d \in Seq(DiskFile) /\ n \in Nat /\ size \in Nat /\ n <= Len(d)
      /\ file[id] => n + 1 \in DOMAIN d
  BY <1>2, ObjectIs
<1>4. Now \in Nat /\ Before \in Nat /\ l \in Nat /\ Now = Before + l /\ MaxFileSize + l <= Now
  BY <1>1, Bounds
<1>5. Fits(d, n, size, 0, FALSE, Now, Before)
  BY <1>1, <1>2 DEF SizeInv, FitsAt, More
<1>6. More(id)' \in Nat /\ More(id)' <= l /\ (~ ok => More(id)' = 0 /\ pc' # "write")
  BY <1>1, <1>2, <1>4, DataBufferAssumption DEF More
<1>7. starts' = starts
  BY <1>1 DEF OpenFile, OpenFirst, KeepOpen, RollOver, fileVars
<1>8. /\ count = [count EXCEPT ![id] = n] /\ fileSize = [fileSize EXCEPT ![id] = size]
      /\ disk = [disk EXCEPT ![id] = d] /\ file = [file EXCEPT ![id] = file[id]]
      /\ file[id] \in BOOLEAN
  BY <1>2 DEF ReceiverInv, TypeOK, FilesTypeOK
<1>9. /\ pc \in {"open", "geb", "write"} /\ pc' \in {"request", "geb", "write", "decode"}
      /\ pc' = "geb" => event.kind = "body"
  BY <1>1, <1>2
<1>10. ~ file[id] => size = 0
  BY <1>1, <1>2 DEF SizeInv
<1>11. ASSUME NEW e \in Seq(DiskFile), NEW m \in Nat, m <= Len(e), Fits(e, m, 0, 0, FALSE, Now, Before),
              NewFile(id, e, m, ok), count' = [count EXCEPT ![id] = m],
              fileSize' = [fileSize EXCEPT ![id] = 0]
       PROVE  SizeInv'
  <2>1. /\ disk' = [disk EXCEPT ![id] = IF ok THEN Fopen(e, m) ELSE e]
        /\ file' = [file EXCEPT ![id] = ok]
    BY <1>11 DEF NewFile
  <2> HIDE DEF l
  <2>2. Fits(IF ok THEN Fopen(e, m) ELSE e, m, 0, More(id)', pc' = "write", Now, Before)
    <3>1. CASE ok
      <4>1. PICK more \in Nat : more = More(id)' /\ more <= l
        BY <1>6
      <4>2. Fits(Fopen(e, m), m, 0, more, pc' = "write", Now, Before)
        BY <1>4, <4>1, <1>11, FopenFits
      <4> QED BY <3>1, <4>1, <4>2
    <3>2. CASE ~ ok
      BY <1>6, <1>11, <3>2
    <3> QED BY <3>1, <3>2
  <2>3. ~ ok => 0 = 0
    OBVIOUS
  <2> DEFINE x == IF ok THEN Fopen(e, m) ELSE e
  <2> HIDE DEF x
  <2>4. disk' = [disk EXCEPT ![id] = x] /\ Fits(x, m, 0, More(id)', pc' = "write", Now, Before)
    BY <2>1, <2>2 DEF x
  <2> QED BY <1>0, <1>1, <1>7, <1>9, <1>11, <2>1, <2>4, OneActs
<1>12. CASE OpenFirst(id, ok)
  <2>1. /\ NewFile(id, d, n, ok) /\ count' = count /\ fileSize' = fileSize /\ ~ file[id]
    BY <1>12 DEF OpenFirst
  <2> QED BY <1>3, <1>5, <1>8, <1>10, <1>11, <2>1
<1>13. CASE KeepOpen(id, ok)
  <2>1. file[id] /\ size <= MaxFileSize /\ ok /\ UNCHANGED <<file, count, fileSize, disk>>
    BY <1>13 DEF KeepOpen, fileVars
  <2>2. Believed(d, n, size)
    BY <1>2 DEF SplitInv
  <2> HIDE DEF d, n, size, l
  <2>3. Fits(d, n, size, More(id)', pc' = "write", Now, Before)
    <3> SUFFICES ASSUME NEW c \in DOMAIN d
                 PROVE  /\ d[c].size + (IF c = n + 1 THEN More(id)' ELSE 0) <= Now
                        /\ c > n + 1 \/ (c = n + 1 /\ size = 0 /\ pc' # "write")
                             => d[c].size <= Before
      BY DEF Fits
    <3>1. d[c].size \in Nat /\ c \in Nat
      BY <1>3, FileHasSize
    <3>2. /\ d[c].size + (IF c = n + 1 THEN 0 ELSE 0) <= Now
          /\ c > n + 1 \/ (c = n + 1 /\ size = 0 /\ ~ FALSE) => d[c].size <= Before
      BY <1>5 DEF Fits
    <3>3. CASE c = n + 1
      <4>1. d[c].size <= MaxFileSize \/ d[c].size <= Before
        BY <2>1, <2>2, <3>2, <3>3 DEF Believed
      <4> QED BY <1>4, <1>6, <3>1, <3>2, <3>3, <4>1, OutFileAssumption
    <3>4. CASE c # n + 1
      BY <1>4, <3>1, <3>2, <3>4
    <3> QED BY <3>3, <3>4
  <2>4. /\ id = event.file /\ count' = [count EXCEPT ![id] = n]
        /\ fileSize' = [fileSize EXCEPT ![id] = size] /\ disk' = [disk EXCEPT ![id] = d]
        /\ file' = [file EXCEPT ![id] = file[id]]
    BY <1>0, <1>8, <2>1
  <2> QED BY <1>1, <1>7, <1>8, <1>9, <1>10, <2>3, <2>4, OneActs
<1>14. CASE RollOver(id, ok)
  <2>1. PICK sealed \in {TRUE, ~ ChmodMayFail} : NewFile(id, SetReadOnly(d, n, sealed), n + 1, ok)
    BY <1>14 DEF RollOver
  <2>2. /\ count' = [count EXCEPT ![id] = n + 1] /\ fileSize' = [fileSize EXCEPT ![id] = 0]
        /\ file[id] /\ sealed \in BOOLEAN
    BY <1>14, OutFileAssumption DEF RollOver
  <2> DEFINE e == SetReadOnly(d, n, sealed)
  <2> HIDE DEF d, n, size, l
  <2>3. /\ e \in Seq(DiskFile) /\ Len(e) = Len(d) /\ e[n + 1].size = d[n + 1].size
        /\ \A c \in DOMAIN d : c # n + 1 => e[c] = d[c]
    BY <1>3, <2>2, SetReadOnlyType
  <2> HIDE DEF e
  <2>4. \A c \in DOMAIN d : e[c].size = d[c].size
    BY <2>3
  <2>5. PICK m \in Nat : m = n + 1 /\ m <= Len(e)
    BY <1>3, <2>2, <2>3
  <2>6. Fits(e, m, 0, 0, FALSE, Now, Before)
    BY <1>3, <1>4, <1>5, <2>3, <2>4, <2>5, SameFits
  <2>7. NewFile(id, e, m, ok)
    BY <2>1, <2>5 DEF e
  <2> QED BY <1>11, <2>2, <2>3, <2>5, <2>6, <2>7
<1> QED BY <1>1, <1>12, <1>13, <1>14 DEF OpenFile

(* Write makes the file it is called for as much longer as it is told to,  *)
(* at the most.                                                            *)
LEMMA WriteGrowsBy ==
  ASSUME FilesInv, NEW id \in FileID, file[id], NEW kind \in ChunkKind, NEW ws \in Seq(Nat),
         NEW size \in Nat, Write(id, kind, ws, size)
  PROVE  \E e \in Seq(DiskFile) : \E k \in Nat :
           /\ k <= size /\ Len(e) = Len(disk[id])
           /\ \A c \in DOMAIN disk[id] : c # count[id] + 1 => e[c].size = disk[id][c].size
           /\ e[count[id] + 1].size = disk[id][count[id] + 1].size + k
           /\ disk' = [disk EXCEPT ![id] = e]
           /\ fileSize' = [fileSize EXCEPT ![id] = e[count[id] + 1].size]
<1>1. PICK n \in Fwritten(size) : WriteChunk(id, [kind |-> kind, words |-> ws, size |-> n])
  BY DEF Write, Fwritten
<1> DEFINE chunk == [kind |-> kind, words |-> ws, size |-> n]
           e == Written(id, chunk)
<1>2. n \in Nat /\ n <= size /\ chunk \in Chunk /\ chunk.size = n
  BY DEF Chunk, Fwritten
<1>3. disk[id] \in Seq(DiskFile) /\ count[id] \in Nat /\ count[id] + 1 \in DOMAIN disk[id]
  BY ObjectType
<1>4. /\ e \in Seq(DiskFile) /\ Len(e) = Len(disk[id])
      /\ \A c \in DOMAIN disk[id] : c # count[id] + 1 => e[c].size = disk[id][c].size
      /\ e[count[id] + 1].size = disk[id][count[id] + 1].size + n
  <2>1. CASE n = 0
    <3>1. e = disk[id]
      BY <1>2, <2>1 DEF Written
    <3>2. disk[id][count[id] + 1].size \in Nat
      BY <1>3, FileHasSize
    <3> QED BY <1>3, <2>1, <3>1, <3>2
  <2>2. CASE n # 0
    <3>1. e = Extend(disk[id], count[id], chunk)
      BY <1>2, <2>2 DEF Written
    <3> QED BY <1>2, <1>3, <3>1, ExtendType
  <2> QED BY <2>1, <2>2
<1>5. /\ disk' = [disk EXCEPT ![id] = e]
      /\ fileSize' = [fileSize EXCEPT ![id] = e[count[id] + 1].size]
  BY <1>1 DEF WriteChunk
<1> HIDE DEF e
<1> QED BY <1>2, <1>4, <1>5

(* WriteData writes no more than it has of the event.                      *)
LEMMA WriteSize ==
  ASSUME ReceiverInv, SyncInv, SizeInv, WriteGEB \/ WriteBody \/ WriteTrig
  PROVE  SizeInv'
<1>0. PICK id \in FileID : id = event.file
  BY DEF ReceiverInv, TypeOK, Event
<1>1. /\ pc \in {"geb", "write"} /\ pc' \in {"write", "decode"}
      /\ UNCHANGED <<event, stream, starts, file, count>>
  BY DEF WriteGEB, WriteBody, WriteTrig, Write, dataVars
<1>2. /\ event.kind \in {"body", "trig"} /\ event.len \in Nat
      /\ event.kind = "trig" => event.file = TrigFile
      /\ pc = "geb" => event.kind = "body"
  BY <1>1, EventFits DEF SizeInv
<1>3. GebWords \in Nat /\ TrigPacketLength \in Nat /\ TrigDataSize \in Nat
  BY DataBufferAssumption
<1>4. FilesInv /\ file[id] /\ data \in Seq(Nat) /\ index \in Nat
  BY <1>0, <1>1 DEF ReceiverInv, TypeOK, FilesInv, AtEvent
<1>5. \E kind \in ChunkKind : \E ws \in Seq(Nat) : \E size \in Nat :
        Write(id, kind, ws, size) /\ size + More(id)' = More(id)
  <2>1. CASE WriteGEB
    <3>1. /\ pc = "geb" /\ pc' = "write"
          /\ Write(id, "geb", <<data[index + 1]>>, GebWords)
      BY <1>0, <2>1 DEF WriteGEB
    <3>2. <<data[index + 1]>> \in Seq(Nat)
      <4>1. index + 1 \in DOMAIN data
        BY <3>1, <1>4 DEF ReceiverInv, BufferFits, AtEvent, TypeOK
      <4> QED BY <1>4, <4>1
    <3>3. More(id) = GebWords + event.len /\ More(id)' = event.len
      BY <1>0, <1>1, <1>2, <3>1 DEF More
    <3> QED BY <1>2, <1>3, <3>1, <3>2, <3>3 DEF ChunkKind
  <2>2. CASE WriteBody
    <3>1. /\ pc = "write" /\ event.kind = "body" /\ pc' = "decode"
          /\ Write(id, "body", CopyOfData(index + 1, event.len), event.len)
      BY <1>0, <2>2 DEF WriteBody
    <3>2. CopyOfData(index + 1, event.len) \in Seq(Nat)
      <4>1. index + 1 \in Nat
        BY <1>4
      <4> QED BY <1>2, <1>4, <4>1, CopyOfDataType
    <3>3. More(id) = event.len /\ More(id)' = 0
      BY <1>0, <1>1, <1>2, <3>1 DEF More
    <3> QED BY <1>2, <3>1, <3>2, <3>3 DEF ChunkKind
  <2>3. CASE WriteTrig
    <3>1. /\ pc = "write" /\ event.kind = "trig" /\ pc' = "decode"
          /\ Write(id, "trig", CopyOfData(index, TrigDataSize), TrigPacketLength)
      BY <1>0, <1>2, <2>3 DEF WriteTrig
    <3>2. CopyOfData(index, TrigDataSize) \in Seq(Nat)
      BY <1>3, <1>4, CopyOfDataType
    <3>3. More(id) = TrigPacketLength /\ More(id)' = 0
      BY <1>0, <1>1, <1>2, <3>1 DEF More
    <3> QED BY <1>3, <3>1, <3>2, <3>3 DEF ChunkKind
  <2> QED BY <2>1, <2>2, <2>3
<1>6. PICK kind \in ChunkKind, ws \in Seq(Nat), size \in Nat :
        Write(id, kind, ws, size) /\ size + More(id)' = More(id)
  BY <1>5
<1> DEFINE d == disk[id]
           n == count[id]
<1>7. PICK e \in Seq(DiskFile), k \in Nat :
        /\ k <= size /\ Len(e) = Len(d)
        /\ \A c \in DOMAIN d : c # n + 1 => e[c].size = d[c].size
        /\ e[n + 1].size = d[n + 1].size + k
        /\ disk' = [disk EXCEPT ![id] = e]
        /\ fileSize' = [fileSize EXCEPT ![id] = e[n + 1].size]
  BY <1>4, <1>6, WriteGrowsBy
<1>8. /\ d \in Seq(DiskFile) /\ n \in Nat /\ n + 1 \in DOMAIN d /\ More(id) \in Nat
  BY <1>4, ObjectIs
<1>9. PICK left \in Nat : left = More(id)' /\ k + left <= More(id)
  <2>1. More(id)' \in Nat
    BY <1>1, <1>2, <1>3 DEF More
  <2> QED BY <1>6, <1>7, <1>8, <2>1
<1>10. Now \in Nat /\ Before \in Nat
  BY <1>1, Bounds
<1>11. PICK was \in BOOLEAN, due \in BOOLEAN :
         was = (pc = "write" /\ id = event.file) /\ due = (pc' = "write")
  OBVIOUS
<1>12. Fits(d, n, fileSize[id], More(id), was, Now, Before)
  BY <1>11 DEF SizeInv, FitsAt
<1>13. count' = [count EXCEPT ![id] = n] /\ file' = [file EXCEPT ![id] = TRUE]
  BY <1>0, <1>1, <1>4 DEF ReceiverInv, TypeOK, FilesTypeOK
<1> HIDE DEF d, n
<1>14. Fits(e, n, e[n + 1].size, left, due, Now, Before)
  BY <1>7, <1>8, <1>9, <1>10, <1>11, <1>12, WrittenFits
<1>15. Fits(e, n, e[n + 1].size, More(id)', pc' = "write", Now, Before)
  BY <1>9, <1>11, <1>14
<1> QED BY <1>0, <1>1, <1>7, <1>13, <1>15, OneActs

(* It holds at the start, and is kept by every step.                       *)
LEMMA InitSize == ASSUME Init PROVE SizeInv
<1>1. \A id \in FileID : disk[id] = <<>> /\ fileSize[id] = 0
  BY DEF Init, FilesInit
<1>2. ASSUME NEW id \in FileID PROVE FitsAt(id)
  BY <1>1 DEF FitsAt, Fits
<1>3. pc # "geb"
  BY DEF Init, GetInit
<1> QED BY <1>1, <1>2, <1>3 DEF SizeInv

(* Every step keeps it.                                                   *)
LEMMA NextSize ==
  ASSUME ReceiverInv, ReceiverInv', SyncInv, SplitInv, SizeInv, [Next]_vars PROVE SizeInv'
<1>1. CASE Still
  <2>1. stream' = stream /\ UNCHANGED <<file, count, fileSize, disk, starts>>
    BY <1>1, Steps DEF Still, fileVars
  <2>2. \/ pc' = pc /\ event' = event
        \/ pc \notin {"geb", "write", "dead"} /\ pc' \notin {"geb", "write", "dead"}
    BY <1>1 DEF Still
  <2>3. Now' = Now /\ Before' = Before
    BY <2>1, <2>2 DEF Now, Before, Bound
  <2>4. ASSUME NEW id \in FileID PROVE FitsAt(id)'
    <3>1. FitsAt(id)
      BY DEF SizeInv
    <3>2. CASE pc' = pc /\ event' = event
      BY <2>1, <2>3, <3>1, <3>2 DEF FitsAt, More
    <3>3. CASE pc \notin {"geb", "write", "dead"} /\ pc' \notin {"geb", "write", "dead"}
      <4>1. Fits(disk[id], count[id], fileSize[id], 0, FALSE, Now, Before)
        BY <3>1, <3>3 DEF FitsAt, More
      <4>2. More(id)' = 0 /\ pc' # "write"
        BY <3>3 DEF More
      <4> QED BY <2>1, <2>3, <4>1, <4>2 DEF FitsAt
    <3> QED BY <2>2, <3>2, <3>3
  <2>5. \A id \in FileID : ~ file'[id] /\ pc' \notin {"closing", "ended"} => fileSize'[id] = 0
    BY <1>1, <2>1 DEF SizeInv, Still
  <2>6. pc' = "geb" => event'.kind = "body"
    BY <2>2 DEF SizeInv
  <2> QED BY <2>4, <2>5, <2>6 DEF SizeInv
<1>2. CASE CloseOne
  <2>1. PICK id \in FileID : CloseFile(id)
    BY <1>2 DEF CloseOne
  <2>2. pc = "closing" /\ pc' = "closing" /\ stream' = stream /\ starts' = starts /\ count' = count
    BY <1>2, <2>1 DEF CloseOne, CloseFile, getVars
  <2>3. Now' = Now /\ Before' = Before
    BY <2>2 DEF Now, Before, Bound
  <2>4. PICK sealed \in BOOLEAN :
          /\ disk' = [disk EXCEPT ![id] = SetReadOnly(disk[id], count[id], sealed)]
          /\ fileSize' = [fileSize EXCEPT ![id] = disk[id][count[id] + 1].size]
          /\ file[id]
    BY <2>1, OutFileAssumption DEF CloseFile
  <2> DEFINE d == disk[id]
             n == count[id]
             e == SetReadOnly(d, n, sealed)
  <2>5. d \in Seq(DiskFile) /\ n \in Nat /\ n + 1 \in DOMAIN d
    BY <2>4, ObjectIs
  <2>6. /\ e \in Seq(DiskFile) /\ Len(e) = Len(d) /\ e[n + 1].size = d[n + 1].size
        /\ \A c \in DOMAIN d : c # n + 1 => e[c] = d[c]
    BY <2>4, <2>5, SetReadOnlyType
  <2>7. Now \in Nat /\ Before \in Nat
    BY <2>2, Bounds
  <2>8. \A k \in FileID : /\ More(k) = 0 /\ More(k)' = 0
                           /\ Fits(disk[k], count[k], fileSize[k], 0, FALSE, Now, Before)
    <3>1. \A k \in FileID : More(k) = 0 /\ More(k)' = 0
      BY <2>2 DEF More
    <3> QED BY <2>2, <3>1 DEF SizeInv, FitsAt
  <2>9. Fits(e, n, d[n + 1].size, 0, FALSE, Now, Before)
    <3>1. Fits(d, n, fileSize[id], 0, FALSE, Now, Before)
      BY <2>8
    <3>2. PICK z \in Nat : z = 0
      OBVIOUS
    <3>3. Fits(d, n, fileSize[id], z, FALSE, Now, Before)
      BY <3>1, <3>2
    <3> HIDE DEF d, n, e
    <3>4. \A c \in DOMAIN d : c # n + 1 => e[c].size = d[c].size
      BY <2>6
    <3>5. d[n + 1].size \in Nat
      BY <2>5, FileHasSize
    <3>6. e[n + 1].size = d[n + 1].size + z /\ z + z <= z
      BY <2>6, <3>2, <3>5
    <3>7. Fits(e, n, e[n + 1].size, z, FALSE, Now, Before)
      BY <2>5, <2>6, <2>7, <3>3, <3>4, <3>6, WrittenFits
    <3> QED BY <2>6, <3>2, <3>7
  <2> HIDE DEF e
  <2>10. ASSUME NEW k \in FileID PROVE FitsAt(k)'
    <3>1. CASE k = id
      <4>1. disk'[k] = e /\ count'[k] = n /\ fileSize'[k] = d[n + 1].size
        BY <2>2, <2>4, <3>1 DEF e, ReceiverInv, TypeOK, FilesTypeOK
      <4> QED BY <2>2, <2>3, <2>8, <2>9, <4>1 DEF FitsAt
    <3>2. CASE k # id
      <4>1. disk'[k] = disk[k] /\ count'[k] = count[k] /\ fileSize'[k] = fileSize[k]
        BY <2>2, <2>4, <3>2 DEF ReceiverInv, TypeOK, FilesTypeOK
      <4> QED BY <2>2, <2>3, <2>8, <4>1 DEF FitsAt
    <3> QED BY <3>1, <3>2
  <2> QED BY <2>2, <2>10 DEF SizeInv
<1>3. CASE Die \/ Restart
  <2>1. /\ stream' = stream /\ disk' = disk /\ pc' \notin {"geb", "write", "closing", "ended"}
        /\ \A id \in FileID : ~ file'[id] => fileSize'[id] = 0
    <3>1. CASE Die
      BY <3>1 DEF Die, NewObjects
    <3>2. CASE Restart
      BY <3>2 DEF Restart, SizeInv
    <3> QED BY <1>3, <3>1, <3>2
  <2>2. Now \in Nat /\ Now' \in Nat /\ Now <= Now' /\ Before' = Now
    <3>1. stream \in Streams /\ starts \in Nat
      BY DEF ReceiverInv, TypeOK, FilesTypeOK
    <3>2. /\ Bound(stream, starts) \in Nat /\ LongestIn(stream) \in Nat
          /\ Bound(stream, starts + 1) = Bound(stream, starts) + LongestIn(stream)
      BY <3>1, BoundIs, LongestIs
    <3>3. CASE Die
      <4>1. starts' = starts /\ pc' = "dead"
        BY <3>3 DEF Die
      <4> QED BY <2>1, <3>2, <4>1 DEF Now, Before
    <3>4. CASE Restart
      <4>1. starts' = starts + 1 /\ pc' # "dead" /\ starts' - 1 = starts
        BY <3>1, <3>4 DEF Restart
      <4> QED BY <2>1, <3>2, <4>1 DEF Now, Before
    <3> QED BY <1>3, <3>3, <3>4
  <2>3. ASSUME NEW id \in FileID PROVE FitsAt(id)'
    <3>1. /\ disk[id] \in Seq(DiskFile) /\ count[id] \in Nat /\ More(id) \in Nat
          /\ count'[id] \in Nat
      BY ObjectIs DEF ReceiverInv, TypeOK, FilesTypeOK
    <3>2. PICK due \in BOOLEAN : due = (pc = "write" /\ id = event.file)
      OBVIOUS
    <3>3. Fits(disk[id], count[id], fileSize[id], More(id), due, Now, Before)
      BY <3>2 DEF SizeInv, FitsAt
    <3>4. PICK all2 \in Nat, m \in Nat : all2 = Now' /\ m = count'[id]
      BY <2>2, <3>1
    <3>5. PICK size2 : size2 = fileSize'[id]
      OBVIOUS
    <3>6. Now <= all2
      BY <2>2, <3>4
    <3>7. Fits(disk[id], m, size2, 0, FALSE, all2, Now)
      BY <2>2, <3>1, <3>2, <3>3, <3>4, <3>6, LeftFits
    <3>8. More(id)' = 0 /\ pc' # "write"
      BY <2>1 DEF More
    <3> QED BY <2>1, <2>2, <3>4, <3>5, <3>7, <3>8 DEF FitsAt
  <2> QED BY <2>1, <2>3 DEF SizeInv
<1>4. ASSUME NEW ok \in BOOLEAN, OpenEventFile(ok) PROVE SizeInv'
  BY <1>4, OpenSize
<1> QED BY <1>1, <1>2, <1>3, <1>4, WriteSize, Steps

(* A file is over the limit by one event of each process that wrote it, at *)
(* the most: OpenFile looks at the size before an event, and goes by what  *)
(* the object knows of it, which in a new process is nothing.              *)
THEOREM ReceiverOverrunBound ==
  WholeReplies /\ ~ ShortHeader => (Spec => []OverrunBound)
<1> SUFFICES ASSUME WholeReplies, ~ ShortHeader PROVE Spec => []OverrunBound
  OBVIOUS
<1>1. Init => ReceiverInv /\ SplitInv /\ SizeInv
  BY InitInv, InitSize, FilesInitSplit DEF Init
<1>2. ReceiverInv /\ Synced /\ SplitInv /\ SizeInv /\ [Next]_vars
      => ReceiverInv' /\ SplitInv' /\ SizeInv'
  BY NextInv, NextFileStep, CallSplit, NextSize DEF Synced
<1>3. Synced /\ SizeInv => OverrunBound
  <2> SUFFICES ASSUME Synced, SizeInv, NEW id \in FileID, NEW c \in DOMAIN disk[id]
               PROVE  disk[id][c].size <= MaxFileSize + starts * LongestEvent
    BY DEF OverrunBound
  <2>1. disk[id] \in Seq(DiskFile) /\ More(id) \in Nat /\ Now \in Nat
    BY ObjectIs, Bounds DEF Synced
  <2>2. disk[id][c].size \in Nat
    BY <2>1, FileHasSize
  <2>3. disk[id][c].size + (IF c = count[id] + 1 THEN More(id) ELSE 0) <= Now
    BY DEF SizeInv, FitsAt, Fits
  <2>4. disk[id][c].size <= Now
    BY <2>1, <2>2, <2>3
  <2>5. Now = MaxFileSize + starts * LongestEvent
    BY LongestEventIs, Zenon DEF Now, Bound
  <2> QED BY <2>4, <2>5
<1>4. Spec => []Synced
  BY SyncedHolds
<1> QED BY <1>1, <1>2, <1>3, <1>4, PTL DEF Spec

-----------------------------------------------------------------------------
(* Headers and bodies.                                                     *)

(* Each body among chunks is behind its header.                            *)
Behind(chunks) ==
  \A i \in DOMAIN chunks :
    chunks[i].kind = "body" => i > 1 /\ chunks[i - 1].words = GebOf(chunks[i])

(* What is found of a sequence of chunks with one more.                    *)
LEMMA MoreChunks ==
  ASSUME NEW chunks \in Seq(Chunk), NEW chunk \in Chunk, NEW n \in Nat, n = Len(chunks),
         NEW more, more = Append(chunks, chunk)
  PROVE  /\ DOMAIN chunks = 1 .. n /\ DOMAIN more = 1 .. n + 1 /\ Len(more) = n + 1
         /\ more[n + 1] = chunk /\ \A i \in 1 .. n : more[i] = chunks[i]
OBVIOUS

(* A header is an orphan until its body is behind it.                      *)
LEMMA GebOrphan ==
  ASSUME NEW chunks \in Seq(Chunk), NEW chunk \in Chunk, chunk.kind = "geb"
  PROVE  OrphansOf(Append(chunks, chunk)) = OrphansOf(chunks) \cup {Len(chunks) + 1}
<1>1. PICK n \in Nat : n = Len(chunks)
  OBVIOUS
<1> DEFINE more == Append(chunks, chunk)
<1>2. /\ DOMAIN chunks = 1 .. n /\ DOMAIN more = 1 .. n + 1 /\ Len(more) = n + 1
      /\ more[n + 1] = chunk /\ \A i \in 1 .. n : more[i] = chunks[i]
  BY <1>1, MoreChunks
<1> HIDE DEF more
<1>3. ASSUME NEW i \in 1 .. n PROVE i \in OrphansOf(more) <=> i \in OrphansOf(chunks)
  <2>1. CASE i = n
    BY <1>1, <1>2, <2>1 DEF OrphansOf
  <2>2. CASE i # n
    <3>1. i + 1 \in 1 .. n
      BY <2>2
    <3> QED BY <1>1, <1>2, <2>2, <3>1 DEF OrphansOf
  <2> QED BY <2>1, <2>2
<1>4. n + 1 \in OrphansOf(more)
  BY <1>2 DEF OrphansOf
<1>5. OrphansOf(more) \subseteq 1 .. n + 1 /\ OrphansOf(chunks) \subseteq 1 .. n
  BY <1>2 DEF OrphansOf
<1>6. OrphansOf(more) = OrphansOf(chunks) \cup {n + 1}
  <2>1. ASSUME NEW i \in 1 .. n + 1 PROVE i = n + 1 \/ i \in 1 .. n
    OBVIOUS
  <2> QED BY <1>3, <1>4, <1>5, <2>1
<1> QED BY <1>1, <1>6 DEF more

(* A trigger event makes none.                                             *)
LEMMA TrigOrphan ==
  ASSUME NEW chunks \in Seq(Chunk), NEW chunk \in Chunk, chunk.kind = "trig"
  PROVE  OrphansOf(Append(chunks, chunk)) = OrphansOf(chunks)
<1>1. PICK n \in Nat : n = Len(chunks)
  OBVIOUS
<1> DEFINE more == Append(chunks, chunk)
<1>2. /\ DOMAIN chunks = 1 .. n /\ DOMAIN more = 1 .. n + 1 /\ Len(more) = n + 1
      /\ more[n + 1] = chunk /\ \A i \in 1 .. n : more[i] = chunks[i]
  BY <1>1, MoreChunks
<1> HIDE DEF more
<1>3. ASSUME NEW i \in 1 .. n PROVE i \in OrphansOf(more) <=> i \in OrphansOf(chunks)
  <2>1. CASE i = n
    BY <1>1, <1>2, <2>1 DEF OrphansOf
  <2>2. CASE i # n
    <3>1. i + 1 \in 1 .. n
      BY <2>2
    <3> QED BY <1>1, <1>2, <2>2, <3>1 DEF OrphansOf
  <2> QED BY <2>1, <2>2
<1>4. n + 1 \notin OrphansOf(more)
  BY <1>2 DEF OrphansOf
<1>5. OrphansOf(more) \subseteq 1 .. n + 1 /\ OrphansOf(chunks) \subseteq 1 .. n
  BY <1>2 DEF OrphansOf
<1>6. OrphansOf(more) = OrphansOf(chunks)
  <2>1. ASSUME NEW i \in 1 .. n + 1 PROVE i = n + 1 \/ i \in 1 .. n
    OBVIOUS
  <2> QED BY <1>3, <1>4, <1>5, <2>1
<1> QED BY <1>6 DEF more

(* The body behind its header makes one less.                              *)
LEMMA BodyOrphan ==
  ASSUME NEW chunks \in Seq(Chunk), NEW chunk \in Chunk, chunk.kind = "body", chunks # <<>>,
         chunks[Len(chunks)].kind = "geb", chunks[Len(chunks)].words = GebOf(chunk)
  PROVE  /\ Len(chunks) \in OrphansOf(chunks)
         /\ OrphansOf(Append(chunks, chunk)) = OrphansOf(chunks) \ {Len(chunks)}
<1>1. PICK n \in Nat : n = Len(chunks) /\ n >= 1
  OBVIOUS
<1> DEFINE more == Append(chunks, chunk)
<1>2. /\ DOMAIN chunks = 1 .. n /\ DOMAIN more = 1 .. n + 1 /\ Len(more) = n + 1
      /\ more[n + 1] = chunk /\ \A i \in 1 .. n : more[i] = chunks[i]
  BY <1>1, MoreChunks
<1> HIDE DEF more
<1>3. ASSUME NEW i \in 1 .. n, i # n PROVE i \in OrphansOf(more) <=> i \in OrphansOf(chunks)
  <2>1. i + 1 \in 1 .. n
    BY <1>3
  <2> QED BY <1>1, <1>2, <1>3, <2>1 DEF OrphansOf
<1>4. n + 1 \notin OrphansOf(more) /\ n \notin OrphansOf(more) /\ n \in OrphansOf(chunks)
  <2>1. n + 1 \notin OrphansOf(more)
    BY <1>2 DEF OrphansOf
  <2>2. more[n] = chunks[n] /\ n # n + 1
    BY <1>1, <1>2
  <2>3. n \notin OrphansOf(more)
    BY <1>1, <1>2, <2>2 DEF OrphansOf
  <2>4. n \in OrphansOf(chunks)
    BY <1>1, <1>2 DEF OrphansOf
  <2> QED BY <2>1, <2>3, <2>4
<1>5. OrphansOf(more) \subseteq 1 .. n + 1 /\ OrphansOf(chunks) \subseteq 1 .. n
  BY <1>2 DEF OrphansOf
<1>6. OrphansOf(more) = OrphansOf(chunks) \ {n}
  <2>1. ASSUME NEW i \in 1 .. n + 1 PROVE i = n + 1 \/ i \in 1 .. n
    OBVIOUS
  <2> QED BY <1>3, <1>4, <1>5, <2>1
<1> QED BY <1>1, <1>4, <1>6 DEF more

(* What is behind its header stays there.                                  *)
LEMMA BehindAppend ==
  ASSUME NEW chunks \in Seq(Chunk), NEW chunk \in Chunk, Behind(chunks),
         chunk.kind = "body" =>
           chunks # <<>> /\ chunks[Len(chunks)].words = GebOf(chunk)
  PROVE  Behind(Append(chunks, chunk))
<1>1. PICK n \in Nat : n = Len(chunks)
  OBVIOUS
<1> DEFINE more == Append(chunks, chunk)
<1>2. /\ DOMAIN chunks = 1 .. n /\ DOMAIN more = 1 .. n + 1 /\ Len(more) = n + 1
      /\ more[n + 1] = chunk /\ \A i \in 1 .. n : more[i] = chunks[i]
  BY <1>1, MoreChunks
<1> HIDE DEF more
<1>3. ASSUME NEW i \in DOMAIN more, more[i].kind = "body"
      PROVE  i > 1 /\ more[i - 1].words = GebOf(more[i])
  <2>1. CASE i = n + 1
    <3>1. n >= 1 /\ chunks[n].words = GebOf(chunk)
      BY <1>1, <1>2, <1>3, <2>1
    <3>2. i - 1 = n /\ more[n] = chunks[n] /\ i > 1
      BY <1>2, <2>1, <3>1
    <3> QED BY <1>2, <2>1, <3>1, <3>2
  <2>2. CASE i # n + 1
    <3>1. i \in 1 .. n
      BY <1>2, <2>2
    <3>2. i > 1 /\ chunks[i - 1].words = GebOf(chunks[i])
      BY <1>2, <1>3, <3>1 DEF Behind
    <3>3. i - 1 \in 1 .. n
      BY <3>1, <3>2
    <3> QED BY <1>2, <3>1, <3>2, <3>3
  <2> QED BY <2>1, <2>2
<1> QED BY <1>3 DEF Behind, more

(* The orphans among the files d of all channels.                          *)
OrphansIn(d) ==
  UNION { UNION { { <<id, c, i>> : i \in OrphansOf(d[id][c].chunks) }
                    : c \in DOMAIN d[id] } : id \in FileID }

IsOrphan(d, x) ==
  \E id \in FileID : \E c \in DOMAIN d[id] : \E i \in OrphansOf(d[id][c].chunks) :
    x = <<id, c, i>>

(* They are what ReceiverProps calls Orphans.                              *)
LEMMA OrphansAre ==
  /\ Orphans = OrphansIn(disk) /\ Orphans' = OrphansIn(disk')
  /\ \A d, x : x \in OrphansIn(d) <=> IsOrphan(d, x)
<1>1. Orphans = OrphansIn(disk) /\ Orphans' = OrphansIn(disk')
  BY Zenon DEF Orphans, OrphansIn
<1>2. ASSUME NEW d, NEW x PROVE x \in OrphansIn(d) <=> IsOrphan(d, x)
  <2> DEFINE Of(id, c) == { <<id, c, i>> : i \in OrphansOf(d[id][c].chunks) }
             OfChannel(id) == UNION { Of(id, c) : c \in DOMAIN d[id] }
  <2>1. ASSUME NEW id, NEW c
        PROVE  x \in Of(id, c) <=> \E i \in OrphansOf(d[id][c].chunks) : x = <<id, c, i>>
    OBVIOUS
  <2>2. OrphansIn(d) = UNION { OfChannel(id) : id \in FileID }
    BY Zenon DEF OrphansIn
  <2> HIDE DEF Of
  <2>3. ASSUME NEW id
        PROVE  x \in OfChannel(id) <=> \E c \in DOMAIN d[id] : x \in Of(id, c)
    OBVIOUS
  <2> HIDE DEF OfChannel
  <2>4. x \in OrphansIn(d) <=> \E id \in FileID : x \in OfChannel(id)
    BY <2>2
  <2> QED BY <2>1, <2>3, <2>4 DEF IsOrphan
<1> QED BY <1>1, <1>2

(* Files with the chunks they had, and perhaps an empty one more.          *)
SameChunks(d, e) ==
  /\ DOMAIN d \subseteq DOMAIN e
  /\ \A c \in DOMAIN e : e[c].chunks = IF c \in DOMAIN d THEN d[c].chunks ELSE <<>>

(* They have the orphans they had.                                         *)
LEMMA SameOrphans ==
  ASSUME NEW d, NEW e, \A id \in FileID : SameChunks(d[id], e[id])
  PROVE  /\ OrphansIn(e) = OrphansIn(d)
         /\ (\A id \in FileID : \A c \in DOMAIN d[id] : Behind(d[id][c].chunks))
              => \A id \in FileID : \A c \in DOMAIN e[id] : Behind(e[id][c].chunks)
<1>1. OrphansOf(<<>>) = {} /\ Behind(<<>>)
  BY DEF OrphansOf, Behind
<1>2. ASSUME NEW x PROVE IsOrphan(e, x) <=> IsOrphan(d, x)
  <2>1. ASSUME NEW id \in FileID, NEW c \in DOMAIN d[id]
        PROVE  c \in DOMAIN e[id] /\ OrphansOf(e[id][c].chunks) = OrphansOf(d[id][c].chunks)
    BY DEF SameChunks
  <2>2. ASSUME NEW id \in FileID, NEW c \in DOMAIN e[id], OrphansOf(e[id][c].chunks) # {}
        PROVE  c \in DOMAIN d[id]
    BY <1>1, <2>2 DEF SameChunks
  <2>3. IsOrphan(d, x) => IsOrphan(e, x)
    BY <2>1 DEF IsOrphan
  <2>4. IsOrphan(e, x) => IsOrphan(d, x)
    <3> SUFFICES ASSUME NEW id \in FileID, NEW c \in DOMAIN e[id],
                        NEW i \in OrphansOf(e[id][c].chunks), x = <<id, c, i>>
                 PROVE  IsOrphan(d, x)
      BY DEF IsOrphan
    <3>1. c \in DOMAIN d[id]
      BY <2>2
    <3>2. i \in OrphansOf(d[id][c].chunks)
      BY <2>1, <3>1
    <3> QED BY <3>1, <3>2 DEF IsOrphan
  <2> QED BY <2>3, <2>4
<1>3. OrphansIn(e) = OrphansIn(d)
  BY <1>2, OrphansAre
<1>4. ASSUME \A id \in FileID : \A c \in DOMAIN d[id] : Behind(d[id][c].chunks),
             NEW id \in FileID, NEW c \in DOMAIN e[id]
      PROVE  Behind(e[id][c].chunks)
  BY <1>1, <1>4 DEF SameChunks
<1> QED BY <1>3, <1>4

(* Files of which only number m of channel k has other chunks.             *)
OneFile(d, e, k, m) ==
  /\ k \in FileID /\ m \in DOMAIN d[k]
  /\ \A id \in FileID : DOMAIN e[id] = DOMAIN d[id]
  /\ \A id \in FileID : \A c \in DOMAIN d[id] :
       id # k \/ c # m => e[id][c].chunks = d[id][c].chunks

(* They have one orphan more or one less if that file has.                 *)
LEMMA OneOrphan ==
  ASSUME NEW d, NEW e, NEW k, NEW m, OneFile(d, e, k, m), NEW i
  PROVE  /\ OrphansOf(e[k][m].chunks) = OrphansOf(d[k][m].chunks) \cup {i}
              => OrphansIn(e) = OrphansIn(d) \cup {<<k, m, i>>}
         /\ OrphansOf(e[k][m].chunks) = OrphansOf(d[k][m].chunks) \ {i}
              => OrphansIn(e) = OrphansIn(d) \ {<<k, m, i>>}
         /\ OrphansOf(e[k][m].chunks) = OrphansOf(d[k][m].chunks)
              => OrphansIn(e) = OrphansIn(d)
<1>1. ASSUME NEW id, NEW c, NEW j, NEW f
      PROVE  IsOrphan(f, <<id, c, j>>) <=>
               id \in FileID /\ c \in DOMAIN f[id] /\ j \in OrphansOf(f[id][c].chunks)
  BY DEF IsOrphan
<1>2. ASSUME NEW id, NEW c, NEW j, id # k \/ c # m
      PROVE  IsOrphan(e, <<id, c, j>>) <=> IsOrphan(d, <<id, c, j>>)
  BY <1>1, <1>2 DEF OneFile
<1>3. ASSUME NEW j
      PROVE  /\ IsOrphan(e, <<k, m, j>>) <=> j \in OrphansOf(e[k][m].chunks)
             /\ IsOrphan(d, <<k, m, j>>) <=> j \in OrphansOf(d[k][m].chunks)
  BY <1>1 DEF OneFile
<1>4. ASSUME NEW x, NEW f, IsOrphan(f, x)
      PROVE  \E id, c, j : x = <<id, c, j>>
  BY <1>4 DEF IsOrphan
<1>5. ASSUME OrphansOf(e[k][m].chunks) = OrphansOf(d[k][m].chunks) \cup {i}
      PROVE  OrphansIn(e) = OrphansIn(d) \cup {<<k, m, i>>}
  <2>1. ASSUME NEW id, NEW c, NEW j
        PROVE  IsOrphan(e, <<id, c, j>>) <=>
                 IsOrphan(d, <<id, c, j>>) \/ <<id, c, j>> = <<k, m, i>>
    BY <1>2, <1>3, <1>5
  <2>2. ASSUME NEW x PROVE IsOrphan(e, x) <=> IsOrphan(d, x) \/ x = <<k, m, i>>
    BY <1>4, <2>1
  <2> QED BY <2>2, OrphansAre
<1>6. ASSUME OrphansOf(e[k][m].chunks) = OrphansOf(d[k][m].chunks) \ {i}
      PROVE  OrphansIn(e) = OrphansIn(d) \ {<<k, m, i>>}
  <2>1. ASSUME NEW id, NEW c, NEW j
        PROVE  IsOrphan(e, <<id, c, j>>) <=>
                 IsOrphan(d, <<id, c, j>>) /\ <<id, c, j>> # <<k, m, i>>
    BY <1>2, <1>3, <1>6
  <2>2. ASSUME NEW x PROVE IsOrphan(e, x) <=> IsOrphan(d, x) /\ x # <<k, m, i>>
    BY <1>4, <2>1
  <2> QED BY <2>2, OrphansAre
<1>7. ASSUME OrphansOf(e[k][m].chunks) = OrphansOf(d[k][m].chunks)
      PROVE  OrphansIn(e) = OrphansIn(d)
  <2>1. ASSUME NEW id, NEW c, NEW j
        PROVE  IsOrphan(e, <<id, c, j>>) <=> IsOrphan(d, <<id, c, j>>)
    BY <1>2, <1>3, <1>7
  <2>2. ASSUME NEW x PROVE IsOrphan(e, x) <=> IsOrphan(d, x)
    BY <1>4, <2>1
  <2> QED BY <2>2, OrphansAre
<1> QED BY <1>5, <1>6, <1>7

(* The chunks of the file that is written.                                 *)
WrittenTo == disk[event.file][count[event.file] + 1].chunks

(* A body is about to be written: its header is the last of its file.      *)
BodyDue == pc = "write" /\ event.kind = "body"

HeaderIn(chunks) ==
  /\ chunks # <<>> /\ chunks[Len(chunks)].kind = "geb"
  /\ chunks[Len(chunks)].words = <<data[index + 1]>>

DueNow == IF BodyDue THEN 1 ELSE 0

FrameInv ==
  /\ IsFiniteSet(Orphans) /\ Cardinality(Orphans) <= Deaths + DueNow
  /\ BodyDue => HeaderIn(WrittenTo)
  /\ \A id \in FileID : \A c \in DOMAIN disk[id] : Behind(disk[id][c].chunks)

(* OpenFile and CloseFile write nothing.                                   *)
LEMMA FopenChunks ==
  ASSUME NEW d \in Seq(DiskFile), NEW n \in Nat, n <= Len(d)
  PROVE  SameChunks(d, Fopen(d, n)) /\ SameChunks(d, d)
<1>1. SameChunks(d, d)
  BY DEF SameChunks
<1>2. CASE n + 1 \in DOMAIN d
  BY <1>1, <1>2 DEF Fopen
<1>3. CASE n + 1 \notin DOMAIN d
  <2>1. n = Len(d) /\ Fopen(d, n) = Append(d, EmptyFile)
    BY <1>3 DEF Fopen
  <2> DEFINE e == Append(d, EmptyFile)
  <2>2. /\ DOMAIN d = 1 .. n /\ DOMAIN e = 1 .. n + 1
        /\ \A c \in 1 .. n : e[c] = d[c]
        /\ e[n + 1] = EmptyFile
    BY <2>1
  <2> HIDE DEF e
  <2>3. e[n + 1].chunks = <<>>
    BY <2>2 DEF EmptyFile
  <2>4. SameChunks(d, e)
    BY <2>2, <2>3 DEF SameChunks
  <2> QED BY <1>1, <2>1, <2>4 DEF e
<1> QED BY <1>2, <1>3

(* Nor does chmod.                                                         *)
LEMMA SealedChunks ==
  ASSUME NEW d \in Seq(DiskFile), NEW n \in Nat, n + 1 \in DOMAIN d, NEW r \in BOOLEAN
  PROVE  /\ SetReadOnly(d, n, r) \in Seq(DiskFile) /\ Len(SetReadOnly(d, n, r)) = Len(d)
         /\ SameChunks(d, SetReadOnly(d, n, r))
<1> DEFINE f == SetReadOnly(d, n, r)
<1>1. /\ f \in Seq(DiskFile) /\ Len(f) = Len(d) /\ f[n + 1].chunks = d[n + 1].chunks
      /\ \A c \in DOMAIN d : c # n + 1 => f[c] = d[c]
  <2>1. f \in Seq(DiskFile) /\ Len(f) = Len(d)
    BY SetReadOnlyType
  <2>2. f[n + 1].chunks = d[n + 1].chunks
    BY SetReadOnlyType
  <2>3. \A c \in DOMAIN d : c # n + 1 => f[c] = d[c]
    BY SetReadOnlyType
  <2> QED BY <2>1, <2>2, <2>3
<1> HIDE DEF f
<1>2. DOMAIN f = DOMAIN d /\ \A c \in DOMAIN d : f[c].chunks = d[c].chunks
  BY <1>1
<1>3. SameChunks(d, f)
  BY <1>2 DEF SameChunks
<1> QED BY <1>1, <1>3 DEF f

(* One file after the other.                                              *)
LEMMA ThenSame ==
  ASSUME NEW d, NEW f, NEW e, SameChunks(d, f), SameChunks(f, e), DOMAIN f = DOMAIN d
  PROVE  SameChunks(d, e)
BY DEF SameChunks

(* What OpenFile and CloseFile leave is what there was.                    *)
LEMMA OpenChunks ==
  ASSUME ReceiverInv, NEW k \in FileID, NEW ok \in BOOLEAN, OpenFile(k, ok) \/ CloseFile(k)
  PROVE  \A id \in FileID : SameChunks(disk[id], disk'[id])
<1> DEFINE d == disk[k]
           n == count[k]
<1>1. /\ d \in Seq(DiskFile) /\ n \in Nat /\ n <= Len(d)
      /\ file[k] => n + 1 \in DOMAIN d
      /\ disk \in [FileID -> Seq(DiskFile)]
  BY ObjectIs DEF ReceiverInv, TypeOK, FilesTypeOK
<1>2. \A id \in FileID : SameChunks(disk[id], disk[id])
  BY DEF SameChunks
<1>3. ASSUME NEW e, SameChunks(d, e), disk' = [disk EXCEPT ![k] = e]
      PROVE  \A id \in FileID : SameChunks(disk[id], disk'[id])
  BY <1>1, <1>2, <1>3
<1>4. CASE OpenFirst(k, ok)
  <2>1. disk' = [disk EXCEPT ![k] = IF ok THEN Fopen(d, n) ELSE d]
    BY <1>4 DEF OpenFirst, NewFile
  <2> DEFINE e == IF ok THEN Fopen(d, n) ELSE d
  <2> HIDE DEF d, n
  <2>2. SameChunks(d, e)
    <3>1. SameChunks(d, Fopen(d, n)) /\ SameChunks(d, d)
      BY <1>1, FopenChunks
    <3>2. e = Fopen(d, n) \/ e = d
      OBVIOUS
    <3> QED BY <3>1, <3>2
  <2> HIDE DEF e
  <2>3. disk' = [disk EXCEPT ![k] = e]
    BY <2>1 DEF e
  <2> QED BY <1>3, <2>2, <2>3
<1>5. CASE KeepOpen(k, ok)
  BY <1>2, <1>5 DEF KeepOpen, fileVars
<1>6. CASE RollOver(k, ok)
  <2>1. PICK sealed \in BOOLEAN :
          disk' = [disk EXCEPT ![k] = IF ok THEN Fopen(SetReadOnly(d, n, sealed), n + 1)
                                      ELSE SetReadOnly(d, n, sealed)]
    BY <1>6, OutFileAssumption DEF RollOver, NewFile
  <2>2. file[k]
    BY <1>6 DEF RollOver
  <2> HIDE DEF d, n
  <2> DEFINE f == SetReadOnly(d, n, sealed)
  <2>3. /\ f \in Seq(DiskFile) /\ Len(f) = Len(d) /\ SameChunks(d, f)
        /\ DOMAIN f = DOMAIN d
    <3>1. d \in Seq(DiskFile) /\ n \in Nat /\ n + 1 \in DOMAIN d
      BY <1>1, <2>2
    <3>2. /\ f \in Seq(DiskFile) /\ Len(f) = Len(d) /\ SameChunks(d, f)
      BY <3>1, SealedChunks
    <3> HIDE DEF f
    <3> QED BY <3>1, <3>2
  <2>4. disk' = [disk EXCEPT ![k] = IF ok THEN Fopen(f, n + 1) ELSE f]
    BY <2>1
  <2> HIDE DEF f
  <2>5. PICK m \in Nat : m = n + 1 /\ m <= Len(f)
    BY <1>1, <2>2, <2>3
  <2>6. SameChunks(f, Fopen(f, m))
    BY <2>3, <2>5, FopenChunks
  <2> DEFINE e == IF ok THEN Fopen(f, m) ELSE f
  <2>7. SameChunks(d, e)
    <3>1. SameChunks(d, Fopen(f, m))
      BY <2>3, <2>6, ThenSame
    <3>2. e = Fopen(f, m) \/ e = f
      OBVIOUS
    <3> QED BY <2>3, <3>1, <3>2
  <2>8. disk' = [disk EXCEPT ![k] = e]
    BY <2>4, <2>5
  <2> HIDE DEF e
  <2> QED BY <1>3, <2>7, <2>8
<1>7. CASE CloseFile(k)
  <2>1. PICK sealed \in BOOLEAN : disk' = [disk EXCEPT ![k] = SetReadOnly(d, n, sealed)]
    BY <1>7, OutFileAssumption DEF CloseFile
  <2>2. file[k]
    BY <1>7 DEF CloseFile
  <2> HIDE DEF d, n
  <2> DEFINE e == SetReadOnly(d, n, sealed)
  <2>3. SameChunks(d, e)
    <3>1. d \in Seq(DiskFile) /\ n \in Nat /\ n + 1 \in DOMAIN d
      BY <1>1, <2>2
    <3> QED BY <3>1, SealedChunks
  <2> HIDE DEF e
  <2>4. disk' = [disk EXCEPT ![k] = e]
    BY <2>1 DEF e
  <2> QED BY <1>3, <2>3, <2>4
<1> QED BY <1>4, <1>5, <1>6, <1>7 DEF OpenFile

(* Write appends to one file what it is given, unless fwrite falls short.  *)
LEMMA WriteAppends ==
  ASSUME ReceiverInv, NEW id \in FileID, file[id], ~ FwriteMayFail,
         NEW kind \in ChunkKind, NEW ws \in Seq(Nat), NEW size \in Nat, size # 0,
         Write(id, kind, ws, size)
  PROVE  /\ OneFile(disk, disk', id, count[id] + 1)
         /\ disk[id][count[id] + 1].chunks \in Seq(Chunk)
         /\ Piece(kind, ws, size) \in Chunk
         /\ disk'[id][count[id] + 1].chunks
              = Append(disk[id][count[id] + 1].chunks, Piece(kind, ws, size))
<1> DEFINE chunk == Piece(kind, ws, size)
<1>1. WriteChunk(id, [kind |-> kind, words |-> ws, size |-> size])
  BY DEF Write
<1>2. chunk \in Chunk /\ chunk.size = size
  BY DEF Chunk, Piece
<1>3. WriteChunk(id, chunk)
  BY <1>1 DEF Piece
<1> HIDE DEF chunk
<1>4. disk' = [disk EXCEPT ![id] = Extend(disk[id], count[id], chunk)]
  BY <1>2, <1>3 DEF WriteChunk, Written
<1> DEFINE d == disk[id]
           n == count[id]
           e == Extend(d, n, chunk)
<1>5. d \in Seq(DiskFile) /\ n \in Nat /\ n + 1 \in DOMAIN d /\ disk \in [FileID -> Seq(DiskFile)]
  BY ObjectIs DEF ReceiverInv, TypeOK, FilesTypeOK
<1>6. /\ e \in Seq(DiskFile) /\ Len(e) = Len(d)
      /\ e[n + 1].chunks = Append(d[n + 1].chunks, chunk)
      /\ \A c \in DOMAIN d : c # n + 1 => e[c] = d[c]
  BY <1>2, <1>5, ExtendType
<1>7. d[n + 1].chunks \in Seq(Chunk)
  <2>1. d[n + 1] \in DiskFile
    BY <1>5
  <2> QED BY <2>1 DEF DiskFile
<1> HIDE DEF e
<1>8. disk'[id] = e /\ \A k \in FileID : k # id => disk'[k] = disk[k]
  BY <1>4, <1>5 DEF e
<1>9. DOMAIN e = DOMAIN d
  BY <1>5, <1>6
<1>10. OneFile(disk, disk', id, n + 1)
  BY <1>5, <1>6, <1>8, <1>9 DEF OneFile
<1> QED BY <1>2, <1>6, <1>7, <1>8, <1>10 DEF chunk

(* One chunk more leaves every body behind its header.                     *)
LEMMA OneBehind ==
  ASSUME NEW d, NEW e, NEW k, NEW m, OneFile(d, e, k, m), d[k][m].chunks \in Seq(Chunk),
         NEW chunk \in Chunk, e[k][m].chunks = Append(d[k][m].chunks, chunk),
         chunk.kind = "body" =>
           /\ d[k][m].chunks # <<>>
           /\ d[k][m].chunks[Len(d[k][m].chunks)].words = GebOf(chunk),
         \A id \in FileID : \A c \in DOMAIN d[id] : Behind(d[id][c].chunks)
  PROVE  \A id \in FileID : \A c \in DOMAIN e[id] : Behind(e[id][c].chunks)
<1>1. Behind(d[k][m].chunks)
  BY DEF OneFile
<1>2. Behind(e[k][m].chunks)
  BY <1>1, BehindAppend
<1>3. ASSUME NEW id \in FileID, NEW c \in DOMAIN e[id] PROVE Behind(e[id][c].chunks)
  <2>1. CASE id = k /\ c = m
    BY <1>2, <2>1
  <2>2. CASE id # k \/ c # m
    BY <2>2 DEF OneFile
  <2> QED BY <2>1, <2>2
<1> QED BY <1>3

(* One orphan more.                                                        *)
LEMMA OneMore ==
  ASSUME NEW d, NEW e, NEW k, NEW m, OneFile(d, e, k, m), NEW i,
         OrphansOf(e[k][m].chunks) = OrphansOf(d[k][m].chunks) \cup {i}
  PROVE  OrphansIn(e) = OrphansIn(d) \cup {<<k, m, i>>}
BY OneOrphan

(* One orphan less.                                                        *)
LEMMA OneLess ==
  ASSUME NEW d, NEW e, NEW k, NEW m, OneFile(d, e, k, m), NEW i,
         OrphansOf(e[k][m].chunks) = OrphansOf(d[k][m].chunks) \ {i}
  PROVE  OrphansIn(e) = OrphansIn(d) \ {<<k, m, i>>}
BY OneOrphan

(* What WriteData has of the event, and where it writes it.                *)
LEMMA WritesTo ==
  ASSUME ReceiverInv, pc \in {"geb", "write"}
  PROVE  /\ event.file \in FileID /\ file[event.file] /\ event.len \in Nat
         /\ data \in Seq(Nat) /\ index \in Nat /\ index + 1 \in DOMAIN data
         /\ starts \in Nat /\ Deaths \in Nat /\ Deaths = starts - 1
<1>1. /\ event.file \in FileID /\ event.len \in Nat /\ data \in Seq(Nat) /\ index \in Nat
      /\ starts \in 1 .. MaxStarts /\ MaxStarts \in Nat
  BY OutFileAssumption DEF ReceiverInv, TypeOK, FilesTypeOK, Event
<1>2. file[event.file] /\ index + 1 \in DOMAIN data
  BY <1>1 DEF ReceiverInv, BufferFits, AtEvent, TypeOK
<1> QED BY <1>1, <1>2 DEF Deaths

(* The header of an event is an orphan, which its body will be behind.     *)
LEMMA GebFrame ==
  ASSUME ReceiverInv, SizeInv, FrameInv, ~ FwriteMayFail, WriteGEB PROVE FrameInv'
<1> DEFINE id == event.file
           m == count[id] + 1
           ws == <<data[index + 1]>>
           chunk == Piece("geb", ws, GebWords)
<1>1. /\ pc = "geb" /\ pc' = "write" /\ Write(id, "geb", ws, GebWords)
      /\ UNCHANGED <<event, data, index, count, starts>> /\ event.kind = "body"
  BY DEF WriteGEB, Write, dataVars, SizeInv
<1>2. /\ id \in FileID /\ file[id] /\ ws \in Seq(Nat) /\ Deaths \in Nat /\ Deaths = starts - 1
      /\ GebWords \in Nat /\ GebWords # 0
  <2>1. id \in FileID /\ file[id] /\ Deaths \in Nat /\ Deaths = starts - 1
    BY <1>1, WritesTo
  <2>2. data[index + 1] \in Nat
    BY <1>1, WritesTo
  <2> QED BY <2>1, <2>2, DataBufferAssumption
<1>3. /\ OneFile(disk, disk', id, m) /\ disk[id][m].chunks \in Seq(Chunk) /\ chunk \in Chunk
      /\ disk'[id][m].chunks = Append(disk[id][m].chunks, chunk)
  BY <1>1, <1>2, WriteAppends DEF ChunkKind
<1>4. chunk.kind = "geb" /\ chunk.words = ws
  BY DEF Piece
<1>5. WrittenTo = disk[id][m].chunks /\ WrittenTo' = disk'[id][m].chunks
  BY <1>1 DEF WrittenTo
<1> DEFINE old == disk[id][m].chunks
<1> HIDE DEF id, m, chunk
<1>6. OrphansOf(disk'[id][m].chunks) = OrphansOf(old) \cup {Len(old) + 1}
  BY <1>3, <1>4, GebOrphan
<1>7. Orphans' = Orphans \cup {<<id, m, Len(old) + 1>>}
  <2> DEFINE i == Len(old) + 1
  <2>1. OrphansOf(disk'[id][m].chunks) = OrphansOf(disk[id][m].chunks) \cup {i}
    BY <1>6
  <2> HIDE DEF i
  <2>2. PICK d, e, k, n : d = disk /\ e = disk' /\ k = id /\ n = m
    OBVIOUS
  <2>3. OneFile(d, e, k, n) /\ OrphansOf(e[k][n].chunks) = OrphansOf(d[k][n].chunks) \cup {i}
    BY <1>3, <2>1, <2>2
  <2>4. OrphansIn(e) = OrphansIn(d) \cup {<<k, n, i>>}
    BY <2>3, OneMore
  <2> QED BY <2>2, <2>4, OrphansAre DEF i
<1>8. IsFiniteSet(Orphans') /\ Cardinality(Orphans') <= Deaths' + DueNow'
  <2>1. IsFiniteSet(Orphans) /\ Cardinality(Orphans) <= Deaths
    <3>1. DueNow = 0
      BY <1>1 DEF DueNow, BodyDue
    <3> QED BY <1>2, <3>1 DEF FrameInv
  <2>2. Cardinality(Orphans) \in Nat
    BY <2>1, FS_CardinalityType
  <2>3. IsFiniteSet(Orphans') /\ Cardinality(Orphans') <= Cardinality(Orphans) + 1
    <3> DEFINE S == Orphans
               x == <<id, m, Len(old) + 1>>
    <3> HIDE DEF S, x
    <3>1. /\ IsFiniteSet(S \cup {x})
          /\ Cardinality(S \cup {x}) = IF x \in S THEN Cardinality(S) ELSE Cardinality(S) + 1
      BY <2>1, FS_AddElement DEF S
    <3>2. Cardinality(S) \in Nat /\ Cardinality(S \cup {x}) <= Cardinality(S) + 1
      BY <2>2, <3>1 DEF S
    <3>3. Orphans' = S \cup {x}
      BY <1>7 DEF S, x
    <3> QED BY <3>1, <3>2, <3>3 DEF S
  <2>4. DueNow' = 1 /\ Deaths' = Deaths
    BY <1>1, <1>2 DEF DueNow, BodyDue, Deaths
  <2>5. Cardinality(Orphans') \in Nat
    BY <2>3, FS_CardinalityType
  <2> QED BY <1>2, <2>1, <2>2, <2>3, <2>4, <2>5
<1>9. HeaderIn(WrittenTo)'
  <2>1. Append(old, chunk) # <<>> /\ Append(old, chunk)[Len(Append(old, chunk))] = chunk
    <3>1. old \in Seq(Chunk)
      BY <1>3
    <3>2. \A s \in Seq(Chunk) : \A x : Append(s, x) # <<>> /\ Append(s, x)[Len(Append(s, x))] = x
      OBVIOUS
    <3> QED BY <3>1, <3>2, Zenon
  <2>2. (<<data[index + 1]>>)' = ws
    BY <1>1
  <2> QED BY <1>3, <1>4, <1>5, <2>1, <2>2 DEF HeaderIn
<1>10. \A k \in FileID : \A c \in DOMAIN disk'[k] : Behind(disk'[k][c].chunks)
  <2>1. chunk.kind # "body"
    BY <1>4
  <2>2. \A k \in FileID : \A c \in DOMAIN disk[k] : Behind(disk[k][c].chunks)
    BY DEF FrameInv
  <2> QED BY <1>3, <2>1, <2>2, OneBehind
<1> QED BY <1>8, <1>9, <1>10 DEF FrameInv

(* The body is behind its header, which is none any more.                  *)
LEMMA BodyFrame ==
  ASSUME ReceiverInv, SyncInv, FrameInv, ~ FwriteMayFail, WriteBody PROVE FrameInv'
<1> DEFINE id == event.file
           m == count[id] + 1
           len == event.len
           ws == CopyOfData(index + 1, event.len)
           chunk == Piece("body", ws, event.len)
<1>1. /\ pc = "write" /\ pc' = "decode" /\ event.kind = "body" /\ Write(id, "body", ws, len)
      /\ UNCHANGED <<event, data, count, starts>>
  BY DEF WriteBody, Write, dataVars
<1>2. /\ id \in FileID /\ file[id] /\ Deaths \in Nat /\ Deaths = starts - 1
      /\ len \in Nat /\ len # 0 /\ index + 1 \in Nat
      /\ index + 2 <= words
  <2>1. /\ id \in FileID /\ file[id] /\ Deaths \in Nat /\ Deaths = starts - 1
        /\ len \in Nat /\ index \in Nat
    BY <1>1, WritesTo
  <2>2. len >= 2 /\ (index + 1) + len <= words
    BY <1>1, AtWrite
  <2>3. words \in Nat
    BY SyncTypes
  <2> QED BY <2>1, <2>2, <2>3
<1>3. ws \in Seq(Nat) /\ ws[1] - 1 = data[index + 1]
  <2>1. data \in Seq(Nat) /\ words \in Nat /\ words <= Len(data) /\ sent \in Nat /\ index \in Nat
    BY <1>1, SyncTypes DEF ReceiverInv, BufferFits
  <2>2. ws \in Seq(Nat)
    BY <1>2, <2>1, CopyOfDataType
  <2>3. ws[1] = data[(index + 1) + 1]
    <3>1. (index + 1) + 1 \in DOMAIN data
      BY <1>2, <2>1
    <3>2. PICK i \in Nat, n \in Nat : i = index + 1 /\ n = len /\ n > 0
      BY <1>2
    <3>3. CopyOfData(i, n)[1] = IF i + 1 \in DOMAIN data THEN data[i + 1] ELSE 0
      BY <2>1, <3>2, CopyIs
    <3> QED BY <3>1, <3>2, <3>3
  <2>4. \A k \in 1 .. words : data[k] = Base + k
    BY <1>1 DEF SyncInv, DecodeSync
  <2>5. data[index + 1] = Base + (index + 1) /\ data[(index + 1) + 1] = Base + ((index + 1) + 1)
    <3>1. index + 1 \in 1 .. words /\ (index + 1) + 1 \in 1 .. words
      BY <1>2, <2>1
    <3> QED BY <2>4, <3>1
  <2>6. PICK b \in Int, i \in Nat : b = Base /\ i = index
    BY <2>1 DEF Base
  <2>7. ws[1] = b + ((i + 1) + 1) /\ data[index + 1] = b + (i + 1)
    BY <2>3, <2>5, <2>6
  <2> HIDE DEF ws
  <2> QED BY <2>2, <2>6, <2>7
<1>4. /\ OneFile(disk, disk', id, m) /\ disk[id][m].chunks \in Seq(Chunk) /\ chunk \in Chunk
      /\ disk'[id][m].chunks = Append(disk[id][m].chunks, chunk)
  BY <1>1, <1>2, <1>3, WriteAppends DEF ChunkKind
<1>5. chunk.kind = "body" /\ GebOf(chunk) = <<data[index + 1]>>
  BY <1>3 DEF Piece, GebOf
<1> DEFINE old == disk[id][m].chunks
<1>6. old # <<>> /\ old[Len(old)].kind = "geb" /\ old[Len(old)].words = GebOf(chunk)
  <2>1. HeaderIn(WrittenTo)
    BY <1>1 DEF FrameInv, BodyDue
  <2> QED BY <1>5, <2>1 DEF HeaderIn, WrittenTo
<1> HIDE DEF id, m, chunk, len
<1>7. /\ Len(old) \in OrphansOf(old)
      /\ OrphansOf(disk'[id][m].chunks) = OrphansOf(old) \ {Len(old)}
  BY <1>4, <1>5, <1>6, BodyOrphan
<1> DEFINE x == <<id, m, Len(old)>>
<1>8. x \in Orphans /\ Orphans' = Orphans \ {x}
  <2> DEFINE i == Len(old)
  <2>1. /\ OrphansOf(disk'[id][m].chunks) = OrphansOf(disk[id][m].chunks) \ {i}
        /\ i \in OrphansOf(disk[id][m].chunks)
    BY <1>7
  <2> HIDE DEF i
  <2>2. PICK d, e, k, n : d = disk /\ e = disk' /\ k = id /\ n = m
    OBVIOUS
  <2>3. OneFile(d, e, k, n) /\ OrphansOf(e[k][n].chunks) = OrphansOf(d[k][n].chunks) \ {i}
    BY <1>4, <2>1, <2>2
  <2>4. OrphansIn(e) = OrphansIn(d) \ {<<k, n, i>>}
    BY <2>3, OneLess
  <2>5. IsOrphan(d, <<k, n, i>>)
    BY <2>1, <2>2, <2>3 DEF IsOrphan, OneFile
  <2> QED BY <2>2, <2>4, <2>5, OrphansAre DEF i
<1> HIDE DEF x
<1>9. IsFiniteSet(Orphans') /\ Cardinality(Orphans') <= Deaths' + DueNow'
  <2>1. IsFiniteSet(Orphans) /\ Cardinality(Orphans) <= Deaths + 1
    <3>1. DueNow = 1
      BY <1>1 DEF DueNow, BodyDue
    <3> QED BY <3>1 DEF FrameInv
  <2>2. Cardinality(Orphans) \in Nat
    BY <2>1, FS_CardinalityType
  <2>3. IsFiniteSet(Orphans') /\ Cardinality(Orphans') = Cardinality(Orphans) - 1
    <3> DEFINE S == Orphans
    <3> HIDE DEF S
    <3>1. /\ IsFiniteSet(S \ {x})
          /\ Cardinality(S \ {x}) = IF x \in S THEN Cardinality(S) - 1 ELSE Cardinality(S)
      BY <2>1, FS_RemoveElement DEF S
    <3>2. x \in S /\ Orphans' = S \ {x}
      BY <1>8 DEF S
    <3> QED BY <3>1, <3>2 DEF S
  <2>4. DueNow' = 0 /\ Deaths' = Deaths
    BY <1>1, <1>2 DEF DueNow, BodyDue, Deaths
  <2> QED BY <1>2, <2>1, <2>2, <2>3, <2>4
<1>10. \A k \in FileID : \A c \in DOMAIN disk'[k] : Behind(disk'[k][c].chunks)
  <2>1. /\ disk[id][m].chunks # <<>>
        /\ disk[id][m].chunks[Len(disk[id][m].chunks)].words = GebOf(chunk)
    BY <1>6
  <2>2. \A k \in FileID : \A c \in DOMAIN disk[k] : Behind(disk[k][c].chunks)
    BY DEF FrameInv
  <2> QED BY <1>4, <2>1, <2>2, OneBehind
<1>11. ~ BodyDue'
  BY <1>1 DEF BodyDue
<1> QED BY <1>9, <1>10, <1>11 DEF FrameInv

(* A trigger event has no header.                                          *)
LEMMA TrigFrame ==
  ASSUME ReceiverInv, SyncInv, FrameInv, ~ FwriteMayFail, WriteTrig PROVE FrameInv'
<1> DEFINE id == event.file
           m == count[id] + 1
           ws == CopyOfData(index, TrigDataSize)
           chunk == Piece("trig", ws, TrigPacketLength)
<1>1. /\ pc = "write" /\ pc' = "decode" /\ event.kind = "trig"
      /\ Write(TrigFile, "trig", ws, TrigPacketLength)
      /\ UNCHANGED <<event, data, count, starts>>
  BY DEF WriteTrig, Write, dataVars
<1>2. /\ id \in FileID /\ id = TrigFile /\ file[id] /\ ws \in Seq(Nat)
      /\ Deaths \in Nat /\ Deaths = starts - 1
      /\ TrigPacketLength \in Nat /\ TrigPacketLength # 0 /\ TrigDataSize \in Nat
  <2>1. /\ id \in FileID /\ file[id] /\ Deaths \in Nat /\ Deaths = starts - 1
        /\ data \in Seq(Nat) /\ index \in Nat
    BY <1>1, WritesTo
  <2>2. id = TrigFile
    BY <1>1, AtWrite DEF FileOf, IsTrig
  <2>3. TrigPacketLength \in Nat /\ TrigPacketLength # 0 /\ TrigDataSize \in Nat
    BY DataBufferAssumption
  <2>4. ws \in Seq(Nat)
    BY <2>1, <2>3, CopyOfDataType
  <2> QED BY <2>1, <2>2, <2>3, <2>4
<1>3. /\ OneFile(disk, disk', id, m) /\ disk[id][m].chunks \in Seq(Chunk) /\ chunk \in Chunk
      /\ disk'[id][m].chunks = Append(disk[id][m].chunks, chunk)
  <2>1. Write(id, "trig", ws, TrigPacketLength)
    BY <1>1, <1>2
  <2> QED BY <1>2, <2>1, WriteAppends DEF ChunkKind
<1>4. chunk.kind = "trig"
  BY DEF Piece
<1> HIDE DEF id, m, chunk
<1>5. OrphansOf(disk'[id][m].chunks) = OrphansOf(disk[id][m].chunks)
  BY <1>3, <1>4, TrigOrphan
<1>6. Orphans' = Orphans
  <2>1. PICK d, e, k, n : d = disk /\ e = disk' /\ k = id /\ n = m
    OBVIOUS
  <2>2. OneFile(d, e, k, n) /\ OrphansOf(e[k][n].chunks) = OrphansOf(d[k][n].chunks)
    BY <1>3, <1>5, <2>1
  <2>3. OrphansIn(e) = OrphansIn(d)
    BY <2>2, OneOrphan
  <2> QED BY <2>1, <2>3, OrphansAre
<1>7. DueNow' = DueNow /\ Deaths' = Deaths /\ ~ BodyDue'
  BY <1>1 DEF DueNow, BodyDue, Deaths
<1>8. \A k \in FileID : \A c \in DOMAIN disk'[k] : Behind(disk'[k][c].chunks)
  <2>1. chunk.kind # "body"
    BY <1>4
  <2>2. \A k \in FileID : \A c \in DOMAIN disk[k] : Behind(disk[k][c].chunks)
    BY DEF FrameInv
  <2> QED BY <1>3, <2>1, <2>2, OneBehind
<1> QED BY <1>6, <1>7, <1>8 DEF FrameInv

(* The other steps write nothing.                                          *)
LEMMA NoFrame ==
  ASSUME FrameInv, \A id \in FileID : SameChunks(disk[id], disk'[id]),
         Deaths + DueNow <= Deaths' + DueNow', Deaths + DueNow \in Nat,
         Deaths' + DueNow' \in Nat, ~ BodyDue'
  PROVE  FrameInv'
<1>1. PICK d, e : d = disk /\ e = disk'
  OBVIOUS
<1>2. /\ OrphansIn(e) = OrphansIn(d)
      /\ (\A id \in FileID : \A c \in DOMAIN d[id] : Behind(d[id][c].chunks))
           => \A id \in FileID : \A c \in DOMAIN e[id] : Behind(e[id][c].chunks)
  <2>1. \A id \in FileID : SameChunks(d[id], e[id])
    BY <1>1
  <2> QED BY <2>1, SameOrphans
<1>3. Orphans' = Orphans
  BY <1>1, <1>2, OrphansAre
<1>4. IsFiniteSet(Orphans') /\ Cardinality(Orphans') <= Deaths' + DueNow'
  <2>1. IsFiniteSet(Orphans) /\ Cardinality(Orphans) <= Deaths + DueNow
    BY DEF FrameInv
  <2>2. Cardinality(Orphans) \in Nat
    BY <2>1, FS_CardinalityType
  <2> QED BY <1>3, <2>1, <2>2
<1>5. \A id \in FileID : \A c \in DOMAIN disk'[id] : Behind(disk'[id][c].chunks)
  BY <1>1, <1>2 DEF FrameInv
<1> QED BY <1>4, <1>5 DEF FrameInv

(* At the start there is nothing.                                          *)
LEMMA InitFrame == ASSUME Init PROVE FrameInv
<1>1. pc = "connect" /\ starts = 1 /\ \A id \in FileID : disk[id] = <<>>
  BY DEF Init, GetInit, FilesInit
<1>2. Orphans = {}
  <2>1. \A x : ~ IsOrphan(disk, x)
    BY <1>1 DEF IsOrphan
  <2> QED BY <2>1, OrphansAre
<1>3. IsFiniteSet(Orphans) /\ Cardinality(Orphans) = 0
  BY <1>2, FS_EmptySet
<1>4. Deaths = 0 /\ DueNow = 0 /\ ~ BodyDue
  BY <1>1 DEF Deaths, DueNow, BodyDue
<1> QED BY <1>1, <1>3, <1>4 DEF FrameInv

(* How often a process has died.                                           *)
LEMMA DeathsType ==
  ASSUME ReceiverInv
  PROVE  /\ Deaths \in Nat /\ DueNow \in {0, 1} /\ starts \in Nat /\ starts - 1 \in Nat
         /\ pc # "dead" => Deaths = starts - 1
         /\ pc = "dead" => Deaths = starts
BY OutFileAssumption DEF ReceiverInv, TypeOK, FilesTypeOK, Deaths, DueNow

(* It is kept by every step.                                               *)
LEMMA NextFrame ==
  ASSUME ReceiverInv, ReceiverInv', SyncInv, SizeInv, FrameInv, ~ FwriteMayFail, [Next]_vars
  PROVE  FrameInv'
<1>0. /\ Deaths \in Nat /\ DueNow \in {0, 1} /\ starts \in Nat
      /\ pc # "dead" => Deaths = starts - 1
      /\ pc = "dead" => Deaths = starts
  BY DeathsType
<1>1. /\ Deaths' \in Nat /\ DueNow' \in {0, 1}
      /\ pc' # "dead" => Deaths' = starts' - 1
      /\ pc' = "dead" => Deaths' = starts'
  <2>1. starts' \in 1 .. MaxStarts
    BY DEF ReceiverInv, TypeOK, FilesTypeOK
  <2>2. PICK n \in Nat : n = starts' /\ n - 1 \in Nat
    BY <2>1, OutFileAssumption
  <2>3. DueNow' \in {0, 1}
    BY Zenon DEF DueNow
  <2>4. pc' # "dead" => Deaths' = n - 1
    BY <2>2 DEF Deaths
  <2>5. pc' = "dead" => Deaths' = (n - 1) + 1
    BY <2>2 DEF Deaths
  <2>6. (n - 1) + 1 = n
    OBVIOUS
  <2>7. CASE pc' = "dead"
    BY <2>2, <2>3, <2>5, <2>6, <2>7
  <2>8. CASE pc' # "dead"
    BY <2>2, <2>3, <2>4, <2>8
  <2> QED BY <2>7, <2>8
<1>2. CASE Still
  <2>1. UNCHANGED <<disk, count, starts>>
    BY <1>2 DEF Still, fileVars
  <2>2. CASE UNCHANGED <<pc, event, index, data>>
    <3>1. /\ Orphans' = Orphans /\ Deaths' = Deaths /\ DueNow' = DueNow /\ BodyDue' = BodyDue
      BY <2>1, <2>2 DEF Orphans, Deaths, DueNow, BodyDue
    <3>2. HeaderIn(WrittenTo)' = HeaderIn(WrittenTo)
      BY <2>1, <2>2 DEF HeaderIn, WrittenTo
    <3> QED BY <2>1, <3>1, <3>2 DEF FrameInv
  <2>3. CASE pc \notin {"geb", "write", "dead"} /\ pc' \notin {"geb", "write", "dead"}
    <3>1. \A id \in FileID : SameChunks(disk[id], disk'[id])
      BY <2>1 DEF SameChunks
    <3>2. Deaths' = Deaths /\ DueNow' = 0 /\ DueNow = 0 /\ ~ BodyDue'
      BY <2>1, <2>3 DEF Deaths, DueNow, BodyDue
    <3> QED BY <1>0, <1>1, <3>1, <3>2, NoFrame
  <2> QED BY <1>2, <2>2, <2>3 DEF Still
<1>3. ASSUME NEW id \in FileID, NEW ok \in BOOLEAN, OpenFile(id, ok) \/ CloseFile(id),
             pc \notin {"write", "dead"}, pc' # "dead", ~ BodyDue', starts' = starts
      PROVE  FrameInv'
  <2>1. \A k \in FileID : SameChunks(disk[k], disk'[k])
    BY <1>3, OpenChunks
  <2>2. Deaths' = Deaths /\ DueNow' = 0 /\ DueNow = 0
    BY <1>3 DEF Deaths, DueNow, BodyDue
  <2> QED BY <1>0, <1>3, <1>1, <2>1, <2>2, NoFrame
<1>4. ASSUME NEW ok \in BOOLEAN, OpenEventFile(ok) PROVE FrameInv'
  <2>1. /\ pc = "open" /\ pc' \in {"request", "write", "geb"} /\ event' = event
        /\ pc' = "write" => event.kind = "trig"
        /\ event.file \in FileID /\ OpenFile(event.file, ok)
    BY <1>4 DEF OpenEventFile, ReceiverInv, TypeOK, Event
  <2>2. starts' = starts
    BY <2>1 DEF OpenFile, OpenFirst, KeepOpen, RollOver, fileVars
  <2>3. ~ BodyDue'
    BY <2>1 DEF BodyDue
  <2> QED BY <1>3, <2>1, <2>2, <2>3
<1>5. CASE CloseOne
  <2>1. PICK id \in FileID : CloseFile(id)
    BY <1>5 DEF CloseOne
  <2>2. pc = "closing" /\ pc' = "closing" /\ starts' = starts
    BY <1>5, <2>1 DEF CloseOne, CloseFile, getVars
  <2>3. ~ BodyDue' /\ TRUE \in BOOLEAN
    BY <2>2 DEF BodyDue
  <2> QED BY <1>3, <2>1, <2>2, <2>3
<1>6. CASE Die \/ Restart
  <2>1. disk' = disk /\ pc' \in {"dead", "connect"}
    BY <1>6 DEF Die, Restart
  <2>2. \A id \in FileID : SameChunks(disk[id], disk'[id])
    BY <2>1 DEF SameChunks
  <2>3. DueNow' = 0 /\ ~ BodyDue'
    BY <2>1 DEF DueNow, BodyDue
  <2>4. Deaths + DueNow <= Deaths'
    <3>1. CASE Die
      <4>1. pc' = "dead" /\ starts' = starts
        BY <3>1 DEF Die
      <4>2. Deaths' = starts
        BY <1>1, <4>1
      <4>3. pc = "dead" => DueNow = 0
        BY DEF DueNow, BodyDue
      <4> QED BY <1>0, <4>2, <4>3
    <3>2. CASE Restart
      <4>1. pc = "dead" /\ pc' = "connect" /\ starts' = starts + 1
        BY <3>2 DEF Restart
      <4>2. DueNow = 0
        BY <4>1 DEF DueNow, BodyDue
      <4>3. Deaths' = starts' - 1 /\ Deaths = starts
        BY <1>0, <1>1, <4>1
      <4> QED BY <1>0, <4>1, <4>2, <4>3
    <3> QED BY <1>6, <3>1, <3>2
  <2>5. /\ Deaths + DueNow <= Deaths' + DueNow'
        /\ Deaths + DueNow \in Nat /\ Deaths' + DueNow' \in Nat
    <3>1. PICK a \in Nat, b \in Nat, c \in Nat : a = Deaths /\ b = DueNow /\ c = Deaths'
      BY <1>0, <1>1
    <3>2. a + b <= c /\ DueNow' = 0
      BY <2>3, <2>4, <3>1
    <3>3. a + b \in Nat /\ c + 0 \in Nat /\ a + b <= c + 0
      BY <3>2
    <3> QED BY <3>1, <3>2, <3>3
  <2> QED BY <1>0, <2>2, <2>3, <2>5, NoFrame
<1> QED BY <1>2, <1>4, <1>5, <1>6, GebFrame, BodyFrame, TrigFrame, Steps

(* A body is behind the GEB header that was written for it, and there is   *)
(* a header without a body for a process that was killed between the two   *)
(* calls of Write, and for nothing else.                                   *)
THEOREM ReceiverFramed ==
  WholeReplies /\ ~ ShortHeader /\ ~ FwriteMayFail => (Spec => []Framed)
<1> SUFFICES ASSUME WholeReplies, ~ ShortHeader, ~ FwriteMayFail PROVE Spec => []Framed
  OBVIOUS
<1>1. Init => ReceiverInv /\ SplitInv /\ SizeInv /\ FrameInv
  BY InitInv, InitSize, InitFrame, FilesInitSplit DEF Init
<1>2. ReceiverInv /\ Synced /\ SplitInv /\ SizeInv /\ FrameInv /\ [Next]_vars
      => ReceiverInv' /\ SplitInv' /\ SizeInv' /\ FrameInv'
  BY NextInv, NextFileStep, CallSplit, NextSize, NextFrame DEF Synced
<1>3. FrameInv => Framed
  BY DEF FrameInv, Framed, DueNow, BodyDue, Behind
<1>4. Spec => []Synced
  BY SyncedHolds
<1> QED BY <1>1, <1>2, <1>3, <1>4, PTL DEF Spec
=============================================================================
