----------------------------- MODULE DataBuffer -----------------------------
(***************************************************************************)
(* The words a data server has for one run, and the vector data the        *)
(* receiver keeps what it received in (src/receiver/tcp_Receiver.cpp).     *)
(*                                                                         *)
(* A word is what WriteData reads in it: as a word at data[index]          *)
(* (mark), and as a word at data[index+1] (type, file, len), because       *)
(* either may be met at either place.  The receiver's memory holds the     *)
(* position a word has in the stream; 0 is a word that did not come from   *)
(* the stream.                                                             *)
(***************************************************************************)
EXTENDS Channels

CONSTANTS
  Streams,         \* what the server may have to send in a run
  DataSize,        \* DEFAULT_DATA_SIZE
  SkipWords,       \* words of a type D, E or F packet, its header among them
  TrigDataSize,    \* TRIG_DATA_SIZE: words of a trigger packet
  TrigPacketLength,\* TRIG_PACKET_LENGTH: words a trigger event is written as
  GebWords         \* sizeof(gebData) in words

(* mark: 0xAAAAAAAA, 0xAAAA0000 or neither.  type: ch_id below 10, or 0xD, *)
(* or another.  start: the word begins a packet; the receiver cannot see   *)
(* it, it is the server's framing.                                         *)
Word == [mark : {"dig", "trig", "none"}, type : {"chan", "done", "skip"},
         file : FileID, len : Nat, start : BOOLEAN]

ZeroWord == [mark |-> "none", type |-> "chan", file |-> ZeroFile,
             len |-> 0, start |-> FALSE]

ASSUME DataBufferAssumption ==
  /\ Streams \subseteq Seq(Word)
  /\ {DataSize, SkipWords, TrigDataSize, TrigPacketLength, GebWords}
       \subseteq Nat \ {0}
  /\ SkipWords > 1

(* How far it is in s from the packet that starts at p to the next one.    *)
PacketLen(s, p) ==
  IF s[p].mark = "trig" THEN TrigDataSize
  ELSE IF s[p + 1].type = "chan" THEN s[p + 1].len + 1 ELSE SkipWords

(* What WriteData expects of a server: packets of the three kinds it       *)
(* knows, one behind the other and as long as they say.  An event of a     *)
(* digitizer has its timestamp in the second word behind the marker.       *)
WellFramed(s) ==
  /\ s # <<>> => s[1].start
  /\ \A p \in DOMAIN s :
       s[p].start =>
         LET next == p + PacketLen(s, p)
         IN  /\ \/ s[p].mark = "trig"
                \/ /\ s[p].mark = "dig" /\ p < Len(s)
                   /\ s[p + 1].type = "chan" => s[p + 1].len >= 2
             /\ next = Len(s) + 1 \/ (next <= Len(s) /\ s[next].start)
             /\ \A q \in p + 1 .. next - 1 : ~ s[q].start

ASSUME FramingAssumption == \A s \in Streams : WellFramed(s)

VARIABLES
  stream,     \* the run's words in the order the server sends them
  data        \* data[i + 1] is the word at data[i]

-----------------------------------------------------------------------------
(* The framing of the stream, as the server means it.                      *)

PacketStarts == { p \in DOMAIN stream : stream[p].start }

(* The packet that starts at p goes up to the next one.                    *)
PacketEnd(p) ==
  CHOOSE e \in p .. Len(stream) :
    /\ e = Len(stream) \/ stream[e + 1].start
    /\ \A q \in p + 1 .. e : ~ stream[q].start

AtPacketEnd(p) == IF p = Len(stream) THEN TRUE ELSE stream[p + 1].start

IsTrig(p) == stream[p].mark = "trig"
IsDone(p) == stream[p].mark = "dig" /\ stream[p + 1].type = "done"
IsEvent(p) == IsTrig(p) \/ (stream[p].mark = "dig" /\ stream[p + 1].type = "chan")

Events == { p \in PacketStarts : IsEvent(p) }

FileOf(p) == IF IsTrig(p) THEN TrigFile ELSE stream[p + 1].file

(* The words of an event that belong in a file: a digitizer event without  *)
(* its marker, a trigger event whole.                                      *)
Payload(p) ==
  LET first == IF IsTrig(p) THEN p ELSE p + 1
  IN  [k \in 1 .. PacketEnd(p) - first + 1 |-> first + k - 1]

-----------------------------------------------------------------------------
(* The vector data.  Reading past its end is undefined.                    *)

WordOf(p) == IF p \in DOMAIN stream THEN stream[p] ELSE ZeroWord

WordAt(i) ==
  IF i + 1 \in DOMAIN data THEN { WordOf(data[i + 1]) }
                           ELSE { WordOf(p) : p \in 0 .. Len(stream) }

Mark(i) == WordOf(data[i + 1]).mark

CopyOfData(i, n) ==
  [k \in 1 .. n |-> IF i + k \in DOMAIN data THEN data[i + k] ELSE 0]

(* Mutant: the size in bytes rounded down to words, and one lost.          *)
ResizeDown(n) ==
  [k \in 1 .. n - 1 |-> IF k \in DOMAIN data THEN data[k] ELSE 0]

(* data.resize: what is there stays, the rest is zero.                     *)
Resize(n) ==
  [k \in 1 .. n |-> IF k \in DOMAIN data THEN data[k] ELSE 0]

(* Mutant: every recv stores from the beginning of data on.                *)
StoreAtStart(i, ws) ==
  [k \in DOMAIN data |-> IF k \in DOMAIN ws THEN ws[k] ELSE data[k]]

(* recv into data from word i on.                                          *)
StoreAt(i, ws) ==
  [k \in DOMAIN data |->
     IF k - i \in DOMAIN ws THEN ws[k - i] ELSE data[k]]

DataInit ==
  /\ stream \in Streams
  /\ data = [k \in 1 .. DataSize |-> 0]
=============================================================================
