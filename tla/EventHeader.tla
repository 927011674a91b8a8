----------------------------- MODULE EventHeader ----------------------------
(***************************************************************************)
(* The arithmetic of WriteData in src/receiver/tcp_Receiver.cpp: what it   *)
(* makes of the header of a digitizer event, the GEB header it puts before *)
(* the event, and the digitizer-like event it makes of trigger data.       *)
(*                                                                         *)
(* Half is the number of values of half a word (2^16 in the code), so a    *)
(* word has Half^2 values and the 64-bit timestamp Half^4.  A clock of     *)
(* 48 bits (Half^3) runs, and the event at hand was taken at its time.     *)
(* A word in memory, and in a file, is the number the host reads there.    *)
(***************************************************************************)
EXTENDS Integers

CONSTANTS
  Byte,             \* values of a byte; even
  LittleEndian,     \* of the host
  Channels,         \* values of the field ch_id
  DigChannels,      \* 10: the others are the types D, E and F
  Boards,           \* values of board_id; Channels * Boards = Half
  Lengths,          \* values of packet_length_in_words
  BoardTrig,        \* 99
  TrigDataSize,
  TrigPacketLength,
  Lens, Spare,      \* bounds: lengths of events, and what is in the bits of
                    \* their header that WriteData does not look at
  Payloads          \* bound: values of the other half-words of trigger data

Half  == Byte * Byte
Whole == Half * Half

ASSUME EventHeaderAssumption ==
  /\ Byte \in Nat \ {0} /\ Byte % 2 = 0 /\ LittleEndian \in BOOLEAN
  /\ Channels \in Nat \ {0} /\ Boards \in Nat \ {0}
  /\ Channels * Boards = Half
  /\ DigChannels \in 1 .. Channels /\ DigChannels <= 100
  /\ Lengths \in Nat \ {0} /\ Half % Lengths = 0
  /\ BoardTrig \in 0 .. Boards - 1
  /\ TrigPacketLength \in 5 .. Lengths - 1
  /\ TrigDataSize = 2 * TrigPacketLength - 4
  /\ Lens \subseteq 0 .. Lengths - 1 /\ Spare \subseteq 0 .. Half - 1
  /\ Payloads \subseteq Nat

VARIABLES
  clock,        \* the timestamp the hardware gave the event
  source,       \* the channel it is from: ch, board, length and other bits
  data,         \* words 1, 2 and 3 of a digitizer event in data
  trigger,      \* words 1 .. TrigDataSize - 1 of trigger data in data
  geb,          \* GEB_data.timestamp
  payload       \* words 1 .. TrigPacketLength - 1 written for the trigger

vars == <<clock, source, data, trigger, geb, payload>>

-----------------------------------------------------------------------------
(* The bytes of a word in reverse.                                         *)
SwapHalf(h) == (h % Byte) * Byte + (h \div Byte)
Swap(w) == SwapHalf(w % Half) * Half + SwapHalf(w \div Half)

(* A word of the network as the host counts it, and the other way round.   *)
ntohl(w) == IF LittleEndian THEN Swap(w) ELSE w

(* Fields of the header words of an event.                                 *)
ch_id(e) == e[1] % Channels
board_id(e) == (e[1] \div Channels) % Boards
packet_length_in_words(e) == (e[1] \div Half) % Lengths
timestamp_upper(e) == e[3] % Half

(* Word 2 is put into an int: half of its values are negative.             *)
Signed(x) == IF x < Whole \div 2 THEN x ELSE x - Whole
timestamp_lower(e) == Signed(e[2])

(* (uint64_t)(x) of an int x.                                              *)
(* Mutant: the sign is kept.                                               *)
ToSigned64(x) == x

ToUnsigned64(x) == x % (Whole * Whole)

(* hi | lo, for hi without bits below those of a word: where lo is the     *)
(* extension of a sign, its upper half has all its bits set.               *)
OrUpper(hi, lo) == IF lo < Whole THEN hi + lo ELSE lo

(* Mutant: the upper half-word shifted by half a word.                     *)
GebTimestampShifted(e) ==
  OrUpper(timestamp_upper(e) * Half, ToUnsigned64(timestamp_lower(e)))

GebTimestamp(e) ==
  OrUpper(timestamp_upper(e) * Whole, ToUnsigned64(timestamp_lower(e)))

FileIDOf(board, ch) == board * 100 + ch

(* Two half-words in a word.                                               *)
Pack(hi, lo) == hi * Half + lo

(* header_type 0xE, and 3 in the field above it.                           *)
HeaderTypeTrig == (14 + 3 * 1024) % Half

(* Word k > 4 of what is written for a trigger has half-words 2k - 4 and   *)
(* 2k - 3.  Mutant: it has 2k - 5 and 2k - 4.                              *)
TrigPairEarly(h, k) == Pack(h[2 * k - 5], h[2 * k - 4])

TrigPair(h, k) == Pack(h[2 * k - 4], h[2 * k - 3])

(* What is written for a trigger, made of its half-words in the host's     *)
(* byte order.  Word 0 is the marker 0xAAAAAAAA, the same in each order.   *)
TrigPayload(h) ==
  [k \in 1 .. TrigPacketLength - 1 |->
     CASE k = 1 -> TrigPacketLength * Half + BoardTrig * Channels
       [] k = 2 -> Pack(h[3], h[4])
       [] k = 3 -> Pack(HeaderTypeTrig, h[2])
       [] k = 4 -> Pack(h[1], h[5])
       [] OTHER -> TrigPair(h, k)]

(* Mutant: the header is taken from data as it is.                         *)
HeaderRaw(d) == [i \in DOMAIN d |-> d[i]]

(* int header[]: the words as the host counts.                             *)
Header(d) == [i \in DOMAIN d |-> ntohl(d[i])]

-----------------------------------------------------------------------------
(* What the hardware puts into an event at time t.                         *)
Source == [ch : 0 .. DigChannels - 1, board : 0 .. Boards - 1, len : Lens, spare : Spare]

HeaderOf(s, t) ==
  [i \in 1 .. 3 |->
     CASE i = 1 -> s.ch + Channels * s.board
                   + Half * (s.len + Lengths * (s.spare \div Lengths))
       [] i = 2 -> t % Whole
       [] i = 3 -> t \div Whole + Half * s.spare]

TriggerOf(t, v) ==
  [i \in 1 .. TrigDataSize - 1 |-> CASE i = 2 -> t \div Whole
                                     [] i = 3 -> (t \div Half) % Half
                                     [] i = 4 -> t % Half
                                     [] OTHER -> (v + i) % Half]

(* Words of the network as recv stores them.                               *)
Stored(words) == [i \in DOMAIN words |-> ntohl(words[i])]

Decoded(e, t) ==
  /\ data' = Stored(e) /\ trigger' = Stored(t)
  /\ geb' = GebTimestamp(Header(data'))
  /\ payload' = TrigPayload(Header(trigger'))

Init ==
  /\ clock = 0 /\ source \in Source
  /\ data = Stored(HeaderOf(source, 0)) /\ geb = 0
  /\ \E v \in Payloads : trigger = Stored(TriggerOf(0, v))
  /\ payload = TrigPayload(Header(trigger))

(* An event and a trigger are taken at the next tick, and decoded.         *)
Tick ==
  /\ clock + 1 < Half * Whole
  /\ clock' = clock + 1
  /\ \E v \in Payloads : Decoded(HeaderOf(source, clock'), TriggerOf(clock', v))
  /\ UNCHANGED source

Next == Tick
Spec == Init /\ [][Next]_vars

-----------------------------------------------------------------------------

TypeOK ==
  /\ clock \in 0 .. Half * Whole - 1
  /\ source \in Source
  /\ \A i \in 1 .. 3 : data[i] \in 0 .. Whole - 1
  /\ geb \in 0 .. Whole * Whole - 1
  /\ \A k \in 1 .. TrigPacketLength - 1 : payload[k] \in 0 .. Whole - 1

(* In the first half of each turn of the lower word (21 s at 100 MHz) the  *)
(* GEB header has the time of the event; in the second half the lower word *)
(* is still right, and the upper is all ones whatever it should be.        *)
GebTimeInHalf ==
  /\ clock % Whole < Whole \div 2 => geb = clock
  /\ clock % Whole >= Whole \div 2 =>
       geb % Whole = clock % Whole /\ geb \div Whole = Whole - 1

(* gebData has the 48-bit timestamp of the event: "Word 2: 31..0" is the   *)
(* lower word, "Word 3: 15..0" the upper, in a uint64_t.                   *)
GebTimeIsEventTime == geb = clock

(* The event written for a trigger, read in the byte order of the host     *)
(* (the words of a digitizer event are in that of the network in its file) *)
(* says what it is: channel 0 of board 99, the number of its words with    *)
(* the marker, the time of the trigger; and no half-word of the trigger    *)
(* data is missing.                                                        *)
TriggerReadsInHostOrder ==
  /\ ch_id(payload) = 0
  /\ board_id(payload) = BoardTrig
  /\ packet_length_in_words(payload) = TrigPacketLength
  /\ timestamp_upper(payload) * Whole + payload[2] = clock
  /\ \A i \in 1 .. TrigDataSize - 1 :
       \E k \in 2 .. TrigPacketLength - 1 :
         ntohl(trigger[i]) \in {payload[k] \div Half, payload[k] % Half}

(* The words of a digitizer event are written as they are in data.  Who    *)
(* reads them in network byte order finds the channel, board, length and   *)
(* time that the digitizer sent, whatever the other bits are; and the      *)
(* file is that of no other channel.                                       *)
FieldsOfEvent ==
  LET e == Header(data)
  IN  /\ packet_length_in_words(e) = source.len
      /\ timestamp_upper(e) * Whole + e[2] = clock
      /\ \A board \in 0 .. Boards - 1, ch \in 0 .. DigChannels - 1 :
           FileIDOf(board_id(e), ch_id(e)) = FileIDOf(board, ch)
             <=> board = source.board /\ ch = source.ch
=============================================================================
