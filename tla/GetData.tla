------------------------------ MODULE GetData -------------------------------
(***************************************************************************)
(* GetData and SetUpConnection of the receiver, and what they talk to: the *)
(* socket and the data server of one crate.  The receiver asks, the server *)
(* answers with a header of four words and, if it has data, with the data; *)
(* recv returns as much of what is there as the network likes.             *)
(*                                                                         *)
(* The server runs on the crate's computer from a binary; it is modelled   *)
(* by what this code expects of it.                                        *)
(***************************************************************************)
EXTENDS DataBuffer

CONSTANTS
  MaxReply,        \* bound: words of data in one reply
  Garbage,         \* values of a word of reply[] that was never received
  WholeReplies,    \* the server ends every reply at the end of a packet
  ShortHeader,     \* recv may return less than the 16 bytes of a header
  ServerMayClose,  \* the server may close the connection
  SetupMayFail     \* socket() may fail, or the address be invalid

SERVER_SUMMARY == 4
INSUFF_DATA == 5
NO_DATA == 0       \* any other type

ASSUME GetDataAssumption ==
  /\ MaxReply \in Nat
  /\ Garbage \subseteq Nat
  /\ {WholeReplies, ShortHeader, ServerMayClose, SetupMayFail} \subseteq BOOLEAN

VARIABLES
  pc,         \* where the receiver is
  netSocket,  \* "none", "up", "fin": closed by the server, "reset": answered so
  asked,      \* requests the server has not answered
  sent,       \* words of the stream the server has sent
  wire,       \* what the server has sent and the receiver has not read
  words,      \* required_size_bytes, then words_received
  got,        \* total_bytes_received
  index       \* index of WriteData

netVars == <<netSocket, asked, sent, wire>>
getVars == <<pc, netSocket, asked, sent, wire, words, got, index, stream, data>>

(* What is on the wire: fields of a header, and words of the stream by     *)
(* their position.                                                         *)
Item == [kind : {"field", "word"}, val : Nat]
Field(v) == [kind |-> "field", val |-> v]
Header(type, n) == <<Field(type), Field(1), Field(0), Field(n)>>

(* An item read as a field of a header, and as data.  A word of an event   *)
(* is no reply type.                                                       *)
AsField(x) == IF x.kind = "field" THEN x.val ELSE NO_DATA
AsData(x) == IF x.kind = "word" THEN x.val ELSE 0

-----------------------------------------------------------------------------
(* The server.                                                             *)

ServerReply(type, n) ==
  /\ netSocket = "up"
  /\ asked > 0
  /\ asked' = asked - 1
  /\ wire' = wire \o Header(type, n)
                  \o [k \in 1 .. n |-> [kind |-> "word", val |-> sent + k]]
  /\ sent' = sent + n
  /\ UNCHANGED <<pc, netSocket, words, got, index, stream, data>>

MayEndReply(p) == WholeReplies => AtPacketEnd(p)

ServerSummary ==
  \E n \in 1 .. MaxReply :
    /\ sent + n <= Len(stream)
    /\ MayEndReply(sent + n)
    /\ ServerReply(SERVER_SUMMARY, n)

ServerNoData ==
  \E type \in {SERVER_SUMMARY, INSUFF_DATA, NO_DATA} : ServerReply(type, 0)

(* The connection ends; what was on its way may not arrive.                *)
ServerCloses ==
  /\ ServerMayClose
  /\ netSocket = "up"
  /\ netSocket' = "fin"
  /\ \E n \in 0 .. Len(wire) :
       /\ ShortHeader \/ n = 0 \/ n >= 4 \/ pc = "body"
       /\ wire' = SubSeq(wire, 1, n)
  /\ UNCHANGED <<pc, asked, sent, words, got, index, stream, data>>

-----------------------------------------------------------------------------
(* SetUpConnection.  A connection that is refused is tried again for ever, *)
(* so its result is "up", unless there is no socket to try with.           *)
SetUpConnection ==
  /\ pc = "connect"
  /\ netSocket' \in {"up"} \cup (IF SetupMayFail THEN {"none"} ELSE {})
  /\ pc' = "request"
  /\ UNCHANGED <<asked, sent, wire, words, got, index, stream, data>>

(* send to a connection the receiver believes to be open: the first one    *)
(* after the server closed it is answered with a reset.                    *)
SendRequest ==
  /\ pc = "request"
  /\ \/ netSocket = "up" /\ asked' = asked + 1 /\ UNCHANGED netSocket
     \/ netSocket = "fin" /\ netSocket' = "reset" /\ UNCHANGED asked
  /\ pc' = "reply"
  /\ UNCHANGED <<sent, wire, words, got, index, stream, data>>

(* send without a socket fails; main ignores it and asks again.            *)
SendFails ==
  /\ pc = "request" /\ netSocket = "none"
  /\ UNCHANGED getVars

(* Mutant: the number of records is forgotten.                             *)
OneRecord(reply) == reply[2]

(* required_size_bytes, in words: record size times number of records.     *)
RequiredSize(reply) == reply[2] * reply[4]

(* The reply header: recv is called once, for 16 bytes, and its result is  *)
(* only tested to be positive.                                             *)
RecvHeader(n, rest) ==
  LET reply == [i \in 1 .. 4 |-> IF i <= n THEN AsField(wire[i]) ELSE rest[i]]
  IN  /\ pc = "reply"
      /\ n <= Len(wire) /\ (ShortHeader \/ n = 4)
      /\ wire' = SubSeq(wire, n + 1, Len(wire))
      /\ IF reply[1] = SERVER_SUMMARY
         THEN /\ words' = RequiredSize(reply)
              /\ got' = 0
              /\ data' = IF words' > Len(data) THEN Resize(words') ELSE data
              /\ pc' = "body"
         ELSE /\ pc' = "request"
              /\ UNCHANGED <<words, got, data>>
      /\ UNCHANGED <<netSocket, asked, sent, index, stream>>

GetHeader ==
  \E n \in 1 .. 4 : \E rest \in [n + 1 .. 4 -> Garbage] : RecvHeader(n, rest)

(* One recv of the body, of n words.                                       *)
RecvBody(n) ==
  /\ pc = "body"
  /\ n <= words - got
  /\ data' = StoreAt(got, [k \in 1 .. n |-> AsData(wire[k])])
  /\ wire' = SubSeq(wire, n + 1, Len(wire))
  /\ got' = got + n
  /\ IF got' < words THEN UNCHANGED <<pc, index>> ELSE pc' = "decode" /\ index' = 0
  /\ UNCHANGED <<netSocket, asked, sent, words, stream>>

GetBody == \E n \in 1 .. Len(wire) : RecvBody(n)

(* Mutants of RecvNothing: the -1 is counted and the loop goes on; what     *)
(* there is is given to WriteData; recv is called again.                   *)
NothingReceived ==
  /\ \/ pc \in {"reply", "body"} /\ wire = <<>> /\ netSocket # "up"
     \/ pc = "body" /\ words = 0
  /\ UNCHANGED <<netVars, words, stream, data>>
RecvErrorCounted ==
  NothingReceived /\ got' = got - 1 /\ UNCHANGED <<pc, index>>
RecvNothingDecodes ==
  /\ NothingReceived
  /\ pc' = IF pc = "body" THEN "decode" ELSE "request"
  /\ index' = 0 /\ UNCHANGED got
RecvAgain == NothingReceived /\ UNCHANGED <<pc, got, index>>

(* recv returns 0 or less: the connection is closed and all it brought is  *)
(* read, or nothing was asked for.                                         *)
RecvNothing ==
  /\ \/ pc \in {"reply", "body"} /\ wire = <<>> /\ netSocket # "up"
     \/ pc = "body" /\ words = 0
  /\ pc' = "request"
  /\ UNCHANGED <<netVars, words, got, index, stream, data>>

GetInit ==
  /\ DataInit
  /\ pc = "connect"
  /\ netSocket = "none"
  /\ asked = 0 /\ sent = 0 /\ wire = <<>>
  /\ words = 0 /\ got = 0 /\ index = 0
=============================================================================
