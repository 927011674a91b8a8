----------------------------- MODULE MCReceiver -----------------------------
(***************************************************************************)
(* Small instances of the receiver: two channels and the trigger, and      *)
(* streams of a few packets.                                               *)
(***************************************************************************)
EXTENDS ReceiverProps

W(mark, type, f, len, start) ==
  [mark |-> mark, type |-> type, file |-> f, len |-> len, start |-> start]

(* A marker read as a header has ch_id 0xA.                                *)
Marker(mark) == W(mark, "skip", ZeroFile, 0, TRUE)

(* A word of an event or of a header's tail, which, read as a header, is   *)
(* that of an event of channel f with len words.                           *)
Plain(f, len) == W("none", "chan", f, len, FALSE)

Rest(n) == [i \in 1 .. n |-> Plain(ZeroFile, 0)]

Dig(f, len) == <<Marker("dig"), Plain(f, len)>> \o Rest(len - 1)
Type(t) == <<Marker("dig"), W("none", t, ZeroFile, 0, FALSE)>> \o Rest(SkipWords - 2)
Trig == <<Marker("trig")>> \o Rest(TrigDataSize - 1)

(* Two channels with files over the limit, the trigger with one below it,  *)
(* a skipped type between events, and data behind the end of the run.      *)
RunStreams ==
  { Dig(1, 3) \o Type("skip") \o Dig(1, 2) \o Dig(2, 2) \o Dig(1, 2) \o Type("done"),
    Dig(2, 2) \o Trig \o Dig(1, 2) \o Trig \o Type("done") \o Dig(2, 2) }

(* Events with a word that looks like the header of another channel's      *)
(* event, the packet that ends the run, and an event behind it.            *)
LooksLike(f, len) == <<Marker("dig"), Plain(1, 2), Plain(f, len)>>

RoughStreams ==
  { LooksLike(2, 1) \o Dig(1, 2) \o Type("done"),
    LooksLike(2, 1) \o Trig \o Type("done") }
=============================================================================
