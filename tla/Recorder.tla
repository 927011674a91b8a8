------------------------------ MODULE Recorder ------------------------------
(***************************************************************************)
(* What a receiver promises of its files, whatever becomes of it: the      *)
(* events of a crate are recorded complete, each in the file of its        *)
(* channel, at most once and in the order in which the server sent them.   *)
(* Events may be missing: the promise is about what is there.              *)
(*                                                                         *)
(* Derived from what WriteData of src/receiver/tcp_Receiver.cpp leaves on  *)
(* disk; module ReceiverProps maps the receiver's disk to log.             *)
(***************************************************************************)
EXTENDS Integers, Sequences

CONSTANT FileID       \* the channels of the crate

VARIABLES
  events,       \* events[p]: the channel of the event at p of the stream
  log           \* log[id]: the events recorded for id, in their order on disk

vars == <<events, log>>

Init ==
  /\ DOMAIN events \subseteq Nat
  /\ \A p \in DOMAIN events : events[p] \in FileID
  /\ log = [id \in FileID |-> <<>>]

(* The next event recorded is one the server sent after all that are.      *)
Record(p) ==
  /\ \A id \in FileID : LET l == log[id] IN \A i \in DOMAIN l : l[i] < p
  /\ log' = [log EXCEPT ![events[p]] = Append(@, p)]
  /\ UNCHANGED events

Next == \E p \in DOMAIN events : Record(p)

Spec == Init /\ [][Next]_vars
=============================================================================
