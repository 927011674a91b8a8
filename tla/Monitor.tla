------------------------------ MODULE Monitor --------------------------------
(***************************************************************************)
(* What a subscription to a channel promises: the client is called with    *)
(* values the channel has had, never with an older one than before, and    *)
(* not at all once it has cancelled the subscription.                      *)
(***************************************************************************)
EXTENDS Integers

CONSTANTS Channel,
          Value      \* naturals; 0 is the value a channel starts with

Nothing == -1

VARIABLES was,         \* the values each channel has had
          subscribed,
          seen         \* the value the client was called with last

vars == <<was, subscribed, seen>>

Init ==
  /\ was = [c \in Channel |-> {0}]
  /\ subscribed = [c \in Channel |-> FALSE]
  /\ seen = [c \in Channel |-> Nothing]

Change(c) ==
  /\ \E v \in Value : (\A w \in was[c] : v > w) /\ was' = [was EXCEPT ![c] = @ \cup {v}]
  /\ UNCHANGED <<subscribed, seen>>

Subscribe(c) ==
  /\ ~ subscribed[c]
  /\ subscribed' = [subscribed EXCEPT ![c] = TRUE]
  /\ UNCHANGED <<was, seen>>

Update(c) ==
  /\ subscribed[c]
  /\ \E v \in was[c] : v >= seen[c] /\ seen' = [seen EXCEPT ![c] = v]
  /\ UNCHANGED <<was, subscribed>>

Cancel(c) ==
  /\ subscribed[c]
  /\ subscribed' = [subscribed EXCEPT ![c] = FALSE]
  /\ seen' = [seen EXCEPT ![c] = Nothing]
  /\ UNCHANGED was

Next == \E c \in Channel : Change(c) \/ Subscribe(c) \/ Update(c) \/ Cancel(c)

Spec == Init /\ [][Next]_vars
=============================================================================
