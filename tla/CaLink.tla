------------------------------- MODULE CaLink --------------------------------
(***************************************************************************)
(* Output links of records to process variables of another IOC, over       *)
(* Channel Access (base/base-3.14.12.8/src/db/dbCa.c): what a put to such  *)
(* a link leaves behind, the task dbCaTask that sends it, and the channel, *)
(* which may be lost and come back.                                        *)
(*                                                                         *)
(* A value is the number of the put it came from; it is at most a double,  *)
(* and is stored and read in one access.  Links are not changed or removed *)
(* while the IOC runs, every channel may be written, and puts ask for no   *)
(* callback.                                                               *)
(***************************************************************************)
EXTENDS Integers, Sequences

CONSTANT NumLinks        \* how many output links there are

ASSUME NumLinksAssumption == NumLinks \in Nat \ {0}

Link == 1 .. NumLinks

VARIABLES
  chan,           \* the channel in the CA library: "none", "disc" or "conn"
  buffer,         \* puts in the library that are not flushed
  circuit,        \* puts on their way to the other IOC
  isConnected,    \* pca->isConnected
  pputNative,     \* *pca->pputNative
  link_action,    \* pca->link_action
  workList,       \* the caLinks dbCaTask has something to do for
  workListEvent,  \* the binary semaphore it waits on
  signalling,     \* callers of addAction that have unlocked but not signalled
  task,           \* where dbCaTask is: "sleep", "list", "act" or "put"
  taskLink,       \* its pca
  taskAction      \* its link_action

listVars == <<link_action, workList, signalling>>
taskVars == <<task, taskLink, taskAction>>
netVars  == <<chan, buffer, circuit>>
caVars   == <<netVars, isConnected, pputNative, listVars, workListEvent, taskVars>>

Action == {"connect", "write", "attributes"}

-----------------------------------------------------------------------------
(* The caller holds the lock of the caLink.  Between the unlock of         *)
(* workListLock and the signal, others may work on the list.               *)

(* Mutant: ellAdd whether or not the link is in the list.                  *)
addActionTwice(l, a) ==
  /\ link_action' = [link_action EXCEPT ![l] = @ \cup {a}]
  /\ workList' = Append(workList, l)
  /\ signalling' = signalling \cup {l}

addAction(l, a) ==
  /\ link_action' = [link_action EXCEPT ![l] = @ \cup {a}]
  /\ IF link_action[l] = {}
     THEN /\ workList' = Append(workList, l)
          /\ signalling' = signalling \cup {l}
     ELSE UNCHANGED <<workList, signalling>>

Signal(l) ==
  /\ l \in signalling
  /\ signalling' = signalling \ {l}
  /\ workListEvent' = TRUE
  /\ UNCHANGED <<netVars, isConnected, pputNative, link_action, workList, taskVars>>

(* A put: the new value under the lock of the caLink, which dbCaTask does  *)
(* not ask for when it reads the value, then addAction.                    *)
StoreValue(l, v) ==
  /\ l \notin signalling
  /\ isConnected[l]
  /\ pputNative' = [pputNative EXCEPT ![l] = v]
  /\ UNCHANGED <<netVars, isConnected, listVars, workListEvent, taskVars>>

AddWrite(l) ==
  /\ addAction(l, "write")
  /\ UNCHANGED <<netVars, isConnected, pputNative, workListEvent, taskVars>>

(* Mutant: the last put is done again on a reconnect.                      *)
ConnectionRedo(l) ==
  /\ l \notin signalling
  /\ isConnected[l] # (chan[l] = "conn")
  /\ isConnected' = [isConnected EXCEPT ![l] = chan[l] = "conn"]
  /\ IF chan[l] = "conn"
     THEN addAction(l, IF pputNative[l] > 0 THEN "write" ELSE "attributes")
     ELSE UNCHANGED listVars
  /\ UNCHANGED <<netVars, pputNative, workListEvent, taskVars>>

(* Called by the library when the state of the channel has changed.        *)
connectionCallback(l) ==
  /\ l \notin signalling
  /\ isConnected[l] # (chan[l] = "conn")
  /\ isConnected' = [isConnected EXCEPT ![l] = chan[l] = "conn"]
  /\ IF chan[l] = "conn" THEN addAction(l, "attributes") ELSE UNCHANGED listVars
  /\ UNCHANGED <<netVars, pputNative, workListEvent, taskVars>>

-----------------------------------------------------------------------------
(* dbCaTask.                                                               *)

Wake ==
  /\ task = "sleep" /\ workListEvent
  /\ workListEvent' = FALSE
  /\ task' = "list"
  /\ UNCHANGED <<netVars, isConnected, pputNative, listVars, taskLink, taskAction>>

Take ==
  /\ task = "list" /\ workList # <<>>
  /\ taskLink' = Head(workList)
  /\ taskAction' = link_action[Head(workList)]
  /\ workList' = Tail(workList)
  /\ link_action' = [link_action EXCEPT ![Head(workList)] = {}]
  /\ task' = "act"
  /\ UNCHANGED <<netVars, isConnected, pputNative, workListEvent, signalling>>

ConnectChannel ==
  /\ task = "act" /\ "connect" \in taskAction
  /\ chan' = [chan EXCEPT ![taskLink] = "disc"]
  /\ task' = "list"
  /\ UNCHANGED <<buffer, circuit, isConnected, pputNative, listVars,
                 workListEvent, taskLink, taskAction>>

(* Mutant: the actions are reset after workListLock is given back.         *)
ActResets ==
  /\ task = "act" /\ "connect" \notin taskAction
  /\ task' = IF chan[taskLink] = "conn" /\ "write" \in taskAction
             THEN "put" ELSE "list"
  /\ link_action' = [link_action EXCEPT ![taskLink] = {}]
  /\ UNCHANGED <<netVars, isConnected, pputNative, workList, signalling,
                 workListEvent, taskLink, taskAction>>

(* Without a connection, what there was to do is dropped.                  *)
Act ==
  /\ task = "act" /\ "connect" \notin taskAction
  /\ task' = IF chan[taskLink] = "conn" /\ "write" \in taskAction
             THEN "put" ELSE "list"
  /\ UNCHANGED <<netVars, isConnected, pputNative, listVars, workListEvent,
                 taskLink, taskAction>>

(* Mutant: one link is served for each time dbCaTask wakes up.             *)
PutAndSleep ==
  /\ task = "put"
  /\ buffer' = [buffer EXCEPT ![taskLink] =
       IF chan[taskLink] = "conn" THEN Append(@, pputNative[taskLink]) ELSE @]
  /\ task' = "sleep"
  /\ UNCHANGED <<chan, circuit, isConnected, pputNative, listVars,
                 workListEvent, taskLink, taskAction>>

(* ca_array_put of what pputNative is now; it fails without a connection.  *)
Put ==
  /\ task = "put"
  /\ buffer' = [buffer EXCEPT ![taskLink] =
       IF chan[taskLink] = "conn" THEN Append(@, pputNative[taskLink]) ELSE @]
  /\ task' = "list"
  /\ UNCHANGED <<chan, circuit, isConnected, pputNative, listVars,
                 workListEvent, taskLink, taskAction>>

(* Mutant: no ca_flush_io.                                                 *)
NoFlush ==
  /\ task = "list" /\ workList = <<>>
  /\ task' = "sleep"
  /\ UNCHANGED <<netVars, isConnected, pputNative, listVars, workListEvent,
                 taskLink, taskAction>>

(* The list is empty: ca_flush_io, and back to sleep.                      *)
Flush ==
  /\ task = "list" /\ workList = <<>>
  /\ circuit' = [l \in Link |-> circuit[l] \o buffer[l]]
  /\ buffer' = [l \in Link |-> <<>>]
  /\ task' = "sleep"
  /\ UNCHANGED <<chan, isConnected, pputNative, listVars, workListEvent,
                 taskLink, taskAction>>

dbCaTask == Wake \/ Take \/ ConnectChannel \/ Act \/ Put \/ Flush

-----------------------------------------------------------------------------
(* The CA library and the network.  A channel connects, and is lost with   *)
(* what has not arrived; connectionCallback is called for each change.     *)

noCode == <<isConnected, pputNative, listVars, workListEvent, taskVars>>

ChannelUp(l) ==
  /\ chan[l] = "disc" /\ ~ isConnected[l]
  /\ chan' = [chan EXCEPT ![l] = "conn"]
  /\ UNCHANGED <<buffer, circuit, noCode>>

ChannelDown(l) ==
  /\ chan[l] = "conn" /\ isConnected[l]
  /\ chan' = [chan EXCEPT ![l] = "disc"]
  /\ buffer' = [buffer EXCEPT ![l] = <<>>]
  /\ circuit' = [circuit EXCEPT ![l] = <<>>]
  /\ UNCHANGED noCode

(* A full buffer is sent before ca_flush_io.                               *)
FlushEarly(l) ==
  /\ buffer[l] # <<>>
  /\ circuit' = [circuit EXCEPT ![l] = @ \o buffer[l]]
  /\ buffer' = [buffer EXCEPT ![l] = <<>>]
  /\ UNCHANGED <<chan, noCode>>

Arrive(l) ==
  /\ circuit[l] # <<>>
  /\ circuit' = [circuit EXCEPT ![l] = Tail(@)]
  /\ UNCHANGED <<chan, buffer, noCode>>

(* dbCaAddLink has been called for every link.                             *)
CaInit ==
  /\ chan = [l \in Link |-> "none"]
  /\ buffer = [l \in Link |-> <<>>]
  /\ circuit = [l \in Link |-> <<>>]
  /\ isConnected = [l \in Link |-> FALSE]
  /\ pputNative = [l \in Link |-> 0]
  /\ link_action = [l \in Link |-> {"connect"}]
  /\ workList = [l \in Link |-> l]
  /\ workListEvent = TRUE
  /\ signalling = {}
  /\ task = "sleep" /\ taskLink = 1 /\ taskAction = {}
=============================================================================
