------------------------------ MODULE Globals --------------------------------
(***************************************************************************)
(* A global control (softIOC/db/JustGlobals.db, master_fifo_reset and the  *)
(* 176 like it): a chain of dfanout records, each of which passes its      *)
(* value on to the next record (OUTA) and to one crate (OUTB).             *)
(*                                                                         *)
(* A put to the head of the chain, from an operator or a script, holds the *)
(* lock of the chain until every record has been processed.  A record      *)
(* first has the next one processed, so that the crates are served from    *)
(* the last to the first.  Link l is the link to crate l, VAL the same for *)
(* all records once the put has gone down the chain.                       *)
(***************************************************************************)
EXTENDS CaLink

CONSTANTS MaxPuts,       \* puts by operators
          MaxDrops       \* channels lost

ASSUME BoundsAssumption == MaxPuts \in Nat /\ MaxDrops \in Nat

VARIABLES
  val,        \* VAL of the records: the number of the put
  at,         \* the crate whose link is being put to, 0 when there is none
  step,       \* where in dbCaPutLink: "store", "add" or "signal"
  alarm,      \* a record could not put to its crate when it was processed last
  received,   \* what each crate has received
  broken,     \* the channel was lost since its last put, or just before it
  drops       \* channels lost so far

putVars == <<val, at, step>>
vars    == <<caVars, putVars, alarm, received, broken, drops>>

Locked(l) == at = l /\ step # "store"

-----------------------------------------------------------------------------
(* A put to the chain.                                                     *)

(* Mutant: the chain has one record more than there are crates.            *)
PutFieldPastEnd ==
  /\ at = 0 /\ val < MaxPuts
  /\ val' = val + 1 /\ at' = NumLinks + 1 /\ step' = "store"
  /\ UNCHANGED <<caVars, alarm, received, broken, drops>>

PutField ==
  /\ at = 0 /\ val < MaxPuts
  /\ val' = val + 1 /\ at' = NumLinks /\ step' = "store"
  /\ UNCHANGED <<caVars, alarm, received, broken, drops>>

PutRefused ==
  /\ at # 0 /\ step = "store" /\ at \notin signalling /\ ~ isConnected[at]
  /\ alarm' = [alarm EXCEPT ![at] = TRUE]
  /\ at' = at - 1
  /\ UNCHANGED <<caVars, val, step, received, broken, drops>>

PutStored ==
  /\ at # 0 /\ step = "store"
  /\ StoreValue(at, val)
  /\ step' = "add"
  /\ broken' = [broken EXCEPT ![at] = chan[at] # "conn"]
  /\ UNCHANGED <<val, at, alarm, received, drops>>

PutAdded ==
  /\ at # 0 /\ step = "add"
  /\ AddWrite(at)
  /\ step' = "signal"
  /\ UNCHANGED <<val, at, alarm, received, broken, drops>>

PutSignalled ==
  /\ at # 0 /\ step = "signal"
  /\ \/ Signal(at)
     \/ at \notin signalling /\ UNCHANGED caVars
  /\ alarm' = [alarm EXCEPT ![at] = FALSE]
  /\ at' = at - 1 /\ step' = "store"
  /\ UNCHANGED <<val, received, broken, drops>>

PutToLinks == PutRefused \/ PutStored \/ PutAdded \/ PutSignalled

-----------------------------------------------------------------------------
(* dbCaTask, the library and the crates.                                   *)

TaskStep ==
  dbCaTask /\ UNCHANGED <<putVars, alarm, received, broken, drops>>

Callback(l) ==
  /\ ~ Locked(l)
  /\ connectionCallback(l) \/ Signal(l)
  /\ UNCHANGED <<putVars, alarm, received, broken, drops>>

Connects(l) ==
  ChannelUp(l) /\ UNCHANGED <<putVars, alarm, received, broken, drops>>

Disconnects(l) ==
  /\ drops < MaxDrops
  /\ ChannelDown(l)
  /\ broken' = [broken EXCEPT ![l] = TRUE]
  /\ drops' = drops + 1
  /\ UNCHANGED <<putVars, alarm, received>>

Sends(l) ==
  FlushEarly(l) /\ UNCHANGED <<putVars, alarm, received, broken, drops>>

Receives(l) ==
  /\ Arrive(l)
  /\ received' = [received EXCEPT ![l] = Append(@, Head(circuit[l]))]
  /\ UNCHANGED <<putVars, alarm, broken, drops>>

Network(l) == Connects(l) \/ Disconnects(l) \/ Sends(l) \/ Receives(l)

Init ==
  /\ CaInit
  /\ val = 0 /\ at = 0 /\ step = "store"
  /\ alarm = [l \in Link |-> FALSE]
  /\ received = [l \in Link |-> <<>>]
  /\ broken = [l \in Link |-> FALSE]
  /\ drops = 0

Next ==
  \/ PutField \/ PutToLinks \/ TaskStep
  \/ \E l \in Link : Callback(l) \/ Network(l)

Spec == Init /\ [][Next]_vars

(* As long as a thread of the IOC can go on, or something is on its way to *)
(* a crate, one of these steps comes; nobody has to put, a channel need    *)
(* not come back, and no buffer fills up.                                  *)
LiveSpec ==
  Spec /\ WF_vars(PutToLinks \/ TaskStep \/ \E l \in Link : Callback(l) \/ Receives(l))

-----------------------------------------------------------------------------

Puts == 0 .. MaxPuts

(* Every variable has its type: a put to the chain ends with the first     *)
(* crate, and the values sent are values that were put.                    *)
TypeOK ==
  /\ chan \in [Link -> {"none", "disc", "conn"}]
  /\ buffer \in [Link -> Seq(Puts)] /\ circuit \in [Link -> Seq(Puts)]
  /\ isConnected \in [Link -> BOOLEAN]
  /\ pputNative \in [Link -> Puts]
  /\ link_action \in [Link -> SUBSET Action]
  /\ workList \in Seq(Link)
  /\ workListEvent \in BOOLEAN
  /\ signalling \subseteq Link
  /\ task \in {"sleep", "list", "act", "put"}
  /\ taskLink \in Link /\ taskAction \subseteq Action
  /\ val \in Puts /\ at \in 0 .. NumLinks /\ step \in {"store", "add", "signal"}
  /\ alarm \in [Link -> BOOLEAN] /\ broken \in [Link -> BOOLEAN]
  /\ received \in [Link -> Seq(Puts)]
  /\ drops \in 0 .. MaxDrops

(* What dbCaTask has to do for a link is in the work list exactly once:    *)
(* addAction relies on link_action to know whether it is (ellAdd of a node *)
(* that is in the list would destroy the list).                            *)
WorkListSound ==
  /\ \A l \in Link :
       link_action[l] # {} <=> \E i \in DOMAIN workList : workList[i] = l
  /\ \A i, j \in DOMAIN workList : workList[i] = workList[j] => i = j

(* dbCaTask never sleeps on work it will not be woken for: the signal of   *)
(* addAction comes after the unlock, and only from the call that found     *)
(* link_action empty.                                                      *)
NoLostWakeup ==
  task = "sleep" /\ workList # <<>> => workListEvent \/ signalling # {}

(* The last put that dbCaPutLink accepted for link l will reach the crate, *)
(* or has: some actor still has it to do, however the puts, the task and   *)
(* the callbacks are interleaved.                                          *)
Sent(l) == received[l] \o circuit[l] \o buffer[l]

Underway(l) ==
  \/ Sent(l) # <<>> /\ Sent(l)[Len(Sent(l))] = pputNative[l]
  \/ "write" \in link_action[l]
  \/ task = "act" /\ taskLink = l /\ "write" \in taskAction
  \/ task = "put" /\ taskLink = l
  \/ at = l /\ step = "add"

Expected(l) == IF at < l \/ Locked(l) THEN val ELSE val - 1

(* A crate gets the setting that was put last, unless the record of its    *)
(* link is in alarm or the channel was lost: no put is silently dropped by *)
(* the queueing and coalescing of dbCa.c (newOutNative, link_action).      *)
PutIsUnderway ==
  \A l \in Link :
    /\ ~ alarm[l] => pputNative[l] = Expected(l)
    /\ pputNative[l] > 0 /\ ~ broken[l] => Underway(l)

(* A crate sees the settings in the order they were put, and none more     *)
(* than three times, reconnects included.  dbCaTask reads the value when   *)
(* it sends it: the write under way and the one in the list may both send  *)
(* a value that has just been stored and whose own write is yet to be      *)
(* added (master_fifo_reset is a pulse, so that a repeat matters).         *)
MaxRepeats == 3

InOrder ==
  \A l \in Link : \A i, j \in DOMAIN Sent(l) :
    /\ i < j => Sent(l)[i] <= Sent(l)[j]
    /\ i + MaxRepeats <= j => Sent(l)[i] < Sent(l)[j]

(* The last put that was accepted arrives, at every crate whose channel is *)
(* not lost: the signals of addAction and the flush of dbCaTask are enough *)
(* (there are finitely many puts).                                         *)
PutArrives ==
  []<>(\A l \in Link :
         \/ broken[l] \/ pputNative[l] = 0
         \/ \E i \in DOMAIN received[l] : received[l][i] = pputNative[l])
=============================================================================
