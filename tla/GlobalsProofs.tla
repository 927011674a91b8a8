--------------------------- MODULE GlobalsProofs -----------------------------
(***************************************************************************)
(* Proofs about Globals, for any number of crates, puts and lost channels. *)
(***************************************************************************)
EXTENDS Globals, SequenceTheorems, TLAPS

(* Every variable has its type at the start.                               *)
LEMMA TypeInit == Init => TypeOK
<1> SUFFICES ASSUME Init PROVE TypeOK
  OBVIOUS
<1>1. <<>> \in Seq(Puts)
  OBVIOUS
<1>2. 0 \in Puts
  BY BoundsAssumption DEF Puts
<1>3. workList \in Seq(Link)
  BY NumLinksAssumption DEF Init, CaInit, Link
<1>4. 1 \in Link /\ NumLinks \in Nat
  BY NumLinksAssumption DEF Link
<1> QED
  BY <1>1, <1>2, <1>3, <1>4, BoundsAssumption
  DEF Init, CaInit, TypeOK, Action

(* addAction keeps the types of the variables it changes.                  *)
LEMMA AddActionType ==
  ASSUME TypeOK, NEW l \in Link, NEW a \in Action, addAction(l, a)
  PROVE  /\ link_action' \in [Link -> SUBSET Action]
         /\ workList' \in Seq(Link)
         /\ signalling' \subseteq Link
<1>1. link_action' \in [Link -> SUBSET Action]
  <2>1. link_action[l] \cup {a} \in SUBSET Action
    BY DEF TypeOK
  <2> QED
    BY <2>1 DEF addAction, TypeOK
<1>2. workList' \in Seq(Link) /\ signalling' \subseteq Link
  <2>1. Append(workList, l) \in Seq(Link)
    BY DEF TypeOK
  <2> QED
    BY <2>1 DEF addAction, TypeOK
<1> QED
  BY <1>1, <1>2

(* The link a put is at is a link.                                         *)
LEMMA AtIsLink == TypeOK /\ at # 0 => at \in Link
  BY NumLinksAssumption DEF TypeOK, Link

(* Every action keeps the type invariant.                                  *)
LEMMA TypeStep == TypeOK /\ [Next]_vars => TypeOK'
<1> SUFFICES ASSUME TypeOK, [Next]_vars PROVE TypeOK'
  OBVIOUS
<1> USE NumLinksAssumption, BoundsAssumption
<1>1. CASE PutField
  <2>1. val' \in Puts /\ at' \in 0 .. NumLinks
    BY <1>1 DEF PutField, TypeOK, Puts
  <2> QED
    BY <1>1, <2>1 DEF PutField, TypeOK, caVars, netVars, listVars, taskVars
<1>2. CASE PutRefused
  BY <1>2 DEF PutRefused, TypeOK, caVars, netVars, listVars, taskVars, Link
<1>3. CASE PutStored
  <2>1. pputNative' \in [Link -> Puts]
    BY <1>3, AtIsLink DEF PutStored, StoreValue, TypeOK
  <2>2. broken' \in [Link -> BOOLEAN]
    BY <1>3, AtIsLink DEF PutStored, TypeOK
  <2>3. /\ UNCHANGED <<chan, buffer, circuit, isConnected, link_action, workList,
                       signalling, workListEvent, task, taskLink, taskAction,
                       val, at, alarm, received, drops>>
        /\ step' = "add"
    BY <1>3 DEF PutStored, StoreValue, netVars, listVars, taskVars
  <2> QED
    BY <2>1, <2>2, <2>3 DEF TypeOK
<1>4. CASE PutAdded
  <2>1. at \in Link /\ addAction(at, "write") /\ "write" \in Action
    BY <1>4, AtIsLink DEF PutAdded, AddWrite, Action
  <2> QED
    BY <1>4, <2>1, AddActionType DEF PutAdded, AddWrite, TypeOK, netVars, taskVars
<1>5. CASE PutSignalled
  <2>1. at' \in 0 .. NumLinks /\ alarm' \in [Link -> BOOLEAN]
    BY <1>5, AtIsLink DEF PutSignalled, TypeOK
  <2>2. /\ signalling' \subseteq Link /\ workListEvent' \in BOOLEAN
        /\ UNCHANGED <<chan, buffer, circuit, isConnected, pputNative, link_action,
                       workList, task, taskLink, taskAction>>
    BY <1>5 DEF PutSignalled, Signal, TypeOK, caVars, netVars, listVars, taskVars
  <2> QED
    BY <1>5, <2>1, <2>2 DEF PutSignalled, TypeOK
<1>6. CASE TaskStep
  <2> USE DEF putVars, netVars, listVars, taskVars
  <2>1. CASE Wake
    BY <1>6, <2>1 DEF TaskStep, Wake, TypeOK
  <2>2. CASE Take
    BY <1>6, <2>2 DEF TaskStep, Take, TypeOK
  <2>3. CASE ConnectChannel
    BY <1>6, <2>3 DEF TaskStep, ConnectChannel, TypeOK
  <2>4. CASE Act
    BY <1>6, <2>4 DEF TaskStep, Act, TypeOK
  <2>5. CASE Put
    BY <1>6, <2>5 DEF TaskStep, Put, TypeOK
  <2>6. CASE Flush
    BY <1>6, <2>6 DEF TaskStep, Flush, TypeOK
  <2> QED
    BY <1>6, <2>1, <2>2, <2>3, <2>4, <2>5, <2>6 DEF TaskStep, dbCaTask
<1>7. ASSUME NEW l \in Link, Callback(l) PROVE TypeOK'
  <2>1. CASE connectionCallback(l)
    <3>1. isConnected' \in [Link -> BOOLEAN]
      BY <2>1 DEF connectionCallback, TypeOK
    <3>2. /\ link_action' \in [Link -> SUBSET Action]
          /\ workList' \in Seq(Link)
          /\ signalling' \subseteq Link
      <4>1. CASE addAction(l, "attributes")
        BY <4>1, AddActionType DEF Action
      <4> QED
        BY <2>1, <4>1 DEF connectionCallback, TypeOK, listVars
    <3> QED
      BY <1>7, <2>1, <3>1, <3>2
      DEF Callback, connectionCallback, TypeOK, putVars, netVars, taskVars
  <2>2. CASE Signal(l)
    BY <1>7, <2>2 DEF Callback, Signal, TypeOK, putVars, netVars, listVars, taskVars
  <2> QED
    BY <1>7, <2>1, <2>2 DEF Callback
<1>8. ASSUME NEW l \in Link, Network(l) PROVE TypeOK'
  <2> USE DEF noCode, putVars, listVars, taskVars
  <2>1. CASE Connects(l)
    BY <2>1 DEF Connects, ChannelUp, TypeOK
  <2>2. CASE Disconnects(l)
    BY <2>2 DEF Disconnects, ChannelDown, TypeOK
  <2>3. CASE Sends(l)
    BY <2>3 DEF Sends, FlushEarly, TypeOK
  <2>4. CASE Receives(l)
    BY <2>4 DEF Receives, Arrive, TypeOK
  <2> QED
    BY <1>8, <2>1, <2>2, <2>3, <2>4 DEF Network
<1>9. CASE UNCHANGED vars
  BY <1>9 DEF TypeOK, vars, caVars, putVars, netVars, listVars, taskVars
<1> QED
  BY <1>1, <1>2, <1>3, <1>4, <1>5, <1>6, <1>7, <1>8, <1>9 DEF Next, PutToLinks

(* In every reachable state of Spec, each variable has its type.           *)
THEOREM GlobalsTypeCorrect == Spec => []TypeOK
<1> QED
  BY TypeInit, TypeStep, PTL DEF Spec
-----------------------------------------------------------------------------
(* The work list.                                                          *)

(* A step that touches the work list is a call of addAction or Take.       *)
LEMMA ListSteps ==
  ASSUME TypeOK, [Next]_vars
  PROVE  \/ \E l \in Link : \E a \in {"write", "attributes"} : addAction(l, a)
         \/ Take
         \/ UNCHANGED <<link_action, workList>>
<1> USE DEF caVars, netVars, listVars, taskVars
<1>1. CASE PutField \/ PutRefused \/ PutStored \/ PutSignalled
  BY <1>1 DEF PutField, PutRefused, PutStored, StoreValue, PutSignalled, Signal
<1>2. CASE PutAdded
  BY <1>2, AtIsLink DEF PutAdded, AddWrite
<1>3. CASE TaskStep
  BY <1>3 DEF TaskStep, dbCaTask, Wake, ConnectChannel, Act, Put, Flush
<1>4. ASSUME NEW l \in Link, Callback(l)
      PROVE  addAction(l, "attributes") \/ UNCHANGED <<link_action, workList>>
  BY <1>4 DEF Callback, connectionCallback, Signal
<1>5. ASSUME NEW l \in Link, Network(l) PROVE UNCHANGED <<link_action, workList>>
  BY <1>5 DEF Network, Connects, ChannelUp, Disconnects, ChannelDown, Sends,
              FlushEarly, Receives, Arrive, noCode
<1>6. CASE UNCHANGED vars
  BY <1>6 DEF vars
<1> QED
  BY <1>1, <1>2, <1>3, <1>4, <1>5, <1>6 DEF Next, PutToLinks

(* addAction adds a link to the list only when it is not in it.            *)
LEMMA AddActionSound ==
  ASSUME TypeOK, WorkListSound, NEW l \in Link, NEW a, addAction(l, a)
  PROVE  WorkListSound'
<1>1. link_action' = [link_action EXCEPT ![l] = link_action[l] \cup {a}]
  BY DEF addAction
<1>2. link_action'[l] # {} /\ \A k \in Link \ {l} : link_action'[k] = link_action[k]
  BY <1>1 DEF TypeOK
<1>3. CASE link_action[l] = {}
  <2>1. workList' = Append(workList, l) /\ workList \in Seq(Link)
    BY <1>3 DEF addAction, TypeOK
  <2>2. \A i \in DOMAIN workList : workList[i] # l
    BY <1>3 DEF WorkListSound
  <2>3. /\ DOMAIN workList' = 1 .. Len(workList) + 1
        /\ DOMAIN workList = 1 .. Len(workList) /\ Len(workList) \in Nat
        /\ workList'[Len(workList) + 1] = l
        /\ \A i \in DOMAIN workList : workList'[i] = workList[i]
    BY <2>1
  <2>4. \A k \in Link :
          link_action'[k] # {} <=> \E i \in DOMAIN workList' : workList'[i] = k
    BY <1>2, <2>2, <2>3 DEF WorkListSound
  <2>5. \A i, j \in DOMAIN workList' : workList'[i] = workList'[j] => i = j
    BY <2>2, <2>3 DEF WorkListSound
  <2> QED
    BY <2>4, <2>5 DEF WorkListSound
<1>4. CASE link_action[l] # {}
  BY <1>2, <1>4 DEF addAction, WorkListSound
<1> QED
  BY <1>3, <1>4

(* Take removes the head of the list and its actions, and nothing else.    *)
LEMMA TakeSound ==
  ASSUME TypeOK, WorkListSound, Take PROVE WorkListSound'
<1> DEFINE h == Head(workList)
<1>1. /\ workList \in Seq(Link) /\ workList # <<>> /\ workList' = Tail(workList)
      /\ link_action' = [link_action EXCEPT ![h] = {}]
  BY DEF Take, TypeOK
<1>2. /\ Len(workList) \in Nat \ {0} /\ DOMAIN workList = 1 .. Len(workList)
      /\ DOMAIN workList' = 1 .. Len(workList) - 1
      /\ \A i \in DOMAIN workList' : workList'[i] = workList[i + 1]
      /\ h = workList[1] /\ h \in Link
  BY <1>1
<1>3. link_action'[h] = {} /\ \A k \in Link \ {h} : link_action'[k] = link_action[k]
  BY <1>1, <1>2 DEF TypeOK
<1>4. \A i, j \in DOMAIN workList' : workList'[i] = workList'[j] => i = j
  BY <1>2 DEF WorkListSound
<1>5. ASSUME NEW k \in Link
      PROVE  link_action'[k] # {} <=> \E i \in DOMAIN workList' : workList'[i] = k
  <2>1. CASE k = h
    BY <2>1, <1>2, <1>3 DEF WorkListSound
  <2>2. CASE k # h
    <3>1. ASSUME NEW i \in DOMAIN workList, workList[i] = k
          PROVE  i - 1 \in DOMAIN workList' /\ workList'[i - 1] = k
      BY <2>2, <3>1, <1>2
    <3>2. ASSUME NEW i \in DOMAIN workList', workList'[i] = k
          PROVE  i + 1 \in DOMAIN workList /\ workList[i + 1] = k
      BY <3>2, <1>2
    <3> QED
      BY <2>2, <3>1, <3>2, <1>3 DEF WorkListSound
  <2> QED
    BY <2>1, <2>2
<1> QED
  BY <1>4, <1>5 DEF WorkListSound

(* Every action keeps the work list in agreement with link_action.         *)
LEMMA WorkListStep == TypeOK /\ WorkListSound /\ [Next]_vars => WorkListSound'
<1> SUFFICES ASSUME TypeOK, WorkListSound, [Next]_vars PROVE WorkListSound'
  OBVIOUS
<1>1. CASE UNCHANGED <<link_action, workList>>
  BY <1>1 DEF WorkListSound
<1> QED
  BY <1>1, ListSteps, AddActionSound, TakeSound

(* At the start every link is in the list, to be connected.                *)
LEMMA WorkListInit == Init => WorkListSound
  BY NumLinksAssumption DEF Init, CaInit, WorkListSound, Link

(* What dbCaTask has to do for a link is in its work list exactly once, in *)
(* every reachable state (dbCa.c, addAction).                              *)
THEOREM GlobalsWorkListSound == Spec => []WorkListSound
<1> QED
  BY TypeInit, TypeStep, WorkListInit, WorkListStep, PTL DEF Spec

(* Every action leaves a signal behind, given or to come, when it leaves   *)
(* dbCaTask asleep with a list that is not empty.                          *)
LEMMA WakeupStep == TypeOK /\ NoLostWakeup /\ [Next]_vars => NoLostWakeup'
<1> SUFFICES ASSUME TypeOK, NoLostWakeup, [Next]_vars PROVE NoLostWakeup'
  OBVIOUS
<1> USE DEF caVars, netVars, listVars, taskVars, NoLostWakeup
<1>1. CASE PutField \/ PutRefused \/ PutStored
  BY <1>1 DEF PutField, PutRefused, PutStored, StoreValue
<1>2. CASE PutAdded
  BY <1>2 DEF PutAdded, AddWrite, addAction
<1>3. CASE PutSignalled
  BY <1>3 DEF PutSignalled, Signal
<1>4. CASE TaskStep
  BY <1>4 DEF TaskStep, dbCaTask, Wake, Take, ConnectChannel, Act, Put, Flush
<1>5. ASSUME NEW l \in Link, Callback(l) PROVE NoLostWakeup'
  BY <1>5 DEF Callback, connectionCallback, addAction, Signal
<1>6. ASSUME NEW l \in Link, Network(l) PROVE NoLostWakeup'
  BY <1>6 DEF Network, Connects, ChannelUp, Disconnects, ChannelDown, Sends,
              FlushEarly, Receives, Arrive, noCode
<1>7. CASE UNCHANGED vars
  BY <1>7 DEF vars
<1> QED
  BY <1>1, <1>2, <1>3, <1>4, <1>5, <1>6, <1>7 DEF Next, PutToLinks

(* dbCaTask never sleeps on work that nobody will wake it for, whatever    *)
(* the number of links and however callers of addAction are interleaved.   *)
THEOREM GlobalsNoLostWakeup == Spec => []NoLostWakeup
<1>1. Init => NoLostWakeup
  BY DEF Init, CaInit, NoLostWakeup
<1> QED
  BY <1>1, TypeInit, TypeStep, WakeupStep, PTL DEF Spec
-----------------------------------------------------------------------------
(* The last put.  PutIsUnderway is not inductive: that a put is not        *)
(* dropped with the connection of its channel, or by Act, rests on what is *)
(* known of the channels, and its alarm on the value being stored.         *)

Stored == \A l \in Link : Locked(l) => pputNative[l] = val

NeverPut ==
  \A l \in Link :
    /\ "connect" \in link_action[l] => chan[l] = "none"
    /\ task = "act" /\ taskLink = l /\ "connect" \in taskAction
         => chan[l] = "none" /\ "connect" \notin link_action[l]
    /\ chan[l] = "none" => ~ isConnected[l] /\ pputNative[l] = 0

LossKnown == \A l \in Link : chan[l] # "conn" /\ pputNative[l] > 0 => broken[l]

AlarmOrPut  == \A l \in Link : ~ alarm[l] => pputNative[l] = Expected(l)
BrokenOrDue == \A l \in Link : pputNative[l] > 0 /\ ~ broken[l] => Underway(l)

(* A put is for a link, stored under its lock, and each link of the chain  *)
(* below is given the value when its turn comes.                           *)
LEMMA AlarmStep ==
  TypeOK /\ Stored /\ AlarmOrPut /\ [Next]_vars => Stored' /\ AlarmOrPut'
<1> SUFFICES ASSUME TypeOK, Stored, AlarmOrPut, [Next]_vars
             PROVE  Stored' /\ AlarmOrPut'
  OBVIOUS
<1> USE DEF Stored, AlarmOrPut, Expected, Locked
<1>1. CASE PutField
  <2>1. /\ at = 0 /\ val' = val + 1 /\ at' = NumLinks /\ step' = "store"
        /\ UNCHANGED <<pputNative, alarm>>
    BY <1>1 DEF PutField, caVars
  <2> QED
    BY <2>1, NumLinksAssumption DEF TypeOK, Link, Puts
<1>2. CASE PutRefused
  <2>1. /\ at \in Link /\ step = "store" /\ at' = at - 1 /\ UNCHANGED <<pputNative, val, step>>
        /\ alarm' = [alarm EXCEPT ![at] = TRUE]
    BY <1>2, AtIsLink DEF PutRefused, caVars
  <2> QED
    BY <2>1, NumLinksAssumption DEF TypeOK, Link
<1>3. CASE PutStored
  <2>1. /\ at \in Link /\ step = "store" /\ step' = "add" /\ UNCHANGED <<val, at, alarm>>
        /\ pputNative' = [pputNative EXCEPT ![at] = val]
    BY <1>3, AtIsLink DEF PutStored, StoreValue
  <2> QED
    BY <2>1 DEF TypeOK
<1>4. CASE PutAdded
  <2>1. step = "add" /\ step' = "signal" /\ UNCHANGED <<val, at, alarm, pputNative>>
    BY <1>4 DEF PutAdded, AddWrite
  <2> QED
    BY <2>1 DEF TypeOK
<1>5. CASE PutSignalled
  <2>1. /\ at \in Link /\ step = "signal" /\ step' = "store" /\ at' = at - 1
        /\ UNCHANGED <<val, pputNative>> /\ alarm' = [alarm EXCEPT ![at] = FALSE]
    BY <1>5, AtIsLink DEF PutSignalled, Signal, caVars
  <2>2. pputNative[at] = val
    BY <2>1
  <2> QED
    BY <2>1, <2>2, NumLinksAssumption DEF TypeOK, Link
<1>6. CASE UNCHANGED <<putVars, alarm, pputNative>>
  BY <1>6 DEF putVars
<1>7. CASE TaskStep
  BY <1>6, <1>7 DEF TaskStep, dbCaTask, Wake, Take, ConnectChannel, Act, Put, Flush
<1>8. ASSUME NEW l \in Link, Callback(l) \/ Network(l) PROVE Stored' /\ AlarmOrPut'
  BY <1>6, <1>8 DEF Callback, connectionCallback, Signal, Network, Connects, ChannelUp,
     Disconnects, ChannelDown, Sends, FlushEarly, Receives, Arrive, noCode
<1>9. CASE UNCHANGED vars
  BY <1>6, <1>9 DEF vars, caVars
<1> QED
  BY <1>1, <1>2, <1>3, <1>4, <1>5, <1>7, <1>8, <1>9 DEF Next, PutToLinks

(* No put is accepted for a channel that does not exist yet, and a channel *)
(* that is down with a put accepted is known to be broken.                 *)
LEMMA ChannelStep ==
  TypeOK /\ NeverPut /\ LossKnown /\ [Next]_vars => NeverPut' /\ LossKnown'
<1> SUFFICES ASSUME TypeOK, NeverPut, LossKnown, [Next]_vars
             PROVE  NeverPut' /\ LossKnown'
  OBVIOUS
<1> USE DEF NeverPut, LossKnown, netVars, listVars, taskVars
<1>1. CASE PutStored
  <2>1. /\ at \in Link /\ isConnected[at]
        /\ pputNative' = [pputNative EXCEPT ![at] = val]
        /\ broken' = [broken EXCEPT ![at] = chan[at] # "conn"]
        /\ UNCHANGED <<chan, isConnected, link_action, task, taskLink, taskAction>>
    BY <1>1, AtIsLink DEF PutStored, StoreValue
  <2> QED
    BY <2>1 DEF TypeOK
<1>2. CASE PutAdded
  BY <1>2, AtIsLink DEF PutAdded, AddWrite, addAction, TypeOK
<1>3. CASE TaskStep
  <2>1. CASE Take
    <3>1. Head(workList) \in Link
      BY <2>1 DEF Take, TypeOK
    <3> QED
      BY <1>3, <2>1, <3>1 DEF TaskStep, Take, TypeOK
  <2>2. CASE ConnectChannel
    <3>1. /\ task = "act" /\ "connect" \in taskAction /\ taskLink \in Link
          /\ chan' = [chan EXCEPT ![taskLink] = "disc"] /\ task' = "list"
          /\ UNCHANGED <<isConnected, pputNative, link_action, broken>>
      BY <1>3, <2>2 DEF TaskStep, ConnectChannel, TypeOK
    <3>2. /\ chan[taskLink] = "none" /\ pputNative[taskLink] = 0
          /\ "connect" \notin link_action[taskLink]
      BY <3>1
    <3> QED
      BY <3>1, <3>2 DEF TypeOK
  <2>3. CASE Wake \/ Act \/ Put \/ Flush
    BY <1>3, <2>3 DEF TaskStep, Wake, Act, Put, Flush
  <2> QED
    BY <1>3, <2>1, <2>2, <2>3 DEF TaskStep, dbCaTask
<1>4. ASSUME NEW l \in Link, Callback(l) PROVE NeverPut' /\ LossKnown'
  <2>1. CASE connectionCallback(l)
    <3>1. /\ isConnected[l] # (chan[l] = "conn")
          /\ isConnected' = [isConnected EXCEPT ![l] = chan[l] = "conn"]
          /\ UNCHANGED <<chan, pputNative, task, taskLink, taskAction, broken>>
      BY <1>4, <2>1 DEF Callback, connectionCallback
    <3>2. \A k \in Link : "connect" \in link_action'[k] => "connect" \in link_action[k]
      <4>1. CASE addAction(l, "attributes")
        BY <4>1 DEF addAction, TypeOK
      <4> QED
        BY <2>1, <4>1 DEF connectionCallback
    <3>3. \A k \in Link : isConnected'[k] => isConnected[k] \/ chan[k] = "conn"
      BY <3>1 DEF TypeOK
    <3> QED
      BY <3>1, <3>2, <3>3
  <2>2. CASE Signal(l)
    BY <1>4, <2>2 DEF Callback, Signal
  <2> QED
    BY <1>4, <2>1, <2>2 DEF Callback
<1>5. ASSUME NEW l \in Link, Network(l) PROVE NeverPut' /\ LossKnown'
  <2>1. CASE Connects(l)
    BY <2>1 DEF Connects, ChannelUp, noCode, TypeOK
  <2>2. CASE Disconnects(l)
    BY <2>2 DEF Disconnects, ChannelDown, noCode, TypeOK
  <2>3. CASE Sends(l) \/ Receives(l)
    BY <2>3 DEF Sends, FlushEarly, Receives, Arrive, noCode
  <2> QED
    BY <1>5, <2>1, <2>2, <2>3 DEF Network
<1>6. CASE UNCHANGED <<chan, isConnected, pputNative, link_action, task, taskLink,
                       taskAction, broken>>
  BY <1>6
<1>7. CASE PutField \/ PutRefused \/ PutSignalled
  BY <1>6, <1>7 DEF PutField, PutRefused, PutSignalled, Signal, caVars
<1>8. CASE UNCHANGED vars
  BY <1>6, <1>8 DEF vars, caVars
<1> QED
  BY <1>1, <1>2, <1>3, <1>4, <1>5, <1>7, <1>8 DEF Next, PutToLinks

(* What is appended to a sequence is its end.                              *)
LEMMA EndOfAppend ==
  \A r, c, b \in Seq(Puts) : \A v \in Puts :
    LET s == (r \o c) \o Append(b, v) IN s # <<>> /\ s[Len(s)] = v
<1> SUFFICES ASSUME NEW r \in Seq(Puts), NEW c \in Seq(Puts), NEW b \in Seq(Puts),
                    NEW v \in Puts
             PROVE  LET s == (r \o c) \o Append(b, v) IN s # <<>> /\ s[Len(s)] = v
  OBVIOUS
<1>1. r \o c \in Seq(Puts) /\ Append(b, v) \in Seq(Puts)
  BY ConcatProperties, AppendProperties
<1> QED
  BY <1>1

(* Moving the head of one sequence to the end of another.                  *)
LEMMA HeadToEnd ==
  \A r, c \in Seq(Puts) : c # <<>> => Append(r, Head(c)) \o Tail(c) = r \o c
<1> SUFFICES ASSUME NEW r \in Seq(Puts), NEW c \in Seq(Puts), c # <<>>
             PROVE  Append(r, Head(c)) \o Tail(c) = r \o c
  OBVIOUS
<1>1. /\ Append(r, Head(c)) \in Seq(Puts) /\ Tail(c) \in Seq(Puts)
      /\ Len(Append(r, Head(c))) = Len(r) + 1 /\ Len(Tail(c)) = Len(c) - 1
      /\ Len(r) \in Nat /\ Len(c) \in Nat \ {0}
  OBVIOUS
<1> DEFINE x == Append(r, Head(c)) \o Tail(c)
           y == r \o c
<1>2. x \in Seq(Puts) /\ y \in Seq(Puts) /\ Len(x) = Len(y)
  BY <1>1
<1>3. \A i \in 1 .. Len(x) : x[i] = y[i]
  BY <1>1
<1> HIDE DEF x, y
<1>4. x = y
  BY <1>2, <1>3, SeqEqual
<1> QED
  BY <1>4 DEF x, y

(* Flushing the buffer of a channel.                                       *)
LEMMA BufferToCircuit ==
  \A r, c, b \in Seq(Puts) : (r \o (c \o b)) \o <<>> = (r \o c) \o b
<1> SUFFICES ASSUME NEW r \in Seq(Puts), NEW c \in Seq(Puts), NEW b \in Seq(Puts)
             PROVE  (r \o (c \o b)) \o <<>> = (r \o c) \o b
  OBVIOUS
<1>1. c \o b \in Seq(Puts)
  BY ConcatProperties
<1>2. r \o (c \o b) \in Seq(Puts)
  BY <1>1, ConcatProperties
<1>3. (r \o (c \o b)) \o <<>> = r \o (c \o b)
  BY <1>2, ConcatEmptySeq
<1>4. (r \o c) \o b = r \o (c \o b)
  BY ConcatAssociative
<1> QED
  BY <1>3, <1>4

(* The library passes puts on without changing their order.                *)
LEMMA SentStays ==
  ASSUME TypeOK, NEW k \in Link, received'[k] = received[k],
         \/ circuit'[k] = circuit[k] /\ buffer'[k] = buffer[k]
         \/ circuit'[k] = circuit[k] \o buffer[k] /\ buffer'[k] = <<>>
  PROVE  Sent(k)' = Sent(k)
<1>1. CASE circuit'[k] = circuit[k] \o buffer[k] /\ buffer'[k] = <<>>
  <2>1. received[k] \in Seq(Puts) /\ circuit[k] \in Seq(Puts) /\ buffer[k] \in Seq(Puts)
    BY DEF TypeOK
  <2>2. /\ Sent(k)' = (received[k] \o (circuit[k] \o buffer[k])) \o <<>>
        /\ Sent(k) = (received[k] \o circuit[k]) \o buffer[k]
    BY <1>1 DEF Sent
  <2>3. (received[k] \o (circuit[k] \o buffer[k])) \o <<>>
          = (received[k] \o circuit[k]) \o buffer[k]
    BY <2>1, BufferToCircuit, Zenon
  <2> QED
    BY <2>2, <2>3, Zenon
<1> QED
  BY <1>1 DEF Sent

(* A put that arrives is still the same put.                               *)
LEMMA SentReceived ==
  ASSUME TypeOK, NEW l \in Link, NEW k \in Link, Receives(l)
  PROVE  Sent(k)' = Sent(k)
<1>1. /\ circuit[l] # <<>> /\ buffer' = buffer
      /\ circuit' = [circuit EXCEPT ![l] = Tail(circuit[l])]
      /\ received' = [received EXCEPT ![l] = Append(received[l], Head(circuit[l]))]
  BY DEF Receives, Arrive
<1>2. CASE k = l
  <2>1. received'[l] = Append(received[l], Head(circuit[l])) /\ circuit'[l] = Tail(circuit[l])
    BY <1>1 DEF TypeOK
  <2>2. received[l] \in Seq(Puts) /\ circuit[l] \in Seq(Puts)
    BY DEF TypeOK
  <2>3. Append(received[l], Head(circuit[l])) \o Tail(circuit[l]) = received[l] \o circuit[l]
    BY <1>1, <2>2, HeadToEnd, Zenon
  <2>4. /\ Sent(l)' = (received'[l] \o circuit'[l]) \o buffer'[l]
        /\ Sent(l) = (received[l] \o circuit[l]) \o buffer[l]
    BY DEF Sent
  <2> QED
    BY <1>1, <1>2, <2>1, <2>3, <2>4, Zenon
<1>3. CASE k # l
  BY <1>1, <1>3 DEF Sent, TypeOK
<1> QED
  BY <1>2, <1>3

(* The last put of a link has been sent, or is still to be sent.           *)
EndsWithPut(k) == Sent(k) # <<>> /\ Sent(k)[Len(Sent(k))] = pputNative[k]

Due(k) ==
  \/ "write" \in link_action[k]
  \/ task = "act" /\ taskLink = k /\ "write" \in taskAction
  \/ task = "put" /\ taskLink = k
  \/ at = k /\ step = "add"

(* As long as what was sent and the last put do not change, and it is      *)
(* still due when it was due, it is under way.                             *)
LEMMA StaysUnderway ==
  ASSUME NEW k \in Link, Underway(k), Sent(k)' = Sent(k), pputNative'[k] = pputNative[k],
         Due(k) => Due(k)'
  PROVE  Underway(k)'
<1>1. CASE EndsWithPut(k)
  <2>1. EndsWithPut(k)'
    BY <1>1 DEF EndsWithPut
  <2> QED
    BY <2>1 DEF EndsWithPut, Underway
<1>2. CASE Due(k)
  BY <1>2 DEF Due, Underway
<1> QED
  BY <1>1, <1>2 DEF EndsWithPut, Due, Underway

(* dbCaTask keeps the last put under way: what it takes it sends, or the   *)
(* channel is lost.                                                        *)
LEMMA TaskKeepsDue ==
  ASSUME TypeOK, NeverPut, LossKnown, BrokenOrDue, TaskStep,
         NEW k \in Link, pputNative'[k] > 0, ~ broken'[k]
  PROVE  Underway(k)'
<1> USE DEF netVars, listVars, taskVars
<1>1. UNCHANGED <<pputNative, broken, received, at, step>>
  BY DEF TaskStep, dbCaTask, Wake, Take, ConnectChannel, Act, Put, Flush, putVars
<1>2. Underway(k) /\ chan[k] = "conn"
  BY <1>1 DEF BrokenOrDue, LossKnown
<1>3. CASE Wake \/ Take \/ ConnectChannel \/ Act
  <2>1. Sent(k)' = Sent(k)
    BY <1>1, <1>3, SentStays DEF Wake, Take, ConnectChannel, Act
  <2>2. CASE Wake
    BY <1>1, <1>2, <2>1, <2>2, StaysUnderway DEF Wake, Due
  <2>3. CASE Take
    BY <1>1, <1>2, <2>1, <2>3, StaysUnderway DEF Take, Due, TypeOK
  <2>4. CASE ConnectChannel
    <3>1. taskLink # k
      BY <1>1, <2>4 DEF ConnectChannel, NeverPut
    <3> QED
      BY <1>1, <1>2, <2>1, <2>4, <3>1, StaysUnderway DEF ConnectChannel, Due
  <2>5. CASE Act
    BY <1>1, <1>2, <2>1, <2>5, StaysUnderway DEF Act, Due
  <2> QED
    BY <1>3, <2>2, <2>3, <2>4, <2>5
<1>4. CASE Put
  <2>1. CASE taskLink = k
    <3>1. buffer'[k] = Append(buffer[k], pputNative[k])
      BY <1>2, <1>4, <2>1 DEF Put, TypeOK
    <3>2. Sent(k)' = (received[k] \o circuit[k]) \o Append(buffer[k], pputNative[k])
      BY <1>1, <1>4, <3>1 DEF Put, Sent
    <3>3. /\ received[k] \in Seq(Puts) /\ circuit[k] \in Seq(Puts)
          /\ buffer[k] \in Seq(Puts) /\ pputNative[k] \in Puts
      BY DEF TypeOK
    <3>4. LET s == (received[k] \o circuit[k]) \o Append(buffer[k], pputNative[k])
          IN  s # <<>> /\ s[Len(s)] = pputNative[k]
      BY <3>3, EndOfAppend, Zenon
    <3>5. EndsWithPut(k)'
      BY <1>1, <3>2, <3>4, Zenon DEF EndsWithPut
    <3> QED
      BY <3>5 DEF EndsWithPut, Underway
  <2>2. CASE taskLink # k
    <3>1. Sent(k)' = Sent(k)
      BY <1>1, <1>4, <2>2, SentStays DEF Put, TypeOK
    <3> QED
      BY <1>1, <1>2, <1>4, <2>2, <3>1, StaysUnderway DEF Put, Due
  <2> QED
    BY <2>1, <2>2
<1>5. CASE Flush
  <2>1. Sent(k)' = Sent(k)
    BY <1>1, <1>5, SentStays DEF Flush
  <2> QED
    BY <1>1, <1>2, <1>5, <2>1, StaysUnderway DEF Flush, Due
<1> QED
  BY <1>3, <1>4, <1>5 DEF TaskStep, dbCaTask

(* Every action keeps the last put of every link under way.                *)
LEMMA DueStep ==
  TypeOK /\ NeverPut /\ LossKnown /\ BrokenOrDue /\ [Next]_vars => BrokenOrDue'
<1> SUFFICES ASSUME TypeOK, NeverPut, LossKnown, BrokenOrDue, [Next]_vars,
                    NEW k \in Link, pputNative'[k] > 0, ~ broken'[k]
             PROVE  Underway(k)'
  BY DEF BrokenOrDue
<1> USE DEF caVars, netVars, listVars, taskVars
<1>1. CASE PutStored /\ k = at
  BY <1>1 DEF PutStored, Underway
<1>2. CASE PutAdded /\ k = at
  BY <1>2 DEF PutAdded, AddWrite, addAction, Underway, TypeOK
<1>3. ASSUME \/ PutField \/ PutRefused \/ PutSignalled
             \/ (PutStored \/ PutAdded) /\ k # at
      PROVE  Underway(k)'
  <2>1. UNCHANGED <<received, circuit, buffer, task, taskLink, taskAction>>
    BY <1>3 DEF PutField, PutRefused, PutSignalled, Signal, PutStored, StoreValue,
                PutAdded, AddWrite
  <2>2. /\ pputNative'[k] = pputNative[k] /\ broken'[k] = broken[k]
        /\ link_action'[k] = link_action[k]
        /\ ~ (at = k /\ step = "add")
    <3>1. CASE PutField
      BY <3>1, NumLinksAssumption DEF PutField, Link
    <3>2. CASE PutRefused \/ PutSignalled
      BY <3>2 DEF PutRefused, PutSignalled, Signal
    <3>3. CASE PutStored /\ k # at
      BY <3>3, AtIsLink DEF PutStored, StoreValue, TypeOK
    <3>4. CASE PutAdded /\ k # at
      BY <3>4, AtIsLink DEF PutAdded, AddWrite, addAction, TypeOK
    <3> QED
      BY <1>3, <3>1, <3>2, <3>3, <3>4
  <2> QED
    BY <2>1, <2>2, SentStays, StaysUnderway DEF BrokenOrDue, Due
<1>4. CASE TaskStep
  BY <1>4, TaskKeepsDue
<1>5. ASSUME NEW l \in Link, Callback(l) PROVE Underway(k)'
  <2>1. /\ UNCHANGED <<received, circuit, buffer, task, taskLink, taskAction,
                       pputNative, broken, at, step>>
    BY <1>5 DEF Callback, connectionCallback, addAction, Signal, putVars
  <2>2. link_action[k] \subseteq link_action'[k]
    <3>1. CASE addAction(l, "attributes")
      BY <3>1 DEF addAction, TypeOK
    <3> QED
      BY <1>5, <3>1 DEF Callback, connectionCallback, Signal
  <2> QED
    BY <2>1, <2>2, SentStays, StaysUnderway DEF BrokenOrDue, Due
<1>6. ASSUME NEW l \in Link, Network(l) PROVE Underway(k)'
  <2>1. /\ UNCHANGED <<task, taskLink, taskAction, pputNative, link_action, at, step>>
        /\ ~ broken[k]
    BY <1>6 DEF Network, Connects, ChannelUp, Disconnects, ChannelDown, Sends,
                FlushEarly, Receives, Arrive, noCode, putVars, TypeOK
  <2>2. Sent(k)' = Sent(k)
    <3>1. CASE Connects(l)
      BY <3>1, SentStays DEF Connects, ChannelUp
    <3>2. CASE Disconnects(l)
      <4>1. l # k
        BY <3>2 DEF Disconnects, TypeOK
      <4> QED
        BY <3>2, <4>1, SentStays DEF Disconnects, ChannelDown, TypeOK
    <3>3. CASE Sends(l)
      BY <3>3, SentStays DEF Sends, FlushEarly, TypeOK
    <3>4. CASE Receives(l)
      BY <3>4, SentReceived
    <3> QED
      BY <1>6, <3>1, <3>2, <3>3, <3>4 DEF Network
  <2> QED
    BY <2>1, <2>2, StaysUnderway DEF BrokenOrDue, Due
<1>7. CASE UNCHANGED vars
  BY <1>7, SentStays, StaysUnderway DEF vars, putVars, BrokenOrDue, Due
<1>8. CASE PutField \/ PutToLinks
  BY <1>1, <1>2, <1>3, <1>8 DEF PutToLinks
<1> QED
  BY <1>4, <1>5, <1>6, <1>7, <1>8 DEF Next

-----------------------------------------------------------------------------

GlobalsInv ==
  TypeOK /\ Stored /\ NeverPut /\ LossKnown /\ AlarmOrPut /\ BrokenOrDue

(* The inductive invariant holds at the start.                             *)
LEMMA GlobalsInit == Init => GlobalsInv
<1> SUFFICES ASSUME Init PROVE GlobalsInv
  OBVIOUS
<1>1. TypeOK
  BY TypeInit
<1> QED
  BY <1>1 DEF Init, CaInit, GlobalsInv, Stored, NeverPut, LossKnown, AlarmOrPut,
              BrokenOrDue, Locked, Expected, Link

(* And every step keeps it.                                                *)
LEMMA GlobalsStep == GlobalsInv /\ [Next]_vars => GlobalsInv'
  BY TypeStep, AlarmStep, ChannelStep, DueStep DEF GlobalsInv

(* In every reachable state, for any number of crates, puts and lost       *)
(* channels: the setting that was put last has reached each crate or is    *)
(* still going to, unless its record is in alarm or its channel was lost.  *)
THEOREM GlobalsPutIsUnderway == Spec => []PutIsUnderway
<1>1. GlobalsInv => PutIsUnderway
  BY DEF GlobalsInv, AlarmOrPut, BrokenOrDue, PutIsUnderway
<1> QED
  BY <1>1, GlobalsInit, GlobalsStep, PTL DEF Spec

-----------------------------------------------------------------------------
(* The order of the puts.  InOrder is not inductive: that a value is sent  *)
(* three times at the most rests on how often it may still be sent.        *)

(* Writes for link k that dbCaTask has or will be given.                   *)
InTask(k) == taskLink = k /\ (task = "put" \/ (task = "act" /\ "write" \in taskAction))
InList(k) == "write" \in link_action[k]
InPut(k)  == at = k /\ step = "add"

One(due) == IF due THEN 1 ELSE 0

Owed(k) == One(InTask(k)) + One(InList(k)) + One(InPut(k))

(* Values s, of which v is the newest and may be sent n times more.        *)
Ordered(s, v, n) ==
  /\ \A i, j \in DOMAIN s :
       /\ i < j => s[i] <= s[j]
       /\ i + MaxRepeats <= j => s[i] < s[j]
  /\ \A i \in DOMAIN s :
       s[i] <= v /\ (s[i] = v => (Len(s) - i) + 1 + n <= MaxRepeats)

OrderedAt(k) == Ordered(Sent(k), pputNative[k], Owed(k))

Current(k) == pputNative[k] <= Expected(k)

(* There are three places where a write can be.                            *)
LEMMA OwedType == ASSUME NEW k PROVE Owed(k) \in 0 .. MaxRepeats
<1>1. \A due : One(due) \in {0, 1}
  BY DEF One
<1>2. PICK a \in {0, 1}, b \in {0, 1}, c \in {0, 1} : Owed(k) = a + b + c
  BY <1>1 DEF Owed
<1> QED BY <1>2 DEF MaxRepeats

(* One value is sent once more.                                            *)
LEMMA OrderedAppend ==
  ASSUME NEW s \in Seq(Nat), NEW v \in Nat, NEW n \in Nat, NEW m \in Nat, m + 1 <= n,
         n <= MaxRepeats, Ordered(s, v, n)
  PROVE  Ordered(Append(s, v), v, m)
<1> DEFINE t == Append(s, v)
<1>1. PICK len \in Nat : len = Len(s)
  OBVIOUS
<1>2. /\ DOMAIN s = 1 .. len /\ DOMAIN t = 1 .. len + 1 /\ Len(t) = len + 1
      /\ t[len + 1] = v /\ \A i \in 1 .. len : t[i] = s[i] /\ s[i] \in Nat
  BY <1>1
<1> HIDE DEF t
<1>3. ASSUME NEW i \in 1 .. len
      PROVE  t[i] <= v /\ (t[i] = v => ((len + 1) - i) + 1 + m <= 3)
  <2>1. s[i] <= v /\ (s[i] = v => (len - i) + 1 + n <= 3)
    BY <1>1, <1>2 DEF Ordered, MaxRepeats
  <2> QED BY <1>2, <2>1
<1>4. ASSUME NEW i \in 1 .. len + 1, NEW j \in 1 .. len + 1
      PROVE  (i < j => t[i] <= t[j]) /\ (i + 3 <= j => t[i] < t[j])
  <2>1. CASE j = len + 1
    <3>1. CASE i = len + 1
      BY <2>1, <3>1
    <3>2. CASE i # len + 1
      <4>1. i \in 1 .. len
        BY <3>2
      <4>2. t[i] <= v /\ t[i] \in Nat /\ (t[i] = v => ((len + 1) - i) + 1 + m <= 3)
        BY <1>2, <1>3, <4>1
      <4>3. i + 3 <= j => t[i] # v
        BY <2>1, <4>1, <4>2
      <4> QED BY <1>2, <2>1, <4>2, <4>3
    <3> QED BY <3>1, <3>2
  <2>2. CASE j # len + 1
    <3>1. CASE i = len + 1
      BY <2>2, <3>1
    <3>2. CASE i # len + 1
      <4>1. i \in 1 .. len /\ j \in 1 .. len
        BY <2>2, <3>2
      <4> QED BY <1>2, <4>1 DEF Ordered, MaxRepeats
    <3> QED BY <3>1, <3>2
  <2> QED BY <2>1, <2>2
<1>5. t[len + 1] <= v /\ ((len + 1) - (len + 1)) + 1 + m <= 3
  BY <1>2 DEF MaxRepeats
<1>6. ASSUME NEW i \in DOMAIN t
      PROVE  t[i] <= v /\ (t[i] = v => (Len(t) - i) + 1 + m <= 3)
  <2>1. CASE i = len + 1
    BY <1>2, <1>5, <2>1
  <2>2. CASE i # len + 1
    <3>1. i \in 1 .. len
      BY <1>2, <2>2
    <3> QED BY <1>2, <1>3, <3>1
  <2> QED BY <2>1, <2>2
<1>7. Ordered(t, v, m)
  BY <1>2, <1>4, <1>6 DEF Ordered, MaxRepeats
<1> QED BY <1>7 DEF t

(* It may be sent less often, or be succeeded by a newer one.              *)
LEMMA OrderedLess ==
  ASSUME NEW s \in Seq(Nat), NEW v \in Nat, NEW n \in Nat, Ordered(s, v, n),
         NEW w \in Nat, NEW m \in Nat, w > v \/ (w = v /\ m <= n)
  PROVE  Ordered(s, w, m)
<1>1. ASSUME NEW i \in DOMAIN s
      PROVE  s[i] <= w /\ (s[i] = w => (Len(s) - i) + 1 + m <= 3)
  <2>1. s[i] \in Nat /\ i \in Nat /\ Len(s) \in Nat
    OBVIOUS
  <2>2. s[i] <= v /\ (s[i] = v => (Len(s) - i) + 1 + n <= 3)
    BY DEF Ordered, MaxRepeats
  <2> QED BY <2>1, <2>2
<1> QED BY <1>1 DEF Ordered, MaxRepeats

(* A part of what was sent has arrived, and the rest is lost.              *)
LEMMA OrderedPart ==
  ASSUME NEW r \in Seq(Nat), NEW s \in Seq(Nat), NEW v \in Nat, NEW n \in Nat,
         Ordered(r \o s, v, n)
  PROVE  Ordered(r, v, n)
<1> DEFINE t == r \o s
<1>1. PICK a \in Nat, b \in Nat : a = Len(r) /\ b = Len(s)
  OBVIOUS
<1>2. /\ DOMAIN r = 1 .. a /\ DOMAIN t = 1 .. a + b /\ Len(t) = a + b
      /\ \A i \in 1 .. a : t[i] = r[i] /\ r[i] \in Nat
  BY <1>1
<1>3. Ordered(t, v, n)
  OBVIOUS
<1> HIDE DEF t
<1>4. ASSUME NEW i \in 1 .. a PROVE r[i] <= v /\ (r[i] = v => (a - i) + 1 + n <= 3)
  <2>1. i \in 1 .. a + b
    OBVIOUS
  <2>2. t[i] <= v /\ (t[i] = v => ((a + b) - i) + 1 + n <= 3)
    BY <1>2, <1>3, <2>1 DEF Ordered, MaxRepeats
  <2> QED BY <1>2, <2>2
<1>5. ASSUME NEW i \in 1 .. a, NEW j \in 1 .. a
      PROVE  (i < j => r[i] <= r[j]) /\ (i + 3 <= j => r[i] < r[j])
  <2>1. i \in 1 .. a + b /\ j \in 1 .. a + b
    OBVIOUS
  <2> QED BY <1>2, <1>3, <2>1 DEF Ordered, MaxRepeats
<1>6. Len(r) = a
  BY <1>1
<1> QED BY <1>2, <1>4, <1>5, <1>6 DEF Ordered, MaxRepeats

(* Concatenation is associative.                                           *)
LEMMA ConcatPuts ==
  \A r, c, b \in Seq(Puts) : (r \o c) \o b = r \o (c \o b)
<1> SUFFICES ASSUME NEW r \in Seq(Puts), NEW c \in Seq(Puts), NEW b \in Seq(Puts)
             PROVE  (r \o c) \o b = r \o (c \o b)
  OBVIOUS
<1> QED BY ConcatAssociative

(* What is appended to the buffer is sent last.                            *)
LEMMA SentAppend ==
  \A r, c, b \in Seq(Puts) : \A v \in Puts :
    (r \o c) \o Append(b, v) = Append((r \o c) \o b, v)
<1> SUFFICES ASSUME NEW r \in Seq(Puts), NEW c \in Seq(Puts), NEW b \in Seq(Puts), NEW v \in Puts
             PROVE  (r \o c) \o Append(b, v) = Append((r \o c) \o b, v)
  OBVIOUS
<1>1. PICK s \in Seq(Puts) : s = r \o c
  BY ConcatProperties
<1>2. PICK w \in Seq(Puts) : w = <<v>>
  <2>1. <<v>> \in Seq(Puts)
    OBVIOUS
  <2> QED BY <2>1, Zenon
<1>3. Append(b, v) = b \o w
  BY <1>2, AppendIsConcat
<1>4. Append(s \o b, v) = (s \o b) \o w
  BY <1>2, AppendIsConcat, ConcatProperties
<1>5. (s \o b) \o w = s \o (b \o w)
  BY ConcatPuts, Zenon
<1> QED BY <1>1, <1>3, <1>4, <1>5, Zenon

(* Types of what the order is about.                                       *)
LEMMA OrderTypes ==
  ASSUME TypeOK, NEW k \in Link
  PROVE  /\ received[k] \in Seq(Puts) /\ circuit[k] \in Seq(Puts) /\ buffer[k] \in Seq(Puts)
         /\ Sent(k) \in Seq(Nat) /\ pputNative[k] \in Puts /\ pputNative[k] \in Nat
         /\ Owed(k) \in Nat /\ Owed(k) <= MaxRepeats
<1>1. /\ received[k] \in Seq(Puts) /\ circuit[k] \in Seq(Puts) /\ buffer[k] \in Seq(Puts)
      /\ pputNative[k] \in Puts
  BY DEF TypeOK
<1>2. Puts \subseteq Nat
  BY BoundsAssumption DEF Puts
<1>3. Sent(k) \in Seq(Puts)
  BY <1>1, ConcatProperties DEF Sent
<1>4. Sent(k) \in Seq(Nat)
  <2>1. \A S, T : S \subseteq T => Seq(S) \subseteq Seq(T)
    OBVIOUS
  <2> QED BY <1>2, <1>3, <2>1, Zenon
<1>5. Owed(k) \in Nat /\ Owed(k) <= MaxRepeats
  BY OwedType DEF MaxRepeats
<1> QED BY <1>1, <1>2, <1>4, <1>5

(* The link a put is at has an older value, and the others none that is    *)
(* newer than the put.                                                     *)
LEMMA CurrentStep ==
  ASSUME TypeOK, \A k \in Link : Current(k), [Next]_vars PROVE \A k \in Link : Current(k)'
<1> USE DEF Current, Expected, Locked
<1>0. \A k \in Link : pputNative[k] \in Nat /\ k \in Nat /\ k # 0
  BY BoundsAssumption, NumLinksAssumption DEF TypeOK, Puts, Link
<1>1. CASE PutField
  <2>1. /\ at = 0 /\ val' = val + 1 /\ at' = NumLinks /\ step' = "store"
        /\ UNCHANGED pputNative
    BY <1>1 DEF PutField, caVars
  <2> QED
    BY <1>0, <2>1, NumLinksAssumption DEF TypeOK, Link, Puts
<1>2. CASE PutRefused
  <2>1. /\ at \in Link /\ step = "store" /\ at' = at - 1 /\ UNCHANGED <<pputNative, val, step>>
    BY <1>2, AtIsLink DEF PutRefused, caVars
  <2>2. at \in Nat /\ at' \in Nat /\ val \in Nat
    BY <2>1, BoundsAssumption, NumLinksAssumption DEF TypeOK, Link, Puts
  <2> TAKE k \in Link
  <2>3. Current(k) /\ pputNative[k] \in Nat /\ k \in Nat /\ k # 0
    BY <1>0
  <2> QED
    BY <2>1, <2>2, <2>3
<1>3. CASE PutStored
  <2>1. /\ at \in Link /\ step = "store" /\ step' = "add" /\ UNCHANGED <<val, at>>
        /\ pputNative' = [pputNative EXCEPT ![at] = val]
    BY <1>3, AtIsLink DEF PutStored, StoreValue
  <2>2. /\ \A k \in Link : at = k => pputNative'[k] = val /\ Expected(k)' = val
        /\ \A k \in Link : at # k => pputNative'[k] = pputNative[k] /\ Expected(k)' = Expected(k)
    BY <2>1 DEF TypeOK
  <2>3. val <= val
    BY DEF TypeOK, Puts
  <2>4. ASSUME NEW k \in Link PROVE pputNative'[k] <= Expected(k)'
    BY <2>2, <2>3
  <2> QED
    BY <2>4
<1>4. CASE PutAdded
  <2>1. step = "add" /\ step' = "signal" /\ UNCHANGED <<val, at, pputNative>>
    BY <1>4 DEF PutAdded, AddWrite
  <2> QED
    BY <1>0, <2>1 DEF TypeOK
<1>5. CASE PutSignalled
  <2>1. /\ at \in Link /\ step = "signal" /\ step' = "store" /\ at' = at - 1
        /\ UNCHANGED <<val, pputNative>>
    BY <1>5, AtIsLink DEF PutSignalled, Signal, caVars
  <2> QED
    BY <1>0, <2>1, NumLinksAssumption DEF TypeOK, Link, Puts
<1>6. CASE UNCHANGED <<putVars, pputNative>>
  BY <1>6 DEF putVars
<1>7. CASE TaskStep
  BY <1>6, <1>7 DEF TaskStep, dbCaTask, Wake, Take, ConnectChannel, Act, Put, Flush
<1>8. ASSUME NEW l \in Link, Callback(l) \/ Network(l) PROVE \A k \in Link : Current(k)'
  BY <1>6, <1>8 DEF Callback, connectionCallback, Signal, Network, Connects, ChannelUp,
     Disconnects, ChannelDown, Sends, FlushEarly, Receives, Arrive, noCode
<1>9. CASE UNCHANGED vars
  BY <1>6, <1>9 DEF vars, caVars
<1> QED
  BY <1>1, <1>2, <1>3, <1>4, <1>5, <1>7, <1>8, <1>9 DEF Next, PutToLinks

(* The number of writes after a step has its type too.                     *)
LEMMA OwedTypeNext == ASSUME NEW k PROVE Owed(k)' \in Nat
<1>1. \A due : One(due) \in Nat
  BY DEF One
<1>2. PICK a \in Nat, b \in Nat, c \in Nat : Owed(k)' = a + b + c
  BY <1>1 DEF Owed
<1> QED BY <1>2

(* Where a write is no more, and is not anywhere else, it is not owed.     *)
LEMMA OwedLess ==
  ASSUME NEW k,
         InPut(k)' => InPut(k),
         \/ (InTask(k)' => InTask(k)) /\ (InList(k)' => InList(k))
         \/ ~ InTask(k) /\ (InTask(k)' => InList(k)) /\ ~ InList(k)'
         \/ (InTask(k)' => InTask(k)) /\ InPut(k) /\ ~ InPut(k)'
  PROVE  Owed(k)' <= Owed(k)
BY DEF Owed, One

(* Nothing is sent, and no more is owed, or there is a newer value.        *)
LEMMA OrderedKept ==
  ASSUME TypeOK, NEW k \in Link, OrderedAt(k), Sent(k)' = Sent(k),
         \/ pputNative'[k] = pputNative[k] /\ Owed(k)' <= Owed(k)
         \/ pputNative'[k] \in Nat /\ pputNative'[k] > pputNative[k]
  PROVE  OrderedAt(k)'
<1>1. PICK s \in Seq(Nat), v \in Nat, n \in Nat :
        s = Sent(k) /\ v = pputNative[k] /\ n = Owed(k)
  BY OrderTypes
<1>2. PICK w \in Nat, m \in Nat : w = pputNative'[k] /\ m = Owed(k)'
  BY OwedTypeNext, OrderTypes
<1>3. w > v \/ (w = v /\ m <= n)
  BY <1>1, <1>2
<1>4. Ordered(s, v, n)
  BY <1>1 DEF OrderedAt
<1>5. Ordered(s, w, m)
  BY <1>3, <1>4, OrderedLess
<1> QED BY <1>1, <1>2, <1>5 DEF OrderedAt

(* A put to the chain brings a newer value, or hands its write over.       *)
LEMMA PutKeepsOrder ==
  ASSUME TypeOK, NEW k \in Link, Current(k), OrderedAt(k), PutField \/ PutToLinks
  PROVE  OrderedAt(k)'
<1> USE DEF caVars, netVars, listVars, taskVars
<1>1. UNCHANGED <<received, circuit, buffer, task, taskLink, taskAction>>
  BY DEF PutField, PutToLinks, PutRefused, PutStored, StoreValue, PutAdded, AddWrite,
         PutSignalled, Signal
<1>2. Sent(k)' = Sent(k) /\ InTask(k)' = InTask(k)
  BY <1>1, SentStays DEF InTask
<1>3. CASE PutField \/ PutRefused \/ PutSignalled
  <2>1. step' = "store" /\ UNCHANGED <<pputNative, link_action>>
    BY <1>3 DEF PutField, PutRefused, PutSignalled, Signal
  <2>2. Owed(k)' <= Owed(k)
    BY <1>2, <2>1, OwedLess DEF InPut, InList
  <2> QED BY <1>2, <2>1, <2>2, OrderedKept
<1>4. CASE PutStored
  <2>1. /\ at \in Link /\ step = "store" /\ UNCHANGED <<link_action, at, val>>
        /\ pputNative' = [pputNative EXCEPT ![at] = val]
    BY <1>4, AtIsLink DEF PutStored, StoreValue
  <2>2. CASE k = at
    <3>1. pputNative'[k] = val /\ pputNative[k] <= val - 1
      BY <2>1, <2>2 DEF Current, Expected, Locked, TypeOK
    <3>2. val \in Nat /\ pputNative[k] \in Nat
      BY OrderTypes, BoundsAssumption DEF TypeOK, Puts
    <3>3. pputNative'[k] \in Nat /\ pputNative'[k] > pputNative[k]
      BY <3>1, <3>2
    <3> QED BY <1>2, <3>3, OrderedKept
  <2>3. CASE k # at
    <3>1. pputNative'[k] = pputNative[k] /\ ~ InPut(k)'
      BY <2>1, <2>3 DEF InPut, TypeOK
    <3>2. Owed(k)' <= Owed(k)
      BY <1>2, <2>1, <3>1, OwedLess DEF InList
    <3> QED BY <1>2, <3>1, <3>2, OrderedKept
  <2> QED BY <2>2, <2>3
<1>5. CASE PutAdded
  <2>1. /\ at \in Link /\ step = "add" /\ step' = "signal"
        /\ at' = at /\ UNCHANGED pputNative
        /\ link_action' = [link_action EXCEPT ![at] = link_action[at] \cup {"write"}]
    BY <1>5, AtIsLink DEF PutAdded, AddWrite, addAction
  <2>2. ~ InPut(k)' /\ (k = at => InPut(k)) /\ (k # at => InList(k)' = InList(k))
    BY <2>1 DEF InPut, InList, TypeOK
  <2>3. Owed(k)' <= Owed(k)
    BY <1>2, <2>2, OwedLess
  <2> QED BY <1>2, <2>1, <2>3, OrderedKept
<1> QED BY <1>3, <1>4, <1>5 DEF PutToLinks

(* dbCaTask sends what is owed, and takes a write out of the list for it.  *)
LEMMA TaskKeepsOrder ==
  ASSUME TypeOK, NEW k \in Link, OrderedAt(k), TaskStep
  PROVE  OrderedAt(k)'
<1> USE DEF netVars, listVars, taskVars
<1>1. UNCHANGED <<pputNative, received, at, step>> /\ InPut(k)' = InPut(k)
  BY DEF TaskStep, dbCaTask, Wake, Take, ConnectChannel, Act, Put, Flush, putVars, InPut
<1>2. CASE Wake \/ Take \/ ConnectChannel \/ Act
  <2>1. Sent(k)' = Sent(k)
    BY <1>1, <1>2, SentStays DEF Wake, Take, ConnectChannel, Act
  <2>2. CASE Take
    <3>1. /\ Head(workList) \in Link /\ task = "list" /\ task' = "act"
          /\ taskLink' = Head(workList) /\ taskAction' = link_action[Head(workList)]
          /\ link_action' = [link_action EXCEPT ![Head(workList)] = {}]
      BY <2>2 DEF Take, TypeOK
    <3>2. ~ InTask(k)
      BY <3>1 DEF InTask
    <3>3. k = Head(workList) => (InTask(k)' => InList(k)) /\ ~ InList(k)'
      BY <3>1 DEF InTask, InList, TypeOK
    <3>4. k # Head(workList) => ~ InTask(k)' /\ (InList(k)' => InList(k))
      BY <3>1 DEF InTask, InList, TypeOK
    <3>5. Owed(k)' <= Owed(k)
      BY <1>1, <3>2, <3>3, <3>4, OwedLess
    <3> QED BY <1>1, <2>1, <3>5, OrderedKept
  <2>3. CASE Wake \/ ConnectChannel \/ Act
    <3>1. (InTask(k)' => InTask(k)) /\ InList(k)' = InList(k)
      BY <2>3 DEF Wake, ConnectChannel, Act, InTask, InList
    <3>2. Owed(k)' <= Owed(k)
      BY <1>1, <3>1, OwedLess
    <3> QED BY <1>1, <2>1, <3>2, OrderedKept
  <2> QED BY <1>2, <2>2, <2>3
<1>3. CASE Put
  <2>1. ~ InTask(k)' /\ InList(k)' = InList(k)
    BY <1>3 DEF Put, InTask, InList
  <2>2. CASE taskLink = k /\ chan[k] = "conn"
    <3>1. buffer'[k] = Append(buffer[k], pputNative[k])
      BY <1>3, <2>2 DEF Put, TypeOK
    <3>2. Sent(k)' = (received[k] \o circuit[k]) \o Append(buffer[k], pputNative[k])
      BY <1>1, <1>3, <3>1 DEF Put, Sent
    <3>3. Sent(k)' = Append(Sent(k), pputNative[k])
      BY <3>2, OrderTypes, SentAppend, Zenon DEF Sent
    <3>4. InTask(k)
      BY <1>3, <2>2 DEF Put, InTask
    <3>5. Owed(k)' + 1 <= Owed(k)
      BY <1>1, <2>1, <3>4 DEF Owed, One
    <3>6. PICK s \in Seq(Nat), v \in Nat, n \in Nat :
            s = Sent(k) /\ v = pputNative[k] /\ n = Owed(k) /\ n <= MaxRepeats
      BY OrderTypes
    <3>7. PICK m \in Nat : m = Owed(k)'
      BY OwedTypeNext
    <3>8. Ordered(s, v, n) /\ m + 1 <= n
      BY <3>5, <3>6, <3>7 DEF OrderedAt
    <3>9. Ordered(Append(s, v), v, m)
      BY <3>6, <3>8, OrderedAppend
    <3> QED BY <1>1, <3>3, <3>6, <3>7, <3>9 DEF OrderedAt
  <2>3. CASE ~ (taskLink = k /\ chan[k] = "conn")
    <3>1. buffer'[k] = buffer[k] /\ circuit' = circuit
      BY <1>3, <2>3 DEF Put, TypeOK
    <3>2. Sent(k)' = Sent(k)
      BY <1>1, <3>1 DEF Sent
    <3>3. Owed(k)' <= Owed(k)
      BY <1>1, <2>1, OwedLess
    <3> QED BY <1>1, <3>2, <3>3, OrderedKept
  <2> QED BY <2>2, <2>3
<1>4. CASE Flush
  <2>1. Sent(k)' = Sent(k)
    BY <1>1, <1>4, SentStays DEF Flush
  <2>2. ~ InTask(k)' /\ InList(k)' = InList(k)
    BY <1>4 DEF Flush, InTask, InList
  <2>3. Owed(k)' <= Owed(k)
    BY <1>1, <2>2, OwedLess
  <2> QED BY <1>1, <2>1, <2>3, OrderedKept
<1> QED BY <1>2, <1>3, <1>4 DEF TaskStep, dbCaTask

(* A channel that is lost loses the end of what was sent.                  *)
LEMMA LossKeepsOrder ==
  ASSUME TypeOK, NEW k \in Link, OrderedAt(k), NEW l \in Link, Disconnects(l)
  PROVE  OrderedAt(k)'
<1> USE DEF netVars, listVars, taskVars
<1>1. /\ UNCHANGED <<pputNative, received, at, step, task, taskLink, taskAction, link_action>>
      /\ buffer' = [buffer EXCEPT ![l] = <<>>]
      /\ circuit' = [circuit EXCEPT ![l] = <<>>]
  BY DEF Disconnects, ChannelDown, noCode, putVars
<1>2. Owed(k)' = Owed(k)
  BY <1>1 DEF Owed, InTask, InList, InPut
<1>3. CASE k # l
  <2>1. Sent(k)' = Sent(k)
    BY <1>1, <1>3 DEF Sent, TypeOK
  <2> QED BY <1>1, <1>2, <2>1 DEF OrderedAt
<1>4. CASE k = l
  <2>1. received[k] \in Seq(Puts) /\ circuit[k] \in Seq(Puts) /\ buffer[k] \in Seq(Puts)
    BY OrderTypes
  <2>2. Sent(k)' = (received[k] \o <<>>) \o <<>>
    BY <1>1, <1>4 DEF Sent, TypeOK
  <2>3. Sent(k)' = received[k]
    BY <2>1, <2>2, ConcatEmptySeq
  <2>4. Sent(k) = received[k] \o (circuit[k] \o buffer[k])
    BY <2>1, ConcatPuts, Zenon DEF Sent
  <2>5. PICK r \in Seq(Nat), s \in Seq(Nat) :
          r = received[k] /\ s = circuit[k] \o buffer[k]
    <3>1. received[k] \in Seq(Nat) /\ circuit[k] \in Seq(Nat) /\ buffer[k] \in Seq(Nat)
      <4>1. \A S, T : S \subseteq T => Seq(S) \subseteq Seq(T)
        OBVIOUS
      <4>2. Puts \subseteq Nat
        BY BoundsAssumption DEF Puts
      <4> QED BY <2>1, <4>1, <4>2, Zenon
    <3> QED BY <3>1, ConcatProperties
  <2>6. PICK v \in Nat, n \in Nat : v = pputNative[k] /\ n = Owed(k)
    BY OrderTypes
  <2>7. Ordered(r \o s, v, n)
    BY <2>4, <2>5, <2>6 DEF OrderedAt
  <2>8. Ordered(r, v, n)
    BY <2>7, OrderedPart
  <2> QED BY <1>1, <1>2, <2>3, <2>5, <2>6, <2>8 DEF OrderedAt
<1> QED BY <1>3, <1>4

(* Every action keeps the order of what is sent to every crate.            *)
LEMMA OrderedStep ==
  ASSUME TypeOK, \A k \in Link : Current(k) /\ OrderedAt(k), [Next]_vars
  PROVE  \A k \in Link : OrderedAt(k)'
<1> SUFFICES ASSUME NEW k \in Link PROVE OrderedAt(k)'
  OBVIOUS
<1> USE DEF netVars, listVars, taskVars
<1>1. CASE PutField \/ PutToLinks
  BY <1>1, PutKeepsOrder
<1>2. CASE TaskStep
  BY <1>2, TaskKeepsOrder
<1>3. ASSUME NEW l \in Link, Callback(l) PROVE OrderedAt(k)'
  <2>1. UNCHANGED <<received, circuit, buffer, pputNative, at, step, task, taskLink, taskAction>>
    BY <1>3 DEF Callback, connectionCallback, Signal, putVars
  <2>2. InList(k)' = InList(k)
    <3>1. CASE addAction(l, "attributes")
      BY <3>1 DEF addAction, TypeOK, InList
    <3> QED BY <1>3, <3>1 DEF Callback, connectionCallback, Signal, InList
  <2>3. Owed(k)' = Owed(k) /\ Sent(k)' = Sent(k)
    BY <2>1, <2>2 DEF Owed, InTask, InPut, Sent
  <2> QED BY <2>1, <2>3 DEF OrderedAt
<1>4. ASSUME NEW l \in Link, Network(l) PROVE OrderedAt(k)'
  <2>1. CASE Disconnects(l)
    BY <2>1, LossKeepsOrder
  <2>2. ASSUME Connects(l) \/ Sends(l) \/ Receives(l) PROVE OrderedAt(k)'
    <3>1. UNCHANGED <<pputNative, at, step, task, taskLink, taskAction, link_action>>
      BY <2>2 DEF Connects, ChannelUp, Sends, FlushEarly, Receives, Arrive, noCode, putVars
    <3>2. CASE Connects(l)
      BY <3>1, <3>2, SentStays DEF Connects, ChannelUp, OrderedAt, Owed, InTask, InList, InPut
    <3>3. CASE Sends(l)
      <4>1. Sent(k)' = Sent(k)
        BY <3>3, SentStays DEF Sends, FlushEarly, TypeOK
      <4> QED BY <3>1, <4>1 DEF OrderedAt, Owed, InTask, InList, InPut
    <3>4. CASE Receives(l)
      <4>1. Sent(k)' = Sent(k)
        BY <3>4, SentReceived
      <4> QED BY <3>1, <4>1 DEF OrderedAt, Owed, InTask, InList, InPut
    <3> QED BY <2>2, <3>2, <3>3, <3>4
  <2> QED BY <1>4, <2>1, <2>2 DEF Network
<1>5. CASE UNCHANGED vars
  BY <1>5, SentStays DEF vars, caVars, putVars, OrderedAt, Owed, InTask, InList, InPut
<1> QED BY <1>1, <1>2, <1>3, <1>4, <1>5 DEF Next

GlobalsOrderInv == TypeOK /\ \A k \in Link : Current(k) /\ OrderedAt(k)

(* Nothing is sent at the start.                                           *)
LEMMA OrderInit == Init => GlobalsOrderInv
<1> SUFFICES ASSUME Init PROVE GlobalsOrderInv
  OBVIOUS
<1>1. TypeOK
  BY TypeInit
<1>2. ASSUME NEW k \in Link PROVE Current(k) /\ OrderedAt(k)
  <2>1. Current(k)
    BY <1>2 DEF Init, CaInit, Current, Expected, Locked, Link
  <2>2. Sent(k) = <<>>
    BY <1>2 DEF Init, CaInit, Sent
  <2>3. \A v, n : Ordered(<<>>, v, n)
    BY DEF Ordered
  <2> QED BY <2>1, <2>2, <2>3 DEF OrderedAt
<1> QED BY <1>1, <1>2 DEF GlobalsOrderInv

(* In every reachable state, for any number of crates, puts and lost       *)
(* channels, a crate has been sent the settings in the order of their      *)
(* puts, and none of them more than three times.                           *)
THEOREM GlobalsInOrder == Spec => []InOrder
<1>1. GlobalsOrderInv /\ [Next]_vars => GlobalsOrderInv'
  BY TypeStep, CurrentStep, OrderedStep DEF GlobalsOrderInv
<1>2. GlobalsOrderInv => InOrder
  BY DEF GlobalsOrderInv, OrderedAt, Ordered, InOrder
<1> QED BY <1>1, <1>2, OrderInit, PTL DEF Spec
=============================================================================
