-------------------------- MODULE CasMonitorsProofs --------------------------
(***************************************************************************)
(* Proofs about CasMonitors, for any number of subscriptions, queues,      *)
(* entries, changes and requests.                                          *)
(***************************************************************************)
EXTENDS CasMonitors, FiniteSetTheorems, TLAPS

(* The size of a ring is all the proofs need to know of it.                *)
LEMMA QueueSize == EVENTQUESIZE \in Nat /\ EVENTQUESIZE > 1 /\ Slot # {}
<1>1. EVENTQUESIZE \in Nat
  BY EventQueueAssumption DEF EVENTQUESIZE
<1>2. EVENTQUESIZE > 1
  BY EventQueueAssumption
<1> QED
  BY <1>1, <1>2 DEF Slot

(* The slot behind a slot is one.                                          *)
LEMMA Next_Slot ==
  ASSUME NEW i \in Slot
  PROVE  RNGINC(i) \in Slot
BY QueueSize DEF RNGINC, Slot

(* No subscription or queue is named 0 or -1.                              *)
LEMMA Names ==
  /\ 0 \notin Sub /\ 0 \notin Que
  /\ EVENTQEMPTY \notin Sub /\ canceledEvent \notin Sub /\ canceledEvent # EVENTQEMPTY
BY DEF Sub, Que, EVENTQEMPTY, canceledEvent

(* Who works on a subscription, when: it is made before it is enabled,     *)
(* disabled before it is purged, and freed only when nobody has it.        *)
Ours(s) ==
  /\ enabled[s] => ev_que[s] \in Que
  /\ s \in signalling => enabled[s] \/ (cpc = "enable" /\ csub = s)
  /\ callBackInProgress[s] <=> event = s

Serving ==
  cpc \notin {"idle", "batch"} => csub \in Sub /\ ev_que[csub] \in Que /\ ~ enabled[csub]

Calling ==
  /\ event # 0 <=> task \in {"call", "done"}
  /\ event # 0 => ev_que[event] = taskQue

Owned ==
  \A q \in Que : \A i \in Slot :
    evque[q][i] \in Sub =>
      /\ ev_que[evque[q][i]] = q
      /\ cpc \in {"flush", "free"} => evque[q][i] # csub

Closing ==
  /\ pendexit => cpc \in {"idle", "batch"} /\ \A s \in Sub : ev_que[s] = 0
  /\ task = "exit" => pendexit

UseInv == (\A s \in Sub : Ours(s)) /\ Serving /\ Calling /\ Owned /\ Closing

(* Every variable has its type at the start.                               *)
LEMMA TypeInit == Init => TypeOK
<1> SUFFICES ASSUME Init PROVE TypeOK
  OBVIOUS
<1>1. 0 \in 0 .. MaxChanges /\ 0 \in 0 .. MaxAdds /\ -1 \in -1 .. MaxChanges
  BY BoundsAssumption
<1>2. 1 \in 1 .. NumQues + 1 /\ Start \in Slot
  BY EventQueueAssumption
<1>3. RingType
  BY <1>1, <1>2 DEF Init, QueueInit, RingType
<1>4. SubType
  BY DEF Init, QueueInit, SubType
<1>5. TaskType
  BY <1>1, <1>2 DEF Init, QueueInit, TaskType
<1>6. RecordType
  BY <1>1 DEF Init, RecordType, Nothing
<1>7. ServeType
  BY <1>1 DEF Init, ServeType
<1> QED
  BY <1>3, <1>4, <1>5, <1>6, <1>7 DEF TypeOK

(* Nobody uses a subscription at the start.                                *)
LEMMA UseInit == Init => UseInv
<1> SUFFICES ASSUME Init PROVE UseInv
  OBVIOUS
<1>1. 0 \notin Sub
  BY DEF Sub
<1>2. \A s \in Sub : Ours(s)
  BY <1>1 DEF Init, QueueInit, Ours
<1>3. Owned
  BY <1>1 DEF Init, QueueInit, Owned, EVENTQEMPTY
<1>4. Serving /\ Calling /\ Closing
  BY DEF Init, QueueInit, Serving, Calling, Closing
<1> QED
  BY <1>2, <1>3, <1>4 DEF UseInv

(* Posting an event keeps the types.                                       *)
LEMMA PostType ==
  ASSUME TypeOK, NEW s \in Sub, ev_que[s] \in Que, NEW v \in 0 .. MaxChanges, Post(s, v)
  PROVE  RingType' /\ SubType' /\ TaskType'
<1> DEFINE q == ev_que[s]
           p == putix[q]
<1> USE DEF ringVars, subVars, modeVars, taskVars
<1>1. /\ UNCHANGED <<getix, quota, nCanceled, ev_que, enabled, user_sub,
                     callBackInProgress, ppendsem, pflush_sem, flowCtrlMode, pendexit,
                     task, taskQue, event, fl, eventsRemaining>>
      /\ signalling' \subseteq signalling \cup {s}
  BY DEF Post, Replace, AddEvent
<1>2. p \in Slot /\ RNGINC(p) \in Slot /\ 0 \in 0 .. MaxChanges
  BY Next_Slot, BoundsAssumption DEF TypeOK, RingType
<1>3. valque' \in [Que -> [Slot -> 0 .. MaxChanges]]
  <2>1. CASE Replace(s, v)
    BY <2>1 DEF Replace, TypeOK, RingType
  <2>2. CASE AddEvent(s, v)
    BY <2>2, <1>2 DEF AddEvent, TypeOK, RingType
  <2> QED
    BY <2>1, <2>2 DEF Post, TypeOK, RingType
<1>4. /\ evque' \in [Que -> [Slot -> Sub \cup {EVENTQEMPTY, canceledEvent}]]
      /\ putix' \in [Que -> Slot]
      /\ nDuplicates' \in [Que -> Int]
      /\ npend' \in [Sub -> Int] /\ pLastLog' \in [Sub -> Slot \cup {NoLog}]
  <2>1. CASE AddEvent(s, v)
    BY <2>1, <1>2 DEF AddEvent, LastLog, TypeOK, RingType, SubType
  <2> QED
    BY <2>1 DEF Post, Replace, TypeOK, RingType, SubType
<1> QED
  BY <1>1, <1>3, <1>4 DEF TypeOK, RingType, SubType, TaskType

(* The thread that serves the client, and records, keep the types.         *)
LEMMA ServeTypes ==
  ASSUME TypeOK, UseInv, (\E s \in Sub : Change(s)) \/ PostFirst
  PROVE  TypeOK'
<1>1. ASSUME NEW s \in Sub, Change(s) PROVE TypeOK'
  <2>1. now + 1 \in 0 .. MaxChanges
    BY <1>1, BoundsAssumption DEF Change, TypeOK, RecordType
  <2>2. RingType' /\ SubType' /\ TaskType'
    <3>1. CASE enabled[s]
      BY <1>1, <3>1, <2>1, PostType DEF Change, PostAndNote, UseInv, Ours
    <3>2. CASE ~ enabled[s]
      BY <1>1, <3>2 DEF Change, TypeOK, RingType, SubType, TaskType,
         queueVars, ringVars, subVars, semVars, modeVars, taskVars
    <3> QED
      BY <3>1, <3>2
  <2>3. replaced' \in [Sub -> BOOLEAN]
    <3>1. CASE enabled[s]
      <4>1. replaced' = [replaced EXCEPT ![s] = @ \/ Replaces(s)]
        BY <1>1, <3>1 DEF Change, PostAndNote
      <4>2. replaced \in [Sub -> BOOLEAN] /\ (replaced[s] \/ Replaces(s)) \in BOOLEAN
        BY DEF TypeOK, RecordType, Replaces
      <4> QED
        BY <4>1, <4>2
    <3> QED
      BY <1>1, <3>1 DEF Change, TypeOK, RecordType
  <2>4. RecordType'
    <3>1. val' \in [Sub -> 0 .. MaxChanges] /\ now' \in 0 .. MaxChanges
      BY <1>1, <2>1 DEF Change, TypeOK, RecordType
    <3>2. was' \in [Sub -> SUBSET (0 .. MaxChanges)]
      BY <1>1, <2>1 DEF Change, TypeOK, RecordType
    <3>3. missed' \in [Sub -> BOOLEAN]
      BY <1>1 DEF Change, TypeOK, RecordType
    <3> QED
      BY <1>1, <2>3, <3>1, <3>2, <3>3 DEF Change, TypeOK, RecordType
  <2> QED
    BY <1>1, <2>2, <2>4 DEF Change, TypeOK, ServeType, serveVars, sendVars
<1>2. CASE PostFirst
  <2>1. csub \in Sub /\ ev_que[csub] \in Que /\ val[csub] \in 0 .. MaxChanges
    BY <1>2 DEF PostFirst, UseInv, Serving, TypeOK, RecordType
  <2>2. RingType' /\ SubType' /\ TaskType'
    BY <1>2, <2>1, PostType DEF PostFirst, PostAndNote
  <2>3. replaced' \in [Sub -> BOOLEAN]
    <3>1. replaced' = [replaced EXCEPT ![csub] = @ \/ Replaces(csub)]
      BY <1>2 DEF PostFirst, PostAndNote
    <3>2. replaced \in [Sub -> BOOLEAN] /\ (replaced[csub] \/ Replaces(csub)) \in BOOLEAN
      BY DEF TypeOK, RecordType, Replaces
    <3> QED
      BY <3>1, <3>2
  <2> QED
    BY <1>2, <2>1, <2>2, <2>3 DEF PostFirst, TypeOK, RecordType, ServeType, recordVars,
       sendVars
<1> QED
  BY <1>1, <1>2

(* The requests of the client keep the types.                              *)
LEMMA RequestTypes ==
  ASSUME TypeOK, UseInv,
         \/ \E s \in Sub : Subscribe(s) \/ Unsubscribe(s)
         \/ FlowOn \/ FlowOff \/ Close
         \/ Enable \/ PurgeEvents \/ Flushed \/ Freed \/ SendBatch
  PROVE  TypeOK'
<1> USE DEF TypeOK, ringVars, subVars, semVars, modeVars, taskVars,
        recordVars, historyVars, sendVars
<1>1. EVENTENTRIES \in Int /\ 0 \in 0 .. MaxChanges /\ -1 \in -1 .. MaxChanges
  BY EventQueueAssumption, BoundsAssumption
<1>2. ASSUME NEW s \in Sub, Subscribe(s) PROVE TypeOK'
  <2>1. adds' \in 0 .. MaxAdds
    BY <1>2, BoundsAssumption DEF Subscribe, ServeType
  <2>2. RingType'
    BY <1>2, <1>1 DEF Subscribe, db_add_event, RingType
  <2>3. SubType'
    BY <1>2 DEF Subscribe, db_add_event, SubType
  <2> QED
    BY <1>2, <2>1, <2>2, <2>3
    DEF Subscribe, db_add_event, TaskType, RecordType, ServeType
<1>3. ASSUME NEW s \in Sub, Unsubscribe(s) PROVE TypeOK'
  <2>1. SubType'
    BY <1>3 DEF Unsubscribe, SetEnabled, SubType
  <2> QED
    BY <1>3, <2>1
    DEF Unsubscribe, SetEnabled, RingType, TaskType, RecordType, ServeType
<1>4. CASE FlowOn \/ FlowOff
  <2>1. flowCtrlMode' \in BOOLEAN /\ signalling' = signalling \cup {0}
    BY <1>4 DEF FlowOn, FlowOff, FlowControl
  <2>2. /\ UNCHANGED <<ringVars, subVars, taskVars, ppendsem, pflush_sem, pendexit,
                       recordVars, csub, adds, historyVars, sendVars>>
        /\ cpc' = "batch"
    BY <1>4 DEF FlowOn, FlowOff, FlowControl
  <2> QED
    BY <2>1, <2>2 DEF serveVars, RingType, SubType, TaskType, RecordType, ServeType
<1>5. CASE Close
  BY <1>5 DEF Close, db_close_events, serveVars,
     RingType, SubType, TaskType, RecordType, ServeType
<1>6. CASE Enable
  <2>1. SubType'
    BY <1>6 DEF Enable, SetEnabled, SubType
  <2> QED
    BY <1>6, <2>1
    DEF Enable, SetEnabled, RingType, TaskType, RecordType, ServeType
<1>7. CASE PurgeEvents
  <2>1. csub \in Sub /\ ev_que[csub] \in Que
    BY <1>7 DEF PurgeEvents, UseInv, Serving
  <2>2. DuplicatesOf(csub) \in Int
    BY <2>1 DEF DuplicatesOf, SubType
  <2>3. RingType'
    <3>1. evque' \in [Que -> [Slot -> Sub \cup {EVENTQEMPTY, canceledEvent}]]
      BY <1>7, <2>1 DEF PurgeEvents, Purge, RingType
    <3>2. valque' \in [Que -> [Slot -> 0 .. MaxChanges]]
      BY <1>7, <2>1, <1>1 DEF PurgeEvents, Purge, RingType
    <3> QED
      BY <1>7, <2>1, <2>2, <3>1, <3>2 DEF PurgeEvents, Purge, RingType, SubType
  <2>4. SubType'
    BY <1>7, <2>1 DEF PurgeEvents, Purge, SubType
  <2> QED
    BY <1>7, <2>1, <2>3, <2>4 DEF PurgeEvents, Purge, TaskType, RecordType, ServeType
<1>8. CASE Flushed
  <2>1. ServeType'
    BY <1>8 DEF Flushed, ServeType
  <2> QED
    BY <1>8, <2>1 DEF Flushed, WaitFlush, RingType, SubType, TaskType, RecordType
<1>10. CASE SendBatch
  <2>1. ServeType'
    BY <1>10 DEF SendBatch, ServeType
  <2>2. UNCHANGED <<queueVars, recordVars, historyVars>>
    BY <1>10 DEF SendBatch
  <2> QED
    BY <2>1, <2>2 DEF queueVars, RingType, SubType, TaskType, RecordType
<1>9. CASE Freed
  <2>1. csub \in Sub /\ ev_que[csub] \in Que
    BY <1>9 DEF Freed, UseInv, Serving
  <2>2. CASE MustWait(csub)
    BY <1>9, <2>2 DEF Freed, queueVars, RingType, SubType, TaskType, RecordType, ServeType
  <2>3. CASE ~ MustWait(csub)
    <3>1. RingType'
      BY <1>9, <2>1, <2>3, <1>1 DEF Freed, Free, RingType
    <3>2. SubType'
      BY <1>9, <2>1, <2>3 DEF Freed, Free, SubType
    <3>3. RecordType'
      BY <1>9, <2>1, <2>3, <1>1 DEF Freed, Free, RecordType, Nothing
    <3> QED
      BY <1>9, <2>3, <3>1, <3>2, <3>3 DEF Freed, Free, TaskType, ServeType
  <2> QED
    BY <2>2, <2>3
<1> QED
  BY <1>2, <1>3, <1>4, <1>5, <1>6, <1>7, <1>8, <1>9, <1>10

(* event_task, and posters when they signal it, keep the types.            *)
LEMMA TaskTypes ==
  ASSUME TypeOK, UseInv, event_task \/ \E c \in Sub \cup {0} : Signals(c)
  PROVE  TypeOK'
<1> USE DEF TypeOK, ringVars, subVars, semVars, modeVars, taskVars,
        recordVars, serveVars, historyVars, sendVars
<1>1. CASE /\ Wake \/ EndOfList \/ SkipQueue \/ LockQueue \/ EndOfQueue
           /\ UNCHANGED <<recordVars, serveVars, historyVars, sendVars>>
  <2>1. /\ task' \in {"wait", "list", "read", "exit"}
        /\ taskQue' \in 1 .. NumQues + 1 /\ (task' = "read" => taskQue' \in Que)
    BY <1>1, EventQueueAssumption
    DEF Wake, EndOfList, SkipQueue, LockQueue, EndOfQueue, TaskType, Que
  <2>2. /\ ppendsem' \in BOOLEAN
        /\ UNCHANGED <<ringVars, subVars, pflush_sem, signalling, modeVars, event, fl,
                       eventsRemaining>>
    BY <1>1 DEF Wake, EndOfList, SkipQueue, LockQueue, EndOfQueue, TaskType
  <2> QED
    BY <1>1, <2>1, <2>2 DEF RingType, SubType, TaskType, RecordType, ServeType
<1>2. CASE SkipCanceled /\ UNCHANGED <<recordVars, serveVars, historyVars, sendVars>>
  <2>1. taskQue \in Que /\ getix[taskQue] \in Slot /\ RNGINC(getix[taskQue]) \in Slot
    BY <1>2, Next_Slot DEF SkipCanceled, TaskType, RingType
  <2>2. RingType'
    BY <1>2, <2>1 DEF SkipCanceled, RingType
  <2> QED
    BY <1>2, <2>2 DEF SkipCanceled, SubType, TaskType, RecordType, ServeType
<1>3. CASE TakeEvent /\ UNCHANGED <<recordVars, serveVars, historyVars, sendVars>>
  <2> DEFINE q == taskQue
             i == getix[q]
             s == evque[q][i]
  <2>1. /\ q \in Que /\ i \in Slot /\ RNGINC(i) \in Slot /\ s \in Sub
        /\ 0 \in 0 .. MaxChanges /\ valque[q][i] \in 0 .. MaxChanges
        /\ npend[s] \in Int /\ user_sub[s] \in BOOLEAN
    BY <1>3, Next_Slot, BoundsAssumption DEF TakeEvent, TaskType, RingType, SubType
  <2>2. RingType'
    <3>1. evque' \in [Que -> [Slot -> Sub \cup {EVENTQEMPTY, canceledEvent}]]
      BY <1>3, <2>1 DEF TakeEvent, RingType
    <3>2. valque' \in [Que -> [Slot -> 0 .. MaxChanges]]
      BY <1>3, <2>1 DEF TakeEvent, RingType
    <3> QED
      BY <1>3, <2>1, <3>1, <3>2 DEF TakeEvent, RingType
  <2>3. SubType'
    BY <1>3, <2>1 DEF TakeEvent, SubType
  <2>4. TaskType'
    BY <1>3, <2>1 DEF TakeEvent, TaskType
  <2> QED
    BY <1>3, <2>2, <2>3, <2>4 DEF TakeEvent, RecordType, ServeType
<1>4. CASE CallbackReturns /\ UNCHANGED <<recordVars, serveVars, historyVars, sendVars>>
  <2>1. event \in Sub
    BY <1>4 DEF CallbackReturns, TaskType
  <2>2. SubType'
    BY <1>4, <2>1 DEF CallbackReturns, SubType
  <2>3. pflush_sem' \in BOOLEAN
    BY <1>4 DEF CallbackReturns, FlushedBy, TaskType
  <2>4. TaskType'
    BY <1>4, <2>3 DEF CallbackReturns, TaskType
  <2> QED
    BY <1>4, <2>2, <2>4 DEF CallbackReturns, RingType, RecordType, ServeType
<1>5. CASE read_reply
  <2>1. event \in Sub /\ CallbackValue \in -1 .. MaxChanges /\ 0 \in 0 .. MaxChanges
    BY <1>5, BoundsAssumption
    DEF read_reply, CallbackRuns, CallbackValue, TaskType, RecordType
  <2>2. RecordType'
    BY <1>5, <2>1 DEF read_reply, RecordType
  <2>3. ServeType'
    <3>1. eventsRemaining \in BOOLEAN
      BY DEF TaskType
    <3>2. \A b \in ToldRemaining : b \in BOOLEAN
      BY <3>1 DEF ToldRemaining
    <3> QED
      BY <1>5, <3>2 DEF read_reply, ServeType
  <2>4. TaskType'
    BY <1>5, <2>1 DEF read_reply, CallbackRuns, TaskType
  <2> QED
    BY <1>5, <2>2, <2>3, <2>4 DEF read_reply, CallbackRuns, RingType, SubType
<1>6. ASSUME NEW c \in Sub \cup {0}, Signals(c) PROVE TypeOK'
  BY <1>6 DEF Signals, Signal, RingType, SubType, TaskType, RecordType, ServeType
<1> QED
  BY <1>1, <1>2, <1>3, <1>4, <1>5, <1>6 DEF event_task, Walk

(* A posted event is put in the ring of its subscription, by one who has   *)
(* to have it.                                                             *)
LEMMA PostUse ==
  ASSUME TypeOK, UseInv, NEW s \in Sub, ev_que[s] \in Que, NEW v, Post(s, v),
         UNCHANGED csub,
         \/ enabled[s] /\ UNCHANGED cpc
         \/ cpc = "post" /\ csub = s /\ cpc' = "enable"
  PROVE  UseInv'
<1> USE DEF ringVars, subVars, modeVars, taskVars
<1>1. /\ UNCHANGED <<ev_que, enabled, callBackInProgress, pendexit, task, taskQue, event>>
      /\ signalling' \subseteq signalling \cup {s}
  BY DEF Post, Replace, AddEvent
<1>2. \A q \in Que : \A i \in Slot :
        evque'[q][i] = evque[q][i] \/ (evque'[q][i] = s /\ q = ev_que[s])
  <2>1. CASE AddEvent(s, v)
    BY <2>1 DEF AddEvent, TypeOK, RingType
  <2> QED
    BY <2>1 DEF Post, Replace
<1>3. (\A t \in Sub : Ours(t))'
  BY <1>1 DEF UseInv, Ours, Serving
<1>4. Owned'
  <2> SUFFICES ASSUME NEW q \in Que, NEW i \in Slot, evque'[q][i] \in Sub
               PROVE  /\ ev_que'[evque'[q][i]] = q
                      /\ cpc' \in {"flush", "free"} => evque'[q][i] # csub'
    BY DEF Owned
  <2>1. CASE evque'[q][i] = evque[q][i]
    BY <1>1, <2>1 DEF UseInv, Owned
  <2>2. CASE evque'[q][i] = s /\ q = ev_que[s]
    BY <1>1, <2>2 DEF UseInv, Serving
  <2> QED
    BY <1>2, <2>1, <2>2
<1>5. Serving' /\ Calling' /\ Closing'
  BY <1>1, Names DEF UseInv, Serving, Calling, Closing
<1> QED
  BY <1>3, <1>4, <1>5 DEF UseInv

(* Changes and requests of the client.                                     *)
LEMMA ServeUse ==
  ASSUME TypeOK, UseInv,
         \/ \E s \in Sub : Change(s) \/ Subscribe(s) \/ Unsubscribe(s)
         \/ FlowOn \/ FlowOff \/ Close \/ Proceed
  PROVE  UseInv'
<1> USE Names DEF ringVars, subVars, semVars, modeVars, taskVars, serveVars, UseInv
<1>1. ASSUME NEW s \in Sub, Change(s) PROVE UseInv'
  <2>1. CASE enabled[s]
    <3>1. ev_que[s] \in Que /\ Post(s, now + 1) /\ UNCHANGED <<cpc, csub>>
      BY <1>1, <2>1 DEF Change, PostAndNote, Ours
    <3> QED
      BY <2>1, <3>1, PostUse
  <2>2. CASE ~ enabled[s]
    BY <1>1, <2>2 DEF Change, queueVars, Ours, Serving, Calling, Owned, Closing
  <2> QED
    BY <2>1, <2>2
<1>2. ASSUME NEW s \in Sub, Subscribe(s) PROVE UseInv'
  <2>1. PICK q \in Que : /\ ev_que' = [ev_que EXCEPT ![s] = q]
                         /\ ev_que[s] = 0
    BY <1>2 DEF Subscribe, db_add_event
  <2>2. UNCHANGED <<ringVars, semVars, modeVars, taskVars, enabled, callBackInProgress>>
    BY <1>2 DEF Subscribe, db_add_event
  <2>3. cpc \in {"idle", "batch"} /\ ~ pendexit /\ cpc' = "post" /\ csub' = s
    BY <1>2 DEF Subscribe, Idle
  <2>4. event # s /\ ~ enabled[s] /\ \A r \in Que : \A i \in Slot : evque[r][i] # s
    BY <2>1 DEF Calling, Ours, Owned, TypeOK, TaskType
  <2>5. (\A t \in Sub : Ours(t))'
    BY <2>1, <2>2, <2>3, <2>4 DEF Ours, TypeOK, SubType
  <2>6. Owned'
    BY <2>1, <2>2, <2>3, <2>4 DEF Owned, TypeOK, SubType
  <2>7. Serving' /\ Calling' /\ Closing'
    BY <2>1, <2>2, <2>3, <2>4 DEF Serving, Calling, Closing, TypeOK, SubType, TaskType
  <2> QED
    BY <2>5, <2>6, <2>7
<1>3. ASSUME NEW s \in Sub, Unsubscribe(s) PROVE UseInv'
  <2>1. /\ s \notin signalling /\ enabled' = [enabled EXCEPT ![s] = FALSE]
        /\ cpc \in {"idle", "batch"} /\ ~ pendexit /\ cpc' = "purge" /\ csub' = s
        /\ ev_que[s] \in Que
    BY <1>3 DEF Unsubscribe, SetEnabled, Idle, TypeOK, SubType
  <2>2. UNCHANGED <<ringVars, semVars, modeVars, taskVars, ev_que, callBackInProgress>>
    BY <1>3 DEF Unsubscribe, SetEnabled
  <2>3. (\A t \in Sub : Ours(t))'
    BY <2>1, <2>2 DEF Ours, TypeOK, SubType
  <2> QED
    BY <2>1, <2>2, <2>3 DEF Serving, Calling, Owned, Closing, TypeOK, SubType
<1>4. CASE FlowOn \/ FlowOff
  BY <1>4 DEF FlowOn, FlowOff, FlowControl, Idle, Ours, Serving, Calling, Owned, Closing
<1>5. CASE Close
  BY <1>5 DEF Close, Idle, db_close_events, Ours, Serving, Calling, Owned, Closing
<1>6. CASE PostFirst
  <2>1. csub \in Sub /\ ev_que[csub] \in Que /\ Post(csub, val[csub])
    BY <1>6 DEF PostFirst, PostAndNote, Serving
  <2> QED
    BY <1>6, <2>1, PostUse DEF PostFirst
<1>7. CASE Enable
  <2>1. /\ csub \in Sub /\ ev_que[csub] \in Que /\ csub \notin signalling
        /\ enabled' = [enabled EXCEPT ![csub] = TRUE]
        /\ cpc = "enable" /\ cpc' = "batch"
    BY <1>7 DEF Enable, SetEnabled, Serving
  <2>2. UNCHANGED <<ringVars, semVars, modeVars, taskVars, ev_que, callBackInProgress>>
    BY <1>7 DEF Enable, SetEnabled
  <2>3. (\A t \in Sub : Ours(t))'
    BY <2>1, <2>2 DEF Ours, TypeOK, SubType
  <2> QED
    BY <2>1, <2>2, <2>3 DEF Serving, Calling, Owned, Closing
<1>8. CASE PurgeEvents
  <2>1. /\ csub \in Sub /\ ev_que[csub] \in Que /\ ~ enabled[csub]
        /\ cpc = "purge" /\ cpc' \in {"flush", "free"} /\ UNCHANGED csub
    BY <1>8 DEF PurgeEvents, Serving
  <2>2. UNCHANGED <<ev_que, enabled, callBackInProgress, semVars, modeVars, taskVars>>
    BY <1>8 DEF PurgeEvents, Purge
  <2>3. Owned'
    <3> SUFFICES ASSUME NEW q \in Que, NEW i \in Slot, evque'[q][i] \in Sub
                 PROVE  ev_que'[evque'[q][i]] = q /\ evque'[q][i] # csub
      BY <2>1 DEF Owned
    <3>1. evque'[q][i] = evque[q][i] /\ (q = ev_que[csub] => evque[q][i] # csub)
      BY <1>8, <2>1 DEF PurgeEvents, Purge, Mine, TypeOK, RingType
    <3> QED
      BY <2>1, <2>2, <3>1 DEF Owned
  <2> QED
    BY <2>1, <2>2, <2>3 DEF Ours, Serving, Calling, Closing
<1>9. CASE Flushed
  BY <1>9 DEF Flushed, WaitFlush, Ours, Serving, Calling, Owned, Closing
<1>10. CASE Freed /\ MustWait(csub)
  BY <1>10 DEF Freed, queueVars, Ours, Serving, Calling, Owned, Closing
<1>11. CASE Freed /\ ~ MustWait(csub)
  <2>1. /\ csub \in Sub /\ ~ enabled[csub] /\ ~ callBackInProgress[csub]
        /\ cpc = "free" /\ cpc' = "batch" /\ csub' = 0
        /\ ev_que' = [ev_que EXCEPT ![csub] = 0] /\ ~ pendexit
    BY <1>11 DEF Freed, Free, MustWait, Serving, Closing
  <2>2. UNCHANGED <<ringVars, semVars, modeVars, taskVars, enabled, callBackInProgress>>
    BY <1>11 DEF Freed, Free
  <2>3. event # csub /\ csub \notin signalling
    BY <2>1 DEF Ours
  <2>4. (\A t \in Sub : Ours(t))'
    BY <2>1, <2>2 DEF Ours, TypeOK, SubType
  <2>5. Owned'
    BY <2>1, <2>2 DEF Owned, TypeOK, SubType
  <2> QED
    BY <2>1, <2>2, <2>3, <2>4, <2>5 DEF Serving, Calling, Closing, TypeOK, SubType, TaskType
<1>12. CASE SendBatch
  BY <1>12 DEF SendBatch, queueVars, Ours, Serving, Calling, Owned, Closing
<1> QED
  BY <1>1, <1>2, <1>3, <1>4, <1>5, <1>6, <1>7, <1>8, <1>9, <1>10, <1>11, <1>12 DEF Proceed

(* event_task reads rings, calls back and lets go; a poster signals.       *)
LEMMA TaskUse ==
  ASSUME TypeOK, UseInv, event_task \/ \E c \in Sub \cup {0} : Signals(c)
  PROVE  UseInv'
<1> USE Names DEF ringVars, subVars, semVars, modeVars, taskVars, serveVars, UseInv
<1>1. CASE /\ Wake \/ EndOfList \/ SkipQueue \/ LockQueue \/ EndOfQueue
           /\ UNCHANGED <<recordVars, serveVars, historyVars, sendVars>>
  <2>1. /\ UNCHANGED <<ringVars, subVars, signalling, modeVars, event, serveVars>>
        /\ task' \in {"wait", "list", "read", "exit"} /\ (task' = "exit" => pendexit)
        /\ task \notin {"call", "done"}
    BY <1>1 DEF Wake, EndOfList, SkipQueue, LockQueue, EndOfQueue
  <2> QED
    BY <2>1 DEF Ours, Serving, Calling, Owned, Closing
<1>2. CASE SkipCanceled /\ UNCHANGED <<recordVars, serveVars, historyVars, sendVars>>
  <2>1. Owned'
    BY <1>2 DEF SkipCanceled, Owned, TypeOK, RingType, TaskType
  <2> QED
    BY <1>2, <2>1 DEF SkipCanceled, Ours, Serving, Calling, Closing
<1>3. CASE TakeEvent /\ UNCHANGED <<recordVars, serveVars, historyVars, sendVars>>
  <2> DEFINE q == taskQue
             s == evque[q][getix[q]]
  <2>1. /\ q \in Que /\ getix[q] \in Slot /\ s \in Sub /\ ev_que[s] = q /\ event = 0
    BY <1>3 DEF TakeEvent, TypeOK, TaskType, RingType, Owned, Calling
  <2>2. Owned'
    BY <1>3, <2>1 DEF TakeEvent, Owned, TypeOK, RingType
  <2>3. /\ callBackInProgress' = [callBackInProgress EXCEPT ![s] = user_sub[s]]
        /\ event' = IF user_sub[s] THEN s ELSE 0
        /\ task' = IF user_sub[s] THEN "call" ELSE "read"
        /\ UNCHANGED <<ev_que, enabled, semVars, modeVars, taskQue, serveVars>>
    BY <1>3 DEF TakeEvent
  <2>4. (\A t \in Sub : Ours(t))'
    BY <2>1, <2>3 DEF Ours, TypeOK, SubType
  <2> QED
    BY <1>3, <2>1, <2>2, <2>3, <2>4 DEF Serving, Calling, Closing, TakeEvent
<1>4. CASE CallbackReturns /\ UNCHANGED <<recordVars, serveVars, historyVars, sendVars>>
  <2>1. event \in Sub
    BY <1>4 DEF CallbackReturns, TypeOK, TaskType
  <2>2. /\ callBackInProgress' = [callBackInProgress EXCEPT ![event] = FALSE]
        /\ event' = 0 /\ task' = "read" /\ task = "done"
        /\ UNCHANGED <<ringVars, ev_que, enabled, signalling, modeVars, taskQue, serveVars>>
    BY <1>4 DEF CallbackReturns
  <2>3. (\A t \in Sub : Ours(t))'
    BY <2>1, <2>2 DEF Ours, TypeOK, SubType
  <2> QED
    BY <2>1, <2>2, <2>3 DEF Serving, Calling, Owned, Closing
<1>5. CASE read_reply
  BY <1>5 DEF read_reply, CallbackRuns, Ours, Serving, Calling, Owned, Closing
<1>6. ASSUME NEW c \in Sub \cup {0}, Signals(c) PROVE UseInv'
  BY <1>6 DEF Signals, Signal, Ours, Serving, Calling, Owned, Closing
<1> QED
  BY <1>1, <1>2, <1>3, <1>4, <1>5, <1>6 DEF event_task, Walk

(* Both are inductive together.                                            *)
LEMMA UseStep ==
  ASSUME TypeOK, UseInv, [Next]_vars
  PROVE  TypeOK' /\ UseInv'
<1>1. CASE Next
  BY <1>1, ServeTypes, RequestTypes, TaskTypes, ServeUse, TaskUse DEF Next, Proceed
<1>2. CASE UNCHANGED vars
  <2>1. TypeOK'
    BY <1>2 DEF vars, queueVars, recordVars, serveVars, historyVars, sendVars, ringVars,
       subVars, semVars, modeVars, taskVars, TypeOK, RingType, SubType, TaskType, RecordType, ServeType
  <2>2. UseInv'
    BY <1>2 DEF vars, queueVars, serveVars, ringVars, subVars, semVars, modeVars, taskVars,
       UseInv, Ours, Serving, Calling, Owned, Closing
  <2> QED
    BY <2>1, <2>2
<1> QED
  BY <1>1, <1>2

(* The types hold, for any number of subscriptions, queues and entries.    *)
THEOREM MonitorsTypeCorrect == Spec => []TypeOK
<1>1. TypeOK /\ UseInv /\ [Next]_vars => TypeOK' /\ UseInv'
  BY UseStep
<1> QED
  BY <1>1, TypeInit, UseInit, PTL DEF Spec

(* Nobody uses the block of a subscription that was cancelled, and         *)
(* event_task ends when nobody needs its queues.                           *)
THEOREM MonitorsNoUseAfterFree == Spec => []NoUseAfterFree
<1>1. TypeOK /\ UseInv /\ [Next]_vars => TypeOK' /\ UseInv'
  BY UseStep
<1>2. TypeOK /\ UseInv => NoUseAfterFree
  <2> SUFFICES ASSUME TypeOK, UseInv PROVE NoUseAfterFree
    OBVIOUS
  <2>1. ASSUME NEW s \in Sub, ev_que[s] = 0
        PROVE  /\ \A q \in Que : \A i \in Slot : evque[q][i] # s
               /\ event # s /\ ~ callBackInProgress[s]
               /\ s \notin signalling /\ ~ enabled[s]
    <3>1. \A q \in Que : \A i \in Slot : evque[q][i] # s
      BY <2>1, Names DEF UseInv, Owned
    <3>2. event # s /\ ~ callBackInProgress[s]
      BY <2>1, Names DEF UseInv, Calling, Ours, TypeOK, TaskType, SubType
    <3>3. s \notin signalling /\ ~ enabled[s]
      BY <2>1, Names DEF UseInv, Serving, Ours
    <3> QED
      BY <3>1, <3>2, <3>3
  <2>2. ASSUME task = "exit"
        PROVE  signalling \subseteq {0} /\ \A s \in Sub : ev_que[s] = 0
    <3>1. \A s \in Sub : ev_que[s] = 0
      BY <2>2 DEF UseInv, Closing
    <3> QED
      BY <2>1, <3>1 DEF TypeOK, TaskType
  <2> QED
    BY <2>1, <2>2 DEF NoUseAfterFree
<1> QED
  BY <1>1, <1>2, TypeInit, UseInit, PTL DEF Spec

-----------------------------------------------------------------------------

(***************************************************************************)
(* The rings of CasMonitors: they are contiguous, and every counter counts *)
(* what it should, for any number of subscriptions, queues and entries.    *)
(***************************************************************************)

(* The place of slot i in a ring that begins at g, and a ring r that       *)
(* begins at g and is in use up to p.                                      *)
At(g, i) == i - g + IF i >= g THEN 0 ELSE EVENTQUESIZE

Ring(r, g, p) ==
  /\ \A i \in Slot : r[i] # EVENTQEMPTY <=>
                     (r[p] # EVENTQEMPTY \/ At(g, i) < At(g, p))
  /\ r[p] # EVENTQEMPTY => p = g

Shape(q) == Ring(evque[q], getix[q], putix[q])

QueueCounts(q) ==
  /\ quota[q] = EVENTENTRIES * Cardinality(OwnSubs(q))
  /\ nCanceled[q] = Cardinality(Events(q, canceledEvent))
  /\ nDuplicates[q] = Cardinality(Duplicates(q))

SubCounts(s) ==
  /\ ev_que[s] = 0 => npend[s] = 0
  /\ ev_que[s] # 0 => npend[s] = Cardinality(Events(ev_que[s], s))
  /\ s \in Simple /\ npend[s] > 0 => IsLast(ev_que[s], s, pLastLog[s])
  /\ s \notin Simple => npend[s] <= 1

RingInv ==
  /\ \A q \in Que : Shape(q) /\ QueueCounts(q)
  /\ \A s \in Sub : SubCounts(s)

-----------------------------------------------------------------------------
(* Places: each slot has one of its own, and the first has place 0.        *)
LEMMA Places ==
  ASSUME NEW g \in Slot, NEW i \in Slot
  PROVE  /\ At(g, i) \in 0 .. EVENTQUESIZE - 1
         /\ At(g, i) = 0 <=> i = g
<1>1. EVENTQUESIZE \in Nat /\ EVENTQUESIZE > 1
  BY QueueSize
<1>2. i \in 0 .. EVENTQUESIZE - 1 /\ g \in 0 .. EVENTQUESIZE - 1
  BY DEF Slot
<1>3. CASE i >= g
  <2>1. At(g, i) = i - g
    BY <1>1, <1>2, <1>3 DEF At
  <2> QED
    BY <1>1, <1>2, <1>3, <2>1
<1>4. CASE ~ i >= g
  <2>1. At(g, i) = i - g + EVENTQUESIZE
    BY <1>1, <1>2, <1>4 DEF At
  <2> QED
    BY <1>1, <1>2, <1>4, <2>1
<1> QED
  BY <1>3, <1>4

(* No two slots have one place.                                            *)
LEMMA OnePlace ==
  ASSUME NEW g \in Slot, NEW i \in Slot, NEW j \in Slot, At(g, i) = At(g, j)
  PROVE  i = j
<1>1. /\ EVENTQUESIZE \in Nat /\ g \in 0 .. EVENTQUESIZE - 1
      /\ i \in 0 .. EVENTQUESIZE - 1 /\ j \in 0 .. EVENTQUESIZE - 1
  BY QueueSize DEF Slot
<1> QED
  BY <1>1 DEF At

(* The slot behind a slot has the next place, unless the ring begins there. *)
LEMMA NextPlace ==
  ASSUME NEW g \in Slot, NEW i \in Slot
  PROVE  IF RNGINC(i) = g THEN At(g, i) = EVENTQUESIZE - 1
                          ELSE At(g, RNGINC(i)) = At(g, i) + 1
<1>1. /\ EVENTQUESIZE \in Nat /\ EVENTQUESIZE > 1
      /\ g \in 0 .. EVENTQUESIZE - 1 /\ i \in 0 .. EVENTQUESIZE - 1
  BY QueueSize DEF Slot
<1> QED
  BY <1>1 DEF At, RNGINC

(* When the first slot is read, every other comes one place nearer.        *)
LEMMA Nearer ==
  ASSUME NEW g \in Slot, NEW i \in Slot
  PROVE  At(RNGINC(g), i) = IF i = g THEN EVENTQUESIZE - 1 ELSE At(g, i) - 1
<1>1. /\ EVENTQUESIZE \in Nat /\ EVENTQUESIZE > 1
      /\ g \in 0 .. EVENTQUESIZE - 1 /\ i \in 0 .. EVENTQUESIZE - 1
  BY QueueSize DEF Slot
<1>2. CASE g = EVENTQUESIZE - 1
  BY <1>1, <1>2 DEF At, RNGINC
<1>3. CASE g < EVENTQUESIZE - 1
  BY <1>1, <1>3 DEF At, RNGINC
<1> QED
  BY <1>1, <1>2, <1>3

(* An event that is put in the free slot p comes last, and the ring is a   *)
(* ring still.                                                             *)
LEMMA AppendRing ==
  ASSUME NEW g \in Slot, NEW p \in Slot, NEW X, NEW r \in [Slot -> X], NEW s,
         s # EVENTQEMPTY, Ring(r, g, p), r[p] = EVENTQEMPTY
  PROVE  /\ Ring([r EXCEPT ![p] = s], g, RNGINC(p))
         /\ \A i \in Slot : r[i] # EVENTQEMPTY => At(g, i) < At(g, p)
<1> DEFINE e == [r EXCEPT ![p] = s]
           n == RNGINC(p)
<1>1. n \in Slot
  BY Next_Slot
<1>2. \A i \in Slot : e[i] # EVENTQEMPTY <=> (i = p \/ At(g, i) < At(g, p))
  BY DEF Ring
<1>3. \A i \in Slot : At(g, i) \in 0 .. EVENTQUESIZE - 1
  BY Places
<1>4. \A i \in Slot : At(g, i) = At(g, p) => i = p
  BY OnePlace
<1>5. CASE n = g
  <2>1. At(g, p) = EVENTQUESIZE - 1
    BY <1>5, NextPlace
  <2>2. \A i \in Slot : e[i] # EVENTQEMPTY
    BY <1>2, <1>3, <1>4, <2>1, QueueSize
  <2> QED
    BY <1>1, <1>5, <2>2 DEF Ring
<1>6. CASE n # g
  <2>1. At(g, n) = At(g, p) + 1
    BY <1>6, NextPlace
  <2>2. e[n] = EVENTQEMPTY
    BY <1>1, <1>2, <1>3, <2>1
  <2>3. \A i \in Slot : e[i] # EVENTQEMPTY <=> At(g, i) < At(g, n)
    BY <1>2, <1>3, <1>4, <2>1
  <2> QED
    BY <2>2, <2>3 DEF Ring
<1> QED
  BY <1>5, <1>6 DEF Ring

(* A ring the first event of which is taken is a ring still.               *)
LEMMA TakeRing ==
  ASSUME NEW g \in Slot, NEW p \in Slot, NEW X, NEW r \in [Slot -> X],
         Ring(r, g, p), r[g] # EVENTQEMPTY
  PROVE  Ring([r EXCEPT ![g] = EVENTQEMPTY], RNGINC(g), p)
<1> DEFINE e == [r EXCEPT ![g] = EVENTQEMPTY]
           n == RNGINC(g)
<1>1. \A i \in Slot : At(g, i) \in 0 .. EVENTQUESIZE - 1 /\ (At(g, i) = 0 <=> i = g)
  BY Places
<1>2. \A i \in Slot : At(n, i) = IF i = g THEN EVENTQUESIZE - 1 ELSE At(g, i) - 1
  BY Nearer
<1>3. CASE r[p] # EVENTQEMPTY
  <2>1. p = g
    BY <1>3 DEF Ring
  <2>2. \A i \in Slot : e[i] # EVENTQEMPTY <=> At(n, i) < At(n, p)
    BY <1>1, <1>2, <1>3, <2>1, QueueSize DEF Ring
  <2> QED
    BY <2>1, <2>2 DEF Ring
<1>4. CASE r[p] = EVENTQEMPTY
  <2>1. p # g /\ e[p] = EVENTQEMPTY
    BY <1>4
  <2>2. At(n, p) = At(g, p) - 1
    BY <1>2, <2>1
  <2>3. ASSUME NEW i \in Slot PROVE e[i] # EVENTQEMPTY <=> At(n, i) < At(n, p)
    <3>1. CASE i = g
      BY <1>1, <1>2, <2>2, <3>1, QueueSize
    <3>2. CASE i # g
      BY <1>1, <1>2, <1>4, <2>2, <3>2 DEF Ring
    <3> QED
      BY <3>1, <3>2
  <2> QED
    BY <2>1, <2>3 DEF Ring
<1> QED
  BY <1>3, <1>4

-----------------------------------------------------------------------------
(* Where a ring begins and ends.                                           *)
LEMMA Ends ==
  ASSUME TypeOK, NEW q \in Que
  PROVE  getix[q] \in Slot /\ putix[q] \in Slot
BY DEF TypeOK, RingType

(* Sets of slots can be counted.                                           *)
LEMMA SlotSets ==
  ASSUME NEW S \in SUBSET Slot
  PROVE  IsFiniteSet(S) /\ Cardinality(S) \in Nat
<1>1. IsFiniteSet(Slot)
  BY QueueSize, FS_Interval DEF Slot
<1> QED
  BY <1>1, FS_Subset, FS_CardinalityType

(* A subscription has one last event.                                      *)
LEMMA OneLast ==
  ASSUME TypeOK, NEW q \in Que, NEW s, NEW i, NEW j, IsLast(q, s, i), IsLast(q, s, j)
  PROVE  i = j
<1>1. /\ i \in Slot /\ j \in Slot /\ getix[q] \in Slot
      /\ At(getix[q], i) <= At(getix[q], j) /\ At(getix[q], j) <= At(getix[q], i)
  BY DEF IsLast, Events, Place, At, TypeOK, RingType
<1>2. At(getix[q], i) \in 0 .. EVENTQUESIZE - 1 /\ At(getix[q], j) \in 0 .. EVENTQUESIZE - 1
  BY <1>1, Places
<1>3. At(getix[q], i) = At(getix[q], j)
  BY <1>1, <1>2, QueueSize
<1> QED
  BY <1>1, <1>3, OnePlace

(* Nothing happens to a ring nobody touches.                               *)
LEMMA RingKept ==
  ASSUME RingInv,
         UNCHANGED <<evque, putix, getix, quota, nDuplicates, nCanceled,
                     ev_que, npend, pLastLog>>
  PROVE  RingInv'
<1>1. ASSUME NEW q \in Que PROVE Shape(q)' /\ QueueCounts(q)'
  BY DEF RingInv, Shape, Ring, QueueCounts, OwnSubs, Events, Duplicates, IsLast, Place
<1>2. ASSUME NEW s \in Sub PROVE SubCounts(s)'
  BY DEF RingInv, SubCounts, Events, IsLast, Place
<1> QED
  BY <1>1, <1>2 DEF RingInv

(* An event that is added is its subscription's last, and makes a          *)
(* duplicate of the one that was.                                          *)
LEMMA AppendCounts ==
  ASSUME TypeOK, RingInv, NEW s \in Sub, ev_que[s] \in Que, NEW v,
         AddEvent(s, v), ~ Ignored(s), UNCHANGED <<ev_que, quota>>
  PROVE  RingInv'
<1> USE Names
<1> PICK q \in Que : q = ev_que[s]
  OBVIOUS
<1> PICK p \in Slot : p = putix[q]
  BY Ends
<1> PICK g \in Slot : g = getix[q]
  BY Ends
<1>1. /\ evque[q][p] = EVENTQEMPTY
      /\ evque[q] \in [Slot -> Sub \cup {EVENTQEMPTY, canceledEvent}]
      /\ s # EVENTQEMPTY /\ s # canceledEvent /\ npend[s] \in Int
  BY DEF AddEvent, TypeOK, RingType, SubType
<1>2. /\ evque'[q] = [evque[q] EXCEPT ![p] = s] /\ putix'[q] = RNGINC(p)
      /\ nDuplicates'[q] = nDuplicates[q] + IF npend[s] > 0 THEN 1 ELSE 0
      /\ npend' = [npend EXCEPT ![s] = @ + 1]
      /\ pLastLog' = [pLastLog EXCEPT ![s] = LastLog(s, p)]
      /\ UNCHANGED <<getix, nCanceled>>
  BY <1>1 DEF AddEvent, TypeOK, RingType
<1>3. \A r \in Que : r # q => /\ evque'[r] = evque[r] /\ putix'[r] = putix[r]
                              /\ nDuplicates'[r] = nDuplicates[r]
  BY DEF AddEvent, TypeOK, RingType
<1>4. Ring(evque'[q], g, RNGINC(p))
      /\ \A i \in Slot : evque[q][i] # EVENTQEMPTY => At(g, i) < At(g, p)
  <2>1. Ring(evque[q], g, p)
    BY DEF RingInv, Shape
  <2>2. /\ Ring([evque[q] EXCEPT ![p] = s], g, RNGINC(p))
        /\ \A i \in Slot : evque[q][i] # EVENTQEMPTY => At(g, i) < At(g, p)
    BY <1>1, <2>1, AppendRing
  <2> QED
    BY <1>2, <2>2
<1>5. \A r \in Que : Shape(r)'
  BY <1>2, <1>3, <1>4 DEF RingInv, Shape
<1>6. /\ Events(q, s)' = Events(q, s) \cup {p} /\ p \notin Events(q, s)
      /\ \A r \in Que : \A t \in Sub \cup {canceledEvent} :
           r # q \/ t # s => Events(r, t)' = Events(r, t)
  BY <1>1, <1>2, <1>3 DEF Events
<1>7. \A i : IsLast(q, s, i)' <=> i = p
  <2>1. \A i \in Events(q, s) : i \in Slot /\ At(g, i) < At(g, p)
    BY <1>1, <1>4 DEF Events
  <2>2. At(g, p) \in Int /\ \A i \in Events(q, s) : At(g, i) \in Int
    BY <1>1, <2>1, Places
  <2>3. \A i : IsLast(q, s, i)' <=> /\ i \in Events(q, s) \cup {p}
                                    /\ \A j \in Events(q, s) \cup {p} : At(g, j) <= At(g, i)
    BY <1>2, <1>6 DEF IsLast, Place, At
  <2>4. ASSUME NEW i, i \in Events(q, s) \cup {p},
               \A j \in Events(q, s) \cup {p} : At(g, j) <= At(g, i)
        PROVE  i = p
    BY <2>1, <2>2, <2>4
  <2>5. \A j \in Events(q, s) \cup {p} : At(g, j) <= At(g, p)
    BY <2>1, <2>2
  <2> QED
    BY <2>3, <2>4, <2>5
<1>8. \A r \in Que : \A t \in Sub : r # q \/ t # s =>
        \A i : IsLast(r, t, i)' <=> IsLast(r, t, i)
  BY <1>2, <1>6 DEF IsLast, Place
<1>9. /\ Duplicates(q)' = Duplicates(q) \cup Events(q, s)
      /\ \A r \in Que : r # q => Duplicates(r)' = Duplicates(r)
  <2>1. ASSUME NEW i \in Slot
        PROVE  i \in Duplicates(q)' <=> i \in Duplicates(q) \cup Events(q, s)
    <3>1. CASE i = p
      BY <1>1, <1>2, <1>7, <3>1 DEF Duplicates, Events
    <3>2. CASE i # p /\ evque[q][i] = s
      BY <1>1, <1>2, <1>7, <3>2 DEF Duplicates, Events
    <3>3. CASE i # p /\ evque[q][i] # s
      BY <1>1, <1>2, <1>8, <3>3 DEF Duplicates, Events
    <3> QED
      BY <3>1, <3>2, <3>3
  <2>2. Duplicates(q)' \subseteq Slot /\ Duplicates(q) \subseteq Slot /\ Events(q, s) \subseteq Slot
    BY DEF Duplicates, Events
  <2>3. \A r \in Que : r # q => Duplicates(r)' = Duplicates(r)
    BY <1>3, <1>8 DEF Duplicates
  <2> QED
    BY <2>1, <2>2, <2>3
<1>10. Cardinality(Duplicates(q)') = Cardinality(Duplicates(q)) + IF npend[s] > 0 THEN 1 ELSE 0
  <2>1. /\ Events(q, s) \subseteq Slot /\ Duplicates(q) \subseteq Slot
        /\ npend[s] = Cardinality(Events(q, s)) /\ q # 0
    BY DEF Duplicates, Events, RingInv, SubCounts
  <2>2. /\ IsFiniteSet(Events(q, s)) /\ IsFiniteSet(Duplicates(q))
        /\ npend[s] \in Nat /\ Cardinality(Duplicates(q)) \in Nat
    BY <2>1, SlotSets
  <2>3. CASE npend[s] = 0
    <3>1. Events(q, s) = {}
      BY <2>1, <2>2, <2>3, FS_EmptySet
    <3> QED
      BY <1>9, <2>2, <2>3, <3>1
  <2>4. CASE npend[s] > 0
    <3> DEFINE l == pLastLog[s]
    <3>1. IsLast(q, s, l)
      BY <2>1, <2>4 DEF Ignored, RingInv, SubCounts
    <3>2. \A i \in Events(q, s) : i # l => ~ IsLast(q, s, i)
      BY <3>1, OneLast
    <3>3. l \notin Duplicates(q) /\ Duplicates(q) \cup Events(q, s) = Duplicates(q) \cup {l}
      BY <3>1, <3>2 DEF Duplicates, IsLast, Events
    <3>4. Cardinality(Duplicates(q) \cup {l}) = Cardinality(Duplicates(q)) + 1
      BY <2>2, <3>3, FS_AddElement
    <3>5. Duplicates(q)' = Duplicates(q) \cup {l}
      BY <1>9, <3>3
    <3> QED
      BY <2>4, <3>4, <3>5
  <2> QED
    BY <2>2, <2>3, <2>4
<1>11. ASSUME NEW r \in Que PROVE QueueCounts(r)'
  <2>1. OwnSubs(r)' = OwnSubs(r) /\ Events(r, canceledEvent)' = Events(r, canceledEvent)
    BY <1>1, <1>6 DEF OwnSubs
  <2>2. nDuplicates'[r] = Cardinality(Duplicates(r)')
    BY <1>2, <1>3, <1>9, <1>10 DEF RingInv, QueueCounts
  <2> QED
    BY <1>2, <2>1, <2>2 DEF RingInv, QueueCounts
<1>12. ASSUME NEW t \in Sub PROVE SubCounts(t)'
  <2>1. CASE t = s
    <3>1. npend[s] = Cardinality(Events(q, s)) /\ IsFiniteSet(Events(q, s)) /\ npend[s] \in Nat
      <4>1. Events(q, s) \subseteq Slot /\ q # 0
        BY DEF Events
      <4> QED
        BY <4>1, SlotSets DEF RingInv, SubCounts
    <3>2. npend'[s] = npend[s] + 1 /\ npend'[s] = Cardinality(Events(q, s)')
      <4>1. npend'[s] = npend[s] + 1
        BY <1>2 DEF TypeOK, SubType
      <4>2. Cardinality(Events(q, s) \cup {p}) = npend[s] + 1
        <5>1. p \notin Events(q, s)
          BY <1>6
        <5>2. Cardinality(Events(q, s) \cup {p}) = Cardinality(Events(q, s)) + 1
          BY <3>1, <5>1, FS_AddElement
        <5> QED
          BY <3>1, <5>2
      <4> QED
        BY <1>6, <4>1, <4>2
    <3>3. s \in Simple => IsLast(q, s, pLastLog[s])'
      <4>1. s \in Simple => pLastLog'[s] = p
        BY <1>2 DEF LastLog, TypeOK, SubType
      <4> QED
        BY <1>7, <4>1
    <3>4. s \notin Simple => npend'[s] <= 1
      BY <3>1, <3>2 DEF Ignored
    <3> QED
      BY <2>1, <3>2, <3>3, <3>4, ev_que'[s] = q DEF SubCounts
  <2>2. CASE t # s
    <3>1. npend'[t] = npend[t] /\ pLastLog'[t] = pLastLog[t] /\ ev_que'[t] = ev_que[t]
      BY <1>2, <2>2 DEF TypeOK, SubType
    <3>2. ev_que[t] # 0 => ev_que[t] \in Que
      BY DEF TypeOK, SubType
    <3>3. SubCounts(t)
      BY DEF RingInv
    <3>4. ev_que[t] # 0 => /\ Events(ev_que[t], t)' = Events(ev_que[t], t)
                           /\ \A i : IsLast(ev_que[t], t, i)' <=> IsLast(ev_que[t], t, i)
      BY <1>6, <1>8, <2>2, <3>1, <3>2
    <3> QED
      BY <3>1, <3>3, <3>4 DEF SubCounts
  <2> QED
    BY <2>1, <2>2
<1> QED
  BY <1>5, <1>11, <1>12 DEF RingInv

(* A value that is put into an event of the ring changes no count.         *)
LEMMA PostCounts ==
  ASSUME TypeOK, RingInv, NEW s \in Sub, ev_que[s] \in Que, NEW v, Post(s, v)
  PROVE  RingInv'
<1>1. UNCHANGED <<ev_que, quota>>
  BY DEF Post, subVars
<1>2. CASE Ignored(s) /\ UNCHANGED <<ringVars, signalling>>
  BY <1>1, <1>2, RingKept DEF ringVars
<1>3. CASE Replace(s, v)
  BY <1>1, <1>3, RingKept DEF Replace
<1>4. CASE ~ Ignored(s) /\ AddEvent(s, v)
  BY <1>1, <1>4, AppendCounts
<1> QED
  BY <1>2, <1>3, <1>4 DEF Post

(* A placeholder is skipped.                                               *)
LEMMA SkipCounts ==
  ASSUME TypeOK, RingInv, SkipCanceled
  PROVE  RingInv'
<1> USE Names
<1> PICK q \in Que : q = taskQue
  BY DEF SkipCanceled, TypeOK, TaskType
<1> PICK p \in Slot : p = putix[q]
  BY Ends
<1> PICK g \in Slot : g = getix[q]
  BY Ends
<1>1. /\ evque[q][g] = canceledEvent
      /\ evque[q] \in [Slot -> Sub \cup {EVENTQEMPTY, canceledEvent}]
  BY DEF SkipCanceled, TypeOK, RingType
<1>2. /\ evque'[q] = [evque[q] EXCEPT ![g] = EVENTQEMPTY] /\ getix'[q] = RNGINC(g)
      /\ nCanceled'[q] = nCanceled[q] - 1
      /\ UNCHANGED <<putix, nDuplicates, quota, ev_que, npend, pLastLog>>
  BY DEF SkipCanceled, TypeOK, RingType, subVars
<1>3. \A r \in Que : r # q => /\ evque'[r] = evque[r] /\ getix'[r] = getix[r]
                              /\ nCanceled'[r] = nCanceled[r]
  BY DEF SkipCanceled, TypeOK, RingType
<1>4. Ring(evque'[q], RNGINC(g), p)
  <2>1. Ring(evque[q], g, p) /\ evque[q][g] # EVENTQEMPTY
    BY <1>1 DEF RingInv, Shape
  <2>2. Ring([evque[q] EXCEPT ![g] = EVENTQEMPTY], RNGINC(g), p)
    BY <1>1, <2>1, TakeRing
  <2> QED
    BY <1>2, <2>2
<1>5. \A r \in Que : Shape(r)'
  BY <1>2, <1>3, <1>4 DEF RingInv, Shape
<1>6. /\ Events(q, canceledEvent)' = Events(q, canceledEvent) \ {g}
      /\ g \in Events(q, canceledEvent)
      /\ \A r \in Que : \A t \in Sub \cup {canceledEvent} :
           r # q \/ t # canceledEvent => Events(r, t)' = Events(r, t)
  BY <1>1, <1>2, <1>3 DEF Events
<1>7. \A r \in Que : \A t \in Sub : \A i : IsLast(r, t, i)' <=> IsLast(r, t, i)
  <2>1. ASSUME NEW t \in Sub, NEW i, NEW j, i \in Events(q, t), j \in Events(q, t)
        PROVE  (Place(q, j) <= Place(q, i))' <=> Place(q, j) <= Place(q, i)
    <3>1. i \in Slot /\ j \in Slot /\ i # g /\ j # g
      BY <1>1, <2>1 DEF Events
    <3>2. At(g, i) \in Int /\ At(g, j) \in Int
      BY <3>1, Places
    <3>3. At(RNGINC(g), i) = At(g, i) - 1 /\ At(RNGINC(g), j) = At(g, j) - 1
      BY <3>1, Nearer
    <3>4. At(RNGINC(g), j) <= At(RNGINC(g), i) <=> At(g, j) <= At(g, i)
      BY <3>2, <3>3
    <3> QED
      BY <1>2, <3>4 DEF Place, At
  <2>2. ASSUME NEW r \in Que, NEW t \in Sub, NEW i
        PROVE  IsLast(r, t, i)' <=> IsLast(r, t, i)
    <3>1. Events(r, t)' = Events(r, t)
      BY <1>6
    <3>2. CASE r = q
      BY <2>1, <3>1, <3>2 DEF IsLast
    <3>3. CASE r # q
      BY <1>3, <3>1, <3>3 DEF IsLast, Place
    <3> QED
      BY <3>2, <3>3
  <2> QED
    BY <2>2
<1>8. \A r \in Que : Duplicates(r)' = Duplicates(r)
  <2>1. ASSUME NEW i \in Slot
        PROVE  i \in Duplicates(q)' <=> i \in Duplicates(q)
    BY <1>1, <1>2, <1>7 DEF Duplicates
  <2>2. Duplicates(q)' \subseteq Slot /\ Duplicates(q) \subseteq Slot
    BY DEF Duplicates
  <2>3. \A r \in Que : r # q => Duplicates(r)' = Duplicates(r)
    BY <1>3, <1>7 DEF Duplicates
  <2> QED
    BY <2>1, <2>2, <2>3
<1>9. nCanceled'[q] = Cardinality(Events(q, canceledEvent) \ {g})
  <2>1. Events(q, canceledEvent) \subseteq Slot /\ nCanceled[q] = Cardinality(Events(q, canceledEvent))
    BY DEF Events, RingInv, QueueCounts
  <2>2. IsFiniteSet(Events(q, canceledEvent)) /\ g \in Events(q, canceledEvent)
    BY <1>6, <2>1, SlotSets
  <2> QED
    BY <1>2, <2>1, <2>2, FS_RemoveElement
<1>10. ASSUME NEW r \in Que PROVE QueueCounts(r)'
  <2>1. OwnSubs(r)' = OwnSubs(r)
    BY <1>2 DEF OwnSubs
  <2>2. nCanceled'[r] = Cardinality(Events(r, canceledEvent)')
    BY <1>3, <1>6, <1>9 DEF RingInv, QueueCounts
  <2> QED
    BY <1>2, <1>8, <2>1, <2>2 DEF RingInv, QueueCounts
<1>11. ASSUME NEW t \in Sub PROVE SubCounts(t)'
  <2>1. ev_que[t] # 0 => ev_que[t] \in Que
    BY DEF TypeOK, SubType
  <2>2. SubCounts(t)
    BY DEF RingInv
  <2>3. ev_que[t] # 0 => /\ Events(ev_que[t], t)' = Events(ev_que[t], t)
                         /\ \A i : IsLast(ev_que[t], t, i)' <=> IsLast(ev_que[t], t, i)
    BY <1>2, <1>6, <1>7, <2>1
  <2> QED
    BY <1>2, <2>2, <2>3 DEF SubCounts
<1> QED
  BY <1>5, <1>10, <1>11 DEF RingInv

(* An event is taken: the first of its subscription's, and no longer a     *)
(* duplicate if there was another.                                         *)
LEMMA TakeCounts ==
  ASSUME TypeOK, UseInv, RingInv, TakeEvent
  PROVE  RingInv'
<1> USE Names
<1> PICK q \in Que : q = taskQue
  BY DEF TakeEvent, TypeOK, TaskType
<1> PICK p \in Slot : p = putix[q]
  BY Ends
<1> PICK g \in Slot : g = getix[q]
  BY Ends
<1> PICK s \in Sub : s = evque[q][g]
  BY DEF TakeEvent
<1>1. /\ evque[q] \in [Slot -> Sub \cup {EVENTQEMPTY, canceledEvent}]
      /\ ev_que[s] = q /\ q # 0 /\ npend[s] \in Int
  BY DEF TypeOK, RingType, SubType, UseInv, Owned
<1>2. /\ evque'[q] = [evque[q] EXCEPT ![g] = EVENTQEMPTY] /\ getix'[q] = RNGINC(g)
      /\ nDuplicates'[q] = nDuplicates[q] - IF npend[s] > 1 THEN 1 ELSE 0
      /\ npend' = [npend EXCEPT ![s] = @ - 1]
      /\ pLastLog' = [pLastLog EXCEPT ![s] = IF npend[s] > 1 THEN @ ELSE NoLog]
      /\ UNCHANGED <<putix, nCanceled, quota, ev_que>>
  BY DEF TakeEvent, TypeOK, RingType
<1>3. \A r \in Que : r # q => /\ evque'[r] = evque[r] /\ getix'[r] = getix[r]
                              /\ nDuplicates'[r] = nDuplicates[r]
  BY DEF TakeEvent, TypeOK, RingType
<1>4. Ring(evque'[q], RNGINC(g), p)
  <2>1. Ring(evque[q], g, p) /\ evque[q][g] # EVENTQEMPTY
    BY <1>1 DEF RingInv, Shape
  <2>2. Ring([evque[q] EXCEPT ![g] = EVENTQEMPTY], RNGINC(g), p)
    BY <1>1, <2>1, TakeRing
  <2> QED
    BY <1>2, <2>2
<1>5. \A r \in Que : Shape(r)'
  BY <1>2, <1>3, <1>4 DEF RingInv, Shape
<1>6. /\ Events(q, s)' = Events(q, s) \ {g} /\ g \in Events(q, s)
      /\ \A r \in Que : \A t \in Sub \cup {canceledEvent} :
           r # q \/ t # s => Events(r, t)' = Events(r, t)
  BY <1>1, <1>2, <1>3 DEF Events
<1>7. \A i : IsLast(q, s, i)' <=> IsLast(q, s, i) /\ i # g
  <2>1. ASSUME NEW i \in Slot, NEW j \in Slot, i # g, j # g
        PROVE  (Place(q, j) <= Place(q, i))' <=> Place(q, j) <= Place(q, i)
    <3>1. At(g, i) \in Int /\ At(g, j) \in Int
      BY Places
    <3>2. At(RNGINC(g), i) = At(g, i) - 1 /\ At(RNGINC(g), j) = At(g, j) - 1
      BY <2>1, Nearer
    <3>3. At(RNGINC(g), j) <= At(RNGINC(g), i) <=> At(g, j) <= At(g, i)
      BY <3>1, <3>2
    <3> QED
      BY <1>2, <3>3 DEF Place, At
  <2>2. \A i \in Slot : Place(q, g) <= Place(q, i)
    <3>1. \A i \in Slot : At(g, g) <= At(g, i)
      BY Places, QueueSize
    <3> QED
      BY <3>1 DEF Place, At
  <2>3. Events(q, s) \subseteq Slot
    BY DEF Events
  <2> QED
    BY <1>6, <2>1, <2>2, <2>3 DEF IsLast
<1>8. \A r \in Que : \A t \in Sub : r # q \/ t # s =>
        \A i : IsLast(r, t, i)' <=> IsLast(r, t, i)
  <2>1. ASSUME NEW t \in Sub, t # s, NEW i, NEW j, i \in Events(q, t), j \in Events(q, t)
        PROVE  (Place(q, j) <= Place(q, i))' <=> Place(q, j) <= Place(q, i)
    <3>1. i \in Slot /\ j \in Slot /\ i # g /\ j # g
      BY <1>1, <2>1 DEF Events
    <3>2. At(g, i) \in Int /\ At(g, j) \in Int
      BY <3>1, Places
    <3>3. At(RNGINC(g), i) = At(g, i) - 1 /\ At(RNGINC(g), j) = At(g, j) - 1
      BY <3>1, Nearer
    <3>4. At(RNGINC(g), j) <= At(RNGINC(g), i) <=> At(g, j) <= At(g, i)
      BY <3>2, <3>3
    <3> QED
      BY <1>2, <3>4 DEF Place, At
  <2>2. ASSUME NEW r \in Que, NEW t \in Sub, r # q \/ t # s, NEW i
        PROVE  IsLast(r, t, i)' <=> IsLast(r, t, i)
    <3>1. Events(r, t)' = Events(r, t)
      BY <1>6, <2>2
    <3>2. CASE r = q
      BY <2>1, <2>2, <3>1, <3>2 DEF IsLast
    <3>3. CASE r # q
      BY <1>3, <3>1, <3>3 DEF IsLast, Place
    <3> QED
      BY <3>2, <3>3
  <2> QED
    BY <2>2
<1>9. /\ Duplicates(q)' = Duplicates(q) \ {g}
      /\ \A r \in Que : r # q => Duplicates(r)' = Duplicates(r)
  <2>1. ASSUME NEW i \in Slot
        PROVE  i \in Duplicates(q)' <=> i \in Duplicates(q) \ {g}
    <3>1. CASE i = g
      BY <1>1, <1>2, <3>1 DEF Duplicates
    <3>2. CASE i # g /\ evque[q][i] = s
      BY <1>1, <1>2, <1>7, <3>2 DEF Duplicates
    <3>3. CASE i # g /\ evque[q][i] # s
      BY <1>1, <1>2, <1>8, <3>3 DEF Duplicates
    <3> QED
      BY <3>1, <3>2, <3>3
  <2>2. Duplicates(q)' \subseteq Slot /\ Duplicates(q) \subseteq Slot
    BY DEF Duplicates
  <2>3. \A r \in Que : r # q => Duplicates(r)' = Duplicates(r)
    BY <1>3, <1>8 DEF Duplicates
  <2> QED
    BY <2>1, <2>2, <2>3
<1>10. /\ Events(q, s) \subseteq Slot /\ IsFiniteSet(Events(q, s))
       /\ npend[s] = Cardinality(Events(q, s)) /\ npend[s] \in Nat
       /\ Cardinality(Events(q, s)') = npend[s] - 1
       /\ npend[s] - 1 \in Nat
  <2>1. Events(q, s) \subseteq Slot /\ npend[s] = Cardinality(Events(q, s))
    BY <1>1 DEF Events, RingInv, SubCounts
  <2>2. IsFiniteSet(Events(q, s)) /\ npend[s] \in Nat
    BY <2>1, SlotSets
  <2>3. g \in Events(q, s)
    BY <1>6
  <2>4. Cardinality(Events(q, s) \ {g}) = Cardinality(Events(q, s)) - 1
    BY <2>2, <2>3, FS_RemoveElement
  <2>5. Cardinality(Events(q, s) \ {g}) \in Nat
    BY <2>1, SlotSets
  <2> QED
    BY <1>6, <2>1, <2>2, <2>4, <2>5
<1>11. g \in Duplicates(q) <=> npend[s] > 1
  <2>1. g \in Duplicates(q) <=> \E j \in Events(q, s) : j # g
    <3>1. \A j \in Events(q, s) : j \in Slot
      BY DEF Events
    <3>2. \A j \in Slot : At(g, j) <= At(g, g) <=> j = g
      BY Places, QueueSize
    <3>3. \A j \in Events(q, s) : Place(q, j) <= Place(q, g) <=> j = g
      BY <3>1, <3>2 DEF Place, At
    <3>4. IsLast(q, s, g) <=> \A j \in Events(q, s) : j = g
      BY <1>6, <3>3 DEF IsLast
    <3> QED
      BY <1>1, <3>4 DEF Duplicates
  <2>2. (\E j \in Events(q, s) : j # g) <=> Events(q, s) \ {g} # {}
    OBVIOUS
  <2>3. Cardinality(Events(q, s) \ {g}) = 0 <=> Events(q, s) \ {g} = {}
    <3>1. IsFiniteSet(Events(q, s) \ {g})
      BY <1>10, SlotSets
    <3> QED
      BY <3>1, FS_EmptySet
  <2>4. Cardinality(Events(q, s) \ {g}) = npend[s] - 1
    BY <1>6, <1>10
  <2> QED
    BY <1>10, <2>1, <2>2, <2>3, <2>4
<1>12. Cardinality(Duplicates(q) \ {g}) = nDuplicates'[q]
  <2>1. Duplicates(q) \subseteq Slot /\ nDuplicates[q] = Cardinality(Duplicates(q))
    BY DEF Duplicates, RingInv, QueueCounts
  <2>2. IsFiniteSet(Duplicates(q)) /\ Cardinality(Duplicates(q)) \in Nat
    BY <2>1, SlotSets
  <2>3. Cardinality(Duplicates(q) \ {g})
        = IF g \in Duplicates(q) THEN Cardinality(Duplicates(q)) - 1 ELSE Cardinality(Duplicates(q))
    BY <2>2, FS_RemoveElement
  <2> QED
    BY <1>2, <1>11, <2>1, <2>2, <2>3
<1>13. ASSUME NEW r \in Que PROVE QueueCounts(r)'
  <2>1. OwnSubs(r)' = OwnSubs(r) /\ Events(r, canceledEvent)' = Events(r, canceledEvent)
    BY <1>2, <1>6 DEF OwnSubs
  <2>2. nDuplicates'[r] = Cardinality(Duplicates(r)')
    BY <1>3, <1>9, <1>12 DEF RingInv, QueueCounts
  <2> QED
    BY <1>2, <2>1, <2>2 DEF RingInv, QueueCounts
<1>14. ASSUME NEW t \in Sub PROVE SubCounts(t)'
  <2>1. SubCounts(t)
    BY DEF RingInv
  <2>2. CASE t = s
    <3>1. npend'[s] = npend[s] - 1
      BY <1>2 DEF TypeOK, SubType
    <3>2. npend'[s] > 0 => pLastLog'[s] = pLastLog[s] /\ npend[s] > 1
      BY <1>2, <1>10, <3>1 DEF TypeOK, SubType
    <3>3. npend[s] > 1 => ~ IsLast(q, s, g)
      BY <1>1, <1>11 DEF Duplicates
    <3>4. s \in Simple /\ npend'[s] > 0 => IsLast(q, s, pLastLog[s])'
      BY <1>1, <1>7, <1>10, <2>1, <2>2, <3>2, <3>3 DEF SubCounts
    <3>5. s \notin Simple => npend'[s] <= 1
      BY <1>10, <2>1, <2>2, <3>1 DEF SubCounts
    <3> QED
      BY <1>1, <1>2, <1>10, <2>2, <3>1, <3>4, <3>5 DEF SubCounts
  <2>3. CASE t # s
    <3>1. npend'[t] = npend[t] /\ pLastLog'[t] = pLastLog[t] /\ ev_que'[t] = ev_que[t]
      BY <1>2, <2>3 DEF TypeOK, SubType
    <3>2. ev_que[t] # 0 => ev_que[t] \in Que
      BY DEF TypeOK, SubType
    <3>3. ev_que[t] # 0 => /\ Events(ev_que[t], t)' = Events(ev_que[t], t)
                           /\ \A i : IsLast(ev_que[t], t, i)' <=> IsLast(ev_que[t], t, i)
      BY <1>6, <1>8, <2>3, <3>1, <3>2
    <3> QED
      BY <2>1, <3>1, <3>3 DEF SubCounts
  <2> QED
    BY <2>2, <2>3
<1> QED
  BY <1>5, <1>13, <1>14 DEF RingInv

(* A purge makes placeholders of the events of a subscription, all but the *)
(* last of which were duplicates.                                          *)
LEMMA PurgeCounts ==
  ASSUME TypeOK, RingInv, NEW s \in Sub, ev_que[s] \in Que, Purge(s)
  PROVE  RingInv'
<1> USE Names
<1> PICK q \in Que : q = ev_que[s]
  OBVIOUS
<1>1. /\ evque[q] \in [Slot -> Sub \cup {EVENTQEMPTY, canceledEvent}]
      /\ q # 0 /\ npend[s] \in Int
  BY DEF TypeOK, RingType, SubType
<1>2. /\ evque'[q] = [i \in Slot |-> IF evque[q][i] = s THEN canceledEvent ELSE evque[q][i]]
      /\ nCanceled'[q] = nCanceled[q] + npend[s]
      /\ nDuplicates'[q] = nDuplicates[q] - DuplicatesOf(s)
      /\ npend' = [npend EXCEPT ![s] = 0]
      /\ pLastLog' = [pLastLog EXCEPT ![s] = NoLog]
      /\ UNCHANGED <<putix, getix, quota, ev_que>>
  BY DEF Purge, Mine, TypeOK, RingType
<1>3. \A r \in Que : r # q => /\ evque'[r] = evque[r] /\ nCanceled'[r] = nCanceled[r]
                              /\ nDuplicates'[r] = nDuplicates[r]
  BY DEF Purge, TypeOK, RingType
<1>4. \A r \in Que : Shape(r)'
  <2>1. \A i \in Slot : evque'[q][i] # EVENTQEMPTY <=> evque[q][i] # EVENTQEMPTY
    BY <1>2
  <2>2. ASSUME NEW r \in Que PROVE Shape(r)'
    <3>1. Ring(evque[r], getix[r], putix[r]) /\ putix[r] \in Slot
      BY Ends DEF RingInv, Shape
    <3>2. Ring(evque'[r], getix[r], putix[r])
      BY <1>3, <2>1, <3>1 DEF Ring
    <3> QED
      BY <1>2, <3>2 DEF Shape
  <2> QED
    BY <2>2
<1>5. /\ Events(q, s)' = {}
      /\ Events(q, canceledEvent)' = Events(q, canceledEvent) \cup Events(q, s)
      /\ Events(q, canceledEvent) \cap Events(q, s) = {}
      /\ \A r \in Que : \A t \in Sub :
           r # q \/ t # s => Events(r, t)' = Events(r, t)
      /\ \A r \in Que : r # q => Events(r, canceledEvent)' = Events(r, canceledEvent)
  BY <1>1, <1>2, <1>3 DEF Events
<1>6. \A r \in Que : \A t \in Sub : r # q \/ t # s =>
        \A i : IsLast(r, t, i)' <=> IsLast(r, t, i)
  BY <1>2, <1>5 DEF IsLast, Place
<1>7. /\ Duplicates(q)' = Duplicates(q) \ Events(q, s)
      /\ \A r \in Que : r # q => Duplicates(r)' = Duplicates(r)
  <2>1. ASSUME NEW i \in Slot
        PROVE  i \in Duplicates(q)' <=> i \in Duplicates(q) \ Events(q, s)
    <3>1. CASE evque[q][i] = s
      BY <1>2, <3>1 DEF Duplicates, Events
    <3>2. CASE evque[q][i] # s
      BY <1>1, <1>2, <1>6, <3>2 DEF Duplicates, Events
    <3> QED
      BY <3>1, <3>2
  <2>2. Duplicates(q)' \subseteq Slot /\ Duplicates(q) \subseteq Slot
    BY DEF Duplicates
  <2>3. \A r \in Que : r # q => Duplicates(r)' = Duplicates(r)
    BY <1>3, <1>6 DEF Duplicates
  <2> QED
    BY <2>1, <2>2, <2>3
<1>8. /\ Events(q, s) \subseteq Slot /\ IsFiniteSet(Events(q, s))
      /\ npend[s] = Cardinality(Events(q, s)) /\ npend[s] \in Nat
  <2>1. Events(q, s) \subseteq Slot /\ npend[s] = Cardinality(Events(q, s))
    BY <1>1 DEF Events, RingInv, SubCounts
  <2> QED
    BY <2>1, SlotSets
<1>9. nCanceled'[q] = Cardinality(Events(q, canceledEvent) \cup Events(q, s))
  <2>1. /\ Events(q, canceledEvent) \subseteq Slot
        /\ nCanceled[q] = Cardinality(Events(q, canceledEvent))
    BY DEF Events, RingInv, QueueCounts
  <2>2. IsFiniteSet(Events(q, canceledEvent)) /\ nCanceled[q] \in Nat
    BY <2>1, SlotSets
  <2>3. Cardinality({}) = 0
    BY FS_EmptySet
  <2>4. Cardinality(Events(q, canceledEvent) \cup Events(q, s))
        = Cardinality(Events(q, canceledEvent)) + Cardinality(Events(q, s))
          - Cardinality(Events(q, canceledEvent) \cap Events(q, s))
    BY <1>8, <2>2, FS_Union
  <2>5. Cardinality(Events(q, canceledEvent) \cap Events(q, s)) = 0
    BY <1>5, <2>3
  <2> QED
    BY <1>2, <1>8, <2>1, <2>2, <2>4, <2>5
<1>10. Cardinality(Duplicates(q) \cap Events(q, s)) = DuplicatesOf(s)
  <2>1. CASE npend[s] = 0
    <3>1. Events(q, s) = {}
      BY <1>8, <2>1, FS_EmptySet
    <3>2. Duplicates(q) \cap Events(q, s) = {}
      BY <3>1
    <3>3. Cardinality({}) = 0 /\ DuplicatesOf(s) = 0
      BY <2>1, FS_EmptySet DEF DuplicatesOf
    <3> QED
      BY <3>2, <3>3
  <2>2. ASSUME npend[s] > 0, NEW l, IsLast(q, s, l) PROVE Cardinality(Duplicates(q) \cap Events(q, s)) = DuplicatesOf(s)
    <3>1. l \in Events(q, s) /\ \A i \in Events(q, s) : IsLast(q, s, i) <=> i = l
      BY <2>2, OneLast DEF IsLast
    <3>2. Duplicates(q) \cap Events(q, s) = Events(q, s) \ {l}
      BY <3>1 DEF Duplicates, Events
    <3>3. Cardinality(Events(q, s) \ {l}) = Cardinality(Events(q, s)) - 1
      BY <1>8, <3>1, FS_RemoveElement
    <3>4. DuplicatesOf(s) = npend[s] - 1
      BY <1>8, <2>2 DEF DuplicatesOf
    <3> QED
      BY <1>8, <3>2, <3>3, <3>4
  <2>3. CASE npend[s] > 0 /\ s \in Simple
    BY <1>1, <2>2, <2>3 DEF RingInv, SubCounts
  <2>4. CASE npend[s] > 0 /\ s \notin Simple
    <3>1. npend[s] = 1
      BY <1>8, <2>4 DEF RingInv, SubCounts
    <3>2. PICK l : Events(q, s) = {l}
      BY <1>8, <3>1, FS_Singleton
    <3>3. IsLast(q, s, l)
      <4>1. l \in Slot
        BY <1>8, <3>2
      <4>2. At(getix[q], l) <= At(getix[q], l)
        BY <4>1, Ends, Places
      <4> QED
        BY <3>2, <4>2 DEF IsLast, Place, At
    <3> QED
      BY <2>2, <2>4, <3>3
  <2> QED
    BY <1>8, <2>1, <2>3, <2>4
<1>11. nDuplicates'[q] = Cardinality(Duplicates(q) \ Events(q, s))
  <2>1. Duplicates(q) \subseteq Slot /\ nDuplicates[q] = Cardinality(Duplicates(q))
    BY DEF Duplicates, RingInv, QueueCounts
  <2>2. IsFiniteSet(Duplicates(q))
    BY <2>1, SlotSets
  <2>3. Cardinality(Duplicates(q) \ Events(q, s))
        = Cardinality(Duplicates(q)) - Cardinality(Duplicates(q) \cap Events(q, s))
    BY <2>2, FS_Difference
  <2> QED
    BY <1>2, <1>10, <2>1, <2>3
<1>12. ASSUME NEW r \in Que PROVE QueueCounts(r)'
  <2>1. OwnSubs(r)' = OwnSubs(r)
    BY <1>2 DEF OwnSubs
  <2>2. nDuplicates'[r] = Cardinality(Duplicates(r)')
    BY <1>3, <1>7, <1>11 DEF RingInv, QueueCounts
  <2>3. nCanceled'[r] = Cardinality(Events(r, canceledEvent)')
    BY <1>3, <1>5, <1>9 DEF RingInv, QueueCounts
  <2> QED
    BY <1>2, <2>1, <2>2, <2>3 DEF RingInv, QueueCounts
<1>13. ASSUME NEW t \in Sub PROVE SubCounts(t)'
  <2>1. CASE t = s
    <3>1. npend'[s] = 0 /\ Cardinality({}) = 0
      BY <1>2, FS_EmptySet DEF TypeOK, SubType
    <3>2. SubCounts(s)'
      BY <1>2, <1>5, <3>1 DEF SubCounts
    <3> QED
      BY <2>1, <3>2, Zenon
  <2>2. CASE t # s
    <3>1. npend'[t] = npend[t] /\ pLastLog'[t] = pLastLog[t] /\ ev_que'[t] = ev_que[t]
      BY <1>2, <2>2 DEF TypeOK, SubType
    <3>2. ev_que[t] # 0 => ev_que[t] \in Que
      BY DEF TypeOK, SubType
    <3>3. SubCounts(t)
      BY DEF RingInv
    <3>4. ev_que[t] # 0 => /\ Events(ev_que[t], t)' = Events(ev_que[t], t)
                           /\ \A i : IsLast(ev_que[t], t, i)' <=> IsLast(ev_que[t], t, i)
      BY <1>5, <1>6, <2>2, <3>1, <3>2
    <3> QED
      BY <3>1, <3>3, <3>4 DEF SubCounts
  <2> QED
    BY <2>1, <2>2
<1> QED
  BY <1>4, <1>12, <1>13 DEF RingInv

(* Subscriptions that come and go change the quota of their queue.         *)
LEMMA QuotaCounts ==
  ASSUME TypeOK, RingInv, NEW s \in Sub, NEW q \in Que,
         UNCHANGED <<evque, putix, getix, nDuplicates, nCanceled, npend, pLastLog>>,
         npend[s] = 0, Events(q, s) = {},
         \/ /\ ev_que[s] = 0 /\ ev_que' = [ev_que EXCEPT ![s] = q]
            /\ quota' = [quota EXCEPT ![q] = @ + EVENTENTRIES]
         \/ /\ ev_que[s] = q /\ ev_que' = [ev_que EXCEPT ![s] = 0]
            /\ quota' = [quota EXCEPT ![q] = @ - EVENTENTRIES]
  PROVE  RingInv'
<1> USE Names
<1>1. /\ EVENTENTRIES \in Nat /\ IsFiniteSet(Sub) /\ OwnSubs(q) \subseteq Sub
      /\ ev_que \in [Sub -> Que \cup {0}] /\ quota \in [Que -> Int]
  <2>1. IsFiniteSet(Sub)
    BY EventQueueAssumption, FS_Interval DEF Sub
  <2> QED
    BY <2>1, EventQueueAssumption DEF OwnSubs, TypeOK, RingType, SubType
<1>2. IsFiniteSet(OwnSubs(q)) /\ Cardinality(OwnSubs(q)) \in Nat
  BY <1>1, FS_Subset, FS_CardinalityType
<1>3. \A r \in Que : r # q => OwnSubs(r)' = OwnSubs(r) /\ quota'[r] = quota[r]
  BY <1>1 DEF OwnSubs
<1>4. quota'[q] = EVENTENTRIES * Cardinality(OwnSubs(q)')
  <2>1. quota[q] = EVENTENTRIES * Cardinality(OwnSubs(q))
    BY DEF RingInv, QueueCounts
  <2>2. CASE ev_que[s] = 0
    <3>1. OwnSubs(q)' = OwnSubs(q) \cup {s} /\ s \notin OwnSubs(q)
      BY <1>1, <2>2 DEF OwnSubs
    <3>2. Cardinality(OwnSubs(q) \cup {s}) = Cardinality(OwnSubs(q)) + 1
      BY <1>2, <3>1, FS_AddElement
    <3>3. quota'[q] = EVENTENTRIES * Cardinality(OwnSubs(q)) + EVENTENTRIES
      BY <1>1, <2>1, <2>2
    <3>4. \A n \in Nat : EVENTENTRIES * n + EVENTENTRIES = EVENTENTRIES * (n + 1)
      BY <1>1
    <3> QED
      BY <1>2, <3>1, <3>2, <3>3, <3>4
  <2>3. CASE ev_que[s] = q
    <3>1. OwnSubs(q)' = OwnSubs(q) \ {s} /\ s \in OwnSubs(q)
      BY <1>1, <2>3 DEF OwnSubs
    <3>2. Cardinality(OwnSubs(q) \ {s}) = Cardinality(OwnSubs(q)) - 1
      BY <1>2, <3>1, FS_RemoveElement
    <3>3. quota'[q] = EVENTENTRIES * Cardinality(OwnSubs(q)) - EVENTENTRIES
      BY <1>1, <2>1, <2>3
    <3>4. \A n \in Nat : EVENTENTRIES * n - EVENTENTRIES = EVENTENTRIES * (n - 1)
      BY <1>1
    <3> QED
      BY <1>2, <3>1, <3>2, <3>3, <3>4
  <2> QED
    BY <2>2, <2>3
<1>5. \A r \in Que : /\ Shape(r)' /\ Duplicates(r)' = Duplicates(r)
                     /\ \A t : Events(r, t)' = Events(r, t)
                     /\ \A t, i : IsLast(r, t, i)' <=> IsLast(r, t, i)
  BY DEF RingInv, Shape, Ring, Duplicates, Events, IsLast, Place
<1>6. ASSUME NEW r \in Que PROVE QueueCounts(r)'
  BY <1>3, <1>4, <1>5 DEF RingInv, QueueCounts
<1>7. ASSUME NEW t \in Sub PROVE SubCounts(t)'
  <2>1. CASE t = s
    <3>1. Events(q, s)' = {} /\ Cardinality({}) = 0
      BY <1>5, FS_EmptySet
    <3>2. npend'[s] = 0 /\ (ev_que'[s] # 0 => ev_que'[s] = q)
      BY <1>1
    <3> QED
      BY <2>1, <3>1, <3>2 DEF SubCounts
  <2>2. CASE t # s
    <3>1. ev_que'[t] = ev_que[t] /\ (ev_que[t] # 0 => ev_que[t] \in Que)
      BY <1>1, <2>2
    <3>2. ev_que[t] # 0 => /\ Events(ev_que[t], t)' = Events(ev_que[t], t)
                           /\ \A i : IsLast(ev_que[t], t, i)' <=> IsLast(ev_que[t], t, i)
      BY <1>5, <3>1
    <3>3. SubCounts(t)
      BY DEF RingInv
    <3> QED
      BY <3>1, <3>2, <3>3 DEF SubCounts
  <2> QED
    BY <2>1, <2>2
<1> QED
  BY <1>5, <1>6, <1>7 DEF RingInv

-----------------------------------------------------------------------------
(* The rings are empty at the start.                                       *)
LEMMA RingInit == Init => RingInv
<1> SUFFICES ASSUME Init PROVE RingInv
  OBVIOUS
<1> USE Names
<1>1. Start \in Slot /\ EVENTENTRIES \in Nat /\ Cardinality({}) = 0
  BY EventQueueAssumption, FS_EmptySet
<1>2. ASSUME NEW q \in Que PROVE Shape(q) /\ QueueCounts(q)
  <2>1. Shape(q)
    <3>1. \A i \in Slot : ~ At(Start, i) < At(Start, Start)
      BY <1>1, Places, QueueSize
    <3> QED
      BY <1>1, <3>1 DEF Init, QueueInit, Shape, Ring
  <2>2. OwnSubs(q) = {} /\ Events(q, canceledEvent) = {} /\ Duplicates(q) = {}
    BY DEF Init, QueueInit, OwnSubs, Events, Duplicates
  <2>3. quota[q] = 0 /\ nCanceled[q] = 0 /\ nDuplicates[q] = 0
    BY DEF Init, QueueInit
  <2> QED
    BY <1>1, <2>1, <2>2, <2>3 DEF QueueCounts
<1>3. ASSUME NEW s \in Sub PROVE SubCounts(s)
  BY DEF Init, QueueInit, SubCounts
<1> QED
  BY <1>2, <1>3 DEF RingInv

(* Every step keeps the rings.                                             *)
LEMMA RingStep ==
  ASSUME TypeOK, UseInv, RingInv, [Next]_vars
  PROVE  RingInv'
<1> USE DEF ringVars, subVars, semVars, modeVars, taskVars, recordVars, serveVars, historyVars
<1>1. ASSUME NEW s \in Sub, Change(s) PROVE RingInv'
  <2>1. CASE enabled[s]
    BY <1>1, <2>1, PostCounts DEF Change, PostAndNote, UseInv, Ours
  <2>2. CASE ~ enabled[s]
    BY <1>1, <2>2, RingKept DEF Change, queueVars
  <2> QED
    BY <2>1, <2>2
<1>2. CASE PostFirst
  BY <1>2, PostCounts DEF PostFirst, PostAndNote, UseInv, Serving
<1>3. ASSUME NEW s \in Sub, Subscribe(s) PROVE RingInv'
  <2>1. PICK q \in Que : /\ ev_que[s] = 0 /\ ev_que' = [ev_que EXCEPT ![s] = q]
                         /\ quota' = [quota EXCEPT ![q] = @ + EVENTENTRIES]
    BY <1>3 DEF Subscribe, db_add_event
  <2>2. npend[s] = 0 /\ Events(q, s) = {}
    <3>1. npend[s] = 0
      BY <2>1 DEF RingInv, SubCounts
    <3>2. \A i \in Slot : evque[q][i] # s
      BY <2>1, Names DEF UseInv, Owned
    <3> QED
      BY <3>1, <3>2 DEF Events
  <2>3. UNCHANGED <<evque, putix, getix, nDuplicates, nCanceled, npend, pLastLog>>
    BY <1>3 DEF Subscribe, db_add_event
  <2> QED
    BY <2>1, <2>2, <2>3, QuotaCounts
<1>4. ASSUME NEW s \in Sub, Unsubscribe(s) PROVE RingInv'
  BY <1>4, RingKept DEF Unsubscribe, SetEnabled
<1>5. CASE FlowOn \/ FlowOff
  BY <1>5, RingKept DEF FlowOn, FlowOff, FlowControl
<1>6. CASE Close
  BY <1>6, RingKept DEF Close, db_close_events
<1>7. CASE Enable
  BY <1>7, RingKept DEF Enable, SetEnabled
<1>8. CASE PurgeEvents
  BY <1>8, PurgeCounts DEF PurgeEvents, UseInv, Serving
<1>9. CASE Flushed
  BY <1>9, RingKept DEF Flushed, WaitFlush
<1>10. CASE Freed /\ MustWait(csub)
  BY <1>10, RingKept DEF Freed, queueVars
<1>11. CASE Freed /\ ~ MustWait(csub)
  <2>1. csub \in Sub /\ ev_que[csub] \in Que /\ cpc = "free"
    BY <1>11 DEF Freed, UseInv, Serving
  <2>2. PICK q \in Que : q = ev_que[csub]
    BY <2>1
  <2>3. /\ quota' = [quota EXCEPT ![q] = @ - EVENTENTRIES]
        /\ ev_que' = [ev_que EXCEPT ![csub] = 0]
        /\ UNCHANGED <<evque, putix, getix, nDuplicates, nCanceled, npend, pLastLog>>
    BY <1>11, <2>2 DEF Freed, Free
  <2>4. Events(q, csub) = {}
    BY <2>1 DEF UseInv, Owned, Events
  <2>5. npend[csub] = 0
    BY <2>1, <2>2, <2>4, Names, FS_EmptySet DEF RingInv, SubCounts
  <2> QED
    BY <2>1, <2>2, <2>3, <2>4, <2>5, QuotaCounts
<1>12. CASE Wake \/ EndOfList \/ SkipQueue \/ LockQueue \/ EndOfQueue \/ CallbackReturns
  BY <1>12, RingKept
  DEF Wake, EndOfList, SkipQueue, LockQueue, EndOfQueue, CallbackReturns
<1>13. CASE SkipCanceled
  BY <1>13, SkipCounts
<1>14. CASE TakeEvent
  BY <1>14, TakeCounts
<1>15. CASE read_reply
  BY <1>15, RingKept DEF read_reply, CallbackRuns
<1>16. ASSUME NEW c \in Sub \cup {0}, Signals(c) PROVE RingInv'
  BY <1>16, RingKept DEF Signals, Signal
<1>17. CASE UNCHANGED vars
  BY <1>17, RingKept DEF vars, queueVars
<1>18. CASE SendBatch
  BY <1>18, RingKept DEF SendBatch, queueVars
<1> QED
  BY <1>1, <1>2, <1>3, <1>4, <1>5, <1>6, <1>7, <1>8, <1>9, <1>10, <1>11, <1>12,
     <1>13, <1>14, <1>15, <1>16, <1>17, <1>18
  DEF Next, Proceed, event_task, Walk

(* A ring is what Contiguous says of it.                                   *)
LEMMA RingIsContiguous ==
  ASSUME TypeOK, NEW q \in Que, Shape(q)
  PROVE  Contiguous(q)
<1> PICK p \in Slot : p = putix[q]
  BY Ends
<1> PICK g \in Slot : g = getix[q]
  BY Ends
<1>1. \A i \in Slot : Place(q, i) = At(g, i) /\ At(g, i) \in 0 .. EVENTQUESIZE - 1
  BY Places DEF Place, At
<1>2. CASE evque[q][p] # EVENTQEMPTY
  <2>1. EVENTQUESIZE - ringSpace(q) = EVENTQUESIZE
    BY <1>2, QueueSize DEF ringSpace
  <2> QED
    BY <1>1, <1>2, <2>1, QueueSize DEF Shape, Ring, Contiguous
<1>3. CASE evque[q][p] = EVENTQEMPTY
  <2>1. EVENTQUESIZE - ringSpace(q) = At(g, p)
    <3>1. p \in Int /\ g \in Int /\ EVENTQUESIZE \in Int
      BY QueueSize DEF Slot
    <3>2. CASE g > p
      BY <1>3, <3>1, <3>2 DEF ringSpace, At
    <3>3. CASE ~ g > p
      BY <1>3, <3>1, <3>3 DEF ringSpace, At
    <3> QED
      BY <3>2, <3>3
  <2> QED
    BY <1>1, <1>3, <2>1 DEF Shape, Ring, Contiguous
<1> QED
  BY <1>2, <1>3

(* The events of a ring are the slots from getix up to putix, and quota,   *)
(* nCanceled, nDuplicates, npend and pLastLog say what the code takes them *)
(* to say.                                                                 *)
THEOREM MonitorsRingSound == Spec => []RingSound
<1>1. Init => TypeOK /\ UseInv /\ RingInv
  BY TypeInit, UseInit, RingInit
<1>2. TypeOK /\ UseInv /\ RingInv /\ [Next]_vars => TypeOK' /\ UseInv' /\ RingInv'
  BY UseStep, RingStep
<1>3. TypeOK /\ RingInv => RingSound
  <2> SUFFICES ASSUME TypeOK, RingInv PROVE RingSound
    OBVIOUS
  <2>1. \A q \in Que : Contiguous(q)
    BY RingIsContiguous DEF RingInv
  <2>2. \A s \in OwnSubs(0) : npend[s] = 0
    BY DEF RingInv, SubCounts, OwnSubs
  <2>3. ASSUME NEW q \in Que, NEW s \in OwnSubs(q)
        PROVE  /\ npend[s] = Cardinality(Events(q, s))
               /\ s \in Simple /\ npend[s] > 0 => IsLast(q, s, pLastLog[s])
    BY <2>3, Names DEF RingInv, SubCounts, OwnSubs
  <2> QED
    BY <2>1, <2>2, <2>3 DEF RingSound, RingInv, QueueCounts
<1> QED
  BY <1>1, <1>2, <1>3, PTL DEF Spec

=============================================================================
