--------------------------- MODULE CasUpdatesProofs ---------------------------
(***************************************************************************)
(* The updates of CasMonitors.  None is left behind: event_task is woken   *)
(* for every event there is, and the last change of a channel is an event, *)
(* or has been delivered.  And they come in their order: each subscription *)
(* is a Monitor.                                                           *)
(***************************************************************************)
EXTENDS CasMonitorsProofs

(* A queue that event_task has gone past, or that it will not look at      *)
(* before it is woken.                                                     *)
Passed(q) == task = "wait" \/ q < taskQue

Signalled == ppendsem \/ signalling # {}

WakeInv ==
  /\ \A q \in Que : Passed(q) /\ Readable(q) => Signalled
  /\ task = "wait" /\ pendexit => Signalled

(* A subscription whose changes are posted, or will be when it is enabled. *)
Watched(s) == enabled[s] \/ (cpc = "enable" /\ csub = s)

DueInv ==
  \A s \in Sub :
    /\ Watched(s) \/ (cpc = "post" /\ csub = s) => user_sub[s]
    /\ Watched(s) /\ ~ missed[s] => Newest(s) = val[s]

-----------------------------------------------------------------------------
(* Steps that leave the rings and the queue event_task looks at alone.     *)
LEMMA WakeKept ==
  ASSUME WakeInv, UNCHANGED <<evque, getix, nDuplicates, flowCtrlMode, pendexit,
                              ppendsem, task, taskQue, signalling>>
  PROVE  WakeInv'
BY DEF WakeInv, Passed, Readable, Suspended, Signalled

(* A poster signals if the ring was empty; if it was not, event_task is    *)
(* not done with it, or is held by flow control, under which no duplicate  *)
(* is made.                                                                *)
LEMMA PostWakes ==
  ASSUME TypeOK, RingInv, WakeInv, NEW s \in Sub, ev_que[s] \in Que, NEW v, Post(s, v)
  PROVE  WakeInv'
<1> USE DEF ringVars, subVars, modeVars, taskVars
<1>1. CASE Ignored(s) /\ UNCHANGED <<ringVars, signalling>>
  BY <1>1, WakeKept DEF Post
<1>2. CASE Replace(s, v)
  BY <1>2, WakeKept DEF Post, Replace
<1>3. CASE ~ Ignored(s) /\ ~ Replaces(s) /\ AddEvent(s, v)
  <2> PICK q \in Que : q = ev_que[s]
    OBVIOUS
  <2> PICK p \in Slot : p = putix[q]
    BY Ends
  <2> PICK g \in Slot : g = getix[q]
    BY Ends
  <2>1. /\ UNCHANGED <<getix, flowCtrlMode, pendexit, ppendsem, task, taskQue>>
        /\ signalling \subseteq signalling'
        /\ \A r \in Que : r # q => evque'[r] = evque[r] /\ nDuplicates'[r] = nDuplicates[r]
    BY <1>3 DEF Post, AddEvent, TypeOK, RingType
  <2>2. Signalled => Signalled'
    BY <2>1 DEF Signalled
  <2>3. ASSUME NEW r \in Que, r # q, Passed(r)', Readable(r)' PROVE Signalled'
    BY <2>1, <2>2, <2>3 DEF WakeInv, Passed, Readable, Suspended
  <2>4. ASSUME Passed(q)', Readable(q)' PROVE Signalled'
    <3>1. CASE evque[q][g] = EVENTQEMPTY
      <4>1. At(g, g) = 0 /\ At(g, p) \in 0 .. EVENTQUESIZE - 1 /\ (At(g, p) = 0 <=> p = g)
        BY Places
      <4>2. evque[q][p] = EVENTQEMPTY /\ p = g
        BY <3>1, <4>1, QueueSize DEF RingInv, Shape, Ring
      <4>3. FirstEvent(q)
        <5>1. g \in Int /\ EVENTQUESIZE \in Int
          BY QueueSize DEF Slot
        <5> QED
          BY <4>2, <5>1 DEF FirstEvent, ringSpace
      <4> QED
        BY <1>3, <4>3 DEF AddEvent, Signalled
    <3>2. CASE evque[q][g] # EVENTQEMPTY
      <4>1. flowCtrlMode => nDuplicates'[q] = nDuplicates[q]
        BY <1>3 DEF Ignored, Replaces, AddEvent, TypeOK, RingType
      <4>2. Readable(q) /\ Passed(q)
        BY <2>1, <2>4, <3>2, <4>1 DEF Readable, Suspended, Passed
      <4> QED
        BY <2>2, <4>2 DEF WakeInv
    <3> QED
      BY <3>1, <3>2
  <2>5. task' = "wait" /\ pendexit' => Signalled'
    BY <2>1, <2>2 DEF WakeInv
  <2> QED
    BY <2>3, <2>4, <2>5 DEF WakeInv
<1> QED
  BY <1>1, <1>2, <1>3 DEF Post

(* A purge makes no ring readable.                                         *)
LEMMA PurgeWakes ==
  ASSUME TypeOK, RingInv, RingInv', WakeInv, NEW s \in Sub, ev_que[s] \in Que, Purge(s)
  PROVE  WakeInv'
<1> USE Names
<1> PICK q \in Que : q = ev_que[s]
  OBVIOUS
<1>1. /\ UNCHANGED <<getix, ppendsem, signalling, flowCtrlMode, pendexit, task, taskQue>>
      /\ \A r \in Que : r # q => evque'[r] = evque[r] /\ nDuplicates'[r] = nDuplicates[r]
      /\ \A i \in Slot : evque'[q][i] # EVENTQEMPTY => evque[q][i] # EVENTQEMPTY
      /\ nDuplicates'[q] = nDuplicates[q] - DuplicatesOf(s)
  BY DEF Purge, Mine, TypeOK, RingType, semVars, modeVars, taskVars
<1>2. nDuplicates[q] = 0 => nDuplicates'[q] = 0
  <2>1. DuplicatesOf(s) \in Nat
    BY DEF DuplicatesOf, TypeOK, SubType
  <2>2. nDuplicates'[q] \in Nat
    <3>1. (Duplicates(q))' \subseteq Slot /\ nDuplicates'[q] = Cardinality(Duplicates(q)')
      BY DEF Duplicates, RingInv, QueueCounts
    <3> QED
      BY <3>1, SlotSets
  <2> QED
    BY <1>1, <2>1, <2>2
<1>3. \A r \in Que : Readable(r)' => Readable(r)
  <2>1. getix[q] \in Slot
    BY Ends
  <2> QED
    BY <1>1, <1>2, <2>1 DEF Readable, Suspended
<1> QED
  BY <1>1, <1>3 DEF WakeInv, Passed, Signalled

(* event_task goes on to the next queue when it has read one or may not,   *)
(* and waits only when it has gone past all.                               *)
LEMMA TaskWakes ==
  ASSUME TypeOK, WakeInv, Walk
  PROVE  WakeInv'
<1> USE DEF ringVars, subVars, semVars, modeVars, taskVars
<1>1. CASE Wake
  BY <1>1 DEF Wake, WakeInv, Passed, Que
<1>2. CASE EndOfList
  <2>1. \A q \in Que : q < taskQue
    BY <1>2, EventQueueAssumption DEF EndOfList, TypeOK, TaskType, Que
  <2>2. /\ \A q \in Que : Readable(q)' = Readable(q) /\ Passed(q)
        /\ Signalled' = Signalled /\ (task' = "wait" => ~ pendexit')
    BY <1>2, <2>1 DEF EndOfList, Readable, Suspended, Passed, Signalled
  <2>3. task' # "wait" => \A q \in Que : ~ Passed(q)'
    BY <1>2 DEF EndOfList, Passed, Que
  <2> QED
    BY <2>2, <2>3 DEF WakeInv
<1>3. CASE SkipQueue \/ EndOfQueue
  <2>1. /\ taskQue \in Que /\ taskQue' = taskQue + 1 /\ ~ Readable(taskQue)
        /\ task' = "list" /\ task # "wait"
    BY <1>3 DEF SkipQueue, EndOfQueue, Readable, TypeOK, TaskType
  <2>2. /\ \A q \in Que : Readable(q)' = Readable(q)
        /\ Signalled' = Signalled
    BY <1>3 DEF SkipQueue, EndOfQueue, Readable, Suspended, Signalled
  <2>3. \A q \in Que : q < taskQue + 1 => q < taskQue \/ q = taskQue
    BY <2>1 DEF Que
  <2> QED
    BY <2>1, <2>2, <2>3 DEF WakeInv, Passed
<1>4. CASE LockQueue \/ CallbackReturns
  BY <1>4 DEF LockQueue, CallbackReturns, WakeInv, Passed, Readable, Suspended, Signalled
<1>5. CASE SkipCanceled \/ TakeEvent
  <2>1. /\ task = "read" /\ taskQue \in Que /\ task' \in {"read", "call"}
        /\ UNCHANGED <<taskQue, ppendsem, signalling, flowCtrlMode, pendexit>>
    BY <1>5 DEF SkipCanceled, TakeEvent, TypeOK, TaskType
  <2>2. \A q \in Que : q # taskQue => /\ evque'[q] = evque[q] /\ getix'[q] = getix[q]
                                      /\ nDuplicates'[q] = nDuplicates[q]
    BY <1>5 DEF SkipCanceled, TakeEvent, TypeOK, RingType
  <2>3. ~ taskQue < taskQue
    BY <2>1 DEF Que
  <2> QED
    BY <2>1, <2>2, <2>3 DEF WakeInv, Passed, Readable, Suspended, Signalled
<1> QED
  BY <1>1, <1>2, <1>3, <1>4, <1>5 DEF Walk

(* Every step keeps WakeInv.                                               *)
LEMMA WakeStep ==
  ASSUME TypeOK, UseInv, RingInv, RingInv', WakeInv, [Next]_vars
  PROVE  WakeInv'
<1> USE DEF ringVars, subVars, semVars, modeVars, taskVars, recordVars, serveVars, historyVars
<1>1. ASSUME NEW s \in Sub, Change(s) PROVE WakeInv'
  <2>1. CASE enabled[s]
    BY <1>1, <2>1, PostWakes DEF Change, PostAndNote, UseInv, Ours
  <2>2. CASE ~ enabled[s]
    BY <1>1, <2>2, WakeKept DEF Change, queueVars
  <2> QED
    BY <2>1, <2>2
<1>2. CASE PostFirst
  BY <1>2, PostWakes DEF PostFirst, PostAndNote, UseInv, Serving
<1>3. ASSUME NEW s \in Sub, Subscribe(s) \/ Unsubscribe(s) PROVE WakeInv'
  BY <1>3, WakeKept DEF Subscribe, db_add_event, Unsubscribe, SetEnabled
<1>4. CASE FlowOn \/ FlowOff \/ Close
  BY <1>4 DEF FlowOn, FlowOff, FlowControl, Close, db_close_events, WakeInv, Signalled
<1>5. CASE PurgeEvents
  BY <1>5, PurgeWakes DEF PurgeEvents, UseInv, Serving
<1>6. CASE Enable \/ Flushed \/ Freed \/ SendBatch
  BY <1>6, WakeKept DEF Enable, SetEnabled, Flushed, WaitFlush, Freed, Free, SendBatch, queueVars
<1>7. CASE Walk
  BY <1>7, TaskWakes
<1>8. CASE read_reply
  BY <1>8 DEF read_reply, CallbackRuns, WakeInv, Passed, Readable, Suspended, Signalled
<1>9. ASSUME NEW c \in Sub \cup {0}, Signals(c) PROVE WakeInv'
  BY <1>9 DEF Signals, Signal, WakeInv, Signalled
<1>10. CASE UNCHANGED vars
  BY <1>10, WakeKept DEF vars, queueVars
<1> QED
  BY <1>1, <1>2, <1>3, <1>4, <1>5, <1>6, <1>7, <1>8, <1>9, <1>10
  DEF Next, Proceed, event_task

(* event_task never waits while there is something to do for it and nobody *)
(* about to signal it.                                                     *)
THEOREM MonitorsNoLostWakeup == Spec => []NoLostWakeup
<1>1. Init => TypeOK /\ UseInv /\ RingInv /\ WakeInv
  <2>1. ASSUME Init PROVE WakeInv
    <3>1. /\ Start \in Slot /\ ~ pendexit
          /\ \A q \in Que : getix[q] = Start /\ evque[q][Start] = EVENTQEMPTY
      BY <2>1, EventQueueAssumption DEF Init, QueueInit
    <3>2. \A q \in Que : ~ Readable(q)
      BY <3>1 DEF Readable
    <3> QED
      BY <3>1, <3>2 DEF WakeInv
  <2> QED
    BY <2>1, TypeInit, UseInit, RingInit
<1>2. TypeOK /\ UseInv /\ RingInv /\ WakeInv /\ [Next]_vars
      => TypeOK' /\ UseInv' /\ RingInv' /\ WakeInv'
  BY UseStep, RingStep, WakeStep
<1>3. WakeInv => NoLostWakeup
  BY DEF WakeInv, Passed, Signalled, NoLostWakeup
<1> QED
  BY <1>1, <1>2, <1>3, PTL DEF Spec

-----------------------------------------------------------------------------
(* A waiting event of a scalar has its last value where pLastLog says, in  *)
(* a slot that is its own.                                                 *)
LEMMA LogIsOwn ==
  ASSUME TypeOK, RingInv, NEW t \in Simple, npend[t] > 0
  PROVE  /\ t \in Sub /\ ev_que[t] \in Que /\ pLastLog[t] \in Slot
         /\ evque[ev_que[t]][pLastLog[t]] = t
<1>1. t \in Sub
  BY EventQueueAssumption
<1>2. ev_que[t] \in Que /\ IsLast(ev_que[t], t, pLastLog[t])
  BY <1>1 DEF RingInv, SubCounts, TypeOK, SubType
<1> QED
  BY <1>1, <1>2 DEF IsLast, Events

(* Steps that touch neither the values in the rings nor what is called.    *)
LEMMA NewestKept ==
  ASSUME UNCHANGED <<valque, npend, pLastLog, ev_que, task, event, fl, seen, val>>,
         NEW t \in Sub
  PROVE  Newest(t)' = Newest(t)
BY DEF Newest, CallbackValue

(* After a post the newest value of the subscription is that of its        *)
(* channel, and no other subscription's has changed.                       *)
LEMMA PostIsNewest ==
  ASSUME TypeOK, RingInv, NEW s \in Sub, ev_que[s] \in Que, Post(s, val'[s]),
         \A t \in Sub : t # s => val'[t] = val[t], UNCHANGED seen
  PROVE  Newest(s)' = val'[s] /\ \A t \in Sub : t # s => Newest(t)' = Newest(t)
<1> USE Names
<1> USE DEF ringVars, subVars, modeVars, taskVars
<1> DEFINE v == val'[s]
<1> PICK q \in Que : q = ev_que[s]
  OBVIOUS
<1>1. /\ UNCHANGED <<ev_que, task, event, fl>> /\ npend[s] \in Int
      /\ npend \in [Sub -> Int] /\ pLastLog \in [Sub -> Slot \cup {NoLog}]
      /\ valque \in [Que -> [Slot -> 0 .. MaxChanges]]
  BY DEF Post, TypeOK, RingType, SubType
<1>2. npend'[s] > 0 /\ (s \in Simple => valque'[q][pLastLog'[s]] = v)
  <2>1. CASE Ignored(s) /\ UNCHANGED <<ringVars, signalling>>
    BY <2>1 DEF Ignored
  <2>2. CASE Replaces(s) /\ Replace(s, v)
    <3>1. npend[s] > 0 /\ s \in Simple
      BY <2>2 DEF Replaces
    <3>2. pLastLog[s] \in Slot
      BY <3>1, LogIsOwn
    <3> QED
      BY <1>1, <2>2, <3>1, <3>2 DEF Replace
  <2>3. CASE AddEvent(s, v)
    <3>1. npend'[s] = npend[s] + 1 /\ npend[s] \in Nat
      <4>1. npend[s] = Cardinality(Events(q, s)) /\ Events(q, s) \subseteq Slot
        BY DEF RingInv, SubCounts, Events
      <4> QED
        BY <1>1, <2>3, <4>1, SlotSets DEF AddEvent
    <3> PICK p \in Slot : p = putix[q]
      BY Ends
    <3>2. s \in Simple => pLastLog'[s] = p /\ valque'[q][p] = v
      BY <1>1, <2>3 DEF AddEvent, LastLog
    <3> QED
      BY <3>1, <3>2
  <2> QED
    BY <2>1, <2>2, <2>3 DEF Post
<1>3. ASSUME NEW t \in Sub, t # s
      PROVE  /\ npend'[t] = npend[t] /\ pLastLog'[t] = pLastLog[t]
             /\ t \in Simple /\ npend[t] > 0
                => valque'[ev_que[t]][pLastLog[t]] = valque[ev_que[t]][pLastLog[t]]
  <2>1. CASE UNCHANGED <<ringVars, signalling>>
    BY <2>1
  <2>2. CASE Replaces(s) /\ Replace(s, v)
    <3>1. s \in Simple /\ npend[s] > 0
      BY <2>2 DEF Replaces
    <3>2. pLastLog[s] \in Slot /\ evque[q][pLastLog[s]] = s
      BY <3>1, LogIsOwn
    <3>3. t \in Simple /\ npend[t] > 0
          => /\ ev_que[t] \in Que /\ pLastLog[t] \in Slot
             /\ evque[ev_que[t]][pLastLog[t]] = t
      BY LogIsOwn
    <3> QED
      BY <1>1, <1>3, <2>2, <3>2, <3>3 DEF Replace
  <2>3. CASE AddEvent(s, v)
    <3> PICK p \in Slot : p = putix[q]
      BY Ends
    <3>1. evque[q][p] = EVENTQEMPTY
      BY <2>3 DEF AddEvent
    <3>2. t \in Simple /\ npend[t] > 0
          => /\ ev_que[t] \in Que /\ pLastLog[t] \in Slot
             /\ evque[ev_que[t]][pLastLog[t]] = t
      BY LogIsOwn
    <3>3. ~ (ev_que[t] = q /\ pLastLog[t] = p /\ t \in Simple /\ npend[t] > 0)
      BY <3>1, <3>2
    <3> QED
      BY <1>1, <1>3, <2>3, <3>2, <3>3 DEF AddEvent
  <2> QED
    BY <2>1, <2>2, <2>3 DEF Post
<1> QED
  BY <1>1, <1>2, <1>3 DEF Newest, CallbackValue

(* A purge takes no value of another subscription.                         *)
LEMMA PurgeIsNewest ==
  ASSUME TypeOK, RingInv, NEW s \in Sub, ev_que[s] \in Que, Purge(s),
         UNCHANGED <<seen, val>>, NEW t \in Sub, t # s
  PROVE  Newest(t)' = Newest(t)
<1> PICK q \in Que : q = ev_que[s]
  OBVIOUS
<1>1. /\ UNCHANGED <<ev_que, task, event, fl>>
      /\ npend'[t] = npend[t] /\ pLastLog'[t] = pLastLog[t]
      /\ \A r \in Que : r # q => valque'[r] = valque[r]
      /\ \A i \in Slot : evque[q][i] # s => valque'[q][i] = valque[q][i]
  BY DEF Purge, Mine, TypeOK, RingType, SubType, taskVars
<1>2. t \in Simple /\ npend[t] > 0
      => /\ ev_que[t] \in Que /\ pLastLog[t] \in Slot
         /\ evque[ev_que[t]][pLastLog[t]] = t
  BY LogIsOwn
<1>3. t \in Simple /\ npend[t] > 0
      => valque'[ev_que[t]][pLastLog[t]] = valque[ev_que[t]][pLastLog[t]]
  BY <1>1, <1>2
<1> QED
  BY <1>1, <1>3 DEF Newest, CallbackValue

(* The last event of a subscription is taken with its newest value, and    *)
(* any other leaves that where it is.                                      *)
LEMMA TakeIsNewest ==
  ASSUME TypeOK, UseInv, RingInv, TakeEvent, UNCHANGED <<seen, val>>, NEW t \in Sub,
         evque[taskQue][getix[taskQue]] = t => user_sub[t]
  PROVE  Newest(t)' = Newest(t)
<1> USE Names
<1> PICK q \in Que : q = taskQue
  BY DEF TakeEvent, TypeOK, TaskType
<1> PICK g \in Slot : g = getix[q]
  BY Ends
<1> PICK s \in Sub : s = evque[q][g]
  BY DEF TakeEvent
<1>1. /\ valque'[q] = [valque[q] EXCEPT ![g] = 0]
      /\ \A r \in Que : r # q => valque'[r] = valque[r]
      /\ npend' = [npend EXCEPT ![s] = @ - 1]
      /\ pLastLog' = [pLastLog EXCEPT ![s] = IF npend[s] > 1 THEN @ ELSE NoLog]
      /\ UNCHANGED ev_que /\ task = "read"
      /\ npend \in [Sub -> Int] /\ pLastLog \in [Sub -> Slot \cup {NoLog}]
      /\ valque[q] \in [Slot -> 0 .. MaxChanges]
  BY DEF TakeEvent, TypeOK, RingType, SubType
<1>2. t \in Simple /\ npend[t] > 0
      => /\ ev_que[t] \in Que /\ pLastLog[t] \in Slot
         /\ evque[ev_que[t]][pLastLog[t]] = t
  BY LogIsOwn
<1>3. CASE t # s
  <2>1. t \in Simple /\ npend[t] > 0
        => valque'[ev_que[t]][pLastLog[t]] = valque[ev_que[t]][pLastLog[t]]
    BY <1>1, <1>2, <1>3
  <2>2. ~ (task' = "call" /\ event' = t) /\ npend'[t] = npend[t] /\ pLastLog'[t] = pLastLog[t]
    BY <1>1, <1>3 DEF TakeEvent
  <2> QED
    BY <1>1, <2>1, <2>2 DEF Newest
<1>4. CASE t = s
  <2>1. /\ ev_que[s] = q /\ g \in Events(q, s) /\ Events(q, s) \subseteq Slot
        /\ npend[s] = Cardinality(Events(q, s)) /\ IsFiniteSet(Events(q, s))
    <3>1. ev_que[s] = q /\ g \in Events(q, s) /\ Events(q, s) \subseteq Slot
      BY DEF UseInv, Owned, Events
    <3> QED
      BY <3>1, SlotSets DEF RingInv, SubCounts
  <2>2. npend[s] \in Nat /\ npend[s] > 0
    <3>1. Cardinality(Events(q, s)) # 0
      BY <2>1, FS_EmptySet
    <3> QED
      BY <2>1, <3>1, SlotSets
  <2>3. npend'[s] = npend[s] - 1
    BY <1>1, <2>2
  <2>4. npend[s] = 1 => Events(q, s) = {g}
    <3>1. npend[s] = 1 => \E l : Events(q, s) = {l}
      BY <2>1, FS_Singleton
    <3> QED
      BY <2>1, <3>1
  <2>5. s \in Simple => IsLast(q, s, pLastLog[s])
    BY <2>1, <2>2 DEF RingInv, SubCounts
  <2>6. CASE npend[s] = 1
    <3>1. npend'[s] = 0 /\ task' = "call" /\ event' = s /\ fl' = valque[q][g]
      BY <1>4, <2>3, <2>6 DEF TakeEvent
    <3>2. s \in Simple => pLastLog[s] = g
      BY <2>4, <2>5, <2>6 DEF IsLast
    <3> QED
      BY <1>4, <2>1, <2>2, <3>1, <3>2 DEF Newest, CallbackValue
  <2>7. CASE npend[s] > 1
    <3>1. npend'[s] > 0 /\ pLastLog'[s] = pLastLog[s]
      BY <1>1, <2>2, <2>3, <2>7
    <3>2. s \in Simple => pLastLog[s] # g
      <4>1. SUFFICES ASSUME s \in Simple, pLastLog[s] = g PROVE FALSE
        OBVIOUS
      <4>2. \A i \in Events(q, s) : At(g, i) <= At(g, g)
        BY <2>5, <4>1 DEF IsLast, Place, At
      <4>3. \A i \in Slot : At(g, i) \in 0 .. EVENTQUESIZE - 1 /\ (At(g, i) = 0 <=> i = g)
        BY Places
      <4>4. Events(q, s) = {g}
        BY <2>1, <4>2, <4>3, QueueSize
      <4>5. Cardinality({g}) = 1
        BY FS_Singleton
      <4> QED
        BY <2>1, <2>7, <4>4, <4>5
    <3>3. s \in Simple => valque'[q][pLastLog[s]] = valque[q][pLastLog[s]]
      BY <1>1, <1>2, <1>4, <2>1, <2>2, <3>2
    <3>4. Newest(t) = IF t \in Simple THEN valque[q][pLastLog[s]] ELSE val[t]
      BY <1>4, <2>1, <2>2 DEF Newest
    <3>5. npend'[t] > 0 /\ ev_que'[t] = q /\ pLastLog'[t] = pLastLog[s] /\ val'[t] = val[t]
      BY <1>1, <1>4, <2>1, <3>1
    <3>6. Newest(t)' = IF t \in Simple THEN valque'[q][pLastLog[s]] ELSE val[t]
      BY <3>5 DEF Newest
    <3> QED
      BY <1>4, <3>3, <3>4, <3>6
  <2> QED
    BY <2>2, <2>6, <2>7
<1> QED
  BY <1>3, <1>4

(* A callback hands over what was taken.                                   *)
LEMMA CallIsNewest ==
  ASSUME TypeOK, read_reply, NEW t \in Sub
  PROVE  Newest(t)' = Newest(t)
<1>1. /\ UNCHANGED <<valque, npend, pLastLog, ev_que, val>>
      /\ task = "call" /\ task' = "done"
      /\ seen' = [seen EXCEPT ![event] = CallbackValue]
      /\ seen \in [Sub -> -1 .. MaxChanges]
  BY DEF read_reply, CallbackRuns, TypeOK, RecordType, ringVars, subVars, recordVars
<1> QED
  BY <1>1 DEF Newest

-----------------------------------------------------------------------------
(* Every step keeps DueInv.                                                *)
LEMMA DueStep ==
  ASSUME TypeOK, UseInv, RingInv, DueInv, [Next]_vars
  PROVE  DueInv'
<1> USE Names
<1> USE DEF ringVars, subVars, semVars, modeVars, taskVars, recordVars, serveVars, historyVars
<1>0. /\ val \in [Sub -> 0 .. MaxChanges] /\ missed \in [Sub -> BOOLEAN]
      /\ enabled \in [Sub -> BOOLEAN] /\ user_sub \in [Sub -> BOOLEAN]
      /\ ev_que \in [Sub -> Que \cup {0}] /\ now \in Int
  BY DEF TypeOK, SubType, RecordType
<1>1. ASSUME NEW s \in Sub, Change(s) PROVE DueInv'
  <2>1. /\ UNCHANGED <<user_sub, enabled, cpc, csub, seen>>
        /\ val' = [val EXCEPT ![s] = now + 1]
        /\ missed' = [missed EXCEPT ![s] = ~ enabled[s] /\ cpc = "enable" /\ csub = s]
    BY <1>1 DEF Change, PostAndNote, Post, queueVars
  <2>2. val'[s] = now + 1 /\ \A t \in Sub : t # s => val'[t] = val[t] /\ missed'[t] = missed[t]
    BY <1>0, <2>1
  <2>3. \A t \in Sub : t # s => Newest(t)' = Newest(t)
    <3>1. CASE enabled[s]
      BY <1>1, <2>1, <2>2, <3>1, PostIsNewest DEF Change, PostAndNote, UseInv, Ours
    <3>2. CASE ~ enabled[s]
      BY <1>1, <2>1, <2>2, <3>2 DEF Change, queueVars, Newest, CallbackValue
    <3> QED
      BY <3>1, <3>2
  <2>4. enabled[s] => Newest(s)' = val'[s]
    BY <1>1, <2>1, <2>2, PostIsNewest DEF Change, PostAndNote, UseInv, Ours
  <2>5. ~ enabled[s] => (Watched(s)' => missed'[s])
    BY <1>0, <2>1 DEF Watched
  <2> QED
    BY <2>1, <2>2, <2>3, <2>4, <2>5 DEF DueInv, Watched
<1>2. CASE PostFirst
  <2>1. /\ UNCHANGED <<user_sub, enabled, csub, seen, val, missed>>
        /\ cpc = "post" /\ cpc' = "enable" /\ csub \in Sub
    BY <1>2 DEF PostFirst, PostAndNote, Post, UseInv, Serving
  <2>2. Newest(csub)' = val'[csub] /\ \A t \in Sub : t # csub => Newest(t)' = Newest(t)
    <3>1. ev_que[csub] \in Que /\ Post(csub, val'[csub])
      BY <1>2, <2>1 DEF PostFirst, PostAndNote, UseInv, Serving
    <3> QED
      BY <2>1, <3>1, PostIsNewest
  <2> QED
    BY <2>1, <2>2 DEF DueInv, Watched
<1>3. ASSUME NEW s \in Sub, Subscribe(s) PROVE DueInv'
  <2>1. /\ cpc \in {"idle", "batch"} /\ cpc' = "post" /\ csub' = s /\ ev_que[s] = 0
        /\ user_sub' = [user_sub EXCEPT ![s] = TRUE]
        /\ UNCHANGED <<valque, npend, pLastLog, task, event, fl, seen, val, enabled, missed>>
        /\ \A t \in Sub : t # s => ev_que'[t] = ev_que[t]
    BY <1>0, <1>3 DEF Subscribe, db_add_event, Idle
  <2>2. ~ enabled[s]
    BY <2>1 DEF UseInv, Ours
  <2>3. \A t \in Sub : t # s => Newest(t)' = Newest(t)
    BY <2>1 DEF Newest, CallbackValue
  <2> QED
    BY <1>0, <2>1, <2>2, <2>3 DEF DueInv, Watched
<1>4. ASSUME NEW s \in Sub, Unsubscribe(s) PROVE DueInv'
  <2>1. /\ \A t \in Sub : enabled'[t] => enabled[t]
        /\ cpc' = "purge" /\ UNCHANGED <<user_sub, missed, val>>
        /\ \A t \in Sub : Newest(t)' = Newest(t)
    BY <1>0, <1>4, NewestKept DEF Unsubscribe, SetEnabled
  <2> QED
    BY <2>1 DEF DueInv, Watched
<1>5. CASE Enable
  <2>1. /\ \A t \in Sub : enabled'[t] => enabled[t] \/ (cpc = "enable" /\ csub = t)
        /\ cpc' = "batch" /\ UNCHANGED <<user_sub, missed, val>>
        /\ \A t \in Sub : Newest(t)' = Newest(t)
    BY <1>0, <1>5, NewestKept DEF Enable, SetEnabled
  <2> QED
    BY <2>1 DEF DueInv, Watched
<1>6. CASE PurgeEvents
  <2>1. /\ cpc = "purge" /\ csub \in Sub /\ ev_que[csub] \in Que /\ ~ enabled[csub]
        /\ Purge(csub) /\ cpc' \in {"flush", "free"}
        /\ UNCHANGED <<enabled, missed, val, seen>>
        /\ user_sub' = [user_sub EXCEPT ![csub] = FALSE]
    BY <1>6 DEF PurgeEvents, Purge, UseInv, Serving
  <2>2. \A t \in Sub : t # csub => Newest(t)' = Newest(t)
    BY <2>1, PurgeIsNewest
  <2> QED
    BY <1>0, <2>1, <2>2 DEF DueInv, Watched
<1>7. CASE Freed /\ ~ MustWait(csub)
  <2>1. /\ cpc = "free" /\ csub \in Sub /\ ~ enabled[csub] /\ cpc' = "batch"
        /\ UNCHANGED <<valque, npend, pLastLog, task, event, fl, val, enabled, user_sub>>
        /\ \A t \in Sub : t # csub => /\ ev_que'[t] = ev_que[t] /\ seen'[t] = seen[t]
                                      /\ missed'[t] = missed[t]
    BY <1>0, <1>7 DEF Freed, Free, UseInv, Serving, TypeOK, RecordType
  <2>2. \A t \in Sub : t # csub => Newest(t)' = Newest(t)
    BY <2>1 DEF Newest, CallbackValue
  <2> QED
    BY <2>1, <2>2 DEF DueInv, Watched
<1>8. CASE Flushed \/ (Freed /\ MustWait(csub))
  <2>1. /\ cpc' \in {"flush", "free"} /\ UNCHANGED <<user_sub, enabled, missed, val>>
        /\ \A t \in Sub : Newest(t)' = Newest(t)
    BY <1>8, NewestKept DEF Flushed, WaitFlush, Freed, queueVars
  <2> QED
    BY <2>1 DEF DueInv, Watched
<1>9. ASSUME UNCHANGED <<user_sub, enabled, missed, val, cpc, csub>>,
             \A t \in Sub : Watched(t) => Newest(t)' = Newest(t)
      PROVE  DueInv'
  BY <1>9 DEF DueInv, Watched
<1>10. CASE FlowOn \/ FlowOff \/ Close \/ SendBatch
  <2>1. /\ UNCHANGED <<user_sub, enabled, missed, val, csub>>
        /\ cpc \notin {"enable", "post"} /\ cpc' \notin {"enable", "post"}
        /\ \A t \in Sub : Newest(t)' = Newest(t)
    BY <1>10, NewestKept
    DEF FlowOn, FlowOff, FlowControl, Close, db_close_events, SendBatch, Idle, queueVars
  <2> QED
    BY <2>1 DEF DueInv, Watched
<1>11. CASE Walk /\ (Wake \/ EndOfList \/ SkipQueue \/ LockQueue \/ EndOfQueue
                     \/ SkipCanceled \/ CallbackReturns)
  <2>1. UNCHANGED <<user_sub, enabled, missed, val, cpc, csub>>
        /\ \A t \in Sub : Newest(t)' = Newest(t)
    BY <1>11 DEF Walk, Wake, EndOfList, SkipQueue, LockQueue, EndOfQueue, SkipCanceled,
       CallbackReturns, Newest
  <2> QED
    BY <1>9, <2>1
<1>12. CASE Walk /\ TakeEvent
  <2>1. UNCHANGED <<user_sub, enabled, missed, val, cpc, csub, seen>>
    BY <1>12 DEF Walk, TakeEvent
  <2>2. \A t \in Sub : Watched(t) => Newest(t)' = Newest(t)
    BY <1>12, <2>1, TakeIsNewest DEF DueInv
  <2> QED
    BY <1>9, <2>1, <2>2
<1>13. CASE read_reply
  <2>1. UNCHANGED <<user_sub, enabled, missed, val, cpc, csub>>
        /\ \A t \in Sub : Newest(t)' = Newest(t)
    BY <1>13, CallIsNewest DEF read_reply, CallbackRuns
  <2> QED
    BY <1>9, <2>1
<1>14. CASE (\E c \in Sub \cup {0} : Signals(c)) \/ UNCHANGED vars
  <2>1. UNCHANGED <<user_sub, enabled, missed, val, cpc, csub>>
        /\ \A t \in Sub : Newest(t)' = Newest(t)
    BY <1>14, NewestKept DEF Signals, Signal, vars, queueVars
  <2> QED
    BY <1>9, <2>1
<1> QED
  BY <1>1, <1>2, <1>3, <1>4, <1>5, <1>6, <1>7, <1>8, <1>10, <1>11, <1>12, <1>13, <1>14
  DEF Next, Proceed, event_task, Walk

(* What the client was called with last is its channel's value, or the     *)
(* event that waits, or the callback that runs, has it: no replacement, no *)
(* dropped duplicate and no flow control loses the last change.            *)
THEOREM MonitorsNewestIsDue == Spec => []NewestIsDue
<1>1. Init => TypeOK /\ UseInv /\ RingInv /\ DueInv
  <2>1. Init => DueInv
    BY DEF Init, QueueInit, DueInv, Watched
  <2> QED
    BY <2>1, TypeInit, UseInit, RingInit
<1>2. TypeOK /\ UseInv /\ RingInv /\ DueInv /\ [Next]_vars
      => TypeOK' /\ UseInv' /\ RingInv' /\ DueInv'
  BY UseStep, RingStep, DueStep
<1>3. DueInv => NewestIsDue
  BY DEF DueInv, Watched, NewestIsDue
<1> QED
  BY <1>1, <1>2, <1>3, PTL DEF Spec

-----------------------------------------------------------------------------

(***************************************************************************)
(* The order of the updates of CasMonitors: each subscription is a         *)
(* Monitor, as the values in a ring are some the channel has had and come  *)
(* in their order; and a client sees the changes of two channels in the    *)
(* order they came in, unless an event has been replaced.                  *)
(***************************************************************************)

(* What has been said of the values of a channel.                          *)
Past(s) ==
  /\ val[s] \in was[s] /\ val[s] <= now
  /\ \A w \in was[s] : w <= val[s]
  /\ seen[s] \in was[s] \cup {Nothing}

(* The value the client has, or is called with just now.                   *)
Called(s) == IF task = "call" /\ event = s THEN fl ELSE seen[s]

(* Event i of s is no older than what was called, and no younger than the  *)
(* events behind it.                                                       *)
InTurn(q, s, i) ==
  /\ valque[q][i] \in was[s] /\ Called(s) <= valque[q][i]
  /\ \A j \in Events(q, s) : Place(q, i) <= Place(q, j) => valque[q][i] <= valque[q][j]

Ordered(s) ==
  /\ task = "call" /\ event = s => fl \in was[s] /\ seen[s] <= fl
  /\ \A q \in Que : \A i \in Events(q, s) : InTurn(q, s, i)

OrderInv == (\A s \in Sub : Past(s)) /\ (\A s \in Simple : Ordered(s))

-----------------------------------------------------------------------------
(* The events of a subscription that is not posted to keep their order.    *)
LEMMA OrderKept ==
  ASSUME NEW s, Ordered(s), Called(s)' = Called(s), seen'[s] = seen[s],
         UNCHANGED getix, was[s] \subseteq was'[s],
         task' = "call" /\ event' = s => task = "call" /\ event = s /\ fl' = fl,
         \A q \in Que : Events(q, s)' \subseteq Events(q, s)
                        /\ \A i \in Events(q, s)' : valque'[q][i] = valque[q][i]
  PROVE  Ordered(s)'
<1>1. task' = "call" /\ event' = s => fl' \in was'[s] /\ seen'[s] <= fl'
  BY DEF Ordered
<1>2. ASSUME NEW q \in Que, NEW i \in Events(q, s)' PROVE InTurn(q, s, i)'
  <2>1. InTurn(q, s, i)
    BY <1>2 DEF Ordered
  <2>2. \A j : Place(q, j)' = Place(q, j)
    BY DEF Place
  <2> QED
    BY <1>2, <2>1, <2>2 DEF InTurn
<1> QED
  BY <1>1, <1>2 DEF Ordered

(* The value of a post is the newest, and its event the last.              *)
LEMMA PostOrder ==
  ASSUME TypeOK, RingInv, NEW s \in Simple, ev_que[s] \in Que, Ordered(s),
         NEW v \in Int, Post(s, v), v \in was'[s], was[s] \subseteq was'[s],
         \A w \in was[s] : w <= v, Called(s) <= v, UNCHANGED seen
  PROVE  Ordered(s)'
<1> USE Names
<1> USE DEF ringVars, subVars, modeVars, taskVars
<1>0. s \in Sub
  BY EventQueueAssumption
<1> PICK q \in Que : q = ev_que[s]
  OBVIOUS
<1> PICK g \in Slot : g = getix[q]
  BY Ends
<1>1. /\ UNCHANGED <<task, event, fl, getix>> /\ Called(s)' = Called(s)
      /\ \A r, i : Place(r, i)' = Place(r, i)
      /\ valque[q] \in [Slot -> 0 .. MaxChanges]
  BY DEF Post, Replace, AddEvent, Called, Place, TypeOK, RingType
<1>2. task' = "call" /\ event' = s => fl' \in was'[s] /\ seen'[s] <= fl'
  BY <1>1 DEF Ordered
<1>3. \A i \in Slot : Place(q, i) = At(g, i) /\ At(g, i) \in Int
  BY Places DEF Place, At
<1>4. CASE UNCHANGED <<ringVars, signalling>>
  BY <1>1, <1>4, OrderKept DEF Events
<1>5. ASSUME NEW l \in Slot,
             \A i \in Slot : i # l => valque'[q][i] = valque[q][i],
             valque'[q][l] = v,
             Events(q, s)' = Events(q, s) \cup {l},
             \A i \in Events(q, s) : i # l => At(g, i) < At(g, l),
             \A r \in Que : r # q => /\ Events(r, s)' = Events(r, s)
                                     /\ valque'[r] = valque[r]
      PROVE  Ordered(s)'
  <2>1. ASSUME NEW i \in Events(q, s)' PROVE InTurn(q, s, i)'
    <3>1. i \in Slot /\ \A j \in Events(q, s) : j \in Slot
      BY <1>5, <2>1 DEF Events
    <3>2. CASE i = l
      <4>1. \A j \in Events(q, s)' : At(g, i) <= At(g, j) => j = l
        BY <1>3, <1>5, <3>1, <3>2
      <4> QED
        BY <1>1, <1>3, <1>5, <3>1, <3>2, <4>1 DEF InTurn
    <3>3. CASE i # l
      <4>1. i \in Events(q, s) /\ InTurn(q, s, i)
        BY <1>5, <2>1, <3>3 DEF Ordered
      <4>2. valque[q][i] <= v
        BY <4>1 DEF InTurn
      <4>3. \A j \in Events(q, s)' :
              Place(q, i) <= Place(q, j) => valque'[q][i] <= valque'[q][j]
        BY <1>5, <3>1, <3>3, <4>1, <4>2 DEF InTurn
      <4> QED
        BY <1>1, <1>5, <3>1, <3>3, <4>1, <4>3 DEF InTurn
    <3> QED
      BY <3>2, <3>3
  <2>2. ASSUME NEW r \in Que, r # q, NEW i \in Events(r, s)' PROVE InTurn(r, s, i)'
    <3>1. InTurn(r, s, i)
      BY <1>5, <2>2 DEF Ordered
    <3> QED
      BY <1>1, <1>5, <2>2, <3>1 DEF InTurn
  <2> QED
    BY <1>2, <2>1, <2>2 DEF Ordered
<1>6. CASE Replaces(s) /\ Replace(s, v)
  <2>1. IsLast(q, s, pLastLog[s])
    BY <1>0, <1>6 DEF Replaces, RingInv, SubCounts
  <2> PICK l \in Slot : l = pLastLog[s]
    BY <2>1 DEF IsLast, Events
  <2>2. l \in Events(q, s) /\ \A i \in Events(q, s) : i # l => At(g, i) < At(g, l)
    <3>1. l \in Events(q, s) /\ \A i \in Events(q, s) : i \in Slot /\ At(g, i) <= At(g, l)
      BY <1>3, <2>1 DEF IsLast, Events
    <3>2. \A i \in Events(q, s) : At(g, i) = At(g, l) => i = l
      BY <3>1, OnePlace
    <3> QED
      BY <1>3, <3>1, <3>2
  <2>3. /\ valque' = [valque EXCEPT ![q][l] = v] /\ evque' = evque
        /\ valque \in [Que -> [Slot -> 0 .. MaxChanges]]
    BY <1>6 DEF Replace, TypeOK, RingType
  <2>4. /\ \A i \in Slot : i # l => valque'[q][i] = valque[q][i]
        /\ valque'[q][l] = v
        /\ \A r \in Que : r # q => valque'[r] = valque[r]
    BY <2>3
  <2>5. \A r \in Que : Events(r, s)' = Events(r, s)
    BY <2>3 DEF Events
  <2> QED
    BY <1>5, <2>2, <2>4, <2>5
<1>7. CASE AddEvent(s, v)
  <2> PICK p \in Slot : p = putix[q]
    BY Ends
  <2>1. /\ evque[q][p] = EVENTQEMPTY
        /\ evque' = [evque EXCEPT ![q][p] = s] /\ valque' = [valque EXCEPT ![q][p] = v]
        /\ valque \in [Que -> [Slot -> 0 .. MaxChanges]]
        /\ evque \in [Que -> [Slot -> Sub \cup {EVENTQEMPTY, canceledEvent}]]
    BY <1>7 DEF AddEvent, TypeOK, RingType
  <2>2. /\ \A i \in Slot : i # p => valque'[q][i] = valque[q][i]
        /\ valque'[q][p] = v
        /\ Events(q, s)' = Events(q, s) \cup {p}
        /\ \A r \in Que : r # q => Events(r, s)' = Events(r, s) /\ valque'[r] = valque[r]
    BY <2>1 DEF Events
  <2>3. \A i \in Events(q, s) : At(g, i) < At(g, p)
    <3>1. Ring(evque[q], g, p)
      BY DEF RingInv, Shape
    <3>2. \A i \in Slot : evque[q][i] # EVENTQEMPTY => At(g, i) < At(g, p)
      BY <1>0, <2>1, <3>1, AppendRing
    <3> QED
      BY <1>0, <3>2 DEF Events
  <2> QED
    BY <1>5, <2>2, <2>3
<1> QED
  BY <1>4, <1>6, <1>7 DEF Post

(* A post touches only its own subscription's events.                      *)
LEMMA PostElsewhere ==
  ASSUME TypeOK, RingInv, NEW u \in Sub, ev_que[u] \in Que, NEW v, Post(u, v),
         NEW t \in Sub, t # u
  PROVE  /\ npend'[t] = npend[t]
         /\ \A r \in Que : Events(r, t)' \subseteq Events(r, t)
                           /\ \A i \in Events(r, t)' : valque'[r][i] = valque[r][i]
<1> USE Names
<1> USE DEF ringVars, subVars, modeVars, taskVars
<1>1. \A r \in Que : \A i \in Slot :
        evque'[r][i] = t => evque[r][i] = t /\ valque'[r][i] = valque[r][i]
  <2>1. CASE UNCHANGED <<ringVars, signalling>>
    BY <2>1
  <2>2. CASE Replaces(u) /\ Replace(u, v)
    <3>1. IsLast(ev_que[u], u, pLastLog[u])
      BY <2>2 DEF Replaces, RingInv, SubCounts
    <3>2. pLastLog[u] \in Slot /\ evque[ev_que[u]][pLastLog[u]] = u
      BY <3>1 DEF IsLast, Events
    <3> QED
      BY <2>2, <3>2 DEF Replace, TypeOK, RingType
  <2>3. CASE AddEvent(u, v)
    BY <2>3 DEF AddEvent, TypeOK, RingType
  <2> QED
    BY <2>1, <2>2, <2>3 DEF Post
<1>2. npend'[t] = npend[t]
  BY DEF Post, Replace, AddEvent, TypeOK, SubType
<1> QED
  BY <1>1, <1>2 DEF Events

(* The events of other subscriptions keep their order.                     *)
LEMMA PostOthers ==
  ASSUME TypeOK, RingInv, NEW s \in Sub, ev_que[s] \in Que, NEW v, Post(s, v),
         NEW t \in Simple, t # s, Ordered(t), was[t] \subseteq was'[t], UNCHANGED seen
  PROVE  Ordered(t)'
<1>1. t \in Sub
  BY EventQueueAssumption
<1>2. /\ UNCHANGED <<task, event, fl, getix>> /\ Called(t)' = Called(t)
  BY DEF Post, Replace, AddEvent, Called, ringVars, taskVars
<1> QED
  BY <1>1, <1>2, PostElsewhere, OrderKept

(* The first event of a ring goes, and with it the first place.            *)
LEMMA HeadOrder ==
  ASSUME TypeOK, UseInv, NEW q \in Que, NEW t \in Simple, Ordered(t),
         UNCHANGED <<seen, was>>,
         evque' = [evque EXCEPT ![q][getix[q]] = EVENTQEMPTY],
         getix' = [getix EXCEPT ![q] = RNGINC(@)],
         \A r \in Que : \A i \in Slot :
           r # q \/ i # getix[q] => valque'[r][i] = valque[r][i],
         ~ (task = "call" /\ event = t),
         task' = "call" /\ event' = t
         => evque[q][getix[q]] = t /\ fl' = valque[q][getix[q]]
  PROVE  Ordered(t)'
<1> USE Names
<1>0. t \in Sub
  BY EventQueueAssumption
<1> PICK g \in Slot : g = getix[q]
  BY Ends
<1>1. /\ evque \in [Que -> [Slot -> Sub \cup {EVENTQEMPTY, canceledEvent}]]
      /\ valque \in [Que -> [Slot -> 0 .. MaxChanges]]
      /\ getix'[q] = RNGINC(g) /\ RNGINC(g) \in Slot
      /\ \A r \in Que : r # q => getix'[r] = getix[r]
  BY Next_Slot DEF TypeOK, RingType
<1>2. /\ Events(q, t)' = Events(q, t) \ {g}
      /\ \A r \in Que : r # q => Events(r, t)' = Events(r, t)
  BY <1>0, <1>1 DEF Events
<1>3. \A i \in Slot : Place(q, i) = At(g, i) /\ At(g, i) \in Nat
                      /\ (i # g => Place(q, i)' = At(g, i) - 1)
  <2>1. \A i \in Slot : Place(q, i) = At(g, i) /\ Place(q, i)' = At(RNGINC(g), i)
    BY <1>1 DEF Place, At
  <2> QED
    BY <2>1, Places, Nearer
<1>4. task' = "call" /\ event' = t => /\ g \in Events(q, t) /\ fl' = valque[q][g]
  BY DEF Events
<1>5. Called(t) = seen[t]
  BY DEF Called
<1>6. task' = "call" /\ event' = t => fl' \in was'[t] /\ seen'[t] <= fl'
  BY <1>4, <1>5 DEF Ordered, InTurn
<1>7. ASSUME NEW i \in Events(q, t)' PROVE InTurn(q, t, i)'
  <2>1. i \in Slot /\ i # g /\ i \in Events(q, t) /\ InTurn(q, t, i)
    BY <1>2, <1>7 DEF Ordered, Events
  <2>2. Called(t)' <= valque[q][i]
    <3>1. CASE task' = "call" /\ event' = t
      <4>1. Place(q, g) <= Place(q, i)
        BY <1>3, <2>1, Places
      <4>2. InTurn(q, t, g)
        BY <1>4, <3>1 DEF Ordered
      <4> QED
        BY <1>4, <2>1, <3>1, <4>1, <4>2 DEF InTurn, Called
    <3>2. CASE ~ (task' = "call" /\ event' = t)
      BY <1>5, <2>1, <3>2 DEF InTurn, Called
    <3> QED
      BY <3>1, <3>2
  <2>3. ASSUME NEW j \in Events(q, t)', Place(q, i)' <= Place(q, j)'
        PROVE  valque'[q][i] <= valque'[q][j]
    <3>1. j \in Slot /\ j # g /\ j \in Events(q, t)
      BY <1>2, <2>3 DEF Events
    <3>2. Place(q, i) <= Place(q, j)
      BY <1>3, <2>1, <2>3, <3>1
    <3> QED
      BY <2>1, <3>1, <3>2 DEF InTurn
  <2> QED
    BY <2>1, <2>2, <2>3 DEF InTurn
<1>8. ASSUME NEW r \in Que, r # q, NEW i \in Events(r, t)' PROVE InTurn(r, t, i)'
  <2>1. InTurn(r, t, i) /\ \A j \in Events(r, t) : j \in Slot
    BY <1>2, <1>8 DEF Ordered, Events
  <2>2. \A j : Place(r, j)' = Place(r, j)
    BY <1>1, <1>8 DEF Place
  <2>3. Called(t)' = Called(t)
    <3>1. evque[r][i] = t /\ i \in Slot
      BY <1>2, <1>8 DEF Events
    <3>2. ev_que[t] = r
      BY <1>0, <3>1 DEF UseInv, Owned
    <3>3. evque[q][g] # t
      BY <1>0, <1>8, <3>2 DEF UseInv, Owned
    <3> QED
      BY <1>5, <3>3 DEF Called
  <2> QED
    BY <1>2, <1>8, <2>1, <2>2, <2>3 DEF InTurn
<1> QED
  BY <1>6, <1>7, <1>8 DEF Ordered

-----------------------------------------------------------------------------
(* What a callback hands over has been a value, and no older one.          *)
LEMMA CallbackIsPast ==
  ASSUME TypeOK, OrderInv, task = "call"
  PROVE  /\ event \in Sub /\ CallbackValue \in was[event] /\ CallbackValue \in Int
         /\ seen[event] <= CallbackValue
<1>1. event \in Sub /\ val[event] \in Nat /\ fl \in Nat
  BY DEF TypeOK, TaskType, RecordType
<1>2. CASE event \in Simple
  BY <1>1, <1>2 DEF OrderInv, Ordered, CallbackValue
<1>3. CASE event \notin Simple
  BY <1>1, <1>3 DEF OrderInv, Past, CallbackValue, Nothing
<1> QED
  BY <1>2, <1>3

(* Every step keeps OrderInv.                                              *)
LEMMA OrderStep ==
  ASSUME TypeOK, UseInv, RingInv, OrderInv, [Next]_vars
  PROVE  OrderInv'
<1> USE Names
<1> USE DEF ringVars, subVars, semVars, modeVars, taskVars, recordVars, serveVars, historyVars
<1>0. /\ val \in [Sub -> 0 .. MaxChanges] /\ was \in [Sub -> SUBSET (0 .. MaxChanges)]
      /\ seen \in [Sub -> -1 .. MaxChanges] /\ now \in Int /\ fl \in Int
      /\ Simple \subseteq Sub
  BY EventQueueAssumption DEF TypeOK, RecordType, TaskType
<1>1. ASSUME NEW s \in Sub, Change(s) PROVE OrderInv'
  <2>1. /\ UNCHANGED seen /\ now' = now + 1
        /\ val' = [val EXCEPT ![s] = now + 1]
        /\ was' = [was EXCEPT ![s] = @ \cup {now + 1}]
        /\ \A t \in Sub : \A w \in was[t] : w \in Int /\ w <= now
        /\ \A t \in Sub : was[t] \subseteq was'[t]
    BY <1>0, <1>1 DEF Change, OrderInv, Past
  <2>2. ASSUME NEW t \in Sub PROVE Past(t)'
    <3>1. CASE t = s
      <4>1. val'[s] = now + 1 /\ was'[s] = was[s] \cup {now + 1}
        BY <1>0, <2>1
      <4> QED
        BY <1>0, <2>1, <3>1, <4>1 DEF OrderInv, Past
    <3>2. CASE t # s
      <4>1. val'[t] = val[t] /\ was'[t] = was[t]
        BY <1>0, <2>1, <3>2
      <4> QED
        BY <1>0, <2>1, <4>1 DEF OrderInv, Past
    <3> QED
      BY <3>1, <3>2
  <2>3. ASSUME NEW t \in Simple PROVE Ordered(t)'
    <3>1. CASE ~ enabled[s]
      BY <1>0, <1>1, <2>1, <3>1, OrderKept DEF Change, queueVars, OrderInv, Events, Called
    <3>2. CASE enabled[s] /\ t # s
      <4>1. ev_que[s] \in Que /\ Post(s, now + 1)
        BY <1>1, <3>2 DEF Change, PostAndNote, UseInv, Ours
      <4> QED
        BY <2>1, <3>2, <4>1, PostOthers DEF OrderInv
    <3>3. CASE enabled[s] /\ t = s
      <4>1. ev_que[s] \in Que /\ Post(s, now + 1)
        BY <1>1, <3>3 DEF Change, PostAndNote, UseInv, Ours
      <4>2. Called(s) <= now + 1
        BY <1>0, <2>1, <3>3 DEF OrderInv, Ordered, Past, Called, Nothing
      <4>3. now + 1 \in was'[s] /\ \A w \in was[s] : w <= now + 1
        BY <1>0, <2>1
      <4> QED
        BY <1>0, <2>1, <3>3, <4>1, <4>2, <4>3, PostOrder DEF OrderInv
    <3> QED
      BY <3>1, <3>2, <3>3
  <2> QED
    BY <2>2, <2>3 DEF OrderInv
<1>2. CASE PostFirst
  <2>1. /\ UNCHANGED <<seen, val, was, now>> /\ csub \in Sub
        /\ ev_que[csub] \in Que /\ Post(csub, val[csub])
    BY <1>2 DEF PostFirst, PostAndNote, UseInv, Serving
  <2> PICK s \in Sub : s = csub
    BY <2>1
  <2>2. ASSUME NEW t \in Simple, t # s PROVE Ordered(t)'
    BY <2>1, <2>2, PostOthers DEF OrderInv
  <2>3. ASSUME s \in Simple PROVE Ordered(s)'
    <3>1. /\ val[s] \in was[s] /\ val[s] \in Int /\ \A w \in was[s] : w <= val[s]
          /\ Called(s) <= val[s]
      BY <1>0, <2>3 DEF OrderInv, Ordered, Past, Called, Nothing
    <3>2. Ordered(s) /\ val[s] \in was'[s] /\ was[s] \subseteq was'[s]
      BY <2>1, <2>3, <3>1 DEF OrderInv
    <3> QED
      BY <2>1, <2>3, <3>1, <3>2, PostOrder
  <2>4. \A t \in Sub : Past(t)'
    BY <2>1 DEF OrderInv, Past
  <2> QED
    BY <2>2, <2>3, <2>4 DEF OrderInv
<1>3. ASSUME UNCHANGED <<evque, valque, getix, task, event, fl, seen, val, was, now>>
      PROVE  OrderInv'
  BY <1>3 DEF OrderInv, Past, Ordered, InTurn, Events, Place, Called
<1>4. ASSUME NEW s \in Sub, Subscribe(s) \/ Unsubscribe(s) PROVE OrderInv'
  BY <1>3, <1>4 DEF Subscribe, db_add_event, Unsubscribe, SetEnabled
<1>5. CASE FlowOn \/ FlowOff \/ Close
  BY <1>3, <1>5 DEF FlowOn, FlowOff, FlowControl, Close, db_close_events
<1>6. CASE Enable \/ Flushed \/ SendBatch
  BY <1>3, <1>6 DEF Enable, SetEnabled, Flushed, WaitFlush, SendBatch, queueVars
<1>7. CASE PurgeEvents
  <2>1. /\ UNCHANGED <<getix, task, event, fl, seen, val, was, now>>
        /\ \A q \in Que : \A i \in Slot : \A t \in Sub :
             evque'[q][i] = t => evque[q][i] = t /\ valque'[q][i] = valque[q][i]
    <3>1. csub \in Sub /\ ev_que[csub] \in Que /\ Purge(csub)
      BY <1>7 DEF PurgeEvents, UseInv, Serving
    <3>2. PICK p \in Que : p = ev_que[csub]
      BY <3>1
    <3>3. /\ evque \in [Que -> [Slot -> Sub \cup {EVENTQEMPTY, canceledEvent}]]
          /\ valque \in [Que -> [Slot -> 0 .. MaxChanges]]
      BY DEF TypeOK, RingType
    <3> QED
      BY <1>7, <3>1, <3>2, <3>3 DEF PurgeEvents, Purge, Mine
  <2>2. ASSUME NEW t \in Simple PROVE Ordered(t)'
    <3>1. \A q \in Que : Events(q, t)' \subseteq Events(q, t)
                         /\ \A i \in Events(q, t)' : valque'[q][i] = valque[q][i]
      BY <1>0, <2>1 DEF Events
    <3> QED
      BY <2>1, <3>1, OrderKept DEF OrderInv, Called
  <2> QED
    BY <2>1, <2>2 DEF OrderInv, Past
<1>8. CASE Freed /\ MustWait(csub)
  BY <1>3, <1>8 DEF Freed, queueVars
<1>9. CASE Freed /\ ~ MustWait(csub)
  <2>1. /\ UNCHANGED <<evque, valque, getix, task, event, fl, val, was, now>>
        /\ seen' = [seen EXCEPT ![csub] = Nothing] /\ csub \in Sub /\ event # csub
        /\ \A q \in Que : Events(q, csub) = {}
    BY <1>9 DEF Freed, Free, MustWait, UseInv, Serving, Ours, Owned, Events
  <2>2. ASSUME NEW t \in Simple PROVE Ordered(t)'
    <3>1. CASE t # csub
      <4>1. seen'[t] = seen[t]
        BY <1>0, <2>1, <3>1
      <4> QED
        BY <2>1, <4>1, OrderKept DEF OrderInv, Events, Called
    <3>2. CASE t = csub
      BY <2>1, <3>2 DEF Ordered, Events
    <3> QED
      BY <3>1, <3>2
  <2> QED
    BY <1>0, <2>1, <2>2 DEF OrderInv, Past
<1>10. CASE Walk /\ (Wake \/ EndOfList \/ SkipQueue \/ LockQueue \/ EndOfQueue
                     \/ CallbackReturns)
  <2>1. /\ UNCHANGED <<evque, valque, getix, seen, val, was, now>>
        /\ task # "call" /\ task' # "call"
    BY <1>10 DEF Walk, Wake, EndOfList, SkipQueue, LockQueue, EndOfQueue, CallbackReturns
  <2> QED
    BY <2>1 DEF OrderInv, Past, Ordered, InTurn, Events, Place, Called
<1>11. CASE Walk /\ (SkipCanceled \/ TakeEvent)
  <2>1. PICK q \in Que : q = taskQue
    BY <1>11 DEF SkipCanceled, TakeEvent, TypeOK, TaskType
  <2>2. /\ evque' = [evque EXCEPT ![q][getix[q]] = EVENTQEMPTY]
        /\ getix' = [getix EXCEPT ![q] = RNGINC(@)]
        /\ UNCHANGED <<seen, val, was, now>> /\ task = "read"
        /\ \A t \in Sub : task' = "call" /\ event' = t
             => evque[q][getix[q]] = t /\ fl' = valque[q][getix[q]]
    BY <1>11, <2>1 DEF Walk, SkipCanceled, TakeEvent
  <2>3. \A r \in Que : \A i \in Slot : r # q \/ i # getix[q] => valque'[r][i] = valque[r][i]
    BY <1>11, <2>1 DEF SkipCanceled, TakeEvent, TypeOK, RingType
  <2>4. ASSUME NEW t \in Simple PROVE Ordered(t)'
    <3>1. /\ Ordered(t) /\ ~ (task = "call" /\ event = t)
          /\ task' = "call" /\ event' = t
             => evque[q][getix[q]] = t /\ fl' = valque[q][getix[q]]
      BY <1>0, <2>2 DEF OrderInv
    <3>2. /\ evque' = [evque EXCEPT ![q][getix[q]] = EVENTQEMPTY]
          /\ getix' = [getix EXCEPT ![q] = RNGINC(@)]
          /\ UNCHANGED <<seen, was>>
      BY <2>2
    <3> QED
      BY <2>3, <3>1, <3>2, HeadOrder
  <2> QED
    BY <2>2, <2>4 DEF OrderInv, Past
<1>12. CASE read_reply
  <2>1. /\ UNCHANGED <<evque, valque, getix, event, val, was, now>>
        /\ task = "call" /\ task' = "done"
        /\ seen' = [seen EXCEPT ![event] = CallbackValue]
    BY <1>12 DEF read_reply, CallbackRuns
  <2>2. /\ event \in Sub /\ seen'[event] = CallbackValue /\ CallbackValue \in was[event]
        /\ \A t \in Sub : t # event => seen'[t] = seen[t]
    BY <1>0, <2>1, CallbackIsPast
  <2>3. ASSUME NEW t \in Simple PROVE Ordered(t)'
    <3>1. Called(t)' = Called(t)
      BY <1>0, <2>1, <2>2 DEF Called, CallbackValue
    <3> QED
      BY <2>1, <3>1 DEF OrderInv, Ordered, InTurn, Events, Place
  <2> QED
    BY <2>1, <2>2, <2>3 DEF OrderInv, Past
<1>13. CASE (\E c \in Sub \cup {0} : Signals(c)) \/ UNCHANGED vars
  BY <1>3, <1>13 DEF Signals, Signal, vars, queueVars
<1> QED
  BY <1>1, <1>2, <1>4, <1>5, <1>6, <1>7, <1>8, <1>9, <1>10, <1>11, <1>12, <1>13
  DEF Next, Proceed, event_task, Walk

-----------------------------------------------------------------------------
(* Every step is one of Monitor, or none.                                  *)
LEMMA MonitorStep ==
  ASSUME TypeOK, UseInv, OrderInv, [Next]_vars
  PROVE  [Mon!Next]_Mon!vars
<1> USE Names
<1> USE DEF ringVars, subVars, semVars, modeVars, taskVars, recordVars, serveVars, historyVars
<1> DEFINE subscribed == [s \in Sub |-> ev_que[s] # 0]
<1>0. /\ ev_que \in [Sub -> Que \cup {0}] /\ was \in [Sub -> SUBSET (0 .. MaxChanges)]
      /\ now \in 0 .. MaxChanges
  BY DEF TypeOK, SubType, RecordType
<1>1. ASSUME UNCHANGED <<was, ev_que, seen>> PROVE UNCHANGED Mon!vars
  BY <1>1 DEF Mon!vars
<1>2. ASSUME NEW s \in Sub, Change(s) PROVE Mon!Next
  <2>1. UNCHANGED <<ev_que, seen>>
    BY <1>2 DEF Change, PostAndNote, Post, queueVars
  <2>2. /\ was' = [was EXCEPT ![s] = @ \cup {now + 1}] /\ now + 1 \in 0 .. MaxChanges
        /\ \A w \in was[s] : now + 1 > w
    <3>1. \A w \in was[s] : w \in Int /\ w <= val[s] /\ val[s] <= now /\ val[s] \in Int
      BY <1>0 DEF OrderInv, Past, TypeOK, RecordType
    <3> QED
      BY <1>0, <1>2, <3>1, BoundsAssumption DEF Change
  <2>3. Mon!Change(s)
    BY <2>1, <2>2 DEF Mon!Change
  <2> QED
    BY <2>3 DEF Mon!Next
<1>3. ASSUME NEW s \in Sub, Subscribe(s) PROVE Mon!Next
  <2>1. ev_que[s] = 0 /\ UNCHANGED <<was, seen>>
    BY <1>3 DEF Subscribe, db_add_event
  <2>2. PICK q \in Que : ev_que' = [ev_que EXCEPT ![s] = q]
    BY <1>3 DEF Subscribe, db_add_event
  <2>3. subscribed' = [subscribed EXCEPT ![s] = TRUE]
    BY <1>0, <2>2
  <2>4. Mon!Subscribe(s)
    BY <2>1, <2>3 DEF Mon!Subscribe
  <2> QED
    BY <2>4 DEF Mon!Next
<1>4. CASE Freed /\ ~ MustWait(csub)
  <2>1. /\ csub \in Sub /\ ev_que[csub] # 0
        /\ ev_que' = [ev_que EXCEPT ![csub] = 0]
        /\ seen' = [seen EXCEPT ![csub] = Nothing] /\ UNCHANGED was
    BY <1>4 DEF Freed, Free, UseInv, Serving
  <2> PICK s \in Sub : s = csub
    BY <2>1
  <2>2. subscribed' = [subscribed EXCEPT ![s] = FALSE]
    BY <1>0, <2>1
  <2>3. Mon!Cancel(s)
    BY <2>1, <2>2 DEF Mon!Cancel, Mon!Nothing, Nothing
  <2> QED
    BY <2>1, <2>3 DEF Mon!Next
<1>5. CASE read_reply
  <2>1. /\ UNCHANGED <<was, ev_que>> /\ task = "call"
        /\ seen' = [seen EXCEPT ![event] = CallbackValue]
    BY <1>5 DEF read_reply, CallbackRuns
  <2>2. event \in Sub /\ ev_que[event] # 0
    BY <2>1 DEF UseInv, Calling, TypeOK, TaskType
  <2>3. CallbackValue \in was[event] /\ CallbackValue >= seen[event]
    <3>1. seen[event] \in Int
      BY <2>2 DEF TypeOK, RecordType
    <3> QED
      BY <2>1, <3>1, CallbackIsPast
  <2>4. Mon!Update(event)
    BY <2>1, <2>2, <2>3 DEF Mon!Update
  <2> QED
    BY <2>2, <2>4 DEF Mon!Next
<1>6. CASE \/ PostFirst \/ Enable \/ PurgeEvents \/ Flushed \/ (Freed /\ MustWait(csub))
           \/ SendBatch \/ \E s \in Sub : Unsubscribe(s)
  BY <1>1, <1>6 DEF PostFirst, PostAndNote, Post, Enable, SetEnabled, PurgeEvents, Purge,
     Flushed, WaitFlush, Freed, SendBatch, Unsubscribe, queueVars
<1>7. CASE FlowOn \/ FlowOff \/ Close \/ (\E c \in Sub \cup {0} : Signals(c)) \/ UNCHANGED vars
  BY <1>1, <1>7 DEF FlowOn, FlowOff, FlowControl, Close, db_close_events, Signals, Signal,
     vars, queueVars
<1>8. CASE Walk
  BY <1>1, <1>8 DEF Walk, Wake, EndOfList, SkipQueue, LockQueue, EndOfQueue, SkipCanceled,
     TakeEvent, CallbackReturns
<1> QED
  BY <1>2, <1>3, <1>4, <1>5, <1>6, <1>7, <1>8 DEF Next, Proceed, event_task

(* Nothing has been said at the start.                                     *)
LEMMA OrderInit == Init => OrderInv
<1> SUFFICES ASSUME Init PROVE OrderInv
  OBVIOUS
<1>1. /\ Start \in Slot /\ Simple \subseteq Sub /\ task # "call"
      /\ \A q \in Que : \A s \in Sub : Events(q, s) = {}
  BY EventQueueAssumption, Names DEF Init, QueueInit, Events
<1> QED
  BY <1>1 DEF Init, OrderInv, Past, Ordered

(* The server and the rings do what Monitor promises for each              *)
(* subscription: only values the channel has had, none older than one      *)
(* before it, and none once the subscription has been given back.          *)
THEOREM MonitorsImplementMonitor == Spec => ImplementsMonitor
<1>1. Init => TypeOK /\ UseInv /\ RingInv /\ OrderInv
  BY TypeInit, UseInit, RingInit, OrderInit
<1>2. Init => Mon!Init
  BY DEF Init, QueueInit, Mon!Init, Mon!Nothing, Nothing
<1>3. TypeOK /\ UseInv /\ RingInv /\ OrderInv /\ [Next]_vars
      => /\ TypeOK' /\ UseInv' /\ RingInv' /\ OrderInv'
         /\ [Mon!Next]_Mon!vars
  BY UseStep, RingStep, OrderStep, MonitorStep
<1> QED
  BY <1>1, <1>2, <1>3, PTL DEF Spec, ImplementsMonitor, Mon!Spec

-----------------------------------------------------------------------------
(* Updates of t that are on their way; and t has been subscribed to, but   *)
(* has not been called yet with its first value.                           *)
InCall(t) == task = "call" /\ event = t

Waiting(t) == npend[t] + IF InCall(t) THEN 1 ELSE 0

Fresh(t) == seen[t] = Nothing /\ Waiting(t) <= 1

Ahead(q, t, i) == \A j \in Events(q, t) : Place(q, j) < Place(q, i)

Behind(q, t, i) ==
  Fresh(t) /\ ~ InCall(t) /\ \A j \in Events(q, t) : Place(q, i) < Place(q, j)

(* What the client is told of s it is told after what it is told of t, if  *)
(* it is younger, or t was not subscribed to then.                         *)
After(q, s, t) ==
  /\ val[t] < Called(s) => Waiting(t) = 0 \/ Fresh(t)
  /\ \A i \in Events(q, s) : val[t] < valque[q][i] => Ahead(q, t, i) \/ Behind(q, t, i)

Together(q, s, t) ==
  /\ s # t /\ ev_que[s] = q /\ ev_que[t] = q
  /\ ~ replaced[s] /\ Watched(t) /\ ~ missed[t]

Unposted(s) == ev_que[s] = 0 \/ (cpc = "post" /\ csub = s)

AcrossInv ==
  /\ \A s \in Sub : Unposted(s) => seen[s] = Nothing /\ npend[s] = 0 /\ event # s
  /\ \A q \in Que, s \in Simple, t \in Sub : Together(q, s, t) => After(q, s, t)

(* Nothing happens to either.                                              *)
LEMMA AfterKept ==
  ASSUME NEW q, NEW s, NEW t, After(q, s, t), UNCHANGED getix,
         val'[t] = val[t], seen'[t] = seen[t], npend'[t] = npend[t],
         Called(s)' = Called(s), InCall(t)' <=> InCall(t),
         Events(q, t)' \subseteq Events(q, t), Events(q, s)' \subseteq Events(q, s),
         \A i \in Events(q, s)' : valque'[q][i] = valque[q][i]
  PROVE  After(q, s, t)'
<1>1. (Waiting(t)' = Waiting(t)) /\ (Fresh(t)' <=> Fresh(t))
  BY DEF Waiting, Fresh
<1>2. \A j : Place(q, j)' = Place(q, j)
  BY DEF Place
<1>3. val'[t] < Called(s)' => Waiting(t)' = 0 \/ Fresh(t)'
  BY <1>1 DEF After
<1>4. ASSUME NEW i \in Events(q, s)', val'[t] < valque'[q][i]
      PROVE  Ahead(q, t, i)' \/ Behind(q, t, i)'
  <2>1. Ahead(q, t, i) \/ Behind(q, t, i)
    BY <1>4 DEF After
  <2> QED
    BY <1>1, <1>2, <2>1 DEF Ahead, Behind
<1> QED
  BY <1>3, <1>4 DEF After

(* An event of s is added behind those of t.                               *)
LEMMA AfterAppend ==
  ASSUME TypeOK, RingInv, NEW q \in Que, NEW s \in Simple, NEW t \in Sub, s # t,
         After(q, s, t), ev_que[s] = q, NEW v, Post(s, v), ~ Replaces(s),
         val'[t] = val[t], UNCHANGED seen
  PROVE  After(q, s, t)'
<1> USE Names
<1> USE DEF ringVars, subVars, modeVars, taskVars
<1>0. s \in Sub
  BY EventQueueAssumption
<1>1. CASE UNCHANGED <<ringVars, signalling>>
  BY <1>1, AfterKept DEF Post, Called, InCall, Events
<1>2. CASE AddEvent(s, v)
  <2> PICK p \in Slot : p = putix[q]
    BY Ends
  <2> PICK g \in Slot : g = getix[q]
    BY Ends
  <2>1. /\ evque[q][p] = EVENTQEMPTY
        /\ evque' = [evque EXCEPT ![q][p] = s]
        /\ \A i \in Slot : i # p => valque'[q][i] = valque[q][i]
        /\ evque \in [Que -> [Slot -> Sub \cup {EVENTQEMPTY, canceledEvent}]]
        /\ npend'[t] = npend[t] /\ UNCHANGED <<getix, task, event, fl>>
    BY <1>0, <1>2 DEF Post, AddEvent, TypeOK, RingType, SubType
  <2>2. Events(q, s)' = Events(q, s) \cup {p} /\ Events(q, t)' = Events(q, t)
    BY <1>0, <2>1 DEF Events
  <2>3. \A i \in Slot : evque[q][i] # EVENTQEMPTY => At(g, i) < At(g, p)
    <3>1. Ring(evque[q], g, p) /\ s # EVENTQEMPTY
      BY <1>0 DEF RingInv, Shape
    <3>2. /\ evque[q] \in [Slot -> Sub \cup {EVENTQEMPTY, canceledEvent}]
          /\ evque[q][p] = EVENTQEMPTY
      BY <2>1
    <3>3. /\ Ring([evque[q] EXCEPT ![p] = s], g, RNGINC(p))
          /\ \A i \in Slot : evque[q][i] # EVENTQEMPTY => At(g, i) < At(g, p)
      BY <3>1, <3>2, AppendRing
    <3> QED
      BY <3>3
  <2>4. \A j \in Slot : Place(q, j)' = At(g, j) /\ Place(q, j) = At(g, j)
    BY <2>1 DEF Place, At
  <2>5. /\ (Waiting(t)' = Waiting(t)) /\ (Fresh(t)' <=> Fresh(t))
        /\ (InCall(t)' <=> InCall(t)) /\ Called(s)' = Called(s)
    BY <2>1 DEF Waiting, Fresh, InCall, Called
  <2>6. ASSUME NEW i \in Events(q, s)', val'[t] < valque'[q][i]
        PROVE  Ahead(q, t, i)' \/ Behind(q, t, i)'
    <3>1. i \in Slot /\ \A j \in Events(q, t) : j \in Slot
      BY <2>2, <2>6 DEF Events
    <3>2. CASE i = p
      <4>1. \A j \in Events(q, t) : At(g, j) < At(g, p)
        BY <2>3 DEF Events
      <4> QED
        BY <2>2, <2>4, <3>1, <3>2, <4>1 DEF Ahead
    <3>3. CASE i # p
      <4>1. Ahead(q, t, i) \/ Behind(q, t, i)
        BY <2>1, <2>2, <2>6, <3>1, <3>3 DEF After
      <4> QED
        BY <2>2, <2>4, <2>5, <3>1, <4>1 DEF Ahead, Behind
    <3> QED
      BY <3>2, <3>3
  <2>7. val'[t] < Called(s)' => Waiting(t)' = 0 \/ Fresh(t)'
    BY <2>5 DEF After
  <2> QED
    BY <2>6, <2>7 DEF After
<1> QED
  BY <1>1, <1>2 DEF Post

(* A change of t is younger than all that is told of s.                    *)
LEMMA AfterChange ==
  ASSUME TypeOK', OrderInv', NEW q \in Que, NEW s \in Simple, NEW t \in Sub,
         val'[t] = now', val'[s] < now'
  PROVE  After(q, s, t)'
<1>0. s \in Sub
  BY EventQueueAssumption
<1>1. /\ val'[s] \in Int /\ seen'[s] \in Int /\ fl' \in Int /\ now' \in Int
      /\ was'[s] \subseteq Int /\ \A w \in was'[s] : w <= val'[s]
      /\ seen'[s] <= val'[s]
  BY <1>0 DEF TypeOK, TaskType, RecordType, OrderInv, Past, Nothing
<1>2. Called(s)' <= val'[s]
  BY <1>1 DEF OrderInv, Ordered, Called
<1>3. \A i \in Events(q, s)' : valque'[q][i] \in was'[s]
  BY DEF OrderInv, Ordered, InTurn
<1>4. ~ val'[t] < Called(s)' /\ \A i \in Events(q, s)' : ~ val'[t] < valque'[q][i]
  <2>1. Called(s)' \in Int
    BY <1>1 DEF Called
  <2> QED
    BY <1>1, <1>2, <1>3, <2>1
<1> QED
  BY <1>4 DEF After

(* The first value of t is posted behind all that is told of s.            *)
LEMMA AfterFirst ==
  ASSUME TypeOK, RingInv, NEW q \in Que, NEW s \in Simple, NEW t \in Sub, s # t,
         ev_que[t] = q, seen[t] = Nothing, npend[t] = 0, event # t,
         NEW v, Post(t, v), UNCHANGED seen
  PROVE  After(q, s, t)'
<1> USE Names
<1> USE DEF ringVars, subVars, modeVars, taskVars
<1>0. s \in Sub
  BY EventQueueAssumption
<1>1. AddEvent(t, v)
  BY DEF Post, Ignored, Replaces
<1> PICK p \in Slot : p = putix[q]
  BY Ends
<1> PICK g \in Slot : g = getix[q]
  BY Ends
<1>2. /\ evque[q][p] = EVENTQEMPTY
      /\ evque' = [evque EXCEPT ![q][p] = t]
      /\ evque \in [Que -> [Slot -> Sub \cup {EVENTQEMPTY, canceledEvent}]]
      /\ npend'[t] = 1 /\ UNCHANGED <<getix, task, event, fl>>
  BY <1>1 DEF Post, AddEvent, TypeOK, RingType, SubType
<1>3. Events(q, t) = {}
  <2>1. Events(q, t) \subseteq Slot /\ npend[t] = Cardinality(Events(q, t))
    BY DEF Events, RingInv, SubCounts
  <2> QED
    BY <2>1, SlotSets, FS_EmptySet
<1>4. Events(q, t)' = {p} /\ Events(q, s)' = Events(q, s)
  BY <1>0, <1>2, <1>3 DEF Events
<1>5. \A i \in Slot : evque[q][i] # EVENTQEMPTY => At(g, i) < At(g, p)
  <2>1. Ring(evque[q], g, p) /\ t # EVENTQEMPTY
    BY DEF RingInv, Shape
  <2>2. /\ evque[q] \in [Slot -> Sub \cup {EVENTQEMPTY, canceledEvent}]
        /\ evque[q][p] = EVENTQEMPTY
    BY <1>2
  <2>3. /\ Ring([evque[q] EXCEPT ![p] = t], g, RNGINC(p))
        /\ \A i \in Slot : evque[q][i] # EVENTQEMPTY => At(g, i) < At(g, p)
    BY <2>1, <2>2, AppendRing
  <2> QED
    BY <2>3
<1>6. Fresh(t)' /\ ~ InCall(t)'
  BY <1>2 DEF Fresh, Waiting, InCall
<1>7. ASSUME NEW i \in Events(q, s)' PROVE Behind(q, t, i)'
  <2>1. i \in Slot /\ evque[q][i] = s
    BY <1>4, <1>7 DEF Events
  <2>2. At(g, i) < At(g, p)
    BY <1>0, <1>5, <2>1
  <2>3. \A j \in Slot : Place(q, j)' = At(g, j)
    BY <1>2 DEF Place, At
  <2> QED
    BY <1>4, <1>6, <2>1, <2>2, <2>3 DEF Behind
<1> QED
  BY <1>6, <1>7 DEF After

(* An event of neither goes from the ring.                                 *)
LEMMA AfterHead ==
  ASSUME TypeOK, NEW q \in Que, NEW s \in Simple, NEW t \in Sub, After(q, s, t),
         NEW r \in Que,
         evque' = [evque EXCEPT ![r][getix[r]] = EVENTQEMPTY],
         getix' = [getix EXCEPT ![r] = RNGINC(@)],
         \A i \in Events(q, s)' : valque'[q][i] = valque[q][i],
         val'[t] = val[t], seen'[t] = seen[t],
         val[t] < Called(s)' => Waiting(t)' = 0 \/ Fresh(t)',
         Fresh(t) /\ ~ InCall(t) => \/ Fresh(t)' /\ ~ InCall(t)'
                                    \/ r = q /\ evque[q][getix[q]] = t
  PROVE  After(q, s, t)'
<1> USE Names
<1>0. s \in Sub
  BY EventQueueAssumption
<1> PICK g \in Slot : g = getix[q]
  BY Ends
<1>1. /\ evque \in [Que -> [Slot -> Sub \cup {EVENTQEMPTY, canceledEvent}]]
      /\ getix \in [Que -> Slot] /\ RNGINC(g) \in Slot
  BY Next_Slot DEF TypeOK, RingType
<1>2. \A i \in Slot : Place(q, i) = At(g, i) /\ At(g, i) \in Nat
                      /\ (i # g => At(g, i) > At(g, g))
  <2>1. \A i \in Slot : Place(q, i) = At(g, i)
    BY DEF Place, At
  <2> QED
    BY <2>1, Places
<1>3. CASE r # q
  <2>1. getix'[q] = g /\ evque'[q] = evque[q]
    BY <1>1, <1>3
  <2>2. /\ \A i : Place(q, i)' = Place(q, i)
        /\ Events(q, s)' = Events(q, s) /\ Events(q, t)' = Events(q, t)
    BY <2>1 DEF Place, Events
  <2>3. ASSUME NEW i \in Events(q, s)', val'[t] < valque'[q][i]
        PROVE  Ahead(q, t, i)' \/ Behind(q, t, i)'
    <3>1. Ahead(q, t, i) \/ Behind(q, t, i)
      BY <2>2, <2>3 DEF After
    <3> QED
      BY <1>3, <2>2, <3>1 DEF Ahead, Behind
  <2> QED
    BY <2>3 DEF After
<1>4. CASE r = q
  <2>1. getix'[q] = RNGINC(g) /\ evque'[q] = [evque[q] EXCEPT ![g] = EVENTQEMPTY]
    BY <1>1, <1>4
  <2>2. Events(q, s)' = Events(q, s) \ {g} /\ Events(q, t)' = Events(q, t) \ {g}
    BY <1>0, <1>1, <2>1 DEF Events
  <2>3. \A i \in Slot : i # g => Place(q, i)' = At(g, i) - 1
    <3>1. \A i \in Slot : Place(q, i)' = At(RNGINC(g), i)
      BY <2>1 DEF Place, At
    <3> QED
      BY <3>1, Nearer
  <2>4. ASSUME NEW i \in Events(q, s)', val'[t] < valque'[q][i]
        PROVE  Ahead(q, t, i)' \/ Behind(q, t, i)'
    <3>1. /\ i \in Slot /\ i # g /\ i \in Events(q, s)
          /\ \A j \in Events(q, t) : j \in Slot
      BY <2>2, <2>4 DEF Events
    <3>2. Ahead(q, t, i) \/ Behind(q, t, i)
      BY <2>4, <3>1 DEF After
    <3>3. CASE Ahead(q, t, i)
      BY <1>2, <2>2, <2>3, <3>1, <3>3 DEF Ahead
    <3>4. CASE Behind(q, t, i)
      <4>1. g \notin Events(q, t)
        BY <1>2, <3>1, <3>4 DEF Behind
      <4>2. Fresh(t)' /\ ~ InCall(t)'
        BY <3>4, <4>1 DEF Behind, Events
      <4> QED
        BY <1>2, <2>2, <2>3, <3>1, <3>4, <4>2 DEF Behind
    <3> QED
      BY <3>2, <3>3, <3>4
  <2> QED
    BY <2>4 DEF After
<1> QED
  BY <1>3, <1>4

(* An event is taken: of s, and then those of t that came before have      *)
(* been, or of t, which still is on its way.                               *)
LEMMA AfterTake ==
  ASSUME TypeOK, UseInv, RingInv, NEW q \in Que, NEW s \in Simple, NEW t \in Sub, s # t,
         After(q, s, t), ev_que[s] = q, ev_que[t] = q, user_sub[t],
         SkipCanceled \/ TakeEvent, UNCHANGED <<seen, val>>
  PROVE  After(q, s, t)'
<1> USE Names
<1> USE DEF ringVars, subVars, modeVars, taskVars
<1>0. s \in Sub
  BY EventQueueAssumption
<1> PICK r \in Que : r = taskQue
  BY DEF SkipCanceled, TakeEvent, TypeOK, TaskType
<1> PICK g \in Slot : g = getix[r]
  BY Ends
<1>1. /\ evque' = [evque EXCEPT ![r][getix[r]] = EVENTQEMPTY]
      /\ getix' = [getix EXCEPT ![r] = RNGINC(@)]
      /\ task = "read" /\ npend \in [Sub -> Int]
      /\ evque \in [Que -> [Slot -> Sub \cup {EVENTQEMPTY, canceledEvent}]]
      /\ valque \in [Que -> [Slot -> 0 .. MaxChanges]]
  BY DEF SkipCanceled, TakeEvent, TypeOK, RingType, SubType
<1>2. \A i \in Events(q, s)' : valque'[q][i] = valque[q][i]
  <2>1. \A p \in Que : \A i \in Slot : p # r \/ i # g => valque'[p][i] = valque[p][i]
    BY <1>1 DEF SkipCanceled, TakeEvent
  <2>2. g \notin Events(r, s)'
    BY <1>0, <1>1 DEF Events
  <2> QED
    BY <2>1, <2>2 DEF Events
<1>3. npend[t] = Cardinality(Events(q, t)) /\ npend[t] \in Nat
  <2>1. npend[t] = Cardinality(Events(q, t)) /\ Events(q, t) \subseteq Slot
    BY DEF RingInv, SubCounts, Events
  <2> QED
    BY <2>1, SlotSets
<1>4. CASE evque[r][g] # t
  <2>1. /\ npend'[t] = npend[t] /\ ~ InCall(t) /\ ~ InCall(t)'
    BY <1>1, <1>4 DEF SkipCanceled, TakeEvent, InCall
  <2>2. Waiting(t) = npend[t] /\ Waiting(t)' = npend[t] /\ (Fresh(t)' <=> Fresh(t))
    BY <1>3, <2>1 DEF Waiting, Fresh
  <2>3. ASSUME val[t] < Called(s)' PROVE Waiting(t)' = 0 \/ Fresh(t)'
    <3>1. CASE Called(s)' = Called(s)
      BY <2>2, <2>3, <3>1 DEF After
    <3>2. CASE Called(s)' # Called(s)
      <4>1. TakeEvent /\ evque[r][g] = s /\ Called(s)' = valque[r][g]
        BY <1>1, <3>2 DEF SkipCanceled, TakeEvent, Called
      <4>2. r = q /\ g \in Events(q, s)
        BY <1>0, <4>1 DEF UseInv, Owned, Events
      <4>3. Ahead(q, t, g) \/ Behind(q, t, g)
        BY <2>3, <4>1, <4>2 DEF After
      <4>4. Ahead(q, t, g) => Events(q, t) = {}
        <5>1. \A j \in Slot : Place(q, j) = At(g, j) /\ At(g, j) \in Nat /\ At(g, g) = 0
          BY <4>2, Places DEF Place, At
        <5> QED
          BY <5>1 DEF Ahead, Events
      <4>5. Events(q, t) = {} => npend[t] = 0
        BY <1>3, FS_EmptySet
      <4> QED
        BY <2>2, <4>3, <4>4, <4>5 DEF Behind
    <3> QED
      BY <3>1, <3>2
  <2> QED
    BY <1>1, <1>2, <2>1, <2>2, <2>3, AfterHead
<1>5. CASE evque[r][g] = t
  <2>1. /\ npend'[t] = npend[t] - 1 /\ ~ InCall(t) /\ InCall(t)' /\ r = q
        /\ Called(s)' = Called(s)
    <3>1. TakeEvent /\ r = q
      BY <1>1, <1>5 DEF SkipCanceled, UseInv, Owned
    <3> QED
      BY <1>1, <1>5, <3>1 DEF TakeEvent, InCall, Called
  <2>2. Waiting(t) = npend[t] /\ Waiting(t)' = npend[t] /\ (Fresh(t)' <=> Fresh(t))
    BY <1>3, <2>1 DEF Waiting, Fresh
  <2>3. val[t] < Called(s)' => Waiting(t)' = 0 \/ Fresh(t)'
    BY <2>1, <2>2 DEF After
  <2> QED
    BY <1>1, <1>2, <1>5, <2>1, <2>3, AfterHead
<1> QED
  BY <1>4, <1>5

(* A callback hands over its value.                                        *)
LEMMA AfterCall ==
  ASSUME TypeOK, RingInv, NEW q \in Que, NEW s \in Simple, NEW t \in Sub, s # t,
         After(q, s, t), ev_que[t] = q, read_reply
  PROVE  After(q, s, t)'
<1>0. s \in Sub
  BY EventQueueAssumption
<1>1. /\ UNCHANGED <<evque, valque, getix, npend, event, val>>
      /\ task = "call" /\ task' = "done"
      /\ seen' = [seen EXCEPT ![event] = CallbackValue]
      /\ seen \in [Sub -> -1 .. MaxChanges] /\ npend \in [Sub -> Int]
  BY DEF read_reply, CallbackRuns, ringVars, recordVars, TypeOK, SubType, RecordType
<1>2. Called(s)' = Called(s)
  BY <1>0, <1>1 DEF Called, CallbackValue
<1>3. npend[t] \in Nat
  <2>1. npend[t] = Cardinality(Events(q, t)) /\ Events(q, t) \subseteq Slot
    BY Names DEF RingInv, SubCounts, Events
  <2> QED
    BY <2>1, SlotSets
<1>4. \A i : /\ Place(q, i)' = Place(q, i)
             /\ Events(q, s)' = Events(q, s) /\ Events(q, t)' = Events(q, t)
  BY <1>1 DEF Place, Events
<1>5. CASE event = t
  <2>1. InCall(t) /\ Waiting(t) = npend[t] + 1 /\ Waiting(t)' = npend[t]
    BY <1>1, <1>3, <1>5 DEF InCall, Waiting
  <2>2. val[t] < Called(s) => Waiting(t)' = 0
    BY <1>3, <2>1 DEF After, Fresh
  <2>3. \A i \in Events(q, s) : val[t] < valque[q][i] => Ahead(q, t, i)
    BY <2>1 DEF After, Behind
  <2> QED
    BY <1>1, <1>2, <1>4, <2>2, <2>3 DEF After, Ahead
<1>6. CASE event # t
  <2>1. seen'[t] = seen[t] /\ (InCall(t)' <=> InCall(t))
    BY <1>1, <1>6 DEF InCall
  <2> QED
    BY <1>1, <1>2, <1>4, <2>1, AfterKept
<1> QED
  BY <1>5, <1>6

(* Nothing is told of a subscription before its first post.                *)
LEMMA UnpostedStep ==
  ASSUME TypeOK, UseInv, RingInv, RingInv', AcrossInv, [Next]_vars, NEW s \in Sub, Unposted(s)'
  PROVE  seen'[s] = Nothing /\ npend'[s] = 0 /\ event' # s
<1> USE Names
<1> USE DEF ringVars, subVars, semVars, modeVars, taskVars, recordVars, serveVars, historyVars
<1>0. /\ npend \in [Sub -> Int] /\ ev_que \in [Sub -> Que \cup {0}]
      /\ seen \in [Sub -> -1 .. MaxChanges]
  BY DEF TypeOK, SubType, RecordType
<1>1. ASSUME Unposted(s), seen'[s] = seen[s], npend'[s] = npend[s], event' \in {0, event}
      PROVE  seen'[s] = Nothing /\ npend'[s] = 0 /\ event' # s
  BY <1>1 DEF AcrossInv
<1>2. ASSUME NEW u \in Sub, Change(u) PROVE seen'[s] = Nothing /\ npend'[s] = 0 /\ event' # s
  <2>1. UNCHANGED <<ev_que, cpc, csub, seen, event>> /\ Unposted(s)
    BY <1>2 DEF Change, PostAndNote, Post, queueVars, Unposted
  <2>2. enabled[u] => s # u
    BY <2>1 DEF Unposted, UseInv, Ours, Serving
  <2>3. npend'[s] = npend[s]
    BY <1>2, <2>2, PostElsewhere DEF Change, PostAndNote, UseInv, Ours, queueVars
  <2> QED
    BY <1>1, <2>1, <2>3
<1>3. CASE PostFirst
  <2>1. /\ csub \in Sub /\ ev_que[csub] \in Que /\ Post(csub, val[csub])
        /\ UNCHANGED <<ev_que, seen, event>> /\ cpc' = "enable"
    BY <1>3 DEF PostFirst, PostAndNote, Post, UseInv, Serving
  <2>2. Unposted(s) /\ s # csub
    BY <2>1 DEF Unposted
  <2>3. npend'[s] = npend[s]
    BY <2>1, <2>2, PostElsewhere
  <2> QED
    BY <1>1, <2>1, <2>2, <2>3
<1>4. ASSUME NEW u \in Sub, Subscribe(u) PROVE seen'[s] = Nothing /\ npend'[s] = 0 /\ event' # s
  <2>1. /\ UNCHANGED <<seen, npend, event>> /\ ev_que[u] = 0 /\ csub' = u
        /\ \A t \in Sub : t # u => ev_que'[t] = ev_que[t]
    BY <1>0, <1>4 DEF Subscribe, db_add_event
  <2>2. Unposted(s)
    BY <2>1 DEF Unposted
  <2> QED
    BY <1>1, <2>1, <2>2
<1>5. CASE PurgeEvents
  <2>1. /\ csub \in Sub /\ ev_que[csub] \in Que /\ cpc' \in {"flush", "free"}
        /\ UNCHANGED <<ev_que, seen, event>> /\ npend' = [npend EXCEPT ![csub] = 0]
    BY <1>5 DEF PurgeEvents, Purge, UseInv, Serving
  <2>2. Unposted(s) /\ s # csub
    BY <2>1 DEF Unposted
  <2> QED
    BY <1>0, <1>1, <2>1, <2>2
<1>6. CASE Freed /\ ~ MustWait(csub)
  <2>1. /\ csub \in Sub /\ cpc' = "batch" /\ UNCHANGED <<npend, event>> /\ event # csub
        /\ ev_que' = [ev_que EXCEPT ![csub] = 0] /\ seen' = [seen EXCEPT ![csub] = Nothing]
    BY <1>6 DEF Freed, Free, MustWait, UseInv, Serving, Ours
  <2>2. CASE s = csub
    <3>1. ev_que'[s] = 0
      BY <1>0, <2>1, <2>2
    <3> QED
      BY <1>0, <2>1, <2>2, <3>1 DEF RingInv, SubCounts
  <2>3. CASE s # csub
    <3>1. Unposted(s) /\ seen'[s] = seen[s]
      BY <1>0, <2>1, <2>3 DEF Unposted
    <3> QED
      BY <1>1, <2>1, <3>1
  <2> QED
    BY <2>2, <2>3
<1>7. CASE Walk /\ TakeEvent
  <2>1. /\ UNCHANGED <<ev_que, cpc, csub, seen>> /\ Unposted(s)
        /\ taskQue \in Que /\ evque[taskQue][getix[taskQue]] \in Sub
    BY <1>7 DEF Walk, TakeEvent, Unposted, TypeOK, TaskType
  <2>2. evque[taskQue][getix[taskQue]] # s
    <3>1. SUFFICES ASSUME evque[taskQue][getix[taskQue]] = s PROVE FALSE
      OBVIOUS
    <3>2. PICK q \in Que : q = taskQue
      BY <2>1
    <3>3. getix[q] \in Events(q, s) /\ ev_que[s] = q /\ Events(q, s) \subseteq Slot
      BY <3>1, <3>2, Ends DEF Events, UseInv, Owned
    <3>4. npend[s] = Cardinality(Events(q, s)) /\ npend[s] = 0
      BY <2>1, <3>3 DEF RingInv, SubCounts, AcrossInv
    <3> QED
      BY <3>3, <3>4, SlotSets, FS_EmptySet
  <2>3. npend'[s] = npend[s] /\ event' # s
    BY <1>0, <1>7, <2>1, <2>2 DEF TakeEvent
  <2> QED
    BY <2>1, <2>3 DEF AcrossInv
<1>8. CASE read_reply
  <2>1. /\ UNCHANGED <<ev_que, cpc, csub, npend, event>> /\ Unposted(s)
        /\ seen' = [seen EXCEPT ![event] = CallbackValue]
    BY <1>8 DEF read_reply, CallbackRuns, Unposted
  <2>2. event # s
    BY <2>1 DEF AcrossInv
  <2> QED
    BY <1>0, <1>1, <2>1, <2>2
<1>9. ASSUME UNCHANGED <<ev_que, seen, npend>>, event' \in {0, event},
             cpc' # "post" \/ UNCHANGED <<cpc, csub>>
      PROVE  seen'[s] = Nothing /\ npend'[s] = 0 /\ event' # s
  BY <1>1, <1>9 DEF Unposted
<1>10. CASE Enable \/ Flushed \/ (Freed /\ MustWait(csub)) \/ \E u \in Sub : Unsubscribe(u)
  BY <1>9, <1>10 DEF Enable, SetEnabled, Flushed, WaitFlush, Freed, Unsubscribe, queueVars
<1>11. CASE \/ FlowOn \/ FlowOff \/ Close \/ SendBatch
            \/ (\E c \in Sub \cup {0} : Signals(c)) \/ UNCHANGED vars
  BY <1>9, <1>11 DEF FlowOn, FlowOff, FlowControl, Close, db_close_events, SendBatch,
     Signals, Signal, vars, queueVars
<1>12. CASE Walk /\ ~ TakeEvent
  BY <1>9, <1>12 DEF Walk, Wake, EndOfList, SkipQueue, LockQueue, EndOfQueue, SkipCanceled,
     CallbackReturns
<1> QED
  BY <1>2, <1>3, <1>4, <1>5, <1>6, <1>7, <1>8, <1>10, <1>11, <1>12
  DEF Next, Proceed, event_task

(* Every step keeps what the client is told of s after what it is told of  *)
(* t.                                                                      *)
LEMMA AfterStep ==
  ASSUME TypeOK, TypeOK', UseInv, RingInv, DueInv, OrderInv, OrderInv', AcrossInv,
         [Next]_vars,
         NEW q \in Que, NEW s \in Simple, NEW t \in Sub, Together(q, s, t)'
  PROVE  After(q, s, t)'
<1> USE Names
<1> USE DEF ringVars, subVars, semVars, modeVars, taskVars, recordVars, serveVars, historyVars
<1>0. /\ s \in Sub /\ s # t /\ val \in [Sub -> 0 .. MaxChanges] /\ now \in Int
      /\ ev_que \in [Sub -> Que \cup {0}] /\ seen \in [Sub -> -1 .. MaxChanges]
      /\ replaced \in [Sub -> BOOLEAN] /\ missed \in [Sub -> BOOLEAN]
      /\ enabled \in [Sub -> BOOLEAN] /\ npend \in [Sub -> Int]
      /\ Together(q, s, t) => After(q, s, t)
  BY EventQueueAssumption DEF Together, TypeOK, SubType, RecordType, AcrossInv
<1>1. ASSUME NEW u \in Sub, u # s, u # t, ev_que[u] \in Que, NEW v, Post(u, v),
             After(q, s, t), val'[t] = val[t], UNCHANGED seen
      PROVE  After(q, s, t)'
  <2>1. UNCHANGED <<getix, task, event, fl>>
    BY <1>1 DEF Post, Replace, AddEvent
  <2>2. Called(s)' = Called(s) /\ (InCall(t)' <=> InCall(t))
    BY <1>1, <2>1 DEF Called, InCall
  <2>3. /\ npend'[t] = npend[t] /\ Events(q, t)' \subseteq Events(q, t)
        /\ Events(q, s)' \subseteq Events(q, s)
        /\ \A i \in Events(q, s)' : valque'[q][i] = valque[q][i]
    BY <1>0, <1>1, PostElsewhere
  <2> QED
    BY <1>1, <2>1, <2>2, <2>3, AfterKept
<1>2. ASSUME NEW u \in Sub, Change(u) PROVE After(q, s, t)'
  <2>1. /\ UNCHANGED <<ev_que, cpc, csub, enabled, seen>> /\ now' = now + 1
        /\ val' = [val EXCEPT ![u] = now + 1]
        /\ missed' = [missed EXCEPT ![u] = ~ enabled[u] /\ cpc = "enable" /\ csub = u]
    BY <1>2 DEF Change, PostAndNote, Post, queueVars
  <2>2. CASE u = t
    <3>1. val'[t] = now' /\ val'[s] = val[s] /\ val[s] <= now
      BY <1>0, <2>1, <2>2 DEF OrderInv, Past
    <3>2. val'[s] < now'
      BY <1>0, <2>1, <3>1
    <3> QED
      BY <3>1, <3>2, AfterChange
  <2>3. CASE u # t
    <3>1. replaced'[s] = (replaced[s] \/ (enabled[u] /\ u = s /\ Replaces(s)))
      BY <1>0, <1>2 DEF Change, PostAndNote
    <3>2. Together(q, s, t) /\ val'[t] = val[t]
      BY <1>0, <2>1, <2>3, <3>1 DEF Together, Watched
    <3>3. After(q, s, t) /\ ev_que[s] = q
      BY <1>0, <3>2 DEF Together
    <3>4. CASE ~ enabled[u]
      BY <1>2, <2>1, <3>2, <3>3, <3>4, AfterKept DEF Change, queueVars, Called, InCall, Events
    <3>5. CASE enabled[u] /\ u = s
      <4>1. Post(s, now + 1) /\ ~ Replaces(s)
        BY <1>2, <3>1, <3>5 DEF Change, PostAndNote, Together
      <4> QED
        BY <1>0, <2>1, <3>2, <3>3, <4>1, AfterAppend
    <3>6. CASE enabled[u] /\ u # s
      <4>1. Post(u, now + 1) /\ ev_que[u] \in Que
        BY <1>2, <3>6 DEF Change, PostAndNote, UseInv, Ours
      <4> QED
        BY <1>1, <2>1, <2>3, <3>2, <3>3, <3>6, <4>1
    <3> QED
      BY <3>4, <3>5, <3>6
  <2> QED
    BY <2>2, <2>3
<1>3. CASE PostFirst
  <2>1. /\ csub \in Sub /\ ev_que[csub] \in Que /\ Post(csub, val[csub])
        /\ UNCHANGED <<ev_que, csub, enabled, seen, val, missed>>
        /\ cpc = "post" /\ cpc' = "enable"
        /\ replaced' = [replaced EXCEPT ![csub] = @ \/ Replaces(csub)]
    BY <1>3 DEF PostFirst, PostAndNote, Post, UseInv, Serving
  <2> PICK u \in Sub : u = csub
    BY <2>1
  <2>2. ev_que[s] = q /\ ev_que[t] = q /\ Unposted(u)
    BY <2>1 DEF Together, Unposted
  <2>3. CASE u = t
    <3>1. seen[t] = Nothing /\ npend[t] = 0 /\ event # t
      BY <2>2, <2>3 DEF AcrossInv
    <3> QED
      BY <1>0, <2>1, <2>2, <2>3, <3>1, AfterFirst
  <2>4. CASE u # t
    <3>1. replaced'[s] = (replaced[s] \/ (u = s /\ Replaces(s)))
      BY <1>0, <2>1
    <3>2. Together(q, s, t)
      BY <2>1, <2>4, <3>1 DEF Together, Watched
    <3>3. u = s => ~ Replaces(s)
      BY <3>1 DEF Together
    <3> QED
      BY <1>0, <1>1, <2>1, <2>2, <2>4, <3>2, <3>3, AfterAppend
  <2> QED
    BY <2>3, <2>4
<1>4. ASSUME Together(q, s, t), UNCHANGED <<getix, task, event, fl>>,
             val'[t] = val[t], seen'[t] = seen[t], seen'[s] = seen[s], npend'[t] = npend[t],
             Events(q, t)' \subseteq Events(q, t), Events(q, s)' \subseteq Events(q, s),
             \A i \in Events(q, s)' : valque'[q][i] = valque[q][i]
      PROVE  After(q, s, t)'
  <2>1. Called(s)' = Called(s) /\ (InCall(t)' <=> InCall(t))
    BY <1>4 DEF Called, InCall
  <2> QED
    BY <1>0, <1>4, <2>1, AfterKept
<1>5. ASSUME NEW u \in Sub, Subscribe(u) PROVE After(q, s, t)'
  <2>1. /\ UNCHANGED <<evque, valque, getix, npend, task, event, fl, val, seen,
                       enabled, replaced, missed>>
        /\ cpc' = "post" /\ cpc \in {"idle", "batch"} /\ ev_que[u] = 0
        /\ \A r \in Sub : r # u => ev_que'[r] = ev_que[r]
    BY <1>0, <1>5 DEF Subscribe, db_add_event, Idle
  <2>2. \A r \in Sub : Events(q, r)' = Events(q, r)
    BY <2>1 DEF Events
  <2>3. CASE u = s
    <3>1. seen[s] = Nothing /\ event # s /\ val[t] \in Nat
      BY <1>0, <2>1, <2>3 DEF AcrossInv, Unposted
    <3>2. ~ val'[t] < Called(s)'
      BY <2>1, <3>1 DEF Called, Nothing
    <3>3. Events(q, s) = {}
      BY <2>1, <2>3 DEF Events, UseInv, Owned
    <3> QED
      BY <1>0, <2>2, <3>2, <3>3 DEF After
  <2>4. CASE u # s
    <3>1. enabled[t] /\ u # t
      BY <2>1 DEF Together, Watched, UseInv, Ours
    <3>2. Together(q, s, t)
      BY <1>0, <2>1, <2>4, <3>1 DEF Together, Watched
    <3> QED
      BY <1>0, <1>4, <2>1, <2>2, <3>2
  <2> QED
    BY <2>3, <2>4
<1>6. CASE Freed /\ ~ MustWait(csub)
  <2>1. /\ csub \in Sub /\ cpc' = "batch" /\ UNCHANGED <<evque, valque, getix, npend, task,
             event, fl, val, enabled>>
        /\ ev_que' = [ev_que EXCEPT ![csub] = 0]
        /\ \A r \in Sub : r # csub => /\ seen'[r] = seen[r] /\ replaced'[r] = replaced[r]
                                      /\ missed'[r] = missed[r]
    BY <1>0, <1>6 DEF Freed, Free, UseInv, Serving
  <2>2. s # csub /\ t # csub
    BY <1>0, <2>1 DEF Together
  <2>3. Together(q, s, t)
    BY <1>0, <2>1, <2>2 DEF Together, Watched
  <2>4. \A r \in Sub : Events(q, r)' = Events(q, r)
    BY <2>1 DEF Events
  <2> QED
    BY <1>0, <1>4, <2>1, <2>2, <2>3, <2>4
<1>7. CASE PurgeEvents
  <2>1. /\ csub \in Sub /\ ev_que[csub] \in Que /\ ~ enabled[csub] /\ Purge(csub)
        /\ UNCHANGED <<getix, task, event, fl, ev_que, enabled, val, seen, replaced, missed>>
        /\ npend' = [npend EXCEPT ![csub] = 0] /\ cpc' \in {"flush", "free"}
    BY <1>7 DEF PurgeEvents, Purge, UseInv, Serving
  <2>2. \A i \in Slot : \A r \in Sub :
          evque'[q][i] = r => evque[q][i] = r /\ valque'[q][i] = valque[q][i]
    <3>1. PICK p \in Que : p = ev_que[csub]
      BY <2>1
    <3>2. /\ evque \in [Que -> [Slot -> Sub \cup {EVENTQEMPTY, canceledEvent}]]
          /\ valque \in [Que -> [Slot -> 0 .. MaxChanges]]
      BY DEF TypeOK, RingType
    <3> QED
      BY <2>1, <3>1, <3>2 DEF Purge, Mine
  <2>3. Together(q, s, t) /\ t # csub
    BY <2>1 DEF Together, Watched
  <2>4. \A r \in Sub : Events(q, r)' \subseteq Events(q, r)
                       /\ \A i \in Events(q, r)' : valque'[q][i] = valque[q][i]
    BY <2>2 DEF Events
  <2> QED
    BY <1>0, <1>4, <2>1, <2>3, <2>4
<1>8. ASSUME UNCHANGED <<evque, valque, getix, npend, task, event, fl, val, seen, replaced,
                         missed, ev_que>>,
             Watched(t)' => Watched(t)
      PROVE  After(q, s, t)'
  <2>1. Together(q, s, t)
    BY <1>8 DEF Together
  <2>2. Events(q, s)' = Events(q, s) /\ Events(q, t)' = Events(q, t)
    BY <1>8 DEF Events
  <2> QED
    BY <1>4, <1>8, <2>1, <2>2
<1>9. CASE Enable \/ Flushed \/ (Freed /\ MustWait(csub)) \/ \E u \in Sub : Unsubscribe(u)
  BY <1>0, <1>8, <1>9 DEF Enable, SetEnabled, Flushed, WaitFlush, Freed, Unsubscribe,
     queueVars, Watched
<1>10. CASE \/ FlowOn \/ FlowOff \/ Close \/ SendBatch
            \/ (\E c \in Sub \cup {0} : Signals(c)) \/ UNCHANGED vars
  BY <1>8, <1>10 DEF FlowOn, FlowOff, FlowControl, Close, db_close_events, SendBatch,
     Signals, Signal, vars, queueVars, Watched
<1>11. CASE Walk /\ (SkipCanceled \/ TakeEvent)
  <2>1. UNCHANGED <<ev_que, enabled, cpc, csub, val, seen, replaced, missed>>
    BY <1>11 DEF Walk, SkipCanceled, TakeEvent
  <2>2. Together(q, s, t) /\ user_sub[t]
    BY <2>1 DEF Together, Watched, DueInv
  <2>3. ev_que[s] = q /\ ev_que[t] = q
    BY <2>2 DEF Together
  <2> QED
    BY <1>0, <1>11, <2>1, <2>2, <2>3, AfterTake
<1>12. CASE Walk /\ ~ (SkipCanceled \/ TakeEvent)
  <2>1. UNCHANGED <<ev_que, enabled, cpc, csub, val, seen, replaced, missed, evque, valque,
                    getix, npend>>
        /\ task # "call" /\ task' # "call"
    BY <1>12 DEF Walk, Wake, EndOfList, SkipQueue, LockQueue, EndOfQueue, CallbackReturns
  <2>2. Together(q, s, t) /\ Events(q, s)' = Events(q, s) /\ Events(q, t)' = Events(q, t)
    BY <2>1 DEF Together, Watched, Events
  <2>3. Called(s)' = Called(s) /\ (InCall(t)' <=> InCall(t))
    BY <2>1 DEF Called, InCall
  <2> QED
    BY <1>0, <2>1, <2>2, <2>3, AfterKept
<1>13. CASE read_reply
  <2>1. UNCHANGED <<ev_que, enabled, cpc, csub, replaced, missed>>
    BY <1>13 DEF read_reply, CallbackRuns
  <2>2. Together(q, s, t) /\ ev_que[t] = q
    BY <2>1 DEF Together, Watched
  <2> QED
    BY <1>0, <1>13, <2>2, AfterCall
<1> QED
  BY <1>2, <1>3, <1>5, <1>6, <1>7, <1>9, <1>10, <1>11, <1>12, <1>13
  DEF Next, Proceed, event_task

(* A client that has seen a change of a scalar has seen those before it on *)
(* its other monitors in the same queue, unless an event of the scalar was *)
(* replaced: what "Save must do before ACQ start" rests on.                *)
THEOREM MonitorsSeenInOrder == Spec => []SeenInOrder
<1>1. Init => TypeOK /\ UseInv /\ RingInv /\ DueInv /\ OrderInv /\ AcrossInv
  <2>1. Init => DueInv
    BY DEF Init, QueueInit, DueInv, Watched
  <2>2. ASSUME Init PROVE AcrossInv
    <3>1. /\ \A s \in Sub : seen[s] = Nothing /\ npend[s] = 0 /\ event # s
          /\ \A t \in Sub : ~ Watched(t)
      BY <2>2, Names DEF Init, QueueInit, Watched
    <3> QED
      BY <3>1 DEF AcrossInv, Together
  <2> QED
    BY <2>1, <2>2, TypeInit, UseInit, RingInit, OrderInit
<1>2. TypeOK /\ UseInv /\ RingInv /\ DueInv /\ OrderInv /\ AcrossInv /\ [Next]_vars
      => TypeOK' /\ UseInv' /\ RingInv' /\ DueInv' /\ OrderInv' /\ AcrossInv'
  <2> SUFFICES ASSUME TypeOK, UseInv, RingInv, DueInv, OrderInv, AcrossInv, [Next]_vars
      PROVE  TypeOK' /\ UseInv' /\ RingInv' /\ DueInv' /\ OrderInv' /\ AcrossInv'
    OBVIOUS
  <2>1. TypeOK' /\ UseInv' /\ RingInv' /\ DueInv' /\ OrderInv'
    BY UseStep, RingStep, DueStep, OrderStep
  <2>2. \A s \in Sub : Unposted(s)' => seen'[s] = Nothing /\ npend'[s] = 0 /\ event' # s
    BY <2>1, UnpostedStep
  <2>3. \A q \in Que, s \in Simple, t \in Sub : Together(q, s, t)' => After(q, s, t)'
    BY <2>1, AfterStep
  <2> QED
    BY <2>1, <2>2, <2>3 DEF AcrossInv
<1>3. TypeOK /\ RingInv /\ DueInv /\ OrderInv /\ AcrossInv => SeenInOrder
  <2> SUFFICES ASSUME TypeOK, RingInv, DueInv, OrderInv, AcrossInv,
                      NEW s \in Simple, NEW t \in Sub,
                      ev_que[s] # 0, ev_que[s] = ev_que[t], ~ replaced[s],
                      enabled[t], ~ missed[t], seen[t] # Nothing, val[t] < seen[s]
               PROVE  seen[t] = val[t]
    BY DEF SeenInOrder
  <2>1. s \in Sub /\ ev_que[s] \in Que
    BY EventQueueAssumption DEF TypeOK, SubType
  <2>2. /\ seen[s] \in Int /\ val[s] \in Int /\ val[t] \in Int /\ fl \in Int /\ npend[t] \in Int
        /\ seen[s] <= val[s]
    BY <2>1 DEF TypeOK, SubType, TaskType, RecordType, OrderInv, Past, Nothing
  <2>3. s # t
    BY <2>2 DEF OrderInv, Past, Nothing
  <2>4. val[t] < Called(s)
    BY <2>2 DEF OrderInv, Ordered, Called
  <2>5. Waiting(t) = 0
    <3>1. PICK q \in Que : q = ev_que[s]
      BY <2>1
    <3>2. Together(q, s, t)
      BY <2>3, <3>1 DEF Together, Watched
    <3> QED
      BY <2>4, <3>1, <3>2 DEF AcrossInv, After, Fresh
  <2>6. npend[t] = 0 /\ ~ InCall(t)
    <3>1. npend[t] >= 0
      <4>1. PICK q \in Que : q = ev_que[t]
        BY <2>1
      <4>2. npend[t] = Cardinality(Events(q, t)) /\ Events(q, t) \subseteq Slot
        BY <4>1, Names DEF RingInv, SubCounts, Events
      <4> QED
        BY <4>2, SlotSets
    <3> QED
      BY <2>2, <2>5, <3>1 DEF Waiting
  <2> QED
    BY <2>6 DEF DueInv, Watched, Newest, InCall
<1> QED
  BY <1>1, <1>2, <1>3, PTL DEF Spec

-----------------------------------------------------------------------------

(***************************************************************************)
(* The send buffer of CasMonitors: what event_task leaves in it is         *)
(* followed by an event it calls back for, if no cancel has made           *)
(* placeholders.                                                           *)
(***************************************************************************)

(* The ring holds events of subscriptions that have their callback, and    *)
(* placeholders only after a cancel.                                       *)
Live ==
  \A q \in Que : \A i \in Slot :
    /\ evque[q][i] \in Sub => user_sub[evque[q][i]]
    /\ evque[q][i] = canceledEvent => purged

(* No thread but event_task makes the next slot empty.                     *)
Remaining ==
  eventsRemaining => task = "call" /\ evque[taskQue][getix[taskQue]] # EVENTQEMPTY

SentInv == Live /\ Remaining /\ UnsentIsDue

(* Steps that leave the rings, event_task and the buffer alone.            *)
LEMMA SentKept ==
  ASSUME SentInv, UNCHANGED <<evque, getix, user_sub, task, taskQue, eventsRemaining,
                              unsent, purged>>,
         cpc' = "idle" => cpc = "idle"
  PROVE  SentInv'
BY DEF SentInv, Live, Remaining, UnsentIsDue

(* A posted event goes into a slot that was empty.                         *)
LEMMA PostSent ==
  ASSUME TypeOK, SentInv, NEW s \in Sub, ev_que[s] \in Que, user_sub[s], NEW v, Post(s, v),
         UNCHANGED <<unsent, purged>>, cpc' = "idle" => cpc = "idle"
  PROVE  SentInv'
<1> USE Names DEF ringVars, subVars, modeVars, taskVars
<1>1. UNCHANGED <<getix, user_sub, task, taskQue, eventsRemaining>>
  BY DEF Post, Replace, AddEvent
<1>2. \A q \in Que : \A i \in Slot :
        \/ evque'[q][i] = evque[q][i]
        \/ evque[q][i] = EVENTQEMPTY /\ evque'[q][i] = s
  <2>1. CASE AddEvent(s, v)
    BY <2>1 DEF AddEvent, TypeOK, RingType
  <2> QED
    BY <2>1 DEF Post, Replace
<1>3. Live'
  BY <1>1, <1>2 DEF SentInv, Live
<1>4. task \in {"read", "call", "done"} => taskQue \in Que /\ getix[taskQue] \in Slot
  BY DEF TypeOK, TaskType, RingType
<1>5. Remaining'
  BY <1>1, <1>2, <1>4 DEF SentInv, Remaining
<1>6. UnsentIsDue'
  BY <1>1, <1>2, <1>4 DEF SentInv, UnsentIsDue
<1> QED
  BY <1>3, <1>5, <1>6 DEF SentInv

(* A cancel makes placeholders of all of its events.                       *)
LEMMA PurgeSent ==
  ASSUME TypeOK, UseInv, RingInv, SentInv, PurgeEvents
  PROVE  SentInv'
<1> USE Names DEF ringVars, subVars, semVars, modeVars, taskVars
<1>1. PICK q \in Que : q = ev_que[csub] /\ csub \in Sub
  BY DEF PurgeEvents, UseInv, Serving
<1>2. /\ UNCHANGED <<getix, task, taskQue, eventsRemaining, unsent>>
      /\ user_sub' = [user_sub EXCEPT ![csub] = FALSE]
      /\ cpc' # "idle" /\ purged' = (purged \/ npend[csub] > 0)
  BY DEF PurgeEvents, Purge
<1>3. \A r \in Que : \A i \in Slot :
        IF r = q /\ evque[r][i] = csub THEN evque'[r][i] = canceledEvent
                                       ELSE evque'[r][i] = evque[r][i]
  BY <1>1 DEF PurgeEvents, Purge, Mine, TypeOK, RingType
<1>4. \A r \in Que : \A i \in Slot : evque[r][i] = csub => r = q
  BY <1>1 DEF UseInv, Owned
<1>5. (\E i \in Slot : evque[q][i] = csub) => npend[csub] > 0
  <2> SUFFICES ASSUME NEW i \in Slot, evque[q][i] = csub PROVE npend[csub] > 0
    OBVIOUS
  <2>1. Events(q, csub) # {} /\ Events(q, csub) \subseteq Slot
    BY DEF Events
  <2>2. IsFiniteSet(Events(q, csub)) /\ Cardinality(Events(q, csub)) \in Nat
    BY <2>1, SlotSets
  <2>3. Cardinality(Events(q, csub)) # 0
    BY <2>1, <2>2, FS_EmptySet
  <2>4. npend[csub] = Cardinality(Events(q, csub))
    BY <1>1 DEF RingInv, SubCounts
  <2> QED
    BY <2>2, <2>3, <2>4
<1>6. Live'
  <2> SUFFICES ASSUME NEW r \in Que, NEW i \in Slot
               PROVE  /\ evque'[r][i] \in Sub => user_sub'[evque'[r][i]]
                      /\ evque'[r][i] = canceledEvent => purged'
    BY DEF Live
  <2>1. CASE r = q /\ evque[r][i] = csub
    BY <1>2, <1>3, <1>5, <2>1
  <2>2. CASE ~ (r = q /\ evque[r][i] = csub)
    <3>1. evque'[r][i] = evque[r][i] /\ evque[r][i] # csub
      BY <1>3, <1>4, <2>2
    <3>2. \A t \in Sub : t # csub /\ user_sub[t] => user_sub'[t]
      BY <1>2 DEF TypeOK, SubType
    <3>3. /\ evque[r][i] \in Sub => user_sub[evque[r][i]]
          /\ evque[r][i] = canceledEvent => purged
      BY DEF SentInv, Live
    <3> QED
      BY <1>2, <3>1, <3>2, <3>3
  <2> QED
    BY <2>1, <2>2
<1>7. Remaining'
  <2>1. eventsRemaining => taskQue \in Que /\ getix[taskQue] \in Slot
    BY DEF SentInv, Remaining, TypeOK, TaskType, RingType
  <2> QED
    BY <1>2, <1>3, <2>1 DEF SentInv, Remaining
<1> QED
  BY <1>2, <1>6, <1>7 DEF SentInv, UnsentIsDue

(* event_task takes an event, and notes whether the slot behind is empty.  *)
LEMMA TakeSent ==
  ASSUME TypeOK, SentInv, TakeEvent, UNCHANGED <<cpc, unsent, purged>>
  PROVE  SentInv'
<1> USE Names
<1> DEFINE q == taskQue
           i == getix[q]
           s == evque[q][i]
           n == RNGINC(i)
<1>1. q \in Que /\ i \in Slot /\ n \in Slot /\ s \in Sub
  BY Next_Slot DEF TakeEvent, TypeOK, TaskType, RingType
<1>2. n # i
  <2>1. PICK j \in Int, z \in Int : j = i /\ z = EVENTQUESIZE /\ z > 1 /\ j \in 0 .. z - 1
    BY <1>1, QueueSize DEF Slot
  <2> QED
    BY <2>1 DEF RNGINC
<1>3. user_sub[s] /\ UNCHANGED <<user_sub, taskQue>>
  BY <1>1 DEF TakeEvent, SentInv, Live
<1>4. task' = "call" /\ eventsRemaining' = (evque[q][n] # EVENTQEMPTY)
  BY <1>3 DEF TakeEvent
<1>5. evque' = [evque EXCEPT ![q][i] = EVENTQEMPTY] /\ getix' = [getix EXCEPT ![q] = n]
  BY DEF TakeEvent
<1>6. Live'
  BY <1>1, <1>3, <1>5 DEF SentInv, Live, TypeOK, RingType
<1>7. getix'[q] = n /\ evque'[q][n] = evque[q][n]
  BY <1>1, <1>2, <1>5 DEF TypeOK, RingType
<1>8. Remaining'
  BY <1>3, <1>4, <1>7 DEF Remaining
<1> QED
  BY <1>4, <1>6, <1>8 DEF SentInv, UnsentIsDue

(* And calls back: what it is told to leave in the buffer is followed.     *)
LEMMA ReplySent ==
  ASSUME TypeOK, SentInv, read_reply
  PROVE  SentInv'
<1> USE Names DEF ringVars, subVars, semVars, modeVars, serveVars
<1>1. /\ UNCHANGED <<evque, getix, user_sub, taskQue, purged, cpc>>
      /\ task = "call" /\ task' = "done" /\ eventsRemaining' = FALSE
  BY DEF read_reply, CallbackRuns
<1>2. taskQue \in Que /\ getix[taskQue] \in Slot
      /\ evque[taskQue][getix[taskQue]] \in Sub \cup {EVENTQEMPTY, canceledEvent}
  BY <1>1 DEF TypeOK, TaskType, RingType
<1>3. unsent' => evque[taskQue][getix[taskQue]] # EVENTQEMPTY
  <2>1. \A b \in ToldRemaining : b => evque[taskQue][getix[taskQue]] # EVENTQEMPTY
    BY DEF ToldRemaining, SentInv, Remaining
  <2> QED
    BY <2>1 DEF read_reply
<1>4. ~ purged => evque[taskQue][getix[taskQue]] # canceledEvent
  BY <1>2 DEF SentInv, Live
<1>5. UnsentIsDue'
  BY <1>1, <1>2, <1>3, <1>4 DEF UnsentIsDue
<1> QED
  BY <1>1, <1>5 DEF SentInv, Live, Remaining

(* Every step keeps SentInv.                                               *)
LEMMA SentStep ==
  ASSUME TypeOK, UseInv, RingInv, DueInv, SentInv, [Next]_vars
  PROVE  SentInv'
<1> USE Names
<1> USE DEF ringVars, subVars, semVars, modeVars, taskVars, recordVars, serveVars, historyVars,
        sendVars
<1>1. ASSUME NEW s \in Sub, Change(s) PROVE SentInv'
  <2>1. CASE enabled[s]
    <3>1. ev_que[s] \in Que /\ user_sub[s] /\ Post(s, now + 1)
      BY <1>1, <2>1 DEF Change, PostAndNote, UseInv, Ours, DueInv, Watched
    <3> QED
      BY <1>1, <3>1, PostSent DEF Change
  <2>2. CASE ~ enabled[s]
    BY <1>1, <2>2, SentKept DEF Change, queueVars
  <2> QED
    BY <2>1, <2>2
<1>2. CASE PostFirst
  <2>1. /\ csub \in Sub /\ ev_que[csub] \in Que /\ user_sub[csub] /\ Post(csub, val[csub])
        /\ UNCHANGED <<unsent, purged>> /\ cpc' = "enable"
    BY <1>2 DEF PostFirst, PostAndNote, UseInv, Serving, DueInv
  <2> QED
    BY <2>1, PostSent
<1>3. ASSUME NEW s \in Sub, Subscribe(s) PROVE SentInv'
  <2>1. /\ user_sub' = [user_sub EXCEPT ![s] = TRUE] /\ cpc' = "post"
        /\ UNCHANGED <<evque, getix, task, taskQue, eventsRemaining, unsent, purged>>
    BY <1>3 DEF Subscribe, db_add_event
  <2>2. Live'
    BY <2>1 DEF SentInv, Live, TypeOK, SubType
  <2> QED
    BY <2>1, <2>2 DEF SentInv, Remaining, UnsentIsDue
<1>4. CASE Enable \/ Flushed \/ (Freed /\ MustWait(csub)) \/ \E s \in Sub : Unsubscribe(s)
  BY <1>4, SentKept DEF Enable, SetEnabled, Flushed, WaitFlush, Freed, Unsubscribe, queueVars
<1>5. CASE PurgeEvents
  BY <1>5, PurgeSent
<1>6. CASE (Freed /\ ~ MustWait(csub)) \/ SendBatch
  <2>1. /\ UNCHANGED <<evque, getix, user_sub, task, taskQue, eventsRemaining, purged>>
        /\ cpc' = "idle" => unsent' = FALSE
    BY <1>6 DEF Freed, Free, SendBatch, queueVars
  <2> QED
    BY <2>1 DEF SentInv, Live, Remaining, UnsentIsDue
<1>7. CASE FlowOn \/ FlowOff \/ Close \/ (\E c \in Sub \cup {0} : Signals(c)) \/ UNCHANGED vars
  BY <1>7, SentKept DEF FlowOn, FlowOff, FlowControl, Close, db_close_events, Signals, Signal,
     vars, queueVars
<1>8. CASE Walk /\ (Wake \/ EndOfList \/ SkipQueue \/ LockQueue \/ EndOfQueue \/ CallbackReturns)
  <2>1. UNCHANGED <<evque, getix, user_sub, eventsRemaining, unsent, purged, cpc>>
    BY <1>8 DEF Walk, Wake, EndOfList, SkipQueue, LockQueue, EndOfQueue, CallbackReturns
  <2>2. /\ task # "call" /\ ~ eventsRemaining
        /\ task \in {"done", "read"} /\ evque[taskQue][getix[taskQue]] \in Sub
             => task' = "read" /\ taskQue' = taskQue
    BY <1>8 DEF Walk, Wake, EndOfList, SkipQueue, LockQueue, EndOfQueue, CallbackReturns,
       SentInv, Remaining
  <2> QED
    BY <2>1, <2>2 DEF SentInv, Live, Remaining, UnsentIsDue
<1>9. CASE Walk /\ SkipCanceled
  <2>1. /\ taskQue \in Que /\ getix[taskQue] \in Slot /\ task = "read"
        /\ evque[taskQue][getix[taskQue]] = canceledEvent
    BY <1>9 DEF SkipCanceled, TypeOK, TaskType, RingType
  <2>2. /\ evque' = [evque EXCEPT ![taskQue][getix[taskQue]] = EVENTQEMPTY]
        /\ UNCHANGED <<user_sub, task, eventsRemaining, unsent, purged, cpc>>
    BY <1>9 DEF Walk, SkipCanceled
  <2>3. Live'
    BY <2>1, <2>2 DEF SentInv, Live, TypeOK, RingType
  <2>4. purged /\ ~ eventsRemaining
    BY <2>1 DEF SentInv, Live, Remaining
  <2> QED
    BY <2>2, <2>3, <2>4 DEF SentInv, Remaining, UnsentIsDue
<1>10. CASE Walk /\ TakeEvent
  BY <1>10, TakeSent DEF Walk
<1>11. CASE read_reply
  BY <1>11, ReplySent
<1> QED
  BY <1>1, <1>2, <1>3, <1>4, <1>5, <1>6, <1>7, <1>8, <1>9, <1>10, <1>11
  DEF Next, Proceed, event_task, Walk

(* While no cancel has left placeholders in a ring, an update that         *)
(* read_reply leaves in the send buffer, with the serving thread in recv,  *)
(* is followed by an event for which event_task calls back next.           *)
THEOREM MonitorsUnsentIsDue == Spec => []UnsentIsDue
<1>1. Init => TypeOK /\ UseInv /\ RingInv /\ DueInv /\ SentInv
  <2>1. Init => DueInv
    BY DEF Init, QueueInit, DueInv, Watched
  <2>2. Init => SentInv
    BY Names DEF Init, QueueInit, SentInv, Live, Remaining, UnsentIsDue
  <2> QED
    BY <2>1, <2>2, TypeInit, UseInit, RingInit
<1>2. TypeOK /\ UseInv /\ RingInv /\ DueInv /\ SentInv /\ [Next]_vars
      => TypeOK' /\ UseInv' /\ RingInv' /\ DueInv' /\ SentInv'
  BY UseStep, RingStep, DueStep, SentStep
<1>3. SentInv => UnsentIsDue
  BY DEF SentInv
<1> QED
  BY <1>1, <1>2, <1>3, PTL DEF Spec
=============================================================================
