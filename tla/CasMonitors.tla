---------------------------- MODULE CasMonitors ------------------------------
(***************************************************************************)
(* The Channel Access server and the monitors of one of its clients: the   *)
(* thread that serves the client's requests (camsgtask; src/rsrv of        *)
(* base/base-3.14.12.8), its event_task, and the threads that process the  *)
(* records.  This is how the state machines of the crates learn of the     *)
(* records of the soft IOC.                                                *)
(*                                                                         *)
(* The client has one subscription to a channel at most and read access.   *)
(* Updates go to it in one stream: the send buffer of the client, then the *)
(* connection.  The network itself is not looked at.                       *)
(***************************************************************************)
EXTENDS EventQueue

CONSTANTS MaxChanges,     \* changes of the channels
          MaxAdds         \* subscriptions made

ASSUME BoundsAssumption == MaxChanges \in Nat /\ MaxAdds \in Nat

VARIABLES
  val,        \* of each channel: the change that set its value, 0 is the first
  was,        \* the values it has had
  now,        \* changes so far
  cpc,        \* where the serving thread is
  csub,       \* the subscription it works on
  adds,       \* subscriptions so far
  seen,       \* the value last put into the stream to the client, -1: none
  missed,     \* the last change came after the first post, before the enable
  replaced,   \* an event of the subscription has been replaced
  unsent,     \* there is something in the send buffer (send.stk is not 0)
  purged      \* a cancel has made placeholders of events

recordVars  == <<val, was, now>>
serveVars   == <<cpc, csub, adds>>
historyVars == <<seen, missed, replaced>>
sendVars    == <<unsent, purged>>
vars        == <<queueVars, recordVars, serveVars, historyVars, sendVars>>

Nothing == -1

-----------------------------------------------------------------------------
(* A record gets a new value and posts it (db_post_events), all under its  *)
(* lock, which is kept by a thread that has yet to signal.                 *)
PostAndNote(s, v) ==
  /\ s \notin signalling
  /\ Post(s, v)
  /\ replaced' = [replaced EXCEPT ![s] = @ \/ Replaces(s)]

Change(s) ==
  /\ now < MaxChanges /\ s \notin signalling
  /\ now' = now + 1
  /\ val' = [val EXCEPT ![s] = now + 1]
  /\ was' = [was EXCEPT ![s] = @ \cup {now + 1}]
  /\ missed' = [missed EXCEPT ![s] = ~ enabled[s] /\ cpc = "enable" /\ csub = s]
  /\ IF enabled[s] THEN PostAndNote(s, now + 1) ELSE UNCHANGED <<queueVars, replaced>>
  /\ UNCHANGED <<serveVars, sendVars, seen>>

-----------------------------------------------------------------------------
(* event_add_action: the subscription is made, its first value posted      *)
(* whatever it is, and then it is enabled.                                 *)

(* camsgtask waits for a request in recv, or has just dealt with one and   *)
(* finds that the next has arrived.                                        *)
Idle == cpc \in {"idle", "batch"} /\ 0 \notin signalling /\ ~ pendexit

Subscribe(s) ==
  /\ Idle /\ adds < MaxAdds
  /\ db_add_event(s)
  /\ adds' = adds + 1
  /\ cpc' = "post" /\ csub' = s
  /\ UNCHANGED <<recordVars, historyVars, sendVars>>

PostFirst ==
  /\ cpc = "post"
  /\ PostAndNote(csub, val[csub])
  /\ cpc' = "enable"
  /\ UNCHANGED <<recordVars, csub, adds, sendVars, seen, missed>>

Enable ==
  /\ cpc = "enable"
  /\ SetEnabled(csub, TRUE)
  /\ cpc' = "batch" /\ csub' = 0
  /\ UNCHANGED <<recordVars, adds, historyVars, sendVars>>

(* event_cancel_reply, clear_channel_reply, destroyAllChannels: each ends  *)
(* in db_cancel_event.                                                     *)
Unsubscribe(s) ==
  /\ Idle /\ ev_que[s] # 0
  /\ SetEnabled(s, FALSE)
  /\ cpc' = "purge" /\ csub' = s
  /\ UNCHANGED <<recordVars, adds, historyVars, sendVars>>

PurgeEvents ==
  /\ cpc = "purge"
  /\ Purge(csub)
  /\ cpc' = IF MustWait(csub) THEN "flush" ELSE "free"
  /\ purged' = (purged \/ npend[csub] > 0)
  /\ UNCHANGED <<recordVars, csub, adds, historyVars, unsent>>

Flushed ==
  /\ cpc = "flush"
  /\ WaitFlush
  /\ cpc' = "free"
  /\ UNCHANGED <<recordVars, csub, adds, historyVars, sendVars>>

Freed ==
  /\ cpc = "free" /\ ~ Locked(ev_que[csub])
  /\ IF MustWait(csub)
     THEN cpc' = "flush" /\ UNCHANGED <<queueVars, csub, historyVars, unsent>>
     ELSE /\ Free(csub)
          /\ cpc' = "batch" /\ csub' = 0 /\ unsent' = TRUE
          /\ seen' = [seen EXCEPT ![csub] = Nothing]
          /\ missed' = [missed EXCEPT ![csub] = FALSE]
          /\ replaced' = [replaced EXCEPT ![csub] = FALSE]
  /\ UNCHANGED <<recordVars, adds, purged>>

(* events_off_action and events_on_action.                                 *)
FlowOn ==
  /\ Idle /\ ~ flowCtrlMode /\ FlowControl(TRUE)
  /\ cpc' = "batch"
  /\ UNCHANGED <<recordVars, csub, adds, historyVars, sendVars>>

FlowOff ==
  /\ Idle /\ flowCtrlMode /\ FlowControl(FALSE)
  /\ cpc' = "batch"
  /\ UNCHANGED <<recordVars, csub, adds, historyVars, sendVars>>

(* destroy_tcp_client, with all channels gone.                             *)
Close ==
  /\ Idle /\ \A s \in Sub : ev_que[s] = 0
  /\ db_close_events
  /\ UNCHANGED <<recordVars, serveVars, historyVars, sendVars>>

(* Mutant: the thread waits in recv with replies in the send buffer.       *)
RecvUnsent ==
  /\ cpc = "batch"
  /\ cpc' = "idle"
  /\ UNCHANGED <<queueVars, recordVars, csub, adds, historyVars, sendVars>>

(* No request is waiting: what is in the buffer is sent, before recv.      *)
SendBatch ==
  /\ cpc = "batch" /\ ~ pendexit
  /\ cpc' = "idle" /\ unsent' = FALSE
  /\ UNCHANGED <<queueVars, recordVars, csub, adds, historyVars, purged>>

Proceed == PostFirst \/ Enable \/ PurgeEvents \/ Flushed \/ Freed \/ SendBatch

-----------------------------------------------------------------------------
(* event_task calls back read_reply, which takes the value of an array     *)
(* from the record, under its lock, puts the update into the send buffer,  *)
(* and sends the buffer unless it was told that more events remain.        *)
CallbackValue == IF event \in Simple THEN fl ELSE val[event]

read_reply ==
  /\ event \in Simple \/ event \notin signalling
  /\ CallbackRuns
  /\ seen' = [seen EXCEPT ![event] = CallbackValue]
  /\ \E remaining \in ToldRemaining : unsent' = remaining
  /\ UNCHANGED <<recordVars, serveVars, missed, replaced, purged>>

Walk ==
  /\ Wake \/ EndOfList \/ SkipQueue \/ LockQueue \/ EndOfQueue \/ SkipCanceled \/ TakeEvent
     \/ CallbackReturns
  /\ UNCHANGED <<recordVars, serveVars, historyVars, sendVars>>

event_task == Walk \/ read_reply

Signals(c) == Signal(c) /\ UNCHANGED <<recordVars, serveVars, historyVars, sendVars>>

Init ==
  /\ QueueInit
  /\ val = [s \in Sub |-> 0] /\ was = [s \in Sub |-> {0}] /\ now = 0
  /\ cpc = "idle" /\ csub = 0 /\ adds = 0
  /\ seen = [s \in Sub |-> Nothing]
  /\ missed = [s \in Sub |-> FALSE] /\ replaced = [s \in Sub |-> FALSE]
  /\ unsent = FALSE /\ purged = FALSE

Next ==
  \/ \E s \in Sub : Change(s) \/ Subscribe(s) \/ Unsubscribe(s)
  \/ FlowOn \/ FlowOff \/ Close
  \/ Proceed
  \/ event_task
  \/ \E c \in Sub \cup {0} : Signals(c)

Spec == Init /\ [][Next]_vars

(* As long as one of the server's threads can go on, one does: there are   *)
(* finitely many steps of each before it waits for the others.  Records    *)
(* need not change, and the client need not send any request.              *)
LiveSpec ==
  Spec /\ WF_vars(event_task \/ Proceed \/ \E c \in Sub \cup {0} : Signals(c))

-----------------------------------------------------------------------------
RingType ==
  /\ evque \in [Que -> [Slot -> Sub \cup {EVENTQEMPTY, canceledEvent}]]
  /\ valque \in [Que -> [Slot -> 0 .. MaxChanges]]
  /\ putix \in [Que -> Slot] /\ getix \in [Que -> Slot]
  /\ quota \in [Que -> Int]
  /\ nDuplicates \in [Que -> Int] /\ nCanceled \in [Que -> Int]

SubType ==
  /\ ev_que \in [Sub -> Que \cup {0}]
  /\ npend \in [Sub -> Int] /\ pLastLog \in [Sub -> Slot \cup {NoLog}]
  /\ enabled \in [Sub -> BOOLEAN] /\ user_sub \in [Sub -> BOOLEAN]
  /\ callBackInProgress \in [Sub -> BOOLEAN]

TaskType ==
  /\ ppendsem \in BOOLEAN /\ pflush_sem \in BOOLEAN
  /\ signalling \subseteq Sub \cup {0}
  /\ flowCtrlMode \in BOOLEAN /\ pendexit \in BOOLEAN
  /\ task \in {"wait", "list", "read", "call", "done", "exit"}
  /\ taskQue \in 1 .. NumQues + 1 /\ (task \in {"read", "call", "done"} => taskQue \in Que)
  /\ event \in Sub \cup {0} /\ (task \in {"call", "done"} => event \in Sub)
  /\ fl \in 0 .. MaxChanges /\ eventsRemaining \in BOOLEAN

RecordType ==
  /\ val \in [Sub -> 0 .. MaxChanges] /\ now \in 0 .. MaxChanges
  /\ was \in [Sub -> SUBSET (0 .. MaxChanges)]
  /\ seen \in [Sub -> -1 .. MaxChanges]
  /\ missed \in [Sub -> BOOLEAN] /\ replaced \in [Sub -> BOOLEAN]

ServeType ==
  /\ cpc \in {"idle", "batch", "post", "enable", "purge", "flush", "free"}
  /\ csub \in Sub \cup {0} /\ (cpc \notin {"idle", "batch"} => csub \in Sub)
  /\ adds \in 0 .. MaxAdds
  /\ unsent \in BOOLEAN /\ purged \in BOOLEAN

(* Every variable has its type.                                            *)
TypeOK == RingType /\ SubType /\ TaskType /\ RecordType /\ ServeType

(* The events of a ring are the slots from getix up to putix, and the      *)
(* counters that the code decides by count them: quota the entries that    *)
(* were promised, nCanceled the placeholders, nDuplicates what flow control *)
(* has to drain, npend and pLastLog where a newer value may be put.        *)
Place(q, i) == i - getix[q] + IF i >= getix[q] THEN 0 ELSE EVENTQUESIZE

Contiguous(q) ==
  \A i \in Slot :
    evque[q][i] # EVENTQEMPTY <=> Place(q, i) < EVENTQUESIZE - ringSpace(q)

Events(q, s) == { i \in Slot : evque[q][i] = s }

IsLast(q, s, i) ==
  i \in Events(q, s) /\ \A j \in Events(q, s) : Place(q, j) <= Place(q, i)

Duplicates(q) ==
  { i \in Slot : evque[q][i] \in Sub /\ ~ IsLast(q, evque[q][i], i) }

OwnSubs(q) == { s \in Sub : ev_que[s] = q }

RingSound ==
  /\ \A q \in Que :
       /\ Contiguous(q)
       /\ quota[q] = EVENTENTRIES * Cardinality(OwnSubs(q))
       /\ nCanceled[q] = Cardinality(Events(q, canceledEvent))
       /\ nDuplicates[q] = Cardinality(Duplicates(q))
  /\ \A s \in OwnSubs(0) : npend[s] = 0
  /\ \A q \in Que : \A s \in OwnSubs(q) :
       /\ npend[s] = Cardinality(Events(q, s))
       /\ s \in Simple /\ npend[s] > 0 => IsLast(q, s, pLastLog[s])

(* A block that was given back (or has not been taken) is used by nobody:  *)
(* no ring holds it, no callback runs for it, and no poster is about to    *)
(* look at it; and event_task frees the queues when nobody needs them.     *)
NoUseAfterFree ==
  /\ \A s \in Sub : ev_que[s] = 0 =>
       /\ \A q \in Que : \A i \in Slot : evque[q][i] # s
       /\ event # s /\ ~ callBackInProgress[s]
       /\ s \notin signalling /\ ~ enabled[s]
  /\ task = "exit" => signalling \subseteq {0} /\ \A s \in Sub : ev_que[s] = 0

(* The client's newest value is the channel's, or an event that is still   *)
(* to be delivered carries it: replacing events and dropping duplicates    *)
(* never loses the last change.  Only one that came between the first post *)
(* and the enable is lost (see NeverStale).                                *)
Newest(s) ==
  IF npend[s] > 0
  THEN IF s \in Simple THEN valque[ev_que[s]][pLastLog[s]] ELSE val[s]
  ELSE IF task = "call" /\ event = s THEN CallbackValue ELSE seen[s]

NewestIsDue ==
  \A s \in Sub : enabled[s] /\ ~ missed[s] => Newest(s) = val[s]

(* event_task never waits while there is something to do for it: posters   *)
(* signal after they have unlocked the queue, and only when it was empty.  *)
Readable(q) == ~ Suspended(q) /\ evque[q][getix[q]] # EVENTQEMPTY

NoLostWakeup ==
  task = "wait" /\ (pendexit \/ \E q \in Que : Readable(q))
    => ppendsem \/ signalling # {}

(* While no cancel has left placeholders: what is in the send buffer when  *)
(* the serving thread is in recv, so that nobody else would send it, is    *)
(* followed by an event that event_task is going to call back for before   *)
(* it unlocks the queue to wait.                                           *)
UnsentIsDue ==
  unsent /\ ~ purged /\ cpc = "idle"
    => \/ task = "call"
       \/ task \in {"done", "read"} /\ evque[taskQue][getix[taskQue]] \in Sub

(* A client that has seen a change has seen those before it on its other   *)
(* monitors in the same queue, unless an event was replaced on the way,    *)
(* and so overtook others ("Save must do before ACQ start",                *)
(* receiver/start_run.sh).                                                 *)
SeenInOrder ==
  \A s \in Simple, t \in Sub :
    /\ ev_que[s] # 0 /\ ev_que[s] = ev_que[t] /\ ~ replaced[s]
    /\ enabled[t] /\ ~ missed[t] /\ seen[t] # Nothing
    /\ val[t] < seen[s]
    => seen[t] = val[t]

(* Each subscription is a Monitor.                                         *)
Mon == INSTANCE Monitor WITH Channel <- Sub, Value <- 0 .. MaxChanges,
                             subscribed <- [s \in Sub |-> ev_que[s] # 0]
ImplementsMonitor == Mon!Spec

(* There is always room for the event of a subscription that has none, or  *)
(* may not replace it (the assertion of db_post_single_event_private).     *)
RoomForEvent ==
  \A s \in Sub :
    /\ enabled[s] \/ (cpc = "post" /\ csub = s)
    /\ ~ Ignored(s) /\ ~ Replaces(s)
    => evque[ev_que[s]][putix[ev_que[s]]] = EVENTQEMPTY

(* Behaviours in which event_task does not get to run (its priority is the *)
(* one below the serving thread's), without flow control, while channel 1  *)
(* changes and the others are subscribed to and cancelled.                 *)
HeldUpSpec ==
  Init /\ [][Next /\ task' = "wait" /\ ~ flowCtrlMode'
               /\ \A s \in Sub : s > 1 => val'[s] = val[s]]_vars

(* When all is quiet a subscriber has the value of its channel.            *)
NeverStale ==
  (\A s \in Sub : npend[s] = 0 /\ event # s)
    => \A s \in Sub : enabled[s] => seen[s] = val[s]

-----------------------------------------------------------------------------
(* A cancel ends, flow control or not (the client could not turn it off:   *)
(* the thread that waits is the one that would read the request), and so   *)
(* does event_task when the client is gone.                                *)
TeardownEnds ==
  []<>(cpc \notin {"purge", "flush", "free"} /\ (pendexit => task = "exit"))

(* The last change gets to the client and nothing is left in the send      *)
(* buffer, whatever the client does or does not ask for next, unless flow  *)
(* control is turned on again and again: "Ensures timely response for      *)
(* events" (camessage.c:625).                                              *)
AllSeen == \A s \in Sub : enabled[s] /\ ~ missed[s] => seen[s] = val[s]
UpdatesArrive == []<>(flowCtrlMode \/ (AllSeen /\ (unsent => pendexit)))

(* The last change gets into the stream in any case, and leaves the buffer *)
(* as long as no cancel has made placeholders of events.                   *)
UpdatesSent == []<>(flowCtrlMode \/ (AllSeen /\ (unsent => purged \/ pendexit)))
=============================================================================
