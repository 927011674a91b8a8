----------------------------- MODULE EventQueue ------------------------------
(***************************************************************************)
(* The queues through which an IOC tells one client of changed channels    *)
(* (base/base-3.14.12.8/src/db/dbEvent.c): ring buffers that the threads   *)
(* processing records write, and the client's event_task reads.            *)
(*                                                                         *)
(* A subscription is the monitor of one channel, a value the number of the *)
(* change it was set by, as wide as a ring's field log.  Memory does not   *)
(* run out; extra labor, event masks, counters for reports are left out.   *)
(***************************************************************************)
EXTENDS Integers, FiniteSets

CONSTANTS NumSubs,        \* subscriptions a client may have
          NumQues,        \* queues there may be
          EVENTSPERQUE,
          EVENTENTRIES,
          Simple,         \* subscriptions to scalars: pevent->valque
          Start           \* where the rings are when the client, which has had
                          \* other subscriptions before, is looked at first

EVENTQUESIZE  == EVENTENTRIES * EVENTSPERQUE
EVENTQEMPTY   == 0
canceledEvent == -1
NoLog         == -1       \* pLastLog is NULL

Sub  == 1 .. NumSubs
Que  == 1 .. NumQues
Slot == 0 .. EVENTQUESIZE - 1

ASSUME EventQueueAssumption ==
  /\ NumSubs \in Nat /\ NumQues \in Nat \ {0}
  /\ EVENTSPERQUE \in Nat \ {0} /\ EVENTENTRIES \in Nat \ {0}
  /\ EVENTQUESIZE > 1
  /\ Simple \subseteq Sub /\ Start \in Slot

VARIABLES
  evque, valque,          \* of each queue: the ring, and the values in it
  putix, getix,
  quota, nDuplicates, nCanceled,
  ev_que,                 \* the queue of a subscription; 0: there is none
  npend, pLastLog,
  enabled,                \* it is in the list of its record
  user_sub,               \* it still has its callback
  callBackInProgress,
  ppendsem, pflush_sem,   \* binary semaphores
  signalling,             \* callers that are to signal ppendsem
  flowCtrlMode, pendexit,
  task,                   \* event_task: "wait", "list", "read", "call", "done"
                          \* or "exit"
  taskQue,                \* its ev_que
  event, fl,              \* the event it calls back for, and its value
  eventsRemaining         \* the next slot was not empty when it unlocked

ringVars  == <<evque, valque, putix, getix, nDuplicates, nCanceled, npend, pLastLog>>
subVars   == <<ev_que, quota, enabled, user_sub, callBackInProgress>>
semVars   == <<ppendsem, pflush_sem, signalling>>
modeVars  == <<flowCtrlMode, pendexit>>
taskVars  == <<task, taskQue, event, fl, eventsRemaining>>
queueVars == <<ringVars, subVars, semVars, modeVars, taskVars>>

(* event_task keeps the lock of a queue while it reads it, but for the     *)
(* callbacks: no other thread gets it in one of its steps.                 *)
Locked(q) == task = "read" /\ taskQue = q

(* Mutant: the last slot is not the last.                                  *)
RNGINCPast(i) == IF i >= EVENTQUESIZE THEN 0 ELSE i + 1

RNGINC(i) == IF i >= EVENTQUESIZE - 1 THEN 0 ELSE i + 1

ringSpace(q) ==
  IF evque[q][putix[q]] # EVENTQEMPTY THEN 0
  ELSE getix[q] - putix[q] + (IF getix[q] > putix[q] THEN 0 ELSE EVENTQUESIZE)

-----------------------------------------------------------------------------
(* db_post_single_event_private: the caller holds the lock of the record,  *)
(* also while it signals, which it does after it has unlocked the queue;   *)
(* the value cannot change in between.                                     *)

(* A subscription to an array has no value in the ring.                    *)
(* Mutants: a change is ignored while the callback runs; or for scalars.   *)
IgnoredInCallback(s) == s \notin Simple /\ (npend[s] > 0 \/ callBackInProgress[s])
IgnoredAlways(s) == npend[s] > 0

Ignored(s) == s \notin Simple /\ npend[s] > 0

Replaces(s) ==
  /\ s \in Simple /\ npend[s] > 0
  /\ flowCtrlMode \/ ringSpace(ev_que[s]) <= EVENTSPERQUE

Replace(s, v) ==
  /\ valque' = [valque EXCEPT ![ev_que[s]][pLastLog[s]] = v]
  /\ UNCHANGED <<evque, putix, getix, nDuplicates, nCanceled, npend, pLastLog, signalling>>

(* Mutant: the last log is that of the first event in the ring.            *)
LastLogKept(s, p) == IF s \in Simple /\ npend[s] = 0 THEN p ELSE pLastLog[s]

LastLog(s, p) == IF s \in Simple THEN p ELSE pLastLog[s]

(* Mutant: the test comes when the event is already in the ring.           *)
FirstEventLate(q) == ringSpace(q) - 1 = EVENTQUESIZE

FirstEvent(q) == ringSpace(q) = EVENTQUESIZE

(* The current entry must be available: an assertion of the code, where    *)
(* the thread ends otherwise.                                              *)
AddEvent(s, v) ==
  LET q == ev_que[s]  p == putix[q]
  IN  /\ evque[q][p] = EVENTQEMPTY
      /\ evque' = [evque EXCEPT ![q][p] = s]
      /\ valque' = [valque EXCEPT ![q][p] = IF s \in Simple THEN v ELSE 0]
      /\ pLastLog' = [pLastLog EXCEPT ![s] = LastLog(s, p)]
      /\ nDuplicates' = [nDuplicates EXCEPT ![q] = @ + IF npend[s] > 0 THEN 1 ELSE 0]
      /\ npend' = [npend EXCEPT ![s] = @ + 1]
      /\ putix' = [putix EXCEPT ![q] = RNGINC(p)]
      /\ signalling' = signalling \cup (IF FirstEvent(q) THEN {s} ELSE {})
      /\ UNCHANGED <<getix, nCanceled>>

Post(s, v) ==
  /\ ~ Locked(ev_que[s])
  /\ \/ Ignored(s) /\ UNCHANGED <<ringVars, signalling>>
     \/ Replaces(s) /\ Replace(s, v)
     \/ ~ Ignored(s) /\ ~ Replaces(s) /\ AddEvent(s, v)
  /\ UNCHANGED <<subVars, modeVars, taskVars, ppendsem, pflush_sem>>

Signal(c) ==
  /\ c \in signalling
  /\ signalling' = signalling \ {c}
  /\ ppendsem' = TRUE
  /\ UNCHANGED <<ringVars, subVars, modeVars, taskVars, pflush_sem>>

-----------------------------------------------------------------------------
(* Subscriptions.                                                          *)

HasRoom(q) == quota[q] + nCanceled[q] < EVENTQUESIZE - EVENTENTRIES

(* The first queue with quota left; what event_task does to the others     *)
(* while they are looked at one by one makes no difference.                *)
db_add_event(s) ==
  /\ ev_que[s] = 0
  /\ \E q \in Que :
       /\ HasRoom(q)
       /\ \A r \in Que : (r < q => ~ HasRoom(r)) /\ (r <= q => ~ Locked(r))
       /\ ev_que' = [ev_que EXCEPT ![s] = q]
       /\ quota' = [quota EXCEPT ![q] = @ + EVENTENTRIES]
  /\ user_sub' = [user_sub EXCEPT ![s] = TRUE]
  /\ UNCHANGED <<ringVars, semVars, modeVars, taskVars, enabled, callBackInProgress>>

(* The lock of the record is held by a poster until it has signalled.      *)
SetEnabled(s, e) ==
  /\ s \notin signalling
  /\ enabled' = [enabled EXCEPT ![s] = e]
  /\ UNCHANGED <<ringVars, semVars, modeVars, taskVars,
                 ev_que, quota, user_sub, callBackInProgress>>

(* Mutant: the duplicates that are removed are not counted down.           *)
DuplicatesOfNone(s) == 0

DuplicatesOf(s) == IF npend[s] > 1 THEN npend[s] - 1 ELSE 0

(* db_cancel_event, with the lock of the queue: no callback from here on,  *)
(* and the events in the ring become placeholders.                         *)
Mine(s, i) == evque[ev_que[s]][i] = s

Purge(s) ==
  LET q == ev_que[s]
  IN  /\ ~ Locked(q)
      /\ user_sub' = [user_sub EXCEPT ![s] = FALSE]
      /\ evque' = [evque EXCEPT ![q] =
                     [i \in Slot |-> IF Mine(s, i) THEN canceledEvent ELSE @[i]]]
      /\ valque' = [valque EXCEPT ![q] =
                      [i \in Slot |-> IF Mine(s, i) THEN 0 ELSE @[i]]]
      /\ nCanceled' = [nCanceled EXCEPT ![q] = @ + npend[s]]
      /\ nDuplicates' = [nDuplicates EXCEPT ![q] = @ - DuplicatesOf(s)]
      /\ npend' = [npend EXCEPT ![s] = 0]
      /\ pLastLog' = [pLastLog EXCEPT ![s] = NoLog]
      /\ UNCHANGED <<putix, getix, quota, ev_que, enabled,
                     callBackInProgress, semVars, modeVars, taskVars>>

(* The callback of s may still run: its end is signalled.                  *)
WaitFlush ==
  /\ pflush_sem
  /\ pflush_sem' = FALSE
  /\ UNCHANGED <<ringVars, subVars, modeVars, taskVars, ppendsem, signalling>>

(* Mutant: nobody waits for a callback.                                    *)
MustWaitNever(s) == FALSE

MustWait(s) == callBackInProgress[s]

Free(s) ==
  /\ ~ Locked(ev_que[s]) /\ ~ MustWait(s)
  /\ quota' = [quota EXCEPT ![ev_que[s]] = @ - EVENTENTRIES]
  /\ ev_que' = [ev_que EXCEPT ![s] = 0]
  /\ UNCHANGED <<ringVars, semVars, modeVars, taskVars, enabled, user_sub, callBackInProgress>>

(* db_event_flow_ctrl_mode_on and _off, db_close_events: they set a flag,  *)
(* and signal (0 is the thread that serves the client).                    *)
FlowControl(mode) ==
  /\ flowCtrlMode' = mode
  /\ signalling' = signalling \cup {0}
  /\ UNCHANGED <<ringVars, subVars, taskVars, ppendsem, pflush_sem, pendexit>>

db_close_events ==
  /\ ~ pendexit
  /\ pendexit' = TRUE
  /\ signalling' = signalling \cup {0}
  /\ UNCHANGED <<ringVars, subVars, taskVars, ppendsem, pflush_sem, flowCtrlMode>>

-----------------------------------------------------------------------------
(* event_task: woken, it goes through all queues, then looks at pendexit.  *)

Wake ==
  /\ task = "wait" /\ ppendsem
  /\ ppendsem' = FALSE
  /\ task' = "list" /\ taskQue' = 1
  /\ UNCHANGED <<ringVars, subVars, modeVars, pflush_sem, signalling,
                 event, fl, eventsRemaining>>

EndOfList ==
  /\ task = "list" /\ taskQue > NumQues
  /\ task' = IF pendexit THEN "exit" ELSE "wait"
  /\ taskQue' = 1
  /\ UNCHANGED <<ringVars, subVars, semVars, modeVars, event, fl, eventsRemaining>>

(* event_read: in flow control mode only queues with duplicates are read.  *)
Suspended(q) == flowCtrlMode /\ nDuplicates[q] = 0

SkipQueue ==
  /\ task = "list" /\ taskQue \in Que /\ Suspended(taskQue)
  /\ taskQue' = taskQue + 1
  /\ UNCHANGED <<ringVars, subVars, semVars, modeVars, task, event, fl, eventsRemaining>>

LockQueue ==
  /\ task = "list" /\ taskQue \in Que /\ ~ Suspended(taskQue)
  /\ task' = "read"
  /\ UNCHANGED <<ringVars, subVars, semVars, modeVars, taskQue, event, fl, eventsRemaining>>

EndOfQueue ==
  /\ task = "read" /\ evque[taskQue][getix[taskQue]] = EVENTQEMPTY
  /\ task' = "list" /\ taskQue' = taskQue + 1
  /\ UNCHANGED <<ringVars, subVars, semVars, modeVars, event, fl, eventsRemaining>>

SkipCanceled ==
  LET q == taskQue
  IN  /\ task = "read" /\ evque[q][getix[q]] = canceledEvent
      /\ evque' = [evque EXCEPT ![q][getix[q]] = EVENTQEMPTY]
      /\ getix' = [getix EXCEPT ![q] = RNGINC(@)]
      /\ nCanceled' = [nCanceled EXCEPT ![q] = @ - 1]
      /\ UNCHANGED <<valque, putix, nDuplicates, npend, pLastLog,
                     subVars, semVars, modeVars, taskVars>>

(* event_remove, and on to the callback if the subscription still has one. *)
TakeEvent ==
  LET q == taskQue  i == getix[q]  s == evque[q][i]
  IN  /\ task = "read" /\ s \in Sub
      /\ evque' = [evque EXCEPT ![q][i] = EVENTQEMPTY]
      /\ valque' = [valque EXCEPT ![q][i] = 0]
      /\ getix' = [getix EXCEPT ![q] = RNGINC(i)]
      /\ nDuplicates' = [nDuplicates EXCEPT ![q] = @ - IF npend[s] > 1 THEN 1 ELSE 0]
      /\ pLastLog' = [pLastLog EXCEPT ![s] = IF npend[s] > 1 THEN @ ELSE NoLog]
      /\ npend' = [npend EXCEPT ![s] = @ - 1]
      /\ callBackInProgress' = [callBackInProgress EXCEPT ![s] = user_sub[s]]
      /\ task' = IF user_sub[s] THEN "call" ELSE "read"
      /\ event' = IF user_sub[s] THEN s ELSE 0
      /\ fl' = IF user_sub[s] THEN valque[q][i] ELSE 0
      /\ eventsRemaining' = (user_sub[s] /\ evque[q][RNGINC(i)] # EVENTQEMPTY)
      /\ UNCHANGED <<putix, nCanceled, ev_que, quota, enabled, user_sub,
                     semVars, modeVars, taskQue>>

(* The callback is told whether the next slot is empty.  That is read      *)
(* without the lock: as it was when the queue was unlocked, or as it is by *)
(* now.  A placeholder is not empty.                                       *)
(* Mutant: it is always told that there is more.                           *)
ToldRemainingAlways == {TRUE}

ToldRemaining == {eventsRemaining, evque[taskQue][getix[taskQue]] # EVENTQEMPTY}

(* The callback has what it needs; it returns, and the queue is locked     *)
(* again.                                                                  *)
CallbackRuns ==
  /\ task = "call"
  /\ task' = "done" /\ fl' = 0 /\ eventsRemaining' = FALSE
  /\ UNCHANGED <<ringVars, subVars, semVars, modeVars, taskQue, event>>

(* Mutant: the end of a callback is only signalled to an event that is     *)
(* still in the ring.                                                      *)
FlushedNever(s) == ~ user_sub[s] /\ npend[s] > 0

FlushedBy(s) == ~ user_sub[s] /\ npend[s] = 0

CallbackReturns ==
  /\ task = "done"
  /\ callBackInProgress' = [callBackInProgress EXCEPT ![event] = FALSE]
  /\ pflush_sem' = (pflush_sem \/ FlushedBy(event))
  /\ task' = "read" /\ event' = 0
  /\ UNCHANGED <<ringVars, ev_que, quota, enabled, user_sub, ppendsem,
                 signalling, modeVars, taskQue, fl, eventsRemaining>>

QueueInit ==
  /\ evque = [q \in Que |-> [i \in Slot |-> EVENTQEMPTY]]
  /\ valque = [q \in Que |-> [i \in Slot |-> 0]]
  /\ putix = [q \in Que |-> Start] /\ getix = [q \in Que |-> Start]
  /\ quota = [q \in Que |-> 0]
  /\ nDuplicates = [q \in Que |-> 0] /\ nCanceled = [q \in Que |-> 0]
  /\ ev_que = [s \in Sub |-> 0]
  /\ npend = [s \in Sub |-> 0] /\ pLastLog = [s \in Sub |-> NoLog]
  /\ enabled = [s \in Sub |-> FALSE] /\ user_sub = [s \in Sub |-> FALSE]
  /\ callBackInProgress = [s \in Sub |-> FALSE]
  /\ ppendsem = FALSE /\ pflush_sem = FALSE /\ signalling = {}
  /\ flowCtrlMode = FALSE /\ pendexit = FALSE
  /\ task = "wait" /\ taskQue = 1 /\ event = 0 /\ fl = 0
  /\ eventsRemaining = FALSE
=============================================================================
