# A verification of the DGS acquisition software

DGS_system is the control and acquisition software of the Digital Gammasphere
detector: the IOCs that run in the VME crates and on a Linux host, the global
controls that set a parameter in all crates at once, and the receivers that read
the digitizer data from the crates over TCP and write it to disk. This directory
holds TLA+ models of the parts with control flow of their own, TLC
configurations that check them on small instances, and proofs for TLAPS.

Paths below are relative to `src/`. Run everything in this directory:

    tlc -workers 2 -config ReceiverRun.cfg MCReceiver
    tlapm ReceiverProofs.tla

`PROJECT.json` lists the components, the runs, the lines every definition
models, the hazards with the properties that cover them, the findings and the
theorems. An operator with a comment `Mutant: ...` is not part of a
specification: it is a definition with a plausible bug (a forgotten reset, a
`>=` for a `>`), kept next to the correct one so that one can see that the
properties notice it. `PROJECT.json` says which property each of them breaks.

---

## 1. Inventory

```
 operator, scripts                                            disk
      | caput                                                  ^
      v                                                        | OutFile
  soft IOC  -- dfanout chains -- dbCa links --> crate IOCs     |
  (JustGlobals.db, dgsSupport.db) -- monitors -> gretDet.munch |
                     dbEvent.c, rsrv                           |
                                                data server <--+-- tcp_Receiver
                                                 port 9001  TCP    (one per crate)
```

| component | source | state | operations |
|---|---|---|---|
| Output files | `receiver/tcp_Receiver.cpp` 56-151, class `OutFile` | per channel: the open file, its number, its size; the files on disk | `NewFile`, `OpenFile`, `Write`, `CloseFile`, the destructor |
| Data acquisition | same, 159-286 | the socket, the vector `data`, how much is asked for and received | `SetUpConnection`, `GetData` |
| Decoding | same, 312-495 | index in the reply, the event at hand | `WriteData` |
| Receiver process | same, 498-575 | where it is in the loop | `main`; killed and started again by the scripts |
| Run scripts | `receiver/start_run.sh`, `kill_IOC.sh`, ... | `pidList.txt`, the records Online_CS_SaveData and Online_CS_StartStop | start the receivers, Save, Start, wait, Stop; kill |
| Global controls | `softIOC/db/JustGlobals.db` on `dfanoutRecord.c` of EPICS base | VAL and alarm of each record | a put to the head of a chain |
| Links over Channel Access | `base/.../db/dbCa.c` | per link: connection, pending value, pending actions; the work list | `dbCaPutLink`, `connectionCallback`, `dbCaTask` |
| Monitor event queues | `base/.../db/dbEvent.c`, struct `event_que` and `event_user` | per client: rings of events, counters, subscriptions, flow control; its `event_task` | `db_post_events`, `db_add_event`, `db_event_enable`, `db_cancel_event`, flow control, `event_task` |
| Monitors of the CA server | `base/.../rsrv/camessage.c`, `caservertask.c`, `camsgtask.c` | per client: its subscriptions, the request it serves, the send buffer | `event_add_action`, `event_cancel_reply`, `clear_channel_reply`, `events_off_action`, `read_reply`, `destroy_tcp_client` |
| Trigger rates | `softIOC/db/dgsSupport.db` | calc records over trigger registers | periodic scan |
| Soft IOC record `xxx` | `softIOC/dgsSoftIOCApp/src` | the fields of the template record | process, alarms, monitors |
| Crate databases, boot files | `ioc/db`, `ioc/boot` | tables of records over registers | none of their own |
| Crate data server | outside `src/` (`gretDet.munch`) | the data taken and not yet sent | answer a request |
| Rest of EPICS base, edm | `base`, `edm`, screens | | vendored upstream code |

**How they interact.** The receiver sends one request word and gets a reply: a
header of four words and, if the crate has data, record size times number of
records bytes. `WriteData` is called on the whole reply and calls `OutFile` for
each event. A put to a global control processes twelve `dfanout` records under
one lock; each record hands its value to a `dbCa` link, and a task of its own
sends it. The scripts talk to the receivers by signals only, and to the crates
by two records of the soft IOC, Online_CS_SaveData and Online_CS_StartStop. The
crates' state machines are clients with monitors on these records: a thread that
processes a record posts an event to the queue of each client with a monitor on it,
and the client's `event_task` calls `read_reply`, which sends the value.

**What is hard about them, and what makes them correct.**

- *Output files.* Files roll over at a size and are made read-only; a killed
  process leaves its files open and unsealed and a second one appends to them.
  Correct: what is on disk is never lost or rewritten, only the newest file of a
  channel changes, files are split only when full, and `Write` (whose result
  nobody reads) is only called with a file that takes it.
- *Data acquisition.* TCP cuts the header and the body anywhere; the server may
  close. Correct: the buffer is never overrun, the receiver stays in step with
  the server, and a receiver without a server does not stay for ever.
- *Decoding.* Three kinds of packets, in two byte orders in the files, and a type that ends
  the run, one loop with several exits, words read before it is known that they were received, a header
  and a body written by two calls. Correct: each event is written whole, once,
  in order, in the file of its channel; nothing before the type D packet is
  lost; the header that goes with an event says what the event says.
- *Receiver process.* Killed anywhere, started again on the same files. Correct:
  it still implements the abstract `Recorder`.
- *Run scripts.* The order of Save and Start, receivers left over from an
  earlier run.
- *Monitors.* Threads that process records, the thread that serves the client and
  `event_task` share rings, counters and two semaphores; events are replaced when
  a ring is short, purged when a monitor is cancelled, held in flow control mode.
  Correct: the last change is always due; a client sees no older value after a
  newer one, and Save before Start; `event_task` is always woken; no block is used
  after it was given back; a cancel ends; no update stays in the send buffer.
- *Global controls and links.* The last setting must reach every crate, through
  a queue that coalesces puts, a task that reads the value without a lock,
  callbacks of another thread, and channels that come and go. Correct: a setting
  that does not arrive leaves an alarm or belongs to a channel that was lost;
  crates see settings in order; the task never sleeps on work.
- *Trigger rates.* A 32-bit counter is read in two halves. Not modelled.

## 2. Modules

```
Channels <- DataBuffer <- GetData <-+
        \                           WriteData <- Receiver <- ReceiverProps <- MCReceiver
         <- OutFile <---------------+                             |     ^
               ^                                   INSTANCE Recorder    |
     OutFileClass <- OutFileClassProofs           ReceiverProofs <- ReceiverSyncProofs
                                                  (also extends OutFileProofs)

EventHeader <- EventHeaderProofs          CaLink <- Globals <- GlobalsProofs

EventQueue <- CasMonitors <- CasMonitorsProofs <- CasUpdatesProofs
                   |
            INSTANCE Monitor
```

| module | what it models |
|---|---|
| `Channels` | the names of a crate's channels: `fileID` |
| `OutFile` | class `OutFile` and the files on disk |
| `OutFileClass` | `OutFile` on its own, called in any order by processes in turn |
| `DataBuffer` | the words of a run, and the vector `data` |
| `GetData` | `SetUpConnection`, `GetData`, the socket and the data server |
| `WriteData` | `WriteData` |
| `Receiver` | `main`, SIGPIPE, kill and restart: the whole process with its server and its disk |
| `Recorder` | abstract specification of a receiver |
| `ReceiverProps` | the receiver's properties that need to look into the files |
| `EventHeader` | the arithmetic of the header fields, the GEB timestamp and the repacked trigger |
| `CaLink` | output links of `dbCa.c`, `dbCaTask`, the Channel Access library |
| `Globals` | a dfanout chain over such links |
| `EventQueue` | `dbEvent.c`: rings, subscriptions, flow control, `event_task` |
| `CasMonitors` | the CA server's monitors over such queues: requests, changing records, callbacks |
| `Monitor` | abstract specification of a subscription |
| `OutFileProofs` | lemmas about the operations of class `OutFile` |
| `OutFileClassProofs` | theorems about `OutFileClass` |
| `ReceiverProofs` | theorems about the receiver, whatever its server sends |
| `ReceiverSyncProofs` | theorems about a receiver whose server sends whole replies |
| `EventHeaderProofs`, `GlobalsProofs` | theorems about `EventHeader`, `Globals` |
| `CasMonitorsProofs` | types, blocks and rings of `CasMonitors` |
| `CasUpdatesProofs` | what the clients get, and in which order |

### The receiver

`pc` says where the process is; the variables keep the names of the source
(`netSocket`, `index`, `file`, `count`, `fileSize`). Where the source reuses one
variable for two things, as with `words_received`, the model does too (`words`).

- **One action per way through the code.** `GetData` becomes `SendRequest`,
  `SendFails`, `GetHeader`, `GetBody` (one `recv`) and `RecvNothing`. `WriteData`
  becomes `Finish`, `DigSkip`, `DigIncomplete`, `DigEvent`, `TrigIncomplete`,
  `TrigEvent`, `UnknownDataType`, then `OpenEventFile`, `WriteGEB`, `WriteBody`,
  `WriteTrig`. Opening the file and the two writes are separate steps since the
  process may be killed between them; what lies between two steps touches only
  memory that dies with the process.
- **Data.** A word of the stream is what `WriteData` can tell apart in it: its
  marker, and the channel, type and length it would have if read as a header. The
  receiver's memory holds positions in the stream (0: not from the stream), so
  "the right words, complete, in order" can be stated at all. Sizes are in words.
- **Stale and uninitialised words.** `data` is never cleared between replies, so
  words of an earlier reply are there to be read; a word past the end of `data`
  is any word (undefined behaviour); a field of `reply[]` that was not received
  is any value of `Garbage`.
- **Disk.** `disk` outlives the process. A chunk is what one call of `Write` left:
  each call ends in `fflush`, so a killed process loses nothing it wrote. A
  read-only file cannot be opened for append (the receiver does not run as root).
- **Server.** Not in `src/`: it answers each request with a summary and data, or
  with another type, and may close. After that the first `send` succeeds and is
  answered with a reset; the second raises SIGPIPE, which nothing catches
  (`BrokenPipe`).
- **Kill and restart.** `kill_IOC.sh` kills the xterms of `pidList.txt`, which
  hangs up the receivers in them: `Kill`, no destructor runs. `start_run.sh` with
  the same run number is `Restart`: the same file names, new objects, and the
  data the crate has not sent yet.

`Recorder` promises that every event in the files is whole, in the file of its
channel, recorded at most once and in the order sent, over all kills and
restarts. `ReceiverProps` maps the disk to its `log`: the chunks of a channel's
files, one file after the other, read back as positions of events, where
anything that is not the whole of an event maps to 0, which `Recorder` can never
record.

### Event headers

`EventHeader` runs a clock through every 48-bit timestamp of a scaled-down word: a byte
has 2 bits, a half-word has two bytes, a word four. `Signed`, `ToUnsigned64` and
`OrUpper` are the conversions of lines 357-365 (`int`, `uint64_t`, `|=`).

**Byte order.** A word, in memory or in a file, is the number the host reads there, and
`ntohl` reverses its bytes on a little-endian host (`LittleEndian`). `data` has the words as
`recv` stored them (`Stored`); `header[]` has them as the host counts (`Header`).
A digitizer event is written from `data` as it is (line 391), so its words are in network
order in the file; the event made of a trigger is built from `header[]` and written
without `htonl` (472), in the order of the host. They differ in two more ways: a trigger
is written with its marker and without a GEB header, and its length (`TRIG_PACKET_LENGTH`)
counts the marker, which that of a digitizer event does not (349-354, 392). So the two
kinds of files are not read alike, and no property says they are.

The digitizer's header has other things in the bits next to the fields (`Spare`): above the
length in word 1, `header_type` and `event_type` in word 3.

### Global controls

`JustGlobals.db` holds 177 chains of twelve `dfanout` records with `selm` All:
output A is the next record, output B the crate. As a record processes output A
before B, the crates are served from the last to the first; `at` walks down from
`NumLinks`. A put holds the lock of the whole chain until the pass is over, so
one put is under way at a time, and puts to other chains do not interfere.

`dbCaPutLink` is three steps, each visible to other threads: the value is stored
under the lock of the caLink, `addAction` works on the list under another lock,
and the signal is given after that is unlocked. `dbCaTask` takes the value
*without* the lock. A value of these records is a double at most, read and
written in one access. `alarm[l]` is the LINK alarm of the record of crate `l`.
`broken[l]` is a history variable: link `l` lost its channel since the last put
it accepted, or had lost it just before and did not know.

Modelling this showed what the comments of `dbCa.c` do not say: a put that was
accepted and queued is dropped without an alarm if the channel goes before
`dbCaTask` gets to it (line 913), and the code that would put again on reconnect
is disabled (342-345, 358-360). That is why `PutIsUnderway` excepts broken links.
The alarm stays at the record of that crate: the links down the chain are NMS, so
the record an operator puts to shows nothing.

### Monitors

`EventQueue` keeps the names of `dbEvent.c`. A ring is a function of its slots:
0 is an empty slot, -1 a placeholder of a cancelled event, else the subscription.
`valque` is filled for subscriptions to scalars (`Simple`); the value of an array is
read from the record when the callback runs. A value is the number of the change
that set it, so "older" and "newer" can be said.

- **Locks.** Three of them decide what is one step. The lock of a queue: `event_read`
  keeps it while it reads and gives it up for each callback (`Locked`, the task states
  "read", "call", "done"). The lock of a record: a poster keeps it until it has signalled,
  which it does *after* it has unlocked the queue, so posting and signalling are two
  steps (`Post`, `Signal`), and no one posts to, enables or disables the same subscription
  in between (`signalling`). The semaphores are binary; `pflush_sem` is shared by all
  cancels of a client, so a wait may end by a token of an earlier callback and
  `Freed` looks again.
- **Requests.** One thread serves a client's requests one after the other, in
  steps: `Subscribe`, `PostFirst`, `Enable`; `Unsubscribe`, `PurgeEvents`, `Flushed`,
  `Freed`; `FlowOn`, `FlowOff`, `Close`. A record may change between any two.
- **The send buffer.** Updates and replies of a client go into one buffer. `unsent` says
  that there is something in it. `read_reply` sends it unless it was told that more events
  remain (`camessage.c:628`), which `event_read` finds in the next slot of the ring without
  the lock (`ToldRemaining`: as it was when the queue was unlocked, or as it is by now).
  `camsgtask` sends it when no request is waiting, before it goes into `recv`
  (`SendBatch`); between requests that come in one batch it does not (`cpc` "batch"; "idle" is in `recv`).
- **A failed assertion** (`AddEvent` where the entry is not empty) suspends the
  thread: in the model the step is not enabled. `RoomForEvent` says it never comes to that.
- **Histories.** `was`, `seen`, `replaced`, `missed` and `purged` are not in the code: the
  values a channel had, what was last put into the stream to the client, whether an event of
  the subscription was replaced, whether its last change fell between the first post and
  the enable, and whether a cancel ever left placeholders.

`Monitor` promises of each subscription that the client is called with values
the channel has had, never an older one after a newer one, and not after it
cancelled.

## 3. Runs

| run | bounds | properties |
|---|---|---|
| `OutFileClass` | 2 channels, 2 processes in turn, limit 1, writes of 0 or 2 words, 2 chunks and 2 files; `fopen` and `fwrite` may fail | `FilesTypeOK`, `OpenIsWritable`, `SplitOnlyWhenFull`, `SizeIsKnown`, `DiskOnlyGrows`, `OnlyNewestChanges` |
| `ReceiverRun` | 2 channels and the trigger, 2 streams of six packets, whole replies of up to 8 words, a server that may close, one kill and restart | `Framed`, `NothingLost`, `EndsOnlyAtDone`, `EndsSealed`, `OverrunBound`, `ImplementsRecorder`, `RunEnds`, `ClosedEnds` |
| `ReceiverRough` | 2 streams with look-alike words, replies of up to 3 words cut anywhere; no socket; `fopen`, `fwrite` and `chmod` may fail | `TypeOK`, `BufferFits`, `OpenForWrite`, `OnceInOrder`, `InStep` |
| `EventHeader` | words of 8 bits in bytes of 2, little-endian; every timestamp, channel and board; 3 lengths, bits next to the fields clear or set; 10 words of trigger data | `TypeOK`, `GebTimeInHalf`, `TriggerReadsInHostOrder`, `FieldsOfEvent` |
| `Globals` | 2 crates, 3 puts, 1 channel lost | `TypeOK`, `WorkListSound`, `NoLostWakeup`, `PutIsUnderway`, `InOrder`, `PutArrives` |
| `CasMonitors` | 2 monitors, a scalar and an array; 2 queues of 6 slots (`EVENTSPERQUE` 3, `EVENTENTRIES` 2) that start at slot 4; 2 changes, 3 subscriptions | `TypeOK`, `RingSound`, `NoUseAfterFree`, `NewestIsDue`, `NoLostWakeup`, `UnsentIsDue`, `SeenInOrder`, `ImplementsMonitor`, `TeardownEnds`, `UpdatesSent` |
| `CasMonitorsHeld` | 2 scalars on 1 queue, no changes, 2 subscriptions | finds `UpdatesArrive` violated |
| `CasMonitorsFull` | 2 scalars on 1 queue of 12 slots, `event_task` held up | finds `RoomForEvent` violated |
| `CasMonitorsMissed` | 1 scalar, 1 change | finds `NeverStale` violated |
| `ReceiverCut` | replies cut anywhere | finds `WrittenWasReceived` violated |
| `ReceiverShort` | a header in two parts | finds `InStep` violated |
| `EventHeaderTime` | as `EventHeader` | finds `GebTimeIsEventTime` violated |

### What they show

**`OutFileClass`**: whatever is called in whatever order, by two processes one
after the other. `DiskOnlyGrows`: no call loses or rewrites data. `OnlyNewestChanges`:
as long as `chmod` works, a second process does not go back to a file with a
successor, though its objects start at number 0. `SplitOnlyWhenFull`,
`SizeIsKnown`: the size check is late by one event per process at the most, and
never early. The limit is 1 word and writes are of 2, so every write fills a file; a
third file is opened in each channel.

**`ReceiverRun`**: with a server that does not cut packets, the receiver is a
`Recorder` through every kill and restart (`ImplementsRecorder`); no event is
missing from disk once its reply is decoded, as long as one process keeps its
connection (`NothingLost`); it stops at type D only (`EndsOnlyAtDone`), types E
and F cost nothing, and its files are sealed (`EndsSealed`); a GEB header
without a body is what a killed process left, one per death (`Framed`); a file
passes the limit by one event per process (`OverrunBound`). `DataSize` 2 is
smaller than a reply, so `data` is resized; `MaxFileSize` 5 is less than any digitizer
event with its GEB header, so the next one rolls over; one stream holds a type F packet
between events, one has data behind type D. Replies of one
packet and of two both occur. `RunEnds`: the process ends, by type D or because its
connection was lost; `ClosedEnds`: not later than two requests after that. `RunEnds`
leaves out a second process: when the first was killed after it was sent type D, the
second one asks a server that has nothing more to send, for ever.

**`ReceiverRough`**: nothing is assumed of replies but that the header comes
whole. An event of `LooksLike` holds a word that reads as the header of another
channel's event, so a reply that ends behind a marker leaves `WriteData` reading
a plausible stale header. Even then the buffer is never overrun
(`BufferFits`), the receiver does not lose step (`InStep`), events that are whole
on disk are there once and in order (`OnceInOrder`), and `Write` gets an open,
writable file (`OpenForWrite`). Torn events and missing ones do occur here: the run
does not claim otherwise.

**`Globals`**: all interleavings of puts, `dbCaTask`, callbacks, and the
network. `PutIsUnderway`: a crate has the last setting or will get it, unless
the record is in alarm or the channel was lost. `InOrder`: settings arrive in order, one of
them at most three times. The limit of three is sharp: with two, TLC finds the
write under way, the one in the list, and the put's own, all three reading the
same value. Two links are enough for the list to hold more than the task is
working on; three puts are enough for one to be sent, one pending and one stored;
one lost channel is enough to be lost before, during and after a put and to come
back. `PutArrives`: the last put arrives, by the signals of `addAction` and the flush of
`dbCaTask` alone.

**`CasMonitors`**: all interleavings of changes, requests and `event_task`. A queue
of 6 slots has room for two subscriptions by its quota of 4, less than what two
monitors can post, so events are replaced when the ring is short (`ringSpace` is at
most 3) and in flow control mode, duplicates are counted, and cancels leave
placeholders; the rings start at slot 4 and wrap. Two queues, since a
subscription goes to the next one when the first has no quota left. Two changes
are enough for one to be called, and one pending or replaced; three subscriptions, for one
channel to be subscribed again while placeholders of the first time are in the
ring. `RingSound` is about the bookkeeping of one thread by another, `NewestIsDue` about
what it is for. `SeenInOrder` is the order the scripts count on: "Save must do
before ACQ start". It holds on one queue and while no event was replaced; a replaced
event takes the place of its older self and so overtakes. That the order holds for
two scalars, which is what Save and Start are, is in the theorem; the run has a scalar and an array. `UnsentIsDue`: what is in the
send buffer while the serving thread is in `recv` is followed by an event that `event_task`
calls back for before it waits, so it is sent.
`TeardownEnds`: `db_cancel_event` waits for a callback, and must not wait for ever even if
flow control is on, since the client's request to turn it off would be read by the thread
that waits. `UpdatesSent`: the last change gets into the stream to the client, and leaves
the send buffer, whatever the client asks or does not ask for, *if no cancel has
made placeholders of events*. Without that condition it is `UpdatesArrive`, which is
violated (`CasMonitorsHeld`, finding 6).

**`EventHeader`**: the fields of a digitizer event in its file, read in network order, are
what the digitizer sent, and its file is that of no other channel (`FieldsOfEvent`); a
repacked trigger, read in the host's order, is channel 0 of board 99 at the time of the
trigger, and has every half-word of the trigger data in it (`TriggerReadsInHostOrder`).
`GebTimeInHalf`: the GEB timestamp is right in exactly the first half of each turn of the
lower word. A byte of 2 bits gives the sign bit, the carry into the upper word, bytes that are
not palindromes, and each field of a header more than one value.

### Deadlock

Checked in the receiver's runs (an ended process is the explicit step
`Terminated`). `OutFileClass` and `EventHeader` stop at their bounds, and in `Globals` nothing is
left to do when all puts have arrived, nor in `CasMonitors` when all changes and
subscriptions the bounds allow have been made: those say `CHECK_DEADLOCK FALSE`.

### Fairness

- `ReceiverRun` (`LiveSpec`): `WF(Main)`, the process is scheduled and `recv` returns what is there.
  `SF(Summary)`: a server that is asked again and again answers with data
  infinitely often if it has any; it may say "no data" any finite number of
  times in between. Weak fairness would not do, since the server is only enabled
  while a request is open. Nothing is assumed of `ServerCloses`, `Kill` or `Restart`.
  `SetupMayFail` is off: without a socket `main` does loop for ever (hazard at line 177).
- `Globals` (`LiveSpec`): one `WF`, of the steps of the putting thread, of `dbCaTask`, of the
  callbacks and of the network delivering what is on its way, taken together: while one of
  them can be taken, one is. That is less than fairness of each thread, and enough, as each has
  finitely many steps. No fairness for `PutField`, `ChannelUp` (a channel may stay away) or
  `FlushEarly` (a buffer need not fill), so the flush of `dbCaTask` has to do it.
- `CasMonitors` and `CasMonitorsHeld` (`LiveSpec`): likewise one `WF`, of `event_task`, of the
  thread that serves the client in the middle of a request or on its way to `recv`
  (`Proceed`), and of the threads that are to signal: threads of the IOC run, and get locks that
  are held for a bounded time. No fairness for records (they need not change) nor for the
  client (it need not send requests).

## 4. Findings

1. `ReceiverCut`, `receiver/tcp_Receiver.cpp:368`. An event takes its marker and
   `packet_length_in_words` words, but the length check does not count the
   marker (the `+= 1` of line 352 is compiled out under `ENABLE_GEB_HEADER`). A
   reply one word short passes, and the event is written with a last word that
   was never received.
2. `ReceiverShort`, `receiver/tcp_Receiver.cpp:214`. `recv` is called once for the
   16 bytes of the reply header and its count not looked at. When fewer
   come, the size is computed from uninitialised words and the receiver loses
   step with the server.
3. `EventHeaderTime`, `receiver/tcp_Receiver.cpp:365`. The lower 32 bits of
   the timestamp pass through an `int`. When its top bit is set, the upper 32 bits of
   the GEB timestamp are all ones: in half of all events.
4. `CasMonitorsFull`, `base/.../db/dbEvent.c:739`. Where an event is not
   replaced "the current entry must be available" (line 735), which line 739
   asserts; the manual promises room for one update of each subscription
   (`ca/CAref.html:2050`). While `event_task` does not run, subscriptions that are made
   and cancelled leave placeholders. `db_add_event` counts those and the quotas of
   the live subscriptions, but not the entries a live subscription has queued
   beyond its quota (a scalar's may fill the ring up to the last `EVENTSPERQUE`
   entries, which are kept for first events); placeholders take those
   last entries and the ring fills up. The assertion fails in the thread that
   processes a record, or in the server's.
5. `CasMonitorsMissed`, `base/.../rsrv/camessage.c:1936`. The first value is
   posted before the monitor is enabled. A change in between is posted to nobody, and
   the client keeps the older value until the next change. `camessage.c:1131`,
   where access is granted later, does it the other way round.
6. `CasMonitorsHeld`, `base/.../rsrv/camessage.c:628`. "Ensures timely response for
   events" (line 625): `read_reply` sends the buffer unless more events remain. It is told
   that they do when the next slot of the ring is not empty, a placeholder of a
   cancelled event included (`dbEvent.c:920`). `event_task` skips that placeholder, calls
   nobody back, and the update stays in the buffer, as `camsgtask` is in `recv` already. It
   goes out with the next update or request of the client. The client's echo
   does not help while it sees beacons of the server, which restart its watchdog
   (`ca/tcpRecvWatchdog.cpp:99`).

## 5. Proofs

TLAPS proves these for all values of the constants, under the assumptions named
with the constants. Most of these give types (`OutFileAssumption`,
`GetDataAssumption`, `ReceiverAssumption`, `BoundsAssumption`, ...: any stream, any
sizes, any failures, header cut or not). Three say more: `DataBufferAssumption` that a packet of type D, E or F is longer than its
marker (four words, line 341); `EventHeaderAssumption` that the bits of channel and board
make up a half-word, that a length fits in one, and
that a trigger has as many half-words as its words hold (they do: 16 bits, 11 bits, 16 of 10 words); and `FramingAssumption` that a stream is made of packets,
one behind the other, each as long as its header says. That is a statement about
`gretDet.munch`, the one `WriteData` relies on; it is not said of the replies, which may
cut a stream anywhere unless a theorem has `WholeReplies`.

Where a theorem has a hypothesis on the constants, it is the setting of the run that
checks the property, and needed: `WholeReplies` and `~ ShortHeader` (without them
findings 1 and 2), `~ FwriteMayFail` (a cut write leaves a torn event, nobody looks at
the result of `Write`), `~ FopenMayFail` (line 387 drops the reply), and `Orderly`
(chmod works, or there is one process: a second process goes back to an older file
that could not be made read-only).

| theorem | of | argument |
|---|---|---|
| `FilesTypeCorrect`, `FilesOpenIsWritable` | `OutFileClass` | `FilesInv` = types and `OpenIsWritable`; inductive as it stands |
| `FilesDiskOnlyGrows` | `OutFileClass` | from `FilesInv`: an object writes a file that is not read-only, at its end |
| `FilesSplitOnlyWhenFull`, `FilesSizeIsKnown`, `FilesOnlyNewestChanges` | `OutFileClass` | `SplitInv` |
| `ReceiverTypeCorrect`, `ReceiverBufferFits`, `ReceiverOpenForWrite` | `Receiver` | `ReceiverInv` |
| `ReceiverDiskOnlyGrows`, `ReceiverSplitOnlyWhenFull`, `ReceiverOnlyNewestChanges` | `Receiver` | `NextCalls`: a step is a call of `OutFile` or a death; then the lemmas on `OutFile` |
| `ReceiverEndsSealed` (where chmod works) | `Receiver` | `EndInv` |
| `ReceiverInStep` (headers come whole) | `Receiver` | `StepInv` |
| `ReceiverOnceInOrder` (`Orderly`) | `ReceiverProps` | `OrderInv` |
| `ReceiverEndsOnlyAtDone` (whole replies and headers) | `ReceiverProps` | `SyncInv` |
| `ReceiverImplementsRecorder` (and `~ FwriteMayFail`, `Orderly`) | `ReceiverProps` | `SyncInv`, `OrderInv`; a step is `Record` or a stutter |
| `ReceiverNothingLost` (and `~ FopenMayFail`, `~ FwriteMayFail`) | `ReceiverProps` | `LossInv` |
| `ReceiverOverrunBound` (whole replies and headers) | `ReceiverProps` | `SizeInv` |
| `ReceiverFramed` (and `~ FwriteMayFail`) | `ReceiverProps` | `FrameInv` |
| `EventHeaderTypeCorrect`, `EventHeaderGebTimeInHalf`, `EventHeaderTriggerReadsInHostOrder`, `EventHeaderFieldsOfEvent` | `EventHeader` | `HeaderInv` |
| `GlobalsTypeCorrect` | `Globals` | one step per action |
| `GlobalsWorkListSound`, `GlobalsNoLostWakeup` | `Globals` | each inductive together with the types |
| `GlobalsPutIsUnderway` | `Globals` | `GlobalsInv` |
| `GlobalsInOrder` | `Globals` | `GlobalsOrderInv` |
| `MonitorsTypeCorrect`, `MonitorsNoUseAfterFree` | `CasMonitors` | `UseInv` |
| `MonitorsRingSound` | `CasMonitors` | `RingInv` |
| `MonitorsNoLostWakeup` | `CasMonitors` | `WakeInv` |
| `MonitorsNewestIsDue` | `CasMonitors` | `DueInv` |
| `MonitorsImplementMonitor` | `CasMonitors` | `OrderInv`; every step is a step of `Monitor` or a stutter |
| `MonitorsSeenInOrder` | `CasMonitors` | `AcrossInv` |
| `MonitorsUnsentIsDue` | `CasMonitors` | `SentInv` |

- `OutFileProofs` has one lemma for each operation of the class, in the form "from
  `FilesInv`, the operation leads to `FilesInv'`", and the like for what it does to the
  disk. `FileCall` is any one of them. `OutFileClassProofs` and `ReceiverProofs` show that their steps
  are such calls, so the class is proved about once.
- `SplitInv` says more than `SplitOnlyWhenFull`: not only a file that has a successor is
  full, but also one whose successor is still to be opened (`Full`, up to `count`), read-only where
  chmod works, and `fileSize` is right for a closed file too. `OnlyNewestChanges`
  follows: an open file is not read-only, so it has no successor.
- `EndInv`: in the first process, of a channel's files only the open one is not
  read-only (`SealedInv`); main ends when none is open. It does not survive a kill, which is
  why `EndsSealed` is about the first process.
- `StepInv`: requests and replies alternate, and what is on the wire is a reply
  that announces what is behind its header. Without `~ ShortHeader` it fails (finding 2).
- `OrderInv`: words on the wire, and words of `data` that were received and not yet
  decoded (`Live`), ascend, and are later in the stream than all that is
  whole on disk (`FreshInv`); what is read out of step, or of stale memory, is not
  whole, whatever it looks like. A channel's events are appended to
  its newest file (`OnNewest`), so the log, which goes through the files in turn, is appended
  at its end; `NewestInv` says so of the first process even where chmod fails.
- `SyncInv` follows a reply from the server to the last word of `data`: the words on the
  wire, or in `data`, are the next ones of the stream (`WireSync`, `BodySync`), and whenever
  the loop of `WriteData` looks at a header, `index` is at the start of a packet that was
  received whole (`DecodeSync`, `EventSync`). That no packet starts inside another
  (`NoneStarts`) is an induction over the stream, by its least exception.
- Refinement of `Recorder`: `WriteBody` and `WriteTrig` append one whole event, later
  than any of its channel, in the file of its channel: `Record`. All other steps, among
  them roll-over, chmod, kill and restart, leave the log alone.
- `LossInv` says, at each point of the loop, up to where in the stream all events are in the
  log (`AllTo`); an event that was received is decoded before the next request.
- `SizeInv` allows for a file, by what its object knows of its size, the limit and one longest
  event for each earlier process, and one more while an event is under way (`FitsAt`). The
  size an object believes is right or 0 (`SplitInv`), which is where "each process" comes from.
- `FrameInv` counts the headers without a body by the processes that died, plus the
  event between its two writes (`DueNow`); that header is the last chunk of its
  file (`HeaderIn`), so the body comes right behind it.
- `ReceiverInv == TypeOK /\ OpenIsWritable /\ BufferFits /\ AtEvent`.
  `OpenForWrite` alone is not inductive: it needs that an open file is writable
  (`OpenIsWritable`), and `AtEvent`: between `OpenEventFile` and the write the index is
  in the reply and the file of the event is open. `BufferFits` needs the type of `data`,
  because `Resize` and `StoreAt` keep its length at least what the header announced,
  whatever the header said. The proofs include a header that comes in parts,
  which no passing run could: the stream of a receiver out of step has no bound.
- `GlobalsInv` strengthens `PutIsUnderway` by three facts: a put in the middle of
  its link has stored the value it carries (`Stored`); a link whose channel
  was never made has no value (`NeverPut`), so that a "connect" action and a
  "write" cannot be in one set, where `ConnectChannel` would drop the write; a
  channel that is gone is known to be broken (`LossKnown`). The proof of the
  `Underway` part goes through `Due`, a disjunction over the places a put can be,
  and shows for each action that it moves from one place to another.

- `GlobalsOrderInv` strengthens `InOrder` to how often a value may still be sent: `Owed(k)` is
  the number of places in which a write for link `k` waits (the task, the list, a put
  between store and `addAction`), three at most, and the newest value has been sent no more
  than three less that number. A put moves its write from one place to the next, and
  brings a value newer than all before (`Current`); `Put` takes one away.
- `HeaderInv`: the words of event and trigger are those of one clock value. The rest is
  arithmetic over any `Byte`, `Channels`, `Boards`, either byte order and any other bits, from two
  facts: there is one quotient and one remainder (`DivModIs`), and reversing the bytes of a word
  twice gives the word. 2^8 is such a `Byte`, and TLC's 4 another.

- `UseInv` says who works on a subscription when: it is made before it is
  enabled, disabled before it is purged, and an event in a ring, a callback or a poster
  belongs to one that has its queue. `pendexit` comes only when there is none left.
- `RingInv`: `Ring(r, g, p)` is the shape of a ring in use from `g` up to `p`, told from
  what `putix` and `getix` say by the slot at `putix`, as `ringSpace` does. The
  counters are cardinalities; a step changes the sets by one element (`AppendCounts`,
  `TakeCounts`, `SkipCounts`) or turns all events of one monitor into placeholders (`PurgeCounts`).
  The last event of a monitor is found by `Place`, one to one within a ring (`OnePlace`).
  `RingInv` is the base of all that follows: `pLastLog` points at the last event.
- `WakeInv` strengthens `NoLostWakeup` to every queue `event_task` has passed in the walk
  under way: what is put in there after it is signalled.
- `DueInv` counts a monitor from its first post on, before it is enabled; `Newest` follows
  the value from ring to callback to client.
- `OrderInv`: values in a ring ascend with `Place`, and none is older than what was
  called; replacing a value at the last place keeps that. The steps map to those of
  `Monitor`: a change to `Change`, `read_reply` to `Update`, `Freed` to `Cancel`.
- `AcrossInv` relates two monitors of a queue: whatever is told of `s` that is younger than
  the last change of `t` is told after all that is told of `t`, unless `t` has just been
  subscribed to (`Fresh`).
- `SentInv` counts what was promised: as long as no placeholder was made, all that is in a
  ring belongs to a subscription that has its callback, so a callback that is told of
  another event is followed by it (`Remaining`). What the serving thread itself puts
  into the buffer it sends before `recv`.

The rings' proofs hold for any number of subscriptions, queues and slots: `EVENTQUESIZE`,
a product, stays opaque and only `QueueSize` (more than one slot) is used.

**Only model-checked**: liveness (`RunEnds`, `ClosedEnds`, `PutArrives`, `TeardownEnds`,
`UpdatesSent`): fairness and ENABLED are out of the prover's reach. Every invariant and
action property that a run checks, and both refinements, are theorems as well.

Induction over data is done by hand: a set of numbers that is not empty has a least
one (`LeastOf`, from the well-foundedness of `<`), so a formula that fails somewhere fails at a
least place. What `FlattenSeq` and the log do when one chunk is appended is shown that way.

## 6. Not modelled

- Byte counts: sizes are words, so a body cut inside a word and the `int` overflow
  of `recordByte * numRecord` (line 248) are not there.
- An event has two words at least (a digitizer header is longer).
- `NothingLost` and `RunEnds` are checked with `fopen` succeeding: when it fails the code
  drops the rest of the reply (line 387), type D packet included, and neither holds.
- Two receivers on the same files at the same time, `pidList.txt`, and the sleeps between
  the scripts' steps. The scripts are straight lines of `caput` and `sleep`; what the
  crates see of them is in `CasMonitors`, what they do about it in binaries.
- The status line and its counters, arguments, printing, `DumpData` (never called).
- In `dbCa.c`: input links, put callbacks, links changed while the IOC runs,
  access rights, and a reconnect on which the channel has another type (line 606
  frees what line 915 asserts).
- In `dbEvent.c` and `rsrv`: extra labor, a cancel from the callback
  (`pSuicideEvent`), event masks, several monitors of a client on one channel, access
  rights, failed allocations, sends that block (a client that does not read) and a send
  buffer that is full and sent for that.
- The second dfanout stage inside a crate (`dgsGlobals_DGS_VME01.db`), other `selm`.
- Trigger rates: one expression of a database; how far two halves read one after the
  other may be apart is a property of the hardware. The `xxx` record is the
  example of the EPICS template, which no DGS database uses. The crate databases are tables.
- The rest of EPICS base, edm and the other extensions: vendored upstream code, most of
  the lines of the repository, and not what DGS relies on here.
- `RunProtect.asf` is loaded but no record uses its access group.

## 7. Plan

Done: `OutFile`, `OutFileClass`; `DataBuffer`, `GetData`, `WriteData`, `Receiver`,
`Recorder`; `EventHeader`; `CaLink`, `Globals`; `EventQueue`, `CasMonitors`, `Monitor`;
their theorems.

What could come next, in this order:

1. An abstract link that may drop a value only on a lost channel, implemented by `CaLink`,
   checked and proved; with it the second dfanout stage in a crate, composed with `Globals`.
2. Access rights in `CasMonitors`: enabled and disabled while a request is served.
3. Several receivers of one run and `pidList.txt`, if the scripts ever grow control flow.
