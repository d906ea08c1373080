# A verification development of SmartDashboard

TLA+ models of the parts of SmartDashboard in which processes, threads, queues
and restarts meet, TLC configurations that check them on small instances, and
TLAPS proofs of what matters most for every value of the constants. Paths below
are relative to `src/`. `PROJECT.json` lists every run, every theorem, the
lines each definition models, and for every property a plausible bug that
breaks it.

## 1. The system and its parts

SmartDashboard is a desktop dashboard for robots. A robot program or a
simulator publishes values; the dashboard subscribes to them, shows them in
tiles, writes some of them back, records runs and plays them back. Values
travel over one of several transports, chosen at start-up.

### 1.1 Direct transport

*Code.* `ClientInterface_direct/src/sd_direct_publisher_stub.cpp`,
`SmartDashboard_Interface_direct/src/sd_direct_subscriber_stub.cpp`,
`sd_direct_ring.cpp`, `sd_direct_shared_memory.cpp`.

*State.* In shared memory a header of atomics (magic, `writeIndex`,
`consumerReadIndex`, `consumerInstanceId`, two heartbeats, drop counter) and a
byte ring. In the publisher: the retained map (every key's latest value), the
pending map (what the next flush sends), and what it last knew of the consumer.
In the subscriber: a private cursor and the last sequence number.

*Operations.* Publisher: `Start`, `Publish*`, `FlushNow`, `Stop`, and a worker
that watches the consumer, replays the retained map to a new one and flushes.
Subscriber: `Start`, a loop (drain, claim the consumer's fields, publish the
cursor, heartbeat), `Stop`.

*Interaction.* Only through shared memory and an event. Two threads of the
publisher share the maps under mutexes, and `FlushNow` itself runs in both
without one. Initialization of the header is done by whichever process finds no
magic number, with no lock between the two.

*Hard.* Copy-then-merge of the retained map; `FlushNow` in two threads; a
restart of either process at any moment, with the other's memory left as it
was; wrap-around inside a frame; a full ring; noticing that the consumer is a
new one within its heartbeat window.

*Correct when* unread frames are intact, messages arrive in order and once, no
key's value steps back in front of the user, and a late joiner ends up with
everything.

### 1.2 Native Link

*Code.* `plugins/NativeLinkTransport/`: a core (`native_link_core.cpp`), a
shared-memory carrier (`native_link_ipc_client.cpp`,
`native_link_ipc_test_server.cpp`), a TCP carrier, the plugin.

*Core: state.* Topics with their descriptors, latest value, age and lease
holder; connected clients, each with a queue of undelivered events; the session
id and the next sequence number. *Operations:* register a topic, acquire and
release a lease, connect (which builds a snapshot), disconnect, drain, publish
(as a client or the server), begin a new session. *Correct when* each client is
owed exactly the accepted writes it has not drained; a snapshot plus its queue
converges on the authority's values; leases give one writer at a time; commands
are acknowledged to their writer only and never replayed; nothing of an old
session is taken for the new one's.

*Carrier: state.* In shared memory the session id, the server's heartbeat and
eight client slots, each with the owner's tag and name, heartbeat, a ring of
messages to the client, a one-message mailbox from it, its write sequence and
the acknowledgement. In the server, per slot, the last write sequence it
processed. In the client, a snapshot phase, `connected`, and the sequence it
submitted last. *Operations:* claim and leave a slot; the server's scan (time
out, snapshot, mailbox); the client's loop (server heartbeat, drain, report
connected); `Publish`, which waits for the last acknowledgement and posts;
`RestartSession`; the start of a new server process over existing memory.
*Hard:* everything above interleaves with no common lock. *Correct when* a slot
has one owner, a connected client that has drained its slot is up to date, a
write is taken once and in order, an acknowledgement means what it says, and
whoever stays gets connected in the end.

### 1.3 The others

| Part | State and operations | Hard behaviour | Correct when |
|---|---|---|---|
| `SmartDashboardClient` (`sd_smartdashboard_client.cpp`) | value cache, subscriptions, retained store; getters, puts, callbacks | two threads write the cache under two numberings; store and callbacks come after the unlock | cache, store and callbacks end at the last value, and a process reads its own writes |
| Retained store (`sd_direct_retained_store.cpp`) | a table in shared memory for several processes, and a file rewritten at every put | a crash between two steps; eviction at the limit; keys and lines that do not fit | the last value is there for whoever opens it next |
| Direct connection state (subscriber loop, heartbeats) | Connecting / Connected / Stale / Disconnected | timestamps sampled in the wrong order | no false loss, no missed loss |
| Native Link TCP carrier and plugin | accept thread, a thread per connection, the client's worker, the window's retries | connections lost at any point, reports that outlive their transport | as the shared-memory carrier, and reported losses are retried |
| NT4 and legacy NetworkTables plugins | sockets, announcements, ids, publications | ids anew at each connection, values queued over a reconnection, edits published again | tiles show the server's values, edits survive |
| Dashboard transport layer, replay (`dashboard_transport.cpp`) | a worker with cursor and rate, checkpoints, seeks | a seek against what the worker has collected and queued | the tiles show the recording at the cursor |
| Main window (`main_window.cpp`) | ingest queue, variable store, retry timer, edits, recording, playback, tiles | queued calls, nested event loops, queue at its limit | nothing last is lost; one recorder at a time |
| Run browser, playback timeline | a tree of keys with three-state boxes; window and cursor | cached sums of boxes, hidden keys saved in several places | what is hidden stays hidden; the window lies in the recording |
| Camera streams and discovery | three maps of cameras, the dock's URL and timer, the parser of the stream | maps that each drop what they know; retries against the operator; bytes cut anywhere | choices follow the providers, a retry runs exactly while wanted, frames are whole |
| Startup instance gate | a named mutex | two starts at once | one instance |
| Layout serializer, widgets, tools | files, painting, test harnesses | little that is ordered or concurrent | - |

### 1.4 How they interact

Transports call the main window's callbacks from their own threads; the window
queues the updates to the user-interface thread. The Direct transport and Native
Link's shared-memory carrier join two processes through named memory and
events. Inside Native Link, the carrier's server calls the core under its mutex
and forwards what the core says to the slots. `SmartDashboardClient` sits on top
of the Direct publisher and subscriber inside the robot's process. The window
owns the transport, the recorder, the replay, the run browser and the cameras;
their signals run its handlers at once, what comes from other threads is queued.

## 2. The modules

| Module | What it is | State |
|---|---|---|
| `NativeLinkCore` | the core, one action per public operation | checked; proved in `NativeLinkCoreProofs` |
| `TopicFeed` | what the core promises: a log per session, a position per subscriber | `NativeLinkCore` implements it (TLC and TLAPS) |
| `NativeLinkIpc` | the shared-memory carrier, server and clients, around a core of one topic | checked; proved in `NativeLinkIpcProofs` |
| `NativeLinkTcp` | the TCP carrier, server and dashboards' clients, and the window's retries | checked; proved in `NativeLinkTcpProofs` |
| `DirectTransport` | publisher process (two threads) and subscriber process, message by message | checked; proved in `DirectTransportProofs` |
| `DirectRing` | the ring byte by byte, between one producer and one consumer | checked; proved in `DirectRingProofs` |
| `LossyFifo` | what the ring promises | `DirectRing` implements it (TLC and TLAPS) |
| `SmartDashboardClient` | the client library over a ring of flushes | checked; proved in `ClientLibraryProofs` |
| `RetainedStore` | the store's table, file and processes | checked; proved in `ClientLibraryProofs` |
| `Places` | what is at some places of a table or sequence, in order | lemmas on it in `PlacesProofs` |
| `WindowIngest` | the window's queue, variable store, tiles, edits and retry timer as functions of a record | used by the next three and `Replay` |
| `NT4Client`, `LegacyNt` | each plugin between its server and the window | checked |
| `NT4Codec` | MessagePack and the scan of JSON as functions | checked on samples |
| `Timeline`, `Recording` | the playback timeline; the recorder | checked; proved in `MainWindowProofs` |
| `RunBrowser` | the tree of keys | checked; proved in `MainWindowProofs` |
| `CameraViewer` | the choice and connection of cameras | checked; proved in `MainWindowProofs` |
| `Replay` | playback: the replay's worker, its controls and the window's queue | checked; proved in `MainWindowProofs` |
| `MjpegStream` | the reader of a stream | checked |
| `MC*` | the small instances: model values, symmetry, offers and samples | - |

### 2.1 NativeLinkCore

`topics`, `clients`, `sessionId` and `nextSeq` are `m_topics`, `m_clients`,
`m_serverSessionId` and `m_nextServerSequence`. Every public operation of the
C++ class that changes something is one action, because each server calls it
under one lock. Rejections are part of `Publish` and have the order of the
code's tests (`WriteRejectReason`). Time is a set of ages in ticks that
saturate at `MaxAge`: only whether an age exceeds the topic's `ttl` matters.
`log`, `cursor`, `joined` and `mirror` are history: the writes accepted in this
session, the first a client has not drained, the session of its last snapshot
and what it holds if it applies all it was given.

### 2.2 NativeLinkIpc

A step is one message put into or taken from a slot or one access to another
field; the stores within one claim, stop, time-out or published update are
merged. The scan of the server is broken into its steps (`check`, `push` one
message of a snapshot at a time, mark it complete, `load` the write sequence,
`handle`, `ack`) and holds the mutex throughout, so `PublishFromServer` and
`RestartSession` wait for its end; clients interleave with every step. A client
is a worker (`LookAtHeartbeat`, `TakeMessage`, `MaybePublishConnected`) and a
`Publish` call (`PublishCall`, `WaitAcked` or `GiveUp`, `WriteMail`, `Submit`).
Values are numbers of writes, in the order they were begun. A refused write goes
back to its writer with the value refused (`Refusal`), and the client hands it on
like an update (`HandOn`). `told` and `refused` are history: the value `onUpdate`
was last given otherwise, and whether a refusal came after it.

Left out, by name: the bound of 1024 messages in a slot's ring (the code checks
no room there); torn reads inside one message, and the read index that a drain
interrupted by the clearing of its slot stores afterwards; `Stop` during a
`Publish`; descriptors, which the client ignores. `TimeOut` takes the slot of a
client that died, `TimeOutPaused` that of one that lives, was not scheduled for
five seconds and goes on with the slot, whoever has it by then.

### 2.3 DirectTransport and DirectRing

They split one transport by granularity. `DirectTransport` has a message per
slot of the ring and all the threads: a step is a mutex section or an atomic
access. `DirectRing` has bytes: a frame's header and body are copied in two
steps, read in two, both processes may restart anywhere, and frames of several
sizes wrap at every offset. Stopped and started again, a publisher keeps its maps
and its numbering; when its process ends (`PublisherEnds`), at any step of its
threads, both are gone, a frame half written is forgotten, and the next process
numbers from 1 over the memory the subscriber kept. `process` and `lastProcess`
are history: which process sends, and which one sent what was taken last.
`DirectRing` separates the attaching subscriber's
two steps (load `writeIndex`, store the shared cursor), which `DirectTransport`
joins. `DirectRing` assumes a single producer; `DirectTransport` lets the
application's thread and the worker flush.

Left out: the connection-state machine of the subscriber's loop, failures of
the operating system's calls, and keys cut at 128 bytes.

### 2.4 SmartDashboardClient and RetainedStore

The client's cache is written by the application's thread at `Put*` and by the
subscriber's, which hears the values come back. `HandleUpdate` is cut where it
leaves the mutex: the cache with the list of callbacks, the store, each
callback. Subscriptions are kept in tables as in the code, one for each key and
type, those of values and those of commands apart; a callback runs from the
list that was copied under the mutex, after the subscription may be gone. The
publisher is at the grain of a flush. It replays its retained map in two steps, the
sections of its two mutexes (`ReplayCopy`, `ReplayMerge`), and `Put*` may fall
between; `overtaken`, which is history, has the keys whose value was so replaced by
an older one. The ring drops nothing (that is `DirectTransport`'s subject);
`Start` is one step. `RetainedStore` cuts `Put` and the rewriting of the file at
every step a crash can fall between; a line torn by a crash is skipped by the
loader, a table of another size or version is not modelled. The loops that write
the occupied entries and load the readable lines are one function each
(`Collected`: what is at the places of a set, in their order).

### 2.5 NativeLinkTcp

The server's accept thread and a thread per connection, the client's worker
(connect, hello, receive, reports), and the window with its posted calls, timer
and buttons. Frames are whole, there is one topic, and the heartbeats' effect is
the freshness of a connection. The server's slots are listed one step after
their threads start. Who writes is decided by the core's lease, here one holder;
the value of a refused write goes back to its writer, which hands it on (`Refusal`,
`HandOn`; `told` and `refused` as in the other carrier).

### 2.6 WindowIngest, NT4Client, LegacyNt, NT4Codec

`WindowIngest` is the part of the main window every plugin meets: the queue
that collapses above a high-water mark and is drained a budget at a time, the
gate on sequence numbers, tiles, edits that are published again at `Connected`,
and the timer. The plugins' modules keep it in a variable. Their servers are
external: they echo each value to every client, the sender included, and hold a
topic for every key. A frame carries one value; publishing and the claim of a
topic are one message; Legacy's timer of the retries waits for an empty queue.
`crossed` marks a window into whose queue two transports have put: then an older
value may rest on a tile. `zeroed` marks one that was given a number 0 after others,
and `muted` the keys whose last update the gate refused because of that. Legacy's
16-bit numbers wrap at `SeqLimit`, and the program the dashboard finds may have
numbered its entries for a while. `NT4Codec` reads and writes bytes; a double is its
eight bytes.

### 2.7 Replay, Timeline, Recording, RunBrowser

`Replay`: a seek is called by the window and shows its values at once, the
worker's tick collects under the lock and publishes after it into the window's
queue. The file is as `std::sort` left it, with any numbers on its updates; the run has
them as the Direct transport gives them (from 1), as NT4 does (from 0), and as
Legacy NT does (by key, wrapping to 0). Times are small numbers and a value
is its event's index; a checkpoint stands at every second event for every
thousandth. `Timeline`: mouse positions are parts of the track. `Recording`:
`calls` is the stack of the window's unfinished calls, because the dialog for
the file runs the event loop; retries are on and a lost connection is reported.
`RunBrowser`: the dock's signal runs the window's handler before the click
returns; one file, one level of groups, a graceful restart; plots, expansion and
`CheckSignalByKey` are left out.

### 2.8 CameraViewer and MjpegStream

`CameraViewer`: the maps of the two providers, the aggregator's map with owners,
and the dock. The combo box is a library's: it may select its first item by
itself, selects another when the selected one goes, and says so again when
indices shift; each slot therefore has a set of outcomes. A camera's list of URLs
is its first. The dialog that asks for a name blocks the operator, not the
network. A collision of a published camera called `[Static] X` with a saved one
is left out. `MjpegStream`: bytes arrive in pieces of any length; a reply may be
a multipart, of another type or of none; pictures contain no marker, every part
has a header line. Frame rates are left out.

## 3. The runs

All instances are exhaustive. Where one run joins several instances or parts, one
of them is chosen in the initial state and the others stand still; fairness is
asked only of the part the run's liveness property is about. Deadlock is checked
in the runs of the core, the carrier and the ring, and not where the
application's or operator's steps are finite and everything rightly stops.

| Run | Instance | What it shows |
|---|---|---|
| `core` | 2 clients; either 1 replayed state topic with a time to live, 2 payloads, 3 writes in each of 2 sessions, or 1 leased command topic, 2 writes per session | `LiveStreamExact`, `SessionConfined`, `Converges`, `ImplementsFeed`, `OneWriterPerTenure`, `AcksFollowWrites`, `CommandsNotReplayed`: connecting, draining, leaving, leases and new sessions in any order lose, repeat and mix nothing |
| `ipc_restart` | 2 clients, 1 slot, 2 starts, stops and crashes, 3 events, each a write, a new session, a server's or a client's pause, or a new server process | `SlotExclusive`, `AckMeansHandled` while the slot changes hands |
| `ipc_clients` | 2 clients, crashes, 2 writes; either 2 slots and 1 session, or 1 slot and 2 sessions, fair | `Converges`, `HandledOnce` with three writers of one topic, of which one client's writes may be refused; `ClientsConnect` in the narrow instance |
| `ipc_server_restart` | 1 client | violated, see section 6 |
| `direct_manual` | 2 keys, ring of 1, 3 values, 2 publisher starts, 1 end of its process, no worker | `CursorsOrdered`, `InOrder` when the ring overflows and the publisher restarts or is replaced by another process |
| `direct_late_joiner` | 1 key, ring of 2, 2 values, 1 publisher start, 2 subscriber starts, 1 pause, fair | `ViewNeverGoesBack`, `LateJoinerCatchesUp` with the worker replaying and flushing |
| `direct_ring` | 5 bytes, header of 1, frames of 2 and 3, sequence numbers modulo 2, fair | `UnreadIntact`, `DrainEnds`, `ImplementsFifo` |
| `client_library` | 2 keys, 2 calls, 1 subscription, 1 other event, 2 runs of the process, fair; or 2 processes, 4 keys (one too long, one that breaks its line), 2 entries, 3 puts, 1 crash | `CacheConverges`, `ReadsOwnWrites`, `CallbacksConverge`, `PutsComeBack`; `KeepsLastValue`, `EvictsOnlyForRoom` |
| `tcp_reconnect` | 1 dashboard, 2 connections, 2 values, 3 events (session, stop, cut, silence, early heartbeat, click), fair; or 2 dashboards without events, one of which is refused | `Converges`, `EditSurvives`, `RetriesUntilConnected` |
| `dashboard` | one of: either NetworkTables plugin with 2 keys, 2 writes, 1 event, Legacy's numbers modulo 3; samples for the codec; every recording of up to 3 events under three numberings, with 4 moves; the timeline of 4 durations; the recorder with 3 events, 2 losses, 3 uses of the button, dialogs 2 deep; 3 keys and 7 clicks in the run browser; 1 camera name for both providers, 2 URLs and 7 steps; 2 parts in each of 2 replies, a valve at 18 bytes | `TilesFollowServer`, `EditSurvives`, `MessagesRead`, `TilesFollowCursor`, `WindowInRecording`, `FileComplete`, `ShownAsTicked`, `HiddenSurvivesReconnect`, `ChoicesFollowProviders`, `StreamRetried`, `FramesWhole` |
| `recording_twice`, `browser_hidden` | the recorder, the run browser | violated, see section 6 |

### Bounds and why they are enough

*Core.* Two clients are what leases and acknowledgements can tell apart; a
snapshot can fall before, between and after three writes; two sessions show
what survives one `BeginNewSession`, and a third starts like the second.
Ages saturate beyond the time to live. `MaxPending` bounds only the refusals in
a queue. The proofs remove all of these bounds.

*Carrier.* One slot is what makes an owner follow another, two slots are what
puts two owners side by side; the server treats slots one after the other and
alike. Three writes give one owner a write to leave behind and the next one two,
of which the second waits. Two sessions and two server processes show one
change of each. In `ipc_restart` `MaxEvents` bounds writes, session restarts,
pauses of the server and of clients, and new processes together to three of any
kind.

*Direct.* Ring positions are not bounded by the ring, so two messages of room
show full, half-full and empty; `direct_manual` has two keys, so that one is
kept while the other is dropped; a second start of a process meets what the
first left, and so does a second process of the publisher. `direct_late_joiner` has
one process and start of the publisher: what it asks is whether the worker notices
each new subscriber, and a new process notices whomever it finds as a first one does.

*Ring.* In five bytes frames of two and three bytes begin at every offset, wrap
in the header and in the body, and fill the ring exactly to its guard byte. The
proof covers every capacity, header and set of sizes.

*Client and store.* Two values of one key are what can come in the wrong order;
the second run of the process meets a store and a publisher of the first; the
second value falls before, between and after a replay's two sections. Two
entries and three keys make the store evict; one crash falls at every step.

*TCP and NetworkTables.* Two connections give the one left and the one that
follows; an edit before and one after a loss is what publishing again can mix. Two
dashboards are what a lease can tell apart. Entry numbers modulo 3 are 0, 1 and 2:
two that can go back to something else than 0, and the 0. One entry is numbered 1 and
the other 2 when the dashboard looks (`Begins`), so that two writes reach the last
number, wrap to 0, and wrap past a 0 that a collapsed queue skips, as 65536 does.
`HighWater` and `Budget` are 1 for 500 and 150, so that each second update
collapses the queue and each drain leaves some.

*Playback.* Numbers from 1, from 0, and by key modulo 3 go forward, back to 0 and
back to others among three events. Three events with times in 0 to 2 have ties, gaps and markers between
data; a checkpoint falls before, at and after a seek. Two dialogs are one inside
the other. Seven clicks reach a hide, a reconnect, a layout and a restart with one
click between each.

*Cameras.* One name in both providers is what ownership must keep apart; seven
steps hold a discovery, a connection, a loss, a discovery again and a drop. Two
parts give a first and a last marker with one between; the long picture alone
overflows the valve.

Symmetry (clients, keys, payloads) is used only in runs of safety properties.

### Fairness

*Ring:* the subscriber's loop takes its steps; nothing is assumed of the
publisher. *Direct:* each thread of the publisher that is inside a call or its
loop goes on, and so does the subscriber's loop once started; starting,
stopping, publishing and pausing are never forced. *Carrier:* the server's loop
and a client's worker go on and a `Publish` call ends, all of them loops over
waits with time-outs in the code. `TimeOut` is strongly fair: the test of the
heartbeat's age is made in each scan, and a dead client's age only grows, so
one of the scans finds it old. *Client:* the worker's flush and the reader's
loop go on, both loops in the code; no call of the application is forced.
*TCP:* threads of server and client go on, posted calls are handled, and the
timer fires (strongly, as each failure sets it again). No fairness is assumed of
stops, crashes, session restarts, pauses, lost connections, clicks or new
processes.

## 4. The proofs

`NativeLinkCoreProofs`, `DirectRingProofs`, `DirectTransportProofs`,
`NativeLinkIpcProofs`, `NativeLinkTcpProofs`, `ClientLibraryProofs` (the client and
its retained store) and `MainWindowProofs` (run browser, recorder, timeline, cameras
and replay) hold all theorems, and `PlacesProofs` lemmas on sequences and folds that
the last two share. Only the named assumptions of the modules
(`CoreAssumption`, the ring's on capacities and sizes, `DirectAssumption`,
`IpcAssumption`, `TcpAssumption`, `TimelineAssumption`; `ReplayAssumption`, on the
recordings, see below; `StoreAssumption`, that the
store's table has a place and no key is the empty name a reset entry has; that the
keys of the client library, of the store and of the run browser and the cameras'
names are finite sets, the bound on subscriptions a number, the file's keys among
the browser's, and "no URL" not a URL) are used, and all are evaluated by TLC in the
runs. Each inductive invariant was checked by TLC on a small instance
before it was proved.

**The core** (for any clients, topics, descriptors, payloads and bounds):

- `TypeCorrect`: `TypeOK`, with the fact that the next sequence number is one
  more than the number of writes accepted in the session.
- `LiveStreamIsExact`: `LiveStreamExact`. Inductive with `TypeOK` and
  `CursorInRange` (no cursor is past the end of the log). The argument is in
  three lemmas: a drained queue owes nothing, a refusal behind the events
  changes nothing owed (`OwesBesideReject`), and an accepted write, with or
  without its acknowledgement, extends by one what every client is owed
  (`OwesAccepted`).
- `LeaseHasOneWriter`: `OneWriterPerTenure`. It says nothing of the next writer
  and is not inductive; `OpenWriterHolds` is what carries it: the client whose
  write is open, that is not followed by a release, is the holder still.
- `QueuesAreOfThisSession`: `SessionConfined`.
- `AcknowledgementsFollow`: `AcksFollowWrites`, by `AcksInOrder`, which says for
  each acknowledgement where in the same queue its write is. A drain takes the
  whole queue, so the two cannot be parted.
- `ClientsConverge`: `Converges`. What a client will hold after it has drained
  depends on its snapshot only where its queue says nothing of a topic. The
  invariant `ConvergenceInv` says that the last write a queue holds to a topic
  is the topic's latest (`QueuesEndAtLatest`), that a snapshot of this session
  is current for every replayed topic the queue does not touch
  (`SnapshotsCurrent`), and that nobody joined a later session
  (`JoinedBefore`). `AppliedValue` joins them.
- `ReconnectFiresNoCommand`: the action property `CommandsNotReplayed`.
- `CoreImplementsFeed`: `ImplementsFeed`, the refinement of `TopicFeed`. A
  subscriber's position there is counted from its queue, and the lemma to have
  is that this equals the cursor (`QueuesMeasured`, over `StreamInv`); then an
  accepted write is the feed's write, a drain its read, a connection its join,
  and every other operation stutters.

**The ring** (for any capacity, header size, set of frame sizes and sequence
limit): the invariant is `RingInv`, the conjunction of `TypeOK`, `Room` (a frame
being written fits before the published cursor), `Between` and `Within` (unread
frames lie between cursor and writer, each within a lap), `InTurn` and `Chained`
(each begins where the one before ends), `UnreadIntact`, `HalfWritten` (the part
of the current frame that is copied is there) and `HeaderHeld` (what the reader
copied is the header of the first unread frame). `UnreadIntact` alone is not
inductive: it needs to know where free bytes are and that the writer keeps to
them. Each action has its lemma; the arithmetic of wrapping is in the lemmas on
`Distance` at the head of the module.

- `RingTypeCorrect`: `TypeOK`.
- `UnreadIsIntact`: `UnreadIntact`.
- `RingIsFifo`: `ImplementsFifo`. Under `RingInv` a commit is a send, a take is
  a receive of the head (`ReceivedIsHead`), an attach is a skip, and every other
  step stutters; a header read is never malformed (`ReadHeaderIntact`).

**The Direct transport** (for any keys, capacity and bounds, either kind of
flushing, any starts and stops of both, and any ends of their processes). A ring has one producer, but
`FlushNow` takes no lock, so that one thread at a time is in it is up to the
publisher's user; the theorems name this as a condition on the behaviour.
`OneWriter` says that not both threads are between the copy of a frame and its
commit, `NoOldSnapshot` that the application does not write while the worker
holds a snapshot of the retained values it has yet to merge. The invariant is
`Structure` (types, which thread may be where, what a thread holds, and that the
region is mapped where it is used) with `CursorInv` and `ValuesOrdered`:

- `DirectTypes`: the types, without any condition.
- `OneThreadWrites`: both conditions hold of every behaviour of a publisher that
  is flushed by its worker alone or by the application alone.
- `CursorsStayOrdered`: `CursorsOrdered`, under `OneWriter`. A frame that waits
  for its commit has to be beyond all that is committed, and the last of the ring
  (`HoldsAhead`); with a second writer in between, the commit of the first takes
  the index back.
- `MessagesInOrder`: the action property `InOrder`, under `OneWriter`. A number
  means something together with the process that gave it: the order is that of the
  processes, and within one that of the numbers (`Earlier`). The invariant
  (`NumbersOrdered`) is that the slots are in this order, that what is unread comes
  later than what was read, and what the publisher will send next later than both,
  also when a subscriber starts over, when the header is initialized under an
  attached subscriber, when frames are dropped, and when a process ends in the
  middle of one and its successor begins at 1.
- `ValuesNeverGoBack`: the action property `ViewNeverGoesBack`, under both. A
  value passes through six places, from the retained map to the view, and replays
  put old ones beside the new. The invariant is that a version that a flush took,
  now in a batch, in the ring or in the view, is no newer than what any place
  before it holds of the same key (`SentFirst`), and that the ring has each key's
  versions in order, from the view's on (`RingOrdered`).
- `OneThreadKeepsOrder`: the last three without a condition on the behaviour, for
  publishers with one flushing thread.

**The carrier** (for any clients, number of slots and bounds): the invariant is
`IpcInv`, the conjunction of `ServerType`, `ClientType`, `SlotsType` and
`SlotExclusive`. Every write of the server or a client into a slot but four
keeps all owners (`OwnersKept`, composed over the several pushes of one step by
`KeptTwice`), so it cannot take a slot from a client. The four are: a claim,
which takes a slot that no client owns; an orderly stop, which clears the
client's own slot, hence no other's; a time-out, which clears a dead owner's
or a paused one's; and a new server process, which clears all. `SlotExclusive`
excepts the pause and the new process, and nothing else: without the exception
TLC finds a client at work in a slot it lost after five steps. That a slot
number is in range is part of the types: a live client has a slot.

- `IpcTypeCorrect`: `TypeOK`.
- `SlotsAreExclusive`: `SlotExclusive`.
- `AcknowledgedIsHandled`: the action property `AckMeansHandled`, with `AckInv`
  beside `IpcInv`. A call that goes on because its last write is acknowledged
  has had it handled. The scan reads a slot in three steps, so the invariant
  says of a visit in progress (`VisitSound`) that it acknowledges no more than
  was written when the mail was taken, or that a new owner, who cannot publish
  yet, has come into the slot; and of the owner (`SubmissionSound`) that its
  mail is still there until then.
- `WritesAreHandledOnce`: `HandledOnce`, with `OnceInv`. No write is taken twice
  needs that the owner overwrites its mail only when the number it submitted is
  acknowledged, and that number is forgotten at the begin of a snapshot. So the
  invariant follows the markers through server, slots and clients (`OrderInv`:
  none reaches a slot with a write in it) and then says that a value that waits
  is not yet taken and waits in one place (`FreshInv`).
- `SettledClientsHoldTheLast`: `Converges`, where clients do not stop in an
  orderly way (`~MayStop`), and as long as one server process lives, its heartbeat
  is never seen stale and no pause of a client is taken for its death (`Steady`);
  section 5 says what fails otherwise. It says of a settled client that it was told
  the latest value, and holds it unless its own refused value was handed on since. Sessions, crashes, time-outs of the dead and
  writes of others are not bounded. What a slot holds is worth what its client
  makes of it, so the invariant `FeedInv` speaks of the drain to come: `Drains`
  says that from the client's phase and what it was told the messages lead, one by one, to
  a phase and a value, refusals passed over, and `Delivered` that these are live with
  the latest value,
  or that the client still waits for a snapshot and does not count as connected;
  while a snapshot is pushed, that what is left of it leads there. A write is
  answered with all the core held back for the writer, updates that its slot
  had before, so the invariant also says that what is held back ends with the
  latest value (`Owes`). `HeardInv` joins what a client
  was told to what it holds.

**The TCP carrier** (for any dashboards, number of connections and bounds, with
all the events): the invariant is `Inv`, the conjunction of `Structure`,
`StreamsBring` and `EditsDelivered`. `Structure` has the types and five parts:
an open connection is the one its client holds (`Held`); what the server's slots
may be, and that the only one not listed is the one its accept thread is at
(`Slots`); a client that has heard nothing is as it began (`Fresh`); what goes up
before a hello is no write, and the hello stays until it is read (`Greetings`);
and no write is newer than its dashboard's last edit (`Numbered`). Every action
is first shown to be one of twenty steps stated field by field (`StepKinds`),
and each part of the invariant has one lemma over these.

- `CarrierInvariant`: `Inv`.
- `SettledClientsConverge`: `Converges`. That a drained client was told the
  authority's value says nothing of a stream half read, so the invariant says of
  each stream what the client will have been told at its end (`Brings`): the
  last update under way is the latest value, whatever refusals are beside it; or
  none is, and the client was told it already; or the client discards values, and a whole snapshot has still to come
  before it is live. The lemmas say that this is kept by more updates, by
  another snapshot and by each message taken. Only good connections are bound:
  listed when they were greeted, and not broken.
- `EditsSurvive`: `EditSurvives`. A dashboard's last edit is owed until it is the
  last write under way, or the authority has it or a later value, or another
  dashboard has the lease; what still pays the debt is a report of `connected`
  on its way to the window, or a snapshot on its way to the client, which brings
  such a report (`EditsDelivered`). The write that breaks this comes up a
  connection its dashboard has left, which is what `outrun` remembers.

**The client library** (for any finite set of keys, any types and bounds): the
invariant is `ClientInv`, the conjunction of `Structure` (the types, that nothing
holds a version that was not put, and what each thread's remaining steps may
be), `Numbers` (a subscription's number is given once), `Orders` (the ring is in
the order of the publisher's numbers, and a value in the cache that is not the
last is older than all of the ring), `AtHome` and `Behind`. A copy of the retained
map that waits for its merge is one more place a value may be in; for an overtaken
key nothing is claimed until it is put or merged again. The hard cases are
the two numberings of the cache and the steps that come after the unlock: when
the last value of a key is neither under way nor in the ring, it is in the cache,
and in the store and the callbacks unless the reader's thread is just bringing
it there (`AtHome`). The properties, which speak of the state at rest only, are
not inductive without these.

- `ClientTypes`: the types.
- `CacheAndStoreConverge`: `CacheConverges`.
- `SubscribersSeeTheLast`: `CallbacksConverge`.
- `OwnWritesAreRead`: `ReadsOwnWrites`. As long as nothing was replayed the
  publisher's numbers stay behind the client's own (`Behind`, by counting the
  values that wait), so a value that comes back never replaces a newer one.

**The retained store** (for any processes, finite set of keys and size of the table,
and any number of puts, closes and crashes): the invariant `StoreInv` says where the
last values are. `TableSays`: in the table, once somebody has opened it, all entries
of a key have the version of its last `Put`, and there is one. `FileSays`: so have the
readable lines, unless a crash or a `Put` that could not write left the file behind;
then everything is lost with the last process. Both need `Unique`: no two entries, and
no two lines, are of the same key. A key longer than an entry holds breaks this for
its own first 191 bytes, as does a crash after the entry was reset, which spends a
slot on no key; from then on only keys held whole are known to be unique (`Known`).
`Room` counts: a table without a free entry and without the key that is put holds as
many other keys as it has entries (`FullTable`). Saving and loading are `Collected`;
the lemmas on it say that it has every element of the set it runs over, and each once
(`Numbering`, `CollectedFrom`), for sets of every size.

- `LastValuesAreKept`: `KeepsLastValue`.
- `EvictionsMakeRoom`: `EvictsOnlyForRoom`.

**The recorder** (for any number of events, losses, uses of the button and open
dialogs): the invariant says where the accepted events are while a recorder runs
(`FileThenQueue`): the file followed by the queue is what was accepted, unless the
file could not be opened, and a recorder that ended left nothing in the queue.

- `NothingAcceptedIsLost`: that invariant, with the types.
- `FilesAreComplete`: `FileComplete`, without the exception for a recorder started
  over another.

**The timeline** (for recordings of any length, any least span and any positions
of the mouse, in integers without a width): `WindowInRecording` is inductive with
the types. Every operation asks for a window of at least the least span
(`FollowedIsWide` for the follow mode), and clamping keeps a window's span or
shows the whole recording (`ClampKeepsSpan`).

- `WindowStaysInRecording`: `WindowInRecording`.

**The run browser** (for any finite set of keys, any grouping and file, and any number
of clicks, arrivals, layouts, reconnects and restarts): the invariant `BrowserInv` has
two parts. `Sound` says that a tree that mirrors live tiles has a box for exactly the
keys that have a tile, and that once the dock is in charge it has decided of every
tile. `Kept` says that what the user has unticked is among the keys the window hides
at the next start; it holds of the keys the user has hidden and not of all keys,
because a group's box that is off passes its state to keys that arrive later.
Loading a layout and starting a transport are loops over keys. What they leave is
proved for every number of keys (`FoldTotal`, `SubsetInduction`): the property is
given as a set of sets of keys, and a smallest set outside it would have one element
too many (`LeastNumber`).

- `TilesFollowTicks`: `ShownAsTicked`.
- `HiddenStaysHidden`: the action property `HiddenSurvivesReconnect`.

**The cameras** (for any finite set of names, any URLs, and every choice the combo
box may make of itself): `CameraInv` says that the aggregator knows and the combo box
offers exactly what the two providers have, with owner and present URL (`Follows`),
and that a URL that is wanted is the one the dock connects to, the timer runs exactly
while such a stream is down, and a stream that is up without being wanted has no URL
left to retry (`Retries`). The hard step is the clear of a provider: its cameras are
removed one by one and after each the combo box may select another. `CamerasRemoved`
follows this loop by the same induction, for every outcome: the choices left are
those of the others, and what `Retries` speaks of is untouched.

- `ChoicesAreTheProviders`: `ChoicesFollowProviders`.
- `StreamsAreRetried`: `StreamRetried`.

**The replay** (for any finite set of keys, any recordings, distance of checkpoints,
budget of a drain and high-water mark, and any uses of the controls): `ReplayAssumption`
has a recording be not empty and sorted, as `LoadReplayFile` sees to; its numbers are
any, for recordings of NT4, of Legacy NT and of Direct's retained controls have 0 among
others. The invariant
`PlayerInv` speaks of what the tiles will show: what is queued to the window, and after
it what the worker has collected, make every tile right for the position the worker has
passed, or the one the last seek rebuilt (`OnTheWay`); no event still to be passed is
before the cursor (`InPlace`); and the gate is open (`GateOpen`): unless an update
numbered 0 came after others since the last reset, no record has a number
above the last one that came, so that an update is shown whatever its number is, or
resets the gate first. Where a 0 has shut the gate a tile may be behind what was
received; what the tiles would show but for that (`Shows`) differs from them at the
keys in `muted` only, and it is this picture the queue leads on from. `After` gives the tiles after a sequence of updates; `AfterConcat`
says that it may be taken in parts, which is what a drain of some of the queue does, and
`OneQueued` that collapsing the queue to the latest of each key does not change it.
A seek and a drain are folds over updates. The definition of a fold is a recursive
function on sets, whose value the prover knows only once such a function exists:
`FoldFromLargest` makes one, and `ReceivedSteps` and its like read a fold as steps.

- `PlayerIsSound`: `PlayerInv`.
- `CursorIsShown`: `TilesFollowCursor`.

Types are proved and no longer among the runs of ring and carrier: the proofs
say more than the instances.

**Model-checked only.** Liveness (`DrainEnds`, `LateJoinerCatchesUp`,
`ClientsConnect`, `PutsComeBack`, `RetriesUntilConnected`): temporal reasoning
with fairness and `ENABLED` is beyond the prover. Of the safety properties, those of the NetworkTables
plugins (`TilesFollowServer` and their `EditSurvives`) and of the stream's reader (`FramesWhole`) have no proof. What the codec reads
(`MessagesRead`) is checked on samples: its operators are recursive, and the
library's induction theorems take an operator as parameter, which the prover cannot
instantiate. Induction over a finite set, where the property can be given as a set,
is got from the well-foundedness of `<` instead (`LastPosition`, `SubsetInduction`,
`StepByStep`).

## 5. Limits of what is shown

- `HandledOnce` holds in the first session of the first server process as long
  as no heartbeat of the server is found stale and no client pauses for five
  seconds. In each of the other cases it fails in the same way: a client forgets
  the number it submitted (at the begin of a new snapshot, or when its worker
  finds the heartbeat stale, `native_link_ipc_client.cpp:552` and `:493`) and may publish
  again before the server's scan has loaded its mailbox, so one write is lost
  and the next is taken twice. No document promises otherwise.
- `SlotExclusive` and `AckMeansHandled` hold as long as one server process
  lives and no client pauses for five seconds: a new process clears the slots
  under clients that still use them, and a scan takes the slot of a paused
  client, which is never told.
- `Converges` and `ClientsConnect` of the carrier are checked, and `Converges` is
  proved, with crashes and without orderly stops: a client that claims the slot in the middle of a
  predecessor's snapshot gets its tail, and the slot counts as served
  (`native_link_ipc_test_server.cpp:565`). `Converges` is checked without
  server pauses: one of more than five seconds in the middle of a snapshot makes
  the client discard the rest of it.
- `ClientsConnect` is checked without server pauses: after one, the client waits
  for a snapshot that the server sees no reason to send.
- A dashboard of the carrier paused for more than five seconds, one that dies
  between claiming a slot and its first heartbeat, and a slow one whose ring of
  1024 messages is overwritten are known weaknesses without a property: no
  document promises the slot or the messages to them.
- `CursorsOrdered`, `InOrder` and `ViewNeverGoesBack` are checked and proved for
  one flushing thread at a time. A publisher with a worker breaks this when the
  application calls `FlushNow`, or `Stop`, which does
  (`sd_direct_publisher_stub.cpp:85` beside the worker's call at `:205`): both
  threads copy behind the same index, one message is overwritten, and the later
  commit may take the index back; with both ways of flushing TLC finds
  `CursorsOrdered` violated. If the worker merges a snapshot taken before a newer
  value was published and flushed by the application, it sends the old value
  after the new. No document says which thread may call.
- `InOrder` orders the messages of a publisher process by their numbers and says
  that no process's message comes after one of its successor; the numbers themselves
  begin again. `m_lastSeq` of the subscriber follows them back, and the window
  resets its gate (`main_window.cpp:1803`).
- `LateJoinerCatchesUp` promises nothing once a value was dropped from a full
  ring or the header was initialized twice, which may wipe a first replay for good.
  It is checked with one start of the publisher's one process.
- `Converges` of both carriers says what a client was told by updates. A client whose
  write was refused is handed its own value back and shows it until the next update,
  although the authority never took it.
- `CacheConverges`, `CallbacksConverge` and `PutsComeBack` except keys that are
  `overtaken`: a value put after the worker copied the retained map and before it
  merged the copy is replaced by its predecessor, which is what comes back last, and
  nothing sends the newer one until the key is put again or another consumer appears
  (section 6). Without the exception TLC finds all three violated.
- `CacheConverges` and its companions also except what the code gives up by design: a
  callback already copied may run after `Unsubscribe`, an immediate callback may
  come behind a newer one, and a value heard last before `Stop` may rest in the
  store although a newer one is still to be flushed.
- `KeepsLastValue` excepts values a crash took while the file was rewritten, and
  keys whose line or entry does not hold them: those with a line break, those longer
  than 191 bytes, and a key that is the first 191 bytes of a longer one, whose entry
  the longer one's values may get (`sd_direct_retained_store.cpp:419`). A last line cut before its value
  makes `stod` throw out of `OpenOrCreate` at every later start
  (`sd_direct_retained_store.cpp:255`); in the model such a line is skipped.
- `Converges` of the TCP carrier excepts a client greeted before its slot was
  listed (`native_link_tcp_test_server.cpp:526`): a value published between never
  reaches it. `RetriesUntilConnected` excepts clients whose worker ended without
  a report or that wait for a snapshot nobody sends (`silent`, `leftAlone`).
- `TilesFollowServer` excepts windows in whose queue the updates of two transports
  met (`crossed`): `StopTransport` does not empty the queue. It also excepts keys that
  are `muted`: when an entry's 16-bit number wraps, its update numbered 0 is refused
  and the tile keeps the value before it, and so do tiles with later updates of lower
  numbers, until a number goes back to something else than 0 (section 6). Nothing is said of
  liveness for NetworkTables; the window's retries are in `tcp_reconnect`.
- `TilesFollowCursor` excepts a seek that met updates of the worker on their way
  (`overtaken`), and keys without an event before the cursor keep what they had. It
  excepts `muted` keys as well. Recordings with 0 among their numbers are common: NT4
  numbers from 0 (`nt4_client.cpp:760`), Legacy NT wraps
  (`legacy_nt_transport_plugin.cpp:552`), and the Direct transport's retained controls
  may be recorded with 0 (`main_window.cpp:4447`). A replay that comes by the 0 after
  other numbers, by a seek to the beginning for one, makes 0 the last number seen;
  the next lower number is then not taken for a step back, and the gate refuses it
  and those behind it, until numbers go back again or have caught up.
- `FileComplete` excepts recorders whose file could not be opened.
- `ShownAsTicked` excepts a tree whose root's box is off: a new key of a group
  unticked as a whole has a ticked box and a hidden tile.
- `HiddenSurvivesReconnect` speaks of keys whose box is unticked. A ticked key can be
  hidden too, through the root: a group's box stays off when a key arrives under it,
  and where that leaves the root off the tile is hidden although its box is ticked;
  the next arrival that turns the root on again shows it. The proof met this: the run
  is too short for it (about ten clicks and four keys).
- `FramesWhole` asks for a header line in each part and no marker in a picture; a
  reply without a Content-Type fills the buffer without limit, because
  `ParseBuffer` returns before its safety valve. There is no time-out for a
  camera that accepts the connection and sends nothing.

## 6. Where the code and its documents disagree

Each of these is a run that TLC finds violated; `PROJECT.json` quotes the lines.

| Run | What happens |
|---|---|
| `ipc_server_restart` | after the server's process was replaced, a dashboard that stayed has no slot and claims none |
| `recording_twice` | a retry during the dialog for a recording's file starts a second recorder; the first call's assignment then meets a thread not joined |
| `browser_hidden` | a hidden key whose tile is still to arrive is forgotten by the next synchronisation or save, and shown at the next reconnect |

Seen on the way, in the models, without a run of their own:

- The application's thread and the worker of the Direct publisher may both be
  inside `WriteUpsert` (`sd_direct_publisher_stub.cpp:85`) of what the design
  calls a single-producer ring; and a value published between the copying and
  the merging of the retained map is replaced by its predecessor
  (`sd_direct_publisher_stub.cpp:278`). The models have both; the client library's
  properties except the keys concerned.
- The window takes numbers that go back for a publisher's restart, "so reset per-key
  sequence gating to accept new session updates" (`main_window.cpp:1803`), but not
  when they go back to 0 (`:1805`), as a wrap does, or a seek to the beginning of a
  recording: that update is refused, and with 0 as the last number the next is not
  recognised as a step back either.
- A client hands the value of a refused write on like an update of the topic
  (`native_link_ipc_client.cpp:589`, `native_link_tcp_client.cpp:718`): its dashboard
  shows a value the authority refused.
- The server's count of a slot's writes outlives its owner
  (`native_link_ipc_test_server.cpp:573`): the first writes of the next one look
  handled.
- `BeginNewSession` keeps the latest values, and the next snapshot replays them
  with the new session's id and not stale, where `CONTRACT.md:308` wants state
  of the old session marked superseded.
- `HandleClientWriteLocked` drains the writer's core queue, which holds every
  update since its last write although each was pushed to its slot when it
  happened: the client sees them twice, with sequence numbers that go back,
  where `CONTRACT.md:71` promises monotonic ones.
- A dashboard that takes over a slot while its predecessor's snapshot is being
  pushed is never sent one (`TEST_PLAN.md:90`).
- Both processes of the Direct transport may initialize the header; the later
  one wipes what was replayed to the first, and nothing re-sends it. This is
  why `LateJoinerCatchesUp` excludes behaviours with two initializations.
- A `Connected` queued before a click on Disconnect clears `m_userDisconnected`
  (`main_window.cpp:1906`), where the click was to "suppress host-level
  auto-reconnect until the user clicks Connect again".
- A seek includes an event at the checkpoint's own index and may leave a key
  without events before the target at its old tile, where
  `design/SmartDashboard_Design.md:832` has `seek(t)` publish the state at `t`.
- After Clear Widgets or a replaced layout with a live transport the run browser
  is not in charge until the next start: unticking has no effect.
- `CamerasCleared` is documented as "Only emitted when ClearAll() is called"
  (`camera_discovery_aggregator.h:63`) but follows every provider's clear that
  leaves nothing: a transport that reports Disconnected then forgets the URL of a
  camera the operator typed in, and a running stream is no longer retried, also
  after the camera was discovered again, although `camera_viewer_dock.cpp:222`
  clears the flag "so that auto-reconnect (after stream error) works".
- While a camera's retry is pending its Disconnect button is disabled, and every
  retry of the transport stops a saved camera's stream too.

## 7. Not modelled, and what is left

- *The subscriber's connection state* (`sd_direct_subscriber_stub.cpp:197`): four
  states from sampled time stamps; its unsigned differences want a model of the
  clock at the width of the code.
- *Startup instance gate*: one call that creates a named mutex of the operating
  system; the atomicity that matters is the system's.
- *Layout serializer, widgets' painting*: pure input and output, no steps to
  order.
- *Command-line tools*: test harnesses around subscriber and publisher.
- *Of the main window*: plots, menus, docks, remembered values of controls, and
  settings; *of the plugins*: settings text, name resolution and the libraries.
- *Proofs still worth making*: `TilesFollowServer`, over the folds of
  `WindowIngest`, with `After` and the lemmas on it that the replay's proof uses.
