--------------------------- MODULE DirectTransport ---------------------------
(***************************************************************************)
(* The Direct transport: a publisher (sd_direct_publisher_stub.cpp) and a   *)
(* subscriber (sd_direct_subscriber_stub.cpp) in two processes, joined by a  *)
(* ring of framed messages and a header of atomics in shared memory.         *)
(*                                                                           *)
(* The publisher has two threads, the application's and the worker that      *)
(* replays and flushes; the subscriber has one.  A step is what one thread   *)
(* does between two points where another can see or change shared state: a   *)
(* mutex section or an atomic access.  Values are version numbers, in the    *)
(* order in which the retained map took them.  Here a message is one slot;   *)
(* DirectRing has the bytes.                                                 *)
(***************************************************************************)
EXTENDS Integers, Sequences

CONSTANTS
    Keys,
    Capacity,       \* messages that fit between consumerReadIndex and writeIndex
    AutoFlush,      \* PublisherConfig.autoFlushThread
    AppFlushes,     \* the application itself calls FlushNow and Stop
    MaxVersion,     \* bound: Publish* calls
    MaxInstance,    \* bound: subscriber starts
    MaxQuiet,       \* bound: consumer heartbeats going older than 500 ms
    MaxStarts,      \* bound: publisher starts
    MaxEnds         \* bound: ends of the publisher's process

ASSUME DirectAssumption ==
    /\ Capacity \in Nat \ {0}
    /\ AutoFlush \in BOOLEAN /\ AppFlushes \in BOOLEAN
    /\ MaxVersion \in Nat /\ MaxInstance \in Nat /\ MaxQuiet \in Nat
    /\ MaxStarts \in Nat /\ MaxEnds \in Nat

App == "app"
Worker == "worker"
Threads == {App, Worker}

VARIABLES
    \* the publisher's process
    running,        \* m_running
    retained,       \* m_retained: key -> version, published keys only
    pending,        \* m_pending: key -> version, keys present only
    wasActive,      \* m_consumerWasActive
    lastObserved,   \* m_lastObservedConsumerInstanceId
    pubSeq,         \* m_publishedSeq
    \* its threads
    pc,             \* thread -> where it is
    back,           \* thread -> where its FlushNow returns to
    batch,          \* thread -> what FlushNow swapped out and still has to write
    hold,           \* thread -> <<key, position>> copied and not yet committed
    call,           \* <<key, version>> of the Publish* call in progress
    seen,           \* the worker: the heartbeat it read was fresh
    snapshot,       \* the worker: its copy of m_retained
    \* shared memory
    magic,          \* the header is initialized
    slots,          \* the ring by position; a position never written is zeroed
    writeIndex, consumerRead, consumerId, dropped,
    consumerFresh,  \* lastConsumerHeartbeatUs is at most 500 ms old
    \* the subscriber's process
    sub,            \* where its thread is
    instance,       \* m_instanceId
    cursor,         \* m_readCursor
    lastSeq,        \* m_lastSeq
    view,           \* key -> version last handed to the update callback
    \* counters behind the bounds, and history
    version, starts, quiet,
    process,        \* publisher processes that have ended
    lastProcess,    \* which of them sent the message that lastSeq is of
    quietJoin,      \* it attached while no Publish* call ran; none was made since
    doubleInit      \* one process initialized the header the other already had

maps == <<retained, pending>>
watch == <<wasActive, lastObserved>>
flushing == <<pubSeq, back, batch, hold>>
replaying == <<seen, snapshot>>
ring == <<magic, slots, writeIndex, consumerRead, dropped>>
consumer == <<consumerId, consumerFresh>>
last == <<lastSeq, lastProcess>>
subscriber == <<sub, instance, cursor, last, view>>
bounds == <<version, starts, quiet, process>>
history == <<quietJoin, doubleInit>>
vars == <<running, maps, watch, flushing, replaying, pc, call, ring, consumer,
          subscriber, bounds, history>>

Nothing == [k \in {} |-> 0]
Zeroed == [key |-> "none", version |-> 0, seq |-> 0, process |-> 0]
Merged(f, g) == [k \in DOMAIN f \cup DOMAIN g |-> IF k \in DOMAIN g THEN g[k] ELSE f[k]]
Without(f, k) == [j \in DOMAIN f \ {k} |-> f[j]]

At(t, place) == pc[t] = place
Goto(t, place) == pc' = [pc EXCEPT ![t] = place]

-----------------------------------------------------------------------------
(* AttachRing, by either process: the check of the header and its             *)
(* initialization are two steps, and no lock joins them.                      *)

InitializeHeader ==
    /\ doubleInit' = (doubleInit \/ magic)
    /\ magic' = TRUE
    /\ slots' = <<>>
    /\ writeIndex' = 0
    /\ consumerRead' = 0
    /\ dropped' = 0
    /\ consumerId' = 0
    /\ consumerFresh' = TRUE

\* The system frees the memory with the last handle on it.
PublisherOpen == running \/ pc[App] \in {"initialize", "attached", "join"}

CloseRegion(otherOpen) ==
    IF otherOpen THEN UNCHANGED <<ring, consumer>>
    ELSE /\ magic' = FALSE
         /\ slots' = <<>>
         /\ writeIndex' = 0 /\ consumerRead' = 0 /\ dropped' = 0
         /\ consumerId' = 0 /\ consumerFresh' = FALSE

\* Publisher Start, called by the application's thread.
StartCheck ==
    /\ At(App, "idle") /\ ~running
    /\ starts < MaxStarts
    /\ starts' = starts + 1
    /\ Goto(App, IF magic THEN "attached" ELSE "initialize")
    /\ UNCHANGED <<running, maps, watch, flushing, replaying, call, ring, consumer,
                   subscriber, version, quiet, process, history>>

StartInitialize ==
    /\ At(App, "initialize")
    /\ InitializeHeader
    /\ Goto(App, "attached")
    /\ UNCHANGED <<running, maps, watch, flushing, replaying, call, subscriber,
                   bounds, quietJoin>>

StartRunning ==
    /\ At(App, "attached")
    /\ lastObserved' = consumerId
    /\ running' = TRUE
    /\ pc' = [pc EXCEPT ![App] = "idle", ![Worker] = IF AutoFlush THEN "loop" ELSE @]
    /\ UNCHANGED <<maps, wasActive, flushing, replaying, call, ring, consumer,
                   subscriber, bounds, history>>

-----------------------------------------------------------------------------
(* Publish*: the retained map under its mutex, then the pending map under the  *)
(* other.  A publisher that is not running takes values all the same.          *)

StoreRetained(k) ==
    /\ At(App, "idle")
    /\ version < MaxVersion
    /\ version' = version + 1
    /\ retained' = Merged(retained, [j \in {k} |-> version + 1])
    /\ call' = <<k, version + 1>>
    /\ quietJoin' = FALSE
    /\ Goto(App, "store")
    /\ UNCHANGED <<doubleInit, running, pending, watch, flushing, replaying, ring, consumer,
                   subscriber, starts, quiet, process>>

StorePending ==
    /\ At(App, "store")
    /\ pending' = Merged(pending, [k \in {call[1]} |-> call[2]])
    /\ Goto(App, "idle")
    /\ UNCHANGED <<running, retained, watch, flushing, replaying, call, ring, consumer,
                   subscriber, bounds, history>>

-----------------------------------------------------------------------------
(* FlushNow, by either thread.  It returns at once when not running.          *)

FlushSwap(t) ==
    /\ At(t, "flush")
    /\ IF running
       THEN /\ batch' = [batch EXCEPT ![t] = pending]
            /\ pending' = Nothing
            /\ Goto(t, "write")
       ELSE /\ Goto(t, back[t])
            /\ UNCHANGED <<batch, pending>>
    /\ UNCHANGED <<running, retained, watch, pubSeq, back, hold, replaying, call, ring,
                   consumer, subscriber, bounds, history>>

Full == writeIndex - consumerRead >= Capacity

\* WriteUpsert as far as the copy: the frame goes behind writeIndex.
WriteCopy(t, k) ==
    /\ At(t, "write")
    /\ k \in DOMAIN batch[t]
    /\ ~Full
    /\ slots' = [i \in DOMAIN slots \cup 1 .. writeIndex + 1 |->
                   IF i = writeIndex + 1
                   THEN [key |-> k, version |-> batch[t][k], seq |-> pubSeq + 1, process |-> process]
                   ELSE IF i \in DOMAIN slots THEN slots[i] ELSE Zeroed]
    /\ hold' = [hold EXCEPT ![t] = <<k, writeIndex + 1>>]
    /\ pubSeq' = pubSeq + 1
    /\ Goto(t, "commit")
    /\ UNCHANGED <<running, maps, watch, back, batch, replaying, call, magic, writeIndex,
                   consumerRead, dropped, consumer, subscriber, bounds, history>>

\* The store of writeIndex makes the message visible.
WriteCommit(t) ==
    /\ At(t, "commit")
    /\ writeIndex' = hold[t][2]
    /\ batch' = [batch EXCEPT ![t] = Without(@, hold[t][1])]
    /\ hold' = [hold EXCEPT ![t] = <<>>]
    /\ Goto(t, "write")
    /\ UNCHANGED <<running, maps, watch, pubSeq, back, replaying, call, magic, slots,
                   consumerRead, dropped, consumer, subscriber, bounds, history>>

\* No room: the value is counted and forgotten.
WriteDrop(t, k) ==
    /\ At(t, "write")
    /\ k \in DOMAIN batch[t]
    /\ Full
    /\ dropped' = dropped + 1
    /\ pubSeq' = pubSeq + 1
    /\ batch' = [batch EXCEPT ![t] = Without(@, k)]
    /\ UNCHANGED <<running, maps, watch, pc, back, hold, replaying, call, magic, slots,
                   writeIndex, consumerRead, consumer, subscriber, bounds, history>>

FlushReturn(t) ==
    /\ At(t, "write")
    /\ batch[t] = Nothing
    /\ Goto(t, back[t])
    /\ UNCHANGED <<running, maps, watch, flushing, replaying, call, ring, consumer,
                   subscriber, bounds, history>>

FlushNow(t) ==
    \/ FlushSwap(t)
    \/ \E k \in Keys : WriteCopy(t, k) \/ WriteDrop(t, k)
    \/ WriteCommit(t)
    \/ FlushReturn(t)

CallFlushNow(place) ==
    /\ AppFlushes
    /\ At(App, "idle") /\ running
    /\ Goto(App, "flush")
    /\ back' = [back EXCEPT ![App] = place]
    /\ UNCHANGED <<running, maps, watch, pubSeq, batch, hold, replaying, call, ring,
                   consumer, subscriber, bounds, history>>

\* Stop flushes first, then clears m_running and joins the worker.
StopRunning ==
    /\ At(App, "stop")
    /\ running' = FALSE
    /\ Goto(App, "join")
    /\ UNCHANGED <<maps, watch, flushing, replaying, call, ring, consumer, subscriber,
                   bounds, history>>

StopJoin ==
    /\ At(App, "join") /\ At(Worker, "ended")
    /\ wasActive' = FALSE
    /\ Goto(App, "idle")
    /\ CloseRegion(sub # "off")
    /\ UNCHANGED <<running, maps, lastObserved, flushing, replaying, call,
                   subscriber, bounds, history>>

\* The publisher's process ends, orderly or not, and with it its threads, its maps and
\* its numbering; the next process starts with new ones.  A frame not committed is
\* written over before it can be seen.
PublisherEnds ==
    /\ process < MaxEnds
    /\ process' = process + 1
    /\ running' = FALSE /\ wasActive' = FALSE /\ lastObserved' = 0
    /\ retained' = Nothing /\ pending' = Nothing
    /\ pubSeq' = 0
    /\ pc' = [t \in Threads |-> IF t = App THEN "idle" ELSE "ended"]
    /\ batch' = [t \in Threads |-> Nothing]
    /\ snapshot' = Nothing
    /\ quietJoin' = FALSE
    /\ IF sub = "off" THEN CloseRegion(FALSE)
       ELSE /\ slots' = [i \in {j \in DOMAIN slots : j <= writeIndex} |-> slots[i]]
            /\ UNCHANGED <<magic, writeIndex, consumerRead, dropped, consumer>>
    /\ UNCHANGED <<doubleInit, seen, back, hold, call, subscriber, version, starts, quiet>>

-----------------------------------------------------------------------------
(* The worker: RunLoop and MaybeReplayRetainedSnapshot *)

\* The loop condition, then the load of the consumer's heartbeat.
WorkerLoop ==
    /\ At(Worker, "loop")
    /\ Goto(Worker, IF running THEN "observe" ELSE "ended")
    /\ seen' = consumerFresh
    /\ UNCHANGED <<running, maps, watch, flushing, snapshot, call, ring, consumer,
                   subscriber, bounds, history>>

\* Variant: only an idle consumer that wakes up is replayed to.
ObserveConsumerByHeartbeat ==
    /\ At(Worker, "observe")
    /\ wasActive' = seen
    /\ lastObserved' = IF consumerId # 0 THEN consumerId ELSE lastObserved
    /\ Goto(Worker, IF seen /\ ~wasActive THEN "copy" ELSE "flush")
    /\ back' = [back EXCEPT ![Worker] = "loop"]
    /\ UNCHANGED <<running, maps, pubSeq, batch, hold, replaying, call, ring, consumer,
                   subscriber, bounds, history>>

\* The load of the consumer's instance id, and the decision.
ObserveConsumer ==
    /\ At(Worker, "observe")
    /\ wasActive' = seen
    /\ lastObserved' = IF consumerId # 0 THEN consumerId ELSE lastObserved
    /\ LET changed == consumerId # 0 /\ consumerId # lastObserved
           replay  == seen /\ ~(wasActive /\ ~changed)
       IN  /\ Goto(Worker, IF replay THEN "copy" ELSE "flush")
           /\ back' = [back EXCEPT ![Worker] = "loop"]
    /\ UNCHANGED <<running, maps, pubSeq, batch, hold, replaying, call, ring, consumer,
                   subscriber, bounds, history>>

CopyRetained ==
    /\ At(Worker, "copy")
    /\ snapshot' = retained
    /\ Goto(Worker, IF retained = Nothing THEN "flush" ELSE "merge")
    /\ UNCHANGED <<running, maps, watch, flushing, seen, call, ring, consumer,
                   subscriber, bounds, history>>

MergeSnapshot ==
    /\ At(Worker, "merge")
    /\ pending' = Merged(pending, snapshot)
    /\ snapshot' = Nothing
    /\ Goto(Worker, "flush")
    /\ UNCHANGED <<running, retained, watch, flushing, seen, call, ring, consumer,
                   subscriber, bounds, history>>

\* The heartbeat ages: the consumer is slow, or gone.
ConsumerGoesQuiet ==
    /\ consumerFresh
    /\ quiet < MaxQuiet
    /\ quiet' = quiet + 1
    /\ consumerFresh' = FALSE
    /\ UNCHANGED <<running, maps, watch, flushing, replaying, pc, call, ring, consumerId,
                   subscriber, version, starts, process, history>>

-----------------------------------------------------------------------------
(* The subscriber.  It drains on the data event and on the wait's timeout     *)
(* alike, so the event itself carries no state.                               *)

SubscriberStart ==
    /\ sub = "off"
    /\ instance < MaxInstance
    /\ instance' = instance + 1
    /\ sub' = IF magic THEN "attached" ELSE "initialize"
    /\ UNCHANGED <<running, maps, watch, flushing, replaying, pc, call, ring, consumer,
                   cursor, last, view, bounds, history>>

SubscriberInitialize ==
    /\ sub = "initialize"
    /\ InitializeHeader
    /\ sub' = "attached"
    /\ UNCHANGED <<running, maps, watch, flushing, replaying, pc, call, instance, cursor,
                   last, view, bounds, quietJoin>>

\* Variant: a restarted subscriber goes on from its old cursor.
SubscriberAttachOldCursor ==
    /\ sub = "attached"
    /\ consumerRead' = writeIndex
    /\ view' = Nothing
    /\ quietJoin' = ~At(App, "store")
    /\ sub' = "drain"
    /\ UNCHANGED <<doubleInit, running, maps, watch, flushing, replaying, pc, call, magic, slots,
                   writeIndex, dropped, consumer, instance, cursor, last, bounds>>

\* Variant: a restarted subscriber goes on from the shared cursor.
SubscriberAttachShared ==
    /\ sub = "attached"
    /\ cursor' = consumerRead
    /\ view' = Nothing
    /\ quietJoin' = ~At(App, "store")
    /\ sub' = "drain"
    /\ UNCHANGED <<doubleInit, running, maps, watch, flushing, replaying, pc, call, ring,
                   consumer, instance, last, bounds>>

\* What was written before is skipped; the shared cursor is moved along.
SubscriberAttach ==
    /\ sub = "attached"
    /\ cursor' = writeIndex
    /\ consumerRead' = writeIndex
    /\ view' = Nothing
    /\ quietJoin' = ~At(App, "store")
    /\ sub' = "drain"
    /\ UNCHANGED <<doubleInit, running, maps, watch, flushing, replaying, pc, call, magic, slots,
                   writeIndex, dropped, consumer, instance, last, bounds>>

\* ReadNextUpsert: a frame of zeroes is malformed and skips to the writer.
Drain ==
    /\ sub = "drain"
    /\ cursor # writeIndex
    /\ LET m == IF cursor + 1 \in DOMAIN slots THEN slots[cursor + 1] ELSE Zeroed IN
       IF m = Zeroed
       THEN /\ cursor' = writeIndex
            /\ sub' = "claim"
            /\ UNCHANGED <<last, view, consumerFresh>>
       ELSE /\ cursor' = cursor + 1
            /\ lastSeq' = m.seq /\ lastProcess' = m.process
            /\ view' = Merged(view, [k \in {m.key} |-> m.version])
            /\ consumerFresh' = TRUE
            /\ UNCHANGED sub
    /\ UNCHANGED <<running, maps, watch, flushing, replaying, pc, call, ring, consumerId,
                   instance, bounds, history>>

\* Variant: the next drain starts from the shared cursor.
DrainEndShared ==
    /\ sub = "drain"
    /\ cursor = writeIndex
    /\ cursor' = consumerRead
    /\ sub' = "claim"
    /\ UNCHANGED <<running, maps, watch, flushing, replaying, pc, call, ring, consumer,
                   instance, last, view, bounds, history>>

DrainEnd ==
    /\ sub = "drain"
    /\ cursor = writeIndex
    /\ sub' = "claim"
    /\ UNCHANGED <<running, maps, watch, flushing, replaying, pc, call, ring, consumer,
                   instance, cursor, last, view, bounds, history>>

ClaimConsumer ==
    /\ sub = "claim"
    /\ consumerId' = instance
    /\ sub' = "publish read"
    /\ UNCHANGED <<running, maps, watch, flushing, replaying, pc, call, ring, consumerFresh,
                   instance, cursor, last, view, bounds, history>>

PublishReadIndex ==
    /\ sub = "publish read"
    /\ consumerRead' = cursor
    /\ sub' = "beat"
    /\ UNCHANGED <<running, maps, watch, flushing, replaying, pc, call, magic, slots,
                   writeIndex, dropped, consumer, instance, cursor, last, view,
                   bounds, history>>

ConsumerHeartbeat ==
    /\ sub = "beat"
    /\ consumerFresh' = TRUE
    /\ sub' = "drain"
    /\ UNCHANGED <<running, maps, watch, flushing, replaying, pc, call, ring, consumerId,
                   instance, cursor, last, view, bounds, history>>

\* Stop, or the end of the process: after the loop, or anywhere in it.
SubscriberStop ==
    /\ sub \in {"drain", "claim", "publish read", "beat"}
    /\ sub' = "off"
    /\ quietJoin' = FALSE
    /\ CloseRegion(PublisherOpen)
    /\ UNCHANGED <<doubleInit, running, maps, watch, flushing, replaying, pc, call,
                   instance, cursor, last, view, bounds>>

SubscriberLoop ==
    Drain \/ DrainEnd \/ ClaimConsumer \/ PublishReadIndex \/ ConsumerHeartbeat

-----------------------------------------------------------------------------
Init ==
    /\ running = FALSE
    /\ retained = Nothing /\ pending = Nothing
    /\ wasActive = FALSE /\ lastObserved = 0
    /\ pubSeq = 0
    /\ pc = [t \in Threads |-> IF t = App THEN "idle" ELSE "ended"]
    /\ back = [t \in Threads |-> "idle"]
    /\ batch = [t \in Threads |-> Nothing]
    /\ hold = [t \in Threads |-> <<>>]
    /\ call = <<>>
    /\ seen = FALSE /\ snapshot = Nothing
    /\ magic = FALSE
    /\ slots = <<>> /\ writeIndex = 0 /\ consumerRead = 0 /\ dropped = 0
    /\ consumerId = 0 /\ consumerFresh = FALSE
    /\ sub = "off" /\ instance = 0 /\ cursor = 0 /\ lastSeq = 0 /\ view = Nothing
    /\ version = 0 /\ starts = 0 /\ quiet = 0 /\ process = 0 /\ lastProcess = 0
    /\ quietJoin = FALSE /\ doubleInit = FALSE

AppCall ==
    \/ StartCheck \/ CallFlushNow("idle") \/ CallFlushNow("stop")
    \/ \E k \in Keys : StoreRetained(k)

AppStep ==
    \/ StartInitialize \/ StartRunning \/ StorePending
    \/ FlushNow(App) \/ StopRunning \/ StopJoin

WorkerStep ==
    WorkerLoop \/ ObserveConsumer \/ CopyRetained \/ MergeSnapshot \/ FlushNow(Worker)

Next ==
    \/ AppCall \/ AppStep \/ WorkerStep \/ PublisherEnds \/ ConsumerGoesQuiet
    \/ SubscriberStart \/ SubscriberInitialize \/ SubscriberAttach
    \/ SubscriberLoop \/ SubscriberStop

Spec == Init /\ [][Next]_vars

\* A call that has begun ends, and the two loops loop: their threads are
\* scheduled.  Nothing forces a call, a stop or a silence.
FairSpec ==
    /\ Spec
    /\ WF_vars(AppStep) /\ WF_vars(WorkerStep)
    /\ WF_vars(SubscriberLoop) /\ WF_vars(SubscriberInitialize \/ SubscriberAttach)

-----------------------------------------------------------------------------
(* Properties *)

Place == {"idle", "initialize", "attached", "store", "flush", "write", "commit", "stop",
          "join", "loop", "observe", "copy", "merge", "ended"}

VersionMaps == UNION {[S -> 1 .. MaxVersion] : S \in SUBSET Keys}
Messages == [key : Keys, version : 1 .. MaxVersion, seq : Nat, process : Nat] \cup {Zeroed}

\* Every variable has the shape the C++ declarations give it.
TypeOK ==
    /\ running \in BOOLEAN /\ wasActive \in BOOLEAN /\ seen \in BOOLEAN
    /\ magic \in BOOLEAN /\ consumerFresh \in BOOLEAN
    /\ {retained, pending, snapshot, view, batch[App], batch[Worker]} \subseteq VersionMaps
    /\ {lastObserved, consumerId, instance} \subseteq 0 .. MaxInstance
    /\ pc \in [Threads -> Place] /\ back \in [Threads -> Place]
    /\ \A t \in Threads : hold[t] = <<>> \/ hold[t] \in Keys \X Nat
    /\ slots \in Seq(Messages)
    /\ {pubSeq, writeIndex, consumerRead, cursor, lastSeq, dropped, process, lastProcess} \subseteq Nat
    /\ sub \in {"off", "initialize", "attached", "drain", "claim", "publish read", "beat"}

Looping == sub \in {"drain", "claim", "publish read", "beat"}

\* Whatever starts, stops and late initializations came before, a looping
\* subscriber's local cursor is at or past the shared one the producer counts
\* free space from, and never past what has been committed.
CursorsOrdered == Looping => consumerRead <= cursor /\ cursor <= writeIndex

\* The subscriber takes the messages of one publisher process in the order of their
\* numbers and none twice, and none of a process after one of its successor, across
\* replays, drops, restarts of the publisher, its process and the subscriber.
InOrder ==
    [][IF last' = last THEN view' \in {view, Nothing}
       ELSE lastProcess < lastProcess' \/ (lastProcess = lastProcess' /\ lastSeq < lastSeq')]_vars

\* The value of a key never goes back to an older one while a subscriber is
\* attached, although the retained snapshot re-sends old values.
ViewNeverGoesBack ==
    [][instance' = instance /\ sub = "drain" =>
        \A k \in DOMAIN view : k \in DOMAIN view' /\ view'[k] >= view[k]]_vars

\* A subscriber that attaches while the application is silent, and stays, ends
\* up with the latest value of every key for good, although it skips all that
\* was in the ring: the worker notices the new consumer and replays.  Nothing is
\* promised once a value was dropped or the header was initialized twice.
LateJoinerCatchesUp ==
    <>[](quietJoin /\ running /\ dropped = 0 /\ ~doubleInit) => <>[](view = retained)

=============================================================================
