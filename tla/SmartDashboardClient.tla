------------------------- MODULE SmartDashboardClient -------------------------
(***************************************************************************)
(* The client library (sd_smartdashboard_client.cpp).  It keeps a cache of   *)
(* latest values that two threads write: the application's, at Put*, and the *)
(* subscriber's, which hears the client's own values come back from the ring *)
(* under the publisher's sequence numbers.  HandleUpdate is cut where it     *)
(* leaves the mutex: the cache with the list of callbacks, the retained      *)
(* store, each callback.                                                     *)
(*                                                                           *)
(* The publisher and the ring are here at the grain of a flush; what they    *)
(* lose is DirectTransport's subject.  The store is a map, RetainedStore has *)
(* its table.  Values are version numbers, in the order of the Put* calls;   *)
(* a version's type is the one its Put* chose.                               *)
(***************************************************************************)
EXTENDS Integers, Sequences, SequencesExt, FiniteSetsExt

CONSTANTS
    Keys, Types,
    MaxPuts,        \* bound: Put* calls
    MaxSubs,        \* bound: Subscribe* calls
    MaxExtras,      \* bound: Subscribe* calls, other consumers and commands together
    MaxRuns         \* bound: Start calls

ASSUME KeysFinite == IsFiniteSet(Keys)
ASSUME MaxSubsNat == MaxSubs \in Nat

App == "app"
Reader == "reader"          \* the subscriber's thread
Commander == "commander"    \* the command subscriber's thread
Threads == {App, Reader, Commander}

VARIABLES
    running, storeOpen,
    localSeq,       \* m_impl->localSeq
    cache,          \* key -> [version, seq], version 0 when absent
    store,          \* key -> version in the retained store
    subs,           \* the table of each key and type, values or commands: its subscriptions
    nextId,         \* nextSubscriptionId
    job,            \* thread -> the HandleUpdate it is in, as a list of steps
    \* the publisher: retained and pending values, key -> version
    kept, pending, pubSeq,
    observed,       \* the worker has seen the consumer there is now
    snapshot,       \* the worker's copy of kept, not merged into pending yet
    ring, commands, \* what the subscriber and the command subscriber will read
    \* history
    typeOf,         \* version -> type
    truth,          \* key -> version of the last Put*
    seen,           \* subscription -> the version its callback was last given
    echo,           \* key -> the version the subscriber last heard
    overtaken,      \* keys whose value put last gave way to a copy made before it
    runs, consumers, replays, sent

lifetime == <<running, storeOpen, runs>>
values == <<localSeq, cache, typeOf, truth>>
registry == <<subs, nextId>>
publisher == <<kept, pending, pubSeq, overtaken>>
watch == <<observed, consumers, replays, snapshot>>
channels == <<ring, commands, sent>>
heard == <<seen, echo>>
extras == nextId - 1 + consumers + sent
clientVars == <<lifetime, values, store, registry, job, publisher, watch, channels, heard>>

None == [k \in Keys |-> 0]
Idle(t) == job[t] = <<>>

\* What the rest of a call is made of.
Step(kind, k, v) == [do |-> kind, key |-> k, version |-> v, sub |-> 0]
Doing(t, kind) == ~Idle(t) /\ Head(job[t]).do = kind
Done(t) == job' = [job EXCEPT ![t] = Tail(@)]

\* The callbacks for a key and a type, in the order they were registered.
Callback(k, v, id) == [Step("callback", k, v) EXCEPT !.sub = id]
Callbacks(k, v, type, command) ==
    [i \in DOMAIN subs[<<k, type, command>>] |-> Callback(k, v, subs[<<k, type, command>>][i].id)]

-----------------------------------------------------------------------------
(* HandleUpdate and what follows it, by whichever thread is in it *)

\* Variant: whatever comes last is cached, an old value's echo too.
CacheAlways(k, v, seq) == [version |-> v, seq |-> seq]

\* Last write wins by sequence number; 0 is no number.
Cached(k, v, seq) ==
    IF cache[k].version = 0 \/ seq = 0 \/ seq >= cache[k].seq
    THEN [version |-> v, seq |-> seq] ELSE cache[k]

\* Variant: no callback for a value the cache already holds.
HandleUpdateSkipsSame(t, k, v, type, seq, after) ==
    /\ cache' = [cache EXCEPT ![k] = Cached(k, v, seq)]
    /\ job' = [job EXCEPT ![t] =
         <<Step("store", k, v)>> \o
         (IF cache[k].version = v THEN <<>> ELSE Callbacks(k, v, type, FALSE)) \o after]

\* Under the mutex: the cache, and a copy of the callbacks.
HandleUpdate(t, k, v, type, seq, after) ==
    /\ cache' = [cache EXCEPT ![k] = Cached(k, v, seq)]
    /\ job' = [job EXCEPT ![t] = <<Step("store", k, v)>> \o Callbacks(k, v, type, FALSE) \o after]

\* Put on a store that is closed returns false and nobody looks.
StoreStep(t) ==
    /\ Doing(t, "store")
    /\ store' = IF storeOpen THEN [store EXCEPT ![Head(job[t]).key] = Head(job[t]).version] ELSE store
    /\ Done(t)
    /\ UNCHANGED <<lifetime, values, registry, publisher, watch, channels, heard>>

CallbackStep(t) ==
    /\ Doing(t, "callback")
    /\ seen' = [seen EXCEPT ![Head(job[t]).sub] = Head(job[t]).version]
    /\ Done(t)
    /\ UNCHANGED <<lifetime, values, store, registry, publisher, watch, channels, echo>>

\* The publisher's StorePending.  One step for its two sections, kept and then
\* pending: a worker that runs between them at most sends the same value twice.
PublishStep ==
    /\ Doing(App, "publish")
    /\ kept' = [kept EXCEPT ![Head(job[App]).key] = Head(job[App]).version]
    /\ pending' = [pending EXCEPT ![Head(job[App]).key] = Head(job[App]).version]
    /\ overtaken' = overtaken \ {Head(job[App]).key}
    /\ Done(App)
    /\ UNCHANGED <<lifetime, values, store, registry, pubSeq, watch, channels, heard>>

\* Variant: a flush takes the whole pending map and writes one value of it.
FlushOne ==
    \E order \in SetToSeqs({k \in Keys : pending[k] # 0}) :
        /\ ring' = ring \o [i \in DOMAIN order \cap {1} |->
                       [key |-> order[i], version |-> pending[order[i]], seq |-> pubSeq + i]]
        /\ pubSeq' = pubSeq + Len(order)
        /\ pending' = None

\* The publisher's FlushNow: the pending map, in an order of its own.
Flush ==
    \E order \in SetToSeqs({k \in Keys : pending[k] # 0}) :
        /\ ring' = ring \o [i \in DOMAIN order |->
                       [key |-> order[i], version |-> pending[order[i]], seq |-> pubSeq + i]]
        /\ pubSeq' = pubSeq + Len(order)
        /\ pending' = None

\* FlushNow at the end of a Get* that found nothing.
FlushStep ==
    /\ Doing(App, "flush")
    /\ IF running THEN Flush ELSE UNCHANGED <<ring, pubSeq, pending>>
    /\ Done(App)
    /\ UNCHANGED <<lifetime, values, store, registry, kept, overtaken, watch, commands, sent, heard>>

-----------------------------------------------------------------------------
(* The application's calls *)

Putting(k, type, after) ==
    LET v == Len(typeOf) + 1 IN
    /\ v <= MaxPuts
    /\ HandleUpdate(App, k, v, type, localSeq, <<Step("publish", k, v)>> \o after)
    /\ localSeq' = localSeq + 1
    /\ typeOf' = Append(typeOf, type)
    /\ truth' = [truth EXCEPT ![k] = v]

Put(k, type) ==
    /\ Idle(App)
    /\ Putting(k, type, <<>>)
    /\ UNCHANGED <<lifetime, store, registry, publisher, watch, channels, heard>>

OfType(v, type) == v # 0 /\ typeOf[v] = type
TryReadCached(k, type) == IF OfType(cache[k].version, type) THEN cache[k].version ELSE 0

\* TryGet*: the cache if it has that type, else the store.
TryGet(k, type) ==
    IF TryReadCached(k, type) # 0 THEN TryReadCached(k, type)
    ELSE IF storeOpen /\ OfType(store[k], type) THEN store[k] ELSE 0

\* Get* puts the default when there is nothing of its type, and flushes.
Get(k, type) ==
    /\ Idle(App)
    /\ TryGet(k, type) = 0
    /\ Putting(k, type, <<Step("flush", k, 0)>>)
    /\ UNCHANGED <<lifetime, store, registry, publisher, watch, channels, heard>>

Registering(k, type, command, immediate) ==
    /\ Idle(App)
    /\ nextId <= MaxSubs /\ extras < MaxExtras
    /\ subs' = [subs EXCEPT ![<<k, type, command>>] =
                  Append(@, [id |-> nextId, immediate |-> immediate, since |-> Len(typeOf)])]
    /\ nextId' = nextId + 1

\* Registration and the read of the cache are one section; the callback is not in it.
Subscribe(k, type, immediate) ==
    /\ Registering(k, type, FALSE, immediate)
    /\ LET v == TryReadCached(k, type) IN
       job' = IF immediate /\ v # 0
              THEN [job EXCEPT ![App] = <<Callback(k, v, nextId)>>] ELSE job
    /\ UNCHANGED <<lifetime, values, store, publisher, watch, channels, heard>>

SubscribeCommand(k, type) ==
    /\ Registering(k, type, TRUE, FALSE)
    /\ UNCHANGED <<lifetime, values, store, job, publisher, watch, channels, heard>>

Unsubscribe(k, type, command) ==
    /\ Idle(App)
    /\ \E i \in DOMAIN subs[<<k, type, command>>] :
           subs' = [subs EXCEPT ![<<k, type, command>>] = RemoveAt(@, i)]
    /\ UNCHANGED <<lifetime, values, store, nextId, job, publisher, watch, channels, heard>>

\* Start attaches the subscriber behind what the ring holds.
Start ==
    /\ Idle(App) /\ ~running
    /\ runs < MaxRuns
    /\ runs' = runs + 1
    /\ running' = TRUE /\ storeOpen' = TRUE
    /\ observed' = FALSE
    /\ UNCHANGED <<values, store, registry, job, publisher, consumers, replays, snapshot, channels, heard>>

\* What a merge of the copy leaves behind its time.
Overtaken == {k \in Keys : IF snapshot[k] = 0 THEN k \in overtaken ELSE snapshot[k] # kept[k]}

\* Stop joins both readers, and only then lets the publisher flush.  The worker is
\* joined after that: a copy it has not merged is pending when the client stands.
Stop ==
    /\ \A t \in Threads : Idle(t)
    /\ running
    /\ running' = FALSE /\ storeOpen' = FALSE
    /\ \E order \in SetToSeqs({k \in Keys : pending[k] # 0}) : pubSeq' = pubSeq + Len(order)
    /\ pending' = snapshot /\ snapshot' = None
    /\ overtaken' = Overtaken
    /\ ring' = <<>> /\ commands' = <<>>
    /\ UNCHANGED <<runs, values, store, registry, job, kept, observed, consumers, replays, sent, heard>>

-----------------------------------------------------------------------------
(* The threads behind it *)

\* The publisher's worker, which has merged what it copied.
WorkerFlush ==
    /\ running /\ snapshot = None
    /\ pending # None
    /\ Flush
    /\ UNCHANGED <<lifetime, values, store, registry, job, kept, overtaken, watch, commands, sent, heard>>

\* Another consumer takes its turn at the ring.
ConsumerAppears ==
    /\ running /\ observed
    /\ extras < MaxExtras
    /\ consumers' = consumers + 1
    /\ observed' = FALSE
    /\ UNCHANGED <<lifetime, values, store, registry, job, publisher, replays, snapshot, channels, heard>>

\* MaybeReplayRetainedSnapshot, in the sections of its two mutexes: the worker sees
\* a new consumer and copies everything ever published ...
ReplayCopy ==
    /\ running /\ snapshot = None
    /\ ~observed
    /\ observed' = TRUE
    /\ replays' = IF kept = None THEN replays ELSE replays + 1
    /\ snapshot' = kept
    /\ UNCHANGED <<lifetime, values, store, registry, job, publisher, consumers, channels, heard>>

\* ... and makes it pending, over what was put in between.
ReplayMerge ==
    /\ running /\ snapshot # None
    /\ pending' = [k \in Keys |-> IF snapshot[k] = 0 THEN pending[k] ELSE snapshot[k]]
    /\ snapshot' = None
    /\ overtaken' = Overtaken
    /\ UNCHANGED <<lifetime, values, store, registry, job, kept, pubSeq, observed, consumers, replays,
                   channels, heard>>

\* The subscriber hears a value, most often one of the client's own.
Hear ==
    /\ running /\ Idle(Reader)
    /\ ring # <<>>
    /\ LET u == Head(ring) IN HandleUpdate(Reader, u.key, u.version, typeOf[u.version], u.seq, <<>>)
    /\ echo' = [echo EXCEPT ![Head(ring).key] = Head(ring).version]
    /\ ring' = Tail(ring)
    /\ UNCHANGED <<lifetime, localSeq, typeOf, truth, store, registry, publisher, watch,
                   commands, sent, seen>>

SendCommand(k, type) ==
    /\ running
    /\ extras < MaxExtras
    /\ sent' = sent + 1
    /\ commands' = Append(commands, [key |-> k, type |-> type, n |-> sent + 1])
    /\ UNCHANGED <<lifetime, values, store, registry, job, publisher, watch, ring, heard>>

\* Variant: a command goes through HandleUpdate like any value.
HandleCommandAsUpdate ==
    /\ running /\ Idle(Commander)
    /\ commands # <<>>
    /\ LET c == Head(commands) IN HandleUpdate(Commander, c.key, Len(typeOf) + 1, c.type, 0, <<>>)
    /\ typeOf' = Append(typeOf, Head(commands).type)
    /\ commands' = Tail(commands)
    /\ UNCHANGED <<lifetime, localSeq, truth, store, registry, publisher, watch, ring, sent, heard>>

\* HandleCommandUpdate: callbacks only, neither cache nor store.
HandleCommand ==
    /\ running /\ Idle(Commander)
    /\ commands # <<>>
    /\ LET c == Head(commands) IN
       job' = [job EXCEPT ![Commander] = Callbacks(c.key, -c.n, c.type, TRUE)]
    /\ commands' = Tail(commands)
    /\ UNCHANGED <<lifetime, values, store, registry, publisher, watch, ring, sent, heard>>

-----------------------------------------------------------------------------
clientInit ==
    /\ running = FALSE /\ storeOpen = FALSE /\ runs = 0
    /\ localSeq = 1
    /\ cache = [k \in Keys |-> [version |-> 0, seq |-> 0]]
    /\ typeOf = <<>> /\ truth = None /\ store = None
    /\ subs = [x \in Keys \X Types \X BOOLEAN |-> <<>>] /\ nextId = 1
    /\ job = [t \in Threads |-> <<>>]
    /\ kept = None /\ pending = None /\ pubSeq = 0
    /\ ring = <<>> /\ commands = <<>>
    /\ snapshot = None /\ overtaken = {}
    /\ observed = TRUE /\ consumers = 0 /\ replays = 0 /\ sent = 0
    /\ seen = [id \in 1 .. MaxSubs |-> 0] /\ echo = None

threadStep(t) == StoreStep(t) \/ CallbackStep(t)

clientNext ==
    \/ \E k \in Keys, type \in Types :
        \/ Put(k, type) \/ Get(k, type)
        \/ \E immediate \in BOOLEAN : Subscribe(k, type, immediate)
        \/ SubscribeCommand(k, type) \/ SendCommand(k, type)
        \/ \E command \in BOOLEAN : Unsubscribe(k, type, command)
    \/ Start \/ Stop
    \/ \E t \in Threads : threadStep(t)
    \/ PublishStep \/ FlushStep
    \/ WorkerFlush \/ ConsumerAppears \/ ReplayCopy \/ ReplayMerge \/ Hear \/ HandleCommand

\* The threads run; the worker flushes every period; a call under way ends.
clientFairness ==
    /\ \A t \in Threads : WF_clientVars(threadStep(t))
    /\ WF_clientVars(PublishStep) /\ WF_clientVars(FlushStep)
    /\ WF_clientVars(WorkerFlush) /\ WF_clientVars(ReplayCopy) /\ WF_clientVars(ReplayMerge)
    /\ WF_clientVars(Hear) /\ WF_clientVars(HandleCommand)

ClientSpec == clientInit /\ [][clientNext]_clientVars /\ clientFairness

-----------------------------------------------------------------------------
Settled ==
    /\ running /\ observed /\ snapshot = None
    /\ pending = None /\ ring = <<>>
    /\ \A t \in Threads : Idle(t)

\* When every value put has come back, cache and store hold the last Put* of every
\* key, although two threads wrote them, in different orders and under two
\* unrelated sequence counters (HandleUpdate, localSeq, m_publishedSeq).  Not of a
\* key put between the two sections of MaybeReplayRetainedSnapshot: the older copy
\* replaces that value, and nothing sends it until the key is put or replayed again.
CacheConverges ==
    Settled => \A k \in Keys \ overtaken : cache[k].version = truth[k] /\ store[k] = truth[k]

\* The application reads its own writes at once, echoes of older values or not, as
\* long as no replay pushed the publisher's counter past the client's (Put*, TryGet*).
ReadsOwnWrites ==
    Idle(App) /\ replays = 0 => \A k \in Keys : truth[k] # 0 => TryGet(k, typeOf[truth[k]]) = truth[k]

\* A subscription that asked for no immediate call and was there at the last Put*
\* of its key was last called with that value (HandleUpdate's callbacks), unless
\* that Put* was overtaken by the copy of a replay.
CallbacksConverge ==
    Settled => \A k \in Keys \ overtaken, type \in Types : \A i \in DOMAIN subs[<<k, type, FALSE>>] :
        LET s == subs[<<k, type, FALSE>>][i] IN
        ~s.immediate /\ truth[k] > s.since /\ typeOf[truth[k]] = type => seen[s.id] = truth[k]

\* Unless the client stops, a value that waits to be published is heard by its own
\* subscriber, or a later one of the same key is put, or the copy of a replay made
\* before it was put takes its place (FlushNow, RunLoop, Hear).
PutsComeBack ==
    \A v \in 1 .. MaxPuts :
        running /\ (\E k \in Keys : pending[k] = v)
        ~> ~running \/ \A k \in Keys : truth[k] = v => echo[k] = v \/ k \in overtaken
=============================================================================
