--------------------------- MODULE NativeLinkCore ---------------------------
(***************************************************************************)
(* The server-authoritative core of the Native Link transport              *)
(* (plugins/NativeLinkTransport/src/native_link_core.cpp).  One object owns *)
(* the topics, the clients' queues of undelivered events, the write leases  *)
(* and the server session.  Every public operation runs under the lock of   *)
(* the server that owns the core, so one operation is one action.           *)
(*                                                                          *)
(* "log", "cursor", "joined" and "mirror" are history variables: the        *)
(* accepted writes of the session in order, the first of them a client has  *)
(* still to drain, the session its last snapshot was taken in, and what it   *)
(* holds if it applies its snapshot and then every event it drains.         *)
(***************************************************************************)
EXTENDS Integers, Sequences, FiniteSets

CONSTANTS
    Clients,      \* client identifiers
    Paths,        \* non-empty topic paths
    NoPath,       \* the empty topic path
    Payloads,     \* what a value carries besides its type
    Offers,       \* <<path, descriptor>> pairs the host may try to register
    MaxAge,       \* bound: ages in ticks saturate here
    MaxSession,   \* bound: server sessions
    MaxSeq,       \* bound: accepted writes per session
    MaxPending,   \* bound: rejects are sent only to queues shorter than this
    Server,       \* writer name of PublishFromServer
    Nobody,       \* the empty client id
    NoValue       \* hasLatestValue = false

Types == {"Bool", "Double"}
Values == [type : Types, data : Payloads]
Writers == Clients \cup {Server}

TopicDescriptor == [kind   : {"State", "Command", "Event"},
                    type   : Types,
                    retain : BOOLEAN,
                    replay : BOOLEAN,
                    ttl    : Nat,
                    policy : {"ServerOnly", "LeaseSingleWriter"}]

ASSUME CoreAssumption ==
    /\ Offers \subseteq (Paths \cup {NoPath}) \X TopicDescriptor
    /\ NoPath \notin Paths
    /\ Server \notin Clients /\ Nobody \notin Clients /\ Server # Nobody
    /\ NoValue \notin Values
    /\ MaxAge \in Nat /\ MaxSession \in Nat /\ MaxSeq \in Nat /\ MaxPending \in Nat

VARIABLES
    topics,       \* m_topics: registered path -> TopicRuntime
    clients,      \* m_clients: connected client -> pendingEvents
    sessionId,    \* m_serverSessionId
    nextSeq,      \* m_nextServerSequence
    log,          \* history: the writes accepted in this session
    cursor,       \* history: client -> first sequence it has not drained
    joined,       \* history: client -> session of its last snapshot
    mirror        \* history: client -> (path -> what it last applied)

core == <<topics, clients, sessionId, nextSeq>>
vars == <<topics, clients, sessionId, nextSeq, log, cursor, joined, mirror>>

DeliveryKinds == {"SnapshotState", "LiveState", "LiveCommand", "LiveEvent",
                  "LiveCommandAck", "LiveCommandReject"}
LiveKinds == {"LiveState", "LiveCommand", "LiveEvent"}
Reasons == {"None", "UnknownTopic", "WrongType", "ReadOnly", "LeaseRequired",
            "LeaseNotHolder"}

TopicRuntime == [desc   : TopicDescriptor,
                 latest : Values \cup {NoValue},
                 source : Writers \cup {Nobody},
                 age    : 0 .. MaxAge,
                 lease  : Clients \cup {Nobody}]

UpdateEnvelope == [session : Nat, seq : Nat, path : Paths,
                   source : Writers \cup {Nobody}, kind : DeliveryKinds,
                   value : Values, stale : BOOLEAN, reason : Reasons]

-----------------------------------------------------------------------------
(* Registration *)

ValidateDescriptor(p, d) ==
    /\ p # NoPath
    /\ d.kind = "Command" => ~d.replay
    /\ d.kind # "State" => ~d.retain
    /\ d.kind = "Event" => d.policy = "ServerOnly"

\* Variant: a second registration replaces the topic.
RegisterTopicAgain(p, d) ==
    /\ ValidateDescriptor(p, d)
    /\ topics' = [q \in DOMAIN topics \cup {p} |->
                    IF q = p
                    THEN [desc |-> d, latest |-> NoValue, source |-> Nobody,
                          age |-> 0, lease |-> Nobody]
                    ELSE topics[q]]
    /\ UNCHANGED <<clients, sessionId, nextSeq, log, cursor, joined, mirror>>

RegisterTopic(p, d) ==
    /\ ValidateDescriptor(p, d)
    /\ p \notin DOMAIN topics
    /\ topics' = [q \in DOMAIN topics \cup {p} |->
                    IF q = p
                    THEN [desc |-> d, latest |-> NoValue, source |-> Nobody,
                          age |-> 0, lease |-> Nobody]
                    ELSE topics[q]]
    /\ UNCHANGED <<clients, sessionId, nextSeq, log, cursor, joined, mirror>>

-----------------------------------------------------------------------------
(* Leases.  A client needs no connection to take or drop one. *)

\* Variant: the last client to ask holds the lease.
AcquireLeaseTakeover(p, c) ==
    /\ p \in DOMAIN topics
    /\ topics[p].desc.policy = "LeaseSingleWriter"
    /\ topics' = [topics EXCEPT ![p].lease = c]
    /\ UNCHANGED <<clients, sessionId, nextSeq, log, cursor, joined, mirror>>

AcquireLease(p, c) ==
    /\ p \in DOMAIN topics
    /\ topics[p].desc.policy = "LeaseSingleWriter"
    /\ topics[p].lease \in {Nobody, c}
    /\ topics' = [topics EXCEPT ![p].lease = c]
    /\ UNCHANGED <<clients, sessionId, nextSeq, log, cursor, joined, mirror>>

\* The history forgets nothing: a release closes the tenure of the writes
\* logged so far, so that two holders in turn can be told from one.
ReleaseLease(p, c) ==
    /\ p \in DOMAIN topics
    /\ topics[p].lease = c
    /\ topics' = [topics EXCEPT ![p].lease = Nobody]
    /\ log' = [i \in DOMAIN log |-> IF log[i].path = p
                                    THEN [log[i] EXCEPT !.open = FALSE]
                                    ELSE log[i]]
    /\ UNCHANGED <<clients, sessionId, nextSeq, cursor, joined, mirror>>

-----------------------------------------------------------------------------
(* Snapshots and connections *)

\* A value past its time to live is emitted flagged stale.
IsStale(t) == t.desc.ttl > 0 /\ t.age > t.desc.ttl

\* Variant: whatever has a value is replayed.
ReplayedAll == {p \in DOMAIN topics : topics[p].latest # NoValue}

\* The topics whose latest value BuildSnapshotForClient replays.
Replayed == {p \in DOMAIN topics :
                /\ topics[p].latest # NoValue
                /\ topics[p].desc.kind = "State"
                /\ topics[p].desc.retain
                /\ topics[p].desc.replay}

\* Variant: values past their time to live are left out.
BuildFreshSnapshot ==
    [p \in {q \in Replayed : ~IsStale(topics[q])} |->
        [value |-> topics[p].latest, stale |-> FALSE]]

\* The state part of the snapshot; descriptors carry no state of their own.
BuildSnapshotForClient ==
    [p \in Replayed |-> [value |-> topics[p].latest, stale |-> IsStale(topics[p])]]

\* Variant: connecting again forgets what was queued.
ConnectClientAfresh(c) ==
    /\ clients' = [k \in DOMAIN clients \cup {c} |->
                     IF k = c THEN <<>> ELSE clients[k]]
    /\ cursor' = [cursor EXCEPT ![c] = IF c \in DOMAIN clients THEN @ ELSE nextSeq]
    /\ joined' = [joined EXCEPT ![c] = sessionId]
    /\ mirror' = [mirror EXCEPT ![c] = BuildSnapshotForClient]
    /\ UNCHANGED <<topics, sessionId, nextSeq, log>>

\* A client already known keeps the events it has not drained.
ConnectClient(c) ==
    /\ clients' = [k \in DOMAIN clients \cup {c} |->
                     IF k \in DOMAIN clients THEN clients[k] ELSE <<>>]
    /\ cursor' = [cursor EXCEPT ![c] = IF c \in DOMAIN clients THEN @ ELSE nextSeq]
    /\ joined' = [joined EXCEPT ![c] = sessionId]
    /\ mirror' = [mirror EXCEPT ![c] = BuildSnapshotForClient]
    /\ UNCHANGED <<topics, sessionId, nextSeq, log>>

\* The queue goes, the leases stay.
DisconnectClient(c) ==
    /\ c \in DOMAIN clients
    /\ clients' = [k \in DOMAIN clients \ {c} |-> clients[k]]
    /\ UNCHANGED <<topics, sessionId, nextSeq, log, cursor, joined, mirror>>

IsLive(e) == e.kind \in LiveKinds

\* What a client that held "held" holds after applying "events" in order.
Applied(held, events) ==
    LET Hits(p) == {i \in DOMAIN events : IsLive(events[i]) /\ events[i].path = p}
        Last(p) == events[CHOOSE i \in Hits(p) : \A j \in Hits(p) : j <= i]
    IN  [p \in DOMAIN held \cup {events[i].path : i \in {j \in DOMAIN events : IsLive(events[j])}} |->
            IF Hits(p) = {} THEN held[p]
            ELSE [value |-> Last(p).value, stale |-> Last(p).stale]]

DrainClientEvents(c) ==
    /\ c \in DOMAIN clients
    /\ clients' = [clients EXCEPT ![c] = <<>>]
    /\ mirror' = [mirror EXCEPT ![c] = Applied(@, clients[c])]
    /\ cursor' = [cursor EXCEPT ![c] = nextSeq]
    /\ UNCHANGED <<topics, sessionId, nextSeq, log, joined>>

-----------------------------------------------------------------------------
(* Writes *)

\* Why PublishInternal refuses the write of "value" to p by w, or "None".
WriteRejectReason(w, p, value) ==
    IF p \notin DOMAIN topics THEN "UnknownTopic"
    ELSE LET t == topics[p] IN
         CASE value.type # t.desc.type -> "WrongType"
           [] value.type = t.desc.type /\ w = Server -> "None"
           [] value.type = t.desc.type /\ w # Server /\ t.desc.policy = "ServerOnly"
                -> "ReadOnly"
           [] value.type = t.desc.type /\ w # Server /\ t.desc.policy = "LeaseSingleWriter"
                -> IF t.lease = Nobody THEN "LeaseRequired"
                   ELSE IF t.lease # w THEN "LeaseNotHolder" ELSE "None"

\* BuildEnvelope of an event about the topic t at path p.
BuildEnvelope(p, t, kind, seq) ==
    [session |-> sessionId, seq |-> seq, path |-> p, source |-> t.source,
     kind |-> kind, value |-> t.latest, stale |-> IsStale(t), reason |-> "None"]

DetermineLiveDeliveryKind(topicKind) ==
    CASE topicKind = "State"   -> "LiveState"
      [] topicKind = "Command" -> "LiveCommand"
      [] topicKind = "Event"   -> "LiveEvent"

\* The reject about a known topic carries the topic's last successful
\* writer as its source; only an unknown topic's names the refused writer.
RejectEvent(w, p, value, why) ==
    IF p \notin DOMAIN topics
    THEN [session |-> sessionId, seq |-> 0, path |-> p, source |-> w,
          kind |-> "LiveCommandReject", value |-> value, stale |-> FALSE,
          reason |-> why]
    ELSE [BuildEnvelope(p, topics[p], "LiveCommandReject", 0)
            EXCEPT !.value = value, !.reason = why]

\* A writer that is not connected (the server never is) is told nothing.
Reject(w, p, value) ==
    LET why == WriteRejectReason(w, p, value) IN
    /\ why # "None"
    /\ w \in DOMAIN clients
    /\ Len(clients[w]) < MaxPending
    /\ clients' = [clients EXCEPT ![w] = Append(@, RejectEvent(w, p, value, why))]
    /\ UNCHANGED <<topics, sessionId, nextSeq, log, cursor, joined, mirror>>

Written(w, p, value) ==
    [desc |-> topics[p].desc, latest |-> value, source |-> w, age |-> 0,
     lease |-> topics[p].lease]

\* Variant: the writer of a command gets the acknowledgement instead.
DeliveredAckOnly(k, w, event, topicKind) ==
    IF k = w /\ topicKind = "Command"
    THEN <<[event EXCEPT !.kind = "LiveCommandAck"]>>
    ELSE <<event>>

\* Variant: the acknowledgement overtakes the event.
DeliveredAckFirst(k, w, event, topicKind) ==
    IF k = w /\ topicKind = "Command"
    THEN <<[event EXCEPT !.kind = "LiveCommandAck"], event>>
    ELSE <<event>>

\* What an accepted write appends to the queue of client k: the live event
\* and, on a command topic, an acknowledgement to the writer itself.
Delivered(k, w, event, topicKind) ==
    IF k = w /\ topicKind = "Command"
    THEN <<event, [event EXCEPT !.kind = "LiveCommandAck"]>>
    ELSE <<event>>

Accept(w, p, value) ==
    LET t     == Written(w, p, value)
        event == BuildEnvelope(p, t, DetermineLiveDeliveryKind(t.desc.kind), nextSeq)
    IN
    /\ WriteRejectReason(w, p, value) = "None"
    /\ nextSeq <= MaxSeq
    /\ topics' = [topics EXCEPT ![p] = t]
    /\ nextSeq' = nextSeq + 1
    /\ clients' = [k \in DOMAIN clients |->
                     clients[k] \o Delivered(k, w, event, t.desc.kind)]
    /\ log' = Append(log, [path |-> p, value |-> value, writer |-> w, open |-> TRUE])
    /\ UNCHANGED <<sessionId, cursor, joined, mirror>>

Publish(w, p, value) == Accept(w, p, value) \/ Reject(w, p, value)

-----------------------------------------------------------------------------
(* Sessions and time *)

\* Variant: sequence numbers run on.
BeginNewSessionSameSequence ==
    /\ sessionId < MaxSession
    /\ sessionId' = sessionId + 1
    /\ topics' = [p \in DOMAIN topics |-> [topics[p] EXCEPT !.lease = Nobody]]
    /\ clients' = [c \in DOMAIN clients |-> <<>>]
    /\ log' = <<>>
    /\ cursor' = [c \in Clients |-> 1]
    /\ UNCHANGED <<nextSeq, joined, mirror>>

\* Variant: undelivered events survive the session.
BeginNewSessionKeepQueues ==
    /\ sessionId < MaxSession
    /\ sessionId' = sessionId + 1
    /\ nextSeq' = 1
    /\ topics' = [p \in DOMAIN topics |-> [topics[p] EXCEPT !.lease = Nobody]]
    /\ log' = <<>>
    /\ cursor' = [c \in Clients |-> 1]
    /\ UNCHANGED <<clients, joined, mirror>>

\* A new session keeps the topics and their latest values.
BeginNewSession ==
    /\ sessionId < MaxSession
    /\ sessionId' = sessionId + 1
    /\ nextSeq' = 1
    /\ topics' = [p \in DOMAIN topics |-> [topics[p] EXCEPT !.lease = Nobody]]
    /\ clients' = [c \in DOMAIN clients |-> <<>>]
    /\ log' = <<>>
    /\ cursor' = [c \in Clients |-> 1]
    /\ UNCHANGED <<joined, mirror>>

\* The steady clock advances by one tick.
Tick ==
    /\ topics' = [p \in DOMAIN topics |->
                    [topics[p] EXCEPT !.age = IF @ < MaxAge THEN @ + 1 ELSE @]]
    /\ UNCHANGED <<clients, sessionId, nextSeq, log, cursor, joined, mirror>>

-----------------------------------------------------------------------------
Init ==
    /\ topics = [p \in {} |-> NoValue]
    /\ clients = [c \in {} |-> <<>>]
    /\ sessionId = 1
    /\ nextSeq = 1
    /\ log = <<>>
    /\ cursor = [c \in Clients |-> 1]
    /\ joined = [c \in Clients |-> 0]
    /\ mirror = [c \in Clients |-> [p \in {} |-> NoValue]]

Next ==
    \/ \E offer \in Offers : RegisterTopic(offer[1], offer[2])
    \/ \E p \in Paths, c \in Clients : AcquireLease(p, c) \/ ReleaseLease(p, c)
    \/ \E c \in Clients : ConnectClient(c) \/ DisconnectClient(c) \/ DrainClientEvents(c)
    \/ \E w \in Writers, p \in Paths, v \in Values : Publish(w, p, v)
    \/ BeginNewSession
    \/ Tick

Spec == Init /\ [][Next]_vars

-----------------------------------------------------------------------------
(* Properties *)

\* Every variable has the shape the C++ declarations give it.
TypeOK ==
    /\ DOMAIN topics \subseteq Paths
    /\ \A p \in DOMAIN topics : topics[p] \in TopicRuntime
    /\ topics = [p \in DOMAIN topics |-> topics[p]]
    /\ DOMAIN clients \subseteq Clients
    /\ \A c \in DOMAIN clients : clients[c] \in Seq(UpdateEnvelope)
    /\ clients = [c \in DOMAIN clients |-> clients[c]]
    /\ sessionId \in Nat \ {0}
    /\ nextSeq \in Nat \ {0}
    /\ log \in Seq([path : Paths, value : Values, writer : Writers, open : BOOLEAN])
    /\ nextSeq = Len(log) + 1
    /\ cursor \in [Clients -> Nat \ {0}]
    /\ joined \in [Clients -> Nat]

\* The live events of the queue q are the writes accepted[from], accepted[from+1],
\* ... to the last: each one exactly once, in order, with the path, the value
\* and the writer that were accepted.
Owes(q, from, accepted) ==
    /\ \A i \in DOMAIN q : IsLive(q[i]) =>
          /\ q[i].seq \in from .. Len(accepted)
          /\ q[i].path = accepted[q[i].seq].path
          /\ q[i].value = accepted[q[i].seq].value
          /\ q[i].source = accepted[q[i].seq].writer
    /\ \A n \in from .. Len(accepted) :
          \E i \in DOMAIN q : IsLive(q[i]) /\ q[i].seq = n
    /\ \A i, j \in DOMAIN q :
          i < j /\ IsLive(q[i]) /\ IsLive(q[j]) => q[i].seq < q[j].seq

\* Every connected client is owed exactly the writes of the session it has not
\* drained (EnqueueLiveEvent, DrainClientEvents).  Two clients that see the same
\* sequence number therefore see the same event.
LiveStreamExact ==
    \A c \in DOMAIN clients : Owes(clients[c], cursor[c], log)

\* An acknowledgement reaches only the client whose command was accepted, and
\* only behind the live event of the write it acknowledges.
AcksFollowWrites ==
    \A c \in DOMAIN clients : \A i \in DOMAIN clients[c] :
        LET e == clients[c][i] IN
        e.kind = "LiveCommandAck" =>
            /\ e.seq \in DOMAIN log /\ log[e.seq].writer = c
            /\ topics[e.path].desc.kind = "Command"
            /\ \E j \in 1 .. i - 1 :
                  clients[c][j] = [e EXCEPT !.kind = "LiveCommand"]

\* Nothing enqueued in a session that ended is left for a client to drain
\* after BeginNewSession, so sequence numbers it drains never mix sessions.
SessionConfined ==
    \A c \in DOMAIN clients : \A i \in DOMAIN clients[c] :
        clients[c][i].session = sessionId

\* A lease tenure has one writer: two accepted client writes to one leased
\* topic with no release in between come from the same client, across
\* acquisitions, disconnections and rejected writes.
OneWriterPerTenure ==
    \A i, j \in DOMAIN log :
        /\ log[i].path = log[j].path
        /\ log[i].open /\ log[j].open
        /\ log[i].writer # Server /\ log[j].writer # Server
        => log[i].writer = log[j].writer

\* A client that has its snapshot from this session and drains its queue holds
\* the authority's latest value of every retained, replayed state topic,
\* wherever its connection fell among the writes (BuildSnapshotForClient,
\* EnqueueLiveEvent).
Converges ==
    \A c \in DOMAIN clients : joined[c] = sessionId =>
        LET held == Applied(mirror[c], clients[c]) IN
        \A p \in Replayed :
            p \in DOMAIN held /\ held[p].value = topics[p].latest

\* Reconnecting never re-fires a command: what a client takes up when it
\* (re)connects is state only; a command reaches it through its queue alone
\* (CONTRACT.md, "reconnect must not silently re-fire the previous command").
CommandsNotReplayed ==
    [][\A c \in Clients :
         /\ mirror'[c] # mirror[c]
         /\ ~(c \in DOMAIN clients /\ clients[c] # <<>> /\ clients'[c] = <<>>)
         => \A p \in DOMAIN mirror'[c] : topics[p].desc.kind = "State"]_vars

-----------------------------------------------------------------------------
(* The core implements the subscribers' view of it.  A subscriber's position *)
(* is what its queue leaves to be read, and nothing of the history.          *)

Undelivered(c) == {i \in DOMAIN clients[c] : IsLive(clients[c][i])}

Feed == INSTANCE TopicFeed WITH
    Subscribers <- Clients,
    session     <- sessionId,
    log         <- [i \in DOMAIN log |-> [path |-> log[i].path, value |-> log[i].value]],
    kept        <- [p \in Replayed |-> topics[p].latest],
    next        <- [c \in DOMAIN clients |-> nextSeq - Cardinality(Undelivered(c))],
    held        <- [c \in Clients |-> [p \in DOMAIN mirror[c] |-> mirror[c][p].value]]

\* Queues, envelopes and snapshots of the core together give every client what
\* reading the log from its own position would: connecting, draining, writing
\* and restarting a session are steps of TopicFeed, all else leaves it alone.
ImplementsFeed == Feed!Spec

=============================================================================
