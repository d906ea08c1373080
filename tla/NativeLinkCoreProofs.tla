------------------------ MODULE NativeLinkCoreProofs ------------------------
(***************************************************************************)
(* Proofs about NativeLinkCore for every set of clients, paths, payloads    *)
(* and offered descriptors, and every value of the bounds.                  *)
(***************************************************************************)
EXTENDS NativeLinkCore, FiniteSetTheorems, SequenceTheorems, WellFoundedInduction, TLAPS

LogEntry == [path : Paths, value : Values, writer : Writers, open : BOOLEAN]

-----------------------------------------------------------------------------
(* Facts about the operators the actions are built from *)

\* An envelope about a registered topic that has a value is an envelope.
LEMMA BuildEnvelopeType ==
    ASSUME NEW p \in Paths, NEW t \in TopicRuntime, t.latest # NoValue,
           NEW kind \in DeliveryKinds, NEW seq \in Nat, sessionId \in Nat
    PROVE  BuildEnvelope(p, t, kind, seq) \in UpdateEnvelope
  <1>1. t.latest \in Values
    BY DEF TopicRuntime
  <1>2. IsStale(t) \in BOOLEAN
    BY DEF IsStale, TopicRuntime, TopicDescriptor
  <1>3. t.source \in Writers \cup {Nobody}
    BY DEF TopicRuntime
  <1> QED
    BY <1>1, <1>2, <1>3 DEF BuildEnvelope, UpdateEnvelope, Reasons

\* A refused write produces a reject envelope, whatever the reason.
LEMMA RejectEventType ==
    ASSUME NEW w \in Clients, NEW p \in Paths, NEW value \in Values, TypeOK,
           WriteRejectReason(w, p, value) # "None"
    PROVE  LET e == RejectEvent(w, p, value, WriteRejectReason(w, p, value))
           IN  e \in UpdateEnvelope /\ ~IsLive(e)
  <1>1. WriteRejectReason(w, p, value) \in Reasons
    BY DEF WriteRejectReason, Reasons, TypeOK, TopicRuntime, TopicDescriptor
  <1>2. CASE p \notin DOMAIN topics
    BY <1>1, <1>2 DEF RejectEvent, UpdateEnvelope, DeliveryKinds, IsLive,
                      LiveKinds, TypeOK, Writers
  <1>3. CASE p \in DOMAIN topics
    <2>1. topics[p].source \in Writers \cup {Nobody} /\ IsStale(topics[p]) \in BOOLEAN
      BY <1>3 DEF TypeOK, TopicRuntime, TopicDescriptor, IsStale
    <2> QED
      BY <1>1, <1>3, <2>1 DEF RejectEvent, BuildEnvelope, UpdateEnvelope,
                              DeliveryKinds, IsLive, LiveKinds, TypeOK
  <1> QED BY <1>2, <1>3

\* An accepted write is delivered as one live event carrying the next sequence
\* number, possibly followed by one acknowledgement.
LEMMA DeliveredShape ==
    ASSUME NEW k, NEW w, NEW event \in UpdateEnvelope, NEW topicKind, IsLive(event)
    PROVE  LET d == Delivered(k, w, event, topicKind) IN
           /\ d \in Seq(UpdateEnvelope)
           /\ Len(d) \in 1 .. 2
           /\ d[1] = event
           /\ Len(d) = 2 => ~IsLive(d[2])
  <1>1. [event EXCEPT !.kind = "LiveCommandAck"] \in UpdateEnvelope
    BY DEF UpdateEnvelope, DeliveryKinds
  <1>2. ~IsLive([event EXCEPT !.kind = "LiveCommandAck"])
    BY DEF IsLive, LiveKinds, UpdateEnvelope
  <1> QED BY <1>1, <1>2 DEF Delivered

\* What the live event of an accepted write says.
LEMMA AcceptedEvent ==
    ASSUME TypeOK, NEW w \in Writers, NEW p \in Paths, NEW value \in Values,
           WriteRejectReason(w, p, value) = "None"
    PROVE  LET t == Written(w, p, value)
               e == BuildEnvelope(p, t, DetermineLiveDeliveryKind(t.desc.kind), nextSeq)
           IN  /\ p \in DOMAIN topics
               /\ t \in TopicRuntime
               /\ e \in UpdateEnvelope
               /\ IsLive(e)
               /\ e.seq = nextSeq /\ e.path = p /\ e.value = value /\ e.source = w
               /\ e.session = sessionId
  <1> DEFINE t == Written(w, p, value)
             e == BuildEnvelope(p, t, DetermineLiveDeliveryKind(t.desc.kind), nextSeq)
  <1>1. p \in DOMAIN topics
    BY DEF WriteRejectReason
  <1>2. topics[p] \in TopicRuntime
    BY <1>1 DEF TypeOK
  <1>3. t \in TopicRuntime /\ t.latest = value /\ t.source = w /\ t.desc = topics[p].desc
    BY <1>2, CoreAssumption DEF Written, TopicRuntime
  <1>4. t.desc.kind \in {"State", "Command", "Event"}
    BY <1>3 DEF TopicRuntime, TopicDescriptor
  <1>5. DetermineLiveDeliveryKind(t.desc.kind) \in LiveKinds
    BY <1>4 DEF DetermineLiveDeliveryKind, LiveKinds
  <1>6. e \in UpdateEnvelope
    BY <1>3, <1>5, BuildEnvelopeType, CoreAssumption
       DEF TypeOK, LiveKinds, DeliveryKinds
  <1> HIDE DEF t
  <1>7. IsLive(e) /\ e.seq = nextSeq /\ e.path = p /\ e.value = value /\ e.source = w
        /\ e.session = sessionId
    BY <1>3, <1>5 DEF BuildEnvelope, IsLive
  <1> QED BY <1>1, <1>3, <1>6, <1>7 DEF t

-----------------------------------------------------------------------------
(* Type correctness *)

\* The queues and the log stay sequences when an accepted write extends them.
LEMMA AcceptType ==
    ASSUME TypeOK, NEW w \in Writers, NEW p \in Paths, NEW value \in Values,
           Accept(w, p, value)
    PROVE  TypeOK'
  <1> DEFINE t == Written(w, p, value)
             e == BuildEnvelope(p, t, DetermineLiveDeliveryKind(t.desc.kind), nextSeq)
             entry == [path |-> p, value |-> value, writer |-> w, open |-> TRUE]
  <1>1. /\ p \in DOMAIN topics
        /\ t \in TopicRuntime
        /\ e \in UpdateEnvelope /\ IsLive(e)
    BY AcceptedEvent DEF Accept
  <1>2. /\ topics' = [topics EXCEPT ![p] = t]
        /\ nextSeq' = nextSeq + 1
        /\ clients' = [k \in DOMAIN clients |-> clients[k] \o Delivered(k, w, e, t.desc.kind)]
        /\ log' = Append(log, entry)
        /\ UNCHANGED <<sessionId, cursor, joined, mirror>>
    BY DEF Accept
  <1> HIDE DEF t, e
  <1>3. \A k \in DOMAIN clients : Delivered(k, w, e, t.desc.kind) \in Seq(UpdateEnvelope)
    BY <1>1, DeliveredShape
  <1>4. \A k \in DOMAIN clients :
          clients[k] \o Delivered(k, w, e, t.desc.kind) \in Seq(UpdateEnvelope)
    BY <1>3, ConcatProperties DEF TypeOK
  <1>5. log' \in Seq(LogEntry) /\ Len(log') = Len(log) + 1
    BY <1>2 DEF TypeOK, LogEntry
  <1>6. /\ DOMAIN topics' \subseteq Paths
        /\ \A q \in DOMAIN topics' : topics'[q] \in TopicRuntime
        /\ topics' = [q \in DOMAIN topics' |-> topics'[q]]
    BY <1>1, <1>2 DEF TypeOK
  <1>7. /\ DOMAIN clients' \subseteq Clients
        /\ \A c \in DOMAIN clients' : clients'[c] \in Seq(UpdateEnvelope)
        /\ clients' = [c \in DOMAIN clients' |-> clients'[c]]
    BY <1>2, <1>4 DEF TypeOK
  <1> QED BY <1>2, <1>5, <1>6, <1>7 DEF TypeOK, LogEntry

\* Every operation of the core keeps the variables' types.
LEMMA TypeInductive == TypeOK /\ [Next]_vars => TypeOK'
  <1> SUFFICES ASSUME TypeOK, [Next]_vars PROVE TypeOK'
    OBVIOUS
  <1>1. ASSUME NEW p, NEW d, <<p, d>> \in Offers, RegisterTopic(p, d) PROVE TypeOK'
    <2>1. p \in Paths /\ d \in TopicDescriptor
      BY <1>1, CoreAssumption DEF RegisterTopic, ValidateDescriptor
    <2> DEFINE fresh == [desc |-> d, latest |-> NoValue, source |-> Nobody,
                         age |-> 0, lease |-> Nobody]
    <2>2. fresh \in TopicRuntime
      BY <2>1, CoreAssumption DEF TopicRuntime
    <2>3. topics' = [q \in DOMAIN topics \cup {p} |-> IF q = p THEN fresh ELSE topics[q]]
      BY <1>1 DEF RegisterTopic
    <2> HIDE DEF fresh
    <2> QED BY <1>1, <2>1, <2>2, <2>3 DEF RegisterTopic, TypeOK
  <1>2. ASSUME NEW p \in Paths, NEW c \in Clients, AcquireLease(p, c) PROVE TypeOK'
    <2>1. [topics[p] EXCEPT !.lease = c] \in TopicRuntime
      BY <1>2 DEF AcquireLease, TypeOK, TopicRuntime
    <2> QED BY <1>2, <2>1 DEF AcquireLease, TypeOK
  <1>3. ASSUME NEW p \in Paths, NEW c \in Clients, ReleaseLease(p, c) PROVE TypeOK'
    <2>1. [topics[p] EXCEPT !.lease = Nobody] \in TopicRuntime
      BY <1>3 DEF ReleaseLease, TypeOK, TopicRuntime
    <2>2. log' \in Seq(LogEntry) /\ Len(log') = Len(log)
      <3> DEFINE closed(i) == IF log[i].path = p THEN [log[i] EXCEPT !.open = FALSE]
                              ELSE log[i]
      <3>1. /\ log \in Seq(LogEntry)
            /\ log' = [i \in 1 .. Len(log) |-> closed(i)]
        BY <1>3 DEF ReleaseLease, TypeOK, LogEntry
      <3> HIDE DEF closed
      <3>2. \A i \in 1 .. Len(log) : closed(i) \in LogEntry
        <4> SUFFICES ASSUME NEW i \in 1 .. Len(log) PROVE closed(i) \in LogEntry
          OBVIOUS
        <4>1. log[i] \in LogEntry
          BY <3>1
        <4> QED BY <4>1 DEF closed, LogEntry
      <3>3. log' \in [1 .. Len(log) -> LogEntry]
        BY <3>1, <3>2
      <3>4. log' \in Seq(LogEntry)
        BY <3>1, <3>3, SeqDef
      <3> QED BY <3>1, <3>3, <3>4, LenProperties
    <2> QED BY <1>3, <2>1, <2>2 DEF ReleaseLease, TypeOK, LogEntry
  <1>4. ASSUME NEW c \in Clients, ConnectClient(c) PROVE TypeOK'
    BY <1>4 DEF ConnectClient, TypeOK
  <1>5. ASSUME NEW c \in Clients, DisconnectClient(c) PROVE TypeOK'
    BY <1>5 DEF DisconnectClient, TypeOK
  <1>6. ASSUME NEW c \in Clients, DrainClientEvents(c) PROVE TypeOK'
    <2>1. clients' = [clients EXCEPT ![c] = <<>>] /\ <<>> \in Seq(UpdateEnvelope)
      BY <1>6 DEF DrainClientEvents
    <2>2. /\ DOMAIN clients' \subseteq Clients
          /\ \A k \in DOMAIN clients' : clients'[k] \in Seq(UpdateEnvelope)
          /\ clients' = [k \in DOMAIN clients' |-> clients'[k]]
      BY <2>1 DEF TypeOK
    <2> QED BY <1>6, <2>2 DEF DrainClientEvents, TypeOK
  <1>7. ASSUME NEW w \in Writers, NEW p \in Paths, NEW v \in Values, Accept(w, p, v)
        PROVE  TypeOK'
    BY <1>7, AcceptType
  <1>8. ASSUME NEW w \in Writers, NEW p \in Paths, NEW v \in Values, Reject(w, p, v)
        PROVE  TypeOK'
    <2> DEFINE e == RejectEvent(w, p, v, WriteRejectReason(w, p, v))
    <2>1. w \in Clients /\ e \in UpdateEnvelope
      BY <1>8, RejectEventType DEF Reject, TypeOK
    <2>2. clients' = [clients EXCEPT ![w] = Append(clients[w], e)]
      BY <1>8 DEF Reject
    <2> HIDE DEF e
    <2>3. /\ DOMAIN clients' \subseteq Clients
          /\ \A k \in DOMAIN clients' : clients'[k] \in Seq(UpdateEnvelope)
          /\ clients' = [k \in DOMAIN clients' |-> clients'[k]]
      <3>1. Append(clients[w], e) \in Seq(UpdateEnvelope)
        BY <1>8, <2>1 DEF Reject, TypeOK
      <3> QED BY <2>1, <2>2, <3>1 DEF TypeOK
    <2> QED BY <1>8, <2>3 DEF Reject, TypeOK
  <1>9. CASE BeginNewSession
    <2>1. \A p \in DOMAIN topics : [topics[p] EXCEPT !.lease = Nobody] \in TopicRuntime
      BY DEF TypeOK, TopicRuntime
    <2> QED BY <1>9, <2>1 DEF BeginNewSession, TypeOK
  <1>10. CASE Tick
    <2>1. \A p \in DOMAIN topics :
            [topics[p] EXCEPT !.age = IF @ < MaxAge THEN @ + 1 ELSE @] \in TopicRuntime
      <3> SUFFICES ASSUME NEW p \in DOMAIN topics
                   PROVE  [topics[p] EXCEPT !.age = IF topics[p].age < MaxAge
                             THEN topics[p].age + 1 ELSE topics[p].age] \in TopicRuntime
        OBVIOUS
      <3>1. topics[p] \in TopicRuntime /\ topics[p].age \in 0 .. MaxAge
        BY DEF TypeOK, TopicRuntime
      <3>2. (IF topics[p].age < MaxAge THEN topics[p].age + 1 ELSE topics[p].age)
              \in 0 .. MaxAge
        BY <3>1, CoreAssumption
      <3> DEFINE a == IF topics[p].age < MaxAge THEN topics[p].age + 1 ELSE topics[p].age
      <3> HIDE DEF a
      <3>3. a \in 0 .. MaxAge
        BY <3>2 DEF a
      <3>4. [topics[p] EXCEPT !.age = a] \in TopicRuntime
        BY <3>1, <3>3 DEF TopicRuntime
      <3> QED BY <3>4 DEF a
    <2> QED BY <1>10, <2>1 DEF Tick, TypeOK
  <1>11. CASE UNCHANGED vars
    BY <1>11 DEF vars, TypeOK
  <1> QED
    BY <1>1, <1>2, <1>3, <1>4, <1>5, <1>6, <1>7, <1>8, <1>9, <1>10, <1>11,
       CoreAssumption DEF Next, Publish

\* Every variable keeps its type in every reachable state.
THEOREM TypeCorrect == Spec => []TypeOK
  <1>1. Init => TypeOK
    BY DEF Init, TypeOK
  <1> QED BY <1>1, TypeInductive, PTL DEF Spec

-----------------------------------------------------------------------------
(* Every client is owed exactly the writes it has not drained.  The stream    *)
(* invariant needs one fact more: no client has drained past the end.         *)

CursorInRange == \A c \in Clients : cursor[c] \in 1 .. nextSeq

StreamInv == TypeOK /\ LiveStreamExact /\ CursorInRange

\* A drained queue owes what is still to be written.
LEMMA OwesNothing ==
    ASSUME NEW accepted \in Seq(LogEntry)
    PROVE  Owes(<<>>, Len(accepted) + 1, accepted)
  BY DEF Owes

\* A refusal queued behind the events changes nothing that is owed.
LEMMA OwesBesideReject ==
    ASSUME NEW q \in Seq(UpdateEnvelope), NEW from \in Nat, NEW accepted \in Seq(LogEntry),
           Owes(q, from, accepted), NEW e \in UpdateEnvelope, ~IsLive(e)
    PROVE  Owes(Append(q, e), from, accepted)
  <1>1. /\ DOMAIN Append(q, e) = 1 .. Len(q) + 1
        /\ DOMAIN q = 1 .. Len(q) /\ Len(q) \in Nat
        /\ \A i \in 1 .. Len(q) : Append(q, e)[i] = q[i]
        /\ Append(q, e)[Len(q) + 1] = e
    OBVIOUS
  <1>2. \A i \in DOMAIN Append(q, e) : IsLive(Append(q, e)[i]) => i \in DOMAIN q
    BY <1>1
  <1>3. DOMAIN q \subseteq DOMAIN Append(q, e)
    BY <1>1
  <1> QED BY <1>1, <1>2, <1>3 DEF Owes

\* Arithmetic of positions, apart from the sequences it is needed for.
LEMMA OneOfTwo ==
    ASSUME NEW n \in Nat, NEW i \in n + 1 .. n + 2, i # n + 2
    PROVE  i = n + 1
  OBVIOUS

LEMMA Shifted ==
    ASSUME NEW from \in Nat, NEW last \in Nat, NEW n \in from .. last
    PROVE  n - from + 1 \in 1 .. last - from + 1 /\ n - from + 1 + from - 1 = n
  OBVIOUS

LEMMA ShiftedOrder ==
    ASSUME NEW from \in Nat, NEW m \in Nat, NEW n \in Nat, m <= n
    PROVE  m - from + 1 <= n - from + 1
  OBVIOUS

\* An accepted write is owed to every client, behind what it was owed before.
LEMMA OwesAccepted ==
    ASSUME NEW q \in Seq(UpdateEnvelope), NEW accepted \in Seq(LogEntry),
           NEW from \in 1 .. Len(accepted) + 1, Owes(q, from, accepted),
           NEW entry \in LogEntry, NEW d \in Seq(UpdateEnvelope),
           Len(d) \in 1 .. 2, IsLive(d[1]), Len(d) = 2 => ~IsLive(d[2]),
           d[1].seq = Len(accepted) + 1, d[1].path = entry.path,
           d[1].value = entry.value, d[1].source = entry.writer
    PROVE  Owes(q \o d, from, Append(accepted, entry))
  <1> DEFINE r == q \o d
             more == Append(accepted, entry)
  <1>1. /\ DOMAIN r = 1 .. Len(q) + Len(d)
        /\ DOMAIN q = 1 .. Len(q) /\ Len(q) \in Nat
        /\ \A i \in 1 .. Len(q) : r[i] = q[i]
        /\ r[Len(q) + 1] = d[1]
        /\ Len(d) = 2 => r[Len(q) + 2] = d[2]
    OBVIOUS
  <1>2. /\ Len(more) = Len(accepted) + 1 /\ Len(accepted) \in Nat
        /\ \A n \in 1 .. Len(accepted) : more[n] = accepted[n]
        /\ more[Len(accepted) + 1] = entry
    OBVIOUS
  <1> HIDE DEF r, more
  <1>3. /\ Len(q) + 1 \in DOMAIN r
        /\ DOMAIN q \subseteq DOMAIN r
        /\ \A i \in DOMAIN r : IsLive(r[i]) => i \in DOMAIN q \/ i = Len(q) + 1
    <2>1. Len(d) = 1 \/ (Len(d) = 2 /\ ~IsLive(r[Len(q) + 2]))
      BY <1>1
    <2>2. ASSUME NEW i \in DOMAIN r, IsLive(r[i]), i \notin DOMAIN q
          PROVE  i = Len(q) + 1
      <3>1. i \in Len(q) + 1 .. Len(q) + Len(d)
        BY <1>1, <2>2
      <3>2. i # Len(q) + 2 \/ Len(d) # 2
        BY <2>1, <2>2
      <3>3. Len(q) \in Nat /\ (Len(d) = 1 \/ Len(d) = 2)
        BY <1>1, <2>1
      <3>4. CASE Len(d) = 1
        BY <3>1, <3>3, <3>4
      <3>5. CASE Len(d) = 2
        <4>1. i \in Len(q) + 1 .. Len(q) + 2 /\ i # Len(q) + 2
          BY <3>1, <3>2, <3>5
        <4> QED BY <3>3, <4>1, OneOfTwo
      <3> QED BY <3>3, <3>4, <3>5
    <2>3. Len(q) + 1 \in DOMAIN r /\ DOMAIN q \subseteq DOMAIN r
      BY <1>1, <2>1
    <2> QED BY <2>2, <2>3
  <1>4. \A i \in DOMAIN q : IsLive(q[i]) => q[i].seq \in from .. Len(accepted)
    BY DEF Owes
  <1>5. ASSUME NEW i \in DOMAIN r, IsLive(r[i])
        PROVE  /\ r[i].seq \in from .. Len(more)
               /\ r[i].path = more[r[i].seq].path
               /\ r[i].value = more[r[i].seq].value
               /\ r[i].source = more[r[i].seq].writer
    <2>1. CASE i \in DOMAIN q
      <3>1. r[i] = q[i] /\ q[i].seq \in from .. Len(accepted)
        BY <1>1, <1>4, <1>5, <2>1
      <3>2. more[q[i].seq] = accepted[q[i].seq] /\ q[i].seq \in from .. Len(more)
        BY <1>2, <3>1
      <3> QED BY <1>5, <2>1, <3>1, <3>2 DEF Owes
    <2>2. CASE i = Len(q) + 1
      BY <1>1, <1>2, <2>2
    <2> QED BY <1>3, <1>5, <2>1, <2>2
  <1>6. ASSUME NEW n \in from .. Len(more)
        PROVE  \E i \in DOMAIN r : IsLive(r[i]) /\ r[i].seq = n
    <2>1. CASE n = Len(more)
      BY <1>1, <1>2, <1>3, <2>1
    <2>2. CASE n # Len(more)
      <3>1. PICK i \in DOMAIN q : IsLive(q[i]) /\ q[i].seq = n
        BY <1>2, <2>2 DEF Owes
      <3> QED BY <1>1, <1>3, <3>1
    <2> QED BY <2>1, <2>2
  <1>7. ASSUME NEW i \in DOMAIN r, NEW j \in DOMAIN r, i < j, IsLive(r[i]), IsLive(r[j])
        PROVE  r[i].seq < r[j].seq
    <2>1. i \in DOMAIN q
      BY <1>1, <1>3, <1>7
    <2>2. CASE j \in DOMAIN q
      BY <1>1, <1>7, <2>1, <2>2 DEF Owes
    <2>3. CASE j = Len(q) + 1
      BY <1>1, <1>2, <1>4, <1>7, <2>1, <2>3
    <2> QED BY <1>3, <1>7, <2>2, <2>3
  <1> QED BY <1>5, <1>6, <1>7 DEF Owes, r, more

\* Every operation keeps what is owed to each connected client equal to the
\* accepted writes behind its cursor.
LEMMA StreamInductive == StreamInv /\ [Next]_vars => StreamInv'
  <1> SUFFICES ASSUME StreamInv, [Next]_vars
               PROVE  LiveStreamExact' /\ CursorInRange'
    BY TypeInductive DEF StreamInv
  <1> USE DEF StreamInv
  <1>0. nextSeq = Len(log) + 1 /\ log \in Seq(LogEntry) /\ Len(log) \in Nat
    BY DEF TypeOK, LogEntry
  <1>1. CASE UNCHANGED <<clients, log, cursor, nextSeq>>
    BY <1>1 DEF LiveStreamExact, CursorInRange
  <1>2. ASSUME NEW p \in Paths, NEW c \in Clients, ReleaseLease(p, c)
        PROVE  LiveStreamExact' /\ CursorInRange'
    <2>1. /\ Len(log') = Len(log)
          /\ \A n \in 1 .. Len(log) : /\ log'[n].path = log[n].path
                                      /\ log'[n].value = log[n].value
                                      /\ log'[n].writer = log[n].writer
      <3>1. DOMAIN log' = 1 .. Len(log) /\ DOMAIN log = 1 .. Len(log)
        BY <1>0, <1>2 DEF ReleaseLease
      <3>2. log' \in Seq(LogEntry)
        BY TypeInductive DEF TypeOK, LogEntry
      <3>3. Len(log') = Len(log)
        BY <1>0, <3>1, <3>2, LenProperties
      <3>4. ASSUME NEW n \in 1 .. Len(log)
            PROVE  /\ log'[n].path = log[n].path
                   /\ log'[n].value = log[n].value
                   /\ log'[n].writer = log[n].writer
        <4>1. log'[n] = IF log[n].path = p THEN [log[n] EXCEPT !.open = FALSE] ELSE log[n]
          BY <1>2, <3>1 DEF ReleaseLease
        <4>2. log[n] \in LogEntry
          BY <1>0
        <4> QED BY <4>1, <4>2 DEF LogEntry
      <3> QED BY <3>3, <3>4
    <2>2. UNCHANGED <<clients, cursor, nextSeq>>
      BY <1>2 DEF ReleaseLease
    <2>3. ASSUME NEW k \in DOMAIN clients PROVE Owes(clients[k], cursor[k], log')
      <3>1. Owes(clients[k], cursor[k], log) /\ cursor[k] \in 1 .. Len(log) + 1
        BY <1>0 DEF LiveStreamExact, CursorInRange, TypeOK
      <3> QED BY <1>0, <2>1, <3>1 DEF Owes
    <2> QED BY <2>2, <2>3 DEF LiveStreamExact, CursorInRange
  <1>3. ASSUME NEW c \in Clients, ConnectClient(c)
        PROVE  LiveStreamExact' /\ CursorInRange'
    <2>1. CASE c \in DOMAIN clients
      BY <1>3, <2>1 DEF ConnectClient, LiveStreamExact, CursorInRange, TypeOK
    <2>2. CASE c \notin DOMAIN clients
      <3>1. ASSUME NEW k \in DOMAIN clients' PROVE Owes(clients'[k], cursor'[k], log')
        <4>1. CASE k = c
          <5>1. clients'[k] = <<>> /\ cursor'[k] = Len(log) + 1 /\ log' = log
            BY <1>0, <1>3, <2>2, <4>1 DEF ConnectClient, TypeOK
          <5> QED BY <1>0, <5>1, OwesNothing
        <4>2. CASE k # c
          BY <1>3, <4>2 DEF ConnectClient, LiveStreamExact, TypeOK
        <4> QED BY <4>1, <4>2
      <3>2. CursorInRange'
        BY <1>0, <1>3, <2>2 DEF ConnectClient, CursorInRange, TypeOK
      <3> QED BY <3>1, <3>2 DEF LiveStreamExact
    <2> QED BY <2>1, <2>2
  <1>4. ASSUME NEW c \in Clients, DisconnectClient(c)
        PROVE  LiveStreamExact' /\ CursorInRange'
    BY <1>4 DEF DisconnectClient, LiveStreamExact, CursorInRange
  <1>5. ASSUME NEW c \in Clients, DrainClientEvents(c)
        PROVE  LiveStreamExact' /\ CursorInRange'
    <2>1. ASSUME NEW k \in DOMAIN clients' PROVE Owes(clients'[k], cursor'[k], log')
      <3>1. CASE k = c
        <4>1. clients'[k] = <<>> /\ cursor'[k] = Len(log) + 1 /\ log' = log
          BY <1>0, <1>5, <3>1 DEF DrainClientEvents, TypeOK
        <4> QED BY <1>0, <4>1, OwesNothing
      <3>2. CASE k # c
        BY <1>5, <3>2 DEF DrainClientEvents, LiveStreamExact, TypeOK
      <3> QED BY <3>1, <3>2
    <2>2. CursorInRange'
      BY <1>0, <1>5 DEF DrainClientEvents, CursorInRange, TypeOK
    <2> QED BY <2>1, <2>2 DEF LiveStreamExact
  <1>6. ASSUME NEW w \in Writers, NEW p \in Paths, NEW v \in Values, Accept(w, p, v)
        PROVE  LiveStreamExact' /\ CursorInRange'
    <2> DEFINE t == Written(w, p, v)
               e == BuildEnvelope(p, t, DetermineLiveDeliveryKind(t.desc.kind), nextSeq)
               entry == [path |-> p, value |-> v, writer |-> w, open |-> TRUE]
               d(k) == Delivered(k, w, e, t.desc.kind)
    <2>1. /\ e \in UpdateEnvelope /\ IsLive(e) /\ e.seq = nextSeq
          /\ e.path = p /\ e.value = v /\ e.source = w
      BY <1>6, AcceptedEvent DEF Accept
    <2>2. /\ clients' = [k \in DOMAIN clients |-> clients[k] \o d(k)]
          /\ log' = Append(log, entry) /\ nextSeq' = nextSeq + 1 /\ cursor' = cursor
      BY <1>6 DEF Accept
    <2> HIDE DEF t, e
    <2>3. ASSUME NEW k \in DOMAIN clients
          PROVE  /\ d(k) \in Seq(UpdateEnvelope) /\ Len(d(k)) \in 1 .. 2
                 /\ d(k)[1] = e
                 /\ Len(d(k)) = 2 => ~IsLive(d(k)[2])
      BY <2>1, DeliveredShape
    <2> HIDE DEF d
    <2>4. entry \in LogEntry /\ entry.path = p /\ entry.value = v /\ entry.writer = w
      BY DEF LogEntry
    <2> HIDE DEF entry
    <2>5. ASSUME NEW k \in DOMAIN clients
          PROVE  Owes(clients[k] \o d(k), cursor[k], Append(log, entry))
      <3>1. /\ clients[k] \in Seq(UpdateEnvelope)
            /\ cursor[k] \in 1 .. Len(log) + 1
            /\ Owes(clients[k], cursor[k], log)
        BY <1>0 DEF TypeOK, CursorInRange, LiveStreamExact
      <3> QED BY <1>0, <2>1, <2>3, <2>4, <3>1, OwesAccepted
    <2> QED BY <1>0, <2>2, <2>5 DEF LiveStreamExact, CursorInRange, TypeOK
  <1>7. ASSUME NEW w \in Writers, NEW p \in Paths, NEW v \in Values, Reject(w, p, v)
        PROVE  LiveStreamExact' /\ CursorInRange'
    <2> DEFINE e == RejectEvent(w, p, v, WriteRejectReason(w, p, v))
    <2>1. /\ w \in Clients /\ w \in DOMAIN clients
          /\ e \in UpdateEnvelope /\ ~IsLive(e)
      BY <1>7, RejectEventType DEF Reject, TypeOK
    <2>2. /\ clients' = [clients EXCEPT ![w] = Append(clients[w], e)]
          /\ UNCHANGED <<log, cursor, nextSeq>>
      BY <1>7 DEF Reject
    <2> HIDE DEF e
    <2>3. Owes(Append(clients[w], e), cursor[w], log)
      BY <1>0, <2>1, OwesBesideReject DEF LiveStreamExact, TypeOK
    <2> QED BY <2>1, <2>2, <2>3 DEF LiveStreamExact, CursorInRange, TypeOK
  <1>8. CASE BeginNewSession
    <2>1. /\ clients' = [c \in DOMAIN clients |-> <<>>]
          /\ log' = <<>> /\ nextSeq' = 1 /\ cursor' = [c \in Clients |-> 1]
      BY <1>8 DEF BeginNewSession
    <2>2. Owes(<<>>, 1, <<>>)
      BY DEF Owes
    <2> QED BY <2>1, <2>2 DEF LiveStreamExact, CursorInRange, TypeOK
  <1> QED
    BY <1>1, <1>2, <1>3, <1>4, <1>5, <1>6, <1>7, <1>8
       DEF Next, Publish, RegisterTopic, AcquireLease, Tick, vars

\* Whatever the clients, topics and writes, every connected client's queue
\* holds exactly the accepted writes it has not drained, in order, once.
THEOREM LiveStreamIsExact == Spec => []LiveStreamExact
  <1>1. Init => StreamInv
    BY DEF Init, StreamInv, TypeOK, LiveStreamExact, CursorInRange
  <1>2. StreamInv => LiveStreamExact
    BY DEF StreamInv
  <1> QED BY <1>1, <1>2, StreamInductive, PTL DEF Spec

-----------------------------------------------------------------------------
(* Leases.  OneWriterPerTenure is not inductive: it says nothing of the next   *)
(* writer.  What carries it is that the client whose write is open still holds *)
(* the lease.                                                                  *)

OpenWriterHolds ==
    \A i \in DOMAIN log : log[i].open /\ log[i].writer # Server =>
        /\ log[i].path \in DOMAIN topics
        /\ topics[log[i].path].lease = log[i].writer

\* Every operation keeps the holder of a lease, once it has written, the only
\* writer of its tenure: the strengthening that makes one writer inductive.
LEMMA OpenWriterInductive ==
    TypeOK /\ OpenWriterHolds /\ [Next]_vars => OpenWriterHolds'
  <1> SUFFICES ASSUME TypeOK, OpenWriterHolds, [Next]_vars PROVE OpenWriterHolds'
    OBVIOUS
  <1>0. log \in Seq(LogEntry) /\ DOMAIN log = 1 .. Len(log) /\ Len(log) \in Nat
    BY DEF TypeOK, LogEntry
  <1>a. \A i \in DOMAIN log : log[i].path \in Paths /\ log[i].writer \in Writers
    <2>1. \A i \in DOMAIN log : log[i] \in LogEntry
      BY <1>0
    <2> QED BY <2>1 DEF LogEntry
  <1>1. ASSUME NEW p, NEW d, RegisterTopic(p, d) PROVE OpenWriterHolds'
    BY <1>1 DEF RegisterTopic, OpenWriterHolds
  <1>2. ASSUME NEW p \in Paths, NEW c \in Clients, AcquireLease(p, c) PROVE OpenWriterHolds'
    <2>1. ASSUME NEW i \in DOMAIN log, log[i].open, log[i].writer # Server
          PROVE  /\ log[i].path \in DOMAIN topics'
                 /\ topics'[log[i].path].lease = log[i].writer
      <3>1. log[i].path \in DOMAIN topics /\ topics[log[i].path].lease = log[i].writer
        BY <2>1 DEF OpenWriterHolds
      <3>2. log[i].writer \in Clients
        BY <1>a, <2>1 DEF Writers
      <3>3. CASE log[i].path = p
        <4>1. topics[p].lease = c
          BY <1>2, <3>1, <3>2, <3>3, CoreAssumption DEF AcquireLease
        <4> QED BY <1>2, <3>1, <3>3, <4>1 DEF AcquireLease, TypeOK, TopicRuntime
      <3>4. CASE log[i].path # p
        BY <1>2, <3>1, <3>4 DEF AcquireLease, TypeOK
      <3> QED BY <3>3, <3>4
    <2> QED BY <1>2, <2>1 DEF AcquireLease, OpenWriterHolds
  <1>3. ASSUME NEW p \in Paths, NEW c \in Clients, ReleaseLease(p, c) PROVE OpenWriterHolds'
    <2>1. ASSUME NEW i \in DOMAIN log', log'[i].open, log'[i].writer # Server
          PROVE  /\ log'[i].path \in DOMAIN topics'
                 /\ topics'[log'[i].path].lease = log'[i].writer
      <3>1. i \in DOMAIN log
            /\ log'[i] = IF log[i].path = p THEN [log[i] EXCEPT !.open = FALSE] ELSE log[i]
        BY <1>3, <2>1 DEF ReleaseLease
      <3>2. log[i] \in LogEntry
        BY <1>0, <3>1
      <3>3. log[i].path # p /\ log'[i] = log[i]
        BY <2>1, <3>1, <3>2 DEF LogEntry
      <3> QED BY <1>3, <2>1, <3>1, <3>3 DEF ReleaseLease, OpenWriterHolds, TypeOK
    <2> QED BY <2>1 DEF OpenWriterHolds
  <1>4. ASSUME NEW w \in Writers, NEW p \in Paths, NEW v \in Values, Accept(w, p, v)
        PROVE  OpenWriterHolds'
    <2> DEFINE entry == [path |-> p, value |-> v, writer |-> w, open |-> TRUE]
    <2>1. /\ p \in DOMAIN topics
          /\ topics' = [topics EXCEPT ![p] = Written(w, p, v)]
          /\ log' = Append(log, entry)
      BY <1>4, AcceptedEvent DEF Accept
    <2>2. Written(w, p, v).lease = topics[p].lease
      BY DEF Written
    <2>3. DOMAIN topics' = DOMAIN topics
          /\ \A q \in DOMAIN topics : topics'[q].lease = topics[q].lease
      BY <2>1, <2>2 DEF TypeOK
    <2>4. w # Server => topics[p].lease = w
      BY <1>4, <2>1, CoreAssumption
         DEF Accept, WriteRejectReason, TypeOK, TopicRuntime, TopicDescriptor
    <2>5. DOMAIN log' = 1 .. Len(log) + 1 /\ log'[Len(log) + 1] = entry
          /\ \A i \in 1 .. Len(log) : log'[i] = log[i]
      BY <1>0, <2>1
    <2>6. ASSUME NEW i \in DOMAIN log', log'[i].open, log'[i].writer # Server
          PROVE  /\ log'[i].path \in DOMAIN topics'
                 /\ topics'[log'[i].path].lease = log'[i].writer
      <3>1. CASE i = Len(log) + 1
        BY <2>1, <2>3, <2>4, <2>5, <2>6, <3>1
      <3>2. CASE i # Len(log) + 1
        BY <1>0, <2>3, <2>5, <2>6, <3>2 DEF OpenWriterHolds
      <3> QED BY <3>1, <3>2
    <2> QED BY <2>6 DEF OpenWriterHolds
  <1>5. CASE BeginNewSession
    BY <1>5 DEF BeginNewSession, OpenWriterHolds
  <1>6. CASE Tick
    <2>1. \A p \in DOMAIN topics : topics'[p].lease = topics[p].lease
      BY <1>6 DEF Tick, TypeOK, TopicRuntime
    <2> QED BY <1>6, <2>1 DEF Tick, OpenWriterHolds
  <1>7. CASE UNCHANGED <<topics, log>>
    BY <1>7 DEF OpenWriterHolds
  <1> QED
    BY <1>1, <1>2, <1>3, <1>4, <1>5, <1>6, <1>7
       DEF Next, Publish, Reject, ConnectClient, DisconnectClient, DrainClientEvents, vars

\* Between two releases of a topic's lease every accepted client write to it
\* comes from one client, whoever connects, disconnects or asks in between.
THEOREM LeaseHasOneWriter == Spec => []OneWriterPerTenure
  <1>1. Init => OpenWriterHolds
    BY DEF Init, OpenWriterHolds
  <1>2. OpenWriterHolds => OneWriterPerTenure
    BY DEF OpenWriterHolds, OneWriterPerTenure
  <1> QED BY <1>1, <1>2, OpenWriterInductive, TypeCorrect, PTL DEF Spec

-----------------------------------------------------------------------------
(* Sessions *)

\* An acknowledgement carries the session of the event it is made from.
LEMMA DeliveredSession ==
    ASSUME NEW k, NEW w, NEW event \in UpdateEnvelope, NEW topicKind
    PROVE  \A i \in DOMAIN Delivered(k, w, event, topicKind) :
               Delivered(k, w, event, topicKind)[i].session = event.session
  BY DEF Delivered, UpdateEnvelope

\* Every operation keeps the queues free of events of earlier sessions.
LEMMA SessionConfinedInductive ==
    TypeOK /\ SessionConfined /\ [Next]_vars => SessionConfined'
  <1> SUFFICES ASSUME TypeOK, SessionConfined, [Next]_vars PROVE SessionConfined'
    OBVIOUS
  <1>1. ASSUME NEW c \in Clients, ConnectClient(c) PROVE SessionConfined'
    BY <1>1 DEF ConnectClient, SessionConfined
  <1>2. ASSUME NEW c \in Clients, DisconnectClient(c) PROVE SessionConfined'
    BY <1>2 DEF DisconnectClient, SessionConfined
  <1>3. ASSUME NEW c \in Clients, DrainClientEvents(c) PROVE SessionConfined'
    BY <1>3 DEF DrainClientEvents, SessionConfined, TypeOK
  <1>4. ASSUME NEW w \in Writers, NEW p \in Paths, NEW v \in Values, Accept(w, p, v)
        PROVE  SessionConfined'
    <2> DEFINE t == Written(w, p, v)
               e == BuildEnvelope(p, t, DetermineLiveDeliveryKind(t.desc.kind), nextSeq)
    <2>1. /\ e \in UpdateEnvelope /\ IsLive(e) /\ e.session = sessionId
          /\ clients' = [k \in DOMAIN clients |-> clients[k] \o Delivered(k, w, e, t.desc.kind)]
          /\ sessionId' = sessionId
      BY <1>4, AcceptedEvent DEF Accept
    <2> HIDE DEF t, e
    <2>2. ASSUME NEW k \in DOMAIN clients, NEW i \in DOMAIN clients'[k]
          PROVE  clients'[k][i].session = sessionId
      <3> DEFINE d == Delivered(k, w, e, t.desc.kind)
      <3>1. d \in Seq(UpdateEnvelope) /\ \A j \in DOMAIN d : d[j].session = sessionId
        BY <2>1, DeliveredShape, DeliveredSession
      <3> HIDE DEF d
      <3>2. clients'[k] = clients[k] \o d /\ clients[k] \in Seq(UpdateEnvelope)
        BY <2>1 DEF d, TypeOK
      <3>3. CASE i \in 1 .. Len(clients[k])
        BY <3>2, <3>1, <3>3 DEF SessionConfined
      <3>4. CASE i \notin 1 .. Len(clients[k])
        <4>1. i - Len(clients[k]) \in DOMAIN d
              /\ clients'[k][i] = d[i - Len(clients[k])]
          BY <2>2, <3>1, <3>2, <3>4
        <4> QED BY <3>1, <4>1
      <3> QED BY <3>3, <3>4
    <2> QED BY <2>1, <2>2 DEF SessionConfined
  <1>5. ASSUME NEW w \in Writers, NEW p \in Paths, NEW v \in Values, Reject(w, p, v)
        PROVE  SessionConfined'
    <2> DEFINE e == RejectEvent(w, p, v, WriteRejectReason(w, p, v))
    <2>1. e.session = sessionId
      BY DEF RejectEvent, BuildEnvelope
    <2>2. /\ w \in DOMAIN clients /\ sessionId' = sessionId
          /\ clients' = [clients EXCEPT ![w] = Append(clients[w], e)]
          /\ clients[w] \in Seq(UpdateEnvelope)
      BY <1>5 DEF Reject, TypeOK
    <2> HIDE DEF e
    <2>3. \A i \in DOMAIN Append(clients[w], e) : Append(clients[w], e)[i].session = sessionId
      BY <2>1, <2>2 DEF SessionConfined
    <2> QED BY <2>2, <2>3 DEF SessionConfined, TypeOK
  <1>6. CASE BeginNewSession
    BY <1>6 DEF BeginNewSession, SessionConfined
  <1>7. CASE UNCHANGED <<clients, sessionId>>
    BY <1>7 DEF SessionConfined
  <1> QED
    BY <1>1, <1>2, <1>3, <1>4, <1>5, <1>6, <1>7
       DEF Next, Publish, RegisterTopic, AcquireLease, ReleaseLease, Tick, vars

\* No client ever drains an event of a session that has ended.
THEOREM QueuesAreOfThisSession == Spec => []SessionConfined
  <1>1. Init => SessionConfined
    BY DEF Init, SessionConfined
  <1> QED BY <1>1, SessionConfinedInductive, TypeCorrect, PTL DEF Spec

-----------------------------------------------------------------------------
(* Acknowledgements.  AcksFollowWrites speaks of the descriptor of a topic it   *)
(* does not know to be registered; the strengthening says that it is, and        *)
(* carries over from state to state as log and topics grow.                       *)

\* The i-th event of the queue q of client c acknowledges a write of c's that is
\* queued before it, when "accepted" is the log and "known" are the topics.
Acknowledges(c, q, i, accepted, known) ==
    /\ q[i].seq \in DOMAIN accepted /\ accepted[q[i].seq].writer = c
    /\ q[i].path \in DOMAIN known /\ known[q[i].path].desc.kind = "Command"
    /\ \E j \in 1 .. i - 1 : q[j] = [q[i] EXCEPT !.kind = "LiveCommand"]

AcksInOrder ==
    \A c \in DOMAIN clients : \A i \in DOMAIN clients[c] :
        clients[c][i].kind = "LiveCommandAck" => Acknowledges(c, clients[c], i, log, topics)

\* What no operation but a new session changes of the log and the topics.
Grown ==
    /\ DOMAIN log \subseteq DOMAIN log'
    /\ \A n \in DOMAIN log : log'[n].writer = log[n].writer
    /\ DOMAIN topics \subseteq DOMAIN topics'
    /\ \A p \in DOMAIN topics : topics'[p].desc = topics[p].desc

\* Registrations, leases, writes and time keep log entries' writers and topics'
\* descriptors.
LEMMA OperationsGrow ==
    ASSUME TypeOK, [Next]_vars, ~BeginNewSession
    PROVE  Grown
  <1>0. log \in Seq(LogEntry) /\ DOMAIN log = 1 .. Len(log) /\ Len(log) \in Nat
    BY DEF TypeOK, LogEntry
  <1>1. ASSUME NEW p, NEW d, RegisterTopic(p, d) PROVE Grown
    BY <1>1 DEF RegisterTopic, Grown
  <1>2. ASSUME NEW p \in Paths, NEW c \in Clients, AcquireLease(p, c) PROVE Grown
    BY <1>2 DEF AcquireLease, Grown, TypeOK, TopicRuntime
  <1>3. ASSUME NEW p \in Paths, NEW c \in Clients, ReleaseLease(p, c) PROVE Grown
    <2>1. \A p1 \in DOMAIN topics : topics'[p1].desc = topics[p1].desc
      BY <1>3 DEF ReleaseLease, TypeOK, TopicRuntime
    <2>2. ASSUME NEW n \in DOMAIN log PROVE log'[n].writer = log[n].writer
      <3>1. log[n] \in LogEntry
        BY <1>0
      <3> QED BY <1>3, <3>1 DEF ReleaseLease, LogEntry
    <2> QED BY <1>3, <2>1, <2>2 DEF ReleaseLease, Grown, TypeOK
  <1>4. ASSUME NEW w \in Writers, NEW p \in Paths, NEW v \in Values, Accept(w, p, v) PROVE Grown
    <2>1. DOMAIN log \subseteq DOMAIN log' /\ \A n \in DOMAIN log : log'[n] = log[n]
      BY <1>0, <1>4 DEF Accept
    <2>2. /\ topics' = [topics EXCEPT ![p] = Written(w, p, v)]
          /\ Written(w, p, v).desc = topics[p].desc
      BY <1>4 DEF Accept, Written
    <2> QED BY <2>1, <2>2 DEF Grown, TypeOK
  <1>5. CASE Tick
    BY <1>5 DEF Tick, Grown, TypeOK, TopicRuntime
  <1>6. CASE UNCHANGED <<topics, log>>
    BY <1>6 DEF Grown
  <1> QED
    BY <1>1, <1>2, <1>3, <1>4, <1>5, <1>6
       DEF Next, Publish, Reject, ConnectClient, DisconnectClient, DrainClientEvents, vars

\* An acknowledgement stays in order while its queue only gets longer.
LEMMA AckStays ==
    ASSUME TypeOK, Grown, NEW c, NEW q \in Seq(UpdateEnvelope), NEW r \in Seq(UpdateEnvelope),
           NEW i \in DOMAIN q, Acknowledges(c, q, i, log, topics),
           \A j \in DOMAIN q : j \in DOMAIN r /\ r[j] = q[j]
    PROVE  Acknowledges(c, r, i, log', topics')
  <1>1. PICK j \in 1 .. i - 1 : q[j] = [q[i] EXCEPT !.kind = "LiveCommand"]
    BY DEF Acknowledges
  <1>2. j \in DOMAIN q /\ r[j] = q[j] /\ r[i] = q[i]
    BY <1>1
  <1> QED BY <1>1, <1>2 DEF Acknowledges, Grown

\* Every operation keeps the acknowledgements behind the writes they answer.
LEMMA AcksInductive == TypeOK /\ AcksInOrder /\ [Next]_vars => AcksInOrder'
  <1> SUFFICES ASSUME TypeOK, AcksInOrder, [Next]_vars PROVE AcksInOrder'
    OBVIOUS
  <1>1. CASE BeginNewSession
    BY <1>1 DEF BeginNewSession, AcksInOrder
  <1>2. CASE ~BeginNewSession
    <2>1. Grown
      BY <1>2, OperationsGrow
    <2>2. ASSUME NEW c \in DOMAIN clients, NEW r \in Seq(UpdateEnvelope),
                 \A j \in DOMAIN clients[c] : j \in DOMAIN r /\ r[j] = clients[c][j],
                 NEW i \in DOMAIN clients[c], r[i].kind = "LiveCommandAck"
          PROVE  Acknowledges(c, r, i, log', topics')
      <3>1. Acknowledges(c, clients[c], i, log, topics) /\ clients[c] \in Seq(UpdateEnvelope)
        BY <2>2 DEF AcksInOrder, TypeOK
      <3> QED BY <2>1, <2>2, <3>1, AckStays
    <2>3. ASSUME NEW c \in Clients, ConnectClient(c) PROVE AcksInOrder'
      BY <2>2, <2>3 DEF ConnectClient, AcksInOrder, TypeOK
    <2>4. ASSUME NEW c \in Clients, DisconnectClient(c) PROVE AcksInOrder'
      BY <2>2, <2>4 DEF DisconnectClient, AcksInOrder, TypeOK
    <2>5. ASSUME NEW c \in Clients, DrainClientEvents(c) PROVE AcksInOrder'
      BY <2>2, <2>5 DEF DrainClientEvents, AcksInOrder, TypeOK
    <2>6. ASSUME NEW w \in Writers, NEW p \in Paths, NEW v \in Values, Accept(w, p, v)
          PROVE  AcksInOrder'
      <3> DEFINE t == Written(w, p, v)
                 e == BuildEnvelope(p, t, DetermineLiveDeliveryKind(t.desc.kind), nextSeq)
                 d(k) == Delivered(k, w, e, t.desc.kind)
      <3>1. /\ e \in UpdateEnvelope /\ IsLive(e) /\ e.seq = nextSeq /\ e.path = p
            /\ p \in DOMAIN topics
        BY <2>6, AcceptedEvent DEF Accept
      <3>2. /\ clients' = [k \in DOMAIN clients |-> clients[k] \o d(k)]
            /\ topics' = [topics EXCEPT ![p] = t] /\ t.desc = topics[p].desc
            /\ log' = Append(log, [path |-> p, value |-> v, writer |-> w, open |-> TRUE])
        BY <2>6 DEF Accept, Written
      <3>3. t.desc.kind = "Command" => e.kind = "LiveCommand"
        BY DEF BuildEnvelope, DetermineLiveDeliveryKind
      <3>4. nextSeq \in DOMAIN log' /\ log'[nextSeq].writer = w
        BY <3>2 DEF TypeOK
      <3>5. p \in DOMAIN topics' /\ topics'[p].desc = t.desc
        BY <3>1, <3>2 DEF TypeOK
      <3> HIDE DEF t, e
      <3>6. ASSUME NEW k \in DOMAIN clients, NEW i \in DOMAIN clients'[k],
                   clients'[k][i].kind = "LiveCommandAck"
            PROVE  Acknowledges(k, clients'[k], i, log', topics')
        <4>1. /\ d(k) \in Seq(UpdateEnvelope)
              /\ Len(d(k)) \in 1 .. 2
              /\ d(k)[1] = e
              /\ Len(d(k)) = 2 =>
                    /\ d(k)[2] = [e EXCEPT !.kind = "LiveCommandAck"]
                    /\ k = w /\ t.desc.kind = "Command"
          <5>1. /\ d(k) \in Seq(UpdateEnvelope) /\ Len(d(k)) \in 1 .. 2 /\ d(k)[1] = e
            BY <3>1, DeliveredShape
          <5> QED BY <5>1 DEF Delivered
        <4> HIDE DEF d
        <4>2. clients'[k] = clients[k] \o d(k) /\ clients[k] \in Seq(UpdateEnvelope)
          BY <3>2 DEF TypeOK
        <4>3. CASE i \in DOMAIN clients[k]
          <5>1. clients'[k] \in Seq(UpdateEnvelope)
                /\ \A j \in DOMAIN clients[k] : j \in DOMAIN clients'[k] /\ clients'[k][j] = clients[k][j]
            BY <4>1, <4>2
          <5> QED BY <2>2, <3>6, <4>3, <5>1
        <4>4. CASE i \notin DOMAIN clients[k]
          <5>1. e.kind # "LiveCommandAck"
            BY <3>1 DEF IsLive, LiveKinds
          <5>2. i = Len(clients[k]) + 1 \/ (i = Len(clients[k]) + 2 /\ Len(d(k)) = 2)
            BY <4>1, <4>2, <4>4
          <5>3. clients'[k][Len(clients[k]) + 1] = e
            BY <4>1, <4>2
          <5>4. i = Len(clients[k]) + 2 /\ Len(d(k)) = 2
            BY <3>6, <5>1, <5>2, <5>3
          <5>5. clients'[k][i] = [e EXCEPT !.kind = "LiveCommandAck"]
            BY <4>1, <4>2, <5>4
          <5>6. e = [clients'[k][i] EXCEPT !.kind = "LiveCommand"]
            BY <3>1, <3>3, <4>1, <5>4, <5>5 DEF UpdateEnvelope
          <5>7. Len(clients[k]) + 1 \in 1 .. i - 1
            BY <4>2, <5>4
          <5>8. clients'[k][i].seq = nextSeq /\ clients'[k][i].path = p
            BY <3>1, <5>5 DEF UpdateEnvelope
          <5> QED BY <3>4, <3>5, <4>1, <5>3, <5>4, <5>6, <5>7, <5>8 DEF Acknowledges
        <4> QED BY <4>3, <4>4
      <3> QED BY <3>2, <3>6 DEF AcksInOrder
    <2>7. ASSUME NEW w \in Writers, NEW p \in Paths, NEW v \in Values, Reject(w, p, v)
          PROVE  AcksInOrder'
      <3> DEFINE e == RejectEvent(w, p, v, WriteRejectReason(w, p, v))
      <3>1. w \in Clients /\ e \in UpdateEnvelope /\ e.kind = "LiveCommandReject"
        BY <2>7, RejectEventType DEF Reject, TypeOK, RejectEvent, BuildEnvelope
      <3>2. clients' = [clients EXCEPT ![w] = Append(clients[w], e)] /\ w \in DOMAIN clients
        BY <2>7 DEF Reject
      <3> HIDE DEF e
      <3>3. ASSUME NEW k \in DOMAIN clients, NEW i \in DOMAIN clients'[k],
                   clients'[k][i].kind = "LiveCommandAck"
            PROVE  Acknowledges(k, clients'[k], i, log', topics')
        <4>1. clients[k] \in Seq(UpdateEnvelope) /\ clients[w] \in Seq(UpdateEnvelope)
          BY <3>2 DEF TypeOK
        <4>2. i \in DOMAIN clients[k]
          BY <3>1, <3>2, <3>3, <4>1 DEF TypeOK
        <4>3. clients'[k] \in Seq(UpdateEnvelope)
              /\ \A j \in DOMAIN clients[k] : j \in DOMAIN clients'[k] /\ clients'[k][j] = clients[k][j]
          BY <3>1, <3>2, <4>1
        <4> QED BY <2>2, <3>3, <4>2, <4>3
      <3> QED BY <3>2, <3>3 DEF AcksInOrder, TypeOK
    <2>8. CASE UNCHANGED clients
      BY <2>2, <2>8 DEF AcksInOrder, TypeOK
    <2> QED
      BY <1>2, <2>3, <2>4, <2>5, <2>6, <2>7, <2>8
         DEF Next, Publish, RegisterTopic, AcquireLease, ReleaseLease, Tick, vars
  <1> QED BY <1>1, <1>2

\* An acknowledgement reaches the client whose write was accepted, and nobody else,
\* behind the live event of that write.
THEOREM AcknowledgementsFollow == Spec => []AcksFollowWrites
  <1>1. Init => AcksInOrder
    BY DEF Init, AcksInOrder
  <1>2. AcksInOrder => AcksFollowWrites
    BY DEF AcksInOrder, AcksFollowWrites, Acknowledges
  <1> QED BY <1>1, <1>2, AcksInductive, TypeCorrect, PTL DEF Spec

-----------------------------------------------------------------------------
(* Convergence.  What a client will hold depends on its snapshot only where its *)
(* queue says nothing: the invariant says of the queues that the last write they *)
(* hold to a topic is its latest, and of the snapshots that they are current for  *)
(* every topic no queued write touches.                                            *)

\* Where the queue q holds writes to p, and that the last of them wrote v.
LiveHits(q, p) == {i \in DOMAIN q : IsLive(q[i]) /\ q[i].path = p}
EndsAt(q, p, v) ==
    \E i \in LiveHits(q, p) : q[i].value = v /\ \A j \in LiveHits(q, p) : j <= i

QueuesEndAtLatest ==
    \A c \in DOMAIN clients : \A p \in Paths : LiveHits(clients[c], p) # {} =>
        p \in DOMAIN topics /\ EndsAt(clients[c], p, topics[p].latest)

SnapshotCurrent(c, p) == p \in DOMAIN mirror[c] /\ mirror[c][p].value = topics[p].latest

SnapshotsCurrent ==
    \A c \in DOMAIN clients : joined[c] = sessionId =>
        \A p \in Replayed : LiveHits(clients[c], p) = {} => SnapshotCurrent(c, p)

JoinedBefore == DOMAIN mirror = Clients /\ \A c \in Clients : joined[c] <= sessionId

ConvergenceInv == QueuesEndAtLatest /\ SnapshotsCurrent /\ JoinedBefore

\* Applying a queue leaves the last write it holds to a topic, or what was there.
LEMMA AppliedValue ==
    ASSUME NEW held, NEW q \in Seq(UpdateEnvelope), NEW p, NEW v,
           \/ EndsAt(q, p, v)
           \/ LiveHits(q, p) = {} /\ p \in DOMAIN held /\ held[p].value = v
    PROVE  p \in DOMAIN Applied(held, q) /\ Applied(held, q)[p].value = v
  <1> DEFINE touched == {q[i].path : i \in {j \in DOMAIN q : IsLive(q[j])}}
             last(r) == q[CHOOSE i \in LiveHits(q, r) : \A j \in LiveHits(q, r) : j <= i]
             result == [r \in DOMAIN held \cup touched |->
                          IF LiveHits(q, r) = {} THEN held[r]
                          ELSE [value |-> last(r).value, stale |-> last(r).stale]]
  <1>1. Applied(held, q) = result
    BY DEF Applied, LiveHits
  <1>2. CASE LiveHits(q, p) = {} /\ p \in DOMAIN held /\ held[p].value = v
    BY <1>1, <1>2
  <1>3. CASE EndsAt(q, p, v)
    <2>1. PICK i \in LiveHits(q, p) : q[i].value = v /\ \A j \in LiveHits(q, p) : j <= i
      BY <1>3 DEF EndsAt
    <2>2. \A k \in LiveHits(q, p) : k \in Nat
      BY DEF LiveHits
    <2>3. i = CHOOSE k \in LiveHits(q, p) : \A j \in LiveHits(q, p) : j <= k
      <3>1. \A k \in LiveHits(q, p) : (\A j \in LiveHits(q, p) : j <= k) => k = i
        BY <2>1, <2>2
      <3> QED BY <2>1, <3>1
    <2>4. last(p).value = v
      BY <2>1, <2>3
    <2>5. p \in touched
      BY <2>1 DEF LiveHits
    <2> HIDE DEF last, touched
    <2> QED BY <1>1, <2>1, <2>4, <2>5
  <1> QED BY <1>2, <1>3

\* A refusal adds no write to a queue.
LEMMA HitsBesideReject ==
    ASSUME NEW q \in Seq(UpdateEnvelope), NEW e \in UpdateEnvelope, ~IsLive(e), NEW p
    PROVE  /\ LiveHits(Append(q, e), p) = LiveHits(q, p)
           /\ \A i \in LiveHits(q, p) : Append(q, e)[i] = q[i]
  <1>1. /\ DOMAIN Append(q, e) = 1 .. Len(q) + 1
        /\ DOMAIN q = 1 .. Len(q) /\ Len(q) \in Nat
        /\ \A i \in 1 .. Len(q) : Append(q, e)[i] = q[i]
        /\ Append(q, e)[Len(q) + 1] = e
    OBVIOUS
  <1> QED BY <1>1 DEF LiveHits

\* An accepted write adds one, behind those that are there.
LEMMA HitsAccepted ==
    ASSUME NEW q \in Seq(UpdateEnvelope), NEW d \in Seq(UpdateEnvelope), Len(d) \in 1 .. 2,
           IsLive(d[1]), Len(d) = 2 => ~IsLive(d[2]), NEW p
    PROVE  /\ \A i \in DOMAIN q : (q \o d)[i] = q[i]
           /\ (q \o d)[Len(q) + 1] = d[1]
           /\ LiveHits(q \o d, p) = IF d[1].path = p THEN LiveHits(q, p) \cup {Len(q) + 1}
                                    ELSE LiveHits(q, p)
  <1> DEFINE r == q \o d
  <1>1. /\ DOMAIN r = 1 .. Len(q) + Len(d)
        /\ DOMAIN q = 1 .. Len(q) /\ Len(q) \in Nat
        /\ \A i \in 1 .. Len(q) : r[i] = q[i]
        /\ r[Len(q) + 1] = d[1]
        /\ Len(d) = 2 => r[Len(q) + 2] = d[2]
    OBVIOUS
  <1> HIDE DEF r
  <1>2. Len(d) = 1 \/ (Len(d) = 2 /\ ~IsLive(r[Len(q) + 2]))
    BY <1>1
  <1>3. \A i \in DOMAIN r : i \in DOMAIN q \/ i = Len(q) + 1 \/ (Len(d) = 2 /\ i = Len(q) + 2)
    <2>1. CASE Len(d) = 1
      BY <1>1, <2>1
    <2>2. CASE Len(d) = 2
      BY <1>1, <2>2
    <2> QED BY <1>2, <2>1, <2>2
  <1>4. Len(q) + 1 \in DOMAIN r /\ DOMAIN q \subseteq DOMAIN r
    BY <1>1, <1>2
  <1>5. \A i \in DOMAIN r : IsLive(r[i]) => i \in DOMAIN q \/ i = Len(q) + 1
    BY <1>2, <1>3
  <1>6. ASSUME NEW i \in LiveHits(r, p)
        PROVE  i \in IF d[1].path = p THEN LiveHits(q, p) \cup {Len(q) + 1} ELSE LiveHits(q, p)
    BY <1>1, <1>5 DEF LiveHits
  <1>7. ASSUME NEW i \in IF d[1].path = p THEN LiveHits(q, p) \cup {Len(q) + 1} ELSE LiveHits(q, p)
        PROVE  i \in LiveHits(r, p)
    BY <1>1, <1>4 DEF LiveHits
  <1>8. LiveHits(r, p) = IF d[1].path = p THEN LiveHits(q, p) \cup {Len(q) + 1}
                         ELSE LiveHits(q, p)
    BY <1>6, <1>7
  <1>9. \A i \in DOMAIN q : r[i] = q[i]
    BY <1>1
  <1> QED BY <1>1, <1>8, <1>9 DEF r

\* After an accepted write every queue ends at it, and as it did elsewhere.
LEMMA EndsAtAccepted ==
    ASSUME NEW q \in Seq(UpdateEnvelope), NEW d \in Seq(UpdateEnvelope), Len(d) \in 1 .. 2,
           IsLive(d[1]), Len(d) = 2 => ~IsLive(d[2]), NEW p
    PROVE  /\ d[1].path = p => EndsAt(q \o d, p, d[1].value)
           /\ d[1].path # p => \A v : EndsAt(q, p, v) => EndsAt(q \o d, p, v)
  <1>1. /\ \A i \in DOMAIN q : (q \o d)[i] = q[i]
        /\ (q \o d)[Len(q) + 1] = d[1]
        /\ LiveHits(q \o d, p) = IF d[1].path = p THEN LiveHits(q, p) \cup {Len(q) + 1}
                                 ELSE LiveHits(q, p)
    BY HitsAccepted
  <1>2. \A i \in LiveHits(q, p) : i \in DOMAIN q /\ i <= Len(q) + 1
    BY DEF LiveHits
  <1>3. Len(q) + 1 <= Len(q) + 1
    OBVIOUS
  <1> QED BY <1>1, <1>2, <1>3 DEF EndsAt

\* No operation changes the latest value of a topic but an accepted write, and what
\* is replayed stays so.
LEMMA LatestKept ==
    ASSUME TypeOK, [Next]_vars,
           \A w \in Writers, p \in Paths, v \in Values : ~Accept(w, p, v)
    PROVE  /\ \A p \in DOMAIN topics : p \in DOMAIN topics' /\ topics'[p].latest = topics[p].latest
           /\ Replayed' = Replayed
  <1>1. ASSUME NEW p, NEW d, RegisterTopic(p, d)
        PROVE  /\ \A q \in DOMAIN topics : q \in DOMAIN topics' /\ topics'[q].latest = topics[q].latest
               /\ Replayed' = Replayed
    <2>1. /\ p \notin DOMAIN topics /\ DOMAIN topics' = DOMAIN topics \cup {p}
          /\ \A q \in DOMAIN topics : topics'[q] = topics[q]
          /\ topics'[p].latest = NoValue
      BY <1>1 DEF RegisterTopic
    <2>2. ASSUME NEW q PROVE q \in Replayed' <=> q \in Replayed
      BY <2>1 DEF Replayed
    <2> QED BY <2>1, <2>2
  <1>2. CASE /\ DOMAIN topics' = DOMAIN topics
             /\ \A p \in DOMAIN topics : topics'[p].latest = topics[p].latest
                                         /\ topics'[p].desc = topics[p].desc
    BY <1>2 DEF Replayed
  <1>3. ASSUME NEW p \in Paths, NEW c \in Clients, AcquireLease(p, c) \/ ReleaseLease(p, c)
        PROVE  /\ DOMAIN topics' = DOMAIN topics
               /\ \A q \in DOMAIN topics : topics'[q].latest = topics[q].latest
                                           /\ topics'[q].desc = topics[q].desc
    <2>1. PICK holder : topics' = [topics EXCEPT ![p] = [topics[p] EXCEPT !.lease = holder]]
      BY <1>3 DEF AcquireLease, ReleaseLease
    <2> QED BY <2>1 DEF TypeOK, TopicRuntime
  <1>4. ASSUME BeginNewSession \/ Tick
        PROVE  /\ DOMAIN topics' = DOMAIN topics
               /\ \A q \in DOMAIN topics : topics'[q].latest = topics[q].latest
                                           /\ topics'[q].desc = topics[q].desc
    BY <1>4 DEF BeginNewSession, Tick, TypeOK, TopicRuntime
  <1>5. CASE UNCHANGED topics
    BY <1>5 DEF Replayed
  <1> QED
    BY <1>1, <1>2, <1>3, <1>4, <1>5
       DEF Next, Publish, Reject, ConnectClient, DisconnectClient, DrainClientEvents, vars

\* Every operation keeps queues and snapshots current: the snapshot a client takes
\* is, each accepted write reaches every queue, and what a drain applies was current.
LEMMA ConvergenceInductive == TypeOK /\ ConvergenceInv /\ [Next]_vars => ConvergenceInv'
  <1> SUFFICES ASSUME TypeOK, ConvergenceInv, [Next]_vars PROVE ConvergenceInv'
    OBVIOUS
  <1> USE DEF ConvergenceInv
  <1>0. \A c \in DOMAIN clients : c \in Clients /\ clients[c] \in Seq(UpdateEnvelope)
    BY DEF TypeOK
  <1>a. LiveHits(<<>>, 0) = {} /\ \A p : LiveHits(<<>>, p) = {}
    BY DEF LiveHits
  <1>1. ASSUME NEW w \in Writers, NEW p \in Paths, NEW v \in Values, Accept(w, p, v)
        PROVE  ConvergenceInv'
    <2> DEFINE t == Written(w, p, v)
               e == BuildEnvelope(p, t, DetermineLiveDeliveryKind(t.desc.kind), nextSeq)
               d(k) == Delivered(k, w, e, t.desc.kind)
    <2>1. /\ e \in UpdateEnvelope /\ IsLive(e) /\ e.path = p /\ e.value = v
          /\ p \in DOMAIN topics
      BY <1>1, AcceptedEvent DEF Accept
    <2>2. /\ clients' = [k \in DOMAIN clients |-> clients[k] \o d(k)]
          /\ topics' = [topics EXCEPT ![p] = t] /\ t.desc = topics[p].desc /\ t.latest = v
          /\ UNCHANGED <<sessionId, joined, mirror>>
      BY <1>1 DEF Accept, Written
    <2> HIDE DEF t, e
    <2>3. ASSUME NEW k \in DOMAIN clients
          PROVE  /\ d(k) \in Seq(UpdateEnvelope) /\ Len(d(k)) \in 1 .. 2
                 /\ d(k)[1] = e
                 /\ Len(d(k)) = 2 => ~IsLive(d(k)[2])
      BY <2>1, DeliveredShape
    <2> HIDE DEF d
    <2>4. ASSUME NEW k \in DOMAIN clients, NEW q \in Paths
          PROVE  /\ q = p => EndsAt(clients'[k], q, v) /\ LiveHits(clients'[k], q) # {}
                 /\ q # p => /\ LiveHits(clients'[k], q) = LiveHits(clients[k], q)
                             /\ \A u : EndsAt(clients[k], q, u) => EndsAt(clients'[k], q, u)
      <3>1. clients'[k] = clients[k] \o d(k) /\ clients[k] \in Seq(UpdateEnvelope)
        BY <1>0, <2>2
      <3>2. /\ q = p => EndsAt(clients'[k], q, v)
            /\ q # p => \A u : EndsAt(clients[k], q, u) => EndsAt(clients'[k], q, u)
        BY <2>1, <2>3, <3>1, EndsAtAccepted
      <3>3. LiveHits(clients'[k], q) = IF p = q THEN LiveHits(clients[k], q) \cup {Len(clients[k]) + 1}
                                       ELSE LiveHits(clients[k], q)
        BY <2>1, <2>3, <3>1, HitsAccepted
      <3> QED BY <3>2, <3>3
    <2>5. /\ DOMAIN topics' = DOMAIN topics /\ topics'[p].latest = v
          /\ \A q \in DOMAIN topics : topics'[q].desc = topics[q].desc
          /\ \A q \in DOMAIN topics : q # p => topics'[q] = topics[q]
      BY <2>1, <2>2 DEF TypeOK
    <2>6. QueuesEndAtLatest'
      <3>1. ASSUME NEW k \in DOMAIN clients, NEW q \in Paths, LiveHits(clients'[k], q) # {}
            PROVE  q \in DOMAIN topics' /\ EndsAt(clients'[k], q, topics'[q].latest)
        <4>1. CASE q = p
          BY <2>1, <2>4, <2>5, <4>1
        <4>2. CASE q # p
          BY <2>4, <2>5, <3>1, <4>2 DEF QueuesEndAtLatest
        <4> QED BY <4>1, <4>2
      <3>2. DOMAIN clients' = DOMAIN clients
        BY <2>2
      <3> QED BY <3>1, <3>2 DEF QueuesEndAtLatest
    <2>7. SnapshotsCurrent'
      <3> SUFFICES ASSUME NEW k \in DOMAIN clients, joined[k] = sessionId,
                          NEW q \in Replayed', LiveHits(clients'[k], q) = {}
                   PROVE  q \in DOMAIN mirror[k] /\ mirror[k][q].value = topics'[q].latest
        BY <2>2 DEF SnapshotsCurrent, SnapshotCurrent
      <3>1. q \in DOMAIN topics /\ q \in Paths
        BY <2>5 DEF Replayed, TypeOK
      <3>2. q # p /\ LiveHits(clients[k], q) = {}
        BY <2>4, <3>1
      <3>3. q \in Replayed
        BY <2>5, <3>1, <3>2 DEF Replayed
      <3> QED BY <2>5, <3>1, <3>2, <3>3 DEF SnapshotsCurrent, SnapshotCurrent
    <2> QED BY <2>2, <2>6, <2>7 DEF JoinedBefore
  <1>2. CASE BeginNewSession
    <2>1. QueuesEndAtLatest'
      BY <1>2, <1>a DEF BeginNewSession, QueuesEndAtLatest
    <2>2. \A c \in Clients : joined'[c] < sessionId' /\ joined'[c] \in Nat /\ sessionId' \in Nat
      BY <1>2 DEF BeginNewSession, JoinedBefore, TypeOK
    <2>3. SnapshotsCurrent'
      BY <1>2, <2>2 DEF BeginNewSession, SnapshotsCurrent, TypeOK
    <2> QED BY <1>2, <2>1, <2>2, <2>3 DEF BeginNewSession, JoinedBefore
  <1>3. ASSUME ~BeginNewSession, \A w \in Writers, p \in Paths, v \in Values : ~Accept(w, p, v)
        PROVE  ConvergenceInv'
    <2>1. /\ \A p \in DOMAIN topics : p \in DOMAIN topics' /\ topics'[p].latest = topics[p].latest
          /\ Replayed' = Replayed /\ Replayed \subseteq DOMAIN topics
      BY <1>3, LatestKept DEF Replayed
    <2>2. ASSUME NEW c \in Clients, ConnectClient(c) PROVE ConvergenceInv'
      <3>1. /\ DOMAIN clients' = DOMAIN clients \cup {c}
            /\ \A k \in DOMAIN clients' :
                  clients'[k] = IF k \in DOMAIN clients THEN clients[k] ELSE <<>>
            /\ joined' = [joined EXCEPT ![c] = sessionId] /\ UNCHANGED <<topics, sessionId>>
            /\ mirror' = [mirror EXCEPT ![c] = BuildSnapshotForClient]
        BY <2>2 DEF ConnectClient
      <3>2. QueuesEndAtLatest'
        BY <1>a, <2>1, <3>1 DEF QueuesEndAtLatest
      <3>3. JoinedBefore'
        BY <3>1 DEF JoinedBefore, TypeOK
      <3>4. ASSUME NEW k \in DOMAIN clients', joined'[k] = sessionId', NEW p \in Replayed',
                   LiveHits(clients'[k], p) = {}
            PROVE  SnapshotCurrent(k, p)'
        <4>1. CASE k = c
          <5>1. mirror'[c] = BuildSnapshotForClient
            BY <3>1 DEF JoinedBefore
          <5> QED BY <2>1, <3>1, <3>4, <4>1, <5>1 DEF SnapshotCurrent, BuildSnapshotForClient
        <4>2. CASE k # c
          <5>1. k \in DOMAIN clients /\ joined[k] = sessionId /\ mirror'[k] = mirror[k]
            BY <1>0, <3>1, <3>4, <4>2 DEF JoinedBefore, TypeOK
          <5> QED BY <2>1, <3>1, <3>4, <4>2, <5>1 DEF SnapshotCurrent, SnapshotsCurrent
        <4> QED BY <4>1, <4>2
      <3>5. SnapshotsCurrent'
        BY <3>4 DEF SnapshotsCurrent
      <3> QED BY <3>2, <3>3, <3>5
    <2>3. ASSUME NEW c \in Clients, DisconnectClient(c) PROVE ConvergenceInv'
      BY <2>1, <2>3 DEF DisconnectClient, QueuesEndAtLatest, SnapshotsCurrent, SnapshotCurrent,
                        JoinedBefore
    <2>4. ASSUME NEW c \in Clients, DrainClientEvents(c) PROVE ConvergenceInv'
      <3>1. /\ DOMAIN clients' = DOMAIN clients /\ c \in DOMAIN clients
            /\ clients'[c] = <<>> /\ \A k \in DOMAIN clients : k # c => clients'[k] = clients[k]
            /\ UNCHANGED <<topics, sessionId, joined>>
            /\ mirror' = [mirror EXCEPT ![c] = Applied(mirror[c], clients[c])]
        BY <2>4 DEF DrainClientEvents, TypeOK
      <3>2. QueuesEndAtLatest'
        BY <1>a, <3>1 DEF QueuesEndAtLatest
      <3>3. JoinedBefore'
        BY <3>1 DEF JoinedBefore
      <3>4. ASSUME NEW k \in DOMAIN clients, joined[k] = sessionId, NEW p \in Replayed,
                   LiveHits(clients'[k], p) = {}
            PROVE  SnapshotCurrent(k, p)'
        <4>1. CASE k = c
          <5>1. mirror'[c] = Applied(mirror[c], clients[c])
            BY <3>1 DEF JoinedBefore
          <5>2. p \in Paths
            BY <2>1 DEF TypeOK
          <5>3. \/ EndsAt(clients[c], p, topics[p].latest)
                \/ LiveHits(clients[c], p) = {} /\ p \in DOMAIN mirror[c]
                   /\ mirror[c][p].value = topics[p].latest
            BY <3>1, <3>4, <4>1, <5>2 DEF QueuesEndAtLatest, SnapshotsCurrent, SnapshotCurrent
          <5> HIDE DEF ConvergenceInv
          <5>4. clients[c] \in Seq(UpdateEnvelope)
            BY <1>0, <3>1
          <5>5. /\ p \in DOMAIN Applied(mirror[c], clients[c])
                /\ Applied(mirror[c], clients[c])[p].value = topics[p].latest
            BY <5>3, <5>4, AppliedValue
          <5> QED BY <3>1, <4>1, <5>1, <5>5 DEF SnapshotCurrent
        <4>2. CASE k # c
          BY <3>1, <3>4, <4>2 DEF SnapshotsCurrent, SnapshotCurrent, JoinedBefore
        <4> QED BY <4>1, <4>2
      <3>5. SnapshotsCurrent'
        BY <2>1, <3>1, <3>4 DEF SnapshotsCurrent
      <3> QED BY <3>2, <3>3, <3>5
    <2>5. ASSUME NEW w \in Writers, NEW p \in Paths, NEW v \in Values, Reject(w, p, v)
          PROVE  ConvergenceInv'
      <3> DEFINE e == RejectEvent(w, p, v, WriteRejectReason(w, p, v))
      <3>1. w \in DOMAIN clients /\ e \in UpdateEnvelope /\ ~IsLive(e)
        BY <2>5, RejectEventType DEF Reject, TypeOK
      <3>2. /\ clients' = [clients EXCEPT ![w] = Append(clients[w], e)]
            /\ UNCHANGED <<topics, sessionId, joined, mirror>>
        BY <2>5 DEF Reject
      <3> HIDE DEF e
      <3>3. ASSUME NEW k \in DOMAIN clients, NEW q
            PROVE  /\ LiveHits(clients'[k], q) = LiveHits(clients[k], q)
                   /\ \A i \in LiveHits(clients[k], q) : clients'[k][i] = clients[k][i]
        <4>1. CASE k = w
          <5>1. clients'[k] = Append(clients[k], e) /\ clients[k] \in Seq(UpdateEnvelope)
            BY <1>0, <3>2, <4>1
          <5>2. /\ LiveHits(Append(clients[k], e), q) = LiveHits(clients[k], q)
                /\ \A i \in LiveHits(clients[k], q) : Append(clients[k], e)[i] = clients[k][i]
            BY <3>1, <5>1, HitsBesideReject
          <5> QED BY <5>1, <5>2
        <4>2. CASE k # w
          BY <3>2, <4>2
        <4> QED BY <4>1, <4>2
      <3>4. ASSUME NEW k \in DOMAIN clients, NEW q, NEW u, EndsAt(clients[k], q, u)
            PROVE  EndsAt(clients'[k], q, u)
        BY <3>3, <3>4 DEF EndsAt
      <3>5. DOMAIN clients' = DOMAIN clients
        BY <3>2
      <3>6. QueuesEndAtLatest'
        BY <3>2, <3>3, <3>4, <3>5 DEF QueuesEndAtLatest
      <3>7. SnapshotsCurrent'
        <4>1. ASSUME NEW k \in DOMAIN clients, joined[k] = sessionId, NEW q \in Replayed,
                     LiveHits(clients'[k], q) = {}
              PROVE  SnapshotCurrent(k, q)'
          <5>1. SnapshotCurrent(k, q)
            BY <3>3, <4>1 DEF SnapshotsCurrent
          <5> QED BY <3>2, <5>1 DEF SnapshotCurrent
        <4>2. Replayed' = Replayed /\ joined' = joined /\ sessionId' = sessionId
          BY <2>1, <3>2
        <4> HIDE DEF ConvergenceInv
        <4> QED BY <3>5, <4>1, <4>2 DEF SnapshotsCurrent
      <3> QED BY <3>2, <3>6, <3>7 DEF JoinedBefore
    <2>6. CASE UNCHANGED <<clients, sessionId, joined, mirror>>
      BY <2>1, <2>6 DEF QueuesEndAtLatest, SnapshotsCurrent, SnapshotCurrent, JoinedBefore
    <2> QED
      BY <1>3, <2>2, <2>3, <2>4, <2>5, <2>6
         DEF Next, Publish, RegisterTopic, AcquireLease, ReleaseLease, Tick, vars
  <1> QED BY <1>1, <1>2, <1>3

\* Whoever has its snapshot from this session and drains its queue holds the latest
\* value of every replayed topic, wherever its connection fell among the writes.
THEOREM ClientsConverge == Spec => []Converges
  <1>1. Init => ConvergenceInv
    BY DEF Init, ConvergenceInv, QueuesEndAtLatest, SnapshotsCurrent, JoinedBefore
  <1>2. TypeOK /\ ConvergenceInv => Converges
    <2> SUFFICES ASSUME TypeOK, ConvergenceInv, NEW c \in DOMAIN clients, joined[c] = sessionId,
                        NEW p \in Replayed
                 PROVE  /\ p \in DOMAIN Applied(mirror[c], clients[c])
                        /\ Applied(mirror[c], clients[c])[p].value = topics[p].latest
      BY DEF Converges
    <2>1. p \in Paths /\ clients[c] \in Seq(UpdateEnvelope)
      BY DEF Replayed, TypeOK
    <2>2. \/ EndsAt(clients[c], p, topics[p].latest)
          \/ LiveHits(clients[c], p) = {} /\ p \in DOMAIN mirror[c]
             /\ mirror[c][p].value = topics[p].latest
      BY <2>1 DEF ConvergenceInv, QueuesEndAtLatest, SnapshotsCurrent, SnapshotCurrent
    <2> QED BY <2>1, <2>2, AppliedValue
  <1> QED BY <1>1, <1>2, ConvergenceInductive, TypeCorrect, PTL DEF Spec

\* A set of positions that is not empty has a last one.
LEMMA LastPosition ==
    ASSUME NEW n \in Nat, NEW S, S \subseteq 1 .. n, S # {}
    PROVE  \E m \in S : \A i \in S : i <= m
  <1> DEFINE bounds == {k \in Nat : \A i \in S : i <= k}
  <1>1. n \in bounds /\ bounds \subseteq Nat
    OBVIOUS
  <1> HIDE DEF bounds
  <1>2. PICK m \in bounds : \A k \in bounds : ~(<<k, m>> \in OpToRel(<, Nat))
    BY <1>1, WFMin, NatLessThanWellFounded
  <1>3. \A k \in bounds : ~(k < m)
    BY <1>1, <1>2 DEF OpToRel
  <1>4. m \in Nat /\ \A i \in S : i <= m
    BY DEF bounds
  <1>5. m \in S
    <2> SUFFICES ASSUME m \notin S PROVE FALSE
      OBVIOUS
    <2>1. ASSUME NEW i \in S PROVE 1 <= i /\ i <= m - 1
      <3>1. i \in 1 .. n /\ i # m /\ i <= m
        BY <1>4
      <3> QED BY <1>4, <3>1
    <2>2. m - 1 \in Nat
      <3>1. PICK i \in S : i \in 1 .. n
        OBVIOUS
      <3> QED BY <1>4, <2>1, <3>1
    <2>3. m - 1 \in bounds
      BY <2>1, <2>2 DEF bounds
    <2> QED BY <1>3, <1>4, <2>3
  <1> QED BY <1>4, <1>5

-----------------------------------------------------------------------------
(* What a client takes up when it connects *)

\* Clients' pictures are functions of paths.
MirrorShape ==
    /\ mirror = [c \in Clients |-> mirror[c]]
    /\ \A c \in Clients : mirror[c] = [p \in DOMAIN mirror[c] |-> mirror[c][p]]

\* Snapshots and applied queues are functions of paths.
LEMMA MirrorInductive == MirrorShape /\ [Next]_vars => MirrorShape'
  <1> SUFFICES ASSUME MirrorShape, [Next]_vars PROVE MirrorShape'
    OBVIOUS
  <1>1. ASSUME NEW c \in Clients, NEW picture, mirror' = [mirror EXCEPT ![c] = picture],
               picture = [p \in DOMAIN picture |-> picture[p]]
        PROVE  MirrorShape'
    BY <1>1 DEF MirrorShape
  <1>2. ASSUME NEW c \in Clients, ConnectClient(c) PROVE MirrorShape'
    <2>1. BuildSnapshotForClient = [p \in DOMAIN BuildSnapshotForClient |-> BuildSnapshotForClient[p]]
      BY DEF BuildSnapshotForClient
    <2> QED BY <1>1, <1>2, <2>1 DEF ConnectClient
  <1>3. ASSUME NEW c \in Clients, DrainClientEvents(c) PROVE MirrorShape'
    <2> DEFINE picture == Applied(mirror[c], clients[c])
    <2>1. picture = [p \in DOMAIN picture |-> picture[p]]
      BY DEF Applied
    <2>2. mirror' = [mirror EXCEPT ![c] = picture]
      BY <1>3 DEF DrainClientEvents
    <2> HIDE DEF picture
    <2> QED BY <1>1, <2>1, <2>2
  <1>4. CASE UNCHANGED mirror
    BY <1>4 DEF MirrorShape
  <1> QED
    BY <1>2, <1>3, <1>4
       DEF Next, Publish, Accept, Reject, RegisterTopic, AcquireLease, ReleaseLease,
           DisconnectClient, BeginNewSession, Tick, vars

\* An empty queue changes nothing of a picture.
LEMMA AppliedNothing ==
    ASSUME NEW held, held = [p \in DOMAIN held |-> held[p]]
    PROVE  Applied(held, <<>>) = held
  BY DEF Applied

\* A client's picture changes outside its queue only when it connects, and what it
\* takes up then is state.
LEMMA CommandsNotReplayedStep ==
    ASSUME MirrorShape, [Next]_vars, NEW c \in Clients, mirror'[c] # mirror[c],
           ~(c \in DOMAIN clients /\ clients[c] # <<>> /\ clients'[c] = <<>>)
    PROVE  \A p \in DOMAIN mirror'[c] : topics[p].desc.kind = "State"
  <1>1. ASSUME NEW k \in Clients, ConnectClient(k)
        PROVE  \A p \in DOMAIN mirror'[c] : topics[p].desc.kind = "State"
    <2>1. mirror'[c] = BuildSnapshotForClient
      BY <1>1 DEF ConnectClient, MirrorShape
    <2> QED BY <2>1 DEF BuildSnapshotForClient, Replayed
  <1>2. ASSUME NEW k \in Clients, DrainClientEvents(k) PROVE FALSE
    <2>1. /\ k \in DOMAIN clients /\ clients' = [clients EXCEPT ![k] = <<>>]
          /\ mirror' = [mirror EXCEPT ![k] = Applied(mirror[k], clients[k])]
      BY <1>2 DEF DrainClientEvents
    <2>2. k = c
      BY <2>1 DEF MirrorShape
    <2>3. clients[c] = <<>>
      BY <2>1, <2>2
    <2>4. Applied(mirror[c], <<>>) = mirror[c]
      BY AppliedNothing DEF MirrorShape
    <2> QED BY <2>1, <2>2, <2>3, <2>4 DEF MirrorShape
  <1> QED
    BY <1>1, <1>2
       DEF Next, Publish, Accept, Reject, RegisterTopic, AcquireLease, ReleaseLease,
           DisconnectClient, BeginNewSession, Tick, vars

\* Reconnecting re-fires no command: outside its queue a client is given state only.
THEOREM ReconnectFiresNoCommand == Spec => CommandsNotReplayed
  <1>1. Init => MirrorShape
    BY DEF Init, MirrorShape
  <1>2. MirrorShape /\ [Next]_vars =>
          [\A c \in Clients :
             /\ mirror'[c] # mirror[c]
             /\ ~(c \in DOMAIN clients /\ clients[c] # <<>> /\ clients'[c] = <<>>)
             => \A p \in DOMAIN mirror'[c] : topics[p].desc.kind = "State"]_vars
    BY CommandsNotReplayedStep
  <1> QED BY <1>1, <1>2, MirrorInductive, PTL DEF Spec, CommandsNotReplayed

-----------------------------------------------------------------------------
(* The core implements the feed.  A subscriber's position there is computed from *)
(* what its queue holds; the lemma to have is that it equals the cursor.           *)

LiveIn(q) == {i \in DOMAIN q : IsLive(q[i])}

Measured(q, from, next) == IsFiniteSet(LiveIn(q)) /\ next - Cardinality(LiveIn(q)) = from

QueuesMeasured == \A c \in DOMAIN clients : Measured(clients[c], cursor[c], nextSeq)

\* An empty queue leaves nothing to read.
LEMMA MeasuredEmpty == ASSUME NEW n \in Nat PROVE Measured(<<>>, n, n)
  <1>1. LiveIn(<<>>) = {}
    BY DEF LiveIn
  <1> QED BY <1>1, FS_EmptySet DEF Measured

\* A refusal moves no position.
LEMMA MeasuredBesideReject ==
    ASSUME NEW q \in Seq(UpdateEnvelope), NEW e \in UpdateEnvelope, ~IsLive(e),
           NEW from, NEW next, Measured(q, from, next)
    PROVE  Measured(Append(q, e), from, next)
  <1>1. /\ DOMAIN Append(q, e) = 1 .. Len(q) + 1
        /\ DOMAIN q = 1 .. Len(q) /\ Len(q) \in Nat
        /\ \A i \in 1 .. Len(q) : Append(q, e)[i] = q[i]
        /\ Append(q, e)[Len(q) + 1] = e
    OBVIOUS
  <1>2. LiveIn(Append(q, e)) = LiveIn(q)
    BY <1>1 DEF LiveIn
  <1> QED BY <1>2 DEF Measured

\* An accepted write moves none either: it is one more to read, and one more in the log.
LEMMA MeasuredAccepted ==
    ASSUME NEW q \in Seq(UpdateEnvelope), NEW d \in Seq(UpdateEnvelope), Len(d) \in 1 .. 2,
           IsLive(d[1]), Len(d) = 2 => ~IsLive(d[2]),
           NEW from \in Nat, NEW next \in Nat, Measured(q, from, next)
    PROVE  Measured(q \o d, from, next + 1)
  <1> DEFINE r == q \o d
  <1>1. /\ DOMAIN r = 1 .. Len(q) + Len(d)
        /\ DOMAIN q = 1 .. Len(q) /\ Len(q) \in Nat
        /\ \A i \in 1 .. Len(q) : r[i] = q[i]
        /\ r[Len(q) + 1] = d[1]
        /\ Len(d) = 2 => r[Len(q) + 2] = d[2]
    OBVIOUS
  <1> HIDE DEF r
  <1>2. ASSUME NEW i PROVE i \in LiveIn(r) <=> i \in LiveIn(q) \cup {Len(q) + 1}
    <2>1. CASE Len(d) = 1
      BY <1>1, <2>1 DEF LiveIn
    <2>2. CASE Len(d) = 2
      BY <1>1, <2>2 DEF LiveIn
    <2> QED BY <2>1, <2>2
  <1>3. LiveIn(r) = LiveIn(q) \cup {Len(q) + 1}
    BY <1>2
  <1>4. Len(q) + 1 \notin LiveIn(q)
    BY <1>1 DEF LiveIn
  <1>5. IsFiniteSet(LiveIn(q)) /\ Cardinality(LiveIn(q)) \in Nat
    BY FS_CardinalityType DEF Measured
  <1>6. IsFiniteSet(LiveIn(r)) /\ Cardinality(LiveIn(r)) = Cardinality(LiveIn(q)) + 1
    BY <1>3, <1>4, <1>5, FS_AddElement
  <1> QED BY <1>5, <1>6 DEF Measured, r

\* Every operation keeps positions and cursors equal.
LEMMA MeasuredInductive == TypeOK /\ QueuesMeasured /\ [Next]_vars => QueuesMeasured'
  <1> SUFFICES ASSUME TypeOK, QueuesMeasured, [Next]_vars PROVE QueuesMeasured'
    OBVIOUS
  <1>0. /\ nextSeq \in Nat /\ cursor \in [Clients -> Nat]
        /\ \A c \in DOMAIN clients : c \in Clients /\ clients[c] \in Seq(UpdateEnvelope)
    BY DEF TypeOK
  <1>1. ASSUME NEW c \in Clients, ConnectClient(c) PROVE QueuesMeasured'
    BY <1>0, <1>1, MeasuredEmpty DEF ConnectClient, QueuesMeasured
  <1>2. ASSUME NEW c \in Clients, DisconnectClient(c) PROVE QueuesMeasured'
    BY <1>2 DEF DisconnectClient, QueuesMeasured
  <1>3. ASSUME NEW c \in Clients, DrainClientEvents(c) PROVE QueuesMeasured'
    BY <1>0, <1>3, MeasuredEmpty DEF DrainClientEvents, QueuesMeasured
  <1>4. ASSUME NEW w \in Writers, NEW p \in Paths, NEW v \in Values, Accept(w, p, v)
        PROVE  QueuesMeasured'
    <2> DEFINE t == Written(w, p, v)
               e == BuildEnvelope(p, t, DetermineLiveDeliveryKind(t.desc.kind), nextSeq)
               d(k) == Delivered(k, w, e, t.desc.kind)
    <2>1. e \in UpdateEnvelope /\ IsLive(e)
      BY <1>4, AcceptedEvent DEF Accept
    <2>2. /\ clients' = [k \in DOMAIN clients |-> clients[k] \o d(k)]
          /\ nextSeq' = nextSeq + 1 /\ cursor' = cursor
      BY <1>4 DEF Accept
    <2> HIDE DEF t, e
    <2>3. ASSUME NEW k \in DOMAIN clients PROVE Measured(clients[k] \o d(k), cursor[k], nextSeq + 1)
      <3>1. /\ d(k) \in Seq(UpdateEnvelope) /\ Len(d(k)) \in 1 .. 2
            /\ d(k)[1] = e
            /\ Len(d(k)) = 2 => ~IsLive(d(k)[2])
        BY <2>1, DeliveredShape
      <3> HIDE DEF d
      <3>2. Measured(clients[k], cursor[k], nextSeq) /\ cursor[k] \in Nat
            /\ clients[k] \in Seq(UpdateEnvelope)
        BY <1>0 DEF QueuesMeasured
      <3> QED BY <1>0, <2>1, <3>1, <3>2, MeasuredAccepted
    <2> QED BY <2>2, <2>3 DEF QueuesMeasured
  <1>5. ASSUME NEW w \in Writers, NEW p \in Paths, NEW v \in Values, Reject(w, p, v)
        PROVE  QueuesMeasured'
    <2> DEFINE e == RejectEvent(w, p, v, WriteRejectReason(w, p, v))
    <2>1. w \in DOMAIN clients /\ e \in UpdateEnvelope /\ ~IsLive(e)
      BY <1>5, RejectEventType DEF Reject, TypeOK
    <2>2. /\ clients' = [clients EXCEPT ![w] = Append(clients[w], e)]
          /\ UNCHANGED <<cursor, nextSeq>>
      BY <1>5 DEF Reject
    <2> HIDE DEF e
    <2>3. Measured(Append(clients[w], e), cursor[w], nextSeq)
      BY <1>0, <2>1, MeasuredBesideReject DEF QueuesMeasured
    <2> QED BY <2>1, <2>2, <2>3 DEF QueuesMeasured, TypeOK
  <1>6. CASE BeginNewSession
    <2>1. Measured(<<>>, 1, 1)
      BY MeasuredEmpty
    <2> QED BY <1>0, <1>6, <2>1 DEF BeginNewSession, QueuesMeasured
  <1>7. CASE UNCHANGED <<clients, cursor, nextSeq>>
    BY <1>7 DEF QueuesMeasured
  <1> QED
    BY <1>1, <1>2, <1>3, <1>4, <1>5, <1>6, <1>7
       DEF Next, Publish, RegisterTopic, AcquireLease, ReleaseLease, Tick, vars

-----------------------------------------------------------------------------

\* The log and a picture as the feed has them.
FeedLog(accepted) == [i \in DOMAIN accepted |-> [path |-> accepted[i].path, value |-> accepted[i].value]]
FeedPicture(held) == [p \in DOMAIN held |-> held[p].value]

\* The feed's log is a sequence as long as the core's.
LEMMA FeedLogType ==
    ASSUME NEW accepted \in Seq(LogEntry)
    PROVE  /\ FeedLog(accepted) \in Seq([path : Paths, value : Values])
           /\ Len(FeedLog(accepted)) = Len(accepted)
  <1>1. Len(accepted) \in Nat /\ DOMAIN accepted = 1 .. Len(accepted)
    OBVIOUS
  <1>2. \A i \in DOMAIN accepted : accepted[i] \in LogEntry
    OBVIOUS
  <1>3. FeedLog(accepted) \in [1 .. Len(accepted) -> [path : Paths, value : Values]]
    BY <1>1, <1>2 DEF FeedLog, LogEntry
  <1>4. FeedLog(accepted) \in UNION {[1 .. n -> [path : Paths, value : Values]] : n \in Nat}
    BY <1>1, <1>3
  <1>5. FeedLog(accepted) \in Seq([path : Paths, value : Values])
    BY <1>4, SeqDef, Zenon
  <1> QED BY <1>1, <1>3, <1>5

\* Applying what a queue owes and reading the log from the cursor give one picture.
LEMMA DrainReadsLog ==
    ASSUME NEW q \in Seq(UpdateEnvelope), NEW accepted \in Seq(LogEntry),
           NEW from \in 1 .. Len(accepted) + 1, Owes(q, from, accepted), NEW held
    PROVE  FeedPicture(Applied(held, q))
             = Feed!Updated(FeedPicture(held), SubSeq(FeedLog(accepted), from, Len(accepted)))
  <1> DEFINE news == SubSeq(FeedLog(accepted), from, Len(accepted))
             touched == {q[i].path : i \in {j \in DOMAIN q : IsLive(q[j])}}
             paths == {news[i].path : i \in DOMAIN news}
             final(p) == CHOOSE i \in DOMAIN news :
                            /\ news[i].path = p
                            /\ \A j \in DOMAIN news : news[j].path = p => j <= i
  <1>1. /\ Len(accepted) \in Nat /\ from \in Nat /\ DOMAIN accepted = 1 .. Len(accepted)
        /\ DOMAIN q = 1 .. Len(q) /\ Len(q) \in Nat
    OBVIOUS
  <1>2. /\ DOMAIN news = 1 .. Len(accepted) - from + 1
        /\ \A i \in DOMAIN news :
              /\ i + from - 1 \in from .. Len(accepted)
              /\ news[i].path = accepted[i + from - 1].path
              /\ news[i].value = accepted[i + from - 1].value
    <2>1. FeedLog(accepted) \in Seq([path : Paths, value : Values])
          /\ Len(FeedLog(accepted)) = Len(accepted)
      BY FeedLogType
    <2>2. news = [i \in 1 .. Len(accepted) - from + 1 |-> FeedLog(accepted)[i + from - 1]]
      BY <1>1, <2>1
    <2> QED BY <1>1, <2>2 DEF FeedLog
  <1> HIDE DEF news
  <1>3. ASSUME NEW i \in DOMAIN q, IsLive(q[i])
        PROVE  /\ q[i].seq - from + 1 \in DOMAIN news
               /\ news[q[i].seq - from + 1].path = q[i].path
               /\ news[q[i].seq - from + 1].value = q[i].value
    <2>1. /\ q[i].seq \in from .. Len(accepted)
          /\ q[i].path = accepted[q[i].seq].path
          /\ q[i].value = accepted[q[i].seq].value
      BY <1>3 DEF Owes
    <2>2. q[i].seq - from + 1 \in DOMAIN news /\ q[i].seq - from + 1 + from - 1 = q[i].seq
      <3>1. /\ q[i].seq - from + 1 \in 1 .. Len(accepted) - from + 1
            /\ q[i].seq - from + 1 + from - 1 = q[i].seq
        BY <1>1, <2>1, Shifted
      <3> QED BY <1>2, <3>1
    <2> QED BY <1>2, <2>1, <2>2
  <1>4. ASSUME NEW n \in DOMAIN news
        PROVE  \E i \in DOMAIN q : IsLive(q[i]) /\ q[i].seq - from + 1 = n
    <2>1. n + from - 1 \in from .. Len(accepted)
      BY <1>2
    <2>2. PICK i \in DOMAIN q : IsLive(q[i]) /\ q[i].seq = n + from - 1
      BY <2>1 DEF Owes
    <2>3. q[i].seq \in Int /\ q[i].seq - from + 1 = n
      BY <1>1, <2>1, <2>2, <1>2
    <2> QED BY <2>2, <2>3
  <1>5. touched = paths
    <2>1. ASSUME NEW p \in touched PROVE p \in paths
      BY <1>3
    <2>2. ASSUME NEW n \in DOMAIN news PROVE news[n].path \in touched
      BY <1>3, <1>4
    <2> QED BY <2>1, <2>2
  <1>6. ASSUME NEW p \in touched
        PROVE  \E i \in LiveHits(q, p) :
                  /\ EndsAt(q, p, q[i].value)
                  /\ final(p) = q[i].seq - from + 1
                  /\ news[final(p)].value = q[i].value
    <2>1. LiveHits(q, p) # {} /\ LiveHits(q, p) \subseteq 1 .. Len(q)
      BY <1>1 DEF LiveHits
    <2>2. PICK i \in LiveHits(q, p) : \A j \in LiveHits(q, p) : j <= i
      BY <1>1, <2>1, LastPosition
    <2>3. i \in DOMAIN q /\ IsLive(q[i]) /\ q[i].path = p
      BY DEF LiveHits
    <2> DEFINE n == q[i].seq - from + 1
    <2>4. n \in DOMAIN news /\ news[n].path = p /\ news[n].value = q[i].value
      BY <1>3, <2>3
    <2>5. ASSUME NEW m \in DOMAIN news, news[m].path = p PROVE m <= n
      <3>1. PICK j \in DOMAIN q : IsLive(q[j]) /\ q[j].seq - from + 1 = m
        BY <1>4
      <3>2. j \in LiveHits(q, p)
        BY <1>3, <2>5, <3>1 DEF LiveHits
      <3>3. j <= i /\ j \in Nat /\ i \in Nat
        BY <1>1, <2>2, <2>3, <3>2
      <3>5. q[j].seq \in Nat /\ q[i].seq \in Nat
        <4>1. \A k \in DOMAIN q : q[k].seq \in Nat
          <5>1. \A k \in DOMAIN q : q[k] \in UpdateEnvelope
            OBVIOUS
          <5> QED BY <5>1 DEF UpdateEnvelope
        <4> QED BY <2>3, <3>1, <4>1
      <3>4. q[j].seq <= q[i].seq
        <4>2. CASE j = i
          BY <3>5, <4>2
        <4>3. CASE j < i
          BY <2>3, <3>1, <3>5, <4>3 DEF Owes
        <4> QED BY <3>3, <4>2, <4>3
      <3>6. q[j].seq - from + 1 <= q[i].seq - from + 1
        BY <1>1, <3>4, <3>5, ShiftedOrder
      <3> QED BY <3>1, <3>6
    <2>6. \A m \in DOMAIN news : m \in Nat
      BY <1>1, <1>2
    <2> HIDE DEF n
    <2>7. final(p) = n
      <3>1. \A m \in DOMAIN news :
               news[m].path = p /\ (\A j \in DOMAIN news : news[j].path = p => j <= m) => m = n
        BY <2>4, <2>5, <2>6
      <3> QED BY <2>4, <2>5, <3>1
    <2>8. EndsAt(q, p, q[i].value)
      BY <2>2 DEF EndsAt
    <2> QED BY <2>4, <2>7, <2>8 DEF n
  <1>7. ASSUME NEW p \in touched
        PROVE  p \in DOMAIN Applied(held, q) /\ Applied(held, q)[p].value = news[final(p)].value
    <2>1. PICK i \in LiveHits(q, p) : EndsAt(q, p, q[i].value) /\ news[final(p)].value = q[i].value
      BY <1>6, <1>7
    <2> HIDE DEF final, touched
    <2>2. p \in DOMAIN Applied(held, q) /\ Applied(held, q)[p].value = q[i].value
      BY <2>1, AppliedValue
    <2> QED BY <2>1, <2>2
  <1>8. ASSUME NEW p \in DOMAIN held, p \notin touched
        PROVE  p \in DOMAIN Applied(held, q) /\ Applied(held, q)[p].value = held[p].value
    <2>1. LiveHits(q, p) = {}
      BY <1>8 DEF LiveHits
    <2> HIDE DEF final, touched
    <2> DEFINE v == held[p].value
    <2>2. \/ EndsAt(q, p, v)
          \/ LiveHits(q, p) = {} /\ p \in DOMAIN held /\ held[p].value = v
      BY <2>1
    <2> HIDE DEF v
    <2>3. p \in DOMAIN Applied(held, q) /\ Applied(held, q)[p].value = v
      BY <2>2, AppliedValue
    <2> QED BY <2>3 DEF v
  <1>9. DOMAIN Applied(held, q) = DOMAIN held \cup touched
    BY DEF Applied
  <1>10. Feed!Updated(FeedPicture(held), news)
           = [p \in DOMAIN FeedPicture(held) \cup paths |->
                IF p \in paths THEN news[final(p)].value ELSE FeedPicture(held)[p]]
    BY DEF Feed!Updated
  <1> HIDE DEF touched, paths, final
  <1>11. FeedPicture(Applied(held, q)) = Feed!Updated(FeedPicture(held), news)
    BY <1>5, <1>7, <1>8, <1>9, <1>10 DEF FeedPicture
  <1> QED BY <1>11 DEF news

\* The rest of the feed's variables, as functions of the core's.
Positions(connected, from) == [c \in connected |-> from[c]]
FeedKept(ts, replayed) == [p \in replayed |-> ts[p].latest]
FeedHeld(pictures) == [c \in Clients |-> FeedPicture(pictures[c])]

FeedInv == StreamInv /\ QueuesMeasured /\ MirrorShape

\* What the queues leave to be read is what the cursors say.
LEMMA PositionsMeasured ==
    ASSUME NEW qs, NEW from, NEW n, \A c \in DOMAIN qs : Measured(qs[c], from[c], n)
    PROVE  [c \in DOMAIN qs |-> n - Cardinality({i \in DOMAIN qs[c] : IsLive(qs[c][i])})]
             = Positions(DOMAIN qs, from)
  BY DEF Measured, LiveIn, Positions

\* An accepted write is one more entry of the feed's log.
LEMMA FeedLogGrows ==
    ASSUME NEW accepted \in Seq(LogEntry), NEW x \in LogEntry
    PROVE  FeedLog(Append(accepted, x))
             = Append(FeedLog(accepted), [path |-> x.path, value |-> x.value])
  <1>1. /\ Len(accepted) \in Nat /\ DOMAIN accepted = 1 .. Len(accepted)
        /\ DOMAIN Append(accepted, x) = 1 .. Len(accepted) + 1
        /\ \A i \in 1 .. Len(accepted) : Append(accepted, x)[i] = accepted[i]
        /\ Append(accepted, x)[Len(accepted) + 1] = x
    OBVIOUS
  <1> DEFINE S == [path : Paths, value : Values]
             f == FeedLog(accepted)
             y == [path |-> x.path, value |-> x.value]
             g == FeedLog(Append(accepted, x))
  <1>2. f \in Seq(S) /\ Len(f) = Len(accepted) /\ g \in Seq(S) /\ Len(g) = Len(accepted) + 1
    <2>1. Append(accepted, x) \in Seq(LogEntry) /\ Len(Append(accepted, x)) = Len(accepted) + 1
      OBVIOUS
    <2>2. f \in Seq(S) /\ Len(f) = Len(accepted)
      BY FeedLogType
    <2>3. g \in Seq(S) /\ Len(g) = Len(Append(accepted, x))
      BY <2>1, FeedLogType
    <2> QED BY <2>1, <2>2, <2>3
  <1>3. y \in S
    BY DEF LogEntry
  <1>4. /\ \A i \in 1 .. Len(accepted) : g[i] = f[i]
        /\ g[Len(accepted) + 1] = y
    BY <1>1 DEF FeedLog
  <1> HIDE DEF f, y, g
  <1>5. /\ Append(f, y) \in Seq(S) /\ Len(Append(f, y)) = Len(f) + 1
        /\ \A i \in 1 .. Len(f) : Append(f, y)[i] = f[i]
        /\ Append(f, y)[Len(f) + 1] = y
    BY <1>2, <1>3
  <1>6. \A i \in 1 .. Len(g) : g[i] = Append(f, y)[i]
    BY <1>1, <1>2, <1>4, <1>5
  <1>7. g = Append(f, y)
    BY <1>1, <1>2, <1>5, <1>6, SeqEqual
  <1> QED BY <1>7 DEF f, y, g

\* One write updates one entry of a picture.
LEMMA UpdatedByOne ==
    ASSUME NEW picture, NEW p, NEW v
    PROVE  Feed!Updated(picture, <<[path |-> p, value |-> v]>>)
             = [r \in DOMAIN picture \cup {p} |-> IF r = p THEN v ELSE picture[r]]
  <1> DEFINE news == <<[path |-> p, value |-> v]>>
             final(r) == CHOOSE i \in DOMAIN news :
                            /\ news[i].path = r
                            /\ \A j \in DOMAIN news : news[j].path = r => j <= i
  <1>1. DOMAIN news = {1} /\ news[1].path = p /\ news[1].value = v
    OBVIOUS
  <1> HIDE DEF news
  <1>2. {news[i].path : i \in DOMAIN news} = {p}
    BY <1>1
  <1>3. final(p) = 1
    BY <1>1
  <1>4. Feed!Updated(picture, news)
          = [r \in DOMAIN picture \cup {news[i].path : i \in DOMAIN news} |->
               IF r \in {news[i].path : i \in DOMAIN news} THEN news[final(r)].value
               ELSE picture[r]]
    BY DEF Feed!Updated
  <1> HIDE DEF final
  <1>5. Feed!Updated(picture, news)
          = [r \in DOMAIN picture \cup {p} |-> IF r = p THEN v ELSE picture[r]]
    BY <1>1, <1>2, <1>3, <1>4
  <1> QED BY <1>5 DEF news

\* An operation that changes no retained topic's value changes nothing that is kept.
LEMMA KeptUnchanged ==
    ASSUME DOMAIN topics \subseteq DOMAIN topics',
           \A p \in DOMAIN topics : /\ topics'[p].desc = topics[p].desc
                                    /\ topics'[p].latest = topics[p].latest,
           \A p \in DOMAIN topics' \ DOMAIN topics : topics'[p].latest = NoValue
    PROVE  FeedKept(topics, Replayed)' = FeedKept(topics, Replayed)
  <1>1. Replayed' = Replayed
    BY DEF Replayed
  <1>2. Replayed \subseteq DOMAIN topics
    BY DEF Replayed
  <1> QED BY <1>1, <1>2 DEF FeedKept

\* The core starts where the feed does.
LEMMA FeedInit == Init => Feed!Init
  <1> SUFFICES ASSUME Init PROVE Feed!Init
    OBVIOUS
  <1>1. \A f : DOMAIN f = {} /\ f = [x \in {} |-> f[x]] => f = <<>>
    OBVIOUS
  <1>2. [i \in DOMAIN log |-> [path |-> log[i].path, value |-> log[i].value]] = <<>>
    BY <1>1 DEF Init
  <1>3. Replayed = {}
    BY DEF Init, Replayed
  <1>4. [p \in Replayed |-> topics[p].latest] = <<>>
    BY <1>1, <1>3
  <1>5. [c \in DOMAIN clients |-> nextSeq - Cardinality(Undelivered(c))] = <<>>
    BY <1>1 DEF Init
  <1>6. \A c \in Clients : [p \in DOMAIN mirror[c] |-> mirror[c][p].value] = <<>>
    BY <1>1 DEF Init
  <1>7. [c \in Clients |-> [p \in DOMAIN mirror[c] |-> mirror[c][p].value]]
          = [c \in Clients |-> <<>>]
    BY <1>6
  <1>8. sessionId = 1
    BY DEF Init
  <1> QED BY <1>2, <1>4, <1>5, <1>7, <1>8 DEF Feed!Init

\* Every step of the core is a step of the feed or leaves it alone.
LEMMA FeedStep ==
    ASSUME FeedInv, FeedInv', CoreAssumption, [Next]_vars
    PROVE  [Feed!Next]_(Feed!vars)
  <1> DEFINE flog == [i \in DOMAIN log |-> [path |-> log[i].path, value |-> log[i].value]]
             fkept == [p \in Replayed |-> topics[p].latest]
             fnext == [c \in DOMAIN clients |-> nextSeq - Cardinality(Undelivered(c))]
             fheld == [c \in Clients |-> [p \in DOMAIN mirror[c] |-> mirror[c][p].value]]
  <1>1. flog = FeedLog(log) /\ flog' = FeedLog(log')
    BY DEF FeedLog
  <1>2. fnext = Positions(DOMAIN clients, cursor) /\ fnext' = Positions(DOMAIN clients', cursor')
    <2>1. /\ \A c \in DOMAIN clients : Measured(clients[c], cursor[c], nextSeq)
          /\ \A c \in DOMAIN clients' : Measured(clients'[c], cursor'[c], nextSeq')
      BY DEF FeedInv, QueuesMeasured
    <2>2. [c \in DOMAIN clients |-> nextSeq - Cardinality({i \in DOMAIN clients[c] : IsLive(clients[c][i])})]
             = Positions(DOMAIN clients, cursor)
      BY <2>1, PositionsMeasured
    <2>3. [c \in DOMAIN clients' |-> nextSeq' - Cardinality({i \in DOMAIN clients'[c] : IsLive(clients'[c][i])})]
             = Positions(DOMAIN clients', cursor')
      BY <2>1, PositionsMeasured
    <2> QED BY <2>2, <2>3 DEF Undelivered
  <1>3. fheld = FeedHeld(mirror) /\ fheld' = FeedHeld(mirror')
    BY DEF FeedHeld, FeedPicture
  <1>4. fkept = FeedKept(topics, Replayed) /\ fkept' = FeedKept(topics, Replayed)'
    BY DEF FeedKept
  <1>5. /\ TypeOK /\ TypeOK' /\ MirrorShape /\ LiveStreamExact /\ CursorInRange
        /\ log \in Seq(LogEntry) /\ nextSeq = Len(log) + 1 /\ cursor \in [Clients -> Nat \ {0}]
        /\ DOMAIN clients \subseteq Clients
        /\ \A c \in DOMAIN clients : clients[c] \in Seq(UpdateEnvelope)
    BY DEF FeedInv, StreamInv, TypeOK, LogEntry
  <1>6. FeedLog(log) \in Seq([path : Paths, value : Values]) /\ Len(FeedLog(log)) = Len(log)
    BY <1>5, FeedLogType
  <1> HIDE DEF flog, fkept, fnext, fheld
  <1>a. ASSUME FeedLog(log') = FeedLog(log), FeedKept(topics, Replayed)' = FeedKept(topics, Replayed),
               UNCHANGED <<clients, cursor, sessionId, mirror>>
        PROVE  UNCHANGED Feed!vars
    <2>1. flog' = flog /\ fkept' = fkept /\ fnext' = fnext /\ fheld' = fheld
      BY <1>a, <1>1, <1>2, <1>3, <1>4
    <2>2. sessionId' = sessionId
      BY <1>a
    <2> QED BY <2>1, <2>2 DEF flog, fkept, fnext, fheld, Feed!vars
  <1>b. ASSUME NEW c \in Clients, ConnectClient(c) PROVE Feed!Join(c)
    <2>1. /\ DOMAIN clients' = DOMAIN clients \cup {c}
          /\ cursor' = [cursor EXCEPT ![c] = IF c \in DOMAIN clients THEN cursor[c] ELSE nextSeq]
          /\ mirror' = [mirror EXCEPT ![c] = BuildSnapshotForClient]
          /\ UNCHANGED <<topics, sessionId, log>>
      BY <1>b DEF ConnectClient
    <2>2. Replayed' = Replayed
      BY <2>1 DEF Replayed
    <2>3. sessionId' = sessionId /\ flog' = flog /\ fkept' = fkept
      BY <1>1, <1>4, <2>1, <2>2 DEF FeedKept
    <2>4. FeedPicture(BuildSnapshotForClient) = fkept
      BY DEF FeedPicture, BuildSnapshotForClient, fkept
    <2>5. fheld' = [fheld EXCEPT ![c] = fkept]
      BY <1>3, <1>5, <2>1, <2>4 DEF FeedHeld, MirrorShape
    <2>6. fnext' = [r \in DOMAIN fnext \cup {c} |->
                      IF r \in DOMAIN fnext THEN fnext[r] ELSE Len(flog) + 1]
      BY <1>1, <1>2, <1>5, <1>6, <2>1 DEF Positions
    <2> QED BY <2>3, <2>5, <2>6 DEF flog, fkept, fnext, fheld, Feed!Join
  <1>c. ASSUME NEW c \in Clients, DisconnectClient(c) PROVE Feed!Leave(c)
    <2>1. /\ c \in DOMAIN clients /\ DOMAIN clients' = DOMAIN clients \ {c}
          /\ UNCHANGED <<topics, sessionId, log, cursor, mirror>>
      BY <1>c DEF DisconnectClient
    <2>2. Replayed' = Replayed
      BY <2>1 DEF Replayed
    <2>3. sessionId' = sessionId /\ flog' = flog /\ fkept' = fkept /\ fheld' = fheld
      BY <1>1, <1>3, <1>4, <2>1, <2>2 DEF FeedKept
    <2>4. c \in DOMAIN fnext /\ fnext' = [s \in DOMAIN fnext \ {c} |-> fnext[s]]
      BY <1>2, <2>1 DEF Positions
    <2> QED BY <2>3, <2>4 DEF flog, fkept, fnext, fheld, Feed!Leave, Feed!Restricted
  <1>d. ASSUME NEW c \in Clients, DrainClientEvents(c) PROVE Feed!Read(c)
    <2>1. /\ c \in DOMAIN clients /\ DOMAIN clients' = DOMAIN clients
          /\ mirror' = [mirror EXCEPT ![c] = Applied(mirror[c], clients[c])]
          /\ cursor' = [cursor EXCEPT ![c] = nextSeq]
          /\ UNCHANGED <<topics, sessionId, log>>
      BY <1>d DEF DrainClientEvents
    <2>2. Replayed' = Replayed
      BY <2>1 DEF Replayed
    <2>3. sessionId' = sessionId /\ flog' = flog /\ fkept' = fkept
      BY <1>1, <1>4, <2>1, <2>2 DEF FeedKept
    <2>4. /\ clients[c] \in Seq(UpdateEnvelope) /\ cursor[c] \in 1 .. Len(log) + 1
          /\ Owes(clients[c], cursor[c], log)
      BY <1>5, <2>1 DEF LiveStreamExact, CursorInRange
    <2>5. FeedPicture(Applied(mirror[c], clients[c]))
            = Feed!Updated(FeedPicture(mirror[c]), SubSeq(FeedLog(log), cursor[c], Len(log)))
      BY <1>5, <2>4, DrainReadsLog
    <2>6. fnext[c] = cursor[c] /\ fheld[c] = FeedPicture(mirror[c]) /\ c \in DOMAIN fnext
      BY <1>2, <1>3, <2>1 DEF Positions, FeedHeld
    <2>7. FeedPicture(Applied(mirror[c], clients[c]))
            = Feed!Updated(fheld[c], SubSeq(flog, fnext[c], Len(flog)))
      BY <1>1, <1>6, <2>5, <2>6
    <2>8. fheld' = [fheld EXCEPT ![c] = FeedPicture(Applied(mirror[c], clients[c]))]
      BY <1>3, <1>5, <2>1 DEF FeedHeld, MirrorShape
    <2>9. fnext' = [fnext EXCEPT ![c] = Len(flog) + 1]
      BY <1>1, <1>2, <1>5, <1>6, <2>1 DEF Positions
    <2>10. fheld' = [fheld EXCEPT ![c] = Feed!Updated(fheld[c], SubSeq(flog, fnext[c], Len(flog)))]
      BY <2>7, <2>8
    <2> QED BY <2>3, <2>6, <2>9, <2>10 DEF flog, fkept, fnext, fheld, Feed!Read
  <1>e. ASSUME NEW w \in Writers, NEW p \in Paths, NEW v \in Values, Accept(w, p, v)
        PROVE  Feed!Write(p, v)
    <2> DEFINE x == [path |-> p, value |-> v, writer |-> w, open |-> TRUE]
               t == Written(w, p, v)
    <2>1. /\ p \in DOMAIN topics
          /\ topics' = [topics EXCEPT ![p] = t]
          /\ DOMAIN clients' = DOMAIN clients
          /\ log' = Append(log, x)
          /\ UNCHANGED <<sessionId, cursor, mirror>>
      BY <1>e DEF Accept, WriteRejectReason
    <2>2. x \in LogEntry
      BY DEF LogEntry
    <2>3. flog' = Append(flog, [path |-> p, value |-> v])
      BY <1>1, <1>5, <2>1, <2>2, FeedLogGrows
    <2>4. sessionId' = sessionId /\ fnext' = fnext /\ fheld' = fheld
      BY <1>2, <1>3, <2>1
    <2>5. /\ topics'[p].latest = v /\ topics'[p].desc = topics[p].desc /\ v # NoValue
          /\ \A q \in DOMAIN topics : q # p => topics'[q] = topics[q]
          /\ DOMAIN topics' = DOMAIN topics
      BY <2>1 DEF Written, CoreAssumption
    <2>6. Replayed \subseteq Replayed' /\ Replayed' \subseteq Replayed \cup {p}
      BY <2>1, <2>5 DEF Replayed
    <2>7. CASE p \in Replayed'
      <3>1. fkept' = [q \in Replayed \cup {p} |-> IF q = p THEN v ELSE topics[q].latest]
        <4>1. Replayed' = Replayed \cup {p}
          BY <2>6, <2>7
        <4>2. \A q \in Replayed \cup {p} :
                 topics'[q].latest = IF q = p THEN v ELSE topics[q].latest
          BY <2>5 DEF Replayed
        <4> QED BY <1>4, <4>1, <4>2 DEF FeedKept
      <3>2. DOMAIN fkept = Replayed /\ \A q \in Replayed : fkept[q] = topics[q].latest
        BY DEF fkept
      <3>3. fkept' = [q \in DOMAIN fkept \cup {p} |-> IF q = p THEN v ELSE fkept[q]]
        BY <3>1, <3>2
      <3>4. fkept' = Feed!Updated(fkept, <<[path |-> p, value |-> v]>>) /\ fkept'[p] = v
        BY <3>3, UpdatedByOne
      <3> QED BY <2>3, <2>4, <3>4 DEF flog, fkept, fnext, fheld, Feed!Write
    <2>8. CASE p \notin Replayed'
      <3>1. Replayed' = Replayed /\ p \notin Replayed
        BY <2>6, <2>8
      <3>2. fkept' = fkept
        BY <1>4, <2>5, <3>1 DEF FeedKept, Replayed
      <3>3. p \notin DOMAIN fkept
        BY <3>1 DEF fkept
      <3> QED BY <2>3, <2>4, <3>2, <3>3 DEF flog, fkept, fnext, fheld, Feed!Write
    <2> QED BY <2>7, <2>8
  <1>f. ASSUME BeginNewSession PROVE Feed!NewSession
    <2>1. /\ sessionId' = sessionId + 1 /\ log' = <<>>
          /\ topics' = [p \in DOMAIN topics |-> [topics[p] EXCEPT !.lease = Nobody]]
          /\ DOMAIN clients' = DOMAIN clients /\ cursor' = [c \in Clients |-> 1]
          /\ UNCHANGED mirror
      BY <1>f DEF BeginNewSession
    <2>2. fkept' = fkept
      BY <1>4, <1>5, <2>1, KeptUnchanged DEF TypeOK, TopicRuntime
    <2>3. fheld' = fheld
      BY <1>3, <2>1
    <2>4. flog' = <<>>
      BY <1>1, <2>1 DEF FeedLog
    <2>5. fnext' = [s \in DOMAIN fnext |-> 1]
      BY <1>2, <1>5, <2>1 DEF Positions
    <2> QED BY <2>1, <2>2, <2>3, <2>4, <2>5 DEF flog, fkept, fnext, fheld, Feed!NewSession
  <1>g. ASSUME NEW w \in Writers, NEW p \in Paths, NEW v \in Values, Reject(w, p, v)
        PROVE  UNCHANGED Feed!vars
    <2>1. DOMAIN clients' = DOMAIN clients /\ UNCHANGED <<topics, sessionId, log, cursor, mirror>>
      BY <1>g DEF Reject
    <2>2. Replayed' = Replayed
      BY <2>1 DEF Replayed
    <2>3. flog' = flog /\ fkept' = fkept /\ fnext' = fnext /\ fheld' = fheld
      BY <1>1, <1>2, <1>3, <1>4, <2>1, <2>2 DEF FeedKept
    <2> QED BY <2>1, <2>3 DEF flog, fkept, fnext, fheld, Feed!vars
  <1>h. ASSUME NEW offer \in Offers, RegisterTopic(offer[1], offer[2]) PROVE UNCHANGED Feed!vars
    <2>1. FeedKept(topics, Replayed)' = FeedKept(topics, Replayed)
      BY <1>h, KeptUnchanged DEF RegisterTopic
    <2> QED BY <1>a, <1>h, <2>1 DEF RegisterTopic
  <1>i. ASSUME NEW p \in Paths, NEW c \in Clients, AcquireLease(p, c) PROVE UNCHANGED Feed!vars
    <2>1. topics' = [topics EXCEPT ![p].lease = c] /\ UNCHANGED <<clients, cursor, sessionId, mirror, log>>
      BY <1>i DEF AcquireLease
    <2>2. \A q \in DOMAIN topics : /\ topics'[q].desc = topics[q].desc
                                   /\ topics'[q].latest = topics[q].latest
      BY <1>5, <2>1 DEF TypeOK, TopicRuntime
    <2>3. FeedKept(topics, Replayed)' = FeedKept(topics, Replayed)
      BY <2>1, <2>2, KeptUnchanged
    <2> QED BY <1>a, <2>1, <2>3
  <1>j. ASSUME NEW p \in Paths, NEW c \in Clients, ReleaseLease(p, c) PROVE UNCHANGED Feed!vars
    <2>1. /\ topics' = [topics EXCEPT ![p].lease = Nobody]
          /\ log' = [i \in DOMAIN log |-> IF log[i].path = p
                                          THEN [log[i] EXCEPT !.open = FALSE] ELSE log[i]]
          /\ UNCHANGED <<clients, cursor, sessionId, mirror>>
      BY <1>j DEF ReleaseLease
    <2>2. \A q \in DOMAIN topics : /\ topics'[q].desc = topics[q].desc
                                   /\ topics'[q].latest = topics[q].latest
      BY <1>5, <2>1 DEF TypeOK, TopicRuntime
    <2>3. FeedKept(topics, Replayed)' = FeedKept(topics, Replayed)
      BY <2>1, <2>2, KeptUnchanged
    <2>4. \A i \in DOMAIN log : log[i] \in LogEntry
      BY <1>5
    <2>5. FeedLog(log') = FeedLog(log)
      BY <2>1, <2>4 DEF FeedLog, LogEntry
    <2> QED BY <1>a, <2>1, <2>3, <2>5
  <1>k. ASSUME Tick PROVE UNCHANGED Feed!vars
    <2>1. /\ topics' = [p \in DOMAIN topics |->
                          [topics[p] EXCEPT !.age = IF topics[p].age < MaxAge THEN topics[p].age + 1
                                                    ELSE topics[p].age]]
          /\ UNCHANGED <<clients, cursor, sessionId, mirror, log>>
      BY <1>k DEF Tick
    <2>2. \A q \in DOMAIN topics : /\ topics'[q].desc = topics[q].desc
                                   /\ topics'[q].latest = topics[q].latest
      BY <1>5, <2>1 DEF TypeOK, TopicRuntime
    <2>3. FeedKept(topics, Replayed)' = FeedKept(topics, Replayed)
      BY <2>1, <2>2, KeptUnchanged
    <2> QED BY <1>a, <2>1, <2>3
  <1>l. CASE UNCHANGED vars
    <2>1. Replayed' = Replayed
      BY <1>l DEF vars, Replayed
    <2> QED BY <1>a, <1>l, <2>1 DEF vars, FeedKept
  <1>m. CASE Next
    BY <1>b, <1>c, <1>d, <1>e, <1>f, <1>g, <1>h, <1>i, <1>j, <1>k, <1>m
       DEF Next, Publish, Feed!Next
  <1> QED BY <1>l, <1>m

\* The core, its queues, envelopes and snapshots with it, does for its clients what
\* reading one log from a position of one's own would do: TopicFeed is implemented.
THEOREM CoreImplementsFeed == Spec => ImplementsFeed
  <1>1. Init => FeedInv
    <2>1. Init => StreamInv
      BY DEF Init, StreamInv, TypeOK, LiveStreamExact, CursorInRange
    <2> QED BY <2>1 DEF Init, FeedInv, QueuesMeasured, MirrorShape
  <1>2. FeedInv /\ [Next]_vars => FeedInv'
    BY StreamInductive, MeasuredInductive, MirrorInductive DEF FeedInv, StreamInv
  <1>3. FeedInv /\ FeedInv' /\ [Next]_vars => [Feed!Next]_(Feed!vars)
    BY CoreAssumption, FeedStep
  <1> QED BY <1>1, <1>2, <1>3, FeedInit, PTL DEF Spec, ImplementsFeed, Feed!Spec
=============================================================================
