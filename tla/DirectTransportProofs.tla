------------------------- MODULE DirectTransportProofs -------------------------
(***************************************************************************)
(* Proofs about DirectTransport for any keys, capacity and bounds, either way  *)
(* of flushing: cursors stay in order, messages come once and in order, values *)
(* do not go back, as long as one thread at a time is on the producer's side.   *)
(***************************************************************************)
EXTENDS DirectTransport, SequenceTheorems, TLAPS

-----------------------------------------------------------------------------
(* Which threads may write.  The ring is for one producer; FlushNow takes no      *)
(* lock, so two threads may be in it at once when the application flushes, or      *)
(* stops the publisher, beside a worker.  What follows is shown for the behaviours  *)
(* in which they are not.                                                            *)

Writing(t) == pc[t] \in {"write", "commit"}
OneWriter == ~(Writing(App) /\ Writing(Worker))

\* Nor does the application write what is newer than the snapshot the worker holds.
NoOldSnapshot == ~(Writing(App) /\ At(Worker, "merge"))

-----------------------------------------------------------------------------
(* The invariant: types *)

Entries == [key : Keys, version : 1 .. MaxVersion, seq : Nat, process : Nat]

Holds == {<<>>} \cup (Keys \X Nat)

Types ==
    /\ running \in BOOLEAN /\ magic \in BOOLEAN
    /\ retained \in VersionMaps /\ pending \in VersionMaps
    /\ snapshot \in VersionMaps /\ view \in VersionMaps
    /\ batch \in [Threads -> VersionMaps]
    /\ back \in [Threads -> {"idle", "stop", "loop"}]
    /\ hold \in [Threads -> Holds]
    /\ slots \in Seq(Messages)
    /\ pubSeq \in Nat /\ lastSeq \in Nat /\ process \in Nat /\ lastProcess \in Nat
    /\ writeIndex \in Nat /\ consumerRead \in Nat /\ cursor \in Nat
    /\ version \in 0 .. MaxVersion
    /\ sub \in {"off", "initialize", "attached", "drain", "claim", "publish read", "beat"}

Rest ==
    /\ wasActive \in BOOLEAN /\ seen \in BOOLEAN /\ consumerFresh \in BOOLEAN
    /\ lastObserved \in 0 .. MaxInstance /\ consumerId \in 0 .. MaxInstance
    /\ instance \in 0 .. MaxInstance /\ dropped \in Nat

\* Where the threads are, and that a publisher's worker does not outlive it.
AppPlaces == {"idle", "initialize", "attached", "store", "flush", "write", "commit", "stop", "join"}
WorkerPlaces == {"ended", "loop", "observe", "copy", "merge", "flush", "write", "commit"}

Threading ==
    /\ pc \in [Threads -> Place]
    /\ pc[App] \in AppPlaces /\ pc[Worker] \in WorkerPlaces
    /\ back[App] \in {"idle", "stop"}
    /\ pc[Worker] \in {"copy", "merge", "flush", "write", "commit"} => back[Worker] = "loop"
    /\ pc[App] \in {"initialize", "attached", "join"} => ~running
    /\ pc[App] \in {"flush", "write", "commit", "stop"} => running
    /\ pc[Worker] # "ended" => running \/ At(App, "join")

\* What a thread holds.
Holding ==
    /\ \A t \in Threads :
          /\ At(t, "commit") => hold[t] \in Keys \X Nat /\ hold[t][1] \in DOMAIN batch[t]
          /\ ~Writing(t) => batch[t] = Nothing
    /\ ~At(Worker, "merge") => snapshot = Nothing
    /\ At(App, "store") =>
          call[1] \in DOMAIN retained /\ call[2] = retained[call[1]]

\* The region is there while a process uses it, and comes zeroed.
Mapped ==
    /\ Looping \/ sub = "attached" \/ running \/ pc[App] \in {"attached", "join"} => magic
    /\ ~magic => slots = <<>> /\ writeIndex = 0 /\ consumerRead = 0
    /\ At(App, "initialize") =>
          slots = <<>> /\ writeIndex = 0 /\ consumerRead = 0 /\ (Looping => cursor = 0)

Structure == Types /\ Threading /\ Holding /\ Mapped

-----------------------------------------------------------------------------
(* The invariant: positions, numbers, values *)

\* A frame that waits for its commit is beyond all that is committed, and the last one.
HoldsAhead ==
    /\ \A t \in Threads : At(t, "commit") => hold[t][2] > writeIndex
    /\ Len(slots) <= writeIndex \/ \E t \in Threads : At(t, "commit") /\ Len(slots) <= hold[t][2]

Unread(i) == i > writeIndex \/ (Looping /\ i > cursor)

\* Number s of process p comes before number r of process q.
Earlier(p, s, q, r) == p < q \/ (p = q /\ s < r)

\* The processes and their numbers, in the order of the positions.
NumbersOrdered ==
    /\ Earlier(lastProcess, lastSeq, process, pubSeq + 1)
    /\ \A i \in DOMAIN slots : slots[i] # Zeroed =>
          /\ Earlier(slots[i].process, slots[i].seq, process, pubSeq + 1)
          /\ Unread(i) => Earlier(lastProcess, lastSeq, slots[i].process, slots[i].seq)
          /\ \A j \in DOMAIN slots : i < j /\ slots[j] # Zeroed =>
                Earlier(slots[i].process, slots[i].seq, slots[j].process, slots[j].seq)

\* The publisher has no value of k that is older than v on the way to the ring.
NoneOlder(k, v) ==
    /\ v <= version
    /\ k \in DOMAIN retained => v <= retained[k]
    /\ k \in DOMAIN pending => v <= pending[k]
    /\ k \in DOMAIN snapshot => v <= snapshot[k]
    /\ \A t \in Threads : k \in DOMAIN batch[t] => v <= batch[t][k]

\* Version v of k was taken by a flush: it is in a batch, in the ring, or in the view.
Sent(k, v) ==
    \/ k \in DOMAIN view /\ v = view[k]
    \/ \E i \in DOMAIN slots : slots[i] # Zeroed /\ slots[i].key = k /\ slots[i].version = v
    \/ \E t \in Threads : k \in DOMAIN batch[t] /\ v = batch[t][k]

SentFirst == \A k \in Keys, v \in 1 .. MaxVersion : Sent(k, v) => NoneOlder(k, v)

MapsOrdered ==
    /\ \A k \in DOMAIN retained : retained[k] <= version
    /\ \A k \in DOMAIN pending : k \in DOMAIN retained /\ pending[k] <= retained[k]
    /\ \A k \in DOMAIN snapshot : k \in DOMAIN retained /\ snapshot[k] <= retained[k]

RingOrdered ==
    \A i \in DOMAIN slots : slots[i] # Zeroed =>
        /\ Unread(i) /\ slots[i].key \in DOMAIN view => view[slots[i].key] <= slots[i].version
        /\ \A j \in DOMAIN slots : i < j /\ slots[j] # Zeroed /\ slots[j].key = slots[i].key
              => slots[i].version <= slots[j].version

ValuesOrdered == MapsOrdered /\ SentFirst /\ RingOrdered

-----------------------------------------------------------------------------
(* Maps of versions and the ring's slots *)

\* The empty map is a map of versions.
LEMMA Nothings == Nothing \in VersionMaps /\ DOMAIN Nothing = {}
  <1>1. Nothing \in [{} -> 1 .. MaxVersion] /\ DOMAIN Nothing = {}
    BY DEF Nothing
  <1> QED BY <1>1 DEF VersionMaps

\* A map of versions gives some keys a version.
LEMMA MapShape ==
    ASSUME NEW f \in VersionMaps
    PROVE  /\ DOMAIN f \subseteq Keys
           /\ f \in [DOMAIN f -> 1 .. MaxVersion]
           /\ \A k \in DOMAIN f : f[k] \in 1 .. MaxVersion
  BY DEF VersionMaps

\* What gives some keys a version is a map of versions.
LEMMA MapMade ==
    ASSUME NEW S \in SUBSET Keys, NEW f \in [S -> 1 .. MaxVersion]
    PROVE  f \in VersionMaps
  BY DEF VersionMaps

\* Merging takes the second map where it has the key.
LEMMA MapMerged ==
    ASSUME NEW f \in VersionMaps, NEW g \in VersionMaps
    PROVE  /\ Merged(f, g) \in VersionMaps
           /\ DOMAIN Merged(f, g) = DOMAIN f \cup DOMAIN g
           /\ \A k \in DOMAIN f \cup DOMAIN g :
                 Merged(f, g)[k] = IF k \in DOMAIN g THEN g[k] ELSE f[k]
  <1>1. Merged(f, g) \in [DOMAIN f \cup DOMAIN g -> 1 .. MaxVersion]
    BY MapShape DEF Merged
  <1>2. DOMAIN f \cup DOMAIN g \in SUBSET Keys
    BY MapShape
  <1>3. Merged(f, g) \in VersionMaps
    BY <1>1, <1>2, MapMade
  <1> QED BY <1>3 DEF Merged

\* The map of one key, as Publish* stores it.
LEMMA MapOne ==
    ASSUME NEW k \in Keys, NEW v \in 1 .. MaxVersion
    PROVE  /\ [j \in {k} |-> v] \in VersionMaps
           /\ DOMAIN [j \in {k} |-> v] = {k}
           /\ [j \in {k} |-> v][k] = v
  <1>1. [j \in {k} |-> v] \in [{k} -> 1 .. MaxVersion] /\ {k} \in SUBSET Keys
    OBVIOUS
  <1> QED BY <1>1, MapMade

\* A batch without the message that was written or dropped.
LEMMA MapWithout ==
    ASSUME NEW f \in VersionMaps, NEW k
    PROVE  /\ Without(f, k) \in VersionMaps
           /\ DOMAIN Without(f, k) = DOMAIN f \ {k}
           /\ \A j \in DOMAIN f \ {k} : Without(f, k)[j] = f[j]
  <1>1. Without(f, k) \in [DOMAIN f \ {k} -> 1 .. MaxVersion]
    BY MapShape DEF Without
  <1>2. DOMAIN f \ {k} \in SUBSET Keys
    BY MapShape
  <1>3. Without(f, k) \in VersionMaps
    BY <1>1, <1>2, MapMade
  <1> QED BY <1>3 DEF Without

\* The slots after a frame is put behind position w.
Written(s, w, m) ==
    [i \in DOMAIN s \cup 1 .. w + 1 |->
        IF i = w + 1 THEN m ELSE IF i \in DOMAIN s THEN s[i] ELSE Zeroed]

\* Putting a frame keeps the others and fills the gap before it with zeroes.
LEMMA SlotsWritten ==
    ASSUME NEW s \in Seq(Messages), NEW w \in Nat, NEW m \in Messages
    PROVE  /\ Written(s, w, m) \in Seq(Messages)
           /\ DOMAIN Written(s, w, m) = DOMAIN s \cup 1 .. w + 1
           /\ Len(s) <= w + 1 => Len(Written(s, w, m)) = w + 1
  <1> DEFINE n == IF Len(s) <= w + 1 THEN w + 1 ELSE Len(s)
  <1>1. Len(s) \in Nat /\ DOMAIN s = 1 .. Len(s) /\ n \in Nat /\ DOMAIN s \cup 1 .. w + 1 = 1 .. n
    OBVIOUS
  <1>2. Zeroed \in Messages /\ \A i \in DOMAIN s : s[i] \in Messages
    BY DEF Messages
  <1>3. Written(s, w, m) \in [1 .. n -> Messages]
    BY <1>1, <1>2 DEF Written
  <1> HIDE DEF n
  <1>4. Written(s, w, m) \in Seq(Messages) /\ Len(Written(s, w, m)) = n
    <2>1. \E l \in Nat : Written(s, w, m) \in [1 .. l -> Messages]
      BY <1>1, <1>3
    <2>2. Written(s, w, m) \in Seq(Messages)
      BY <2>1
    <2>3. DOMAIN Written(s, w, m) = 1 .. n
      BY <1>3
    <2> QED BY <1>1, <2>2, <2>3, LenProperties
  <1> QED BY <1>1, <1>4 DEF Written, n

-----------------------------------------------------------------------------
(* The steps *)

\* The steps of the publisher outside FlushNow, of the worker, and of the subscriber.
LEMMA NextKinds ==
    ASSUME Next
    PROVE  \/ StartCheck \/ StartInitialize \/ StartRunning
           \/ \E k \in Keys : StoreRetained(k)
           \/ StorePending
           \/ CallFlushNow("idle") \/ CallFlushNow("stop")
           \/ \E t \in Threads : \/ FlushSwap(t) \/ WriteCommit(t) \/ FlushReturn(t)
                                 \/ \E k \in Keys : WriteCopy(t, k) \/ WriteDrop(t, k)
           \/ StopRunning \/ StopJoin
           \/ WorkerLoop \/ ObserveConsumer \/ CopyRetained \/ MergeSnapshot
           \/ PublisherEnds \/ ConsumerGoesQuiet
           \/ SubscriberStart \/ SubscriberInitialize \/ SubscriberAttach
           \/ Drain \/ DrainEnd \/ ClaimConsumer \/ PublishReadIndex \/ ConsumerHeartbeat
           \/ SubscriberStop
  BY DEF Next, AppCall, AppStep, WorkerStep, SubscriberLoop, FlushNow, Threads

\* A thread holds nothing or a key and a position.
LEMMA HoldsOf == <<>> \in Holds /\ \A k \in Keys, n \in Nat : <<k, n>> \in Holds
  BY DEF Holds

\* The next number of a message is a number.
LEMMA NextNumber == Structure => pubSeq + 1 \in Nat
  <1>1. Structure => pubSeq \in Nat
    BY DEF Structure, Types
  <1> QED BY <1>1

\* The ring of a region that comes zeroed.
LEMMA NoSlots == <<>> \in Seq(Messages) /\ Len(<<>>) = 0 /\ DOMAIN <<>> = {}
  <1>1. DOMAIN <<>> = {}
    OBVIOUS
  <1> QED BY <1>1

\* A slot that was written holds a message.
LEMMA SlotEntries ==
    ASSUME Structure, NEW i, i \in DOMAIN slots, slots[i] # Zeroed
    PROVE  slots[i] \in Entries
  <1>0. slots \in Seq(Messages)
    BY DEF Structure, Types
  <1>1. slots[i] \in Messages
    BY <1>0
  <1> QED BY <1>1 DEF Messages, Entries

\* The committed part of the ring.
Cut(s, w) == [i \in {j \in DOMAIN s : j <= w} |-> s[i]]

\* What was not committed is cut off.
LEMMA SlotsCut ==
    ASSUME NEW s \in Seq(Messages), NEW w \in Nat
    PROVE  /\ Cut(s, w) \in Seq(Messages) /\ Len(Cut(s, w)) <= w
           /\ \A i \in DOMAIN Cut(s, w) : i \in DOMAIN s /\ Cut(s, w)[i] = s[i]
  <1> DEFINE n == IF Len(s) <= w THEN Len(s) ELSE w
  <1>1. Len(s) \in Nat /\ n \in Nat /\ n <= w /\ {j \in DOMAIN s : j <= w} = 1 .. n
    OBVIOUS
  <1>2. \A i \in DOMAIN s : s[i] \in Messages
    OBVIOUS
  <1> HIDE DEF n
  <1>3. Cut(s, w) \in [1 .. n -> Messages]
    BY <1>1, <1>2 DEF Cut
  <1>4. Cut(s, w) \in Seq(Messages) /\ DOMAIN Cut(s, w) = 1 .. n
    <2>1. \E l \in Nat : Cut(s, w) \in [1 .. l -> Messages]
      BY <1>1, <1>3
    <2> QED BY <1>3, <2>1
  <1>5. Len(Cut(s, w)) = n
    BY <1>1, <1>4, LenProperties
  <1> QED BY <1>1, <1>4, <1>5 DEF Cut

\* What the end of the publisher's process leaves.
LEMMA ProcessEnded ==
    ASSUME Structure, PublisherEnds
    PROVE  /\ slots' \in Seq(Messages) /\ Len(slots') <= writeIndex'
           /\ \A i \in DOMAIN slots' : i \in DOMAIN slots /\ slots'[i] = slots[i]
           /\ \/ UNCHANGED <<magic, writeIndex, consumerRead, consumer, dropped>>
              \/ /\ sub = "off" /\ magic' = FALSE /\ slots' = <<>>
                 /\ writeIndex' = 0 /\ consumerRead' = 0
                 /\ consumerId' = 0 /\ consumerFresh' = FALSE /\ dropped' = 0
           /\ slots' = <<>> \/ UNCHANGED writeIndex
           /\ pubSeq' = 0 /\ process' = process + 1
           /\ retained' = Nothing /\ pending' = Nothing /\ snapshot' = Nothing
           /\ batch' = [t \in Threads |-> Nothing]
           /\ pc' = [t \in Threads |-> IF t = App THEN "idle" ELSE "ended"]
           /\ running' = FALSE /\ wasActive' = FALSE /\ lastObserved' = 0
           /\ UNCHANGED <<sub, instance, cursor, lastSeq, lastProcess, view, version, back, hold, call, seen>>
  <1>1. /\ pubSeq' = 0 /\ process' = process + 1
        /\ retained' = Nothing /\ pending' = Nothing /\ snapshot' = Nothing
        /\ batch' = [t \in Threads |-> Nothing]
        /\ pc' = [t \in Threads |-> IF t = App THEN "idle" ELSE "ended"]
        /\ running' = FALSE /\ wasActive' = FALSE /\ lastObserved' = 0
        /\ UNCHANGED <<sub, instance, cursor, lastSeq, lastProcess, view, version, back, hold, call, seen>>
    BY DEF PublisherEnds, subscriber, last
  <1>2. slots \in Seq(Messages) /\ writeIndex \in Nat
    BY DEF Structure, Types
  <1>3. CASE sub = "off"
    <2>1. /\ magic' = FALSE /\ slots' = <<>> /\ writeIndex' = 0 /\ consumerRead' = 0
          /\ consumerId' = 0 /\ consumerFresh' = FALSE /\ dropped' = 0
      BY <1>3 DEF PublisherEnds, CloseRegion
    <2>2. <<>> \in Seq(Messages) /\ Len(<<>>) <= 0 /\ DOMAIN <<>> = {}
      BY NoSlots
    <2> QED BY <1>1, <1>3, <2>1, <2>2
  <1>4. CASE sub # "off"
    <2>1. slots' = Cut(slots, writeIndex) /\ UNCHANGED <<magic, writeIndex, consumerRead, dropped, consumer>>
      BY <1>4 DEF PublisherEnds, Cut
    <2> QED BY <1>1, <1>2, <2>1, SlotsCut
  <1> QED BY <1>3, <1>4

\* What WriteUpsert puts into the ring.
Copied(t, k) == [key |-> k, version |-> batch[t][k], seq |-> pubSeq + 1, process |-> process]

\* The message that WriteCopy puts is one the ring may hold.
LEMMA CopiedEntry ==
    ASSUME Structure, NEW t \in Threads, NEW k \in Keys, WriteCopy(t, k)
    PROVE  /\ Copied(t, k) \in Entries /\ Copied(t, k) \in Messages /\ Copied(t, k) # Zeroed
           /\ slots' = Written(slots, writeIndex, Copied(t, k))
  <1>1. batch[t] \in VersionMaps /\ k \in DOMAIN batch[t] /\ pubSeq \in Nat /\ process \in Nat
    BY DEF WriteCopy, Structure, Types
  <1>2. batch[t][k] \in 1 .. MaxVersion
    BY <1>1, MapShape
  <1>3. batch[t][k] # 0
    BY <1>2, DirectAssumption
  <1> QED BY <1>1, <1>2 DEF WriteCopy, Copied, Written, Entries, Messages, Zeroed

\* Each step keeps the types.
LEMMA TypesStep ==
    ASSUME Structure, [Next]_vars
    PROVE  Types'
  <1>1. CASE UNCHANGED vars
    BY <1>1 DEF vars, maps, flushing, replaying, ring, subscriber, last, bounds, Structure, Types
  <1>2. CASE StartCheck
    BY <1>2 DEF StartCheck, maps, flushing, replaying, ring, subscriber, last, Structure, Types
  <1>3. CASE StartInitialize
    BY <1>3, NoSlots DEF StartInitialize, maps, flushing, replaying, subscriber, last, bounds,
       Structure, Types, InitializeHeader
  <1>4. CASE StartRunning
    BY <1>4 DEF StartRunning, maps, flushing, replaying, ring, subscriber, last, bounds, Structure,
       Types
  <1>5. ASSUME NEW k \in Keys, StoreRetained(k) PROVE Types'
    <2> DEFINE one == [j \in {k} |-> version + 1]
    <2>0. version \in 0 .. MaxVersion /\ version < MaxVersion
      BY <1>5 DEF StoreRetained, Structure, Types
    <2>1. version + 1 \in 1 .. MaxVersion /\ version + 1 \in 0 .. MaxVersion
      BY <2>0, DirectAssumption
    <2>2. one \in VersionMaps
      BY <2>1, MapOne
    <2>3. retained' = Merged(retained, one) /\ retained \in VersionMaps
      BY <1>5 DEF StoreRetained, Structure, Types
    <2> HIDE DEF one
    <2>4. retained' \in VersionMaps
      BY <2>2, <2>3, MapMerged
    <2> QED BY <1>5, <2>1, <2>4 DEF StoreRetained, flushing, replaying, ring, subscriber, last,
       Structure, Types
  <1>6. CASE StorePending
    <2> DEFINE one == [k \in {call[1]} |-> call[2]]
    <2>1. call[1] \in Keys /\ call[2] \in 1 .. MaxVersion
      <3>1. retained \in VersionMaps /\ call[1] \in DOMAIN retained /\ call[2] = retained[call[1]]
        BY <1>6 DEF StorePending, Structure, Types, Holding
      <3> QED BY <3>1, MapShape
    <2>2. one \in VersionMaps
      BY <2>1, MapOne
    <2>3. pending' = Merged(pending, one) /\ pending \in VersionMaps
      BY <1>6 DEF StorePending, Structure, Types
    <2> HIDE DEF one
    <2>4. pending' \in VersionMaps
      BY <2>2, <2>3, MapMerged
    <2> QED BY <1>6, <2>4 DEF StorePending, flushing, replaying, ring, subscriber, last, bounds,
       Structure, Types
  <1>7. ASSUME NEW place \in {"idle", "stop"}, CallFlushNow(place) PROVE Types'
    BY <1>7 DEF CallFlushNow, maps, replaying, ring, subscriber, last, bounds, Structure, Types
  <1>8. ASSUME NEW t \in Threads, FlushSwap(t) PROVE Types'
    BY <1>8, Nothings DEF FlushSwap, replaying, ring, subscriber, last, bounds, Structure, Types
  <1>9. ASSUME NEW t \in Threads, WriteCommit(t) PROVE Types'
    <2>1. /\ batch' = [batch EXCEPT ![t] = Without(batch[t], hold[t][1])]
          /\ batch[t] \in VersionMaps /\ hold[t] \in Keys \X Nat
      BY <1>9 DEF WriteCommit, Structure, Types, Holding
    <2>2. Without(batch[t], hold[t][1]) \in VersionMaps /\ hold[t][2] \in Nat
      BY <2>1, MapWithout
    <2>3. batch' \in [Threads -> VersionMaps]
      BY <2>1, <2>2 DEF Structure, Types
    <2> QED BY <1>9, <2>2, HoldsOf DEF WriteCommit, maps, replaying, subscriber, last, bounds,
       Structure, Types
  <1>10. ASSUME NEW t \in Threads, FlushReturn(t) PROVE Types'
    BY <1>10 DEF FlushReturn, maps, flushing, replaying, ring, subscriber, last, bounds, Structure,
       Types
  <1>11. ASSUME NEW t \in Threads, NEW k \in Keys, WriteCopy(t, k) PROVE Types'
    <2>1. /\ slots' = Written(slots, writeIndex, Copied(t, k))
          /\ hold' = [hold EXCEPT ![t] = <<k, writeIndex + 1>>]
      BY <1>11 DEF WriteCopy, Written, Copied
    <2>2. slots' \in Seq(Messages)
      BY <1>11, <2>1, CopiedEntry, SlotsWritten DEF Structure, Types
    <2>3. hold' \in [Threads -> Holds]
      <3>0. writeIndex \in Nat /\ hold \in [Threads -> Holds]
        BY DEF Structure, Types
      <3>1. writeIndex + 1 \in Nat /\ hold \in [Threads -> Holds]
        BY <3>0
      <3>2. <<k, writeIndex + 1>> \in Holds
        BY <3>1, HoldsOf
      <3> QED BY <2>1, <3>1, <3>2
    <2>4. pubSeq' \in Nat
      BY <1>11, NextNumber DEF WriteCopy
    <2> QED BY <1>11, <2>2, <2>3, <2>4 DEF WriteCopy, maps, replaying, subscriber, last, bounds,
       Structure, Types
  <1>12. ASSUME NEW t \in Threads, NEW k \in Keys, WriteDrop(t, k) PROVE Types'
    <2>1. /\ batch' = [batch EXCEPT ![t] = Without(batch[t], k)]
          /\ batch[t] \in VersionMaps
      BY <1>12 DEF WriteDrop, Structure, Types
    <2>2. Without(batch[t], k) \in VersionMaps
      BY <2>1, MapWithout
    <2>3. batch' \in [Threads -> VersionMaps]
      BY <2>1, <2>2 DEF Structure, Types
    <2>4. pubSeq' \in Nat
      BY <1>12, NextNumber DEF WriteDrop
    <2> QED BY <1>12, <2>3, <2>4 DEF WriteDrop, maps, replaying, subscriber, last, bounds,
       Structure,
       Types
  <1>13. CASE StopRunning
    BY <1>13 DEF StopRunning, maps, flushing, replaying, ring, subscriber, last, bounds, Structure,
       Types
  <1>14. CASE StopJoin
    <2>0. slots' \in {slots, <<>>}
      BY <1>14 DEF StopJoin, CloseRegion, ring
    <2>1. /\ magic' \in {magic, FALSE}
          /\ writeIndex' \in {writeIndex, 0} /\ consumerRead' \in {consumerRead, 0}
      BY <1>14 DEF StopJoin, CloseRegion, ring
    <2>2. /\ slots' \in Seq(Messages) /\ magic' \in BOOLEAN
          /\ writeIndex' \in Nat /\ consumerRead' \in Nat
      <3>1. /\ slots \in Seq(Messages) /\ magic \in BOOLEAN
            /\ writeIndex \in Nat /\ consumerRead \in Nat
        BY DEF Structure, Types
      <3>2. slots' \in Seq(Messages)
        BY <2>0, <3>1, NoSlots
      <3>3. magic' \in BOOLEAN
        BY <2>1, <3>1
      <3>4. writeIndex' \in Nat /\ consumerRead' \in Nat
        BY <2>1, <3>1
      <3> QED BY <3>2, <3>3, <3>4
    <2> QED BY <1>14, <2>2 DEF StopJoin, maps, flushing, replaying, subscriber, last, bounds,
       Structure, Types
  <1>15. CASE WorkerLoop
    BY <1>15 DEF WorkerLoop, maps, flushing, ring, subscriber, last, bounds, Structure, Types
  <1>16. CASE ObserveConsumer
    BY <1>16 DEF ObserveConsumer, maps, replaying, ring, subscriber, last, bounds, Structure, Types
  <1>17. CASE CopyRetained
    BY <1>17 DEF CopyRetained, maps, flushing, ring, subscriber, last, bounds, Structure, Types
  <1>18. CASE MergeSnapshot
    <2>1. pending' \in VersionMaps
      BY <1>18, MapMerged DEF MergeSnapshot, Structure, Types
    <2> QED BY <1>18, <2>1, Nothings DEF MergeSnapshot, flushing, ring, subscriber, last, bounds,
       Structure, Types
  <1>19. CASE ConsumerGoesQuiet
    BY <1>19 DEF ConsumerGoesQuiet, maps, flushing, replaying, ring, subscriber, last, Structure,
       Types
  <1>20. CASE SubscriberStart
    BY <1>20 DEF last, SubscriberStart, maps, flushing, replaying, ring, bounds, Structure, Types
  <1>21. CASE SubscriberInitialize
    BY <1>21 DEF last, SubscriberInitialize, maps, flushing, replaying, bounds, Structure, Types,
       InitializeHeader
  <1>22. CASE SubscriberAttach
    BY <1>22, Nothings DEF last, SubscriberAttach, maps, flushing, replaying, bounds, Structure,
       Types
  <1>23. CASE Drain
    <2> DEFINE m == IF cursor + 1 \in DOMAIN slots THEN slots[cursor + 1] ELSE Zeroed
    <2>1. CASE m = Zeroed
      BY <1>23, <2>1 DEF last, Drain, maps, flushing, replaying, ring, bounds, Structure, Types
    <2>2. CASE m # Zeroed
      <3>1. m \in Entries
        BY <2>2, SlotEntries
      <3>2. /\ view' = Merged(view, [k \in {m.key} |-> m.version]) /\ lastSeq' = m.seq
            /\ lastProcess' = m.process /\ cursor' = cursor + 1
        BY <1>23, <2>2 DEF Drain
      <3> HIDE DEF m
      <3>3. m.key \in Keys /\ m.version \in 1 .. MaxVersion /\ m.seq \in Nat /\ m.process \in Nat
        BY <3>1 DEF Entries
      <3>4. [k \in {m.key} |-> m.version] \in VersionMaps
        BY <3>3, MapOne
      <3>5. view' \in VersionMaps
        BY <3>2, <3>4, MapMerged DEF Structure, Types
      <3>6. UNCHANGED sub
        BY <1>23, <2>2 DEF Drain, m
      <3> QED BY <1>23, <3>2, <3>3, <3>5, <3>6 DEF Drain, maps, flushing, replaying, ring,
         bounds, Structure, Types
    <2> QED BY <2>1, <2>2
  <1>24. CASE DrainEnd
    BY <1>24 DEF last, DrainEnd, maps, flushing, replaying, ring, bounds, Structure, Types
  <1>25. CASE ClaimConsumer
    BY <1>25 DEF last, ClaimConsumer, maps, flushing, replaying, ring, bounds, Structure, Types
  <1>26. CASE PublishReadIndex
    BY <1>26 DEF last, PublishReadIndex, maps, flushing, replaying, bounds, Structure, Types
  <1>27. CASE ConsumerHeartbeat
    BY <1>27 DEF last, ConsumerHeartbeat, maps, flushing, replaying, ring, bounds, Structure, Types
  <1>28. CASE SubscriberStop
    <2>0. slots' \in {slots, <<>>}
      BY <1>28 DEF SubscriberStop, CloseRegion, ring
    <2>1. /\ magic' \in {magic, FALSE}
          /\ writeIndex' \in {writeIndex, 0} /\ consumerRead' \in {consumerRead, 0}
      BY <1>28 DEF SubscriberStop, CloseRegion, ring
    <2>2. /\ slots' \in Seq(Messages) /\ magic' \in BOOLEAN
          /\ writeIndex' \in Nat /\ consumerRead' \in Nat
      <3>1. /\ slots \in Seq(Messages) /\ magic \in BOOLEAN
            /\ writeIndex \in Nat /\ consumerRead \in Nat
        BY DEF Structure, Types
      <3>2. slots' \in Seq(Messages)
        BY <2>0, <3>1, NoSlots
      <3>3. magic' \in BOOLEAN
        BY <2>1, <3>1
      <3>4. writeIndex' \in Nat /\ consumerRead' \in Nat
        BY <2>1, <3>1
      <3> QED BY <3>2, <3>3, <3>4
    <2> QED BY <1>28, <2>2 DEF last, SubscriberStop, maps, flushing, replaying, bounds, Structure,
       Types
  <1>29. CASE PublisherEnds
    <2>1. slots' \in Seq(Messages)
      BY <1>29, ProcessEnded
    <2>2. batch' = [t \in Threads |-> Nothing] /\ Nothing \in VersionMaps
      BY <1>29, ProcessEnded, Nothings
    <2>3. batch' \in [Threads -> VersionMaps]
      BY <2>2
    <2>4. /\ writeIndex' \in Nat /\ consumerRead' \in Nat /\ magic' \in BOOLEAN
          /\ process' \in Nat /\ pubSeq' \in Nat
      <3>1. /\ writeIndex \in Nat /\ consumerRead \in Nat /\ magic \in BOOLEAN /\ process \in Nat
        BY DEF Structure, Types
      <3>2. /\ \/ UNCHANGED <<magic, writeIndex, consumerRead>>
               \/ magic' = FALSE /\ writeIndex' = 0 /\ consumerRead' = 0
            /\ process' = process + 1 /\ pubSeq' = 0
        BY <1>29, ProcessEnded
      <3>3. magic' \in BOOLEAN
        BY <3>1, <3>2
      <3>4. writeIndex' \in Nat /\ consumerRead' \in Nat /\ process' \in Nat /\ pubSeq' \in Nat
        BY <3>1, <3>2
      <3> QED BY <3>3, <3>4
    <2>5. /\ running' = FALSE
          /\ retained' = Nothing /\ pending' = Nothing /\ snapshot' = Nothing
          /\ UNCHANGED <<sub, cursor, lastSeq, lastProcess, view, version, back, hold>>
      BY <1>29, ProcessEnded
    <2> QED BY <2>1, <2>2, <2>3, <2>4, <2>5 DEF Structure, Types
  <1> QED BY <1>1, <1>2, <1>3, <1>4, <1>5, <1>6, <1>7, <1>8, <1>9, <1>10, <1>11, <1>12, <1>13,
     <1>14, <1>15, <1>16, <1>17, <1>18, <1>19, <1>20, <1>21, <1>22, <1>23, <1>24, <1>25, <1>26,
     <1>27, <1>28, <1>29, NextKinds

\* Each step keeps the threads to their places.
LEMMA ThreadingStep ==
    ASSUME Structure, [Next]_vars
    PROVE  Threading'
  <1>1. CASE UNCHANGED vars
    BY <1>1 DEF vars, flushing, At, Structure, Threading
  <1>2. CASE StartCheck
    BY <1>2 DEF StartCheck, flushing, At, Goto, Structure, Threading, Threads, AppPlaces, Place
  <1>3. CASE StartInitialize
    BY <1>3 DEF StartInitialize, flushing, At, Goto, Structure, Threading, Threads, AppPlaces,
       Place
  <1>4. CASE StartRunning
    BY <1>4 DEF StartRunning, flushing, Structure, Threading, Threads, AppPlaces, WorkerPlaces,
       Place
  <1>5. ASSUME NEW k \in Keys, StoreRetained(k) PROVE Threading'
    BY <1>5 DEF StoreRetained, flushing, At, Goto, Structure, Threading, Threads, App, Worker,
       AppPlaces, Place
  <1>6. CASE StorePending
    BY <1>6 DEF StorePending, flushing, At, Goto, Structure, Threading, Threads, App, Worker,
       AppPlaces, Place
  <1>7. ASSUME NEW place \in {"idle", "stop"}, CallFlushNow(place) PROVE Threading'
    BY <1>7 DEF CallFlushNow, Goto, Structure, Threading, Threads, App, Worker, AppPlaces, Place
  <1>8. ASSUME NEW t \in Threads, FlushSwap(t) PROVE Threading'
    <2>1. /\ pc[t] = "flush" /\ UNCHANGED <<running, back>>
          /\ pc' = [pc EXCEPT ![t] = "write"] \/ (~running /\ pc' = [pc EXCEPT ![t] = back[t]])
      BY <1>8 DEF FlushSwap, At, Goto
    <2>2. App \in Threads /\ Worker \in Threads /\ App # Worker /\ pc \in [Threads -> Place] /\ Threading
      BY DEF Threads, App, Worker, Structure, Threading
    <2>3. CASE t = App
      <3>1. pc' = [pc EXCEPT ![App] = "write"] /\ running
        BY <2>1, <2>2, <2>3 DEF Threading
      <3>2. pc'[App] = "write" /\ pc'[Worker] = pc[Worker] /\ pc' \in [Threads -> Place]
        BY <2>2, <3>1 DEF Place
      <3> QED BY <2>1, <2>2, <2>3, <3>1, <3>2 DEF Threading, At, AppPlaces
    <2>4. CASE t = Worker
      <3>1. pc[Worker] = "flush" /\ back[Worker] = "loop"
        BY <2>1, <2>2, <2>4 DEF Threading
      <3>2. pc'[Worker] \in {"write", "loop"} /\ pc'[App] = pc[App] /\ pc' \in [Threads -> Place]
        BY <2>1, <2>2, <2>4, <3>1 DEF Place
      <3> QED BY <2>1, <2>2, <3>1, <3>2 DEF Threading, At, WorkerPlaces
    <2> QED BY <2>3, <2>4 DEF Threads
  <1>9. ASSUME NEW t \in Threads, WriteCommit(t) PROVE Threading'
    BY <1>9 DEF WriteCommit, At, Goto, Structure, Threading, Threads, AppPlaces, WorkerPlaces,
       Place
  <1>10. ASSUME NEW t \in Threads, FlushReturn(t) PROVE Threading'
    BY <1>10 DEF FlushReturn, flushing, At, Goto, Structure, Threading, Threads, AppPlaces,
       WorkerPlaces, Place
  <1>11. ASSUME NEW t \in Threads, NEW k \in Keys, WriteCopy(t, k) PROVE Threading'
    <2>1. /\ pc[t] = "write" /\ pc' = [pc EXCEPT ![t] = "commit"]
          /\ UNCHANGED <<running, back>>
      BY <1>11 DEF WriteCopy, At, Goto
    <2> QED BY <2>1 DEF Structure, Threading, At, AppPlaces, WorkerPlaces, Place
  <1>12. ASSUME NEW t \in Threads, NEW k \in Keys, WriteDrop(t, k) PROVE Threading'
    BY <1>12 DEF WriteDrop, At, Structure, Threading
  <1>13. CASE StopRunning
    BY <1>13 DEF StopRunning, flushing, At, Goto, Structure, Threading, Threads, App, Worker,
       AppPlaces, Place
  <1>14. CASE StopJoin
    BY <1>14 DEF StopJoin, flushing, At, Goto, Structure, Threading, Threads, AppPlaces, Place
  <1>15. CASE WorkerLoop
    BY <1>15 DEF WorkerLoop, flushing, Goto, Structure, Threading, Threads, App, Worker,
       WorkerPlaces, Place
  <1>16. CASE ObserveConsumer
    BY <1>16 DEF ObserveConsumer, At, Goto, last, Structure, Types, Threading, Threads, App, Worker,
       WorkerPlaces, Place
  <1>17. CASE CopyRetained
    BY <1>17 DEF CopyRetained, flushing, At, Goto, Structure, Threading, Threads, WorkerPlaces,
       Place
  <1>18. CASE MergeSnapshot
    BY <1>18 DEF MergeSnapshot, flushing, At, Goto, Structure, Threading, Threads, WorkerPlaces,
       Place
  <1>19. CASE ConsumerGoesQuiet
    BY <1>19 DEF ConsumerGoesQuiet, flushing, At, Structure, Threading
  <1>20. CASE SubscriberStart
    BY <1>20 DEF SubscriberStart, flushing, At, Structure, Threading
  <1>21. CASE SubscriberInitialize
    BY <1>21 DEF SubscriberInitialize, flushing, At, Structure, Threading
  <1>22. CASE SubscriberAttach
    BY <1>22 DEF SubscriberAttach, flushing, At, Structure, Threading
  <1>23. CASE Drain
    BY <1>23 DEF Drain, flushing, At, Structure, Threading
  <1>24. CASE DrainEnd
    BY <1>24 DEF DrainEnd, flushing, At, Structure, Threading
  <1>25. CASE ClaimConsumer
    BY <1>25 DEF ClaimConsumer, flushing, At, Structure, Threading
  <1>26. CASE PublishReadIndex
    BY <1>26 DEF PublishReadIndex, flushing, At, Structure, Threading
  <1>27. CASE ConsumerHeartbeat
    BY <1>27 DEF ConsumerHeartbeat, flushing, At, Structure, Threading
  <1>28. CASE SubscriberStop
    BY <1>28 DEF SubscriberStop, flushing, At, Structure, Threading
  <1>29. CASE PublisherEnds
    <2>1. pc' = [t \in Threads |-> IF t = App THEN "idle" ELSE "ended"] /\ running' = FALSE
      BY <1>29, ProcessEnded
    <2>2. pc'[App] = "idle" /\ pc'[Worker] = "ended" /\ pc' \in [Threads -> Place]
      BY <2>1 DEF Threads, App, Worker, Place
    <2>3. UNCHANGED back
      BY <1>29, ProcessEnded
    <2> QED BY <2>1, <2>2, <2>3 DEF Structure, Threading, AppPlaces, WorkerPlaces, At
  <1> QED BY <1>1, <1>2, <1>3, <1>4, <1>5, <1>6, <1>7, <1>8, <1>9, <1>10, <1>11, <1>12, <1>13,
     <1>14, <1>15, <1>16, <1>17, <1>18, <1>19, <1>20, <1>21, <1>22, <1>23, <1>24, <1>25, <1>26,
     <1>27, <1>28, <1>29, NextKinds

\* Each step leaves a thread what it needs, and nothing it does not.
LEMMA HoldingStep ==
    ASSUME Structure, [Next]_vars
    PROVE  Holding'
  <1>1. CASE UNCHANGED vars
    BY <1>1 DEF vars, maps, flushing, replaying, At, Structure, Holding, Writing
  <1>2. CASE StartCheck
    BY <1>2 DEF StartCheck, flushing, replaying, At, Goto, Structure, Threading, Holding,
       Writing
  <1>3. CASE StartInitialize
    BY <1>3 DEF StartInitialize, flushing, replaying, At, Goto, Structure, Threading, Holding,
       Writing
  <1>4. CASE StartRunning
    BY <1>4 DEF StartRunning, flushing, replaying, At, Structure, Threading, Holding, Threads,
       Writing
  <1>5. ASSUME NEW k \in Keys, StoreRetained(k) PROVE Holding'
    <2> DEFINE one == [j \in {k} |-> version + 1]
    <2>0. version \in 0 .. MaxVersion /\ version < MaxVersion
      BY <1>5 DEF StoreRetained, last, Structure, Types
    <2>1. version + 1 \in 1 .. MaxVersion
      BY <2>0, DirectAssumption
    <2>2. one \in VersionMaps /\ DOMAIN one = {k} /\ one[k] = version + 1
      BY <2>1, MapOne
    <2>3. retained' = Merged(retained, one)
      BY <1>5 DEF StoreRetained
    <2> HIDE DEF one
    <2>4. k \in DOMAIN retained' /\ retained'[k] = version + 1
      <3>1. retained \in VersionMaps /\ one \in VersionMaps
        BY <2>2 DEF Structure, Types
      <3>2. /\ DOMAIN Merged(retained, one) = DOMAIN retained \cup DOMAIN one
            /\ \A j \in DOMAIN retained \cup DOMAIN one :
                  Merged(retained, one)[j] = IF j \in DOMAIN one THEN one[j] ELSE retained[j]
        BY <3>1, MapMerged
      <3> DEFINE merged == Merged(retained, one)
      <3> HIDE DEF merged
      <3>3. k \in DOMAIN merged /\ merged[k] = version + 1
        BY <2>2, <3>2 DEF merged
      <3> QED BY <2>3, <3>3 DEF merged
    <2>5. call' = <<k, version + 1>> /\ pc[App] = "idle" /\ pc' = [pc EXCEPT ![App] = "store"]
      BY <1>5 DEF StoreRetained, At, Goto
    <2>6. call'[1] \in DOMAIN retained' /\ call'[2] = retained'[call'[1]]
      BY <2>4, <2>5
    <2>7. UNCHANGED <<batch, hold, snapshot>>
      BY <1>5 DEF StoreRetained, flushing, replaying
    <2> QED BY <2>5, <2>6, <2>7 DEF Structure, Holding, At, Writing
  <1>6. CASE StorePending
    BY <1>6 DEF StorePending, flushing, replaying, At, Goto, Structure, Threading, Holding,
       Threads, Writing
  <1>7. ASSUME NEW place \in {"idle", "stop"}, CallFlushNow(place) PROVE Holding'
    BY <1>7 DEF CallFlushNow, replaying, At, Goto, Structure, Threading, Holding, Threads,
       Writing
  <1>8. ASSUME NEW t \in Threads, FlushSwap(t) PROVE Holding'
    <2>1. /\ pc[t] = "flush" /\ UNCHANGED <<running, hold, retained, call, snapshot>>
          /\ \/ pc' = [pc EXCEPT ![t] = "write"] /\ batch' = [batch EXCEPT ![t] = pending]
             \/ pc' = [pc EXCEPT ![t] = back[t]] /\ batch' = batch
      BY <1>8 DEF FlushSwap, At, Goto, replaying
    <2>2. /\ pc \in [Threads -> Place] /\ batch \in [Threads -> VersionMaps] /\ batch[t] = Nothing
          /\ App \in Threads /\ Worker \in Threads
      BY <2>1 DEF Structure, Types, Threading, Holding, At, Writing, Threads
    <2>3. back[t] \in {"idle", "stop", "loop"}
      BY <2>1 DEF Structure, Types
    <2>4. /\ pc'[t] \in {"write", "idle", "stop", "loop"} /\ (pc'[t] # "write" => batch'[t] = Nothing)
          /\ \A r \in Threads : r # t => pc'[r] = pc[r] /\ batch'[r] = batch[r]
      BY <2>1, <2>2, <2>3
    <2>5. \A r \in Threads : /\ pc'[r] = "commit" => r # t
                            /\ (pc'[r] \in {"merge", "store"} <=> pc[r] \in {"merge", "store"})
                            /\ (pc'[r] = "merge" <=> pc[r] = "merge")
                            /\ (pc'[r] = "store" <=> pc[r] = "store")
      BY <2>1, <2>4
    <2> QED BY <2>1, <2>2, <2>4, <2>5 DEF Structure, Holding, At, Writing
  <1>9. ASSUME NEW t \in Threads, WriteCommit(t) PROVE Holding'
    BY <1>9 DEF WriteCommit, maps, replaying, At, Goto, Structure, Threading, Holding, Threads,
       Writing
  <1>10. ASSUME NEW t \in Threads, FlushReturn(t) PROVE Holding'
    BY <1>10 DEF FlushReturn, maps, flushing, replaying, At, Goto, Structure, Threading,
       Holding, Threads, Writing
  <1>11. ASSUME NEW t \in Threads, NEW k \in Keys, WriteCopy(t, k) PROVE Holding'
    <2>1. /\ hold' = [hold EXCEPT ![t] = <<k, writeIndex + 1>>] /\ k \in DOMAIN batch[t]
          /\ pc[t] = "write" /\ pc' = [pc EXCEPT ![t] = "commit"]
          /\ UNCHANGED <<batch, snapshot, retained, call>>
      BY <1>11 DEF WriteCopy, At, Goto, maps, replaying
    <2>2. hold'[t] = <<k, writeIndex + 1>> /\ writeIndex + 1 \in Nat
      <3>1. writeIndex \in Nat /\ hold \in [Threads -> Holds]
        BY DEF Structure, Types
      <3> QED BY <2>1, <3>1
    <2>3. hold'[t] \in Keys \X Nat /\ hold'[t][1] \in DOMAIN batch[t]
      BY <2>1, <2>2
    <2>4. \A r \in Threads : r # t => hold'[r] = hold[r] /\ pc'[r] = pc[r]
      BY <2>1 DEF Structure, Types, Threading
    <2>5. pc'[t] = "commit"
      BY <2>1 DEF Structure, Threading
    <2>6. ASSUME NEW r \in Threads
          PROVE  /\ At(r, "commit")' => hold'[r] \in Keys \X Nat /\ hold'[r][1] \in DOMAIN batch'[r]
                 /\ ~Writing(r)' => batch'[r] = Nothing
      <3>1. CASE r = t
        BY <2>1, <2>3, <2>5, <3>1 DEF At, Writing
      <3>2. CASE r # t
        BY <2>1, <3>2 DEF At, Writing, Structure, Holding
      <3> QED BY <3>1, <3>2
    <2>7. /\ ~At(Worker, "merge")' => snapshot' = Nothing
          /\ At(App, "store")' => call'[1] \in DOMAIN retained' /\ call'[2] = retained'[call'[1]]
      BY <2>1 DEF At, Structure, Holding
    <2> QED BY <2>6, <2>7 DEF Holding
  <1>12. ASSUME NEW t \in Threads, NEW k \in Keys, WriteDrop(t, k) PROVE Holding'
    BY <1>12 DEF WriteDrop, maps, replaying, At, Structure, Holding, Writing
  <1>13. CASE StopRunning
    BY <1>13 DEF StopRunning, flushing, replaying, At, Goto, Structure, Threading, Holding,
       Threads, Writing
  <1>14. CASE StopJoin
    BY <1>14 DEF StopJoin, flushing, replaying, At, Goto, Structure, Threading, Holding, Writing
  <1>15. CASE WorkerLoop
    BY <1>15 DEF WorkerLoop, maps, flushing, At, Goto, Structure, Threading, Holding, Threads,
       Writing
  <1>16. CASE ObserveConsumer
    BY <1>16 DEF ObserveConsumer, maps, replaying, At, Goto, Structure, Threading, Holding,
       Threads, Writing
  <1>17. CASE CopyRetained
    BY <1>17 DEF CopyRetained, maps, flushing, At, Goto, Structure, Threading, Holding, Threads,
       Writing
  <1>18. CASE MergeSnapshot
    BY <1>18 DEF MergeSnapshot, flushing, At, Goto, Structure, Threading, Holding, Threads,
       Writing
  <1>19. CASE ConsumerGoesQuiet
    BY <1>19 DEF ConsumerGoesQuiet, maps, flushing, replaying, At, Structure, Holding, Writing
  <1>20. CASE SubscriberStart
    BY <1>20 DEF SubscriberStart, maps, flushing, replaying, At, Structure, Holding, Writing
  <1>21. CASE SubscriberInitialize
    BY <1>21 DEF SubscriberInitialize, maps, flushing, replaying, At, Structure, Holding,
       Writing
  <1>22. CASE SubscriberAttach
    BY <1>22 DEF SubscriberAttach, maps, flushing, replaying, At, Structure, Holding, Writing
  <1>23. CASE Drain
    BY <1>23 DEF Drain, maps, flushing, replaying, At, Structure, Holding, Writing
  <1>24. CASE DrainEnd
    BY <1>24 DEF DrainEnd, maps, flushing, replaying, At, Structure, Holding, Writing
  <1>25. CASE ClaimConsumer
    BY <1>25 DEF ClaimConsumer, maps, flushing, replaying, At, Structure, Holding, Writing
  <1>26. CASE PublishReadIndex
    BY <1>26 DEF PublishReadIndex, maps, flushing, replaying, At, Structure, Holding, Writing
  <1>27. CASE ConsumerHeartbeat
    BY <1>27 DEF ConsumerHeartbeat, maps, flushing, replaying, At, Structure, Holding, Writing
  <1>28. CASE SubscriberStop
    BY <1>28 DEF SubscriberStop, maps, flushing, replaying, At, Structure, Holding, Writing
  <1>29. CASE PublisherEnds
    <2>1. pc' = [t \in Threads |-> IF t = App THEN "idle" ELSE "ended"] /\ running' = FALSE
      BY <1>29, ProcessEnded
    <2>2. pc'[App] = "idle" /\ pc'[Worker] = "ended" /\ pc' \in [Threads -> Place]
      BY <2>1 DEF Threads, App, Worker, Place
    <2>3. \A t \in Threads : pc'[t] \in {"idle", "ended"}
      BY <2>1
    <2>4. snapshot' = Nothing /\ \A t \in Threads : batch'[t] = Nothing
      BY <1>29, ProcessEnded
    <2> QED BY <2>2, <2>3, <2>4 DEF Holding, At, Writing
  <1> QED BY <1>1, <1>2, <1>3, <1>4, <1>5, <1>6, <1>7, <1>8, <1>9, <1>10, <1>11, <1>12, <1>13,
     <1>14, <1>15, <1>16, <1>17, <1>18, <1>19, <1>20, <1>21, <1>22, <1>23, <1>24, <1>25, <1>26,
     <1>27, <1>28, <1>29, NextKinds

\* Each step keeps the region while it is used.
LEMMA MappedStep ==
    ASSUME Structure, [Next]_vars
    PROVE  Mapped'
  <1>1. CASE UNCHANGED vars
    BY <1>1 DEF vars, ring, subscriber, last, At, Structure, Mapped, Looping
  <1>2. CASE StartCheck
    BY <1>2 DEF StartCheck, ring, subscriber, last, At, Goto, Structure, Threading, Mapped, Looping
  <1>3. CASE StartInitialize
    BY <1>3 DEF StartInitialize, At, Goto, Structure, Threading, Mapped, Threads,
       InitializeHeader
  <1>4. CASE StartRunning
    BY <1>4 DEF StartRunning, ring, At, Structure, Threading, Mapped, Threads
  <1>5. ASSUME NEW k \in Keys, StoreRetained(k) PROVE Mapped'
    BY <1>5 DEF StoreRetained, ring, subscriber, last, At, Goto, Structure, Threading, Mapped,
       Looping
  <1>6. CASE StorePending
    BY <1>6 DEF StorePending, ring, subscriber, last, At, Goto, Structure, Threading, Mapped,
       Looping
  <1>7. ASSUME NEW place \in {"idle", "stop"}, CallFlushNow(place) PROVE Mapped'
    BY <1>7 DEF CallFlushNow, ring, At, Goto, Structure, Threading, Mapped
  <1>8. ASSUME NEW t \in Threads, FlushSwap(t) PROVE Mapped'
    BY <1>8 DEF FlushSwap, ring, At, Goto, Structure, Threading, Mapped, Threads
  <1>9. ASSUME NEW t \in Threads, WriteCommit(t) PROVE Mapped'
    BY <1>9 DEF WriteCommit, At, Goto, Structure, Threading, Mapped, Threads
  <1>10. ASSUME NEW t \in Threads, FlushReturn(t) PROVE Mapped'
    BY <1>10 DEF FlushReturn, ring, At, Goto, Structure, Threading, Mapped, Threads
  <1>11. ASSUME NEW t \in Threads, NEW k \in Keys, WriteCopy(t, k) PROVE Mapped'
    <2>1. /\ pc[t] = "write" /\ pc' = [pc EXCEPT ![t] = "commit"]
          /\ UNCHANGED <<running, magic, sub, writeIndex, consumerRead, cursor>>
      BY <1>11 DEF WriteCopy, At, Goto, subscriber, last
    <2>2. magic /\ pc'[App] # "initialize"
      BY <2>1 DEF Structure, Threading, Mapped, At, Threads
    <2> QED BY <2>1, <2>2 DEF Mapped, At, Looping
  <1>12. ASSUME NEW t \in Threads, NEW k \in Keys, WriteDrop(t, k) PROVE Mapped'
    BY <1>12 DEF WriteDrop, At, Structure, Threading, Mapped, Threads
  <1>13. CASE StopRunning
    BY <1>13 DEF StopRunning, ring, At, Goto, Structure, Threading, Mapped
  <1>14. CASE StopJoin
    BY <1>14 DEF StopJoin, ring, subscriber, last, At, Goto, Structure, Threading, Mapped, Threads,
       Looping, CloseRegion
  <1>15. CASE WorkerLoop
    BY <1>15 DEF WorkerLoop, ring, At, Goto, Structure, Threading, Mapped, Threads
  <1>16. CASE ObserveConsumer
    BY <1>16 DEF ObserveConsumer, ring, At, Goto, Structure, Threading, Mapped, Threads
  <1>17. CASE CopyRetained
    BY <1>17 DEF CopyRetained, ring, At, Goto, Structure, Threading, Mapped, Threads
  <1>18. CASE MergeSnapshot
    BY <1>18 DEF MergeSnapshot, ring, At, Goto, Structure, Threading, Mapped, Threads
  <1>19. CASE ConsumerGoesQuiet
    BY <1>19 DEF ConsumerGoesQuiet, ring, subscriber, last, At, Structure, Mapped, Looping
  <1>20. CASE SubscriberStart
    BY <1>20 DEF SubscriberStart, ring, At, Structure, Mapped, Looping
  <1>21. CASE SubscriberInitialize
    BY <1>21 DEF SubscriberInitialize, Mapped, Looping, InitializeHeader
  <1>22. CASE SubscriberAttach
    BY <1>22 DEF SubscriberAttach, At, Structure, Mapped
  <1>23. CASE Drain
    BY <1>23 DEF Drain, ring, At, Structure, Mapped, Looping
  <1>24. CASE DrainEnd
    BY <1>24 DEF DrainEnd, ring, At, Structure, Mapped, Looping
  <1>25. CASE ClaimConsumer
    BY <1>25 DEF ClaimConsumer, ring, At, Structure, Mapped, Looping
  <1>26. CASE PublishReadIndex
    BY <1>26 DEF PublishReadIndex, At, Structure, Mapped, Looping
  <1>27. CASE ConsumerHeartbeat
    BY <1>27 DEF ConsumerHeartbeat, ring, At, Structure, Mapped, Looping
  <1>28. CASE SubscriberStop
    BY <1>28 DEF SubscriberStop, ring, At, Structure, Mapped, Looping, CloseRegion,
       PublisherOpen
  <1>29. CASE PublisherEnds
    <2>1. pc' = [t \in Threads |-> IF t = App THEN "idle" ELSE "ended"] /\ running' = FALSE
      BY <1>29, ProcessEnded
    <2>2. pc'[App] = "idle" /\ pc'[Worker] = "ended" /\ pc' \in [Threads -> Place]
      BY <2>1 DEF Threads, App, Worker, Place
    <2>3. ~magic' => slots' = <<>> /\ writeIndex' = 0 /\ consumerRead' = 0
      <3>1. CASE UNCHANGED <<magic, writeIndex, consumerRead>>
        <4>1. ASSUME ~magic PROVE slots' = <<>> /\ writeIndex' = 0 /\ consumerRead' = 0
          <5>1. writeIndex' = 0 /\ consumerRead' = 0
            BY <3>1, <4>1 DEF Structure, Mapped
          <5>2. slots' \in Seq(Messages) /\ Len(slots') <= 0
            BY <1>29, <5>1, ProcessEnded
          <5>3. Len(slots') = 0
            BY <5>2
          <5> QED BY <5>1, <5>2, <5>3, EmptySeq
        <4> QED BY <3>1, <4>1
      <3> QED BY <1>29, <3>1, ProcessEnded
    <2>4. Looping \/ sub = "attached" => magic'
      <3>1. UNCHANGED magic \/ sub = "off"
        BY <1>29, ProcessEnded
      <3> QED BY <3>1 DEF Structure, Mapped, Looping
    <2>5. UNCHANGED sub
      BY <1>29, ProcessEnded
    <2> QED BY <2>1, <2>2, <2>3, <2>4, <2>5 DEF Mapped, Looping, At
  <1> QED BY <1>1, <1>2, <1>3, <1>4, <1>5, <1>6, <1>7, <1>8, <1>9, <1>10, <1>11, <1>12, <1>13,
     <1>14, <1>15, <1>16, <1>17, <1>18, <1>19, <1>20, <1>21, <1>22, <1>23, <1>24, <1>25, <1>26,
     <1>27, <1>28, <1>29, NextKinds

\* The invariant of types and places holds at first.
LEMMA StructureInit == Init => Structure
  <1> SUFFICES ASSUME Init PROVE Structure
    OBVIOUS
  <1>0. 0 \in 0 .. MaxVersion /\ 0 \in Nat
    BY DirectAssumption
  <1>1. Types
    BY <1>0, Nothings, NoSlots, HoldsOf DEF Init, Types
  <1>2. Threading /\ Holding /\ Mapped
    BY Nothings DEF Init, Threading, Holding, Mapped, Threads, App, Worker, AppPlaces,
       WorkerPlaces, Place, Looping, At
  <1> QED BY <1>1, <1>2 DEF Structure

\* Every step keeps the invariant of types and places.
LEMMA StructureStep == Structure /\ [Next]_vars => Structure'
  BY TypesStep, ThreadingStep, HoldingStep, MappedStep DEF Structure

-----------------------------------------------------------------------------
(* Positions and numbers.  With one writer at a time a frame that waits for its    *)
(* commit is the last one, and no commit moves the shared index back.               *)

\* With one writer, a thread that writes is the only one.
LEMMA TheWriter ==
    ASSUME OneWriter, NEW t \in Threads, NEW r \in Threads, Writing(t), Writing(r)
    PROVE  r = t
  BY DEF OneWriter, Threads

\* The positions and numbers are natural numbers.
LEMMA Numbers ==
    ASSUME Structure
    PROVE  /\ writeIndex \in Nat /\ consumerRead \in Nat /\ cursor \in Nat
           /\ pubSeq \in Nat /\ lastSeq \in Nat /\ process \in Nat /\ lastProcess \in Nat
           /\ Len(slots) \in Nat /\ DOMAIN slots = 1 .. Len(slots)
  <1>1. /\ writeIndex \in Nat /\ consumerRead \in Nat /\ cursor \in Nat
        /\ pubSeq \in Nat /\ lastSeq \in Nat /\ process \in Nat /\ lastProcess \in Nat
    BY DEF Structure, Types
  <1>2. slots \in Seq(Messages)
    BY DEF Structure, Types
  <1> QED BY <1>1, <1>2

\* What a commit moves the shared index to.
LEMMA CommitMoves ==
    ASSUME Structure, HoldsAhead, NEW t \in Threads, WriteCommit(t)
    PROVE  /\ writeIndex' = hold[t][2] /\ writeIndex' \in Nat /\ writeIndex < writeIndex'
           /\ Writing(t) /\ pc[t] = "commit" /\ pc' = [pc EXCEPT ![t] = "write"]
           /\ UNCHANGED <<slots, consumerRead, cursor, lastSeq, lastProcess, process, pubSeq, sub, view>>
  <1>1. /\ writeIndex' = hold[t][2] /\ pc[t] = "commit" /\ pc' = [pc EXCEPT ![t] = "write"]
        /\ UNCHANGED <<slots, consumerRead, cursor, lastSeq, lastProcess, process, pubSeq, sub, view>>
    BY DEF WriteCommit, At, Goto, subscriber, last, bounds
  <1>2. hold[t] \in Keys \X Nat /\ hold[t][2] > writeIndex
    BY <1>1 DEF Structure, Holding, HoldsAhead, At
  <1>3. hold[t][2] \in Nat
    BY <1>2
  <1> QED BY <1>1, <1>2, <1>3, Numbers DEF Writing

\* A new frame goes behind all the others.
LEMMA CopyAppends ==
    ASSUME Structure, OneWriter, HoldsAhead, NEW t \in Threads, NEW k \in Keys, WriteCopy(t, k)
    PROVE  /\ Len(slots) <= writeIndex
           /\ slots' \in Seq(Messages) /\ Len(slots') = writeIndex + 1
           /\ slots'[writeIndex + 1] = Copied(t, k)
           /\ \A i \in DOMAIN slots : slots'[i] = slots[i]
           /\ \A i \in DOMAIN slots' : i = writeIndex + 1 \/ slots'[i] = Zeroed
                                         \/ (i \in DOMAIN slots /\ slots'[i] = slots[i])
           /\ Writing(t) /\ pc[t] = "write" /\ pc' = [pc EXCEPT ![t] = "commit"]
           /\ hold' = [hold EXCEPT ![t] = <<k, writeIndex + 1>>]
           /\ pubSeq' = pubSeq + 1
           /\ UNCHANGED <<writeIndex, consumerRead, cursor, lastSeq, lastProcess, process, sub, view, batch>>
  <1>1. /\ pc[t] = "write" /\ pc' = [pc EXCEPT ![t] = "commit"]
        /\ hold' = [hold EXCEPT ![t] = <<k, writeIndex + 1>>]
        /\ pubSeq' = pubSeq + 1
        /\ UNCHANGED <<writeIndex, consumerRead, cursor, lastSeq, lastProcess, process, sub, view, batch>>
    BY DEF WriteCopy, At, Goto, subscriber, last, bounds
  <1>2. Writing(t)
    BY <1>1 DEF Writing
  <1>3. Len(slots) <= writeIndex
    <2>1. ASSUME NEW r \in Threads, At(r, "commit") PROVE FALSE
      <3>1. Writing(r)
        BY <2>1 DEF At, Writing
      <3>2. r = t
        BY <1>2, <3>1, TheWriter
      <3> QED BY <1>1, <2>1, <3>2 DEF At
    <2> QED BY <2>1 DEF HoldsAhead
  <1>4. Len(slots) <= writeIndex + 1 /\ slots \in Seq(Messages) /\ writeIndex \in Nat
    <2>1. slots \in Seq(Messages)
      BY DEF Structure, Types
    <2> QED BY <1>3, <2>1, Numbers
  <1>5. Copied(t, k) \in Messages /\ slots' = Written(slots, writeIndex, Copied(t, k))
    BY CopiedEntry
  <1>6. /\ slots' \in Seq(Messages) /\ DOMAIN slots' = DOMAIN slots \cup 1 .. writeIndex + 1
        /\ Len(slots') = writeIndex + 1
    BY <1>4, <1>5, SlotsWritten
  <1>7. DOMAIN slots = 1 .. Len(slots) /\ Len(slots) \in Nat
    BY Numbers
  <1>8. \A i \in DOMAIN slots' :
           slots'[i] = IF i = writeIndex + 1 THEN Copied(t, k)
                       ELSE IF i \in DOMAIN slots THEN slots[i] ELSE Zeroed
    BY <1>5, <1>6 DEF Written
  <1>9. writeIndex + 1 \in DOMAIN slots' /\ \A i \in DOMAIN slots : i # writeIndex + 1 /\ i \in DOMAIN slots'
    BY <1>3, <1>4, <1>6, <1>7
  <1> QED BY <1>1, <1>2, <1>3, <1>6, <1>8, <1>9

\* The region is left as it was, or gone.
LEMMA RegionCloses ==
    ASSUME NEW open, CloseRegion(open)
    PROVE  \/ UNCHANGED <<slots, writeIndex, consumerRead>>
           \/ slots' = <<>> /\ writeIndex' = 0 /\ consumerRead' = 0
  BY DEF CloseRegion, ring

\* With one writer no frame waits behind another.
LEMMA HoldsAheadStep ==
    ASSUME Structure, OneWriter, HoldsAhead, [Next]_vars
    PROVE  HoldsAhead'
  <1>1. CASE UNCHANGED vars
    BY <1>1 DEF vars, flushing, ring, At, HoldsAhead
  <1>2. CASE StartCheck
    BY <1>2 DEF StartCheck, flushing, ring, At, Goto, Threading, HoldsAhead
  <1>3. CASE StartInitialize
    BY <1>3 DEF StartInitialize, At, Goto, Structure, Threading, Mapped, Threads, HoldsAhead,
       InitializeHeader
  <1>4. CASE StartRunning
    BY <1>4 DEF StartRunning, flushing, ring, At, Structure, Threading, HoldsAhead
  <1>5. ASSUME NEW k \in Keys, StoreRetained(k) PROVE HoldsAhead'
    BY <1>5 DEF StoreRetained, flushing, ring, At, Goto, Threading, HoldsAhead
  <1>6. CASE StorePending
    BY <1>6 DEF StorePending, flushing, ring, At, Goto, Threading, HoldsAhead
  <1>7. ASSUME NEW place \in {"idle", "stop"}, CallFlushNow(place) PROVE HoldsAhead'
    BY <1>7 DEF CallFlushNow, ring, At, Goto, Threading, HoldsAhead
  <1>8. ASSUME NEW t \in Threads, FlushSwap(t) PROVE HoldsAhead'
    BY <1>8 DEF FlushSwap, ring, At, Goto, Structure, Threading, Mapped, Threads, App, Worker,
       AppPlaces, WorkerPlaces, Place, Looping, Writing, OneWriter, HoldsAhead
  <1>9. ASSUME NEW t \in Threads, WriteCommit(t) PROVE HoldsAhead'
    <2>1. ASSUME NEW r \in Threads, At(r, "commit")' PROVE FALSE
      <3>1. Writing(t) /\ pc' = [pc EXCEPT ![t] = "write"]
        BY <1>9, CommitMoves
      <3>2. r # t /\ Writing(r)
        BY <2>1, <3>1 DEF At, Writing, Structure, Threading
      <3> QED BY <3>1, <3>2, TheWriter
    <2>2. Len(slots) <= writeIndex'
      <3>1. CASE Len(slots) <= writeIndex
        BY <1>9, <3>1, CommitMoves, Numbers
      <3>2. ASSUME NEW r \in Threads, At(r, "commit"), Len(slots) <= hold[r][2]
            PROVE  Len(slots) <= writeIndex'
        <4>1. Writing(r) /\ Writing(t)
          BY <1>9, <3>2, CommitMoves DEF At, Writing
        <4>2. r = t
          BY <4>1, TheWriter
        <4> QED BY <1>9, <3>2, <4>2, CommitMoves
      <3> QED BY <3>1, <3>2 DEF HoldsAhead
    <2>3. UNCHANGED slots
      BY <1>9, CommitMoves
    <2> QED BY <2>1, <2>2, <2>3 DEF HoldsAhead
  <1>10. ASSUME NEW t \in Threads, FlushReturn(t) PROVE HoldsAhead'
    BY <1>10 DEF FlushReturn, flushing, ring, At, Goto, last, Structure, Types, Threading,
       HoldsAhead
  <1>11. ASSUME NEW t \in Threads, NEW k \in Keys, WriteCopy(t, k) PROVE HoldsAhead'
    <2>1. /\ hold' = [hold EXCEPT ![t] = <<k, writeIndex + 1>>] /\ UNCHANGED writeIndex
          /\ Len(slots') = writeIndex + 1 /\ pc' = [pc EXCEPT ![t] = "commit"] /\ Writing(t)
      BY <1>11, CopyAppends
    <2>2. hold'[t][2] = writeIndex + 1 /\ pc'[t] = "commit"
      <3>1. hold \in [Threads -> Holds] /\ pc \in [Threads -> Place]
        BY DEF Structure, Types, Threading
      <3> QED BY <2>1, <3>1
    <2>3. ASSUME NEW r \in Threads, At(r, "commit")' PROVE r = t
      <3>1. CASE r # t
        <4>1. Writing(r)
          BY <2>1, <2>3 DEF At, Writing
        <4> QED BY <2>1, <3>1, <4>1, TheWriter
      <3> QED BY <3>1
    <2>4. \A r \in Threads : At(r, "commit")' => hold'[r][2] > writeIndex'
      BY <2>1, <2>2, <2>3, Numbers
    <2>5. At(t, "commit")' /\ Len(slots') <= hold'[t][2]
      BY <2>1, <2>2, Numbers DEF At
    <2> QED BY <2>4, <2>5 DEF HoldsAhead
  <1>12. ASSUME NEW t \in Threads, NEW k \in Keys, WriteDrop(t, k) PROVE HoldsAhead'
    BY <1>12 DEF WriteDrop, At, HoldsAhead
  <1>13. CASE StopRunning
    BY <1>13 DEF StopRunning, flushing, ring, At, Goto, Threading, HoldsAhead
  <1>14. CASE StopJoin
    <2>1. \/ UNCHANGED <<slots, writeIndex, consumerRead>>
          \/ slots' = <<>> /\ writeIndex' = 0 /\ consumerRead' = 0
      BY <1>14, RegionCloses DEF StopJoin
    <2>2. UNCHANGED hold /\ \A t \in Threads : At(t, "commit")' <=> At(t, "commit")
      BY <1>14 DEF StopJoin, flushing, At, Goto
    <2>3. CASE UNCHANGED <<slots, writeIndex, consumerRead>>
      BY <2>2, <2>3 DEF HoldsAhead
    <2>4. CASE slots' = <<>> /\ writeIndex' = 0
      <3>1. ASSUME NEW t \in Threads, At(t, "commit")' PROVE hold'[t][2] > writeIndex'
        <4>1. hold[t] \in Keys \X Nat /\ hold[t][2] > writeIndex
          BY <2>2, <3>1 DEF Structure, Holding, HoldsAhead
        <4>2. hold[t][2] \in Nat
          BY <4>1
        <4> QED BY <2>2, <2>4, <4>1, <4>2, Numbers
      <3>2. Len(slots') <= writeIndex'
        BY <2>4
      <3> QED BY <3>1, <3>2 DEF HoldsAhead
    <2> QED BY <2>1, <2>3, <2>4
  <1>15. CASE WorkerLoop
    BY <1>15 DEF WorkerLoop, flushing, ring, At, Goto, Threading, HoldsAhead
  <1>16. CASE ObserveConsumer
    BY <1>16 DEF ObserveConsumer, ring, At, Goto, Threading, HoldsAhead
  <1>17. CASE CopyRetained
    BY <1>17 DEF CopyRetained, flushing, ring, At, Goto, Threading, HoldsAhead
  <1>18. CASE MergeSnapshot
    BY <1>18 DEF MergeSnapshot, flushing, ring, At, Goto, Threading, HoldsAhead
  <1>19. CASE ConsumerGoesQuiet
    BY <1>19 DEF ConsumerGoesQuiet, flushing, ring, At, HoldsAhead
  <1>20. CASE SubscriberStart
    BY <1>20 DEF SubscriberStart, flushing, ring, At, HoldsAhead
  <1>21. CASE SubscriberInitialize
    BY <1>21 DEF SubscriberInitialize, flushing, At, Structure, Types, Holding, HoldsAhead,
       InitializeHeader
  <1>22. CASE SubscriberAttach
    BY <1>22 DEF SubscriberAttach, flushing, At, HoldsAhead
  <1>23. CASE Drain
    BY <1>23 DEF Drain, flushing, ring, At, HoldsAhead
  <1>24. CASE DrainEnd
    BY <1>24 DEF DrainEnd, flushing, ring, At, HoldsAhead
  <1>25. CASE ClaimConsumer
    BY <1>25 DEF ClaimConsumer, flushing, ring, At, HoldsAhead
  <1>26. CASE PublishReadIndex
    BY <1>26 DEF PublishReadIndex, flushing, At, HoldsAhead
  <1>27. CASE ConsumerHeartbeat
    BY <1>27 DEF ConsumerHeartbeat, flushing, ring, At, HoldsAhead
  <1>28. CASE SubscriberStop
    <2>1. \/ UNCHANGED <<slots, writeIndex, consumerRead>>
          \/ slots' = <<>> /\ writeIndex' = 0 /\ consumerRead' = 0
      BY <1>28, RegionCloses DEF SubscriberStop
    <2>2. UNCHANGED hold /\ \A t \in Threads : At(t, "commit")' <=> At(t, "commit")
      BY <1>28 DEF SubscriberStop, flushing, At
    <2>3. CASE UNCHANGED <<slots, writeIndex, consumerRead>>
      BY <2>2, <2>3 DEF HoldsAhead
    <2>4. CASE slots' = <<>> /\ writeIndex' = 0
      <3>1. ASSUME NEW t \in Threads, At(t, "commit")' PROVE hold'[t][2] > writeIndex'
        <4>1. hold[t] \in Keys \X Nat /\ hold[t][2] > writeIndex
          BY <2>2, <3>1 DEF Structure, Holding, HoldsAhead
        <4>2. hold[t][2] \in Nat
          BY <4>1
        <4> QED BY <2>2, <2>4, <4>1, <4>2, Numbers
      <3>2. Len(slots') <= writeIndex'
        BY <2>4
      <3> QED BY <3>1, <3>2 DEF HoldsAhead
    <2> QED BY <2>1, <2>3, <2>4
  <1>29. CASE PublisherEnds
    <2>1. pc' = [t \in Threads |-> IF t = App THEN "idle" ELSE "ended"] /\ running' = FALSE
      BY <1>29, ProcessEnded
    <2>2. pc'[App] = "idle" /\ pc'[Worker] = "ended" /\ pc' \in [Threads -> Place]
      BY <2>1 DEF Threads, App, Worker, Place
    <2>3. \A t \in Threads : pc'[t] \in {"idle", "ended"}
      BY <2>1
    <2>4. Len(slots') <= writeIndex'
      BY <1>29, ProcessEnded
    <2> QED BY <2>3, <2>4 DEF HoldsAhead, At
  <1> QED BY <1>1, <1>2, <1>3, <1>4, <1>5, <1>6, <1>7, <1>8, <1>9, <1>10, <1>11, <1>12, <1>13,
     <1>14, <1>15, <1>16, <1>17, <1>18, <1>19, <1>20, <1>21, <1>22, <1>23, <1>24, <1>25, <1>26,
     <1>27, <1>28, <1>29, NextKinds

\* Nor does the shared index ever fall behind the subscriber.
LEMMA CursorsOrderedStep ==
    ASSUME Structure, OneWriter, HoldsAhead, CursorsOrdered, [Next]_vars
    PROVE  CursorsOrdered'
  <1>1. CASE UNCHANGED vars
    BY <1>1 DEF vars, ring, subscriber, last, Looping, CursorsOrdered
  <1>2. CASE StartCheck
    BY <1>2 DEF StartCheck, ring, subscriber, last, Looping, CursorsOrdered
  <1>3. CASE StartInitialize
    BY <1>3 DEF StartInitialize, subscriber, last, Structure, Mapped, Looping, CursorsOrdered,
       InitializeHeader
  <1>4. CASE StartRunning
    BY <1>4 DEF StartRunning, ring, subscriber, last, Looping, CursorsOrdered
  <1>5. ASSUME NEW k \in Keys, StoreRetained(k) PROVE CursorsOrdered'
    BY <1>5 DEF StoreRetained, ring, subscriber, last, Looping, CursorsOrdered
  <1>6. CASE StorePending
    BY <1>6 DEF StorePending, ring, subscriber, last, Looping, CursorsOrdered
  <1>7. ASSUME NEW place \in {"idle", "stop"}, CallFlushNow(place) PROVE CursorsOrdered'
    BY <1>7 DEF CallFlushNow, ring, subscriber, last, Looping, CursorsOrdered
  <1>8. ASSUME NEW t \in Threads, FlushSwap(t) PROVE CursorsOrdered'
    BY <1>8 DEF FlushSwap, ring, subscriber, last, Looping, CursorsOrdered
  <1>9. ASSUME NEW t \in Threads, WriteCommit(t) PROVE CursorsOrdered'
    <2>1. /\ writeIndex' \in Nat /\ writeIndex < writeIndex' /\ UNCHANGED <<consumerRead, cursor, sub>>
      BY <1>9, CommitMoves
    <2>2. (Looping' => Looping) /\ cursor \in Nat /\ writeIndex \in Nat /\ consumerRead \in Nat
      BY <2>1, Numbers DEF Looping
    <2>3. cursor <= writeIndex => cursor <= writeIndex'
      BY <2>1, <2>2
    <2> QED BY <2>1, <2>2, <2>3 DEF CursorsOrdered
  <1>10. ASSUME NEW t \in Threads, FlushReturn(t) PROVE CursorsOrdered'
    BY <1>10 DEF FlushReturn, ring, subscriber, last, Looping, CursorsOrdered
  <1>11. ASSUME NEW t \in Threads, NEW k \in Keys, WriteCopy(t, k) PROVE CursorsOrdered'
    <2>1. UNCHANGED <<writeIndex, consumerRead, cursor, sub>>
      BY <1>11, CopyAppends
    <2> QED BY <2>1 DEF CursorsOrdered, Looping
  <1>12. ASSUME NEW t \in Threads, NEW k \in Keys, WriteDrop(t, k) PROVE CursorsOrdered'
    BY <1>12 DEF WriteDrop, subscriber, last, Looping, CursorsOrdered
  <1>13. CASE StopRunning
    BY <1>13 DEF StopRunning, ring, subscriber, last, Looping, CursorsOrdered
  <1>14. CASE StopJoin
    BY <1>14 DEF StopJoin, ring, subscriber, last, Looping, CursorsOrdered, CloseRegion
  <1>15. CASE WorkerLoop
    BY <1>15 DEF WorkerLoop, ring, subscriber, last, Looping, CursorsOrdered
  <1>16. CASE ObserveConsumer
    BY <1>16 DEF ObserveConsumer, ring, subscriber, last, Looping, CursorsOrdered
  <1>17. CASE CopyRetained
    BY <1>17 DEF CopyRetained, ring, subscriber, last, Looping, CursorsOrdered
  <1>18. CASE MergeSnapshot
    BY <1>18 DEF MergeSnapshot, ring, subscriber, last, Looping, CursorsOrdered
  <1>19. CASE ConsumerGoesQuiet
    BY <1>19 DEF ConsumerGoesQuiet, ring, subscriber, last, Looping, CursorsOrdered
  <1>20. CASE SubscriberStart
    BY <1>20 DEF SubscriberStart, Looping, CursorsOrdered
  <1>21. CASE SubscriberInitialize
    BY <1>21 DEF SubscriberInitialize, Looping, CursorsOrdered
  <1>22. CASE SubscriberAttach
    BY <1>22 DEF SubscriberAttach, Structure, Types, CursorsOrdered
  <1>23. CASE Drain
    <2>1. /\ cursor # writeIndex /\ cursor' \in {cursor + 1, writeIndex}
          /\ UNCHANGED <<writeIndex, consumerRead>> /\ Looping
      BY <1>23 DEF Drain, ring, Looping
    <2> QED BY <2>1, Numbers DEF CursorsOrdered
  <1>24. CASE DrainEnd
    BY <1>24 DEF DrainEnd, ring, Looping, CursorsOrdered
  <1>25. CASE ClaimConsumer
    BY <1>25 DEF ClaimConsumer, ring, Looping, CursorsOrdered
  <1>26. CASE PublishReadIndex
    <2>1. /\ consumerRead' = cursor /\ UNCHANGED <<cursor, writeIndex>> /\ Looping
      BY <1>26 DEF PublishReadIndex, Looping
    <2> QED BY <2>1, Numbers DEF CursorsOrdered
  <1>27. CASE ConsumerHeartbeat
    BY <1>27 DEF ConsumerHeartbeat, ring, Looping, CursorsOrdered
  <1>28. CASE SubscriberStop
    BY <1>28 DEF SubscriberStop, Looping, CursorsOrdered
  <1>29. CASE PublisherEnds
    <2>1. /\ UNCHANGED <<sub, cursor>>
          /\ sub = "off" \/ UNCHANGED <<writeIndex, consumerRead>>
      BY <1>29, ProcessEnded
    <2> QED BY <2>1 DEF CursorsOrdered, Looping
  <1> QED BY <1>1, <1>2, <1>3, <1>4, <1>5, <1>6, <1>7, <1>8, <1>9, <1>10, <1>11, <1>12, <1>13,
     <1>14, <1>15, <1>16, <1>17, <1>18, <1>19, <1>20, <1>21, <1>22, <1>23, <1>24, <1>25, <1>26,
     <1>27, <1>28, <1>29, NextKinds

\* Numbers of messages that are there are numbers.
LEMMA SlotNumbers ==
    ASSUME Structure
    PROVE  \A i \in DOMAIN slots : slots[i] # Zeroed => slots[i].seq \in Nat /\ slots[i].process \in Nat
  <1>1. \A i \in DOMAIN slots : slots[i] # Zeroed => slots[i] \in Entries
    BY SlotEntries
  <1> QED BY <1>1 DEF Entries

\* What is unread has later numbers than what was read.
LEMMA NumbersOrderedStep ==
    ASSUME Structure, OneWriter, HoldsAhead, CursorsOrdered, NumbersOrdered, [Next]_vars
    PROVE  NumbersOrdered'
  <1>1. CASE UNCHANGED vars
    BY <1>1 DEF vars, flushing, ring, subscriber, last, Looping, bounds, NumbersOrdered, Unread
  <1>2. CASE StartCheck
    BY <1>2 DEF StartCheck, flushing, ring, subscriber, last, Looping, NumbersOrdered, Unread
  <1>3. CASE StartInitialize
    BY <1>3 DEF bounds, StartInitialize, flushing, subscriber, last, NumbersOrdered,
       InitializeHeader
  <1>4. CASE StartRunning
    BY <1>4 DEF bounds, StartRunning, flushing, ring, subscriber, last, Looping, NumbersOrdered,
       Unread
  <1>5. ASSUME NEW k \in Keys, StoreRetained(k) PROVE NumbersOrdered'
    BY <1>5 DEF StoreRetained, flushing, ring, subscriber, last, Looping, NumbersOrdered, Unread
  <1>6. CASE StorePending
    BY <1>6 DEF bounds, StorePending, flushing, ring, subscriber, last, Looping, NumbersOrdered,
       Unread
  <1>7. ASSUME NEW place \in {"idle", "stop"}, CallFlushNow(place) PROVE NumbersOrdered'
    BY <1>7 DEF bounds, CallFlushNow, ring, subscriber, last, Looping, NumbersOrdered, Unread
  <1>8. ASSUME NEW t \in Threads, FlushSwap(t) PROVE NumbersOrdered'
    BY <1>8 DEF bounds, FlushSwap, ring, subscriber, last, Looping, NumbersOrdered, Unread
  <1>9. ASSUME NEW t \in Threads, WriteCommit(t) PROVE NumbersOrdered'
    <2>1. /\ writeIndex' \in Nat /\ writeIndex < writeIndex'
          /\ UNCHANGED <<slots, cursor, lastSeq, lastProcess, process, pubSeq, sub>>
      BY <1>9, CommitMoves
    <2>2. \A i \in DOMAIN slots : Unread(i)' => Unread(i)
      <3>1. /\ writeIndex \in Nat /\ cursor \in Nat /\ DOMAIN slots = 1 .. Len(slots) /\ Len(slots) \in Nat
            /\ Looping' <=> Looping
        BY <2>1, Numbers DEF Looping
      <3>2. ASSUME NEW i \in DOMAIN slots, i > writeIndex' PROVE i > writeIndex
        BY <2>1, <3>1, <3>2
      <3> QED BY <2>1, <3>1, <3>2 DEF Unread
    <2> QED BY <2>1, <2>2 DEF NumbersOrdered
  <1>10. ASSUME NEW t \in Threads, FlushReturn(t) PROVE NumbersOrdered'
    BY <1>10 DEF bounds, FlushReturn, flushing, ring, subscriber, last, Looping, NumbersOrdered,
       Unread
  <1>11. ASSUME NEW t \in Threads, NEW k \in Keys, WriteCopy(t, k) PROVE NumbersOrdered'
    <2> DEFINE w == writeIndex + 1
    <2>1. /\ Len(slots) <= writeIndex /\ DOMAIN slots = 1 .. Len(slots) /\ Len(slots) \in Nat
          /\ writeIndex \in Nat /\ pubSeq \in Nat /\ lastSeq \in Nat
          /\ process \in Nat /\ lastProcess \in Nat
      BY <1>11, CopyAppends, Numbers
    <2>2. /\ slots' \in Seq(Messages) /\ Len(slots') = w /\ slots'[w] = Copied(t, k)
          /\ pubSeq' = pubSeq + 1 /\ UNCHANGED <<writeIndex, cursor, lastSeq, lastProcess, process, sub>>
      BY <1>11, CopyAppends
    <2>3. DOMAIN slots' = 1 .. w
      BY <2>2
    <2>4. \A i \in DOMAIN slots' : i # w /\ slots'[i] # Zeroed => i \in DOMAIN slots /\ slots'[i] = slots[i]
      BY <1>11, CopyAppends
    <2> HIDE DEF w
    <2>5. \A i : Unread(i)' <=> Unread(i)
      BY <2>2 DEF Unread, Looping
    <2>s. slots'[w].seq = pubSeq + 1 /\ slots'[w].process = process
      BY <2>2 DEF Copied
    <2>t. ASSUME NEW p \in Nat, NEW n \in Nat, Earlier(p, n, process, pubSeq + 1)
          PROVE  Earlier(p, n, process', pubSeq' + 1)
      BY <2>1, <2>2, <2>t DEF Earlier
    <2>6. /\ Earlier(lastProcess, lastSeq, process, pubSeq + 1)
          /\ Earlier(lastProcess', lastSeq', process', pubSeq' + 1)
      BY <2>1, <2>2, <2>t DEF NumbersOrdered
    <2>u. Earlier(process, pubSeq + 1, process', pubSeq' + 1)
      BY <2>1, <2>2 DEF Earlier
    <2>7. ASSUME NEW i \in DOMAIN slots', slots'[i] # Zeroed
          PROVE  /\ Earlier(slots'[i].process, slots'[i].seq, process', pubSeq' + 1)
                 /\ Unread(i)' => Earlier(lastProcess', lastSeq', slots'[i].process, slots'[i].seq)
                 /\ \A j \in DOMAIN slots' : i < j /\ slots'[j] # Zeroed =>
                       Earlier(slots'[i].process, slots'[i].seq, slots'[j].process, slots'[j].seq)
      <3>1. CASE i = w
        <4>1. \A j \in DOMAIN slots' : ~(i < j)
          BY <2>1, <2>3, <3>1 DEF w
        <4> QED BY <2>2, <2>s, <2>6, <2>u, <3>1, <4>1
      <3>2. CASE i # w
        <4>1. i \in DOMAIN slots /\ slots'[i] = slots[i] /\ slots[i] # Zeroed
          BY <2>4, <2>7, <3>2
        <4>2. /\ slots[i].seq \in Nat /\ slots[i].process \in Nat
              /\ Earlier(slots[i].process, slots[i].seq, process, pubSeq + 1)
              /\ Unread(i) => Earlier(lastProcess, lastSeq, slots[i].process, slots[i].seq)
              /\ \A j \in DOMAIN slots : i < j /\ slots[j] # Zeroed =>
                    Earlier(slots[i].process, slots[i].seq, slots[j].process, slots[j].seq)
          BY <4>1, SlotNumbers DEF NumbersOrdered
        <4>3. Earlier(slots[i].process, slots[i].seq, process', pubSeq' + 1)
          BY <2>t, <4>2
        <4>4. ASSUME NEW j \in DOMAIN slots', i < j, slots'[j] # Zeroed
              PROVE  Earlier(slots[i].process, slots[i].seq, slots'[j].process, slots'[j].seq)
          <5>1. CASE j = w
            BY <2>s, <4>2, <5>1
          <5>2. CASE j # w
            BY <2>4, <4>2, <4>4, <5>2
          <5> QED BY <5>1, <5>2
        <4> QED BY <2>2, <2>5, <4>1, <4>2, <4>3, <4>4
      <3> QED BY <3>1, <3>2
    <2> QED BY <2>6, <2>7 DEF NumbersOrdered
  <1>12. ASSUME NEW t \in Threads, NEW k \in Keys, WriteDrop(t, k) PROVE NumbersOrdered'
    <2>1. /\ pubSeq' = pubSeq + 1
          /\ UNCHANGED <<slots, cursor, lastSeq, lastProcess, process, writeIndex, sub>>
      BY <1>12 DEF WriteDrop, subscriber, last, bounds
    <2>2. \A i : Unread(i)' <=> Unread(i)
      BY <2>1 DEF Unread, Looping
    <2>t. ASSUME NEW p \in Nat, NEW n \in Nat, Earlier(p, n, process, pubSeq + 1)
          PROVE  Earlier(p, n, process', pubSeq' + 1)
      BY <2>1, <2>t, Numbers DEF Earlier
    <2>3. /\ Earlier(lastProcess, lastSeq, process', pubSeq' + 1)
          /\ \A i \in DOMAIN slots : slots[i] # Zeroed =>
                Earlier(slots[i].process, slots[i].seq, process', pubSeq' + 1)
      BY <2>t, Numbers, SlotNumbers DEF NumbersOrdered
    <2> QED BY <2>1, <2>2, <2>3 DEF NumbersOrdered
  <1>13. CASE StopRunning
    BY <1>13 DEF bounds, StopRunning, flushing, ring, subscriber, last, Looping, NumbersOrdered,
       Unread
  <1>14. CASE StopJoin
    <2>1. \/ UNCHANGED <<slots, writeIndex, consumerRead>>
          \/ slots' = <<>> /\ writeIndex' = 0 /\ consumerRead' = 0
      BY <1>14, RegionCloses DEF StopJoin
    <2>2. UNCHANGED <<pubSeq, lastSeq, lastProcess, process, cursor>> /\ (Looping' => Looping)
      BY <1>14 DEF StopJoin, flushing, subscriber, last, bounds, Looping
    <2>3. CASE UNCHANGED <<slots, writeIndex, consumerRead>>
      <3>1. \A i : Unread(i)' => Unread(i)
        BY <2>2, <2>3 DEF Unread
      <3> QED BY <2>2, <2>3, <3>1 DEF NumbersOrdered
    <2>4. CASE slots' = <<>>
      <3>1. DOMAIN slots' = {}
        BY <2>4, NoSlots
      <3> QED BY <2>2, <3>1 DEF NumbersOrdered
    <2> QED BY <2>1, <2>3, <2>4
  <1>15. CASE WorkerLoop
    BY <1>15 DEF bounds, WorkerLoop, flushing, ring, subscriber, last, Looping, NumbersOrdered,
       Unread
  <1>16. CASE ObserveConsumer
    BY <1>16 DEF bounds, ObserveConsumer, ring, subscriber, last, Looping, NumbersOrdered, Unread
  <1>17. CASE CopyRetained
    BY <1>17 DEF bounds, CopyRetained, flushing, ring, subscriber, last, Looping, NumbersOrdered,
       Unread
  <1>18. CASE MergeSnapshot
    BY <1>18 DEF bounds, MergeSnapshot, flushing, ring, subscriber, last, Looping, NumbersOrdered,
       Unread
  <1>19. CASE ConsumerGoesQuiet
    BY <1>19 DEF ConsumerGoesQuiet, flushing, ring, subscriber, last, Looping, NumbersOrdered,
       Unread
  <1>20. CASE SubscriberStart
    BY <1>20 DEF bounds, last, SubscriberStart, flushing, ring, Looping, NumbersOrdered, Unread
  <1>21. CASE SubscriberInitialize
    BY <1>21 DEF bounds, last, SubscriberInitialize, flushing, NumbersOrdered, InitializeHeader
  <1>22. CASE SubscriberAttach
    BY <1>22 DEF bounds, last, SubscriberAttach, flushing, NumbersOrdered, Unread
  <1>23. CASE Drain
    <2> DEFINE m == IF cursor + 1 \in DOMAIN slots THEN slots[cursor + 1] ELSE Zeroed
    <2>1. /\ cursor # writeIndex /\ sub = "drain" /\ UNCHANGED <<slots, writeIndex, pubSeq, process>>
          /\ m = Zeroed => cursor' = writeIndex /\ UNCHANGED <<lastSeq, lastProcess>>
          /\ m # Zeroed => cursor' = cursor + 1 /\ lastSeq' = m.seq /\ lastProcess' = m.process
      BY <1>23 DEF Drain, ring, flushing, bounds, last
    <2>2. /\ cursor \in Nat /\ writeIndex \in Nat /\ lastSeq \in Nat /\ DOMAIN slots = 1 .. Len(slots)
          /\ Len(slots) \in Nat
      BY Numbers
    <2>3. cursor < writeIndex /\ Looping
      BY <2>1, <2>2 DEF CursorsOrdered, Looping
    <2>4. CASE m = Zeroed
      <3>1. \A i \in DOMAIN slots : Unread(i)' => Unread(i)
        BY <2>1, <2>2, <2>3, <2>4 DEF Unread
      <3> QED BY <2>1, <2>4, <3>1 DEF NumbersOrdered
    <2>5. CASE m # Zeroed
      <3>1. cursor + 1 \in DOMAIN slots /\ m = slots[cursor + 1] /\ slots[cursor + 1] # Zeroed
        BY <2>5
      <3>2. /\ lastSeq' = slots[cursor + 1].seq /\ lastProcess' = slots[cursor + 1].process
            /\ cursor' = cursor + 1
        BY <2>1, <2>5, <3>1
      <3> HIDE DEF m
      <3>3. Earlier(slots[cursor + 1].process, slots[cursor + 1].seq, process, pubSeq + 1)
        BY <3>1 DEF NumbersOrdered
      <3>4. ASSUME NEW i \in DOMAIN slots, slots[i] # Zeroed, Unread(i)'
            PROVE  Earlier(lastProcess', lastSeq', slots[i].process, slots[i].seq)
        <4>1. cursor + 1 < i
          BY <2>1, <2>2, <2>3, <3>2, <3>4 DEF Unread
        <4> QED BY <3>1, <3>2, <3>4, <4>1 DEF NumbersOrdered
      <3> QED BY <2>1, <3>2, <3>3, <3>4 DEF NumbersOrdered
    <2> QED BY <2>4, <2>5
  <1>24. CASE DrainEnd
    BY <1>24 DEF bounds, last, DrainEnd, flushing, ring, NumbersOrdered, Unread
  <1>25. CASE ClaimConsumer
    BY <1>25 DEF bounds, last, ClaimConsumer, flushing, ring, Looping, NumbersOrdered, Unread
  <1>26. CASE PublishReadIndex
    BY <1>26 DEF bounds, last, PublishReadIndex, flushing, Looping, NumbersOrdered, Unread
  <1>27. CASE ConsumerHeartbeat
    BY <1>27 DEF bounds, last, ConsumerHeartbeat, flushing, ring, Looping, NumbersOrdered, Unread
  <1>28. CASE SubscriberStop
    <2>1. \/ UNCHANGED <<slots, writeIndex, consumerRead>>
          \/ slots' = <<>> /\ writeIndex' = 0 /\ consumerRead' = 0
      BY <1>28, RegionCloses DEF SubscriberStop
    <2>2. UNCHANGED <<pubSeq, lastSeq, lastProcess, process, cursor>> /\ (Looping' => Looping)
      BY <1>28 DEF SubscriberStop, flushing, last, bounds, Looping
    <2>3. CASE UNCHANGED <<slots, writeIndex, consumerRead>>
      <3>1. \A i : Unread(i)' => Unread(i)
        BY <2>2, <2>3 DEF Unread
      <3> QED BY <2>2, <2>3, <3>1 DEF NumbersOrdered
    <2>4. CASE slots' = <<>>
      <3>1. DOMAIN slots' = {}
        BY <2>4, NoSlots
      <3> QED BY <2>2, <3>1 DEF NumbersOrdered
    <2> QED BY <2>1, <2>3, <2>4
  <1>29. CASE PublisherEnds
    <2>1. /\ \A i \in DOMAIN slots' : i \in DOMAIN slots /\ slots'[i] = slots[i]
          /\ slots' = <<>> \/ UNCHANGED writeIndex
          /\ UNCHANGED <<sub, cursor, lastSeq, lastProcess, view>>
      BY <1>29, ProcessEnded
    <2>2. ASSUME NEW i \in DOMAIN slots', Unread(i)' PROVE Unread(i)
      <3>1. slots' # <<>>
        BY <2>2, NoSlots
      <3> QED BY <2>1, <2>2, <3>1 DEF Unread, Looping
    <2>3. process' = process + 1 /\ pubSeq' = 0
      BY <1>29, ProcessEnded
    <2>4. ASSUME NEW p \in Nat, NEW n \in Nat, Earlier(p, n, process, pubSeq + 1)
          PROVE  Earlier(p, n, process', pubSeq' + 1)
      BY <2>3, <2>4, Numbers DEF Earlier
    <2>5. Earlier(lastProcess, lastSeq, process', pubSeq' + 1)
      BY <2>4, Numbers DEF NumbersOrdered
    <2>6. \A i \in DOMAIN slots : slots[i] # Zeroed =>
             Earlier(slots[i].process, slots[i].seq, process', pubSeq' + 1)
      BY <2>4, SlotNumbers DEF NumbersOrdered
    <2> QED BY <2>1, <2>2, <2>5, <2>6 DEF NumbersOrdered
  <1> QED BY <1>1, <1>2, <1>3, <1>4, <1>5, <1>6, <1>7, <1>8, <1>9, <1>10, <1>11, <1>12, <1>13,
     <1>14, <1>15, <1>16, <1>17, <1>18, <1>19, <1>20, <1>21, <1>22, <1>23, <1>24, <1>25, <1>26,
     <1>27, <1>28, <1>29, NextKinds

-----------------------------------------------------------------------------
(* Values.  What a flush has taken is no newer than what is still to be taken, and *)
(* the ring has the values of a key in their order.                                  *)

\* The maps of the publisher and the subscriber are maps of versions.
LEMMA Maps ==
    ASSUME Structure
    PROVE  /\ retained \in VersionMaps /\ pending \in VersionMaps
           /\ snapshot \in VersionMaps /\ view \in VersionMaps
           /\ batch \in [Threads -> VersionMaps]
  BY DEF Structure, Types

\* A merge, key by key.
LEMMA MergedIs ==
    ASSUME NEW f \in VersionMaps, NEW g \in VersionMaps
    PROVE  /\ DOMAIN Merged(f, g) = DOMAIN f \cup DOMAIN g
           /\ \A j \in DOMAIN g : Merged(f, g)[j] = g[j]
           /\ \A j \in DOMAIN f : j \notin DOMAIN g => Merged(f, g)[j] = f[j]
  BY DEF Merged

\* The two maps that Publish* changes, one after the other.
LEMMA RetainedGrows ==
    ASSUME Structure, MapsOrdered, NEW k \in Keys, StoreRetained(k)
    PROVE  /\ DOMAIN retained' = DOMAIN retained \cup {k}
           /\ retained'[k] = version + 1 /\ version' = version + 1
           /\ \A j \in DOMAIN retained : /\ retained[j] <= retained'[j]
                                         /\ j # k => retained'[j] = retained[j]
           /\ UNCHANGED <<pending, snapshot, view, slots, batch, writeIndex, cursor, sub>>
  <1> DEFINE one == [j \in {k} |-> version + 1]
  <1>1. version \in 0 .. MaxVersion /\ version < MaxVersion
    BY DEF StoreRetained, Structure, Types
  <1>2. version + 1 \in 1 .. MaxVersion
    BY <1>1, DirectAssumption
  <1>3. one \in VersionMaps /\ DOMAIN one = {k} /\ one[k] = version + 1
    BY <1>2, MapOne
  <1>4. retained' = Merged(retained, one) /\ retained \in VersionMaps
    BY Maps DEF StoreRetained
  <1>5. /\ version' = version + 1
        /\ UNCHANGED <<pending, snapshot, view, slots, batch, writeIndex, cursor, sub>>
    BY DEF StoreRetained, flushing, replaying, ring, subscriber, last
  <1> HIDE DEF one
  <1>6. /\ DOMAIN retained' = DOMAIN retained \cup {k}
        /\ retained'[k] = one[k]
        /\ \A j \in DOMAIN retained : j # k => retained'[j] = retained[j]
    <2>1. /\ DOMAIN Merged(retained, one) = DOMAIN retained \cup DOMAIN one
          /\ \A j \in DOMAIN one : Merged(retained, one)[j] = one[j]
          /\ \A j \in DOMAIN retained : j \notin DOMAIN one => Merged(retained, one)[j] = retained[j]
      BY <1>3, <1>4, MergedIs
    <2> QED BY <1>3, <1>4, <2>1
  <1>7. \A j \in DOMAIN retained : retained[j] <= version /\ retained[j] \in Nat
    <2>1. \A j \in DOMAIN retained : retained[j] \in 1 .. MaxVersion
      BY <1>4, MapShape
    <2> QED BY <2>1, DirectAssumption DEF MapsOrdered
  <1>8. retained'[k] = version + 1 /\ \A j \in DOMAIN retained : j # k => retained'[j] = retained[j]
    BY <1>3, <1>6
  <1>9. version \in Nat
    BY <1>1, DirectAssumption
  <1>10. ASSUME NEW j \in DOMAIN retained PROVE retained[j] <= retained'[j]
    <2>1. CASE j = k
      BY <1>7, <1>8, <1>9, <2>1
    <2>2. CASE j # k
      BY <1>7, <1>8, <2>2
    <2> QED BY <2>1, <2>2
  <1> QED BY <1>5, <1>6, <1>8, <1>10

\* What the change of pending does to the values on their way.
LEMMA PendingTakes ==
    ASSUME Structure, StorePending
    PROVE  \E k \in DOMAIN retained :
           /\ DOMAIN pending' = DOMAIN pending \cup {k}
           /\ \A j \in DOMAIN pending' : pending'[j] = IF j = k THEN retained[k] ELSE pending[j]
           /\ UNCHANGED <<retained, snapshot, view, slots, batch, writeIndex, cursor, sub, version>>
  <1> DEFINE one == [j \in {call[1]} |-> call[2]]
  <1>1. call[1] \in DOMAIN retained /\ call[2] = retained[call[1]] /\ retained \in VersionMaps
    BY Maps DEF StorePending, Structure, Holding
  <1>2. call[1] \in Keys /\ call[2] \in 1 .. MaxVersion
    BY <1>1, MapShape
  <1>3. one \in VersionMaps /\ DOMAIN one = {call[1]} /\ one[call[1]] = call[2]
    BY <1>2, MapOne
  <1>4. pending' = Merged(pending, one) /\ pending \in VersionMaps
    BY Maps DEF StorePending
  <1>5. UNCHANGED <<retained, snapshot, view, slots, batch, writeIndex, cursor, sub, version>>
    BY DEF StorePending, flushing, replaying, ring, subscriber, last, bounds
  <1> HIDE DEF one
  <1>6. /\ DOMAIN pending' = DOMAIN pending \cup {call[1]}
        /\ pending'[call[1]] = one[call[1]]
        /\ \A j \in DOMAIN pending' : j # call[1] => pending'[j] = pending[j]
    <2>1. /\ DOMAIN Merged(pending, one) = DOMAIN pending \cup DOMAIN one
          /\ \A j \in DOMAIN one : Merged(pending, one)[j] = one[j]
          /\ \A j \in DOMAIN pending : j \notin DOMAIN one => Merged(pending, one)[j] = pending[j]
      BY <1>3, <1>4, MergedIs
    <2> QED BY <1>3, <1>4, <2>1
  <1>7. \A j \in DOMAIN pending' : pending'[j] = IF j = call[1] THEN retained[call[1]] ELSE pending[j]
    BY <1>1, <1>3, <1>6
  <1> QED BY <1>1, <1>5, <1>6, <1>7

\* What the merge of the worker's snapshot does to the values on their way.
LEMMA SnapshotMerges ==
    ASSUME Structure, MergeSnapshot
    PROVE  /\ DOMAIN pending' = DOMAIN pending \cup DOMAIN snapshot
           /\ \A j \in DOMAIN pending' : pending'[j] = IF j \in DOMAIN snapshot THEN snapshot[j] ELSE pending[j]
           /\ snapshot' = Nothing
           /\ UNCHANGED <<retained, view, slots, batch, writeIndex, cursor, sub, version>>
  <1>1. /\ pending' = Merged(pending, snapshot) /\ snapshot' = Nothing
        /\ UNCHANGED <<retained, view, slots, batch, writeIndex, cursor, sub, version>>
    BY DEF MergeSnapshot, flushing, ring, subscriber, last, bounds
  <1>2. pending \in VersionMaps /\ snapshot \in VersionMaps
    BY Maps
  <1>3. /\ DOMAIN pending' = DOMAIN pending \cup DOMAIN snapshot
        /\ \A j \in DOMAIN pending' : /\ j \in DOMAIN snapshot => pending'[j] = snapshot[j]
                                      /\ j \notin DOMAIN snapshot => pending'[j] = pending[j]
    <2>1. /\ DOMAIN Merged(pending, snapshot) = DOMAIN pending \cup DOMAIN snapshot
          /\ \A j \in DOMAIN snapshot : Merged(pending, snapshot)[j] = snapshot[j]
          /\ \A j \in DOMAIN pending :
                j \notin DOMAIN snapshot => Merged(pending, snapshot)[j] = pending[j]
      BY <1>2, MergedIs
    <2> QED BY <1>1, <2>1
  <1> QED BY <1>1, <1>3

\* Batches shrink by what is written or dropped.
LEMMA BatchShrinks ==
    ASSUME Structure, NEW t \in Threads, NEW k, batch' = [batch EXCEPT ![t] = Without(batch[t], k)]
    PROVE  \A r \in Threads : /\ DOMAIN batch'[r] \subseteq DOMAIN batch[r]
                              /\ \A j \in DOMAIN batch'[r] : batch'[r][j] = batch[r][j]
  <1>1. batch \in [Threads -> VersionMaps]
    BY Maps
  <1>2. ASSUME NEW r \in Threads
        PROVE  /\ DOMAIN batch'[r] \subseteq DOMAIN batch[r]
               /\ \A j \in DOMAIN batch'[r] : batch'[r][j] = batch[r][j]
    <2>1. CASE r = t
      <3>1. batch'[r] = Without(batch[r], k) /\ batch[r] \in VersionMaps
        BY <1>1, <2>1
      <3>2. /\ DOMAIN Without(batch[r], k) = DOMAIN batch[r] \ {k}
            /\ \A j \in DOMAIN batch[r] \ {k} : Without(batch[r], k)[j] = batch[r][j]
        BY <3>1, MapWithout
      <3> QED BY <3>1, <3>2
    <2>2. CASE r # t
      BY <1>1, <2>2
    <2> QED BY <2>1, <2>2
  <1> QED BY <1>2

\* Steps that take nothing new and lose nothing.
LEMMA SentKept ==
    ASSUME SentFirst,
           \A k \in Keys, v \in 1 .. MaxVersion : Sent(k, v)' => Sent(k, v),
           \A k \in Keys, v \in 1 .. MaxVersion : NoneOlder(k, v) => NoneOlder(k, v)'
    PROVE  SentFirst'
  BY DEF SentFirst

\* The message a drain takes.
LEMMA DrainTakes ==
    ASSUME Structure, CursorsOrdered, Drain
    PROVE  /\ sub = "drain" /\ Looping /\ cursor < writeIndex /\ cursor \in Nat
           /\ UNCHANGED <<slots, writeIndex, pubSeq, retained, pending, snapshot, batch, version, pc>>
           /\ \/ /\ cursor' = writeIndex /\ UNCHANGED view
              \/ LET m == slots[cursor + 1] IN
                 /\ cursor + 1 \in DOMAIN slots /\ m # Zeroed /\ cursor' = cursor + 1
                 /\ DOMAIN view' = DOMAIN view \cup {m.key}
                 /\ \A k \in DOMAIN view' : view'[k] = IF k = m.key THEN m.version ELSE view[k]
  <1> DEFINE m == IF cursor + 1 \in DOMAIN slots THEN slots[cursor + 1] ELSE Zeroed
  <1>1. /\ sub = "drain" /\ cursor # writeIndex
        /\ UNCHANGED <<slots, writeIndex, pubSeq, retained, pending, snapshot, batch, version, pc>>
        /\ m = Zeroed => cursor' = writeIndex /\ UNCHANGED view
        /\ m # Zeroed => cursor' = cursor + 1 /\ view' = Merged(view, [k \in {m.key} |-> m.version])
    BY DEF Drain, maps, flushing, replaying, ring, bounds
  <1>2. Looping /\ cursor < writeIndex /\ cursor \in Nat
    BY <1>1, Numbers DEF Looping, CursorsOrdered
  <1>3. CASE m = Zeroed
    BY <1>1, <1>2, <1>3
  <1>4. CASE m # Zeroed
    <2>1. cursor + 1 \in DOMAIN slots /\ slots[cursor + 1] # Zeroed /\ m = slots[cursor + 1]
      BY <1>4
    <2>2. m \in Entries
      BY <2>1, SlotEntries
    <2>3. cursor' = cursor + 1 /\ view' = Merged(view, [k \in {m.key} |-> m.version])
      BY <1>1, <1>4
    <2> HIDE DEF m
    <2>4. m.key \in Keys /\ m.version \in 1 .. MaxVersion
      BY <2>2 DEF Entries
    <2> DEFINE one == [k \in {m.key} |-> m.version]
    <2>5. one \in VersionMaps /\ DOMAIN one = {m.key} /\ one[m.key] = m.version
      BY <2>4, MapOne
    <2>6. view' = Merged(view, one)
      BY <2>3
    <2> HIDE DEF one
    <2>7. /\ DOMAIN view' = DOMAIN view \cup {m.key}
          /\ \A k \in DOMAIN view' : view'[k] = IF k = m.key THEN m.version ELSE view[k]
      <3>1. /\ DOMAIN view' = DOMAIN view \cup DOMAIN one
            /\ \A k \in DOMAIN view' : /\ k \in DOMAIN one => view'[k] = one[k]
                                       /\ k \notin DOMAIN one => view'[k] = view[k]
        <4>1. view \in VersionMaps
          BY Maps
        <4>2. /\ DOMAIN Merged(view, one) = DOMAIN view \cup DOMAIN one
              /\ \A k \in DOMAIN one : Merged(view, one)[k] = one[k]
              /\ \A k \in DOMAIN view : k \notin DOMAIN one => Merged(view, one)[k] = view[k]
          BY <2>5, <4>1, MergedIs
        <4> QED BY <2>6, <4>2
      <3> QED BY <2>5, <3>1
    <2> QED BY <1>1, <1>2, <2>1, <2>3, <2>7
  <1> QED BY <1>3, <1>4

\* No map is ahead of the retained one.
LEMMA MapsOrderedStep ==
    ASSUME Structure, MapsOrdered, [Next]_vars
    PROVE  MapsOrdered'
  <1>1. CASE UNCHANGED vars
    BY <1>1 DEF vars, maps, replaying, bounds, MapsOrdered
  <1>2. CASE StartCheck
    BY <1>2 DEF StartCheck, maps, replaying, MapsOrdered
  <1>3. CASE StartInitialize
    BY <1>3 DEF StartInitialize, maps, replaying, bounds, MapsOrdered
  <1>4. CASE StartRunning
    BY <1>4 DEF StartRunning, maps, replaying, bounds, MapsOrdered
  <1>5. ASSUME NEW k \in Keys, StoreRetained(k) PROVE MapsOrdered'
    <2>1. \A j \in DOMAIN retained : retained[j] \in Nat /\ retained[j] <= version
      <3>1. \A j \in DOMAIN retained : retained[j] \in 1 .. MaxVersion
        BY Maps, MapShape
      <3> QED BY <3>1 DEF MapsOrdered
    <2>2. version \in Nat
      <3>1. version \in 0 .. MaxVersion
        BY DEF last, Structure, Types
      <3> QED BY <3>1, DirectAssumption
    <2>3. ASSUME NEW j \in DOMAIN retained' PROVE retained'[j] <= version'
      <3>0. /\ DOMAIN retained' = DOMAIN retained \cup {k}
            /\ retained'[k] = version + 1 /\ version' = version + 1
            /\ \A i \in DOMAIN retained : i # k => retained'[i] = retained[i]
        BY <1>5, RetainedGrows
      <3>1. CASE j = k
        BY <2>2, <3>0, <3>1
      <3>2. CASE j # k
        <4>1. j \in DOMAIN retained /\ retained'[j] = retained[j]
          BY <2>3, <3>0, <3>2
        <4> QED BY <2>1, <2>2, <3>0, <4>1
      <3> QED BY <3>1, <3>2
    <2>4. \A j \in DOMAIN retained : j \in DOMAIN retained' /\ retained[j] <= retained'[j] /\ retained'[j] \in Nat
      <3>1. /\ \A j \in DOMAIN retained : j \in DOMAIN retained' /\ retained[j] <= retained'[j]
            /\ retained' \in VersionMaps
        BY <1>5, RetainedGrows, TypesStep DEF Types
      <3>2. \A j \in DOMAIN retained' : retained'[j] \in 1 .. MaxVersion
        BY <3>1, MapShape
      <3> QED BY <3>1, <3>2
    <2>5. UNCHANGED <<pending, snapshot>>
      BY <1>5, RetainedGrows
    <2>6. /\ \A j \in DOMAIN pending : pending[j] \in Nat
          /\ \A j \in DOMAIN snapshot : snapshot[j] \in Nat
      <3>1. /\ \A j \in DOMAIN pending : pending[j] \in 1 .. MaxVersion
            /\ \A j \in DOMAIN snapshot : snapshot[j] \in 1 .. MaxVersion
        BY Maps, MapShape
      <3> QED BY <3>1
    <2>7. \A j \in DOMAIN pending : j \in DOMAIN retained' /\ pending[j] <= retained'[j]
      BY <2>1, <2>4, <2>6 DEF MapsOrdered
    <2>8. \A j \in DOMAIN snapshot : j \in DOMAIN retained' /\ snapshot[j] <= retained'[j]
      BY <2>1, <2>4, <2>6 DEF MapsOrdered
    <2> QED BY <2>3, <2>5, <2>7, <2>8 DEF MapsOrdered
  <1>6. CASE StorePending
    <2>1. PICK k \in DOMAIN retained :
             /\ DOMAIN pending' = DOMAIN pending \cup {k}
             /\ \A j \in DOMAIN pending' : pending'[j] = IF j = k THEN retained[k] ELSE pending[j]
             /\ UNCHANGED <<retained, snapshot, view, slots, batch, writeIndex, cursor, sub, version>>
      BY <1>6, PendingTakes
    <2>2. retained[k] <= retained[k]
      <3>1. retained[k] \in 1 .. MaxVersion
        BY Maps, MapShape
      <3> QED BY <3>1
    <2>3. \A j \in DOMAIN pending' : j \in DOMAIN retained /\ pending'[j] <= retained[j]
      BY <2>1, <2>2 DEF MapsOrdered
    <2> QED BY <2>1, <2>3 DEF MapsOrdered
  <1>7. ASSUME NEW place \in {"idle", "stop"}, CallFlushNow(place) PROVE MapsOrdered'
    BY <1>7 DEF CallFlushNow, maps, replaying, bounds, MapsOrdered
  <1>8. ASSUME NEW t \in Threads, FlushSwap(t) PROVE MapsOrdered'
    BY <1>8, Nothings DEF FlushSwap, replaying, bounds, MapsOrdered
  <1>9. ASSUME NEW t \in Threads, WriteCommit(t) PROVE MapsOrdered'
    BY <1>9 DEF WriteCommit, maps, replaying, bounds, MapsOrdered
  <1>10. ASSUME NEW t \in Threads, FlushReturn(t) PROVE MapsOrdered'
    BY <1>10 DEF FlushReturn, maps, replaying, bounds, MapsOrdered
  <1>11. ASSUME NEW t \in Threads, NEW k \in Keys, WriteCopy(t, k) PROVE MapsOrdered'
    BY <1>11 DEF WriteCopy, maps, replaying, bounds, MapsOrdered
  <1>12. ASSUME NEW t \in Threads, NEW k \in Keys, WriteDrop(t, k) PROVE MapsOrdered'
    BY <1>12 DEF WriteDrop, maps, replaying, bounds, MapsOrdered
  <1>13. CASE StopRunning
    BY <1>13 DEF StopRunning, maps, replaying, bounds, MapsOrdered
  <1>14. CASE StopJoin
    BY <1>14 DEF StopJoin, maps, replaying, bounds, MapsOrdered
  <1>15. CASE WorkerLoop
    BY <1>15 DEF WorkerLoop, maps, bounds, MapsOrdered
  <1>16. CASE ObserveConsumer
    BY <1>16 DEF ObserveConsumer, maps, replaying, bounds, MapsOrdered
  <1>17. CASE CopyRetained
    <2>1. snapshot' = retained /\ UNCHANGED <<retained, pending, version>>
      BY <1>17 DEF CopyRetained, maps, bounds
    <2>2. \A j \in DOMAIN retained : retained[j] <= retained[j]
      <3>1. \A j \in DOMAIN retained : retained[j] \in 1 .. MaxVersion
        BY Maps, MapShape
      <3> QED BY <3>1
    <2> QED BY <2>1, <2>2 DEF MapsOrdered
  <1>18. CASE MergeSnapshot
    <2>1. \A j \in DOMAIN pending' : j \in DOMAIN retained /\ pending'[j] <= retained[j]
      BY <1>18, SnapshotMerges DEF MapsOrdered
    <2> QED BY <1>18, <2>1, SnapshotMerges, Nothings DEF MapsOrdered
  <1>19. CASE ConsumerGoesQuiet
    BY <1>19 DEF ConsumerGoesQuiet, maps, replaying, MapsOrdered
  <1>20. CASE SubscriberStart
    BY <1>20 DEF SubscriberStart, maps, replaying, bounds, MapsOrdered
  <1>21. CASE SubscriberInitialize
    BY <1>21 DEF SubscriberInitialize, maps, replaying, bounds, MapsOrdered
  <1>22. CASE SubscriberAttach
    BY <1>22 DEF SubscriberAttach, maps, replaying, bounds, MapsOrdered
  <1>23. CASE Drain
    BY <1>23 DEF Drain, maps, replaying, bounds, MapsOrdered
  <1>24. CASE DrainEnd
    BY <1>24 DEF DrainEnd, maps, replaying, bounds, MapsOrdered
  <1>25. CASE ClaimConsumer
    BY <1>25 DEF ClaimConsumer, maps, replaying, bounds, MapsOrdered
  <1>26. CASE PublishReadIndex
    BY <1>26 DEF PublishReadIndex, maps, replaying, bounds, MapsOrdered
  <1>27. CASE ConsumerHeartbeat
    BY <1>27 DEF ConsumerHeartbeat, maps, replaying, bounds, MapsOrdered
  <1>28. CASE SubscriberStop
    BY <1>28 DEF SubscriberStop, maps, replaying, bounds, MapsOrdered
  <1>29. CASE PublisherEnds
    <2>a. /\ DOMAIN retained' = {} /\ DOMAIN pending' = {} /\ DOMAIN snapshot' = {}
          /\ \A t \in Threads : DOMAIN batch'[t] = {}
          /\ UNCHANGED <<view, version>>
      BY <1>29, ProcessEnded, Nothings
    <2> QED BY <2>a DEF MapsOrdered
  <1> QED BY <1>1, <1>2, <1>3, <1>4, <1>5, <1>6, <1>7, <1>8, <1>9, <1>10, <1>11, <1>12, <1>13,
     <1>14, <1>15, <1>16, <1>17, <1>18, <1>19, <1>20, <1>21, <1>22, <1>23, <1>24, <1>25, <1>26,
     <1>27, <1>28, <1>29, NextKinds

\* What was taken by a flush is no newer than what comes.
LEMMA SentFirstStep ==
    ASSUME Structure, OneWriter, HoldsAhead, CursorsOrdered, MapsOrdered, SentFirst,
           OneWriter', NoOldSnapshot', [Next]_vars
    PROVE  SentFirst'
  <1>1. CASE UNCHANGED vars
    BY <1>1 DEF vars, maps, flushing, replaying, ring, subscriber, last, SentFirst, bounds,
       NoneOlder, Sent
  <1>2. CASE StartCheck
    BY <1>2 DEF StartCheck, maps, flushing, replaying, ring, subscriber, last, SentFirst, NoneOlder,
       Sent
  <1>3. CASE StartInitialize
    BY <1>3 DEF bounds, StartInitialize, maps, flushing, replaying, subscriber, last, SentFirst,
       NoneOlder,
       Sent, InitializeHeader
  <1>4. CASE StartRunning
    BY <1>4 DEF bounds, StartRunning, maps, flushing, replaying, ring, subscriber, last, SentFirst,
       NoneOlder,
       Sent
  <1>5. ASSUME NEW k \in Keys, StoreRetained(k) PROVE SentFirst'
    <2>0. /\ DOMAIN retained' = DOMAIN retained \cup {k}
          /\ retained'[k] = version + 1 /\ version' = version + 1
          /\ \A j \in DOMAIN retained : j # k => retained'[j] = retained[j]
          /\ UNCHANGED <<pending, snapshot, batch>>
      BY <1>5, RetainedGrows
    <2>1. ASSUME NEW j \in Keys, NEW v \in 1 .. MaxVersion, NoneOlder(j, v) PROVE NoneOlder(j, v)'
      <3>1. v \in Nat /\ version \in Nat /\ v <= version
        <4>1. version \in 0 .. MaxVersion
          BY DEF Structure, Types
        <4>2. v <= version
          BY <2>1 DEF NoneOlder
        <4> QED BY <4>1, <4>2, DirectAssumption
      <3>2. v <= version + 1
        BY <3>1
      <3>3. j \in DOMAIN retained' => v <= retained'[j]
        <4>1. CASE j = k
          BY <2>0, <3>2, <4>1
        <4>2. CASE j # k
          BY <2>0, <2>1, <4>2 DEF NoneOlder
        <4> QED BY <4>1, <4>2
      <3> QED BY <2>0, <2>1, <3>2, <3>3 DEF NoneOlder
    <2>2. \A j \in Keys, v \in 1 .. MaxVersion : Sent(j, v)' => Sent(j, v)
      BY <1>5, RetainedGrows DEF Sent
    <2> QED BY <2>1, <2>2, SentKept
  <1>6. CASE StorePending
    <2>1. PICK k \in DOMAIN retained :
             /\ DOMAIN pending' = DOMAIN pending \cup {k}
             /\ \A j \in DOMAIN pending' : pending'[j] = IF j = k THEN retained[k] ELSE pending[j]
             /\ UNCHANGED <<retained, snapshot, view, slots, batch, writeIndex, cursor, sub, version>>
      BY <1>6, PendingTakes
    <2>2. \A j \in Keys, v \in 1 .. MaxVersion : NoneOlder(j, v) => NoneOlder(j, v)'
      BY <2>1 DEF NoneOlder
    <2>3. \A j \in Keys, v \in 1 .. MaxVersion : Sent(j, v)' => Sent(j, v)
      BY <2>1 DEF Sent
    <2> QED BY <2>2, <2>3, SentKept
  <1>7. ASSUME NEW place \in {"idle", "stop"}, CallFlushNow(place) PROVE SentFirst'
    BY <1>7 DEF bounds, CallFlushNow, maps, replaying, ring, subscriber, last, SentFirst,
       NoneOlder, Sent
  <1>8. ASSUME NEW t \in Threads, FlushSwap(t) PROVE SentFirst'
    <2>1. CASE ~running
      <3>1. UNCHANGED <<retained, pending, snapshot, view, slots, batch, version>>
        BY <1>8, <2>1 DEF FlushSwap, replaying, ring, subscriber, bounds
      <3> QED BY <3>1 DEF SentFirst, Sent, NoneOlder
    <2>2. CASE running
      <3>1. /\ batch' = [batch EXCEPT ![t] = pending] /\ pending' = Nothing
            /\ pc[t] = "flush" /\ pc' = [pc EXCEPT ![t] = "write"]
            /\ UNCHANGED <<retained, snapshot, view, slots, version>>
        BY <1>8, <2>2 DEF FlushSwap, replaying, ring, subscriber, bounds, At, Goto
      <3>2. /\ batch'[t] = pending /\ \A r \in Threads : r # t => batch'[r] = batch[r]
        BY <3>1, Maps
      <3>3. ASSUME NEW r \in Threads, r # t PROVE batch[r] = Nothing
        <4>1. Writing(t)' /\ (Writing(r)' <=> Writing(r))
          BY <3>1, <3>3 DEF Writing, Structure, Threading
        <4>2. ~Writing(r)
          BY <3>3, <4>1 DEF OneWriter, Threads
        <4> QED BY <4>2 DEF Structure, Holding
      <3>4. snapshot = Nothing
        <4>1. ~At(Worker, "merge")
          BY <3>1 DEF NoOldSnapshot, At, Writing, Structure, Threading, Threads
        <4> QED BY <4>1 DEF Structure, Holding
      <3>5. ASSUME NEW j \in Keys, NEW v \in 1 .. MaxVersion, Sent(j, v)'
            PROVE  NoneOlder(j, v)'
        <4>1. \/ NoneOlder(j, v)
              \/ j \in DOMAIN pending /\ v = pending[j]
          <5>1. Sent(j, v) \/ (j \in DOMAIN pending /\ v = pending[j])
            BY <3>1, <3>2, <3>5 DEF Sent
          <5> QED BY <5>1 DEF SentFirst
        <4>2. /\ v <= version
              /\ j \in DOMAIN retained => v <= retained[j]
              /\ j \in DOMAIN pending => v <= pending[j]
          <5>1. CASE NoneOlder(j, v)
            BY <5>1 DEF NoneOlder
          <5>2. CASE j \in DOMAIN pending /\ v = pending[j]
            <6>1. j \in DOMAIN retained /\ v <= retained[j] /\ retained[j] <= version
              BY <5>2 DEF MapsOrdered
            <6>2. retained[j] \in 1 .. MaxVersion
              BY <6>1, Maps, MapShape
            <6>3. version \in Nat
              <7>1. version \in 0 .. MaxVersion
                BY DEF Structure, Types
              <7> QED BY <7>1, DirectAssumption
            <6>4. v <= version /\ v <= v
              BY <6>1, <6>2, <6>3
            <6> QED BY <5>2, <6>1, <6>4
          <5> QED BY <4>1, <5>1, <5>2
        <4>3. \A r \in Threads : j \in DOMAIN batch'[r] => v <= batch'[r][j]
          <5>1. ASSUME NEW r \in Threads, j \in DOMAIN batch'[r] PROVE v <= batch'[r][j]
            <6>1. CASE r = t
              BY <3>2, <4>2, <5>1, <6>1
            <6>2. CASE r # t
              BY <3>2, <3>3, <5>1, <6>2, Nothings
            <6> QED BY <6>1, <6>2
          <5> QED BY <5>1
        <4>4. DOMAIN pending' = {} /\ DOMAIN snapshot' = {} /\ UNCHANGED <<retained, version>>
          BY <3>1, <3>4, Nothings
        <4> QED BY <4>2, <4>3, <4>4 DEF NoneOlder
      <3> QED BY <3>5 DEF SentFirst
    <2> QED BY <2>1, <2>2
  <1>9. ASSUME NEW t \in Threads, WriteCommit(t) PROVE SentFirst'
    <2>1. /\ batch' = [batch EXCEPT ![t] = Without(batch[t], hold[t][1])]
          /\ UNCHANGED <<retained, pending, snapshot, view, slots, version>>
      BY <1>9 DEF WriteCommit, maps, replaying, subscriber, bounds
    <2>2. \A r \in Threads : /\ DOMAIN batch'[r] \subseteq DOMAIN batch[r]
                             /\ \A j \in DOMAIN batch'[r] : batch'[r][j] = batch[r][j]
      BY <2>1, BatchShrinks
    <2>3. \A j \in Keys, v \in 1 .. MaxVersion : NoneOlder(j, v) => NoneOlder(j, v)'
      BY <2>1, <2>2 DEF NoneOlder
    <2>4. \A j \in Keys, v \in 1 .. MaxVersion : Sent(j, v)' => Sent(j, v)
      BY <2>1, <2>2 DEF Sent
    <2> QED BY <2>3, <2>4, SentKept
  <1>10. ASSUME NEW t \in Threads, FlushReturn(t) PROVE SentFirst'
    BY <1>10 DEF bounds, FlushReturn, maps, flushing, replaying, ring, subscriber, last, SentFirst,
       NoneOlder,
       Sent
  <1>11. ASSUME NEW t \in Threads, NEW k \in Keys, WriteCopy(t, k) PROVE SentFirst'
    <2>1. /\ \A i \in DOMAIN slots' : i = writeIndex + 1 \/ slots'[i] = Zeroed
                                         \/ (i \in DOMAIN slots /\ slots'[i] = slots[i])
          /\ slots'[writeIndex + 1] = Copied(t, k) /\ UNCHANGED <<batch, view>>
      BY <1>11, CopyAppends
    <2>2. UNCHANGED <<retained, pending, snapshot, version>> /\ k \in DOMAIN batch[t]
      BY <1>11 DEF WriteCopy, maps, replaying, bounds
    <2>3. \A j \in Keys, v \in 1 .. MaxVersion : NoneOlder(j, v) => NoneOlder(j, v)'
      BY <2>1, <2>2 DEF NoneOlder
    <2>4. Copied(t, k).key = k /\ Copied(t, k).version = batch[t][k]
      BY DEF Copied
    <2>5. ASSUME NEW j \in Keys, NEW v \in 1 .. MaxVersion, Sent(j, v)' PROVE Sent(j, v)
      <3>1. CASE \E i \in DOMAIN slots' : slots'[i] # Zeroed /\ slots'[i].key = j /\ slots'[i].version = v
        <4>1. PICK i \in DOMAIN slots' : slots'[i] # Zeroed /\ slots'[i].key = j /\ slots'[i].version = v
          BY <3>1
        <4>2. CASE i = writeIndex + 1
          BY <2>1, <2>2, <2>4, <4>1, <4>2 DEF Sent
        <4>3. CASE i # writeIndex + 1
          BY <2>1, <4>1, <4>3 DEF Sent
        <4> QED BY <4>2, <4>3
      <3>2. CASE ~\E i \in DOMAIN slots' : slots'[i] # Zeroed /\ slots'[i].key = j /\ slots'[i].version = v
        BY <2>1, <2>5, <3>2 DEF Sent
      <3> QED BY <3>1, <3>2
    <2> QED BY <2>3, <2>5, SentKept
  <1>12. ASSUME NEW t \in Threads, NEW k \in Keys, WriteDrop(t, k) PROVE SentFirst'
    <2>1. /\ batch' = [batch EXCEPT ![t] = Without(batch[t], k)]
          /\ UNCHANGED <<retained, pending, snapshot, view, slots, version>>
      BY <1>12 DEF WriteDrop, maps, replaying, subscriber, bounds
    <2>2. \A r \in Threads : /\ DOMAIN batch'[r] \subseteq DOMAIN batch[r]
                             /\ \A j \in DOMAIN batch'[r] : batch'[r][j] = batch[r][j]
      BY <2>1, BatchShrinks
    <2>3. \A j \in Keys, v \in 1 .. MaxVersion : NoneOlder(j, v) => NoneOlder(j, v)'
      BY <2>1, <2>2 DEF NoneOlder
    <2>4. \A j \in Keys, v \in 1 .. MaxVersion : Sent(j, v)' => Sent(j, v)
      BY <2>1, <2>2 DEF Sent
    <2> QED BY <2>3, <2>4, SentKept
  <1>13. CASE StopRunning
    BY <1>13 DEF bounds, StopRunning, maps, flushing, replaying, ring, subscriber, last, SentFirst,
       NoneOlder,
       Sent
  <1>14. CASE StopJoin
    <2>1. slots' \in {slots, <<>>} /\ UNCHANGED <<retained, pending, snapshot, view, batch, version>>
      BY <1>14 DEF StopJoin, CloseRegion, ring, maps, flushing, replaying, subscriber, bounds
    <2>2. slots' = slots \/ DOMAIN slots' = {}
      BY <2>1, NoSlots
    <2>3. \A j \in Keys, v \in 1 .. MaxVersion : NoneOlder(j, v) => NoneOlder(j, v)'
      BY <2>1 DEF NoneOlder
    <2>4. \A j \in Keys, v \in 1 .. MaxVersion : Sent(j, v)' => Sent(j, v)
      BY <2>1, <2>2 DEF Sent
    <2> QED BY <2>3, <2>4, SentKept
  <1>15. CASE WorkerLoop
    BY <1>15 DEF bounds, WorkerLoop, maps, flushing, ring, subscriber, last, SentFirst, NoneOlder,
       Sent
  <1>16. CASE ObserveConsumer
    BY <1>16 DEF bounds, ObserveConsumer, maps, replaying, ring, subscriber, last, SentFirst,
       NoneOlder,
       Sent
  <1>17. CASE CopyRetained
    BY <1>17 DEF bounds, CopyRetained, maps, flushing, ring, subscriber, last, SentFirst,
       NoneOlder, Sent
  <1>18. CASE MergeSnapshot
    <2>1. \A j \in Keys, v \in 1 .. MaxVersion : NoneOlder(j, v) => NoneOlder(j, v)'
      BY <1>18, SnapshotMerges, Nothings DEF NoneOlder
    <2>2. \A j \in Keys, v \in 1 .. MaxVersion : Sent(j, v)' => Sent(j, v)
      BY <1>18, SnapshotMerges DEF Sent
    <2> QED BY <2>1, <2>2, SentKept
  <1>19. CASE ConsumerGoesQuiet
    BY <1>19 DEF ConsumerGoesQuiet, maps, flushing, replaying, ring, subscriber, last, SentFirst,
       NoneOlder, Sent
  <1>20. CASE SubscriberStart
    BY <1>20 DEF last, bounds, SubscriberStart, maps, flushing, replaying, ring, SentFirst,
       NoneOlder, Sent
  <1>21. CASE SubscriberInitialize
    BY <1>21 DEF last, bounds, SubscriberInitialize, maps, flushing, replaying, SentFirst,
       NoneOlder, Sent,
       InitializeHeader
  <1>22. CASE SubscriberAttach
    BY <1>22, Nothings DEF last, bounds, SubscriberAttach, maps, flushing, replaying, SentFirst,
       NoneOlder,
       Sent
  <1>23. CASE Drain
    <2>1. /\ UNCHANGED <<slots, retained, pending, snapshot, batch, version>>
          /\ \/ UNCHANGED view
             \/ /\ cursor + 1 \in DOMAIN slots /\ slots[cursor + 1] # Zeroed
                /\ \A j \in DOMAIN view' : j \in DOMAIN view \cup {slots[cursor + 1].key}
                /\ \A j \in DOMAIN view' : view'[j] = IF j = slots[cursor + 1].key
                                                    THEN slots[cursor + 1].version ELSE view[j]
      BY <1>23, DrainTakes
    <2>2. \A j \in Keys, v \in 1 .. MaxVersion : NoneOlder(j, v) => NoneOlder(j, v)'
      BY <2>1 DEF NoneOlder
    <2>3. \A j \in Keys, v \in 1 .. MaxVersion : Sent(j, v)' => Sent(j, v)
      BY <2>1 DEF Sent
    <2> QED BY <2>2, <2>3, SentKept
  <1>24. CASE DrainEnd
    BY <1>24 DEF last, bounds, DrainEnd, maps, flushing, replaying, ring, SentFirst, NoneOlder, Sent
  <1>25. CASE ClaimConsumer
    BY <1>25 DEF last, bounds, ClaimConsumer, maps, flushing, replaying, ring, SentFirst,
       NoneOlder, Sent
  <1>26. CASE PublishReadIndex
    BY <1>26 DEF last, bounds, PublishReadIndex, maps, flushing, replaying, SentFirst, NoneOlder,
       Sent
  <1>27. CASE ConsumerHeartbeat
    BY <1>27 DEF last, bounds, ConsumerHeartbeat, maps, flushing, replaying, ring, SentFirst,
       NoneOlder, Sent
  <1>28. CASE SubscriberStop
    <2>1. slots' \in {slots, <<>>} /\ UNCHANGED <<retained, pending, snapshot, view, batch, version>>
      BY <1>28 DEF SubscriberStop, CloseRegion, ring, maps, flushing, replaying, bounds
    <2>2. slots' = slots \/ DOMAIN slots' = {}
      BY <2>1, NoSlots
    <2>3. \A j \in Keys, v \in 1 .. MaxVersion : NoneOlder(j, v) => NoneOlder(j, v)'
      BY <2>1 DEF NoneOlder
    <2>4. \A j \in Keys, v \in 1 .. MaxVersion : Sent(j, v)' => Sent(j, v)
      BY <2>1, <2>2 DEF Sent
    <2> QED BY <2>3, <2>4, SentKept
  <1>29. CASE PublisherEnds
    <2>a. /\ DOMAIN retained' = {} /\ DOMAIN pending' = {} /\ DOMAIN snapshot' = {}
          /\ \A t \in Threads : DOMAIN batch'[t] = {}
          /\ UNCHANGED <<view, version>>
      BY <1>29, ProcessEnded, Nothings
    <2>1. \A i \in DOMAIN slots' : i \in DOMAIN slots /\ slots'[i] = slots[i]
      BY <1>29, ProcessEnded
    <2>2. \A j \in Keys, v \in 1 .. MaxVersion : NoneOlder(j, v) => NoneOlder(j, v)'
      BY <2>a DEF NoneOlder
    <2>3. \A j \in Keys, v \in 1 .. MaxVersion : Sent(j, v)' => Sent(j, v)
      BY <2>a, <2>1 DEF Sent
    <2> QED BY <2>2, <2>3, SentKept
  <1> QED BY <1>1, <1>2, <1>3, <1>4, <1>5, <1>6, <1>7, <1>8, <1>9, <1>10, <1>11, <1>12, <1>13,
     <1>14, <1>15, <1>16, <1>17, <1>18, <1>19, <1>20, <1>21, <1>22, <1>23, <1>24, <1>25, <1>26,
     <1>27, <1>28, <1>29, NextKinds

\* The ring and the view have a key's values in their order.
LEMMA RingOrderedStep ==
    ASSUME Structure, OneWriter, HoldsAhead, CursorsOrdered, MapsOrdered, SentFirst, RingOrdered, [Next]_vars
    PROVE  RingOrdered'
  <1>1. CASE UNCHANGED vars
    BY <1>1 DEF vars, ring, subscriber, last, Looping, RingOrdered, Unread
  <1>2. CASE StartCheck
    BY <1>2 DEF StartCheck, ring, subscriber, last, Looping, RingOrdered, Unread
  <1>3. CASE StartInitialize
    BY <1>3 DEF StartInitialize, RingOrdered, InitializeHeader
  <1>4. CASE StartRunning
    BY <1>4 DEF StartRunning, ring, subscriber, last, Looping, RingOrdered, Unread
  <1>5. ASSUME NEW k \in Keys, StoreRetained(k) PROVE RingOrdered'
    BY <1>5 DEF StoreRetained, ring, subscriber, last, Looping, RingOrdered, Unread
  <1>6. CASE StorePending
    BY <1>6 DEF StorePending, ring, subscriber, last, Looping, RingOrdered, Unread
  <1>7. ASSUME NEW place \in {"idle", "stop"}, CallFlushNow(place) PROVE RingOrdered'
    BY <1>7 DEF CallFlushNow, ring, subscriber, last, Looping, RingOrdered, Unread
  <1>8. ASSUME NEW t \in Threads, FlushSwap(t) PROVE RingOrdered'
    BY <1>8 DEF FlushSwap, ring, subscriber, last, Looping, RingOrdered, Unread
  <1>9. ASSUME NEW t \in Threads, WriteCommit(t) PROVE RingOrdered'
    <2>1. /\ writeIndex' \in Nat /\ writeIndex < writeIndex' /\ UNCHANGED <<slots, cursor, sub, view>>
      BY <1>9, CommitMoves
    <2>2. \A i \in DOMAIN slots : Unread(i)' => Unread(i)
      <3>1. /\ writeIndex \in Nat /\ cursor \in Nat /\ DOMAIN slots = 1 .. Len(slots) /\ Len(slots) \in Nat
            /\ Looping' <=> Looping
        BY <2>1, Numbers DEF Looping
      <3>2. ASSUME NEW i \in DOMAIN slots, i > writeIndex' PROVE i > writeIndex
        BY <2>1, <3>1, <3>2
      <3> QED BY <2>1, <3>1, <3>2 DEF Unread
    <2> QED BY <2>1, <2>2 DEF RingOrdered
  <1>10. ASSUME NEW t \in Threads, FlushReturn(t) PROVE RingOrdered'
    BY <1>10 DEF FlushReturn, ring, subscriber, last, Looping, RingOrdered, Unread
  <1>11. ASSUME NEW t \in Threads, NEW k \in Keys, WriteCopy(t, k) PROVE RingOrdered'
    <2> DEFINE w == writeIndex + 1
    <2>1. /\ Len(slots) <= writeIndex /\ DOMAIN slots = 1 .. Len(slots) /\ Len(slots) \in Nat
          /\ writeIndex \in Nat
      BY <1>11, CopyAppends, Numbers
    <2>2. /\ slots' \in Seq(Messages) /\ Len(slots') = w /\ slots'[w] = Copied(t, k)
          /\ UNCHANGED <<writeIndex, cursor, sub, view>>
      BY <1>11, CopyAppends
    <2>3. DOMAIN slots' = 1 .. w
      BY <2>2
    <2>4. \A i \in DOMAIN slots' : i # w /\ slots'[i] # Zeroed => i \in DOMAIN slots /\ slots'[i] = slots[i]
      BY <1>11, CopyAppends
    <2> HIDE DEF w
    <2>5. \A i : Unread(i)' <=> Unread(i)
      BY <2>2 DEF Unread, Looping
    <2>6. slots'[w].key = k /\ slots'[w].version = batch[t][k] /\ k \in DOMAIN batch[t]
      BY <1>11, <2>2 DEF Copied, WriteCopy
    <2>7. \A v \in 1 .. MaxVersion : Sent(k, v) => v <= batch[t][k]
      BY <2>6 DEF SentFirst, NoneOlder
    <2>8. k \in DOMAIN view => view[k] <= batch[t][k]
      <3>1. k \in DOMAIN view => view[k] \in 1 .. MaxVersion
        BY Maps, MapShape
      <3> QED BY <2>7, <3>1 DEF Sent
    <2>9. ASSUME NEW i \in DOMAIN slots, slots[i] # Zeroed, slots[i].key = k
          PROVE  slots[i].version <= batch[t][k]
      <3>1. slots[i].version \in 1 .. MaxVersion
        BY <2>9, SlotEntries DEF Entries
      <3> QED BY <2>7, <2>9, <3>1 DEF Sent
    <2>10. ASSUME NEW i \in DOMAIN slots', slots'[i] # Zeroed
           PROVE  /\ Unread(i)' /\ slots'[i].key \in DOMAIN view' => view'[slots'[i].key] <= slots'[i].version
                  /\ \A j \in DOMAIN slots' : i < j /\ slots'[j] # Zeroed /\ slots'[j].key = slots'[i].key
                        => slots'[i].version <= slots'[j].version
      <3>1. CASE i = w
        <4>1. \A j \in DOMAIN slots' : ~(i < j)
          BY <2>1, <2>3, <3>1 DEF w
        <4> QED BY <2>2, <2>6, <2>8, <3>1, <4>1
      <3>2. CASE i # w
        <4>1. i \in DOMAIN slots /\ slots'[i] = slots[i] /\ slots[i] # Zeroed
          BY <2>4, <2>10, <3>2
        <4>2. ASSUME NEW j \in DOMAIN slots', i < j, slots'[j] # Zeroed, slots'[j].key = slots[i].key
              PROVE  slots[i].version <= slots'[j].version
          <5>1. CASE j = w
            BY <2>6, <2>9, <4>1, <4>2, <5>1
          <5>2. CASE j # w
            <6>1. j \in DOMAIN slots /\ slots'[j] = slots[j]
              BY <2>4, <4>2, <5>2
            <6> QED BY <4>1, <4>2, <6>1 DEF RingOrdered
          <5> QED BY <5>1, <5>2
        <4>3. Unread(i)' /\ slots[i].key \in DOMAIN view => view[slots[i].key] <= slots[i].version
          BY <2>5, <4>1 DEF RingOrdered
        <4> QED BY <2>2, <4>1, <4>2, <4>3
      <3> QED BY <3>1, <3>2
    <2> QED BY <2>10 DEF RingOrdered
  <1>12. ASSUME NEW t \in Threads, NEW k \in Keys, WriteDrop(t, k) PROVE RingOrdered'
    BY <1>12 DEF WriteDrop, subscriber, last, Looping, RingOrdered, Unread
  <1>13. CASE StopRunning
    BY <1>13 DEF StopRunning, ring, subscriber, last, Looping, RingOrdered, Unread
  <1>14. CASE StopJoin
    <2>1. \/ UNCHANGED <<slots, writeIndex, consumerRead>>
          \/ slots' = <<>> /\ writeIndex' = 0 /\ consumerRead' = 0
      BY <1>14, RegionCloses DEF StopJoin
    <2>2. UNCHANGED <<view, cursor>> /\ (Looping' => Looping)
      BY <1>14 DEF StopJoin, subscriber, last, Looping
    <2>3. CASE UNCHANGED <<slots, writeIndex, consumerRead>>
      <3>1. \A i : Unread(i)' => Unread(i)
        BY <2>2, <2>3 DEF Unread
      <3> QED BY <2>2, <2>3, <3>1 DEF RingOrdered
    <2>4. CASE slots' = <<>>
      <3>1. DOMAIN slots' = {}
        BY <2>4, NoSlots
      <3> QED BY <3>1 DEF RingOrdered
    <2> QED BY <2>1, <2>3, <2>4
  <1>15. CASE WorkerLoop
    BY <1>15 DEF WorkerLoop, ring, subscriber, last, Looping, RingOrdered, Unread
  <1>16. CASE ObserveConsumer
    BY <1>16 DEF ObserveConsumer, ring, subscriber, last, Looping, RingOrdered, Unread
  <1>17. CASE CopyRetained
    BY <1>17 DEF CopyRetained, ring, subscriber, last, Looping, RingOrdered, Unread
  <1>18. CASE MergeSnapshot
    BY <1>18 DEF MergeSnapshot, ring, subscriber, last, Looping, RingOrdered, Unread
  <1>19. CASE ConsumerGoesQuiet
    BY <1>19 DEF ConsumerGoesQuiet, ring, subscriber, last, Looping, RingOrdered, Unread
  <1>20. CASE SubscriberStart
    BY <1>20 DEF SubscriberStart, ring, Looping, RingOrdered, Unread
  <1>21. CASE SubscriberInitialize
    BY <1>21 DEF SubscriberInitialize, RingOrdered, InitializeHeader
  <1>22. CASE SubscriberAttach
    BY <1>22, Nothings DEF SubscriberAttach, RingOrdered
  <1>23. CASE Drain
    <2>1. /\ Looping /\ cursor < writeIndex /\ cursor \in Nat
          /\ UNCHANGED <<slots, writeIndex>>
      BY <1>23, DrainTakes
    <2>2. writeIndex \in Nat /\ DOMAIN slots = 1 .. Len(slots) /\ Len(slots) \in Nat
      BY Numbers
    <2>3. CASE cursor' = writeIndex /\ UNCHANGED view
      <3>1. \A i \in DOMAIN slots : Unread(i)' => Unread(i)
        BY <2>1, <2>2, <2>3 DEF Unread
      <3> QED BY <2>1, <2>3, <3>1 DEF RingOrdered
    <2>4. CASE /\ cursor + 1 \in DOMAIN slots /\ slots[cursor + 1] # Zeroed /\ cursor' = cursor + 1
               /\ DOMAIN view' = DOMAIN view \cup {slots[cursor + 1].key}
               /\ \A k \in DOMAIN view' : view'[k] = IF k = slots[cursor + 1].key
                                                   THEN slots[cursor + 1].version ELSE view[k]
      <3>1. ASSUME NEW i \in DOMAIN slots, Unread(i)' PROVE cursor + 1 < i /\ Unread(i)
        BY <2>1, <2>2, <2>4, <3>1 DEF Unread
      <3>2. ASSUME NEW i \in DOMAIN slots, slots[i] # Zeroed, Unread(i)', slots[i].key \in DOMAIN view'
            PROVE  view'[slots[i].key] <= slots[i].version
        <4>1. cursor + 1 < i /\ Unread(i)
          BY <3>1, <3>2
        <4>2. CASE slots[i].key = slots[cursor + 1].key
          <5>1. slots[cursor + 1].version <= slots[i].version
            BY <2>4, <3>2, <4>1, <4>2 DEF RingOrdered
          <5> QED BY <2>4, <3>2, <4>2, <5>1
        <4>3. CASE slots[i].key # slots[cursor + 1].key
          <5>1. slots[i].key \in DOMAIN view /\ view'[slots[i].key] = view[slots[i].key]
            BY <2>4, <3>2, <4>3
          <5> QED BY <3>2, <4>1, <5>1 DEF RingOrdered
        <4> QED BY <4>2, <4>3
      <3> QED BY <2>1, <3>2 DEF RingOrdered
    <2> QED BY <1>23, <2>3, <2>4, DrainTakes
  <1>24. CASE DrainEnd
    BY <1>24 DEF DrainEnd, ring, RingOrdered, Unread
  <1>25. CASE ClaimConsumer
    BY <1>25 DEF ClaimConsumer, ring, Looping, RingOrdered, Unread
  <1>26. CASE PublishReadIndex
    BY <1>26 DEF PublishReadIndex, Looping, RingOrdered, Unread
  <1>27. CASE ConsumerHeartbeat
    BY <1>27 DEF ConsumerHeartbeat, ring, Looping, RingOrdered, Unread
  <1>28. CASE SubscriberStop
    <2>1. \/ UNCHANGED <<slots, writeIndex, consumerRead>>
          \/ slots' = <<>> /\ writeIndex' = 0 /\ consumerRead' = 0
      BY <1>28, RegionCloses DEF SubscriberStop
    <2>2. UNCHANGED <<view, cursor>> /\ (Looping' => Looping)
      BY <1>28 DEF SubscriberStop, subscriber, last, Looping
    <2>3. CASE UNCHANGED <<slots, writeIndex, consumerRead>>
      <3>1. \A i : Unread(i)' => Unread(i)
        BY <2>2, <2>3 DEF Unread
      <3> QED BY <2>2, <2>3, <3>1 DEF RingOrdered
    <2>4. CASE slots' = <<>>
      <3>1. DOMAIN slots' = {}
        BY <2>4, NoSlots
      <3> QED BY <3>1 DEF RingOrdered
    <2> QED BY <2>1, <2>3, <2>4
  <1>29. CASE PublisherEnds
    <2>1. /\ \A i \in DOMAIN slots' : i \in DOMAIN slots /\ slots'[i] = slots[i]
          /\ slots' = <<>> \/ UNCHANGED writeIndex
          /\ UNCHANGED <<sub, cursor, lastSeq, lastProcess, view>>
      BY <1>29, ProcessEnded
    <2>2. ASSUME NEW i \in DOMAIN slots', Unread(i)' PROVE Unread(i)
      <3>1. slots' # <<>>
        BY <2>2, NoSlots
      <3> QED BY <2>1, <2>2, <3>1 DEF Unread, Looping
    <2> QED BY <2>1, <2>2 DEF RingOrdered
  <1> QED BY <1>1, <1>2, <1>3, <1>4, <1>5, <1>6, <1>7, <1>8, <1>9, <1>10, <1>11, <1>12, <1>13,
     <1>14, <1>15, <1>16, <1>17, <1>18, <1>19, <1>20, <1>21, <1>22, <1>23, <1>24, <1>25, <1>26,
     <1>27, <1>28, <1>29, NextKinds

-----------------------------------------------------------------------------
(* The theorems *)

\* One thread's calls of FlushNow are one thread's.
Alone == ~(AutoFlush /\ AppFlushes)

OneThread ==
    /\ ~AutoFlush => pc[Worker] = "ended"
    /\ ~AppFlushes => pc[App] \notin {"flush", "write", "commit", "stop", "join"}

\* The types of what the invariants do not mention.
LEMMA RestStep ==
    ASSUME Structure, Rest, [Next]_vars
    PROVE  Rest'
  <1>1. CASE UNCHANGED vars
    BY <1>1 DEF vars, watch, replaying, ring, consumer, subscriber, last, Rest
  <1>2. CASE StartCheck
    BY <1>2 DEF StartCheck, watch, replaying, ring, consumer, subscriber, last, Rest
  <1>3. CASE StartInitialize
    BY <1>3, DirectAssumption DEF StartInitialize, watch, replaying, subscriber, last, Rest,
       InitializeHeader
  <1>4. CASE StartRunning
    BY <1>4 DEF StartRunning, replaying, ring, consumer, subscriber, last, Rest
  <1>5. ASSUME NEW k \in Keys, StoreRetained(k) PROVE Rest'
    BY <1>5 DEF StoreRetained, watch, replaying, ring, consumer, subscriber, last, Rest
  <1>6. CASE StorePending
    BY <1>6 DEF StorePending, watch, replaying, ring, consumer, subscriber, last, Rest
  <1>7. ASSUME NEW place \in {"idle", "stop"}, CallFlushNow(place) PROVE Rest'
    BY <1>7 DEF CallFlushNow, watch, replaying, ring, consumer, subscriber, last, Rest
  <1>8. ASSUME NEW t \in Threads, FlushSwap(t) PROVE Rest'
    BY <1>8 DEF FlushSwap, watch, replaying, ring, consumer, subscriber, last, Rest
  <1>9. ASSUME NEW t \in Threads, WriteCommit(t) PROVE Rest'
    BY <1>9 DEF WriteCommit, watch, replaying, consumer, subscriber, last, Rest
  <1>10. ASSUME NEW t \in Threads, FlushReturn(t) PROVE Rest'
    BY <1>10 DEF FlushReturn, watch, replaying, ring, consumer, subscriber, last, Rest
  <1>11. ASSUME NEW t \in Threads, NEW k \in Keys, WriteCopy(t, k) PROVE Rest'
    BY <1>11 DEF WriteCopy, watch, replaying, consumer, subscriber, last, Rest
  <1>12. ASSUME NEW t \in Threads, NEW k \in Keys, WriteDrop(t, k) PROVE Rest'
    BY <1>12 DEF WriteDrop, watch, replaying, consumer, subscriber, last, Rest
  <1>13. CASE StopRunning
    BY <1>13 DEF StopRunning, watch, replaying, ring, consumer, subscriber, last, Rest
  <1>14. CASE StopJoin
    <2>1. /\ consumerId' \in {consumerId, 0} /\ dropped' \in {dropped, 0}
          /\ consumerFresh' \in {consumerFresh, FALSE}
          /\ UNCHANGED <<seen, lastObserved, instance>> /\ wasActive' \in {wasActive, FALSE}
      BY <1>14 DEF StopJoin, CloseRegion, ring, consumer, replaying, subscriber, last
    <2>2. wasActive' \in BOOLEAN /\ consumerFresh' \in BOOLEAN /\ seen' \in BOOLEAN
      BY <2>1 DEF Rest
    <2>3. 0 \in 0 .. MaxInstance /\ 0 \in Nat
      BY DirectAssumption
    <2>4. /\ consumerId' \in 0 .. MaxInstance /\ dropped' \in Nat
          /\ lastObserved' \in 0 .. MaxInstance /\ instance' \in 0 .. MaxInstance
      BY <2>1, <2>3 DEF Rest
    <2> QED BY <2>2, <2>4 DEF Rest
  <1>15. CASE WorkerLoop
    BY <1>15 DEF WorkerLoop, watch, ring, consumer, subscriber, last, Rest
  <1>16. CASE ObserveConsumer
    BY <1>16 DEF ObserveConsumer, replaying, ring, consumer, subscriber, last, Rest
  <1>17. CASE CopyRetained
    BY <1>17 DEF CopyRetained, watch, ring, consumer, subscriber, last, Rest
  <1>18. CASE MergeSnapshot
    BY <1>18 DEF MergeSnapshot, watch, ring, consumer, subscriber, last, Rest
  <1>19. CASE ConsumerGoesQuiet
    BY <1>19 DEF ConsumerGoesQuiet, watch, replaying, ring, subscriber, last, Rest
  <1>20. CASE SubscriberStart
    BY <1>20, DirectAssumption DEF SubscriberStart, watch, replaying, ring, consumer, Rest
  <1>21. CASE SubscriberInitialize
    BY <1>21, DirectAssumption DEF SubscriberInitialize, watch, replaying, Rest,
       InitializeHeader
  <1>22. CASE SubscriberAttach
    BY <1>22 DEF SubscriberAttach, watch, replaying, consumer, Rest
  <1>23. CASE Drain
    BY <1>23 DEF Drain, watch, replaying, ring, Rest
  <1>24. CASE DrainEnd
    BY <1>24 DEF DrainEnd, watch, replaying, ring, consumer, Rest
  <1>25. CASE ClaimConsumer
    BY <1>25 DEF ClaimConsumer, watch, replaying, ring, Rest
  <1>26. CASE PublishReadIndex
    BY <1>26 DEF PublishReadIndex, watch, replaying, consumer, Rest
  <1>27. CASE ConsumerHeartbeat
    BY <1>27 DEF ConsumerHeartbeat, watch, replaying, ring, Rest
  <1>28. CASE SubscriberStop
    <2>1. /\ consumerId' \in {consumerId, 0} /\ dropped' \in {dropped, 0}
          /\ consumerFresh' \in {consumerFresh, FALSE}
          /\ UNCHANGED <<seen, lastObserved, instance>> /\ wasActive' \in {wasActive, FALSE}
      BY <1>28 DEF SubscriberStop, CloseRegion, ring, consumer, watch, replaying
    <2>2. wasActive' \in BOOLEAN /\ consumerFresh' \in BOOLEAN /\ seen' \in BOOLEAN
      BY <2>1 DEF Rest
    <2>3. 0 \in 0 .. MaxInstance /\ 0 \in Nat
      BY DirectAssumption
    <2>4. /\ consumerId' \in 0 .. MaxInstance /\ dropped' \in Nat
          /\ lastObserved' \in 0 .. MaxInstance /\ instance' \in 0 .. MaxInstance
      BY <2>1, <2>3 DEF Rest
    <2> QED BY <2>2, <2>4 DEF Rest
  <1>29. CASE PublisherEnds
    <2>1. /\ consumerId' \in {consumerId, 0} /\ dropped' \in {dropped, 0}
          /\ consumerFresh' \in {consumerFresh, FALSE}
          /\ UNCHANGED <<seen, instance>> /\ wasActive' = FALSE /\ lastObserved' = 0
      BY <1>29, ProcessEnded DEF consumer
    <2>2. wasActive' \in BOOLEAN /\ consumerFresh' \in BOOLEAN /\ seen' \in BOOLEAN
      BY <2>1 DEF Rest
    <2>3. 0 \in 0 .. MaxInstance /\ 0 \in Nat
      BY DirectAssumption
    <2>4. /\ consumerId' \in 0 .. MaxInstance /\ dropped' \in Nat
          /\ lastObserved' \in 0 .. MaxInstance /\ instance' \in 0 .. MaxInstance
      BY <2>1, <2>3 DEF Rest
    <2> QED BY <2>2, <2>4 DEF Rest
  <1> QED BY <1>1, <1>2, <1>3, <1>4, <1>5, <1>6, <1>7, <1>8, <1>9, <1>10, <1>11, <1>12, <1>13,
     <1>14, <1>15, <1>16, <1>17, <1>18, <1>19, <1>20, <1>21, <1>22, <1>23, <1>24, <1>25, <1>26,
     <1>27, <1>28, <1>29, NextKinds

\* A publisher without worker, or never flushed, uses one thread.
LEMMA OneThreadStep ==
    ASSUME Structure, OneThread, [Next]_vars
    PROVE  OneThread'
  <1>1. CASE UNCHANGED vars
    BY <1>1 DEF vars, OneThread
  <1>2. CASE StartCheck
    BY <1>2 DEF StartCheck, At, Goto, OneThread
  <1>3. CASE StartInitialize
    BY <1>3 DEF StartInitialize, At, Goto, OneThread
  <1>4. CASE StartRunning
    BY <1>4 DEF StartRunning, Structure, Threading, OneThread, Threads
  <1>5. ASSUME NEW k \in Keys, StoreRetained(k) PROVE OneThread'
    BY <1>5 DEF StoreRetained, At, Goto, OneThread
  <1>6. CASE StorePending
    BY <1>6 DEF StorePending, At, Goto, OneThread
  <1>7. ASSUME NEW place \in {"idle", "stop"}, CallFlushNow(place) PROVE OneThread'
    BY <1>7 DEF CallFlushNow, At, Goto, OneThread
  <1>8. ASSUME NEW t \in Threads, FlushSwap(t) PROVE OneThread'
    BY <1>8 DEF FlushSwap, At, Goto, Structure, Threading, OneThread, Threads
  <1>9. ASSUME NEW t \in Threads, WriteCommit(t) PROVE OneThread'
    BY <1>9 DEF WriteCommit, At, Goto, OneThread
  <1>10. ASSUME NEW t \in Threads, FlushReturn(t) PROVE OneThread'
    BY <1>10 DEF FlushReturn, At, Goto, OneThread
  <1>11. ASSUME NEW t \in Threads, NEW k \in Keys, WriteCopy(t, k) PROVE OneThread'
    BY <1>11 DEF WriteCopy, At, Goto, OneThread
  <1>12. ASSUME NEW t \in Threads, NEW k \in Keys, WriteDrop(t, k) PROVE OneThread'
    BY <1>12 DEF WriteDrop, OneThread
  <1>13. CASE StopRunning
    BY <1>13 DEF StopRunning, At, Goto, OneThread
  <1>14. CASE StopJoin
    BY <1>14 DEF StopJoin, At, Goto, OneThread
  <1>15. CASE WorkerLoop
    BY <1>15 DEF WorkerLoop, At, Goto, OneThread
  <1>16. CASE ObserveConsumer
    BY <1>16 DEF ObserveConsumer, At, Goto, OneThread, App, Worker
  <1>17. CASE CopyRetained
    BY <1>17 DEF CopyRetained, At, Goto, Structure, Threading, OneThread
  <1>18. CASE MergeSnapshot
    BY <1>18 DEF MergeSnapshot, At, Goto, Structure, Threading, OneThread
  <1>19. CASE ConsumerGoesQuiet
    BY <1>19 DEF ConsumerGoesQuiet, OneThread
  <1>20. CASE SubscriberStart
    BY <1>20 DEF SubscriberStart, OneThread
  <1>21. CASE SubscriberInitialize
    BY <1>21 DEF SubscriberInitialize, OneThread
  <1>22. CASE SubscriberAttach
    BY <1>22 DEF SubscriberAttach, OneThread
  <1>23. CASE Drain
    BY <1>23 DEF Drain, OneThread
  <1>24. CASE DrainEnd
    BY <1>24 DEF DrainEnd, OneThread
  <1>25. CASE ClaimConsumer
    BY <1>25 DEF ClaimConsumer, OneThread
  <1>26. CASE PublishReadIndex
    BY <1>26 DEF PublishReadIndex, OneThread
  <1>27. CASE ConsumerHeartbeat
    BY <1>27 DEF ConsumerHeartbeat, OneThread
  <1>28. CASE SubscriberStop
    BY <1>28 DEF SubscriberStop, OneThread
  <1>29. CASE PublisherEnds
    <2>1. pc' = [t \in Threads |-> IF t = App THEN "idle" ELSE "ended"] /\ running' = FALSE
      BY <1>29, ProcessEnded
    <2>2. pc'[App] = "idle" /\ pc'[Worker] = "ended" /\ pc' \in [Threads -> Place]
      BY <2>1 DEF Threads, App, Worker, Place
    <2> QED BY <2>2 DEF OneThread
  <1> QED BY <1>1, <1>2, <1>3, <1>4, <1>5, <1>6, <1>7, <1>8, <1>9, <1>10, <1>11, <1>12, <1>13,
     <1>14, <1>15, <1>16, <1>17, <1>18, <1>19, <1>20, <1>21, <1>22, <1>23, <1>24, <1>25, <1>26,
     <1>27, <1>28, <1>29, NextKinds

\* The shapes of what the invariants do not mention, at first.
LEMMA RestInit == Init => Rest
  <1>1. 0 \in 0 .. MaxInstance /\ 0 \in Nat
    BY DirectAssumption
  <1> QED BY <1>1 DEF Init, Rest

\* Every variable has its declared shape, in any use of the publisher.
THEOREM DirectTypes == Spec => []TypeOK
  <1>1. Init => Structure /\ Rest
    BY StructureInit, RestInit
  <1>2. Structure /\ Rest /\ [Next]_vars => Structure' /\ Rest'
    BY StructureStep, RestStep
  <1>3. Structure /\ Rest => TypeOK
    <2> SUFFICES ASSUME Structure, Rest PROVE TypeOK
      OBVIOUS
    <2>1. App \in Threads /\ Worker \in Threads
      BY DEF Threads
    <2>2. /\ running \in BOOLEAN /\ wasActive \in BOOLEAN /\ seen \in BOOLEAN
          /\ magic \in BOOLEAN /\ consumerFresh \in BOOLEAN
          /\ {retained, pending, snapshot, view, batch[App], batch[Worker]} \subseteq VersionMaps
          /\ pc \in [Threads -> Place] /\ slots \in Seq(Messages)
      BY <2>1 DEF Structure, Types, Threading, Rest
    <2>3. back \in [Threads -> Place]
      BY DEF Structure, Types, Place
    <2>4. \A t \in Threads : hold[t] = <<>> \/ hold[t] \in Keys \X Nat
      BY DEF Structure, Types, Holds
    <2>5. {lastObserved, consumerId, instance} \subseteq 0 .. MaxInstance
      BY DEF Rest
    <2>6. /\ {pubSeq, writeIndex, consumerRead, cursor, lastSeq, dropped, process, lastProcess} \subseteq Nat
          /\ sub \in {"off", "initialize", "attached", "drain", "claim", "publish read", "beat"}
      BY DEF Structure, Types, Rest
    <2> QED BY <2>2, <2>3, <2>4, <2>5, <2>6 DEF TypeOK
  <1> QED BY <1>1, <1>2, <1>3, PTL DEF Spec

\* What the theorems below suppose holds of every behaviour of a publisher that has its
\* worker and is never flushed or stopped by the application, or that has no worker.
THEOREM OneThreadWrites == Alone => (Spec => [](OneWriter /\ NoOldSnapshot))
  <1> SUFFICES ASSUME Alone PROVE Spec => [](OneWriter /\ NoOldSnapshot)
    OBVIOUS
  <1>1. Init => Structure /\ OneThread
    <2>1. Init => OneThread
      BY DEF Init, OneThread, Threads, App, Worker
    <2> QED BY <2>1, StructureInit
  <1>2. Structure /\ OneThread /\ [Next]_vars => Structure' /\ OneThread'
    BY StructureStep, OneThreadStep
  <1>3. OneThread => OneWriter /\ NoOldSnapshot
    BY DEF Alone, OneThread, OneWriter, NoOldSnapshot, Writing, At
  <1> QED BY <1>1, <1>2, <1>3, PTL DEF Spec

CursorInv == HoldsAhead /\ CursorsOrdered /\ NumbersOrdered

\* The invariant of positions and numbers holds at first.
LEMMA CursorInit == Init => CursorInv
  <1> SUFFICES ASSUME Init PROVE CursorInv
    OBVIOUS
  <1>1. HoldsAhead
    BY DEF Init, HoldsAhead, At
  <1>2. CursorsOrdered
    BY DEF Init, CursorsOrdered, Looping
  <1>3. NumbersOrdered
    <2>1. DOMAIN slots = {} /\ lastSeq = 0 /\ pubSeq = 0 /\ lastProcess = 0 /\ process = 0
      BY NoSlots DEF Init
    <2> QED BY <2>1 DEF NumbersOrdered, Earlier
  <1> QED BY <1>1, <1>2, <1>3 DEF CursorInv

\* With one writer, every step keeps the invariant of positions and numbers.
LEMMA CursorStep == Structure /\ OneWriter /\ CursorInv /\ [Next]_vars => CursorInv'
  BY HoldsAheadStep, CursorsOrderedStep, NumbersOrderedStep DEF CursorInv

\* As long as one thread at a time writes, the subscriber's cursor stays between the
\* shared one and the index of what is committed, whatever starts, stops and late
\* initializations of the header there are.
THEOREM CursorsStayOrdered == Spec /\ []OneWriter => []CursorsOrdered
  <1>1. CursorInv => CursorsOrdered
    BY DEF CursorInv
  <1> QED BY <1>1, StructureInit, StructureStep, CursorInit, CursorStep, PTL DEF Spec

\* What a step does to the subscriber's picture.
LEMMA ViewSteps ==
    ASSUME [Next]_vars
    PROVE  \/ UNCHANGED <<last, view>>
           \/ view' = Nothing /\ UNCHANGED last /\ sub # "drain"
           \/ Drain
  <1>1. CASE UNCHANGED vars
    BY <1>1 DEF vars, subscriber, last
  <1>2. CASE StartCheck
    BY <1>2 DEF StartCheck, subscriber, last
  <1>3. CASE StartInitialize
    BY <1>3 DEF StartInitialize, subscriber, last
  <1>4. CASE StartRunning
    BY <1>4 DEF StartRunning, subscriber, last
  <1>5. ASSUME NEW k \in Keys, StoreRetained(k) PROVE UNCHANGED <<last, view>>
    BY <1>5 DEF StoreRetained, subscriber, last
  <1>6. CASE StorePending
    BY <1>6 DEF StorePending, subscriber, last
  <1>7. ASSUME NEW place \in {"idle", "stop"}, CallFlushNow(place) PROVE UNCHANGED <<last, view>>
    BY <1>7 DEF CallFlushNow, subscriber, last
  <1>8. ASSUME NEW t \in Threads, FlushSwap(t) PROVE UNCHANGED <<last, view>>
    BY <1>8 DEF FlushSwap, subscriber, last
  <1>9. ASSUME NEW t \in Threads, WriteCommit(t) PROVE UNCHANGED <<last, view>>
    BY <1>9 DEF WriteCommit, subscriber, last
  <1>10. ASSUME NEW t \in Threads, FlushReturn(t) PROVE UNCHANGED <<last, view>>
    BY <1>10 DEF FlushReturn, subscriber, last
  <1>11. ASSUME NEW t \in Threads, NEW k \in Keys, WriteCopy(t, k) PROVE UNCHANGED <<last, view>>
    BY <1>11 DEF WriteCopy, subscriber, last
  <1>12. ASSUME NEW t \in Threads, NEW k \in Keys, WriteDrop(t, k) PROVE UNCHANGED <<last, view>>
    BY <1>12 DEF WriteDrop, subscriber, last
  <1>13. CASE StopRunning
    BY <1>13 DEF StopRunning, subscriber, last
  <1>14. CASE StopJoin
    BY <1>14 DEF StopJoin, subscriber, last
  <1>15. CASE WorkerLoop
    BY <1>15 DEF WorkerLoop, subscriber, last
  <1>16. CASE ObserveConsumer
    BY <1>16 DEF ObserveConsumer, subscriber, last
  <1>17. CASE CopyRetained
    BY <1>17 DEF CopyRetained, subscriber, last
  <1>18. CASE MergeSnapshot
    BY <1>18 DEF MergeSnapshot, subscriber, last
  <1>19. CASE ConsumerGoesQuiet
    BY <1>19 DEF ConsumerGoesQuiet, subscriber, last
  <1>20. CASE SubscriberStart
    BY <1>20 DEF SubscriberStart, subscriber, last
  <1>21. CASE SubscriberInitialize
    BY <1>21 DEF SubscriberInitialize, subscriber, last
  <1>22. CASE SubscriberAttach
    BY <1>22 DEF SubscriberAttach, subscriber, last
  <1>23. CASE Drain
    BY <1>23
  <1>24. CASE DrainEnd
    BY <1>24 DEF DrainEnd, subscriber, last
  <1>25. CASE ClaimConsumer
    BY <1>25 DEF ClaimConsumer, subscriber, last
  <1>26. CASE PublishReadIndex
    BY <1>26 DEF PublishReadIndex, subscriber, last
  <1>27. CASE ConsumerHeartbeat
    BY <1>27 DEF ConsumerHeartbeat, subscriber, last
  <1>28. CASE SubscriberStop
    BY <1>28 DEF SubscriberStop, subscriber, last
  <1>29. CASE PublisherEnds
    BY <1>29 DEF PublisherEnds, subscriber, last
  <1> QED BY <1>1, <1>2, <1>3, <1>4, <1>5, <1>6, <1>7, <1>8, <1>9, <1>10, <1>11, <1>12, <1>13,
     <1>14, <1>15, <1>16, <1>17, <1>18, <1>19, <1>20, <1>21, <1>22, <1>23, <1>24, <1>25, <1>26,
     <1>27, <1>28, <1>29, NextKinds

\* What the subscriber took last comes before what it takes next, or nothing was taken.
LaterTaken ==
    IF last' = last THEN view' \in {view, Nothing}
    ELSE lastProcess < lastProcess' \/ (lastProcess = lastProcess' /\ lastSeq < lastSeq')

\* What a step of the subscriber takes has a later number than what it took.
LEMMA TakenInOrder ==
    ASSUME Structure, CursorInv, [Next]_vars
    PROVE  LaterTaken
  <1>1. CASE UNCHANGED <<last, view>>
    BY <1>1 DEF LaterTaken
  <1>2. CASE view' = Nothing /\ UNCHANGED last
    BY <1>2 DEF LaterTaken
  <1>3. CASE Drain
    <2> DEFINE m == IF cursor + 1 \in DOMAIN slots THEN slots[cursor + 1] ELSE Zeroed
    <2>1. CASE m = Zeroed
      BY <1>3, <2>1 DEF Drain, LaterTaken
    <2>2. CASE m # Zeroed
      <3>1. cursor + 1 \in DOMAIN slots /\ slots[cursor + 1] # Zeroed
        BY <2>2
      <3>2. lastSeq' = slots[cursor + 1].seq /\ lastProcess' = slots[cursor + 1].process
        BY <1>3, <2>2 DEF Drain
      <3>3. Unread(cursor + 1)
        <4>1. sub = "drain" /\ cursor \in Nat
          BY <1>3, Numbers DEF Drain
        <4> QED BY <4>1 DEF Unread, Looping
      <3>4. Earlier(lastProcess, lastSeq, slots[cursor + 1].process, slots[cursor + 1].seq)
        BY <3>1, <3>3 DEF CursorInv, NumbersOrdered
      <3>5. lastProcess < lastProcess' \/ (lastProcess = lastProcess' /\ lastSeq < lastSeq')
        BY <3>2, <3>4 DEF Earlier
      <3>6. last' # last
        BY <3>5, Numbers DEF last
      <3> QED BY <3>5, <3>6 DEF LaterTaken
    <2> QED BY <2>1, <2>2
  <1> QED BY <1>1, <1>2, <1>3, ViewSteps

\* The subscriber takes the messages of a publisher process in the order of their numbers
\* and none twice, and none of a process after one of its successor, across replays, drops,
\* restarts and replaced processes of either side, as long as one thread at a time writes.
THEOREM MessagesInOrder == Spec /\ []OneWriter => InOrder
  <1>1. Structure /\ CursorInv /\ [Next]_vars
          => [IF last' = last THEN view' \in {view, Nothing}
              ELSE lastProcess < lastProcess' \/ (lastProcess = lastProcess' /\ lastSeq < lastSeq')]_vars
    BY TakenInOrder DEF LaterTaken
  <1> QED BY <1>1, StructureInit, StructureStep, CursorInit, CursorStep, PTL DEF Spec, InOrder

\* The invariant of values holds at first.
LEMMA ValuesInit == Init => ValuesOrdered
  <1> SUFFICES ASSUME Init PROVE ValuesOrdered
    OBVIOUS
  <1>1. /\ DOMAIN slots = {} /\ DOMAIN view = {} /\ DOMAIN retained = {}
        /\ DOMAIN pending = {} /\ DOMAIN snapshot = {}
        /\ \A t \in Threads : DOMAIN batch[t] = {}
    BY NoSlots, Nothings DEF Init
  <1> QED BY <1>1 DEF ValuesOrdered, MapsOrdered, SentFirst, RingOrdered, Sent

\* With one writer and no old snapshot, every step keeps the invariant of values.
LEMMA ValuesStep ==
    ASSUME Structure, CursorInv, OneWriter, OneWriter', NoOldSnapshot', ValuesOrdered, [Next]_vars
    PROVE  ValuesOrdered'
  BY MapsOrderedStep, SentFirstStep, RingOrderedStep DEF CursorInv, ValuesOrdered

\* What a step of the subscriber takes is no older than what it shows.
LEMMA TakenNotOlder ==
    ASSUME Structure, CursorInv, ValuesOrdered, [Next]_vars, sub = "drain"
    PROVE  \A k \in DOMAIN view : k \in DOMAIN view' /\ view'[k] >= view[k]
  <1>1. \A k \in DOMAIN view : view[k] \in Nat
    <2>1. \A k \in DOMAIN view : view[k] \in 1 .. MaxVersion
      BY Maps, MapShape
    <2> QED BY <2>1
  <1>2. CASE UNCHANGED view
    BY <1>1, <1>2
  <1>3. CASE Drain
    <2>1. CASE /\ cursor + 1 \in DOMAIN slots /\ slots[cursor + 1] # Zeroed
               /\ DOMAIN view' = DOMAIN view \cup {slots[cursor + 1].key}
               /\ \A k \in DOMAIN view' : view'[k] = IF k = slots[cursor + 1].key
                                                   THEN slots[cursor + 1].version ELSE view[k]
      <3>1. Unread(cursor + 1)
        <4>1. sub = "drain" /\ cursor \in Nat
          BY <1>3, Numbers DEF Drain
        <4> QED BY <4>1 DEF Unread, Looping
      <3>2. slots[cursor + 1].key \in DOMAIN view
              => view[slots[cursor + 1].key] <= slots[cursor + 1].version
        BY <2>1, <3>1 DEF ValuesOrdered, RingOrdered
      <3>3. slots[cursor + 1].version \in Nat
        <4>1. slots[cursor + 1].version \in 1 .. MaxVersion
          BY <2>1, SlotEntries DEF Entries
        <4> QED BY <4>1
      <3>4. ASSUME NEW k \in DOMAIN view PROVE k \in DOMAIN view' /\ view'[k] >= view[k]
        <4>1. CASE k = slots[cursor + 1].key
          BY <1>1, <2>1, <3>2, <3>3, <4>1
        <4>2. CASE k # slots[cursor + 1].key
          BY <1>1, <2>1, <4>2
        <4> QED BY <4>1, <4>2
      <3> QED BY <3>4
    <2> QED BY <1>2, <1>3, <2>1, DrainTakes DEF CursorInv
  <1> QED BY <1>2, <1>3, ViewSteps

\* The value of a key never goes back while a subscriber is attached, although replays
\* send old values again, as long as one thread at a time writes and the application does
\* not write while the worker has a snapshot to merge.
THEOREM ValuesNeverGoBack == Spec /\ []OneWriter /\ []NoOldSnapshot => ViewNeverGoesBack
  <1>1. Structure /\ CursorInv /\ ValuesOrdered /\ [Next]_vars
          => [instance' = instance /\ sub = "drain" =>
                \A k \in DOMAIN view : k \in DOMAIN view' /\ view'[k] >= view[k]]_vars
    BY TakenNotOlder
  <1>2. Structure /\ CursorInv /\ OneWriter /\ OneWriter' /\ NoOldSnapshot' /\ ValuesOrdered /\ [Next]_vars
          => ValuesOrdered'
    BY ValuesStep
  <1> QED BY <1>1, <1>2, StructureInit, StructureStep, CursorInit, CursorStep, ValuesInit, PTL
          DEF Spec, ViewNeverGoesBack

\* So a publisher flushed by its worker alone, or by the application alone, has all three:
\* cursors in order, every message at most once and in order, no value going back.
THEOREM OneThreadKeepsOrder ==
    Alone => (Spec => []CursorsOrdered /\ InOrder /\ ViewNeverGoesBack)
  <1>1. CASE Alone
    <2>1. Spec => [](OneWriter /\ NoOldSnapshot)
      BY <1>1, OneThreadWrites
    <2> QED BY <2>1, CursorsStayOrdered, MessagesInOrder, ValuesNeverGoBack, PTL
  <1>2. CASE ~Alone
    BY <1>2
  <1> QED BY <1>1, <1>2
=============================================================================
