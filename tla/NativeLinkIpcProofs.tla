------------------------- MODULE NativeLinkIpcProofs -------------------------
(***************************************************************************)
(* Proofs about NativeLinkIpc for any set of clients, any number of slots     *)
(* and every value of the bounds.                                             *)
(***************************************************************************)
EXTENDS NativeLinkIpc, SequenceTheorems, TLAPS

-----------------------------------------------------------------------------
(* One slot *)

\* Zero is within every bound, and nobody is no client.
LEMMA Bounds ==
    /\ MaxWrites \in Nat /\ MaxSession \in Nat /\ 1 \in 1 .. MaxSession
    /\ 0 \in 0 .. MaxSession /\ 0 \in 0 .. MaxWrites
    /\ SlotCount \in Nat \ {0} /\ Nobody \notin Clients
  BY IpcAssumption

\* A cleared slot is a slot, and so is a claimed one.
LEMMA FreeSlotType ==
    /\ FreeSlot \in SharedClientSlot
    /\ \A c \in Clients : [FreeSlot EXCEPT !.tag = c] \in SharedClientSlot
                          /\ [FreeSlot EXCEPT !.tag = c].tag = c
  <1>1. <<>> \in Seq(Messages)
    OBVIOUS
  <1>2. FreeSlot \in SharedClientSlot
    BY <1>1, Bounds DEF FreeSlot, SharedClientSlot, NoValue
  <1> QED BY <1>2 DEF SharedClientSlot

\* Writing one field of a slot leaves a slot with the same owner.
LEMMA FieldType ==
    ASSUME NEW s \in SharedClientSlot
    PROVE  /\ \A q \in Seq(Messages) : [s EXCEPT !.inbox = q] \in SharedClientSlot
                                       /\ [s EXCEPT !.inbox = q].tag = s.tag
           /\ \A n \in Nat : [s EXCEPT !.acked = n] \in SharedClientSlot
                             /\ [s EXCEPT !.acked = n].tag = s.tag
           /\ \A n \in Nat : [s EXCEPT !.written = n] \in SharedClientSlot
                             /\ [s EXCEPT !.written = n].tag = s.tag
           /\ \A n \in 0 .. MaxSession : [s EXCEPT !.snap = n] \in SharedClientSlot
                                         /\ [s EXCEPT !.snap = n].tag = s.tag
           /\ \A v \in 0 .. MaxWrites : [s EXCEPT !.mail = v] \in SharedClientSlot
                                        /\ [s EXCEPT !.mail = v].tag = s.tag
           /\ [s EXCEPT !.named = TRUE] \in SharedClientSlot
           /\ [s EXCEPT !.named = TRUE].tag = s.tag
  BY DEF SharedClientSlot

\* The fields of a slot, for the steps that read them.
LEMMA SlotFields ==
    ASSUME NEW s \in SharedClientSlot
    PROVE  /\ s.tag \in Clients \cup {Nobody} /\ s.named \in BOOLEAN
           /\ s.snap \in 0 .. MaxSession /\ s.acked \in Nat /\ s.written \in Nat
           /\ s.inbox \in Seq(Messages) /\ s.mail \in 0 .. MaxWrites
  BY DEF SharedClientSlot

-----------------------------------------------------------------------------
(* All slots.  A step that keeps the owners changes no tag. *)

OwnersKept(before, after) ==
    /\ after \in [Slots -> SharedClientSlot]
    /\ \A i \in Slots : after[i].tag = before[i].tag

\* Writing one slot with its owner kept keeps all owners.
LEMMA OneSlot ==
    ASSUME NEW ss \in [Slots -> SharedClientSlot], NEW i \in Slots,
           NEW s \in SharedClientSlot, s.tag = ss[i].tag
    PROVE  OwnersKept(ss, [ss EXCEPT ![i] = s])
  BY DEF OwnersKept

\* Pushing messages into a slot keeps the owners.
LEMMA PushOne ==
    ASSUME NEW ss \in [Slots -> SharedClientSlot], NEW i \in Slots,
           NEW messages \in Seq(Messages)
    PROVE  OwnersKept(ss, PublishEnvelopeToClientSlot(ss, i, messages))
  <1>1. ss[i].inbox \o messages \in Seq(Messages)
    BY SlotFields, ConcatProperties
  <1>2. /\ [ss[i] EXCEPT !.inbox = ss[i].inbox \o messages] \in SharedClientSlot
        /\ [ss[i] EXCEPT !.inbox = ss[i].inbox \o messages].tag = ss[i].tag
    BY <1>1, FieldType
  <1>3. OwnersKept(ss, [ss EXCEPT ![i] = [ss[i] EXCEPT !.inbox = ss[i].inbox \o messages]])
    BY <1>2, OneSlot
  <1>4. OwnersKept(ss, ss)
    BY DEF OwnersKept
  <1> QED BY <1>3, <1>4 DEF PublishEnvelopeToClientSlot

\* So does a message to every slot that has a named owner.
LEMMA PushAll ==
    ASSUME NEW ss \in [Slots -> SharedClientSlot], NEW m \in Messages
    PROVE  OwnersKept(ss, PublishEnvelopeToAllClients(ss, m))
  <1>1. ASSUME NEW i \in Slots
        PROVE  /\ [ss[i] EXCEPT !.inbox = Append(ss[i].inbox, m)] \in SharedClientSlot
               /\ [ss[i] EXCEPT !.inbox = Append(ss[i].inbox, m)].tag = ss[i].tag
    <2>1. Append(ss[i].inbox, m) \in Seq(Messages)
      BY SlotFields, AppendProperties
    <2> QED BY <2>1, FieldType
  <1> DEFINE pushed(i) == [ss[i] EXCEPT !.inbox = Append(ss[i].inbox, m)]
  <1>2. \A i \in Slots : pushed(i) \in SharedClientSlot /\ pushed(i).tag = ss[i].tag
    BY <1>1
  <1>3. PublishEnvelopeToAllClients(ss, m)
          = [i \in Slots |-> IF IsClientSlotReady(ss[i]) THEN pushed(i) ELSE ss[i]]
    BY DEF PublishEnvelopeToAllClients
  <1> HIDE DEF pushed
  <1> QED BY <1>2, <1>3 DEF OwnersKept

\* Keeping owners composes.
LEMMA KeptTwice ==
    ASSUME NEW a, NEW b, NEW c, OwnersKept(a, b), OwnersKept(b, c)
    PROVE  OwnersKept(a, c)
  BY DEF OwnersKept

\* The messages the server makes are messages.
LEMMA MessageTypes ==
    ASSUME NEW n \in Nat, NEW v \in 0 .. MaxWrites
    PROVE  /\ Update(n, v) \in Messages /\ Refusal(v) \in Messages
           /\ Marker("snapshot begin") \in Messages /\ Marker("state begin") \in Messages
           /\ Marker("live begin") \in Messages
  BY IpcAssumption DEF Update, Refusal, Marker, Messages, NoValue

\* Short sequences are sequences.
LEMMA ShortSequences ==
    ASSUME NEW S, NEW a \in S, NEW b \in S
    PROVE  <<>> \in Seq(S) /\ <<a>> \in Seq(S) /\ <<a, b>> \in Seq(S)
  OBVIOUS

\* A snapshot is a sequence of messages.
LEMMA SnapshotType == latest \in 0 .. MaxWrites => Snapshot \in Seq(Messages)
  <1> SUFFICES ASSUME latest \in 0 .. MaxWrites PROVE Snapshot \in Seq(Messages)
    OBVIOUS
  <1>0. /\ Marker("snapshot begin") \in Messages /\ Marker("state begin") \in Messages
        /\ Marker("live begin") \in Messages /\ Update(0, latest) \in Messages
    BY MessageTypes
  <1>1. /\ <<Marker("snapshot begin"), Marker("state begin")>> \in Seq(Messages)
        /\ <<Update(0, latest)>> \in Seq(Messages)
        /\ <<Marker("live begin")>> \in Seq(Messages)
        /\ <<>> \in Seq(Messages)
    BY <1>0, ShortSequences
  <1>2. (IF latest = NoValue THEN <<>> ELSE <<Update(0, latest)>>) \in Seq(Messages)
    BY <1>1
  <1> QED BY <1>1, <1>2, ConcatProperties DEF Snapshot

-----------------------------------------------------------------------------
(* Type correctness, in two parts: what the server and its slots hold, and      *)
(* what the clients hold.                                                       *)

ScanType == [slot : 0 .. SlotCount, step : {"check", "push", "load", "handle", "ack"},
             who : Clients \cup {Nobody}, rest : Seq(Messages), loaded : Nat]

ServerType ==
    /\ session \in 1 .. MaxSession /\ nextSeq \in Nat \ {0}
    /\ latest \in 0 .. MaxWrites /\ lease \in Clients \cup {Nobody}
    /\ DOMAIN queues \subseteq Clients
    /\ \A c \in DOMAIN queues : queues[c] \in Seq(Messages)
    /\ scan \in ScanType
    /\ processed \in [Slots -> Nat]
    /\ serverFresh \in BOOLEAN
    /\ issued \in 0 .. MaxWrites /\ boots \in Nat \ {0} /\ pauses \in Nat
    /\ handled \in Seq(1 .. MaxWrites)

ClientType ==
    /\ place \in [Clients -> {"off", "claimed", "running", "dead"}]
    /\ slotOf \in [Clients -> 0 .. SlotCount]
    /\ \A c \in Clients : slotOf[c] = NoSlot => place[c] = "off"
    /\ phase \in [Clients -> {"descriptors", "state", "live"}]
    /\ connected \in [Clients -> BOOLEAN] /\ alive \in [Clients -> BOOLEAN]
    /\ submitted \in [Clients -> Nat]
    /\ call \in [Clients -> {"idle", "wait", "write", "submit"}]
    /\ value \in [Clients -> 0 .. MaxWrites] /\ view \in [Clients -> 0 .. MaxWrites]
    /\ sent \in [Clients -> 0 .. MaxWrites] /\ told \in [Clients -> 0 .. MaxWrites]
    /\ refused \in [Clients -> BOOLEAN]

SlotsType == slots \in [Slots -> SharedClientSlot]

\* The parts together are TypeOK.
LEMMA TypeParts == TypeOK <=> ServerType /\ ClientType /\ SlotsType
  BY DEF TypeOK, ServerType, ClientType, SlotsType, ScanType

\* The type invariant, and that no two live clients share a slot.
IpcInv == ServerType /\ ClientType /\ SlotsType /\ SlotExclusive

\* The invariant holds at the start.
LEMMA IpcInit == Init => IpcInv
  <1> SUFFICES ASSUME Init PROVE IpcInv
    OBVIOUS
  <1>1. Idle \in ScanType
    <2>1. <<>> \in Seq(Messages) /\ 0 \in 0 .. SlotCount
      BY Bounds
    <2> QED BY <2>1 DEF Idle, ScanType, NoSlot
  <1>2. ServerType
    <2>1. <<>> \in Seq(1 .. MaxWrites)
      OBVIOUS
    <2> QED BY <1>1, <2>1, Bounds DEF Init, ServerType, NoValue
  <1>3. ClientType
    BY Bounds DEF Init, ClientType, NoValue, NoSlot
  <1>4. SlotsType
    BY FreeSlotType DEF Init, SlotsType
  <1>5. SlotExclusive
    BY DEF Init, SlotExclusive
  <1> QED BY <1>2, <1>3, <1>4, <1>5 DEF IpcInv

\* Who keeps the owners of the slots and where the clients are keeps every live
\* client in its own slot.
LEMMA ExclusiveKept ==
    ASSUME IpcInv, OwnersKept(slots, slots'), UNCHANGED <<place, slotOf, boots, pauses>>
    PROVE  SlotsType' /\ SlotExclusive'
  <1>1. SlotsType'
    BY DEF OwnersKept, SlotsType
  <1>2. SlotExclusive'
    <2> SUFFICES ASSUME boots = 1, pauses = 0, NEW c \in Clients, place[c] \in {"claimed", "running"}
                 PROVE  slots'[slotOf[c]].tag = c
      BY DEF SlotExclusive, Slot
    <2>1. slots[slotOf[c]].tag = c /\ slotOf[c] \in Slots
      BY Bounds DEF IpcInv, SlotExclusive, Slot, ClientType, Slots, NoSlot
    <2> QED BY <2>1 DEF OwnersKept
  <1> QED BY <1>1, <1>2

\* Slots left alone are slots with their owners kept.
LEMMA SlotsUnchanged == SlotsType /\ UNCHANGED slots => OwnersKept(slots, slots')
  BY DEF SlotsType, OwnersKept

\* A running client has a slot.
LEMMA HasSlot ==
    ASSUME ClientType, SlotsType, NEW c \in Clients, place[c] # "off"
    PROVE  slotOf[c] \in Slots /\ Slot(c) \in SharedClientSlot
  <1>1. slotOf[c] \in Slots
    BY Bounds DEF ClientType, Slots, NoSlot
  <1> QED BY <1>1 DEF SlotsType, Slot

-----------------------------------------------------------------------------
(* The server's steps *)

\* What a step of the server leaves alone when it touches neither the clients
\* nor the counters nor the history.
LEMMA ClientsAlone ==
    ClientType /\ UNCHANGED client /\ UNCHANGED <<sent, heard>> => ClientType'
  BY DEF ClientType, client, loop, publishing, heard

\* The scan record after the moves the server makes.
LEMMA ScanMoves ==
    ASSUME scan \in ScanType
    PROVE  /\ Idle \in ScanType
           /\ \A i \in Slots : [Idle EXCEPT !.slot = i] \in ScanType
           /\ \A st \in {"check", "push", "load", "handle", "ack"} :
                 [scan EXCEPT !.step = st] \in ScanType
           /\ \A n \in Nat : [scan EXCEPT !.step = "handle", !.loaded = n] \in ScanType
           /\ \A w \in Clients \cup {Nobody} :
                 [scan EXCEPT !.step = "load", !.who = w] \in ScanType
           /\ \A w \in Clients \cup {Nobody}, q \in Seq(Messages) :
                 [scan EXCEPT !.step = "push", !.who = w, !.rest = q] \in ScanType
           /\ \A q \in Seq(Messages) : [scan EXCEPT !.rest = q] \in ScanType
           /\ NextSlot => scan' \in ScanType
  <1>1. Idle \in ScanType
    <2>1. <<>> \in Seq(Messages) /\ 0 \in 0 .. SlotCount
      BY Bounds
    <2> QED BY <2>1 DEF Idle, ScanType, NoSlot
  <1>2. \A i \in 0 .. SlotCount : [Idle EXCEPT !.slot = i] \in ScanType
    BY <1>1 DEF ScanType
  <1>3. NextSlot => scan' \in ScanType
    <2> SUFFICES ASSUME NextSlot PROVE scan' \in ScanType
      OBVIOUS
    <2>1. CASE scan.slot = SlotCount
      BY <1>1, <2>1 DEF NextSlot
    <2>2. CASE scan.slot # SlotCount
      <3>1. scan.slot + 1 \in 0 .. SlotCount
        BY <2>2, Bounds DEF ScanType
      <3> QED BY <1>2, <2>2, <3>1 DEF NextSlot
    <2> QED BY <2>1, <2>2
  <1>4. Slots \subseteq 0 .. SlotCount
    BY DEF Slots
  <1> QED BY <1>1, <1>2, <1>3, <1>4 DEF ScanType

\* A publication of the server's.
LEMMA PublishFromServerStep == IpcInv /\ PublishFromServer => IpcInv'
  <1> SUFFICES ASSUME IpcInv, PublishFromServer PROVE IpcInv'
    OBVIOUS
  <1>1. nextSeq \in Nat /\ nextSeq + 1 \in Nat \ {0} /\ issued + 1 \in 0 .. MaxWrites
    BY Bounds DEF IpcInv, ServerType, PublishFromServer
  <1>2. Update(nextSeq, issued + 1) \in Messages
    BY <1>1, MessageTypes
  <1>3. OwnersKept(slots, slots')
    BY <1>2, PushAll DEF IpcInv, SlotsType, PublishFromServer
  <1>4. /\ DOMAIN queues' \subseteq Clients
        /\ \A c \in DOMAIN queues' : queues'[c] \in Seq(Messages)
    <2> DEFINE m == Update(nextSeq, issued + 1)
    <2>1. queues' = [c \in DOMAIN queues |-> Append(queues[c], m)]
      BY DEF PublishFromServer, Enqueued
    <2>2. m \in Messages
      BY <1>2
    <2> HIDE DEF m
    <2>3. \A c \in DOMAIN queues : Append(queues[c], m) \in Seq(Messages)
      BY <2>2, AppendProperties DEF IpcInv, ServerType
    <2> QED BY <2>1, <2>3 DEF IpcInv, ServerType
  <1>5. ServerType'
    BY <1>1, <1>4 DEF IpcInv, ServerType, PublishFromServer, server, bounds, history
  <1>6. ClientType'
    BY ClientsAlone DEF IpcInv, PublishFromServer, history
  <1>7. SlotsType' /\ SlotExclusive'
    BY <1>3, ExclusiveKept DEF PublishFromServer, client
  <1> QED BY <1>5, <1>6, <1>7 DEF IpcInv

\* A new session in the same process.
LEMMA RestartSessionStep == IpcInv /\ RestartSession => IpcInv'
  <1> SUFFICES ASSUME IpcInv, RestartSession PROVE IpcInv'
    OBVIOUS
  <1> DEFINE renewed(i) == [slots[i] EXCEPT !.snap = 0]
  <1>1. \A i \in Slots : renewed(i) \in SharedClientSlot /\ renewed(i).tag = slots[i].tag
    BY FieldType, Bounds DEF IpcInv, SlotsType
  <1>2. slots' = [i \in Slots |-> renewed(i)]
    BY DEF RestartSession
  <1> HIDE DEF renewed
  <1>3. OwnersKept(slots, slots')
    BY <1>1, <1>2 DEF OwnersKept
  <1>4. processed' \in [Slots -> Nat]
    <2>1. \A i \in Slots : slots[i].written \in Nat
      BY SlotFields DEF IpcInv, SlotsType
    <2> QED BY <2>1 DEF RestartSession
  <1>5. session' \in 1 .. MaxSession
    BY Bounds DEF IpcInv, ServerType, RestartSession
  <1>6. ServerType'
    <2>1. <<>> \in Seq(Messages)
      OBVIOUS
    <2> QED BY <1>4, <1>5, <2>1 DEF IpcInv, ServerType, RestartSession, bounds, history
  <1>7. ClientType'
    BY ClientsAlone DEF IpcInv, RestartSession, history
  <1>8. SlotsType' /\ SlotExclusive'
    BY <1>3, ExclusiveKept DEF RestartSession, client, bounds
  <1> QED BY <1>6, <1>7, <1>8 DEF IpcInv

\* The heartbeat, a skipped slot, a slot that has its snapshot and the load of
\* the write sequence: steps that move the scan and touch no slot.
LEMMA ScanOnlyStep ==
    ASSUME IpcInv, scan' \in ScanType, serverFresh' \in BOOLEAN,
           UNCHANGED <<core, processed, slots, client, bounds, history>>
    PROVE  IpcInv'
  <1>1. ServerType'
    BY DEF IpcInv, ServerType, core, bounds, history
  <1>2. ClientType'
    BY ClientsAlone DEF IpcInv, history
  <1>3. SlotsType' /\ SlotExclusive'
    BY SlotsUnchanged, ExclusiveKept DEF IpcInv, client, bounds
  <1> QED BY <1>1, <1>2, <1>3 DEF IpcInv

\* They are such steps.
LEMMA ScanOnlySteps ==
    ASSUME IpcInv, NEW i \in Slots,
           \/ ServerBeat \/ ServerGoesQuiet \/ SkipSlot(i)
           \/ SnapshotAlreadyComplete(i) \/ LoadWriteSequence(i)
    PROVE  IpcInv'
  <1>0. scan \in ScanType /\ serverFresh \in BOOLEAN /\ slots[i] \in SharedClientSlot
    BY DEF IpcInv, ServerType, SlotsType
  <1>1. CASE ServerBeat
    <2>1. 1 \in Slots
      BY Bounds DEF Slots
    <2> QED BY <1>0, <1>1, <2>1, ScanMoves, ScanOnlyStep DEF ServerBeat
  <1>2. CASE ServerGoesQuiet
    <2>1. ServerType'
      BY <1>2 DEF IpcInv, ServerType, ServerGoesQuiet, core, server, history
    <2>2. ClientType'
      BY <1>2, ClientsAlone DEF IpcInv, ServerGoesQuiet, history
    <2>3. SlotsType' /\ SlotExclusive'
      BY <1>2, SlotsUnchanged, ExclusiveKept DEF IpcInv, ServerGoesQuiet, client
    <2> QED BY <2>1, <2>2, <2>3 DEF IpcInv
  <1>3. CASE SkipSlot(i)
    BY <1>0, <1>3, ScanMoves, ScanOnlyStep DEF SkipSlot, shared
  <1>4. CASE SnapshotAlreadyComplete(i)
    BY <1>0, <1>4, SlotFields, ScanMoves, ScanOnlyStep DEF SnapshotAlreadyComplete, shared
  <1>5. CASE LoadWriteSequence(i)
    <2>1. slots[i].written \in Nat
      BY <1>0, SlotFields
    <2>2. scan' \in ScanType
      BY <1>0, <1>5, <2>1, ScanMoves DEF LoadWriteSequence
    <2> QED BY <1>0, <1>5, <2>2, ScanOnlyStep DEF LoadWriteSequence, shared
  <1> QED BY <1>1, <1>2, <1>3, <1>4, <1>5

\* A timed-out slot had a dead owner, so every live client keeps its own, or the
\* server took a pause for a death.
LEMMA TimeOutStep == \A i \in Slots : IpcInv /\ (TimeOut(i) \/ TimeOutPaused(i)) => IpcInv'
  <1> SUFFICES ASSUME NEW i \in Slots, IpcInv, TimeOut(i) \/ TimeOutPaused(i) PROVE IpcInv'
    OBVIOUS
  <1>1. /\ ClearSlot(i) /\ pauses' \in Nat
        /\ \/ place[slots[i].tag] = "dead" /\ pauses' = pauses
           \/ pauses' # 0
    BY DEF IpcInv, ServerType, TimeOut, TimeOutPaused
  <1>2. scan' \in ScanType
    BY <1>1, ScanMoves DEF IpcInv, ServerType, ClearSlot
  <1>3. ServerType'
    BY <1>1, <1>2 DEF IpcInv, ServerType, ClearSlot, history
  <1>4. ClientType'
    BY <1>1, ClientsAlone DEF IpcInv, ClearSlot, history
  <1>5. slots' = [slots EXCEPT ![i] = FreeSlot]
    BY <1>1 DEF ClearSlot
  <1>6. SlotsType'
    BY <1>5, FreeSlotType DEF IpcInv, SlotsType
  <1>7. SlotExclusive'
    <2> SUFFICES ASSUME boots = 1, pauses' = 0, NEW c \in Clients,
                        place[c] \in {"claimed", "running"}
                 PROVE  slots'[slotOf[c]].tag = c
      BY <1>1 DEF SlotExclusive, Slot, ClearSlot, client
    <2>1. slotOf[c] \in Slots
      BY HasSlot DEF IpcInv
    <2>2. slots[slotOf[c]].tag = c
      BY <1>1 DEF IpcInv, SlotExclusive, Slot
    <2>3. slotOf[c] # i
      BY <1>1, <2>2
    <2> QED BY <1>5, <2>1, <2>2, <2>3 DEF IpcInv, SlotsType
  <1> QED BY <1>3, <1>4, <1>6, <1>7 DEF IpcInv

\* Connecting the client to the core and computing its snapshot.
LEMMA PublishSnapshotStep == \A i \in Slots : IpcInv /\ PublishSnapshot(i) => IpcInv'
  <1> SUFFICES ASSUME NEW i \in Slots, IpcInv, PublishSnapshot(i) PROVE IpcInv'
    OBVIOUS
  <1>1. slots[i].tag \in Clients
    BY SlotFields DEF IpcInv, SlotsType, PublishSnapshot, IsClientSlotReady
  <1>2. scan' \in ScanType
    BY <1>1, SnapshotType, ScanMoves DEF IpcInv, ServerType, PublishSnapshot
  <1>3. /\ DOMAIN queues' \subseteq Clients
        /\ \A c \in DOMAIN queues' : queues'[c] \in Seq(Messages)
    <2>1. <<>> \in Seq(Messages)
      OBVIOUS
    <2> QED BY <1>1, <2>1 DEF IpcInv, ServerType, PublishSnapshot
  <1>4. ServerType'
    BY <1>2, <1>3 DEF IpcInv, ServerType, PublishSnapshot, shared, bounds, history
  <1>5. ClientType'
    BY ClientsAlone DEF IpcInv, PublishSnapshot, history
  <1>6. SlotsType' /\ SlotExclusive'
    BY SlotsUnchanged, ExclusiveKept DEF IpcInv, PublishSnapshot, shared, client, bounds
  <1> QED BY <1>4, <1>5, <1>6 DEF IpcInv

\* One message of the snapshot.
LEMMA PushSnapshotStep == \A i \in Slots : IpcInv /\ PushSnapshot(i) => IpcInv'
  <1> SUFFICES ASSUME NEW i \in Slots, IpcInv, PushSnapshot(i) PROVE IpcInv'
    OBVIOUS
  <1>1. scan.rest \in Seq(Messages) /\ scan.rest # <<>> /\ scan \in ScanType
    BY DEF IpcInv, ServerType, ScanType, PushSnapshot
  <1>2. Head(scan.rest) \in Messages /\ Tail(scan.rest) \in Seq(Messages)
    BY <1>1, HeadTailProperties
  <1>3. <<Head(scan.rest)>> \in Seq(Messages)
    BY <1>2, ShortSequences
  <1>4. OwnersKept(slots, slots')
    BY <1>3, PushOne DEF IpcInv, SlotsType, PushSnapshot
  <1>5. scan' \in ScanType
    BY <1>1, <1>2, ScanMoves DEF PushSnapshot
  <1>6. ServerType'
    BY <1>5 DEF IpcInv, ServerType, PushSnapshot, core, bounds, history
  <1>7. ClientType'
    BY ClientsAlone DEF IpcInv, PushSnapshot, history
  <1>8. SlotsType' /\ SlotExclusive'
    BY <1>4, ExclusiveKept DEF PushSnapshot, client, bounds
  <1> QED BY <1>6, <1>7, <1>8 DEF IpcInv

\* The mark that the slot has its snapshot.
LEMMA MarkStep == \A i \in Slots : IpcInv /\ MarkSnapshotComplete(i) => IpcInv'
  <1> SUFFICES ASSUME NEW i \in Slots, IpcInv, MarkSnapshotComplete(i) PROVE IpcInv'
    OBVIOUS
  <1>1. /\ [slots[i] EXCEPT !.snap = session] \in SharedClientSlot
        /\ [slots[i] EXCEPT !.snap = session].tag = slots[i].tag
    <2>1. session \in 0 .. MaxSession
      BY Bounds DEF IpcInv, ServerType
    <2> QED BY <2>1, FieldType DEF IpcInv, SlotsType
  <1>2. OwnersKept(slots, slots')
    BY <1>1, OneSlot DEF IpcInv, SlotsType, MarkSnapshotComplete
  <1>3. scan' \in ScanType
    BY ScanMoves DEF IpcInv, ServerType, MarkSnapshotComplete, Goto
  <1>4. ServerType'
    BY <1>3 DEF IpcInv, ServerType, MarkSnapshotComplete, core, bounds, history
  <1>5. ClientType'
    BY ClientsAlone DEF IpcInv, MarkSnapshotComplete, history
  <1>6. SlotsType' /\ SlotExclusive'
    BY <1>2, ExclusiveKept DEF MarkSnapshotComplete, client, bounds
  <1> QED BY <1>4, <1>5, <1>6 DEF IpcInv

\* The acknowledgement.
LEMMA AcknowledgeStep == \A i \in Slots : IpcInv /\ Acknowledge(i) => IpcInv'
  <1> SUFFICES ASSUME NEW i \in Slots, IpcInv, Acknowledge(i) PROVE IpcInv'
    OBVIOUS
  <1>1. scan.loaded \in Nat /\ scan \in ScanType
    BY DEF IpcInv, ServerType, ScanType
  <1>2. /\ [slots[i] EXCEPT !.acked = scan.loaded] \in SharedClientSlot
        /\ [slots[i] EXCEPT !.acked = scan.loaded].tag = slots[i].tag
    BY <1>1, FieldType DEF IpcInv, SlotsType
  <1>3. OwnersKept(slots, slots')
    BY <1>2, OneSlot DEF IpcInv, SlotsType, Acknowledge
  <1>4. scan' \in ScanType
    BY <1>1, ScanMoves DEF Acknowledge
  <1>5. processed' \in [Slots -> Nat]
    BY <1>1 DEF IpcInv, ServerType, Acknowledge
  <1>6. ServerType'
    BY <1>4, <1>5 DEF IpcInv, ServerType, Acknowledge, core, bounds, history
  <1>7. ClientType'
    BY ClientsAlone DEF IpcInv, Acknowledge, history
  <1>8. SlotsType' /\ SlotExclusive'
    BY <1>3, ExclusiveKept DEF Acknowledge, client, bounds
  <1> QED BY <1>6, <1>7, <1>8 DEF IpcInv

\* A client's write, taken, answered and told to all.
LEMMA HandleClientWriteStep == \A i \in Slots : IpcInv /\ HandleClientWrite(i) => IpcInv'
  <1> SUFFICES ASSUME NEW i \in Slots, IpcInv, HandleClientWrite(i) PROVE IpcInv'
    OBVIOUS
  <1> DEFINE who == scan.who
             v == slots[i].mail
             accepted == lease \in {Nobody, who}
             event == IF accepted THEN Update(nextSeq, v) ELSE Refusal(v)
             enqueued == [c \in DOMAIN queues |->
                            IF accepted \/ c = who THEN Append(queues[c], event)
                            ELSE queues[c]]
             drained == IF who \in DOMAIN queues THEN enqueued[who] ELSE <<>>
             answered == PublishEnvelopeToClientSlot(slots, i, drained)
  <1>1. v \in 0 .. MaxWrites /\ who \in Clients \cup {Nobody} /\ nextSeq \in Nat
    BY SlotFields DEF IpcInv, SlotsType, ServerType, ScanType
  <1>2. event \in Messages /\ Update(nextSeq, v) \in Messages
    BY <1>1, MessageTypes
  <1>3. IF v = NoValue
        THEN UNCHANGED <<nextSeq, latest, lease, queues, slots, handled>>
        ELSE /\ handled' = Append(handled, v)
             /\ lease' = IF lease = Nobody THEN who ELSE lease
             /\ queues' = [c \in DOMAIN queues |-> IF c = who THEN <<>> ELSE enqueued[c]]
             /\ IF accepted
                THEN /\ latest' = v
                     /\ nextSeq' = nextSeq + 1
                     /\ slots' = PublishEnvelopeToAllClients(answered, event)
                ELSE /\ slots' = answered
                     /\ UNCHANGED <<latest, nextSeq>>
    BY DEF HandleClientWrite
  <1> HIDE DEF event
  <1>4. /\ DOMAIN enqueued = DOMAIN queues
        /\ \A c \in DOMAIN queues : enqueued[c] \in Seq(Messages)
    <2>1. \A c \in DOMAIN queues : Append(queues[c], event) \in Seq(Messages)
      BY <1>2, AppendProperties DEF IpcInv, ServerType
    <2> QED BY <2>1 DEF IpcInv, ServerType
  <1> HIDE DEF enqueued, accepted
  <1>5. drained \in Seq(Messages)
    BY <1>4, ShortSequences, <1>2
  <1> HIDE DEF drained
  <1>6. OwnersKept(slots, answered)
    BY <1>5, PushOne DEF IpcInv, SlotsType
  <1> HIDE DEF answered
  <1>7. answered \in [Slots -> SharedClientSlot]
    BY <1>6 DEF OwnersKept
  <1>8. OwnersKept(answered, PublishEnvelopeToAllClients(answered, event))
    BY <1>2, <1>7, PushAll
  <1>9. OwnersKept(slots, slots')
    BY <1>3, <1>6, <1>8, KeptTwice, SlotsUnchanged DEF IpcInv
  <1>10. /\ DOMAIN queues' \subseteq Clients
         /\ \A c \in DOMAIN queues' : queues'[c] \in Seq(Messages)
    <2>1. <<>> \in Seq(Messages)
      OBVIOUS
    <2> QED BY <1>3, <1>4, <2>1 DEF IpcInv, ServerType
  <1>11. handled' \in Seq(1 .. MaxWrites)
    <2>1. CASE v = NoValue
      BY <1>3, <2>1 DEF IpcInv, ServerType
    <2>2. CASE v # NoValue
      <3>1. v \in 1 .. MaxWrites
        BY <1>1, <2>2, Bounds DEF NoValue
      <3>2. handled \in Seq(1 .. MaxWrites) /\ handled' = Append(handled, v)
        BY <1>3, <2>2 DEF IpcInv, ServerType
      <3> HIDE DEF v
      <3> QED BY <3>1, <3>2, AppendProperties
    <2> QED BY <2>1, <2>2
  <1>12. /\ latest' \in 0 .. MaxWrites /\ nextSeq' \in Nat \ {0}
         /\ lease' \in Clients \cup {Nobody}
    BY <1>1, <1>3 DEF IpcInv, ServerType
  <1>13. scan' \in ScanType
    BY ScanMoves DEF IpcInv, ServerType, HandleClientWrite, Goto
  <1>14. ServerType'
    BY <1>10, <1>11, <1>12, <1>13 DEF IpcInv, ServerType, HandleClientWrite, bounds
  <1>15. ClientType'
    BY ClientsAlone DEF IpcInv, HandleClientWrite
  <1>16. SlotsType' /\ SlotExclusive'
    BY <1>9, ExclusiveKept DEF HandleClientWrite, client, bounds
  <1> QED BY <1>14, <1>15, <1>16 DEF IpcInv

\* A new server process: from then on SlotExclusive promises nothing.
LEMMA ServerStartStep == IpcInv /\ ServerStart => IpcInv'
  <1> SUFFICES ASSUME IpcInv, ServerStart PROVE IpcInv'
    OBVIOUS
  <1>1. scan' \in ScanType
    BY ScanMoves DEF IpcInv, ServerType, ServerStart
  <1>2. boots' \in Nat \ {0} /\ pauses' \in Nat
    BY DEF IpcInv, ServerType, ServerStart
  <1>3. DOMAIN queues' = {}
    BY DEF ServerStart
  <1>4. /\ session' \in 1 .. MaxSession /\ nextSeq' \in Nat \ {0}
        /\ latest' \in 0 .. MaxWrites /\ lease' \in Clients \cup {Nobody}
        /\ processed' \in [Slots -> Nat]
    BY Bounds DEF ServerStart, NoValue
  <1>5. /\ serverFresh' \in BOOLEAN
        /\ issued' \in 0 .. MaxWrites /\ handled' \in Seq(1 .. MaxWrites)
    BY DEF IpcInv, ServerType, ServerStart, history
  <1>6. ServerType'
    BY <1>1, <1>2, <1>3, <1>4, <1>5 DEF ServerType
  <1>7. ClientType'
    BY ClientsAlone DEF IpcInv, ServerStart, history
  <1>8. SlotsType'
    BY FreeSlotType DEF SlotsType, ServerStart
  <1>9. SlotExclusive'
    BY Bounds DEF IpcInv, ServerType, ServerStart, SlotExclusive
  <1> QED BY <1>6, <1>7, <1>8, <1>9 DEF IpcInv

-----------------------------------------------------------------------------
(* The clients' steps *)

\* What a step of a client leaves alone of the server.
LEMMA ServerAlone ==
    ServerType /\ UNCHANGED <<core, server, serverFresh, issued, boots, pauses, handled>> => ServerType'
  BY DEF ServerType, core, server

\* A claim takes a slot that nobody owns, and a client that is off owns none.
LEMMA ClaimStep == \A c \in Clients : IpcInv /\ Claim(c) => IpcInv'
  <1> SUFFICES ASSUME NEW c \in Clients, IpcInv, Claim(c) PROVE IpcInv'
    OBVIOUS
  <1>1. PICK i \in Slots :
          /\ slots[i].tag = Nobody
          /\ slots' = [slots EXCEPT ![i] = [FreeSlot EXCEPT !.tag = c]]
          /\ slotOf' = [slotOf EXCEPT ![c] = i]
    BY DEF Claim
  <1>2. ServerType'
    BY ServerAlone DEF IpcInv, Claim, history
  <1>3. ClientType'
    <2>1. i \in 0 .. SlotCount /\ i # NoSlot
      BY Bounds DEF Slots, NoSlot
    <2> QED BY <1>1, <2>1 DEF IpcInv, ClientType, Claim, loop, publishing, history, heard
  <1>4. SlotsType'
    BY <1>1, FreeSlotType DEF IpcInv, SlotsType
  <1>5. SlotExclusive'
    <2> SUFFICES ASSUME boots = 1, pauses = 0, NEW d \in Clients, place'[d] \in {"claimed", "running"}
                 PROVE  slots'[slotOf'[d]].tag = d
      BY DEF SlotExclusive, Slot, Claim
    <2>1. CASE d = c
      BY <1>1, <2>1, FreeSlotType DEF IpcInv, ClientType, SlotsType
    <2>2. CASE d # c
      <3>1. place[d] \in {"claimed", "running"} /\ slotOf'[d] = slotOf[d]
        BY <1>1, <2>2 DEF IpcInv, ClientType, Claim
      <3>2. slotOf[d] \in Slots /\ slots[slotOf[d]].tag = d
        BY <3>1, HasSlot DEF IpcInv, SlotExclusive, Slot
      <3>3. slotOf[d] # i
        BY <1>1, <3>2, Bounds
      <3> QED BY <1>1, <3>1, <3>2, <3>3 DEF IpcInv, SlotsType
    <2> QED BY <2>1, <2>2
  <1> QED BY <1>2, <1>3, <1>4, <1>5 DEF IpcInv

\* The client writes its name into the slot it has claimed.
LEMMA AdvertiseStep == \A c \in Clients : IpcInv /\ Advertise(c) => IpcInv'
  <1> SUFFICES ASSUME NEW c \in Clients, IpcInv, Advertise(c) PROVE IpcInv'
    OBVIOUS
  <1>1. slotOf[c] \in Slots /\ Slot(c) \in SharedClientSlot
    BY HasSlot DEF IpcInv, Advertise
  <1>2. OwnersKept(slots, slots')
    BY <1>1, FieldType, OneSlot DEF IpcInv, SlotsType, Slot, Advertise
  <1>3. ServerType'
    BY ServerAlone DEF IpcInv, Advertise, bounds
  <1>4. ClientType'
    BY Bounds DEF IpcInv, ClientType, Advertise, publishing, NoValue
  <1>5. SlotsType'
    BY <1>2 DEF OwnersKept, SlotsType
  <1>6. SlotExclusive'
    <2> SUFFICES ASSUME boots = 1, pauses = 0, NEW d \in Clients, place'[d] \in {"claimed", "running"}
                 PROVE  slots'[slotOf[d]].tag = d
      BY DEF SlotExclusive, Slot, Advertise, bounds
    <2>1. place[d] \in {"claimed", "running"}
      BY DEF IpcInv, ClientType, Advertise
    <2>2. slotOf[d] \in Slots /\ slots[slotOf[d]].tag = d
      BY <2>1, HasSlot DEF IpcInv, SlotExclusive, Slot
    <2> QED BY <1>2, <2>2 DEF OwnersKept
  <1> QED BY <1>3, <1>4, <1>5, <1>6 DEF IpcInv

\* A client that stops clears the slot it had, which is no other live client's.
LEMMA StopStep == \A c \in Clients : IpcInv /\ Stop(c) => IpcInv'
  <1> SUFFICES ASSUME NEW c \in Clients, IpcInv, Stop(c) PROVE IpcInv'
    OBVIOUS
  <1>1. slotOf[c] \in Slots
    BY HasSlot DEF IpcInv, Stop
  <1>2. ServerType'
    BY ServerAlone DEF IpcInv, Stop, bounds, history
  <1>3. ClientType'
    <2>1. NoSlot \in 0 .. SlotCount
      BY Bounds DEF NoSlot
    <2> QED BY <2>1 DEF IpcInv, ClientType, Stop, publishing, history, heard
  <1>4. SlotsType'
    BY <1>1, FreeSlotType DEF IpcInv, SlotsType, Stop
  <1>5. SlotExclusive'
    <2> SUFFICES ASSUME boots = 1, pauses = 0, NEW d \in Clients, place'[d] \in {"claimed", "running"}
                 PROVE  slots'[slotOf'[d]].tag = d
      BY DEF SlotExclusive, Slot, Stop, bounds
    <2>1. d # c /\ place[d] \in {"claimed", "running"} /\ slotOf'[d] = slotOf[d]
      BY DEF IpcInv, ClientType, Stop
    <2>2. /\ slotOf[d] \in Slots /\ slots[slotOf[d]].tag = d
          /\ slots[slotOf[c]].tag = c
      BY <2>1, HasSlot DEF IpcInv, SlotExclusive, Slot, Stop
    <2> QED BY <1>1, <2>1, <2>2 DEF IpcInv, SlotsType, Stop
  <1> QED BY <1>2, <1>3, <1>4, <1>5 DEF IpcInv

\* A client that dies is no live client.
LEMMA CrashStep == \A c \in Clients : IpcInv /\ Crash(c) => IpcInv'
  <1> SUFFICES ASSUME NEW c \in Clients, IpcInv, Crash(c) PROVE IpcInv'
    OBVIOUS
  <1>1. ServerType'
    BY ServerAlone DEF IpcInv, Crash, shared, bounds, history
  <1>2. ClientType'
    BY DEF IpcInv, ClientType, Crash, history, heard
  <1>3. SlotsType'
    BY DEF IpcInv, SlotsType, Crash, shared
  <1>4. SlotExclusive'
    <2> SUFFICES ASSUME boots = 1, pauses = 0, NEW d \in Clients, place'[d] \in {"claimed", "running"}
                 PROVE  slots[slotOf[d]].tag = d
      BY DEF SlotExclusive, Slot, Crash, shared, bounds
    <2>1. place[d] \in {"claimed", "running"}
      BY DEF IpcInv, ClientType, Crash
    <2> QED BY <2>1 DEF IpcInv, SlotExclusive, Slot
  <1> QED BY <1>1, <1>2, <1>3, <1>4 DEF IpcInv

\* An entry of a function replaced by another value of its range.
LEMMA OneEntry ==
    ASSUME NEW D, NEW R, NEW f \in [D -> R], NEW x \in D, NEW v \in R
    PROVE  [f EXCEPT ![x] = v] \in [D -> R]
  OBVIOUS

\* The turn's look at the server's heartbeat.
LEMMA LookStep == \A c \in Clients : IpcInv /\ LookAtHeartbeat(c) => IpcInv'
  <1> SUFFICES ASSUME NEW c \in Clients, IpcInv, LookAtHeartbeat(c) PROVE IpcInv'
    OBVIOUS
  <1>1. ServerType'
    BY ServerAlone DEF IpcInv, LookAtHeartbeat, shared, bounds, history
  <1>2. ClientType'
    <2>1. /\ serverFresh \in BOOLEAN /\ FALSE \in BOOLEAN
          /\ alive \in [Clients -> BOOLEAN] /\ connected \in [Clients -> BOOLEAN]
      BY DEF IpcInv, ServerType, ClientType
    <2>2. [alive EXCEPT ![c] = serverFresh] \in [Clients -> BOOLEAN]
      BY <2>1, OneEntry, Zenon
    <2>3. [connected EXCEPT ![c] = FALSE] \in [Clients -> BOOLEAN]
      BY <2>1, OneEntry, Zenon
    <2>4. alive' \in [Clients -> BOOLEAN] /\ connected' \in [Clients -> BOOLEAN]
      BY <2>1, <2>2, <2>3, Zenon DEF LookAtHeartbeat
    <2>5. phase' \in [Clients -> {"descriptors", "state", "live"}]
      <3>1. \/ UNCHANGED phase \/ phase' = [phase EXCEPT ![c] = "descriptors"]
        BY DEF LookAtHeartbeat
      <3> QED BY <3>1 DEF IpcInv, ClientType
    <2>6. submitted' \in [Clients -> Nat]
      <3>1. UNCHANGED submitted \/ submitted' = [submitted EXCEPT ![c] = 0]
        BY DEF LookAtHeartbeat
      <3> QED BY <3>1 DEF IpcInv, ClientType
    <2>7. UNCHANGED <<place, slotOf, call, value, view, sent, told, refused>>
      BY DEF LookAtHeartbeat, publishing, history, heard
    <2> QED BY <2>4, <2>5, <2>6, <2>7 DEF IpcInv, ClientType
  <1>3. SlotsType' /\ SlotExclusive'
    BY SlotsUnchanged, ExclusiveKept DEF IpcInv, LookAtHeartbeat, shared, bounds
  <1> QED BY <1>1, <1>2, <1>3 DEF IpcInv

\* A message taken from the slot.
LEMMA TakeMessageStep == \A c \in Clients : IpcInv /\ TakeMessage(c) => IpcInv'
  <1> SUFFICES ASSUME NEW c \in Clients, IpcInv, TakeMessage(c) PROVE IpcInv'
    OBVIOUS
  <1> DEFINE m == Head(Slot(c).inbox)
  <1>1. slotOf[c] \in Slots /\ Slot(c) \in SharedClientSlot
    BY HasSlot DEF IpcInv, TakeMessage, Running
  <1>2. Slot(c).inbox \in Seq(Messages) /\ Slot(c).inbox # <<>>
    BY <1>1, SlotFields DEF TakeMessage
  <1>3. m \in Messages /\ Tail(Slot(c).inbox) \in Seq(Messages)
    BY <1>2, HeadTailProperties
  <1>4. OwnersKept(slots, slots')
    <2>1. /\ [Slot(c) EXCEPT !.inbox = Tail(Slot(c).inbox)] \in SharedClientSlot
          /\ [Slot(c) EXCEPT !.inbox = Tail(Slot(c).inbox)].tag = Slot(c).tag
      BY <1>1, <1>3, FieldType
    <2> QED BY <1>1, <2>1, OneSlot DEF IpcInv, SlotsType, Slot, TakeMessage
  <1>5. ServerType'
    BY ServerAlone DEF IpcInv, TakeMessage, bounds, history
  <1>6. ClientType'
    <2>1. /\ m.kind \in {"snapshot begin", "state begin", "live begin", "update", "reject"}
          /\ m.value \in 0 .. MaxWrites
      BY <1>3 DEF Messages
    <2>2. phase' = [phase EXCEPT ![c] = PhaseAfter(m.kind, phase[c])]
      BY DEF TakeMessage
    <2>3. PhaseAfter(m.kind, phase[c]) \in {"descriptors", "state", "live"}
      BY <2>1 DEF IpcInv, ClientType, PhaseAfter
    <2>4. phase' \in [Clients -> {"descriptors", "state", "live"}]
      BY <2>2, <2>3 DEF IpcInv, ClientType
    <2>5. \/ UNCHANGED <<submitted, connected>>
          \/ /\ submitted' = [submitted EXCEPT ![c] = 0]
             /\ connected' = [connected EXCEPT ![c] = FALSE]
      BY DEF TakeMessage
    <2>6. \/ UNCHANGED <<view, told, refused>>
          \/ /\ view' = [view EXCEPT ![c] = m.value]
             /\ told' = [told EXCEPT ![c] = IF m.kind = "reject" THEN told[c] ELSE m.value]
             /\ refused' = [refused EXCEPT ![c] = m.kind = "reject"]
      BY DEF TakeMessage, HandOn, heard
    <2> HIDE DEF m
    <2>7. view' \in [Clients -> 0 .. MaxWrites] /\ told' \in [Clients -> 0 .. MaxWrites]
      <3>1. (IF m.kind = "reject" THEN told[c] ELSE m.value) \in 0 .. MaxWrites
        BY <2>1 DEF IpcInv, ClientType
      <3> QED BY <2>1, <2>6, <3>1 DEF IpcInv, ClientType
    <2>11. refused' \in [Clients -> BOOLEAN]
      <3>1. refused \in [Clients -> BOOLEAN] /\ (m.kind = "reject") \in BOOLEAN
        BY DEF IpcInv, ClientType
      <3>2. [refused EXCEPT ![c] = m.kind = "reject"] \in [Clients -> BOOLEAN]
        BY <3>1, OneEntry, Zenon
      <3> QED BY <2>6, <3>1, <3>2, Zenon
    <2>8. submitted' \in [Clients -> Nat]
      BY <2>5 DEF IpcInv, ClientType
    <2>9. connected' \in [Clients -> BOOLEAN]
      <3>1. connected \in [Clients -> BOOLEAN] /\ FALSE \in BOOLEAN
        BY DEF IpcInv, ClientType
      <3>2. [connected EXCEPT ![c] = FALSE] \in [Clients -> BOOLEAN]
        BY <3>1, OneEntry, Zenon
      <3> QED BY <2>5, <3>1, <3>2, Zenon
    <2>10. UNCHANGED <<place, slotOf, alive, call, value, sent>>
      BY DEF TakeMessage, publishing, history
    <2> QED BY <2>4, <2>7, <2>8, <2>9, <2>10, <2>11 DEF IpcInv, ClientType
  <1>7. SlotsType' /\ SlotExclusive'
    BY <1>4, ExclusiveKept DEF TakeMessage, bounds
  <1> QED BY <1>5, <1>6, <1>7 DEF IpcInv

\* Reporting the connection and the steps of Publish up to the mail: no slot is
\* written.
LEMMA QuietClientSteps ==
    ASSUME IpcInv, NEW c \in Clients,
           MaybePublishConnected(c) \/ PublishCall(c) \/ WaitAcked(c) \/ GiveUp(c)
    PROVE  IpcInv'
  <1>1. CASE MaybePublishConnected(c)
    <2>1. ServerType'
      BY <1>1, ServerAlone DEF IpcInv, MaybePublishConnected, shared, bounds, history
    <2>2. ClientType'
      BY <1>1 DEF IpcInv, ClientType, MaybePublishConnected, publishing, history, heard
    <2>3. SlotsType' /\ SlotExclusive'
      BY <1>1, SlotsUnchanged, ExclusiveKept DEF IpcInv, MaybePublishConnected, shared, bounds
    <2> QED BY <2>1, <2>2, <2>3 DEF IpcInv
  <1>2. CASE PublishCall(c)
    <2>1. issued + 1 \in 0 .. MaxWrites /\ issued' = issued + 1
      BY <1>2, Bounds DEF IpcInv, ServerType, PublishCall
    <2>2. ServerType'
      BY <1>2, <2>1 DEF IpcInv, ServerType, PublishCall, core, server, shared, history
    <2>3. ClientType'
      BY <1>2, <2>1 DEF IpcInv, ClientType, PublishCall, loop, history, heard
    <2>4. SlotsType' /\ SlotExclusive'
      BY <1>2, SlotsUnchanged, ExclusiveKept DEF IpcInv, PublishCall, shared
    <2> QED BY <2>2, <2>3, <2>4 DEF IpcInv
  <1>3. CASE WaitAcked(c) \/ GiveUp(c)
    <2>1. /\ \/ call' = [call EXCEPT ![c] = "write"]
             \/ call' = [call EXCEPT ![c] = "idle"]
          /\ UNCHANGED <<core, server, shared, place, slotOf, loop, value, view, bounds, history>>
      BY <1>3 DEF WaitAcked, GiveUp
    <2>2. ServerType'
      BY <2>1, ServerAlone DEF IpcInv, shared, bounds, history
    <2>3. ClientType'
      BY <2>1 DEF IpcInv, ClientType, loop, history, heard
    <2>4. SlotsType' /\ SlotExclusive'
      BY <2>1, SlotsUnchanged, ExclusiveKept DEF IpcInv, shared, bounds
    <2> QED BY <2>2, <2>3, <2>4 DEF IpcInv
  <1> QED BY <1>1, <1>2, <1>3

\* The mail.
LEMMA WriteMailStep == \A c \in Clients : IpcInv /\ WriteMail(c) => IpcInv'
  <1> SUFFICES ASSUME NEW c \in Clients, IpcInv, WriteMail(c) PROVE IpcInv'
    OBVIOUS
  <1>1. slotOf[c] \in Slots /\ Slot(c) \in SharedClientSlot
    BY HasSlot DEF IpcInv, WriteMail, Running
  <1>2. value[c] \in 0 .. MaxWrites
    BY DEF IpcInv, ClientType
  <1>3. /\ [Slot(c) EXCEPT !.mail = value[c]] \in SharedClientSlot
        /\ [Slot(c) EXCEPT !.mail = value[c]].tag = Slot(c).tag
    BY <1>1, <1>2, FieldType
  <1>4. OwnersKept(slots, slots')
    BY <1>1, <1>3, OneSlot DEF IpcInv, SlotsType, Slot, WriteMail
  <1>5. ServerType'
    BY ServerAlone DEF IpcInv, WriteMail, bounds, history
  <1>6. ClientType'
    BY DEF IpcInv, ClientType, WriteMail, loop, history, heard
  <1>7. SlotsType' /\ SlotExclusive'
    BY <1>4, ExclusiveKept DEF WriteMail, bounds
  <1> QED BY <1>5, <1>6, <1>7 DEF IpcInv

\* The sequence number that submits it.
LEMMA SubmitStep == \A c \in Clients : IpcInv /\ Submit(c) => IpcInv'
  <1> SUFFICES ASSUME NEW c \in Clients, IpcInv, Submit(c) PROVE IpcInv'
    OBVIOUS
  <1>1. slotOf[c] \in Slots /\ Slot(c) \in SharedClientSlot
    BY HasSlot DEF IpcInv, Submit, Running
  <1>2. PICK n \in Nat : /\ slots' = [slots EXCEPT ![slotOf[c]].written = n]
                         /\ submitted' = [submitted EXCEPT ![c] = n]
    <2> DEFINE last == IF Slot(c).written > Slot(c).acked THEN Slot(c).written
                       ELSE Slot(c).acked
    <2>1. last + 1 \in Nat
      BY <1>1, SlotFields
    <2>2. /\ slots' = [slots EXCEPT ![slotOf[c]].written = last + 1]
          /\ submitted' = [submitted EXCEPT ![c] = last + 1]
      BY DEF Submit
    <2> HIDE DEF last
    <2> QED BY <2>1, <2>2
  <1>3. /\ [Slot(c) EXCEPT !.written = n] \in SharedClientSlot
        /\ [Slot(c) EXCEPT !.written = n].tag = Slot(c).tag
    BY <1>1, FieldType
  <1>4. OwnersKept(slots, slots')
    BY <1>1, <1>2, <1>3, OneSlot DEF IpcInv, SlotsType, Slot
  <1>5. ServerType'
    BY ServerAlone DEF IpcInv, Submit, bounds
  <1>6. ClientType'
    BY <1>2 DEF IpcInv, ClientType, Submit, heard
  <1>7. SlotsType' /\ SlotExclusive'
    BY <1>4, ExclusiveKept DEF Submit, bounds
  <1> QED BY <1>5, <1>6, <1>7 DEF IpcInv

-----------------------------------------------------------------------------
\* Every step preserves the invariant.
LEMMA IpcInductive == IpcInv /\ [Next]_vars => IpcInv'
  <1> SUFFICES ASSUME IpcInv, [Next]_vars PROVE IpcInv'
    OBVIOUS
  <1>1. 1 \in Slots
    BY Bounds DEF Slots
  <1>2. CASE ServerStep
    <2>1. CASE ServerBeat
      BY <1>1, <2>1, ScanOnlySteps
    <2>2. CASE ScanClients
      BY <2>2, ScanOnlySteps, TimeOutStep, PublishSnapshotStep, PushSnapshotStep, MarkStep,
         HandleClientWriteStep, AcknowledgeStep DEF ScanClients
    <2> QED BY <1>2, <2>1, <2>2 DEF ServerStep
  <1>3. CASE PublishFromServer \/ RestartSession \/ ServerGoesQuiet \/ ServerStart
    BY <1>1, <1>3, PublishFromServerStep, RestartSessionStep, ScanOnlySteps, ServerStartStep
  <1>4. ASSUME NEW c \in Clients,
               \/ Claim(c) \/ Advertise(c) \/ Stop(c) \/ Crash(c)
               \/ LookAtHeartbeat(c) \/ TakeMessage(c) \/ MaybePublishConnected(c)
               \/ PublishCall(c) \/ PublishStep(c) \/ GiveUp(c)
        PROVE  IpcInv'
    BY <1>4, ClaimStep, AdvertiseStep, StopStep, CrashStep, LookStep, TakeMessageStep,
       QuietClientSteps, WriteMailStep, SubmitStep DEF PublishStep
  <1>5. CASE UNCHANGED vars
    <2>1. ServerType'
      BY <1>5, ServerAlone DEF IpcInv, vars, shared, bounds, history
    <2>2. ClientType'
      BY <1>5, ClientsAlone DEF IpcInv, vars, history
    <2>3. SlotsType' /\ SlotExclusive'
      BY <1>5, SlotsUnchanged, ExclusiveKept DEF IpcInv, vars, shared, client, bounds
    <2> QED BY <2>1, <2>2, <2>3 DEF IpcInv
  <1> QED BY <1>2, <1>3, <1>4, <1>5 DEF Next

\* Server, slots and clients keep their types, whatever the number of either.
THEOREM IpcTypeCorrect == Spec => []TypeOK
  <1>1. IpcInv => TypeOK
    BY TypeParts DEF IpcInv
  <1> QED BY <1>1, IpcInit, IpcInductive, PTL DEF Spec

\* As long as one server process lives and no pause is taken for a death, no two
\* live clients use one slot, and each finds its own tag in the slot it drains and
\* writes (the compare-and-swap of Start, the clearing of Stop, the time-out of
\* the scan).
THEOREM SlotsAreExclusive == Spec => []SlotExclusive
  <1>1. IpcInv => SlotExclusive
    BY DEF IpcInv
  <1> QED BY <1>1, IpcInit, IpcInductive, PTL DEF Spec

-----------------------------------------------------------------------------
(* Acknowledgements.  A client believes its last write handled when the slot's    *)
(* acknowledged sequence reaches the number it submitted.  That is sound because a *)
(* visit of the scan either serves the owner it found, and then acknowledges no     *)
(* more than was written when its mail was taken, or finds its slot claimed anew    *)
(* by a client that cannot publish before a later visit.                            *)

Live(c) == place[c] \in {"claimed", "running"}
Taken(v) == \E n \in DOMAIN handled : handled[n] = v
Past(i) == scan.slot = i /\ scan.step \in {"load", "handle", "ack"}
Solo == boots = 1 /\ pauses = 0

\* No call is under way outside a running client, and none is connected.
CallsRun == \A c \in Clients :
    /\ call[c] # "idle" => place[c] = "running" /\ value[c] # NoValue
    /\ connected[c] => place[c] = "running"

VisitSound(c) == Past(slotOf[c]) =>
    \/ /\ Slot(c).snap = session
       /\ scan.step \in {"handle", "ack"} =>
            Slot(c).acked < scan.loaded /\ scan.loaded <= Slot(c).written
    \/ /\ Slot(c).snap # session
       /\ Slot(c).written = 0 /\ ~connected[c] /\ call[c] = "idle"

AcksProcessed(c) ==
    /\ place[c] = "claimed" => Slot(c).written = 0
    /\ Slot(c).written > 0 /\ Slot(c).acked >= Slot(c).written
         => processed[slotOf[c]] >= Slot(c).written

SubmissionSound(c) == place[c] = "running" =>
    /\ call[c] = "submit" => Slot(c).mail = value[c]
    /\ submitted[c] # 0 =>
         /\ submitted[c] = Slot(c).written
         /\ sent[c] # NoValue
         /\ \/ Slot(c).acked >= Slot(c).written /\ Taken(sent[c])
            \/ /\ Slot(c).acked < Slot(c).written
               /\ Slot(c).mail = sent[c] /\ call[c] \in {"idle", "wait"}
         /\ At(slotOf[c], "ack") /\ scan.loaded = Slot(c).written => Taken(sent[c])

AckSound(c) == Live(c) => VisitSound(c) /\ AcksProcessed(c) /\ SubmissionSound(c)

AckInv == CallsRun /\ (Solo => \A c \in Clients : AckSound(c))

\* As long as one server process lives and no pause is taken for a death, a live
\* client has the slot it claimed, and no other live client has it.
LEMMA OwnSlot ==
    ASSUME IpcInv, Solo, NEW c \in Clients, Live(c)
    PROVE  /\ slotOf[c] \in Slots /\ slots[slotOf[c]].tag = c
           /\ Slot(c) = slots[slotOf[c]] /\ Slot(c) \in SharedClientSlot
           /\ Slot(c).acked \in Nat /\ Slot(c).written \in Nat
           /\ \A d \in Clients : Live(d) /\ d # c => slotOf[d] # slotOf[c]
  <1>1. \A d \in Clients : Live(d) =>
           slotOf[d] \in Slots /\ Slot(d) \in SharedClientSlot /\ slots[slotOf[d]].tag = d
    BY HasSlot DEF IpcInv, SlotExclusive, Solo, Live, Slot
  <1> QED BY <1>1, SlotFields DEF Slot

\* The fields of a slot that the acknowledgements are about.
FieldsKept(s, t) ==
    t.tag = s.tag /\ t.snap = s.snap /\ t.acked = s.acked /\ t.written = s.written /\ t.mail = s.mail

\* Pushing messages keeps them, in every slot.
LEMMA PushKeepsFields ==
    ASSUME NEW ss \in [Slots -> SharedClientSlot]
    PROVE  /\ \A i \in Slots, q \in Seq(Messages), j \in Slots :
                 FieldsKept(ss[j], PublishEnvelopeToClientSlot(ss, i, q)[j])
           /\ \A m \in Messages, j \in Slots :
                 FieldsKept(ss[j], PublishEnvelopeToAllClients(ss, m)[j])
  <1>1. \A q : \A s \in SharedClientSlot : FieldsKept(s, [s EXCEPT !.inbox = q])
    BY DEF SharedClientSlot, FieldsKept
  <1>2. \A j \in Slots : ss[j] \in SharedClientSlot /\ FieldsKept(ss[j], ss[j])
    BY DEF FieldsKept
  <1>3. ASSUME NEW i \in Slots, NEW q \in Seq(Messages), NEW j \in Slots
        PROVE  FieldsKept(ss[j], PublishEnvelopeToClientSlot(ss, i, q)[j])
    <2> DEFINE t == [ss[i] EXCEPT !.inbox = ss[i].inbox \o q]
    <2>1. FieldsKept(ss[i], t)
      BY <1>1, <1>2
    <2>2. PublishEnvelopeToClientSlot(ss, i, q) \in {ss, [ss EXCEPT ![i] = t]}
      BY DEF PublishEnvelopeToClientSlot
    <2> HIDE DEF t
    <2>3. CASE j = i
      BY <1>2, <2>1, <2>2, <2>3
    <2>4. CASE j # i
      BY <1>2, <2>2, <2>4
    <2> QED BY <2>3, <2>4
  <1>4. ASSUME NEW m \in Messages, NEW j \in Slots
        PROVE  FieldsKept(ss[j], PublishEnvelopeToAllClients(ss, m)[j])
    <2>1. PublishEnvelopeToAllClients(ss, m)[j]
             \in {ss[j], [ss[j] EXCEPT !.inbox = Append(ss[j].inbox, m)]}
      BY DEF PublishEnvelopeToAllClients
    <2>2. FieldsKept(ss[j], [ss[j] EXCEPT !.inbox = Append(ss[j].inbox, m)])
      BY <1>1, <1>2
    <2> QED BY <1>2, <2>1, <2>2
  <1> QED BY <1>3, <1>4

\* A client whose own state and slot a step leaves alone stays sound, unless the
\* scan takes a step in its slot.
LEMMA AckFrame ==
    ASSUME NEW c \in Clients, AckSound(c),
           UNCHANGED <<place[c], connected[c], call[c], value[c], submitted[c], sent[c],
                       slotOf[c], session>>,
           FieldsKept(slots[slotOf[c]], slots'[slotOf[c]]),
           processed'[slotOf[c]] = processed[slotOf[c]],
           \A v : Taken(v) => Taken(v)',
           Past(slotOf[c])' => UNCHANGED <<scan.slot, scan.step, scan.loaded>>
    PROVE  AckSound(c)'
  BY DEF AckSound, Live, VisitSound, AcksProcessed, SubmissionSound, FieldsKept, Slot, Past, At

\* What the client variables of the other clients are after a step of client c.
OthersAlone(c) == \A d \in Clients \ {c} :
    UNCHANGED <<place[d], connected[d], call[d], value[d], submitted[d], sent[d], slotOf[d]>>

\* A step of a client that writes no slot but its own leaves the others sound.
LEMMA AckOthers ==
    ASSUME IpcInv, Solo, NEW c \in Clients, \A d \in Clients : AckSound(d), OthersAlone(c),
           UNCHANGED <<session, handled, processed, scan>>,
           NEW i, \A j \in Slots : j # i => slots'[j] = slots[j],
           \A d \in Clients \ {c} : Live(d) => slotOf[d] # i,
           AckSound(c)'
    PROVE  \A d \in Clients : AckSound(d)'
  <1> SUFFICES ASSUME NEW d \in Clients, d # c PROVE AckSound(d)'
    OBVIOUS
  <1>1. UNCHANGED <<place[d], connected[d], call[d], value[d], submitted[d], sent[d], slotOf[d]>>
    BY DEF OthersAlone
  <1>2. CASE ~Live(d)
    BY <1>1, <1>2 DEF AckSound, Live
  <1>3. CASE Live(d)
    <2>1. slotOf[d] \in Slots /\ slotOf[d] # i
      BY <1>3, OwnSlot
    <2>2. FieldsKept(slots[slotOf[d]], slots'[slotOf[d]])
      BY <2>1 DEF FieldsKept
    <2> QED BY <1>1, <2>2, AckFrame DEF Taken
  <1> QED BY <1>2, <1>3

\* A step of the server that keeps the fields and takes the scan into no slot past
\* its check keeps all clients sound.
LEMMA AckServer ==
    ASSUME IpcInv, Solo, \A c \in Clients : AckSound(c),
           UNCHANGED client, UNCHANGED <<session, sent, processed>>,
           \A v : Taken(v) => Taken(v)',
           \A c \in Clients : Live(c) => FieldsKept(slots[slotOf[c]], slots'[slotOf[c]]),
           \A c \in Clients : Live(c) /\ Past(slotOf[c])' =>
               UNCHANGED <<scan.slot, scan.step, scan.loaded>>
    PROVE  \A c \in Clients : AckSound(c)'
  <1> SUFFICES ASSUME NEW c \in Clients PROVE AckSound(c)'
    OBVIOUS
  <1>1. UNCHANGED <<place[c], connected[c], call[c], value[c], submitted[c], sent[c], slotOf[c]>>
    BY DEF client, loop, publishing
  <1>2. CASE ~Live(c)
    BY <1>1, <1>2 DEF AckSound, Live
  <1>3. CASE Live(c)
    BY <1>1, <1>3, AckFrame
  <1> QED BY <1>2, <1>3

\* Where the scan stands after it has left a slot.
LEMMA NextSlotPasts == NextSlot => scan'.step = "check" /\ \A i : ~Past(i)'
  BY DEF NextSlot, Idle, Past

\* The server's steps that serve no slot.
LEMMA AckUnserved ==
    ASSUME IpcInv, IpcInv', Solo, \A c \in Clients : AckSound(c), NEW i \in Slots,
           \/ PublishFromServer \/ ServerBeat \/ ServerGoesQuiet
           \/ SkipSlot(i) \/ TimeOut(i) \/ PublishSnapshot(i) \/ PushSnapshot(i)
    PROVE  \A c \in Clients : AckSound(c)'
  <1>0. /\ slots \in [Slots -> SharedClientSlot] /\ scan \in ScanType
        /\ \A j \in Slots : FieldsKept(slots[j], slots[j])
        /\ \A c \in Clients : Live(c) => slotOf[c] \in Slots
    BY OwnSlot DEF IpcInv, SlotsType, ServerType, FieldsKept
  <1>1. CASE PublishFromServer
    <2>1. Update(nextSeq, issued + 1) \in Messages
      <3>1. nextSeq \in Nat /\ issued + 1 \in 0 .. MaxWrites
        BY <1>1, Bounds DEF IpcInv, ServerType, PublishFromServer
      <3> QED BY <3>1, MessageTypes
    <2>2. \A j \in Slots : FieldsKept(slots[j], slots'[j])
      BY <1>0, <1>1, <2>1, PushKeepsFields DEF PublishFromServer
    <2> QED BY <1>0, <1>1, <2>2, AckServer DEF PublishFromServer, server, history, Taken
  <1>2. CASE ServerBeat
    <2>1. \A j : ~Past(j)'
      BY <1>2 DEF ServerBeat, Idle, Past
    <2> QED BY <1>0, <1>2, <2>1, AckServer DEF ServerBeat, core, history, Taken
  <1>3. CASE ServerGoesQuiet
    BY <1>0, <1>3, AckServer DEF ServerGoesQuiet, core, server, history, Taken
  <1>4. CASE SkipSlot(i)
    BY <1>0, <1>4, NextSlotPasts, AckServer DEF SkipSlot, core, shared, history, Taken
  <1>5. CASE TimeOut(i)
    <2>1. /\ place[slots[i].tag] = "dead" /\ slots' = [slots EXCEPT ![i] = FreeSlot]
          /\ UNCHANGED <<session, client, processed, history>> /\ NextSlot
      BY <1>5 DEF TimeOut, ClearSlot
    <2>2. ASSUME NEW c \in Clients, Live(c) PROVE FieldsKept(slots[slotOf[c]], slots'[slotOf[c]])
      <3>1. slotOf[c] \in Slots /\ slotOf[c] # i
        BY <2>1, <2>2, OwnSlot DEF Live
      <3> QED BY <1>0, <2>1, <3>1
    <2> QED BY <1>0, <2>1, <2>2, NextSlotPasts, AckServer DEF history, Taken
  <1>6. CASE PublishSnapshot(i)
    <2>1. \A j : ~Past(j)'
      BY <1>0, <1>6 DEF PublishSnapshot, Past, ScanType
    <2> QED BY <1>0, <1>6, <2>1, AckServer DEF PublishSnapshot, shared, history, Taken
  <1>7. CASE PushSnapshot(i)
    <2>1. \A j : ~Past(j)'
      BY <1>0, <1>7 DEF PushSnapshot, Past, ScanType, At
    <2>2. <<Head(scan.rest)>> \in Seq(Messages)
      <3>1. Head(scan.rest) \in Messages
        BY <1>0, <1>7, HeadTailProperties DEF PushSnapshot, ScanType
      <3> QED BY <3>1, ShortSequences
    <2>3. \A j \in Slots : FieldsKept(slots[j], slots'[j])
      BY <1>0, <1>7, <2>2, PushKeepsFields DEF PushSnapshot
    <2> QED BY <1>0, <1>7, <2>1, <2>3, AckServer DEF PushSnapshot, core, history, Taken
  <1> QED BY <1>1, <1>2, <1>3, <1>4, <1>5, <1>6, <1>7

\* A new session counts what was written as processed and asks for new snapshots;
\* no visit is under way.
LEMMA AckRestart ==
    ASSUME IpcInv, Solo, \A c \in Clients : AckSound(c), RestartSession
    PROVE  \A c \in Clients : AckSound(c)'
  <1> SUFFICES ASSUME NEW c \in Clients, Live(c) PROVE AckSound(c)'
    BY DEF RestartSession, client, AckSound, Live
  <1>1. /\ slotOf[c] \in Slots /\ Slot(c) = slots[slotOf[c]] /\ Slot(c) \in SharedClientSlot
        /\ Slot(c).acked \in Nat /\ Slot(c).written \in Nat
    BY OwnSlot
  <1>2. /\ scan' = scan /\ scan.slot = NoSlot
        /\ UNCHANGED <<place, slotOf, submitted, connected, call, value, sent, handled>>
        /\ Slot(c)' = [Slot(c) EXCEPT !.snap = 0]
        /\ processed'[slotOf[c]] = Slot(c).written
    BY <1>1 DEF RestartSession, Scanning, client, loop, publishing, history, Slot
  <1>3. Slot(c)'.acked = Slot(c).acked /\ Slot(c)'.written = Slot(c).written
        /\ Slot(c)'.mail = Slot(c).mail
    BY <1>1, <1>2 DEF SharedClientSlot
  <1>4. slotOf[c] # NoSlot
    BY <1>1, Bounds DEF Slots, NoSlot
  <1>5. VisitSound(c)'
    BY <1>2, <1>4 DEF VisitSound, Past
  <1>6. AcksProcessed(c)'
    BY <1>1, <1>2, <1>3 DEF AckSound, AcksProcessed
  <1>7. SubmissionSound(c)'
    BY <1>2, <1>3, <1>4 DEF AckSound, SubmissionSound, Taken, At
  <1> QED BY <1>5, <1>6, <1>7 DEF AckSound

\* A step in slot i whose owner is sound afterwards, and that leaves the others' slots
\* alone, keeps all clients sound.
LEMMA AckVisit ==
    ASSUME IpcInv, Solo, \A c \in Clients : AckSound(c), NEW i \in Slots,
           UNCHANGED client, UNCHANGED <<session, sent>>,
           \A v : Taken(v) => Taken(v)',
           \A j \in Slots \ {i} : FieldsKept(slots[j], slots'[j]) /\ processed'[j] = processed[j]
                                  /\ ~Past(j)',
           \A c \in Clients : Live(c) /\ slotOf[c] = i => AckSound(c)'
    PROVE  \A c \in Clients : AckSound(c)'
  <1> SUFFICES ASSUME NEW c \in Clients PROVE AckSound(c)'
    OBVIOUS
  <1>1. UNCHANGED <<place[c], connected[c], call[c], value[c], submitted[c], sent[c], slotOf[c]>>
    BY DEF client, loop, publishing
  <1>2. CASE ~Live(c)
    BY <1>1, <1>2 DEF AckSound, Live
  <1>3. CASE Live(c) /\ slotOf[c] # i
    <2>1. slotOf[c] \in Slots
      BY <1>3, OwnSlot
    <2> QED BY <1>1, <1>3, <2>1, AckFrame
  <1> QED BY <1>2, <1>3

\* A submission stays sound in a step that reads or writes none of it and after which
\* the scan is not about to acknowledge it.
LEMMA SubmissionKept ==
    ASSUME NEW c \in Clients, SubmissionSound(c), ~At(slotOf[c], "ack")', handled' = handled,
           UNCHANGED <<place[c], call[c], value[c], submitted[c], sent[c]>>,
           Slot(c)'.mail = Slot(c).mail, Slot(c)'.acked = Slot(c).acked,
           Slot(c)'.written = Slot(c).written
    PROVE  SubmissionSound(c)'
  <1>1. Taken(sent[c])' <=> Taken(sent[c])
    BY DEF Taken
  <1> QED BY <1>1 DEF SubmissionSound

\* A slot that is found to have its snapshot of the session, or is given it.
LEMMA AckServed ==
    ASSUME IpcInv, Solo, \A c \in Clients : AckSound(c), NEW i \in Slots,
           MarkSnapshotComplete(i) \/ SnapshotAlreadyComplete(i)
    PROVE  \A c \in Clients : AckSound(c)'
  <1>1. /\ scan \in ScanType /\ slots[i] \in SharedClientSlot /\ slots \in [Slots -> SharedClientSlot]
    BY DEF IpcInv, ServerType, SlotsType
  <1>2. /\ scan.slot = i /\ scan'.slot = i /\ scan'.step = "load"
        /\ UNCHANGED <<session, processed, client, sent, handled>>
    BY <1>1 DEF MarkSnapshotComplete, SnapshotAlreadyComplete, At, Goto, core, history, ScanType
  <1>3. /\ slots'[i].snap = session
        /\ \A j \in Slots : j # i => slots'[j] = slots[j]
        /\ slots'[i].acked = slots[i].acked /\ slots'[i].written = slots[i].written
        /\ slots'[i].mail = slots[i].mail
    BY <1>1 DEF MarkSnapshotComplete, SnapshotAlreadyComplete, shared, SharedClientSlot
  <1>4. \A j \in Slots \ {i} : FieldsKept(slots[j], slots'[j]) /\ ~Past(j)'
    BY <1>2, <1>3 DEF FieldsKept, Past
  <1>5. ASSUME NEW c \in Clients, Live(c), slotOf[c] = i PROVE AckSound(c)'
    <2>1. UNCHANGED <<place[c], connected[c], call[c], value[c], submitted[c], sent[c], slotOf[c]>>
      BY <1>2 DEF client, loop, publishing
    <2>2. VisitSound(c)'
      BY <1>2, <1>3, <1>5, <2>1 DEF VisitSound, Slot
    <2>3. AcksProcessed(c)'
      BY <1>2, <1>3, <1>5, <2>1 DEF AckSound, AcksProcessed, Slot
    <2>4. SubmissionSound(c)'
      <3>1. /\ Slot(c)'.mail = Slot(c).mail /\ Slot(c)'.acked = Slot(c).acked
            /\ Slot(c)'.written = Slot(c).written /\ ~At(slotOf[c], "ack")'
        BY <1>2, <1>3, <1>5, <2>1 DEF Slot, At
      <3> QED BY <1>2, <1>5, <2>1, <3>1, SubmissionKept DEF AckSound
    <2> QED BY <2>2, <2>3, <2>4 DEF AckSound
  <1> QED BY <1>2, <1>4, <1>5, AckVisit DEF Taken

\* The load of the sequence number written: there is a write to take, so the owner is
\* the one found, and it has not been acknowledged.
LEMMA AckLoad ==
    ASSUME IpcInv, Solo, \A c \in Clients : AckSound(c), NEW i \in Slots, LoadWriteSequence(i)
    PROVE  \A c \in Clients : AckSound(c)'
  <1>1. /\ scan \in ScanType /\ slots[i] \in SharedClientSlot /\ processed[i] \in Nat
        /\ \A j \in Slots : FieldsKept(slots[j], slots[j])
        /\ \A c \in Clients : Live(c) => slotOf[c] \in Slots
    BY OwnSlot DEF IpcInv, ServerType, SlotsType, FieldsKept
  <1>2. UNCHANGED <<session, processed, client, sent, handled, slots>> /\ At(i, "load")
    BY DEF LoadWriteSequence, core, shared, history
  <1>3. CASE slots[i].written > processed[i]
    <2>1. /\ scan'.slot = i /\ scan'.step = "handle" /\ scan'.loaded = slots[i].written
      BY <1>1, <1>2, <1>3 DEF LoadWriteSequence, ScanType, At
    <2>2. \A j \in Slots \ {i} : FieldsKept(slots[j], slots'[j]) /\ ~Past(j)'
      BY <1>1, <1>2, <2>1 DEF Past
    <2>3. ASSUME NEW c \in Clients, Live(c), slotOf[c] = i PROVE AckSound(c)'
      <3>1. UNCHANGED <<place[c], connected[c], call[c], value[c], submitted[c], sent[c], slotOf[c]>>
        BY <1>2 DEF client, loop, publishing
      <3>2. Slot(c) = slots[i] /\ Slot(c)' = slots[i] /\ Slot(c).acked \in Nat /\ Slot(c).written \in Nat
        BY <1>2, <2>3, <3>1, OwnSlot DEF Slot
      <3>3. Slot(c).acked < Slot(c).written /\ Slot(c).written > 0
        BY <1>1, <1>3, <2>3, <3>2 DEF AckSound, AcksProcessed
      <3>4. VisitSound(c)'
        BY <1>2, <2>1, <2>3, <3>1, <3>2, <3>3 DEF AckSound, VisitSound, Past, At
      <3>5. AcksProcessed(c)'
        BY <1>2, <2>3, <3>1, <3>2 DEF AckSound, AcksProcessed
      <3>6. SubmissionSound(c)'
        <4>1. /\ Slot(c)' = Slot(c) /\ ~At(slotOf[c], "ack")'
          BY <2>1, <3>2 DEF At
        <4> QED BY <1>2, <2>3, <3>1, <4>1, SubmissionKept DEF AckSound
      <3> QED BY <3>4, <3>5, <3>6 DEF AckSound
    <2> QED BY <1>2, <2>2, <2>3, AckVisit DEF Taken
  <1>4. CASE ~(slots[i].written > processed[i])
    <2>1. NextSlot
      BY <1>4 DEF LoadWriteSequence
    <2> QED BY <1>1, <1>2, <2>1, NextSlotPasts, AckServer DEF Taken
  <1> QED BY <1>3, <1>4

\* What handling a client's write does to the history and to the slots' fields.
LEMMA HandleFields ==
    ASSUME IpcInv, NEW i \in Slots, HandleClientWrite(i)
    PROVE  /\ \A j \in Slots : FieldsKept(slots[j], slots'[j])
           /\ handled' = IF slots[i].mail = NoValue THEN handled ELSE Append(handled, slots[i].mail)
           /\ \A v : Taken(v)' <=> Taken(v) \/ (v = slots[i].mail /\ v # NoValue)
  <1> DEFINE who == scan.who
             v == slots[i].mail
             accepted == lease \in {Nobody, who}
             event == IF accepted THEN Update(nextSeq, v) ELSE Refusal(v)
             enqueued == [c \in DOMAIN queues |->
                            IF accepted \/ c = who THEN Append(queues[c], event)
                            ELSE queues[c]]
             drained == IF who \in DOMAIN queues THEN enqueued[who] ELSE <<>>
             answered == PublishEnvelopeToClientSlot(slots, i, drained)
  <1>0. slots \in [Slots -> SharedClientSlot] /\ handled \in Seq(1 .. MaxWrites)
    BY DEF IpcInv, SlotsType, ServerType
  <1>1. v \in 0 .. MaxWrites /\ nextSeq \in Nat
    BY SlotFields DEF IpcInv, SlotsType, ServerType
  <1>2. event \in Messages
    BY <1>1, MessageTypes
  <1>3. /\ handled' = IF v = NoValue THEN handled ELSE Append(handled, v)
        /\ \/ slots' = slots \/ slots' = answered
           \/ slots' = PublishEnvelopeToAllClients(answered, event)
    BY DEF HandleClientWrite
  <1> HIDE DEF event
  <1>4. drained \in Seq(Messages)
    <2>1. \A c \in DOMAIN queues : Append(queues[c], event) \in Seq(Messages)
      BY <1>2, AppendProperties DEF IpcInv, ServerType
    <2>2. <<>> \in Seq(Messages)
      OBVIOUS
    <2> QED BY <2>1, <2>2 DEF IpcInv, ServerType
  <1> HIDE DEF drained, v
  <1>5. OwnersKept(slots, answered)
    BY <1>0, <1>4, PushOne
  <1>6. answered \in [Slots -> SharedClientSlot]
    BY <1>5 DEF OwnersKept
  <1>7. \A j \in Slots : FieldsKept(slots[j], answered[j])
    BY <1>0, <1>4, PushKeepsFields
  <1> HIDE DEF answered
  <1>8. \A j \in Slots : FieldsKept(answered[j], PublishEnvelopeToAllClients(answered, event)[j])
    BY <1>2, <1>6, PushKeepsFields
  <1>9. \A j \in Slots : FieldsKept(slots[j], slots'[j])
    BY <1>3, <1>7, <1>8 DEF FieldsKept
  <1>10. \A u : Taken(u)' <=> Taken(u) \/ (u = v /\ u # NoValue)
    <2>1. CASE v = NoValue
      BY <1>3, <2>1 DEF Taken
    <2>2. CASE v # NoValue
      <3>1. handled' = Append(handled, v)
        BY <1>3, <2>2
      <3>2. /\ DOMAIN handled = 1 .. Len(handled) /\ Len(handled) \in Nat
            /\ DOMAIN handled' = 1 .. Len(handled) + 1
            /\ \A n \in 1 .. Len(handled) : handled'[n] = handled[n]
            /\ handled'[Len(handled) + 1] = v
        BY <1>0, <3>1
      <3> QED BY <2>2, <3>2 DEF Taken
    <2> QED BY <2>1, <2>2
  <1> QED BY <1>3, <1>9, <1>10 DEF v

\* Handling a write takes what its owner submitted, if it is waiting for it.
LEMMA AckHandle ==
    ASSUME IpcInv, Solo, \A c \in Clients : AckSound(c), NEW i \in Slots, HandleClientWrite(i)
    PROVE  \A c \in Clients : AckSound(c)'
  <1>1. /\ UNCHANGED <<session, processed, client, sent>> /\ At(i, "handle")
        /\ scan'.slot = i /\ scan'.step = "ack" /\ scan'.loaded = scan.loaded
    <2>1. scan \in ScanType
      BY DEF IpcInv, ServerType
    <2> QED BY <2>1 DEF HandleClientWrite, At, Goto, ScanType
  <1>2. \A j \in Slots : FieldsKept(slots[j], slots'[j])
    BY HandleFields
  <1>3. \A v : Taken(v) => Taken(v)'
    BY HandleFields
  <1>4. \A v : v = slots[i].mail /\ v # NoValue => Taken(v)'
    BY HandleFields
  <1>5. \A j \in Slots \ {i} : ~Past(j)'
    BY <1>1 DEF Past
  <1>6. ASSUME NEW c \in Clients, Live(c), slotOf[c] = i PROVE AckSound(c)'
    <2>1. UNCHANGED <<place[c], connected[c], call[c], value[c], submitted[c], sent[c], slotOf[c]>>
      BY <1>1 DEF client, loop, publishing
    <2>2. /\ Slot(c) = slots[i] /\ Slot(c)' = slots'[i] /\ FieldsKept(Slot(c), Slot(c)')
          /\ Slot(c).acked \in Nat /\ Slot(c).written \in Nat
      BY <1>2, <1>6, <2>1, OwnSlot DEF Slot
    <2>3. VisitSound(c) /\ AcksProcessed(c) /\ SubmissionSound(c)
      BY <1>6 DEF AckSound
    <2>4. \/ /\ Slot(c).snap = session
             /\ Slot(c).acked < scan.loaded /\ scan.loaded <= Slot(c).written
          \/ /\ Slot(c).snap # session
             /\ Slot(c).written = 0 /\ ~connected[c] /\ call[c] = "idle"
      BY <1>1, <1>6, <2>3 DEF VisitSound, Past, At
    <2>5. VisitSound(c)'
      BY <1>1, <2>1, <2>2, <2>4 DEF VisitSound, FieldsKept
    <2>6. AcksProcessed(c)'
      BY <1>1, <1>6, <2>1, <2>2, <2>3 DEF AcksProcessed, FieldsKept
    <2>7. SubmissionSound(c)'
      <3> SUFFICES ASSUME place[c] = "running"
                   PROVE  /\ call[c] = "submit" => Slot(c)'.mail = value[c]
                          /\ submitted[c] # 0 =>
                               /\ submitted[c] = Slot(c)'.written
                               /\ sent[c] # NoValue
                               /\ \/ Slot(c)'.acked >= Slot(c)'.written /\ Taken(sent[c])'
                                  \/ /\ Slot(c)'.acked < Slot(c)'.written
                                     /\ Slot(c)'.mail = sent[c] /\ call[c] \in {"idle", "wait"}
                               /\ scan.loaded = Slot(c)'.written => Taken(sent[c])'
        BY <1>1, <2>1 DEF SubmissionSound, At, Taken
      <3>1. sent'[c] = sent[c]
        BY <2>1
      <3>2. Taken(sent[c]) => Taken(sent[c])'
        BY <1>3, <3>1
      <3>3. submitted[c] # 0 /\ scan.loaded = Slot(c).written => Taken(sent[c])'
        <4>1. submitted[c] # 0 /\ scan.loaded = Slot(c).written =>
                 sent[c] # NoValue /\ (Taken(sent[c]) \/ Slot(c).mail = sent[c])
          BY <2>3 DEF SubmissionSound
        <4>2. sent[c] = slots[i].mail /\ sent[c] # NoValue => Taken(sent[c])'
          BY <1>4, <3>1
        <4> QED BY <2>2, <3>2, <4>1, <4>2
      <3> QED BY <2>2, <2>3, <3>2, <3>3 DEF SubmissionSound, FieldsKept
    <2> QED BY <2>5, <2>6, <2>7 DEF AckSound
  <1> QED BY <1>1, <1>2, <1>3, <1>5, <1>6, AckVisit

\* The acknowledgement.
LEMMA AckAcknowledge ==
    ASSUME IpcInv, Solo, \A c \in Clients : AckSound(c), NEW i \in Slots, Acknowledge(i)
    PROVE  \A c \in Clients : AckSound(c)'
  <1>1. /\ slots \in [Slots -> SharedClientSlot] /\ processed \in [Slots -> Nat]
        /\ scan.loaded \in Nat
    BY DEF IpcInv, SlotsType, ServerType, ScanType
  <1>2. /\ UNCHANGED <<session, client, sent, handled>> /\ At(i, "ack") /\ NextSlot
        /\ slots' = [slots EXCEPT ![i].acked = scan.loaded]
        /\ processed' = [processed EXCEPT ![i] = scan.loaded]
    BY DEF Acknowledge, core, history
  <1>3. /\ slots'[i].acked = scan.loaded /\ slots'[i].written = slots[i].written
        /\ slots'[i].mail = slots[i].mail /\ slots'[i].snap = slots[i].snap
        /\ processed'[i] = scan.loaded
        /\ \A j \in Slots \ {i} : slots'[j] = slots[j] /\ processed'[j] = processed[j]
    BY <1>1, <1>2 DEF SharedClientSlot
  <1>4. \A j : ~Past(j)'
    BY <1>2, NextSlotPasts
  <1>5. ASSUME NEW c \in Clients, Live(c), slotOf[c] = i PROVE AckSound(c)'
    <2>1. UNCHANGED <<place[c], connected[c], call[c], value[c], submitted[c], sent[c], slotOf[c]>>
      BY <1>2 DEF client, loop, publishing
    <2>2. /\ Slot(c) = slots[i] /\ Slot(c)' = slots'[i]
          /\ Slot(c).acked \in Nat /\ Slot(c).written \in Nat
      BY <1>5, <2>1, OwnSlot DEF Slot
    <2>3. VisitSound(c) /\ AcksProcessed(c) /\ SubmissionSound(c)
      BY <1>5 DEF AckSound
    <2>4. \/ Slot(c).acked < scan.loaded /\ scan.loaded <= Slot(c).written
          \/ Slot(c).written = 0 /\ ~connected[c] /\ call[c] = "idle"
      BY <1>2, <1>5, <2>3 DEF VisitSound, Past, At
    <2>5. VisitSound(c)'
      BY <1>4 DEF VisitSound
    <2>6. AcksProcessed(c)'
      BY <1>3, <1>5, <2>1, <2>2, <2>3 DEF AcksProcessed
    <2>7. SubmissionSound(c)'
      <3> SUFFICES ASSUME place[c] = "running"
                   PROVE  /\ call[c] = "submit" => Slot(c)'.mail = value[c]
                          /\ submitted[c] # 0 =>
                               /\ submitted[c] = Slot(c)'.written
                               /\ sent[c] # NoValue
                               /\ \/ Slot(c)'.acked >= Slot(c)'.written /\ Taken(sent[c])
                                  \/ /\ Slot(c)'.acked < Slot(c)'.written
                                     /\ Slot(c)'.mail = sent[c] /\ call[c] \in {"idle", "wait"}
        BY <1>2, <1>4, <2>1 DEF SubmissionSound, At, Taken, Past
      <3>1. /\ Slot(c)'.acked = scan.loaded /\ Slot(c)'.written = Slot(c).written
            /\ Slot(c)'.mail = Slot(c).mail
        BY <1>3, <2>2
      <3>2. call[c] = "submit" => Slot(c)'.mail = value[c]
        BY <2>3, <3>1 DEF SubmissionSound
      <3>3. ASSUME submitted[c] # 0
            PROVE  /\ submitted[c] = Slot(c)'.written
                   /\ sent[c] # NoValue
                   /\ \/ Slot(c)'.acked >= Slot(c)'.written /\ Taken(sent[c])
                      \/ /\ Slot(c)'.acked < Slot(c)'.written
                         /\ Slot(c)'.mail = sent[c] /\ call[c] \in {"idle", "wait"}
        <4>1. /\ submitted[c] = Slot(c).written /\ sent[c] # NoValue
              /\ \/ Slot(c).acked >= Slot(c).written
                 \/ /\ Slot(c).acked < Slot(c).written
                    /\ Slot(c).mail = sent[c] /\ call[c] \in {"idle", "wait"}
              /\ scan.loaded = Slot(c).written => Taken(sent[c])
          BY <1>2, <1>5, <2>3, <3>3 DEF SubmissionSound
        <4>2. Slot(c).acked < scan.loaded /\ scan.loaded <= Slot(c).written
          BY <2>4, <3>3, <4>1
        <4>3. Slot(c).mail = sent[c] /\ call[c] \in {"idle", "wait"}
          BY <1>1, <2>2, <4>1, <4>2
        <4>4. CASE scan.loaded = Slot(c).written
          BY <1>1, <2>2, <3>1, <4>1, <4>4
        <4>5. CASE scan.loaded < Slot(c).written
          BY <3>1, <4>1, <4>3, <4>5
        <4> QED BY <1>1, <2>2, <4>2, <4>4, <4>5
      <3> QED BY <3>2, <3>3
    <2> QED BY <2>5, <2>6, <2>7 DEF AckSound
  <1>6. \A j \in Slots \ {i} : FieldsKept(slots[j], slots'[j])
    BY <1>3 DEF FieldsKept
  <1> QED BY <1>2, <1>3, <1>4, <1>5, <1>6, AckVisit DEF Taken

\* A claim finds the slot empty of writes, and its owner cannot publish before the
\* scan has visited it.
LEMMA AckClaim ==
    ASSUME IpcInv, CallsRun, Solo, \A d \in Clients : AckSound(d), NEW c \in Clients, Claim(c)
    PROVE  \A d \in Clients : AckSound(d)'
  <1>1. PICK i \in Slots :
          /\ slots[i].tag = Nobody
          /\ slots' = [slots EXCEPT ![i] = [FreeSlot EXCEPT !.tag = c]]
          /\ slotOf' = [slotOf EXCEPT ![c] = i]
    BY DEF Claim
  <1>2. /\ place[c] = "off" /\ place' = [place EXCEPT ![c] = "claimed"]
        /\ UNCHANGED <<session, processed, scan, handled, connected, call, value, submitted, sent>>
    BY DEF Claim, core, server, loop, publishing, history
  <1>3. OthersAlone(c)
    BY <1>1, <1>2 DEF OthersAlone, IpcInv, ClientType
  <1>4. /\ slotOf'[c] = i /\ place'[c] = "claimed" /\ ~connected[c] /\ call[c] = "idle"
        /\ connected'[c] = connected[c] /\ call'[c] = call[c]
        /\ slots'[i].snap = 0 /\ slots'[i].written = 0
        /\ session \in Nat \ {0}
    <2>1. connected[c] = FALSE \/ connected[c] = TRUE
      BY DEF IpcInv, ClientType
    <2>2. session \in Nat \ {0}
      BY Bounds DEF IpcInv, ServerType
    <2> QED BY <1>1, <1>2, <2>1, <2>2 DEF IpcInv, ClientType, CallsRun, SlotsType, FreeSlot
  <1>5. AckSound(c)'
    <2>1. VisitSound(c)'
      BY <1>2, <1>4 DEF VisitSound, Slot
    <2> QED BY <1>4, <2>1 DEF AckSound, AcksProcessed, SubmissionSound, Slot
  <1>6. \A d \in Clients \ {c} : Live(d) => slotOf[d] # i
    BY <1>1, OwnSlot, Bounds
  <1>7. \A j \in Slots : j # i => slots'[j] = slots[j]
    BY <1>1 DEF IpcInv, SlotsType
  <1> QED BY <1>2, <1>3, <1>5, <1>6, <1>7, AckOthers

\* A client that writes its name has submitted nothing.
LEMMA AckAdvertise ==
    ASSUME IpcInv, CallsRun, Solo, \A d \in Clients : AckSound(d), NEW c \in Clients, Advertise(c)
    PROVE  \A d \in Clients : AckSound(d)'
  <1> DEFINE i == slotOf[c]
  <1>1. /\ Live(c) /\ place[c] = "claimed" /\ place' = [place EXCEPT ![c] = "running"]
        /\ slots' = [slots EXCEPT ![i].named = TRUE]
        /\ submitted' = [submitted EXCEPT ![c] = 0] /\ sent' = [sent EXCEPT ![c] = NoValue]
        /\ UNCHANGED <<session, processed, scan, handled, connected, call, value, slotOf>>
    BY DEF Advertise, Live, core, server, publishing
  <1>2. /\ i \in Slots /\ Slot(c) = slots[i]
        /\ \A d \in Clients \ {c} : Live(d) => slotOf[d] # i
    BY <1>1, OwnSlot
  <1>3. OthersAlone(c)
    BY <1>1 DEF OthersAlone, IpcInv, ClientType
  <1>4. /\ FieldsKept(slots[i], slots'[i]) /\ \A j \in Slots : j # i => slots'[j] = slots[j]
    BY <1>1, <1>2 DEF IpcInv, SlotsType, SharedClientSlot, FieldsKept
  <1>5. submitted'[c] = 0 /\ call[c] = "idle"
    BY <1>1 DEF IpcInv, ClientType, CallsRun
  <1>6. AckSound(c)'
    <2>1. VisitSound(c) /\ AcksProcessed(c)
      BY <1>1 DEF AckSound
    <2>2. VisitSound(c)'
      BY <1>1, <1>2, <1>4, <2>1 DEF VisitSound, Slot, FieldsKept, Past
    <2>3. AcksProcessed(c)'
      BY <1>1, <1>2, <1>4, <2>1 DEF AcksProcessed, Slot, FieldsKept
    <2>4. SubmissionSound(c)'
      BY <1>1, <1>5 DEF SubmissionSound
    <2> QED BY <2>2, <2>3, <2>4 DEF AckSound
  <1> HIDE DEF i
  <1> QED BY <1>1, <1>2, <1>3, <1>4, <1>6, AckOthers

\* A client that stops or dies is no live one.
LEMMA AckLeave ==
    ASSUME IpcInv, Solo, \A d \in Clients : AckSound(d), NEW c \in Clients, Stop(c) \/ Crash(c)
    PROVE  \A d \in Clients : AckSound(d)'
  <1>1. Live(c)
    BY DEF Stop, Crash, Live
  <1>2. /\ slotOf[c] \in Slots
        /\ \A d \in Clients \ {c} : Live(d) => slotOf[d] # slotOf[c]
    BY <1>1, OwnSlot
  <1>3. /\ UNCHANGED <<session, processed, scan, handled>>
        /\ OthersAlone(c)
        /\ place'[c] \notin {"claimed", "running"}
    BY DEF Stop, Crash, core, server, publishing, history, OthersAlone, IpcInv, ClientType
  <1>4. \A j \in Slots : j # slotOf[c] => slots'[j] = slots[j]
    BY DEF Stop, Crash, shared, IpcInv, SlotsType
  <1>5. AckSound(c)'
    BY <1>3 DEF AckSound, Live
  <1> QED BY <1>2, <1>3, <1>4, <1>5, AckOthers

\* The turns of a client's worker: what was submitted may be forgotten, and a client
\* reports itself connected only with the snapshot of the session.
LEMMA AckWorker ==
    ASSUME IpcInv, Solo, \A d \in Clients : AckSound(d), NEW c \in Clients,
           LookAtHeartbeat(c) \/ TakeMessage(c) \/ MaybePublishConnected(c)
    PROVE  \A d \in Clients : AckSound(d)'
  <1> DEFINE i == slotOf[c]
  <1>1. Live(c) /\ place[c] = "running"
    BY DEF LookAtHeartbeat, TakeMessage, MaybePublishConnected, Running, Live
  <1>2. /\ i \in Slots /\ Slot(c) = slots[i] /\ Slot(c) \in SharedClientSlot
        /\ \A d \in Clients \ {c} : Live(d) => slotOf[d] # i
    BY <1>1, OwnSlot
  <1>3. UNCHANGED <<session, processed, scan, handled, place, slotOf, call, value, sent>>
    BY DEF LookAtHeartbeat, TakeMessage, MaybePublishConnected, core, server, publishing, history
  <1>4. /\ FieldsKept(slots[i], slots'[i]) /\ \A j \in Slots : j # i => slots'[j] = slots[j]
    <2>1. CASE LookAtHeartbeat(c) \/ MaybePublishConnected(c)
      BY <1>2, <2>1 DEF LookAtHeartbeat, MaybePublishConnected, shared, FieldsKept
    <2>2. CASE TakeMessage(c)
      <3>1. slots' = [slots EXCEPT ![i] = [slots[i] EXCEPT !.inbox = Tail(slots[i].inbox)]]
        BY <2>2 DEF TakeMessage
      <3>2. slots \in [Slots -> SharedClientSlot] /\ slots[i] \in SharedClientSlot
        BY <1>2 DEF IpcInv, SlotsType
      <3>3. FieldsKept(slots[i], [slots[i] EXCEPT !.inbox = Tail(slots[i].inbox)])
        BY <3>2 DEF SharedClientSlot, FieldsKept
      <3> QED BY <1>2, <3>1, <3>2, <3>3
    <2> QED BY <2>1, <2>2
  <1>5. submitted'[c] \in {submitted[c], 0}
    <2>1. submitted' = submitted \/ submitted' = [submitted EXCEPT ![c] = 0]
      <3>1. TakeMessage(c) => UNCHANGED submitted \/ submitted' = [submitted EXCEPT ![c] = 0]
        BY DEF TakeMessage
      <3> QED BY <3>1 DEF LookAtHeartbeat, MaybePublishConnected
    <2>2. submitted \in [Clients -> Nat]
      BY DEF IpcInv, ClientType
    <2> QED BY <2>1, <2>2
  <1>6. Slot(c).snap = session \/ (~connected[c] => ~connected'[c])
    <2>1. CASE LookAtHeartbeat(c) \/ TakeMessage(c)
      <3>1. connected' = connected \/ connected' = [connected EXCEPT ![c] = FALSE]
        BY <2>1 DEF LookAtHeartbeat, TakeMessage
      <3>2. connected \in [Clients -> BOOLEAN]
        BY DEF IpcInv, ClientType
      <3>3. connected' = [connected EXCEPT ![c] = FALSE] => connected'[c] = FALSE
        BY <3>2
      <3> QED BY <3>1, <3>3
    <2>2. CASE MaybePublishConnected(c)
      BY <2>2 DEF MaybePublishConnected
    <2> QED BY <2>1, <2>2
  <1>7. OthersAlone(c)
    <2>1. \/ connected' = connected \/ connected' = [connected EXCEPT ![c] = FALSE]
          \/ connected' = [connected EXCEPT ![c] = TRUE]
      BY DEF LookAtHeartbeat, TakeMessage, MaybePublishConnected
    <2>2. submitted' = submitted \/ submitted' = [submitted EXCEPT ![c] = 0]
      BY DEF LookAtHeartbeat, TakeMessage, MaybePublishConnected
    <2>3. \A d \in Clients \ {c} : connected'[d] = connected[d]
      BY <2>1 DEF IpcInv, ClientType
    <2>4. \A d \in Clients \ {c} : submitted'[d] = submitted[d]
      BY <2>2 DEF IpcInv, ClientType
    <2> QED BY <1>3, <2>3, <2>4 DEF OthersAlone
  <1>8. AckSound(c)'
    <2>1. VisitSound(c) /\ AcksProcessed(c) /\ SubmissionSound(c)
      BY <1>1 DEF AckSound
    <2>2. VisitSound(c)'
      BY <1>2, <1>3, <1>4, <1>6, <2>1 DEF VisitSound, Slot, FieldsKept, Past
    <2>3. AcksProcessed(c)'
      BY <1>2, <1>3, <1>4, <2>1 DEF AcksProcessed, Slot, FieldsKept
    <2>4. SubmissionSound(c)'
      BY <1>2, <1>3, <1>4, <1>5, <2>1 DEF SubmissionSound, Slot, FieldsKept, At, Taken
    <2> QED BY <2>2, <2>3, <2>4 DEF AckSound
  <1> HIDE DEF i
  <1> QED BY <1>2, <1>3, <1>4, <1>7, <1>8, AckOthers

\* The calls of Publish: a call under way is of a client that a visit serves.
LEMMA AckPublish ==
    ASSUME IpcInv, CallsRun, Solo, \A d \in Clients : AckSound(d), NEW c \in Clients,
           PublishCall(c) \/ WaitAcked(c) \/ GiveUp(c) \/ WriteMail(c) \/ Submit(c)
    PROVE  \A d \in Clients : AckSound(d)'
  <1> DEFINE i == slotOf[c]
  <1>1. Live(c) /\ place[c] = "running" /\ VisitSound(c) /\ AcksProcessed(c) /\ SubmissionSound(c)
    BY DEF PublishCall, WaitAcked, GiveUp, WriteMail, Submit, Running, Live, AckSound
  <1>2. /\ i \in Slots /\ Slot(c) = slots[i] /\ Slot(c) \in SharedClientSlot
        /\ Slot(c).acked \in Nat /\ Slot(c).written \in Nat
        /\ \A d \in Clients \ {c} : Live(d) => slotOf[d] # i
    BY <1>1, OwnSlot
  <1>3. UNCHANGED <<session, processed, scan, handled, place, slotOf, connected>>
    BY DEF PublishCall, WaitAcked, GiveUp, WriteMail, Submit, core, server, loop, history
  <1>4. /\ \A j \in Slots : j # i => slots'[j] = slots[j]
        /\ slots'[i].acked = slots[i].acked /\ slots'[i].snap = slots[i].snap
    <2>0. slots \in [Slots -> SharedClientSlot]
      BY DEF IpcInv, SlotsType
    <2>1. CASE PublishCall(c) \/ WaitAcked(c) \/ GiveUp(c)
      BY <2>1 DEF PublishCall, WaitAcked, GiveUp, shared
    <2>2. CASE WriteMail(c)
      BY <1>2, <2>0, <2>2 DEF WriteMail, SharedClientSlot
    <2>3. CASE Submit(c)
      BY <1>2, <2>0, <2>3 DEF Submit, SharedClientSlot
    <2> QED BY <2>1, <2>2, <2>3
  <1>5. OthersAlone(c)
    BY <1>3 DEF PublishCall, WaitAcked, GiveUp, WriteMail, Submit, loop, history, OthersAlone,
                IpcInv, ClientType
  <1>6. Past(i) => \/ /\ Slot(c).snap = session
                      /\ scan.step \in {"handle", "ack"} =>
                           Slot(c).acked < scan.loaded /\ scan.loaded <= Slot(c).written
                   \/ /\ Slot(c).snap # session
                      /\ Slot(c).written = 0 /\ ~connected[c] /\ call[c] = "idle"
    BY <1>1 DEF VisitSound
  <1>7. call[c] # "idle" \/ connected[c]
    BY DEF PublishCall, WaitAcked, GiveUp, WriteMail, Submit
  <1>8. Slot(c)' = slots'[i]
    BY <1>3 DEF Slot
  <1>9. CASE ~Submit(c)
    <2>1. slots'[i].written = slots[i].written
      BY <1>2, <1>9 DEF PublishCall, WaitAcked, GiveUp, WriteMail, shared, IpcInv, SlotsType,
                        SharedClientSlot
    <2>2. VisitSound(c)'
      BY <1>2, <1>3, <1>4, <1>6, <1>7, <1>8, <2>1 DEF VisitSound, Past
    <2>3. AcksProcessed(c)'
      BY <1>1, <1>2, <1>3, <1>4, <1>8, <2>1 DEF AcksProcessed
    <2>4. submitted' = submitted /\ sent' = sent
      BY <1>9 DEF PublishCall, WaitAcked, GiveUp, WriteMail, loop, history
    <2>5. \/ /\ call[c] = "idle" /\ call'[c] = IF submitted[c] # 0 THEN "wait" ELSE "write"
             /\ slots' = slots
          \/ /\ call'[c] = "write" /\ Slot(c).acked >= submitted[c] /\ slots' = slots
          \/ call'[c] = "idle" /\ slots' = slots
          \/ /\ call[c] = "write" /\ call'[c] = "submit" /\ value' = value
             /\ slots' = [slots EXCEPT ![i].mail = value[c]]
      BY <1>9 DEF PublishCall, WaitAcked, GiveUp, WriteMail, shared, IpcInv, ClientType
    <2>6. SubmissionSound(c)'
      <3>1. call'[c] = "submit" => slots'[i].mail = value'[c]
        BY <1>2, <2>5 DEF IpcInv, SlotsType, SharedClientSlot
      <3>2. ASSUME submitted[c] # 0
            PROVE  \/ slots[i].acked >= slots[i].written /\ Taken(sent[c])
                   \/ /\ slots[i].acked < slots[i].written
                      /\ slots'[i].mail = sent[c] /\ call'[c] \in {"idle", "wait"}
        <4>1. /\ submitted[c] = slots[i].written
              /\ \/ slots[i].acked >= slots[i].written /\ Taken(sent[c])
                 \/ /\ slots[i].acked < slots[i].written
                    /\ slots[i].mail = sent[c] /\ call[c] \in {"idle", "wait"}
          BY <1>1, <1>2, <3>2 DEF SubmissionSound
        <4> QED BY <1>2, <2>5, <3>2, <4>1
      <3> HIDE DEF i
      <3>3. At(i, "ack") /\ scan.loaded = slots[i].written /\ submitted[c] # 0 => Taken(sent[c])
        BY <1>1, <1>2 DEF SubmissionSound, i
      <3>4. submitted[c] # 0 => submitted[c] = slots[i].written /\ sent[c] # NoValue
        BY <1>1, <1>2 DEF SubmissionSound
      <3>5. slotOf'[c] = i /\ (Taken(sent[c])' <=> Taken(sent[c]))
            /\ submitted'[c] = submitted[c] /\ sent'[c] = sent[c] /\ scan' = scan
        BY <1>3, <2>4 DEF Taken, i
      <3> QED BY <1>4, <1>8, <2>1, <3>1, <3>2, <3>3, <3>4, <3>5 DEF SubmissionSound, At
    <2>7. AckSound(c)'
      BY <2>2, <2>3, <2>6 DEF AckSound
    <2> HIDE DEF i
    <2> QED BY <1>2, <1>3, <1>4, <1>5, <2>7, AckOthers
  <1>10. CASE Submit(c)
    <2> DEFINE n == (IF Slot(c).written > Slot(c).acked THEN Slot(c).written
                     ELSE Slot(c).acked) + 1
    <2>1. /\ slots' = [slots EXCEPT ![i].written = n]
          /\ submitted' = [submitted EXCEPT ![c] = n]
          /\ sent' = [sent EXCEPT ![c] = value[c]] /\ call' = [call EXCEPT ![c] = "idle"]
          /\ call[c] = "submit"
      BY <1>10 DEF Submit
    <2>2. n \in Nat /\ n > Slot(c).written /\ n > Slot(c).acked
      BY <1>2
    <2> HIDE DEF n
    <2>3. /\ slots'[i].written = n /\ slots'[i].mail = slots[i].mail
          /\ submitted'[c] = n /\ sent'[c] = value[c] /\ call'[c] = "idle"
      BY <1>2, <2>1 DEF IpcInv, ClientType, SlotsType, SharedClientSlot
    <2>4. slots[i].mail = value[c] /\ value[c] # NoValue
      BY <1>1, <1>2, <2>1 DEF SubmissionSound, CallsRun
    <2>5. Past(i) => /\ Slot(c).snap = session
                     /\ scan.step \in {"handle", "ack"} =>
                          Slot(c).acked < scan.loaded /\ scan.loaded <= Slot(c).written
      BY <1>6, <2>1
    <2>6. scan.loaded \in Nat
      BY DEF IpcInv, ServerType, ScanType
    <2>7. VisitSound(c)'
      <3>1. scan.step \in {"handle", "ack"} /\ Past(i) => scan.loaded <= n
        BY <1>2, <2>2, <2>5, <2>6
      <3> HIDE DEF i
      <3>2. slotOf'[c] = i /\ scan' = scan /\ session' = session
        BY <1>3 DEF i
      <3> QED BY <1>2, <1>4, <1>8, <2>3, <2>5, <3>1, <3>2 DEF VisitSound, Past
    <2>8. AcksProcessed(c)'
      BY <1>1, <1>2, <1>3, <1>4, <1>8, <2>2, <2>3 DEF AcksProcessed
    <2>9. SubmissionSound(c)'
      <3>1. At(i, "ack") => scan.loaded # n
        BY <1>2, <2>2, <2>5, <2>6 DEF At, Past
      <3>2. n # 0 /\ slots'[i].acked < n
        BY <1>2, <1>4, <2>2
      <3> HIDE DEF i
      <3>3. slotOf'[c] = i /\ scan' = scan
        BY <1>3 DEF i
      <3> QED BY <1>8, <2>3, <2>4, <3>1, <3>2, <3>3 DEF SubmissionSound, At
    <2>10. AckSound(c)'
      BY <2>7, <2>8, <2>9 DEF AckSound
    <2> HIDE DEF i
    <2> QED BY <1>2, <1>3, <1>4, <1>5, <2>10, AckOthers
  <1> QED BY <1>9, <1>10

\* A call ends before its client does, and its value is the number of a write.
LEMMA CallsInductive == IpcInv /\ CallsRun /\ [Next]_vars => CallsRun'
  <1> SUFFICES ASSUME IpcInv, CallsRun, [Next]_vars PROVE CallsRun'
    OBVIOUS
  <1> USE DEF NoValue
  <1>0. /\ place \in [Clients -> {"off", "claimed", "running", "dead"}]
        /\ connected \in [Clients -> BOOLEAN]
        /\ call \in [Clients -> {"idle", "wait", "write", "submit"}]
        /\ value \in [Clients -> 0 .. MaxWrites] /\ issued \in 0 .. MaxWrites
    BY DEF IpcInv, ClientType, ServerType
  <1>1. ASSUME UNCHANGED <<place, connected, call, value>> PROVE CallsRun'
    BY <1>1 DEF CallsRun
  <1>2. CASE ServerStep \/ PublishFromServer \/ RestartSession \/ ServerGoesQuiet \/ ServerStart
             \/ UNCHANGED vars
    <2>1. UNCHANGED client
      BY <1>2 DEF ServerStep, ServerBeat, ScanClients, SkipSlot, ClearSlot, TimeOut, TimeOutPaused,
            PublishSnapshot, PushSnapshot, MarkSnapshotComplete, SnapshotAlreadyComplete,
            LoadWriteSequence, HandleClientWrite, Acknowledge, PublishFromServer, RestartSession,
            ServerGoesQuiet, ServerStart, vars
    <2> QED BY <1>1, <2>1 DEF client, loop, publishing
  <1>3. ASSUME NEW c \in Clients, Claim(c) \/ Advertise(c) \/ Stop(c) \/ Crash(c)
        PROVE  CallsRun'
    <2>1. CASE Claim(c)
      BY <1>0, <2>1 DEF CallsRun, Claim, loop, publishing
    <2>2. CASE Advertise(c)
      BY <1>0, <2>2 DEF CallsRun, Advertise, publishing
    <2>3. CASE Stop(c)
      BY <1>0, <2>3 DEF CallsRun, Stop, publishing
    <2>4. CASE Crash(c)
      BY <1>0, <2>4 DEF CallsRun, Crash
    <2> QED BY <1>3, <2>1, <2>2, <2>3, <2>4
  <1>4. ASSUME NEW c \in Clients, LookAtHeartbeat(c) \/ TakeMessage(c) \/ MaybePublishConnected(c)
        PROVE  CallsRun'
    <2>1. /\ UNCHANGED <<place, call, value>> /\ place[c] = "running"
          /\ \/ UNCHANGED connected
             \/ connected' = [connected EXCEPT ![c] = FALSE]
             \/ connected' = [connected EXCEPT ![c] = TRUE]
      BY <1>4 DEF LookAtHeartbeat, TakeMessage, MaybePublishConnected, Running, publishing
    <2>2. \A d \in Clients : connected'[d] => connected[d] \/ d = c
      BY <1>0, <2>1
    <2> QED BY <2>1, <2>2 DEF CallsRun
  <1>5. ASSUME NEW c \in Clients, PublishCall(c) \/ PublishStep(c) \/ GiveUp(c)
        PROVE  CallsRun'
    <2>1. UNCHANGED <<place, connected>> /\ place[c] = "running"
      BY <1>5 DEF PublishCall, PublishStep, WaitAcked, WriteMail, Submit, GiveUp, Running, loop
    <2>2. \A d \in Clients : d # c => UNCHANGED <<call[d], value[d]>>
      BY <1>0, <1>5 DEF PublishCall, PublishStep, WaitAcked, WriteMail, Submit, GiveUp
    <2>3. call'[c] # "idle" => value'[c] # NoValue
      BY <1>0, <1>5 DEF PublishCall, PublishStep, WaitAcked, WriteMail, Submit, GiveUp, CallsRun
    <2> QED BY <2>1, <2>2, <2>3 DEF CallsRun
  <1> QED BY <1>2, <1>3, <1>4, <1>5 DEF Next

\* Only four steps touch the counters of the server's troubles, and each says so.
LEMMA Troubles ==
    ASSUME [Next]_vars
    PROVE  \/ UNCHANGED <<boots, pauses, quiet, session>>
           \/ RestartSession /\ UNCHANGED <<boots, pauses, quiet>>
           \/ ServerGoesQuiet /\ quiet' = quiet + 1 /\ UNCHANGED <<boots, pauses, session>>
           \/ ServerStart /\ boots' = boots + 1 /\ UNCHANGED <<pauses, quiet>>
           \/ /\ \E i \in Slots : TimeOutPaused(i)
              /\ pauses' = pauses + 1 /\ UNCHANGED <<boots, quiet, session>>
  <1> DEFINE Calmly == UNCHANGED <<boots, pauses, quiet, session>>
  <1>1. UNCHANGED vars => Calmly
    BY DEF vars, bounds, core
  <1>2. ServerBeat \/ PublishFromServer => Calmly
    BY DEF ServerBeat, PublishFromServer, bounds, core
  <1>3. RestartSession => UNCHANGED <<boots, pauses, quiet>>
    BY DEF RestartSession, bounds
  <1>4. ServerGoesQuiet => quiet' = quiet + 1 /\ UNCHANGED <<boots, pauses, session>>
    BY DEF ServerGoesQuiet, core
  <1>5. ServerStart => boots' = boots + 1 /\ UNCHANGED <<pauses, quiet>>
    BY DEF ServerStart
  <1>6. ASSUME NEW i \in Slots
        PROVE  /\ SkipSlot(i) \/ PublishSnapshot(i) \/ PushSnapshot(i) => Calmly
               /\ MarkSnapshotComplete(i) \/ SnapshotAlreadyComplete(i) => Calmly
               /\ LoadWriteSequence(i) \/ HandleClientWrite(i) \/ Acknowledge(i) => Calmly
               /\ TimeOut(i) => Calmly
               /\ TimeOutPaused(i) => pauses' = pauses + 1 /\ UNCHANGED <<boots, quiet, session>>
    <2>1. SkipSlot(i) \/ PublishSnapshot(i) \/ PushSnapshot(i) => Calmly
      BY DEF SkipSlot, PublishSnapshot, PushSnapshot, bounds, core
    <2>2. MarkSnapshotComplete(i) \/ SnapshotAlreadyComplete(i) => Calmly
      BY DEF MarkSnapshotComplete, SnapshotAlreadyComplete, bounds, core
    <2>3. LoadWriteSequence(i) => Calmly
      BY DEF LoadWriteSequence, bounds, core
    <2>4. HandleClientWrite(i) \/ Acknowledge(i) => Calmly
      BY DEF HandleClientWrite, Acknowledge, bounds, core
    <2>5. ClearSlot(i) => UNCHANGED <<boots, quiet, session>>
      BY DEF ClearSlot
    <2>6. TimeOut(i) => ClearSlot(i) /\ UNCHANGED pauses
      BY DEF TimeOut
    <2>7. TimeOutPaused(i) => ClearSlot(i) /\ pauses' = pauses + 1
      BY DEF TimeOutPaused
    <2> QED BY <2>1, <2>2, <2>3, <2>4, <2>5, <2>6, <2>7
  <1>7. ASSUME NEW c \in Clients
        PROVE  /\ Claim(c) \/ Advertise(c) \/ Stop(c) \/ Crash(c) => Calmly
               /\ LookAtHeartbeat(c) \/ TakeMessage(c) \/ MaybePublishConnected(c) => Calmly
               /\ PublishCall(c) \/ PublishStep(c) \/ GiveUp(c) => Calmly
    <2>1. Claim(c) \/ Advertise(c) => Calmly
      BY DEF Claim, Advertise, bounds, core
    <2>2. Stop(c) \/ Crash(c) => Calmly
      BY DEF Stop, Crash, bounds, core
    <2>3. LookAtHeartbeat(c) \/ MaybePublishConnected(c) => Calmly
      BY DEF LookAtHeartbeat, MaybePublishConnected, bounds, core
    <2>4. TakeMessage(c) => Calmly
      BY DEF TakeMessage, bounds, core
    <2>5. PublishCall(c) \/ GiveUp(c) => Calmly
      BY DEF PublishCall, GiveUp, bounds, core
    <2>6. PublishStep(c) => Calmly
      BY DEF PublishStep, WaitAcked, WriteMail, Submit, bounds, core
    <2> QED BY <2>1, <2>2, <2>3, <2>4, <2>5, <2>6
  <1> HIDE DEF Calmly
  <1>8. \/ Calmly \/ RestartSession \/ ServerGoesQuiet \/ ServerStart
        \/ \E i \in Slots : TimeOutPaused(i)
    BY <1>1, <1>2, <1>6, <1>7 DEF Next, ServerStep, ScanClients
  <1> QED BY <1>3, <1>4, <1>5, <1>6, <1>8 DEF Calmly

\* Server processes and pauses only become more.
LEMMA SoloBefore == IpcInv /\ [Next]_vars /\ Solo' => Solo /\ UNCHANGED <<boots, pauses>>
  <1> SUFFICES ASSUME IpcInv, [Next]_vars, boots' = 1, pauses' = 0
               PROVE  boots = 1 /\ pauses = 0
    BY DEF Solo
  <1>1. boots \in Nat \ {0} /\ pauses \in Nat
    BY DEF IpcInv, ServerType
  <1>2. boots' \in {boots, boots + 1} /\ pauses' \in {pauses, pauses + 1}
    BY Troubles
  <1> QED BY <1>1, <1>2

\* No time-out of a living client and no new server process is among the steps
\* that keep the server alone.
LEMMA SoloSteps ==
    ASSUME IpcInv, [Next]_vars, Solo'
    PROVE  ~ServerStart /\ \A i \in Slots : ~TimeOutPaused(i)
  <1>1. boots \in Nat \ {0} /\ pauses \in Nat /\ boots' = boots /\ pauses' = pauses
    BY SoloBefore DEF IpcInv, ServerType
  <1> QED BY <1>1 DEF ServerStart, TimeOutPaused

\* Acknowledgements stay sound.
LEMMA AckInductive == IpcInv /\ IpcInv' /\ AckInv /\ [Next]_vars => AckInv'
  <1> SUFFICES ASSUME IpcInv, IpcInv', AckInv, [Next]_vars, Solo'
               PROVE  \A c \in Clients : AckSound(c)'
    BY CallsInductive DEF AckInv
  <1>1. /\ Solo /\ CallsRun /\ \A c \in Clients : AckSound(c)
        /\ ~ServerStart /\ \A i \in Slots : ~TimeOutPaused(i)
    BY SoloBefore, SoloSteps DEF AckInv
  <1>2. 1 \in Slots
    BY Bounds DEF Slots
  <1>3. CASE ServerStep
    <2>1. CASE ServerBeat
      BY <1>1, <1>2, <2>1, AckUnserved
    <2>2. ASSUME NEW i \in Slots,
                 SkipSlot(i) \/ TimeOut(i) \/ PublishSnapshot(i) \/ PushSnapshot(i)
          PROVE  \A c \in Clients : AckSound(c)'
      BY <1>1, <2>2, AckUnserved
    <2>3. ASSUME NEW i \in Slots,
                 \/ MarkSnapshotComplete(i) \/ SnapshotAlreadyComplete(i)
                 \/ LoadWriteSequence(i) \/ HandleClientWrite(i) \/ Acknowledge(i)
          PROVE  \A c \in Clients : AckSound(c)'
      BY <1>1, <2>3, AckServed, AckLoad, AckHandle, AckAcknowledge
    <2> QED BY <1>1, <1>3, <2>1, <2>2, <2>3 DEF ServerStep, ScanClients
  <1>4. CASE PublishFromServer \/ RestartSession \/ ServerGoesQuiet
    BY <1>1, <1>2, <1>4, AckUnserved, AckRestart
  <1>5. ASSUME NEW c \in Clients, Claim(c) \/ Advertise(c) \/ Stop(c) \/ Crash(c)
        PROVE  \A d \in Clients : AckSound(d)'
    BY <1>1, <1>5, AckClaim, AckAdvertise, AckLeave
  <1>6. ASSUME NEW c \in Clients,
               \/ LookAtHeartbeat(c) \/ TakeMessage(c) \/ MaybePublishConnected(c)
               \/ PublishCall(c) \/ PublishStep(c) \/ GiveUp(c)
        PROVE  \A d \in Clients : AckSound(d)'
    BY <1>1, <1>6, AckWorker, AckPublish DEF PublishStep
  <1>7. CASE UNCHANGED vars
    <2> SUFFICES ASSUME NEW c \in Clients PROVE AckSound(c)'
      OBVIOUS
    <2>1. AckSound(c)
      BY <1>1
    <2> QED BY <1>7, <2>1 DEF vars, core, server, shared, client, loop, publishing, history,
                 AckSound, Live, VisitSound, AcksProcessed, SubmissionSound, Slot, Past, At, Taken
  <1> QED BY <1>1, <1>3, <1>4, <1>5, <1>6, <1>7 DEF Next

\* Nothing is submitted at the start.
LEMMA AckInit == Init => AckInv
  BY DEF Init, AckInv, CallsRun, AckSound, Live

\* A Publish call that waited goes on only when the server has handled the write
\* before it, whatever numbers earlier owners left in the slot.
THEOREM AcknowledgedIsHandled == Spec => AckMeansHandled
  <1> DEFINE Goes(c) == boots = 1 /\ pauses = 0 /\ call[c] = "wait" /\ call'[c] = "write"
                        /\ submitted[c] # 0
  <1>1. ASSUME IpcInv, AckInv, [Next]_vars, NEW c \in Clients, Goes(c)
        PROVE  Taken(sent[c])
    <2>1. Solo /\ place[c] = "running" /\ AckSound(c)
      BY <1>1 DEF AckInv, Solo, CallsRun
    <2>2. Live(c) /\ SubmissionSound(c)
      BY <2>1 DEF AckSound, Live
    <2>3. WaitAcked(c)
      <3>1. /\ call \in [Clients -> {"idle", "wait", "write", "submit"}]
            /\ call'[c] = "write" /\ call[c] = "wait"
        BY <1>1 DEF IpcInv, ClientType
      <3>2. UNCHANGED call \/ \E d \in Clients : \/ Crash(d) \/ PublishCall(d) \/ WaitAcked(d)
                                                 \/ WriteMail(d) \/ Submit(d) \/ GiveUp(d)
        BY <1>1 DEF Next, ServerStep, ServerBeat, ScanClients, SkipSlot, ClearSlot, TimeOut,
             TimeOutPaused, PublishSnapshot, PushSnapshot, MarkSnapshotComplete,
             SnapshotAlreadyComplete, LoadWriteSequence, HandleClientWrite, Acknowledge,
             PublishFromServer, RestartSession, ServerGoesQuiet, ServerStart, Claim, Advertise,
             Stop, LookAtHeartbeat, TakeMessage, MaybePublishConnected, PublishStep, vars, client,
             publishing
      <3>3. PICK d \in Clients : \/ Crash(d) \/ PublishCall(d) \/ WaitAcked(d)
                                 \/ WriteMail(d) \/ Submit(d) \/ GiveUp(d)
        BY <3>1, <3>2
      <3>4. d = c
        BY <3>1, <3>3 DEF Crash, PublishCall, WaitAcked, WriteMail, Submit, GiveUp
      <3> QED BY <3>1, <3>3, <3>4 DEF Crash, PublishCall, WriteMail, Submit, GiveUp
    <2>4. Slot(c).acked \in Nat /\ Slot(c).written \in Nat
      BY <1>1, <2>1, <2>2, OwnSlot
    <2> QED BY <1>1, <2>1, <2>2, <2>3, <2>4 DEF SubmissionSound, WaitAcked
  <1>2. IpcInv /\ AckInv /\ [Next]_vars =>
          [\A c \in Clients : Goes(c) => \E n \in DOMAIN handled : handled[n] = sent[c]]_vars
    BY <1>1 DEF Taken
  <1>3. IpcInv /\ IpcInv' /\ AckInv /\ [Next]_vars => AckInv'
    BY AckInductive
  <1> QED BY <1>2, <1>3, IpcInit, IpcInductive, AckInit, PTL DEF Spec, AckMeansHandled

-----------------------------------------------------------------------------
(* No write is taken twice.  A slot's mail is taken by the visit that finds the    *)
(* slot's sequence number ahead of what was processed; its owner overwrites it only *)
(* when the number it submitted is acknowledged.  That number is forgotten when the  *)
(* worker takes the begin of a snapshot, so none may reach a slot with a write in    *)
(* it: the order of the markers in the slots, the scan and the clients is needed.    *)

Calm == boots = 1 /\ pauses = 0 /\ quiet = 0 /\ session = 1

Begins(q) == \E j \in DOMAIN q : q[j].kind = "snapshot begin"
Lives(q) == \E j \in DOMAIN q : q[j].kind = "live begin"
Ordered(q) == \A j, k \in DOMAIN q :
    j < k => ~(q[j].kind = "live begin" /\ q[k].kind = "snapshot begin")
Plain(q) == \A j \in DOMAIN q : q[j].kind \in {"update", "reject"}

\* The begin of the snapshot that the slot gets is behind the scan.
Served(i) == slots[i].snap = 1 \/ (At(i, "push") /\ ~Begins(scan.rest))

\* What the server holds back and what is left of a snapshot.
ServerOrder ==
    /\ serverFresh
    /\ \A c \in DOMAIN queues : Plain(queues[c])
    /\ \A j \in DOMAIN scan.rest : scan.rest[j].kind = "snapshot begin" => j = 1

SlotOrder(i) ==
    /\ At(i, "push") => slots[i].snap # 1
    /\ Ordered(slots[i].inbox)
    /\ Lives(slots[i].inbox) => Served(i)
    /\ slots[i].written > 0 \/ slots[i].mail # NoValue
         => slots[i].snap = 1 /\ ~Begins(slots[i].inbox)
    /\ (At(i, "handle") \/ At(i, "ack")) /\ slots[i].snap = 1 => scan.loaded = slots[i].written

ClientOrder(c) == place[c] = "running" =>
    /\ connected[c] \/ call[c] # "idle" => Slot(c).snap = 1 /\ ~Begins(Slot(c).inbox)
    /\ phase[c] = "live" => Served(slotOf[c]) /\ ~Begins(Slot(c).inbox)
    /\ submitted[c] = Slot(c).written
    /\ call[c] \in {"write", "submit"} => Slot(c).acked >= Slot(c).written

OrderInv == ServerOrder /\ (\A i \in Slots : SlotOrder(i)) /\ \A c \in Clients : ClientOrder(c)

\* The slot's mail waits to be taken.
Pending(i) == At(i, "handle") \/ (~At(i, "ack") /\ slots[i].written > processed[i])

\* Values are numbers of writes, each of one call, in one slot at most.
Numbered ==
    /\ \A i \in Slots : slots[i].mail <= issued
    /\ \A v : Taken(v) => v <= issued
    /\ \A c \in Clients : value[c] <= issued

MailFresh ==
    /\ \A i \in Slots : Pending(i) /\ slots[i].mail # NoValue => ~Taken(slots[i].mail)
    /\ \A i, j \in Slots : i # j /\ slots[i].mail # NoValue => slots[i].mail # slots[j].mail

CallFresh(c) == call[c] # "idle" =>
    /\ ~Taken(value[c])
    /\ \A i \in Slots : slots[i].mail = value[c] => call[c] = "submit" /\ i = slotOf[c]
    /\ \A d \in Clients : d # c /\ call[d] # "idle" => value[d] # value[c]

FreshInv == Numbered /\ MailFresh /\ \A c \in Clients : CallFresh(c)

OnceInv == quiet \in Nat /\ (Calm => OrderInv /\ FreshInv /\ HandledOnce)

\* What comes before another number in a range is not its last.
LEMMA BeforeLast == \A n \in Nat : \A a, b \in 1 .. n + 1 : a < b => a \in 1 .. n
  <1> SUFFICES ASSUME NEW n \in Nat, NEW a \in 1 .. n + 1, NEW b \in 1 .. n + 1, a < b
               PROVE  a \in 1 .. n
    OBVIOUS
  <1> QED OBVIOUS

\* What a message more does to the order of the markers.
LEMMA MarkersAppended ==
    ASSUME NEW q \in Seq(Messages), NEW m \in Messages
    PROVE  /\ Begins(Append(q, m)) <=> Begins(q) \/ m.kind = "snapshot begin"
           /\ Lives(Append(q, m)) <=> Lives(q) \/ m.kind = "live begin"
           /\ Ordered(q) /\ ~(Lives(q) /\ m.kind = "snapshot begin") => Ordered(Append(q, m))
           /\ Plain(q) /\ m.kind \in {"update", "reject"} => Plain(Append(q, m))
  <1> DEFINE t == Append(q, m)
  <1>1. /\ DOMAIN q = 1 .. Len(q) /\ DOMAIN t = 1 .. Len(q) + 1 /\ Len(q) \in Nat
        /\ \A j \in 1 .. Len(q) : t[j] = q[j]
        /\ t[Len(q) + 1] = m /\ Len(q) + 1 \in DOMAIN t
    BY AppendProperties, LenProperties
  <1> HIDE DEF t
  <1>2. \A j \in DOMAIN t : (j \in DOMAIN q /\ t[j] = q[j]) \/ (j = Len(q) + 1 /\ t[j] = m)
    BY <1>1
  <1>3. \A j \in DOMAIN q : j \in DOMAIN t /\ t[j] = q[j] /\ j < Len(q) + 1
    BY <1>1
  <1>4. Begins(t) <=> Begins(q) \/ m.kind = "snapshot begin"
    BY <1>1, <1>2, <1>3 DEF Begins
  <1>5. Lives(t) <=> Lives(q) \/ m.kind = "live begin"
    BY <1>1, <1>2, <1>3 DEF Lives
  <1>6. Ordered(q) /\ ~(Lives(q) /\ m.kind = "snapshot begin") => Ordered(t)
    <2> SUFFICES ASSUME Ordered(q), ~(Lives(q) /\ m.kind = "snapshot begin"),
                        NEW j \in DOMAIN t, NEW k \in DOMAIN t, j < k,
                        t[j].kind = "live begin", t[k].kind = "snapshot begin"
                 PROVE  FALSE
      BY DEF Ordered
    <2>1. j \in DOMAIN q /\ t[j] = q[j]
      <3>1. j \in 1 .. Len(q) + 1 /\ k \in 1 .. Len(q) + 1 /\ j < k
        BY <1>1
      <3>2. Len(q) \in Nat
        BY <1>1
      <3>4. j \in 1 .. Len(q)
        BY <3>1, <3>2, BeforeLast, Zenon
      <3> QED BY <1>1, <3>4
    <2>2. CASE k \in DOMAIN q /\ t[k] = q[k]
      BY <2>1, <2>2 DEF Ordered
    <2>3. CASE t[k] = m
      BY <2>1, <2>3 DEF Lives
    <2> QED BY <1>2, <2>2, <2>3
  <1>7. Plain(q) /\ m.kind \in {"update", "reject"} => Plain(t)
    BY <1>2 DEF Plain
  <1> QED BY <1>4, <1>5, <1>6, <1>7 DEF t

\* Messages that are no markers leave it as it is.
LEMMA MarkersKept ==
    ASSUME NEW q \in Seq(Messages), NEW r \in Seq(Messages), Plain(r)
    PROVE  /\ Begins(q \o r) => Begins(q)
           /\ Lives(q \o r) => Lives(q)
           /\ Ordered(q) => Ordered(q \o r)
  <1> DEFINE t == q \o r
  <1>1. /\ DOMAIN q = 1 .. Len(q) /\ DOMAIN r = 1 .. Len(r) /\ DOMAIN t = 1 .. Len(q) + Len(r)
        /\ Len(q) \in Nat /\ Len(r) \in Nat
        /\ \A j \in 1 .. Len(q) + Len(r) : t[j] = IF j <= Len(q) THEN q[j] ELSE r[j - Len(q)]
    BY ConcatProperties, LenProperties
  <1> HIDE DEF t
  <1>2. \A j \in DOMAIN t : (j \in DOMAIN q /\ t[j] = q[j]) \/ t[j].kind \in {"update", "reject"}
    <2> SUFFICES ASSUME NEW j \in DOMAIN t, j > Len(q)
                 PROVE  t[j].kind \in {"update", "reject"}
      BY <1>1
    <2>1. j - Len(q) \in DOMAIN r /\ t[j] = r[j - Len(q)]
      BY <1>1
    <2> QED BY <2>1 DEF Plain
  <1>3. Begins(t) => Begins(q)
    BY <1>2 DEF Begins
  <1>4. Lives(t) => Lives(q)
    BY <1>2 DEF Lives
  <1>5. Ordered(q) => Ordered(t)
    BY <1>2 DEF Ordered
  <1> QED BY <1>3, <1>4, <1>5 DEF t

\* Taking the first message keeps the order of the rest.
LEMMA MarkersTaken ==
    ASSUME NEW q \in Seq(Messages), q # <<>>
    PROVE  /\ Begins(Tail(q)) => Begins(q)
           /\ Lives(Tail(q)) => Lives(q)
           /\ Ordered(q) => Ordered(Tail(q))
           /\ Ordered(q) /\ Head(q).kind = "live begin" => ~Begins(Tail(q))
           /\ Head(q).kind = "live begin" => Lives(q)
           /\ Head(q).kind = "snapshot begin" => Begins(q)
           /\ (\A j \in DOMAIN q : q[j].kind = "snapshot begin" => j = 1) => ~Begins(Tail(q))
  <1> DEFINE t == Tail(q)
  <1>1. /\ DOMAIN q = 1 .. Len(q) /\ Len(q) \in Nat \ {0} /\ DOMAIN t = 1 .. Len(q) - 1
        /\ Head(q) = q[1] /\ \A j \in 1 .. Len(q) - 1 : t[j] = q[j + 1]
    <2>1. DOMAIN q = 1 .. Len(q) /\ Len(q) \in Nat /\ Len(q) # 0
      BY LenProperties, EmptySeq
    <2>2. t \in Seq(Messages) /\ Len(t) = Len(q) - 1 /\ \A j \in 1 .. Len(t) : t[j] = q[j + 1]
      BY HeadTailProperties
    <2>3. DOMAIN t = 1 .. Len(t)
      BY <2>2, LenProperties
    <2> QED BY <2>1, <2>2, <2>3
  <1> HIDE DEF t
  <1>2. \A j \in DOMAIN t : j + 1 \in DOMAIN q /\ t[j] = q[j + 1] /\ 1 < j + 1 /\ j + 1 # 1
    BY <1>1
  <1>3. 1 \in DOMAIN q /\ Head(q) = q[1]
    BY <1>1
  <1>4. Begins(t) => Begins(q)
    BY <1>2 DEF Begins
  <1>5. Lives(t) => Lives(q)
    BY <1>2 DEF Lives
  <1>6. Ordered(q) => Ordered(t)
    <2> SUFFICES ASSUME Ordered(q), NEW j \in DOMAIN t, NEW k \in DOMAIN t, j < k
                 PROVE  ~(t[j].kind = "live begin" /\ t[k].kind = "snapshot begin")
      BY DEF Ordered
    <2>1. j + 1 < k + 1
      BY <1>1
    <2> QED BY <1>2, <2>1 DEF Ordered
  <1>7. Ordered(q) /\ Head(q).kind = "live begin" => ~Begins(t)
    BY <1>2, <1>3 DEF Ordered, Begins
  <1>8. /\ Head(q).kind = "live begin" => Lives(q)
        /\ Head(q).kind = "snapshot begin" => Begins(q)
    BY <1>3 DEF Lives, Begins
  <1>9. (\A j \in DOMAIN q : q[j].kind = "snapshot begin" => j = 1) => ~Begins(t)
    BY <1>2 DEF Begins
  <1> QED BY <1>4, <1>5, <1>6, <1>7, <1>8, <1>9 DEF t

\* A snapshot begins with its begin, and has no other.
LEMMA SnapshotBegins ==
    latest \in 0 .. MaxWrites =>
      /\ Begins(Snapshot)
      /\ \A j \in DOMAIN Snapshot : Snapshot[j].kind = "snapshot begin" => j = 1
  <1> SUFFICES ASSUME latest \in 0 .. MaxWrites
               PROVE  /\ Begins(Snapshot)
                      /\ \A j \in DOMAIN Snapshot : Snapshot[j].kind = "snapshot begin" => j = 1
    OBVIOUS
  <1> DEFINE a == Marker("snapshot begin")
             b == Marker("state begin")
             l == Marker("live begin")
             q == <<a, b>>
             r == IF latest = NoValue THEN <<>> ELSE <<Update(0, latest)>>
             t == (q \o r) \o <<l>>
  <1>1. /\ a \in Messages /\ b \in Messages /\ l \in Messages /\ Update(0, latest) \in Messages
        /\ a.kind = "snapshot begin" /\ b.kind = "state begin" /\ l.kind = "live begin"
        /\ Update(0, latest).kind = "update"
    BY MessageTypes DEF Marker, Update
  <1>2. Snapshot = t
    BY DEF Snapshot
  <1> HIDE DEF a, b, l
  <1>3. /\ q \in Seq(Messages) /\ Len(q) = 2 /\ q[1] = a /\ q[2] = b
    <2>1. q \in Seq(Messages)
      BY <1>1, ShortSequences
    <2> QED BY <2>1
  <1>4. r \in Seq(Messages) /\ \A j \in DOMAIN r : r[j].kind = "update"
    <2>1. CASE latest = NoValue
      BY <2>1
    <2>2. CASE latest # NoValue
      <3>1. r = <<Update(0, latest)>> /\ r \in Seq(Messages)
        BY <1>1, <2>2, ShortSequences
      <3>2. DOMAIN r = {1} /\ r[1] = Update(0, latest)
        BY <3>1
      <3> QED BY <1>1, <3>1, <3>2
    <2> QED BY <2>1, <2>2
  <1> HIDE DEF q, r
  <1>5. /\ (q \o r) \in Seq(Messages) /\ Len(q \o r) = 2 + Len(r) /\ Len(r) \in Nat
        /\ \A j \in 1 .. 2 + Len(r) : (q \o r)[j] = IF j <= 2 THEN q[j] ELSE r[j - 2]
    <2>1. Len(r) \in Nat
      BY <1>4, LenProperties
    <2>2. /\ (q \o r) \in Seq(Messages) /\ Len(q \o r) = Len(q) + Len(r)
          /\ \A j \in 1 .. Len(q) + Len(r) :
                (q \o r)[j] = IF j <= Len(q) THEN q[j] ELSE r[j - Len(q)]
      BY <1>3, <1>4, ConcatProperties
    <2> QED BY <1>3, <2>1, <2>2
  <1>6. \A j \in 1 .. Len(r) : r[j].kind = "update"
    BY <1>4, LenProperties
  <1>7. t = Append(q \o r, l)
    BY <1>1, <1>5, AppendIsConcat
  <1> HIDE DEF t
  <1>8. /\ t \in Seq(Messages) /\ Len(t) = 3 + Len(r) /\ t[3 + Len(r)] = l
        /\ \A j \in 1 .. 2 + Len(r) : t[j] = (q \o r)[j]
    <2>1. /\ t \in Seq(Messages) /\ Len(t) = Len(q \o r) + 1 /\ t[Len(q \o r) + 1] = l
          /\ \A j \in 1 .. Len(q \o r) : t[j] = (q \o r)[j]
      <3> DEFINE p == q \o r
      <3>1. p \in Seq(Messages) /\ t = Append(p, l)
        BY <1>5, <1>7
      <3> HIDE DEF p
      <3>2. /\ t \in Seq(Messages) /\ Len(t) = Len(p) + 1 /\ t[Len(p) + 1] = l
            /\ \A j \in 1 .. Len(p) : t[j] = p[j]
        <4>1. p \in Seq(Messages) /\ l \in Messages
          BY <1>1, <3>1
        <4>2. /\ Append(p, l) \in Seq(Messages) /\ Len(Append(p, l)) = Len(p) + 1
              /\ Append(p, l)[Len(p) + 1] = l
              /\ \A j \in 1 .. Len(p) : Append(p, l)[j] = p[j]
          BY <4>1, AppendProperties
        <4> QED BY <3>1, <4>2, Zenon
      <3> QED BY <3>2 DEF p
    <2> QED BY <1>5, <2>1
  <1>9. DOMAIN t = 1 .. 3 + Len(r)
    BY <1>8, LenProperties
  <1>10. 1 \in DOMAIN t /\ t[1] = a
    BY <1>3, <1>5, <1>8, <1>9
  <1>11. ASSUME NEW j \in DOMAIN t, j # 1 PROVE t[j].kind # "snapshot begin"
    <2>1. CASE j = 3 + Len(r)
      BY <1>1, <1>8, <2>1
    <2>2. CASE j = 2
      <3>1. 2 \in 1 .. 2 + Len(r)
        BY <1>5
      <3>2. t[2] = b
        BY <1>3, <1>5, <1>8, <3>1
      <3> QED BY <1>1, <2>2, <3>2
    <2>3. CASE j \in 3 .. 2 + Len(r)
      <3>1. j - 2 \in 1 .. Len(r) /\ t[j] = r[j - 2]
        BY <1>5, <1>8, <2>3
      <3> QED BY <1>6, <3>1
    <2>4. j \in 1 .. 3 + Len(r) /\ Len(r) \in Nat
      BY <1>5, <1>9
    <2>5. j = 3 + Len(r) \/ j = 2 \/ j \in 3 .. 2 + Len(r)
      BY <1>11, <2>4
    <2> QED BY <2>1, <2>2, <2>3, <2>5
  <1> QED BY <1>1, <1>2, <1>10, <1>11 DEF Begins

\* A slot that keeps its write and gets no marker more; it may have got its snapshot.
SlotKept(s, t) ==
    /\ t.written = s.written /\ t.mail = s.mail /\ t.snap \in {s.snap, 1}
    /\ Begins(t.inbox) => Begins(s.inbox)
    /\ Lives(t.inbox) => Lives(s.inbox)
    /\ Ordered(s.inbox) => Ordered(t.inbox)

LEMMA SlotKeptTwice ==
    ASSUME NEW a, NEW b, NEW c, SlotKept(a, b), SlotKept(b, c)
    PROVE  SlotKept(a, c)
  BY DEF SlotKept

\* Messages that are no markers keep the slot they are pushed into.
LEMMA PlainPush ==
    ASSUME NEW ss \in [Slots -> SharedClientSlot]
    PROVE  /\ \A i \in Slots, q \in Seq(Messages), j \in Slots :
                 Plain(q) => SlotKept(ss[j], PublishEnvelopeToClientSlot(ss, i, q)[j])
           /\ \A m \in Messages, j \in Slots :
                 m.kind \in {"update", "reject"}
                   => SlotKept(ss[j], PublishEnvelopeToAllClients(ss, m)[j])
  <1>0. \A j \in Slots : ss[j] \in SharedClientSlot /\ ss[j].inbox \in Seq(Messages)
    BY SlotFields
  <1>1. \A j \in Slots : SlotKept(ss[j], ss[j])
    BY DEF SlotKept
  <1>2. ASSUME NEW s \in SharedClientSlot, NEW q,
               Begins(q) => Begins(s.inbox), Lives(q) => Lives(s.inbox),
               Ordered(s.inbox) => Ordered(q)
        PROVE  SlotKept(s, [s EXCEPT !.inbox = q])
    <2>1. /\ [s EXCEPT !.inbox = q].inbox = q /\ [s EXCEPT !.inbox = q].written = s.written
          /\ [s EXCEPT !.inbox = q].mail = s.mail /\ [s EXCEPT !.inbox = q].snap = s.snap
      BY DEF SharedClientSlot
    <2> QED BY <1>2, <2>1 DEF SlotKept
  <1>3. ASSUME NEW i \in Slots, NEW q \in Seq(Messages), NEW j \in Slots, Plain(q)
        PROVE  SlotKept(ss[j], PublishEnvelopeToClientSlot(ss, i, q)[j])
    <2> DEFINE t == [ss[i] EXCEPT !.inbox = ss[i].inbox \o q]
    <2>1. SlotKept(ss[i], t)
      BY <1>0, <1>2, <1>3, MarkersKept
    <2>2. PublishEnvelopeToClientSlot(ss, i, q) \in {ss, [ss EXCEPT ![i] = t]}
      BY DEF PublishEnvelopeToClientSlot
    <2> HIDE DEF t
    <2>3. CASE j = i
      BY <1>1, <2>1, <2>2, <2>3
    <2>4. CASE j # i
      BY <1>1, <2>2, <2>4
    <2> QED BY <2>3, <2>4
  <1>4. ASSUME NEW m \in Messages, NEW j \in Slots, m.kind \in {"update", "reject"}
        PROVE  SlotKept(ss[j], PublishEnvelopeToAllClients(ss, m)[j])
    <2>1. PublishEnvelopeToAllClients(ss, m)[j]
             \in {ss[j], [ss[j] EXCEPT !.inbox = Append(ss[j].inbox, m)]}
      BY DEF PublishEnvelopeToAllClients
    <2>2. SlotKept(ss[j], [ss[j] EXCEPT !.inbox = Append(ss[j].inbox, m)])
      BY <1>0, <1>2, <1>4, MarkersAppended
    <2> QED BY <1>1, <2>1, <2>2
  <1> QED BY <1>3, <1>4

\* A slot that is kept stays in order.
LEMMA SlotFrame ==
    ASSUME NEW i \in Slots, SlotOrder(i), SlotKept(slots[i], slots'[i]),
           Served(i) => Served(i)',
           At(i, "push")' => slots'[i].snap # 1,
           (At(i, "handle") \/ At(i, "ack"))' /\ slots'[i].snap = 1
              => scan'.loaded = slots'[i].written
    PROVE  SlotOrder(i)'
  BY DEF SlotOrder, SlotKept

\* So does the client that has it.
LEMMA ClientFrame ==
    ASSUME NEW c \in Clients, ClientOrder(c), NEW i, i = slotOf[c],
           UNCHANGED <<place[c], connected[c], call[c], phase[c], submitted[c], slotOf[c]>>,
           place[c] = "running" => SlotKept(slots[i], slots'[i]) /\ (Served(i) => Served(i)'),
           place[c] = "running" /\ call[c] \in {"write", "submit"}
             /\ slots[i].acked >= slots[i].written => slots'[i].acked >= slots'[i].written
    PROVE  ClientOrder(c)'
  BY DEF ClientOrder, SlotKept, Slot

\* A step of the server that keeps the slots keeps everything in order.
LEMMA OrderServer ==
    ASSUME IpcInv, \A i \in Slots : SlotOrder(i), \A c \in Clients : ClientOrder(c),
           UNCHANGED client,
           \A i \in Slots : SlotKept(slots[i], slots'[i]) /\ (Served(i) => Served(i)'),
           \A i \in Slots : At(i, "push")' => slots'[i].snap # 1,
           \A i \in Slots : (At(i, "handle") \/ At(i, "ack"))' /\ slots'[i].snap = 1
                               => scan'.loaded = slots'[i].written,
           \A c \in Clients : place[c] = "running" /\ call[c] \in {"write", "submit"}
               /\ slots[slotOf[c]].acked >= slots[slotOf[c]].written
               => slots'[slotOf[c]].acked >= slots'[slotOf[c]].written
    PROVE  (\A i \in Slots : SlotOrder(i)') /\ \A c \in Clients : ClientOrder(c)'
  <1>1. \A i \in Slots : SlotOrder(i)'
    BY SlotFrame
  <1>2. ASSUME NEW c \in Clients PROVE ClientOrder(c)'
    <2>1. UNCHANGED <<place[c], connected[c], call[c], phase[c], submitted[c], slotOf[c]>>
      BY DEF client, loop, publishing
    <2>2. place[c] = "running" => slotOf[c] \in Slots
      BY HasSlot DEF IpcInv
    <2> QED BY <2>1, <2>2, ClientFrame
  <1> QED BY <1>1, <1>2

\* What the scan is about to push or to serve, after the steps that touch no slot.
LEMMA OrderScan ==
    ASSUME IpcInv, OrderInv, session = 1, NEW i \in Slots,
           \/ ServerBeat \/ SkipSlot(i) \/ PublishSnapshot(i) \/ SnapshotAlreadyComplete(i)
           \/ LoadWriteSequence(i)
    PROVE  OrderInv'
  <1>0. /\ scan \in ScanType /\ UNCHANGED <<client, slots>> /\ serverFresh'
        /\ \A j \in Slots : ~At(j, "push")
    <2>1. scan \in ScanType
      BY DEF IpcInv, ServerType
    <2>2. UNCHANGED <<client, slots>> /\ serverFresh'
      BY DEF ServerBeat, SkipSlot, PublishSnapshot, SnapshotAlreadyComplete, LoadWriteSequence,
             shared, OrderInv, ServerOrder
    <2>3. \A j \in Slots : ~At(j, "push")
      BY Bounds DEF ServerBeat, SkipSlot, PublishSnapshot, SnapshotAlreadyComplete,
             LoadWriteSequence, At, Scanning, NoSlot, Slots
    <2> QED BY <2>1, <2>2, <2>3
  <1>1. \A j \in Slots : SlotKept(slots[j], slots'[j]) /\ (Served(j) => Served(j)')
    BY <1>0 DEF SlotKept, Served
  <1>s. \/ scan'.step = "check" /\ scan'.rest = <<>>
        \/ PublishSnapshot(i) /\ scan'.step = "push" /\ scan'.slot = i /\ scan'.rest = Snapshot
        \/ SnapshotAlreadyComplete(i) /\ scan'.step = "load" /\ scan'.rest = scan.rest
        \/ /\ LoadWriteSequence(i) /\ scan'.step = "handle" /\ scan'.slot = i
           /\ scan'.loaded = slots[i].written /\ scan'.rest = scan.rest
    <2>1. ASSUME NextSlot PROVE scan'.step = "check" /\ scan'.rest = <<>>
      BY <2>1 DEF NextSlot, Idle
    <2>2. CASE ServerBeat
      BY <2>2 DEF ServerBeat, Idle
    <2>3. CASE SkipSlot(i)
      BY <2>1, <2>3 DEF SkipSlot
    <2>4. CASE PublishSnapshot(i)
      BY <1>0, <2>4 DEF PublishSnapshot, At, ScanType
    <2>5. CASE SnapshotAlreadyComplete(i)
      BY <1>0, <2>5 DEF SnapshotAlreadyComplete, ScanType
    <2>6. CASE LoadWriteSequence(i)
      <3>1. CASE slots[i].written > processed[i]
        BY <1>0, <2>6, <3>1 DEF LoadWriteSequence, At, ScanType
      <3>2. CASE ~(slots[i].written > processed[i])
        BY <2>1, <2>6, <3>2 DEF LoadWriteSequence
      <3> QED BY <3>1, <3>2
    <2> QED BY <2>2, <2>3, <2>4, <2>5, <2>6
  <1>2. \A j \in Slots : At(j, "push")' => slots'[j].snap # 1
    <2>1. PublishSnapshot(i) => slots[i].snap # 1
      BY DEF PublishSnapshot
    <2> QED BY <1>0, <1>s, <2>1 DEF At
  <1>3. \A j \in Slots : (At(j, "handle") \/ At(j, "ack"))'
                            => scan'.loaded = slots'[j].written
    BY <1>0, <1>s DEF At
  <1>4. ServerOrder'
    <2>1. \A c \in DOMAIN queues' : Plain(queues'[c])
      <3>1. CASE PublishSnapshot(i)
        <4>1. \A c \in DOMAIN queues' : queues'[c] = <<>> \/ (c \in DOMAIN queues /\ queues'[c] = queues[c])
          BY <3>1 DEF PublishSnapshot
        <4>2. Plain(<<>>)
          BY DEF Plain
        <4> QED BY <4>1, <4>2 DEF OrderInv, ServerOrder
      <3>2. CASE ~PublishSnapshot(i)
        BY <3>2 DEF ServerBeat, SkipSlot, SnapshotAlreadyComplete, LoadWriteSequence, core,
                OrderInv, ServerOrder
      <3> QED BY <3>1, <3>2
    <2>2. scan'.rest = scan.rest \/ scan'.rest = <<>> \/ scan'.rest = Snapshot
      BY <1>s
    <2>3. latest \in 0 .. MaxWrites
      BY DEF IpcInv, ServerType
    <2>4. \A j \in DOMAIN scan'.rest : scan'.rest[j].kind = "snapshot begin" => j = 1
      <3>1. CASE scan'.rest = scan.rest
        BY <3>1 DEF OrderInv, ServerOrder
      <3>2. CASE scan'.rest = <<>>
        <4>1. DOMAIN <<>> = {}
          OBVIOUS
        <4>2. DOMAIN scan'.rest = {}
          BY <3>2, <4>1, Zenon
        <4> QED BY <4>2, Zenon
      <3>3. CASE scan'.rest = Snapshot
        BY <2>3, <3>3, SnapshotBegins
      <3> QED BY <2>2, <3>1, <3>2, <3>3
    <2> QED BY <1>0, <2>1, <2>4 DEF ServerOrder
  <1> QED BY <1>0, <1>1, <1>2, <1>3, <1>4, OrderServer DEF OrderInv

\* A publication of the server's is no marker.
LEMMA OrderFromServer ==
    ASSUME IpcInv, OrderInv, PublishFromServer
    PROVE  OrderInv'
  <1> DEFINE m == Update(nextSeq, issued + 1)
  <1>1. m \in Messages /\ m.kind = "update"
    <2>1. nextSeq \in Nat /\ issued + 1 \in 0 .. MaxWrites
      BY Bounds DEF IpcInv, ServerType, PublishFromServer
    <2>2. m \in Messages
      BY <2>1, MessageTypes
    <2> QED BY <2>2 DEF Update
  <1>2. /\ slots \in [Slots -> SharedClientSlot]
        /\ UNCHANGED <<client, scan, serverFresh>> /\ \A j \in Slots : ~At(j, "push")
        /\ slots' = PublishEnvelopeToAllClients(slots, m)
        /\ queues' = [c \in DOMAIN queues |-> Append(queues[c], m)]
        /\ ~Scanning
    BY Bounds DEF IpcInv, SlotsType, PublishFromServer, server, At, Scanning, NoSlot, Slots, Enqueued
  <1> HIDE DEF m
  <1>3. \A j \in Slots : SlotKept(slots[j], slots'[j]) /\ slots'[j].acked = slots[j].acked
                         /\ slots'[j].written = slots[j].written
    BY <1>1, <1>2, PlainPush, PushKeepsFields DEF FieldsKept
  <1>4. \A j \in Slots : Served(j) => Served(j)'
    BY <1>2, <1>3 DEF Served, SlotKept
  <1>5. \A j \in Slots : ~At(j, "push")' /\ ~At(j, "handle")' /\ ~At(j, "ack")'
    BY <1>2, Bounds DEF At, Scanning, NoSlot, Slots
  <1>6. ServerOrder'
    <2>1. ASSUME NEW c \in DOMAIN queues PROVE Plain(queues'[c])
      <3>1. queues[c] \in Seq(Messages) /\ Plain(queues[c])
        BY DEF IpcInv, ServerType, OrderInv, ServerOrder
      <3>2. Plain(Append(queues[c], m))
        BY <1>1, <3>1, MarkersAppended
      <3> QED BY <1>2, <3>2
    <2>2. DOMAIN queues' = DOMAIN queues
      BY <1>2
    <2> QED BY <1>2, <2>1, <2>2 DEF ServerOrder, OrderInv
  <1>7. \A c \in Clients : place[c] = "running" => slotOf[c] \in Slots
    BY HasSlot DEF IpcInv
  <1> QED BY <1>2, <1>3, <1>4, <1>5, <1>6, <1>7, OrderServer DEF OrderInv

\* Neither are the answers to a client's write.
LEMMA HandleKeeps ==
    ASSUME IpcInv, OrderInv, NEW i \in Slots, HandleClientWrite(i)
    PROVE  /\ \A j \in Slots : SlotKept(slots[j], slots'[j])
           /\ \A c \in DOMAIN queues' : Plain(queues'[c])
  <1> DEFINE who == scan.who
             v == slots[i].mail
             accepted == lease \in {Nobody, who}
             event == IF accepted THEN Update(nextSeq, v) ELSE Refusal(v)
             enqueued == [c \in DOMAIN queues |->
                            IF accepted \/ c = who THEN Append(queues[c], event)
                            ELSE queues[c]]
             drained == IF who \in DOMAIN queues THEN enqueued[who] ELSE <<>>
             answered == PublishEnvelopeToClientSlot(slots, i, drained)
  <1>0. slots \in [Slots -> SharedClientSlot]
    BY DEF IpcInv, SlotsType
  <1>1. v \in 0 .. MaxWrites /\ nextSeq \in Nat
    BY SlotFields DEF IpcInv, SlotsType, ServerType
  <1>2. event \in Messages /\ event.kind \in {"update", "reject"}
    <2>1. event \in Messages
      BY <1>1, MessageTypes
    <2> QED BY <2>1 DEF Update, Refusal
  <1>3. /\ \/ slots' = slots \/ slots' = answered
           \/ slots' = PublishEnvelopeToAllClients(answered, event)
        /\ \/ queues' = queues
           \/ queues' = [c \in DOMAIN queues |-> IF c = who THEN <<>> ELSE enqueued[c]]
    BY DEF HandleClientWrite
  <1> HIDE DEF event, accepted, v
  <1>e. Plain(<<>>) /\ <<>> \in Seq(Messages)
    BY DEF Plain
  <1>4. \A c \in DOMAIN queues : enqueued[c] \in Seq(Messages) /\ Plain(enqueued[c])
    <2>1. ASSUME NEW c \in DOMAIN queues
          PROVE  /\ queues[c] \in Seq(Messages) /\ Plain(queues[c])
                 /\ Append(queues[c], event) \in Seq(Messages) /\ Plain(Append(queues[c], event))
      <3>1. queues[c] \in Seq(Messages) /\ Plain(queues[c])
        BY DEF IpcInv, ServerType, OrderInv, ServerOrder
      <3> QED BY <1>2, <3>1, MarkersAppended, AppendProperties
    <2> QED BY <2>1
  <1> HIDE DEF enqueued
  <1>5. drained \in Seq(Messages) /\ Plain(drained)
    BY <1>4, <1>e
  <1> HIDE DEF drained
  <1>6. answered \in [Slots -> SharedClientSlot]
    BY <1>0, <1>5, PushOne DEF OwnersKept
  <1>7. \A j \in Slots : SlotKept(slots[j], answered[j]) /\ SlotKept(slots[j], slots[j])
    BY <1>0, <1>5, PlainPush DEF SlotKept
  <1> HIDE DEF answered
  <1>8. \A j \in Slots : SlotKept(answered[j], PublishEnvelopeToAllClients(answered, event)[j])
    BY <1>2, <1>6, PlainPush
  <1>9. \A j \in Slots : SlotKept(slots[j], slots'[j])
    BY <1>3, <1>7, <1>8, SlotKeptTwice
  <1>10. \A c \in DOMAIN queues' : Plain(queues'[c])
    <2>1. CASE queues' = queues
      BY <2>1 DEF OrderInv, ServerOrder
    <2>2. CASE queues' = [c \in DOMAIN queues |-> IF c = who THEN <<>> ELSE enqueued[c]]
      BY <1>4, <1>e, <2>2
    <2> QED BY <1>3, <2>1, <2>2
  <1> QED BY <1>9, <1>10

LEMMA OrderHandle ==
    ASSUME IpcInv, OrderInv, NEW i \in Slots, HandleClientWrite(i)
    PROVE  OrderInv'
  <1>1. /\ scan \in ScanType /\ UNCHANGED <<client, serverFresh>>
        /\ At(i, "handle") /\ scan' = [scan EXCEPT !.step = "ack"]
    BY DEF IpcInv, ServerType, HandleClientWrite, Goto
  <1>2. /\ scan'.slot = i /\ scan'.step = "ack" /\ scan'.loaded = scan.loaded
        /\ scan'.rest = scan.rest /\ \A j : ~At(j, "push")
    BY <1>1 DEF At, ScanType
  <1>3. \A j \in Slots : SlotKept(slots[j], slots'[j]) /\ FieldsKept(slots[j], slots'[j])
    BY HandleKeeps, HandleFields
  <1>4. \A j \in Slots : Served(j) => Served(j)'
    BY <1>2, <1>3 DEF Served, FieldsKept
  <1>5. \A j \in Slots : ~At(j, "push")'
    BY <1>2 DEF At
  <1>6. \A j \in Slots : (At(j, "handle") \/ At(j, "ack"))' /\ slots'[j].snap = 1
                            => scan'.loaded = slots'[j].written
    BY <1>1, <1>2, <1>3 DEF OrderInv, SlotOrder, At, FieldsKept
  <1>7. ServerOrder'
    BY <1>1, <1>2, HandleKeeps DEF OrderInv, ServerOrder
  <1>8. \A c \in Clients : place[c] = "running" => slotOf[c] \in Slots
    BY HasSlot DEF IpcInv
  <1> QED BY <1>1, <1>3, <1>4, <1>5, <1>6, <1>7, <1>8, OrderServer DEF OrderInv, FieldsKept

\* An acknowledgement meets no call that is past its wait.
LEMMA OrderAcknowledge ==
    ASSUME IpcInv, Solo, \A c \in Clients : AckSound(c), OrderInv, NEW i \in Slots, Acknowledge(i)
    PROVE  OrderInv'
  <1>1. /\ scan \in ScanType /\ slots \in [Slots -> SharedClientSlot]
        /\ UNCHANGED <<client, serverFresh, queues>>
        /\ At(i, "ack") /\ slots' = [slots EXCEPT ![i].acked = scan.loaded] /\ NextSlot
    BY DEF IpcInv, ServerType, SlotsType, Acknowledge, core
  <1>2. scan'.step = "check" /\ scan'.rest = <<>> /\ scan.loaded \in Nat
    BY <1>1 DEF NextSlot, Idle, ScanType
  <1>3. \A j \in Slots : /\ SlotKept(slots[j], slots'[j]) /\ slots'[j].snap = slots[j].snap
                         /\ slots'[j].written = slots[j].written
                         /\ slots'[j].acked = IF j = i THEN scan.loaded ELSE slots[j].acked
    BY <1>1 DEF SharedClientSlot, SlotKept
  <1>4. \A j \in Slots : (Served(j) => Served(j)') /\ ~At(j, "push")' /\ ~At(j, "handle")'
                         /\ ~At(j, "ack")'
    BY <1>1, <1>2, <1>3 DEF Served, At
  <1>5. ServerOrder'
    <2>1. DOMAIN <<>> = {}
      OBVIOUS
    <2>2. DOMAIN scan'.rest = {}
      BY <1>2, <2>1, Zenon
    <2> QED BY <1>1, <2>2, Zenon DEF OrderInv, ServerOrder
  <1>6. ASSUME NEW c \in Clients, place[c] = "running", call[c] \in {"write", "submit"},
               slots[slotOf[c]].acked >= slots[slotOf[c]].written
        PROVE  slots'[slotOf[c]].acked >= slots'[slotOf[c]].written
    <2>1. /\ slotOf[c] \in Slots /\ VisitSound(c) /\ Slot(c) = slots[slotOf[c]]
          /\ slots[slotOf[c]].acked \in Nat /\ slots[slotOf[c]].written \in Nat
      BY <1>6, OwnSlot DEF Live, AckSound
    <2>2. slotOf[c] # i
      BY <1>1, <1>2, <1>6, <2>1 DEF VisitSound, Past, At
    <2> QED BY <1>3, <1>6, <2>1, <2>2
  <1> QED BY <1>1, <1>3, <1>4, <1>5, <1>6, OrderServer DEF OrderInv

\* The snapshot is complete when its begin is behind the scan.
LEMMA OrderMark ==
    ASSUME IpcInv, OrderInv, session = 1, NEW i \in Slots, MarkSnapshotComplete(i)
    PROVE  OrderInv'
  <1>1. /\ scan \in ScanType /\ slots \in [Slots -> SharedClientSlot]
        /\ UNCHANGED <<client, serverFresh, queues>>
        /\ At(i, "push") /\ slots' = [slots EXCEPT ![i].snap = 1]
        /\ scan' = [scan EXCEPT !.step = "load"]
    BY DEF IpcInv, ServerType, SlotsType, MarkSnapshotComplete, core, Goto
  <1>2. scan'.step = "load" /\ scan'.rest = scan.rest /\ scan.slot = i
    BY <1>1 DEF ScanType, At
  <1>3. \A j \in Slots : /\ SlotKept(slots[j], slots'[j])
                         /\ slots'[j].snap = IF j = i THEN 1 ELSE slots[j].snap
                         /\ slots'[j].written = slots[j].written
                         /\ slots'[j].acked = slots[j].acked
    BY <1>1 DEF SharedClientSlot, SlotKept
  <1>4. \A j \in Slots : (Served(j) => Served(j)') /\ ~At(j, "push")' /\ ~At(j, "handle")'
                         /\ ~At(j, "ack")'
    BY <1>1, <1>2, <1>3 DEF Served, At
  <1>5. ServerOrder'
    BY <1>1, <1>2 DEF OrderInv, ServerOrder
  <1>6. \A c \in Clients : place[c] = "running" => slotOf[c] \in Slots
    BY HasSlot DEF IpcInv
  <1> QED BY <1>1, <1>3, <1>4, <1>5, <1>6, OrderServer DEF OrderInv

\* The begin of a snapshot is pushed into a slot without writes, whose owner is not
\* connected; what comes after it is no begin.
LEMMA OrderPush ==
    ASSUME IpcInv, OrderInv, session = 1, NEW i \in Slots, PushSnapshot(i)
    PROVE  OrderInv'
  <1> DEFINE m == Head(scan.rest)
             q == slots[i].inbox
  <1>1. /\ scan \in ScanType /\ slots \in [Slots -> SharedClientSlot]
        /\ UNCHANGED <<client, serverFresh, queues>>
        /\ At(i, "push") /\ scan.rest # <<>>
        /\ slots' = PublishEnvelopeToClientSlot(slots, i, <<m>>)
        /\ scan' = [scan EXCEPT !.rest = Tail(scan.rest)]
    BY DEF IpcInv, ServerType, SlotsType, PushSnapshot, core
  <1>2. /\ scan'.step = "push" /\ scan'.slot = i /\ scan'.rest = Tail(scan.rest)
        /\ scan.rest \in Seq(Messages)
    BY <1>1 DEF ScanType, At
  <1>3. m \in Messages /\ (m.kind = "snapshot begin" => Begins(scan.rest)) /\ ~Begins(scan'.rest)
    <2>1. \A j \in DOMAIN scan.rest : scan.rest[j].kind = "snapshot begin" => j = 1
      BY DEF OrderInv, ServerOrder
    <2>2. m \in Messages /\ (m.kind = "snapshot begin" => Begins(scan.rest))
      BY <1>1, <1>2, MarkersTaken, HeadTailProperties
    <2>3. ~Begins(Tail(scan.rest))
      BY <1>1, <1>2, <2>1, MarkersTaken
    <2> QED BY <1>2, <2>2, <2>3
  <1> HIDE DEF m
  <1>4. q \in Seq(Messages) /\ slots[i].snap # 1 /\ SlotOrder(i)
    BY <1>1, SlotFields DEF OrderInv, SlotOrder
  <1>5. q \o <<m>> = Append(q, m)
    BY <1>3, <1>4, AppendIsConcat
  <1>6. /\ slots'[i].inbox = q \/ slots'[i].inbox = Append(q, m)
        /\ slots'[i].written = slots[i].written /\ slots'[i].mail = slots[i].mail
        /\ slots'[i].snap = slots[i].snap
        /\ \A j \in Slots : j # i => slots'[j] = slots[j]
    <2>1. \/ slots' = slots
          \/ slots' = [slots EXCEPT ![i] = [slots[i] EXCEPT !.inbox = q \o <<m>>]]
      BY <1>1 DEF PublishEnvelopeToClientSlot
    <2>2. slots[i] \in SharedClientSlot
      BY <1>1
    <2> QED BY <1>1, <1>5, <2>1, <2>2 DEF SharedClientSlot
  <1> DEFINE p == slots'[i].inbox
  <1>7. /\ Begins(p) => Begins(q) \/ Begins(scan.rest)
        /\ Ordered(p)
    <2>1. m.kind = "snapshot begin" => ~Lives(q)
      BY <1>3, <1>4 DEF SlotOrder, Served
    <2>2. /\ Begins(Append(q, m)) => Begins(q) \/ Begins(scan.rest)
          /\ Ordered(Append(q, m))
      BY <1>3, <1>4, <2>1, MarkersAppended DEF SlotOrder
    <2> QED BY <1>4, <1>6, <2>2 DEF SlotOrder
  <1>8. Served(i)'
    BY <1>2, <1>3 DEF Served, At
  <1>9. \A j \in Slots : j # i => (Served(j) => Served(j)') /\ ~At(j, "push")'
                                  /\ ~At(j, "handle")' /\ ~At(j, "ack")'
    BY <1>1, <1>2, <1>6 DEF Served, At
  <1>10. SlotOrder(i)'
    BY <1>2, <1>4, <1>6, <1>7, <1>8 DEF SlotOrder, At
  <1>11. \A j \in Slots : j # i => SlotOrder(j)'
    BY <1>6, <1>9, SlotFrame DEF OrderInv, SlotKept
  <1>12. ASSUME NEW c \in Clients PROVE ClientOrder(c)'
    <2>1. UNCHANGED <<place[c], connected[c], call[c], phase[c], submitted[c], slotOf[c]>>
          /\ ClientOrder(c)
      BY <1>1 DEF client, loop, publishing, OrderInv
    <2>2. CASE place[c] # "running"
      BY <2>1, <2>2 DEF ClientOrder
    <2>3. CASE place[c] = "running" /\ slotOf[c] # i
      <3>1. slotOf[c] \in Slots
        BY <2>3, HasSlot DEF IpcInv
      <3>2. slots'[slotOf[c]] = slots[slotOf[c]] /\ (Served(slotOf[c]) => Served(slotOf[c])')
        <4>1. \A j \in Slots : j # i /\ slotOf'[c] = j => (Served(j) => Served(slotOf[c])')
          BY <1>9
        <4> QED BY <1>6, <2>1, <2>3, <3>1, <4>1
      <3> QED BY <2>1, <2>3, <3>2 DEF ClientOrder, Slot
    <2>4. CASE place[c] = "running" /\ slotOf[c] = i
      <3>1. ~connected[c] /\ call[c] = "idle" /\ submitted[c] = slots[i].written
            /\ (phase[c] = "live" => Served(i) /\ ~Begins(q))
        BY <1>4, <2>1, <2>4 DEF ClientOrder, Slot
      <3>2. phase[c] = "live" => ~Begins(p)
        BY <1>1, <1>4, <1>7, <3>1 DEF Served
      <3>3. slotOf'[c] = i
        BY <2>1, <2>4
      <3>4. Served(slotOf[c])'
        BY <1>8, <3>3 DEF Served, At
      <3> QED BY <1>6, <2>1, <3>1, <3>2, <3>3, <3>4 DEF ClientOrder, Slot
    <2> QED BY <2>2, <2>3, <2>4
  <1>13. ServerOrder'
    BY <1>1, <1>3 DEF OrderInv, ServerOrder, Begins
  <1> QED BY <1>10, <1>11, <1>12, <1>13 DEF OrderInv

\* A slot cleared by the time-out is no running client's.
LEMMA OrderTimeOut ==
    ASSUME IpcInv, Solo, OrderInv, NEW i \in Slots, TimeOut(i)
    PROVE  OrderInv'
  <1>1. /\ place[slots[i].tag] = "dead" /\ slots' = [slots EXCEPT ![i] = FreeSlot]
        /\ queues' = [c \in DOMAIN queues \ {slots[i].tag} |-> queues[c]]
        /\ UNCHANGED <<client, serverFresh>> /\ NextSlot /\ At(i, "check")
        /\ slots \in [Slots -> SharedClientSlot]
    BY DEF TimeOut, ClearSlot, IpcInv, SlotsType
  <1>2. scan'.step = "check" /\ scan'.rest = <<>>
    BY <1>1 DEF NextSlot, Idle
  <1>3. \A j \in Slots : /\ j # i => slots'[j] = slots[j]
                         /\ Served(j) => slots[j].snap = 1
                         /\ ~At(j, "push")' /\ ~At(j, "handle")' /\ ~At(j, "ack")'
    BY <1>1, <1>2 DEF Served, At
  <1>4. ASSUME NEW j \in Slots PROVE SlotOrder(j)'
    <2>1. CASE j = i
      <3>1. slots'[j].inbox = <<>> /\ slots'[j].written = 0 /\ slots'[j].mail = NoValue
        BY <1>1, <2>1 DEF FreeSlot
      <3>2. Ordered(<<>>) /\ ~Lives(<<>>)
        BY DEF Ordered, Lives
      <3> QED BY <1>3, <3>1, <3>2 DEF SlotOrder
    <2>2. CASE j # i
      <3>1. Served(j) => Served(j)'
        BY <1>3, <2>2 DEF Served
      <3> QED BY <1>3, <2>2, <3>1, SlotFrame DEF OrderInv, SlotKept
    <2> QED BY <2>1, <2>2
  <1>5. ASSUME NEW c \in Clients PROVE ClientOrder(c)'
    <2>1. UNCHANGED <<place[c], connected[c], call[c], phase[c], submitted[c], slotOf[c]>>
          /\ ClientOrder(c)
      BY <1>1 DEF client, loop, publishing, OrderInv
    <2>2. place[c] = "running" => slotOf[c] \in Slots /\ slotOf[c] # i
      BY <1>1, OwnSlot DEF Live
    <2>3. place[c] = "running" => slots'[slotOf[c]] = slots[slotOf[c]]
      BY <1>3, <2>2
    <2>4. \A j \in Slots : j # i => (Served(j) => Served(j)')
      BY <1>3 DEF Served
    <2> QED BY <2>1, <2>2, <2>3, <2>4, ClientFrame DEF SlotKept
  <1>6. ServerOrder'
    <2>1. DOMAIN <<>> = {}
      OBVIOUS
    <2>2. DOMAIN scan'.rest = {}
      BY <1>2, <2>1, Zenon
    <2>3. \A c \in DOMAIN queues' : c \in DOMAIN queues /\ queues'[c] = queues[c]
      BY <1>1
    <2> QED BY <1>1, <2>2, <2>3 DEF OrderInv, ServerOrder
  <1> QED BY <1>4, <1>5, <1>6 DEF OrderInv

\* A step of a client that writes one slot, no other running client's, keeps the rest
\* in order.
LEMMA OrderClient ==
    ASSUME IpcInv, OrderInv, NEW c \in Clients, NEW i,
           UNCHANGED <<scan, serverFresh, queues>>,
           \A j \in Slots : j # i => slots'[j] = slots[j],
           \A d \in Clients : d # c =>
               UNCHANGED <<place[d], connected[d], call[d], phase[d], submitted[d], slotOf[d]>>,
           \A d \in Clients : d # c /\ place[d] = "running" => slotOf[d] # i,
           i \in Slots => SlotOrder(i)',
           ClientOrder(c)'
    PROVE  OrderInv'
  <1>1. \A j \in Slots : j # i => (Served(j) => Served(j)')
    BY DEF Served, At
  <1>2. ASSUME NEW j \in Slots, j # i PROVE SlotOrder(j)'
    <2>1. /\ SlotOrder(j) /\ slots'[j] = slots[j] /\ scan' = scan
          /\ (Served(j) => Served(j)')
      BY <1>1, <1>2 DEF OrderInv
    <2> QED BY <2>1 DEF SlotOrder, At
  <1>3. ASSUME NEW d \in Clients, d # c PROVE ClientOrder(d)'
    <2>1. ClientOrder(d)
      BY DEF OrderInv
    <2>2. place[d] = "running" => slotOf[d] \in Slots /\ slotOf[d] # i
      BY <1>3, HasSlot DEF IpcInv
    <2> QED BY <1>1, <1>3, <2>1, <2>2, ClientFrame DEF SlotKept
  <1>4. ServerOrder'
    BY DEF OrderInv, ServerOrder
  <1> QED BY <1>2, <1>3, <1>4 DEF OrderInv

\* Claims, the name in the slot, stops and deaths.
LEMMA OrderLife ==
    ASSUME IpcInv, CallsRun, Solo, \A d \in Clients : AckSound(d), OrderInv, NEW c \in Clients,
           Claim(c) \/ Advertise(c) \/ Stop(c) \/ Crash(c)
    PROVE  OrderInv'
  <1>0. /\ slots \in [Slots -> SharedClientSlot]
        /\ place \in [Clients -> {"off", "claimed", "running", "dead"}]
        /\ connected \in [Clients -> BOOLEAN] /\ submitted \in [Clients -> Nat]
        /\ phase \in [Clients -> {"descriptors", "state", "live"}]
        /\ call \in [Clients -> {"idle", "wait", "write", "submit"}]
        /\ slotOf \in [Clients -> 0 .. SlotCount]
        /\ Ordered(<<>>) /\ ~Lives(<<>>)
    BY DEF IpcInv, SlotsType, ClientType, Ordered, Lives
  <1>1. UNCHANGED <<scan, serverFresh, queues>>
    BY DEF Claim, Advertise, Stop, Crash, core, server, shared
  <1>2. CASE Claim(c)
    <2>1. PICK i \in Slots :
            /\ slots[i].tag = Nobody
            /\ slots' = [slots EXCEPT ![i] = [FreeSlot EXCEPT !.tag = c]]
            /\ slotOf' = [slotOf EXCEPT ![c] = i]
      BY <1>2 DEF Claim
    <2>2. /\ place' = [place EXCEPT ![c] = "claimed"]
          /\ UNCHANGED <<connected, call, phase, submitted>>
      BY <1>2 DEF Claim, loop, publishing
    <2>3. \A d \in Clients : d # c /\ place[d] = "running" => slotOf[d] # i
      BY <2>1, OwnSlot, Bounds DEF Live
    <2>4. /\ slots'[i].inbox = <<>> /\ slots'[i].snap = 0 /\ slots'[i].written = 0
          /\ slots'[i].mail = NoValue
      BY <1>0, <2>1 DEF FreeSlot
    <2>5. SlotOrder(i)'
      BY <1>0, <2>4 DEF SlotOrder
    <2>6. ClientOrder(c)'
      BY <1>0, <2>2 DEF ClientOrder
    <2> QED BY <1>0, <1>1, <2>1, <2>2, <2>3, <2>5, <2>6, OrderClient
  <1>3. CASE Advertise(c)
    <2>0. PICK i \in Slots : i = slotOf[c]
      BY <1>3, HasSlot DEF IpcInv, Advertise
    <2>1. /\ place[c] = "claimed" /\ place' = [place EXCEPT ![c] = "running"]
          /\ slots' = [slots EXCEPT ![i].named = TRUE]
          /\ submitted' = [submitted EXCEPT ![c] = 0]
          /\ phase' = [phase EXCEPT ![c] = "descriptors"]
          /\ UNCHANGED <<connected, call, slotOf>>
      BY <1>3, <2>0 DEF Advertise, publishing
    <2>2. /\ i \in Slots /\ Slot(c) = slots[i] /\ slots[i].written = 0
          /\ \A d \in Clients : d # c /\ Live(d) => slotOf[d] # i
      BY <2>0, <2>1, OwnSlot DEF Live, AckSound, AcksProcessed
    <2>3. /\ SlotKept(slots[i], slots'[i]) /\ slots'[i].written = 0
          /\ slots'[i].snap = slots[i].snap /\ \A j \in Slots : j # i => slots'[j] = slots[j]
      BY <1>0, <2>1, <2>2 DEF SharedClientSlot, SlotKept
    <2>4. call'[c] = "idle" /\ ~connected'[c]
      BY <2>1 DEF CallsRun
    <2>5. submitted'[c] = 0 /\ phase'[c] = "descriptors" /\ slotOf'[c] = i
      BY <1>0, <2>0, <2>1
    <2>6. SlotOrder(i)'
      <3>1. Served(i) => Served(i)'
        BY <1>1, <2>3 DEF Served, At
      <3> QED BY <1>1, <2>2, <2>3, <3>1, SlotFrame DEF OrderInv, SlotOrder, At, SlotKept
    <2>7. ClientOrder(c)'
      BY <2>3, <2>4, <2>5 DEF ClientOrder, Slot
    <2> QED BY <1>0, <1>1, <2>1, <2>2, <2>3, <2>6, <2>7, OrderClient DEF Live
  <1>4. CASE Stop(c)
    <2>0. PICK i \in Slots : i = slotOf[c]
      BY <1>4, HasSlot DEF IpcInv, Stop
    <2>1. /\ place[c] = "running" /\ place' = [place EXCEPT ![c] = "off"]
          /\ slots' = [slots EXCEPT ![i] = FreeSlot]
          /\ connected' = [connected EXCEPT ![c] = FALSE]
          /\ submitted' = [submitted EXCEPT ![c] = 0] /\ slotOf' = [slotOf EXCEPT ![c] = NoSlot]
          /\ UNCHANGED <<call, phase>>
      BY <1>4, <2>0 DEF Stop, publishing
    <2>2. i \in Slots /\ \A d \in Clients : d # c /\ Live(d) => slotOf[d] # i
      BY <2>0, <2>1, OwnSlot DEF Live
    <2>3. /\ slots'[i] = FreeSlot /\ \A j \in Slots : j # i => slots'[j] = slots[j]
      BY <1>0, <2>1, <2>2
    <2>4. SlotOrder(i)'
      BY <1>0, <2>3 DEF SlotOrder, FreeSlot
    <2>5. ClientOrder(c)'
      BY <1>0, <2>1 DEF ClientOrder
    <2>6. \A d \in Clients : d # c =>
            UNCHANGED <<place[d], connected[d], call[d], phase[d], submitted[d], slotOf[d]>>
      BY <1>0, <2>1
    <2> QED BY <1>1, <2>2, <2>3, <2>4, <2>5, <2>6, OrderClient DEF Live
  <1>5. CASE Crash(c)
    <2>1. /\ place' = [place EXCEPT ![c] = "dead"]
          /\ connected' = [connected EXCEPT ![c] = FALSE] /\ call' = [call EXCEPT ![c] = "idle"]
          /\ UNCHANGED <<slots, phase, submitted, slotOf>>
      BY <1>5 DEF Crash, shared
    <2>2. ClientOrder(c)'
      BY <1>0, <2>1 DEF ClientOrder
    <2>3. \A d \in Clients : d # c =>
            UNCHANGED <<place[d], connected[d], call[d], phase[d], submitted[d], slotOf[d]>>
      BY <1>0, <2>1
    <2>4. NoSlot \notin Slots /\ \A d \in Clients : place[d] = "running" => slotOf[d] # NoSlot
      <3>1. NoSlot \notin Slots
        BY Bounds DEF NoSlot, Slots
      <3> QED BY <3>1, HasSlot DEF IpcInv
    <2> QED BY <1>1, <2>1, <2>2, <2>3, <2>4, OrderClient
  <1> QED BY <1>2, <1>3, <1>4, <1>5

\* A worker that takes the begin of a snapshot has written nothing into its slot.
LEMMA OrderTake ==
    ASSUME IpcInv, Solo, OrderInv, NEW c \in Clients, TakeMessage(c)
    PROVE  OrderInv'
  <1>a. PICK i \in Slots : i = slotOf[c]
    BY HasSlot DEF IpcInv, TakeMessage, Running
  <1> DEFINE q == slots[i].inbox
             m == Head(q)
  <1>0. /\ slots \in [Slots -> SharedClientSlot]
        /\ connected \in [Clients -> BOOLEAN] /\ submitted \in [Clients -> Nat]
        /\ phase \in [Clients -> {"descriptors", "state", "live"}]
    BY DEF IpcInv, SlotsType, ClientType
  <1>1. /\ place[c] = "running" /\ q # <<>>
        /\ phase' = [phase EXCEPT ![c] = PhaseAfter(m.kind, phase[c])]
        /\ IF m.kind = "snapshot begin"
           THEN /\ submitted' = [submitted EXCEPT ![c] = 0]
                /\ connected' = [connected EXCEPT ![c] = FALSE]
           ELSE UNCHANGED <<submitted, connected>>
        /\ slots' = [slots EXCEPT ![i] = [slots[i] EXCEPT !.inbox = Tail(q)]]
        /\ UNCHANGED <<scan, serverFresh, queues, place, call, slotOf>>
    BY <1>a DEF TakeMessage, Running, Slot, core, server, publishing
  <1>2. /\ i \in Slots /\ Slot(c) = slots[i] /\ slots[i] \in SharedClientSlot
        /\ \A d \in Clients : d # c /\ place[d] = "running" => slotOf[d] # i
    BY <1>a, <1>1, OwnSlot DEF Live
  <1>3. /\ q \in Seq(Messages) /\ slots[i].written \in Nat /\ m \in Messages
    BY <1>1, <1>2, SlotFields, HeadTailProperties
  <1>4. /\ slots'[i].inbox = Tail(q) /\ slots'[i].written = slots[i].written
        /\ slots'[i].acked = slots[i].acked
        /\ slots'[i].mail = slots[i].mail /\ slots'[i].snap = slots[i].snap
        /\ \A j \in Slots : j # i => slots'[j] = slots[j]
    BY <1>0, <1>1, <1>2 DEF SharedClientSlot
  <1>5. /\ Begins(Tail(q)) => Begins(q)
        /\ Lives(Tail(q)) => Lives(q)
        /\ Ordered(Tail(q))
        /\ m.kind = "live begin" => ~Begins(Tail(q)) /\ Lives(q)
        /\ m.kind = "snapshot begin" => Begins(q)
    <2>1. Ordered(q)
      BY <1>2 DEF OrderInv, SlotOrder
    <2> QED BY <1>1, <1>3, <2>1, MarkersTaken
  <1>6. /\ SlotOrder(i)
        /\ connected[c] \/ call[c] # "idle" => slots[i].snap = 1 /\ ~Begins(q)
        /\ phase[c] = "live" => Served(i) /\ ~Begins(q)
        /\ submitted[c] = slots[i].written
        /\ call[c] \in {"write", "submit"} => slots[i].acked >= slots[i].written
    <2>1. SlotOrder(i) /\ ClientOrder(c) /\ Slot(c) = slots[i]
      BY <1>2 DEF OrderInv
    <2> QED BY <1>a, <1>1, <2>1 DEF ClientOrder
  <1> HIDE DEF m, q
  <1>7. /\ Served(i) => Served(i)'
        /\ SlotOrder(i)'
    <2>1. Served(i) => Served(i)'
      BY <1>1, <1>4 DEF Served, At
    <2>2. SlotOrder(i)'
      BY <1>1, <1>4, <1>5, <1>6, <2>1 DEF SlotOrder, At, q
    <2> QED BY <2>1, <2>2
  <1>8. /\ phase'[c] = PhaseAfter(m.kind, phase[c])
        /\ m.kind = "snapshot begin" => submitted'[c] = 0 /\ ~connected'[c]
        /\ m.kind # "snapshot begin" => submitted'[c] = submitted[c] /\ connected'[c] = connected[c]
    <2>1. [connected EXCEPT ![c] = FALSE][c] = FALSE
      BY <1>0
    <2> QED BY <1>0, <1>1, <2>1
  <1>9. m.kind = "snapshot begin" => slots[i].written = 0 /\ call[c] = "idle"
    <2>1. SlotOrder(i) /\ slots[i].written \in Nat
      BY <1>3, <1>6
    <2>2. Begins(q) => slots[i].written = 0
      BY <2>1 DEF SlotOrder, q
    <2>3. Begins(q) => call[c] = "idle"
      BY <1>6
    <2> QED BY <1>5, <2>2, <2>3
  <1>10. phase'[c] = "live" => Served(i) /\ ~Begins(Tail(q))
    <2>1. m.kind \in {"snapshot begin", "state begin", "live begin", "update", "reject"}
      BY <1>3 DEF Messages
    <2>2. phase'[c] = "live" => m.kind = "live begin" \/ phase[c] = "live"
      BY <1>8, <2>1 DEF PhaseAfter
    <2>3. Lives(q) => Served(i)
      BY <1>6 DEF SlotOrder, q
    <2> QED BY <1>5, <1>6, <2>2, <2>3 DEF q
  <1>11. ClientOrder(c)'
    <2>1. slotOf'[c] = i /\ call'[c] = call[c]
      BY <1>a, <1>1
    <2>2. phase'[c] = "live" => Served(slotOf[c])'
      BY <1>7, <1>10, <2>1 DEF Served, At
    <2> QED BY <1>4, <1>5, <1>6, <1>8, <1>9, <1>10, <2>1, <2>2 DEF ClientOrder, Slot, q
  <1>12. \A d \in Clients : d # c =>
            UNCHANGED <<place[d], connected[d], call[d], phase[d], submitted[d], slotOf[d]>>
    BY <1>0, <1>1
  <1> QED BY <1>1, <1>2, <1>4, <1>7, <1>11, <1>12, OrderClient

\* The heartbeat is recent, and a client gets connected behind its snapshot.
LEMMA OrderTurn ==
    ASSUME IpcInv, Solo, OrderInv, session = 1, NEW c \in Clients,
           LookAtHeartbeat(c) \/ MaybePublishConnected(c)
    PROVE  OrderInv'
  <1>0. PICK i \in Slots : i = slotOf[c]
    BY HasSlot DEF IpcInv, LookAtHeartbeat, MaybePublishConnected, Running
  <1>1. /\ place[c] = "running"
        /\ UNCHANGED <<scan, serverFresh, queues, slots, place, slotOf, phase, submitted, call>>
        /\ UNCHANGED connected \/ (MaybePublishConnected(c) /\ connected' = [connected EXCEPT ![c] = TRUE])
    BY DEF LookAtHeartbeat, MaybePublishConnected, Running, core, server, shared, publishing,
           OrderInv, ServerOrder
  <1>2. /\ SlotOrder(i) /\ ClientOrder(c) /\ Slot(c) = slots[i]
        /\ \A d \in Clients : d # c /\ place[d] = "running" => slotOf[d] # i
    BY <1>0, <1>1, OwnSlot DEF Live, OrderInv
  <1>3. SlotOrder(i)'
    BY <1>1, <1>2 DEF SlotOrder, Served, At
  <1>4. ClientOrder(c)'
    <2>1. CASE UNCHANGED connected
      BY <1>1, <1>2, <2>1 DEF ClientOrder, Served, At, Slot
    <2>2. CASE MaybePublishConnected(c)
      <3>1. slots[i].snap = 1 /\ phase[c] = "live"
        BY <1>2, <2>2 DEF MaybePublishConnected
      <3>2. ~Begins(slots[i].inbox) /\ Served(slotOf[c])
        BY <1>1, <1>2, <3>1 DEF ClientOrder
      <3>3. slotOf'[c] = i /\ Served(slotOf[c])'
        BY <1>0, <1>1, <3>2 DEF Served, At
      <3> QED BY <1>0, <1>1, <1>2, <3>1, <3>2, <3>3 DEF ClientOrder, Slot
    <2> QED BY <1>1, <2>1, <2>2
  <1>5. \A d \in Clients : d # c =>
            UNCHANGED <<place[d], connected[d], call[d], phase[d], submitted[d], slotOf[d]>>
    BY <1>1 DEF IpcInv, ClientType
  <1> QED BY <1>1, <1>2, <1>3, <1>4, <1>5, OrderClient

\* A call writes into a slot that has its snapshot, and knows the number written last.
LEMMA OrderCall ==
    ASSUME IpcInv, Solo, \A d \in Clients : AckSound(d), OrderInv, NEW c \in Clients,
           PublishCall(c) \/ WaitAcked(c) \/ GiveUp(c) \/ WriteMail(c) \/ Submit(c)
    PROVE  OrderInv'
  <1>0. PICK i \in Slots : i = slotOf[c]
    BY HasSlot DEF IpcInv, PublishCall, WaitAcked, GiveUp, WriteMail, Submit, Running
  <1>1. /\ place[c] = "running"
        /\ UNCHANGED <<scan, serverFresh, queues, place, slotOf, phase, connected>>
        /\ connected[c] \/ call[c] # "idle"
        /\ slots \in [Slots -> SharedClientSlot] /\ slots[i] \in SharedClientSlot
        /\ call \in [Clients -> {"idle", "wait", "write", "submit"}]
        /\ submitted \in [Clients -> Nat] /\ scan \in ScanType
    BY DEF PublishCall, WaitAcked, GiveUp, WriteMail, Submit, Running, core, server, shared, loop,
           IpcInv, SlotsType, ClientType, ServerType
  <1>2. /\ SlotOrder(i) /\ ClientOrder(c) /\ Slot(c) = slots[i] /\ VisitSound(c)
        /\ slots[i].acked \in Nat /\ slots[i].written \in Nat
        /\ \A d \in Clients : d # c /\ place[d] = "running" => slotOf[d] # i
    BY <1>0, <1>1, OwnSlot DEF Live, OrderInv, AckSound
  <1>3. /\ slots[i].snap = 1 /\ ~Begins(slots[i].inbox) /\ submitted[c] = slots[i].written
        /\ phase[c] = "live" => Served(slotOf[c])
        /\ call[c] \in {"write", "submit"} => slots[i].acked >= slots[i].written
    BY <1>1, <1>2 DEF ClientOrder
  <1>4. PICK w \in Nat :
          /\ \A j \in Slots : j # i => slots'[j] = slots[j]
          /\ slots'[i].snap = 1 /\ slots'[i].inbox = slots[i].inbox
          /\ slots'[i].acked = slots[i].acked /\ slots'[i].written = w
          /\ submitted' = [submitted EXCEPT ![c] = w]
          /\ w = slots[i].written \/ Submit(c)
    <2>1. CASE Submit(c)
      <3> DEFINE n == (IF slots[i].written > slots[i].acked THEN slots[i].written
                       ELSE slots[i].acked) + 1
      <3>1. /\ slots' = [slots EXCEPT ![i].written = n]
            /\ submitted' = [submitted EXCEPT ![c] = n]
        BY <1>0, <1>2, <2>1 DEF Submit
      <3>2. n \in Nat
        BY <1>2
      <3> HIDE DEF n
      <3>3. /\ \A j \in Slots : j # i => slots'[j] = slots[j]
            /\ slots'[i].snap = 1 /\ slots'[i].inbox = slots[i].inbox
            /\ slots'[i].acked = slots[i].acked /\ slots'[i].written = n
        BY <1>1, <1>3, <3>1 DEF SharedClientSlot
      <3> QED BY <2>1, <3>1, <3>2, <3>3
    <2>2. CASE ~Submit(c)
      <3>1. slots' = slots \/ slots' = [slots EXCEPT ![i].mail = value[c]]
        BY <1>0, <2>2 DEF PublishCall, WaitAcked, GiveUp, WriteMail, shared
      <3>2. submitted' = submitted
        BY <2>2 DEF PublishCall, WaitAcked, GiveUp, WriteMail, loop
      <3>3. submitted' = [submitted EXCEPT ![c] = slots[i].written]
        BY <1>1, <1>3, <3>2
      <3>4. /\ \A j \in Slots : j # i => slots'[j] = slots[j]
            /\ slots'[i].snap = 1 /\ slots'[i].inbox = slots[i].inbox
            /\ slots'[i].acked = slots[i].acked /\ slots'[i].written = slots[i].written
        BY <1>1, <1>3, <3>1 DEF SharedClientSlot
      <3> QED BY <1>2, <3>3, <3>4
    <2> QED BY <2>1, <2>2
  <1>5. SlotOrder(i)'
    <2>1. ASSUME At(i, "handle") \/ At(i, "ack") PROVE scan.loaded = w
      <3>1. ~Submit(c)
        <4>1. CASE Submit(c)
          <5>1. slots[i].acked >= slots[i].written /\ call[c] = "submit"
            BY <1>3, <4>1 DEF Submit
          <5>2. slots[i].acked < scan.loaded /\ scan.loaded <= slots[i].written
            BY <1>0, <1>2, <2>1, <5>1 DEF VisitSound, Past, At
          <5> QED BY <1>1, <1>2, <5>1, <5>2 DEF ScanType
        <4> QED BY <4>1
      <3> QED BY <1>2, <1>3, <1>4, <2>1, <3>1 DEF SlotOrder
    <2>2. At(i, "push") => slots[i].snap # 1
      BY <1>2 DEF SlotOrder
    <2>3. Ordered(slots[i].inbox)
      BY <1>2 DEF SlotOrder
    <2> QED BY <1>1, <1>3, <1>4, <2>1, <2>2, <2>3 DEF SlotOrder, Served, At
  <1>6. ClientOrder(c)'
    <2>1. slotOf'[c] = i /\ submitted'[c] = w /\ phase' = phase
      BY <1>0, <1>1, <1>4
    <2>2. call'[c] \in {"write", "submit"} => slots'[i].acked >= slots'[i].written
      <3>1. CASE PublishCall(c)
        <4>1. call'[c] = (IF submitted[c] # 0 THEN "wait" ELSE "write") /\ ~Submit(c)
          BY <1>1, <3>1 DEF PublishCall, Submit
        <4> QED BY <1>2, <1>3, <1>4, <4>1
      <3>2. CASE WaitAcked(c)
        BY <1>1, <1>2, <1>3, <1>4, <3>2 DEF WaitAcked, Submit
      <3>3. CASE WriteMail(c)
        BY <1>1, <1>2, <1>3, <1>4, <3>3 DEF WriteMail, Submit
      <3>4. CASE GiveUp(c) \/ Submit(c)
        BY <1>1, <3>4 DEF GiveUp, Submit
      <3> QED BY <3>1, <3>2, <3>3, <3>4
    <2>3. phase'[c] = "live" => Served(slotOf[c])'
      BY <1>0, <1>1, <1>4 DEF Served
    <2> QED BY <1>3, <1>4, <2>1, <2>2, <2>3 DEF ClientOrder, Slot
  <1>7. \A d \in Clients : d # c =>
            UNCHANGED <<place[d], connected[d], call[d], phase[d], submitted[d], slotOf[d]>>
    <2>1. \A d \in Clients : d # c => call'[d] = call[d]
      BY <1>1 DEF PublishCall, WaitAcked, GiveUp, WriteMail, Submit
    <2> QED BY <1>1, <1>4, <2>1
  <1> QED BY <1>1, <1>2, <1>4, <1>5, <1>6, <1>7, OrderClient

\* Processes, pauses, stale heartbeats and sessions only become more.
LEMMA CalmBefore ==
    ASSUME IpcInv, quiet \in Nat, [Next]_vars, Calm'
    PROVE  /\ Calm /\ Solo /\ session = 1
           /\ ~ServerStart /\ ~RestartSession /\ ~ServerGoesQuiet
           /\ \A i \in Slots : ~TimeOutPaused(i)
  <1>1. boots = 1 /\ pauses = 0 /\ boots' = 1 /\ pauses' = 0
    BY SoloBefore DEF Calm, Solo
  <1>2. ~ServerStart /\ \A i \in Slots : ~TimeOutPaused(i)
    BY SoloSteps DEF Calm, Solo
  <1>3. ~ServerGoesQuiet /\ ~RestartSession
    <2>1. session \in Nat \ {0}
      BY Bounds DEF IpcInv, ServerType
    <2>2. ServerGoesQuiet => quiet' = quiet + 1
      BY DEF ServerGoesQuiet
    <2>3. RestartSession => session' = session + 1
      BY DEF RestartSession
    <2> QED BY <2>1, <2>2, <2>3 DEF Calm
  <1>4. quiet' = quiet /\ session' = session
    BY <1>2, <1>3, Troubles
  <1> QED BY <1>1, <1>2, <1>3, <1>4 DEF Calm, Solo

\* Markers, slots and clients stay in order.
LEMMA OrderInductive ==
    ASSUME IpcInv, AckInv, quiet \in Nat, Calm => OrderInv, [Next]_vars, Calm'
    PROVE  OrderInv'
  <1>1. /\ Solo /\ CallsRun /\ session = 1 /\ OrderInv /\ \A c \in Clients : AckSound(c)
        /\ ~ServerStart /\ ~RestartSession /\ ~ServerGoesQuiet
        /\ \A i \in Slots : ~TimeOutPaused(i)
    BY CalmBefore DEF AckInv
  <1>2. 1 \in Slots
    BY Bounds DEF Slots
  <1>3. CASE ServerStep
    <2>1. CASE ServerBeat
      BY <1>1, <1>2, <2>1, OrderScan
    <2>2. ASSUME NEW i \in Slots,
                 \/ SkipSlot(i) \/ PublishSnapshot(i) \/ SnapshotAlreadyComplete(i)
                 \/ LoadWriteSequence(i)
          PROVE  OrderInv'
      BY <1>1, <2>2, OrderScan
    <2>3. ASSUME NEW i \in Slots,
                 \/ TimeOut(i) \/ PushSnapshot(i) \/ MarkSnapshotComplete(i)
                 \/ HandleClientWrite(i) \/ Acknowledge(i)
          PROVE  OrderInv'
      BY <1>1, <2>3, OrderTimeOut, OrderPush, OrderMark, OrderHandle, OrderAcknowledge
    <2> QED BY <1>1, <1>3, <2>1, <2>2, <2>3 DEF ServerStep, ScanClients
  <1>4. CASE PublishFromServer
    BY <1>1, <1>4, OrderFromServer
  <1>5. ASSUME NEW c \in Clients, Claim(c) \/ Advertise(c) \/ Stop(c) \/ Crash(c)
        PROVE  OrderInv'
    BY <1>1, <1>5, OrderLife
  <1>6. ASSUME NEW c \in Clients, LookAtHeartbeat(c) \/ MaybePublishConnected(c) PROVE OrderInv'
    BY <1>1, <1>6, OrderTurn
  <1>7. ASSUME NEW c \in Clients, TakeMessage(c) PROVE OrderInv'
    BY <1>1, <1>7, OrderTake
  <1>8. ASSUME NEW c \in Clients, PublishCall(c) \/ PublishStep(c) \/ GiveUp(c) PROVE OrderInv'
    BY <1>1, <1>8, OrderCall DEF PublishStep
  <1>9. CASE UNCHANGED vars
    <2>1. UNCHANGED <<scan, serverFresh, queues, slots, place, connected, call, phase, submitted,
                      slotOf>>
      BY <1>9 DEF vars, core, server, shared, client, loop, publishing
    <2>2. ServerOrder'
      BY <1>1, <2>1 DEF OrderInv, ServerOrder
    <2>3. \A i \in Slots : SlotOrder(i)'
      BY <1>1, <2>1 DEF OrderInv, SlotOrder, Served, At
    <2>4. \A c \in Clients : ClientOrder(c)'
      BY <1>1, <2>1 DEF OrderInv, ClientOrder, Served, At, Slot
    <2> QED BY <2>2, <2>3, <2>4 DEF OrderInv
  <1> QED BY <1>1, <1>3, <1>4, <1>5, <1>6, <1>7, <1>8, <1>9 DEF Next

\* No two entries of what was taken are the same.
Distinct == \A m, n \in DOMAIN handled : m < n => handled[m] # handled[n]

\* The numbers the values are.
LEMMA ValueTypes ==
    ASSUME IpcInv
    PROVE  /\ issued \in Nat /\ \A c \in Clients : value[c] \in Nat
           /\ \A i \in Slots : slots[i].mail \in Nat /\ slots[i].written \in Nat
                               /\ processed[i] \in Nat /\ slots[i] \in SharedClientSlot
           /\ slots \in [Slots -> SharedClientSlot]
           /\ scan \in ScanType /\ \A v : Taken(v) => v \in Nat
  <1>1. \A n \in 0 .. MaxWrites : n \in Nat
    BY Bounds
  <1>2. issued \in Nat /\ (\A c \in Clients : value[c] \in Nat) /\ scan \in ScanType
        /\ slots \in [Slots -> SharedClientSlot] /\ processed \in [Slots -> Nat]
    BY <1>1 DEF IpcInv, ServerType, ClientType, SlotsType
  <1>3. \A i \in Slots : slots[i].mail \in Nat /\ slots[i].written \in Nat
                         /\ slots[i] \in SharedClientSlot
    BY <1>1, <1>2, SlotFields
  <1>4. ASSUME NEW v, Taken(v) PROVE v \in Nat
    <2>1. handled \in Seq(1 .. MaxWrites)
      BY DEF IpcInv, ServerType
    <2>2. PICK n \in DOMAIN handled : handled[n] = v
      BY <1>4 DEF Taken
    <2>3. handled[n] \in 1 .. MaxWrites
      BY <2>1, <2>2, ElementOfSeq, LenProperties
    <2> QED BY <2>2, <2>3, Bounds
  <1> QED BY <1>2, <1>3, <1>4

\* A step that takes nothing, begins no call, puts no mail and makes no mail wait.
LEMMA FreshFrame ==
    ASSUME IpcInv, CallsRun, FreshInv, UNCHANGED <<handled, value>>,
           issued' \in {issued, issued + 1},
           \A i \in Slots : slots'[i].mail \in {slots[i].mail, NoValue},
           \A i \in Slots : slots'[i].mail # NoValue /\ Pending(i)' => Pending(i),
           \A c \in Clients : call'[c] # "idle" =>
               /\ call[c] # "idle" /\ slotOf'[c] = slotOf[c]
               /\ call[c] = "submit" => call'[c] = "submit"
    PROVE  FreshInv'
  <1>1. \A v : Taken(v)' <=> Taken(v)
    BY DEF Taken
  <1>2. Numbered'
    BY <1>1, ValueTypes DEF FreshInv, Numbered, NoValue
  <1>3. MailFresh'
    <2>1. ASSUME NEW i \in Slots, Pending(i)', slots'[i].mail # NoValue
          PROVE  ~Taken(slots[i].mail) /\ slots'[i].mail = slots[i].mail
      BY <2>1 DEF FreshInv, MailFresh
    <2>2. \A i, j \in Slots : i # j /\ slots'[i].mail # NoValue => slots'[i].mail # slots'[j].mail
      BY DEF FreshInv, MailFresh
    <2> QED BY <2>1, <2>2 DEF MailFresh, Taken
  <1>4. ASSUME NEW c \in Clients, call'[c] # "idle"
        PROVE  CallFresh(c)'
    <2>1. call[c] # "idle" /\ slotOf'[c] = slotOf[c] /\ (call[c] = "submit" => call'[c] = "submit")
          /\ value[c] # NoValue /\ CallFresh(c)
      BY <1>4 DEF FreshInv, CallsRun
    <2>2. ~Taken(value[c])'
      BY <2>1 DEF CallFresh, Taken
    <2>3. \A i \in Slots : slots'[i].mail = value[c] => call'[c] = "submit" /\ i = slotOf[c]
      BY <2>1 DEF CallFresh
    <2>4. \A d \in Clients : d # c /\ call'[d] # "idle" => value[d] # value[c]
      BY <2>1 DEF CallFresh
    <2> QED BY <2>1, <2>2, <2>3, <2>4 DEF CallFresh
  <1> QED BY <1>2, <1>3, <1>4 DEF FreshInv, CallFresh

\* The server's steps that take no write.
LEMMA FreshServer ==
    ASSUME IpcInv, CallsRun, OrderInv, FreshInv, NEW i \in Slots,
           \/ PublishFromServer \/ ServerBeat \/ SkipSlot(i) \/ TimeOut(i) \/ PublishSnapshot(i)
           \/ PushSnapshot(i) \/ MarkSnapshotComplete(i) \/ SnapshotAlreadyComplete(i)
           \/ LoadWriteSequence(i) \/ Acknowledge(i)
    PROVE  FreshInv'
  <1>0. /\ slots \in [Slots -> SharedClientSlot] /\ scan \in ScanType
        /\ \A j \in Slots : /\ slots[j] \in SharedClientSlot /\ slots[j].written \in Nat
                            /\ processed[j] \in Nat
    BY ValueTypes
  <1>1. UNCHANGED <<handled, value, call, slotOf>> /\ issued' \in {issued, issued + 1}
    BY DEF PublishFromServer, ServerBeat, SkipSlot, TimeOut, ClearSlot, PublishSnapshot,
           PushSnapshot, MarkSnapshotComplete, SnapshotAlreadyComplete, LoadWriteSequence,
           Acknowledge, client, publishing, history, bounds
  <1>2. \A j \in Slots : \/ slots'[j].mail = NoValue
                         \/ slots'[j].mail = slots[j].mail /\ slots'[j].written = slots[j].written
    <2>1. CASE PublishFromServer
      <3>1. Update(nextSeq, issued + 1) \in Messages
        <4>1. nextSeq \in Nat /\ issued + 1 \in 0 .. MaxWrites
          BY <2>1, Bounds DEF IpcInv, ServerType, PublishFromServer
        <4> QED BY <4>1, MessageTypes
      <3> QED BY <1>0, <2>1, <3>1, PushKeepsFields DEF PublishFromServer, FieldsKept
    <2>2. CASE PushSnapshot(i)
      <3> DEFINE q == <<Head(scan.rest)>>
      <3>1. q \in Seq(Messages)
        <4>1. Head(scan.rest) \in Messages
          BY <1>0, <2>2, HeadTailProperties DEF PushSnapshot, ScanType
        <4> QED BY <4>1, ShortSequences
      <3>2. slots' = PublishEnvelopeToClientSlot(slots, i, q)
        BY <2>2 DEF PushSnapshot
      <3> HIDE DEF q
      <3>3. \A j \in Slots : FieldsKept(slots[j], slots'[j])
        BY <1>0, <3>1, <3>2, PushKeepsFields
      <3> QED BY <3>3 DEF FieldsKept
    <2>3. CASE TimeOut(i)
      BY <1>0, <2>3 DEF TimeOut, ClearSlot, FreeSlot
    <2>4. CASE MarkSnapshotComplete(i)
      BY <1>0, <2>4 DEF MarkSnapshotComplete, SharedClientSlot
    <2>5. CASE Acknowledge(i)
      BY <1>0, <2>5 DEF Acknowledge, SharedClientSlot
    <2>6. CASE ServerBeat \/ SkipSlot(i) \/ PublishSnapshot(i) \/ SnapshotAlreadyComplete(i)
               \/ LoadWriteSequence(i)
      BY <2>6 DEF ServerBeat, SkipSlot, PublishSnapshot, SnapshotAlreadyComplete,
              LoadWriteSequence, shared
    <2> QED BY <2>1, <2>2, <2>3, <2>4, <2>5, <2>6
  <1>3. ASSUME NEW j \in Slots, slots'[j].mail # NoValue, Pending(j)'
        PROVE  Pending(j)
    <2>1. slots'[j].mail = slots[j].mail /\ slots'[j].written = slots[j].written
      BY <1>2, <1>3
    <2>2. CASE Acknowledge(i)
      <3>1. /\ At(i, "ack") /\ processed' = [processed EXCEPT ![i] = scan.loaded]
            /\ ~At(j, "handle")'
        <4>1. NextSlot => scan'.step = "check"
          BY DEF NextSlot, Idle
        <4> QED BY <2>2, <4>1 DEF Acknowledge, At
      <3>2. slots'[j].written > processed'[j]
        BY <1>3, <3>1 DEF Pending
      <3>3. CASE j = i
        <4>1. processed'[i] = scan.loaded
          BY <3>1 DEF IpcInv, ServerType
        <4>2. slots[i].snap # 1
          <5>1. SlotOrder(i)
            BY DEF OrderInv
          <5>2. slots[i].snap = 1 => scan.loaded = slots[i].written
            BY <3>1, <5>1 DEF SlotOrder
          <5> QED BY <1>0, <2>1, <3>2, <3>3, <4>1, <5>2
        <4>3. slots[i].mail = NoValue
          BY <4>2 DEF OrderInv, SlotOrder
        <4> QED BY <1>3, <2>1, <3>3, <4>3
      <3>4. CASE j # i
        <4>1. processed'[j] = processed[j] /\ ~At(j, "ack")
          BY <3>1, <3>4 DEF IpcInv, ServerType, At
        <4> QED BY <2>1, <3>2, <4>1 DEF Pending
      <3> QED BY <3>3, <3>4
    <2>3. CASE LoadWriteSequence(i)
      <3>1. /\ processed' = processed /\ ~At(j, "ack") /\ At(i, "load")
            /\ IF slots[i].written > processed[i]
               THEN scan' = [scan EXCEPT !.step = "handle", !.loaded = slots[i].written]
               ELSE NextSlot
        BY <2>3 DEF LoadWriteSequence, At
      <3>2. CASE At(j, "handle")'
        <4>1. slots[i].written > processed[i]
          BY <3>1, <3>2 DEF NextSlot, Idle, At
        <4>2. scan'.slot = scan.slot
          BY <1>0, <3>1, <4>1 DEF ScanType
        <4> QED BY <3>1, <3>2, <4>1, <4>2 DEF At, Pending
      <3>3. CASE ~At(j, "handle")'
        BY <1>3, <2>1, <3>1, <3>3 DEF Pending
      <3> QED BY <3>2, <3>3
    <2>4. CASE ~Acknowledge(i) /\ ~LoadWriteSequence(i)
      <3>1. processed' = processed
        BY <2>4 DEF PublishFromServer, ServerBeat, SkipSlot, TimeOut, ClearSlot, PublishSnapshot,
             PushSnapshot, MarkSnapshotComplete, SnapshotAlreadyComplete, server
      <3>2. ~At(j, "ack")
        BY <2>4, Bounds DEF PublishFromServer, ServerBeat, SkipSlot, TimeOut, ClearSlot,
             PublishSnapshot, PushSnapshot, MarkSnapshotComplete, SnapshotAlreadyComplete, At,
             Scanning, NoSlot, Slots
      <3>3. ~At(j, "handle")'
        <4>1. NextSlot => scan'.step = "check"
          BY DEF NextSlot, Idle
        <4>2. CASE PublishFromServer
          BY <4>2, Bounds DEF PublishFromServer, Scanning, server, At, NoSlot, Slots
        <4>3. CASE ServerBeat \/ SkipSlot(i) \/ TimeOut(i)
          BY <4>1, <4>3 DEF ServerBeat, SkipSlot, TimeOut, ClearSlot, At, Idle
        <4>4. CASE PublishSnapshot(i)
          BY <1>0, <4>4 DEF PublishSnapshot, At, ScanType
        <4>5. CASE PushSnapshot(i)
          <5>1. At(i, "push") /\ scan' = [scan EXCEPT !.rest = Tail(scan.rest)]
            BY <4>5 DEF PushSnapshot
          <5> QED BY <1>0, <5>1 DEF At, ScanType
        <4>6. CASE MarkSnapshotComplete(i) \/ SnapshotAlreadyComplete(i)
          BY <1>0, <4>6 DEF MarkSnapshotComplete, SnapshotAlreadyComplete, Goto, At, ScanType
        <4> QED BY <2>4, <4>2, <4>3, <4>4, <4>5, <4>6
      <3> QED BY <1>3, <2>1, <3>1, <3>2, <3>3 DEF Pending
    <2> QED BY <2>2, <2>3, <2>4
  <1> QED BY <1>1, <1>2, <1>3, FreshFrame

\* The clients' steps that begin no call and put no mail.
LEMMA FreshClient ==
    ASSUME IpcInv, CallsRun, FreshInv, NEW c \in Clients,
           \/ Claim(c) \/ Advertise(c) \/ Stop(c) \/ Crash(c)
           \/ LookAtHeartbeat(c) \/ TakeMessage(c) \/ MaybePublishConnected(c)
           \/ WaitAcked(c) \/ GiveUp(c)
    PROVE  FreshInv'
  <1>0. /\ slots \in [Slots -> SharedClientSlot]
        /\ \A j \in Slots : slots[j] \in SharedClientSlot
        /\ call \in [Clients -> {"idle", "wait", "write", "submit"}]
        /\ slotOf \in [Clients -> 0 .. SlotCount]
    BY ValueTypes DEF IpcInv, ClientType
  <1>1. UNCHANGED <<handled, value, scan, processed, issued>>
    BY DEF Claim, Advertise, Stop, Crash, LookAtHeartbeat, TakeMessage, MaybePublishConnected,
           WaitAcked, GiveUp, server, publishing, history, bounds
  <1>2. \A j \in Slots : \/ slots'[j].mail = NoValue
                         \/ slots'[j].mail = slots[j].mail /\ slots'[j].written = slots[j].written
    <2>1. CASE Claim(c)
      BY <1>0, <2>1 DEF Claim, FreeSlot
    <2>2. CASE Stop(c)
      BY <1>0, <2>2 DEF Stop, FreeSlot
    <2>3. CASE Advertise(c)
      BY <1>0, <2>3 DEF Advertise, SharedClientSlot
    <2>4. CASE TakeMessage(c)
      <3> DEFINE q == Tail(Slot(c).inbox)
      <3>1. slots' = [slots EXCEPT ![slotOf[c]].inbox = q]
        BY <2>4 DEF TakeMessage, Slot
      <3> HIDE DEF q
      <3> QED BY <1>0, <3>1 DEF SharedClientSlot
    <2>5. CASE Crash(c) \/ LookAtHeartbeat(c) \/ MaybePublishConnected(c) \/ WaitAcked(c) \/ GiveUp(c)
      BY <2>5 DEF Crash, LookAtHeartbeat, MaybePublishConnected, WaitAcked, GiveUp, shared
    <2> QED BY <2>1, <2>2, <2>3, <2>4, <2>5
  <1>3. \A j \in Slots : slots'[j].mail # NoValue /\ Pending(j)' => Pending(j)
    BY <1>1, <1>2 DEF Pending, At
  <1>4. ASSUME NEW d \in Clients, call'[d] # "idle"
        PROVE  /\ call[d] # "idle" /\ slotOf'[d] = slotOf[d]
               /\ call[d] = "submit" => call'[d] = "submit"
    <2>1. CASE Claim(c) \/ Stop(c)
      <3>1. /\ call' = call /\ place[c] \in {"off", "running"}
            /\ place[c] = "running" => call[c] = "idle"
            /\ \A e \in Clients \ {c} : slotOf'[e] = slotOf[e]
        BY <1>0, <2>1 DEF Claim, Stop, publishing
      <3>2. call[c] = "idle"
        BY <3>1 DEF CallsRun
      <3> QED BY <1>4, <3>1, <3>2
    <2>2. CASE Crash(c)
      BY <1>0, <1>4, <2>2 DEF Crash
    <2>3. CASE WaitAcked(c) \/ GiveUp(c)
      BY <1>0, <1>4, <2>3 DEF WaitAcked, GiveUp
    <2>4. CASE Advertise(c) \/ LookAtHeartbeat(c) \/ TakeMessage(c) \/ MaybePublishConnected(c)
      BY <1>4, <2>4 DEF Advertise, LookAtHeartbeat, TakeMessage, MaybePublishConnected, publishing
    <2> QED BY <2>1, <2>2, <2>3, <2>4
  <1> QED BY <1>1, <1>2, <1>3, <1>4, FreshFrame

\* A call takes a number of its own.
LEMMA FreshCall ==
    ASSUME IpcInv, FreshInv, NEW c \in Clients, PublishCall(c)
    PROVE  FreshInv'
  <1>1. /\ issued' = issued + 1 /\ value' = [value EXCEPT ![c] = issued + 1]
        /\ call[c] = "idle" /\ UNCHANGED <<handled, slots, scan, processed, slotOf>>
        /\ \A d \in Clients : d # c => call'[d] = call[d] /\ value'[d] = value[d]
        /\ value'[c] = issued + 1
    <2>1. value \in [Clients -> 0 .. MaxWrites]
          /\ call \in [Clients -> {"idle", "wait", "write", "submit"}]
      BY DEF IpcInv, ClientType
    <2> QED BY <2>1 DEF PublishCall, shared, server, history
  <1>2. Numbered'
    <2>1. \A n \in Nat : n <= issued => n <= issued + 1
      BY ValueTypes
    <2>2. \A d \in Clients : value'[d] <= issued + 1
      BY <1>1, <2>1, ValueTypes DEF FreshInv, Numbered
    <2>3. \A i \in Slots : slots[i].mail <= issued + 1
      BY <2>1, ValueTypes DEF FreshInv, Numbered
    <2>4. \A v : Taken(v) => v <= issued + 1
      BY <2>1, ValueTypes DEF FreshInv, Numbered
    <2> QED BY <1>1, <2>2, <2>3, <2>4 DEF Numbered, Taken
  <1>3. MailFresh'
    BY <1>1 DEF FreshInv, MailFresh, Taken, Pending, At
  <1>4. /\ ~Taken(issued + 1) /\ \A i \in Slots : slots[i].mail # issued + 1
        /\ \A d \in Clients : value[d] # issued + 1
    BY ValueTypes DEF FreshInv, Numbered
  <1>5. ASSUME NEW d \in Clients PROVE CallFresh(d)'
    <2>1. CASE d = c
      <3>1. \A e \in Clients : e # c => value'[e] # issued + 1
        BY <1>1, <1>4
      <3> QED BY <1>1, <1>4, <2>1, <3>1 DEF CallFresh, Taken
    <2>2. CASE d # c
      <3>1. CallFresh(d) /\ value'[d] = value[d] /\ call'[d] = call[d] /\ value[d] # issued + 1
        BY <1>1, <1>4, <2>2 DEF FreshInv
      <3>2. \A e \in Clients : e # d /\ call'[e] # "idle" /\ call[d] # "idle" => value'[e] # value[d]
        BY <1>1, <3>1 DEF CallFresh
      <3> QED BY <1>1, <3>1, <3>2 DEF CallFresh, Taken
    <2> QED BY <2>1, <2>2
  <1> QED BY <1>2, <1>3, <1>5 DEF FreshInv

\* Its value is in no other slot and was not taken.
LEMMA FreshMail ==
    ASSUME IpcInv, CallsRun, FreshInv, NEW c \in Clients, WriteMail(c)
    PROVE  FreshInv'
  <1>0. PICK i \in Slots : i = slotOf[c]
    BY HasSlot DEF IpcInv, WriteMail, Running
  <1>1. /\ call[c] = "write" /\ call'[c] = "submit" /\ \A d \in Clients : d # c => call'[d] = call[d]
        /\ slots'[i].mail = value[c]
        /\ \A j \in Slots : j # i => slots'[j] = slots[j]
        /\ UNCHANGED <<handled, value, scan, processed, issued, slotOf>>
    <2>1. slots \in [Slots -> SharedClientSlot] /\ slots[i] \in SharedClientSlot
          /\ call \in [Clients -> {"idle", "wait", "write", "submit"}]
      BY DEF IpcInv, SlotsType, ClientType
    <2> QED BY <1>0, <2>1 DEF WriteMail, server, history, bounds, SharedClientSlot
  <1>2. /\ ~Taken(value[c]) /\ value[c] <= issued
        /\ \A j \in Slots : slots[j].mail # value[c]
        /\ \A d \in Clients : d # c /\ call[d] # "idle" => value[d] # value[c]
    BY <1>1 DEF FreshInv, Numbered, CallFresh
  <1>3. Numbered'
    BY <1>1, <1>2 DEF FreshInv, Numbered, Taken
  <1>4. MailFresh'
    <2>1. \A j \in Slots : Pending(j)' /\ slots'[j].mail # NoValue => ~Taken(slots'[j].mail)
      BY <1>1, <1>2 DEF FreshInv, MailFresh, Pending, At
    <2>2. \A j, k \in Slots : j # k /\ slots'[j].mail # NoValue => slots'[j].mail # slots'[k].mail
      BY <1>1, <1>2 DEF FreshInv, MailFresh
    <2> QED BY <1>1, <2>1, <2>2 DEF MailFresh, Taken
  <1>5. ASSUME NEW d \in Clients, call'[d] # "idle" PROVE CallFresh(d)'
    <2>1. CASE d = c
      BY <1>0, <1>1, <1>2, <2>1 DEF CallFresh, Taken
    <2>2. CASE d # c
      <3>1. CallFresh(d) /\ call[d] # "idle" /\ call'[d] = call[d]
        BY <1>1, <1>5, <2>2 DEF FreshInv
      <3>2. \A j \in Slots : slots'[j].mail = value[d] => call[d] = "submit" /\ j = slotOf[d]
        BY <1>1, <1>2, <2>2, <3>1 DEF CallFresh
      <3>3. \A e \in Clients : e # d /\ call'[e] # "idle" => value[e] # value[d]
        BY <1>1, <3>1 DEF CallFresh
      <3> QED BY <1>1, <3>1, <3>2, <3>3 DEF CallFresh, Taken
    <2> QED BY <2>1, <2>2
  <1> QED BY <1>3, <1>4, <1>5 DEF FreshInv, CallFresh

\* What is submitted is the mail of the call that ends.
LEMMA FreshSubmit ==
    ASSUME IpcInv, Solo, \A d \in Clients : AckSound(d), FreshInv, NEW c \in Clients, Submit(c)
    PROVE  FreshInv'
  <1>0. PICK i \in Slots : i = slotOf[c]
    BY HasSlot DEF IpcInv, Submit, Running
  <1>1. /\ call[c] = "submit" /\ call'[c] = "idle" /\ place[c] = "running"
        /\ \A d \in Clients : d # c => call'[d] = call[d]
        /\ \A j \in Slots : slots'[j].mail = slots[j].mail
        /\ \A j \in Slots : j # i => slots'[j] = slots[j]
        /\ UNCHANGED <<handled, value, scan, processed, issued, slotOf>>
    <2>1. slots \in [Slots -> SharedClientSlot] /\ slots[i] \in SharedClientSlot
          /\ call \in [Clients -> {"idle", "wait", "write", "submit"}]
      BY DEF IpcInv, SlotsType, ClientType
    <2>2. PICK n : slots' = [slots EXCEPT ![i].written = n]
      BY <1>0 DEF Submit
    <2> QED BY <2>1, <2>2 DEF Submit, Running, server, history, bounds, SharedClientSlot
  <1>2. slots[i].mail = value[c] /\ ~Taken(value[c])
    <2>1. SubmissionSound(c)
      BY <1>1 DEF AckSound, Live
    <2> QED BY <1>0, <1>1, <2>1 DEF SubmissionSound, Slot, FreshInv, CallFresh
  <1>3. Numbered'
    BY <1>1 DEF FreshInv, Numbered, Taken
  <1>4. MailFresh'
    <2>1. \A j \in Slots : Pending(j)' /\ slots'[j].mail # NoValue => ~Taken(slots'[j].mail)
      BY <1>1, <1>2 DEF FreshInv, MailFresh, Pending, At
    <2>2. \A j, k \in Slots : j # k /\ slots'[j].mail # NoValue => slots'[j].mail # slots'[k].mail
      BY <1>1 DEF FreshInv, MailFresh
    <2> QED BY <1>1, <2>1, <2>2 DEF MailFresh, Taken
  <1>5. ASSUME NEW d \in Clients, call'[d] # "idle" PROVE CallFresh(d)'
    <2>1. CallFresh(d) /\ d # c /\ call'[d] = call[d]
      BY <1>1, <1>5 DEF FreshInv
    <2>2. \A e \in Clients : call'[e] # "idle" => call[e] # "idle"
      BY <1>1
    <2> QED BY <1>1, <2>1, <2>2 DEF CallFresh, Taken
  <1> QED BY <1>3, <1>4, <1>5 DEF FreshInv, CallFresh

\* A write taken was not taken before, and its owner's next call has not put its mail.
LEMMA FreshHandle ==
    ASSUME IpcInv, Solo, session = 1, CallsRun, \A d \in Clients : AckSound(d), OrderInv, FreshInv,
           Distinct, NEW i \in Slots, HandleClientWrite(i)
    PROVE  FreshInv' /\ Distinct'
  <1> DEFINE v == slots[i].mail
  <1>1. /\ UNCHANGED <<processed, client, issued>> /\ At(i, "handle")
        /\ scan'.slot = i /\ scan'.step = "ack"
    <2>1. scan \in ScanType
      BY ValueTypes
    <2> QED BY <2>1 DEF HandleClientWrite, Goto, At, ScanType, bounds
  <1>2. UNCHANGED <<call, value, slotOf, place>>
    BY <1>1 DEF client, publishing
  <1>3. \A j \in Slots : slots'[j].mail = slots[j].mail /\ slots'[j].written = slots[j].written
    BY HandleFields DEF FieldsKept
  <1>4. \A j \in Slots : Pending(j)' => j # i /\ Pending(j)
    BY <1>1, <1>3 DEF Pending, At
  <1>5. CASE v = NoValue
    <2>1. handled' = handled
      BY <1>5, HandleFields
    <2>2. FreshInv'
      BY <1>1, <1>2, <1>3, <1>4, <2>1, FreshFrame
    <2> QED BY <2>1, <2>2 DEF Distinct
  <1>6. CASE v # NoValue
    <2>1. ~Taken(v) /\ v <= issued
      BY <1>1, <1>6 DEF FreshInv, MailFresh, Numbered, Pending
    <2>2. handled' = Append(handled, v) /\ \A u : Taken(u)' <=> Taken(u) \/ u = v
      <3>1. /\ handled' = IF slots[i].mail = NoValue THEN handled ELSE Append(handled, slots[i].mail)
            /\ \A u : Taken(u)' <=> Taken(u) \/ (u = slots[i].mail /\ u # NoValue)
        BY HandleFields
      <3> QED BY <1>6, <3>1
    <2>3. Numbered'
      BY <1>1, <1>2, <1>3, <2>1, <2>2 DEF FreshInv, Numbered
    <2>4. MailFresh'
      <3>1. ASSUME NEW j \in Slots, Pending(j)', slots[j].mail # NoValue
            PROVE  ~Taken(slots[j].mail) /\ slots[j].mail # v
        BY <1>4, <3>1 DEF FreshInv, MailFresh
      <3>2. \A j \in Slots : \A u : Pending(j)' /\ slots'[j].mail = u /\ u # NoValue => ~Taken(u)'
        BY <1>3, <2>2, <3>1
      <3>3. \A j \in Slots : Pending(j)' /\ slots'[j].mail # NoValue => ~Taken(slots[j].mail)'
        BY <1>3, <3>2 DEF Taken
      <3>4. \A j, k \in Slots : j # k /\ slots'[j].mail # NoValue => slots'[j].mail # slots'[k].mail
        BY <1>3 DEF FreshInv, MailFresh
      <3> QED BY <3>3, <3>4 DEF MailFresh
    <2>5. ASSUME NEW c \in Clients, call[c] # "idle" PROVE value[c] # v
      <3>1. CASE value[c] = v
        <4>1. call[c] = "submit" /\ i = slotOf[c] /\ place[c] = "running"
          BY <2>5, <3>1 DEF FreshInv, CallFresh, CallsRun
        <4>2. /\ VisitSound(c) /\ ClientOrder(c) /\ Slot(c) = slots[i]
              /\ slots[i].acked \in Nat /\ slots[i].written \in Nat
          BY <4>1, OwnSlot DEF Live, AckSound, OrderInv
        <4>3. slots[i].acked < scan.loaded /\ scan.loaded <= slots[i].written
          BY <1>1, <4>1, <4>2 DEF VisitSound, Past, At
        <4>4. slots[i].acked >= slots[i].written
          BY <4>1, <4>2 DEF ClientOrder
        <4>5. scan.loaded \in Nat
          BY ValueTypes DEF ScanType
        <4> QED BY <4>2, <4>3, <4>4, <4>5
      <3> QED BY <3>1
    <2>6. ASSUME NEW c \in Clients, call'[c] # "idle" PROVE CallFresh(c)'
      <3>1. CallFresh(c) /\ call[c] # "idle" /\ value[c] # v
        BY <1>2, <2>5, <2>6 DEF FreshInv
      <3>2. \A u : u = value[c] => ~Taken(u)'
        BY <2>2, <3>1 DEF CallFresh
      <3>3. ~Taken(value[c])'
        BY <1>2, <3>2 DEF Taken
      <3> QED BY <1>2, <1>3, <3>1, <3>3 DEF CallFresh
    <2>7. Distinct'
      <3>1. handled \in Seq(1 .. MaxWrites)
        BY DEF IpcInv, ServerType
      <3>2. /\ DOMAIN handled = 1 .. Len(handled) /\ Len(handled) \in Nat
            /\ DOMAIN handled' = 1 .. Len(handled) + 1
            /\ \A n \in 1 .. Len(handled) : handled'[n] = handled[n]
            /\ handled'[Len(handled) + 1] = v
        BY <2>2, <3>1
      <3> DEFINE h == handled'
                 n == Len(handled)
      <3>3. \A j \in 1 .. n : h[j] # v
        BY <2>1, <3>2 DEF Taken
      <3>4. ASSUME NEW j \in 1 .. n + 1, NEW k \in 1 .. n + 1, j < k PROVE h[j] # h[k]
        <4>1. j \in 1 .. n
          BY <3>2, <3>4, BeforeLast
        <4>2. CASE k \in 1 .. n
          BY <3>2, <3>4, <4>1, <4>2 DEF Distinct
        <4>3. CASE k = n + 1
          BY <3>2, <3>3, <4>1, <4>3
        <4> QED BY <3>2, <4>2, <4>3
      <3> QED BY <3>2, <3>4 DEF Distinct
    <2> QED BY <2>3, <2>4, <2>6, <2>7 DEF FreshInv, CallFresh
  <1> QED BY <1>5, <1>6

\* Mail, calls and what was taken stay apart.
LEMMA FreshInductive ==
    ASSUME IpcInv, AckInv, quiet \in Nat, Calm => OrderInv /\ FreshInv /\ Distinct,
           [Next]_vars, Calm'
    PROVE  FreshInv' /\ Distinct'
  <1>1. /\ Solo /\ CallsRun /\ session = 1 /\ OrderInv /\ FreshInv /\ Distinct
        /\ \A c \in Clients : AckSound(c)
        /\ ~ServerStart /\ ~RestartSession /\ ~ServerGoesQuiet
        /\ \A i \in Slots : ~TimeOutPaused(i)
    BY CalmBefore DEF AckInv
  <1>2. 1 \in Slots
    BY Bounds DEF Slots
  <1>3. ASSUME UNCHANGED handled PROVE Distinct'
    BY <1>1, <1>3 DEF Distinct
  <1>4. CASE ServerBeat \/ PublishFromServer
    <2>1. FreshInv'
      BY <1>1, <1>2, <1>4, FreshServer
    <2> QED BY <1>3, <1>4, <2>1 DEF ServerBeat, PublishFromServer, history
  <1>5. ASSUME NEW i \in Slots,
               \/ SkipSlot(i) \/ TimeOut(i) \/ PublishSnapshot(i)
               \/ PushSnapshot(i) \/ MarkSnapshotComplete(i) \/ SnapshotAlreadyComplete(i)
               \/ LoadWriteSequence(i) \/ Acknowledge(i)
        PROVE  FreshInv' /\ Distinct'
    <2>1. FreshInv'
      BY <1>1, <1>5, FreshServer
    <2> QED BY <1>3, <1>5, <2>1 DEF SkipSlot, TimeOut, ClearSlot, PublishSnapshot, PushSnapshot,
            MarkSnapshotComplete, SnapshotAlreadyComplete, LoadWriteSequence, Acknowledge, history
  <1>6. ASSUME NEW i \in Slots, HandleClientWrite(i) PROVE FreshInv' /\ Distinct'
    BY <1>1, <1>6, FreshHandle
  <1>7. ASSUME NEW c \in Clients,
               \/ Claim(c) \/ Advertise(c) \/ Stop(c) \/ Crash(c)
               \/ LookAtHeartbeat(c) \/ TakeMessage(c) \/ MaybePublishConnected(c)
               \/ WaitAcked(c) \/ GiveUp(c)
        PROVE  FreshInv' /\ Distinct'
    <2>1. FreshInv'
      BY <1>1, <1>7, FreshClient
    <2> QED BY <1>3, <1>7, <2>1 DEF Claim, Advertise, Stop, Crash, LookAtHeartbeat, TakeMessage,
            MaybePublishConnected, WaitAcked, GiveUp, history
  <1>8. ASSUME NEW c \in Clients, PublishCall(c) \/ WriteMail(c) \/ Submit(c)
        PROVE  FreshInv' /\ Distinct'
    <2>1. FreshInv'
      BY <1>1, <1>8, FreshCall, FreshMail, FreshSubmit
    <2> QED BY <1>3, <1>8, <2>1 DEF PublishCall, WriteMail, Submit, history
  <1>9. CASE UNCHANGED vars
    <2>1. UNCHANGED <<handled, value, issued, slots, scan, processed, call, slotOf>>
      BY <1>9 DEF vars, core, server, shared, client, publishing, bounds, history
    <2>2. \A i \in Slots : Pending(i)' => Pending(i)
      BY <2>1 DEF Pending, At
    <2>3. FreshInv'
      BY <1>1, <2>1, <2>2, FreshFrame
    <2> QED BY <1>3, <2>1, <2>3
  <1> QED BY <1>1, <1>4, <1>5, <1>6, <1>7, <1>8, <1>9
          DEF Next, ServerStep, ScanClients, PublishStep

\* Together.
LEMMA OnceParts == OnceInv <=> quiet \in Nat /\ (Calm => OrderInv /\ FreshInv /\ Distinct)
  BY DEF OnceInv, HandledOnce, Distinct, Calm

LEMMA OnceInit == Init => OnceInv
  <1> SUFFICES ASSUME Init PROVE OnceInv
    OBVIOUS
  <1> USE DEF NoValue
  <1>1. /\ \A i \in Slots : slots[i] = FreeSlot
        /\ \A c \in Clients : place[c] = "off" /\ call[c] = "idle" /\ value[c] = 0
        /\ handled = <<>> /\ issued = 0 /\ quiet = 0 /\ serverFresh
        /\ scan = Idle /\ DOMAIN queues = {}
    BY DEF Init
  <1>2. DOMAIN <<>> = {} /\ scan.rest = <<>> /\ scan.step = "check"
    BY <1>1 DEF Idle
  <1>3. OrderInv
    <2>1. ServerOrder
      BY <1>1, <1>2 DEF ServerOrder
    <2>2. \A i \in Slots : SlotOrder(i)
      <3>1. \A i \in Slots : /\ slots[i].inbox = <<>> /\ slots[i].written = 0
                             /\ slots[i].mail = 0
        BY <1>1 DEF FreeSlot
      <3>2. Ordered(<<>>) /\ ~Lives(<<>>)
        BY DEF Ordered, Lives
      <3>3. \A i \in Slots : ~At(i, "push") /\ ~At(i, "handle") /\ ~At(i, "ack")
        BY <1>2 DEF At
      <3> QED BY <3>1, <3>2, <3>3 DEF SlotOrder
    <2>3. \A c \in Clients : ClientOrder(c)
      BY <1>1 DEF ClientOrder
    <2> QED BY <2>1, <2>2, <2>3 DEF OrderInv
  <1>4. FreshInv /\ Distinct
    <2>1. \A v : ~Taken(v)
      BY <1>1, <1>2 DEF Taken
    <2>2. \A i \in Slots : slots[i].mail = 0
      BY <1>1 DEF FreeSlot
    <2>3. Numbered
      BY <1>1, <2>1, <2>2 DEF Numbered
    <2>4. MailFresh
      BY <2>1, <2>2 DEF MailFresh
    <2>5. \A c \in Clients : CallFresh(c)
      BY <1>1 DEF CallFresh
    <2> QED BY <1>1, <1>2, <2>3, <2>4, <2>5 DEF FreshInv, Distinct
  <1> QED BY <1>1, <1>3, <1>4, OnceParts

LEMMA OnceInductive == IpcInv /\ AckInv /\ OnceInv /\ [Next]_vars => OnceInv'
  <1> SUFFICES ASSUME IpcInv, AckInv, OnceInv, [Next]_vars PROVE OnceInv'
    OBVIOUS
  <1>1. quiet \in Nat /\ (Calm => OrderInv /\ FreshInv /\ Distinct)
    BY OnceParts
  <1>2. quiet' \in Nat
    <2>1. quiet' \in {quiet, quiet + 1}
      BY Troubles
    <2> QED BY <1>1, <2>1
  <1>3. Calm' => OrderInv' /\ FreshInv' /\ Distinct'
    BY <1>1, OrderInductive, FreshInductive
  <1>4. HandledOnce' <=> (Calm' => Distinct')
    BY DEF HandledOnce, Calm, Distinct
  <1> QED BY <1>2, <1>3, <1>4 DEF OnceInv

\* Within a session, with one server process and no pause taken for a death or for
\* the server's, no write is taken twice: mail and sequence number are written and
\* read apart, but the worker never forgets a number it has submitted.
THEOREM WritesAreHandledOnce == Spec => []HandledOnce
  <1>1. Init => IpcInv /\ AckInv /\ OnceInv
    BY IpcInit, AckInit, OnceInit
  <1>2. IpcInv /\ AckInv /\ OnceInv /\ [Next]_vars => (IpcInv /\ AckInv /\ OnceInv)'
    BY IpcInductive, AckInductive, OnceInductive
  <1>3. OnceInv => HandledOnce
    BY DEF OnceInv, HandledOnce, Calm
  <1> QED BY <1>1, <1>2, <1>3, PTL DEF Spec

-----------------------------------------------------------------------------
(* Converges: a connected client that drained its slot holds the latest value.       *)
(* What a slot holds is worth what its client makes of it: a run of the drain goes   *)
(* from the client's phase and the value it was told over each message to those at    *)
(* the end, which the invariant speaks of.                                             *)

Phases == {"descriptors", "state", "live"}
Values == 0 .. MaxWrites

\* The value told after a message taken in phase p, refusals aside.
ViewAfter(m, p, v) == IF m.kind = "update" /\ p # "descriptors" THEN m.value ELSE v

\* One turn of the run P, V over q.
Turn(q, P, V, n) == P[n] = PhaseAfter(q[n].kind, P[n - 1]) /\ V[n] = ViewAfter(q[n], P[n - 1], V[n - 1])

\* P and V are what the client has before and after each message of q.
IsRun(p, v, q, ph, x, P, V) ==
    /\ P \in [0 .. Len(q) -> Phases] /\ V \in [0 .. Len(q) -> Values]
    /\ P[0] = p /\ V[0] = v /\ P[Len(q)] = ph /\ V[Len(q)] = x
    /\ \A n \in 1 .. Len(q) : Turn(q, P, V, n)

\* From phase p and view v the drain of q ends with phase ph and view x.
Drains(p, v, q, ph, x) == \E P, V : IsRun(p, v, q, ph, x, P, V)

\* A message takes phases to phases and values to values.
LEMMA TurnTypes ==
    ASSUME NEW m \in Messages, NEW p \in Phases, NEW v \in Values
    PROVE  PhaseAfter(m.kind, p) \in Phases /\ ViewAfter(m, p, v) \in Values
  <1>1. m.kind \in {"snapshot begin", "state begin", "live begin", "update", "reject"} /\ m.value \in Values
    BY DEF Messages, Values
  <1>2. PhaseAfter(m.kind, p) \in Phases
    BY <1>1 DEF PhaseAfter, Phases
  <1>3. ViewAfter(m, p, v) \in Values
    BY <1>1 DEF ViewAfter
  <1> QED BY <1>2, <1>3

\* Nothing to drain changes nothing.
LEMMA DrainsNothing ==
    ASSUME NEW p \in Phases, NEW v \in Values
    PROVE  /\ Drains(p, v, <<>>, p, v)
           /\ \A ph, x : Drains(p, v, <<>>, ph, x) => ph = p /\ x = v
  <1>0. Len(<<>>) = 0 /\ 1 .. 0 = {}
    OBVIOUS
  <1>1. IsRun(p, v, <<>>, p, v, [n \in 0 .. 0 |-> p], [n \in 0 .. 0 |-> v])
    BY <1>0 DEF IsRun
  <1>2. ASSUME NEW ph, NEW x, Drains(p, v, <<>>, ph, x) PROVE ph = p /\ x = v
    <2>1. PICK P, V : IsRun(p, v, <<>>, ph, x, P, V)
      BY <1>2 DEF Drains
    <2> QED BY <1>0, <2>1 DEF IsRun
  <1> QED BY <1>1, <1>2 DEF Drains

\* A message behind the others is taken last.
LEMMA DrainsOn ==
    ASSUME NEW p, NEW v, NEW q \in Seq(Messages), NEW ph, NEW x, Drains(p, v, q, ph, x),
           NEW m \in Messages
    PROVE  /\ Drains(p, v, Append(q, m), PhaseAfter(m.kind, ph), ViewAfter(m, ph, x))
           /\ ph \in Phases /\ x \in Values
           /\ PhaseAfter(m.kind, ph) \in Phases /\ ViewAfter(m, ph, x) \in Values
  <1> DEFINE k == Len(q)
             r == Append(q, m)
             ph2 == PhaseAfter(m.kind, ph)
             x2 == ViewAfter(m, ph, x)
  <1>1. PICK P, V : IsRun(p, v, q, ph, x, P, V)
    BY DEF Drains
  <1>2. k \in Nat /\ Len(r) = k + 1 /\ r[k + 1] = m /\ \A n \in 1 .. k : r[n] = q[n]
    OBVIOUS
  <1>3. /\ P \in [0 .. k -> Phases] /\ V \in [0 .. k -> Values]
        /\ P[0] = p /\ V[0] = v /\ P[k] = ph /\ V[k] = x
        /\ \A n \in 1 .. k : Turn(q, P, V, n)
    BY <1>1 DEF IsRun
  <1> HIDE DEF k, r
  <1>4. ph \in Phases /\ x \in Values
    BY <1>2, <1>3
  <1>5. ph2 \in Phases /\ x2 \in Values
    BY <1>4, TurnTypes
  <1> DEFINE P2 == [n \in 0 .. k + 1 |-> IF n = k + 1 THEN ph2 ELSE P[n]]
             V2 == [n \in 0 .. k + 1 |-> IF n = k + 1 THEN x2 ELSE V[n]]
  <1>6. P2 \in [0 .. k + 1 -> Phases] /\ V2 \in [0 .. k + 1 -> Values]
    BY <1>2, <1>3, <1>5
  <1>7. /\ P2[k + 1] = ph2 /\ V2[k + 1] = x2
        /\ \A n \in 0 .. k : P2[n] = P[n] /\ V2[n] = V[n]
    BY <1>2
  <1> HIDE DEF P2, V2
  <1>8. ASSUME NEW n \in 1 .. k + 1 PROVE Turn(r, P2, V2, n)
    <2>1. CASE n = k + 1
      <3>1. n - 1 = k /\ P2[n - 1] = ph /\ V2[n - 1] = x /\ r[n] = m
        BY <1>2, <1>3, <1>7, <2>1
      <3> QED BY <1>7, <2>1, <3>1 DEF Turn
    <2>2. CASE n # k + 1
      <3>1. n \in 1 .. k /\ n \in 0 .. k /\ n - 1 \in 0 .. k
        BY <1>2, <2>2
      <3>2. Turn(q, P, V, n) /\ r[n] = q[n]
        BY <1>2, <1>3, <3>1
      <3> QED BY <1>7, <3>1, <3>2 DEF Turn
    <2> QED BY <2>1, <2>2
  <1>9. P2[0] = p /\ V2[0] = v
    BY <1>2, <1>3, <1>7
  <1>10. IsRun(p, v, r, ph2, x2, P2, V2)
    BY <1>2, <1>6, <1>7, <1>8, <1>9 DEF IsRun
  <1>11. Drains(p, v, r, ph2, x2)
    BY <1>10 DEF Drains
  <1> QED BY <1>4, <1>5, <1>11 DEF r

\* The message in front is taken first.
LEMMA DrainsTail ==
    ASSUME NEW p, NEW v, NEW q \in Seq(Messages), q # <<>>, NEW ph, NEW x, Drains(p, v, q, ph, x)
    PROVE  Drains(PhaseAfter(Head(q).kind, p), ViewAfter(Head(q), p, v), Tail(q), ph, x)
  <1> DEFINE k == Len(q) - 1
             r == Tail(q)
             m == Head(q)
  <1>1. PICK P, V : IsRun(p, v, q, ph, x, P, V)
    BY DEF Drains
  <1>2. /\ k \in Nat /\ Len(q) = k + 1 /\ Len(r) = k /\ q[1] = m
        /\ \A n \in 1 .. k : r[n] = q[n + 1]
    OBVIOUS
  <1>3. /\ P \in [0 .. k + 1 -> Phases] /\ V \in [0 .. k + 1 -> Values]
        /\ P[0] = p /\ V[0] = v /\ P[k + 1] = ph /\ V[k + 1] = x
        /\ \A n \in 1 .. k + 1 : Turn(q, P, V, n)
    BY <1>1, <1>2 DEF IsRun
  <1> HIDE DEF k, r, m
  <1> DEFINE P2 == [n \in 0 .. k |-> P[n + 1]]
             V2 == [n \in 0 .. k |-> V[n + 1]]
  <1>4. P2 \in [0 .. k -> Phases] /\ V2 \in [0 .. k -> Values]
    BY <1>2, <1>3
  <1>5. \A n \in 0 .. k : P2[n] = P[n + 1] /\ V2[n] = V[n + 1]
    OBVIOUS
  <1> HIDE DEF P2, V2
  <1>6. P2[0] = PhaseAfter(m.kind, p) /\ V2[0] = ViewAfter(m, p, v)
    <2>1. 0 \in 0 .. k /\ 1 \in 1 .. k + 1 /\ 1 - 1 = 0 /\ 0 + 1 = 1
      BY <1>2
    <2>2. Turn(q, P, V, 1)
      BY <1>3, <2>1
    <2> QED BY <1>2, <1>3, <1>5, <2>1, <2>2 DEF Turn
  <1>7. P2[k] = ph /\ V2[k] = x
    BY <1>2, <1>3, <1>5
  <1>8. ASSUME NEW n \in 1 .. k PROVE Turn(r, P2, V2, n)
    <2>1. n \in 0 .. k /\ n - 1 \in 0 .. k /\ n + 1 \in 1 .. k + 1 /\ (n - 1) + 1 = n /\ (n + 1) - 1 = n
      BY <1>2
    <2>2. P2[n] = P[n + 1] /\ V2[n] = V[n + 1] /\ P2[n - 1] = P[n] /\ V2[n - 1] = V[n]
      BY <1>5, <2>1
    <2>3. Turn(q, P, V, n + 1) /\ r[n] = q[n + 1]
      BY <1>2, <1>3, <2>1
    <2> QED BY <2>1, <2>2, <2>3 DEF Turn
  <1>9. IsRun(PhaseAfter(m.kind, p), ViewAfter(m, p, v), r, ph, x, P2, V2)
    BY <1>2, <1>4, <1>6, <1>7, <1>8 DEF IsRun
  <1> QED BY <1>9 DEF Drains, r, m

Updates(q) == \A n \in 1 .. Len(q) : q[n].kind = "update"

\* Updates behind a drain that ends live leave the last of them.
LEMMA DrainsUpdates ==
    ASSUME NEW p, NEW v, NEW q \in Seq(Messages), NEW x, Drains(p, v, q, "live", x),
           NEW r \in Seq(Messages), Updates(r)
    PROVE  Drains(p, v, q \o r, "live", IF r = <<>> THEN x ELSE r[Len(r)].value)
  <1> DEFINE k == Len(q)
             l == Len(r)
             s == q \o r
             x2 == IF r = <<>> THEN x ELSE r[Len(r)].value
  <1>1. PICK P, V : IsRun(p, v, q, "live", x, P, V)
    BY DEF Drains
  <1>2. /\ k \in Nat /\ l \in Nat /\ Len(s) = k + l
        /\ \A n \in 1 .. k : s[n] = q[n]
        /\ \A n \in 1 .. l : s[k + n] = r[n]
        /\ l = 0 <=> r = <<>>
    OBVIOUS
  <1>3. /\ P \in [0 .. k -> Phases] /\ V \in [0 .. k -> Values]
        /\ P[0] = p /\ V[0] = v /\ P[k] = "live" /\ V[k] = x
        /\ \A n \in 1 .. k : Turn(q, P, V, n)
    BY <1>1 DEF IsRun
  <1>4. /\ \A n \in 1 .. l : r[n].kind = "update" /\ r[n].value \in Values
        /\ "live" \in Phases
    <2>1. \A n \in 1 .. l : r[n] \in Messages
      OBVIOUS
    <2> QED BY <2>1 DEF Updates, Messages, Values, Phases
  <1>5. x2 = IF l = 0 THEN x ELSE r[l].value
    BY <1>2
  <1> HIDE DEF k, l, s, x2
  <1> DEFINE P2 == [n \in 0 .. k + l |-> IF n > k THEN "live" ELSE P[n]]
             V2 == [n \in 0 .. k + l |-> IF n > k THEN r[n - k].value ELSE V[n]]
  <1>6. P2 \in [0 .. k + l -> Phases]
    BY <1>2, <1>3, <1>4
  <1>7. V2 \in [0 .. k + l -> Values]
    <2>1. \A n \in 0 .. k + l : n > k => n - k \in 1 .. l
      BY <1>2
    <2>2. \A n \in 0 .. k + l : ~(n > k) => n \in 0 .. k
      BY <1>2
    <2> QED BY <1>3, <1>4, <2>1, <2>2
  <1>8. /\ \A n \in 0 .. k : P2[n] = P[n] /\ V2[n] = V[n]
        /\ \A n \in 1 .. l : P2[k + n] = "live" /\ V2[k + n] = r[n].value
    <2>1. \A n \in 0 .. k : n \in 0 .. k + l /\ ~(n > k)
      BY <1>2
    <2>2. \A n \in 1 .. l : k + n \in 0 .. k + l /\ k + n > k /\ (k + n) - k = n
      BY <1>2
    <2> QED BY <2>1, <2>2
  <1> HIDE DEF P2, V2
  <1>9. P2[0] = p /\ V2[0] = v
    BY <1>2, <1>3, <1>8
  <1>10. P2[k + l] = "live" /\ V2[k + l] = x2
    <2>1. CASE l = 0
      BY <1>2, <1>3, <1>5, <1>8, <2>1
    <2>2. CASE l # 0
      <3>1. l \in 1 .. l
        BY <1>2, <2>2
      <3> QED BY <1>5, <1>8, <2>2, <3>1
    <2> QED BY <2>1, <2>2
  <1>11. ASSUME NEW n \in 1 .. k + l PROVE Turn(s, P2, V2, n)
    <2>1. CASE n \in 1 .. k
      <3>1. n \in 0 .. k /\ n - 1 \in 0 .. k
        BY <1>2, <2>1
      <3>2. Turn(q, P, V, n) /\ s[n] = q[n]
        BY <1>2, <1>3, <2>1
      <3> QED BY <1>8, <3>1, <3>2 DEF Turn
    <2>2. CASE n \notin 1 .. k
      <3> DEFINE j == n - k
      <3>1. j \in 1 .. l /\ k + j = n
        BY <1>2, <2>2
      <3>2. s[n] = r[j] /\ r[j].kind = "update" /\ P2[n] = "live" /\ V2[n] = r[j].value
        BY <1>2, <1>4, <1>8, <3>1
      <3>3. P2[n - 1] = "live"
        <4>1. CASE j = 1
          <5>1. n - 1 = k /\ k \in 0 .. k
            BY <1>2, <3>1, <4>1
          <5> QED BY <1>3, <1>8, <5>1
        <4>2. CASE j # 1
          <5>1. j - 1 \in 1 .. l /\ k + (j - 1) = n - 1
            BY <1>2, <3>1, <4>2
          <5> QED BY <1>8, <5>1
        <4> QED BY <4>1, <4>2
      <3> HIDE DEF j
      <3>4. PhaseAfter("update", "live") = "live"
        BY DEF PhaseAfter
      <3> QED BY <3>2, <3>3, <3>4 DEF Turn, ViewAfter
    <2> QED BY <2>1, <2>2
  <1>12. IsRun(p, v, s, "live", x2, P2, V2)
    BY <1>2, <1>6, <1>7, <1>9, <1>10, <1>11 DEF IsRun
  <1> QED BY <1>12 DEF Drains, s, x2

-----------------------------------------------------------------------------
(* What a slot brings its client. *)

\* Drained, the client is live and has the last value; or it still waits for a
\* snapshot.  While the snapshot is pushed this holds with what is left of it, and a
\* client that counts as connected has not come to its begin.
Delivers(p, v, q, last, waiting, pushing, joined, rest, ph, x) ==
    /\ Drains(p, v, q, ph, x)
    /\ last = NoValue => x = NoValue
    /\ ~pushing => (ph = "live" /\ x = last) \/ (ph = "descriptors" /\ waiting)
    /\ pushing => /\ Drains(ph, x, rest, "live", last)
                  /\ \A n \in 1 .. Len(rest) : rest[n].kind = "update" => rest[n].value = last
                  /\ joined => \/ Begins(q)
                               \/ /\ rest # <<>> /\ Head(rest).kind = "snapshot begin"
                                  /\ ph = "live" /\ x = last

Delivered(p, v, q, last, waiting, pushing, joined, rest) ==
    \E ph, x : Delivers(p, v, q, last, waiting, pushing, joined, rest, ph, x)

\* A client that waits, or no longer does, and whose snapshot is not being pushed.
LEMMA DeliveredStill ==
    ASSUME NEW p, NEW v, NEW q, NEW last, NEW w, NEW j, NEW r,
           Delivered(p, v, q, last, w, FALSE, j, r), NEW w2, w => w2, NEW j2, NEW r2
    PROVE  Delivered(p, v, q, last, w2, FALSE, j2, r2)
  BY DEF Delivered, Delivers

\* An update to a slot outside its snapshot.
LEMMA DeliveredUpdate ==
    ASSUME NEW p, NEW v, NEW q \in Seq(Messages), NEW last, NEW w, NEW j, NEW r,
           Delivered(p, v, q, last, w, FALSE, j, r),
           NEW m \in Messages, m.kind = "update", m.value # NoValue
    PROVE  Delivered(p, v, Append(q, m), m.value, w, FALSE, j, r)
  <1>1. PICK ph, x : Delivers(p, v, q, last, w, FALSE, j, r, ph, x)
    BY DEF Delivered
  <1>2. /\ Drains(p, v, q, ph, x)
        /\ (ph = "live" /\ x = last) \/ (ph = "descriptors" /\ w)
    BY <1>1 DEF Delivers
  <1>3. Drains(p, v, Append(q, m), PhaseAfter(m.kind, ph), ViewAfter(m, ph, x))
    BY <1>2, DrainsOn
  <1>4. PhaseAfter(m.kind, ph) = ph
    BY DEF PhaseAfter
  <1>5. ViewAfter(m, ph, x) = IF ph # "descriptors" THEN m.value ELSE x
    BY DEF ViewAfter
  <1>6. Delivers(p, v, Append(q, m), m.value, w, FALSE, j, r, ph, ViewAfter(m, ph, x))
    BY <1>2, <1>3, <1>4, <1>5 DEF Delivers
  <1> QED BY <1>6 DEF Delivered

\* A refusal changes nothing.
LEMMA DeliveredRefusal ==
    ASSUME NEW p, NEW v, NEW q \in Seq(Messages), NEW last, NEW w, NEW j, NEW r,
           Delivered(p, v, q, last, w, FALSE, j, r),
           NEW m \in Messages, m.kind = "reject"
    PROVE  Delivered(p, v, Append(q, m), last, w, FALSE, j, r)
  <1>1. PICK ph, x : Delivers(p, v, q, last, w, FALSE, j, r, ph, x)
    BY DEF Delivered
  <1>2. Drains(p, v, q, ph, x)
    BY <1>1 DEF Delivers
  <1>3. Drains(p, v, Append(q, m), PhaseAfter(m.kind, ph), ViewAfter(m, ph, x))
    BY <1>2, DrainsOn
  <1>4. PhaseAfter(m.kind, ph) = ph /\ ViewAfter(m, ph, x) = x
    BY DEF PhaseAfter, ViewAfter
  <1>5. Delivers(p, v, Append(q, m), last, w, FALSE, j, r, ph, x)
    BY <1>1, <1>3, <1>4 DEF Delivers
  <1> QED BY <1>5 DEF Delivered

\* What the core held back for a client leads to the last value, if there is any.
Owes(q, last) == Updates(q) /\ (q # <<>> => q[Len(q)].value = last)

\* The updates held back, which the client may have had, to a slot that is served.
LEMMA DeliveredHeldBack ==
    ASSUME NEW p, NEW v, NEW q \in Seq(Messages), NEW last, NEW j, NEW r,
           Delivered(p, v, q, last, FALSE, FALSE, j, r),
           NEW held \in Seq(Messages), Owes(held, last)
    PROVE  Delivered(p, v, q \o held, last, FALSE, FALSE, j, r)
  <1>1. PICK ph, x : Delivers(p, v, q, last, FALSE, FALSE, j, r, ph, x)
    BY DEF Delivered
  <1>2. Drains(p, v, q, "live", last) /\ (last = NoValue => x = NoValue) /\ x = last
    BY <1>1 DEF Delivers
  <1>3. Drains(p, v, q \o held, "live", IF held = <<>> THEN last ELSE held[Len(held)].value)
    BY <1>2, DrainsUpdates DEF Owes
  <1>4. (IF held = <<>> THEN last ELSE held[Len(held)].value) = last
    BY DEF Owes
  <1>5. Delivers(p, v, q \o held, last, FALSE, FALSE, j, r, "live", last)
    BY <1>2, <1>3, <1>4 DEF Delivers
  <1> QED BY <1>5 DEF Delivered

\* Short sequences, message by message.
LEMMA MessageByMessage ==
    ASSUME NEW a \in Messages, NEW b \in Messages, NEW u \in Messages, NEW l \in Messages
    PROVE  /\ (<<a, b>> \o <<>>) \o <<l>> = Append(Append(Append(<<>>, a), b), l)
           /\ (<<a, b>> \o <<u>>) \o <<l>> = Append(Append(Append(Append(<<>>, a), b), u), l)
           /\ Append(Append(Append(<<>>, a), b), l)[1] = a
           /\ Append(Append(Append(Append(<<>>, a), b), u), l)[1] = a
  <1>1. <<a, b>> = Append(Append(<<>>, a), b)
    OBVIOUS
  <1> DEFINE q == <<a, b>>
  <1>2. q \in Seq(Messages) /\ q[1] = a /\ Len(q) = 2
    OBVIOUS
  <1>3. q = Append(Append(<<>>, a), b)
    BY <1>1
  <1> HIDE DEF q
  <1>4. \A s \in Seq(Messages), m \in Messages :
           s \o <<m>> = Append(s, m) /\ s \o <<>> = s /\ Append(s, m) \in Seq(Messages)
    OBVIOUS
  <1>5. \A s \in Seq(Messages), m \in Messages : Len(s) > 1 =>
           Append(s, m)[1] = s[1] /\ Len(Append(s, m)) > 1
    OBVIOUS
  <1>6. q \o <<>> = q /\ q \o <<l>> = Append(q, l) /\ q \o <<u>> = Append(q, u)
        /\ Append(q, u) \in Seq(Messages) /\ Append(q, u) \o <<l>> = Append(Append(q, u), l)
    BY <1>2, <1>4
  <1>7. Append(q, l)[1] = a /\ Append(Append(q, u), l)[1] = a
    <2>1. Append(q, l)[1] = q[1] /\ Append(q, u)[1] = q[1] /\ Len(Append(q, u)) > 1
      BY <1>2, <1>5
    <2> DEFINE qu == Append(q, u)
    <2>2. qu \in Seq(Messages) /\ Len(qu) > 1 /\ qu[1] = q[1]
      BY <1>6, <2>1
    <2> HIDE DEF qu
    <2>3. Append(qu, l)[1] = qu[1]
      BY <1>5, <2>2
    <2> QED BY <1>2, <2>1, <2>2, <2>3 DEF qu
  <1>8. (q \o <<>>) \o <<l>> = Append(q, l) /\ (q \o <<u>>) \o <<l>> = Append(Append(q, u), l)
    BY <1>6
  <1> QED BY <1>3, <1>7, <1>8 DEF q

\* The snapshot of a value, of which only the last depends on the state.
SnapshotOf(last) ==
    <<Marker("snapshot begin"), Marker("state begin")>>
    \o (IF last = NoValue THEN <<>> ELSE <<Update(0, last)>>)
    \o <<Marker("live begin")>>

\* A snapshot begins with its begin and brings its value.
LEMMA SnapshotBrings ==
    ASSUME NEW last \in Values, NEW ph \in Phases, NEW x \in Values, last = NoValue => x = NoValue
    PROVE  /\ Drains(ph, x, SnapshotOf(last), "live", last)
           /\ SnapshotOf(last) # <<>> /\ Head(SnapshotOf(last)).kind = "snapshot begin"
           /\ \A n \in 1 .. Len(SnapshotOf(last)) :
                 SnapshotOf(last)[n].kind = "update" => SnapshotOf(last)[n].value = last
  <1> DEFINE b == Marker("snapshot begin")
             s == Marker("state begin")
             u == Update(0, last)
             l == Marker("live begin")
  <1>1. b \in Messages /\ s \in Messages /\ u \in Messages /\ l \in Messages
    BY MessageTypes DEF Values
  <1>2. /\ b.kind = "snapshot begin" /\ s.kind = "state begin" /\ l.kind = "live begin"
        /\ u.kind = "update" /\ u.value = last
    BY DEF Marker, Update
  <1> DEFINE three == Append(Append(Append(<<>>, b), s), l)
             four == Append(Append(Append(Append(<<>>, b), s), u), l)
  <1>3. SnapshotOf(last) = IF last = NoValue THEN three ELSE four
    <2>1. SnapshotOf(last) = IF last = NoValue THEN (<<b, s>> \o <<>>) \o <<l>>
                             ELSE (<<b, s>> \o <<u>>) \o <<l>>
      BY DEF SnapshotOf
    <2> HIDE DEF b, s, u, l
    <2>2. (<<b, s>> \o <<>>) \o <<l>> = three /\ (<<b, s>> \o <<u>>) \o <<l>> = four
      BY <1>1, MessageByMessage
    <2> QED BY <2>1, <2>2
  <1>4. SnapshotOf(last) # <<>> /\ Head(SnapshotOf(last)) = b
    <2> HIDE DEF b, s, u, l
    <2>1. three[1] = b /\ four[1] = b
      BY <1>1, MessageByMessage
    <2>2. three # <<>> /\ four # <<>>
      <3>1. \A q \in Seq(Messages), m \in Messages : Append(q, m) # <<>> /\ Append(q, m) \in Seq(Messages)
        BY AppendProperties
      <3>2. <<>> \in Seq(Messages)
        OBVIOUS
      <3> QED BY <1>1, <3>1, <3>2
    <2> QED BY <1>3, <2>1, <2>2
  <1>6. PhaseAfter(b.kind, ph) = "descriptors" /\ PhaseAfter(s.kind, "descriptors") = "state"
        /\ PhaseAfter(u.kind, "state") = "state" /\ PhaseAfter(l.kind, "state") = "live"
    BY <1>2 DEF PhaseAfter
  <1>7. /\ ViewAfter(b, ph, x) = x /\ ViewAfter(s, "descriptors", x) = x
        /\ ViewAfter(u, "state", x) = last
        /\ \A y : ViewAfter(l, "state", y) = y
    BY <1>2 DEF ViewAfter
  <1> HIDE DEF b, s, u, l
  <1> DEFINE e == <<>>
             eb == Append(e, b)
             bs == Append(eb, s)
             bu == Append(bs, u)
  <1>8. e \in Seq(Messages) /\ Drains(ph, x, e, ph, x)
    BY DrainsNothing
  <1> HIDE DEF e
  <1>9. eb \in Seq(Messages) /\ Drains(ph, x, eb, PhaseAfter(b.kind, ph), ViewAfter(b, ph, x))
    BY <1>1, <1>8, DrainsOn, AppendProperties
  <1>10. Drains(ph, x, eb, "descriptors", x)
    BY <1>6, <1>7, <1>9
  <1> HIDE DEF eb
  <1>11. bs \in Seq(Messages)
         /\ Drains(ph, x, bs, PhaseAfter(s.kind, "descriptors"), ViewAfter(s, "descriptors", x))
    BY <1>1, <1>9, <1>10, DrainsOn, AppendProperties
  <1>12. Drains(ph, x, bs, "state", x)
    BY <1>6, <1>7, <1>11
  <1> HIDE DEF bs
  <1>13. bu \in Seq(Messages) /\ Drains(ph, x, bu, PhaseAfter(u.kind, "state"), ViewAfter(u, "state", x))
    BY <1>1, <1>11, <1>12, DrainsOn, AppendProperties
  <1>14. Drains(ph, x, bu, "state", last)
    BY <1>6, <1>7, <1>13
  <1> HIDE DEF bu
  <1>15. /\ Drains(ph, x, Append(bs, l), PhaseAfter(l.kind, "state"), ViewAfter(l, "state", x))
         /\ Drains(ph, x, Append(bu, l), PhaseAfter(l.kind, "state"), ViewAfter(l, "state", last))
    BY <1>1, <1>11, <1>12, <1>13, <1>14, DrainsOn
  <1>16. Drains(ph, x, Append(bs, l), "live", x) /\ Drains(ph, x, Append(bu, l), "live", last)
    BY <1>6, <1>7, <1>15
  <1>17. three = Append(bs, l) /\ four = Append(bu, l)
    BY DEF e, eb, bs, bu
  <1>18. Drains(ph, x, SnapshotOf(last), "live", last)
    <2>1. CASE last = NoValue
      BY <1>3, <1>16, <1>17, <2>1
    <2>2. CASE last # NoValue
      BY <1>3, <1>16, <1>17, <2>2
    <2> QED BY <2>1, <2>2
  <1>19. \A n \in 1 .. Len(SnapshotOf(last)) :
            SnapshotOf(last)[n].kind = "update" => SnapshotOf(last)[n].value = last
    <2> DEFINE Plainly(q) == \A n \in 1 .. Len(q) : q[n].kind = "update" => q[n].value = last
    <2>1. \A q \in Seq(Messages), m \in Messages :
             Plainly(q) /\ (m.kind = "update" => m.value = last) => Plainly(Append(q, m))
      OBVIOUS
    <2>2. Plainly(e)
      BY DEF e
    <2> HIDE DEF Plainly
    <2>3. Plainly(eb) /\ Plainly(bs) /\ Plainly(bu)
      BY <1>1, <1>2, <1>8, <1>9, <1>11, <2>1, <2>2 DEF eb, bs, bu, b, s, u
    <2>4. Plainly(Append(bs, l)) /\ Plainly(Append(bu, l))
      BY <1>1, <1>2, <1>11, <1>13, <2>1, <2>3 DEF l
    <2>5. Plainly(SnapshotOf(last))
      BY <1>3, <1>17, <2>4
    <2> QED BY <2>5 DEF Plainly
  <1> QED BY <1>2, <1>4, <1>18, <1>19 DEF b

\* The snapshot is made.
LEMMA DeliveredBegin ==
    ASSUME NEW p, NEW v, NEW q \in Seq(Messages), NEW last \in Values, NEW w, NEW j, NEW r,
           Delivered(p, v, q, last, w, FALSE, j, r), w => ~j, p \in Phases, v \in Values
    PROVE  Delivered(p, v, q, last, FALSE, TRUE, j, SnapshotOf(last))
  <1>1. PICK ph, x : Delivers(p, v, q, last, w, FALSE, j, r, ph, x)
    BY DEF Delivered
  <1>2. /\ Drains(p, v, q, ph, x) /\ (last = NoValue => x = NoValue)
        /\ (ph = "live" /\ x = last) \/ (ph = "descriptors" /\ w)
    BY <1>1 DEF Delivers
  <1>3. ph \in Phases /\ x \in Values
    <2>1. PICK P, V : IsRun(p, v, q, ph, x, P, V)
      BY <1>2 DEF Drains
    <2>2. Len(q) \in Nat
      OBVIOUS
    <2> QED BY <2>1, <2>2 DEF IsRun
  <1>4. Delivers(p, v, q, last, FALSE, TRUE, j, SnapshotOf(last), ph, x)
    BY <1>2, <1>3, SnapshotBrings DEF Delivers
  <1> QED BY <1>4 DEF Delivered

\* One message of the snapshot is pushed.
LEMMA DeliveredPush ==
    ASSUME NEW p, NEW v, NEW q \in Seq(Messages), NEW last, NEW w, NEW j,
           NEW r \in Seq(Messages), r # <<>>, Delivered(p, v, q, last, w, TRUE, j, r)
    PROVE  Delivered(p, v, Append(q, Head(r)), last, w, TRUE, j, Tail(r))
  <1> DEFINE m == Head(r)
  <1>1. PICK ph, x : Delivers(p, v, q, last, w, TRUE, j, r, ph, x)
    BY DEF Delivered
  <1>2. /\ Drains(p, v, q, ph, x) /\ (last = NoValue => x = NoValue)
        /\ Drains(ph, x, r, "live", last)
        /\ j => Begins(q) \/ m.kind = "snapshot begin"
    BY <1>1 DEF Delivers
  <1>3. m \in Messages
    OBVIOUS
  <1>4. Begins(q) \/ m.kind = "snapshot begin" => Begins(Append(q, m))
    <2>1. /\ DOMAIN q = 1 .. Len(q) /\ DOMAIN Append(q, m) = 1 .. Len(q) + 1 /\ Len(q) \in Nat
          /\ \A n \in 1 .. Len(q) : Append(q, m)[n] = q[n]
          /\ Append(q, m)[Len(q) + 1] = m
      BY <1>3
    <2> HIDE DEF m
    <2>2. Begins(q) => Begins(Append(q, m))
      <3>1. SUFFICES ASSUME NEW n \in DOMAIN q, q[n].kind = "snapshot begin" PROVE Begins(Append(q, m))
        BY DEF Begins
      <3>2. n \in 1 .. Len(q) /\ n \in 1 .. Len(q) + 1
        BY <2>1
      <3>3. n \in DOMAIN Append(q, m) /\ Append(q, m)[n] = q[n]
        BY <2>1, <3>2
      <3> QED BY <3>1, <3>3 DEF Begins
    <2>3. m.kind = "snapshot begin" => Begins(Append(q, m))
      <3>1. Len(q) + 1 \in DOMAIN Append(q, m)
        BY <2>1
      <3> QED BY <2>1, <3>1 DEF Begins
    <2> QED BY <2>2, <2>3
  <1> HIDE DEF m
  <1>5. /\ Drains(p, v, Append(q, m), PhaseAfter(m.kind, ph), ViewAfter(m, ph, x))
    BY <1>2, <1>3, DrainsOn
  <1>6. Drains(PhaseAfter(m.kind, ph), ViewAfter(m, ph, x), Tail(r), "live", last)
    BY <1>2, DrainsTail DEF m
  <1>7. last = NoValue => ViewAfter(m, ph, x) = NoValue
    <2>1. m = r[1] /\ 1 \in 1 .. Len(r)
      BY DEF m
    <2>2. m.kind = "update" => m.value = last
      BY <1>1, <2>1 DEF Delivers
    <2> QED BY <1>2, <2>2 DEF ViewAfter
  <1>8. \A n \in 1 .. Len(Tail(r)) : Tail(r)[n].kind = "update" => Tail(r)[n].value = last
    <2>1. \A n \in 1 .. Len(Tail(r)) : n + 1 \in 1 .. Len(r) /\ Tail(r)[n] = r[n + 1]
      OBVIOUS
    <2> QED BY <1>1, <2>1 DEF Delivers
  <1> QED BY <1>2, <1>4, <1>5, <1>6, <1>7, <1>8 DEF Delivered, Delivers, m

\* The begin of a snapshot that is not in front stays when the front is taken.
LEMMA BeginBehind ==
    ASSUME NEW q \in Seq(Messages), q # <<>>
    PROVE  Begins(q) /\ Head(q).kind # "snapshot begin" => Begins(Tail(q))
  <1> DEFINE l == Len(q)
             t == Tail(q)
             m == Head(q)
  <1>1. /\ DOMAIN q = 1 .. l /\ l \in Nat \ {0} /\ DOMAIN t = 1 .. l - 1
        /\ m = q[1] /\ \A j \in 1 .. l - 1 : t[j] = q[j + 1]
    OBVIOUS
  <1> HIDE DEF l, t, m
  <1>2. ASSUME NEW n \in 1 .. l, q[n].kind = "snapshot begin", m.kind # "snapshot begin"
        PROVE  Begins(t)
    <2>1. n # 1
      BY <1>1, <1>2
    <2>2. n - 1 \in 1 .. l - 1 /\ (n - 1) + 1 = n
      BY <1>1, <2>1
    <2>3. n - 1 \in DOMAIN t /\ t[n - 1] = q[n]
      BY <1>1, <2>2
    <2> QED BY <1>2, <2>3 DEF Begins
  <1>3. Begins(q) /\ m.kind # "snapshot begin" => Begins(t)
    BY <1>1, <1>2 DEF Begins
  <1> QED BY <1>3 DEF t, m

\* The client takes its first message, which it does before a snapshot if it counts
\* as connected and the message is the begin.
LEMMA DeliveredTake ==
    ASSUME NEW p, NEW v, NEW q \in Seq(Messages), q # <<>>, NEW last, NEW w, NEW pushing, NEW j,
           NEW r, Delivered(p, v, q, last, w, pushing, j, r), NEW w2, w => w2,
           NEW j2, j2 => j /\ Head(q).kind # "snapshot begin"
    PROVE  Delivered(PhaseAfter(Head(q).kind, p), ViewAfter(Head(q), p, v), Tail(q), last, w2,
                     pushing, j2, r)
  <1>1. PICK ph, x : Delivers(p, v, q, last, w, pushing, j, r, ph, x)
    BY DEF Delivered
  <1>2. Drains(PhaseAfter(Head(q).kind, p), ViewAfter(Head(q), p, v), Tail(q), ph, x)
    BY <1>1, DrainsTail DEF Delivers
  <1>3. Begins(q) /\ Head(q).kind # "snapshot begin" => Begins(Tail(q))
    BY BeginBehind
  <1>4. Delivers(PhaseAfter(Head(q).kind, p), ViewAfter(Head(q), p, v), Tail(q), last, w2,
                 pushing, j2, r, ph, x)
    BY <1>1, <1>2, <1>3 DEF Delivers
  <1> QED BY <1>4 DEF Delivered

\* The end of a snapshot's push.
LEMMA DeliveredEnd ==
    ASSUME NEW p, NEW v, NEW q, NEW last, NEW w, NEW j,
           Delivered(p, v, q, last, w, TRUE, j, <<>>), NEW w2, NEW j2, NEW r2
    PROVE  Delivered(p, v, q, last, w2, FALSE, j2, r2)
  <1>1. PICK ph, x : Delivers(p, v, q, last, w, TRUE, j, <<>>, ph, x)
    BY DEF Delivered
  <1>2. Drains(ph, x, <<>>, "live", last)
    BY <1>1 DEF Delivers
  <1>3. ph = "live" /\ x = last
    <2>1. PICK P, V : IsRun(ph, x, <<>>, "live", last, P, V)
      BY <1>2 DEF Drains
    <2>2. Len(<<>>) = 0
      OBVIOUS
    <2> QED BY <2>1, <2>2 DEF IsRun
  <1> QED BY <1>1, <1>3 DEF Delivered, Delivers

\* A drained slot.
LEMMA DeliveredDrained ==
    ASSUME NEW p \in Phases, NEW v \in Values, NEW last, NEW w, NEW pushing, NEW j, NEW r, j, w => ~j,
           Delivered(p, v, <<>>, last, w, pushing, j, r)
    PROVE  v = last
  <1>1. PICK ph, x : Delivers(p, v, <<>>, last, w, pushing, j, r, ph, x)
    BY DEF Delivered
  <1>2. ph = p /\ x = v
    BY <1>1, DrainsNothing DEF Delivers
  <1>3. ~Begins(<<>>)
    BY DEF Begins
  <1> QED BY <1>1, <1>2, <1>3 DEF Delivers

-----------------------------------------------------------------------------
(* The invariant of the feed *)

Steady == boots = 1 /\ pauses = 0 /\ quiet = 0

\* The scan is past its check of slot i.
Visited(i) == scan.slot = i /\ scan.step # "check"

\* The client has had no snapshot of this session, and does not count as connected.
Waiting(c) == Slot(c).snap # session /\ ~Visited(slotOf[c]) /\ ~connected[c]

ServerFeed == serverFresh /\ \A c \in DOMAIN queues : Owes(queues[c], latest)

\* The owner the scan has found stays until the scan goes on.
ScanFeed == \A i \in Slots : Visited(i) =>
    /\ IsClientSlotReady(slots[i]) /\ scan.who = slots[i].tag
    /\ scan.step = "push" => slots[i].snap # session

ClientFeed(c) ==
    /\ place[c] = "claimed" => Slot(c).inbox = <<>> /\ ~Slot(c).named /\ Slot(c).snap = 0
    /\ place[c] = "running" =>
         /\ Slot(c).named
         /\ Delivered(phase[c], told[c], Slot(c).inbox, latest, Waiting(c),
                      At(slotOf[c], "push"), connected[c], scan.rest)

FeedInv == ServerFeed /\ ScanFeed /\ \A c \in Clients : ClientFeed(c)

\* Of the slot of a live client, what ClientFeed reads.
InboxKept(s, t) == t.inbox = s.inbox /\ t.named = s.named /\ t.snap = s.snap

\* A client whose own state and slot a step leaves alone, and whose snapshot's push
\* neither begins nor ends nor goes on.
LEMMA FeedFrame ==
    ASSUME NEW c \in Clients, ClientFeed(c), NEW i, i = slotOf[c],
           UNCHANGED <<place[c], slotOf[c], phase[c], told[c], connected[c], latest>>,
           Live(c) => InboxKept(slots[i], slots'[i]),
           place[c] = "running" =>
             \/ ~At(i, "push") /\ ~At(i, "push")' /\ (Waiting(c) => Waiting(c)')
             \/ At(i, "push") /\ At(i, "push")' /\ scan'.rest = scan.rest
    PROVE  ClientFeed(c)'
  <1>1. place[c] = "claimed" => (Slot(c).inbox = <<>> /\ ~Slot(c).named /\ Slot(c).snap = 0)'
    BY DEF ClientFeed, Live, InboxKept, Slot
  <1>2. ASSUME place[c] = "running"
        PROVE  Slot(c)'.named /\ Delivered(phase[c], told[c], Slot(c).inbox, latest, Waiting(c),
                      At(slotOf[c], "push"), connected[c], scan.rest)'
    <2>1. /\ Slot(c)'.named /\ Slot(c)'.inbox = Slot(c).inbox
          /\ Delivered(phase[c], told[c], Slot(c).inbox, latest, Waiting(c),
                       At(i, "push"), connected[c], scan.rest)
      BY <1>2 DEF ClientFeed, Live, InboxKept, Slot
    <2> DEFINE w == Waiting(c)
               w2 == Waiting(c)'
               a == At(i, "push")
               a2 == At(i, "push")'
    <2>2. (~a /\ ~a2 /\ (w => w2)) \/ (a /\ a2 /\ scan'.rest = scan.rest)
      BY <1>2
    <2>3. a2 = At(slotOf[c], "push")'
      OBVIOUS
    <2> HIDE DEF w, w2, a, a2
    <2>4. Delivered(phase[c], told[c], Slot(c).inbox, latest, w2, a2, connected[c], scan'.rest)
      BY <2>1, <2>2 DEF Delivered, Delivers, a, w
    <2> QED BY <2>1, <2>3, <2>4 DEF w2, a2
  <1> QED BY <1>1, <1>2 DEF ClientFeed

\* A running client's slot is its own and takes messages.
LEMMA FeedSlot ==
    ASSUME IpcInv, Steady, NEW c \in Clients, Live(c)
    PROVE  /\ slotOf[c] \in Slots /\ slots[slotOf[c]].tag = c /\ Slot(c) = slots[slotOf[c]]
           /\ Slot(c) \in SharedClientSlot /\ Slot(c).inbox \in Seq(Messages)
           /\ Slot(c).named => IsClientSlotReady(Slot(c))
           /\ phase[c] \in Phases /\ told[c] \in Values /\ latest \in Values
           /\ session \in Nat \ {0}
  <1>1. /\ slotOf[c] \in Slots /\ slots[slotOf[c]].tag = c /\ Slot(c) = slots[slotOf[c]]
        /\ Slot(c) \in SharedClientSlot
    BY OwnSlot DEF Steady, Solo
  <1>2. Slot(c).inbox \in Seq(Messages)
    BY <1>1, SlotFields
  <1>3. Slot(c).named => IsClientSlotReady(Slot(c))
    BY <1>1, Bounds DEF IsClientSlotReady
  <1>4. /\ phase[c] \in Phases /\ told[c] \in Values /\ latest \in Values /\ session \in Nat \ {0}
    BY Bounds DEF IpcInv, ClientType, ServerType, Phases, Values
  <1> QED BY <1>1, <1>2, <1>3, <1>4

\* Steps that leave what the feed is about, except for the scan's place.
LEMMA FeedFrames ==
    ASSUME IpcInv, Steady, FeedInv, UNCHANGED <<queues, latest, serverFresh, slotOf, phase, told>>,
           \A i \in Slots : InboxKept(slots[i], slots'[i]),
           \A c \in Clients : place'[c] = "dead" \/ (place'[c] = place[c] /\ connected'[c] = connected[c]),
           ScanFeed',
           \A c \in Clients : place[c] = "running" =>
             \/ ~At(slotOf[c], "push") /\ ~At(slotOf[c], "push")' /\ (Waiting(c) => Waiting(c)')
             \/ place'[c] = "dead"
             \/ At(slotOf[c], "push") /\ At(slotOf[c], "push")' /\ scan'.rest = scan.rest
    PROVE  FeedInv'
  <1>1. ServerFeed'
    BY DEF FeedInv, ServerFeed
  <1>2. ASSUME NEW c \in Clients PROVE ClientFeed(c)'
    <2>1. CASE place'[c] = "dead"
      BY <2>1 DEF ClientFeed
    <2>2. CASE place'[c] = place[c] /\ connected'[c] = connected[c] /\ place'[c] # "dead"
      <3>1. ClientFeed(c) /\ (Live(c) => slotOf[c] \in Slots)
        BY FeedSlot DEF FeedInv
      <3> QED BY <2>2, <3>1, FeedFrame
    <2> QED BY <2>1, <2>2
  <1> QED BY <1>1, <1>2 DEF FeedInv

\* The scan where it was, in the same session.
LEMMA FeedStill ==
    ASSUME IpcInv, Steady, FeedInv,
           UNCHANGED <<queues, latest, session, scan, serverFresh, slotOf, phase, told>>,
           \A i \in Slots : InboxKept(slots[i], slots'[i]) /\ slots'[i].tag = slots[i].tag,
           \A c \in Clients : place'[c] = "dead" \/ (place'[c] = place[c] /\ connected'[c] = connected[c])
    PROVE  FeedInv'
  <1>1. ScanFeed'
    BY DEF FeedInv, ScanFeed, Visited, IsClientSlotReady, InboxKept
  <1>2. ASSUME NEW c \in Clients, place[c] = "running", place'[c] # "dead"
        PROVE  (At(slotOf[c], "push") <=> At(slotOf[c], "push")') /\ (Waiting(c) => Waiting(c)')
    <2>1. slotOf[c] \in Slots
      BY <1>2, FeedSlot DEF Live
    <2> QED BY <1>2, <2>1 DEF At, Waiting, Visited, InboxKept, Slot
  <1>3. \A c \in Clients : place[c] = "running" =>
             \/ ~At(slotOf[c], "push") /\ ~At(slotOf[c], "push")' /\ (Waiting(c) => Waiting(c)')
             \/ place'[c] = "dead"
             \/ At(slotOf[c], "push") /\ At(slotOf[c], "push")' /\ scan'.rest = scan.rest
    BY <1>2
  <1> QED BY <1>1, <1>3, FeedFrames

\* Writing mail and the two numbers leaves the slot's messages.
LEMMA NumbersKeepInbox ==
    ASSUME NEW s \in SharedClientSlot, NEW n
    PROVE  /\ InboxKept(s, [s EXCEPT !.mail = n]) /\ [s EXCEPT !.mail = n].tag = s.tag
           /\ InboxKept(s, [s EXCEPT !.written = n]) /\ [s EXCEPT !.written = n].tag = s.tag
           /\ InboxKept(s, [s EXCEPT !.acked = n]) /\ [s EXCEPT !.acked = n].tag = s.tag
  BY DEF SharedClientSlot, InboxKept

\* One slot written so, the others as they were.
LEMMA OneKeepsInbox ==
    ASSUME NEW ss \in [Slots -> SharedClientSlot], NEW i \in Slots, NEW s,
           InboxKept(ss[i], s) /\ s.tag = ss[i].tag
    PROVE  \A j \in Slots : InboxKept(ss[j], [ss EXCEPT ![i] = s][j])
                            /\ [ss EXCEPT ![i] = s][j].tag = ss[j].tag
  BY DEF InboxKept

\* Publish, the end of a client's process and, while the server is steady, the look at
\* its heartbeat.
LEMMA FeedClientSteps ==
    ASSUME IpcInv, Steady, FeedInv, NEW c \in Clients,
           \/ Crash(c) \/ LookAtHeartbeat(c) \/ PublishCall(c) \/ WaitAcked(c) \/ GiveUp(c)
           \/ WriteMail(c) \/ Submit(c)
    PROVE  FeedInv'
  <1>0. slots \in [Slots -> SharedClientSlot]
    BY DEF IpcInv, SlotsType
  <1>1. UNCHANGED <<queues, latest, session, scan, serverFresh, slotOf, phase, told>>
    <2>1. serverFresh
      BY DEF FeedInv, ServerFeed
    <2> QED BY <2>1 DEF Crash, LookAtHeartbeat, PublishCall, WaitAcked, GiveUp, WriteMail, Submit,
                        core, server, shared, loop, history, heard
  <1>2. \A i \in Slots : InboxKept(slots[i], slots'[i]) /\ slots'[i].tag = slots[i].tag
    <2>1. CASE UNCHANGED slots
      BY <2>1 DEF InboxKept
    <2>2. CASE WriteMail(c) \/ Submit(c)
      <3>1. Running(c)
        BY <2>2 DEF WriteMail, Submit
      <3>2. slotOf[c] \in Slots /\ slots[slotOf[c]] \in SharedClientSlot
        BY <1>0, <3>1, FeedSlot DEF Running, Live
      <3> DEFINE k == slotOf[c]
                 last == IF Slot(c).written > Slot(c).acked THEN Slot(c).written ELSE Slot(c).acked
                 m == [slots[k] EXCEPT !.mail = value[c]]
                 w == [slots[k] EXCEPT !.written = last + 1]
      <3>3. /\ InboxKept(slots[k], m) /\ m.tag = slots[k].tag
            /\ InboxKept(slots[k], w) /\ w.tag = slots[k].tag
        BY <3>2, NumbersKeepInbox
      <3>4. slots' = [slots EXCEPT ![k] = m] \/ slots' = [slots EXCEPT ![k] = w]
        BY <2>2 DEF WriteMail, Submit
      <3>5. k \in Slots
        BY <3>2
      <3> HIDE DEF m, w, k
      <3>6. CASE slots' = [slots EXCEPT ![k] = m]
        BY <1>0, <3>3, <3>5, <3>6, OneKeepsInbox
      <3>7. CASE slots' = [slots EXCEPT ![k] = w]
        BY <1>0, <3>3, <3>5, <3>7, OneKeepsInbox
      <3> QED BY <3>4, <3>6, <3>7
    <2> QED BY <2>1, <2>2 DEF Crash, LookAtHeartbeat, PublishCall, WaitAcked, GiveUp, shared
  <1>3. \A d \in Clients : place'[d] = "dead" \/ (place'[d] = place[d] /\ connected'[d] = connected[d])
    <2>1. CASE Crash(c)
      BY <2>1 DEF Crash, IpcInv, ClientType
    <2>2. CASE ~Crash(c)
      <3>1. serverFresh
        BY DEF FeedInv, ServerFeed
      <3>2. UNCHANGED <<place, connected>>
        BY <2>2, <3>1 DEF LookAtHeartbeat, PublishCall, WaitAcked, GiveUp, WriteMail, Submit, loop
      <3> QED BY <3>2
    <2> QED BY <2>1, <2>2
  <1> QED BY <1>1, <1>2, <1>3, FeedStill

\* The scan goes on: it is in no slot past its check, or in the slot it was in.
LEMMA ScanOn ==
    ASSUME NextSlot
    PROVE  /\ scan'.step = "check" /\ \A i : ~Visited(i)' /\ ~At(i, "push")'
  BY DEF NextSlot, Idle, Visited, At

\* The server's steps that push nothing.
LEMMA FeedScanSteps ==
    ASSUME IpcInv, Steady, FeedInv, NEW i \in Slots,
           \/ ServerBeat \/ SkipSlot(i) \/ SnapshotAlreadyComplete(i) \/ LoadWriteSequence(i)
           \/ Acknowledge(i)
    PROVE  FeedInv'
  <1>0. slots \in [Slots -> SharedClientSlot] /\ scan \in ScanType
    BY DEF IpcInv, SlotsType, ServerType
  <1>1. UNCHANGED <<queues, latest, session, serverFresh, slotOf, phase, told, place, connected>>
    <2>1. serverFresh
      BY DEF FeedInv, ServerFeed
    <2> QED BY <2>1 DEF ServerBeat, SkipSlot, SnapshotAlreadyComplete, LoadWriteSequence, Acknowledge,
                        core, shared, client, loop, history, heard
  <1>2. \A j \in Slots : InboxKept(slots[j], slots'[j]) /\ slots'[j].tag = slots[j].tag
    <2>1. CASE UNCHANGED slots
      BY <2>1 DEF InboxKept
    <2>2. CASE Acknowledge(i)
      <3>1. slots' = [slots EXCEPT ![i] = [slots[i] EXCEPT !.acked = scan.loaded]]
        BY <2>2 DEF Acknowledge
      <3> DEFINE t == [slots[i] EXCEPT !.acked = scan.loaded]
      <3>2. InboxKept(slots[i], t) /\ t.tag = slots[i].tag
        BY <1>0, NumbersKeepInbox
      <3>3. slots' = [slots EXCEPT ![i] = t]
        BY <3>1
      <3> HIDE DEF t
      <3> QED BY <1>0, <3>2, <3>3, OneKeepsInbox
    <2> QED BY <2>1, <2>2 DEF ServerBeat, SkipSlot, SnapshotAlreadyComplete, LoadWriteSequence, shared
  <1>3. /\ ~Visited(i) /\ SnapshotAlreadyComplete(i) => slots[i].snap = session
        /\ \/ scan'.step = "check" /\ \A j : ~Visited(j)' /\ ~At(j, "push")'
           \/ /\ scan'.slot = i /\ scan'.who = scan.who /\ scan'.step = "handle" /\ Visited(i)
           \/ /\ scan'.slot = i /\ scan'.who = slots[i].tag /\ scan'.step = "load"
              /\ IsClientSlotReady(slots[i]) /\ slots[i].snap = session
    <2>1. CASE ServerBeat
      BY <2>1 DEF ServerBeat, Idle, Visited, At, SnapshotAlreadyComplete
    <2>2. CASE SkipSlot(i) \/ Acknowledge(i)
      BY <2>2, ScanOn DEF SkipSlot, Acknowledge, SnapshotAlreadyComplete
    <2>3. CASE SnapshotAlreadyComplete(i)
      BY <1>0, <2>3 DEF SnapshotAlreadyComplete, ScanType, At
    <2>4. CASE LoadWriteSequence(i)
      <3>1. CASE slots[i].written > processed[i]
        BY <1>0, <2>4, <3>1 DEF LoadWriteSequence, SnapshotAlreadyComplete, ScanType, At, Visited
      <3>2. CASE ~(slots[i].written > processed[i])
        BY <2>4, <3>2, ScanOn DEF LoadWriteSequence, SnapshotAlreadyComplete
      <3> QED BY <3>1, <3>2
    <2> QED BY <2>1, <2>2, <2>3, <2>4
  <1>4. ScanFeed'
    <2>1. SUFFICES ASSUME NEW j \in Slots, Visited(j)'
                   PROVE  /\ IsClientSlotReady(slots'[j]) /\ scan'.who = slots'[j].tag
                          /\ scan'.step = "push" => slots'[j].snap # session'
      BY DEF ScanFeed
    <2>2. j = i
      BY <1>3, <2>1 DEF Visited
    <2>3. IsClientSlotReady(slots[i]) /\ scan'.who = slots[i].tag /\ scan'.step # "push"
      BY <1>3, <2>1, <2>2 DEF FeedInv, ScanFeed, Visited
    <2> QED BY <1>2, <2>2, <2>3 DEF InboxKept, IsClientSlotReady
  <1>5. ASSUME NEW c \in Clients, place[c] = "running"
        PROVE  (~At(slotOf[c], "push") /\ ~At(slotOf[c], "push")' /\ (Waiting(c) => Waiting(c)'))
               \/ (At(slotOf[c], "push") /\ At(slotOf[c], "push")' /\ scan'.rest = scan.rest)
    <2>1. slotOf[c] \in Slots
      BY <1>5, FeedSlot DEF Live
    <2>2. ~At(slotOf[c], "push")
      BY <2>1 DEF ServerBeat, Scanning, SkipSlot, SnapshotAlreadyComplete, LoadWriteSequence,
                  Acknowledge, At, NoSlot, Slots
    <2>3. ~At(slotOf[c], "push")'
      BY <1>3 DEF At
    <2>4. Waiting(c) => Waiting(c)'
      <3>1. Slot(c)'.snap = Slot(c).snap
        BY <1>1, <1>2, <2>1 DEF Slot, InboxKept
      <3>2. Waiting(c) => ~Visited(slotOf[c])'
        BY <1>1, <1>3 DEF Waiting, Visited, Slot
      <3> QED BY <1>1, <3>1, <3>2 DEF Waiting
    <2> QED BY <2>2, <2>3, <2>4
  <1> QED BY <1>1, <1>2, <1>4, <1>5, FeedFrames

\* A message to all slots comes to the slots that are ready.
LEMMA AllGet ==
    ASSUME NEW ss \in [Slots -> SharedClientSlot], NEW m \in Messages, NEW j \in Slots
    PROVE  /\ PublishEnvelopeToAllClients(ss, m)[j].tag = ss[j].tag
           /\ PublishEnvelopeToAllClients(ss, m)[j].named = ss[j].named
           /\ PublishEnvelopeToAllClients(ss, m)[j].snap = ss[j].snap
           /\ PublishEnvelopeToAllClients(ss, m)[j].inbox =
                IF IsClientSlotReady(ss[j]) THEN Append(ss[j].inbox, m) ELSE ss[j].inbox
  <1>1. \A q : \A s \in SharedClientSlot :
           /\ [s EXCEPT !.inbox = q].tag = s.tag /\ [s EXCEPT !.inbox = q].named = s.named
           /\ [s EXCEPT !.inbox = q].snap = s.snap /\ [s EXCEPT !.inbox = q].inbox = q
    BY DEF SharedClientSlot
  <1>2. PublishEnvelopeToAllClients(ss, m)[j] =
           IF IsClientSlotReady(ss[j]) THEN [ss[j] EXCEPT !.inbox = Append(ss[j].inbox, m)] ELSE ss[j]
    BY DEF PublishEnvelopeToAllClients
  <1> QED BY <1>1, <1>2

\* Messages to one slot come to it if it is ready.
LEMMA OneGets ==
    ASSUME NEW ss \in [Slots -> SharedClientSlot], NEW i \in Slots, NEW q \in Seq(Messages),
           NEW j \in Slots
    PROVE  /\ PublishEnvelopeToClientSlot(ss, i, q)[j].tag = ss[j].tag
           /\ PublishEnvelopeToClientSlot(ss, i, q)[j].named = ss[j].named
           /\ PublishEnvelopeToClientSlot(ss, i, q)[j].snap = ss[j].snap
           /\ PublishEnvelopeToClientSlot(ss, i, q)[j].inbox =
                IF j = i /\ IsClientSlotReady(ss[j]) THEN ss[j].inbox \o q ELSE ss[j].inbox
  <1>1. \A r : \A s \in SharedClientSlot :
           /\ [s EXCEPT !.inbox = r].tag = s.tag /\ [s EXCEPT !.inbox = r].named = s.named
           /\ [s EXCEPT !.inbox = r].snap = s.snap /\ [s EXCEPT !.inbox = r].inbox = r
    BY DEF SharedClientSlot
  <1>2. PublishEnvelopeToClientSlot(ss, i, q)[j] =
           IF j = i /\ IsClientSlotReady(ss[j]) THEN [ss[j] EXCEPT !.inbox = ss[j].inbox \o q] ELSE ss[j]
    BY DEF PublishEnvelopeToClientSlot
  <1> QED BY <1>1, <1>2

\* An update is the last that is owed.
LEMMA OwesOn ==
    ASSUME NEW q \in Seq(Messages), Updates(q), NEW m \in Messages, m.kind = "update"
    PROVE  Owes(Append(q, m), m.value)
  <1>1. /\ Len(Append(q, m)) = Len(q) + 1 /\ Len(q) \in Nat
        /\ \A n \in 1 .. Len(q) : Append(q, m)[n] = q[n]
        /\ Append(q, m)[Len(q) + 1] = m
    OBVIOUS
  <1>2. Updates(Append(q, m))
    <2>1. SUFFICES ASSUME NEW n \in 1 .. Len(q) + 1 PROVE Append(q, m)[n].kind = "update"
      BY <1>1 DEF Updates
    <2>2. n = Len(q) + 1 \/ n \in 1 .. Len(q)
      BY <1>1, <2>1
    <2> QED BY <1>1, <2>2 DEF Updates
  <1> QED BY <1>1, <1>2 DEF Owes

LEMMA OwesNothing == \A last : Owes(<<>>, last)
  BY DEF Owes, Updates

\* An update of the server's.
LEMMA FeedPublish == IpcInv /\ Steady /\ FeedInv /\ PublishFromServer => FeedInv'
  <1> SUFFICES ASSUME IpcInv, Steady, FeedInv, PublishFromServer PROVE FeedInv'
    OBVIOUS
  <1> DEFINE m == Update(nextSeq, issued + 1)
  <1>0. /\ slots \in [Slots -> SharedClientSlot] /\ nextSeq \in Nat /\ issued + 1 \in 0 .. MaxWrites
        /\ \A c \in DOMAIN queues : queues[c] \in Seq(Messages)
        /\ issued + 1 # NoValue
    BY Bounds DEF IpcInv, SlotsType, ServerType, PublishFromServer, NoValue
  <1>1. m \in Messages /\ m.kind = "update" /\ m.value = issued + 1
    BY <1>0, MessageTypes DEF Update
  <1>2. /\ latest' = issued + 1 /\ scan.slot = 0 /\ scan' = scan
        /\ queues' = [c \in DOMAIN queues |-> Append(queues[c], m)]
        /\ slots' = PublishEnvelopeToAllClients(slots, m)
        /\ UNCHANGED <<session, serverFresh, place, slotOf, phase, told, connected>>
    BY DEF PublishFromServer, Scanning, NoSlot, Enqueued, server, client, loop, history, heard
  <1> HIDE DEF m
  <1>3. \A i \in Slots : ~Visited(i) /\ ~Visited(i)' /\ ~At(i, "push") /\ ~At(i, "push")'
    BY <1>2 DEF Visited, At, Slots
  <1>4. ServerFeed'
    <2>1. \A c \in DOMAIN queues : Owes(Append(queues[c], m), m.value)
      BY <1>0, <1>1, OwesOn DEF FeedInv, ServerFeed, Owes
    <2> QED BY <1>1, <1>2, <2>1 DEF FeedInv, ServerFeed
  <1>5. ScanFeed'
    BY <1>3 DEF ScanFeed
  <1>6. ASSUME NEW c \in Clients PROVE ClientFeed(c)'
    <2>1. CASE Live(c)
      <3> DEFINE i == slotOf[c]
      <3>1. i \in Slots /\ Slot(c) = slots[i] /\ Slot(c).inbox \in Seq(Messages)
            /\ (slots[i].named => IsClientSlotReady(slots[i]))
        BY <2>1, FeedSlot
      <3>2. Slot(c)' = slots'[i] /\ slots'[i].named = slots[i].named /\ slots'[i].snap = slots[i].snap
            /\ slots'[i].inbox = IF IsClientSlotReady(slots[i]) THEN Append(slots[i].inbox, m)
                                 ELSE slots[i].inbox
        BY <1>0, <1>1, <1>2, <3>1, AllGet DEF Slot
      <3>3. ClientFeed(c) /\ ~At(i, "push") /\ ~At(i, "push")' /\ (Waiting(c) <=> Waiting(c)')
        BY <1>2, <1>3, <3>1, <3>2 DEF FeedInv, Waiting, Visited
      <3>4. CASE place[c] = "claimed"
        BY <1>2, <3>1, <3>2, <3>3, <3>4 DEF ClientFeed, IsClientSlotReady
      <3>5. CASE place[c] = "running"
        <4> DEFINE w == Waiting(c)
                   w2 == Waiting(c)'
                   a == At(i, "push")
                   a2 == At(slotOf[c], "push")'
        <4>1. /\ slots[i].named /\ ~a /\ ~a2 /\ (w <=> w2)
              /\ Delivered(phase[c], told[c], Slot(c).inbox, latest, w, a, connected[c], scan.rest)
          BY <1>2, <3>1, <3>3, <3>5 DEF ClientFeed
        <4> HIDE DEF w, w2, a, a2
        <4>2. Delivered(phase[c], told[c], Slot(c).inbox, latest, w, FALSE, connected[c], scan.rest)
          BY <4>1 DEF Delivered, Delivers
        <4>3. Delivered(phase[c], told[c], Append(Slot(c).inbox, m), m.value, w, FALSE,
                        connected[c], scan.rest)
          BY <1>0, <1>1, <3>1, <4>2, DeliveredUpdate
        <4>4. Delivered(phase[c], told[c], Append(Slot(c).inbox, m), m.value, w2, a2,
                        connected[c], scan.rest)
          BY <4>1, <4>3 DEF Delivered, Delivers
        <4>5. Slot(c)'.inbox = Append(Slot(c).inbox, m) /\ Slot(c)'.named
          BY <3>1, <3>2, <4>1
        <4> QED BY <1>1, <1>2, <3>5, <4>4, <4>5 DEF ClientFeed, w2, a2
      <3> QED BY <2>1, <3>4, <3>5 DEF Live
    <2>2. CASE ~Live(c)
      BY <1>2, <2>2 DEF ClientFeed, Live
    <2> QED BY <2>1, <2>2
  <1> QED BY <1>4, <1>5, <1>6 DEF FeedInv

\* A new session: every client waits again, or has the last value already.
LEMMA FeedRestart == IpcInv /\ Steady /\ FeedInv /\ RestartSession => FeedInv'
  <1> SUFFICES ASSUME IpcInv, Steady, FeedInv, RestartSession PROVE FeedInv'
    OBVIOUS
  <1>0. slots \in [Slots -> SharedClientSlot] /\ session \in Nat \ {0}
    BY Bounds DEF IpcInv, SlotsType, ServerType
  <1>1. /\ scan.slot = 0 /\ scan' = scan /\ session' = session + 1
        /\ queues' = [c \in DOMAIN queues |-> <<>>]
        /\ slots' = [i \in Slots |-> [slots[i] EXCEPT !.snap = 0]]
        /\ UNCHANGED <<latest, serverFresh, place, slotOf, phase, told, connected>>
    BY DEF RestartSession, Scanning, NoSlot, client, loop, history, heard
  <1>2. \A i \in Slots : ~Visited(i) /\ ~Visited(i)' /\ ~At(i, "push") /\ ~At(i, "push")'
    BY <1>1 DEF Visited, At, Slots
  <1>3. \A i \in Slots : /\ slots'[i].snap = 0 /\ slots'[i].named = slots[i].named
                         /\ slots'[i].inbox = slots[i].inbox
    BY <1>0, <1>1 DEF SharedClientSlot
  <1>4. ServerFeed'
    BY <1>1, OwesNothing DEF FeedInv, ServerFeed
  <1>5. ScanFeed'
    BY <1>2 DEF ScanFeed
  <1>6. ASSUME NEW c \in Clients PROVE ClientFeed(c)'
    <2>1. CASE Live(c)
      <3> DEFINE i == slotOf[c]
      <3>1. i \in Slots /\ Slot(c) = slots[i]
        BY <2>1, FeedSlot
      <3>2. Slot(c)' = slots'[i] /\ slots'[i].named = slots[i].named /\ slots'[i].snap = 0
            /\ slots'[i].inbox = slots[i].inbox
        BY <1>1, <1>3, <3>1 DEF Slot
      <3>3. ClientFeed(c) /\ ~At(i, "push") /\ ~At(i, "push")' /\ (Waiting(c) => Waiting(c)')
        BY <1>0, <1>1, <1>2, <3>1, <3>2 DEF FeedInv, Waiting, Visited
      <3>4. CASE place[c] = "claimed"
        BY <1>1, <3>1, <3>2, <3>3, <3>4 DEF ClientFeed
      <3>5. CASE place[c] = "running"
        <4> DEFINE w == Waiting(c)
                   w2 == Waiting(c)'
                   a == At(i, "push")
                   a2 == At(slotOf[c], "push")'
        <4>1. /\ Slot(c).named /\ ~a /\ ~a2 /\ (w => w2)
              /\ Delivered(phase[c], told[c], Slot(c).inbox, latest, w, a, connected[c], scan.rest)
          BY <1>1, <3>1, <3>3, <3>5 DEF ClientFeed
        <4> HIDE DEF w, w2, a, a2
        <4>2. Delivered(phase[c], told[c], Slot(c).inbox, latest, w2, a2, connected[c], scan.rest)
          BY <4>1 DEF Delivered, Delivers
        <4>3. Slot(c)'.inbox = Slot(c).inbox /\ Slot(c)'.named
          BY <3>1, <3>2, <4>1
        <4> QED BY <1>1, <3>5, <4>2, <4>3 DEF ClientFeed, w2, a2
      <3> QED BY <2>1, <3>4, <3>5 DEF Live
    <2>2. CASE ~Live(c)
      BY <1>1, <2>2 DEF ClientFeed, Live
    <2> QED BY <2>1, <2>2
  <1> QED BY <1>4, <1>5, <1>6 DEF FeedInv

\* A client whose slot another step of the scan leaves alone.
LEMMA FeedElsewhere ==
    ASSUME IpcInv, Steady, FeedInv, NEW c \in Clients, NEW i \in Slots, scan.slot = i,
           UNCHANGED <<place, slotOf, phase, told, connected, latest, session>>,
           Live(c) => slotOf[c] # i /\ InboxKept(slots[slotOf[c]], slots'[slotOf[c]]),
           scan'.slot = i \/ scan'.step = "check"
    PROVE  ClientFeed(c)'
  <1>1. ClientFeed(c)
    BY DEF FeedInv
  <1>2. ASSUME place[c] = "running"
        PROVE  ~At(slotOf[c], "push") /\ ~At(slotOf[c], "push")' /\ (Waiting(c) => Waiting(c)')
    <2>1. slotOf[c] # i /\ slots'[slotOf[c]].snap = slots[slotOf[c]].snap
      BY <1>2 DEF Live, InboxKept
    <2> QED BY <2>1 DEF At, Waiting, Visited, Slot
  <1>3. UNCHANGED <<place[c], slotOf[c], phase[c], told[c], connected[c], latest>>
    OBVIOUS
  <1> QED BY <1>1, <1>2, <1>3, FeedFrame

\* The slot of a dead client is cleared.
LEMMA FeedTimeOut == \A i \in Slots : IpcInv /\ Steady /\ FeedInv /\ TimeOut(i) => FeedInv'
  <1> SUFFICES ASSUME IpcInv, Steady, FeedInv, NEW i \in Slots, TimeOut(i) PROVE FeedInv'
    OBVIOUS
  <1>1. /\ At(i, "check") /\ place[slots[i].tag] = "dead" /\ NextSlot
        /\ queues' = [c \in DOMAIN queues \ {slots[i].tag} |-> queues[c]]
        /\ slots' = [slots EXCEPT ![i] = FreeSlot]
        /\ UNCHANGED <<latest, session, serverFresh, place, slotOf, phase, told, connected>>
    BY DEF TimeOut, ClearSlot, client, loop, history, heard
  <1>2. scan'.step = "check" /\ scan.slot = i
    BY <1>1, ScanOn DEF At
  <1>3. ServerFeed'
    BY <1>1 DEF FeedInv, ServerFeed
  <1>4. ScanFeed'
    BY <1>2 DEF ScanFeed, Visited
  <1>5. ASSUME NEW c \in Clients PROVE ClientFeed(c)'
    <2>1. ASSUME Live(c) PROVE slotOf[c] # i /\ InboxKept(slots[slotOf[c]], slots'[slotOf[c]])
      <3>1. slotOf[c] \in Slots /\ slots[slotOf[c]].tag = c /\ place[c] # "dead"
        BY <2>1, FeedSlot DEF Live
      <3>2. slotOf[c] # i
        BY <1>1, <3>1
      <3> QED BY <1>1, <3>1, <3>2 DEF InboxKept
    <2> QED BY <1>1, <1>2, <2>1, FeedElsewhere
  <1> QED BY <1>3, <1>4, <1>5 DEF FeedInv

\* What a running client has, by the state of its slot.
LEMMA RunningFeed ==
    ASSUME NEW c \in Clients, ClientFeed(c), place[c] = "running", NEW i, i = slotOf[c]
    PROVE  /\ Slot(c).named
           /\ ~At(i, "push") => Delivered(phase[c], told[c], Slot(c).inbox, latest, Waiting(c), FALSE,
                                          connected[c], scan.rest)
           /\ At(i, "push") => Delivered(phase[c], told[c], Slot(c).inbox, latest, Waiting(c), TRUE,
                                         connected[c], scan.rest)
  <1> DEFINE a == At(i, "push")
             w == Waiting(c)
  <1>1. Slot(c).named
        /\ Delivered(phase[c], told[c], Slot(c).inbox, latest, w, a, connected[c], scan.rest)
    BY DEF ClientFeed
  <1> HIDE DEF a, w
  <1>2. /\ ~a => Delivered(phase[c], told[c], Slot(c).inbox, latest, w, FALSE, connected[c], scan.rest)
        /\ a => Delivered(phase[c], told[c], Slot(c).inbox, latest, w, TRUE, connected[c], scan.rest)
    BY <1>1 DEF Delivered, Delivers
  <1> QED BY <1>1, <1>2 DEF a, w

\* The owner of the slot the scan has found is no client that has only claimed it.
LEMMA FoundRuns ==
    ASSUME IpcInv, Steady, FeedInv, NEW i \in Slots, IsClientSlotReady(slots[i]),
           NEW c \in Clients, Live(c), slotOf[c] = i
    PROVE  place[c] = "running"
  <1>1. slots[i] = Slot(c) /\ slots[i].named
    BY FeedSlot DEF IsClientSlotReady
  <1> QED BY <1>1 DEF FeedInv, ClientFeed, Live

\* A snapshot is made for a slot.
LEMMA FeedSnapshot == \A i \in Slots : IpcInv /\ Steady /\ FeedInv /\ PublishSnapshot(i) => FeedInv'
  <1> SUFFICES ASSUME IpcInv, Steady, FeedInv, NEW i \in Slots, PublishSnapshot(i) PROVE FeedInv'
    OBVIOUS
  <1>0. scan \in ScanType
    BY DEF IpcInv, ServerType
  <1>1. /\ At(i, "check") /\ IsClientSlotReady(slots[i]) /\ slots[i].snap # session
        /\ queues' = [c \in DOMAIN queues \cup {slots[i].tag} |->
                        IF c \in DOMAIN queues THEN queues[c] ELSE <<>>]
        /\ scan' = [scan EXCEPT !.step = "push", !.who = slots[i].tag, !.rest = Snapshot]
        /\ UNCHANGED <<latest, session, slots, serverFresh, place, slotOf, phase, told, connected>>
    BY DEF PublishSnapshot, shared, client, loop, history, heard
  <1>2. scan.slot = i /\ scan'.slot = i /\ scan'.step = "push" /\ scan'.who = slots[i].tag
        /\ scan'.rest = Snapshot
    BY <1>0, <1>1 DEF ScanType, At
  <1>3. ServerFeed'
    BY <1>1, OwesNothing DEF FeedInv, ServerFeed
  <1>4. ScanFeed'
    BY <1>1, <1>2 DEF ScanFeed, Visited
  <1>5. ASSUME NEW c \in Clients PROVE ClientFeed(c)'
    <2>1. CASE Live(c) /\ slotOf[c] = i
      <3>1. place[c] = "running" /\ ~At(i, "push")
        BY <1>1, <2>1, FoundRuns DEF At
      <3>2. /\ Slot(c).named
            /\ Delivered(phase[c], told[c], Slot(c).inbox, latest, Waiting(c), FALSE,
                         connected[c], scan.rest)
        BY <2>1, <3>1, RunningFeed DEF FeedInv
      <3>3. phase[c] \in Phases /\ told[c] \in Values /\ latest \in Values
            /\ Slot(c).inbox \in Seq(Messages)
        BY <2>1, FeedSlot
      <3> DEFINE w == Waiting(c)
      <3>4. w => ~connected[c]
        BY DEF Waiting
      <3>7. Delivered(phase[c], told[c], Slot(c).inbox, latest, w, FALSE, connected[c], scan.rest)
        BY <3>2
      <3> HIDE DEF w
      <3>5. Delivered(phase[c], told[c], Slot(c).inbox, latest, FALSE, TRUE, connected[c],
                      SnapshotOf(latest))
        BY <3>3, <3>4, <3>7, DeliveredBegin
      <3>6. SnapshotOf(latest) = scan'.rest /\ Slot(c)' = Slot(c) /\ At(slotOf[c], "push")'
        BY <1>1, <1>2, <2>1 DEF Snapshot, SnapshotOf, Slot, At
      <3> DEFINE a2 == At(slotOf[c], "push")'
                 w2 == Waiting(c)'
      <3>8. a2
        BY <3>6
      <3> HIDE DEF a2, w2
      <3>9. Delivered(phase[c], told[c], Slot(c).inbox, latest, w2, a2, connected[c], scan'.rest)
        BY <3>5, <3>6, <3>8 DEF Delivered, Delivers
      <3> QED BY <1>1, <3>1, <3>2, <3>6, <3>9 DEF ClientFeed, a2, w2
    <2>2. CASE ~(Live(c) /\ slotOf[c] = i)
      <3>1. InboxKept(slots[slotOf[c]], slots'[slotOf[c]])
        BY <1>1 DEF InboxKept
      <3> QED BY <1>1, <1>2, <2>2, <3>1, FeedElsewhere
    <2> QED BY <2>1, <2>2
  <1> QED BY <1>3, <1>4, <1>5 DEF FeedInv

\* One message of the snapshot is pushed.
LEMMA FeedPush == \A i \in Slots : IpcInv /\ Steady /\ FeedInv /\ PushSnapshot(i) => FeedInv'
  <1> SUFFICES ASSUME IpcInv, Steady, FeedInv, NEW i \in Slots, PushSnapshot(i) PROVE FeedInv'
    OBVIOUS
  <1>0. /\ scan \in ScanType /\ slots \in [Slots -> SharedClientSlot] /\ scan.rest \in Seq(Messages)
        /\ scan.rest # <<>> /\ Head(scan.rest) \in Messages /\ <<Head(scan.rest)>> \in Seq(Messages)
    <2>1. scan.rest \in Seq(Messages) /\ scan.rest # <<>>
      BY DEF IpcInv, ServerType, ScanType, PushSnapshot
    <2>2. Head(scan.rest) \in Messages
      BY <2>1, HeadTailProperties
    <2> QED BY <2>1, <2>2, ShortSequences DEF IpcInv, SlotsType, ServerType
  <1>1. /\ At(i, "push")
        /\ slots' = PublishEnvelopeToClientSlot(slots, i, <<Head(scan.rest)>>)
        /\ scan' = [scan EXCEPT !.rest = Tail(@)]
        /\ UNCHANGED <<queues, latest, session, serverFresh, place, slotOf, phase, told, connected>>
    BY DEF PushSnapshot, core, client, loop, history, heard
  <1>2. scan.slot = i /\ scan'.slot = i /\ scan'.step = "push" /\ scan'.who = scan.who
        /\ scan'.rest = Tail(scan.rest) /\ scan.step = "push"
    BY <1>0, <1>1 DEF ScanType, At
  <1>3. \A j \in Slots :
           /\ slots'[j].tag = slots[j].tag /\ slots'[j].named = slots[j].named
           /\ slots'[j].snap = slots[j].snap
           /\ slots'[j].inbox = IF j = i /\ IsClientSlotReady(slots[j])
                                THEN slots[j].inbox \o <<Head(scan.rest)>> ELSE slots[j].inbox
    <2> DEFINE q == <<Head(scan.rest)>>
    <2>1. q \in Seq(Messages) /\ slots' = PublishEnvelopeToClientSlot(slots, i, q)
      BY <1>0, <1>1
    <2> HIDE DEF q
    <2>2. \A j \in Slots :
             /\ slots'[j].tag = slots[j].tag /\ slots'[j].named = slots[j].named
             /\ slots'[j].snap = slots[j].snap
             /\ slots'[j].inbox = IF j = i /\ IsClientSlotReady(slots[j])
                                  THEN slots[j].inbox \o q ELSE slots[j].inbox
      BY <1>0, <2>1, OneGets
    <2> QED BY <2>2 DEF q
  <1>4. IsClientSlotReady(slots[i]) /\ scan.who = slots[i].tag /\ slots[i].snap # session
    BY <1>2 DEF FeedInv, ScanFeed, Visited
  <1>5. ServerFeed'
    BY <1>1 DEF FeedInv, ServerFeed
  <1>6. ScanFeed'
    BY <1>1, <1>2, <1>3, <1>4 DEF ScanFeed, Visited, IsClientSlotReady
  <1>7. ASSUME NEW c \in Clients PROVE ClientFeed(c)'
    <2>1. CASE Live(c) /\ slotOf[c] = i
      <3>1. place[c] = "running"
        BY <1>4, <2>1, FoundRuns
      <3>2. /\ Slot(c).named
            /\ Delivered(phase[c], told[c], Slot(c).inbox, latest, Waiting(c), TRUE,
                         connected[c], scan.rest)
        BY <1>1, <2>1, <3>1, RunningFeed DEF FeedInv
      <3>3. Slot(c).inbox \in Seq(Messages) /\ Slot(c) = slots[i]
        BY <2>1, FeedSlot
      <3>4. Delivered(phase[c], told[c], Append(Slot(c).inbox, Head(scan.rest)), latest, Waiting(c),
                      TRUE, connected[c], Tail(scan.rest))
        BY <1>0, <3>2, <3>3, DeliveredPush
      <3>5. Slot(c)'.inbox = Append(Slot(c).inbox, Head(scan.rest)) /\ Slot(c)'.named
        <4>1. Slot(c)'.inbox = Slot(c).inbox \o <<Head(scan.rest)>> /\ Slot(c)'.named
          BY <1>1, <1>3, <1>4, <2>1, <3>2, <3>3 DEF Slot
        <4>2. \A q \in Seq(Messages), m \in Messages : q \o <<m>> = Append(q, m)
          OBVIOUS
        <4> QED BY <1>0, <3>3, <4>1, <4>2
      <3>6. At(slotOf[c], "push")'
        BY <1>1, <1>2, <2>1 DEF At
      <3> DEFINE a2 == At(slotOf[c], "push")'
                 w2 == Waiting(c)'
                 w == Waiting(c)
      <3>7. a2 /\ Delivered(phase[c], told[c], Append(Slot(c).inbox, Head(scan.rest)), latest, w,
                            TRUE, connected[c], Tail(scan.rest))
        BY <3>4, <3>6
      <3> HIDE DEF a2, w2, w
      <3>8. Delivered(phase[c], told[c], Append(Slot(c).inbox, Head(scan.rest)), latest, w2, a2,
                      connected[c], scan'.rest)
        BY <1>2, <3>7 DEF Delivered, Delivers
      <3> QED BY <1>1, <3>1, <3>5, <3>8 DEF ClientFeed, a2, w2
    <2>2. CASE ~(Live(c) /\ slotOf[c] = i)
      <3>1. Live(c) => slotOf[c] # i /\ InboxKept(slots[slotOf[c]], slots'[slotOf[c]])
        <4>1. Live(c) => slotOf[c] \in Slots
          BY FeedSlot
        <4> QED BY <1>3, <2>2, <4>1 DEF InboxKept
      <3> QED BY <1>1, <1>2, <3>1, FeedElsewhere
    <2> QED BY <2>1, <2>2
  <1> QED BY <1>5, <1>6, <1>7 DEF FeedInv

\* The snapshot is in the slot: its client is served.
LEMMA FeedMark == \A i \in Slots : IpcInv /\ Steady /\ FeedInv /\ MarkSnapshotComplete(i) => FeedInv'
  <1> SUFFICES ASSUME IpcInv, Steady, FeedInv, NEW i \in Slots, MarkSnapshotComplete(i) PROVE FeedInv'
    OBVIOUS
  <1>0. scan \in ScanType /\ slots \in [Slots -> SharedClientSlot]
    BY DEF IpcInv, ServerType, SlotsType
  <1>1. /\ At(i, "push") /\ scan.rest = <<>>
        /\ slots' = [slots EXCEPT ![i] = [slots[i] EXCEPT !.snap = session]]
        /\ scan' = [scan EXCEPT !.step = "load"]
        /\ UNCHANGED <<queues, latest, session, serverFresh, place, slotOf, phase, told, connected>>
    BY DEF MarkSnapshotComplete, Goto, core, client, loop, history, heard
  <1>2. scan.slot = i /\ scan'.slot = i /\ scan.step = "push" /\ scan'.step = "load"
        /\ scan'.who = scan.who
    BY <1>0, <1>1 DEF ScanType, At
  <1>3. /\ slots'[i].tag = slots[i].tag /\ slots'[i].named = slots[i].named
        /\ slots'[i].inbox = slots[i].inbox
        /\ \A j \in Slots : j # i => slots'[j] = slots[j]
    BY <1>0, <1>1 DEF SharedClientSlot
  <1>4. IsClientSlotReady(slots[i]) /\ scan.who = slots[i].tag
    BY <1>2 DEF FeedInv, ScanFeed, Visited
  <1>5. ServerFeed'
    BY <1>1 DEF FeedInv, ServerFeed
  <1>6. ScanFeed'
    BY <1>2, <1>3, <1>4 DEF ScanFeed, Visited, IsClientSlotReady
  <1>7. ASSUME NEW c \in Clients PROVE ClientFeed(c)'
    <2>1. CASE Live(c) /\ slotOf[c] = i
      <3>1. place[c] = "running"
        BY <1>4, <2>1, FoundRuns
      <3>2. /\ Slot(c).named /\ Slot(c) = slots[i]
            /\ Delivered(phase[c], told[c], Slot(c).inbox, latest, Waiting(c), TRUE,
                         connected[c], <<>>)
        BY <1>1, <2>1, <3>1, RunningFeed, FeedSlot DEF FeedInv
      <3> DEFINE w == Waiting(c)
                 w2 == Waiting(c)'
                 a2 == At(slotOf[c], "push")'
      <3>3. Delivered(phase[c], told[c], Slot(c).inbox, latest, w, TRUE, connected[c], <<>>)
        BY <3>2
      <3>4. ~a2
        BY <1>1, <1>2, <2>1 DEF At
      <3> HIDE DEF w, w2, a2
      <3>5. Delivered(phase[c], told[c], Slot(c).inbox, latest, w2, FALSE, connected[c], scan'.rest)
        BY <3>3, DeliveredEnd
      <3>6. Delivered(phase[c], told[c], Slot(c).inbox, latest, w2, a2, connected[c], scan'.rest)
        BY <3>4, <3>5 DEF Delivered, Delivers
      <3>7. Slot(c)'.inbox = Slot(c).inbox /\ Slot(c)'.named
        BY <1>1, <1>3, <2>1, <3>2 DEF Slot
      <3> QED BY <1>1, <3>1, <3>6, <3>7 DEF ClientFeed, a2, w2
    <2>2. CASE ~(Live(c) /\ slotOf[c] = i)
      <3>1. Live(c) => slotOf[c] # i /\ InboxKept(slots[slotOf[c]], slots'[slotOf[c]])
        <4>1. Live(c) => slotOf[c] \in Slots
          BY FeedSlot
        <4> QED BY <1>3, <2>2, <4>1 DEF InboxKept
      <3> QED BY <1>1, <1>2, <3>1, FeedElsewhere
    <2> QED BY <2>1, <2>2
  <1> QED BY <1>5, <1>6, <1>7 DEF FeedInv

\* A client whose slot a client's step leaves alone, with the scan.
LEMMA FeedBeside ==
    ASSUME IpcInv, Steady, FeedInv, NEW d \in Clients,
           UNCHANGED <<place[d], slotOf[d], phase[d], told[d], connected[d], latest, session, scan>>,
           Live(d) => InboxKept(slots[slotOf[d]], slots'[slotOf[d]])
    PROVE  ClientFeed(d)'
  <1>1. ClientFeed(d)
    BY DEF FeedInv
  <1>2. ASSUME place[d] = "running"
        PROVE  (At(slotOf[d], "push") <=> At(slotOf[d], "push")') /\ (Waiting(d) => Waiting(d)')
    <2>1. slots'[slotOf[d]].snap = slots[slotOf[d]].snap
      BY <1>2 DEF Live, InboxKept
    <2> QED BY <2>1 DEF At, Waiting, Visited, Slot
  <1>3. place[d] = "running" =>
             \/ ~At(slotOf[d], "push") /\ ~At(slotOf[d], "push")' /\ (Waiting(d) => Waiting(d)')
             \/ At(slotOf[d], "push") /\ At(slotOf[d], "push")' /\ scan'.rest = scan.rest
    BY <1>2
  <1>4. UNCHANGED <<place[d], slotOf[d], phase[d], told[d], connected[d], latest>>
    OBVIOUS
  <1> QED BY <1>1, <1>3, <1>4, FeedFrame

\* The slot claimed was nobody's.
LEMMA FeedClaim == \A c \in Clients : IpcInv /\ Steady /\ FeedInv /\ Claim(c) => FeedInv'
  <1> SUFFICES ASSUME IpcInv, Steady, FeedInv, NEW c \in Clients, Claim(c) PROVE FeedInv'
    OBVIOUS
  <1>0. /\ slots \in [Slots -> SharedClientSlot] /\ place[c] = "off"
        /\ place \in [Clients -> {"off", "claimed", "running", "dead"}]
        /\ slotOf \in [Clients -> 0 .. SlotCount]
    BY DEF IpcInv, SlotsType, ClientType, Claim
  <1>1. PICK i \in Slots :
          /\ slots[i].tag = Nobody
          /\ slots' = [slots EXCEPT ![i] = [FreeSlot EXCEPT !.tag = c]]
          /\ slotOf' = [slotOf EXCEPT ![c] = i]
    BY DEF Claim
  <1>2. /\ place' = [place EXCEPT ![c] = "claimed"]
        /\ UNCHANGED <<queues, latest, session, scan, serverFresh, phase, told, connected>>
    BY DEF Claim, core, server, loop, history, heard
  <1>3. /\ slots'[i].inbox = <<>> /\ ~slots'[i].named /\ slots'[i].snap = 0
        /\ \A j \in Slots : j # i => slots'[j] = slots[j]
    BY <1>0, <1>1 DEF FreeSlot
  <1>4. ServerFeed'
    BY <1>2 DEF FeedInv, ServerFeed
  <1>5. ScanFeed'
    <2>1. ~Visited(i)
      BY <1>1 DEF FeedInv, ScanFeed, IsClientSlotReady
    <2>2. SUFFICES ASSUME NEW j \in Slots, Visited(j)'
                   PROVE  /\ IsClientSlotReady(slots'[j]) /\ scan'.who = slots'[j].tag
                          /\ scan'.step = "push" => slots'[j].snap # session'
      BY DEF ScanFeed
    <2>3. Visited(j) /\ j # i
      BY <1>2, <2>1, <2>2 DEF Visited
    <2> QED BY <1>2, <1>3, <2>3 DEF FeedInv, ScanFeed
  <1>6. ASSUME NEW d \in Clients PROVE ClientFeed(d)'
    <2>1. CASE d = c
      <3>1. place'[c] = "claimed" /\ Slot(c)' = slots'[i]
        BY <1>0, <1>1, <1>2 DEF Slot
      <3> QED BY <1>3, <2>1, <3>1 DEF ClientFeed
    <2>2. CASE d # c
      <3>1. place'[d] = place[d] /\ slotOf'[d] = slotOf[d]
        BY <1>0, <1>1, <1>2, <2>2
      <3>2. Live(d) => InboxKept(slots[slotOf[d]], slots'[slotOf[d]])
        <4>1. Live(d) => slotOf[d] \in Slots /\ slots[slotOf[d]].tag = d
          BY FeedSlot
        <4>2. Live(d) => slotOf[d] # i
          BY <1>1, <4>1, Bounds
        <4> QED BY <1>3, <4>1, <4>2 DEF InboxKept
      <3> QED BY <1>2, <3>1, <3>2, FeedBeside
    <2> QED BY <2>1, <2>2
  <1> QED BY <1>4, <1>5, <1>6 DEF FeedInv

\* The slot is named: its client waits for a snapshot.
LEMMA FeedAdvertise ==
    \A c \in Clients : IpcInv /\ Steady /\ FeedInv /\ CallsRun /\ Advertise(c) => FeedInv'
  <1> SUFFICES ASSUME IpcInv, Steady, FeedInv, CallsRun, NEW c \in Clients, Advertise(c) PROVE FeedInv'
    OBVIOUS
  <1>0. /\ slots \in [Slots -> SharedClientSlot] /\ place[c] = "claimed"
        /\ place \in [Clients -> {"off", "claimed", "running", "dead"}]
        /\ phase \in [Clients -> {"descriptors", "state", "live"}]
        /\ told \in [Clients -> 0 .. MaxWrites] /\ ~connected[c]
    BY DEF IpcInv, SlotsType, ClientType, Advertise, CallsRun
  <1> DEFINE i == slotOf[c]
  <1>1. /\ i \in Slots /\ slots[i].tag = c /\ Slot(c) = slots[i] /\ session \in Nat \ {0}
        /\ slots[i].inbox = <<>> /\ ~slots[i].named /\ slots[i].snap = 0
        /\ \A d \in Clients : Live(d) /\ d # c => slotOf[d] # i
    <2>1. Live(c) /\ Solo
      BY <1>0 DEF Live, Steady, Solo
    <2>2. i \in Slots /\ slots[i].tag = c /\ Slot(c) = slots[i] /\ session \in Nat \ {0}
      BY <2>1, FeedSlot
    <2>3. \A d \in Clients : Live(d) /\ d # c => slotOf[d] # i
      BY <2>1, OwnSlot
    <2>4. ClientFeed(c)
      BY DEF FeedInv
    <2> QED BY <1>0, <2>2, <2>3, <2>4 DEF ClientFeed
  <1>2. /\ place' = [place EXCEPT ![c] = "running"]
        /\ phase' = [phase EXCEPT ![c] = "descriptors"]
        /\ told' = [told EXCEPT ![c] = NoValue]
        /\ slots' = [slots EXCEPT ![i] = [slots[i] EXCEPT !.named = TRUE]]
        /\ UNCHANGED <<queues, latest, session, scan, serverFresh, slotOf, connected>>
    BY DEF Advertise, core, server
  <1> HIDE DEF i
  <1>3. /\ slots'[i].inbox = <<>> /\ slots'[i].named /\ slots'[i].snap = 0
        /\ \A j \in Slots : j # i => slots'[j] = slots[j]
    BY <1>0, <1>1, <1>2 DEF SharedClientSlot
  <1>4. ServerFeed'
    BY <1>2 DEF FeedInv, ServerFeed
  <1>5. ~Visited(i)
    BY <1>1 DEF FeedInv, ScanFeed, IsClientSlotReady
  <1>6. ScanFeed'
    <2>2. SUFFICES ASSUME NEW j \in Slots, Visited(j)'
                   PROVE  /\ IsClientSlotReady(slots'[j]) /\ scan'.who = slots'[j].tag
                          /\ scan'.step = "push" => slots'[j].snap # session'
      BY DEF ScanFeed
    <2>3. Visited(j) /\ j # i
      BY <1>2, <1>5, <2>2 DEF Visited
    <2> QED BY <1>2, <1>3, <2>3 DEF FeedInv, ScanFeed
  <1>7. ASSUME NEW d \in Clients PROVE ClientFeed(d)'
    <2>1. CASE d = c
      <3>1. place'[c] = "running" /\ phase'[c] = "descriptors" /\ told'[c] = NoValue /\ ~connected'[c]
        BY <1>0, <1>2
      <3>2. slotOf'[c] = i /\ Slot(c)' = slots'[i]
        BY <1>2 DEF i, Slot
      <3>3. Waiting(c)' /\ ~At(slotOf[c], "push")'
        BY <1>1, <1>2, <1>3, <1>5, <3>1, <3>2 DEF Waiting, Visited, At
      <3>4. Drains("descriptors", NoValue, <<>>, "descriptors", NoValue)
        BY DrainsNothing, Bounds DEF Phases, Values, NoValue
      <3> DEFINE w2 == Waiting(c)'
                 a2 == At(slotOf[c], "push")'
      <3>5. w2 /\ ~a2
        BY <3>3
      <3> HIDE DEF w2, a2
      <3>6. Delivers("descriptors", NoValue, <<>>, latest, w2, a2, connected'[c], scan'.rest,
                     "descriptors", NoValue)
        BY <3>4, <3>5 DEF Delivers
      <3>7. Delivered(phase'[c], told'[c], Slot(c)'.inbox, latest', w2, a2, connected'[c], scan'.rest)
        BY <1>2, <1>3, <3>1, <3>2, <3>6 DEF Delivered
      <3> QED BY <1>3, <2>1, <3>1, <3>2, <3>7 DEF ClientFeed, w2, a2
    <2>2. CASE d # c
      <3>1. place'[d] = place[d] /\ phase'[d] = phase[d] /\ told'[d] = told[d]
        BY <1>0, <1>2, <2>2
      <3>2. Live(d) => InboxKept(slots[slotOf[d]], slots'[slotOf[d]])
        <4>1. Live(d) => slotOf[d] \in Slots /\ slotOf[d] # i
          BY <1>1, <2>2, FeedSlot
        <4> QED BY <1>3, <4>1 DEF InboxKept
      <3> QED BY <1>2, <3>1, <3>2, FeedBeside
    <2> QED BY <2>1, <2>2
  <1> QED BY <1>4, <1>6, <1>7 DEF FeedInv

\* A client takes a message from its slot.
LEMMA FeedTake == \A c \in Clients : IpcInv /\ Steady /\ FeedInv /\ TakeMessage(c) => FeedInv'
  <1> SUFFICES ASSUME IpcInv, Steady, FeedInv, NEW c \in Clients, TakeMessage(c) PROVE FeedInv'
    OBVIOUS
  <1>0. /\ slots \in [Slots -> SharedClientSlot] /\ place[c] = "running"
        /\ phase \in [Clients -> {"descriptors", "state", "live"}]
        /\ told \in [Clients -> 0 .. MaxWrites]
        /\ connected \in [Clients -> BOOLEAN]
    BY DEF IpcInv, SlotsType, ClientType, TakeMessage, Running
  <1> DEFINE i == slotOf[c]
             q == Slot(c).inbox
             m == Head(q)
  <1>1. /\ i \in Slots /\ Slot(c) = slots[i] /\ q \in Seq(Messages) /\ q # <<>>
        /\ \A d \in Clients : Live(d) /\ d # c => slotOf[d] # i
    <2>1. Live(c) /\ Solo
      BY <1>0 DEF Live, Steady, Solo
    <2>2. \A d \in Clients : Live(d) /\ d # c => slotOf[d] # i
      BY <2>1, OwnSlot
    <2> QED BY <2>1, <2>2, FeedSlot DEF TakeMessage
  <1>2. /\ phase' = [phase EXCEPT ![c] = PhaseAfter(m.kind, phase[c])]
        /\ told' = [told EXCEPT ![c] = ViewAfter(m, phase[c], told[c])]
        /\ connected' = IF m.kind = "snapshot begin" THEN [connected EXCEPT ![c] = FALSE] ELSE connected
        /\ slots' = [slots EXCEPT ![i] = [slots[i] EXCEPT !.inbox = Tail(q)]]
        /\ UNCHANGED <<queues, latest, session, scan, serverFresh, slotOf, place>>
    <2>1. /\ phase' = [phase EXCEPT ![c] = PhaseAfter(m.kind, phase[c])]
          /\ connected' = IF m.kind = "snapshot begin" THEN [connected EXCEPT ![c] = FALSE] ELSE connected
          /\ slots' = [slots EXCEPT ![i] = [slots[i] EXCEPT !.inbox = Tail(q)]]
          /\ UNCHANGED <<queues, latest, session, scan, serverFresh, slotOf, place>>
      BY <1>1 DEF TakeMessage, core, server
    <2>2. told' = [told EXCEPT ![c] = ViewAfter(m, phase[c], told[c])]
      <3>1. CASE m.kind = "update" /\ phase[c] # "descriptors"
        BY <3>1 DEF TakeMessage, HandOn, ViewAfter
      <3>2. CASE ~(m.kind = "update" /\ phase[c] # "descriptors")
        <4>1. told' = told \/ told' = [told EXCEPT ![c] = told[c]]
          BY <3>2 DEF TakeMessage, HandOn, heard
        <4> QED BY <1>0, <3>2, <4>1 DEF ViewAfter
      <3> QED BY <3>1, <3>2
    <2> QED BY <2>1, <2>2
  <1>3. /\ slots'[i].inbox = Tail(q)
        /\ slots'[i].named = slots[i].named /\ slots'[i].snap = slots[i].snap
        /\ slots'[i].tag = slots[i].tag
        /\ \A j \in Slots : j # i => slots'[j] = slots[j]
    <2> HIDE DEF q
    <2> QED BY <1>0, <1>1, <1>2 DEF SharedClientSlot
  <1>4. ServerFeed'
    BY <1>2 DEF FeedInv, ServerFeed
  <1>5. ScanFeed'
    <2> HIDE DEF q, i
    <2>1. ASSUME NEW j \in Slots
          PROVE  /\ slots'[j].tag = slots[j].tag /\ slots'[j].named = slots[j].named
                 /\ slots'[j].snap = slots[j].snap
      BY <1>3
    <2>2. scan' = scan /\ session' = session /\ ScanFeed
      BY <1>2 DEF FeedInv
    <2> QED BY <2>1, <2>2 DEF ScanFeed, Visited, IsClientSlotReady
  <1>6. /\ phase'[c] = PhaseAfter(m.kind, phase[c]) /\ told'[c] = ViewAfter(m, phase[c], told[c])
        /\ connected'[c] => connected[c] /\ m.kind # "snapshot begin"
    BY <1>0, <1>2
  <1>7. ASSUME NEW d \in Clients PROVE ClientFeed(d)'
    <2>1. CASE d = c
      <3> DEFINE w == Waiting(c)
                 w2 == Waiting(c)'
                 a == At(i, "push")
                 a2 == At(slotOf[c], "push")'
                 j == connected[c]
                 j2 == connected'[c]
      <3>1. /\ slots[i].named
            /\ Delivered(phase[c], told[c], q, latest, w, a, j, scan.rest)
        BY <1>0, <1>1 DEF FeedInv, ClientFeed
      <3>2. (a <=> a2) /\ Slot(c)' = slots'[i]
        BY <1>2 DEF At, Slot
      <3>3. w => w2
        BY <1>1, <1>2, <1>3, <1>6, <3>2 DEF Waiting, Visited
      <3>4. j2 => j /\ m.kind # "snapshot begin"
        BY <1>6
      <3> HIDE DEF w, w2, a, a2, j, j2, q
      <3>5. Delivered(PhaseAfter(Head(q).kind, phase[c]), ViewAfter(Head(q), phase[c], told[c]),
                      Tail(q), latest, w2, a, j2, scan.rest)
        BY <1>1, <3>1, <3>3, <3>4, DeliveredTake
      <3>6. Delivered(phase'[c], told'[c], Tail(q), latest', w2, a2, j2, scan'.rest)
        BY <1>2, <1>6, <3>2, <3>5 DEF Delivered, Delivers
      <3>7. place'[c] = "running" /\ Slot(c)'.named /\ Slot(c)'.inbox = Tail(q)
        BY <1>0, <1>2, <1>3, <3>1, <3>2
      <3> QED BY <2>1, <3>6, <3>7 DEF ClientFeed, w2, a2, j2
    <2>2. CASE d # c
      <3>1. place'[d] = place[d] /\ phase'[d] = phase[d] /\ told'[d] = told[d]
            /\ connected'[d] = connected[d]
        BY <1>0, <1>2, <2>2
      <3>2. Live(d) => InboxKept(slots[slotOf[d]], slots'[slotOf[d]])
        <4>1. Live(d) => slotOf[d] \in Slots /\ slotOf[d] # i
          BY <1>1, <2>2, FeedSlot
        <4> QED BY <1>3, <4>1 DEF InboxKept
      <3> QED BY <1>2, <3>1, <3>2, FeedBeside
    <2> QED BY <2>1, <2>2
  <1> QED BY <1>4, <1>5, <1>7 DEF FeedInv

\* A client reports itself connected only when it waits for no snapshot.
LEMMA FeedConnected ==
    \A c \in Clients : IpcInv /\ Steady /\ FeedInv /\ MaybePublishConnected(c) => FeedInv'
  <1> SUFFICES ASSUME IpcInv, Steady, FeedInv, NEW c \in Clients, MaybePublishConnected(c) PROVE FeedInv'
    OBVIOUS
  <1>0. connected \in [Clients -> BOOLEAN] /\ place[c] = "running" /\ Slot(c).snap = session
    BY DEF IpcInv, ClientType, MaybePublishConnected, Running
  <1>1. /\ connected' = [connected EXCEPT ![c] = TRUE]
        /\ UNCHANGED <<queues, latest, session, scan, slots, serverFresh, slotOf, place, phase, told>>
    BY DEF MaybePublishConnected, core, server, shared, history, heard
  <1>2. ServerFeed' /\ ScanFeed'
    BY <1>1 DEF FeedInv, ServerFeed, ScanFeed, Visited
  <1>3. ASSUME NEW d \in Clients PROVE ClientFeed(d)'
    <2>1. CASE d = c
      <3>1. slotOf[c] \in Slots /\ Slot(c) = slots[slotOf[c]]
        BY <1>0, FeedSlot DEF Live
      <3>2. ~At(slotOf[c], "push")
        BY <1>0, <3>1 DEF FeedInv, ScanFeed, Visited, At
      <3> DEFINE w == Waiting(c)
                 w2 == Waiting(c)'
                 a2 == At(slotOf[c], "push")'
                 j2 == connected'[c]
      <3>3. Slot(c).named /\ ~w /\ ~a2
            /\ Delivered(phase[c], told[c], Slot(c).inbox, latest, w, FALSE, connected[c], scan.rest)
        BY <1>0, <1>1, <3>2, RunningFeed DEF FeedInv, Waiting, At
      <3> HIDE DEF w, w2, a2, j2
      <3>4. Delivered(phase[c], told[c], Slot(c).inbox, latest, w2, FALSE, j2, scan.rest)
        BY <3>3 DEF Delivered, Delivers
      <3>5. Delivered(phase[c], told[c], Slot(c).inbox, latest, w2, a2, j2, scan.rest)
        BY <3>3, <3>4 DEF Delivered, Delivers
      <3>6. Slot(c)' = Slot(c)
        BY <1>1 DEF Slot
      <3> QED BY <1>0, <1>1, <2>1, <3>3, <3>5, <3>6 DEF ClientFeed, w2, a2, j2
    <2>2. CASE d # c
      <3>1. connected'[d] = connected[d] /\ InboxKept(slots[slotOf[d]], slots'[slotOf[d]])
        BY <1>0, <1>1, <2>2 DEF InboxKept
      <3> QED BY <1>1, <3>1, FeedBeside
    <2> QED BY <2>1, <2>2
  <1> QED BY <1>2, <1>3 DEF FeedInv

\* What the core held back for the writer, the answer behind it, and an accepted write
\* once more.
LEMMA DeliveredAnswered ==
    ASSUME NEW p, NEW v, NEW q \in Seq(Messages), NEW last, NEW j, NEW r,
           Delivered(p, v, q, last, FALSE, FALSE, j, r),
           NEW held \in Seq(Messages), Owes(held, last), NEW m \in Messages,
           NEW drained \in {<<>>, Append(held, m)}
    PROVE  /\ m.kind = "update" /\ m.value # NoValue
                => Delivered(p, v, Append(q \o drained, m), m.value, FALSE, FALSE, j, r)
           /\ m.kind = "reject" => Delivered(p, v, q \o drained, last, FALSE, FALSE, j, r)
  <1>1. /\ q \o <<>> = q /\ q \o Append(held, m) = Append(q \o held, m)
        /\ q \o held \in Seq(Messages) /\ Append(q \o held, m) \in Seq(Messages)
    OBVIOUS
  <1>2. Delivered(p, v, q \o held, last, FALSE, FALSE, j, r)
    BY DeliveredHeldBack
  <1>3. CASE drained = <<>>
    <2>1. q \o drained = q
      BY <1>1, <1>3
    <2>2. m.kind = "update" /\ m.value # NoValue
             => Delivered(p, v, Append(q, m), m.value, FALSE, FALSE, j, r)
      BY DeliveredUpdate
    <2> QED BY <2>1, <2>2
  <1>4. CASE drained = Append(held, m)
    <2>1. q \o drained = Append(q \o held, m)
      BY <1>1, <1>4
    <2>2. ASSUME m.kind = "update", m.value # NoValue
          PROVE  Delivered(p, v, Append(Append(q \o held, m), m), m.value, FALSE, FALSE, j, r)
      <3>1. Delivered(p, v, Append(q \o held, m), m.value, FALSE, FALSE, j, r)
        BY <1>1, <1>2, <2>2, DeliveredUpdate
      <3> QED BY <1>1, <2>2, <3>1, DeliveredUpdate
    <2>3. m.kind = "reject" => Delivered(p, v, Append(q \o held, m), last, FALSE, FALSE, j, r)
      BY <1>1, <1>2, DeliveredRefusal
    <2> QED BY <2>1, <2>2, <2>3
  <1> QED BY <1>3, <1>4

\* What a client's write comes to: its own slot gets what was held back and the answer,
\* an accepted write goes to every slot that is ready.
LEMMA HandleBrings ==
    ASSUME IpcInv, NEW i \in Slots, HandleClientWrite(i), slots[i].mail # NoValue,
           IsClientSlotReady(slots[i]), ServerFeed
    PROVE  \E m \in Messages, held, drained \in Seq(Messages) :
             /\ drained \in {<<>>, Append(held, m)} /\ Owes(held, latest)
             /\ \/ m.kind = "update" /\ m.value # NoValue /\ latest' = m.value
                \/ m.kind = "reject" /\ latest' = latest
             /\ \A j \in Slots :
                  /\ slots'[j].tag = slots[j].tag /\ slots'[j].named = slots[j].named
                  /\ slots'[j].snap = slots[j].snap
                  /\ slots'[j].inbox =
                       IF m.kind = "update" /\ IsClientSlotReady(slots[j])
                       THEN Append(IF j = i THEN slots[j].inbox \o drained ELSE slots[j].inbox, m)
                       ELSE IF j = i THEN slots[j].inbox \o drained ELSE slots[j].inbox
             /\ \A c \in DOMAIN queues' : Owes(queues'[c], latest')
  <1> DEFINE who == scan.who
             v == slots[i].mail
             accepted == lease \in {Nobody, who}
             event == IF accepted THEN Update(nextSeq, v) ELSE Refusal(v)
             enqueued == [c \in DOMAIN queues |->
                            IF accepted \/ c = who THEN Append(queues[c], event)
                            ELSE queues[c]]
             drained == IF who \in DOMAIN queues THEN enqueued[who] ELSE <<>>
             held == IF who \in DOMAIN queues THEN queues[who] ELSE <<>>
             answered == PublishEnvelopeToClientSlot(slots, i, drained)
  <1>0. slots \in [Slots -> SharedClientSlot]
        /\ \A c \in DOMAIN queues : queues[c] \in Seq(Messages) /\ Owes(queues[c], latest)
    BY DEF IpcInv, SlotsType, ServerType, ServerFeed
  <1>1. v \in 0 .. MaxWrites /\ nextSeq \in Nat /\ v # NoValue
    BY SlotFields DEF IpcInv, SlotsType, ServerType
  <1>2. /\ event \in Messages
        /\ accepted => event.kind = "update" /\ event.value = v
        /\ ~accepted => event.kind = "reject"
    <2>1. event \in Messages
      BY <1>1, MessageTypes
    <2> QED BY <2>1 DEF Update, Refusal
  <1>3. /\ queues' = [c \in DOMAIN queues |-> IF c = who THEN <<>> ELSE enqueued[c]]
        /\ accepted => latest' = v /\ slots' = PublishEnvelopeToAllClients(answered, event)
        /\ ~accepted => latest' = latest /\ slots' = answered
    BY DEF HandleClientWrite
  <1> HIDE DEF event, accepted, v
  <1>4. drained \in {<<>>, Append(held, event)} /\ held \in Seq(Messages) /\ Owes(held, latest)
    BY <1>0, OwesNothing
  <1>5. \A c \in DOMAIN queues' : Owes(queues'[c], latest')
    <2>1. \A c \in DOMAIN queues : event.kind = "update" => Owes(Append(queues[c], event), event.value)
      BY <1>0, <1>2, OwesOn DEF Owes
    <2>2. SUFFICES ASSUME NEW c \in DOMAIN queues, c # who PROVE Owes(enqueued[c], latest')
      BY <1>3, OwesNothing
    <2>3. CASE accepted
      BY <1>2, <1>3, <2>1, <2>2, <2>3
    <2>4. CASE ~accepted
      BY <1>0, <1>3, <2>2, <2>4
    <2> QED BY <2>3, <2>4
  <1> HIDE DEF enqueued, held
  <1>6. drained \in Seq(Messages)
    <2>1. Append(held, event) \in Seq(Messages) /\ <<>> \in Seq(Messages)
      BY <1>2, <1>4, AppendProperties
    <2> HIDE DEF drained
    <2> QED BY <1>4, <2>1
  <1> HIDE DEF drained
  <1>7. answered \in [Slots -> SharedClientSlot]
    BY <1>0, <1>6, PushOne DEF OwnersKept
  <1>8. \A j \in Slots :
           /\ answered[j].tag = slots[j].tag /\ answered[j].named = slots[j].named
           /\ answered[j].snap = slots[j].snap
           /\ answered[j].inbox = IF j = i THEN slots[j].inbox \o drained ELSE slots[j].inbox
    BY <1>0, <1>6, OneGets
  <1> HIDE DEF answered
  <1>9. \A j \in Slots :
           /\ PublishEnvelopeToAllClients(answered, event)[j].tag = answered[j].tag
           /\ PublishEnvelopeToAllClients(answered, event)[j].named = answered[j].named
           /\ PublishEnvelopeToAllClients(answered, event)[j].snap = answered[j].snap
           /\ PublishEnvelopeToAllClients(answered, event)[j].inbox =
                IF IsClientSlotReady(answered[j]) THEN Append(answered[j].inbox, event)
                ELSE answered[j].inbox
    BY <1>2, <1>7, AllGet
  <1>10. \A j \in Slots : IsClientSlotReady(answered[j]) <=> IsClientSlotReady(slots[j])
    BY <1>8 DEF IsClientSlotReady
  <1>11. \A j \in Slots :
           /\ slots'[j].tag = slots[j].tag /\ slots'[j].named = slots[j].named
           /\ slots'[j].snap = slots[j].snap
           /\ slots'[j].inbox =
                IF event.kind = "update" /\ IsClientSlotReady(slots[j])
                THEN Append(IF j = i THEN slots[j].inbox \o drained ELSE slots[j].inbox, event)
                ELSE IF j = i THEN slots[j].inbox \o drained ELSE slots[j].inbox
    <2>1. CASE accepted
      BY <1>2, <1>3, <1>8, <1>9, <1>10, <2>1
    <2>2. CASE ~accepted
      BY <1>2, <1>3, <1>8, <2>2
    <2> QED BY <2>1, <2>2
  <1>12. \/ event.kind = "update" /\ event.value # NoValue /\ latest' = event.value
         \/ event.kind = "reject" /\ latest' = latest
    BY <1>1, <1>2, <1>3
  <1> QED BY <1>2, <1>4, <1>5, <1>6, <1>11, <1>12

\* A client's write is handled.
LEMMA FeedHandle == \A i \in Slots : IpcInv /\ Steady /\ FeedInv /\ HandleClientWrite(i) => FeedInv'
  <1> SUFFICES ASSUME IpcInv, Steady, FeedInv, NEW i \in Slots, HandleClientWrite(i) PROVE FeedInv'
    OBVIOUS
  <1>0. scan \in ScanType
    BY DEF IpcInv, ServerType
  <1>1. /\ At(i, "handle") /\ scan' = [scan EXCEPT !.step = "ack"]
        /\ UNCHANGED <<session, serverFresh, place, slotOf, phase, told, connected>>
    BY DEF HandleClientWrite, Goto, client, loop, heard
  <1>2. scan.slot = i /\ scan'.slot = i /\ scan.step = "handle" /\ scan'.step = "ack"
        /\ scan'.who = scan.who /\ scan'.rest = scan.rest
    BY <1>0, <1>1 DEF ScanType, At
  <1>3. /\ IsClientSlotReady(slots[i]) /\ scan.who = slots[i].tag
        /\ \A j \in Slots : Visited(j) <=> j = i
        /\ \A j \in Slots : Visited(j)' <=> j = i
        /\ \A j : ~At(j, "push") /\ ~At(j, "push")'
    <2>1. /\ \A j \in Slots : Visited(j) <=> j = i
          /\ \A j \in Slots : Visited(j)' <=> j = i
          /\ \A j : ~At(j, "push") /\ ~At(j, "push")'
      BY <1>2 DEF Visited, At
    <2> QED BY <2>1 DEF FeedInv, ScanFeed
  <1>4. CASE slots[i].mail = NoValue
    <2>1. UNCHANGED <<queues, latest, slots>>
      BY <1>4 DEF HandleClientWrite
    <2>2. ScanFeed'
      BY <1>2, <1>3, <2>1 DEF ScanFeed
    <2>3. \A c \in Clients : place[c] = "running" => slotOf[c] \in Slots
      BY FeedSlot DEF Live
    <2>4. \A c \in Clients : place[c] = "running" => (Waiting(c) => Waiting(c)')
      BY <1>1, <1>3, <2>1, <2>3 DEF Waiting, Slot
    <2>5. \A j \in Slots : InboxKept(slots[j], slots'[j])
      BY <2>1 DEF InboxKept
    <2> QED BY <1>1, <1>3, <2>1, <2>2, <2>4, <2>5, FeedFrames
  <1>5. CASE slots[i].mail # NoValue
    <2>1. PICK m \in Messages, held \in Seq(Messages), drained \in Seq(Messages) :
             /\ drained \in {<<>>, Append(held, m)} /\ Owes(held, latest)
             /\ \/ m.kind = "update" /\ m.value # NoValue /\ latest' = m.value
                \/ m.kind = "reject" /\ latest' = latest
             /\ \A j \in Slots :
                  /\ slots'[j].tag = slots[j].tag /\ slots'[j].named = slots[j].named
                  /\ slots'[j].snap = slots[j].snap
                  /\ slots'[j].inbox =
                       IF m.kind = "update" /\ IsClientSlotReady(slots[j])
                       THEN Append(IF j = i THEN slots[j].inbox \o drained ELSE slots[j].inbox, m)
                       ELSE IF j = i THEN slots[j].inbox \o drained ELSE slots[j].inbox
             /\ \A c \in DOMAIN queues' : Owes(queues'[c], latest')
      BY <1>3, <1>5, HandleBrings DEF FeedInv
    <2>2. ServerFeed'
      BY <1>1, <2>1 DEF FeedInv, ServerFeed
    <2>3. ScanFeed'
      BY <1>2, <1>3, <2>1 DEF ScanFeed, IsClientSlotReady
    <2>4. ASSUME NEW c \in Clients PROVE ClientFeed(c)'
      <3> DEFINE k == slotOf[c]
      <3>1. CASE ~Live(c)
        BY <1>1, <3>1 DEF ClientFeed, Live
      <3>2. CASE Live(c)
        <4>1. /\ k \in Slots /\ Slot(c) = slots[k] /\ Slot(c).inbox \in Seq(Messages)
              /\ slots[k].named => IsClientSlotReady(slots[k])
          BY <3>2, FeedSlot
        <4>2. Slot(c)' = slots'[k] /\ (Waiting(c) <=> Waiting(c)')
          BY <1>1, <1>3, <2>1, <4>1 DEF Waiting, Slot
        <4>3. CASE place[c] = "claimed"
          <5>1. ~slots[k].named /\ slots[k].inbox = <<>> /\ slots[k].snap = 0
            BY <4>1, <4>3 DEF FeedInv, ClientFeed
          <5>2. k # i
            BY <1>3, <5>1 DEF IsClientSlotReady
          <5> QED BY <1>1, <2>1, <4>1, <4>2, <4>3, <5>1, <5>2 DEF ClientFeed, IsClientSlotReady
        <4>4. CASE place[c] = "running"
          <5> DEFINE w == Waiting(c)
                     w2 == Waiting(c)'
                     a2 == At(slotOf[c], "push")'
                     q == Slot(c).inbox
          <5>1. /\ slots[k].named /\ (w <=> w2) /\ ~a2 /\ (k = i => ~w)
                /\ Delivered(phase[c], told[c], q, latest, w, FALSE, connected[c], scan.rest)
            BY <1>3, <4>1, <4>2, <4>4, RunningFeed DEF FeedInv, Waiting
          <5>2. IsClientSlotReady(slots[k]) /\ slots'[k].named
            BY <2>1, <4>1, <5>1
          <5> HIDE DEF w, w2, a2
          <5>3. Delivered(phase[c], told[c], slots'[k].inbox, latest', w, FALSE, connected[c], scan.rest)
            <6>1. CASE k = i
              <7>0. Delivered(phase[c], told[c], q, latest, FALSE, FALSE, connected[c], scan.rest)
                BY <5>1, <6>1 DEF Delivered, Delivers
              <7>1. /\ m.kind = "update" /\ m.value # NoValue
                          => Delivered(phase[c], told[c], Append(q \o drained, m), m.value, FALSE,
                                       FALSE, connected[c], scan.rest)
                    /\ m.kind = "reject"
                          => Delivered(phase[c], told[c], q \o drained, latest, FALSE, FALSE,
                                       connected[c], scan.rest)
                <8>1. q \in Seq(Messages) /\ Owes(held, latest) /\ drained \in {<<>>, Append(held, m)}
                  BY <2>1, <4>1
                <8> HIDE DEF q
                <8> QED BY <7>0, <8>1, DeliveredAnswered
              <7>2. slots'[k].inbox = IF m.kind = "update" THEN Append(q \o drained, m) ELSE q \o drained
                BY <2>1, <4>1, <5>2, <6>1
              <7>3. Delivered(phase[c], told[c], slots'[k].inbox, latest', FALSE, FALSE,
                              connected[c], scan.rest)
                BY <2>1, <7>1, <7>2
              <7> QED BY <7>3 DEF Delivered, Delivers
            <6>2. CASE k # i
              <7>1. slots'[k].inbox = IF m.kind = "update" THEN Append(q, m) ELSE q
                BY <2>1, <4>1, <5>2, <6>2
              <7>2. m.kind = "update" /\ m.value # NoValue
                      => Delivered(phase[c], told[c], Append(q, m), m.value, w, FALSE, connected[c],
                                   scan.rest)
                BY <2>1, <4>1, <5>1, DeliveredUpdate
              <7> QED BY <2>1, <5>1, <7>1, <7>2
            <6> QED BY <6>1, <6>2
          <5>4. Delivered(phase[c], told[c], slots'[k].inbox, latest', w2, a2, connected[c], scan'.rest)
            BY <1>2, <5>1, <5>3 DEF Delivered, Delivers
          <5> QED BY <1>1, <4>2, <4>4, <5>2, <5>4 DEF ClientFeed, w2, a2
        <4> QED BY <3>2, <4>3, <4>4 DEF Live
      <3> QED BY <3>1, <3>2
    <2> QED BY <2>2, <2>3, <2>4 DEF FeedInv
  <1> QED BY <1>4, <1>5

\* A server steady after a step was steady before it, and the step was no trouble of it.
LEMMA SteadyBefore ==
    ASSUME IpcInv, quiet \in Nat, [Next]_vars, Steady'
    PROVE  /\ Steady /\ ~ServerStart /\ ~ServerGoesQuiet
           /\ \A i \in Slots : ~TimeOutPaused(i)
  <1>1. boots = 1 /\ pauses = 0 /\ boots' = 1 /\ pauses' = 0
    BY SoloBefore DEF Steady, Solo
  <1>2. ~ServerStart /\ \A i \in Slots : ~TimeOutPaused(i)
    BY SoloSteps DEF Steady, Solo
  <1>3. ~ServerGoesQuiet
    <2>1. ServerGoesQuiet => quiet' = quiet + 1
      BY DEF ServerGoesQuiet
    <2> QED BY <2>1 DEF Steady
  <1>4. quiet' = quiet
    BY <1>2, <1>3, Troubles
  <1> QED BY <1>1, <1>2, <1>3, <1>4 DEF Steady

LEMMA FeedInit == Init => FeedInv
  <1> SUFFICES ASSUME Init PROVE FeedInv
    OBVIOUS
  <1>1. serverFresh /\ DOMAIN queues = {} /\ scan.step = "check" /\ \A c \in Clients : place[c] = "off"
    BY DEF Init, Idle
  <1> QED BY <1>1 DEF FeedInv, ServerFeed, ScanFeed, ClientFeed, Visited

\* Every slot goes on holding what its client needs, as long as no client stops.
LEMMA FeedInductive ==
    ASSUME ~MayStop, IpcInv, AckInv, OnceInv, Steady => FeedInv, [Next]_vars
    PROVE  Steady' => FeedInv'
  <1> SUFFICES ASSUME Steady' PROVE FeedInv'
    OBVIOUS
  <1>1. /\ Steady /\ CallsRun /\ FeedInv /\ ~ServerStart /\ ~ServerGoesQuiet
        /\ \A i \in Slots : ~TimeOutPaused(i)
    BY SteadyBefore DEF AckInv, OnceInv
  <1>2. 1 \in Slots
    BY Bounds DEF Slots
  <1>3. CASE ServerStep
    <2>1. CASE ServerBeat
      BY <1>1, <1>2, <2>1, FeedScanSteps
    <2>2. ASSUME NEW i \in Slots,
                 \/ SkipSlot(i) \/ SnapshotAlreadyComplete(i) \/ LoadWriteSequence(i)
                 \/ Acknowledge(i)
          PROVE  FeedInv'
      BY <1>1, <2>2, FeedScanSteps
    <2>3. ASSUME NEW i \in Slots,
                 \/ TimeOut(i) \/ PublishSnapshot(i) \/ PushSnapshot(i) \/ MarkSnapshotComplete(i)
                 \/ HandleClientWrite(i)
          PROVE  FeedInv'
      BY <1>1, <2>3, FeedTimeOut, FeedSnapshot, FeedPush, FeedMark, FeedHandle
    <2> QED BY <1>1, <1>3, <2>1, <2>2, <2>3 DEF ServerStep, ScanClients
  <1>4. CASE PublishFromServer \/ RestartSession
    BY <1>1, <1>4, FeedPublish, FeedRestart
  <1>5. ASSUME NEW c \in Clients, Claim(c) \/ Advertise(c) \/ TakeMessage(c) \/ MaybePublishConnected(c)
        PROVE  FeedInv'
    BY <1>1, <1>5, FeedClaim, FeedAdvertise, FeedTake, FeedConnected
  <1>6. ASSUME NEW c \in Clients, \/ Crash(c) \/ LookAtHeartbeat(c) \/ PublishCall(c) \/ PublishStep(c)
                                  \/ GiveUp(c)
        PROVE  FeedInv'
    BY <1>1, <1>6, FeedClientSteps DEF PublishStep
  <1>7. \A c \in Clients : ~Stop(c)
    BY DEF Stop
  <1>8. CASE UNCHANGED vars
    <2>1. UNCHANGED <<queues, latest, session, scan, slots, serverFresh, slotOf, phase, told, place,
                      connected>>
      BY <1>8 DEF vars, core, server, shared, client, loop, history, heard
    <2>2. \A i \in Slots : InboxKept(slots[i], slots'[i]) /\ slots'[i].tag = slots[i].tag
      BY <2>1 DEF InboxKept
    <2> QED BY <1>1, <2>1, <2>2, FeedStill
  <1> QED BY <1>1, <1>3, <1>4, <1>5, <1>6, <1>7, <1>8 DEF Next

\* What a client holds is what it was told, but for its own refused write.
HeardInv == \A c \in Clients : refused[c] \/ view[c] = told[c]

LEMMA HeardInductive == IpcInv /\ HeardInv /\ [Next]_vars => HeardInv'
  <1> SUFFICES ASSUME IpcInv, HeardInv, [Next]_vars PROVE HeardInv'
    OBVIOUS
  <1>0. /\ view \in [Clients -> 0 .. MaxWrites] /\ told \in [Clients -> 0 .. MaxWrites]
        /\ refused \in [Clients -> BOOLEAN]
    BY DEF IpcInv, ClientType
  <1>1. ASSUME UNCHANGED <<view, told, refused>> PROVE HeardInv'
    BY <1>1 DEF HeardInv
  <1>2. ASSUME NEW c \in Clients, Advertise(c) PROVE HeardInv'
    BY <1>0, <1>2 DEF HeardInv, Advertise
  <1>3. ASSUME NEW c \in Clients, TakeMessage(c) PROVE HeardInv'
    <2> DEFINE m == Head(Slot(c).inbox)
    <2>1. CASE UNCHANGED <<view, told, refused>>
      BY <1>1, <2>1
    <2>2. CASE ~UNCHANGED <<view, told, refused>>
      <3>1. /\ view' = [view EXCEPT ![c] = m.value]
            /\ told' = [told EXCEPT ![c] = IF m.kind = "reject" THEN told[c] ELSE m.value]
            /\ refused' = [refused EXCEPT ![c] = m.kind = "reject"]
        BY <1>3, <2>2 DEF TakeMessage, HandOn, heard
      <3> HIDE DEF m
      <3>2. \A d \in Clients : d # c => /\ view'[d] = view[d] /\ told'[d] = told[d]
                                       /\ refused'[d] = refused[d]
        BY <1>0, <3>1
      <3>3. /\ view'[c] = m.value /\ told'[c] = IF m.kind = "reject" THEN told[c] ELSE m.value
            /\ refused'[c] = (m.kind = "reject")
        BY <1>0, <3>1
      <3>4. refused'[c] \/ view'[c] = told'[c]
        BY <3>3
      <3> QED BY <3>2, <3>4 DEF HeardInv
    <2> QED BY <2>1, <2>2
  <1>4. CASE ServerStep \/ PublishFromServer \/ RestartSession \/ ServerGoesQuiet \/ ServerStart
    <2>1. UNCHANGED client /\ UNCHANGED heard
      BY <1>4 DEF ServerStep, ServerBeat, ScanClients, SkipSlot, TimeOut, TimeOutPaused, ClearSlot,
                  PublishSnapshot, PushSnapshot, MarkSnapshotComplete, SnapshotAlreadyComplete,
                  LoadWriteSequence, HandleClientWrite, Acknowledge, PublishFromServer,
                  RestartSession, ServerGoesQuiet, ServerStart, history
    <2> QED BY <1>1, <2>1 DEF client, heard
  <1>5. ASSUME NEW c \in Clients,
               \/ Claim(c) \/ Stop(c) \/ Crash(c) \/ LookAtHeartbeat(c) \/ MaybePublishConnected(c)
               \/ PublishCall(c) \/ PublishStep(c) \/ GiveUp(c)
        PROVE  HeardInv'
    <2>1. UNCHANGED view /\ UNCHANGED heard
      BY <1>5 DEF Claim, Stop, Crash, LookAtHeartbeat, MaybePublishConnected, PublishCall,
                  PublishStep, WaitAcked, WriteMail, Submit, GiveUp, history
    <2> QED BY <1>1, <2>1 DEF heard
  <1>6. CASE UNCHANGED vars
    BY <1>1, <1>6 DEF vars, client, history, heard
  <1> QED BY <1>2, <1>3, <1>4, <1>5, <1>6 DEF Next

\* Where the invariants hold, a connected client that drained its slot is up to date.
LEMMA FeedConverges == IpcInv /\ AckInv /\ HeardInv /\ Steady /\ FeedInv => Converges
  <1> SUFFICES ASSUME IpcInv, AckInv, HeardInv, Steady, FeedInv, NEW c \in Clients,
                      Running(c), connected[c], Slot(c).inbox = <<>>
               PROVE  told[c] = latest
    BY DEF Converges, UpToDate, HeardInv
  <1>1. place[c] = "running" /\ phase[c] \in Phases /\ told[c] \in Values
    BY FeedSlot DEF Running, Live
  <1> DEFINE w == Waiting(c)
             a == At(slotOf[c], "push")
             j == connected[c]
             q == Slot(c).inbox
  <1>2. Delivered(phase[c], told[c], q, latest, w, a, j, scan.rest)
    BY <1>1 DEF FeedInv, ClientFeed
  <1>3. j /\ (w => ~j) /\ q = <<>>
    BY DEF Waiting
  <1> HIDE DEF w, a, j, q
  <1>4. Delivered(phase[c], told[c], <<>>, latest, w, a, j, scan.rest)
    BY <1>2, <1>3
  <1>5. j /\ ~w
    BY <1>3
  <1>6. Delivered(phase[c], told[c], <<>>, latest, FALSE, a, TRUE, scan.rest)
    BY <1>4, <1>5 DEF Delivered, Delivers
  <1> QED BY <1>1, <1>6, DeliveredDrained

\* A connected client that drained its slot was told the latest value, and holds it or
\* the value of its own write that was refused since, after any sessions, crashes,
\* time-outs and writes of others: where clients do not stop in an orderly way,
\* as long as one server process lives, its heartbeat is never seen stale and no pause of
\* a client is taken for its death.
THEOREM SettledClientsHoldTheLast ==
    ASSUME ~MayStop
    PROVE  Spec => [](Steady => Converges)
  <1> DEFINE I == IpcInv /\ AckInv /\ OnceInv /\ HeardInv /\ (Steady => FeedInv)
  <1>1. Init => I
    <2>1. Init => HeardInv
      BY DEF Init, HeardInv
    <2> QED BY <2>1, IpcInit, AckInit, OnceInit, FeedInit
  <1>2. I /\ [Next]_vars => I'
    <2> SUFFICES ASSUME I, [Next]_vars PROVE I'
      OBVIOUS
    <2>1. IpcInv' /\ AckInv' /\ OnceInv' /\ HeardInv'
      BY IpcInductive, AckInductive, OnceInductive, HeardInductive
    <2>2. Steady' => FeedInv'
      BY FeedInductive
    <2> QED BY <2>1, <2>2
  <1>3. I => (Steady => Converges)
    BY FeedConverges
  <1> HIDE DEF I
  <1> QED BY <1>1, <1>2, <1>3, PTL DEF Spec
=============================================================================
