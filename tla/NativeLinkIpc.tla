----------------------------- MODULE NativeLinkIpc -----------------------------
(***************************************************************************)
(* The shared-memory carrier of the Native Link transport: the server        *)
(* (native_link_ipc_test_server.cpp) scans the client slots under its mutex,  *)
(* and each client process (native_link_ipc_client.cpp) has a worker that      *)
(* drains its slot and an application's thread that publishes into it.         *)
(*                                                                            *)
(* A step is one message put into or taken from a slot, or one access to the   *)
(* slot's other fields; the stores of one claim, one stop, one time-out and     *)
(* one published update are merged.  Inside the server is the core of           *)
(* NativeLinkCore, here with one replayed state topic that clients write        *)
(* under a lease.                                                              *)
(* Values are the numbers of the writes, in the order they were begun.          *)
(***************************************************************************)
EXTENDS Integers, Sequences, FiniteSets

CONSTANTS
    Clients,        \* client processes
    Nobody,         \* no client
    SlotCount,      \* kMaxClients
    MayStop,        \* clients stop in an orderly way
    MayCrash,       \* client processes die
    MaxStarts,      \* bound: client starts
    MaxWrites,      \* bound: values published, by clients and server together
    MaxSession,     \* bound: server sessions
    MaxQuiet,       \* bound: server heartbeats going stale
    MaxBoots,       \* bound: server processes
    MaxPauses,      \* bound: living clients that lose their slot to a pause
    MaxEvents       \* bound: publications and the server's troubles together

ASSUME IpcAssumption ==
    /\ Nobody \notin Clients
    /\ SlotCount \in Nat \ {0} /\ MaxSession \in Nat \ {0}
    /\ MayStop \in BOOLEAN /\ MayCrash \in BOOLEAN
    /\ {MaxStarts, MaxWrites, MaxQuiet, MaxBoots, MaxPauses, MaxEvents} \subseteq Nat

Slots == 1 .. SlotCount
NoValue == 0
NoSlot == 0

VARIABLES
    \* the server's core
    session,        \* m_serverSessionId, also shared->serverSessionId
    nextSeq,        \* m_nextServerSequence
    latest,         \* the topic's latestValue
    lease,          \* leaseHolderClientId
    queues,         \* connected client -> pendingEvents
    \* the server's thread
    scan,           \* ScanClientsLocked: the slot, the step, clientId, what is left of a
                    \* snapshot, the sequence loaded
    processed,      \* lastProcessedClientWriteSequence
    \* shared memory
    slots,          \* the SharedClientSlots
    serverFresh,    \* lastServerHeartbeatUs is recent
    \* the clients
    place,          \* "off", "claimed", "running", "dead"
    slotOf,         \* slotIndex
    phase,          \* snapshotPhase
    connected,
    alive,          \* serverAlive
    submitted,      \* lastSubmittedWriteSequence
    call,           \* where Publish is
    value,          \* its argument
    view,           \* the value last handed to onUpdate
    \* counters behind the bounds, and history
    issued, starts, quiet, boots, pauses,
    handled,        \* the client writes HandleClientWriteLocked took, in order
    sent,           \* client -> the write it submitted last
    told,           \* client -> the value last handed to onUpdate but by a refusal
    refused         \* client -> the last call of onUpdate was by a refusal

core == <<session, nextSeq, latest, lease, queues>>
server == <<scan, processed>>
shared == <<slots, serverFresh>>
loop == <<phase, connected, alive, submitted>>
publishing == <<call, value>>
client == <<place, slotOf, loop, publishing, view>>
bounds == <<issued, starts, quiet, boots, pauses>>
heard == <<told, refused>>
history == <<handled, sent, heard>>
vars == <<core, server, shared, client, bounds, history>>

FreeSlot == [tag |-> Nobody, named |-> FALSE, snap |-> 0, acked |-> 0,
             inbox |-> <<>>, written |-> 0, mail |-> NoValue]

\* clientId and heartbeat are published last, so both are there or neither.
IsClientSlotReady(slot) == slot.tag # Nobody /\ slot.named

Marker(kind) == [kind |-> kind, seq |-> 0, value |-> NoValue]
Update(seq, v) == [kind |-> "update", seq |-> seq, value |-> v]
Refusal(v) == [kind |-> "reject", seq |-> 0, value |-> v]


\* What the bounds count: values published, session restarts, pauses of the
\* server, new server processes and pauses of clients.
MayHappen == issued + (session - 1) + quiet + (boots - 1) + pauses < MaxEvents

-----------------------------------------------------------------------------
(* What the server puts into slots *)

PublishEnvelopeToClientSlot(ss, i, messages) ==
    IF IsClientSlotReady(ss[i]) THEN [ss EXCEPT ![i].inbox = @ \o messages] ELSE ss

PublishEnvelopeToAllClients(ss, message) ==
    [i \in Slots |-> IF IsClientSlotReady(ss[i])
                     THEN [ss[i] EXCEPT !.inbox = Append(@, message)]
                     ELSE ss[i]]

Snapshot ==
    <<Marker("snapshot begin"), Marker("state begin")>>
    \o (IF latest = NoValue THEN <<>> ELSE <<Update(0, latest)>>)
    \o <<Marker("live begin")>>

\* EnqueueLiveEvent of the core.
Enqueued(message) == [c \in DOMAIN queues |-> Append(queues[c], message)]

-----------------------------------------------------------------------------
(* The server *)

\* PublishFromServer waits for the mutex a scan holds.
Scanning == scan.slot # NoSlot

PublishFromServer ==
    /\ ~Scanning
    /\ MayHappen /\ issued < MaxWrites
    /\ issued' = issued + 1
    /\ latest' = issued + 1
    /\ nextSeq' = nextSeq + 1
    /\ queues' = Enqueued(Update(nextSeq, issued + 1))
    /\ slots' = PublishEnvelopeToAllClients(slots, Update(nextSeq, issued + 1))
    /\ UNCHANGED <<session, lease, server, serverFresh, client, starts, quiet, boots, pauses, history>>

\* A write submitted and not handled yet counts as processed.
RestartSession ==
    /\ ~Scanning
    /\ MayHappen /\ session < MaxSession
    /\ session' = session + 1
    /\ nextSeq' = 1
    /\ lease' = Nobody
    /\ queues' = [c \in DOMAIN queues |-> <<>>]
    /\ slots' = [i \in Slots |-> [slots[i] EXCEPT !.snap = 0]]
    /\ processed' = [i \in Slots |-> slots[i].written]
    /\ UNCHANGED <<latest, scan, serverFresh, client, bounds, history>>

Idle == [slot |-> NoSlot, step |-> "check", who |-> Nobody, rest |-> <<>>, loaded |-> 0]

At(i, step) == scan.slot = i /\ scan.step = step
Goto(step) == scan' = [scan EXCEPT !.step = step]
NextSlot ==
    scan' = IF scan.slot = SlotCount THEN Idle ELSE [Idle EXCEPT !.slot = scan.slot + 1]

\* The heartbeat, then the scan.
ServerBeat ==
    /\ ~Scanning
    /\ serverFresh' = TRUE
    /\ scan' = [Idle EXCEPT !.slot = 1]
    /\ UNCHANGED <<core, processed, slots, client, bounds, history>>

\* The server's thread is held up for longer than a client waits.
ServerGoesQuiet ==
    /\ serverFresh
    /\ MayHappen /\ quiet < MaxQuiet
    /\ quiet' = quiet + 1
    /\ serverFresh' = FALSE
    /\ UNCHANGED <<core, server, slots, client, issued, starts, boots, pauses, history>>

SkipSlot(i) ==
    /\ At(i, "check")
    /\ ~IsClientSlotReady(slots[i])
    /\ NextSlot
    /\ UNCHANGED <<core, processed, shared, client, bounds, history>>

\* The heartbeat of the slot's owner is older than five seconds.
ClearSlot(i) ==
    /\ At(i, "check")
    /\ IsClientSlotReady(slots[i])
    /\ queues' = [c \in DOMAIN queues \ {slots[i].tag} |-> queues[c]]
    /\ slots' = [slots EXCEPT ![i] = FreeSlot]
    /\ NextSlot
    /\ UNCHANGED <<session, nextSeq, latest, lease, processed, serverFresh, client,
                   issued, starts, quiet, boots, history>>

TimeOut(i) ==
    /\ ClearSlot(i)
    /\ place[slots[i].tag] = "dead"
    /\ UNCHANGED pauses

\* The same of a client that lives and was only paused for that long: it goes on
\* with the slot, which another client may claim.
TimeOutPaused(i) ==
    /\ ClearSlot(i)
    /\ place[slots[i].tag] # "dead"
    /\ MayHappen /\ pauses < MaxPauses
    /\ pauses' = pauses + 1

\* PublishSnapshotForClientLocked, which connects the client to the core.
PublishSnapshot(i) ==
    /\ At(i, "check")
    /\ IsClientSlotReady(slots[i])
    /\ slots[i].snap # session
    /\ LET who == slots[i].tag IN
       /\ queues' = [c \in DOMAIN queues \cup {who} |->
                       IF c \in DOMAIN queues THEN queues[c] ELSE <<>>]
       /\ scan' = [scan EXCEPT !.step = "push", !.who = who, !.rest = Snapshot]
    /\ UNCHANGED <<session, nextSeq, latest, lease, processed, shared, client, bounds, history>>

\* One message of it, if the slot has an owner by then.
PushSnapshot(i) ==
    /\ At(i, "push")
    /\ scan.rest # <<>>
    /\ slots' = PublishEnvelopeToClientSlot(slots, i, <<Head(scan.rest)>>)
    /\ scan' = [scan EXCEPT !.rest = Tail(@)]
    /\ UNCHANGED <<core, processed, serverFresh, client, bounds, history>>

MarkSnapshotComplete(i) ==
    /\ At(i, "push")
    /\ scan.rest = <<>>
    /\ slots' = [slots EXCEPT ![i].snap = session]
    /\ Goto("load")
    /\ UNCHANGED <<core, processed, serverFresh, client, bounds, history>>

SnapshotAlreadyComplete(i) ==
    /\ At(i, "check")
    /\ IsClientSlotReady(slots[i])
    /\ slots[i].snap = session
    /\ scan' = [scan EXCEPT !.step = "load", !.who = slots[i].tag]
    /\ UNCHANGED <<core, processed, shared, client, bounds, history>>

\* Variant: the client is told before the write is handled.
LoadWriteSequenceAcking(i) ==
    /\ At(i, "load")
    /\ IF slots[i].written > processed[i]
       THEN /\ scan' = [scan EXCEPT !.step = "handle", !.loaded = slots[i].written]
            /\ slots' = [slots EXCEPT ![i].acked = slots[i].written]
       ELSE NextSlot /\ UNCHANGED slots
    /\ UNCHANGED <<core, processed, serverFresh, client, bounds, history>>

LoadWriteSequence(i) ==
    /\ At(i, "load")
    /\ IF slots[i].written > processed[i]
       THEN scan' = [scan EXCEPT !.step = "handle", !.loaded = slots[i].written]
       ELSE NextSlot
    /\ UNCHANGED <<core, processed, shared, client, bounds, history>>

\* A free lease is taken for the writer.  What the core then holds for the
\* writer goes to its slot, and an accepted write to every slot.
HandleClientWrite(i) ==
    /\ At(i, "handle")
    /\ LET who      == scan.who
           v        == slots[i].mail
           accepted == lease \in {Nobody, who}
           event    == IF accepted THEN Update(nextSeq, v) ELSE Refusal(v)
           enqueued == [c \in DOMAIN queues |->
                          IF accepted \/ c = who THEN Append(queues[c], event) ELSE queues[c]]
           drained  == IF who \in DOMAIN queues THEN enqueued[who] ELSE <<>>
           answered == PublishEnvelopeToClientSlot(slots, i, drained)
       IN  IF v = NoValue
           THEN UNCHANGED <<nextSeq, latest, lease, queues, slots, handled>>
           ELSE /\ handled' = Append(handled, v)
                /\ lease' = IF lease = Nobody THEN who ELSE lease
                /\ queues' = [c \in DOMAIN queues |-> IF c = who THEN <<>> ELSE enqueued[c]]
                /\ IF accepted
                   THEN /\ latest' = v
                        /\ nextSeq' = nextSeq + 1
                        /\ slots' = PublishEnvelopeToAllClients(answered, event)
                   ELSE /\ slots' = answered
                        /\ UNCHANGED <<latest, nextSeq>>
    /\ Goto("ack")
    /\ UNCHANGED <<session, processed, serverFresh, client, bounds, sent, heard>>

\* Variant: the progress is forgotten.
AcknowledgeForgetful(i) ==
    /\ At(i, "ack")
    /\ slots' = [slots EXCEPT ![i].acked = scan.loaded]
    /\ NextSlot
    /\ UNCHANGED <<core, processed, serverFresh, client, bounds, history>>

Acknowledge(i) ==
    /\ At(i, "ack")
    /\ processed' = [processed EXCEPT ![i] = scan.loaded]
    /\ slots' = [slots EXCEPT ![i].acked = scan.loaded]
    /\ NextSlot
    /\ UNCHANGED <<core, serverFresh, client, bounds, history>>

ScanClients ==
    \E i \in Slots : \/ SkipSlot(i) \/ TimeOut(i) \/ TimeOutPaused(i) \/ PublishSnapshot(i)
                     \/ PushSnapshot(i) \/ MarkSnapshotComplete(i) \/ SnapshotAlreadyComplete(i)
                     \/ LoadWriteSequence(i) \/ HandleClientWrite(i) \/ Acknowledge(i)

\* The server's process ends and another starts, over memory that the clients
\* keep alive: it is cleared, and the core is a new one.
ServerStart ==
    /\ MayHappen /\ boots < MaxBoots
    /\ boots' = boots + 1
    /\ session' = 1 /\ nextSeq' = 1 /\ latest' = NoValue /\ lease' = Nobody
    /\ queues' = [c \in {} |-> <<>>]
    /\ scan' = Idle
    /\ processed' = [i \in Slots |-> 0]
    /\ slots' = [i \in Slots |-> FreeSlot]
    /\ serverFresh' = TRUE
    /\ UNCHANGED <<client, issued, starts, quiet, pauses, history>>

-----------------------------------------------------------------------------
(* A client's start and end *)

\* Variant: a slot is free until its owner has written its name.
ClaimUnnamed(c) ==
    /\ place[c] = "off"
    /\ starts < MaxStarts
    /\ starts' = starts + 1
    /\ \E i \in Slots :
          /\ ~slots[i].named
          /\ \A j \in 1 .. i - 1 : slots[j].named
          /\ slots' = [slots EXCEPT ![i] = [FreeSlot EXCEPT !.tag = c]]
          /\ slotOf' = [slotOf EXCEPT ![c] = i]
    /\ place' = [place EXCEPT ![c] = "claimed"]
    /\ UNCHANGED <<core, server, serverFresh, loop, publishing, view, issued, quiet, boots,
                   pauses, history>>

\* Variant: slots numbered from the other end of the array.
ClaimOffByOne(c) ==
    /\ place[c] = "off"
    /\ starts < MaxStarts
    /\ starts' = starts + 1
    /\ \E i \in Slots :
          /\ slots[i].tag = Nobody
          /\ \A j \in 1 .. i - 1 : slots[j].tag # Nobody
          /\ slots' = [slots EXCEPT ![i] = [FreeSlot EXCEPT !.tag = c]]
          /\ slotOf' = [slotOf EXCEPT ![c] = i + 1]
    /\ place' = [place EXCEPT ![c] = "claimed"]
    /\ UNCHANGED <<core, server, serverFresh, loop, publishing, view, issued, quiet, boots,
                   pauses, history>>

\* The first slot whose tag the compare-and-swap finds zero, cleared.
Claim(c) ==
    /\ place[c] = "off"
    /\ starts < MaxStarts
    /\ starts' = starts + 1
    /\ \E i \in Slots :
          /\ slots[i].tag = Nobody
          /\ \A j \in 1 .. i - 1 : slots[j].tag # Nobody
          /\ slots' = [slots EXCEPT ![i] = [FreeSlot EXCEPT !.tag = c]]
          /\ slotOf' = [slotOf EXCEPT ![c] = i]
    /\ place' = [place EXCEPT ![c] = "claimed"]
    /\ UNCHANGED <<core, server, serverFresh, loop, publishing, view, issued, quiet, boots,
                   pauses, history>>

Advertise(c) ==
    /\ place[c] = "claimed"
    /\ slots' = [slots EXCEPT ![slotOf[c]].named = TRUE]
    /\ submitted' = [submitted EXCEPT ![c] = 0]
    /\ phase' = [phase EXCEPT ![c] = "descriptors"]
    /\ view' = [view EXCEPT ![c] = NoValue]
    /\ place' = [place EXCEPT ![c] = "running"]
    /\ sent' = [sent EXCEPT ![c] = NoValue]
    /\ told' = [told EXCEPT ![c] = NoValue]
    /\ refused' = [refused EXCEPT ![c] = FALSE]
    /\ UNCHANGED <<core, server, serverFresh, slotOf, connected, alive, publishing,
                   bounds, handled>>

\* Called while no Publish is under way.
Stop(c) ==
    /\ MayStop
    /\ place[c] = "running" /\ call[c] = "idle"
    /\ connected' = [connected EXCEPT ![c] = FALSE]
    /\ slots' = [slots EXCEPT ![slotOf[c]] = FreeSlot]
    /\ slotOf' = [slotOf EXCEPT ![c] = NoSlot]
    /\ submitted' = [submitted EXCEPT ![c] = 0]
    /\ place' = [place EXCEPT ![c] = "off"]
    /\ UNCHANGED <<core, server, serverFresh, phase, alive, publishing, view, bounds, history>>

\* The process dies and its slot stays claimed.
Crash(c) ==
    /\ MayCrash
    /\ place[c] \in {"claimed", "running"}
    /\ place' = [place EXCEPT ![c] = "dead"]
    /\ connected' = [connected EXCEPT ![c] = FALSE]
    /\ call' = [call EXCEPT ![c] = "idle"]
    /\ UNCHANGED <<core, server, shared, slotOf, phase, alive, submitted, value, view,
                   bounds, history>>

-----------------------------------------------------------------------------
(* A client's worker.  Each turn of its loop looks at the heartbeat, drains    *)
(* what it finds and may report itself connected; a message that arrives        *)
(* behind a drain is found in the next turn, so turns need no boundaries.       *)

Running(c) == place[c] = "running"
Slot(c) == slots[slotOf[c]]

\* A stale server puts the client back to waiting for a snapshot, in every turn.
LookAtHeartbeat(c) ==
    /\ Running(c)
    /\ alive' = [alive EXCEPT ![c] = serverFresh]
    /\ IF serverFresh
       THEN UNCHANGED <<phase, submitted, connected>>
       ELSE /\ phase' = [phase EXCEPT ![c] = "descriptors"]
            /\ submitted' = [submitted EXCEPT ![c] = 0]
            /\ connected' = [connected EXCEPT ![c] = FALSE]
    /\ UNCHANGED <<core, server, shared, place, slotOf, publishing, view, bounds, history>>

PhaseAfter(kind, current) ==
    CASE kind = "snapshot begin" -> "descriptors"
      [] kind = "state begin"    -> "state"
      [] kind = "live begin"     -> "live"
      [] kind \in {"update", "reject"} -> current

\* onUpdate gets the value, also that of a write the core refused its writer.
HandOn(c, m) ==
    /\ view' = [view EXCEPT ![c] = m.value]
    /\ told' = [told EXCEPT ![c] = IF m.kind = "reject" THEN @ ELSE m.value]
    /\ refused' = [refused EXCEPT ![c] = m.kind = "reject"]

\* Variant: only live updates are handed on.
TakeMessageLiveOnly(c) ==
    /\ Running(c)
    /\ Slot(c).inbox # <<>>
    /\ LET m == Head(Slot(c).inbox) IN
       /\ phase' = [phase EXCEPT ![c] = PhaseAfter(m.kind, @)]
       /\ IF m.kind = "snapshot begin"
          THEN /\ submitted' = [submitted EXCEPT ![c] = 0]
               /\ connected' = [connected EXCEPT ![c] = FALSE]
          ELSE UNCHANGED <<submitted, connected>>
       /\ IF m.kind \in {"update", "reject"} /\ phase[c] = "live"
          THEN HandOn(c, m)
          ELSE UNCHANGED <<view, heard>>
    /\ slots' = [slots EXCEPT ![slotOf[c]].inbox = Tail(@)]
    /\ UNCHANGED <<core, server, serverFresh, place, slotOf, alive, publishing, bounds, handled,
                   sent>>

\* Variant: the live boundary counts only if the snapshot is complete by then.
TakeMessageGated(c) ==
    /\ Running(c)
    /\ Slot(c).inbox # <<>>
    /\ LET m == Head(Slot(c).inbox) IN
       /\ phase' = [phase EXCEPT ![c] = IF m.kind = "live begin" /\ Slot(c).snap # session
                                        THEN @ ELSE PhaseAfter(m.kind, @)]
       /\ IF m.kind = "snapshot begin"
          THEN /\ submitted' = [submitted EXCEPT ![c] = 0]
               /\ connected' = [connected EXCEPT ![c] = FALSE]
          ELSE UNCHANGED <<submitted, connected>>
       /\ IF m.kind \in {"update", "reject"} /\ phase[c] # "descriptors"
          THEN HandOn(c, m)
          ELSE UNCHANGED <<view, heard>>
    /\ slots' = [slots EXCEPT ![slotOf[c]].inbox = Tail(@)]
    /\ UNCHANGED <<core, server, serverFresh, place, slotOf, alive, publishing, bounds, handled,
                   sent>>

\* DrainMessages, one message at a time.
TakeMessage(c) ==
    /\ Running(c)
    /\ Slot(c).inbox # <<>>
    /\ LET m == Head(Slot(c).inbox) IN
       /\ phase' = [phase EXCEPT ![c] = PhaseAfter(m.kind, @)]
       /\ IF m.kind = "snapshot begin"
          THEN /\ submitted' = [submitted EXCEPT ![c] = 0]
               /\ connected' = [connected EXCEPT ![c] = FALSE]
          ELSE UNCHANGED <<submitted, connected>>
       /\ IF m.kind \in {"update", "reject"} /\ phase[c] # "descriptors"
          THEN HandOn(c, m)
          ELSE UNCHANGED <<view, heard>>
    /\ slots' = [slots EXCEPT ![slotOf[c]].inbox = Tail(@)]
    /\ UNCHANGED <<core, server, serverFresh, place, slotOf, alive, publishing, bounds, handled,
                   sent>>

MaybePublishConnected(c) ==
    /\ Running(c) /\ ~connected[c]
    /\ alive[c] /\ phase[c] = "live"
    /\ Slot(c).snap = session
    /\ connected' = [connected EXCEPT ![c] = TRUE]
    /\ UNCHANGED <<core, server, shared, place, slotOf, phase, alive, submitted, publishing,
                   view, bounds, history>>

-----------------------------------------------------------------------------
(* Publish, on the application's thread *)

PublishCall(c) ==
    /\ Running(c) /\ call[c] = "idle"
    /\ IsClientSlotReady(Slot(c)) /\ connected[c]
    /\ MayHappen /\ issued < MaxWrites
    /\ issued' = issued + 1
    /\ value' = [value EXCEPT ![c] = issued + 1]
    /\ call' = [call EXCEPT ![c] = IF submitted[c] # 0 THEN "wait" ELSE "write"]
    /\ UNCHANGED <<core, server, shared, place, slotOf, loop, view, starts, quiet, boots, pauses,
                   history>>

WaitAcked(c) ==
    /\ Running(c) /\ call[c] = "wait"
    /\ Slot(c).acked >= submitted[c]
    /\ call' = [call EXCEPT ![c] = "write"]
    /\ UNCHANGED <<core, server, shared, place, slotOf, loop, value, view, bounds, history>>

\* Two seconds without the acknowledgement: Publish returns false.
GiveUp(c) ==
    /\ Running(c) /\ call[c] = "wait"
    /\ Slot(c).acked < submitted[c]
    /\ call' = [call EXCEPT ![c] = "idle"]
    /\ UNCHANGED <<core, server, shared, place, slotOf, loop, value, view, bounds, history>>

WriteMail(c) ==
    /\ Running(c) /\ call[c] = "write"
    /\ slots' = [slots EXCEPT ![slotOf[c]].mail = value[c]]
    /\ call' = [call EXCEPT ![c] = "submit"]
    /\ UNCHANGED <<core, server, serverFresh, place, slotOf, loop, value, view, bounds, history>>

Submit(c) ==
    /\ Running(c) /\ call[c] = "submit"
    /\ LET last == IF Slot(c).written > Slot(c).acked THEN Slot(c).written ELSE Slot(c).acked
       IN  /\ slots' = [slots EXCEPT ![slotOf[c]].written = last + 1]
           /\ submitted' = [submitted EXCEPT ![c] = last + 1]
    /\ sent' = [sent EXCEPT ![c] = value[c]]
    /\ call' = [call EXCEPT ![c] = "idle"]
    /\ UNCHANGED <<core, server, serverFresh, place, slotOf, phase, connected, alive, value,
                   view, bounds, handled, heard>>

-----------------------------------------------------------------------------
Init ==
    /\ session = 1 /\ nextSeq = 1 /\ latest = NoValue /\ lease = Nobody
    /\ queues = [c \in {} |-> <<>>]
    /\ scan = Idle
    /\ processed = [i \in Slots |-> 0]
    /\ slots = [i \in Slots |-> FreeSlot]
    /\ serverFresh = TRUE
    /\ place = [c \in Clients |-> "off"]
    /\ slotOf = [c \in Clients |-> NoSlot]
    /\ phase = [c \in Clients |-> "descriptors"]
    /\ connected = [c \in Clients |-> FALSE]
    /\ alive = [c \in Clients |-> FALSE]
    /\ submitted = [c \in Clients |-> 0]
    /\ call = [c \in Clients |-> "idle"]
    /\ value = [c \in Clients |-> NoValue]
    /\ view = [c \in Clients |-> NoValue]
    /\ issued = 0 /\ starts = 0 /\ quiet = 0 /\ boots = 1 /\ pauses = 0
    /\ handled = <<>>
    /\ sent = [c \in Clients |-> NoValue] /\ told = [c \in Clients |-> NoValue]
    /\ refused = [c \in Clients |-> FALSE]

PublishStep(c) == WaitAcked(c) \/ WriteMail(c) \/ Submit(c)
ServerStep == ServerBeat \/ ScanClients

Next ==
    \/ ServerStep
    \/ PublishFromServer \/ RestartSession \/ ServerGoesQuiet \/ ServerStart
    \/ \E c \in Clients :
          \/ Claim(c) \/ Advertise(c) \/ Stop(c) \/ Crash(c)
          \/ LookAtHeartbeat(c) \/ TakeMessage(c) \/ MaybePublishConnected(c)
          \/ PublishCall(c) \/ PublishStep(c) \/ GiveUp(c)

Spec == Init /\ [][Next]_vars

\* The server loops, a client's worker loops and a Publish call ends; a dead
\* client's heartbeat grows old in the end, whatever the scan found before.
Fairness ==
    /\ WF_vars(ServerStep)
    /\ \A i \in Slots : SF_vars(TimeOut(i))
    /\ \A c \in Clients :
          /\ WF_vars(Advertise(c)) /\ WF_vars(LookAtHeartbeat(c))
          /\ WF_vars(TakeMessage(c)) /\ WF_vars(MaybePublishConnected(c))
          /\ WF_vars(PublishStep(c) \/ GiveUp(c))

FairSpec == Spec /\ Fairness

-----------------------------------------------------------------------------
(* Properties *)

Messages == [kind : {"snapshot begin", "state begin", "live begin", "update", "reject"},
             seq : Nat, value : 0 .. MaxWrites]

SharedClientSlot ==
    [tag : Clients \cup {Nobody}, named : BOOLEAN, snap : 0 .. MaxSession, acked : Nat,
     inbox : Seq(Messages), written : Nat, mail : 0 .. MaxWrites]

\* Every variable has the shape the C++ declarations give it.
TypeOK ==
    /\ session \in 1 .. MaxSession /\ nextSeq \in Nat \ {0}
    /\ latest \in 0 .. MaxWrites /\ lease \in Clients \cup {Nobody}
    /\ DOMAIN queues \subseteq Clients
    /\ \A c \in DOMAIN queues : queues[c] \in Seq(Messages)
    /\ scan \in [slot : 0 .. SlotCount, step : {"check", "push", "load", "handle", "ack"},
                 who : Clients \cup {Nobody}, rest : Seq(Messages), loaded : Nat]
    /\ processed \in [Slots -> Nat]
    /\ slots \in [Slots -> SharedClientSlot]
    /\ serverFresh \in BOOLEAN
    /\ place \in [Clients -> {"off", "claimed", "running", "dead"}]
    /\ slotOf \in [Clients -> 0 .. SlotCount]
    /\ \A c \in Clients : slotOf[c] = NoSlot => place[c] = "off"
    /\ phase \in [Clients -> {"descriptors", "state", "live"}]
    /\ {connected, alive} \subseteq [Clients -> BOOLEAN]
    /\ submitted \in [Clients -> Nat]
    /\ call \in [Clients -> {"idle", "wait", "write", "submit"}]
    /\ {value, view, sent, told} \subseteq [Clients -> 0 .. MaxWrites]
    /\ refused \in [Clients -> BOOLEAN]
    /\ issued \in 0 .. MaxWrites /\ boots \in Nat \ {0} /\ pauses \in Nat
    /\ handled \in Seq(1 .. MaxWrites)

\* The slot a live client drains and writes is its own, from the moment it wins
\* the compare-and-swap, whatever claims, stops, crashes and time-outs go on
\* around it, as long as one server process lives and the server took no pause
\* of a client for its death.
SlotExclusive ==
    boots = 1 /\ pauses = 0
    => \A c \in Clients : place[c] \in {"claimed", "running"} => Slot(c).tag = c

\* The client was told the authority's latest value, and holds it unless the value
\* it was handed since is that of its own write, refused.
UpToDate(c) == told[c] = latest /\ (refused[c] \/ view[c] = latest)

\* A client that reports itself connected and has drained its slot is up to date:
\* nothing falls between the snapshot and the live updates around it, across
\* session restarts, other clients' writes, refusals and the slots of clients that
\* died.
Converges ==
    \A c \in Clients :
        Running(c) /\ connected[c] /\ Slot(c).inbox = <<>> => UpToDate(c)

\* A Publish call that waited for the previous write's acknowledgement goes on
\* only when the server has handled that write, although sequence numbers and
\* acknowledgements are left over from earlier owners of the slot; as long as one
\* server process lives and no client was paused.
AckMeansHandled ==
    [][\A c \in Clients :
         boots = 1 /\ pauses = 0 /\ call[c] = "wait" /\ call'[c] = "write" /\ submitted[c] # 0
         => \E n \in DOMAIN handled : handled[n] = sent[c]]_vars

\* Within a session of the server no write is taken twice, although mail and sequence
\* number are read and written apart; as long as one server process lives, its
\* heartbeat is never seen stale and no client was paused.
HandledOnce ==
    boots = 1 /\ pauses = 0 /\ quiet = 0 /\ session = 1
    => \A m, n \in DOMAIN handled : m < n => handled[m] # handled[n]

InStep(c) == connected[c] /\ Slot(c).tag = c /\ UpToDate(c)

\* A client that stays gets connected and up to date in the end, although other
\* clients die around it and sessions restart under it.
ClientConnects ==
    \A c \in Clients : <>[](Running(c)) => <>[](Running(c) /\ InStep(c))

\* The same when the server is restarted while dashboards stay up
\* (TEST_PLAN.md, "Restart reliability").
ConnectsAfterServerRestart ==
    \A c \in Clients : <>[](Running(c)) => <>[](Running(c) /\ InStep(c))
================================================================================
