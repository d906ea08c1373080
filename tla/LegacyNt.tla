------------------------------- MODULE LegacyNt -------------------------------
(***************************************************************************)
(* The NetworkTables 2 plugin (legacy_nt_transport_plugin.cpp) between its server *)
(* and the main window: a worker thread with one blocking attempt per Start, a      *)
(* table of entries by id that both sides number, and reports of its own at the     *)
(* end of the worker and of Stop.  The server is external: it assigns all its        *)
(* entries after a hello, takes what a client sends, under either side's id, and       *)
(* sends every later value to the client, the client's included.  Every key is an      *)
(* entry of the server.                                                                *)
(***************************************************************************)
EXTENDS WindowIngest

CONSTANTS
    SeqLimit,       \* bound: the numbers of an entry's values wrap here (2^16)
    Begins,         \* bound: the numbers the entries have when the dashboard first looks
    MaxWrites,      \* bound: values made by the robot and the operator
    Events,         \* what may happen besides: see Happens
    MaxEvents       \* bound: of those

FirstOwnId == 30000
IdLimit == 65536
Unknown == [id |-> 0, seq |-> 0]

VARIABLES
    window,
    instance,   \* LegacyNtTransportInstance, and what its worker is at
    table,      \* the server's entries
    wire,       \* the connection: its state and the messages on the way
    issued, happened

vars == <<window, instance, table, wire, issued, happened>>

Happens(e) == e \in Events /\ happened < MaxEvents /\ happened' = happened + 1

\* byKey is keyToEntry, byId idToKey.
NewInstance ==
    [run |-> "none", byKey |-> [k \in Keys |-> Unknown], byId |-> [i \in {} |-> CHOOSE k \in Keys : TRUE],
     nextId |-> FirstOwnId]
NoWire == [state |-> "closed", up |-> <<>>, down |-> <<>>]


-----------------------------------------------------------------------------
(* The server *)

Assignment(k) == [kind |-> "assign", key |-> k, id |-> table.id[k], seq |-> table.seq[k],
                  value |-> table.value[k]]

Assignments == LET keys == SetToSeq(Keys) IN [i \in 1 .. Len(keys) |-> Assignment(keys[i])]

\* A value under its next number, to the client that said hello.
Stored(k, seq, value, byRobot) ==
    /\ table' = [table EXCEPT !.seq[k] = seq, !.value[k] = value, !.robots[k] = byRobot]

Update(k, seq, value) == [kind |-> "update", id |-> table.id[k], seq |-> seq, value |-> value]

ServerTakes ==
    /\ wire.state = "open" /\ wire.up # <<>>
    /\ LET m == Head(wire.up) IN
       IF m.kind = "hello"
       THEN /\ wire' = [wire EXCEPT !.up = Tail(@), !.down = @ \o Assignments]
            /\ table' = [table EXCEPT !.greeted = TRUE]
       ELSE /\ wire' = [wire EXCEPT !.up = Tail(@),
                                    !.down = Append(@, Update(m.key, m.seq, m.value))]
            /\ Stored(m.key, m.seq, m.value, FALSE)
    /\ UNCHANGED <<window, instance, issued, happened>>

RobotWrites(k) ==
    /\ issued < MaxWrites /\ table.up
    /\ issued' = issued + 1
    /\ LET seq == (table.seq[k] + 1) % SeqLimit IN
       /\ Stored(k, seq, issued', TRUE)
       /\ wire' = IF wire.state = "open" /\ table.greeted
                  THEN [wire EXCEPT !.down = Append(@, Update(k, seq, issued'))] ELSE wire
    /\ UNCHANGED <<window, instance, happened>>

Broken == IF wire.state = "open" THEN [wire EXCEPT !.state = "cut", !.up = <<>>] ELSE wire

\* The robot's program ends; the next starts with its own values, numbered from 1.
ServerStop ==
    /\ table.up /\ Happens("stop")
    /\ table' = [table EXCEPT !.up = FALSE, !.greeted = FALSE,
                     !.seq = [k \in Keys |-> 1], !.value = [k \in Keys |-> 0],
                     !.robots = [k \in Keys |-> FALSE]]
    /\ wire' = Broken
    /\ UNCHANGED <<window, instance, issued>>

ServerStart ==
    /\ ~table.up
    /\ table' = [table EXCEPT !.up = TRUE]
    /\ UNCHANGED <<window, instance, wire, issued, happened>>

Cut ==
    /\ wire.state = "open" /\ Happens("cut")
    /\ wire' = Broken
    /\ table' = [table EXCEPT !.greeted = FALSE]
    /\ UNCHANGED <<window, instance, issued>>

-----------------------------------------------------------------------------
(* The worker *)

\* ConnectAndHandshake: the socket, empty maps, the hello.
Connect ==
    /\ instance.run = "dialing" /\ table.up
    /\ instance' = [NewInstance EXCEPT !.run = "greeted"]
    /\ wire' = [NoWire EXCEPT !.state = "open", !.up = <<[kind |-> "hello"]>>]
    /\ UNCHANGED <<window, table, issued, happened>>

ConnectFails ==
    /\ instance.run = "dialing" /\ ~table.up
    /\ instance' = [instance EXCEPT !.run = "ended"]
    /\ window' = Post(window, "disconnected")
    /\ UNCHANGED <<table, wire, issued, happened>>

\* Connected is reported with the hello, before anything has been received.
ReportConnected ==
    /\ instance.run = "greeted"
    /\ instance' = [instance EXCEPT !.run = "receiving"]
    /\ window' = Post(window, "connected")
    /\ UNCHANGED <<table, wire, issued, happened>>

\* The loop ends with the connection.
ReceiveEnds ==
    /\ instance.run = "receiving" /\ wire.state = "cut"
    /\ instance' = [instance EXCEPT !.run = "ended"]
    /\ window' = Post(window, "disconnected")
    /\ wire' = NoWire
    /\ UNCHANGED <<table, issued, happened>>

\* The value goes to the window, under the number the server gave it.
ReadTypedValueAndPublish(key, m) ==
    window' = QueueUpdate(window, [key |-> key, value |-> m.value, seq |-> m.seq])

\* The entry is noted after its value was published, over what was known of it.
HandleEntryAssignment(m) ==
    /\ ReadTypedValueAndPublish(m.key, m)
    /\ instance' = [instance EXCEPT !.byKey[m.key] = [id |-> m.id, seq |-> m.seq],
                                    !.byId = (m.id :> m.key) @@ @]

\* An entry that was never assigned ends the connection.
HandleFieldUpdate(m) ==
    IF m.id \notin DOMAIN instance.byId
    THEN /\ instance' = [instance EXCEPT !.run = "ended"]
         /\ window' = Post(window, "disconnected")
    ELSE /\ instance' = [instance EXCEPT !.byKey[instance.byId[m.id]].seq = m.seq]
         /\ ReadTypedValueAndPublish(instance.byId[m.id], m)

ProcessOneMessage ==
    /\ instance.run = "receiving" /\ wire.down # <<>>
    /\ LET m == Head(wire.down)
       IN  IF m.kind = "assign" THEN HandleEntryAssignment(m) ELSE HandleFieldUpdate(m)
    /\ wire' = IF instance'.run = "ended" THEN NoWire ELSE [wire EXCEPT !.down = Tail(@)]
    /\ UNCHANGED <<table, issued, happened>>

-----------------------------------------------------------------------------
(* The window's thread *)

HasSocket(i) == i.run \in {"greeted", "receiving"}

\* Variant: an entry the plugin has not heard of is not sent.
SendEntryAssignmentKnown(s, k, v) ==
    LET meta == s.instance.byKey[k] IN
    IF ~HasSocket(s.instance) \/ meta = Unknown THEN s
    ELSE [instance |-> [s.instance EXCEPT !.byKey[k].seq = (@ + 1) % SeqLimit],
          up |-> Append(s.up, [kind |-> "update", key |-> k, id |-> meta.id,
                               seq |-> (meta.seq + 1) % SeqLimit, value |-> v])]

\* A known entry is updated under its next number, another assigned under an id of
\* the client's own.
SendEntryAssignment(s, k, v) ==
    LET known == s.instance.byKey[k] # Unknown
        meta == IF known THEN s.instance.byKey[k] ELSE [id |-> s.instance.nextId, seq |-> 0]
        seq == (meta.seq + 1) % SeqLimit
    IN  IF ~HasSocket(s.instance) THEN s
        ELSE [instance |-> [s.instance EXCEPT
                              !.byKey[k] = [id |-> meta.id, seq |-> seq],
                              !.byId = (meta.id :> k) @@ @,
                              !.nextId = IF known THEN @ ELSE (@ + 1) % IdLimit],
              up |-> Append(s.up, IF known
                                  THEN [kind |-> "update", key |-> k, id |-> meta.id,
                                        seq |-> seq, value |-> v]
                                  ELSE [kind |-> "assign", key |-> k, id |-> meta.id,
                                        seq |-> seq, value |-> v])]

\* Every edit given goes out; a broken connection swallows them.
Publish(edits) ==
    LET s == FoldLeft(LAMBDA t, k : SendEntryAssignment(t, k, edits[k]),
                      [instance |-> instance, up |-> wire.up],
                      SetToSeq({k \in Keys : edits[k] # NoEdit}))
    IN  /\ instance' = s.instance
        /\ wire' = IF wire.state = "open" THEN [wire EXCEPT !.up = s.up] ELSE wire

HandlePosted ==
    /\ window.posted # <<>>
    /\ LET e == Head(window.posted) w == Handled(window) IN
       IF e = "drain"
       THEN window' = DrainPendingUiUpdates(w) /\ UNCHANGED <<instance, wire>>
       ELSE /\ window' = OnConnectionStateChanged(w, e)
            /\ IF e = "connected" THEN Publish(window.edits) ELSE UNCHANGED <<instance, wire>>
    /\ UNCHANGED <<table, issued, happened>>

EditControl(k) ==
    /\ issued < MaxWrites
    /\ issued' = issued + 1
    /\ window' = OnControlDoubleEdited(window, k, issued')
    /\ Publish([j \in Keys |-> IF j = k THEN issued' ELSE NoEdit])
    /\ UNCHANGED <<table, happened>>

\* Stop closes the socket and joins the worker, which reports its end if it has not,
\* and its connection if it was just making it; then Stop reports the end again.
PostedByStop(w) ==
    CASE instance.run = "none" -> {w}
      [] instance.run = "ended" -> {Post(w, "disconnected")}
      [] instance.run = "receiving" -> {Post(Post(w, "disconnected"), "disconnected")}
      [] instance.run = "greeted" ->
            {Post(Post(Post(w, "connected"), "disconnected"), "disconnected")}
      [] OTHER -> {Post(Post(w, "disconnected"), "disconnected"),
                   Post(Post(Post(w, "connected"), "disconnected"), "disconnected")}

Stopped == wire' = NoWire /\ table' = [table EXCEPT !.greeted = FALSE]

\* Stop, then a new instance and its worker.
StartTransport(w) ==
    /\ Stopped
    /\ instance' = [NewInstance EXCEPT !.run = "dialing"]
    /\ \E stopped \in PostedByStop(w) : window' = Post(BeforeStart(stopped), "connecting")

OpenWindow ==
    /\ window.state = "off"
    /\ StartTransport([window EXCEPT !.state = "disconnected"])
    /\ UNCHANGED <<issued, happened>>

\* Bound: the second the timer waits is long against the window's queue.
OnReconnectTimerFired ==
    /\ window.timer /\ window.posted = <<>>
    /\ IF window.userOff
       THEN window' = [window EXCEPT !.timer = FALSE] /\ UNCHANGED <<instance, wire, table>>
       ELSE StartTransport([window EXCEPT !.timer = FALSE])
    /\ UNCHANGED <<issued, happened>>

OnConnectTransport ==
    /\ window.state = "disconnected" /\ Happens("click")
    /\ StartTransport([window EXCEPT !.userOff = FALSE])
    /\ UNCHANGED issued

OnDisconnectTransport ==
    /\ window.state \notin {"off", "disconnected"} /\ Happens("click")
    /\ Stopped
    /\ instance' = NewInstance
    /\ \E stopped \in PostedByStop([window EXCEPT !.userOff = TRUE, !.timer = FALSE,
                                                  !.state = "disconnected"]) :
          window' = stopped
    /\ UNCHANGED issued

-----------------------------------------------------------------------------
\* The program the dashboard finds may have numbered its entries for a while.
Init ==
    /\ window = NewWindow
    /\ instance = NewInstance
    /\ table = [up |-> FALSE, greeted |-> FALSE,
                id |-> CHOOSE f \in Bijection(Keys, 1 .. Cardinality(Keys)) : TRUE,
                seq |-> CHOOSE f \in Bijection(Keys, Begins) : TRUE,
                value |-> [k \in Keys |-> 0], robots |-> [k \in Keys |-> FALSE]]
    /\ wire = NoWire
    /\ issued = 0 /\ happened = 0

Worker == Connect \/ ConnectFails \/ ReportConnected \/ ReceiveEnds \/ ProcessOneMessage

Next ==
    \/ ServerTakes \/ ServerStart \/ ServerStop \/ Cut
    \/ \E k \in Keys : RobotWrites(k) \/ EditControl(k)
    \/ Worker \/ HandlePosted \/ OpenWindow
    \/ OnReconnectTimerFired \/ OnConnectTransport \/ OnDisconnectTransport

Spec == Init /\ [][Next]_vars

-----------------------------------------------------------------------------
(* Properties *)

\* Connected, with nothing on its way between the robot's program and the tiles.
Quiet ==
    /\ instance.run = "receiving" /\ wire = [NoWire EXCEPT !.state = "open"]
    /\ window.posted = <<>> /\ window.pending = <<>>

\* Then every tile shows its entry's value, whichever ids the two sides gave it and
\* however its numbers wrapped, if nothing of the transport before was waiting when
\* this one started.  Not where they wrapped to 0: the gate refuses that update, which
\* resets nothing, and those after it until a number goes back.
TilesFollowEntries ==
    Quiet /\ ~window.crossed => \A k \in Keys \ window.muted : window.tile[k] = table.value[k]

\* Then the last edit of a control is what the robot's program holds, unless the
\* program wrote the entry after it.
EditSurvivesLegacy ==
    Quiet => \A k \in Keys :
                window.edits[k] = NoEdit \/ table.robots[k] \/ table.value[k] = window.edits[k]
================================================================================
