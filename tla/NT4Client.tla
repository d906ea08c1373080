------------------------------ MODULE NT4Client -------------------------------
(***************************************************************************)
(* The NetworkTables 4 plugin (nt4_client.cpp, nt4_transport_plugin.cpp) between  *)
(* its server and the main window: one WebSocket per Start, whose callbacks run    *)
(* on a thread of the library; publishing from the window's thread; and the         *)
(* window's policy of connecting again.  The server is external: it announces its   *)
(* topics and their values to a client that subscribed, and every later value to    *)
(* it too, its own included.  The streams keep their order.  A frame carries one     *)
(* value; how its bytes are read is the matter of NT4Codec.                          *)
(***************************************************************************)
EXTENDS WindowIngest

CONSTANTS
    Ids,            \* topic ids of the server
    MaxWrites,      \* bound: values made by the robot and the operator
    Events,         \* what may happen besides: see Happens
    MaxEvents       \* bound: of those

Nobody == "nobody"  \* no topic

VARIABLES
    window,
    client,     \* NT4Client::Impl, and what its thread is at
    server,     \* the topics' ids and values
    link,       \* the connection: its state and the messages on the way
    issued, happened

vars == <<window, client, server, link, issued, happened>>

Happens(e) == e \in Events /\ happened < MaxEvents /\ happened' = happened + 1

NoTopics == [i \in Ids |-> Nobody]
NewClient == [run |-> "none", connected |-> FALSE, topics |-> NoTopics, claims |-> {}, seq |-> 0]
NoLink == [state |-> "closed", up |-> <<>>, down |-> <<>>]

-----------------------------------------------------------------------------
(* The server *)

Announce(ids) == [kind |-> "announce", ids |-> ids]
Value(k, v) == [kind |-> "value", id |-> server.id[k], value |-> v]

Sent(messages) ==
    IF link.state = "open" /\ server.subscribed
    THEN [link EXCEPT !.down = @ \o messages] ELSE link

\* Every topic, in one text frame, and every value.
Snapshot == LET keys == SetToSeq(Keys)
            IN  <<Announce(server.id)>>
                \o [i \in 1 .. Len(keys) |-> Value(keys[i], server.value[keys[i]])]

ServerTakes ==
    /\ link.state = "open" /\ link.up # <<>>
    /\ LET m == Head(link.up) rest == [link EXCEPT !.up = Tail(@)] IN
       CASE m.kind = "subscribe" ->
                /\ server' = [server EXCEPT !.subscribed = TRUE]
                /\ link' = [rest EXCEPT !.down = @ \o Snapshot]
         [] m.kind = "set" /\ (m.claim \/ m.key \in server.claimed) ->
                /\ server' = [server EXCEPT !.value[m.key] = m.value, !.robots[m.key] = FALSE,
                                            !.claimed = @ \cup {m.key}]
                /\ link' = [Sent(<<Value(m.key, m.value)>>) EXCEPT !.up = Tail(@)]
         [] OTHER -> link' = rest /\ UNCHANGED server
    /\ UNCHANGED <<window, client, issued, happened>>

RobotWrites(k) ==
    /\ issued < MaxWrites
    /\ issued' = issued + 1
    /\ server.up
    /\ server' = [server EXCEPT !.value[k] = issued', !.robots[k] = TRUE]
    /\ link' = Sent(<<Value(k, issued')>>)
    /\ UNCHANGED <<window, client, happened>>

\* A topic comes back under another id, one that another topic may have had.
Reannounce(k, id) ==
    /\ Happens("reannounce")
    /\ \A other \in Keys : server.id[other] # id
    /\ server' = [server EXCEPT !.id[k] = id]
    /\ link' = Sent(<<Announce(k :> id), [kind |-> "value", id |-> id, value |-> server.value[k]]>>)
    /\ UNCHANGED <<window, client, issued>>

\* The robot's program ends, and starts with the values it was written with.
ServerStop ==
    /\ server.up /\ Happens("stop")
    /\ server' = [server EXCEPT !.up = FALSE, !.subscribed = FALSE, !.claimed = {},
                                !.value = [k \in Keys |-> 0], !.robots = [k \in Keys |-> FALSE]]
    /\ link' = IF link.state = "open" THEN [link EXCEPT !.state = "cut", !.up = <<>>] ELSE link
    /\ UNCHANGED <<window, client, issued>>

\* Topics are numbered as they come up.
Numberings == Bijection(Keys, 0 .. Cardinality(Keys) - 1)

ServerStart ==
    /\ ~server.up
    /\ \E id \in Numberings : server' = [server EXCEPT !.up = TRUE, !.id = id]
    /\ UNCHANGED <<window, client, link, issued, happened>>

\* The network fails: the server drops what it knows of the client.
Cut ==
    /\ link.state = "open" /\ Happens("cut")
    /\ link' = [link EXCEPT !.state = "cut", !.up = <<>>]
    /\ server' = [server EXCEPT !.subscribed = FALSE, !.claimed = {}]
    /\ UNCHANGED <<window, client, issued>>

-----------------------------------------------------------------------------
(* The library's thread *)

\* Open: connected is reported before the subscription is sent.
OnOpen ==
    /\ client.run = "starting" /\ server.up
    /\ client' = [client EXCEPT !.run = "opened", !.connected = TRUE]
    /\ window' = Post(window, "connected")
    /\ link' = [NoLink EXCEPT !.state = "open"]
    /\ UNCHANGED <<server, issued, happened>>

SendSubscribe ==
    /\ client.run = "opened"
    /\ client' = [client EXCEPT !.run = "live"]
    /\ link' = IF link.state = "open" THEN [link EXCEPT !.up = Append(@, [kind |-> "subscribe"])]
               ELSE link
    /\ UNCHANGED <<window, server, issued, happened>>

\* Error: the attempt failed, and it was the only one.  The topics stay.
OnError ==
    /\ client.run = "starting" /\ ~server.up
    /\ client' = [client EXCEPT !.run = "ended", !.connected = FALSE]
    /\ window' = Post(window, "disconnected")
    /\ UNCHANGED <<server, link, issued, happened>>

\* What was on its way when the connection ended may arrive or not.
OnClose ==
    /\ client.run = "live" /\ link.state = "cut"
    /\ client' = [NewClient EXCEPT !.run = "ended", !.seq = client.seq]
    /\ window' = Post(window, "disconnected")
    /\ link' = NoLink
    /\ UNCHANGED <<server, issued, happened>>

\* The topics an announcement names go under their ids.
Announced(topics, ids) ==
    [i \in Ids |-> IF \E k \in DOMAIN ids : ids[k] = i
                   THEN CHOOSE k \in DOMAIN ids : ids[k] = i ELSE topics[i]]

HandleTextMessage(m) ==
    /\ client' = [client EXCEPT !.topics = Announced(@, m.ids)]
    /\ UNCHANGED window

\* A value for an id that was not announced is skipped.
HandleBinaryMessage(m) ==
    IF client.topics[m.id] = Nobody THEN UNCHANGED <<client, window>>
    ELSE /\ client' = [client EXCEPT !.seq = @ + 1]
         /\ window' = QueueUpdate(window, [key |-> client.topics[m.id], value |-> m.value,
                                           seq |-> client.seq])

Receive ==
    /\ client.run = "live" /\ link.down # <<>>
    /\ LET m == Head(link.down)
       IN  IF m.kind = "announce" THEN HandleTextMessage(m) ELSE HandleBinaryMessage(m)
    /\ link' = [link EXCEPT !.down = Tail(@)]
    /\ UNCHANGED <<server, issued, happened>>

-----------------------------------------------------------------------------
(* The window's thread *)

\* EnsurePublished claims a topic once per connection, before its first value.
Frames(k, v) == <<[kind |-> "set", key |-> k, value |-> v, claim |-> k \notin client.claims]>>

\* Publishing does nothing without a connection; a broken one swallows the frames.
Publish(edits) ==
    LET keys == SetToSeq({k \in Keys : edits[k] # NoEdit})
        frames == FoldLeft(LAMBDA s, k : s \o Frames(k, edits[k]), <<>>, keys)
    IN  IF ~client.connected THEN UNCHANGED <<client, link>>
        ELSE /\ client' = [client EXCEPT !.claims = @ \cup ToSet(keys)]
             /\ link' = IF link.state = "open" THEN [link EXCEPT !.up = @ \o frames] ELSE link

PublishedAgain == window.edits

HandlePosted ==
    /\ window.posted # <<>>
    /\ LET e == Head(window.posted) w == Handled(window) IN
       IF e = "drain"
       THEN window' = DrainPendingUiUpdates(w) /\ UNCHANGED <<client, link>>
       ELSE /\ window' = OnConnectionStateChanged(w, e)
            /\ IF e = "connected" THEN Publish(PublishedAgain) ELSE UNCHANGED <<client, link>>
    /\ UNCHANGED <<server, issued, happened>>

EditControl(k) ==
    /\ issued < MaxWrites
    /\ issued' = issued + 1
    /\ window' = OnControlDoubleEdited(window, k, issued')
    /\ Publish([j \in Keys |-> IF j = k THEN issued' ELSE NoEdit])
    /\ UNCHANGED <<server, happened>>

\* Stop silences the callbacks, then joins the thread: it reports nothing.
Stopped == link' = NoLink /\ server' = [server EXCEPT !.subscribed = FALSE, !.claimed = {}]

\* A new client for every Start; connecting is reported before the socket exists.
StartTransport(w) ==
    /\ Stopped
    /\ client' = [NewClient EXCEPT !.run = "starting"]
    /\ window' = Post(BeforeStart(w), "connecting")

OpenWindow ==
    /\ window.state = "off"
    /\ StartTransport([window EXCEPT !.state = "disconnected"])
    /\ UNCHANGED <<issued, happened>>

OnReconnectTimerFired ==
    /\ window.timer
    /\ IF window.userOff
       THEN window' = [window EXCEPT !.timer = FALSE] /\ UNCHANGED <<client, link, server>>
       ELSE StartTransport([window EXCEPT !.timer = FALSE])
    /\ UNCHANGED <<issued, happened>>

OnConnectTransport ==
    /\ window.state = "disconnected" /\ Happens("click")
    /\ StartTransport([window EXCEPT !.userOff = FALSE])
    /\ UNCHANGED issued

OnDisconnectTransport ==
    /\ window.state \notin {"off", "disconnected"} /\ Happens("click")
    /\ Stopped
    /\ client' = NewClient
    /\ window' = [window EXCEPT !.userOff = TRUE, !.timer = FALSE, !.state = "disconnected"]
    /\ UNCHANGED issued

-----------------------------------------------------------------------------
Init ==
    /\ window = NewWindow
    /\ client = NewClient
    /\ server = [up |-> FALSE, id |-> CHOOSE f \in Numberings : TRUE,
                 value |-> [k \in Keys |-> 0], robots |-> [k \in Keys |-> FALSE],
                 subscribed |-> FALSE, claimed |-> {}]
    /\ link = NoLink
    /\ issued = 0 /\ happened = 0

Thread == OnOpen \/ SendSubscribe \/ OnError \/ OnClose \/ Receive

Next ==
    \/ ServerTakes \/ ServerStart \/ ServerStop \/ Cut
    \/ \E k \in Keys : RobotWrites(k) \/ EditControl(k) \/ \E id \in Ids : Reannounce(k, id)
    \/ Thread \/ HandlePosted \/ OpenWindow
    \/ OnReconnectTimerFired \/ OnConnectTransport \/ OnDisconnectTransport

Spec == Init /\ [][Next]_vars

-----------------------------------------------------------------------------
(* Properties *)

\* Connected, with nothing on its way between the robot's program and the tiles.
Quiet ==
    /\ client.run = "live" /\ link = [NoLink EXCEPT !.state = "open"]
    /\ window.posted = <<>> /\ window.pending = <<>>

\* Then every tile shows its topic's value, whatever ids the topics had and however
\* the queue was collapsed and drained, if nothing of the transport before was
\* waiting when this one started.
TilesFollowServer == Quiet /\ ~window.crossed => window.tile = server.value

\* Then the last edit of a control is what the robot's program holds, unless the
\* program wrote the topic after it.
EditSurvives ==
    Quiet => \A k \in Keys :
                window.edits[k] = NoEdit \/ server.robots[k] \/ server.value[k] = window.edits[k]
================================================================================
