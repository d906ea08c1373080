----------------------------- MODULE NativeLinkTcp -----------------------------
(***************************************************************************)
(* The TCP carrier of the Native Link transport and the dashboard's policy of  *)
(* reconnecting to it: the server (native_link_tcp_test_server.cpp) with its    *)
(* accept thread and a thread per connection, the client in each dashboard       *)
(* (native_link_tcp_client.cpp) with its worker, and the main window             *)
(* (main_window.cpp), which learns of the connection's state through calls        *)
(* queued to its own thread and owns the retry timer.                             *)
(*                                                                              *)
(* A connection is two streams; a frame is sent or received whole.  Heartbeats    *)
(* that arrive only keep a connection fresh and are left out, except the one a     *)
(* client may send before its hello.  Inside the server is the core of             *)
(* NativeLinkCore with one replayed topic under a lease; values are numbered in     *)
(* the order they were made.                                                       *)
(***************************************************************************)
EXTENDS Integers, Sequences, FiniteSets

CONSTANTS
    Dashboards,     \* dashboards, each with one client
    Nobody,         \* no dashboard
    MaxLinks,       \* bound: connections that exist at once
    MaxWrites,      \* bound: values made by the server and the operators
    Events,         \* what may happen besides: see Happens
    MaxEvents       \* bound: events, and values made

ASSUME TcpAssumption ==
    /\ Nobody \notin Dashboards
    /\ MaxLinks \in Nat \ {0}
    /\ Events \subseteq {"session", "stop", "cut", "stale", "early", "click"}
    /\ {MaxWrites, MaxEvents} \subseteq Nat

NoLink == 0
NoValue == 0
Ids == 1 .. MaxLinks

VARIABLES
    \* the server
    up,             \* it listens
    latest, lease,  \* of the core's topic
    queues,         \* client known to the core -> pendingEvents
    accepting,      \* the slot AcceptLoop has made and not yet put into clients
    links,          \* the connections, with the server's ClientSlot of each
    \* the dashboards
    client,         \* NativeLinkTcpClient: run, link, phase, connected, view, and as
                    \* history of what onUpdate was called with: told, the value last but
                    \* by a refusal; refused, whether a refusal was the last
    host,           \* MainWindow: shown, posted, timer, userOff, edit
    \* counters behind the bounds, and history
    issued, happened,
    silent,         \* dashboard -> its client has given up without a word to the host
    outrun,         \* dashboard -> the server took a write from a connection it had left
    leftAlone       \* dashboard -> the operator clicked Disconnect and not Connect since

server == <<up, latest, lease, queues, accepting>>
bounds == <<issued, happened>>
history == <<silent, outrun, leftAlone>>
vars == <<server, links, client, host, bounds, history>>

Update(v) == [kind |-> "update", value |-> v]
Refusal(v) == [kind |-> "reject", value |-> v]
Marker(kind) == [kind |-> kind, value |-> NoValue]

\* No ClientSlot and no socket.
NoConnection == [who |-> Nobody, slot |-> "none", listed |-> FALSE, early |-> FALSE,
                 open |-> FALSE, cut |-> FALSE, upward |-> <<>>, downward |-> <<>>]

\* A session restarts, the server stops, a connection breaks, the server is silent
\* for longer than the stale time-out, a heartbeat goes out before the hello, or the
\* operator clicks.
Happens(event) ==
    /\ event \in Events /\ issued + happened < MaxEvents
    /\ happened' = happened + 1

-----------------------------------------------------------------------------
(* The server *)

Alive(link) == link.slot \in {"accepted", "serving"}
Send(link, messages) ==
    IF link.open THEN [link EXCEPT !.downward = @ \o messages] ELSE link
SendToAll(ls, messages) ==
    [i \in Ids |-> IF Alive(ls[i]) /\ ls[i].listed THEN Send(ls[i], messages) ELSE ls[i]]

\* The snapshot of a client: the markers, and the topic's value if it has one.
Snapshot ==
    <<Marker("snapshot begin"), Marker("state begin")>>
    \o (IF latest = NoValue THEN <<>> ELSE <<Update(latest)>>)
    \o <<Marker("live begin")>>

\* Closed by the client and left by the server's thread, a connection is forgotten.
Over(link) == ~link.open /\ link.slot \in {"closed", "dead"}
Settled(link) == IF Over(link) THEN NoConnection ELSE link

\* One slot at a time goes from the accept call into the list: its thread runs
\* before it is listed.
Accept(i) ==
    /\ up /\ accepting = NoLink
    /\ links[i].slot = "backlog"
    /\ accepting' = i
    /\ links' = [links EXCEPT ![i].slot = "accepted"]
    /\ UNCHANGED <<up, latest, lease, queues, client, host, bounds, history>>

ListSlot ==
    /\ accepting # NoLink
    /\ links' = [links EXCEPT ![accepting] = Settled([@ EXCEPT !.listed = TRUE])]
    /\ accepting' = NoLink
    /\ UNCHANGED <<up, latest, lease, queues, client, host, bounds, history>>

\* The first frame of a connection.  Anything but a hello ends the thread and
\* leaves the socket open.
Greet(i) ==
    /\ links[i].slot = "accepted"
    /\ links[i].upward # <<>>
    /\ IF Head(links[i].upward).kind = "hello"
       THEN /\ links' = [links EXCEPT ![i] = Send([@ EXCEPT !.slot = "serving",
                                                            !.early = ~links[i].listed,
                                                            !.upward = Tail(links[i].upward)],
                                                 Snapshot)]
            /\ queues' = [c \in DOMAIN queues \cup {links[i].who} |->
                            IF c \in DOMAIN queues THEN queues[c] ELSE <<>>]
       ELSE /\ links' = [links EXCEPT ![i].slot = "dead"]
            /\ UNCHANGED queues
    /\ UNCHANGED <<up, latest, lease, accepting, client, host, bounds, history>>

\* Variant: the accepted write is sent to the others only.
HandleWriteNoBacklog(i) ==
    LET who == links[i].who
        v   == Head(links[i].upward).value
        rest == [links EXCEPT ![i].upward = Tail(@)]
    IN  IF lease \in {Nobody, who}
        THEN /\ lease' = who
             /\ latest' = v
             /\ links' = [j \in Ids |-> IF j # i THEN SendToAll(rest, <<Update(v)>>)[j] ELSE rest[j]]
             /\ queues' = [c \in DOMAIN queues |->
                             IF c = who THEN <<>> ELSE Append(queues[c], Update(v))]
        ELSE /\ links' = [rest EXCEPT ![i] = Send(@, Append(queues[who], Refusal(v)))]
             /\ queues' = [queues EXCEPT ![who] = <<>>]
             /\ UNCHANGED <<lease, latest>>

\* A free lease is taken for the writer; what the core kept for the writer since
\* its last write goes to it again; an accepted write goes to everybody, a refused
\* one back to its writer.
HandleWrite(i) ==
    LET who      == links[i].who
        v        == Head(links[i].upward).value
        rest     == [links EXCEPT ![i].upward = Tail(@)]
        accepted == lease \in {Nobody, who}
        answer   == IF accepted THEN Update(v) ELSE Refusal(v)
        backlog  == Append(queues[who], answer)
    IN  /\ lease' = IF lease = Nobody THEN who ELSE lease
        /\ latest' = IF accepted THEN v ELSE latest
        /\ queues' = [c \in DOMAIN queues |->
                        IF c = who THEN <<>>
                        ELSE IF accepted THEN Append(queues[c], answer) ELSE queues[c]]
        /\ LET answered == [rest EXCEPT ![i] = Send(@, backlog)]
           IN  links' = IF accepted THEN SendToAll(answered, <<Update(v)>>) ELSE answered

ReceiveWrite(i) ==
    /\ links[i].slot = "serving"
    /\ links[i].upward # <<>>
    /\ HandleWrite(i)
    /\ outrun' = [outrun EXCEPT ![links[i].who] = @ \/ ~links[i].open]
    /\ UNCHANGED <<up, accepting, client, host, bounds, silent, leftAlone>>

\* The thread finds the client's end closed, or the connection broken.  A thread
\* still waiting for the hello leaves the socket to the server's Stop.
ClientGone(i) ==
    /\ Alive(links[i]) /\ links[i].upward = <<>>
    /\ ~links[i].open \/ links[i].cut
    /\ accepting # i
    /\ links' = [links EXCEPT ![i] =
                   Settled([@ EXCEPT !.slot = IF links[i].slot = "serving" THEN "closed" ELSE "dead",
                                     !.listed = FALSE])]
    /\ UNCHANGED <<server, client, host, bounds, history>>

PublishFromServer ==
    /\ up /\ issued < MaxWrites /\ issued + happened < MaxEvents
    /\ issued' = issued + 1
    /\ latest' = issued + 1
    /\ queues' = [c \in DOMAIN queues |-> Append(queues[c], Update(issued + 1))]
    /\ links' = SendToAll(links, <<Update(issued + 1)>>)
    /\ UNCHANGED <<up, lease, accepting, client, host, history, happened>>

\* Snapshots go to every listed slot, whether or not its hello has come.
RestartSession ==
    /\ up /\ Happens("session")
    /\ lease' = Nobody
    /\ queues' = [c \in DOMAIN queues |-> <<>>]
    /\ links' = SendToAll(links, Snapshot)
    /\ UNCHANGED <<up, latest, accepting, client, host, issued, history>>

\* Every connection is closed, also those not accepted yet.
ServerStop ==
    /\ up /\ Happens("stop")
    /\ up' = FALSE
    /\ accepting' = NoLink
    /\ links' = [i \in Ids |-> IF links[i].who = Nobody THEN NoConnection
                              ELSE Settled([links[i] EXCEPT !.slot = "closed", !.listed = FALSE,
                                                            !.upward = <<>>])]
    /\ UNCHANGED <<latest, lease, queues, client, host, issued, history>>

\* Start of the same server object, which keeps its values, or of a new process.
ServerStart(fresh) ==
    /\ ~up
    /\ up' = TRUE
    /\ lease' = Nobody
    /\ latest' = IF fresh THEN NoValue ELSE latest
    /\ queues' = [c \in IF fresh THEN {} ELSE DOMAIN queues |-> <<>>]
    /\ UNCHANGED <<accepting, links, client, host, bounds, history>>

\* The network breaks a connection: what was under way is lost.
Cut(i) ==
    /\ links[i].slot \in {"backlog", "accepted", "serving", "dead"}
    /\ links[i].open /\ ~links[i].cut
    /\ Happens("cut")
    /\ links' = [links EXCEPT ![i].cut = TRUE, ![i].upward = <<>>, ![i].downward = <<>>]
    /\ UNCHANGED <<server, client, host, issued, history>>

-----------------------------------------------------------------------------
(* The client's worker *)

Post(c, state) == host' = [host EXCEPT ![c].posted = Append(@, state)]
CloseSocket(ls, i) ==
    IF i = NoLink THEN ls
    ELSE [ls EXCEPT ![i] = IF @.slot = "backlog" THEN NoConnection
                           ELSE IF accepting = i THEN [@ EXCEPT !.open = FALSE, !.downward = <<>>]
           ELSE Settled([@ EXCEPT !.open = FALSE, !.downward = <<>>])]

\* TryConnect up to the socket.
Dial(c) ==
    /\ client[c].run = "dialing"
    /\ up
    /\ \E i \in Ids :
          /\ links[i] = NoConnection
          /\ \A j \in 1 .. i - 1 : links[j] # NoConnection
          /\ links' = [links EXCEPT ![i] = [NoConnection EXCEPT !.who = c, !.slot = "backlog",
                                                                !.open = TRUE]]
          /\ client' = [client EXCEPT ![c].run = "connected", ![c].link = i]
    /\ UNCHANGED <<server, host, bounds, history>>

\* Variant: a failed attempt is not reported.
DialFailsSilently(c) ==
    /\ client[c].run = "dialing"
    /\ ~up
    /\ client' = [client EXCEPT ![c].run = "ended"]
    /\ UNCHANGED <<server, links, host, bounds, history>>

DialFails(c) ==
    /\ client[c].run = "dialing"
    /\ ~up
    /\ client' = [client EXCEPT ![c].run = "ended"]
    /\ Post(c, "disconnected")
    /\ UNCHANGED <<server, links, bounds, history>>

\* The socket is there for the heartbeat thread before the hello is sent.
EarlyHeartbeat(c) ==
    /\ client[c].run = "connected"
    /\ Happens("early")
    /\ ~links[client[c].link].cut /\ links[client[c].link].slot # "closed"
    /\ links' = [links EXCEPT ![client[c].link].upward = Append(@, Marker("heartbeat"))]
    /\ silent' = [silent EXCEPT ![c] = TRUE]
    /\ UNCHANGED <<server, client, host, issued, outrun, leftAlone>>

SendHello(c) ==
    /\ client[c].run = "connected"
    /\ IF links[client[c].link].cut
       THEN /\ client' = [client EXCEPT ![c].run = "ended", ![c].link = NoLink]
            /\ links' = CloseSocket(links, client[c].link)
            /\ Post(c, "disconnected")
       ELSE /\ client' = [client EXCEPT ![c].run = "receiving"]
            /\ links' = IF links[client[c].link].slot = "closed" THEN links
                        ELSE [links EXCEPT ![client[c].link].upward = Append(@, Marker("hello"))]
            /\ UNCHANGED host
    /\ UNCHANGED <<server, bounds, history>>

\* onUpdate gets the value of an update, and of a write refused.
HandOn(k, m) ==
    [k EXCEPT !.view = m.value,
              !.told = IF m.kind = "reject" THEN @ ELSE m.value,
              !.refused = m.kind = "reject"]

HandleMessage(c, m) ==
    CASE m.kind = "snapshot begin" ->
           /\ client' = [client EXCEPT ![c].phase = "descriptors", ![c].connected = FALSE]
           /\ IF client[c].connected THEN Post(c, "connecting") ELSE UNCHANGED host
      [] m.kind = "state begin" ->
           /\ client' = [client EXCEPT ![c].phase = "state"]
           /\ UNCHANGED host
      [] m.kind = "live begin" ->
           /\ client' = [client EXCEPT ![c].phase = "live", ![c].connected = TRUE]
           /\ IF client[c].connected THEN UNCHANGED host ELSE Post(c, "connected")
      [] m.kind \in {"update", "reject"} ->
           /\ client' = [client EXCEPT ![c] = IF @.phase = "descriptors" THEN @ ELSE HandOn(@, m)]
           /\ UNCHANGED host

Receive(c) ==
    /\ client[c].run = "receiving"
    /\ links[client[c].link].downward # <<>>
    /\ HandleMessage(c, Head(links[client[c].link].downward))
    /\ links' = [links EXCEPT ![client[c].link].downward = Tail(@)]
    /\ UNCHANGED <<server, bounds, history>>

\* The connection dies: only a client that was connected says so.
ReceiveEnds(c) ==
    /\ client[c].run = "receiving"
    /\ links[client[c].link].downward = <<>>
    /\ links[client[c].link].cut \/ links[client[c].link].slot = "closed"
    /\ client' = [client EXCEPT ![c].run = "ended", ![c].link = NoLink, ![c].connected = FALSE]
    /\ links' = CloseSocket(links, client[c].link)
    /\ IF client[c].connected
       THEN Post(c, "disconnected") /\ UNCHANGED silent
       ELSE UNCHANGED host /\ silent' = [silent EXCEPT ![c] = TRUE]
    /\ UNCHANGED <<server, bounds, outrun, leftAlone>>

\* A control's value goes out if the client is connected.
Publish(c, v) ==
    IF client[c].connected /\ ~links[client[c].link].cut /\ links[client[c].link].slot # "closed"
    THEN [links EXCEPT ![client[c].link].upward = Append(@, [kind |-> "write", value |-> v])]
    ELSE links

\* MaybeReportStale: nothing has come for too long.  The socket stays.
ReportStale(c) ==
    /\ client[c].run = "receiving"
    /\ links[client[c].link].downward = <<>>
    /\ client[c].phase # "descriptors"
    /\ Happens("stale")
    /\ client' = [client EXCEPT ![c].phase = "descriptors", ![c].connected = FALSE]
    /\ IF client[c].connected THEN Post(c, "stale") ELSE UNCHANGED host
    /\ silent' = [silent EXCEPT ![c] = TRUE]
    /\ UNCHANGED <<server, links, issued, outrun, leftAlone>>

-----------------------------------------------------------------------------
(* The main window *)

NewClient == [run |-> "none", link |-> NoLink, phase |-> "descriptors", connected |-> FALSE,
              view |-> NoValue, told |-> NoValue, refused |-> FALSE]

\* Stop of the client joins its worker; a connected one says that it no longer is.
StopTransport(c) ==
    /\ links' = CloseSocket(links, client[c].link)
    /\ client' = [client EXCEPT ![c] = NewClient]

PostedByStop(c) == IF client[c].connected THEN <<"disconnected">> ELSE <<>>

\* The plugin makes a client, which makes one attempt.
StartedClient == [NewClient EXCEPT !.run = "dialing"]

\* StartTransport stops what there is.
StartTransport(c) ==
    /\ links' = CloseSocket(links, client[c].link)
    /\ client' = [client EXCEPT ![c] = StartedClient]
    /\ silent' = [silent EXCEPT ![c] = FALSE]

PostedByStart(c) == PostedByStop(c) \o <<"connecting">>

\* A control's edit is remembered, and published if the client is connected.
OnControlEdited(c) ==
    /\ client[c].run # "none"
    /\ issued < MaxWrites /\ issued + happened < MaxEvents
    /\ issued' = issued + 1
    /\ host' = [host EXCEPT ![c].edit = issued + 1]
    /\ links' = Publish(c, issued + 1)
    /\ UNCHANGED <<server, client, history, happened>>

RepublishPluginControlEdits(c) ==
    IF host[c].edit = NoValue THEN links ELSE Publish(c, host[c].edit)

\* Variant: the operator's edits are not published again.
OnConnectionStateForgetful(c) ==
    LET h == host[c] IN
    /\ h.posted # <<>>
    /\ LET state == Head(h.posted) IN
       /\ host' = [host EXCEPT ![c].posted = Tail(@), ![c].shown = state,
                     ![c].timer = CASE state = "connected" -> FALSE
                                    [] state = "disconnected" -> @ \/ ~h.userOff
                                    [] OTHER -> @,
                     ![c].userOff = @ /\ state # "connected"]
    /\ UNCHANGED <<server, links, client, bounds, history>>

\* OnConnectionStateChanged, for the states the client's threads posted: connected
\* ends the retries and publishes the operator's edits again, disconnected starts
\* the timer unless the operator asked for it.
OnConnectionStateChanged(c) ==
    LET h == host[c] IN
    /\ h.posted # <<>>
    /\ LET state == Head(h.posted) IN
       /\ host' = [host EXCEPT ![c].posted = Tail(@), ![c].shown = state,
                     ![c].timer = CASE state = "connected" -> FALSE
                                    [] state = "disconnected" -> @ \/ ~h.userOff
                                    [] OTHER -> @,
                     ![c].userOff = @ /\ state # "connected"]
       /\ links' = IF state = "connected" THEN RepublishPluginControlEdits(c) ELSE links
    /\ UNCHANGED <<server, client, bounds, history>>

OnReconnectTimerFired(c) ==
    /\ host[c].timer
    /\ IF host[c].userOff
       THEN /\ host' = [host EXCEPT ![c].timer = FALSE]
            /\ UNCHANGED <<links, client, silent>>
       ELSE /\ StartTransport(c)
            /\ host' = [host EXCEPT ![c].timer = FALSE, ![c].posted = @ \o PostedByStart(c)]
    /\ UNCHANGED <<server, bounds, outrun, leftAlone>>

\* The window starts the transport it was left with.
OpenWindow(c) ==
    /\ host[c].shown = "off"
    /\ StartTransport(c)
    /\ host' = [host EXCEPT ![c].shown = "disconnected", ![c].posted = PostedByStart(c)]
    /\ UNCHANGED <<server, bounds, outrun, leftAlone>>

\* The menu offers Connect while the window shows no connection, and Disconnect
\* while it shows one or an attempt.
OnConnectTransport(c) ==
    /\ host[c].shown = "disconnected"
    /\ Happens("click")
    /\ StartTransport(c)
    /\ host' = [host EXCEPT ![c].userOff = FALSE, ![c].posted = @ \o PostedByStart(c)]
    /\ leftAlone' = [leftAlone EXCEPT ![c] = FALSE]
    /\ UNCHANGED <<server, issued, outrun>>

\* What Stop posts is still to come when the window already shows the state.
OnDisconnectTransport(c) ==
    /\ host[c].shown \notin {"off", "disconnected"}
    /\ Happens("click")
    /\ StopTransport(c)
    /\ host' = [host EXCEPT ![c].userOff = TRUE, ![c].timer = FALSE, ![c].shown = "disconnected",
                            ![c].posted = @ \o PostedByStop(c)]
    /\ leftAlone' = [leftAlone EXCEPT ![c] = TRUE]
    /\ UNCHANGED <<server, issued, silent, outrun>>

-----------------------------------------------------------------------------
Init ==
    /\ up = FALSE /\ latest = NoValue /\ lease = Nobody
    /\ queues = [c \in {} |-> <<>>]
    /\ accepting = NoLink
    /\ links = [i \in Ids |-> NoConnection]
    /\ client = [c \in Dashboards |-> NewClient]
    /\ host = [c \in Dashboards |-> [shown |-> "off", posted |-> <<>>, timer |-> FALSE,
                                      userOff |-> FALSE, edit |-> NoValue]]
    /\ issued = 0 /\ happened = 0
    /\ silent = [c \in Dashboards |-> FALSE]
    /\ outrun = [c \in Dashboards |-> FALSE]
    /\ leftAlone = [c \in Dashboards |-> FALSE]

ConnectionStep(i) == Accept(i) \/ Greet(i) \/ ReceiveWrite(i) \/ ClientGone(i)
WorkerStep(c) == Dial(c) \/ DialFails(c) \/ SendHello(c) \/ Receive(c) \/ ReceiveEnds(c)
WindowStep(c) == OnConnectionStateChanged(c) \/ OnReconnectTimerFired(c)

Next ==
    \/ ListSlot \/ PublishFromServer \/ RestartSession \/ ServerStop
    \/ \E fresh \in BOOLEAN : ServerStart(fresh)
    \/ \E i \in Ids : ConnectionStep(i) \/ Cut(i)
    \/ \E c \in Dashboards :
          \/ WorkerStep(c) \/ EarlyHeartbeat(c) \/ ReportStale(c)
          \/ WindowStep(c) \/ OnControlEdited(c)
          \/ OpenWindow(c) \/ OnConnectTransport(c) \/ OnDisconnectTransport(c)

Spec == Init /\ [][Next]_vars

\* Threads, the window's event loop and its timer run on.
Fairness ==
    /\ WF_vars(ListSlot)
    /\ \A i \in Ids : WF_vars(ConnectionStep(i))
    /\ \A c \in Dashboards :
          /\ WF_vars(WorkerStep(c))
          /\ WF_vars(OnConnectionStateChanged(c))
          /\ SF_vars(OnReconnectTimerFired(c))

FairSpec == Spec /\ Fairness

-----------------------------------------------------------------------------
(* Properties *)

\* A client whose connection is up, whose slot was listed when it was greeted, and
\* that has taken everything sent to it.
Settling(c) ==
    /\ client[c].connected
    /\ LET link == links[client[c].link]
       IN  Alive(link) /\ link.listed /\ ~link.cut /\ ~link.early /\ link.downward = <<>>

\* Connected and drained, a client was told the authority's value, through restarts of
\* session and server, other dashboards' writes and the old values that come with
\* the answer to a write; and it holds that value, unless it was handed its own
\* refused write since.
Converges ==
    \A c \in Dashboards :
        Settling(c) => /\ client[c].told = latest
                       /\ client[c].refused \/ client[c].view = latest

\* What the operator set survives: the authority never rests on a value made before
\* the last edit of a dashboard that is connected and may write, unless a write from
\* a connection the dashboard had left was taken after those of the next one.
EditSurvives ==
    \A c \in Dashboards :
        /\ Settling(c) /\ host[c].posted = <<>> /\ links[client[c].link].upward = <<>>
        /\ lease \in {Nobody, c} /\ ~outrun[c]
        => latest >= host[c].edit

\* A dashboard that wants a connection gets one in the end, if the server stays up
\* and its client gives up no attempt silently.
RetriesUntilConnected ==
    \A c \in Dashboards :
        <>[](up /\ ~silent[c] /\ ~leftAlone[c] /\ host[c].shown # "off")
        => []<>(client[c].connected)
================================================================================
