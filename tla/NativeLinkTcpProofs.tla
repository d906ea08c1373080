-------------------------- MODULE NativeLinkTcpProofs --------------------------
(***************************************************************************)
(* Proofs about NativeLinkTcp for any dashboards, number of connections and   *)
(* bounds: what a client shows once it has drained its connection, and what    *)
(* becomes of the operators' edits.                                             *)
(***************************************************************************)
EXTENDS NativeLinkTcp, SequenceTheorems, TLAPS

-----------------------------------------------------------------------------
(* The invariant: types *)

Updates == [kind : {"update"}, value : Nat]
Answers == [kind : {"update", "reject"}, value : Nat]
Downward == [kind : {"update", "reject", "snapshot begin", "state begin", "live begin"}, value : Nat]
Upward == [kind : {"hello", "heartbeat", "write"}, value : Nat]
States == {"connecting", "connected", "disconnected", "stale"}

LinkType ==
    [who : Dashboards \cup {Nobody},
     slot : {"none", "backlog", "accepted", "serving", "closed", "dead"},
     listed : BOOLEAN, early : BOOLEAN, open : BOOLEAN, cut : BOOLEAN,
     upward : Seq(Upward), downward : Seq(Downward)]

\* What a client holds is what it was told, unless a refusal was the last to come.
Showing(k) == k.refused \/ k.view = k.told
ClientType ==
    {k \in [run : {"none", "dialing", "connected", "receiving", "ended"}, link : 0 .. MaxLinks,
            phase : {"descriptors", "state", "live"}, connected : BOOLEAN,
            view : Nat, told : Nat, refused : BOOLEAN] : Showing(k)}

HostType ==
    [shown : States \cup {"off"}, posted : Seq(States), timer : BOOLEAN, userOff : BOOLEAN,
     edit : Nat]

LinksType == links \in [Ids -> LinkType]
ClientsType == client \in [Dashboards -> ClientType]
HostsType == host \in [Dashboards -> HostType]
QueuesType == DOMAIN queues \subseteq Dashboards /\ queues \in [DOMAIN queues -> Seq(Updates)]
ServerType == up \in BOOLEAN /\ latest \in Nat /\ lease \in Dashboards \cup {Nobody} /\ accepting \in 0 .. MaxLinks
CountersType ==
    /\ issued \in Nat /\ happened \in Nat
    /\ silent \in [Dashboards -> BOOLEAN]
    /\ outrun \in [Dashboards -> BOOLEAN]
    /\ leftAlone \in [Dashboards -> BOOLEAN]

TypeOK == LinksType /\ ClientsType /\ HostsType /\ QueuesType /\ ServerType /\ CountersType

-----------------------------------------------------------------------------
(* The invariant: connections *)

\* A connection that nobody has is blank; an open one is the one its client holds.
Blanks == \A i \in Ids : links[i].who = Nobody => links[i] = NoConnection

OpenOnes ==
    \A i \in Ids : links[i].open => links[i].who \in Dashboards /\ client[links[i].who].link = i

Holders ==
    \A c \in Dashboards :
        /\ client[c].link # NoLink => links[client[c].link].who = c /\ links[client[c].link].open
        /\ client[c].link # NoLink <=> client[c].run \in {"connected", "receiving"}
        /\ client[c].connected => client[c].run = "receiving" /\ client[c].phase # "descriptors"

Held == Blanks /\ OpenOnes /\ Holders

\* All messages of s, or all but the first, are of one kind.
All(s, kind) == \A n \in DOMAIN s : s[n].kind = kind
AllBehind(s, kind) == \A n \in DOMAIN s : n > 1 => s[n].kind = kind

\* The slots of a server that listens; the one that is not listed yet; those greeted.
Stopped == ~up => accepting = NoLink /\ \A i \in Ids : links[i].slot # "backlog" /\ ~Alive(links[i])
Accepting == accepting # NoLink => links[accepting].slot \in {"accepted", "serving", "dead"}
Unlisted == \A i \in Ids : Alive(links[i]) /\ ~links[i].listed => accepting = i
Ungreeted == \A i \in Ids : links[i].slot \in {"backlog", "accepted"} => ~links[i].early
Serving ==
    \A i \in Ids : links[i].slot = "serving" =>
        /\ links[i].listed \/ links[i].early
        /\ links[i].who \in DOMAIN queues
        /\ All(links[i].upward, "write")

Slots == Stopped /\ Accepting /\ Unlisted /\ Ungreeted /\ Serving

\* Before its slot is listed and greeted nothing has come to a client.
Unheard(link) == link.slot = "backlog" \/ (link.slot = "accepted" /\ ~link.listed)

NothingYet == \A i \in Ids : Unheard(links[i]) => links[i].downward = <<>>
StillBlank ==
    \A i \in Ids : links[i].open /\ Unheard(links[i]) =>
        client[links[i].who].phase = "descriptors" /\ client[links[i].who].told = NoValue
DialsBlank ==
    \A c \in Dashboards : client[c].run = "dialing" =>
        client[c].phase = "descriptors" /\ client[c].told = NoValue

Fresh == NothingYet /\ StillBlank /\ DialsBlank

\* What a client sends before its hello has no write, its hello comes first unless a
\* heartbeat does, and stays until its connection is greeted.
BeforeHello ==
    \A i \in Ids : links[i].open /\ client[links[i].who].run = "connected" =>
        /\ links[i].slot # "serving"
        /\ All(links[i].upward, "heartbeat")
HelloFirst ==
    \A i \in Ids : links[i].slot # "serving" /\ links[i].upward # <<>>
                    /\ links[i].upward[1].kind # "heartbeat" =>
        AllBehind(links[i].upward, "write")
HelloStays ==
    \A i \in Ids : links[i].open /\ ~links[i].cut /\ links[i].slot \in {"backlog", "accepted"}
                    /\ client[links[i].who].run = "receiving" => links[i].upward # <<>>

Greetings == BeforeHello /\ HelloFirst /\ HelloStays

\* Values are numbered from 1, and a dashboard writes none that it has not made.
LeaseHasValue == lease # Nobody => latest > 0
Edits(s, edit) ==
    \A n \in DOMAIN s : s[n].kind = "write" => s[n].value > 0 /\ s[n].value <= edit
WritesAreEdits ==
    \A i \in Ids : links[i].who \in Dashboards => Edits(links[i].upward, host[links[i].who].edit)
EditsAreIssued == \A c \in Dashboards : host[c].edit <= issued

Numbered == LeaseHasValue /\ WritesAreEdits /\ EditsAreIssued

\* The last the core keeps for a client is the topic's value.
EndsWith(s, v) == s # <<>> => s[Len(s)].value = v
Owed == \A c \in DOMAIN queues : EndsWith(queues[c], latest)

Structure == TypeOK /\ Held /\ Slots /\ Fresh /\ Greetings /\ Numbered /\ Owed

-----------------------------------------------------------------------------
(* The invariant: what comes down a connection *)

Good(link) == Alive(link) /\ link.open /\ link.listed /\ ~link.cut /\ ~link.early

Has(s, kind) == \E n \in DOMAIN s : s[n].kind = kind

\* The last value under way in s is v.
EndsAt(s, v) ==
    \A n \in DOMAIN s :
        s[n].kind = "update" /\ (\A m \in DOMAIN s : m > n => s[m].kind # "update")
        => s[n].value = v

\* Snapshots come whole: a state begins right after the snapshot does, and has the
\* value if there is one.
Whole(s, v) ==
    /\ \A n \in DOMAIN s : s[n].kind = "snapshot begin" =>
          n + 1 \in DOMAIN s /\ s[n + 1].kind = "state begin"
    /\ \A n \in DOMAIN s : s[n].kind = "state begin" /\ v # NoValue =>
          \E m \in DOMAIN s : m > n /\ s[m].kind = "update"

\* A client that takes no values, between a snapshot's begin and its state's or found
\* stale, is not live before the next state has begun.
Begun(s) ==
    \A n \in DOMAIN s : s[n].kind = "live begin" =>
        \E m \in DOMAIN s : m < n /\ s[m].kind = "state begin"

\* What is under way in s brings a client in that phase with that view to v.
Brings(phase, view, s, v) ==
    /\ EndsAt(s, v) /\ Whole(s, v)
    /\ phase = "descriptors" => Begun(s)
    /\ phase # "descriptors" /\ ~Has(s, "update") => view = v
    /\ v = NoValue => view = NoValue /\ ~Has(s, "update")

StreamsBring ==
    \A i \in Ids : Good(links[i]) =>
        Brings(client[links[i].who].phase, client[links[i].who].told, links[i].downward, latest)

-----------------------------------------------------------------------------
(* The invariant: edits *)

Contains(s, state) == \E n \in DOMAIN s : s[n] = state

\* The last write under way in s is the edit, or nothing is and the authority has it,
\* unless its lease is another's.
Delivers(s, edit, v, free) ==
    IF s # <<>> THEN s[Len(s)].value = edit ELSE free => v >= edit

EditsDelivered ==
    \A i \in Ids :
        LET c == links[i].who
        IN  Good(links[i]) /\ links[i].slot = "serving" /\ client[c].connected /\ ~outrun[c] =>
              \/ Contains(host[c].posted, "connected")
              \/ Has(links[i].downward, "snapshot begin")
              \/ Delivers(links[i].upward, host[c].edit, latest, lease \in {Nobody, c})

-----------------------------------------------------------------------------
(* Types of what the server and the clients make *)

\* A connection's fields, together and one at a time.
LEMMA BlankLink == NoConnection \in LinkType /\ NoConnection.who = Nobody /\ NoConnection.slot = "none"
  BY DEF NoConnection, LinkType

LEMMA Kinds ==
    /\ \A v \in Nat : Update(v) \in Updates /\ Update(v) \in Downward /\ Update(v).kind = "update"
    /\ \A v \in Nat : Refusal(v) \in Answers /\ Refusal(v).kind = "reject"
    /\ \A k \in {"snapshot begin", "state begin", "live begin"} :
          Marker(k) \in Downward /\ Marker(k).kind = k
    /\ \A k \in {"hello", "heartbeat"} : Marker(k) \in Upward /\ Marker(k).kind = k
    /\ Updates \subseteq Answers /\ Answers \subseteq Downward
  BY DEF Update, Refusal, Marker, Updates, Answers, Downward, Upward, NoValue

LEMMA OneInSeq ==
    ASSUME NEW S, NEW a \in S
    PROVE  <<a>> \in Seq(S)
  OBVIOUS

LEMMA PairInSeq ==
    ASSUME NEW S, NEW a \in S, NEW b \in S
    PROVE  <<a, b>> \in Seq(S)
  OBVIOUS

LEMMA UpdatesGoDown ==
    ASSUME NEW s \in Seq(Updates)
    PROVE  s \in Seq(Downward) /\ s \in Seq(Answers)
  <1>1. Len(s) \in Nat /\ s \in [1 .. Len(s) -> Updates]
    OBVIOUS
  <1>2. s \in [1 .. Len(s) -> Downward] /\ s \in [1 .. Len(s) -> Answers]
    BY <1>1, Kinds
  <1>3. (\E n \in Nat : s \in [1 .. n -> Downward]) /\ \E n \in Nat : s \in [1 .. n -> Answers]
    BY <1>1, <1>2
  <1> QED BY <1>3

LEMMA SnapshotType ==
    ASSUME latest \in Nat
    PROVE  Snapshot \in Seq(Downward)
  <1> DEFINE value == IF latest = NoValue THEN <<>> ELSE <<Update(latest)>>
  <1>1. <<Marker("snapshot begin"), Marker("state begin")>> \in Seq(Downward)
    BY Kinds, PairInSeq
  <1>2. <<Marker("live begin")>> \in Seq(Downward)
    BY Kinds, OneInSeq
  <1>3. value \in Seq(Downward)
    <2>1. CASE latest = NoValue
      <3>1. <<>> \in Seq(Downward)
        BY EmptySeq
      <3> QED BY <2>1, <3>1
    <2>2. CASE latest # NoValue
      <3>1. <<Update(latest)>> \in Seq(Downward)
        BY Kinds, OneInSeq
      <3> QED BY <2>2, <3>1
    <2> QED BY <2>1, <2>2
  <1>4. Snapshot = <<Marker("snapshot begin"), Marker("state begin")>> \o value \o <<Marker("live begin")>>
    BY DEF Snapshot
  <1> HIDE DEF value
  <1> QED BY <1>1, <1>2, <1>3, <1>4, ConcatProperties

LEMMA SendType ==
    ASSUME NEW link \in LinkType, NEW ms \in Seq(Downward)
    PROVE  /\ Send(link, ms) \in LinkType
           /\ Send(link, ms) = [link EXCEPT !.downward = Send(link, ms).downward]
           /\ Send(link, ms).downward = IF link.open THEN link.downward \o ms ELSE link.downward
  <1>1. link.downward \o ms \in Seq(Downward)
    BY DEF LinkType
  <1> QED BY <1>1 DEF Send, LinkType

LEMMA SettledType ==
    ASSUME NEW link \in LinkType
    PROVE  /\ Settled(link) \in LinkType /\ Settled(link) \in {link, NoConnection}
           /\ link.open \/ link.slot \notin {"closed", "dead"} => Settled(link) = link
  BY BlankLink DEF Settled, Over

LEMMA SendToAllType ==
    ASSUME NEW ls \in [Ids -> LinkType], NEW ms \in Seq(Downward)
    PROVE  SendToAll(ls, ms) \in [Ids -> LinkType]
  BY SendType DEF SendToAll

-----------------------------------------------------------------------------
(* What comes down a connection, as sequences *)

\* Positions in a sequence of length l.
Spans(s, l) == DOMAIN s \subseteq Nat /\ \A n \in Nat : n \in DOMAIN s <=> 1 <= n /\ n <= l

\* t has the l elements of s and behind them the k of u.
Joins(t, s, l, u, k) ==
    /\ Spans(s, l) /\ Spans(u, k) /\ Spans(t, l + k)
    /\ \A n \in Nat : 1 <= n /\ n <= l => t[n] = s[n]
    /\ \A n \in Nat : 1 <= n /\ n <= k => t[l + n] = u[n]

LEMMA Positions ==
    ASSUME NEW S, NEW s \in Seq(S)
    PROVE  Len(s) \in Nat /\ Spans(s, Len(s))
  BY DEF Spans

LEMMA Joined ==
    ASSUME NEW S, NEW s \in Seq(S), NEW u \in Seq(S)
    PROVE  \E l \in Nat, k \in Nat : l = Len(s) /\ k = Len(u) /\ Joins(s \o u, s, l, u, k)
  <1>1. /\ s \o u \in Seq(S) /\ Len(s) \in Nat /\ Len(u) \in Nat /\ Len(s \o u) = Len(s) + Len(u)
        /\ \A i \in 1 .. Len(s) + Len(u) : (s \o u)[i] = IF i <= Len(s) THEN s[i] ELSE u[i - Len(s)]
    BY ConcatProperties, LenProperties
  <1>2. PICK l \in Nat, k \in Nat : l = Len(s) /\ k = Len(u)
    BY <1>1
  <1>3. Spans(s, l) /\ Spans(u, k) /\ Spans(s \o u, l + k)
    BY <1>1, <1>2, Positions
  <1>4. \A i \in 1 .. l + k : (s \o u)[i] = IF i <= l THEN s[i] ELSE u[i - l]
    BY <1>1, <1>2
  <1>5. ASSUME NEW n \in Nat, 1 <= n, n <= l PROVE (s \o u)[n] = s[n]
    <2>1. n \in 1 .. l + k
      BY <1>5
    <2> QED BY <2>1, <1>4, <1>5
  <1>6. ASSUME NEW n \in Nat, 1 <= n, n <= k PROVE (s \o u)[l + n] = u[n]
    <2>1. l + n \in 1 .. l + k /\ ~(l + n <= l) /\ (l + n) - l = n
      BY <1>6
    <2> QED BY <2>1, <1>4
  <1>7. Joins(s \o u, s, l, u, k)
    BY <1>3, <1>5, <1>6 DEF Joins
  <1> QED BY <1>2, <1>7

LEMMA JoinsOld ==
    ASSUME NEW t, NEW s, NEW u, NEW l \in Nat, NEW k \in Nat, Joins(t, s, l, u, k)
    PROVE  /\ \A n \in DOMAIN s : n \in Nat /\ 1 <= n /\ n <= l /\ n \in DOMAIN t /\ t[n] = s[n]
           /\ \A n \in DOMAIN t : n \in Nat /\ 1 <= n /\ n <= l + k
                                  /\ (n <= l => n \in DOMAIN s /\ t[n] = s[n])
  <1>1. ASSUME NEW n \in DOMAIN s PROVE n \in Nat /\ 1 <= n /\ n <= l
    BY <1>1 DEF Joins, Spans
  <1>2. ASSUME NEW n \in Nat, 1 <= n, n <= l PROVE n \in DOMAIN t /\ t[n] = s[n] /\ n \in DOMAIN s
    <2>1. n <= l + k
      BY <1>2
    <2> QED BY <1>2, <2>1 DEF Joins, Spans
  <1>3. ASSUME NEW n \in DOMAIN t PROVE n \in Nat /\ 1 <= n /\ n <= l + k
    BY <1>3 DEF Joins, Spans
  <1> QED BY <1>1, <1>2, <1>3

\* t has what s has behind its first element.
Follows(t, s, l) ==
    /\ Spans(s, l + 1) /\ Spans(t, l)
    /\ \A n \in Nat : 1 <= n /\ n <= l => t[n] = s[n + 1]

LEMMA Rest ==
    ASSUME NEW S, NEW s \in Seq(S), s # <<>>
    PROVE  /\ Tail(s) \in Seq(S) /\ Head(s) = s[1] /\ Head(s) \in S
           /\ \E l \in Nat : l + 1 = Len(s) /\ Follows(Tail(s), s, l)
  <1>1. /\ Tail(s) \in Seq(S) /\ Head(s) = s[1] /\ Head(s) \in S /\ Len(Tail(s)) = Len(s) - 1
        /\ \A i \in 1 .. Len(Tail(s)) : Tail(s)[i] = s[i + 1]
        /\ Len(s) \in Nat /\ Len(Tail(s)) \in Nat
    BY HeadTailProperties, LenProperties, EmptySeq
  <1>2. PICK l \in Nat : l = Len(Tail(s))
    BY <1>1
  <1>3. Len(s) = l + 1
    BY <1>1, <1>2
  <1>4. Spans(Tail(s), l) /\ Spans(s, l + 1)
    BY <1>1, <1>2, <1>3, Positions
  <1>5. \A i \in 1 .. l : Tail(s)[i] = s[i + 1]
    BY <1>1, <1>2
  <1>6. ASSUME NEW n \in Nat, 1 <= n, n <= l PROVE Tail(s)[n] = s[n + 1]
    <2>1. n \in 1 .. l
      BY <1>6
    <2> QED BY <2>1, <1>5
  <1>7. Follows(Tail(s), s, l)
    BY <1>4, <1>6 DEF Follows
  <1> QED BY <1>1, <1>3, <1>7

\* A drained connection brings a client that takes no values to the latest one.
LEMMA BringsAtRest ==
    ASSUME NEW view, NEW v, v = NoValue => view = NoValue
    PROVE  Brings("descriptors", view, <<>>, v)
  BY DEF Brings, EndsAt, Whole, Begun, Has

\* More updates, the last of them new, bring the client to the new value.
LEMMA BringsMore ==
    ASSUME NEW phase, NEW view, NEW s \in Seq(Downward), NEW v, NEW us \in Seq(Updates), NEW w \in Nat,
           Brings(phase, view, s, v), us # <<>>, us[Len(us)].value = w, w > 0
    PROVE  Brings(phase, view, s \o us, w)
  <1> DEFINE t == s \o us
  <1>0. us \in Seq(Downward) /\ Len(us) # 0
    BY UpdatesGoDown
  <1>1. PICK l \in Nat, k \in Nat : l = Len(s) /\ k = Len(us) /\ Joins(t, s, l, us, k)
    BY <1>0, Joined
  <1>old. ASSUME NEW n \in DOMAIN s PROVE n \in DOMAIN t /\ t[n] = s[n]
    <2> HIDE DEF t
    <2>1. n \in Nat /\ 1 <= n /\ n <= l
      BY <1>1, <1>old DEF Joins, Spans
    <2>2. n <= l + k
      BY <2>1
    <2> QED BY <2>1, <2>2, <1>1 DEF Joins, Spans
  <1>2. \A n \in Nat : 1 <= n /\ n <= k => us[n].kind = "update"
    <2>0. \A n \in DOMAIN us : us[n] \in Updates
      OBVIOUS
    <2>1. \A n \in DOMAIN us : us[n].kind = "update"
      BY <2>0 DEF Updates
    <2> QED BY <2>1, <1>1 DEF Joins, Spans
  <1>3. k > 0 /\ us[k].value = w
    BY <1>0, <1>1 DEF Joins, Spans
  <1>4. t[l + k].kind = "update" /\ t[l + k].value = w /\ l + k \in DOMAIN t
    BY <1>1, <1>2, <1>3 DEF Joins, Spans
  <1> HIDE DEF t
  <1>5. ASSUME NEW n \in DOMAIN t, t[n].kind # "update"
        PROVE  n \in Nat /\ n \in DOMAIN s /\ n <= l /\ t[n] = s[n] /\ n < l + k
    <2>1. n \in Nat /\ 1 <= n /\ n <= l + k
      BY <1>1 DEF Joins, Spans
    <2>2. n <= l
      <3> SUFFICES ASSUME n > l PROVE FALSE
        BY <2>1
      <3>1. n - l \in Nat /\ 1 <= n - l /\ n - l <= k /\ l + (n - l) = n
        BY <2>1
      <3>2. t[n] = us[n - l]
        BY <3>1, <1>1 DEF Joins, Spans
      <3> QED BY <3>1, <3>2, <1>2, <1>5
    <2> QED BY <2>1, <2>2, <1>1, <1>3 DEF Joins, Spans
  <1>6. EndsAt(t, w)
    <2> SUFFICES ASSUME NEW n \in DOMAIN t, \A m \in DOMAIN t : m > n => t[m].kind # "update"
                 PROVE  t[n].value = w
      BY DEF EndsAt
    <2>1. n = l + k
      BY <1>1, <1>4 DEF Joins, Spans
    <2> QED BY <2>1, <1>4
  <1>7. Whole(t, w)
    <2>1. ASSUME NEW n \in DOMAIN t, t[n].kind = "snapshot begin"
          PROVE  n + 1 \in DOMAIN t /\ t[n + 1].kind = "state begin"
      <3>1. n \in DOMAIN s /\ s[n].kind = "snapshot begin"
        BY <2>1, <1>5
      <3>2. n + 1 \in DOMAIN s /\ s[n + 1].kind = "state begin"
        BY <3>1 DEF Brings, Whole
      <3> QED BY <3>2, <1>old
    <2>2. ASSUME NEW n \in DOMAIN t, t[n].kind = "state begin"
          PROVE  \E m \in DOMAIN t : m > n /\ t[m].kind = "update"
      BY <2>2, <1>4, <1>5
    <2> QED BY <2>1, <2>2 DEF Whole
  <1>8. ASSUME phase = "descriptors" PROVE Begun(t)
    <2> SUFFICES ASSUME NEW n \in DOMAIN t, t[n].kind = "live begin"
                 PROVE  \E m \in DOMAIN t : m < n /\ t[m].kind = "state begin"
      BY DEF Begun
    <2>1. n \in DOMAIN s /\ s[n].kind = "live begin"
      BY <1>5
    <2>2. PICK m \in DOMAIN s : m < n /\ s[m].kind = "state begin"
      BY <2>1, <1>8 DEF Brings, Begun
    <2>3. m \in DOMAIN t /\ t[m] = s[m]
      BY <2>2, <1>old
    <2> QED BY <2>2, <2>3
  <1>9. Has(t, "update")
    BY <1>4 DEF Has
  <1>10. w # NoValue
    BY DEF NoValue
  <1>11. Brings(phase, view, t, w)
    BY <1>6, <1>7, <1>8, <1>9, <1>10 DEF Brings
  <1> QED BY <1>11 DEF t

\* The messages of a snapshot of v.
IsSnapshot(ms, v) ==
    /\ ms[1].kind = "snapshot begin" /\ ms[2].kind = "state begin"
    /\ ms[Len(ms)].kind = "live begin"
    /\ IF v = NoValue THEN Len(ms) = 3
       ELSE Len(ms) = 4 /\ ms[3].kind = "update" /\ ms[3].value = v

LEMMA Beyond ==
    ASSUME NEW l \in Nat, NEW k \in Nat, k > 2
    PROVE  l + 2 < l + k /\ l + 2 < l + 3
  <1>1. l + 2 < l + k
    OBVIOUS
  <1>2. l + 2 < l + 3
    OBVIOUS
  <1> QED BY <1>1, <1>2

\* A snapshot of the value brings a client to it as well.
LEMMA BringsSnapshot ==
    ASSUME NEW phase, NEW view, NEW s \in Seq(Downward), NEW v, NEW ms \in Seq(Downward),
           Brings(phase, view, s, v), IsSnapshot(ms, v)
    PROVE  Brings(phase, view, s \o ms, v)
  <1> DEFINE t == s \o ms
  <1>1. PICK l \in Nat, k \in Nat : l = Len(s) /\ k = Len(ms) /\ Joins(t, s, l, ms, k)
    BY Joined
  <1> HIDE DEF t
  <1>old. ASSUME NEW n \in DOMAIN s PROVE n \in DOMAIN t /\ t[n] = s[n]
    <2> HIDE DEF t
    <2>1. n \in Nat /\ 1 <= n /\ n <= l
      BY <1>1, <1>old DEF Joins, Spans
    <2>2. n <= l + k
      BY <2>1
    <2> QED BY <2>1, <2>2, <1>1 DEF Joins, Spans
  <1>2. k = (IF v = NoValue THEN 3 ELSE 4) /\ k > 2
    <2>1. k = Len(ms)
      BY <1>1
    <2>2. (v = NoValue => k = 3) /\ (v # NoValue => k = 4)
      BY <2>1 DEF IsSnapshot
    <2> QED BY <2>2
  <1>3. /\ t[l + 1].kind = "snapshot begin" /\ t[l + 2].kind = "state begin"
        /\ t[l + k].kind = "live begin"
        /\ v # NoValue => t[l + 3].kind = "update" /\ t[l + 3].value = v
    <2>1. t[l + 1] = ms[1] /\ t[l + 2] = ms[2] /\ t[l + 3] = ms[3] /\ t[l + k] = ms[k]
      BY <1>1, <1>2 DEF Joins, Spans
    <2> QED BY <2>1, <1>1 DEF IsSnapshot, Joins, Spans
  <1>4. l + 1 \in DOMAIN t /\ l + 2 \in DOMAIN t /\ l + k \in DOMAIN t /\ (v # NoValue => l + 3 \in DOMAIN t)
    BY <1>1, <1>2 DEF Joins, Spans
  <1>5. ASSUME NEW n \in DOMAIN t
        PROVE  n \in Nat /\ (\/ n <= l /\ n \in DOMAIN s /\ t[n] = s[n]
                             \/ n = l + 1 \/ n = l + 2 \/ n = l + k
                             \/ n = l + 3 /\ v # NoValue)
    <2>1. n \in Nat /\ 1 <= n /\ n <= l + k /\ (n <= l => n \in DOMAIN s /\ t[n] = s[n])
      BY <1>1, JoinsOld
    <2>2. n <= l \/ n = l + 1 \/ n = l + 2 \/ n = l + k \/ (n = l + 3 /\ v # NoValue)
      BY <2>1, <1>2
    <2> QED BY <2>1, <2>2
  <1>6. EndsAt(t, v)
    <2> SUFFICES ASSUME NEW n \in DOMAIN t, t[n].kind = "update",
                        \A m \in DOMAIN t : m > n => t[m].kind # "update"
                 PROVE  t[n].value = v
      BY DEF EndsAt
    <2>1. CASE v = NoValue
      <3>1. n \in DOMAIN s /\ s[n].kind = "update"
        BY <1>3, <1>5, <2>1
      <3> QED BY <3>1, <2>1 DEF Brings, Has
    <2>2. CASE v # NoValue
      <3>1. n = l + 3
        <4>1. ~(n < l + 3)
          BY <1>3, <1>4, <2>2
        <4>2. n = l + k \/ n = l + 3
          BY <4>1, <1>5
        <4> QED BY <4>2, <1>3
      <3> QED BY <3>1, <1>3, <2>2
    <2> QED BY <2>1, <2>2
  <1>7. Whole(t, v)
    <2>1. ASSUME NEW n \in DOMAIN t, t[n].kind = "snapshot begin"
          PROVE  n + 1 \in DOMAIN t /\ t[n + 1].kind = "state begin"
      <3>1. CASE n \in DOMAIN s /\ t[n] = s[n]
        <4>1. n + 1 \in DOMAIN s /\ s[n + 1].kind = "state begin"
          BY <3>1, <2>1 DEF Brings, Whole
        <4> QED BY <4>1, <1>old
      <3>2. CASE n = l + 1
        <4>1. n + 1 = l + 2
          BY <3>2
        <4> QED BY <4>1, <1>3, <1>4
      <3>3. n # l + 2 /\ n # l + k /\ ~(n = l + 3 /\ v # NoValue)
        BY <2>1, <1>3
      <3> QED BY <3>1, <3>2, <3>3, <1>5
    <2>2. ASSUME NEW n \in DOMAIN t, t[n].kind = "state begin", v # NoValue
          PROVE  \E m \in DOMAIN t : m > n /\ t[m].kind = "update"
      <3>1. n # l + 3 /\ n # l + k
        BY <2>2, <1>3
      <3>2. n < l + 3
        BY <3>1, <1>5
      <3> QED BY <3>2, <2>2, <1>3, <1>4
    <2> QED BY <2>1, <2>2 DEF Whole
  <1>8. ASSUME phase = "descriptors" PROVE Begun(t)
    <2> SUFFICES ASSUME NEW n \in DOMAIN t, t[n].kind = "live begin"
                 PROVE  \E m \in DOMAIN t : m < n /\ t[m].kind = "state begin"
      BY DEF Begun
    <2>1. CASE n \in DOMAIN s /\ t[n] = s[n]
      <3>1. PICK m \in DOMAIN s : m < n /\ s[m].kind = "state begin"
        BY <2>1, <1>8 DEF Brings, Begun
      <3>2. m \in DOMAIN t /\ t[m] = s[m]
        BY <3>1, <1>old
      <3> QED BY <3>1, <3>2
    <2>2. CASE ~(n \in DOMAIN s /\ t[n] = s[n])
      <3>1. n # l + 1 /\ n # l + 2
        BY <1>3
      <3>2. n \in Nat /\ (n = l + k \/ n = l + 3)
        BY <3>1, <2>2, <1>5
      <3>3. l + 2 < n
        <4>1. k > 2
          BY <1>2
        <4>2. l + 2 < l + k /\ l + 2 < l + 3
          BY <4>1, Beyond
        <4>3. n = l + k \/ n = l + 3
          BY <3>2
        <4> QED BY <4>2, <4>3
      <3> QED BY <3>3, <1>3, <1>4
    <2> QED BY <2>1, <2>2
  <1>9. v # NoValue => Has(t, "update")
    BY <1>3, <1>4 DEF Has
  <1>10. ASSUME v = NoValue, Has(t, "update") PROVE Has(s, "update")
    <2>1. PICK n \in DOMAIN t : t[n].kind = "update"
      BY <1>10 DEF Has
    <2>2. n \in DOMAIN s /\ t[n] = s[n]
      BY <2>1, <1>3, <1>5, <1>10
    <2> QED BY <2>1, <2>2 DEF Has
  <1>11. Brings(phase, view, t, v)
    BY <1>6, <1>7, <1>8, <1>9, <1>10 DEF Brings
  <1> QED BY <1>11 DEF t

\* Taking a message keeps what is under way in order.
LEMMA BringsRest ==
    ASSUME NEW s \in Seq(Downward), NEW v, s # <<>>, EndsAt(s, v), Whole(s, v)
    PROVE  EndsAt(Tail(s), v) /\ Whole(Tail(s), v)
  <1> DEFINE t == Tail(s)
  <1>1. PICK l \in Nat : Follows(t, s, l)
    BY Rest
  <1> HIDE DEF t
  <1>2. ASSUME NEW n \in DOMAIN t PROVE n \in Nat /\ 1 <= n /\ n + 1 \in DOMAIN s /\ t[n] = s[n + 1]
    BY <1>1 DEF Follows, Spans
  <1>3. ASSUME NEW m \in DOMAIN s, m > 1 PROVE m \in Nat /\ m - 1 \in DOMAIN t /\ t[m - 1] = s[m]
    <2>1. m \in Nat /\ m - 1 \in Nat /\ 1 <= m - 1 /\ m - 1 <= l /\ (m - 1) + 1 = m
      BY <1>1, <1>3 DEF Follows, Spans
    <2> QED BY <2>1, <1>1 DEF Follows, Spans
  <1>4. EndsAt(t, v)
    <2> SUFFICES ASSUME NEW n \in DOMAIN t, t[n].kind = "update",
                        \A m \in DOMAIN t : m > n => t[m].kind # "update"
                 PROVE  t[n].value = v
      BY DEF EndsAt
    <2>1. n + 1 \in DOMAIN s /\ s[n + 1] = t[n] /\ n \in Nat /\ 1 <= n
      BY <1>2
    <2>2. ASSUME NEW m \in DOMAIN s, m > n + 1 PROVE s[m].kind # "update"
      <3>1. m \in Nat /\ m > 1
        BY <2>1, <2>2, <1>1 DEF Follows, Spans
      <3>2. m - 1 \in DOMAIN t /\ t[m - 1] = s[m] /\ m - 1 > n
        BY <3>1, <1>3, <2>1, <2>2
      <3> QED BY <3>2
    <2> QED BY <2>1, <2>2 DEF EndsAt
  <1>5. Whole(t, v)
    <2>1. ASSUME NEW n \in DOMAIN t, t[n].kind = "snapshot begin"
          PROVE  n + 1 \in DOMAIN t /\ t[n + 1].kind = "state begin"
      <3>1. n \in Nat /\ 1 <= n /\ n + 1 \in DOMAIN s /\ s[n + 1].kind = "snapshot begin"
        BY <2>1, <1>2
      <3>2. (n + 1) + 1 \in DOMAIN s /\ s[(n + 1) + 1].kind = "state begin"
        BY <3>1 DEF Whole
      <3>3. (n + 1) + 1 > 1 /\ ((n + 1) + 1) - 1 = n + 1
        <4>1. n \in Nat
          BY <3>1
        <4> QED BY <4>1
      <3> QED BY <3>2, <3>3, <1>3
    <2>2. ASSUME NEW n \in DOMAIN t, t[n].kind = "state begin", v # NoValue
          PROVE  \E m \in DOMAIN t : m > n /\ t[m].kind = "update"
      <3>1. n \in Nat /\ 1 <= n /\ n + 1 \in DOMAIN s /\ s[n + 1].kind = "state begin"
        BY <2>2, <1>2
      <3>2. PICK m \in DOMAIN s : m > n + 1 /\ s[m].kind = "update"
        BY <3>1, <2>2 DEF Whole
      <3>3. m \in Nat /\ n \in Nat /\ 1 <= n /\ m > n + 1
        BY <3>1, <3>2, <1>1 DEF Follows, Spans
      <3>4. m > 1 /\ m - 1 > n
        BY <3>3
      <3>5. m - 1 \in DOMAIN t /\ t[m - 1] = s[m]
        BY <3>4, <1>3
      <3> QED BY <3>2, <3>4, <3>5
    <2> QED BY <2>1, <2>2 DEF Whole
  <1> QED BY <1>4, <1>5 DEF t

\* Numbers of positions.
LEMMA Order ==
    /\ (1 + 1) - 1 = 1 /\ 1 + 1 > 1
    /\ \A m \in Nat : 1 <= m => (m = 1 \/ m > 1) /\ ~(m < 1) /\ (m # 1 => 1 < m)
    /\ \A m \in Nat, n \in Nat : m > 1 /\ m < n + 1 => m - 1 < n
  OBVIOUS

\* Positions of the rest and of the whole.
LEMMA FollowsAt ==
    ASSUME NEW t, NEW s, NEW l \in Nat, Follows(t, s, l)
    PROVE  /\ \A n \in DOMAIN t : n \in Nat /\ 1 <= n /\ n + 1 \in DOMAIN s /\ t[n] = s[n + 1]
           /\ \A m \in DOMAIN s : m \in Nat /\ 1 <= m /\ (m > 1 => m - 1 \in DOMAIN t /\ t[m - 1] = s[m])
  <1>1. ASSUME NEW n \in DOMAIN t PROVE n \in Nat /\ 1 <= n /\ n + 1 \in DOMAIN s /\ t[n] = s[n + 1]
    <2>1. n \in Nat /\ 1 <= n /\ n <= l
      BY <1>1 DEF Follows, Spans
    <2>2. n + 1 \in Nat /\ 1 <= n + 1 /\ n + 1 <= l + 1
      BY <2>1
    <2> QED BY <2>1, <2>2 DEF Follows, Spans
  <1>2. ASSUME NEW m \in DOMAIN s
        PROVE  m \in Nat /\ 1 <= m /\ (m > 1 => m - 1 \in DOMAIN t /\ t[m - 1] = s[m])
    <2>1. m \in Nat /\ 1 <= m /\ m <= l + 1
      BY <1>2 DEF Follows, Spans
    <2>2. m > 1 => m - 1 \in Nat /\ 1 <= m - 1 /\ m - 1 <= l /\ (m - 1) + 1 = m
      BY <2>1
    <2> QED BY <2>1, <2>2 DEF Follows, Spans
  <1> QED BY <1>1, <1>2

LEMMA Tails ==
    ASSUME NEW s \in Seq(Downward), s # <<>>
    PROVE  /\ \A m \in DOMAIN s : m \in Nat /\ 1 <= m
                  /\ (m > 1 => m - 1 \in DOMAIN Tail(s) /\ Tail(s)[m - 1] = s[m])
           /\ \A n \in DOMAIN Tail(s) : n \in Nat /\ 1 <= n /\ n + 1 \in DOMAIN s /\ Tail(s)[n] = s[n + 1]
  <1>1. PICK l \in Nat : Follows(Tail(s), s, l)
    BY Rest
  <1> QED BY <1>1, FollowsAt

LEMMA Front ==
    ASSUME NEW s \in Seq(Downward), s # <<>>
    PROVE  Head(s) = s[1] /\ 1 \in DOMAIN s
  <1>1. Head(s) = s[1]
    BY Rest
  <1>2. 1 \in DOMAIN s
    BY Rest, EmptySeq
  <1> QED BY <1>1, <1>2

\* What is taken is the first element; the others stay.
LEMMA HasRest ==
    ASSUME NEW s \in Seq(Downward), NEW kind, s # <<>>
    PROVE  Has(s, kind) <=> Head(s).kind = kind \/ Has(Tail(s), kind)
  <1>1. PICK l \in Nat : Follows(Tail(s), s, l)
    BY Rest
  <1>2. /\ \A n \in DOMAIN Tail(s) : n + 1 \in DOMAIN s /\ Tail(s)[n] = s[n + 1]
        /\ \A m \in DOMAIN s : m \in Nat /\ 1 <= m /\ (m > 1 => m - 1 \in DOMAIN Tail(s) /\ Tail(s)[m - 1] = s[m])
    BY <1>1, FollowsAt
  <1>3. Head(s) = s[1] /\ 1 \in DOMAIN s
    BY Rest, EmptySeq
  <1>4. ASSUME NEW m \in DOMAIN s, s[m].kind = kind PROVE Head(s).kind = kind \/ Has(Tail(s), kind)
    <2>1. m = 1 \/ m > 1
      BY <1>2
    <2> QED BY <2>1, <1>2, <1>3, <1>4 DEF Has
  <1>5. ASSUME NEW n \in DOMAIN Tail(s), Tail(s)[n].kind = kind PROVE Has(s, kind)
    BY <1>2, <1>5 DEF Has
  <1>6. Head(s).kind = kind => Has(s, kind)
    BY <1>3 DEF Has
  <1> QED BY <1>4, <1>5, <1>6 DEF Has

\* A message is taken: the begin of a snapshot,
LEMMA BringsFromBegin ==
    ASSUME NEW phase, NEW view, NEW s \in Seq(Downward), NEW v, s # <<>>, Brings(phase, view, s, v),
           Head(s).kind = "snapshot begin"
    PROVE  Brings("descriptors", view, Tail(s), v)
  <1>1. PICK l \in Nat : Follows(Tail(s), s, l)
    BY Rest
  <1> DEFINE t == Tail(s)
  <1>2. /\ \A m \in DOMAIN s : m \in Nat /\ 1 <= m /\ (m > 1 => m - 1 \in DOMAIN t /\ t[m - 1] = s[m])
        /\ \A n \in DOMAIN t : n \in Nat /\ 1 <= n /\ n + 1 \in DOMAIN s /\ t[n] = s[n + 1]
    BY Tails
  <1>3. \A n \in DOMAIN t : n \in Nat /\ 1 <= n
    BY <1>2
  <1>4. 1 \in DOMAIN s /\ s[1].kind = "snapshot begin"
    <2>1. Head(s) = s[1] /\ 1 \in DOMAIN s
      BY Front
    <2> QED BY <2>1
  <1>5. 1 + 1 \in DOMAIN s /\ s[1 + 1].kind = "state begin"
    BY <1>4 DEF Brings, Whole
  <1>6. 1 \in DOMAIN t /\ t[1].kind = "state begin"
    <2>1. (1 + 1) - 1 = 1 /\ 1 + 1 > 1
      BY Order
    <2> QED BY <2>1, <1>2, <1>5
  <1>7. EndsAt(t, v) /\ Whole(t, v)
    BY BringsRest DEF Brings
  <1>8. v = NoValue => view = NoValue /\ ~Has(t, "update")
    BY HasRest DEF Brings
  <1> HIDE DEF t
  <1>9. Begun(t)
    <2> SUFFICES ASSUME NEW n \in DOMAIN t, t[n].kind = "live begin"
                 PROVE  \E m \in DOMAIN t : m < n /\ t[m].kind = "state begin"
      BY DEF Begun
    <2>1. n # 1 /\ n \in Nat /\ 1 <= n
      BY <1>3, <1>6
    <2>2. 1 < n
      BY <2>1, Order
    <2> QED BY <2>2, <1>6
  <1>10. Brings("descriptors", view, t, v)
    BY <1>7, <1>8, <1>9 DEF Brings
  <1> QED BY <1>10 DEF t

\* the begin of its state,
LEMMA BringsFromState ==
    ASSUME NEW phase, NEW view, NEW s \in Seq(Downward), NEW v, s # <<>>, Brings(phase, view, s, v),
           Head(s).kind = "state begin"
    PROVE  Brings("state", view, Tail(s), v)
  <1> DEFINE t == Tail(s)
  <1>1. \A m \in DOMAIN s : m \in Nat /\ 1 <= m /\ (m > 1 => m - 1 \in DOMAIN t /\ t[m - 1] = s[m])
    BY Tails
  <1>2. 1 \in DOMAIN s /\ s[1].kind = "state begin"
    <2>1. Head(s) = s[1] /\ 1 \in DOMAIN s
      BY Front
    <2> QED BY <2>1
  <1>3. EndsAt(t, v) /\ Whole(t, v)
    BY BringsRest DEF Brings
  <1>4. v = NoValue => view = NoValue /\ ~Has(t, "update")
    BY HasRest DEF Brings
  <1> HIDE DEF t
  <1>5. v # NoValue => Has(t, "update")
    <2> SUFFICES ASSUME v # NoValue PROVE Has(t, "update")
      OBVIOUS
    <2>1. PICK m \in DOMAIN s : m > 1 /\ s[m].kind = "update"
      BY <1>2 DEF Brings, Whole
    <2>2. m - 1 \in DOMAIN t /\ t[m - 1].kind = "update"
      BY <2>1, <1>1
    <2> QED BY <2>2 DEF Has
  <1>6. Brings("state", view, t, v)
    BY <1>3, <1>4, <1>5 DEF Brings
  <1> QED BY <1>6 DEF t

\* its end,
LEMMA BringsFromLive ==
    ASSUME NEW phase, NEW view, NEW s \in Seq(Downward), NEW v, s # <<>>, Brings(phase, view, s, v),
           Head(s).kind = "live begin"
    PROVE  Brings("live", view, Tail(s), v)
  <1>1. \A m \in DOMAIN s : m \in Nat /\ 1 <= m
    BY Tails
  <1>2. 1 \in DOMAIN s /\ s[1].kind = "live begin"
    <2>1. Head(s) = s[1] /\ 1 \in DOMAIN s
      BY Front
    <2> QED BY <2>1
  <1>3. phase # "descriptors"
    <2> SUFFICES ASSUME phase = "descriptors" PROVE FALSE
      OBVIOUS
    <2>1. PICK m \in DOMAIN s : m < 1 /\ s[m].kind = "state begin"
      BY <1>2 DEF Brings, Begun
    <2>2. m \in Nat /\ 1 <= m
      BY <1>1
    <2> QED BY <2>1, <2>2, Order
  <1>4. ~Has(Tail(s), "update") => view = v
    BY <1>3, HasRest DEF Brings
  <1>5. EndsAt(Tail(s), v) /\ Whole(Tail(s), v)
    BY BringsRest DEF Brings
  <1>6. v = NoValue => view = NoValue /\ ~Has(Tail(s), "update")
    BY HasRest DEF Brings
  <1> QED BY <1>4, <1>5, <1>6 DEF Brings

\* or a value, which a client between a snapshot's begin and its state's leaves.
LEMMA BringsFromUpdate ==
    ASSUME NEW phase, NEW view, NEW s \in Seq(Downward), NEW v, s # <<>>, Brings(phase, view, s, v),
           Head(s).kind = "update"
    PROVE  Brings(phase, IF phase # "descriptors" THEN Head(s).value ELSE view, Tail(s), v)
  <1>1. PICK l \in Nat : Follows(Tail(s), s, l)
    BY Rest
  <1> DEFINE t == Tail(s)
  <1>2. /\ \A m \in DOMAIN s : m \in Nat /\ 1 <= m /\ (m > 1 => m - 1 \in DOMAIN t /\ t[m - 1] = s[m])
        /\ \A n \in DOMAIN t : n \in Nat /\ 1 <= n /\ n + 1 \in DOMAIN s /\ t[n] = s[n + 1]
    BY Tails
  <1>3. 1 \in DOMAIN s /\ s[1].kind = "update" /\ s[1] = Head(s)
    BY Rest, EmptySeq
  <1>4. EndsAt(t, v) /\ Whole(t, v)
    BY BringsRest DEF Brings
  <1>5. v # NoValue
    BY <1>3 DEF Brings, Has
  <1> HIDE DEF t
  <1>6. ASSUME ~Has(t, "update") PROVE Head(s).value = v
    <2>1. \A m \in DOMAIN s : m > 1 => s[m].kind # "update"
      BY <1>2, <1>6 DEF Has
    <2> QED BY <2>1, <1>3 DEF Brings, EndsAt
  <1>7. ASSUME phase = "descriptors" PROVE Begun(t)
    <2> SUFFICES ASSUME NEW n \in DOMAIN t, t[n].kind = "live begin"
                 PROVE  \E m \in DOMAIN t : m < n /\ t[m].kind = "state begin"
      BY DEF Begun
    <2>1. n \in Nat /\ n + 1 \in DOMAIN s /\ s[n + 1].kind = "live begin"
      BY <1>2
    <2>2. PICK m \in DOMAIN s : m < n + 1 /\ s[m].kind = "state begin"
      BY <2>1, <1>7 DEF Brings, Begun
    <2>3. m \in Nat /\ 1 <= m /\ m # 1
      BY <2>2, <1>2, <1>3
    <2>4. m > 1 /\ m - 1 < n
      <3>1. n \in Nat /\ m < n + 1
        BY <2>1, <2>2
      <3> QED BY <3>1, <2>3, Order
    <2>5. m - 1 \in DOMAIN t /\ t[m - 1] = s[m]
      BY <2>4, <1>2
    <2> QED BY <2>2, <2>4, <2>5
  <1>8. Brings(phase, IF phase # "descriptors" THEN Head(s).value ELSE view, t, v)
    BY <1>4, <1>5, <1>6, <1>7 DEF Brings
  <1> QED BY <1>8 DEF t

\* or the client's own refused value, which leaves open what it was told.
LEMMA BringsFromRefusal ==
    ASSUME NEW phase, NEW view, NEW s \in Seq(Downward), NEW v, s # <<>>, Brings(phase, view, s, v),
           Head(s).kind = "reject"
    PROVE  Brings(phase, view, Tail(s), v)
  <1>1. PICK l \in Nat : Follows(Tail(s), s, l)
    BY Rest
  <1> DEFINE t == Tail(s)
  <1>2. /\ \A m \in DOMAIN s : m \in Nat /\ 1 <= m /\ (m > 1 => m - 1 \in DOMAIN t /\ t[m - 1] = s[m])
        /\ \A n \in DOMAIN t : n \in Nat /\ 1 <= n /\ n + 1 \in DOMAIN s /\ t[n] = s[n + 1]
    BY Tails
  <1>3. 1 \in DOMAIN s /\ s[1].kind = "reject"
    BY Rest, EmptySeq
  <1>4. EndsAt(t, v) /\ Whole(t, v)
    BY BringsRest DEF Brings
  <1> HIDE DEF t
  <1>5. Has(s, "update") <=> Has(t, "update")
    <2>1. ASSUME NEW m \in DOMAIN s, s[m].kind = "update" PROVE Has(t, "update")
      <3>1. m # 1 /\ m \in Nat /\ 1 <= m
        BY <1>2, <1>3, <2>1
      <3>2. m > 1
        BY <3>1
      <3>3. m - 1 \in DOMAIN t /\ t[m - 1].kind = "update"
        BY <1>2, <2>1, <3>2
      <3> QED BY <3>3 DEF Has
    <2>2. ASSUME NEW n \in DOMAIN t, t[n].kind = "update" PROVE Has(s, "update")
      <3>1. n + 1 \in DOMAIN s /\ s[n + 1].kind = "update"
        BY <1>2, <2>2
      <3> QED BY <3>1 DEF Has
    <2> QED BY <2>1, <2>2 DEF Has
  <1>7. ASSUME phase = "descriptors" PROVE Begun(t)
    <2> SUFFICES ASSUME NEW n \in DOMAIN t, t[n].kind = "live begin"
                 PROVE  \E m \in DOMAIN t : m < n /\ t[m].kind = "state begin"
      BY DEF Begun
    <2>1. n \in Nat /\ n + 1 \in DOMAIN s /\ s[n + 1].kind = "live begin"
      BY <1>2
    <2>2. PICK m \in DOMAIN s : m < n + 1 /\ s[m].kind = "state begin"
      BY <2>1, <1>7 DEF Brings, Begun
    <2>3. m \in Nat /\ 1 <= m /\ m # 1
      BY <2>2, <1>2, <1>3
    <2>4. m > 1 /\ m - 1 < n
      <3>1. n \in Nat /\ m < n + 1
        BY <2>1, <2>2
      <3> QED BY <3>1, <2>3, Order
    <2>5. m - 1 \in DOMAIN t /\ t[m - 1] = s[m]
      BY <2>4, <1>2
    <2> QED BY <2>2, <2>4, <2>5
  <1>8. Brings(phase, view, t, v)
    BY <1>4, <1>5, <1>7 DEF Brings
  <1> QED BY <1>8 DEF t

\* A refusal behind what is under way changes nothing of that either.
LEMMA BringsRefusal ==
    ASSUME NEW phase, NEW view, NEW s \in Seq(Downward), NEW v, NEW r \in Downward,
           Brings(phase, view, s, v), r.kind = "reject"
    PROVE  Brings(phase, view, Append(s, r), v)
  <1> DEFINE t == Append(s, r)
  <1>1. PICK l \in Nat : l = Len(s)
    BY LenProperties
  <1>2. /\ DOMAIN s = 1 .. l /\ DOMAIN t = 1 .. (l + 1) /\ t[l + 1] = r
        /\ \A n \in 1 .. l : t[n] = s[n]
    BY <1>1, AppendProperties, LenProperties
  <1> HIDE DEF t
  <1>3. \A n \in DOMAIN s : n \in DOMAIN t /\ t[n] = s[n]
    BY <1>1, <1>2
  <1>4. \A n \in DOMAIN t : n \in DOMAIN s \/ t[n].kind = "reject"
    BY <1>1, <1>2
  <1>5. Has(t, "update") <=> Has(s, "update")
    BY <1>3, <1>4 DEF Has
  <1>6. EndsAt(t, v)
    <2> SUFFICES ASSUME NEW n \in DOMAIN t, t[n].kind = "update",
                        \A m \in DOMAIN t : m > n => t[m].kind # "update"
                 PROVE  t[n].value = v
      BY DEF EndsAt
    <2>1. n \in DOMAIN s /\ s[n] = t[n]
      BY <1>3, <1>4
    <2>2. \A m \in DOMAIN s : m > n => s[m].kind # "update"
      BY <1>3
    <2> QED BY <2>1, <2>2 DEF Brings, EndsAt
  <1>7. Whole(t, v)
    <2>1. ASSUME NEW n \in DOMAIN t, t[n].kind = "snapshot begin"
          PROVE  n + 1 \in DOMAIN t /\ t[n + 1].kind = "state begin"
      <3>1. n \in DOMAIN s /\ s[n].kind = "snapshot begin"
        BY <1>3, <1>4, <2>1
      <3>2. n + 1 \in DOMAIN s /\ s[n + 1].kind = "state begin"
        BY <3>1 DEF Brings, Whole
      <3> QED BY <1>3, <3>2
    <2>2. ASSUME NEW n \in DOMAIN t, t[n].kind = "state begin", v # NoValue
          PROVE  \E m \in DOMAIN t : m > n /\ t[m].kind = "update"
      <3>1. n \in DOMAIN s /\ s[n].kind = "state begin"
        BY <1>3, <1>4, <2>2
      <3>2. PICK m \in DOMAIN s : m > n /\ s[m].kind = "update"
        BY <2>2, <3>1 DEF Brings, Whole
      <3> QED BY <1>3, <3>2
    <2> QED BY <2>1, <2>2 DEF Whole
  <1>8. ASSUME phase = "descriptors" PROVE Begun(t)
    <2> SUFFICES ASSUME NEW n \in DOMAIN t, t[n].kind = "live begin"
                 PROVE  \E m \in DOMAIN t : m < n /\ t[m].kind = "state begin"
      BY DEF Begun
    <2>1. n \in DOMAIN s /\ s[n].kind = "live begin"
      BY <1>3, <1>4
    <2>2. PICK m \in DOMAIN s : m < n /\ s[m].kind = "state begin"
      BY <1>8, <2>1 DEF Brings, Begun
    <2> QED BY <1>3, <2>2
  <1>9. Brings(phase, view, t, v)
    BY <1>5, <1>6, <1>7, <1>8 DEF Brings
  <1> QED BY <1>9 DEF t

-----------------------------------------------------------------------------
(* What goes up a connection, as sequences *)

LEMMA Appended ==
    ASSUME NEW s \in Seq(Upward), NEW a \in Upward
    PROVE  /\ Append(s, a) \in Seq(Upward) /\ Append(s, a) # <<>>
           /\ Append(s, a)[Len(Append(s, a))] = a
           /\ \A n \in DOMAIN s : n \in DOMAIN Append(s, a) /\ Append(s, a)[n] = s[n]
           /\ \A n \in DOMAIN Append(s, a) : n \in DOMAIN s \/ Append(s, a)[n] = a
           /\ s # <<>> => 1 \in DOMAIN s
           /\ s = <<>> => \A n \in DOMAIN Append(s, a) : n = 1 /\ Append(s, a)[n] = a
  <1>1. Append(s, a) \in Seq(Upward) /\ Len(Append(s, a)) = Len(s) + 1 /\ Len(s) \in Nat
    BY AppendProperties
  <1>2. /\ DOMAIN s = 1 .. Len(s) /\ DOMAIN Append(s, a) = 1 .. Len(s) + 1
        /\ \A n \in 1 .. Len(s) : Append(s, a)[n] = s[n]
        /\ Append(s, a)[Len(s) + 1] = a
    BY <1>1, AppendProperties
  <1>3. s # <<>> => 1 \in DOMAIN s
    BY EmptySeq
  <1>4. s = <<>> => Len(s) = 0
    BY EmptySeq
  <1>5. Append(s, a) # <<>>
    BY <1>1
  <1>6. \A n \in 1 .. Len(s) + 1 : n \in 1 .. Len(s) \/ n = Len(s) + 1
    BY <1>1
  <1> QED BY <1>1, <1>2, <1>3, <1>4, <1>5, <1>6

LEMMA Removed ==
    ASSUME NEW s \in Seq(Upward), s # <<>>
    PROVE  /\ Tail(s) \in Seq(Upward) /\ Head(s) = s[1] /\ 1 \in DOMAIN s /\ Head(s) \in Upward
           /\ \A n \in DOMAIN Tail(s) : n + 1 \in DOMAIN s /\ n + 1 > 1 /\ Tail(s)[n] = s[n + 1]
  <1>1. Tail(s) \in Seq(Upward) /\ Head(s) = s[1] /\ Head(s) \in Upward
    BY Rest
  <1>2. PICK l \in Nat : l + 1 = Len(s) /\ Follows(Tail(s), s, l)
    BY Rest
  <1>3. \A n \in DOMAIN Tail(s) : n \in Nat /\ 1 <= n /\ n + 1 \in DOMAIN s /\ Tail(s)[n] = s[n + 1]
    BY <1>2, FollowsAt
  <1>4. \A n \in DOMAIN Tail(s) : n + 1 > 1
    BY <1>3
  <1>5. 1 \in DOMAIN s
    BY EmptySeq
  <1> QED BY <1>1, <1>3, <1>4, <1>5

LEMMA Kept ==
    ASSUME NEW s \in Seq(Upward), NEW kind
    PROVE  /\ All(<<>>, kind) /\ AllBehind(<<>>, kind)
           /\ \A a \in Upward : All(s, kind) /\ a.kind = kind => All(Append(s, a), kind)
           /\ \A a \in Upward : s # <<>> /\ AllBehind(s, kind) /\ a.kind = kind => AllBehind(Append(s, a), kind)
           /\ \A a \in Upward : s = <<>> => AllBehind(Append(s, a), kind)
           /\ \A a \in Upward : s # <<>> => Append(s, a)[1] = s[1]
           /\ s # <<>> /\ All(s, kind) => All(Tail(s), kind) /\ Head(s).kind = kind /\ s[1].kind = kind
           /\ s # <<>> /\ AllBehind(s, kind) => All(Tail(s), kind)
  <1>1. All(<<>>, kind) /\ AllBehind(<<>>, kind)
    BY DEF All, AllBehind
  <1>2. ASSUME NEW a \in Upward
        PROVE  /\ All(s, kind) /\ a.kind = kind => All(Append(s, a), kind)
               /\ s # <<>> /\ AllBehind(s, kind) /\ a.kind = kind => AllBehind(Append(s, a), kind)
    BY Appended DEF All, AllBehind
  <1>3. ASSUME NEW a \in Upward, s = <<>> PROVE AllBehind(Append(s, a), kind)
    <2>1. \A n \in DOMAIN Append(s, a) : n = 1
      BY <1>3, Appended
    <2> QED BY <2>1 DEF AllBehind
  <1>4. ASSUME NEW a \in Upward, s # <<>> PROVE Append(s, a)[1] = s[1]
    BY <1>4, Appended
  <1>5. ASSUME s # <<>>, All(s, kind) PROVE All(Tail(s), kind) /\ Head(s).kind = kind /\ s[1].kind = kind
    BY <1>5, Removed DEF All
  <1>6. ASSUME s # <<>>, AllBehind(s, kind) PROVE All(Tail(s), kind)
    BY <1>6, Removed DEF All, AllBehind
  <1> QED BY <1>1, <1>2, <1>3, <1>4, <1>5, <1>6

LEMMA EditsKept ==
    ASSUME NEW s \in Seq(Upward), NEW e \in Nat
    PROVE  /\ Edits(<<>>, e)
           /\ \A a \in Upward : Edits(s, e) /\ (a.kind = "write" => a.value > 0 /\ a.value <= e)
                                => Edits(Append(s, a), e)
           /\ s # <<>> /\ Edits(s, e) => Edits(Tail(s), e)
           /\ \A f \in Nat : Edits(s, e) /\ e <= f => Edits(s, f)
  <1>1. Edits(<<>>, e)
    BY DEF Edits
  <1>2. ASSUME NEW a \in Upward, Edits(s, e), a.kind = "write" => a.value > 0 /\ a.value <= e
        PROVE  Edits(Append(s, a), e)
    BY <1>2, Appended DEF Edits
  <1>3. ASSUME s # <<>>, Edits(s, e) PROVE Edits(Tail(s), e)
    BY <1>3, Removed DEF Edits
  <1>4. ASSUME NEW f \in Nat, Edits(s, e), e <= f PROVE Edits(s, f)
    <2>1. ASSUME NEW n \in DOMAIN s PROVE s[n].value \in Nat
      <3>1. s[n] \in Upward
        BY <2>1, ElementOfSeq
      <3> QED BY <3>1 DEF Upward
    <2>2. \A v \in Nat : v <= e => v <= f
      BY <1>4
    <2> QED BY <1>4, <2>1, <2>2 DEF Edits
  <1> QED BY <1>1, <1>2, <1>3, <1>4

-----------------------------------------------------------------------------
(* The steps *)

\* A client without a connection.
Out(x) ==
    /\ x.link = NoLink /\ ~x.connected /\ x.run \notin {"connected", "receiving"}
    /\ x.run = "dialing" => x.phase = "descriptors" /\ x.told = NoValue

\* A client leaves its connection: its hello fails, its stream ends, or the window stops
\* or replaces it.
Leaves(c) ==
    /\ links' = CloseSocket(links, client[c].link)
    /\ \E x \in ClientType : Out(x) /\ client' = [client EXCEPT ![c] = x]
    /\ \E h \in HostType : h.edit = host[c].edit /\ host' = [host EXCEPT ![c] = h]
    /\ UNCHANGED <<server, issued, outrun>>
    /\ happened' \in Nat
    /\ silent' \in [Dashboards -> BOOLEAN] /\ leftAlone' \in [Dashboards -> BOOLEAN]

\* The hello of a client whose connection is not broken.
SendsHello(c) ==
    /\ client[c].run = "connected"
    /\ client' = [client EXCEPT ![c].run = "receiving"]
    /\ links' = IF links[client[c].link].slot = "closed" THEN links
                ELSE [links EXCEPT ![client[c].link].upward = Append(@, Marker("hello"))]
    /\ ~links[client[c].link].cut
    /\ UNCHANGED <<server, host, bounds, history>>

\* The timer of a window whose operator disconnected.
OnlyWaits(c) ==
    /\ host' = [host EXCEPT ![c].timer = FALSE]
    /\ UNCHANGED <<server, links, client, bounds, history>>

LEMMA LinkNumbers == NoLink \in 0 .. MaxLinks /\ NoLink \notin Ids /\ Ids = (0 .. MaxLinks) \ {NoLink}
  BY TcpAssumption DEF NoLink, Ids

LEMMA NewClients ==
    /\ NewClient \in ClientType /\ NewClient.link = NoLink /\ ~NewClient.connected /\ NewClient.run = "none"
    /\ StartedClient \in ClientType /\ StartedClient.link = NoLink /\ ~StartedClient.connected
    /\ StartedClient.run = "dialing"
    /\ StartedClient.phase = "descriptors" /\ StartedClient.told = NoValue
  <1>1. /\ NewClient \in ClientType /\ NewClient.link = NoLink
        /\ ~NewClient.connected /\ NewClient.run = "none"
        /\ NewClient.phase = "descriptors" /\ NewClient.told = NoValue
    <2>1. 0 \in Nat
      OBVIOUS
    <2> QED BY <2>1, LinkNumbers DEF NewClient, ClientType, Showing, NoValue
  <1> QED BY <1>1 DEF StartedClient, ClientType, Showing

\* What the window's own states are followed by.
LEMMA MorePosted ==
    ASSUME NEW h \in HostType, NEW c \in Dashboards
    PROVE  /\ h.posted \o PostedByStart(c) \in Seq(States)
           /\ h.posted \o PostedByStop(c) \in Seq(States)
           /\ PostedByStart(c) \in Seq(States)
           /\ \A s \in States : Append(h.posted, s) \in Seq(States)
  <1>1. PostedByStop(c) \in Seq(States)
    <2>1. <<"disconnected">> \in Seq(States)
      BY OneInSeq DEF States
    <2>2. <<>> \in Seq(States)
      BY EmptySeq
    <2> QED BY <2>1, <2>2 DEF PostedByStop
  <1>2. <<"connecting">> \in Seq(States)
    BY OneInSeq DEF States
  <1>3. h.posted \in Seq(States)
    BY DEF HostType
  <1>4. PostedByStart(c) \in Seq(States)
    BY <1>1, <1>2, ConcatProperties DEF PostedByStart
  <1> QED BY <1>1, <1>3, <1>4, ConcatProperties

LEMMA HostPosts ==
    ASSUME NEW h \in HostType, NEW state \in States
    PROVE  /\ [h EXCEPT !.posted = Append(@, state)] \in HostType
           /\ [h EXCEPT !.posted = Append(@, state)].edit = h.edit
           /\ [h EXCEPT !.posted = Append(@, state)].posted = Append(h.posted, state)
  <1>1. Append(h.posted, state) \in Seq(States)
    BY DEF HostType
  <1> QED BY <1>1 DEF HostType

LEMMA LeavesByStart ==
    ASSUME TypeOK, NEW c \in Dashboards, NEW h \in HostType, StartTransport(c),
           h.edit = host[c].edit, host' = [host EXCEPT ![c] = h],
           UNCHANGED <<server, issued, outrun>>, happened' \in Nat, leftAlone' \in [Dashboards -> BOOLEAN]
    PROVE  Leaves(c)
  <1>1. silent' \in [Dashboards -> BOOLEAN]
    BY DEF StartTransport, TypeOK, CountersType
  <1>2. /\ links' = CloseSocket(links, client[c].link)
        /\ client' = [client EXCEPT ![c] = StartedClient]
    BY DEF StartTransport
  <1>3. \E x \in ClientType : Out(x) /\ client' = [client EXCEPT ![c] = x]
    BY <1>2, NewClients DEF Out
  <1> QED BY <1>1, <1>2, <1>3 DEF Leaves

\* What a client that leaves may become, and what its window.
LEMMA LeavesWith ==
    ASSUME NEW c \in Dashboards, NEW x \in ClientType, NEW h \in HostType,
           links' = CloseSocket(links, client[c].link),
           x.link = NoLink, ~x.connected, x.run \in {"none", "ended"}, client' = [client EXCEPT ![c] = x],
           h.edit = host[c].edit, host' = [host EXCEPT ![c] = h],
           UNCHANGED <<server, issued, outrun>>, happened' \in Nat,
           silent' \in [Dashboards -> BOOLEAN], leftAlone' \in [Dashboards -> BOOLEAN]
    PROVE  Leaves(c)
  BY DEF Leaves, Out

LEMMA NextKinds ==
    ASSUME TypeOK, Held, Next
    PROVE  \/ \E i \in Ids : Accept(i) \/ Greet(i) \/ ReceiveWrite(i) \/ ClientGone(i) \/ Cut(i)
           \/ ListSlot \/ PublishFromServer \/ RestartSession \/ ServerStop
           \/ \E fresh \in BOOLEAN : ServerStart(fresh)
           \/ \E c \in Dashboards :
                 \/ Dial(c) \/ EarlyHeartbeat(c) \/ SendsHello(c) \/ Receive(c) \/ ReportStale(c)
                 \/ OnControlEdited(c) \/ OnConnectionStateChanged(c) \/ DialFails(c)
                 \/ Leaves(c) \/ OnlyWaits(c)
  <1>0. ASSUME NEW c \in Dashboards PROVE client[c] \in ClientType /\ host[c] \in HostType
    BY DEF TypeOK, ClientsType, HostsType
  <1>1. ASSUME NEW c \in Dashboards, SendHello(c) PROVE SendsHello(c) \/ Leaves(c)
    <2>1. CASE ~links[client[c].link].cut
      BY <1>1, <2>1 DEF SendHello, SendsHello
    <2>2. CASE links[client[c].link].cut
      <3> DEFINE x == [client[c] EXCEPT !.run = "ended", !.link = NoLink]
      <3> DEFINE h == [host[c] EXCEPT !.posted = Append(@, "disconnected")]
      <3>1. client' = [client EXCEPT ![c] = x] /\ host' = [host EXCEPT ![c] = h]
        BY <1>1, <2>2 DEF SendHello, Post
      <3>2. x \in ClientType /\ x.link = NoLink /\ x.run = "ended" /\ x.connected = client[c].connected
        <4>1. client[c] \in ClientType /\ NoLink \in 0 .. MaxLinks
          BY <1>0, LinkNumbers
        <4>2. x \in ClientType
          BY <4>1 DEF ClientType, Showing
        <4> QED BY <4>1, <4>2 DEF ClientType
      <3>3. h \in HostType /\ h.edit = host[c].edit
        BY <1>0, HostPosts DEF States
      <3>4. ~client[c].connected
        BY <1>1 DEF SendHello, Held, Holders
      <3>5. links' = CloseSocket(links, client[c].link) /\ UNCHANGED <<server, bounds, history>>
        BY <1>1, <2>2 DEF SendHello
      <3>6. /\ UNCHANGED <<server, issued, outrun>> /\ happened' \in Nat
            /\ silent' \in [Dashboards -> BOOLEAN] /\ leftAlone' \in [Dashboards -> BOOLEAN]
        BY <3>5 DEF TypeOK, CountersType, bounds, history
      <3> HIDE DEF x, h
      <3> QED BY <3>1, <3>2, <3>3, <3>4, <3>5, <3>6, LeavesWith
    <2> QED BY <2>1, <2>2
  <1>2. ASSUME NEW c \in Dashboards, ReceiveEnds(c) PROVE Leaves(c)
    <2> DEFINE x == [client[c] EXCEPT !.run = "ended", !.link = NoLink, !.connected = FALSE]
    <2>1. x \in ClientType /\ x.link = NoLink /\ x.run = "ended" /\ ~x.connected
      <3>1. client[c] \in ClientType /\ NoLink \in 0 .. MaxLinks
        BY <1>0, LinkNumbers
      <3>2. x \in ClientType
        BY <3>1 DEF ClientType, Showing
      <3> QED BY <3>1, <3>2 DEF ClientType
    <2>2. client' = [client EXCEPT ![c] = x] /\ links' = CloseSocket(links, client[c].link)
      BY <1>2 DEF ReceiveEnds
    <2>3. \E h \in HostType : h.edit = host[c].edit /\ host' = [host EXCEPT ![c] = h]
      <3>1. CASE client[c].connected
        <4>1. host' = [host EXCEPT ![c] = [host[c] EXCEPT !.posted = Append(@, "disconnected")]]
          BY <1>2, <3>1 DEF ReceiveEnds, Post
        <4> QED BY <4>1, <1>0, HostPosts DEF States
      <3>2. CASE ~client[c].connected
        <4>1. host' = [host EXCEPT ![c] = host[c]]
          BY <1>2, <3>2 DEF ReceiveEnds, TypeOK, HostsType
        <4> QED BY <4>1, <1>0
      <3> QED BY <3>1, <3>2
    <2>4. /\ UNCHANGED <<server, issued, outrun>> /\ happened' \in Nat
          /\ silent' \in [Dashboards -> BOOLEAN] /\ leftAlone' \in [Dashboards -> BOOLEAN]
      BY <1>2 DEF ReceiveEnds, TypeOK, CountersType, bounds, history
    <2> HIDE DEF x
    <2> QED BY <2>1, <2>2, <2>3, <2>4, LeavesWith
  <1>3. ASSUME NEW c \in Dashboards, OnReconnectTimerFired(c) PROVE Leaves(c) \/ OnlyWaits(c)
    <2>1. CASE host[c].userOff
      BY <1>3, <2>1 DEF OnReconnectTimerFired, OnlyWaits, history
    <2>2. CASE ~host[c].userOff
      <3> DEFINE h == [host[c] EXCEPT !.timer = FALSE, !.posted = @ \o PostedByStart(c)]
      <3>1. h \in HostType /\ h.edit = host[c].edit
        BY <1>0, MorePosted DEF HostType
      <3>2. StartTransport(c) /\ host' = [host EXCEPT ![c] = h] /\ UNCHANGED <<server, bounds, outrun, leftAlone>>
        BY <1>3, <2>2 DEF OnReconnectTimerFired
      <3> HIDE DEF h
      <3>3. UNCHANGED <<server, issued, outrun>> /\ happened' \in Nat /\ leftAlone' \in [Dashboards -> BOOLEAN]
        BY <3>2 DEF TypeOK, CountersType, bounds
      <3> QED BY <3>1, <3>2, <3>3, LeavesByStart
    <2> QED BY <2>1, <2>2
  <1>4. ASSUME NEW c \in Dashboards, OpenWindow(c) PROVE Leaves(c)
    <2> DEFINE h == [host[c] EXCEPT !.shown = "disconnected", !.posted = PostedByStart(c)]
    <2>1. h \in HostType /\ h.edit = host[c].edit
      BY <1>0, MorePosted DEF HostType, States
    <2>2. StartTransport(c) /\ host' = [host EXCEPT ![c] = h] /\ UNCHANGED <<server, bounds, outrun, leftAlone>>
      BY <1>4 DEF OpenWindow
    <2> HIDE DEF h
    <2>3. UNCHANGED <<server, issued, outrun>> /\ happened' \in Nat /\ leftAlone' \in [Dashboards -> BOOLEAN]
      BY <2>2 DEF TypeOK, CountersType, bounds
    <2> QED BY <2>1, <2>2, <2>3, LeavesByStart
  <1>5. ASSUME NEW c \in Dashboards, OnConnectTransport(c) PROVE Leaves(c)
    <2> DEFINE h == [host[c] EXCEPT !.userOff = FALSE, !.posted = @ \o PostedByStart(c)]
    <2>1. h \in HostType /\ h.edit = host[c].edit
      BY <1>0, MorePosted DEF HostType
    <2>2. /\ StartTransport(c) /\ host' = [host EXCEPT ![c] = h] /\ UNCHANGED <<server, issued, outrun>>
          /\ happened' = happened + 1 /\ leftAlone' = [leftAlone EXCEPT ![c] = FALSE]
      BY <1>5 DEF OnConnectTransport, Happens
    <2> HIDE DEF h
    <2>3. UNCHANGED <<server, issued, outrun>> /\ happened' \in Nat /\ leftAlone' \in [Dashboards -> BOOLEAN]
      BY <2>2 DEF TypeOK, CountersType
    <2> QED BY <2>1, <2>2, <2>3, LeavesByStart
  <1>6. ASSUME NEW c \in Dashboards, OnDisconnectTransport(c) PROVE Leaves(c)
    <2> DEFINE h == [host[c] EXCEPT !.userOff = TRUE, !.timer = FALSE, !.shown = "disconnected",
                                    !.posted = @ \o PostedByStop(c)]
    <2>1. h \in HostType /\ h.edit = host[c].edit
      BY <1>0, MorePosted DEF HostType, States
    <2>2. /\ links' = CloseSocket(links, client[c].link) /\ client' = [client EXCEPT ![c] = NewClient]
          /\ host' = [host EXCEPT ![c] = h] /\ UNCHANGED <<server, issued, silent, outrun>>
          /\ happened' = happened + 1 /\ leftAlone' = [leftAlone EXCEPT ![c] = TRUE]
      BY <1>6 DEF OnDisconnectTransport, StopTransport, Happens
    <2> HIDE DEF h
    <2>3. /\ UNCHANGED <<server, issued, outrun>> /\ happened' \in Nat
          /\ silent' \in [Dashboards -> BOOLEAN] /\ leftAlone' \in [Dashboards -> BOOLEAN]
      BY <2>2 DEF TypeOK, CountersType
    <2> QED BY <2>1, <2>2, <2>3, NewClients, LeavesWith
  <1> QED BY <1>1, <1>2, <1>3, <1>4, <1>5, <1>6 DEF Next, ConnectionStep, WorkerStep, WindowStep

-----------------------------------------------------------------------------
(* What each step does to the connections *)

\* The fields of a connection.
Is(m, who, slot, listed, early, open, cut, sent, coming) ==
    /\ m.who = who /\ m.slot = slot /\ m.listed = listed /\ m.early = early
    /\ m.open = open /\ m.cut = cut /\ m.upward = sent /\ m.downward = coming

LEMMA LinkFields ==
    ASSUME NEW l \in LinkType
    PROVE  /\ l.who \in Dashboards \cup {Nobody}
           /\ l.slot \in {"none", "backlog", "accepted", "serving", "closed", "dead"}
           /\ l.listed \in BOOLEAN /\ l.early \in BOOLEAN /\ l.open \in BOOLEAN /\ l.cut \in BOOLEAN
           /\ l.upward \in Seq(Upward) /\ l.downward \in Seq(Downward)
  BY DEF LinkType

\* What is sent to a connection or to all of them.
LEMMA SentTo ==
    ASSUME NEW l \in LinkType, NEW ms \in Seq(Downward)
    PROVE  /\ Send(l, ms) \in LinkType
           /\ Is(Send(l, ms), l.who, l.slot, l.listed, l.early, l.open, l.cut, l.upward,
                 IF l.open THEN l.downward \o ms ELSE l.downward)
  <1>1. l.downward \o ms \in Seq(Downward)
    BY LinkFields
  <1> QED BY <1>1 DEF Send, Is, LinkType

Listens(l) == Alive(l) /\ l.listed /\ l.open

LEMMA SentToAll ==
    ASSUME NEW ls \in [Ids -> LinkType], NEW ms \in Seq(Downward), NEW j \in Ids
    PROVE  LET l == ls[j] IN
           /\ SendToAll(ls, ms)[j] \in LinkType
           /\ Is(SendToAll(ls, ms)[j], l.who, l.slot, l.listed, l.early, l.open, l.cut, l.upward,
                 IF Listens(l) THEN l.downward \o ms ELSE l.downward)
  <1>0. ls[j] \in LinkType
    OBVIOUS
  <1>1. SendToAll(ls, ms)[j] = IF Alive(ls[j]) /\ ls[j].listed THEN Send(ls[j], ms) ELSE ls[j]
    BY DEF SendToAll
  <1>2. CASE Alive(ls[j]) /\ ls[j].listed
    <2>1. SendToAll(ls, ms)[j] = Send(ls[j], ms)
      BY <1>1, <1>2
    <2>2. Listens(ls[j]) <=> ls[j].open
      BY <1>2 DEF Listens
    <2>3. (IF Listens(ls[j]) THEN ls[j].downward \o ms ELSE ls[j].downward)
            = (IF ls[j].open THEN ls[j].downward \o ms ELSE ls[j].downward)
      BY <2>2
    <2> QED BY <1>0, <2>1, <2>3, SentTo
  <1>3. CASE ~(Alive(ls[j]) /\ ls[j].listed)
    <2>1. SendToAll(ls, ms)[j] = ls[j]
      BY <1>1, <1>3
    <2> QED BY <1>0, <2>1, <1>3 DEF Is, Listens
  <1> QED BY <1>2, <1>3

LEMMA SettledIs ==
    ASSUME NEW m \in LinkType
    PROVE  \/ Settled(m) = m
           \/ Settled(m) = NoConnection /\ ~m.open /\ m.slot \in {"closed", "dead"}
  BY DEF Settled, Over

LEMMA Field ==
    ASSUME NEW l \in LinkType
    PROVE  /\ \A s \in {"accepted", "serving", "closed", "dead"} :
                 /\ [l EXCEPT !.slot = s] \in LinkType
                 /\ Is([l EXCEPT !.slot = s], l.who, s, l.listed, l.early, l.open, l.cut, l.upward, l.downward)
           /\ [l EXCEPT !.listed = TRUE] \in LinkType
           /\ Is([l EXCEPT !.listed = TRUE], l.who, l.slot, TRUE, l.early, l.open, l.cut, l.upward, l.downward)
           /\ \A u \in Seq(Upward) :
                 /\ [l EXCEPT !.upward = u] \in LinkType
                 /\ Is([l EXCEPT !.upward = u], l.who, l.slot, l.listed, l.early, l.open, l.cut, u, l.downward)
           /\ \A d \in Seq(Downward) :
                 /\ [l EXCEPT !.downward = d] \in LinkType
                 /\ Is([l EXCEPT !.downward = d], l.who, l.slot, l.listed, l.early, l.open, l.cut, l.upward, d)
  BY DEF Is, LinkType

\* The steps that change one connection.
LEMMA AcceptDoes ==
    ASSUME TypeOK, NEW i \in Ids, Accept(i)
    PROVE  LET l == links[i] IN
           \E m \in LinkType :
              /\ Is(m, l.who, "accepted", l.listed, l.early, l.open, l.cut, l.upward, l.downward)
              /\ links' = [links EXCEPT ![i] = m]
  <1>1. links[i] \in LinkType
    BY DEF TypeOK, LinksType
  <1>2. links' = [links EXCEPT ![i] = [links[i] EXCEPT !.slot = "accepted"]]
    BY DEF Accept
  <1> QED BY <1>1, <1>2, Field

LEMMA ListSlotDoes ==
    ASSUME TypeOK, ListSlot
    PROVE  LET l == links[accepting] IN
           /\ accepting \in Ids /\ accepting' = NoLink
           /\ \E m \in LinkType :
                 /\ \/ Is(m, l.who, l.slot, TRUE, l.early, l.open, l.cut, l.upward, l.downward)
                    \/ m = NoConnection /\ ~l.open /\ l.slot \in {"closed", "dead"}
                 /\ links' = [links EXCEPT ![accepting] = m]
  <1>1. accepting \in Ids /\ accepting' = NoLink
    BY LinkNumbers DEF TypeOK, ServerType, ListSlot
  <1>2. links[accepting] \in LinkType
    BY <1>1 DEF TypeOK, LinksType
  <1> DEFINE l == links[accepting]
  <1> DEFINE n == [l EXCEPT !.listed = TRUE]
  <1>3. n \in LinkType /\ Is(n, l.who, l.slot, TRUE, l.early, l.open, l.cut, l.upward, l.downward)
    BY <1>2, Field
  <1>4. links' = [links EXCEPT ![accepting] = Settled(n)]
    BY DEF ListSlot
  <1> HIDE DEF n
  <1>5. Settled(n) = n \/ (Settled(n) = NoConnection /\ ~n.open /\ n.slot \in {"closed", "dead"})
    BY <1>3, SettledIs
  <1>6. n.open = l.open /\ n.slot = l.slot
    BY <1>3 DEF Is
  <1> QED BY <1>1, <1>3, <1>4, <1>5, <1>6, BlankLink

LEMMA GreetDoes ==
    ASSUME TypeOK, NEW i \in Ids, Greet(i)
    PROVE  LET l == links[i] IN
           /\ l.upward # <<>> /\ l.slot = "accepted"
           /\ \/ /\ Head(l.upward).kind = "hello"
                 /\ \E m \in LinkType :
                       /\ Is(m, l.who, "serving", l.listed, ~l.listed, l.open, l.cut, Tail(l.upward),
                             IF l.open THEN l.downward \o Snapshot ELSE l.downward)
                       /\ links' = [links EXCEPT ![i] = m]
                 /\ queues' = [c \in DOMAIN queues \cup {l.who} |->
                                 IF c \in DOMAIN queues THEN queues[c] ELSE <<>>]
              \/ /\ Head(l.upward).kind # "hello" /\ UNCHANGED queues
                 /\ \E m \in LinkType :
                       /\ Is(m, l.who, "dead", l.listed, l.early, l.open, l.cut, l.upward, l.downward)
                       /\ links' = [links EXCEPT ![i] = m]
  <1> DEFINE l == links[i]
  <1>1. l \in LinkType /\ Snapshot \in Seq(Downward) /\ l.upward # <<>> /\ l.slot = "accepted"
    BY SnapshotType DEF TypeOK, LinksType, ServerType, Greet
  <1>2. CASE Head(l.upward).kind = "hello"
    <2> DEFINE n == [l EXCEPT !.slot = "serving", !.early = ~links[i].listed, !.upward = Tail(links[i].upward)]
    <2>1. Tail(l.upward) \in Seq(Upward) /\ l.listed \in BOOLEAN
      BY <1>1, Rest, LinkFields
    <2>2. n \in LinkType /\ Is(n, l.who, "serving", l.listed, ~l.listed, l.open, l.cut, Tail(l.upward), l.downward)
      BY <1>1, <2>1 DEF Is, LinkType
    <2>3. links' = [links EXCEPT ![i] = Send(n, Snapshot)]
      BY <1>2 DEF Greet
    <2> HIDE DEF n
    <2>4. /\ Send(n, Snapshot) \in LinkType
          /\ Is(Send(n, Snapshot), n.who, n.slot, n.listed, n.early, n.open, n.cut, n.upward,
                IF n.open THEN n.downward \o Snapshot ELSE n.downward)
      BY <1>1, <2>2, SentTo
    <2>5. Is(Send(n, Snapshot), l.who, "serving", l.listed, ~l.listed, l.open, l.cut, Tail(l.upward),
             IF l.open THEN l.downward \o Snapshot ELSE l.downward)
      BY <2>2, <2>4 DEF Is
    <2>6. queues' = [c \in DOMAIN queues \cup {l.who} |->
                                 IF c \in DOMAIN queues THEN queues[c] ELSE <<>>]
      BY <1>2 DEF Greet
    <2> QED BY <1>1, <1>2, <2>3, <2>4, <2>5, <2>6
  <1>3. CASE Head(l.upward).kind # "hello"
    <2>1. links' = [links EXCEPT ![i] = [l EXCEPT !.slot = "dead"]] /\ UNCHANGED queues
      BY <1>3 DEF Greet
    <2> QED BY <1>1, <1>3, <2>1, Field
  <1> QED BY <1>2, <1>3

LEMMA ClientGoneDoes ==
    ASSUME TypeOK, NEW i \in Ids, ClientGone(i)
    PROVE  LET l == links[i] IN
           \E m \in LinkType :
              /\ \/ Is(m, l.who, IF l.slot = "serving" THEN "closed" ELSE "dead", FALSE, l.early, l.open,
                       l.cut, l.upward, l.downward)
                 \/ m = NoConnection /\ ~l.open
              /\ links' = [links EXCEPT ![i] = m]
  <1> DEFINE l == links[i]
  <1> DEFINE n == [l EXCEPT !.slot = IF l.slot = "serving" THEN "closed" ELSE "dead", !.listed = FALSE]
  <1>1. l \in LinkType
    BY DEF TypeOK, LinksType
  <1>2. n \in LinkType /\ Is(n, l.who, IF l.slot = "serving" THEN "closed" ELSE "dead", FALSE, l.early, l.open,
                             l.cut, l.upward, l.downward)
    BY <1>1 DEF Is, LinkType
  <1>3. links' = [links EXCEPT ![i] = Settled(n)]
    BY DEF ClientGone
  <1> HIDE DEF n
  <1>4. Settled(n) = n \/ (Settled(n) = NoConnection /\ ~n.open)
    BY <1>2, SettledIs
  <1>5. n.open = l.open
    BY <1>2 DEF Is
  <1> QED BY <1>2, <1>3, <1>4, <1>5, BlankLink

LEMMA ServerStopDoes ==
    ASSUME TypeOK, ServerStop
    PROVE  /\ links' \in [Ids -> LinkType]
           /\ \A j \in Ids :
                LET l == links[j] IN
                \/ /\ Is(links'[j], l.who, "closed", FALSE, l.early, l.open, l.cut, <<>>, l.downward)
                   /\ l.who # Nobody
                \/ links'[j] = NoConnection /\ (l.who = Nobody \/ ~l.open)
  <1>1. ASSUME NEW j \in Ids
        PROVE  LET l == links[j] IN
               /\ links'[j] \in LinkType
               /\ \/ /\ Is(links'[j], l.who, "closed", FALSE, l.early, l.open, l.cut, <<>>, l.downward)
                     /\ l.who # Nobody
                  \/ links'[j] = NoConnection /\ (l.who = Nobody \/ ~l.open)
    <2> DEFINE l == links[j]
    <2> DEFINE n == [l EXCEPT !.slot = "closed", !.listed = FALSE, !.upward = <<>>]
    <2>1. l \in LinkType
      BY DEF TypeOK, LinksType
    <2>0. <<>> \in Seq(Upward)
      BY EmptySeq
    <2>2. n \in LinkType /\ Is(n, l.who, "closed", FALSE, l.early, l.open, l.cut, <<>>, l.downward)
      BY <2>0, <2>1 DEF Is, LinkType
    <2>3. links'[j] = IF l.who = Nobody THEN NoConnection ELSE Settled(n)
      BY DEF ServerStop
    <2> HIDE DEF n
    <2>4. Settled(n) = n \/ (Settled(n) = NoConnection /\ ~n.open)
      BY <2>2, SettledIs
    <2>5. n.open = l.open
      BY <2>2 DEF Is
    <2> QED BY <2>2, <2>3, <2>4, <2>5, BlankLink
  <1>2. links' = [j \in Ids |-> links'[j]]
    BY DEF ServerStop
  <1>3. \A j \in Ids : links'[j] \in LinkType
    BY <1>1
  <1>4. links' \in [Ids -> LinkType]
    BY <1>2, <1>3
  <1> QED BY <1>1, <1>4

LEMMA CutDoes ==
    ASSUME TypeOK, NEW i \in Ids, Cut(i)
    PROVE  LET l == links[i] IN
           \E m \in LinkType :
              /\ Is(m, l.who, l.slot, l.listed, l.early, l.open, TRUE, <<>>, <<>>)
              /\ links' = [links EXCEPT ![i] = m]
  <1> DEFINE l == links[i]
  <1> DEFINE n == [l EXCEPT !.cut = TRUE, !.upward = <<>>, !.downward = <<>>]
  <1>1. l \in LinkType
    BY DEF TypeOK, LinksType
  <1>2. links' = [links EXCEPT ![i] = n]
    BY DEF Cut
  <1>3. <<>> \in Seq(Upward) /\ <<>> \in Seq(Downward)
    BY EmptySeq
  <1>4. n \in LinkType /\ Is(n, l.who, l.slot, l.listed, l.early, l.open, TRUE, <<>>, <<>>)
    BY <1>1, <1>3 DEF Is, LinkType
  <1> QED BY <1>2, <1>4

LEMMA DialDoes ==
    ASSUME TypeOK, NEW c \in Dashboards, Dial(c)
    PROVE  \E i \in Ids :
              /\ links[i] = NoConnection
              /\ \E m \in LinkType :
                    /\ Is(m, c, "backlog", FALSE, FALSE, TRUE, FALSE, <<>>, <<>>)
                    /\ links' = [links EXCEPT ![i] = m]
              /\ client' = [client EXCEPT ![c] = [client[c] EXCEPT !.run = "connected", !.link = i]]
  <1>1. PICK i \in Ids :
              /\ links[i] = NoConnection
              /\ links' = [links EXCEPT ![i] = [NoConnection EXCEPT !.who = c, !.slot = "backlog",
                                                                    !.open = TRUE]]
              /\ client' = [client EXCEPT ![c].run = "connected", ![c].link = i]
    BY DEF Dial
  <1> DEFINE m == [NoConnection EXCEPT !.who = c, !.slot = "backlog", !.open = TRUE]
  <1>2. m \in LinkType /\ Is(m, c, "backlog", FALSE, FALSE, TRUE, FALSE, <<>>, <<>>)
    <2>1. NoConnection \in LinkType /\ <<>> \in Seq(Upward) /\ <<>> \in Seq(Downward)
      BY BlankLink, EmptySeq
    <2> QED BY <2>1 DEF NoConnection, LinkType, Is
  <1>3. client' = [client EXCEPT ![c] = [client[c] EXCEPT !.run = "connected", !.link = i]]
    BY <1>1 DEF TypeOK, ClientsType, ClientType
  <1> QED BY <1>1, <1>2, <1>3

\* A client that says m on its connection.
Says(c, m) ==
    LET l == links[client[c].link]
    IN  /\ client[c].link \in Ids
        /\ \E n \in LinkType :
              /\ Is(n, l.who, l.slot, l.listed, l.early, l.open, l.cut, Append(l.upward, m), l.downward)
              /\ links' = [links EXCEPT ![client[c].link] = n]

LEMMA SaysBy ==
    ASSUME TypeOK, NEW c \in Dashboards, client[c].link # NoLink, NEW m \in Upward,
           links' = [links EXCEPT ![client[c].link].upward = Append(@, m)]
    PROVE  Says(c, m)
  <1> DEFINE i == client[c].link
  <1>1. i \in Ids
    BY LinkNumbers DEF TypeOK, ClientsType, ClientType
  <1>2. links[i] \in LinkType
    BY <1>1 DEF TypeOK, LinksType
  <1>3. links' = [links EXCEPT ![i] = [links[i] EXCEPT !.upward = Append(links[i].upward, m)]]
    OBVIOUS
  <1>4. Append(links[i].upward, m) \in Seq(Upward)
    BY <1>2, LinkFields, AppendProperties
  <1> HIDE DEF i
  <1> QED BY <1>1, <1>2, <1>3, <1>4, Field DEF Says, i

LEMMA EarlyHeartbeatDoes ==
    ASSUME TypeOK, Held, NEW c \in Dashboards, EarlyHeartbeat(c)
    PROVE  Says(c, Marker("heartbeat"))
  <1>1. client[c].link # NoLink
    BY DEF Held, Holders, EarlyHeartbeat
  <1>2. links' = [links EXCEPT ![client[c].link].upward = Append(@, Marker("heartbeat"))]
    BY DEF EarlyHeartbeat
  <1> QED BY <1>1, <1>2, Kinds, SaysBy

LEMMA SendsHelloDoes ==
    ASSUME TypeOK, Held, NEW c \in Dashboards, SendsHello(c)
    PROVE  \/ links' = links /\ links[client[c].link].slot = "closed"
           \/ Says(c, Marker("hello")) /\ links[client[c].link].slot # "closed"
  <1>1. client[c].link # NoLink
    BY DEF Held, Holders, SendsHello
  <1>2. CASE links[client[c].link].slot = "closed"
    BY <1>2 DEF SendsHello
  <1>3. CASE links[client[c].link].slot # "closed"
    <2>1. links' = [links EXCEPT ![client[c].link].upward = Append(@, Marker("hello"))]
      BY <1>3 DEF SendsHello
    <2> QED BY <1>1, <1>3, <2>1, Kinds, SaysBy
  <1> QED BY <1>2, <1>3

Write(v) == [kind |-> "write", value |-> v]

LEMMA PublishDoes ==
    ASSUME TypeOK, Held, NEW c \in Dashboards, NEW v \in Nat, links' = Publish(c, v)
    PROVE  \/ /\ links' = links
              /\ client[c].connected =>
                    links[client[c].link].cut \/ links[client[c].link].slot = "closed"
           \/ Says(c, Write(v)) /\ client[c].connected /\ links[client[c].link].slot # "closed"
  <1>1. CASE client[c].connected /\ ~links[client[c].link].cut /\ links[client[c].link].slot # "closed"
    <2>1. client[c].link # NoLink
      BY <1>1 DEF Held, Holders
    <2>2. links' = [links EXCEPT ![client[c].link].upward = Append(@, Write(v))]
      BY <1>1 DEF Publish, Write
    <2>3. Write(v) \in Upward
      BY DEF Write, Upward
    <2> QED BY <1>1, <2>1, <2>2, <2>3, SaysBy
  <1>2. CASE ~(client[c].connected /\ ~links[client[c].link].cut /\ links[client[c].link].slot # "closed")
    BY <1>2 DEF Publish
  <1> QED BY <1>1, <1>2

\* A client takes what came.
LEMMA ReceiveDoes ==
    ASSUME TypeOK, Held, NEW c \in Dashboards, Receive(c)
    PROVE  LET i == client[c].link
               l == links[i]
           IN  /\ i \in Ids /\ l.downward # <<>>
               /\ \E m \in LinkType :
                     /\ Is(m, l.who, l.slot, l.listed, l.early, l.open, l.cut, l.upward, Tail(l.downward))
                     /\ links' = [links EXCEPT ![i] = m]
  <1> DEFINE i == client[c].link
  <1>1. i \in Ids
    BY LinkNumbers DEF TypeOK, ClientsType, ClientType, Held, Holders, Receive
  <1>2. links[i] \in LinkType
    BY <1>1 DEF TypeOK, LinksType
  <1>3. /\ links' = [links EXCEPT ![i] = [links[i] EXCEPT !.downward = Tail(links[i].downward)]]
        /\ links[i].downward # <<>>
    BY DEF Receive
  <1>4. Tail(links[i].downward) \in Seq(Downward)
    BY <1>2, <1>3, Rest, LinkFields
  <1> HIDE DEF i
  <1> QED BY <1>1, <1>2, <1>3, <1>4, Field DEF i

\* What a client that leaves does to the connections.
LEMMA LeavesDoes ==
    ASSUME TypeOK, Held, NEW c \in Dashboards, Leaves(c)
    PROVE  LET i == client[c].link
               l == links[i]
           IN  \/ i = NoLink /\ links' = links
               \/ /\ i \in Ids
                  /\ \E m \in LinkType :
                        /\ \/ /\ Is(m, l.who, l.slot, l.listed, l.early, FALSE, l.cut, l.upward, <<>>)
                              /\ l.slot # "backlog"
                           \/ m = NoConnection /\ (accepting # i \/ l.slot = "backlog")
                        /\ links' = [links EXCEPT ![i] = m]
  <1> DEFINE i == client[c].link
  <1> DEFINE l == links[i]
  <1>1. i \in 0 .. MaxLinks /\ links' = CloseSocket(links, i)
    BY DEF TypeOK, ClientsType, ClientType, Leaves
  <1>2. CASE i = NoLink
    BY <1>1, <1>2 DEF CloseSocket
  <1>3. CASE i # NoLink
    <2> DEFINE n == [l EXCEPT !.open = FALSE, !.downward = <<>>]
    <2>1. i \in Ids
      BY <1>1, <1>3, LinkNumbers
    <2>2. l \in LinkType
      BY <2>1 DEF TypeOK, LinksType
    <2>3. n \in LinkType /\ Is(n, l.who, l.slot, l.listed, l.early, FALSE, l.cut, l.upward, <<>>)
      <3>1. <<>> \in Seq(Downward)
        BY EmptySeq
      <3> QED BY <2>2, <3>1 DEF LinkType, Is
    <2>4. links' = [links EXCEPT ![i] = IF l.slot = "backlog" THEN NoConnection
                                        ELSE IF accepting = i THEN n ELSE Settled(n)]
      BY <1>1, <1>3 DEF CloseSocket
    <2> HIDE DEF n
    <2>5. Settled(n) = n \/ Settled(n) = NoConnection
      BY DEF Settled
    <2> QED BY <2>1, <2>3, <2>4, <2>5, BlankLink
  <1> QED BY <1>2, <1>3

\* What everybody who listens is sent.
LEMMA PublishFromServerDoes ==
    ASSUME TypeOK, PublishFromServer
    PROVE  /\ links' \in [Ids -> LinkType]
           /\ \A j \in Ids :
                LET l == links[j] IN
                Is(links'[j], l.who, l.slot, l.listed, l.early, l.open, l.cut, l.upward,
                   IF Listens(l) THEN l.downward \o <<Update(issued + 1)>> ELSE l.downward)
  <1>1. issued + 1 \in Nat
    BY DEF TypeOK, CountersType
  <1>2. <<Update(issued + 1)>> \in Seq(Downward)
    BY <1>1, Kinds, OneInSeq
  <1>3. links' = SendToAll(links, <<Update(issued + 1)>>) /\ links \in [Ids -> LinkType]
    BY DEF PublishFromServer, TypeOK, LinksType
  <1> QED BY <1>2, <1>3, SentToAll, SendToAllType

LEMMA RestartSessionDoes ==
    ASSUME TypeOK, RestartSession
    PROVE  /\ links' \in [Ids -> LinkType]
           /\ \A j \in Ids :
                LET l == links[j] IN
                Is(links'[j], l.who, l.slot, l.listed, l.early, l.open, l.cut, l.upward,
                   IF Listens(l) THEN l.downward \o Snapshot ELSE l.downward)
  <1>1. Snapshot \in Seq(Downward)
    BY SnapshotType DEF TypeOK, ServerType
  <1>2. links' = SendToAll(links, Snapshot) /\ links \in [Ids -> LinkType]
    BY DEF RestartSession, TypeOK, LinksType
  <1> QED BY <1>1, <1>2, SentToAll, SendToAllType

\* What the writer is sent before the write itself, and what it has then been sent.
Answer(i) ==
    IF lease \in {Nobody, links[i].who} THEN Update(Head(links[i].upward).value)
    ELSE Refusal(Head(links[i].upward).value)
Backlog(i) == Append(queues[links[i].who], Answer(i))
Answered(i) == IF links[i].open THEN links[i].downward \o Backlog(i) ELSE links[i].downward
Accepts(i) == lease \in {Nobody, links[i].who}
Written(i) == <<Update(Head(links[i].upward).value)>>

LEMMA WriteIsSent ==
    ASSUME TypeOK, Slots, NEW i \in Ids, ReceiveWrite(i)
    PROVE  LET l == links[i] IN
           /\ l \in LinkType /\ l.slot = "serving" /\ l.upward # <<>>
           /\ Head(l.upward) \in Upward /\ Tail(l.upward) \in Seq(Upward)
           /\ l.who \in DOMAIN queues /\ l.who \in Dashboards
           /\ queues[l.who] \in Seq(Updates)
           /\ Answer(i) \in Downward /\ (Accepts(i) => Answer(i) \in Updates)
           /\ Backlog(i) \in Seq(Downward)
           /\ Written(i) \in Seq(Updates) /\ Written(i) \in Seq(Downward)
           /\ Answered(i) \in Seq(Downward)
  <1> DEFINE l == links[i]
  <1>1. l \in LinkType /\ l.slot = "serving" /\ l.upward # <<>>
    BY DEF TypeOK, LinksType, ReceiveWrite
  <1>2. Head(l.upward) \in Upward /\ Tail(l.upward) \in Seq(Upward)
    BY <1>1, Rest, LinkFields
  <1>3. l.who \in DOMAIN queues /\ l.who \in Dashboards /\ queues[l.who] \in Seq(Updates)
    BY <1>1 DEF Slots, Serving, TypeOK, QueuesType
  <1>4. Head(l.upward).value \in Nat /\ latest \in Nat
    BY <1>2 DEF Upward, TypeOK, ServerType
  <1>5. /\ Answer(i) \in Downward /\ (Accepts(i) => Answer(i) \in Updates)
        /\ Update(Head(l.upward).value) \in Updates
    BY <1>4, Kinds DEF Answer, Accepts
  <1>6. Backlog(i) \in Seq(Downward)
    <2>1. queues[l.who] \in Seq(Downward)
      BY <1>3, UpdatesGoDown
    <2> QED BY <1>5, <2>1, AppendProperties DEF Backlog
  <1>7. Written(i) \in Seq(Updates)
    BY <1>5, OneInSeq DEF Written
  <1>8. Written(i) \in Seq(Downward)
    BY <1>7, UpdatesGoDown
  <1>9. Answered(i) \in Seq(Downward)
    BY <1>1, <1>6, LinkFields, ConcatProperties DEF Answered
  <1> QED BY <1>1, <1>2, <1>3, <1>5, <1>6, <1>7, <1>8, <1>9

LEMMA ReceiveWriteDoes ==
    ASSUME TypeOK, Slots, NEW i \in Ids, ReceiveWrite(i)
    PROVE  /\ links' \in [Ids -> LinkType]
           /\ \A j \in Ids :
                LET l == links[j] IN
                IF j = i
                THEN Is(links'[j], l.who, l.slot, l.listed, l.early, l.open, l.cut, Tail(l.upward),
                        IF Accepts(i) /\ Listens(l) THEN Answered(i) \o Written(i) ELSE Answered(i))
                ELSE Is(links'[j], l.who, l.slot, l.listed, l.early, l.open, l.cut, l.upward,
                        IF Accepts(i) /\ Listens(l) THEN l.downward \o Written(i) ELSE l.downward)
  <1> DEFINE l == links[i]
  <1> DEFINE n == [l EXCEPT !.upward = Tail(l.upward)]
  <1> DEFINE a == [links EXCEPT ![i] = Send(n, Backlog(i))]
  <1>1. /\ l \in LinkType /\ Tail(l.upward) \in Seq(Upward) /\ Backlog(i) \in Seq(Downward)
        /\ Written(i) \in Seq(Downward) /\ Answered(i) \in Seq(Downward) /\ links \in [Ids -> LinkType]
    BY WriteIsSent DEF TypeOK, LinksType
  <1>2. n \in LinkType /\ Is(n, l.who, l.slot, l.listed, l.early, l.open, l.cut, Tail(l.upward), l.downward)
    BY <1>1, Field
  <1>3. links' = IF Accepts(i) THEN SendToAll(a, Written(i)) ELSE a
    <2>1. [links EXCEPT ![i].upward = Tail(@)] = [links EXCEPT ![i] = n]
      OBVIOUS
    <2>2. [[links EXCEPT ![i].upward = Tail(@)] EXCEPT ![i] = Send(@, Backlog(i))] = a
      BY <2>1, <1>1
    <2>3. \/ Accepts(i) /\ links' = SendToAll([[links EXCEPT ![i].upward = Tail(@)] EXCEPT
                                                   ![i] = Send(@, Backlog(i))], Written(i))
          \/ ~Accepts(i) /\ links' = [[links EXCEPT ![i].upward = Tail(@)] EXCEPT
                                                   ![i] = Send(@, Backlog(i))]
      BY DEF ReceiveWrite, HandleWrite, Accepts, Backlog, Answer, Written
    <2> QED BY <2>2, <2>3
  <1> HIDE DEF n
  <1>4. /\ Send(n, Backlog(i)) \in LinkType
        /\ Is(Send(n, Backlog(i)), l.who, l.slot, l.listed, l.early, l.open, l.cut, Tail(l.upward), Answered(i))
    <2>1. /\ Send(n, Backlog(i)) \in LinkType
          /\ Is(Send(n, Backlog(i)), n.who, n.slot, n.listed, n.early, n.open, n.cut, n.upward,
                IF n.open THEN n.downward \o Backlog(i) ELSE n.downward)
      BY <1>1, <1>2, SentTo
    <2>2. n.open = l.open /\ n.downward = l.downward
      BY <1>2 DEF Is
    <2>3. (IF n.open THEN n.downward \o Backlog(i) ELSE n.downward) = Answered(i)
      BY <2>2 DEF Answered
    <2>4. /\ n.who = l.who /\ n.slot = l.slot /\ n.listed = l.listed /\ n.early = l.early
          /\ n.open = l.open /\ n.cut = l.cut /\ n.upward = Tail(l.upward)
      BY <1>2 DEF Is
    <2> QED BY <2>1, <2>3, <2>4
  <1>5. a \in [Ids -> LinkType] /\ a[i] = Send(n, Backlog(i)) /\ \A j \in Ids : j # i => a[j] = links[j]
    BY <1>1, <1>4
  <1> HIDE DEF a
  <1>6. CASE ~Accepts(i)
    <2>1. links' = a
      BY <1>3, <1>6
    <2> QED BY <2>1, <1>4, <1>5, <1>6 DEF Is
  <1>7. CASE Accepts(i)
    <2>1. links' = SendToAll(a, Written(i)) /\ links' \in [Ids -> LinkType]
      BY <1>1, <1>3, <1>5, <1>7, SendToAllType
    <2>2. ASSUME NEW j \in Ids
          PROVE  Is(links'[j], a[j].who, a[j].slot, a[j].listed, a[j].early, a[j].open, a[j].cut, a[j].upward,
                    IF Listens(a[j]) THEN a[j].downward \o Written(i) ELSE a[j].downward)
      BY <2>1, <1>1, <1>5, SentToAll
    <2>3. ASSUME NEW j \in Ids, j # i
          PROVE  Is(links'[j], links[j].who, links[j].slot, links[j].listed, links[j].early, links[j].open,
                    links[j].cut, links[j].upward,
                    IF Listens(links[j]) THEN links[j].downward \o Written(i) ELSE links[j].downward)
      BY <2>2, <2>3, <1>5
    <2>4. /\ a[i].who = l.who /\ a[i].slot = l.slot /\ a[i].listed = l.listed /\ a[i].early = l.early
          /\ a[i].open = l.open /\ a[i].cut = l.cut /\ a[i].upward = Tail(l.upward)
          /\ a[i].downward = Answered(i)
      BY <1>4, <1>5 DEF Is
    <2>5. Listens(a[i]) = Listens(l)
      BY <2>4 DEF Listens, Alive
    <2>6. Is(links'[i], l.who, l.slot, l.listed, l.early, l.open, l.cut, Tail(l.upward),
             IF Listens(l) THEN Answered(i) \o Written(i) ELSE Answered(i))
      BY <2>2, <2>4, <2>5
    <2> QED BY <1>7, <2>1, <2>3, <2>6
  <1> QED BY <1>6, <1>7

\* The window takes what its client's threads posted.
LEMMA OnConnectionStateChangedDoes ==
    ASSUME TypeOK, Held, NEW c \in Dashboards, OnConnectionStateChanged(c)
    PROVE  /\ host[c].posted # <<>>
           /\ \E h \in HostType : /\ h.edit = host[c].edit /\ h.posted = Tail(host[c].posted)
                                  /\ host' = [host EXCEPT ![c] = h]
           /\ \/ Head(host[c].posted) = "connected" /\ host[c].edit # NoValue /\ links' = Publish(c, host[c].edit)
              \/ /\ Head(host[c].posted) # "connected" \/ host[c].edit = NoValue
                 /\ links' = links
  <1> DEFINE g == host[c]
  <1>1. g \in HostType /\ g.posted # <<>>
    BY DEF TypeOK, HostsType, OnConnectionStateChanged
  <1>2. Head(g.posted) \in States /\ Tail(g.posted) \in Seq(States)
    <2>1. g.posted \in Seq(States)
      BY <1>1 DEF HostType
    <2> QED BY <1>1, <2>1, Rest
  <1> DEFINE state == Head(g.posted)
             timer == CASE state = "connected" -> FALSE
                        [] state = "disconnected" -> g.timer \/ ~g.userOff
                        [] OTHER -> g.timer
             h == [g EXCEPT !.posted = Tail(g.posted), !.shown = state, !.timer = timer,
                            !.userOff = g.userOff /\ state # "connected"]
  <1>3. g.timer \in BOOLEAN /\ g.userOff \in BOOLEAN
    BY <1>1 DEF HostType
  <1>4. timer \in BOOLEAN /\ (g.userOff /\ state # "connected") \in BOOLEAN
    BY <1>3
  <1> HIDE DEF timer
  <1>5. h \in HostType /\ h.edit = g.edit /\ h.posted = Tail(g.posted)
    BY <1>1, <1>2, <1>4 DEF HostType
  <1>6. host' = [host EXCEPT ![c] = h]
    <2>1. host' = [host EXCEPT ![c].posted = Tail(@), ![c].shown = state,
                               ![c].timer = CASE state = "connected" -> FALSE
                                              [] state = "disconnected" -> @ \/ ~g.userOff
                                              [] OTHER -> @,
                               ![c].userOff = @ /\ state # "connected"]
      BY DEF OnConnectionStateChanged
    <2>2. host[c] = g /\ host \in [Dashboards -> HostType]
      BY DEF TypeOK, HostsType
    <2>3. host' = [host EXCEPT ![c] = [g EXCEPT !.posted = Tail(g.posted), !.shown = state,
                               !.timer = CASE state = "connected" -> FALSE
                                              [] state = "disconnected" -> g.timer \/ ~g.userOff
                                              [] OTHER -> g.timer,
                               !.userOff = g.userOff /\ state # "connected"]]
      BY <2>1, <2>2, <1>1 DEF HostType
    <2> QED BY <2>3 DEF timer
  <1> HIDE DEF h
  <1>7. \/ Head(host[c].posted) = "connected" /\ host[c].edit # NoValue /\ links' = Publish(c, host[c].edit)
        \/ /\ Head(host[c].posted) # "connected" \/ host[c].edit = NoValue
           /\ links' = links
    BY DEF OnConnectionStateChanged, RepublishPluginControlEdits
  <1> QED BY <1>1, <1>5, <1>6, <1>7

LEMMA OnConnectionStateChangedLinks ==
    ASSUME TypeOK, Held, NEW c \in Dashboards, OnConnectionStateChanged(c)
    PROVE  \/ links' = links
           \/ /\ Says(c, Write(host[c].edit)) /\ client[c].connected /\ host[c].edit # NoValue
              /\ Head(host[c].posted) = "connected"
              /\ links[client[c].link].slot # "closed"
  <1>1. host[c].edit \in Nat
    BY DEF TypeOK, HostsType, HostType
  <1> QED BY <1>1, OnConnectionStateChangedDoes, PublishDoes

\* A client's thread posts a state to its window.
Posts(c, state) ==
    \E h \in HostType : /\ h.edit = host[c].edit /\ h.posted = Append(host[c].posted, state)
                        /\ host' = [host EXCEPT ![c] = h]

LEMMA PostDoes ==
    ASSUME TypeOK, NEW c \in Dashboards, NEW state \in States, Post(c, state)
    PROVE  Posts(c, state)
  <1>1. host[c] \in HostType
    BY DEF TypeOK, HostsType
  <1>2. host' = [host EXCEPT ![c] = [host[c] EXCEPT !.posted = Append(@, state)]]
    BY DEF Post
  <1> QED BY <1>1, <1>2, HostPosts DEF Posts

\* What a message makes of the client that takes it.
Takes(k, m, x) ==
    /\ x.run = k.run /\ x.link = k.link
    /\ \/ m.kind = "snapshot begin" /\ x.phase = "descriptors" /\ ~x.connected /\ x.told = k.told
       \/ m.kind = "state begin" /\ x.phase = "state" /\ (x.connected <=> k.connected) /\ x.told = k.told
       \/ m.kind = "live begin" /\ x.phase = "live" /\ x.connected /\ x.told = k.told
       \/ /\ m.kind = "update" /\ x.phase = k.phase /\ (x.connected <=> k.connected)
          /\ x.told = IF k.phase # "descriptors" THEN m.value ELSE k.told
       \/ /\ m.kind = "reject" /\ x.phase = k.phase /\ (x.connected <=> k.connected)
          /\ x.told = k.told

LEMMA ClientTakes ==
    ASSUME TypeOK, Held, NEW c \in Dashboards, Receive(c)
    PROVE  LET m == Head(links[client[c].link].downward) IN
           /\ m \in Downward
           /\ \E x \in ClientType : Takes(client[c], m, x) /\ client' = [client EXCEPT ![c] = x]
           /\ \/ /\ UNCHANGED host
                 /\ m.kind = "live begin" => client[c].connected
              \/ m.kind = "live begin" /\ Posts(c, "connected")
              \/ m.kind = "snapshot begin" /\ Posts(c, "connecting")
  <1> DEFINE m == Head(links[client[c].link].downward)
             k == client[c]
  <1>1. m \in Downward
    <2>1. k.link \in Ids /\ links[k.link].downward # <<>>
      BY ReceiveDoes
    <2>2. links[k.link].downward \in Seq(Downward)
      BY <2>1, LinkFields DEF TypeOK, LinksType
    <2> QED BY <2>1, <2>2, Rest
  <1>2. k \in ClientType /\ client \in [Dashboards -> ClientType]
    BY DEF TypeOK, ClientsType
  <1>3. HandleMessage(c, m)
    BY DEF Receive
  <1> HIDE DEF m
  <1>4. m.kind \in {"update", "reject", "snapshot begin", "state begin", "live begin"} /\ m.value \in Nat
    BY <1>1 DEF Downward
  <1>5. CASE m.kind = "snapshot begin"
    <2> DEFINE x == [k EXCEPT !.phase = "descriptors", !.connected = FALSE]
    <2>1. x \in ClientType /\ Takes(k, m, x)
      BY <1>2, <1>5 DEF ClientType, Showing, Takes
    <2>2. client' = [client EXCEPT ![c] = x]
      BY <1>3, <1>5 DEF HandleMessage
    <2>3. Post(c, "connecting") \/ UNCHANGED host
      BY <1>3, <1>5 DEF HandleMessage
    <2>4. Posts(c, "connecting") \/ UNCHANGED host
      BY <2>3, PostDoes DEF States
    <2> HIDE DEF x
    <2> QED BY <1>1, <1>5, <2>1, <2>2, <2>4 DEF m
  <1>6. CASE m.kind = "state begin"
    <2> DEFINE x == [k EXCEPT !.phase = "state"]
    <2>1. x \in ClientType /\ Takes(k, m, x)
      BY <1>2, <1>6 DEF ClientType, Showing, Takes
    <2>2. client' = [client EXCEPT ![c] = x] /\ UNCHANGED host
      BY <1>3, <1>6 DEF HandleMessage
    <2> HIDE DEF x
    <2> QED BY <1>1, <1>6, <2>1, <2>2 DEF m
  <1>7. CASE m.kind = "live begin"
    <2> DEFINE x == [k EXCEPT !.phase = "live", !.connected = TRUE]
    <2>1. x \in ClientType /\ Takes(k, m, x)
      BY <1>2, <1>7 DEF ClientType, Showing, Takes
    <2>2. client' = [client EXCEPT ![c] = x]
      BY <1>3, <1>7 DEF HandleMessage
    <2>3. Post(c, "connected") \/ (UNCHANGED host /\ client[c].connected)
      BY <1>3, <1>7 DEF HandleMessage
    <2>4. Posts(c, "connected") \/ (UNCHANGED host /\ client[c].connected)
      BY <2>3, PostDoes DEF States
    <2> HIDE DEF x
    <2> QED BY <1>1, <1>7, <2>1, <2>2, <2>4 DEF m
  <1>8. CASE m.kind \in {"update", "reject"}
    <2> DEFINE x == IF k.phase = "descriptors" THEN k ELSE HandOn(k, m)
    <2>1. HandOn(k, m) \in ClientType
      BY <1>2, <1>4 DEF ClientType, HandOn, Showing
    <2>2. /\ HandOn(k, m).run = k.run /\ HandOn(k, m).link = k.link /\ HandOn(k, m).phase = k.phase
          /\ HandOn(k, m).connected = k.connected
          /\ HandOn(k, m).told = IF m.kind = "reject" THEN k.told ELSE m.value
      BY <1>2, <1>4 DEF ClientType, HandOn
    <2>4. x \in ClientType /\ Takes(k, m, x)
      <3>1. CASE k.phase = "descriptors"
        BY <1>2, <1>8, <3>1 DEF Takes
      <3>2. CASE k.phase # "descriptors"
        BY <1>8, <2>1, <2>2, <3>2 DEF Takes
      <3> QED BY <3>1, <3>2
    <2>3. client' = [client EXCEPT ![c] = x] /\ UNCHANGED host
      BY <1>3, <1>8 DEF HandleMessage
    <2> HIDE DEF x
    <2> QED BY <1>1, <1>8, <2>3, <2>4 DEF m
  <1> QED BY <1>4, <1>5, <1>6, <1>7, <1>8

LEMMA StaleDoes ==
    ASSUME TypeOK, NEW c \in Dashboards, ReportStale(c)
    PROVE  /\ \E x \in ClientType :
                 /\ x.run = client[c].run /\ x.link = client[c].link /\ x.told = client[c].told
                 /\ x.phase = "descriptors" /\ ~x.connected
                 /\ client' = [client EXCEPT ![c] = x]
           /\ UNCHANGED host \/ Posts(c, "stale")
  <1> DEFINE k == client[c]
             x == [k EXCEPT !.phase = "descriptors", !.connected = FALSE]
  <1>1. k \in ClientType
    BY DEF TypeOK, ClientsType
  <1>2. /\ x \in ClientType /\ x.run = k.run /\ x.link = k.link /\ x.told = k.told
        /\ x.phase = "descriptors" /\ ~x.connected
    BY <1>1 DEF ClientType, Showing
  <1>3. client' = [client EXCEPT ![c] = x] /\ (UNCHANGED host \/ Post(c, "stale"))
    BY DEF ReportStale
  <1> HIDE DEF x
  <1>4. UNCHANGED host \/ Posts(c, "stale")
    BY <1>3, PostDoes DEF States
  <1> QED BY <1>2, <1>3, <1>4

LEMMA EditDoes ==
    ASSUME TypeOK, NEW c \in Dashboards, OnControlEdited(c)
    PROVE  /\ issued + 1 \in Nat /\ issued' = issued + 1 /\ links' = Publish(c, issued + 1)
           /\ \E h \in HostType : /\ h.edit = issued + 1 /\ h.posted = host[c].posted
                                  /\ host' = [host EXCEPT ![c] = h]
  <1> DEFINE h == [host[c] EXCEPT !.edit = issued + 1]
  <1>1. issued + 1 \in Nat
    BY DEF TypeOK, CountersType
  <1>2. host[c] \in HostType
    BY DEF TypeOK, HostsType
  <1>3. h \in HostType /\ h.edit = issued + 1 /\ h.posted = host[c].posted
    BY <1>1, <1>2 DEF HostType
  <1>4. host' = [host EXCEPT ![c] = h] /\ issued' = issued + 1 /\ links' = Publish(c, issued + 1)
    BY DEF OnControlEdited
  <1> HIDE DEF h
  <1> QED BY <1>1, <1>3, <1>4

-----------------------------------------------------------------------------
(* Types *)

\* Each step keeps the types.
LEMMA TypesStep ==
    ASSUME TypeOK, Held, Slots, [Next]_vars
    PROVE  TypeOK'
  <1>1. CASE UNCHANGED vars
    BY <1>1 DEF vars, server, bounds, history, TypeOK, LinksType, ClientsType, HostsType,
       QueuesType, ServerType, CountersType
  <1>2. ASSUME NEW i \in Ids, Accept(i) PROVE TypeOK'
    <2>1. LinksType'
      BY <1>2, AcceptDoes DEF TypeOK, LinksType
    <2>2. ClientsType'
      BY <1>2, LinkNumbers DEF Accept, vars, server, bounds, history, TypeOK, ClientsType,
         ClientType
    <2>3. HostsType'
      BY <1>2 DEF Accept, vars, server, bounds, history, TypeOK, HostsType, HostType, States
    <2>4. QueuesType'
      BY <1>2 DEF Accept, vars, server, bounds, history, TypeOK, QueuesType
    <2>5. ServerType'
      BY <1>2, LinkNumbers DEF Accept, vars, server, bounds, history, TypeOK, ServerType, NoValue
    <2>6. CountersType'
      BY <1>2 DEF Accept, vars, server, bounds, history, TypeOK, CountersType
    <2> QED BY <2>1, <2>2, <2>3, <2>4, <2>5, <2>6 DEF TypeOK
  <1>3. ASSUME ListSlot PROVE TypeOK'
    <2>1. LinksType'
      BY <1>3, ListSlotDoes DEF TypeOK, LinksType
    <2>2. ClientsType'
      BY <1>3, LinkNumbers DEF ListSlot, vars, server, bounds, history, TypeOK, ClientsType,
         ClientType
    <2>3. HostsType'
      BY <1>3 DEF ListSlot, vars, server, bounds, history, TypeOK, HostsType, HostType, States
    <2>4. QueuesType'
      BY <1>3 DEF ListSlot, vars, server, bounds, history, TypeOK, QueuesType
    <2>5. ServerType'
      BY <1>3, LinkNumbers DEF ListSlot, vars, server, bounds, history, TypeOK, ServerType, NoValue
    <2>6. CountersType'
      BY <1>3 DEF ListSlot, vars, server, bounds, history, TypeOK, CountersType
    <2> QED BY <2>1, <2>2, <2>3, <2>4, <2>5, <2>6 DEF TypeOK
  <1>4. ASSUME NEW i \in Ids, Greet(i) PROVE TypeOK'
    <2>1. LinksType'
      BY <1>4, GreetDoes DEF TypeOK, LinksType
    <2>2. ClientsType'
      BY <1>4, LinkNumbers DEF Greet, vars, server, bounds, history, TypeOK, ClientsType, ClientType
    <2>3. HostsType'
      BY <1>4 DEF Greet, vars, server, bounds, history, TypeOK, HostsType, HostType, States
    <2>4. QueuesType'
      <3>1. CASE UNCHANGED queues
        BY <3>1 DEF TypeOK, QueuesType
      <3>2. CASE queues' = [c \in DOMAIN queues \cup {links[i].who} |->
                              IF c \in DOMAIN queues THEN queues[c] ELSE <<>>]
        <4>1. links[i].who \in Dashboards
          <5>1. links[i] \in LinkType /\ links[i].slot = "accepted"
            BY <1>4, GreetDoes DEF TypeOK, LinksType
          <5>2. links[i].who # Nobody
            BY <5>1, BlankLink DEF Held, Blanks
          <5> QED BY <5>1, <5>2, LinkFields
        <4>2. DOMAIN queues \subseteq Dashboards /\ \A c \in DOMAIN queues : queues[c] \in Seq(Updates)
          BY DEF TypeOK, QueuesType
        <4>3. <<>> \in Seq(Updates)
          BY EmptySeq
        <4>4. \A c \in DOMAIN queues \cup {links[i].who} :
                 (IF c \in DOMAIN queues THEN queues[c] ELSE <<>>) \in Seq(Updates)
          BY <4>2, <4>3
        <4> QED BY <3>2, <4>1, <4>2, <4>4 DEF QueuesType
      <3> QED BY <1>4, <3>1, <3>2, GreetDoes
    <2>5. ServerType'
      BY <1>4, LinkNumbers DEF Greet, vars, server, bounds, history, TypeOK, ServerType, NoValue
    <2>6. CountersType'
      BY <1>4 DEF Greet, vars, server, bounds, history, TypeOK, CountersType
    <2> QED BY <2>1, <2>2, <2>3, <2>4, <2>5, <2>6 DEF TypeOK
  <1>5. ASSUME NEW i \in Ids, ReceiveWrite(i) PROVE TypeOK'
    <2>1. LinksType'
      BY <1>5, ReceiveWriteDoes DEF LinksType
    <2>2. ClientsType'
      BY <1>5, LinkNumbers DEF ReceiveWrite, vars, server, bounds, history, TypeOK,
         ClientsType, HandleWrite, ClientType
    <2>3. HostsType'
      BY <1>5 DEF ReceiveWrite, vars, server, bounds, history, TypeOK, HostsType, HandleWrite,
         HostType, States
    <2>4. QueuesType'
      <3>1. Accepts(i) => Answer(i) \in Updates
        BY <1>5, WriteIsSent
      <3>2. \A c \in DOMAIN queues : /\ queues[c] \in Seq(Updates)
                                     /\ Accepts(i) => Append(queues[c], Answer(i)) \in Seq(Updates)
        BY <3>1, AppendProperties DEF TypeOK, QueuesType
      <3>3. <<>> \in Seq(Updates)
        BY EmptySeq
      <3>4. queues' = [c \in DOMAIN queues |->
                        IF c = links[i].who THEN <<>>
                        ELSE IF Accepts(i) THEN Append(queues[c], Answer(i)) ELSE queues[c]]
        BY <1>5 DEF ReceiveWrite, HandleWrite, Accepts, Answer
      <3>5. \A c \in DOMAIN queues :
               (IF c = links[i].who THEN <<>>
                ELSE IF Accepts(i) THEN Append(queues[c], Answer(i)) ELSE queues[c]) \in Seq(Updates)
        BY <3>2, <3>3
      <3> QED BY <3>4, <3>5 DEF TypeOK, QueuesType
    <2>5. ServerType'
      <3>1. links[i].who \in Dashboards /\ Head(links[i].upward).value \in Nat
        BY <1>5, WriteIsSent DEF Upward
      <3>2. /\ lease' = IF lease = Nobody THEN links[i].who ELSE lease
            /\ latest' = IF Accepts(i) THEN Head(links[i].upward).value ELSE latest
            /\ UNCHANGED <<up, accepting>>
        BY <1>5 DEF ReceiveWrite, HandleWrite, Accepts
      <3> QED BY <3>1, <3>2 DEF TypeOK, ServerType
    <2>6. CountersType'
      BY <1>5 DEF ReceiveWrite, vars, server, bounds, history, TypeOK, CountersType, HandleWrite
    <2> QED BY <2>1, <2>2, <2>3, <2>4, <2>5, <2>6 DEF TypeOK
  <1>6. ASSUME NEW i \in Ids, ClientGone(i) PROVE TypeOK'
    <2>1. LinksType'
      BY <1>6, ClientGoneDoes DEF TypeOK, LinksType
    <2>2. ClientsType'
      BY <1>6, LinkNumbers DEF ClientGone, vars, server, bounds, history, TypeOK, ClientsType,
         Alive, ClientType
    <2>3. HostsType'
      BY <1>6 DEF ClientGone, vars, server, bounds, history, TypeOK, HostsType, Alive,
         HostType, States
    <2>4. QueuesType'
      BY <1>6 DEF ClientGone, vars, server, bounds, history, TypeOK, QueuesType, Alive
    <2>5. ServerType'
      BY <1>6, LinkNumbers DEF ClientGone, vars, server, bounds, history, TypeOK, ServerType,
         Alive, NoValue
    <2>6. CountersType'
      BY <1>6 DEF ClientGone, vars, server, bounds, history, TypeOK, CountersType, Alive
    <2> QED BY <2>1, <2>2, <2>3, <2>4, <2>5, <2>6 DEF TypeOK
  <1>7. ASSUME PublishFromServer PROVE TypeOK'
    <2>1. LinksType'
      BY <1>7, PublishFromServerDoes DEF LinksType
    <2>2. ClientsType'
      BY <1>7, LinkNumbers DEF PublishFromServer, vars, server, bounds, history, TypeOK,
         ClientsType, ClientType
    <2>3. HostsType'
      BY <1>7 DEF PublishFromServer, vars, server, bounds, history, TypeOK, HostsType,
         HostType, States
    <2>4. QueuesType'
      <3>1. issued + 1 \in Nat
        BY DEF TypeOK, CountersType
      <3>2. Update(issued + 1) \in Updates
        BY <3>1, Kinds
      <3>3. \A c \in DOMAIN queues : Append(queues[c], Update(issued + 1)) \in Seq(Updates)
        BY <3>2, AppendProperties DEF TypeOK, QueuesType
      <3>4. queues' = [c \in DOMAIN queues |-> Append(queues[c], Update(issued + 1))]
        BY <1>7 DEF PublishFromServer
      <3> QED BY <3>3, <3>4 DEF TypeOK, QueuesType
    <2>5. ServerType'
      BY <1>7 DEF PublishFromServer, TypeOK, ServerType, CountersType
    <2>6. CountersType'
      BY <1>7 DEF PublishFromServer, vars, server, bounds, history, TypeOK, CountersType
    <2> QED BY <2>1, <2>2, <2>3, <2>4, <2>5, <2>6 DEF TypeOK
  <1>8. ASSUME RestartSession PROVE TypeOK'
    <2>1. LinksType'
      BY <1>8, RestartSessionDoes DEF LinksType
    <2>2. ClientsType'
      BY <1>8, LinkNumbers DEF RestartSession, vars, server, bounds, history, TypeOK,
         ClientsType, Happens, ClientType
    <2>3. HostsType'
      BY <1>8 DEF RestartSession, vars, server, bounds, history, TypeOK, HostsType, Happens,
         HostType, States
    <2>4. QueuesType'
      BY <1>8 DEF RestartSession, vars, server, bounds, history, TypeOK, QueuesType, Happens
    <2>5. ServerType'
      BY <1>8, LinkNumbers DEF RestartSession, vars, server, bounds, history, TypeOK,
         ServerType, Happens, NoValue
    <2>6. CountersType'
      BY <1>8 DEF RestartSession, vars, server, bounds, history, TypeOK, CountersType, Happens
    <2> QED BY <2>1, <2>2, <2>3, <2>4, <2>5, <2>6 DEF TypeOK
  <1>9. ASSUME ServerStop PROVE TypeOK'
    <2>1. LinksType'
      BY <1>9, ServerStopDoes DEF LinksType
    <2>2. ClientsType'
      BY <1>9, LinkNumbers DEF ServerStop, vars, server, bounds, history, TypeOK, ClientsType,
         Happens, ClientType
    <2>3. HostsType'
      BY <1>9 DEF ServerStop, vars, server, bounds, history, TypeOK, HostsType, Happens,
         HostType, States
    <2>4. QueuesType'
      BY <1>9 DEF ServerStop, vars, server, bounds, history, TypeOK, QueuesType, Happens
    <2>5. ServerType'
      BY <1>9, LinkNumbers DEF ServerStop, vars, server, bounds, history, TypeOK, ServerType,
         Happens, NoValue
    <2>6. CountersType'
      <3>1. happened' = happened + 1 /\ UNCHANGED <<issued, silent, outrun, leftAlone>>
        BY <1>9 DEF ServerStop, Happens, history
      <3> QED BY <3>1 DEF TypeOK, CountersType
    <2> QED BY <2>1, <2>2, <2>3, <2>4, <2>5, <2>6 DEF TypeOK
  <1>10. ASSUME NEW fresh \in BOOLEAN, ServerStart(fresh) PROVE TypeOK'
    <2>1. LinksType'
      BY <1>10 DEF ServerStart, vars, server, bounds, history, TypeOK, LinksType, LinkType
    <2>2. ClientsType'
      BY <1>10, LinkNumbers DEF ServerStart, vars, server, bounds, history, TypeOK,
         ClientsType, ClientType
    <2>3. HostsType'
      BY <1>10 DEF ServerStart, vars, server, bounds, history, TypeOK, HostsType, HostType, States
    <2>4. QueuesType'
      BY <1>10 DEF ServerStart, vars, server, bounds, history, TypeOK, QueuesType
    <2>5. ServerType'
      BY <1>10, LinkNumbers DEF ServerStart, vars, server, bounds, history, TypeOK,
         ServerType, NoValue
    <2>6. CountersType'
      BY <1>10 DEF ServerStart, vars, server, bounds, history, TypeOK, CountersType
    <2> QED BY <2>1, <2>2, <2>3, <2>4, <2>5, <2>6 DEF TypeOK
  <1>11. ASSUME NEW i \in Ids, Cut(i) PROVE TypeOK'
    <2>1. LinksType'
      BY <1>11, CutDoes DEF TypeOK, LinksType
    <2>2. ClientsType'
      BY <1>11, LinkNumbers DEF Cut, vars, server, bounds, history, TypeOK, ClientsType,
         Happens, ClientType
    <2>3. HostsType'
      BY <1>11 DEF Cut, vars, server, bounds, history, TypeOK, HostsType, Happens, HostType, States
    <2>4. QueuesType'
      BY <1>11 DEF Cut, vars, server, bounds, history, TypeOK, QueuesType, Happens
    <2>5. ServerType'
      BY <1>11, LinkNumbers DEF Cut, vars, server, bounds, history, TypeOK, ServerType,
         Happens, NoValue
    <2>6. CountersType'
      BY <1>11 DEF Cut, vars, server, bounds, history, TypeOK, CountersType, Happens
    <2> QED BY <2>1, <2>2, <2>3, <2>4, <2>5, <2>6 DEF TypeOK
  <1>12. ASSUME NEW c \in Dashboards, Dial(c) PROVE TypeOK'
    <2>1. LinksType'
      BY <1>12, DialDoes DEF TypeOK, LinksType
    <2>2. ClientsType'
      <3>1. client[c] \in ClientType /\ client \in [Dashboards -> ClientType]
        BY DEF TypeOK, ClientsType
      <3>2. PICK j \in Ids : client' = [client EXCEPT ![c] = [client[c] EXCEPT !.run = "connected", !.link = j]]
        BY <1>12, DialDoes
      <3>3. j \in 0 .. MaxLinks
        BY LinkNumbers
      <3>4. [client[c] EXCEPT !.run = "connected", !.link = j] \in ClientType
        BY <3>1, <3>3 DEF ClientType, Showing
      <3> QED BY <3>1, <3>2, <3>4 DEF ClientsType
    <2>3. HostsType'
      BY <1>12 DEF Dial, vars, server, bounds, history, TypeOK, HostsType, HostType, States
    <2>4. QueuesType'
      BY <1>12 DEF Dial, vars, server, bounds, history, TypeOK, QueuesType
    <2>5. ServerType'
      BY <1>12, LinkNumbers DEF Dial, vars, server, bounds, history, TypeOK, ServerType, NoValue
    <2>6. CountersType'
      BY <1>12 DEF Dial, vars, server, bounds, history, TypeOK, CountersType
    <2> QED BY <2>1, <2>2, <2>3, <2>4, <2>5, <2>6 DEF TypeOK
  <1>13. ASSUME NEW c \in Dashboards, EarlyHeartbeat(c) PROVE TypeOK'
    <2>1. LinksType'
      BY <1>13, EarlyHeartbeatDoes DEF Says, TypeOK, LinksType
    <2>2. ClientsType'
      BY <1>13, LinkNumbers DEF EarlyHeartbeat, vars, server, bounds, history, TypeOK,
         ClientsType, Happens, ClientType
    <2>3. HostsType'
      BY <1>13 DEF EarlyHeartbeat, vars, server, bounds, history, TypeOK, HostsType, Happens,
         HostType, States
    <2>4. QueuesType'
      BY <1>13 DEF EarlyHeartbeat, vars, server, bounds, history, TypeOK, QueuesType, Happens
    <2>5. ServerType'
      BY <1>13, LinkNumbers DEF EarlyHeartbeat, vars, server, bounds, history, TypeOK,
         ServerType, Happens, NoValue
    <2>6. CountersType'
      BY <1>13 DEF EarlyHeartbeat, vars, server, bounds, history, TypeOK, CountersType, Happens
    <2> QED BY <2>1, <2>2, <2>3, <2>4, <2>5, <2>6 DEF TypeOK
  <1>14. ASSUME NEW c \in Dashboards, SendsHello(c) PROVE TypeOK'
    <2>1. LinksType'
      BY <1>14, SendsHelloDoes DEF Says, TypeOK, LinksType
    <2>2. ClientsType'
      <3>1. client \in [Dashboards -> ClientType] /\ client[c] \in ClientType
        BY DEF TypeOK, ClientsType
      <3>2. [client[c] EXCEPT !.run = "receiving"] \in ClientType
        BY <3>1 DEF ClientType, Showing
      <3>3. client' = [client EXCEPT ![c] = [client[c] EXCEPT !.run = "receiving"]]
        BY <1>14 DEF SendsHello
      <3> QED BY <3>1, <3>2, <3>3 DEF ClientsType
    <2>3. HostsType'
      BY <1>14 DEF SendsHello, vars, server, bounds, history, TypeOK, HostsType, HostType, States
    <2>4. QueuesType'
      BY <1>14 DEF SendsHello, vars, server, bounds, history, TypeOK, QueuesType
    <2>5. ServerType'
      BY <1>14, LinkNumbers DEF SendsHello, vars, server, bounds, history, TypeOK, ServerType,
         NoValue
    <2>6. CountersType'
      BY <1>14 DEF SendsHello, vars, server, bounds, history, TypeOK, CountersType
    <2> QED BY <2>1, <2>2, <2>3, <2>4, <2>5, <2>6 DEF TypeOK
  <1>15. ASSUME NEW c \in Dashboards, Receive(c) PROVE TypeOK'
    <2>1. LinksType'
      BY <1>15, ReceiveDoes DEF TypeOK, LinksType
    <2>2. ClientsType'
      BY <1>15, ClientTakes DEF TypeOK, ClientsType
    <2>3. HostsType'
      BY <1>15, ClientTakes DEF Posts, TypeOK, HostsType
    <2>4. QueuesType'
      BY <1>15 DEF Receive, vars, server, bounds, history, TypeOK, QueuesType, HandleMessage, Post
    <2>5. ServerType'
      BY <1>15, LinkNumbers DEF Receive, vars, server, bounds, history, TypeOK, ServerType,
         HandleMessage, Post, NoValue
    <2>6. CountersType'
      BY <1>15 DEF Receive, vars, server, bounds, history, TypeOK, CountersType, HandleMessage, Post
    <2> QED BY <2>1, <2>2, <2>3, <2>4, <2>5, <2>6 DEF TypeOK
  <1>16. ASSUME NEW c \in Dashboards, ReportStale(c) PROVE TypeOK'
    <2>1. LinksType'
      BY <1>16 DEF ReportStale, vars, server, bounds, history, TypeOK, LinksType, Happens,
         Post, LinkType
    <2>2. ClientsType'
      BY <1>16, StaleDoes DEF TypeOK, ClientsType
    <2>3. HostsType'
      BY <1>16, StaleDoes DEF Posts, TypeOK, HostsType
    <2>4. QueuesType'
      BY <1>16 DEF ReportStale, vars, server, bounds, history, TypeOK, QueuesType, Happens, Post
    <2>5. ServerType'
      BY <1>16, LinkNumbers DEF ReportStale, vars, server, bounds, history, TypeOK,
         ServerType, Happens, Post, NoValue
    <2>6. CountersType'
      BY <1>16 DEF ReportStale, vars, server, bounds, history, TypeOK, CountersType, Happens, Post
    <2> QED BY <2>1, <2>2, <2>3, <2>4, <2>5, <2>6 DEF TypeOK
  <1>17. ASSUME NEW c \in Dashboards, OnControlEdited(c) PROVE TypeOK'
    <2>1. LinksType'
      <3>1. links' = Publish(c, issued + 1) /\ issued + 1 \in Nat
        BY <1>17 DEF OnControlEdited, TypeOK, CountersType
      <3> QED BY <1>17, <3>1, PublishDoes DEF Says, TypeOK, LinksType
    <2>2. ClientsType'
      BY <1>17, LinkNumbers DEF OnControlEdited, vars, server, bounds, history, TypeOK,
         ClientsType, Publish, ClientType
    <2>3. HostsType'
      BY <1>17, EditDoes DEF TypeOK, HostsType
    <2>4. QueuesType'
      BY <1>17 DEF OnControlEdited, vars, server, bounds, history, TypeOK, QueuesType, Publish
    <2>5. ServerType'
      BY <1>17, LinkNumbers DEF OnControlEdited, vars, server, bounds, history, TypeOK,
         ServerType, Publish, NoValue
    <2>6. CountersType'
      BY <1>17 DEF OnControlEdited, vars, server, bounds, history, TypeOK, CountersType, Publish
    <2> QED BY <2>1, <2>2, <2>3, <2>4, <2>5, <2>6 DEF TypeOK
  <1>18. ASSUME NEW c \in Dashboards, OnConnectionStateChanged(c) PROVE TypeOK'
    <2>1. LinksType'
      BY <1>18, OnConnectionStateChangedLinks DEF Says, TypeOK, LinksType
    <2>2. ClientsType'
      BY <1>18, LinkNumbers DEF OnConnectionStateChanged, vars, server, bounds, history,
         TypeOK, ClientsType, RepublishPluginControlEdits, Publish, ClientType
    <2>3. HostsType'
      BY <1>18, OnConnectionStateChangedDoes DEF TypeOK, HostsType
    <2>4. QueuesType'
      BY <1>18 DEF OnConnectionStateChanged, vars, server, bounds, history, TypeOK,
         QueuesType, RepublishPluginControlEdits, Publish
    <2>5. ServerType'
      BY <1>18, LinkNumbers DEF OnConnectionStateChanged, vars, server, bounds, history,
         TypeOK, ServerType, RepublishPluginControlEdits, Publish, NoValue
    <2>6. CountersType'
      BY <1>18 DEF OnConnectionStateChanged, vars, server, bounds, history, TypeOK,
         CountersType, RepublishPluginControlEdits, Publish
    <2> QED BY <2>1, <2>2, <2>3, <2>4, <2>5, <2>6 DEF TypeOK
  <1>19. ASSUME NEW c \in Dashboards, DialFails(c) PROVE TypeOK'
    <2>1. LinksType'
      BY <1>19 DEF DialFails, vars, server, bounds, history, TypeOK, LinksType, Post, LinkType
    <2>2. ClientsType'
      <3>1. client \in [Dashboards -> ClientType] /\ client[c] \in ClientType
        BY DEF TypeOK, ClientsType
      <3>2. [client[c] EXCEPT !.run = "ended"] \in ClientType
        BY <3>1 DEF ClientType, Showing
      <3>3. client' = [client EXCEPT ![c] = [client[c] EXCEPT !.run = "ended"]]
        BY <1>19 DEF DialFails
      <3> QED BY <3>1, <3>2, <3>3 DEF ClientsType
    <2>3. HostsType'
      <3>1. Posts(c, "disconnected")
        BY <1>19, PostDoes DEF DialFails, States
      <3> QED BY <3>1 DEF Posts, TypeOK, HostsType
    <2>4. QueuesType'
      BY <1>19 DEF DialFails, vars, server, bounds, history, TypeOK, QueuesType, Post
    <2>5. ServerType'
      BY <1>19, LinkNumbers DEF DialFails, vars, server, bounds, history, TypeOK, ServerType,
         Post, NoValue
    <2>6. CountersType'
      BY <1>19 DEF DialFails, vars, server, bounds, history, TypeOK, CountersType, Post
    <2> QED BY <2>1, <2>2, <2>3, <2>4, <2>5, <2>6 DEF TypeOK
  <1>20. ASSUME NEW c \in Dashboards, Leaves(c) PROVE TypeOK'
    <2>1. LinksType'
      BY <1>20, LeavesDoes DEF TypeOK, LinksType
    <2>2. ClientsType'
      BY <1>20, LinkNumbers DEF Leaves, vars, server, bounds, history, TypeOK, ClientsType,
         ClientType
    <2>3. HostsType'
      BY <1>20 DEF Leaves, vars, server, bounds, history, TypeOK, HostsType, HostType, States
    <2>4. QueuesType'
      BY <1>20 DEF Leaves, vars, server, bounds, history, TypeOK, QueuesType
    <2>5. ServerType'
      BY <1>20, LinkNumbers DEF Leaves, vars, server, bounds, history, TypeOK, ServerType, NoValue
    <2>6. CountersType'
      BY <1>20 DEF Leaves, vars, server, bounds, history, TypeOK, CountersType
    <2> QED BY <2>1, <2>2, <2>3, <2>4, <2>5, <2>6 DEF TypeOK
  <1>21. ASSUME NEW c \in Dashboards, OnlyWaits(c) PROVE TypeOK'
    <2>1. LinksType'
      BY <1>21 DEF OnlyWaits, vars, server, bounds, history, TypeOK, LinksType, LinkType
    <2>2. ClientsType'
      BY <1>21, LinkNumbers DEF OnlyWaits, vars, server, bounds, history, TypeOK, ClientsType,
         ClientType
    <2>3. HostsType'
      BY <1>21 DEF OnlyWaits, vars, server, bounds, history, TypeOK, HostsType, HostType, States
    <2>4. QueuesType'
      BY <1>21 DEF OnlyWaits, vars, server, bounds, history, TypeOK, QueuesType
    <2>5. ServerType'
      BY <1>21, LinkNumbers DEF OnlyWaits, vars, server, bounds, history, TypeOK, ServerType,
         NoValue
    <2>6. CountersType'
      BY <1>21 DEF OnlyWaits, vars, server, bounds, history, TypeOK, CountersType
    <2> QED BY <2>1, <2>2, <2>3, <2>4, <2>5, <2>6 DEF TypeOK
  <1> QED BY <1>1, <1>2, <1>3, <1>4, <1>5, <1>6, <1>7, <1>8, <1>9, <1>10, <1>11, <1>12, <1>13,
     <1>14, <1>15, <1>16, <1>17, <1>18, <1>19, <1>20, <1>21, NextKinds

-----------------------------------------------------------------------------
(* Whose the connections are *)

LEMMA Blank == Is(NoConnection, Nobody, "none", FALSE, FALSE, FALSE, FALSE, <<>>, <<>>)
  BY DEF Is, NoConnection

LEMMA Same ==
    ASSUME NEW m \in LinkType, NEW l \in LinkType,
           Is(m, l.who, l.slot, l.listed, l.early, l.open, l.cut, l.upward, l.downward)
    PROVE  m = l
  BY DEF Is, LinkType

-----------------------------------------------------------------------------
(* The steps again, field by field *)

\* One connection, one client or one window becomes another.
Turned(i, m) == i \in Ids /\ m \in LinkType /\ links'[i] = m /\ \A j \in Ids : j # i => links'[j] = links[j]
Changed(c, x) ==
    /\ x \in ClientType /\ client'[c] = x
    /\ \A d \in Dashboards : d # c => client'[d] = client[d]
Shows(c, h) ==
    /\ h \in HostType /\ host'[c] = h
    /\ \A d \in Dashboards : d # c => host'[d] = host[d]

ServerSame == UNCHANGED <<up, latest, lease, queues, accepting, issued, outrun>>
DashboardsSame == UNCHANGED <<client, host>>

AcceptStep(i, m) ==
    LET l == links[i] IN
    /\ Turned(i, m)
    /\ Is(m, l.who, "accepted", l.listed, l.early, l.open, l.cut, l.upward, l.downward)
    /\ l.slot = "backlog" /\ up /\ accepting = NoLink /\ accepting' = i
    /\ UNCHANGED <<up, latest, lease, queues, issued, outrun>> /\ DashboardsSame

ListSlotStep(i, m) ==
    LET l == links[i] IN
    /\ Turned(i, m) /\ i = accepting /\ accepting' = NoLink
    /\ \/ Is(m, l.who, l.slot, TRUE, l.early, l.open, l.cut, l.upward, l.downward)
       \/ m = NoConnection /\ ~l.open /\ l.slot \in {"closed", "dead"}
    /\ UNCHANGED <<up, latest, lease, queues, issued, outrun>> /\ DashboardsSame

GreetStep(i, m) ==
    LET l == links[i] IN
    /\ Turned(i, m) /\ l.upward # <<>> /\ l.slot = "accepted" /\ Head(l.upward).kind = "hello"
    /\ Is(m, l.who, "serving", l.listed, ~l.listed, l.open, l.cut, Tail(l.upward),
          IF l.open THEN l.downward \o Snapshot ELSE l.downward)
    /\ DOMAIN queues' = DOMAIN queues \cup {l.who}
    /\ UNCHANGED <<up, latest, lease, accepting, issued, outrun>> /\ DashboardsSame

RefuseStep(i, m) ==
    LET l == links[i] IN
    /\ Turned(i, m) /\ l.upward # <<>> /\ l.slot = "accepted" /\ Head(l.upward).kind # "hello"
    /\ Is(m, l.who, "dead", l.listed, l.early, l.open, l.cut, l.upward, l.downward)
    /\ ServerSame /\ DashboardsSame

ClientGoneStep(i, m) ==
    LET l == links[i] IN
    /\ Turned(i, m) /\ Alive(l) /\ l.upward = <<>> /\ accepting # i
    /\ ~l.open \/ l.cut
    /\ \/ Is(m, l.who, IF l.slot = "serving" THEN "closed" ELSE "dead", FALSE, l.early, l.open,
             l.cut, l.upward, l.downward)
       \/ m = NoConnection /\ ~l.open
    /\ ServerSame /\ DashboardsSame

CutStep(i, m) ==
    LET l == links[i] IN
    /\ Turned(i, m) /\ l.slot \in {"backlog", "accepted", "serving", "dead"} /\ l.open /\ ~l.cut
    /\ Is(m, l.who, l.slot, l.listed, l.early, l.open, TRUE, <<>>, <<>>)
    /\ ServerSame /\ DashboardsSame

WriteStep(i) ==
    /\ links[i].slot = "serving" /\ links[i].upward # <<>> /\ links[i].who \in Dashboards
    /\ \A j \in Ids :
         LET l == links[j] IN
         IF j = i
         THEN Is(links'[j], l.who, l.slot, l.listed, l.early, l.open, l.cut, Tail(l.upward),
                 IF Accepts(i) /\ Listens(l) THEN Answered(i) \o Written(i) ELSE Answered(i))
         ELSE Is(links'[j], l.who, l.slot, l.listed, l.early, l.open, l.cut, l.upward,
                 IF Accepts(i) /\ Listens(l) THEN l.downward \o Written(i) ELSE l.downward)
    /\ lease' = IF lease = Nobody THEN links[i].who ELSE lease
    /\ latest' = IF Accepts(i) THEN Head(links[i].upward).value ELSE latest
    /\ DOMAIN queues' = DOMAIN queues
    /\ \A c \in Dashboards :
         outrun'[c] <=> outrun[c] \/ (c = links[i].who /\ ~links[i].open)
    /\ UNCHANGED <<up, accepting, issued>> /\ DashboardsSame

\* Everybody who listens is sent ms.
SendStep(ms) ==
    \A j \in Ids :
        LET l == links[j] IN
        Is(links'[j], l.who, l.slot, l.listed, l.early, l.open, l.cut, l.upward,
           IF Listens(l) THEN l.downward \o ms ELSE l.downward)

PublishStep ==
    /\ SendStep(<<Update(issued + 1)>>) /\ latest' = issued + 1 /\ issued' = issued + 1
    /\ DOMAIN queues' = DOMAIN queues /\ issued + 1 \in Nat
    /\ UNCHANGED <<up, lease, accepting, outrun>> /\ DashboardsSame

SessionStep ==
    /\ SendStep(Snapshot) /\ lease' = Nobody /\ DOMAIN queues' = DOMAIN queues
    /\ UNCHANGED <<up, latest, accepting, issued, outrun>> /\ DashboardsSame

StopStep ==
    /\ ~up' /\ accepting' = NoLink
    /\ \A j \in Ids :
         LET l == links[j] IN
         \/ /\ Is(links'[j], l.who, "closed", FALSE, l.early, l.open, l.cut, <<>>, l.downward)
            /\ l.who # Nobody
         \/ links'[j] = NoConnection /\ (l.who = Nobody \/ ~l.open)
    /\ UNCHANGED <<latest, lease, queues, issued, outrun>> /\ DashboardsSame

StartStep ==
    /\ ~up /\ up' /\ lease' = Nobody
    /\ UNCHANGED <<accepting, links, issued, outrun>> /\ DashboardsSame

DialStep(c, i, m) ==
    /\ Turned(i, m) /\ links[i] = NoConnection /\ client[c].run = "dialing"
    /\ Is(m, c, "backlog", FALSE, FALSE, TRUE, FALSE, <<>>, <<>>)
    /\ \E x \in ClientType :
         /\ Changed(c, x) /\ x.run = "connected" /\ x.link = i /\ x.phase = client[c].phase
         /\ x.connected = client[c].connected /\ x.told = client[c].told
    /\ up /\ ServerSame /\ UNCHANGED host

\* A client says s on its connection.
SaysStep(c, i, m, s) ==
    LET l == links[i] IN
    /\ Turned(i, m) /\ i = client[c].link /\ s \in Upward /\ l.slot # "closed"
    /\ Is(m, l.who, l.slot, l.listed, l.early, l.open, l.cut, Append(l.upward, s), l.downward)

HeartbeatStep(c, i, m) ==
    /\ client[c].run = "connected" /\ SaysStep(c, i, m, Marker("heartbeat"))
    /\ ServerSame /\ DashboardsSame

HelloStep(c) ==
    /\ client[c].run = "connected"
    /\ \E x \in ClientType :
         /\ Changed(c, x) /\ x.run = "receiving" /\ x.link = client[c].link /\ x.phase = client[c].phase
         /\ x.connected = client[c].connected /\ x.told = client[c].told
    /\ \/ \E i \in Ids, m \in LinkType : SaysStep(c, i, m, Marker("hello"))
       \/ links' = links /\ links[client[c].link].slot = "closed"
    /\ ServerSame /\ UNCHANGED host

ReceiveStep(c, i, m, x) ==
    LET l == links[i] IN
    /\ Turned(i, m) /\ i = client[c].link /\ client[c].run = "receiving" /\ l.downward # <<>>
    /\ Is(m, l.who, l.slot, l.listed, l.early, l.open, l.cut, l.upward, Tail(l.downward))
    /\ Head(l.downward) \in Downward /\ Takes(client[c], Head(l.downward), x) /\ Changed(c, x)
    /\ \/ UNCHANGED host /\ (Head(l.downward).kind = "live begin" => client[c].connected)
       \/ /\ Head(l.downward).kind = "live begin"
          /\ \E h \in HostType : /\ Shows(c, h) /\ h.edit = host[c].edit
                                 /\ h.posted = Append(host[c].posted, "connected")
       \/ /\ Head(l.downward).kind = "snapshot begin"
          /\ \E h \in HostType : Shows(c, h) /\ h.edit = host[c].edit
    /\ ServerSame

StaleStep(c) ==
    /\ client[c].run = "receiving"
    /\ \E x \in ClientType :
         /\ Changed(c, x) /\ x.run = client[c].run /\ x.link = client[c].link /\ x.told = client[c].told
         /\ x.phase = "descriptors" /\ ~x.connected
    /\ links[client[c].link].downward = <<>>
    /\ \E h \in HostType : Shows(c, h) /\ h.edit = host[c].edit
    /\ UNCHANGED links /\ ServerSame

EditStep(c) ==
    /\ issued + 1 \in Nat /\ issued' = issued + 1
    /\ \E h \in HostType : Shows(c, h) /\ h.edit = issued + 1 /\ h.posted = host[c].posted
    /\ \/ \E i \in Ids, m \in LinkType : SaysStep(c, i, m, Write(issued + 1)) /\ client[c].connected
       \/ /\ links' = links
          /\ client[c].connected => links[client[c].link].cut \/ links[client[c].link].slot = "closed"
    /\ UNCHANGED <<up, latest, lease, queues, accepting, outrun, client>>

StateStep(c) ==
    /\ host[c].posted # <<>>
    /\ \E h \in HostType : Shows(c, h) /\ h.edit = host[c].edit /\ h.posted = Tail(host[c].posted)
    /\ \/ /\ client[c].connected /\ host[c].edit > NoValue
          /\ \E i \in Ids, m \in LinkType : SaysStep(c, i, m, Write(host[c].edit))
       \/ /\ links' = links
          /\ \/ Head(host[c].posted) # "connected" \/ host[c].edit = NoValue
             \/ client[c].connected => links[client[c].link].cut \/ links[client[c].link].slot = "closed"
    /\ UNCHANGED <<up, latest, lease, queues, accepting, issued, outrun, client>>

LeaveStep(c) ==
    /\ \E x \in ClientType : Changed(c, x) /\ Out(x)
    /\ \E h \in HostType : Shows(c, h) /\ h.edit = host[c].edit
    /\ \/ client[c].link = NoLink /\ links' = links
       \/ \E m \in LinkType, i \in Ids :
            LET l == links[i] IN
            /\ i = client[c].link /\ Turned(i, m)
            /\ \/ Is(m, l.who, l.slot, l.listed, l.early, FALSE, l.cut, l.upward, <<>>) /\ l.slot # "backlog"
               \/ m = NoConnection /\ (accepting # i \/ l.slot = "backlog")
    /\ ServerSame

\* A window or a client that has no connection goes on.
IdleStep(c) ==
    /\ \/ UNCHANGED client
       \/ \E x \in ClientType : /\ Changed(c, x) /\ client[c].run = "dialing"
                                /\ x.link = client[c].link /\ x.run = "ended"
                                /\ x.connected = client[c].connected
    /\ \E h \in HostType : /\ Shows(c, h) /\ h.edit = host[c].edit
                           /\ Contains(host[c].posted, "connected") => Contains(h.posted, "connected")
    /\ UNCHANGED links /\ ServerSame

LEMMA Turns ==
    ASSUME TypeOK, NEW i \in Ids, NEW m \in LinkType, links' = [links EXCEPT ![i] = m]
    PROVE  Turned(i, m)
  BY DEF Turned, TypeOK, LinksType

LEMMA Changes ==
    ASSUME TypeOK, NEW c \in Dashboards, NEW x \in ClientType, client' = [client EXCEPT ![c] = x]
    PROVE  Changed(c, x)
  BY DEF Changed, TypeOK, ClientsType

LEMMA ShowsIt ==
    ASSUME TypeOK, NEW c \in Dashboards, NEW h \in HostType, host' = [host EXCEPT ![c] = h]
    PROVE  Shows(c, h)
  BY DEF Shows, TypeOK, HostsType

LEMMA ShowsSame ==
    ASSUME TypeOK, NEW c \in Dashboards, UNCHANGED host
    PROVE  Shows(c, host[c])
  BY DEF Shows, TypeOK, HostsType

LEMMA HostPosted ==
    ASSUME TypeOK, NEW c \in Dashboards, NEW state, Posts(c, state)
    PROVE  \E h \in HostType : /\ Shows(c, h) /\ h.edit = host[c].edit
                               /\ h.posted = Append(host[c].posted, state)
  BY ShowsIt DEF Posts

LEMMA AcceptIs ==
    ASSUME TypeOK, Held, Slots, NEW i \in Ids, Accept(i)
    PROVE  \E m \in LinkType : AcceptStep(i, m)
  <1>1. /\ links[i].slot = "backlog" /\ up /\ accepting = NoLink /\ accepting' = i
        /\ UNCHANGED <<up, latest, lease, queues, issued, outrun>> /\ DashboardsSame
    BY DEF Accept, bounds, history, DashboardsSame
  <1> QED BY <1>1, AcceptDoes, Turns DEF AcceptStep

LEMMA ListSlotIs ==
    ASSUME TypeOK, Held, Slots, ListSlot
    PROVE  \E i \in Ids, m \in LinkType : ListSlotStep(i, m)
  <1>1. UNCHANGED <<up, latest, lease, queues, issued, outrun>> /\ DashboardsSame
    BY DEF ListSlot, bounds, history, DashboardsSame
  <1>2. accepting \in Ids /\ accepting' = NoLink
    BY ListSlotDoes
  <1>3. PICK m \in LinkType :
          /\ \/ Is(m, links[accepting].who, links[accepting].slot, TRUE, links[accepting].early,
                   links[accepting].open, links[accepting].cut, links[accepting].upward,
                   links[accepting].downward)
             \/ m = NoConnection /\ ~links[accepting].open /\ links[accepting].slot \in {"closed", "dead"}
          /\ links' = [links EXCEPT ![accepting] = m]
    BY ListSlotDoes
  <1>4. Turned(accepting, m)
    BY <1>2, <1>3, Turns
  <1>5. ListSlotStep(accepting, m)
    BY <1>1, <1>2, <1>3, <1>4 DEF ListSlotStep
  <1> QED BY <1>2, <1>5

LEMMA GreetIs ==
    ASSUME TypeOK, Held, Slots, NEW i \in Ids, Greet(i)
    PROVE  \E m \in LinkType : GreetStep(i, m) \/ RefuseStep(i, m)
  <1>1. UNCHANGED <<up, latest, lease, accepting, issued, outrun>> /\ DashboardsSame
    BY DEF Greet, bounds, history, DashboardsSame
  <1>2. links[i].upward # <<>> /\ links[i].slot = "accepted"
    BY GreetDoes
  <1>3. CASE Head(links[i].upward).kind = "hello"
    <2>1. PICK m \in LinkType :
            /\ Is(m, links[i].who, "serving", links[i].listed, ~links[i].listed, links[i].open, links[i].cut,
                  Tail(links[i].upward),
                  IF links[i].open THEN links[i].downward \o Snapshot ELSE links[i].downward)
            /\ links' = [links EXCEPT ![i] = m]
      BY <1>3, GreetDoes
    <2>2. queues' = [c \in DOMAIN queues \cup {links[i].who} |->
                                 IF c \in DOMAIN queues THEN queues[c] ELSE <<>>]
      BY <1>3, GreetDoes
    <2>3. DOMAIN queues' = DOMAIN queues \cup {links[i].who}
      BY <2>2
    <2>4. Turned(i, m)
      BY <2>1, Turns
    <2> QED BY <1>1, <1>2, <1>3, <2>1, <2>3, <2>4 DEF GreetStep
  <1>4. CASE Head(links[i].upward).kind # "hello"
    <2>1. PICK m \in LinkType :
            /\ Is(m, links[i].who, "dead", links[i].listed, links[i].early, links[i].open, links[i].cut,
                  links[i].upward, links[i].downward)
            /\ links' = [links EXCEPT ![i] = m]
      BY <1>4, GreetDoes
    <2>2. UNCHANGED queues
      BY <1>4, GreetDoes
    <2>4. Turned(i, m)
      BY <2>1, Turns
    <2> QED BY <1>1, <1>2, <1>4, <2>1, <2>2, <2>4 DEF RefuseStep, ServerSame
  <1> QED BY <1>3, <1>4

LEMMA ClientGoneIs ==
    ASSUME TypeOK, Held, Slots, NEW i \in Ids, ClientGone(i)
    PROVE  \E m \in LinkType : ClientGoneStep(i, m)
  <1>1. /\ Alive(links[i]) /\ links[i].upward = <<>> /\ accepting # i /\ (~links[i].open \/ links[i].cut)
        /\ ServerSame /\ DashboardsSame
    BY DEF ClientGone, server, bounds, history, DashboardsSame, ServerSame
  <1> QED BY <1>1, ClientGoneDoes, Turns DEF ClientGoneStep

LEMMA CutIs ==
    ASSUME TypeOK, Held, Slots, NEW i \in Ids, Cut(i)
    PROVE  \E m \in LinkType : CutStep(i, m)
  <1>1. /\ links[i].slot \in {"backlog", "accepted", "serving", "dead"} /\ links[i].open /\ ~links[i].cut
        /\ ServerSame /\ DashboardsSame
    BY DEF Cut, server, history, DashboardsSame, ServerSame
  <1> QED BY <1>1, CutDoes, Turns DEF CutStep

LEMMA ReceiveWriteIs ==
    ASSUME TypeOK, Held, Slots, NEW i \in Ids, ReceiveWrite(i)
    PROVE  WriteStep(i)
  <1>1. links[i].slot = "serving" /\ links[i].upward # <<>> /\ links[i].who \in Dashboards
    BY WriteIsSent
  <1>2. /\ lease' = IF lease = Nobody THEN links[i].who ELSE lease
        /\ latest' = IF Accepts(i) THEN Head(links[i].upward).value ELSE latest
    BY DEF ReceiveWrite, HandleWrite, Accepts
  <1>3. DOMAIN queues' = DOMAIN queues
    BY DEF ReceiveWrite, HandleWrite
  <1>4. /\ outrun' = [outrun EXCEPT ![links[i].who] = outrun[links[i].who] \/ ~links[i].open]
        /\ UNCHANGED <<up, accepting, issued>> /\ DashboardsSame
    BY DEF ReceiveWrite, bounds, DashboardsSame
  <1>5. ASSUME NEW c \in Dashboards
        PROVE  outrun'[c] <=> outrun[c] \/ (c = links[i].who /\ ~links[i].open)
    <2>1. outrun \in [Dashboards -> BOOLEAN]
      BY DEF TypeOK, CountersType
    <2>2. CASE c = links[i].who
      <3>1. outrun'[c] = (outrun[c] \/ ~links[i].open)
        BY <1>4, <2>1, <2>2
      <3> QED BY <2>2, <3>1
    <2>3. CASE c # links[i].who
      <3>1. outrun'[c] = outrun[c]
        BY <1>4, <2>1, <2>3
      <3> QED BY <2>3, <3>1
    <2> QED BY <2>2, <2>3
  <1> QED BY <1>1, <1>2, <1>3, <1>4, <1>5, ReceiveWriteDoes DEF WriteStep

LEMMA ServerIs ==
    ASSUME TypeOK, Held, Slots
    PROVE  /\ PublishFromServer => PublishStep
           /\ RestartSession => SessionStep
           /\ ServerStop => StopStep
           /\ \A fresh \in BOOLEAN : ServerStart(fresh) => StartStep
  <1>1. ASSUME PublishFromServer PROVE PublishStep
    <2>1. /\ latest' = issued + 1 /\ issued' = issued + 1
          /\ UNCHANGED <<up, lease, accepting, outrun>> /\ DashboardsSame
      BY <1>1 DEF PublishFromServer, history, DashboardsSame
    <2>2. DOMAIN queues' = DOMAIN queues
      BY <1>1 DEF PublishFromServer
    <2>3. issued + 1 \in Nat
      BY DEF TypeOK, CountersType
    <2> QED BY <1>1, <2>1, <2>2, <2>3, PublishFromServerDoes DEF PublishStep, SendStep
  <1>2. ASSUME RestartSession PROVE SessionStep
    <2>1. lease' = Nobody /\ UNCHANGED <<up, latest, accepting, issued, outrun>> /\ DashboardsSame
      BY <1>2 DEF RestartSession, history, DashboardsSame
    <2>2. DOMAIN queues' = DOMAIN queues
      BY <1>2 DEF RestartSession
    <2> QED BY <1>2, <2>1, <2>2, RestartSessionDoes DEF SessionStep, SendStep
  <1>3. ASSUME ServerStop PROVE StopStep
    <2>1. /\ ~up' /\ accepting' = NoLink
          /\ UNCHANGED <<latest, lease, queues, issued, outrun>> /\ DashboardsSame
      BY <1>3 DEF ServerStop, history, DashboardsSame
    <2> QED BY <1>3, <2>1, ServerStopDoes DEF StopStep
  <1>4. ASSUME NEW fresh \in BOOLEAN, ServerStart(fresh) PROVE StartStep
    BY <1>4 DEF ServerStart, StartStep, bounds, history, DashboardsSame
  <1> QED BY <1>1, <1>2, <1>3, <1>4

LEMMA DialIs ==
    ASSUME TypeOK, Held, Slots, NEW c \in Dashboards, Dial(c)
    PROVE  \E i \in Ids, m \in LinkType : DialStep(c, i, m)
  <1>1. client[c].run = "dialing" /\ up /\ ServerSame /\ UNCHANGED host
    BY DEF Dial, server, bounds, history, ServerSame
  <1>2. PICK i \in Ids :
              /\ links[i] = NoConnection
              /\ \E m \in LinkType :
                    /\ Is(m, c, "backlog", FALSE, FALSE, TRUE, FALSE, <<>>, <<>>)
                    /\ links' = [links EXCEPT ![i] = m]
              /\ client' = [client EXCEPT ![c] = [client[c] EXCEPT !.run = "connected", !.link = i]]
    BY DialDoes
  <1>3. PICK m \in LinkType : /\ Is(m, c, "backlog", FALSE, FALSE, TRUE, FALSE, <<>>, <<>>)
                              /\ links' = [links EXCEPT ![i] = m]
    BY <1>2
  <1> DEFINE x == [client[c] EXCEPT !.run = "connected", !.link = i]
  <1>4. /\ x \in ClientType /\ x.run = "connected" /\ x.link = i /\ x.phase = client[c].phase
        /\ x.connected = client[c].connected /\ x.told = client[c].told
    <2>1. client[c] \in ClientType /\ i \in 0 .. MaxLinks
      BY LinkNumbers DEF TypeOK, ClientsType
    <2> QED BY <2>1 DEF ClientType, Showing
  <1> HIDE DEF x
  <1>5. Changed(c, x)
    BY <1>2, <1>4, Changes DEF x
  <1>6. Turned(i, m)
    BY <1>3, Turns
  <1>7. \E y \in ClientType :
         /\ Changed(c, y) /\ y.run = "connected" /\ y.link = i /\ y.phase = client[c].phase
         /\ y.connected = client[c].connected /\ y.told = client[c].told
    BY <1>4, <1>5
  <1>8. DialStep(c, i, m)
    BY <1>1, <1>2, <1>3, <1>6, <1>7 DEF DialStep
  <1> QED BY <1>8

\* What a client says on a connection that the server has not closed.
LEMMA SaysIs ==
    ASSUME TypeOK, NEW c \in Dashboards, NEW s \in Upward, Says(c, s), links[client[c].link].slot # "closed"
    PROVE  \E i \in Ids, m \in LinkType : SaysStep(c, i, m, s)
  <1>1. client[c].link \in Ids
    BY DEF Says
  <1>2. PICK m \in LinkType :
          /\ Is(m, links[client[c].link].who, links[client[c].link].slot, links[client[c].link].listed,
                links[client[c].link].early, links[client[c].link].open, links[client[c].link].cut,
                Append(links[client[c].link].upward, s), links[client[c].link].downward)
          /\ links' = [links EXCEPT ![client[c].link] = m]
    BY DEF Says
  <1>3. Turned(client[c].link, m)
    BY <1>1, <1>2, Turns
  <1>4. SaysStep(c, client[c].link, m, s)
    BY <1>2, <1>3 DEF SaysStep
  <1> QED BY <1>1, <1>4

LEMMA HeartbeatIs ==
    ASSUME TypeOK, Held, Slots, NEW c \in Dashboards, EarlyHeartbeat(c)
    PROVE  \E i \in Ids, m \in LinkType : HeartbeatStep(c, i, m)
  <1>1. /\ client[c].run = "connected" /\ links[client[c].link].slot # "closed"
        /\ ServerSame /\ DashboardsSame
    BY DEF EarlyHeartbeat, server, ServerSame, DashboardsSame
  <1>2. Says(c, Marker("heartbeat"))
    BY EarlyHeartbeatDoes
  <1>3. \E i \in Ids, m \in LinkType : SaysStep(c, i, m, Marker("heartbeat"))
    BY <1>1, <1>2, Kinds, SaysIs
  <1> QED BY <1>1, <1>3 DEF HeartbeatStep

LEMMA HelloIs ==
    ASSUME TypeOK, Held, Slots, NEW c \in Dashboards, SendsHello(c)
    PROVE  HelloStep(c)
  <1>1. client[c].run = "connected" /\ ServerSame /\ UNCHANGED host
    BY DEF SendsHello, server, bounds, history, ServerSame
  <1> DEFINE x == [client[c] EXCEPT !.run = "receiving"]
  <1>2. /\ x \in ClientType /\ x.run = "receiving" /\ x.link = client[c].link /\ x.phase = client[c].phase
        /\ x.connected = client[c].connected /\ x.told = client[c].told
    <2>1. client[c] \in ClientType
      BY DEF TypeOK, ClientsType
    <2> QED BY <2>1 DEF ClientType, Showing
  <1>3. client' = [client EXCEPT ![c] = x]
    BY DEF SendsHello
  <1> HIDE DEF x
  <1>4. Changed(c, x)
    BY <1>2, <1>3, Changes
  <1>5. \/ \E i \in Ids, m \in LinkType : SaysStep(c, i, m, Marker("hello"))
        \/ links' = links /\ links[client[c].link].slot = "closed"
    BY SendsHelloDoes, Kinds, SaysIs
  <1>6. \E y \in ClientType :
         /\ Changed(c, y) /\ y.run = "receiving" /\ y.link = client[c].link /\ y.phase = client[c].phase
         /\ y.connected = client[c].connected /\ y.told = client[c].told
    BY <1>2, <1>4
  <1> QED BY <1>1, <1>5, <1>6 DEF HelloStep

LEMMA ReceiveIs ==
    ASSUME TypeOK, Held, Slots, NEW c \in Dashboards, Receive(c)
    PROVE  \E i \in Ids, m \in LinkType, x \in ClientType : ReceiveStep(c, i, m, x)
  <1> DEFINE i == client[c].link
             l == links[i]
             head == Head(l.downward)
  <1>1. client[c].run = "receiving" /\ ServerSame
    BY DEF Receive, server, bounds, history, ServerSame
  <1>2. i \in Ids /\ l.downward # <<>>
    BY ReceiveDoes
  <1>3. PICK m \in LinkType :
          /\ Is(m, l.who, l.slot, l.listed, l.early, l.open, l.cut, l.upward, Tail(l.downward))
          /\ links' = [links EXCEPT ![i] = m]
    BY ReceiveDoes
  <1>4. Turned(i, m)
    BY <1>2, <1>3, Turns
  <1>5. head \in Downward
    BY ClientTakes
  <1>6. PICK x \in ClientType : Takes(client[c], head, x) /\ client' = [client EXCEPT ![c] = x]
    BY ClientTakes
  <1>7. Changed(c, x)
    BY <1>6, Changes
  <1>8. \/ UNCHANGED host /\ (head.kind = "live begin" => client[c].connected)
        \/ head.kind = "live begin" /\ Posts(c, "connected")
        \/ head.kind = "snapshot begin" /\ Posts(c, "connecting")
    BY ClientTakes
  <1>9. \/ UNCHANGED host /\ (head.kind = "live begin" => client[c].connected)
        \/ /\ head.kind = "live begin"
           /\ \E h \in HostType : /\ Shows(c, h) /\ h.edit = host[c].edit
                                  /\ h.posted = Append(host[c].posted, "connected")
        \/ head.kind = "snapshot begin" /\ \E h \in HostType : Shows(c, h) /\ h.edit = host[c].edit
    BY <1>8, HostPosted
  <1>10. ReceiveStep(c, i, m, x)
    BY <1>1, <1>2, <1>3, <1>4, <1>5, <1>6, <1>7, <1>9 DEF ReceiveStep
  <1> QED BY <1>2, <1>10

LEMMA StaleIs ==
    ASSUME TypeOK, Held, Slots, NEW c \in Dashboards, ReportStale(c)
    PROVE  StaleStep(c)
  <1>1. /\ client[c].run = "receiving" /\ links[client[c].link].downward = <<>>
        /\ UNCHANGED links /\ ServerSame
    BY DEF ReportStale, server, ServerSame
  <1>2. \E x \in ClientType :
         /\ Changed(c, x) /\ x.run = client[c].run /\ x.link = client[c].link /\ x.told = client[c].told
         /\ x.phase = "descriptors" /\ ~x.connected
    BY StaleDoes, Changes
  <1>3. \E h \in HostType : Shows(c, h) /\ h.edit = host[c].edit
    <2>1. host[c] \in HostType
      BY DEF TypeOK, HostsType
    <2>2. UNCHANGED host \/ Posts(c, "stale")
      BY StaleDoes
    <2> QED BY <2>1, <2>2, ShowsSame, HostPosted
  <1> QED BY <1>1, <1>2, <1>3 DEF StaleStep

LEMMA EditIs ==
    ASSUME TypeOK, Held, Slots, NEW c \in Dashboards, OnControlEdited(c)
    PROVE  EditStep(c)
  <1>1. UNCHANGED <<up, latest, lease, queues, accepting, outrun, client>>
    BY DEF OnControlEdited, server, history
  <1>2. /\ issued + 1 \in Nat /\ issued' = issued + 1 /\ links' = Publish(c, issued + 1)
        /\ \E h \in HostType : Shows(c, h) /\ h.edit = issued + 1 /\ h.posted = host[c].posted
    BY EditDoes, ShowsIt
  <1>3. Write(issued + 1) \in Upward
    BY <1>2 DEF Write, Upward
  <1>4. \/ \E i \in Ids, m \in LinkType : SaysStep(c, i, m, Write(issued + 1)) /\ client[c].connected
        \/ /\ links' = links
           /\ client[c].connected => links[client[c].link].cut \/ links[client[c].link].slot = "closed"
    BY <1>2, <1>3, PublishDoes, SaysIs
  <1> QED BY <1>1, <1>2, <1>4 DEF EditStep

LEMMA StateIs ==
    ASSUME TypeOK, Held, Slots, NEW c \in Dashboards, OnConnectionStateChanged(c)
    PROVE  StateStep(c)
  <1>1. UNCHANGED <<up, latest, lease, queues, accepting, issued, outrun, client>>
    BY DEF OnConnectionStateChanged, server, bounds, history
  <1>2. /\ host[c].posted # <<>>
        /\ \E h \in HostType : Shows(c, h) /\ h.edit = host[c].edit /\ h.posted = Tail(host[c].posted)
    BY OnConnectionStateChangedDoes, ShowsIt
  <1>3. host[c].edit \in Nat
    BY DEF TypeOK, HostsType, HostType
  <1>4. Write(host[c].edit) \in Upward
    BY <1>3 DEF Write, Upward
  <1>5. CASE host[c].edit # NoValue /\ links' = Publish(c, host[c].edit)
    <2>1. host[c].edit > NoValue
      BY <1>3, <1>5 DEF NoValue
    <2>2. \/ /\ links' = links
             /\ client[c].connected => links[client[c].link].cut \/ links[client[c].link].slot = "closed"
          \/ Says(c, Write(host[c].edit)) /\ client[c].connected /\ links[client[c].link].slot # "closed"
      BY <1>3, <1>5, PublishDoes
    <2>3. \/ /\ links' = links
             /\ client[c].connected => links[client[c].link].cut \/ links[client[c].link].slot = "closed"
          \/ client[c].connected /\ \E i \in Ids, m \in LinkType : SaysStep(c, i, m, Write(host[c].edit))
      BY <1>4, <2>2, SaysIs
    <2> QED BY <1>1, <1>2, <2>1, <2>3 DEF StateStep
  <1>6. CASE (Head(host[c].posted) # "connected" \/ host[c].edit = NoValue) /\ links' = links
    BY <1>1, <1>2, <1>6 DEF StateStep
  <1> QED BY <1>5, <1>6, OnConnectionStateChangedDoes

LEMMA LeaveIs ==
    ASSUME TypeOK, Held, Slots, NEW c \in Dashboards, Leaves(c)
    PROVE  LeaveStep(c)
  <1>1. ServerSame
    BY DEF Leaves, server, ServerSame
  <1>2. \E x \in ClientType : Changed(c, x) /\ Out(x)
    BY Changes DEF Leaves
  <1>3. \E h \in HostType : Shows(c, h) /\ h.edit = host[c].edit
    BY ShowsIt DEF Leaves
  <1>4. CASE client[c].link = NoLink /\ links' = links
    BY <1>1, <1>2, <1>3, <1>4 DEF LeaveStep
  <1>5. CASE client[c].link \in Ids /\ client[c].link # NoLink
    <2> DEFINE i == client[c].link
               l == links[i]
    <2>1. PICK m \in LinkType :
            /\ \/ Is(m, l.who, l.slot, l.listed, l.early, FALSE, l.cut, l.upward, <<>>) /\ l.slot # "backlog"
               \/ m = NoConnection /\ (accepting # i \/ l.slot = "backlog")
            /\ links' = [links EXCEPT ![i] = m]
      BY <1>5, LeavesDoes
    <2>2. Turned(i, m)
      BY <1>5, <2>1, Turns
    <2> QED BY <1>1, <1>2, <1>3, <1>5, <2>1, <2>2 DEF LeaveStep
  <1> QED BY <1>4, <1>5, LeavesDoes, LinkNumbers

LEMMA MoreConnected ==
    ASSUME NEW p \in Seq(States), NEW s \in States, Contains(p, "connected")
    PROVE  Contains(Append(p, s), "connected")
  <1>1. PICK n \in DOMAIN p : p[n] = "connected"
    BY DEF Contains
  <1>2. n \in DOMAIN Append(p, s) /\ Append(p, s)[n] = p[n]
    BY AppendProperties
  <1> QED BY <1>1, <1>2 DEF Contains

LEMMA IdleIs ==
    ASSUME TypeOK, Held, Slots, NEW c \in Dashboards, DialFails(c) \/ OnlyWaits(c)
    PROVE  IdleStep(c)
  <1>1. host[c] \in HostType /\ client[c] \in ClientType
    BY DEF TypeOK, HostsType, ClientsType
  <1>2. CASE DialFails(c)
    <2>1. UNCHANGED links /\ ServerSame /\ client[c].run = "dialing" /\ Posts(c, "disconnected")
      BY <1>2, PostDoes DEF DialFails, server, bounds, history, ServerSame, States
    <2> DEFINE x == [client[c] EXCEPT !.run = "ended"]
    <2>2. x \in ClientType /\ x.link = client[c].link /\ x.run = "ended" /\ x.connected = client[c].connected
      BY <1>1 DEF ClientType, Showing
    <2>3. client' = [client EXCEPT ![c] = x]
      BY <1>2 DEF DialFails
    <2> HIDE DEF x
    <2>4. Changed(c, x)
      BY <2>2, <2>3, Changes
    <2>5. PICK h \in HostType : /\ Shows(c, h) /\ h.edit = host[c].edit
                                /\ h.posted = Append(host[c].posted, "disconnected")
      BY <2>1, HostPosted
    <2>6. Contains(host[c].posted, "connected") => Contains(h.posted, "connected")
      <3>1. host[c].posted \in Seq(States)
        BY <1>1 DEF HostType
      <3> QED BY <2>5, <3>1, MoreConnected DEF States
    <2> QED BY <2>1, <2>2, <2>4, <2>5, <2>6 DEF IdleStep
  <1>3. CASE OnlyWaits(c)
    <2>1. UNCHANGED <<links, client>> /\ ServerSame
      BY <1>3 DEF OnlyWaits, server, bounds, history, ServerSame
    <2> DEFINE h == [host[c] EXCEPT !.timer = FALSE]
    <2>2. h \in HostType /\ h.edit = host[c].edit /\ h.posted = host[c].posted
      BY <1>1 DEF HostType
    <2>3. host' = [host EXCEPT ![c] = h]
      BY <1>3 DEF OnlyWaits
    <2> HIDE DEF h
    <2>4. Shows(c, h)
      BY <2>2, <2>3, ShowsIt
    <2> QED BY <2>1, <2>2, <2>4 DEF IdleStep
  <1> QED BY <1>2, <1>3

LEMMA StepKinds ==
    ASSUME TypeOK, Held, Slots, Next
    PROVE  \/ \E i \in Ids, m \in LinkType :
                 \/ AcceptStep(i, m) \/ ListSlotStep(i, m) \/ GreetStep(i, m) \/ RefuseStep(i, m)
                 \/ ClientGoneStep(i, m) \/ CutStep(i, m)
           \/ \E i \in Ids : WriteStep(i)
           \/ PublishStep \/ SessionStep \/ StopStep \/ StartStep
           \/ \E c \in Dashboards, i \in Ids, m \in LinkType : DialStep(c, i, m) \/ HeartbeatStep(c, i, m)
           \/ \E c \in Dashboards : HelloStep(c) \/ StaleStep(c) \/ EditStep(c) \/ StateStep(c)
                                    \/ LeaveStep(c) \/ IdleStep(c)
           \/ \E c \in Dashboards, i \in Ids, m \in LinkType, x \in ClientType : ReceiveStep(c, i, m, x)
  BY NextKinds, AcceptIs, ListSlotIs, GreetIs, ClientGoneIs, CutIs, ReceiveWriteIs, ServerIs, DialIs,
     HeartbeatIs, HelloIs, ReceiveIs, StaleIs, EditIs, StateIs, LeaveIs, IdleIs

\* A connection that nobody has is not sent anything.
LEMMA NobodyListens ==
    ASSUME TypeOK, Held, NEW j \in Ids, NEW l \in LinkType, NEW d, links[j].who = Nobody,
           LET k == links[j] IN
           Is(l, k.who, k.slot, k.listed, k.early, k.open, k.cut, k.upward, IF Listens(k) THEN d ELSE k.downward)
    PROVE  l = links[j]
  <1>1. links[j] = NoConnection /\ links[j] \in LinkType
    BY DEF Held, Blanks, TypeOK, LinksType
  <1>2. ~Listens(links[j])
    BY <1>1 DEF Listens, NoConnection
  <1>3. (IF Listens(links[j]) THEN d ELSE links[j].downward) = links[j].downward
    BY <1>2
  <1> QED BY <1>1, <1>3, Same

\* Connections and clients that stay with each other.
LEMMA StaysHeld ==
    ASSUME Held, \A j \in Ids : links'[j].who = links[j].who /\ (links'[j].open <=> links[j].open),
           \A d \in Dashboards :
              /\ client'[d].link = client[d].link /\ client'[d].run = client[d].run
              /\ client'[d].connected => client'[d].run = "receiving" /\ client'[d].phase # "descriptors",
           \A d \in Dashboards : client[d].link \in Ids \cup {NoLink}
    PROVE  OpenOnes' /\ Holders'
  <1>1. OpenOnes'
    BY DEF Held, OpenOnes
  <1>2. Holders'
    <2>1. ASSUME NEW d \in Dashboards, client[d].link # NoLink
          PROVE  links'[client'[d].link].who = d /\ links'[client'[d].link].open
      BY <2>1 DEF Held, Holders
    <2>2. ASSUME NEW d \in Dashboards PROVE client'[d].link # NoLink <=> client'[d].run \in {"connected", "receiving"}
      BY DEF Held, Holders
    <2> QED BY <2>1, <2>2 DEF Holders
  <1> QED BY <1>1, <1>2

LEMMA Empties ==
    /\ \A kind : All(<<>>, kind) /\ AllBehind(<<>>, kind)
    /\ \A e : Edits(<<>>, e)
  BY DEF All, AllBehind, Edits

LEMMA OneIsFirst ==
    ASSUME NEW s, s \in Seq(Upward), s = <<>>, NEW a, a \in Upward, NEW kind
    PROVE  AllBehind(Append(s, a), kind)
  BY Kept

\* What a client says comes behind the rest.
LEMMA SaysMore ==
    ASSUME TypeOK, Held, NEW c \in Dashboards, NEW i \in Ids, NEW m \in LinkType, NEW s \in Upward,
           SaysStep(c, i, m, s)
    PROVE  /\ links[i].who = c /\ links[i].open /\ m.who = c /\ m.open /\ i = client[c].link
           /\ m.slot = links[i].slot /\ m.cut = links[i].cut /\ m.upward = Append(links[i].upward, s)
           /\ m.listed = links[i].listed /\ m.early = links[i].early /\ m.downward = links[i].downward
           /\ links[i].upward \in Seq(Upward)
           /\ links'[i] = m /\ \A j \in Ids : j # i => links'[j] = links[j]
           /\ \A j \in Ids : j # i /\ links[j].open => links[j].who \in Dashboards /\ links[j].who # c
  <1>1. i = client[c].link /\ i # NoLink
    BY LinkNumbers DEF SaysStep
  <1>2. links[i].who = c /\ links[i].open
    BY <1>1 DEF Held, Holders
  <1>3. links'[i] = m /\ \A j \in Ids : j # i => links'[j] = links[j]
    BY DEF SaysStep, Turned
  <1>4. \A j \in Ids : j # i /\ links[j].open => links[j].who \in Dashboards /\ links[j].who # c
    BY <1>1 DEF Held, OpenOnes
  <1>5. links[i].upward \in Seq(Upward)
    BY LinkFields DEF TypeOK, LinksType
  <1>6. /\ m.who = links[i].who /\ (m.open <=> links[i].open)
        /\ m.slot = links[i].slot /\ m.cut = links[i].cut /\ m.upward = Append(links[i].upward, s)
        /\ m.listed = links[i].listed /\ m.early = links[i].early /\ m.downward = links[i].downward
    BY DEF SaysStep, Is
  <1> QED BY <1>1, <1>2, <1>3, <1>4, <1>5, <1>6

\* What a client has taken changes nothing of what goes up.
LEMMA ReceiveKeeps ==
    ASSUME TypeOK, Held, NEW c \in Dashboards, NEW i \in Ids, NEW m \in LinkType, NEW x \in ClientType,
           ReceiveStep(c, i, m, x)
    PROVE  /\ \A j \in Ids : /\ links'[j].who = links[j].who /\ links'[j].slot = links[j].slot
                             /\ links'[j].open = links[j].open /\ links'[j].cut = links[j].cut
                             /\ links'[j].upward = links[j].upward
           /\ \A d \in Dashboards : /\ client'[d].run = client[d].run /\ client'[d].link = client[d].link
                                    /\ host'[d].edit = host[d].edit
           /\ ServerSame
  <1>1. links'[i] = m /\ \A j \in Ids : j # i => links'[j] = links[j]
    BY DEF ReceiveStep, Turned
  <1>2. /\ m.who = links[i].who /\ m.slot = links[i].slot /\ m.open = links[i].open
        /\ m.cut = links[i].cut /\ m.upward = links[i].upward
    BY DEF ReceiveStep, Is
  <1>3. /\ client'[c] = x /\ x.run = client[c].run /\ x.link = client[c].link
        /\ \A d \in Dashboards : d # c => client'[d] = client[d]
    BY DEF ReceiveStep, Changed, Takes
  <1>4. UNCHANGED host \/ \E h \in HostType : Shows(c, h) /\ h.edit = host[c].edit
    BY DEF ReceiveStep
  <1>5. \A d \in Dashboards : host'[d].edit = host[d].edit
    BY <1>4 DEF Shows
  <1>6. ServerSame
    BY DEF ReceiveStep
  <1> QED BY <1>1, <1>2, <1>3, <1>5, <1>6

-----------------------------------------------------------------------------
(* What each step does to what comes down a connection *)

\* What brings a client to v is under way to it.
ToldBy(l, k, v) == Brings(k.phase, k.told, l.downward, v)

LEMMA AtRest ==
    ASSUME NEW l, NEW k, NEW v, l.downward = <<>>, k.phase = "descriptors", v = NoValue => k.told = NoValue
    PROVE  ToldBy(l, k, v)
  <1>1. Brings("descriptors", k.told, <<>>, v)
    BY BringsAtRest
  <1> QED BY <1>1 DEF ToldBy

LEMMA ToldMore ==
    ASSUME NEW l \in LinkType, NEW k, NEW v, NEW us \in Seq(Updates), NEW w \in Nat, ToldBy(l, k, v),
           us # <<>>, us[Len(us)].value = w, w > 0, NEW m, m.downward = l.downward \o us
    PROVE  ToldBy(m, k, w)
  <1>1. l.downward \in Seq(Downward)
    BY LinkFields
  <1> QED BY <1>1, BringsMore DEF ToldBy

LEMMA OneUpdate ==
    ASSUME NEW v \in Nat
    PROVE  <<Update(v)>> \in Seq(Updates) /\ <<Update(v)>> # <<>> /\ <<Update(v)>>[Len(<<Update(v)>>)].value = v
  <1>1. Update(v) \in Updates
    BY Kinds
  <1>2. <<Update(v)>> \in Seq(Updates)
    BY <1>1, OneInSeq
  <1>3. <<Update(v)>> # <<>> /\ Len(<<Update(v)>>) = 1 /\ <<Update(v)>>[1] = Update(v)
    OBVIOUS
  <1>4. Update(v).value = v
    BY DEF Update
  <1> QED BY <1>2, <1>3, <1>4

LEMMA ToldOne ==
    ASSUME NEW l \in LinkType, NEW k, NEW v, ToldBy(l, k, v), NEW w \in Nat, w > 0,
           NEW m, m.downward = l.downward \o <<Update(w)>>
    PROVE  ToldBy(m, k, w)
  <1> DEFINE us == <<Update(w)>>
  <1>1. us \in Seq(Updates) /\ us # <<>> /\ us[Len(us)].value = w
    BY OneUpdate
  <1>2. m.downward = l.downward \o us
    OBVIOUS
  <1> HIDE DEF us
  <1> QED BY <1>1, <1>2, ToldMore

Spell(a, b, v, d) == <<a, b>> \o v \o <<d>>

\* Three messages around others.
Spells(t, a, b, v, d) ==
    /\ Len(t) = Len(v) + 3 /\ t[1] = a /\ t[2] = b /\ t[Len(v) + 3] = d
    /\ \A n \in 1 .. Len(v) : t[n + 2] = v[n]

LEMMA Spelled ==
    ASSUME NEW a \in Downward, NEW b \in Downward, NEW v \in Seq(Downward), NEW d \in Downward
    PROVE  Spells(Spell(a, b, v, d), a, b, v, d)
  <1>1. <<a, b>> \in Seq(Downward) /\ <<d>> \in Seq(Downward) /\ Len(<<a, b>>) = 2 /\ Len(<<d>>) = 1 /\ Len(v) \in Nat
        /\ <<a, b>>[1] = a /\ <<a, b>>[2] = b /\ <<d>>[1] = d
    OBVIOUS
  <1> DEFINE t == Spell(a, b, v, d)
             p == <<a, b>>
             q == <<d>>
             r == p \o v
  <1>2. p \in Seq(Downward) /\ q \in Seq(Downward) /\ Len(p) = 2 /\ Len(q) = 1 /\ p[1] = a /\ p[2] = b /\ q[1] = d
    BY <1>1
  <1>3. t = r \o q
    BY DEF Spell
  <1> HIDE DEF p, q, t
  <1>4. r \in Seq(Downward) /\ Len(r) = Len(v) + 2
        /\ \A i \in 1 .. Len(v) + 2 : r[i] = IF i <= 2 THEN p[i] ELSE v[i - 2]
    <2>1. r \in Seq(Downward) /\ Len(r) = Len(p) + Len(v)
          /\ \A i \in 1 .. Len(p) + Len(v) : r[i] = IF i <= Len(p) THEN p[i] ELSE v[i - Len(p)]
      BY <1>2, ConcatProperties
    <2>2. Len(p) = 2 /\ Len(p) + Len(v) = Len(v) + 2
      BY <1>1, <1>2
    <2> QED BY <2>1, <2>2
  <1> HIDE DEF r
  <1>5. Len(t) = Len(v) + 3
        /\ \A i \in 1 .. Len(v) + 3 : t[i] = IF i <= Len(v) + 2 THEN r[i] ELSE q[i - (Len(v) + 2)]
    <2>1. Len(t) = Len(r) + Len(q)
          /\ \A i \in 1 .. Len(r) + Len(q) : t[i] = IF i <= Len(r) THEN r[i] ELSE q[i - Len(r)]
      BY <1>2, <1>3, <1>4, ConcatProperties
    <2>2. Len(r) = Len(v) + 2 /\ Len(r) + Len(q) = Len(v) + 3
      BY <1>1, <1>2, <1>4
    <2> QED BY <2>1, <2>2
  <1>6. t[1] = a /\ t[2] = b
    BY <1>1, <1>2, <1>4, <1>5
  <1>7. t[Len(v) + 3] = d
    <2>1. Len(v) + 3 \in 1 .. Len(v) + 3 /\ ~(Len(v) + 3 <= Len(v) + 2) /\ Len(v) + 3 - (Len(v) + 2) = 1
      BY <1>1
    <2> QED BY <1>2, <1>5, <2>1
  <1>8. ASSUME NEW n \in 1 .. Len(v) PROVE t[n + 2] = v[n]
    <2>1. n + 2 \in 1 .. Len(v) + 3 /\ n + 2 \in 1 .. Len(v) + 2 /\ n + 2 <= Len(v) + 2 /\ ~(n + 2 <= 2)
          /\ (n + 2) - 2 = n
      BY <1>1
    <2> QED BY <1>4, <1>5, <2>1
  <1> QED BY <1>5, <1>6, <1>7, <1>8 DEF t, Spells

LEMMA SnapshotOf ==
    ASSUME latest \in Nat
    PROVE  IsSnapshot(Snapshot, latest)
  <1>1. /\ \A k : Marker(k).kind = k
        /\ Update(latest).kind = "update" /\ Update(latest).value = latest
    BY DEF Marker, Update
  <1>2. Marker("snapshot begin") \in Downward /\ Marker("state begin") \in Downward /\ Marker("live begin") \in Downward
    BY Kinds
  <1> DEFINE begin == Marker("snapshot begin")
             state == Marker("state begin")
             live == Marker("live begin")
  <1>3. begin \in Downward /\ state \in Downward /\ live \in Downward
        /\ begin.kind = "snapshot begin" /\ state.kind = "state begin" /\ live.kind = "live begin"
    BY <1>1, <1>2
  <1>4. CASE latest = NoValue
    <2> DEFINE mid == <<>>
    <2>1. Snapshot = Spell(begin, state, mid, live)
      BY <1>4 DEF Snapshot, Spell
    <2>2. mid \in Seq(Downward) /\ Len(mid) = 0
      BY EmptySeq
    <2> HIDE DEF begin, state, live, mid
    <2>3. Len(Snapshot) = Len(mid) + 3 /\ Snapshot[1] = begin /\ Snapshot[2] = state /\ Snapshot[Len(mid) + 3] = live
      <3>1. begin \in Downward /\ state \in Downward /\ live \in Downward
        BY <1>3
      <3>2. Spells(Spell(begin, state, mid, live), begin, state, mid, live)
        BY <2>2, <3>1, Spelled
      <3> QED BY <2>1, <3>2 DEF Spells
    <2>4. Len(Snapshot) = 3 /\ Snapshot[3] = live
      BY <2>2, <2>3
    <2> QED BY <1>3, <1>4, <2>3, <2>4 DEF IsSnapshot
  <1>5. CASE latest # NoValue
    <2> DEFINE upd == Update(latest)
               mid == <<upd>>
    <2>1. Snapshot = Spell(begin, state, mid, live)
      BY <1>5 DEF Snapshot, Spell
    <2>2. upd \in Downward /\ upd.kind = "update" /\ upd.value = latest
      BY <1>1, Kinds
    <2> HIDE DEF begin, state, live, upd
    <2>3. mid \in Seq(Downward) /\ Len(mid) = 1 /\ mid[1] = upd
      BY <2>2
    <2> HIDE DEF mid
    <2>4. Len(Snapshot) = Len(mid) + 3 /\ Snapshot[1] = begin /\ Snapshot[2] = state /\ Snapshot[Len(mid) + 3] = live
          /\ \A n \in 1 .. Len(mid) : Snapshot[n + 2] = mid[n]
      <3>1. begin \in Downward /\ state \in Downward /\ live \in Downward
        BY <1>3
      <3>2. Spells(Spell(begin, state, mid, live), begin, state, mid, live)
        BY <2>3, <3>1, Spelled
      <3> QED BY <2>1, <3>2 DEF Spells
    <2>5. Len(Snapshot) = 4 /\ Snapshot[4] = live /\ Snapshot[3] = upd
      <3>1. 1 \in 1 .. Len(mid) /\ 1 + 2 = 3 /\ Len(mid) + 3 = 4
        BY <2>3
      <3> QED BY <2>3, <2>4, <3>1
    <2> QED BY <1>3, <1>5, <2>2, <2>4, <2>5 DEF IsSnapshot
  <1> QED BY <1>4, <1>5

LEMMA ToldAgain ==
    ASSUME NEW l \in LinkType, NEW k, latest \in Nat, ToldBy(l, k, latest), NEW m,
           m.downward = l.downward \o Snapshot
    PROVE  ToldBy(m, k, latest)
  <1>1. l.downward \in Seq(Downward) /\ Snapshot \in Seq(Downward)
    BY LinkFields, SnapshotType
  <1> QED BY <1>1, SnapshotOf, BringsSnapshot DEF ToldBy

\* A connection that begins to be good has told its client nothing.
LEMMA UnheardIsTold ==
    ASSUME Fresh, NEW i \in Ids, Unheard(links[i]), links[i].open
    PROVE  ToldBy(links[i], client[links[i].who], latest)
  <1>1. links[i].downward = <<>>
    BY DEF Fresh, NothingYet
  <1>2. client[links[i].who].phase = "descriptors" /\ client[links[i].who].told = NoValue
    BY DEF Fresh, StillBlank
  <1> QED BY <1>1, <1>2, AtRest

\* Each step leaves a connection with the client that holds it.
LEMMA HeldStep ==
    ASSUME TypeOK, Held, Slots, [Next]_vars
    PROVE  Blanks' /\ OpenOnes' /\ Holders'
  <1>a. \A j \in Ids : links[j] \in LinkType
    BY DEF TypeOK, LinksType
  <1>b. Blanks /\ OpenOnes /\ Holders /\ Nobody \notin Dashboards /\ NoLink \notin Ids
    BY TcpAssumption, LinkNumbers DEF Held
  <1>c. \A d \in Dashboards : client[d] \in ClientType /\ client[d].link \in Ids \cup {NoLink}
    BY LinkNumbers DEF TypeOK, ClientsType, ClientType
  <1>d. \A j \in Ids : links'[j] \in LinkType
    BY TypesStep DEF TypeOK, LinksType
  <1>1. CASE UNCHANGED vars
    BY <1>1, <1>a, <1>b, <1>c, Blank DEF vars, server, bounds, history, Blanks, OpenOnes,
       Holders
  <1>2. ASSUME NEW i \in Ids, NEW m \in LinkType, AcceptStep(i, m) PROVE Blanks' /\ OpenOnes' /\ Holders'
    <2>1. Blanks'
      BY <1>2, <1>a, <1>b, <1>c, Blank DEF AcceptStep, Turned, DashboardsSame, Is, Blanks,
         Blanks, OpenOnes, Holders
    <2>2. OpenOnes'
      BY <1>2, <1>a, <1>b, <1>c, Blank DEF AcceptStep, Turned, DashboardsSame, Is, OpenOnes,
         Blanks, OpenOnes, Holders
    <2>3. Holders'
      BY <1>2, <1>a, <1>b, <1>c, Blank DEF AcceptStep, Turned, DashboardsSame, Is, Holders,
         Blanks, OpenOnes, Holders
    <2> QED BY <2>1, <2>2, <2>3
  <1>3. ASSUME NEW i \in Ids, NEW m \in LinkType, ListSlotStep(i, m) PROVE Blanks' /\ OpenOnes' /\ Holders'
    <2>1. Blanks'
      <3>1. links[i].slot \in {"accepted", "serving", "dead"}
        BY <1>3, LinkNumbers DEF ListSlotStep, Turned, Slots, Accepting
      <3>2. links[i].who # Nobody
        BY <1>3, <3>1, <1>b, Blank DEF Blanks, Is, ListSlotStep, Turned
      <3> QED BY <1>3, <1>b, <3>2 DEF ListSlotStep, Turned, DashboardsSame, Is, Blanks
    <2>2. OpenOnes'
      BY <1>3, <1>a, <1>b, <1>c, Blank DEF ListSlotStep, Turned, DashboardsSame, Is, OpenOnes,
         Blanks, OpenOnes, Holders
    <2>3. Holders'
      BY <1>3, <1>a, <1>b, <1>c, Blank DEF ListSlotStep, Turned, DashboardsSame, Is, Holders,
         Blanks, OpenOnes, Holders
    <2> QED BY <2>1, <2>2, <2>3
  <1>4. ASSUME NEW i \in Ids, NEW m \in LinkType, GreetStep(i, m) PROVE Blanks' /\ OpenOnes' /\ Holders'
    <2>1. Blanks'
      BY <1>4, <1>a, <1>b, <1>c, Blank DEF GreetStep, Turned, DashboardsSame, Is, Blanks,
         Blanks, OpenOnes, Holders
    <2>2. OpenOnes'
      BY <1>4, <1>a, <1>b, <1>c, Blank DEF GreetStep, Turned, DashboardsSame, Is, OpenOnes,
         Blanks, OpenOnes, Holders
    <2>3. Holders'
      BY <1>4, <1>a, <1>b, <1>c, Blank DEF GreetStep, Turned, DashboardsSame, Is, Holders,
         Blanks, OpenOnes, Holders
    <2> QED BY <2>1, <2>2, <2>3
  <1>5. ASSUME NEW i \in Ids, NEW m \in LinkType, RefuseStep(i, m) PROVE Blanks' /\ OpenOnes' /\ Holders'
    <2>1. Blanks'
      BY <1>5, <1>a, <1>b, <1>c, Blank DEF RefuseStep, Turned, DashboardsSame, ServerSame, Is,
         Blanks, Blanks, OpenOnes, Holders
    <2>2. OpenOnes'
      BY <1>5, <1>a, <1>b, <1>c, Blank DEF RefuseStep, Turned, DashboardsSame, ServerSame, Is,
         OpenOnes, Blanks, OpenOnes, Holders
    <2>3. Holders'
      BY <1>5, <1>a, <1>b, <1>c, Blank DEF RefuseStep, Turned, DashboardsSame, ServerSame, Is,
         Holders
    <2> QED BY <2>1, <2>2, <2>3
  <1>6. ASSUME NEW i \in Ids, NEW m \in LinkType, ClientGoneStep(i, m) PROVE Blanks' /\ OpenOnes' /\ Holders'
    <2>1. Blanks'
      BY <1>6, <1>a, <1>b, <1>c, Blank DEF ClientGoneStep, Turned, DashboardsSame, ServerSame,
         Alive, Is, Blanks, OpenOnes, Holders
    <2>2. OpenOnes'
      BY <1>6, <1>a, <1>b, <1>c, Blank DEF ClientGoneStep, Turned, DashboardsSame, ServerSame,
         Alive, Is, Blanks, OpenOnes, Holders
    <2>3. Holders'
      BY <1>6, <1>a, <1>b, <1>c, Blank DEF ClientGoneStep, Turned, DashboardsSame, ServerSame,
         Alive, Is, Blanks, OpenOnes, Holders
    <2> QED BY <2>1, <2>2, <2>3
  <1>7. ASSUME NEW i \in Ids, NEW m \in LinkType, CutStep(i, m) PROVE Blanks' /\ OpenOnes' /\ Holders'
    <2>1. Blanks'
      BY <1>7, <1>a, <1>b, <1>c, Blank DEF CutStep, Turned, DashboardsSame, ServerSame, Is,
         Blanks, Blanks, OpenOnes, Holders
    <2>2. OpenOnes'
      BY <1>7, <1>a, <1>b, <1>c, Blank DEF CutStep, Turned, DashboardsSame, ServerSame, Is,
         OpenOnes, Blanks, OpenOnes, Holders
    <2>3. Holders'
      <3>1. \A j \in Ids : links'[j].who = links[j].who /\ (links'[j].open <=> links[j].open)
        BY <1>7 DEF CutStep, Turned, Is
      <3>2. UNCHANGED client
        BY <1>7 DEF CutStep, DashboardsSame
      <3>3. \A d \in Dashboards :
              /\ client'[d].link = client[d].link /\ client'[d].run = client[d].run
              /\ client'[d].connected => client'[d].run = "receiving" /\ client'[d].phase # "descriptors"
        BY <3>2, <1>b DEF Holders
      <3> QED BY <3>1, <3>3, <1>c, StaysHeld
    <2> QED BY <2>1, <2>2, <2>3
  <1>8. ASSUME NEW i \in Ids, WriteStep(i) PROVE Blanks' /\ OpenOnes' /\ Holders'
    <2>1. Blanks'
      <3>1. ASSUME NEW j \in Ids, links'[j].who = Nobody PROVE links'[j] = NoConnection
        <4>1. j # i
          BY <1>8, <3>1, <1>b DEF WriteStep, Is
        <4>2. LET k == links[j] IN
              Is(links'[j], k.who, k.slot, k.listed, k.early, k.open, k.cut, k.upward,
                 IF Accepts(i) /\ Listens(k) THEN k.downward \o Written(i) ELSE k.downward)
          BY <1>8, <4>1 DEF WriteStep
        <4>3. links[j].who = Nobody
          BY <3>1, <4>2 DEF Is
        <4>4. LET k == links[j] IN
              Is(links'[j], k.who, k.slot, k.listed, k.early, k.open, k.cut, k.upward,
                 IF Listens(k) THEN (IF Accepts(i) THEN k.downward \o Written(i) ELSE k.downward)
                 ELSE k.downward)
          BY <4>2 DEF Is
        <4>5. links'[j] = links[j]
          BY <4>3, <4>4, <1>d, NobodyListens
        <4> QED BY <4>3, <4>5, <1>b DEF Blanks
      <3> QED BY <3>1 DEF Blanks
    <2>2. OpenOnes'
      BY <1>8, <1>a, <1>b, <1>c, Blank DEF WriteStep, DashboardsSame, Is, OpenOnes, Blanks,
         OpenOnes, Holders
    <2>3. Holders'
      BY <1>8, <1>a, <1>b, <1>c, Blank DEF WriteStep, DashboardsSame, Is, Holders, Blanks,
         OpenOnes, Holders
    <2> QED BY <2>1, <2>2, <2>3
  <1>9. ASSUME PublishStep PROVE Blanks' /\ OpenOnes' /\ Holders'
    <2>1. Blanks'
      <3>1. ASSUME NEW j \in Ids, links'[j].who = Nobody PROVE links'[j] = NoConnection
        <4>1. LET k == links[j] IN
              Is(links'[j], k.who, k.slot, k.listed, k.early, k.open, k.cut, k.upward,
                 IF Listens(k) THEN k.downward \o <<Update(issued + 1)>> ELSE k.downward)
          BY <1>9 DEF PublishStep, SendStep
        <4>2. links[j].who = Nobody
          BY <3>1, <4>1 DEF Is
        <4>3. links'[j] = links[j]
          BY <4>1, <4>2, <1>d, NobodyListens
        <4> QED BY <4>2, <4>3, <1>b DEF Blanks
      <3> QED BY <3>1 DEF Blanks
    <2>2. OpenOnes'
      BY <1>9, <1>a, <1>b, <1>c, Blank DEF PublishStep, SendStep, DashboardsSame, Is,
         OpenOnes, Blanks, OpenOnes, Holders
    <2>3. Holders'
      BY <1>9, <1>a, <1>b, <1>c, Blank DEF PublishStep, SendStep, DashboardsSame, Is, Holders,
         Blanks, OpenOnes, Holders
    <2> QED BY <2>1, <2>2, <2>3
  <1>10. ASSUME SessionStep PROVE Blanks' /\ OpenOnes' /\ Holders'
    <2>1. Blanks'
      <3>1. ASSUME NEW j \in Ids, links'[j].who = Nobody PROVE links'[j] = NoConnection
        <4>1. LET k == links[j] IN
              Is(links'[j], k.who, k.slot, k.listed, k.early, k.open, k.cut, k.upward,
                 IF Listens(k) THEN k.downward \o Snapshot ELSE k.downward)
          BY <1>10 DEF SessionStep, SendStep
        <4>2. links[j].who = Nobody
          BY <3>1, <4>1 DEF Is
        <4>3. links'[j] = links[j]
          BY <4>1, <4>2, <1>d, NobodyListens
        <4> QED BY <4>2, <4>3, <1>b DEF Blanks
      <3> QED BY <3>1 DEF Blanks
    <2>2. OpenOnes'
      BY <1>10, <1>a, <1>b, <1>c, Blank DEF SessionStep, SendStep, DashboardsSame, Is,
         OpenOnes, Blanks, OpenOnes, Holders
    <2>3. Holders'
      BY <1>10, <1>a, <1>b, <1>c, Blank DEF SessionStep, SendStep, DashboardsSame, Is,
         Holders
    <2> QED BY <2>1, <2>2, <2>3
  <1>11. ASSUME StopStep PROVE Blanks' /\ OpenOnes' /\ Holders'
    <2>1. Blanks'
      BY <1>11, <1>a, <1>b, <1>c, Blank DEF StopStep, DashboardsSame, Is, Blanks, Blanks,
         OpenOnes, Holders
    <2>2. OpenOnes'
      BY <1>11, <1>a, <1>b, <1>c, Blank DEF StopStep, DashboardsSame, Is, OpenOnes, Blanks,
         OpenOnes, Holders
    <2>3. Holders'
      BY <1>11, <1>a, <1>b, <1>c, Blank DEF StopStep, DashboardsSame, Is, Holders, Blanks,
         OpenOnes, Holders
    <2> QED BY <2>1, <2>2, <2>3
  <1>12. ASSUME StartStep PROVE Blanks' /\ OpenOnes' /\ Holders'
    <2>1. Blanks'
      BY <1>12, <1>a, <1>b, <1>c, Blank DEF StartStep, DashboardsSame, Is, Blanks, Blanks,
         OpenOnes, Holders
    <2>2. OpenOnes'
      BY <1>12, <1>a, <1>b, <1>c, Blank DEF StartStep, DashboardsSame, Is, OpenOnes, Blanks,
         OpenOnes, Holders
    <2>3. Holders'
      BY <1>12, <1>a, <1>b, <1>c, Blank DEF StartStep, DashboardsSame, Is, Holders, Blanks,
         OpenOnes, Holders
    <2> QED BY <2>1, <2>2, <2>3
  <1>13. ASSUME NEW c \in Dashboards, NEW i \in Ids, NEW m \in LinkType, DialStep(c, i, m) PROVE Blanks' /\ OpenOnes' /\ Holders'
    <2>1. Blanks'
      BY <1>13, <1>a, <1>b, <1>c, Blank DEF DialStep, Turned, Changed, ServerSame, Is, Blanks,
         Blanks, OpenOnes, Holders
    <2>2. OpenOnes'
      BY <1>13, <1>a, <1>b, <1>c, Blank DEF DialStep, Turned, Changed, ServerSame, Is,
         OpenOnes, Blanks, OpenOnes, Holders
    <2>3. Holders'
      BY <1>13, <1>a, <1>b, <1>c, Blank DEF DialStep, Turned, Changed, ServerSame, Is,
         Holders
    <2> QED BY <2>1, <2>2, <2>3
  <1>14. ASSUME NEW c \in Dashboards, NEW i \in Ids, NEW m \in LinkType, HeartbeatStep(c, i, m) PROVE Blanks' /\ OpenOnes' /\ Holders'
    <2>1. Blanks'
      BY <1>14, <1>a, <1>b, <1>c, Blank DEF HeartbeatStep, SaysStep, Turned, DashboardsSame,
         ServerSame, Is, Blanks, OpenOnes, Holders
    <2>2. OpenOnes'
      BY <1>14, <1>a, <1>b, <1>c, Blank DEF HeartbeatStep, SaysStep, Turned, DashboardsSame,
         ServerSame, Is, Blanks, OpenOnes, Holders
    <2>3. Holders'
      BY <1>14, <1>a, <1>b, <1>c, Blank DEF HeartbeatStep, SaysStep, Turned, DashboardsSame,
         ServerSame, Is, Blanks, OpenOnes, Holders
    <2> QED BY <2>1, <2>2, <2>3
  <1>15. ASSUME NEW c \in Dashboards, HelloStep(c) PROVE Blanks' /\ OpenOnes' /\ Holders'
    <2>1. Blanks'
      BY <1>15, <1>a, <1>b, <1>c, Blank DEF HelloStep, SaysStep, Turned, Changed, ServerSame,
         Is, Blanks, OpenOnes, Holders
    <2>2. OpenOnes'
      BY <1>15, <1>a, <1>b, <1>c, Blank DEF HelloStep, SaysStep, Turned, Changed, ServerSame,
         Is, Blanks, OpenOnes, Holders
    <2>3. Holders'
      BY <1>15, <1>a, <1>b, <1>c, Blank DEF HelloStep, SaysStep, Turned, Changed, ServerSame,
         Is, Blanks, OpenOnes, Holders
    <2> QED BY <2>1, <2>2, <2>3
  <1>16. ASSUME NEW c \in Dashboards, StaleStep(c) PROVE Blanks' /\ OpenOnes' /\ Holders'
    <2>1. Blanks'
      BY <1>16, <1>a, <1>b, <1>c, Blank DEF StaleStep, Changed, Shows, ServerSame, Is, Blanks,
         Blanks, OpenOnes, Holders
    <2>2. OpenOnes'
      BY <1>16, <1>a, <1>b, <1>c, Blank DEF StaleStep, Changed, Shows, ServerSame, Is,
         OpenOnes, Blanks, OpenOnes, Holders
    <2>3. Holders'
      BY <1>16, <1>a, <1>b, <1>c, Blank DEF StaleStep, Changed, Shows, ServerSame, Is,
         Holders
    <2> QED BY <2>1, <2>2, <2>3
  <1>17. ASSUME NEW c \in Dashboards, EditStep(c) PROVE Blanks' /\ OpenOnes' /\ Holders'
    <2>1. Blanks'
      BY <1>17, <1>a, <1>b, <1>c, Blank DEF EditStep, SaysStep, Turned, Shows, Is, Blanks,
         Blanks, OpenOnes, Holders
    <2>2. OpenOnes'
      BY <1>17, <1>a, <1>b, <1>c, Blank DEF EditStep, SaysStep, Turned, Shows, Is, OpenOnes,
         Blanks, OpenOnes, Holders
    <2>3. Holders'
      BY <1>17, <1>a, <1>b, <1>c, Blank DEF EditStep, SaysStep, Turned, Shows, Is, Holders,
         Blanks, OpenOnes, Holders
    <2> QED BY <2>1, <2>2, <2>3
  <1>18. ASSUME NEW c \in Dashboards, StateStep(c) PROVE Blanks' /\ OpenOnes' /\ Holders'
    <2>1. Blanks'
      BY <1>18, <1>a, <1>b, <1>c, Blank DEF StateStep, SaysStep, Turned, Shows, Is, Blanks,
         Blanks, OpenOnes, Holders
    <2>2. OpenOnes'
      BY <1>18, <1>a, <1>b, <1>c, Blank DEF StateStep, SaysStep, Turned, Shows, Is, OpenOnes,
         Blanks, OpenOnes, Holders
    <2>3. Holders'
      BY <1>18, <1>a, <1>b, <1>c, Blank DEF StateStep, SaysStep, Turned, Shows, Is, Holders,
         Blanks, OpenOnes, Holders
    <2> QED BY <2>1, <2>2, <2>3
  <1>19. ASSUME NEW c \in Dashboards, LeaveStep(c) PROVE Blanks' /\ OpenOnes' /\ Holders'
    <2>1. Blanks'
      BY <1>19, <1>a, <1>b, <1>c, Blank DEF LeaveStep, Out, Turned, Changed, Shows,
         ServerSame, Is, Blanks, OpenOnes, Holders
    <2>2. OpenOnes'
      BY <1>19, <1>a, <1>b, <1>c, Blank DEF LeaveStep, Out, Turned, Changed, Shows,
         ServerSame, Is, Blanks, OpenOnes, Holders
    <2>3. Holders'
      BY <1>19, <1>a, <1>b, <1>c, Blank DEF LeaveStep, Out, Turned, Changed, Shows,
         ServerSame, Is, Blanks, OpenOnes, Holders
    <2> QED BY <2>1, <2>2, <2>3
  <1>20. ASSUME NEW c \in Dashboards, IdleStep(c) PROVE Blanks' /\ OpenOnes' /\ Holders'
    <2>1. Blanks'
      BY <1>20, <1>a, <1>b, <1>c, Blank DEF IdleStep, Changed, Shows, ServerSame, Is, Blanks,
         Blanks, OpenOnes, Holders
    <2>2. OpenOnes'
      BY <1>20, <1>a, <1>b, <1>c, Blank DEF IdleStep, Changed, Shows, ServerSame, Is,
         OpenOnes, Blanks, OpenOnes, Holders
    <2>3. Holders'
      BY <1>20, <1>a, <1>b, <1>c, Blank DEF IdleStep, Changed, Shows, ServerSame, Is, Holders,
         Blanks, OpenOnes, Holders
    <2> QED BY <2>1, <2>2, <2>3
  <1>21. ASSUME NEW c \in Dashboards, NEW i \in Ids, NEW m \in LinkType, NEW x \in ClientType, ReceiveStep(c, i, m, x) PROVE Blanks' /\ OpenOnes' /\ Holders'
    <2>1. \A j \in Ids : links'[j].who = links[j].who /\ (links'[j].open <=> links[j].open)
      BY <1>21 DEF ReceiveStep, Turned, Is
    <2>2. /\ client'[c] = x /\ x.run = client[c].run /\ x.link = client[c].link
          /\ \A d \in Dashboards : d # c => client'[d] = client[d]
      BY <1>21 DEF ReceiveStep, Changed, Takes
    <2>3. x.connected => client[c].run = "receiving" /\ x.phase # "descriptors"
      <3>1. client[c].run = "receiving" /\ Takes(client[c], Head(links[i].downward), x)
        BY <1>21 DEF ReceiveStep
      <3>2. client[c].connected => client[c].phase # "descriptors"
        BY <1>b DEF Holders
      <3> QED BY <3>1, <3>2 DEF Takes
    <2>4. \A d \in Dashboards :
              /\ client'[d].link = client[d].link /\ client'[d].run = client[d].run
              /\ client'[d].connected => client'[d].run = "receiving" /\ client'[d].phase # "descriptors"
      BY <2>2, <2>3, <1>b DEF Holders
    <2>5. OpenOnes' /\ Holders'
      BY <2>1, <2>4, <1>c, StaysHeld
    <2>6. Blanks'
      <3>1. links[i].downward # <<>>
        BY <1>21 DEF ReceiveStep
      <3>2. links[i].who # Nobody
        BY <1>21, <3>1, <1>b, Blank DEF Blanks, Is, ReceiveStep, Turned
      <3>3. links'[i].who = links[i].who /\ \A j \in Ids : j # i => links'[j] = links[j]
        BY <1>21, <2>1 DEF ReceiveStep, Turned
      <3>4. ASSUME NEW j \in Ids, links'[j].who = Nobody PROVE links'[j] = NoConnection
        <4>1. j # i
          BY <3>2, <3>3, <3>4
        <4> QED BY <4>1, <3>3, <3>4, <1>b DEF Blanks
      <3> QED BY <3>4 DEF Blanks
    <2> QED BY <2>5, <2>6
  <1> QED BY <1>1, <1>2, <1>3, <1>4, <1>5, <1>6, <1>7, <1>8, <1>9, <1>10, <1>11, <1>12, <1>13,
     <1>14, <1>15, <1>16, <1>17, <1>18, <1>19, <1>20, <1>21, StepKinds

\* Each step leaves the slots in order.
LEMMA SlotsStep ==
    ASSUME TypeOK, Held, Slots, Greetings, [Next]_vars
    PROVE  Stopped' /\ Accepting' /\ Unlisted' /\ Ungreeted' /\ Serving'
  <1>a. \A j \in Ids : links[j] \in LinkType
    BY DEF TypeOK, LinksType
  <1>b. NoLink \notin Ids /\ accepting \in Ids \cup {NoLink}
    BY LinkNumbers DEF TypeOK, ServerType
  <1>1. CASE UNCHANGED vars
    BY <1>1, <1>a, <1>b, Blank DEF vars, server, bounds, history, Stopped, Accepting,
       Unlisted, Ungreeted, Serving, Slots
  <1>2. ASSUME NEW i \in Ids, NEW m \in LinkType, AcceptStep(i, m) PROVE Stopped' /\ Accepting' /\ Unlisted' /\ Ungreeted' /\ Serving'
    <2>1. Stopped'
      BY <1>2, <1>a, <1>b, Blank DEF AcceptStep, Turned, DashboardsSame, Is, Stopped, Alive, Slots
    <2>2. Accepting'
      BY <1>2, <1>a, <1>b, Blank DEF AcceptStep, Turned, DashboardsSame, Is, Accepting, Slots
    <2>3. Unlisted'
      BY <1>2, <1>a, <1>b, Blank DEF AcceptStep, Turned, DashboardsSame, Is, Unlisted, Alive, Slots
    <2>4. Ungreeted'
      BY <1>2, <1>a, <1>b, Blank DEF AcceptStep, Turned, DashboardsSame, Is, Ungreeted, Slots
    <2>5. Serving'
      BY <1>2, <1>a, <1>b, Blank DEF AcceptStep, Turned, DashboardsSame, Is, Serving, Slots
    <2> QED BY <2>1, <2>2, <2>3, <2>4, <2>5
  <1>3. ASSUME NEW i \in Ids, NEW m \in LinkType, ListSlotStep(i, m) PROVE Stopped' /\ Accepting' /\ Unlisted' /\ Ungreeted' /\ Serving'
    <2>1. Stopped'
      BY <1>3, <1>a, <1>b, Blank DEF ListSlotStep, Turned, DashboardsSame, Is, Stopped, Alive, Slots
    <2>2. Accepting'
      BY <1>3, <1>a, <1>b, Blank DEF ListSlotStep, Turned, DashboardsSame, Is, Accepting, Slots
    <2>3. Unlisted'
      BY <1>3, <1>a, <1>b, Blank DEF ListSlotStep, Turned, DashboardsSame, Is, Unlisted,
         Alive, Slots
    <2>4. Ungreeted'
      BY <1>3, <1>a, <1>b, Blank DEF ListSlotStep, Turned, DashboardsSame, Is, Ungreeted, Slots
    <2>5. Serving'
      BY <1>3, <1>a, <1>b, Blank DEF ListSlotStep, Turned, DashboardsSame, Is, Serving, Slots
    <2> QED BY <2>1, <2>2, <2>3, <2>4, <2>5
  <1>4. ASSUME NEW i \in Ids, NEW m \in LinkType, GreetStep(i, m) PROVE Stopped' /\ Accepting' /\ Unlisted' /\ Ungreeted' /\ Serving'
    <2>1. Stopped'
      BY <1>4, <1>a, <1>b, Blank DEF GreetStep, Turned, DashboardsSame, Is, Stopped, Alive, Slots
    <2>2. Accepting'
      BY <1>4, <1>a, <1>b, Blank DEF GreetStep, Turned, DashboardsSame, Is, Accepting, Slots
    <2>3. Unlisted'
      BY <1>4, <1>a, <1>b, Blank DEF GreetStep, Turned, DashboardsSame, Is, Unlisted, Alive, Slots
    <2>4. Ungreeted'
      BY <1>4, <1>a, <1>b, Blank DEF GreetStep, Turned, DashboardsSame, Is, Ungreeted, Slots
    <2>5. Serving'
      <3>1. links[i].upward \in Seq(Upward) /\ links[i].upward # <<>>
        BY <1>4, <1>a, LinkFields DEF GreetStep, Turned
      <3>2. links[i].upward[1] = Head(links[i].upward)
        BY <3>1, Removed
      <3>3. AllBehind(links[i].upward, "write")
        BY <1>4, <3>1, <3>2 DEF GreetStep, Greetings, HelloFirst
      <3>4. All(Tail(links[i].upward), "write")
        BY <3>1, <3>3, Kept
      <3>5. m.upward = Tail(links[i].upward) /\ m.who = links[i].who /\ (m.listed \/ m.early)
        BY <1>4, <1>a DEF GreetStep, Is
      <3> QED BY <1>4, <3>4, <3>5 DEF GreetStep, Turned, Slots, Serving
    <2> QED BY <2>1, <2>2, <2>3, <2>4, <2>5
  <1>5. ASSUME NEW i \in Ids, NEW m \in LinkType, RefuseStep(i, m) PROVE Stopped' /\ Accepting' /\ Unlisted' /\ Ungreeted' /\ Serving'
    <2>1. Stopped'
      BY <1>5, <1>a, <1>b, Blank DEF RefuseStep, Turned, DashboardsSame, ServerSame, Is,
         Stopped, Alive, Slots
    <2>2. Accepting'
      BY <1>5, <1>a, <1>b, Blank DEF RefuseStep, Turned, DashboardsSame, ServerSame, Is,
         Accepting, Slots
    <2>3. Unlisted'
      BY <1>5, <1>a, <1>b, Blank DEF RefuseStep, Turned, DashboardsSame, ServerSame, Is,
         Unlisted, Alive, Slots
    <2>4. Ungreeted'
      BY <1>5, <1>a, <1>b, Blank DEF RefuseStep, Turned, DashboardsSame, ServerSame, Is,
         Ungreeted, Slots
    <2>5. Serving'
      BY <1>5, <1>a, <1>b, Blank DEF RefuseStep, Turned, DashboardsSame, ServerSame, Is,
         Serving, Slots
    <2> QED BY <2>1, <2>2, <2>3, <2>4, <2>5
  <1>6. ASSUME NEW i \in Ids, NEW m \in LinkType, ClientGoneStep(i, m) PROVE Stopped' /\ Accepting' /\ Unlisted' /\ Ungreeted' /\ Serving'
    <2>1. Stopped'
      BY <1>6, <1>a, <1>b, Blank DEF ClientGoneStep, Turned, DashboardsSame, ServerSame,
         Alive, Is, Stopped, Alive, Slots
    <2>2. Accepting'
      BY <1>6, <1>a, <1>b, Blank DEF ClientGoneStep, Turned, DashboardsSame, ServerSame,
         Alive, Is, Accepting, Slots
    <2>3. Unlisted'
      BY <1>6, <1>a, <1>b, Blank DEF ClientGoneStep, Turned, DashboardsSame, ServerSame,
         Alive, Is, Unlisted, Alive, Slots
    <2>4. Ungreeted'
      BY <1>6, <1>a, <1>b, Blank DEF ClientGoneStep, Turned, DashboardsSame, ServerSame,
         Alive, Is, Ungreeted, Slots
    <2>5. Serving'
      BY <1>6, <1>a, <1>b, Blank DEF ClientGoneStep, Turned, DashboardsSame, ServerSame,
         Alive, Is, Serving, Slots
    <2> QED BY <2>1, <2>2, <2>3, <2>4, <2>5
  <1>7. ASSUME NEW i \in Ids, NEW m \in LinkType, CutStep(i, m) PROVE Stopped' /\ Accepting' /\ Unlisted' /\ Ungreeted' /\ Serving'
    <2>1. Stopped'
      BY <1>7, <1>a, <1>b, Blank DEF CutStep, Turned, DashboardsSame, ServerSame, Is, Stopped,
         Alive, Slots
    <2>2. Accepting'
      BY <1>7, <1>a, <1>b, Blank DEF CutStep, Turned, DashboardsSame, ServerSame, Is,
         Accepting, Slots
    <2>3. Unlisted'
      BY <1>7, <1>a, <1>b, Blank DEF CutStep, Turned, DashboardsSame, ServerSame, Is,
         Unlisted, Alive, Slots
    <2>4. Ungreeted'
      BY <1>7, <1>a, <1>b, Blank DEF CutStep, Turned, DashboardsSame, ServerSame, Is,
         Ungreeted, Slots
    <2>5. Serving'
      <3>1. /\ m.slot = links[i].slot /\ m.who = links[i].who /\ m.listed = links[i].listed
            /\ m.early = links[i].early /\ m.upward = <<>>
        BY <1>7 DEF CutStep, Is
      <3>2. links'[i] = m /\ (\A j \in Ids : j # i => links'[j] = links[j]) /\ UNCHANGED queues
        BY <1>7 DEF CutStep, Turned, ServerSame
      <3>3. All(m.upward, "write")
        BY <3>1 DEF All
      <3> QED BY <3>1, <3>2, <3>3 DEF Slots, Serving
    <2> QED BY <2>1, <2>2, <2>3, <2>4, <2>5
  <1>8. ASSUME NEW i \in Ids, WriteStep(i) PROVE Stopped' /\ Accepting' /\ Unlisted' /\ Ungreeted' /\ Serving'
    <2>1. Stopped'
      BY <1>8, <1>a, <1>b, Blank DEF WriteStep, DashboardsSame, Is, Stopped, Alive, Slots
    <2>2. Accepting'
      BY <1>8, <1>a, <1>b, Blank DEF WriteStep, DashboardsSame, Is, Accepting, Slots
    <2>3. Unlisted'
      BY <1>8, <1>a, <1>b, Blank DEF WriteStep, DashboardsSame, Is, Unlisted, Alive, Slots
    <2>4. Ungreeted'
      BY <1>8, <1>a, <1>b, Blank DEF WriteStep, DashboardsSame, Is, Ungreeted, Slots
    <2>5. Serving'
      <3>1. links[i].upward \in Seq(Upward) /\ links[i].upward # <<>> /\ links[i].slot = "serving"
        BY <1>8, <1>a, LinkFields DEF WriteStep
      <3>2. All(Tail(links[i].upward), "write")
        BY <3>1, Kept DEF Slots, Serving
      <3>3. links'[i].upward = Tail(links[i].upward) /\ \A j \in Ids : j # i => links'[j].upward = links[j].upward
        BY <1>8 DEF WriteStep, Is
      <3>4. \A j \in Ids : /\ links'[j].who = links[j].who /\ links'[j].slot = links[j].slot
                            /\ links'[j].listed = links[j].listed /\ links'[j].early = links[j].early
        BY <1>8 DEF WriteStep, Is
      <3>5. DOMAIN queues' = DOMAIN queues
        BY <1>8 DEF WriteStep
      <3> QED BY <1>8, <3>2, <3>3, <3>4, <3>5 DEF Slots, Serving
    <2> QED BY <2>1, <2>2, <2>3, <2>4, <2>5
  <1>9. ASSUME PublishStep PROVE Stopped' /\ Accepting' /\ Unlisted' /\ Ungreeted' /\ Serving'
    <2>1. Stopped'
      BY <1>9, <1>a, <1>b, Blank DEF PublishStep, SendStep, DashboardsSame, Is, Stopped,
         Alive, Slots
    <2>2. Accepting'
      BY <1>9, <1>a, <1>b, Blank DEF PublishStep, SendStep, DashboardsSame, Is, Accepting, Slots
    <2>3. Unlisted'
      BY <1>9, <1>a, <1>b, Blank DEF PublishStep, SendStep, DashboardsSame, Is, Unlisted,
         Alive, Slots
    <2>4. Ungreeted'
      BY <1>9, <1>a, <1>b, Blank DEF PublishStep, SendStep, DashboardsSame, Is, Ungreeted, Slots
    <2>5. Serving'
      BY <1>9, <1>a, <1>b, Blank DEF PublishStep, SendStep, DashboardsSame, Is, Serving, Slots
    <2> QED BY <2>1, <2>2, <2>3, <2>4, <2>5
  <1>10. ASSUME SessionStep PROVE Stopped' /\ Accepting' /\ Unlisted' /\ Ungreeted' /\ Serving'
    <2>1. Stopped'
      BY <1>10, <1>a, <1>b, Blank DEF SessionStep, SendStep, DashboardsSame, Is, Stopped,
         Alive, Slots
    <2>2. Accepting'
      BY <1>10, <1>a, <1>b, Blank DEF SessionStep, SendStep, DashboardsSame, Is, Accepting, Slots
    <2>3. Unlisted'
      BY <1>10, <1>a, <1>b, Blank DEF SessionStep, SendStep, DashboardsSame, Is, Unlisted,
         Alive, Slots
    <2>4. Ungreeted'
      BY <1>10, <1>a, <1>b, Blank DEF SessionStep, SendStep, DashboardsSame, Is, Ungreeted, Slots
    <2>5. Serving'
      BY <1>10, <1>a, <1>b, Blank DEF SessionStep, SendStep, DashboardsSame, Is, Serving, Slots
    <2> QED BY <2>1, <2>2, <2>3, <2>4, <2>5
  <1>11. ASSUME StopStep PROVE Stopped' /\ Accepting' /\ Unlisted' /\ Ungreeted' /\ Serving'
    <2>1. Stopped'
      BY <1>11, <1>a, <1>b, Blank DEF StopStep, DashboardsSame, Is, Stopped, Alive, Slots
    <2>2. Accepting'
      BY <1>11, <1>a, <1>b, Blank DEF StopStep, DashboardsSame, Is, Accepting, Slots
    <2>3. Unlisted'
      BY <1>11, <1>a, <1>b, Blank DEF StopStep, DashboardsSame, Is, Unlisted, Alive, Slots
    <2>4. Ungreeted'
      BY <1>11, <1>a, <1>b, Blank DEF StopStep, DashboardsSame, Is, Ungreeted, Slots
    <2>5. Serving'
      BY <1>11, <1>a, <1>b, Blank DEF StopStep, DashboardsSame, Is, Serving, Slots
    <2> QED BY <2>1, <2>2, <2>3, <2>4, <2>5
  <1>12. ASSUME StartStep PROVE Stopped' /\ Accepting' /\ Unlisted' /\ Ungreeted' /\ Serving'
    <2>1. Stopped'
      BY <1>12, <1>a, <1>b, Blank DEF StartStep, DashboardsSame, Is, Stopped, Alive, Slots
    <2>2. Accepting'
      BY <1>12, <1>a, <1>b, Blank DEF StartStep, DashboardsSame, Is, Accepting, Slots
    <2>3. Unlisted'
      BY <1>12, <1>a, <1>b, Blank DEF StartStep, DashboardsSame, Is, Unlisted, Alive, Slots
    <2>4. Ungreeted'
      BY <1>12, <1>a, <1>b, Blank DEF StartStep, DashboardsSame, Is, Ungreeted, Slots
    <2>5. Serving'
      <3>1. \A j \in Ids : links'[j].slot # "serving"
        BY <1>12 DEF StartStep, Slots, Stopped, Alive
      <3> QED BY <3>1 DEF Serving
    <2> QED BY <2>1, <2>2, <2>3, <2>4, <2>5
  <1>13. ASSUME NEW c \in Dashboards, NEW i \in Ids, NEW m \in LinkType, DialStep(c, i, m) PROVE Stopped' /\ Accepting' /\ Unlisted' /\ Ungreeted' /\ Serving'
    <2>1. Stopped'
      BY <1>13, <1>a, <1>b, Blank DEF DialStep, Turned, Changed, ServerSame, Is, Stopped,
         Alive, Slots
    <2>2. Accepting'
      BY <1>13, <1>a, <1>b, Blank DEF DialStep, Turned, Changed, ServerSame, Is, Accepting, Slots
    <2>3. Unlisted'
      BY <1>13, <1>a, <1>b, Blank DEF DialStep, Turned, Changed, ServerSame, Is, Unlisted,
         Alive, Slots
    <2>4. Ungreeted'
      BY <1>13, <1>a, <1>b, Blank DEF DialStep, Turned, Changed, ServerSame, Is, Ungreeted, Slots
    <2>5. Serving'
      BY <1>13, <1>a, <1>b, Blank DEF DialStep, Turned, Changed, ServerSame, Is, Serving, Slots
    <2> QED BY <2>1, <2>2, <2>3, <2>4, <2>5
  <1>14. ASSUME NEW c \in Dashboards, NEW i \in Ids, NEW m \in LinkType, HeartbeatStep(c, i, m) PROVE Stopped' /\ Accepting' /\ Unlisted' /\ Ungreeted' /\ Serving'
    <2>1. Stopped'
      BY <1>14, <1>a, <1>b, Blank DEF HeartbeatStep, SaysStep, Turned, DashboardsSame,
         ServerSame, Is, Stopped, Alive, Slots
    <2>2. Accepting'
      BY <1>14, <1>a, <1>b, Blank DEF HeartbeatStep, SaysStep, Turned, DashboardsSame,
         ServerSame, Is, Accepting, Slots
    <2>3. Unlisted'
      BY <1>14, <1>a, <1>b, Blank DEF HeartbeatStep, SaysStep, Turned, DashboardsSame,
         ServerSame, Is, Unlisted, Alive, Slots
    <2>4. Ungreeted'
      BY <1>14, <1>a, <1>b, Blank DEF HeartbeatStep, SaysStep, Turned, DashboardsSame,
         ServerSame, Is, Ungreeted, Slots
    <2>5. Serving'
      <3>1. links[i].who = c /\ links[i].open /\ client[c].run = "connected"
        BY <1>14, <1>b DEF HeartbeatStep, SaysStep, Turned, Held, Holders
      <3>2. links[i].slot # "serving"
        BY <1>14, <3>1 DEF HeartbeatStep, SaysStep, Turned, Greetings, BeforeHello
      <3>3. m.slot = links[i].slot /\ links'[i] = m /\ \A j \in Ids : j # i => links'[j] = links[j]
        BY <1>14 DEF HeartbeatStep, SaysStep, Turned, Is
      <3>4. UNCHANGED queues
        BY <1>14 DEF HeartbeatStep, ServerSame
      <3> QED BY <3>2, <3>3, <3>4 DEF Slots, Serving
    <2> QED BY <2>1, <2>2, <2>3, <2>4, <2>5
  <1>15. ASSUME NEW c \in Dashboards, HelloStep(c) PROVE Stopped' /\ Accepting' /\ Unlisted' /\ Ungreeted' /\ Serving'
    <2>1. Stopped'
      BY <1>15, <1>a, <1>b, Blank DEF HelloStep, SaysStep, Turned, Changed, ServerSame, Is,
         Stopped, Alive, Slots
    <2>2. Accepting'
      BY <1>15, <1>a, <1>b, Blank DEF HelloStep, SaysStep, Turned, Changed, ServerSame, Is,
         Accepting, Slots
    <2>3. Unlisted'
      BY <1>15, <1>a, <1>b, Blank DEF HelloStep, SaysStep, Turned, Changed, ServerSame, Is,
         Unlisted, Alive, Slots
    <2>4. Ungreeted'
      BY <1>15, <1>a, <1>b, Blank DEF HelloStep, SaysStep, Turned, Changed, ServerSame, Is,
         Ungreeted, Slots
    <2>5. Serving'
      <3>0. UNCHANGED queues
        BY <1>15 DEF HelloStep, ServerSame
      <3>1. CASE links' = links
        BY <3>0, <3>1 DEF Slots, Serving
      <3>2. ASSUME NEW i \in Ids, NEW m \in LinkType, SaysStep(c, i, m, Marker("hello")) PROVE Serving'
        <4>1. links[i].who = c /\ links[i].open /\ client[c].run = "connected"
          BY <1>15, <3>2, <1>b DEF HelloStep, SaysStep, Turned, Held, Holders
        <4>2. links[i].slot # "serving"
          BY <3>2, <4>1 DEF SaysStep, Turned, Greetings, BeforeHello
        <4>3. m.slot = links[i].slot /\ links'[i] = m /\ \A j \in Ids : j # i => links'[j] = links[j]
          BY <3>2 DEF SaysStep, Turned, Is
        <4> QED BY <3>0, <4>2, <4>3 DEF Slots, Serving
      <3> QED BY <1>15, <3>1, <3>2 DEF HelloStep
    <2> QED BY <2>1, <2>2, <2>3, <2>4, <2>5
  <1>16. ASSUME NEW c \in Dashboards, StaleStep(c) PROVE Stopped' /\ Accepting' /\ Unlisted' /\ Ungreeted' /\ Serving'
    <2>1. Stopped'
      BY <1>16, <1>a, <1>b, Blank DEF StaleStep, Changed, Shows, ServerSame, Is, Stopped,
         Alive, Slots
    <2>2. Accepting'
      BY <1>16, <1>a, <1>b, Blank DEF StaleStep, Changed, Shows, ServerSame, Is, Accepting, Slots
    <2>3. Unlisted'
      BY <1>16, <1>a, <1>b, Blank DEF StaleStep, Changed, Shows, ServerSame, Is, Unlisted,
         Alive, Slots
    <2>4. Ungreeted'
      BY <1>16, <1>a, <1>b, Blank DEF StaleStep, Changed, Shows, ServerSame, Is, Ungreeted, Slots
    <2>5. Serving'
      BY <1>16, <1>a, <1>b, Blank DEF StaleStep, Changed, Shows, ServerSame, Is, Serving, Slots
    <2> QED BY <2>1, <2>2, <2>3, <2>4, <2>5
  <1>17. ASSUME NEW c \in Dashboards, EditStep(c) PROVE Stopped' /\ Accepting' /\ Unlisted' /\ Ungreeted' /\ Serving'
    <2>1. Stopped'
      BY <1>17, <1>a, <1>b, Blank DEF EditStep, SaysStep, Turned, Shows, Is, Stopped, Alive, Slots
    <2>2. Accepting'
      BY <1>17, <1>a, <1>b, Blank DEF EditStep, SaysStep, Turned, Shows, Is, Accepting, Slots
    <2>3. Unlisted'
      BY <1>17, <1>a, <1>b, Blank DEF EditStep, SaysStep, Turned, Shows, Is, Unlisted, Alive, Slots
    <2>4. Ungreeted'
      BY <1>17, <1>a, <1>b, Blank DEF EditStep, SaysStep, Turned, Shows, Is, Ungreeted, Slots
    <2>5. Serving'
      <3>0. UNCHANGED queues
        BY <1>17 DEF EditStep
      <3>1. CASE links' = links
        BY <3>0, <3>1 DEF Slots, Serving
      <3>2. ASSUME NEW i \in Ids, NEW m \in LinkType, SaysStep(c, i, m, Write(issued + 1)) PROVE Serving'
        <4>1. Is(m, links[i].who, links[i].slot, links[i].listed, links[i].early, links[i].open, links[i].cut,
                 Append(links[i].upward, Write(issued + 1)), links[i].downward)
          BY <3>2 DEF SaysStep
        <4>2. links[i].upward \in Seq(Upward) /\ Write(issued + 1) \in Upward /\ Write(issued + 1).kind = "write"
          BY <3>2, <1>a, LinkFields DEF SaysStep, Turned, Write
        <4>3. All(links[i].upward, "write") => All(m.upward, "write")
          BY <4>1, <4>2, Kept DEF Is
        <4>4. /\ m.slot = links[i].slot /\ m.who = links[i].who /\ m.listed = links[i].listed
              /\ m.early = links[i].early
          BY <4>1 DEF Is
        <4>5. links'[i] = m /\ \A j \in Ids : j # i => links'[j] = links[j]
          BY <3>2 DEF SaysStep, Turned
        <4> QED BY <3>0, <4>3, <4>4, <4>5 DEF Slots, Serving
      <3> QED BY <1>17, <3>1, <3>2 DEF EditStep
    <2> QED BY <2>1, <2>2, <2>3, <2>4, <2>5
  <1>18. ASSUME NEW c \in Dashboards, StateStep(c) PROVE Stopped' /\ Accepting' /\ Unlisted' /\ Ungreeted' /\ Serving'
    <2>1. Stopped'
      BY <1>18, <1>a, <1>b, Blank DEF StateStep, SaysStep, Turned, Shows, Is, Stopped, Alive, Slots
    <2>2. Accepting'
      BY <1>18, <1>a, <1>b, Blank DEF StateStep, SaysStep, Turned, Shows, Is, Accepting, Slots
    <2>3. Unlisted'
      BY <1>18, <1>a, <1>b, Blank DEF StateStep, SaysStep, Turned, Shows, Is, Unlisted, Alive, Slots
    <2>4. Ungreeted'
      BY <1>18, <1>a, <1>b, Blank DEF StateStep, SaysStep, Turned, Shows, Is, Ungreeted, Slots
    <2>5. Serving'
      <3>0. UNCHANGED queues
        BY <1>18 DEF StateStep
      <3>1. CASE links' = links
        BY <3>0, <3>1 DEF Slots, Serving
      <3>2. ASSUME NEW i \in Ids, NEW m \in LinkType, SaysStep(c, i, m, Write(host[c].edit)) PROVE Serving'
        <4>1. Is(m, links[i].who, links[i].slot, links[i].listed, links[i].early, links[i].open, links[i].cut,
                 Append(links[i].upward, Write(host[c].edit)), links[i].downward)
          BY <3>2 DEF SaysStep
        <4>2. links[i].upward \in Seq(Upward) /\ Write(host[c].edit) \in Upward /\ Write(host[c].edit).kind = "write"
          BY <3>2, <1>a, LinkFields DEF SaysStep, Turned, Write
        <4>3. All(links[i].upward, "write") => All(m.upward, "write")
          BY <4>1, <4>2, Kept DEF Is
        <4>4. /\ m.slot = links[i].slot /\ m.who = links[i].who /\ m.listed = links[i].listed
              /\ m.early = links[i].early
          BY <4>1 DEF Is
        <4>5. links'[i] = m /\ \A j \in Ids : j # i => links'[j] = links[j]
          BY <3>2 DEF SaysStep, Turned
        <4> QED BY <3>0, <4>3, <4>4, <4>5 DEF Slots, Serving
      <3> QED BY <1>18, <3>1, <3>2 DEF StateStep
    <2> QED BY <2>1, <2>2, <2>3, <2>4, <2>5
  <1>19. ASSUME NEW c \in Dashboards, LeaveStep(c) PROVE Stopped' /\ Accepting' /\ Unlisted' /\ Ungreeted' /\ Serving'
    <2>1. Stopped'
      BY <1>19, <1>a, <1>b, Blank DEF LeaveStep, Out, Turned, Changed, Shows, ServerSame, Is,
         Stopped, Alive, Slots
    <2>2. Accepting'
      BY <1>19, <1>a, <1>b, Blank DEF LeaveStep, Out, Turned, Changed, Shows, ServerSame, Is,
         Accepting, Slots
    <2>3. Unlisted'
      BY <1>19, <1>a, <1>b, Blank DEF LeaveStep, Out, Turned, Changed, Shows, ServerSame, Is,
         Unlisted, Alive, Slots
    <2>4. Ungreeted'
      BY <1>19, <1>a, <1>b, Blank DEF LeaveStep, Out, Turned, Changed, Shows, ServerSame, Is,
         Ungreeted, Slots
    <2>5. Serving'
      BY <1>19, <1>a, <1>b, Blank DEF LeaveStep, Out, Turned, Changed, Shows, ServerSame, Is,
         Serving, Slots
    <2> QED BY <2>1, <2>2, <2>3, <2>4, <2>5
  <1>20. ASSUME NEW c \in Dashboards, IdleStep(c) PROVE Stopped' /\ Accepting' /\ Unlisted' /\ Ungreeted' /\ Serving'
    <2>1. Stopped'
      BY <1>20, <1>a, <1>b, Blank DEF IdleStep, Changed, Shows, ServerSame, Is, Stopped,
         Alive, Slots
    <2>2. Accepting'
      BY <1>20, <1>a, <1>b, Blank DEF IdleStep, Changed, Shows, ServerSame, Is, Accepting, Slots
    <2>3. Unlisted'
      BY <1>20, <1>a, <1>b, Blank DEF IdleStep, Changed, Shows, ServerSame, Is, Unlisted,
         Alive, Slots
    <2>4. Ungreeted'
      BY <1>20, <1>a, <1>b, Blank DEF IdleStep, Changed, Shows, ServerSame, Is, Ungreeted, Slots
    <2>5. Serving'
      BY <1>20, <1>a, <1>b, Blank DEF IdleStep, Changed, Shows, ServerSame, Is, Serving, Slots
    <2> QED BY <2>1, <2>2, <2>3, <2>4, <2>5
  <1>21. ASSUME NEW c \in Dashboards, NEW i \in Ids, NEW m \in LinkType, NEW x \in ClientType, ReceiveStep(c, i, m, x) PROVE Stopped' /\ Accepting' /\ Unlisted' /\ Ungreeted' /\ Serving'
    <2>a. /\ m.slot = links[i].slot /\ m.who = links[i].who /\ m.listed = links[i].listed
          /\ m.early = links[i].early /\ m.open = links[i].open /\ m.cut = links[i].cut
          /\ m.upward = links[i].upward
      BY <1>21 DEF ReceiveStep, Is
    <2>b. links'[i] = m /\ \A j \in Ids : j # i => links'[j] = links[j]
      BY <1>21 DEF ReceiveStep, Turned
    <2>c. UNCHANGED <<up, accepting, queues>>
      BY <1>21 DEF ReceiveStep, ServerSame
    <2>1. Stopped'
      BY <2>a, <2>b, <2>c DEF Slots, Stopped, Alive
    <2>2. Accepting'
      BY <2>a, <2>b, <2>c, <1>b DEF Slots, Accepting
    <2>3. Unlisted'
      BY <2>a, <2>b, <2>c, <1>b DEF Slots, Unlisted, Alive
    <2>4. Ungreeted'
      BY <2>a, <2>b, <2>c DEF Slots, Ungreeted
    <2>5. Serving'
      BY <2>a, <2>b, <2>c DEF Slots, Serving
    <2> QED BY <2>1, <2>2, <2>3, <2>4, <2>5
  <1> QED BY <1>1, <1>2, <1>3, <1>4, <1>5, <1>6, <1>7, <1>8, <1>9, <1>10, <1>11, <1>12, <1>13,
     <1>14, <1>15, <1>16, <1>17, <1>18, <1>19, <1>20, <1>21, StepKinds

\* Each step leaves a client that has heard nothing as it began.
LEMMA FreshStep ==
    ASSUME TypeOK, Held, Slots, Fresh, [Next]_vars
    PROVE  NothingYet' /\ StillBlank' /\ DialsBlank'
  <1>a. \A j \in Ids : links[j] \in LinkType
    BY DEF TypeOK, LinksType
  <1>b. NoLink \notin Ids /\ accepting \in Ids \cup {NoLink} /\ Nobody \notin Dashboards
    BY LinkNumbers, TcpAssumption DEF TypeOK, ServerType
  <1>c. \A d \in Dashboards : client[d] \in ClientType /\ client[d].link \in Ids \cup {NoLink}
    BY LinkNumbers DEF TypeOK, ClientsType, ClientType
  <1>1. CASE UNCHANGED vars
    BY <1>1, <1>a, <1>b, <1>c, Blank DEF vars, server, bounds, history, Unheard, NothingYet,
       StillBlank, DialsBlank, Fresh, Held, OpenOnes, Holders
  <1>2. ASSUME NEW i \in Ids, NEW m \in LinkType, AcceptStep(i, m) PROVE NothingYet' /\ StillBlank' /\ DialsBlank'
    <2>1. NothingYet'
      BY <1>2, <1>a, <1>b, <1>c, Blank DEF AcceptStep, Turned, DashboardsSame, Is, NothingYet,
         Unheard, Alive, Listens, Fresh, Held, OpenOnes, Holders
    <2>2. StillBlank'
      BY <1>2, <1>a, <1>b, <1>c, Blank DEF AcceptStep, Turned, DashboardsSame, Is, StillBlank,
         Unheard, Fresh, Held, OpenOnes, Holders
    <2>3. DialsBlank'
      BY <1>2, <1>a, <1>b, <1>c, Blank DEF AcceptStep, Turned, DashboardsSame, Is, DialsBlank,
         Fresh, Held, OpenOnes, Holders
    <2> QED BY <2>1, <2>2, <2>3
  <1>3. ASSUME NEW i \in Ids, NEW m \in LinkType, ListSlotStep(i, m) PROVE NothingYet' /\ StillBlank' /\ DialsBlank'
    <2>1. NothingYet'
      BY <1>3, <1>a, <1>b, <1>c, Blank DEF ListSlotStep, Turned, DashboardsSame, Is,
         NothingYet, Unheard, Alive, Listens, Fresh, Held, OpenOnes, Holders
    <2>2. StillBlank'
      BY <1>3, <1>a, <1>b, <1>c, Blank DEF ListSlotStep, Turned, DashboardsSame, Is,
         StillBlank, Unheard, Fresh, Held, OpenOnes, Holders
    <2>3. DialsBlank'
      BY <1>3, <1>a, <1>b, <1>c, Blank DEF ListSlotStep, Turned, DashboardsSame, Is,
         DialsBlank, Fresh, Held, OpenOnes, Holders
    <2> QED BY <2>1, <2>2, <2>3
  <1>4. ASSUME NEW i \in Ids, NEW m \in LinkType, GreetStep(i, m) PROVE NothingYet' /\ StillBlank' /\ DialsBlank'
    <2>1. NothingYet'
      BY <1>4, <1>a, <1>b, <1>c, Blank DEF GreetStep, Turned, DashboardsSame, Is, NothingYet,
         Unheard, Alive, Listens, Fresh, Held, OpenOnes, Holders
    <2>2. StillBlank'
      BY <1>4, <1>a, <1>b, <1>c, Blank DEF GreetStep, Turned, DashboardsSame, Is, StillBlank,
         Unheard, Fresh, Held, OpenOnes, Holders
    <2>3. DialsBlank'
      BY <1>4, <1>a, <1>b, <1>c, Blank DEF GreetStep, Turned, DashboardsSame, Is, DialsBlank,
         Fresh, Held, OpenOnes, Holders
    <2> QED BY <2>1, <2>2, <2>3
  <1>5. ASSUME NEW i \in Ids, NEW m \in LinkType, RefuseStep(i, m) PROVE NothingYet' /\ StillBlank' /\ DialsBlank'
    <2>1. NothingYet'
      BY <1>5, <1>a, <1>b, <1>c, Blank DEF RefuseStep, Turned, DashboardsSame, ServerSame, Is,
         NothingYet, Unheard, Alive, Listens, Fresh, Held, OpenOnes, Holders
    <2>2. StillBlank'
      BY <1>5, <1>a, <1>b, <1>c, Blank DEF RefuseStep, Turned, DashboardsSame, ServerSame, Is,
         StillBlank, Unheard, Fresh, Held, OpenOnes, Holders
    <2>3. DialsBlank'
      BY <1>5, <1>a, <1>b, <1>c, Blank DEF RefuseStep, Turned, DashboardsSame, ServerSame, Is,
         DialsBlank, Fresh, Held, OpenOnes, Holders
    <2> QED BY <2>1, <2>2, <2>3
  <1>6. ASSUME NEW i \in Ids, NEW m \in LinkType, ClientGoneStep(i, m) PROVE NothingYet' /\ StillBlank' /\ DialsBlank'
    <2>1. NothingYet'
      BY <1>6, <1>a, <1>b, <1>c, Blank DEF ClientGoneStep, Turned, DashboardsSame, ServerSame,
         Alive, Is, NothingYet, Unheard, Alive, Listens, Fresh, Held, OpenOnes, Holders
    <2>2. StillBlank'
      BY <1>6, <1>a, <1>b, <1>c, Blank DEF ClientGoneStep, Turned, DashboardsSame, ServerSame,
         Alive, Is, StillBlank, Unheard, Fresh, Held, OpenOnes, Holders
    <2>3. DialsBlank'
      BY <1>6, <1>a, <1>b, <1>c, Blank DEF ClientGoneStep, Turned, DashboardsSame, ServerSame,
         Alive, Is, DialsBlank, Fresh, Held, OpenOnes, Holders
    <2> QED BY <2>1, <2>2, <2>3
  <1>7. ASSUME NEW i \in Ids, NEW m \in LinkType, CutStep(i, m) PROVE NothingYet' /\ StillBlank' /\ DialsBlank'
    <2>1. NothingYet'
      BY <1>7, <1>a, <1>b, <1>c, Blank DEF CutStep, Turned, DashboardsSame, ServerSame, Is,
         NothingYet, Unheard, Alive, Listens, Fresh, Held, OpenOnes, Holders
    <2>2. StillBlank'
      BY <1>7, <1>a, <1>b, <1>c, Blank DEF CutStep, Turned, DashboardsSame, ServerSame, Is,
         StillBlank, Unheard, Fresh, Held, OpenOnes, Holders
    <2>3. DialsBlank'
      BY <1>7, <1>a, <1>b, <1>c, Blank DEF CutStep, Turned, DashboardsSame, ServerSame, Is,
         DialsBlank, Fresh, Held, OpenOnes, Holders
    <2> QED BY <2>1, <2>2, <2>3
  <1>8. ASSUME NEW i \in Ids, WriteStep(i) PROVE NothingYet' /\ StillBlank' /\ DialsBlank'
    <2>1. NothingYet'
      BY <1>8, <1>a, <1>b, <1>c, Blank DEF WriteStep, DashboardsSame, Is, NothingYet, Unheard,
         Alive, Listens, Fresh, Held, OpenOnes, Holders
    <2>2. StillBlank'
      BY <1>8, <1>a, <1>b, <1>c, Blank DEF WriteStep, DashboardsSame, Is, StillBlank, Unheard,
         Fresh, Held, OpenOnes, Holders
    <2>3. DialsBlank'
      BY <1>8, <1>a, <1>b, <1>c, Blank DEF WriteStep, DashboardsSame, Is, DialsBlank, Fresh,
         Held, OpenOnes, Holders
    <2> QED BY <2>1, <2>2, <2>3
  <1>9. ASSUME PublishStep PROVE NothingYet' /\ StillBlank' /\ DialsBlank'
    <2>1. NothingYet'
      BY <1>9, <1>a, <1>b, <1>c, Blank DEF PublishStep, SendStep, DashboardsSame, Is,
         NothingYet, Unheard, Alive, Listens, Fresh, Held, OpenOnes, Holders
    <2>2. StillBlank'
      BY <1>9, <1>a, <1>b, <1>c, Blank DEF PublishStep, SendStep, DashboardsSame, Is,
         StillBlank, Unheard, Fresh, Held, OpenOnes, Holders
    <2>3. DialsBlank'
      BY <1>9, <1>a, <1>b, <1>c, Blank DEF PublishStep, SendStep, DashboardsSame, Is,
         DialsBlank, Fresh, Held, OpenOnes, Holders
    <2> QED BY <2>1, <2>2, <2>3
  <1>10. ASSUME SessionStep PROVE NothingYet' /\ StillBlank' /\ DialsBlank'
    <2>1. NothingYet'
      BY <1>10, <1>a, <1>b, <1>c, Blank DEF SessionStep, SendStep, DashboardsSame, Is,
         NothingYet, Unheard, Alive, Listens, Fresh, Held, OpenOnes, Holders
    <2>2. StillBlank'
      BY <1>10, <1>a, <1>b, <1>c, Blank DEF SessionStep, SendStep, DashboardsSame, Is,
         StillBlank, Unheard, Fresh, Held, OpenOnes, Holders
    <2>3. DialsBlank'
      BY <1>10, <1>a, <1>b, <1>c, Blank DEF SessionStep, SendStep, DashboardsSame, Is,
         DialsBlank, Fresh, Held, OpenOnes, Holders
    <2> QED BY <2>1, <2>2, <2>3
  <1>11. ASSUME StopStep PROVE NothingYet' /\ StillBlank' /\ DialsBlank'
    <2>1. NothingYet'
      BY <1>11, <1>a, <1>b, <1>c, Blank DEF StopStep, DashboardsSame, Is, NothingYet, Unheard,
         Alive, Listens, Fresh, Held, OpenOnes, Holders
    <2>2. StillBlank'
      BY <1>11, <1>a, <1>b, <1>c, Blank DEF StopStep, DashboardsSame, Is, StillBlank, Unheard,
         Fresh, Held, OpenOnes, Holders
    <2>3. DialsBlank'
      BY <1>11, <1>a, <1>b, <1>c, Blank DEF StopStep, DashboardsSame, Is, DialsBlank, Fresh,
         Held, OpenOnes, Holders
    <2> QED BY <2>1, <2>2, <2>3
  <1>12. ASSUME StartStep PROVE NothingYet' /\ StillBlank' /\ DialsBlank'
    <2>1. NothingYet'
      BY <1>12, <1>a, <1>b, <1>c, Blank DEF StartStep, DashboardsSame, Is, NothingYet,
         Unheard, Alive, Listens, Fresh, Held, OpenOnes, Holders
    <2>2. StillBlank'
      BY <1>12, <1>a, <1>b, <1>c, Blank DEF StartStep, DashboardsSame, Is, StillBlank,
         Unheard, Fresh, Held, OpenOnes, Holders
    <2>3. DialsBlank'
      BY <1>12, <1>a, <1>b, <1>c, Blank DEF StartStep, DashboardsSame, Is, DialsBlank, Fresh,
         Held, OpenOnes, Holders
    <2> QED BY <2>1, <2>2, <2>3
  <1>13. ASSUME NEW c \in Dashboards, NEW i \in Ids, NEW m \in LinkType, DialStep(c, i, m) PROVE NothingYet' /\ StillBlank' /\ DialsBlank'
    <2>1. NothingYet'
      BY <1>13, <1>a, <1>b, <1>c, Blank DEF DialStep, Turned, Changed, ServerSame, Is,
         NothingYet, Unheard, Alive, Listens, Fresh, Held, OpenOnes, Holders
    <2>2. StillBlank'
      <3>1. PICK x \in ClientType :
              /\ Changed(c, x) /\ x.run = "connected" /\ x.link = i /\ x.phase = client[c].phase
              /\ x.connected = client[c].connected /\ x.told = client[c].told
        BY <1>13 DEF DialStep
      <3>2. client[c].run = "dialing" /\ client[c].link = NoLink
        BY <1>13 DEF DialStep, Held, Holders
      <3>3. m.who = c /\ x.phase = "descriptors" /\ x.told = NoValue
        BY <1>13, <3>1, <3>2 DEF DialStep, Is, Fresh, DialsBlank
      <3>4. \A j \in Ids : links[j].open => links[j].who \in Dashboards /\ links[j].who # c
        BY <3>2, <1>b DEF Held, OpenOnes
      <3>5. links'[i] = m /\ \A j \in Ids : j # i => links'[j] = links[j]
        BY <1>13 DEF DialStep, Turned
      <3>6. client'[c] = x /\ \A d \in Dashboards : d # c => client'[d] = client[d]
        BY <3>1 DEF Changed
      <3>7. ASSUME NEW j \in Ids, links'[j].open, Unheard(links'[j])
            PROVE  client'[links'[j].who].phase = "descriptors" /\ client'[links'[j].who].told = NoValue
        <4>1. CASE j = i
          BY <3>3, <3>5, <3>6, <4>1
        <4>2. CASE j # i
          BY <3>4, <3>5, <3>6, <3>7, <4>2 DEF Fresh, StillBlank
        <4> QED BY <4>1, <4>2
      <3> QED BY <3>7 DEF StillBlank, Unheard
    <2>3. DialsBlank'
      BY <1>13, <1>a, <1>b, <1>c, Blank DEF DialStep, Turned, Changed, ServerSame, Is,
         DialsBlank, Fresh, Held, OpenOnes, Holders
    <2> QED BY <2>1, <2>2, <2>3
  <1>14. ASSUME NEW c \in Dashboards, NEW i \in Ids, NEW m \in LinkType, HeartbeatStep(c, i, m) PROVE NothingYet' /\ StillBlank' /\ DialsBlank'
    <2>1. NothingYet'
      BY <1>14, <1>a, <1>b, <1>c, Blank DEF HeartbeatStep, SaysStep, Turned, DashboardsSame,
         ServerSame, Is, NothingYet, Unheard, Alive, Listens, Fresh, Held, OpenOnes, Holders
    <2>2. StillBlank'
      BY <1>14, <1>a, <1>b, <1>c, Blank DEF HeartbeatStep, SaysStep, Turned, DashboardsSame,
         ServerSame, Is, StillBlank, Unheard, Fresh, Held, OpenOnes, Holders
    <2>3. DialsBlank'
      BY <1>14, <1>a, <1>b, <1>c, Blank DEF HeartbeatStep, SaysStep, Turned, DashboardsSame,
         ServerSame, Is, DialsBlank, Fresh, Held, OpenOnes, Holders
    <2> QED BY <2>1, <2>2, <2>3
  <1>15. ASSUME NEW c \in Dashboards, HelloStep(c) PROVE NothingYet' /\ StillBlank' /\ DialsBlank'
    <2>1. NothingYet'
      BY <1>15, <1>a, <1>b, <1>c, Blank DEF HelloStep, SaysStep, Turned, Changed, ServerSame,
         Is, NothingYet, Unheard, Alive, Listens, Fresh, Held, OpenOnes, Holders
    <2>2. StillBlank'
      BY <1>15, <1>a, <1>b, <1>c, Blank DEF HelloStep, SaysStep, Turned, Changed, ServerSame,
         Is, StillBlank, Unheard, Fresh, Held, OpenOnes, Holders
    <2>3. DialsBlank'
      BY <1>15, <1>a, <1>b, <1>c, Blank DEF HelloStep, SaysStep, Turned, Changed, ServerSame,
         Is, DialsBlank, Fresh, Held, OpenOnes, Holders
    <2> QED BY <2>1, <2>2, <2>3
  <1>16. ASSUME NEW c \in Dashboards, StaleStep(c) PROVE NothingYet' /\ StillBlank' /\ DialsBlank'
    <2>1. NothingYet'
      BY <1>16, <1>a, <1>b, <1>c, Blank DEF StaleStep, Changed, Shows, ServerSame, Is,
         NothingYet, Unheard, Alive, Listens, Fresh, Held, OpenOnes, Holders
    <2>2. StillBlank'
      BY <1>16, <1>a, <1>b, <1>c, Blank DEF StaleStep, Changed, Shows, ServerSame, Is,
         StillBlank, Unheard, Fresh, Held, OpenOnes, Holders
    <2>3. DialsBlank'
      BY <1>16, <1>a, <1>b, <1>c, Blank DEF StaleStep, Changed, Shows, ServerSame, Is,
         DialsBlank, Fresh, Held, OpenOnes, Holders
    <2> QED BY <2>1, <2>2, <2>3
  <1>17. ASSUME NEW c \in Dashboards, EditStep(c) PROVE NothingYet' /\ StillBlank' /\ DialsBlank'
    <2>1. NothingYet'
      BY <1>17, <1>a, <1>b, <1>c, Blank DEF EditStep, SaysStep, Turned, Shows, Is, NothingYet,
         Unheard, Alive, Listens, Fresh, Held, OpenOnes, Holders
    <2>2. StillBlank'
      BY <1>17, <1>a, <1>b, <1>c, Blank DEF EditStep, SaysStep, Turned, Shows, Is, StillBlank,
         Unheard, Fresh, Held, OpenOnes, Holders
    <2>3. DialsBlank'
      BY <1>17, <1>a, <1>b, <1>c, Blank DEF EditStep, SaysStep, Turned, Shows, Is, DialsBlank,
         Fresh, Held, OpenOnes, Holders
    <2> QED BY <2>1, <2>2, <2>3
  <1>18. ASSUME NEW c \in Dashboards, StateStep(c) PROVE NothingYet' /\ StillBlank' /\ DialsBlank'
    <2>1. NothingYet'
      BY <1>18, <1>a, <1>b, <1>c, Blank DEF StateStep, SaysStep, Turned, Shows, Is,
         NothingYet, Unheard, Alive, Listens, Fresh, Held, OpenOnes, Holders
    <2>2. StillBlank'
      BY <1>18, <1>a, <1>b, <1>c, Blank DEF StateStep, SaysStep, Turned, Shows, Is,
         StillBlank, Unheard, Fresh, Held, OpenOnes, Holders
    <2>3. DialsBlank'
      BY <1>18, <1>a, <1>b, <1>c, Blank DEF StateStep, SaysStep, Turned, Shows, Is,
         DialsBlank, Fresh, Held, OpenOnes, Holders
    <2> QED BY <2>1, <2>2, <2>3
  <1>19. ASSUME NEW c \in Dashboards, LeaveStep(c) PROVE NothingYet' /\ StillBlank' /\ DialsBlank'
    <2>1. NothingYet'
      BY <1>19, <1>a, <1>b, <1>c, Blank DEF LeaveStep, Out, Turned, Changed, Shows,
         ServerSame, Is, NothingYet, Unheard, Alive, Listens, Fresh, Held, OpenOnes, Holders
    <2>2. StillBlank'
      BY <1>19, <1>a, <1>b, <1>c, Blank DEF LeaveStep, Out, Turned, Changed, Shows,
         ServerSame, Is, StillBlank, Unheard, Fresh, Held, OpenOnes, Holders
    <2>3. DialsBlank'
      BY <1>19, <1>a, <1>b, <1>c, Blank DEF LeaveStep, Out, Turned, Changed, Shows,
         ServerSame, Is, DialsBlank, Fresh, Held, OpenOnes, Holders
    <2> QED BY <2>1, <2>2, <2>3
  <1>20. ASSUME NEW c \in Dashboards, IdleStep(c) PROVE NothingYet' /\ StillBlank' /\ DialsBlank'
    <2>1. NothingYet'
      BY <1>20, <1>a, <1>b, <1>c, Blank DEF IdleStep, Changed, Shows, ServerSame, Is,
         NothingYet, Unheard, Alive, Listens, Fresh, Held, OpenOnes, Holders
    <2>2. StillBlank'
      BY <1>20, <1>a, <1>b, <1>c, Blank DEF IdleStep, Changed, Shows, ServerSame, Is,
         StillBlank, Unheard, Fresh, Held, OpenOnes, Holders
    <2>3. DialsBlank'
      BY <1>20, <1>a, <1>b, <1>c, Blank DEF IdleStep, Changed, Shows, ServerSame, Is,
         DialsBlank, Fresh, Held, OpenOnes, Holders
    <2> QED BY <2>1, <2>2, <2>3
  <1>21. ASSUME NEW c \in Dashboards, NEW i \in Ids, NEW m \in LinkType, NEW x \in ClientType, ReceiveStep(c, i, m, x) PROVE NothingYet' /\ StillBlank' /\ DialsBlank'
    <2>1. /\ Turned(i, m) /\ links[i].downward # <<>> /\ i = client[c].link /\ client[c].run = "receiving"
          /\ Changed(c, x) /\ x.run = client[c].run
      BY <1>21 DEF ReceiveStep, Takes
    <2>2. m.slot = links[i].slot /\ m.listed = links[i].listed /\ m.who = links[i].who /\ m.open = links[i].open
      BY <1>21 DEF ReceiveStep, Is
    <2>3. ~Unheard(links[i]) /\ links[i].who = c
      BY <2>1, <1>b DEF Fresh, NothingYet, Turned, Held, Holders
    <2>4. ~Unheard(m)
      BY <2>2, <2>3 DEF Unheard
    <2>5. links'[i] = m /\ \A j \in Ids : j # i => links'[j] = links[j]
      BY <2>1 DEF Turned
    <2>6. client'[c] = x /\ \A d \in Dashboards : d # c => client'[d] = client[d]
      BY <2>1 DEF Changed
    <2>7. NothingYet'
      <3>1. ASSUME NEW j \in Ids, Unheard(links'[j]) PROVE links'[j].downward = <<>>
        BY <2>4, <2>5, <3>1 DEF Fresh, NothingYet
      <3> QED BY <3>1 DEF NothingYet, Unheard
    <2>8. StillBlank'
      <3>1. \A j \in Ids : j # i /\ links[j].open => links[j].who \in Dashboards /\ links[j].who # c
        BY <2>1, <1>b DEF Held, OpenOnes
      <3>2. ASSUME NEW j \in Ids, links'[j].open, Unheard(links'[j])
            PROVE  client'[links'[j].who].phase = "descriptors" /\ client'[links'[j].who].told = NoValue
        <4>1. j # i
          BY <2>4, <2>5, <3>2
        <4> QED BY <2>5, <2>6, <3>1, <3>2, <4>1 DEF Fresh, StillBlank
      <3> QED BY <3>2 DEF StillBlank, Unheard
    <2>9. DialsBlank'
      BY <2>1, <2>6 DEF Fresh, DialsBlank
    <2> QED BY <2>7, <2>8, <2>9
  <1> QED BY <1>1, <1>2, <1>3, <1>4, <1>5, <1>6, <1>7, <1>8, <1>9, <1>10, <1>11, <1>12, <1>13,
     <1>14, <1>15, <1>16, <1>17, <1>18, <1>19, <1>20, <1>21, StepKinds

\* Each step leaves the hello first, and there until it is read.
LEMMA GreetingsStep ==
    ASSUME TypeOK, Held, Slots, Greetings, [Next]_vars
    PROVE  BeforeHello' /\ HelloFirst' /\ HelloStays'
  <1>a. \A j \in Ids : links[j] \in LinkType
    BY DEF TypeOK, LinksType
  <1>b. NoLink \notin Ids /\ accepting \in Ids \cup {NoLink} /\ Nobody \notin Dashboards
    BY LinkNumbers, TcpAssumption DEF TypeOK, ServerType
  <1>c. \A d \in Dashboards : client[d] \in ClientType /\ client[d].link \in Ids \cup {NoLink}
    BY LinkNumbers DEF TypeOK, ClientsType, ClientType
  <1>1. CASE UNCHANGED vars
    BY <1>1, <1>a, <1>b, <1>c, Blank DEF vars, server, bounds, history, BeforeHello,
       HelloFirst, HelloStays, Greetings, Held, OpenOnes, Holders
  <1>2. ASSUME NEW i \in Ids, NEW m \in LinkType, AcceptStep(i, m) PROVE BeforeHello' /\ HelloFirst' /\ HelloStays'
    <2>1. BeforeHello'
      BY <1>2, <1>a, <1>b, <1>c, Blank DEF AcceptStep, Turned, DashboardsSame, Is,
         BeforeHello, Greetings, Held, OpenOnes, Holders
    <2>2. HelloFirst'
      BY <1>2, <1>a, <1>b, <1>c, Blank DEF AcceptStep, Turned, DashboardsSame, Is, HelloFirst,
         Greetings, Held, OpenOnes, Holders
    <2>3. HelloStays'
      BY <1>2, <1>a, <1>b, <1>c, Blank DEF AcceptStep, Turned, DashboardsSame, Is, HelloStays,
         Greetings, Held, OpenOnes, Holders
    <2> QED BY <2>1, <2>2, <2>3
  <1>3. ASSUME NEW i \in Ids, NEW m \in LinkType, ListSlotStep(i, m) PROVE BeforeHello' /\ HelloFirst' /\ HelloStays'
    <2>1. BeforeHello'
      BY <1>3, <1>a, <1>b, <1>c, Blank DEF ListSlotStep, Turned, DashboardsSame, Is,
         BeforeHello, Greetings, Held, OpenOnes, Holders
    <2>2. HelloFirst'
      BY <1>3, <1>a, <1>b, <1>c, Blank DEF ListSlotStep, Turned, DashboardsSame, Is,
         HelloFirst, Greetings, Held, OpenOnes, Holders
    <2>3. HelloStays'
      BY <1>3, <1>a, <1>b, <1>c, Blank DEF ListSlotStep, Turned, DashboardsSame, Is,
         HelloStays, Greetings, Held, OpenOnes, Holders
    <2> QED BY <2>1, <2>2, <2>3
  <1>4. ASSUME NEW i \in Ids, NEW m \in LinkType, GreetStep(i, m) PROVE BeforeHello' /\ HelloFirst' /\ HelloStays'
    <2>1. BeforeHello'
      <3>1. links[i].upward \in Seq(Upward) /\ links[i].upward # <<>> /\ Head(links[i].upward).kind = "hello"
        BY <1>4, <1>a, LinkFields DEF GreetStep
      <3>2. ~All(links[i].upward, "heartbeat")
        BY <3>1, Kept
      <3>3. m.open = links[i].open /\ m.who = links[i].who
        BY <1>4 DEF GreetStep, Is
      <3>4. links'[i] = m /\ (\A j \in Ids : j # i => links'[j] = links[j]) /\ UNCHANGED client
        BY <1>4 DEF GreetStep, Turned, DashboardsSame
      <3> QED BY <3>2, <3>3, <3>4 DEF Greetings, BeforeHello
    <2>2. HelloFirst'
      BY <1>4, <1>a, <1>b, <1>c, Blank DEF GreetStep, Turned, DashboardsSame, Is, HelloFirst,
         Greetings, Held, OpenOnes, Holders
    <2>3. HelloStays'
      BY <1>4, <1>a, <1>b, <1>c, Blank DEF GreetStep, Turned, DashboardsSame, Is, HelloStays,
         Greetings, Held, OpenOnes, Holders
    <2> QED BY <2>1, <2>2, <2>3
  <1>5. ASSUME NEW i \in Ids, NEW m \in LinkType, RefuseStep(i, m) PROVE BeforeHello' /\ HelloFirst' /\ HelloStays'
    <2>1. BeforeHello'
      BY <1>5, <1>a, <1>b, <1>c, Blank DEF RefuseStep, Turned, DashboardsSame, ServerSame, Is,
         BeforeHello, Greetings, Held, OpenOnes, Holders
    <2>2. HelloFirst'
      BY <1>5, <1>a, <1>b, <1>c, Blank DEF RefuseStep, Turned, DashboardsSame, ServerSame, Is,
         HelloFirst, Greetings, Held, OpenOnes, Holders
    <2>3. HelloStays'
      BY <1>5, <1>a, <1>b, <1>c, Blank DEF RefuseStep, Turned, DashboardsSame, ServerSame, Is,
         HelloStays, Greetings, Held, OpenOnes, Holders
    <2> QED BY <2>1, <2>2, <2>3
  <1>6. ASSUME NEW i \in Ids, NEW m \in LinkType, ClientGoneStep(i, m) PROVE BeforeHello' /\ HelloFirst' /\ HelloStays'
    <2>1. BeforeHello'
      BY <1>6, <1>a, <1>b, <1>c, Blank DEF ClientGoneStep, Turned, DashboardsSame, ServerSame,
         Alive, Is, BeforeHello, Greetings, Held, OpenOnes, Holders
    <2>2. HelloFirst'
      BY <1>6, <1>a, <1>b, <1>c, Blank DEF ClientGoneStep, Turned, DashboardsSame, ServerSame,
         Alive, Is, HelloFirst, Greetings, Held, OpenOnes, Holders
    <2>3. HelloStays'
      BY <1>6, <1>a, <1>b, <1>c, Blank DEF ClientGoneStep, Turned, DashboardsSame, ServerSame,
         Alive, Is, HelloStays, Greetings, Held, OpenOnes, Holders
    <2> QED BY <2>1, <2>2, <2>3
  <1>7. ASSUME NEW i \in Ids, NEW m \in LinkType, CutStep(i, m) PROVE BeforeHello' /\ HelloFirst' /\ HelloStays'
    <2>1. BeforeHello'
      BY <1>7, <1>a, <1>b, <1>c, Blank, Empties DEF CutStep, Turned, DashboardsSame,
         ServerSame, Is, BeforeHello, Greetings, Held, OpenOnes, Holders
    <2>2. HelloFirst'
      BY <1>7, <1>a, <1>b, <1>c, Blank, Empties DEF CutStep, Turned, DashboardsSame,
         ServerSame, Is, HelloFirst, Greetings, Held, OpenOnes, Holders
    <2>3. HelloStays'
      BY <1>7, <1>a, <1>b, <1>c, Blank, Empties DEF CutStep, Turned, DashboardsSame,
         ServerSame, Is, HelloStays, Greetings, Held, OpenOnes, Holders
    <2> QED BY <2>1, <2>2, <2>3
  <1>8. ASSUME NEW i \in Ids, WriteStep(i) PROVE BeforeHello' /\ HelloFirst' /\ HelloStays'
    <2>1. BeforeHello'
      BY <1>8, <1>a, <1>b, <1>c, Blank DEF WriteStep, DashboardsSame, Is, BeforeHello,
         Greetings, Held, OpenOnes, Holders
    <2>2. HelloFirst'
      BY <1>8, <1>a, <1>b, <1>c, Blank DEF WriteStep, DashboardsSame, Is, HelloFirst,
         Greetings, Held, OpenOnes, Holders
    <2>3. HelloStays'
      BY <1>8, <1>a, <1>b, <1>c, Blank DEF WriteStep, DashboardsSame, Is, HelloStays,
         Greetings, Held, OpenOnes, Holders
    <2> QED BY <2>1, <2>2, <2>3
  <1>9. ASSUME PublishStep PROVE BeforeHello' /\ HelloFirst' /\ HelloStays'
    <2>1. BeforeHello'
      BY <1>9, <1>a, <1>b, <1>c, Blank DEF PublishStep, SendStep, DashboardsSame, Is,
         BeforeHello, Greetings, Held, OpenOnes, Holders
    <2>2. HelloFirst'
      BY <1>9, <1>a, <1>b, <1>c, Blank DEF PublishStep, SendStep, DashboardsSame, Is,
         HelloFirst, Greetings, Held, OpenOnes, Holders
    <2>3. HelloStays'
      BY <1>9, <1>a, <1>b, <1>c, Blank DEF PublishStep, SendStep, DashboardsSame, Is,
         HelloStays, Greetings, Held, OpenOnes, Holders
    <2> QED BY <2>1, <2>2, <2>3
  <1>10. ASSUME SessionStep PROVE BeforeHello' /\ HelloFirst' /\ HelloStays'
    <2>1. BeforeHello'
      BY <1>10, <1>a, <1>b, <1>c, Blank DEF SessionStep, SendStep, DashboardsSame, Is,
         BeforeHello, Greetings, Held, OpenOnes, Holders
    <2>2. HelloFirst'
      BY <1>10, <1>a, <1>b, <1>c, Blank DEF SessionStep, SendStep, DashboardsSame, Is,
         HelloFirst, Greetings, Held, OpenOnes, Holders
    <2>3. HelloStays'
      BY <1>10, <1>a, <1>b, <1>c, Blank DEF SessionStep, SendStep, DashboardsSame, Is,
         HelloStays, Greetings, Held, OpenOnes, Holders
    <2> QED BY <2>1, <2>2, <2>3
  <1>11. ASSUME StopStep PROVE BeforeHello' /\ HelloFirst' /\ HelloStays'
    <2>1. BeforeHello'
      BY <1>11, <1>a, <1>b, <1>c, Blank, Empties DEF StopStep, DashboardsSame, Is,
         BeforeHello, Greetings, Held, OpenOnes, Holders
    <2>2. HelloFirst'
      BY <1>11, <1>a, <1>b, <1>c, Blank, Empties DEF StopStep, DashboardsSame, Is, HelloFirst,
         Greetings, Held, OpenOnes, Holders
    <2>3. HelloStays'
      BY <1>11, <1>a, <1>b, <1>c, Blank, Empties DEF StopStep, DashboardsSame, Is, HelloStays,
         Greetings, Held, OpenOnes, Holders
    <2> QED BY <2>1, <2>2, <2>3
  <1>12. ASSUME StartStep PROVE BeforeHello' /\ HelloFirst' /\ HelloStays'
    <2>1. BeforeHello'
      BY <1>12, <1>a, <1>b, <1>c, Blank DEF StartStep, DashboardsSame, Is, BeforeHello,
         Greetings, Held, OpenOnes, Holders
    <2>2. HelloFirst'
      BY <1>12, <1>a, <1>b, <1>c, Blank DEF StartStep, DashboardsSame, Is, HelloFirst,
         Greetings, Held, OpenOnes, Holders
    <2>3. HelloStays'
      BY <1>12, <1>a, <1>b, <1>c, Blank DEF StartStep, DashboardsSame, Is, HelloStays,
         Greetings, Held, OpenOnes, Holders
    <2> QED BY <2>1, <2>2, <2>3
  <1>13. ASSUME NEW c \in Dashboards, NEW i \in Ids, NEW m \in LinkType, DialStep(c, i, m) PROVE BeforeHello' /\ HelloFirst' /\ HelloStays'
    <2>1. BeforeHello'
      BY <1>13, <1>a, <1>b, <1>c, Blank, Empties DEF DialStep, Turned, Changed, ServerSame,
         Is, BeforeHello, Greetings, Held, OpenOnes, Holders
    <2>2. HelloFirst'
      BY <1>13, <1>a, <1>b, <1>c, Blank, Empties DEF DialStep, Turned, Changed, ServerSame,
         Is, HelloFirst, Greetings, Held, OpenOnes, Holders
    <2>3. HelloStays'
      BY <1>13, <1>a, <1>b, <1>c, Blank, Empties DEF DialStep, Turned, Changed, ServerSame,
         Is, HelloStays, Greetings, Held, OpenOnes, Holders
    <2> QED BY <2>1, <2>2, <2>3
  <1>14. ASSUME NEW c \in Dashboards, NEW i \in Ids, NEW m \in LinkType, HeartbeatStep(c, i, m) PROVE BeforeHello' /\ HelloFirst' /\ HelloStays'
    <2>0. /\ SaysStep(c, i, m, Marker("heartbeat")) /\ client[c].run = "connected" /\ UNCHANGED client
          /\ Marker("heartbeat") \in Upward /\ Marker("heartbeat").kind = "heartbeat"
      BY <1>14, Kinds DEF HeartbeatStep, DashboardsSame
    <2>1. /\ links[i].who = c /\ links[i].open /\ m.who = c /\ m.open /\ i = client[c].link
          /\ m.slot = links[i].slot /\ m.cut = links[i].cut
          /\ m.upward = Append(links[i].upward, Marker("heartbeat"))
          /\ links[i].upward \in Seq(Upward)
          /\ links'[i] = m /\ \A j \in Ids : j # i => links'[j] = links[j]
      BY <2>0, SaysMore
    <2>2. links[i].slot # "serving" /\ All(links[i].upward, "heartbeat")
      BY <2>0, <2>1 DEF Greetings, BeforeHello
    <2>3. All(m.upward, "heartbeat") /\ m.upward # <<>>
      BY <2>0, <2>1, <2>2, Kept, Appended
    <2>4. m.upward[1].kind = "heartbeat"
      BY <2>3, Kept DEF LinkType
    <2>5. BeforeHello'
      <3>1. ASSUME NEW j \in Ids, links'[j].open, client'[links'[j].who].run = "connected"
            PROVE  links'[j].slot # "serving" /\ All(links'[j].upward, "heartbeat")
        <4>1. CASE j = i
          BY <2>1, <2>2, <2>3, <4>1
        <4>2. CASE j # i
          BY <2>0, <2>1, <3>1, <4>2 DEF Greetings, BeforeHello
        <4> QED BY <4>1, <4>2
      <3> QED BY <3>1 DEF BeforeHello
    <2>6. HelloStays'
      BY <2>0, <2>1, <2>2 DEF Greetings, HelloStays
    <2>7. HelloFirst'
      BY <2>1, <2>4 DEF Greetings, HelloFirst
    <2> QED BY <2>5, <2>6, <2>7
  <1>15. ASSUME NEW c \in Dashboards, HelloStep(c) PROVE BeforeHello' /\ HelloFirst' /\ HelloStays'
    <2>1. BeforeHello'
      BY <1>15, <1>a, <1>b, <1>c, Blank DEF HelloStep, SaysStep, Turned, Changed, ServerSame,
         Is, BeforeHello, Greetings, Held, OpenOnes, Holders
    <2>2. HelloFirst'
      <3>1. CASE links' = links
        BY <3>1 DEF Greetings, HelloFirst
      <3>2. ASSUME NEW i \in Ids, NEW m \in LinkType, SaysStep(c, i, m, Marker("hello")) PROVE HelloFirst'
        <4>1. /\ client[c].run = "connected"
              /\ Marker("hello") \in Upward /\ Marker("hello").kind = "hello"
          BY <1>15, Kinds DEF HelloStep
        <4>2. /\ links[i].who = c /\ links[i].open /\ m.slot = links[i].slot
              /\ m.upward = Append(links[i].upward, Marker("hello"))
              /\ links[i].upward \in Seq(Upward)
              /\ links'[i] = m /\ \A j \in Ids : j # i => links'[j] = links[j]
          BY <3>2, <4>1, SaysMore
        <4>3. All(links[i].upward, "heartbeat")
          BY <4>1, <4>2 DEF Greetings, BeforeHello
        <4>4. CASE links[i].upward = <<>>
          <5>1. AllBehind(Append(links[i].upward, Marker("hello")), "write")
            BY <4>1, <4>2, <4>4, OneIsFirst
          <5>2. AllBehind(m.upward, "write")
            BY <4>2, <5>1
          <5> QED BY <4>2, <5>2 DEF Greetings, HelloFirst
        <4>5. CASE links[i].upward # <<>>
          <5>1. m.upward[1].kind = "heartbeat"
            <6>1. m.upward[1] = links[i].upward[1]
              BY <4>1, <4>2, <4>5, Kept
            <6>2. links[i].upward[1].kind = "heartbeat"
              BY <4>2, <4>3, <4>5, Kept
            <6> QED BY <6>1, <6>2
          <5> QED BY <4>2, <5>1 DEF Greetings, HelloFirst
        <4> QED BY <4>4, <4>5
      <3> QED BY <1>15, <3>1, <3>2 DEF HelloStep
    <2>3. HelloStays'
      BY <1>15, <1>a, <1>b, <1>c, Blank DEF HelloStep, SaysStep, Turned, Changed, ServerSame,
         Is, HelloStays, Greetings, Held, OpenOnes, Holders
    <2> QED BY <2>1, <2>2, <2>3
  <1>16. ASSUME NEW c \in Dashboards, StaleStep(c) PROVE BeforeHello' /\ HelloFirst' /\ HelloStays'
    <2>1. BeforeHello'
      BY <1>16, <1>a, <1>b, <1>c, Blank DEF StaleStep, Changed, Shows, ServerSame, Is,
         BeforeHello, Greetings, Held, OpenOnes, Holders
    <2>2. HelloFirst'
      BY <1>16, <1>a, <1>b, <1>c, Blank DEF StaleStep, Changed, Shows, ServerSame, Is,
         HelloFirst, Greetings, Held, OpenOnes, Holders
    <2>3. HelloStays'
      BY <1>16, <1>a, <1>b, <1>c, Blank DEF StaleStep, Changed, Shows, ServerSame, Is,
         HelloStays, Greetings, Held, OpenOnes, Holders
    <2> QED BY <2>1, <2>2, <2>3
  <1>17. ASSUME NEW c \in Dashboards, EditStep(c) PROVE BeforeHello' /\ HelloFirst' /\ HelloStays'
    <2>1. BeforeHello'
      BY <1>17, <1>a, <1>b, <1>c, Blank DEF EditStep, SaysStep, Turned, Shows, Is,
         BeforeHello, Greetings, Held, OpenOnes, Holders
    <2>2. HelloFirst'
      <3>1. CASE links' = links
        BY <3>1 DEF Greetings, HelloFirst
      <3>2. ASSUME NEW i \in Ids, NEW m \in LinkType, SaysStep(c, i, m, Write(issued + 1)) PROVE HelloFirst'
        <4>1. Write(issued + 1) \in Upward /\ Write(issued + 1).kind = "write"
          BY <3>2 DEF SaysStep, Write
        <4>2. /\ m.slot = links[i].slot /\ m.upward = Append(links[i].upward, Write(issued + 1))
              /\ links[i].upward \in Seq(Upward)
              /\ links'[i] = m /\ \A j \in Ids : j # i => links'[j] = links[j]
          BY <3>2, <4>1, SaysMore
        <4>3. CASE links[i].upward = <<>>
          <5>1. AllBehind(Append(links[i].upward, Write(issued + 1)), "write")
            BY <4>1, <4>2, <4>3, OneIsFirst
          <5>2. AllBehind(m.upward, "write")
            BY <4>2, <5>1
          <5> QED BY <4>2, <5>2 DEF Greetings, HelloFirst
        <4>4. CASE links[i].upward # <<>>
          <5>1. /\ m.upward[1] = links[i].upward[1]
                /\ AllBehind(links[i].upward, "write") => AllBehind(m.upward, "write")
            BY <4>1, <4>2, <4>4, Kept
          <5> QED BY <4>2, <4>4, <5>1 DEF Greetings, HelloFirst
        <4> QED BY <4>3, <4>4
      <3> QED BY <1>17, <3>1, <3>2 DEF EditStep
    <2>3. HelloStays'
      BY <1>17, <1>a, <1>b, <1>c, Blank DEF EditStep, SaysStep, Turned, Shows, Is, HelloStays,
         Greetings, Held, OpenOnes, Holders
    <2> QED BY <2>1, <2>2, <2>3
  <1>18. ASSUME NEW c \in Dashboards, StateStep(c) PROVE BeforeHello' /\ HelloFirst' /\ HelloStays'
    <2>1. BeforeHello'
      BY <1>18, <1>a, <1>b, <1>c, Blank DEF StateStep, SaysStep, Turned, Shows, Is,
         BeforeHello, Greetings, Held, OpenOnes, Holders
    <2>2. HelloFirst'
      <3>1. CASE links' = links
        BY <3>1 DEF Greetings, HelloFirst
      <3>2. ASSUME NEW i \in Ids, NEW m \in LinkType, SaysStep(c, i, m, Write(host[c].edit)) PROVE HelloFirst'
        <4>1. Write(host[c].edit) \in Upward /\ Write(host[c].edit).kind = "write"
          BY <3>2 DEF SaysStep, Write
        <4>2. /\ m.slot = links[i].slot /\ m.upward = Append(links[i].upward, Write(host[c].edit))
              /\ links[i].upward \in Seq(Upward)
              /\ links'[i] = m /\ \A j \in Ids : j # i => links'[j] = links[j]
          BY <3>2, <4>1, SaysMore
        <4>3. CASE links[i].upward = <<>>
          <5>1. AllBehind(Append(links[i].upward, Write(host[c].edit)), "write")
            BY <4>1, <4>2, <4>3, OneIsFirst
          <5>2. AllBehind(m.upward, "write")
            BY <4>2, <5>1
          <5> QED BY <4>2, <5>2 DEF Greetings, HelloFirst
        <4>4. CASE links[i].upward # <<>>
          <5>1. /\ m.upward[1] = links[i].upward[1]
                /\ AllBehind(links[i].upward, "write") => AllBehind(m.upward, "write")
            BY <4>1, <4>2, <4>4, Kept
          <5> QED BY <4>2, <4>4, <5>1 DEF Greetings, HelloFirst
        <4> QED BY <4>3, <4>4
      <3> QED BY <1>18, <3>1, <3>2 DEF StateStep
    <2>3. HelloStays'
      BY <1>18, <1>a, <1>b, <1>c, Blank DEF StateStep, SaysStep, Turned, Shows, Is,
         HelloStays, Greetings, Held, OpenOnes, Holders
    <2> QED BY <2>1, <2>2, <2>3
  <1>19. ASSUME NEW c \in Dashboards, LeaveStep(c) PROVE BeforeHello' /\ HelloFirst' /\ HelloStays'
    <2>1. BeforeHello'
      BY <1>19, <1>a, <1>b, <1>c, Blank DEF LeaveStep, Out, Turned, Changed, Shows,
         ServerSame, Is, BeforeHello, Greetings, Held, OpenOnes, Holders
    <2>2. HelloFirst'
      BY <1>19, <1>a, <1>b, <1>c, Blank DEF LeaveStep, Out, Turned, Changed, Shows,
         ServerSame, Is, HelloFirst, Greetings, Held, OpenOnes, Holders
    <2>3. HelloStays'
      BY <1>19, <1>a, <1>b, <1>c, Blank DEF LeaveStep, Out, Turned, Changed, Shows,
         ServerSame, Is, HelloStays, Greetings, Held, OpenOnes, Holders
    <2> QED BY <2>1, <2>2, <2>3
  <1>20. ASSUME NEW c \in Dashboards, IdleStep(c) PROVE BeforeHello' /\ HelloFirst' /\ HelloStays'
    <2>1. BeforeHello'
      BY <1>20, <1>a, <1>b, <1>c, Blank DEF IdleStep, Changed, Shows, ServerSame, Is,
         BeforeHello, Greetings, Held, OpenOnes, Holders
    <2>2. HelloFirst'
      BY <1>20, <1>a, <1>b, <1>c, Blank DEF IdleStep, Changed, Shows, ServerSame, Is,
         HelloFirst, Greetings, Held, OpenOnes, Holders
    <2>3. HelloStays'
      BY <1>20, <1>a, <1>b, <1>c, Blank DEF IdleStep, Changed, Shows, ServerSame, Is,
         HelloStays, Greetings, Held, OpenOnes, Holders
    <2> QED BY <2>1, <2>2, <2>3
  <1>21. ASSUME NEW c \in Dashboards, NEW i \in Ids, NEW m \in LinkType, NEW x \in ClientType, ReceiveStep(c, i, m, x) PROVE BeforeHello' /\ HelloFirst' /\ HelloStays'
    <2>1. /\ \A j \in Ids : /\ links'[j].who = links[j].who /\ links'[j].slot = links[j].slot
                             /\ links'[j].open = links[j].open /\ links'[j].cut = links[j].cut
                             /\ links'[j].upward = links[j].upward
          /\ \A d \in Dashboards : client'[d].run = client[d].run
      BY <1>21, ReceiveKeeps
    <2>2. \A j \in Ids : links[j].open => links[j].who \in Dashboards
      BY DEF Held, OpenOnes
    <2> QED BY <2>1, <2>2 DEF Greetings, BeforeHello, HelloFirst, HelloStays
  <1> QED BY <1>1, <1>2, <1>3, <1>4, <1>5, <1>6, <1>7, <1>8, <1>9, <1>10, <1>11, <1>12, <1>13,
     <1>14, <1>15, <1>16, <1>17, <1>18, <1>19, <1>20, <1>21, StepKinds

\* Each step leaves the values numbered.
LEMMA NumberedStep ==
    ASSUME TypeOK, Held, Slots, Numbered, [Next]_vars
    PROVE  LeaseHasValue' /\ WritesAreEdits' /\ EditsAreIssued'
  <1>a. \A j \in Ids : links[j] \in LinkType
    BY DEF TypeOK, LinksType
  <1>b. NoLink \notin Ids /\ accepting \in Ids \cup {NoLink} /\ Nobody \notin Dashboards
    BY LinkNumbers, TcpAssumption DEF TypeOK, ServerType
  <1>c. \A d \in Dashboards : client[d] \in ClientType /\ client[d].link \in Ids \cup {NoLink}
    BY LinkNumbers DEF TypeOK, ClientsType, ClientType
  <1>d. /\ latest \in Nat /\ issued \in Nat /\ NoValue = 0
        /\ \A d \in Dashboards : host[d] \in HostType /\ host[d].edit \in Nat
    BY DEF TypeOK, ServerType, CountersType, HostsType, HostType, NoValue
  <1>1. CASE UNCHANGED vars
    BY <1>1, <1>a, <1>b, <1>c, <1>d DEF vars, server, bounds, history, LeaseHasValue,
       WritesAreEdits, EditsAreIssued, Numbered, Held, OpenOnes, Holders
  <1>2. ASSUME NEW i \in Ids, NEW m \in LinkType, AcceptStep(i, m) PROVE LeaseHasValue' /\ WritesAreEdits' /\ EditsAreIssued'
    <2>1. LeaseHasValue'
      BY <1>2, <1>a, <1>b, <1>c, <1>d DEF AcceptStep, Turned, DashboardsSame, Is,
         LeaseHasValue, Numbered, Held, OpenOnes, Holders
    <2>2. WritesAreEdits'
      BY <1>2, <1>a, <1>b, <1>c, <1>d DEF AcceptStep, Turned, DashboardsSame, Is,
         WritesAreEdits, Numbered, Held, OpenOnes, Holders
    <2>3. EditsAreIssued'
      BY <1>2, <1>a, <1>b, <1>c, <1>d DEF AcceptStep, Turned, DashboardsSame, Is,
         EditsAreIssued, Numbered, Held, OpenOnes, Holders
    <2> QED BY <2>1, <2>2, <2>3
  <1>3. ASSUME NEW i \in Ids, NEW m \in LinkType, ListSlotStep(i, m) PROVE LeaseHasValue' /\ WritesAreEdits' /\ EditsAreIssued'
    <2>1. LeaseHasValue'
      BY <1>3, <1>a, <1>b, <1>c, <1>d, Blank, Empties DEF ListSlotStep, Turned,
         DashboardsSame, Is, LeaseHasValue, Numbered, Held, OpenOnes, Holders
    <2>2. WritesAreEdits'
      BY <1>3, <1>a, <1>b, <1>c, <1>d, Blank, Empties DEF ListSlotStep, Turned,
         DashboardsSame, Is, WritesAreEdits, Numbered, Held, OpenOnes, Holders
    <2>3. EditsAreIssued'
      BY <1>3, <1>a, <1>b, <1>c, <1>d, Blank, Empties DEF ListSlotStep, Turned,
         DashboardsSame, Is, EditsAreIssued, Numbered, Held, OpenOnes, Holders
    <2> QED BY <2>1, <2>2, <2>3
  <1>4. ASSUME NEW i \in Ids, NEW m \in LinkType, GreetStep(i, m) PROVE LeaseHasValue' /\ WritesAreEdits' /\ EditsAreIssued'
    <2>1. LeaseHasValue'
      BY <1>4, <1>a, <1>b, <1>c, <1>d DEF GreetStep, Turned, DashboardsSame, Is,
         LeaseHasValue, Numbered, Held, OpenOnes, Holders
    <2>2. WritesAreEdits'
      <3>1. links[i].upward \in Seq(Upward) /\ links[i].upward # <<>>
        BY <1>4, <1>a, LinkFields DEF GreetStep
      <3>2. \A d \in Dashboards : Edits(links[i].upward, host[d].edit) => Edits(Tail(links[i].upward), host[d].edit)
        BY <3>1, <1>d, EditsKept
      <3>3. m.upward = Tail(links[i].upward) /\ m.who = links[i].who
        BY <1>4 DEF GreetStep, Is
      <3>4. links'[i] = m /\ (\A j \in Ids : j # i => links'[j] = links[j]) /\ UNCHANGED host
        BY <1>4 DEF GreetStep, Turned, DashboardsSame
      <3> QED BY <3>2, <3>3, <3>4 DEF Numbered, WritesAreEdits
    <2>3. EditsAreIssued'
      BY <1>4, <1>a, <1>b, <1>c, <1>d DEF GreetStep, Turned, DashboardsSame, Is,
         EditsAreIssued, Numbered, Held, OpenOnes, Holders
    <2> QED BY <2>1, <2>2, <2>3
  <1>5. ASSUME NEW i \in Ids, NEW m \in LinkType, RefuseStep(i, m) PROVE LeaseHasValue' /\ WritesAreEdits' /\ EditsAreIssued'
    <2>1. LeaseHasValue'
      BY <1>5, <1>a, <1>b, <1>c, <1>d DEF RefuseStep, Turned, DashboardsSame, ServerSame, Is,
         LeaseHasValue, Numbered, Held, OpenOnes, Holders
    <2>2. WritesAreEdits'
      BY <1>5, <1>a, <1>b, <1>c, <1>d DEF RefuseStep, Turned, DashboardsSame, ServerSame, Is,
         WritesAreEdits, Numbered, Held, OpenOnes, Holders
    <2>3. EditsAreIssued'
      BY <1>5, <1>a, <1>b, <1>c, <1>d DEF RefuseStep, Turned, DashboardsSame, ServerSame, Is,
         EditsAreIssued, Numbered, Held, OpenOnes, Holders
    <2> QED BY <2>1, <2>2, <2>3
  <1>6. ASSUME NEW i \in Ids, NEW m \in LinkType, ClientGoneStep(i, m) PROVE LeaseHasValue' /\ WritesAreEdits' /\ EditsAreIssued'
    <2>1. LeaseHasValue'
      BY <1>6, <1>a, <1>b, <1>c, <1>d, Blank, Empties DEF ClientGoneStep, Turned,
         DashboardsSame, ServerSame, Alive, Is, LeaseHasValue, Numbered, Held, OpenOnes, Holders
    <2>2. WritesAreEdits'
      BY <1>6, <1>a, <1>b, <1>c, <1>d, Blank, Empties DEF ClientGoneStep, Turned,
         DashboardsSame, ServerSame, Alive, Is, WritesAreEdits, Numbered, Held, OpenOnes, Holders
    <2>3. EditsAreIssued'
      BY <1>6, <1>a, <1>b, <1>c, <1>d, Blank, Empties DEF ClientGoneStep, Turned,
         DashboardsSame, ServerSame, Alive, Is, EditsAreIssued, Numbered, Held, OpenOnes, Holders
    <2> QED BY <2>1, <2>2, <2>3
  <1>7. ASSUME NEW i \in Ids, NEW m \in LinkType, CutStep(i, m) PROVE LeaseHasValue' /\ WritesAreEdits' /\ EditsAreIssued'
    <2>1. LeaseHasValue'
      BY <1>7, <1>a, <1>b, <1>c, <1>d, Blank, Empties DEF CutStep, Turned, DashboardsSame,
         ServerSame, Is, LeaseHasValue, Numbered, Held, OpenOnes, Holders
    <2>2. WritesAreEdits'
      BY <1>7, <1>a, <1>b, <1>c, <1>d, Blank, Empties DEF CutStep, Turned, DashboardsSame,
         ServerSame, Is, WritesAreEdits, Numbered, Held, OpenOnes, Holders
    <2>3. EditsAreIssued'
      BY <1>7, <1>a, <1>b, <1>c, <1>d, Blank, Empties DEF CutStep, Turned, DashboardsSame,
         ServerSame, Is, EditsAreIssued, Numbered, Held, OpenOnes, Holders
    <2> QED BY <2>1, <2>2, <2>3
  <1>8. ASSUME NEW i \in Ids, WriteStep(i) PROVE LeaseHasValue' /\ WritesAreEdits' /\ EditsAreIssued'
    <2>1. /\ links[i].slot = "serving" /\ links[i].upward \in Seq(Upward) /\ links[i].upward # <<>>
          /\ links[i].who \in Dashboards
      BY <1>8, <1>a, LinkFields DEF WriteStep
    <2>2. Head(links[i].upward).kind = "write"
      BY <2>1, Kept DEF Slots, Serving
    <2>3. /\ Head(links[i].upward).value > 0
          /\ \A d \in Dashboards : Edits(links[i].upward, host[d].edit) => Edits(Tail(links[i].upward), host[d].edit)
      <3>1. Edits(links[i].upward, host[links[i].who].edit)
        BY <2>1 DEF Numbered, WritesAreEdits
      <3>2. Head(links[i].upward) = links[i].upward[1] /\ 1 \in DOMAIN links[i].upward
        BY <2>1, Removed
      <3>3. Head(links[i].upward).value > 0
        BY <2>2, <3>1, <3>2 DEF Edits
      <3> QED BY <2>1, <3>3, <1>d, EditsKept
    <2>4. /\ links'[i].upward = Tail(links[i].upward) /\ \A j \in Ids : j # i => links'[j].upward = links[j].upward
          /\ \A j \in Ids : links'[j].who = links[j].who
      BY <1>8 DEF WriteStep, Is
    <2>5. UNCHANGED <<host, issued>>
      BY <1>8 DEF WriteStep, DashboardsSame
    <2>6. WritesAreEdits' /\ EditsAreIssued'
      BY <2>3, <2>4, <2>5 DEF Numbered, WritesAreEdits, EditsAreIssued
    <2>7. LeaseHasValue'
      BY <1>8, <2>3 DEF WriteStep, Accepts, Numbered, LeaseHasValue
    <2> QED BY <2>6, <2>7
  <1>9. ASSUME PublishStep PROVE LeaseHasValue' /\ WritesAreEdits' /\ EditsAreIssued'
    <2>1. LeaseHasValue'
      BY <1>9, <1>a, <1>b, <1>c, <1>d DEF PublishStep, SendStep, DashboardsSame, Is,
         LeaseHasValue, Numbered, Held, OpenOnes, Holders
    <2>2. WritesAreEdits'
      BY <1>9, <1>a, <1>b, <1>c, <1>d DEF PublishStep, SendStep, DashboardsSame, Is,
         WritesAreEdits, Numbered, Held, OpenOnes, Holders
    <2>3. EditsAreIssued'
      BY <1>9, <1>a, <1>b, <1>c, <1>d DEF PublishStep, SendStep, DashboardsSame, Is,
         EditsAreIssued, Numbered, Held, OpenOnes, Holders
    <2> QED BY <2>1, <2>2, <2>3
  <1>10. ASSUME SessionStep PROVE LeaseHasValue' /\ WritesAreEdits' /\ EditsAreIssued'
    <2>1. LeaseHasValue'
      BY <1>10, <1>a, <1>b, <1>c, <1>d DEF SessionStep, SendStep, DashboardsSame, Is,
         LeaseHasValue, Numbered, Held, OpenOnes, Holders
    <2>2. WritesAreEdits'
      BY <1>10, <1>a, <1>b, <1>c, <1>d DEF SessionStep, SendStep, DashboardsSame, Is,
         WritesAreEdits, Numbered, Held, OpenOnes, Holders
    <2>3. EditsAreIssued'
      BY <1>10, <1>a, <1>b, <1>c, <1>d DEF SessionStep, SendStep, DashboardsSame, Is,
         EditsAreIssued, Numbered, Held, OpenOnes, Holders
    <2> QED BY <2>1, <2>2, <2>3
  <1>11. ASSUME StopStep PROVE LeaseHasValue' /\ WritesAreEdits' /\ EditsAreIssued'
    <2>1. LeaseHasValue'
      BY <1>11, <1>a, <1>b, <1>c, <1>d, Blank, Empties DEF StopStep, DashboardsSame, Is,
         LeaseHasValue, Numbered, Held, OpenOnes, Holders
    <2>2. WritesAreEdits'
      BY <1>11, <1>a, <1>b, <1>c, <1>d, Blank, Empties DEF StopStep, DashboardsSame, Is,
         WritesAreEdits, Numbered, Held, OpenOnes, Holders
    <2>3. EditsAreIssued'
      BY <1>11, <1>a, <1>b, <1>c, <1>d, Blank, Empties DEF StopStep, DashboardsSame, Is,
         EditsAreIssued, Numbered, Held, OpenOnes, Holders
    <2> QED BY <2>1, <2>2, <2>3
  <1>12. ASSUME StartStep PROVE LeaseHasValue' /\ WritesAreEdits' /\ EditsAreIssued'
    <2>1. LeaseHasValue'
      BY <1>12, <1>a, <1>b, <1>c, <1>d DEF StartStep, DashboardsSame, Is, LeaseHasValue,
         Numbered, Held, OpenOnes, Holders
    <2>2. WritesAreEdits'
      BY <1>12, <1>a, <1>b, <1>c, <1>d DEF StartStep, DashboardsSame, Is, WritesAreEdits,
         Numbered, Held, OpenOnes, Holders
    <2>3. EditsAreIssued'
      BY <1>12, <1>a, <1>b, <1>c, <1>d DEF StartStep, DashboardsSame, Is, EditsAreIssued,
         Numbered, Held, OpenOnes, Holders
    <2> QED BY <2>1, <2>2, <2>3
  <1>13. ASSUME NEW c \in Dashboards, NEW i \in Ids, NEW m \in LinkType, DialStep(c, i, m) PROVE LeaseHasValue' /\ WritesAreEdits' /\ EditsAreIssued'
    <2>1. LeaseHasValue'
      BY <1>13, <1>a, <1>b, <1>c, <1>d, Blank, Empties DEF DialStep, Turned, Changed,
         ServerSame, Is, LeaseHasValue, Numbered, Held, OpenOnes, Holders
    <2>2. WritesAreEdits'
      BY <1>13, <1>a, <1>b, <1>c, <1>d, Blank, Empties DEF DialStep, Turned, Changed,
         ServerSame, Is, WritesAreEdits, Numbered, Held, OpenOnes, Holders
    <2>3. EditsAreIssued'
      BY <1>13, <1>a, <1>b, <1>c, <1>d, Blank, Empties DEF DialStep, Turned, Changed,
         ServerSame, Is, EditsAreIssued, Numbered, Held, OpenOnes, Holders
    <2> QED BY <2>1, <2>2, <2>3
  <1>14. ASSUME NEW c \in Dashboards, NEW i \in Ids, NEW m \in LinkType, HeartbeatStep(c, i, m) PROVE LeaseHasValue' /\ WritesAreEdits' /\ EditsAreIssued'
    <2>1. LeaseHasValue'
      BY <1>14, <1>a, <1>b, <1>c, <1>d DEF HeartbeatStep, SaysStep, Turned, DashboardsSame,
         ServerSame, Is, LeaseHasValue, Numbered, Held, OpenOnes, Holders
    <2>2. WritesAreEdits'
      <3>0. UNCHANGED host
        BY <1>14 DEF HeartbeatStep, DashboardsSame
      <3>1. CASE links' = links
        BY <3>0, <3>1 DEF Numbered, WritesAreEdits
      <3>2. ASSUME SaysStep(c, i, m, Marker("heartbeat")) PROVE WritesAreEdits'
        <4>1. Marker("heartbeat") \in Upward /\ Marker("heartbeat").kind # "write"
          BY Kinds
        <4>2. /\ m.who = links[i].who /\ m.upward = Append(links[i].upward, Marker("heartbeat"))
              /\ links[i].upward \in Seq(Upward)
              /\ links'[i] = m /\ \A j \in Ids : j # i => links'[j] = links[j]
          BY <3>2, <4>1, SaysMore
        <4>3. \A d \in Dashboards : Edits(links[i].upward, host[d].edit) => Edits(m.upward, host[d].edit)
          BY <4>1, <4>2, <1>d, EditsKept
        <4> QED BY <3>0, <4>2, <4>3 DEF Numbered, WritesAreEdits
      <3> QED BY <1>14, <3>1, <3>2 DEF HeartbeatStep
    <2>3. EditsAreIssued'
      BY <1>14, <1>a, <1>b, <1>c, <1>d DEF HeartbeatStep, SaysStep, Turned, DashboardsSame,
         ServerSame, Is, EditsAreIssued, Numbered, Held, OpenOnes, Holders
    <2> QED BY <2>1, <2>2, <2>3
  <1>15. ASSUME NEW c \in Dashboards, HelloStep(c) PROVE LeaseHasValue' /\ WritesAreEdits' /\ EditsAreIssued'
    <2>1. LeaseHasValue'
      BY <1>15, <1>a, <1>b, <1>c, <1>d DEF HelloStep, SaysStep, Turned, Changed, ServerSame,
         Is, LeaseHasValue, Numbered, Held, OpenOnes, Holders
    <2>2. WritesAreEdits'
      <3>0. UNCHANGED host
        BY <1>15 DEF HelloStep, DashboardsSame
      <3>1. CASE links' = links
        BY <3>0, <3>1 DEF Numbered, WritesAreEdits
      <3>2. ASSUME NEW i \in Ids, NEW m \in LinkType, SaysStep(c, i, m, Marker("hello")) PROVE WritesAreEdits'
        <4>1. Marker("hello") \in Upward /\ Marker("hello").kind # "write"
          BY Kinds
        <4>2. /\ m.who = links[i].who /\ m.upward = Append(links[i].upward, Marker("hello"))
              /\ links[i].upward \in Seq(Upward)
              /\ links'[i] = m /\ \A j \in Ids : j # i => links'[j] = links[j]
          BY <3>2, <4>1, SaysMore
        <4>3. \A d \in Dashboards : Edits(links[i].upward, host[d].edit) => Edits(m.upward, host[d].edit)
          BY <4>1, <4>2, <1>d, EditsKept
        <4> QED BY <3>0, <4>2, <4>3 DEF Numbered, WritesAreEdits
      <3> QED BY <1>15, <3>1, <3>2 DEF HelloStep
    <2>3. EditsAreIssued'
      BY <1>15, <1>a, <1>b, <1>c, <1>d DEF HelloStep, SaysStep, Turned, Changed, ServerSame,
         Is, EditsAreIssued, Numbered, Held, OpenOnes, Holders
    <2> QED BY <2>1, <2>2, <2>3
  <1>16. ASSUME NEW c \in Dashboards, StaleStep(c) PROVE LeaseHasValue' /\ WritesAreEdits' /\ EditsAreIssued'
    <2>1. LeaseHasValue'
      BY <1>16, <1>a, <1>b, <1>c, <1>d DEF StaleStep, Changed, Shows, ServerSame, Is,
         LeaseHasValue, Numbered, Held, OpenOnes, Holders
    <2>2. WritesAreEdits'
      BY <1>16, <1>a, <1>b, <1>c, <1>d DEF StaleStep, Changed, Shows, ServerSame, Is,
         WritesAreEdits, Numbered, Held, OpenOnes, Holders
    <2>3. EditsAreIssued'
      BY <1>16, <1>a, <1>b, <1>c, <1>d DEF StaleStep, Changed, Shows, ServerSame, Is,
         EditsAreIssued, Numbered, Held, OpenOnes, Holders
    <2> QED BY <2>1, <2>2, <2>3
  <1>17. ASSUME NEW c \in Dashboards, EditStep(c) PROVE LeaseHasValue' /\ WritesAreEdits' /\ EditsAreIssued'
    <2>1. LeaseHasValue'
      BY <1>17, <1>a, <1>b, <1>c, <1>d DEF EditStep, SaysStep, Turned, Shows, Is,
         LeaseHasValue, Numbered, Held, OpenOnes, Holders
    <2>2. WritesAreEdits'
      <3>0. PICK h \in HostType : Shows(c, h) /\ h.edit = issued + 1
        BY <1>17 DEF EditStep
      <3>1. /\ host'[c].edit = issued + 1 /\ issued + 1 \in Nat /\ host[c].edit <= issued + 1
            /\ \A d \in Dashboards : d # c => host'[d].edit = host[d].edit
        <4>1. host[c].edit <= issued
          BY DEF Numbered, EditsAreIssued
        <4>2. host[c].edit <= issued + 1 /\ issued + 1 \in Nat
          BY <4>1, <1>d
        <4> QED BY <3>0, <4>2 DEF Shows
      <3>2. \A j \in Ids : links[j].who = c => Edits(links[j].upward, issued + 1)
        <4>1. ASSUME NEW j \in Ids, links[j].who = c PROVE Edits(links[j].upward, issued + 1)
          <5>1. Edits(links[j].upward, host[c].edit) /\ links[j].upward \in Seq(Upward)
            BY <4>1, <1>a, LinkFields DEF Numbered, WritesAreEdits
          <5> QED BY <5>1, <3>1, <1>d, EditsKept
        <4> QED BY <4>1
      <3>3. CASE links' = links
        BY <3>1, <3>2, <3>3 DEF Numbered, WritesAreEdits
      <3>4. ASSUME NEW i \in Ids, NEW m \in LinkType, SaysStep(c, i, m, Write(issued + 1)), issued + 1 > 0 PROVE WritesAreEdits'
        <4>1. /\ Write(issued + 1) \in Upward /\ Write(issued + 1).kind = "write"
              /\ Write(issued + 1).value = issued + 1
          BY <3>4 DEF SaysStep, Write
        <4>2. /\ links[i].who = c /\ m.who = c /\ m.upward = Append(links[i].upward, Write(issued + 1))
              /\ links[i].upward \in Seq(Upward)
              /\ links'[i] = m /\ \A j \in Ids : j # i => links'[j] = links[j]
          BY <3>4, <4>1, SaysMore
        <4>3. issued + 1 <= issued + 1
          BY <3>1
        <4>4. Edits(m.upward, issued + 1)
          BY <3>1, <3>2, <3>4, <4>1, <4>2, <4>3, EditsKept
        <4>5. \A j \in Ids : links'[j].who = c => Edits(links'[j].upward, issued + 1)
          BY <3>2, <4>2, <4>4
        <4> QED BY <3>1, <4>2, <4>5 DEF Numbered, WritesAreEdits
      <3>5. issued + 1 > 0
        BY <1>d
      <3> QED BY <1>17, <3>3, <3>4, <3>5, <1>d DEF EditStep
    <2>3. EditsAreIssued'
      BY <1>17, <1>a, <1>b, <1>c, <1>d DEF EditStep, SaysStep, Turned, Shows, Is,
         EditsAreIssued, Numbered, Held, OpenOnes, Holders
    <2> QED BY <2>1, <2>2, <2>3
  <1>18. ASSUME NEW c \in Dashboards, StateStep(c) PROVE LeaseHasValue' /\ WritesAreEdits' /\ EditsAreIssued'
    <2>1. LeaseHasValue'
      BY <1>18, <1>a, <1>b, <1>c, <1>d DEF StateStep, SaysStep, Turned, Shows, Is,
         LeaseHasValue, Numbered, Held, OpenOnes, Holders
    <2>2. WritesAreEdits'
      <3>0. PICK h \in HostType : Shows(c, h) /\ h.edit = host[c].edit
        BY <1>18 DEF StateStep
      <3>1. /\ host'[c].edit = host[c].edit /\ host[c].edit \in Nat /\ host[c].edit <= host[c].edit
            /\ \A d \in Dashboards : d # c => host'[d].edit = host[d].edit
        <4>1. host[c].edit <= issued
          BY DEF Numbered, EditsAreIssued
        <4>2. host[c].edit <= host[c].edit /\ host[c].edit \in Nat
          BY <4>1, <1>d
        <4> QED BY <3>0, <4>2 DEF Shows
      <3>2. \A j \in Ids : links[j].who = c => Edits(links[j].upward, host[c].edit)
        <4>1. ASSUME NEW j \in Ids, links[j].who = c PROVE Edits(links[j].upward, host[c].edit)
          <5>1. Edits(links[j].upward, host[c].edit) /\ links[j].upward \in Seq(Upward)
            BY <4>1, <1>a, LinkFields DEF Numbered, WritesAreEdits
          <5> QED BY <5>1, <3>1, <1>d, EditsKept
        <4> QED BY <4>1
      <3>3. CASE links' = links
        BY <3>1, <3>2, <3>3 DEF Numbered, WritesAreEdits
      <3>4. ASSUME NEW i \in Ids, NEW m \in LinkType, SaysStep(c, i, m, Write(host[c].edit)), host[c].edit > 0 PROVE WritesAreEdits'
        <4>1. /\ Write(host[c].edit) \in Upward /\ Write(host[c].edit).kind = "write"
              /\ Write(host[c].edit).value = host[c].edit
          BY <3>4 DEF SaysStep, Write
        <4>2. /\ links[i].who = c /\ m.who = c /\ m.upward = Append(links[i].upward, Write(host[c].edit))
              /\ links[i].upward \in Seq(Upward)
              /\ links'[i] = m /\ \A j \in Ids : j # i => links'[j] = links[j]
          BY <3>4, <4>1, SaysMore
        <4>3. host[c].edit <= host[c].edit
          BY <3>1
        <4>4. Edits(m.upward, host[c].edit)
          BY <3>1, <3>2, <3>4, <4>1, <4>2, <4>3, EditsKept
        <4>5. \A j \in Ids : links'[j].who = c => Edits(links'[j].upward, host[c].edit)
          BY <3>2, <4>2, <4>4
        <4> QED BY <3>1, <4>2, <4>5 DEF Numbered, WritesAreEdits
      <3>5. issued + 1 > 0
        BY <1>d
      <3> QED BY <1>18, <3>3, <3>4, <3>5, <1>d DEF StateStep
    <2>3. EditsAreIssued'
      BY <1>18, <1>a, <1>b, <1>c, <1>d DEF StateStep, SaysStep, Turned, Shows, Is,
         EditsAreIssued, Numbered, Held, OpenOnes, Holders
    <2> QED BY <2>1, <2>2, <2>3
  <1>19. ASSUME NEW c \in Dashboards, LeaveStep(c) PROVE LeaseHasValue' /\ WritesAreEdits' /\ EditsAreIssued'
    <2>1. LeaseHasValue'
      BY <1>19, <1>a, <1>b, <1>c, <1>d, Blank, Empties DEF LeaveStep, Out, Turned, Changed,
         Shows, ServerSame, Is, LeaseHasValue, Numbered, Held, OpenOnes, Holders
    <2>2. WritesAreEdits'
      BY <1>19, <1>a, <1>b, <1>c, <1>d, Blank, Empties DEF LeaveStep, Out, Turned, Changed,
         Shows, ServerSame, Is, WritesAreEdits, Numbered, Held, OpenOnes, Holders
    <2>3. EditsAreIssued'
      BY <1>19, <1>a, <1>b, <1>c, <1>d, Blank, Empties DEF LeaveStep, Out, Turned, Changed,
         Shows, ServerSame, Is, EditsAreIssued, Numbered, Held, OpenOnes, Holders
    <2> QED BY <2>1, <2>2, <2>3
  <1>20. ASSUME NEW c \in Dashboards, IdleStep(c) PROVE LeaseHasValue' /\ WritesAreEdits' /\ EditsAreIssued'
    <2>1. LeaseHasValue'
      BY <1>20, <1>a, <1>b, <1>c, <1>d DEF IdleStep, Changed, Shows, ServerSame, Is,
         LeaseHasValue, Numbered, Held, OpenOnes, Holders
    <2>2. WritesAreEdits'
      BY <1>20, <1>a, <1>b, <1>c, <1>d DEF IdleStep, Changed, Shows, ServerSame, Is,
         WritesAreEdits, Numbered, Held, OpenOnes, Holders
    <2>3. EditsAreIssued'
      BY <1>20, <1>a, <1>b, <1>c, <1>d DEF IdleStep, Changed, Shows, ServerSame, Is,
         EditsAreIssued, Numbered, Held, OpenOnes, Holders
    <2> QED BY <2>1, <2>2, <2>3
  <1>21. ASSUME NEW c \in Dashboards, NEW i \in Ids, NEW m \in LinkType, NEW x \in ClientType, ReceiveStep(c, i, m, x) PROVE LeaseHasValue' /\ WritesAreEdits' /\ EditsAreIssued'
    <2>1. /\ \A j \in Ids : links'[j].who = links[j].who /\ links'[j].upward = links[j].upward
          /\ \A d \in Dashboards : host'[d].edit = host[d].edit
          /\ UNCHANGED <<latest, lease, issued>>
      BY <1>21, ReceiveKeeps DEF ServerSame
    <2> QED BY <2>1 DEF Numbered, LeaseHasValue, WritesAreEdits, EditsAreIssued
  <1> QED BY <1>1, <1>2, <1>3, <1>4, <1>5, <1>6, <1>7, <1>8, <1>9, <1>10, <1>11, <1>12, <1>13,
     <1>14, <1>15, <1>16, <1>17, <1>18, <1>19, <1>20, <1>21, StepKinds

\* Each step leaves everybody with what brings them to the value.
\* The answer to a write taken goes behind what the core kept for its writer;
LEMMA BringsAnswer ==
    ASSUME NEW phase, NEW view, NEW q \in Seq(Downward), NEW v, Brings(phase, view, q, v),
           NEW us \in Seq(Updates), NEW w \in Nat, w > 0
    PROVE  Brings(phase, view, q \o Append(us, Update(w)), w)
  <1>1. Update(w) \in Updates /\ Update(w).value = w
    BY Kinds DEF Update
  <1> DEFINE b == Append(us, Update(w))
  <1>2. /\ b \in Seq(Updates) /\ Len(b) = Len(us) + 1 /\ b[Len(us) + 1] = Update(w) /\ Len(us) \in Nat
        /\ b # <<>>
    BY <1>1, AppendProperties
  <1>3. b[Len(b)].value = w
    BY <1>1, <1>2
  <1> HIDE DEF b
  <1>4. Brings(phase, view, q \o b, w)
    BY <1>2, <1>3, BringsMore
  <1> QED BY <1>4 DEF b

\* so does that to a write refused, and what was kept ends with the topic's value.
LEMMA BringsRefused ==
    ASSUME NEW phase, NEW view, NEW q \in Seq(Downward), NEW v \in Nat, Brings(phase, view, q, v), v > 0,
           NEW us \in Seq(Updates), EndsWith(us, v), NEW r \in Downward, r.kind = "reject"
    PROVE  Brings(phase, view, q \o Append(us, r), v)
  <1>1. us \in Seq(Downward) /\ q \o us \in Seq(Downward)
    BY UpdatesGoDown, ConcatProperties
  <1>2. Brings(phase, view, q \o us, v)
    <2>1. CASE us = <<>>
      <3>1. q \o us = q
        BY <2>1, ConcatSimplifications
      <3> QED BY <3>1
    <2>2. CASE us # <<>>
      <3>1. us[Len(us)].value = v
        BY <2>2 DEF EndsWith
      <3> QED BY <2>2, <3>1, BringsMore
    <2> QED BY <2>1, <2>2
  <1>3. Brings(phase, view, Append(q \o us, r), v)
    BY <1>1, <1>2, BringsRefusal
  <1>4. Append(q \o us, r) = q \o Append(us, r)
    <2>1. Append(q \o us, r) = (q \o us) \o <<r>> /\ Append(us, r) = us \o <<r>>
      BY <1>1, AppendIsConcat
    <2>2. (q \o us) \o <<r>> = q \o (us \o <<r>>)
      BY <1>1, OneInSeq, ConcatAssociative
    <2> QED BY <2>1, <2>2
  <1> QED BY <1>3, <1>4

LEMMA StreamsStep ==
    ASSUME TypeOK, Held, Slots, Fresh, Greetings, Numbered, Owed, StreamsBring, [Next]_vars
    PROVE  StreamsBring'
  <1>a. \A j \in Ids : links[j] \in LinkType
    BY DEF TypeOK, LinksType
  <1>b. NoLink \notin Ids /\ accepting \in Ids \cup {NoLink} /\ Nobody \notin Dashboards
    BY LinkNumbers, TcpAssumption DEF TypeOK, ServerType
  <1>c. \A d \in Dashboards : client[d] \in ClientType /\ client[d].link \in Ids \cup {NoLink}
    BY LinkNumbers DEF TypeOK, ClientsType, ClientType
  <1>d. \A j \in Ids : Good(links[j]) => links[j].who \in Dashboards /\ client[links[j].who].link = j
    BY DEF Held, OpenOnes, Good
  <1>e. latest \in Nat /\ issued \in Nat /\ NoValue = 0
    BY DEF TypeOK, ServerType, CountersType, NoValue
  <1>f. \A j \in Ids : Good(links[j]) => ToldBy(links[j], client[links[j].who], latest)
    BY DEF StreamsBring, ToldBy
  <1>1. CASE UNCHANGED vars
    BY <1>1, <1>a, <1>b, <1>c DEF vars, server, bounds, history, StreamsBring, Good, Alive
  <1>2. ASSUME NEW i \in Ids, NEW m \in LinkType, AcceptStep(i, m) PROVE StreamsBring'
    <2>1. links'[i] = m /\ (\A j \in Ids : j # i => links'[j] = links[j]) /\ UNCHANGED <<client, latest>>
      BY <1>2 DEF AcceptStep, Turned, DashboardsSame
    <2>2. ASSUME Good(m) PROVE ToldBy(m, client[m.who], latest)
      <3>1. links[i].slot = "backlog" /\ m.who = links[i].who /\ m.open = links[i].open /\ m.downward = links[i].downward
        BY <1>2 DEF AcceptStep, Is
      <3>2. ToldBy(links[i], client[links[i].who], latest)
        BY <2>2, <3>1, UnheardIsTold DEF Unheard, Good
      <3> QED BY <3>1, <3>2 DEF ToldBy
    <2>3. ASSUME NEW j \in Ids, Good(links'[j]) PROVE ToldBy(links'[j], client'[links'[j].who], latest')
      BY <2>1, <2>2, <2>3, <1>f
    <2> QED BY <2>3 DEF StreamsBring, ToldBy
  <1>3. ASSUME NEW i \in Ids, NEW m \in LinkType, ListSlotStep(i, m) PROVE StreamsBring'
    <2>1. links'[i] = m /\ (\A j \in Ids : j # i => links'[j] = links[j]) /\ UNCHANGED <<client, latest>>
      BY <1>3 DEF ListSlotStep, Turned, DashboardsSame
    <2>2. ASSUME Good(m) PROVE ToldBy(m, client[m.who], latest)
      <3>1. m.who = links[i].who /\ m.open = links[i].open /\ m.downward = links[i].downward
            /\ m.slot = links[i].slot /\ m.early = links[i].early /\ m.cut = links[i].cut
        BY <1>3, <2>2, Blank DEF ListSlotStep, Is, Good
      <3>2. CASE links[i].listed
        BY <2>2, <3>1, <3>2, <1>f DEF ToldBy, Good, Alive
      <3>3. CASE ~links[i].listed
        <4>1. links[i].slot = "accepted"
          BY <2>2, <3>1, <3>3 DEF Good, Alive, Slots, Serving
        <4>2. ToldBy(links[i], client[links[i].who], latest)
          BY <2>2, <3>1, <3>3, <4>1, UnheardIsTold DEF Unheard, Good
        <4> QED BY <3>1, <4>2 DEF ToldBy
      <3> QED BY <3>2, <3>3
    <2>3. ASSUME NEW j \in Ids, Good(links'[j]) PROVE ToldBy(links'[j], client'[links'[j].who], latest')
      BY <2>1, <2>2, <2>3, <1>f
    <2> QED BY <2>3 DEF StreamsBring, ToldBy
  <1>4. ASSUME NEW i \in Ids, NEW m \in LinkType, GreetStep(i, m) PROVE StreamsBring'
    <2>1. links'[i] = m /\ (\A j \in Ids : j # i => links'[j] = links[j]) /\ UNCHANGED <<client, latest>>
      BY <1>4 DEF GreetStep, Turned, DashboardsSame
    <2>2. ASSUME Good(m) PROVE ToldBy(m, client[m.who], latest)
      <3>1. /\ m.who = links[i].who /\ m.open = links[i].open /\ m.cut = links[i].cut
            /\ m.listed = links[i].listed /\ m.early = ~links[i].listed /\ links[i].slot = "accepted"
            /\ m.downward = IF links[i].open THEN links[i].downward \o Snapshot ELSE links[i].downward
        BY <1>4 DEF GreetStep, Is
      <3>2. links[i].listed /\ links[i].open /\ ~links[i].cut
        BY <2>2, <3>1 DEF Good
      <3>3. Good(links[i])
        BY <3>1, <3>2 DEF Good, Alive, Slots, Ungreeted
      <3> QED BY <3>1, <3>2, <3>3, <1>a, <1>e, <1>f, ToldAgain
    <2>3. ASSUME NEW j \in Ids, Good(links'[j]) PROVE ToldBy(links'[j], client'[links'[j].who], latest')
      BY <2>1, <2>2, <2>3, <1>f
    <2> QED BY <2>3 DEF StreamsBring, ToldBy
  <1>5. ASSUME NEW i \in Ids, NEW m \in LinkType, RefuseStep(i, m) PROVE StreamsBring'
    BY <1>5, <1>a, <1>b, <1>c, <1>d, Blank DEF RefuseStep, Turned, DashboardsSame, ServerSame,
       Is, StreamsBring, Good, Alive
  <1>6. ASSUME NEW i \in Ids, NEW m \in LinkType, ClientGoneStep(i, m) PROVE StreamsBring'
    BY <1>6, <1>a, <1>b, <1>c, <1>d, Blank DEF ClientGoneStep, Turned, DashboardsSame,
       ServerSame, Alive, Is, StreamsBring, Good, Alive
  <1>7. ASSUME NEW i \in Ids, NEW m \in LinkType, CutStep(i, m) PROVE StreamsBring'
    BY <1>7, <1>a, <1>b, <1>c, <1>d, Blank DEF CutStep, Turned, DashboardsSame, ServerSame,
       Is, StreamsBring, Good, Alive
  <1>8. ASSUME NEW i \in Ids, WriteStep(i) PROVE StreamsBring'
    <2> DEFINE e == Head(links[i].upward)
    <2>1. /\ links[i].slot = "serving" /\ links[i].upward \in Seq(Upward) /\ links[i].upward # <<>>
          /\ links[i].who \in Dashboards
      BY <1>8, <1>a, LinkFields DEF WriteStep
    <2>2. e.kind = "write" /\ e.value \in Nat /\ e.value > 0
      <3>1. e.kind = "write"
        BY <2>1, Kept DEF Slots, Serving
      <3>2. e = links[i].upward[1] /\ 1 \in DOMAIN links[i].upward /\ e \in Upward
        BY <2>1, Removed
      <3>3. Edits(links[i].upward, host[links[i].who].edit)
        BY <2>1 DEF Numbered, WritesAreEdits
      <3>4. e.value > 0
        BY <3>1, <3>2, <3>3 DEF Edits
      <3> QED BY <3>1, <3>2, <3>4 DEF Upward
    <2> DEFINE w == IF Accepts(i) THEN e.value ELSE latest
    <2>3. /\ w \in Nat /\ w > 0 /\ (~Accepts(i) => w = latest)
          /\ Answer(i) = IF Accepts(i) THEN Update(w) ELSE Refusal(e.value)
      <3>1. ~Accepts(i) => latest > 0
        BY DEF Accepts, Numbered, LeaseHasValue
      <3> QED BY <2>2, <3>1, <1>e DEF Answer, Accepts
    <2>4. UNCHANGED client /\ latest' = w
      BY <1>8 DEF WriteStep, DashboardsSame
    <2>5. /\ queues[links[i].who] \in Seq(Updates) /\ EndsWith(queues[links[i].who], latest)
          /\ Refusal(e.value) \in Downward /\ Refusal(e.value).kind = "reject"
      BY <2>1, <2>2, Kinds DEF Slots, Serving, TypeOK, QueuesType, Owed
    <2>6. Accepts(i) => Written(i) = <<Update(w)>>
      BY DEF Written
    <2>7. \A j \in Ids : /\ links'[j].who = links[j].who /\ links'[j].slot = links[j].slot
                         /\ links'[j].listed = links[j].listed /\ links'[j].early = links[j].early
                         /\ links'[j].open = links[j].open /\ links'[j].cut = links[j].cut
      BY <1>8 DEF WriteStep, Is
    <2>8. ASSUME NEW j \in Ids, Good(links'[j]) PROVE Good(links[j]) /\ Listens(links[j])
      BY <2>7, <2>8 DEF Good, Alive, Listens
    <2>9. ASSUME NEW j \in Ids, Good(links'[j]) PROVE ToldBy(links'[j], client[links[j].who], w)
      <3>1. Good(links[j]) /\ Listens(links[j]) /\ links[j].open /\ ToldBy(links[j], client[links[j].who], latest)
        BY <2>8, <2>9, <1>f DEF Listens
      <3>2. CASE j = i
        <4> DEFINE n == [links[i] EXCEPT !.downward = Answered(i)]
        <4> DEFINE q == links[i].downward
                   k == client[links[i].who]
                   us == queues[links[i].who]
        <4>1. /\ Answered(i) = q \o Append(us, Answer(i)) /\ q \in Seq(Downward)
              /\ Append(us, Answer(i)) \in Seq(Downward)
          <5>1. us \in Seq(Downward) /\ Answer(i) \in Downward
            <6> HIDE DEF w
            <6> QED BY <2>3, <2>5, UpdatesGoDown, Kinds
          <5>2. q \in Seq(Downward)
            BY <1>a, LinkFields
          <5>3. Answered(i) = q \o Append(us, Answer(i))
            BY <3>1, <3>2 DEF Answered, Backlog
          <5> HIDE DEF q, us
          <5> QED BY <5>1, <5>2, <5>3, AppendProperties
        <4>2. Answered(i) \in Seq(Downward)
          BY <4>1, ConcatProperties
        <4>3. n \in LinkType /\ n.downward = Answered(i)
          <5>1. links[i] \in LinkType
            BY <1>a
          <5> QED BY <4>2, <5>1 DEF LinkType
        <4> HIDE DEF n, w
        <4>4. ToldBy(n, client[links[i].who], w)
          <5>1. /\ n.downward = q \o Append(us, Answer(i))
                /\ q \in Seq(Downward) /\ Brings(k.phase, k.told, q, latest) /\ w \in Nat /\ w > 0
                /\ us \in Seq(Updates) /\ EndsWith(us, latest)
            BY <3>1, <3>2, <2>3, <2>5, <4>1, <4>3 DEF ToldBy
          <5> HIDE DEF us, q, k, e
          <5>2. CASE Accepts(i)
            <6>1. Answer(i) = Update(w)
              BY <2>3, <5>2
            <6> QED BY <5>1, <6>1, BringsAnswer DEF ToldBy, k
          <5>3. CASE ~Accepts(i)
            <6>1. Answer(i) = Refusal(e.value) /\ w = latest
              BY <2>3, <5>3
            <6>2. Brings(k.phase, k.told, q \o Append(us, Answer(i)), latest)
              BY <2>5, <5>1, <6>1, BringsRefused
            <6> QED BY <5>1, <6>1, <6>2 DEF ToldBy, k
          <5> QED BY <5>2, <5>3
        <4>5. links'[i].downward = IF Accepts(i) THEN n.downward \o Written(i) ELSE n.downward
          BY <1>8, <3>1, <3>2, <4>3 DEF WriteStep, Is
        <4>6. CASE Accepts(i)
          <5>1. links'[i].downward = n.downward \o <<Update(w)>> /\ w \in Nat /\ w > 0
            BY <4>5, <4>6, <2>3, <2>6
          <5>2. ToldBy(links'[i], client[links[i].who], w)
            BY <5>1, <4>3, <4>4, ToldOne
          <5> QED BY <5>2, <3>2
        <4>7. CASE ~Accepts(i)
          BY <4>4, <4>5, <4>7, <3>2 DEF ToldBy
        <4> QED BY <4>6, <4>7
      <3>3. CASE j # i
        <4>1. links'[j].downward = IF Accepts(i) THEN links[j].downward \o Written(i) ELSE links[j].downward
          BY <1>8, <3>1, <3>3 DEF WriteStep, Is
        <4> HIDE DEF w
        <4>2. CASE Accepts(i)
          <5>1. links'[j].downward = links[j].downward \o <<Update(w)>> /\ links[j] \in LinkType
            BY <4>1, <4>2, <2>6, <1>a
          <5>2. ToldBy(links[j], client[links[j].who], latest)
            BY <3>1
          <5>3. w \in Nat /\ w > 0
            BY <2>3
          <5> QED BY <5>1, <5>2, <5>3, ToldOne
        <4>3. CASE ~Accepts(i)
          BY <3>1, <4>1, <4>3, <2>3 DEF ToldBy
        <4> QED BY <4>2, <4>3
      <3> QED BY <3>2, <3>3
    <2>10. ASSUME NEW j \in Ids, Good(links'[j]) PROVE ToldBy(links'[j], client'[links'[j].who], latest')
      BY <2>4, <2>7, <2>9, <2>10
    <2> QED BY <2>10 DEF StreamsBring, ToldBy
  <1>9. ASSUME PublishStep PROVE StreamsBring'
    <2>1. \A j \in Ids : /\ links'[j].who = links[j].who /\ links'[j].slot = links[j].slot
                         /\ links'[j].listed = links[j].listed /\ links'[j].early = links[j].early
                         /\ links'[j].open = links[j].open /\ links'[j].cut = links[j].cut
                         /\ Listens(links[j]) => links'[j].downward = links[j].downward \o <<Update(issued + 1)>>
      BY <1>9 DEF PublishStep, SendStep, Is
    <2>2. UNCHANGED client /\ latest' = issued + 1
      BY <1>9 DEF PublishStep, DashboardsSame
    <2>3. ASSUME NEW j \in Ids, Good(links'[j]) PROVE ToldBy(links'[j], client'[links'[j].who], latest')
      <3>1. Good(links[j]) /\ Listens(links[j])
        BY <2>1, <2>3 DEF Good, Alive, Listens
      <3>2. issued + 1 \in Nat /\ issued + 1 > 0
        BY <1>e
      <3>3. ToldBy(links'[j], client[links[j].who], issued + 1)
        <4>1. links'[j].downward = links[j].downward \o <<Update(issued + 1)>> /\ links[j] \in LinkType
          BY <2>1, <3>1, <1>a
        <4>2. ToldBy(links[j], client[links[j].who], latest)
          BY <3>1, <1>f
        <4> QED BY <4>1, <4>2, <3>2, ToldOne
      <3> QED BY <2>1, <2>2, <3>3
    <2> QED BY <2>3 DEF StreamsBring, ToldBy
  <1>10. ASSUME SessionStep PROVE StreamsBring'
    <2>1. \A j \in Ids : /\ links'[j].who = links[j].who /\ links'[j].slot = links[j].slot
                         /\ links'[j].listed = links[j].listed /\ links'[j].early = links[j].early
                         /\ links'[j].open = links[j].open /\ links'[j].cut = links[j].cut
                         /\ Listens(links[j]) => links'[j].downward = links[j].downward \o Snapshot
      BY <1>10 DEF SessionStep, SendStep, Is
    <2>2. UNCHANGED client /\ latest' = latest
      BY <1>10 DEF SessionStep, DashboardsSame
    <2>3. ASSUME NEW j \in Ids, Good(links'[j]) PROVE ToldBy(links'[j], client'[links'[j].who], latest')
      <3>1. Good(links[j]) /\ Listens(links[j])
        BY <2>1, <2>3 DEF Good, Alive, Listens
      <3>2. ToldBy(links'[j], client[links[j].who], latest)
        BY <2>1, <3>1, <1>a, <1>e, <1>f, ToldAgain
      <3> QED BY <2>1, <2>2, <3>2
    <2> QED BY <2>3 DEF StreamsBring, ToldBy
  <1>11. ASSUME StopStep PROVE StreamsBring'
    BY <1>11, <1>a, <1>b, <1>c, <1>d, Blank DEF StopStep, DashboardsSame, Is, StreamsBring,
       Good, Alive
  <1>12. ASSUME StartStep PROVE StreamsBring'
    <2>1. \A j \in Ids : ~Good(links'[j])
      BY <1>12 DEF StartStep, Slots, Stopped, Good
    <2> QED BY <2>1 DEF StreamsBring
  <1>13. ASSUME NEW c \in Dashboards, NEW i \in Ids, NEW m \in LinkType, DialStep(c, i, m) PROVE StreamsBring'
    BY <1>13, <1>a, <1>b, <1>c, <1>d, Blank DEF DialStep, Turned, Changed, ServerSame, Is,
       StreamsBring, Good, Alive
  <1>14. ASSUME NEW c \in Dashboards, NEW i \in Ids, NEW m \in LinkType, HeartbeatStep(c, i, m) PROVE StreamsBring'
    <2>1. /\ m.who = links[i].who /\ m.slot = links[i].slot /\ m.listed = links[i].listed
          /\ m.early = links[i].early /\ m.open = links[i].open /\ m.cut = links[i].cut
          /\ m.downward = links[i].downward
      BY <1>14 DEF HeartbeatStep, SaysStep, Is
    <2>2. links'[i] = m /\ \A j \in Ids : j # i => links'[j] = links[j]
      BY <1>14 DEF HeartbeatStep, SaysStep, Turned
    <2>3. UNCHANGED client /\ latest' = latest
      BY <1>14 DEF HeartbeatStep, DashboardsSame, ServerSame
    <2>4. \A j \in Ids : /\ links'[j].who = links[j].who /\ links'[j].slot = links[j].slot
                         /\ links'[j].listed = links[j].listed /\ links'[j].early = links[j].early
                         /\ links'[j].open = links[j].open /\ links'[j].cut = links[j].cut
                         /\ links'[j].downward = links[j].downward
      BY <2>1, <2>2
    <2>5. ASSUME NEW j \in Ids, Good(links'[j]) PROVE ToldBy(links'[j], client'[links'[j].who], latest')
      <3>1. Good(links[j])
        BY <2>4, <2>5 DEF Good, Alive
      <3>2. ToldBy(links[j], client[links[j].who], latest)
        BY <3>1, <1>f
      <3> QED BY <2>3, <2>4, <3>2 DEF ToldBy
    <2> QED BY <2>5 DEF StreamsBring, ToldBy
  <1>15. ASSUME NEW c \in Dashboards, HelloStep(c) PROVE StreamsBring'
    BY <1>15, <1>a, <1>b, <1>c, <1>d, Blank DEF HelloStep, SaysStep, Turned, Changed,
       ServerSame, Is, StreamsBring, Good, Alive
  <1>16. ASSUME NEW c \in Dashboards, StaleStep(c) PROVE StreamsBring'
    <2>1. PICK x \in ClientType :
            /\ Changed(c, x) /\ x.run = client[c].run /\ x.link = client[c].link /\ x.told = client[c].told
            /\ x.phase = "descriptors" /\ ~x.connected
      BY <1>16 DEF StaleStep
    <2>2. links' = links /\ latest' = latest /\ links[client[c].link].downward = <<>>
      BY <1>16 DEF StaleStep, ServerSame
    <2>3. client'[c] = x /\ \A d \in Dashboards : d # c => client'[d] = client[d]
      BY <2>1 DEF Changed
    <2>4. ASSUME NEW j \in Ids, Good(links[j]), links[j].who = c PROVE ToldBy(links[j], x, latest)
      <3>1. links[j].downward = <<>>
        BY <2>2, <2>4, <1>d
      <3>2. latest = NoValue => x.told = NoValue
        BY <2>1, <2>4, <1>f DEF ToldBy, Brings
      <3> QED BY <2>1, <3>1, <3>2, AtRest
    <2>5. ASSUME NEW j \in Ids, Good(links'[j]) PROVE ToldBy(links'[j], client'[links'[j].who], latest')
      BY <2>2, <2>3, <2>4, <2>5, <1>d, <1>f
    <2> QED BY <2>5 DEF StreamsBring, ToldBy
  <1>17. ASSUME NEW c \in Dashboards, EditStep(c) PROVE StreamsBring'
    BY <1>17, <1>a, <1>b, <1>c, <1>d, Blank DEF EditStep, SaysStep, Turned, Shows, Is,
       StreamsBring, Good, Alive
  <1>18. ASSUME NEW c \in Dashboards, StateStep(c) PROVE StreamsBring'
    BY <1>18, <1>a, <1>b, <1>c, <1>d, Blank DEF StateStep, SaysStep, Turned, Shows, Is,
       StreamsBring, Good, Alive
  <1>19. ASSUME NEW c \in Dashboards, LeaveStep(c) PROVE StreamsBring'
    BY <1>19, <1>a, <1>b, <1>c, <1>d, Blank DEF LeaveStep, Out, Turned, Changed, Shows,
       ServerSame, Is, StreamsBring, Good, Alive
  <1>20. ASSUME NEW c \in Dashboards, IdleStep(c) PROVE StreamsBring'
    <2>1. links' = links /\ latest' = latest
      BY <1>20 DEF IdleStep, ServerSame
    <2>2. \A d \in Dashboards : client[d].link # NoLink => client'[d] = client[d]
      <3>1. CASE UNCHANGED client
        BY <3>1
      <3>2. ASSUME NEW x \in ClientType, Changed(c, x), client[c].run = "dialing"
            PROVE  \A d \in Dashboards : client[d].link # NoLink => client'[d] = client[d]
        BY <3>2 DEF Changed, Held, Holders
      <3> QED BY <1>20, <3>1, <3>2 DEF IdleStep
    <2>3. ASSUME NEW j \in Ids, Good(links'[j]) PROVE ToldBy(links'[j], client'[links'[j].who], latest')
      <3>1. Good(links[j]) /\ links[j].who \in Dashboards /\ client[links[j].who].link # NoLink
        BY <2>1, <2>3, <1>b, <1>d
      <3> QED BY <2>1, <2>2, <3>1, <1>f
    <2> QED BY <2>3 DEF StreamsBring, ToldBy
  <1>21. ASSUME NEW c \in Dashboards, NEW i \in Ids, NEW m \in LinkType, NEW x \in ClientType, ReceiveStep(c, i, m, x) PROVE StreamsBring'
    <2>1. links'[i] = m /\ (\A j \in Ids : j # i => links'[j] = links[j])
      BY <1>21 DEF ReceiveStep, Turned
    <2>2. client'[c] = x /\ (\A d \in Dashboards : d # c => client'[d] = client[d])
      BY <1>21 DEF ReceiveStep, Changed
    <2>3. /\ m.who = links[i].who /\ m.slot = links[i].slot /\ m.listed = links[i].listed
          /\ m.early = links[i].early /\ m.open = links[i].open /\ m.cut = links[i].cut
          /\ m.downward = Tail(links[i].downward)
      BY <1>21 DEF ReceiveStep, Is
    <2>4. i = client[c].link /\ links[i].downward # <<>> /\ latest' = latest
          /\ Takes(client[c], Head(links[i].downward), x)
      BY <1>21 DEF ReceiveStep, ServerSame
    <2>5. links[i].who = c /\ \A j \in Ids : j # i /\ Good(links[j]) => links[j].who # c
      BY <2>4, <1>b, <1>d DEF Held, Holders
    <2>6. ASSUME Good(m) PROVE ToldBy(m, x, latest)
      <3> DEFINE k == client[c]
                 s == links[i].downward
      <3>1. Good(links[i])
        BY <2>3, <2>6 DEF Good, Alive
      <3>2. Brings(k.phase, k.told, s, latest) /\ s \in Seq(Downward) /\ s # <<>>
        BY <3>1, <2>4, <2>5, <1>a, <1>f, LinkFields DEF ToldBy
      <3>3. m.downward = Tail(s) /\ Takes(k, Head(s), x)
        BY <2>3, <2>4
      <3> HIDE DEF k, s
      <3>4. Brings(x.phase, x.told, Tail(s), latest)
        <4>1. CASE Head(s).kind = "snapshot begin"
          BY <3>2, <3>3, <4>1, BringsFromBegin DEF Takes
        <4>2. CASE Head(s).kind = "state begin"
          BY <3>2, <3>3, <4>2, BringsFromState DEF Takes
        <4>3. CASE Head(s).kind = "live begin"
          BY <3>2, <3>3, <4>3, BringsFromLive DEF Takes
        <4>4. CASE Head(s).kind = "update"
          <5>1. x.phase = k.phase /\ x.told = IF k.phase # "descriptors" THEN Head(s).value ELSE k.told
            BY <3>3, <4>4 DEF Takes
          <5>2. Brings(k.phase, IF k.phase # "descriptors" THEN Head(s).value ELSE k.told, Tail(s), latest)
            BY <3>2, <4>4, BringsFromUpdate
          <5> QED BY <5>1, <5>2
        <4>5. CASE Head(s).kind = "reject"
          <5>1. x.phase = k.phase /\ x.told = k.told
            BY <3>3, <4>5 DEF Takes
          <5>2. Brings(k.phase, k.told, Tail(s), latest)
            BY <3>2, <4>5, BringsFromRefusal
          <5> QED BY <5>1, <5>2
        <4> QED BY <3>3, <4>1, <4>2, <4>3, <4>4, <4>5 DEF Takes
      <3> QED BY <3>3, <3>4 DEF ToldBy
    <2>7. ASSUME NEW j \in Ids, Good(links'[j]) PROVE ToldBy(links'[j], client'[links'[j].who], latest')
      <3>1. CASE j = i
        BY <2>1, <2>2, <2>3, <2>4, <2>5, <2>6, <2>7, <3>1
      <3>2. CASE j # i
        BY <2>1, <2>2, <2>4, <2>5, <2>7, <3>2, <1>d, <1>f
      <3> QED BY <3>1, <3>2
    <2> QED BY <2>7 DEF StreamsBring, ToldBy
  <1> QED BY <1>1, <1>2, <1>3, <1>4, <1>5, <1>6, <1>7, <1>8, <1>9, <1>10, <1>11, <1>12, <1>13,
     <1>14, <1>15, <1>16, <1>17, <1>18, <1>19, <1>20, <1>21, StepKinds

\* What the core keeps for a client ends with the topic's value: each value goes to
\* every queue but its writer's, whose queue the answer empties.
LEMMA OwedStep ==
    ASSUME TypeOK, Slots, Owed, [Next]_vars
    PROVE  Owed'
  <1>1. CASE UNCHANGED <<queues, latest>>
    BY <1>1 DEF Owed
  <1>2. CASE queues' = [c \in DOMAIN queues' |-> <<>>]
    BY <1>2 DEF Owed, EndsWith
  <1>3. ASSUME NEW i \in Ids, Greet(i) PROVE Owed'
    <2>1. \/ UNCHANGED queues
          \/ queues' = [c \in DOMAIN queues \cup {links[i].who} |->
                          IF c \in DOMAIN queues THEN queues[c] ELSE <<>>]
      BY <1>3, GreetDoes
    <2>2. latest' = latest
      BY <1>3 DEF Greet
    <2> QED BY <2>1, <2>2 DEF Owed, EndsWith
  <1>4. ASSUME NEW v \in Nat, latest' = v,
               \A c \in DOMAIN queues' : queues'[c] = <<>> \/ (c \in DOMAIN queues /\ queues'[c] = Append(queues[c], Update(v)))
        PROVE  Owed'
    <2>1. ASSUME NEW c \in DOMAIN queues' PROVE EndsWith(queues'[c], v)
      <3>1. CASE queues'[c] = <<>>
        BY <3>1 DEF EndsWith
      <3>2. CASE c \in DOMAIN queues /\ queues'[c] = Append(queues[c], Update(v))
        <4>1. queues[c] \in Seq(Updates) /\ Update(v) \in Updates /\ Update(v).value = v
          BY <3>2, <1>4, Kinds DEF TypeOK, QueuesType, Update
        <4>2. /\ Len(Append(queues[c], Update(v))) = Len(queues[c]) + 1
              /\ Append(queues[c], Update(v))[Len(queues[c]) + 1] = Update(v)
          BY <4>1, AppendProperties
        <4> QED BY <3>2, <4>1, <4>2 DEF EndsWith
      <3> QED BY <1>4, <2>1, <3>1, <3>2
    <2> QED BY <1>4, <2>1 DEF Owed
  <1>5. ASSUME NEW i \in Ids, ReceiveWrite(i) PROVE Owed'
    <2>1. /\ queues' = [c \in DOMAIN queues |->
                          IF c = links[i].who THEN <<>>
                          ELSE IF Accepts(i) THEN Append(queues[c], Answer(i)) ELSE queues[c]]
          /\ latest' = IF Accepts(i) THEN Head(links[i].upward).value ELSE latest
      BY <1>5 DEF ReceiveWrite, HandleWrite, Accepts, Answer
    <2>2. CASE Accepts(i)
      <3>1. Head(links[i].upward).value \in Nat
        BY <1>5, WriteIsSent DEF Upward
      <3>2. Answer(i) = Update(Head(links[i].upward).value)
        BY <2>2 DEF Answer, Accepts
      <3>3. \A c \in DOMAIN queues' :
               queues'[c] = <<>> \/ (c \in DOMAIN queues
                                     /\ queues'[c] = Append(queues[c], Update(Head(links[i].upward).value)))
        BY <2>1, <2>2, <3>2
      <3> QED BY <1>4, <2>1, <2>2, <3>1, <3>3
    <2>3. CASE ~Accepts(i)
      <3>1. DOMAIN queues' = DOMAIN queues /\ \A c \in DOMAIN queues : queues'[c] \in {<<>>, queues[c]}
        BY <2>1, <2>3
      <3>2. latest' = latest
        BY <2>1, <2>3
      <3> QED BY <3>1, <3>2 DEF Owed, EndsWith
    <2> QED BY <2>2, <2>3
  <1>6. ASSUME PublishFromServer PROVE Owed'
    <2>1. /\ queues' = [c \in DOMAIN queues |-> Append(queues[c], Update(issued + 1))]
          /\ latest' = issued + 1
      BY <1>6 DEF PublishFromServer
    <2>2. issued + 1 \in Nat
      BY DEF TypeOK, CountersType
    <2> QED BY <1>4, <2>1, <2>2
  <1>7. ASSUME Next PROVE Owed'
    <2>1. ASSUME ListSlot \/ ServerStop PROVE UNCHANGED <<queues, latest>>
      BY <2>1 DEF ListSlot, ServerStop
    <2>2. ASSUME RestartSession \/ \E fresh \in BOOLEAN : ServerStart(fresh)
          PROVE  queues' = [c \in DOMAIN queues' |-> <<>>]
      BY <2>2 DEF RestartSession, ServerStart
    <2>3. ASSUME NEW i \in Ids, Accept(i) \/ ClientGone(i) \/ Cut(i) PROVE UNCHANGED <<queues, latest>>
      BY <2>3 DEF Accept, ClientGone, Cut, server
    <2>4. ASSUME NEW c \in Dashboards, WorkerStep(c) PROVE UNCHANGED <<queues, latest>>
      BY <2>4 DEF WorkerStep, Dial, DialFails, SendHello, Receive, ReceiveEnds, server
    <2>5. ASSUME NEW c \in Dashboards, EarlyHeartbeat(c) \/ ReportStale(c) \/ WindowStep(c) \/ OnControlEdited(c)
          PROVE  UNCHANGED <<queues, latest>>
      BY <2>5 DEF EarlyHeartbeat, ReportStale, WindowStep, OnConnectionStateChanged, OnReconnectTimerFired,
         OnControlEdited, server
    <2>6. ASSUME NEW c \in Dashboards, OpenWindow(c) \/ OnConnectTransport(c) \/ OnDisconnectTransport(c)
          PROVE  UNCHANGED <<queues, latest>>
      BY <2>6 DEF OpenWindow, OnConnectTransport, OnDisconnectTransport, server
    <2>7. ASSUME NEW i \in Ids, ConnectionStep(i)
          PROVE  Accept(i) \/ ClientGone(i) \/ Greet(i) \/ ReceiveWrite(i)
      BY <2>7 DEF ConnectionStep
    <2>8. \/ ListSlot \/ ServerStop \/ PublishFromServer
          \/ RestartSession \/ \E fresh \in BOOLEAN : ServerStart(fresh)
          \/ \E i \in Ids : ConnectionStep(i) \/ Cut(i)
          \/ \E c \in Dashboards : \/ WorkerStep(c)
                                   \/ EarlyHeartbeat(c) \/ ReportStale(c) \/ WindowStep(c) \/ OnControlEdited(c)
                                   \/ OpenWindow(c) \/ OnConnectTransport(c) \/ OnDisconnectTransport(c)
      BY <1>7 DEF Next
    <2>9. ASSUME NEW i \in Ids, ConnectionStep(i) \/ Cut(i) PROVE Owed'
      BY <1>1, <1>3, <1>5, <2>3, <2>7, <2>9
    <2>10. CASE \E c \in Dashboards : \/ WorkerStep(c)
                                   \/ EarlyHeartbeat(c) \/ ReportStale(c) \/ WindowStep(c) \/ OnControlEdited(c)
                                   \/ OpenWindow(c) \/ OnConnectTransport(c) \/ OnDisconnectTransport(c)
      <3>1. UNCHANGED <<queues, latest>>
        BY <2>4, <2>5, <2>6, <2>10
      <3> QED BY <1>1, <3>1
    <2>11. CASE ListSlot \/ ServerStop
      BY <1>1, <2>1, <2>11
    <2>12. CASE RestartSession \/ \E fresh \in BOOLEAN : ServerStart(fresh)
      BY <1>2, <2>2, <2>12
    <2>13. CASE PublishFromServer
      BY <1>6, <2>13
    <2> QED BY <2>8, <2>9, <2>10, <2>11, <2>12, <2>13
  <1>8. CASE UNCHANGED vars
    BY <1>1, <1>8 DEF vars, server
  <1> QED BY <1>7, <1>8

-----------------------------------------------------------------------------
(* What each step does to the operators' edits *)

\* A connection whose client is told to be connected, and that the server serves; and
\* what makes sure of the edit of the dashboard that has it.
Active(l, k, left) == Good(l) /\ l.slot = "serving" /\ k.connected /\ ~left
Safe(l, h, v, holder) ==
    \/ Contains(h.posted, "connected")
    \/ Has(l.downward, "snapshot begin")
    \/ Delivers(l.upward, h.edit, v, holder \in {Nobody, l.who})

LEMMA ActiveIsGood ==
    ASSUME NEW l, NEW k, NEW left, Active(l, k, left)
    PROVE  Good(l) /\ l.slot = "serving" /\ k.connected /\ ~left /\ l.open /\ l.listed /\ ~l.cut /\ ~l.early
           /\ Listens(l)
  BY DEF Active, Good, Listens

LEMMA HasMore ==
    ASSUME NEW s \in Seq(Downward), NEW u \in Seq(Downward), NEW kind, Has(s, kind) \/ Has(u, kind)
    PROVE  Has(s \o u, kind)
  <1> DEFINE t == s \o u
  <1>1. PICK l \in Nat, k \in Nat : l = Len(s) /\ k = Len(u) /\ Joins(t, s, l, u, k)
    BY Joined
  <1> HIDE DEF t
  <1>2. ASSUME Has(s, kind) PROVE Has(t, kind)
    <2>1. PICK n \in DOMAIN s : s[n].kind = kind
      BY <1>2 DEF Has
    <2>2. n \in DOMAIN t /\ t[n].kind = kind
      <3>1. n \in DOMAIN t /\ t[n] = s[n]
        BY <1>1 DEF Joins, Spans
      <3> QED BY <2>1, <3>1
    <2> QED BY <2>2, Zenon DEF Has
  <1>3. ASSUME Has(u, kind) PROVE Has(t, kind)
    <2>1. PICK n \in DOMAIN u : u[n].kind = kind
      BY <1>3 DEF Has
    <2>2. n \in Nat /\ 1 <= n /\ n <= k
      BY <1>1, <2>1 DEF Joins, Spans
    <2>3. l + n \in Nat /\ 1 <= l + n /\ l + n <= l + k
      BY <2>2
    <2>4. l + n \in DOMAIN t /\ t[l + n] = u[n]
      BY <1>1, <2>2, <2>3 DEF Joins, Spans
    <2>5. t[l + n].kind = kind
      BY <2>1, <2>4
    <2>6. l + n \in DOMAIN t /\ t[l + n].kind = kind
      BY <2>4, <2>5
    <2> QED BY <2>6, Zenon DEF Has
  <1> QED BY <1>2, <1>3 DEF t

LEMMA SnapshotHas ==
    ASSUME latest \in Nat
    PROVE  Snapshot \in Seq(Downward) /\ Has(Snapshot, "snapshot begin")
  <1>1. Snapshot \in Seq(Downward)
    BY SnapshotType
  <1>2. Snapshot[1].kind = "snapshot begin" /\ (Len(Snapshot) = 3 \/ Len(Snapshot) = 4)
    BY SnapshotOf DEF IsSnapshot
  <1>3. 1 \in DOMAIN Snapshot
    <2>1. Spans(Snapshot, Len(Snapshot))
      BY <1>1, Positions
    <2>2. 1 \in Nat /\ 1 <= 1 /\ 1 <= Len(Snapshot)
      <3>1. CASE Len(Snapshot) = 3
        BY <3>1
      <3>2. CASE Len(Snapshot) = 4
        BY <3>2
      <3> QED BY <1>2, <3>1, <3>2
    <2> QED BY <2>1, <2>2 DEF Spans
  <1> QED BY <1>1, <1>2, <1>3 DEF Has

LEMMA ContainsRest ==
    ASSUME NEW s \in Seq(States), s # <<>>, NEW state, Contains(s, state), Head(s) # state
    PROVE  Contains(Tail(s), state)
  <1>1. PICK l \in Nat : Follows(Tail(s), s, l)
    BY Rest
  <1>2. \A n \in DOMAIN s : n \in Nat /\ 1 <= n /\ (n > 1 => n - 1 \in DOMAIN Tail(s) /\ Tail(s)[n - 1] = s[n])
    BY <1>1, FollowsAt
  <1>3. Head(s) = s[1]
    BY Rest
  <1>4. PICK n \in DOMAIN s : s[n] = state
    BY DEF Contains
  <1>5. n \in Nat /\ 1 <= n /\ n # 1
    BY <1>2, <1>3, <1>4
  <1>6. n > 1
    BY <1>5
  <1> QED BY <1>2, <1>4, <1>6 DEF Contains

LEMMA ContainsLast ==
    ASSUME NEW s \in Seq(States), NEW state \in States
    PROVE  Contains(Append(s, state), state)
  <1>1. /\ Len(s) \in Nat /\ DOMAIN Append(s, state) = 1 .. Len(s) + 1
        /\ Append(s, state)[Len(s) + 1] = state
    BY AppendProperties
  <1>2. Len(s) + 1 \in 1 .. Len(s) + 1
    BY <1>1
  <1> QED BY <1>1, <1>2 DEF Contains

\* The last of what goes up, behind the first.
LEMMA LastStays ==
    ASSUME NEW s \in Seq(Upward), s # <<>>
    PROVE  /\ Tail(s) # <<>> => Tail(s)[Len(Tail(s))] = s[Len(s)]
           /\ Tail(s) = <<>> => Head(s) = s[Len(s)]
  <1>1. PICK l \in Nat : l + 1 = Len(s) /\ Follows(Tail(s), s, l)
    BY Rest
  <1>2. Head(s) = s[1] /\ Tail(s) \in Seq(Upward)
    BY Rest
  <1>3. Len(Tail(s)) = l
    <2>1. Len(Tail(s)) = Len(s) - 1
      BY HeadTailProperties
    <2> QED BY <1>1, <2>1
  <1>4. ASSUME Tail(s) # <<>> PROVE Tail(s)[Len(Tail(s))] = s[Len(s)]
    <2>1. l # 0
      BY <1>2, <1>3, <1>4, EmptySeq
    <2>2. 1 <= l /\ l <= l
      BY <2>1
    <2>3. Tail(s)[l] = s[l + 1]
      BY <1>1, <2>2 DEF Follows
    <2> QED BY <1>1, <1>3, <2>3
  <1>5. ASSUME Tail(s) = <<>> PROVE Head(s) = s[Len(s)]
    <2>1. Len(Tail(s)) = 0
      BY <1>2, <1>5, EmptySeq
    <2>2. l = 0
      BY <1>3, <2>1
    <2>3. Len(s) = 1
      BY <1>1, <2>2
    <2> QED BY <1>2, <2>3
  <1> QED BY <1>4, <1>5

\* Each step leaves every edit delivered.
LEMMA EditsStep ==
    ASSUME TypeOK, Held, Slots, Fresh, Greetings, Numbered, EditsDelivered, [Next]_vars
    PROVE  EditsDelivered'
  <1>a. \A j \in Ids : links[j] \in LinkType
    BY DEF TypeOK, LinksType
  <1>b. NoLink \notin Ids /\ accepting \in Ids \cup {NoLink} /\ Nobody \notin Dashboards
    BY LinkNumbers, TcpAssumption DEF TypeOK, ServerType
  <1>c. \A d \in Dashboards : client[d] \in ClientType /\ client[d].link \in Ids \cup {NoLink}
    BY LinkNumbers DEF TypeOK, ClientsType, ClientType
  <1>d. \A j \in Ids : Good(links[j]) => links[j].who \in Dashboards /\ client[links[j].who].link = j
    BY DEF Held, OpenOnes, Good
  <1>e. latest \in Nat /\ issued \in Nat /\ issued + 1 \in Nat /\ NoValue = 0
    BY DEF TypeOK, ServerType, CountersType, NoValue
  <1>f. \A j \in Ids : Active(links[j], client[links[j].who], outrun[links[j].who])
                       => Safe(links[j], host[links[j].who], latest, lease)
    BY DEF EditsDelivered, Active, Safe
  <1>g. \A d \in Dashboards : host[d].edit \in Nat
    BY DEF TypeOK, HostsType, HostType
  <1>1. CASE UNCHANGED vars
    BY <1>1, <1>a, <1>b, <1>c DEF vars, server, bounds, history, EditsDelivered, Good, Alive
  <1>2. ASSUME NEW i \in Ids, NEW m \in LinkType, AcceptStep(i, m) PROVE EditsDelivered'
    <2>1. links'[i] = m /\ (\A j \in Ids : j # i => links'[j] = links[j])
      BY <1>2 DEF AcceptStep, Turned
    <2>2. UNCHANGED <<client, host, latest, lease, outrun>>
      BY <1>2 DEF AcceptStep, DashboardsSame, ServerSame
    <2>3. ASSUME Active(m, client[m.who], outrun[m.who]) PROVE Safe(m, host[m.who], latest, lease)
      BY <1>2, <2>3 DEF AcceptStep, Is, Active
    <2>9. ASSUME NEW j \in Ids, Active(links'[j], client'[links'[j].who], outrun'[links'[j].who])
          PROVE  Safe(links'[j], host'[links'[j].who], latest', lease')
      BY <2>1, <2>2, <2>3, <2>9, <1>f
    <2> QED BY <2>9 DEF EditsDelivered, Active, Safe
  <1>3. ASSUME NEW i \in Ids, NEW m \in LinkType, ListSlotStep(i, m) PROVE EditsDelivered'
    <2>1. links'[i] = m /\ (\A j \in Ids : j # i => links'[j] = links[j])
      BY <1>3 DEF ListSlotStep, Turned
    <2>2. UNCHANGED <<client, host, latest, lease, outrun>>
      BY <1>3 DEF ListSlotStep, DashboardsSame, ServerSame
    <2>3. ASSUME Active(m, client[m.who], outrun[m.who]) PROVE Safe(m, host[m.who], latest, lease)
      <3>1. m.who = links[i].who /\ m.open = links[i].open /\ m.downward = links[i].downward
            /\ m.slot = links[i].slot /\ m.early = links[i].early /\ m.cut = links[i].cut
            /\ m.upward = links[i].upward
        BY <1>3, <2>3, Blank DEF ListSlotStep, Is, Active, Good
      <3>2. links[i].listed
        BY <2>3, <3>1 DEF Active, Good, Slots, Serving
      <3>3. Active(links[i], client[links[i].who], outrun[links[i].who])
        BY <2>3, <3>1, <3>2 DEF Active, Good, Alive
      <3>4. Safe(links[i], host[links[i].who], latest, lease)
        BY <3>3, <1>f
      <3> QED BY <3>1, <3>4 DEF Safe
    <2>9. ASSUME NEW j \in Ids, Active(links'[j], client'[links'[j].who], outrun'[links'[j].who])
          PROVE  Safe(links'[j], host'[links'[j].who], latest', lease')
      BY <2>1, <2>2, <2>3, <2>9, <1>f
    <2> QED BY <2>9 DEF EditsDelivered, Active, Safe
  <1>4. ASSUME NEW i \in Ids, NEW m \in LinkType, GreetStep(i, m) PROVE EditsDelivered'
    <2>1. links'[i] = m /\ (\A j \in Ids : j # i => links'[j] = links[j])
      BY <1>4 DEF GreetStep, Turned
    <2>2. UNCHANGED <<client, host, latest, lease, outrun>>
      BY <1>4 DEF GreetStep, DashboardsSame, ServerSame
    <2>3. ASSUME Active(m, client[m.who], outrun[m.who]) PROVE Safe(m, host[m.who], latest, lease)
      <3>1. m.open = links[i].open
            /\ m.downward = IF links[i].open THEN links[i].downward \o Snapshot ELSE links[i].downward
        BY <1>4 DEF GreetStep, Is
      <3>2. m.downward = links[i].downward \o Snapshot
        BY <2>3, <3>1 DEF Active, Good
      <3>3. links[i].downward \in Seq(Downward)
        BY <1>a, LinkFields
      <3>4. Has(m.downward, "snapshot begin")
        BY <3>2, <3>3, <1>e, SnapshotHas, HasMore
      <3> QED BY <3>4 DEF Safe
    <2>9. ASSUME NEW j \in Ids, Active(links'[j], client'[links'[j].who], outrun'[links'[j].who])
          PROVE  Safe(links'[j], host'[links'[j].who], latest', lease')
      BY <2>1, <2>2, <2>3, <2>9, <1>f
    <2> QED BY <2>9 DEF EditsDelivered, Active, Safe
  <1>5. ASSUME NEW i \in Ids, NEW m \in LinkType, RefuseStep(i, m) PROVE EditsDelivered'
    <2>1. links'[i] = m /\ (\A j \in Ids : j # i => links'[j] = links[j])
      BY <1>5 DEF RefuseStep, Turned
    <2>2. UNCHANGED <<client, host, latest, lease, outrun>>
      BY <1>5 DEF RefuseStep, DashboardsSame, ServerSame
    <2>3. ASSUME Active(m, client[m.who], outrun[m.who]) PROVE Safe(m, host[m.who], latest, lease)
      BY <1>5, <2>3 DEF RefuseStep, Is, Active
    <2>9. ASSUME NEW j \in Ids, Active(links'[j], client'[links'[j].who], outrun'[links'[j].who])
          PROVE  Safe(links'[j], host'[links'[j].who], latest', lease')
      BY <2>1, <2>2, <2>3, <2>9, <1>f
    <2> QED BY <2>9 DEF EditsDelivered, Active, Safe
  <1>6. ASSUME NEW i \in Ids, NEW m \in LinkType, ClientGoneStep(i, m) PROVE EditsDelivered'
    <2>1. links'[i] = m /\ (\A j \in Ids : j # i => links'[j] = links[j])
      BY <1>6 DEF ClientGoneStep, Turned
    <2>2. UNCHANGED <<client, host, latest, lease, outrun>>
      BY <1>6 DEF ClientGoneStep, DashboardsSame, ServerSame
    <2>3. ASSUME Active(m, client[m.who], outrun[m.who]) PROVE Safe(m, host[m.who], latest, lease)
      BY <1>6, <2>3, Blank DEF ClientGoneStep, Is, Active, Good
    <2>9. ASSUME NEW j \in Ids, Active(links'[j], client'[links'[j].who], outrun'[links'[j].who])
          PROVE  Safe(links'[j], host'[links'[j].who], latest', lease')
      BY <2>1, <2>2, <2>3, <2>9, <1>f
    <2> QED BY <2>9 DEF EditsDelivered, Active, Safe
  <1>7. ASSUME NEW i \in Ids, NEW m \in LinkType, CutStep(i, m) PROVE EditsDelivered'
    <2>1. links'[i] = m /\ (\A j \in Ids : j # i => links'[j] = links[j])
      BY <1>7 DEF CutStep, Turned
    <2>2. UNCHANGED <<client, host, latest, lease, outrun>>
      BY <1>7 DEF CutStep, DashboardsSame, ServerSame
    <2>3. ASSUME Active(m, client[m.who], outrun[m.who]) PROVE Safe(m, host[m.who], latest, lease)
      BY <1>7, <2>3 DEF CutStep, Is, Active, Good
    <2>9. ASSUME NEW j \in Ids, Active(links'[j], client'[links'[j].who], outrun'[links'[j].who])
          PROVE  Safe(links'[j], host'[links'[j].who], latest', lease')
      BY <2>1, <2>2, <2>3, <2>9, <1>f
    <2> QED BY <2>9 DEF EditsDelivered, Active, Safe
  <1>8. ASSUME NEW i \in Ids, WriteStep(i) PROVE EditsDelivered'
    <2>1. \A j \in Ids : /\ links'[j].who = links[j].who /\ links'[j].slot = links[j].slot
                         /\ links'[j].listed = links[j].listed /\ links'[j].early = links[j].early
                         /\ links'[j].open = links[j].open /\ links'[j].cut = links[j].cut
      BY <1>8 DEF WriteStep, Is
    <2>2. UNCHANGED <<client, host>>
      BY <1>8 DEF WriteStep, DashboardsSame
    <2>3. /\ links[i].slot = "serving" /\ links[i].upward \in Seq(Upward) /\ links[i].upward # <<>>
          /\ links[i].who \in Dashboards
      BY <1>8, <1>a, LinkFields DEF WriteStep
    <2>4. /\ lease' = IF lease = Nobody THEN links[i].who ELSE lease
          /\ latest' = IF Accepts(i) THEN Head(links[i].upward).value ELSE latest
          /\ \A c \in Dashboards : outrun'[c] <=> outrun[c] \/ (c = links[i].who /\ ~links[i].open)
      BY <1>8 DEF WriteStep
    <2>5. Backlog(i) \in Seq(Downward) /\ Written(i) \in Seq(Downward)
      <3>1. queues[links[i].who] \in Seq(Updates)
        BY <2>3 DEF Slots, Serving, TypeOK, QueuesType
      <3>2. Head(links[i].upward) \in Upward
        BY <2>3, Removed
      <3>3. Head(links[i].upward).value \in Nat
        BY <3>2 DEF Upward
      <3>4. Answer(i) \in Downward /\ Written(i) \in Seq(Updates)
        BY <3>3, <1>e, Kinds, OneUpdate DEF Answer, Written
      <3>5. queues[links[i].who] \in Seq(Downward)
        BY <3>1, UpdatesGoDown
      <3>6. Backlog(i) \in Seq(Downward)
        BY <3>4, <3>5, AppendProperties DEF Backlog
      <3> QED BY <3>4, <3>6, UpdatesGoDown
    <2>9. ASSUME NEW j \in Ids, Active(links'[j], client'[links'[j].who], outrun'[links'[j].who])
          PROVE  Safe(links'[j], host'[links'[j].who], latest', lease')
      <3> DEFINE c == links[j].who
      <3>1. Good(links[j]) /\ links[j].slot = "serving" /\ client[c].connected /\ ~outrun'[c]
        BY <2>1, <2>2, <2>9 DEF Active, Good, Alive
      <3>2. c \in Dashboards /\ links[j].open /\ Listens(links[j]) /\ client[c].link = j
            /\ links[j].downward \in Seq(Downward)
        BY <3>1, <1>a, <1>d, LinkFields DEF Good, Listens
      <3>3. Active(links[j], client[c], outrun[c])
        BY <2>4, <3>1, <3>2 DEF Active
      <3>4. Safe(links[j], host[c], latest, lease)
        BY <3>3, <1>f
      <3> HIDE DEF c
      <3>5. links'[j].who = c /\ UNCHANGED host
        BY <2>1, <2>2 DEF c
      <3>6. CASE Contains(host[c].posted, "connected")
        BY <3>5, <3>6 DEF Safe
      <3>7. CASE Has(links[j].downward, "snapshot begin")
        <4>1. Has(links'[j].downward, "snapshot begin")
          <5>1. CASE j = i
            <6>1. Answered(i) = links[i].downward \o Backlog(i)
              BY <3>2, <5>1 DEF Answered
            <6>2. Answered(i) \in Seq(Downward) /\ Has(Answered(i), "snapshot begin")
              <7>1. links[i].downward \in Seq(Downward) /\ Has(links[i].downward, "snapshot begin")
                BY <3>2, <3>7, <5>1
              <7>2. Has(Answered(i), "snapshot begin")
                BY <2>5, <6>1, <7>1, HasMore
              <7>3. Answered(i) \in Seq(Downward)
                BY <2>5, <6>1, <7>1, ConcatProperties
              <7> QED BY <7>2, <7>3
            <6>3. links'[i].downward = IF Accepts(i) /\ Listens(links[i]) THEN Answered(i) \o Written(i) ELSE Answered(i)
              BY <1>8 DEF WriteStep, Is
            <6>4. Has(Answered(i) \o Written(i), "snapshot begin")
              BY <2>5, <6>2, HasMore
            <6> QED BY <5>1, <6>2, <6>3, <6>4
          <5>2. CASE j # i
            <6>1. links'[j].downward = IF Accepts(i) /\ Listens(links[j]) THEN links[j].downward \o Written(i) ELSE links[j].downward
              BY <1>8, <5>2 DEF WriteStep, Is
            <6>2. Has(links[j].downward \o Written(i), "snapshot begin")
              BY <2>5, <3>2, <3>7, HasMore
            <6> QED BY <3>7, <6>1, <6>2
          <5> QED BY <5>1, <5>2
        <4> QED BY <4>1 DEF Safe
      <3>8. CASE Delivers(links[j].upward, host[c].edit, latest, lease \in {Nobody, c})
        <4> DEFINE e == host[c].edit
        <4>1. CASE j = i
          <5>1. links'[j].upward = Tail(links[i].upward)
            BY <1>8, <4>1 DEF WriteStep, Is
          <5>2. links[i].upward[Len(links[i].upward)].value = e
            BY <2>3, <3>8, <4>1 DEF Delivers
          <5>3. CASE Tail(links[i].upward) # <<>>
            <6>1. Tail(links[i].upward)[Len(Tail(links[i].upward))].value = e
              BY <2>3, <5>2, <5>3, LastStays
            <6>2. Delivers(links'[j].upward, e, latest', lease' \in {Nobody, c})
              BY <5>1, <5>3, <6>1 DEF Delivers
            <6> QED BY <3>5, <6>2 DEF Safe
          <5>4. CASE Tail(links[i].upward) = <<>>
            <6>1. Head(links[i].upward).value = e
              BY <2>3, <5>2, <5>4, LastStays
            <6>2. e \in Nat
              BY <1>g, <3>2
            <6>3. lease' \in {Nobody, c} => Accepts(i)
              BY <2>4, <4>1 DEF Accepts, c
            <6>4. lease' \in {Nobody, c} => latest' = e
              BY <2>4, <6>1, <6>3
            <6>5. e >= e
              BY <6>2
            <6>6. Delivers(links'[j].upward, e, latest', lease' \in {Nobody, c})
              BY <5>1, <5>4, <6>4, <6>5 DEF Delivers
            <6> QED BY <3>5, <6>6 DEF Safe
          <5> QED BY <5>3, <5>4
        <4>2. CASE j # i
          <5>1. links'[j].upward = links[j].upward
            BY <1>8, <4>2 DEF WriteStep, Is
          <5>2. links[i].who # c
            <6>1. links[i].open => client[links[i].who].link = i
              BY DEF Held, OpenOnes
            <6>2. links[i].who = c => ~links[i].open
              BY <3>2, <4>2, <6>1
            <6>3. links[i].who = c => outrun'[c]
              BY <2>4, <3>2, <6>2
            <6> QED BY <3>1, <6>3 DEF c
          <5>3. lease' \in {Nobody, c} => lease \in {Nobody, c} /\ latest' = latest
            BY <2>3, <2>4, <3>2, <5>2, <1>b DEF Accepts
          <5>4. Delivers(links'[j].upward, e, latest', lease' \in {Nobody, c})
            BY <3>8, <5>1, <5>3 DEF Delivers
          <5> QED BY <3>5, <5>4 DEF Safe
        <4> QED BY <4>1, <4>2
      <3> QED BY <3>4, <3>6, <3>7, <3>8 DEF Safe, c
    <2> QED BY <2>9 DEF EditsDelivered, Active, Safe
  <1>9. ASSUME PublishStep PROVE EditsDelivered'
    <2>1. \A j \in Ids : /\ links'[j].who = links[j].who /\ links'[j].slot = links[j].slot
                         /\ links'[j].listed = links[j].listed /\ links'[j].early = links[j].early
                         /\ links'[j].open = links[j].open /\ links'[j].cut = links[j].cut
                         /\ links'[j].upward = links[j].upward
                         /\ Listens(links[j]) => links'[j].downward = links[j].downward \o <<Update(issued + 1)>>
      BY <1>9 DEF PublishStep, SendStep, Is
    <2>2. UNCHANGED <<client, host, outrun>>
      BY <1>9 DEF PublishStep, DashboardsSame
    <2>9. ASSUME NEW j \in Ids, Active(links'[j], client'[links'[j].who], outrun'[links'[j].who])
          PROVE  Safe(links'[j], host'[links'[j].who], latest', lease')
      <3>1. Active(links[j], client[links[j].who], outrun[links[j].who])
        BY <2>1, <2>2, <2>9 DEF Active, Good, Alive
      <3>2. Good(links[j]) /\ Listens(links[j]) /\ links[j].who \in Dashboards /\ links[j].downward \in Seq(Downward)
        BY <3>1, <1>a, <1>d, ActiveIsGood, LinkFields
      <3>3. links'[j].downward = links[j].downward \o <<Update(issued + 1)>>
        BY <2>1, <3>2
      <3>4. latest' = issued + 1 /\ lease' = lease
        BY <1>9 DEF PublishStep
      <3>5. Safe(links[j], host[links[j].who], latest, lease)
        BY <3>1, <1>f
      <3>6. CASE Contains(host[links[j].who].posted, "connected")
        BY <2>1, <2>2, <3>6 DEF Safe
      <3>7. CASE Has(links[j].downward, "snapshot begin")
        <4>1. <<Update(issued + 1)>> \in Seq(Downward)
          BY <1>e, OneUpdate, UpdatesGoDown
        <4>2. Has(links'[j].downward, "snapshot begin")
          BY <3>2, <3>3, <3>7, <4>1, HasMore
        <4> QED BY <4>2 DEF Safe
      <3>8. CASE Delivers(links[j].upward, host[links[j].who].edit, latest, lease \in {Nobody, links[j].who})
        <4>1. host[links[j].who].edit <= issued /\ host[links[j].who].edit \in Nat
          BY <3>2, <1>g DEF Numbered, EditsAreIssued
        <4>2. issued + 1 >= host[links[j].who].edit
          BY <4>1, <1>e
        <4>3. Delivers(links'[j].upward, host'[links'[j].who].edit, latest', lease' \in {Nobody, links'[j].who})
          BY <2>1, <2>2, <3>4, <3>8, <4>2 DEF Delivers
        <4> QED BY <4>3 DEF Safe
      <3> QED BY <3>5, <3>6, <3>7, <3>8 DEF Safe
    <2> QED BY <2>9 DEF EditsDelivered, Active, Safe
  <1>10. ASSUME SessionStep PROVE EditsDelivered'
    <2>1. \A j \in Ids : /\ links'[j].who = links[j].who /\ links'[j].slot = links[j].slot
                         /\ links'[j].listed = links[j].listed /\ links'[j].early = links[j].early
                         /\ links'[j].open = links[j].open /\ links'[j].cut = links[j].cut
                         /\ links'[j].upward = links[j].upward
                         /\ Listens(links[j]) => links'[j].downward = links[j].downward \o Snapshot
      BY <1>10 DEF SessionStep, SendStep, Is
    <2>2. UNCHANGED <<client, host, outrun>>
      BY <1>10 DEF SessionStep, DashboardsSame
    <2>9. ASSUME NEW j \in Ids, Active(links'[j], client'[links'[j].who], outrun'[links'[j].who])
          PROVE  Safe(links'[j], host'[links'[j].who], latest', lease')
      <3>1. Active(links[j], client[links[j].who], outrun[links[j].who])
        BY <2>1, <2>2, <2>9 DEF Active, Good, Alive
      <3>2. Good(links[j]) /\ Listens(links[j]) /\ links[j].who \in Dashboards /\ links[j].downward \in Seq(Downward)
        BY <3>1, <1>a, <1>d, ActiveIsGood, LinkFields
      <3>3. links'[j].downward = links[j].downward \o Snapshot
        BY <2>1, <3>2
      <3>4. Has(links'[j].downward, "snapshot begin")
        BY <3>2, <3>3, <1>e, SnapshotHas, HasMore
      <3> QED BY <3>4 DEF Safe
    <2> QED BY <2>9 DEF EditsDelivered, Active, Safe
  <1>11. ASSUME StopStep PROVE EditsDelivered'
    <2>1. \A j \in Ids : links'[j].slot # "serving"
      BY <1>11, Blank DEF StopStep, Is
    <2> QED BY <2>1 DEF EditsDelivered
  <1>12. ASSUME StartStep PROVE EditsDelivered'
    <2>1. \A j \in Ids : ~Good(links'[j])
      BY <1>12 DEF StartStep, Slots, Stopped, Good
    <2> QED BY <2>1 DEF EditsDelivered
  <1>13. ASSUME NEW c \in Dashboards, NEW i \in Ids, NEW m \in LinkType, DialStep(c, i, m) PROVE EditsDelivered'
    <2>1. /\ links'[i] = m /\ (\A j \in Ids : j # i => links'[j] = links[j]) /\ m.slot = "backlog"
          /\ client[c].run = "dialing" /\ client[c].link = NoLink
      BY <1>13 DEF DialStep, Turned, Is, Held, Holders
    <2>2. /\ \A d \in Dashboards : d # c => client'[d] = client[d] /\ host'[d] = host[d]
          /\ UNCHANGED <<latest, lease, outrun>>
      BY <1>13 DEF DialStep, Changed, ServerSame
    <2>9. ASSUME NEW j \in Ids, Active(links'[j], client'[links'[j].who], outrun'[links'[j].who])
          PROVE  Safe(links'[j], host'[links'[j].who], latest', lease')
      <3>1. links'[j].who # c /\ links'[j] = links[j] /\ Good(links[j])
        <4>1. j # i /\ links'[j] = links[j] /\ Good(links[j])
          BY <2>1, <2>9 DEF Active
        <4> QED BY <4>1, <2>1, <1>b, <1>d
      <3>2. links[j].who \in Dashboards
        BY <3>1, <1>d
      <3>3. /\ client'[links[j].who] = client[links[j].who] /\ host'[links[j].who] = host[links[j].who]
            /\ UNCHANGED <<latest, lease, outrun>>
        BY <2>2, <3>1, <3>2
      <3>4. Safe(links[j], host[links[j].who], latest, lease)
        BY <2>9, <3>1, <3>3, <1>f
      <3> QED BY <3>1, <3>3, <3>4
    <2> QED BY <2>9 DEF EditsDelivered, Active, Safe
  <1>14. ASSUME NEW c \in Dashboards, NEW i \in Ids, NEW m \in LinkType, HeartbeatStep(c, i, m) PROVE EditsDelivered'
    <2>1. /\ \A j \in Ids : j # i => links'[j] = links[j]
          /\ links'[i].who = c /\ ~client'[c].connected /\ links[i].who = c /\ i = client[c].link
      <3>1. ~client'[c].connected
        BY <1>14 DEF HeartbeatStep, DashboardsSame, Held, Holders
      <3>2. Marker("heartbeat") \in Upward
        BY Kinds
      <3> QED BY <1>14, <3>1, <3>2, SaysMore DEF HeartbeatStep
    <2>2. /\ \A d \in Dashboards : d # c => client'[d] = client[d] /\ host'[d] = host[d]
          /\ UNCHANGED <<latest, lease, outrun>>
      BY <1>14 DEF HeartbeatStep, DashboardsSame, ServerSame
    <2>9. ASSUME NEW j \in Ids, Active(links'[j], client'[links'[j].who], outrun'[links'[j].who])
          PROVE  Safe(links'[j], host'[links'[j].who], latest', lease')
      <3>1. links'[j].who # c /\ links'[j] = links[j] /\ Good(links[j])
        <4>1. links'[j].who # c
          BY <2>1, <2>9 DEF Active
        <4>2. j # i /\ links'[j] = links[j]
          BY <2>1, <4>1
        <4> QED BY <4>1, <4>2, <2>9 DEF Active
      <3>2. links[j].who \in Dashboards
        BY <3>1, <1>d
      <3>3. /\ client'[links[j].who] = client[links[j].who] /\ host'[links[j].who] = host[links[j].who]
            /\ UNCHANGED <<latest, lease, outrun>>
        BY <2>2, <3>1, <3>2
      <3>4. Safe(links[j], host[links[j].who], latest, lease)
        BY <2>9, <3>1, <3>3, <1>f
      <3> QED BY <3>1, <3>3, <3>4
    <2> QED BY <2>9 DEF EditsDelivered, Active, Safe
  <1>15. ASSUME NEW c \in Dashboards, HelloStep(c) PROVE EditsDelivered'
    <2>1. /\ \A j \in Ids : links[j].who # c => links'[j] = links[j]
          /\ \A j \in Ids : links'[j].who = links[j].who
          /\ ~client'[c].connected
      <3>1. ~client'[c].connected
        BY <1>15 DEF HelloStep, Changed, Held, Holders
      <3>2. Marker("hello") \in Upward
        BY Kinds
      <3>3. ASSUME NEW i \in Ids, NEW m \in LinkType, SaysStep(c, i, m, Marker("hello"))
            PROVE  /\ \A j \in Ids : links[j].who # c => links'[j] = links[j]
                   /\ \A j \in Ids : links'[j].who = links[j].who
        BY <3>2, <3>3, SaysMore
      <3> QED BY <1>15, <3>1, <3>3 DEF HelloStep
    <2>2. /\ \A d \in Dashboards : d # c => client'[d] = client[d] /\ host'[d] = host[d]
          /\ UNCHANGED <<latest, lease, outrun>>
      BY <1>15 DEF HelloStep, Changed, ServerSame
    <2>9. ASSUME NEW j \in Ids, Active(links'[j], client'[links'[j].who], outrun'[links'[j].who])
          PROVE  Safe(links'[j], host'[links'[j].who], latest', lease')
      <3>1. links'[j].who # c /\ links'[j] = links[j] /\ Good(links[j])
        BY <2>1, <2>9 DEF Active
      <3>2. links[j].who \in Dashboards
        BY <3>1, <1>d
      <3>3. /\ client'[links[j].who] = client[links[j].who] /\ host'[links[j].who] = host[links[j].who]
            /\ UNCHANGED <<latest, lease, outrun>>
        BY <2>2, <3>1, <3>2
      <3>4. Safe(links[j], host[links[j].who], latest, lease)
        BY <2>9, <3>1, <3>3, <1>f
      <3> QED BY <3>1, <3>3, <3>4
    <2> QED BY <2>9 DEF EditsDelivered, Active, Safe
  <1>16. ASSUME NEW c \in Dashboards, StaleStep(c) PROVE EditsDelivered'
    <2>1. links' = links /\ ~client'[c].connected
      BY <1>16 DEF StaleStep, Changed
    <2>2. /\ \A d \in Dashboards : d # c => client'[d] = client[d] /\ host'[d] = host[d]
          /\ UNCHANGED <<latest, lease, outrun>>
      BY <1>16 DEF StaleStep, Changed, Shows, ServerSame
    <2>9. ASSUME NEW j \in Ids, Active(links'[j], client'[links'[j].who], outrun'[links'[j].who])
          PROVE  Safe(links'[j], host'[links'[j].who], latest', lease')
      <3>1. links'[j].who # c /\ links'[j] = links[j] /\ Good(links[j])
        BY <2>1, <2>9 DEF Active
      <3>2. links[j].who \in Dashboards
        BY <3>1, <1>d
      <3>3. /\ client'[links[j].who] = client[links[j].who] /\ host'[links[j].who] = host[links[j].who]
            /\ UNCHANGED <<latest, lease, outrun>>
        BY <2>2, <3>1, <3>2
      <3>4. Safe(links[j], host[links[j].who], latest, lease)
        BY <2>9, <3>1, <3>3, <1>f
      <3> QED BY <3>1, <3>3, <3>4
    <2> QED BY <2>9 DEF EditsDelivered, Active, Safe
  <1>17. ASSUME NEW c \in Dashboards, EditStep(c) PROVE EditsDelivered'
    <2>1. /\ \A d \in Dashboards : d # c => host'[d] = host[d]
          /\ host'[c].edit = issued + 1
          /\ UNCHANGED <<latest, lease, outrun, client>>
      BY <1>17 DEF EditStep, Shows
    <2>2. ASSUME NEW j \in Ids, Active(links[j], client[links[j].who], outrun[links[j].who]), links[j].who # c
          PROVE  Safe(links[j], host'[links[j].who], latest, lease)
      BY <2>1, <2>2, <1>d, <1>f, ActiveIsGood
    <2>3. ASSUME NEW i \in Ids, NEW m \in LinkType, SaysStep(c, i, m, Write(issued + 1)),
                 NEW j \in Ids, Active(links'[j], client'[links'[j].who], outrun'[links'[j].who])
          PROVE  Safe(links'[j], host'[links'[j].who], latest', lease')
      <3>1. Write(issued + 1) \in Upward /\ Write(issued + 1).value = issued + 1
        BY <2>3 DEF SaysStep, Write
      <3>2. /\ links[i].who = c /\ m.who = c /\ m.upward = Append(links[i].upward, Write(issued + 1))
            /\ links[i].upward \in Seq(Upward)
            /\ links'[i] = m /\ (\A k \in Ids : k # i => links'[k] = links[k])
            /\ \A k \in Ids : k # i /\ links[k].open => links[k].who # c
        BY <2>3, <3>1, SaysMore
      <3>3. CASE j = i
        <4>1. m.upward # <<>> /\ m.upward[Len(m.upward)].value = issued + 1
          BY <3>1, <3>2, Appended
        <4>2. Delivers(m.upward, issued + 1, latest', lease' \in {Nobody, c})
          BY <4>1 DEF Delivers
        <4>3. Delivers(m.upward, host'[c].edit, latest', lease' \in {Nobody, m.who})
          BY <2>1, <3>2, <4>2
        <4> QED BY <3>2, <3>3, <4>3 DEF Safe
      <3>4. CASE j # i
        <4>1. links'[j] = links[j] /\ links[j].who # c
          BY <2>3, <3>2, <3>4, ActiveIsGood
        <4>2. Active(links[j], client[links[j].who], outrun[links[j].who])
          BY <2>1, <2>3, <4>1
        <4> QED BY <2>1, <2>2, <4>1, <4>2
      <3> QED BY <3>3, <3>4
    <2>4. ASSUME client[c].connected => links[client[c].link].cut \/ links[client[c].link].slot = "closed",
                 NEW j \in Ids, Active(links[j], client[links[j].who], outrun[links[j].who])
          PROVE  links[j].who # c
      <3>1. client[links[j].who].connected /\ ~links[j].cut /\ links[j].slot = "serving" /\ client[links[j].who].link = j
        BY <2>4, <1>d, ActiveIsGood
      <3> QED BY <2>4, <3>1
    <2>9. ASSUME NEW j \in Ids, Active(links'[j], client'[links'[j].who], outrun'[links'[j].who])
          PROVE  Safe(links'[j], host'[links'[j].who], latest', lease')
      <3>1. CASE links' = links
        <4>0. Active(links[j], client[links[j].who], outrun[links[j].who])
          BY <2>1, <2>9, <3>1
        <4>1. ASSUME client[c].connected => links[client[c].link].cut \/ links[client[c].link].slot = "closed"
              PROVE  Safe(links'[j], host'[links'[j].who], latest', lease')
          <5>1. links[j].who # c
            BY <4>0, <4>1, <2>4
          <5> QED BY <2>1, <2>2, <3>1, <4>0, <5>1
        <4>2. ASSUME NEW i \in Ids, NEW m \in LinkType, SaysStep(c, i, m, Write(issued + 1))
              PROVE  Safe(links'[j], host'[links'[j].who], latest', lease')
          BY <2>3, <2>9, <4>2
        <4> QED BY <1>17, <4>1, <4>2 DEF EditStep
      <3>2. CASE links' # links
        <4>1. PICK i \in Ids, m \in LinkType : SaysStep(c, i, m, Write(issued + 1))
          BY <1>17, <3>2 DEF EditStep
        <4> QED BY <2>3, <2>9, <4>1
      <3> QED BY <3>1, <3>2
    <2> QED BY <2>9 DEF EditsDelivered, Active, Safe
  <1>18. ASSUME NEW c \in Dashboards, StateStep(c) PROVE EditsDelivered'
    <2>1. /\ \A d \in Dashboards : d # c => host'[d] = host[d]
          /\ host'[c].edit = host[c].edit
          /\ UNCHANGED <<latest, lease, outrun, client>>
      BY <1>18 DEF StateStep, Shows
    <2>2. ASSUME NEW j \in Ids, Active(links[j], client[links[j].who], outrun[links[j].who]), links[j].who # c
          PROVE  Safe(links[j], host'[links[j].who], latest, lease)
      BY <2>1, <2>2, <1>d, <1>f, ActiveIsGood
    <2>3. ASSUME NEW i \in Ids, NEW m \in LinkType, SaysStep(c, i, m, Write(host[c].edit)),
                 NEW j \in Ids, Active(links'[j], client'[links'[j].who], outrun'[links'[j].who])
          PROVE  Safe(links'[j], host'[links'[j].who], latest', lease')
      <3>1. Write(host[c].edit) \in Upward /\ Write(host[c].edit).value = host[c].edit
        BY <2>3 DEF SaysStep, Write
      <3>2. /\ links[i].who = c /\ m.who = c /\ m.upward = Append(links[i].upward, Write(host[c].edit))
            /\ links[i].upward \in Seq(Upward)
            /\ links'[i] = m /\ (\A k \in Ids : k # i => links'[k] = links[k])
            /\ \A k \in Ids : k # i /\ links[k].open => links[k].who # c
        BY <2>3, <3>1, SaysMore
      <3>3. CASE j = i
        <4>1. m.upward # <<>> /\ m.upward[Len(m.upward)].value = host[c].edit
          BY <3>1, <3>2, Appended
        <4>2. Delivers(m.upward, host[c].edit, latest', lease' \in {Nobody, c})
          BY <4>1 DEF Delivers
        <4>3. Delivers(m.upward, host'[c].edit, latest', lease' \in {Nobody, m.who})
          BY <2>1, <3>2, <4>2
        <4> QED BY <3>2, <3>3, <4>3 DEF Safe
      <3>4. CASE j # i
        <4>1. links'[j] = links[j] /\ links[j].who # c
          BY <2>3, <3>2, <3>4, ActiveIsGood
        <4>2. Active(links[j], client[links[j].who], outrun[links[j].who])
          BY <2>1, <2>3, <4>1
        <4> QED BY <2>1, <2>2, <4>1, <4>2
      <3> QED BY <3>3, <3>4
    <2>4. ASSUME client[c].connected => links[client[c].link].cut \/ links[client[c].link].slot = "closed",
                 NEW j \in Ids, Active(links[j], client[links[j].who], outrun[links[j].who])
          PROVE  links[j].who # c
      <3>1. client[links[j].who].connected /\ ~links[j].cut /\ links[j].slot = "serving" /\ client[links[j].who].link = j
        BY <2>4, <1>d, ActiveIsGood
      <3> QED BY <2>4, <3>1
    <2>5. host'[c].posted = Tail(host[c].posted) /\ host[c].posted # <<>> /\ host[c].posted \in Seq(States)
      <3>1. host[c].posted \in Seq(States)
        BY DEF TypeOK, HostsType, HostType
      <3> QED BY <1>18, <3>1 DEF StateStep, Shows
    <2>6. ASSUME NEW j \in Ids, Active(links[j], client[links[j].who], outrun[links[j].who]), links[j].who = c,
                 Head(host[c].posted) # "connected"
          PROVE  Safe(links[j], host'[c], latest, lease)
      <3>1. Safe(links[j], host[c], latest, lease)
        BY <2>6, <1>f
      <3>2. Contains(host[c].posted, "connected") => Contains(host'[c].posted, "connected")
        BY <2>5, <2>6, ContainsRest
      <3> QED BY <2>1, <3>1, <3>2 DEF Safe
    <2>7. ASSUME NEW j \in Ids, Active(links[j], client[links[j].who], outrun[links[j].who]), links[j].who = c,
                 host[c].edit = NoValue
          PROVE  Safe(links[j], host'[c], latest, lease)
      <3>1. links[j].upward \in Seq(Upward) /\ All(links[j].upward, "write") /\ Edits(links[j].upward, NoValue)
        BY <2>7, <1>a, LinkFields, ActiveIsGood DEF Slots, Serving, Numbered, WritesAreEdits
      <3>2. links[j].upward = <<>>
        <4>1. ASSUME links[j].upward # <<>> PROVE FALSE
          <5>1. 1 \in DOMAIN links[j].upward /\ links[j].upward[1] \in Upward
            BY <3>1, <4>1, Removed
          <5>2. links[j].upward[1].value > 0 /\ links[j].upward[1].value <= 0
            BY <3>1, <5>1, <1>e DEF All, Edits
          <5>3. links[j].upward[1].value \in Nat
            BY <5>1 DEF Upward
          <5> QED BY <5>2, <5>3
        <4> QED BY <4>1
      <3>3. latest >= host'[c].edit
        BY <2>1, <2>7, <1>e
      <3> QED BY <3>2, <3>3 DEF Safe, Delivers
    <2>9. ASSUME NEW j \in Ids, Active(links'[j], client'[links'[j].who], outrun'[links'[j].who])
          PROVE  Safe(links'[j], host'[links'[j].who], latest', lease')
      <3>1. CASE links' = links
        <4>0. Active(links[j], client[links[j].who], outrun[links[j].who])
          BY <2>1, <2>9, <3>1
        <4>1. ASSUME client[c].connected => links[client[c].link].cut \/ links[client[c].link].slot = "closed"
              PROVE  Safe(links[j], host'[links[j].who], latest, lease)
          <5>1. links[j].who # c
            BY <4>0, <4>1, <2>4
          <5> QED BY <2>2, <4>0, <5>1
        <4>2. ASSUME NEW i \in Ids, NEW m \in LinkType, SaysStep(c, i, m, Write(host[c].edit))
              PROVE  Safe(links[j], host'[links[j].who], latest, lease)
          BY <2>1, <2>3, <2>9, <3>1, <4>2
        <4>3. ASSUME Head(host[c].posted) # "connected" \/ host[c].edit = NoValue
              PROVE  Safe(links[j], host'[links[j].who], latest, lease)
          BY <2>2, <2>6, <2>7, <4>0, <4>3
        <4>4. Safe(links[j], host'[links[j].who], latest, lease)
          BY <1>18, <4>1, <4>2, <4>3 DEF StateStep
        <4> QED BY <2>1, <3>1, <4>4
      <3>2. CASE links' # links
        <4>1. PICK i \in Ids, m \in LinkType : SaysStep(c, i, m, Write(host[c].edit))
          BY <1>18, <3>2 DEF StateStep
        <4> QED BY <2>3, <2>9, <4>1
      <3> QED BY <3>1, <3>2
    <2> QED BY <2>9 DEF EditsDelivered, Active, Safe
  <1>19. ASSUME NEW c \in Dashboards, LeaveStep(c) PROVE EditsDelivered'
    <2>1. /\ ~client'[c].connected
          /\ \A j \in Ids : links'[j] = links[j] \/ ~links'[j].open
      <3>1. ~client'[c].connected
        BY <1>19 DEF LeaveStep, Changed, Out
      <3>2. ASSUME NEW i \in Ids, NEW m \in LinkType, Turned(i, m), ~m.open
            PROVE  \A j \in Ids : links'[j] = links[j] \/ ~links'[j].open
        BY <3>2 DEF Turned
      <3> QED BY <1>19, <3>1, <3>2, Blank DEF LeaveStep, Is
    <2>2. /\ \A d \in Dashboards : d # c => client'[d] = client[d] /\ host'[d] = host[d]
          /\ UNCHANGED <<latest, lease, outrun>>
      BY <1>19 DEF LeaveStep, Changed, Shows, ServerSame
    <2>9. ASSUME NEW j \in Ids, Active(links'[j], client'[links'[j].who], outrun'[links'[j].who])
          PROVE  Safe(links'[j], host'[links'[j].who], latest', lease')
      <3>1. links'[j].who # c /\ links'[j] = links[j] /\ Good(links[j])
        BY <2>1, <2>9 DEF Active, Good
      <3>2. links[j].who \in Dashboards
        BY <3>1, <1>d
      <3>3. /\ client'[links[j].who] = client[links[j].who] /\ host'[links[j].who] = host[links[j].who]
            /\ UNCHANGED <<latest, lease, outrun>>
        BY <2>2, <3>1, <3>2
      <3>4. Safe(links[j], host[links[j].who], latest, lease)
        BY <2>9, <3>1, <3>3, <1>f
      <3> QED BY <3>1, <3>3, <3>4
    <2> QED BY <2>9 DEF EditsDelivered, Active, Safe
  <1>20. ASSUME NEW c \in Dashboards, IdleStep(c) PROVE EditsDelivered'
    <2>1. links' = links /\ UNCHANGED <<latest, lease, outrun>>
      BY <1>20 DEF IdleStep, ServerSame
    <2>2. \A d \in Dashboards : /\ client'[d].connected => client[d].connected
                                /\ host'[d].edit = host[d].edit
                                /\ Contains(host[d].posted, "connected") => Contains(host'[d].posted, "connected")
      <3>1. \A d \in Dashboards : client'[d].connected => client[d].connected
        BY <1>20 DEF IdleStep, Changed
      <3>2. PICK h \in HostType : /\ Shows(c, h) /\ h.edit = host[c].edit
                                  /\ Contains(host[c].posted, "connected") => Contains(h.posted, "connected")
        BY <1>20 DEF IdleStep
      <3>3. host'[c] = h /\ \A d \in Dashboards : d # c => host'[d] = host[d]
        BY <3>2 DEF Shows
      <3> QED BY <3>1, <3>2, <3>3
    <2>9. ASSUME NEW j \in Ids, Active(links'[j], client'[links'[j].who], outrun'[links'[j].who])
          PROVE  Safe(links'[j], host'[links'[j].who], latest', lease')
      <3>1. links[j].who \in Dashboards /\ Active(links[j], client[links[j].who], outrun[links[j].who])
        BY <2>1, <2>2, <2>9, <1>d DEF Active
      <3>2. Safe(links[j], host[links[j].who], latest, lease)
        BY <3>1, <1>f
      <3>3. Safe(links[j], host'[links[j].who], latest, lease)
        BY <2>2, <3>1, <3>2 DEF Safe
      <3> QED BY <2>1, <3>3
    <2> QED BY <2>9 DEF EditsDelivered, Active, Safe
  <1>21. ASSUME NEW c \in Dashboards, NEW i \in Ids, NEW m \in LinkType, NEW x \in ClientType, ReceiveStep(c, i, m, x) PROVE EditsDelivered'
    <2>1. links'[i] = m /\ (\A j \in Ids : j # i => links'[j] = links[j])
      BY <1>21 DEF ReceiveStep, Turned
    <2>2. client'[c] = x /\ (\A d \in Dashboards : d # c => client'[d] = client[d])
      BY <1>21 DEF ReceiveStep, Changed
    <2>3. /\ m.who = links[i].who /\ m.slot = links[i].slot /\ m.listed = links[i].listed
          /\ m.early = links[i].early /\ m.open = links[i].open /\ m.cut = links[i].cut
          /\ m.upward = links[i].upward /\ m.downward = Tail(links[i].downward)
      BY <1>21 DEF ReceiveStep, Is
    <2>4. i = client[c].link /\ links[i].downward # <<>> /\ UNCHANGED <<latest, lease, outrun>>
          /\ Takes(client[c], Head(links[i].downward), x)
      BY <1>21 DEF ReceiveStep, ServerSame
    <2>5. links[i].who = c /\ \A j \in Ids : j # i /\ Good(links[j]) => links[j].who # c
      BY <2>4, <1>b, <1>d DEF Held, Holders
    <2>6. \A d \in Dashboards : d # c => host'[d] = host[d]
      BY <1>21 DEF ReceiveStep, Shows
    <2>7. ASSUME Active(m, x, outrun[c]) PROVE Safe(m, host'[c], latest, lease)
      <3> DEFINE first == Head(links[i].downward)
      <3>1. x.connected /\ first.kind # "snapshot begin"
        BY <2>4, <2>7 DEF Active, Takes
      <3>2. ASSUME UNCHANGED host, first.kind = "live begin" => client[c].connected
            PROVE  Safe(m, host'[c], latest, lease)
        <4>2. client[c].connected
          BY <2>4, <3>1, <3>2 DEF Takes
        <4>3. Active(links[i], client[c], outrun[c])
          BY <2>3, <2>7, <4>2 DEF Active, Good, Alive
        <4>4. Safe(links[i], host[c], latest, lease)
          BY <4>3, <2>5, <1>f
        <4>5. links[i].downward \in Seq(Downward)
          BY <1>a, LinkFields
        <4>6. Has(links[i].downward, "snapshot begin") => Has(m.downward, "snapshot begin")
          <5> DEFINE q == links[i].downward
          <5>1. q \in Seq(Downward) /\ q # <<>> /\ Head(q).kind # "snapshot begin" /\ m.downward = Tail(q)
            BY <2>3, <2>4, <3>1, <4>5
          <5> HIDE DEF q
          <5>2. Has(q, "snapshot begin") => Has(Tail(q), "snapshot begin")
            BY <5>1, HasRest
          <5> QED BY <5>1, <5>2 DEF q
        <4> QED BY <2>3, <3>2, <4>4, <4>6 DEF Safe
      <3>3. ASSUME NEW h \in HostType, Shows(c, h), h.posted = Append(host[c].posted, "connected")
            PROVE  Safe(m, host'[c], latest, lease)
        <4>1. host[c].posted \in Seq(States) /\ "connected" \in States
          BY DEF TypeOK, HostsType, HostType, States
        <4>2. Contains(h.posted, "connected")
          BY <3>3, <4>1, ContainsLast
        <4>3. host'[c] = h
          BY <3>3 DEF Shows
        <4> QED BY <4>2, <4>3 DEF Safe
      <3> QED BY <1>21, <3>1, <3>2, <3>3 DEF ReceiveStep
    <2>9. ASSUME NEW j \in Ids, Active(links'[j], client'[links'[j].who], outrun'[links'[j].who])
          PROVE  Safe(links'[j], host'[links'[j].who], latest', lease')
      <3>1. CASE j = i
        BY <2>1, <2>2, <2>3, <2>4, <2>5, <2>7, <2>9, <3>1
      <3>2. CASE j # i
        <4>1. links'[j] = links[j] /\ Good(links[j])
          BY <2>1, <2>9, <3>2, ActiveIsGood
        <4>2. links[j].who # c /\ links[j].who \in Dashboards
          BY <2>5, <3>2, <4>1, <1>d
        <4>3. client'[links[j].who] = client[links[j].who] /\ host'[links[j].who] = host[links[j].who]
          BY <2>2, <2>6, <4>2
        <4>4. Safe(links[j], host[links[j].who], latest, lease)
          BY <2>4, <2>9, <4>1, <4>3, <1>f
        <4> QED BY <2>4, <4>1, <4>3, <4>4
      <3> QED BY <3>1, <3>2
    <2> QED BY <2>9 DEF EditsDelivered, Active, Safe
  <1> QED BY <1>1, <1>2, <1>3, <1>4, <1>5, <1>6, <1>7, <1>8, <1>9, <1>10, <1>11, <1>12, <1>13,
     <1>14, <1>15, <1>16, <1>17, <1>18, <1>19, <1>20, <1>21, StepKinds

-----------------------------------------------------------------------------
(* The invariant and the theorems *)

Inv == Structure /\ StreamsBring /\ EditsDelivered

LEMMA InitHolds ==
    ASSUME Init
    PROVE  Inv
  <1>a. NoLink \notin Ids /\ NoLink \in 0 .. MaxLinks /\ NoLink = 0 /\ NoValue = 0 /\ Nobody \notin Dashboards
    BY LinkNumbers, TcpAssumption DEF NoLink, NoValue
  <1>b. NewClient \in ClientType /\ NewClient.run = "none" /\ NewClient.link = NoLink
        /\ NewClient.phase = "descriptors" /\ ~NewClient.connected /\ NewClient.told = NoValue
    BY <1>a DEF NewClient, ClientType, Showing
  <1>c. \A i \in Ids : links[i] = NoConnection
    BY DEF Init
  <1>d. \A c \in Dashboards : client[c] = NewClient
    BY DEF Init
  <1> DEFINE window == [shown |-> "off", posted |-> <<>>, timer |-> FALSE, userOff |-> FALSE, edit |-> NoValue]
  <1>e. window \in HostType /\ window.posted = <<>> /\ window.edit = NoValue
    <2>1. <<>> \in Seq(States)
      BY EmptySeq
    <2> QED BY <1>a, <2>1 DEF HostType
  <1>f. host = [c \in Dashboards |-> window]
    BY DEF Init
  <1>g. /\ NoConnection.who = Nobody /\ NoConnection.slot = "none" /\ ~NoConnection.open /\ ~NoConnection.listed
        /\ ~NoConnection.early /\ NoConnection.upward = <<>> /\ NoConnection.downward = <<>>
    BY Blank DEF Is
  <1> HIDE DEF window
  <1>1. TypeOK
    <2>1. LinksType
      BY BlankLink DEF Init, LinksType
    <2>2. ClientsType
      BY <1>b DEF Init, ClientsType
    <2>3. HostsType
      BY <1>e, <1>f DEF HostsType
    <2>4. QueuesType
      BY DEF Init, QueuesType
    <2>5. ServerType
      BY <1>a DEF Init, ServerType
    <2>6. CountersType
      BY DEF Init, CountersType
    <2> QED BY <2>1, <2>2, <2>3, <2>4, <2>5, <2>6 DEF TypeOK
  <1>2. Held
    BY <1>a, <1>b, <1>c, <1>d, <1>g DEF Held, Blanks, OpenOnes, Holders
  <1>3. Slots
    <2>1. accepting = NoLink
      BY DEF Init
    <2> QED BY <2>1, <1>c, <1>g DEF Slots, Stopped, Accepting, Unlisted, Ungreeted, Serving, Alive
  <1>4. Fresh
    BY <1>b, <1>c, <1>d, <1>g DEF Fresh, NothingYet, StillBlank, DialsBlank, Unheard
  <1>5. Greetings
    BY <1>c, <1>g DEF Greetings, BeforeHello, HelloFirst, HelloStays
  <1>6. Numbered
    <2>1. lease = Nobody /\ issued = 0
      BY DEF Init
    <2>2. \A c \in Dashboards : host[c].edit = 0
      BY <1>a, <1>e, <1>f
    <2>3. EditsAreIssued
      BY <2>1, <2>2 DEF EditsAreIssued
    <2>4. WritesAreEdits
      BY <1>a, <1>c, <1>g DEF WritesAreEdits
    <2> QED BY <2>1, <2>3, <2>4 DEF Numbered, LeaseHasValue
  <1>7. \A i \in Ids : ~Good(links[i])
    BY <1>c, <1>g DEF Good
  <1>8. StreamsBring /\ EditsDelivered
    BY <1>7 DEF StreamsBring, EditsDelivered
  <1>9. Owed
    BY DEF Init, Owed
  <1> QED BY <1>1, <1>2, <1>3, <1>4, <1>5, <1>6, <1>8, <1>9 DEF Inv, Structure

LEMMA StepHolds ==
    ASSUME Inv, [Next]_vars
    PROVE  Inv'
  <1>1. TypeOK /\ Held /\ Slots /\ Fresh /\ Greetings /\ Numbered /\ Owed /\ StreamsBring /\ EditsDelivered
    BY DEF Inv, Structure
  <1>2. TypeOK'
    BY <1>1, TypesStep
  <1>3. Held'
    BY <1>1, HeldStep DEF Held
  <1>4. Slots'
    BY <1>1, SlotsStep DEF Slots
  <1>5. Fresh'
    BY <1>1, FreshStep DEF Fresh
  <1>6. Greetings'
    BY <1>1, GreetingsStep DEF Greetings
  <1>7. Numbered'
    BY <1>1, NumberedStep DEF Numbered
  <1>8. StreamsBring' /\ EditsDelivered'
    BY <1>1, StreamsStep, EditsStep
  <1>9. Owed'
    BY <1>1, OwedStep
  <1> QED BY <1>2, <1>3, <1>4, <1>5, <1>6, <1>7, <1>8, <1>9 DEF Inv, Structure

\* The links, clients and windows hold together: a connection is with the client that
\* holds it, a slot is served as AcceptLoop and ReadLoop left it, what a client sends
\* before its hello is no write, and what is under way brings clients and edits through.
THEOREM CarrierInvariant == Spec => []Inv
  <1>1. Init => Inv
    BY InitHolds
  <1>2. Inv /\ [Next]_vars => Inv'
    BY StepHolds
  <1> QED BY <1>1, <1>2, PTL DEF Spec

\* A connection that settles is good.
LEMMA SettlesGood ==
    ASSUME Inv, NEW c \in Dashboards, Settling(c)
    PROVE  /\ client[c].link \in Ids /\ Good(links[client[c].link]) /\ links[client[c].link].who = c
           /\ links[client[c].link].downward = <<>>
           /\ client[c].connected /\ client[c].run = "receiving" /\ client[c].phase # "descriptors"
  <1>1. client[c].link \in 0 .. MaxLinks
    BY DEF Inv, Structure, TypeOK, ClientsType, ClientType
  <1>2. client[c].connected /\ client[c].run = "receiving" /\ client[c].phase # "descriptors"
    BY DEF Settling, Inv, Structure, Held, Holders
  <1>3. client[c].link # NoLink /\ links[client[c].link].who = c /\ links[client[c].link].open
    BY <1>2 DEF Inv, Structure, Held, Holders
  <1>4. client[c].link \in Ids
    BY <1>1, <1>3, LinkNumbers
  <1>5. Good(links[client[c].link]) /\ links[client[c].link].downward = <<>>
    BY <1>3 DEF Settling, Good
  <1> QED BY <1>2, <1>3, <1>4, <1>5

\* A client that is connected on a good connection and has taken everything was told the
\* authority's value last, and shows it unless its own refused write came behind: the
\* snapshot in SendSnapshotToClient and the updates behind it are enough, whatever
\* restarts, breaks, stale reports and writes, taken or refused, came between.
THEOREM SettledClientsConverge == Spec => []Converges
  <1>1. ASSUME Inv PROVE Converges
    <2>1. ASSUME NEW c \in Dashboards, Settling(c) PROVE client[c].told = latest
      <3> DEFINE i == client[c].link
      <3>1. i \in Ids /\ Good(links[i]) /\ links[i].who = c /\ links[i].downward = <<>> /\ client[c].phase # "descriptors"
        BY <1>1, <2>1, SettlesGood
      <3>2. Brings(client[c].phase, client[c].told, links[i].downward, latest)
        BY <1>1, <3>1 DEF Inv, StreamsBring
      <3>3. ~Has(links[i].downward, "update")
        BY <3>1 DEF Has
      <3> QED BY <3>1, <3>2, <3>3 DEF Brings
    <2>2. ASSUME NEW c \in Dashboards PROVE client[c].refused \/ client[c].view = client[c].told
      BY <1>1 DEF Inv, Structure, TypeOK, ClientsType, ClientType, Showing
    <2> QED BY <2>1, <2>2 DEF Converges
  <1> QED BY <1>1, CarrierInvariant, PTL

\* What the operator set survives reconnections: RepublishPluginControlEdits and the
\* server's lease leave the authority on no value older than a connected dashboard's last
\* edit, unless a write from a connection the dashboard had left was taken.
THEOREM EditsSurvive == Spec => []EditSurvives
  <1>1. ASSUME Inv PROVE EditSurvives
    <2>1. ASSUME NEW c \in Dashboards, Settling(c), host[c].posted = <<>>,
                 links[client[c].link].upward = <<>>, lease \in {Nobody, c}, ~outrun[c]
          PROVE  latest >= host[c].edit
      <3> DEFINE i == client[c].link
      <3>1. i \in Ids /\ Good(links[i]) /\ links[i].who = c /\ links[i].downward = <<>>
            /\ client[c].connected /\ client[c].run = "receiving"
        BY <1>1, <2>1, SettlesGood
      <3>2. links[i].slot = "serving"
        <4>1. links[i].slot # "accepted"
          BY <1>1, <2>1, <3>1 DEF Inv, Structure, Greetings, HelloStays, Good
        <4> QED BY <3>1, <4>1 DEF Good, Alive
      <3>3. \/ Contains(host[c].posted, "connected")
            \/ Has(links[i].downward, "snapshot begin")
            \/ Delivers(links[i].upward, host[c].edit, latest, lease \in {Nobody, c})
        BY <1>1, <2>1, <3>1, <3>2 DEF Inv, EditsDelivered
      <3>4. ~Contains(host[c].posted, "connected") /\ ~Has(links[i].downward, "snapshot begin")
        BY <2>1, <3>1 DEF Contains, Has
      <3>5. Delivers(links[i].upward, host[c].edit, latest, lease \in {Nobody, c})
        BY <3>3, <3>4
      <3> QED BY <2>1, <3>5 DEF Delivers
    <2> QED BY <2>1 DEF EditSurvives
  <1> QED BY <1>1, CarrierInvariant, PTL
=============================================================================
