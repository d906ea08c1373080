-------------------------- MODULE ClientLibraryProofs --------------------------
(***************************************************************************)
(* Proofs about SmartDashboardClient for any finite set of keys, any types    *)
(* and every value of the bounds: cache, store and callbacks hold the last    *)
(* Put* of every key when all has come back, and the application reads its    *)
(* own writes at once as long as nothing was replayed.                        *)
(***************************************************************************)
EXTENDS SmartDashboardClient, RetainedStore, PlacesProofs

-----------------------------------------------------------------------------
(* The types *)

Subscriptions == [id : 1 .. MaxSubs, immediate : BOOLEAN, since : Nat]
Steps == [do : {"store", "callback", "publish", "flush"}, key : Keys, version : Int, sub : 0 .. MaxSubs]
Messages == [key : Keys, version : Nat \ {0}, seq : Nat \ {0}]
Commands == [key : Keys, type : Types, n : Nat]

Tables == Keys \X Types \X BOOLEAN

ClientTypeOK ==
    /\ running \in BOOLEAN /\ storeOpen = running /\ observed \in BOOLEAN
    /\ typeOf \in Seq(Types) /\ localSeq = Len(typeOf) + 1
    /\ cache \in [Keys -> [version : Nat, seq : Nat]]
    /\ truth \in [Keys -> Nat] /\ store \in [Keys -> Nat]
    /\ kept \in [Keys -> Nat] /\ pending \in [Keys -> Nat] /\ pubSeq \in Nat
    /\ snapshot \in [Keys -> Nat] /\ overtaken \subseteq Keys
    /\ subs \in [Keys \X Types \X BOOLEAN -> Seq(Subscriptions)]
    /\ nextId \in Nat \ {0}
    /\ job \in [Threads -> Seq(Steps)]
    /\ ring \in Seq(Messages) /\ commands \in Seq(Commands)
    /\ seen \in [1 .. MaxSubs -> Int]
    /\ replays \in Nat /\ sent \in Nat

-----------------------------------------------------------------------------
(* The inductive invariant *)

\* The application is between a Put* of the key and its StorePending.
Publishing(k) == \E i \in DOMAIN job[App] : job[App][i].do = "publish" /\ job[App][i].key = k

\* Nothing holds a version that was not put, and what is pending is the last that was
\* published unless a replay's copy overtook it.
VersionsPut == \A k \in Keys :
    /\ truth[k] <= Len(typeOf)
    /\ cache[k].version <= truth[k] /\ store[k] <= truth[k] /\ kept[k] <= truth[k]
    /\ pending[k] <= truth[k] /\ snapshot[k] <= truth[k]
    /\ k \in overtaken \/ pending[k] \in {0, kept[k]}
    /\ Publishing(k) \/ kept[k] = truth[k]

AskedForChanges(id, k) == \E type \in Types : \E n \in DOMAIN subs[<<k, type, FALSE>>] :
    subs[<<k, type, FALSE>>][n].id = id /\ ~subs[<<k, type, FALSE>>][n].immediate

\* The application publishes its last Put*, and only after the store and the callbacks;
\* but for these it calls nobody who asked for no immediate call.
AppJob == \A i \in DOMAIN job[App] : LET s == job[App][i] IN
    /\ s.do = "publish" => /\ s.version = truth[s.key] /\ s.version # 0 /\ truth[s.key] = Len(typeOf)
                           /\ \A j \in DOMAIN job[App] : job[App][j].do = "publish" => j = i
    /\ s.do = "store" => s.version = truth[s.key]
    /\ s.do = "store" \/ (s.do = "callback" /\ AskedForChanges(s.sub, s.key))
       => \E j \in DOMAIN job[App] : j > i /\ job[App][j].do = "publish" /\ job[App][j].key = s.key

\* The subscriber's thread brings one value to the store and then to the callbacks.
ReaderJob == \A i \in DOMAIN job[Reader] : LET s == job[Reader][i] IN
    /\ s.do = "callback" \/ (s.do = "store" /\ i = 1)
    /\ s.version \in 1 .. truth[s.key]
    /\ \A j \in DOMAIN job[Reader] : job[Reader][j].key = s.key /\ job[Reader][j].version = s.version

CommanderJob == \A i \in DOMAIN job[Commander] : job[Commander][i].do = "callback"

\* A number is given to one subscription, and a callback that was copied for it is for its key.
NumbersUnique ==
    /\ \A x \in Tables : \A i \in DOMAIN subs[x] : subs[x][i].id < nextId
    /\ \A x, y \in Tables : \A i \in DOMAIN subs[x], j \in DOMAIN subs[y] :
           subs[x][i].id = subs[y][j].id => x = y /\ i = j

CallbacksKnown == \A t \in Threads : \A n \in DOMAIN job[t] : LET s == job[t][n] IN
    s.do = "callback" =>
        /\ s.sub < nextId
        /\ \A x \in Tables : \A i \in DOMAIN subs[x] :
               subs[x][i].id = s.sub => x[1] = s.key /\ x[3] = (t = Commander)

\* The ring is in the order of the publisher's numbers.
RingOrder == \A i \in DOMAIN ring :
    /\ ring[i].seq <= pubSeq /\ ring[i].version <= truth[ring[i].key]
    /\ \A j \in DOMAIN ring : i < j => ring[i].seq < ring[j].seq

\* A value in the cache that is not the last one is older than all the ring holds.
Heard(k) == cache[k].seq <= pubSeq /\ \A i \in DOMAIN ring : cache[k].seq < ring[i].seq
CacheOrder == \A k \in Keys : (cache[k].version = truth[k] /\ cache[k].seq < localSeq) \/ Heard(k)

\* The last Put* of the key has still to come to the ring, after everything there, or a
\* replay's copy was sent instead of it.
Underway(k) ==
    ~running \/ ~observed \/ Publishing(k) \/ pending[k] # 0 \/ snapshot[k] # 0 \/ k \in overtaken
InRing(k) == \E i \in DOMAIN ring : ring[i].key = k
Home(k) == ~Underway(k) /\ ~InRing(k)

LastInRing == \A i \in DOMAIN ring : LET u == ring[i] IN
    Underway(u.key) \/ u.version = truth[u.key] \/ \E j \in DOMAIN ring : j > i /\ ring[j].key = u.key

CacheHome == \A k \in Keys : Home(k) => cache[k].version = truth[k]

Bringing(kind, k) == \E i \in DOMAIN job[Reader] :
    job[Reader][i].do = kind /\ job[Reader][i].key = k
Brings(kind, k) == \E i \in DOMAIN job[Reader] :
    job[Reader][i].do = kind /\ job[Reader][i].key = k /\ job[Reader][i].version = truth[k]
StoreHome == \A k \in Keys : Home(k) =>
    Brings("store", k) \/ (~Bringing("store", k) /\ store[k] = truth[k])

Calling(id) == \E i \in DOMAIN job[Reader] :
    job[Reader][i].do = "callback" /\ job[Reader][i].sub = id
Calls(id, v) == \E i \in DOMAIN job[Reader] :
    job[Reader][i].do = "callback" /\ job[Reader][i].sub = id /\ job[Reader][i].version = v
Owed(s, k, type) == ~s.immediate /\ truth[k] > s.since /\ typeOf[truth[k]] = type
CallbackHome == \A k \in Keys, type \in Types : \A i \in DOMAIN subs[<<k, type, FALSE>>] :
    LET s == subs[<<k, type, FALSE>>][i] IN
    Home(k) /\ Owed(s, k, type) => Calls(s.id, truth[k]) \/ (~Calling(s.id) /\ seen[s.id] = truth[k])

Structure == ClientTypeOK /\ VersionsPut /\ AppJob /\ ReaderJob /\ CommanderJob
Numbers == NumbersUnique /\ CallbacksKnown
Orders == RingOrder /\ CacheOrder /\ LastInRing
AtHome == CacheHome /\ StoreHome /\ CallbackHome

\* Without a replay the publisher's numbers stay behind the client's.
Waiting == {k \in Keys : pending[k] # 0}
Ahead == IF \E k \in Keys : Publishing(k) THEN 1 ELSE 0
NumbersBehind ==
    /\ pubSeq + Cardinality(Waiting) + Ahead <= Len(typeOf)
    /\ \A k \in Keys :
        /\ cache[k].version = truth[k]
        /\ truth[k] <= cache[k].seq /\ cache[k].seq <= Len(typeOf)
    /\ \A i \in DOMAIN ring : LET u == ring[i] IN
        u.version # truth[u.key] => u.seq < cache[u.key].seq
Behind == replays = 0 => NumbersBehind /\ snapshot = None /\ overtaken = {}

-----------------------------------------------------------------------------
(* Sequences *)

\* The head and the tail of a sequence, entry by entry.
LEMMA TailEntries ==
    ASSUME NEW S, NEW s \in Seq(S), s # <<>>
    PROVE  /\ 1 \in DOMAIN s /\ Head(s) = s[1] /\ Head(s) \in S /\ Tail(s) \in Seq(S)
           /\ \A i \in DOMAIN Tail(s) : i \in Nat /\ i >= 1 /\ i + 1 \in DOMAIN s /\ Tail(s)[i] = s[i + 1]
           /\ \A i \in DOMAIN s : i \in Nat /\ i >= 1
           /\ \A i \in DOMAIN s : i = 1 \/ (i - 1 \in DOMAIN Tail(s) /\ Tail(s)[i - 1] = s[i])
  <1>1. Len(s) \in Nat \ {0} /\ DOMAIN s = 1 .. Len(s)
    BY EmptySeq, LenProperties
  <1>2. Tail(s) \in Seq(S) /\ Len(Tail(s)) = Len(s) - 1 /\ DOMAIN Tail(s) = 1 .. Len(Tail(s))
        /\ Head(s) \in S /\ \A i \in 1 .. Len(Tail(s)) : Tail(s)[i] = s[i + 1]
    BY HeadTailProperties, LenProperties
  <1>3. Head(s) = s[1]
    BY <1>1
  <1>4. \A i \in 1 .. Len(Tail(s)) : i \in Nat /\ i >= 1 /\ i + 1 \in 1 .. Len(s)
    BY <1>1, <1>2
  <1>5. ASSUME NEW i \in 1 .. Len(s), i # 1
        PROVE  i - 1 \in 1 .. Len(Tail(s)) /\ Tail(s)[i - 1] = s[i]
    <2>1. i - 1 \in 1 .. Len(Tail(s)) /\ (i - 1) + 1 = i
      BY <1>1, <1>2, <1>5
    <2> QED BY <1>2, <2>1
  <1>6. 1 \in 1 .. Len(s) /\ \A i \in 1 .. Len(s) : i \in Nat /\ i >= 1
    BY <1>1
  <1> QED BY <1>1, <1>2, <1>3, <1>4, <1>5, <1>6

\* A sequence appended to another, entry by entry.
LEMMA JoinEntries ==
    ASSUME NEW S, NEW s \in Seq(S), NEW t \in Seq(S)
    PROVE  /\ s \o t \in Seq(S) /\ DOMAIN (s \o t) = 1 .. Len(s) + Len(t)
           /\ \A i \in DOMAIN s : i \in DOMAIN (s \o t) /\ (s \o t)[i] = s[i]
           /\ \A i \in DOMAIN t : i + Len(s) \in DOMAIN (s \o t) /\ (s \o t)[i + Len(s)] = t[i]
           /\ \A i \in DOMAIN (s \o t) :
                  \/ i \in DOMAIN s /\ (s \o t)[i] = s[i]
                  \/ i > Len(s) /\ i - Len(s) \in DOMAIN t /\ (s \o t)[i] = t[i - Len(s)]
  <1>1. Len(s) \in Nat /\ DOMAIN s = 1 .. Len(s) /\ Len(t) \in Nat /\ DOMAIN t = 1 .. Len(t)
    BY LenProperties
  <1>2. /\ s \o t \in Seq(S) /\ Len(s \o t) = Len(s) + Len(t) /\ DOMAIN (s \o t) = 1 .. Len(s \o t)
        /\ \A i \in 1 .. Len(s) + Len(t) : (s \o t)[i] = IF i <= Len(s) THEN s[i] ELSE t[i - Len(s)]
    BY ConcatProperties, LenProperties
  <1>3. ASSUME NEW i \in 1 .. Len(t)
        PROVE  i + Len(s) \in 1 .. Len(s) + Len(t) /\ (s \o t)[i + Len(s)] = t[i]
    <2>1. i + Len(s) \in 1 .. Len(s) + Len(t) /\ ~(i + Len(s) <= Len(s)) /\ (i + Len(s)) - Len(s) = i
      BY <1>1
    <2> QED BY <1>2, <2>1
  <1>4. ASSUME NEW i \in 1 .. Len(s) PROVE i \in 1 .. Len(s) + Len(t) /\ (s \o t)[i] = s[i]
    BY <1>1, <1>2
  <1>5. ASSUME NEW i \in 1 .. Len(s) + Len(t)
        PROVE  \/ i \in 1 .. Len(s) /\ (s \o t)[i] = s[i]
               \/ i > Len(s) /\ i - Len(s) \in 1 .. Len(t) /\ (s \o t)[i] = t[i - Len(s)]
    BY <1>1, <1>2
  <1> QED BY <1>1, <1>2, <1>3, <1>4, <1>5

\* A sequence of one.
LEMMA OneEntry ==
    ASSUME NEW S, NEW x \in S
    PROVE  <<x>> \in Seq(S) /\ Len(<<x>>) = 1 /\ DOMAIN <<x>> = {1} /\ <<x>>[1] = x
  <1>1. Len(<<x>>) = 1 /\ <<x>>[1] = x
    OBVIOUS
  <1>2. <<x>> \in Seq(S)
    OBVIOUS
  <1>3. DOMAIN <<x>> = 1 .. Len(<<x>>)
    BY <1>2, LenProperties
  <1>4. 1 .. 1 = {1}
    OBVIOUS
  <1> QED BY <1>1, <1>2, <1>3, <1>4

\* The orders of a finite set list each of its members once.
LEMMA OrderEntries ==
    ASSUME NEW S, IsFiniteSet(S), NEW order \in SetToSeqs(S)
    PROVE  /\ order \in Seq(S) /\ Len(order) = Cardinality(S) /\ Cardinality(S) \in Nat
           /\ DOMAIN order = 1 .. Cardinality(S)
           /\ \A i, j \in DOMAIN order : order[i] = order[j] => i = j
           /\ \A x \in S : \E i \in DOMAIN order : order[i] = x
  <1> DEFINE n == Cardinality(S)
  <1>1. n \in Nat
    BY FS_CardinalityType
  <1>2. order \in [1 .. n -> S] /\ \A i, j \in 1 .. n : i # j => order[i] # order[j]
    BY DEF SetToSeqs
  <1>3. order \in Seq(S) /\ Len(order) = n
    <2> HIDE DEF n
    <2> QED BY <1>1, <1>2, SeqDef
  <1>4. order \in Injection(1 .. n, S)
    BY <1>2 DEF Injection, IsInjective
  <1>5. Cardinality(1 .. n) = n
    <2>1. 1 \in Int /\ n \in Int
      BY <1>1
    <2>2. Cardinality(1 .. n) = IF 1 > n THEN 0 ELSE n - 1 + 1
      BY <2>1, FS_Interval
    <2> HIDE DEF n
    <2> QED BY <1>1, <2>2
  <1>6. order \in Surjection(1 .. n, S)
    BY <1>4, <1>5, FS_Injection
  <1>7. \A x \in S : \E i \in 1 .. n : order[i] = x
    BY <1>6 DEF Surjection
  <1> QED BY <1>1, <1>2, <1>3, <1>7

-----------------------------------------------------------------------------
(* The calls *)

\* The callbacks of a table are steps, one for each subscription.
LEMMA CallbacksEntries ==
    ASSUME ClientTypeOK, NEW k \in Keys, NEW type \in Types, NEW c \in BOOLEAN, NEW v \in Int
    PROVE  /\ Callbacks(k, v, type, c) \in Seq(Steps)
           /\ Len(Callbacks(k, v, type, c)) = Len(subs[<<k, type, c>>])
           /\ Len(subs[<<k, type, c>>]) \in Nat
           /\ DOMAIN Callbacks(k, v, type, c) = DOMAIN subs[<<k, type, c>>]
           /\ \A i \in DOMAIN subs[<<k, type, c>>] :
                  Callbacks(k, v, type, c)[i] = Callback(k, v, subs[<<k, type, c>>][i].id)
  <1> DEFINE q == subs[<<k, type, c>>]
  <1>1. q \in Seq(Subscriptions)
    BY DEF ClientTypeOK
  <1>2. Len(q) \in Nat /\ DOMAIN q = 1 .. Len(q) /\ \A i \in 1 .. Len(q) : q[i] \in Subscriptions
    BY <1>1, LenProperties, ElementOfSeq
  <1>3. \A i \in 1 .. Len(q) : Callback(k, v, q[i].id) \in Steps
    BY <1>2 DEF Callback, Step, Steps, Subscriptions
  <1>4. Callbacks(k, v, type, c) = [i \in 1 .. Len(q) |-> Callback(k, v, q[i].id)]
    BY <1>2 DEF Callbacks
  <1>5. Callbacks(k, v, type, c) \in [1 .. Len(q) -> Steps]
    BY <1>3, <1>4
  <1> HIDE DEF q
  <1>6. Callbacks(k, v, type, c) \in Seq(Steps) /\ Len(Callbacks(k, v, type, c)) = Len(q)
    <2> DEFINE f == Callbacks(k, v, type, c)
    <2> HIDE DEF f
    <2>1. f \in [1 .. Len(q) -> Steps] /\ Len(q) \in Nat
      BY <1>2, <1>5 DEF f
    <2>2. f \in Seq(Steps)
      BY <2>1, SeqDef
    <2>3. Len(f) = Len(q)
      BY <2>1
    <2> QED BY <2>2, <2>3 DEF f
  <1>7. \A i \in DOMAIN q : Callbacks(k, v, type, c)[i] = Callback(k, v, q[i].id)
    BY <1>2, <1>4
  <1>8. DOMAIN Callbacks(k, v, type, c) = DOMAIN q
    BY <1>2, <1>4
  <1> QED BY <1>2, <1>6, <1>7, <1>8 DEF q

\* What a Put* is made of.
PutSteps(k, v, type, after) ==
    <<Step("store", k, v)>> \o Callbacks(k, v, type, FALSE) \o (<<Step("publish", k, v)>> \o after)

\* What a call that stores a value does once it has published it: nothing (Put*), or a flush
\* (Get*, which sends its default at once).
Afters(k) == {<<>>, <<Step("flush", k, 0)>>}

\* What a Put* is made of: store, callbacks, publish, and for Get* the flush.
LEMMA PutEntries ==
    ASSUME ClientTypeOK, NEW k \in Keys, NEW type \in Types, NEW v \in Nat,
           NEW after \in Afters(k)
    PROVE  /\ PutSteps(k, v, type, after) \in Seq(Steps)
           /\ Len(subs[<<k, type, FALSE>>]) \in Nat
           /\ Len(subs[<<k, type, FALSE>>]) + 2 \in DOMAIN PutSteps(k, v, type, after)
           /\ PutSteps(k, v, type, after)[Len(subs[<<k, type, FALSE>>]) + 2] = Step("publish", k, v)
           /\ \A i \in DOMAIN PutSteps(k, v, type, after) :
                 \/ i < Len(subs[<<k, type, FALSE>>]) + 2
                    /\ PutSteps(k, v, type, after)[i] = Step("store", k, v)
                 \/ /\ i < Len(subs[<<k, type, FALSE>>]) + 2
                    /\ \E n \in DOMAIN subs[<<k, type, FALSE>>] :
                          PutSteps(k, v, type, after)[i] = Callback(k, v, subs[<<k, type, FALSE>>][n].id)
                 \/ i = Len(subs[<<k, type, FALSE>>]) + 2
                    /\ PutSteps(k, v, type, after)[i] = Step("publish", k, v)
                 \/ PutSteps(k, v, type, after)[i] = Step("flush", k, 0)
  <1> DEFINE one == <<Step("store", k, v)>>
             calls == Callbacks(k, v, type, FALSE)
             pub == <<Step("publish", k, v)>>
             q == PutSteps(k, v, type, after)
             n == Len(subs[<<k, type, FALSE>>])
  <1>1. /\ Step("store", k, v) \in Steps /\ Step("publish", k, v) \in Steps
        /\ Step("flush", k, 0) \in Steps
    BY MaxSubsNat DEF Step, Steps
  <1>2. /\ one \in Seq(Steps) /\ Len(one) = 1 /\ DOMAIN one = {1} /\ one[1] = Step("store", k, v)
        /\ pub \in Seq(Steps) /\ Len(pub) = 1 /\ DOMAIN pub = {1} /\ pub[1] = Step("publish", k, v)
    BY <1>1, OneEntry
  <1>3. /\ after \in Seq(Steps)
        /\ \A i \in DOMAIN after : after[i] = Step("flush", k, 0)
    <2>1. CASE after = <<>>
      <3>1. DOMAIN <<>> = {}
        OBVIOUS
      <3>2. <<>> \in Seq(Steps)
        BY EmptySeq
      <3> QED BY <2>1, <3>1, <3>2, Zenon
    <2>2. CASE after = <<Step("flush", k, 0)>>
      <3>1. after \in Seq(Steps) /\ DOMAIN after = {1} /\ after[1] = Step("flush", k, 0)
        BY <1>1, <2>2, OneEntry
      <3> QED BY <3>1
    <2> QED BY <2>1, <2>2 DEF Afters
  <1>4. /\ calls \in Seq(Steps) /\ Len(calls) = n /\ n \in Nat /\ DOMAIN calls = DOMAIN subs[<<k, type, FALSE>>]
        /\ \A i \in DOMAIN calls : calls[i] = Callback(k, v, subs[<<k, type, FALSE>>][i].id)
    BY CallbacksEntries, FALSE \in BOOLEAN, v \in Int
  <1> DEFINE tail == pub \o after
             head == one \o calls
  <1>5. q = head \o tail
    BY DEF PutSteps
  <1> HIDE DEF one, calls, pub, q, n
  <1>6. /\ tail \in Seq(Steps) /\ 1 \in DOMAIN tail /\ tail[1] = Step("publish", k, v)
        /\ \A i \in DOMAIN tail : i = 1 \/ tail[i] = Step("flush", k, 0)
    <2>0. pub \in Seq(Steps) /\ after \in Seq(Steps)
      BY <1>2, <1>3
    <2>1. /\ tail \in Seq(Steps)
          /\ \A i \in DOMAIN pub : i \in DOMAIN tail /\ tail[i] = pub[i]
          /\ \A i \in DOMAIN tail : \/ i \in DOMAIN pub /\ tail[i] = pub[i]
                                    \/ i - Len(pub) \in DOMAIN after /\ tail[i] = after[i - Len(pub)]
      BY <2>0, JoinEntries
    <2> QED BY <1>2, <1>3, <2>1
  <1>7. /\ head \in Seq(Steps) /\ Len(head) = n + 1 /\ DOMAIN head = 1 .. n + 1
        /\ \A i \in DOMAIN head : head[i] = Step("store", k, v)
              \/ \E j \in DOMAIN subs[<<k, type, FALSE>>] : head[i] = Callback(k, v, subs[<<k, type, FALSE>>][j].id)
    <2>0. one \in Seq(Steps) /\ calls \in Seq(Steps)
      BY <1>2, <1>4
    <2>1. /\ head \in Seq(Steps) /\ DOMAIN head = 1 .. Len(one) + Len(calls)
          /\ \A i \in DOMAIN head : \/ i \in DOMAIN one /\ head[i] = one[i]
                                    \/ i - Len(one) \in DOMAIN calls /\ head[i] = calls[i - Len(one)]
      BY <2>0, JoinEntries
    <2>2. Len(head) = Len(one) + Len(calls)
      BY <2>0, ConcatProperties
    <2>3. Len(one) + Len(calls) = n + 1
      BY <1>2, <1>4
    <2>4. \A i \in DOMAIN head : i \in DOMAIN one => head[i] = Step("store", k, v)
      BY <1>2, <2>1
    <2>5. ASSUME NEW i \in DOMAIN head, i - Len(one) \in DOMAIN calls, head[i] = calls[i - Len(one)]
          PROVE  \E j \in DOMAIN subs[<<k, type, FALSE>>] : head[i] = Callback(k, v, subs[<<k, type, FALSE>>][j].id)
      <3> DEFINE j == i - Len(one)
      <3>1. j \in DOMAIN calls /\ head[i] = calls[j]
        BY <2>5
      <3> HIDE DEF j
      <3> QED BY <1>4, <3>1
    <2> QED BY <1>2, <2>1, <2>2, <2>3, <2>4, <2>5
  <1> HIDE DEF tail, head
  <1>8. /\ q \in Seq(Steps)
        /\ \A i \in DOMAIN tail : i + (n + 1) \in DOMAIN q /\ q[i + (n + 1)] = tail[i]
        /\ \A i \in DOMAIN q : \/ i \in 1 .. n + 1 /\ q[i] = head[i]
                               \/ i > n + 1 /\ i - (n + 1) \in DOMAIN tail /\ q[i] = tail[i - (n + 1)]
    <2>1. head \in Seq(Steps) /\ tail \in Seq(Steps)
      BY <1>6, <1>7
    <2>2. /\ head \o tail \in Seq(Steps)
          /\ \A i \in DOMAIN tail : i + Len(head) \in DOMAIN (head \o tail) /\ (head \o tail)[i + Len(head)] = tail[i]
          /\ \A i \in DOMAIN (head \o tail) :
                \/ i \in DOMAIN head /\ (head \o tail)[i] = head[i]
                \/ i > Len(head) /\ i - Len(head) \in DOMAIN tail /\ (head \o tail)[i] = tail[i - Len(head)]
      BY <2>1, JoinEntries
    <2>3. Len(head) = n + 1 /\ DOMAIN head = 1 .. n + 1
      BY <1>7
    <2> QED BY <2>2, <2>3, <1>5
  <1>9. 1 + (n + 1) = n + 2 /\ \A i \in 1 .. n + 1 : i < n + 2
    BY <1>4
  <1>10. n + 2 \in DOMAIN q /\ q[n + 2] = Step("publish", k, v)
    BY <1>6, <1>8, <1>9
  <1>11. ASSUME NEW i \in DOMAIN q, i > n + 1, i - (n + 1) \in DOMAIN tail, q[i] = tail[i - (n + 1)]
         PROVE  \/ i = n + 2 /\ q[i] = Step("publish", k, v)
                \/ q[i] = Step("flush", k, 0)
    <2>1. CASE i - (n + 1) = 1
      <3>1. i \in Int
        BY <1>8, LenProperties
      <3>2. i = n + 2
        BY <1>4, <2>1, <3>1
      <3> QED BY <1>10, <3>2
    <2>2. CASE i - (n + 1) # 1
      BY <1>6, <1>11, <2>2
    <2> QED BY <2>1, <2>2
  <1>12. ASSUME NEW i \in 1 .. n + 1, i \in DOMAIN q, q[i] = head[i]
         PROVE  i < n + 2 /\ (\/ q[i] = Step("store", k, v)
                              \/ \E j \in DOMAIN subs[<<k, type, FALSE>>] : q[i] = Callback(k, v, subs[<<k, type, FALSE>>][j].id))
    BY <1>7, <1>9, <1>12
  <1>13. \A i \in DOMAIN q : \/ i \in 1 .. n + 1 /\ q[i] = head[i]
                             \/ i > n + 1 /\ i - (n + 1) \in DOMAIN tail /\ q[i] = tail[i - (n + 1)]
    BY <1>8
  <1>14. \A i \in DOMAIN q :
            \/ i < n + 2 /\ q[i] = Step("store", k, v)
            \/ /\ i < n + 2
               /\ \E j \in DOMAIN subs[<<k, type, FALSE>>] : q[i] = Callback(k, v, subs[<<k, type, FALSE>>][j].id)
            \/ i = n + 2 /\ q[i] = Step("publish", k, v)
            \/ q[i] = Step("flush", k, 0)
    BY <1>11, <1>12, <1>13
  <1> QED BY <1>4, <1>8, <1>10, <1>14 DEF q, n

\* What the subscriber's thread does with a value.
HearSteps(k, v, type) == <<Step("store", k, v)>> \o Callbacks(k, v, type, FALSE) \o <<>>

\* What the subscriber's thread does with a value: store, then every callback of its type.
LEMMA HearEntries ==
    ASSUME ClientTypeOK, NEW k \in Keys, NEW type \in Types, NEW v \in Nat
    PROVE  /\ HearSteps(k, v, type) \in Seq(Steps)
           /\ 1 \in DOMAIN HearSteps(k, v, type) /\ HearSteps(k, v, type)[1] = Step("store", k, v)
           /\ \A n \in DOMAIN subs[<<k, type, FALSE>>] : \E i \in DOMAIN HearSteps(k, v, type) :
                  HearSteps(k, v, type)[i] = Callback(k, v, subs[<<k, type, FALSE>>][n].id)
           /\ \A i \in DOMAIN HearSteps(k, v, type) :
                 \/ i = 1 /\ HearSteps(k, v, type)[i] = Step("store", k, v)
                 \/ \E n \in DOMAIN subs[<<k, type, FALSE>>] :
                       HearSteps(k, v, type)[i] = Callback(k, v, subs[<<k, type, FALSE>>][n].id)
  <1> DEFINE one == <<Step("store", k, v)>>
             calls == Callbacks(k, v, type, FALSE)
             q == HearSteps(k, v, type)
  <1>1. Step("store", k, v) \in Steps
    BY MaxSubsNat DEF Step, Steps
  <1>2. one \in Seq(Steps) /\ Len(one) = 1 /\ DOMAIN one = {1} /\ one[1] = Step("store", k, v)
    BY <1>1, OneEntry
  <1>3. /\ calls \in Seq(Steps) /\ DOMAIN calls = DOMAIN subs[<<k, type, FALSE>>]
        /\ \A i \in DOMAIN calls : calls[i] = Callback(k, v, subs[<<k, type, FALSE>>][i].id)
    BY CallbacksEntries, FALSE \in BOOLEAN, v \in Int
  <1>4. q = one \o calls
    <2>1. one \o calls \in Seq(Steps)
      BY <1>2, <1>3, ConcatProperties
    <2>2. q = (one \o calls) \o <<>>
      BY DEF HearSteps
    <2> HIDE DEF one, calls, q
    <2> QED BY <2>1, <2>2, ConcatEmptySeq
  <1> HIDE DEF one, calls, q
  <1>5. /\ q \in Seq(Steps)
        /\ \A i \in DOMAIN one : i \in DOMAIN q /\ q[i] = one[i]
        /\ \A i \in DOMAIN calls : i + Len(one) \in DOMAIN q /\ q[i + Len(one)] = calls[i]
        /\ \A i \in DOMAIN q : \/ i \in DOMAIN one /\ q[i] = one[i]
                               \/ i - Len(one) \in DOMAIN calls /\ q[i] = calls[i - Len(one)]
    <2>1. one \in Seq(Steps) /\ calls \in Seq(Steps)
      BY <1>2, <1>3
    <2> QED BY <1>4, <2>1, JoinEntries
  <1>6. \A n \in DOMAIN calls : \E i \in DOMAIN q : q[i] = Callback(k, v, subs[<<k, type, FALSE>>][n].id)
    <2>1. \A n \in DOMAIN calls : n + Len(one) \in DOMAIN q
              /\ q[n + Len(one)] = Callback(k, v, subs[<<k, type, FALSE>>][n].id)
      BY <1>3, <1>5
    <2> QED BY <2>1
  <1>7. ASSUME NEW i \in DOMAIN q, i - Len(one) \in DOMAIN calls, q[i] = calls[i - Len(one)]
        PROVE  \E n \in DOMAIN calls : q[i] = Callback(k, v, subs[<<k, type, FALSE>>][n].id)
    <2> DEFINE n == i - Len(one)
    <2>1. n \in DOMAIN calls /\ q[i] = calls[n]
      BY <1>7
    <2> HIDE DEF n
    <2> QED BY <1>3, <2>1
  <1>8. 1 \in DOMAIN q /\ q[1] = Step("store", k, v)
    BY <1>2, <1>5
  <1>9. \A i \in DOMAIN q : i \in DOMAIN one => i = 1 /\ q[i] = Step("store", k, v)
    BY <1>2, <1>5
  <1>10. \A i \in DOMAIN q : \/ i = 1 /\ q[i] = Step("store", k, v)
                             \/ \E n \in DOMAIN subs[<<k, type, FALSE>>] :
                                   q[i] = Callback(k, v, subs[<<k, type, FALSE>>][n].id)
    <2>1. DOMAIN calls = DOMAIN subs[<<k, type, FALSE>>]
      BY <1>3
    <2> QED BY <2>1, <1>5, <1>7, <1>9
  <1> QED BY <1>3, <1>5, <1>6, <1>8, <1>10 DEF q

-----------------------------------------------------------------------------
(* A flush *)

\* Every waiting key goes to the end of the ring once, under numbers of its own.
LEMMA FlushEntries ==
    ASSUME ClientTypeOK, Flush
    PROVE  /\ ring' \in Seq(Messages) /\ pubSeq' \in Nat /\ pending' = None
           /\ Cardinality(Waiting) \in Nat /\ pubSeq' = pubSeq + Cardinality(Waiting)
           /\ \A i \in DOMAIN ring : i \in DOMAIN ring' /\ ring'[i] = ring[i]
           /\ \A i \in DOMAIN ring' : i \in DOMAIN ring \/
                 /\ \A j \in DOMAIN ring : j < i
                 /\ pubSeq < ring'[i].seq /\ ring'[i].seq <= pubSeq'
                 /\ pending[ring'[i].key] # 0 /\ ring'[i].version = pending[ring'[i].key]
           /\ \A i, j \in DOMAIN ring' : i < j /\ i \notin DOMAIN ring /\ j \notin DOMAIN ring
                 => ring'[i].seq < ring'[j].seq /\ ring'[i].key # ring'[j].key
           /\ \A k \in Keys : pending[k] # 0 =>
                 \E i \in DOMAIN ring' : i \notin DOMAIN ring /\ ring'[i].key = k
  <1>1. PICK order \in SetToSeqs(Waiting) :
           /\ ring' = ring \o [i \in DOMAIN order |->
                          [key |-> order[i], version |-> pending[order[i]], seq |-> pubSeq + i]]
           /\ pubSeq' = pubSeq + Len(order)
           /\ pending' = None
    BY DEF Flush, Waiting
  <1> DEFINE n == Cardinality(Waiting)
             new == [i \in DOMAIN order |->
                        [key |-> order[i], version |-> pending[order[i]], seq |-> pubSeq + i]]
             m == Len(ring)
  <1>2. IsFiniteSet(Waiting)
    <2>1. Waiting \in SUBSET Keys
      BY DEF Waiting
    <2> QED BY <2>1, KeysFinite, FS_Subset
  <1>3. /\ order \in Seq(Waiting) /\ Len(order) = n /\ n \in Nat /\ DOMAIN order = 1 .. n
        /\ \A i, j \in DOMAIN order : order[i] = order[j] => i = j
        /\ \A x \in Waiting : \E i \in DOMAIN order : order[i] = x
    BY <1>2, OrderEntries
  <1>4. \A x \in Waiting : x \in Keys /\ pending[x] # 0 /\ pending[x] \in Nat
    BY DEF Waiting, ClientTypeOK
  <1>5. pubSeq \in Nat /\ ring \in Seq(Messages) /\ m \in Nat /\ DOMAIN ring = 1 .. m
    BY LenProperties DEF ClientTypeOK
  <1> HIDE DEF n, m
  <1>6. \A i \in 1 .. n : order[i] \in Waiting
    BY <1>3, ElementOfSeq
  <1>7. ASSUME NEW i \in 1 .. n PROVE new[i] \in Messages
    <2>1. order[i] \in Keys /\ pending[order[i]] \in Nat \ {0}
      BY <1>4, <1>6
    <2>2. pubSeq + i \in Nat \ {0}
      BY <1>3, <1>5
    <2>3. new[i] = [key |-> order[i], version |-> pending[order[i]], seq |-> pubSeq + i]
      BY <1>3
    <2> QED BY <2>1, <2>2, <2>3 DEF Messages
  <1>8. DOMAIN new = 1 .. n /\ new \in [1 .. n -> Messages]
    BY <1>3, <1>7
  <1>9. /\ \A i \in 1 .. n : new[i].key = order[i] /\ new[i].version = pending[order[i]]
                             /\ new[i].seq = pubSeq + i
    BY <1>3
  <1> HIDE DEF new
  <1>10. new \in Seq(Messages) /\ Len(new) = n
    BY <1>3, <1>8, SeqDef
  <1>11. /\ ring' = ring \o new /\ pubSeq' = pubSeq + n
    BY <1>1, <1>3 DEF new
  <1>12. /\ ring' \in Seq(Messages)
         /\ \A i \in DOMAIN ring : i \in DOMAIN ring' /\ ring'[i] = ring[i]
         /\ \A i \in DOMAIN new : i + m \in DOMAIN ring' /\ ring'[i + m] = new[i]
         /\ \A i \in DOMAIN ring' : i \in DOMAIN ring \/ (i > m /\ i - m \in DOMAIN new /\ ring'[i] = new[i - m])
    <2>1. ring \in Seq(Messages) /\ new \in Seq(Messages) /\ m = Len(ring)
      BY <1>5, <1>10 DEF m
    <2> QED BY <1>11, <2>1, JoinEntries
  <1>13. ASSUME NEW i \in DOMAIN ring', i \notin DOMAIN ring
         PROVE  /\ i \in Int /\ i > m /\ i - m \in 1 .. n /\ ring'[i].key = order[i - m]
                /\ ring'[i].version = pending[order[i - m]] /\ ring'[i].seq = pubSeq + (i - m)
    <2>1. i > m /\ i - m \in 1 .. n /\ ring'[i] = new[i - m]
      BY <1>8, <1>12, <1>13
    <2>2. i \in Int
      BY <1>12, LenProperties
    <2> DEFINE d == i - m
    <2>3. d \in 1 .. n /\ ring'[i] = new[d]
      BY <2>1
    <2> HIDE DEF d
    <2>4. ring'[i].key = order[d] /\ ring'[i].version = pending[order[d]] /\ ring'[i].seq = pubSeq + d
      BY <1>9, <2>3
    <2> QED BY <2>1, <2>2, <2>4 DEF d
  <1>14. ASSUME NEW i \in DOMAIN ring', i \notin DOMAIN ring
         PROVE  /\ \A j \in DOMAIN ring : j < i
                /\ pubSeq < ring'[i].seq /\ ring'[i].seq <= pubSeq'
                /\ pending[ring'[i].key] # 0 /\ ring'[i].version = pending[ring'[i].key]
    <2>1. \A j \in DOMAIN ring : j < i
      BY <1>5, <1>13, <1>14
    <2>2. order[i - m] \in Waiting
      BY <1>6, <1>13, <1>14
    <2>3. pubSeq < ring'[i].seq /\ ring'[i].seq <= pubSeq'
      <3>1. i - m \in 1 .. n /\ ring'[i].seq = pubSeq + (i - m) /\ i \in Int
        BY <1>13, <1>14
      <3> QED BY <1>3, <1>5, <1>11, <3>1
    <2> QED BY <1>4, <1>13, <1>14, <2>1, <2>2, <2>3
  <1>15. ASSUME NEW i \in DOMAIN ring', NEW j \in DOMAIN ring', i < j,
                i \notin DOMAIN ring, j \notin DOMAIN ring
         PROVE  ring'[i].seq < ring'[j].seq /\ ring'[i].key # ring'[j].key
    <2>1. /\ i \in Int /\ i - m \in 1 .. n /\ ring'[i].key = order[i - m] /\ ring'[i].seq = pubSeq + (i - m)
          /\ j \in Int /\ j - m \in 1 .. n /\ ring'[j].key = order[j - m] /\ ring'[j].seq = pubSeq + (j - m)
      BY <1>13, <1>15
    <2>2. i - m # j - m
      BY <1>5, <1>15, <2>1
    <2>3. ring'[i].seq < ring'[j].seq
      BY <1>5, <1>15, <2>1
    <2> QED BY <1>3, <2>1, <2>2, <2>3
  <1>16. ASSUME NEW k \in Keys, pending[k] # 0
         PROVE  \E i \in DOMAIN ring' : i \notin DOMAIN ring /\ ring'[i].key = k
    <2>1. PICK i \in 1 .. n : order[i] = k
      BY <1>3, <1>16 DEF Waiting
    <2>2. i + m \in DOMAIN ring' /\ ring'[i + m].key = k
      BY <1>8, <1>9, <1>12, <2>1
    <2>3. i + m \notin DOMAIN ring
      BY <1>3, <1>5
    <2> QED BY <2>2, <2>3
  <1>17. pubSeq' \in Nat
    BY <1>3, <1>5, <1>11
  <1> HIDE DEF Flush, ClientTypeOK
  <1> QED BY <1>1, <1>3, <1>11, <1>12, <1>14, <1>15, <1>16, <1>17 DEF n

\* Stopping flushes too, with nobody left to read.
LEMMA StopCounts ==
    ASSUME ClientTypeOK, Stop
    PROVE  Cardinality(Waiting) \in Nat /\ pubSeq' = pubSeq + Cardinality(Waiting)
  <1>1. PICK order \in SetToSeqs(Waiting) : pubSeq' = pubSeq + Len(order)
    BY DEF Stop, Waiting
  <1>2. IsFiniteSet(Waiting)
    <2>1. Waiting \in SUBSET Keys
      BY DEF Waiting
    <2> QED BY <2>1, KeysFinite, FS_Subset
  <1> QED BY <1>1, <1>2, OrderEntries

-----------------------------------------------------------------------------
(* Type correctness *)

\* The version a message or a step carries, and the type it was put with.
LEMMA NumberOfStep ==
    /\ \A kind \in {"store", "callback", "publish", "flush"}, k \in Keys, v \in Int :
          /\ Step(kind, k, v) \in Steps
          /\ Step(kind, k, v).do = kind /\ Step(kind, k, v).key = k
          /\ Step(kind, k, v).version = v
    /\ \A k \in Keys, v \in Int, id \in 0 .. MaxSubs :
          /\ Callback(k, v, id) \in Steps
          /\ Callback(k, v, id).do = "callback" /\ Callback(k, v, id).key = k
          /\ Callback(k, v, id).version = v /\ Callback(k, v, id).sub = id
  BY MaxSubsNat DEF Step, Callback, Steps

\* The head of a thread's job is a step, and the rest is a job.
LEMMA JobRest ==
    ASSUME ClientTypeOK, NEW t \in Threads, ~Idle(t), Done(t)
    PROVE  /\ Head(job[t]) \in Steps
           /\ job' \in [Threads -> Seq(Steps)] /\ job'[t] = Tail(job[t])
           /\ \A u \in Threads : u # t => job'[u] = job[u]
  <1>1. job \in [Threads -> Seq(Steps)] /\ job[t] \in Seq(Steps) /\ job[t] # <<>>
    BY DEF ClientTypeOK, Idle
  <1>2. Head(job[t]) \in Steps /\ Tail(job[t]) \in Seq(Steps)
    BY <1>1, HeadTailProperties
  <1> QED BY <1>1, <1>2 DEF Done

\* What a Put* changes.
LEMMA PutEffect ==
    ASSUME ClientTypeOK, NEW k \in Keys, NEW type \in Types,
           NEW after \in Afters(k),
           Putting(k, type, after)
    PROVE  /\ Len(typeOf) \in Nat /\ localSeq = Len(typeOf) + 1 /\ localSeq' = localSeq + 1
           /\ typeOf' \in Seq(Types) /\ Len(typeOf') = Len(typeOf) + 1
           /\ \A v \in 1 .. Len(typeOf) : typeOf'[v] = typeOf[v]
           /\ truth' = [truth EXCEPT ![k] = localSeq]
           /\ cache' = [cache EXCEPT ![k] = Cached(k, localSeq, localSeq)]
           /\ cache' \in [Keys -> [version : Nat, seq : Nat]]
           /\ job' = [job EXCEPT ![App] = PutSteps(k, localSeq, type, after)]
           /\ job' \in [Threads -> Seq(Steps)]
  <1>1. Len(typeOf) \in Nat /\ localSeq = Len(typeOf) + 1 /\ typeOf \in Seq(Types)
    BY LenProperties DEF ClientTypeOK
  <1>2. /\ typeOf' = Append(typeOf, type) /\ localSeq' = localSeq + 1
        /\ truth' = [truth EXCEPT ![k] = localSeq]
        /\ cache' = [cache EXCEPT ![k] = Cached(k, localSeq, localSeq)]
        /\ job' = [job EXCEPT ![App] = PutSteps(k, localSeq, type, after)]
    BY <1>1 DEF Putting, HandleUpdate, PutSteps
  <1>3. PutSteps(k, localSeq, type, after) \in Seq(Steps)
    <2>1. localSeq \in Nat
      BY <1>1
    <2> QED BY <2>1, PutEntries
  <1>4. job' \in [Threads -> Seq(Steps)]
    <2>1. job \in [Threads -> Seq(Steps)]
      BY DEF ClientTypeOK
    <2> QED BY <1>2, <1>3, <2>1
  <1>5. Cached(k, localSeq, localSeq) \in [version : Nat, seq : Nat]
    BY <1>1 DEF Cached, ClientTypeOK
  <1>6. cache' \in [Keys -> [version : Nat, seq : Nat]]
    <2>1. cache \in [Keys -> [version : Nat, seq : Nat]]
      BY DEF ClientTypeOK
    <2> QED BY <1>2, <1>5, <2>1
  <1>7. /\ typeOf' \in Seq(Types) /\ Len(typeOf') = Len(typeOf) + 1
        /\ \A v \in 1 .. Len(typeOf) : typeOf'[v] = typeOf[v]
    BY <1>1, <1>2, AppendProperties
  <1> QED BY <1>1, <1>2, <1>4, <1>6, <1>7

\* What a Get* or a Put* does is a Put*.
LEMMA PutCalls ==
    ASSUME NEW k \in Keys, NEW type \in Types, Put(k, type) \/ Get(k, type)
    PROVE  /\ Idle(App)
           /\ \E after \in Afters(k) : Putting(k, type, after)
           /\ UNCHANGED <<lifetime, store, registry, publisher, watch, channels, heard>>
  BY DEF Put, Get, Afters

\* What hearing a value changes.
LEMMA HearEffect ==
    ASSUME ClientTypeOK, Hear,
           \A i \in DOMAIN ring : ring[i].version \in 1 .. Len(typeOf)
    PROVE  /\ running /\ job[Reader] = <<>> /\ ring # <<>> /\ 1 \in DOMAIN ring /\ ring[1] \in Messages
           /\ ring' = Tail(ring) /\ ring' \in Seq(Messages)
           /\ typeOf[ring[1].version] \in Types
           /\ cache' = [cache EXCEPT ![ring[1].key] = Cached(ring[1].key, ring[1].version, ring[1].seq)]
           /\ cache' \in [Keys -> [version : Nat, seq : Nat]]
           /\ job' = [job EXCEPT ![Reader] =
                        HearSteps(ring[1].key, ring[1].version, typeOf[ring[1].version])]
           /\ job' \in [Threads -> Seq(Steps)]
           /\ UNCHANGED <<lifetime, localSeq, typeOf, truth, store, registry, publisher, watch,
                          commands, sent, seen>>
  <1> DEFINE u == ring[1]
  <1>1. ring \in Seq(Messages) /\ ring # <<>>
    BY DEF ClientTypeOK, Hear
  <1>2. Head(ring) = u /\ 1 \in DOMAIN ring /\ u \in Messages /\ Tail(ring) \in Seq(Messages)
    BY <1>1, TailEntries
  <1>3. u.key \in Keys /\ u.version \in Nat /\ u.seq \in Nat /\ u.version \in 1 .. Len(typeOf)
    BY <1>2 DEF Messages
  <1>4. typeOf[u.version] \in Types
    <2>1. typeOf \in Seq(Types)
      BY DEF ClientTypeOK
    <2> QED BY <1>3, <2>1, ElementOfSeq
  <1>5. /\ cache' = [cache EXCEPT ![u.key] = Cached(u.key, u.version, u.seq)]
        /\ job' = [job EXCEPT ![Reader] = HearSteps(u.key, u.version, typeOf[u.version])]
        /\ ring' = Tail(ring)
        /\ running /\ job[Reader] = <<>>
        /\ UNCHANGED <<lifetime, localSeq, typeOf, truth, store, registry, publisher, watch,
                          commands, sent, seen>>
    BY <1>2 DEF Hear, HandleUpdate, HearSteps, Idle
  <1>6. HearSteps(u.key, u.version, typeOf[u.version]) \in Seq(Steps)
    BY <1>3, <1>4, HearEntries
  <1> HIDE DEF u
  <1>7. job' \in [Threads -> Seq(Steps)]
    <2>1. job \in [Threads -> Seq(Steps)]
      BY DEF ClientTypeOK
    <2> QED BY <1>5, <1>6, <2>1
  <1>8. Cached(u.key, u.version, u.seq) \in [version : Nat, seq : Nat]
    BY <1>3 DEF Cached, ClientTypeOK
  <1>9. cache' \in [Keys -> [version : Nat, seq : Nat]]
    <2>1. cache \in [Keys -> [version : Nat, seq : Nat]]
      BY DEF ClientTypeOK
    <2> QED BY <1>5, <1>8, <2>1
  <1> QED BY <1>1, <1>2, <1>4, <1>5, <1>7, <1>9 DEF u

\* A subscription is put at the end of a table.
LEMMA RegisterEffect ==
    ASSUME ClientTypeOK, NEW k \in Keys, NEW type \in Types, NEW c \in BOOLEAN, NEW now \in BOOLEAN,
           Registering(k, type, c, now)
    PROVE  /\ Idle(App) /\ nextId' = nextId + 1 /\ nextId \in 1 .. MaxSubs
           /\ subs' \in [Keys \X Types \X BOOLEAN -> Seq(Subscriptions)]
           /\ Len(subs[<<k, type, c>>]) \in Nat
           /\ DOMAIN subs[<<k, type, c>>] = 1 .. Len(subs[<<k, type, c>>])
           /\ DOMAIN subs'[<<k, type, c>>] = 1 .. Len(subs[<<k, type, c>>]) + 1
           /\ \A i \in DOMAIN subs[<<k, type, c>>] : subs'[<<k, type, c>>][i] = subs[<<k, type, c>>][i]
           /\ subs'[<<k, type, c>>][Len(subs[<<k, type, c>>]) + 1] =
                 [id |-> nextId, immediate |-> now, since |-> Len(typeOf)]
           /\ \A x \in Keys \X Types \X BOOLEAN : x # <<k, type, c>> => subs'[x] = subs[x]
  <1> DEFINE x0 == <<k, type, c>>
             q == subs[x0]
             new == [id |-> nextId, immediate |-> now, since |-> Len(typeOf)]
             T == Keys \X Types \X BOOLEAN
  <1>1. x0 \in T /\ subs \in [T -> Seq(Subscriptions)] /\ q \in Seq(Subscriptions)
    BY DEF ClientTypeOK
  <1>2. nextId \in 1 .. MaxSubs /\ Idle(App) /\ nextId' = nextId + 1
    BY MaxSubsNat DEF Registering, ClientTypeOK
  <1>3. Len(typeOf) \in Nat
    BY LenProperties DEF ClientTypeOK
  <1>4. new \in Subscriptions
    BY <1>2, <1>3 DEF Subscriptions
  <1>5. subs' = [subs EXCEPT ![x0] = Append(q, new)]
    BY DEF Registering
  <1> HIDE DEF x0, q, new, T
  <1>6. /\ Append(q, new) \in Seq(Subscriptions) /\ Len(Append(q, new)) = Len(q) + 1
        /\ \A i \in 1 .. Len(q) : Append(q, new)[i] = q[i]
        /\ Append(q, new)[Len(q) + 1] = new
        /\ Len(q) \in Nat /\ DOMAIN q = 1 .. Len(q)
        /\ DOMAIN Append(q, new) = 1 .. Len(Append(q, new))
    BY <1>1, <1>4, AppendProperties, LenProperties
  <1>7. /\ subs' \in [T -> Seq(Subscriptions)] /\ subs'[x0] = Append(q, new)
        /\ \A x \in T : x # x0 => subs'[x] = subs[x]
    BY <1>1, <1>5, <1>6
  <1> QED BY <1>2, <1>6, <1>7 DEF x0, q, new, T

\* Taking one away leaves the others, in their order.
LEMMA UnregisterEffect ==
    ASSUME ClientTypeOK, NEW k \in Keys, NEW type \in Types, NEW c \in BOOLEAN,
           Unsubscribe(k, type, c)
    PROVE  /\ subs' \in [Keys \X Types \X BOOLEAN -> Seq(Subscriptions)]
           /\ \A x \in Keys \X Types \X BOOLEAN : x # <<k, type, c>> => subs'[x] = subs[x]
           /\ \E n \in DOMAIN subs[<<k, type, c>>] : \A i \in DOMAIN subs'[<<k, type, c>>] :
                 \/ i < n /\ i \in DOMAIN subs[<<k, type, c>>]
                    /\ subs'[<<k, type, c>>][i] = subs[<<k, type, c>>][i]
                 \/ i >= n /\ i + 1 \in DOMAIN subs[<<k, type, c>>]
                    /\ subs'[<<k, type, c>>][i] = subs[<<k, type, c>>][i + 1]
           /\ DOMAIN subs'[<<k, type, c>>] \subseteq Int
  <1> DEFINE x0 == <<k, type, c>>
             q == subs[x0]
             T == Keys \X Types \X BOOLEAN
  <1>1. x0 \in T /\ subs \in [T -> Seq(Subscriptions)] /\ q \in Seq(Subscriptions)
    BY DEF ClientTypeOK
  <1>2. PICK n \in DOMAIN q : subs' = [subs EXCEPT ![x0] = RemoveAt(q, n)]
    BY DEF Unsubscribe
  <1> HIDE DEF x0, q, T
  <1> DEFINE a == SubSeq(q, 1, n - 1)
             b == SubSeq(q, n + 1, Len(q))
             r == RemoveAt(q, n)
  <1>3. Len(q) \in Nat /\ DOMAIN q = 1 .. Len(q) /\ n \in 1 .. Len(q)
        /\ \A i \in 1 .. Len(q) : q[i] \in Subscriptions
    BY <1>1, <1>2, LenProperties, ElementOfSeq
  <1>4. /\ n - 1 \in Int /\ n + 1 \in Int /\ 1 \in Int /\ Len(q) \in Int
        /\ \A i \in 1 .. n - 1 : i \in 1 .. Len(q)
        /\ \A i \in n + 1 .. Len(q) : i \in 1 .. Len(q)
    BY <1>3
  <1>5. /\ a \in Seq(Subscriptions) /\ Len(a) = IF 1 <= n - 1 THEN (n - 1) - 1 + 1 ELSE 0
        /\ \A i \in 1 .. (n - 1) - 1 + 1 : a[i] = q[1 + i - 1]
    <2>1. \A i \in 1 .. n - 1 : q[i] \in Subscriptions
      BY <1>3, <1>4
    <2> QED BY <1>4, <2>1, SubSeqProperties
  <1>6. /\ b \in Seq(Subscriptions) /\ Len(b) = IF n + 1 <= Len(q) THEN Len(q) - (n + 1) + 1 ELSE 0
        /\ \A i \in 1 .. Len(q) - (n + 1) + 1 : b[i] = q[n + 1 + i - 1]
    <2>1. \A i \in n + 1 .. Len(q) : q[i] \in Subscriptions
      BY <1>3, <1>4
    <2> DEFINE f == n + 1
               l == Len(q)
    <2>2. f \in Int /\ l \in Int /\ \A i \in f .. l : q[i] \in Subscriptions
      BY <1>4, <2>1
    <2>3. b = SubSeq(q, f, l)
      OBVIOUS
    <2> HIDE DEF b, f, l
    <2>4. /\ b \in Seq(Subscriptions) /\ Len(b) = IF f <= l THEN l - f + 1 ELSE 0
          /\ \A i \in 1 .. l - f + 1 : b[i] = q[f + i - 1]
      BY <2>2, <2>3, SubSeqProperties
    <2> QED BY <2>4 DEF f, l
  <1>7. Len(a) = n - 1 /\ Len(b) = Len(q) - n
    BY <1>3, <1>5, <1>6
  <1>8. r = a \o b
    BY DEF RemoveAt
  <1> HIDE DEF a, b, r
  <1>9. /\ r \in Seq(Subscriptions) /\ DOMAIN r = 1 .. (n - 1) + (Len(q) - n)
        /\ \A i \in DOMAIN r : \/ i \in DOMAIN a /\ r[i] = a[i]
                               \/ i > n - 1 /\ i - (n - 1) \in DOMAIN b /\ r[i] = b[i - (n - 1)]
        /\ DOMAIN a = 1 .. n - 1 /\ DOMAIN b = 1 .. Len(q) - n
    <2>1. DOMAIN a = 1 .. Len(a) /\ DOMAIN b = 1 .. Len(b)
      BY <1>5, <1>6, LenProperties
    <2>2. /\ a \o b \in Seq(Subscriptions) /\ DOMAIN (a \o b) = 1 .. Len(a) + Len(b)
          /\ \A i \in DOMAIN (a \o b) :
                \/ i \in DOMAIN a /\ (a \o b)[i] = a[i]
                \/ i > Len(a) /\ i - Len(a) \in DOMAIN b /\ (a \o b)[i] = b[i - Len(a)]
      <3>1. a \in Seq(Subscriptions) /\ b \in Seq(Subscriptions)
        BY <1>5, <1>6
      <3> QED BY <3>1, JoinEntries
    <2> QED BY <1>7, <1>8, <2>1, <2>2
  <1>10. ASSUME NEW i \in DOMAIN r
         PROVE  \/ i < n /\ i \in DOMAIN q /\ r[i] = q[i]
                \/ i >= n /\ i + 1 \in DOMAIN q /\ r[i] = q[i + 1]
    <2>1. CASE i \in DOMAIN a /\ r[i] = a[i]
      <3>1. i \in 1 .. (n - 1) - 1 + 1 /\ 1 + i - 1 = i /\ i < n /\ i \in 1 .. Len(q)
        BY <1>3, <1>9, <2>1
      <3> QED BY <1>3, <1>5, <2>1, <3>1
    <2>2. CASE i > n - 1 /\ i - (n - 1) \in DOMAIN b /\ r[i] = b[i - (n - 1)]
      <3> DEFINE d == i - (n - 1)
      <3>1. /\ d \in 1 .. Len(q) - (n + 1) + 1 /\ n + 1 + d - 1 = i + 1
            /\ i >= n /\ i + 1 \in 1 .. Len(q)
        BY <1>3, <1>9, <2>2
      <3>2. r[i] = b[d]
        BY <2>2
      <3> HIDE DEF d
      <3> QED BY <1>3, <1>6, <3>1, <3>2
    <2> QED BY <1>9, <2>1, <2>2
  <1>11. /\ subs' \in [T -> Seq(Subscriptions)] /\ subs'[x0] = r
         /\ \A x \in T : x # x0 => subs'[x] = subs[x]
    BY <1>1, <1>2, <1>9 DEF r
  <1>12. DOMAIN r \subseteq Int
    BY <1>3, <1>9
  <1> QED BY <1>2, <1>10, <1>11, <1>12 DEF x0, q, T

\* Everything in the ring was put.
LEMMA RingVersions ==
    ASSUME ClientTypeOK, VersionsPut, RingOrder
    PROVE  \A i \in DOMAIN ring : /\ ring[i] \in Messages /\ ring[i].version \in 1 .. Len(typeOf)
                                  /\ ring[i].key \in Keys /\ ring[i].version <= truth[ring[i].key]
  <1> TAKE i \in DOMAIN ring
  <1>1. ring \in Seq(Messages) /\ Len(typeOf) \in Nat
    BY LenProperties DEF ClientTypeOK
  <1>2. ring[i] \in Messages
    BY <1>1, LenProperties, ElementOfSeq
  <1>3. ring[i].version \in Nat \ {0} /\ ring[i].key \in Keys
    BY <1>2 DEF Messages
  <1>4. truth[ring[i].key] \in Nat /\ truth[ring[i].key] <= Len(typeOf)
        /\ ring[i].version <= truth[ring[i].key]
    BY <1>3 DEF ClientTypeOK, VersionsPut, RingOrder
  <1> QED BY <1>1, <1>2, <1>3, <1>4

\* A map that holds nothing is a map.
LEMMA NoneType == None \in [Keys -> Nat] /\ \A k \in Keys : None[k] = 0
  BY DEF None

\* Only a value that was put is stored, and not by the commands' thread.
LEMMA StoredValue ==
    ASSUME Structure, NEW t \in Threads, Doing(t, "store")
    PROVE  /\ t \in {App, Reader}
           /\ Head(job[t]) = job[t][1] /\ 1 \in DOMAIN job[t] /\ job[t][1] \in Steps
           /\ job[t][1].do = "store" /\ job[t][1].version \in 0 .. truth[job[t][1].key]
  <1>1. job[t] \in Seq(Steps) /\ job[t] # <<>>
    BY DEF Structure, ClientTypeOK, Doing, Idle
  <1>2. Head(job[t]) = job[t][1] /\ 1 \in DOMAIN job[t] /\ job[t][1] \in Steps
    BY <1>1, TailEntries
  <1>3. job[t][1].do = "store" /\ job[t][1].key \in Keys
    BY <1>2 DEF Doing, Steps
  <1>4. t # Commander
    BY <1>2, <1>3 DEF Structure, CommanderJob
  <1>5. truth[job[t][1].key] \in Nat
    BY <1>3 DEF Structure, ClientTypeOK
  <1>6. CASE t = App
    BY <1>2, <1>3, <1>5, <1>6 DEF Structure, AppJob
  <1>7. CASE t = Reader
    BY <1>2, <1>3, <1>5, <1>7 DEF Structure, ReaderJob
  <1> QED BY <1>2, <1>3, <1>4, <1>6, <1>7 DEF Threads

\* What is published is the last Put*.
LEMMA PublishedValue ==
    ASSUME Structure, PublishStep
    PROVE  /\ Head(job[App]) = job[App][1] /\ 1 \in DOMAIN job[App] /\ job[App][1] \in Steps
           /\ job[App][1].do = "publish" /\ job[App][1].version = truth[job[App][1].key]
           /\ job[App][1].key \in Keys /\ truth[job[App][1].key] = Len(typeOf)
           /\ truth[job[App][1].key] # 0
           /\ kept' = [kept EXCEPT ![job[App][1].key] = truth[job[App][1].key]]
           /\ pending' = [pending EXCEPT ![job[App][1].key] = truth[job[App][1].key]]
  <1>1. job[App] \in Seq(Steps) /\ job[App] # <<>>
    BY DEF Structure, ClientTypeOK, PublishStep, Doing, Idle, Threads
  <1>2. Head(job[App]) = job[App][1] /\ 1 \in DOMAIN job[App] /\ job[App][1] \in Steps
    BY <1>1, TailEntries
  <1>3. job[App][1].do = "publish" /\ job[App][1].key \in Keys
    BY <1>2 DEF PublishStep, Doing, Steps
  <1>4. /\ job[App][1].version = truth[job[App][1].key] /\ truth[job[App][1].key] = Len(typeOf)
        /\ job[App][1].version # 0
    BY <1>2, <1>3 DEF Structure, AppJob
  <1> QED BY <1>2, <1>3, <1>4 DEF PublishStep

\* A command's callbacks.
LEMMA CommandEffect ==
    ASSUME ClientTypeOK, HandleCommand
    PROVE  /\ commands # <<>> /\ Head(commands) \in Commands
           /\ job[Commander] = <<>> /\ job' \in [Threads -> Seq(Steps)]
           /\ \A t \in Threads : t # Commander => job'[t] = job[t]
           /\ \A n \in DOMAIN job'[Commander] :
                 \E i \in DOMAIN subs[<<Head(commands).key, Head(commands).type, TRUE>>] :
                    job'[Commander][n] = Callback(Head(commands).key, -Head(commands).n,
                        subs[<<Head(commands).key, Head(commands).type, TRUE>>][i].id)
           /\ commands' \in Seq(Commands)
           /\ UNCHANGED <<lifetime, values, store, registry, publisher, watch, ring, sent, heard>>
  <1> DEFINE c == Head(commands)
             q == Callbacks(c.key, -c.n, c.type, TRUE)
  <1>1. /\ commands # <<>> /\ job[Commander] = <<>> /\ job' = [job EXCEPT ![Commander] = q]
        /\ commands' = Tail(commands)
        /\ UNCHANGED <<lifetime, values, store, registry, publisher, watch, ring, sent, heard>>
    BY DEF HandleCommand, Idle
  <1>2. commands \in Seq(Commands)
    BY DEF ClientTypeOK
  <1>3. c \in Commands /\ Tail(commands) \in Seq(Commands)
    BY <1>1, <1>2, HeadTailProperties
  <1>4. c.key \in Keys /\ c.type \in Types /\ -c.n \in Int
    BY <1>3 DEF Commands
  <1>5. /\ q \in Seq(Steps) /\ DOMAIN q = DOMAIN subs[<<c.key, c.type, TRUE>>]
        /\ \A i \in DOMAIN q : q[i] = Callback(c.key, -c.n, subs[<<c.key, c.type, TRUE>>][i].id)
    <2> DEFINE k == c.key
               v == -c.n
               type == c.type
    <2>1. k \in Keys /\ type \in Types /\ v \in Int /\ TRUE \in BOOLEAN
      BY <1>4
    <2>2. q = Callbacks(k, v, type, TRUE)
      OBVIOUS
    <2> HIDE DEF k, v, type, c, q
    <2>3. /\ q \in Seq(Steps) /\ DOMAIN q = DOMAIN subs[<<k, type, TRUE>>]
          /\ \A i \in DOMAIN q : q[i] = Callback(k, v, subs[<<k, type, TRUE>>][i].id)
      BY <2>1, <2>2, CallbacksEntries
    <2> QED BY <2>3 DEF k, v, type
  <1> HIDE DEF q, c
  <1>6. job \in [Threads -> Seq(Steps)] /\ Commander \in Threads
    BY DEF ClientTypeOK, Threads
  <1>7. /\ job' \in [Threads -> Seq(Steps)] /\ job'[Commander] = q
        /\ \A t \in Threads : t # Commander => job'[t] = job[t]
    BY <1>1, <1>5, <1>6
  <1> QED BY <1>1, <1>3, <1>5, <1>7 DEF c

\* Every step keeps the types (all the handlers).
LEMMA TypeStep ==
    ASSUME Structure, RingOrder, [clientNext]_clientVars
    PROVE  ClientTypeOK'
  <1>0. ClientTypeOK /\ VersionsPut
    BY DEF Structure
  <1> USE <1>0
  <1> USE DEF lifetime, values, registry, publisher, watch, channels, heard
  <1>1. ASSUME NEW k \in Keys, NEW type \in Types, Put(k, type) \/ Get(k, type)
        PROVE  ClientTypeOK'
    <2>1. PICK after \in Afters(k) : Putting(k, type, after)
      BY <1>1, PutCalls
    <2>2. UNCHANGED <<lifetime, store, registry, publisher, watch, channels, heard>>
      BY <1>1, PutCalls
    <2>3. /\ localSeq \in Nat /\ localSeq' = localSeq + 1 /\ localSeq = Len(typeOf) + 1
          /\ typeOf' \in Seq(Types) /\ Len(typeOf') = Len(typeOf) + 1
          /\ truth' = [truth EXCEPT ![k] = localSeq]
          /\ cache' \in [Keys -> [version : Nat, seq : Nat]]
          /\ job' \in [Threads -> Seq(Steps)]
      BY <2>1, PutEffect
    <2>4. truth' \in [Keys -> Nat]
      BY <2>3 DEF ClientTypeOK
    <2> QED BY <2>2, <2>3, <2>4 DEF ClientTypeOK
  <1>2. ASSUME NEW k \in Keys, NEW type \in Types, NEW now \in BOOLEAN, Subscribe(k, type, now)
        PROVE  ClientTypeOK'
    <2>1. /\ nextId' = nextId + 1 /\ nextId \in 1 .. MaxSubs
          /\ subs' \in [Keys \X Types \X BOOLEAN -> Seq(Subscriptions)]
      BY <1>2, RegisterEffect, FALSE \in BOOLEAN DEF Subscribe
    <2>2. job' \in [Threads -> Seq(Steps)]
      <3> DEFINE v == TryReadCached(k, type)
      <3>1. v \in Int
        BY DEF TryReadCached, ClientTypeOK
      <3>2. <<Callback(k, v, nextId)>> \in Seq(Steps)
        <4>1. Callback(k, v, nextId) \in Steps
          BY <2>1, <3>1, NumberOfStep
        <4> QED BY <4>1, OneEntry
      <3>3. job' = [job EXCEPT ![App] = <<Callback(k, v, nextId)>>] \/ job' = job
        BY <1>2 DEF Subscribe
      <3> HIDE DEF v
      <3>4. job \in [Threads -> Seq(Steps)]
        BY DEF ClientTypeOK
      <3> QED BY <3>2, <3>3, <3>4
    <2>3. UNCHANGED <<lifetime, values, store, publisher, watch, channels, heard>>
      BY <1>2 DEF Subscribe
    <2>4. nextId' \in Nat \ {0}
      BY <2>1, MaxSubsNat
    <2> QED BY <2>1, <2>2, <2>3, <2>4 DEF ClientTypeOK
  <1>3. ASSUME NEW k \in Keys, NEW type \in Types, SubscribeCommand(k, type)
        PROVE  ClientTypeOK'
    <2>1. /\ nextId' = nextId + 1 /\ nextId \in 1 .. MaxSubs
          /\ subs' \in [Keys \X Types \X BOOLEAN -> Seq(Subscriptions)]
      BY <1>3, RegisterEffect, TRUE \in BOOLEAN, FALSE \in BOOLEAN DEF SubscribeCommand
    <2>2. UNCHANGED <<lifetime, values, store, job, publisher, watch, channels, heard>>
      BY <1>3 DEF SubscribeCommand
    <2>4. nextId' \in Nat \ {0}
      BY <2>1, MaxSubsNat
    <2> QED BY <2>1, <2>2, <2>4 DEF ClientTypeOK
  <1>4. ASSUME NEW k \in Keys, NEW type \in Types, SendCommand(k, type)
        PROVE  ClientTypeOK'
    <2>1. [key |-> k, type |-> type, n |-> sent + 1] \in Commands /\ sent' \in Nat
      BY <1>4 DEF ClientTypeOK, Commands, SendCommand
    <2>2. commands' \in Seq(Commands)
      BY <1>4, <2>1, AppendProperties DEF ClientTypeOK, SendCommand
    <2> QED BY <1>4, <2>1, <2>2 DEF ClientTypeOK, SendCommand
  <1>5. ASSUME NEW k \in Keys, NEW type \in Types, NEW c \in BOOLEAN, Unsubscribe(k, type, c)
        PROVE  ClientTypeOK'
    <2>1. subs' \in [Keys \X Types \X BOOLEAN -> Seq(Subscriptions)]
      BY <1>5, UnregisterEffect
    <2> QED BY <1>5, <2>1 DEF ClientTypeOK, Unsubscribe
  <1>6. CASE Start
    BY <1>6 DEF Start, ClientTypeOK
  <1>7. CASE Stop
    <2>1. pubSeq' \in Nat
      BY <1>7, StopCounts DEF ClientTypeOK
    <2>2. ring' = <<>> /\ commands' = <<>> /\ <<>> \in Seq(Messages) /\ <<>> \in Seq(Commands)
      BY <1>7, EmptySeq DEF Stop
    <2>3. pending' \in [Keys -> Nat]
      BY <1>7 DEF Stop, ClientTypeOK
    <2>4. running' = FALSE /\ storeOpen' = FALSE
          /\ UNCHANGED <<runs, values, store, registry, job, kept, observed, consumers, replays, sent, heard>>
      BY <1>7 DEF Stop
    <2>5. snapshot' \in [Keys -> Nat] /\ overtaken' \subseteq Keys
      BY <1>7, NoneType DEF Stop, Overtaken
    <2> QED BY <2>1, <2>2, <2>3, <2>4, <2>5 DEF ClientTypeOK
  <1>8. ASSUME NEW t \in Threads, StoreStep(t) PROVE ClientTypeOK'
    <2>1. ~Idle(t) /\ Done(t)
      BY <1>8 DEF StoreStep, Doing
    <2>2. job' \in [Threads -> Seq(Steps)]
      BY <2>1, JobRest
    <2>3. store' \in [Keys -> Nat]
      <3>1. Head(job[t]).version \in Nat /\ Head(job[t]).key \in Keys
        <4>1. /\ Head(job[t]) = job[t][1] /\ job[t][1] \in Steps
              /\ job[t][1].version \in 0 .. truth[job[t][1].key]
          BY <1>8, StoredValue DEF StoreStep
        <4>2. job[t][1].key \in Keys
          BY <4>1 DEF Steps
        <4>3. truth[job[t][1].key] \in Nat
          BY <4>2 DEF ClientTypeOK
        <4> QED BY <4>1, <4>2, <4>3
      <3>2. store \in [Keys -> Nat]
        BY DEF ClientTypeOK
      <3>3. store' = [store EXCEPT ![Head(job[t]).key] = Head(job[t]).version] \/ store' = store
        BY <1>8 DEF StoreStep
      <3> QED BY <3>1, <3>2, <3>3
    <2> QED BY <1>8, <2>2, <2>3 DEF ClientTypeOK, StoreStep
  <1>9. ASSUME NEW t \in Threads, CallbackStep(t) PROVE ClientTypeOK'
    <2>1. ~Idle(t) /\ Done(t)
      BY <1>9 DEF CallbackStep, Doing
    <2>2. job' \in [Threads -> Seq(Steps)] /\ Head(job[t]) \in Steps
      BY <2>1, JobRest
    <2>3. seen' \in [1 .. MaxSubs -> Int]
      <3>1. Head(job[t]).version \in Int
        BY <2>2 DEF Steps
      <3>2. seen \in [1 .. MaxSubs -> Int]
        BY DEF ClientTypeOK
      <3>3. seen' = [seen EXCEPT ![Head(job[t]).sub] = Head(job[t]).version]
        BY <1>9 DEF CallbackStep
      <3> QED BY <3>1, <3>2, <3>3
    <2> QED BY <1>9, <2>2, <2>3 DEF ClientTypeOK, CallbackStep
  <1>10. CASE PublishStep
    <2>1. ~Idle(App) /\ Done(App) /\ App \in Threads
      BY <1>10 DEF PublishStep, Doing, Threads
    <2>2. job' \in [Threads -> Seq(Steps)]
      BY <2>1, JobRest
    <2>3. kept' \in [Keys -> Nat] /\ pending' \in [Keys -> Nat]
      <3> DEFINE k == job[App][1].key
      <3>1. k \in Keys /\ kept' = [kept EXCEPT ![k] = truth[k]] /\ pending' = [pending EXCEPT ![k] = truth[k]]
        BY <1>10, PublishedValue
      <3> HIDE DEF k
      <3> QED BY <3>1 DEF ClientTypeOK
    <2> QED BY <1>10, <2>2, <2>3 DEF ClientTypeOK, PublishStep
  <1>11. CASE FlushStep
    <2>1. ~Idle(App) /\ Done(App) /\ App \in Threads
      BY <1>11 DEF FlushStep, Doing, Threads
    <2>2. job' \in [Threads -> Seq(Steps)]
      BY <2>1, JobRest
    <2>3. ring' \in Seq(Messages) /\ pubSeq' \in Nat /\ pending' \in [Keys -> Nat]
      <3>1. CASE Flush
        BY <3>1, FlushEntries, NoneType
      <3>2. CASE UNCHANGED <<ring, pubSeq, pending>>
        BY <3>2 DEF ClientTypeOK
      <3> QED BY <1>11, <3>1, <3>2 DEF FlushStep
    <2> QED BY <1>11, <2>2, <2>3 DEF ClientTypeOK, FlushStep
  <1>12. CASE WorkerFlush
    <2>1. ring' \in Seq(Messages) /\ pubSeq' \in Nat /\ pending' \in [Keys -> Nat]
      BY <1>12, FlushEntries, NoneType DEF WorkerFlush
    <2> QED BY <1>12, <2>1 DEF ClientTypeOK, WorkerFlush
  <1>13. CASE ConsumerAppears
    BY <1>13 DEF ClientTypeOK, ConsumerAppears
  <1>14. CASE ReplayCopy
    <2>1. observed' = TRUE /\ snapshot' = kept /\ replays' \in {replays, replays + 1}
      BY <1>14 DEF ReplayCopy
    <2>2. replays' \in Nat /\ snapshot' \in [Keys -> Nat]
      BY <2>1 DEF ClientTypeOK
    <2> QED BY <1>14, <2>1, <2>2 DEF ClientTypeOK, ReplayCopy
  <1>18. CASE ReplayMerge
    <2>1. pending' \in [Keys -> Nat] /\ snapshot' \in [Keys -> Nat] /\ overtaken' \subseteq Keys
      BY <1>18, NoneType DEF ReplayMerge, Overtaken, ClientTypeOK
    <2> QED BY <1>18, <2>1 DEF ClientTypeOK, ReplayMerge
  <1>15. CASE Hear
    <2>1. /\ cache' \in [Keys -> [version : Nat, seq : Nat]] /\ ring' \in Seq(Messages)
          /\ job' \in [Threads -> Seq(Steps)]
          /\ UNCHANGED <<lifetime, localSeq, typeOf, truth, store, registry, publisher, watch,
                          commands, sent, seen>>
      BY <1>15, RingVersions, HearEffect
    <2> QED BY <2>1 DEF ClientTypeOK
  <1>16. CASE HandleCommand
    BY <1>16, CommandEffect DEF ClientTypeOK
  <1>17. CASE UNCHANGED clientVars
    BY <1>17 DEF clientVars, ClientTypeOK
  <1> QED BY <1>1, <1>2, <1>3, <1>4, <1>5, <1>6, <1>7, <1>8, <1>9, <1>10, <1>11, <1>12, <1>13,
             <1>14, <1>15, <1>16, <1>17, <1>18 DEF clientNext, threadStep

-----------------------------------------------------------------------------
(* The kinds of steps *)

\* Finishing a step that publishes nothing leaves the key to be published.
LEMMA PublishingKept ==
    ASSUME ClientTypeOK,
           \/ job'[App] = job[App]
           \/ job[App] # <<>> /\ job'[App] = Tail(job[App]) /\ Head(job[App]).do # "publish"
    PROVE  \A k : Publishing(k)' <=> Publishing(k)
  <1>1. CASE job'[App] = job[App]
    BY <1>1 DEF Publishing
  <1>2. CASE job[App] # <<>> /\ job'[App] = Tail(job[App]) /\ Head(job[App]).do # "publish"
    <2>1. job[App] \in Seq(Steps)
      BY DEF ClientTypeOK, Threads
    <2> DEFINE q == job[App]
    <2>2. /\ 1 \in DOMAIN q /\ Head(q) = q[1]
          /\ \A i \in DOMAIN Tail(q) : i + 1 \in DOMAIN q /\ Tail(q)[i] = q[i + 1]
          /\ \A i \in DOMAIN q : i = 1 \/ (i - 1 \in DOMAIN Tail(q) /\ Tail(q)[i - 1] = q[i])
      BY <1>2, <2>1, TailEntries
    <2>3. job'[App] = Tail(q) /\ q[1].do # "publish"
      BY <1>2, <2>2
    <2> HIDE DEF q
    <2>4. ASSUME NEW k
          PROVE  (\E i \in DOMAIN Tail(q) : Tail(q)[i].do = "publish" /\ Tail(q)[i].key = k)
                 <=> (\E i \in DOMAIN q : q[i].do = "publish" /\ q[i].key = k)
      <3> DEFINE t == Tail(q)
      <3>1. /\ \A i \in DOMAIN t : i + 1 \in DOMAIN q /\ t[i] = q[i + 1]
            /\ \A i \in DOMAIN q : i = 1 \/ (i - 1 \in DOMAIN t /\ t[i - 1] = q[i])
        BY <2>2
      <3> HIDE DEF t
      <3>2. ASSUME NEW i \in DOMAIN t, t[i].do = "publish", t[i].key = k
            PROVE  \E j \in DOMAIN q : q[j].do = "publish" /\ q[j].key = k
        BY <3>1, <3>2
      <3>3. ASSUME NEW i \in DOMAIN q, q[i].do = "publish", q[i].key = k
            PROVE  \E j \in DOMAIN t : t[j].do = "publish" /\ t[j].key = k
        BY <3>1, <3>3, <2>3
      <3>4. (\E i \in DOMAIN t : t[i].do = "publish" /\ t[i].key = k)
            <=> (\E i \in DOMAIN q : q[i].do = "publish" /\ q[i].key = k)
        BY <3>2, <3>3
      <3> QED BY <3>4 DEF t
    <2> QED BY <2>3, <2>4 DEF Publishing, q
  <1> QED BY <1>1, <1>2

\* A call that has not begun publishes nothing.
LEMMA IdleQuiet == Idle(App) => \A k : ~Publishing(k)
  <1>1. DOMAIN <<>> = {}
    OBVIOUS
  <1> QED BY <1>1, Zenon DEF Idle, Publishing

\* A Put* of a key publishes that key alone.
LEMMA PutPublishing ==
    ASSUME ClientTypeOK, NEW k \in Keys, NEW type \in Types, Put(k, type) \/ Get(k, type)
    PROVE  /\ \A l : ~Publishing(l)
           /\ \A l : Publishing(l)' <=> l = k
  <1>1. PICK after \in Afters(k) : Putting(k, type, after)
    BY PutCalls
  <1>2. job[App] \in Seq(Steps) /\ localSeq \in Nat
        /\ job' = [job EXCEPT ![App] = PutSteps(k, localSeq, type, after)] /\ job \in [Threads -> Seq(Steps)]
    <2>1. job \in [Threads -> Seq(Steps)] /\ App \in Threads
      BY DEF ClientTypeOK, Threads
    <2>2. job' = [job EXCEPT ![App] = PutSteps(k, localSeq, type, after)]
          /\ Len(typeOf) \in Nat /\ localSeq = Len(typeOf) + 1
      BY <1>1, PutEffect
    <2> QED BY <2>1, <2>2
  <1> DEFINE q == PutSteps(k, localSeq, type, after)
             n == Len(subs[<<k, type, FALSE>>]) + 2
  <1>3. /\ n \in DOMAIN q /\ q[n] = Step("publish", k, localSeq)
        /\ \A i \in DOMAIN q : \/ q[i] = Step("store", k, localSeq)
                               \/ \E j \in DOMAIN subs[<<k, type, FALSE>>] :
                                     q[i] = Callback(k, localSeq, subs[<<k, type, FALSE>>][j].id)
                               \/ q[i] = Step("publish", k, localSeq)
                               \/ q[i] = Step("flush", k, 0)
    BY <1>1, <1>2, PutEntries
  <1> HIDE DEF q, n
  <1>4. \A i \in DOMAIN q : q[i].key = k
    BY <1>3 DEF Step, Callback
  <1>5. q[n].do = "publish"
    BY <1>3 DEF Step
  <1>6. job'[App] = q
    BY <1>2 DEF q, Threads
  <1>7. \A l : Publishing(l)' <=> l = k
    BY <1>3, <1>4, <1>5, <1>6 DEF Publishing
  <1>8. \A l : ~Publishing(l)
    BY PutCalls, IdleQuiet
  <1> QED BY <1>7, <1>8

\* The steps that touch none of the values.
Quiet ==
    /\ UNCHANGED <<localSeq, typeOf, truth, cache, store, kept, pending, pubSeq, ring, seen, replays,
                   snapshot, overtaken>>
    /\ running' /\ observed' => running /\ observed
    /\ job'[Reader] = job[Reader]
    /\ \A k : Publishing(k)' <=> Publishing(k)

\* Registering, starting, commands and new consumers are quiet.
LEMMA QuietSteps ==
    ASSUME ClientTypeOK,
           \/ \E k \in Keys, type \in Types :
                 \/ \E now \in BOOLEAN : Subscribe(k, type, now)
                 \/ SubscribeCommand(k, type) \/ SendCommand(k, type)
                 \/ \E c \in BOOLEAN : Unsubscribe(k, type, c)
           \/ Start \/ ConsumerAppears \/ HandleCommand
           \/ UNCHANGED clientVars
    PROVE  Quiet
  <1> USE DEF lifetime, values, registry, publisher, watch, channels, heard
  <1>0. Reader # App /\ Commander # App /\ Commander # Reader /\ App \in Threads /\ Reader \in Threads
        /\ job \in [Threads -> Seq(Steps)]
    BY DEF Reader, App, Commander, Threads, ClientTypeOK
  <1>1. ASSUME NEW k \in Keys, NEW type \in Types, NEW now \in BOOLEAN, Subscribe(k, type, now)
        PROVE  Quiet
    <2>1. /\ job' = [job EXCEPT ![App] = <<Callback(k, TryReadCached(k, type), nextId)>>] \/ job' = job
          /\ UNCHANGED <<lifetime, values, store, publisher, watch, channels, heard>>
          /\ Idle(App)
      BY <1>1 DEF Subscribe, Registering
    <2>2. job'[Reader] = job[Reader]
      BY <1>0, <2>1
    <2>3. \A l : Publishing(l)' <=> Publishing(l)
      <3>1. CASE job' = job
        BY <3>1, PublishingKept
      <3>2. CASE job' = [job EXCEPT ![App] = <<Callback(k, TryReadCached(k, type), nextId)>>]
        <4> DEFINE x == Callback(k, TryReadCached(k, type), nextId)
        <4>1. job'[App] = <<x>>
          BY <1>0, <3>2
        <4>2. x.do = "callback"
          BY DEF Callback, Step
        <4> HIDE DEF x
        <4>3. DOMAIN <<x>> = {1} /\ <<x>>[1] = x
          <5>1. x \in {x}
            OBVIOUS
          <5> QED BY <5>1, OneEntry
        <4>4. \A l : ~Publishing(l)'
          BY <4>1, <4>2, <4>3 DEF Publishing
        <4> QED BY <2>1, <4>4, IdleQuiet
      <3> QED BY <2>1, <3>1, <3>2
    <2> QED BY <2>1, <2>2, <2>3 DEF Quiet
  <1>2. ASSUME NEW k \in Keys, NEW type \in Types, NEW c \in BOOLEAN,
               SubscribeCommand(k, type) \/ SendCommand(k, type) \/ Unsubscribe(k, type, c)
        PROVE  Quiet
    <2>1. UNCHANGED <<localSeq, typeOf, truth, cache, store, kept, pending, pubSeq, ring, seen,
                      replays, running, observed, job, snapshot, overtaken>>
      BY <1>2 DEF SubscribeCommand, SendCommand, Unsubscribe
    <2> QED BY <2>1, PublishingKept DEF Quiet
  <1>3. CASE Start \/ ConsumerAppears
    <2>1. /\ UNCHANGED <<localSeq, typeOf, truth, cache, store, kept, pending, pubSeq, ring, seen,
                         replays, job, snapshot, overtaken>>
          /\ observed' = FALSE
      BY <1>3 DEF Start, ConsumerAppears
    <2> QED BY <2>1, PublishingKept DEF Quiet
  <1>4. CASE HandleCommand
    <2>1. /\ \A t \in Threads : t # Commander => job'[t] = job[t]
          /\ UNCHANGED <<lifetime, values, store, registry, publisher, watch, ring, sent, heard>>
      BY <1>4, CommandEffect
    <2>2. job'[Reader] = job[Reader] /\ job'[App] = job[App]
      BY <1>0, <2>1
    <2> QED BY <2>1, <2>2, PublishingKept DEF Quiet
  <1>5. CASE UNCHANGED clientVars
    <2>1. UNCHANGED <<localSeq, typeOf, truth, cache, store, kept, pending, pubSeq, ring, seen,
                      replays, running, observed, job, snapshot, overtaken>>
      BY <1>5 DEF clientVars
    <2> QED BY <2>1, PublishingKept DEF Quiet
  <1> QED BY <1>1, <1>2, <1>3, <1>4, <1>5

\* Every step is quiet or one of these.
LEMMA StepKinds ==
    ASSUME ClientTypeOK, [clientNext]_clientVars
    PROVE  \/ Quiet
           \/ \E k \in Keys, type \in Types : Put(k, type) \/ Get(k, type)
           \/ \E t \in Threads : StoreStep(t) \/ CallbackStep(t)
           \/ Stop \/ PublishStep \/ FlushStep \/ WorkerFlush \/ ReplayCopy \/ ReplayMerge \/ Hear
  BY QuietSteps DEF clientNext, threadStep

\* A step of a job, which publishes nothing.
LEMMA JobStep ==
    ASSUME ClientTypeOK, NEW t \in Threads,
           StoreStep(t) \/ CallbackStep(t) \/ (t = App /\ FlushStep)
    PROVE  /\ job[t] # <<>> /\ Head(job[t]) = job[t][1] /\ 1 \in DOMAIN job[t] /\ job[t][1] \in Steps
           /\ job'[t] = Tail(job[t]) /\ \A u \in Threads : u # t => job'[u] = job[u]
           /\ \A i \in DOMAIN job'[t] : i \in Nat /\ i >= 1 /\ i + 1 \in DOMAIN job[t] /\ job'[t][i] = job[t][i + 1]
           /\ \A i \in DOMAIN job[t] : i \in Nat /\ i >= 1
                 /\ (i = 1 \/ (i - 1 \in DOMAIN job'[t] /\ job'[t][i - 1] = job[t][i]))
           /\ \A k : Publishing(k)' <=> Publishing(k)
  <1>1. ~Idle(t) /\ Done(t) /\ Head(job[t]).do \in {"store", "callback", "flush"}
    BY DEF StoreStep, CallbackStep, FlushStep, Doing
  <1>2. job'[t] = Tail(job[t]) /\ \A u \in Threads : u # t => job'[u] = job[u]
    BY <1>1, JobRest
  <1>3. job[t] \in Seq(Steps) /\ job[t] # <<>>
    BY <1>1 DEF ClientTypeOK, Idle
  <1>4. /\ 1 \in DOMAIN job[t] /\ Head(job[t]) = job[t][1] /\ Head(job[t]) \in Steps
        /\ \A i \in DOMAIN Tail(job[t]) : i \in Nat /\ i >= 1 /\ i + 1 \in DOMAIN job[t] /\ Tail(job[t])[i] = job[t][i + 1]
        /\ \A i \in DOMAIN job[t] : i \in Nat /\ i >= 1
        /\ \A i \in DOMAIN job[t] : i = 1 \/ (i - 1 \in DOMAIN Tail(job[t]) /\ Tail(job[t])[i - 1] = job[t][i])
    BY <1>3, TailEntries
  <1>5. \A k : Publishing(k)' <=> Publishing(k)
    <2>1. CASE t = App
      BY <1>1, <1>2, <1>3, <2>1, PublishingKept
    <2>2. CASE t # App
      BY <1>2, <2>2, PublishingKept DEF Threads
    <2> QED BY <2>1, <2>2
  <1> QED BY <1>2, <1>3, <1>4, <1>5

\* Of the keys only one can be published.
LEMMA PublishEnds ==
    ASSUME Structure, PublishStep
    PROVE  /\ Publishing(job[App][1].key)
           /\ \A k : ~Publishing(k)' /\ (Publishing(k) => k = job[App][1].key)
           /\ job'[Reader] = job[Reader]
           /\ job'[App] = Tail(job[App])
  <1>1. ~Idle(App) /\ Done(App) /\ App \in Threads /\ job[App] \in Seq(Steps) /\ job[App] # <<>>
    BY DEF PublishStep, Doing, Threads, Structure, ClientTypeOK, Idle
  <1>2. job'[App] = Tail(job[App]) /\ \A u \in Threads : u # App => job'[u] = job[u]
    BY <1>1, JobRest DEF Structure
  <1>3. job'[Reader] = job[Reader]
    BY <1>2 DEF Threads, Reader, App
  <1>4. 1 \in DOMAIN job[App] /\ job[App][1].do = "publish"
    BY PublishedValue
  <1>5. \A j \in DOMAIN job[App] : job[App][j].do = "publish" => j = 1
    BY <1>4 DEF Structure, AppJob
  <1>6. \A i \in DOMAIN Tail(job[App]) : i \in Nat /\ i >= 1 /\ i + 1 \in DOMAIN job[App] /\ Tail(job[App])[i] = job[App][i + 1]
    BY <1>1, TailEntries
  <1>7. \A i \in DOMAIN Tail(job[App]) : Tail(job[App])[i].do # "publish"
    <2> TAKE i \in DOMAIN Tail(job[App])
    <2>1. i \in Nat /\ i >= 1 /\ i + 1 \in DOMAIN job[App] /\ Tail(job[App])[i] = job[App][i + 1]
      BY <1>6
    <2>2. i + 1 # 1
      BY <2>1
    <2> QED BY <1>5, <2>1, <2>2
  <1>8. \A k : ~Publishing(k)'
    BY <1>2, <1>7 DEF Publishing
  <1>9. \A k : Publishing(k) => k = job[App][1].key
    BY <1>5 DEF Publishing
  <1>10. Publishing(job[App][1].key)
    BY <1>4 DEF Publishing
  <1> QED BY <1>2, <1>3, <1>8, <1>9, <1>10

-----------------------------------------------------------------------------
(* Nothing holds a version that was not put *)

\* No step makes up a version (Put*, StorePending, FlushNow, ReplayRetained).
LEMMA VersionsPutStep ==
    ASSUME Structure, RingOrder, [clientNext]_clientVars
    PROVE  VersionsPut'
  <1> USE DEF lifetime, values, registry, publisher, watch, channels, heard
  <1>0. ClientTypeOK /\ VersionsPut
    BY DEF Structure
  <1>1. CASE Quiet
    BY <1>0, <1>1 DEF Quiet, VersionsPut
  <1>2. ASSUME NEW k \in Keys, NEW type \in Types, Put(k, type) \/ Get(k, type)
        PROVE  VersionsPut'
    <2>1. PICK after \in Afters(k) : Putting(k, type, after)
      BY <1>2, PutCalls
    <2>2. UNCHANGED <<store, kept, pending, snapshot, overtaken>>
      BY <1>2, PutCalls
    <2>3. /\ Len(typeOf) \in Nat /\ localSeq = Len(typeOf) + 1 /\ Len(typeOf') = Len(typeOf) + 1
          /\ truth' = [truth EXCEPT ![k] = localSeq]
          /\ cache' = [cache EXCEPT ![k] = Cached(k, localSeq, localSeq)]
      BY <1>0, <2>1, PutEffect
    <2>4. \A l : ~Publishing(l) /\ (Publishing(l)' <=> l = k)
      BY <1>0, <1>2, PutPublishing
    <2>5. ASSUME NEW l \in Keys
          PROVE  /\ truth[l] \in Nat /\ truth[l] <= Len(typeOf) /\ cache[l].version \in Nat
                 /\ store[l] \in Nat /\ kept[l] \in Nat
                 /\ cache[l].version <= truth[l] /\ store[l] <= truth[l] /\ kept[l] <= truth[l]
                 /\ kept[l] = truth[l]
                 /\ pending[l] \in Nat /\ pending[l] <= truth[l]
                 /\ snapshot[l] \in Nat /\ snapshot[l] <= truth[l]
                 /\ l \in overtaken \/ pending[l] \in {0, kept[l]}
      BY <1>0, <2>4 DEF ClientTypeOK, VersionsPut
    <2>6. /\ truth'[k] = localSeq
          /\ cache'[k] = Cached(k, localSeq, localSeq)
          /\ \A l \in Keys : l # k => truth'[l] = truth[l] /\ cache'[l] = cache[l]
      BY <1>0, <2>3 DEF ClientTypeOK
    <2>7. cache'[k].version = localSeq \/ cache'[k].version = cache[k].version
      BY <2>6 DEF Cached
    <2>8. ASSUME NEW l \in Keys
          PROVE  /\ truth'[l] <= Len(typeOf')
                 /\ cache'[l].version <= truth'[l] /\ store'[l] <= truth'[l] /\ kept'[l] <= truth'[l]
                 /\ pending'[l] <= truth'[l] /\ snapshot'[l] <= truth'[l]
                 /\ l \in overtaken' \/ pending'[l] \in {0, kept'[l]}
                 /\ Publishing(l)' \/ kept'[l] = truth'[l]
      <3>1. CASE l = k
        BY <2>2, <2>3, <2>4, <2>5, <2>6, <2>7, <3>1
      <3>2. CASE l # k
        BY <2>2, <2>3, <2>4, <2>5, <2>6, <3>2
      <3> QED BY <3>1, <3>2
    <2> QED BY <2>8 DEF VersionsPut
  <1>3. ASSUME NEW t \in Threads, StoreStep(t) PROVE VersionsPut'
    <2>1. /\ Head(job[t]) = job[t][1] /\ job[t][1] \in Steps
          /\ job[t][1].version \in 0 .. truth[job[t][1].key]
      BY <1>3, StoredValue DEF StoreStep
    <2>2. job[t][1].key \in Keys /\ truth[job[t][1].key] \in Nat
      BY <1>0, <2>1 DEF Steps, ClientTypeOK
    <2>3. \A k \in Keys : store'[k] = store[k] \/ store'[k] <= truth[k]
      <3>1. store' = [store EXCEPT ![job[t][1].key] = job[t][1].version] \/ store' = store
        BY <1>3, <2>1 DEF StoreStep
      <3>2. store \in [Keys -> Nat]
        BY <1>0 DEF ClientTypeOK
      <3> DEFINE k0 == job[t][1].key
                 v0 == job[t][1].version
      <3>3. k0 \in Keys /\ v0 <= truth[k0] /\ (store' = [store EXCEPT ![k0] = v0] \/ store' = store)
        BY <2>1, <2>2, <3>1
      <3> HIDE DEF k0, v0
      <3> QED BY <3>2, <3>3
    <2>4. \A k : Publishing(k)' <=> Publishing(k)
      BY <1>0, <1>3, JobStep
    <2>5. UNCHANGED <<truth, typeOf, cache, kept, pending, snapshot, overtaken>>
      BY <1>3 DEF StoreStep
    <2> QED BY <1>0, <2>3, <2>4, <2>5 DEF VersionsPut
  <1>4. ASSUME NEW t \in Threads, CallbackStep(t) PROVE VersionsPut'
    <2>1. \A k : Publishing(k)' <=> Publishing(k)
      BY <1>0, <1>4, JobStep
    <2>2. UNCHANGED <<truth, typeOf, cache, store, kept, pending, snapshot, overtaken>>
      BY <1>4 DEF CallbackStep
    <2> QED BY <1>0, <2>1, <2>2 DEF VersionsPut
  <1>5. CASE PublishStep
    <2> DEFINE k0 == job[App][1].key
    <2>1. /\ k0 \in Keys /\ kept' = [kept EXCEPT ![k0] = truth[k0]]
          /\ pending' = [pending EXCEPT ![k0] = truth[k0]]
      BY <1>5, PublishedValue
    <2>2. \A k : ~Publishing(k)' /\ (Publishing(k) => k = k0)
      BY <1>5, PublishEnds
    <2>3. UNCHANGED <<truth, typeOf, cache, store, snapshot>> /\ overtaken' = overtaken \ {k0}
      BY <1>5, PublishedValue DEF PublishStep
    <2> HIDE DEF k0
    <2>4. \A k \in Keys : truth[k] \in Nat /\ (k # k0 => kept'[k] = kept[k] /\ pending'[k] = pending[k])
      BY <1>0, <2>1 DEF ClientTypeOK
    <2>5. kept'[k0] = truth[k0] /\ pending'[k0] = truth[k0]
      BY <1>0, <2>1 DEF ClientTypeOK
    <2>6. \A k \in Keys : k # k0 => (k \in overtaken' <=> k \in overtaken)
      BY <2>3
    <2>7. ASSUME NEW k \in Keys
          PROVE  /\ truth'[k] <= Len(typeOf')
                 /\ cache'[k].version <= truth'[k] /\ store'[k] <= truth'[k] /\ kept'[k] <= truth'[k]
                 /\ pending'[k] <= truth'[k] /\ snapshot'[k] <= truth'[k]
                 /\ k \in overtaken' \/ pending'[k] \in {0, kept'[k]}
                 /\ Publishing(k)' \/ kept'[k] = truth'[k]
      <3>1. CASE k = k0
        BY <1>0, <2>3, <2>4, <2>5, <3>1 DEF VersionsPut
      <3>2. CASE k # k0
        BY <1>0, <2>2, <2>3, <2>4, <2>6, <3>2 DEF VersionsPut
      <3> QED BY <3>1, <3>2
    <2> QED BY <2>7 DEF VersionsPut
  <1>6. CASE FlushStep
    <2>1. \A k : Publishing(k)' <=> Publishing(k)
      BY <1>0, <1>6, JobStep, App \in Threads DEF Threads
    <2>2. UNCHANGED <<truth, typeOf, cache, store, kept, snapshot, overtaken>>
      BY <1>6 DEF FlushStep
    <2>3. \A k \in Keys : truth[k] \in Nat /\ (pending'[k] = 0 \/ pending'[k] = pending[k])
      BY <1>0, <1>6, NoneType DEF FlushStep, Flush, ClientTypeOK
    <2> QED BY <1>0, <2>1, <2>2, <2>3 DEF VersionsPut
  <1>7. CASE Stop \/ WorkerFlush \/ ReplayCopy \/ ReplayMerge
    <2>1. UNCHANGED <<truth, typeOf, cache, store, kept, job>>
      BY <1>7 DEF Stop, WorkerFlush, ReplayCopy, ReplayMerge
    <2>2. \A k : Publishing(k)' <=> Publishing(k)
      BY <1>0, <2>1, PublishingKept
    <2>3. ASSUME NEW k \in Keys
          PROVE  /\ pending'[k] \in {0, pending[k], snapshot[k]} /\ snapshot'[k] \in {0, snapshot[k], kept[k]}
                 /\ k \in overtaken' \/ pending'[k] \in {0, kept[k]}
                 /\ truth[k] \in Nat /\ pending[k] <= truth[k] /\ snapshot[k] <= truth[k] /\ kept[k] <= truth[k]
      <3>1. /\ truth[k] \in Nat /\ pending[k] <= truth[k] /\ snapshot[k] <= truth[k] /\ kept[k] <= truth[k]
            /\ k \in overtaken \/ pending[k] \in {0, kept[k]}
        BY <1>0 DEF VersionsPut, ClientTypeOK
      <3>2. CASE Stop
        <4>1. pending' = snapshot /\ snapshot'[k] = 0 /\ overtaken' = Overtaken
          BY <3>2, NoneType DEF Stop
        <4> QED BY <3>1, <4>1 DEF Overtaken
      <3>3. CASE WorkerFlush
        <4>1. pending'[k] = 0 /\ UNCHANGED <<snapshot, overtaken>>
          BY <3>3, NoneType DEF WorkerFlush, Flush
        <4> QED BY <3>1, <4>1
      <3>4. CASE ReplayCopy
        BY <3>1, <3>4 DEF ReplayCopy
      <3>5. CASE ReplayMerge
        <4>1. /\ pending'[k] = IF snapshot[k] = 0 THEN pending[k] ELSE snapshot[k]
              /\ snapshot'[k] = 0 /\ overtaken' = Overtaken
          BY <3>5, NoneType DEF ReplayMerge
        <4> QED BY <3>1, <4>1 DEF Overtaken
      <3> QED BY <1>7, <3>2, <3>3, <3>4, <3>5
    <2> QED BY <1>0, <2>1, <2>2, <2>3 DEF VersionsPut
  <1>8. CASE Hear
    <2> DEFINE u == ring[1]
    <2>1. /\ 1 \in DOMAIN ring /\ u \in Messages
          /\ cache' = [cache EXCEPT ![u.key] = Cached(u.key, u.version, u.seq)]
          /\ job' = [job EXCEPT ![Reader] = HearSteps(u.key, u.version, typeOf[u.version])]
          /\ UNCHANGED <<typeOf, truth, store, kept, pending, snapshot, overtaken>>
      BY <1>0, <1>8, RingVersions, HearEffect
    <2>2. u.key \in Keys /\ u.version <= truth[u.key]
      BY <1>0, <2>1, RingVersions
    <2>3. job'[App] = job[App]
      <3>1. job \in [Threads -> Seq(Steps)] /\ App \in Threads /\ App # Reader
        BY <1>0 DEF ClientTypeOK, Threads, App, Reader
      <3> QED BY <2>1, <3>1
    <2>4. \A k : Publishing(k)' <=> Publishing(k)
      BY <1>0, <2>3, PublishingKept
    <2>5. \A k \in Keys : cache'[k].version = cache[k].version \/ cache'[k].version <= truth[k]
      BY <1>0, <2>1, <2>2 DEF Cached, ClientTypeOK
    <2> QED BY <1>0, <2>1, <2>4, <2>5 DEF VersionsPut
  <1> QED BY <1>0, <1>1, <1>2, <1>3, <1>4, <1>5, <1>6, <1>7, <1>8, StepKinds

-----------------------------------------------------------------------------
(* The order of the ring *)

\* A flush numbers what it appends after everything in the ring (FlushNow).
LEMMA RingOrderStep ==
    ASSUME Structure, RingOrder, [clientNext]_clientVars
    PROVE  RingOrder'
  <1> USE DEF lifetime, values, registry, publisher, watch, channels, heard
  <1>0. ClientTypeOK /\ VersionsPut
    BY DEF Structure
  <1>1. CASE Quiet
    BY <1>1 DEF Quiet, RingOrder
  <1>2. ASSUME NEW k \in Keys, NEW type \in Types, Put(k, type) \/ Get(k, type)
        PROVE  RingOrder'
    <2>1. PICK after \in Afters(k) : Putting(k, type, after)
      BY <1>2, PutCalls
    <2>2. UNCHANGED <<ring, pubSeq>>
      BY <1>2, PutCalls
    <2>3. Len(typeOf) \in Nat /\ localSeq = Len(typeOf) + 1 /\ truth' = [truth EXCEPT ![k] = localSeq]
      BY <1>0, <2>1, PutEffect
    <2>4. \A i \in DOMAIN ring : ring[i].key \in Keys /\ ring[i].version \in 1 .. Len(typeOf)
                                 /\ ring[i].version <= truth[ring[i].key]
      BY <1>0, RingVersions
    <2>5. \A i \in DOMAIN ring : ring[i].version <= truth'[ring[i].key]
      <3> TAKE i \in DOMAIN ring
      <3>1. CASE ring[i].key = k
        <4>1. truth'[k] = localSeq
          BY <1>0, <2>3 DEF ClientTypeOK
        <4> QED BY <2>3, <2>4, <3>1, <4>1
      <3>2. CASE ring[i].key # k
        BY <1>0, <2>3, <2>4, <3>2 DEF ClientTypeOK
      <3> QED BY <3>1, <3>2
    <2> QED BY <2>2, <2>5 DEF RingOrder
  <1>3. ASSUME NEW t \in Threads, StoreStep(t) \/ CallbackStep(t) PROVE RingOrder'
    BY <1>3 DEF StoreStep, CallbackStep, RingOrder
  <1>4. CASE PublishStep \/ ReplayCopy \/ ReplayMerge
    BY <1>4 DEF PublishStep, ReplayCopy, ReplayMerge, RingOrder
  <1>5. CASE Stop
    <2>1. ring' = <<>>
      BY <1>5 DEF Stop
    <2>2. DOMAIN <<>> = {}
      OBVIOUS
    <2>3. DOMAIN ring' = {}
      BY <2>1, <2>2, Zenon
    <2> QED BY <2>3 DEF RingOrder
  <1>6. CASE Flush /\ UNCHANGED truth
    <2>1. /\ pubSeq' \in Nat /\ pubSeq \in Nat
          /\ Cardinality(Waiting) \in Nat /\ pubSeq' = pubSeq + Cardinality(Waiting)
          /\ \A i \in DOMAIN ring : i \in DOMAIN ring' /\ ring'[i] = ring[i]
          /\ \A i \in DOMAIN ring' : i \in DOMAIN ring \/
                /\ \A j \in DOMAIN ring : j < i
                /\ pubSeq < ring'[i].seq /\ ring'[i].seq <= pubSeq'
                /\ ring'[i].version = pending[ring'[i].key]
          /\ \A i, j \in DOMAIN ring' : i < j /\ i \notin DOMAIN ring /\ j \notin DOMAIN ring
                => ring'[i].seq < ring'[j].seq
      BY <1>0, <1>6, FlushEntries DEF ClientTypeOK
    <2>2. pubSeq <= pubSeq'
      BY <2>1
    <2>3. /\ ring' \in Seq(Messages) /\ DOMAIN ring' \subseteq Int
          /\ ring \in Seq(Messages) /\ \A i \in DOMAIN ring : ring[i] \in Messages
          /\ \A i \in DOMAIN ring' : ring'[i] \in Messages
      <3>1. ring' \in Seq(Messages) /\ ring \in Seq(Messages)
        BY <1>0, <1>6, FlushEntries DEF ClientTypeOK
      <3> QED BY <3>1, LenProperties, ElementOfSeq
    <2>4. \A i \in DOMAIN ring' : ring'[i].seq <= pubSeq' /\ ring'[i].version <= truth[ring'[i].key]
      <3> TAKE i \in DOMAIN ring'
      <3>1. CASE i \in DOMAIN ring
        <4>1. ring'[i] = ring[i] /\ ring[i].seq <= pubSeq /\ ring[i].version <= truth[ring[i].key]
          BY <2>1, <3>1 DEF RingOrder
        <4>2. ring[i].seq \in Nat
          BY <2>3, <3>1 DEF Messages
        <4> QED BY <2>1, <2>2, <4>1, <4>2
      <3>2. CASE i \notin DOMAIN ring
        <4>1. ring'[i].seq <= pubSeq' /\ ring'[i].version = pending[ring'[i].key]
          BY <2>1, <3>2
        <4>2. ring'[i].key \in Keys
          BY <2>3 DEF Messages
        <4>3. pending[ring'[i].key] <= truth[ring'[i].key]
          <5> DEFINE k == ring'[i].key
          <5>1. k \in Keys
            BY <4>2
          <5> HIDE DEF k
          <5>4. pending[k] <= truth[k]
            BY <1>0, <5>1 DEF VersionsPut
          <5> QED BY <5>4 DEF k
        <4> QED BY <4>1, <4>3
      <3> QED BY <3>1, <3>2
    <2>5. \A i, j \in DOMAIN ring' : i < j => ring'[i].seq < ring'[j].seq
      <3> SUFFICES ASSUME NEW i \in DOMAIN ring', NEW j \in DOMAIN ring', i < j
                   PROVE  ring'[i].seq < ring'[j].seq
        OBVIOUS
      <3>1. CASE i \in DOMAIN ring /\ j \in DOMAIN ring
        BY <2>1, <3>1 DEF RingOrder
      <3>2. CASE i \in DOMAIN ring /\ j \notin DOMAIN ring
        <4>1. ring'[i] = ring[i] /\ ring[i].seq <= pubSeq /\ pubSeq < ring'[j].seq
          BY <2>1, <3>2 DEF RingOrder
        <4>2. ring[i].seq \in Nat /\ ring'[j].seq \in Nat
          BY <2>3, <3>2 DEF Messages
        <4> QED BY <2>1, <4>1, <4>2
      <3>3. CASE i \notin DOMAIN ring /\ j \in DOMAIN ring
        <4>1. j < i /\ i \in Int /\ j \in Int
          BY <2>1, <2>3, <3>3
        <4> QED BY <4>1
      <3>4. CASE i \notin DOMAIN ring /\ j \notin DOMAIN ring
        BY <2>1, <3>4
      <3> QED BY <3>1, <3>2, <3>3, <3>4
    <2> QED BY <1>6, <2>4, <2>5 DEF RingOrder
  <1>7. CASE FlushStep \/ WorkerFlush
    <2>1. UNCHANGED truth /\ (Flush \/ UNCHANGED <<ring, pubSeq>>)
      BY <1>7 DEF FlushStep, WorkerFlush
    <2>2. CASE UNCHANGED <<ring, pubSeq>>
      BY <2>1, <2>2 DEF RingOrder
    <2> QED BY <1>6, <2>1, <2>2
  <1>8. CASE Hear
    <2>1. ring # <<>> /\ ring' = Tail(ring) /\ UNCHANGED <<truth, pubSeq>> /\ ring \in Seq(Messages)
      BY <1>0, <1>8, RingVersions, HearEffect DEF ClientTypeOK
    <2>2. \A i \in DOMAIN ring' : i \in Nat /\ i + 1 \in DOMAIN ring /\ ring'[i] = ring[i + 1]
      BY <2>1, TailEntries
    <2>3. \A i, j \in DOMAIN ring' : i < j => i + 1 < j + 1
      BY <2>2
    <2> QED BY <2>1, <2>2, <2>3 DEF RingOrder
  <1> QED BY <1>0, <1>1, <1>2, <1>3, <1>4, <1>5, <1>7, <1>8, StepKinds

-----------------------------------------------------------------------------
(* What the cache holds against what the ring holds *)

\* The cache keeps its place among the publisher's numbers (HandleUpdate).
LEMMA CacheOrderStep ==
    ASSUME Structure, RingOrder, CacheOrder, [clientNext]_clientVars
    PROVE  CacheOrder'
  <1> USE DEF lifetime, values, registry, publisher, watch, channels, heard
  <1>0. ClientTypeOK /\ VersionsPut
    BY DEF Structure
  <1>a. /\ cache \in [Keys -> [version : Nat, seq : Nat]] /\ pubSeq \in Nat
        /\ truth \in [Keys -> Nat] /\ ring \in Seq(Messages)
        /\ \A i \in DOMAIN ring : ring[i] \in Messages /\ ring[i].seq \in Nat
    <2>1. /\ cache \in [Keys -> [version : Nat, seq : Nat]] /\ pubSeq \in Nat
          /\ truth \in [Keys -> Nat] /\ ring \in Seq(Messages)
      BY <1>0 DEF ClientTypeOK
    <2>2. \A i \in DOMAIN ring : ring[i] \in Messages
      BY <2>1, LenProperties, ElementOfSeq
    <2> QED BY <2>1, <2>2 DEF Messages
  <1>1. CASE Quiet
    BY <1>1 DEF Quiet, CacheOrder, Heard
  <1>2. ASSUME NEW k \in Keys, NEW type \in Types, Put(k, type) \/ Get(k, type)
        PROVE  CacheOrder'
    <2>1. PICK after \in Afters(k) : Putting(k, type, after)
      BY <1>2, PutCalls
    <2>2. UNCHANGED <<ring, pubSeq>>
      BY <1>2, PutCalls
    <2>3. /\ localSeq \in Nat /\ localSeq' = localSeq + 1 /\ localSeq # 0
          /\ truth' = [truth EXCEPT ![k] = localSeq]
          /\ cache' = [cache EXCEPT ![k] = Cached(k, localSeq, localSeq)]
      BY <1>0, <2>1, PutEffect
    <2>4. /\ truth'[k] = localSeq /\ cache'[k] = Cached(k, localSeq, localSeq)
          /\ \A l \in Keys : l # k => truth'[l] = truth[l] /\ cache'[l] = cache[l]
      BY <1>a, <2>3
    <2>5. \A l \in Keys : cache[l].seq \in Nat
      BY <1>a
    <2>6. ASSUME NEW l \in Keys
          PROVE  (cache'[l].version = truth'[l] /\ cache'[l].seq < localSeq') \/ Heard(l)'
      <3>1. CASE l # k
        BY <2>2, <2>3, <2>4, <2>5, <3>1 DEF CacheOrder, Heard
      <3>2. CASE l = k /\ (cache[k].version = 0 \/ localSeq >= cache[k].seq)
        <4>1. cache'[k] = [version |-> localSeq, seq |-> localSeq]
          BY <2>4, <3>2 DEF Cached
        <4> QED BY <2>3, <2>4, <3>2, <4>1
      <3>3. CASE l = k /\ ~(cache[k].version = 0 \/ localSeq >= cache[k].seq)
        <4>1. cache'[k] = cache[k]
          BY <2>3, <2>4, <3>3 DEF Cached
        <4>2. ~(cache[k].seq < localSeq)
          BY <2>3, <2>5, <3>3
        <4>3. Heard(k)
          BY <3>3, <4>2 DEF CacheOrder
        <4> QED BY <2>2, <3>3, <4>1, <4>3 DEF Heard
      <3> QED BY <3>1, <3>2, <3>3
    <2> QED BY <2>6 DEF CacheOrder
  <1>3. ASSUME NEW t \in Threads, StoreStep(t) \/ CallbackStep(t) PROVE CacheOrder'
    BY <1>3 DEF StoreStep, CallbackStep, CacheOrder, Heard
  <1>4. CASE PublishStep \/ ReplayCopy \/ ReplayMerge
    BY <1>4 DEF PublishStep, ReplayCopy, ReplayMerge, CacheOrder, Heard
  <1>5. CASE Stop
    <2>1. ring' = <<>> /\ UNCHANGED <<cache, truth, localSeq>>
      BY <1>5 DEF Stop
    <2>2. DOMAIN <<>> = {}
      OBVIOUS
    <2>3. DOMAIN ring' = {}
      BY <2>1, <2>2, Zenon
    <2>4. Cardinality(Waiting) \in Nat /\ pubSeq' = pubSeq + Cardinality(Waiting)
      BY <1>0, <1>5, StopCounts
    <2>5. \A k \in Keys : cache[k].seq <= pubSeq => cache[k].seq <= pubSeq'
      BY <1>a, <2>4
    <2> QED BY <2>1, <2>3, <2>5 DEF CacheOrder, Heard
  <1>6. CASE Flush /\ UNCHANGED <<cache, truth, localSeq>>
    <2>1. /\ pubSeq' \in Nat /\ Cardinality(Waiting) \in Nat /\ pubSeq' = pubSeq + Cardinality(Waiting)
          /\ \A i \in DOMAIN ring : i \in DOMAIN ring' /\ ring'[i] = ring[i]
          /\ \A i \in DOMAIN ring' : i \in DOMAIN ring \/ pubSeq < ring'[i].seq
          /\ ring' \in Seq(Messages)
      BY <1>0, <1>6, FlushEntries
    <2>2. \A i \in DOMAIN ring' : ring'[i].seq \in Nat
      <3>1. \A i \in DOMAIN ring' : ring'[i] \in Messages
        BY <2>1, LenProperties, ElementOfSeq
      <3> QED BY <3>1 DEF Messages
    <2>3. ASSUME NEW k \in Keys, Heard(k) PROVE Heard(k)'
      <3>1. cache[k].seq \in Nat /\ cache[k].seq <= pubSeq /\ cache[k].seq <= pubSeq'
        BY <1>a, <2>1, <2>3 DEF Heard
      <3>2. \A i \in DOMAIN ring' : cache[k].seq < ring'[i].seq
        BY <1>a, <2>1, <2>2, <2>3, <3>1 DEF Heard
      <3> QED BY <1>6, <3>1, <3>2 DEF Heard
    <2> QED BY <1>6, <2>3 DEF CacheOrder
  <1>7. CASE FlushStep \/ WorkerFlush
    <2>1. UNCHANGED <<cache, truth, localSeq>> /\ (Flush \/ UNCHANGED <<ring, pubSeq>>)
      BY <1>7 DEF FlushStep, WorkerFlush
    <2>2. CASE UNCHANGED <<ring, pubSeq>>
      BY <2>1, <2>2 DEF CacheOrder, Heard
    <2> QED BY <1>6, <2>1, <2>2
  <1>8. CASE Hear
    <2> DEFINE u == ring[1]
    <2>1. /\ ring # <<>> /\ 1 \in DOMAIN ring /\ u \in Messages /\ ring' = Tail(ring)
          /\ cache' = [cache EXCEPT ![u.key] = Cached(u.key, u.version, u.seq)]
          /\ UNCHANGED <<truth, localSeq, pubSeq>>
      BY <1>0, <1>8, RingVersions, HearEffect
    <2>2. \A i \in DOMAIN ring' : i \in Nat /\ i >= 1 /\ i + 1 \in DOMAIN ring /\ ring'[i] = ring[i + 1]
      BY <1>a, <2>1, TailEntries
    <2>3. \A i \in DOMAIN ring' : u.seq < ring'[i].seq
      <3> TAKE i \in DOMAIN ring'
      <3>1. i + 1 \in DOMAIN ring /\ ring'[i] = ring[i + 1] /\ 1 < i + 1
        BY <2>2
      <3> QED BY <2>1, <3>1 DEF RingOrder
    <2>4. u.seq <= pubSeq /\ u.key \in Keys
      BY <2>1 DEF RingOrder, Messages
    <2> HIDE DEF u
    <2>5. ASSUME NEW k \in Keys
          PROVE  (cache'[k].version = truth'[k] /\ cache'[k].seq < localSeq') \/ Heard(k)'
      <3>1. CASE cache'[k] = cache[k]
        BY <2>1, <2>2, <3>1 DEF CacheOrder, Heard
      <3>2. CASE k = u.key /\ cache'[k] = [version |-> u.version, seq |-> u.seq]
        BY <2>1, <2>3, <2>4, <3>2 DEF Heard
      <3>3. cache'[k] = cache[k] \/ (k = u.key /\ cache'[k] = [version |-> u.version, seq |-> u.seq])
        BY <1>a, <2>1, <2>4 DEF Cached
      <3> QED BY <3>1, <3>2, <3>3
    <2> QED BY <2>5 DEF CacheOrder
  <1> QED BY <1>0, <1>1, <1>2, <1>3, <1>4, <1>5, <1>7, <1>8, StepKinds

-----------------------------------------------------------------------------
(* The threads' jobs *)

\* The subscriber brings one value at a time (HandleUpdate).
LEMMA ReaderJobStep ==
    ASSUME Structure, RingOrder, [clientNext]_clientVars
    PROVE  ReaderJob'
  <1> USE DEF lifetime, values, registry, publisher, watch, channels, heard
  <1>0. ClientTypeOK /\ VersionsPut /\ ReaderJob
    BY DEF Structure
  <1>a. /\ Reader # App /\ App \in Threads /\ Reader \in Threads /\ job \in [Threads -> Seq(Steps)]
        /\ truth \in [Keys -> Nat]
        /\ \A i \in DOMAIN job[Reader] : job[Reader][i].key \in Keys
    <2>1. job[Reader] \in Seq(Steps) /\ Reader # App /\ App \in Threads /\ Reader \in Threads
          /\ truth \in [Keys -> Nat] /\ job \in [Threads -> Seq(Steps)]
      BY <1>0 DEF ClientTypeOK, Threads, Reader, App
    <2>2. \A i \in DOMAIN job[Reader] : job[Reader][i] \in Steps
      BY <2>1, LenProperties, ElementOfSeq
    <2> QED BY <2>1, <2>2 DEF Steps
  <1>1. CASE Quiet
    BY <1>0, <1>1 DEF Quiet, ReaderJob
  <1>2. ASSUME NEW k \in Keys, NEW type \in Types, Put(k, type) \/ Get(k, type)
        PROVE  ReaderJob'
    <2>1. PICK after \in Afters(k) : Putting(k, type, after)
      BY <1>2, PutCalls
    <2>2. /\ Len(typeOf) \in Nat /\ localSeq = Len(typeOf) + 1 /\ truth' = [truth EXCEPT ![k] = localSeq]
          /\ job' = [job EXCEPT ![App] = PutSteps(k, localSeq, type, after)]
      BY <1>0, <2>1, PutEffect
    <2>3. job'[Reader] = job[Reader]
      BY <1>a, <2>2
    <2>4. \A l \in Keys : truth[l] \in Nat /\ truth'[l] \in Nat /\ truth[l] <= truth'[l]
      BY <1>0, <1>a, <2>2 DEF VersionsPut
    <2>5. \A i \in DOMAIN job[Reader] : job[Reader][i].version \in 1 .. truth'[job[Reader][i].key]
      <3> TAKE i \in DOMAIN job[Reader]
      <3>1. job[Reader][i].version \in 1 .. truth[job[Reader][i].key] /\ job[Reader][i].key \in Keys
        BY <1>0, <1>a DEF ReaderJob
      <3> QED BY <2>4, <3>1
    <2> QED BY <1>0, <2>3, <2>5 DEF ReaderJob
  <1>3. ASSUME NEW t \in Threads, StoreStep(t) \/ CallbackStep(t) PROVE ReaderJob'
    <2>1. /\ \A i \in DOMAIN job'[t] : i \in Nat /\ i >= 1 /\ i + 1 \in DOMAIN job[t] /\ job'[t][i] = job[t][i + 1]
          /\ \A u \in Threads : u # t => job'[u] = job[u]
      BY <1>0, <1>3, JobStep
    <2>2. UNCHANGED truth
      BY <1>3 DEF StoreStep, CallbackStep
    <2>3. CASE t = Reader
      <3>1. \A i \in DOMAIN job'[Reader] : i + 1 # 1 /\ i + 1 \in DOMAIN job[Reader] /\ job'[Reader][i] = job[Reader][i + 1]
        BY <2>1, <2>3
      <3> QED BY <1>0, <2>2, <3>1 DEF ReaderJob
    <2>4. CASE t # Reader
      BY <1>0, <1>a, <2>1, <2>2, <2>4 DEF ReaderJob
    <2> QED BY <2>3, <2>4
  <1>4. CASE PublishStep \/ FlushStep
    <2>1. Done(App) /\ UNCHANGED truth
      BY <1>4 DEF PublishStep, FlushStep
    <2>2. job'[Reader] = job[Reader]
      BY <1>a, <2>1 DEF Done
    <2> QED BY <1>0, <2>1, <2>2 DEF ReaderJob
  <1>5. CASE Stop \/ WorkerFlush \/ ReplayCopy \/ ReplayMerge
    BY <1>0, <1>5 DEF Stop, WorkerFlush, ReplayCopy, ReplayMerge, ReaderJob
  <1>6. CASE Hear
    <2> DEFINE u == ring[1]
               q == HearSteps(u.key, u.version, typeOf[u.version])
    <2>1. /\ 1 \in DOMAIN ring /\ u \in Messages /\ typeOf[u.version] \in Types
          /\ job' = [job EXCEPT ![Reader] = q] /\ UNCHANGED truth
      BY <1>0, <1>6, RingVersions, HearEffect
    <2>2. u.key \in Keys /\ u.version \in Nat /\ u.version # 0 /\ u.version <= truth[u.key]
      BY <1>0, <2>1, RingVersions DEF Messages
    <2>3. \A i \in DOMAIN q :
             \/ i = 1 /\ q[i] = Step("store", u.key, u.version)
             \/ \E n \in DOMAIN subs[<<u.key, typeOf[u.version], FALSE>>] :
                   q[i] = Callback(u.key, u.version, subs[<<u.key, typeOf[u.version], FALSE>>][n].id)
      BY <1>0, <2>1, <2>2, HearEntries
    <2> HIDE DEF q
    <2>4. job'[Reader] = q
      BY <1>a, <2>1
    <2>5. \A i \in DOMAIN q : /\ q[i].do = "callback" \/ (q[i].do = "store" /\ i = 1)
                              /\ q[i].key = u.key /\ q[i].version = u.version
      BY <2>3 DEF Step, Callback
    <2>6. u.version \in 1 .. truth[u.key]
      BY <1>a, <2>2
    <2> QED BY <2>1, <2>4, <2>5, <2>6 DEF ReaderJob
  <1> QED BY <1>0, <1>1, <1>2, <1>3, <1>4, <1>5, <1>6, StepKinds

\* Steps that change no other thread's job.
LEMMA OtherJobs ==
    ASSUME ClientTypeOK, [clientNext]_clientVars,
           \A i \in DOMAIN ring : ring[i].version \in 1 .. Len(typeOf)
    PROVE  \/ HandleCommand
           \/ StoreStep(Commander) \/ CallbackStep(Commander)
           \/ job'[Commander] = job[Commander]
  <1> USE DEF lifetime, values, registry, publisher, watch, channels, heard
  <1>0. /\ Reader # App /\ Commander # App /\ Commander # Reader /\ App \in Threads /\ Commander \in Threads
        /\ job \in [Threads -> Seq(Steps)]
    BY DEF Reader, App, Commander, Threads, ClientTypeOK
  <1>1. ASSUME NEW k \in Keys, NEW type \in Types, Put(k, type) \/ Get(k, type)
        PROVE  job'[Commander] = job[Commander]
    <2>1. PICK after \in Afters(k) : Putting(k, type, after)
      BY <1>1, PutCalls
    <2>2. job' = [job EXCEPT ![App] = PutSteps(k, localSeq, type, after)]
      BY <2>1, PutEffect
    <2> QED BY <1>0, <2>2
  <1>2. ASSUME NEW k \in Keys, NEW type \in Types, NEW now \in BOOLEAN, Subscribe(k, type, now)
        PROVE  job'[Commander] = job[Commander]
    <2>1. job' = [job EXCEPT ![App] = <<Callback(k, TryReadCached(k, type), nextId)>>] \/ job' = job
      BY <1>2 DEF Subscribe
    <2> QED BY <1>0, <2>1
  <1>3. ASSUME NEW k \in Keys, NEW type \in Types, NEW c \in BOOLEAN,
               SubscribeCommand(k, type) \/ SendCommand(k, type) \/ Unsubscribe(k, type, c)
        PROVE  job'[Commander] = job[Commander]
    BY <1>3 DEF SubscribeCommand, SendCommand, Unsubscribe
  <1>4. CASE Start \/ Stop \/ ConsumerAppears \/ WorkerFlush \/ ReplayCopy \/ ReplayMerge \/ UNCHANGED clientVars
    BY <1>4 DEF Start, Stop, ConsumerAppears, WorkerFlush, ReplayCopy, ReplayMerge, clientVars
  <1>5. ASSUME NEW t \in Threads, t # Commander, StoreStep(t) \/ CallbackStep(t)
        PROVE  job'[Commander] = job[Commander]
    BY <1>0, <1>5, JobStep
  <1>6. CASE PublishStep \/ FlushStep
    <2>1. Done(App)
      BY <1>6 DEF PublishStep, FlushStep
    <2> QED BY <1>0, <2>1 DEF Done
  <1>7. CASE Hear
    <2>1. job' = [job EXCEPT ![Reader] = HearSteps(ring[1].key, ring[1].version, typeOf[ring[1].version])]
      BY <1>7, HearEffect
    <2> QED BY <1>0, <2>1
  <1> QED BY <1>1, <1>2, <1>3, <1>4, <1>5, <1>6, <1>7 DEF clientNext, threadStep

\* The commands' thread never writes the store (HandleCommandUpdate).
LEMMA CommanderJobStep ==
    ASSUME Structure, RingOrder, [clientNext]_clientVars
    PROVE  CommanderJob'
  <1>0. ClientTypeOK /\ VersionsPut /\ CommanderJob
    BY DEF Structure
  <1>1. CASE job'[Commander] = job[Commander]
    BY <1>0, <1>1 DEF CommanderJob
  <1>2. CASE StoreStep(Commander) \/ CallbackStep(Commander)
    <2>1. \A i \in DOMAIN job'[Commander] : i + 1 \in DOMAIN job[Commander]
             /\ job'[Commander][i] = job[Commander][i + 1]
      BY <1>0, <1>2, JobStep, Commander \in Threads DEF Threads
    <2> QED BY <1>0, <2>1 DEF CommanderJob
  <1>3. CASE HandleCommand
    <2>1. \A n \in DOMAIN job'[Commander] :
             \E i \in DOMAIN subs[<<Head(commands).key, Head(commands).type, TRUE>>] :
                job'[Commander][n] = Callback(Head(commands).key, -Head(commands).n,
                    subs[<<Head(commands).key, Head(commands).type, TRUE>>][i].id)
      BY <1>0, <1>3, CommandEffect
    <2> QED BY <2>1 DEF CommanderJob, Callback, Step
  <1> QED BY <1>0, <1>1, <1>2, <1>3, OtherJobs, RingVersions

-----------------------------------------------------------------------------
(* The numbers of the subscriptions *)

\* Only registering and taking away touch the tables.
LEMMA TablesKept ==
    ASSUME ClientTypeOK, [clientNext]_clientVars,
           \A i \in DOMAIN ring : ring[i].version \in 1 .. Len(typeOf)
    PROVE  \/ UNCHANGED <<subs, nextId>>
           \/ \E k \in Keys, type \in Types, c \in BOOLEAN :
                 \/ \E now \in BOOLEAN : Registering(k, type, c, now)
                 \/ Unsubscribe(k, type, c) /\ UNCHANGED nextId
  <1> USE DEF lifetime, values, registry, publisher, watch, channels, heard
  <1>1. ASSUME NEW k \in Keys, NEW type \in Types, NEW now \in BOOLEAN,
               Subscribe(k, type, now) \/ SubscribeCommand(k, type)
        PROVE  \E c \in BOOLEAN, n \in BOOLEAN : Registering(k, type, c, n)
    BY <1>1 DEF Subscribe, SubscribeCommand
  <1>2. ASSUME NEW k \in Keys, NEW type \in Types, NEW c \in BOOLEAN, Unsubscribe(k, type, c)
        PROVE  UNCHANGED nextId
    BY <1>2 DEF Unsubscribe
  <1>3. ASSUME NEW k \in Keys, NEW type \in Types, Put(k, type) \/ Get(k, type) \/ SendCommand(k, type)
        PROVE  UNCHANGED <<subs, nextId>>
    BY <1>3 DEF Put, Get, SendCommand
  <1>4. CASE \/ Start \/ Stop \/ PublishStep \/ FlushStep \/ WorkerFlush \/ ConsumerAppears
             \/ ReplayCopy \/ ReplayMerge \/ HandleCommand \/ UNCHANGED clientVars
    BY <1>4 DEF Start, Stop, PublishStep, FlushStep, WorkerFlush, ConsumerAppears, ReplayCopy, ReplayMerge,
                HandleCommand, clientVars
  <1>5. ASSUME NEW t \in Threads, StoreStep(t) \/ CallbackStep(t) PROVE UNCHANGED <<subs, nextId>>
    BY <1>5 DEF StoreStep, CallbackStep
  <1>6. CASE Hear
    BY <1>6 DEF Hear
  <1> QED BY <1>1, <1>2, <1>3, <1>4, <1>5, <1>6 DEF clientNext, threadStep

\* No number is given twice, and taking one away moves no other (Subscribe*, Unsubscribe).
LEMMA NumbersUniqueStep ==
    ASSUME Structure, RingOrder, NumbersUnique, [clientNext]_clientVars
    PROVE  NumbersUnique'
  <1>0. ClientTypeOK /\ VersionsPut
    BY DEF Structure
  <1>a. nextId \in Nat /\ \A x \in Tables : \A i \in DOMAIN subs[x] : i \in Int /\ subs[x][i].id \in Nat
    <2>1. \A x \in Tables : subs[x] \in Seq(Subscriptions)
      BY <1>0 DEF ClientTypeOK, Tables
    <2>2. \A x \in Tables : \A i \in DOMAIN subs[x] : i \in Int /\ subs[x][i] \in Subscriptions
      BY <2>1, LenProperties, ElementOfSeq
    <2>3. nextId \in Nat
      BY <1>0 DEF ClientTypeOK
    <2>4. \A id \in 1 .. MaxSubs : id \in Nat
      BY MaxSubsNat
    <2>5. \A s \in Subscriptions : s.id \in 1 .. MaxSubs
      BY DEF Subscriptions
    <2> QED BY <2>2, <2>3, <2>4, <2>5
  <1>b. \A x \in Tables : \A i \in DOMAIN subs[x] : subs[x][i].id < nextId
    BY DEF NumbersUnique
  <1>c. \A x, y \in Tables : \A i \in DOMAIN subs[x], j \in DOMAIN subs[y] :
           subs[x][i].id = subs[y][j].id => x = y /\ i = j
    BY DEF NumbersUnique
  <1>1. CASE UNCHANGED <<subs, nextId>>
    <2>1. \A x \in Tables : \A i \in DOMAIN subs'[x] : subs'[x][i].id < nextId'
      BY <1>1, <1>b
    <2>2. \A x, y \in Tables : \A i \in DOMAIN subs'[x], j \in DOMAIN subs'[y] :
             subs'[x][i].id = subs'[y][j].id => x = y /\ i = j
      BY <1>1, <1>c
    <2> QED BY <2>1, <2>2 DEF NumbersUnique
  <1>2. ASSUME NEW k0 \in Keys, NEW t0 \in Types, NEW c0 \in BOOLEAN, NEW now \in BOOLEAN,
               Registering(k0, t0, c0, now)
        PROVE  NumbersUnique'
    <2> DEFINE x0 == <<k0, t0, c0>>
               n == Len(subs[x0])
    <2>1. /\ nextId' = nextId + 1 /\ n \in Nat
          /\ DOMAIN subs[x0] = 1 .. n /\ DOMAIN subs'[x0] = 1 .. n + 1
          /\ \A i \in DOMAIN subs[x0] : subs'[x0][i] = subs[x0][i]
          /\ subs'[x0][n + 1] = [id |-> nextId, immediate |-> now, since |-> Len(typeOf)]
          /\ \A x \in Tables : x # x0 => subs'[x] = subs[x]
      BY <1>0, <1>2, RegisterEffect DEF Tables
    <2>2. subs'[x0][n + 1].id = nextId
      BY <2>1
    <2> HIDE DEF x0, n
    <2>3. ASSUME NEW x \in Tables, NEW i \in DOMAIN subs'[x]
          PROVE  \/ i \in DOMAIN subs[x] /\ subs'[x][i] = subs[x][i]
                 \/ x = x0 /\ i = n + 1 /\ subs'[x][i].id = nextId
      <3>1. CASE x = x0
        BY <2>1, <2>2, <3>1
      <3>2. CASE x # x0
        BY <2>1, <3>2
      <3> QED BY <3>1, <3>2
    <2>4. \A x \in Tables : \A i \in DOMAIN subs'[x] : subs'[x][i].id < nextId'
      <3> SUFFICES ASSUME NEW x \in Tables, NEW i \in DOMAIN subs'[x]
                   PROVE  subs'[x][i].id < nextId'
        OBVIOUS
      <3>1. subs'[x][i].id \in Nat /\ subs'[x][i].id <= nextId
        BY <1>a, <1>b, <2>3
      <3> QED BY <1>a, <2>1, <3>1
    <2>5. \A x \in Tables : \A i \in DOMAIN subs[x] : subs[x][i].id # nextId
      BY <1>a, <1>b
    <2>6. \A x, y \in Tables : \A i \in DOMAIN subs'[x], j \in DOMAIN subs'[y] :
             subs'[x][i].id = subs'[y][j].id => x = y /\ i = j
      BY <1>c, <2>3, <2>5
    <2> QED BY <2>4, <2>6 DEF NumbersUnique
  <1>3. ASSUME NEW k0 \in Keys, NEW t0 \in Types, NEW c0 \in BOOLEAN,
               Unsubscribe(k0, t0, c0), UNCHANGED nextId
        PROVE  NumbersUnique'
    <2> DEFINE x0 == <<k0, t0, c0>>
    <2>0. x0 \in Tables
      BY DEF Tables
    <2>1. PICK n \in DOMAIN subs[x0] :
             \A i \in DOMAIN subs'[x0] :
                \/ i < n /\ i \in DOMAIN subs[x0] /\ subs'[x0][i] = subs[x0][i]
                \/ i >= n /\ i + 1 \in DOMAIN subs[x0] /\ subs'[x0][i] = subs[x0][i + 1]
      BY <1>0, <1>3, UnregisterEffect
    <2>2. /\ \A x \in Tables : x # x0 => subs'[x] = subs[x]
          /\ \A i \in DOMAIN subs'[x0] : i \in Int
      BY <1>0, <1>3, UnregisterEffect DEF Tables
    <2> HIDE DEF x0
    <2>3. n \in Int
      BY <1>a, <2>0
    <2>4. \A x \in Tables : \A i \in DOMAIN subs'[x] : \E a \in DOMAIN subs[x] : subs'[x][i] = subs[x][a]
      BY <2>1, <2>2
    <2>5. \A x \in Tables : \A i \in DOMAIN subs'[x] : subs'[x][i].id < nextId'
      BY <1>3, <1>b, <2>4
    <2>6. ASSUME NEW i \in DOMAIN subs'[x0], NEW j \in DOMAIN subs'[x0],
                 subs'[x0][i].id = subs'[x0][j].id
          PROVE  i = j
      <3>0. i \in Int /\ j \in Int
        BY <2>2
      <3>1. PICK a \in DOMAIN subs[x0] : subs'[x0][i] = subs[x0][a] /\ ((i < n /\ a = i) \/ (i >= n /\ a = i + 1))
        BY <2>1
      <3>2. PICK b \in DOMAIN subs[x0] : subs'[x0][j] = subs[x0][b] /\ ((j < n /\ b = j) \/ (j >= n /\ b = j + 1))
        BY <2>1
      <3>3. a = b
        BY <1>c, <2>0, <2>6, <3>1, <3>2
      <3> QED BY <2>3, <3>0, <3>1, <3>2, <3>3
    <2>7. \A x, y \in Tables : \A i \in DOMAIN subs'[x], j \in DOMAIN subs'[y] :
             subs'[x][i].id = subs'[y][j].id => x = y /\ i = j
      <3> SUFFICES ASSUME NEW x \in Tables, NEW y \in Tables,
                          NEW i \in DOMAIN subs'[x], NEW j \in DOMAIN subs'[y],
                          subs'[x][i].id = subs'[y][j].id
                   PROVE  x = y /\ i = j
        OBVIOUS
      <3>1. x = y
        BY <1>c, <2>4
      <3>2. CASE x = x0
        BY <2>6, <3>1, <3>2
      <3>3. CASE x # x0
        <4>1. subs'[x] = subs[x] /\ subs'[y] = subs[y]
          BY <2>2, <3>1, <3>3
        <4> QED BY <1>c, <4>1
      <3> QED BY <3>1, <3>2, <3>3
    <2> QED BY <2>5, <2>7 DEF NumbersUnique
  <1> QED BY <1>0, <1>1, <1>2, <1>3, TablesKept, RingVersions

\* What the tables hold was there or has just been registered.
LEMMA TableEntries ==
    ASSUME ClientTypeOK, [clientNext]_clientVars,
           \A i \in DOMAIN ring : ring[i].version \in 1 .. Len(typeOf)
    PROVE  /\ nextId \in Nat /\ nextId' \in {nextId, nextId + 1}
           /\ \A x \in Tables : \A i \in DOMAIN subs'[x] :
                 \/ \E a \in DOMAIN subs[x] : subs'[x][i] = subs[x][a]
                 \/ /\ nextId' = nextId + 1 /\ subs'[x][i].id = nextId
                    /\ subs'[x][i].since = Len(typeOf)
                    /\ \E now \in BOOLEAN : Registering(x[1], x[2], x[3], now) /\ subs'[x][i].immediate = now
  <1>0. nextId \in Nat
    BY DEF ClientTypeOK
  <1>1. CASE UNCHANGED <<subs, nextId>>
    BY <1>0, <1>1
  <1>2. ASSUME NEW k \in Keys, NEW type \in Types, NEW c \in BOOLEAN, NEW now \in BOOLEAN,
               Registering(k, type, c, now)
        PROVE  /\ nextId' = nextId + 1
               /\ \A x \in Tables : \A i \in DOMAIN subs'[x] :
                     \/ \E a \in DOMAIN subs[x] : subs'[x][i] = subs[x][a]
                     \/ /\ nextId' = nextId + 1 /\ subs'[x][i].id = nextId
                        /\ subs'[x][i].since = Len(typeOf)
                        /\ \E n \in BOOLEAN : Registering(x[1], x[2], x[3], n) /\ subs'[x][i].immediate = n
    <2> DEFINE x0 == <<k, type, c>>
               n == Len(subs[x0])
    <2>1. /\ nextId' = nextId + 1 /\ n \in Nat
          /\ DOMAIN subs[x0] = 1 .. n /\ DOMAIN subs'[x0] = 1 .. n + 1
          /\ \A i \in DOMAIN subs[x0] : subs'[x0][i] = subs[x0][i]
          /\ subs'[x0][n + 1] = [id |-> nextId, immediate |-> now, since |-> Len(typeOf)]
          /\ \A x \in Tables : x # x0 => subs'[x] = subs[x]
      BY <1>2, RegisterEffect DEF Tables
    <2>2. Registering(x0[1], x0[2], x0[3], now)
      BY <1>2
    <2>3. subs'[x0][n + 1].id = nextId /\ subs'[x0][n + 1].immediate = now /\ subs'[x0][n + 1].since = Len(typeOf)
      BY <2>1
    <2> HIDE DEF x0, n
    <2>4. ASSUME NEW x \in Tables, NEW i \in DOMAIN subs'[x]
          PROVE  \/ \E a \in DOMAIN subs[x] : subs'[x][i] = subs[x][a]
                 \/ x = x0 /\ i = n + 1
      <3>1. CASE x = x0
        BY <2>1, <3>1
      <3>2. CASE x # x0
        BY <2>1, <3>2
      <3> QED BY <3>1, <3>2
    <2> QED BY <2>1, <2>2, <2>3, <2>4
  <1>3. ASSUME NEW k \in Keys, NEW type \in Types, NEW c \in BOOLEAN,
               Unsubscribe(k, type, c)
        PROVE  \A x \in Tables : \A i \in DOMAIN subs'[x] :
                  \E a \in DOMAIN subs[x] : subs'[x][i] = subs[x][a]
    <2> DEFINE x0 == <<k, type, c>>
    <2>1. \A i \in DOMAIN subs'[x0] : \E a \in DOMAIN subs[x0] : subs'[x0][i] = subs[x0][a]
      BY <1>3, UnregisterEffect
    <2>2. \A x \in Tables : x # x0 => subs'[x] = subs[x]
      BY <1>3, UnregisterEffect DEF Tables
    <2> HIDE DEF x0
    <2> QED BY <2>1, <2>2
  <1> QED BY <1>0, <1>1, <1>2, <1>3, TablesKept

\* Where a thread's steps come from: it had them already, they are copied from the tables of
\* the values or, for the commands' thread, of the commands, or a subscription asked for a call
\* at once.
Copied(t, s) == \E x \in Tables : \E i \in DOMAIN subs[x] :
    s.do = "callback" /\ s.sub = subs[x][i].id /\ s.key = x[1] /\ x[3] = (t = Commander)
HadAlready(t) == \A n \in DOMAIN job'[t] : \E m \in DOMAIN job[t] : job'[t][n] = job[t][m]
OnlyCopied(t) == \A n \in DOMAIN job'[t] : job'[t][n].do = "callback" => Copied(t, job'[t][n])
CalledAtOnce == \E k \in Keys, type \in Types :
    /\ Registering(k, type, FALSE, TRUE)
    /\ \A t \in Threads : t # App => job'[t] = job[t]
    /\ job'[App] = <<Callback(k, TryReadCached(k, type), nextId)>>

\* A step of a Put* or of the subscriber's that is a callback is one of a table.
LEMMA TableCallback ==
    ASSUME ClientTypeOK, NEW t \in Threads, NEW k \in Keys, NEW type \in Types, NEW c \in BOOLEAN,
           NEW v \in Int, NEW n \in DOMAIN subs[<<k, type, c>>], c = (t = Commander)
    PROVE  Copied(t, Callback(k, v, subs[<<k, type, c>>][n].id))
  <1> DEFINE x == <<k, type, c>>
             id == subs[x][n].id
  <1>1. x \in Tables /\ x[1] = k /\ x[3] = c
    BY DEF Tables
  <1>2. Callback(k, v, id).do = "callback" /\ Callback(k, v, id).sub = id /\ Callback(k, v, id).key = k
    <2> HIDE DEF id
    <2> QED BY DEF Callback, Step
  <1>3. n \in DOMAIN subs[x]
    OBVIOUS
  <1> HIDE DEF x
  <1> QED BY <1>1, <1>2, <1>3 DEF Copied, x

\* Every callback a step adds is copied from a table, or is the immediate one.
LEMMA JobSources ==
    ASSUME ClientTypeOK, [clientNext]_clientVars,
           \A i \in DOMAIN ring : ring[i].version \in 1 .. Len(typeOf)
    PROVE  \/ \A t \in Threads : HadAlready(t)
           \/ UNCHANGED <<subs, nextId>> /\ \A t \in Threads : HadAlready(t) \/ OnlyCopied(t)
           \/ CalledAtOnce
  <1> USE DEF lifetime, values, registry, publisher, watch, channels, heard
  <1>0. /\ Reader # App /\ Commander # App /\ Commander # Reader
        /\ App \in Threads /\ Commander \in Threads /\ Reader \in Threads
        /\ job \in [Threads -> Seq(Steps)]
    BY DEF Reader, App, Commander, Threads, ClientTypeOK
  <1>a. \A t \in Threads : job'[t] = job[t] => HadAlready(t)
    BY DEF HadAlready
  <1>1. ASSUME NEW k \in Keys, NEW type \in Types, Put(k, type) \/ Get(k, type)
        PROVE  UNCHANGED <<subs, nextId>> /\ \A t \in Threads : HadAlready(t) \/ OnlyCopied(t)
    <2>1. PICK after \in Afters(k) : Putting(k, type, after)
      BY <1>1, PutCalls
    <2>2. /\ job' = [job EXCEPT ![App] = PutSteps(k, localSeq, type, after)]
          /\ Len(typeOf) \in Nat /\ localSeq = Len(typeOf) + 1
      BY <2>1, PutEffect
    <2>a. localSeq \in Nat /\ localSeq \in Int /\ FALSE \in BOOLEAN /\ FALSE = (App = Commander)
      BY <1>0, <2>2
    <2> DEFINE q == PutSteps(k, localSeq, type, after)
    <2>3. \A i \in DOMAIN q : \/ q[i] = Step("store", k, localSeq)
                              \/ \E j \in DOMAIN subs[<<k, type, FALSE>>] :
                                    q[i] = Callback(k, localSeq, subs[<<k, type, FALSE>>][j].id)
                              \/ q[i] = Step("publish", k, localSeq)
                              \/ q[i] = Step("flush", k, 0)
      BY <2>1, <2>a, PutEntries
    <2>4. \A j \in DOMAIN subs[<<k, type, FALSE>>] :
             Copied(App, Callback(k, localSeq, subs[<<k, type, FALSE>>][j].id))
      BY <1>0, <2>a, TableCallback
    <2>5. \A i \in DOMAIN q : q[i].do = "callback" => Copied(App, q[i])
      <3> HIDE DEF q
      <3>1. /\ Step("store", k, localSeq).do # "callback" /\ Step("publish", k, localSeq).do # "callback"
            /\ Step("flush", k, 0).do # "callback"
        BY DEF Step
      <3> QED BY <2>3, <2>4, <3>1
    <2> HIDE DEF q
    <2>6. job'[App] = q /\ \A t \in Threads : t # App => job'[t] = job[t]
      BY <1>0, <2>2 DEF q
    <2>7. OnlyCopied(App)
      BY <2>5, <2>6 DEF OnlyCopied
    <2>8. UNCHANGED <<subs, nextId>>
      BY <1>1 DEF Put, Get
    <2> QED BY <1>a, <2>6, <2>7, <2>8
  <1>2. ASSUME NEW k \in Keys, NEW type \in Types, NEW now \in BOOLEAN, Subscribe(k, type, now)
        PROVE  (\A t \in Threads : HadAlready(t)) \/ CalledAtOnce
    <2> DEFINE x == <<Callback(k, TryReadCached(k, type), nextId)>>
    <2>1. job' = job \/ (now = TRUE /\ job' = [job EXCEPT ![App] = x])
      BY <1>2 DEF Subscribe
    <2>2. Registering(k, type, FALSE, now)
      BY <1>2 DEF Subscribe
    <2>3. CASE job' = job
      BY <1>a, <2>3
    <2>4. CASE now = TRUE /\ job' = [job EXCEPT ![App] = x]
      <3>1. job'[App] = x /\ \A t \in Threads : t # App => job'[t] = job[t]
        <4> HIDE DEF x
        <4> QED BY <1>0, <2>4
      <3> QED BY <2>2, <2>4, <3>1 DEF CalledAtOnce
    <2> QED BY <2>1, <2>3, <2>4
  <1>3. ASSUME NEW k \in Keys, NEW type \in Types, NEW c \in BOOLEAN,
               SubscribeCommand(k, type) \/ SendCommand(k, type) \/ Unsubscribe(k, type, c)
        PROVE  \A t \in Threads : HadAlready(t)
    <2>1. job' = job
      BY <1>3 DEF SubscribeCommand, SendCommand, Unsubscribe
    <2> QED BY <1>a, <2>1
  <1>4. CASE Start \/ Stop \/ ConsumerAppears \/ WorkerFlush \/ ReplayCopy \/ ReplayMerge \/ UNCHANGED clientVars
    <2>1. job' = job
      BY <1>4 DEF Start, Stop, ConsumerAppears, WorkerFlush, ReplayCopy, ReplayMerge, clientVars
    <2> QED BY <1>a, <2>1
  <1>5. ASSUME NEW t \in Threads, ~Idle(t) /\ Done(t) PROVE \A u \in Threads : HadAlready(u)
    <2>1. job'[t] = Tail(job[t]) /\ \A u \in Threads : u # t => job'[u] = job[u]
      BY <1>5, JobRest
    <2>2. job[t] \in Seq(Steps) /\ job[t] # <<>>
      BY <1>0, <1>5 DEF Idle
    <2>3. \A i \in DOMAIN Tail(job[t]) : i + 1 \in DOMAIN job[t] /\ Tail(job[t])[i] = job[t][i + 1]
      BY <2>2, TailEntries
    <2>4. HadAlready(t)
      BY <2>1, <2>3 DEF HadAlready
    <2> QED BY <1>a, <2>1, <2>4
  <1>6. ASSUME NEW t \in Threads, StoreStep(t) \/ CallbackStep(t) PROVE \A u \in Threads : HadAlready(u)
    BY <1>5, <1>6 DEF StoreStep, CallbackStep, Doing
  <1>7. CASE PublishStep \/ FlushStep
    BY <1>0, <1>5, <1>7 DEF PublishStep, FlushStep, Doing
  <1>8. CASE Hear
    <2> DEFINE u == ring[1]
               q == HearSteps(u.key, u.version, typeOf[u.version])
    <2>1. /\ u \in Messages /\ typeOf[u.version] \in Types /\ job' = [job EXCEPT ![Reader] = q]
          /\ UNCHANGED <<subs, nextId>>
      BY <1>8, HearEffect
    <2>2. /\ u.key \in Keys /\ u.version \in Nat /\ u.version \in Int
          /\ FALSE \in BOOLEAN /\ FALSE = (Reader = Commander)
      BY <1>0, <2>1 DEF Messages
    <2>3. \A i \in DOMAIN q :
             \/ q[i] = Step("store", u.key, u.version)
             \/ \E n \in DOMAIN subs[<<u.key, typeOf[u.version], FALSE>>] :
                   q[i] = Callback(u.key, u.version, subs[<<u.key, typeOf[u.version], FALSE>>][n].id)
      BY <2>1, <2>2, HearEntries
    <2>4. \A n \in DOMAIN subs[<<u.key, typeOf[u.version], FALSE>>] :
             Copied(Reader, Callback(u.key, u.version, subs[<<u.key, typeOf[u.version], FALSE>>][n].id))
      BY <1>0, <2>1, <2>2, TableCallback
    <2> HIDE DEF q, u
    <2>5. \A i \in DOMAIN q : q[i].do = "callback" => Copied(Reader, q[i])
      <3>1. Step("store", u.key, u.version).do # "callback"
        BY DEF Step
      <3> QED BY <2>3, <2>4, <3>1
    <2>6. job'[Reader] = q /\ \A t \in Threads : t # Reader => job'[t] = job[t]
      BY <1>0, <2>1
    <2>7. OnlyCopied(Reader)
      BY <2>5, <2>6 DEF OnlyCopied
    <2> QED BY <1>a, <2>1, <2>6, <2>7
  <1>9. CASE HandleCommand
    <2> DEFINE d == Head(commands)
    <2>1. /\ d \in Commands
          /\ \A t \in Threads : t # Commander => job'[t] = job[t]
          /\ \A n \in DOMAIN job'[Commander] :
                \E i \in DOMAIN subs[<<d.key, d.type, TRUE>>] :
                   job'[Commander][n] = Callback(d.key, -d.n, subs[<<d.key, d.type, TRUE>>][i].id)
          /\ UNCHANGED <<subs, nextId>>
      BY <1>9, CommandEffect
    <2> HIDE DEF d
    <2>2. d.key \in Keys /\ d.type \in Types /\ -d.n \in Int /\ TRUE \in BOOLEAN /\ TRUE = (Commander = Commander)
      BY <2>1 DEF Commands
    <2>3. \A i \in DOMAIN subs[<<d.key, d.type, TRUE>>] :
             Copied(Commander, Callback(d.key, -d.n, subs[<<d.key, d.type, TRUE>>][i].id))
      BY <1>0, <2>2, TableCallback
    <2>4. OnlyCopied(Commander)
      BY <2>1, <2>3 DEF OnlyCopied
    <2> QED BY <1>a, <2>1, <2>4
  <1> QED BY <1>1, <1>2, <1>3, <1>4, <1>6, <1>7, <1>8, <1>9 DEF clientNext, threadStep

\* A copied callback stays one of its key, though its subscription may be gone (HandleUpdate).
LEMMA CallbacksKnownStep ==
    ASSUME Structure, RingOrder, NumbersUnique, CallbacksKnown, [clientNext]_clientVars
    PROVE  CallbacksKnown'
  <1>0. ClientTypeOK /\ VersionsPut
    BY DEF Structure
  <1>a. \A i \in DOMAIN ring : ring[i].version \in 1 .. Len(typeOf)
    BY <1>0, RingVersions
  <1>b. /\ nextId \in Nat /\ nextId' \in {nextId, nextId + 1}
        /\ \A x \in Tables : \A i \in DOMAIN subs'[x] :
              (\E a \in DOMAIN subs[x] : subs'[x][i] = subs[x][a]) \/ subs'[x][i].id = nextId
    BY <1>0, <1>a, TableEntries
  <1>c. \A t \in Threads : \A n \in DOMAIN job[t] : job[t][n].sub \in Nat
    <2>1. \A t \in Threads : job[t] \in Seq(Steps)
      BY <1>0 DEF ClientTypeOK
    <2>2. \A t \in Threads : \A n \in DOMAIN job[t] : job[t][n] \in Steps
      BY <2>1, LenProperties, ElementOfSeq
    <2>3. \A s \in Steps : s.sub \in Nat
      BY MaxSubsNat DEF Steps
    <2> QED BY <2>2, <2>3
  <1> DEFINE Known(t, s) == s.do = "callback" =>
        /\ s.sub < nextId
        /\ \A x \in Tables : \A i \in DOMAIN subs[x] :
               subs[x][i].id = s.sub => x[1] = s.key /\ x[3] = (t = Commander)
             KnownThen(t, s) == s.do = "callback" =>
        /\ s.sub < nextId'
        /\ \A x \in Tables : \A i \in DOMAIN subs'[x] :
               subs'[x][i].id = s.sub => x[1] = s.key /\ x[3] = (t = Commander)
  <1>d. \A t \in Threads : \A n \in DOMAIN job[t] : Known(t, job[t][n])
    BY DEF CallbacksKnown
  <1>1. ASSUME NEW t \in Threads, NEW n \in DOMAIN job[t] PROVE KnownThen(t, job[t][n])
    <2> DEFINE s == job[t][n]
    <2>1. s.sub \in Nat /\ Known(t, s)
      BY <1>c, <1>d
    <2> HIDE DEF s
    <2>2. KnownThen(t, s)
      <3> SUFFICES ASSUME s.do = "callback" PROVE KnownThen(t, s)
        OBVIOUS
      <3>1. s.sub < nextId /\ \A x \in Tables : \A i \in DOMAIN subs[x] :
               subs[x][i].id = s.sub => x[1] = s.key /\ x[3] = (t = Commander)
        BY <2>1
      <3>2. s.sub < nextId' /\ s.sub # nextId
        BY <1>b, <2>1, <3>1
      <3> QED BY <1>b, <3>1, <3>2
    <2> QED BY <2>2 DEF s
  <1>2. ASSUME UNCHANGED <<subs, nextId>>, NEW t \in Threads, NEW s, Copied(t, s)
        PROVE  KnownThen(t, s)
    <2>1. PICK y \in Tables : \E i \in DOMAIN subs[y] :
             s.do = "callback" /\ s.sub = subs[y][i].id /\ s.key = y[1] /\ y[3] = (t = Commander)
      BY <1>2 DEF Copied
    <2>2. PICK j \in DOMAIN subs[y] : s.sub = subs[y][j].id
      BY <2>1
    <2>3. s.sub < nextId'
      BY <1>2, <2>2 DEF NumbersUnique
    <2>4. \A x \in Tables : \A i \in DOMAIN subs[x] : subs[x][i].id = s.sub => x = y
      BY <2>2 DEF NumbersUnique
    <2> QED BY <1>2, <2>1, <2>3, <2>4
  <1>3. CASE CalledAtOnce
    <2>1. PICK k \in Keys, type \in Types :
             /\ Registering(k, type, FALSE, TRUE)
             /\ \A t \in Threads : t # App => job'[t] = job[t]
             /\ job'[App] = <<Callback(k, TryReadCached(k, type), nextId)>>
      BY <1>3 DEF CalledAtOnce
    <2> DEFINE x0 == <<k, type, FALSE>>
               s == Callback(k, TryReadCached(k, type), nextId)
    <2>2. nextId' = nextId + 1 /\ \A x \in Tables : x # x0 => subs'[x] = subs[x]
      BY <1>0, <2>1, RegisterEffect DEF Tables
    <2>3. s.do = "callback" /\ s.sub = nextId /\ s.key = k
      BY DEF Callback, Step
    <2>4. x0[1] = k /\ x0[3] = (App = Commander)
      BY DEF App, Commander
    <2> HIDE DEF s, x0
    <2>5. \A x \in Tables : \A i \in DOMAIN subs[x] : subs[x][i].id # nextId
      <3>1. \A x \in Tables : \A i \in DOMAIN subs[x] : subs[x][i].id < nextId
        BY DEF NumbersUnique
      <3>2. ~(nextId < nextId)
        BY <1>b
      <3> QED BY <3>1, <3>2
    <2>6. nextId < nextId'
      BY <1>b, <2>2
    <2>7. KnownThen(App, s)
      BY <2>2, <2>3, <2>4, <2>5, <2>6
    <2>8. \A n \in DOMAIN job'[App] : job'[App][n] = s
      <3>1. DOMAIN <<s>> = {1} /\ <<s>>[1] = s
        <4>1. s \in {s}
          OBVIOUS
        <4> QED BY <4>1, OneEntry
      <3>2. job'[App] = <<s>>
        BY <2>1 DEF s
      <3> QED BY <3>1, <3>2
    <2>9. \A t \in Threads : \A n \in DOMAIN job'[t] : KnownThen(t, job'[t][n])
      <3> HIDE DEF Known, KnownThen
      <3> QED BY <1>1, <2>1, <2>7, <2>8
    <2> QED BY <2>9 DEF CallbacksKnown
  <1>4. CASE \A t \in Threads : HadAlready(t)
    <2>1. \A t \in Threads : \A n \in DOMAIN job'[t] : KnownThen(t, job'[t][n])
      <3> HIDE DEF Known, KnownThen
      <3> QED BY <1>1, <1>4 DEF HadAlready
    <2> QED BY <2>1 DEF CallbacksKnown
  <1>5. CASE UNCHANGED <<subs, nextId>> /\ \A t \in Threads : HadAlready(t) \/ OnlyCopied(t)
    <2>1. ASSUME NEW t \in Threads, NEW n \in DOMAIN job'[t] PROVE KnownThen(t, job'[t][n])
      <3>1. CASE HadAlready(t)
        <4> HIDE DEF Known, KnownThen
        <4> QED BY <1>1, <3>1 DEF HadAlready
      <3>2. CASE Copied(t, job'[t][n])
        BY <1>2, <1>5, <3>2
      <3>3. CASE job'[t][n].do # "callback"
        BY <3>3
      <3> QED BY <1>5, <3>1, <3>2, <3>3 DEF OnlyCopied
    <2> QED BY <2>1 DEF CallbacksKnown
  <1> QED BY <1>0, <1>a, <1>3, <1>4, <1>5, JobSources

\* What becomes of the application's call.
LEMMA AppSteps ==
    ASSUME ClientTypeOK, [clientNext]_clientVars,
           \A i \in DOMAIN ring : ring[i].version \in 1 .. Len(typeOf)
    PROVE  \/ \E k \in Keys, type \in Types : Put(k, type) \/ Get(k, type)
           \/ PublishStep
           \/ FlushStep \/ StoreStep(App) \/ CallbackStep(App)
           \/ CalledAtOnce
           \/ job'[App] = <<>>
           \/ job'[App] = job[App] /\ UNCHANGED <<subs, typeOf, truth>>
  <1> USE DEF lifetime, values, registry, publisher, watch, channels, heard
  <1>0. /\ Reader # App /\ Commander # App /\ Commander # Reader
        /\ App \in Threads /\ Commander \in Threads /\ Reader \in Threads
        /\ job \in [Threads -> Seq(Steps)]
    BY DEF Reader, App, Commander, Threads, ClientTypeOK
  <1>1. ASSUME NEW k \in Keys, NEW type \in Types, NEW now \in BOOLEAN, Subscribe(k, type, now)
        PROVE  job'[App] = <<>> \/ CalledAtOnce
    <2> DEFINE x == <<Callback(k, TryReadCached(k, type), nextId)>>
    <2>1. job' = job \/ (now = TRUE /\ job' = [job EXCEPT ![App] = x])
      BY <1>1 DEF Subscribe
    <2>2. Registering(k, type, FALSE, now) /\ job[App] = <<>>
      BY <1>1 DEF Subscribe, Registering, Idle
    <2>3. CASE job' = job
      BY <2>2, <2>3
    <2>4. CASE now = TRUE /\ job' = [job EXCEPT ![App] = x]
      <3>1. job'[App] = x /\ \A t \in Threads : t # App => job'[t] = job[t]
        <4> HIDE DEF x
        <4> QED BY <1>0, <2>4
      <3> QED BY <2>2, <2>4, <3>1 DEF CalledAtOnce
    <2> QED BY <2>1, <2>3, <2>4
  <1>2. ASSUME NEW k \in Keys, NEW type \in Types, NEW c \in BOOLEAN,
               SubscribeCommand(k, type) \/ Unsubscribe(k, type, c)
        PROVE  job'[App] = <<>>
    BY <1>2 DEF SubscribeCommand, Unsubscribe, Registering, Idle
  <1>3. ASSUME NEW k \in Keys, NEW type \in Types, SendCommand(k, type)
        PROVE  job'[App] = job[App] /\ UNCHANGED <<subs, typeOf, truth>>
    BY <1>3 DEF SendCommand
  <1>4. CASE Start \/ Stop \/ ConsumerAppears \/ WorkerFlush \/ ReplayCopy \/ ReplayMerge \/ UNCHANGED clientVars
    BY <1>4 DEF Start, Stop, ConsumerAppears, WorkerFlush, ReplayCopy, ReplayMerge, clientVars
  <1>5. ASSUME NEW t \in Threads, t # App, StoreStep(t) \/ CallbackStep(t)
        PROVE  job'[App] = job[App] /\ UNCHANGED <<subs, typeOf, truth>>
    <2>1. job'[App] = job[App]
      BY <1>0, <1>5, JobStep
    <2> QED BY <1>5, <2>1 DEF StoreStep, CallbackStep
  <1>6. CASE Hear
    <2>1. /\ job' = [job EXCEPT ![Reader] = HearSteps(ring[1].key, ring[1].version, typeOf[ring[1].version])]
          /\ UNCHANGED <<subs, typeOf, truth>>
      BY <1>6, HearEffect
    <2> QED BY <1>0, <2>1
  <1>7. CASE HandleCommand
    BY <1>0, <1>7, CommandEffect
  <1> QED BY <1>1, <1>2, <1>3, <1>4, <1>5, <1>6, <1>7 DEF clientNext, threadStep

\* A subscription that is registered to be called at once is not one that only asks for changes.
LEMMA CalledAtOnceAsked ==
    ASSUME ClientTypeOK, NumbersUnique, CalledAtOnce
    PROVE  \E id : /\ \A n \in DOMAIN job'[App] : job'[App][n].do = "callback" /\ job'[App][n].sub = id
                   /\ \A l \in Keys : ~AskedForChanges(id, l)'
  <1>1. PICK k \in Keys, type \in Types :
           /\ Registering(k, type, FALSE, TRUE)
           /\ job'[App] = <<Callback(k, TryReadCached(k, type), nextId)>>
    BY DEF CalledAtOnce
  <1> DEFINE x0 == <<k, type, FALSE>>
             s == Callback(k, TryReadCached(k, type), nextId)
             n0 == Len(subs[x0])
  <1>2. /\ \A x \in Tables : x # x0 => subs'[x] = subs[x]
        /\ n0 \in Nat /\ DOMAIN subs[x0] = 1 .. n0 /\ DOMAIN subs'[x0] = 1 .. n0 + 1
        /\ \A i \in DOMAIN subs[x0] : subs'[x0][i] = subs[x0][i]
        /\ subs'[x0][n0 + 1] = [id |-> nextId, immediate |-> TRUE, since |-> Len(typeOf)]
    BY <1>1, RegisterEffect DEF Tables
  <1>3. s.do = "callback" /\ s.sub = nextId
    BY DEF Callback, Step
  <1>4. \A n \in DOMAIN job'[App] : job'[App][n] = s
    <2> HIDE DEF s
    <2>1. DOMAIN <<s>> = {1} /\ <<s>>[1] = s
      <3>1. s \in {s}
        OBVIOUS
      <3> QED BY <3>1, OneEntry
    <2>2. job'[App] = <<s>>
      BY <1>1 DEF s
    <2> QED BY <2>1, <2>2
  <1>5. \A x \in Tables : \A i \in DOMAIN subs[x] : subs[x][i].id # nextId
    <2>1. \A x \in Tables : \A i \in DOMAIN subs[x] : subs[x][i].id < nextId
      BY DEF NumbersUnique
    <2>2. ~(nextId < nextId)
      BY DEF ClientTypeOK
    <2> QED BY <2>1, <2>2
  <1>6. subs'[x0][n0 + 1].immediate = TRUE
    BY <1>2
  <1> HIDE DEF x0, s, n0
  <1>7. \A x \in Tables : \A i \in DOMAIN subs'[x] : subs'[x][i].id = nextId => subs'[x][i].immediate
    <2> SUFFICES ASSUME NEW x \in Tables, NEW i \in DOMAIN subs'[x], subs'[x][i].id = nextId
                 PROVE  subs'[x][i].immediate
      OBVIOUS
    <2>1. CASE x # x0
      BY <1>2, <1>5, <2>1
    <2>2. CASE x = x0 /\ i \in DOMAIN subs[x]
      BY <1>2, <1>5, <2>2
    <2>3. CASE x = x0 /\ i = n0 + 1
      BY <1>6, <2>3
    <2>4. x = x0 => i \in DOMAIN subs[x] \/ i = n0 + 1
      BY <1>2
    <2> QED BY <2>1, <2>2, <2>3, <2>4
  <1>8. ASSUME NEW id, id = nextId, NEW l \in Keys PROVE ~AskedForChanges(id, l)'
    <2>1. \A other \in Types : <<l, other, FALSE>> \in Tables
      BY DEF Tables
    <2> QED BY <1>7, <1>8, <2>1 DEF AskedForChanges
  <1>9. \A id : id = nextId => \A l \in Keys : ~AskedForChanges(id, l)'
    BY <1>8
  <1>10. PICK id : id = nextId
    OBVIOUS
  <1> QED BY <1>3, <1>4, <1>9, <1>10

\* A Put* stores and calls before it publishes (Put*, Get*, Subscribe*).
LEMMA AppJobStep ==
    ASSUME Structure, RingOrder, NumbersUnique, [clientNext]_clientVars
    PROVE  AppJob'
  <1> USE DEF lifetime, values, registry, publisher, watch, channels, heard
  <1>0. ClientTypeOK /\ VersionsPut /\ AppJob /\ App \in Threads
    BY DEF Structure, Threads
  <1>a. \A i \in DOMAIN ring : ring[i].version \in 1 .. Len(typeOf)
    BY <1>0, RingVersions
  <1>1. ASSUME NEW k \in Keys, NEW type \in Types, Put(k, type) \/ Get(k, type)
        PROVE  AppJob'
    <2>1. PICK after \in Afters(k) : Putting(k, type, after)
      BY <1>1, PutCalls
    <2>2. /\ job' = [job EXCEPT ![App] = PutSteps(k, localSeq, type, after)]
          /\ Len(typeOf) \in Nat /\ localSeq = Len(typeOf) + 1
          /\ truth' = [truth EXCEPT ![k] = localSeq] /\ Len(typeOf') = Len(typeOf) + 1
      BY <1>0, <2>1, PutEffect
    <2>3. localSeq \in Nat /\ localSeq # 0
      BY <2>2
    <2> DEFINE q == PutSteps(k, localSeq, type, after)
               n0 == Len(subs[<<k, type, FALSE>>]) + 2
    <2>4. /\ n0 \in DOMAIN q /\ q[n0] = Step("publish", k, localSeq)
          /\ \A i \in DOMAIN q : \/ i < n0 /\ q[i] = Step("store", k, localSeq)
                                 \/ i < n0 /\ \E j \in DOMAIN subs[<<k, type, FALSE>>] :
                                       q[i] = Callback(k, localSeq, subs[<<k, type, FALSE>>][j].id)
                                 \/ i = n0 /\ q[i] = Step("publish", k, localSeq)
                                 \/ q[i] = Step("flush", k, 0)
      BY <1>0, <2>1, <2>3, PutEntries
    <2>5. job'[App] = q
      <3> HIDE DEF q
      <3> QED BY <1>0, <2>2 DEF q, ClientTypeOK
    <2>6. truth'[k] = localSeq
      BY <1>0, <2>2 DEF ClientTypeOK
    <2> HIDE DEF q, n0
    <2>7. \A i \in DOMAIN q :
             /\ q[i].key = k
             /\ q[i].do = "publish" => i = n0 /\ q[i].version = localSeq
             /\ q[i].do = "store" => i < n0 /\ q[i].version = localSeq
             /\ q[i].do = "callback" => i < n0
      BY <2>4 DEF Step, Callback
    <2>8. q[n0].do = "publish" /\ q[n0].key = k /\ n0 \in DOMAIN q
      BY <2>4 DEF Step
    <2> QED BY <2>2, <2>3, <2>5, <2>6, <2>7, <2>8 DEF AppJob
  <1>2. CASE FlushStep \/ StoreStep(App) \/ CallbackStep(App)
    <2>1. /\ Head(job[App]) = job[App][1]
          /\ \A i \in DOMAIN job'[App] : i \in Nat /\ i + 1 \in DOMAIN job[App] /\ job'[App][i] = job[App][i + 1]
          /\ \A i \in DOMAIN job[App] : i \in Nat
                /\ (i = 1 \/ (i - 1 \in DOMAIN job'[App] /\ job'[App][i - 1] = job[App][i]))
      BY <1>0, <1>2, JobStep
    <2>2. UNCHANGED <<subs, typeOf, truth>> /\ Head(job[App]).do # "publish"
      BY <1>2 DEF FlushStep, StoreStep, CallbackStep, Doing
    <2>3. \A id, k : AskedForChanges(id, k)' <=> AskedForChanges(id, k)
      BY <2>2 DEF AskedForChanges
    <2> DEFINE s(i) == job'[App][i]
    <2>4. ASSUME NEW i \in DOMAIN job'[App]
          PROVE  /\ s(i).do = "publish" => /\ s(i).version = truth[s(i).key] /\ s(i).version # 0
                                           /\ truth[s(i).key] = Len(typeOf)
                                           /\ \A j \in DOMAIN job'[App] : s(j).do = "publish" => j = i
                 /\ s(i).do = "store" => s(i).version = truth[s(i).key]
                 /\ s(i).do = "store" \/ (s(i).do = "callback" /\ AskedForChanges(s(i).sub, s(i).key))
                    => \E j \in DOMAIN job'[App] : j > i /\ s(j).do = "publish" /\ s(j).key = s(i).key
      <3>1. i \in Nat /\ i + 1 \in DOMAIN job[App] /\ s(i) = job[App][i + 1]
        BY <2>1
      <3>2. s(i).do = "publish" => /\ s(i).version = truth[s(i).key] /\ s(i).version # 0
                                   /\ truth[s(i).key] = Len(typeOf)
        BY <1>0, <3>1 DEF AppJob
      <3>3. ASSUME s(i).do = "publish", NEW j \in DOMAIN job'[App], s(j).do = "publish"
            PROVE  j = i
        <4>1. j \in Nat /\ j + 1 \in DOMAIN job[App] /\ s(j) = job[App][j + 1]
          BY <2>1
        <4>2. j + 1 = i + 1
          BY <1>0, <3>1, <3>3, <4>1 DEF AppJob
        <4> QED BY <3>1, <4>1, <4>2
      <3>4. s(i).do = "store" => s(i).version = truth[s(i).key]
        BY <1>0, <3>1 DEF AppJob
      <3>5. ASSUME s(i).do = "store" \/ (s(i).do = "callback" /\ AskedForChanges(s(i).sub, s(i).key))
            PROVE  \E j \in DOMAIN job'[App] : j > i /\ s(j).do = "publish" /\ s(j).key = s(i).key
        <4>1. PICK j \in DOMAIN job[App] : j > i + 1 /\ job[App][j].do = "publish" /\ job[App][j].key = s(i).key
          BY <1>0, <3>1, <3>5 DEF AppJob
        <4>2. j \in Nat /\ j # 1
          BY <2>1, <3>1, <4>1
        <4>3. j - 1 \in DOMAIN job'[App] /\ s(j - 1) = job[App][j] /\ j - 1 > i
          BY <2>1, <3>1, <4>1, <4>2
        <4> QED BY <4>1, <4>3
      <3> HIDE DEF s
      <3> QED BY <3>2, <3>3, <3>4, <3>5
    <2> QED BY <2>2, <2>3, <2>4 DEF AppJob
  <1>3. CASE PublishStep
    <2>1. job'[App] = Tail(job[App]) /\ \A k : ~Publishing(k)'
      BY <1>3, PublishEnds
    <2>2. job[App] \in Seq(Steps) /\ job[App] # <<>>
      BY <1>0, <1>3 DEF ClientTypeOK, PublishStep, Doing, Idle
    <2>3. \A i \in DOMAIN job'[App] : i \in Nat /\ i >= 1 /\ i + 1 \in DOMAIN job[App] /\ job'[App][i] = job[App][i + 1]
      BY <2>1, <2>2, TailEntries
    <2>4. 1 \in DOMAIN job[App] /\ job[App][1].do = "publish"
      BY <1>3, PublishedValue
    <2>5. \A j \in DOMAIN job[App] : job[App][j].do = "publish" => j = 1
      BY <1>0, <2>4 DEF AppJob
    <2>6. UNCHANGED <<subs, typeOf, truth>>
      BY <1>3 DEF PublishStep
    <2>7. \A id, k : AskedForChanges(id, k)' <=> AskedForChanges(id, k)
      BY <2>6 DEF AskedForChanges
    <2>8. ASSUME NEW i \in DOMAIN job'[App]
          PROVE  /\ job'[App][i].do # "publish" /\ job'[App][i].do # "store"
                 /\ ~(job'[App][i].do = "callback" /\ AskedForChanges(job'[App][i].sub, job'[App][i].key))
      <3>1. i \in Nat /\ i >= 1 /\ i + 1 \in DOMAIN job[App] /\ job'[App][i] = job[App][i + 1]
        BY <2>3
      <3>2. ~\E j \in DOMAIN job[App] : j > i + 1 /\ job[App][j].do = "publish"
        BY <2>5, <3>1
      <3>3. job'[App][i].do # "publish"
        BY <2>5, <3>1
      <3> QED BY <1>0, <3>1, <3>2, <3>3 DEF AppJob
    <2> QED BY <2>7, <2>8 DEF AppJob
  <1>4. CASE CalledAtOnce
    <2>1. PICK id : /\ \A n \in DOMAIN job'[App] : job'[App][n].do = "callback" /\ job'[App][n].sub = id
                    /\ \A l \in Keys : ~AskedForChanges(id, l)'
      BY <1>0, <1>4, CalledAtOnceAsked
    <2>2. \A n \in DOMAIN job'[App] : /\ job'[App][n].do # "publish" /\ job'[App][n].do # "store"
                                     /\ job'[App][n].sub = id
      BY <2>1
    <2>3. \A n \in DOMAIN job'[App] : job'[App][n].key \in Keys
      <3>1. job'[App] \in Seq(Steps)
        BY <1>0, TypeStep DEF ClientTypeOK
      <3>2. \A n \in DOMAIN job'[App] : job'[App][n] \in Steps
        BY <3>1, LenProperties, ElementOfSeq
      <3> QED BY <3>2 DEF Steps
    <2> QED BY <2>1, <2>2, <2>3 DEF AppJob
  <1>5. CASE job'[App] = <<>>
    <2>1. DOMAIN <<>> = {}
      OBVIOUS
    <2>2. DOMAIN job'[App] = {}
      BY <1>5, <2>1, Zenon
    <2> QED BY <2>2 DEF AppJob
  <1>6. CASE job'[App] = job[App] /\ UNCHANGED <<subs, typeOf, truth>>
    <2>1. \A id, k : AskedForChanges(id, k)' <=> AskedForChanges(id, k)
      BY <1>6 DEF AskedForChanges
    <2> QED BY <1>0, <1>6, <2>1 DEF AppJob
  <1> QED BY <1>0, <1>a, <1>1, <1>2, <1>3, <1>4, <1>5, <1>6, AppSteps

-----------------------------------------------------------------------------
(* Values on their way home *)

\* No step touches the conditions under which a value is under way, but these.
LEMMA UnderwayKept ==
    ASSUME ClientTypeOK, NEW k \in Keys,
           running' = running, observed' = observed, Publishing(k)' <=> Publishing(k), pending' = pending,
           snapshot' = snapshot, overtaken' = overtaken
    PROVE  Underway(k)' <=> Underway(k)
  BY DEF Underway

\* Before a step that ends with the value home it was home, but for a replay of nothing and for
\* the subscriber hearing the last one.
LEMMA HomeBefore ==
    ASSUME Structure, RingOrder, LastInRing, [clientNext]_clientVars, NEW k \in Keys, Home(k)'
    PROVE  \/ Home(k) /\ truth'[k] = truth[k]
           \/ ReplayCopy /\ truth[k] = 0
           \/ Hear /\ ring[1].key = k /\ ring[1].version = truth[k]
  <1> USE DEF lifetime, values, registry, publisher, watch, channels, heard
  <1>0. /\ ClientTypeOK /\ VersionsPut /\ truth \in [Keys -> Nat] /\ pending \in [Keys -> Nat]
        /\ ring \in Seq(Messages)
    BY DEF Structure, ClientTypeOK
  <1>a. running' /\ observed' /\ ~Publishing(k)' /\ pending'[k] = 0 /\ ~InRing(k)'
        /\ snapshot'[k] = 0 /\ k \notin overtaken'
    BY DEF Home, Underway
  <1>1. CASE Quiet
    BY <1>1 DEF Quiet, Home, Underway, InRing
  <1>2. ASSUME NEW l \in Keys, NEW type \in Types, Put(l, type) \/ Get(l, type)
        PROVE  Home(k) /\ truth'[k] = truth[k]
    <2>1. PICK after \in Afters(l) : Putting(l, type, after)
      BY <1>2, PutCalls
    <2>2. truth' = [truth EXCEPT ![l] = localSeq]
      BY <1>0, <2>1, PutEffect
    <2>3. ~Publishing(k) /\ k # l
      BY <1>0, <1>2, <1>a, PutPublishing
    <2>4. UNCHANGED <<running, observed, pending, snapshot, overtaken, ring>>
      BY <1>2 DEF Put, Get
    <2> QED BY <1>0, <1>a, <2>2, <2>3, <2>4 DEF Home, Underway, InRing
  <1>3. ASSUME NEW t \in Threads, StoreStep(t) \/ CallbackStep(t)
        PROVE  Home(k) /\ truth'[k] = truth[k]
    <2>1. Publishing(k)' <=> Publishing(k)
      BY <1>0, <1>3, JobStep
    <2>2. UNCHANGED <<running, observed, pending, snapshot, overtaken, ring, truth>>
      BY <1>3 DEF StoreStep, CallbackStep
    <2> QED BY <1>a, <2>1, <2>2 DEF Home, Underway, InRing
  <1>4. CASE Stop
    BY <1>4, <1>a DEF Stop
  <1>5. CASE PublishStep
    <2> DEFINE k0 == job[App][1].key
    <2>1. k0 \in Keys /\ truth[k0] # 0 /\ pending' = [pending EXCEPT ![k0] = truth[k0]]
      BY <1>5, PublishedValue
    <2>2. Publishing(k) => k = k0
      BY <1>5, PublishEnds
    <2>3. UNCHANGED <<running, observed, ring, truth, snapshot>> /\ overtaken' = overtaken \ {k0}
      BY <1>5, PublishedValue DEF PublishStep
    <2> HIDE DEF k0
    <2>4. k # k0 /\ pending[k] = 0
      BY <1>0, <1>a, <2>1
    <2> QED BY <1>a, <2>2, <2>3, <2>4 DEF Home, Underway, InRing
  <1>6. CASE FlushStep \/ WorkerFlush
    <2>1. UNCHANGED <<running, observed, truth, snapshot, overtaken>> /\ (Flush \/ UNCHANGED <<ring, pending>>)
      BY <1>6 DEF FlushStep, WorkerFlush
    <2>2. Publishing(k)' <=> Publishing(k)
      <3>1. CASE FlushStep
        BY <1>0, <3>1, JobStep, App \in Threads DEF Threads
      <3>2. CASE WorkerFlush
        BY <3>2 DEF WorkerFlush, Publishing
      <3> QED BY <1>6, <3>1, <3>2
    <2>3. CASE UNCHANGED <<ring, pending>>
      BY <1>a, <2>1, <2>2, <2>3 DEF Home, Underway, InRing
    <2>4. CASE Flush
      <3>1. /\ \A i \in DOMAIN ring : i \in DOMAIN ring' /\ ring'[i] = ring[i]
            /\ \A l \in Keys : pending[l] # 0 =>
                  \E i \in DOMAIN ring' : i \notin DOMAIN ring /\ ring'[i].key = l
        BY <1>0, <2>4, FlushEntries
      <3>2. pending[k] = 0 /\ ~InRing(k)
        BY <1>a, <3>1 DEF InRing
      <3> QED BY <1>a, <2>1, <2>2, <3>2 DEF Home, Underway
    <2> QED BY <2>1, <2>3, <2>4
  <1>7. CASE ReplayCopy
    <2>1. snapshot' = kept /\ UNCHANGED job
      BY <1>7 DEF ReplayCopy
    <2>2. kept[k] = 0 /\ ~Publishing(k)
      BY <1>a, <2>1 DEF Publishing
    <2>3. truth[k] = 0
      BY <1>0, <2>2 DEF VersionsPut
    <2> QED BY <1>7, <2>3
  <1>9. CASE ReplayMerge
    <2>1. /\ UNCHANGED <<running, observed, truth, ring, job>> /\ overtaken' = Overtaken
          /\ pending'[k] = IF snapshot[k] = 0 THEN pending[k] ELSE snapshot[k]
      BY <1>9 DEF ReplayMerge
    <2>2. snapshot[k] = 0 /\ pending[k] = 0 /\ k \notin overtaken
      BY <1>a, <2>1 DEF Overtaken
    <2>3. ~Publishing(k) /\ ~InRing(k)
      BY <1>a, <2>1 DEF Publishing, InRing
    <2> QED BY <1>a, <2>1, <2>2, <2>3 DEF Home, Underway
  <1>8. CASE Hear
    <2>1. /\ ring # <<>> /\ 1 \in DOMAIN ring /\ ring' = Tail(ring)
          /\ UNCHANGED <<running, observed, pending, snapshot, overtaken, truth>>
          /\ job' = [job EXCEPT ![Reader] = HearSteps(ring[1].key, ring[1].version, typeOf[ring[1].version])]
      BY <1>0, <1>8, RingVersions, HearEffect
    <2>2. job'[App] = job[App]
      BY <1>0, <2>1 DEF ClientTypeOK, Threads, App, Reader
    <2>3. Publishing(k)' <=> Publishing(k)
      BY <1>0, <2>2, PublishingKept
    <2>4. ~Underway(k)
      BY <1>a, <2>1, <2>3 DEF Underway
    <2>5. /\ \A i \in DOMAIN ring : i \in Nat /\ i >= 1
          /\ \A i \in DOMAIN ring : i = 1 \/ (i - 1 \in DOMAIN ring' /\ ring'[i - 1] = ring[i])
      BY <1>0, <2>1, TailEntries
    <2>6. \A i \in DOMAIN ring : ring[i].key = k => i = 1
      BY <1>a, <2>5 DEF InRing
    <2>7. CASE ring[1].key = k
      <3>1. ~\E j \in DOMAIN ring : j > 1 /\ ring[j].key = k
        BY <2>6
      <3>2. ring[1].version = truth[k]
        BY <2>1, <2>4, <2>7, <3>1 DEF LastInRing
      <3> QED BY <1>8, <2>7, <3>2
    <2>8. CASE ring[1].key # k
      BY <2>1, <2>4, <2>6, <2>8 DEF Home, InRing
    <2> QED BY <2>7, <2>8
  <1> QED BY <1>0, <1>1, <1>2, <1>3, <1>4, <1>5, <1>6, <1>7, <1>8, <1>9, StepKinds

\* The newest of a key in the ring is its last Put*, or a newer one is under way (FlushNow).
LEMMA LastInRingStep ==
    ASSUME Structure, RingOrder, LastInRing, [clientNext]_clientVars
    PROVE  LastInRing'
  <1> USE DEF lifetime, values, registry, publisher, watch, channels, heard
  <1>0. /\ ClientTypeOK /\ VersionsPut /\ truth \in [Keys -> Nat] /\ pending \in [Keys -> Nat]
        /\ ring \in Seq(Messages)
    BY DEF Structure, ClientTypeOK
  <1>b. \A i \in DOMAIN ring : ring[i].key \in Keys /\ ring[i].version <= truth[ring[i].key]
           /\ ring[i].version \in Nat /\ ring[i].version # 0 /\ i \in Nat
    <2>1. \A i \in DOMAIN ring : i \in Nat
      BY <1>0, LenProperties
    <2> QED BY <1>0, <2>1, RingVersions DEF Messages
  <1>d. ClientTypeOK'
    BY TypeStep
  <1>e. \A i \in DOMAIN ring' : ring'[i].key \in Keys
    <2>1. ring' \in Seq(Messages)
      BY <1>d DEF ClientTypeOK
    <2>2. \A i \in DOMAIN ring' : ring'[i] \in Messages
      BY <2>1, LenProperties, ElementOfSeq
    <2> QED BY <2>2 DEF Messages
  <1> SUFFICES ASSUME NEW i \in DOMAIN ring', NEW k \in Keys, k = ring'[i].key
               PROVE  \/ Underway(k)' \/ ring'[i].version = truth'[k]
                      \/ \E j \in DOMAIN ring' : j > i /\ ring'[j].key = k
    BY <1>e DEF LastInRing, Underway, Publishing
  <1>f. \A m \in DOMAIN ring : ring[m].key = k =>
           \/ Underway(k) \/ ring[m].version = truth[k]
           \/ \E j \in DOMAIN ring : j > m /\ ring[j].key = k
    BY DEF LastInRing
  <1> HIDE DEF LastInRing
  <1>g. ASSUME UNCHANGED <<ring, truth>>, Underway(k) => Underway(k)'
        PROVE  \/ Underway(k)' \/ ring'[i].version = truth'[k]
               \/ \E j \in DOMAIN ring' : j > i /\ ring'[j].key = k
    BY <1>f, <1>g
  <1>1. CASE Quiet
    <2>1. Underway(k) => Underway(k)'
      BY <1>1 DEF Quiet, Underway
    <2> QED BY <1>1, <1>g, <2>1 DEF Quiet
  <1>2. ASSUME NEW l \in Keys, NEW type \in Types, Put(l, type) \/ Get(l, type)
        PROVE  \/ Underway(k)' \/ ring'[i].version = truth'[k]
               \/ \E j \in DOMAIN ring' : j > i /\ ring'[j].key = k
    <2>1. PICK after \in Afters(l) : Putting(l, type, after)
      BY <1>2, PutCalls
    <2>2. truth' = [truth EXCEPT ![l] = localSeq]
      BY <1>0, <2>1, PutEffect
    <2>3. ~Publishing(k) /\ (Publishing(k)' <=> k = l)
      BY <1>0, <1>2, PutPublishing
    <2>4. UNCHANGED <<running, observed, pending, snapshot, overtaken, ring>>
      BY <1>2 DEF Put, Get
    <2>5. CASE k = l
      BY <2>3, <2>5 DEF Underway
    <2>6. CASE k # l
      <3>1. truth'[k] = truth[k]
        BY <1>0, <2>2, <2>6
      <3>2. Underway(k) => Underway(k)'
        BY <2>3, <2>4 DEF Underway
      <3> QED BY <1>f, <2>4, <3>1, <3>2
    <2> QED BY <2>5, <2>6
  <1>3. ASSUME NEW t \in Threads, StoreStep(t) \/ CallbackStep(t)
        PROVE  \/ Underway(k)' \/ ring'[i].version = truth'[k]
               \/ \E j \in DOMAIN ring' : j > i /\ ring'[j].key = k
    <2>1. Publishing(k)' <=> Publishing(k)
      BY <1>0, <1>3, JobStep
    <2>2. UNCHANGED <<running, observed, pending, snapshot, overtaken, ring, truth>>
      BY <1>3 DEF StoreStep, CallbackStep
    <2>3. Underway(k) => Underway(k)'
      BY <1>0, <2>1, <2>2, UnderwayKept
    <2> QED BY <1>g, <2>2, <2>3
  <1>4. CASE Stop
    BY <1>4 DEF Stop, Underway
  <1>5. CASE PublishStep
    <2> DEFINE k0 == job[App][1].key
    <2>1. k0 \in Keys /\ truth[k0] # 0 /\ pending' = [pending EXCEPT ![k0] = truth[k0]]
      BY <1>5, PublishedValue
    <2>2. Publishing(k) => k = k0
      BY <1>5, PublishEnds
    <2>3. UNCHANGED <<running, observed, ring, truth, snapshot>> /\ overtaken' = overtaken \ {k0}
      BY <1>5, PublishedValue DEF PublishStep
    <2> HIDE DEF k0
    <2>4. CASE k = k0
      <3>1. pending'[k] # 0
        BY <1>0, <2>1, <2>4
      <3> QED BY <3>1 DEF Underway
    <2>5. CASE k # k0
      <3>1. pending'[k] = pending[k] /\ ~Publishing(k)
        BY <1>0, <2>1, <2>2, <2>5
      <3>2. k \in overtaken' <=> k \in overtaken
        BY <2>3, <2>5
      <3>3. UNCHANGED <<running, observed, snapshot>>
        BY <2>3
      <3>4. Underway(k) => Underway(k)'
        BY <3>1, <3>2, <3>3 DEF Underway
      <3> QED BY <1>g, <2>3, <3>4
    <2> QED BY <2>4, <2>5
  <1>6. CASE FlushStep \/ WorkerFlush
    <2>1. UNCHANGED <<running, observed, truth, kept, snapshot, overtaken>> /\ (Flush \/ UNCHANGED <<ring, pending>>)
      BY <1>6 DEF FlushStep, WorkerFlush
    <2>2. Publishing(k)' <=> Publishing(k)
      <3>1. CASE FlushStep
        BY <1>0, <3>1, JobStep, App \in Threads DEF Threads
      <3>2. CASE WorkerFlush
        BY <3>2 DEF WorkerFlush, Publishing
      <3> QED BY <1>6, <3>1, <3>2
    <2>3. CASE UNCHANGED <<ring, pending>>
      <3>1. Underway(k) => Underway(k)'
        BY <1>0, <2>1, <2>2, <2>3, UnderwayKept
      <3> QED BY <1>g, <2>1, <2>3, <3>1
    <2>4. CASE Flush
      <3>1. /\ \A m \in DOMAIN ring : m \in DOMAIN ring' /\ ring'[m] = ring[m]
            /\ \A m \in DOMAIN ring' : m \in DOMAIN ring \/
                  /\ \A j \in DOMAIN ring : j < m
                  /\ pubSeq < ring'[m].seq /\ ring'[m].seq <= pubSeq'
                  /\ pending[ring'[m].key] # 0 /\ ring'[m].version = pending[ring'[m].key]
            /\ \A l \in Keys : pending[l] # 0 =>
                  \E m \in DOMAIN ring' : m \notin DOMAIN ring /\ ring'[m].key = l
            /\ ring' \in Seq(Messages)
        BY <1>0, <2>4, FlushEntries
      <3>2. \A m \in DOMAIN ring' : m \in Nat
        BY <3>1, LenProperties
      <3>3. CASE i \notin DOMAIN ring
        <4>1. pending[k] # 0 /\ ring'[i].version = pending[k]
          BY <3>1, <3>3
        <4>2. Publishing(k) \/ k \in overtaken \/ pending[k] = truth[k]
          BY <1>0, <4>1 DEF VersionsPut
        <4>3. Publishing(k) \/ k \in overtaken => Underway(k)'
          BY <2>1, <2>2 DEF Underway
        <4> QED BY <2>1, <4>1, <4>2, <4>3
      <3>4. CASE i \in DOMAIN ring
        <4>1. ring'[i] = ring[i]
          BY <3>1, <3>4
        <4>2. CASE pending[k] # 0
          <5>1. PICK m \in DOMAIN ring' : m \notin DOMAIN ring /\ ring'[m].key = k
            BY <3>1, <4>2
          <5>2. m > i
            BY <3>1, <3>2, <3>4, <5>1
          <5> QED BY <5>1, <5>2
        <4>3. CASE pending[k] = 0
          <5>1. Underway(k) => Underway(k)'
            BY <2>1, <2>2, <4>3 DEF Underway
          <5>2. ASSUME NEW j \in DOMAIN ring, j > i, ring[j].key = k
                PROVE  \E m \in DOMAIN ring' : m > i /\ ring'[m].key = k
            BY <3>1, <5>2
          <5> QED BY <1>f, <2>1, <3>4, <4>1, <5>1, <5>2
        <4> QED BY <4>2, <4>3
      <3> QED BY <3>3, <3>4
    <2> QED BY <2>1, <2>3, <2>4
  <1>9. CASE ReplayMerge
    <2>1. /\ UNCHANGED <<running, observed, truth, ring, job>> /\ overtaken' = Overtaken
          /\ pending'[k] = IF snapshot[k] = 0 THEN pending[k] ELSE snapshot[k]
      BY <1>9 DEF ReplayMerge
    <2>2. Publishing(k)' <=> Publishing(k)
      BY <2>1 DEF Publishing
    <2>3. CASE snapshot[k] # 0
      BY <2>1, <2>3 DEF Underway
    <2>4. CASE snapshot[k] = 0
      <3>1. pending'[k] = pending[k] /\ (k \in overtaken' <=> k \in overtaken)
        BY <2>1, <2>4 DEF Overtaken
      <3>2. Underway(k) => Underway(k)'
        BY <2>1, <2>2, <2>4, <3>1 DEF Underway
      <3> QED BY <1>g, <2>1, <3>2
    <2> QED BY <2>3, <2>4
  <1>7. CASE ReplayCopy
    <2>1. snapshot' = kept /\ UNCHANGED <<job, ring>>
      BY <1>7 DEF ReplayCopy
    <2>2. truth[k] # 0
      BY <1>0, <1>b, <2>1
    <2>3. Publishing(k) \/ kept[k] # 0
      BY <1>0, <2>2 DEF VersionsPut
    <2>4. Publishing(k)' <=> Publishing(k)
      BY <2>1 DEF Publishing
    <2> QED BY <2>1, <2>3, <2>4 DEF Underway
  <1>8. CASE Hear
    <2>1. /\ ring # <<>> /\ ring' = Tail(ring)
          /\ UNCHANGED <<running, observed, pending, snapshot, overtaken, truth>>
          /\ job' = [job EXCEPT ![Reader] = HearSteps(ring[1].key, ring[1].version, typeOf[ring[1].version])]
      BY <1>0, <1>8, RingVersions, HearEffect
    <2>2. job'[App] = job[App]
      BY <1>0, <2>1 DEF ClientTypeOK, Threads, App, Reader
    <2>3. Publishing(k)' <=> Publishing(k)
      BY <1>0, <2>2, PublishingKept
    <2>4. Underway(k) => Underway(k)'
      BY <1>0, <2>1, <2>3, UnderwayKept
    <2>5. /\ \A m \in DOMAIN ring' : m \in Nat /\ m >= 1 /\ m + 1 \in DOMAIN ring /\ ring'[m] = ring[m + 1]
          /\ \A m \in DOMAIN ring : m = 1 \/ (m - 1 \in DOMAIN ring' /\ ring'[m - 1] = ring[m])
      BY <1>0, <2>1, TailEntries
    <2>6. i \in Nat /\ i >= 1 /\ i + 1 \in DOMAIN ring /\ ring'[i] = ring[i + 1]
      BY <2>5
    <2>7. ASSUME NEW j \in DOMAIN ring, j > i + 1, ring[j].key = k
          PROVE  \E m \in DOMAIN ring' : m > i /\ ring'[m].key = k
      <3>1. j \in Nat /\ j # 1 /\ j - 1 > i
        BY <1>b, <2>6, <2>7
      <3> QED BY <2>5, <2>7, <3>1
    <2> QED BY <1>f, <2>1, <2>4, <2>6, <2>7
  <1> QED BY <1>0, <1>1, <1>2, <1>3, <1>4, <1>5, <1>6, <1>7, <1>8, <1>9, StepKinds

\* The cache has the last Put* when it has come back (HandleUpdate).
LEMMA CacheHomeStep ==
    ASSUME Structure, RingOrder, CacheOrder, LastInRing, CacheHome, [clientNext]_clientVars
    PROVE  CacheHome'
  <1> USE DEF lifetime, values, registry, publisher, watch, channels, heard
  <1>0. /\ ClientTypeOK /\ VersionsPut /\ truth \in [Keys -> Nat]
        /\ cache \in [Keys -> [version : Nat, seq : Nat]]
    BY DEF Structure, ClientTypeOK
  <1> SUFFICES ASSUME NEW k \in Keys, Home(k)' PROVE cache'[k].version = truth'[k]
    BY DEF CacheHome
  <1>1. CASE Home(k) /\ truth'[k] = truth[k]
    <2>1. cache[k].version = truth[k]
      BY <1>1 DEF CacheHome
    <2>2. cache'[k] = cache[k]
      <3>1. ASSUME NEW l \in Keys, NEW type \in Types, Put(l, type) \/ Get(l, type)
            PROVE  cache'[k] = cache[k]
        <4>1. PICK after \in Afters(l) : Putting(l, type, after)
          BY <3>1, PutCalls
        <4>2. cache' = [cache EXCEPT ![l] = Cached(l, localSeq, localSeq)]
          BY <1>0, <4>1, PutEffect
        <4>3. Publishing(l)' /\ ~Publishing(k)'
          BY <1>0, <3>1, PutPublishing DEF Home, Underway
        <4>4. k # l
          BY <4>3
        <4> QED BY <1>0, <4>2, <4>4
      <3>2. CASE Hear
        <4>1. /\ cache' = [cache EXCEPT ![ring[1].key] = Cached(ring[1].key, ring[1].version, ring[1].seq)]
              /\ 1 \in DOMAIN ring
          BY <1>0, <3>2, RingVersions, HearEffect
        <4>2. ring[1].key # k
          BY <1>1, <4>1 DEF Home, InRing
        <4> QED BY <1>0, <4>1, <4>2
      <3>3. CASE Quiet
        BY <3>3 DEF Quiet
      <3>4. ASSUME NEW t \in Threads, StoreStep(t) \/ CallbackStep(t) PROVE cache'[k] = cache[k]
        BY <3>4 DEF StoreStep, CallbackStep
      <3>5. CASE Stop \/ PublishStep \/ FlushStep \/ WorkerFlush \/ ReplayCopy \/ ReplayMerge
        BY <3>5 DEF Stop, PublishStep, FlushStep, WorkerFlush, ReplayCopy, ReplayMerge
      <3> QED BY <1>0, <3>1, <3>2, <3>3, <3>4, <3>5, StepKinds
    <2> QED BY <1>1, <2>1, <2>2
  <1>2. CASE ReplayCopy /\ truth[k] = 0
    <2>1. UNCHANGED <<truth, cache>>
      BY <1>2 DEF ReplayCopy
    <2>2. cache[k].version \in Nat /\ cache[k].version <= 0
      BY <1>0, <1>2 DEF VersionsPut
    <2> QED BY <1>2, <2>1, <2>2
  <1>3. CASE Hear /\ ring[1].key = k /\ ring[1].version = truth[k]
    <2>1. /\ cache' = [cache EXCEPT ![ring[1].key] = Cached(ring[1].key, ring[1].version, ring[1].seq)]
          /\ 1 \in DOMAIN ring /\ ring[1] \in Messages /\ UNCHANGED truth
      BY <1>0, <1>3, RingVersions, HearEffect
    <2>2. cache'[k] = Cached(k, ring[1].version, ring[1].seq)
      BY <1>0, <1>3, <2>1
    <2>3. CASE cache'[k] = [version |-> ring[1].version, seq |-> ring[1].seq]
      BY <1>3, <2>1, <2>3
    <2>4. CASE cache'[k] = cache[k] /\ ~(ring[1].seq >= cache[k].seq)
      <3>1. ~Heard(k)
        <4>1. ring[1].seq \in Nat /\ cache[k].seq \in Nat
          BY <1>0, <2>1 DEF Messages
        <4> QED BY <2>1, <2>4, <4>1 DEF Heard
      <3> QED BY <2>1, <2>4, <3>1 DEF CacheOrder
    <2> QED BY <2>2, <2>3, <2>4 DEF Cached
  <1> QED BY <1>1, <1>2, <1>3, HomeBefore

\* What becomes of the subscriber's thread, the store and what the callbacks were given.
LEMMA ReaderSteps ==
    ASSUME ClientTypeOK, [clientNext]_clientVars,
           \A i \in DOMAIN ring : ring[i].version \in 1 .. Len(typeOf)
    PROVE  \/ job'[Reader] = job[Reader] /\ UNCHANGED <<store, seen>>
           \/ \E t \in Threads : StoreStep(t) \/ CallbackStep(t)
           \/ Hear
  <1> USE DEF lifetime, values, registry, publisher, watch, channels, heard
  <1>0. Reader # App /\ App \in Threads /\ Reader \in Threads /\ job \in [Threads -> Seq(Steps)]
    BY DEF Reader, App, Threads, ClientTypeOK
  <1>1. CASE Quiet
    BY <1>1 DEF Quiet
  <1>2. ASSUME NEW k \in Keys, NEW type \in Types, Put(k, type) \/ Get(k, type)
        PROVE  job'[Reader] = job[Reader] /\ UNCHANGED <<store, seen>>
    <2>1. PICK after \in Afters(k) : Putting(k, type, after)
      BY <1>2, PutCalls
    <2>2. job' = [job EXCEPT ![App] = PutSteps(k, localSeq, type, after)]
      BY <2>1, PutEffect
    <2>3. UNCHANGED <<store, seen>>
      BY <1>2 DEF Put, Get
    <2> QED BY <1>0, <2>2, <2>3
  <1>3. CASE PublishStep \/ FlushStep
    <2>1. Done(App) /\ UNCHANGED <<store, seen>>
      BY <1>3 DEF PublishStep, FlushStep
    <2> QED BY <1>0, <2>1 DEF Done
  <1>4. CASE Stop \/ WorkerFlush \/ ReplayCopy \/ ReplayMerge
    BY <1>4 DEF Stop, WorkerFlush, ReplayCopy, ReplayMerge
  <1> QED BY <1>1, <1>2, <1>3, <1>4, StepKinds

\* The store step and then the callbacks of a value the subscriber heard.
LEMMA HearBrings ==
    ASSUME ClientTypeOK, Hear, \A i \in DOMAIN ring : ring[i].version \in 1 .. Len(typeOf)
    PROVE  /\ job[Reader] = <<>> /\ ring[1].key \in Keys /\ typeOf[ring[1].version] \in Types
           /\ UNCHANGED <<store, seen, truth, typeOf, subs, nextId>>
           /\ 1 \in DOMAIN job'[Reader] /\ job'[Reader][1].do = "store"
           /\ job'[Reader][1].key = ring[1].key /\ job'[Reader][1].version = ring[1].version
           /\ \A i \in DOMAIN job'[Reader] :
                 /\ job'[Reader][i].key = ring[1].key
                 /\ job'[Reader][i].version = ring[1].version
                 /\ job'[Reader][i].do = "callback" =>
                       \E n \in DOMAIN subs[<<ring[1].key, typeOf[ring[1].version], FALSE>>] :
                          job'[Reader][i].sub = subs[<<ring[1].key, typeOf[ring[1].version], FALSE>>][n].id
           /\ \A n \in DOMAIN subs[<<ring[1].key, typeOf[ring[1].version], FALSE>>] :
                 \E i \in DOMAIN job'[Reader] :
                    /\ job'[Reader][i].do = "callback"
                    /\ job'[Reader][i].sub = subs[<<ring[1].key, typeOf[ring[1].version], FALSE>>][n].id
  <1> USE DEF lifetime, values, registry, publisher, watch, channels, heard
  <1> DEFINE u == ring[1]
             type == typeOf[u.version]
             q == HearSteps(u.key, u.version, type)
             x == <<u.key, type, FALSE>>
  <1>1. /\ job[Reader] = <<>> /\ u \in Messages /\ type \in Types /\ job' = [job EXCEPT ![Reader] = q]
        /\ UNCHANGED <<seen, truth, typeOf, subs, nextId>>
    BY HearEffect
  <1>2. u.key \in Keys /\ u.version \in Nat
    BY <1>1 DEF Messages
  <1>3. /\ 1 \in DOMAIN q /\ q[1] = Step("store", u.key, u.version)
        /\ \A n \in DOMAIN subs[x] : \E i \in DOMAIN q : q[i] = Callback(u.key, u.version, subs[x][n].id)
        /\ \A i \in DOMAIN q :
              \/ i = 1 /\ q[i] = Step("store", u.key, u.version)
              \/ \E n \in DOMAIN subs[x] : q[i] = Callback(u.key, u.version, subs[x][n].id)
    BY <1>1, <1>2, HearEntries
  <1>4. job'[Reader] = q
    <2> HIDE DEF q
    <2> QED BY <1>1 DEF ClientTypeOK, Threads
  <1>5. UNCHANGED store
    BY DEF Hear
  <1> HIDE DEF u, q, x, type
  <1>6. q[1].do = "store" /\ q[1].key = u.key /\ q[1].version = u.version
    BY <1>3 DEF Step
  <1>7. \A i \in DOMAIN q :
           /\ q[i].key = u.key /\ q[i].version = u.version
           /\ q[i].do = "callback" => \E n \in DOMAIN subs[x] : q[i].sub = subs[x][n].id
    BY <1>3 DEF Step, Callback
  <1>8. \A n \in DOMAIN subs[x] : \E i \in DOMAIN q :
           q[i].do = "callback" /\ q[i].sub = subs[x][n].id
    <2>1. \A n \in DOMAIN subs[x] : Callback(u.key, u.version, subs[x][n].id).do = "callback"
             /\ Callback(u.key, u.version, subs[x][n].id).sub = subs[x][n].id
      BY DEF Callback, Step
    <2> QED BY <1>3, <2>1
  <1>9. /\ job[Reader] = <<>> /\ u.key \in Keys /\ type \in Types
        /\ UNCHANGED <<store, seen, truth, typeOf, subs, nextId>>
        /\ 1 \in DOMAIN job'[Reader] /\ job'[Reader][1].do = "store"
        /\ job'[Reader][1].key = u.key /\ job'[Reader][1].version = u.version
        /\ \A i \in DOMAIN job'[Reader] :
              /\ job'[Reader][i].key = u.key /\ job'[Reader][i].version = u.version
              /\ job'[Reader][i].do = "callback" => \E n \in DOMAIN subs[x] : job'[Reader][i].sub = subs[x][n].id
        /\ \A n \in DOMAIN subs[x] : \E i \in DOMAIN job'[Reader] :
              job'[Reader][i].do = "callback" /\ job'[Reader][i].sub = subs[x][n].id
    BY <1>1, <1>2, <1>3, <1>4, <1>5, <1>6, <1>7, <1>8
  <1> QED BY <1>9 DEF u, x, type

\* The store has it too, or the subscriber is about to put it there (HandleUpdate).
LEMMA StoreHomeStep ==
    ASSUME Structure, RingOrder, LastInRing, StoreHome, [clientNext]_clientVars
    PROVE  StoreHome'
  <1> USE DEF lifetime, values, registry, publisher, watch, channels, heard
  <1>0. /\ ClientTypeOK /\ VersionsPut /\ AppJob /\ ReaderJob
        /\ truth \in [Keys -> Nat] /\ store \in [Keys -> Nat]
        /\ Reader # App /\ App \in Threads /\ Reader \in Threads /\ job \in [Threads -> Seq(Steps)]
    BY DEF Structure, ClientTypeOK, Threads, App, Reader
  <1>a. \A i \in DOMAIN ring : ring[i].version \in 1 .. Len(typeOf)
    BY <1>0, RingVersions
  <1> DEFINE Bringing1(k) == \E i \in DOMAIN job'[Reader] :
                  job'[Reader][i].do = "store" /\ job'[Reader][i].key = k
             Brings1(k) == \E i \in DOMAIN job'[Reader] :
                  job'[Reader][i].do = "store" /\ job'[Reader][i].key = k /\ job'[Reader][i].version = truth'[k]
  <1> SUFFICES ASSUME NEW k \in Keys, Home(k)'
               PROVE  Brings1(k) \/ (~Bringing1(k) /\ store'[k] = truth'[k])
    BY DEF StoreHome, Brings, Bringing
  <1>n. job[Reader] = <<>> => ~Bringing("store", k)
    <2>1. DOMAIN <<>> = {}
      OBVIOUS
    <2> QED BY <2>1, Zenon DEF Bringing
  <1>1. CASE Home(k) /\ truth'[k] = truth[k]
    <2>1. Brings("store", k) \/ (~Bringing("store", k) /\ store[k] = truth[k])
      BY <1>1 DEF StoreHome
    <2>2. CASE job'[Reader] = job[Reader] /\ UNCHANGED store
      BY <1>1, <2>1, <2>2 DEF Brings, Bringing
    <2>3. CASE StoreStep(Reader)
      <3> DEFINE k0 == job[Reader][1].key
                 v0 == job[Reader][1].version
      <3>1. /\ Head(job[Reader]) = job[Reader][1] /\ 1 \in DOMAIN job[Reader] /\ job[Reader][1] \in Steps
            /\ job[Reader][1].do = "store"
        BY <1>0, <2>3, StoredValue DEF StoreStep
      <3>2. \A i \in DOMAIN job'[Reader] : i + 1 # 1 /\ i + 1 \in DOMAIN job[Reader]
                                            /\ job'[Reader][i] = job[Reader][i + 1]
        <4>1. \A i \in DOMAIN job'[Reader] : i \in Nat /\ i >= 1 /\ i + 1 \in DOMAIN job[Reader]
                                              /\ job'[Reader][i] = job[Reader][i + 1]
          BY <1>0, <2>3, JobStep
        <4> QED BY <4>1
      <3>3. ~Bringing1(k)
        BY <1>0, <3>2 DEF ReaderJob
      <3>4. storeOpen
        BY <1>0, <1>1 DEF Home, Underway, ClientTypeOK
      <3>5. k0 \in Keys /\ store' = [store EXCEPT ![k0] = v0]
        BY <2>3, <3>1, <3>4 DEF StoreStep, Steps
      <3>6. k0 = k => v0 = truth[k]
        <4>1. k0 = k => Bringing("store", k)
          BY <3>1 DEF Bringing
        <4>2. ASSUME NEW i \in DOMAIN job[Reader], job[Reader][i].do = "store"
              PROVE  i = 1
          BY <1>0, <4>2 DEF ReaderJob
        <4> QED BY <2>1, <4>1, <4>2 DEF Brings
      <3>7. k0 # k => ~Bringing("store", k)
        BY <1>0 DEF ReaderJob, Bringing
      <3>8. k0 # k => store[k] = truth[k]
        BY <2>1, <3>7 DEF Brings, Bringing
      <3> HIDE DEF k0, v0
      <3>9. store'[k] = truth[k]
        BY <1>0, <3>5, <3>6, <3>8
      <3> QED BY <1>1, <3>3, <3>9
    <2>4. CASE CallbackStep(Reader)
      <3>1. /\ job[Reader][1].do = "callback" /\ UNCHANGED store
            /\ \A i \in DOMAIN job'[Reader] : i + 1 \in DOMAIN job[Reader] /\ job'[Reader][i] = job[Reader][i + 1]
        <4>1. /\ Head(job[Reader]) = job[Reader][1]
              /\ \A i \in DOMAIN job'[Reader] : i + 1 \in DOMAIN job[Reader] /\ job'[Reader][i] = job[Reader][i + 1]
          BY <1>0, <2>4, JobStep
        <4> QED BY <2>4, <4>1 DEF CallbackStep, Doing
      <3>2. ~Bringing("store", k)
        BY <1>0, <3>1 DEF ReaderJob, Bringing
      <3>3. ~Bringing1(k)
        BY <3>1, <3>2 DEF Bringing
      <3> QED BY <1>1, <2>1, <3>1, <3>2, <3>3 DEF Brings, Bringing
    <2>5. CASE StoreStep(App)
      <3>1. /\ Head(job[App]) = job[App][1] /\ 1 \in DOMAIN job[App] /\ job[App][1] \in Steps
            /\ job[App][1].do = "store"
        BY <1>0, <2>5, StoredValue DEF StoreStep
      <3>2. Publishing(job[App][1].key)
        BY <1>0, <3>1 DEF AppJob, Publishing
      <3>3. job[App][1].key # k
        BY <1>1, <3>2 DEF Home, Underway
      <3>4. store'[k] = store[k]
        BY <1>0, <2>5, <3>1, <3>3 DEF StoreStep
      <3>5. job'[Reader] = job[Reader]
        BY <1>0, <2>5, JobStep
      <3> QED BY <1>1, <2>1, <3>4, <3>5 DEF Brings, Bringing
    <2>6. ASSUME NEW t \in Threads, StoreStep(t) \/ CallbackStep(t)
          PROVE  \/ StoreStep(Reader) \/ CallbackStep(Reader) \/ StoreStep(App)
                 \/ job'[Reader] = job[Reader] /\ UNCHANGED store
      <3>1. CASE t = Reader
        BY <2>6, <3>1
      <3>2. CASE t # Reader /\ CallbackStep(t)
        <4>1. job'[Reader] = job[Reader]
          BY <1>0, <3>2, JobStep
        <4> QED BY <3>2, <4>1 DEF CallbackStep
      <3>3. CASE t # Reader /\ StoreStep(t)
        <4>1. t \in {App, Reader}
          BY <3>3, StoredValue DEF StoreStep
        <4> QED BY <3>3, <4>1
      <3> QED BY <2>6, <3>1, <3>2, <3>3
    <2>7. CASE Hear
      <3>1. /\ job[Reader] = <<>> /\ UNCHANGED <<store, truth>>
            /\ \A i \in DOMAIN job'[Reader] : job'[Reader][i].key = ring[1].key
        BY <1>0, <1>a, <2>7, HearBrings
      <3>2. 1 \in DOMAIN ring
        BY <1>0, <1>a, <2>7, HearEffect
      <3>3. ring[1].key # k
        BY <1>1, <3>2 DEF Home, InRing
      <3> QED BY <1>n, <2>1, <3>1, <3>3 DEF Brings, Bringing
    <2> QED BY <1>0, <1>a, <2>2, <2>3, <2>4, <2>5, <2>6, <2>7, ReaderSteps
  <1>2. CASE ReplayCopy /\ truth[k] = 0
    <2>1. UNCHANGED <<truth, store, job>>
      BY <1>2 DEF ReplayCopy
    <2>2. store[k] \in Nat /\ store[k] <= 0
      BY <1>0, <1>2 DEF VersionsPut
    <2>3. ~Bringing1(k)
      <3> SUFFICES ASSUME NEW i \in DOMAIN job[Reader], job[Reader][i].key = k PROVE FALSE
        BY <2>1
      <3>1. job[Reader][i].version \in 1 .. 0
        BY <1>0, <1>2 DEF ReaderJob
      <3> QED BY <3>1
    <2> QED BY <1>2, <2>1, <2>2, <2>3
  <1>3. CASE Hear /\ ring[1].key = k /\ ring[1].version = truth[k]
    BY <1>0, <1>a, <1>3, HearBrings
  <1> QED BY <1>1, <1>2, <1>3, HomeBefore

\* So have the subscriptions, or the subscriber is about to call them (HandleUpdate).
LEMMA CallbackHomeStep ==
    ASSUME Structure, RingOrder, LastInRing, Numbers, CallbackHome, [clientNext]_clientVars
    PROVE  CallbackHome'
  <1> USE DEF lifetime, values, registry, publisher, watch, channels, heard
  <1>0. /\ ClientTypeOK /\ VersionsPut /\ AppJob /\ ReaderJob /\ NumbersUnique /\ CallbacksKnown
        /\ truth \in [Keys -> Nat] /\ seen \in [1 .. MaxSubs -> Int] /\ typeOf \in Seq(Types)
        /\ Reader # App /\ Commander # App /\ Commander # Reader
        /\ App \in Threads /\ Reader \in Threads /\ Commander \in Threads
        /\ job \in [Threads -> Seq(Steps)]
    BY DEF Structure, Numbers, ClientTypeOK, Threads, App, Reader, Commander
  <1>a. \A i \in DOMAIN ring : ring[i].version \in 1 .. Len(typeOf)
    BY <1>0, RingVersions
  <1>b. ClientTypeOK'
    BY TypeStep
  <1>c. \A x \in Tables : \A i \in DOMAIN subs[x] :
           subs[x][i].id \in 1 .. MaxSubs /\ subs[x][i].since \in Nat
    <2>1. \A x \in Tables : subs[x] \in Seq(Subscriptions)
      BY <1>0 DEF ClientTypeOK, Tables
    <2>2. \A x \in Tables : \A i \in DOMAIN subs[x] : subs[x][i] \in Subscriptions
      BY <2>1, LenProperties, ElementOfSeq
    <2> QED BY <2>2 DEF Subscriptions
  <1>d. \A x \in Tables : \A i \in DOMAIN subs'[x] : subs'[x][i].since \in Nat
    <2>1. \A x \in Tables : subs'[x] \in Seq(Subscriptions)
      BY <1>b DEF ClientTypeOK, Tables
    <2>2. \A x \in Tables : \A i \in DOMAIN subs'[x] : subs'[x][i] \in Subscriptions
      BY <2>1, LenProperties, ElementOfSeq
    <2> QED BY <2>2 DEF Subscriptions
  <1> DEFINE Calling1(id) == \E i \in DOMAIN job'[Reader] :
                  job'[Reader][i].do = "callback" /\ job'[Reader][i].sub = id
             Calls1(id, v) == \E i \in DOMAIN job'[Reader] :
                  /\ job'[Reader][i].do = "callback" /\ job'[Reader][i].sub = id
                  /\ job'[Reader][i].version = v
  <1>e. SUFFICES ASSUME NEW k \in Keys, NEW type \in Types,
                      NEW i \in DOMAIN subs'[<<k, type, FALSE>>], Home(k)',
                      ~subs'[<<k, type, FALSE>>][i].immediate,
                      truth'[k] > subs'[<<k, type, FALSE>>][i].since, typeOf'[truth'[k]] = type
               PROVE  \/ Calls1(subs'[<<k, type, FALSE>>][i].id, truth'[k])
                      \/ /\ ~Calling1(subs'[<<k, type, FALSE>>][i].id)
                         /\ seen'[subs'[<<k, type, FALSE>>][i].id] = truth'[k]
    BY DEF CallbackHome, Calls, Calling, Owed
  <1>s. PICK s : s = subs'[<<k, type, FALSE>>][i]
    OBVIOUS
  <1>o. ~s.immediate /\ truth'[k] > s.since /\ typeOf'[truth'[k]] = type
    BY <1>e, <1>s
  <1> SUFFICES Calls1(s.id, truth'[k]) \/ (~Calling1(s.id) /\ seen'[s.id] = truth'[k])
    BY <1>s
  <1> DEFINE x == <<k, type, FALSE>>
  <1>x. x \in Tables /\ x[1] = k /\ x[2] = type /\ x[3] = FALSE
    BY DEF Tables
  <1> HIDE DEF x
  <1>t. s.since \in Nat
    BY <1>d, <1>s, <1>x DEF x
  <1>1. CASE Home(k) /\ truth'[k] = truth[k]
    <2>1. truth[k] \in 1 .. Len(typeOf) /\ Len(typeOf) \in Nat
      <3>1. truth[k] \in Nat /\ truth[k] <= Len(typeOf) /\ Len(typeOf) \in Nat
        BY <1>0, LenProperties DEF VersionsPut
      <3> QED BY <1>1, <1>o, <1>t, <3>1
    <2>2. typeOf[truth[k]] = type
      <3>1. typeOf' = typeOf \/ \A v \in 1 .. Len(typeOf) : typeOf'[v] = typeOf[v]
        <4>1. ASSUME NEW l \in Keys, NEW other \in Types, Put(l, other) \/ Get(l, other)
              PROVE  \A v \in 1 .. Len(typeOf) : typeOf'[v] = typeOf[v]
          BY <1>0, <4>1, PutCalls, PutEffect
        <4>2. CASE Quiet
          BY <4>2 DEF Quiet
        <4>3. ASSUME NEW t \in Threads, StoreStep(t) \/ CallbackStep(t) PROVE typeOf' = typeOf
          BY <4>3 DEF StoreStep, CallbackStep
        <4>4. CASE Stop \/ PublishStep \/ FlushStep \/ WorkerFlush \/ ReplayCopy \/ ReplayMerge \/ Hear
          BY <4>4 DEF Stop, PublishStep, FlushStep, WorkerFlush, ReplayCopy, ReplayMerge, Hear
        <4> QED BY <1>0, <4>1, <4>2, <4>3, <4>4, StepKinds
      <3> QED BY <1>1, <1>o, <2>1, <3>1
    <2>3. PICK a \in DOMAIN subs[x] : s = subs[x][a]
      <3>1. CASE \E a \in DOMAIN subs[x] : subs'[x][i] = subs[x][a]
        BY <1>s, <3>1 DEF x
      <3>2. CASE subs'[x][i].since = Len(typeOf)
        <4>1. truth[k] > Len(typeOf)
          BY <1>1, <1>o, <1>s, <3>2 DEF x
        <4> QED BY <2>1, <4>1
      <3>3. i \in DOMAIN subs'[x]
        BY DEF x
      <3> QED BY <1>0, <1>a, <1>x, <3>1, <3>2, <3>3, TableEntries
    <2>4. AskedForChanges(s.id, k)
      BY <1>o, <2>3 DEF AskedForChanges, x
    <2>5. s.id \in 1 .. MaxSubs
      BY <1>c, <1>x, <2>3
    <2>6. Calls(s.id, truth[k]) \/ (~Calling(s.id) /\ seen[s.id] = truth[k])
      BY <1>1, <1>o, <2>2, <2>3 DEF CallbackHome, Owed, x
    <2>7. CASE job'[Reader] = job[Reader] /\ UNCHANGED seen
      BY <1>1, <2>6, <2>7 DEF Calls, Calling
    <2>8. CASE StoreStep(Reader)
      <3>1. /\ Head(job[Reader]) = job[Reader][1] /\ 1 \in DOMAIN job[Reader]
            /\ \A n \in DOMAIN job'[Reader] : n + 1 \in DOMAIN job[Reader] /\ job'[Reader][n] = job[Reader][n + 1]
            /\ \A n \in DOMAIN job[Reader] :
                  n = 1 \/ (n - 1 \in DOMAIN job'[Reader] /\ job'[Reader][n - 1] = job[Reader][n])
        BY <1>0, <2>8, JobStep
      <3>2. job[Reader][1].do = "store" /\ UNCHANGED seen
        BY <2>8, <3>1 DEF StoreStep, Doing
      <3>3. Calls(s.id, truth[k]) => Calls1(s.id, truth[k])
        BY <3>1, <3>2 DEF Calls
      <3>4. ~Calling(s.id) => ~Calling1(s.id)
        BY <3>1 DEF Calling
      <3> QED BY <1>1, <2>6, <3>2, <3>3, <3>4
    <2>9. ASSUME NEW t \in Threads, CallbackStep(t)
          PROVE  Calls1(s.id, truth'[k]) \/ (~Calling1(s.id) /\ seen'[s.id] = truth'[k])
      <3>1. /\ Head(job[t]) = job[t][1] /\ 1 \in DOMAIN job[t]
            /\ \A u \in Threads : u # t => job'[u] = job[u]
            /\ \A n \in DOMAIN job'[t] : n + 1 \in DOMAIN job[t] /\ job'[t][n] = job[t][n + 1]
            /\ \A n \in DOMAIN job[t] :
                  n = 1 \/ (n - 1 \in DOMAIN job'[t] /\ job'[t][n - 1] = job[t][n])
        BY <1>0, <2>9, JobStep
      <3> DEFINE id0 == job[t][1].sub
                 v0 == job[t][1].version
      <3>2. job[t][1].do = "callback" /\ seen' = [seen EXCEPT ![id0] = v0]
        BY <2>9, <3>1 DEF CallbackStep, Doing
      <3>3. CASE id0 # s.id
        <4>1. seen'[s.id] = seen[s.id]
          <5> HIDE DEF id0, v0
          <5> QED BY <1>0, <2>5, <3>2, <3>3
        <4>2. Calls(s.id, truth[k]) => Calls1(s.id, truth[k])
          <5>1. CASE t = Reader
            BY <3>1, <3>3, <5>1 DEF Calls
          <5>2. CASE t # Reader
            BY <1>0, <3>1, <5>2 DEF Calls
          <5> QED BY <5>1, <5>2
        <4>3. ~Calling(s.id) => ~Calling1(s.id)
          <5>1. CASE t = Reader
            BY <3>1, <5>1 DEF Calling
          <5>2. CASE t # Reader
            BY <1>0, <3>1, <5>2 DEF Calling
          <5> QED BY <5>1, <5>2
        <4> QED BY <1>1, <2>6, <4>1, <4>2, <4>3
      <3>4. CASE id0 = s.id
        <4>1. k = job[t][1].key /\ FALSE = (t = Commander)
          <5>1. subs[x][a].id = job[t][1].sub
            BY <2>3, <3>4
          <5>2. \A z \in Tables : \A m \in DOMAIN subs[z] :
                   subs[z][m].id = job[t][1].sub => z[1] = job[t][1].key /\ z[3] = (t = Commander)
            BY <1>0, <3>1, <3>2 DEF CallbacksKnown
          <5>3. x[1] = job[t][1].key /\ x[3] = (t = Commander)
            BY <1>x, <5>1, <5>2
          <5> QED BY <1>x, <5>3
        <4>2. t # App
          <5> SUFFICES ASSUME t = App PROVE FALSE
            OBVIOUS
          <5>1. AskedForChanges(job[App][1].sub, job[App][1].key)
            BY <2>4, <3>4, <4>1
          <5>2. \E j \in DOMAIN job[App] : job[App][j].do = "publish" /\ job[App][j].key = job[App][1].key
            BY <1>0, <3>1, <3>2, <5>1 DEF AppJob
          <5>3. Publishing(k)
            BY <4>1, <5>2 DEF Publishing
          <5> QED BY <1>1, <5>3 DEF Home, Underway
        <4>3. t = Reader
          BY <4>1, <4>2 DEF Threads
        <4>4. Calling(s.id)
          BY <3>1, <3>2, <3>4, <4>3 DEF Calling
        <4>5. \A n \in DOMAIN job[Reader] : job[Reader][n].version = truth[k]
          BY <1>0, <2>6, <4>4 DEF Calls, ReaderJob
        <4>6. v0 = truth[k]
          BY <3>1, <4>3, <4>5
        <4>7. seen'[s.id] = truth[k]
          <5> HIDE DEF id0, v0
          <5> QED BY <1>0, <2>5, <3>2, <3>4, <4>6
        <4>8. Calling1(s.id) => Calls1(s.id, truth[k])
          BY <3>1, <4>3, <4>5
        <4> QED BY <1>1, <4>7, <4>8
      <3> QED BY <3>3, <3>4
    <2>10. ASSUME NEW t \in Threads, StoreStep(t)
           PROVE  StoreStep(Reader) \/ (job'[Reader] = job[Reader] /\ UNCHANGED seen)
      <3>1. CASE t = Reader
        BY <2>10, <3>1
      <3>2. CASE t # Reader
        <4>1. job'[Reader] = job[Reader]
          BY <1>0, <2>10, <3>2, JobStep
        <4> QED BY <2>10, <4>1 DEF StoreStep
      <3> QED BY <3>1, <3>2
    <2>11. CASE Hear
      <3> DEFINE y == <<ring[1].key, typeOf[ring[1].version], FALSE>>
      <3>1. /\ job[Reader] = <<>> /\ UNCHANGED <<seen, truth>>
            /\ ring[1].key \in Keys /\ typeOf[ring[1].version] \in Types
            /\ \A n \in DOMAIN job'[Reader] : job'[Reader][n].do = "callback" =>
                  \E m \in DOMAIN subs[y] : job'[Reader][n].sub = subs[y][m].id
        BY <1>0, <1>a, <2>11, HearBrings
      <3>2. 1 \in DOMAIN ring
        BY <1>0, <1>a, <2>11, HearEffect
      <3>3. ring[1].key # k
        BY <1>1, <3>2 DEF Home, InRing
      <3>4. y \in Tables /\ y # x
        BY <3>1, <3>3 DEF Tables, x
      <3> HIDE DEF y
      <3>5. \A m \in DOMAIN subs[y] : subs[y][m].id # s.id
        BY <1>0, <1>x, <2>3, <3>4 DEF NumbersUnique
      <3>6. ~Calling1(s.id)
        BY <3>1, <3>5
      <3>7. ~Calls(s.id, truth[k])
        <4>1. DOMAIN <<>> = {}
          OBVIOUS
        <4> QED BY <3>1, <4>1, Zenon DEF Calls
      <3> QED BY <1>1, <2>6, <3>1, <3>6, <3>7
    <2> QED BY <1>0, <1>a, <2>7, <2>8, <2>9, <2>10, <2>11, ReaderSteps
  <1>2. CASE ReplayCopy /\ truth[k] = 0
    <2>1. UNCHANGED truth
      BY <1>2 DEF ReplayCopy
    <2> QED BY <1>2, <1>o, <1>t, <2>1
  <1>3. CASE Hear /\ ring[1].key = k /\ ring[1].version = truth[k]
    <2>1. /\ UNCHANGED <<truth, typeOf, subs>>
          /\ \A n \in DOMAIN job'[Reader] : job'[Reader][n].version = ring[1].version
          /\ \A n \in DOMAIN subs[<<ring[1].key, typeOf[ring[1].version], FALSE>>] :
                \E m \in DOMAIN job'[Reader] :
                   /\ job'[Reader][m].do = "callback"
                   /\ job'[Reader][m].sub = subs[<<ring[1].key, typeOf[ring[1].version], FALSE>>][n].id
      BY <1>0, <1>a, <1>3, HearBrings
    <2>2. typeOf[ring[1].version] = type /\ s = subs[<<k, type, FALSE>>][i]
          /\ i \in DOMAIN subs[<<k, type, FALSE>>]
      BY <1>3, <1>o, <1>s, <2>1
    <2> QED BY <1>3, <2>1, <2>2
  <1> QED BY <1>e, <1>1, <1>2, <1>3, HomeBefore

-----------------------------------------------------------------------------
(* The publisher's numbers behind the client's *)

\* Keys that wait can be counted.
LEMMA WaitingCounts ==
    ASSUME ClientTypeOK
    PROVE  /\ IsFiniteSet(Waiting) /\ Cardinality(Waiting) \in Nat /\ Ahead \in {0, 1}
           /\ pending' = None => Cardinality(Waiting)' = 0
           /\ pending' = pending => Cardinality(Waiting)' = Cardinality(Waiting)
           /\ (\A k : Publishing(k)' <=> Publishing(k)) => Ahead' = Ahead
  <1>1. IsFiniteSet(Waiting)
    <2>1. Waiting \subseteq Keys
      BY DEF Waiting
    <2> QED BY <2>1, KeysFinite, FS_Subset
  <1>2. Cardinality(Waiting) \in Nat
    BY <1>1, FS_CardinalityType
  <1>3. pending' = None => Cardinality(Waiting)' = 0
    <2>1. pending' = None => Waiting' = {}
      BY NoneType DEF Waiting
    <2> QED BY <2>1, FS_EmptySet
  <1>4. pending' = pending => Cardinality(Waiting)' = Cardinality(Waiting)
    BY DEF Waiting
  <1>5. (\A k : Publishing(k)' <=> Publishing(k)) => Ahead' = Ahead
    BY DEF Ahead
  <1>6. Ahead \in {0, 1}
    BY DEF Ahead
  <1> QED BY <1>1, <1>2, <1>3, <1>4, <1>5, <1>6

\* A replay is never forgotten, and until there is one nothing was copied.
LEMMA ReplaysKept ==
    ASSUME ClientTypeOK, Behind, [clientNext]_clientVars, replays' = 0
    PROVE  /\ replays = 0 /\ ~ReplayMerge
           /\ snapshot = None /\ overtaken = {} /\ snapshot' = None /\ overtaken' = {}
  <1> USE DEF lifetime, values, registry, publisher, watch, channels, heard
  <1>0. replays \in Nat
    BY DEF ClientTypeOK
  <1>1. CASE ReplayCopy
    <2>1. replays = 0 /\ kept = None
      BY <1>0, <1>1 DEF ReplayCopy
    <2> QED BY <1>1, <2>1 DEF ReplayCopy, ReplayMerge, Behind
  <1>2. CASE Quiet
    BY <1>2 DEF Quiet, Behind, ReplayMerge
  <1>3. ASSUME NEW k \in Keys, NEW type \in Types, Put(k, type) \/ Get(k, type)
        PROVE  UNCHANGED <<replays, snapshot, overtaken>>
    BY <1>3 DEF Put, Get
  <1>4. ASSUME NEW t \in Threads, StoreStep(t) \/ CallbackStep(t)
        PROVE  UNCHANGED <<replays, snapshot, overtaken>>
    BY <1>4 DEF StoreStep, CallbackStep
  <1>5. FlushStep \/ WorkerFlush \/ Hear => UNCHANGED <<replays, snapshot, overtaken>>
    BY DEF FlushStep, WorkerFlush, Hear
  <1>6. CASE PublishStep
    BY <1>6 DEF PublishStep, Behind, ReplayMerge
  <1>7. CASE Stop
    <2>1. replays = 0 /\ snapshot = None /\ overtaken = {}
      BY <1>7 DEF Stop, Behind
    <2>2. Overtaken = {}
      BY <2>1, NoneType DEF Overtaken
    <2> QED BY <1>7, <2>1, <2>2 DEF Stop, ReplayMerge
  <1>8. CASE ReplayMerge
    BY <1>8 DEF ReplayMerge, Behind
  <1>9. UNCHANGED <<replays, snapshot, overtaken>> \/ ReplayCopy \/ ReplayMerge \/ Stop \/ PublishStep \/ Quiet
    BY <1>3, <1>4, <1>5, StepKinds
  <1> QED BY <1>1, <1>2, <1>6, <1>7, <1>8, <1>9 DEF Behind, ReplayMerge

\* Without a replay no number of the publisher's passes the client's (Put*, FlushNow).
LEMMA BehindStep ==
    ASSUME Structure, RingOrder, Behind, [clientNext]_clientVars
    PROVE  Behind'
  <1> USE DEF lifetime, values, registry, publisher, watch, channels, heard
  <1>0. /\ ClientTypeOK /\ VersionsPut /\ AppJob
        /\ truth \in [Keys -> Nat] /\ pubSeq \in Nat /\ cache \in [Keys -> [version : Nat, seq : Nat]]
        /\ pending \in [Keys -> Nat] /\ Len(typeOf) \in Nat /\ App \in Threads
    BY LenProperties DEF Structure, ClientTypeOK, Threads
  <1>r. ring \in Seq(Messages) /\ \A i \in DOMAIN ring : /\ ring[i] \in Messages /\ ring[i].key \in Keys
           /\ ring[i].version \in Nat /\ ring[i].version # 0 /\ ring[i].seq \in Nat /\ ring[i].seq # 0
           /\ ring[i].version <= truth[ring[i].key] /\ ring[i].seq <= pubSeq
    <2>1. ring \in Seq(Messages)
      BY <1>0 DEF ClientTypeOK
    <2>2. \A i \in DOMAIN ring : ring[i] \in Messages /\ ring[i].key \in Keys
             /\ ring[i].version <= truth[ring[i].key]
      BY <1>0, RingVersions
    <2> QED BY <2>1, <2>2 DEF Messages, RingOrder
  <1> SUFFICES ASSUME replays' = 0 PROVE NumbersBehind'
    BY <1>0, ReplaysKept DEF Behind
  <1>b. NumbersBehind /\ ~ReplayMerge /\ snapshot = None /\ overtaken = {}
    BY <1>0, ReplaysKept DEF Behind
  <1>c. /\ Cardinality(Waiting) \in Nat /\ Ahead \in {0, 1}
        /\ pubSeq + Cardinality(Waiting) + Ahead <= Len(typeOf)
        /\ pending' = None => Cardinality(Waiting)' = 0
        /\ pending' = pending => Cardinality(Waiting)' = Cardinality(Waiting)
        /\ (\A k : Publishing(k)' <=> Publishing(k)) => Ahead' = Ahead
    BY <1>0, <1>b, WaitingCounts DEF NumbersBehind
  <1>d. \A k \in Keys : /\ cache[k].version = truth[k] /\ truth[k] <= cache[k].seq
                        /\ cache[k].seq <= Len(typeOf) /\ cache[k].seq \in Nat
    BY <1>0, <1>b DEF NumbersBehind
  <1>e. \A i \in DOMAIN ring : ring[i].version # truth[ring[i].key] => ring[i].seq < cache[ring[i].key].seq
    BY <1>b DEF NumbersBehind
  \* What the three parts come to when the values stay.
  <1>f. ASSUME UNCHANGED <<cache, truth, typeOf>>,
               pubSeq' + Cardinality(Waiting)' + Ahead' <= Len(typeOf),
               \A i \in DOMAIN ring' : \E k \in Keys : k = ring'[i].key
                  /\ (ring'[i].version # truth[k] => ring'[i].seq < cache[k].seq)
        PROVE  NumbersBehind'
    BY <1>d, <1>f DEF NumbersBehind
  <1>g. UNCHANGED <<cache, truth, ring>> => \A i \in DOMAIN ring' : \E k \in Keys : k = ring'[i].key
           /\ (ring'[i].version # truth[k] => ring'[i].seq < cache[k].seq)
    BY <1>e, <1>r
  <1>1. CASE Quiet
    <2>1. UNCHANGED <<cache, truth, typeOf, ring, pubSeq, pending>>
          /\ \A k : Publishing(k)' <=> Publishing(k)
      BY <1>1 DEF Quiet
    <2> QED BY <1>c, <1>f, <1>g, <2>1
  <1>2. ASSUME NEW l \in Keys, NEW type \in Types, Put(l, type) \/ Get(l, type)
        PROVE  NumbersBehind'
    <2>1. PICK after \in Afters(l) : Putting(l, type, after)
      BY <1>2, PutCalls
    <2>2. /\ localSeq = Len(typeOf) + 1 /\ Len(typeOf') = Len(typeOf) + 1
          /\ truth' = [truth EXCEPT ![l] = localSeq]
          /\ cache' = [cache EXCEPT ![l] = Cached(l, localSeq, localSeq)]
      BY <1>0, <2>1, PutEffect
    <2>3. UNCHANGED <<pubSeq, pending, ring>>
      BY <1>2 DEF Put, Get
    <2>4. (\A k : ~Publishing(k)) /\ Ahead' \in {0, 1}
      BY <1>0, <1>2, PutPublishing DEF Ahead
    <2>5. Ahead = 0
      BY <2>4 DEF Ahead
    <2>6. pubSeq' + Cardinality(Waiting)' + Ahead' <= Len(typeOf')
      <3>1. Cardinality(Waiting)' = Cardinality(Waiting)
        BY <1>c, <2>3
      <3> QED BY <1>0, <1>c, <2>2, <2>3, <2>4, <2>5, <3>1
    <2>7. cache'[l] = [version |-> localSeq, seq |-> localSeq]
      <3>1. localSeq >= cache[l].seq
        BY <1>0, <1>d, <2>2
      <3> QED BY <1>0, <2>2, <3>1 DEF Cached
    <2>8. /\ truth'[l] = localSeq
          /\ \A k \in Keys : k # l => truth'[k] = truth[k] /\ cache'[k] = cache[k]
      BY <1>0, <2>2
    <2>9. ASSUME NEW k \in Keys
          PROVE  /\ cache'[k].version = truth'[k]
                 /\ truth'[k] <= cache'[k].seq /\ cache'[k].seq <= Len(typeOf')
      <3>1. CASE k = l
        BY <1>0, <2>2, <2>7, <2>8, <3>1
      <3>2. CASE k # l
        BY <1>0, <1>d, <2>2, <2>8, <3>2
      <3> QED BY <3>1, <3>2
    <2>10. ASSUME NEW i \in DOMAIN ring, ring[i].version # truth'[ring[i].key]
           PROVE  ring[i].seq < cache'[ring[i].key].seq
      <3>1. CASE ring[i].key = l
        <4>1. ring[i].seq \in Nat /\ ring[i].seq <= pubSeq
          BY <1>r
        <4>2. ring[i].seq < localSeq
          BY <1>0, <1>c, <2>2, <4>1
        <4> QED BY <2>7, <3>1, <4>2
      <3>2. CASE ring[i].key # l
        BY <1>e, <1>r, <2>8, <2>10, <3>2
      <3> QED BY <3>1, <3>2
    <2> QED BY <2>3, <2>6, <2>9, <2>10 DEF NumbersBehind
  <1>3. ASSUME NEW t \in Threads, StoreStep(t) \/ CallbackStep(t) PROVE NumbersBehind'
    <2>1. UNCHANGED <<cache, truth, typeOf, ring, pubSeq, pending>>
      BY <1>3 DEF StoreStep, CallbackStep
    <2>2. \A k : Publishing(k)' <=> Publishing(k)
      BY <1>0, <1>3, JobStep
    <2> QED BY <1>c, <1>f, <1>g, <2>1, <2>2
  <1>4. CASE Stop
    <2>1. UNCHANGED <<cache, truth, typeOf, job>> /\ pending' = None /\ ring' = <<>>
      BY <1>4, <1>b DEF Stop
    <2>2. DOMAIN <<>> = {}
      OBVIOUS
    <2>3. DOMAIN ring' = {}
      BY <2>1, <2>2, Zenon
    <2>4. pubSeq' = pubSeq + Cardinality(Waiting)
      BY <1>0, <1>4, StopCounts
    <2>5. \A k : Publishing(k)' <=> Publishing(k)
      BY <2>1 DEF Publishing
    <2>6. pubSeq' + Cardinality(Waiting)' + Ahead' <= Len(typeOf)
      BY <1>0, <1>c, <2>1, <2>4, <2>5
    <2> QED BY <1>f, <2>1, <2>3, <2>6
  <1>5. CASE PublishStep
    <2> DEFINE k0 == job[App][1].key
    <2>1. k0 \in Keys /\ pending' = [pending EXCEPT ![k0] = truth[k0]]
      BY <1>5, PublishedValue
    <2>2. Publishing(k0) /\ \A k : ~Publishing(k)'
      BY <1>5, PublishEnds
    <2>3. UNCHANGED <<cache, truth, typeOf, ring, pubSeq>>
      BY <1>5 DEF PublishStep
    <2>4. Ahead = 1 /\ Ahead' = 0
      BY <2>1, <2>2 DEF Ahead
    <2>5. Cardinality(Waiting') <= Cardinality(Waiting) + 1 /\ Cardinality(Waiting') \in Nat
      <3> HIDE DEF k0
      <3>1. Waiting' \subseteq Waiting \cup {k0}
        BY <1>0, <2>1 DEF Waiting
      <3>2. IsFiniteSet(Waiting)
        BY <1>0, WaitingCounts
      <3>3. IsFiniteSet(Waiting \cup {k0})
            /\ Cardinality(Waiting \cup {k0}) \in {Cardinality(Waiting), Cardinality(Waiting) + 1}
        BY <3>2, FS_AddElement
      <3>4. IsFiniteSet(Waiting') /\ Cardinality(Waiting') <= Cardinality(Waiting \cup {k0})
        BY <3>1, <3>3, FS_Subset
      <3>5. Cardinality(Waiting') \in Nat
        BY <3>4, FS_CardinalityType
      <3> QED BY <1>c, <3>3, <3>4, <3>5
    <2>6. pubSeq' + Cardinality(Waiting)' + Ahead' <= Len(typeOf)
      BY <1>0, <1>c, <2>3, <2>4, <2>5
    <2> QED BY <1>f, <1>g, <2>3, <2>6
  <1>6. CASE FlushStep \/ WorkerFlush
    <2>1. UNCHANGED <<cache, truth, typeOf>> /\ (Flush \/ UNCHANGED <<ring, pubSeq, pending>>)
      BY <1>6 DEF FlushStep, WorkerFlush
    <2>2. \A k : Publishing(k)' <=> Publishing(k)
      <3>1. CASE FlushStep
        BY <1>0, <3>1, JobStep
      <3>2. CASE WorkerFlush
        BY <3>2 DEF WorkerFlush, Publishing
      <3> QED BY <1>6, <3>1, <3>2
    <2>3. CASE UNCHANGED <<ring, pubSeq, pending>>
      BY <1>c, <1>f, <1>g, <2>1, <2>2, <2>3
    <2>4. CASE Flush
      <3>1. /\ ring' \in Seq(Messages) /\ pubSeq' \in Nat /\ pending' = None
            /\ pubSeq' = pubSeq + Cardinality(Waiting)
            /\ \A i \in DOMAIN ring : i \in DOMAIN ring' /\ ring'[i] = ring[i]
            /\ \A i \in DOMAIN ring' : i \in DOMAIN ring \/
                  /\ \A j \in DOMAIN ring : j < i
                  /\ pubSeq < ring'[i].seq /\ ring'[i].seq <= pubSeq'
                  /\ pending[ring'[i].key] # 0 /\ ring'[i].version = pending[ring'[i].key]
        BY <1>0, <2>4, FlushEntries
      <3>2. \A i \in DOMAIN ring' : ring'[i].key \in Keys /\ ring'[i].seq \in Nat
        <4>1. \A i \in DOMAIN ring' : ring'[i] \in Messages
          BY <3>1, LenProperties, ElementOfSeq
        <4> QED BY <4>1 DEF Messages
      <3>3. ASSUME NEW i \in DOMAIN ring'
            PROVE  \E k \in Keys : k = ring'[i].key
                      /\ (ring'[i].version # truth[k] => ring'[i].seq < cache[k].seq)
        <4>1. CASE i \in DOMAIN ring
          BY <1>e, <1>r, <3>1, <4>1
        <4>2. CASE i \notin DOMAIN ring
          <5>1. PICK k \in Keys : k = ring'[i].key
            BY <3>2
          <5>2. ring'[i].version = pending[k] /\ pending[k] # 0 /\ ring'[i].seq <= pubSeq' /\ ring'[i].seq \in Nat
            BY <3>1, <3>2, <4>2, <5>1
          <5>3. CASE ~Publishing(k)
            <6>1. pending[k] = truth[k]
              BY <1>0, <1>b, <5>2, <5>3 DEF VersionsPut
            <6> QED BY <5>1, <5>2, <6>1
          <5>4. CASE Publishing(k)
            <6>1. truth[k] = Len(typeOf)
              BY <1>0, <5>4 DEF Publishing, AppJob
            <6>2. Ahead = 1
              BY <5>4 DEF Ahead
            <6>3. pubSeq' < cache[k].seq
              BY <1>0, <1>c, <1>d, <3>1, <6>1, <6>2
            <6>4. ring'[i].seq < cache[k].seq
              BY <1>d, <3>1, <5>2, <6>3
            <6> QED BY <5>1, <6>4
          <5> QED BY <5>3, <5>4
        <4> QED BY <4>1, <4>2
      <3>4. pubSeq' + Cardinality(Waiting)' + Ahead' <= Len(typeOf)
        BY <1>0, <1>c, <2>2, <3>1
      <3> QED BY <1>f, <2>1, <3>3, <3>4
    <2> QED BY <2>1, <2>3, <2>4
  <1>7. CASE ReplayCopy
    <2>1. UNCHANGED <<pending, cache, truth, typeOf, ring, pubSeq, job>>
      BY <1>7 DEF ReplayCopy
    <2>2. \A k : Publishing(k)' <=> Publishing(k)
      BY <2>1 DEF Publishing
    <2>3. pubSeq' + Cardinality(Waiting)' + Ahead' <= Len(typeOf)
      BY <1>0, <1>c, <2>1, <2>2
    <2> QED BY <1>f, <1>g, <2>1, <2>3
  <1>8. CASE Hear
    <2> DEFINE u == ring[1]
    <2>1. /\ 1 \in DOMAIN ring /\ ring # <<>> /\ ring' = Tail(ring)
          /\ cache' = [cache EXCEPT ![u.key] = Cached(u.key, u.version, u.seq)]
          /\ job' = [job EXCEPT ![Reader] = HearSteps(u.key, u.version, typeOf[u.version])]
          /\ UNCHANGED <<truth, typeOf, pubSeq, pending>>
      BY <1>0, <1>8, RingVersions, HearEffect
    <2>2. job'[App] = job[App]
      BY <1>0, <2>1 DEF ClientTypeOK, Threads, App, Reader
    <2>3. \A k : Publishing(k)' <=> Publishing(k)
      BY <1>0, <2>2, PublishingKept
    <2>4. \A i \in DOMAIN ring' : i + 1 \in DOMAIN ring /\ ring'[i] = ring[i + 1]
      BY <1>r, <2>1, TailEntries
    <2>5. /\ u.key \in Keys /\ u.seq \in Nat /\ u.seq # 0 /\ u.version # 0 /\ u.version \in Nat
          /\ u.version <= truth[u.key] /\ u.seq <= pubSeq
          /\ u.version # truth[u.key] => u.seq < cache[u.key].seq
      BY <1>e, <1>r, <2>1
    <2>6. pubSeq <= Len(typeOf)
      BY <1>0, <1>c
    <2> HIDE DEF u
    <2>7. ASSUME NEW k \in Keys
          PROVE  /\ cache'[k].version = truth[k] /\ truth[k] <= cache'[k].seq
                 /\ cache'[k].seq <= Len(typeOf) /\ cache[k].seq <= cache'[k].seq /\ cache'[k].seq \in Nat
      <3>1. CASE cache'[k] = cache[k]
        BY <1>d, <3>1
      <3>2. CASE k = u.key /\ u.seq >= cache[k].seq /\ cache'[k] = [version |-> u.version, seq |-> u.seq]
        <4>1. u.version = truth[k]
          BY <1>d, <2>5, <3>2
        <4> QED BY <1>0, <1>d, <2>5, <2>6, <3>2, <4>1
      <3>3. CASE k = u.key
        <4>1. cache[k].version # 0
          BY <1>0, <1>d, <2>5, <3>3
        <4>2. cache'[k] = Cached(k, u.version, u.seq)
          BY <1>0, <2>1, <3>3
        <4> QED BY <2>5, <3>1, <3>2, <3>3, <4>1, <4>2 DEF Cached
      <3>4. CASE k # u.key
        BY <1>0, <2>1, <2>5, <3>1, <3>4
      <3> QED BY <3>3, <3>4
    <2>8. ASSUME NEW i \in DOMAIN ring, ring[i].version # truth[ring[i].key]
          PROVE  ring[i].seq < cache'[ring[i].key].seq
      <3>1. PICK k \in Keys : k = ring[i].key
        BY <1>r
      <3>2. ring[i].seq < cache[k].seq /\ ring[i].seq \in Nat
        BY <1>e, <1>r, <2>8, <3>1
      <3>3. ring[i].seq < cache'[k].seq
        BY <1>d, <2>7, <3>2
      <3> QED BY <3>1, <3>3
    <2>9. \A i \in DOMAIN ring' : ring'[i].version # truth'[ring'[i].key] => ring'[i].seq < cache'[ring'[i].key].seq
      BY <2>1, <2>4, <2>8
    <2>10. pubSeq' + Cardinality(Waiting)' + Ahead' <= Len(typeOf')
      BY <1>c, <2>1, <2>3
    <2>11. \A k \in Keys : /\ cache'[k].version = truth'[k]
                           /\ truth'[k] <= cache'[k].seq /\ cache'[k].seq <= Len(typeOf')
      BY <2>1, <2>7
    <2> QED BY <2>9, <2>10, <2>11 DEF NumbersBehind
  <1> QED BY <1>0, <1>1, <1>2, <1>3, <1>4, <1>5, <1>6, <1>7, <1>8, <1>b, StepKinds

-----------------------------------------------------------------------------
(* The theorems *)

ClientInv == Structure /\ Numbers /\ Orders /\ AtHome /\ Behind

\* A client that was not started holds nothing.
LEMMA ClientInvInit == clientInit => ClientInv
  <1> SUFFICES ASSUME clientInit PROVE ClientInv
    OBVIOUS
  <1>1. DOMAIN <<>> = {} /\ Len(<<>>) = 0 /\ \A S : <<>> \in Seq(S)
    <2>1. DOMAIN <<>> = {} /\ Len(<<>>) = 0
      OBVIOUS
    <2>2. \A S : <<>> \in Seq(S)
      OBVIOUS
    <2> QED BY <2>1, <2>2
  <1>2. None \in [Keys -> Nat] /\ \A k \in Keys : None[k] = 0
    BY NoneType
  <1>3. /\ ring = <<>> /\ commands = <<>> /\ typeOf = <<>> /\ running = FALSE /\ storeOpen = FALSE
        /\ observed = TRUE /\ localSeq = 1 /\ pubSeq = 0 /\ nextId = 1 /\ replays = 0 /\ sent = 0
        /\ truth = None /\ store = None /\ kept = None /\ pending = None
        /\ snapshot = None /\ overtaken = {}
        /\ \A t \in Threads : job[t] = <<>>
        /\ \A k \in Keys : cache[k].version = 0 /\ cache[k].seq = 0
        /\ \A x \in Tables : subs[x] = <<>>
    BY DEF clientInit, Tables
  <1>4. DOMAIN ring = {} /\ (\A t \in Threads : DOMAIN job[t] = {}) /\ \A x \in Tables : DOMAIN subs[x] = {}
    BY <1>1, <1>3, Zenon
  <1>5. App \in Threads /\ Reader \in Threads /\ Commander \in Threads
    BY DEF Threads
  <1>6. ClientTypeOK
    <2>1. cache \in [Keys -> [version : Nat, seq : Nat]]
      BY DEF clientInit
    <2>2. subs \in [Keys \X Types \X BOOLEAN -> Seq(Subscriptions)]
      BY <1>1 DEF clientInit
    <2>3. job \in [Threads -> Seq(Steps)]
      BY <1>1 DEF clientInit
    <2>4. seen \in [1 .. MaxSubs -> Int]
      BY DEF clientInit
    <2>5. typeOf \in Seq(Types) /\ Len(typeOf) = 0 /\ ring \in Seq(Messages) /\ commands \in Seq(Commands)
      BY <1>1, <1>3
    <2>6. running \in BOOLEAN /\ storeOpen = running /\ observed \in BOOLEAN
      BY <1>3
    <2>7. localSeq = Len(typeOf) + 1 /\ pubSeq \in Nat /\ nextId \in Nat \ {0} /\ replays \in Nat /\ sent \in Nat
      BY <1>3, <2>5
    <2>8. truth \in [Keys -> Nat] /\ store \in [Keys -> Nat] /\ kept \in [Keys -> Nat] /\ pending \in [Keys -> Nat]
      BY <1>2, <1>3
    <2>9. snapshot \in [Keys -> Nat] /\ overtaken \subseteq Keys
      BY <1>2, <1>3
    <2> QED BY <2>1, <2>2, <2>3, <2>4, <2>5, <2>6, <2>7, <2>8, <2>9 DEF ClientTypeOK
  <1>7. \A k : ~Publishing(k)
    BY <1>4, <1>5 DEF Publishing
  <1>8. VersionsPut
    BY <1>1, <1>2, <1>3 DEF VersionsPut
  <1>9. Structure
    BY <1>4, <1>5, <1>6, <1>8 DEF Structure, AppJob, ReaderJob, CommanderJob
  <1>10. Numbers
    BY <1>4 DEF Numbers, NumbersUnique, CallbacksKnown
  <1>11. Orders
    <2>1. \A k \in Keys : Heard(k)
      BY <1>3, <1>4 DEF Heard
    <2> QED BY <1>4, <2>1 DEF Orders, RingOrder, LastInRing, CacheOrder
  <1>12. AtHome
    <2>1. \A k : ~Home(k)
      BY <1>3 DEF Home, Underway
    <2> QED BY <2>1 DEF AtHome, CacheHome, StoreHome, CallbackHome
  <1>13. Behind
    <2>1. Waiting = {} /\ Ahead = 0
      BY <1>2, <1>3, <1>7 DEF Waiting, Ahead
    <2>2. Cardinality(Waiting) = 0
      BY <2>1, FS_EmptySet
    <2>3. Len(typeOf) = 0
      BY <1>1, <1>3
    <2>4. pubSeq + Cardinality(Waiting) + Ahead <= Len(typeOf)
      BY <1>3, <2>1, <2>2, <2>3
    <2>5. \A k \in Keys : /\ cache[k].version = truth[k]
                          /\ truth[k] <= cache[k].seq /\ cache[k].seq <= Len(typeOf)
      BY <1>2, <1>3, <2>3
    <2> QED BY <1>3, <1>4, <2>4, <2>5 DEF Behind, NumbersBehind
  <1> QED BY <1>9, <1>10, <1>11, <1>12, <1>13 DEF ClientInv

\* The invariant is inductive.
LEMMA ClientInvStep == ClientInv /\ [clientNext]_clientVars => ClientInv'
  <1> SUFFICES ASSUME ClientInv, [clientNext]_clientVars PROVE ClientInv'
    OBVIOUS
  <1>1. /\ Structure /\ Numbers /\ NumbersUnique /\ CallbacksKnown
        /\ RingOrder /\ CacheOrder /\ LastInRing
        /\ CacheHome /\ StoreHome /\ CallbackHome /\ Behind
    BY DEF ClientInv, Numbers, Orders, AtHome
  <1>2. Structure'
    BY <1>1, TypeStep, VersionsPutStep, AppJobStep, ReaderJobStep, CommanderJobStep DEF Structure
  <1>3. Numbers'
    BY <1>1, NumbersUniqueStep, CallbacksKnownStep DEF Numbers
  <1>4. Orders'
    BY <1>1, RingOrderStep, CacheOrderStep, LastInRingStep DEF Orders
  <1>5. AtHome'
    BY <1>1, CacheHomeStep, StoreHomeStep, CallbackHomeStep DEF AtHome
  <1>6. Behind'
    BY <1>1, BehindStep
  <1> QED BY <1>2, <1>3, <1>4, <1>5, <1>6 DEF ClientInv

\* Once everything has come back every value is home and nobody is on the way to the store.
LEMMA SettledIsHome ==
    ASSUME ClientInv, Settled, NEW k \in Keys \ overtaken
    PROVE  /\ Home(k) /\ cache[k].version = truth[k] /\ store[k] = truth[k]
           /\ \A id, v : ~Calls(id, v)
  <1>1. DOMAIN <<>> = {}
    OBVIOUS
  <1>2. running /\ observed /\ pending = None /\ snapshot = None /\ ring = <<>> /\ job[App] = <<>> /\ job[Reader] = <<>>
    BY DEF Settled, Idle, Threads
  <1>3. DOMAIN ring = {} /\ DOMAIN job[App] = {} /\ DOMAIN job[Reader] = {}
    BY <1>1, <1>2, Zenon
  <1>4. Home(k)
    BY <1>2, <1>3, NoneType DEF Home, Underway, InRing, Publishing
  <1>5. ~Brings("store", k) /\ \A id, v : ~Calls(id, v)
    BY <1>3 DEF Brings, Calls
  <1> QED BY <1>4, <1>5 DEF ClientInv, AtHome, CacheHome, StoreHome

\* Cache and store hold the last Put* of every key when every value put has come back,
\* whichever thread wrote last and whatever the two sequence counters were
\* (HandleUpdate, Put*, FlushNow, the subscriber's callback).
THEOREM CacheAndStoreConverge == ClientSpec => []CacheConverges
  <1>1. ClientInv => CacheConverges
    BY SettledIsHome DEF CacheConverges
  <1> QED BY <1>1, ClientInvInit, ClientInvStep, PTL DEF ClientSpec

\* As long as no replay pushed the publisher's counter past the client's, TryGet* gives the
\* application its own last Put*, whatever echoes of older values are still to come
\* (HandleUpdate's last-write-wins by sequence number).
THEOREM OwnWritesAreRead == ClientSpec => []ReadsOwnWrites
  <1>1. ClientInv => ReadsOwnWrites
    <2> SUFFICES ASSUME ClientInv, replays = 0, NEW k \in Keys, truth[k] # 0
                 PROVE  TryGet(k, typeOf[truth[k]]) = truth[k]
      BY DEF ReadsOwnWrites
    <2>1. cache[k].version = truth[k]
      BY DEF ClientInv, Behind, NumbersBehind
    <2> QED BY <2>1 DEF TryGet, TryReadCached, OfType
  <1> QED BY <1>1, ClientInvInit, ClientInvStep, PTL DEF ClientSpec

\* A subscription to changes that was there at the last Put* of its key was last called with
\* that value, although the application and the subscriber both call it outside the mutex
\* (HandleUpdate's copied callbacks, Subscribe*, Unsubscribe).
THEOREM SubscribersSeeTheLast == ClientSpec => []CallbacksConverge
  <1>1. ClientInv => CallbacksConverge
    <2> SUFFICES ASSUME ClientInv, Settled, NEW k \in Keys \ overtaken, NEW type \in Types,
                        NEW i \in DOMAIN subs[<<k, type, FALSE>>],
                        ~subs[<<k, type, FALSE>>][i].immediate,
                        truth[k] > subs[<<k, type, FALSE>>][i].since, typeOf[truth[k]] = type
                 PROVE  seen[subs[<<k, type, FALSE>>][i].id] = truth[k]
      BY DEF CallbacksConverge
    <2>1. Home(k) /\ \A id, v : ~Calls(id, v)
      BY SettledIsHome
    <2>2. CallbackHome
      BY DEF ClientInv, AtHome
    <2> QED BY <2>1, <2>2 DEF CallbackHome, Owed
  <1> QED BY <1>1, ClientInvInit, ClientInvStep, PTL DEF ClientSpec

\* The library's state keeps its types; in particular the client's counter is always one past
\* the Put* calls and the store is open exactly while the client runs (Start, Stop, Put*).
THEOREM ClientTypes == ClientSpec => []ClientTypeOK
  <1>1. ClientInv => ClientTypeOK
    BY DEF ClientInv, Structure
  <1> QED BY <1>1, ClientInvInit, ClientInvStep, PTL DEF ClientSpec

-----------------------------------------------------------------------------
(* The retained store *)

\* The keys as entries hold them; what an entry and a line can be.
Names == StoreKeys \cup {Cut[k] : k \in StoreKeys} \cup {NoKey}
Entries == [key : Names, version : Nat, seq : Nat]
FileLines == [key : Names, version : Nat \cup {-1}, seq : Nat]

Used == {i \in Slots : Occupied(i)}
Good(lines) == {i \in DOMAIN lines : Readable(lines[i])}
PutKeys == {k \in StoreKeys : written[k] # 0}

\* The key and the slot of a Put that is about to fill its entry.
FillsKey(k) == \E p \in Procs : pc[p] = "fill" /\ putting[1] = k
Fills(i) == \E p \in Procs : pc[p] = "fill" /\ putting[3] = i

\* The keys that two entries never share: all, until an entry was spent on something else.
Known == IF cramped THEN Plain ELSE StoreKeys
Distinct(f, S, K) == \A i, j \in S : f[i].key = f[j].key /\ f[i].key \in K => i = j

\* Of these entries, all of key k have this version, and there is one if there was a Put.
Says(f, S, k, v) ==
    /\ \A i \in S : f[i].key = k => f[i].version = v
    /\ v # 0 => \E i \in S : f[i].key = k

StoreTypes ==
    /\ pc \in [Procs -> {"closed", "mapped", "open", "fill", "truncate", "write"}]
    /\ entries \in [Slots -> Entries]
    /\ file \in Seq(FileLines) /\ Len(file) <= MaxEntries
    /\ nextSeq \in [Procs -> Nat \ {0}] /\ puts \in Nat /\ written \in [StoreKeys -> Nat]
    /\ stale \in BOOLEAN /\ evicted \in BOOLEAN /\ cramped \in BOOLEAN

\* One process at a time holds the mutex; what it has done so far.
InPut ==
    /\ \A p \in Procs, q \in Procs : Holds(p) /\ Holds(q) => p = q
    /\ \A p \in Procs : Holds(p) => Used # {}
    /\ \A p \in Procs : pc[p] = "write" => stale
    /\ \A p \in Procs : pc[p] = "fill" =>
          /\ putting[1] \in StoreKeys /\ putting[2] \in Nat \ {0} /\ putting[3] \in Slots
          /\ Occupied(putting[3]) /\ entries[putting[3]].key = NoKey
          /\ putting[1] \in Known => \A i \in Slots : entries[i].key # putting[1]

\* The region is gone with its last process.
Unheld == (\A p \in Procs : pc[p] = "closed") => Used = {}

Unique == Distinct(entries, Slots, Known) /\ Distinct(file, Good(file), Known)

\* Where the last values are: in the table once somebody filled it, if only with a file
\* that has none, and in the file once it was written, unless a crash or a Put that
\* could not write took them.
Opened == \E p \in Procs : pc[p] \notin {"closed", "mapped"}
TableSays == Used # {} \/ Opened => \A k \in Plain \ lost : Says(entries, Slots, k, written[k])
FileSays ==
    /\ ~stale /\ (\A p \in Procs : pc[p] \notin {"fill", "truncate"}) =>
          \A k \in Plain \ lost : Says(file, Good(file), k, written[k])
    /\ stale /\ Used = {} => Plain \subseteq lost

\* As long as entries hold whole keys, those were put, and an eviction had a cause.
Room ==
    ~cramped =>
        /\ \A i \in Used : entries[i].key \in PutKeys \/ Fills(i)
        /\ \A i \in Good(file) : file[i].key \in PutKeys
        /\ evicted => Cardinality({k \in StoreKeys : k \in PutKeys \/ FillsKey(k)}) > MaxEntries

StoreInv == StoreTypes /\ InPut /\ Unheld /\ Unique /\ TableSays /\ FileSays /\ Room

-----------------------------------------------------------------------------
(* Sets of numbers *)

-----------------------------------------------------------------------------
(* The table and the file *)

LEMMA SlotsAre == /\ Slots \subseteq Nat /\ IsFiniteSet(Slots) /\ Cardinality(Slots) = MaxEntries
                  /\ MaxEntries \in Nat \ {0} /\ Slots = 1 .. MaxEntries /\ 1 \in Slots
  <1>1. MaxEntries \in Nat \ {0}
    BY StoreAssumption
  <1>2. IsFiniteSet(1 .. MaxEntries) /\ Cardinality(1 .. MaxEntries) = MaxEntries
    BY <1>1, FS_Interval
  <1> QED BY <1>1, <1>2 DEF Slots

\* Nothing is doubled, and nothing changes its version.
LEMMA CollectedDistinct ==
    ASSUME NEW S, IsFiniteSet(S), S \subseteq Nat, NEW f, NEW c, c = Collected(f, S),
           NEW K, Distinct(f, S, K)
    PROVE  Distinct(c, DOMAIN c, K)
  <1>0. c = [j \in 1 .. Cardinality(S) |-> f[Nth(S, j)]]
    BY DEF Collected
  <1>1. /\ \A j \in 1 .. Cardinality(S) : Nth(S, j) \in S
        /\ \A j, m \in 1 .. Cardinality(S) : Nth(S, j) = Nth(S, m) => j = m
    BY Numbering
  <1> SUFFICES ASSUME NEW j \in DOMAIN c, NEW m \in DOMAIN c, c[j].key = c[m].key, c[j].key \in K PROVE j = m
    BY DEF Distinct
  <1>2. /\ j \in 1 .. Cardinality(S) /\ m \in 1 .. Cardinality(S)
        /\ c[j] = f[Nth(S, j)] /\ c[m] = f[Nth(S, m)]
    BY <1>0
  <1>3. Nth(S, j) \in S /\ Nth(S, m) \in S
    BY <1>1, <1>2
  <1>4. f[Nth(S, j)].key = f[Nth(S, m)].key /\ f[Nth(S, j)].key \in K
    BY <1>2
  <1>5. Nth(S, j) = Nth(S, m)
    BY <1>3, <1>4 DEF Distinct
  <1> QED BY <1>1, <1>2, <1>5

LEMMA CollectedSays ==
    ASSUME NEW S, IsFiniteSet(S), S \subseteq Nat, NEW f, NEW c, c = Collected(f, S),
           NEW k, NEW v, Says(f, S, k, v)
    PROVE  Says(c, DOMAIN c, k, v)
  <1>0. IsFiniteSet(S) /\ S \subseteq Nat /\ c = Collected(f, S)
    OBVIOUS
  <1>1. /\ Cardinality(S) \in Nat /\ DOMAIN c = 1 .. Cardinality(S)
        /\ \A j \in DOMAIN c : Nth(S, j) \in S /\ c[j] = f[Nth(S, j)]
        /\ \A i \in S : \E j \in DOMAIN c : c[j] = f[i]
        /\ \A j, m \in DOMAIN c : Nth(S, j) = Nth(S, m) => j = m
    BY <1>0, CollectedFrom
  <1>2. ASSUME NEW j \in DOMAIN c, c[j].key = k PROVE c[j].version = v
    <2>1. Nth(S, j) \in S /\ c[j] = f[Nth(S, j)]
      BY <1>1
    <2>2. f[Nth(S, j)].key = k
      BY <1>2, <2>1
    <2> QED BY <2>1, <2>2 DEF Says
  <1>3. ASSUME v # 0 PROVE \E j \in DOMAIN c : c[j].key = k
    <2>1. PICK i \in S : f[i].key = k
      BY <1>3 DEF Says
    <2> QED BY <1>1, <2>1
  <1> QED BY <1>2, <1>3 DEF Says

LEMMA GoodLines ==
    ASSUME NEW lines \in Seq(FileLines), Len(lines) <= MaxEntries
    PROVE  /\ Good(lines) \subseteq Nat /\ IsFiniteSet(Good(lines)) /\ Good(lines) \subseteq DOMAIN lines
           /\ Cardinality(Good(lines)) \in Nat /\ Cardinality(Good(lines)) <= MaxEntries
           /\ \A i \in Good(lines) : lines[i] \in Entries
  <1>1. Len(lines) \in Nat /\ DOMAIN lines = 1 .. Len(lines) /\ \A i \in 1 .. Len(lines) : lines[i] \in FileLines
    BY LenProperties, ElementOfSeq
  <1>2. IsFiniteSet(1 .. Len(lines)) /\ Cardinality(1 .. Len(lines)) = Len(lines)
    <2> DEFINE n == Len(lines)
    <2>1. n \in Nat
      BY <1>1
    <2> HIDE DEF n
    <2>2. IsFiniteSet(1 .. n) /\ Cardinality(1 .. n) = n
      BY <2>1, FS_Interval
    <2> QED BY <2>2 DEF n
  <1>3. Good(lines) \in SUBSET (1 .. Len(lines))
    BY <1>1 DEF Good
  <1>4. IsFiniteSet(Good(lines)) /\ Cardinality(Good(lines)) <= Len(lines)
    BY <1>2, <1>3, FS_Subset
  <1>5. Cardinality(Good(lines)) \in Nat
    BY <1>4, FS_CardinalityType
  <1>6. \A i \in Good(lines) : lines[i] \in Entries
    BY <1>1, <1>3 DEF Good, Readable, FileLines, Entries
  <1>7. Cardinality(Good(lines)) <= MaxEntries
    BY <1>1, <1>4, <1>5, SlotsAre
  <1> QED BY <1>1, <1>3, <1>4, <1>5, <1>6, <1>7

\* The table that is loaded holds the readable lines, and nothing else.
LEMMA Loaded ==
    ASSUME NEW lines \in Seq(FileLines), Len(lines) <= MaxEntries, NEW T, T = LoadLocked(lines)
    PROVE  /\ T \in [Slots -> Entries]
           /\ \A i \in Slots : T[i] = Empty \/ \E g \in Good(lines) : T[i] = lines[g]
           /\ \A K : Distinct(lines, Good(lines), K) /\ NoKey \notin K => Distinct(T, Slots, K)
           /\ \A k, v : Says(lines, Good(lines), k, v) /\ k # NoKey => Says(T, Slots, k, v)
  <1> DEFINE G == Good(lines)
             c == Collected(lines, G)
  <1>1. G \subseteq Nat /\ IsFiniteSet(G) /\ Cardinality(G) \in Nat /\ Cardinality(G) <= MaxEntries
    BY GoodLines
  <1>2. \A i \in G : lines[i] \in Entries
    BY GoodLines
  <1>3. T = [i \in Slots |-> IF i \in DOMAIN c THEN c[i] ELSE Empty]
    BY DEF LoadLocked, Good
  <1>4. Empty \in Entries /\ Empty.key = NoKey
    BY DEF Empty, Entries, Names
  <1> HIDE DEF c, G
  <1>5. c = Collected(lines, G)
    BY DEF c
  <1>6. DOMAIN c = 1 .. Cardinality(G) /\ \A j \in DOMAIN c : \E g \in G : c[j] = lines[g]
    <2>1. DOMAIN c = 1 .. Cardinality(G) /\ \A j \in DOMAIN c : c[j] = lines[Nth(G, j)]
      BY <1>5 DEF Collected
    <2>2. \A j \in 1 .. Cardinality(G) : Nth(G, j) \in G
      BY <1>1, Numbering
    <2> QED BY <2>1, <2>2
  <1>7. DOMAIN c \subseteq Slots
    BY <1>1, <1>6, SlotsAre
  <1>8. /\ DOMAIN T = Slots /\ \A i \in DOMAIN c : T[i] = c[i]
        /\ \A i \in Slots : i \notin DOMAIN c => T[i] = Empty
    BY <1>3, <1>7
  <1>9. \A i \in Slots : T[i] = Empty \/ \E g \in G : T[i] = lines[g]
    BY <1>6, <1>8
  <1>10. T \in [Slots -> Entries]
    <2>1. \A i \in Slots : T[i] \in Entries
      BY <1>2, <1>4, <1>9
    <2> QED BY <1>3, <2>1
  <1>11. ASSUME NEW K, Distinct(lines, G, K), NoKey \notin K PROVE Distinct(T, Slots, K)
    <2>1. Distinct(c, DOMAIN c, K)
      BY <1>1, <1>5, <1>11, CollectedDistinct
    <2> SUFFICES ASSUME NEW i \in Slots, NEW j \in Slots, T[i].key = T[j].key, T[i].key \in K PROVE i = j
      BY DEF Distinct
    <2>2. i \in DOMAIN c /\ j \in DOMAIN c
      BY <1>4, <1>8, <1>11
    <2>3. c[i].key = c[j].key /\ c[i].key \in K
      BY <1>8, <2>2
    <2> QED BY <2>1, <2>2, <2>3 DEF Distinct
  <1>12. ASSUME NEW k, NEW v, Says(lines, G, k, v), k # NoKey PROVE Says(T, Slots, k, v)
    <2>1. Says(c, DOMAIN c, k, v)
      BY <1>1, <1>5, <1>12, CollectedSays
    <2>2. ASSUME NEW i \in Slots, T[i].key = k PROVE T[i].version = v
      <3>1. i \in DOMAIN c
        BY <1>4, <1>8, <1>12, <2>2
      <3> QED BY <1>8, <2>1, <2>2, <3>1 DEF Says
    <2>3. ASSUME v # 0 PROVE \E i \in Slots : T[i].key = k
      <3>1. PICK j \in DOMAIN c : c[j].key = k
        BY <2>1, <2>3 DEF Says
      <3> QED BY <1>7, <1>8, <3>1
    <2> QED BY <2>2, <2>3 DEF Says
  <1> QED BY <1>9, <1>10, <1>11, <1>12 DEF G

\* The lines that are written hold the table's entries, and nothing else.
LEMMA Written ==
    ASSUME entries \in [Slots -> Entries], NEW lines, lines = Lines
    PROVE  /\ lines \in Seq(Entries) /\ lines \in Seq(FileLines) /\ Len(lines) <= MaxEntries
           /\ \A j \in DOMAIN lines : \E i \in Used : lines[j] = entries[i]
           /\ \A K : Distinct(entries, Slots, K) => Distinct(lines, DOMAIN lines, K)
           /\ \A k \in Plain : \A v : Says(entries, Slots, k, v) => Says(lines, Good(lines), k, v)
  <1>1. lines = Collected(entries, Used)
    BY DEF Lines, Used
  <1>2. Used \in SUBSET Slots
    BY DEF Used
  <1>3. Used \subseteq Nat /\ IsFiniteSet(Used) /\ Cardinality(Used) <= MaxEntries
    BY <1>2, SlotsAre, FS_Subset
  <1>4. \A i \in Used : entries[i] \in Entries
    BY <1>2
  <1>5. lines \in Seq(Entries) /\ Len(lines) = Cardinality(Used)
    BY <1>1, <1>3, <1>4, CollectedSeq
  <1>6. lines \in Seq(FileLines) /\ \A j \in DOMAIN lines : lines[j] \in Entries
    <2>1. Len(lines) \in Nat /\ DOMAIN lines = 1 .. Len(lines) /\ \A j \in 1 .. Len(lines) : lines[j] \in Entries
      BY <1>5, LenProperties, ElementOfSeq
    <2>2. \A e \in Entries : e \in FileLines
      BY DEF Entries, FileLines
    <2>3. \A j \in DOMAIN lines : lines[j] \in FileLines
      BY <2>1, <2>2
    <2>4. lines = [j \in DOMAIN lines |-> lines[j]]
      BY <1>1 DEF Collected
    <2>5. lines \in [1 .. Len(lines) -> FileLines]
      BY <2>1, <2>3, <2>4
    <2>6. lines \in Seq(FileLines)
      BY <2>1, <2>5, SeqDef
    <2> QED BY <2>1, <2>6
  <1>7. \A j \in DOMAIN lines : \E i \in Used : lines[j] = entries[i]
    <2>1. DOMAIN lines = 1 .. Cardinality(Used) /\ \A j \in DOMAIN lines : lines[j] = entries[Nth(Used, j)]
      BY <1>1 DEF Collected
    <2>2. \A j \in 1 .. Cardinality(Used) : Nth(Used, j) \in Used
      BY <1>3, Numbering
    <2> QED BY <2>1, <2>2
  <1>8. ASSUME NEW K, Distinct(entries, Slots, K) PROVE Distinct(lines, DOMAIN lines, K)
    <2>1. Distinct(entries, Used, K)
      BY <1>2, <1>8 DEF Distinct
    <2> QED BY <1>1, <1>3, <2>1, CollectedDistinct
  <1>9. ASSUME NEW k \in Plain, NEW v, Says(entries, Slots, k, v) PROVE Says(lines, Good(lines), k, v)
    <2>1. k # NoKey /\ k \notin Fragile
      BY StoreAssumption DEF Plain
    <2>2. \A i \in Slots : entries[i].key = k => i \in Used
      BY <2>1 DEF Used, Occupied, Empty
    <2>3. Says(entries, Used, k, v)
      BY <1>2, <1>9, <2>2 DEF Says
    <2>4. Says(lines, DOMAIN lines, k, v)
      BY <1>1, <1>3, <2>3, CollectedSays
    <2>5. \A j \in DOMAIN lines : lines[j].key = k => j \in Good(lines)
      <3> SUFFICES ASSUME NEW j \in DOMAIN lines, lines[j].key = k PROVE j \in Good(lines)
        OBVIOUS
      <3>1. lines[j].version \in Nat
        BY <1>6 DEF Entries
      <3>2. lines[j].version # -1
        BY <3>1
      <3> QED BY <2>1, <3>2 DEF Good, Readable
    <2>6. Good(lines) \subseteq DOMAIN lines
      BY DEF Good
    <2> QED BY <2>4, <2>5, <2>6 DEF Says
  <1>10. Len(lines) <= MaxEntries
    BY <1>3, <1>5
  <1> QED BY <1>5, <1>6, <1>7, <1>8, <1>9, <1>10

\* Of the lines a crash leaves, the readable ones are the first ones.
LEMMA PartLeft ==
    ASSUME NEW lines \in Seq(FileLines), Len(lines) <= MaxEntries, NEW part \in PartOf(lines)
    PROVE  /\ part \in Seq(FileLines) /\ Len(part) <= MaxEntries
           /\ \A j \in Good(part) : j \in DOMAIN lines /\ part[j] = lines[j]
  <1>1. Len(lines) \in Nat /\ DOMAIN lines = 1 .. Len(lines) /\ MaxEntries \in Nat
    BY LenProperties, SlotsAre
  <1>2. CASE part \in {SubSeq(lines, 1, n) : n \in 0 .. Len(lines)}
    <2>1. PICK n \in 0 .. Len(lines) : part = SubSeq(lines, 1, n)
      BY <1>2
    <2>2. /\ part \in Seq(FileLines) /\ Len(part) = n /\ DOMAIN part = 1 .. n
          /\ \A j \in 1 .. n : part[j] = lines[j]
      BY <1>1, <2>1
    <2>3. Len(part) <= MaxEntries
      BY <1>1, <2>2
    <2>4. \A j \in DOMAIN part : j \in DOMAIN lines
      BY <1>1, <2>2
    <2> QED BY <2>2, <2>3, <2>4 DEF Good
  <1>3. CASE part \in {SubSeq(lines, 1, n - 1) \o <<[lines[n] EXCEPT !.version = -1]>> : n \in 1 .. Len(lines)}
    <2>1. PICK n \in 1 .. Len(lines) : part = SubSeq(lines, 1, n - 1) \o <<[lines[n] EXCEPT !.version = -1]>>
      BY <1>3
    <2> DEFINE cut == [lines[n] EXCEPT !.version = -1]
               s == SubSeq(lines, 1, n - 1)
    <2>2. cut \in FileLines /\ cut.version = -1
      <3>1. lines[n] \in FileLines
        BY <1>1, ElementOfSeq
      <3> QED BY <3>1 DEF FileLines
    <2>3. /\ s \in Seq(FileLines) /\ Len(s) = n - 1 /\ DOMAIN s = 1 .. n - 1
          /\ \A j \in 1 .. n - 1 : s[j] = lines[j]
      BY <1>1
    <2> HIDE DEF cut, s
    <2>4. part = Append(s, cut)
      <3>1. part = s \o <<cut>>
        BY <2>1 DEF cut, s
      <3>2. s \in Seq(FileLines) /\ cut \in FileLines
        BY <2>2, <2>3
      <3> QED BY <3>1, <3>2, AppendIsConcat
    <2>5. /\ part \in Seq(FileLines) /\ Len(part) = n /\ DOMAIN part = 1 .. n
          /\ part[n] = cut /\ \A j \in 1 .. n - 1 : part[j] = s[j]
      BY <2>2, <2>3, <2>4, AppendProperties, LenProperties
    <2>6. Len(part) <= MaxEntries
      BY <1>1, <2>5
    <2>7. n \notin Good(part)
      BY <2>2, <2>5 DEF Good, Readable
    <2>8. \A j \in Good(part) : j \in 1 .. n - 1
      BY <2>5, <2>7 DEF Good
    <2> QED BY <1>1, <2>3, <2>5, <2>6, <2>8
  <1> QED BY <1>2, <1>3 DEF PartOf

\* TryGet finds the version that all entries of the key have.
LEMMA LookupFinds ==
    ASSUME NEW T, NEW k, NEW v, Says(T, Slots, k, v)
    PROVE  Lookup(T, k) = v
  <1> DEFINE S == {i \in Slots : T[i].key = k}
  <1>1. CASE S = {}
    <2>1. v = 0
      BY <1>1 DEF Says
    <2> QED BY <1>1, <2>1 DEF Lookup
  <1>2. CASE S # {}
    <2>1. S \subseteq Nat
      BY SlotsAre
    <2>2. PICK i \in S : \A j \in S : i <= j
      BY <1>2, <2>1, LeastNumber
    <2>3. \A j \in 1 .. i - 1 : T[j].key # k
      <3> SUFFICES ASSUME NEW j \in 1 .. i - 1, T[j].key = k PROVE FALSE
        OBVIOUS
      <3>1. i \in 1 .. MaxEntries /\ MaxEntries \in Nat
        BY SlotsAre
      <3>2. j \in Slots /\ ~(i <= j)
        BY <3>1, SlotsAre
      <3> QED BY <2>2, <3>2
    <2> DEFINE first == CHOOSE m \in Slots : T[m].key = k /\ \A j \in 1 .. m - 1 : T[j].key # k
    <2>4. first \in Slots /\ T[first].key = k
      BY <2>2, <2>3
    <2>5. Lookup(T, k) = T[first].version
      BY <2>2 DEF Lookup
    <2> HIDE DEF first
    <2> QED BY <2>4, <2>5 DEF Says
  <1> QED BY <1>1, <1>2

\* Put finds a place: the key's own, else a free one, else whichever was put first.
LEMMA TargetFound ==
    ASSUME entries \in [Slots -> Entries], NEW k, NEW i, i = Target(k)
    PROVE  /\ i \in Slots
           /\ (\E j \in Slots : entries[j].key = k) => entries[i].key = k
           /\ Occupied(i) /\ entries[i].key # k => Used = Slots /\ \A j \in Slots : entries[j].key # k
  <1> DEFINE same == {j \in Slots : entries[j].key = k}
             free == {j \in Slots : ~Occupied(j)}
  <1>1. \A T \in SUBSET Slots : T # {} => Min(T) \in T
    <2> SUFFICES ASSUME NEW T \in SUBSET Slots, T # {} PROVE Min(T) \in T
      OBVIOUS
    <2>1. T \subseteq Nat
      BY SlotsAre
    <2>2. \E n \in T : \A m \in T : n <= m
      BY <2>1, LeastNumber
    <2> QED BY <2>2 DEF Min
  <1>2. i = IF same # {} THEN Min(same) ELSE IF free # {} THEN Min(free)
            ELSE CHOOSE a \in Slots : \A b \in Slots : Oldest(a, b)
    BY DEF Target
  <1>3. same \in SUBSET Slots /\ free \in SUBSET Slots
    OBVIOUS
  <1>4. CASE same # {}
    <2>1. i \in same
      <3> HIDE DEF same, free
      <3> QED BY <1>1, <1>2, <1>3, <1>4
    <2> QED BY <2>1
  <1>5. CASE same = {} /\ free # {}
    <2>1. i \in free
      <3> HIDE DEF same, free
      <3> QED BY <1>1, <1>2, <1>3, <1>5
    <2> QED BY <1>5, <2>1
  <1>6. CASE same = {} /\ free = {}
    <2>1. \E a \in Slots : \A b \in Slots : Oldest(a, b)
      <3> DEFINE Seqs == {entries[a].seq : a \in Slots}
      <3>1. \A a \in Slots : entries[a].seq \in Nat
        BY DEF Entries
      <3>2. Seqs \subseteq Nat /\ Seqs # {}
        BY <3>1, SlotsAre
      <3>3. PICK n \in Seqs : \A m \in Seqs : n <= m
        BY <3>2, LeastNumber
      <3> DEFINE S == {a \in Slots : entries[a].seq = n}
      <3>4. S \subseteq Nat /\ S # {}
        BY <3>3, SlotsAre
      <3>5. PICK a \in S : \A b \in S : a <= b
        BY <3>4, LeastNumber
      <3>6. \A b \in Slots : n <= entries[b].seq /\ entries[b].seq \in Nat /\ n \in Nat
        BY <3>1, <3>2, <3>3
      <3>7. a \in Slots /\ entries[a].seq = n
        BY <3>5
      <3>8. ASSUME NEW b \in Slots PROVE Oldest(a, b)
        <4>1. CASE entries[b].seq = n
          BY <3>5, <3>7, <4>1 DEF Oldest
        <4>2. CASE entries[b].seq # n
          <5>1. n < entries[b].seq
            BY <3>6, <4>2
          <5> QED BY <3>7, <5>1 DEF Oldest
        <4> QED BY <4>1, <4>2
      <3> QED BY <3>7, <3>8
    <2>2. i \in Slots
      BY <1>2, <1>6, <2>1
    <2>3. Used = Slots /\ \A j \in Slots : entries[j].key # k
      BY <1>6 DEF Used
    <2> QED BY <2>2, <2>3
  <1> QED BY <1>4, <1>5, <1>6

-----------------------------------------------------------------------------
(* The steps *)

\* Nobody else is in Put.
LEMMA OthersOut ==
    ASSUME StoreTypes, InPut, NEW p \in Procs, Holds(p) \/ ~Locked
    PROVE  \A q \in Procs : q # p => ~Holds(q) /\ pc[q] \in {"closed", "mapped", "open"}
  BY DEF InPut, Holds, Locked, StoreTypes

\* Steps that have nothing to do with Put, the table and the file.
LEMMA PhasesKeep ==
    ASSUME StoreInv, UNCHANGED <<putting, entries, file, puts, written, lost, stale, evicted, cramped>>,
           pc' \in [Procs -> {"closed", "mapped", "open", "fill", "truncate", "write"}],
           nextSeq' \in [Procs -> Nat \ {0}],
           \A q \in Procs : /\ (pc'[q] = "fill" <=> pc[q] = "fill") /\ (pc'[q] = "write" <=> pc[q] = "write")
                            /\ (pc'[q] = "truncate" <=> pc[q] = "truncate"),
           (\A q \in Procs : pc'[q] = "closed") => Used = {},
           Opened' => Opened \/ Used # {}
    PROVE  StoreInv'
  <1>1. Used' = Used /\ Known' = Known /\ PutKeys' = PutKeys
    BY DEF Used, Occupied, Known, PutKeys
  <1>2. StoreTypes'
    BY DEF StoreInv, StoreTypes
  <1>3. \A q \in Procs : Holds(q)' <=> Holds(q)
    BY DEF Holds
  <1>4. InPut'
    <2>1. InPut
      BY DEF StoreInv
    <2>2. \A q \in Procs, r \in Procs : Holds(q)' /\ Holds(r)' => q = r
      BY <1>3, <2>1 DEF InPut
    <2>3. \A q \in Procs : Holds(q)' => Used' # {}
      BY <1>1, <1>3, <2>1 DEF InPut
    <2>4. \A q \in Procs : pc'[q] = "write" => stale'
      BY <2>1 DEF InPut
    <2>5. \A q \in Procs : pc'[q] = "fill" =>
          /\ putting'[1] \in StoreKeys /\ putting'[2] \in Nat \ {0} /\ putting'[3] \in Slots
          /\ Occupied(putting[3])' /\ entries'[putting'[3]].key = NoKey
          /\ putting'[1] \in Known' => \A i \in Slots : entries'[i].key # putting'[1]
      BY <1>1, <2>1 DEF InPut, Occupied
    <2> QED BY <2>2, <2>3, <2>4, <2>5 DEF InPut
  <1>5. Unheld'
    BY <1>1 DEF Unheld
  <1>6. Unique'
    BY <1>1 DEF StoreInv, Unique
  <1>7. TableSays'
    BY <1>1 DEF StoreInv, TableSays
  <1>8. FileSays'
    BY <1>1 DEF StoreInv, FileSays
  <1>9. Room'
    <2>1. \A i : Fills(i)' <=> Fills(i)
      BY DEF Fills
    <2>2. \A k : FillsKey(k)' <=> FillsKey(k)
      BY DEF FillsKey
    <2>3. {k \in StoreKeys : k \in PutKeys' \/ FillsKey(k)'} = {k \in StoreKeys : k \in PutKeys \/ FillsKey(k)}
      BY <1>1, <2>2
    <2>4. Room
      BY DEF StoreInv
    <2> QED BY <1>1, <2>1, <2>3, <2>4 DEF Room
  <1> QED BY <1>2, <1>4, <1>5, <1>6, <1>7, <1>8, <1>9 DEF StoreInv

LEMMA MapRegionKeeps ==
    ASSUME StoreInv, NEW p \in Procs, MapRegion(p)
    PROVE  StoreInv'
  <1>1. /\ pc[p] = "closed" /\ pc' = [pc EXCEPT ![p] = "mapped"]
        /\ UNCHANGED <<putting, entries, file, nextSeq, puts, written, lost, stale, evicted, cramped>>
    BY DEF MapRegion
  <1>2. pc \in [Procs -> {"closed", "mapped", "open", "fill", "truncate", "write"}] /\ nextSeq \in [Procs -> Nat \ {0}]
    BY DEF StoreInv, StoreTypes
  <1>3. pc'[p] = "mapped" /\ \A q \in Procs : q # p => pc'[q] = pc[q]
    BY <1>1, <1>2
  <1>4. Opened' => Opened
    BY <1>3 DEF Opened
  <1> QED BY <1>1, <1>2, <1>3, <1>4, PhasesKeep

\* After a step that leaves nobody in Put.
LEMMA QuietRoom ==
    ASSUME \A q \in Procs : pc'[q] \in {"closed", "mapped", "open"}, 
           NEW keys, keys = {k \in StoreKeys : k \in PutKeys' \/ FillsKey(k)'}
    PROVE  keys = PutKeys' /\ (\A q \in Procs : ~Holds(q)') /\ (stale' \in BOOLEAN => InPut')
  <1>1. \A k : ~FillsKey(k)'
    BY DEF FillsKey
  <1>2. keys = PutKeys'
    BY <1>1 DEF PutKeys
  <1>3. \A q \in Procs : ~Holds(q)'
    BY DEF Holds
  <1>4. InPut'
    BY <1>3 DEF InPut
  <1> QED BY <1>2, <1>3, <1>4

LEMMA OpenOrCreateKeeps ==
    ASSUME StoreInv, NEW p \in Procs, OpenOrCreate(p)
    PROVE  StoreInv'
  <1>1. /\ pc[p] = "mapped" /\ ~Locked /\ pc' = [pc EXCEPT ![p] = "open"]
        /\ entries' = IF Used # {} THEN entries ELSE LoadLocked(file)
        /\ UNCHANGED <<putting, file, nextSeq, puts, written, lost, stale, evicted, cramped>>
    BY DEF OpenOrCreate, Used
  <1>2. StoreTypes /\ InPut /\ Unique /\ TableSays /\ FileSays /\ Room
    BY DEF StoreInv
  <1>3. pc \in [Procs -> {"closed", "mapped", "open", "fill", "truncate", "write"}] /\ nextSeq \in [Procs -> Nat \ {0}]
    BY <1>2 DEF StoreTypes
  <1>4. pc'[p] = "open" /\ \A q \in Procs : q # p => pc'[q] = pc[q]
    BY <1>1, <1>3
  <1>5. \A q \in Procs : q # p => pc[q] \in {"closed", "mapped", "open"}
    BY <1>1, <1>2, OthersOut
  <1>6. CASE Used # {}
    <2>1. entries' = entries
      BY <1>1, <1>6
    <2>2. \A q \in Procs : /\ (pc'[q] = "fill" <=> pc[q] = "fill") /\ (pc'[q] = "write" <=> pc[q] = "write")
                           /\ (pc'[q] = "truncate" <=> pc[q] = "truncate")
      BY <1>1, <1>4
    <2>3. pc' \in [Procs -> {"closed", "mapped", "open", "fill", "truncate", "write"}] /\ nextSeq' \in [Procs -> Nat \ {0}]
      BY <1>1, <1>3
    <2>4. (\A q \in Procs : pc'[q] = "closed") => Used = {}
      BY <1>4
    <2> QED BY <1>1, <1>6, <2>1, <2>2, <2>3, <2>4, PhasesKeep
  <1>7. CASE Used = {}
    <2> DEFINE T == LoadLocked(file)
    <2>1. entries' = T
      BY <1>1, <1>7
    <2>2. file \in Seq(FileLines) /\ Len(file) <= MaxEntries
      BY <1>2 DEF StoreTypes
    <2> HIDE DEF T
    <2>3. T = LoadLocked(file)
      BY DEF T
    <2>4. /\ T \in [Slots -> Entries]
          /\ \A i \in Slots : T[i] = Empty \/ \E g \in Good(file) : T[i] = file[g]
          /\ \A K : Distinct(file, Good(file), K) /\ NoKey \notin K => Distinct(T, Slots, K)
          /\ \A k, v : Says(file, Good(file), k, v) /\ k # NoKey => Says(T, Slots, k, v)
      BY <2>2, <2>3, Loaded
    <2>5. StoreTypes'
      BY <1>1, <1>2, <1>3, <2>1, <2>4 DEF StoreTypes
    <2>6. \A q \in Procs : pc'[q] \in {"closed", "mapped", "open"}
      BY <1>4, <1>5
    <2>7. {k \in StoreKeys : k \in PutKeys' \/ FillsKey(k)'} = PutKeys' /\ InPut'
      BY <1>1, <1>2, <2>6, QuietRoom DEF StoreTypes
    <2>8. Unheld'
      BY <1>4 DEF Unheld
    <2>9. Known' = Known /\ PutKeys' = PutKeys /\ NoKey \notin Known
      BY <1>1, StoreAssumption DEF Known, PutKeys, Plain
    <2>10. Unique'
      BY <1>1, <1>2, <2>1, <2>4, <2>9 DEF Unique
    <2>11. \A q \in Procs : pc[q] \notin {"fill", "truncate"}
      BY <1>1, <1>5
    <2>12. TableSays'
      <3> SUFFICES ASSUME NEW k \in Plain \ lost PROVE Says(T, Slots, k, written[k])
        BY <1>1, <2>1 DEF TableSays
      <3>1. ~stale
        BY <1>2, <1>7 DEF FileSays
      <3>2. Says(file, Good(file), k, written[k])
        BY <1>2, <2>11, <3>1 DEF FileSays
      <3>3. k # NoKey
        BY StoreAssumption DEF Plain
      <3> QED BY <2>4, <3>2, <3>3
    <2>13. FileSays'
      BY <1>1, <1>2, <1>7, <2>11 DEF FileSays
    <2>14. Room'
      <3> SUFFICES ASSUME ~cramped PROVE Room'
        BY <1>1 DEF Room
      <3>1. /\ \A i \in Good(file) : file[i].key \in PutKeys
            /\ evicted => Cardinality({k \in StoreKeys : k \in PutKeys \/ FillsKey(k)}) > MaxEntries
        BY <1>2 DEF Room
      <3>2. \A k : ~FillsKey(k)
        BY <2>11 DEF FillsKey
      <3>3. {k \in StoreKeys : k \in PutKeys \/ FillsKey(k)} = PutKeys
        BY <3>2 DEF PutKeys
      <3>4. \A i \in Used' : entries'[i].key \in PutKeys
        BY <2>1, <2>4, <3>1 DEF Used, Occupied
      <3> QED BY <1>1, <2>7, <2>9, <3>1, <3>3, <3>4 DEF Room
    <2> QED BY <2>5, <2>7, <2>8, <2>10, <2>12, <2>13, <2>14 DEF StoreInv
  <1> QED BY <1>6, <1>7

\* What a crash leaves of the lines that were being written is of the table.
LEMMA PartWritten ==
    ASSUME StoreInv, NEW part \in PartOf(Lines)
    PROVE  /\ part \in Seq(FileLines) /\ Len(part) <= MaxEntries
           /\ Distinct(part, Good(part), Known)
           /\ \A g \in Good(part) : \E i \in Used : part[g] = entries[i]
  <1> DEFINE lines == Lines
  <1>1. entries \in [Slots -> Entries] /\ Distinct(entries, Slots, Known)
    BY DEF StoreInv, StoreTypes, Unique
  <1>2. lines = Lines /\ part \in PartOf(lines)
    OBVIOUS
  <1> HIDE DEF lines
  <1>3. /\ lines \in Seq(FileLines) /\ Len(lines) <= MaxEntries
        /\ \A j \in DOMAIN lines : \E i \in Used : lines[j] = entries[i]
        /\ \A K : Distinct(entries, Slots, K) => Distinct(lines, DOMAIN lines, K)
    BY <1>1, <1>2, Written
  <1>4. /\ part \in Seq(FileLines) /\ Len(part) <= MaxEntries
        /\ \A j \in Good(part) : j \in DOMAIN lines /\ part[j] = lines[j]
    BY <1>2, <1>3, PartLeft
  <1>5. Distinct(lines, DOMAIN lines, Known)
    BY <1>1, <1>3
  <1>6. Distinct(part, Good(part), Known)
    <2> SUFFICES ASSUME NEW i \in Good(part), NEW j \in Good(part),
                        part[i].key = part[j].key, part[i].key \in Known
                 PROVE  i = j
      BY DEF Distinct
    <2>1. i \in DOMAIN lines /\ j \in DOMAIN lines /\ lines[i].key = lines[j].key /\ lines[i].key \in Known
      BY <1>4
    <2> QED BY <1>5, <2>1 DEF Distinct
  <1>7. \A g \in Good(part) : \E i \in Used : part[g] = entries[i]
    BY <1>3, <1>4
  <1> QED BY <1>4, <1>6, <1>7

\* Of fewer keys fewer are shared.
LEMMA KnownShrinks ==
    ASSUME cramped => cramped', NEW f, NEW S, Distinct(f, S, Known)
    PROVE  Distinct(f, S, Known')
  <1>1. \A k : k \in Known' => k \in Known
    BY DEF Known, Plain
  <1> QED BY <1>1 DEF Distinct

\* A process ends, in Put or out of it, and the file is as it was, or cut in PersistLocked.
Ends(p) ==
    /\ pc[p] # "closed" /\ pc' = [pc EXCEPT ![p] = "closed"]
    /\ file' = file \/ (pc[p] = "write" /\ file' \in PartOf(Lines))
    /\ (stale' <=> stale \/ pc[p] \in {"fill", "truncate"}) /\ stale' \in BOOLEAN
    /\ (cramped' <=> cramped \/ pc[p] = "fill") /\ cramped' \in BOOLEAN
    /\ nextSeq' \in [Procs -> Nat \ {0}]
    /\ UNCHANGED <<putting, puts, written, evicted>>

LEMMA FileAfter ==
    ASSUME StoreInv, NEW p \in Procs, Ends(p)
    PROVE  /\ file' \in Seq(FileLines) /\ Len(file') <= MaxEntries
           /\ Distinct(file', Good(file'), Known')
           /\ ~cramped' /\ (\A q \in Procs : pc[q] # "fill") => \A g \in Good(file') : file'[g].key \in PutKeys
  <1> DEFINE part == file'
  <1>1. cramped => cramped'
    BY DEF Ends
  <1>2. CASE file' = file
    <2>1. file \in Seq(FileLines) /\ Len(file) <= MaxEntries /\ Distinct(file, Good(file), Known)
      BY DEF StoreInv, StoreTypes, Unique
    <2>2. Distinct(file, Good(file), Known')
      BY <1>1, <2>1, KnownShrinks
    <2>3. ~cramped' => \A g \in Good(file) : file[g].key \in PutKeys
      BY <1>1 DEF StoreInv, Room
    <2> QED BY <1>2, <2>1, <2>2, <2>3
  <1>3. CASE file' \in PartOf(Lines)
    <2>1. part \in PartOf(Lines)
      BY <1>3
    <2> HIDE DEF part
    <2>2. /\ part \in Seq(FileLines) /\ Len(part) <= MaxEntries
          /\ Distinct(part, Good(part), Known)
          /\ \A g \in Good(part) : \E i \in Used : part[g] = entries[i]
      BY <2>1, PartWritten
    <2>3. Distinct(part, Good(part), Known')
      BY <1>1, <2>2, KnownShrinks
    <2>4. ASSUME ~cramped', \A q \in Procs : pc[q] # "fill" PROVE \A g \in Good(part) : part[g].key \in PutKeys
      <3>1. \A i \in Used : entries[i].key \in PutKeys
        BY <1>1, <2>4 DEF StoreInv, Room, Fills
      <3> QED BY <2>2, <3>1
    <2> QED BY <2>2, <2>3, <2>4 DEF part
  <1> QED BY <1>2, <1>3 DEF Ends

\* The last process takes the region along.
LEMMA LastKeeps ==
    ASSUME StoreInv, NEW p \in Procs, Ends(p), \A q \in Procs \ {p} : pc[q] = "closed",
           entries' = [i \in Slots |-> Empty], lost' = IF stale' THEN Plain ELSE lost
    PROVE  StoreInv'
  <1>1. StoreTypes /\ InPut /\ FileSays /\ Room
    BY DEF StoreInv
  <1>2. /\ file' \in Seq(FileLines) /\ Len(file') <= MaxEntries
        /\ Distinct(file', Good(file'), Known')
        /\ ~cramped' /\ (\A q \in Procs : pc[q] # "fill") => \A g \in Good(file') : file'[g].key \in PutKeys
    BY FileAfter
  <1>3. \A q \in Procs : pc'[q] = "closed"
    BY <1>1 DEF Ends, StoreTypes
  <1>4. Empty \in Entries /\ Empty.key = NoKey
    BY DEF Empty, Entries, Names
  <1>5. StoreTypes'
    <2>1. entries' \in [Slots -> Entries]
      BY <1>4
    <2>2. pc' \in [Procs -> {"closed", "mapped", "open", "fill", "truncate", "write"}]
      BY <1>1 DEF StoreTypes, Ends
    <2> QED BY <1>1, <1>2, <2>1, <2>2 DEF StoreTypes, Ends
  <1>6. Used' = {}
    BY DEF Used, Occupied
  <1>7. {k \in StoreKeys : k \in PutKeys' \/ FillsKey(k)'} = PutKeys' /\ InPut'
    BY <1>3, <1>5, QuietRoom DEF StoreTypes
  <1>8. Unheld' /\ TableSays'
    BY <1>3, <1>6 DEF Unheld, TableSays, Opened
  <1>9. Unique'
    <2>1. NoKey \notin Known'
      BY StoreAssumption DEF Known, Plain
    <2>2. Distinct(entries', Slots, Known')
      BY <1>4, <2>1 DEF Distinct
    <2> QED BY <1>2, <2>2 DEF Unique
  <1>10. FileSays'
    <2>1. CASE stale'
      BY <2>1 DEF FileSays
    <2>2. CASE ~stale'
      <3>1. ~stale /\ \A q \in Procs : pc[q] \notin {"fill", "truncate"}
        BY <2>2 DEF Ends
      <3>2. pc[p] # "write"
        BY <1>1, <3>1 DEF InPut
      <3>3. file' = file /\ lost' = lost /\ written' = written
        BY <2>2, <3>2 DEF Ends
      <3> QED BY <1>1, <2>2, <3>1, <3>3 DEF FileSays
    <2> QED BY <2>1, <2>2
  <1>11. Room'
    <2> SUFFICES ASSUME ~cramped' PROVE Room'
      BY DEF Room
    <2>1. ~cramped /\ \A q \in Procs : pc[q] # "fill"
      BY DEF Ends
    <2>2. PutKeys' = PutKeys /\ evicted' = evicted
      BY DEF PutKeys, Ends
    <2>3. \A k : ~FillsKey(k)
      BY <2>1 DEF FillsKey
    <2>4. {k \in StoreKeys : k \in PutKeys \/ FillsKey(k)} = PutKeys
      BY <2>3 DEF PutKeys
    <2>5. evicted => Cardinality(PutKeys) > MaxEntries
      BY <1>1, <2>1, <2>4 DEF Room
    <2>6. \A g \in Good(file') : file'[g].key \in PutKeys
      BY <1>2, <2>1
    <2> QED BY <1>6, <1>7, <2>2, <2>5, <2>6 DEF Room
  <1> QED BY <1>5, <1>7, <1>8, <1>9, <1>10, <1>11 DEF StoreInv

\* One that was in Put leaves the table to the others, as it is.
LEMMA PutterGone ==
    ASSUME StoreInv, NEW p \in Procs, Ends(p), Holds(p), \E q \in Procs \ {p} : pc[q] # "closed",
           entries' = entries, lost' = lost
    PROVE  StoreInv'
  <1>1. StoreTypes /\ InPut /\ Unique /\ TableSays /\ FileSays /\ Room
    BY DEF StoreInv
  <1>2. /\ file' \in Seq(FileLines) /\ Len(file') <= MaxEntries
        /\ Distinct(file', Good(file'), Known')
        /\ ~cramped' /\ (\A q \in Procs : pc[q] # "fill") => \A g \in Good(file') : file'[g].key \in PutKeys
    BY FileAfter
  <1>3. \A q \in Procs : q # p => ~Holds(q) /\ pc[q] \in {"closed", "mapped", "open"}
    BY <1>1, OthersOut
  <1>4. pc'[p] = "closed" /\ \A q \in Procs : q # p => pc'[q] = pc[q]
    BY <1>1 DEF Ends, StoreTypes
  <1>5. StoreTypes'
    <2>1. pc' \in [Procs -> {"closed", "mapped", "open", "fill", "truncate", "write"}]
      BY <1>1 DEF StoreTypes, Ends
    <2> QED BY <1>1, <1>2, <2>1 DEF StoreTypes, Ends
  <1>6. Used' = Used /\ Used # {}
    BY <1>1 DEF Used, Occupied, InPut
  <1>7. {k \in StoreKeys : k \in PutKeys' \/ FillsKey(k)'} = PutKeys' /\ InPut'
    <2>1. \A q \in Procs : pc'[q] \in {"closed", "mapped", "open"}
      BY <1>3, <1>4
    <2> QED BY <1>5, <2>1, QuietRoom DEF StoreTypes
  <1>8. Unheld'
    BY <1>4 DEF Unheld
  <1>9. TableSays'
    BY <1>1, <1>6 DEF TableSays, Ends
  <1>10. Unique'
    <2>1. cramped => cramped'
      BY DEF Ends
    <2>2. Distinct(entries, Slots, Known')
      BY <1>1, <2>1, KnownShrinks DEF Unique
    <2> QED BY <1>2, <2>2 DEF Unique
  <1>11. FileSays'
    <2>1. stale'
      BY <1>1 DEF Ends, Holds, InPut
    <2> QED BY <1>6, <2>1 DEF FileSays
  <1>12. Room'
    <2> SUFFICES ASSUME ~cramped' PROVE Room'
      BY DEF Room
    <2>1. ~cramped /\ \A q \in Procs : pc[q] # "fill"
      BY <1>3 DEF Ends
    <2>2. PutKeys' = PutKeys /\ evicted' = evicted
      BY DEF PutKeys, Ends
    <2>3. (\A k : ~FillsKey(k)) /\ (\A i : ~Fills(i))
      BY <2>1 DEF FillsKey, Fills
    <2>4. {k \in StoreKeys : k \in PutKeys \/ FillsKey(k)} = PutKeys
      BY <2>3 DEF PutKeys
    <2>5. evicted => Cardinality(PutKeys) > MaxEntries
      BY <1>1, <2>1, <2>4 DEF Room
    <2>6. \A g \in Good(file') : file'[g].key \in PutKeys
      BY <1>2, <2>1
    <2>7. \A i \in Used : entries[i].key \in PutKeys
      BY <1>1, <2>1, <2>3 DEF Room
    <2> QED BY <1>6, <1>7, <2>2, <2>5, <2>6, <2>7 DEF Room
  <1> QED BY <1>5, <1>7, <1>8, <1>9, <1>10, <1>11, <1>12 DEF StoreInv

\* One that was not.
LEMMA OtherGone ==
    ASSUME StoreInv, NEW p \in Procs, Ends(p), ~Holds(p), \E q \in Procs \ {p} : pc[q] # "closed",
           entries' = entries, lost' = lost
    PROVE  StoreInv'
  <1>1. pc \in [Procs -> {"closed", "mapped", "open", "fill", "truncate", "write"}] /\ stale \in BOOLEAN /\ cramped \in BOOLEAN
    BY DEF StoreInv, StoreTypes
  <1>2. pc[p] \notin {"fill", "truncate", "write"}
    BY DEF Holds
  <1>3. pc'[p] = "closed" /\ \A q \in Procs : q # p => pc'[q] = pc[q]
    BY <1>1 DEF Ends
  <1>4. /\ pc' \in [Procs -> {"closed", "mapped", "open", "fill", "truncate", "write"}]
        /\ nextSeq' \in [Procs -> Nat \ {0}] /\ file' = file
        /\ UNCHANGED <<putting, puts, written, evicted>>
    BY <1>1, <1>2 DEF Ends
  <1>5. stale' = stale /\ cramped' = cramped
    BY <1>1, <1>2 DEF Ends
  <1>6. \A q \in Procs : /\ (pc'[q] = "fill" <=> pc[q] = "fill") /\ (pc'[q] = "write" <=> pc[q] = "write")
                         /\ (pc'[q] = "truncate" <=> pc[q] = "truncate")
    BY <1>2, <1>3
  <1>7. (\A q \in Procs : pc'[q] = "closed") => Used = {}
    BY <1>3
  <1>8. Opened' => Opened
    BY <1>3 DEF Opened
  <1> QED BY <1>4, <1>5, <1>6, <1>7, <1>8, PhasesKeep

LEMMA EndsKeep ==
    ASSUME StoreInv, NEW p \in Procs, Ends(p), Unmapped(p),
           lost' = IF stale' /\ \A q \in Procs \ {p} : pc[q] = "closed" THEN Plain ELSE lost
    PROVE  StoreInv'
  <1>1. CASE \A q \in Procs \ {p} : pc[q] = "closed"
    <2>1. entries' = [i \in Slots |-> Empty] /\ lost' = IF stale' THEN Plain ELSE lost
      BY <1>1 DEF Unmapped
    <2> QED BY <1>1, <2>1, LastKeeps
  <1>2. CASE \E q \in Procs \ {p} : pc[q] # "closed"
    <2>1. entries' = entries /\ lost' = lost
      BY <1>2 DEF Unmapped
    <2> QED BY <1>2, <2>1, PutterGone, OtherGone
  <1> QED BY <1>1, <1>2

LEMMA CloseKeeps ==
    ASSUME StoreInv, NEW p \in Procs, Close(p)
    PROVE  StoreInv'
  <1>1. pc[p] = "open" /\ stale \in BOOLEAN /\ cramped \in BOOLEAN /\ nextSeq \in [Procs -> Nat \ {0}]
    BY DEF StoreInv, StoreTypes, Close
  <1>2. Ends(p)
    BY <1>1 DEF Close, Unmapped, Ends
  <1>3. lost' = IF stale' /\ \A q \in Procs \ {p} : pc[q] = "closed" THEN Plain ELSE lost
    BY DEF Close
  <1>4. Unmapped(p)
    BY DEF Close
  <1> QED BY <1>2, <1>3, <1>4, EndsKeep

LEMMA CrashKeeps ==
    ASSUME StoreInv, NEW p \in Procs, Crash(p)
    PROVE  StoreInv'
  <1>1. stale \in BOOLEAN /\ cramped \in BOOLEAN /\ nextSeq \in [Procs -> Nat \ {0}]
    BY DEF StoreInv, StoreTypes
  <1>2. /\ pc[p] # "closed" /\ pc' = [pc EXCEPT ![p] = "closed"]
        /\ UNCHANGED <<putting, puts, written, evicted>>
    BY DEF Crash, Unmapped
  <1>3. file' = file \/ (pc[p] = "write" /\ file' \in PartOf(Lines))
    BY DEF Crash
  <1>4. (stale' <=> stale \/ pc[p] \in {"fill", "truncate"}) /\ stale' \in BOOLEAN
    BY <1>1 DEF Crash
  <1>5. (cramped' <=> cramped \/ pc[p] = "fill") /\ cramped' \in BOOLEAN
    BY <1>1 DEF Crash
  <1>6. nextSeq' \in [Procs -> Nat \ {0}]
    BY <1>1 DEF Crash
  <1>7. Ends(p)
    BY <1>2, <1>3, <1>4, <1>5, <1>6 DEF Ends
  <1>8. lost' = IF stale' /\ \A q \in Procs \ {p} : pc[q] = "closed" THEN Plain ELSE lost
    BY DEF Crash
  <1>9. Unmapped(p)
    BY DEF Crash
  <1> QED BY <1>7, <1>8, <1>9, EndsKeep

\* PersistLocked opens the file, or Put gives up.
LEMMA PersistOpenKeeps ==
    ASSUME StoreInv, NEW p \in Procs, PersistOpen(p)
    PROVE  StoreInv'
  <1>1. StoreTypes /\ InPut /\ Unheld /\ Unique /\ TableSays /\ FileSays /\ Room
    BY DEF StoreInv
  <1>2. /\ pc[p] = "truncate" /\ stale' = TRUE
        /\ \/ file' = <<>> /\ pc' = [pc EXCEPT ![p] = "write"]
           \/ file' = file /\ pc' = [pc EXCEPT ![p] = "open"]
        /\ UNCHANGED <<putting, entries, nextSeq, puts, written, lost, evicted, cramped>>
    BY DEF PersistOpen
  <1>3. \A q \in Procs : q # p => ~Holds(q) /\ pc[q] \in {"closed", "mapped", "open"}
    BY <1>1, <1>2, OthersOut DEF Holds
  <1>4. pc'[p] \in {"write", "open"} /\ \A q \in Procs : q # p => pc'[q] = pc[q]
    BY <1>1, <1>2 DEF StoreTypes
  <1>5. /\ file' \in Seq(FileLines) /\ Len(file') <= MaxEntries
        /\ Distinct(file', Good(file'), Known) /\ \A g \in Good(file') : g \in Good(file) /\ file'[g] = file[g]
    <2>1. CASE file' = file
      BY <1>1, <2>1 DEF StoreTypes, Unique
    <2>2. CASE file' = <<>>
      <3>1. Good(<<>>) = {}
        BY DEF Good
      <3>2. <<>> \in Seq(FileLines) /\ Len(<<>>) = 0
        BY EmptySeq
      <3>3. Len(<<>>) <= MaxEntries
        BY <3>2, SlotsAre
      <3> QED BY <2>2, <3>1, <3>2, <3>3 DEF Distinct
    <2> QED BY <1>2, <2>1, <2>2
  <1>6. Used' = Used /\ Used # {} /\ Known' = Known /\ PutKeys' = PutKeys
    BY <1>1, <1>2 DEF Used, Occupied, InPut, Holds, Known, PutKeys
  <1>7. StoreTypes'
    <2>1. pc' \in [Procs -> {"closed", "mapped", "open", "fill", "truncate", "write"}]
      BY <1>1, <1>2 DEF StoreTypes
    <2> QED BY <1>1, <1>2, <1>5, <2>1 DEF StoreTypes
  <1>8. InPut'
    <2>1. \A q \in Procs : Holds(q)' => q = p
      BY <1>3, <1>4 DEF Holds
    <2>2. \A q \in Procs : pc'[q] # "fill"
      BY <1>3, <1>4
    <2> QED BY <1>2, <1>6, <2>1, <2>2 DEF InPut
  <1>9. Unheld' /\ TableSays' /\ FileSays'
    BY <1>1, <1>2, <1>4, <1>6 DEF Unheld, TableSays, FileSays
  <1>10. Unique'
    BY <1>1, <1>2, <1>5, <1>6 DEF Unique
  <1>11. Room'
    <2> SUFFICES ASSUME ~cramped PROVE Room'
      BY <1>2 DEF Room
    <2>1. (\A k : ~FillsKey(k)) /\ (\A i : ~Fills(i)) /\ (\A k : ~FillsKey(k)')
      BY <1>2, <1>3, <1>4 DEF FillsKey, Fills
    <2>2. {k \in StoreKeys : k \in PutKeys \/ FillsKey(k)} = {k \in StoreKeys : k \in PutKeys' \/ FillsKey(k)'}
      BY <1>6, <2>1
    <2>3. (\A i \in Used : entries[i].key \in PutKeys) /\ (\A g \in Good(file) : file[g].key \in PutKeys)
      BY <1>1, <2>1 DEF Room
    <2>4. \A g \in Good(file') : file'[g].key \in PutKeys
      BY <1>5, <2>3
    <2>5. evicted => Cardinality({k \in StoreKeys : k \in PutKeys \/ FillsKey(k)}) > MaxEntries
      BY <1>1 DEF Room
    <2> QED BY <1>2, <1>6, <2>2, <2>3, <2>4, <2>5 DEF Room
  <1> QED BY <1>7, <1>8, <1>9, <1>10, <1>11 DEF StoreInv

\* PersistLocked has written the table to the file.
LEMMA PersistLinesKeeps ==
    ASSUME StoreInv, NEW p \in Procs, PersistLines(p)
    PROVE  StoreInv'
  <1>1. StoreTypes /\ InPut /\ Unheld /\ Unique /\ TableSays /\ FileSays /\ Room
    BY DEF StoreInv
  <1>2. /\ pc[p] = "write" /\ stale' = FALSE /\ file' = Lines /\ pc' = [pc EXCEPT ![p] = "open"]
        /\ UNCHANGED <<putting, entries, nextSeq, puts, written, lost, evicted, cramped>>
    BY DEF PersistLines
  <1>3. \A q \in Procs : q # p => ~Holds(q) /\ pc[q] \in {"closed", "mapped", "open"}
    BY <1>1, <1>2, OthersOut DEF Holds
  <1>4. pc'[p] = "open" /\ \A q \in Procs : q # p => pc'[q] = pc[q]
    BY <1>1, <1>2 DEF StoreTypes
  <1> DEFINE lines == Lines
  <1>5. file' = lines /\ entries \in [Slots -> Entries] /\ lines = Lines
    BY <1>1, <1>2 DEF StoreTypes
  <1> HIDE DEF lines
  <1>6. /\ lines \in Seq(FileLines) /\ Len(lines) <= MaxEntries
        /\ \A j \in DOMAIN lines : \E i \in Used : lines[j] = entries[i]
        /\ \A K : Distinct(entries, Slots, K) => Distinct(lines, DOMAIN lines, K)
        /\ \A k \in Plain : \A v : Says(entries, Slots, k, v) => Says(lines, Good(lines), k, v)
    BY <1>5, Written
  <1>7. Used' = Used /\ Used # {} /\ Known' = Known /\ PutKeys' = PutKeys
    BY <1>1, <1>2 DEF Used, Occupied, InPut, Holds, Known, PutKeys
  <1>8. StoreTypes'
    <2>1. pc' \in [Procs -> {"closed", "mapped", "open", "fill", "truncate", "write"}]
      BY <1>1, <1>2 DEF StoreTypes
    <2> QED BY <1>1, <1>2, <1>5, <1>6, <2>1 DEF StoreTypes
  <1>9. {k \in StoreKeys : k \in PutKeys' \/ FillsKey(k)'} = PutKeys' /\ InPut'
    <2>1. \A q \in Procs : pc'[q] \in {"closed", "mapped", "open"}
      BY <1>3, <1>4
    <2> QED BY <1>8, <2>1, QuietRoom DEF StoreTypes
  <1>10. Unheld' /\ TableSays'
    BY <1>1, <1>2, <1>4, <1>7 DEF Unheld, TableSays
  <1>11. Good(lines) \subseteq DOMAIN lines
    BY DEF Good
  <1>12. Unique'
    <2>1. Distinct(lines, DOMAIN lines, Known)
      BY <1>1, <1>6 DEF Unique
    <2>2. Distinct(lines, Good(lines), Known)
      BY <1>11, <2>1 DEF Distinct
    <2> QED BY <1>1, <1>2, <1>5, <1>7, <2>2 DEF Unique
  <1>13. FileSays'
    <2>1. \A k \in Plain \ lost : Says(entries, Slots, k, written[k])
      BY <1>1, <1>7 DEF TableSays
    <2>2. \A k \in Plain \ lost : Says(lines, Good(lines), k, written[k])
      BY <1>6, <2>1
    <2> QED BY <1>2, <1>5, <2>2 DEF FileSays
  <1>14. Room'
    <2> SUFFICES ASSUME ~cramped PROVE Room'
      BY <1>2 DEF Room
    <2>1. (\A k : ~FillsKey(k)) /\ (\A i : ~Fills(i))
      BY <1>2, <1>3 DEF FillsKey, Fills
    <2>2. {k \in StoreKeys : k \in PutKeys \/ FillsKey(k)} = PutKeys
      BY <2>1 DEF PutKeys
    <2>3. \A i \in Used : entries[i].key \in PutKeys
      BY <1>1, <2>1 DEF Room
    <2>4. \A g \in Good(lines) : lines[g].key \in PutKeys
      BY <1>6, <1>11, <2>3
    <2>5. evicted => Cardinality(PutKeys) > MaxEntries
      BY <1>1, <2>2 DEF Room
    <2> QED BY <1>2, <1>5, <1>7, <1>9, <2>3, <2>4, <2>5 DEF Room
  <1> QED BY <1>8, <1>9, <1>10, <1>12, <1>13, <1>14 DEF StoreInv

\* A full table of other keys: with the new one there are more keys than entries.
LEMMA FullTable ==
    ASSUME entries \in [Slots -> Entries], NEW keys \in SUBSET StoreKeys, NEW k,
           \A j \in Slots : entries[j].key \in keys /\ entries[j].key # k,
           Distinct(entries, Slots, keys)
    PROVE  Cardinality(keys \cup {k}) > MaxEntries
  <1> DEFINE others == keys \ {k}
             f == [j \in Slots |-> entries[j].key]
  <1>1. IsFiniteSet(others)
    <2>1. others \in SUBSET StoreKeys
      OBVIOUS
    <2> QED BY <2>1, StoreAssumption, FS_Subset
  <1>2. f \in Injection(Slots, others)
    <2>1. f \in [Slots -> others]
      OBVIOUS
    <2>2. \A a, b \in Slots : f[a] = f[b] => a = b
      BY DEF Distinct
    <2> QED BY <2>1, <2>2 DEF Injection, IsInjective
  <1>3. keys \cup {k} = others \cup {k} /\ k \notin others
    OBVIOUS
  <1> HIDE DEF others, f
  <1>4. Cardinality(Slots) <= Cardinality(others)
    BY <1>1, <1>2, FS_Injection
  <1>5. Cardinality(others \cup {k}) = Cardinality(others) + 1
    BY <1>1, <1>3, FS_AddElement
  <1>6. Cardinality(others) \in Nat
    BY <1>1, FS_CardinalityType
  <1>7. Cardinality(Slots) = MaxEntries /\ MaxEntries \in Nat
    BY SlotsAre
  <1>8. Cardinality(keys \cup {k}) = Cardinality(others) + 1
    BY <1>3, <1>5
  <1> QED BY <1>4, <1>6, <1>7, <1>8

\* Put has found its entry and reset it.
LEMMA PutClearKeeps ==
    ASSUME StoreInv, NEW p \in Procs, NEW k \in StoreKeys, PutClear(p, k)
    PROVE  StoreInv'
  <1>1. StoreTypes /\ InPut /\ Unheld /\ Unique /\ TableSays /\ FileSays /\ Room
    BY DEF StoreInv
  <1> DEFINE blank == [Empty EXCEPT !.seq = nextSeq[p]]
  <1>2. PICK i :
        /\ i = Target(k)
        /\ pc[p] = "open" /\ ~Locked /\ puts' = puts + 1
        /\ putting' = <<k, puts + 1, i>> /\ entries' = [entries EXCEPT ![i] = blank]
        /\ lost' = lost \cup ({entries[i].key} \cap Plain)
        /\ evicted' = (evicted \/ (Occupied(i) /\ entries[i].key # k))
        /\ nextSeq' = [nextSeq EXCEPT ![p] = @ + 1] /\ pc' = [pc EXCEPT ![p] = "fill"]
        /\ UNCHANGED <<file, crashes, written, stale, cramped>>
    BY DEF PutClear
  <1>3. entries \in [Slots -> Entries] /\ puts \in Nat /\ nextSeq \in [Procs -> Nat \ {0}] /\ k # NoKey
    BY <1>1, StoreAssumption DEF StoreTypes
  <1>4. blank \in Entries /\ blank.key = NoKey /\ blank # Empty
    BY <1>3 DEF Empty, Entries, Names
  <1> HIDE DEF blank
  <1>6. /\ i \in Slots
        /\ (\E j \in Slots : entries[j].key = k) => entries[i].key = k
        /\ Occupied(i) /\ entries[i].key # k => Used = Slots /\ \A j \in Slots : entries[j].key # k
    BY <1>2, <1>3, TargetFound
  <1>7. entries'[i] = blank /\ \A j \in Slots : j # i => entries'[j] = entries[j]
    BY <1>2, <1>3, <1>6
  <1>8. pc'[p] = "fill" /\ \A q \in Procs : q # p => pc'[q] = pc[q] /\ ~Holds(q)
    BY <1>1, <1>2 DEF StoreTypes, Locked
  <1>9. StoreTypes'
    <2>1. entries' \in [Slots -> Entries]
      BY <1>2, <1>3, <1>4
    <2>2. pc' \in [Procs -> {"closed", "mapped", "open", "fill", "truncate", "write"}]
      BY <1>1, <1>2 DEF StoreTypes
    <2>3. nextSeq' \in [Procs -> Nat \ {0}] /\ puts' \in Nat
      BY <1>2, <1>3
    <2>4. evicted' \in BOOLEAN
      BY <1>1, <1>2 DEF StoreTypes
    <2> QED BY <1>1, <1>2, <2>1, <2>2, <2>3, <2>4 DEF StoreTypes
  <1>10. \A j \in Slots : (j \in Used' <=> j = i \/ j \in Used)
    BY <1>4, <1>6, <1>7 DEF Used, Occupied
  <1>11. Used' # {} /\ i \in Used'
    BY <1>6, <1>10
  <1>12. Known' = Known /\ PutKeys' = PutKeys /\ NoKey \notin Known
    BY <1>2, StoreAssumption DEF Known, PutKeys, Plain
  <1>13. InPut'
    <2>1. \A q \in Procs : Holds(q)' => q = p
      BY <1>8 DEF Holds
    <2>2. \A q \in Procs : pc'[q] # "write"
      BY <1>8 DEF Holds
    <2>3. ASSUME k \in Known, NEW j \in Slots PROVE entries'[j].key # k
      <3>1. CASE j = i
        BY <1>3, <1>4, <1>7, <3>1
      <3>2. CASE j # i
        BY <1>1, <1>6, <1>7, <2>3, <3>2 DEF Unique, Distinct
      <3> QED BY <3>1, <3>2
    <2>4. putting'[1] = k /\ putting'[2] = puts + 1 /\ putting'[3] = i
      BY <1>2
    <2>5. Occupied(i)' /\ puts + 1 \in Nat \ {0}
      BY <1>3, <1>4, <1>7 DEF Occupied
    <2>6. \A q \in Procs : pc'[q] = "fill" =>
          /\ putting'[1] \in StoreKeys /\ putting'[2] \in Nat \ {0} /\ putting'[3] \in Slots
          /\ Occupied(putting[3])' /\ entries'[putting'[3]].key = NoKey
          /\ putting'[1] \in Known' => \A j \in Slots : entries'[j].key # putting'[1]
      BY <1>4, <1>6, <1>7, <1>12, <2>3, <2>4, <2>5 DEF Occupied
    <2> QED BY <1>11, <2>1, <2>2, <2>6 DEF InPut
  <1>14. Unheld'
    BY <1>8 DEF Unheld
  <1>15. Unique'
    <2> SUFFICES ASSUME NEW a \in Slots, NEW b \in Slots,
                        entries'[a].key = entries'[b].key, entries'[a].key \in Known
                 PROVE  a = b
      BY <1>1, <1>2, <1>12 DEF Unique, Distinct
    <2>1. a # i /\ b # i
      BY <1>4, <1>7, <1>12
    <2> QED BY <1>1, <1>7, <2>1 DEF Unique, Distinct
  <1>16. TableSays'
    <2> SUFFICES ASSUME NEW q \in Plain, q \notin lost' PROVE Says(entries', Slots, q, written[q])
      BY <1>2 DEF TableSays
    <2>1. q \notin lost /\ entries[i].key # q /\ q # NoKey
      BY <1>2, StoreAssumption DEF Plain
    <2>2. Says(entries, Slots, q, written[q])
      BY <1>1, <1>2, <2>1 DEF TableSays, Opened
    <2>3. \A j \in Slots : entries'[j].key = q => entries'[j] = entries[j]
      BY <1>4, <1>7, <2>1
    <2>4. \A j \in Slots : entries[j].key = q => entries'[j] = entries[j]
      BY <1>7, <2>1
    <2> QED BY <2>2, <2>3, <2>4 DEF Says
  <1>17. FileSays'
    BY <1>8, <1>11 DEF FileSays
  <1>18. Room'
    <2> SUFFICES ASSUME ~cramped PROVE Room'
      BY <1>2 DEF Room
    <2>1. (\A q : ~FillsKey(q)) /\ (\A j : ~Fills(j))
      BY <1>2, <1>8 DEF FillsKey, Fills, Holds
    <2>2. Fills(i)' /\ \A q : (FillsKey(q)' <=> q = k)
      BY <1>2, <1>8 DEF FillsKey, Fills, Holds
    <2>3. /\ \A j \in Used : entries[j].key \in PutKeys
          /\ \A j \in Good(file) : file[j].key \in PutKeys
          /\ evicted => Cardinality({q \in StoreKeys : q \in PutKeys \/ FillsKey(q)}) > MaxEntries
      BY <1>1, <2>1 DEF Room
    <2>4. ASSUME NEW j \in Used' PROVE entries'[j].key \in PutKeys \/ Fills(j)'
      <3>1. j \in Slots
        BY DEF Used
      <3> QED BY <1>7, <1>10, <2>2, <2>3, <3>1
    <2>5. {q \in StoreKeys : q \in PutKeys' \/ FillsKey(q)'} = PutKeys \cup {k}
      BY <1>12, <2>2 DEF PutKeys
    <2>6. {q \in StoreKeys : q \in PutKeys \/ FillsKey(q)} = PutKeys
      BY <2>1 DEF PutKeys
    <2> DEFINE keys == PutKeys
    <2>7. keys \in SUBSET StoreKeys /\ keys = PutKeys
      BY DEF PutKeys
    <2> HIDE DEF keys
    <2>8. ASSUME evicted PROVE Cardinality(keys \cup {k}) > MaxEntries
      <3>1. IsFiniteSet(keys) /\ Cardinality(keys) \in Nat /\ Cardinality(keys) > MaxEntries
        BY <2>3, <2>6, <2>7, <2>8, StoreAssumption, FS_Subset, FS_CardinalityType
      <3>2. Cardinality(keys \cup {k}) >= Cardinality(keys)
        <4>1. Cardinality(keys \cup {k}) = IF k \in keys THEN Cardinality(keys) ELSE Cardinality(keys) + 1
          BY <3>1, FS_AddElement
        <4> QED BY <3>1, <4>1
      <3>3. Cardinality(keys \cup {k}) \in Nat
        BY <3>1, FS_AddElement, FS_CardinalityType
      <3>4. MaxEntries \in Nat
        BY SlotsAre
      <3> QED BY <3>1, <3>2, <3>3, <3>4
    <2>9. ASSUME Occupied(i) /\ entries[i].key # k PROVE Cardinality(keys \cup {k}) > MaxEntries
      <3>1. \A j \in Slots : entries[j].key \in keys /\ entries[j].key # k
        BY <1>6, <2>3, <2>7, <2>9
      <3>2. Distinct(entries, Slots, keys)
        BY <1>1, <2>7 DEF Unique, Known, Distinct
      <3> QED BY <1>3, <2>7, <3>1, <3>2, FullTable
    <2>10. evicted' => Cardinality(keys \cup {k}) > MaxEntries
      BY <1>2, <2>8, <2>9
    <2> QED BY <1>2, <1>12, <2>3, <2>4, <2>5, <2>7, <2>10 DEF Room
  <1> QED BY <1>9, <1>13, <1>14, <1>15, <1>16, <1>17, <1>18 DEF StoreInv

\* Put has copied key and value into the entry.
LEMMA PutFillKeeps ==
    ASSUME StoreInv, NEW p \in Procs, PutFill(p)
    PROVE  StoreInv'
  <1>1. StoreTypes /\ InPut /\ Unheld /\ Unique /\ TableSays /\ FileSays /\ Room
    BY DEF StoreInv
  <1>2. PICK k, v, i :
        /\ k = putting[1] /\ v = putting[2] /\ i = putting[3]
        /\ pc[p] = "fill" /\ pc' = [pc EXCEPT ![p] = "truncate"]
        /\ entries' = [entries EXCEPT ![i].key = Cut[k], ![i].version = v]
        /\ written' = [written EXCEPT ![k] = v] /\ lost' = lost \ {k}
        /\ cramped' = (cramped \/ Cut[k] # k)
        /\ UNCHANGED <<putting, file, nextSeq, puts, crashes, stale, evicted>>
    BY DEF PutFill
  <1>3. /\ k \in StoreKeys /\ v \in Nat \ {0} /\ i \in Slots /\ Occupied(i) /\ entries[i].key = NoKey
        /\ k \in Known => \A j \in Slots : entries[j].key # k
    BY <1>1, <1>2 DEF InPut
  <1>4. entries \in [Slots -> Entries] /\ written \in [StoreKeys -> Nat] /\ cramped \in BOOLEAN
    BY <1>1 DEF StoreTypes
  <1>5. \A j \in Procs : pc[j] = "fill" => j = p
    BY <1>1, <1>2 DEF InPut, Holds
  <1>6. (\A q : (FillsKey(q) <=> q = k)) /\ (\A j : (Fills(j) <=> j = i))
    BY <1>2, <1>5 DEF FillsKey, Fills
  <1>7. /\ entries'[i].key = Cut[k] /\ entries'[i].version = v /\ entries'[i] \in Entries
        /\ \A j \in Slots : j # i => entries'[j] = entries[j]
    BY <1>2, <1>3, <1>4 DEF Entries, Names
  <1>8. written'[k] = v /\ \A q \in StoreKeys : q # k => written'[q] = written[q]
    BY <1>2, <1>3, <1>4
  <1>9. pc'[p] = "truncate" /\ \A q \in Procs : q # p => pc'[q] = pc[q]
    BY <1>1, <1>2 DEF StoreTypes
  <1>10. \A q \in Procs : q # p => ~Holds(q) /\ pc'[q] \in {"closed", "mapped", "open"}
    BY <1>1, <1>2, <1>9, OthersOut DEF Holds
  <1>11. StoreTypes'
    <2>1. entries' \in [Slots -> Entries]
      <3>1. entries' \in [Slots -> Entries] <=> \A j \in Slots : entries'[j] \in Entries
        BY <1>2, <1>4
      <3> QED BY <1>4, <1>7, <3>1
    <2>2. pc' \in [Procs -> {"closed", "mapped", "open", "fill", "truncate", "write"}]
      BY <1>1, <1>2 DEF StoreTypes
    <2>3. written' \in [StoreKeys -> Nat]
      BY <1>2, <1>3, <1>4
    <2>4. cramped' \in BOOLEAN
      BY <1>2, <1>4
    <2> QED BY <1>1, <1>2, <2>1, <2>2, <2>3, <2>4 DEF StoreTypes
  <1>12. \A j \in Slots : (j \in Used' <=> j \in Used)
    <2>1. entries'[i] # Empty
      BY <1>3, <1>7 DEF Empty
    <2> QED BY <1>3, <1>7, <2>1 DEF Used, Occupied
  <1>13. Used' # {}
    BY <1>3, <1>12 DEF Used
  <1>14. (cramped => cramped') /\ (\A q \in Known' : q \in Known)
    BY <1>2 DEF Known, Plain
  <1>15. Cut[k] # k => Cut[k] \notin Plain
    BY <1>3 DEF Plain
  <1>16. InPut'
    <2>1. \A q \in Procs : Holds(q)' => q = p
      BY <1>10 DEF Holds
    <2>2. \A q \in Procs : pc'[q] # "write" /\ pc'[q] # "fill"
      BY <1>9, <1>10
    <2> QED BY <1>13, <2>1, <2>2 DEF InPut
  <1>17. Unheld'
    BY <1>9 DEF Unheld
  <1>18. Unique'
    <2>1. Distinct(file, Good(file), Known')
      BY <1>1, <1>14, KnownShrinks DEF Unique
    <2>2. ASSUME NEW b \in Slots, b # i, entries'[b].key = Cut[k], Cut[k] \in Known' PROVE FALSE
      <3>1. CASE Cut[k] = k
        BY <1>3, <1>7, <1>14, <2>2, <3>1
      <3>2. CASE Cut[k] # k
        BY <1>2, <1>15, <2>2, <3>2 DEF Known, Plain
      <3> QED BY <3>1, <3>2
    <2>3. ASSUME NEW a \in Slots, NEW b \in Slots,
                 entries'[a].key = entries'[b].key, entries'[a].key \in Known'
          PROVE  a = b
      <3>1. CASE a # i /\ b # i
        <4>1. entries[a].key = entries[b].key /\ entries[a].key \in Known
          BY <1>7, <1>14, <2>3, <3>1
        <4> QED BY <1>1, <4>1 DEF Unique, Distinct
      <3>2. CASE a = i /\ b # i
        BY <1>7, <2>2, <2>3, <3>2
      <3>3. CASE a # i /\ b = i
        BY <1>7, <2>2, <2>3, <3>3
      <3> QED BY <3>1, <3>2, <3>3
    <2>4. Distinct(entries', Slots, Known')
      BY <2>3 DEF Distinct
    <2> QED BY <1>2, <2>1, <2>4 DEF Unique
  <1>19. TableSays'
    <2> SUFFICES ASSUME NEW q \in Plain, q \notin lost' PROVE Says(entries', Slots, q, written'[q])
      BY DEF TableSays
    <2>1. q \in StoreKeys /\ q # NoKey /\ Cut[q] = q /\ q \in Known
      BY StoreAssumption DEF Plain, Known
    <2>2. CASE q = k
      <3>1. \A j \in Slots : entries'[j].key = k => j = i
        BY <1>3, <1>7, <2>1, <2>2
      <3> QED BY <1>3, <1>7, <1>8, <2>1, <2>2, <3>1 DEF Says
    <2>3. CASE q # k
      <3>1. q \notin lost /\ written'[q] = written[q]
        BY <1>2, <1>8, <2>1, <2>3
      <3>2. Used # {}
        BY <1>3 DEF Used
      <3>3. Says(entries, Slots, q, written[q])
        BY <1>1, <3>1, <3>2 DEF TableSays
      <3>4. Cut[k] # q
        BY <1>15, <2>3
      <3>5. \A j \in Slots : entries'[j].key = q => entries'[j] = entries[j]
        BY <1>7, <3>4
      <3>6. \A j \in Slots : entries[j].key = q => entries'[j] = entries[j]
        BY <1>3, <1>7, <2>1
      <3> QED BY <3>1, <3>3, <3>5, <3>6 DEF Says
    <2> QED BY <2>2, <2>3
  <1>20. FileSays'
    BY <1>9, <1>13 DEF FileSays
  <1>21. Room'
    <2> SUFFICES ASSUME ~cramped, Cut[k] = k PROVE Room'
      BY <1>2 DEF Room
    <2>1. \A q : ~FillsKey(q)'
      BY <1>9, <1>10 DEF FillsKey
    <2>2. \A q : (q \in PutKeys' <=> q \in PutKeys \/ q = k)
      BY <1>3, <1>8 DEF PutKeys
    <2>3. {q \in StoreKeys : q \in PutKeys' \/ FillsKey(q)'} = {q \in StoreKeys : q \in PutKeys \/ FillsKey(q)}
      BY <1>6, <2>1, <2>2
    <2>4. /\ \A j \in Used : entries[j].key \in PutKeys \/ j = i
          /\ \A j \in Good(file) : file[j].key \in PutKeys
          /\ evicted => Cardinality({q \in StoreKeys : q \in PutKeys \/ FillsKey(q)}) > MaxEntries
      BY <1>1, <1>6 DEF Room
    <2>5. ASSUME NEW j \in Used' PROVE entries'[j].key \in PutKeys'
      <3>1. j \in Slots
        BY DEF Used
      <3> QED BY <1>7, <1>12, <2>2, <2>4, <3>1
    <2>6. \A j \in Good(file) : file[j].key \in PutKeys'
      BY <2>2, <2>4
    <2> QED BY <1>2, <2>3, <2>4, <2>5, <2>6 DEF Room
  <1> QED BY <1>11, <1>16, <1>17, <1>18, <1>19, <1>20, <1>21 DEF StoreInv

-----------------------------------------------------------------------------
(* The store *)

LEMMA StoreInitInv == storeInit => StoreInv
  <1> SUFFICES ASSUME storeInit PROVE StoreInv
    OBVIOUS
  <1>1. /\ pc = [p \in Procs |-> "closed"] /\ entries = [i \in Slots |-> Empty] /\ file = <<>>
        /\ nextSeq = [p \in Procs |-> 1] /\ puts = 0 /\ written = [k \in StoreKeys |-> 0]
        /\ lost = {} /\ stale = FALSE /\ evicted = FALSE /\ cramped = FALSE
    BY DEF storeInit
  <1>2. Empty \in Entries /\ Empty.key = NoKey
    BY DEF Empty, Entries, Names
  <1>3. file \in Seq(FileLines) /\ Len(file) = 0 /\ Good(file) = {} /\ MaxEntries \in Nat
    BY <1>1, EmptySeq, SlotsAre DEF Good
  <1>4. StoreTypes
    <2>1. pc \in [Procs -> {"closed", "mapped", "open", "fill", "truncate", "write"}]
      BY <1>1
    <2>2. entries \in [Slots -> Entries]
      BY <1>1, <1>2
    <2>3. nextSeq \in [Procs -> Nat \ {0}] /\ written \in [StoreKeys -> Nat] /\ puts \in Nat
      BY <1>1
    <2>4. Len(file) <= MaxEntries
      BY <1>3
    <2>5. stale \in BOOLEAN /\ evicted \in BOOLEAN /\ cramped \in BOOLEAN
      BY <1>1
    <2> QED BY <1>3, <2>1, <2>2, <2>3, <2>4, <2>5 DEF StoreTypes
  <1>5. (\A p \in Procs : pc[p] = "closed") /\ Used = {}
    BY <1>1 DEF Used, Occupied
  <1>6. InPut /\ Unheld /\ TableSays
    BY <1>5 DEF InPut, Holds, Unheld, TableSays, Opened
  <1>7. Unique
    <2>1. NoKey \notin Known
      BY StoreAssumption DEF Known, Plain
    <2>2. \A i \in Slots : entries[i].key = NoKey
      BY <1>1, <1>2
    <2> QED BY <1>3, <2>1, <2>2 DEF Unique, Distinct
  <1>8. FileSays
    <2>1. ASSUME NEW k \in Plain PROVE Says(file, Good(file), k, written[k])
      BY <1>1, <1>3 DEF Says, Plain
    <2> QED BY <1>1, <2>1 DEF FileSays
  <1>9. Room
    BY <1>1, <1>3, <1>5 DEF Room
  <1> QED BY <1>4, <1>6, <1>7, <1>8, <1>9 DEF StoreInv

LEMMA StoreNextInv == StoreInv /\ [storeNext]_storeVars => StoreInv'
  <1> SUFFICES ASSUME StoreInv, [storeNext]_storeVars PROVE StoreInv'
    OBVIOUS
  <1>1. ASSUME NEW p \in Procs, MapRegion(p) PROVE StoreInv'
    BY <1>1, MapRegionKeeps
  <1>2. ASSUME NEW p \in Procs, OpenOrCreate(p) PROVE StoreInv'
    BY <1>2, OpenOrCreateKeeps
  <1>3. ASSUME NEW p \in Procs, Close(p) PROVE StoreInv'
    BY <1>3, CloseKeeps
  <1>4. ASSUME NEW p \in Procs, NEW k \in StoreKeys, PutClear(p, k) PROVE StoreInv'
    BY <1>4, PutClearKeeps
  <1>5. ASSUME NEW p \in Procs, PutFill(p) PROVE StoreInv'
    BY <1>5, PutFillKeeps
  <1>6. ASSUME NEW p \in Procs, PersistOpen(p) PROVE StoreInv'
    BY <1>6, PersistOpenKeeps
  <1>7. ASSUME NEW p \in Procs, PersistLines(p) PROVE StoreInv'
    BY <1>7, PersistLinesKeeps
  <1>8. ASSUME NEW p \in Procs, Crash(p) PROVE StoreInv'
    BY <1>8, CrashKeeps
  <1>9. ASSUME UNCHANGED storeVars PROVE StoreInv'
    <2>1. UNCHANGED <<pc, putting, entries, file, nextSeq, puts, written, lost, stale, evicted, cramped>>
      BY <1>9 DEF storeVars
    <2>2. pc' \in [Procs -> {"closed", "mapped", "open", "fill", "truncate", "write"}] /\ nextSeq' \in [Procs -> Nat \ {0}]
      BY <2>1 DEF StoreInv, StoreTypes
    <2>3. (\A q \in Procs : pc'[q] = "closed") => Used = {}
      BY <2>1 DEF StoreInv, Unheld
    <2>4. Opened' => Opened
      BY <2>1 DEF Opened
    <2> QED BY <2>1, <2>2, <2>3, <2>4, PhasesKeep
  <1> QED BY <1>1, <1>2, <1>3, <1>4, <1>5, <1>6, <1>7, <1>8, <1>9 DEF storeNext

\* Opening, putting, closing and crashing, in any order, keep the types, and keep the
\* table and the file apart and together as OpenOrCreate, Put and PersistLocked mean them.
THEOREM StoreIsSound == StoreSpec => []StoreInv
  BY StoreInitInv, StoreNextInv, PTL DEF StoreSpec

LEMMA InvKeepsLastValue == StoreInv => KeepsLastValue
  <1> SUFFICES ASSUME StoreInv, ~Locked, NEW k \in Plain, k \notin lost PROVE Held(k) = written[k]
    BY DEF KeepsLastValue
  <1>1. CASE Used # {}
    <2>1. Says(entries, Slots, k, written[k])
      BY <1>1 DEF StoreInv, TableSays
    <2>2. Lookup(entries, k) = written[k]
      BY <2>1, LookupFinds
    <2> QED BY <1>1, <2>2 DEF Held, Used
  <1>2. CASE Used = {}
    <2> DEFINE T == LoadLocked(file)
    <2>1. file \in Seq(FileLines) /\ Len(file) <= MaxEntries /\ T = LoadLocked(file)
      BY DEF StoreInv, StoreTypes
    <2> HIDE DEF T
    <2>2. ~stale /\ \A p \in Procs : pc[p] \notin {"fill", "truncate"}
      BY <1>2 DEF StoreInv, FileSays, Locked, Holds
    <2>3. Says(file, Good(file), k, written[k])
      BY <2>2 DEF StoreInv, FileSays
    <2>4. k # NoKey
      BY StoreAssumption DEF Plain
    <2>5. \A q, v : Says(file, Good(file), q, v) /\ q # NoKey => Says(T, Slots, q, v)
      BY <2>1, Loaded
    <2>6. Lookup(T, k) = written[k]
      BY <2>3, <2>4, <2>5, LookupFinds
    <2>7. Held(k) = Lookup(T, k)
      BY <1>2, <2>1 DEF Held, Used
    <2> QED BY <2>6, <2>7
  <1> QED BY <1>1, <1>2

\* However many processes map the store, crash in Put and come back, TryGet or the next
\* OpenOrCreate gives every key's last value, but for those evicted or cut off by a crash.
THEOREM LastValuesAreKept == StoreSpec => []KeepsLastValue
  BY StoreIsSound, InvKeepsLastValue, PTL

LEMMA InvEvicts == StoreInv => EvictsOnlyForRoom
  <1> SUFFICES ASSUME StoreInv, evicted, ~cramped, ~Locked
               PROVE  Cardinality({k \in StoreKeys : written[k] # 0}) > MaxEntries
    BY DEF EvictsOnlyForRoom
  <1>1. \A k : ~FillsKey(k)
    BY DEF FillsKey, Locked, Holds
  <1>2. {k \in StoreKeys : k \in PutKeys \/ FillsKey(k)} = {k \in StoreKeys : written[k] # 0}
    BY <1>1 DEF PutKeys
  <1> QED BY <1>2 DEF StoreInv, Room

\* Put gives an entry away only when more keys were put than the table has entries, so
\* long as every entry was spent on a whole key (TryGet compares, Put cuts at 191 bytes).
THEOREM EvictionsMakeRoom == StoreSpec => []EvictsOnlyForRoom
  BY StoreIsSound, InvEvicts, PTL

=============================================================================
