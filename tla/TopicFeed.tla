------------------------------ MODULE TopicFeed ------------------------------
(***************************************************************************)
(* What a Native Link authority promises its subscribers: there is one log  *)
(* of accepted writes per session, a subscriber is a position in it, and    *)
(* reading brings the subscriber's picture up to the end of the log.  There *)
(* are no queues, envelopes, leases or rejections here; NativeLinkCore is    *)
(* shown to implement this specification.                                   *)
(***************************************************************************)
EXTENDS Integers, Sequences

CONSTANTS Subscribers, Paths, Values

VARIABLES
    session,    \* the authority's session
    log,        \* the writes accepted in the session: [path, value]
    kept,       \* path -> latest value of the topics replayed to newcomers
    next,       \* subscriber -> position of the first write it has not read
    held        \* subscriber -> (path -> value it holds)

vars == <<session, log, kept, next, held>>

Restricted(f, S) == [s \in S |-> f[s]]

\* "picture" after the writes "news", in order.
Updated(picture, news) ==
    LET paths == {news[i].path : i \in DOMAIN news}
        Final(p) == CHOOSE i \in DOMAIN news :
                        /\ news[i].path = p
                        /\ \A j \in DOMAIN news : news[j].path = p => j <= i
    IN  [p \in DOMAIN picture \cup paths |->
            IF p \in paths THEN news[Final(p)].value ELSE picture[p]]

Write(p, value) ==
    /\ log' = Append(log, [path |-> p, value |-> value])
    /\ kept' \in {kept, Updated(kept, <<[path |-> p, value |-> value]>>)}
    /\ p \in DOMAIN kept => kept'[p] = value
    /\ UNCHANGED <<session, next, held>>

\* A newcomer starts at the end of the log, a returning one where it was.
Join(s) ==
    /\ next' = [r \in DOMAIN next \cup {s} |->
                  IF r \in DOMAIN next THEN next[r] ELSE Len(log) + 1]
    /\ held' = [held EXCEPT ![s] = kept]
    /\ UNCHANGED <<session, log, kept>>

Leave(s) ==
    /\ s \in DOMAIN next
    /\ next' = Restricted(next, DOMAIN next \ {s})
    /\ UNCHANGED <<session, log, kept, held>>

Read(s) ==
    /\ s \in DOMAIN next
    /\ held' = [held EXCEPT ![s] = Updated(@, SubSeq(log, next[s], Len(log)))]
    /\ next' = [next EXCEPT ![s] = Len(log) + 1]
    /\ UNCHANGED <<session, log, kept>>

NewSession ==
    /\ session' = session + 1
    /\ log' = <<>>
    /\ next' = [s \in DOMAIN next |-> 1]
    /\ UNCHANGED <<kept, held>>

Init ==
    /\ session = 1
    /\ log = <<>>
    /\ kept = <<>>
    /\ next = <<>>
    /\ held = [s \in Subscribers |-> <<>>]

Next ==
    \/ \E p \in Paths, value \in Values : Write(p, value)
    \/ \E s \in Subscribers : Join(s) \/ Leave(s) \/ Read(s)
    \/ NewSession

Spec == Init /\ [][Next]_vars
=============================================================================
