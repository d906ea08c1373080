----------------------------- MODULE DirectRing ------------------------------
(***************************************************************************)
(* The ring of the Direct transport (sd_direct_ring.cpp), byte by byte: one   *)
(* writer that copies a frame behind writeIndex and then moves it, and one     *)
(* reader that copies frames from a cursor of its own and tells the writer     *)
(* only at the end of a drain, through consumerReadIndex.  Either process may  *)
(* end and start again while the other keeps the memory alive.                 *)
(*                                                                            *)
(* A byte is named by the frame it was written for and its place in it, so      *)
(* that a torn or overwritten frame can be told from an intact one.             *)
(***************************************************************************)
EXTENDS Integers, Sequences

CONSTANTS
    Capacity,       \* header->capacityBytes
    HeaderBytes,    \* sizeof(wire::MessageHeader)
    Sizes,          \* the total sizes of the frames the publisher may write
    SeqLimit,       \* sequence numbers wrap here (2^64)
    NoMessage

ASSUME RingAssumption ==
    /\ Capacity \in Nat \ {0}
    /\ HeaderBytes \in Nat \ {0}
    /\ \A n \in Sizes : n \in Nat /\ n >= HeaderBytes
    /\ SeqLimit \in Nat \ {0}

Offsets == 0 .. Capacity - 1
Message == [seq : 0 .. SeqLimit - 1, size : Sizes]
Byte == [seq : Nat, at : Nat, size : Nat]
Zero == [seq |-> 0, at |-> 0, size |-> 0]

VARIABLES
    ring,           \* offset -> byte
    writeIndex, consumerRead,
    writer,         \* where WriteUpsert is
    frame,          \* the message it writes
    seq,            \* m_publishedSeq
    reader,         \* where the subscriber's loop is
    cursor,         \* m_readCursor
    header,         \* the frame header ReadNextUpsert copied out
    out,            \* the message it returned last
    unread          \* history: the committed frames from the cursor on

writing == <<writer, frame, seq>>
reading == <<reader, cursor, header, out>>
vars == <<ring, writeIndex, consumerRead, writing, reading, unread>>

\* Variant: one too late.
WrapLate(i) == IF i > Capacity THEN i - Capacity ELSE i

\* (index + count) % capacity, for an index in the ring and a count within it.
Wrap(i) == IF i >= Capacity THEN i - Capacity ELSE i

\* Bytes from offset a up to offset b; RingUsed is the distance to the writer.
Distance(a, b) == IF b >= a THEN b - a ELSE Capacity - (a - b)
RingUsed == Distance(consumerRead, writeIndex)

\* Variant: no guard byte tells a full ring from an empty one.
RingFreeAll == Capacity - RingUsed
RingFree == Capacity - RingUsed - 1

-----------------------------------------------------------------------------
(* WriteUpsert *)

NextSeq == IF seq + 1 = SeqLimit THEN 0 ELSE seq + 1

Fits(n) == n < Capacity /\ RingFree >= n

BeginWrite(n) ==
    /\ writer = "idle"
    /\ Fits(n)
    /\ frame' = [seq |-> seq, size |-> n]
    /\ seq' = NextSeq
    /\ writer' = "header"
    /\ UNCHANGED <<ring, writeIndex, consumerRead, reading, unread>>

\* No blocking: the sequence number is spent and the value lost.
Drop(n) ==
    /\ writer = "idle"
    /\ ~Fits(n)
    /\ seq' = NextSeq
    /\ UNCHANGED <<ring, writeIndex, consumerRead, writer, frame, reading, unread>>

\* The ring with bytes "first" to "last" of the frame behind writeIndex.
Copied(first, last) ==
    [o \in Offsets |->
        LET at == Distance(writeIndex, o) IN
        IF first <= at /\ at <= last
        THEN [seq |-> frame.seq, at |-> at, size |-> frame.size]
        ELSE ring[o]]

CopyHeader ==
    /\ writer = "header"
    /\ ring' = Copied(0, HeaderBytes - 1)
    /\ writer' = "body"
    /\ UNCHANGED <<writeIndex, consumerRead, frame, seq, reading, unread>>

CopyBody ==
    /\ writer = "body"
    /\ ring' = Copied(HeaderBytes, frame.size - 1)
    /\ writer' = "commit"
    /\ UNCHANGED <<writeIndex, consumerRead, frame, seq, reading, unread>>

Commit ==
    /\ writer = "commit"
    /\ writeIndex' = Wrap(writeIndex + frame.size)
    /\ unread' = Append(unread, [msg |-> frame, from |-> writeIndex])
    /\ writer' = "idle"
    /\ UNCHANGED <<ring, consumerRead, frame, seq, reading>>

\* The publisher's process ends, wherever it is, and another attaches.
PublisherRestart ==
    /\ writer' = "idle"
    /\ seq' = 0
    /\ UNCHANGED <<ring, writeIndex, consumerRead, frame, reading, unread>>

-----------------------------------------------------------------------------
(* The subscriber *)

Attach ==
    /\ reader = "off"
    /\ cursor' = writeIndex
    /\ unread' = <<>>
    /\ reader' = "attached"
    /\ UNCHANGED <<ring, writeIndex, consumerRead, writing, header, out>>

AttachPublish ==
    /\ reader = "attached"
    /\ consumerRead' = cursor
    /\ reader' = "drain"
    /\ UNCHANGED <<ring, writeIndex, writing, cursor, header, out, unread>>

Malformed(byte) == byte.at # 0 \/ byte.size < HeaderBytes

\* The first half of ReadNextUpsert.  A malformed header makes the reader skip
\* to the writer and ends the drain.
ReadHeader ==
    /\ reader = "drain"
    /\ cursor # writeIndex
    /\ header' = [b \in 0 .. HeaderBytes - 1 |-> ring[Wrap(cursor + b)]]
    /\ IF Malformed(ring[cursor])
       THEN reader' = "publish" /\ cursor' = writeIndex /\ unread' = <<>>
       ELSE reader' = "body" /\ UNCHANGED <<cursor, unread>>
    /\ UNCHANGED <<ring, writeIndex, consumerRead, writing, out>>

\* What the copied header and the bytes behind it say, if they are one frame.
Received ==
    LET msg == [seq |-> header[0].seq, size |-> header[0].size]
        BelongsTo(byte, b) == byte = [seq |-> msg.seq, at |-> b, size |-> msg.size]
    IN  IF /\ \A b \in 0 .. HeaderBytes - 1 : BelongsTo(header[b], b)
           /\ \A b \in HeaderBytes .. msg.size - 1 : BelongsTo(ring[Wrap(cursor + b)], b)
        THEN msg
        ELSE NoMessage

\* Variant: the producer is told after every frame.
TakePublishing ==
    /\ reader = "body"
    /\ out' = Received
    /\ cursor' = Wrap(cursor + header[0].size)
    /\ consumerRead' = Wrap(cursor + header[0].size)
    /\ unread' = Tail(unread)
    /\ reader' = "drain"
    /\ UNCHANGED <<ring, writeIndex, writing, header>>

\* The second half: the body, the callback and the local cursor.
Take ==
    /\ reader = "body"
    /\ out' = Received
    /\ cursor' = Wrap(cursor + header[0].size)
    /\ unread' = Tail(unread)
    /\ reader' = "drain"
    /\ UNCHANGED <<ring, writeIndex, consumerRead, writing, header>>

DrainEnd ==
    /\ reader = "drain"
    /\ cursor = writeIndex
    /\ reader' = "publish"
    /\ UNCHANGED <<ring, writeIndex, consumerRead, writing, cursor, header, out, unread>>

\* Variant: what the writer has committed meanwhile is called read, too.
PublishWriteIndex ==
    /\ reader = "publish"
    /\ consumerRead' = writeIndex
    /\ reader' = "drain"
    /\ UNCHANGED <<ring, writeIndex, writing, cursor, header, out, unread>>

PublishReadIndex ==
    /\ reader = "publish"
    /\ consumerRead' = cursor
    /\ reader' = "drain"
    /\ UNCHANGED <<ring, writeIndex, writing, cursor, header, out, unread>>

\* Stop, or the end of the process.
SubscriberEnds ==
    /\ reader # "off"
    /\ reader' = "off"
    /\ UNCHANGED <<ring, writeIndex, consumerRead, writing, cursor, header, out, unread>>

-----------------------------------------------------------------------------
Init ==
    /\ ring = [o \in Offsets |-> Zero]
    /\ writeIndex = 0 /\ consumerRead = 0
    /\ writer = "idle" /\ seq = 0
    /\ frame = NoMessage
    /\ reader = "off" /\ cursor = 0
    /\ header = [b \in 0 .. HeaderBytes - 1 |-> Zero]
    /\ out = NoMessage
    /\ unread = <<>>

WriterStep ==
    \/ \E n \in Sizes : BeginWrite(n) \/ Drop(n)
    \/ CopyHeader \/ CopyBody \/ Commit \/ PublisherRestart

ReaderStep ==
    AttachPublish \/ ReadHeader \/ Take \/ DrainEnd \/ PublishReadIndex

Next == WriterStep \/ ReaderStep \/ Attach \/ SubscriberEnds

Spec == Init /\ [][Next]_vars

\* The subscriber's thread runs; nothing makes the writer stop or pause.
FairSpec == Spec /\ WF_vars(ReaderStep)

-----------------------------------------------------------------------------
(* Properties *)

\* Every variable has the shape the C++ declarations give it.
TypeOK ==
    /\ ring \in [Offsets -> Byte]
    /\ writeIndex \in Offsets /\ consumerRead \in Offsets /\ cursor \in Offsets
    /\ writer \in {"idle", "header", "body", "commit"}
    /\ frame \in Message \cup {NoMessage}
    /\ writer # "idle" => frame \in Message
    /\ seq \in 0 .. SeqLimit - 1
    /\ reader \in {"off", "attached", "drain", "body", "publish"}
    /\ header \in [0 .. HeaderBytes - 1 -> Byte]
    /\ unread \in Seq([msg : Message, from : Offsets])

\* Every committed frame the subscriber has still to read is in the ring byte
\* for byte, while the writer copies the next ones, wraps, drops or dies
\* half-way, and whatever part of its reading the subscriber has published.
UnreadIntact ==
    \A i \in DOMAIN unread : \A b \in 0 .. unread[i].msg.size - 1 :
        ring[Wrap(unread[i].from + b)] =
            [seq |-> unread[i].msg.seq, at |-> b, size |-> unread[i].msg.size]

\* A drain ends although the publisher never pauses: space comes back only with
\* the cursor published after it.
DrainEnds == reader = "drain" ~> reader \in {"publish", "off"}

Fifo == INSTANCE LossyFifo WITH
    Messages <- Message,
    queue    <- [i \in DOMAIN unread |-> unread[i].msg]

\* Two indices, a guard byte and a private cursor make a lossy FIFO: what
\* ReadNextUpsert decodes from the ring is the next frame WriteUpsert committed.
ImplementsFifo == Fifo!Spec
=============================================================================
