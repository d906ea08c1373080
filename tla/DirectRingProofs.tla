-------------------------- MODULE DirectRingProofs ---------------------------
(***************************************************************************)
(* Proofs about DirectRing, for every capacity, header size, set of frame    *)
(* sizes and range of sequence numbers.                                      *)
(*                                                                          *)
(* Positions are compared by their distance from the reader's cursor, which   *)
(* turns arithmetic modulo the capacity into plain addition as long as        *)
(* everything lies within one lap; "Ordered" says that it does.               *)
(***************************************************************************)
EXTENDS DirectRing, SequenceTheorems, TLAPS

-----------------------------------------------------------------------------
(* Arithmetic of the ring *)

\* Adding less than a lap to an offset and wrapping gives an offset.
LEMMA WrapOffset ==
    ASSUME NEW a \in Offsets, NEW n \in Nat, n <= Capacity
    PROVE  Wrap(a + n) \in Offsets
  BY RingAssumption DEF Wrap, Offsets

\* A distance is an offset, and there is none from an offset to itself.
LEMMA DistanceType ==
    ASSUME NEW a \in Offsets, NEW b \in Offsets
    PROVE  Distance(a, b) \in Offsets /\ Distance(a, a) = 0
  BY RingAssumption DEF Distance, Offsets

\* Two offsets at no distance are one.
LEMMA DistanceZero ==
    ASSUME NEW a \in Offsets, NEW b \in Offsets, Distance(a, b) = 0
    PROVE  a = b
  BY RingAssumption DEF Distance, Offsets

\* The far end moves ahead and stays within the lap.
LEMMA DistanceForward ==
    ASSUME NEW a \in Offsets, NEW w \in Offsets, NEW n \in Nat,
           Distance(a, w) + n <= Capacity - 1
    PROVE  /\ Wrap(w + n) \in Offsets
           /\ Distance(a, Wrap(w + n)) = Distance(a, w) + n
  BY RingAssumption DEF Distance, Offsets, Wrap

\* The near end moves ahead, not past the far one.
LEMMA DistanceBack ==
    ASSUME NEW a \in Offsets, NEW o \in Offsets, NEW n \in Nat,
           n <= Distance(a, o)
    PROVE  /\ Wrap(a + n) \in Offsets
           /\ Distance(Wrap(a + n), o) = Distance(a, o) - n
  BY RingAssumption DEF Distance, Offsets, Wrap

\* What lies between the consumer's published index and the writer is not in
\* the n bytes behind the writer if those fit before the guard byte.
LEMMA BehindTheWriter ==
    ASSUME NEW r \in Offsets, NEW c \in Offsets, NEW w \in Offsets, NEW o \in Offsets,
           NEW n \in Nat,
           Distance(r, c) + Distance(c, w) = Distance(r, w),
           Distance(r, w) + n <= Capacity - 1,
           Distance(c, o) < Distance(c, w)
    PROVE  Distance(w, o) >= n
  BY RingAssumption DEF Distance, Offsets

-----------------------------------------------------------------------------
(* The inductive invariant *)

FrameByte(msg, b) == [seq |-> msg.seq, at |-> b, size |-> msg.size]

\* The frame being written fits before the guard byte.
Room ==
    writer # "idle" => RingUsed + frame.size <= Capacity - 1

\* Going round from consumerReadIndex one meets the cursor, then the writer.
Between ==
    Distance(consumerRead, cursor) + Distance(cursor, writeIndex) = RingUsed

\* Unread frames lie between the cursor and the writer, one after the other.
Within ==
    \A i \in DOMAIN unread :
        Distance(cursor, unread[i].from) + unread[i].msg.size
            <= Distance(cursor, writeIndex)

InTurn ==
    \A i, j \in DOMAIN unread : i < j =>
        Distance(cursor, unread[i].from) + unread[i].msg.size
            <= Distance(cursor, unread[j].from)

\* They leave no gap.
Chained ==
    /\ unread = <<>> => cursor = writeIndex
    /\ unread # <<>> => unread[1].from = cursor
    /\ \A i \in DOMAIN unread :
          Wrap(unread[i].from + unread[i].msg.size) =
              IF i = Len(unread) THEN writeIndex ELSE unread[i + 1].from

\* What the writer has copied so far of a frame not yet committed.
HalfWritten ==
    /\ writer = "body" =>
          \A b \in 0 .. HeaderBytes - 1 : ring[Wrap(writeIndex + b)] = FrameByte(frame, b)
    /\ writer = "commit" =>
          \A b \in 0 .. frame.size - 1 : ring[Wrap(writeIndex + b)] = FrameByte(frame, b)

\* The header the reader holds is that of the frame at its cursor.
HeaderHeld ==
    reader = "body" =>
        /\ unread # <<>>
        /\ \A b \in 0 .. HeaderBytes - 1 : header[b] = FrameByte(unread[1].msg, b)

RingInv ==
    /\ TypeOK /\ Room
    /\ Between /\ Within /\ InTurn /\ Chained
    /\ UnreadIntact /\ HalfWritten /\ HeaderHeld

\* A message has room for its header and a size that is a number.
LEMMA MessageSize ==
    ASSUME NEW m \in Message
    PROVE  m.size \in Nat /\ m.size >= HeaderBytes /\ HeaderBytes \in Nat /\ HeaderBytes >= 1
  BY RingAssumption DEF Message

\* The history is a sequence of frames, each with its place.
LEMMA UnreadType ==
    ASSUME TypeOK
    PROVE  /\ Len(unread) \in Nat /\ DOMAIN unread = 1 .. Len(unread)
           /\ \A i \in DOMAIN unread :
                unread[i].from \in Offsets /\ unread[i].msg \in Message
<1> DEFINE Entry == [msg : Message, from : Offsets]
<1>1. unread \in Seq(Entry)
  BY DEF TypeOK
<1>2. \A i \in 1 .. Len(unread) : unread[i] \in Entry
  <2> HIDE DEF Entry
  <2>1. QED
    BY <1>1, ElementOfSeq
<1>3. Len(unread) \in Nat /\ DOMAIN unread = 1 .. Len(unread)
  <2> HIDE DEF Entry
  <2>1. QED
    BY <1>1, LenProperties
<1>4. QED
  BY <1>2, <1>3

\* The invariant holds in the empty ring.
LEMMA RingInit == Init => RingInv
<1> SUFFICES ASSUME Init PROVE RingInv
  OBVIOUS
<1>1. TypeOK
  BY RingAssumption DEF Init, TypeOK, Offsets, Byte, Zero
<1>2. Room /\ Between
  BY RingAssumption DEF Init, Room, Between, RingUsed, Distance
<1>3. Within /\ InTurn /\ Chained /\ UnreadIntact /\ HalfWritten /\ HeaderHeld
  BY DEF Init, Within, InTurn, Chained, UnreadIntact, HalfWritten, HeaderHeld
<1>4. QED
  BY <1>1, <1>2, <1>3 DEF RingInv

-----------------------------------------------------------------------------
(* The writer *)

\* A byte of an unread frame lies between the cursor and the writer.
LEMMA UnreadByte ==
    ASSUME RingInv, NEW i \in DOMAIN unread, NEW b \in 0 .. unread[i].msg.size - 1
    PROVE  /\ Wrap(unread[i].from + b) \in Offsets
           /\ Distance(cursor, Wrap(unread[i].from + b)) < Distance(cursor, writeIndex)
<1>1. /\ unread[i].from \in Offsets /\ unread[i].msg \in Message
      /\ cursor \in Offsets /\ writeIndex \in Offsets
  BY UnreadType DEF RingInv, TypeOK
<1>2. Distance(cursor, unread[i].from) + unread[i].msg.size <= Distance(cursor, writeIndex)
  BY DEF RingInv, Within
<1>3. /\ Distance(cursor, unread[i].from) \in Offsets
      /\ Distance(cursor, writeIndex) \in Offsets
  BY <1>1, DistanceType
<1>4. Distance(cursor, unread[i].from) + b <= Capacity - 1 /\ b \in Nat
  BY <1>1, <1>2, <1>3, MessageSize, RingAssumption DEF Offsets
<1>5. QED
  BY <1>1, <1>2, <1>3, <1>4, DistanceForward, MessageSize, RingAssumption DEF Offsets

\* Copying bytes of the frame behind writeIndex changes those bytes only.
LEMMA CopiedBytes ==
    ASSUME RingInv, writer # "idle",
           NEW first \in Nat, NEW last \in Int, last < frame.size,
           ring' = Copied(first, last), writeIndex' = writeIndex
    PROVE  /\ ring' \in [Offsets -> Byte]
           /\ \A b \in 0 .. frame.size - 1 :
                ring'[Wrap(writeIndex + b)] =
                    IF first <= b /\ b <= last THEN FrameByte(frame, b)
                    ELSE ring[Wrap(writeIndex + b)]
           /\ \A i \in DOMAIN unread : \A b \in 0 .. unread[i].msg.size - 1 :
                ring'[Wrap(unread[i].from + b)] = ring[Wrap(unread[i].from + b)]
<1>1. /\ frame \in Message /\ frame.size \in Nat
      /\ writeIndex \in Offsets /\ cursor \in Offsets /\ consumerRead \in Offsets
      /\ ring \in [Offsets -> Byte]
  BY MessageSize DEF RingInv, TypeOK
<1>2. RingUsed + frame.size <= Capacity - 1 /\ RingUsed \in Nat
  BY <1>1, DistanceType DEF RingInv, Room, RingUsed, Offsets
<1>3. \A o \in Offsets : Distance(writeIndex, o) \in Nat
  BY <1>1, DistanceType DEF Offsets
<1>4. ring' \in [Offsets -> Byte]
  <2>1. \A at \in Nat : FrameByte(frame, at) \in Byte
    BY <1>1, RingAssumption DEF FrameByte, Byte, Message
  <2>2. QED
    BY <1>1, <1>3, <2>1 DEF Copied, FrameByte
<1>5. ASSUME NEW b \in 0 .. frame.size - 1
      PROVE  ring'[Wrap(writeIndex + b)] =
                IF first <= b /\ b <= last THEN FrameByte(frame, b)
                ELSE ring[Wrap(writeIndex + b)]
  <2>1. Distance(writeIndex, writeIndex) = 0
    BY <1>1, DistanceType
  <2>2. /\ Wrap(writeIndex + b) \in Offsets
        /\ Distance(writeIndex, Wrap(writeIndex + b)) = b
    BY <1>1, <1>2, <2>1, DistanceForward, RingAssumption
  <2>3. QED
    BY <2>2 DEF Copied, FrameByte
<1>6. ASSUME NEW i \in DOMAIN unread, NEW b \in 0 .. unread[i].msg.size - 1
      PROVE  ring'[Wrap(unread[i].from + b)] = ring[Wrap(unread[i].from + b)]
  <2> DEFINE o == Wrap(unread[i].from + b)
  <2>1. o \in Offsets /\ Distance(cursor, o) < Distance(cursor, writeIndex)
    BY UnreadByte
  <2>2. Distance(consumerRead, cursor) + Distance(cursor, writeIndex)
          = Distance(consumerRead, writeIndex)
    BY DEF RingInv, Between, RingUsed
  <2>3. Distance(writeIndex, o) >= frame.size
    <3> HIDE DEF o
    <3>1. QED
      BY <1>1, <1>2, <2>1, <2>2, BehindTheWriter DEF RingUsed
  <2>4. ~(Distance(writeIndex, o) <= last)
    <3> HIDE DEF o
    <3>1. QED
      BY <1>1, <1>3, <2>1, <2>3
  <2>5. QED
    BY <2>1, <2>4 DEF Copied
<1>7. QED
  BY <1>4, <1>5, <1>6

\* The header's copy preserves the invariant.
LEMMA CopyHeaderStep == RingInv /\ CopyHeader => RingInv'
<1> SUFFICES ASSUME RingInv, CopyHeader PROVE RingInv'
  OBVIOUS
<1>1. /\ writer = "header" /\ writer' = "body" /\ ring' = Copied(0, HeaderBytes - 1)
      /\ UNCHANGED <<writeIndex, consumerRead, frame, seq, reader, cursor, header, out, unread>>
  BY DEF CopyHeader, reading
<1>2. frame \in Message /\ frame.size >= HeaderBytes /\ HeaderBytes \in Nat /\ HeaderBytes >= 1
      /\ frame.size \in Nat
  BY <1>1, MessageSize DEF RingInv, TypeOK
<1>3. /\ ring' \in [Offsets -> Byte]
      /\ \A b \in 0 .. frame.size - 1 : b <= HeaderBytes - 1 =>
            ring'[Wrap(writeIndex + b)] = FrameByte(frame, b)
      /\ \A i \in DOMAIN unread : \A b \in 0 .. unread[i].msg.size - 1 :
            ring'[Wrap(unread[i].from + b)] = ring[Wrap(unread[i].from + b)]
  BY <1>1, <1>2, CopiedBytes
<1>4. TypeOK'
  BY <1>1, <1>2, <1>3 DEF RingInv, TypeOK
<1>5. Room' /\ Between' /\ Within' /\ InTurn' /\ Chained' /\ HeaderHeld'
  BY <1>1 DEF RingInv, Room, Between, RingUsed, Within, InTurn, Chained, HeaderHeld
<1>6. UnreadIntact'
  BY <1>1, <1>3 DEF RingInv, UnreadIntact
<1>7. HalfWritten'
  BY <1>1, <1>2, <1>3 DEF HalfWritten
<1>8. QED
  BY <1>4, <1>5, <1>6, <1>7 DEF RingInv

\* So does the copy of what follows it.
LEMMA CopyBodyStep == RingInv /\ CopyBody => RingInv'
<1> SUFFICES ASSUME RingInv, CopyBody PROVE RingInv'
  OBVIOUS
<1>1. /\ writer = "body" /\ writer' = "commit" /\ ring' = Copied(HeaderBytes, frame.size - 1)
      /\ UNCHANGED <<writeIndex, consumerRead, frame, seq, reader, cursor, header, out, unread>>
  BY DEF CopyBody, reading
<1>2. frame \in Message /\ frame.size >= HeaderBytes /\ HeaderBytes \in Nat /\ HeaderBytes >= 1
      /\ frame.size \in Nat
  BY <1>1, MessageSize DEF RingInv, TypeOK
<1>3. /\ ring' \in [Offsets -> Byte]
      /\ \A b \in 0 .. frame.size - 1 :
            ring'[Wrap(writeIndex + b)] =
                IF HeaderBytes <= b /\ b <= frame.size - 1 THEN FrameByte(frame, b)
                ELSE ring[Wrap(writeIndex + b)]
      /\ \A i \in DOMAIN unread : \A b \in 0 .. unread[i].msg.size - 1 :
            ring'[Wrap(unread[i].from + b)] = ring[Wrap(unread[i].from + b)]
  BY <1>1, <1>2, CopiedBytes
<1>4. TypeOK'
  BY <1>1, <1>2, <1>3 DEF RingInv, TypeOK
<1>5. Room' /\ Between' /\ Within' /\ InTurn' /\ Chained' /\ HeaderHeld'
  BY <1>1 DEF RingInv, Room, Between, RingUsed, Within, InTurn, Chained, HeaderHeld
<1>6. UnreadIntact'
  BY <1>1, <1>3 DEF RingInv, UnreadIntact
<1>7. \A b \in 0 .. HeaderBytes - 1 : ring[Wrap(writeIndex + b)] = FrameByte(frame, b)
  BY <1>1 DEF RingInv, HalfWritten
<1>8. HalfWritten'
  BY <1>1, <1>2, <1>3, <1>7 DEF HalfWritten
<1>9. QED
  BY <1>4, <1>5, <1>6, <1>8 DEF RingInv

\* A frame is begun only if it fits, so Room holds.
LEMMA BeginWriteStep ==
    ASSUME RingInv, NEW n \in Sizes, BeginWrite(n)
    PROVE  RingInv'
<1>1. /\ writer = "idle" /\ writer' = "header" /\ frame' = [seq |-> seq, size |-> n]
      /\ seq' = NextSeq
      /\ UNCHANGED <<ring, writeIndex, consumerRead, reader, cursor, header, out, unread>>
  BY DEF BeginWrite, reading
<1>2. frame' \in Message /\ seq' \in 0 .. SeqLimit - 1
  BY <1>1, RingAssumption DEF RingInv, TypeOK, Message, NextSeq
<1>3. TypeOK'
  BY <1>1, <1>2 DEF RingInv, TypeOK
<1>4. Room'
  <2>1. RingFree >= n /\ n \in Nat
    BY RingAssumption DEF BeginWrite, Fits
  <2>2. RingUsed \in Offsets /\ RingUsed' = RingUsed
    BY <1>1, DistanceType DEF RingInv, TypeOK, RingUsed
  <2>3. frame'.size = n
    BY <1>1
  <2>4. QED
    BY <2>1, <2>2, <2>3, RingAssumption DEF Room, RingFree, Offsets
<1>5. Between' /\ Within' /\ InTurn' /\ Chained' /\ HeaderHeld' /\ UnreadIntact' /\ HalfWritten'
  BY <1>1 DEF RingInv, Between, RingUsed, Within, InTurn, Chained, HeaderHeld, UnreadIntact,
              HalfWritten
<1>6. QED
  BY <1>3, <1>4, <1>5 DEF RingInv

\* A dropped frame and a publisher that starts again touch no byte.
LEMMA NoByteStep ==
    ASSUME RingInv, (\E n \in Sizes : Drop(n)) \/ PublisherRestart
    PROVE  RingInv'
<1>1. /\ writer' = writer \/ writer' = "idle"
      /\ seq' \in 0 .. SeqLimit - 1
      /\ UNCHANGED <<ring, writeIndex, consumerRead, frame, reader, cursor, header, out, unread>>
  BY RingAssumption DEF RingInv, TypeOK, Drop, PublisherRestart, reading, NextSeq
<1>2. TypeOK'
  BY <1>1 DEF RingInv, TypeOK
<1>3. Room' /\ Between' /\ Within' /\ InTurn' /\ Chained' /\ HeaderHeld'
  BY <1>1 DEF RingInv, Room, Between, RingUsed, Within, InTurn, Chained, HeaderHeld
<1>4. UnreadIntact' /\ HalfWritten'
  BY <1>1 DEF RingInv, UnreadIntact, HalfWritten
<1>5. QED
  BY <1>2, <1>3, <1>4 DEF RingInv

\* The frame copied behind the writer becomes the last unread one.
LEMMA CommitStep == RingInv /\ Commit => RingInv'
<1> SUFFICES ASSUME RingInv, Commit PROVE RingInv'
  OBVIOUS
<1> DEFINE Entry == [msg : Message, from : Offsets]
           new == [msg |-> frame, from |-> writeIndex]
           n == Len(unread)
<1>1. /\ writer = "commit" /\ writer' = "idle"
      /\ writeIndex' = Wrap(writeIndex + frame.size)
      /\ unread' = Append(unread, new)
      /\ UNCHANGED <<ring, consumerRead, frame, seq, reader, cursor, header, out>>
  BY DEF Commit, reading
<1>2. /\ frame \in Message /\ frame.size \in Nat /\ frame.size >= 1
      /\ writeIndex \in Offsets /\ cursor \in Offsets /\ consumerRead \in Offsets
  BY <1>1, MessageSize DEF RingInv, TypeOK
<1>3. /\ unread' \in Seq(Entry)
      /\ n \in Nat /\ DOMAIN unread = 1 .. n
      /\ Len(unread') = n + 1 /\ DOMAIN unread' = 1 .. n + 1
      /\ \A i \in 1 .. n : unread'[i] = unread[i]
      /\ unread'[n + 1].msg = frame /\ unread'[n + 1].from = writeIndex
  <2>1. unread \in Seq(Entry) /\ new \in Entry
    BY <1>2 DEF RingInv, TypeOK
  <2>2. new.msg = frame /\ new.from = writeIndex
    OBVIOUS
  <2> HIDE DEF Entry, new
  <2>3. QED
    BY <1>1, <2>1, <2>2, AppendProperties, LenProperties
<1> HIDE DEF n, new
<1>4. /\ Distance(consumerRead, cursor) \in Nat /\ Distance(cursor, writeIndex) \in Nat
      /\ RingUsed \in Nat
      /\ Distance(consumerRead, cursor) + Distance(cursor, writeIndex) = RingUsed
      /\ RingUsed + frame.size <= Capacity - 1
  BY <1>1, <1>2, DistanceType DEF RingInv, Room, Between, RingUsed, Offsets
<1>5. /\ writeIndex' \in Offsets
      /\ Distance(cursor, writeIndex') = Distance(cursor, writeIndex) + frame.size
      /\ Distance(consumerRead, writeIndex') = RingUsed + frame.size
  <2>1. Distance(cursor, writeIndex) + frame.size <= Capacity - 1
    BY <1>2, <1>4, RingAssumption
  <2>2. QED
    BY <1>1, <1>2, <1>4, <2>1, DistanceForward DEF RingUsed
<1>6. TypeOK'
  BY <1>1, <1>2, <1>3, <1>5 DEF RingInv, TypeOK
<1>7. Room' /\ Between' /\ HalfWritten'
  <2>1. Between'
    BY <1>1, <1>2, <1>4, <1>5 DEF Between, RingUsed
  <2>2. Room' /\ HalfWritten'
    BY <1>1 DEF Room, HalfWritten
  <2>3. QED
    BY <2>1, <2>2
<1>8. \A i \in 1 .. n :
        /\ unread[i].from \in Offsets /\ unread[i].msg \in Message
        /\ unread[i].msg.size \in Nat
        /\ Distance(cursor, unread[i].from) \in Nat
        /\ Distance(cursor, unread[i].from) + unread[i].msg.size
             <= Distance(cursor, writeIndex)
  <2>1. \A i \in 1 .. n : unread[i].from \in Offsets /\ unread[i].msg \in Message
    BY <1>3, UnreadType DEF RingInv
  <2>2. \A i \in 1 .. n :
          Distance(cursor, unread[i].from) + unread[i].msg.size <= Distance(cursor, writeIndex)
    BY <1>3 DEF RingInv, Within
  <2>3. \A o \in Offsets : Distance(cursor, o) \in Nat
    BY <1>2, DistanceType DEF Offsets
  <2>4. QED
    BY <2>1, <2>2, <2>3, MessageSize
<1>9. Within'
  <2>1. ASSUME NEW i \in 1 .. n
        PROVE  Distance(cursor, unread'[i].from) + unread'[i].msg.size
                 <= Distance(cursor, writeIndex')
    <3>1. unread'[i] = unread[i]
      BY <1>3
    <3>2. /\ Distance(cursor, unread[i].from) \in Nat /\ unread[i].msg.size \in Nat
          /\ Distance(cursor, unread[i].from) + unread[i].msg.size
               <= Distance(cursor, writeIndex)
      BY <1>8
    <3>3. QED
      BY <1>2, <1>4, <1>5, <3>1, <3>2
  <2>3. Distance(cursor, unread'[n + 1].from) + unread'[n + 1].msg.size
          <= Distance(cursor, writeIndex')
    BY <1>2, <1>3, <1>4, <1>5
  <2>4. QED
    BY <1>1, <1>3, <2>1, <2>3 DEF Within
<1>10. InTurn'
  <2>1. ASSUME NEW i \in 1 .. n + 1, NEW j \in 1 .. n + 1, i < j
        PROVE  Distance(cursor, unread'[i].from) + unread'[i].msg.size
                 <= Distance(cursor, unread'[j].from)
    <3>1. i \in 1 .. n
      BY <1>3, <2>1
    <3>2. CASE j \in 1 .. n
      BY <1>3, <2>1, <3>1, <3>2 DEF RingInv, InTurn
    <3>3. CASE j = n + 1
      BY <1>3, <1>8, <3>1, <3>3
    <3>4. QED
      BY <1>3, <3>2, <3>3
  <2>2. QED
    BY <1>1, <1>3, <2>1 DEF InTurn
<1>11. Chained'
  <2>1. unread' # <<>>
    BY <1>3
  <2>2. unread'[1].from = cursor
    <3>1. CASE n = 0
      <4>1. unread = <<>>
        BY <1>3, <3>1
      <4>2. QED
        BY <1>3, <3>1, <4>1 DEF RingInv, Chained
    <3>2. CASE n >= 1
      <4>1. unread # <<>>
        BY <3>2, EmptySeq DEF n
      <4>2. QED
        BY <1>3, <3>2, <4>1 DEF RingInv, Chained
    <3>3. QED
      BY <1>3, <3>1, <3>2
  <2>3. ASSUME NEW i \in 1 .. n + 1
        PROVE  Wrap(unread'[i].from + unread'[i].msg.size) =
                  IF i = n + 1 THEN writeIndex' ELSE unread'[i + 1].from
    <3>1. CASE i = n + 1
      BY <1>1, <1>3, <3>1
    <3>2. CASE i \in 1 .. n
      <4>1. Wrap(unread[i].from + unread[i].msg.size) =
               IF i = n THEN writeIndex ELSE unread[i + 1].from
        BY <1>3, <3>2 DEF RingInv, Chained
      <4>2. CASE i = n
        BY <1>3, <3>2, <4>1, <4>2
      <4>3. CASE i # n
        <5>1. i + 1 \in 1 .. n /\ i # n + 1
          BY <1>3, <3>2, <4>3
        <5>2. QED
          BY <1>3, <3>2, <4>1, <4>3, <5>1
      <4>4. QED
        BY <4>2, <4>3
    <3>3. QED
      BY <1>3, <3>1, <3>2
  <2>4. QED
    BY <1>1, <1>3, <2>1, <2>2, <2>3 DEF Chained
<1>12. UnreadIntact'
  <2>1. \A i \in 1 .. n : \A b \in 0 .. unread'[i].msg.size - 1 :
          ring[Wrap(unread'[i].from + b)] = FrameByte(unread'[i].msg, b)
    BY <1>3 DEF RingInv, UnreadIntact, FrameByte
  <2>2. \A b \in 0 .. frame.size - 1 : ring[Wrap(writeIndex + b)] = FrameByte(frame, b)
    BY <1>1 DEF RingInv, HalfWritten
  <2>3. \A b \in 0 .. unread'[n + 1].msg.size - 1 :
          ring[Wrap(unread'[n + 1].from + b)] = FrameByte(unread'[n + 1].msg, b)
    BY <1>3, <2>2
  <2>4. QED
    BY <1>1, <1>3, <2>1, <2>3 DEF UnreadIntact, FrameByte
<1>13. HeaderHeld'
  <2>1. ASSUME reader = "body" PROVE unread' # <<>> /\ unread'[1] = unread[1]
    <3>1. unread # <<>>
      BY <2>1 DEF RingInv, HeaderHeld
    <3>2. n >= 1
      BY <1>3, <3>1
    <3>3. QED
      BY <1>3, <3>2
  <2>2. QED
    BY <1>1, <2>1 DEF RingInv, HeaderHeld
<1>14. QED
  BY <1>6, <1>7, <1>9, <1>10, <1>11, <1>12, <1>13 DEF RingInv

-----------------------------------------------------------------------------
(* The reader *)

\* Attaching moves the cursor to the writer and skips what is unread.
LEMMA AttachStep == RingInv /\ Attach => RingInv'
<1> SUFFICES ASSUME RingInv, Attach PROVE RingInv'
  OBVIOUS
<1>1. /\ reader = "off" /\ reader' = "attached"
      /\ cursor' = writeIndex /\ unread' = <<>>
      /\ UNCHANGED <<ring, writeIndex, consumerRead, writer, frame, seq, header, out>>
  BY DEF Attach, writing
<1>2. /\ writeIndex \in Offsets /\ consumerRead \in Offsets
      /\ Distance(writeIndex, writeIndex) = 0
  BY DistanceType DEF RingInv, TypeOK
<1>3. TypeOK'
  BY <1>1 DEF RingInv, TypeOK
<1>4. Between'
  BY <1>1, <1>2, DistanceType DEF Between, RingUsed, Offsets
<1>5. Room' /\ HalfWritten' /\ HeaderHeld'
  BY <1>1 DEF RingInv, Room, RingUsed, HalfWritten, HeaderHeld
<1>6. Within' /\ InTurn' /\ Chained' /\ UnreadIntact'
  BY <1>1 DEF Within, InTurn, Chained, UnreadIntact
<1>7. QED
  BY <1>3, <1>4, <1>5, <1>6 DEF RingInv

\* The cursor, published, leaves the writer at least as much room as before.
LEMMA PublishStep ==
    ASSUME RingInv, AttachPublish \/ PublishReadIndex
    PROVE  RingInv'
<1>1. /\ consumerRead' = cursor /\ reader' = "drain"
      /\ UNCHANGED <<ring, writeIndex, writer, frame, seq, cursor, header, out, unread>>
  BY DEF AttachPublish, PublishReadIndex, writing
<1>2. cursor \in Offsets /\ writeIndex \in Offsets /\ consumerRead \in Offsets
  BY DEF RingInv, TypeOK
<1>3. TypeOK'
  BY <1>1, <1>2 DEF RingInv, TypeOK
<1>4. Between'
  BY <1>1, <1>2, DistanceType DEF Between, RingUsed, Offsets
<1>5. Room'
  <2>1. RingUsed' <= RingUsed /\ RingUsed' \in Nat /\ RingUsed \in Nat
    <3>1. Distance(consumerRead, cursor) \in Nat /\ Distance(cursor, writeIndex) \in Nat
      BY <1>2, DistanceType DEF Offsets
    <3>2. Distance(consumerRead, cursor) + Distance(cursor, writeIndex) = RingUsed
      BY DEF RingInv, Between
    <3>3. RingUsed' = Distance(cursor, writeIndex)
      BY <1>1 DEF RingUsed
    <3>4. QED
      BY <3>1, <3>2, <3>3
  <2>2. writer # "idle" => frame.size \in Nat
    BY MessageSize DEF RingInv, TypeOK
  <2>3. writer # "idle" => RingUsed + frame.size <= Capacity - 1
    BY DEF RingInv, Room
  <2>4. QED
    BY <1>1, <2>1, <2>2, <2>3, RingAssumption DEF Room
<1>6. Within' /\ InTurn' /\ Chained' /\ UnreadIntact'
  BY <1>1 DEF RingInv, Within, InTurn, Chained, UnreadIntact
<1>7. HalfWritten' /\ HeaderHeld'
  BY <1>1 DEF RingInv, HalfWritten, HeaderHeld
<1>8. QED
  BY <1>3, <1>4, <1>5, <1>6, <1>7 DEF RingInv

\* Where the reader has not reached the writer, an intact frame begins.
LEMMA HeadFrame ==
    ASSUME RingInv, unread # <<>>
    PROVE  /\ 1 \in DOMAIN unread
           /\ unread[1].from = cursor /\ unread[1].msg \in Message
           /\ \A b \in 0 .. unread[1].msg.size - 1 :
                 ring[Wrap(cursor + b)] = FrameByte(unread[1].msg, b)
<1>1. 1 \in DOMAIN unread
  <2> DEFINE Entry == [msg : Message, from : Offsets]
  <2>1. unread \in Seq(Entry)
    BY DEF RingInv, TypeOK
  <2> HIDE DEF Entry
  <2>2. Len(unread) \in Nat \ {0} /\ DOMAIN unread = 1 .. Len(unread)
    BY <2>1, EmptySeq, LenProperties
  <2>3. QED
    BY <2>2
<1>2. unread[1].from = cursor /\ unread[1].msg \in Message
  BY <1>1, UnreadType DEF RingInv, Chained
<1>3. QED
  BY <1>1, <1>2 DEF RingInv, UnreadIntact, FrameByte

\* So the header the reader copies is never malformed.
LEMMA ReadHeaderIntact ==
    ASSUME RingInv, ReadHeader
    PROVE  /\ unread # <<>>
           /\ ~Malformed(ring[cursor])
           /\ reader' = "body"
           /\ UNCHANGED <<cursor, unread>>
           /\ \A b \in 0 .. HeaderBytes - 1 : header'[b] = FrameByte(unread[1].msg, b)
           /\ header' \in [0 .. HeaderBytes - 1 -> Byte]
<1>1. unread # <<>>
  BY DEF RingInv, Chained, ReadHeader
<1>2. /\ unread[1].msg \in Message
      /\ \A b \in 0 .. unread[1].msg.size - 1 :
            ring[Wrap(cursor + b)] = FrameByte(unread[1].msg, b)
  BY <1>1, HeadFrame
<1>3. unread[1].msg.size >= HeaderBytes /\ HeaderBytes >= 1 /\ unread[1].msg.size \in Nat
      /\ HeaderBytes \in Nat
  BY <1>2, MessageSize
<1>4. ring[cursor] = FrameByte(unread[1].msg, 0)
  <2>1. Wrap(cursor + 0) = cursor
    <3>1. cursor \in Offsets
      BY DEF RingInv, TypeOK
    <3>2. QED
      BY <3>1, RingAssumption DEF Offsets, Wrap
  <2>2. ring[Wrap(cursor + 0)] = FrameByte(unread[1].msg, 0)
    BY <1>2, <1>3
  <2>3. QED
    BY <2>1, <2>2
<1>5. ~Malformed(ring[cursor])
  BY <1>3, <1>4 DEF Malformed, FrameByte
<1>6. \A b \in 0 .. HeaderBytes - 1 : header'[b] = FrameByte(unread[1].msg, b)
  BY <1>2, <1>3 DEF ReadHeader
<1>7. header' \in [0 .. HeaderBytes - 1 -> Byte]
  <2>1. \A b \in 0 .. HeaderBytes - 1 : FrameByte(unread[1].msg, b) \in Byte
    BY <1>2, <1>3, RingAssumption DEF FrameByte, Byte, Message
  <2>2. QED
    BY <1>6, <2>1 DEF ReadHeader
<1>8. QED
  BY <1>1, <1>5, <1>6, <1>7 DEF ReadHeader

\* Copying the header preserves the invariant.
LEMMA ReadHeaderStep == RingInv /\ ReadHeader => RingInv'
<1> SUFFICES ASSUME RingInv, ReadHeader PROVE RingInv'
  OBVIOUS
<1>1. /\ reader' = "body" /\ unread # <<>>
      /\ \A b \in 0 .. HeaderBytes - 1 : header'[b] = FrameByte(unread[1].msg, b)
      /\ header' \in [0 .. HeaderBytes - 1 -> Byte]
      /\ UNCHANGED <<ring, writeIndex, consumerRead, writer, frame, seq, cursor, out, unread>>
  BY ReadHeaderIntact DEF ReadHeader, writing
<1>2. TypeOK'
  BY <1>1 DEF RingInv, TypeOK
<1>3. Room' /\ Between' /\ Within' /\ InTurn' /\ Chained' /\ HeaderHeld'
  BY <1>1 DEF RingInv, Room, Between, RingUsed, Within, InTurn, Chained, HeaderHeld
<1>4. UnreadIntact' /\ HalfWritten'
  BY <1>1 DEF RingInv, UnreadIntact, HalfWritten
<1>5. QED
  BY <1>2, <1>3, <1>4 DEF RingInv

\* What ReadNextUpsert returns is the first unread message.
LEMMA ReceivedIsHead ==
    ASSUME RingInv, reader = "body"
    PROVE  /\ unread # <<>>
           /\ header[0].size = unread[1].msg.size
           /\ Received = unread[1].msg
<1>1. /\ unread # <<>>
      /\ \A b \in 0 .. HeaderBytes - 1 : header[b] = FrameByte(unread[1].msg, b)
  BY DEF RingInv, HeaderHeld
<1>2. /\ unread[1].msg \in Message
      /\ \A b \in 0 .. unread[1].msg.size - 1 :
            ring[Wrap(cursor + b)] = FrameByte(unread[1].msg, b)
  BY <1>1, HeadFrame
<1>3. HeaderBytes \in Nat /\ HeaderBytes >= 1 /\ unread[1].msg.size \in Nat
  BY <1>2, MessageSize
<1>4. header[0].seq = unread[1].msg.seq /\ header[0].size = unread[1].msg.size
  <2>1. header[0] = FrameByte(unread[1].msg, 0)
    BY <1>1, <1>3
  <2>2. QED
    BY <2>1 DEF FrameByte
<1>5. [seq |-> header[0].seq, size |-> header[0].size] = unread[1].msg
  BY <1>2, <1>4 DEF Message
<1>6. \A b \in HeaderBytes .. unread[1].msg.size - 1 :
        ring[Wrap(cursor + b)] = FrameByte(unread[1].msg, b)
  BY <1>2, <1>3
<1>7. QED
  BY <1>1, <1>4, <1>5, <1>6 DEF Received, FrameByte

\* Taking a frame moves the cursor to the next one.
LEMMA TakeStep == RingInv /\ Take => RingInv'
<1> SUFFICES ASSUME RingInv, Take PROVE RingInv'
  OBVIOUS
<1> DEFINE Entry == [msg : Message, from : Offsets]
           n == Len(unread)
           s == unread[1].msg.size
<1>1. /\ unread # <<>> /\ header[0].size = s /\ 1 \in DOMAIN unread
      /\ unread[1].from = cursor /\ unread[1].msg \in Message
  BY ReceivedIsHead, HeadFrame DEF Take
<1>2. /\ reader' = "drain" /\ cursor' = Wrap(cursor + s) /\ unread' = Tail(unread)
      /\ UNCHANGED <<ring, writeIndex, consumerRead, writer, frame, seq, header>>
  BY <1>1 DEF Take, writing
<1>3. /\ writeIndex \in Offsets /\ cursor \in Offsets /\ consumerRead \in Offsets
      /\ s \in Nat /\ s >= 1
  BY <1>1, MessageSize DEF RingInv, TypeOK
<1>4. /\ unread' \in Seq(Entry)
      /\ n \in Nat \ {0} /\ DOMAIN unread = 1 .. n
      /\ Len(unread') = n - 1 /\ DOMAIN unread' = 1 .. n - 1
      /\ \A i \in 1 .. n - 1 : i + 1 \in 1 .. n /\ unread'[i] = unread[i + 1]
      /\ unread' = <<>> <=> n = 1
  <2>1. unread \in Seq(Entry)
    BY DEF RingInv, TypeOK
  <2> HIDE DEF Entry
  <2>2. /\ n \in Nat \ {0} /\ DOMAIN unread = 1 .. n
        /\ unread' \in Seq(Entry) /\ Len(unread') = n - 1
        /\ \A i \in 1 .. Len(unread') : unread'[i] = unread[i + 1]
    BY <1>1, <1>2, <2>1, EmptySeq, LenProperties, HeadTailProperties
  <2>3. DOMAIN unread' = 1 .. n - 1
    BY <2>2, LenProperties
  <2>4. unread' = <<>> <=> n = 1
    <3>1. unread' = <<>> => n - 1 = 0
      BY <2>2, EmptySeq
    <3>2. unread' # <<>> => n - 1 \in Nat \ {0}
      BY <2>2, EmptySeq
    <3> HIDE DEF n
    <3>3. QED
      BY <2>2, <3>1, <3>2
  <2> HIDE DEF n
  <2>5. QED
    BY <2>2, <2>3, <2>4
<1> HIDE DEF n, s
<1>5. \A o \in Offsets : Distance(cursor, o) \in Nat
  BY <1>3, DistanceType DEF Offsets
<1>6. \A i \in 1 .. n :
        unread[i].from \in Offsets /\ unread[i].msg \in Message /\ unread[i].msg.size \in Nat
  BY <1>4, UnreadType, MessageSize DEF RingInv
<1>7. /\ Distance(consumerRead, cursor) + Distance(cursor, writeIndex) = RingUsed
      /\ Distance(cursor, writeIndex) \in Nat /\ Distance(consumerRead, cursor) \in Nat
      /\ RingUsed \in Offsets /\ s <= Distance(cursor, writeIndex)
  <2>1. Distance(cursor, unread[1].from) + s <= Distance(cursor, writeIndex)
    BY <1>1 DEF RingInv, Within, s
  <2>2. RingUsed \in Offsets /\ Distance(consumerRead, cursor) \in Nat
    BY <1>3, DistanceType DEF RingUsed, Offsets
  <2>3. Distance(cursor, writeIndex) \in Nat /\ Distance(cursor, unread[1].from) \in Nat
    BY <1>1, <1>3, <1>5
  <2>4. QED
    BY <1>3, <2>1, <2>2, <2>3 DEF RingInv, Between
<1>8. /\ cursor' \in Offsets
      /\ Distance(cursor', writeIndex) = Distance(cursor, writeIndex) - s
      /\ Distance(consumerRead, cursor') = Distance(consumerRead, cursor) + s
  <2>1. Distance(consumerRead, cursor) + s <= Capacity - 1
    BY <1>3, <1>7, RingAssumption DEF Offsets
  <2>2. QED
    BY <1>2, <1>3, <1>7, <2>1, DistanceBack, DistanceForward
<1>9. \A i \in 2 .. n :
        /\ s <= Distance(cursor, unread[i].from)
        /\ Distance(cursor', unread[i].from) = Distance(cursor, unread[i].from) - s
  <2> TAKE i \in 2 .. n
  <2>1. 1 \in DOMAIN unread /\ i \in DOMAIN unread /\ 1 < i
    BY <1>1, <1>4
  <2>2. Distance(cursor, cursor) + s <= Distance(cursor, unread[i].from)
    BY <1>1, <2>1 DEF RingInv, InTurn, s
  <2>3. Distance(cursor, cursor) = 0
    BY <1>3, DistanceType
  <2>4. unread[i].from \in Offsets
    BY <1>4, <1>6, <2>1
  <2>5. s <= Distance(cursor, unread[i].from)
    BY <1>3, <2>2, <2>3
  <2>6. QED
    BY <1>2, <1>3, <2>4, <2>5, DistanceBack
<1>10. TypeOK'
  BY <1>2, <1>4, <1>8 DEF RingInv, TypeOK
<1>11. Room' /\ HalfWritten' /\ HeaderHeld'
  BY <1>2 DEF RingInv, Room, RingUsed, HalfWritten, HeaderHeld
<1>12. Between'
  BY <1>2, <1>3, <1>7, <1>8 DEF Between, RingUsed
<1>13. Within'
  <2>1. ASSUME NEW i \in 1 .. n - 1
        PROVE  Distance(cursor', unread'[i].from) + unread'[i].msg.size
                 <= Distance(cursor', writeIndex)
    <3>1. i + 1 \in 2 .. n /\ unread'[i] = unread[i + 1] /\ i + 1 \in DOMAIN unread
      BY <1>4
    <3>2. Distance(cursor', unread[i + 1].from) = Distance(cursor, unread[i + 1].from) - s
      BY <1>9, <3>1
    <3>3. Distance(cursor, unread[i + 1].from) + unread[i + 1].msg.size
            <= Distance(cursor, writeIndex)
      BY <3>1 DEF RingInv, Within
    <3>4. Distance(cursor, unread[i + 1].from) \in Nat /\ unread[i + 1].msg.size \in Nat
      BY <1>4, <1>5, <1>6, <3>1
    <3>5. QED
      BY <1>3, <1>7, <1>8, <3>1, <3>2, <3>3, <3>4
  <2>2. QED
    BY <1>2, <1>4, <2>1 DEF Within
<1>14. InTurn'
  <2>1. ASSUME NEW i \in 1 .. n - 1, NEW j \in 1 .. n - 1, i < j
        PROVE  Distance(cursor', unread'[i].from) + unread'[i].msg.size
                 <= Distance(cursor', unread'[j].from)
    <3>1. /\ i + 1 \in 2 .. n /\ unread'[i] = unread[i + 1] /\ i + 1 \in DOMAIN unread
          /\ j + 1 \in 2 .. n /\ unread'[j] = unread[j + 1] /\ j + 1 \in DOMAIN unread
          /\ i + 1 < j + 1
      BY <1>4, <2>1
    <3>2. /\ Distance(cursor', unread[i + 1].from) = Distance(cursor, unread[i + 1].from) - s
          /\ Distance(cursor', unread[j + 1].from) = Distance(cursor, unread[j + 1].from) - s
      BY <1>9, <3>1
    <3>3. Distance(cursor, unread[i + 1].from) + unread[i + 1].msg.size
            <= Distance(cursor, unread[j + 1].from)
      BY <3>1 DEF RingInv, InTurn
    <3>4. /\ Distance(cursor, unread[i + 1].from) \in Nat /\ unread[i + 1].msg.size \in Nat
          /\ Distance(cursor, unread[j + 1].from) \in Nat
      BY <1>4, <1>5, <1>6, <3>1
    <3>5. QED
      BY <1>3, <3>1, <3>2, <3>3, <3>4
  <2>2. QED
    BY <1>2, <1>4, <2>1 DEF InTurn
<1>15. Chained'
  <2>1. Wrap(unread[1].from + unread[1].msg.size) =
          IF 1 = n THEN writeIndex ELSE unread[1 + 1].from
    BY <1>1 DEF RingInv, Chained, n
  <2>2. cursor' = IF n = 1 THEN writeIndex ELSE unread[2].from
    BY <1>1, <1>2, <2>1 DEF s
  <2>3. unread' = <<>> => cursor' = writeIndex
    BY <1>4, <2>2
  <2>4. unread' # <<>> => unread'[1].from = cursor'
    <3>1. ASSUME unread' # <<>> PROVE unread'[1] = unread[2] /\ n # 1
      BY <1>4, <3>1
    <3>2. QED
      BY <2>2, <3>1
  <2>5. ASSUME NEW i \in 1 .. n - 1
        PROVE  Wrap(unread'[i].from + unread'[i].msg.size) =
                 IF i = n - 1 THEN writeIndex ELSE unread'[i + 1].from
    <3>1. unread'[i] = unread[i + 1] /\ i + 1 \in DOMAIN unread
      BY <1>4
    <3>2. Wrap(unread[i + 1].from + unread[i + 1].msg.size) =
            IF i + 1 = n THEN writeIndex ELSE unread[(i + 1) + 1].from
      BY <3>1 DEF RingInv, Chained, n
    <3>3. CASE i = n - 1
      BY <1>4, <3>1, <3>2, <3>3
    <3>4. CASE i # n - 1
      <4>1. unread'[i + 1] = unread[(i + 1) + 1] /\ i + 1 # n
        BY <1>4, <3>4
      <4>2. QED
        BY <3>1, <3>2, <3>4, <4>1
    <3>5. QED
      BY <3>3, <3>4
  <2>6. QED
    BY <1>2, <1>4, <2>3, <2>4, <2>5 DEF Chained
<1>16. UnreadIntact'
  BY <1>2, <1>4 DEF RingInv, UnreadIntact
<1>17. QED
  BY <1>10, <1>11, <1>12, <1>13, <1>14, <1>15, <1>16 DEF RingInv

\* The rest of the subscriber moves nothing.
LEMMA IdleReaderStep ==
    ASSUME RingInv, DrainEnd \/ SubscriberEnds
    PROVE  RingInv'
<1>1. /\ reader' \in {"publish", "off"}
      /\ UNCHANGED <<ring, writeIndex, consumerRead, writer, frame, seq, cursor, header, out,
                     unread>>
  BY DEF DrainEnd, SubscriberEnds, writing
<1>2. TypeOK'
  BY <1>1 DEF RingInv, TypeOK
<1>3. Room' /\ Between' /\ Within' /\ InTurn' /\ Chained' /\ HeaderHeld'
  BY <1>1 DEF RingInv, Room, Between, RingUsed, Within, InTurn, Chained, HeaderHeld
<1>4. UnreadIntact' /\ HalfWritten'
  BY <1>1 DEF RingInv, UnreadIntact, HalfWritten
<1>5. QED
  BY <1>2, <1>3, <1>4 DEF RingInv

-----------------------------------------------------------------------------
(* The theorems *)

\* Every step preserves the invariant.
LEMMA RingInductive == RingInv /\ [Next]_vars => RingInv'
<1> SUFFICES ASSUME RingInv, [Next]_vars PROVE RingInv'
  OBVIOUS
<1>1. CASE \E n \in Sizes : BeginWrite(n)
  BY <1>1, BeginWriteStep
<1>2. CASE (\E n \in Sizes : Drop(n)) \/ PublisherRestart
  BY <1>2, NoByteStep
<1>3. CASE CopyHeader \/ CopyBody \/ Commit
  BY <1>3, CopyHeaderStep, CopyBodyStep, CommitStep
<1>4. CASE Attach \/ ReadHeader \/ Take
  BY <1>4, AttachStep, ReadHeaderStep, TakeStep
<1>5. CASE AttachPublish \/ PublishReadIndex
  BY <1>5, PublishStep
<1>6. CASE DrainEnd \/ SubscriberEnds
  BY <1>6, IdleReaderStep
<1>7. CASE UNCHANGED vars
  <2>1. UNCHANGED <<ring, writeIndex, consumerRead, writer, frame, seq, reader, cursor, header,
                    out, unread>>
    BY <1>7 DEF vars, writing, reading
  <2>2. TypeOK'
    BY <2>1 DEF RingInv, TypeOK
  <2>3. Room' /\ Between' /\ Within' /\ InTurn' /\ Chained' /\ HeaderHeld'
    BY <2>1 DEF RingInv, Room, Between, RingUsed, Within, InTurn, Chained, HeaderHeld
  <2>4. UnreadIntact' /\ HalfWritten'
    BY <2>1 DEF RingInv, UnreadIntact, HalfWritten
  <2>5. QED
    BY <2>2, <2>3, <2>4 DEF RingInv
<1>8. QED
  BY <1>1, <1>2, <1>3, <1>4, <1>5, <1>6, <1>7 DEF Next, WriterStep, ReaderStep

\* The invariant holds throughout.
LEMMA RingInvariant == Spec => []RingInv
  BY RingInit, RingInductive, PTL DEF Spec

\* The ring's variables keep their shapes: every index stays inside the mapping.
THEOREM RingTypeCorrect == Spec => []TypeOK
<1>1. RingInv => TypeOK
  BY DEF RingInv
<1>2. QED
  BY <1>1, RingInvariant, PTL

\* No byte of a committed frame is overwritten before the subscriber has read
\* it (WriteUpsert's free-space check against consumerReadIndex).
THEOREM UnreadIsIntact == Spec => []UnreadIntact
<1>1. RingInv => UnreadIntact
  BY DEF RingInv
<1>2. QED
  BY <1>1, RingInvariant, PTL

\* ReadNextUpsert returns the messages WriteUpsert committed, in their order.
THEOREM RingIsFifo == Spec => ImplementsFifo
<1> DEFINE Entry == [msg : Message, from : Offsets]
           Queue(u) == [i \in DOMAIN u |-> u[i].msg]
<1>1. Init => Fifo!Init
  BY DEF Init, Fifo!Init
<1>2. \A u \in Seq(Entry) :
        /\ Queue(u) \in Seq(Message) /\ Len(Queue(u)) = Len(u) /\ Len(u) \in Nat
        /\ \A i \in 1 .. Len(u) : Queue(u)[i] = u[i].msg /\ u[i].msg \in Message
        /\ Queue(u) = <<>> <=> u = <<>>
  <2> TAKE u \in Seq(Entry)
  <2>1. /\ Len(u) \in Nat /\ DOMAIN u = 1 .. Len(u)
        /\ \A i \in 1 .. Len(u) : u[i] \in Entry
        /\ u = <<>> <=> Len(u) = 0
    <3> HIDE DEF Entry
    <3>1. QED
      BY LenProperties, ElementOfSeq, EmptySeq
  <2>2. Queue(u) \in [1 .. Len(u) -> Message]
    BY <2>1
  <2>3. Queue(u) \in Seq(Message) /\ Len(Queue(u)) = Len(u)
    BY <2>1, <2>2, LenProperties
  <2>4. Queue(u) = <<>> <=> Len(u) = 0
    <3> HIDE DEF Queue
    <3>1. QED
      BY <2>1, <2>3, EmptySeq
  <2>5. QED
    BY <2>1, <2>3, <2>4
<1>3. ASSUME RingInv, [Next]_vars PROVE [Fifo!Next]_(Fifo!vars)
  <2>1. unread \in Seq(Entry) /\ RingInv'
    BY <1>3, RingInductive DEF RingInv, TypeOK
  <2>2. unread' \in Seq(Entry)
    BY <2>1 DEF RingInv, TypeOK
  <2>3. CASE UNCHANGED <<unread, out>>
    BY <2>3 DEF Fifo!vars
  <2>4. CASE Attach
    <3>1. unread' = <<>> /\ out' = out
      BY <2>4 DEF Attach
    <3>2. Fifo!SkipAll
      BY <3>1 DEF Fifo!SkipAll
    <3>3. QED
      BY <3>2 DEF Fifo!Next
  <2>5. CASE Commit
    <3> DEFINE new == [msg |-> frame, from |-> writeIndex]
    <3>1. unread' = Append(unread, new) /\ out' = out /\ frame \in Message /\ new \in Entry
      BY <1>3, <2>5 DEF Commit, reading, RingInv, TypeOK
    <3>2. Queue(unread') = Append(Queue(unread), frame)
      <4>1. /\ Len(unread') = Len(unread) + 1
            /\ \A i \in 1 .. Len(unread) : unread'[i] = unread[i]
            /\ unread'[Len(unread) + 1].msg = frame
        <5>1. new.msg = frame
          OBVIOUS
        <5> HIDE DEF Entry, new
        <5>2. QED
          BY <2>1, <3>1, <5>1, AppendProperties
      <4>2. /\ Queue(unread) \in Seq(Message) /\ Queue(unread') \in Seq(Message)
            /\ Len(Queue(unread)) = Len(unread) /\ Len(Queue(unread')) = Len(unread')
            /\ Len(unread) \in Nat
            /\ \A i \in 1 .. Len(unread) : Queue(unread)[i] = unread[i].msg
            /\ \A i \in 1 .. Len(unread') : Queue(unread')[i] = unread'[i].msg
        BY <1>2, <2>1, <2>2
      <4> HIDE DEF Queue, Entry, new
      <4>3. /\ Append(Queue(unread), frame) \in Seq(Message)
            /\ Len(Append(Queue(unread), frame)) = Len(unread) + 1
            /\ \A i \in 1 .. Len(unread) :
                  Append(Queue(unread), frame)[i] = Queue(unread)[i]
            /\ Append(Queue(unread), frame)[Len(unread) + 1] = frame
        BY <3>1, <4>2, AppendProperties
      <4>4. \A i \in 1 .. Len(unread) + 1 :
              Queue(unread')[i] = Append(Queue(unread), frame)[i]
        <5> TAKE i \in 1 .. Len(unread) + 1
        <5>1. CASE i = Len(unread) + 1
          BY <4>1, <4>2, <4>3, <5>1
        <5>2. CASE i \in 1 .. Len(unread)
          BY <4>1, <4>2, <4>3, <5>2
        <5>3. QED
          BY <4>2, <5>1, <5>2
      <4>5. QED
        BY <4>1, <4>2, <4>3, <4>4, SeqEqual
    <3>3. \E m \in Message : Queue(unread') = Append(Queue(unread), m) /\ out' = out
      <4> HIDE DEF Queue
      <4>1. QED
        BY <3>1, <3>2
    <3>4. QED
      BY <3>3 DEF Fifo!Next, Fifo!Send
  <2>6. CASE Take
    <3>1. /\ unread # <<>> /\ unread' = Tail(unread) /\ out' = unread[1].msg
      BY <1>3, <2>6, ReceivedIsHead DEF Take
    <3>2. /\ Queue(unread) \in Seq(Message) /\ Queue(unread') \in Seq(Message)
          /\ Len(Queue(unread)) = Len(unread) /\ Len(Queue(unread')) = Len(unread')
          /\ Len(unread) \in Nat
          /\ \A i \in 1 .. Len(unread) : Queue(unread)[i] = unread[i].msg
          /\ \A i \in 1 .. Len(unread') : Queue(unread')[i] = unread'[i].msg
          /\ Queue(unread) # <<>>
      BY <1>2, <2>1, <2>2, <3>1
    <3>3. /\ Len(unread') = Len(unread) - 1
          /\ \A i \in 1 .. Len(unread') : unread'[i] = unread[i + 1]
      <4> HIDE DEF Entry
      <4>1. QED
        BY <2>1, <3>1, HeadTailProperties
    <3>4. Queue(unread') = Tail(Queue(unread)) /\ Head(Queue(unread)) = unread[1].msg
      <4> HIDE DEF Queue
      <4>1. /\ Tail(Queue(unread)) \in Seq(Message)
            /\ Len(Tail(Queue(unread))) = Len(unread) - 1
            /\ \A i \in 1 .. Len(unread) - 1 : Tail(Queue(unread))[i] = Queue(unread)[i + 1]
            /\ Len(unread) >= 1
        BY <3>2, HeadTailProperties, EmptySeq
      <4>2. \A i \in 1 .. Len(unread) - 1 : Queue(unread')[i] = Tail(Queue(unread))[i]
        <5> TAKE i \in 1 .. Len(unread) - 1
        <5>1. i + 1 \in 1 .. Len(unread)
          BY <3>2, <4>1
        <5>2. QED
          BY <3>2, <3>3, <4>1, <5>1
      <4>3. Queue(unread') = Tail(Queue(unread))
        BY <3>2, <3>3, <4>1, <4>2, SeqEqual
      <4>4. Head(Queue(unread)) = Queue(unread)[1]
        BY <3>2
      <4>5. QED
        BY <3>2, <4>1, <4>3, <4>4
    <3>5. Fifo!Receive
      BY <3>1, <3>2, <3>4 DEF Fifo!Receive
    <3>6. QED
      BY <3>5 DEF Fifo!Next
  <2>7. CASE ReadHeader
    <3>1. UNCHANGED <<unread, out>>
      BY <1>3, <2>7, ReadHeaderIntact DEF ReadHeader
    <3>2. QED
      BY <2>3, <3>1
  <2>8. CASE (WriterStep /\ ~Commit) \/ AttachPublish \/ DrainEnd \/ PublishReadIndex
             \/ SubscriberEnds \/ UNCHANGED vars
    <3>1. UNCHANGED <<unread, out>>
      BY <2>8 DEF WriterStep, BeginWrite, Drop, CopyHeader, CopyBody, PublisherRestart,
                  AttachPublish, DrainEnd, PublishReadIndex, SubscriberEnds, vars, reading
    <3>2. QED
      BY <2>3, <3>1
  <2>9. QED
    BY <1>3, <2>4, <2>5, <2>6, <2>7, <2>8 DEF Next, ReaderStep
<1>4. QED
  BY <1>1, <1>3, RingInvariant, PTL DEF Spec, ImplementsFifo, Fifo!Spec
=============================================================================
