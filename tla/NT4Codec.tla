------------------------------- MODULE NT4Codec -------------------------------
(***************************************************************************)
(* How the NetworkTables 4 client reads and writes bytes (nt4_client.cpp): the     *)
(* MessagePack cursor with which a frame's arrays are taken apart, the writer, and   *)
(* the search for the end of a JSON object in an announcement.  A cursor operator     *)
(* takes the bytes and a position and returns whether it succeeded, where the cursor   *)
(* is then, and the value.  A double is the sequence of its bytes; integers of more     *)
(* than 32 bits are not tried.                                                          *)
(***************************************************************************)
EXTENDS Integers, Sequences, SequencesExt

Read(ok, pos, value) == [ok |-> ok, pos |-> pos, value |-> value]

HasRemaining(b, p, n) == p + n - 1 <= Len(b)

ReadBE(b, p, n) == FoldLeft(LAMBDA a, x : a * 256 + x, 0, SubSeq(b, p, p + n - 1))

SignedBE(b, p, n) ==
    FoldLeft(LAMBDA a, x : a * 256 + x, IF b[p] >= 128 THEN b[p] - 256 ELSE b[p],
             SubSeq(b, p + 1, p + n - 1))

\* n bytes at p, if they are there.
Bytes(b, p, n) ==
    IF HasRemaining(b, p, n) THEN Read(TRUE, p + n, SubSeq(b, p, p + n - 1)) ELSE Read(FALSE, p, <<>>)

Power2(x) == CASE x = 0 -> 1 [] x = 1 -> 2 [] x = 2 -> 4 [] x = 3 -> 8

ReadInt(b, p) ==
    IF ~HasRemaining(b, p, 1) THEN Read(FALSE, p, 0)
    ELSE LET x == b[p] width == Power2(x % 4) IN
         CASE x <= 127 -> Read(TRUE, p + 1, x)
           [] x >= 224 -> Read(TRUE, p + 1, x - 256)
           [] x \in 204 .. 211 /\ ~HasRemaining(b, p + 1, width) -> Read(FALSE, p + 1, 0)
           [] x \in 204 .. 207 /\ HasRemaining(b, p + 1, width) ->
                 Read(TRUE, p + 1 + width, ReadBE(b, p + 1, width))
           [] x \in 208 .. 211 /\ HasRemaining(b, p + 1, width) ->
                 Read(TRUE, p + 1 + width, SignedBE(b, p + 1, width))
           [] OTHER -> Read(FALSE, p + 1, 0)

\* A double, or a float or integer made into one.
ReadDouble(b, p) ==
    IF ~HasRemaining(b, p, 1) THEN Read(FALSE, p, 0)
    ELSE CASE b[p] = 203 -> Bytes(b, p + 1, 8)
           [] b[p] = 202 -> Bytes(b, p + 1, 4)
           [] OTHER -> ReadInt(b, p)

ReadBool(b, p) ==
    IF ~HasRemaining(b, p, 1) THEN Read(FALSE, p, FALSE)
    ELSE Read(b[p] \in {194, 195}, p + 1, b[p] = 195)

\* A count: in the low bits of the format byte, or in n bytes after it.
Counted(b, p, n) ==
    IF HasRemaining(b, p, n) THEN Read(TRUE, p + n, ReadBE(b, p, n)) ELSE Read(FALSE, p, 0)

StringLength(b, p) ==
    IF ~HasRemaining(b, p, 1) THEN Read(FALSE, p, 0)
    ELSE CASE b[p] \in 160 .. 191 -> Read(TRUE, p + 1, b[p] - 160)
           [] b[p] \in 217 .. 219 -> Counted(b, p + 1, Power2(b[p] - 217))
           [] OTHER -> Read(FALSE, p + 1, 0)

ReadString(b, p) ==
    LET n == StringLength(b, p) IN IF n.ok THEN Bytes(b, n.pos, n.value) ELSE Read(FALSE, n.pos, <<>>)

ReadArrayHeader(b, p) ==
    IF ~HasRemaining(b, p, 1) THEN Read(FALSE, p, 0)
    ELSE CASE b[p] \in 144 .. 159 -> Read(TRUE, p + 1, b[p] - 144)
           [] b[p] \in 220 .. 221 -> Counted(b, p + 1, Power2(b[p] - 219))
           [] OTHER -> Read(FALSE, p + 1, 0)

\* One after the other, up to the first failure.
ReadStringArray(b, p) ==
    LET n == ReadArrayHeader(b, p)
        Next(r, i) == IF ~r.ok THEN r
                      ELSE LET s == ReadString(b, r.pos)
                           IN  Read(s.ok, s.pos, Append(r.value, s.value))
    IN  IF ~n.ok THEN Read(FALSE, n.pos, <<>>)
        ELSE FoldLeft(Next, Read(TRUE, n.pos, <<>>), [i \in 1 .. n.value |-> i])

\* The size of what follows a format byte that holds no elements, and whether there
\* is such a format: none for the binary and extension formats.
Fixed(x) ==
    CASE x <= 127 \/ x >= 224 \/ x \in {192, 194, 195} -> 0
      [] x \in {204, 208} -> 1
      [] x \in {205, 209} -> 2
      [] x \in {206, 210, 202} -> 4
      [] x \in {207, 211, 203} -> 8
      [] OTHER -> -1

RECURSIVE SkipElement(_, _), SkipElements(_, _, _)

SkipElements(b, r, n) ==
    IF n = 0 \/ ~r.ok THEN r ELSE SkipElements(b, SkipElement(b, r.pos), n - 1)

\* Maps of more than 15 pairs are not skipped either.
SkipElement(b, p) ==
    IF ~HasRemaining(b, p, 1) THEN Read(FALSE, p, 0)
    ELSE CASE Fixed(b[p]) >= 0 -> Bytes(b, p + 1, Fixed(b[p]))
           [] StringLength(b, p).ok -> ReadString(b, p)
           [] ReadArrayHeader(b, p).ok ->
                 SkipElements(b, Read(TRUE, ReadArrayHeader(b, p).pos, 0), ReadArrayHeader(b, p).value)
           [] b[p] \in 128 .. 143 -> SkipElements(b, Read(TRUE, p + 1, 0), 2 * (b[p] - 128))
           [] OTHER -> Read(FALSE, p + 1, 0)

-----------------------------------------------------------------------------
(* A binary frame *)

\* The value of an element under a type code; none for the types that are skipped.
ReadValue(b, p, type) ==
    CASE type = 0 -> ReadBool(b, p)
      [] type \in {1, 3} -> ReadDouble(b, p)
      [] type = 2 -> ReadInt(b, p)
      [] type = 4 -> ReadString(b, p)
      [] type = 20 -> ReadStringArray(b, p)
      [] OTHER -> [SkipElement(b, p) EXCEPT !.ok = FALSE]

\* Variant: the elements beyond the fourth are left for the next array.
ExtraLeft(b, p, n) == p

\* The cursor after the elements beyond the fourth, skipped whether or not one fails.
Extra(b, p, n) ==
    FoldLeft(LAMBDA q, i : SkipElement(b, q).pos, p, [i \in 1 .. n - 4 |-> i])

RECURSIVE Delivered(_, _, _, _)

\* Array after array, [id, time, type, value, ...]: the values of the known topics.
Delivered(b, p, known, updates) ==
    LET count == ReadArrayHeader(b, p)
        id == ReadInt(b, count.pos)
        time == ReadInt(b, id.pos)
        type == ReadInt(b, time.pos)
        value == IF id.value \in known THEN ReadValue(b, type.pos, type.value % 256)
                 ELSE SkipElement(b, type.pos)
        next == Extra(b, value.pos, count.value)
    IN  IF p > Len(b) \/ ~count.ok \/ count.value < 4 \/ ~id.ok \/ ~time.ok \/ ~type.ok
        THEN updates
        ELSE Delivered(b, next, known,
                       IF id.value \in known /\ value.ok
                       THEN Append(updates, [id |-> id.value, value |-> value.value]) ELSE updates)

HandleBinaryMessage(b, known) == Delivered(b, 1, known, <<>>)

-----------------------------------------------------------------------------
(* The writer *)

BigEndian(v, n) == [i \in 1 .. n |-> (v \div 256 ^ (n - i)) % 256]

WriteFixArray(n) == <<144 + (n % 16)>>

\* Variant: the first negative number beyond a byte's range.
WriteIntByte(v) ==
    CASE v \in -32 .. 127 -> <<v % 256>>
      [] v \in -129 .. 127 /\ v < -32 -> <<208, v % 256>>
      [] v \in -32768 .. 32767 /\ v \notin -129 .. 127 -> <<209>> \o BigEndian(v, 2)
      [] OTHER -> <<210>> \o BigEndian(v, 4)

WriteInt(v) ==
    CASE v \in -32 .. 127 -> <<v % 256>>
      [] v \in -128 .. 127 /\ v < -32 -> <<208, v % 256>>
      [] v \in -32768 .. 32767 /\ v \notin -128 .. 127 -> <<209>> \o BigEndian(v, 2)
      [] OTHER -> <<210>> \o BigEndian(v, 4)

WriteUInt(v) ==
    CASE v <= 127 -> <<v>>
      [] v > 127 /\ v <= 255 -> <<204, v>>
      [] v > 255 /\ v <= 65535 -> <<205>> \o BigEndian(v, 2)
      [] OTHER -> <<206>> \o BigEndian(v, 4)

WriteDouble(bytes) == <<203>> \o bytes

WriteBool(v) == IF v THEN <<195>> ELSE <<194>>

WriteString(s) ==
    LET n == Len(s) IN
    (CASE n <= 31 -> <<160 + n>>
       [] n > 31 /\ n <= 255 -> <<217, n>>
       [] n > 255 /\ n <= 65535 -> <<218>> \o BigEndian(n, 2)
       [] OTHER -> <<219>> \o BigEndian(n, 4)) \o s

WriteValue(type, v) ==
    CASE type = 0 -> WriteBool(v)
      [] type = 1 -> WriteDouble(v)
      [] OTHER -> WriteString(v)

\* What the client publishes under its number for the topic.
BuildValueFrame(id, time, type, v) ==
    WriteFixArray(4) \o WriteInt(id) \o WriteUInt(time) \o WriteInt(type) \o WriteValue(type, v)

-----------------------------------------------------------------------------
(* The end of a JSON object.  A text is a sequence over "{", "}", "q" (a quote), *)
(* "e" (the escape) and "x" (any other character).                               *)

RECURSIVE ObjectEnd(_, _, _, _)

\* Variant: braces inside strings count.
ObjectEndBlind(s, i, depth, inString) ==
    IF i > Len(s) THEN 0
    ELSE LET d == depth + (IF s[i] = "{" THEN 1 ELSE 0) - (IF s[i] = "}" THEN 1 ELSE 0)
         IN  IF s[i] = "}" /\ d = 0 THEN i ELSE ObjectEnd(s, i + 1, d, FALSE)

ObjectEnd(s, i, depth, inString) ==
    CASE i > Len(s) -> 0
      [] i <= Len(s) /\ inString ->
            IF s[i] = "e" THEN ObjectEnd(s, i + 2, depth, TRUE)
            ELSE ObjectEnd(s, i + 1, depth, s[i] # "q")
      [] OTHER ->
            LET d == depth + (IF s[i] = "{" THEN 1 ELSE 0) - (IF s[i] = "}" THEN 1 ELSE 0)
            IN  IF s[i] = "}" /\ d = 0 THEN i ELSE ObjectEnd(s, i + 1, d, s[i] = "q")

\* The position of the brace that closes the one at position i, 0 if there is none.
JsonFindObjectEnd(s, i) ==
    IF i > Len(s) \/ s[i] # "{" THEN 0 ELSE ObjectEnd(s, i, 0, FALSE)
================================================================================
