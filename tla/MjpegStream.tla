------------------------------ MODULE MjpegStream ------------------------------
(***************************************************************************)
(* The reader of an MJPEG stream (mjpeg_stream_source.cpp): a server sends the   *)
(* parts of a multipart message, the network delivers the bytes in pieces, and     *)
(* the reader cuts the pictures out.  Bytes are symbols: "r" and "n" for CR and      *)
(* LF, "-" and "b" for the boundary's marker, which no picture contains, "h" for a     *)
(* header, "?" for a byte no decoder takes.  Frame rates are left out.                   *)
(***************************************************************************)
EXTENDS Integers, Sequences, SequencesExt

CONSTANTS
    Pictures,       \* what a part may hold
    MaxParts,       \* bound: parts of a reply
    MaxStarts,      \* bound: calls of Start
    MaxBuffer       \* kMaxBufferSize

VARIABLES
    state,          \* m_state; "error" lasts no longer than a step
    type,           \* the reply's Content-Type: "multipart", "other", "none", or "no reply"
    parts,          \* what the server sends in this reply
    arrived,        \* how many of its bytes have been read
    reader,         \* m_buffer and m_boundary
    frames,         \* history: the frames of this reply
    cleared,        \* history: the safety valve has opened in this reply
    starts

vars == <<state, type, parts, arrived, reader, frames, cleared, starts>>

-----------------------------------------------------------------------------
(* Bytes *)

Marker == <<"-", "b">>
HeaderEnd == <<"r", "n", "r", "n">>

\* The server ends every picture with CR LF and sends the next marker at once.
PartBytes(picture) == <<"r", "n", "h">> \o HeaderEnd \o picture \o <<"r", "n">> \o Marker
BytesOf(pictures) == FoldLeft(LAMBDA sent, p : sent \o PartBytes(p), Marker, pictures)

\* QByteArray::indexOf, counting from 1; 0 when there is none.
IndexOf(bytes, pattern, from) ==
    LET found == {i \in from .. Len(bytes) - Len(pattern) + 1 :
                     SubSeq(bytes, i, i + Len(pattern) - 1) = pattern}
    IN  IF found = {} THEN 0 ELSE Min(found)

At(bytes, i, b) == i \in DOMAIN bytes /\ bytes[i] = b
Decodes(picture) == "?" \notin Range(picture)

-----------------------------------------------------------------------------
(* The reader *)

EmptyReader == [buffer |-> <<>>, boundary |-> FALSE]

\* One turn of ParseBuffer's loop, when the buffer holds a part and the next marker:
\* the part's header is passed, one CR LF at the picture's end is not of the picture, and
\* the next marker stays.
ParsePart(p) ==
    LET marker == IndexOf(p.buffer, Marker, 1)
        afterMarker == marker + Len(Marker)
        afterCR == IF At(p.buffer, afterMarker, "r") THEN afterMarker + 1 ELSE afterMarker
        headerStart == IF At(p.buffer, afterCR, "n") THEN afterCR + 1 ELSE afterCR
        headerEnd == IF marker = 0 THEN 0 ELSE IndexOf(p.buffer, HeaderEnd, headerStart)
        dataStart == headerEnd + Len(HeaderEnd)
        next == IF headerEnd = 0 THEN 0 ELSE IndexOf(p.buffer, Marker, dataStart)
        dataEnd == IF At(p.buffer, next - 2, "r") /\ At(p.buffer, next - 1, "n")
                   THEN next - 3 ELSE next - 1
        picture == SubSeq(p.buffer, dataStart, dataEnd)
    IN  IF next = 0 THEN p
        ELSE [buffer |-> SubSeq(p.buffer, next, Len(p.buffer)),
              frames |-> IF picture # <<>> /\ Decodes(picture) THEN Append(p.frames, picture)
                         ELSE p.frames]

\* The loop takes no more turns than there are markers.
Turns(bytes) == SelectSeq(bytes, LAMBDA b : b = "b")

\* Variant: the next marker is taken out of the buffer with the part.
ParseLoopPast(bytes) ==
    FoldLeft(LAMBDA p, b : LET q == ParsePart(p)
                           IN  IF q = p THEN p ELSE [q EXCEPT !.buffer = SubSeq(@, 3, Len(@))],
             [buffer |-> bytes, frames |-> <<>>], Turns(bytes))

ParseLoop(bytes) ==
    FoldLeft(LAMBDA p, b : ParsePart(p), [buffer |-> bytes, frames |-> <<>>], Turns(bytes))

\* Without a boundary ParseBuffer returns at once; otherwise the valve follows the loop.
ParseBuffer(bytes, boundary) ==
    LET parsed == IF boundary THEN ParseLoop(bytes) ELSE [buffer |-> bytes, frames |-> <<>>]
        full == boundary /\ Len(parsed.buffer) > MaxBuffer
    IN  [buffer |-> IF full THEN <<>> ELSE parsed.buffer, frames |-> parsed.frames, full |-> full]

-----------------------------------------------------------------------------
(* Actions *)

\* Start stops the reply there is and begins another.
Start ==
    /\ starts < MaxStarts
    /\ starts' = starts + 1
    /\ state' = "connecting"
    /\ type' \in {"multipart", "other", "none"}
    /\ parts' \in UNION {[1 .. n -> Pictures] : n \in 0 .. MaxParts}
    /\ arrived' = 0 /\ frames' = <<>> /\ cleared' = FALSE
    /\ reader' = EmptyReader

\* Stop, called by the dock or after an error.
Stopped ==
    /\ state' = "disconnected" /\ type' = "no reply"
    /\ reader' = EmptyReader
    /\ UNCHANGED <<parts, arrived, frames, cleared, starts>>

Stop == type # "no reply" /\ Stopped

\* OnStreamFinished and OnStreamError: the reply ends wherever it is.
OnStreamEnded == type # "no reply" /\ Stopped

\* The next bytes, however many: the boundary is taken from the Content-Type at the
\* first, which stops a reply that is no stream and leaves one without a type waiting.
OnReadyRead ==
    /\ type # "no reply"
    /\ LET sent == BytesOf(parts) IN
       \E n \in 1 .. Len(sent) - arrived :
           LET bytes == SubSeq(sent, arrived + 1, arrived + n)
               parsed == ParseBuffer(reader.buffer \o bytes, type = "multipart")
           IN  IF type = "other" THEN Stopped
               ELSE /\ arrived' = arrived + n
                    /\ reader' = [buffer |-> parsed.buffer, boundary |-> type = "multipart"]
                    /\ frames' = frames \o parsed.frames
                    /\ cleared' = (cleared \/ parsed.full)
                    /\ state' = IF parsed.frames # <<>> THEN "streaming" ELSE state
                    /\ UNCHANGED <<type, parts, starts>>

-----------------------------------------------------------------------------
Init ==
    /\ state = "disconnected" /\ type = "no reply" /\ parts = <<>> /\ arrived = 0
    /\ reader = EmptyReader /\ frames = <<>> /\ cleared = FALSE /\ starts = 0

Next == Start \/ Stop \/ OnStreamEnded \/ OnReadyRead

Spec == Init /\ [][Next]_vars

-----------------------------------------------------------------------------
(* Properties *)

\* The parts whose next marker has arrived.
Complete == SelectSeq([i \in DOMAIN parts |-> <<i, parts[i]>>],
                      LAMBDA p : Len(BytesOf(SubSeq(parts, 1, p[1]))) <= arrived)

\* Wherever the network cuts the bytes, the frames are the pictures of the parts that have
\* arrived, whole, once each and in order, those of an earlier reply never; when the valve
\* has opened some may be missing.
FramesWhole ==
    LET pictures == SelectSeq([i \in DOMAIN Complete |-> Complete[i][2]],
                              LAMBDA p : p # <<>> /\ Decodes(p))
    IN  IF type = "multipart" /\ ~cleared THEN frames = pictures
        ELSE \E kept \in SUBSET DOMAIN pictures :
                 frames = [i \in 1 .. Cardinality(kept) |->
                              pictures[CHOOSE j \in kept : Cardinality({k \in kept : k <= j}) = i]]
=============================================================================
