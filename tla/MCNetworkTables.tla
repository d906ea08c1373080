--------------------------- MODULE MCNetworkTables ---------------------------
(***************************************************************************)
(* For TLC, as a part of MCDashboard: the main window with one of the two    *)
(* NetworkTables plugins, or the NT4 client's codec on samples.              *)
(***************************************************************************)
EXTENDS NT4Codec, WindowIngest

CONSTANTS k1, k2, Ids, SeqLimit, Begins, MaxWrites, Events, MaxEvents,
          Subjects,     \* what is checked: "nt4", "legacy-nt", "frames", "objects"
          SampleInts    \* integers written and read back, and their negatives

VARIABLES subject, sample, window, client, server, link, instance, table, wire, issued, happened

NT4 == INSTANCE NT4Client
Legacy == INSTANCE LegacyNt

-----------------------------------------------------------------------------
(* Samples for the codec *)

\* A text whose bytes look like the header of an array.
Text(n) == [i \in 1 .. n |-> 148]

Element(type, bytes, value) == [type |-> type, bytes |-> bytes, item |-> value]

Signed == SampleInts \cup {-i : i \in SampleInts} \cup {-i - 1 : i \in SampleInts}

\* Values of the types that are delivered, at the limits of their formats.
Values ==
    {Element(2, WriteInt(v), v) : v \in Signed}
    \cup {Element(2, WriteUInt(v), v) : v \in SampleInts}
    \cup {Element(4, WriteString(Text(n)), Text(n)) : n \in {0, 31, 32, 255, 256}}
    \cup {Element(0, WriteBool(v), v) : v \in BOOLEAN}
    \cup {Element(1, WriteDouble(Text(8)), Text(8))}
    \cup {Element(20, WriteFixArray(2) \o WriteString(Text(1)) \o WriteString(Text(40)),
                  <<Text(1), Text(40)>>)}

\* A value of topic id, with another value as an element too many, and two of topic 1.
Frames == [id : {-1, 1, 2, 300}, first : Values, second : Values]

BytesOf(s) ==
    WriteFixArray(5) \o WriteInt(s.id) \o WriteUInt(7) \o WriteInt(s.first.type)
    \o s.first.bytes \o s.second.bytes
    \o WriteFixArray(4) \o WriteInt(1) \o WriteUInt(300) \o WriteInt(s.second.type) \o s.second.bytes
    \o BuildValueFrame(1, 40000, 0, TRUE)

\* The values of topic 1, the one that is known.
ValuesOf(s) ==
    (IF s.id = 1 THEN <<s.first.item>> ELSE <<>>) \o <<s.second.item, TRUE>>

\* JSON objects: of characters, strings with braces and escapes in them, and objects.
Flat(parts) == FoldLeft(LAMBDA s, t : s \o t, <<>>, parts)
UpTo(n, S) == UNION {[1 .. m -> S] : m \in 0 .. n}
Strings == {<<"q">> \o Flat(body) \o <<"q">> :
               body \in UpTo(2, {<<"x">>, <<"{">>, <<"}">>, <<"e", "q">>, <<"e", "e">>})}
Around(body) == <<"{">> \o body \o <<"}">>
Objects == LET simple == {Around(Flat(body)) : body \in UpTo(2, {<<"x">>} \cup Strings)}
           IN  simple \cup {Around(s \o o) : s \in {<<>>, <<"q", "}", "q">>}, o \in simple}

-----------------------------------------------------------------------------
Next ==
    /\ UNCHANGED <<subject, sample>>
    /\ \/ subject = "nt4" /\ NT4!Next /\ UNCHANGED <<instance, table, wire>>
       \/ subject = "legacy-nt" /\ Legacy!Next /\ UNCHANGED <<client, server, link>>

-----------------------------------------------------------------------------
\* Each plugin's tiles come to show what its server holds.
TilesFollowServer == IF subject = "nt4" THEN NT4!TilesFollowServer ELSE Legacy!TilesFollowEntries

\* The operator's edits reach the robot's program through losses of the connection.
EditSurvives == IF subject = "nt4" THEN NT4!EditSurvives ELSE Legacy!EditSurvivesLegacy

\* HandleBinaryMessage delivers what the values of a frame are, whatever stands before
\* and between them: other topics' values, answers about the time, elements too many;
\* and JsonFindObjectEnd finds an object's own closing brace, before whatever follows.
MessagesRead ==
    /\ subject = "frames"
       => HandleBinaryMessage(BytesOf(sample), {1})
          = LET values == ValuesOf(sample)
            IN  [i \in DOMAIN values |-> [id |-> 1, value |-> values[i]]]
    /\ subject = "objects" => JsonFindObjectEnd(sample \o <<"}", "q", "}">>, 1) = Len(sample)
=============================================================================
