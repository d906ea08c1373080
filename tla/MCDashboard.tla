----------------------------- MODULE MCDashboard -----------------------------
(***************************************************************************)
(* For TLC: the dashboard's own parts, one of which is chosen at the start:     *)
(* the replay of a recording, the timeline, the recorder, the run browser, or    *)
(* what MCNetworkTables chooses from.                                             *)
(***************************************************************************)
EXTENDS MCNetworkTables, Replay, Timeline, Recording, RunBrowser, CameraViewer

CONSTANTS MaxLength,                          \* recordings
          MaxParts, MaxStarts, MaxBuffer            \* their streams

VARIABLES
    state, type, parts, arrived, reader, frames, cleared, starts

-----------------------------------------------------------------------------
(* Recordings: data events of two keys and markers in the order of their times,  *)
(* numbered as by the Direct publisher, by the NT4 client, or by Legacy NT.         *)
Numbers(events, i) ==
    [direct |-> i, nt4 |-> i - 1,
     legacy |-> Cardinality({j \in 1 .. i : events[j].key = events[i].key}) % SeqLimit]

Numbered(events, by) ==
    [i \in DOMAIN events |->
        [kind |-> events[i].kind, at |-> events[i].at, key |-> events[i].key, value |-> i,
         seq |-> Numbers(events, i)[by]]]

RecordedEvents ==
    {e \in [kind : {"data", "marker"}, at : 0 .. 2, key : Keys] : e.kind = "marker" => e.key = k1}

InOrder(events) == \A i \in 1 .. Len(events) - 1 : events[i].at <= events[i + 1].at

MCRecordings ==
    UNION {{Numbered(f, by) : f \in {g \in [1 .. n -> RecordedEvents] : InOrder(g)},
                              by \in {"direct", "nt4", "legacy"}} : n \in 1 .. MaxLength}

\* Two keys of a group and one of one segment.
TreeGroups == [k \in TreeKeys |-> IF k = "b" THEN "" ELSE "a"]

\* Pictures with ends like headers and markers, none, one no decoder takes, and a long one.
Pictures == {<<"x", "r", "n", "r", "n">>, <<"-">>, <<>>, <<"?">>, [i \in 1 .. 8 |-> "x"]}

Stream == INSTANCE MjpegStream

networkVars == <<sample, window, client, server, link, instance, table, wire, issued, happened>>
streamVars == <<state, type, parts, arrived, reader, frames, cleared, starts>>

-----------------------------------------------------------------------------
DashboardInit ==
    /\ subject \in Subjects
    /\ (subject = "replay" \/ file = CHOOSE f \in Recordings : TRUE) /\ playerInit
    /\ trackInit /\ recorderInit /\ browserInit
    /\ sample \in CASE subject = "frames" -> Frames
                    [] subject = "objects" -> Objects
                    [] OTHER -> {<<>>}
    /\ NT4!Init /\ Legacy!Init
    /\ cameraInit /\ (subject # "cameras" => saved = <<>>)
    /\ Stream!Init

DashboardNext ==
    \/ Next /\ UNCHANGED <<playerVars, trackVars, recorderVars, browserVars, cameraVars, streamVars>>
    \/ subject = "replay" /\ playerNext
        /\ UNCHANGED <<subject, networkVars, trackVars, recorderVars, browserVars, cameraVars, streamVars>>
    \/ subject = "timeline" /\ trackNext
        /\ UNCHANGED <<subject, networkVars, playerVars, recorderVars, browserVars, cameraVars, streamVars>>
    \/ subject = "recording" /\ recorderNext
        /\ UNCHANGED <<subject, networkVars, playerVars, trackVars, browserVars, cameraVars, streamVars>>
    \/ subject = "browser" /\ browserNext
        /\ UNCHANGED <<subject, networkVars, playerVars, trackVars, recorderVars, cameraVars, streamVars>>
    \/ subject = "cameras" /\ cameraNext
        /\ UNCHANGED <<subject, networkVars, playerVars, trackVars, recorderVars, browserVars, streamVars>>
    \/ subject = "stream" /\ Stream!Next
        /\ UNCHANGED <<subject, networkVars, playerVars, trackVars, recorderVars, browserVars, cameraVars>>

DashboardSpec ==
    DashboardInit
    /\ [][DashboardNext]_<<subject, networkVars, playerVars, trackVars, recorderVars, browserVars,
                           cameraVars, streamVars>>

-----------------------------------------------------------------------------
\* The frames are whole pictures, wherever the network cuts the stream.
FramesWhole == subject = "stream" => Stream!FramesWhole
=============================================================================
