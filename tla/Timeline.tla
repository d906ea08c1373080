------------------------------- MODULE Timeline -------------------------------
(***************************************************************************)
(* The playback timeline (playback_timeline_widget.cpp): the visible part of a      *)
(* recording, which the mouse zooms and pans, and which the window's refresh of       *)
(* the playback controls moves after the cursor.  A position of the mouse is the       *)
(* part of the track left of it, in PARTS.                                               *)
(***************************************************************************)
EXTENDS Integers

CONSTANTS
    Durations,      \* of the recordings that may be opened
    MinSpan,        \* the 200 ms a zoom keeps
    Parts           \* bound: positions of the mouse

ASSUME TimelineAssumption == Durations \subseteq Nat /\ MinSpan \in Nat \ {0} /\ Parts \in Nat \ {0}

VARIABLES
    duration,
    cursor,
    view            \* m_windowStartUs and m_windowEndUs

trackVars == <<duration, cursor, view>>

AtLeast(x, y) == IF x < y THEN y ELSE x
AtMost(x, y) == IF x > y THEN y ELSE x
Within(x, low, high) == AtMost(AtLeast(x, low), high)

Span(v) == AtLeast(1, v.end - v.start)

\* Variant: a window that hangs over an end is cut there.
ClampWindowToDurationCut(v, d) == [start |-> Within(v.start, 0, d), end |-> Within(v.end, 0, d)]

\* A window keeps its span when it is moved inside the recording.
ClampWindowToDuration(v, d) ==
    LET all == [start |-> 0, end |-> d]
        right == IF v.start < 0 THEN [start |-> 0, end |-> v.end - v.start] ELSE v
        left == IF right.end > d THEN [start |-> right.start - (right.end - d), end |-> d] ELSE right
    IN  IF d <= 0 \/ v.end <= v.start \/ Span(v) >= d THEN all
        ELSE [start |-> Within(left.start, 0, d), end |-> Within(left.end, 0, d)]

SetWindowUs(v, d) == view' = ClampWindowToDuration(v, d)

SetDurationUs(d) ==
    /\ duration' = d
    /\ SetWindowUs(IF view.end <= view.start THEN [start |-> 0, end |-> d] ELSE view, d)

\* A window that the cursor has gone through by 85 percent moves on with it.
Followed(v, c, d) ==
    LET start == c - (85 * Span(v)) \div 100
        end == start + Span(v)
    IN  IF c <= v.start + (85 * Span(v)) \div 100 THEN v
        ELSE IF d > 0 /\ end > d THEN [start |-> AtLeast(d - Span(v), 0), end |-> d]
        ELSE [start |-> start, end |-> end]

OpenRecording ==
    /\ duration = 0
    /\ \E d \in Durations : SetDurationUs(d)
    /\ UNCHANGED cursor

\* Without a recording the refresh empties the timeline.
CloseRecording ==
    /\ duration > 0
    /\ SetDurationUs(0)
    /\ cursor' = 0

\* The timer's refresh, with the cursor where playback has it.
UpdatePlaybackUiState ==
    /\ duration > 0
    /\ cursor' \in cursor .. duration
    /\ SetWindowUs(Followed(view, cursor', duration), duration)
    /\ UNCHANGED duration

\* The widget's own cursor, and a seek with its refresh.
PositionToTimeUs(part) == view.start + (part * Span(view)) \div Parts

ScrubTo(part) ==
    /\ duration > 0
    /\ cursor' = Within(PositionToTimeUs(part), 0, duration)
    /\ SetWindowUs(Followed(view, cursor', duration), duration)
    /\ UNCHANGED duration

PanBy(parts, back) ==
    LET distance == (parts * Span(view)) \div Parts
        delta == IF back THEN -distance ELSE distance
    IN  /\ duration > 0
        /\ SetWindowUs([start |-> view.start + delta, end |-> view.end + delta], duration)
        /\ UNCHANGED <<duration, cursor>>

\* Four fifths or five quarters of the span, about the time under the mouse.
ZoomAt(part, inwards) ==
    LET wanted == IF inwards THEN (Span(view) * 4) \div 5 ELSE (Span(view) * 5) \div 4
        span == Within(wanted, MinSpan, AtLeast(MinSpan, duration))
        start == PositionToTimeUs(part) - span \div 2
    IN  /\ duration > 0
        /\ SetWindowUs([start |-> start, end |-> start + span], duration)
        /\ UNCHANGED <<duration, cursor>>

-----------------------------------------------------------------------------
trackInit == duration = 0 /\ cursor = 0 /\ view = [start |-> 0, end |-> 0]

trackNext ==
    \/ OpenRecording \/ CloseRecording \/ UpdatePlaybackUiState
    \/ \E part \in 0 .. Parts : ScrubTo(part)
    \/ \E part \in 0 .. Parts, yes \in BOOLEAN : ZoomAt(part, yes) \/ PanBy(part, yes)

trackSpec == trackInit /\ [][trackNext]_trackVars

-----------------------------------------------------------------------------
(* Property *)

\* However it is zoomed, panned, followed and given to another recording, the window
\* lies in the recording and shows at least the least span of it.
WindowInRecording ==
    IF duration = 0 THEN view = [start |-> 0, end |-> 0]
    ELSE /\ 0 <= view.start /\ view.end <= duration
         /\ view.end - view.start >= AtMost(MinSpan, duration)
=============================================================================
