----------------------------- MODULE CameraViewer -----------------------------
(***************************************************************************)
(* The choice of cameras and the stream's connection (camera_viewer_dock.cpp,  *)
(* camera_publisher_discovery.cpp, static_camera_source.cpp,                      *)
(* camera_discovery_aggregator.cpp): two providers tell an aggregator of cameras,   *)
(* it tells the dock, and the dock connects, retries and stops one stream.  A        *)
(* camera's list of URLs is its first, NoUrl for an empty list.  The stream is        *)
(* its state; MjpegStream is what it does with the bytes.                               *)
(***************************************************************************)
EXTENDS FiniteSets, FiniteSetsExt, Functions

CONSTANTS
    CameraNames, Urls,
    NoUrl,
    MaxSteps        \* bound: steps of the transport, the network and the operator

ASSUME CameraAssumption == IsFiniteSet(CameraNames) /\ NoUrl \notin Urls

VARIABLES
    published,      \* CameraPublisherDiscovery::m_cameras
    saved,          \* StaticCameraSource::m_cameras
    merged,         \* the aggregator's m_cameras and m_cameraOwner
    dock,
    stream,         \* "disconnected", "connecting", or "streaming"
    asking,         \* the URL to save while the dialog asks for a name, or NoUrl
    wanted,         \* history: the URL the operator has asked for and not taken back
    steps

cameraVars == <<published, saved, merged, dock, stream, asking, wanted, steps>>
stores == <<published, saved, merged>>

Publisher == ""
Static == "Static"
None == <<"", "">>      \* no camera is selected in the combo box

Down == stream = "disconnected"
UrlOf(cameras, n) == IF n \in DOMAIN cameras THEN cameras[n] ELSE NoUrl
Updated(f, n, v) == [m \in DOMAIN f \cup {n} |-> IF m = n THEN v ELSE f[m]]
Without(f, S) == Restrict(f, DOMAIN f \ S)

-----------------------------------------------------------------------------
(* The dock's slots.  The combo box selects on its own, and its selection goes into   *)
(* the URL field: each slot has a set of outcomes.                                      *)

\* OnCameraSelected
Selected(d, n) ==
    [d EXCEPT !.selected = n, !.text = IF UrlOf(d.choices, n) = NoUrl THEN @ ELSE d.choices[n]]

\* The first item of an empty box may become the selected one.
AddDiscoveredCamera(d, n, url) ==
    LET added == [d EXCEPT !.choices = Updated(@, n, url), !.userDisconnected = FALSE]
    IN  {added} \cup IF DOMAIN d.choices = {} THEN {Selected(added, n)} ELSE {}

\* When the selected item goes another is selected; when another goes the index of the
\* selected one may change, which is a selection too.
RemoveDiscoveredCamera(d, n) ==
    LET removed == [d EXCEPT !.choices = Without(@, {n})]
        rest == DOMAIN removed.choices
    IN  IF n \notin DOMAIN d.choices \/ d.selected = None THEN {removed}
        ELSE IF d.selected # n THEN {removed, Selected(removed, d.selected)}
        ELSE IF rest = {} THEN {[removed EXCEPT !.selected = None]}
        ELSE {Selected(removed, other) : other \in rest}

\* Variant: the URL is kept for the next discovery.
ClearDiscoveredCamerasKept(d) ==
    [d EXCEPT !.timer = FALSE, !.userDisconnected = TRUE, !.choices = <<>>, !.selected = None]

ClearDiscoveredCameras(d) ==
    [d EXCEPT !.timer = FALSE, !.userDisconnected = TRUE, !.lastConnectedUrl = NoUrl,
              !.choices = <<>>, !.selected = None]

-----------------------------------------------------------------------------
(* The aggregator *)

\* A provider's camera is passed on when its URL differs from the one known.
OnProviderCameraDiscovered(tag, name, url) ==
    LET n == <<tag, name>>
    IN  IF n \in DOMAIN merged /\ merged[n].url = url THEN UNCHANGED <<merged, dock>>
        ELSE /\ merged' = Updated(merged, n, [url |-> url, owner |-> tag])
             /\ dock' \in AddDiscoveredCamera(dock, n, url)

\* Variant: a camera removed is still known.
ForgottenNone(tag) == merged

Forgotten(tag) == Without(merged, {n \in DOMAIN merged : merged[n].owner = tag})

\* The provider's cameras are removed one after the other; nothing left, all is cleared.
OnProviderCamerasCleared(tag) ==
    LET own == {n \in DOMAIN merged : merged[n].owner = tag}
        removed == FoldSet(LAMBDA n, docks : UNION {RemoveDiscoveredCamera(d, n) : d \in docks}, {dock}, own)
    IN  /\ merged' = Forgotten(tag)
        /\ IF DOMAIN merged' = {}
           THEN dock' \in {ClearDiscoveredCameras(d) : d \in removed} /\ wanted' = NoUrl
           ELSE dock' \in removed /\ UNCHANGED wanted

-----------------------------------------------------------------------------
(* The transport's thread, through the window *)

CountStep == steps < MaxSteps /\ steps' = steps + 1

\* CameraPublisherDiscovery::OnVariableUpdate, for the key of a camera's streams.
OnVariableUpdate(name, url) ==
    /\ CountStep
    /\ UrlOf(published, name) # url
    /\ published' = Updated(published, name, url)
    /\ OnProviderCameraDiscovered(Publisher, name, url)
    /\ UNCHANGED <<saved, stream, asking, wanted>>

\* The window's Clear when the transport reports that it is disconnected.
OnDisconnected ==
    /\ CountStep
    /\ published' = <<>>
    /\ OnProviderCamerasCleared(Publisher)
    /\ UNCHANGED <<saved, stream, asking>>

\* StopTransport stops the stream, as Disconnect does.
StopStream ==
    /\ dock' = [dock EXCEPT !.timer = FALSE, !.userDisconnected = TRUE]
    /\ stream' = "disconnected"
    /\ wanted' = NoUrl
    /\ UNCHANGED <<stores, asking>>

StopTransport == CountStep /\ StopStream

-----------------------------------------------------------------------------
(* The operator, who can do nothing else while the dialog is open *)

ChosenUrl == IF dock.text # NoUrl THEN dock.text ELSE UrlOf(dock.choices, dock.selected)

OnCameraSelected(n) ==
    /\ asking = NoUrl /\ CountStep /\ Down
    /\ n \in DOMAIN dock.choices \ {dock.selected}
    /\ dock' = Selected(dock, n)
    /\ UNCHANGED <<stores, stream, asking, wanted>>

EditUrl(url) ==
    /\ asking = NoUrl /\ CountStep /\ Down
    /\ url # dock.text
    /\ dock' = [dock EXCEPT !.text = url]
    /\ UNCHANGED <<stores, stream, asking, wanted>>

\* Without a URL there is no connection, and no retry of the last one either.
OnConnectClicked ==
    /\ asking = NoUrl /\ CountStep /\ Down
    /\ LET d == [dock EXCEPT !.userDisconnected = FALSE, !.timer = FALSE]
       IN  IF ChosenUrl = NoUrl THEN dock' = d /\ UNCHANGED stream
           ELSE dock' = [d EXCEPT !.lastConnectedUrl = ChosenUrl] /\ stream' = "connecting"
    /\ wanted' = ChosenUrl
    /\ UNCHANGED <<stores, asking>>

OnDisconnectClicked == asking = NoUrl /\ CountStep /\ ~Down /\ StopStream

OnSaveStaticCamera ==
    /\ asking = NoUrl /\ CountStep
    /\ asking' = ChosenUrl
    /\ UNCHANGED <<stores, dock, stream, wanted>>

\* The dialog ends: StaticCameraSource::AddCamera, unless it was cancelled.
AddCamera(name) ==
    /\ asking # NoUrl
    /\ asking' = NoUrl
    /\ IF UrlOf(saved, name) = asking THEN UNCHANGED <<saved, merged, dock>>
       ELSE /\ saved' = Updated(saved, name, asking)
            /\ OnProviderCameraDiscovered(Static, name, asking)
    /\ UNCHANGED <<published, stream, wanted, steps>>

CancelDialog ==
    /\ asking # NoUrl
    /\ asking' = NoUrl
    /\ UNCHANGED <<stores, dock, stream, wanted, steps>>

-----------------------------------------------------------------------------
(* The stream and the timer *)

OnStreaming ==
    /\ stream = "connecting"
    /\ stream' = "streaming"
    /\ dock' = [dock EXCEPT !.timer = FALSE]
    /\ UNCHANGED <<stores, asking, wanted, steps>>

\* OnStreamStateChanged for Error, then for the Disconnected that follows at once.
OnStreamError ==
    /\ ~Down /\ CountStep
    /\ stream' = "disconnected"
    /\ dock' = [dock EXCEPT !.timer =
                    @ \/ (~dock.userDisconnected /\ dock.lastConnectedUrl # NoUrl)]
    /\ UNCHANGED <<stores, asking, wanted>>

OnReconnectTimer ==
    /\ dock.timer
    /\ dock' = [dock EXCEPT !.timer = FALSE]
    /\ stream' = IF dock.userDisconnected \/ dock.lastConnectedUrl = NoUrl \/ ~Down
                 THEN stream ELSE "connecting"
    /\ UNCHANGED <<stores, asking, wanted, steps>>

-----------------------------------------------------------------------------
\* The cameras saved in an earlier run are known, and one may be selected.
cameraInit ==
    /\ published = <<>>
    /\ saved \in UNION {[S -> Urls] : S \in SUBSET CameraNames}
    /\ merged = [n \in {Static} \X DOMAIN saved |-> [url |-> saved[n[2]], owner |-> Static]]
    /\ LET empty == [choices |-> [n \in DOMAIN merged |-> merged[n].url], selected |-> None,
                     text |-> NoUrl, lastConnectedUrl |-> NoUrl, userDisconnected |-> FALSE,
                     timer |-> FALSE]
       IN  dock \in {empty} \cup {Selected(empty, n) : n \in DOMAIN merged}
    /\ stream = "disconnected" /\ asking = NoUrl /\ wanted = NoUrl /\ steps = 0

cameraNext ==
    \/ \E name \in CameraNames, url \in Urls \cup {NoUrl} : OnVariableUpdate(name, url)
    \/ OnDisconnected \/ StopTransport
    \/ \E n \in DOMAIN dock.choices : OnCameraSelected(n)
    \/ \E url \in Urls \cup {NoUrl} : EditUrl(url)
    \/ OnConnectClicked \/ OnDisconnectClicked
    \/ OnSaveStaticCamera \/ CancelDialog \/ \E name \in CameraNames : AddCamera(name)
    \/ OnStreaming \/ OnStreamError \/ OnReconnectTimer

cameraSpec == cameraInit /\ [][cameraNext]_cameraVars

-----------------------------------------------------------------------------
(* Properties *)

\* The combo box offers what the providers have, each camera with its present URL,
\* through losses of the transport, discoveries again and the three maps that each
\* drop what they think is known.
ChoicesFollowProviders ==
    dock.choices = [n \in ({Publisher} \X DOMAIN published) \cup ({Static} \X DOMAIN saved) |->
                       IF n[1] = Publisher THEN published[n[2]] ELSE saved[n[2]]]

\* The timer runs exactly when the stream is down that the operator asked for and has
\* not taken back, by Disconnect, by Connect without a URL, by stopping the transport, or
\* with the last camera; it will connect to that URL.
StreamRetried ==
    /\ dock.timer <=> wanted # NoUrl /\ Down
    /\ dock.timer => dock.lastConnectedUrl = wanted
=============================================================================
