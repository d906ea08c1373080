------------------------------- MODULE Recording -------------------------------
(***************************************************************************)
(* The recording of a session (main_window.cpp): the transport's thread and the     *)
(* window put events into a queue, a recorder thread writes them to a file, and the    *)
(* window starts and stops recorders with its transports and with the record button.    *)
(* The dialog that asks for the file runs the event loop: while it is open, reports      *)
(* and the timer of the retries are handled, and the timer's call may open another.       *)
(* calls is the stack of the window's unfinished calls.  A lost connection is reported      *)
(* and the retries are on.                                                                     *)
(***************************************************************************)
EXTENDS Integers, Sequences, SequencesExt

CONSTANTS
    MaxRecorded,    \* bound: updates received
    MaxLosses,      \* bound: connections lost
    MaxToggles,     \* bound: uses of the record button
    MaxDepth        \* bound: dialogs open at once

VARIABLES
    requested,      \* m_recordRequested
    recorder,       \* m_recordingThread and what is under m_recordingMutex
    transport,      \* "none", "up", or "lost"
    timer,          \* m_reconnectTimer is running, or a report is queued that starts it
    calls,          \* where the window's calls are, the innermost last
    accepted,       \* history: the events put into the queue since the recorder began
    replaced,       \* history: a recorder was started over one that had not been joined
    received, losses, toggles

recorderVars == <<requested, recorder, transport, timer, calls, accepted, replaced, received, losses, toggles>>
bounds == <<received, losses, toggles>>

\* phase is where the thread is: m_recordingThreadRunning in "opening" and "writing".
NoRecorder == [joinable |-> FALSE, phase |-> "ended", stop |-> FALSE, queue |-> <<>>, file |-> <<>>]
Running == recorder.phase \in {"opening", "writing"}

-----------------------------------------------------------------------------
(* Events *)

\* The recorder after an event, which it takes unless it is told to stop.
Record(r, e) == IF Running /\ ~r.stop THEN [r EXCEPT !.queue = Append(@, e)] ELSE r

RecordEvent(e) ==
    /\ recorder' = Record(recorder, e)
    /\ accepted' = IF Record(recorder, e) = recorder THEN accepted ELSE Append(accepted, e)

\* On the transport's thread.
RecordVariableEvent ==
    /\ transport = "up" /\ received < MaxRecorded
    /\ received' = received + 1
    /\ RecordEvent(received')
    /\ UNCHANGED <<requested, transport, timer, calls, replaced, losses, toggles>>

-----------------------------------------------------------------------------
(* The recorder thread *)

Written == [recorder EXCEPT !.file = Append(@, Head(recorder.queue)), !.queue = Tail(@)]

\* Variant: told to stop, it stops.
WriteOrEndStop == IF recorder.stop THEN [recorder EXCEPT !.phase = "ended"] ELSE Written

\* It writes what is in the queue, and ends when there is nothing and it is told to.
WriteOrEnd == IF recorder.queue # <<>> THEN Written ELSE [recorder EXCEPT !.phase = "ended"]

RecorderSteps ==
    /\ \/ recorder.phase = "opening" /\ recorder' = [recorder EXCEPT !.phase = "writing"]
       \/ recorder.phase = "opening" /\ recorder' = [recorder EXCEPT !.phase = "failed"]
       \/ /\ recorder.phase = "writing" /\ (recorder.queue # <<>> \/ recorder.stop)
          /\ recorder' = WriteOrEnd
    /\ UNCHANGED <<requested, transport, timer, calls, accepted, replaced, bounds>>

-----------------------------------------------------------------------------
(* The window's thread *)

\* The event loop runs when no call is unfinished, or in the dialog of the innermost.
Top == IF calls = <<>> THEN "loop" ELSE Last(calls)
Returned == SubSeq(calls, 1, Len(calls) - 1)
EventLoop == Top \in {"loop", "record: dialog", "start: dialog"}

\* StopSessionRecording, up to the join.
ToldToStop(r) == [r EXCEPT !.stop = recorder.joinable]

\* OnRecordToggled
ToggleRecord ==
    /\ calls = <<>> /\ toggles < MaxToggles
    /\ toggles' = toggles + 1
    /\ requested' = ~requested
    /\ recorder' = ToldToStop(recorder)
    /\ calls' = <<IF requested THEN "unrecord: stop" ELSE "record: stop">>
    /\ UNCHANGED <<transport, timer, accepted, replaced, received, losses>>

\* StartTransport: the end of the old transport is recorded; stopping it may report the
\* end to the window; and its recorder is told to stop.
Disconnected == 0
Connected == -1

BeginStart ==
    /\ transport' = "none"
    /\ \E reported \in BOOLEAN : timer' = (reported /\ transport # "none")
    /\ LET r == IF transport # "none" THEN Record(recorder, Disconnected) ELSE recorder
       IN  /\ recorder' = ToldToStop(r)
           /\ accepted' = IF r = recorder THEN accepted ELSE Append(accepted, Disconnected)
    /\ calls' = Append(calls, "start: stop")

OnConnectTransport ==
    /\ calls = <<>> /\ transport = "none" /\ ~timer
    /\ BeginStart
    /\ UNCHANGED <<requested, replaced, bounds>>

LoseConnection ==
    /\ transport = "up" /\ losses < MaxLosses
    /\ losses' = losses + 1
    /\ transport' = "lost" /\ timer' = TRUE
    /\ UNCHANGED <<requested, recorder, calls, accepted, replaced, received, toggles>>

\* The timer fires in whichever event loop runs.
OnReconnectTimerFired ==
    /\ timer /\ EventLoop /\ Len(calls) < MaxDepth
    /\ BeginStart
    /\ UNCHANGED <<requested, replaced, bounds>>

ReportConnected ==
    /\ transport = "up" /\ timer /\ EventLoop
    /\ timer' = FALSE
    /\ RecordEvent(Connected)
    /\ UNCHANGED <<requested, transport, calls, replaced, bounds>>

\* The transport is created and started; one that was there is destroyed.
Created == transport' = "up" /\ calls' = Returned

\* The join: then the dialog is opened if recording is wanted.
Joined ==
    /\ Top \in {"unrecord: stop", "record: stop", "start: stop"}
    /\ ~Running
    /\ recorder' = [recorder EXCEPT !.joinable = FALSE, !.stop = FALSE, !.queue = <<>>]
    /\ \/ Top = "unrecord: stop" /\ calls' = Returned /\ UNCHANGED transport
       \/ Top = "record: stop" /\ calls' = Append(Returned, "record: dialog") /\ UNCHANGED transport
       \/ Top = "start: stop" /\ requested
          /\ calls' = Append(Returned, "start: dialog") /\ UNCHANGED transport
       \/ Top = "start: stop" /\ ~requested /\ Created
    /\ UNCHANGED <<requested, timer, accepted, replaced, bounds>>

\* A file is chosen, and a thread assigned to m_recordingThread.
FileChosen ==
    /\ Top \in {"record: dialog", "start: dialog"}
    /\ recorder' = [NoRecorder EXCEPT !.joinable = TRUE, !.phase = "opening"]
    /\ replaced' = (replaced \/ recorder.joinable)
    /\ accepted' = <<>>
    /\ IF Top = "start: dialog" THEN Created ELSE calls' = Returned /\ UNCHANGED transport
    /\ UNCHANGED <<requested, timer, bounds>>

DialogCancelled ==
    /\ Top \in {"record: dialog", "start: dialog"}
    /\ requested' = FALSE
    /\ IF Top = "start: dialog" THEN Created ELSE calls' = Returned /\ UNCHANGED transport
    /\ UNCHANGED <<recorder, timer, accepted, replaced, bounds>>

-----------------------------------------------------------------------------
recorderInit ==
    /\ requested = FALSE /\ recorder = NoRecorder /\ transport = "none" /\ timer = FALSE
    /\ calls = <<>> /\ accepted = <<>> /\ replaced = FALSE
    /\ received = 0 /\ losses = 0 /\ toggles = 0

recorderNext ==
    \/ RecordVariableEvent \/ RecorderSteps
    \/ ToggleRecord \/ OnConnectTransport \/ LoseConnection \/ OnReconnectTimerFired
    \/ ReportConnected \/ Joined \/ FileChosen \/ DialogCancelled

recorderSpec == recorderInit /\ [][recorderNext]_recorderVars

-----------------------------------------------------------------------------
(* Properties *)

\* When a recorder whose file could be opened has ended, the file holds every event
\* the queue accepted, in order, whichever thread put it there and whenever the
\* recorder was told to stop.
FileComplete == recorder.phase = "ended" /\ ~replaced => recorder.file = accepted

\* A recorder is started only when the one before it was joined ("each expiry
\* triggers one Stop+Start cycle").
OneRecorder == ~replaced
=============================================================================
