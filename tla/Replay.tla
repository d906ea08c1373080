-------------------------------- MODULE Replay --------------------------------
(***************************************************************************)
(* The replay transport (dashboard_transport.cpp) under the main window's    *)
(* playback controls: a loaded recording, the worker thread that advances    *)
(* the cursor and publishes what it passes, and seeks, which rebuild the     *)
(* values of a position from the checkpoint before it.  A seek is called by  *)
(* the window and shows its values at once; what the worker publishes goes   *)
(* through the window's queue.  The worker's tick collects under the lock    *)
(* and publishes after it; the values of a seek touch nothing the worker     *)
(* does, so that a seek is one step.  Times are small numbers, and an        *)
(* event's value is its place in the file.                                   *)
(***************************************************************************)
EXTENDS WindowIngest

CONSTANTS
    Recordings,     \* the files that may be opened
    Stride,         \* checkpointStride
    Apart,          \* dedupeThresholdUs
    MaxMoves        \* bound: uses of the playback controls

VARIABLES
    file,       \* m_events: [kind, at, key, seq, value]
    player,     \* the members under m_mutex, and the worker's collected updates
    shown,      \* the window, as a record of WindowIngest
    bookmarks,  \* the times of m_userReplayBookmarks
    rebuilt,    \* history: how many events the last seek rebuilt its values from,
    overtaken,  \* and whether updates of another position were on their way then
    moves

playerVars == <<file, player, shown, bookmarks, rebuilt, overtaken, moves>>

NoPlayer == [running |-> FALSE, playing |-> FALSE, cursor |-> 0, next |-> 0, batch |-> <<>>]

Duration == file[Len(file)].at

Move == moves < MaxMoves /\ moves' = moves + 1

-----------------------------------------------------------------------------
(* The recording *)

\* std::lower_bound: how many events are before the time, those at it left out.
FindFirstEventAfterTime(time) == Cardinality({i \in DOMAIN file : file[i].at < time})

ReplayEvents == [kind : {"data", "marker"}, at : Nat, key : Keys, value : Nat, seq : Nat]

\* A file that is opened has events, and they are sorted.  Their numbers are what was
\* recorded: by connection from 1 or from 0, by entry and wrapping to 0, or none at all.
ASSUME ReplayAssumption ==
    /\ IsFiniteSet(Keys) /\ Stride \in Nat \ {0} /\ Budget \in Nat
    /\ \A events \in Recordings :
          /\ events \in Seq(ReplayEvents) /\ events # <<>>
          /\ \A i, j \in DOMAIN events : i <= j => events[i].at <= events[j].at

\* The last update of each key, over what was known before.
Applied(latest, events) ==
    LET updates == Collected(events, {i \in DOMAIN events : events[i].kind = "data"})
        keys == {updates[i].key : i \in DOMAIN updates}
    IN  [k \in DOMAIN latest \cup keys |-> IF k \in keys THEN updates[LastOf(updates, k)] ELSE latest[k]]

NoUpdates == [k \in {} |-> 0]

\* A checkpoint holds the events up to its index, the one at the index included.
Checkpoint(index) == Applied(NoUpdates, SubSeq(file, 1, index + 1))

CheckpointIndices == {i \in 0 .. Len(file) - 1 : i % Stride = 0}

FindCheckpointForEvent(index) == CHOOSE i \in CheckpointIndices :
    i <= index /\ \A j \in CheckpointIndices : j <= index => j <= i

\* From the checkpoint's index on, the events before the target.
Reconstructed(target) ==
    LET from == FindCheckpointForEvent(target)
    IN  Applied(Checkpoint(from), SubSeq(file, from + 1, target))

-----------------------------------------------------------------------------
(* Seeking, by the window's thread *)

\* The updates are received in the order of their keys.
Received(w, latest) ==
    LET keys == SetToSeq(DOMAIN latest)
    IN  FoldLeft(OnVariableUpdateReceived, w, [i \in DOMAIN keys |-> latest[keys[i]]])

Clamped(time) == IF time > Duration THEN Duration ELSE time

\* Variant: the position in the file stays where it was.
SeekPlaybackUsIndex(w, p, time) ==
    LET cursor == Clamped(time)
    IN  /\ player' = [p EXCEPT !.cursor = cursor]
        /\ shown' = Received(w, Reconstructed(FindFirstEventAfterTime(cursor)))
        /\ rebuilt' = FindFirstEventAfterTime(cursor)
        /\ overtaken' = (p.batch # <<>> \/ w.pending # <<>>)

SeekPlaybackUs(w, p, time) ==
    LET cursor == Clamped(time)
        target == FindFirstEventAfterTime(cursor)
    IN  /\ player' = [p EXCEPT !.cursor = cursor, !.next = target]
        /\ shown' = Received(w, Reconstructed(target))
        /\ rebuilt' = IF target \in CheckpointIndices THEN target + 1 ELSE target
        /\ overtaken' = (p.batch # <<>> \/ w.pending # <<>>)

-----------------------------------------------------------------------------
(* The worker *)

Passed(from, to, next) ==
    Collected(file, {i \in next + 1 .. to : file[i].kind = "data" /\ file[i].at >= from})

\* A tick of the loop while playing: the time since the last one, under any rate, moves
\* the cursor; at the end playing stops.
Tick(elapsed) ==
    /\ player.running /\ player.playing /\ player.batch = <<>>
    /\ LET cursor == Clamped(player.cursor + elapsed)
           end == FindFirstEventAfterTime(cursor)
       IN  player' = [player EXCEPT !.cursor = cursor,
                          !.next = IF end > @ THEN end ELSE @,
                          !.batch = Passed(player.cursor, end, player.next),
                          !.playing = cursor < Duration]
    /\ UNCHANGED <<file, shown, bookmarks, rebuilt, overtaken, moves>>

PublishUpdate ==
    /\ player.batch # <<>>
    /\ shown' = QueueUpdate(shown, Head(player.batch))
    /\ player' = [player EXCEPT !.batch = Tail(@)]
    /\ UNCHANGED <<file, bookmarks, rebuilt, overtaken, moves>>

-----------------------------------------------------------------------------
(* The window's thread *)

HandlePosted ==
    /\ shown.posted # <<>>
    /\ LET e == Head(shown.posted) w == Handled(shown) IN
       shown' = CASE e = "drain" -> DrainPendingUiUpdates(w)
                   [] e = "connected" -> OnConnectionStateChanged(w, e)
                   [] OTHER -> [w EXCEPT !.state = e]
    /\ UNCHANGED <<file, player, bookmarks, rebuilt, overtaken, moves>>

\* Start loads the file, reports the connection and seeks to the beginning.
OpenReplay ==
    /\ ~player.running /\ Move
    /\ SeekPlaybackUs(Post(BeforeStart(shown), "connected"),
                      [NoPlayer EXCEPT !.running = TRUE], 0)
    /\ UNCHANGED <<file, bookmarks>>

\* Stop joins the worker, which has published what it collected.
StopReplay ==
    /\ player.running /\ Move
    /\ player' = [player EXCEPT !.running = FALSE, !.playing = FALSE, !.batch = <<>>]
    /\ shown' = Post(FoldLeft(QueueUpdate, shown, player.batch), "disconnected")
    /\ UNCHANGED <<file, bookmarks, rebuilt, overtaken>>

\* Playing on after a pause, or a rate, starts no time over: the cursor stays.
OnPlaybackPlayPause ==
    /\ player.running /\ Move
    /\ player' = [player EXCEPT !.playing = ~@]
    /\ UNCHANGED <<file, shown, bookmarks, rebuilt, overtaken>>

SeekTo(time) ==
    /\ player.running /\ Move
    /\ SeekPlaybackUs(shown, player, time)
    /\ UNCHANGED <<file, bookmarks>>

OnPlaybackRewindToStart ==
    /\ player.running /\ Move
    /\ SeekPlaybackUs(shown, [player EXCEPT !.playing = FALSE], 0)
    /\ UNCHANGED <<file, bookmarks>>

OnPlaybackCursorScrubbed(time) == time # player.cursor /\ SeekTo(time)

\* The recording's markers and the operator's bookmarks.
Markers == {file[i].at : i \in {j \in DOMAIN file : file[j].kind = "marker"}} \cup bookmarks

Least(S) == CHOOSE t \in S : \A u \in S : t <= u
Greatest(S) == CHOOSE t \in S : \A u \in S : u <= t

OnPlaybackPreviousMarker ==
    /\ Markers # {}
    /\ LET before == {t \in Markers : t < player.cursor}
       IN  SeekTo(IF before = {} THEN Least(Markers) ELSE Greatest(before))

OnPlaybackNextMarker ==
    /\ Markers # {}
    /\ LET after == {t \in Markers : t > player.cursor}
       IN  SeekTo(IF after = {} THEN Greatest(Markers) ELSE Least(after))

OnAddReplayBookmark ==
    /\ player.running /\ Move
    /\ \A t \in bookmarks : t - player.cursor > Apart \/ player.cursor - t > Apart
    /\ bookmarks' = bookmarks \cup {player.cursor}
    /\ UNCHANGED <<file, player, shown, rebuilt, overtaken>>

OnClearReplayBookmarks ==
    /\ bookmarks # {} /\ Move
    /\ bookmarks' = {}
    /\ UNCHANGED <<file, player, shown, rebuilt, overtaken>>

-----------------------------------------------------------------------------
playerInit ==
    /\ file \in Recordings
    /\ player = NoPlayer
    /\ shown = NewWindow
    /\ bookmarks = {}
    /\ rebuilt = 0 /\ overtaken = FALSE
    /\ moves = 0

playerNext ==
    \/ \E t \in 0 .. Duration : Tick(t) \/ OnPlaybackCursorScrubbed(t)
    \/ PublishUpdate \/ HandlePosted \/ OpenReplay \/ StopReplay
    \/ OnPlaybackPlayPause \/ OnPlaybackRewindToStart
    \/ OnPlaybackPreviousMarker \/ OnPlaybackNextMarker
    \/ OnAddReplayBookmark \/ OnClearReplayBookmarks

playerSpec == playerInit /\ [][playerNext]_playerVars

-----------------------------------------------------------------------------
(* Properties *)

Settled == player.running /\ player.batch = <<>> /\ shown.pending = <<>>

\* The last update of each key among the events passed or rebuilt.
Expected == Applied(NoUpdates, SubSeq(file, 1, IF rebuilt > player.next THEN rebuilt ELSE player.next))

TilesAreRight == \A k \in DOMAIN Expected \ shown.muted : shown.tile[k] = Expected[k].value

\* When nothing is on its way, the tiles show the values at the cursor, by whatever
\* ticks and seeks it came there, if the last seek met no update on its way.  Not where
\* the gate refused a key's last update because one numbered 0 had come after others:
\* it lets the numbers go back and resets nothing.
TilesFollowCursor == Settled /\ ~overtaken => TilesAreRight

=============================================================================
