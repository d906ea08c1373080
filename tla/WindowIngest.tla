----------------------------- MODULE WindowIngest -----------------------------
(***************************************************************************)
(* What the main window (main_window.cpp) does with the updates and reports of   *)
(* a plugin's threads: the queue of pending updates, which collapses above a      *)
(* high-water mark and is drained a budget at a time by calls queued to the       *)
(* window's thread; the gate on sequence numbers in the variable store             *)
(* (variable_store.cpp); the tiles; the operator's edits; and the timer of the     *)
(* retries.  The window is a record and every operator here a function of it; the  *)
(* modules of the plugins keep it in a variable.  The keys are plain numbers, no    *)
(* parts of a chooser and no camera's.                                              *)
(***************************************************************************)
EXTENDS Naturals, Sequences, FiniteSets, SequencesExt, Places

CONSTANTS
    Keys,
    HighWater,      \* kQueueHighWater
    Budget          \* kDrainBudget

NoEdit == 0

\* store holds the record of each key; tile is what its tile shows.  The rest is history:
\* crossed, updates of the transport before were waiting when this one started; zeroed,
\* an update numbered 0 came after others since the gates were last reset; muted, the
\* keys whose last update was refused because of that.
NewWindow ==
    [pending |-> <<>>, scheduled |-> FALSE, posted |-> <<>>,
     store |-> [k \in Keys |-> [value |-> 0, seq |-> 0]], tile |-> [k \in Keys |-> 0],
     lastSeq |-> 0, edits |-> [k \in Keys |-> NoEdit],
     state |-> "off", timer |-> FALSE, userOff |-> FALSE,
     crossed |-> FALSE, zeroed |-> FALSE, muted |-> {}]

\* The window's thread is asked to do e.
Post(w, e) == [w EXCEPT !.posted = Append(@, e)]

Handled(w) == [w EXCEPT !.posted = Tail(@)]

LastOf(updates, k) ==
    CHOOSE i \in DOMAIN updates :
        /\ updates[i].key = k
        /\ \A j \in DOMAIN updates : updates[j].key = k => j <= i

\* The last update of each key, in the order the keys first appear.
LatestPerKey(updates) ==
    LET firsts == {i \in DOMAIN updates : \A j \in 1 .. i - 1 : updates[j].key # updates[i].key}
        latest == [i \in firsts |-> updates[LastOf(updates, updates[i].key)]]
    IN  Collected(latest, firsts)

\* Variant: above the mark the oldest updates are dropped.
CollapsedOldest(updates) ==
    IF Len(updates) > HighWater THEN Tail(updates) ELSE updates

Collapsed(updates) ==
    IF Len(updates) > HighWater THEN LatestPerKey(updates) ELSE updates

\* The callback of a transport's thread: one drain is scheduled at a time.
QueueUpdate(w, u) ==
    LET queued == [w EXCEPT !.pending = Collapsed(Append(@, u)), !.scheduled = TRUE]
    IN  IF w.scheduled THEN queued ELSE Post(queued, "drain")

ResetSequenceTracking(w) ==
    [w EXCEPT !.store = [k \in Keys |-> [@[k] EXCEPT !.seq = 0]], !.zeroed = FALSE]

\* An older sequence number does not change the record.
Upsert(record, u) == IF u.seq >= record.seq THEN [value |-> u.value, seq |-> u.seq] ELSE record

\* An update numbered 0 has come after others.
Zeroed(w, u) == w.zeroed \/ (u.seq = 0 /\ \E k \in Keys : w.store[k].seq # 0)

\* It is why this one is refused.
Muted(w, u) ==
    IF Zeroed(w, u) /\ u.seq < w.store[u.key].seq THEN w.muted \cup {u.key} ELSE w.muted \ {u.key}

\* Numbers that go back reset the gates, unless they go back to 0.
OnVariableUpdateReceived(w, u) ==
    LET back == u.seq # 0 /\ w.lastSeq # 0 /\ u.seq < w.lastSeq
        open == IF back THEN ResetSequenceTracking(w) ELSE w
        record == Upsert(open.store[u.key], u)
    IN  [open EXCEPT !.lastSeq = u.seq, !.store[u.key] = record, !.tile[u.key] = record.value,
                     !.zeroed = Zeroed(open, u), !.muted = Muted(open, u)]

\* A budget's worth is taken, and a drain posted for the rest, before the taken
\* updates are shown.
DrainPendingUiUpdates(w) ==
    LET take == IF Budget < Len(w.pending) THEN Budget ELSE Len(w.pending)
        batch == SubSeq(w.pending, 1, take)
        rest == SubSeq(w.pending, take + 1, Len(w.pending))
        taken == [w EXCEPT !.pending = rest, !.scheduled = rest # <<>>]
    IN  FoldLeft(OnVariableUpdateReceived,
                 IF rest # <<>> THEN Post(taken, "drain") ELSE taken,
                 LatestPerKey(batch))

\* The edits to be published again are shown again.
RepublishPluginControlEdits(w) ==
    [w EXCEPT !.tile = [k \in Keys |-> IF w.edits[k] = NoEdit THEN @[k] ELSE w.edits[k]]]

OnConnectionStateChanged(w, state) ==
    CASE state = "connected" ->
             [RepublishPluginControlEdits(ResetSequenceTracking(w))
                EXCEPT !.state = state, !.timer = FALSE, !.userOff = FALSE]
      [] state = "disconnected" -> [w EXCEPT !.state = state, !.timer = @ \/ ~w.userOff]
      [] OTHER -> [w EXCEPT !.state = state]

OnControlDoubleEdited(w, k, v) == [w EXCEPT !.edits[k] = v, !.tile[k] = v]

\* What StartTransport does to the window between the old transport and the new.
BeforeStart(w) == [ResetSequenceTracking(w) EXCEPT !.crossed = w.pending # <<>>]
================================================================================
