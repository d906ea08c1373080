------------------------------ MODULE RunBrowser ------------------------------
(***************************************************************************)
(* The run browser (run_browser_dock.cpp) and the window's tiles: a tree of keys    *)
(* with boxes, under groups whose boxes have three states, that decides which       *)
(* tiles are shown.  In streaming mode the tree mirrors the tiles; in reading mode   *)
(* it lists the keys of a replay file.  The dock's signal runs the window's handler   *)
(* before the call that emitted it returns, so a user's click is one step.            *)
(***************************************************************************)
EXTENDS Integers, FiniteSets, FiniteSetsExt

CONSTANTS
    TreeKeys,       \* the keys of tiles and of the tree
    GroupOf,        \* [TreeKeys -> names of groups], "" for a key of one segment
    FileKeys,       \* keys of the replay file
    MaxClicks       \* bound: actions of a behaviour

ASSUME BrowserAssumption == IsFiniteSet(TreeKeys) /\ FileKeys \subseteq TreeKeys

VARIABLES
    board,          \* what the main window keeps of it
    tree,           \* the dock
    layout,         \* the layout file
    replay,         \* the selected transport replays a file
    running,        \* m_transport
    unwanted,       \* history: keys the user has hidden and not shown since
    clicks

browserVars == <<board, tree, layout, replay, running, unwanted, clicks>>

Groups == {GroupOf[k] : k \in TreeKeys} \ {""}
Members(g) == {k \in TreeKeys : GroupOf[k] = g}
Tiles(w) == {k \in TreeKeys : w.tile[k] # "none"}

\* The state of a parent's box, from those of its children.
CheckState(children) ==
    IF children = {} THEN "off"
    ELSE IF children = {"on"} THEN "on"
    ELSE IF children \cap {"on", "part"} = {} THEN "off" ELSE "part"

UpdateGroupCheckState(t, g) ==
    [t EXCEPT !.groups[g] = CheckState({t.ticks[k] : k \in Members(g)} \ {"none"})]

UpdateRunCheckState(t) ==
    [t EXCEPT !.root = CheckState(({t.groups[g] : g \in Groups} \cup {t.ticks[k] : k \in Members("")}) \ {"none"})]

\* A key's groups, then the root.
UpdateAbove(t, keys) ==
    LET groups == {GroupOf[k] : k \in keys} \ {""}
    IN  UpdateRunCheckState([t EXCEPT !.groups = [g \in Groups |->
            IF g \in groups THEN UpdateGroupCheckState(t, g).groups[g] ELSE t.groups[g]]])

\* lazy is m_streamingHiddenKeys: what to untick when its tile arrives.
EmptyTree == [streaming |-> FALSE, loaded |-> FALSE, root |-> "none", lazy |-> {},
              ticks |-> [k \in TreeKeys |-> "none"], groups |-> [g \in Groups |-> "none"]]
StreamingTree(lazy) == [EmptyTree EXCEPT !.streaming = TRUE, !.root = "on", !.lazy = lazy]

\* An unticked root hides everything under it.
CheckedKeys(t) == IF t.root \in {"none", "off"} THEN {} ELSE {k \in TreeKeys : t.ticks[k] = "on"}
GetHiddenDiscoveredKeys(t) ==
    IF t.streaming THEN {k \in TreeKeys : t.ticks[k] # "none"} \ CheckedKeys(t) ELSE {}

\* Variant: the handler leaves the keys to hide at a reconnect as they were.
OnRunBrowserCheckedSignalsChangedStale(w, t, keys) ==
    [w EXCEPT !.checked = keys,
              !.tile = [k \in TreeKeys |->
                  IF w.tile[k] = "none" THEN "none"
                  ELSE IF (IF w.active THEN k \in keys ELSE k \notin w.hidden) THEN "shown" ELSE "hidden"]]

\* The window's handler of the dock's signal.
OnRunBrowserCheckedSignalsChanged(w, t, keys) ==
    [w EXCEPT !.checked = keys,
              !.tile = [k \in TreeKeys |->
                  IF w.tile[k] = "none" THEN "none"
                  ELSE IF (IF w.active THEN k \in keys ELSE k \notin w.hidden) THEN "shown" ELSE "hidden"],
              !.hidden = IF w.active /\ t.streaming THEN GetHiddenDiscoveredKeys(t) ELSE w.hidden]

\* The window and the dock after a change of the tree and its signal.
Emitted(w, t) == [window |-> OnRunBrowserCheckedSignalsChanged(w, t, CheckedKeys(t)), tree |-> t]

-----------------------------------------------------------------------------
(* The dock's operations *)

\* Variant: the keys to hide are not looked up when a tile arrives.
OnTileAddedTicked(b, k) ==
    LET added == [b.tree EXCEPT !.ticks[k] = "on",
                                !.groups = [g \in Groups |-> IF g = GroupOf[k] /\ @[g] = "none" THEN "on" ELSE @[g]]]
    IN  IF ~b.tree.streaming \/ b.tree.ticks[k] # "none" THEN b ELSE Emitted(b.window, UpdateRunCheckState(added))

\* The groups are computed again only when there are keys to hide.
OnTileAdded(b, k) ==
    LET added == [b.tree EXCEPT !.ticks[k] = IF k \in b.tree.lazy THEN "off" ELSE "on",
                                !.groups = [g \in Groups |-> IF g = GroupOf[k] /\ @[g] = "none" THEN "on" ELSE @[g]]]
    IN  IF ~b.tree.streaming \/ b.tree.ticks[k] # "none" THEN b
        ELSE Emitted(b.window, IF b.tree.lazy # {} THEN UpdateAbove(added, {k}) ELSE UpdateRunCheckState(added))

\* Of the groups above, only those left empty are touched.
OnTileRemoved(b, k) ==
    LET t == [b.tree EXCEPT !.ticks[k] = "none", !.lazy = @ \ {k}]
        emptied == {g \in Groups : g = GroupOf[k] /\ \A j \in Members(g) : t.ticks[j] = "none"}
    IN  IF ~b.tree.streaming \/ b.tree.ticks[k] = "none" THEN b
        ELSE Emitted(b.window, UpdateRunCheckState([t EXCEPT !.groups =
                 [g \in Groups |-> IF g \in emptied THEN "none" ELSE @[g]]]))

ClearDiscoveredKeys(b) ==
    IF b.tree.streaming THEN Emitted(b.window, StreamingTree({})) ELSE b

ClearAllRuns(b) == Emitted(b.window, EmptyTree)

SetStreamingRootLabel(b) == [b EXCEPT !.tree = StreamingTree(b.tree.lazy)]

\* Called on an empty tree: nothing to untick yet, and a root without children is off.
SetHiddenDiscoveredKeys(b, keys) ==
    IF keys = {} THEN b ELSE Emitted(b.window, UpdateRunCheckState([b.tree EXCEPT !.lazy = keys]))

UncheckSignalsByKeys(b, keys) ==
    LET found == {k \in keys : b.tree.ticks[k] = "on"}
        t == [b.tree EXCEPT !.ticks = [k \in TreeKeys |-> IF k \in found THEN "off" ELSE @[k]]]
    IN  IF found = {} THEN b ELSE Emitted(b.window, UpdateAbove(t, found))

AddRunFromFile(b) ==
    [b EXCEPT !.tree = [EmptyTree EXCEPT
        !.loaded = TRUE, !.root = "off",
        !.ticks = [k \in TreeKeys |-> IF k \in FileKeys THEN "off" ELSE "none"],
        !.groups = [g \in Groups |-> IF Members(g) \cap FileKeys = {} THEN "none" ELSE "off"]]]

SetCheckedGroupsBySignalKeys(b, keys) ==
    LET t == [b.tree EXCEPT !.ticks = [k \in TreeKeys |-> IF k \in keys /\ @[k] # "none" THEN "on" ELSE @[k]]]
    IN  IF keys = {} THEN b ELSE Emitted(b.window, UpdateAbove(t, FileKeys))

-----------------------------------------------------------------------------
(* The window's operations *)

GetOrCreateTile(b, k) ==
    LET visible == IF b.window.active THEN k \in b.window.checked ELSE k \notin b.window.hidden
    IN  IF b.window.tile[k] # "none" THEN b
        ELSE OnTileAdded([b EXCEPT !.window.tile[k] = IF visible THEN "shown" ELSE "hidden"], k)

\* Clear Widgets: a blank slate, for the dock too.
ClearWidgets(b) ==
    LET blank == [b.window EXCEPT !.tile = [k \in TreeKeys |-> "none"], !.hidden = {}, !.active = FALSE, !.checked = {}]
        cleared == ClearAllRuns([b EXCEPT !.window = blank])
    IN  ClearDiscoveredKeys(IF replay THEN cleared ELSE SetStreamingRootLabel(cleared))

LoadLayoutFromPath(b, file) ==
    LET made == FoldSet(LAMBDA k, acc : GetOrCreateTile(acc, k), [b EXCEPT !.window.hidden = file.hidden], file.keys)
        walked == [made EXCEPT !.window.tile = [k \in TreeKeys |->
                      IF @[k] = "none" THEN "none" ELSE IF k \in file.hidden THEN "hidden" ELSE "shown"]]
    IN  IF ~file.exists THEN b
        ELSE IF made.window.active THEN UncheckSignalsByKeys(made, file.hidden) ELSE walked

\* The dock starts over and is given what to hide, then every tile there is; the
\* flag is off meanwhile so that the empty tree's signal hides nothing.
StartLive(b) ==
    LET empty == SetStreamingRootLabel(ClearDiscoveredKeys([b EXCEPT !.window.active = FALSE]))
        fresh == SetHiddenDiscoveredKeys(empty, empty.window.hidden)
        fed == FoldSet(LAMBDA k, acc : OnTileAdded(acc, k), fresh, Tiles(b.window))
    IN  [fed EXCEPT !.window.active = TRUE]

\* A file the dock already shows is not loaded again, and the flag stays off.
PopulateRunBrowserFromReplayFile(b) ==
    LET cleared == ClearAllRuns([b EXCEPT !.window.active = FALSE])
        loaded == [AddRunFromFile(cleared) EXCEPT !.window.active = TRUE]
    IN  IF b.tree.loaded THEN [b EXCEPT !.window.active = FALSE]
        ELSE SetCheckedGroupsBySignalKeys(loaded, b.window.checked)

StartTransport(b, kind) ==
    /\ replay' = kind
    /\ running' = TRUE
    /\ LET after == IF kind THEN PopulateRunBrowserFromReplayFile(b) ELSE StartLive(b)
       IN  board' = after.window /\ tree' = after.tree

Board == [window |-> board, tree |-> tree]
Become(b) == board' = b.window /\ tree' = b.tree

-----------------------------------------------------------------------------
(* Actions *)

Arrives(k) ==
    /\ running /\ board.tile[k] = "none" /\ (replay => k \in FileKeys)
    /\ Become(GetOrCreateTile(Board, k))
    /\ UNCHANGED <<layout, replay, running, unwanted>>

\* The user's click on a box of the tree, in OnModelItemChanged.
Toggled(state) == IF state = "on" THEN "off" ELSE "on"
Chosen(keys, state) == unwanted' = IF state = "off" THEN unwanted \cup keys ELSE unwanted \ keys

ClickSignal(k) ==
    LET state == Toggled(tree.ticks[k])
    IN  /\ tree.ticks[k] # "none"
        /\ Become(Emitted(board, UpdateAbove([tree EXCEPT !.ticks[k] = state], {k})))
        /\ Chosen({k}, state)
        /\ UNCHANGED <<layout, replay, running>>

Pushed(keys, state) == [k \in TreeKeys |-> IF k \in keys /\ tree.ticks[k] # "none" THEN state ELSE tree.ticks[k]]

ClickGroup(g) ==
    LET state == Toggled(tree.groups[g])
    IN  /\ tree.groups[g] # "none"
        /\ Become(Emitted(board, UpdateRunCheckState(
               [tree EXCEPT !.groups[g] = state, !.ticks = Pushed(Members(g), state)])))
        /\ Chosen({k \in Members(g) : tree.ticks[k] # "none"}, state)
        /\ UNCHANGED <<layout, replay, running>>

ClickRun ==
    LET state == Toggled(tree.root)
    IN  /\ tree.root # "none"
        /\ Become(Emitted(board, [tree EXCEPT !.root = state, !.ticks = Pushed(TreeKeys, state),
               !.groups = [g \in Groups |-> IF @[g] = "none" THEN "none" ELSE state]]))
        /\ Chosen({k \in TreeKeys : tree.ticks[k] # "none"}, state)
        /\ UNCHANGED <<layout, replay, running>>

\* Right-click and Hide, on one tile or on those selected.
OnHideTileRequested(keys) ==
    /\ keys # {} /\ \A k \in keys : board.tile[k] = "shown"
    /\ IF board.active THEN Become(UncheckSignalsByKeys(Board, keys))
       ELSE /\ board' = [board EXCEPT !.tile = [k \in TreeKeys |-> IF k \in keys THEN "hidden" ELSE @[k]]]
            /\ UNCHANGED tree
    /\ unwanted' = unwanted \cup keys
    /\ UNCHANGED <<layout, replay, running>>

OnRemoveWidgetRequested(k) ==
    /\ board.tile[k] = "shown"
    /\ Become(OnTileRemoved([Board EXCEPT !.window.tile[k] = "none"], k))
    /\ unwanted' = unwanted \ {k}
    /\ UNCHANGED <<layout, replay, running>>

OnClearWidgets ==
    /\ Become(ClearWidgets(Board))
    /\ unwanted' = {}
    /\ UNCHANGED <<layout, replay, running>>

SaveLayoutToPath ==
    /\ layout' = [exists |-> TRUE, keys |-> Tiles(board), hidden |-> {k \in TreeKeys : board.tile[k] = "hidden"}]
    /\ UNCHANGED <<board, tree, replay, running, unwanted>>

\* Open Layout, on top of the tiles or in their place.
OnLoadLayout(instead) ==
    /\ layout.exists
    /\ Become(LoadLayoutFromPath(IF instead THEN ClearWidgets(Board) ELSE Board, layout))
    /\ unwanted' = {}
    /\ UNCHANGED <<layout, replay, running>>

\* Connect, the reconnect timer, or the choice of a live transport.
Connect == StartTransport(Board, FALSE) /\ UNCHANGED <<layout, unwanted>>

SelectReplay ==
    /\ StartTransport(Board, TRUE)
    /\ unwanted' = IF replay THEN unwanted ELSE {}
    /\ UNCHANGED layout

\* A file opened in the menu starts with nothing ticked.
OnOpenReplayFile ==
    /\ StartTransport([Board EXCEPT !.window.checked = {}], TRUE)
    /\ unwanted' = {}
    /\ UNCHANGED layout

OnDisconnectTransport ==
    /\ running /\ ~replay
    /\ running' = FALSE
    /\ UNCHANGED <<board, tree, layout, replay, unwanted>>

\* The dashboard is closed and opened: the settings, then the layout, then the transport.
Restart ==
    LET kept == [board EXCEPT !.tile = [k \in TreeKeys |-> "none"],
                               !.hidden = IF tree.streaming THEN GetHiddenDiscoveredKeys(tree) ELSE @]
    IN  /\ StartTransport(LoadLayoutFromPath([window |-> kept, tree |-> EmptyTree], layout), replay)
        /\ unwanted' = IF layout.exists \/ replay THEN {} ELSE unwanted
        /\ UNCHANGED layout

-----------------------------------------------------------------------------
browserInit ==
    LET blank == [active |-> FALSE, checked |-> {}, hidden |-> {}, tile |-> [k \in TreeKeys |-> "none"]]
        started == StartLive([window |-> blank, tree |-> EmptyTree])
    IN  /\ board = started.window /\ tree = started.tree
        /\ layout = [exists |-> FALSE, keys |-> {}, hidden |-> {}]
        /\ replay = FALSE /\ running = TRUE /\ unwanted = {} /\ clicks = 0

browserNext ==
    /\ clicks < MaxClicks /\ clicks' = clicks + 1
    /\ \/ \E k \in TreeKeys : Arrives(k) \/ ClickSignal(k) \/ OnRemoveWidgetRequested(k)
       \/ \E g \in Groups : ClickGroup(g)
       \/ ClickRun
       \/ \E keys \in SUBSET TreeKeys : OnHideTileRequested(keys)
       \/ OnClearWidgets \/ SaveLayoutToPath
       \/ \E instead \in BOOLEAN : OnLoadLayout(instead)
       \/ Connect \/ SelectReplay \/ OnOpenReplayFile \/ OnDisconnectTransport \/ Restart

browserSpec == browserInit /\ [][browserNext]_browserVars

-----------------------------------------------------------------------------
(* Properties *)

\* While the dock is in charge of live tiles, a tile is shown if and only if its box
\* is ticked, unless the root's box is not: whatever was hidden, removed, loaded and
\* reconnected before.
ShownAsTicked ==
    board.active /\ tree.streaming =>
        \A k \in Tiles(board) :
            (board.tile[k] = "shown") <=> (tree.ticks[k] = "on" /\ tree.root # "off")

\* What happens to the transport, of itself or at the user's wish.
Lifecycle == Connect \/ OnDisconnectTransport \/ \E k \in TreeKeys : Arrives(k)

\* With the dock in charge, a tile the user has hidden, and whose box is unticked, stays
\* hidden through arrivals and reconnects.
HiddenSurvivesReconnect ==
    [][Lifecycle /\ board.active /\ tree.streaming =>
          \A k \in unwanted :
              tree.ticks[k] = "off" /\ board.tile[k] = "hidden" => board'.tile[k] = "hidden"]_browserVars

\* The "sovereignty rule" of the handler's comment: also a key whose tile is still to
\* arrive in this session is shown by no event of the transport.
SovereigntyRule ==
    [][Lifecycle /\ board.active /\ tree.streaming =>
          \A k \in unwanted : board.tile[k] # "shown" => board'.tile[k] # "shown"]_browserVars
=============================================================================
