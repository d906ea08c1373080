--------------------------- MODULE MainWindowProofs ---------------------------
(***************************************************************************)
(* Five parts of the main window that keep to themselves: the run browser,   *)
(* for every finite set of keys, every grouping of them, every replay file   *)
(* and any number of clicks, arrivals, layouts and starts of a transport;    *)
(* the recorder, for every number of events, losses, uses of the record      *)
(* button and dialogs open at once; the timeline, for every recording, span  *)
(* and position of the mouse; the cameras, for every set of names and URLs   *)
(* and every choice the combo box makes on its own; and the replay with the  *)
(* window's queue, for every recording that ReplayAssumption allows and any  *)
(* ticks, seeks, stops and starts.                                           *)
(*                                                                           *)
(* Loading a layout, starting a live transport and clearing a provider are   *)
(* loops over keys and cameras, the first two written with FoldSet; a seek   *)
(* and a drain are loops over updates, written with FoldLeft.  What they     *)
(* leave is proved by induction over finite sets, which rests on the         *)
(* well-foundedness of the natural numbers.                                  *)
(***************************************************************************)
EXTENDS RunBrowser, Timeline, Recording, CameraViewer, Replay, PlacesProofs

-----------------------------------------------------------------------------
(* The run browser *)

Ticks == {"none", "on", "off"}
Boxes == {"none", "on", "part", "off"}

Windows == [active : BOOLEAN, checked : SUBSET TreeKeys, hidden : SUBSET TreeKeys,
            tile : [TreeKeys -> {"none", "shown", "hidden"}]]

Trees == [streaming : BOOLEAN, loaded : BOOLEAN, root : Boxes, lazy : SUBSET TreeKeys,
          ticks : [TreeKeys -> Ticks], groups : [Groups -> Boxes]]

Boards == [window : Windows, tree : Trees]

Layouts == [exists : BOOLEAN, keys : SUBSET TreeKeys, hidden : SUBSET TreeKeys]

\* The dock lists the tiles, one box each, and decides of each whether it is shown.
Listed(b) == \A k \in TreeKeys : b.tree.ticks[k] # "none" <=> b.window.tile[k] # "none"
Decided(b) ==
    \A k \in TreeKeys : b.window.tile[k] # "none" =>
        (b.window.tile[k] = "shown" <=> k \in CheckedKeys(b.tree))

\* A tree that mirrors the tiles has a root and a box for each of them; one that does not
\* has nothing to untick; and a dock in charge has decided of every tile.
Sound(b) ==
    /\ b \in Boards
    /\ b.tree.streaming => b.tree.root # "none" /\ Listed(b)
    /\ ~b.tree.streaming => b.tree.lazy = {}
    /\ b.tree.streaming /\ b.window.active => Decided(b)

\* What is unticked among some keys is hidden at the next start.
Kept(b, keys) ==
    b.tree.streaming /\ b.window.active =>
        \A k \in keys : b.tree.ticks[k] = "off" => k \in b.window.hidden

\* The board is sound, and the keys the user has hidden are kept.
BrowserInv ==
    /\ Sound(Board) /\ Kept(Board, unwanted)
    /\ layout \in Layouts /\ unwanted \in SUBSET TreeKeys

-----------------------------------------------------------------------------
(* Induction over finite sets *)

\* The element a loop takes next.
Pick(s) == CHOOSE x \in s : TRUE

\* A set without one of its elements.
LEMMA OneLess ==
    ASSUME NEW S, IsFiniteSet(S), NEW s \in SUBSET S, s # {}
    PROVE  /\ Pick(s) \in s /\ s \ {Pick(s)} \in SUBSET S
           /\ Cardinality(s) \in Nat /\ Cardinality(s \ {Pick(s)}) = Cardinality(s) - 1
           /\ Cardinality(s \ {Pick(s)}) \in Nat
  <1>1. Pick(s) \in s
    BY DEF Pick
  <1>2. IsFiniteSet(s)
    BY FS_Subset
  <1>3. Cardinality(s) \in Nat /\ Cardinality(s \ {Pick(s)}) = Cardinality(s) - 1
    BY <1>1, <1>2, FS_CardinalityType, FS_RemoveElement
  <1>4. IsFiniteSet(s \ {Pick(s)})
    BY <1>2, FS_Subset
  <1>5. Cardinality(s \ {Pick(s)}) \in Nat
    BY <1>4, FS_CardinalityType
  <1> QED BY <1>1, <1>3, <1>5

\* What holds of the empty set, and of a set when it holds of the set without one element,
\* holds of every subset of a finite set.
LEMMA SubsetInduction ==
    ASSUME NEW S, IsFiniteSet(S), NEW P, {} \in P,
           \A s \in SUBSET S : s # {} /\ s \ {Pick(s)} \in P => s \in P
    PROVE  \A s \in SUBSET S : s \in P
  <1> SUFFICES ASSUME NEW r \in SUBSET S, r \notin P PROVE FALSE
    OBVIOUS
  <1> DEFINE N == {n \in Nat : \E s \in SUBSET S : s \notin P /\ Cardinality(s) = n}
  <1>1. N \subseteq Nat /\ N # {}
    <2>1. r # {}
      OBVIOUS
    <2>2. Cardinality(r) \in Nat
      BY <2>1, OneLess
    <2> QED BY <2>2
  <1>2. PICK n \in N : \A m \in N : n <= m
    BY <1>1, LeastNumber
  <1>3. PICK s \in SUBSET S : s \notin P /\ Cardinality(s) = n
    BY <1>2
  <1>4. s # {}
    BY <1>3
  <1>5. s \ {Pick(s)} \in SUBSET S /\ Cardinality(s \ {Pick(s)}) = n - 1 /\ n - 1 \in Nat /\ n \in Nat
    <2>1. /\ s \ {Pick(s)} \in SUBSET S /\ Cardinality(s) \in Nat
          /\ Cardinality(s \ {Pick(s)}) = Cardinality(s) - 1 /\ Cardinality(s \ {Pick(s)}) \in Nat
      BY <1>4, OneLess
    <2> QED BY <2>1, <1>3
  <1>6. s \ {Pick(s)} \notin P
    BY <1>3, <1>4
  <1>7. n - 1 \in N
    BY <1>5, <1>6
  <1>8. n <= n - 1
    BY <1>2, <1>7
  <1> QED BY <1>5, <1>8

\* A function on subsets that goes through them one element at a time.
FoldOn(f, D, base, g) ==
    f = [s \in D |-> IF s = {} THEN base ELSE g[<<Pick(s), f[s \ {Pick(s)}]>>]]

\* Such a function on the smaller subsets gives one on the next.
LEMMA FoldGrows ==
    ASSUME NEW S, IsFiniteSet(S), NEW base, NEW g, NEW n \in Nat, NEW f, FoldOn(f, Small(S, n), base, g)
    PROVE  \E h : FoldOn(h, Small(S, n + 1), base, g)
  <1> DEFINE h == [s \in Small(S, n + 1) |-> IF s = {} THEN base ELSE g[<<Pick(s), f[s \ {Pick(s)}]>>]]
  <1>1. ASSUME NEW s \in Small(S, n + 1), s # {}
        PROVE  s \ {Pick(s)} \in Small(S, n) /\ s \ {Pick(s)} \in Small(S, n + 1)
    <2>1. s \in SUBSET S /\ Cardinality(s) < n + 1
      BY DEF Small
    <2>2. s \ {Pick(s)} \in SUBSET S /\ Cardinality(s) \in Nat
          /\ Cardinality(s \ {Pick(s)}) = Cardinality(s) - 1
      BY <1>1, <2>1, OneLess
    <2>3. Cardinality(s \ {Pick(s)}) < n /\ Cardinality(s \ {Pick(s)}) < n + 1
      BY <2>1, <2>2
    <2> QED BY <2>2, <2>3 DEF Small
  <1>2. ASSUME NEW s \in Small(S, n) PROVE h[s] = f[s] 
    <2>1. s \in Small(S, n + 1)
      <3>1. s \in SUBSET S /\ Cardinality(s) < n
        BY DEF Small
      <3>2. Cardinality(s) \in Nat
        BY <3>1, FS_Subset, FS_CardinalityType
      <3>3. Cardinality(s) < n + 1
        BY <3>1, <3>2
      <3> QED BY <3>1, <3>3 DEF Small
    <2>2. h[s] = IF s = {} THEN base ELSE g[<<Pick(s), f[s \ {Pick(s)}]>>]
      BY <2>1
    <2>3. f[s] = IF s = {} THEN base ELSE g[<<Pick(s), f[s \ {Pick(s)}]>>]
      BY DEF FoldOn
    <2> QED BY <2>2, <2>3
  <1>3. \A s \in Small(S, n + 1) :
            (IF s = {} THEN base ELSE g[<<Pick(s), f[s \ {Pick(s)}]>>])
            = IF s = {} THEN base ELSE g[<<Pick(s), h[s \ {Pick(s)}]>>]
    BY <1>1, <1>2
  <1>4. h = [s \in Small(S, n + 1) |-> IF s = {} THEN base ELSE g[<<Pick(s), h[s \ {Pick(s)}]>>]]
    BY <1>3
  <1> QED BY <1>4 DEF FoldOn

\* So there is one on all of them.
LEMMA FoldExists ==
    ASSUME NEW S, IsFiniteSet(S), NEW base, NEW g
    PROVE  \E f : FoldOn(f, SUBSET S, base, g)
  <1> DEFINE N == {n \in Nat : ~\E f : FoldOn(f, Small(S, n), base, g)}
  <1>1. N = {}
    <2> SUFFICES ASSUME N # {} PROVE FALSE
      OBVIOUS
    <2>1. PICK n \in N : \A m \in N : n <= m
      BY LeastNumber
    <2>2. n # 0
      <3>1. Small(S, 0) = {}
        BY FS_Subset, FS_CardinalityType DEF Small
      <3> DEFINE f == [s \in Small(S, 0) |-> base]
      <3>2. FoldOn(f, Small(S, 0), base, g)
        BY <3>1 DEF FoldOn
      <3> QED BY <3>2
    <2>3. n \in Nat /\ n - 1 \in Nat /\ (n - 1) + 1 = n /\ ~(n <= n - 1)
      BY <2>2
    <2>4. PICK f : FoldOn(f, Small(S, n - 1), base, g)
      BY <2>1, <2>3
    <2>5. \E h : FoldOn(h, Small(S, n), base, g)
      <3> DEFINE m == n - 1
      <3>1. m \in Nat /\ m + 1 = n /\ FoldOn(f, Small(S, m), base, g)
        BY <2>3, <2>4
      <3> HIDE DEF m
      <3> QED BY <3>1, FoldGrows
    <2> QED BY <2>5
  <1>2. Cardinality(S) \in Nat /\ Cardinality(S) + 1 \in Nat
    BY FS_CardinalityType
  <1>3. Small(S, Cardinality(S) + 1) = SUBSET S
    <2> SUFFICES ASSUME NEW s \in SUBSET S PROVE Cardinality(s) < Cardinality(S) + 1
      BY DEF Small
    <2>1. Cardinality(s) <= Cardinality(S) /\ Cardinality(s) \in Nat
      BY FS_Subset, FS_CardinalityType
    <2> QED BY <2>1, <1>2
  <1>4. Cardinality(S) + 1 \notin N
    BY <1>1
  <1>5. \E f : FoldOn(f, Small(S, Cardinality(S) + 1), base, g)
    BY <1>2, <1>4
  <1> QED BY <1>3, <1>5

-----------------------------------------------------------------------------
(* The dock's tree *)

\* The boxes right under the root.
Boxed(groups, ticks) == ({groups[g] : g \in Groups} \cup {ticks[k] : k \in Members("")}) \ {"none"}

\* Those in a group, and the groups of some keys.
Under(g, ticks) == {ticks[k] : k \in Members(g)} \ {"none"}
GroupsOf(keys) == {GroupOf[k] : k \in keys}

\* A key is right under the root or in a group.
LEMMA UnderRootOrGroup ==
    ASSUME NEW groups, NEW ticks, NEW k \in TreeKeys
    PROVE  /\ GroupOf[k] \notin Groups /\ ticks[k] # "none" => ticks[k] \in Boxed(groups, ticks)
           /\ \A g \in Groups : groups[g] # "none" => groups[g] \in Boxed(groups, ticks)
  BY Zenon DEF Boxed, Members, Groups

LEMMA CheckStates == ASSUME NEW c PROVE CheckState(c) \in {"on", "part", "off"}
  BY DEF CheckState

LEMMA RootUpdated ==
    ASSUME NEW t \in Trees, NEW u, u = UpdateRunCheckState(t)
    PROVE  /\ u \in Trees /\ u.root \in {"on", "part", "off"}
           /\ u.root = CheckState(Boxed(t.groups, t.ticks))
           /\ u.ticks = t.ticks /\ u.groups = t.groups /\ u.streaming = t.streaming
           /\ u.lazy = t.lazy /\ u.loaded = t.loaded
  <1> DEFINE r == CheckState(Boxed(t.groups, t.ticks))
  <1>1. r \in {"on", "part", "off"}
    BY CheckStates
  <1>2. u = [t EXCEPT !.root = r]
    BY Zenon DEF UpdateRunCheckState, Boxed
  <1> HIDE DEF r
  <1>3. u \in Trees /\ u.root = r /\ u.ticks = t.ticks /\ u.groups = t.groups /\ u.streaming = t.streaming
        /\ u.lazy = t.lazy /\ u.loaded = t.loaded
    BY <1>1, <1>2 DEF Trees, Boxes
  <1> QED BY <1>1, <1>3 DEF r

LEMMA AboveUpdated ==
    ASSUME NEW t \in Trees, NEW keys, NEW u, u = UpdateAbove(t, keys)
    PROVE  /\ u \in Trees /\ u.root \in {"on", "part", "off"}
           /\ u.ticks = t.ticks /\ u.streaming = t.streaming /\ u.lazy = t.lazy /\ u.loaded = t.loaded
           /\ \A g \in Groups :
                 u.groups[g] = IF g \in GroupsOf(keys)
                               THEN CheckState(Under(g, t.ticks)) ELSE t.groups[g]
           /\ u.root = CheckState(Boxed(u.groups, u.ticks))
  <1> DEFINE touched == {GroupOf[k] : k \in keys} \ {""}
             groups == [g \in Groups |-> IF g \in touched THEN UpdateGroupCheckState(t, g).groups[g] ELSE t.groups[g]]
             v == [t EXCEPT !.groups = groups]
  <1>1. \A g \in Groups : UpdateGroupCheckState(t, g).groups[g] = CheckState(Under(g, t.ticks))
    <2> TAKE g \in Groups
    <2> DEFINE c == CheckState(Under(g, t.ticks))
    <2>1. UpdateGroupCheckState(t, g) = [t EXCEPT !.groups[g] = c]
      BY Zenon DEF UpdateGroupCheckState, Under
    <2> HIDE DEF c
    <2>2. UpdateGroupCheckState(t, g).groups[g] = c
      BY <2>1 DEF Trees
    <2> QED BY <2>2 DEF c
  <1>2. groups \in [Groups -> Boxes]
    <2>1. \A g \in Groups : UpdateGroupCheckState(t, g).groups[g] \in Boxes
      BY <1>1, CheckStates DEF Boxes
    <2>2. \A g \in Groups : t.groups[g] \in Boxes
      BY DEF Trees
    <2> QED BY <2>1, <2>2
  <1>3. u = UpdateRunCheckState(v)
    BY DEF UpdateAbove
  <1>4. \A g \in Groups : groups[g] = IF g \in GroupsOf(keys)
                                     THEN CheckState(Under(g, t.ticks)) ELSE t.groups[g]
    <2>1. \A g \in Groups : g \in touched <=> g \in GroupsOf(keys)
      BY Zenon DEF Groups, GroupsOf
    <2> HIDE DEF touched
    <2> QED BY <1>1, <2>1
  <1> HIDE DEF groups
  <1>5. v \in Trees /\ v.groups = groups /\ v.ticks = t.ticks /\ v.streaming = t.streaming /\ v.lazy = t.lazy /\ v.loaded = t.loaded
    BY <1>2 DEF Trees
  <1> HIDE DEF v
  <1>6. /\ u \in Trees /\ u.root \in {"on", "part", "off"}
        /\ u.root = CheckState(Boxed(v.groups, v.ticks))
        /\ u.ticks = v.ticks /\ u.groups = v.groups /\ u.streaming = v.streaming
        /\ u.lazy = v.lazy /\ u.loaded = v.loaded
    BY <1>3, <1>5, RootUpdated
  <1> QED BY <1>4, <1>5, <1>6

\* The handler of the dock's signal: a dock in charge shows what is ticked, and keeps what is
\* not; otherwise what was to be hidden is.
LEMMA EmittedIs ==
    ASSUME NEW w \in Windows, NEW t \in Trees, NEW b, b = Emitted(w, t)
    PROVE  /\ b \in Boards /\ b.tree = t /\ b.window.active = w.active
           /\ \A k \in TreeKeys : b.window.tile[k] # "none" <=> w.tile[k] # "none"
           /\ w.active => \A k \in TreeKeys : w.tile[k] # "none" =>
                              (b.window.tile[k] = "shown" <=> k \in CheckedKeys(t))
           /\ ~w.active => b.window.hidden = w.hidden
                           /\ \A k \in TreeKeys : w.tile[k] # "none" =>
                                  (b.window.tile[k] = "shown" <=> k \notin w.hidden)
           /\ w.active /\ t.streaming => b.window.hidden = GetHiddenDiscoveredKeys(t)
  <1> DEFINE keys == CheckedKeys(t)
             hidden == IF w.active /\ t.streaming THEN GetHiddenDiscoveredKeys(t) ELSE w.hidden
             tile == [k \in TreeKeys |->
                         IF w.tile[k] = "none" THEN "none"
                         ELSE IF (IF w.active THEN k \in keys ELSE k \notin w.hidden) THEN "shown" ELSE "hidden"]
  <1>1. keys \in SUBSET TreeKeys /\ GetHiddenDiscoveredKeys(t) \in SUBSET TreeKeys
    BY DEF CheckedKeys, GetHiddenDiscoveredKeys
  <1>2. w.hidden \in SUBSET TreeKeys /\ w.active \in BOOLEAN /\ w.tile \in [TreeKeys -> {"none", "shown", "hidden"}]
    BY DEF Windows
  <1>3. hidden \in SUBSET TreeKeys
    BY <1>1, <1>2
  <1>4. tile \in [TreeKeys -> {"none", "shown", "hidden"}]
    OBVIOUS
  <1>5. b.tree = t /\ b = [window |-> b.window, tree |-> t]
        /\ b.window = [w EXCEPT !.checked = keys, !.tile = tile, !.hidden = hidden]
    BY DEF Emitted, OnRunBrowserCheckedSignalsChanged
  <1> DEFINE v == b.window
  <1>6. v \in Windows /\ v.active = w.active /\ v.tile = tile /\ v.hidden = hidden
    <2> HIDE DEF keys, hidden, tile
    <2> QED BY <1>1, <1>3, <1>4, <1>5 DEF Windows
  <1>7. b \in Boards
    BY <1>5, <1>6 DEF Boards
  <1> QED BY <1>2, <1>5, <1>6, <1>7

\* After its signal the board is sound and every unticked key is kept.
LEMMA EmittedSound ==
    ASSUME NEW w \in Windows, NEW t \in Trees, NEW b, b = Emitted(w, t),
           t.streaming => t.root # "none" /\ \A k \in TreeKeys : t.ticks[k] # "none" <=> w.tile[k] # "none",
           ~t.streaming => t.lazy = {}
    PROVE  Sound(b) /\ Kept(b, TreeKeys) /\ b.tree = t /\ b.window.active = w.active
  <1>1. /\ b \in Boards /\ b.tree = t /\ b.window.active = w.active
        /\ \A k \in TreeKeys : b.window.tile[k] # "none" <=> w.tile[k] # "none"
        /\ w.active => \A k \in TreeKeys : w.tile[k] # "none" =>
                           (b.window.tile[k] = "shown" <=> k \in CheckedKeys(t))
        /\ w.active /\ t.streaming => b.window.hidden = GetHiddenDiscoveredKeys(t)
    BY EmittedIs
  <1>2. Sound(b)
    BY <1>1 DEF Sound, Listed, Decided
  <1>3. Kept(b, TreeKeys)
    BY <1>1 DEF Kept, GetHiddenDiscoveredKeys, CheckedKeys
  <1> QED BY <1>1, <1>2, <1>3

-----------------------------------------------------------------------------
(* The dock's operations *)

\* The tree with a box for a tile it had none for.
AddedTree(old, k) ==
    LET added == [old EXCEPT !.ticks[k] = IF k \in old.lazy THEN "off" ELSE "on",
                             !.groups = [g \in Groups |-> IF g = GroupOf[k] /\ @[g] = "none" THEN "on" ELSE @[g]]]
    IN  IF old.lazy # {} THEN UpdateAbove(added, {k}) ELSE UpdateRunCheckState(added)

LEMMA TileAdded ==
    ASSUME NEW old \in Trees, NEW k \in TreeKeys, NEW t, t = AddedTree(old, k)
    PROVE  /\ t \in Trees /\ t.streaming = old.streaming /\ t.lazy = old.lazy /\ t.root \in {"on", "part", "off"}
           /\ t.ticks = [old.ticks EXCEPT ![k] = IF k \in old.lazy THEN "off" ELSE "on"]
           /\ \A g \in Groups : t.groups[g] =
                 IF g # GroupOf[k] THEN old.groups[g]
                 ELSE IF old.lazy # {} THEN CheckState(Under(g, t.ticks))
                 ELSE IF old.groups[g] = "none" THEN "on" ELSE old.groups[g]
           /\ t.root = CheckState(Boxed(t.groups, t.ticks))
  <1> DEFINE ticks == [old.ticks EXCEPT ![k] = IF k \in old.lazy THEN "off" ELSE "on"]
             groups == [g \in Groups |-> IF g = GroupOf[k] /\ old.groups[g] = "none" THEN "on" ELSE old.groups[g]]
             added == [old EXCEPT !.ticks[k] = IF k \in old.lazy THEN "off" ELSE "on",
                                  !.groups = [g \in Groups |->
                                      IF g = GroupOf[k] /\ @[g] = "none" THEN "on" ELSE @[g]]]
  <1>1. t = IF old.lazy # {} THEN UpdateAbove(added, {k}) ELSE UpdateRunCheckState(added)
    BY DEF AddedTree
  <1>3. /\ ticks \in [TreeKeys -> Ticks] /\ groups \in [Groups -> Boxes]
    BY DEF Trees, Ticks, Boxes
  <1>4. added = [old EXCEPT !.ticks = ticks, !.groups = groups]
    BY DEF Trees
  <1>5. \A g \in Groups : groups[g] = IF g = GroupOf[k] /\ old.groups[g] = "none" THEN "on" ELSE old.groups[g]
    OBVIOUS
  <1> HIDE DEF ticks, groups
  <1>6. /\ added \in Trees /\ added.ticks = ticks /\ added.groups = groups /\ added.streaming = old.streaming
        /\ added.lazy = old.lazy /\ added.loaded = old.loaded
    BY <1>3, <1>4 DEF Trees
  <1> HIDE DEF added
  <1>7. CASE old.lazy # {}
    <2> DEFINE keys == {k}
    <2>1. t = UpdateAbove(added, keys)
      BY <1>1, <1>7
    <2>2. \A g : g \in GroupsOf(keys) <=> g = GroupOf[k]
      BY DEF GroupsOf
    <2> HIDE DEF keys
    <2>3. /\ t \in Trees /\ t.root \in {"on", "part", "off"}
          /\ t.ticks = added.ticks /\ t.streaming = added.streaming /\ t.lazy = added.lazy
          /\ \A g \in Groups :
                t.groups[g] = IF g \in GroupsOf(keys)
                              THEN CheckState(Under(g, added.ticks)) ELSE added.groups[g]
          /\ t.root = CheckState(Boxed(t.groups, t.ticks))
      <3>1. added \in Trees
        BY <1>6
      <3> QED BY <2>1, <3>1, AboveUpdated
    <2>4. \A g \in Groups : t.groups[g] =
                    IF g # GroupOf[k] THEN old.groups[g]
                    ELSE IF old.lazy # {} THEN CheckState(Under(g, t.ticks))
                    ELSE IF old.groups[g] = "none" THEN "on" ELSE old.groups[g]
      BY <1>5, <1>6, <1>7, <2>2, <2>3
    <2> QED BY <1>6, <2>3, <2>4 DEF ticks
  <1>8. CASE old.lazy = {}
    <2>1. t = UpdateRunCheckState(added)
      BY <1>1, <1>8
    <2>2. /\ t \in Trees /\ t.root \in {"on", "part", "off"}
          /\ t.ticks = added.ticks /\ t.streaming = added.streaming /\ t.lazy = added.lazy
          /\ t.groups = added.groups
          /\ t.root = CheckState(Boxed(added.groups, added.ticks))
      BY <1>6, <2>1, RootUpdated
    <2>3. \A g \in Groups : t.groups[g] =
                    IF g # GroupOf[k] THEN old.groups[g]
                    ELSE IF old.lazy # {} THEN CheckState(Under(g, t.ticks))
                    ELSE IF old.groups[g] = "none" THEN "on" ELSE old.groups[g]
      BY <1>5, <1>6, <1>8, <2>2
    <2> QED BY <1>6, <2>2, <2>3 DEF ticks
  <1> QED BY <1>7, <1>8

\* A board with a new tile that the tree has no box for.
LEMMA AddedIs ==
    ASSUME NEW b \in Boards, NEW k \in TreeKeys, b.tree.streaming, b.tree.ticks[k] = "none"
    PROVE  OnTileAdded(b, k) = Emitted(b.window, AddedTree(b.tree, k))
  BY DEF OnTileAdded, AddedTree

LEMMA AddedBoard ==
    ASSUME NEW b \in Boards, NEW k \in TreeKeys
    PROVE  OnTileAdded(b, k) \in Boards
  <1>1. CASE b.tree.streaming /\ b.tree.ticks[k] = "none"
    <2> DEFINE t == AddedTree(b.tree, k)
               w == b.window
    <2>1. OnTileAdded(b, k) = Emitted(w, t)
      BY <1>1, AddedIs
    <2>2. w \in Windows /\ b.tree \in Trees
      BY DEF Boards
    <2>3. t \in Trees
      BY <2>2, TileAdded
    <2> HIDE DEF t, w
    <2> QED BY <2>1, <2>2, <2>3, EmittedIs
  <1>2. CASE ~(b.tree.streaming /\ b.tree.ticks[k] = "none")
    <2>1. OnTileAdded(b, k) = b
      BY <1>2 DEF OnTileAdded
    <2> QED BY <2>1
  <1> QED BY <1>1, <1>2

\* A key's first value makes its tile: a dock in charge decides of it, and of the others as
\* before.
LEMMA TileMade ==
    ASSUME NEW b, Sound(b), NEW k \in TreeKeys, NEW r, r = GetOrCreateTile(b, k)
    PROVE  /\ Sound(r) /\ r.tree.streaming = b.tree.streaming /\ r.window.active = b.window.active
           /\ r = b \/ Kept(r, TreeKeys)
           /\ \A j \in TreeKeys : b.window.tile[j] # "none" =>
                 r.window.tile[j] # "none" /\ r.tree.ticks[j] = b.tree.ticks[j]
  <1> DEFINE visible == IF b.window.active THEN k \in b.window.checked ELSE k \notin b.window.hidden
             w == b.window

             c == [b EXCEPT !.window.tile[k] = IF visible THEN "shown" ELSE "hidden"]
  <1>1. b \in Boards /\ w \in Windows /\ b.tree \in Trees
    BY DEF Sound, Boards
  <1>2. CASE w.tile[k] # "none"
    <2>1. r = b
      BY <1>2 DEF GetOrCreateTile
    <2> QED BY <2>1
  <1>3. CASE w.tile[k] = "none"
    <2>1. r = OnTileAdded(c, k)
      BY <1>3 DEF GetOrCreateTile
    <2> DEFINE x == c.window
    <2>2. x \in Windows /\ x.active = w.active /\ x.hidden = w.hidden
          /\ x.tile = [w.tile EXCEPT ![k] = IF visible THEN "shown" ELSE "hidden"]
      BY <1>1 DEF Windows, Boards
    <2>3. c \in Boards /\ c.tree = b.tree
      BY <1>1, <2>2 DEF Boards
    <2>4. \A j \in TreeKeys : x.tile[j] # "none" <=> j = k \/ w.tile[j] # "none"
      BY <1>1, <2>2 DEF Windows
    <2>5. CASE b.tree.streaming
      <3>1. b.tree.root # "none" /\ (\A j \in TreeKeys : b.tree.ticks[j] # "none" <=> w.tile[j] # "none")
            /\ b.tree.ticks[k] = "none"
        BY <1>3, <2>5 DEF Sound, Listed
      <3> HIDE DEF w, c, visible
      <3>2. c.tree.streaming /\ c.tree.ticks[k] = "none"
        BY <2>3, <2>5, <3>1
      <3> DEFINE t == AddedTree(c.tree, k)
      <3>r. r = Emitted(x, t)
        BY <2>1, <2>3, <3>2, AddedIs
      <3>3. /\ t \in Trees /\ t.streaming /\ t.root # "none"
            /\ t.ticks = [c.tree.ticks EXCEPT ![k] = IF k \in c.tree.lazy THEN "off" ELSE "on"]
        <4>1. c.tree \in Trees
          BY <1>1, <2>3
        <4> HIDE DEF t
        <4>2. /\ t \in Trees /\ t.streaming = c.tree.streaming /\ t.root \in {"on", "part", "off"}
              /\ t.ticks = [c.tree.ticks EXCEPT ![k] = IF k \in c.tree.lazy THEN "off" ELSE "on"]
          BY <4>1, TileAdded DEF t
        <4> QED BY <3>2, <4>2
      <3>4. b.tree.ticks \in [TreeKeys -> Ticks]
        BY <1>1 DEF Trees
      <3>5. \A j \in TreeKeys : j # k => t.ticks[j] = b.tree.ticks[j]
        BY <2>3, <3>3, <3>4
      <3>6. t.ticks[k] \in {"on", "off"}
        BY <2>3, <3>3, <3>4
      <3>7. \A j \in TreeKeys : t.ticks[j] # "none" <=> x.tile[j] # "none"
        BY <2>4, <3>1, <3>5, <3>6
      <3>a. x \in Windows
        BY <2>2
      <3>b. t \in Trees /\ t.streaming /\ t.root # "none"
        BY <3>3
      <3> HIDE DEF x, t
      <3>9. Sound(r) /\ Kept(r, TreeKeys) /\ r.tree = t /\ r.window.active = x.active
        BY <3>a, <3>b, <3>7, <3>r, EmittedSound
      <3>10. \A j \in TreeKeys : r.window.tile[j] # "none" <=> x.tile[j] # "none"
        BY <3>a, <3>b, <3>r, EmittedIs
      <3>11. \A j \in TreeKeys : b.window.tile[j] # "none" =>
                 r.window.tile[j] # "none" /\ r.tree.ticks[j] = b.tree.ticks[j]
        BY <1>3, <2>4, <3>5, <3>9, <3>10 DEF w
      <3> QED BY <2>2, <2>5, <3>b, <3>9, <3>11 DEF w
    <2>6. CASE ~b.tree.streaming
      <3> HIDE DEF c, visible
      <3>1. r = c
        BY <2>1, <2>3, <2>6 DEF OnTileAdded
      <3>2. b.tree.lazy = {}
        BY <2>6 DEF Sound
      <3>3. Sound(r) /\ Kept(r, TreeKeys)
        BY <2>3, <2>6, <3>1, <3>2 DEF Sound, Kept
      <3> QED BY <2>2, <2>3, <2>4, <3>1, <3>3
    <2> QED BY <2>5, <2>6
  <1> QED BY <1>2, <1>3

\* The signal after boxes were ticked or unticked and none made or dropped.
LEMMA Reticked ==
    ASSUME NEW b, Sound(b), NEW t \in Trees, t.streaming = b.tree.streaming, t.lazy = b.tree.lazy,
           t.streaming => t.root # "none",
           \A k \in TreeKeys : t.ticks[k] # "none" <=> b.tree.ticks[k] # "none",
           NEW r, r = Emitted(b.window, t)
    PROVE  Sound(r) /\ Kept(r, TreeKeys) /\ r.tree = t
  <1> DEFINE w == b.window
  <1>1. w \in Windows
    BY DEF Sound, Boards
  <1>2. t.streaming => \A k \in TreeKeys : t.ticks[k] # "none" <=> w.tile[k] # "none"
    BY DEF Sound, Listed
  <1>3. ~t.streaming => t.lazy = {}
    BY DEF Sound
  <1>4. r = Emitted(w, t)
    OBVIOUS
  <1> HIDE DEF w
  <1> QED BY <1>1, <1>2, <1>3, <1>4, EmittedSound

\* A removed tile loses its box.
LEMMA TileRemoved ==
    ASSUME NEW b, Sound(b), NEW k \in TreeKeys, b.window.tile[k] # "none",
           NEW r, r = OnTileRemoved([b EXCEPT !.window.tile[k] = "none"], k)
    PROVE  Sound(r) /\ Kept(r, TreeKeys)
  <1> DEFINE c == [b EXCEPT !.window.tile[k] = "none"]
             w == c.window
             emptied == {g \in Groups : g = GroupOf[k]
                            /\ \A j \in Members(g) : [b.tree EXCEPT !.ticks[k] = "none", !.lazy = @ \ {k}].ticks[j] = "none"}
             u == [b.tree EXCEPT !.ticks[k] = "none", !.lazy = @ \ {k},
                                 !.groups = [g \in Groups |-> IF g \in emptied THEN "none" ELSE @[g]]]
             t == UpdateRunCheckState(u)
  <1>1. b \in Boards /\ b.window \in Windows /\ b.tree \in Trees
    BY DEF Sound, Boards
  <1>2. w \in Windows /\ w.tile = [b.window.tile EXCEPT ![k] = "none"] /\ c.tree = b.tree /\ c \in Boards
        /\ w.active = b.window.active
    BY <1>1 DEF Windows, Boards
  <1>3. b.window.tile \in [TreeKeys -> {"none", "shown", "hidden"}]
    BY <1>1 DEF Windows
  <1>4. CASE b.tree.streaming
    <2>1. b.tree.root # "none" /\ \A j \in TreeKeys : b.tree.ticks[j] # "none" <=> b.window.tile[j] # "none"
      BY <1>4 DEF Sound, Listed
    <2>2. r = Emitted(w, t)
      BY <1>2, <1>4, <2>1 DEF OnTileRemoved
    <2>3. u \in Trees /\ u.streaming = b.tree.streaming /\ u.ticks = [b.tree.ticks EXCEPT ![k] = "none"]
      <3> HIDE DEF emptied
      <3> QED BY <1>1 DEF Trees, Ticks, Boxes
    <2> HIDE DEF u
    <2>4. t \in Trees /\ t.root \in {"on", "part", "off"} /\ t.ticks = u.ticks /\ t.streaming = u.streaming
      <3> HIDE DEF t
      <3> QED BY <2>3, RootUpdated DEF t
    <2> HIDE DEF t
    <2>5. \A j \in TreeKeys : t.ticks[j] # "none" <=> w.tile[j] # "none"
      BY <1>1, <1>2, <1>3, <2>1, <2>3, <2>4 DEF Trees
    <2>6. t.streaming /\ t.root # "none" /\ w \in Windows
      BY <1>2, <1>4, <2>3, <2>4
    <2> HIDE DEF w
    <2> QED BY <2>2, <2>4, <2>5, <2>6, EmittedSound
  <1>5. CASE ~b.tree.streaming
    <2>1. r = c
      BY <1>2, <1>5 DEF OnTileRemoved
    <2>2. c.tree.lazy = {} /\ ~c.tree.streaming
      BY <1>2, <1>5 DEF Sound
    <2> HIDE DEF c
    <2> QED BY <1>2, <2>1, <2>2 DEF Sound, Kept
  <1> QED BY <1>4, <1>5

\* Unticking finds a ticked key or changes nothing.
LEMMA Unchecked ==
    ASSUME NEW b, Sound(b), NEW keys \in SUBSET TreeKeys, NEW r, r = UncheckSignalsByKeys(b, keys)
    PROVE  /\ Sound(r) /\ r.tree.streaming = b.tree.streaming
           /\ Kept(r, TreeKeys) \/ (r = b /\ \A k \in keys : b.tree.ticks[k] # "on")
  <1> DEFINE found == {k \in keys : b.tree.ticks[k] = "on"}
             u == [b.tree EXCEPT !.ticks = [k \in TreeKeys |-> IF k \in found THEN "off" ELSE @[k]]]
             t == UpdateAbove(u, found)
  <1>1. CASE found = {}
    <2>1. r = b
      BY <1>1 DEF UncheckSignalsByKeys
    <2> QED BY <1>1, <2>1
  <1>2. CASE found # {}
    <2>1. r = Emitted(b.window, t)
      BY <1>2 DEF UncheckSignalsByKeys
    <2>2. b.tree \in Trees
      BY DEF Sound, Boards
    <2>3. /\ u \in Trees /\ u.streaming = b.tree.streaming /\ u.lazy = b.tree.lazy
          /\ \A k \in TreeKeys : u.ticks[k] = IF k \in found THEN "off" ELSE b.tree.ticks[k]
      <3> HIDE DEF found
      <3> QED BY <2>2 DEF Trees, Ticks
    <2>4. \A k \in TreeKeys : u.ticks[k] # "none" <=> b.tree.ticks[k] # "none"
      BY <2>3
    <2> HIDE DEF u, found
    <2>5. /\ t \in Trees /\ t.root \in {"on", "part", "off"}
          /\ t.ticks = u.ticks /\ t.streaming = u.streaming /\ t.lazy = u.lazy
      <3>1. u \in Trees
        BY <2>3
      <3> HIDE DEF t
      <3> QED BY <3>1, AboveUpdated DEF t
    <2> HIDE DEF t
    <2>6. /\ t.streaming = b.tree.streaming /\ t.lazy = b.tree.lazy /\ (t.streaming => t.root # "none")
          /\ \A k \in TreeKeys : t.ticks[k] # "none" <=> b.tree.ticks[k] # "none"
      BY <2>3, <2>4, <2>5
    <2>7. Sound(r) /\ Kept(r, TreeKeys) /\ r.tree = t
      BY <2>1, <2>5, <2>6, Reticked
    <2> QED BY <2>6, <2>7
  <1> QED BY <1>1, <1>2

-----------------------------------------------------------------------------
(* Starting over *)

LEMMA FreshTrees ==
    /\ EmptyTree \in Trees /\ ~EmptyTree.streaming /\ EmptyTree.lazy = {} /\ ~EmptyTree.loaded
    /\ \A lazy \in SUBSET TreeKeys :
          /\ StreamingTree(lazy) \in Trees /\ StreamingTree(lazy).streaming
          /\ StreamingTree(lazy).root = "on" /\ StreamingTree(lazy).lazy = lazy
          /\ \A k \in TreeKeys : StreamingTree(lazy).ticks[k] = "none"
          /\ \A g \in Groups : StreamingTree(lazy).groups[g] = "none"
  <1>1. EmptyTree \in Trees /\ ~EmptyTree.streaming /\ EmptyTree.lazy = {} /\ ~EmptyTree.loaded
        /\ (\A k \in TreeKeys : EmptyTree.ticks[k] = "none") /\ \A g \in Groups : EmptyTree.groups[g] = "none"
    BY DEF EmptyTree, Trees, Ticks, Boxes
  <1>2. ASSUME NEW lazy \in SUBSET TreeKeys
        PROVE  /\ StreamingTree(lazy) \in Trees /\ StreamingTree(lazy).streaming
               /\ StreamingTree(lazy).root = "on" /\ StreamingTree(lazy).lazy = lazy
               /\ StreamingTree(lazy).ticks = EmptyTree.ticks /\ StreamingTree(lazy).groups = EmptyTree.groups
    BY <1>1 DEF StreamingTree, Trees, Boxes
  <1> QED BY <1>1, <1>2

\* A board without tiles is cleared.
LEMMA WidgetsCleared ==
    ASSUME NEW b \in Boards, NEW r, r = ClearWidgets(b)
    PROVE  Sound(r) /\ ~r.window.active
  <1> DEFINE blank == [b.window EXCEPT !.tile = [k \in TreeKeys |-> "none"], !.hidden = {}, !.active = FALSE,
                                       !.checked = {}]
             cleared == ClearAllRuns([b EXCEPT !.window = blank])
             listed == IF replay THEN cleared ELSE SetStreamingRootLabel(cleared)
  <1>1. blank \in Windows /\ ~blank.active /\ \A k \in TreeKeys : blank.tile[k] = "none"
    <2>1. b.window \in Windows
      BY DEF Boards
    <2> QED BY <2>1 DEF Windows
  <1>2. cleared = Emitted(blank, EmptyTree)
    <2>1. [b EXCEPT !.window = blank].window = blank
      BY DEF Boards
    <2> HIDE DEF blank
    <2> QED BY <2>1 DEF ClearAllRuns
  <1>3. Sound(cleared) /\ cleared.tree = EmptyTree /\ ~cleared.window.active
        /\ \A k \in TreeKeys : cleared.window.tile[k] = "none"
    <2> HIDE DEF blank, cleared
    <2>1. EmptyTree \in Trees /\ ~EmptyTree.streaming /\ EmptyTree.lazy = {}
      BY FreshTrees
    <2> DEFINE u == EmptyTree
    <2>2. cleared = Emitted(blank, u) /\ u \in Trees /\ ~u.streaming /\ u.lazy = {}
      BY <1>2, <2>1
    <2> HIDE DEF u
    <2>3. Sound(cleared) /\ cleared.tree = u /\ cleared.window.active = blank.active
      BY <1>1, <2>2, EmittedSound
    <2>4. \A k \in TreeKeys : cleared.window.tile[k] # "none" <=> blank.tile[k] # "none"
      BY <1>1, <2>2, EmittedIs
    <2> QED BY <1>1, <2>3, <2>4 DEF u
  <1> HIDE DEF blank, cleared
  <1>4. Sound(listed) /\ ~listed.window.active /\ \A k \in TreeKeys : listed.window.tile[k] = "none"
    <2>1. CASE replay
      BY <1>3, <2>1
    <2>2. CASE ~replay
      <3> DEFINE u == StreamingTree({})
      <3>1. u \in Trees /\ u.streaming /\ u.root = "on" /\ \A k \in TreeKeys : u.ticks[k] = "none"
        BY FreshTrees
      <3>2. listed = [cleared EXCEPT !.tree = u]
        BY <1>3, <2>2, FreshTrees DEF SetStreamingRootLabel
      <3> HIDE DEF u, listed
      <3>3. cleared \in Boards
        BY <1>3 DEF Sound
      <3>4. listed \in Boards /\ listed.tree = u /\ listed.window = cleared.window
        BY <3>1, <3>2, <3>3 DEF Boards
      <3> QED BY <1>3, <3>1, <3>4 DEF Sound, Listed
    <2> QED BY <2>1, <2>2
  <1>5. r = ClearDiscoveredKeys(listed)
    BY DEF ClearWidgets, blank, cleared
  <1> HIDE DEF listed
  <1>6. CASE ~listed.tree.streaming
    <2>1. r = listed
      BY <1>5, <1>6 DEF ClearDiscoveredKeys
    <2> QED BY <1>4, <2>1
  <1>7. CASE listed.tree.streaming
    <2> DEFINE u == StreamingTree({})
               w == listed.window
    <2>1. u \in Trees /\ u.streaming /\ u.root # "none" /\ \A k \in TreeKeys : u.ticks[k] = "none"
      BY FreshTrees
    <2>2. r = Emitted(w, u)
      BY <1>5, <1>7 DEF ClearDiscoveredKeys
    <2>3. w \in Windows /\ ~w.active /\ \A k \in TreeKeys : w.tile[k] = "none"
      BY <1>4 DEF Sound, Boards
    <2> HIDE DEF u, w
    <2>4. Sound(r) /\ r.window.active = w.active
      BY <2>1, <2>2, <2>3, EmittedSound
    <2> QED BY <2>3, <2>4
  <1> QED BY <1>6, <1>7

\* The dock filled with a replay file's keys, or left as it was.
LEMMA FilePopulated ==
    ASSUME NEW b, Sound(b), NEW r, r = PopulateRunBrowserFromReplayFile(b)
    PROVE  Sound(r) /\ Kept(r, TreeKeys)
  <1> DEFINE v == [b.window EXCEPT !.active = FALSE]
             idle == [b EXCEPT !.window.active = FALSE]
  <1>1. b \in Boards /\ b.window \in Windows /\ b.tree \in Trees
    BY DEF Sound, Boards
  <1>2. idle \in Boards /\ idle.window = v /\ idle.tree = b.tree /\ v \in Windows /\ ~v.active /\ v.tile = b.window.tile
    BY <1>1 DEF Boards, Windows
  <1>3. CASE b.tree.loaded
    <2>1. r = idle
      BY <1>3 DEF PopulateRunBrowserFromReplayFile
    <2> HIDE DEF idle, v
    <2> QED BY <1>2, <2>1 DEF Sound, Listed, Kept
  <1>4. CASE ~b.tree.loaded
    <2> DEFINE cleared == ClearAllRuns(idle)
               loaded == [AddRunFromFile(cleared) EXCEPT !.window.active = TRUE]
               keys == b.window.checked
    <2>1. r = SetCheckedGroupsBySignalKeys(loaded, keys)
      BY <1>4 DEF PopulateRunBrowserFromReplayFile
    <2>2. cleared \in Boards
      <3> DEFINE u == EmptyTree
      <3>1. cleared = Emitted(v, u) /\ u \in Trees /\ v \in Windows
        BY <1>2, FreshTrees DEF ClearAllRuns
      <3> HIDE DEF v, u, cleared
      <3> QED BY <3>1, EmittedIs
    <2> HIDE DEF cleared
    <2> DEFINE u == [EmptyTree EXCEPT
                        !.loaded = TRUE, !.root = "off",
                        !.ticks = [k \in TreeKeys |-> IF k \in FileKeys THEN "off" ELSE "none"],
                        !.groups = [g \in Groups |-> IF Members(g) \cap FileKeys = {} THEN "none" ELSE "off"]]
    <2>3. u \in Trees /\ ~u.streaming /\ u.lazy = {}
      <3> DEFINE e == EmptyTree
      <3>1. e \in Trees /\ ~e.streaming /\ e.lazy = {}
        BY FreshTrees
      <3> DEFINE groups == [g \in Groups |-> IF Members(g) \cap FileKeys = {} THEN "none" ELSE "off"]
                 ticks == [k \in TreeKeys |-> IF k \in FileKeys THEN "off" ELSE "none"]
      <3>2. groups \in [Groups -> Boxes] /\ ticks \in [TreeKeys -> Ticks] /\ "off" \in Boxes
        BY DEF Boxes, Ticks
      <3>3. u = [e EXCEPT !.loaded = TRUE, !.root = "off", !.ticks = ticks, !.groups = groups]
        OBVIOUS
      <3> HIDE DEF e, groups, ticks, u
      <3> QED BY <3>1, <3>2, <3>3 DEF Trees
    <2>4. AddRunFromFile(cleared) = [cleared EXCEPT !.tree = u]
      BY DEF AddRunFromFile
    <2> HIDE DEF u
    <2>5. loaded \in Boards /\ loaded.tree = u
      BY <2>2, <2>3, <2>4 DEF Boards, Windows
    <2> HIDE DEF loaded
    <2>6. Sound(loaded)
      BY <2>3, <2>5 DEF Sound
    <2>7. CASE keys = {}
      <3>1. r = loaded
        BY <2>1, <2>7 DEF SetCheckedGroupsBySignalKeys
      <3> QED BY <2>3, <2>5, <2>6, <3>1 DEF Kept
    <2>8. CASE keys # {}
      <3> DEFINE ticked == [u EXCEPT !.ticks = [k \in TreeKeys |-> IF k \in keys /\ @[k] # "none" THEN "on" ELSE @[k]]]
                 t == UpdateAbove(ticked, FileKeys)
      <3>1. r = Emitted(loaded.window, t)
        BY <2>1, <2>5, <2>8 DEF SetCheckedGroupsBySignalKeys
      <3>2. ticked \in Trees /\ ticked.streaming = u.streaming /\ ticked.lazy = u.lazy
            /\ \A k \in TreeKeys : ticked.ticks[k] # "none" <=> u.ticks[k] # "none"
        <4> HIDE DEF keys
        <4> QED BY <2>3 DEF Trees, Ticks
      <3> HIDE DEF ticked
      <3>3. t \in Trees /\ t.ticks = ticked.ticks /\ t.streaming = ticked.streaming /\ t.lazy = ticked.lazy
        <4>1. ticked \in Trees
          BY <3>2
        <4> HIDE DEF t
        <4> QED BY <4>1, AboveUpdated DEF t
      <3> HIDE DEF t
      <3>4. t.streaming = loaded.tree.streaming /\ t.lazy = loaded.tree.lazy /\ (t.streaming => t.root # "none")
            /\ \A k \in TreeKeys : t.ticks[k] # "none" <=> loaded.tree.ticks[k] # "none"
        BY <2>3, <2>5, <3>2, <3>3
      <3> QED BY <2>6, <3>1, <3>3, <3>4, Reticked
    <2> QED BY <2>7, <2>8
  <1> QED BY <1>3, <1>4

-----------------------------------------------------------------------------
(* The loops over keys *)

\* A loop whose step keeps to a set has a result for every subset, in that set.
LEMMA FoldTotal ==
    ASSUME NEW S, IsFiniteSet(S), NEW Good, NEW base \in Good, NEW g \in [S \X Good -> Good]
    PROVE  \E f : FoldOn(f, SUBSET S, base, g) /\ \A s \in SUBSET S : f[s] \in Good
  <1>1. PICK f : FoldOn(f, SUBSET S, base, g)
    BY FoldExists
  <1> DEFINE P == {s \in SUBSET S : f[s] \in Good}
  <1>2. \A s \in SUBSET S : f[s] = IF s = {} THEN base ELSE g[<<Pick(s), f[s \ {Pick(s)}]>>]
    BY <1>1 DEF FoldOn
  <1>3. {} \in P
    BY <1>2
  <1>4. ASSUME NEW s \in SUBSET S, s # {}, s \ {Pick(s)} \in P PROVE s \in P
    <2>1. Pick(s) \in S /\ f[s \ {Pick(s)}] \in Good
      BY <1>4, OneLess
    <2>2. f[s] = g[<<Pick(s), f[s \ {Pick(s)}]>>]
      BY <1>2, <1>4
    <2> QED BY <2>1, <2>2
  <1> HIDE DEF P
  <1>5. \A s \in SUBSET S : s \in P
    BY <1>3, <1>4, SubsetInduction
  <1> QED BY <1>1, <1>5 DEF P

\* The tiles of a layout.
LEMMA TilesMade ==
    ASSUME NEW base, Sound(base), NEW S \in SUBSET TreeKeys,
           NEW m, m = FoldSet(LAMBDA k, acc : GetOrCreateTile(acc, k), base, S)
    PROVE  Sound(m)
  <1> DEFINE Good == {c \in Boards : Sound(c)}
             g == [p \in S \X Good |-> GetOrCreateTile(p[2], p[1])]
             Body(h) == [s \in SUBSET S |-> IF s = {} THEN base ELSE GetOrCreateTile(h[s \ {Pick(s)}], Pick(s))]
             iter == CHOOSE h : h = Body(h)
  <1>1. IsFiniteSet(S)
    BY BrowserAssumption, FS_Subset
  <1>2. \A c \in Good, k \in S : GetOrCreateTile(c, k) \in Good
    BY TileMade DEF Sound
  <1>3. base \in Good
    BY DEF Sound
  <1>4. g \in [S \X Good -> Good] /\ \A c \in Good, k \in S : g[<<k, c>>] = GetOrCreateTile(c, k)
    <2> HIDE DEF Good
    <2> QED BY <1>2
  <1> HIDE DEF g, Good
  <1>5. PICK f : FoldOn(f, SUBSET S, base, g) /\ \A s \in SUBSET S : f[s] \in Good
    <2>1. g \in [S \X Good -> Good]
      BY <1>4
    <2> QED BY <1>1, <1>3, <2>1, FoldTotal
  <1>6. ASSUME NEW s \in SUBSET S, s # {} PROVE Pick(s) \in S /\ s \ {Pick(s)} \in SUBSET S
    BY <1>1, <1>6, OneLess
  <1>7. f = Body(f)
    <2>1. \A s \in SUBSET S : (IF s = {} THEN base ELSE g[<<Pick(s), f[s \ {Pick(s)}]>>])
                              = IF s = {} THEN base ELSE GetOrCreateTile(f[s \ {Pick(s)}], Pick(s))
      BY <1>4, <1>5, <1>6
    <2> QED BY <1>5, <2>1 DEF FoldOn
  <1>8. iter = Body(iter)
    BY <1>7
  <1>9. m = iter[S]
    BY DEF FoldSet, MapThenFoldSet, Pick
  <1> HIDE DEF iter
  <1>10. \A s \in SUBSET S : iter[s] = IF s = {} THEN base ELSE GetOrCreateTile(iter[s \ {Pick(s)}], Pick(s))
    BY <1>8
  <1> DEFINE P == {s \in SUBSET S : iter[s] \in Good}
  <1>11. {} \in P
    BY <1>3, <1>10
  <1>12. ASSUME NEW s \in SUBSET S, s # {}, s \ {Pick(s)} \in P PROVE s \in P
    <2>1. Pick(s) \in S
      BY <1>6, <1>12
    <2> QED BY <1>2, <1>10, <1>12, <2>1
  <1> HIDE DEF P
  <1>13. S \in P
    BY <1>1, <1>11, <1>12, SubsetInduction
  <1> QED BY <1>9, <1>13 DEF P, Good

\* A layout keeps the dock and the tiles together.
LEMMA LayoutLoaded ==
    ASSUME NEW b, Sound(b), NEW content \in Layouts, NEW r, r = LoadLayoutFromPath(b, content)
    PROVE  Sound(r)
  <1> DEFINE base == [b EXCEPT !.window.hidden = content.hidden]
             made == FoldSet(LAMBDA k, acc : GetOrCreateTile(acc, k), base, content.keys)
             tile == [k \in TreeKeys |-> IF made.window.tile[k] = "none" THEN "none"
                                         ELSE IF k \in content.hidden THEN "hidden" ELSE "shown"]
             walked == [made EXCEPT !.window.tile = [k \in TreeKeys |->
                           IF @[k] = "none" THEN "none" ELSE IF k \in content.hidden THEN "hidden" ELSE "shown"]]
  <1>1. CASE ~content.exists
    <2>1. r = b
      BY <1>1 DEF LoadLayoutFromPath
    <2> QED BY <2>1
  <1>2. CASE content.exists
    <2>1. content.hidden \in SUBSET TreeKeys /\ content.keys \in SUBSET TreeKeys
      BY DEF Layouts
    <2>2. Sound(base)
      <3>1. base \in Boards /\ base.tree = b.tree /\ base.window.tile = b.window.tile
            /\ base.window.active = b.window.active
        BY <2>1 DEF Sound, Boards, Windows
      <3> HIDE DEF base
      <3> QED BY <3>1 DEF Sound, Listed, Decided
    <2>3. r = IF made.window.active THEN UncheckSignalsByKeys(made, content.hidden) ELSE walked
      BY <1>2 DEF LoadLayoutFromPath
    <2> HIDE DEF base
    <2>4. Sound(made)
      <3> DEFINE keys == content.keys
      <3>1. made = FoldSet(LAMBDA k, acc : GetOrCreateTile(acc, k), base, keys) /\ keys \in SUBSET TreeKeys
        BY <2>1
      <3> HIDE DEF made, keys
      <3> QED BY <2>2, <3>1, TilesMade
    <2> HIDE DEF made
    <2>5. CASE made.window.active
      <3> DEFINE keys == content.hidden
      <3>1. r = UncheckSignalsByKeys(made, keys) /\ keys \in SUBSET TreeKeys
        BY <2>1, <2>3, <2>5
      <3> HIDE DEF keys
      <3> QED BY <2>4, <3>1, Unchecked
    <2>6. CASE ~made.window.active
      <3>1. made \in Boards /\ made.window \in Windows
        BY <2>4 DEF Sound, Boards
      <3>2. tile \in [TreeKeys -> {"none", "shown", "hidden"}]
            /\ \A k \in TreeKeys : tile[k] # "none" <=> made.window.tile[k] # "none"
        OBVIOUS
      <3>3. r = [made EXCEPT !.window.tile = tile]
        BY <2>3, <2>6, <3>1 DEF Boards, Windows
      <3> HIDE DEF tile
      <3>4. r \in Boards /\ r.tree = made.tree /\ r.window.tile = tile /\ ~r.window.active
        BY <2>6, <3>1, <3>2, <3>3 DEF Boards, Windows
      <3> QED BY <2>4, <3>2, <3>4 DEF Sound, Listed
    <2> QED BY <2>5, <2>6
  <1> QED BY <1>1, <1>2

-----------------------------------------------------------------------------
(* A live transport starts *)

\* Something ticked, or partly, lights the box above it.
LEMMA CheckLit ==
    ASSUME NEW c, "on" \in c \/ "part" \in c
    PROVE  CheckState(c) \in {"on", "part"}
  BY DEF CheckState

\* A ticked key and the boxes above it.
Lit(t) ==
    \A k \in TreeKeys : t.ticks[k] = "on" =>
        /\ t.root \in {"on", "part"}
        /\ GroupOf[k] \in Groups => t.groups[GroupOf[k]] \in {"on", "part"}

\* Half way through the loop: the tiles of s have their boxes, unticked if they are to be
\* hidden, and the flag is off, so that every signal shows the other tiles.
Fed(c, s, hidden, tiles) ==
    /\ c \in Boards /\ ~c.window.active /\ c.window.hidden = hidden
    /\ c.tree.streaming /\ c.tree.root # "none" /\ c.tree.lazy = hidden /\ Lit(c.tree)
    /\ hidden = {} => \A g \in Groups : c.tree.groups[g] \in {"none", "on"}
    /\ \A k \in TreeKeys :
          /\ c.tree.ticks[k] = IF k \notin s THEN "none" ELSE IF k \in hidden THEN "off" ELSE "on"
          /\ c.window.tile[k] # "none" <=> k \in tiles
    /\ s # {} => \A k \in tiles : c.window.tile[k] = "shown" <=> k \notin hidden

\* One more tile.
LEMMA FedMore ==
    ASSUME NEW hidden \in SUBSET TreeKeys, NEW tiles \in SUBSET TreeKeys, NEW s \in SUBSET tiles,
           NEW k \in s, NEW c, Fed(c, s \ {k}, hidden, tiles), NEW r, r = OnTileAdded(c, k)
    PROVE  Fed(r, s, hidden, tiles)
  <1> DEFINE old == c.tree
             w == c.window
             t == AddedTree(old, k)
  <1>1. c \in Boards /\ old \in Trees /\ w \in Windows /\ k \in TreeKeys
    BY DEF Fed, Boards
  <1>2. /\ ~w.active /\ w.hidden = hidden /\ old.streaming /\ old.lazy = hidden /\ old.ticks[k] = "none"
        /\ \A j \in TreeKeys : w.tile[j] # "none" <=> j \in tiles
    BY <1>1 DEF Fed
  <1>3. r = Emitted(w, t)
    BY <1>1, <1>2, AddedIs
  <1>4. /\ t \in Trees /\ t.streaming = old.streaming /\ t.lazy = old.lazy /\ t.root \in {"on", "part", "off"}
        /\ t.ticks = [old.ticks EXCEPT ![k] = IF k \in old.lazy THEN "off" ELSE "on"]
        /\ \A g \in Groups : t.groups[g] =
              IF g # GroupOf[k] THEN old.groups[g]
              ELSE IF old.lazy # {} THEN CheckState(Under(g, t.ticks))
              ELSE IF old.groups[g] = "none" THEN "on" ELSE old.groups[g]
        /\ t.root = CheckState(Boxed(t.groups, t.ticks))
    <2> HIDE DEF old, t
    <2> QED BY <1>1, TileAdded DEF t
  <1>5. \A j \in TreeKeys : t.ticks[j] = IF j \notin s THEN "none" ELSE IF j \in hidden THEN "off" ELSE "on"
    <2>1. old.ticks \in [TreeKeys -> Ticks]
      BY <1>1 DEF Trees
    <2>2. \A j \in TreeKeys : t.ticks[j] = IF j = k THEN (IF k \in hidden THEN "off" ELSE "on") ELSE old.ticks[j]
      BY <1>1, <1>2, <1>4, <2>1
    <2>3. \A j \in TreeKeys : old.ticks[j] = IF j \notin s \ {k} THEN "none" ELSE IF j \in hidden THEN "off" ELSE "on"
      BY DEF Fed
    <2> HIDE DEF t, old
    <2> QED BY <2>2, <2>3
  <1> HIDE DEF t
  <1>6. hidden = {} => \A g \in Groups : t.groups[g] \in {"none", "on"}
    <2>1. hidden = {} => \A g \in Groups : old.groups[g] \in {"none", "on"}
      BY DEF Fed
    <2> HIDE DEF old
    <2> QED BY <1>2, <1>4, <2>1
  <1>7. ASSUME NEW j \in TreeKeys, t.ticks[j] = "on", GroupOf[j] \in Groups
        PROVE  t.groups[GroupOf[j]] \in {"on", "part"}
    <2> DEFINE g == GroupOf[j]
    <2>1. CASE g = GroupOf[k] /\ hidden # {}
      <3>1. "on" \in Under(g, t.ticks)
        BY <1>7 DEF Under, Members
      <3> HIDE DEF g
      <3>2. CheckState(Under(g, t.ticks)) \in {"on", "part"}
        BY <3>1, CheckLit
      <3>3. t.groups[g] = CheckState(Under(g, t.ticks))
        BY <1>2, <1>4, <1>7, <2>1 DEF g
      <3> QED BY <3>2, <3>3 DEF g
    <2>2. CASE g = GroupOf[k] /\ hidden = {}
      <3>1. old.groups[g] \in {"none", "on"}
        BY <1>7, <2>2 DEF Fed
      <3> HIDE DEF old
      <3>2. t.groups[g] = IF old.groups[g] = "none" THEN "on" ELSE old.groups[g]
        BY <1>2, <1>4, <1>7, <2>2
      <3> QED BY <3>1, <3>2
    <2>3. CASE g # GroupOf[k]
      <3>1. j # k /\ t.groups[g] = old.groups[g]
        BY <1>4, <1>7, <2>3
      <3>2. old.ticks[j] = "on"
        <4>1. j \in s /\ j \notin hidden
          BY <1>5, <1>7
        <4> QED BY <3>1, <4>1 DEF Fed
      <3>3. old.groups[g] \in {"on", "part"}
        BY <1>7, <3>2 DEF Fed, Lit
      <3> QED BY <3>1, <3>3
    <2> QED BY <2>1, <2>2, <2>3
  <1>8. ASSUME NEW j \in TreeKeys, t.ticks[j] = "on" PROVE t.root \in {"on", "part"}
    <2> DEFINE c0 == Boxed(t.groups, t.ticks)
    <2>1. "on" \in c0 \/ "part" \in c0
      <3> DEFINE ticks == t.ticks
                 groups == t.groups
      <3>1. ticks[j] = "on" /\ (GroupOf[j] \in Groups => groups[GroupOf[j]] \in {"on", "part"})
        BY <1>7, <1>8
      <3> HIDE DEF ticks, groups
      <3>2. /\ GroupOf[j] \notin Groups /\ ticks[j] # "none" => ticks[j] \in Boxed(groups, ticks)
            /\ \A g \in Groups : groups[g] # "none" => groups[g] \in Boxed(groups, ticks)
        BY UnderRootOrGroup
      <3> QED BY <3>1, <3>2 DEF ticks, groups
    <2>2. t.root = CheckState(c0)
      BY <1>4
    <2> HIDE DEF c0
    <2> QED BY <2>1, <2>2, CheckLit
  <1>9. Lit(t)
    BY <1>7, <1>8 DEF Lit
  <1> HIDE DEF w, old
  <1>10. /\ r \in Boards /\ r.tree = t /\ r.window.active = w.active /\ r.window.hidden = w.hidden
         /\ \A j \in TreeKeys : r.window.tile[j] # "none" <=> w.tile[j] # "none"
         /\ \A j \in TreeKeys : w.tile[j] # "none" => (r.window.tile[j] = "shown" <=> j \notin w.hidden)
    <2>1. t \in Trees
      BY <1>4
    <2> QED BY <1>1, <1>2, <1>3, <2>1, EmittedIs
  <1>11. \A j \in tiles : r.window.tile[j] = "shown" <=> j \notin hidden
    BY <1>2, <1>10
  <1>12. /\ r \in Boards /\ ~r.window.active /\ r.window.hidden = hidden
         /\ r.tree.streaming /\ r.tree.root # "none" /\ r.tree.lazy = hidden
    BY <1>2, <1>4, <1>10
  <1>13. Lit(r.tree) /\ (hidden = {} => \A g \in Groups : r.tree.groups[g] \in {"none", "on"})
    BY <1>6, <1>9, <1>10
  <1>14. \A j \in TreeKeys :
            /\ r.tree.ticks[j] = IF j \notin s THEN "none" ELSE IF j \in hidden THEN "off" ELSE "on"
            /\ r.window.tile[j] # "none" <=> j \in tiles
    BY <1>2, <1>5, <1>10
  <1> QED BY <1>11, <1>12, <1>13, <1>14 DEF Fed

\* Before the loop the tree is empty and has the keys to untick.
LEMMA DockEmptied ==
    ASSUME NEW b, Sound(b), NEW fresh,
           fresh = SetHiddenDiscoveredKeys(SetStreamingRootLabel(ClearDiscoveredKeys([b EXCEPT !.window.active = FALSE])),
                       SetStreamingRootLabel(ClearDiscoveredKeys([b EXCEPT !.window.active = FALSE])).window.hidden)
    PROVE  Fed(fresh, {}, b.window.hidden, Tiles(b.window))
  <1> DEFINE idle == [b EXCEPT !.window.active = FALSE]
             bare == ClearDiscoveredKeys(idle)
             empty == SetStreamingRootLabel(bare)
             v == idle.window
             none == StreamingTree({})
             hidden == b.window.hidden
             tiles == Tiles(b.window)
  <1>0. fresh = SetHiddenDiscoveredKeys(empty, empty.window.hidden)
    OBVIOUS
  <1>1. /\ idle \in Boards /\ idle.tree = b.tree /\ v \in Windows /\ ~v.active /\ v.hidden = hidden
        /\ v.tile = b.window.tile
    BY DEF Sound, Boards, Windows
  <1>2. hidden \in SUBSET TreeKeys /\ \A k \in TreeKeys : v.tile[k] # "none" <=> k \in tiles
    BY <1>1 DEF Tiles, Windows
  <1>3. /\ none \in Trees /\ none.streaming /\ none.root = "on" /\ none.lazy = {}
        /\ \A k \in TreeKeys : none.ticks[k] = "none"
        /\ \A g \in Groups : none.groups[g] = "none"
    BY FreshTrees
  <1> HIDE DEF none, v, tiles, hidden
  <1>4. /\ bare \in Boards /\ ~bare.window.active /\ bare.window.hidden = hidden
        /\ \A k \in TreeKeys : bare.window.tile[k] # "none" <=> k \in tiles
        /\ bare.tree.lazy = {}
    <2>1. CASE b.tree.streaming
      <3>1. bare = Emitted(v, none)
        BY <1>1, <2>1 DEF ClearDiscoveredKeys, v, none
      <3> HIDE DEF bare
      <3>2. /\ bare \in Boards /\ bare.tree = none /\ bare.window.active = v.active
            /\ \A k \in TreeKeys : bare.window.tile[k] # "none" <=> v.tile[k] # "none"
            /\ ~v.active => bare.window.hidden = v.hidden
        BY <1>1, <1>3, <3>1, EmittedIs
      <3> QED BY <1>1, <1>2, <1>3, <3>2
    <2>2. CASE ~b.tree.streaming
      <3>1. bare = idle
        BY <1>1, <2>2 DEF ClearDiscoveredKeys
      <3>2. b.tree.lazy = {}
        BY <2>2 DEF Sound
      <3> HIDE DEF bare, idle
      <3> QED BY <1>1, <1>2, <3>1, <3>2 DEF v
    <2> QED BY <2>1, <2>2
  <1>5. empty = [bare EXCEPT !.tree = none]
    BY <1>4 DEF SetStreamingRootLabel, none
  <1> HIDE DEF bare
  <1>6. /\ empty \in Boards /\ ~empty.window.active /\ empty.window.hidden = hidden /\ empty.tree = none
        /\ \A k \in TreeKeys : empty.window.tile[k] # "none" <=> k \in tiles
    <2> HIDE DEF empty
    <2> QED BY <1>3, <1>4, <1>5 DEF Boards
  <1> HIDE DEF empty
  <1>7. fresh = SetHiddenDiscoveredKeys(empty, hidden)
    BY <1>0, <1>6
  <1>8. ASSUME NEW c, c \in Boards, ~c.window.active, c.window.hidden = hidden,
               \A k \in TreeKeys : c.window.tile[k] # "none" <=> k \in tiles,
               c.tree.streaming, c.tree.root # "none", c.tree.lazy = hidden,
               \A k \in TreeKeys : c.tree.ticks[k] = "none",
               \A g \in Groups : c.tree.groups[g] = "none"
        PROVE  Fed(c, {}, hidden, tiles)
    BY <1>8 DEF Fed, Lit
  <1>9. CASE hidden = {}
    <2>1. fresh = empty
      BY <1>7, <1>9 DEF SetHiddenDiscoveredKeys
    <2>2. Fed(fresh, {}, hidden, tiles)
      BY <1>3, <1>6, <1>8, <1>9, <2>1
    <2> QED BY <2>2 DEF hidden, tiles
  <1>10. CASE hidden # {}
    <2> DEFINE u == [none EXCEPT !.lazy = hidden]
               t == UpdateRunCheckState(u)
               x == empty.window
    <2>1. fresh = Emitted(x, t)
      BY <1>6, <1>7, <1>10 DEF SetHiddenDiscoveredKeys
    <2>2. /\ u \in Trees /\ u.streaming /\ u.lazy = hidden /\ u.ticks = none.ticks /\ u.groups = none.groups
      BY <1>2, <1>3 DEF Trees
    <2> HIDE DEF u
    <2>3. /\ t \in Trees /\ t.root \in {"on", "part", "off"} /\ t.streaming = u.streaming /\ t.lazy = u.lazy
          /\ t.ticks = u.ticks /\ t.groups = u.groups
      <3>1. u \in Trees
        BY <2>2
      <3> HIDE DEF t
      <3> QED BY <3>1, RootUpdated DEF t
    <2>4. x \in Windows /\ ~x.active /\ x.hidden = hidden /\ \A k \in TreeKeys : x.tile[k] # "none" <=> k \in tiles
      BY <1>6 DEF Boards
    <2> HIDE DEF t, x
    <2>5. /\ fresh \in Boards /\ fresh.tree = t /\ fresh.window.active = x.active
          /\ \A k \in TreeKeys : fresh.window.tile[k] # "none" <=> x.tile[k] # "none"
          /\ ~x.active => fresh.window.hidden = x.hidden
      <3> DEFINE y == fresh
      <3>1. t \in Trees /\ x \in Windows /\ y = Emitted(x, t)
        BY <2>1, <2>3, <2>4
      <3> HIDE DEF y
      <3>2. /\ y \in Boards /\ y.tree = t /\ y.window.active = x.active
            /\ \A k \in TreeKeys : y.window.tile[k] # "none" <=> x.tile[k] # "none"
            /\ ~x.active => y.window.hidden = x.hidden
        BY <3>1, EmittedIs
      <3> QED BY <3>2 DEF y
    <2>6. Fed(fresh, {}, hidden, tiles)
      <3>1. fresh.tree = t /\ t.ticks = none.ticks /\ t.groups = none.groups
        BY <2>2, <2>3, <2>5
      <3>2. fresh.tree.streaming /\ fresh.tree.root # "none" /\ fresh.tree.lazy = hidden
        BY <2>2, <2>3, <3>1
      <3>3. (\A k \in TreeKeys : fresh.tree.ticks[k] = "none") /\ \A g \in Groups : fresh.tree.groups[g] = "none"
        BY <1>3, <3>1
      <3> QED BY <1>8, <2>4, <2>5, <3>2, <3>3
    <2> QED BY <2>6 DEF hidden, tiles
  <1> QED BY <1>9, <1>10

\* The loop of StartLive, and what a start leaves.
LEMMA TilesFed ==
    ASSUME NEW hidden \in SUBSET TreeKeys, NEW S \in SUBSET TreeKeys, NEW base, Fed(base, {}, hidden, S),
           NEW m, m = FoldSet(LAMBDA k, acc : OnTileAdded(acc, k), base, S)
    PROVE  Fed(m, S, hidden, S)
  <1> DEFINE g == [p \in S \X Boards |-> OnTileAdded(p[2], p[1])]
             Body(h) == [s \in SUBSET S |-> IF s = {} THEN base ELSE OnTileAdded(h[s \ {Pick(s)}], Pick(s))]
             iter == CHOOSE h : h = Body(h)
  <1>1. IsFiniteSet(S)
    BY BrowserAssumption, FS_Subset
  <1>2. \A c \in Boards, k \in S : OnTileAdded(c, k) \in Boards
    BY AddedBoard
  <1>3. base \in Boards
    BY DEF Fed
  <1>4. g \in [S \X Boards -> Boards] /\ \A c \in Boards, k \in S : g[<<k, c>>] = OnTileAdded(c, k)
    BY <1>2
  <1> HIDE DEF g
  <1>5. PICK f : FoldOn(f, SUBSET S, base, g) /\ \A s \in SUBSET S : f[s] \in Boards
    <2>1. g \in [S \X Boards -> Boards]
      BY <1>4
    <2> QED BY <1>1, <1>3, <2>1, FoldTotal
  <1>6. ASSUME NEW s \in SUBSET S, s # {} PROVE Pick(s) \in s /\ Pick(s) \in S /\ s \ {Pick(s)} \in SUBSET S
    BY <1>1, <1>6, OneLess
  <1>7. f = Body(f)
    <2>1. \A s \in SUBSET S : (IF s = {} THEN base ELSE g[<<Pick(s), f[s \ {Pick(s)}]>>])
                              = IF s = {} THEN base ELSE OnTileAdded(f[s \ {Pick(s)}], Pick(s))
      BY <1>4, <1>5, <1>6
    <2> QED BY <1>5, <2>1 DEF FoldOn
  <1>8. iter = Body(iter)
    BY <1>7
  <1>9. m = iter[S]
    BY DEF FoldSet, MapThenFoldSet, Pick
  <1> HIDE DEF iter
  <1>10. \A s \in SUBSET S : iter[s] = IF s = {} THEN base ELSE OnTileAdded(iter[s \ {Pick(s)}], Pick(s))
    BY <1>8
  <1> DEFINE P == {s \in SUBSET S : Fed(iter[s], s, hidden, S)}
  <1>11. {} \in P
    BY <1>10
  <1>12. ASSUME NEW s \in SUBSET S, s # {}, s \ {Pick(s)} \in P PROVE s \in P
    <2> DEFINE k == Pick(s)
               c == iter[s \ {k}]
               r == iter[s]
    <2>1. k \in s /\ Fed(c, s \ {k}, hidden, S) /\ r = OnTileAdded(c, k)
      BY <1>6, <1>10, <1>12
    <2> HIDE DEF k, c, r
    <2>2. Fed(r, s, hidden, S)
      BY <2>1, FedMore
    <2> QED BY <2>2 DEF r
  <1> HIDE DEF P
  <1>13. S \in P
    BY <1>1, <1>11, <1>12, SubsetInduction
  <1> QED BY <1>9, <1>13 DEF P

LEMMA LiveStarted ==
    ASSUME NEW b, Sound(b), NEW r, r = StartLive(b)
    PROVE  /\ Sound(r) /\ Kept(r, TreeKeys)
           /\ \A k \in b.window.hidden : r.window.tile[k] # "shown"
           /\ \A k \in TreeKeys : r.window.tile[k] # "none" <=> b.window.tile[k] # "none"
  <1> DEFINE start == SetStreamingRootLabel(ClearDiscoveredKeys([b EXCEPT !.window.active = FALSE]))
             fresh == SetHiddenDiscoveredKeys(start, start.window.hidden)
             hidden == b.window.hidden
             tiles == Tiles(b.window)
             m == FoldSet(LAMBDA k, acc : OnTileAdded(acc, k), fresh, tiles)
  <1>1. r = [m EXCEPT !.window.active = TRUE]
    BY DEF StartLive
  <1>2. Fed(fresh, {}, hidden, tiles)
    <2> DEFINE y == fresh
    <2>1. y = SetHiddenDiscoveredKeys(SetStreamingRootLabel(ClearDiscoveredKeys([b EXCEPT !.window.active = FALSE])),
                  SetStreamingRootLabel(ClearDiscoveredKeys([b EXCEPT !.window.active = FALSE])).window.hidden)
      OBVIOUS
    <2> HIDE DEF y
    <2>2. Fed(y, {}, b.window.hidden, Tiles(b.window))
      BY <2>1, DockEmptied
    <2> QED BY <2>2 DEF y
  <1>3. hidden \in SUBSET TreeKeys /\ tiles \in SUBSET TreeKeys
        /\ \A k \in TreeKeys : k \in tiles <=> b.window.tile[k] # "none"
    BY DEF Sound, Boards, Windows, Tiles
  <1> HIDE DEF fresh, hidden, tiles
  <1>4. Fed(m, tiles, hidden, tiles)
    <2> DEFINE y == m
    <2>1. y = FoldSet(LAMBDA k, acc : OnTileAdded(acc, k), fresh, tiles)
      OBVIOUS
    <2> HIDE DEF y
    <2>2. Fed(y, tiles, hidden, tiles)
      BY <1>2, <1>3, <2>1, TilesFed
    <2> QED BY <2>2 DEF y
  <1> HIDE DEF m
  <1>5. /\ r \in Boards /\ r.tree = m.tree /\ r.window.tile = m.window.tile /\ r.window.hidden = m.window.hidden
        /\ r.window.active
    <2>1. m \in Boards
      BY <1>4 DEF Fed
    <2> DEFINE w == m.window
               v == [w EXCEPT !.active = TRUE]
    <2>2. w \in Windows /\ r = [m EXCEPT !.window = v]
      BY <1>1, <2>1 DEF Boards
    <2>3. v \in Windows /\ v.tile = w.tile /\ v.hidden = w.hidden /\ v.active
      BY <2>2 DEF Windows
    <2> HIDE DEF v
    <2>4. r \in Boards /\ r.tree = m.tree /\ r.window = v
      BY <2>1, <2>2, <2>3 DEF Boards
    <2> QED BY <2>3, <2>4
  <1>6. \A k \in TreeKeys :
            /\ m.tree.ticks[k] = IF k \notin tiles THEN "none" ELSE IF k \in hidden THEN "off" ELSE "on"
            /\ m.window.tile[k] # "none" <=> k \in tiles
            /\ k \in tiles => (m.window.tile[k] = "shown" <=> k \notin hidden)
    BY <1>4 DEF Fed
  <1>7. m.tree.streaming /\ m.tree.root # "none" /\ m.window.hidden = hidden /\ Lit(m.tree)
    BY <1>4 DEF Fed
  <1>8. Listed(r)
    BY <1>5, <1>6 DEF Listed
  <1>9. Decided(r)
    <2>1. \A k \in TreeKeys : k \in CheckedKeys(m.tree) <=> m.tree.ticks[k] = "on"
      BY <1>7 DEF Lit, CheckedKeys
    <2> QED BY <1>5, <1>6, <2>1 DEF Decided
  <1>10. Sound(r)
    BY <1>5, <1>7, <1>8, <1>9 DEF Sound
  <1>11. Kept(r, TreeKeys)
    BY <1>5, <1>6, <1>7 DEF Kept
  <1>12. \A k \in hidden : r.window.tile[k] # "shown"
    BY <1>3, <1>5, <1>6
  <1>13. \A k \in TreeKeys : r.window.tile[k] # "none" <=> b.window.tile[k] # "none"
    BY <1>3, <1>5, <1>6
  <1> QED BY <1>10, <1>11, <1>12, <1>13 DEF hidden

-----------------------------------------------------------------------------
(* The actions *)

\* What an operation leaves, as the next state.
LEMMA NextBoard ==
    ASSUME NEW r, Sound(r), Become(r), Kept(r, unwanted'), layout' \in Layouts, unwanted' \in SUBSET TreeKeys
    PROVE  BrowserInv'
  <1> DEFINE c == Board'
             keys == unwanted'
  <1>1. c = r
    BY DEF Become, Board, Sound, Boards
  <1> HIDE DEF c
  <1>2. Sound(c) /\ Kept(c, unwanted')
    BY <1>1
  <1> QED BY <1>2 DEF BrowserInv, c

LEMMA KeptSome == ASSUME NEW r, Kept(r, TreeKeys), NEW keys \in SUBSET TreeKeys PROVE Kept(r, keys)
  BY DEF Kept

LEMMA TransportStarted ==
    ASSUME NEW b, Sound(b), NEW kind, StartTransport(b, kind), layout' \in Layouts, unwanted' \in SUBSET TreeKeys
    PROVE  BrowserInv'
  <1> DEFINE r == IF kind THEN PopulateRunBrowserFromReplayFile(b) ELSE StartLive(b)
  <1>1. Become(r)
    BY DEF StartTransport, Become
  <1>2. Sound(r) /\ Kept(r, TreeKeys)
    BY FilePopulated, LiveStarted
  <1> HIDE DEF r
  <1>3. Kept(r, unwanted')
    BY <1>2, KeptSome
  <1> QED BY <1>1, <1>2, <1>3, NextBoard

\* The start of the program.
LEMMA BrowserInitInv == browserInit => BrowserInv
  <1> SUFFICES ASSUME browserInit PROVE BrowserInv
    OBVIOUS
  <1> DEFINE blank == [active |-> FALSE, checked |-> {}, hidden |-> {}, tile |-> [k \in TreeKeys |-> "none"]]
             b == [window |-> blank, tree |-> EmptyTree]
             r == StartLive(b)
  <1>1. Sound(b)
    <2>1. b \in Boards /\ b.tree = EmptyTree
      BY FreshTrees DEF Boards, Windows
    <2> HIDE DEF b
    <2> QED BY <2>1, FreshTrees DEF Sound
  <1>2. board = r.window /\ tree = r.tree /\ unwanted = {} /\ layout = [exists |-> FALSE, keys |-> {}, hidden |-> {}]
    BY DEF browserInit
  <1> HIDE DEF b
  <1>3. Sound(r)
    BY <1>1, LiveStarted
  <1> HIDE DEF r
  <1>4. Board = r
    BY <1>2, <1>3 DEF Board, Sound, Boards
  <1>5. Kept(Board, {})
    BY DEF Kept
  <1>6. layout \in Layouts
    BY <1>2 DEF Layouts
  <1> QED BY <1>2, <1>3, <1>4, <1>5, <1>6 DEF BrowserInv

\* A click ticks or unticks boxes and makes none.
LEMMA Clicked ==
    ASSUME BrowserInv, NEW t \in Trees, t.streaming = tree.streaming, t.lazy = tree.lazy,
           t.streaming => t.root # "none",
           \A k \in TreeKeys : t.ticks[k] # "none" <=> tree.ticks[k] # "none",
           Become(Emitted(board, t)), UNCHANGED layout, unwanted' \in SUBSET TreeKeys
    PROVE  BrowserInv'
  <1> DEFINE b == Board
             r == Emitted(board, t)
  <1>1. Sound(b) /\ b.window = board /\ b.tree = tree /\ layout' \in Layouts
    BY DEF BrowserInv, Board
  <1>2. r = Emitted(b.window, t) /\ Become(r)
    BY <1>1
  <1> HIDE DEF b, r
  <1>3. Sound(r) /\ Kept(r, TreeKeys)
    BY <1>1, <1>2, Reticked
  <1>4. Kept(r, unwanted')
    BY <1>3, KeptSome
  <1> QED BY <1>1, <1>2, <1>3, <1>4, NextBoard

LEMMA ClickSignalKeeps == ASSUME BrowserInv, NEW k \in TreeKeys, ClickSignal(k) PROVE BrowserInv'
  <1> DEFINE state == Toggled(tree.ticks[k])
             u == [tree EXCEPT !.ticks[k] = state]
             keys == {k}
             t == UpdateAbove(u, keys)
  <1>1. tree \in Trees /\ unwanted \in SUBSET TreeKeys
    BY DEF BrowserInv, Sound, Boards, Board
  <1>2. state \in {"on", "off"}
    BY DEF Toggled
  <1>3. tree.ticks[k] # "none" /\ Become(Emitted(board, t)) /\ UNCHANGED layout /\ Chosen({k}, state)
    BY DEF ClickSignal
  <1> HIDE DEF state
  <1>4. u \in Trees /\ u.streaming = tree.streaming /\ u.lazy = tree.lazy /\ u.ticks = [tree.ticks EXCEPT ![k] = state]
    BY <1>1, <1>2 DEF Trees, Ticks
  <1>5. \A j \in TreeKeys : u.ticks[j] # "none" <=> tree.ticks[j] # "none"
    BY <1>1, <1>2, <1>3, <1>4 DEF Trees
  <1> HIDE DEF u, keys
  <1>6. t \in Trees /\ t.root \in {"on", "part", "off"} /\ t.ticks = u.ticks /\ t.streaming = u.streaming /\ t.lazy = u.lazy
    <2>1. u \in Trees
      BY <1>4
    <2> HIDE DEF t
    <2> QED BY <2>1, AboveUpdated DEF t
  <1>7. unwanted' \in SUBSET TreeKeys
    BY <1>1, <1>3 DEF Chosen
  <1> HIDE DEF t
  <1> QED BY <1>3, <1>4, <1>5, <1>6, <1>7, Clicked

LEMMA ClickGroupKeeps == ASSUME BrowserInv, NEW g \in Groups, ClickGroup(g) PROVE BrowserInv'
  <1> DEFINE state == Toggled(tree.groups[g])
             ticks == Pushed(Members(g), state)
             u == [tree EXCEPT !.groups[g] = state, !.ticks = ticks]
             t == UpdateRunCheckState(u)
  <1>1. tree \in Trees /\ unwanted \in SUBSET TreeKeys
    BY DEF BrowserInv, Sound, Boards, Board
  <1>2. state \in {"on", "off"}
    BY DEF Toggled
  <1>3. Become(Emitted(board, t)) /\ UNCHANGED layout /\ Chosen({k \in Members(g) : tree.ticks[k] # "none"}, state)
    BY DEF ClickGroup
  <1> HIDE DEF state
  <1>4. ticks \in [TreeKeys -> Ticks] /\ \A j \in TreeKeys : ticks[j] # "none" <=> tree.ticks[j] # "none"
    BY <1>1, <1>2 DEF Pushed, Trees, Ticks
  <1> HIDE DEF ticks
  <1>5. u \in Trees /\ u.streaming = tree.streaming /\ u.lazy = tree.lazy /\ u.ticks = ticks
    BY <1>1, <1>2, <1>4 DEF Trees, Boxes
  <1> HIDE DEF u
  <1>6. t \in Trees /\ t.root \in {"on", "part", "off"} /\ t.ticks = u.ticks /\ t.streaming = u.streaming /\ t.lazy = u.lazy
    <2>1. u \in Trees
      BY <1>5
    <2> HIDE DEF t
    <2> QED BY <2>1, RootUpdated DEF t
  <1>7. unwanted' \in SUBSET TreeKeys
    BY <1>1, <1>3 DEF Chosen, Members
  <1> HIDE DEF t
  <1> QED BY <1>3, <1>4, <1>5, <1>6, <1>7, Clicked

LEMMA ClickRunKeeps == ASSUME BrowserInv, ClickRun PROVE BrowserInv'
  <1> DEFINE state == Toggled(tree.root)
             ticks == Pushed(TreeKeys, state)
             groups == [g \in Groups |-> IF tree.groups[g] = "none" THEN "none" ELSE state]
             t == [tree EXCEPT !.root = state, !.ticks = ticks,
                               !.groups = [g \in Groups |-> IF @[g] = "none" THEN "none" ELSE state]]
  <1>1. tree \in Trees /\ unwanted \in SUBSET TreeKeys
    BY DEF BrowserInv, Sound, Boards, Board
  <1>2. state \in {"on", "off"}
    BY DEF Toggled
  <1>3. Become(Emitted(board, t)) /\ UNCHANGED layout /\ Chosen({k \in TreeKeys : tree.ticks[k] # "none"}, state)
    BY DEF ClickRun
  <1> HIDE DEF state
  <1>4. ticks \in [TreeKeys -> Ticks] /\ \A j \in TreeKeys : ticks[j] # "none" <=> tree.ticks[j] # "none"
    BY <1>1, <1>2 DEF Pushed, Trees, Ticks
  <1>5. groups \in [Groups -> Boxes]
    BY <1>2 DEF Boxes
  <1>6. t = [tree EXCEPT !.root = state, !.ticks = ticks, !.groups = groups]
    BY <1>1 DEF Trees
  <1> HIDE DEF ticks, groups, t
  <1>7. t \in Trees /\ t.streaming = tree.streaming /\ t.lazy = tree.lazy /\ t.ticks = ticks /\ t.root = state
    BY <1>1, <1>2, <1>4, <1>5, <1>6 DEF Trees, Boxes
  <1>8. unwanted' \in SUBSET TreeKeys
    BY <1>1, <1>3 DEF Chosen
  <1> QED BY <1>2, <1>3, <1>4, <1>7, <1>8, Clicked

LEMMA ArrivesKeeps == ASSUME BrowserInv, NEW k \in TreeKeys, Arrives(k) PROVE BrowserInv'
  <1> DEFINE b == Board
             r == GetOrCreateTile(b, k)
  <1>1. Sound(b) /\ Kept(b, unwanted) /\ layout' \in Layouts /\ unwanted' = unwanted /\ unwanted \in SUBSET TreeKeys
        /\ Become(r)
    BY DEF Arrives, BrowserInv
  <1> HIDE DEF b
  <1>2. Sound(r) /\ (r = b \/ Kept(r, TreeKeys))
    BY <1>1, TileMade
  <1> HIDE DEF r
  <1>3. Kept(r, unwanted)
    BY <1>1, <1>2, KeptSome
  <1>4. Kept(r, unwanted')
    BY <1>1, <1>3
  <1> QED BY <1>1, <1>2, <1>4, NextBoard

LEMMA HideTileKeeps ==
    ASSUME BrowserInv, NEW keys \in SUBSET TreeKeys, OnHideTileRequested(keys) PROVE BrowserInv'
  <1>1. /\ Sound(Board) /\ Kept(Board, unwanted) /\ layout' \in Layouts /\ unwanted' \in SUBSET TreeKeys
        /\ unwanted' = unwanted \cup keys /\ keys # {} /\ \A k \in keys : board.tile[k] = "shown"
    BY DEF OnHideTileRequested, BrowserInv
  <1>2. CASE board.active
    <2> DEFINE b == Board
               r == UncheckSignalsByKeys(b, keys)
    <2>1. Become(r) /\ b.window = board /\ b.tree = tree
      BY <1>2 DEF OnHideTileRequested, Board
    <2>2. Sound(b)
      BY <1>1
    <2> HIDE DEF b
    <2>3. /\ Sound(r) /\ r.tree.streaming = b.tree.streaming
          /\ Kept(r, TreeKeys) \/ (r = b /\ \A k \in keys : b.tree.ticks[k] # "on")
      BY <2>2, Unchecked
    <2> HIDE DEF r
    <2>4. b.tree.streaming => \A k \in keys : b.tree.ticks[k] = "on"
      <3>1. b.tree.streaming => Decided(b)
        BY <1>2, <2>1, <2>2 DEF Sound
      <3> QED BY <1>1, <2>1, <3>1 DEF Decided, CheckedKeys
    <2>5. Kept(r, TreeKeys) \/ ~r.tree.streaming
      BY <1>1, <2>3, <2>4
    <2>6. Kept(r, unwanted')
      <3>1. CASE Kept(r, TreeKeys)
        BY <1>1, <3>1, KeptSome
      <3>2. CASE ~r.tree.streaming
        BY <3>2 DEF Kept
      <3> QED BY <2>5, <3>1, <3>2
    <2> QED BY <1>1, <2>1, <2>3, <2>6, NextBoard
  <1>3. CASE ~board.active
    <2> DEFINE tile == [k \in TreeKeys |-> IF k \in keys THEN "hidden" ELSE board.tile[k]]
               w == [board EXCEPT !.tile = tile]
               r == [window |-> w, tree |-> tree]
    <2>1. board \in Windows /\ tree \in Trees
      BY <1>1 DEF Sound, Boards, Board
    <2>2. board' = w /\ tree' = tree
      BY <1>3, <2>1 DEF OnHideTileRequested, Windows
    <2>3. tile \in [TreeKeys -> {"none", "shown", "hidden"}]
          /\ \A k \in TreeKeys : tile[k] # "none" <=> board.tile[k] # "none"
      BY <1>1, <2>1 DEF Windows
    <2> HIDE DEF tile
    <2>4. w \in Windows /\ w.tile = tile /\ ~w.active
      BY <1>3, <2>1, <2>3 DEF Windows
    <2> HIDE DEF w
    <2>5. r \in Boards /\ r.window = w /\ r.tree = tree /\ Become(r)
      BY <2>1, <2>2, <2>4 DEF Boards, Become
    <2> HIDE DEF r
    <2>6. Sound(r)
      <3>1. (tree.streaming => tree.root # "none" /\ \A k \in TreeKeys : tree.ticks[k] # "none" <=> board.tile[k] # "none")
            /\ (~tree.streaming => tree.lazy = {})
        BY <1>1 DEF Sound, Listed, Board
      <3> QED BY <2>3, <2>4, <2>5, <3>1 DEF Sound, Listed
    <2>7. Kept(r, unwanted')
      BY <2>4, <2>5 DEF Kept
    <2> QED BY <1>1, <2>5, <2>6, <2>7, NextBoard
  <1> QED BY <1>2, <1>3

LEMMA RemoveWidgetKeeps ==
    ASSUME BrowserInv, NEW k \in TreeKeys, OnRemoveWidgetRequested(k) PROVE BrowserInv'
  <1> DEFINE b == Board
             r == OnTileRemoved([b EXCEPT !.window.tile[k] = "none"], k)
  <1>1. /\ Sound(b) /\ layout' \in Layouts /\ unwanted' \in SUBSET TreeKeys
        /\ b.window.tile[k] # "none" /\ Become(r)
    BY DEF OnRemoveWidgetRequested, BrowserInv, Board
  <1> HIDE DEF b
  <1>2. Sound(r) /\ Kept(r, TreeKeys)
    BY <1>1, TileRemoved
  <1> HIDE DEF r
  <1>3. Kept(r, unwanted')
    BY <1>1, <1>2, KeptSome
  <1> QED BY <1>1, <1>2, <1>3, NextBoard

LEMMA ClearWidgetsKeeps == ASSUME BrowserInv, OnClearWidgets PROVE BrowserInv'
  <1> DEFINE b == Board
             r == ClearWidgets(b)
  <1>1. b \in Boards /\ layout' \in Layouts /\ unwanted' \in SUBSET TreeKeys /\ Become(r)
    BY DEF OnClearWidgets, BrowserInv, Sound
  <1> HIDE DEF b
  <1>2. Sound(r) /\ ~r.window.active
    BY <1>1, WidgetsCleared
  <1> HIDE DEF r
  <1>3. Kept(r, unwanted')
    BY <1>2 DEF Kept
  <1> QED BY <1>1, <1>2, <1>3, NextBoard

LEMMA LoadLayoutKeeps == ASSUME BrowserInv, NEW instead, OnLoadLayout(instead) PROVE BrowserInv'
  <1> DEFINE b == IF instead THEN ClearWidgets(Board) ELSE Board
             content == layout
             r == LoadLayoutFromPath(b, content)
  <1>1. /\ Sound(Board) /\ Board \in Boards /\ content \in Layouts /\ layout' \in Layouts
        /\ unwanted' = {} /\ Become(r)
    BY DEF OnLoadLayout, BrowserInv, Sound
  <1>2. Sound(b)
    BY <1>1, WidgetsCleared
  <1> HIDE DEF b, content
  <1>3. Sound(r)
    BY <1>1, <1>2, LayoutLoaded
  <1> HIDE DEF r
  <1>4. Kept(r, unwanted')
    BY <1>1 DEF Kept
  <1>5. unwanted' \in SUBSET TreeKeys
    BY <1>1
  <1> QED BY <1>1, <1>3, <1>4, <1>5, NextBoard

\* The dashboard closed and opened.
LEMMA RestartKeeps == ASSUME BrowserInv, Restart PROVE BrowserInv'
  <1> DEFINE hidden == IF tree.streaming THEN GetHiddenDiscoveredKeys(tree) ELSE board.hidden
             kept == [board EXCEPT !.tile = [k \in TreeKeys |-> "none"],
                                   !.hidden = IF tree.streaming THEN GetHiddenDiscoveredKeys(tree) ELSE @]
             b == [window |-> kept, tree |-> EmptyTree]
             content == layout
             r == LoadLayoutFromPath(b, content)
  <1>1. board \in Windows /\ layout \in Layouts /\ unwanted \in SUBSET TreeKeys
    BY DEF BrowserInv, Sound, Boards, Board
  <1>2. hidden \in SUBSET TreeKeys
    BY <1>1 DEF GetHiddenDiscoveredKeys, Windows
  <1>3. kept = [board EXCEPT !.tile = [k \in TreeKeys |-> "none"], !.hidden = hidden]
    BY <1>1 DEF Windows
  <1> HIDE DEF hidden
  <1>4. kept \in Windows
    BY <1>1, <1>2, <1>3 DEF Windows
  <1>5. StartTransport(r, replay) /\ layout' \in Layouts /\ unwanted' \in SUBSET TreeKeys /\ content \in Layouts
    BY <1>1 DEF Restart
  <1> HIDE DEF kept, content
  <1>6. Sound(b)
    <2>1. b \in Boards /\ b.tree = EmptyTree
      BY <1>4, FreshTrees DEF Boards
    <2> HIDE DEF b
    <2> QED BY <2>1, FreshTrees DEF Sound
  <1> HIDE DEF b
  <1>7. Sound(r)
    BY <1>5, <1>6, LayoutLoaded
  <1> HIDE DEF r
  <1> QED BY <1>5, <1>7, TransportStarted

LEMMA StartsKeep == ASSUME BrowserInv, Connect \/ SelectReplay \/ OnOpenReplayFile PROVE BrowserInv'
  <1>1. Sound(Board) /\ layout \in Layouts /\ unwanted \in SUBSET TreeKeys
    BY DEF BrowserInv
  <1>2. CASE Connect
    <2>1. StartTransport(Board, FALSE) /\ layout' \in Layouts /\ unwanted' \in SUBSET TreeKeys
      BY <1>1, <1>2 DEF Connect
    <2> QED BY <1>1, <2>1, TransportStarted
  <1>3. CASE SelectReplay
    <2>1. StartTransport(Board, TRUE) /\ layout' \in Layouts /\ unwanted' \in SUBSET TreeKeys
      BY <1>1, <1>3 DEF SelectReplay
    <2> QED BY <1>1, <2>1, TransportStarted
  <1>4. CASE OnOpenReplayFile
    <2> DEFINE b == [Board EXCEPT !.window.checked = {}]
    <2>1. StartTransport(b, TRUE) /\ layout' \in Layouts /\ unwanted' \in SUBSET TreeKeys
      BY <1>1, <1>4 DEF OnOpenReplayFile
    <2>2. Sound(b)
      <3> DEFINE a == Board
      <3>1. Sound(a) /\ b = [a EXCEPT !.window.checked = {}]
        BY <1>1
      <3> HIDE DEF a, b
      <3>2. /\ b \in Boards /\ b.tree = a.tree /\ b.window.tile = a.window.tile /\ b.window.active = a.window.active
        BY <3>1 DEF Sound, Boards, Windows
      <3> QED BY <3>1, <3>2 DEF Sound, Listed, Decided
    <2> HIDE DEF b
    <2> QED BY <2>1, <2>2, TransportStarted
  <1> QED BY <1>2, <1>3, <1>4

\* Every step keeps the board sound and what the user has hidden kept.
LEMMA BrowserNextInv == ASSUME BrowserInv, [browserNext]_browserVars PROVE BrowserInv'
  <1>1. ASSUME UNCHANGED <<board, tree, unwanted>>, layout' \in Layouts PROVE BrowserInv'
    BY <1>1 DEF BrowserInv, Board, Sound, Kept, Listed, Decided
  <1>2. layout \in Layouts
    BY DEF BrowserInv
  <1>3. CASE UNCHANGED browserVars
    BY <1>1, <1>2, <1>3 DEF browserVars
  <1>4. CASE SaveLayoutToPath
    <2>1. layout' \in Layouts
      BY <1>4 DEF SaveLayoutToPath, Layouts, Tiles
    <2> QED BY <1>1, <1>4, <2>1 DEF SaveLayoutToPath
  <1>5. CASE OnDisconnectTransport
    BY <1>1, <1>2, <1>5 DEF OnDisconnectTransport
  <1>6. CASE browserNext /\ ~SaveLayoutToPath /\ ~OnDisconnectTransport
    BY <1>6, ArrivesKeeps, ClickSignalKeeps, RemoveWidgetKeeps, ClickGroupKeeps, ClickRunKeeps, HideTileKeeps,
       ClearWidgetsKeeps, LoadLayoutKeeps, StartsKeep, RestartKeeps DEF browserNext
  <1> QED BY <1>3, <1>4, <1>5, <1>6

\* While the dock is in charge of live tiles, a tile is shown exactly if its box and the
\* root's are ticked (OnRunBrowserCheckedSignalsChanged), after any number of clicks,
\* arrivals, removals, layouts, reconnects and restarts.
THEOREM TilesFollowTicks == browserSpec => []ShownAsTicked
  <1>1. BrowserInv => ShownAsTicked
    <2> SUFFICES ASSUME BrowserInv, board.active, tree.streaming, NEW k \in Tiles(board)
                 PROVE  (board.tile[k] = "shown") <=> (tree.ticks[k] = "on" /\ tree.root # "off")
      BY DEF ShownAsTicked
    <2>1. k \in TreeKeys /\ board.tile[k] # "none"
      BY DEF Tiles
    <2>2. tree.root # "none" /\ (board.tile[k] = "shown" <=> k \in CheckedKeys(tree))
      BY <2>1 DEF BrowserInv, Sound, Board, Decided
    <2> QED BY <2>1, <2>2 DEF CheckedKeys
  <1> QED BY <1>1, BrowserInitInv, BrowserNextInv, PTL DEF browserSpec

\* With the dock in charge, a tile the user has hidden, and whose box is unticked, stays
\* hidden when another tile arrives and when the transport starts again (the reconnect timer,
\* Connect): what the signals say on the way there shows none of them.
THEOREM HiddenStaysHidden == browserSpec => HiddenSurvivesReconnect
  <1>1. ASSUME BrowserInv, Lifecycle, board.active, tree.streaming,
               NEW k \in unwanted, tree.ticks[k] = "off", board.tile[k] = "hidden"
        PROVE  board'.tile[k] = "hidden"
    <2> DEFINE b == Board
    <2>1. /\ Sound(b) /\ b.window = board /\ b.tree = tree /\ k \in TreeKeys /\ k \in board.hidden
      BY <1>1 DEF BrowserInv, Kept, Board
    <2>2. CASE Connect
      <3> DEFINE r == StartLive(b)
      <3>1. board' = r.window
        BY <2>2 DEF Connect, StartTransport
      <3> HIDE DEF b
      <3>2. /\ Sound(r) /\ \A j \in b.window.hidden : r.window.tile[j] # "shown"
            /\ \A j \in TreeKeys : r.window.tile[j] # "none" <=> b.window.tile[j] # "none"
        BY <2>1, LiveStarted
      <3> HIDE DEF r
      <3>3. r.window.tile[k] # "shown" /\ r.window.tile[k] # "none"
        BY <1>1, <2>1, <3>2
      <3>4. r.window.tile[k] \in {"none", "shown", "hidden"}
        BY <2>1, <3>2 DEF Sound, Boards, Windows
      <3> QED BY <3>1, <3>3, <3>4
    <2>3. CASE OnDisconnectTransport
      BY <1>1, <2>3 DEF OnDisconnectTransport
    <2>4. ASSUME NEW j \in TreeKeys, Arrives(j) PROVE board'.tile[k] = "hidden"
      <3> DEFINE r == GetOrCreateTile(b, j)
      <3>1. board' = r.window
        BY <2>4 DEF Arrives, Become
      <3> HIDE DEF b
      <3>a. Sound(b) /\ r = GetOrCreateTile(b, j)
        BY <2>1
      <3> HIDE DEF r
      <3>2. /\ Sound(r) /\ r.tree.streaming = b.tree.streaming /\ r.window.active = b.window.active
            /\ \A i \in TreeKeys : b.window.tile[i] # "none" =>
                  r.window.tile[i] # "none" /\ r.tree.ticks[i] = b.tree.ticks[i]
        BY <3>a, TileMade
      <3>3. r.window.tile[k] # "none" /\ r.tree.ticks[k] = "off" /\ r.tree.streaming /\ r.window.active
        BY <1>1, <2>1, <3>2
      <3>4. Decided(r)
        BY <3>2, <3>3 DEF Sound
      <3>5. r.window.tile[k] # "shown"
        BY <2>1, <3>3, <3>4 DEF Decided, CheckedKeys
      <3>6. r.window.tile[k] \in {"none", "shown", "hidden"}
        BY <2>1, <3>2 DEF Sound, Boards, Windows
      <3> QED BY <3>1, <3>3, <3>5, <3>6
    <2> QED BY <1>1, <2>2, <2>3, <2>4 DEF Lifecycle
  <1>2. BrowserInv /\ [browserNext]_browserVars =>
            [Lifecycle /\ board.active /\ tree.streaming =>
                \A k \in unwanted :
                    tree.ticks[k] = "off" /\ board.tile[k] = "hidden" => board'.tile[k] = "hidden"]_browserVars
    BY <1>1
  <1> QED BY <1>2, BrowserInitInv, BrowserNextInv, PTL DEF browserSpec, HiddenSurvivesReconnect

-----------------------------------------------------------------------------
(* The recorder.  FileComplete is about the moment a recorder has ended.  What is    *)
(* inductive says where the accepted events are until then: the file, with the        *)
(* queue after it, is what was accepted, and a recorder that has ended has left         *)
(* nothing in the queue.                                                                  *)

Phases == {"opening", "writing", "ended", "failed"}

Recorders == [joinable : BOOLEAN, phase : Phases, stop : BOOLEAN, queue : Seq(Int), file : Seq(Int)]

\* The recorder and what was accepted have their types.
RecorderTypes == recorder \in Recorders /\ accepted \in Seq(Int) /\ received \in Nat

\* Nothing accepted is lost or out of order, unless the file could not be opened.
FileThenQueue(r, events) ==
    /\ r.phase # "failed" => r.file \o r.queue = events
    /\ r.phase = "ended" => r.queue = <<>>

RecorderInv == RecorderTypes /\ FileThenQueue(recorder, accepted)

-----------------------------------------------------------------------------
(* Sequences *)

LEMMA AppendIsLonger ==
    ASSUME NEW s \in Seq(Int), NEW e \in Int
    PROVE  Append(s, e) \in Seq(Int) /\ Append(s, e) # s
<1>1. Len(Append(s, e)) = Len(s) + 1 /\ Len(s) \in Nat
  OBVIOUS
<1> QED
  BY <1>1

\* An event put at the end of the queue comes at the end of what the file will hold.
LEMMA AppendThenConcat ==
    ASSUME NEW s \in Seq(Int), NEW t \in Seq(Int), NEW e \in Int
    PROVE  s \o Append(t, e) = Append(s \o t, e)
  OBVIOUS

\* The first event of the queue moved to the end of the file stays where it was.
LEMMA HeadMoves ==
    ASSUME NEW s \in Seq(Int), NEW t \in Seq(Int), t # <<>>
    PROVE  /\ Append(s, Head(t)) \in Seq(Int) /\ Tail(t) \in Seq(Int)
           /\ Append(s, Head(t)) \o Tail(t) = s \o t
  OBVIOUS

LEMMA NothingAfter ==
    ASSUME NEW s \in Seq(Int)
    PROVE  s \o <<>> = s
  OBVIOUS

-----------------------------------------------------------------------------
(* The operations on a recorder *)

\* A recorder that takes an event stays one whose file and queue are what it accepted.
LEMMA EventIsKept ==
    ASSUME NEW r \in Recorders, NEW events \in Seq(Int), NEW e \in Int,
           r = recorder, FileThenQueue(r, events)
    PROVE  LET r2 == Record(r, e)
               events2 == IF r2 = r THEN events ELSE Append(events, e)
           IN  r2 \in Recorders /\ events2 \in Seq(Int) /\ FileThenQueue(r2, events2)
<1> DEFINE r2 == Record(r, e)
           events2 == IF r2 = r THEN events ELSE Append(events, e)
<1>1. CASE ~(Running /\ ~r.stop)
  <2>1. r2 = r
    BY <1>1 DEF Record
  <2> QED
    BY <2>1
<1>2. CASE Running /\ ~r.stop
  <2>1. r2 = [r EXCEPT !.queue = Append(@, e)]
    BY <1>2 DEF Record
  <2>2. /\ r.queue \in Seq(Int) /\ r.file \in Seq(Int) /\ r.phase \in {"opening", "writing"}
    BY <1>2 DEF Recorders, Running
  <2>3. Append(r.queue, e) \in Seq(Int) /\ Append(r.queue, e) # r.queue
    BY <2>2, AppendIsLonger
  <2>4. /\ r2.queue = Append(r.queue, e) /\ r2.file = r.file /\ r2.phase = r.phase
        /\ r2 \in Recorders
    BY <2>1, <2>3 DEF Recorders
  <2>5. r2 # r /\ events2 = Append(events, e)
    BY <2>3, <2>4
  <2>6. r2.file \o r2.queue = Append(r.file \o r.queue, e)
    <3>1. r.file \o Append(r.queue, e) = Append(r.file \o r.queue, e)
      BY <2>2, AppendThenConcat
    <3> QED
      BY <2>4, <3>1
  <2>7. r.file \o r.queue = events
    BY <2>2 DEF FileThenQueue
  <2>8. FileThenQueue(r2, events2)
    BY <2>2, <2>4, <2>5, <2>6, <2>7 DEF FileThenQueue
  <2>9. events2 \in Seq(Int)
    BY <2>5, AppendIsLonger
  <2> QED
    BY <2>4, <2>8, <2>9
<1> QED
  BY <1>1, <1>2

\* Told to stop, a recorder keeps what it has.
LEMMA StopKeeps ==
    ASSUME NEW r \in Recorders, NEW events, FileThenQueue(r, events), recorder.joinable \in BOOLEAN
    PROVE  ToldToStop(r) \in Recorders /\ FileThenQueue(ToldToStop(r), events)
  BY DEF ToldToStop, Recorders, FileThenQueue

\* The end of the old transport and the call that stops its recorder.
LEMMA StartKeeps ==
    ASSUME RecorderInv, BeginStart, received' = received
    PROVE  RecorderInv'
<1> DEFINE r == IF transport # "none" THEN Record(recorder, Disconnected) ELSE recorder
<1>1. recorder \in Recorders /\ accepted \in Seq(Int) /\ FileThenQueue(recorder, accepted)
  BY DEF RecorderInv, RecorderTypes
<1>2. Disconnected \in Int
  BY DEF Disconnected
<1>3. recorder' = ToldToStop(r) /\ accepted' = IF r = recorder THEN accepted ELSE Append(accepted, Disconnected)
  BY DEF BeginStart
<1>4. r \in Recorders /\ accepted' \in Seq(Int) /\ FileThenQueue(r, accepted')
  <2>1. CASE transport # "none"
    <3>1. r = Record(recorder, Disconnected)
      BY <2>1
    <3> QED
      BY <1>1, <1>2, <1>3, <3>1, EventIsKept
  <2>2. CASE transport = "none"
    BY <1>1, <1>3, <2>2
  <2> QED
    BY <2>1, <2>2
<1>5. recorder.joinable \in BOOLEAN
  BY <1>1 DEF Recorders
<1>6. recorder' \in Recorders /\ FileThenQueue(recorder', accepted')
  BY <1>3, <1>4, <1>5, StopKeeps
<1> QED
  BY <1>4, <1>6 DEF RecorderInv, RecorderTypes

-----------------------------------------------------------------------------
(* The invariant *)

LEMMA RecorderInitInv == recorderInit => RecorderInv
<1> SUFFICES ASSUME recorderInit PROVE RecorderInv
  OBVIOUS
<1>1. recorder = NoRecorder /\ accepted = <<>> /\ received = 0
  BY DEF recorderInit
<1>2. <<>> \in Seq(Int) /\ <<>> \o <<>> = <<>>
  BY NothingAfter
<1> QED
  BY <1>1, <1>2 DEF RecorderInv, RecorderTypes, Recorders, Phases, NoRecorder, FileThenQueue

LEMMA RecorderNextInv == RecorderInv /\ [recorderNext]_recorderVars => RecorderInv'
<1> SUFFICES ASSUME RecorderInv, [recorderNext]_recorderVars PROVE RecorderInv'
  OBVIOUS
<1>1. /\ recorder \in Recorders /\ accepted \in Seq(Int) /\ received \in Nat
      /\ FileThenQueue(recorder, accepted)
  BY DEF RecorderInv, RecorderTypes
<1>2. ASSUME RecordVariableEvent PROVE RecorderInv'
  <2>1. received' \in Nat /\ received' \in Int
    BY <1>1, <1>2 DEF RecordVariableEvent
  <2>2. /\ recorder' = Record(recorder, received')
        /\ accepted' = IF Record(recorder, received') = recorder THEN accepted
                       ELSE Append(accepted, received')
    BY <1>2 DEF RecordVariableEvent, RecordEvent
  <2> QED
    BY <1>1, <2>1, <2>2, EventIsKept DEF RecorderInv, RecorderTypes
<1>3. ASSUME RecorderSteps PROVE RecorderInv'
  <2>1. accepted' = accepted /\ received' = received
    BY <1>3 DEF RecorderSteps, bounds
  <2>2. recorder' \in Recorders /\ FileThenQueue(recorder', accepted)
    <3>1. CASE recorder.phase = "opening"
      <4>1. recorder' = [recorder EXCEPT !.phase = "writing"] \/ recorder' = [recorder EXCEPT !.phase = "failed"]
        BY <1>3, <3>1 DEF RecorderSteps
      <4> QED
        BY <1>1, <3>1, <4>1 DEF Recorders, Phases, FileThenQueue
    <3>2. CASE recorder.phase = "writing"
      <4>1. recorder' = WriteOrEnd
        BY <1>3, <3>2 DEF RecorderSteps
      <4>2. recorder.queue \in Seq(Int) /\ recorder.file \in Seq(Int)
        BY <1>1 DEF Recorders
      <4>3. CASE recorder.queue # <<>>
        <5>1. recorder' = [recorder EXCEPT !.file = Append(@, Head(recorder.queue)), !.queue = Tail(@)]
          BY <4>1, <4>3 DEF WriteOrEnd, Written
        <5>2. /\ Append(recorder.file, Head(recorder.queue)) \in Seq(Int)
              /\ Tail(recorder.queue) \in Seq(Int)
              /\ Append(recorder.file, Head(recorder.queue)) \o Tail(recorder.queue)
                    = recorder.file \o recorder.queue
          BY <4>2, <4>3, HeadMoves
        <5>3. /\ recorder' \in Recorders /\ recorder'.phase = "writing"
              /\ recorder'.file = Append(recorder.file, Head(recorder.queue))
              /\ recorder'.queue = Tail(recorder.queue)
          BY <1>1, <3>2, <5>1, <5>2 DEF Recorders
        <5> QED
          BY <1>1, <3>2, <5>2, <5>3 DEF FileThenQueue
      <4>4. CASE recorder.queue = <<>>
        <5>1. recorder' = [recorder EXCEPT !.phase = "ended"]
          BY <4>1, <4>4 DEF WriteOrEnd
        <5> QED
          BY <1>1, <3>2, <4>4, <5>1 DEF Recorders, Phases, FileThenQueue
      <4> QED
        BY <4>3, <4>4
    <3> QED
      BY <1>3, <3>1, <3>2 DEF RecorderSteps
  <2> QED
    BY <1>1, <2>1, <2>2 DEF RecorderInv, RecorderTypes
<1>4. ASSUME ToggleRecord PROVE RecorderInv'
  <2>1. recorder' = ToldToStop(recorder) /\ accepted' = accepted /\ received' = received
    BY <1>4 DEF ToggleRecord
  <2>2. recorder.joinable \in BOOLEAN
    BY <1>1 DEF Recorders
  <2> QED
    BY <1>1, <2>1, <2>2, StopKeeps DEF RecorderInv, RecorderTypes
<1>5. ASSUME OnConnectTransport PROVE RecorderInv'
  BY <1>5, StartKeeps DEF OnConnectTransport, bounds
<1>6. ASSUME OnReconnectTimerFired PROVE RecorderInv'
  BY <1>6, StartKeeps DEF OnReconnectTimerFired, bounds
<1>7. ASSUME ReportConnected PROVE RecorderInv'
  <2>1. Connected \in Int
    BY DEF Connected
  <2>2. /\ recorder' = Record(recorder, Connected)
        /\ accepted' = IF Record(recorder, Connected) = recorder THEN accepted
                       ELSE Append(accepted, Connected)
        /\ received' = received
    BY <1>7 DEF ReportConnected, RecordEvent, bounds
  <2> QED
    BY <1>1, <2>1, <2>2, EventIsKept DEF RecorderInv, RecorderTypes
<1>8. ASSUME Joined PROVE RecorderInv'
  <2>1. /\ recorder' = [recorder EXCEPT !.joinable = FALSE, !.stop = FALSE, !.queue = <<>>]
        /\ ~Running /\ accepted' = accepted /\ received' = received
    BY <1>8 DEF Joined, bounds
  <2>2. recorder.phase \in {"ended", "failed"}
    BY <1>1, <2>1 DEF Running, Recorders, Phases
  <2>3. <<>> \in Seq(Int)
    OBVIOUS
  <2>4. recorder' \in Recorders /\ FileThenQueue(recorder', accepted)
    BY <1>1, <2>1, <2>2, <2>3 DEF Recorders, FileThenQueue
  <2> QED
    BY <1>1, <2>1, <2>4 DEF RecorderInv, RecorderTypes
<1>9. ASSUME FileChosen PROVE RecorderInv'
  <2>1. /\ recorder' = [NoRecorder EXCEPT !.joinable = TRUE, !.phase = "opening"]
        /\ accepted' = <<>> /\ received' = received
    BY <1>9 DEF FileChosen, bounds
  <2>2. <<>> \in Seq(Int) /\ <<>> \o <<>> = <<>>
    BY NothingAfter
  <2>3. recorder' \in Recorders /\ recorder'.phase = "opening"
        /\ recorder'.file = <<>> /\ recorder'.queue = <<>>
    BY <2>1, <2>2 DEF NoRecorder, Recorders, Phases
  <2> QED
    BY <1>1, <2>1, <2>2, <2>3 DEF RecorderInv, RecorderTypes, FileThenQueue
<1>10. ASSUME LoseConnection \/ DialogCancelled \/ UNCHANGED recorderVars PROVE RecorderInv'
  <2>1. UNCHANGED <<recorder, accepted, received>>
    BY <1>10 DEF LoseConnection, DialogCancelled, recorderVars, bounds
  <2> QED
    BY <1>1, <2>1 DEF RecorderInv, RecorderTypes
<1> QED
  BY <1>2, <1>3, <1>4, <1>5, <1>6, <1>7, <1>8, <1>9, <1>10 DEF recorderNext

\* Main window, RecordEvent, RecorderThreadMain, StartSessionRecording and
\* StopSessionRecording: until its file could not be opened, a recorder's file followed
\* by its queue is what the queue accepted, in order, and a recorder that ended left
\* nothing in its queue.
THEOREM NothingAcceptedIsLost == recorderSpec => []RecorderInv
<1>1. recorderInit => RecorderInv
  BY RecorderInitInv
<1>2. RecorderInv /\ [recorderNext]_recorderVars => RecorderInv'
  BY RecorderNextInv
<1> QED
  BY <1>1, <1>2, PTL DEF recorderSpec

\* A recorder that ended has in its file every event its queue accepted, in order,
\* whichever thread put it there and however the window's calls, its dialogs and the
\* timer's calls in them, told it to stop.
THEOREM FilesAreComplete == recorderSpec => []FileComplete
<1>1. RecorderInv => FileComplete
  <2> SUFFICES ASSUME RecorderInv, recorder.phase = "ended" PROVE recorder.file = accepted
    BY DEF FileComplete
  <2>1. /\ recorder.file \in Seq(Int) /\ recorder.queue = <<>>
        /\ recorder.file \o recorder.queue = accepted
    BY DEF RecorderInv, RecorderTypes, Recorders, FileThenQueue
  <2> QED
    BY <2>1, NothingAfter
<1> QED
  BY <1>1, NothingAcceptedIsLost, PTL

-----------------------------------------------------------------------------
(* The timeline *)

TrackWindows == [start : Int, end : Int]

\* The values are numbers, and the recording's length is not negative.
TimelineTypes == duration \in Nat /\ cursor \in Int /\ view \in TrackWindows

TrackInv == TimelineTypes /\ WindowInRecording

\* A window that shows at least the least span, wherever it lies.
Wide(v, d) == v \in TrackWindows /\ v.end - v.start >= AtMost(MinSpan, d)

\* The window lies in a recording of length d, where there is one.
Inside(v, d) ==
    IF d = 0 THEN v = [start |-> 0, end |-> 0]
    ELSE 0 <= v.start /\ v.end <= d /\ v.end - v.start >= AtMost(MinSpan, d)

-----------------------------------------------------------------------------
(* The widget's arithmetic *)

LEMMA WithinIsBetween ==
    ASSUME NEW x \in Int, NEW low \in Int, NEW high \in Int, low <= high
    PROVE  /\ Within(x, low, high) \in Int
           /\ low <= Within(x, low, high) /\ Within(x, low, high) <= high
           /\ low <= x /\ x <= high => Within(x, low, high) = x
  BY DEF Within, AtLeast, AtMost

\* Clamped, a window lies in the recording and keeps its span, or shows all of it.
LEMMA ClampKeepsSpan ==
    ASSUME NEW v \in TrackWindows, NEW d \in Nat \ {0}
    PROVE  LET c == ClampWindowToDuration(v, d)
           IN  /\ c \in TrackWindows /\ 0 <= c.start /\ c.end <= d
               /\ \/ c.end - c.start = d
                  \/ c.end - c.start = v.end - v.start
<1> DEFINE c == ClampWindowToDuration(v, d)
           right == IF v.start < 0 THEN [start |-> 0, end |-> v.end - v.start] ELSE v
           left == IF right.end > d THEN [start |-> right.start - (right.end - d), end |-> d] ELSE right
<1>1. v.start \in Int /\ v.end \in Int /\ d \in Int /\ d > 0
  BY DEF TrackWindows
<1>2. CASE v.end <= v.start \/ Span(v) >= d
  <2>1. c = [start |-> 0, end |-> d]
    BY <1>2 DEF ClampWindowToDuration
  <2> QED
    BY <1>1, <2>1 DEF TrackWindows
<1>3. CASE ~(v.end <= v.start \/ Span(v) >= d)
  <2>1. v.end - v.start >= 1 /\ v.end - v.start < d
    BY <1>1, <1>3 DEF Span, AtLeast
  <2>2. /\ right.start \in Int /\ right.end \in Int /\ right.start >= 0
        /\ right.end - right.start = v.end - v.start
    BY <1>1
  <2>3. /\ left.start \in Int /\ left.end \in Int
        /\ left.end - left.start = v.end - v.start
        /\ left.start >= 0 /\ left.end <= d
    BY <1>1, <2>1, <2>2
  <2>4. left.start <= d /\ left.end >= 0
    BY <1>1, <2>1, <2>3
  <2> HIDE DEF left
  <2>5. Within(left.start, 0, d) = left.start /\ Within(left.end, 0, d) = left.end
    BY <1>1, <2>3, <2>4, WithinIsBetween DEF Within, AtLeast, AtMost
  <2>6. c = [start |-> Within(left.start, 0, d), end |-> Within(left.end, 0, d)]
    BY <1>1, <1>3 DEF ClampWindowToDuration, left
  <2>7. c.start = left.start /\ c.end = left.end /\ c \in TrackWindows
    BY <2>3, <2>5, <2>6 DEF TrackWindows
  <2> QED
    BY <2>3, <2>7
<1> QED
  BY <1>2, <1>3

\* So a wide window is inside when it is set.
LEMMA SetIsInside ==
    ASSUME NEW v \in TrackWindows, NEW d \in Nat, d # 0 => Wide(v, d), MinSpan \in Nat
    PROVE  ClampWindowToDuration(v, d) \in TrackWindows /\ Inside(ClampWindowToDuration(v, d), d)
<1>1. CASE d = 0
  <2>1. ClampWindowToDuration(v, d) = [start |-> 0, end |-> 0]
    BY <1>1 DEF ClampWindowToDuration
  <2> QED
    BY <1>1, <2>1 DEF Inside, TrackWindows
<1>2. CASE d # 0
  <2>1. v.end - v.start >= AtMost(MinSpan, d) /\ d >= AtMost(MinSpan, d)
    BY <1>2 DEF Wide, AtMost
  <2> QED
    BY <1>2, <2>1, ClampKeepsSpan DEF Inside
<1> QED
  BY <1>1, <1>2

LEMMA SpanIsWidth ==
    ASSUME NEW v \in TrackWindows, NEW d \in Nat \ {0}, Wide(v, d), MinSpan \in Nat \ {0}
    PROVE  Span(v) = v.end - v.start /\ Span(v) \in Nat \ {0}
<1>1. v.start \in Int /\ v.end \in Int /\ v.end - v.start >= 1
  BY DEF TrackWindows, Wide, AtMost
<1> QED
  BY <1>1 DEF Span, AtLeast

\* Moved after the cursor, a window keeps its span.
LEMMA FollowedIsWide ==
    ASSUME NEW v \in TrackWindows, NEW d \in Nat \ {0}, NEW c \in Int, Wide(v, d),
           MinSpan \in Nat \ {0}, v.end - v.start <= d
    PROVE  Followed(v, c, d) \in TrackWindows /\ Wide(Followed(v, c, d), d)
<1> DEFINE lead == (85 * Span(v)) \div 100
<1>1. Span(v) = v.end - v.start /\ Span(v) \in Nat \ {0}
  BY SpanIsWidth
<1>2. lead \in Int
  BY <1>1
<1>3. v.start \in Int /\ v.end \in Int
  BY DEF TrackWindows
<1>4. AtLeast(d - Span(v), 0) = d - Span(v)
  BY <1>1 DEF AtLeast
<1> HIDE DEF lead
<1>5. \/ Followed(v, c, d) = v
      \/ Followed(v, c, d) = [start |-> d - Span(v), end |-> d]
      \/ Followed(v, c, d) = [start |-> c - lead, end |-> c - lead + Span(v)]
  BY <1>4 DEF Followed, lead
<1>6. /\ Followed(v, c, d) \in TrackWindows
      /\ Followed(v, c, d).end - Followed(v, c, d).start = v.end - v.start
  BY <1>1, <1>2, <1>3, <1>5 DEF TrackWindows
<1> QED
  BY <1>6 DEF Wide

LEMMA PositionIsTime ==
    ASSUME NEW part \in Nat, NEW s \in Nat, Parts \in Nat \ {0}
    PROVE  (part * s) \div Parts \in Int
<1>1. part * s \in Int
  OBVIOUS
<1> QED
  BY <1>1

-----------------------------------------------------------------------------
(* The invariant *)

\* What a step may use of a window with a recording.
LEMMA OpenWindow ==
    ASSUME TrackInv, duration > 0, MinSpan \in Nat \ {0}
    PROVE  /\ duration \in Nat \ {0} /\ cursor \in Int /\ view \in TrackWindows
           /\ Wide(view, duration) /\ view.end - view.start <= duration
           /\ view.start \in Int /\ view.end \in Int
           /\ Span(view) = view.end - view.start /\ Span(view) \in Nat \ {0}
<1>1. /\ duration \in Nat \ {0} /\ cursor \in Int /\ view \in TrackWindows
      /\ 0 <= view.start /\ view.end <= duration
      /\ view.end - view.start >= AtMost(MinSpan, duration)
  BY DEF TrackInv, TimelineTypes, WindowInRecording
<1>2. view.start \in Int /\ view.end \in Int
  BY <1>1 DEF TrackWindows
<1>3. Wide(view, duration) /\ view.end - view.start <= duration
  BY <1>1, <1>2 DEF Wide
<1> QED
  BY <1>1, <1>2, <1>3, SpanIsWidth

\* A step that sets a wide window.
LEMMA SetKeepsInv ==
    ASSUME NEW v \in TrackWindows, NEW d \in Nat, d # 0 => Wide(v, d), MinSpan \in Nat,
           SetWindowUs(v, d), duration' = d, cursor' \in Int
    PROVE  TrackInv'
<1>1. view' \in TrackWindows /\ Inside(view', d)
  BY SetIsInside DEF SetWindowUs
<1> QED
  BY <1>1 DEF TrackInv, TimelineTypes, WindowInRecording, Inside

LEMMA TrackInitInv == trackInit => TrackInv
  BY DEF trackInit, TrackInv, TimelineTypes, TrackWindows, WindowInRecording

LEMMA TrackNextInv == TrackInv /\ [trackNext]_trackVars => TrackInv'
<1> SUFFICES ASSUME TrackInv, [trackNext]_trackVars PROVE TrackInv'
  OBVIOUS
<1>1. Durations \subseteq Nat /\ MinSpan \in Nat \ {0} /\ Parts \in Nat \ {0}
  BY TimelineAssumption
<1>2. duration \in Nat /\ cursor \in Int /\ view \in TrackWindows
  BY DEF TrackInv, TimelineTypes
<1>3. ASSUME OpenRecording PROVE TrackInv'
  <2>1. PICK d \in Durations : SetDurationUs(d)
    BY <1>3 DEF OpenRecording
  <2>2. view = [start |-> 0, end |-> 0] /\ cursor' = cursor
    BY <1>3 DEF OpenRecording, TrackInv, WindowInRecording
  <2>3. duration' = d /\ SetWindowUs([start |-> 0, end |-> d], d)
    BY <2>1, <2>2 DEF SetDurationUs
  <2>4. d \in Nat /\ [start |-> 0, end |-> d] \in TrackWindows /\ Wide([start |-> 0, end |-> d], d)
    BY <1>1, <2>1 DEF TrackWindows, Wide, AtMost
  <2> QED
    BY <1>1, <1>2, <2>2, <2>3, <2>4, SetKeepsInv
<1>4. ASSUME CloseRecording PROVE TrackInv'
  <2>1. duration' = 0 /\ cursor' = 0
        /\ SetWindowUs(IF view.end <= view.start THEN [start |-> 0, end |-> 0] ELSE view, 0)
    BY <1>4 DEF CloseRecording, SetDurationUs
  <2>2. (IF view.end <= view.start THEN [start |-> 0, end |-> 0] ELSE view) \in TrackWindows
    BY <1>2 DEF TrackWindows
  <2> QED
    BY <1>1, <2>1, <2>2, SetKeepsInv
<1>5. ASSUME UpdatePlaybackUiState PROVE TrackInv'
  <2>1. /\ duration > 0 /\ duration' = duration /\ cursor' \in cursor .. duration
        /\ SetWindowUs(Followed(view, cursor', duration), duration)
    BY <1>5 DEF UpdatePlaybackUiState
  <2>2. cursor' \in Int
    BY <1>2, <2>1
  <2>3. Followed(view, cursor', duration) \in TrackWindows /\ Wide(Followed(view, cursor', duration), duration)
    BY <1>1, <2>1, <2>2, OpenWindow, FollowedIsWide
  <2> QED
    BY <1>1, <1>2, <2>1, <2>2, <2>3, SetKeepsInv
<1>6. ASSUME NEW part \in 0 .. Parts, ScrubTo(part) PROVE TrackInv'
  <2>1. /\ duration > 0 /\ duration' = duration
        /\ cursor' = Within(PositionToTimeUs(part), 0, duration)
        /\ SetWindowUs(Followed(view, cursor', duration), duration)
    BY <1>6 DEF ScrubTo
  <2>2. PositionToTimeUs(part) \in Int
    BY <1>1, <2>1, OpenWindow, PositionIsTime DEF PositionToTimeUs
  <2>3. cursor' \in Int
    BY <1>2, <2>1, <2>2, WithinIsBetween
  <2>4. Followed(view, cursor', duration) \in TrackWindows /\ Wide(Followed(view, cursor', duration), duration)
    BY <1>1, <2>1, <2>3, OpenWindow, FollowedIsWide
  <2> QED
    BY <1>1, <1>2, <2>1, <2>3, <2>4, SetKeepsInv
<1>7. ASSUME NEW part \in 0 .. Parts, NEW back \in BOOLEAN, PanBy(part, back) PROVE TrackInv'
  <2> DEFINE distance == (part * Span(view)) \div Parts
             delta == IF back THEN -distance ELSE distance
             moved == [start |-> view.start + delta, end |-> view.end + delta]
  <2>1. duration > 0 /\ duration' = duration /\ cursor' = cursor /\ SetWindowUs(moved, duration)
    BY <1>7 DEF PanBy
  <2>2. distance \in Int
    BY <1>1, <2>1, OpenWindow, PositionIsTime
  <2> HIDE DEF distance
  <2>3. delta \in Int
    BY <2>2
  <2> HIDE DEF delta
  <2>4. /\ moved \in TrackWindows /\ moved.end - moved.start = view.end - view.start
    BY <1>1, <2>1, <2>3, OpenWindow DEF TrackWindows
  <2>5. Wide(moved, duration)
    BY <1>1, <2>1, <2>4, OpenWindow DEF Wide
  <2> HIDE DEF moved
  <2> QED
    BY <1>1, <1>2, <2>1, <2>4, <2>5, SetKeepsInv
<1>8. ASSUME NEW part \in 0 .. Parts, NEW inwards \in BOOLEAN, ZoomAt(part, inwards) PROVE TrackInv'
  <2> DEFINE wantedSpan == IF inwards THEN (Span(view) * 4) \div 5 ELSE (Span(view) * 5) \div 4
             span == Within(wantedSpan, MinSpan, AtLeast(MinSpan, duration))
             start == PositionToTimeUs(part) - span \div 2
             zoomed == [start |-> start, end |-> start + span]
  <2>1. duration > 0 /\ duration' = duration /\ cursor' = cursor /\ SetWindowUs(zoomed, duration)
    BY <1>8 DEF ZoomAt
  <2>2. wantedSpan \in Int
    BY <1>1, <2>1, OpenWindow
  <2> HIDE DEF wantedSpan
  <2>3. AtLeast(MinSpan, duration) \in Int /\ MinSpan <= AtLeast(MinSpan, duration)
    BY <1>1, <1>2 DEF AtLeast
  <2>4. span \in Int /\ span >= MinSpan
    BY <1>1, <2>2, <2>3, WithinIsBetween DEF Within, AtLeast, AtMost
  <2> HIDE DEF span
  <2>5. PositionToTimeUs(part) \in Int
    BY <1>1, <2>1, OpenWindow, PositionIsTime DEF PositionToTimeUs
  <2>6. start \in Int
    BY <2>4, <2>5
  <2> HIDE DEF start
  <2>7. zoomed \in TrackWindows /\ zoomed.end - zoomed.start = span
    BY <2>4, <2>6 DEF TrackWindows
  <2>8. Wide(zoomed, duration)
    BY <1>1, <1>2, <2>4, <2>7 DEF Wide, AtMost
  <2> HIDE DEF zoomed
  <2> QED
    BY <1>1, <1>2, <2>1, <2>7, <2>8, SetKeepsInv
<1>9. ASSUME UNCHANGED trackVars PROVE TrackInv'
  BY <1>9 DEF trackVars, TrackInv, TimelineTypes, WindowInRecording
<1> QED
  BY <1>3, <1>4, <1>5, <1>6, <1>7, <1>8, <1>9 DEF trackNext

\* PlaybackTimelineWidget's SetWindowUs, SetDurationUs, SetCursorUs, PanBy, ZoomAt and
\* ClampWindowToDuration: zoomed, panned, moved after the cursor and given to another
\* recording, in whatever order, the window lies in the recording and shows at least
\* the least span, or all of a shorter recording.
THEOREM WindowStaysInRecording == trackSpec => []WindowInRecording
<1>1. trackInit => TrackInv
  BY TrackInitInv
<1>2. TrackInv /\ [trackNext]_trackVars => TrackInv'
  BY TrackNextInv
<1>3. TrackInv => WindowInRecording
  BY DEF TrackInv
<1> QED
  BY <1>1, <1>2, <1>3, PTL DEF trackSpec

-----------------------------------------------------------------------------
(* The cameras.  What is offered is what the aggregator has merged, and that is what  *)
(* the two providers have; a URL that is wanted is the one the dock connects to, and     *)
(* without one nothing is left to retry but what is down.                                *)

UrlsOrNone == Urls \cup {NoUrl}
Offered == {Publisher, Static} \X CameraNames
PartialMaps(D, V) == UNION {[S -> V] : S \in SUBSET D}

Docks == [choices : PartialMaps(Offered, UrlsOrNone), selected : Offered \cup {None}, text : UrlsOrNone,
          lastConnectedUrl : UrlsOrNone, userDisconnected : BOOLEAN, timer : BOOLEAN]

Merges == PartialMaps(Offered, [url : UrlsOrNone, owner : {Publisher, Static}])

CameraTypes ==
    /\ published \in PartialMaps(CameraNames, UrlsOrNone) /\ saved \in PartialMaps(CameraNames, UrlsOrNone)
    /\ merged \in Merges /\ dock \in Docks
    /\ stream \in {"disconnected", "connecting", "streaming"}
    /\ asking \in UrlsOrNone /\ wanted \in UrlsOrNone

\* The cameras that publishers and settings have, and the URL of each.
HasCamera(publishers, settings, n) ==
    \/ n[1] = Publisher /\ n[2] \in DOMAIN publishers
    \/ n[1] = Static /\ n[2] \in DOMAIN settings
UrlIn(publishers, settings, n) == IF n[1] = Publisher THEN publishers[n[2]] ELSE settings[n[2]]

\* The aggregator knows them, each with its provider, and the dock offers them.
Follows(known, offers, publishers, settings) ==
    \A n \in Offered :
        /\ n \in DOMAIN known <=> HasCamera(publishers, settings, n)
        /\ n \in DOMAIN offers <=> HasCamera(publishers, settings, n)
        /\ HasCamera(publishers, settings, n) =>
              /\ known[n].owner = n[1] /\ known[n].url = UrlIn(publishers, settings, n)
              /\ offers[n] = UrlIn(publishers, settings, n)

\* What is wanted is what the dock connects to, and a stream that is up without being
\* wanted is not retried once it ends.
Retries(d, down, want) ==
    /\ want # NoUrl => ~d.userDisconnected /\ d.lastConnectedUrl = want
    /\ want = NoUrl /\ ~down => d.lastConnectedUrl = NoUrl
    /\ d.timer <=> want # NoUrl /\ down

CameraInv ==
    /\ CameraTypes
    /\ Follows(merged, dock.choices, published, saved)
    /\ Retries(dock, Down, wanted)

-----------------------------------------------------------------------------
(* Maps *)

LEMMA MapIs ==
    ASSUME NEW D, NEW V, NEW f \in PartialMaps(D, V)
    PROVE  DOMAIN f \subseteq D /\ f \in [DOMAIN f -> V]
  BY DEF PartialMaps

LEMMA MapIsMade ==
    ASSUME NEW D, NEW V, NEW S \in SUBSET D, NEW f \in [S -> V]
    PROVE  f \in PartialMaps(D, V)
  BY DEF PartialMaps

LEMMA EmptyMap ==
    ASSUME NEW D, NEW V
    PROVE  <<>> \in PartialMaps(D, V) /\ \A x : x \notin DOMAIN <<>>
  <1>1. <<>> \in [{} -> V] /\ \A x : x \notin DOMAIN <<>>
    OBVIOUS
  <1> QED BY <1>1, MapIsMade

LEMMA MapUpdated ==
    ASSUME NEW D, NEW V, NEW f \in PartialMaps(D, V), NEW n \in D, NEW v \in V
    PROVE  /\ Updated(f, n, v) \in PartialMaps(D, V)
           /\ DOMAIN Updated(f, n, v) = DOMAIN f \cup {n}
  <1>1. DOMAIN f \subseteq D /\ f \in [DOMAIN f -> V]
    BY MapIs
  <1>2. DOMAIN f \cup {n} \in SUBSET D /\ Updated(f, n, v) \in [DOMAIN f \cup {n} -> V]
    BY <1>1 DEF Updated
  <1>3. Updated(f, n, v) \in PartialMaps(D, V)
    BY <1>2, MapIsMade
  <1> QED BY <1>3 DEF Updated

LEMMA MapWithout ==
    ASSUME NEW D, NEW V, NEW f \in PartialMaps(D, V), NEW S
    PROVE  /\ Without(f, S) \in PartialMaps(D, V)
           /\ DOMAIN Without(f, S) = DOMAIN f \ S
  <1>1. DOMAIN f \subseteq D /\ f \in [DOMAIN f -> V]
    BY MapIs
  <1>2. DOMAIN f \ S \in SUBSET D /\ Without(f, S) \in [DOMAIN f \ S -> V]
    BY <1>1 DEF Without, Restrict
  <1>3. Without(f, S) \in PartialMaps(D, V)
    BY <1>2, MapIsMade
  <1> QED BY <1>3 DEF Without, Restrict

-----------------------------------------------------------------------------
(* The dock's slots *)

Alike(e, d) ==
    e.timer = d.timer /\ e.userDisconnected = d.userDisconnected /\ e.lastConnectedUrl = d.lastConnectedUrl

LEMMA UrlIsOne ==
    ASSUME NEW D, NEW f \in PartialMaps(D, UrlsOrNone), NEW n
    PROVE  UrlOf(f, n) \in UrlsOrNone /\ (UrlOf(f, n) # NoUrl => f[n] \in UrlsOrNone)
  BY MapIs DEF UrlOf, UrlsOrNone

LEMMA SelectionIsDock ==
    ASSUME NEW d \in Docks, NEW n \in Offered \cup {None}, NEW e, e = Selected(d, n)
    PROVE  e \in Docks /\ e.choices = d.choices /\ Alike(e, d)
  <1> DEFINE text == IF UrlOf(d.choices, n) = NoUrl THEN d.text ELSE d.choices[n]
  <1>1. d.choices \in PartialMaps(Offered, UrlsOrNone) /\ d.text \in UrlsOrNone
    BY DEF Docks
  <1>2. text \in UrlsOrNone
    BY <1>1, UrlIsOne
  <1>3. e = [d EXCEPT !.selected = n, !.text = text]
    BY DEF Selected
  <1> HIDE DEF text
  <1> QED BY <1>2, <1>3 DEF Docks, Alike

\* A camera discovered: it is offered, and a stream may be retried again.
LEMMA CameraAdded ==
    ASSUME NEW d \in Docks, NEW n \in Offered, NEW url \in UrlsOrNone,
           NEW e, e \in AddDiscoveredCamera(d, n, url)
    PROVE  /\ e \in Docks /\ e.choices = Updated(d.choices, n, url)
           /\ e.timer = d.timer /\ e.lastConnectedUrl = d.lastConnectedUrl /\ ~e.userDisconnected
  <1> DEFINE choices == Updated(d.choices, n, url)
             added == [d EXCEPT !.choices = choices, !.userDisconnected = FALSE]
  <1>1. choices \in PartialMaps(Offered, UrlsOrNone)
    BY MapUpdated DEF Docks
  <1>2. e = added \/ e = Selected(added, n)
    BY DEF AddDiscoveredCamera
  <1> HIDE DEF choices
  <1>3. /\ added \in Docks /\ added.choices = choices /\ added.timer = d.timer
        /\ added.lastConnectedUrl = d.lastConnectedUrl /\ ~added.userDisconnected
    BY <1>1 DEF Docks
  <1> HIDE DEF added
  <1>4. CASE e = added
    BY <1>3, <1>4 DEF choices
  <1>5. CASE e = Selected(added, n)
    <2>1. e \in Docks /\ e.choices = added.choices /\ Alike(e, added)
      BY <1>3, <1>5, SelectionIsDock
    <2> QED BY <1>3, <2>1 DEF Alike, choices
  <1> QED BY <1>2, <1>4, <1>5

\* A camera removed, whatever the combo box selects in its place.
LEMMA CameraRemoved ==
    ASSUME NEW d \in Docks, NEW n \in Offered, NEW e, e \in RemoveDiscoveredCamera(d, n)
    PROVE  e \in Docks /\ e.choices = Without(d.choices, {n}) /\ Alike(e, d)
  <1> DEFINE choices == Without(d.choices, {n})
             removed == [d EXCEPT !.choices = choices]
  <1>1. choices \in PartialMaps(Offered, UrlsOrNone) /\ DOMAIN choices \subseteq Offered
    <2>1. choices \in PartialMaps(Offered, UrlsOrNone)
      BY MapWithout DEF Docks
    <2> HIDE DEF choices
    <2> QED BY <2>1, MapIs
  <1>2. \/ e = removed \/ e = [removed EXCEPT !.selected = None]
        \/ e = Selected(removed, d.selected)
        \/ \E other \in DOMAIN removed.choices : e = Selected(removed, other)
    BY DEF RemoveDiscoveredCamera
  <1> HIDE DEF choices
  <1>3. removed \in Docks /\ removed.choices = choices /\ Alike(removed, d) /\ d.selected \in Offered \cup {None}
    BY <1>1 DEF Docks, Alike
  <1> HIDE DEF removed
  <1>4. CASE e = removed
    BY <1>3, <1>4 DEF choices
  <1>5. CASE e = [removed EXCEPT !.selected = None]
    BY <1>3, <1>5 DEF choices, Docks, Alike
  <1>6. ASSUME NEW other \in Offered \cup {None}, e = Selected(removed, other)
        PROVE  e \in Docks /\ e.choices = choices /\ Alike(e, d)
    <2>1. e \in Docks /\ e.choices = removed.choices /\ Alike(e, removed)
      BY <1>3, <1>6, SelectionIsDock
    <2> QED BY <1>3, <2>1 DEF Alike
  <1>7. CASE e = Selected(removed, d.selected)
    BY <1>3, <1>6, <1>7 DEF choices
  <1>8. ASSUME NEW other \in DOMAIN removed.choices, e = Selected(removed, other)
        PROVE  e \in Docks /\ e.choices = choices /\ Alike(e, d)
    <2>1. other \in Offered \cup {None}
      BY <1>1, <1>3, <1>8
    <2> QED BY <1>6, <1>8, <2>1
  <1> QED BY <1>2, <1>4, <1>5, <1>7, <1>8 DEF choices

\* A provider's cameras removed one after the other.
Removal(n, docks) == UNION {RemoveDiscoveredCamera(d, n) : d \in docks}

\* Some of them are gone, and nothing else is changed.
Rid(d, e, s) == e \in Docks /\ e.choices = Without(d.choices, s) /\ Alike(e, d)

LEMMA OneMoreGone ==
    ASSUME NEW d \in Docks, NEW n \in Offered, NEW s, NEW r, n \in s, r = s \ {n},
           NEW c, Rid(d, c, r), NEW e \in RemoveDiscoveredCamera(c, n)
    PROVE  Rid(d, e, s)
  <1>1. c \in Docks /\ c.choices = Without(d.choices, r) /\ Alike(c, d)
    BY DEF Rid
  <1>2. e \in Docks /\ e.choices = Without(c.choices, {n}) /\ Alike(e, c)
    BY <1>1, CameraRemoved
  <1>3. Without(Without(d.choices, r), {n}) = Without(d.choices, s)
    <2> DEFINE f == d.choices
    <2>1. (DOMAIN f \ r) \ {n} = DOMAIN f \ s
      OBVIOUS
    <2> HIDE DEF f
    <2>2. Without(Without(f, r), {n}) = Without(f, s)
      BY <2>1 DEF Without, Restrict
    <2> QED BY <2>2 DEF f
  <1>4. Alike(e, d)
    BY <1>1, <1>2 DEF Alike
  <1> QED BY <1>1, <1>2, <1>3, <1>4 DEF Rid

LEMMA CamerasRemoved ==
    ASSUME NEW d \in Docks, NEW S \in SUBSET Offered, IsFiniteSet(S),
           NEW R, R = FoldSet(LAMBDA n, docks : UNION {RemoveDiscoveredCamera(e, n) : e \in docks}, {d}, S)
    PROVE  \A e \in R : Rid(d, e, S)
  <1> DEFINE Good == SUBSET Docks
             base == {d}
             g == [p \in S \X Good |-> Removal(p[1], p[2])]
             Body(h) == [s \in SUBSET S |-> IF s = {} THEN base ELSE Removal(Pick(s), h[s \ {Pick(s)}])]
             iter == CHOOSE h : h = Body(h)
  <1>1. base \in Good
    OBVIOUS
  <1>2. ASSUME NEW n \in S, NEW docks \in Good PROVE Removal(n, docks) \in Good
    <2> SUFFICES ASSUME NEW e \in Removal(n, docks) PROVE e \in Docks
      OBVIOUS
    <2>1. PICK c \in docks : e \in RemoveDiscoveredCamera(c, n)
      BY DEF Removal
    <2>2. c \in Docks /\ n \in Offered
      BY <1>2
    <2> QED BY <2>1, <2>2, CameraRemoved
  <1>3. g \in [S \X Good -> Good]
    <2> HIDE DEF Good
    <2> QED BY <1>2
  <1>4. \A n \in S, docks \in Good : g[<<n, docks>>] = Removal(n, docks)
    BY <1>2
  <1> HIDE DEF g, Good
  <1>5. PICK f : FoldOn(f, SUBSET S, base, g) /\ \A s \in SUBSET S : f[s] \in Good
    <2> HIDE DEF base
    <2> QED BY <1>1, <1>3, FoldTotal
  <1>6. ASSUME NEW s \in SUBSET S, s # {} PROVE Pick(s) \in s /\ Pick(s) \in S /\ s \ {Pick(s)} \in SUBSET S
    BY <1>6, OneLess
  <1>7. f = Body(f)
    <2>1. \A s \in SUBSET S : (IF s = {} THEN base ELSE g[<<Pick(s), f[s \ {Pick(s)}]>>])
                              = IF s = {} THEN base ELSE Removal(Pick(s), f[s \ {Pick(s)}])
      BY <1>4, <1>5, <1>6
    <2> QED BY <1>5, <2>1 DEF FoldOn
  <1>8. iter = Body(iter)
    BY <1>7
  <1>9. R = iter[S]
    BY DEF FoldSet, MapThenFoldSet, Pick, Removal
  <1> HIDE DEF iter
  <1>10. \A s \in SUBSET S : iter[s] = IF s = {} THEN base ELSE Removal(Pick(s), iter[s \ {Pick(s)}])
    BY <1>8
  <1> DEFINE P == {s \in SUBSET S : \A e \in iter[s] : Rid(d, e, s)}
  <1>11. {} \in P
    <2>1. iter[{}] = {d}
      BY <1>10
    <2>2. Without(d.choices, {}) = d.choices
      <3>1. d.choices \in PartialMaps(Offered, UrlsOrNone)
        BY DEF Docks
      <3> DEFINE f1 == d.choices
      <3>2. f1 \in [DOMAIN f1 -> UrlsOrNone]
        BY <3>1, MapIs
      <3> HIDE DEF f1
      <3>3. Without(f1, {}) = f1
        BY <3>2 DEF Without, Restrict
      <3> QED BY <3>3 DEF f1
    <2>3. Rid(d, d, {})
      BY <2>2 DEF Rid, Alike
    <2> QED BY <2>1, <2>3
  <1>12. ASSUME NEW s \in SUBSET S, s # {}, s \ {Pick(s)} \in P PROVE s \in P
    <2> DEFINE n == Pick(s)
               r == s \ {n}
    <2>1. n \in s /\ n \in Offered /\ iter[s] = Removal(n, iter[r]) /\ \A c \in iter[r] : Rid(d, c, r)
      BY <1>6, <1>10, <1>12
    <2>2. r = s \ {n}
      OBVIOUS
    <2> HIDE DEF n, r
    <2>3. ASSUME NEW e \in iter[s] PROVE Rid(d, e, s)
      <3>1. PICK c \in iter[r] : e \in RemoveDiscoveredCamera(c, n)
        BY <2>1, <2>3 DEF Removal
      <3>2. Rid(d, c, r)
        BY <2>1
      <3>3. n \in s /\ n \in Offered
        BY <2>1
      <3> QED BY <2>2, <3>1, <3>2, <3>3, OneMoreGone
    <2> QED BY <2>3
  <1> HIDE DEF P
  <1>13. S \in P
    BY <1>11, <1>12, SubsetInduction
  <1> QED BY <1>9, <1>13 DEF P

-----------------------------------------------------------------------------
(* What the aggregator knows *)

LEMMA Tags == Publisher # Static
  BY DEF Publisher, Static

LEMMA Pairs ==
    ASSUME NEW n \in Offered
    PROVE  n[1] \in {Publisher, Static} /\ n[2] \in CameraNames /\ n = <<n[1], n[2]>>
  BY DEF Offered

\* A provider's camera with its new URL, known and offered.
LEMMA FollowsPublished ==
    ASSUME NEW known \in Merges, NEW offers \in PartialMaps(Offered, UrlsOrNone),
           NEW publishers \in PartialMaps(CameraNames, UrlsOrNone), NEW settings,
           Follows(known, offers, publishers, settings),
           NEW name \in CameraNames, NEW url \in UrlsOrNone
    PROVE  /\ Updated(known, <<Publisher, name>>, [url |-> url, owner |-> Publisher]) \in Merges
           /\ Follows(Updated(known, <<Publisher, name>>, [url |-> url, owner |-> Publisher]),
                      Updated(offers, <<Publisher, name>>, url), Updated(publishers, name, url), settings)
  <1> DEFINE k == <<Publisher, name>>
             both == [url |-> url, owner |-> Publisher]
             known2 == Updated(known, k, both)
             offers2 == Updated(offers, k, url)
             publishers2 == Updated(publishers, name, url)
  <1>1. k \in Offered /\ k[1] = Publisher /\ k[2] = name
    BY DEF Offered
  <1>2. both \in [url : UrlsOrNone, owner : {Publisher, Static}] /\ both.url = url /\ both.owner = Publisher
    OBVIOUS
  <1> HIDE DEF both
  <1>3. /\ known2 \in Merges /\ DOMAIN known2 = DOMAIN known \cup {k}
        /\ \A m \in DOMAIN known \cup {k} : known2[m] = IF m = k THEN both ELSE known[m]
    <2> DEFINE V == [url : UrlsOrNone, owner : {Publisher, Static}]
    <2>1. k \in Offered /\ both \in V 
      BY <1>1, <1>2
    <2>2. known \in PartialMaps(Offered, V) /\ Merges = PartialMaps(Offered, V)
      BY DEF Merges
    <2> HIDE DEF V, k
    <2>3. known2 \in PartialMaps(Offered, V) /\ DOMAIN known2 = DOMAIN known \cup {k}
      BY <2>1, <2>2, MapUpdated
    <2> QED BY <2>2, <2>3 DEF Updated
  <1>4. /\ DOMAIN offers2 = DOMAIN offers \cup {k}
        /\ \A m \in DOMAIN offers \cup {k} : offers2[m] = IF m = k THEN url ELSE offers[m]
    BY DEF Updated
  <1>5. /\ DOMAIN publishers2 = DOMAIN publishers \cup {name}
        /\ \A m \in DOMAIN publishers \cup {name} : publishers2[m] = IF m = name THEN url ELSE publishers[m]
    BY DEF Updated
  <1> HIDE DEF known2, offers2, publishers2
  <1>6. \A n \in Offered : n = k <=> n[1] = Publisher /\ n[2] = name
    BY <1>1, Pairs
  <1> HIDE DEF k
  <1>7. ASSUME NEW n \in Offered
        PROVE  /\ HasCamera(publishers2, settings, n) <=> n = k \/ HasCamera(publishers, settings, n)
               /\ n = k => UrlIn(publishers2, settings, n) = url
               /\ n # k /\ HasCamera(publishers, settings, n) => UrlIn(publishers2, settings, n) = UrlIn(publishers, settings, n)
    <2> DEFINE tag == n[1]
               x == n[2]
    <2>1. (n = k <=> tag = Publisher /\ x = name) /\ tag \in {Publisher, Static} /\ Publisher # Static
      BY <1>6, Pairs, Tags
    <2>2. (x \in DOMAIN publishers2 <=> x = name \/ x \in DOMAIN publishers) /\ publishers2[name] = url
      BY <1>5
    <2>3. x # name /\ x \in DOMAIN publishers => publishers2[x] = publishers[x]
      BY <1>5
    <2>4. /\ HasCamera(publishers2, settings, n) <=> (tag = Publisher /\ x \in DOMAIN publishers2) \/ (tag = Static /\ x \in DOMAIN settings)
          /\ HasCamera(publishers, settings, n) <=> (tag = Publisher /\ x \in DOMAIN publishers) \/ (tag = Static /\ x \in DOMAIN settings)
      BY DEF HasCamera
    <2>5. /\ (tag = Publisher => UrlIn(publishers2, settings, n) = publishers2[x]) /\ (tag # Publisher => UrlIn(publishers2, settings, n) = settings[x])
          /\ (tag = Publisher => UrlIn(publishers, settings, n) = publishers[x]) /\ (tag # Publisher => UrlIn(publishers, settings, n) = settings[x])
      BY DEF UrlIn
    <2> HIDE DEF tag, x
    <2> QED BY <2>1, <2>2, <2>3, <2>4, <2>5
  <1>8. ASSUME NEW n \in Offered, n = k
        PROVE  /\ n \in DOMAIN known2 /\ n \in DOMAIN offers2 /\ HasCamera(publishers2, settings, n)
               /\ known2[n].owner = n[1] /\ known2[n].url = UrlIn(publishers2, settings, n)
               /\ offers2[n] = UrlIn(publishers2, settings, n)
    BY <1>1, <1>2, <1>3, <1>4, <1>7, <1>8
  <1>9. ASSUME NEW n \in Offered, n # k
        PROVE  /\ n \in DOMAIN known2 <=> HasCamera(publishers2, settings, n)
               /\ n \in DOMAIN offers2 <=> HasCamera(publishers2, settings, n)
               /\ HasCamera(publishers2, settings, n) =>
                     /\ known2[n].owner = n[1] /\ known2[n].url = UrlIn(publishers2, settings, n)
                     /\ offers2[n] = UrlIn(publishers2, settings, n)
    <2>1. HasCamera(publishers2, settings, n) <=> HasCamera(publishers, settings, n)
      BY <1>7, <1>9
    <2>2. HasCamera(publishers, settings, n) => UrlIn(publishers2, settings, n) = UrlIn(publishers, settings, n)
      BY <1>7, <1>9
    <2>3. /\ n \in DOMAIN known <=> HasCamera(publishers, settings, n)
          /\ n \in DOMAIN offers <=> HasCamera(publishers, settings, n)
          /\ HasCamera(publishers, settings, n) =>
                /\ known[n].owner = n[1] /\ known[n].url = UrlIn(publishers, settings, n)
                /\ offers[n] = UrlIn(publishers, settings, n)
      BY DEF Follows
    <2>4. (n \in DOMAIN known2 <=> n \in DOMAIN known) /\ (n \in DOMAIN offers2 <=> n \in DOMAIN offers)
      BY <1>3, <1>4, <1>9
    <2>5. (n \in DOMAIN known => known2[n] = known[n]) /\ (n \in DOMAIN offers => offers2[n] = offers[n])
      BY <1>3, <1>4, <1>9
    <2> QED BY <2>1, <2>2, <2>3, <2>4, <2>5
  <1> QED BY <1>3, <1>8, <1>9 DEF Follows, known2, offers2, publishers2, k, both

\* The same for a camera of the settings.
LEMMA FollowsSaved ==
    ASSUME NEW known \in Merges, NEW offers \in PartialMaps(Offered, UrlsOrNone),
           NEW publishers, NEW settings \in PartialMaps(CameraNames, UrlsOrNone),
           Follows(known, offers, publishers, settings),
           NEW name \in CameraNames, NEW url \in UrlsOrNone
    PROVE  /\ Updated(known, <<Static, name>>, [url |-> url, owner |-> Static]) \in Merges
           /\ Follows(Updated(known, <<Static, name>>, [url |-> url, owner |-> Static]),
                      Updated(offers, <<Static, name>>, url), publishers, Updated(settings, name, url))
  <1> DEFINE k == <<Static, name>>
             both == [url |-> url, owner |-> Static]
             known2 == Updated(known, k, both)
             offers2 == Updated(offers, k, url)
             settings2 == Updated(settings, name, url)
  <1>1. k \in Offered /\ k[1] = Static /\ k[2] = name
    BY DEF Offered
  <1>2. both \in [url : UrlsOrNone, owner : {Publisher, Static}] /\ both.url = url /\ both.owner = Static
    OBVIOUS
  <1> HIDE DEF both
  <1>3. /\ known2 \in Merges /\ DOMAIN known2 = DOMAIN known \cup {k}
        /\ \A m \in DOMAIN known \cup {k} : known2[m] = IF m = k THEN both ELSE known[m]
    <2> DEFINE V == [url : UrlsOrNone, owner : {Publisher, Static}]
    <2>1. k \in Offered /\ both \in V 
      BY <1>1, <1>2
    <2>2. known \in PartialMaps(Offered, V) /\ Merges = PartialMaps(Offered, V)
      BY DEF Merges
    <2> HIDE DEF V, k
    <2>3. known2 \in PartialMaps(Offered, V) /\ DOMAIN known2 = DOMAIN known \cup {k}
      BY <2>1, <2>2, MapUpdated
    <2> QED BY <2>2, <2>3 DEF Updated
  <1>4. /\ DOMAIN offers2 = DOMAIN offers \cup {k}
        /\ \A m \in DOMAIN offers \cup {k} : offers2[m] = IF m = k THEN url ELSE offers[m]
    BY DEF Updated
  <1>5. /\ DOMAIN settings2 = DOMAIN settings \cup {name}
        /\ \A m \in DOMAIN settings \cup {name} : settings2[m] = IF m = name THEN url ELSE settings[m]
    BY DEF Updated
  <1> HIDE DEF known2, offers2, settings2
  <1>6. \A n \in Offered : n = k <=> n[1] = Static /\ n[2] = name
    BY <1>1, Pairs
  <1> HIDE DEF k
  <1>7. ASSUME NEW n \in Offered
        PROVE  /\ HasCamera(publishers, settings2, n) <=> n = k \/ HasCamera(publishers, settings, n)
               /\ n = k => UrlIn(publishers, settings2, n) = url
               /\ n # k /\ HasCamera(publishers, settings, n) => UrlIn(publishers, settings2, n) = UrlIn(publishers, settings, n)
    <2> DEFINE tag == n[1]
               x == n[2]
    <2>1. (n = k <=> tag = Static /\ x = name) /\ tag \in {Publisher, Static} /\ Publisher # Static
      BY <1>6, Pairs, Tags
    <2>2. (x \in DOMAIN settings2 <=> x = name \/ x \in DOMAIN settings) /\ settings2[name] = url
      BY <1>5
    <2>3. x # name /\ x \in DOMAIN settings => settings2[x] = settings[x]
      BY <1>5
    <2>4. /\ HasCamera(publishers, settings2, n) <=> (tag = Publisher /\ x \in DOMAIN publishers) \/ (tag = Static /\ x \in DOMAIN settings2)
          /\ HasCamera(publishers, settings, n) <=> (tag = Publisher /\ x \in DOMAIN publishers) \/ (tag = Static /\ x \in DOMAIN settings)
      BY DEF HasCamera
    <2>5. /\ (tag = Publisher => UrlIn(publishers, settings2, n) = publishers[x]) /\ (tag # Publisher => UrlIn(publishers, settings2, n) = settings2[x])
          /\ (tag = Publisher => UrlIn(publishers, settings, n) = publishers[x]) /\ (tag # Publisher => UrlIn(publishers, settings, n) = settings[x])
      BY DEF UrlIn
    <2> HIDE DEF tag, x
    <2> QED BY <2>1, <2>2, <2>3, <2>4, <2>5
  <1>8. ASSUME NEW n \in Offered, n = k
        PROVE  /\ n \in DOMAIN known2 /\ n \in DOMAIN offers2 /\ HasCamera(publishers, settings2, n)
               /\ known2[n].owner = n[1] /\ known2[n].url = UrlIn(publishers, settings2, n)
               /\ offers2[n] = UrlIn(publishers, settings2, n)
    BY <1>1, <1>2, <1>3, <1>4, <1>7, <1>8
  <1>9. ASSUME NEW n \in Offered, n # k
        PROVE  /\ n \in DOMAIN known2 <=> HasCamera(publishers, settings2, n)
               /\ n \in DOMAIN offers2 <=> HasCamera(publishers, settings2, n)
               /\ HasCamera(publishers, settings2, n) =>
                     /\ known2[n].owner = n[1] /\ known2[n].url = UrlIn(publishers, settings2, n)
                     /\ offers2[n] = UrlIn(publishers, settings2, n)
    <2>1. HasCamera(publishers, settings2, n) <=> HasCamera(publishers, settings, n)
      BY <1>7, <1>9
    <2>2. HasCamera(publishers, settings, n) => UrlIn(publishers, settings2, n) = UrlIn(publishers, settings, n)
      BY <1>7, <1>9
    <2>3. /\ n \in DOMAIN known <=> HasCamera(publishers, settings, n)
          /\ n \in DOMAIN offers <=> HasCamera(publishers, settings, n)
          /\ HasCamera(publishers, settings, n) =>
                /\ known[n].owner = n[1] /\ known[n].url = UrlIn(publishers, settings, n)
                /\ offers[n] = UrlIn(publishers, settings, n)
      BY DEF Follows
    <2>4. (n \in DOMAIN known2 <=> n \in DOMAIN known) /\ (n \in DOMAIN offers2 <=> n \in DOMAIN offers)
      BY <1>3, <1>4, <1>9
    <2>5. (n \in DOMAIN known => known2[n] = known[n]) /\ (n \in DOMAIN offers => offers2[n] = offers[n])
      BY <1>3, <1>4, <1>9
    <2> QED BY <2>1, <2>2, <2>3, <2>4, <2>5
  <1> QED BY <1>3, <1>8, <1>9 DEF Follows, known2, offers2, settings2, k, both

\* The published cameras forgotten by all three.
LEMMA FollowsForgotten ==
    ASSUME NEW known \in Merges, NEW offers \in PartialMaps(Offered, UrlsOrNone), NEW publishers, NEW settings,
           Follows(known, offers, publishers, settings),
           NEW own, own = {n \in DOMAIN known : known[n].owner = Publisher}
    PROVE  /\ Without(known, own) \in Merges
           /\ Follows(Without(known, own), Without(offers, own), <<>>, settings)
  <1> DEFINE known2 == Without(known, own)
             offers2 == Without(offers, own)
  <1>1. /\ known2 \in Merges /\ DOMAIN known2 = DOMAIN known \ own
        /\ \A m \in DOMAIN known \ own : known2[m] = known[m]
    <2> DEFINE V == [url : UrlsOrNone, owner : {Publisher, Static}]
    <2>1. known \in PartialMaps(Offered, V) /\ Merges = PartialMaps(Offered, V)
      BY DEF Merges
    <2> HIDE DEF V
    <2>2. known2 \in PartialMaps(Offered, V)
      BY <2>1, MapWithout
    <2> QED BY <2>1, <2>2 DEF Without, Restrict
  <1>2. DOMAIN offers2 = DOMAIN offers \ own /\ \A m \in DOMAIN offers \ own : offers2[m] = offers[m]
    BY DEF Without, Restrict
  <1> HIDE DEF known2, offers2
  <1>3. \A n : n[2] \notin DOMAIN <<>>
    BY EmptyMap
  <1>4. ASSUME NEW n \in Offered
        PROVE  /\ n \in DOMAIN known2 <=> HasCamera(<<>>, settings, n)
               /\ n \in DOMAIN offers2 <=> HasCamera(<<>>, settings, n)
               /\ HasCamera(<<>>, settings, n) =>
                     /\ known2[n].owner = n[1] /\ known2[n].url = UrlIn(<<>>, settings, n)
                     /\ offers2[n] = UrlIn(<<>>, settings, n)
    <2>1. HasCamera(<<>>, settings, n) <=> n[1] # Publisher /\ HasCamera(publishers, settings, n)
      BY <1>3, Tags DEF HasCamera
    <2>2. n[1] # Publisher => UrlIn(<<>>, settings, n) = UrlIn(publishers, settings, n)
      BY DEF UrlIn
    <2>3. /\ n \in DOMAIN known <=> HasCamera(publishers, settings, n)
          /\ n \in DOMAIN offers <=> HasCamera(publishers, settings, n)
          /\ HasCamera(publishers, settings, n) =>
                /\ known[n].owner = n[1] /\ known[n].url = UrlIn(publishers, settings, n)
                /\ offers[n] = UrlIn(publishers, settings, n)
      BY DEF Follows
    <2>4. n \in DOMAIN known => (n \in own <=> n[1] = Publisher)
      BY <2>3
    <2> QED BY <1>1, <1>2, <2>1, <2>2, <2>3, <2>4
  <1> QED BY <1>1, <1>4 DEF Follows, known2, offers2

-----------------------------------------------------------------------------
(* The invariant *)

LEMMA CameraInitInv == cameraInit => CameraInv
  <1> SUFFICES ASSUME cameraInit PROVE CameraInv
    OBVIOUS
  <1> DEFINE V == [url : UrlsOrNone, owner : {Publisher, Static}]
             S == {Static} \X DOMAIN saved
             choices == [n \in DOMAIN merged |-> merged[n].url]
             empty == [choices |-> choices, selected |-> None, text |-> NoUrl,
                       lastConnectedUrl |-> NoUrl, userDisconnected |-> FALSE, timer |-> FALSE]
  <1>1. published = <<>> /\ stream = "disconnected" /\ asking = NoUrl /\ wanted = NoUrl
        /\ saved \in UNION {[T -> Urls] : T \in SUBSET CameraNames}
        /\ merged = [n \in S |-> [url |-> saved[n[2]], owner |-> Static]]
        /\ (dock = empty \/ \E n \in DOMAIN merged : dock = Selected(empty, n))
    BY DEF cameraInit
  <1>2. DOMAIN saved \in SUBSET CameraNames /\ saved \in [DOMAIN saved -> UrlsOrNone]
        /\ saved \in PartialMaps(CameraNames, UrlsOrNone)
    <2>1. PICK T \in SUBSET CameraNames : saved \in [T -> Urls]
      BY <1>1
    <2>2. saved \in [T -> UrlsOrNone] /\ DOMAIN saved = T
      BY <2>1 DEF UrlsOrNone
    <2> QED BY <2>2, MapIsMade
  <1>3. \A n \in S : n \in Offered /\ n[1] = Static /\ n[2] \in DOMAIN saved
    BY <1>2 DEF Offered
  <1>4. DOMAIN merged = S /\ \A n \in S : merged[n].url = saved[n[2]] /\ merged[n].owner = Static
    BY <1>1
  <1>5. merged \in Merges
    <2>1. \A n \in S : [url |-> saved[n[2]], owner |-> Static] \in V
      BY <1>2, <1>3
    <2>2. merged \in [S -> V]
      <3> HIDE DEF V, S
      <3> QED BY <1>1, <2>1
    <2>3. S \in SUBSET Offered
      BY <1>3
    <2> QED BY <2>2, <2>3, MapIsMade DEF Merges
  <1>6. choices \in PartialMaps(Offered, UrlsOrNone) /\ DOMAIN choices = S
        /\ \A n \in S : choices[n] = saved[n[2]]
    <2>1. \A n \in S : merged[n].url \in UrlsOrNone
      BY <1>2, <1>3, <1>4
    <2>2. choices \in [S -> UrlsOrNone] /\ DOMAIN choices = S
      BY <1>4, <2>1
    <2>3. S \in SUBSET Offered
      BY <1>3
    <2>4. choices \in PartialMaps(Offered, UrlsOrNone)
      <3> HIDE DEF S, choices
      <3> QED BY <2>2, <2>3, MapIsMade
    <2> QED BY <1>4, <2>2, <2>4
  <1> HIDE DEF choices
  <1>7. empty \in Docks
    BY <1>6 DEF Docks, UrlsOrNone
  <1>8. dock \in Docks /\ dock.choices = choices /\ Alike(dock, empty)
    <2>1. CASE dock = empty
      BY <1>7, <2>1 DEF Alike
    <2>2. ASSUME NEW n \in DOMAIN merged, dock = Selected(empty, n)
          PROVE  dock \in Docks /\ dock.choices = choices /\ Alike(dock, empty)
      <3>1. n \in Offered \cup {None}
        BY <1>3, <1>4
      <3>2. empty.choices = choices
        OBVIOUS
      <3> HIDE DEF empty
      <3> QED BY <1>7, <2>2, <3>1, <3>2, SelectionIsDock
    <2> QED BY <1>1, <2>1, <2>2
  <1>9. CameraTypes
    <2>1. published \in PartialMaps(CameraNames, UrlsOrNone)
      BY <1>1, EmptyMap
    <2> QED BY <1>1, <1>2, <1>5, <1>8, <2>1 DEF CameraTypes, UrlsOrNone
  <1>10. Follows(merged, choices, published, saved)
    <2>1. ASSUME NEW n \in Offered
          PROVE  /\ n \in S <=> HasCamera(published, saved, n)
                 /\ n \in S => UrlIn(published, saved, n) = saved[n[2]] /\ n[1] = Static
      <3>1. n \in S <=> n[1] = Static /\ n[2] \in DOMAIN saved
        BY Pairs, <1>3
      <3>2. n[2] \notin DOMAIN published
        BY <1>1, EmptyMap
      <3> QED BY <3>1, <3>2, Tags DEF HasCamera, UrlIn
    <2> HIDE DEF S
    <2> QED BY <1>4, <1>6, <2>1 DEF Follows
  <1>11. Retries(dock, Down, wanted)
    <2>1. dock.lastConnectedUrl = NoUrl /\ ~dock.timer
      BY <1>8 DEF Alike
    <2> QED BY <1>1, <2>1 DEF Retries, Down
  <1> QED BY <1>8, <1>9, <1>10, <1>11 DEF CameraInv

\* A provider's camera is new to the aggregator: it is passed on to the dock.
LEMMA DiscoveryPassedOn ==
    ASSUME CameraInv, NEW tag \in {Publisher, Static}, NEW name \in CameraNames, NEW url \in UrlsOrNone,
           UrlOf(IF tag = Publisher THEN published ELSE saved, name) # url,
           OnProviderCameraDiscovered(tag, name, url)
    PROVE  /\ merged' = Updated(merged, <<tag, name>>, [url |-> url, owner |-> tag])
           /\ dock' \in Docks /\ dock'.choices = Updated(dock.choices, <<tag, name>>, url)
           /\ dock'.timer = dock.timer /\ dock'.lastConnectedUrl = dock.lastConnectedUrl
           /\ ~dock'.userDisconnected
  <1> DEFINE n == <<tag, name>>
  <1>1. n \in Offered /\ n[1] = tag /\ n[2] = name
    BY DEF Offered
  <1>2. ~(n \in DOMAIN merged /\ merged[n].url = url)
    <2>1. n \in DOMAIN merged => HasCamera(published, saved, n) /\ merged[n].url = UrlIn(published, saved, n)
      BY <1>1 DEF CameraInv, Follows
    <2>2. HasCamera(published, saved, n) =>
              UrlOf(IF tag = Publisher THEN published ELSE saved, name) = UrlIn(published, saved, n)
      BY <1>1, Tags DEF HasCamera, UrlIn, UrlOf
    <2> QED BY <2>1, <2>2
  <1>3. /\ merged' = Updated(merged, n, [url |-> url, owner |-> tag])
        /\ dock' \in AddDiscoveredCamera(dock, n, url)
    BY <1>2 DEF OnProviderCameraDiscovered
  <1>4. dock \in Docks
    BY DEF CameraInv, CameraTypes
  <1> HIDE DEF n
  <1>5. /\ dock' \in Docks /\ dock'.choices = Updated(dock.choices, n, url)
        /\ dock'.timer = dock.timer /\ dock'.lastConnectedUrl = dock.lastConnectedUrl
        /\ ~dock'.userDisconnected
    <2> DEFINE e == dock'
    <2>1. e \in AddDiscoveredCamera(dock, n, url) /\ n \in Offered
      BY <1>1, <1>3
    <2> HIDE DEF e
    <2>2. /\ e \in Docks /\ e.choices = Updated(dock.choices, n, url)
          /\ e.timer = dock.timer /\ e.lastConnectedUrl = dock.lastConnectedUrl
          /\ ~e.userDisconnected
      BY <1>4, <2>1, CameraAdded
    <2> QED BY <2>2 DEF e
  <1> QED BY <1>3, <1>5 DEF n

\* Retries do not depend on more of the dock than these.
LEMMA RetriesAlike ==
    ASSUME NEW d, NEW e, NEW want, Retries(d, Down, want), e.timer = d.timer,
           e.lastConnectedUrl = d.lastConnectedUrl, e.userDisconnected => d.userDisconnected
    PROVE  Retries(e, Down, want)
  BY DEF Retries

LEMMA PublishedKept ==
    ASSUME CameraInv, NEW name \in CameraNames, NEW url \in UrlsOrNone, OnVariableUpdate(name, url)
    PROVE  CameraInv'
  <1>1. /\ UrlOf(published, name) # url /\ published' = Updated(published, name, url)
        /\ OnProviderCameraDiscovered(Publisher, name, url)
        /\ UNCHANGED <<saved, stream, asking, wanted>>
    BY DEF OnVariableUpdate
  <1>2. /\ merged' = Updated(merged, <<Publisher, name>>, [url |-> url, owner |-> Publisher])
        /\ dock' \in Docks /\ dock'.choices = Updated(dock.choices, <<Publisher, name>>, url)
        /\ dock'.timer = dock.timer /\ dock'.lastConnectedUrl = dock.lastConnectedUrl
        /\ ~dock'.userDisconnected
    <2>1. UrlOf(IF Publisher = Publisher THEN published ELSE saved, name) # url /\ Publisher \in {Publisher, Static}
      BY <1>1
    <2> QED BY <1>1, <2>1, DiscoveryPassedOn
  <1>3. /\ CameraTypes /\ Follows(merged, dock.choices, published, saved) /\ Retries(dock, Down, wanted)
    BY DEF CameraInv
  <1>4. /\ Updated(merged, <<Publisher, name>>, [url |-> url, owner |-> Publisher]) \in Merges
        /\ Follows(Updated(merged, <<Publisher, name>>, [url |-> url, owner |-> Publisher]),
                   Updated(dock.choices, <<Publisher, name>>, url), Updated(published, name, url), saved)
    <2>1. merged \in Merges /\ published \in PartialMaps(CameraNames, UrlsOrNone)
          /\ dock.choices \in PartialMaps(Offered, UrlsOrNone)
      BY <1>3 DEF CameraTypes, Docks
    <2>2. Follows(merged, dock.choices, published, saved)
      BY <1>3
    <2> QED BY <2>1, <2>2, FollowsPublished
  <1>5. Follows(merged', dock'.choices, published', saved')
    BY <1>1, <1>2, <1>4
  <1>6. CameraTypes'
    <2>1. Updated(published, name, url) \in PartialMaps(CameraNames, UrlsOrNone)
      BY <1>3, MapUpdated DEF CameraTypes
    <2> QED BY <1>1, <1>2, <1>3, <1>4, <2>1 DEF CameraTypes
  <1>7. Retries(dock', Down', wanted')
    BY <1>1, <1>2, <1>3 DEF Retries, Down
  <1> QED BY <1>5, <1>6, <1>7 DEF CameraInv

LEMMA SavedKept ==
    ASSUME CameraInv, NEW name \in CameraNames, AddCamera(name)
    PROVE  CameraInv'
  <1>1. asking # NoUrl /\ asking' = NoUrl /\ UNCHANGED <<published, stream, wanted>>
    BY DEF AddCamera
  <1>2. /\ CameraTypes /\ Follows(merged, dock.choices, published, saved) /\ Retries(dock, Down, wanted)
    BY DEF CameraInv
  <1>3. asking \in UrlsOrNone /\ NoUrl \in UrlsOrNone
    BY <1>2 DEF CameraTypes, UrlsOrNone
  <1>4. CASE UrlOf(saved, name) = asking
    <2>1. UNCHANGED <<saved, merged, dock>>
      BY <1>4 DEF AddCamera
    <2> QED BY <1>1, <1>2, <1>3, <2>1 DEF CameraInv, CameraTypes, Down
  <1>5. CASE UrlOf(saved, name) # asking
    <2>1. saved' = Updated(saved, name, asking) /\ OnProviderCameraDiscovered(Static, name, asking)
      BY <1>5 DEF AddCamera
    <2>2. /\ merged' = Updated(merged, <<Static, name>>, [url |-> asking, owner |-> Static])
          /\ dock' \in Docks /\ dock'.choices = Updated(dock.choices, <<Static, name>>, asking)
          /\ dock'.timer = dock.timer /\ dock'.lastConnectedUrl = dock.lastConnectedUrl
          /\ ~dock'.userDisconnected
      <3>1. UrlOf(IF Static = Publisher THEN published ELSE saved, name) # asking /\ Static \in {Publisher, Static}
        BY <1>5, Tags
      <3> QED BY <1>3, <2>1, <3>1, DiscoveryPassedOn
    <2>3. /\ Updated(merged, <<Static, name>>, [url |-> asking, owner |-> Static]) \in Merges
          /\ Follows(Updated(merged, <<Static, name>>, [url |-> asking, owner |-> Static]),
                     Updated(dock.choices, <<Static, name>>, asking), published, Updated(saved, name, asking))
      <3>1. merged \in Merges /\ saved \in PartialMaps(CameraNames, UrlsOrNone)
            /\ dock.choices \in PartialMaps(Offered, UrlsOrNone)
        BY <1>2 DEF CameraTypes, Docks
      <3>2. Follows(merged, dock.choices, published, saved)
        BY <1>2
      <3> QED BY <1>3, <3>1, <3>2, FollowsSaved
    <2>4. Follows(merged', dock'.choices, published', saved')
      BY <1>1, <2>1, <2>2, <2>3
    <2>5. CameraTypes'
      <3>1. Updated(saved, name, asking) \in PartialMaps(CameraNames, UrlsOrNone)
        BY <1>2, <1>3, MapUpdated DEF CameraTypes
      <3> QED BY <1>1, <1>2, <1>3, <2>1, <2>2, <2>3, <3>1 DEF CameraTypes
    <2>6. Retries(dock', Down', wanted')
      BY <1>1, <1>2, <2>2 DEF Retries, Down
    <2> QED BY <2>4, <2>5, <2>6 DEF CameraInv
  <1> QED BY <1>4, <1>5

\* The transport is lost: its cameras go one after the other, and with the last of all what
\* the operator wanted.
LEMMA ClearedKept ==
    ASSUME CameraInv, OnDisconnected
    PROVE  CameraInv'
  <1> DEFINE own == {n \in DOMAIN merged : merged[n].owner = Publisher}
             R == FoldSet(LAMBDA n, docks : UNION {RemoveDiscoveredCamera(d, n) : d \in docks}, {dock}, own)
  <1>1. published' = <<>> /\ UNCHANGED <<saved, stream, asking>> /\ OnProviderCamerasCleared(Publisher)
    BY DEF OnDisconnected
  <1>2. /\ merged' = Without(merged, own)
        /\ \/ /\ DOMAIN merged' = {} /\ wanted' = NoUrl
              /\ \E e \in R : dock' = ClearDiscoveredCameras(e)
           \/ DOMAIN merged' # {} /\ dock' \in R /\ wanted' = wanted
    BY <1>1 DEF OnProviderCamerasCleared, Forgotten
  <1>3. /\ CameraTypes /\ Follows(merged, dock.choices, published, saved) /\ Retries(dock, Down, wanted)
    BY DEF CameraInv
  <1>4. /\ merged \in Merges /\ dock \in Docks /\ dock.choices \in PartialMaps(Offered, UrlsOrNone)
    BY <1>3 DEF CameraTypes, Docks
  <1>5. own \in SUBSET Offered /\ IsFiniteSet(own)
    <2>1. DOMAIN merged \subseteq Offered
      BY <1>4, MapIs DEF Merges
    <2>2. own \subseteq Offered
      BY <2>1
    <2>3. IsFiniteSet({Publisher, Static})
      <3>1. IsFiniteSet({Publisher})
        BY FS_Singleton
      <3>2. IsFiniteSet({Publisher} \cup {Static})
        BY <3>1, FS_AddElement
      <3>3. {Publisher} \cup {Static} = {Publisher, Static}
        OBVIOUS
      <3> QED BY <3>2, <3>3
    <2>4. IsFiniteSet(CameraNames)
      BY CameraAssumption
    <2>5. IsFiniteSet(Offered)
      BY <2>3, <2>4, FS_Product DEF Offered
    <2> HIDE DEF own
    <2> QED BY <2>2, <2>5, FS_Subset
  <1>6. \A e \in R : Rid(dock, e, own)
    <2> DEFINE S == own
    <2>1. S \in SUBSET Offered /\ IsFiniteSet(S)
      BY <1>5
    <2>2. R = FoldSet(LAMBDA n, docks : UNION {RemoveDiscoveredCamera(e, n) : e \in docks}, {dock}, S)
      OBVIOUS
    <2> HIDE DEF S, R
    <2>3. \A e \in R : Rid(dock, e, S)
      BY <1>4, <2>1, <2>2, CamerasRemoved
    <2> QED BY <2>3 DEF S
  <1>7. Without(merged, own) \in Merges /\ Follows(Without(merged, own), Without(dock.choices, own), <<>>, saved)
    <2>1. Follows(merged, dock.choices, published, saved)
      BY <1>3
    <2> QED BY <1>4, <2>1, FollowsForgotten
  <1>8. published' \in PartialMaps(CameraNames, UrlsOrNone)
    BY <1>1, EmptyMap
  <1> HIDE DEF own, R
  <1>9. ASSUME NEW e \in R
        PROVE  /\ e \in Docks /\ e.choices = Without(dock.choices, own) /\ e.timer = dock.timer
               /\ e.userDisconnected = dock.userDisconnected /\ e.lastConnectedUrl = dock.lastConnectedUrl
    BY <1>6 DEF Rid, Alike
  <1>10. CASE DOMAIN merged' # {} /\ dock' \in R /\ wanted' = wanted
    <2>1. Follows(merged', dock'.choices, published', saved')
      BY <1>1, <1>2, <1>7, <1>9, <1>10
    <2>2. CameraTypes'
      BY <1>1, <1>2, <1>3, <1>7, <1>8, <1>9, <1>10 DEF CameraTypes
    <2>3. Retries(dock', Down', wanted')
      BY <1>1, <1>3, <1>9, <1>10 DEF Retries, Down
    <2> QED BY <2>1, <2>2, <2>3 DEF CameraInv
  <1>11. ASSUME DOMAIN merged' = {}, wanted' = NoUrl, NEW e \in R, dock' = ClearDiscoveredCameras(e)
         PROVE  CameraInv'
    <2>1. <<>> \in PartialMaps(Offered, UrlsOrNone) /\ \A x : x \notin DOMAIN <<>>
      BY EmptyMap
    <2>2. /\ dock' \in Docks /\ dock'.choices = <<>> /\ ~dock'.timer /\ dock'.lastConnectedUrl = NoUrl
      BY <1>9, <1>11, <2>1 DEF ClearDiscoveredCameras, Docks, UrlsOrNone
    <2>3. Follows(merged', dock'.choices, published', saved')
      <3>1. \A n \in Offered : ~HasCamera(<<>>, saved, n)
        BY <1>2, <1>7, <1>11 DEF Follows
      <3>2. \A n \in Offered : n \notin DOMAIN merged' /\ n \notin DOMAIN dock'.choices
        BY <1>11, <2>1, <2>2
      <3> QED BY <1>1, <3>1, <3>2 DEF Follows
    <2>4. CameraTypes'
      BY <1>1, <1>2, <1>3, <1>7, <1>8, <1>11, <2>2 DEF CameraTypes, UrlsOrNone
    <2>5. Retries(dock', Down', wanted')
      BY <1>11, <2>2 DEF Retries
    <2> QED BY <2>3, <2>4, <2>5 DEF CameraInv
  <1> QED BY <1>2, <1>10, <1>11

LEMMA CameraNextInv == CameraInv /\ [cameraNext]_cameraVars => CameraInv'
  <1> SUFFICES ASSUME CameraInv, [cameraNext]_cameraVars PROVE CameraInv'
    OBVIOUS
  <1>1. /\ CameraTypes /\ Follows(merged, dock.choices, published, saved) /\ Retries(dock, Down, wanted)
    BY DEF CameraInv
  <1>2. dock \in Docks /\ dock.choices \in PartialMaps(Offered, UrlsOrNone) /\ NoUrl \in UrlsOrNone
    BY <1>1 DEF CameraTypes, Docks, UrlsOrNone
  <1>a. ASSUME UNCHANGED <<published, saved, merged>>, dock' \in Docks, dock'.choices = dock.choices,
               stream' \in {"disconnected", "connecting", "streaming"}, asking' \in UrlsOrNone,
               wanted' \in UrlsOrNone, Retries(dock', Down', wanted')
        PROVE  CameraInv'
    BY <1>1, <1>a DEF CameraInv, CameraTypes
  <1>3. ChosenUrl \in UrlsOrNone
    BY <1>2, UrlIsOne DEF ChosenUrl, Docks
  <1>4. ASSUME NEW name \in CameraNames, NEW url \in Urls \cup {NoUrl}, OnVariableUpdate(name, url) PROVE CameraInv'
    <2>1. url \in UrlsOrNone
      BY DEF UrlsOrNone
    <2> QED BY <1>4, <2>1, PublishedKept
  <1>5. ASSUME OnDisconnected PROVE CameraInv'
    BY <1>5, ClearedKept
  <1>6. ASSUME StopStream PROVE CameraInv'
    <2>1. /\ dock' = [dock EXCEPT !.timer = FALSE, !.userDisconnected = TRUE]
          /\ stream' = "disconnected" /\ wanted' = NoUrl /\ asking' = asking
          /\ UNCHANGED <<published, saved, merged>>
      BY <1>6 DEF StopStream, stores
    <2>2. dock' \in Docks /\ dock'.choices = dock.choices /\ ~dock'.timer
      BY <1>2, <2>1 DEF Docks
    <2>3. Retries(dock', Down', wanted')
      BY <2>1, <2>2 DEF Retries, Down
    <2> QED BY <1>a, <1>1, <1>2, <2>1, <2>2, <2>3 DEF CameraTypes
  <1>7. ASSUME NEW n \in DOMAIN dock.choices, OnCameraSelected(n) PROVE CameraInv'
    <2>1. dock' = Selected(dock, n) /\ UNCHANGED <<published, saved, merged, stream, asking, wanted>>
      BY <1>7 DEF OnCameraSelected, stores
    <2>2. n \in Offered \cup {None}
      BY <1>2, MapIs
    <2>3. dock' \in Docks /\ dock'.choices = dock.choices /\ dock'.timer = dock.timer
          /\ dock'.lastConnectedUrl = dock.lastConnectedUrl /\ dock'.userDisconnected = dock.userDisconnected
      <3> DEFINE e == Selected(dock, n)
      <3>1. e \in Docks /\ e.choices = dock.choices /\ Alike(e, dock)
        BY <1>2, <2>2, SelectionIsDock
      <3> QED BY <2>1, <3>1 DEF Alike
    <2>4. Retries(dock', Down', wanted')
      BY <1>1, <2>1, <2>3 DEF Retries, Down
    <2> QED BY <1>a, <1>1, <2>1, <2>3, <2>4 DEF CameraTypes
  <1>8. ASSUME NEW url \in Urls \cup {NoUrl}, EditUrl(url) PROVE CameraInv'
    <2>1. dock' = [dock EXCEPT !.text = url] /\ UNCHANGED <<published, saved, merged, stream, asking, wanted>>
      BY <1>8 DEF EditUrl, stores
    <2>2. dock' \in Docks /\ dock'.choices = dock.choices /\ dock'.timer = dock.timer
          /\ dock'.lastConnectedUrl = dock.lastConnectedUrl /\ dock'.userDisconnected = dock.userDisconnected
      BY <1>2, <2>1 DEF Docks, UrlsOrNone
    <2>3. Retries(dock', Down', wanted')
      BY <1>1, <2>1, <2>2 DEF Retries, Down
    <2> QED BY <1>a, <1>1, <2>1, <2>2, <2>3 DEF CameraTypes
  <1>9. ASSUME OnConnectClicked PROVE CameraInv'
    <2> DEFINE d == [dock EXCEPT !.userDisconnected = FALSE, !.timer = FALSE]
               url == ChosenUrl
    <2>1. /\ Down /\ wanted' = url /\ UNCHANGED <<published, saved, merged, asking>>
          /\ \/ url = NoUrl /\ dock' = d /\ stream' = stream
             \/ url # NoUrl /\ dock' = [d EXCEPT !.lastConnectedUrl = url] /\ stream' = "connecting"
      BY <1>9 DEF OnConnectClicked, stores
    <2>2. url \in UrlsOrNone
      BY <1>3
    <2> HIDE DEF url
    <2>3. dock' \in Docks /\ dock'.choices = dock.choices /\ ~dock'.timer /\ ~dock'.userDisconnected
          /\ (url # NoUrl => dock'.lastConnectedUrl = url)
      BY <1>2, <2>1, <2>2 DEF Docks
    <2>4. Retries(dock', Down', wanted')
      BY <2>1, <2>3 DEF Retries, Down
    <2> QED BY <1>a, <1>1, <2>1, <2>2, <2>3, <2>4 DEF CameraTypes
  <1>10. ASSUME OnSaveStaticCamera PROVE CameraInv'
    <2>1. asking' = ChosenUrl /\ UNCHANGED <<published, saved, merged, dock, stream, wanted>>
      BY <1>10 DEF OnSaveStaticCamera, stores
    <2> QED BY <1>1, <1>3, <2>1 DEF CameraInv, CameraTypes, Down
  <1>11. ASSUME NEW name \in CameraNames, AddCamera(name) PROVE CameraInv'
    BY <1>11, SavedKept
  <1>12. ASSUME CancelDialog PROVE CameraInv'
    <2>1. asking' = NoUrl /\ UNCHANGED <<published, saved, merged, dock, stream, wanted>>
      BY <1>12 DEF CancelDialog, stores
    <2> QED BY <1>1, <1>2, <2>1 DEF CameraInv, CameraTypes, Down
  <1>13. ASSUME OnStreaming PROVE CameraInv'
    <2>1. /\ stream = "connecting" /\ stream' = "streaming" /\ dock' = [dock EXCEPT !.timer = FALSE]
          /\ UNCHANGED <<published, saved, merged, asking, wanted>>
      BY <1>13 DEF OnStreaming, stores
    <2>2. dock' \in Docks /\ dock'.choices = dock.choices /\ ~dock'.timer
          /\ dock'.lastConnectedUrl = dock.lastConnectedUrl /\ dock'.userDisconnected = dock.userDisconnected
      BY <1>2, <2>1 DEF Docks
    <2>3. Retries(dock', Down', wanted')
      BY <1>1, <2>1, <2>2 DEF Retries, Down
    <2> QED BY <1>a, <1>1, <2>1, <2>2, <2>3 DEF CameraTypes
  <1>14. ASSUME OnStreamError PROVE CameraInv'
    <2> DEFINE again == dock.timer \/ (~dock.userDisconnected /\ dock.lastConnectedUrl # NoUrl)
    <2>1. /\ ~Down /\ stream' = "disconnected" /\ dock' = [dock EXCEPT !.timer = again]
          /\ UNCHANGED <<published, saved, merged, asking, wanted>>
      BY <1>14 DEF OnStreamError, stores
    <2>2. dock.timer \in BOOLEAN /\ dock.userDisconnected \in BOOLEAN
      BY <1>2 DEF Docks
    <2>3. again \in BOOLEAN /\ (again <=> wanted # NoUrl)
      BY <1>1, <2>1, <2>2 DEF Retries
    <2> HIDE DEF again
    <2>4. dock' \in Docks /\ dock'.choices = dock.choices /\ (dock'.timer <=> again)
          /\ dock'.lastConnectedUrl = dock.lastConnectedUrl /\ dock'.userDisconnected = dock.userDisconnected
      BY <1>2, <2>1, <2>3 DEF Docks
    <2>5. Retries(dock', Down', wanted')
      BY <1>1, <2>1, <2>3, <2>4 DEF Retries, Down
    <2> QED BY <1>a, <1>1, <2>1, <2>4, <2>5 DEF CameraTypes
  <1>15. ASSUME OnReconnectTimer PROVE CameraInv'
    <2>1. dock.timer /\ wanted # NoUrl /\ Down /\ ~dock.userDisconnected /\ dock.lastConnectedUrl = wanted
      BY <1>1, <1>15 DEF OnReconnectTimer, Retries
    <2>2. /\ dock' = [dock EXCEPT !.timer = FALSE] /\ stream' = "connecting"
          /\ UNCHANGED <<published, saved, merged, asking, wanted>>
      BY <1>15, <2>1 DEF OnReconnectTimer, stores
    <2>3. dock' \in Docks /\ dock'.choices = dock.choices /\ ~dock'.timer
          /\ dock'.lastConnectedUrl = dock.lastConnectedUrl /\ ~dock'.userDisconnected
      BY <1>2, <2>1, <2>2 DEF Docks
    <2>4. Retries(dock', Down', wanted')
      BY <2>1, <2>2, <2>3 DEF Retries, Down
    <2> QED BY <1>a, <1>1, <2>2, <2>3, <2>4 DEF CameraTypes
  <1>16. ASSUME UNCHANGED cameraVars PROVE CameraInv'
    <2>1. UNCHANGED <<published, saved, merged, dock, stream, asking, wanted>>
      BY <1>16 DEF cameraVars
    <2> QED BY <1>1, <2>1 DEF CameraInv, CameraTypes, Down
  <1>17. ASSUME StopTransport \/ OnDisconnectClicked PROVE CameraInv'
    BY <1>6, <1>17 DEF StopTransport, OnDisconnectClicked
  <1> QED BY <1>4, <1>5, <1>7, <1>8, <1>9, <1>10, <1>11, <1>12, <1>13, <1>14, <1>15, <1>16, <1>17
     DEF cameraNext

LEMMA CamerasInvariant == cameraSpec => []CameraInv
  <1> QED BY CameraInitInv, CameraNextInv, PTL DEF cameraSpec

LEMMA OffersAreProvided == CameraInv => ChoicesFollowProviders
  <1> SUFFICES ASSUME CameraInv PROVE ChoicesFollowProviders
    OBVIOUS
  <1> DEFINE S == ({Publisher} \X DOMAIN published) \cup ({Static} \X DOMAIN saved)
             f == dock.choices
             g == [n \in S |-> IF n[1] = Publisher THEN published[n[2]] ELSE saved[n[2]]]
  <1>1. f \in PartialMaps(Offered, UrlsOrNone) /\ DOMAIN published \subseteq CameraNames /\ DOMAIN saved \subseteq CameraNames
    BY MapIs DEF CameraInv, CameraTypes, Docks
  <1>2. f \in [DOMAIN f -> UrlsOrNone] /\ DOMAIN f \subseteq Offered
    <2> HIDE DEF f
    <2> QED BY <1>1, MapIs
  <1>3. S \subseteq Offered
    BY <1>1 DEF Offered
  <1>4. \A n \in Offered : n \in S <=> HasCamera(published, saved, n)
    BY Pairs DEF HasCamera
  <1>5. \A n \in Offered : n \in DOMAIN f <=> n \in S
    BY <1>4 DEF CameraInv, Follows
  <1>6. DOMAIN f = S
    BY <1>2, <1>3, <1>5
  <1>7. \A n \in S : f[n] = g[n]
    <2> TAKE n \in S
    <2>1. n \in Offered /\ HasCamera(published, saved, n)
      BY <1>3, <1>4
    <2>2. f[n] = UrlIn(published, saved, n)
      BY <2>1 DEF CameraInv, Follows
    <2> QED BY <2>2 DEF UrlIn
  <1>8. f = g
    <2> HIDE DEF f, S
    <2> QED BY <1>2, <1>6, <1>7
  <1> QED BY <1>8 DEF ChoicesFollowProviders

\* CameraDiscoveryAggregator between its two providers and the dock: whatever is discovered,
\* lost and saved in whatever order, the combo box offers the cameras that the providers
\* have now, each with its present URL.
THEOREM ChoicesAreTheProviders == cameraSpec => []ChoicesFollowProviders
  <1> QED BY CamerasInvariant, OffersAreProvided, PTL

\* CameraViewerDock's m_reconnectTimer runs exactly while a stream the operator has asked
\* for, and not taken back, is down, and will connect to that URL.
THEOREM StreamsAreRetried == cameraSpec => []StreamRetried
  <1>1. CameraInv => StreamRetried
    BY DEF CameraInv, Retries, StreamRetried
  <1> QED BY <1>1, CamerasInvariant, PTL

-----------------------------------------------------------------------------
(* The replay *)

\* The updates of the file f, and what the window can be.
UpdatesOf(f) == {f[i] : i \in {j \in DOMAIN f : f[j].kind = "data"}}
Records == [value : Nat, seq : Nat]
WindowsOf(U) ==
    [pending : Seq(U), scheduled : BOOLEAN, posted : Seq({"drain", "connected", "disconnected"}),
     store : [Keys -> Records], tile : [Keys -> Nat], lastSeq : Nat, edits : [Keys -> {NoEdit}],
     state : {"off", "connected", "disconnected"}, timer : BOOLEAN, userOff : BOOLEAN, crossed : BOOLEAN,
     zeroed : BOOLEAN, muted : SUBSET Keys]

\* What the tiles show once these updates have been.
After(tile, updates) ==
    [k \in Keys |-> IF \E i \in DOMAIN updates : updates[i].key = k
                    THEN updates[LastOf(updates, k)].value ELSE tile[k]]

\* The gate is open: no record has a number above the last one that came, unless an update
\* numbered 0 has come after others.
GateOpen(w) == w.zeroed \/ \A k \in Keys : w.store[k].seq <= w.lastSeq

OpenWindows(U) == {w \in WindowsOf(U) : GateOpen(w)}

\* The tiles show t, but for those whose last update was refused after a 0.
Shows(w, t) == t \in [Keys -> Nat] /\ \A k \in Keys \ w.muted : w.tile[k] = t[k]

\* What was on its way to the tiles of w still is on its way to those of x.
Carries(w, x) ==
    \A t : Shows(w, t) => \E y : Shows(x, y) /\ After(y, x.pending) = After(t, w.pending)

\* The last update of k among the first n events of f is the i-th.
Final(f, n, k, i) ==
    /\ i \in 1 .. n /\ f[i].kind = "data" /\ f[i].key = k
    /\ \A j \in 1 .. n : f[j].kind = "data" /\ f[j].key = k => j <= i

\* The tiles show the values of the first n events of f.
Right(tile, f, n) == \A k \in Keys : \A i \in 1 .. n : Final(f, n, k, i) => tile[k] = f[i].value

PlayersOf(f) ==
    [running : BOOLEAN, playing : BOOLEAN, cursor : 0 .. f[Len(f)].at, next : 0 .. Len(f), batch : Seq(UpdatesOf(f))]

\* In order: the file, the player, the window, the bookmarks, rebuilt and overtaken.
TypesOf(f, p, w, b, r, o) ==
    /\ f \in Recordings /\ p \in PlayersOf(f) /\ w \in OpenWindows(UpdatesOf(f))
    /\ b \subseteq 0 .. f[Len(f)].at /\ r \in 0 .. Len(f) /\ o \in BOOLEAN

\* What the worker has not passed is not before the cursor, and a seek rebuilt at most one event more.
InPlace(f, p, r) ==
    /\ \A i \in DOMAIN f : i > p.next => f[i].at >= p.cursor
    /\ r <= p.next + 1

\* What is on its way makes the tiles right.
OnTheWay(f, p, w, r) ==
    \E t : /\ Shows(w, t)
           /\ Right(After(After(t, w.pending), p.batch), f, IF r > p.next THEN r ELSE p.next)

PlayerOK(f, p, w, b, r, o) ==
    /\ TypesOf(f, p, w, b, r, o)
    /\ p.running => InPlace(f, p, r) /\ (o \/ OnTheWay(f, p, w, r))

PlayerInv == PlayerOK(file, player, shown, bookmarks, rebuilt, overtaken)

-----------------------------------------------------------------------------
(* Updates *)

\* Updates of keys.
UpdateSet(U) == U \subseteq [kind : {"data"}, at : Nat, key : Keys, value : Nat, seq : Nat]

\* What a sequence is, for provers that look at functions.
LEMMA SeqFacts ==
    ASSUME NEW U, NEW s \in Seq(U)
    PROVE  Len(s) \in Nat /\ DOMAIN s = 1 .. Len(s) /\ \A i \in DOMAIN s : s[i] \in U
  BY LenProperties, ElementOfSeq

\* A bounded set of numbers has a greatest one.
LEMMA GreatestNumber ==
    ASSUME NEW n \in Nat, NEW T, T \subseteq 0 .. n, T # {}
    PROVE  \E m \in T : \A t \in T : t <= m
  <1> DEFINE R == {n - t : t \in T}
  <1>1. \A t \in T : t \in Int /\ t <= n /\ n - t \in Nat
    OBVIOUS
  <1>2. R \subseteq Nat /\ R # {}
    BY <1>1
  <1>3. PICK r \in R : \A q \in R : r <= q
    BY <1>2, LeastNumber
  <1>4. PICK m \in T : r = n - m
    BY <1>3
  <1>5. ASSUME NEW t \in T PROVE t <= m
    <2>1. n - m <= n - t
      BY <1>3, <1>4
    <2> QED BY <1>1, <2>1
  <1> QED BY <1>5

\* LastOf is the last update of a key that has one.
LEMMA LastOfIs ==
    ASSUME NEW n \in Nat, NEW s, DOMAIN s = 1 .. n, NEW k, NEW i \in DOMAIN s, s[i].key = k
    PROVE  /\ LastOf(s, k) \in DOMAIN s /\ s[LastOf(s, k)].key = k
           /\ \A j \in DOMAIN s : s[j].key = k => j <= LastOf(s, k)
  <1> DEFINE T == {j \in DOMAIN s : s[j].key = k}
  <1>1. T \subseteq 0 .. n /\ T # {}
    OBVIOUS
  <1>2. PICK m \in T : \A t \in T : t <= m
    BY <1>1, GreatestNumber
  <1>3. m \in DOMAIN s /\ s[m].key = k /\ \A j \in DOMAIN s : s[j].key = k => j <= m
    BY <1>2
  <1> QED BY <1>3 DEF LastOf

\* The tiles stay tiles.
LEMMA AfterType ==
    ASSUME NEW U, UpdateSet(U), NEW s \in Seq(U), NEW t \in [Keys -> Nat]
    PROVE  After(t, s) \in [Keys -> Nat]
  <1>1. Len(s) \in Nat /\ DOMAIN s = 1 .. Len(s) /\ \A i \in DOMAIN s : s[i] \in U
    BY SeqFacts
  <1>2. ASSUME NEW k \in Keys, \E i \in DOMAIN s : s[i].key = k
        PROVE  s[LastOf(s, k)].value \in Nat
    <2>1. LastOf(s, k) \in DOMAIN s
      BY <1>1, <1>2, LastOfIs
    <2> QED BY <1>1, <2>1 DEF UpdateSet
  <1> QED BY <1>2 DEF After

\* No updates change nothing,
LEMMA AfterNothing ==
    ASSUME NEW t \in [Keys -> Nat]
    PROVE  After(t, <<>>) = t
  <1>1. DOMAIN <<>> = {}
    OBVIOUS
  <1> QED BY <1>1 DEF After

\* Sequences that end the same way for every key leave the same.
LEMMA AfterSame ==
    ASSUME NEW t, NEW s, NEW c,
           \A k \in Keys : (\E i \in DOMAIN c : c[i].key = k) <=> (\E i \in DOMAIN s : s[i].key = k),
           \A k \in Keys : (\E i \in DOMAIN c : c[i].key = k) => c[LastOf(c, k)].value = s[LastOf(s, k)].value
    PROVE  After(t, c) = After(t, s)
  BY DEF After

\* and some after others the same as all of them at once.
LEMMA AfterConcat ==
    ASSUME NEW U, UpdateSet(U), NEW s \in Seq(U), NEW r \in Seq(U), NEW t \in [Keys -> Nat]
    PROVE  After(After(t, s), r) = After(t, s \o r)
  <1> DEFINE n == Len(s)
             m == Len(r)
             c == s \o r
  <1>1. n \in Nat /\ DOMAIN s = 1 .. n /\ \A i \in DOMAIN s : s[i] \in U
    BY SeqFacts
  <1>2. m \in Nat /\ DOMAIN r = 1 .. m /\ \A i \in DOMAIN r : r[i] \in U
    BY SeqFacts
  <1>3. /\ c \in Seq(U) /\ Len(c) = n + m
        /\ \A i \in 1 .. n + m : c[i] = IF i <= n THEN s[i] ELSE r[i - n]
    BY ConcatProperties
  <1>4. DOMAIN c = 1 .. n + m /\ n + m \in Nat
    BY <1>1, <1>2, <1>3, SeqFacts
  <1> HIDE DEF n, m, c
  <1>5. ASSUME NEW k \in Keys PROVE After(After(t, s), r)[k] = After(t, c)[k]
    <2>1. CASE \E i \in DOMAIN r : r[i].key = k
      <3> DEFINE l == LastOf(r, k)
      <3>1. l \in DOMAIN r /\ r[l].key = k /\ \A j \in DOMAIN r : r[j].key = k => j <= l
        BY <1>2, <2>1, LastOfIs
      <3> HIDE DEF l
      <3>2. n + l \in DOMAIN c /\ c[n + l] = r[l] /\ c[n + l].key = k
        <4>1. n + l \in 1 .. n + m /\ ~(n + l <= n) /\ (n + l) - n = l
          BY <1>1, <1>2, <3>1
        <4> QED BY <1>3, <1>4, <3>1, <4>1
      <3>3. /\ LastOf(c, k) \in DOMAIN c /\ c[LastOf(c, k)].key = k
            /\ \A j \in DOMAIN c : c[j].key = k => j <= LastOf(c, k)
        BY <1>4, <3>2, LastOfIs
      <3> DEFINE x == LastOf(c, k)
      <3>4. x \in DOMAIN c /\ c[x].key = k /\ n + l <= x
        BY <3>2, <3>3
      <3> HIDE DEF x
      <3>5. x \in 1 .. n + m /\ ~(x <= n) /\ x - n \in 1 .. m
        BY <1>1, <1>2, <1>4, <3>1, <3>4
      <3>6. c[x] = r[x - n]
        BY <1>3, <3>5
      <3>7. x - n <= l
        BY <1>2, <3>1, <3>4, <3>5, <3>6
      <3>8. x = n + l
        BY <1>1, <1>2, <3>1, <3>4, <3>5, <3>7
      <3>9. After(t, c)[k] = c[x].value
        BY <3>2 DEF After, x
      <3>10. After(After(t, s), r)[k] = r[l].value
        BY <2>1 DEF After, l
      <3> QED BY <3>2, <3>8, <3>9, <3>10
    <2>2. CASE ~ \E i \in DOMAIN r : r[i].key = k
      <3>0. After(After(t, s), r)[k] = After(t, s)[k]
        BY <2>2 DEF After
      <3>1. ASSUME NEW i \in DOMAIN c, c[i].key = k PROVE i \in DOMAIN s /\ c[i] = s[i] /\ s[i].key = k
        <4>1. i \in 1 .. n + m
          BY <1>4
        <4>2. i <= n
          <5> SUFFICES ASSUME ~(i <= n) PROVE FALSE
            OBVIOUS
          <5>1. i - n \in 1 .. m /\ c[i] = r[i - n]
            BY <1>1, <1>2, <1>3, <4>1
          <5> QED BY <1>2, <2>2, <3>1, <5>1
        <4> QED BY <1>1, <1>3, <3>1, <4>1, <4>2
      <3>2. ASSUME NEW i \in DOMAIN s PROVE i \in DOMAIN c /\ c[i] = s[i]
        <4>1. i \in 1 .. n + m /\ i <= n
          BY <1>1, <1>2
        <4> QED BY <1>3, <1>4, <4>1
      <3>3. CASE \E i \in DOMAIN s : s[i].key = k
        <4> DEFINE l == LastOf(s, k)
                   x == LastOf(c, k)
        <4>1. l \in DOMAIN s /\ s[l].key = k /\ \A j \in DOMAIN s : s[j].key = k => j <= l
          BY <1>1, <3>3, LastOfIs
        <4>2. l \in DOMAIN c /\ c[l].key = k
          BY <3>2, <4>1
        <4>3. x \in DOMAIN c /\ c[x].key = k /\ \A j \in DOMAIN c : c[j].key = k => j <= x
          BY <1>4, <4>2, LastOfIs
        <4>4. After(t, s)[k] = s[l].value /\ After(t, c)[k] = c[x].value
          BY <3>3, <4>2 DEF After
        <4> HIDE DEF l, x
        <4>5. x \in DOMAIN s /\ c[x] = s[x] /\ s[x].key = k
          BY <3>1, <4>3
        <4>6. x <= l /\ l <= x /\ x \in Int /\ l \in Int
          BY <1>1, <4>1, <4>2, <4>3, <4>5
        <4> QED BY <3>0, <4>4, <4>5, <4>6
      <3>4. CASE ~ \E i \in DOMAIN s : s[i].key = k
        <4>1. ~ \E i \in DOMAIN c : c[i].key = k
          BY <3>1, <3>4
        <4>2. After(t, s)[k] = t[k] /\ After(t, c)[k] = t[k]
          BY <3>4, <4>1 DEF After
        <4> QED BY <3>0, <4>2
      <3> QED BY <3>3, <3>4
    <2> QED BY <2>1, <2>2
  <1>6. After(t, c) = After(After(t, s), r)
    BY <1>5 DEF After
  <1> QED BY <1>6 DEF c

\* One update sets its tile.
LEMMA AfterOne ==
    ASSUME NEW U, UpdateSet(U), NEW u \in U, NEW t \in [Keys -> Nat]
    PROVE  After(t, <<u>>) = [t EXCEPT ![u.key] = u.value]
  <1>1. DOMAIN <<u>> = {1} /\ <<u>>[1] = u
    OBVIOUS
  <1>2. ASSUME NEW k \in Keys, u.key = k PROVE After(t, <<u>>)[k] = u.value
    <2>1. DOMAIN <<u>> = 1 .. 1 /\ 1 \in Nat /\ 1 \in DOMAIN <<u>> /\ <<u>>[1].key = k
      BY <1>1, <1>2
    <2>2. LastOf(<<u>>, k) \in DOMAIN <<u>>
      BY <2>1, LastOfIs
    <2>3. LastOf(<<u>>, k) = 1
      BY <1>1, <2>2
    <2> QED BY <1>1, <2>1, <2>3 DEF After
  <1>3. ASSUME NEW k \in Keys, u.key # k PROVE After(t, <<u>>)[k] = t[k]
    BY <1>1, <1>3 DEF After
  <1>4. u.key \in Keys
    BY DEF UpdateSet
  <1>5. \A k \in Keys : After(t, <<u>>)[k] = [t EXCEPT ![u.key] = u.value][k]
    BY <1>2, <1>3, <1>4
  <1>6. After(t, <<u>>) = [k \in Keys |-> After(t, <<u>>)[k]]
    BY DEF After
  <1>7. [t EXCEPT ![u.key] = u.value] = [k \in Keys |-> [t EXCEPT ![u.key] = u.value][k]]
    OBVIOUS
  <1> QED BY <1>5, <1>6, <1>7

\* The last update of each key leaves what all updates leave.
LEMMA LatestPerKeyIs ==
    ASSUME NEW U, UpdateSet(U), NEW s \in Seq(U)
    PROVE  /\ LatestPerKey(s) \in Seq(U)
           /\ \A t \in [Keys -> Nat] : After(t, LatestPerKey(s)) = After(t, s)
  <1> DEFINE firsts == {i \in DOMAIN s : \A j \in 1 .. i - 1 : s[j].key # s[i].key}
             latest == [i \in firsts |-> s[LastOf(s, s[i].key)]]
             c == Collected(latest, firsts)
             n == Len(s)
  <1>1. n \in Nat /\ DOMAIN s = 1 .. n /\ \A i \in DOMAIN s : s[i] \in U
    BY SeqFacts
  <1>2. LatestPerKey(s) = c
    BY DEF LatestPerKey
  <1> HIDE DEF n
  <1>3. firsts \subseteq Nat /\ IsFiniteSet(firsts) /\ firsts \subseteq DOMAIN s
    <2>1. IsFiniteSet(1 .. n)
      BY <1>1, FS_Interval
    <2>2. firsts \in SUBSET (1 .. n)
      BY <1>1
    <2>3. IsFiniteSet(firsts)
      BY <2>1, <2>2, FS_Subset
    <2> QED BY <2>2, <2>3
  <1>4. \A i \in firsts : latest[i] = s[LastOf(s, s[i].key)]
    OBVIOUS
  <1>5. \A i \in DOMAIN s : LastOf(s, s[i].key) \in DOMAIN s /\ s[LastOf(s, s[i].key)].key = s[i].key
    BY <1>1, LastOfIs
  <1>6. ASSUME NEW i \in DOMAIN s PROVE \E h \in firsts : s[h].key = s[i].key
    <2> DEFINE T == {h \in DOMAIN s : s[h].key = s[i].key}
    <2>1. T \subseteq Nat /\ T # {}
      BY <1>1
    <2>2. PICK h \in T : \A m \in T : h <= m
      BY <2>1, LeastNumber
    <2>3. h \in DOMAIN s /\ s[h].key = s[i].key
      BY <2>2
    <2>4. ASSUME NEW j \in 1 .. h - 1 PROVE s[j].key # s[h].key
      <3>1. j \in DOMAIN s /\ ~(h <= j)
        BY <1>1, <2>3
      <3> QED BY <2>2, <2>3, <3>1
    <2> QED BY <2>3, <2>4
  <1> HIDE DEF firsts, latest
  <1>7. \A i \in firsts : latest[i] \in U /\ latest[i].key = s[i].key
    BY <1>1, <1>3, <1>4, <1>5
  <1>8. c = Collected(latest, firsts)
    OBVIOUS
  <1> HIDE DEF c
  <1>9. c \in Seq(U)
    BY <1>3, <1>7, <1>8, CollectedSeq
  <1>10. Len(c) \in Nat /\ DOMAIN c = 1 .. Len(c)
    BY <1>9, SeqFacts
  <1>17. IsFiniteSet(firsts) /\ firsts \subseteq Nat /\ c = Collected(latest, firsts)
    BY <1>3, <1>8
  <1>11. /\ \A j \in DOMAIN c : Nth(firsts, j) \in firsts /\ c[j] = latest[Nth(firsts, j)]
         /\ \A i \in firsts : \E j \in DOMAIN c : c[j] = latest[i]
    <2>1. \A j \in DOMAIN c : Nth(firsts, j) \in firsts
      BY <1>17, CollectedFrom
    <2>3. \A j \in DOMAIN c : c[j] = latest[Nth(firsts, j)]
      BY <1>17 DEF Collected
    <2>4. DOMAIN c = 1 .. Cardinality(firsts)
      BY <1>17, CollectedFrom
    <2>5. \A i \in firsts : \E j \in 1 .. Cardinality(firsts) : Nth(firsts, j) = i
      BY <1>3, Numbering
    <2>2. \A i \in firsts : \E j \in DOMAIN c : c[j] = latest[i]
      BY <2>3, <2>4, <2>5
    <2> QED BY <2>1, <2>2, <2>3
  <1>12. ASSUME NEW j \in DOMAIN c PROVE c[j] = s[LastOf(s, c[j].key)] /\ \E i \in DOMAIN s : s[i].key = c[j].key
    <2> DEFINE h == Nth(firsts, j)
    <2>1. h \in firsts /\ c[j] = latest[h]
      BY <1>11
    <2> HIDE DEF h
    <2>2. c[j].key = s[h].key /\ c[j] = s[LastOf(s, s[h].key)] /\ h \in DOMAIN s
      BY <1>3, <1>4, <1>7, <2>1
    <2> QED BY <2>2
  <1>13. ASSUME NEW i \in DOMAIN s PROVE \E j \in DOMAIN c : c[j].key = s[i].key
    <2>1. PICK h \in firsts : s[h].key = s[i].key
      BY <1>6
    <2>2. PICK j \in DOMAIN c : c[j] = latest[h]
      BY <1>11
    <2> QED BY <1>7, <2>1, <2>2
  <1>14. \A k \in Keys : (\E i \in DOMAIN c : c[i].key = k) <=> (\E i \in DOMAIN s : s[i].key = k)
    BY <1>12, <1>13
  <1>15. ASSUME NEW k \in Keys, \E i \in DOMAIN c : c[i].key = k
         PROVE  c[LastOf(c, k)].value = s[LastOf(s, k)].value
    <2>1. LastOf(c, k) \in DOMAIN c /\ c[LastOf(c, k)].key = k
      BY <1>10, <1>15, LastOfIs
    <2> QED BY <1>12, <2>1
  <1>16. ASSUME NEW t \in [Keys -> Nat] PROVE After(t, c) = After(t, s)
    BY <1>14, <1>15, AfterSame
  <1> QED BY <1>2, <1>9, <1>16

-----------------------------------------------------------------------------
(* The window *)

\* A reset opens the gate, and leaves the queue and the tiles.
LEMMA ResetIs ==
    ASSUME NEW U, NEW w \in WindowsOf(U), NEW r, r = ResetSequenceTracking(w)
    PROVE  /\ r \in WindowsOf(U) /\ r.pending = w.pending /\ r.tile = w.tile /\ r.lastSeq = w.lastSeq
           /\ r.edits = w.edits /\ r.posted = w.posted /\ r.muted = w.muted /\ ~r.zeroed
           /\ (\A k \in Keys : r.store[k].seq = 0) /\ GateOpen(r)
  <1> DEFINE s == [k \in Keys |-> [w.store[k] EXCEPT !.seq = 0]]
  <1>1. r = [w EXCEPT !.store = s, !.zeroed = FALSE]
    BY DEF ResetSequenceTracking
  <1>2. w.store \in [Keys -> Records] /\ w.lastSeq \in Nat
    BY DEF WindowsOf
  <1>3. s \in [Keys -> Records] /\ \A k \in Keys : s[k].seq = 0
    BY <1>2 DEF Records
  <1> HIDE DEF s
  <1>4. r \in WindowsOf(U) /\ r.store = s
    BY <1>1, <1>3 DEF WindowsOf
  <1>5. /\ r.pending = w.pending /\ r.tile = w.tile /\ r.lastSeq = w.lastSeq
        /\ r.edits = w.edits /\ r.posted = w.posted /\ r.muted = w.muted /\ ~r.zeroed
    BY <1>1 DEF WindowsOf
  <1>6. GateOpen(r)
    BY <1>2, <1>3, <1>4, <1>5 DEF GateOpen
  <1> QED BY <1>3, <1>4, <1>5, <1>6

\* An update is shown, or its key is muted, and the gate is open again after it.
LEMMA OneReceived ==
    ASSUME NEW U, UpdateSet(U), NEW w \in OpenWindows(U), NEW u \in U,
           NEW x, x = OnVariableUpdateReceived(w, u)
    PROVE  /\ x \in OpenWindows(U) /\ x.pending = w.pending
           /\ \A t : Shows(w, t) => Shows(x, [t EXCEPT ![u.key] = u.value])
  <1> DEFINE back == u.seq # 0 /\ w.lastSeq # 0 /\ u.seq < w.lastSeq
             open == IF back THEN ResetSequenceTracking(w) ELSE w
             record == Upsert(open.store[u.key], u)
             z == Zeroed(open, u)
             m == Muted(open, u)
             s == [open.store EXCEPT ![u.key] = record]
             tile == [open.tile EXCEPT ![u.key] = record.value]
  <1>1. x = [open EXCEPT !.lastSeq = u.seq, !.store[u.key] = record, !.tile[u.key] = record.value,
                         !.zeroed = z, !.muted = m]
    BY DEF OnVariableUpdateReceived
  <1>2. w \in WindowsOf(U) /\ GateOpen(w)
    BY DEF OpenWindows
  <1>3. u.key \in Keys /\ u.value \in Nat /\ u.seq \in Nat
    BY DEF UpdateSet
  <1>4. w.lastSeq \in Nat /\ w.store \in [Keys -> Records]
    BY <1>2 DEF WindowsOf
  <1>5. open \in WindowsOf(U) /\ open.pending = w.pending /\ open.tile = w.tile /\ open.muted = w.muted
    <2>1. CASE back
      <3>1. open = ResetSequenceTracking(w)
        BY <2>1
      <3> HIDE DEF open
      <3> QED BY <1>2, <3>1, ResetIs
    <2>2. CASE ~back
      BY <1>2, <2>2
    <2> QED BY <2>1, <2>2
  <1>6. open.zeroed \/ u.seq = 0 \/ \A k \in Keys : open.store[k].seq <= u.seq
    <2>1. CASE back
      <3>1. open = ResetSequenceTracking(w)
        BY <2>1
      <3> HIDE DEF open
      <3>2. \A k \in Keys : open.store[k].seq = 0
        BY <1>2, <3>1, ResetIs
      <3> QED BY <1>3, <3>2
    <2>2. CASE ~back
      <3> SUFFICES ASSUME ~w.zeroed, u.seq # 0 PROVE \A k \in Keys : w.store[k].seq <= u.seq
        BY <2>2
      <3>1. w.lastSeq <= u.seq
        BY <1>3, <1>4, <2>2
      <3>2. \A k \in Keys : w.store[k].seq <= w.lastSeq /\ w.store[k].seq \in Nat
        BY <1>2, <1>4 DEF GateOpen, Records
      <3> QED BY <1>3, <1>4, <3>1, <3>2
    <2> QED BY <2>1, <2>2
  <1> HIDE DEF open
  <1>7. open.store \in [Keys -> Records] /\ open.tile \in [Keys -> Nat] /\ open.muted \in SUBSET Keys
    BY <1>5 DEF WindowsOf
  <1>8. \A k \in Keys : open.store[k].seq \in Nat
    BY <1>7 DEF Records
  <1>9. z \in BOOLEAN /\ (z \/ \A k \in Keys : open.store[k].seq <= u.seq)
    <2>1. open.zeroed \in BOOLEAN
      BY <1>5 DEF WindowsOf
    <2>2. z \in BOOLEAN
      BY <2>1 DEF Zeroed
    <2>3. ASSUME ~z PROVE \A k \in Keys : open.store[k].seq <= u.seq
      <3>1. ~open.zeroed /\ (u.seq = 0 => \A k \in Keys : open.store[k].seq = 0)
        BY <2>3 DEF Zeroed
      <3> QED BY <1>3, <1>6, <3>1
    <2> QED BY <2>2, <2>3
  <1>10. \/ /\ record = [value |-> u.value, seq |-> u.seq] /\ m = open.muted \ {u.key}
         \/ /\ record = open.store[u.key] /\ m = open.muted \cup {u.key} /\ z
    <2>1. CASE u.seq >= open.store[u.key].seq
      <3>1. ~(u.seq < open.store[u.key].seq)
        BY <1>3, <1>8, <2>1
      <3> QED BY <2>1, <3>1 DEF Upsert, Muted
    <2>2. CASE ~(u.seq >= open.store[u.key].seq)
      <3>1. u.seq < open.store[u.key].seq /\ ~(open.store[u.key].seq <= u.seq)
        BY <1>3, <1>8, <2>2
      <3>2. z
        BY <1>3, <1>9, <3>1
      <3> QED BY <2>2, <3>1, <3>2 DEF Upsert, Muted
    <2> QED BY <2>1, <2>2
  <1>11. record \in Records /\ m \in SUBSET Keys
    <2>1. [value |-> u.value, seq |-> u.seq] \in Records /\ open.store[u.key] \in Records
      BY <1>3, <1>7 DEF Records
    <2> HIDE DEF record, m, z
    <2> QED BY <1>3, <1>7, <1>10, <2>1
  <1>12. s \in [Keys -> Records] /\ tile \in [Keys -> Nat]
    <2> HIDE DEF record
    <2>1. record.value \in Nat
      BY <1>11 DEF Records
    <2> QED BY <1>3, <1>7, <1>11, <2>1
  <1>13. x = [open EXCEPT !.lastSeq = u.seq, !.store = s, !.tile = tile, !.zeroed = z, !.muted = m]
    <2> HIDE DEF record, z, m
    <2> QED BY <1>1, <1>5 DEF WindowsOf
  <1> HIDE DEF record, z, m
  <1>14. \A k \in Keys : s[k] = IF k = u.key THEN record ELSE open.store[k]
    BY <1>7
  <1>15. \A k \in Keys : tile[k] = IF k = u.key THEN record.value ELSE open.tile[k]
    BY <1>7
  <1> HIDE DEF s, tile
  <1>16. /\ x \in WindowsOf(U) /\ x.pending = open.pending /\ x.tile = tile /\ x.store = s
         /\ x.lastSeq = u.seq /\ x.zeroed = z /\ x.muted = m
    <2>1. open \in WindowsOf(U) /\ u.seq \in Nat /\ z \in BOOLEAN /\ m \in SUBSET Keys
      BY <1>3, <1>5, <1>9, <1>11
    <2>2. /\ x.pending = open.pending /\ x.tile = tile /\ x.store = s
          /\ x.lastSeq = u.seq /\ x.zeroed = z /\ x.muted = m
      BY <1>13, <2>1 DEF WindowsOf
    <2>3. x \in WindowsOf(U)
      BY <1>12, <1>13, <2>1 DEF WindowsOf
    <2> QED BY <2>2, <2>3
  <1>17. ASSUME ~z PROVE \A k \in Keys : s[k].seq <= u.seq
    <2>1. record.seq = u.seq
      BY <1>10, <1>17
    <2> QED BY <1>3, <1>9, <1>14, <1>17, <2>1
  <1>18. GateOpen(x)
    BY <1>16, <1>17 DEF GateOpen
  <1>19. ASSUME NEW t, Shows(w, t) PROVE Shows(x, [t EXCEPT ![u.key] = u.value])
    <2> DEFINE y == [t EXCEPT ![u.key] = u.value]
    <2>1. t \in [Keys -> Nat] /\ \A k \in Keys \ w.muted : w.tile[k] = t[k]
      BY <1>19 DEF Shows
    <2>2. y \in [Keys -> Nat] /\ y[u.key] = u.value /\ \A k \in Keys : k # u.key => y[k] = t[k]
      BY <1>3, <2>1
    <2> HIDE DEF y
    <2>3. ASSUME NEW k \in Keys \ m PROVE tile[k] = y[k]
      <3>1. CASE k = u.key
        <4>1. record.value = u.value
          BY <1>10, <2>3, <3>1
        <4> QED BY <1>15, <2>2, <3>1, <4>1
      <3>2. CASE k # u.key
        <4>1. k \in Keys \ w.muted
          BY <1>5, <1>10, <2>3, <3>2
        <4>2. tile[k] = w.tile[k]
          BY <1>5, <1>15, <3>2
        <4> QED BY <2>1, <2>2, <3>2, <4>1, <4>2
      <3> QED BY <3>1, <3>2
    <2>4. Shows(x, y)
      BY <1>16, <2>2, <2>3 DEF Shows
    <2> QED BY <2>4 DEF y
  <1> QED BY <1>5, <1>16, <1>18, <1>19 DEF OpenWindows

\* FoldLeft folds over the places, the largest first.
LEMMA LargestIsMax == \A s : Largest(s) = Max(s)
  BY DEF Largest, Max

ReceivedAll(w, s) == FoldLeft(OnVariableUpdateReceived, w, s)

\* FoldLeft goes from the first to the last.
LEMMA ReceivedSteps ==
    ASSUME NEW U, UpdateSet(U), NEW w \in OpenWindows(U), NEW s \in Seq(U)
    PROVE  \E h \in [0 .. Len(s) -> OpenWindows(U)] :
              /\ h[0] = w /\ h[Len(s)] = ReceivedAll(w, s)
              /\ \A i \in 1 .. Len(s) : h[i] = OnVariableUpdateReceived(h[i - 1], s[i])
  <1> DEFINE n == Len(s)
             W == OpenWindows(U)
             g == [p \in W \X (1 .. n) |-> OnVariableUpdateReceived(p[1], s[p[2]])]
             D == SUBSET (1 .. n)
  <1>1. n \in Nat /\ DOMAIN s = 1 .. n /\ \A i \in DOMAIN s : s[i] \in U
    BY SeqFacts
  <1>2. \A a \in W : \A i \in 1 .. n : g[<<a, i>>] = OnVariableUpdateReceived(a, s[i])
    OBVIOUS
  <1>3. \A a \in W : \A i \in 1 .. n : OnVariableUpdateReceived(a, s[i]) \in W
    BY <1>1, OneReceived
  <1>4. \A a \in W : \A i \in 1 .. n : g[<<a, i>>] \in W
    BY <1>2, <1>3
  <1> HIDE DEF n, W, g
  <1>5. w \in W
    BY DEF W
  <1>6. \A x \in D : x # {} => Max(x) \in 1 .. n /\ x \ {Max(x)} \in D
    BY <1>1, LargestIs, LargestIsMax
  <1>7. PICK f \in [D -> W] : f = [x \in D |-> IF x = {} THEN w ELSE g[<<f[x \ {Max(x)}], Max(x)>>]]
    <2>1. \E f \in [D -> W] : LargestFirst(f, n, w, g)
      BY <1>1, <1>4, <1>5, FoldFromLargest
    <2> QED BY <2>1, LargestIsMax DEF LargestFirst
  <1> DEFINE Fold(q) == q = [x \in D |-> IF x = {} THEN w ELSE OnVariableUpdateReceived(q[x \ {Max(x)}], s[Max(x)])]
             q0 == CHOOSE q : Fold(q)
  <1>8. \A x \in D : x # {} => g[<<f[x \ {Max(x)}], Max(x)>>] = OnVariableUpdateReceived(f[x \ {Max(x)}], s[Max(x)])
    BY <1>2, <1>6, <1>7
  <1>9. Fold(f)
    <2> HIDE DEF D
    <2> QED BY <1>7, <1>8
  <1>10. Fold(q0)
    <2> HIDE DEF Fold
    <2> QED BY <1>9
  <1>11. ReceivedAll(w, s) = q0[DOMAIN s]
    BY <1>1 DEF ReceivedAll, FoldLeft, MapThenFoldSet
  <1> HIDE DEF D
  <1>12. q0[{}] = w
    <2>1. {} \in D
      BY DEF D
    <2> HIDE DEF q0
    <2> QED BY <1>10, <2>1
  <1>13. ASSUME NEW i \in 1 .. n PROVE q0[1 .. i] = OnVariableUpdateReceived(q0[1 .. i - 1], s[i])
    <2>1. 1 .. i \in D /\ 1 .. i # {} /\ Max(1 .. i) = i /\ (1 .. i) \ {i} = 1 .. i - 1
      BY <1>1, IntervalBefore, LargestIsMax DEF D
    <2> HIDE DEF q0
    <2>2. q0[1 .. i] = OnVariableUpdateReceived(q0[(1 .. i) \ {Max(1 .. i)}], s[Max(1 .. i)])
      BY <1>10, <2>1
    <2> QED BY <2>1, <2>2
  <1> HIDE DEF q0
  <1> DEFINE P == {i \in 0 .. n : q0[1 .. i] \in W}
  <1>14. 1 .. 0 = {}
    OBVIOUS
  <1>15. \A i \in 0 .. n : q0[1 .. i] \in W
    <2>1. 0 \in P
      BY <1>1, <1>5, <1>12, <1>14
    <2>2. \A i \in 1 .. n : i - 1 \in P => i \in P
      <3> SUFFICES ASSUME NEW i \in 1 .. n, q0[1 .. i - 1] \in W PROVE q0[1 .. i] \in W /\ i \in 0 .. n
        OBVIOUS
      <3>1. i \in 0 .. n
        BY <1>1
      <3> QED BY <1>3, <1>13, <3>1
    <2> HIDE DEF P
    <2>3. 0 .. n \subseteq P
      BY <1>1, <2>1, <2>2, StepByStep
    <2> QED BY <2>3 DEF P
  <1> DEFINE h == [i \in 0 .. n |-> q0[1 .. i]]
  <1>16. h \in [0 .. n -> W]
    BY <1>15
  <1>17. h[0] = w /\ h[n] = q0[DOMAIN s]
    <2>1. 0 \in 0 .. n /\ n \in 0 .. n
      BY <1>1
    <2> QED BY <1>1, <1>12, <1>14, <2>1
  <1>18. \A i \in 1 .. n : h[i] = OnVariableUpdateReceived(h[i - 1], s[i])
    <2> SUFFICES ASSUME NEW i \in 1 .. n PROVE h[i] = OnVariableUpdateReceived(h[i - 1], s[i])
      OBVIOUS
    <2>1. i \in 0 .. n /\ i - 1 \in 0 .. n
      BY <1>1
    <2> QED BY <1>13, <2>1
  <1> HIDE DEF h
  <1>19. h[n] = ReceivedAll(w, s)
    BY <1>11, <1>17
  <1>20. \E e \in [0 .. n -> W] : /\ e[0] = w /\ e[n] = ReceivedAll(w, s)
                                /\ \A i \in 1 .. n : e[i] = OnVariableUpdateReceived(e[i - 1], s[i])
    BY <1>16, <1>17, <1>18, <1>19
  <1> QED BY <1>20 DEF n, W

\* A longer beginning is the one before it and an element.
LEMMA PrefixGrows ==
    ASSUME NEW U, NEW s \in Seq(U), NEW i \in 1 .. Len(s)
    PROVE  /\ SubSeq(s, 1, i) = SubSeq(s, 1, i - 1) \o <<s[i]>> /\ SubSeq(s, 1, i - 1) \in Seq(U)
           /\ s[i] \in U /\ <<s[i]>> \in Seq(U)
  <1>1. Len(s) \in Nat /\ DOMAIN s = 1 .. Len(s) /\ \A j \in DOMAIN s : s[j] \in U
    BY SeqFacts
  <1>2. i \in Int /\ 1 <= i /\ i <= Len(s) /\ 1 \in 1 .. Len(s) /\ i \in 1 .. Len(s)
    BY <1>1
  <1>3. SubSeq(s, 1, i) = SubSeq(s, 1, i - 1) \o <<s[i]>>
    BY <1>2, SubSeqRecursiveSecond
  <1>4. \A j \in 1 .. i - 1 : s[j] \in U
    BY <1>1, <1>2
  <1>5. SubSeq(s, 1, i - 1) \in Seq(U)
    BY <1>2, <1>4, SubSeqProperties
  <1> QED BY <1>1, <1>3, <1>5

\* So the tiles follow a beginning update by update.
LEMMA AfterPrefix ==
    ASSUME NEW U, UpdateSet(U), NEW s \in Seq(U), NEW i \in 1 .. Len(s), NEW t \in [Keys -> Nat]
    PROVE  After(t, SubSeq(s, 1, i)) = [After(t, SubSeq(s, 1, i - 1)) EXCEPT ![s[i].key] = s[i].value]
  <1> DEFINE r == SubSeq(s, 1, i - 1)
  <1>1. SubSeq(s, 1, i) = r \o <<s[i]>> /\ r \in Seq(U) /\ s[i] \in U /\ <<s[i]>> \in Seq(U)
    BY PrefixGrows
  <1> HIDE DEF r
  <1>2. After(t, r) \in [Keys -> Nat]
    BY <1>1, AfterType
  <1>3. After(t, r \o <<s[i]>>) = After(After(t, r), <<s[i]>>)
    BY <1>1, AfterConcat
  <1>4. After(After(t, r), <<s[i]>>) = [After(t, r) EXCEPT ![s[i].key] = s[i].value]
    BY <1>1, <1>2, AfterOne
  <1> QED BY <1>1, <1>3, <1>4 DEF r

\* Updates received one after the other are shown.
LEMMA ManyReceived ==
    ASSUME NEW U, UpdateSet(U), NEW w \in OpenWindows(U), NEW s \in Seq(U),
           NEW x, x = ReceivedAll(w, s)
    PROVE  x \in OpenWindows(U) /\ x.pending = w.pending /\ \A t : Shows(w, t) => Shows(x, After(t, s))
  <1> DEFINE n == Len(s)
             W == OpenWindows(U)
  <1>1. n \in Nat /\ DOMAIN s = 1 .. n /\ \A i \in DOMAIN s : s[i] \in U
    BY SeqFacts
  <1>2. PICK h \in [0 .. n -> W] : /\ h[0] = w /\ h[n] = x
                                  /\ \A i \in 1 .. n : h[i] = OnVariableUpdateReceived(h[i - 1], s[i])
    <2>1. UpdateSet(U) /\ w \in OpenWindows(U) /\ s \in Seq(U)
      OBVIOUS
    <2>2. \E h \in [0 .. Len(s) -> OpenWindows(U)] :
              /\ h[0] = w /\ h[Len(s)] = ReceivedAll(w, s)
              /\ \A i \in 1 .. Len(s) : h[i] = OnVariableUpdateReceived(h[i - 1], s[i])
      BY <2>1, ReceivedSteps
    <2> QED BY <2>2
  <1> DEFINE P == {i \in 0 .. n : /\ h[i].pending = w.pending
                                  /\ \A t : Shows(w, t) => Shows(h[i], After(t, SubSeq(s, 1, i)))}
  <1> HIDE DEF n, W
  <1>4. 0 \in P
    <2>1. SubSeq(s, 1, 0) = <<>>
      BY SubSeqEmpty
    <2>2. \A t : Shows(w, t) => After(t, <<>>) = t
      BY AfterNothing DEF Shows
    <2>3. 0 \in 0 .. n
      BY <1>1
    <2> QED BY <1>2, <2>1, <2>2, <2>3
  <1>5. ASSUME NEW i \in 1 .. n, i - 1 \in P PROVE i \in P
    <2>1. i \in 0 .. n /\ i - 1 \in 0 .. n
      BY <1>1
    <2>2. /\ h[i - 1].pending = w.pending
          /\ \A t : Shows(w, t) => Shows(h[i - 1], After(t, SubSeq(s, 1, i - 1)))
      BY <1>5
    <2>3. h[i] = OnVariableUpdateReceived(h[i - 1], s[i]) /\ s[i] \in U
      BY <1>1, <1>2
    <2>4. h[i - 1] \in OpenWindows(U)
      BY <1>2, <2>1 DEF W
    <2> DEFINE a == h[i - 1]
               b == h[i]
               u == s[i]
    <2> HIDE DEF a, b, u
    <2>5. UpdateSet(U) /\ a \in OpenWindows(U) /\ u \in U /\ b = OnVariableUpdateReceived(a, u)
      BY <2>3, <2>4 DEF a, b, u
    <2>6. /\ b \in OpenWindows(U) /\ b.pending = a.pending
          /\ \A t : Shows(a, t) => Shows(b, [t EXCEPT ![u.key] = u.value])
      BY <2>5, OneReceived
    <2>7. ASSUME NEW t, Shows(w, t) PROVE Shows(b, After(t, SubSeq(s, 1, i)))
      <3>1. t \in [Keys -> Nat]
        BY <2>7 DEF Shows
      <3>2. After(t, SubSeq(s, 1, i)) = [After(t, SubSeq(s, 1, i - 1)) EXCEPT ![u.key] = u.value]
        BY <3>1, AfterPrefix DEF n, u
      <3>3. Shows(a, After(t, SubSeq(s, 1, i - 1)))
        BY <2>2, <2>7 DEF a
      <3> QED BY <2>6, <3>2, <3>3
    <2> QED BY <2>1, <2>2, <2>6, <2>7 DEF a, b
  <1>6. n \in P
    <2> HIDE DEF P
    <2>1. 0 .. n \subseteq P
      BY <1>1, <1>4, <1>5, StepByStep
    <2>2. n \in 0 .. n
      BY <1>1
    <2> QED BY <2>1, <2>2
  <1>7. SubSeq(s, 1, n) = s
    BY SubSeqFull DEF n
  <1>8. x \in OpenWindows(U)
    <2>1. n \in 0 .. n
      BY <1>1
    <2> QED BY <1>2, <2>1 DEF W
  <1> QED BY <1>2, <1>6, <1>7, <1>8

\* What is posted to the window touches neither queue, nor tiles, nor gate.
LEMMA PostIs ==
    ASSUME NEW U, NEW w \in OpenWindows(U), NEW e \in {"drain", "connected", "disconnected"},
           NEW x, x = Post(w, e)
    PROVE  x \in OpenWindows(U) /\ x.pending = w.pending /\ x.tile = w.tile /\ x.muted = w.muted
  <1>1. w \in WindowsOf(U) /\ GateOpen(w)
    BY DEF OpenWindows
  <1>2. x = [w EXCEPT !.posted = Append(w.posted, e)]
    BY DEF Post
  <1>3. Append(w.posted, e) \in Seq({"drain", "connected", "disconnected"})
    BY <1>1, AppendProperties DEF WindowsOf
  <1>4. /\ x \in WindowsOf(U) /\ x.pending = w.pending /\ x.tile = w.tile /\ x.muted = w.muted
        /\ x.store = w.store /\ x.lastSeq = w.lastSeq /\ x.zeroed = w.zeroed
    BY <1>1, <1>2, <1>3 DEF WindowsOf
  <1>5. GateOpen(x)
    BY <1>1, <1>4 DEF GateOpen
  <1> QED BY <1>4, <1>5 DEF OpenWindows

\* The gate is a matter of the records, the last number and the zeros.
LEMMA SameGate ==
    ASSUME NEW U, NEW w \in OpenWindows(U), NEW x \in WindowsOf(U), x.store = w.store,
           x.lastSeq = w.lastSeq, x.zeroed = w.zeroed
    PROVE  x \in OpenWindows(U)
  BY DEF OpenWindows, GateOpen

\* What waits in the queue shows the same, collapsed or not.
LEMMA OneQueued ==
    ASSUME NEW U, UpdateSet(U), NEW w \in OpenWindows(U), NEW u \in U, NEW x, x = QueueUpdate(w, u)
    PROVE  /\ x \in OpenWindows(U) /\ x.tile = w.tile /\ x.muted = w.muted
           /\ \A t \in [Keys -> Nat] : After(t, x.pending) = After(After(t, w.pending), <<u>>)
  <1> DEFINE a == Append(w.pending, u)
             p == Collapsed(a)
             queued == [w EXCEPT !.pending = p, !.scheduled = TRUE]
  <1>1. w.pending \in Seq(U)
    BY DEF OpenWindows, WindowsOf
  <1>2. a \in Seq(U) /\ a = w.pending \o <<u>>
    BY <1>1, AppendProperties, AppendIsConcat
  <1>3. x = IF w.scheduled THEN queued ELSE Post(queued, "drain")
    BY DEF QueueUpdate
  <1> HIDE DEF a
  <1>4. p \in Seq(U) /\ \A t \in [Keys -> Nat] : After(t, p) = After(t, a)
    <2>1. CASE Len(a) > HighWater
      <3>1. p = LatestPerKey(a)
        BY <2>1 DEF Collapsed
      <3> HIDE DEF p
      <3> QED BY <1>1, <1>2, <3>1, LatestPerKeyIs
    <2>2. CASE ~(Len(a) > HighWater)
      BY <1>2, <2>2 DEF Collapsed
    <2> QED BY <2>1, <2>2
  <1> HIDE DEF p
  <1>5. queued = [w EXCEPT !.pending = p, !.scheduled = TRUE]
    OBVIOUS
  <1> HIDE DEF queued
  <1>9. queued \in OpenWindows(U) /\ queued.pending = p /\ queued.tile = w.tile /\ queued.muted = w.muted
    <2>1. w \in WindowsOf(U)
      BY DEF OpenWindows
    <2>2. /\ queued \in WindowsOf(U) /\ queued.store = w.store /\ queued.lastSeq = w.lastSeq
          /\ queued.pending = p /\ queued.tile = w.tile /\ queued.muted = w.muted /\ queued.zeroed = w.zeroed
      BY <1>4, <1>5, <2>1 DEF WindowsOf
    <2> QED BY <2>2, SameGate
  <1>6. x \in OpenWindows(U) /\ x.pending = p /\ x.tile = w.tile /\ x.muted = w.muted
    BY <1>3, <1>9, PostIs
  <1>7. <<u>> \in Seq(U)
    OBVIOUS
  <1>8. \A t \in [Keys -> Nat] : After(t, a) = After(After(t, w.pending), <<u>>)
    BY <1>1, <1>2, <1>7, AfterConcat
  <1> QED BY <1>4, <1>6, <1>8

QueuedAll(w, s) == FoldLeft(QueueUpdate, w, s)

\* Updates queued one after the other keep the gate open.
LEMMA ManyQueued ==
    ASSUME NEW U, UpdateSet(U), NEW w \in OpenWindows(U), NEW s \in Seq(U)
    PROVE  QueuedAll(w, s) \in OpenWindows(U)
  <1> DEFINE n == Len(s)
             W == OpenWindows(U)
             g == [p \in W \X (1 .. n) |-> QueueUpdate(p[1], s[p[2]])]
             D == SUBSET (1 .. n)
  <1>1. n \in Nat /\ DOMAIN s = 1 .. n /\ \A i \in DOMAIN s : s[i] \in U
    BY SeqFacts
  <1>2. \A a \in W : \A i \in 1 .. n : g[<<a, i>>] = QueueUpdate(a, s[i])
    OBVIOUS
  <1>3. \A a \in W : \A i \in 1 .. n : QueueUpdate(a, s[i]) \in W
    BY <1>1, OneQueued
  <1>4. \A a \in W : \A i \in 1 .. n : g[<<a, i>>] \in W
    BY <1>2, <1>3
  <1> HIDE DEF n, W, g
  <1>5. w \in W
    BY DEF W
  <1>6. \A x \in D : x # {} => Max(x) \in 1 .. n /\ x \ {Max(x)} \in D
    BY <1>1, LargestIs, LargestIsMax
  <1>7. PICK f \in [D -> W] : f = [x \in D |-> IF x = {} THEN w ELSE g[<<f[x \ {Max(x)}], Max(x)>>]]
    <2>1. \E f \in [D -> W] : LargestFirst(f, n, w, g)
      BY <1>1, <1>4, <1>5, FoldFromLargest
    <2> QED BY <2>1, LargestIsMax DEF LargestFirst
  <1> DEFINE Fold(q) == q = [x \in D |-> IF x = {} THEN w ELSE QueueUpdate(q[x \ {Max(x)}], s[Max(x)])]
             q0 == CHOOSE q : Fold(q)
  <1>8. \A x \in D : x # {} => g[<<f[x \ {Max(x)}], Max(x)>>] = QueueUpdate(f[x \ {Max(x)}], s[Max(x)])
    BY <1>2, <1>6, <1>7
  <1>9. Fold(f)
    <2> HIDE DEF D
    <2> QED BY <1>7, <1>8
  <1>10. Fold(q0)
    <2> HIDE DEF Fold
    <2> QED BY <1>9
  <1>11. QueuedAll(w, s) = q0[DOMAIN s]
    BY <1>1 DEF QueuedAll, FoldLeft, MapThenFoldSet
  <1> HIDE DEF D
  <1>12. q0[{}] = w
    <2>1. {} \in D
      BY DEF D
    <2> HIDE DEF q0
    <2> QED BY <1>10, <2>1
  <1>13. ASSUME NEW i \in 1 .. n PROVE q0[1 .. i] = QueueUpdate(q0[1 .. i - 1], s[i])
    <2>1. 1 .. i \in D /\ 1 .. i # {} /\ Max(1 .. i) = i /\ (1 .. i) \ {i} = 1 .. i - 1
      BY <1>1, IntervalBefore, LargestIsMax DEF D
    <2> HIDE DEF q0
    <2>2. q0[1 .. i] = QueueUpdate(q0[(1 .. i) \ {Max(1 .. i)}], s[Max(1 .. i)])
      BY <1>10, <2>1
    <2> QED BY <2>1, <2>2
  <1> HIDE DEF q0
  <1> DEFINE P == {i \in 0 .. n : q0[1 .. i] \in W}
  <1>14. 1 .. 0 = {}
    OBVIOUS
  <1>15. \A i \in 0 .. n : q0[1 .. i] \in W
    <2>1. 0 \in P
      BY <1>1, <1>5, <1>12, <1>14
    <2>2. \A i \in 1 .. n : i - 1 \in P => i \in P
      <3> SUFFICES ASSUME NEW i \in 1 .. n, q0[1 .. i - 1] \in W PROVE q0[1 .. i] \in W /\ i \in 0 .. n
        OBVIOUS
      <3>1. i \in 0 .. n
        BY <1>1
      <3> QED BY <1>3, <1>13, <3>1
    <2> HIDE DEF P
    <2>3. 0 .. n \subseteq P
      BY <1>1, <2>1, <2>2, StepByStep
    <2> QED BY <2>3 DEF P
  <1>16. n \in 0 .. n
    BY <1>1
  <1>17. q0[1 .. n] \in W
    BY <1>15, <1>16
  <1> QED BY <1>1, <1>11, <1>17 DEF W

\* A drain shows what it takes from the queue, and leaves the rest there.
LEMMA Drained ==
    ASSUME NEW U, UpdateSet(U), NEW w \in OpenWindows(U), NEW x, x = DrainPendingUiUpdates(w), Budget \in Nat
    PROVE  x \in OpenWindows(U) /\ Carries(w, x)
  <1> DEFINE take == IF Budget < Len(w.pending) THEN Budget ELSE Len(w.pending)
             batch == SubSeq(w.pending, 1, take)
             rest == SubSeq(w.pending, take + 1, Len(w.pending))
             taken == [w EXCEPT !.pending = rest, !.scheduled = rest # <<>>]
             base == IF rest # <<>> THEN Post(taken, "drain") ELSE taken
  <1>1. x = ReceivedAll(base, LatestPerKey(batch))
    BY DEF DrainPendingUiUpdates, ReceivedAll
  <1>2. w.pending \in Seq(U)
    BY DEF OpenWindows, WindowsOf
  <1>3. Len(w.pending) \in Nat /\ DOMAIN w.pending = 1 .. Len(w.pending) /\ \A i \in DOMAIN w.pending : w.pending[i] \in U
    BY <1>2, SeqFacts
  <1>4. take \in 0 .. Len(w.pending) /\ take \in Nat
    BY <1>3
  <1> HIDE DEF take
  <1>5. batch \in Seq(U) /\ rest \in Seq(U)
    <2>1. \A i \in 1 .. take : w.pending[i] \in U
      BY <1>3, <1>4
    <2>2. \A i \in take + 1 .. Len(w.pending) : w.pending[i] \in U
      BY <1>3, <1>4
    <2>3. batch \in Seq(U)
      BY <1>4, <2>1, SubSeqProperties
    <2>4. rest \in Seq(U)
      <3> DEFINE m == take + 1
                 n == Len(w.pending)
      <3>1. m \in Int /\ n \in Int /\ \A i \in m .. n : w.pending[i] \in U
        BY <1>3, <1>4, <2>2
      <3> HIDE DEF m, n
      <3>2. SubSeq(w.pending, m, n) \in Seq(U)
        BY <3>1, SubSeqProperties
      <3> QED BY <3>2 DEF m, n
    <2> QED BY <2>3, <2>4
  <1>6. batch \o rest = w.pending
    <2>1. SubSeq(w.pending, 1, Len(w.pending)) = w.pending
      BY <1>2, SubSeqFull
    <2>2. 1 \in 1 .. Len(w.pending) + 1 /\ take \in 1 - 1 .. Len(w.pending) /\ Len(w.pending) \in take .. Len(w.pending)
      BY <1>3, <1>4
    <2>3. batch \o rest = SubSeq(w.pending, 1, Len(w.pending))
      BY <1>2, <2>2, ConcatAdjacentSubSeq
    <2> QED BY <2>1, <2>3
  <1> HIDE DEF batch, rest
  <1>7. taken \in OpenWindows(U) /\ taken.pending = rest /\ taken.tile = w.tile /\ taken.muted = w.muted
    <2>1. w \in WindowsOf(U)
      BY DEF OpenWindows
    <2>2. (rest # <<>>) \in BOOLEAN
      OBVIOUS
    <2>3. /\ taken \in WindowsOf(U) /\ taken.store = w.store /\ taken.lastSeq = w.lastSeq
          /\ taken.pending = rest /\ taken.tile = w.tile /\ taken.muted = w.muted /\ taken.zeroed = w.zeroed
      BY <1>5, <2>1, <2>2 DEF WindowsOf
    <2> HIDE DEF taken
    <2> QED BY <2>3, SameGate
  <1> HIDE DEF taken
  <1>8. base \in OpenWindows(U) /\ base.pending = rest /\ base.tile = w.tile /\ base.muted = w.muted
    BY <1>7, PostIs
  <1> HIDE DEF base
  <1> DEFINE l == LatestPerKey(batch)
  <1>9. l \in Seq(U) /\ \A t \in [Keys -> Nat] : After(t, l) = After(t, batch)
    BY <1>2, <1>5, LatestPerKeyIs
  <1>10. x = ReceivedAll(base, l)
    BY <1>1
  <1> HIDE DEF l
  <1>11. x \in OpenWindows(U) /\ x.pending = rest /\ \A t : Shows(base, t) => Shows(x, After(t, l))
    <2>1. x \in OpenWindows(U) /\ x.pending = base.pending /\ \A t : Shows(base, t) => Shows(x, After(t, l))
      BY <1>8, <1>9, <1>10, ManyReceived
    <2> QED BY <1>8, <2>1
  <1>12. ASSUME NEW t, Shows(w, t) PROVE Shows(x, After(t, l)) /\ After(After(t, l), x.pending) = After(t, w.pending)
    <2>1. t \in [Keys -> Nat] /\ Shows(base, t)
      BY <1>8, <1>12 DEF Shows
    <2>2. After(After(t, batch), rest) = After(t, batch \o rest)
      BY <1>5, <2>1, AfterConcat
    <2> QED BY <1>6, <1>9, <1>11, <2>1, <2>2
  <1> QED BY <1>11, <1>12 DEF Carries

\* There are no edits to be shown again.
LEMMA Reported ==
    ASSUME NEW U, NEW w \in OpenWindows(U), NEW x, x = OnConnectionStateChanged(w, "connected")
    PROVE  x \in OpenWindows(U) /\ x.pending = w.pending /\ x.tile = w.tile /\ x.muted = w.muted
  <1>1. PICK r : r = ResetSequenceTracking(w)
    OBVIOUS
  <1>2. w \in WindowsOf(U) /\ GateOpen(w)
    BY DEF OpenWindows
  <1>3. r \in WindowsOf(U) /\ r.pending = w.pending /\ r.tile = w.tile /\ r.muted = w.muted /\ GateOpen(r)
    BY <1>1, <1>2, ResetIs
  <1>4. r.tile \in [Keys -> Nat] /\ \A k \in Keys : r.edits[k] = NoEdit
    BY <1>3 DEF WindowsOf
  <1>5. r.tile = [k \in Keys |-> IF r.edits[k] = NoEdit THEN r.tile[k] ELSE r.edits[k]]
    BY <1>4
  <1>6. RepublishPluginControlEdits(r) = [r EXCEPT !.tile = r.tile]
    BY <1>5 DEF RepublishPluginControlEdits
  <1>7. [r EXCEPT !.tile = r.tile] = r
    BY <1>3 DEF WindowsOf
  <1>8. x = [r EXCEPT !.state = "connected", !.timer = FALSE, !.userOff = FALSE]
    BY <1>1, <1>6, <1>7 DEF OnConnectionStateChanged
  <1>9. /\ x \in WindowsOf(U) /\ x.pending = w.pending /\ x.tile = w.tile /\ x.muted = w.muted
        /\ x.store = r.store /\ x.lastSeq = r.lastSeq /\ x.zeroed = r.zeroed
    BY <1>3, <1>8 DEF WindowsOf
  <1>10. GateOpen(x)
    BY <1>3, <1>9 DEF GateOpen
  <1> QED BY <1>9, <1>10 DEF OpenWindows

-----------------------------------------------------------------------------
(* The recording *)

\* What is assumed of a recording.
LEMMA FileIs ==
    ASSUME NEW f \in Recordings
    PROVE  /\ f \in Seq(ReplayEvents) /\ Len(f) \in Nat /\ Len(f) # 0 /\ DOMAIN f = 1 .. Len(f)
           /\ \A i \in DOMAIN f : f[i] \in ReplayEvents
           /\ \A i \in DOMAIN f : \A j \in DOMAIN f : i <= j => f[i].at <= f[j].at
           /\ UpdateSet(UpdatesOf(f))
           /\ \A i \in DOMAIN f : f[i].kind = "data" => f[i] \in UpdatesOf(f)
  <1>1. /\ f \in Seq(ReplayEvents) /\ f # <<>>
        /\ \A i, j \in DOMAIN f : i <= j => f[i].at <= f[j].at
    BY ReplayAssumption
  <1>2. Len(f) \in Nat /\ DOMAIN f = 1 .. Len(f) /\ \A i \in DOMAIN f : f[i] \in ReplayEvents
    BY <1>1, SeqFacts
  <1>3. Len(f) # 0
    BY <1>1, EmptySeq
  <1>4. \A i \in DOMAIN f : f[i].kind = "data" => f[i] \in UpdatesOf(f)
    BY DEF UpdatesOf
  <1>5. UpdateSet(UpdatesOf(f))
    <2>1. \A u \in UpdatesOf(f) : \E i \in DOMAIN f : f[i].kind = "data" /\ u = f[i]
      BY DEF UpdatesOf
    <2>2. ASSUME NEW u \in UpdatesOf(f)
          PROVE  u \in [kind : {"data"}, at : Nat, key : Keys, value : Nat, seq : Nat]
      <3>1. PICK i \in DOMAIN f : f[i].kind = "data" /\ u = f[i]
        BY <2>1
      <3>2. u \in ReplayEvents /\ u.kind = "data"
        BY <1>2, <3>1
      <3> QED BY <3>2 DEF ReplayEvents
    <2> QED BY <2>2 DEF UpdateSet
  <1> QED BY <1>1, <1>2, <1>3, <1>4, <1>5

\* The events before a time are the first ones, and FindFirstEventAfterTime counts them.
LEMMA FindFirstIs ==
    ASSUME file \in Recordings, NEW t \in Nat, NEW n, n = FindFirstEventAfterTime(t)
    PROVE  n \in 0 .. Len(file) /\ \A i \in DOMAIN file : i <= n <=> file[i].at < t
  <1> DEFINE S == {i \in DOMAIN file : file[i].at < t}
             T == {i \in 1 .. Len(file) + 1 : i \notin S}
  <1>1. /\ Len(file) \in Nat /\ DOMAIN file = 1 .. Len(file)
        /\ \A i \in DOMAIN file : \A j \in DOMAIN file : i <= j => file[i].at <= file[j].at
        /\ \A i \in DOMAIN file : file[i].at \in Nat
    <2>1. \A i \in DOMAIN file : file[i] \in ReplayEvents
      BY FileIs
    <2>2. \A i \in DOMAIN file : file[i].at \in Nat
      BY <2>1 DEF ReplayEvents
    <2> QED BY <2>2, FileIs
  <1>2. n = Cardinality(S)
    BY DEF FindFirstEventAfterTime
  <1>3. T \subseteq Nat /\ T # {}
    <2>1. Len(file) + 1 \in T
      BY <1>1
    <2> QED BY <2>1
  <1>4. PICK m \in T : \A h \in T : m <= h
    BY <1>3, LeastNumber
  <1>5. m \in 1 .. Len(file) + 1 /\ m \notin S /\ m \in Nat /\ m - 1 \in 0 .. Len(file)
    BY <1>1, <1>4
  <1>6. \A i \in DOMAIN file : i <= m - 1 <=> file[i].at < t
    <2> SUFFICES ASSUME NEW i \in DOMAIN file PROVE i <= m - 1 <=> file[i].at < t
      OBVIOUS
    <2>1. i \in 1 .. Len(file) + 1 /\ i \in Int
      BY <1>1
    <2>2. ASSUME i <= m - 1 PROVE file[i].at < t
      <3>1. i \notin T
        BY <1>4, <1>5, <2>1, <2>2
      <3> QED BY <2>1, <3>1
    <2>3. ASSUME file[i].at < t, ~(i <= m - 1) PROVE FALSE
      <3>1. m <= i /\ m \in DOMAIN file
        BY <1>1, <1>5, <2>1, <2>3
      <3>2. file[m].at <= file[i].at
        BY <1>1, <3>1
      <3>3. file[m].at < t
        BY <1>1, <2>3, <3>1, <3>2
      <3> QED BY <1>5, <3>1, <3>3
    <2> QED BY <2>2, <2>3
  <1>7. S = 1 .. m - 1
    BY <1>1, <1>5, <1>6
  <1> DEFINE k == m - 1
  <1>8. k \in 0 .. Len(file) /\ k \in Nat /\ \A i \in DOMAIN file : i <= k <=> file[i].at < t
    BY <1>1, <1>5, <1>6
  <1>9. S = 1 .. k
    BY <1>7
  <1> HIDE DEF k, S
  <1>10. Cardinality(1 .. k) = k
    BY <1>8, FS_Interval
  <1> QED BY <1>2, <1>8, <1>9, <1>10

\* The last update of a key that is collected is the last one there was.
LEMMA CollectedLast ==
    ASSUME NEW E, NEW f \in Seq(E), NEW S, S \subseteq DOMAIN f, NEW c, c = Collected(f, S),
           NEW k, NEW i \in S, f[i].key = k, \A j \in S : f[j].key = k => j <= i
    PROVE  (\E j \in DOMAIN c : c[j].key = k) /\ c[LastOf(c, k)] = f[i]
  <1>1. Len(f) \in Nat /\ DOMAIN f = 1 .. Len(f)
    BY SeqFacts
  <1>2. IsFiniteSet(S) /\ S \subseteq Nat /\ Cardinality(S) \in Nat
    <2>1. IsFiniteSet(1 .. Len(f))
      BY <1>1, FS_Interval
    <2>2. IsFiniteSet(S)
      BY <1>1, <2>1, FS_Subset
    <2> QED BY <1>1, <2>2, FS_CardinalityType
  <1>3. DOMAIN c = 1 .. Cardinality(S) /\ \A j \in DOMAIN c : c[j] = f[Nth(S, j)]
    BY DEF Collected
  <1>4. \A j \in 1 .. Cardinality(S) : Nth(S, j) \in S
    BY <1>2, Numbering
  <1>5. PICK m \in 1 .. Cardinality(S) : Nth(S, m) = i
    BY <1>2, Numbering
  <1>6. m \in DOMAIN c /\ c[m] = f[i] /\ c[m].key = k
    BY <1>3, <1>5
  <1> DEFINE l == LastOf(c, k)
  <1>7. l \in DOMAIN c /\ c[l].key = k /\ m <= l
    BY <1>2, <1>3, <1>6, LastOfIs
  <1> HIDE DEF l
  <1>8. Nth(S, l) \in S /\ f[Nth(S, l)].key = k
    BY <1>3, <1>4, <1>7
  <1>9. Nth(S, l) <= i
    BY <1>8
  <1>10. l = m
    <2> SUFFICES ASSUME l # m PROVE FALSE
      OBVIOUS
    <2>1. l \in 1 .. Cardinality(S) /\ m < l
      BY <1>2, <1>3, <1>7
    <2>2. Nth(S, m) < Nth(S, l)
      BY <1>2, <2>1, NthGrows
    <2>3. i \in Int /\ Nth(S, l) \in Int
      BY <1>2, <1>8
    <2> QED BY <1>5, <1>9, <2>2, <2>3
  <1> QED BY <1>6, <1>10 DEF l

\* What is collected was there.
LEMMA CollectedKeys ==
    ASSUME NEW E, NEW f \in Seq(E), NEW S, S \subseteq DOMAIN f, NEW c, c = Collected(f, S),
           NEW j \in DOMAIN c
    PROVE  \E i \in S : c[j] = f[i]
  <1>1. Len(f) \in Nat /\ DOMAIN f = 1 .. Len(f)
    BY SeqFacts
  <1>2. IsFiniteSet(S) /\ S \subseteq Nat
    <2>1. IsFiniteSet(1 .. Len(f))
      BY <1>1, FS_Interval
    <2> QED BY <1>1, <2>1, FS_Subset
  <1>3. DOMAIN c = 1 .. Cardinality(S) /\ \A h \in DOMAIN c : c[h] = f[Nth(S, h)]
    BY DEF Collected
  <1>4. Nth(S, j) \in S
    BY <1>2, <1>3, Numbering
  <1> QED BY <1>3, <1>4

\* There is a last one among the places of a key.
LEMMA FinalExists ==
    ASSUME NEW f, NEW n \in Nat, NEW k, NEW i \in 1 .. n, f[i].kind = "data", f[i].key = k
    PROVE  \E m \in 1 .. n : Final(f, n, k, m)
  <1> DEFINE T == {m \in 1 .. n : f[m].kind = "data" /\ f[m].key = k}
  <1>1. T \subseteq 0 .. n /\ T # {}
    OBVIOUS
  <1>2. PICK m \in T : \A h \in T : h <= m
    BY <1>1, GreatestNumber
  <1>3. m \in 1 .. n /\ Final(f, n, k, m)
    BY <1>2 DEF Final
  <1> QED BY <1>3

\* LoadReplayFile and checkpoints: the value of a key is its last update's, or what was known before.
LEMMA AppliedIs ==
    ASSUME NEW latest, NEW f \in Seq(ReplayEvents), NEW A, A = Applied(latest, f), NEW k
    PROVE  /\ \A i \in DOMAIN f : Final(f, Len(f), k, i) => k \in DOMAIN A /\ A[k] = f[i]
           /\ (k \in DOMAIN latest /\ \A i \in DOMAIN f : ~(f[i].kind = "data" /\ f[i].key = k))
              => k \in DOMAIN A /\ A[k] = latest[k]
           /\ k \in DOMAIN A => \/ \E i \in DOMAIN f : Final(f, Len(f), k, i) /\ A[k] = f[i]
                                \/ k \in DOMAIN latest /\ A[k] = latest[k]
  <1> DEFINE S == {i \in DOMAIN f : f[i].kind = "data"}
             u == Collected(f, S)
             keys == {u[i].key : i \in DOMAIN u}
  <1>1. A = [j \in DOMAIN latest \cup keys |-> IF j \in keys THEN u[LastOf(u, j)] ELSE latest[j]]
    BY DEF Applied
  <1>2. S \subseteq DOMAIN f /\ \A i \in DOMAIN f : i \in S <=> f[i].kind = "data"
    OBVIOUS
  <1>3. Len(f) \in Nat /\ DOMAIN f = 1 .. Len(f)
    BY SeqFacts
  <1>4. u = Collected(f, S)
    OBVIOUS
  <1>5. \A j \in keys : \E i \in DOMAIN u : u[i].key = j
    OBVIOUS
  <1>6. \A i \in DOMAIN u : u[i].key \in keys
    OBVIOUS
  <1> HIDE DEF S, u, keys
  <1>7. ASSUME NEW i \in DOMAIN f, Final(f, Len(f), k, i) PROVE k \in keys /\ u[LastOf(u, k)] = f[i]
    <2>1. i \in S /\ f[i].key = k /\ \A j \in S : f[j].key = k => j <= i
      BY <1>2, <1>3, <1>7 DEF Final
    <2>2. (\E j \in DOMAIN u : u[j].key = k) /\ u[LastOf(u, k)] = f[i]
      BY <1>2, <1>4, <2>1, CollectedLast
    <2> QED BY <1>6, <2>2
  <1>8. ASSUME k \in keys PROVE \E i \in DOMAIN f : Final(f, Len(f), k, i)
    <2>1. PICK j \in DOMAIN u : u[j].key = k
      BY <1>5, <1>8
    <2>2. PICK h \in S : u[j] = f[h]
      BY <1>2, <1>4, CollectedKeys
    <2>3. h \in 1 .. Len(f) /\ f[h].kind = "data" /\ f[h].key = k
      BY <1>2, <1>3, <2>1, <2>2
    <2>4. \E m \in 1 .. Len(f) : Final(f, Len(f), k, m)
      BY <1>3, <2>3, FinalExists
    <2> QED BY <1>3, <2>4
  <1>9. ASSUME NEW i \in DOMAIN f, Final(f, Len(f), k, i) PROVE k \in DOMAIN A /\ A[k] = f[i]
    <2>1. k \in keys /\ u[LastOf(u, k)] = f[i]
      BY <1>7, <1>9
    <2> QED BY <1>1, <2>1
  <1>10. ASSUME k \in DOMAIN latest, \A i \in DOMAIN f : ~(f[i].kind = "data" /\ f[i].key = k)
         PROVE  k \in DOMAIN A /\ A[k] = latest[k]
    <2>1. k \notin keys
      BY <1>8, <1>10 DEF Final
    <2> QED BY <1>1, <1>10, <2>1
  <1>11. ASSUME k \in DOMAIN A
         PROVE  \/ \E i \in DOMAIN f : Final(f, Len(f), k, i) /\ A[k] = f[i]
                \/ k \in DOMAIN latest /\ A[k] = latest[k]
    <2>1. CASE k \in keys
      BY <1>8, <1>9, <2>1
    <2>2. CASE k \notin keys
      BY <1>1, <1>11, <2>2
    <2> QED BY <2>1, <2>2
  <1> QED BY <1>9, <1>10, <1>11

\* A beginning of the file, applied.
LEMMA BeginningIs ==
    ASSUME NEW f \in Recordings, NEW n \in 0 .. Len(f), NEW A, A = Applied(NoUpdates, SubSeq(f, 1, n)), NEW k
    PROVE  /\ \A i \in 1 .. n : Final(f, n, k, i) => k \in DOMAIN A /\ A[k] = f[i]
           /\ k \in DOMAIN A => \E i \in 1 .. n : Final(f, n, k, i) /\ A[k] = f[i]
  <1> DEFINE s == SubSeq(f, 1, n)
  <1>1. f \in Seq(ReplayEvents) /\ Len(f) \in Nat /\ DOMAIN f = 1 .. Len(f) /\ \A i \in DOMAIN f : f[i] \in ReplayEvents
    BY FileIs
  <1>2. n \in Nat /\ \A i \in 1 .. n : f[i] \in ReplayEvents
    BY <1>1
  <1>3. s \in Seq(ReplayEvents) /\ Len(s) = n /\ \A i \in 1 .. n : s[i] = f[i]
    <2>1. /\ s \in Seq(ReplayEvents)
          /\ Len(s) = IF 1 <= n THEN n - 1 + 1 ELSE 0
          /\ \A i \in 1 .. n - 1 + 1 : s[i] = f[1 + i - 1]
      BY <1>2, SubSeqProperties
    <2> QED BY <1>2, <2>1
  <1> HIDE DEF s
  <1>4. DOMAIN s = 1 .. n
    BY <1>3, SeqFacts
  <1>5. \A i \in 1 .. n : Final(s, n, k, i) <=> Final(f, n, k, i)
    BY <1>3 DEF Final
  <1>6. A = Applied(NoUpdates, s)
    BY DEF s
  <1>7. /\ \A i \in DOMAIN s : Final(s, Len(s), k, i) => k \in DOMAIN A /\ A[k] = s[i]
        /\ k \in DOMAIN A => \/ \E i \in DOMAIN s : Final(s, Len(s), k, i) /\ A[k] = s[i]
                             \/ k \in DOMAIN NoUpdates /\ A[k] = NoUpdates[k]
    BY <1>3, <1>6, AppliedIs
  <1>8. DOMAIN NoUpdates = {}
    BY DEF NoUpdates
  <1> QED BY <1>3, <1>4, <1>5, <1>7, <1>8

\* FindCheckpointForEvent: the checkpoint is not behind the event.
LEMMA CheckpointIs ==
    ASSUME file \in Recordings, NEW t \in 0 .. Len(file), NEW from, from = FindCheckpointForEvent(t)
    PROVE  /\ from \in 0 .. Len(file) - 1 /\ from <= t /\ from \in CheckpointIndices
           /\ t \in CheckpointIndices => from = t
  <1> DEFINE T == {i \in CheckpointIndices : i <= t}
  <1>1. Len(file) \in Nat /\ Len(file) # 0 /\ t \in Nat
    BY FileIs
  <1>2. T \subseteq 0 .. t /\ 0 \in T
    <2>1. 0 % Stride = 0
      BY ReplayAssumption
    <2>2. 0 \in CheckpointIndices
      BY <1>1, <2>1 DEF CheckpointIndices
    <2>3. \A i \in CheckpointIndices : i \in Nat
      BY <1>1 DEF CheckpointIndices
    <2> QED BY <1>1, <2>2, <2>3
  <1>3. PICK m \in T : \A i \in T : i <= m
    BY <1>1, <1>2, GreatestNumber
  <1>4. m \in CheckpointIndices /\ m <= t /\ \A j \in CheckpointIndices : j <= t => j <= m
    BY <1>3
  <1>5. from \in CheckpointIndices /\ from <= t /\ \A j \in CheckpointIndices : j <= t => j <= from
    BY <1>4 DEF FindCheckpointForEvent
  <1>6. from \in 0 .. Len(file) - 1
    BY <1>5 DEF CheckpointIndices
  <1>7. ASSUME t \in CheckpointIndices PROVE from = t
    BY <1>1, <1>5, <1>6, <1>7
  <1> QED BY <1>5, <1>6, <1>7

Rebuilt(t) == IF t \in CheckpointIndices THEN t + 1 ELSE t

\* What a checkpoint and the events after it make are the values of all events up to there.
LEMMA ReconstructedIs ==
    ASSUME file \in Recordings, NEW t \in 0 .. Len(file), NEW A, A = Reconstructed(t), NEW r, r = Rebuilt(t)
    PROVE  /\ r \in 0 .. Len(file) /\ t <= r /\ r <= t + 1
           /\ \A k \in DOMAIN A : k \in Keys /\ A[k] \in UpdatesOf(file) /\ A[k].key = k
           /\ \A k \in Keys : \A i \in 1 .. r : Final(file, r, k, i) => k \in DOMAIN A /\ A[k] = file[i]
  <1> DEFINE from == FindCheckpointForEvent(t)
             m == from + 1
             B == Checkpoint(from)
             e == SubSeq(file, from + 1, t)
             n == Len(file)
  <1>1. file \in Seq(ReplayEvents) /\ n \in Nat /\ n # 0 /\ DOMAIN file = 1 .. n
        /\ \A i \in DOMAIN file : file[i] \in ReplayEvents
    BY FileIs
  <1>2. from \in 0 .. n - 1 /\ from <= t /\ from \in CheckpointIndices /\ (t \in CheckpointIndices => from = t)
    BY CheckpointIs
  <1>3. A = Applied(B, e)
    BY DEF Reconstructed
  <1> HIDE DEF from, n
  <1>4. r \in 0 .. n /\ t <= r /\ r <= t + 1
    BY <1>1, <1>2 DEF Rebuilt, n, CheckpointIndices
  <1>5. B = Applied(NoUpdates, SubSeq(file, 1, m)) /\ m \in 0 .. n
    BY <1>1, <1>2 DEF Checkpoint
  <1>6. t \in Int /\ from \in Int /\ r \in Int /\ m = from + 1 /\ t <= n /\ m <= n
    BY <1>1, <1>2, <1>4 DEF n
  <1>7. m <= r /\ t <= r /\ (r = t \/ (r = m /\ from = t))
    <2>1. CASE t \in CheckpointIndices
      BY <1>2, <1>6, <2>1 DEF Rebuilt
    <2>2. CASE t \notin CheckpointIndices
      <3>1. r = t
        BY <2>2 DEF Rebuilt
      <3>2. from # t
        BY <1>2, <2>2
      <3> QED BY <1>2, <1>6, <3>1, <3>2
    <2> QED BY <2>1, <2>2
  <1>8. e \in Seq(ReplayEvents) /\ Len(e) = t - from /\ \A i \in 1 .. t - from : e[i] = file[from + i]
    <2> DEFINE a == from + 1
    <2>1. \A i \in a .. t : file[i] \in ReplayEvents
      BY <1>1, <1>2, <1>6
    <2>2. a \in Int /\ t \in Int
      BY <1>6
    <2> HIDE DEF a
    <2>3. /\ SubSeq(file, a, t) \in Seq(ReplayEvents)
          /\ Len(SubSeq(file, a, t)) = IF a <= t THEN t - a + 1 ELSE 0
          /\ \A i \in 1 .. t - a + 1 : SubSeq(file, a, t)[i] = file[a + i - 1]
      BY <2>1, <2>2, SubSeqProperties
    <2>4. e = SubSeq(file, a, t) /\ a = from + 1
      BY DEF a
    <2>5. Len(e) = t - from
      BY <1>2, <1>6, <2>3, <2>4
    <2>6. \A i \in 1 .. t - from : e[i] = file[from + i]
      <3>1. t - a + 1 = t - from
        BY <1>6, <2>4
      <3>2. \A i \in 1 .. t - from : a + i - 1 = from + i
        BY <1>6, <2>4
      <3> QED BY <2>3, <2>4, <3>1, <3>2
    <2> QED BY <2>3, <2>4, <2>5, <2>6
  <1> HIDE DEF e, B
  <1>9. DOMAIN e = 1 .. t - from
    BY <1>8, SeqFacts
  <1>10. ASSUME NEW k
         PROVE  /\ \A i \in 1 .. m : Final(file, m, k, i) => k \in DOMAIN B /\ B[k] = file[i]
                /\ k \in DOMAIN B => \E i \in 1 .. m : Final(file, m, k, i) /\ B[k] = file[i]
    <2> HIDE DEF m
    <2>1. file \in Recordings /\ m \in 0 .. Len(file) /\ B = Applied(NoUpdates, SubSeq(file, 1, m))
      BY <1>5 DEF n
    <2> QED BY <2>1, BeginningIs
  <1>11. ASSUME NEW k
         PROVE  /\ \A i \in DOMAIN e : Final(e, Len(e), k, i) => k \in DOMAIN A /\ A[k] = e[i]
                /\ (k \in DOMAIN B /\ \A i \in DOMAIN e : ~(e[i].kind = "data" /\ e[i].key = k))
                   => k \in DOMAIN A /\ A[k] = B[k]
                /\ k \in DOMAIN A => \/ \E i \in DOMAIN e : Final(e, Len(e), k, i) /\ A[k] = e[i]
                                     \/ k \in DOMAIN B /\ A[k] = B[k]
    BY <1>3, <1>8, AppliedIs
  <1> HIDE DEF m
  <1>12. ASSUME NEW i \in 1 .. n, NEW k, file[i].kind = "data", file[i].key = k
         PROVE  k \in Keys /\ file[i] \in UpdatesOf(file) /\ file[i].key = k
    <2>1. file[i] \in ReplayEvents
      BY <1>1
    <2> QED BY <1>1, <1>12, <2>1, FileIs DEF ReplayEvents
  <1>13. ASSUME NEW k \in DOMAIN A PROVE k \in Keys /\ A[k] \in UpdatesOf(file) /\ A[k].key = k
    <2>1. CASE \E i \in DOMAIN e : Final(e, Len(e), k, i) /\ A[k] = e[i]
      <3>1. PICK i \in 1 .. t - from : A[k] = e[i] /\ e[i].kind = "data" /\ e[i].key = k
        BY <1>9, <2>1 DEF Final
      <3>2. from + i \in 1 .. n
        <4>1. i \in Int /\ 1 <= i /\ i <= t - from /\ 0 <= from /\ n \in Int
          BY <1>1, <1>2, <1>6
        <4> QED BY <1>6, <4>1
      <3>3. e[i] = file[from + i]
        BY <1>8
      <3> QED BY <1>12, <3>1, <3>2, <3>3
    <2>2. CASE k \in DOMAIN B /\ A[k] = B[k]
      <3>1. PICK i \in 1 .. m : Final(file, m, k, i) /\ B[k] = file[i]
        BY <1>10, <2>2
      <3>2. i \in 1 .. n
        BY <1>1, <1>5, <1>6
      <3>3. file[i].kind = "data" /\ file[i].key = k
        BY <3>1 DEF Final
      <3> QED BY <1>12, <2>2, <3>1, <3>2, <3>3
    <2> QED BY <1>11, <2>1, <2>2
  <1>14. ASSUME NEW k \in Keys, NEW i \in 1 .. r, Final(file, r, k, i)
         PROVE  k \in DOMAIN A /\ A[k] = file[i]
    <2>1. /\ file[i].kind = "data" /\ file[i].key = k /\ i \in Int
          /\ \A j \in 1 .. r : file[j].kind = "data" /\ file[j].key = k => j <= i
      BY <1>14 DEF Final
    <2>2. CASE \E j \in DOMAIN e : e[j].kind = "data" /\ e[j].key = k
      <3>1. PICK j \in 1 .. t - from : e[j].kind = "data" /\ e[j].key = k
        BY <1>9, <2>2
      <3>2. from + j \in 1 .. r /\ file[from + j] = e[j] /\ t # from
        BY <1>2, <1>6, <1>7, <1>8
      <3>3. from + j <= i /\ r = t
        BY <1>7, <2>1, <3>1, <3>2
      <3>4. i - from \in 1 .. t - from /\ from + (i - from) = i
        BY <1>2, <1>6, <2>1, <3>3
      <3>5. e[i - from] = file[i]
        BY <1>8, <3>4
      <3>6. ASSUME NEW h \in 1 .. t - from, e[h].kind = "data", e[h].key = k PROVE h <= i - from
        <4>1. from + h \in 1 .. r /\ file[from + h] = e[h]
          BY <1>2, <1>6, <1>8, <3>3
        <4>2. from + h <= i
          BY <2>1, <3>6, <4>1
        <4> QED BY <1>6, <2>1, <4>2
      <3>7. Final(e, Len(e), k, i - from)
        BY <1>8, <2>1, <3>4, <3>5, <3>6 DEF Final
      <3>8. k \in DOMAIN A /\ A[k] = e[i - from]
        BY <1>9, <1>11, <3>4, <3>7
      <3> QED BY <3>5, <3>8
    <2>3. CASE ~ \E j \in DOMAIN e : e[j].kind = "data" /\ e[j].key = k
      <3>1. i <= m
        <4> SUFFICES ASSUME ~(i <= m) PROVE FALSE
          OBVIOUS
        <4>1. r = t
          BY <1>6, <1>7, <2>1
        <4>2. i - from \in 1 .. t - from /\ from + (i - from) = i
          BY <1>2, <1>6, <2>1, <4>1
        <4>3. e[i - from] = file[i]
          BY <1>8, <4>2
        <4> QED BY <1>9, <2>1, <2>3, <4>2, <4>3
      <3>2. i \in 1 .. m /\ \A j \in 1 .. m : j \in 1 .. r
        BY <1>6, <1>7, <2>1, <3>1
      <3>3. Final(file, m, k, i)
        BY <2>1, <3>2 DEF Final
      <3>4. k \in DOMAIN B /\ B[k] = file[i]
        BY <1>10, <3>2, <3>3
      <3>5. k \in DOMAIN A /\ A[k] = B[k]
        BY <1>11, <2>3, <3>4
      <3> QED BY <3>4, <3>5
    <2> QED BY <2>2, <2>3
  <1> QED BY <1>4, <1>13, <1>14 DEF n

\* The values of a seek are shown.
LEMMA SeekReceived ==
    ASSUME NEW U, UpdateSet(U), NEW w \in OpenWindows(U), IsFiniteSet(Keys), NEW R,
           \A k \in DOMAIN R : k \in Keys /\ R[k] \in U /\ R[k].key = k,
           NEW x, x = Received(w, R)
    PROVE  /\ x \in OpenWindows(U) /\ x.pending = w.pending
           /\ \E t : Shows(x, t) /\ \A k \in DOMAIN R : t[k] = R[k].value
  <1> DEFINE D == DOMAIN R
             c == Cardinality(D)
             keys == SetToSeq(D)
             s == [i \in DOMAIN keys |-> R[keys[i]]]
  <1>1. D \in SUBSET Keys
    OBVIOUS
  <1>2. IsFiniteSet(D) /\ c \in Nat /\ ExistsBijection(1 .. c, D)
    BY <1>1, FS_Subset, FS_CardinalityType
  <1> HIDE DEF D, c
  <1>3. keys \in [1 .. c -> D] /\ IsInjective(keys)
    <2>1. PICK b : b \in Bijection(1 .. c, D)
      BY <1>2 DEF ExistsBijection
    <2>2. b \in [1 .. c -> D] /\ IsInjective(b)
      BY <2>1 DEF Bijection, Injection, Surjection
    <2> QED BY <2>2 DEF SetToSeq, c
  <1> HIDE DEF keys
  <1>4. \A k \in D : \E i \in 1 .. c : keys[i] = k
    <2>1. keys \in Injection(1 .. c, D)
      BY <1>3 DEF Injection
    <2>2. Cardinality(1 .. c) = c
      BY <1>2, FS_Interval
    <2>3. keys \in Surjection(1 .. c, D)
      BY <1>2, <2>1, <2>2, FS_Injection DEF c
    <2> QED BY <2>3 DEF Surjection
  <1>5. DOMAIN keys = 1 .. c /\ \A i \in 1 .. c : keys[i] \in D
    BY <1>3
  <1>6. DOMAIN s = 1 .. c /\ \A i \in 1 .. c : s[i] = R[keys[i]] /\ s[i].key = keys[i] /\ s[i] \in U
    BY <1>5 DEF D
  <1>7. s \in Seq(U)
    <2>1. s \in [1 .. c -> U]
      BY <1>5, <1>6
    <2> HIDE DEF s
    <2> QED BY <1>2, <2>1, SeqDef
  <1>8. x = ReceivedAll(w, s)
    BY DEF Received, ReceivedAll, D, keys
  <1> HIDE DEF s
  <1>9. x \in OpenWindows(U) /\ x.pending = w.pending /\ \A t : Shows(w, t) => Shows(x, After(t, s))
    BY <1>7, <1>8, ManyReceived
  <1>11. Shows(w, w.tile)
    BY DEF Shows, OpenWindows, WindowsOf
  <1>10. ASSUME NEW k \in D PROVE After(w.tile, s)[k] = R[k].value
    <2>1. PICK i \in 1 .. c : keys[i] = k
      BY <1>4
    <2>2. i \in DOMAIN s /\ s[i].key = k
      BY <1>6, <2>1
    <2>3. LastOf(s, k) \in DOMAIN s /\ s[LastOf(s, k)].key = k
      BY <1>2, <1>6, <2>2, LastOfIs
    <2>4. s[LastOf(s, k)] = R[k]
      BY <1>6, <2>3
    <2>5. k \in Keys
      BY <1>1
    <2>6. After(w.tile, s)[k] = s[LastOf(s, k)].value
      BY <2>2, <2>5 DEF After
    <2> QED BY <2>4, <2>6
  <1> QED BY <1>9, <1>10, <1>11 DEF D

\* After s, the tiles show the last updates among those after next, up to the to-th.
Continues(f, to, next, s) ==
    /\ \A tile : \A k \in Keys : \A i \in 1 .. to :
          i > next /\ Final(f, to, k, i) => After(tile, s)[k] = f[i].value
    /\ \A tile : \A k \in Keys :
          (\A i \in next + 1 .. to : ~(f[i].kind = "data" /\ f[i].key = k)) => After(tile, s)[k] = tile[k]

\* What a tick passes is the last there is of every key.
LEMMA PassedIs ==
    ASSUME file \in Recordings, NEW from, NEW to \in 0 .. Len(file), NEW next \in 0 .. Len(file),
           \A i \in DOMAIN file : i > next => file[i].at >= from,
           NEW b, b = Passed(from, to, next)
    PROVE  /\ b \in Seq(UpdatesOf(file))
           /\ to <= next => b = <<>>
           /\ Continues(file, to, next, b)
  <1> DEFINE S == {i \in next + 1 .. to : file[i].kind = "data" /\ file[i].at >= from}
             n == Len(file)
  <1>1. file \in Seq(ReplayEvents) /\ n \in Nat /\ DOMAIN file = 1 .. n
    BY FileIs
  <1>2. b = Collected(file, S)
    BY DEF Passed
  <1>3. to \in Int /\ next \in Int /\ 0 <= next /\ to <= n
    BY <1>1
  <1> HIDE DEF n
  <1>4. \A i \in next + 1 .. to : i \in DOMAIN file /\ i \in 1 .. to /\ i > next /\ i \in Int
    BY <1>1, <1>3
  <1>5. S \subseteq DOMAIN file /\ \A i \in next + 1 .. to : i \in S <=> file[i].kind = "data"
    BY <1>4
  <1>6. \A i \in S : file[i].kind = "data" /\ i \in next + 1 .. to
    OBVIOUS
  <1>7. to <= next => S = {}
    BY <1>3, <1>4
  <1> HIDE DEF S
  <1>8. IsFiniteSet(S) /\ S \subseteq Nat
    <2>1. IsFiniteSet(1 .. n)
      BY <1>1, FS_Interval
    <2> QED BY <1>1, <1>5, <2>1, FS_Subset
  <1>9. b \in Seq(UpdatesOf(file)) /\ Len(b) = Cardinality(S)
    <2>1. \A i \in S : file[i] \in UpdatesOf(file)
      BY <1>5, <1>6, FileIs
    <2> QED BY <1>2, <1>8, <2>1, CollectedSeq
  <1>10. ASSUME to <= next PROVE b = <<>>
    <2>1. Cardinality(S) = 0
      BY <1>7, <1>10, FS_EmptySet
    <2> QED BY <1>9, <2>1, EmptySeq
  <1>11. ASSUME NEW tile, NEW k \in Keys, NEW i \in 1 .. to, i > next, Final(file, to, k, i)
         PROVE  After(tile, b)[k] = file[i].value
    <2>1. i \in S /\ file[i].key = k /\ \A j \in S : file[j].key = k => j <= i
      BY <1>3, <1>4, <1>5, <1>6, <1>11 DEF Final
    <2>2. (\E j \in DOMAIN b : b[j].key = k) /\ b[LastOf(b, k)] = file[i]
      BY <1>1, <1>2, <1>5, <2>1, CollectedLast
    <2> QED BY <2>2 DEF After
  <1>12. ASSUME NEW tile, NEW k \in Keys, \A i \in next + 1 .. to : ~(file[i].kind = "data" /\ file[i].key = k)
         PROVE  After(tile, b)[k] = tile[k]
    <2>1. ASSUME NEW j \in DOMAIN b, b[j].key = k PROVE FALSE
      <3>1. PICK i \in S : b[j] = file[i]
        BY <1>1, <1>2, <1>5, CollectedKeys
      <3> QED BY <1>6, <1>12, <2>1, <3>1
    <2> QED BY <2>1 DEF After
  <1> QED BY <1>9, <1>10, <1>11, <1>12 DEF Continues

-----------------------------------------------------------------------------
(* The steps *)

\* A cursor stays in the recording.
LEMMA ClampedIs ==
    ASSUME file \in Recordings, NEW time \in Nat, NEW c, c = Clamped(time)
    PROVE  c \in 0 .. file[Len(file)].at /\ c \in Nat
  <1>1. file[Len(file)] \in ReplayEvents
    BY FileIs
  <1>2. file[Len(file)].at \in Nat
    BY <1>1 DEF ReplayEvents
  <1> QED BY <1>2 DEF Clamped, Duration

\* SeekPlaybackUs: what it rebuilds makes the tiles right, whatever they were.
LEMMA SeekOK ==
    ASSUME file \in Recordings, NEW w \in OpenWindows(UpdatesOf(file)), NEW p \in PlayersOf(file),
           NEW b, b \subseteq 0 .. file[Len(file)].at,
           NEW c \in 0 .. file[Len(file)].at, NEW t, t = FindFirstEventAfterTime(c),
           NEW x, x = Received(w, Reconstructed(t)), NEW q, q = [p EXCEPT !.cursor = c, !.next = t],
           NEW r, r = Rebuilt(t), NEW o, o = (p.batch # <<>> \/ w.pending # <<>>)
    PROVE  PlayerOK(file, q, x, b, r, o)
  <1> DEFINE U == UpdatesOf(file)
             R == Reconstructed(t)
  <1>1. UpdateSet(U) /\ DOMAIN file = 1 .. Len(file) /\ Len(file) \in Nat /\ \A i \in DOMAIN file : file[i].at \in Nat
    <2>1. \A i \in DOMAIN file : file[i] \in ReplayEvents
      BY FileIs
    <2>2. \A i \in DOMAIN file : file[i].at \in Nat
      BY <2>1 DEF ReplayEvents
    <2> QED BY <2>2, FileIs
  <1>2. c \in Nat
    OBVIOUS
  <1>3. t \in 0 .. Len(file) /\ \A i \in DOMAIN file : i <= t <=> file[i].at < c
    BY <1>2, FindFirstIs
  <1>4. /\ r \in 0 .. Len(file) /\ t <= r /\ r <= t + 1
        /\ \A k \in DOMAIN R : k \in Keys /\ R[k] \in U /\ R[k].key = k
        /\ \A k \in Keys : \A i \in 1 .. r : Final(file, r, k, i) => k \in DOMAIN R /\ R[k] = file[i]
    BY <1>3, ReconstructedIs
  <1>5. IsFiniteSet(Keys)
    BY ReplayAssumption
  <1> HIDE DEF U, R
  <1>6. x = Received(w, R) /\ w \in OpenWindows(U)
    BY DEF R, U
  <1>7. /\ x \in OpenWindows(U) /\ x.pending = w.pending
        /\ \E y : Shows(x, y) /\ \A k \in DOMAIN R : y[k] = R[k].value
    BY <1>1, <1>4, <1>5, <1>6, SeekReceived
  <1>8. /\ q \in PlayersOf(file) /\ q.batch = p.batch /\ q.next = t /\ q.cursor = c
    BY <1>3 DEF PlayersOf
  <1>9. TypesOf(file, q, x, b, r, o)
    <2>1. (p.batch # <<>> \/ w.pending # <<>>) \in BOOLEAN
      OBVIOUS
    <2>2. o \in BOOLEAN
      BY <2>1
    <2> QED BY <1>4, <1>7, <1>8, <2>2 DEF TypesOf, U
  <1>10. InPlace(file, q, r)
    <2>1. ASSUME NEW i \in DOMAIN file, i > t PROVE file[i].at >= c
      <3>1. i \in Int /\ t \in Int /\ ~(i <= t)
        BY <1>1, <1>3, <2>1
      <3>2. ~(file[i].at < c)
        BY <1>3, <3>1
      <3> QED BY <1>1, <1>2, <3>2
    <2> QED BY <1>4, <1>8, <2>1 DEF InPlace
  <1>11. ASSUME ~o PROVE OnTheWay(file, q, x, r)
    <2>1. p.batch = <<>> /\ w.pending = <<>>
      BY <1>11
    <2>7. PICK y : Shows(x, y) /\ \A k \in DOMAIN R : y[k] = R[k].value
      BY <1>7
    <2>2. y \in [Keys -> Nat]
      BY <2>7 DEF Shows
    <2>3. After(y, x.pending) = y
      BY <1>7, <2>1, <2>2, AfterNothing
    <2>4. After(After(y, x.pending), q.batch) = y
      BY <1>8, <2>1, <2>2, <2>3, AfterNothing
    <2>5. (IF r > q.next THEN r ELSE q.next) = r
      BY <1>1, <1>3, <1>4, <1>8
    <2>6. Right(y, file, r)
      BY <1>4, <2>7 DEF Right
    <2> QED BY <2>4, <2>5, <2>6, <2>7 DEF OnTheWay
  <1> QED BY <1>9, <1>10, <1>11 DEF PlayerOK

\* A tick of the worker: what it collects makes the tiles right at the new position.
LEMMA TickOK ==
    ASSUME NEW p, NEW w, NEW b, NEW r, NEW o, PlayerOK(file, p, w, b, r, o), p.running, p.batch = <<>>,
           NEW c \in 0 .. file[Len(file)].at, NEW t, t = FindFirstEventAfterTime(c), NEW d \in BOOLEAN,
           NEW q, q = [p EXCEPT !.cursor = c, !.next = IF t > @ THEN t ELSE @,
                                !.batch = Passed(p.cursor, t, p.next), !.playing = d]
    PROVE  PlayerOK(file, q, w, b, r, o)
  <1> DEFINE n == IF t > p.next THEN t ELSE p.next
             m == IF r > p.next THEN r ELSE p.next
             z == IF r > q.next THEN r ELSE q.next
             s == Passed(p.cursor, t, p.next)
  <1>1. TypesOf(file, p, w, b, r, o) /\ InPlace(file, p, r) /\ (o \/ OnTheWay(file, p, w, r))
    BY DEF PlayerOK
  <1>2. /\ file \in Recordings /\ p \in PlayersOf(file) /\ p.next \in 0 .. Len(file)
        /\ r \in 0 .. Len(file) /\ w \in OpenWindows(UpdatesOf(file))
    BY <1>1 DEF TypesOf, PlayersOf
  <1>3. Len(file) \in Nat /\ DOMAIN file = 1 .. Len(file) /\ UpdateSet(UpdatesOf(file))
        /\ \A i \in DOMAIN file : file[i].at \in Nat
    <2>1. \A i \in DOMAIN file : file[i] \in ReplayEvents
      BY <1>2, FileIs
    <2>2. \A i \in DOMAIN file : file[i].at \in Nat
      BY <2>1 DEF ReplayEvents
    <2> QED BY <1>2, <2>2, FileIs
  <1>4. c \in Nat
    OBVIOUS
  <1>5. t \in 0 .. Len(file) /\ \A i \in DOMAIN file : i <= t <=> file[i].at < c
    BY <1>2, <1>4, FindFirstIs
  <1>6. \A i \in DOMAIN file : i > p.next => file[i].at >= p.cursor
    BY <1>1 DEF InPlace
  <1> DEFINE next == p.next
             from == p.cursor
  <1>16. /\ file \in Recordings /\ t \in 0 .. Len(file) /\ next \in 0 .. Len(file)
         /\ \A i \in DOMAIN file : i > next => file[i].at >= from
         /\ s = Passed(from, t, next)
    BY <1>2, <1>5, <1>6
  <1>17. /\ s \in Seq(UpdatesOf(file))
         /\ t <= next => s = <<>>
         /\ Continues(file, t, next, s)
    <2> HIDE DEF next, from, s
    <2> QED BY <1>16, PassedIs
  <1>7. s \in Seq(UpdatesOf(file)) /\ (t <= p.next => s = <<>>)
    BY <1>17
  <1>8. /\ \A tile : \A k \in Keys : \A i \in 1 .. t :
              i > p.next /\ Final(file, t, k, i) => After(tile, s)[k] = file[i].value
        /\ \A tile : \A k \in Keys :
              (\A i \in p.next + 1 .. t : ~(file[i].kind = "data" /\ file[i].key = k)) => After(tile, s)[k] = tile[k]
    <2> HIDE DEF s
    <2> QED BY <1>17 DEF Continues
  <1> HIDE DEF next, from
  <1>9. q = [p EXCEPT !.cursor = c, !.next = n, !.batch = s, !.playing = d]
    BY <1>2 DEF PlayersOf
  <1> HIDE DEF s
  <1>10. n \in 0 .. Len(file) /\ n >= t /\ n >= p.next /\ n \in Int /\ t \in Int /\ p.next \in Int /\ r \in Int
    BY <1>2, <1>3, <1>5
  <1>11. /\ q \in PlayersOf(file) /\ q.cursor = c /\ q.next = n /\ q.batch = s /\ q.running
    <2> HIDE DEF n
    <2> QED BY <1>2, <1>7, <1>9, <1>10 DEF PlayersOf
  <1>12. TypesOf(file, q, w, b, r, o)
    BY <1>1, <1>11 DEF TypesOf
  <1>13. r <= p.next + 1
    BY <1>1 DEF InPlace
  <1>14. InPlace(file, q, r)
    <2>1. ASSUME NEW i \in DOMAIN file, i > n PROVE file[i].at >= c
      <3>1. i \in Int /\ ~(i <= t)
        <4> HIDE DEF n
        <4> QED BY <1>3, <1>10, <2>1
      <3>2. ~(file[i].at < c)
        BY <1>5, <3>1
      <3> QED BY <1>3, <1>4, <3>2
    <2>2. r <= n + 1
      <3> HIDE DEF n
      <3> QED BY <1>10, <1>13
    <2> HIDE DEF n
    <2> QED BY <1>11, <2>1, <2>2 DEF InPlace
  <1>15. ASSUME OnTheWay(file, p, w, r) PROVE OnTheWay(file, q, w, r)
    <2>6. PICK y : Shows(w, y) /\ Right(After(After(y, w.pending), <<>>), file, m)
      BY <1>15 DEF OnTheWay
    <2> DEFINE tile == After(y, w.pending)
    <2>1. Right(After(tile, <<>>), file, m)
      BY <2>6
    <2>2. tile \in [Keys -> Nat]
      <3>1. y \in [Keys -> Nat] /\ w.pending \in Seq(UpdatesOf(file))
        BY <1>2, <2>6 DEF OpenWindows, WindowsOf, Shows
      <3> QED BY <1>3, <3>1, AfterType
    <2>3. Right(tile, file, m)
      <3> HIDE DEF tile, m
      <3>1. After(tile, <<>>) = tile
        BY <2>2, AfterNothing
      <3> QED BY <2>1, <3>1
    <2>4. z = IF r > n THEN r ELSE n
      BY <1>11
    <2>5. Right(After(tile, s), file, z)
      <3>1. CASE t <= p.next
        <4>1. n = p.next /\ s = <<>>
          BY <1>7, <1>10, <3>1
        <4>2. z = m
          BY <2>4, <4>1
        <4> QED BY <2>1, <4>1, <4>2
      <3>2. CASE ~(t <= p.next)
        <4>1. n = t /\ z = t /\ m <= t /\ p.next <= m /\ m \in Int
          BY <1>10, <1>13, <2>4, <3>2
        <4> HIDE DEF tile, m, z, n
        <4> SUFFICES ASSUME NEW k \in Keys, NEW i \in 1 .. t, Final(file, t, k, i)
                     PROVE  After(tile, s)[k] = file[i].value
          BY <4>1 DEF Right
        <4>2. CASE i > p.next
          BY <1>8, <4>2
        <4>3. CASE ~(i > p.next)
          <5>1. i \in Int /\ i <= p.next
            BY <1>10, <4>3
          <5>2. ASSUME NEW j \in p.next + 1 .. t, file[j].kind = "data" /\ file[j].key = k PROVE FALSE
            <6>1. j \in 1 .. t /\ ~(j <= i)
              BY <1>2, <1>10, <5>1
            <6> QED BY <5>2, <6>1 DEF Final
          <5>3. After(tile, s)[k] = tile[k]
            BY <1>8, <5>2
          <5>4. i \in 1 .. m /\ \A j \in 1 .. m : j \in 1 .. t
            BY <1>10, <4>1, <5>1
          <5>5. Final(file, m, k, i)
            BY <5>4 DEF Final
          <5>6. tile[k] = file[i].value
            BY <2>3, <5>4, <5>5 DEF Right
          <5> QED BY <5>3, <5>6
        <4> QED BY <4>2, <4>3
      <3> QED BY <3>1, <3>2
    <2> QED BY <1>11, <2>5, <2>6 DEF OnTheWay
  <1> QED BY <1>1, <1>12, <1>14, <1>15 DEF PlayerOK

\* What goes from the worker to the queue is still on its way.
LEMMA PublishOK ==
    ASSUME NEW p, NEW w, NEW b, NEW r, NEW o, PlayerOK(file, p, w, b, r, o), p.batch # <<>>,
           NEW x, x = QueueUpdate(w, Head(p.batch)), NEW q, q = [p EXCEPT !.batch = Tail(@)]
    PROVE  PlayerOK(file, q, x, b, r, o)
  <1> DEFINE U == UpdatesOf(file)
             u == Head(p.batch)
             s == Tail(p.batch)
  <1>1. TypesOf(file, p, w, b, r, o) /\ (p.running => InPlace(file, p, r) /\ (o \/ OnTheWay(file, p, w, r)))
    BY DEF PlayerOK
  <1>2. file \in Recordings /\ p \in PlayersOf(file) /\ w \in OpenWindows(U) /\ p.batch \in Seq(U)
    BY <1>1 DEF TypesOf, PlayersOf
  <1>3. UpdateSet(U)
    BY <1>2, FileIs
  <1> HIDE DEF U
  <1>4. u \in U /\ s \in Seq(U) /\ p.batch = <<u>> \o s /\ <<u>> \in Seq(U)
    <2>1. u \in U /\ s \in Seq(U)
      BY <1>2, HeadTailProperties
    <2>2. p.batch = <<u>> \o s
      BY <1>2
    <2> QED BY <2>1, <2>2
  <1>5. q = [p EXCEPT !.batch = s]
    BY <1>2 DEF PlayersOf
  <1> HIDE DEF u, s
  <1>6. x = QueueUpdate(w, u)
    BY DEF u
  <1>7. /\ x \in OpenWindows(U) /\ x.tile = w.tile /\ x.muted = w.muted
        /\ \A y \in [Keys -> Nat] : After(y, x.pending) = After(After(y, w.pending), <<u>>)
    <2>1. UpdateSet(U) /\ w \in OpenWindows(U) /\ u \in U
      BY <1>2, <1>3, <1>4
    <2> QED BY <1>6, <2>1, OneQueued
  <1>8. /\ q \in PlayersOf(file) /\ q.batch = s /\ q.running = p.running /\ q.next = p.next /\ q.cursor = p.cursor
    BY <1>2, <1>4, <1>5 DEF PlayersOf, U
  <1>9. TypesOf(file, q, x, b, r, o)
    BY <1>1, <1>7, <1>8 DEF TypesOf, U
  <1>10. InPlace(file, p, r) => InPlace(file, q, r)
    BY <1>8 DEF InPlace
  <1>11. ASSUME NEW y, Shows(w, y)
         PROVE  Shows(x, y) /\ After(After(y, x.pending), q.batch) = After(After(y, w.pending), p.batch)
    <2> DEFINE t == After(y, w.pending)
    <2>1. y \in [Keys -> Nat] /\ w.pending \in Seq(U)
      BY <1>2, <1>11 DEF OpenWindows, WindowsOf, Shows
    <2>2. t \in [Keys -> Nat]
      BY <1>3, <2>1, AfterType
    <2> HIDE DEF t
    <2>3. After(After(t, <<u>>), s) = After(t, <<u>> \o s)
      BY <1>3, <1>4, <2>2, AfterConcat
    <2>4. After(y, x.pending) = After(t, <<u>>)
      BY <1>7, <2>1 DEF t
    <2>5. Shows(x, y)
      BY <1>7, <1>11 DEF Shows
    <2> QED BY <1>4, <1>8, <2>3, <2>4, <2>5 DEF t
  <1>12. OnTheWay(file, p, w, r) => OnTheWay(file, q, x, r)
    BY <1>8, <1>11 DEF OnTheWay
  <1> QED BY <1>1, <1>8, <1>9, <1>10, <1>12 DEF PlayerOK

\* A window that shows the same in the end.
LEMMA WindowOK ==
    ASSUME NEW p, NEW w, NEW b, NEW r, NEW o, PlayerOK(file, p, w, b, r, o),
           NEW x \in OpenWindows(UpdatesOf(file)), Carries(w, x)
    PROVE  PlayerOK(file, p, x, b, r, o)
  <1>1. TypesOf(file, p, w, b, r, o) => TypesOf(file, p, x, b, r, o)
    BY DEF TypesOf
  <1>2. OnTheWay(file, p, w, r) => OnTheWay(file, p, x, r)
    BY DEF OnTheWay, Carries
  <1> QED BY <1>1, <1>2 DEF PlayerOK

\* An event that is taken from the window's loop touches neither queue nor tiles.
LEMMA HandledIs ==
    ASSUME NEW U, NEW w \in OpenWindows(U), w.posted # <<>>, NEW e, e = Head(w.posted), NEW h, h = Handled(w)
    PROVE  /\ h \in OpenWindows(U) /\ h.pending = w.pending /\ h.tile = w.tile /\ h.muted = w.muted
           /\ e \in {"drain", "connected", "disconnected"}
  <1>1. w \in WindowsOf(U)
    BY DEF OpenWindows
  <1>2. w.posted \in Seq({"drain", "connected", "disconnected"})
    BY <1>1 DEF WindowsOf
  <1>3. e \in {"drain", "connected", "disconnected"} /\ Tail(w.posted) \in Seq({"drain", "connected", "disconnected"})
    BY <1>2, HeadTailProperties
  <1>4. h = [w EXCEPT !.posted = Tail(w.posted)]
    BY DEF Handled
  <1>5. /\ h \in WindowsOf(U) /\ h.pending = w.pending /\ h.tile = w.tile /\ h.muted = w.muted
        /\ h.store = w.store /\ h.lastSeq = w.lastSeq /\ h.zeroed = w.zeroed
    BY <1>1, <1>3, <1>4 DEF WindowsOf
  <1>6. h \in OpenWindows(U)
    BY <1>5, SameGate
  <1> QED BY <1>3, <1>5, <1>6

\* A drain shows what it takes from the queue, and a connection opens the gate.
LEMMA HandleOK ==
    ASSUME NEW p, NEW w, NEW b, NEW r, NEW o, PlayerOK(file, p, w, b, r, o), w.posted # <<>>,
           NEW e, e = Head(w.posted), NEW h, h = Handled(w),
           NEW x, x = CASE e = "drain" -> DrainPendingUiUpdates(h)
                        [] e = "connected" -> OnConnectionStateChanged(h, e)
                        [] OTHER -> [h EXCEPT !.state = e]
    PROVE  PlayerOK(file, p, x, b, r, o)
  <1> DEFINE U == UpdatesOf(file)
  <1>1. file \in Recordings /\ w \in OpenWindows(U)
    BY DEF PlayerOK, TypesOf
  <1>2. UpdateSet(U) /\ Budget \in Nat
    BY <1>1, FileIs, ReplayAssumption
  <1> HIDE DEF U
  <1>3. /\ h \in OpenWindows(U) /\ h.pending = w.pending /\ h.tile = w.tile /\ h.muted = w.muted
        /\ e \in {"drain", "connected", "disconnected"}
    BY <1>1, HandledIs
  <1>4. x \in OpenWindows(U) /\ Carries(w, x)
    <2>1. CASE e = "drain"
      <3>1. x = DrainPendingUiUpdates(h)
        BY <2>1
      <3>2. x \in OpenWindows(U) /\ Carries(h, x)
        BY <1>2, <1>3, <3>1, Drained
      <3>3. \A t : Shows(w, t) <=> Shows(h, t)
        BY <1>3 DEF Shows
      <3> QED BY <1>3, <3>2, <3>3 DEF Carries
    <2>2. CASE e = "connected"
      <3>1. x = OnConnectionStateChanged(h, "connected")
        BY <2>2
      <3>2. x \in OpenWindows(U) /\ x.pending = h.pending /\ x.tile = h.tile /\ x.muted = h.muted
        BY <1>3, <3>1, Reported
      <3> QED BY <1>3, <3>2 DEF Carries, Shows
    <2>3. CASE e = "disconnected"
      <3>1. x = [h EXCEPT !.state = "disconnected"]
        BY <2>3
      <3>2. h \in WindowsOf(U)
        BY <1>3 DEF OpenWindows
      <3>3. /\ x \in WindowsOf(U) /\ x.pending = h.pending /\ x.tile = h.tile /\ x.muted = h.muted
            /\ x.store = h.store /\ x.lastSeq = h.lastSeq /\ x.zeroed = h.zeroed
        BY <3>1, <3>2 DEF WindowsOf
      <3>4. x \in OpenWindows(U)
        BY <1>3, <3>3, SameGate
      <3> QED BY <1>3, <3>3, <3>4 DEF Carries, Shows
    <2> QED BY <1>3, <2>1, <2>2, <2>3
  <1> QED BY <1>4, WindowOK DEF U

\* What is left of the transport before a start.
LEMMA BeforeStartIs ==
    ASSUME NEW U, NEW w \in OpenWindows(U), NEW x, x = BeforeStart(w)
    PROVE  x \in OpenWindows(U)
  <1>1. PICK r : r = ResetSequenceTracking(w)
    OBVIOUS
  <1>2. w \in WindowsOf(U) /\ GateOpen(w)
    BY DEF OpenWindows
  <1>3. r \in WindowsOf(U) /\ GateOpen(r)
    BY <1>1, <1>2, ResetIs
  <1>4. x = [r EXCEPT !.crossed = w.pending # <<>>]
    BY <1>1 DEF BeforeStart
  <1>5. (w.pending # <<>>) \in BOOLEAN
    OBVIOUS
  <1>6. x \in WindowsOf(U) /\ x.store = r.store /\ x.lastSeq = r.lastSeq /\ x.zeroed = r.zeroed
    BY <1>3, <1>4, <1>5 DEF WindowsOf
  <1>7. r \in OpenWindows(U)
    BY <1>3 DEF OpenWindows
  <1> QED BY <1>6, <1>7, SameGate

\* The controls seek to a marker of the recording.
LEMMA LeastIs == ASSUME NEW n \in Nat, NEW S, S \subseteq 0 .. n, S # {} PROVE Least(S) \in S
  <1>1. S \subseteq Nat
    OBVIOUS
  <1>2. \E t \in S : \A u \in S : t <= u
    BY <1>1, LeastNumber
  <1> QED BY <1>2 DEF Least

LEMMA GreatestIs == ASSUME NEW n \in Nat, NEW S, S \subseteq 0 .. n, S # {} PROVE Greatest(S) \in S
  <1>1. \E t \in S : \A u \in S : u <= t
    BY GreatestNumber
  <1> QED BY <1>1 DEF Greatest

\* Markers are times of the recording.
LEMMA MarkersAre ==
    ASSUME file \in Recordings, bookmarks \subseteq 0 .. file[Len(file)].at
    PROVE  Markers \subseteq 0 .. file[Len(file)].at /\ file[Len(file)].at \in Nat
  <1>1. /\ Len(file) \in Nat /\ Len(file) # 0 /\ DOMAIN file = 1 .. Len(file)
        /\ \A i \in DOMAIN file : file[i] \in ReplayEvents
        /\ \A i \in DOMAIN file : \A j \in DOMAIN file : i <= j => file[i].at <= file[j].at
    BY FileIs
  <1>2. \A i \in DOMAIN file : file[i].at \in Nat
    BY <1>1 DEF ReplayEvents
  <1>3. Len(file) \in DOMAIN file /\ \A i \in DOMAIN file : i <= Len(file)
    BY <1>1
  <1>4. \A i \in DOMAIN file : file[i].at <= file[Len(file)].at
    BY <1>1, <1>3
  <1>5. \A i \in DOMAIN file : file[i].at \in 0 .. file[Len(file)].at
    BY <1>2, <1>3, <1>4
  <1>6. ASSUME NEW t \in Markers PROVE t \in 0 .. file[Len(file)].at
    <2>1. CASE t \in bookmarks
      BY <2>1
    <2>2. CASE \E i \in DOMAIN file : t = file[i].at
      BY <1>5, <2>2
    <2> QED BY <1>6, <2>1, <2>2 DEF Markers
  <1> QED BY <1>2, <1>3, <1>6

\* Before the replay is opened nothing is to be shown.
LEMMA PlayerStart == playerInit => PlayerInv
  <1> SUFFICES ASSUME playerInit PROVE PlayerInv
    OBVIOUS
  <1> DEFINE U == UpdatesOf(file)
  <1>1. file \in Recordings /\ player = NoPlayer /\ shown = NewWindow /\ bookmarks = {} /\ rebuilt = 0 /\ overtaken = FALSE
    BY DEF playerInit
  <1>2. Len(file) \in Nat /\ Len(file) # 0 /\ DOMAIN file = 1 .. Len(file) /\ \A i \in DOMAIN file : file[i] \in ReplayEvents
    BY <1>1, FileIs
  <1>3. file[Len(file)].at \in Nat
    <2>1. Len(file) \in DOMAIN file
      BY <1>2
    <2> QED BY <1>2, <2>1 DEF ReplayEvents
  <1>4. <<>> \in Seq(U) /\ <<>> \in Seq({"drain", "connected", "disconnected"})
    BY EmptySeq
  <1> HIDE DEF U
  <1>5. player \in PlayersOf(file) /\ ~player.running
    BY <1>1, <1>2, <1>3, <1>4 DEF NoPlayer, PlayersOf, U
  <1>6. shown \in OpenWindows(U)
    <2>1. [k \in Keys |-> [value |-> 0, seq |-> 0]] \in [Keys -> Records]
      BY DEF Records
    <2>2. shown \in WindowsOf(U)
      BY <1>1, <1>4, <2>1 DEF NewWindow, WindowsOf, NoEdit
    <2>3. shown.lastSeq = 0 /\ \A k \in Keys : shown.store[k].seq = 0
      BY <1>1 DEF NewWindow
    <2>4. GateOpen(shown)
      BY <2>3 DEF GateOpen
    <2> QED BY <2>2, <2>4 DEF OpenWindows
  <1>7. TypesOf(file, player, shown, bookmarks, rebuilt, overtaken)
    <2>1. bookmarks \subseteq 0 .. file[Len(file)].at /\ rebuilt \in 0 .. Len(file)
      BY <1>1, <1>2, <1>3
    <2>2. overtaken \in BOOLEAN
      BY <1>1
    <2> QED BY <1>1, <1>5, <1>6, <2>1, <2>2 DEF TypesOf, U
  <1> QED BY <1>5, <1>7 DEF PlayerOK, PlayerInv

\* SeekPlaybackUs, as the step of a control.
LEMMA SeekStep ==
    ASSUME file \in Recordings, bookmarks \subseteq 0 .. file[Len(file)].at,
           NEW w \in OpenWindows(UpdatesOf(file)), NEW p \in PlayersOf(file),
           NEW time \in Nat, SeekPlaybackUs(w, p, time), file' = file, bookmarks' = bookmarks
    PROVE  PlayerInv'
  <1>1. PICK c : c = Clamped(time)
    OBVIOUS
  <1>2. PICK t : t = FindFirstEventAfterTime(c)
    OBVIOUS
  <1>3. PICK x : x = Received(w, Reconstructed(t))
    OBVIOUS
  <1>4. PICK q : q = [p EXCEPT !.cursor = c, !.next = t]
    OBVIOUS
  <1>5. PICK r : r = Rebuilt(t)
    OBVIOUS
  <1>6. PICK o : o = (p.batch # <<>> \/ w.pending # <<>>)
    OBVIOUS
  <1>7. player' = q /\ shown' = x /\ rebuilt' = r /\ overtaken' = o
    BY <1>1, <1>2, <1>3, <1>4, <1>5, <1>6 DEF SeekPlaybackUs, Rebuilt
  <1>8. c \in 0 .. file[Len(file)].at
    BY <1>1, ClampedIs
  <1>9. PICK b : b = bookmarks
    OBVIOUS
  <1>10. PlayerOK(file, q, x, b, r, o)
    BY <1>2, <1>3, <1>4, <1>5, <1>6, <1>8, <1>9, SeekOK
  <1> QED BY <1>7, <1>9, <1>10 DEF PlayerInv

\* Every action keeps the player sound.
LEMMA PlayerStep == PlayerInv /\ [playerNext]_playerVars => PlayerInv'
  <1> SUFFICES ASSUME PlayerInv, [playerNext]_playerVars PROVE PlayerInv'
    OBVIOUS
  <1> DEFINE U == UpdatesOf(file)
             N == file[Len(file)].at
  <1>1. /\ PlayerOK(file, player, shown, bookmarks, rebuilt, overtaken)
        /\ TypesOf(file, player, shown, bookmarks, rebuilt, overtaken)
    BY DEF PlayerInv, PlayerOK
  <1>2. /\ file \in Recordings /\ player \in PlayersOf(file) /\ shown \in OpenWindows(U)
        /\ bookmarks \subseteq 0 .. N /\ N \in Nat /\ player.cursor \in 0 .. N /\ UpdateSet(U)
    <2>1. file \in Recordings /\ bookmarks \subseteq 0 .. N
      BY <1>1 DEF TypesOf
    <2>2. N \in Nat
      BY <2>1, MarkersAre
    <2> QED BY <1>1, <2>1, <2>2, FileIs DEF TypesOf, PlayersOf
  <1>3. PICK p : p = player
    OBVIOUS
  <1>4. PICK w : w = shown
    OBVIOUS
  <1>5. PICK b : b = bookmarks
    OBVIOUS
  <1>6. PICK r : r = rebuilt
    OBVIOUS
  <1>7. PICK o : o = overtaken
    OBVIOUS
  <1>8. PlayerOK(file, p, w, b, r, o)
    BY <1>1, <1>3, <1>4, <1>5, <1>6, <1>7
  <1> HIDE DEF U, N
  <1>10. ASSUME NEW time \in 0 .. N, SeekTo(time) PROVE PlayerInv'
    <2>1. SeekPlaybackUs(w, p, time) /\ file' = file /\ bookmarks' = bookmarks
      BY <1>3, <1>4, <1>10 DEF SeekTo, SeekPlaybackUs
    <2>2. time \in Nat /\ w \in OpenWindows(U) /\ p \in PlayersOf(file)
      BY <1>2, <1>3, <1>4
    <2> QED BY <1>2, <2>1, <2>2, SeekStep DEF U, N
  <1>11. ASSUME UNCHANGED playerVars PROVE PlayerInv'
    BY <1>1, <1>11 DEF playerVars, PlayerInv
  <1>12. ASSUME NEW e \in 0 .. Duration, Tick(e) PROVE PlayerInv'
    <2>1. PICK c : c = Clamped(player.cursor + e)
      OBVIOUS
    <2>2. PICK t : t = FindFirstEventAfterTime(c)
      OBVIOUS
    <2>3. PICK d : d = (c < Duration)
      OBVIOUS
    <2>4. PICK q : q = [p EXCEPT !.cursor = c, !.next = IF t > @ THEN t ELSE @,
                                 !.batch = Passed(p.cursor, t, p.next), !.playing = d]
      OBVIOUS
    <2>5. p.running /\ p.batch = <<>>
      BY <1>3, <1>12 DEF Tick
    <2>6. player' = q
      BY <1>3, <1>12, <2>1, <2>2, <2>3, <2>4 DEF Tick
    <2>7. c \in 0 .. N
      <3>1. player.cursor + e \in Nat
        BY <1>2 DEF Duration, N
      <3> DEFINE time == player.cursor + e
      <3>2. PICK y : y = time
        OBVIOUS
      <3>3. y \in Nat /\ c = Clamped(y)
        BY <2>1, <3>1, <3>2
      <3> QED BY <1>2, <3>3, ClampedIs DEF N
    <2>8. d \in BOOLEAN
      BY <2>3
    <2>9. PlayerOK(file, q, w, b, r, o)
      BY <1>8, <2>2, <2>4, <2>5, <2>7, <2>8, TickOK DEF N
    <2>10. UNCHANGED <<file, shown, bookmarks, rebuilt, overtaken>>
      BY <1>12 DEF Tick
    <2> QED BY <1>4, <1>5, <1>6, <1>7, <2>6, <2>9, <2>10 DEF PlayerInv
  <1>13. ASSUME PublishUpdate PROVE PlayerInv'
    <2>1. PICK x : x = QueueUpdate(w, Head(p.batch))
      OBVIOUS
    <2>2. PICK q : q = [p EXCEPT !.batch = Tail(@)]
      OBVIOUS
    <2>3. p.batch # <<>> /\ shown' = x /\ player' = q
      BY <1>3, <1>4, <1>13, <2>1, <2>2 DEF PublishUpdate
    <2>4. PlayerOK(file, q, x, b, r, o)
      BY <1>8, <2>1, <2>2, <2>3, PublishOK
    <2>5. UNCHANGED <<file, bookmarks, rebuilt, overtaken>>
      BY <1>13 DEF PublishUpdate
    <2> QED BY <1>5, <1>6, <1>7, <2>3, <2>4, <2>5 DEF PlayerInv
  <1>14. ASSUME HandlePosted PROVE PlayerInv'
    <2>1. PICK e : e = Head(w.posted)
      OBVIOUS
    <2>2. PICK h : h = Handled(w)
      OBVIOUS
    <2>3. PICK x : x = CASE e = "drain" -> DrainPendingUiUpdates(h)
                         [] e = "connected" -> OnConnectionStateChanged(h, e)
                         [] OTHER -> [h EXCEPT !.state = e]
      OBVIOUS
    <2>4. w.posted # <<>> /\ shown' = x
      BY <1>4, <1>14, <2>1, <2>2, <2>3 DEF HandlePosted
    <2>5. PlayerOK(file, p, x, b, r, o)
      BY <1>8, <2>1, <2>2, <2>3, <2>4, HandleOK
    <2>6. UNCHANGED <<file, player, bookmarks, rebuilt, overtaken>>
      BY <1>14 DEF HandlePosted
    <2> QED BY <1>3, <1>5, <1>6, <1>7, <2>4, <2>5, <2>6 DEF PlayerInv
  <1>15. ASSUME OpenReplay PROVE PlayerInv'
    <2>1. PICK y : y = BeforeStart(w)
      OBVIOUS
    <2>2. PICK x : x = Post(y, "connected")
      OBVIOUS
    <2>3. PICK q : q = [NoPlayer EXCEPT !.running = TRUE]
      OBVIOUS
    <2>4. SeekPlaybackUs(x, q, 0) /\ file' = file /\ bookmarks' = bookmarks
      BY <1>4, <1>15, <2>1, <2>2, <2>3 DEF OpenReplay, SeekPlaybackUs
    <2>5. x \in OpenWindows(U)
      <3>1. y \in OpenWindows(U)
        BY <1>2, <1>4, <2>1, BeforeStartIs
      <3> QED BY <2>2, <3>1, PostIs
    <2>6. q \in PlayersOf(file)
      <3>1. Len(file) \in Nat
        BY <1>2, FileIs
      <3>2. <<>> \in Seq(UpdatesOf(file))
        BY EmptySeq
      <3>3. 0 \in 0 .. Len(file) /\ 0 \in 0 .. N
        BY <1>2, <3>1
      <3>4. q = [running |-> TRUE, playing |-> FALSE, cursor |-> 0, next |-> 0, batch |-> <<>>]
        BY <2>3 DEF NoPlayer
      <3> QED BY <3>2, <3>3, <3>4 DEF PlayersOf, N
    <2> QED BY <1>2, <2>4, <2>5, <2>6, SeekStep DEF U, N
  <1>16. ASSUME StopReplay PROVE PlayerInv'
    <2>1. PICK y : y = QueuedAll(w, p.batch)
      OBVIOUS
    <2>2. PICK x : x = Post(y, "disconnected")
      OBVIOUS
    <2>3. PICK q : q = [p EXCEPT !.running = FALSE, !.playing = FALSE, !.batch = <<>>]
      OBVIOUS
    <2>4. shown' = x /\ player' = q
      BY <1>3, <1>4, <1>16, <2>1, <2>2, <2>3 DEF StopReplay, QueuedAll
    <2>5. x \in OpenWindows(U)
      <3>1. p.batch \in Seq(U)
        BY <1>2, <1>3 DEF PlayersOf, U
      <3>2. y \in OpenWindows(U)
        BY <1>2, <1>4, <2>1, <3>1, ManyQueued
      <3> QED BY <2>2, <3>2, PostIs
    <2>6. q \in PlayersOf(file) /\ ~q.running
      <3>1. <<>> \in Seq(UpdatesOf(file))
        BY EmptySeq
      <3> QED BY <1>2, <1>3, <2>3, <3>1 DEF PlayersOf
    <2>7. TypesOf(file, p, w, b, r, o)
      BY <1>8 DEF PlayerOK
    <2>8. PlayerOK(file, q, x, b, r, o)
      BY <2>5, <2>6, <2>7 DEF PlayerOK, TypesOf, U
    <2>9. UNCHANGED <<file, bookmarks, rebuilt, overtaken>>
      BY <1>16 DEF StopReplay
    <2> QED BY <1>5, <1>6, <1>7, <2>4, <2>8, <2>9 DEF PlayerInv
  <1>17. ASSUME OnPlaybackPlayPause PROVE PlayerInv'
    <2>1. PICK q : q = [p EXCEPT !.playing = ~@]
      OBVIOUS
    <2>2. player' = q /\ UNCHANGED <<file, shown, bookmarks, rebuilt, overtaken>>
      BY <1>3, <1>17, <2>1 DEF OnPlaybackPlayPause
    <2>3. q \in PlayersOf(file)
      BY <1>2, <1>3, <2>1 DEF PlayersOf
    <2>4. q.running = p.running /\ q.next = p.next /\ q.cursor = p.cursor /\ q.batch = p.batch
      BY <1>2, <1>3, <2>1 DEF PlayersOf
    <2>5. PlayerOK(file, q, w, b, r, o)
      BY <1>8, <2>3, <2>4 DEF PlayerOK, TypesOf, InPlace, OnTheWay
    <2> QED BY <1>4, <1>5, <1>6, <1>7, <2>2, <2>5 DEF PlayerInv
  <1>18. ASSUME OnPlaybackRewindToStart PROVE PlayerInv'
    <2>1. PICK q : q = [p EXCEPT !.playing = FALSE]
      OBVIOUS
    <2>2. SeekPlaybackUs(w, q, 0) /\ file' = file /\ bookmarks' = bookmarks
      BY <1>3, <1>4, <1>18, <2>1 DEF OnPlaybackRewindToStart, SeekPlaybackUs
    <2>3. q \in PlayersOf(file) /\ w \in OpenWindows(U)
      BY <1>2, <1>3, <1>4, <2>1 DEF PlayersOf
    <2> QED BY <1>2, <2>2, <2>3, SeekStep DEF U, N
  <1>19. Markers \subseteq 0 .. N
    BY <1>2, MarkersAre DEF N
  <1>20. ASSUME OnPlaybackPreviousMarker PROVE PlayerInv'
    <2> DEFINE before == {t \in Markers : t < player.cursor}
               time == IF before = {} THEN Least(Markers) ELSE Greatest(before)
    <2>1. Markers # {} /\ SeekTo(time)
      BY <1>20 DEF OnPlaybackPreviousMarker
    <2>2. before \subseteq 0 .. N
      BY <1>19
    <2>3. time \in 0 .. N
      <3>1. Least(Markers) \in Markers
        BY <1>2, <1>19, <2>1, LeastIs
      <3>2. before # {} => Greatest(before) \in before
        <4> HIDE DEF before
        <4> QED BY <1>2, <2>2, GreatestIs
      <3> HIDE DEF before
      <3> QED BY <1>19, <2>2, <3>1, <3>2
    <2> HIDE DEF time
    <2>4. PICK y : y = time
      OBVIOUS
    <2>5. SeekTo(y) /\ y \in 0 .. N
      BY <2>1, <2>3, <2>4 DEF SeekTo, SeekPlaybackUs
    <2> QED BY <1>10, <2>5
  <1>21. ASSUME OnPlaybackNextMarker PROVE PlayerInv'
    <2> DEFINE after == {t \in Markers : t > player.cursor}
               time == IF after = {} THEN Greatest(Markers) ELSE Least(after)
    <2>1. Markers # {} /\ SeekTo(time)
      BY <1>21 DEF OnPlaybackNextMarker
    <2>2. after \subseteq 0 .. N
      BY <1>19
    <2>3. time \in 0 .. N
      <3>1. Greatest(Markers) \in Markers
        BY <1>2, <1>19, <2>1, GreatestIs
      <3>2. after # {} => Least(after) \in after
        <4> HIDE DEF after
        <4> QED BY <1>2, <2>2, LeastIs
      <3> HIDE DEF after
      <3> QED BY <1>19, <2>2, <3>1, <3>2
    <2> HIDE DEF time
    <2>4. PICK y : y = time
      OBVIOUS
    <2>5. SeekTo(y) /\ y \in 0 .. N
      BY <2>1, <2>3, <2>4 DEF SeekTo, SeekPlaybackUs
    <2> QED BY <1>10, <2>5
  <1>22. ASSUME NEW t \in 0 .. Duration, OnPlaybackCursorScrubbed(t) PROVE PlayerInv'
    <2>1. SeekTo(t) /\ t \in 0 .. N
      BY <1>22 DEF OnPlaybackCursorScrubbed, Duration, N
    <2> QED BY <1>10, <2>1
  <1>23. ASSUME NEW c, c \subseteq 0 .. N, bookmarks' = c, UNCHANGED <<file, player, shown, rebuilt, overtaken>>
         PROVE  PlayerInv'
    <2>1. PlayerOK(file, p, w, c, r, o)
      BY <1>8, <1>23 DEF PlayerOK, TypesOf, N
    <2> QED BY <1>3, <1>4, <1>6, <1>7, <1>23, <2>1 DEF PlayerInv
  <1>24. ASSUME OnAddReplayBookmark PROVE PlayerInv'
    <2>1. PICK c : c = bookmarks \cup {player.cursor}
      OBVIOUS
    <2>2. c \subseteq 0 .. N
      BY <1>2, <2>1
    <2>3. bookmarks' = c /\ UNCHANGED <<file, player, shown, rebuilt, overtaken>>
      BY <1>24, <2>1 DEF OnAddReplayBookmark
    <2> QED BY <1>23, <2>2, <2>3
  <1>25. ASSUME OnClearReplayBookmarks PROVE PlayerInv'
    <2>1. bookmarks' = {} /\ UNCHANGED <<file, player, shown, rebuilt, overtaken>>
      BY <1>25 DEF OnClearReplayBookmarks
    <2>2. {} \subseteq 0 .. N
      OBVIOUS
    <2> QED BY <1>23, <2>1, <2>2
  <1> QED BY <1>11, <1>12, <1>13, <1>14, <1>15, <1>16, <1>17, <1>18, <1>20, <1>21, <1>22, <1>24, <1>25 DEF playerNext

\* (Replay.PlayerInv) Whatever is opened, played, sought and stopped, the player's position in the
\* file fits its cursor, the gate on sequence numbers is open unless an update numbered 0 has come
\* after others, and what is on its way to the tiles makes them show the values of the position,
\* but for the keys whose last update the gate refused after such a 0.
THEOREM PlayerIsSound == playerSpec => []PlayerInv
  <1>1. playerInit => PlayerInv
    BY PlayerStart
  <1>2. PlayerInv /\ [playerNext]_playerVars => PlayerInv'
    BY PlayerStep
  <1> QED BY <1>1, <1>2, PTL DEF playerSpec

\* With nothing on its way, the tiles are what was on its way to them.
LEMMA InvFollows == PlayerInv => TilesFollowCursor
  <1> SUFFICES ASSUME PlayerInv, Settled, ~overtaken PROVE TilesAreRight
    BY DEF TilesFollowCursor
  <1> DEFINE n == IF rebuilt > player.next THEN rebuilt ELSE player.next
             E == Expected
  <1>1. /\ TypesOf(file, player, shown, bookmarks, rebuilt, overtaken)
        /\ player.running /\ player.batch = <<>> /\ shown.pending = <<>>
        /\ OnTheWay(file, player, shown, rebuilt)
    BY DEF PlayerInv, PlayerOK, Settled
  <1>2. file \in Recordings /\ rebuilt \in 0 .. Len(file) /\ player.next \in 0 .. Len(file)
        /\ shown.tile \in [Keys -> Nat]
    BY <1>1 DEF TypesOf, PlayersOf, OpenWindows, WindowsOf
  <1>3. n \in 0 .. Len(file)
    BY <1>2
  <1>4. E = Applied(NoUpdates, SubSeq(file, 1, n))
    BY DEF Expected
  <1>5. PICK t : Shows(shown, t) /\ Right(t, file, n)
    <2>1. PICK t : Shows(shown, t) /\ Right(After(After(t, shown.pending), player.batch), file, n)
      BY <1>1 DEF OnTheWay
    <2>2. After(After(t, shown.pending), player.batch) = t
      BY <1>1, <2>1, AfterNothing DEF Shows
    <2> QED BY <2>1, <2>2
  <1> HIDE DEF n, E
  <1>6. ASSUME NEW k \in DOMAIN E \ shown.muted PROVE shown.tile[k] = E[k].value
    <2>1. PICK i \in 1 .. n : Final(file, n, k, i) /\ E[k] = file[i]
      BY <1>2, <1>3, <1>4, BeginningIs
    <2>2. k \in Keys
      <3>1. Len(file) \in Nat /\ DOMAIN file = 1 .. Len(file) /\ \A j \in DOMAIN file : file[j] \in ReplayEvents
        BY <1>2, FileIs
      <3>2. i \in DOMAIN file /\ file[i].key = k
        BY <1>3, <2>1, <3>1 DEF Final
      <3> QED BY <3>1, <3>2 DEF ReplayEvents
    <2> QED BY <1>5, <2>1, <2>2 DEF Right, Shows
  <1> QED BY <1>6 DEF TilesAreRight, E

\* (Replay.TilesFollowCursor) When nothing is on its way, the tiles show the values at the cursor,
\* by whatever ticks and seeks it came there, if the last seek met no update on its way: all
\* but those whose last update was refused because one numbered 0 had come after others.
THEOREM CursorIsShown == playerSpec => []TilesFollowCursor
  BY PlayerIsSound, InvFollows, PTL

=============================================================================
