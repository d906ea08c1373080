---------------------------- MODULE RetainedStore ----------------------------
(***************************************************************************)
(* The retained store (sd_direct_retained_store.cpp): a table of entries in  *)
(* shared memory, guarded by a named mutex, that several client processes    *)
(* map, and a text file rewritten at every Put.  The memory goes away with   *)
(* the last process; the next one to open an empty table loads the file.     *)
(* Processes crash anywhere; Windows then hands the mutex on as abandoned.   *)
(* Values are version numbers: the order in which Put took them.             *)
(***************************************************************************)
EXTENDS Integers, Sequences, FiniteSetsExt, Places

CONSTANTS
    Procs,
    StoreKeys,
    Cut,            \* key -> its first 191 bytes, all an entry can hold
    Fragile,        \* keys with a line break: Escape leaves it in the line
    MaxEntries,     \* entries of the table (1024 in the code)
    MaxPut,         \* bound: Put calls
    MaxCrash        \* bound: crashes

VARIABLES
    pc,             \* process -> closed, mapped, open, or where in Put it is
    putting,        \* the Put that holds the mutex: <<key, version, index>>
    entries,        \* the table in shared memory
    file,           \* the lines of the persistence file, none before the first Put
    nextSeq,        \* process -> the sequence number of its next Put
    \* history
    puts, crashes,
    written,        \* key -> version of the last Put that filled its entry
    lost,           \* keys evicted or cut off by a crash
    stale,          \* the file is not what the last Put wrote
    evicted,        \* an entry was given to another key
    cramped         \* a slot was spent on something other than one key's entry

storeVars == <<pc, putting, entries, file, nextSeq, puts, crashes, written, lost, stale,
               evicted, cramped>>

Slots == 1 .. MaxEntries
NoKey == ""
Empty == [key |-> NoKey, version |-> 0, seq |-> 0]
Holds(p) == pc[p] \in {"fill", "truncate", "write"}
Locked == \E p \in Procs : Holds(p)

\* Keys that an entry and a line hold whole, and that are not all an entry holds of another.
Plain == {k \in StoreKeys : k \notin Fragile /\ \A q \in StoreKeys : Cut[q] = k <=> q = k}
Occupied(i) == entries[i] # Empty

ASSUME StoreAssumption ==
    /\ IsFiniteSet(StoreKeys) /\ NoKey \notin StoreKeys
    /\ MaxEntries \in Nat \ {0}

-----------------------------------------------------------------------------
(* The file: one line per occupied entry, in the order of the table *)

Lines == Collected(entries, {i \in Slots : Occupied(i)})

\* A key with a line break gives two lines of fewer than five fields each; a
\* line a crash cut short, in this model, fewer than five too.
Readable(line) == line.key \notin Fragile /\ line.version # -1

LoadLocked(lines) ==
    LET good == Collected(lines, {i \in DOMAIN lines : Readable(lines[i])})
    IN  [i \in Slots |-> IF i \in DOMAIN good THEN good[i] ELSE Empty]

\* TryGet: the whole key is compared, so one that was cut is never found.
Lookup(table, k) ==
    IF \E i \in Slots : table[i].key = k
    THEN table[CHOOSE i \in Slots : /\ table[i].key = k
                                    /\ \A j \in 1 .. i - 1 : table[j].key # k].version
    ELSE 0

\* What the next process to open the store would find.
Held(k) == IF \E i \in Slots : Occupied(i) THEN Lookup(entries, k)
           ELSE Lookup(LoadLocked(file), k)

-----------------------------------------------------------------------------
(* OpenOrCreate maps the region first, then waits for the mutex *)

MapRegion(p) ==
    /\ pc[p] = "closed"
    /\ pc' = [pc EXCEPT ![p] = "mapped"]
    /\ UNCHANGED <<putting, entries, file, nextSeq, puts, crashes, written, lost, stale,
                   evicted, cramped>>

\* Variant: every opener loads the file.
OpenAlwaysLoads(p) ==
    /\ pc[p] = "mapped" /\ ~Locked
    /\ entries' = LoadLocked(file)
    /\ pc' = [pc EXCEPT ![p] = "open"]
    /\ UNCHANGED <<putting, file, nextSeq, puts, crashes, written, lost, stale, evicted, cramped>>

OpenOrCreate(p) ==
    /\ pc[p] = "mapped" /\ ~Locked
    /\ entries' = IF \E i \in Slots : Occupied(i) THEN entries ELSE LoadLocked(file)
    /\ pc' = [pc EXCEPT ![p] = "open"]
    /\ UNCHANGED <<putting, file, nextSeq, puts, crashes, written, lost, stale, evicted, cramped>>

\* The region goes with its last handle, whoever closes it.
Unmapped(p) ==
    LET last == \A q \in Procs \ {p} : pc[q] = "closed" IN
    /\ pc' = [pc EXCEPT ![p] = "closed"]
    /\ entries' = IF last THEN [i \in Slots |-> Empty] ELSE entries

\* Close writes nothing: what the file lacks is gone with the region.
Close(p) ==
    /\ pc[p] = "open"
    /\ Unmapped(p)
    /\ lost' = IF stale /\ \A q \in Procs \ {p} : pc[q] = "closed" THEN Plain ELSE lost
    /\ UNCHANGED <<putting, file, nextSeq, puts, crashes, written, stale, evicted, cramped>>

-----------------------------------------------------------------------------
(* Put, one step per point where a crash leaves something different behind *)

\* The scan keeps the first of the lowest sequence numbers.
Oldest(i, j) == \/ entries[i].seq < entries[j].seq
                \/ entries[i].seq = entries[j].seq /\ i <= j

\* Variant: a free entry is taken before the key's own is looked for.
TargetFreeFirst(k) ==
    LET same == {i \in Slots : entries[i].key = k}
        free == {i \in Slots : ~Occupied(i)}
    IN  IF free # {} THEN Min(free) ELSE IF same # {} THEN Min(same)
        ELSE CHOOSE i \in Slots : \A j \in Slots : Oldest(i, j)

\* The key's own entry, else the first free one, else the lowest sequence number.
Target(k) ==
    LET same == {i \in Slots : entries[i].key = k}
        free == {i \in Slots : ~Occupied(i)}
    IN  IF same # {} THEN Min(same) ELSE IF free # {} THEN Min(free)
        ELSE CHOOSE i \in Slots : \A j \in Slots : Oldest(i, j)

\* The entry is reset and marked occupied before its key is copied in.
PutClear(p, k) ==
    /\ pc[p] = "open" /\ ~Locked
    /\ puts < MaxPut
    /\ puts' = puts + 1
    /\ LET i == Target(k) IN
       /\ putting' = <<k, puts + 1, i>>
       /\ entries' = [entries EXCEPT ![i] = [Empty EXCEPT !.seq = nextSeq[p]]]
       /\ lost' = lost \cup ({entries[i].key} \cap Plain)
       /\ evicted' = (evicted \/ (Occupied(i) /\ entries[i].key # k))
    /\ nextSeq' = [nextSeq EXCEPT ![p] = @ + 1]
    /\ pc' = [pc EXCEPT ![p] = "fill"]
    /\ UNCHANGED <<file, crashes, written, stale, cramped>>

PutFill(p) ==
    /\ pc[p] = "fill"
    /\ LET k == putting[1] IN
       /\ entries' = [entries EXCEPT ![putting[3]].key = Cut[k],
                                     ![putting[3]].version = putting[2]]
       /\ written' = [written EXCEPT ![k] = putting[2]]
       /\ lost' = lost \ {k}
       /\ cramped' = (cramped \/ Cut[k] # k)
    /\ pc' = [pc EXCEPT ![p] = "truncate"]
    /\ UNCHANGED <<putting, file, nextSeq, puts, crashes, stale, evicted>>

\* PersistLocked opens the file with trunc; if it cannot, Put returns false.
PersistOpen(p) ==
    /\ pc[p] = "truncate"
    /\ stale' = TRUE
    /\ \/ file' = <<>> /\ pc' = [pc EXCEPT ![p] = "write"]
       \/ file' = file /\ pc' = [pc EXCEPT ![p] = "open"]
    /\ UNCHANGED <<putting, entries, nextSeq, puts, crashes, written, lost, evicted, cramped>>

PersistLines(p) ==
    /\ pc[p] = "write"
    /\ file' = Lines
    /\ stale' = FALSE
    /\ pc' = [pc EXCEPT ![p] = "open"]
    /\ UNCHANGED <<putting, entries, nextSeq, puts, crashes, written, lost, evicted, cramped>>

\* What reached the disk of the lines being written: some, the last maybe cut.
PartOf(lines) ==
    {SubSeq(lines, 1, n) : n \in 0 .. Len(lines)} \cup
    {SubSeq(lines, 1, n - 1) \o <<[lines[n] EXCEPT !.version = -1]>> : n \in 1 .. Len(lines)}

Crash(p) ==
    /\ pc[p] # "closed"
    /\ crashes < MaxCrash
    /\ crashes' = crashes + 1
    /\ file' \in IF pc[p] = "write" THEN PartOf(Lines) ELSE {file}
    /\ stale' = (stale \/ pc[p] \in {"fill", "truncate"})
    /\ Unmapped(p)
    /\ lost' = IF stale' /\ \A q \in Procs \ {p} : pc[q] = "closed" THEN Plain ELSE lost
    /\ cramped' = (cramped \/ pc[p] = "fill")
    /\ nextSeq' = [nextSeq EXCEPT ![p] = 1]
    /\ UNCHANGED <<putting, puts, written, evicted>>

-----------------------------------------------------------------------------
storeInit ==
    /\ pc = [p \in Procs |-> "closed"]
    /\ putting = <<>>
    /\ entries = [i \in Slots |-> Empty]
    /\ file = <<>>
    /\ nextSeq = [p \in Procs |-> 1]
    /\ puts = 0 /\ crashes = 0
    /\ written = [k \in StoreKeys |-> 0]
    /\ lost = {}
    /\ stale = FALSE
    /\ evicted = FALSE
    /\ cramped = FALSE

storeNext == \E p \in Procs :
    \/ MapRegion(p) \/ OpenOrCreate(p) \/ Close(p)
    \/ \E k \in StoreKeys : PutClear(p, k)
    \/ PutFill(p) \/ PersistOpen(p) \/ PersistLines(p)
    \/ Crash(p)

StoreSpec == storeInit /\ [][storeNext]_storeVars

-----------------------------------------------------------------------------
\* Between two Puts the table, or the file once nobody maps the table, gives
\* every key's last value, whatever processes opened, closed and crashed: except
\* keys evicted or cut off by a crash (TryGet, OpenOrCreate, PersistLocked).
KeepsLastValue == ~Locked => \A k \in Plain \ lost : Held(k) = written[k]

\* While only whole keys are put and no crash leaves a nameless entry behind, an
\* entry is given away only to make room for more keys than there are entries.
EvictsOnlyForRoom ==
    evicted /\ ~cramped /\ ~Locked =>
        Cardinality({k \in StoreKeys : written[k] # 0}) > MaxEntries
=============================================================================
