------------------------------ MODULE KvStore ------------------------------
(***************************************************************************)
(* The shared key/value store of crates/cersei-vms/src/primitives/kv.rs:   *)
(* a concurrent map, an atomic version counter and an optional journal     *)
(* that every set and delete rewrites through one temporary file.          *)
(*                                                                         *)
(* Threads call set, cas and delete on clones of one store.  A step is one *)
(* access to shared state: the counter, one entry of the map, or a file.   *)
(* A value is identified by its version and the process that wrote it;     *)
(* calls that change nothing (get, a failed cas, deleting an absent key)   *)
(* are left out, and so is restore.                                        *)
(***************************************************************************)
EXTENDS Integers, FiniteSets

CONSTANTS
    Threads,
    Keys,
    Journalled,   \* KvStore::open, or in_memory
    MaxVersion,   \* bound: versions one process issues
    MaxCrashes    \* bound: process restarts

ASSUME StoreAssumption ==
    Keys # {} /\ Journalled \in BOOLEAN /\ MaxVersion \in Nat /\ MaxCrashes \in Nat

VARIABLES
    map,       \* KvInner.map
    seq,       \* KvInner.version_seq
    pc,        \* where each call is
    op,        \* the call: cas or not, its key, what cas expects, its version
    snap,      \* the KvSnapshot a call collects in persist
    todo,      \* keys that snapshot has still to visit
    tmp,       \* the file journal.tmp
    journal,   \* the journal file
    handle,    \* the file a writing call has open: "tmp", "journal" or "gone"
    failed,    \* the last persist returned an error
    up,        \* a process has the store open
    crashes

vars == <<map, seq, pc, op, snap, todo, tmp, journal, handle, failed, up, crashes>>

Version == 0..MaxVersion
Entry == [version : Version, epoch : 0..MaxCrashes]
None == [version |-> 0, epoch |-> 0]     \* versions start at 1
Snapshot == [entries : [Keys -> Entry], next : Version]
EmptySnapshot == [entries |-> [k \in Keys |-> None], next |-> 0]

\* a file: missing, truncated, a whole snapshot or two writes mixed up
File == [state : {"absent", "empty", "full", "garbled"}, snap : Snapshot]
Absent == [state |-> "absent", snap |-> EmptySnapshot]
Truncated == [state |-> "empty", snap |-> EmptySnapshot]
Garbled == [state |-> "garbled", snap |-> EmptySnapshot]
Full(s) == [state |-> "full", snap |-> s]

NoOp == [cas |-> FALSE, key |-> CHOOSE k \in Keys : TRUE, expected |-> 0, version |-> 0]

Init ==
    /\ map = EmptySnapshot.entries /\ seq = 0
    /\ pc = [t \in Threads |-> "idle"] /\ op = [t \in Threads |-> NoOp]
    /\ snap = [t \in Threads |-> EmptySnapshot] /\ todo = [t \in Threads |-> {}]
    /\ tmp = Absent /\ journal = Absent /\ handle = [t \in Threads |-> "none"]
    /\ failed = FALSE /\ up = TRUE /\ crashes = 0

files == <<tmp, journal, handle, failed>>
process == <<up, crashes>>

At(t, from, to) == pc[t] = from /\ pc' = [pc EXCEPT ![t] = to]

-----------------------------------------------------------------------------
(* The map and the counter *)

\* fetch_add
Issue(t, call) ==
    /\ seq < MaxVersion
    /\ seq' = seq + 1
    /\ op' = [op EXCEPT ![t] = [call EXCEPT !.version = seq + 1]]
    /\ UNCHANGED <<map, snap, todo, files, process>>

Set(t, k) ==
    /\ up /\ At(t, "idle", "insert")
    /\ Issue(t, [NoOp EXCEPT !.key = k])

\* cas reads the entry, lets go of it and decides
CasCheck(t, k) ==
    /\ up /\ At(t, "idle", "fetch")
    /\ op' = [op EXCEPT ![t] = [NoOp EXCEPT !.cas = TRUE, !.key = k,
                                            !.expected = map[k].version]]
    /\ UNCHANGED <<map, seq, snap, todo, files, process>>

\* Mutant: cas derives its version from the one it expects.
CasCountsOn(t) ==
    /\ At(t, "fetch", "insert") /\ op[t].expected < MaxVersion
    /\ op' = [op EXCEPT ![t].version = op[t].expected + 1]
    /\ seq' = IF op[t].expected + 1 > seq THEN op[t].expected + 1 ELSE seq
    /\ UNCHANGED <<map, snap, todo, files, process>>

CasFetch(t) == At(t, "fetch", "insert") /\ Issue(t, op[t])

\* an in-memory store is done once its map is changed
Persist(t, from) ==
    /\ At(t, from, IF Journalled THEN "snap" ELSE "idle")
    /\ snap' = [snap EXCEPT ![t] = EmptySnapshot]
    /\ todo' = [todo EXCEPT ![t] = IF Journalled THEN Keys ELSE {}]
    /\ UNCHANGED <<seq, op, files, process>>

Insert(t) ==
    /\ map' = [map EXCEPT ![op[t].key] = [version |-> op[t].version, epoch |-> crashes]]
    /\ Persist(t, "insert")

Delete(t, k) ==
    /\ up /\ map[k] # None
    /\ map' = [map EXCEPT ![k] = None]
    /\ Persist(t, "idle")

-----------------------------------------------------------------------------
(* persist: snapshot, write journal.tmp, rename it over the journal *)

\* the map is iterated entry by entry, without a lock over the whole of it
Visit(t, k) ==
    /\ pc[t] = "snap" /\ k \in todo[t]
    /\ snap' = [snap EXCEPT ![t].entries[k] = map[k]]
    /\ todo' = [todo EXCEPT ![t] = @ \ {k}]
    /\ UNCHANGED <<map, seq, pc, op, files, process>>

\* Mutant: next_version may be read before the entries.
ReadCounterFirst(t) ==
    /\ pc[t] = "snap" /\ todo[t] \in {Keys, {}}
    /\ snap' = IF snap[t].next = 0 THEN [snap EXCEPT ![t].next = seq] ELSE snap
    /\ pc' = IF todo[t] = {} THEN [pc EXCEPT ![t] = "create"] ELSE pc
    /\ UNCHANGED <<map, seq, op, todo, files, process>>

\* then the counter is read
ReadCounter(t) ==
    /\ todo[t] = {} /\ At(t, "snap", "create")
    /\ snap' = [snap EXCEPT ![t].next = seq]
    /\ UNCHANGED <<map, seq, op, todo, files, process>>

\* Mutant: the journal itself is truncated and rewritten.
CreateInPlace(t) ==
    /\ At(t, "create", "write")
    /\ journal' = Truncated /\ tmp' = Full(snap[t])
    /\ handle' = [handle EXCEPT ![t] = "tmp"]
    /\ UNCHANGED <<map, seq, op, snap, todo, failed, process>>

\* fs::write opens and truncates, ...
Create(t) ==
    /\ At(t, "create", "write")
    /\ tmp' = Truncated
    /\ handle' = [handle EXCEPT ![t] = "tmp"]
    /\ UNCHANGED <<map, seq, op, snap, todo, journal, failed, process>>

\* what writing a snapshot into a file leaves: on top of another writer's bytes
\* the longer text keeps its tail
Written(file, s) == {Full(s)} \union (IF file.state = "empty" THEN {} ELSE {Garbled})

\* ... then writes and closes; a renamed file keeps its open handles
Write(t) ==
    /\ At(t, "write", "rename")
    /\ \/ handle[t] = "tmp" /\ tmp' \in Written(tmp, snap[t]) /\ UNCHANGED journal
       \/ handle[t] = "journal" /\ journal' \in Written(journal, snap[t]) /\ UNCHANGED tmp
       \/ handle[t] = "gone" /\ UNCHANGED <<tmp, journal>>
    /\ handle' = [handle EXCEPT ![t] = "none"]
    /\ UNCHANGED <<map, seq, op, snap, todo, failed, process>>

\* Mutant: the call returns before the new journal is in place.
RenameForgotten(t) ==
    /\ At(t, "rename", "idle")
    /\ UNCHANGED <<map, seq, op, snap, todo, files, process>>

Moved(h) == CASE h = "tmp" -> "journal" [] h = "journal" -> "gone" [] OTHER -> h

Rename(t) ==
    /\ At(t, "rename", "idle") /\ tmp # Absent
    /\ journal' = tmp /\ tmp' = Absent
    /\ handle' = [u \in Threads |-> Moved(handle[u])]
    /\ failed' = FALSE
    /\ UNCHANGED <<map, seq, op, snap, todo, process>>

\* an I/O error, or no temporary file left to rename: the call returns the
\* error, and its change stays in the map
PersistFails(t) ==
    /\ pc[t] \in {"create", "write", "rename"}
    /\ pc' = [pc EXCEPT ![t] = "idle"]
    /\ handle' = [handle EXCEPT ![t] = "none"]
    /\ failed' = TRUE
    /\ UNCHANGED <<map, seq, op, snap, todo, tmp, journal, process>>

-----------------------------------------------------------------------------
(* The process dies, and another one opens the store *)

Readable == journal.state # "garbled"

Crash ==
    /\ up /\ crashes < MaxCrashes
    /\ crashes' = crashes + 1
    /\ map' = journal.snap.entries /\ seq' = journal.snap.next
    /\ up' = Readable
    /\ pc' = [t \in Threads |-> "idle"] /\ op' = [t \in Threads |-> NoOp]
    /\ snap' = [t \in Threads |-> EmptySnapshot] /\ todo' = [t \in Threads |-> {}]
    /\ handle' = [t \in Threads |-> "none"] /\ failed' = FALSE
    /\ UNCHANGED <<tmp, journal>>

Call(t) ==
    \/ \E k \in Keys : Set(t, k) \/ CasCheck(t, k) \/ Delete(t, k) \/ Visit(t, k)
    \/ CasFetch(t) \/ Insert(t) \/ ReadCounter(t)
    \/ Create(t) \/ Write(t) \/ Rename(t) \/ PersistFails(t)

\* the versions of the bound are used up, or the journal cannot be parsed
Rest ==
    /\ ~up \/ seq = MaxVersion
    /\ UNCHANGED vars

Next == (\E t \in Threads : Call(t)) \/ Crash \/ Rest

Spec == Init /\ [][Next]_vars

-----------------------------------------------------------------------------
TypeOK ==
    /\ map \in [Keys -> Entry] /\ seq \in Version
    /\ pc \in [Threads -> {"idle", "fetch", "insert", "snap", "create", "write", "rename"}]
    /\ op \in [Threads -> [cas : BOOLEAN, key : Keys, expected : Version, version : Version]]
    /\ snap \in [Threads -> Snapshot] /\ todo \in [Threads -> SUBSET Keys]
    /\ tmp \in File /\ journal \in File
    /\ handle \in [Threads -> {"none", "tmp", "journal", "gone"}]
    /\ failed \in BOOLEAN /\ up \in BOOLEAN /\ crashes \in 0..MaxCrashes

Covers(s) == \A k \in Keys : s.entries[k].version <= s.next

\* The counter is never behind a version in the map, nor next_version behind one
\* in a snapshot or a file: reopening a journal, however stale, never leads to a
\* version being issued twice for entries that are still there. OneWritePerVersion
\* rests on it; it is proved in KvStoreProof.
CounterCoversVersions ==
    /\ Covers([entries |-> map, next |-> seq])
    /\ \A t \in Threads : pc[t] \in {"create", "write", "rename"} => Covers(snap[t])
    /\ Covers(tmp.snap) /\ Covers(journal.snap)

\* A version names one write: no two entries share one and no call is about to
\* insert one that is in use, whatever threads and restarts did.
OneWritePerVersion ==
    /\ \A k, l \in Keys : k # l /\ map[k].version # 0 => map[k].version # map[l].version
    /\ \A t \in Threads : pc[t] = "insert" =>
         /\ \A k \in Keys : map[k].version # op[t].version
         /\ \A u \in Threads \ {t} : pc[u] = "insert" => op[u].version # op[t].version

Quiescent == up /\ \A t \in Threads : pc[t] = "idle"

\* With one caller the journal is a whole snapshot at every instant, also in the
\* middle of a write, so that a crash never finds it torn; and when no call is under
\* way and the last one did not fail, it holds the map: what a caller was told is
\* stored survives a crash.
JournalHolds ==
    /\ journal.state \in {"absent", "full"}
    /\ Quiescent /\ ~failed => journal.snap.entries = map

\* "Compare-and-swap. Sets only if current entry's version matches
\* `expected_version`."
CasReplacesExpected ==
    [][\A t \in Threads : pc[t] = "insert" /\ pc'[t] # "insert" /\ op[t].cas /\ crashes' = crashes
         => map[op[t].key].version = op[t].expected]_vars
=============================================================================
