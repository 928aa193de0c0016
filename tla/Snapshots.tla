------------------------------ MODULE Snapshots ------------------------------
(* Sandboxes and their snapshots (cersei-vms): create, kill, pause and resume of  *)
(* the two backends, snapshot and restore with the key/value store that all       *)
(* sandboxes of a runtime share, and the registry of manifests on disk            *)
(* (backends/local.rs, backends/docker.rs, snapshot.rs, primitives/kv.rs).        *)
(*                                                                               *)
(* The local backend copies a sandbox file by file, while its commands go on; the *)
(* other one commits an image. KvStore models the store's own threads: here one   *)
(* caller sets and deletes keys. The store is in memory, as both runtimes open it. *)
(* A process that dies loses everything but images and manifests, which both       *)
(* backends keep in one registry; the next one may be of the other backend.        *)
EXTENDS Integers, Sequences, FiniteSets

CONSTANTS Files, Keys,
          Callers,      \* tasks that take and restore snapshots
          MaxBoxes,     \* bound: sandboxes of a process
          MaxSnaps,     \* bound: snapshots
          MaxStamps,    \* bound: writes to files and keys
          MaxStopped,   \* bound: sandboxes killed or paused at a time
          MaxCrashes    \* bound

VARIABLES
    backend,    \* "local" or "docker"
    boxes,      \* the runtime's sandboxes: files and status
    store,      \* KvInner.map: [key -> [version, value]]
    counter,    \* version_seq
    setting,    \* a set that has its version and has not inserted yet
    images,     \* the trees or images of the snapshots, as far as they are copied
    origin,     \* which backend each of them is for
    manifests,  \* <id>.json: what the store held
    cache,      \* the ids the registry knows
    caller,     \* where each caller is in snapshot or restore
    stamp,      \* how many values were written
    crashes,
    taken       \* ghost: what sandbox and store held when the snapshot was asked for

vmVars == <<backend, boxes, store, counter, setting, images, origin, manifests, cache,
            caller, stamp, crashes, taken>>

NoSet == [key |-> "none", version |-> 0, value |-> 0]

\* still: nobody wrote into the sandbox meanwhile; calm: nobody changed the store
Idle == [at |-> "idle", box |-> 0, id |-> 0, left |-> {}, entries |-> <<>>, next |-> 0,
         still |-> TRUE, calm |-> TRUE]

With(f, k, v)  == [x \in DOMAIN f \cup {k} |-> IF x = k THEN v ELSE f[x]]
Without(f, k)  == [x \in DOMAIN f \ {k} |-> f[x]]

Init ==
    /\ backend \in {"local", "docker"}
    /\ boxes = <<>> /\ store = <<>> /\ counter = 0 /\ setting = NoSet
    /\ images = <<>> /\ origin = <<>> /\ manifests = <<>> /\ cache = {}
    /\ caller = [c \in Callers |-> Idle]
    /\ stamp = 0 /\ crashes = 0 /\ taken = <<>>

machine == <<backend, stamp, crashes>>
disks   == <<images, origin, manifests>>
kv      == <<store, counter, setting>>

\* the callers' records once the store has changed, or sandbox b
Stirred    == [c \in Callers |-> [caller[c] EXCEPT !.calm = (caller[c].at = "idle")]]
Touched(b) == [c \in Callers |-> [caller[c] EXCEPT !.still = @ /\ caller[c].box # b]]

\* what caller c does next, with one thing less to do
Step(c, x, then, todo) ==
    [caller[c] EXCEPT !.left = IF @ = {x} THEN todo ELSE @ \ {x},
                      !.at   = IF caller[c].left = {x} THEN then ELSE @]

-------------------------------------------------------------------------------
(* Sandboxes *)

Creating == {c \in Callers : caller[c].at = "create"}
Room     == Len(boxes) + Cardinality(Creating) < MaxBoxes

Create ==
    /\ Room
    /\ boxes' = Append(boxes, [files |-> [f \in Files |-> 0], status |-> "running"])
    /\ UNCHANGED <<machine, kv, disks, cache, caller, taken>>

\* A command writes; killing a local sandbox stops none.
Write(b, f) ==
    /\ stamp < MaxStamps /\ stamp' = stamp + 1
    /\ boxes[b].status = "running" \/ backend = "local"
    /\ boxes' = [boxes EXCEPT ![b].files[f] = stamp'] /\ caller' = Touched(b)
    /\ UNCHANGED <<backend, crashes, kv, disks, cache, taken>>

SetStatus(b, status) ==
    /\ boxes' = [boxes EXCEPT ![b].status = status]
    /\ UNCHANGED <<machine, kv, disks, cache, caller, taken>>

MayStop(b) == Cardinality({a \in DOMAIN boxes \ {b} : boxes[a].status # "running"}) < MaxStopped

Kill(b)   == boxes[b].status # "killed" /\ MayStop(b) /\ SetStatus(b, "killed")
Pause(b)  == /\ backend = "docker" /\ boxes[b].status = "running" /\ MayStop(b)
             /\ SetStatus(b, "paused")
Resume(b) == backend = "docker" /\ boxes[b].status = "paused" /\ SetStatus(b, "running")

-------------------------------------------------------------------------------
(* The shared store *)

SetBegins(k) ==
    /\ setting = NoSet /\ stamp < MaxStamps /\ stamp' = stamp + 1
    /\ counter' = counter + 1
    /\ setting' = [key |-> k, version |-> counter', value |-> stamp']
    /\ caller' = Stirred
    /\ UNCHANGED <<backend, crashes, boxes, store, disks, cache, taken>>

SetEnds ==
    /\ setting # NoSet /\ setting' = NoSet
    /\ store' = With(store, setting.key, [version |-> setting.version, value |-> setting.value])
    /\ caller' = Stirred
    /\ UNCHANGED <<machine, boxes, counter, disks, cache, taken>>

Delete(k) ==
    /\ k \in DOMAIN store /\ store' = Without(store, k) /\ caller' = Stirred
    /\ UNCHANGED <<machine, boxes, counter, setting, disks, cache, taken>>

-------------------------------------------------------------------------------
(* snapshot: the files, the store, the manifest *)

\* Mutant: the manifest is there before the files are.
SnapshotPutsFirst(c, b) ==
    /\ caller[c].at = "idle" /\ Len(images) < MaxSnaps
    /\ images' = Append(images, <<>>) /\ origin' = Append(origin, backend)
    /\ manifests' = With(manifests, Len(images'), [entries |-> store, next |-> counter])
    /\ caller' = [caller EXCEPT ![c] = [Idle EXCEPT !.at = "copy", !.box = b,
                                           !.id = Len(images'), !.left = Files]]
    /\ taken' = Append(taken, [files |-> boxes[b].files, entries |-> store, next |-> counter,
                               still |-> TRUE, calm |-> TRUE])
    /\ UNCHANGED <<machine, boxes, kv, cache>>

Snapshot(c, b) ==
    /\ caller[c].at = "idle" /\ Len(images) < MaxSnaps
    /\ images' = Append(images, <<>>) /\ origin' = Append(origin, backend)
    /\ caller' = [caller EXCEPT ![c] = [Idle EXCEPT !.at = "copy", !.box = b,
                                           !.id = Len(images'), !.left = Files]]
    /\ taken' = Append(taken, [files |-> boxes[b].files, entries |-> store, next |-> counter,
                               still |-> TRUE, calm |-> TRUE])
    /\ UNCHANGED <<machine, boxes, kv, manifests, cache>>

\* copy_dir_all copies one file after the other
CopyFile(c, f) ==
    /\ backend = "local" /\ caller[c].at = "copy" /\ f \in caller[c].left
    /\ images' = [images EXCEPT ![caller[c].id] = With(@, f, boxes[caller[c].box].files[f])]
    /\ caller' = [caller EXCEPT ![c] = Step(c, f, "entries", Keys)]
    /\ UNCHANGED <<machine, boxes, kv, origin, manifests, cache, taken>>

\* docker commit halts the container for as long as it copies; a killed one is gone
Commit(c) ==
    /\ backend = "docker" /\ caller[c].at = "copy" /\ boxes[caller[c].box].status # "killed"
    /\ images' = [images EXCEPT ![caller[c].id] = boxes[caller[c].box].files]
    /\ caller' = [caller EXCEPT ![c].at = "entries", ![c].left = Keys]
    /\ UNCHANGED <<machine, boxes, kv, origin, manifests, cache, taken>>

\* KvStore::snapshot: entry by entry, then the counter
ReadEntry(c, k) ==
    /\ caller[c].at = "entries" /\ k \in caller[c].left
    /\ caller' = [caller EXCEPT ![c] =
           [Step(c, k, "counter", {}) EXCEPT !.entries =
               IF k \in DOMAIN store THEN With(@, k, store[k]) ELSE @]]
    /\ UNCHANGED <<machine, boxes, kv, disks, cache, taken>>

ReadCounter(c) ==
    /\ caller[c].at = "counter"
    /\ caller' = [caller EXCEPT ![c].at = "put", ![c].next = counter]
    /\ taken' = [taken EXCEPT ![caller[c].id].still = caller[c].still,
                              ![caller[c].id].calm = caller[c].calm]
    /\ UNCHANGED <<machine, boxes, kv, disks, cache>>

\* the manifest is renamed into place, and then known
Put(c) ==
    /\ caller[c].at = "put"
    /\ manifests' = With(manifests, caller[c].id,
                         [entries |-> caller[c].entries, next |-> caller[c].next])
    /\ caller' = [caller EXCEPT ![c].at = "cache"]
    /\ UNCHANGED <<machine, boxes, kv, images, origin, cache, taken>>

Register(c) ==
    /\ caller[c].at = "cache" /\ cache' = cache \cup {caller[c].id}
    /\ caller' = [caller EXCEPT ![c] = Idle]
    /\ UNCHANGED <<machine, boxes, kv, disks, taken>>

\* SnapshotRegistry::remove; the image stays
Remove(id) ==
    /\ id \in cache /\ cache' = cache \ {id} /\ manifests' = Without(manifests, id)
    /\ UNCHANGED <<machine, boxes, kv, images, origin, caller, taken>>

-------------------------------------------------------------------------------
(* restore: a new sandbox, its files, the store *)

Restore(c, id) ==
    /\ caller[c].at = "idle" /\ id \in cache /\ Room
    /\ caller' = [caller EXCEPT ![c] = [Idle EXCEPT !.at = "create", !.id = id,
                      !.entries = manifests[id].entries, !.next = manifests[id].next]]
    /\ UNCHANGED <<machine, boxes, kv, disks, cache, taken>>

\* a local sandbox starts empty and is known before its files are there; a tree that
\* is not there, as of the other backend's snapshot, is not missed
Tree(id) == IF origin[id] = "local" THEN DOMAIN images[id] ELSE {}
Recreate(c) ==
    /\ caller[c].at = "create"
    /\ backend = "docker" => caller[c].id \in cache /\ origin[caller[c].id] = "docker"
    /\ LET todo == IF backend = "local" THEN Tree(caller[c].id) ELSE {} IN
       /\ boxes' = Append(boxes, [status |-> "running",
                     files |-> IF backend = "local" THEN [f \in Files |-> 0] ELSE images[caller[c].id]])
       /\ caller' = [caller EXCEPT ![c].box = Len(boxes'),
                        ![c].at = IF todo # {} THEN "back" ELSE "clear",
                        ![c].left = IF todo # {} THEN todo ELSE Keys]
    /\ UNCHANGED <<machine, kv, disks, cache, taken>>

CopyBack(c, f) ==
    /\ caller[c].at = "back" /\ f \in caller[c].left
    /\ boxes' = [boxes EXCEPT ![caller[c].box].files[f] = images[caller[c].id][f]]
    /\ caller' = [Touched(caller[c].box) EXCEPT ![c] = Step(c, f, "clear", Keys)]
    /\ UNCHANGED <<machine, kv, disks, cache, taken>>

\* Mutant: the entries of the snapshot are added to those there are.
ClearNothing(c, k) ==
    /\ caller[c].at = "clear" /\ k \in caller[c].left
    /\ LET todo == DOMAIN caller[c].entries IN
       caller' = [Stirred EXCEPT ![c] =
                     Step(c, k, IF todo = {} THEN "next" ELSE "insert", todo)]
    /\ UNCHANGED <<machine, boxes, kv, disks, cache, taken>>

\* DashMap::clear goes from shard to shard
Clear(c, k) ==
    /\ caller[c].at = "clear" /\ k \in caller[c].left
    /\ store' = Without(store, k)
    /\ LET todo == DOMAIN caller[c].entries IN
       caller' = [Stirred EXCEPT ![c] =
                     Step(c, k, IF todo = {} THEN "next" ELSE "insert", todo)]
    /\ UNCHANGED <<machine, boxes, counter, setting, disks, cache, taken>>

Insert(c, k) ==
    /\ caller[c].at = "insert" /\ k \in caller[c].left
    /\ store' = With(store, k, caller[c].entries[k])
    /\ caller' = [Stirred EXCEPT ![c] = Step(c, k, "next", {})]
    /\ UNCHANGED <<machine, boxes, counter, setting, disks, cache, taken>>

StoreCounter(c) ==
    /\ caller[c].at = "next" /\ counter' = caller[c].next
    /\ caller' = [Stirred EXCEPT ![c] = [caller[c] EXCEPT !.at = "restored"]]
    /\ UNCHANGED <<machine, boxes, store, setting, disks, cache, taken>>

Return(c) ==
    /\ caller[c].at = "restored" /\ caller' = [caller EXCEPT ![c] = Idle]
    /\ UNCHANGED <<machine, boxes, kv, disks, cache, taken>>

\* a file, the manifest or the container cannot be made: what was done stays
Fail(c) ==
    /\ caller[c].at \in {"copy", "put", "create", "back"}
    /\ caller' = [caller EXCEPT ![c] = Idle]
    /\ UNCHANGED <<machine, boxes, kv, disks, cache, taken>>

(* The process dies, and the next one opens the registry, with either backend. *)
Crash ==
    /\ crashes < MaxCrashes /\ crashes' = crashes + 1 /\ backend' \in {"local", "docker"}
    /\ boxes' = <<>> /\ store' = <<>> /\ counter' = 0 /\ setting' = NoSet
    /\ caller' = [c \in Callers |-> Idle] /\ cache' = DOMAIN manifests
    /\ UNCHANGED <<stamp, disks, taken>>

\* nobody is in the middle of anything
Quiet == setting = NoSet /\ (\A c \in Callers : caller[c] = Idle) /\ UNCHANGED vmVars

Next ==
    \/ Create \/ SetEnds \/ Crash \/ Quiet
    \/ \E b \in DOMAIN boxes : Kill(b) \/ Pause(b) \/ Resume(b) \/ \E f \in Files : Write(b, f)
    \/ \E k \in Keys : SetBegins(k) \/ Delete(k)
    \/ \E id \in cache : Remove(id)
    \/ \E c \in Callers :
         \/ \E b \in DOMAIN boxes : Snapshot(c, b)
         \/ \E id \in cache : Restore(c, id)
         \/ \E f \in Files : CopyFile(c, f) \/ CopyBack(c, f)
         \/ \E k \in Keys : ReadEntry(c, k) \/ Clear(c, k) \/ Insert(c, k)
         \/ Commit(c) \/ ReadCounter(c) \/ Put(c) \/ Register(c) \/ Recreate(c)
         \/ StoreCounter(c) \/ Return(c) \/ Fail(c)

Spec == Init /\ [][Next]_vmVars

-------------------------------------------------------------------------------
TypeOK ==
    /\ backend \in {"local", "docker"}
    /\ boxes \in Seq([files : [Files -> Nat], status : {"running", "paused", "killed"}])
    /\ DOMAIN store \subseteq Keys /\ counter \in Nat /\ stamp \in 0..MaxStamps
    /\ \A k \in DOMAIN store : store[k] \in [version : Nat, value : Nat]
    /\ \A id \in DOMAIN images : DOMAIN images[id] \subseteq Files
    /\ origin \in Seq({"local", "docker"}) /\ Len(origin) = Len(images)
    /\ cache \subseteq DOMAIN images /\ crashes \in 0..MaxCrashes

\* A snapshot that is known, after a restart too, has all its files.
ManifestsAreWhole ==
    /\ cache \subseteq DOMAIN manifests
    /\ \A id \in DOMAIN manifests : DOMAIN images[id] = Files

\* A restored sandbox has the files its model had when the snapshot was asked for, if
\* it is of the same backend and nobody wrote into either meanwhile; and so the store.
RestoresAreFaithful ==
    \A c \in Callers : caller[c].at = "restored" =>
        LET t == taken[caller[c].id] IN
        /\ origin[caller[c].id] = backend /\ t.still /\ caller[c].still
             => boxes[caller[c].box].files = t.files
        /\ t.calm /\ caller[c].calm => store = t.entries /\ counter = t.next

(* What is restored is what was snapshotted. *)
SnapshotsAreSound == ManifestsAreWhole /\ RestoresAreFaithful

(* "A snapshot manifest captures everything we need to fully restore a sandbox"
   (snapshot.rs:3). It fails: the local backend restores a Docker snapshot to nothing. *)
RestoresAreWhole ==
    \A c \in Callers : caller[c].at = "restored" =>
        (taken[caller[c].id].still /\ caller[c].still
             => boxes[caller[c].box].files = taken[caller[c].id].files)

(* "Terminate and clean up the sandbox" (runtime.rs:69). It fails: the local backend only
   notes that a sandbox was killed. *)
KilledIsStill ==
    [][\A b \in DOMAIN boxes : boxes[b].status = "killed" /\ b \in DOMAIN boxes'
          => boxes'[b].files = boxes[b].files]_vmVars

(* A version never names two values (KvStore). It fails: restore puts the counter back. *)
VersionsNameValues ==
    \A s \in DOMAIN taken, k, l \in Keys :
        k \in DOMAIN store /\ l \in DOMAIN taken[s].entries
        /\ store[k].version = taken[s].entries[l].version => store[k] = taken[s].entries[l]
===============================================================================
